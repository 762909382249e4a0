-------------------------- MODULE GcHandlesProofs ---------------------------
(***************************************************************************)
(* The table of handles is consistent, and what clients see of it is a     *)
(* HandleStore, for any number of structures and objects, as long as ids   *)
(* do not run out: a host that keeps an id would otherwise find the handle *)
(* that has been given the same id again (GcHandlesIdsWrap.cfg).           *)
(*                                                                         *)
(* As long as they do not, the n-th handle has id n, so that the ids in    *)
(* the map are those of the handles that are held.                         *)
(***************************************************************************)
EXTENDS GcHandles, SequenceTheorems, TLAPS

IdsSuffice == MaxHandles <= IdLimit

(* The map leads from the id of each handle that is held, and from no      *)
(* other, to the structure of the handle, which knows the id.              *)
MapKnowsHeld ==
    /\ DOMAIN byId = {n \in DOMAIN issued : Held(n)}
    /\ \A n \in DOMAIN byId : byId[n] = issued[n].info /\ infos[byId[n]].id = n

IdsCount ==
    /\ lastId = Len(issued)
    /\ Len(issued) <= MaxHandles
    /\ \A n \in DOMAIN issued : issued[n].id = n

FreedHaveNoId == \A i \in DOMAIN freedList : infos[freedList[i]].id = 0

ListedOnce == \A i, j \in DOMAIN freedList : freedList[i] = freedList[j] => i = j

HandlesIInv == TypeOK /\ IdsCount /\ MapKnowsHeld /\ FreedHaveNoId /\ ListedOnce

Handle(structures) == [info : structures, id : 1 .. IdLimit, host : BOOLEAN, freed : BOOLEAN]

LEMMA HandleType ==
    ASSUME TypeOK
    PROVE  /\ issued \in Seq(Handle(DOMAIN infos))
           /\ DOMAIN issued = 1 .. Len(issued)
           /\ Len(issued) \in Nat
           /\ \A n \in DOMAIN issued : issued[n] \in Handle(DOMAIN infos)
<1>1. issued \in Seq(Handle(DOMAIN infos))
  BY DEF TypeOK, Handle
<1> QED BY <1>1, ElementOfSeq

LEMMA HandleOfMore ==
    ASSUME NEW S, NEW T, S \subseteq T, NEW h \in Handle(S)
    PROVE  h \in Handle(T)
BY DEF Handle

LEMMA SeqOfMore ==
    ASSUME NEW S, NEW T, NEW s \in Seq(S), \A i \in DOMAIN s : s[i] \in T
    PROVE  s \in Seq(T)
OBVIOUS

LEMMA InitHandles == ASSUME HandlesAssumption PROVE Init => HandlesIInv
BY DEF HandlesAssumption, Init, HandlesIInv, TypeOK, IdsCount, MapKnowsHeld, FreedHaveNoId,
       ListedOnce, Held, Range

(* The next id is new, and the structure that gets it is in no use. *)
LEMMA Allocated ==
    ASSUME HandlesAssumption, IdsSuffice, HandlesIInv, Len(issued) < MaxHandles,
           NEW info \in Available, info \in Infos
    PROVE  /\ NextId = Len(issued) + 1
           /\ NextId \in 1 .. IdLimit
           /\ \A n \in DOMAIN byId : byId[n] # info
           /\ freedList # <<>> =>
                  /\ Tail(freedList) \in Seq(DOMAIN infos)
                  /\ Len(Tail(freedList)) = Len(freedList) - 1
                  /\ \A i \in DOMAIN Tail(freedList) :
                         Tail(freedList)[i] = freedList[i + 1] /\ Tail(freedList)[i] # info
<1>1. NextId = Len(issued) + 1 /\ NextId \in 1 .. IdLimit
  <2>1. /\ lastId = Len(issued) /\ lastId \in Nat /\ IdLimit \in Nat
        /\ lastId + 1 <= IdLimit
    BY DEF HandlesAssumption, IdsSuffice, HandlesIInv, IdsCount, TypeOK
  <2>2. \A x, m \in Nat : x <= m => x % (m + 1) = x
    OBVIOUS
  <2>3. NextId = lastId + 1
    BY <2>1, <2>2 DEF NextId
  <2> QED BY <2>1, <2>3
<1>2. ASSUME NEW n \in DOMAIN byId, byId[n] = info PROVE FALSE
  <2>1. n # 0 /\ infos[info].id = n /\ info \in DOMAIN infos
    BY <1>2 DEF HandlesIInv, TypeOK, MapKnowsHeld, Range
  <2>2. CASE freedList = <<>>
    BY <2>1, <2>2 DEF Available
  <2>3. CASE freedList # <<>>
    <3>1. info = freedList[1] /\ 1 \in DOMAIN freedList
      BY <2>3 DEF Available, HandlesIInv, TypeOK
    <3> QED BY <3>1, <2>1 DEF HandlesIInv, FreedHaveNoId
  <2> QED BY <2>2, <2>3
<1>3. ASSUME freedList # <<>>
      PROVE  /\ Tail(freedList) \in Seq(DOMAIN infos)
             /\ Len(Tail(freedList)) = Len(freedList) - 1
             /\ \A i \in DOMAIN Tail(freedList) :
                    Tail(freedList)[i] = freedList[i + 1] /\ Tail(freedList)[i] # info
  <2>1. freedList \in Seq(DOMAIN infos) /\ info = freedList[1]
    BY <1>3 DEF Available, HandlesIInv, TypeOK
  <2>2. /\ Tail(freedList) \in Seq(DOMAIN infos)
        /\ Len(Tail(freedList)) = Len(freedList) - 1
        /\ DOMAIN Tail(freedList) = 1 .. (Len(freedList) - 1)
        /\ \A i \in 1 .. (Len(freedList) - 1) : Tail(freedList)[i] = freedList[i + 1]
    BY <2>1, <1>3
  <2>3. \A i \in 1 .. (Len(freedList) - 1) : freedList[i + 1] # info
    BY <2>1, <1>3 DEF HandlesIInv, ListedOnce
  <2> QED BY <2>2, <2>3
<1> QED BY <1>1, <1>2, <1>3

LEMMA NewHandleStep ==
    ASSUME HandlesAssumption, IdsSuffice, HandlesIInv,
           NEW obj \in Targets, NEW type \in HandleTypes, NEW byHost \in BOOLEAN,
           NewHandle(obj, type, byHost)
    PROVE  HandlesIInv'
<1>1. PICK info \in Infos :
         /\ AllocHandle(info, obj, type)
         /\ issued' = Append(issued, [info |-> info, id |-> infos'[info].id,
                                      host |-> byHost, freed |-> FALSE])
  BY DEF NewHandle
<1> DEFINE new == Len(issued) + 1
           entry == [obj |-> obj, type |-> type, id |-> new]
           handle == [info |-> info, id |-> new, host |-> byHost, freed |-> FALSE]
<1>2. Len(issued) < MaxHandles /\ info \in Available
  BY <1>1 DEF NewHandle, AllocHandle
<1>3. /\ NextId = new
      /\ new \in 1 .. IdLimit
      /\ \A n \in DOMAIN byId : byId[n] # info
      /\ freedList # <<>> =>
             /\ Tail(freedList) \in Seq(DOMAIN infos)
             /\ Len(Tail(freedList)) = Len(freedList) - 1
             /\ \A i \in DOMAIN Tail(freedList) :
                    Tail(freedList)[i] = freedList[i + 1] /\ Tail(freedList)[i] # info
  BY <1>2, Allocated
<1>4. /\ lastId' = new
      /\ freedList' = IF freedList = <<>> THEN <<>> ELSE Tail(freedList)
      /\ DOMAIN infos' = DOMAIN infos \cup {info}
      /\ infos'[info] = entry
      /\ \A i \in DOMAIN infos : i # info => infos'[i] = infos[i]
      /\ infos' = [i \in DOMAIN infos' |-> infos'[i]]
  BY <1>1, <1>3 DEF AllocHandle, Extended
<1>5. /\ DOMAIN byId' = DOMAIN byId \cup {new}
      /\ byId'[new] = info
      /\ \A n \in DOMAIN byId : n # new => byId'[n] = byId[n]
  BY <1>1, <1>3 DEF AllocHandle, Extended
<1>6. issued' = Append(issued, handle)
  BY <1>1, <1>4
<1>7. /\ issued \in Seq([info : DOMAIN infos, id : 1 .. IdLimit, host : BOOLEAN, freed : BOOLEAN])
      /\ DOMAIN issued = 1 .. Len(issued) /\ Len(issued) \in Nat
  BY DEF HandlesIInv, TypeOK
<1>8. /\ Len(issued') = new
      /\ DOMAIN issued' = DOMAIN issued \cup {new}
      /\ issued'[new] = handle
      /\ \A n \in DOMAIN issued : issued'[n] = issued[n] /\ n # new
  BY <1>6, <1>7
<1>9. TypeOK'
  <2>1. DOMAIN infos' \subseteq Infos
    BY <1>4 DEF HandlesIInv, TypeOK
  <2>2. infos' \in [DOMAIN infos' -> [obj : Targets, type : HandleTypes, id : 0 .. IdLimit]]
    BY <1>3, <1>4 DEF HandlesIInv, TypeOK
  <2>3. freedList' \in Seq(DOMAIN infos')
    BY <1>3, <1>4 DEF HandlesIInv, TypeOK
  <2>4. lastId' \in 0 .. IdLimit
    BY <1>3, <1>4
  <2>5. DOMAIN byId' \subseteq 1 .. IdLimit
    BY <1>3, <1>5 DEF HandlesIInv, TypeOK
  <2>6. Range(byId') \subseteq DOMAIN infos'
    BY <1>4, <1>5 DEF HandlesIInv, TypeOK, Range
  <2>7. issued' \in Seq([info : DOMAIN infos', id : 1 .. IdLimit,
                         host : BOOLEAN, freed : BOOLEAN])
    <3> DEFINE Any == Handle(DOMAIN infos')
    <3>1. DOMAIN infos \subseteq DOMAIN infos'
      BY <1>4
    <3>2. \A n \in DOMAIN issued : issued[n] \in Any
      BY <3>1, HandleType, HandleOfMore DEF HandlesIInv
    <3>3. handle \in Any
      BY <1>3, <1>4 DEF Handle
    <3> HIDE DEF Any, handle
    <3>4. issued \in Seq(Any)
      BY <3>2, HandleType, SeqOfMore DEF HandlesIInv
    <3>5. Append(issued, handle) \in Seq(Any)
      BY <3>3, <3>4
    <3> QED BY <3>5, <1>6 DEF Any, Handle
  <2> QED BY <2>1, <2>2, <2>3, <2>4, <2>5, <2>6, <2>7 DEF TypeOK
<1>10. IdsCount'
  BY <1>2, <1>4, <1>7, <1>8 DEF HandlesIInv, IdsCount
<1>11. MapKnowsHeld'
  <2>1. DOMAIN byId' = {n \in DOMAIN issued' : Held(n)'}
    BY <1>5, <1>8 DEF HandlesIInv, MapKnowsHeld, Held
  <2>2. ASSUME NEW n \in DOMAIN byId'
        PROVE  byId'[n] = issued'[n].info /\ infos'[byId'[n]].id = n
    <3>1. CASE n = new
      BY <3>1, <1>4, <1>5, <1>8
    <3>2. CASE n # new
      <4>1. n \in DOMAIN byId /\ n \in DOMAIN issued
        BY <3>2, <1>5, <2>1, <1>8
      <4>2. byId[n] # info /\ byId[n] \in DOMAIN infos
        BY <4>1, <1>3 DEF HandlesIInv, TypeOK, Range
      <4> QED BY <3>2, <4>1, <4>2, <1>4, <1>5, <1>8 DEF HandlesIInv, MapKnowsHeld
    <3> QED BY <3>1, <3>2
  <2> QED BY <2>1, <2>2 DEF MapKnowsHeld
<1>12. FreedHaveNoId' /\ ListedOnce'
  <2>1. CASE freedList = <<>>
    BY <2>1, <1>4 DEF FreedHaveNoId, ListedOnce
  <2>2. CASE freedList # <<>>
    <3>1. freedList' = Tail(freedList)
      BY <2>2, <1>4
    <3>2. freedList \in Seq(DOMAIN infos) /\ Tail(freedList) \in Seq(DOMAIN infos)
      BY <2>2, <1>3 DEF HandlesIInv, TypeOK
    <3>3. \A i \in DOMAIN Tail(freedList) : i \in Nat /\ i + 1 \in DOMAIN freedList
      BY <3>2, <2>2, <1>3
    <3>4. ASSUME NEW i \in DOMAIN freedList' PROVE infos'[freedList'[i]].id = 0
      <4>1. freedList'[i] \in DOMAIN infos /\ freedList'[i] # info
        BY <3>1, <3>2, <2>2, <1>3
      <4> QED BY <4>1, <3>1, <3>3, <2>2, <1>3, <1>4 DEF HandlesIInv, FreedHaveNoId
    <3>5. ASSUME NEW i \in DOMAIN freedList', NEW j \in DOMAIN freedList',
                 freedList'[i] = freedList'[j]
          PROVE  i = j
      BY <3>1, <3>3, <3>5, <2>2, <1>3 DEF HandlesIInv, ListedOnce
    <3> QED BY <3>4, <3>5 DEF FreedHaveNoId, ListedOnce
  <2> QED BY <2>1, <2>2
<1> QED BY <1>9, <1>10, <1>11, <1>12 DEF HandlesIInv

(* The structure of a handle that is held is that of no other one. *)
LEMMA HeldStructure ==
    ASSUME HandlesIInv, NEW n \in DOMAIN issued, Held(n)
    PROVE  /\ n \in DOMAIN byId
           /\ byId[n] = issued[n].info
           /\ issued[n].info \in DOMAIN infos
           /\ infos[issued[n].info].id = n
           /\ \A m \in DOMAIN byId : m # n => byId[m] # issued[n].info
           /\ \A i \in DOMAIN freedList : freedList[i] # issued[n].info
<1>1. n \in DOMAIN byId
  BY DEF HandlesIInv, MapKnowsHeld
<1>2. n # 0 /\ byId[n] = issued[n].info /\ infos[issued[n].info].id = n
  BY <1>1 DEF HandlesIInv, MapKnowsHeld, TypeOK
<1>3. issued[n].info \in DOMAIN infos
  BY <1>1, <1>2 DEF HandlesIInv, TypeOK, Range
<1>4. \A m \in DOMAIN byId : m # n => byId[m] # issued[n].info
  BY <1>2 DEF HandlesIInv, MapKnowsHeld
<1>5. \A i \in DOMAIN freedList : freedList[i] # issued[n].info
  BY <1>2 DEF HandlesIInv, FreedHaveNoId
<1> QED BY <1>1, <1>2, <1>3, <1>4, <1>5

LEMMA SetTargetStep ==
    ASSUME HandlesAssumption, HandlesIInv,
           NEW obj \in Targets, NEW type \in HandleTypes, NEW n \in DOMAIN issued,
           SetTarget(n, obj, type)
    PROVE  HandlesIInv'
<1> DEFINE info == issued[n].info
<1>1. /\ DOMAIN infos' = DOMAIN infos
      /\ infos' \in [DOMAIN infos -> [obj : Targets, type : HandleTypes, id : 0 .. IdLimit]]
      /\ \A i \in DOMAIN infos : infos'[i].id = infos[i].id
      /\ UNCHANGED <<freedList, lastId, byId, issued>>
  BY DEF SetTarget, HandlesIInv, TypeOK
<1>2. TypeOK'
  BY <1>1 DEF HandlesIInv, TypeOK, Range
<1>3. MapKnowsHeld' /\ IdsCount' /\ ListedOnce'
  BY <1>1 DEF HandlesIInv, MapKnowsHeld, IdsCount, ListedOnce, Held, TypeOK, Range
<1>4. FreedHaveNoId'
  BY <1>1 DEF HandlesIInv, FreedHaveNoId, TypeOK
<1> QED BY <1>2, <1>3, <1>4 DEF HandlesIInv

(* Freeing a structure, under the conditions of both ways to free a handle *)
LEMMA Freeing ==
    ASSUME HandlesAssumption, HandlesIInv, NEW n \in DOMAIN issued, Held(n),
           FreeHandleImpl(issued[n].info),
           issued' = [issued EXCEPT ![n].freed = TRUE], UNCHANGED lastId
    PROVE  HandlesIInv'
<1> DEFINE info == issued[n].info
           blank == [obj |-> Null, type |-> "Normal", id |-> 0]
<1>1. /\ n \in DOMAIN byId /\ byId[n] = info
      /\ info \in DOMAIN infos /\ infos[info].id = n
      /\ \A m \in DOMAIN byId : m # n => byId[m] # info
      /\ \A i \in DOMAIN freedList : freedList[i] # info
  BY HeldStructure
<1>2. /\ DOMAIN infos' = DOMAIN infos
      /\ infos'[info] = blank
      /\ \A i \in DOMAIN infos : i # info => infos'[i] = infos[i]
      /\ infos' \in [DOMAIN infos -> [obj : Targets, type : HandleTypes, id : 0 .. IdLimit]]
  BY <1>1 DEF FreeHandleImpl, HandlesIInv, TypeOK, HandlesAssumption, Targets
<1>3. DOMAIN byId' = DOMAIN byId \ {n} /\ \A m \in DOMAIN byId' : byId'[m] = byId[m]
  BY <1>1 DEF FreeHandleImpl, Restrict
<1>4. /\ issued' \in Seq([info : DOMAIN infos, id : 1 .. IdLimit, host : BOOLEAN, freed : BOOLEAN])
      /\ Len(issued') = Len(issued)
      /\ DOMAIN issued' = DOMAIN issued
      /\ issued'[n].freed = TRUE
      /\ \A m \in DOMAIN issued : /\ issued'[m].info = issued[m].info
                                  /\ issued'[m].id = issued[m].id
                                  /\ m # n => issued'[m] = issued[m]
  <2> DEFINE Any == Handle(DOMAIN infos)
             freed == [issued[n] EXCEPT !.freed = TRUE]
  <2>1. /\ issued \in Seq(Any) /\ issued[n] \in Any
        /\ n \in 1 .. Len(issued) /\ DOMAIN issued = 1 .. Len(issued)
    BY HandleType DEF HandlesIInv
  <2>2. /\ freed \in Any /\ freed.info = issued[n].info /\ freed.id = issued[n].id
        /\ freed.freed = TRUE
    BY <2>1 DEF Handle
  <2>3. issued' = [issued EXCEPT ![n] = freed]
    OBVIOUS
  <2> HIDE DEF Any, freed
  <2>4. /\ issued' \in Seq(Any)
        /\ Len(issued') = Len(issued)
        /\ DOMAIN issued' = DOMAIN issued
        /\ issued'[n] = freed
        /\ \A m \in DOMAIN issued : m # n => issued'[m] = issued[m]
    <3>1. /\ issued' \in Seq(Any)
          /\ Len(issued') = Len(issued)
          /\ \A m \in 1 .. Len(issued) : issued'[m] = IF m = n THEN freed ELSE issued[m]
      <4>1. /\ [issued EXCEPT ![n] = freed] \in Seq(Any)
            /\ Len([issued EXCEPT ![n] = freed]) = Len(issued)
            /\ \A m \in 1 .. Len(issued) :
                   [issued EXCEPT ![n] = freed][m] = IF m = n THEN freed ELSE issued[m]
        BY <2>1, <2>2, ExceptSeq
      <4> QED BY <2>3, <4>1
    <3> QED BY <2>1, <3>1
  <2> QED BY <2>2, <2>4 DEF Any, Handle
<1>5. freedList \in Seq(DOMAIN infos)
  BY DEF HandlesIInv, TypeOK
<1>6. /\ freedList' \in Seq(DOMAIN infos)
      /\ DOMAIN freedList' = 1 .. (Len(freedList) + 1)
      /\ freedList'[1] = info
      /\ \A i \in DOMAIN freedList' : i # 1 => /\ i - 1 \in DOMAIN freedList
                                               /\ freedList'[i] = freedList[i - 1]
  <2>1. freedList' = <<info>> \o freedList
    BY DEF FreeHandleImpl
  <2>2. <<info>> \in Seq(DOMAIN infos) /\ Len(<<info>>) = 1 /\ <<info>>[1] = info
    BY <1>1
  <2> HIDE DEF info
  <2> QED BY <2>1, <2>2, <1>5
<1>7. TypeOK'
  <2>1. DOMAIN byId' \subseteq 1 .. IdLimit /\ Range(byId') \subseteq DOMAIN infos'
    BY <1>2, <1>3 DEF HandlesIInv, TypeOK, Range
  <2>2. DOMAIN infos' \subseteq Infos /\ lastId' \in 0 .. IdLimit
    BY <1>2 DEF HandlesIInv, TypeOK
  <2> QED BY <2>1, <2>2, <1>2, <1>4, <1>6 DEF TypeOK
<1>8. IdsCount'
  BY <1>4 DEF HandlesIInv, IdsCount
<1>9. MapKnowsHeld'
  <2>1. DOMAIN byId' = {m \in DOMAIN issued' : Held(m)'}
    BY <1>3, <1>4 DEF HandlesIInv, MapKnowsHeld, Held
  <2>2. ASSUME NEW m \in DOMAIN byId'
        PROVE  byId'[m] = issued'[m].info /\ infos'[byId'[m]].id = m
    <3>1. m \in DOMAIN byId /\ m # n /\ m \in DOMAIN issued
      BY <1>3, <2>1, <1>4
    <3>2. byId[m] # info /\ byId[m] \in DOMAIN infos
      BY <3>1, <1>1 DEF HandlesIInv, TypeOK, Range
    <3> QED BY <3>1, <3>2, <1>2, <1>3, <1>4 DEF HandlesIInv, MapKnowsHeld
  <2> QED BY <2>1, <2>2 DEF MapKnowsHeld
<1>10. FreedHaveNoId'
  <2>1. SUFFICES ASSUME NEW i \in DOMAIN freedList' PROVE infos'[freedList'[i]].id = 0
    BY DEF FreedHaveNoId
  <2>2. CASE i = 1
    BY <2>2, <1>2, <1>6
  <2>3. CASE i # 1
    <3>1. freedList'[i] \in DOMAIN infos /\ freedList'[i] # info
      BY <2>3, <1>1, <1>5, <1>6
    <3> QED BY <2>3, <3>1, <1>2, <1>6 DEF HandlesIInv, FreedHaveNoId
  <2> QED BY <2>2, <2>3
<1>11. ListedOnce'
  <2>1. SUFFICES ASSUME NEW i \in DOMAIN freedList', NEW j \in DOMAIN freedList',
                        freedList'[i] = freedList'[j]
                 PROVE  i = j
    BY DEF ListedOnce
  <2>2. i \in Int /\ j \in Int
    BY <1>6
  <2>3. i = 1 <=> j = 1
    BY <2>1, <1>1, <1>6
  <2>4. CASE i # 1
    <3>1. i - 1 = j - 1
      BY <2>1, <2>3, <2>4, <1>6 DEF HandlesIInv, ListedOnce
    <3> QED BY <3>1, <2>2
  <2> QED BY <2>3, <2>4
<1> QED BY <1>7, <1>8, <1>9, <1>10, <1>11 DEF HandlesIInv

LEMMA FreeHandleStep ==
    ASSUME HandlesAssumption, HandlesIInv, NEW n \in DOMAIN issued, FreeHandle(n)
    PROVE  HandlesIInv'
BY Freeing DEF FreeHandle

(* What FreeId frees is the structure of the handle, unless it has been freed. *)
LEMMA FreeIdCases ==
    ASSUME HandlesIInv, NEW n \in DOMAIN issued, FreeId(n)
    PROVE  /\ Held(n) => FreeHandleImpl(issued[n].info)
           /\ ~Held(n) => UNCHANGED vars
<1>1. issued[n].id = n
  BY DEF HandlesIInv, IdsCount
<1>2. CASE Held(n)
  <2>1. n \in DOMAIN byId /\ byId[n] = issued[n].info
    BY <1>2, HeldStructure
  <2> QED BY <1>1, <1>2, <2>1 DEF FreeId
<1>3. CASE ~Held(n)
  <2>1. n \notin DOMAIN byId
    BY <1>3 DEF HandlesIInv, MapKnowsHeld
  <2>2. UNCHANGED <<infos, freedList, byId, lastId>>
    BY <1>1, <2>1 DEF FreeId
  <2>3. issued[n].freed = TRUE /\ issued' = [issued EXCEPT ![n].freed = TRUE]
    BY <1>3 DEF FreeId, Held, HandlesIInv, TypeOK
  <2>4. issued' = issued
    <3>1. [issued[n] EXCEPT !.freed = TRUE] = issued[n]
      BY <2>3, HandleType DEF HandlesIInv, Handle
    <3>2. issued' = [issued EXCEPT ![n] = issued[n]]
      BY <2>3, <3>1
    <3> QED BY <3>2, HandleType DEF HandlesIInv
  <2> QED BY <1>3, <2>2, <2>4 DEF vars
<1> QED BY <1>2, <1>3

LEMMA UnchangedHandles == ASSUME HandlesIInv, UNCHANGED vars PROVE HandlesIInv'
BY DEF HandlesIInv, TypeOK, IdsCount, MapKnowsHeld, FreedHaveNoId, ListedOnce, vars, Held, Range

LEMMA FreeIdStep ==
    ASSUME HandlesAssumption, HandlesIInv, NEW n \in DOMAIN issued, FreeId(n)
    PROVE  HandlesIInv'
<1>1. CASE Held(n)
  BY <1>1, FreeIdCases, Freeing DEF FreeId
<1>2. CASE ~Held(n)
  BY <1>2, FreeIdCases, UnchangedHandles
<1> QED BY <1>1, <1>2

(* A collection takes targets away and leaves all else as it is. *)
LEMMA Swept ==
    ASSUME HandlesAssumption, TypeOK, NEW alive, SweepWeakHandles(alive)
    PROVE  /\ DOMAIN infos' = DOMAIN infos
           /\ infos' \in [DOMAIN infos -> [obj : Targets, type : HandleTypes, id : 0 .. IdLimit]]
           /\ \A i \in DOMAIN infos :
                  /\ infos'[i].id = infos[i].id
                  /\ infos'[i].type = infos[i].type
                  /\ infos'[i].obj = IF i \in Listed /\ IsWeak(i) /\ infos[i].obj \notin alive
                                     THEN Null ELSE infos[i].obj
<1>1. infos \in [DOMAIN infos -> [obj : Targets, type : HandleTypes, id : 0 .. IdLimit]]
  BY DEF TypeOK
<1>2. infos' = [i \in DOMAIN infos |->
                 IF i \in Listed /\ IsWeak(i) /\ infos[i].obj \notin alive
                 THEN [infos[i] EXCEPT !.obj = Null] ELSE infos[i]]
  BY DEF SweepWeakHandles
<1>3. Null \in Targets
  BY DEF Targets
<1> QED BY <1>1, <1>2, <1>3

LEMMA CollectStep ==
    ASSUME HandlesAssumption, HandlesIInv, NEW alive \in SUBSET Objects, Collect(alive)
    PROVE  HandlesIInv'
<1>1. /\ DOMAIN infos' = DOMAIN infos
      /\ infos' \in [DOMAIN infos -> [obj : Targets, type : HandleTypes, id : 0 .. IdLimit]]
      /\ \A i \in DOMAIN infos : infos'[i].id = infos[i].id
  BY Swept DEF HandlesIInv, Collect
<1>2. UNCHANGED <<freedList, lastId, byId, issued>>
  BY DEF Collect
<1>3. TypeOK'
  BY <1>1, <1>2 DEF HandlesIInv, TypeOK, Range
<1>4. IdsCount' /\ ListedOnce' /\ MapKnowsHeld'
  BY <1>1, <1>2 DEF HandlesIInv, MapKnowsHeld, IdsCount, ListedOnce, Held, TypeOK, Range
<1>5. FreedHaveNoId'
  BY <1>1, <1>2 DEF HandlesIInv, FreedHaveNoId, TypeOK
<1> QED BY <1>3, <1>4, <1>5 DEF HandlesIInv

(* The table of handles is consistent. *)
THEOREM HandlesInvariance ==
    ASSUME HandlesAssumption, IdsSuffice PROVE Spec => []HandlesIInv
<1>1. Init => HandlesIInv
  BY InitHandles
<1>2. HandlesIInv /\ [Next]_vars => HandlesIInv'
  <2> SUFFICES ASSUME HandlesIInv, [Next]_vars PROVE HandlesIInv'
    OBVIOUS
  <2>1. ASSUME NEW obj \in Targets, NEW type \in HandleTypes, NEW byHost \in BOOLEAN,
               NewHandle(obj, type, byHost)
        PROVE  HandlesIInv'
    BY <2>1, NewHandleStep
  <2>2. ASSUME NEW obj \in Targets, NEW type \in HandleTypes, NEW n \in DOMAIN issued,
               SetTarget(n, obj, type)
        PROVE  HandlesIInv'
    BY <2>2, SetTargetStep
  <2>3. ASSUME NEW n \in DOMAIN issued, FreeHandle(n) PROVE HandlesIInv'
    BY <2>3, FreeHandleStep
  <2>4. ASSUME NEW n \in DOMAIN issued, FreeId(n) PROVE HandlesIInv'
    BY <2>4, FreeIdStep
  <2>5. ASSUME NEW alive \in SUBSET Objects, Collect(alive) PROVE HandlesIInv'
    BY <2>5, CollectStep
  <2>6. CASE UNCHANGED vars
    BY <2>6, UnchangedHandles
  <2> QED BY <2>1, <2>2, <2>3, <2>4, <2>5, <2>6 DEF Next
<1> QED BY <1>1, <1>2, PTL DEF Spec

(***************************************************************************)
(* As long as ids do not run out, variables have their types, ...          *)
(***************************************************************************)
THEOREM HandlesTypeOK == ASSUME HandlesAssumption, IdsSuffice PROVE Spec => []TypeOK
<1>1. HandlesIInv => TypeOK
  BY DEF HandlesIInv
<1> QED BY <1>1, HandlesInvariance, PTL

(* ... the assertions of alloc_handle and free_handle_impl hold, ...       *)
THEOREM HandlesAssertionsHold ==
    ASSUME HandlesAssumption, IdsSuffice PROVE Spec => []AssertionsHold
<1>1. ASSUME HandlesIInv PROVE AssertionsHold
  <2>1. ASSUME NEW n \in DOMAIN issued, Held(n)
        PROVE  infos[issued[n].info].id \in DOMAIN byId
    BY <1>1, <2>1, HeldStructure
  <2> QED BY <1>1, <2>1 DEF HandlesIInv, FreedHaveNoId, AssertionsHold
<1> QED BY <1>1, HandlesInvariance, PTL
------------------------------------------------------------------------------
(* ... and what clients see is a HandleStore: each operation does to what  *)
(* is seen what it promises, and nothing to what other handles refer to.   *)

Handles == [n \in DOMAIN issued |-> Seen(n)]

(* What is seen is what the structure of the handle holds. *)
InUse(n) == Store!Live(infos[issued[n].info].obj, infos[issued[n].info].type)
SeenIsInUse == \A n \in DOMAIN issued : Seen(n) = IF Held(n) THEN InUse(n) ELSE Store!Freed

LEMMA Sees == HandlesIInv => SeenIsInUse
<1> SUFFICES ASSUME HandlesIInv, NEW n \in DOMAIN issued
             PROVE  Seen(n) = IF Held(n) THEN InUse(n) ELSE Store!Freed
  BY DEF SeenIsInUse
<1>1. issued[n].id = n
  BY DEF HandlesIInv, IdsCount
<1>2. CASE Held(n)
  <2>1. n \in DOMAIN byId /\ byId[n] = issued[n].info
    BY <1>2, HeldStructure
  <2> QED BY <1>1, <1>2, <2>1 DEF Seen, TargetOfId, Held, InUse, Store!Live
<1>3. CASE ~Held(n)
  <2>1. n \notin DOMAIN byId
    BY <1>3 DEF HandlesIInv, MapKnowsHeld
  <2> QED BY <1>1, <1>3, <2>1 DEF Seen, TargetOfId, Held, Store!Freed
<1> QED BY <1>2, <1>3

LEMMA SeesNext == HandlesIInv' => SeenIsInUse'
BY Sees, PTL

(* A handle whose structure is as before is seen as before. *)
LEMMA SeenAsBefore ==
    ASSUME HandlesIInv, HandlesIInv', NEW n \in DOMAIN issued, n \in DOMAIN issued',
           issued'[n] = issued[n],
           Held(n) => /\ infos'[issued[n].info].type = infos[issued[n].info].type
                      /\ infos'[issued[n].info].obj = infos[issued[n].info].obj
    PROVE  Seen(n)' = Seen(n)
<1>1. Held(n)' <=> Held(n)
  BY DEF Held
<1> QED BY <1>1, Sees, SeesNext DEF SeenIsInUse, InUse, Store!Live

LEMMA NewIsNew ==
    ASSUME HandlesAssumption, IdsSuffice, HandlesIInv, HandlesIInv',
           NEW obj \in Targets, NEW type \in HandleTypes, NEW byHost \in BOOLEAN,
           NewHandle(obj, type, byHost)
    PROVE  Store!New(obj, type)
<1>1. PICK info \in Infos :
         /\ AllocHandle(info, obj, type)
         /\ issued' = Append(issued, [info |-> info, id |-> infos'[info].id,
                                      host |-> byHost, freed |-> FALSE])
  BY DEF NewHandle
<1> DEFINE new == Len(issued) + 1
<1>2. Len(issued) < MaxHandles /\ info \in Available
  BY <1>1 DEF NewHandle, AllocHandle
<1>3. \A n \in DOMAIN byId : byId[n] # info
  BY <1>2, Allocated
<1>4. /\ infos'[info].obj = obj /\ infos'[info].type = type
      /\ \A i \in DOMAIN infos : i # info => infos'[i] = infos[i]
  BY <1>1 DEF AllocHandle, Extended
<1>5. /\ Len(issued') = new
      /\ DOMAIN issued = 1 .. Len(issued) /\ Len(issued) \in Nat
      /\ DOMAIN issued' = 1 .. new
      /\ issued'[new].info = info /\ ~issued'[new].freed
      /\ \A n \in DOMAIN issued : issued'[n] = issued[n]
  BY <1>1, HandleType DEF HandlesIInv
<1>6. ASSUME NEW n \in DOMAIN issued PROVE Seen(n)' = Seen(n)
  <2>1. Held(n) => /\ issued[n].info \in DOMAIN infos
                   /\ issued[n].info # info
    BY <1>3, HeldStructure
  <2>2. n \in DOMAIN issued' /\ issued'[n] = issued[n]
    BY <1>5
  <2> QED BY <2>1, <2>2, <1>4, SeenAsBefore
<1>7. ASSUME NEW k, k = new
      PROVE  Seen(k)' = Store!Live(obj, type)
  <2>1. k \in DOMAIN issued' /\ ~issued'[k].freed /\ issued'[k].info = info
    BY <1>5, <1>7
  <2> HIDE DEF new
  <2>2. Held(k)' /\ Seen(k)' = InUse(k)'
    BY <2>1, SeesNext DEF SeenIsInUse, Held
  <2> QED BY <2>1, <2>2, <1>4 DEF InUse, Store!Live, Store!Live
<1>8. Handles' = Append(Handles, Store!Live(obj, type))
  <2> DEFINE h == Store!Live(obj, type)
  <2>1. /\ Handles' = [n \in 1 .. new |-> Seen(n)']
        /\ Handles = [n \in 1 .. Len(issued) |-> Seen(n)]
    BY <1>5 DEF Handles
  <2>2. Append(Handles, h) = [n \in 1 .. new |-> IF n = new THEN h ELSE Handles[n]]
    BY <2>1, <1>5
  <2>3. \A n \in 1 .. new : n # new => n \in 1 .. Len(issued)
    BY <1>5
  <2> HIDE DEF h
  <2> QED BY <2>1, <2>2, <2>3, <1>5, <1>6, <1>7 DEF h
<1> QED BY <1>8 DEF Store!New, Handles

(* After a step that changes one structure, that of n, others are as before. *)
LEMMA OneChanges ==
    ASSUME HandlesIInv, HandlesIInv', NEW n \in DOMAIN issued, Held(n),
           DOMAIN issued' = DOMAIN issued,
           \A m \in DOMAIN issued : m # n => issued'[m] = issued[m],
           \A i \in DOMAIN infos : i # issued[n].info => infos'[i] = infos[i]
    PROVE  Handles' = [Handles EXCEPT ![n] = Seen(n)']
<1>1. ASSUME NEW m \in DOMAIN issued, m # n PROVE Seen(m)' = Seen(m)
  <2>1. Held(m) => /\ issued[m].info \in DOMAIN infos
                   /\ issued[m].info # issued[n].info
    BY <1>1, HeldStructure
  <2> QED BY <2>1, <1>1, SeenAsBefore
<1> QED BY <1>1 DEF Handles

LEMMA SetIsSet ==
    ASSUME HandlesAssumption, HandlesIInv, HandlesIInv',
           NEW obj \in Targets, NEW type \in HandleTypes, NEW n \in DOMAIN issued,
           SetTarget(n, obj, type)
    PROVE  Store!Set(n, obj, type)
<1>1. Held(n) /\ issued[n].info \in DOMAIN infos
  BY HeldStructure DEF SetTarget
<1>2. Handles[n] = InUse(n)
  BY <1>1, Sees DEF Handles, SeenIsInUse
<1>3. /\ issued' = issued
      /\ \A i \in DOMAIN infos : i # issued[n].info => infos'[i] = infos[i]
      /\ infos'[issued[n].info].obj = obj
      /\ infos'[issued[n].info].type = type
  <2>1. /\ issued' = issued
        /\ infos' = [infos EXCEPT ![issued[n].info].obj = obj, ![issued[n].info].type = type]
    BY DEF SetTarget
  <2>2. infos[issued[n].info] \in [obj : Targets, type : HandleTypes, id : 0 .. IdLimit]
    BY <1>1 DEF HandlesIInv, TypeOK
  <2> QED BY <2>1, <2>2, <1>1
<1>4. Seen(n)' = Store!Live(obj, type)
  <2>1. Held(n)' /\ n \in DOMAIN issued'
    BY <1>1, <1>3 DEF Held
  <2> QED BY <2>1, <1>3, SeesNext DEF SeenIsInUse, InUse, Store!Live
<1>5. Handles' = [Handles EXCEPT ![n] = Seen(n)']
  BY <1>1, <1>3, OneChanges
<1> QED BY <1>2, <1>4, <1>5 DEF Store!Set, Handles, InUse, Store!Live

LEMMA FreeingIsFree ==
    ASSUME HandlesAssumption, HandlesIInv, HandlesIInv', NEW n \in DOMAIN issued, Held(n),
           FreeHandleImpl(issued[n].info), issued' = [issued EXCEPT ![n].freed = TRUE]
    PROVE  Store!Free(n)
<1>1. issued[n].info \in DOMAIN infos
  BY HeldStructure
<1>2. Handles[n].live
  BY Sees DEF Handles, SeenIsInUse, InUse, Store!Live
<1>3. /\ DOMAIN issued' = DOMAIN issued
      /\ issued'[n].freed
      /\ \A m \in DOMAIN issued : m # n => issued'[m] = issued[m]
      /\ \A i \in DOMAIN infos : i # issued[n].info => infos'[i] = infos[i]
  BY <1>1, HandleType DEF FreeHandleImpl, HandlesIInv, Handle
<1>4. Seen(n)' = Store!Freed
  <2>1. ~Held(n)' /\ n \in DOMAIN issued'
    BY <1>3 DEF Held
  <2> QED BY <2>1, SeesNext DEF SeenIsInUse
<1>5. Handles' = [Handles EXCEPT ![n] = Store!Freed]
  BY <1>3, <1>4, OneChanges
<1> QED BY <1>2, <1>5 DEF Store!Free, Handles

LEMMA CollectIsCollect ==
    ASSUME HandlesAssumption, HandlesIInv, HandlesIInv',
           NEW alive \in SUBSET Objects, Collect(alive)
    PROVE  Store!Collect(alive)
<1>1. /\ issued' = issued
      /\ \A i \in DOMAIN infos :
             /\ infos'[i].type = infos[i].type
             /\ infos'[i].obj = IF i \in Listed /\ IsWeak(i) /\ infos[i].obj \notin alive
                                THEN Null ELSE infos[i].obj
      /\ StrongTargets \subseteq alive
  BY Swept DEF Collect, HandlesIInv
<1>2. ASSUME NEW n \in DOMAIN issued, Held(n)
      PROVE  /\ issued[n].info \in Listed /\ issued[n].info \in DOMAIN infos
             /\ Seen(n) = InUse(n)
             /\ Seen(n)' = InUse(n)'
             /\ IsWeak(issued[n].info) <=> Seen(n).type \in WeakTypes
             /\ ~IsWeak(issued[n].info) => Seen(n).obj \in alive \cup {Null}
  <2>1. issued[n].info \in Listed /\ issued[n].info \in DOMAIN infos
    BY <1>2, HeldStructure DEF Listed, Range
  <2>2. Seen(n) = InUse(n)
    BY <1>2, Sees DEF SeenIsInUse
  <2>3. Seen(n)' = InUse(n)'
    <3>1. Held(n)' /\ n \in DOMAIN issued'
      BY <1>1, <1>2 DEF Held
    <3> QED BY <3>1, SeesNext DEF SeenIsInUse
  <2>4. ~IsWeak(issued[n].info) => infos[issued[n].info].obj \in alive \cup {Null}
    BY <1>1, <2>1 DEF StrongTargets
  <2> QED BY <2>1, <2>2, <2>3, <2>4 DEF IsWeak, InUse, Store!Live
<1>3. ASSUME NEW n \in DOMAIN issued, ~Held(n)
      PROVE  Seen(n) = Store!Freed /\ Seen(n)' = Store!Freed
  <2>1. ~Held(n)' /\ n \in DOMAIN issued'
    BY <1>1, <1>3 DEF Held
  <2> QED BY <1>3, <2>1, Sees, SeesNext DEF SeenIsInUse
<1>4. ASSUME NEW n \in DOMAIN issued
      PROVE  Store!Strong(Seen(n)) => Seen(n).obj \in alive \cup {Null}
  BY <1>2, <1>3 DEF Store!Strong, Store!Freed, InUse, Store!Live
<1>5. ASSUME NEW n \in DOMAIN issued
      PROVE  Seen(n)' = IF Seen(n).obj \in alive THEN Seen(n)
                        ELSE Store!Cleared(Seen(n))
  <2>1. CASE Held(n)
    <3> DEFINE i == issued[n].info
    <3>1. /\ Seen(n) = Store!Live(infos[i].obj, infos[i].type)
          /\ Seen(n)' = Store!Live(infos'[i].obj, infos[i].type)
      BY <2>1, <1>1, <1>2 DEF InUse, Store!Live, Store!Live
    <3>2. infos'[i].obj = IF infos[i].obj \in alive THEN infos[i].obj ELSE Null
      BY <2>1, <3>1, <1>1, <1>2 DEF Store!Live
    <3>3. Seen(n).obj = infos[i].obj /\ Store!Cleared(Seen(n)) = Store!Live(Null, infos[i].type)
      BY <3>1 DEF Store!Live, Store!Cleared
    <3> QED BY <3>1, <3>2, <3>3
  <2>2. CASE ~Held(n)
    <3>1. Seen(n) = Store!Freed /\ Seen(n)' = Store!Freed
      BY <2>2, <1>3
    <3>2. Null \notin alive
      BY DEF HandlesAssumption
    <3> QED BY <3>1, <3>2 DEF Store!Freed, Store!Cleared
  <2> QED BY <2>1, <2>2
<1>6. \A n \in DOMAIN Handles : Store!Strong(Handles[n]) => Handles[n].obj \in alive \cup {Null}
  BY <1>4 DEF Handles
<1>7. Handles' = [n \in DOMAIN Handles |-> IF Handles[n].obj \in alive THEN Handles[n]
                                           ELSE Store!Cleared(Handles[n])]
  BY <1>1, <1>5 DEF Handles
<1> QED BY <1>6, <1>7 DEF Store!Collect, Handles

(* What clients see is a HandleStore. *)
THEOREM HandlesImplementStore ==
    ASSUME HandlesAssumption, IdsSuffice PROVE Spec => ImplementsHandleStore
<1>1. Init => Store!Init
  BY DEF Init, Store!Init
<1>2. HandlesIInv /\ HandlesIInv' /\ [Next]_vars => [Store!Next]_Handles
  <2> SUFFICES ASSUME HandlesIInv, HandlesIInv', [Next]_vars PROVE [Store!Next]_Handles
    OBVIOUS
  <2> USE DEF Targets
  <2>1. ASSUME NEW obj \in Targets, NEW type \in HandleTypes, NEW byHost \in BOOLEAN,
               NewHandle(obj, type, byHost)
        PROVE  Store!Next
    BY <2>1, NewIsNew DEF Store!Next
  <2>2. ASSUME NEW obj \in Targets, NEW type \in HandleTypes, NEW n \in DOMAIN issued,
               SetTarget(n, obj, type)
        PROVE  Store!Next
    BY <2>2, SetIsSet DEF Store!Next
  <2>3. ASSUME NEW n \in DOMAIN issued, FreeHandle(n) PROVE Store!Next
    BY <2>3, FreeingIsFree DEF FreeHandle, Store!Next
  <2>4. ASSUME NEW n \in DOMAIN issued, FreeId(n) PROVE [Store!Next]_Handles
    <3>1. CASE Held(n)
      BY <2>4, <3>1, FreeIdCases, FreeingIsFree DEF FreeId, Store!Next
    <3>2. CASE ~Held(n)
      BY <2>4, <3>2, FreeIdCases DEF vars, Handles, Seen, Held, TargetOfId
    <3> QED BY <3>1, <3>2
  <2>5. ASSUME NEW alive \in SUBSET Objects, Collect(alive) PROVE Store!Next
    BY <2>5, CollectIsCollect DEF Store!Next
  <2>6. CASE UNCHANGED vars
    BY <2>6 DEF vars, Handles, Seen, Held, TargetOfId
  <2> QED BY <2>1, <2>2, <2>3, <2>4, <2>5, <2>6 DEF Next
<1> QED BY <1>1, <1>2, HandlesInvariance, PTL DEF Spec, ImplementsHandleStore, Store!Spec, Handles
==============================================================================
