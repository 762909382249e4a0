------------------------------ MODULE GcHandles ------------------------------
(***************************************************************************)
(* GC handles (vm/gchandle.cpp). Managed code names a handle by the        *)
(* address of its HandleInfo, a host by an id that a map leads to the      *)
(* HandleInfo from. Freed structures are kept in a list and used again,    *)
(* with a new id. The collector finds strong and weak handles in the map.  *)
(***************************************************************************)
EXTENDS Integers, Sequences, FiniteSets, Functions

CONSTANTS
    Infos,       \* addresses of HandleInfo structures
    Objects,
    Null,        \* no object, no structure
    HandleTypes, \* the types in use
    IdLimit,     \* UINT32_MAX
    MaxHandles   \* bound: handles that are ever created

WeakTypes == {"Weak", "WeakTrackResurrection"}

ASSUME HandlesAssumption ==
    /\ Null \notin Objects \cup Infos
    /\ HandleTypes \subseteq WeakTypes \cup {"Normal", "Pinned"}
    /\ "Normal" \in HandleTypes
    /\ IdLimit \in Nat \ {0}
    /\ MaxHandles \in Nat

VARIABLES
    infos,       \* each HandleInfo that has been allocated
    freedList,   \* s_freed_handle_head and what it leads to
    lastId,      \* s_last_handle_id
    byId,        \* s_handle_map
    issued       \* what clients hold: a structure if managed code, an id if a host

vars == <<infos, freedList, lastId, byId, issued>>

Targets == Objects \cup {Null}
Held(n) == ~issued[n].freed

Init ==
    /\ infos = <<>>
    /\ freedList = <<>>
    /\ lastId = 0
    /\ byId = <<>>
    /\ issued = <<>>
------------------------------------------------------------------------------
(* ++s_last_handle_id, in 32 bits *)
NextId == (lastId + 1) % (IdLimit + 1)

(* A freed structure, or else a new one. *)
Available == IF freedList = <<>> THEN Infos \ DOMAIN infos ELSE {Head(freedList)}

Extended(f, x, y) == [z \in DOMAIN f \cup {x} |-> IF z = x THEN y ELSE f[z]]

(* Mutant: s_last_handle_id++ *)
AllocHandlePostIncrement(info, obj, type) ==
    /\ info \in Available
    /\ freedList' = IF freedList = <<>> THEN <<>> ELSE Tail(freedList)
    /\ lastId' = NextId
    /\ infos' = Extended(infos, info, [obj |-> obj, type |-> type, id |-> lastId])
    /\ byId' = Extended(byId, lastId, info)

(* alloc_handle and the assignments after it in get_target_handle *)
AllocHandle(info, obj, type) ==
    /\ info \in Available
    /\ freedList' = IF freedList = <<>> THEN <<>> ELSE Tail(freedList)
    /\ lastId' = NextId
    /\ infos' = Extended(infos, info, [obj |-> obj, type |-> type, id |-> NextId])
    /\ byId' = Extended(byId, NextId, info)

(* new_handle, new_weakref_handle, and get_target_handle without a handle, *)
(* for managed code or, as il2cpp_gchandle_new, for the host.              *)
NewHandle(obj, type, byHost) ==
    /\ Len(issued) < MaxHandles
    /\ \E info \in Infos :
           /\ AllocHandle(info, obj, type)
           /\ issued' = Append(issued, [info |-> info, id |-> infos'[info].id,
                                        host |-> byHost, freed |-> FALSE])

(* get_target_handle with a handle: the object, and the type unless it is -1 *)
SetTarget(n, obj, type) ==
    /\ Held(n)
    /\ ~issued[n].host
    /\ infos' = [infos EXCEPT ![issued[n].info].obj = obj, ![issued[n].info].type = type]
    /\ UNCHANGED <<freedList, lastId, byId, issued>>

(* Mutant: the map goes on leading to the freed structure. *)
FreeHandleImplKeepsEntry(info) ==
    /\ infos' = [infos EXCEPT ![info] = [obj |-> Null, type |-> "Normal", id |-> 0]]
    /\ freedList' = <<info>> \o freedList
    /\ UNCHANGED byId

(* Mutant: the freed structure keeps its id. *)
FreeHandleImplKeepsId(info) ==
    /\ infos' = [infos EXCEPT ![info].obj = Null, ![info].type = "Normal"]
    /\ freedList' = <<info>> \o freedList
    /\ byId' = Restrict(byId, DOMAIN byId \ {infos[info].id})

(* free_handle_impl *)
FreeHandleImpl(info) ==
    /\ infos' = [infos EXCEPT ![info] = [obj |-> Null, type |-> "Normal", id |-> 0]]
    /\ freedList' = <<info>> \o freedList
    /\ byId' = Restrict(byId, DOMAIN byId \ {infos[info].id})

(* free_handle: managed code frees a handle once (GCHandle.Free clears it). *)
FreeHandle(n) ==
    /\ Held(n)
    /\ ~issued[n].host
    /\ FreeHandleImpl(issued[n].info)
    /\ issued' = [issued EXCEPT ![n].freed = TRUE]
    /\ UNCHANGED lastId

(* il2cpp_gchandle_free: a host may free an id again. *)
FreeId(n) ==
    /\ issued[n].host
    /\ issued' = [issued EXCEPT ![n].freed = TRUE]
    /\ IF issued[n].id \in DOMAIN byId
       THEN FreeHandleImpl(byId[issued[n].id])
       ELSE UNCHANGED <<infos, freedList, byId>>
    /\ UNCHANGED lastId

Listed == Range(byId)
IsWeak(info) == infos[info].type \in WeakTypes

(* foreach_strong_handles *)
StrongTargets == {infos[info].obj : info \in {i \in Listed : ~IsWeak(i)}} \ {Null}

(* sweep_weak_handles *)
SweepWeakHandles(alive) ==
    infos' = [info \in DOMAIN infos |->
                 IF info \in Listed /\ IsWeak(info) /\ infos[info].obj \notin alive
                 THEN [infos[info] EXCEPT !.obj = Null] ELSE infos[info]]

(* A collection: the strong targets are roots, whatever else is alive. *)
Collect(alive) ==
    /\ StrongTargets \subseteq alive
    /\ SweepWeakHandles(alive)
    /\ UNCHANGED <<freedList, lastId, byId, issued>>

Next ==
    \/ \E obj \in Targets, type \in HandleTypes :
           \/ \E byHost \in BOOLEAN : NewHandle(obj, type, byHost)
           \/ \E n \in DOMAIN issued : SetTarget(n, obj, type)
    \/ \E n \in DOMAIN issued : FreeHandle(n) \/ FreeId(n)
    \/ \E alive \in SUBSET Objects : Collect(alive)

Spec == Init /\ [][Next]_vars
------------------------------------------------------------------------------
(* Id 0 is that of no handle, as long as ids do not run out. *)
TypeOK ==
    /\ DOMAIN infos \subseteq Infos
    /\ infos \in [DOMAIN infos ->
                     [obj : Targets, type : HandleTypes, id : 0 .. IdLimit]]
    /\ freedList \in Seq(DOMAIN infos)
    /\ lastId \in 0 .. IdLimit
    /\ DOMAIN byId \subseteq 1 .. IdLimit
    /\ Range(byId) \subseteq DOMAIN infos
    /\ issued \in Seq([info : DOMAIN infos, id : 1 .. IdLimit, host : BOOLEAN, freed : BOOLEAN])

(***************************************************************************)
(* The assertions of alloc_handle and free_handle_impl: a structure in the *)
(* list has no id, and one that managed code may still free, or whose id a *)
(* host may, is in the map.                                                *)
(***************************************************************************)
AssertionsHold ==
    /\ \A i \in DOMAIN freedList : infos[freedList[i]].id = 0
    /\ \A n \in DOMAIN issued : Held(n) => infos[issued[n].info].id \in DOMAIN byId

(* il2cpp_gchandle_get_target *)
TargetOfId(id) == IF id \in DOMAIN byId THEN infos[byId[id]].obj ELSE Null

(* What whoever holds a handle finds when they look. *)
Seen(n) ==
    LET info == infos[issued[n].info]
    IN  [live |-> Held(n),
         type |-> IF Held(n) THEN info.type ELSE Null,
         obj |-> IF issued[n].host THEN TargetOfId(issued[n].id)
                 ELSE IF Held(n) THEN info.obj ELSE Null]

Store == INSTANCE HandleStore WITH handles <- [n \in DOMAIN issued |-> Seen(n)]

(***************************************************************************)
(* Handles do not share structures, ids of freed handles lead nowhere      *)
(* although the structures are used again, strong targets survive and weak *)
(* ones are cleared: what clients see is a HandleStore.                    *)
(***************************************************************************)
ImplementsHandleStore == Store!Spec
==============================================================================
