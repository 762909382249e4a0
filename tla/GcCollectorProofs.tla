-------------------------- MODULE GcCollectorProofs --------------------------
(***************************************************************************)
(* The collector leaves nothing dangling, for every heap, set of roots and *)
(* set of handles. What concerns the heap alone holds even if finalizers   *)
(* collect; what concerns the queues of finalizers holds if they do not.   *)
(***************************************************************************)
EXTENDS GcCollector, FiniteSetTheorems, SequenceTheorems, TLAPS

(***************************************************************************)
(* Reachability is the least closed set.                                   *)
(***************************************************************************)
(* Every root is reachable. *)
LEMMA ReachableContainsRoots ==
    ASSUME NEW graph, NEW R \in SUBSET Objects
    PROVE  R \subseteq Reachable(graph, R)
BY DEF Reachable

(* What a reachable object refers to is reachable. *)
LEMMA ReachableIsClosed ==
    ASSUME NEW graph, NEW R, NEW o \in Reachable(graph, R),
           NEW p \in Refs(graph, o), p \in Objects
    PROVE  p \in Reachable(graph, R)
<1>1. SUFFICES ASSUME NEW S \in SUBSET Objects, R \subseteq S, IsClosed(graph, S)
               PROVE  p \in S
  BY DEF Reachable
<1>2. o \in S
  BY <1>1 DEF Reachable
<1>. QED  BY <1>1, <1>2 DEF IsClosed

(* A closed set that contains the roots contains all that is reachable. *)
LEMMA ReachableIsLeast ==
    ASSUME NEW graph, NEW R, NEW S \in SUBSET Objects,
           R \subseteq S, IsClosed(graph, S)
    PROVE  Reachable(graph, R) \subseteq S
BY DEF Reachable

(* What roots, handles, fields and locals refer to has not been freed, and *)
(* the registry holds the addresses of the live finalizable objects.       *)
HeapSound ==
    /\ Roots \cup Targets("Weak") \subseteq allocated
    /\ IsClosed(slots, allocated)
    /\ held \subseteq allocated
    /\ \A o \in Objects : registry[o] # "none" <=> o \in finalizable

(* While finalizers run, no other call of run_pending_finalizers does, and *)
(* the queue has been taken over: nothing fills it before the promotion.   *)
QueueTakenOver ==
    /\ Len(activations) <= 1
    /\ activations # <<>> => freachable = <<>>

(* What waits for a finalizer has not been freed. *)
QueuesLive ==
    /\ Range(freachable) \subseteq allocated
    /\ \A i \in DOMAIN activations :
           {activations[i].this} \cup Range(activations[i].pending) \subseteq allocated \cup {Null}

QueuesSound == QueueTakenOver /\ QueuesLive /\ WaitsOnce

IInv == TypeOK /\ HeapSound /\ (~FinalizersCollect => QueuesSound)
------------------------------------------------------------------------------
(* References are to objects. *)
LEMMA RefsAreObjects ==
    ASSUME TypeOK, NEW o \in Objects
    PROVE  Refs(slots, o) \subseteq Objects
BY DEF TypeOK, Refs

(* Only what has not been freed is reachable from what has not. *)
LEMMA ReachableIsAllocated ==
    ASSUME TypeOK, HeapSound, NEW R \in SUBSET allocated
    PROVE  Reachable(slots, R) \subseteq allocated
BY ReachableIsLeast DEF TypeOK, HeapSound

(* An object that was never allocated refers to nothing. *)
LEMMA FreedRefersToNothing ==
    ASSUME TypeOK, NEW o \in Objects \ allocated
    PROVE  Refs(slots, o) = {}
BY DEF TypeOK, Refs

(* The initial state: an empty heap, no handle in use, no finalizer due. *)
LEMMA InitInvariant == Init => IInv
<1>. SUFFICES ASSUME Init PROVE IInv
  OBVIOUS
<1>1. TypeOK
  <2>1. Len(activations) <= MaxActivations
    BY CollectorAssumption DEF Init
  <2>. QED  BY <2>1 DEF Init, TypeOK, FreeHandle, HandleTypes
<1>2. HeapSound
  BY DEF Init, HeapSound, Roots, Targets, FreeHandle, IsClosed
<1>3. QueuesSound
  BY DEF Init, QueuesSound, QueueTakenOver, QueuesLive, WaitsOnce, Range, IsInjective
<1>. QED  BY <1>1, <1>2, <1>3 DEF IInv
------------------------------------------------------------------------------
(* A new object has an address that nothing referred to. *)
LEMMA AllocatePreserves ==
    ASSUME IInv, NEW o \in Objects, NEW hasFinalizer \in BOOLEAN, Allocate(o, hasFinalizer)
    PROVE  IInv'
<1>1. TypeOK'
  BY DEF IInv, Allocate, TypeOK
<1>2. HeapSound'
  <2>1. (Roots \cup Targets("Weak"))' = Roots \cup Targets("Weak")
    BY DEF Allocate, Roots, Targets
  <2>2. IsClosed(slots', allocated')
    <3>1. SUFFICES ASSUME NEW p \in allocated' PROVE Refs(slots', p) \subseteq allocated'
      BY DEF IsClosed
    <3>2. CASE p = o
      BY <3>2 DEF Allocate, IInv, TypeOK, Refs
    <3>3. CASE p # o
      <4>1. slots'[p] = slots[p] /\ p \in allocated
        BY <3>1, <3>3 DEF Allocate, IInv, TypeOK
      <4>. QED  BY <4>1 DEF Allocate, IInv, HeapSound, IsClosed, Refs
    <3>. QED  BY <3>2, <3>3
  <2>3. held' \subseteq allocated'
    BY DEF Allocate, IInv, HeapSound
  <2>4. \A p \in Objects : registry'[p] # "none" <=> p \in finalizable'
    BY DEF Allocate, IInv, HeapSound, TypeOK
  <2>. QED  BY <2>1, <2>2, <2>3, <2>4 DEF Allocate, IInv, HeapSound
<1>3. ~FinalizersCollect => QueuesSound'
  BY DEF Allocate, IInv, QueuesSound, QueueTakenOver, QueuesLive, WaitsOnce
<1>. QED  BY <1>1, <1>2, <1>3 DEF IInv

(* A field of an object is overwritten with a live reference. *)
LEMMA WriteFieldPreserves ==
    ASSUME IInv, NEW o \in Objects, NEW p \in Objects \cup {Null}, WriteField(o, p)
    PROVE  IInv'
<1>1. TypeOK'
  BY DEF IInv, WriteField, TypeOK, HeapSound
<1>2. HeapSound'
  <2>1. (Roots \cup Targets("Weak"))' = Roots \cup Targets("Weak")
    BY DEF WriteField, Roots, Targets
  <2>2. IsClosed(slots', allocated')
    <3>1. SUFFICES ASSUME NEW q \in allocated PROVE Refs(slots', q) \subseteq allocated
      BY DEF IsClosed, WriteField
    <3>2. CASE q = o
      BY <3>2 DEF WriteField, IInv, TypeOK, HeapSound, Refs
    <3>3. CASE q # o
      <4>1. slots'[q] = slots[q]
        BY <3>1, <3>3 DEF WriteField, IInv, TypeOK
      <4>. QED  BY <4>1 DEF IInv, HeapSound, IsClosed, Refs
    <3>. QED  BY <3>2, <3>3
  <2>. QED  BY <2>1, <2>2 DEF WriteField, IInv, HeapSound
<1>3. ~FinalizersCollect => QueuesSound'
  BY DEF WriteField, IInv, QueuesSound, QueueTakenOver, QueuesLive, WaitsOnce
<1>. QED  BY <1>1, <1>2, <1>3 DEF IInv

(* A root slot is overwritten with a live reference. *)
LEMMA WriteRootPreserves ==
    ASSUME IInv, NEW r \in RootSlots, NEW p \in Objects \cup {Null}, WriteRoot(r, p)
    PROVE  IInv'
<1>1. TypeOK'
  BY DEF IInv, WriteRoot, heapVars, TypeOK
<1>2. HeapSound'
  <2>1. Targets("Normal")' = Targets("Normal") /\ Targets("Weak")' = Targets("Weak")
    BY DEF WriteRoot, Targets
  <2>2. Roots' \subseteq Roots \cup ({p} \ {Null})
    BY <2>1 DEF WriteRoot, Roots, IInv, TypeOK
  <2>. QED  BY <2>1, <2>2 DEF WriteRoot, heapVars, IInv, HeapSound
<1>3. ~FinalizersCollect => QueuesSound'
  BY DEF WriteRoot, heapVars, IInv, QueuesSound, QueueTakenOver, QueuesLive, WaitsOnce
<1>. QED  BY <1>1, <1>2, <1>3 DEF IInv

(* A handle is given a live target. *)
LEMMA SetHandlePreserves ==
    ASSUME IInv, NEW h \in Handles, NEW type \in HandleTypes, NEW p \in Objects \cup {Null},
           SetHandle(h, type, p)
    PROVE  IInv'
<1>1. TypeOK'
  BY DEF IInv, SetHandle, heapVars, TypeOK
<1>2. HeapSound'
  <2>1. ASSUME NEW t PROVE Targets(t)' \subseteq Targets(t) \cup ({p} \ {Null})
    BY DEF SetHandle, Targets, IInv, TypeOK
  <2>2. Roots' \subseteq Roots \cup ({p} \ {Null})
    <3>1. Targets("Normal")' \subseteq Targets("Normal") \cup ({p} \ {Null})
      BY <2>1
    <3>. QED  BY <3>1 DEF SetHandle, Roots
  <2>3. Targets("Weak")' \subseteq Targets("Weak") \cup ({p} \ {Null})
    BY <2>1
  <2>. QED  BY <2>2, <2>3 DEF SetHandle, heapVars, IInv, HeapSound
<1>3. ~FinalizersCollect => QueuesSound'
  BY DEF SetHandle, heapVars, IInv, QueuesSound, QueueTakenOver, QueuesLive, WaitsOnce
<1>. QED  BY <1>1, <1>2, <1>3 DEF IInv

(* A handle no longer refers to anything. *)
LEMMA ReleaseHandlePreserves ==
    ASSUME IInv, NEW h \in Handles, ReleaseHandle(h)
    PROVE  IInv'
<1>1. TypeOK'
  BY DEF IInv, ReleaseHandle, heapVars, FreeHandle, HandleTypes, TypeOK
<1>2. HeapSound'
  <2>1. ASSUME NEW t PROVE Targets(t)' \subseteq Targets(t)
    BY DEF ReleaseHandle, Targets, FreeHandle, IInv, TypeOK
  <2>2. Targets("Normal")' \subseteq Targets("Normal") /\ Targets("Weak")' \subseteq Targets("Weak")
    BY <2>1
  <2>3. Roots' \subseteq Roots
    BY <2>2 DEF ReleaseHandle, Roots
  <2>. QED  BY <2>2, <2>3 DEF ReleaseHandle, heapVars, IInv, HeapSound
<1>3. ~FinalizersCollect => QueuesSound'
  BY DEF ReleaseHandle, heapVars, IInv, QueuesSound, QueueTakenOver, QueuesLive, WaitsOnce
<1>. QED  BY <1>1, <1>2, <1>3 DEF IInv

(* Steps that change neither the heap nor what refers into it. *)
LEMMA SameReferences ==
    ASSUME HeapSound, UNCHANGED <<heapVars, roots, handles, held>>,
           \A o \in Objects : registry'[o] # "none" <=> registry[o] # "none"
    PROVE  HeapSound'
<1>1. (Roots \cup Targets("Weak"))' = Roots \cup Targets("Weak")
  BY DEF Roots, Targets
<1>. QED  BY <1>1 DEF HeapSound, heapVars

(* The collector is enabled or disabled. *)
LEMMA SetModePreserves ==
    ASSUME IInv, NEW mode \in BOOLEAN, SetMode(mode)
    PROVE  IInv'
<1>1. TypeOK'
  BY DEF IInv, SetMode, heapVars, TypeOK
<1>2. HeapSound'
  BY SameReferences DEF IInv, SetMode
<1>3. ~FinalizersCollect => QueuesSound'
  BY DEF SetMode, heapVars, IInv, QueuesSound, QueueTakenOver, QueuesLive, WaitsOnce
<1>. QED  BY <1>1, <1>2, <1>3 DEF IInv

(* A registration changes its state, and exists before and after. *)
LEMMA SuppressFinalizePreserves ==
    ASSUME IInv, NEW o \in Objects, SuppressFinalize(o)
    PROVE  IInv'
<1>1. TypeOK'
  BY DEF IInv, SuppressFinalize, heapVars, TypeOK
<1>2. HeapSound'
  <2>1. \A p \in Objects : registry'[p] # "none" <=> registry[p] # "none"
    BY DEF IInv, SuppressFinalize, HeapSound, TypeOK
  <2>. QED  BY <2>1, SameReferences DEF IInv, SuppressFinalize
<1>3. ~FinalizersCollect => QueuesSound'
  BY DEF SuppressFinalize, heapVars, IInv, QueuesSound, QueueTakenOver, QueuesLive, WaitsOnce
<1>. QED  BY <1>1, <1>2, <1>3 DEF IInv

(* A finalizer is registered again. *)
LEMMA ReRegisterForFinalizePreserves ==
    ASSUME IInv, NEW o \in Objects, ReRegisterForFinalize(o)
    PROVE  IInv'
<1>1. TypeOK'
  BY DEF IInv, ReRegisterForFinalize, heapVars, TypeOK
<1>2. HeapSound'
  <2>1. \A p \in Objects : registry'[p] # "none" <=> registry[p] # "none"
    BY DEF IInv, ReRegisterForFinalize, HeapSound, TypeOK
  <2>. QED  BY <2>1, SameReferences DEF IInv, ReRegisterForFinalize
<1>3. ~FinalizersCollect => QueuesSound'
  BY DEF ReRegisterForFinalize, heapVars, IInv, QueuesSound, QueueTakenOver, QueuesLive, WaitsOnce
<1>. QED  BY <1>1, <1>2, <1>3 DEF IInv
------------------------------------------------------------------------------
(* Taking the queue over moves what waits from freachable to an activation; *)
(* it begins no second one.                                                 *)
LEMMA RunPendingPreserves ==
    ASSUME IInv, NEW forCollect \in BOOLEAN, RunPending(forCollect),
           activations = <<>> \/ FinalizersCollect,
           UNCHANGED <<heapVars, roots, handles, enabled, registry, held>>
    PROVE  IInv'
<1> DEFINE a == [pending |-> freachable, this |-> Null, collecting |-> forCollect]
<1>1. a \in Activation
  BY DEF IInv, TypeOK, Activation
<1>2. TypeOK'
  <2>1. activations' = Append(activations, a)
    BY DEF RunPending
  <2>2. activations' \in Seq(Activation) /\ Len(activations') = Len(activations) + 1
    BY <1>1, <2>1 DEF IInv, TypeOK
  <2>3. Len(activations') <= MaxActivations
    BY <2>2, CollectorAssumption DEF RunPending, IInv, TypeOK
  <2>. QED  BY <2>2, <2>3 DEF RunPending, IInv, heapVars, TypeOK
<1>3. HeapSound'
  BY SameReferences DEF IInv
<1>4. ASSUME ~FinalizersCollect PROVE QueuesSound'
  <2>1. activations' = <<a>> /\ freachable' = <<>>
    <3>1. activations' = Append(activations, a) /\ freachable' = <<>>
      BY DEF RunPending
    <3>2. activations = <<>>
      BY <1>4
    <3>. HIDE DEF a
    <3>. QED  BY <3>1, <3>2
  <2>2. DOMAIN activations' = {1} /\ Len(activations') = 1 /\ activations'[1] = a
    BY <2>1
  <2>3. a.this = Null /\ a.pending = freachable
    OBVIOUS
  <2>. HIDE DEF a
  <2>4. Range(freachable') = {}
    BY <2>1 DEF Range
  <2>5. Null \notin Range(freachable)
    BY NullAssumption DEF IInv, TypeOK, Range
  <2>6. QueueTakenOver'
    BY <2>1, <2>2 DEF QueueTakenOver
  <2>7. QueuesLive'
    BY <1>4, <2>2, <2>3, <2>4 DEF QueuesLive, IInv, QueuesSound, heapVars
  <2>8. WaitsOnce'
    BY <1>4, <2>1, <2>2, <2>3, <2>4, <2>5 DEF WaitsOnce, IInv, QueuesSound, IsInjective
  <2>. QED  BY <2>6, <2>7, <2>8 DEF QueuesSound
<1>. QED  BY <1>2, <1>3, <1>4 DEF IInv

(* A collection begins: the queue is taken over by an activation. *)
LEMMA CollectPreserves ==
    ASSUME IInv, Collect
    PROVE  IInv'
BY RunPendingPreserves DEF Collect

(* A finalizer that waits finds the queue empty. *)
LEMMA WaitPreserves ==
    ASSUME IInv, WaitForPendingFinalizers
    PROVE  IInv'
BY RunPendingPreserves
   DEF WaitForPendingFinalizers, IInv, QueuesSound, QueueTakenOver
------------------------------------------------------------------------------
(* The activation on top of the stack, and replacing it. *)
LEMMA CurrentIsActivation ==
    ASSUME TypeOK, activations # <<>>
    PROVE  /\ Len(activations) \in Nat \ {0}
           /\ Current = activations[Len(activations)]
           /\ Current \in Activation
<1>1. activations \in Seq(Activation)
  BY DEF TypeOK
<1>2. Len(activations) \in Nat \ {0}
  BY <1>1, EmptySeq
<1>3. activations[Len(activations)] \in Activation
  BY <1>1, <1>2, ElementOfSeq
<1>. QED  BY <1>2, <1>3 DEF Current

(* The innermost activation is replaced. *)
LEMMA SetCurrentKeepsType ==
    ASSUME TypeOK, activations # <<>>, NEW b \in Activation
    PROVE  /\ SetCurrent(b) \in Seq(Activation)
           /\ Len(SetCurrent(b)) = Len(activations)
           /\ \A j \in 1..Len(activations) :
                  SetCurrent(b)[j] = IF j = Len(activations) THEN b ELSE activations[j]
<1>1. activations \in Seq(Activation)
  BY DEF TypeOK
<1>2. Len(activations) \in 1..Len(activations)
  BY CurrentIsActivation
<1>. QED  BY <1>1, <1>2, ExceptSeq DEF SetCurrent

(* If finalizers do not collect, the activation on top is the only one. *)
LEMMA OneActivation ==
    ASSUME TypeOK, QueueTakenOver, activations # <<>>
    PROVE  /\ Len(activations) = 1
           /\ DOMAIN activations = {1}
           /\ Current = activations[1]
           /\ freachable = <<>>
           /\ Range(freachable) = {}
<1>1. PICK n \in Nat \ {0} : n = Len(activations)
  BY CurrentIsActivation
<1>2. n = 1
  BY <1>1 DEF QueueTakenOver
<1>3. DOMAIN activations = 1..n
  BY <1>1 DEF TypeOK
<1>4. freachable = <<>>
  BY DEF QueueTakenOver
<1>5. Range(freachable) = {}
  BY <1>4 DEF Range
<1>. QED  BY <1>1, <1>2, <1>3, <1>4, <1>5 DEF Current

(* Replacing that activation by one that waits for fewer objects, the      *)
(* object it is running not among them, keeps the queues sound.            *)
LEMMA SetCurrentKeepsQueues ==
    ASSUME TypeOK, ~FinalizersCollect, QueuesSound, activations # <<>>,
           NEW b \in Activation,
           activations' = SetCurrent(b), UNCHANGED <<allocated, freachable>>,
           IsInjective(b.pending),
           Range(b.pending) \subseteq Range(Current.pending),
           b.this \in (allocated \cup {Null}) \ Range(b.pending)
    PROVE  QueuesSound'
<1>1. /\ Len(activations) = 1 /\ freachable = <<>> /\ Range(freachable) = {}
      /\ DOMAIN activations = {1} /\ Current = activations[1]
  BY OneActivation DEF QueuesSound
<1>2. activations' \in Seq(Activation) /\ Len(activations') = 1 /\ activations'[1] = b
  BY <1>1, SetCurrentKeepsType
<1>3. DOMAIN activations' = {1}
  BY <1>2
<1>5. QueueTakenOver'
  BY <1>1, <1>2 DEF QueueTakenOver
<1>6. QueuesLive'
  BY <1>1, <1>2, <1>3 DEF QueuesLive, QueuesSound
<1>7. WaitsOnce'
  BY <1>1, <1>2, <1>3 DEF WaitsOnce, QueuesSound
<1>. QED  BY <1>5, <1>6, <1>7 DEF QueuesSound

(* The next object of the queue: its finalizer begins if it is Active. *)
LEMMA NextPendingPreserves ==
    ASSUME IInv, NextPending
    PROVE  IInv'
<1>. activations # <<>> /\ TypeOK /\ HeapSound
  BY DEF NextPending, InLoop, IInv
<1> DEFINE o == Head(Current.pending)
           active == registry[o] = "Active"
           b == [Current EXCEPT !.pending = Tail(@), !.this = IF active THEN o ELSE Null]
<1>1. Current \in Activation /\ Current.pending \in Seq(Objects) /\ Current.pending # <<>>
  BY CurrentIsActivation DEF NextPending, Activation
<1>2. /\ o \in Objects /\ Tail(Current.pending) \in Seq(Objects)
      /\ o = Current.pending[1]
      /\ Len(Tail(Current.pending)) = Len(Current.pending) - 1
      /\ \A i \in 1..Len(Tail(Current.pending)) : Tail(Current.pending)[i] = Current.pending[i+1]
  BY <1>1, HeadTailProperties
<1>3. b \in Activation /\ b.pending = Tail(Current.pending) /\ b.this = IF active THEN o ELSE Null
  BY <1>1, <1>2 DEF Activation
<1>4. /\ activations' = SetCurrent(b)
      /\ registry' = IF active THEN [registry EXCEPT ![o] = "Finalized"] ELSE registry
      /\ held' = IF active THEN held \cup Reachable(slots, {o}) ELSE held
      /\ UNCHANGED <<heapVars, roots, handles, enabled, freachable>>
  BY DEF NextPending
<1>. HIDE DEF b
<1>5. active => o \in allocated
  BY <1>2 DEF HeapSound, TypeOK
<1>6. active => Reachable(slots, {o}) \subseteq allocated
  BY <1>5, ReachableIsAllocated
<1>7. held' \subseteq allocated
  BY <1>4, <1>6 DEF HeapSound
<1>8. TypeOK'
  <2>1. activations' \in Seq(Activation) /\ Len(activations') = Len(activations)
    BY <1>3, <1>4, SetCurrentKeepsType
  <2>2. registry' \in [Objects -> {"none", "Active", "Suppressed", "Finalized"}]
    BY <1>2, <1>4 DEF TypeOK
  <2>. QED  BY <1>4, <1>7, <2>1, <2>2 DEF TypeOK, heapVars
<1>9. HeapSound'
  <2>1. (Roots \cup Targets("Weak"))' = Roots \cup Targets("Weak")
    BY <1>4 DEF Roots, Targets
  <2>2. \A p \in Objects : registry'[p] # "none" <=> registry[p] # "none"
    BY <1>2, <1>4 DEF TypeOK
  <2>. QED  BY <1>4, <1>7, <2>1, <2>2 DEF HeapSound, heapVars
<1>10. ASSUME ~FinalizersCollect PROVE QueuesSound'
  <2>1. QueuesSound
    BY <1>10 DEF IInv
  <2>2. 1 \in DOMAIN activations /\ Current = activations[1]
    BY <2>1, OneActivation DEF QueuesSound
  <2>3. IsInjective(Current.pending)
    BY <2>1, <2>2 DEF QueuesSound, WaitsOnce
  <2>4. PICK q \in Seq(Objects) : q = Current.pending
    BY <1>1
  <2>5. PICK t \in Seq(Objects) : t = Tail(Current.pending)
    BY <1>2
  <2>6. /\ DOMAIN q = 1..Len(q) /\ DOMAIN t = 1..Len(t) /\ Len(q) \in Nat \ {0}
        /\ Len(t) = Len(q) - 1 /\ \A i \in 1..Len(t) : t[i] = q[i+1]
    BY <1>1, <1>2, <2>4, <2>5, EmptySeq
  <2>7. IsInjective(b.pending)
    <3>1. SUFFICES ASSUME NEW i \in 1..Len(t), NEW j \in 1..Len(t), t[i] = t[j] PROVE i = j
      BY <1>3, <2>5, <2>6 DEF IsInjective
    <3>2. q[i+1] = q[j+1] /\ i+1 \in DOMAIN q /\ j+1 \in DOMAIN q
      BY <2>6, <3>1
    <3>3. i+1 = j+1
      BY <2>3, <2>4, <3>2 DEF IsInjective
    <3>. QED  BY <2>6, <3>3
  <2>8. Range(b.pending) \subseteq Range(Current.pending)
    BY <1>3, <2>4, <2>5, <2>6 DEF Range
  <2>9. o \notin Range(b.pending)
    <3>1. SUFFICES ASSUME NEW i \in 1..Len(t), t[i] = o PROVE FALSE
      BY <1>3, <2>5, <2>6 DEF Range
    <3>2. q[i+1] = q[1] /\ i+1 \in DOMAIN q /\ 1 \in DOMAIN q
      BY <1>2, <2>4, <2>6, <3>1
    <3>3. i+1 = 1
      BY <2>3, <2>4, <3>2 DEF IsInjective
    <3>. QED  BY <2>6, <3>3
  <2>10. Null \notin Range(b.pending)
    BY <1>2, <1>3, NullAssumption DEF Range
  <2>11. b.this \in (allocated \cup {Null}) \ Range(b.pending)
    BY <1>3, <1>5, <2>9, <2>10
  <2>. QED  BY <1>3, <1>4, <1>10, <2>1, <2>7, <2>8, <2>11, SetCurrentKeepsQueues DEF heapVars
<1>. QED  BY <1>8, <1>9, <1>10 DEF IInv

(* The finalizer is over: its object is no longer this. *)
LEMMA FinalizerReturnsPreserves ==
    ASSUME IInv, FinalizerReturns
    PROVE  IInv'
<1>. activations # <<>> /\ TypeOK /\ HeapSound
  BY DEF FinalizerReturns, IInv
<1> DEFINE b == [Current EXCEPT !.this = Null]
<1>1. Current \in Activation
  BY CurrentIsActivation
<1>2. b \in Activation /\ b.pending = Current.pending /\ b.this = Null
  BY <1>1 DEF Activation
<1>3. /\ activations' = SetCurrent(b)
      /\ UNCHANGED <<heapVars, roots, handles, enabled, registry, freachable, held>>
  BY DEF FinalizerReturns
<1>. HIDE DEF b
<1>4. TypeOK'
  <2>1. activations' \in Seq(Activation) /\ Len(activations') = Len(activations)
    BY <1>2, <1>3, SetCurrentKeepsType
  <2>. QED  BY <1>3, <2>1 DEF TypeOK, heapVars
<1>5. HeapSound'
  BY <1>3, SameReferences
<1>6. ASSUME ~FinalizersCollect PROVE QueuesSound'
  <2>1. QueuesSound
    BY <1>6 DEF IInv
  <2>2. 1 \in DOMAIN activations /\ Current = activations[1]
    BY <2>1, OneActivation DEF QueuesSound
  <2>3. IsInjective(Current.pending)
    BY <2>1, <2>2 DEF QueuesSound, WaitsOnce
  <2>4. Null \notin Range(b.pending)
    BY <1>1, <1>2, NullAssumption DEF Range, Activation
  <2>. QED  BY <1>2, <1>3, <1>6, <2>1, <2>3, <2>4, SetCurrentKeepsQueues DEF heapVars
<1>. QED  BY <1>4, <1>5, <1>6 DEF IInv

(* Returning from run_pending_finalizers pops its activation. *)
LEMMA FrontOfActivations ==
    ASSUME TypeOK, activations # <<>>
    PROVE  /\ Front(activations) \in Seq(Activation)
           /\ Len(Front(activations)) = Len(activations) - 1
           /\ Len(activations) = 1 => Front(activations) = <<>>
<1>1. PICK n \in Nat : n = Len(activations) - 1 /\ Len(activations) = n + 1
  BY CurrentIsActivation
<1>2. activations \in Seq(Activation)
  BY DEF TypeOK
<1>3. Front(activations) = SubSeq(activations, 1, n)
  BY <1>1 DEF Front
<1>4. SubSeq(activations, 1, n) \in Seq(Activation) /\ Len(SubSeq(activations, 1, n)) = n
  BY <1>1, <1>2
<1>5. n = 0 => SubSeq(activations, 1, n) = <<>>
  BY <1>4
<1>. QED  BY <1>1, <1>3, <1>4, <1>5

(* The innermost activation has run all its finalizers. *)
LEMMA WaitReturnsPreserves ==
    ASSUME IInv, WaitReturns
    PROVE  IInv'
<1>. activations # <<>> /\ TypeOK /\ HeapSound
  BY DEF WaitReturns, InLoop, IInv
<1>1. /\ activations' = Front(activations)
      /\ UNCHANGED <<heapVars, roots, handles, enabled, registry, freachable, held>>
  BY DEF WaitReturns
<1>2. TypeOK'
  <2>1. PICK m \in Nat : m = Len(activations)
    BY CurrentIsActivation
  <2>2. activations' \in Seq(Activation) /\ Len(activations') = m - 1
    BY <1>1, <2>1, FrontOfActivations
  <2>3. Len(activations') <= MaxActivations
    BY <2>1, <2>2, CollectorAssumption DEF TypeOK
  <2>. QED  BY <1>1, <2>2, <2>3 DEF TypeOK, heapVars
<1>3. HeapSound'
  BY <1>1, SameReferences
<1>4. ASSUME ~FinalizersCollect PROVE QueuesSound'
  <2>1. freachable' = <<>> /\ activations' = <<>>
    BY <1>1, <1>4, OneActivation, FrontOfActivations DEF IInv, QueuesSound
  <2>. QED
    BY <2>1 DEF QueuesSound, QueueTakenOver, QueuesLive, WaitsOnce, Range, IsInjective
<1>. QED  BY <1>2, <1>3, <1>4 DEF IInv
------------------------------------------------------------------------------
(* The sequences SetToSeqs makes of a finite set of objects. *)
LEMMA OrderOfObjects ==
    ASSUME NEW promoted \in SUBSET Objects, NEW order \in SetToSeqs(promoted)
    PROVE  order \in Seq(Objects) /\ IsInjective(order) /\ Range(order) \subseteq promoted
<1>1. Cardinality(promoted) \in Nat
  BY CollectorAssumption, FS_Subset, FS_CardinalityType
<1>2. /\ order \in [1..Cardinality(promoted) -> promoted]
      /\ \A i, j \in 1..Cardinality(promoted) : i # j => order[i] # order[j]
  BY DEF SetToSeqs
<1>3. order \in [1..Cardinality(promoted) -> Objects]
  BY <1>2
<1>4. order \in Seq(Objects)
  BY <1>1, <1>3, SeqDef
<1>5. IsInjective(order)
  BY <1>2 DEF IsInjective
<1>6. Range(order) \subseteq promoted
  BY <1>2 DEF Range
<1>. QED  BY <1>4, <1>5, <1>6

(* What a collection keeps: the marked objects, the promoted ones and what *)
(* they lead to. Nothing that is kept refers to anything that is not.      *)
LEMMA AliveIsClosed ==
    ASSUME TypeOK, HeapSound, NEW promoted \in SUBSET Objects,
           Promotes(Reachable(slots, Roots), promoted),
           NEW alive, alive = Reachable(slots, Roots) \cup Reachable(slots, promoted)
    PROVE  /\ alive \subseteq allocated
           /\ Roots \subseteq alive
           /\ promoted \subseteq alive
           /\ Registered("Active") \subseteq alive
           /\ IsClosed(slots, alive)
<1>1. Roots \subseteq allocated /\ Roots \subseteq Objects
  BY DEF HeapSound, TypeOK
<1>2. promoted \subseteq allocated
  BY DEF Promotes, Registered, HeapSound, TypeOK
<1>3. alive \subseteq allocated
  BY <1>1, <1>2, ReachableIsAllocated
<1>4. Roots \subseteq alive /\ promoted \subseteq alive
  BY <1>1, ReachableContainsRoots
<1>5. IsClosed(slots, alive)
  <2>1. SUFFICES ASSUME NEW o \in alive, NEW p \in Refs(slots, o) PROVE p \in alive
    BY DEF IsClosed
  <2>2. o \in Objects
    BY <1>3 DEF TypeOK
  <2>3. p \in Objects
    BY <2>2, RefsAreObjects
  <2>. QED  BY <2>3, ReachableIsClosed
<1>6. Registered("Active") \subseteq alive
  BY DEF Promotes
<1>. QED  BY <1>3, <1>4, <1>5, <1>6

(* The sweep frees what the promotion left unmarked. *)
LEMMA MarkAndSweepPreserves ==
    ASSUME IInv, MarkAndSweep
    PROVE  IInv'
<1>. activations # <<>> /\ TypeOK /\ HeapSound
  BY DEF MarkAndSweep, AtMark, InLoop, IInv
<1>1. PICK promoted \in SUBSET Objects, alive \in SUBSET Objects :
          /\ alive = Reachable(slots, Roots) \cup Reachable(slots, promoted)
          /\ Promotes(Reachable(slots, Roots), promoted)
          /\ \E order \in SetToSeqs(promoted) : freachable' = freachable \o order
          /\ allocated' = alive
          /\ slots' = [o \in Objects |-> IF o \in alive THEN slots[o] ELSE <<>>]
          /\ finalizable' = finalizable \cap alive
          /\ registry' = RegistryAfter(alive)
          /\ handles' = SweepWeak(alive)
  <2>1. PICK promoted \in SUBSET Objects :
            LET alive == Reachable(slots, Roots) \cup Reachable(slots, promoted)
            IN  /\ Promotes(Reachable(slots, Roots), promoted)
                /\ \E order \in SetToSeqs(promoted) : freachable' = freachable \o order
                /\ allocated' = alive
                /\ slots' = [o \in Objects |-> IF o \in alive THEN slots[o] ELSE <<>>]
                /\ finalizable' = finalizable \cap alive
                /\ registry' = RegistryAfter(alive)
                /\ handles' = SweepWeak(alive)
    BY DEF MarkAndSweep
  <2>2. Reachable(slots, Roots) \cup Reachable(slots, promoted) \in SUBSET Objects
    BY DEF Reachable
  <2>. QED  BY <2>1, <2>2
<1>2. activations' = Front(activations) /\ UNCHANGED <<roots, enabled>> /\ held' = HeldAfter
  BY DEF MarkAndSweep
<1>3. /\ alive \subseteq allocated /\ Roots \subseteq alive /\ promoted \subseteq alive
      /\ Registered("Active") \subseteq alive /\ IsClosed(slots, alive)
  <2>1. /\ alive = Reachable(slots, Roots) \cup Reachable(slots, promoted)
        /\ Promotes(Reachable(slots, Roots), promoted)
    BY <1>1
  <2>. QED  BY <2>1, AliveIsClosed
<1>4. PICK order \in Seq(Objects) :
          /\ freachable' = freachable \o order
          /\ IsInjective(order) /\ Range(order) \subseteq promoted
  BY <1>1, OrderOfObjects
<1>5. IsClosed(slots', allocated')
  <2>1. SUFFICES ASSUME NEW o \in alive PROVE Refs(slots', o) \subseteq alive
    BY <1>1 DEF IsClosed
  <2>2. slots'[o] = slots[o]
    BY <1>1
  <2>. QED  BY <1>3, <2>2 DEF IsClosed, Refs
<1>6. Targets("Normal")' \subseteq Targets("Normal")
  BY <1>1 DEF Targets, SweepWeak, TypeOK
<1>7. Targets("Weak")' \subseteq alive
  BY <1>1 DEF Targets, SweepWeak, TypeOK
<1>8. Roots' \subseteq alive
  BY <1>2, <1>3, <1>6 DEF Roots
<1>9. held' \subseteq allocated'
  <2>1. Roots' \cup Targets("Weak")'
            \cup ({activations'[i].this : i \in DOMAIN activations'} \cap allocated')
            \subseteq allocated'
    BY <1>1, <1>7, <1>8
  <2>2. held' = Reachable(slots', Roots' \cup Targets("Weak")'
            \cup ({activations'[i].this : i \in DOMAIN activations'} \cap allocated'))
    BY <1>2 DEF HeldAfter
  <2>3. allocated' \in SUBSET Objects
    BY <1>1
  <2>. QED  BY <1>5, <2>1, <2>2, <2>3, ReachableIsLeast
<1>10. TypeOK'
  <2>1. allocated' \subseteq Objects /\ held' \subseteq Objects /\ finalizable' \subseteq allocated'
    BY <1>1, <1>9 DEF TypeOK
  <2>2. /\ slots' \in [Objects -> {<<>>} \cup {<<p>> : p \in Objects \cup {Null}}]
        /\ \A o \in Objects : slots'[o] = <<>> <=> o \notin allocated'
    BY <1>1, <1>3 DEF TypeOK
  <2>3. handles' \in [Handles -> [type : HandleTypes, obj : Objects \cup {Null}]]
    BY <1>1 DEF SweepWeak, TypeOK
  <2>4. registry' \in [Objects -> {"none", "Active", "Suppressed", "Finalized"}]
    BY <1>1 DEF RegistryAfter, TypeOK
  <2>5. freachable' \in Seq(Objects)
    BY <1>1, <1>4 DEF TypeOK
  <2>6. PICK m \in Nat : m = Len(activations)
    BY CurrentIsActivation
  <2>7. activations' \in Seq(Activation) /\ Len(activations') = m - 1
    BY <1>2, <2>6, FrontOfActivations
  <2>8. Len(activations') <= MaxActivations
    BY <2>6, <2>7, CollectorAssumption DEF TypeOK
  <2>. QED  BY <1>2, <2>1, <2>2, <2>3, <2>4, <2>5, <2>7, <2>8 DEF TypeOK
<1>11. HeapSound'
  <2>1. \A o \in Objects : registry'[o] # "none" <=> o \in finalizable'
    BY <1>1 DEF RegistryAfter, HeapSound
  <2>. QED  BY <1>1, <1>5, <1>7, <1>8, <1>9, <2>1 DEF HeapSound
<1>12. ASSUME ~FinalizersCollect PROVE QueuesSound'
  <2>1. activations' = <<>>
    BY <1>2, <1>12, OneActivation, FrontOfActivations DEF IInv, QueuesSound
  <2>2. freachable' = order
    BY <1>1, <1>4, <1>12, OneActivation DEF IInv, QueuesSound
  <2>. QED
    BY <1>1, <1>3, <1>4, <2>1, <2>2 DEF QueuesSound, QueueTakenOver, QueuesLive, WaitsOnce
<1>. QED  BY <1>10, <1>11, <1>12 DEF IInv
------------------------------------------------------------------------------
(* Every step keeps the invariant. *)
LEMMA NextPreserves ==
    ASSUME IInv, [Next]_vars
    PROVE  IInv'
<1>1. CASE UNCHANGED vars
  <2>1. TypeOK'
    BY <1>1 DEF vars, heapVars, IInv, TypeOK
  <2>2. HeapSound'
    BY <1>1, SameReferences DEF vars, IInv
  <2>3. ~FinalizersCollect => QueuesSound'
    BY <1>1 DEF vars, heapVars, IInv, QueuesSound, QueueTakenOver, QueuesLive, WaitsOnce
  <2>. QED  BY <2>1, <2>2, <2>3 DEF IInv
<1>2. CASE ManagedStep
  BY <1>2, AllocatePreserves, WriteFieldPreserves, WriteRootPreserves, SetHandlePreserves,
     ReleaseHandlePreserves, SetModePreserves, SuppressFinalizePreserves,
     ReRegisterForFinalizePreserves, WaitPreserves
     DEF ManagedStep
<1>3. CASE Collect
  BY <1>3, CollectPreserves
<1>4. CASE FinalizerReturns
  BY <1>4, FinalizerReturnsPreserves
<1>5. CASE NativeStep
  BY <1>5, NextPendingPreserves, WaitReturnsPreserves, MarkAndSweepPreserves DEF NativeStep
<1>. QED  BY <1>1, <1>2, <1>3, <1>4, <1>5 DEF Next

(* The inductive invariant holds, whatever managed code does. *)
THEOREM Invariance == Spec => []IInv
<1>1. Init => IInv
  BY InitInvariant
<1>2. IInv /\ [Next]_vars => IInv'
  BY NextPreserves
<1>. QED  BY <1>1, <1>2, PTL DEF Spec

(* The variables keep their types, whatever finalizers do: a freed object  *)
(* has no fields, and a finalizable one has not been freed.                *)
THEOREM TypeCorrect == Spec => []TypeOK
<1>1. IInv => TypeOK
  BY DEF IInv
<1>. QED  BY <1>1, Invariance, PTL

(* Whatever finalizers do, roots, handles, fields and locals refer to      *)
(* objects that have not been freed.                                       *)
THEOREM HeapIsSound == Spec => []HeapSound
<1>1. IInv => HeapSound
  BY DEF IInv
<1>. QED  BY <1>1, Invariance, PTL

(* If finalizers do not call GC.Collect, the queues of run_pending_finalizers *)
(* and promote_unreachable hold no freed object either.                       *)
THEOREM NothingDangles == Spec => [](~FinalizersCollect => NoDangling)
<1>1. IInv => (~FinalizersCollect => NoDangling)
  BY DEF IInv, HeapSound, QueuesSound, QueuesLive, NoDangling
<1>. QED  BY <1>1, Invariance, PTL

(* If finalizers do not call GC.Collect, the assertion at the start of     *)
(* promote_unreachable holds.                                              *)
THEOREM QueueEmptyAtMark == Spec => [](~FinalizersCollect => FreachableEmptyAtMark)
<1>1. IInv => (~FinalizersCollect => FreachableEmptyAtMark)
  BY DEF IInv, QueuesSound, QueueTakenOver, FreachableEmptyAtMark, AtMark, InLoop
<1>. QED  BY <1>1, Invariance, PTL

(* If finalizers do not call GC.Collect, no object is queued twice, nor    *)
(* while its finalizer is running.                                         *)
THEOREM NothingWaitsTwice == Spec => [](~FinalizersCollect => WaitsOnce)
<1>1. IInv => (~FinalizersCollect => WaitsOnce)
  BY DEF IInv, QueuesSound
<1>. QED  BY <1>1, Invariance, PTL
------------------------------------------------------------------------------
(* The finalizer of an object runs only from the state Active, and only    *)
(* managed code leads back to it.                                          *)
THEOREM SuppressedStaysSuppressed == Spec => SuppressedNotRun
<1> DEFINE A == \A o \in Registered("Suppressed") :
                    registry'[o] \in {"Suppressed", "Active", "none"}
<1>1. ASSUME IInv, Next PROVE A
  <2>1. SUFFICES ASSUME NEW o \in Objects, registry[o] = "Suppressed"
                 PROVE  registry'[o] \in {"Suppressed", "Active", "none"}
    BY DEF Registered
  <2>. TypeOK
    BY <1>1 DEF IInv
  <2>2. CASE ManagedStep
    BY <2>1, <2>2 DEF ManagedStep, Allocate, WriteField, WriteRoot, SetHandle, ReleaseHandle,
       SetMode, SuppressFinalize, ReRegisterForFinalize, WaitForPendingFinalizers, TypeOK
  <2>3. CASE Collect \/ FinalizerReturns \/ WaitReturns
    BY <2>1, <2>3 DEF Collect, FinalizerReturns, WaitReturns
  <2>4. CASE NextPending
    BY <2>1, <2>4 DEF NextPending, TypeOK
  <2>5. CASE MarkAndSweep
    BY <2>1, <2>5 DEF MarkAndSweep, RegistryAfter
  <2>. QED  BY <1>1, <2>2, <2>3, <2>4, <2>5 DEF Next, NativeStep
<1>2. IInv /\ [Next]_vars => [A]_vars
  BY <1>1
<1>. QED  BY <1>2, Invariance, PTL DEF Spec, SuppressedNotRun

(* The sweep frees only what the promotion left unmarked, and the          *)
(* promotion marks every object whose registration is Active.              *)
THEOREM FinalizerRunsFirst == Spec => FinalizedBeforeFreed
<1> DEFINE A == Registered("Active") \subseteq allocated'
<1>1. ASSUME IInv, Next PROVE A
  <2>. TypeOK /\ HeapSound
    BY <1>1 DEF IInv
  <2>1. Registered("Active") \subseteq allocated
    BY DEF Registered, HeapSound, TypeOK
  <2>2. CASE ManagedStep
    BY <2>1, <2>2 DEF ManagedStep, Allocate, WriteField, WriteRoot, SetHandle, ReleaseHandle,
       SetMode, SuppressFinalize, ReRegisterForFinalize, WaitForPendingFinalizers, heapVars
  <2>3. CASE Collect \/ FinalizerReturns \/ WaitReturns \/ NextPending
    BY <2>1, <2>3 DEF Collect, FinalizerReturns, WaitReturns, NextPending, heapVars
  <2>4. CASE MarkAndSweep
    <3>1. PICK promoted \in SUBSET Objects :
              /\ Promotes(Reachable(slots, Roots), promoted)
              /\ allocated' = Reachable(slots, Roots) \cup Reachable(slots, promoted)
      BY <2>4 DEF MarkAndSweep
    <3>. QED  BY <3>1, AliveIsClosed
  <2>. QED  BY <1>1, <2>2, <2>3, <2>4 DEF Next, NativeStep
<1>2. IInv /\ [Next]_vars => [A]_vars
  BY <1>1
<1>. QED  BY <1>2, Invariance, PTL DEF Spec, FinalizedBeforeFreed

(* A collection keeps what the roots and the objects whose finalizers are   *)
(* due lead to, and clears a weak handle only if its target is not kept.    *)
THEOREM WeakTargetKept == Spec => WeakOutlivesFinalizer
<1> DEFINE A == \A h \in Handles :
                    MarkAndSweep /\ handles'[h] # handles[h] =>
                        handles[h].obj \notin Reachable(slots, Roots \cup Registered("Active"))
<1>1. ASSUME IInv PROVE A
  <2>1. SUFFICES ASSUME MarkAndSweep, NEW h \in Handles, handles'[h] # handles[h]
                 PROVE  handles[h].obj \notin Reachable(slots, Roots \cup Registered("Active"))
    OBVIOUS
  <2>. TypeOK /\ HeapSound
    BY <1>1 DEF IInv
  <2>2. PICK promoted \in SUBSET Objects :
            LET alive == Reachable(slots, Roots) \cup Reachable(slots, promoted)
            IN  Promotes(Reachable(slots, Roots), promoted) /\ handles' = SweepWeak(alive)
    BY <2>1 DEF MarkAndSweep
  <2>3. PICK alive \in SUBSET Objects :
            /\ alive = Reachable(slots, Roots) \cup Reachable(slots, promoted)
            /\ handles' = SweepWeak(alive)
    BY <2>2 DEF Reachable
  <2>4. Roots \cup Registered("Active") \subseteq alive /\ IsClosed(slots, alive)
    BY <2>2, <2>3, AliveIsClosed
  <2>5. Reachable(slots, Roots \cup Registered("Active")) \subseteq alive
    BY <2>4, ReachableIsLeast
  <2>6. handles[h].obj \notin alive
    BY <2>1, <2>3 DEF SweepWeak
  <2>. QED  BY <2>5, <2>6
<1>2. IInv /\ [Next]_vars => [A]_vars
  BY <1>1
<1>. QED  BY <1>2, Invariance, PTL DEF Spec, WeakOutlivesFinalizer
==============================================================================
