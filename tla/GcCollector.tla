----------------------------- MODULE GcCollector -----------------------------
(***************************************************************************)
(* Garbage collection and finalization as the managed program meets them:  *)
(* MarkSweepHeap, GcRoots, GcFinalizer and the GC handles.                 *)
(*                                                                         *)
(* Everything runs on one thread. collect() first runs the finalizers the  *)
(* previous collection queued, and those are managed code: they allocate,  *)
(* write fields, resurrect, register again and, if FinalizersCollect,      *)
(* collect themselves. The activations of run_pending_finalizers are a     *)
(* stack; managed code executes when the stack is empty or a finalizer of  *)
(* its top activation is running. Marking, promotion and sweeping execute  *)
(* no managed code and are one step; ObjScanner, AddressBitmap and         *)
(* SizeClassPool model what is inside it.                                  *)
(*                                                                         *)
(* Managed locals are not roots: a program keeps across a collection only  *)
(* what it can read again from a root, a strong handle or a weak one.      *)
(***************************************************************************)
EXTENDS HeapGraph, Naturals, SequencesExt

CONSTANTS
    RootSlots,          \* registered root slots and static reference fields
    Handles,            \* HandleInfo structures
    FinalizersCollect,  \* finalizers call GC.Collect
    MaxActivations      \* bound: nested run_pending_finalizers calls

ASSUME CollectorAssumption ==
    /\ IsFiniteSet(Objects)
    /\ FinalizersCollect \in BOOLEAN
    /\ MaxActivations \in Nat \ {0}

VARIABLES
    allocated,    \* objects of the heap; an address is used again once freed
    slots,        \* their reference fields
    finalizable,  \* the objects whose class has a finalizer
    roots,        \* contents of the root slots
    handles,      \* the handle table
    enabled,      \* s_gc_mode is not DISABLED
    registry,     \* s_registry
    freachable,   \* s_freachable
    activations,  \* calls of run_pending_finalizers, outermost first
    held          \* objects managed code can name: its locals and what they lead to

heapVars == <<allocated, slots, finalizable>>
vars == <<heapVars, roots, handles, enabled, registry, freachable, activations, held>>

HandleTypes == {"free", "Weak", "Normal"}
FreeHandle == [type |-> "free", obj |-> Null]

Targets(type) == {handles[h].obj : h \in {g \in Handles : handles[g].type = type}} \ {Null}

(* What foreach_root visits: registered slots, strong handles, statics. *)
Roots == ({roots[r] : r \in RootSlots} \ {Null}) \cup Targets("Normal")

Registered(state) == {o \in Objects : registry[o] = state}

Current == activations[Len(activations)]

ManagedCodeRuns == activations # <<>> => Current.this # Null

(* The loop of run_pending_finalizers executes. *)
InLoop == activations # <<>> /\ Current.this = Null

SetCurrent(a) == [activations EXCEPT ![Len(activations)] = a]
------------------------------------------------------------------------------
Init ==
    /\ allocated = {}
    /\ slots = [o \in Objects |-> <<>>]
    /\ finalizable = {}
    /\ roots = [r \in RootSlots |-> Null]
    /\ handles = [h \in Handles |-> FreeHandle]
    /\ enabled = TRUE
    /\ registry = [o \in Objects |-> "none"]
    /\ freachable = <<>>
    /\ activations = <<>>
    /\ held = {}

(* MarkSweepHeap::allocate_object: a zeroed block, registered if its class *)
(* has a finalizer.                                                        *)
Allocate(o, hasFinalizer) ==
    /\ ManagedCodeRuns
    /\ o \notin allocated
    /\ allocated' = allocated \cup {o}
    /\ slots' = [slots EXCEPT ![o] = <<Null>>]
    /\ finalizable' = IF hasFinalizer THEN finalizable \cup {o} ELSE finalizable
    /\ registry' = IF hasFinalizer THEN [registry EXCEPT ![o] = "Active"] ELSE registry
    /\ held' = held \cup {o}
    /\ UNCHANGED <<roots, handles, enabled, freachable, activations>>

(* Managed code stores a reference in a field or in a static. *)
WriteField(o, p) ==
    /\ ManagedCodeRuns
    /\ o \in held
    /\ p \in held \cup {Null}
    /\ slots' = [slots EXCEPT ![o] = <<p>>]
    /\ UNCHANGED <<allocated, finalizable, roots, handles, enabled, registry,
                   freachable, activations, held>>

WriteRoot(r, p) ==
    /\ ManagedCodeRuns
    /\ p \in held \cup {Null}
    /\ roots' = [roots EXCEPT ![r] = p]
    /\ UNCHANGED <<heapVars, handles, enabled, registry, freachable, activations, held>>

(* new_handle, new_weakref_handle, and get_target_handle on a handle in use. *)
SetHandle(h, type, p) ==
    /\ ManagedCodeRuns
    /\ type # "free"
    /\ p \in held \cup {Null}
    /\ handles' = [handles EXCEPT ![h] = [type |-> type, obj |-> p]]
    /\ UNCHANGED <<heapVars, roots, enabled, registry, freachable, activations, held>>

(* free_handle *)
ReleaseHandle(h) ==
    /\ ManagedCodeRuns
    /\ handles[h].type # "free"
    /\ handles' = [handles EXCEPT ![h] = FreeHandle]
    /\ UNCHANGED <<heapVars, roots, enabled, registry, freachable, activations, held>>

(* GC::enable and GC::disable *)
SetMode(mode) ==
    /\ ManagedCodeRuns
    /\ enabled' = mode
    /\ UNCHANGED <<heapVars, roots, handles, registry, freachable, activations, held>>

SuppressFinalize(o) ==
    /\ ManagedCodeRuns
    /\ o \in held \cap finalizable
    /\ registry[o] = "Active"
    /\ registry' = [registry EXCEPT ![o] = "Suppressed"]
    /\ UNCHANGED <<heapVars, roots, handles, enabled, freachable, activations, held>>

ReRegisterForFinalize(o) ==
    /\ ManagedCodeRuns
    /\ o \in held \cap finalizable
    /\ registry' = [registry EXCEPT ![o] = "Active"]
    /\ UNCHANGED <<heapVars, roots, handles, enabled, freachable, activations, held>>
------------------------------------------------------------------------------
(* Mutant: the queue is copied and not cleared. *)
RunPendingKeepsQueue(forCollect) ==
    /\ Len(activations) < MaxActivations
    /\ activations' =
           Append(activations, [pending |-> freachable, this |-> Null, collecting |-> forCollect])
    /\ UNCHANGED freachable

(* run_pending_finalizers takes the queue over. *)
RunPending(forCollect) ==
    /\ Len(activations) < MaxActivations
    /\ activations' =
           Append(activations, [pending |-> freachable, this |-> Null, collecting |-> forCollect])
    /\ freachable' = <<>>

(* collect(), up to the loop of run_pending_finalizers. *)
Collect ==
    /\ ManagedCodeRuns
    /\ activations # <<>> => FinalizersCollect
    /\ enabled
    /\ RunPending(TRUE)
    /\ UNCHANGED <<heapVars, roots, handles, enabled, registry, held>>

WaitForPendingFinalizers ==
    /\ ManagedCodeRuns
    /\ freachable # <<>>
    /\ RunPending(FALSE)
    /\ UNCHANGED <<heapVars, roots, handles, enabled, registry, held>>

(* Mutant: a finalizer runs whatever became of the registration. *)
NextPendingUnchecked ==
    /\ InLoop
    /\ Current.pending # <<>>
    /\ LET o == Head(Current.pending) IN
           /\ activations' = SetCurrent([Current EXCEPT !.pending = Tail(@), !.this = o])
           /\ registry' = [registry EXCEPT ![o] = "Finalized"]
           /\ held' = held \cup Reachable(slots, {o})
    /\ UNCHANGED <<heapVars, roots, handles, enabled, freachable>>

(* One round of the loop: the finalizer of an object still Active is       *)
(* invoked; any other is skipped.                                          *)
NextPending ==
    /\ InLoop
    /\ Current.pending # <<>>
    /\ LET o == Head(Current.pending)
           active == registry[o] = "Active"
       IN  /\ activations' = SetCurrent([Current EXCEPT !.pending = Tail(@),
                                                        !.this = IF active THEN o ELSE Null])
           /\ registry' = IF active THEN [registry EXCEPT ![o] = "Finalized"] ELSE registry
           /\ held' = IF active THEN held \cup Reachable(slots, {o}) ELSE held
    /\ UNCHANGED <<heapVars, roots, handles, enabled, freachable>>

(* The finalizer returns, or throws: the exception is printed. *)
FinalizerReturns ==
    /\ activations # <<>>
    /\ Current.this # Null
    /\ activations' = SetCurrent([Current EXCEPT !.this = Null])
    /\ UNCHANGED <<heapVars, roots, handles, enabled, registry, freachable, held>>

(* wait_for_pending_finalizers returns. *)
WaitReturns ==
    /\ InLoop
    /\ Current.pending = <<>> /\ ~Current.collecting
    /\ activations' = Front(activations)
    /\ UNCHANGED <<heapVars, roots, handles, enabled, registry, freachable, held>>

(* collect() has run the pending finalizers and goes on to mark. *)
AtMark == InLoop /\ Current.pending = <<>> /\ Current.collecting

(* Mutant: only objects that no unreachable object refers to are promoted. *)
PromotesOnlySources(marked, promoted) ==
    LET dead == Registered("Active") \ marked
    IN  promoted = {o \in dead : \A p \in dead : o \notin Refs(slots, p)}

(* Mutant: registrations that are no longer Active are promoted too. *)
PromotesEveryRegistered(marked, promoted) ==
    LET dead == finalizable \ marked
    IN  /\ promoted \subseteq dead
        /\ dead \subseteq Reachable(slots, promoted)

(***************************************************************************)
(* promote_unreachable over a bitmap that holds marked: the registry is a  *)
(* hash map, its order arbitrary. An Active unmarked object is queued      *)
(* unless the scan of one queued before has already marked it; how far     *)
(* that scan has come, when it defers, is left open too.                   *)
(***************************************************************************)
Promotes(marked, promoted) ==
    LET dead == Registered("Active") \ marked
    IN  /\ promoted \subseteq dead
        /\ dead \subseteq Reachable(slots, promoted)

(* Mutant: a handle is cleared unless the roots lead to its target. *)
SweepWeakUnpromoted(alive) ==
    [h \in Handles |->
        IF handles[h].type = "Weak" /\ handles[h].obj \notin Reachable(slots, Roots)
        THEN [handles[h] EXCEPT !.obj = Null] ELSE handles[h]]

(* sweep_weak_handles *)
SweepWeak(alive) ==
    [h \in Handles |->
        IF handles[h].type = "Weak" /\ handles[h].obj \notin alive
        THEN [handles[h] EXCEPT !.obj = Null] ELSE handles[h]]

(* Mutant: on_object_freed is not called. *)
RegistryAfterKeepsFreed(alive) == registry

(* on_object_freed for every object the sweeps free *)
RegistryAfter(alive) == [o \in Objects |-> IF o \in alive THEN registry[o] ELSE "none"]

(* What managed code can name when a collection returns to it. *)
HeldAfter ==
    Reachable(slots', Roots' \cup Targets("Weak")'
                      \cup ({activations'[i].this : i \in DOMAIN activations'} \cap allocated'))

(* Mark from the roots, promote, sweep objects and weak handles, return. *)
MarkAndSweep ==
    /\ AtMark
    /\ \E promoted \in SUBSET Objects :
           LET marked == Reachable(slots, Roots)
               alive == marked \cup Reachable(slots, promoted)
           IN  /\ Promotes(marked, promoted)
               /\ \E order \in SetToSeqs(promoted) : freachable' = freachable \o order
               /\ allocated' = alive
               /\ slots' = [o \in Objects |-> IF o \in alive THEN slots[o] ELSE <<>>]
               /\ finalizable' = finalizable \cap alive
               /\ registry' = RegistryAfter(alive)
               /\ handles' = SweepWeak(alive)
    /\ activations' = Front(activations)
    /\ UNCHANGED <<roots, enabled>>
    /\ held' = HeldAfter

ManagedStep ==
    \/ \E o \in Objects, hasFinalizer \in BOOLEAN : Allocate(o, hasFinalizer)
    \/ \E o \in Objects, p \in Objects \cup {Null} : WriteField(o, p)
    \/ \E r \in RootSlots, p \in Objects \cup {Null} : WriteRoot(r, p)
    \/ \E h \in Handles, type \in HandleTypes, p \in Objects \cup {Null} : SetHandle(h, type, p)
    \/ \E h \in Handles : ReleaseHandle(h)
    \/ \E mode \in BOOLEAN : SetMode(mode)
    \/ \E o \in Objects : SuppressFinalize(o)
    \/ \E o \in Objects : ReRegisterForFinalize(o)
    \/ WaitForPendingFinalizers

NativeStep == NextPending \/ WaitReturns \/ MarkAndSweep

Next == ManagedStep \/ Collect \/ FinalizerReturns \/ NativeStep

Spec == Init /\ [][Next]_vars

(* Native code runs on, finalizers return, and the host goes on calling    *)
(* collect (as a Unity host does through il2cpp_gc_collect_a_little).      *)
FairSpec ==
    Spec /\ WF_vars(NativeStep) /\ WF_vars(FinalizerReturns) /\ WF_vars(Collect)
------------------------------------------------------------------------------
Activation ==
    [pending : Seq(Objects), this : Objects \cup {Null}, collecting : BOOLEAN]

TypeOK ==
    /\ allocated \subseteq Objects
    /\ slots \in [Objects -> {<<>>} \cup {<<p>> : p \in Objects \cup {Null}}]
    /\ \A o \in Objects : slots[o] = <<>> <=> o \notin allocated
    /\ finalizable \subseteq allocated
    /\ roots \in [RootSlots -> Objects \cup {Null}]
    /\ handles \in [Handles -> [type : HandleTypes, obj : Objects \cup {Null}]]
    /\ enabled \in BOOLEAN
    /\ registry \in [Objects -> {"none", "Active", "Suppressed", "Finalized"}]
    /\ freachable \in Seq(Objects)
    /\ activations \in Seq(Activation)
    /\ Len(activations) <= MaxActivations
    /\ held \subseteq Objects

(***************************************************************************)
(* Memory safety of the collector's own structures and of what managed     *)
(* code can reach: every pointer kept in a root, a handle of any type, a   *)
(* field, a local, the registry or a finalizer queue is to an object that  *)
(* has not been freed.                                                     *)
(***************************************************************************)
NoDangling ==
    /\ Roots \cup Targets("Weak") \subseteq allocated
    /\ IsClosed(slots, allocated)
    /\ held \subseteq allocated
    /\ \A o \in Objects : registry[o] # "none" <=> o \in finalizable
    /\ Range(freachable) \subseteq allocated
    /\ \A i \in DOMAIN activations :
           {activations[i].this} \cup Range(activations[i].pending) \subseteq allocated \cup {Null}

(* promote_unreachable asserts that the finalizers the previous collection *)
(* queued have all been taken over.                                        *)
FreachableEmptyAtMark == AtMark => freachable = <<>>

(* An object waits for its finalizer in one place at most, and not while   *)
(* that finalizer is running.                                              *)
WaitsOnce ==
    /\ IsInjective(freachable)
    /\ \A i \in DOMAIN activations :
           LET a == activations[i] IN
           /\ IsInjective(a.pending)
           /\ a.this \notin Range(a.pending)
           /\ Range(freachable) \cap ({a.this} \cup Range(a.pending)) = {}

(* A finalizer never runs for an object that managed code has suppressed   *)
(* and not registered again, even if it was queued before.                 *)
SuppressedNotRun ==
    [][\A o \in Registered("Suppressed") : registry'[o] \in {"Suppressed", "Active", "none"}]_vars

(* No object is freed whose finalizer is due: it is finalized first, or    *)
(* its finalization has been suppressed.                                   *)
FinalizedBeforeFreed == [][Registered("Active") \subseteq allocated']_vars

(* A weak handle keeps its target while the roots lead to it or an object   *)
(* whose finalizer is due does, so that what a finalizer resurrects is      *)
(* still found through it.                                                  *)
WeakOutlivesFinalizer ==
    [][\A h \in Handles :
         MarkAndSweep /\ handles'[h] # handles[h] =>
             handles[h].obj \notin Reachable(slots, Roots \cup Registered("Active"))]_vars

(* While the collector is enabled, what managed code can no longer name is *)
(* freed or handed to a finalizer, cycles of objects with finalizers       *)
(* included.                                                               *)
GarbageReclaimed ==
    \A o \in Objects :
        o \in allocated \ held ~> (o \notin allocated \/ o \in held \/ ~enabled)
==============================================================================
