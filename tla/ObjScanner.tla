----------------------------- MODULE ObjScanner ------------------------------
(***************************************************************************)
(* The marking traversal of gc::ObjScanner as GcRoots::foreach_root and    *)
(* GcFinalizer::promote_unreachable drive it.                              *)
(*                                                                         *)
(* Fields are scanned by native recursion up to MaxDepth nested objects;   *)
(* past that depth, or once BatchThreshold objects wait, an object marked  *)
(* but not scanned goes to a deferred queue. The queue is flushed when it  *)
(* reaches the threshold and once more when the roots are exhausted; while *)
(* it is being flushed nothing recurses.                                   *)
(*                                                                         *)
(* One step is one slot of the object on top of the native stack.          *)
(***************************************************************************)
EXTENDS HeapGraph, Naturals, FiniteSets

CONSTANTS
    Statics,         \* static data areas of classes
    BatchThreshold,  \* kDeferredScanBatchThreshold
    MaxDepth,        \* kMaxRecursiveVisitDepth
    Heaps            \* the heaps a traversal may start from

(***************************************************************************)
(* A heap: the reference slots of every object and static area; the leaf   *)
(* objects, whose class has no reference field; the arrays whose sealed    *)
(* element class has none (their elements are only marked); the objects    *)
(* the caller visits as roots; and the objects an earlier traversal over   *)
(* the same bitmap has marked, a closed set.                               *)
(***************************************************************************)
IsHeap(h) ==
    /\ h.slots \in [Objects \cup Statics -> Seq(Objects \cup {Null})]
    /\ h.leaves \subseteq {o \in Objects : h.slots[o] = <<>>}
    /\ h.sealedArrays \subseteq {o \in Objects : Refs(h.slots, o) \subseteq h.leaves}
    /\ h.roots \subseteq Objects
    /\ h.marked \subseteq Objects
    /\ IsClosed(h.slots, h.marked)

ASSUME ScannerAssumption ==
    /\ Objects \cap Statics = {}
    /\ BatchThreshold \in Nat \ {0}
    /\ MaxDepth \in Nat
    /\ \A h \in Heaps : IsHeap(h)

VARIABLES
    heap,            \* the heap being traversed; it does not change
    marked,          \* the alive bitmap
    todo,            \* roots and static areas the caller has still to visit
    frames,          \* the activations of scan_object_fields, outermost first
    queue,           \* deferred_field_scan_queue_
    deferredDepth,   \* deferred_scan_depth_
    recursiveDepth,  \* recursive_visit_depth_
    finishing        \* finish_visit has been called

vars == <<heap, marked, todo, frames, queue, deferredDepth, recursiveDepth, finishing>>

(* What called scan_object_fields: visit_object or visit_class_static_data, *)
(* enqueue_deferred_field_scan, or the loop of flush_deferred_field_scans.  *)
Vias == {"root", "inline", "flush"}

HasReferences(o) == o \notin heap.leaves

StaticRoots == UNION {Refs(heap.slots, s) : s \in Statics}
AllRoots == heap.roots \cup StaticRoots

Top == frames[Len(frames)]
Activation(o, via) == [owner |-> o, next |-> 1, via |-> via]

(* The flush loop, and not an activation it called, is what executes. *)
InFlushLoop ==
    /\ deferredDepth > 0
    /\ frames # <<>> => Top.via # "flush"

(* The traversal is back in its caller. *)
Idle == frames = <<>> /\ deferredDepth = 0

(* The activation on top has a slot left; child is its content. *)
AtSlot(child) ==
    /\ frames # <<>> /\ ~InFlushLoop
    /\ Top.next \in DOMAIN heap.slots[Top.owner]
    /\ child = heap.slots[Top.owner][Top.next]

Advanced == [frames EXCEPT ![Len(frames)].next = @ + 1]
------------------------------------------------------------------------------
Init ==
    /\ heap \in Heaps
    /\ marked = heap.marked
    /\ todo = heap.roots \cup Statics
    /\ frames = <<>>
    /\ queue = <<>>
    /\ deferredDepth = 0
    /\ recursiveDepth = 0
    /\ finishing = FALSE

(* visit_object on a root the caller holds. *)
VisitObject(o) ==
    /\ Idle /\ ~finishing
    /\ o \in todo \cap Objects
    /\ todo' = todo \ {o}
    /\ marked' = marked \cup {o}
    /\ frames' = IF o \notin marked /\ HasReferences(o)
                 THEN <<Activation(o, "root")>> ELSE frames
    /\ UNCHANGED <<heap, queue, deferredDepth, recursiveDepth, finishing>>

(* visit_class_static_data: the static areas come after the other roots. *)
VisitClassStaticData(s) ==
    /\ Idle /\ ~finishing
    /\ todo \cap Objects = {}
    /\ s \in todo \cap Statics
    /\ todo' = todo \ {s}
    /\ frames' = <<Activation(s, "root")>>
    /\ UNCHANGED <<heap, marked, queue, deferredDepth, recursiveDepth, finishing>>

(* A null slot, or a child that visit() reports as marked before. *)
SkipSlot ==
    \E child \in marked \cup {Null} :
        /\ AtSlot(child)
        /\ frames' = Advanced
        /\ UNCHANGED <<heap, marked, todo, queue, deferredDepth, recursiveDepth, finishing>>

(* visit_object_self_only, or an enqueued child without reference fields. *)
MarkOnly ==
    \E child \in Objects \ marked :
        /\ AtSlot(child)
        /\ Top.owner \in heap.sealedArrays \/ ~HasReferences(child)
        /\ marked' = marked \cup {child}
        /\ frames' = Advanced
        /\ UNCHANGED <<heap, todo, queue, deferredDepth, recursiveDepth, finishing>>

(* Mutant: a marked child is enqueued again. *)
EnqueuesMarked(child) ==
    /\ AtSlot(child)
    /\ Top.owner \notin heap.sealedArrays
    /\ HasReferences(child)

(* A newly marked child whose fields enqueue_deferred_field_scan scans. *)
Enqueues(child) ==
    /\ child \in Objects \ marked
    /\ AtSlot(child)
    /\ Top.owner \notin heap.sealedArrays
    /\ HasReferences(child)

(* Mutant: the recursion depth is not looked at. *)
ScansInlineAtAnyDepth ==
    /\ deferredDepth = 0
    /\ Len(queue) < BatchThreshold

ScansInline ==
    /\ deferredDepth = 0
    /\ Len(queue) < BatchThreshold
    /\ recursiveDepth < MaxDepth

(* enqueue_deferred_field_scan recurses into the child. *)
ScanInline ==
    \E child \in Objects :
        /\ Enqueues(child)
        /\ ScansInline
        /\ marked' = marked \cup {child}
        /\ frames' = Append(Advanced, Activation(child, "inline"))
        /\ recursiveDepth' = recursiveDepth + 1
        /\ UNCHANGED <<heap, todo, queue, deferredDepth, finishing>>

(* Mutant: a child found while the queue is being flushed is not queued. *)
DeferScanOnlyOutsideFlush ==
    \E child \in Objects :
        /\ Enqueues(child)
        /\ ~ScansInline
        /\ marked' = marked \cup {child}
        /\ frames' = Advanced
        /\ queue' = IF deferredDepth = 0 THEN Append(queue, child) ELSE queue
        /\ deferredDepth' = IF Len(queue') >= BatchThreshold THEN 1 ELSE deferredDepth
        /\ UNCHANGED <<heap, todo, recursiveDepth, finishing>>

(* enqueue_deferred_field_scan queues the child, and flushes a full queue  *)
(* unless a flush is already under way.                                    *)
DeferScan ==
    \E child \in Objects :
        /\ Enqueues(child)
        /\ ~ScansInline
        /\ marked' = marked \cup {child}
        /\ frames' = Advanced
        /\ queue' = Append(queue, child)
        /\ deferredDepth' = IF Len(queue') >= BatchThreshold THEN 1 ELSE deferredDepth
        /\ UNCHANGED <<heap, todo, recursiveDepth, finishing>>

(* scan_object_fields returns to its caller. *)
Return ==
    /\ frames # <<>> /\ ~InFlushLoop
    /\ Top.next \notin DOMAIN heap.slots[Top.owner]
    /\ frames' = SubSeq(frames, 1, Len(frames) - 1)
    /\ recursiveDepth' = IF Top.via = "inline" THEN recursiveDepth - 1 ELSE recursiveDepth
    /\ UNCHANGED <<heap, marked, todo, queue, deferredDepth, finishing>>

(* Mutant: the object is read from the queue and left there. *)
FlushNextKeepsObject ==
    /\ InFlushLoop
    /\ queue # <<>>
    /\ frames' = Append(frames, Activation(queue[Len(queue)], "flush"))
    /\ UNCHANGED <<heap, marked, todo, queue, deferredDepth, recursiveDepth, finishing>>

(* One round of the loop of flush_deferred_field_scans: last in, first out. *)
FlushNext ==
    /\ InFlushLoop
    /\ queue # <<>>
    /\ queue' = SubSeq(queue, 1, Len(queue) - 1)
    /\ frames' = Append(frames, Activation(queue[Len(queue)], "flush"))
    /\ UNCHANGED <<heap, marked, todo, deferredDepth, recursiveDepth, finishing>>

(* flush_deferred_field_scans returns to the activation that called it. *)
FlushReturn ==
    /\ InFlushLoop
    /\ queue = <<>>
    /\ deferredDepth' = deferredDepth - 1
    /\ UNCHANGED <<heap, marked, todo, frames, queue, recursiveDepth, finishing>>

(* Mutant: what is deferred when the roots are exhausted is left. *)
FinishVisitWithoutFlush ==
    /\ Idle /\ ~finishing
    /\ todo = {}
    /\ finishing' = TRUE
    /\ UNCHANGED <<heap, marked, todo, frames, queue, deferredDepth, recursiveDepth>>

(* finish_visit flushes what is still deferred. *)
FinishVisit ==
    /\ Idle /\ ~finishing
    /\ todo = {}
    /\ finishing' = TRUE
    /\ deferredDepth' = 1
    /\ UNCHANGED <<heap, marked, todo, frames, queue, recursiveDepth>>

Next ==
    \/ \E o \in Objects : VisitObject(o)
    \/ \E s \in Statics : VisitClassStaticData(s)
    \/ SkipSlot
    \/ MarkOnly
    \/ ScanInline
    \/ DeferScan
    \/ Return
    \/ FlushNext
    \/ FlushReturn
    \/ FinishVisit

Spec == Init /\ [][Next]_vars

(* The traversal is one native call on the only thread: it runs on.        *)
FairSpec == Spec /\ WF_vars(Next)
------------------------------------------------------------------------------
Done == finishing /\ Idle

ActivationType ==
    [owner : Objects \cup Statics, next : Nat \ {0}, via : Vias]

TypeOK ==
    /\ IsHeap(heap)
    /\ marked \subseteq Objects
    /\ todo \subseteq Objects \cup Statics
    /\ frames \in Seq(ActivationType)
    /\ queue \in Seq(Objects)
    /\ deferredDepth \in {0, 1}
    /\ recursiveDepth \in 0 .. MaxDepth
    /\ finishing \in BOOLEAN

(* An object is pending when its fields have still to be scanned, wholly   *)
(* (it is queued) or partly (an activation is at one of its slots).        *)
IsQueued(o) == \E i \in DOMAIN queue : queue[i] = o
IsActive(o) == \E i \in DOMAIN frames : frames[i].owner = o

(***************************************************************************)
(* The tricolour invariant: a reference from a marked object to an         *)
(* unmarked one is in an object still queued, or in a slot an activation   *)
(* has not come to. Switching between recursion, queue and batch flush     *)
(* loses no object.                                                        *)
(***************************************************************************)
NoBlackToWhite ==
    /\ \A o \in marked :
           IsQueued(o) \/ IsActive(o) \/ Refs(heap.slots, o) \subseteq marked
    /\ \A i \in DOMAIN frames : \A j \in DOMAIN heap.slots[frames[i].owner] :
           j < frames[i].next => heap.slots[frames[i].owner][j] \in marked \cup {Null}

(***************************************************************************)
(* When finish_visit returns, the bitmap holds the objects marked before   *)
(* and exactly those reachable from the roots: none missed (it would be    *)
(* freed while in use) and none too many (it would never be freed). The    *)
(* queue is empty, as finish_visit and the destructor assert.              *)
(***************************************************************************)
MarksReachable ==
    Done => /\ marked = heap.marked \cup Reachable(heap.slots, AllRoots)
            /\ queue = <<>>

(***************************************************************************)
(* However deep the graph, the native stack holds at most MaxDepth + 2     *)
(* activations: the root's, the nested ones and one of the flush loop.     *)
(***************************************************************************)
NativeStackBounded == Len(frames) <= MaxDepth + 2

(* No object is scanned twice: none is queued twice, queued while an       *)
(* activation is at it, or at two activations.                             *)
ScannedOnce ==
    /\ \A i, j \in DOMAIN queue : queue[i] = queue[j] => i = j
    /\ \A i, j \in DOMAIN frames : frames[i].owner = frames[j].owner => i = j
    /\ \A i \in DOMAIN queue : ~IsActive(queue[i])

(* The traversal ends on every graph, cyclic ones included. *)
Terminates == <>Done
==============================================================================
