---------------------------- MODULE MarkingProofs ----------------------------
(***************************************************************************)
(* The marking traversal is correct for every heap, every recursion limit  *)
(* and every batch threshold: when it returns, the bitmap holds what was   *)
(* marked before and exactly what is reachable from the roots. And the     *)
(* bitmap it marks in is a set of addresses, for every granularity,        *)
(* segment size, cache size and set of objects.                            *)
(***************************************************************************)
EXTENDS ObjScanner, AddressBitmap, SequenceTheorems, TLAPS

(***************************************************************************)
(* Reachability is the least closed set.                                   *)
(***************************************************************************)
(* Every root is reachable. *)
LEMMA ReachableContainsRoots ==
    ASSUME NEW graph, NEW R \in SUBSET Objects
    PROVE  R \subseteq Reachable(graph, R)
BY DEF Reachable

(* What a reachable object refers to is reachable. *)
LEMMA ReachableIsClosed ==
    ASSUME NEW graph, NEW R, NEW o \in Reachable(graph, R),
           NEW p \in Refs(graph, o), p \in Objects
    PROVE  p \in Reachable(graph, R)
<1>1. SUFFICES ASSUME NEW S \in SUBSET Objects, R \subseteq S, IsClosed(graph, S)
               PROVE  p \in S
  BY DEF Reachable
<1>2. o \in S
  BY <1>1 DEF Reachable
<1>. QED  BY <1>1, <1>2 DEF IsClosed

(* A closed set that contains the roots contains all that is reachable. *)
LEMMA ReachableIsLeast ==
    ASSUME NEW graph, NEW R, NEW S \in SUBSET Objects,
           R \subseteq S, IsClosed(graph, S)
    PROVE  Reachable(graph, R) \subseteq S
BY DEF Reachable

(* Native recursion: where each kind of activation may stand on the stack, *)
(* and how their number relates to recursive_visit_depth_.                 *)
Rooted == IF frames # <<>> /\ frames[1].via = "root" THEN 1 ELSE 0
Flushing == IF frames # <<>> /\ Top.via = "flush" THEN 1 ELSE 0

StackShape ==
    /\ \A i \in DOMAIN frames :
           /\ frames[i].via = "flush" => i = Len(frames) /\ deferredDepth = 1
           /\ frames[i].via = "root" => i = 1
           /\ frames[i].via = "inline" => i # 1
    /\ Len(frames) = recursiveDepth + Rooted + Flushing

(* What is pending has been marked; a static area is visited once. *)
PendingMarked ==
    /\ \A i \in DOMAIN frames :
           frames[i].owner \in Objects => frames[i].owner \in marked
    /\ \A i \in DOMAIN frames : frames[i].owner \in Statics => frames[i].owner \notin todo
    /\ \A i \in DOMAIN queue : queue[i] \in marked

(* Nothing is marked that should not be. *)
MarkedSound ==
    /\ heap.marked \subseteq marked
    /\ marked \subseteq heap.marked \cup Reachable(heap.slots, AllRoots)

(* A root that is not to be visited any more has been. *)
RootsCovered ==
    /\ todo \cap Objects \subseteq heap.roots
    /\ \A o \in heap.roots : o \in todo \cup marked
    /\ \A s \in Statics : s \in todo \/ IsActive(s) \/ Refs(heap.slots, s) \subseteq marked

(* finish_visit only flushes. *)
FinishingShape ==
    finishing =>
        /\ todo = {}
        /\ \A i \in DOMAIN frames : frames[i].via = "flush"
        /\ deferredDepth = 0 => frames = <<>> /\ queue = <<>>

IInv ==
    /\ TypeOK
    /\ StackShape
    /\ PendingMarked
    /\ MarkedSound
    /\ RootsCovered
    /\ FinishingShape
    /\ NoBlackToWhite
    /\ ScannedOnce
------------------------------------------------------------------------------
(* Facts about the sequences the traversal is made of. *)
LEMMA HeapFacts ==
    ASSUME IsHeap(heap), NEW o \in Objects \cup Statics
    PROVE  /\ heap.slots[o] \in Seq(Objects \cup {Null})
           /\ DOMAIN heap.slots[o] = 1 .. Len(heap.slots[o])
           /\ Refs(heap.slots, o) \subseteq Objects
           /\ \A i \in DOMAIN heap.slots[o] : heap.slots[o][i] \in Objects \cup {Null}
<1>1. heap.slots[o] \in Seq(Objects \cup {Null})
  BY DEF IsHeap
<1>. QED  BY <1>1, LenProperties, ElementOfSeq DEF Refs

(* The activation on top of the native stack and its owner are typed. *)
LEMMA FrameFacts ==
    ASSUME TypeOK
    PROVE  /\ Len(frames) \in Nat
           /\ DOMAIN frames = 1 .. Len(frames)
           /\ \A i \in 1 .. Len(frames) : frames[i] \in ActivationType
           /\ frames # <<>> => Len(frames) \in 1 .. Len(frames) /\ Top \in ActivationType
           /\ frames = <<>> <=> Len(frames) = 0
<1>1. frames \in Seq(ActivationType)
  BY DEF TypeOK
<1>. QED  BY <1>1, LenProperties, ElementOfSeq, EmptySeq DEF Top

(* Passing a slot changes nothing but the position of the top activation. *)
LEMMA AdvancedFacts ==
    ASSUME TypeOK, frames # <<>>
    PROVE  /\ Advanced \in Seq(ActivationType)
           /\ Len(Advanced) = Len(frames)
           /\ DOMAIN Advanced = 1 .. Len(frames)
           /\ Advanced # <<>>
           /\ \A i \in 1 .. Len(frames) :
                 /\ Advanced[i].owner = frames[i].owner
                 /\ Advanced[i].via = frames[i].via
                 /\ Advanced[i].next = IF i = Len(frames) THEN frames[i].next + 1
                                                          ELSE frames[i].next
<1>. DEFINE e == [frames[Len(frames)] EXCEPT !.next = @ + 1]
<1>1. frames \in Seq(ActivationType) /\ Len(frames) \in 1 .. Len(frames)
  BY FrameFacts DEF TypeOK
<1>2. PICK top \in ActivationType : top = frames[Len(frames)]
  BY <1>1, FrameFacts
<1>3. top.next + 1 \in Nat \ {0} /\ top.owner \in Objects \cup Statics /\ top.via \in Vias
  BY <1>2 DEF ActivationType
<1>4. /\ e \in ActivationType
      /\ e.owner = top.owner /\ e.via = top.via /\ e.next = top.next + 1
  BY <1>2, <1>3 DEF ActivationType
<1>5. Advanced = [frames EXCEPT ![Len(frames)] = e]
  BY DEF Advanced
<1>. HIDE DEF e
<1>6. /\ Advanced \in Seq(ActivationType) /\ Len(Advanced) = Len(frames)
      /\ \A j \in 1 .. Len(frames) : Advanced[j] = IF j = Len(frames) THEN e ELSE frames[j]
  BY <1>1, <1>4, <1>5, ExceptSeq
<1>7. DOMAIN Advanced = 1 .. Len(frames) /\ Advanced # <<>>
  BY <1>1, <1>6, LenProperties, EmptySeq
<1>. QED  BY <1>2, <1>4, <1>6, <1>7

(* Calling scan_object_fields adds one activation to the native stack. *)
LEMMA PushFacts ==
    ASSUME NEW S, NEW s \in Seq(S), NEW e \in S
    PROVE  /\ Append(s, e) \in Seq(S)
           /\ Len(Append(s, e)) = Len(s) + 1
           /\ DOMAIN Append(s, e) = 1 .. Len(s) + 1
           /\ Append(s, e) # <<>>
           /\ \A i \in 1 .. Len(s) : Append(s, e)[i] = s[i]
           /\ Append(s, e)[Len(s) + 1] = e
BY AppendProperties, LenProperties

(* Returning from scan_object_fields removes the top activation. *)
LEMMA PopFacts ==
    ASSUME NEW S, NEW s \in Seq(S), s # <<>>
    PROVE  /\ SubSeq(s, 1, Len(s) - 1) \in Seq(S)
           /\ Len(SubSeq(s, 1, Len(s) - 1)) = Len(s) - 1
           /\ DOMAIN SubSeq(s, 1, Len(s) - 1) = 1 .. Len(s) - 1
           /\ \A i \in 1 .. Len(s) - 1 : SubSeq(s, 1, Len(s) - 1)[i] = s[i]
<1>1. Len(s) \in Nat \ {0}
  BY EmptySeq
<1>2. \A i \in 1 .. Len(s) - 1 : s[i] \in S
  BY <1>1, ElementOfSeq
<1>3. PICK n \in Nat : n = Len(s) - 1
  BY <1>1
<1>4. /\ SubSeq(s, 1, n) \in Seq(S)
      /\ Len(SubSeq(s, 1, n)) = n
      /\ \A i \in 1 .. n : SubSeq(s, 1, n)[i] = s[i]
  <2>1. /\ SubSeq(s, 1, n) \in Seq(S)
        /\ Len(SubSeq(s, 1, n)) = IF 1 <= n THEN n - 1 + 1 ELSE 0
        /\ \A i \in 1 .. n - 1 + 1 : SubSeq(s, 1, n)[i] = s[1 + i - 1]
    BY <1>2, <1>3, SubSeqProperties
  <2>. QED  BY <2>1
<1>5. DOMAIN SubSeq(s, 1, n) = 1 .. n
  BY <1>4, LenProperties
<1>. QED  BY <1>3, <1>4, <1>5

(* The content of a slot an activation stands at may be marked: its owner  *)
(* is a marked object or a static area.                                    *)
LEMMA SlotFacts ==
    ASSUME IInv, NEW child, AtSlot(child)
    PROVE  /\ frames # <<>>
           /\ Top \in ActivationType
           /\ Top.next \in DOMAIN heap.slots[Top.owner]
           /\ child = heap.slots[Top.owner][Top.next]
           /\ child \in Objects \cup {Null}
           /\ child \in Objects => child \in Refs(heap.slots, Top.owner)
           /\ child \in Objects =>
                  child \in heap.marked \cup Reachable(heap.slots, AllRoots)
<1>1. /\ frames # <<>> /\ Top \in ActivationType
      /\ Top.next \in DOMAIN heap.slots[Top.owner]
      /\ child = heap.slots[Top.owner][Top.next]
      /\ Len(frames) \in DOMAIN frames
  BY FrameFacts DEF AtSlot, IInv
<1>2. IsHeap(heap) /\ Top.owner \in Objects \cup Statics
  BY <1>1 DEF IInv, TypeOK, ActivationType
<1>3. child \in Objects \cup {Null}
  BY <1>1, <1>2, HeapFacts
<1>4. child \in Objects => child \in Refs(heap.slots, Top.owner)
  BY <1>1, NullAssumption DEF Refs
<1>5. ASSUME child \in Objects
      PROVE  child \in heap.marked \cup Reachable(heap.slots, AllRoots)
  <2>1. CASE Top.owner \in heap.marked
    BY <1>2, <1>4, <1>5, <2>1 DEF IsHeap, IsClosed
  <2>2. CASE Top.owner \in Reachable(heap.slots, AllRoots)
    BY <1>4, <1>5, <2>2, ReachableIsClosed
  <2>3. CASE Top.owner \in Statics
    <3>1. child \in AllRoots
      BY <1>4, <1>5, <2>3 DEF AllRoots, StaticRoots
    <3>2. AllRoots \subseteq Objects
      BY <1>2, HeapFacts DEF AllRoots, StaticRoots, IsHeap
    <3>. QED  BY <3>1, <3>2, ReachableContainsRoots
  <2>4. Top.owner \in Objects => Top.owner \in marked
    BY <1>1 DEF IInv, PendingMarked, Top
  <2>. QED  BY <1>2, <2>1, <2>2, <2>3, <2>4 DEF IInv, MarkedSound
<1>. QED  BY <1>1, <1>3, <1>4, <1>5
------------------------------------------------------------------------------
(* The initial states satisfy the invariant. *)
LEMMA InitIInv == Init => IInv
<1>. SUFFICES ASSUME Init PROVE IInv
  OBVIOUS
<1>. USE DEF Init
<1>1. IsHeap(heap) /\ frames = <<>> /\ queue = <<>>
  BY ScannerAssumption
<1>2. DOMAIN frames = {} /\ DOMAIN queue = {} /\ Len(frames) = 0
  BY <1>1
<1>3. TypeOK
  <2>1. <<>> \in Seq(ActivationType) /\ <<>> \in Seq(Objects)
    OBVIOUS
  <2>2. heap.roots \subseteq Objects /\ heap.marked \subseteq Objects
    BY <1>1 DEF IsHeap
  <2>3. recursiveDepth \in 0 .. MaxDepth /\ deferredDepth \in {0, 1}
    BY ScannerAssumption
  <2>4. finishing \in BOOLEAN
    OBVIOUS
  <2>5. marked \subseteq Objects /\ todo \subseteq Objects \cup Statics
    BY <2>2
  <2>6. frames \in Seq(ActivationType) /\ queue \in Seq(Objects)
    BY <2>1
  <2>. QED  BY <1>1, <2>3, <2>4, <2>5, <2>6 DEF TypeOK
<1>4. StackShape
  BY <1>1, <1>2 DEF StackShape, Rooted, Flushing
<1>5. PendingMarked /\ FinishingShape
  BY <1>1, <1>2 DEF PendingMarked, FinishingShape
<1>9. RootsCovered
  BY <1>1, ScannerAssumption DEF RootsCovered, IsHeap
<1>6. MarkedSound
  BY DEF MarkedSound
<1>7. NoBlackToWhite
  BY <1>1, <1>2 DEF NoBlackToWhite, IsHeap, IsClosed
<1>8. ScannedOnce
  BY <1>2 DEF ScannedOnce
<1>. QED  BY <1>3, <1>4, <1>5, <1>6, <1>7, <1>8, <1>9 DEF IInv

(* What visit_object does to a root preserves the invariant. *)
LEMMA VisitObjectIInv ==
    ASSUME IInv, NEW o \in Objects, VisitObject(o)
    PROVE  IInv'
<1>. USE DEF VisitObject, Idle
<1>1. IsHeap(heap) /\ o \in todo /\ heap' = heap /\ marked' = marked \cup {o}
      /\ todo' = todo \ {o} /\ frames = <<>> /\ queue' = queue
      /\ ~finishing' /\ ~finishing
  BY DEF IInv, TypeOK
<1>2. DOMAIN frames = {} /\ Len(frames) = 0
  BY <1>1
<1>3. \/ frames' = <<>> /\ (o \in marked \/ o \in heap.leaves)
      \/ frames' = <<Activation(o, "root")>> /\ o \notin marked
  BY <1>1 DEF HasReferences
<1>4. Activation(o, "root") \in ActivationType
  BY DEF Activation, ActivationType, Vias
<1>5. /\ \A i \in DOMAIN frames' : i = 1 /\ Len(frames') = 1
                                   /\ frames'[i] = Activation(o, "root") /\ o \notin marked
      /\ frames' # <<>> => 1 \in DOMAIN frames' /\ Len(frames') = 1
                           /\ frames'[1] = Activation(o, "root") /\ o \notin marked
      /\ frames' = <<>> => Len(frames') = 0 /\ DOMAIN frames' = {}
      /\ frames' \in Seq(ActivationType)
  BY <1>3, <1>4
<1>6. o \in marked' /\ o \in Reachable(heap.slots, AllRoots)
  <2>1. AllRoots \subseteq Objects /\ o \in AllRoots
    BY <1>1, HeapFacts DEF IInv, RootsCovered, AllRoots, StaticRoots, IsHeap
  <2>. QED  BY <1>1, <2>1, ReachableContainsRoots
<1>7. TypeOK'
  BY <1>1, <1>5 DEF IInv, TypeOK
<1>8. StackShape'
  <2>1. recursiveDepth = 0
    BY <1>2 DEF IInv, StackShape, Rooted, Flushing, TypeOK
  <2>2. Rooted' = Len(frames') /\ Flushing' = 0
    BY <1>5 DEF Rooted, Flushing, Top, Activation
  <2>3. Len(frames') \in Nat
    BY <1>5
  <2>. QED  BY <1>1, <1>5, <2>1, <2>2, <2>3 DEF StackShape, Activation
<1>9. PendingMarked' /\ FinishingShape'
  BY <1>1, <1>5, ScannerAssumption DEF IInv, PendingMarked, FinishingShape, Activation
<1>10. MarkedSound'
  BY <1>1, <1>6 DEF IInv, MarkedSound, AllRoots, StaticRoots
<1>11. RootsCovered'
  BY <1>1, <1>2, ScannerAssumption DEF IInv, RootsCovered, IsActive
<1>12. NoBlackToWhite'
  <2>1. o \notin marked => Refs(heap.slots, o) = {} \/ IsActive(o)'
    <3>1. CASE o \in heap.leaves
      BY <1>1, <3>1 DEF IsHeap, Refs
    <3>. QED  BY <1>3, <1>5, <3>1 DEF IsActive, Activation
  <2>2. \A p \in marked' : (IsQueued(p) \/ IsActive(p) \/ Refs(heap.slots, p) \subseteq marked)'
    BY <1>1, <1>2, <2>1 DEF IInv, NoBlackToWhite, IsQueued, IsActive
  <2>3. \A i \in DOMAIN frames' : frames'[i].next = 1 /\ frames'[i].owner = o
    BY <1>5 DEF Activation
  <2>4. \A j \in DOMAIN heap.slots[o] : j \in Nat /\ j >= 1
    BY <1>1, HeapFacts
  <2>. QED  BY <1>1, <2>2, <2>3, <2>4 DEF NoBlackToWhite
<1>13. ScannedOnce'
  BY <1>1, <1>2, <1>5 DEF IInv, ScannedOnce, IsActive, Activation, PendingMarked
<1>. QED  BY <1>7, <1>8, <1>9, <1>10, <1>11, <1>12, <1>13 DEF IInv

(* So does the scan of a static area begin. *)
LEMMA VisitClassStaticDataIInv ==
    ASSUME IInv, NEW s \in Statics, VisitClassStaticData(s)
    PROVE  IInv'
<1>. USE DEF VisitClassStaticData, Idle
<1>1. IsHeap(heap) /\ s \in todo /\ heap' = heap /\ marked' = marked
      /\ todo' = todo \ {s} /\ frames = <<>> /\ queue' = queue
      /\ ~finishing' /\ ~finishing /\ s \notin Objects
  BY ScannerAssumption DEF IInv, TypeOK
<1>2. DOMAIN frames = {} /\ Len(frames) = 0
  BY <1>1
<1>3. Activation(s, "root") \in ActivationType
  BY DEF Activation, ActivationType, Vias
<1>4. /\ frames' \in Seq(ActivationType)
      /\ DOMAIN frames' = {1} /\ Len(frames') = 1 /\ frames' # <<>>
      /\ frames'[1].owner = s /\ frames'[1].via = "root" /\ frames'[1].next = 1
  BY <1>1, <1>3 DEF Activation
<1>5. TypeOK'
  BY <1>1, <1>4 DEF IInv, TypeOK
<1>6. StackShape'
  <2>1. recursiveDepth = 0
    BY <1>2 DEF IInv, StackShape, Rooted, Flushing, TypeOK
  <2>2. Rooted' = 1 /\ Flushing' = 0
    BY <1>4 DEF Rooted, Flushing, Top
  <2>. QED  BY <1>4, <2>1, <2>2 DEF StackShape
<1>7. PendingMarked' /\ FinishingShape' /\ MarkedSound'
  BY <1>1, <1>4 DEF IInv, PendingMarked, FinishingShape, MarkedSound, AllRoots, StaticRoots
<1>8. RootsCovered'
  <2>1. IsActive(s)'
    BY <1>4 DEF IsActive
  <2>. QED  BY <1>1, <1>2, <2>1 DEF IInv, RootsCovered, IsActive, IsHeap
<1>9. NoBlackToWhite'
  <2>1. \A j \in DOMAIN heap.slots[s] : j \in Nat /\ j >= 1
    BY <1>1, HeapFacts
  <2>. QED  BY <1>1, <1>2, <1>4, <2>1 DEF IInv, NoBlackToWhite, IsQueued, IsActive
<1>10. ScannedOnce'
  <2>1. \A i \in DOMAIN queue : queue[i] \in Objects
    BY LenProperties, ElementOfSeq DEF IInv, TypeOK
  <2>. QED  BY <1>1, <1>4, <2>1 DEF IInv, ScannedOnce, IsActive
<1>. QED  BY <1>5, <1>6, <1>7, <1>8, <1>9, <1>10 DEF IInv

(***************************************************************************)
(* A slot is passed: what it points to is marked and, if it was not        *)
(* before, refers to nothing.                                              *)
(***************************************************************************)
LEMMA PassSlotIInv ==
    ASSUME IInv, NEW child, AtSlot(child),
           child \in Objects \ marked => Refs(heap.slots, child) = {},
           marked' = marked \cup ({child} \ {Null}),
           frames' = Advanced,
           UNCHANGED <<heap, todo, queue, deferredDepth, recursiveDepth, finishing>>
    PROVE  IInv'
<1>1. /\ frames # <<>> /\ child \in Objects \cup {Null}
      /\ child = heap.slots[Top.owner][Top.next]
      /\ child \in Objects => child \in heap.marked \cup Reachable(heap.slots, AllRoots)
  BY SlotFacts
<1>2. TypeOK /\ IsHeap(heap) /\ marked \subseteq marked' /\ child \in marked' \cup {Null}
  BY <1>1 DEF IInv, TypeOK
<1>3. /\ Len(frames) \in 1 .. Len(frames)
      /\ DOMAIN frames = 1 .. Len(frames)
      /\ DOMAIN frames' = 1 .. Len(frames)
      /\ Len(frames') = Len(frames) /\ frames' # <<>>
      /\ frames' \in Seq(ActivationType)
      /\ \A i \in DOMAIN frames' :
            /\ i \in DOMAIN frames
            /\ frames'[i].owner = frames[i].owner
            /\ frames'[i].via = frames[i].via
            /\ frames'[i].next = IF i = Len(frames) THEN frames[i].next + 1
                                                    ELSE frames[i].next
  BY <1>1, <1>2, FrameFacts, AdvancedFacts
<1>4. \A i \in DOMAIN frames : frames[i].next \in Nat
                               /\ frames[i].owner \in Objects \cup Statics
  BY <1>2, FrameFacts DEF ActivationType
<1>5. \A o : IsActive(o)' <=> IsActive(o)
  BY <1>3 DEF IsActive
<1>6. TypeOK'
  BY <1>1, <1>2, <1>3, NullAssumption DEF TypeOK
<1>7. StackShape'
  <2>1. Rooted' = Rooted /\ Flushing' = Flushing
    <3>1. 1 \in DOMAIN frames' /\ Len(frames) \in DOMAIN frames'
      BY <1>3
    <3>2. frames'[1].via = frames[1].via /\ Top'.via = Top.via
      BY <1>3, <3>1 DEF Top
    <3>. QED  BY <1>1, <1>3, <3>2 DEF Rooted, Flushing
  <2>. QED  BY <1>3, <2>1 DEF IInv, StackShape
<1>8. PendingMarked'
  BY <1>2, <1>3 DEF IInv, PendingMarked
<1>9. MarkedSound'
  <2>1. AllRoots' = AllRoots
    BY DEF AllRoots, StaticRoots
  <2>2. MarkedSound
    BY DEF IInv
  <2>. QED  BY <1>1, <2>1, <2>2 DEF MarkedSound
<1>10. RootsCovered'
  BY <1>2, <1>5 DEF IInv, RootsCovered
<1>11. FinishingShape'
  BY <1>1, <1>3 DEF IInv, FinishingShape
<1>12. NoBlackToWhite'
  <2>1. \A o \in marked' : (IsQueued(o) \/ IsActive(o) \/ Refs(heap.slots, o) \subseteq marked)'
    BY <1>1, <1>2, <1>5 DEF IInv, NoBlackToWhite, IsQueued
  <2>2. ASSUME NEW i \in DOMAIN frames, NEW j \in DOMAIN heap.slots[frames[i].owner],
               j < frames'[i].next
        PROVE  heap.slots[frames[i].owner][j] \in marked' \cup {Null}
    <3>1. j \in Nat
      BY <1>2, <1>4, HeapFacts
    <3>2. CASE j < frames[i].next
      BY <1>2, <3>2 DEF IInv, NoBlackToWhite
    <3>3. CASE i = Len(frames) /\ j = frames[i].next
      BY <1>1, <1>2, <3>3 DEF Top
    <3>. QED  BY <1>3, <1>4, <2>2, <3>1, <3>2, <3>3
  <2>. QED  BY <1>3, <2>1, <2>2 DEF NoBlackToWhite
<1>13. ScannedOnce'
  BY <1>3, <1>5 DEF IInv, ScannedOnce
<1>. QED  BY <1>6, <1>7, <1>8, <1>9, <1>10, <1>11, <1>12, <1>13 DEF IInv

(* Passing a null or marked child preserves the invariant. *)
LEMMA SkipSlotIInv == IInv /\ SkipSlot => IInv'
<1>. SUFFICES ASSUME IInv, NEW child \in marked \cup {Null}, AtSlot(child),
                     frames' = Advanced,
                     UNCHANGED <<heap, marked, todo, queue, deferredDepth,
                                 recursiveDepth, finishing>>
              PROVE  IInv'
  BY DEF SkipSlot
<1>1. child \notin Objects \ marked /\ marked' = marked \cup ({child} \ {Null})
  BY NullAssumption DEF IInv, TypeOK
<1>. QED  BY <1>1, PassSlotIInv

(* Marking a child that needs no scan preserves the invariant. *)
LEMMA MarkOnlyIInv == IInv /\ MarkOnly => IInv'
<1>. SUFFICES ASSUME IInv, NEW child \in Objects \ marked, AtSlot(child),
                     Top.owner \in heap.sealedArrays \/ ~HasReferences(child),
                     marked' = marked \cup {child},
                     frames' = Advanced,
                     UNCHANGED <<heap, todo, queue, deferredDepth,
                                 recursiveDepth, finishing>>
              PROVE  IInv'
  BY DEF MarkOnly
<1>1. IsHeap(heap) /\ child \in Refs(heap.slots, Top.owner)
  BY SlotFacts DEF IInv, TypeOK
<1>2. child \in heap.leaves
  BY <1>1 DEF IsHeap, HasReferences
<1>3. Refs(heap.slots, child) = {}
  BY <1>1, <1>2 DEF IsHeap, Refs
<1>4. marked' = marked \cup ({child} \ {Null})
  BY NullAssumption
<1>. QED  BY <1>3, <1>4, PassSlotIInv

(* A newly marked child is scanned at once, one activation deeper. *)
LEMMA ScanInlineIInv == IInv /\ ScanInline => IInv'
<1>. SUFFICES ASSUME IInv, NEW child \in Objects \ marked, AtSlot(child),
                     ScansInline,
                     marked' = marked \cup {child},
                     frames' = Append(Advanced, Activation(child, "inline")),
                     recursiveDepth' = recursiveDepth + 1,
                     UNCHANGED <<heap, todo, queue, deferredDepth, finishing>>
              PROVE  IInv'
  BY DEF ScanInline, Enqueues
<1>1. /\ frames # <<>> /\ child \in Objects
      /\ child = heap.slots[Top.owner][Top.next]
      /\ child \in heap.marked \cup Reachable(heap.slots, AllRoots)
  BY SlotFacts
<1>2. TypeOK /\ IsHeap(heap) /\ marked \subseteq marked' /\ child \in marked'
      /\ child \notin Statics
  BY <1>1, ScannerAssumption DEF IInv, TypeOK
<1>. DEFINE n == Len(frames) + 1
<1>3. /\ Len(frames) \in 1 .. Len(frames)
      /\ DOMAIN frames = 1 .. Len(frames)
      /\ DOMAIN frames' = 1 .. n
      /\ Len(frames') = n /\ frames' # <<>>
      /\ frames' \in Seq(ActivationType)
      /\ \A i \in DOMAIN frames :
            /\ i \in DOMAIN frames'
            /\ frames'[i].owner = frames[i].owner
            /\ frames'[i].via = frames[i].via
            /\ frames'[i].next = IF i = Len(frames) THEN frames[i].next + 1
                                                    ELSE frames[i].next
      /\ frames'[n].owner = child /\ frames'[n].via = "inline" /\ frames'[n].next = 1
      /\ n \in DOMAIN frames'
      /\ \A i \in DOMAIN frames' : i \in DOMAIN frames \/ i = n
  <2>1. Activation(child, "inline") \in ActivationType
    BY <1>1 DEF Activation, ActivationType, Vias
  <2>2. /\ Len(frames) \in 1 .. Len(frames) /\ DOMAIN frames = 1 .. Len(frames)
        /\ Len(frames) \in Nat
    BY <1>1, <1>2, FrameFacts
  <2>3. /\ DOMAIN frames' = 1 .. n /\ Len(frames') = n /\ frames' # <<>>
        /\ frames' \in Seq(ActivationType)
        /\ frames'[n] = Activation(child, "inline")
        /\ \A i \in 1 .. Len(frames) : frames'[i] = Advanced[i]
    <3>1. PICK adv : adv = Advanced /\ adv \in Seq(ActivationType) /\ Len(adv) = Len(frames)
      BY <1>1, <1>2, AdvancedFacts
    <3>2. PICK act \in ActivationType : act = Activation(child, "inline")
      BY <2>1
    <3>3. frames' = Append(adv, act)
      BY <3>1, <3>2
    <3>4. /\ Append(adv, act) \in Seq(ActivationType)
          /\ Len(Append(adv, act)) = Len(adv) + 1
          /\ DOMAIN Append(adv, act) = 1 .. Len(adv) + 1
          /\ Append(adv, act) # <<>>
          /\ \A i \in 1 .. Len(adv) : Append(adv, act)[i] = adv[i]
          /\ Append(adv, act)[Len(adv) + 1] = act
      BY <3>1, PushFacts
    <3>. QED  BY <3>1, <3>2, <3>3, <3>4
  <2>4. \A i \in 1 .. Len(frames) :
            /\ frames'[i].owner = frames[i].owner
            /\ frames'[i].via = frames[i].via
            /\ frames'[i].next = IF i = Len(frames) THEN frames[i].next + 1
                                                    ELSE frames[i].next
    BY <1>1, <1>2, <2>3, AdvancedFacts
  <2>5. frames'[n].owner = child /\ frames'[n].via = "inline" /\ frames'[n].next = 1
    BY <2>3 DEF Activation
  <2>6. DOMAIN frames' = DOMAIN frames \cup {n} /\ n \in DOMAIN frames'
    BY <2>2, <2>3
  <2>. QED  BY <2>2, <2>3, <2>4, <2>5, <2>6
<1>4. \A i \in DOMAIN frames : frames[i].next \in Nat
                               /\ frames[i].owner \in Objects \cup Statics
  BY <1>2, FrameFacts DEF ActivationType
<1>5. \A o : IsActive(o)' <=> IsActive(o) \/ o = child
  BY <1>3 DEF IsActive
<1>6. TypeOK'
  <2>1. recursiveDepth' \in 0 .. MaxDepth
    BY <1>2, ScannerAssumption DEF TypeOK, ScansInline
  <2>2. frames' \in Seq(ActivationType) /\ marked' \subseteq Objects
    BY <1>1, <1>2, <1>3 DEF TypeOK
  <2>. QED  BY <1>2, <2>1, <2>2 DEF TypeOK
<1>7. StackShape'
  <2>1. deferredDepth = 0
    BY DEF ScansInline
  <2>2. Rooted' = Rooted
    <3>1. 1 \in DOMAIN frames /\ frames'[1].via = frames[1].via
      BY <1>3
    <3>. QED  BY <1>1, <1>3, <3>1 DEF Rooted
  <2>5. Flushing' = 0
    BY <1>3 DEF Flushing, Top
  <2>6. Flushing = 0
    BY <1>1, <1>3, <2>1 DEF Flushing, Top, IInv, StackShape
  <2>3. /\ recursiveDepth \in Nat /\ Rooted \in Nat /\ Len(frames) \in Nat
    BY <1>2, <1>3 DEF TypeOK, Rooted
  <2>4. Len(frames') = recursiveDepth' + Rooted' + Flushing'
    <3>1. Len(frames) = recursiveDepth + Rooted
      BY <2>3, <2>6 DEF IInv, StackShape
    <3>. QED  BY <1>3, <2>2, <2>3, <2>5, <3>1
  <2>. QED  BY <1>3, <2>1, <2>3, <2>4 DEF IInv, StackShape
<1>8. PendingMarked'
  BY <1>2, <1>3 DEF IInv, PendingMarked
<1>9. MarkedSound'
  <2>1. AllRoots' = AllRoots
    BY DEF AllRoots, StaticRoots
  <2>2. MarkedSound
    BY DEF IInv
  <2>. QED  BY <1>1, <2>1, <2>2 DEF MarkedSound
<1>10. RootsCovered'
  BY <1>2, <1>5 DEF IInv, RootsCovered
<1>11. FinishingShape'
  BY <1>1 DEF IInv, FinishingShape, ScansInline
<1>12. NoBlackToWhite'
  <2>1. \A o \in marked' : (IsQueued(o) \/ IsActive(o) \/ Refs(heap.slots, o) \subseteq marked)'
    BY <1>1, <1>2, <1>5 DEF IInv, NoBlackToWhite, IsQueued
  <2>2. ASSUME NEW i \in DOMAIN frames, NEW j \in DOMAIN heap.slots[frames[i].owner],
               j < frames'[i].next
        PROVE  heap.slots[frames[i].owner][j] \in marked' \cup {Null}
    <3>1. j \in Nat
      BY <1>2, <1>4, HeapFacts
    <3>2. CASE j < frames[i].next
      BY <1>2, <3>2 DEF IInv, NoBlackToWhite
    <3>3. CASE i = Len(frames) /\ j = frames[i].next
      BY <1>1, <1>2, <3>3 DEF Top
    <3>. QED  BY <1>3, <1>4, <2>2, <3>1, <3>2, <3>3
  <2>3. \A j \in DOMAIN heap.slots[child] : ~(j < frames'[n].next)
    <3>1. frames'[n].next = 1
      BY <1>3
    <3>2. /\ heap.slots[child] \in Seq(Objects \cup {Null})
          /\ DOMAIN heap.slots[child] = 1 .. Len(heap.slots[child])
      BY <1>1, <1>2, HeapFacts
    <3>3. PICK k \in Nat : DOMAIN heap.slots[child] = 1 .. k
      BY <3>2, LenProperties
    <3>4. \A j \in 1 .. k : ~(j < 1)
      OBVIOUS
    <3>. QED  BY <3>1, <3>3, <3>4
  <2>. QED  BY <1>3, <2>1, <2>2, <2>3 DEF NoBlackToWhite
<1>13. ScannedOnce'
  <2>1. \A i \in DOMAIN frames : frames[i].owner # child
    BY <1>1, <1>2 DEF IInv, PendingMarked
  <2>2. \A i \in DOMAIN queue : queue[i] # child
    BY DEF IInv, PendingMarked
  <2>. QED  BY <1>3, <1>5, <2>1, <2>2 DEF IInv, ScannedOnce
<1>. QED  BY <1>6, <1>7, <1>8, <1>9, <1>10, <1>11, <1>12, <1>13 DEF IInv

(* A newly marked child is queued; a full queue starts a flush. *)
LEMMA DeferScanIInv == IInv /\ DeferScan => IInv'
<1>. SUFFICES ASSUME IInv, NEW child \in Objects \ marked, AtSlot(child),
                     marked' = marked \cup {child},
                     frames' = Advanced,
                     queue' = Append(queue, child),
                     deferredDepth' = IF Len(queue') >= BatchThreshold THEN 1
                                      ELSE deferredDepth,
                     UNCHANGED <<heap, todo, recursiveDepth, finishing>>
              PROVE  IInv'
  BY DEF DeferScan, Enqueues
<1>1. /\ frames # <<>> /\ child \in Objects
      /\ child = heap.slots[Top.owner][Top.next]
      /\ child \in heap.marked \cup Reachable(heap.slots, AllRoots)
  BY SlotFacts
<1>2. TypeOK /\ IsHeap(heap) /\ marked \subseteq marked' /\ child \in marked'
      /\ deferredDepth' \in {0, 1} /\ (deferredDepth = 1 => deferredDepth' = 1)
  BY <1>1 DEF IInv, TypeOK
<1>3. /\ Len(frames) \in 1 .. Len(frames)
      /\ DOMAIN frames = 1 .. Len(frames)
      /\ DOMAIN frames' = 1 .. Len(frames)
      /\ Len(frames') = Len(frames) /\ frames' # <<>>
      /\ frames' \in Seq(ActivationType)
      /\ \A i \in DOMAIN frames' :
            /\ i \in DOMAIN frames
            /\ frames'[i].owner = frames[i].owner
            /\ frames'[i].via = frames[i].via
            /\ frames'[i].next = IF i = Len(frames) THEN frames[i].next + 1
                                                    ELSE frames[i].next
  BY <1>1, <1>2, FrameFacts, AdvancedFacts
<1>4. \A i \in DOMAIN frames : frames[i].next \in Nat
                               /\ frames[i].owner \in Objects \cup Statics
  BY <1>2, FrameFacts DEF ActivationType
<1>5. \A o : IsActive(o)' <=> IsActive(o)
  BY <1>3 DEF IsActive
<1>. DEFINE m == Len(queue) + 1
<1>6. /\ Len(queue) \in Nat /\ DOMAIN queue = 1 .. Len(queue)
      /\ queue' \in Seq(Objects) /\ DOMAIN queue' = 1 .. m
      /\ \A i \in 1 .. Len(queue) : queue'[i] = queue[i]
      /\ queue'[m] = child
  BY <1>1, <1>2, LenProperties, PushFacts DEF TypeOK
<1>7. /\ \A i \in DOMAIN queue : i \in DOMAIN queue' /\ queue'[i] = queue[i]
      /\ m \in DOMAIN queue'
      /\ \A i \in DOMAIN queue' : i \in DOMAIN queue \/ i = m
  BY <1>6
<1>8. \A o : IsQueued(o)' <=> IsQueued(o) \/ o = child
  BY <1>6, <1>7 DEF IsQueued
<1>9. TypeOK'
  BY <1>1, <1>2, <1>3, <1>6 DEF TypeOK
<1>10. StackShape'
  <2>1. Rooted' = Rooted /\ Flushing' = Flushing
    <3>1. 1 \in DOMAIN frames' /\ Len(frames) \in DOMAIN frames'
      BY <1>3
    <3>2. frames'[1].via = frames[1].via /\ Top'.via = Top.via
      BY <1>3, <3>1 DEF Top
    <3>. QED  BY <1>1, <1>3, <3>2 DEF Rooted, Flushing
  <2>. QED  BY <1>2, <1>3, <2>1 DEF IInv, StackShape
<1>11. PendingMarked'
  BY <1>2, <1>3, <1>6, <1>7 DEF IInv, PendingMarked
<1>12. MarkedSound'
  <2>1. AllRoots' = AllRoots
    BY DEF AllRoots, StaticRoots
  <2>2. MarkedSound
    BY DEF IInv
  <2>. QED  BY <1>1, <2>1, <2>2 DEF MarkedSound
<1>13. RootsCovered'
  BY <1>2, <1>5 DEF IInv, RootsCovered
<1>14. FinishingShape'
  BY <1>1, <1>2, <1>3 DEF IInv, FinishingShape, TypeOK
<1>15. NoBlackToWhite'
  <2>1. \A o \in marked' : (IsQueued(o) \/ IsActive(o) \/ Refs(heap.slots, o) \subseteq marked)'
    BY <1>1, <1>2, <1>5, <1>8 DEF IInv, NoBlackToWhite
  <2>2. ASSUME NEW i \in DOMAIN frames, NEW j \in DOMAIN heap.slots[frames[i].owner],
               j < frames'[i].next
        PROVE  heap.slots[frames[i].owner][j] \in marked' \cup {Null}
    <3>1. j \in Nat
      BY <1>2, <1>4, HeapFacts
    <3>2. CASE j < frames[i].next
      BY <1>2, <3>2 DEF IInv, NoBlackToWhite
    <3>3. CASE i = Len(frames) /\ j = frames[i].next
      BY <1>1, <1>2, <3>3 DEF Top
    <3>. QED  BY <1>3, <1>4, <2>2, <3>1, <3>2, <3>3
  <2>. QED  BY <1>3, <2>1, <2>2 DEF NoBlackToWhite
<1>16. ScannedOnce'
  <2>1. ~IsActive(child)
    BY <1>1 DEF IInv, PendingMarked, IsActive
  <2>2. \A i \in DOMAIN queue : queue[i] # child
    BY DEF IInv, PendingMarked
  <2>. QED  BY <1>3, <1>5, <1>6, <1>7, <2>1, <2>2 DEF IInv, ScannedOnce
<1>. QED  BY <1>9, <1>10, <1>11, <1>12, <1>13, <1>14, <1>15, <1>16 DEF IInv

(* An activation that returns leaves nothing unmarked behind. *)
LEMMA ReturnIInv == IInv /\ Return => IInv'
<1>. SUFFICES ASSUME IInv, Return PROVE IInv'
  OBVIOUS
<1>1. /\ TypeOK /\ IsHeap(heap) /\ frames # <<>>
      /\ Top.next \notin DOMAIN heap.slots[Top.owner]
      /\ heap' = heap /\ marked' = marked /\ todo' = todo /\ queue' = queue
      /\ deferredDepth' = deferredDepth /\ finishing' = finishing
      /\ recursiveDepth' = IF Top.via = "inline" THEN recursiveDepth - 1 ELSE recursiveDepth
  BY DEF Return, IInv, TypeOK
<1>2. /\ Len(frames) \in 1 .. Len(frames) /\ Len(frames) \in Nat
      /\ DOMAIN frames = 1 .. Len(frames)
      /\ \A i \in 1 .. Len(frames) : frames[i] \in ActivationType
  BY <1>1, FrameFacts
<1>3. /\ frames' \in Seq(ActivationType)
      /\ Len(frames') = Len(frames) - 1
      /\ DOMAIN frames' = 1 .. Len(frames) - 1
      /\ \A i \in 1 .. Len(frames) - 1 : frames'[i] = frames[i]
      /\ frames' = <<>> <=> Len(frames) = 1
  <2>1. PICK f : f = frames /\ f \in Seq(ActivationType) /\ f # <<>>
    BY <1>1 DEF TypeOK
  <2>2. frames' = SubSeq(f, 1, Len(f) - 1)
    BY <2>1 DEF Return
  <2>3. /\ SubSeq(f, 1, Len(f) - 1) \in Seq(ActivationType)
        /\ Len(SubSeq(f, 1, Len(f) - 1)) = Len(f) - 1
        /\ DOMAIN SubSeq(f, 1, Len(f) - 1) = 1 .. Len(f) - 1
        /\ \A i \in 1 .. Len(f) - 1 : SubSeq(f, 1, Len(f) - 1)[i] = f[i]
    BY <2>1, PopFacts
  <2>4. frames' \in Seq(ActivationType) /\ Len(frames') = Len(frames) - 1
    BY <2>1, <2>2, <2>3
  <2>5. frames' = <<>> <=> Len(frames) = 1
    BY <1>2, <2>4, EmptySeq
  <2>. QED  BY <2>1, <2>2, <2>3, <2>5
<1>4. /\ \A i \in DOMAIN frames' : i \in DOMAIN frames /\ i # Len(frames)
                                   /\ frames'[i] = frames[i]
      /\ \A i \in DOMAIN frames : i \in DOMAIN frames' \/ i = Len(frames)
  BY <1>2, <1>3
<1>5. Refs(heap.slots, Top.owner) \subseteq marked
  <2>1. Top \in ActivationType /\ Len(frames) \in DOMAIN frames
    BY <1>2 DEF Top
  <2>2. Top.owner \in Objects \cup Statics /\ Top.next \in Nat \ {0}
    BY <2>1 DEF ActivationType
  <2>3. \A j \in DOMAIN heap.slots[Top.owner] : j < Top.next
    BY <1>1, <2>2, HeapFacts
  <2>4. \A j \in DOMAIN heap.slots[Top.owner] :
            heap.slots[Top.owner][j] \in marked \cup {Null}
    BY <2>1, <2>3 DEF IInv, NoBlackToWhite, Top
  <2>. QED  BY <2>4 DEF Refs
<1>6. \A o : IsActive(o) => IsActive(o)' \/ o = Top.owner
  BY <1>4 DEF IsActive, Top
<1>7. Top.via = "inline" => recursiveDepth >= 1
  <2>1. SUFFICES ASSUME Top.via = "inline" PROVE recursiveDepth >= 1
    OBVIOUS
  <2>2. Flushing = 0 /\ Rooted \in {0, 1} /\ recursiveDepth \in Nat
    BY <1>1, <2>1 DEF Flushing, Rooted, TypeOK
  <2>3. Len(frames) # 1 /\ Len(frames) = recursiveDepth + Rooted + Flushing
    BY <1>2, <2>1 DEF IInv, StackShape, Top
  <2>. QED  BY <1>2, <2>2, <2>3
<1>8. TypeOK'
  <2>1. recursiveDepth' \in 0 .. MaxDepth
    BY <1>1, <1>7, ScannerAssumption DEF TypeOK
  <2>. QED  BY <1>1, <1>3, <2>1 DEF TypeOK
<1>9. StackShape'
  <2>1. Flushing' = 0
    BY <1>2, <1>3 DEF Flushing, Top, IInv, StackShape
  <2>2. Len(frames) # 1 => Rooted' = Rooted
    BY <1>1, <1>2, <1>3 DEF Rooted
  <2>3. Len(frames) = 1 => Rooted' = 0 /\ Rooted = (IF Top.via = "root" THEN 1 ELSE 0)
    BY <1>1, <1>2, <1>3 DEF Rooted, Top
  <2>4. Flushing = (IF Top.via = "flush" THEN 1 ELSE 0)
    BY <1>1 DEF Flushing
  <2>5. /\ Top.via = "inline" => Len(frames) # 1
        /\ Top.via = "root" => Len(frames) = 1
        /\ Top.via \in {"root", "inline", "flush"}
    BY <1>2 DEF IInv, StackShape, Top, ActivationType, Vias
  <2>6. recursiveDepth \in Nat /\ Rooted \in {0, 1}
        /\ Len(frames) = recursiveDepth + Rooted + Flushing
    BY <1>1 DEF IInv, StackShape, TypeOK, Rooted
  <2>7. Len(frames') = recursiveDepth' + Rooted' + Flushing'
    <3>1. CASE Top.via = "inline"
      BY <1>1, <1>2, <1>3, <2>1, <2>2, <2>4, <2>5, <2>6, <3>1
    <3>2. CASE Top.via = "root"
      BY <1>1, <1>2, <1>3, <2>1, <2>3, <2>4, <2>5, <2>6, <3>2
    <3>3. CASE Top.via = "flush"
      BY <1>1, <1>2, <1>3, <2>1, <2>2, <2>3, <2>4, <2>6, <3>3
    <3>. QED  BY <2>5, <3>1, <3>2, <3>3
  <2>8. \A i \in DOMAIN frames' :
            /\ frames'[i].via = "flush" => i = Len(frames') /\ deferredDepth' = 1
            /\ frames'[i].via = "root" => i = 1
            /\ frames'[i].via = "inline" => i # 1
    BY <1>4 DEF IInv, StackShape
  <2>. QED  BY <2>7, <2>8 DEF StackShape
<1>10. PendingMarked'
  BY <1>1, <1>4 DEF IInv, PendingMarked
<1>11. MarkedSound'
  BY <1>1 DEF IInv, MarkedSound, AllRoots, StaticRoots
<1>12. RootsCovered'
  <2>1. \A r \in Statics : (r \in todo \/ IsActive(r) \/ Refs(heap.slots, r) \subseteq marked)'
    BY <1>1, <1>5, <1>6 DEF IInv, RootsCovered
  <2>. QED  BY <1>1, <2>1 DEF IInv, RootsCovered
<1>13. FinishingShape'
  <2>1. deferredDepth # 0 \/ ~finishing
    BY <1>1 DEF IInv, FinishingShape
  <2>. QED  BY <1>1, <1>4, <2>1 DEF IInv, FinishingShape
<1>14. NoBlackToWhite'
  <2>1. \A o \in marked' : (IsQueued(o) \/ IsActive(o) \/ Refs(heap.slots, o) \subseteq marked)'
    BY <1>1, <1>5, <1>6 DEF IInv, NoBlackToWhite, IsQueued
  <2>. QED  BY <1>1, <1>4, <2>1 DEF IInv, NoBlackToWhite
<1>15. ScannedOnce'
  BY <1>1, <1>4 DEF IInv, ScannedOnce, IsActive
<1>. QED  BY <1>8, <1>9, <1>10, <1>11, <1>12, <1>13, <1>14, <1>15 DEF IInv

(* The flush loop turns a queued object into an active one. *)
LEMMA FlushNextIInv == IInv /\ FlushNext => IInv'
<1>. SUFFICES ASSUME IInv, FlushNext PROVE IInv'
  OBVIOUS
<1>. DEFINE n == Len(frames) + 1
            last == Len(queue)
            o == queue[last]
<1>1. /\ TypeOK /\ IsHeap(heap) /\ queue # <<>>
      /\ heap' = heap /\ marked' = marked /\ todo' = todo /\ finishing' = finishing
      /\ deferredDepth' = deferredDepth /\ recursiveDepth' = recursiveDepth
      /\ deferredDepth = 1
      /\ frames # <<>> => Top.via # "flush"
  BY DEF FlushNext, InFlushLoop, IInv, TypeOK
<1>2. /\ last \in DOMAIN queue /\ DOMAIN queue = 1 .. last /\ last \in Nat
      /\ o \in Objects
  BY <1>1, LenProperties, ElementOfSeq, EmptySeq DEF TypeOK
<1>3. /\ queue' \in Seq(Objects)
      /\ DOMAIN queue' = 1 .. last - 1
      /\ \A i \in 1 .. last - 1 : queue'[i] = queue[i]
  <2>1. PICK q : q = queue /\ q \in Seq(Objects) /\ q # <<>>
    BY <1>1 DEF TypeOK
  <2>2. queue' = SubSeq(q, 1, Len(q) - 1)
    BY <2>1 DEF FlushNext
  <2>3. /\ SubSeq(q, 1, Len(q) - 1) \in Seq(Objects)
        /\ DOMAIN SubSeq(q, 1, Len(q) - 1) = 1 .. Len(q) - 1
        /\ \A i \in 1 .. Len(q) - 1 : SubSeq(q, 1, Len(q) - 1)[i] = q[i]
    BY <2>1, PopFacts
  <2>. QED  BY <2>1, <2>2, <2>3
<1>4. /\ frames' \in Seq(ActivationType)
      /\ Len(frames') = n /\ DOMAIN frames' = 1 .. n /\ frames' # <<>>
      /\ \A i \in 1 .. Len(frames) : frames'[i] = frames[i]
      /\ frames'[n] = Activation(o, "flush")
  <2>1. PICK f : f = frames /\ f \in Seq(ActivationType)
    BY <1>1 DEF TypeOK
  <2>2. PICK act : act = Activation(o, "flush") /\ act \in ActivationType
    <3>. HIDE DEF o
    <3>1. Activation(o, "flush") \in ActivationType
      BY <1>2 DEF Activation, ActivationType, Vias
    <3>. QED  BY <3>1
  <2>3. frames' = Append(f, act)
    BY <2>1, <2>2 DEF FlushNext
  <2>4. /\ Append(f, act) \in Seq(ActivationType)
        /\ Len(Append(f, act)) = Len(f) + 1
        /\ DOMAIN Append(f, act) = 1 .. Len(f) + 1
        /\ Append(f, act) # <<>>
        /\ \A i \in 1 .. Len(f) : Append(f, act)[i] = f[i]
        /\ Append(f, act)[Len(f) + 1] = act
    BY <2>1, <2>2, PushFacts
  <2>. QED  BY <2>1, <2>2, <2>3, <2>4
<1>. HIDE DEF o
<1>5. /\ Len(frames) \in Nat /\ DOMAIN frames = 1 .. Len(frames)
      /\ frames = <<>> <=> Len(frames) = 0
  BY <1>1, FrameFacts
<1>6. /\ \A i \in DOMAIN frames : i \in DOMAIN frames' /\ frames'[i] = frames[i] /\ i # n
      /\ n \in DOMAIN frames'
      /\ \A i \in DOMAIN frames' : i \in DOMAIN frames \/ i = n
      /\ frames'[n].owner = o /\ frames'[n].via = "flush" /\ frames'[n].next = 1
  <2>1. frames'[n].owner = o /\ frames'[n].via = "flush" /\ frames'[n].next = 1
    BY <1>4 DEF Activation
  <2>. QED  BY <1>4, <1>5, <2>1
<1>7. \A i \in DOMAIN frames : frames[i].via # "flush"
  BY <1>1, <1>5 DEF IInv, StackShape, Top
<1>8. \A p : IsActive(p)' <=> IsActive(p) \/ p = o
  BY <1>6 DEF IsActive
<1>9. /\ \A i \in DOMAIN queue' : i \in DOMAIN queue /\ i # last /\ queue'[i] = queue[i]
      /\ \A i \in DOMAIN queue : i \in DOMAIN queue' \/ i = last
      /\ o = queue[last]
  BY <1>2, <1>3 DEF o
<1>10. o \in marked /\ o \notin Statics
  BY <1>2, <1>9, ScannerAssumption DEF IInv, PendingMarked
<1>11. TypeOK'
  BY <1>1, <1>3, <1>4 DEF TypeOK
<1>12. StackShape'
  <2>1. Flushing' = 1
    BY <1>4, <1>6 DEF Flushing, Top
  <2>2. Flushing = 0
    BY <1>1 DEF Flushing
  <2>3. Rooted' = Rooted
    <3>1. CASE frames = <<>>
      BY <1>4, <1>5, <1>6, <3>1 DEF Rooted
    <3>2. CASE frames # <<>>
      <4>1. 1 \in DOMAIN frames
        BY <1>5, <3>2
      <4>. QED  BY <1>4, <1>6, <3>2, <4>1 DEF Rooted
    <3>. QED  BY <3>1, <3>2
  <2>4. recursiveDepth \in Nat /\ Rooted \in {0, 1}
        /\ Len(frames) = recursiveDepth + Rooted + Flushing
    BY <1>1 DEF IInv, StackShape, TypeOK, Rooted
  <2>5. Len(frames') = recursiveDepth' + Rooted' + Flushing'
    BY <1>1, <1>4, <1>5, <2>1, <2>2, <2>3, <2>4
  <2>6. \A i \in DOMAIN frames' :
            /\ frames'[i].via = "flush" => i = Len(frames') /\ deferredDepth' = 1
            /\ frames'[i].via = "root" => i = 1
            /\ frames'[i].via = "inline" => i # 1
    BY <1>1, <1>4, <1>6, <1>7 DEF IInv, StackShape
  <2>. QED  BY <2>5, <2>6 DEF StackShape
<1>13. PendingMarked'
  BY <1>1, <1>6, <1>9, <1>10 DEF IInv, PendingMarked
<1>14. MarkedSound'
  BY <1>1 DEF IInv, MarkedSound, AllRoots, StaticRoots
<1>15. RootsCovered'
  BY <1>1, <1>8 DEF IInv, RootsCovered
<1>16. FinishingShape'
  BY <1>1, <1>6 DEF IInv, FinishingShape
<1>17. NoBlackToWhite'
  <2>1. \A p \in marked' : (IsQueued(p) \/ IsActive(p) \/ Refs(heap.slots, p) \subseteq marked)'
    BY <1>1, <1>8, <1>9 DEF IInv, NoBlackToWhite, IsQueued
  <2>2. \A j \in DOMAIN heap.slots[o] : ~(j < frames'[n].next)
    BY <1>1, <1>2, <1>6, <1>9, HeapFacts
  <2>. QED  BY <1>1, <1>6, <2>1, <2>2 DEF IInv, NoBlackToWhite
<1>18. ScannedOnce'
  <2>1. ~IsActive(o)
    BY <1>2, <1>9 DEF IInv, ScannedOnce
  <2>2. \A i \in DOMAIN queue' : queue'[i] # o
    BY <1>2, <1>9 DEF IInv, ScannedOnce
  <2>3. \A i, j \in DOMAIN frames' : frames'[i].owner = frames'[j].owner => i = j
    BY <1>6, <2>1 DEF IInv, ScannedOnce, IsActive
  <2>. QED  BY <1>8, <1>9, <2>2, <2>3 DEF IInv, ScannedOnce
<1>. QED  BY <1>11, <1>12, <1>13, <1>14, <1>15, <1>16, <1>17, <1>18 DEF IInv

(* The flush loop ends with an empty queue. *)
LEMMA FlushReturnIInv == IInv /\ FlushReturn => IInv'
<1>. SUFFICES ASSUME IInv, FlushReturn PROVE IInv'
  OBVIOUS
<1>. USE DEF FlushReturn
<1>1. /\ TypeOK /\ queue = <<>> /\ deferredDepth = 1 /\ deferredDepth' = 0
      /\ frames # <<>> => Top.via # "flush"
  BY DEF InFlushLoop, IInv, TypeOK
<1>2. \A i \in DOMAIN frames : frames[i].via # "flush"
  BY <1>1 DEF IInv, StackShape, Top
<1>3. finishing => frames = <<>>
  BY <1>1, FrameFacts DEF IInv, FinishingShape, Top
<1>4. TypeOK'
  BY <1>1 DEF TypeOK
<1>5. StackShape'
  BY <1>2 DEF IInv, StackShape, Rooted, Flushing, Top
<1>6. PendingMarked' /\ MarkedSound' /\ RootsCovered'
  BY DEF IInv, PendingMarked, MarkedSound, RootsCovered, AllRoots, StaticRoots, IsActive
<1>7. FinishingShape'
  BY <1>1, <1>3 DEF IInv, FinishingShape
<1>8. NoBlackToWhite' /\ ScannedOnce'
  BY DEF IInv, NoBlackToWhite, ScannedOnce, IsActive, IsQueued
<1>. QED  BY <1>4, <1>5, <1>6, <1>7, <1>8 DEF IInv

(* finish_visit starts the last flush. *)
LEMMA FinishVisitIInv == IInv /\ FinishVisit => IInv'
<1>. SUFFICES ASSUME IInv, FinishVisit PROVE IInv'
  OBVIOUS
<1>. USE DEF FinishVisit, Idle
<1>1. frames = <<>> /\ DOMAIN frames = {} /\ deferredDepth' = 1
  OBVIOUS
<1>2. TypeOK'
  BY DEF IInv, TypeOK
<1>3. StackShape'
  BY <1>1 DEF IInv, StackShape, Rooted, Flushing
<1>4. PendingMarked' /\ MarkedSound' /\ RootsCovered'
  BY DEF IInv, PendingMarked, MarkedSound, RootsCovered, AllRoots, StaticRoots, IsActive
<1>5. FinishingShape'
  BY <1>1 DEF FinishingShape
<1>6. NoBlackToWhite' /\ ScannedOnce'
  BY DEF IInv, NoBlackToWhite, ScannedOnce, IsActive, IsQueued
<1>. QED  BY <1>2, <1>3, <1>4, <1>5, <1>6 DEF IInv
------------------------------------------------------------------------------
(* Every step preserves the invariant. *)
LEMMA NextIInv == IInv /\ [Next]_vars => IInv'
<1>. SUFFICES ASSUME IInv, [Next]_vars PROVE IInv'
  OBVIOUS
<1>1. CASE \E o \in Objects : VisitObject(o)
  BY <1>1, VisitObjectIInv
<1>2. CASE \E s \in Statics : VisitClassStaticData(s)
  BY <1>2, VisitClassStaticDataIInv
<1>3. CASE SkipSlot
  BY <1>3, SkipSlotIInv
<1>4. CASE MarkOnly
  BY <1>4, MarkOnlyIInv
<1>5. CASE ScanInline
  BY <1>5, ScanInlineIInv
<1>6. CASE DeferScan
  BY <1>6, DeferScanIInv
<1>7. CASE Return
  BY <1>7, ReturnIInv
<1>8. CASE FlushNext
  BY <1>8, FlushNextIInv
<1>9. CASE FlushReturn
  BY <1>9, FlushReturnIInv
<1>10. CASE FinishVisit
  BY <1>10, FinishVisitIInv
<1>11. CASE UNCHANGED vars
  BY <1>11 DEF vars, IInv, TypeOK, StackShape, Rooted, Flushing, Top, PendingMarked,
               MarkedSound, RootsCovered, FinishingShape, NoBlackToWhite, ScannedOnce,
               IsActive, IsQueued, AllRoots, StaticRoots
<1>. QED  BY <1>1, <1>2, <1>3, <1>4, <1>5, <1>6, <1>7, <1>8, <1>9, <1>10, <1>11 DEF Next

(* The inductive invariant of the traversal holds in every behaviour: see  *)
(* IInv above for what it adds to the invariants of the specification.     *)
THEOREM Invariance == Spec => []IInv
BY InitIInv, NextIInv, PTL DEF Spec

(* Every variable of the traversal keeps its type; in particular           *)
(* recursive_visit_depth_ neither exceeds its limit nor goes below zero.   *)
THEOREM TypeCorrect == Spec => []TypeOK
<1>1. IInv => TypeOK
  BY DEF IInv
<1>. QED  BY <1>1, Invariance, PTL

(* No object is lost between recursion, deferred queue and batch flush. *)
THEOREM NoObjectLost == Spec => []NoBlackToWhite
<1>1. IInv => NoBlackToWhite
  BY DEF IInv
<1>. QED  BY <1>1, Invariance, PTL

(* No object's fields are scanned twice. *)
THEOREM EachScannedOnce == Spec => []ScannedOnce
<1>1. IInv => ScannedOnce
  BY DEF IInv
<1>. QED  BY <1>1, Invariance, PTL

(* The native stack of the traversal is bounded whatever the graph. *)
THEOREM StackBounded == Spec => []NativeStackBounded
<1>1. IInv => NativeStackBounded
  <2>1. SUFFICES ASSUME IInv PROVE Len(frames) <= MaxDepth + 2
    BY DEF NativeStackBounded
  <2>2. recursiveDepth \in 0 .. MaxDepth /\ Rooted \in {0, 1} /\ Flushing \in {0, 1}
    BY <2>1 DEF IInv, TypeOK, Rooted, Flushing
  <2>. QED  BY <2>1, <2>2, ScannerAssumption DEF IInv, StackShape
<1>. QED  BY <1>1, Invariance, PTL

(* When finish_visit returns, what was not marked before is marked exactly *)
(* if it is reachable from the roots and the static data.                  *)
THEOREM MarkingCorrect == Spec => []MarksReachable
<1>1. IInv => MarksReachable
  <2>1. SUFFICES ASSUME IInv, Done
                 PROVE  /\ marked = heap.marked \cup Reachable(heap.slots, AllRoots)
                        /\ queue = <<>>
    BY DEF MarksReachable
  <2>2. /\ frames = <<>> /\ queue = <<>> /\ todo = {} /\ marked \subseteq Objects
        /\ DOMAIN frames = {} /\ DOMAIN queue = {}
    BY <2>1 DEF Done, Idle, IInv, FinishingShape, TypeOK
  <2>3. AllRoots \subseteq marked
    BY <2>1, <2>2 DEF IInv, RootsCovered, IsActive, AllRoots, StaticRoots
  <2>4. IsClosed(heap.slots, marked)
    BY <2>1, <2>2 DEF IInv, NoBlackToWhite, IsActive, IsQueued, IsClosed
  <2>5. Reachable(heap.slots, AllRoots) \subseteq marked
    BY <2>2, <2>3, <2>4, ReachableIsLeast
  <2>. QED  BY <2>1, <2>2, <2>5 DEF IInv, MarkedSound
<1>. QED  BY <1>1, Invariance, PTL
------------------------------------------------------------------------------
(***************************************************************************)
(* The bitmap                                                              *)
(***************************************************************************)
(* A remainder and the quotient determine the number. *)
LEMMA DivMod ==
    ASSUME NEW n \in Nat, NEW m \in Nat \ {0}
    PROVE  /\ n \div m \in Nat
           /\ n % m \in 0 .. m - 1
           /\ n = (m * (n \div m)) + (n % m)
OBVIOUS

(***************************************************************************)
(* Two objects that may exist together have different mark bits: they are  *)
(* a granule apart, so their slots differ.                                 *)
(***************************************************************************)
LEMMA SlotsDiffer ==
    ASSUME NEW a \in Addresses, NEW b \in Addresses, Slot(a) = Slot(b)
    PROVE  a = b
<1>. DEFINE q == Slot(a)
<1>1. /\ a \in Nat /\ b \in Nat /\ Granularity \in Nat \ {0}
      /\ a < b => b - a >= Granularity
      /\ b < a => a - b >= Granularity
  BY BitmapAssumption
<1>2. /\ a = (Granularity * q) + (a % Granularity)
      /\ b = (Granularity * q) + (b % Granularity)
      /\ a % Granularity \in 0 .. Granularity - 1
      /\ b % Granularity \in 0 .. Granularity - 1
      /\ q \in Nat
  BY <1>1, DivMod DEF Slot
<1>3. PICK p \in Nat : p = Granularity * q
  BY <1>1, <1>2
<1>. HIDE DEF q
<1>4. /\ a - b < Granularity
      /\ b - a < Granularity
  BY <1>1, <1>2, <1>3
<1>. QED  BY <1>1, <1>4

(* Segment, bit and cache indexes are in their ranges. *)
LEMMA IndexTypes ==
    ASSUME NEW a \in Addresses
    PROVE  /\ Slot(a) \in Nat
           /\ SegmentIndex(a) \in Segments
           /\ SegmentIndex(a) \in Nat
           /\ BitIndex(a) \in 0 .. SegmentBits - 1
           /\ CacheSlot(SegmentIndex(a)) \in CacheSlots
<1>1. a \in Nat /\ Granularity \in Nat \ {0} /\ SegmentBits \in Nat \ {0}
      /\ CacheSize \in Nat \ {0}
  BY BitmapAssumption
<1>2. Slot(a) \in Nat
  BY <1>1, DivMod DEF Slot
<1>3. SegmentIndex(a) \in Nat /\ BitIndex(a) \in 0 .. SegmentBits - 1
  BY <1>1, <1>2, DivMod DEF SegmentIndex, BitIndex
<1>4. CacheSlot(SegmentIndex(a)) \in CacheSlots
  BY <1>1, <1>3, DivMod DEF CacheSlot, CacheSlots
<1>. QED  BY <1>2, <1>3, <1>4 DEF Segments

(* Two objects are at least a granule apart, so no bit is shared: mark()   *)
(* of one never reports the other as seen.                                 *)
LEMMA BitsDiffer ==
    ASSUME NEW a \in Addresses, NEW b \in Addresses,
           SegmentIndex(a) = SegmentIndex(b), BitIndex(a) = BitIndex(b)
    PROVE  a = b
<1>1. /\ Slot(a) = SegmentBits * SegmentIndex(a) + BitIndex(a)
      /\ Slot(b) = SegmentBits * SegmentIndex(b) + BitIndex(b)
  BY IndexTypes, BitmapAssumption, DivMod DEF SegmentIndex, BitIndex
<1>. QED  BY <1>1, SlotsDiffer
------------------------------------------------------------------------------
(* A segment that does not exist has no bits, and a lookup is right. *)
BitmapIInv ==
    /\ BitmapTypeOK
    /\ CacheCoherent
    /\ \A s \in Segments \ segmentMap : bits[s] = {}

(* No segment index is kInvalidSegmentIndex. *)
LEMMA SegmentsAreNat == Segments \subseteq Nat
BY IndexTypes DEF Segments

(* get_segment returns what the map holds, from the cache or not. *)
LEMMA LookupIsRight ==
    ASSUME BitmapIInv, NEW a \in Addresses
    PROVE  GetSegment(SegmentIndex(a)) = Find(SegmentIndex(a))
<1>. DEFINE s == SegmentIndex(a)
<1>1. s \in Segments /\ s \in Nat /\ CacheSlot(s) \in CacheSlots /\ s # InvalidIndex
  BY IndexTypes DEF InvalidIndex
<1>. QED  BY <1>1 DEF GetSegment, Hit, BitmapIInv, CacheCoherent

(* The empty bitmap satisfies the invariant. *)
LEMMA BitmapInitInv == BitmapInit => BitmapIInv
<1>. SUFFICES ASSUME BitmapInit PROVE BitmapIInv
  OBVIOUS
<1>1. BitmapTypeOK
  BY DEF BitmapInit, BitmapTypeOK
<1>2. CacheCoherent
  BY DEF BitmapInit, CacheCoherent
<1>. QED  BY <1>1, <1>2 DEF BitmapInit, BitmapIInv

(* Replacing the entry of s by what Find says of s in the next state keeps *)
(* the cache coherent, as long as no other segment appears or goes.        *)
LEMMA CacheUpdate ==
    ASSUME BitmapIInv, NEW a \in Addresses, NEW segment,
           cache' = CacheWith(SegmentIndex(a), segment),
           segment = Find(SegmentIndex(a))',
           segmentMap' \subseteq segmentMap \cup {SegmentIndex(a)},
           segmentMap \subseteq segmentMap'
    PROVE  CacheCoherent'
<1>. DEFINE s == SegmentIndex(a)
            c == CacheSlot(s)
<1>1. s \in Segments /\ s \in Nat /\ c \in CacheSlots
  BY IndexTypes
<1>2. SUFFICES ASSUME NEW i \in CacheSlots, cache'[i].index # InvalidIndex
               PROVE  /\ CacheSlot(cache'[i].index) = i
                      /\ (cache[i].segment = Find(cache[i].index))'
  BY DEF CacheCoherent
<1>3. CASE i = c
  <2>1. cache'[i] = [index |-> s, segment |-> segment]
    BY <1>1, <1>3 DEF CacheWith, BitmapIInv, BitmapTypeOK
  <2>. QED  BY <2>1, <1>3 DEF Find
<1>4. CASE i # c
  <2>1. cache'[i] = cache[i]
    BY <1>1, <1>4 DEF CacheWith, BitmapIInv, BitmapTypeOK
  <2>2. CacheSlot(cache[i].index) = i /\ cache[i].segment = Find(cache[i].index)
    BY <2>1, <1>2 DEF BitmapIInv, CacheCoherent
  <2>3. cache[i].index # s
    BY <2>2, <1>4
  <2>. QED  BY <2>1, <2>2, <2>3 DEF Find
<1>. QED  BY <1>3, <1>4

(* mark() preserves the invariant. *)
LEMMA MarkInv ==
    ASSUME BitmapIInv, NEW a \in Addresses, Mark(a)
    PROVE  BitmapIInv'
<1>. DEFINE s == SegmentIndex(a)
<1>1. /\ s \in Segments /\ s \in Nat /\ BitIndex(a) \in 0 .. SegmentBits - 1
      /\ CacheSlot(s) \in CacheSlots /\ s # NullSegment
  BY IndexTypes, BitmapAssumption
<1>2. GetSegment(s) = Find(s)
  BY LookupIsRight
<1>3. /\ segmentMap' = segmentMap \cup {s}
      /\ bits' = [bits EXCEPT ![s] = bits[s] \cup {BitIndex(a)}]
      /\ cache' = CacheWith(s, s)
  <2>1. CASE s \in segmentMap
    BY <1>1, <1>2, <2>1 DEF Mark, Find, CacheAfterMark
  <2>2. CASE s \notin segmentMap
    BY <1>1, <1>2, <2>2 DEF Mark, Find, CacheAfterMark, BitmapIInv
  <2>. QED  BY <2>1, <2>2
<1>. HIDE DEF s
<1>4. BitmapTypeOK'
  BY <1>1, <1>3 DEF BitmapIInv, BitmapTypeOK, CacheWith
<1>5. CacheCoherent'
  BY <1>3, CacheUpdate DEF Find, s
<1>6. \A t \in Segments \ segmentMap' : bits'[t] = {}
  BY <1>1, <1>3 DEF BitmapIInv, BitmapTypeOK
<1>. QED  BY <1>4, <1>5, <1>6 DEF BitmapIInv

(* is_marked() preserves the invariant. *)
LEMMA IsMarkedInv ==
    ASSUME BitmapIInv, NEW a \in Addresses, IsMarked(a)
    PROVE  BitmapIInv'
<1>. DEFINE s == SegmentIndex(a)
<1>1. s \in Segments /\ CacheSlot(s) \in CacheSlots
  BY IndexTypes
<1>2. GetSegment(s) = Find(s)
  BY LookupIsRight
<1>3. cache' = CacheWith(s, Find(s)) /\ UNCHANGED <<segmentMap, bits>>
  BY <1>2 DEF IsMarked
<1>4. BitmapTypeOK'
  BY <1>1, <1>3 DEF BitmapIInv, BitmapTypeOK, CacheWith, Find
<1>5. CacheCoherent'
  BY <1>3, CacheUpdate DEF Find
<1>. QED  BY <1>3, <1>4, <1>5 DEF BitmapIInv

(* Every call preserves the invariant. *)
LEMMA BitmapNextInv == BitmapIInv /\ [BitmapNext]_bitmapVars => BitmapIInv'
<1>. SUFFICES ASSUME BitmapIInv, [BitmapNext]_bitmapVars PROVE BitmapIInv'
  OBVIOUS
<1>1. ASSUME NEW a \in Addresses, Mark(a) PROVE BitmapIInv'
  BY <1>1, MarkInv
<1>2. ASSUME NEW a \in Addresses, IsMarked(a) PROVE BitmapIInv'
  BY <1>2, IsMarkedInv
<1>3. CASE UNCHANGED bitmapVars
  BY <1>3 DEF bitmapVars, BitmapIInv, BitmapTypeOK, CacheCoherent, Find
<1>. QED  BY <1>1, <1>2, <1>3 DEF BitmapNext

(* The inductive invariant holds in every state of the bitmap. *)
THEOREM BitmapInvariance == BitmapSpec => []BitmapIInv
BY BitmapInitInv, BitmapNextInv, PTL DEF BitmapSpec

(* The fields of the bitmap have their types. *)
THEOREM BitmapTypeCorrect == BitmapSpec => []BitmapTypeOK
<1>1. BitmapIInv => BitmapTypeOK
  BY DEF BitmapIInv
<1>. QED  BY <1>1, BitmapInvariance, PTL

(* The cache never disagrees with the map of segments. *)
THEOREM CacheIsCoherent == BitmapSpec => []CacheCoherent
<1>1. BitmapIInv => CacheCoherent
  BY DEF BitmapIInv
<1>. QED  BY <1>1, BitmapInvariance, PTL
------------------------------------------------------------------------------
members == {a \in Addresses : Marked(a)}

(* A mark() of the segmented bitmap is a Mark of the abstract set. *)
LEMMA MarkStep ==
    ASSUME BitmapIInv, NEW a \in Addresses, Mark(a)
    PROVE  Abstract!Mark(a)
<1>. DEFINE s == SegmentIndex(a)
<1>1. /\ s \in Segments /\ s \in Nat /\ s # NullSegment
  BY IndexTypes, BitmapAssumption
<1>2. GetSegment(s) = Find(s)
  BY LookupIsRight
<1>3. /\ bits' = [bits EXCEPT ![s] = bits[s] \cup {BitIndex(a)}]
      /\ answer' = [call |-> "mark", address |-> a, result |-> BitIndex(a) \notin bits[s]]
  <2>1. CASE s \in segmentMap
    BY <1>1, <1>2, <2>1 DEF Mark, Find
  <2>2. CASE s \notin segmentMap
    BY <1>1, <1>2, <2>2 DEF Mark, Find, BitmapIInv
  <2>. QED  BY <2>1, <2>2
<1>4. ASSUME NEW b \in Addresses
      PROVE  Marked(b)' <=> Marked(b) \/ b = a
  <2>1. CASE SegmentIndex(b) = s
    <3>1. bits'[s] = bits[s] \cup {BitIndex(a)}
      BY <1>1, <1>3 DEF BitmapIInv, BitmapTypeOK
    <3>2. BitIndex(b) = BitIndex(a) <=> b = a
      BY <2>1, BitsDiffer
    <3>. QED  BY <2>1, <3>1, <3>2 DEF Marked
  <2>2. CASE SegmentIndex(b) # s
    BY <1>1, <1>3, <2>2 DEF BitmapIInv, BitmapTypeOK, Marked
  <2>. QED  BY <2>1, <2>2
<1>5. members' = members \cup {a}
  BY <1>4 DEF members
<1>6. (BitIndex(a) \notin bits[s]) = (a \notin members)
  BY DEF members, Marked
<1>. QED  BY <1>3, <1>5, <1>6 DEF Abstract!Mark, members

(* An is_marked() of the segmented bitmap is an IsMarked of the set. *)
LEMMA IsMarkedStep ==
    ASSUME BitmapIInv, NEW a \in Addresses, IsMarked(a)
    PROVE  Abstract!IsMarked(a)
<1>. DEFINE s == SegmentIndex(a)
<1>1. s \in Segments /\ s # NullSegment
  BY IndexTypes, BitmapAssumption
<1>2. GetSegment(s) = Find(s)
  BY LookupIsRight
<1>3. members' = members
  BY DEF IsMarked, members, Marked
<1>4. (Find(s) # NullSegment /\ BitIndex(a) \in bits[Find(s)]) = (a \in members)
  BY <1>1 DEF Find, members, Marked, BitmapIInv
<1>. QED  BY <1>2, <1>3, <1>4 DEF IsMarked, Abstract!IsMarked, members

(* The bitmap implements the set of addresses of MarkSet. *)
THEOREM BitmapImplementsSet == BitmapSpec => ImplementsMarkSet
<1>1. BitmapInit => Abstract!Init
  BY IndexTypes DEF BitmapInit, Abstract!Init, Abstract!NoCall, Marked
<1>2. BitmapIInv /\ [BitmapNext]_bitmapVars => [Abstract!Next]_<<members, answer>>
  <2>. SUFFICES ASSUME BitmapIInv, [BitmapNext]_bitmapVars
                PROVE  [Abstract!Next]_<<members, answer>>
    OBVIOUS
  <2>1. ASSUME NEW a \in Addresses, Mark(a) PROVE Abstract!Next
    BY <2>1, MarkStep DEF Abstract!Next
  <2>2. ASSUME NEW a \in Addresses, IsMarked(a) PROVE Abstract!Next
    BY <2>2, IsMarkedStep DEF Abstract!Next
  <2>3. CASE UNCHANGED bitmapVars
    BY <2>3 DEF bitmapVars, members, Marked
  <2>. QED  BY <2>1, <2>2, <2>3 DEF BitmapNext
<1>. QED  BY <1>1, <1>2, BitmapInvariance, PTL
          DEF BitmapSpec, ImplementsMarkSet, Abstract!Spec, members
==============================================================================
