----------------------------- MODULE BlockStore ------------------------------
(***************************************************************************)
(* What a small-object pool promises the heap: a block handed out is not   *)
(* in use, it stays in use until a sweep, and a sweep ends with exactly    *)
(* the blocks of surviving objects in use, having freed no survivor.       *)
(***************************************************************************)
CONSTANTS
    Blocks,      \* every block a pool may ever hand out
    NoBlock,     \* nullptr
    NotSweeping  \* no sweep is under way

VARIABLES
    live,        \* the blocks in use
    survivors,   \* the blocks of marked objects, during a sweep
    result       \* what the last allocation returned

vars == <<live, survivors, result>>

Init ==
    /\ live = {}
    /\ survivors = NotSweeping
    /\ result = NoBlock

Allocate(b) ==
    /\ survivors = NotSweeping
    /\ b \notin live
    /\ live' = live \cup {b}
    /\ result' = b
    /\ UNCHANGED survivors

(* The system has no memory left for an arena. *)
OutOfMemory ==
    /\ survivors = NotSweeping
    /\ result' = NoBlock
    /\ UNCHANGED <<live, survivors>>

BeginSweep(S) ==
    /\ survivors = NotSweeping
    /\ survivors' = S
    /\ UNCHANGED <<live, result>>

Free(b) ==
    /\ survivors # NotSweeping
    /\ b \in live \ survivors
    /\ live' = live \ {b}
    /\ UNCHANGED <<survivors, result>>

EndSweep ==
    /\ survivors # NotSweeping
    /\ live = survivors
    /\ survivors' = NotSweeping
    /\ UNCHANGED <<live, result>>

Next ==
    \/ \E b \in Blocks : Allocate(b) \/ Free(b)
    \/ OutOfMemory
    \/ \E S \in SUBSET live : BeginSweep(S)
    \/ EndSweep

Spec == Init /\ [][Next]_vars
==============================================================================
