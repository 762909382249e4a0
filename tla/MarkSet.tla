------------------------------- MODULE MarkSet -------------------------------
(***************************************************************************)
(* What a mark bitmap promises: a set of addresses, where marking says     *)
(* whether the address is new to the set. The collector and the liveness   *)
(* walk of the il2cpp interface rely on nothing else.                      *)
(***************************************************************************)
CONSTANT Addresses

VARIABLES
    members,   \* the addresses marked so far
    answer     \* the last call and what it returned

NoCall == [call |-> "none"]

Init == members = {} /\ answer = NoCall

Mark(a) ==
    /\ members' = members \cup {a}
    /\ answer' = [call |-> "mark", address |-> a, result |-> a \notin members]

IsMarked(a) ==
    /\ members' = members
    /\ answer' = [call |-> "is_marked", address |-> a, result |-> a \in members]

Next == \E a \in Addresses : Mark(a) \/ IsMarked(a)

Spec == Init /\ [][Next]_<<members, answer>>
==============================================================================
