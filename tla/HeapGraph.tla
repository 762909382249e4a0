------------------------------ MODULE HeapGraph ------------------------------
(***************************************************************************)
(* The object graph the collector walks, and what "reachable" means in it. *)
(* slots[o] is the sequence of reference slots the scanner finds in o: the *)
(* set bits of the gc bitmap of its class, or the elements of an array.    *)
(***************************************************************************)
EXTENDS Sequences

CONSTANTS
    Objects,    \* managed objects (addresses of object headers)
    Null        \* nullptr

ASSUME NullAssumption == Null \notin Objects

(* The objects the slots of o point to. *)
Refs(slots, o) == {slots[o][i] : i \in DOMAIN slots[o]} \ {Null}

(* No reference leaves S. *)
IsClosed(slots, S) == \A o \in S : Refs(slots, o) \subseteq S

(* The least closed set that contains R: an object is in it iff it is in   *)
(* every closed set that contains R.                                       *)
Reachable(slots, R) ==
    {o \in Objects :
        \A S \in SUBSET Objects : R \subseteq S /\ IsClosed(slots, S) => o \in S}
==============================================================================
