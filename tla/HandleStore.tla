----------------------------- MODULE HandleStore -----------------------------
(***************************************************************************)
(* What gc handles promise whoever asks for them: a handle keeps its       *)
(* target until it is set or freed, whatever becomes of other handles; the *)
(* target of a strong one is not collected, and a weak one is cleared by   *)
(* the collection that its target does not survive. A handle that has been *)
(* freed has no target, and freeing it again does nothing.                 *)
(***************************************************************************)
EXTENDS Naturals, Sequences

CONSTANTS
    Objects,      \* objects that handles refer to
    Null,         \* no object
    HandleTypes,
    WeakTypes     \* the types that do not keep their target

VARIABLE handles  \* every handle ever handed out, in order

Strong(h) == h.live /\ h.type \notin WeakTypes
Live(obj, type) == [live |-> TRUE, type |-> type, obj |-> obj]
Freed == [live |-> FALSE, type |-> Null, obj |-> Null]
Cleared(h) == [live |-> h.live, type |-> h.type, obj |-> Null]

Init == handles = <<>>

New(obj, type) == handles' = Append(handles, Live(obj, type))

Set(n, obj, type) ==
    /\ handles[n].live
    /\ handles' = [handles EXCEPT ![n] = Live(obj, type)]

Free(n) ==
    /\ handles[n].live
    /\ handles' = [handles EXCEPT ![n] = Freed]

(* A collection after which the objects of alive are left. *)
Collect(alive) ==
    /\ \A n \in DOMAIN handles : Strong(handles[n]) => handles[n].obj \in alive \cup {Null}
    /\ handles' = [n \in DOMAIN handles |->
                      IF handles[n].obj \in alive THEN handles[n] ELSE Cleared(handles[n])]

Next ==
    \/ \E obj \in Objects \cup {Null}, type \in HandleTypes :
           \/ New(obj, type)
           \/ \E n \in DOMAIN handles : Set(n, obj, type)
    \/ \E n \in DOMAIN handles : Free(n)
    \/ \E alive \in SUBSET Objects : Collect(alive)

Spec == Init /\ [][Next]_handles
==============================================================================
