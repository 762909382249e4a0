--------------------------- MODULE MCExceptionFlow ---------------------------
(***************************************************************************)
(* Programs for ExceptionFlow, put together from fragments of code whose   *)
(* offsets count from 1. A leave to offset 0 is a return.                  *)
(***************************************************************************)
EXTENDS ExceptionFlow

CONSTANT ordinary  \* an exception that programs throw and catch

MCExceptions == {ordinary, StackOverflow, ExecutionEngine}

Shifted(block, d) == {p + d : p \in block}
ShiftClauses(clauses, d) ==
    [i \in DOMAIN clauses |-> [clauses[i] EXCEPT !.try = Shifted(@, d),
                                                 !.handler = Shifted(@, d),
                                                 !.entry = @ + d]]
ShiftCode(code, d) ==
    [p \in DOMAIN code |->
        IF code[p].op = "leave" /\ code[p].target # 0
        THEN [code[p] EXCEPT !.target = @ + d] ELSE code[p]]

Atom(op) == [code |-> <<[op |-> op]>>, clauses |-> <<>>]
Calling(op, m) == [code |-> <<[op |-> op, method |-> m], [op |-> "next"]>>, clauses |-> <<>>]
LeaveTo(p) == [op |-> "leave", target |-> p]
Return == [code |-> <<LeaveTo(0)>>, clauses |-> <<>>]

Then(a, b) ==
    [code |-> a.code \o ShiftCode(b.code, Len(a.code)),
     clauses |-> a.clauses \o ShiftClauses(b.clauses, Len(a.code))]

(* A body, a leave, a handler and its end; the clause comes after theirs.  *)
Try(kind, catches, body, handler) ==
    LET b == Len(body.code)
        h == Len(handler.code)
        end == b + h + 3
    IN  [code |-> body.code \o <<LeaveTo(end)>> \o ShiftCode(handler.code, b + 1)
                  \o <<IF kind \in {"catch", "filter"} THEN LeaveTo(end) ELSE [op |-> "endfinally"]>>,
         clauses |-> body.clauses \o ShiftClauses(handler.clauses, b + 1) \o
            <<[kind |-> kind, try |-> 1 .. b + 1, handler |-> b + 2 .. b + h + 2,
               entry |-> b + 2, catches |-> catches]>>]

(* A method: a fragment and the return its leaves to offset 0 go to. *)
AsMethod(a) ==
    LET end == Len(a.code) + 1
    IN  [code |-> [p \in DOMAIN a.code |->
                      IF a.code[p] = LeaveTo(0) THEN LeaveTo(end) ELSE a.code[p]]
                  \o <<[op |-> "ret"]>>,
         clauses |-> a.clauses]
------------------------------------------------------------------------------
CallCallee == Calling("call", "Callee")

InTry == {Atom("may"), CallCallee, Return}
InCatch == {Atom("next"), Atom("rethrow"), CallCallee, Return}
InFinally == {Atom("may"), CallCallee}

Tries(bodies, inCatch, inFinally) ==
    {Try("catch", {ordinary}, b, h) : b \in bodies, h \in inCatch}
    \cup {Try(kind, {}, b, h) : kind \in {"finally", "fault"}, b \in bodies, h \in inFinally}
    \cup {Try("filter", MCExceptions, b, Atom("next")) : b \in bodies}

Single == Tries(InTry, InCatch, InFinally)
Nested == Tries(Single, InCatch, InFinally) \cup Tries(InTry, Single, Single)
Consecutive ==
    {Then(a, b) : a \in Single, b \in Tries({Calling("invoke", "Callee")}, InCatch, InFinally)}

Mains == {m \in {AsMethod(a) : a \in Nested \cup Consecutive} : Supported(m)}

Callees ==
    {AsMethod(a) : a \in
        {Atom("may"),
         Try("catch", MCExceptions, Atom("may"), Atom("rethrow")),
         Try("finally", {}, Return, Atom("may")),
         Try("fault", {}, CallCallee, Atom("next"))}}

MCPrograms == {[Main |-> m, Callee |-> c] : m \in Mains, c \in Callees}

(* The programs are of the kind the proofs are about. *)
ASSUME AllSupported ==
    \A p \in MCPrograms :
        WellFormed(p) /\ \A n \in DOMAIN p : Supported(p[n]) /\ SupportedRaises(p[n])
------------------------------------------------------------------------------
(* Programs of which the interpreter does not do what is promised.         *)

(* Main: F(); try { } catch { }   F raises. *)
CallBeforeTry ==
    {[Main |-> AsMethod(Then([code |-> <<[op |-> "call", method |-> "Callee"]>>, clauses |-> <<>>],
                             Try("catch", MCExceptions, Atom("next"), Atom("next")))),
      Callee |-> AsMethod(Atom("may"))]}

(* F: try { try { ... } catch { return; } } catch { }                      *)
(* Main: try { F(); } finally { F(); }, F(); try { } ..., and the like.    *)
ReturnFromCatch ==
    {[Main |-> AsMethod(m),
      Callee |-> AsMethod(Try("catch", MCExceptions,
                    Try("catch", MCExceptions, Atom("may"), Return), Atom("next")))] :
        m \in Tries(InTry, InCatch, InFinally)}

(* try { try { return; } finally { } } finally { try { ... } catch { } } *)
CatchInSecondFinally ==
    {[Main |-> AsMethod(Try("finally", {}, Try("finally", {}, Return, Atom("next")),
                            Try("catch", MCExceptions, Atom("may"), Atom("next"))))]}

(* try { ... } catch (E) when (true) { ... }   The handler may raise. *)
RaisingFilterHandler ==
    {[Main |-> AsMethod(Try("filter", MCExceptions, Atom("may"), Atom("may")))]}

(* try { ... } catch (E) when (false) { } *)
RefusingFilter ==
    {[Main |-> AsMethod(Try("filter", {}, Atom("may"), Atom("next")))]}
==============================================================================
