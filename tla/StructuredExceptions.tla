------------------------ MODULE StructuredExceptions -------------------------
(***************************************************************************)
(* What exception handling promises a managed program (ECMA-335 I.12.4.2): *)
(* an exception goes to the innermost enclosing clause that is for it,     *)
(* through every finally and fault block it leaves; a leave runs the       *)
(* finally blocks between its source and its target; when a finally ends,  *)
(* what it interrupted goes on; and a handler that has been left leaves    *)
(* nothing behind.                                                         *)
(*                                                                         *)
(* Each activation keeps the clauses whose handlers it is executing, each  *)
(* with what is to happen when its handler ends.                           *)
(***************************************************************************)
EXTENDS ManagedCode

VARIABLES
    program,  \* the program being executed; it does not change
    calls,    \* the activations, outermost first
    pending,  \* the exception being raised in the last of them, if any
    outcome   \* "running", "returned" or the exception nobody caught

vars == <<program, calls, pending, outcome>>

Top == calls[Len(calls)]
Instr == program[Top.method].code[Top.ip]
Clauses == program[Top.method].clauses

NotRaising == [ex |-> NoException, clauses |-> {}]
Executing == outcome = "running" /\ pending = NotRaising

SetTop(activation) == [calls EXCEPT ![Len(calls)] = activation]

NoHandlers == [i \in {} |-> "none"]

(* The handlers, of those being executed, that p is still in. *)
InScope(handlers, p) ==
    Restrict(handlers, {i \in DOMAIN handlers : p \in Clauses[i].handler})

(* Inner clauses come first. *)
Innermost(handlers, i) == i \in DOMAIN handlers /\ \A j \in DOMAIN handlers : i <= j
Without(handlers, i) == Restrict(handlers, DOMAIN handlers \ {i})
With(handlers, i, h) ==
    [j \in DOMAIN handlers \cup {i} |-> IF j = i THEN h ELSE handlers[j]]

Goto(p) == calls' = SetTop([Top EXCEPT !.ip = p, !.handlers = InScope(@, p)])

EnterHandler(i, handlers, h) ==
    calls' = SetTop([Top EXCEPT !.ip = Clauses[i].entry,
                                !.handlers = With(InScope(handlers, Clauses[i].entry), i, h)])
------------------------------------------------------------------------------
Init ==
    /\ program \in Programs
    /\ calls = <<[method |-> Main, ip |-> 1, handlers |-> NoHandlers]>>
    /\ pending = NotRaising
    /\ outcome = "running"

Advance ==
    /\ Executing
    /\ Instr.op \in {"next", "may"}
    /\ Goto(Top.ip + 1)
    /\ UNCHANGED <<program, pending, outcome>>

(* Offset 0 stands for "at no instruction". *)
Raise(ex) ==
    /\ pending' = [ex |-> ex, clauses |-> Protecting(Clauses, Top.ip)]
    /\ calls' = SetTop([Top EXCEPT !.ip = 0])
    /\ UNCHANGED <<program, outcome>>

RaiseFromInstruction ==
    /\ Executing
    /\ Instr.op = "may"
    /\ \E ex \in Exceptions : Raise(ex)

(* rethrow raises the exception of the innermost catch handler again. *)
Rethrow ==
    /\ Executing
    /\ Instr.op = "rethrow"
    /\ \E i \in DOMAIN Top.handlers :
           /\ Top.handlers[i].kind = "caught"
           /\ \A j \in DOMAIN Top.handlers : j < i => Top.handlers[j].kind # "caught"
           /\ Raise(Top.handlers[i].ex)

Call ==
    /\ Executing
    /\ Instr.op \in {"call", "invoke"}
    /\ calls' = Append(calls, [method |-> Instr.method, ip |-> 1, handlers |-> NoHandlers])
    /\ UNCHANGED <<program, pending, outcome>>

CallOverflows ==
    /\ Executing
    /\ Instr.op \in {"call", "invoke"}
    /\ Raise(StackOverflow)

Ret ==
    /\ Executing
    /\ Instr.op = "ret"
    /\ IF Len(calls) = 1
       THEN calls' = <<>> /\ outcome' = "returned"
       ELSE /\ calls' = [Front(calls) EXCEPT ![Len(calls) - 1].ip = @ + 1]
            /\ UNCHANGED outcome
    /\ UNCHANGED <<program, pending>>

(* A leave ends the handlers it leaves; the finally blocks of the clauses  *)
(* in rest are still to run.                                               *)
ContinueLeave(handlers, rest, target) ==
    \/ /\ rest = {}
       /\ calls' = SetTop([Top EXCEPT !.ip = target, !.handlers = InScope(handlers, target)])
    \/ /\ rest # {}
       /\ LET i == Min(rest)
          IN  EnterHandler(i, InScope(handlers, target),
                  [kind |-> "leave", target |-> target, rest |-> rest \ {i}])

Leave ==
    /\ Executing
    /\ Instr.op = "leave"
    /\ ContinueLeave(Top.handlers, FinallysBetween(Clauses, Top.ip, Instr.target), Instr.target)
    /\ UNCHANGED <<program, pending, outcome>>

EndFinallyOfLeave ==
    /\ Executing
    /\ Instr.op = "endfinally"
    /\ \E i \in DOMAIN Top.handlers :
           /\ Innermost(Top.handlers, i)
           /\ Top.handlers[i].kind = "leave"
           /\ ContinueLeave(Without(Top.handlers, i), Top.handlers[i].rest, Top.handlers[i].target)
    /\ UNCHANGED <<program, pending, outcome>>

EndFinallyOfRaise ==
    /\ Executing
    /\ Instr.op = "endfinally"
    /\ \E i \in DOMAIN Top.handlers :
           /\ Innermost(Top.handlers, i)
           /\ Top.handlers[i].kind = "raise"
           /\ pending' = [ex |-> Top.handlers[i].ex, clauses |-> Top.handlers[i].rest]
           /\ calls' = SetTop([Top EXCEPT !.ip = 0, !.handlers = Without(@, i)])
    /\ UNCHANGED <<program, outcome>>

Takes(i) == IsCleanup(Clauses[i]) \/ Catches(Clauses[i], pending.ex)

Dispatch ==
    /\ pending # NotRaising
    /\ \E i \in pending.clauses :
           /\ Takes(i)
           /\ \A j \in pending.clauses : Takes(j) => i <= j
           /\ EnterHandler(i, Top.handlers,
                  IF IsCleanup(Clauses[i])
                  THEN [kind |-> "raise", ex |-> pending.ex,
                        rest |-> {j \in pending.clauses : j > i}]
                  ELSE [kind |-> "caught", ex |-> pending.ex])
    /\ pending' = NotRaising
    /\ UNCHANGED <<program, outcome>>

(* Nothing in the activation is for the exception: its caller gets it, at  *)
(* the call.                                                               *)
Propagate ==
    /\ pending # NotRaising
    /\ \A i \in pending.clauses : ~Takes(i)
    /\ IF Len(calls) = 1
       THEN calls' = <<>> /\ pending' = NotRaising /\ outcome' = pending.ex
       ELSE LET caller == calls[Len(calls) - 1]
            IN  /\ calls' = [Front(calls) EXCEPT ![Len(calls) - 1].ip = 0]
                /\ pending' = [pending EXCEPT
                       !.clauses = Protecting(program[caller.method].clauses, caller.ip)]
                /\ UNCHANGED outcome
    /\ UNCHANGED program

Next ==
    \/ Advance
    \/ RaiseFromInstruction
    \/ Rethrow
    \/ Call
    \/ CallOverflows
    \/ Ret
    \/ Leave
    \/ EndFinallyOfLeave
    \/ EndFinallyOfRaise
    \/ Dispatch
    \/ Propagate

Spec == Init /\ [][Next]_vars
==============================================================================
