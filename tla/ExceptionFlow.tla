---------------------------- MODULE ExceptionFlow ----------------------------
(***************************************************************************)
(* How the interpreter handles exceptions (interp/interpreter.cpp): the    *)
(* frame stack, the instruction pointer of the running execute() with one  *)
(* saved in every other frame, the native stack of nested execute() calls, *)
(* and s_exception_flows, the stack of the throws and leaves in progress,  *)
(* which all frames share.                                                 *)
(*                                                                         *)
(* A throw flow records where it was raised, the clause whose handler is   *)
(* running for it and where the search goes on; a leave flow the same for  *)
(* its finally blocks. Instruction and clause offsets count from 1. The    *)
(* code of two methods does not overlap, so an address is a pair <<method, *)
(* offset>>, and a frame's address is its position in the frame stack.     *)
(* An assertion of the code is a conjunct of AssertionsHold and not a      *)
(* guard: builds for release do without.                                   *)
(***************************************************************************)
EXTENDS ManagedCode

CONSTANT MaxFrames  \* frames the frame stack has room for

ASSUME FramesAssumption == MaxFrames \in Nat \ {0}
ASSUME OutcomeAssumption == {"running", "returned"} \cap Exceptions = {}

VARIABLES
    program,  \* the program being executed; it does not change
    frames,   \* InterpFrame: its method and saved ip
    ip,       \* the ip of the execute() that is running
    entries,  \* the execute() calls: their first frame, the ip of the outer one
    flows,    \* s_exception_flows
    mode,     \* "run" at an instruction, "unwind" at unwind_exception_handler
    outcome   \* "running", "returned" or the exception nobody caught

vars == <<program, frames, ip, entries, flows, mode, outcome>>

Cur == Len(frames)
Method == frames[Cur].method
Clauses == program[Method].clauses
Instr == program[Method].code[ip]
Running == outcome = "running" /\ mode = "run"

NoClause == <<>>

ThrowFlow(ex, frame, at) ==
    [throw |-> TRUE, ex |-> ex, frame |-> frame, at |-> at, next |-> 1,
     clause |-> NoClause, handled |-> FALSE]

LeaveFlow(target, i, remain) ==
    [throw |-> FALSE, frame |-> Cur, src |-> ip, target |-> target,
     clause |-> <<Method, i>>, next |-> i + 1, remain |-> remain]

TopFlow == Last(flows)
SetTopFlow(flow) == flows' = Append(Front(flows), flow)

(* is_in_handler_block of a flow's current clause, for offset p. *)
InHandler(flow, p) ==
    flow.clause # NoClause /\ p \in program[flow.clause[1]].clauses[flow.clause[2]].handler

Goto(p) == ip' = p /\ mode' = "run"

(* The flows left when those on top that satisfy Stale(_) are popped. *)
PopWhile(fs, Stale(_)) == SubSeq(fs, 1, Max({0} \cup {i \in DOMAIN fs : ~Stale(fs[i])}))

PopOutOfScopeNothing(fs, p) == fs
PopOutOfScope(fs, p) == PopWhile(fs, LAMBDA flow : flow.frame = Cur /\ ~InHandler(flow, p))

PopFrameFlows(fs) == PopWhile(fs, LAMBDA flow : flow.frame = Cur)

Init ==
    /\ program \in Programs
    /\ frames = <<[method |-> Main, ip |-> 1]>>
    /\ ip = 1
    /\ entries = <<[base |-> 1, ip |-> 0]>>
    /\ flows = <<>>
    /\ mode = "run"
    /\ outcome = "running"

Proceed ==
    /\ Running
    /\ Instr.op \in {"next", "may"}
    /\ Goto(ip + 1)
    /\ UNCHANGED <<program, frames, entries, flows, outcome>>
------------------------------------------------------------------------------
(* Raising. *)

InFilterCheck(fs, frame) ==
    /\ fs # <<>>
    /\ LET flow == Last(fs)
       IN  /\ flow.throw
           /\ flow.frame = frame
           /\ ~flow.handled
           /\ flow.clause # NoClause
           /\ program[flow.clause[1]].clauses[flow.clause[2]].kind = "filter"

(* RAISE_RUNTIME_ERROR, RAISE_RUNTIME_EXCEPTION: raise ex at offset p of   *)
(* the last of the frames frs, with the flows fs in progress.              *)
RaiseAt(fs, frs, p, ex) ==
    LET frame == Len(frs)
    IN  /\ mode' = "unwind"
        /\ ip' = p
        /\ \/ InFilterCheck(fs, frame) /\ flows' = fs /\ frames' = frs
           \/ /\ ~InFilterCheck(fs, frame)
              /\ flows' = Append(fs, ThrowFlow(ex, frame, <<frs[frame].method, p>>))
              /\ frames' = [frs EXCEPT ![frame].ip = p]

Raise(ex) ==
    /\ RaiseAt(flows, frames, ip, ex)
    /\ UNCHANGED <<program, entries, outcome>>

RaiseFromInstruction ==
    /\ Running
    /\ Instr.op = "may"
    /\ \E ex \in Exceptions : Raise(ex)

(* find_exception_in_enclosing_throw_flow: the throw flows whose handler   *)
(* the rethrow is in, as far down as the first of another frame.           *)
EnclosingThrows ==
    {i \in DOMAIN flows :
        /\ flows[i].throw
        /\ InHandler(flows[i], ip)
        /\ \A j \in i .. Len(flows) : flows[j].throw => flows[j].frame = Cur}

Rethrow ==
    /\ Running
    /\ Instr.op = "rethrow"
    /\ Raise(IF EnclosingThrows = {} THEN ExecutionEngine ELSE flows[Max(EnclosingThrows)].ex)
------------------------------------------------------------------------------
(* Calls. *)

FrameStackHasRoomForOneMore == Cur <= MaxFrames
FrameStackHasRoom == Cur < MaxFrames

Call ==
    /\ Running
    /\ Instr.op = "call"
    /\ FrameStackHasRoom
    /\ frames' = Append([frames EXCEPT ![Cur].ip = ip + 1], [method |-> Instr.method, ip |-> 1])
    /\ Goto(1)
    /\ UNCHANGED <<program, entries, flows, outcome>>

(* A call through native code is a nested execute(). *)
Invoke ==
    /\ Running
    /\ Instr.op = "invoke"
    /\ FrameStackHasRoom
    /\ frames' = Append(frames, [method |-> Instr.method, ip |-> 1])
    /\ entries' = Append(entries, [base |-> Cur + 1, ip |-> ip])
    /\ Goto(1)
    /\ UNCHANGED <<program, flows, outcome>>

CallOverflows ==
    /\ Running
    /\ Instr.op \in {"call", "invoke"}
    /\ ~FrameStackHasRoom
    /\ Raise(StackOverflow)

(* LEAVE_FRAME looks at no flow: what the method has left there remains. *)
Ret ==
    /\ Running
    /\ Instr.op = "ret"
    /\ frames' = Front(frames)
    /\ \/ /\ Cur # Last(entries).base
          /\ Goto(frames[Cur - 1].ip)
          /\ UNCHANGED <<entries, outcome>>
       \/ /\ Cur = Last(entries).base
          /\ entries' = Front(entries)
          /\ Goto(Last(entries).ip + 1)
          /\ outcome' = IF Len(entries) = 1 THEN "returned" ELSE "running"
    /\ UNCHANGED <<program, flows>>
------------------------------------------------------------------------------
(* A leave is lowered by what its offset and its target are in.            *)

LeavesTry(clause, p, target) == p \in clause.try /\ target \notin clause.try
LeavesHandler(clause, p, target) == p \in clause.handler /\ target \notin clause.handler

(* get_leave_surrounding_block_type: the last clause that is left decides. *)
SurroundingBlock(clauses, p, target) ==
    LET left == {i \in DOMAIN clauses :
                    /\ clauses[i].kind # "fault"
                    /\ \/ LeavesTry(clauses[i], p, target)
                       \/ LeavesHandler(clauses[i], p, target)}
    IN  IF left = {} THEN "none"
        ELSE IF LeavesTry(clauses[Max(left)], p, target) THEN "try" ELSE "catch_or_filter"

Surrounding == SurroundingBlock(Clauses, ip, Instr.target)
Finallys == FinallysBetween(Clauses, ip, Instr.target)

LeaveByBranch ==
    /\ Running
    /\ Instr.op = "leave"
    /\ Surrounding # "catch_or_filter"
    /\ Surrounding = "try" => Finallys = {}
    /\ Goto(Instr.target)
    /\ UNCHANGED <<program, frames, entries, flows, outcome>>

(* Run the first of the finally blocks, with the flows fs below. *)
EnterFirstFinallyCountingIt(fs) ==
    LET i == Min(Finallys)
    IN  /\ flows' = Append(fs, LeaveFlow(Instr.target, i, Cardinality(Finallys)))
        /\ Goto(Clauses[i].entry)

EnterFirstFinally(fs) ==
    LET i == Min(Finallys)
    IN  /\ flows' = Append(fs, LeaveFlow(Instr.target, i, Cardinality(Finallys) - 1))
        /\ Goto(Clauses[i].entry)

LeaveTryWithFinally ==
    /\ Running
    /\ Instr.op = "leave"
    /\ Surrounding = "try"
    /\ Finallys # {}
    /\ EnterFirstFinally(flows)
    /\ UNCHANGED <<program, frames, entries, outcome>>

LeaveCatchWithFinally ==
    /\ Running
    /\ Instr.op = "leave"
    /\ Surrounding = "catch_or_filter"
    /\ Finallys # {}
    /\ flows # <<>>
    /\ EnterFirstFinally(Front(flows))
    /\ UNCHANGED <<program, frames, entries, outcome>>

LeaveCatchWithoutFinally ==
    /\ Running
    /\ Instr.op = "leave"
    /\ Surrounding = "catch_or_filter"
    /\ Finallys = {}
    /\ flows # <<>>
    /\ flows' = Front(flows)
    /\ Goto(Instr.target)
    /\ UNCHANGED <<program, frames, entries, outcome>>

EndFinally ==
    /\ Running
    /\ Instr.op = "endfinally"
    /\ mode' = "unwind"
    /\ UNCHANGED <<program, frames, ip, entries, flows, outcome>>
------------------------------------------------------------------------------
(* unwind_exception_handler: one action per turn of its loop.              *)

UnwindingThrow == outcome = "running" /\ mode = "unwind" /\ flows # <<>> /\ TopFlow.throw
UnwindingLeave == outcome = "running" /\ mode = "unwind" /\ flows # <<>> /\ ~TopFlow.throw

(* The clauses of the current method the throw has yet to look at. *)
ToSearch(flow) ==
    {i \in Protecting(Clauses, flow.at[2]) : flow.at[1] = Method /\ i >= flow.next}

TakesButFault(i, ex) == Clauses[i].kind \in {"filter", "finally"} \/ Catches(Clauses[i], ex)
Takes(i, ex) == Clauses[i].kind # "catch" \/ Catches(Clauses[i], ex)

FirstTaking(i) ==
    /\ i \in ToSearch(TopFlow)
    /\ Takes(i, TopFlow.ex)
    /\ \A j \in ToSearch(TopFlow) : Takes(j, TopFlow.ex) => i <= j

(* A catch clause replaces the flow, below which it pops what it leaves. *)
UnwindToCatch ==
    /\ UnwindingThrow
    /\ \E i \in DOMAIN Clauses :
        /\ FirstTaking(i)
        /\ Clauses[i].kind = "catch"
        /\ flows' = Append(PopOutOfScope(Front(flows), Clauses[i].entry),
                        [TopFlow EXCEPT !.next = i + 1, !.clause = <<Method, i>>,
                                        !.handled = TRUE])
        /\ Goto(Clauses[i].entry)
    /\ UNCHANGED <<program, frames, entries, outcome>>

SearchFromHere(flow, i) == [flow EXCEPT !.clause = <<Method, i>>]
SearchFromNext(flow, i) == [flow EXCEPT !.next = i + 1, !.clause = <<Method, i>>]

(* A finally or fault clause, and a filter whose handler runs unasked, *)
(* keep the flow.                                                      *)
UnwindToBlock(kinds) ==
    /\ UnwindingThrow
    /\ \E i \in DOMAIN Clauses :
        /\ FirstTaking(i)
        /\ Clauses[i].kind \in kinds
        /\ SetTopFlow(SearchFromNext(TopFlow, i))
        /\ Goto(Clauses[i].entry)
    /\ UNCHANGED <<program, frames, entries, outcome>>

UnwindToFilter == UnwindToBlock({"filter"})
UnwindToCleanup == UnwindToBlock({"finally", "fault"})

NoneTakes == \A i \in ToSearch(TopFlow) : ~Takes(i, TopFlow.ex)

(* The search goes on in the caller, at the ip it has saved. *)
UnwindToCaller ==
    /\ UnwindingThrow
    /\ NoneTakes
    /\ Cur # Last(entries).base
    /\ LET caller == frames[Cur - 1]
       IN  /\ flows' = Append(PopFrameFlows(flows),
                           ThrowFlow(TopFlow.ex, Cur - 1, <<caller.method, caller.ip>>))
           /\ ip' = caller.ip
    /\ frames' = Front(frames)
    /\ UNCHANGED <<program, entries, mode, outcome>>

(* The execute() call fails, and the one below raises its error. *)
UnwindToNative ==
    /\ UnwindingThrow
    /\ NoneTakes
    /\ Cur = Last(entries).base
    /\ entries' = Front(entries)
    /\ \/ /\ Len(entries) = 1
          /\ flows' = PopFrameFlows(flows)
          /\ frames' = Front(frames)
          /\ outcome' = TopFlow.ex
          /\ Goto(1)
       \/ /\ Len(entries) > 1
          /\ RaiseAt(PopFrameFlows(flows), Front(frames), Last(entries).ip, TopFlow.ex)
          /\ UNCHANGED outcome
    /\ UNCHANGED program

FinishLeave ==
    /\ UnwindingLeave
    /\ TopFlow.remain = 0
    /\ flows' = Front(flows)
    /\ Goto(TopFlow.target)
    /\ UNCHANGED <<program, frames, entries, outcome>>

RemainingFinallys(flow) ==
    {i \in FinallysBetween(Clauses, flow.src, flow.target) : i >= flow.next}

(* cur_finally_clause is not updated here. *)
NextFinally ==
    /\ UnwindingLeave
    /\ TopFlow.remain > 0
    /\ RemainingFinallys(TopFlow) # {}
    /\ LET i == Min(RemainingFinallys(TopFlow))
       IN  /\ SetTopFlow([TopFlow EXCEPT !.next = i + 1, !.remain = @ - 1])
           /\ Goto(Clauses[i].entry)
    /\ UNCHANGED <<program, frames, entries, outcome>>
------------------------------------------------------------------------------
Next ==
    \/ Proceed
    \/ RaiseFromInstruction
    \/ Rethrow
    \/ Call
    \/ Invoke
    \/ CallOverflows
    \/ Ret
    \/ LeaveByBranch
    \/ LeaveTryWithFinally
    \/ LeaveCatchWithFinally
    \/ LeaveCatchWithoutFinally
    \/ EndFinally
    \/ UnwindToCatch
    \/ UnwindToFilter
    \/ UnwindToCleanup
    \/ UnwindToCaller
    \/ UnwindToNative
    \/ FinishLeave
    \/ NextFinally

Spec == Init /\ [][Next]_vars

(* The interpreter does not stop at an instruction by itself. *)
FairSpec == Spec /\ WF_vars(Next)
------------------------------------------------------------------------------
(***************************************************************************)
(* Methods for which the flows are kept as they should be. A leave leaves  *)
(* as many catch handlers as its lowering pops flows; of the finally       *)
(* blocks it runs only the first may contain a catch clause, the others    *)
(* not being noted in the flow; and no catch clause in a handler that it   *)
(* leaves gets what these blocks raise, the flow of that handler being     *)
(* gone. No handler is in a block with a filter, whose handler pops        *)
(* nothing. (A finally block cannot be left by a leave, ECMA-335 III.3.46.)*)
(***************************************************************************)
LeftBy(m, p) ==
    {i \in DOMAIN m.clauses : LeavesHandler(m.clauses[i], p, m.code[p].target)}

IsCatch(m, i) == i \in DOMAIN m.clauses /\ m.clauses[i].kind = "catch"

SupportedLeave(m, p) ==
    LET target == m.code[p].target
        finallys == FinallysBetween(m.clauses, p, target)
    IN  /\ IF SurroundingBlock(m.clauses, p, target) = "catch_or_filter"
           THEN \E i \in LeftBy(m, p) : /\ m.clauses[i].kind \in {"catch", "filter"}
                                        /\ LeftBy(m, p) = {i}
           ELSE LeftBy(m, p) = {}
        /\ \A i, j \in finallys, c \in DOMAIN m.clauses :
               i < j /\ IsCatch(m, c) => m.clauses[c].entry \notin m.clauses[j].handler
        /\ \A i \in finallys, c, h \in DOMAIN m.clauses :
               /\ IsCatch(m, c)
               /\ m.clauses[i].handler \subseteq m.clauses[c].try
               /\ h # c
               /\ m.clauses[c].entry \in m.clauses[h].handler
               => target \in m.clauses[h].handler

Supported(m) ==
    /\ \A p \in DOMAIN m.code : m.code[p].op = "leave" => SupportedLeave(m, p)
    /\ \A i, j \in DOMAIN m.clauses :
           m.clauses[i].kind = "filter" => m.clauses[i].try \cap m.clauses[j].handler = {}

(***************************************************************************)
(* Methods whose exceptions go, besides, where the standard says. A frame  *)
(* waits behind its call, so that what follows must have the same try      *)
(* blocks; filters are not asked, so that they must accept everything, and *)
(* what is raised in their handlers is lost; a rethrow is in a catch       *)
(* handler.                                                                *)
(***************************************************************************)
RaisingOps == {"may", "call", "invoke", "rethrow"}

SupportedRaise(m, p) ==
    LET op == m.code[p].op
    IN  /\ op = "call" => Protecting(m.clauses, p + 1) = Protecting(m.clauses, p)
        /\ op \in RaisingOps => \A i \in DOMAIN m.clauses :
               IsInnermost(m.clauses, p, i) => m.clauses[i].kind # "filter"
        /\ op = "rethrow" => \E i \in DOMAIN m.clauses :
               IsCatch(m, i) /\ IsInnermost(m.clauses, p, i)

SupportedRaises(m) ==
    /\ \A p \in DOMAIN m.code : SupportedRaise(m, p)
    /\ \A i \in DOMAIN m.clauses :
           m.clauses[i].kind = "filter" => m.clauses[i].catches = Exceptions

(* Frames, entries and flows are within their ranges, and the ip is in the *)
(* code of the method of the last frame.                                   *)
TypeOK ==
    /\ program \in Programs
    /\ mode \in {"run", "unwind"}
    /\ outcome \in {"running", "returned"} \cup Exceptions
    /\ Len(frames) <= MaxFrames
    /\ \A i \in DOMAIN frames :
           /\ frames[i].method \in DOMAIN program
           /\ frames[i].ip \in DOMAIN program[frames[i].method].code
    /\ \A i \in DOMAIN entries : entries[i].base \in DOMAIN frames
    /\ outcome = "running" => /\ frames # <<>> /\ entries # <<>>
                             /\ ip \in DOMAIN program[Method].code
    /\ outcome # "running" => frames = <<>> /\ entries = <<>>
    /\ \A i \in DOMAIN flows :
           /\ flows[i].frame \in 1 .. MaxFrames
           /\ flows[i].clause # NoClause =>
                  flows[i].clause[2] \in DOMAIN program[flows[i].clause[1]].clauses

(* The interpreter's assertions on s_exception_flows: an unwinding has a   *)
(* flow to go by (l. 149), a throw whose search goes on is not handled yet *)
(* (l. 266, 290, 312), the flows below the last have a clause (l. 197 and  *)
(* 210), a catch handler is left with its own flow on top (l. 371 to 374), *)
(* a leave ends in its frame (l. 184) and finds the finally blocks it has  *)
(* counted (l. 8166).                                                      *)
AssertionsHold ==
    outcome = "running" =>
        /\ mode = "unwind" => flows # <<>>
        /\ UnwindingThrow => ~TopFlow.handled
        /\ \A i \in DOMAIN flows : i < Len(flows) => flows[i].clause # NoClause
        /\ mode = "run" /\ Instr.op = "leave" /\ Surrounding = "catch_or_filter" =>
               /\ flows # <<>>
               /\ TopFlow.throw
               /\ TopFlow.frame = Cur
               /\ InHandler(TopFlow, ip)
        /\ UnwindingLeave =>
               /\ TopFlow.frame = Cur
               /\ TopFlow.remain > 0 => RemainingFinallys(TopFlow) # {}

(* s_exception_flows is shared by all frames and nested execute() calls:   *)
(* no flow survives the frame it belongs to, so none is taken for a flow   *)
(* of a later frame at the same address, and the flows of a caller lie     *)
(* below those of what it calls.                                           *)
NoFlowOutlivesFrame ==
    /\ \A i \in DOMAIN flows : flows[i].frame <= Len(frames)
    /\ \A i, j \in DOMAIN flows : i < j => flows[i].frame <= flows[j].frame

(* A program without loops comes to an end, whatever it raises: unwinding  *)
(* runs no block twice and misses no caller.                               *)
Ends == <>(outcome # "running")
------------------------------------------------------------------------------
(* What StructuredExceptions sees of this.                                 *)

Raising == mode = "unwind" /\ flows # <<>> /\ TopFlow.throw

(* Where frame i is: at a call, unless it is the last one. *)
Location(i) ==
    IF i = Cur THEN ip
    ELSE IF \E k \in DOMAIN entries : entries[k].base = i + 1
    THEN entries[CHOOSE k \in DOMAIN entries : entries[k].base = i + 1].ip
    ELSE frames[i].ip - 1

(* The clause whose block runs for a flow. *)
Executes(flow) == IF flow.throw THEN flow.clause[2] ELSE flow.next - 1

HandlerOf(clauses, flow) ==
    LET i == Executes(flow)
    IN  IF ~flow.throw
        THEN [kind |-> "leave", target |-> flow.target,
              rest |-> {j \in FinallysBetween(clauses, flow.src, flow.target) : j > i}]
        ELSE IF IsCleanup(clauses[i])
        THEN [kind |-> "raise", ex |-> flow.ex,
              rest |-> {j \in Protecting(clauses, flow.at[2]) : j > i}]
        ELSE [kind |-> "caught", ex |-> flow.ex]

(* Those of the flows fs whose handlers frame k is executing at p. *)
HandlerFlows(clauses, fs, k, p) ==
    {x \in DOMAIN fs : /\ fs[x].frame = k
                       /\ fs[x].clause # NoClause
                       /\ p \in clauses[Executes(fs[x])].handler}

Handlers(clauses, fs, k, p) ==
    LET inside == HandlerFlows(clauses, fs, k, p)
    IN  [c \in {Executes(fs[x]) : x \in inside} |->
            HandlerOf(clauses, fs[CHOOSE x \in inside : Executes(fs[x]) = c])]

(* A throw that has yet to find its clause has no handler. *)
HandledFlows == IF Raising THEN Front(flows) ELSE flows

Activations ==
    [k \in DOMAIN frames |->
        [method |-> frames[k].method,
         ip |-> IF k = Cur /\ Raising THEN 0 ELSE Location(k),
         handlers |-> Handlers(program[frames[k].method].clauses, HandledFlows, k, Location(k))]]

Pending ==
    IF outcome = "running" /\ Raising
    THEN [ex |-> TopFlow.ex, clauses |-> ToSearch(TopFlow)]
    ELSE [ex |-> NoException, clauses |-> {}]

Abstract == INSTANCE StructuredExceptions WITH calls <- Activations, pending <- Pending

(* The flows give every program the exceptions ECMA-335 promises it: each  *)
(* finally block runs, once and in order, each exception reaches the       *)
(* innermost clause for it, each rethrow raises what was caught, and what  *)
(* a block interrupts goes on when it ends.                                *)
ImplementsStructuredExceptions == Abstract!Spec
==============================================================================
