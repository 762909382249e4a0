---------------------------- MODULE RuntimeThread ----------------------------
(***************************************************************************)
(* The one thread of the runtime: static constructors (ClassInit) are      *)
(* managed code and run on the stacks of the interpreter (MachineState).   *)
(* A constructor is one execute(); inside it, managed code calls, returns, *)
(* throws and catches, and any of its frames may use a class. The host,    *)
(* and the managed program it starts, may too.                             *)
(***************************************************************************)
EXTENDS MachineState, ClassInit

CONSTANT CctorMethod  \* the method of each static constructor

ASSUME CctorsAssumption == CctorMethod \in [WithCctor -> Methods]

vars == <<stackVars, classVars>>

Init == StacksInit /\ ClassesInit

(* The host calls a managed method: Runtime::invoke. *)
HostInvokes ==
    /\ executes = <<>> /\ calls = <<>>
    /\ \E m \in Methods : Execute(m)
    /\ UNCHANGED classVars

HostInvokeEnds ==
    /\ calls = <<>>
    /\ LeaveExecute
    /\ UNCHANGED classVars

(* Managed code is running, or the host while nothing is. *)
CodeRuns == ManagedRuns /\ Running

CallsMethod ==
    /\ CodeRuns
    /\ \E m \in Methods, offset \in 0..EvalSlots : Call(m, offset) \/ CallOverflows(m, offset)
    /\ UNCHANGED classVars

Returns == CodeRuns /\ LeaveFrame /\ UNCHANGED classVars

UsesClass == CodeRuns /\ ManagedUse /\ UNCHANGED stackVars

InitializesClass == RuntimeStep /\ UNCHANGED stackVars

InvokesCctor == StartBody /\ Execute(CctorMethod[Top.of])

(* invoke_without_run_cctor fails before the constructor runs: execute()   *)
(* gives back what it took, if it got that far.                            *)
CctorRefused == RefuseBody /\ UNCHANGED stackVars

(* The constructor returns, or its exception is not caught in it. *)
CctorEnds == (BodyReturns \/ BodyThrows) /\ LeaveExecute

Next ==
    \/ HostInvokes
    \/ HostInvokeEnds
    \/ CallsMethod
    \/ Returns
    \/ UsesClass
    \/ InitializesClass
    \/ InvokesCctor
    \/ CctorRefused
    \/ CctorEnds

(***************************************************************************)
(* The runtime goes on, and managed code that can return does so in the    *)
(* end, at every depth of the stack: no constructor loops for ever.        *)
(***************************************************************************)
Fairness ==
    /\ WF_vars(InitializesClass \/ InvokesCctor \/ CctorRefused)
    /\ SF_vars(CctorEnds)
    /\ \A i \in 2..FrameSlots : SF_vars(Returns /\ Current = i)

Spec == Init /\ [][Next]_vars
FairSpec == Spec /\ Fairness
------------------------------------------------------------------------------
(***************************************************************************)
(* Each constructor in progress is an execute(), above at most one more,   *)
(* which the host called: what unwinds out of the one leaves the other.    *)
(***************************************************************************)
Bodies == {i \in DOMAIN calls : calls[i].at = "body"}

CctorsAreExecutes ==
    Len(executes) \in {Cardinality(Bodies), Cardinality(Bodies) + 1}

(* The variables have their types, and the two stacks match. *)
TypeOK == StacksTypeOK /\ ClassesTypeOK /\ CctorsAreExecutes

(***************************************************************************)
(* Classes that need each other, modules that need their own classes,      *)
(* failures, full stacks: initialization comes to an end. (A frame slot    *)
(* left by CallOverflows may be taken for a caller; there the model stops.) *)
(***************************************************************************)
InitEnds == calls # <<>> ~> calls = <<>> \/ ~Running
==============================================================================
