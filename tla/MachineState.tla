---------------------------- MODULE MachineState ----------------------------
(***************************************************************************)
(* The two stacks of the interpreter: the frame stack and the evaluation   *)
(* stack, as Interpreter::execute, the call and return instructions and    *)
(* the unwinder move their tops.                                           *)
(*                                                                         *)
(* An execute() called by native code remembers both tops (its             *)
(* MachineStateSavePoint), runs frames above them and sets them back when  *)
(* it returns, by whatever way. Calls from managed code to managed code    *)
(* only push a frame, whose slots overlap the arguments its caller left.   *)
(* Both stacks have a fixed size: entering a frame fails with              *)
(* StackOverflow, which is raised as an exception in the frame that calls. *)
(***************************************************************************)
EXTENDS Naturals, SequencesExt

CONSTANTS
    FrameSlots,  \* _frame_stack_size
    EvalSlots,   \* _eval_stack_size, in stack objects
    Methods,     \* the interpreted methods
    MaxStack,    \* max_stack_object_size of each
    ArgSize      \* total_arg_stack_object_size of each

ASSUME StacksAssumption ==
    /\ FrameSlots \in Nat
    /\ EvalSlots \in Nat
    /\ MaxStack \in [Methods -> Nat]
    /\ ArgSize \in [Methods -> Nat]

VARIABLES
    frames,    \* the slots of the frame stack below _frame_stack_top
    evalTop,   \* _eval_stack_top
    executes   \* calls of execute(): their save points and their variable frame

stackVars == <<frames, evalTop, executes>>

(***************************************************************************)
(* A frame holds its part of the evaluation stack and the top to go back   *)
(* to. caller (0: native code) and live, the slots a suspended frame still *)
(* needs, say what the code takes for granted. entered is FALSE for a slot *)
(* that was taken and not filled in: it holds what an older frame left.    *)
(***************************************************************************)
Frames == [base : Nat, size : Nat, live : Nat, oldTop : Nat, caller : Nat, entered : BOOLEAN]
Executes == [frameTop : Nat, evalTop : Nat, frame : Nat]

NewFrame(base, size, caller) ==
    [base |-> base, size |-> size, live |-> size, oldTop |-> evalTop,
     caller |-> caller, entered |-> TRUE]

Execution == executes[Len(executes)]
Current == Execution.frame
Running == executes # <<>> => frames[Current].entered
InManagedCode == executes # <<>> /\ Running

ContinueWith(i) == [executes EXCEPT ![Len(executes)].frame = i]

StacksInit ==
    /\ frames = <<>>
    /\ evalTop = 0
    /\ executes = <<>>
------------------------------------------------------------------------------
ExecuteFits(m) == Len(frames) < FrameSlots /\ evalTop + MaxStack[m] <= EvalSlots

(* execute(), called by the host or on behalf of the running frame, enters *)
(* its first frame: enter_frame_from_native. Where it does not fit, the    *)
(* save point gives back what was taken, and nothing has changed.          *)
Execute(m) ==
    /\ Running
    /\ ExecuteFits(m)
    /\ frames' = Append(frames, NewFrame(evalTop, MaxStack[m], 0))
    /\ evalTop' = evalTop + MaxStack[m]
    /\ executes' = Append(executes, [frameTop |-> Len(frames), evalTop |-> evalTop,
                                     frame |-> Len(frames) + 1])

(* A call instruction whose arguments start at offset of the frame, in a   *)
(* frame that has pushed them there.                                       *)
CallsAt(m, offset) ==
    /\ InManagedCode
    /\ offset + ArgSize[m] <= frames[Current].size
    /\ Len(frames) < FrameSlots

(* enter_frame_from_interp *)
Call(m, offset) ==
    LET base == frames[Current].base + offset IN
        /\ CallsAt(m, offset)
        /\ base + MaxStack[m] <= EvalSlots
        /\ frames' = Append([frames EXCEPT ![Current].live = offset],
                            NewFrame(base, MaxStack[m], Current))
        /\ evalTop' = base + MaxStack[m]
        /\ executes' = ContinueWith(Len(frames) + 1)

(* enter_frame_from_interp after the last check fails: the frame has been  *)
(* allocated and stays; StackOverflow is raised in the calling frame.      *)
CallOverflows(m, offset) ==
    /\ CallsAt(m, offset)
    /\ frames[Current].base + offset + MaxStack[m] > EvalSlots
    /\ frames' = Append(frames, [base |-> 0, size |-> 0, live |-> 0, oldTop |-> evalTop,
                                 caller |-> Current, entered |-> FALSE])
    /\ UNCHANGED <<evalTop, executes>>

(* Mutant: the frame below the first one is taken for the first. *)
LeavesExecuteLate == Current <= Execution.frameTop

(* The running frame is the first one of its execute(). *)
LeavesExecute == Current <= Execution.frameTop + 1

(* Mutant: the frame that is left keeps its slot. *)
LeaveFrameKeepsSlot ==
    /\ InManagedCode
    /\ ~LeavesExecute
    /\ frames' = [frames EXCEPT ![Current - 1].live = frames[Current - 1].size]
    /\ evalTop' = frames[Current].oldTop
    /\ executes' = ContinueWith(Current - 1)

(* Mutant: the evaluation stack keeps the top of the frame that is left. *)
LeaveFrameKeepsTop ==
    /\ InManagedCode
    /\ ~LeavesExecute
    /\ frames' = [SubSeq(frames, 1, Current - 1)
                     EXCEPT ![Current - 1].live = frames[Current - 1].size]
    /\ executes' = ContinueWith(Current - 1)
    /\ UNCHANGED evalTop

(* leave_frame, for a return instruction and for an exception that no      *)
(* handler of the frame takes: the frame below goes on.                    *)
LeaveFrame ==
    /\ InManagedCode
    /\ ~LeavesExecute
    /\ frames' = [SubSeq(frames, 1, Current - 1)
                     EXCEPT ![Current - 1].live = frames[Current - 1].size]
    /\ evalTop' = frames[Current].oldTop
    /\ executes' = ContinueWith(Current - 1)

(* leave_frame finds the frame to be the first one: execute() returns, and *)
(* the save point is destroyed.                                            *)
LeaveExecute ==
    /\ InManagedCode
    /\ LeavesExecute
    /\ frames' = SubSeq(frames, 1, Execution.frameTop)
    /\ evalTop' = Execution.evalTop
    /\ executes' = Front(executes)

StacksNext ==
    \/ \E m \in Methods :
           \/ Execute(m)
           \/ \E offset \in 0..EvalSlots : Call(m, offset) \/ CallOverflows(m, offset)
    \/ LeaveFrame
    \/ LeaveExecute

StacksSpec == StacksInit /\ [][StacksNext]_stackVars
------------------------------------------------------------------------------
StacksTypeOK ==
    /\ frames \in Seq(Frames)
    /\ evalTop \in Nat
    /\ executes \in Seq(Executes)

(***************************************************************************)
(* The operands a suspended frame still needs are in no frame above it,    *)
(* and no frame reaches beyond the evaluation stack. A callee that needs   *)
(* less than its caller moves the top down, into the caller's part: what   *)
(* execute() puts there must not reach what the caller has live.           *)
(***************************************************************************)
LiveSlotsKept ==
    \A j \in DOMAIN frames : frames[j].entered =>
        /\ frames[j].base + frames[j].size <= EvalSlots
        /\ \A i \in 1..(j - 1) :
               frames[i].entered => frames[i].base + frames[i].live <= frames[j].base

(* The top of the evaluation stack when the i-th execute() called another. *)
EvalTopOf(i) == IF i = Len(executes) THEN evalTop ELSE executes[i + 1].evalTop
FrameTopOf(i) == IF i = Len(executes) THEN Len(frames) ELSE executes[i + 1].frameTop

(***************************************************************************)
(* Whoever goes on after a return, an exception or a failed call finds the *)
(* tops it left: the host both stacks empty, a frame the evaluation stack  *)
(* ending with its own part. Each execute() runs frames of its own.        *)
(***************************************************************************)
StacksBalanced ==
    /\ executes = <<>> => frames = <<>> /\ evalTop = 0
    /\ \A i \in DOMAIN executes :
           /\ executes[i].frameTop < executes[i].frame
           /\ executes[i].frame <= FrameTopOf(i)
           /\ LET f == frames[executes[i].frame]
              IN  f.entered => EvalTopOf(i) = f.base + f.size

(***************************************************************************)
(* A frame that is left inside an execute() is followed by the frame that  *)
(* called it, or by a slot that CallOverflows has left behind: the code    *)
(* takes the frame below for the caller, and there it is not.              *)
(***************************************************************************)
ResumesCaller ==
    [][(executes # <<>> /\ Len(executes') = Len(executes) /\ Current' < Current)
           => \/ Current' = frames[Current].caller
              \/ ~frames'[Current'].entered]_stackVars
==============================================================================
