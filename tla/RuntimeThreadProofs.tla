------------------------ MODULE RuntimeThreadProofs -------------------------
(***************************************************************************)
(* The thread of the runtime implements both of its components: what it    *)
(* does to the stacks is what MachineState allows, what it does to the     *)
(* classes is what ClassInit allows. So what is proved of them holds of    *)
(* it, whatever the managed program does.                                  *)
(***************************************************************************)
EXTENDS RuntimeThread, WellFoundedInduction, FiniteSetTheorems, TLAPS
------------------------------------------------------------------------------
(***************************************************************************)
(* The frame stack and the evaluation stack are balanced, for every size   *)
(* of the two and every set of methods.                                    *)
(*                                                                         *)
(* The difficulty is in the slots CallOverflows leaves behind. They may    *)
(* lie between a frame and the frames it calls, so that the frame below is *)
(* not always the caller; the invariant says where they are (none of the   *)
(* frames above the current one is entered) and that, wherever they are    *)
(* not, each frame remembers the top and the index of the one below.       *)
(***************************************************************************)

(* A nested execute() has only frames above those of the one that waits. *)
TopsOrdered ==
    \A i, j \in DOMAIN executes : i < j => executes[i].frame <= executes[j].frameTop

(* The slots above the frame an execute() runs hold no frame. *)
NothingAbove ==
    \A i \in DOMAIN executes : \A j \in DOMAIN frames :
        executes[i].frame < j /\ j <= FrameTopOf(i) => ~frames[j].entered

(* An entered frame above an entered one of the same execute() was called  *)
(* by it.                                                                  *)
FramesLinked ==
    \A j \in DOMAIN frames : j - 1 \in DOMAIN frames =>
        \/ ~frames[j].entered
        \/ ~frames[j - 1].entered
        \/ \E i \in DOMAIN executes : j = executes[i].frameTop + 1
        \/ /\ frames[j].oldTop = frames[j - 1].base + frames[j - 1].size
           /\ frames[j].caller = j - 1

LiveInFrame == \A j \in DOMAIN frames : frames[j].entered => frames[j].live <= frames[j].size

FirstExecute == executes # <<>> => executes[1].frameTop = 0 /\ executes[1].evalTop = 0

StacksIInv ==
    /\ StacksTypeOK
    /\ LiveSlotsKept
    /\ StacksBalanced
    /\ TopsOrdered
    /\ NothingAbove
    /\ FramesLinked
    /\ LiveInFrame
    /\ FirstExecute
-----------------------------------------------------------------------------
(* Both stacks are empty. *)
LEMMA StacksInitially == StacksInit => StacksIInv
  BY DEF StacksInit, StacksIInv, StacksTypeOK, LiveSlotsKept, StacksBalanced, NothingAbove,
         FramesLinked, LiveInFrame, FirstExecute, TopsOrdered

(* The tops an execute() has are those of frames in the stack. *)
LEMMA TopsInStack ==
    ASSUME StacksTypeOK, StacksBalanced, TopsOrdered, NEW i \in DOMAIN executes
    PROVE  /\ FrameTopOf(i) \in Nat /\ EvalTopOf(i) \in Nat
           /\ executes[i].frame \in 1..Len(frames)
           /\ FrameTopOf(i) <= Len(frames)
<1> DEFINE L == Len(executes)
<1>1. /\ L \in Nat /\ i \in 1..L /\ L \in DOMAIN executes /\ Len(frames) \in Nat
      /\ evalTop \in Nat /\ \A k \in 1..L : executes[k] \in Executes
  BY DEF StacksTypeOK
<1>2. executes[L].frameTop < executes[L].frame /\ executes[L].frame <= Len(frames)
  BY <1>1 DEF StacksBalanced, FrameTopOf
<1>3. executes[i].frameTop < executes[i].frame
  BY DEF StacksBalanced
<1>4. CASE i = L
  BY <1>1, <1>2, <1>4 DEF FrameTopOf, EvalTopOf, Executes
<1>5. CASE i # L
  <2>1. i + 1 \in 1..L /\ i < L
    BY <1>1, <1>5
  <2>2. executes[i].frame <= executes[L].frameTop
    BY <1>1, <2>1 DEF TopsOrdered
  <2>3. executes[i + 1].frameTop < executes[i + 1].frame
    BY <2>1 DEF StacksBalanced
  <2>4. i + 1 # L => executes[i + 1].frame <= executes[L].frameTop
    BY <1>1, <2>1 DEF TopsOrdered
  <2>5. executes[i] \in Executes /\ executes[i + 1] \in Executes /\ executes[L] \in Executes
    BY <1>1, <2>1
  <2>6. FrameTopOf(i) = executes[i + 1].frameTop /\ EvalTopOf(i) = executes[i + 1].evalTop
    BY <1>5 DEF FrameTopOf, EvalTopOf
  <2>7. executes[i + 1].frameTop <= executes[L].frameTop
    <3>1. CASE i + 1 = L
      BY <3>1, <2>5 DEF Executes
    <3>2. CASE i + 1 # L
      BY <3>2, <2>3, <2>4, <2>5 DEF Executes
    <3> QED BY <3>1, <3>2
  <2> QED BY <1>1, <1>2, <1>3, <2>2, <2>5, <2>6, <2>7 DEF Executes
<1> QED BY <1>4, <1>5
-----------------------------------------------------------------------------
(* The innermost execute() and the frame it runs. *)
LEMMA Innermost ==
    ASSUME StacksIInv, executes # <<>>
    PROVE  /\ Len(executes) \in Nat /\ Len(executes) \in DOMAIN executes
           /\ Execution \in Executes /\ Execution.frameTop \in Nat /\ Execution.evalTop \in Nat
           /\ Current \in Nat /\ Current \in 1..Len(frames)
           /\ Execution.frameTop < Current
           /\ frames[Current] \in Frames
           /\ frames[Current].entered => evalTop = frames[Current].base + frames[Current].size
           /\ \A j \in 1..Len(frames) : Current < j => ~frames[j].entered
<1>1. /\ StacksTypeOK /\ StacksBalanced /\ TopsOrdered /\ NothingAbove
      /\ Len(executes) \in Nat /\ Len(executes) \in DOMAIN executes
      /\ executes \in Seq(Executes) /\ frames \in Seq(Frames)
  BY DEF StacksIInv, StacksTypeOK
<1>2. Execution \in Executes
  BY <1>1 DEF Execution
<1>3. Current \in 1..Len(frames) /\ frames[Current] \in Frames
  BY <1>1, TopsInStack DEF Current, Execution
<1>4. /\ Execution.frameTop < Current
      /\ frames[Current].entered => evalTop = frames[Current].base + frames[Current].size
  BY <1>1 DEF StacksBalanced, EvalTopOf, FrameTopOf, Current, Execution
<1>5. \A j \in 1..Len(frames) : Current < j => ~frames[j].entered
  BY <1>1 DEF NothingAbove, FrameTopOf, Current, Execution
<1> QED BY <1>1, <1>2, <1>3, <1>4, <1>5 DEF Executes

(* What the frames below the running one have live is below its part. *)
LEMMA LiveBelow ==
    ASSUME StacksIInv, executes # <<>>, Running,
           NEW j \in 1..Len(frames), frames[j].entered
    PROVE  /\ j <= Current
           /\ frames[j] \in Frames
           /\ j < Current => frames[j].base + frames[j].live <= frames[Current].base
           /\ frames[j].base + frames[j].live <= evalTop
<1>1. /\ Current \in 1..Len(frames) /\ Current \in Nat /\ frames[Current] \in Frames
      /\ frames[Current].entered
      /\ evalTop = frames[Current].base + frames[Current].size
      /\ j <= Current
  BY Innermost DEF Running
<1>2. frames[j] \in Frames
  BY DEF StacksIInv, StacksTypeOK
<1>3. j < Current => frames[j].base + frames[j].live <= frames[Current].base
  BY <1>1 DEF StacksIInv, LiveSlotsKept
<1>4. frames[j].base + frames[j].live <= evalTop
  <2>1. CASE j = Current
    <3>1. frames[j].live <= frames[j].size
      BY DEF StacksIInv, LiveInFrame
    <3> QED BY <1>1, <1>2, <2>1, <3>1 DEF Frames
  <2>2. CASE j < Current
    BY <1>1, <1>2, <1>3, <2>2 DEF Frames
  <2> QED BY <1>1, <2>1, <2>2
<1> QED BY <1>1, <1>2, <1>3, <1>4

(* Without an execute() there is no frame. *)
LEMMA NoExecuteNoFrame ==
    ASSUME StacksIInv, executes = <<>>
    PROVE  frames = <<>> /\ evalTop = 0
  BY DEF StacksIInv, StacksBalanced

(* What the type invariant says, part by part *)
LEMMA TypeParts ==
    ASSUME StacksIInv
    PROVE  /\ frames \in Seq(Frames) /\ Len(frames) \in Nat
           /\ executes \in Seq(Executes) /\ Len(executes) \in Nat
           /\ evalTop \in Nat
  BY DEF StacksIInv, StacksTypeOK
-----------------------------------------------------------------------------
(* A frame but for the slots it has live, which its callees decide *)
Same(f, g) == /\ f.base = g.base /\ f.size = g.size /\ f.oldTop = g.oldTop
              /\ f.caller = g.caller /\ f.entered = g.entered

(* The innermost execute() began highest on the frame stack. *)
LEMMA TopIsLargest ==
    ASSUME StacksIInv, executes # <<>>, NEW i \in DOMAIN executes
    PROVE  executes[i].frameTop \in Nat /\ executes[i].frameTop <= Execution.frameTop
<1>1. PICK L \in DOMAIN executes : L = Len(executes) /\ executes \in Seq(Executes)
  BY Innermost, TypeParts
<1>2. executes[i] \in Executes /\ executes[L] \in Executes
  BY <1>1
<1>3. CASE i = L
  BY <1>1, <1>2, <1>3 DEF Execution, Executes
<1>4. CASE i # L
  <2>1. executes[i].frame <= executes[L].frameTop
    BY <1>1, <1>4 DEF StacksIInv, TopsOrdered
  <2>2. executes[i].frameTop < executes[i].frame
    BY DEF StacksIInv, StacksBalanced
  <2> QED BY <2>1, <2>2, <1>1, <1>2 DEF Execution, Executes
<1> QED BY <1>3, <1>4

(* Another frame runs: the save points are as they were. *)
LEMMA TopsKept ==
    ASSUME StacksIInv, executes # <<>>, NEW c \in Nat, executes' = ContinueWith(c)
    PROVE  /\ DOMAIN executes' = DOMAIN executes
           /\ \A i \in DOMAIN executes : executes'[i].frameTop = executes[i].frameTop
<1>1. PICK L \in DOMAIN executes : L = Len(executes) /\ executes \in Seq(Executes)
  BY Innermost, TypeParts
<1>2. executes[L] \in Executes
  BY <1>1
<1>3. executes' = [executes EXCEPT ![L] = [executes[L] EXCEPT !.frame = c]]
  BY <1>1 DEF ContinueWith
<1> QED BY <1>1, <1>2, <1>3 DEF Executes

(* A step inside the innermost execute(): it runs frame c afterwards and   *)
(* has left the frames of the others alone. What remains to be shown of    *)
(* the step is about frames only.                                          *)
LEMMA StepInside ==
    ASSUME StacksIInv, executes # <<>>,
           NEW c \in Nat, executes' = ContinueWith(c),
           frames' \in Seq(Frames), evalTop' \in Nat,
           c \in 1..Len(frames'), Execution.frameTop < c,
           frames'[c].entered => evalTop' = frames'[c].base + frames'[c].size,
           \A j \in 1..Len(frames') : c < j => ~frames'[j].entered,
           \A j \in 1..Execution.frameTop : Same(frames'[j], frames[j]),
           LiveSlotsKept', FramesLinked', LiveInFrame'
    PROVE  StacksIInv'
<1>1. PICK L \in Nat : L = Len(executes)
  BY Innermost
<1>2. PICK top \in Nat : top = Execution.frameTop
  BY Innermost
<1>3. PICK n \in Nat : n = Len(frames')
  OBVIOUS
<1>4. L \in 1..L /\ DOMAIN executes = 1..L /\ executes \in Seq(Executes)
  BY <1>1, Innermost, TypeParts
<1>5. /\ executes' \in Seq(Executes) /\ Len(executes') = L /\ DOMAIN executes' = 1..L
      /\ executes'[L].frame = c /\ executes'[L].frameTop = top
      /\ executes'[L].evalTop = executes[L].evalTop
      /\ \A i \in 1..L : i # L => executes'[i] = executes[i]
  <2>0. executes[L] \in Executes
    BY <1>4
  <2>1. PICK e \in Executes : e = [executes[L] EXCEPT !.frame = c]
    BY <2>0 DEF Executes
  <2>2. executes' = [executes EXCEPT ![L] = e]
    BY <1>1, <2>1 DEF ContinueWith
  <2>3. /\ e.frame = c /\ e.frameTop = executes[L].frameTop
        /\ e.evalTop = executes[L].evalTop
    BY <2>0, <2>1 DEF Executes
  <2>4. /\ executes' \in Seq(Executes) /\ Len(executes') = L /\ executes'[L] = e
        /\ \A i \in 1..L : i # L => executes'[i] = executes[i]
    BY <1>1, <1>4, <2>2
  <2> QED BY <1>1, <1>2, <2>3, <2>4 DEF Execution
<1>6. \A i \in 1..L : executes'[i].frameTop = executes[i].frameTop
                      /\ executes'[i].evalTop = executes[i].evalTop
  BY <1>2, <1>4, <1>5, <1>1 DEF Execution
<1>7. \A i \in 1..L : i # L =>
          /\ i + 1 \in 1..L
          /\ FrameTopOf(i)' = FrameTopOf(i) /\ EvalTopOf(i)' = EvalTopOf(i)
          /\ FrameTopOf(i) = executes[i + 1].frameTop
  <2> SUFFICES ASSUME NEW i \in 1..L, i # L
               PROVE  /\ i + 1 \in 1..L
                      /\ FrameTopOf(i)' = FrameTopOf(i) /\ EvalTopOf(i)' = EvalTopOf(i)
                      /\ FrameTopOf(i) = executes[i + 1].frameTop
    OBVIOUS
  <2>1. i + 1 \in 1..L
    BY <1>1
  <2>2. executes'[i + 1].frameTop = executes[i + 1].frameTop
        /\ executes'[i + 1].evalTop = executes[i + 1].evalTop
    BY <2>1, <1>6
  <2> QED BY <2>1, <2>2, <1>1, <1>5 DEF FrameTopOf, EvalTopOf
<1>8. FrameTopOf(L)' = n /\ EvalTopOf(L)' = evalTop'
  BY <1>3, <1>5 DEF FrameTopOf, EvalTopOf
<1>9. \A i \in 1..L : i # L => executes[i].frame \in 1..top /\ FrameTopOf(i) <= top
                              /\ FrameTopOf(i) \in Nat
  <2> SUFFICES ASSUME NEW i \in 1..L, i # L
               PROVE  executes[i].frame \in 1..top /\ FrameTopOf(i) <= top
                      /\ FrameTopOf(i) \in Nat
    OBVIOUS
  <2>1. executes[i].frame <= top
    BY <1>1, <1>2, <1>4 DEF StacksIInv, TopsOrdered, Execution
  <2>2. executes[i].frame \in 1..Len(frames) /\ FrameTopOf(i) \in Nat
    BY <1>4, TopsInStack DEF StacksIInv
  <2>3. FrameTopOf(i) <= top
    <3>1. i + 1 \in 1..L /\ FrameTopOf(i) = executes[i + 1].frameTop
      BY <1>7
    <3>2. CASE i + 1 = L
      BY <3>1, <3>2, <1>1, <1>2 DEF Execution
    <3>3. CASE i + 1 # L
      <4>1. executes[i + 1].frame <= top /\ executes[i + 1].frameTop < executes[i + 1].frame
        BY <3>1, <3>3, <1>1, <1>2, <1>4 DEF StacksIInv, TopsOrdered, StacksBalanced, Execution
      <4>2. executes[i + 1] \in Executes
        BY <3>1, <1>4
      <4> QED BY <4>1, <4>2, <3>1 DEF Executes
    <3> QED BY <3>2, <3>3
  <2> QED BY <2>1, <2>2, <2>3
<1>10. StacksTypeOK'
  BY <1>5 DEF StacksTypeOK
<1>11. StacksBalanced'
  <2> SUFFICES ASSUME NEW i \in 1..L
               PROVE  /\ executes'[i].frameTop < executes'[i].frame
                      /\ executes'[i].frame <= FrameTopOf(i)'
                      /\ frames'[executes'[i].frame].entered =>
                             EvalTopOf(i)' = frames'[executes'[i].frame].base
                                                 + frames'[executes'[i].frame].size
    BY <1>4, <1>5 DEF StacksBalanced
  <2>1. CASE i = L
    BY <2>1, <1>2, <1>3, <1>5, <1>8
  <2>2. CASE i # L
    <3>1. /\ executes[i].frameTop < executes[i].frame
          /\ executes[i].frame <= FrameTopOf(i)
          /\ frames[executes[i].frame].entered =>
                 EvalTopOf(i) = frames[executes[i].frame].base + frames[executes[i].frame].size
      BY <1>4 DEF StacksIInv, StacksBalanced
    <3>2. Same(frames'[executes[i].frame], frames[executes[i].frame])
      BY <2>2, <1>2, <1>9
    <3> QED BY <2>2, <3>1, <3>2, <1>5, <1>7 DEF Same
  <2> QED BY <2>1, <2>2
<1>12. TopsOrdered'
  <2> SUFFICES ASSUME NEW i \in 1..L, NEW j \in 1..L, i < j
               PROVE  executes'[i].frame <= executes'[j].frameTop
    BY <1>5 DEF TopsOrdered
  <2>1. executes'[i] = executes[i] /\ executes'[j].frameTop = executes[j].frameTop
    BY <1>5, <1>6
  <2> QED BY <2>1, <1>4 DEF StacksIInv, TopsOrdered
<1>13. NothingAbove'
  <2> SUFFICES ASSUME NEW i \in 1..L, NEW j \in 1..n,
                      executes'[i].frame < j, j <= FrameTopOf(i)'
               PROVE  ~frames'[j].entered
    BY <1>3, <1>5 DEF NothingAbove
  <2>1. CASE i = L
    BY <2>1, <1>3, <1>5
  <2>2. CASE i # L
    <3>1. /\ executes'[i] = executes[i] /\ FrameTopOf(i)' = FrameTopOf(i)
          /\ FrameTopOf(i) <= top /\ FrameTopOf(i) \in Nat
      BY <2>2, <1>5, <1>7, <1>9
    <3>2. j \in 1..top
      BY <3>1
    <3>3. j \in DOMAIN frames /\ Same(frames'[j], frames[j])
      BY <3>2, <1>2, Innermost, TypeParts
    <3>4. ~frames[j].entered
      BY <3>1, <3>3, <1>4 DEF StacksIInv, NothingAbove
    <3> QED BY <3>3, <3>4 DEF Same
  <2> QED BY <2>1, <2>2
<1>14. FirstExecute'
  BY <1>4, <1>6, <1>5 DEF StacksIInv, FirstExecute
<1> QED BY <1>10, <1>11, <1>12, <1>13, <1>14 DEF StacksIInv
-----------------------------------------------------------------------------
(* The fields of a frame have their types. *)
LEMMA FrameType ==
    ASSUME NEW f \in Frames
    PROVE  /\ f.base \in Nat /\ f.size \in Nat /\ f.live \in Nat /\ f.oldTop \in Nat
           /\ f.caller \in Nat /\ f.entered \in BOOLEAN
  BY DEF Frames

(* A frame is the same but for the slots it has live. *)
LEMMA LiveOnly ==
    ASSUME NEW f \in Frames, NEW live \in Nat
    PROVE  /\ [f EXCEPT !.live = live] \in Frames
           /\ Same([f EXCEPT !.live = live], f)
           /\ [f EXCEPT !.live = live].live = live
  BY DEF Frames, Same

(* A frame calls a method with room for its slots. *)
LEMMA CallKeeps ==
    ASSUME StacksAssumption, StacksIInv, NEW m \in Methods, NEW offset \in 0..EvalSlots,
           Call(m, offset)
    PROVE  StacksIInv'
<1>1. PICK C \in Nat : C = Current
  BY Innermost DEF Call, CallsAt, InManagedCode
<1>2. PICK n \in Nat : n = Len(frames)
  BY TypeParts
<1>3. /\ executes # <<>> /\ Running
      /\ C \in 1..n /\ frames[C] \in Frames /\ frames[C].entered /\ Execution.frameTop < C
      /\ Execution.frameTop \in Nat
      /\ evalTop = frames[C].base + frames[C].size /\ evalTop \in Nat
      /\ frames \in Seq(Frames)
      /\ \A j \in 1..n : C < j => ~frames[j].entered
  BY <1>1, <1>2, Innermost, TypeParts DEF Call, CallsAt, InManagedCode, Running
<1>17. frames[C].base \in Nat /\ frames[C].size \in Nat /\ offset \in Nat
  BY <1>3, FrameType DEF StacksAssumption
<1>4. PICK base \in Nat : base = frames[C].base + offset
  BY <1>17
<1>5. /\ offset \in Nat /\ MaxStack[m] \in Nat /\ ArgSize[m] \in Nat
      /\ offset <= frames[C].size
      /\ base + MaxStack[m] <= EvalSlots
  <2>1. /\ offset + ArgSize[m] <= frames[C].size /\ base + MaxStack[m] <= EvalSlots
        /\ MaxStack[m] \in Nat /\ ArgSize[m] \in Nat
    BY <1>1, <1>4 DEF Call, CallsAt, StacksAssumption
  <2> QED BY <2>1, <1>17
<1>6. PICK new \in Frames :
          /\ new.base = base /\ new.size = MaxStack[m] /\ new.live = MaxStack[m]
          /\ new.oldTop = evalTop /\ new.caller = C /\ new.entered
          /\ new = NewFrame(base, MaxStack[m], C)
  BY <1>3, <1>5 DEF NewFrame, Frames
<1>7. PICK caller \in Frames :
          /\ caller = [frames[C] EXCEPT !.live = offset]
          /\ Same(caller, frames[C]) /\ caller.live = offset
  BY <1>3, <1>5, LiveOnly
<1>8. /\ frames' = Append([frames EXCEPT ![C] = caller], new)
      /\ evalTop' = base + MaxStack[m]
      /\ executes' = ContinueWith(n + 1)
  BY <1>1, <1>2, <1>4, <1>6, <1>7 DEF Call
<1>9. /\ frames' \in Seq(Frames) /\ Len(frames') = n + 1
      /\ frames'[n + 1] = new /\ frames'[C] = caller
      /\ \A j \in 1..n : j # C => frames'[j] = frames[j]
  <2>0. [frames EXCEPT ![C] = caller] \in Seq(Frames)
    BY <1>2, <1>3
  <2>1. PICK old \in Seq(Frames) : old = [frames EXCEPT ![C] = caller]
    BY <2>0
  <2>2. /\ Len(old) = n /\ old[C] = caller
        /\ \A j \in 1..n : j # C => old[j] = frames[j]
    BY <2>1, <1>2, <1>3
  <2> QED BY <2>1, <2>2, <1>2, <1>3, <1>8
<1>10. \A j \in 1..n : Same(frames'[j], frames[j])
  BY <1>7, <1>9 DEF Same
<1>11. LiveSlotsKept'
  <2> SUFFICES ASSUME NEW j \in 1..(n + 1), frames'[j].entered
               PROVE  /\ frames'[j].base + frames'[j].size <= EvalSlots
                      /\ \A i \in 1..(j - 1) : frames'[i].entered =>
                             frames'[i].base + frames'[i].live <= frames'[j].base
    BY <1>9 DEF LiveSlotsKept
  <2>1. CASE j = n + 1
    <3>1. ASSUME NEW i \in 1..n, frames'[i].entered
          PROVE  frames'[i].base + frames'[i].live <= base
      <4>1. CASE i = C
        BY <4>1, <1>4, <1>7, <1>9 DEF Same
      <4>2. CASE i # C
        <5>1. frames'[i] = frames[i] /\ frames[i].entered
          BY <4>2, <3>1, <1>9
        <5>2. frames[i] \in Frames /\ i < C /\ frames[i].base + frames[i].live <= frames[C].base
          <6>1. i \in 1..Len(frames)
            BY <1>2
          <6>2. frames[i] \in Frames /\ i <= C
                /\ (i < C => frames[i].base + frames[i].live <= frames[C].base)
            BY <6>1, <5>1, <1>1, <1>3, LiveBelow
          <6> QED BY <6>2, <4>2
        <5>3. frames[i].base \in Nat /\ frames[i].live \in Nat
          BY <5>2, FrameType
        <5> QED BY <5>1, <5>2, <5>3, <1>4, <1>17
      <4> QED BY <4>1, <4>2
    <3> QED BY <2>1, <3>1, <1>5, <1>6, <1>9
  <2>2. CASE j # n + 1
    <3>1. j \in 1..n /\ Same(frames'[j], frames[j]) /\ j <= C /\ j \in DOMAIN frames
      <4>1. j \in 1..n /\ Same(frames'[j], frames[j]) /\ frames[j].entered
        <5>1. j \in 1..n
          BY <2>2
        <5> QED BY <5>1, <1>10 DEF Same
      <4> QED BY <4>1, <1>1, <1>2, <1>3, LiveBelow
    <3>2. /\ frames[j].base + frames[j].size <= EvalSlots
          /\ \A i \in 1..(j - 1) : frames[i].entered =>
                 frames[i].base + frames[i].live <= frames[j].base
      BY <3>1 DEF StacksIInv, LiveSlotsKept, Same
    <3>3. \A i \in 1..(j - 1) : frames'[i] = frames[i]
      BY <3>1, <1>9, <1>3
    <3> QED BY <3>1, <3>2, <3>3 DEF Same
  <2> QED BY <2>1, <2>2
<1>12. FramesLinked'
  <2> SUFFICES ASSUME NEW j \in 1..(n + 1), j - 1 \in 1..(n + 1),
                      frames'[j].entered, frames'[j - 1].entered,
                      \A i \in DOMAIN executes' : j # executes'[i].frameTop + 1
               PROVE  /\ frames'[j].oldTop = frames'[j - 1].base + frames'[j - 1].size
                      /\ frames'[j].caller = j - 1
    BY <1>9 DEF FramesLinked
  <2>1. CASE j = n + 1
    <3>1. Same(frames'[n], frames[n]) /\ frames[n].entered /\ n = C
      BY <2>1, <1>2, <1>3, <1>10 DEF Same
    <3> QED BY <2>1, <3>1, <1>3, <1>6, <1>9 DEF Same
  <2>2. CASE j # n + 1
    <3>1. /\ j \in DOMAIN frames /\ j - 1 \in DOMAIN frames
          /\ Same(frames'[j], frames[j]) /\ Same(frames'[j - 1], frames[j - 1])
      <4>1. j \in 1..n /\ j - 1 \in 1..n /\ DOMAIN frames = 1..n
        BY <2>2, <1>2, <1>3
      <4> QED BY <4>1, <1>10
    <3>2. \A i \in DOMAIN executes : j # executes[i].frameTop + 1
      <4>1. n + 1 \in Nat /\ executes # <<>> /\ executes' = ContinueWith(n + 1)
        BY <1>3, <1>8
      <4>2. /\ DOMAIN executes' = DOMAIN executes
            /\ \A i \in DOMAIN executes : executes'[i].frameTop = executes[i].frameTop
        BY <4>1, TopsKept
      <4> QED BY <4>2
    <3> QED BY <3>1, <3>2 DEF StacksIInv, FramesLinked, Same
  <2> QED BY <2>1, <2>2
<1>13. LiveInFrame'
  <2> SUFFICES ASSUME NEW j \in 1..(n + 1), frames'[j].entered
               PROVE  frames'[j].live <= frames'[j].size
    BY <1>9 DEF LiveInFrame
  <2>1. CASE j = n + 1
    BY <2>1, <1>5, <1>6, <1>9
  <2>2. CASE j = C
    BY <2>2, <1>5, <1>7, <1>9 DEF Same
  <2>3. CASE j # n + 1 /\ j # C
    <3>1. j \in DOMAIN frames /\ frames'[j] = frames[j]
      <4>1. j \in 1..n /\ j # C
        BY <2>3
      <4>2. DOMAIN frames = 1..n
        BY <1>2, <1>3
      <4> QED BY <4>1, <4>2, <1>9
    <3> QED BY <3>1 DEF StacksIInv, LiveInFrame
  <2> QED BY <2>1, <2>2, <2>3
<1>14. \A j \in 1..Execution.frameTop : Same(frames'[j], frames[j])
  BY <1>3, <1>10
<1>15. /\ n + 1 \in Nat /\ n + 1 \in 1..Len(frames') /\ Execution.frameTop < n + 1
       /\ evalTop' \in Nat
       /\ evalTop' = frames'[n + 1].base + frames'[n + 1].size
  <2>1. n + 1 \in Nat /\ n + 1 \in 1..Len(frames') /\ Execution.frameTop < n + 1
    BY <1>3, <1>9
  <2>2. frames'[n + 1].base = base /\ frames'[n + 1].size = MaxStack[m]
    BY <1>6, <1>9
  <2> QED BY <2>1, <2>2, <1>5, <1>8
<1>16. \A j \in 1..Len(frames') : n + 1 < j => ~frames'[j].entered
  BY <1>9
<1> HIDE DEF Call
<1> QED BY <1>3, <1>8, <1>9, <1>11, <1>12, <1>13, <1>14, <1>15, <1>16, StepInside

(* A frame calls a method without room for its slots. *)
LEMMA CallOverflowsKeeps ==
    ASSUME StacksIInv, NEW m \in Methods, NEW offset \in 0..EvalSlots, CallOverflows(m, offset)
    PROVE  StacksIInv'
<1>1. PICK C \in Nat : C = Current
  BY Innermost DEF CallOverflows, CallsAt, InManagedCode
<1>2. PICK n \in Nat : n = Len(frames)
  BY TypeParts
<1>3. /\ executes # <<>> /\ C \in 1..n /\ Execution.frameTop < C /\ Execution.frameTop \in Nat
      /\ evalTop \in Nat /\ frames \in Seq(Frames) /\ DOMAIN frames = 1..n
      /\ frames[C].entered => evalTop = frames[C].base + frames[C].size
      /\ \A j \in 1..n : C < j => ~frames[j].entered
  BY <1>1, <1>2, Innermost, TypeParts DEF CallOverflows, CallsAt, InManagedCode
<1>4. PICK slot \in Frames : ~slot.entered /\ frames' = Append(frames, slot)
  <2>1. [base |-> 0, size |-> 0, live |-> 0, oldTop |-> evalTop,
         caller |-> C, entered |-> FALSE] \in Frames
    BY <1>3 DEF Frames
  <2> QED BY <2>1, <1>1 DEF CallOverflows
<1>5. /\ frames' \in Seq(Frames) /\ Len(frames') = n + 1 /\ DOMAIN frames' = 1..(n + 1)
      /\ ~frames'[n + 1].entered
      /\ \A j \in 1..n : frames'[j] = frames[j]
  BY <1>2, <1>3, <1>4
<1>6. evalTop' = evalTop /\ executes' = executes
  BY DEF CallOverflows
<1>7. executes' = ContinueWith(C)
  <2>1. PICK L \in DOMAIN executes : L = Len(executes) /\ executes \in Seq(Executes)
    BY <1>3, Innermost, TypeParts
  <2>2. executes[L] \in Executes /\ executes[L].frame = C
    BY <2>1, <1>1 DEF Current, Execution
  <2>3. [executes[L] EXCEPT !.frame = C] = executes[L]
    BY <2>2 DEF Executes
  <2> QED BY <2>1, <2>3, <1>6 DEF ContinueWith
<1>8. LiveSlotsKept'
  <2> SUFFICES ASSUME NEW j \in 1..(n + 1), frames'[j].entered
               PROVE  /\ frames'[j].base + frames'[j].size <= EvalSlots
                      /\ \A i \in 1..(j - 1) : frames'[i].entered =>
                             frames'[i].base + frames'[i].live <= frames'[j].base
    BY <1>5 DEF LiveSlotsKept
  <2>1. j \in 1..n /\ \A i \in 1..(j - 1) : i \in 1..n
    BY <1>5
  <2>2. frames'[j] = frames[j] /\ \A i \in 1..(j - 1) : frames'[i] = frames[i]
    BY <2>1, <1>5
  <2> QED BY <2>1, <2>2, <1>3 DEF StacksIInv, LiveSlotsKept
<1>9. FramesLinked'
  <2> SUFFICES ASSUME NEW j \in 1..(n + 1), j - 1 \in 1..(n + 1),
                      frames'[j].entered,
                      \A i \in DOMAIN executes' : j # executes'[i].frameTop + 1,
                      frames'[j - 1].entered
               PROVE  /\ frames'[j].oldTop = frames'[j - 1].base + frames'[j - 1].size
                      /\ frames'[j].caller = j - 1
    BY <1>5 DEF FramesLinked
  <2>1. j \in 1..n /\ j - 1 \in 1..n
    BY <1>5
  <2>2. frames'[j] = frames[j] /\ frames'[j - 1] = frames[j - 1]
    BY <2>1, <1>5
  <2> QED BY <2>1, <2>2, <1>3, <1>6 DEF StacksIInv, FramesLinked
<1>10. LiveInFrame'
  <2> SUFFICES ASSUME NEW j \in 1..(n + 1), frames'[j].entered
               PROVE  frames'[j].live <= frames'[j].size
    BY <1>5 DEF LiveInFrame
  <2>1. j \in 1..n
    BY <1>5
  <2> QED BY <2>1, <1>3, <1>5 DEF StacksIInv, LiveInFrame
<1>11. \A j \in 1..Execution.frameTop : Same(frames'[j], frames[j])
  BY <1>3, <1>5 DEF Same
<1>12. /\ C \in 1..Len(frames') /\ evalTop' \in Nat
       /\ frames'[C].entered => evalTop' = frames'[C].base + frames'[C].size
       /\ \A j \in 1..Len(frames') : C < j => ~frames'[j].entered
  <2>1. frames'[C] = frames[C] /\ C \in 1..Len(frames')
    BY <1>3, <1>5
  <2>2. \A j \in 1..Len(frames') : C < j => ~frames'[j].entered
    BY <1>3, <1>5
  <2> QED BY <2>1, <2>2, <1>3, <1>6
<1> QED BY <1>3, <1>5, <1>7, <1>8, <1>9, <1>10, <1>11, <1>12, StepInside

(* A frame is left for the one below. *)
LEMMA LeaveFrameKeeps ==
    ASSUME StacksIInv, LeaveFrame
    PROVE  StacksIInv'
<1>1. PICK C \in Nat : C = Current
  BY Innermost DEF LeaveFrame, InManagedCode
<1>2. PICK n \in Nat : n = Len(frames)
  BY TypeParts
<1>3. PICK top \in Nat : top = Execution.frameTop
  BY Innermost DEF LeaveFrame, InManagedCode
<1>4. /\ executes # <<>> /\ Running
      /\ C \in 1..n /\ frames[C].entered /\ frames[C] \in Frames
      /\ frames \in Seq(Frames) /\ DOMAIN frames = 1..n
  BY <1>1, <1>2, Innermost, TypeParts DEF LeaveFrame, InManagedCode, Running
<1>5. top + 1 < C
  BY <1>1, <1>3 DEF LeaveFrame, LeavesExecute
<1>6. PICK p \in 1..(n - 1) : p = C - 1
  BY <1>4, <1>5
<1>7. frames[p] \in Frames /\ p \in 1..n /\ top < p /\ p \in Nat
  BY <1>4, <1>5, <1>6
<1>8. PICK caller \in Frames :
          /\ caller = [frames[p] EXCEPT !.live = frames[p].size]
          /\ Same(caller, frames[p]) /\ caller.live = frames[p].size
  BY <1>7, FrameType, LiveOnly
<1>9. /\ frames' \in Seq(Frames) /\ Len(frames') = p /\ DOMAIN frames' = 1..p
      /\ frames'[p] = caller
      /\ \A j \in 1..p : j # p => frames'[j] = frames[j]
  <2>0. /\ SubSeq(frames, 1, p) \in Seq(Frames) /\ Len(SubSeq(frames, 1, p)) = p
        /\ \A j \in 1..p : SubSeq(frames, 1, p)[j] = frames[j]
    BY <1>2, <1>4, <1>7
  <2>1. PICK rest \in Seq(Frames) : rest = SubSeq(frames, 1, p)
    BY <2>0
  <2>2. Len(rest) = p /\ \A j \in 1..p : rest[j] = frames[j]
    BY <2>0, <2>1
  <2>3. frames' = [rest EXCEPT ![p] = caller]
    <3>1. frames' = [rest EXCEPT ![p].live = frames[p].size]
      BY <2>1, <1>1, <1>6 DEF LeaveFrame
    <3>2. rest[p] = frames[p]
      BY <2>2, <1>7
    <3> QED BY <3>1, <3>2, <1>8
  <2>4. p \in 1..p
    BY <1>7
  <2> QED BY <2>2, <2>3, <2>4
<1>10. \A j \in 1..p : Same(frames'[j], frames[j])
  BY <1>8, <1>9 DEF Same
<1>11. executes' = ContinueWith(p) /\ evalTop' = frames[C].oldTop /\ evalTop' \in Nat
  BY <1>1, <1>4, <1>6, FrameType DEF LeaveFrame
<1>12. LiveSlotsKept'
  <2> SUFFICES ASSUME NEW j \in 1..p, frames'[j].entered
               PROVE  /\ frames'[j].base + frames'[j].size <= EvalSlots
                      /\ \A i \in 1..(j - 1) : frames'[i].entered =>
                             frames'[i].base + frames'[i].live <= frames'[j].base
    BY <1>9 DEF LiveSlotsKept
  <2>1. Same(frames'[j], frames[j]) /\ \A i \in 1..(j - 1) : frames'[i] = frames[i]
    BY <1>7, <1>9, <1>10
  <2>2. j \in DOMAIN frames /\ frames[j].entered
    BY <2>1, <1>4, <1>7 DEF Same
  <2>3. /\ frames[j].base + frames[j].size <= EvalSlots
        /\ \A i \in 1..(j - 1) : frames[i].entered =>
               frames[i].base + frames[i].live <= frames[j].base
    BY <2>2 DEF StacksIInv, LiveSlotsKept
  <2> QED BY <2>1, <2>3 DEF Same
<1>13. FramesLinked'
  <2> SUFFICES ASSUME NEW j \in 1..p, j - 1 \in 1..p,
                      frames'[j].entered, frames'[j - 1].entered,
                      \A i \in DOMAIN executes' : j # executes'[i].frameTop + 1
               PROVE  /\ frames'[j].oldTop = frames'[j - 1].base + frames'[j - 1].size
                      /\ frames'[j].caller = j - 1
    BY <1>9 DEF FramesLinked
  <2>1. /\ j \in DOMAIN frames /\ j - 1 \in DOMAIN frames
        /\ Same(frames'[j], frames[j]) /\ Same(frames'[j - 1], frames[j - 1])
    BY <1>4, <1>7, <1>10
  <2>2. \A i \in DOMAIN executes : j # executes[i].frameTop + 1
    <3>1. /\ DOMAIN executes' = DOMAIN executes
          /\ \A i \in DOMAIN executes : executes'[i].frameTop = executes[i].frameTop
      BY <1>4, <1>7, <1>11, TopsKept
    <3> QED BY <3>1
  <2> QED BY <2>1, <2>2 DEF StacksIInv, FramesLinked, Same
<1>14. LiveInFrame'
  <2> SUFFICES ASSUME NEW j \in 1..p, frames'[j].entered
               PROVE  frames'[j].live <= frames'[j].size
    BY <1>9 DEF LiveInFrame
  <2>1. CASE j = p
    <3>1. frames'[j].live = frames'[j].size /\ frames[p].size \in Nat
      BY <2>1, <1>7, <1>8, <1>9, FrameType DEF Same
    <3> QED BY <3>1, <2>1, <1>8, <1>9
  <2>2. CASE j # p
    <3>1. j \in DOMAIN frames /\ frames'[j] = frames[j]
      BY <2>2, <1>4, <1>7, <1>9
    <3> QED BY <3>1 DEF StacksIInv, LiveInFrame
  <2> QED BY <2>1, <2>2
<1>15. \A j \in 1..Execution.frameTop : Same(frames'[j], frames[j])
  BY <1>3, <1>7, <1>10
<1>16. frames'[p].entered => evalTop' = frames'[p].base + frames'[p].size
  <2> SUFFICES ASSUME frames'[p].entered
               PROVE  frames[C].oldTop = frames[p].base + frames[p].size
    BY <1>7, <1>10, <1>11 DEF Same
  <2>1. frames[p].entered /\ p = C - 1 /\ C \in DOMAIN frames /\ p \in DOMAIN frames
    BY <1>4, <1>6, <1>7, <1>10 DEF Same
  <2>2. ASSUME NEW i \in DOMAIN executes PROVE C # executes[i].frameTop + 1
    BY <2>2, <1>3, <1>4, <1>5, TopIsLargest
  <2> QED BY <2>1, <2>2, <1>4 DEF StacksIInv, FramesLinked
<1>17. p \in 1..Len(frames') /\ Execution.frameTop < p
       /\ \A j \in 1..Len(frames') : p < j => ~frames'[j].entered
  BY <1>3, <1>7, <1>9
<1> QED BY <1>4, <1>7, <1>9, <1>11, <1>12, <1>13, <1>14, <1>15, <1>16, <1>17, StepInside
-----------------------------------------------------------------------------
(* Native code enters a frame. *)
LEMMA ExecuteKeeps ==
    ASSUME StacksAssumption, StacksIInv, NEW m \in Methods, Execute(m)
    PROVE  StacksIInv'
<1>1. PICK L \in Nat : L = Len(executes)
  BY TypeParts
<1>2. PICK n \in Nat : n = Len(frames)
  BY TypeParts
<1>3. /\ frames \in Seq(Frames) /\ DOMAIN frames = 1..n
      /\ executes \in Seq(Executes) /\ DOMAIN executes = 1..L
      /\ evalTop \in Nat /\ MaxStack[m] \in Nat /\ EvalSlots \in Nat
      /\ evalTop + MaxStack[m] <= EvalSlots
  BY <1>1, <1>2, TypeParts DEF Execute, StacksAssumption, ExecuteFits
<1>4. PICK new \in Frames :
          /\ new.base = evalTop /\ new.size = MaxStack[m] /\ new.live = MaxStack[m]
          /\ new.entered
          /\ new = NewFrame(evalTop, MaxStack[m], 0)
  BY <1>3 DEF NewFrame, Frames
<1>5. PICK exec \in Executes :
          /\ exec.frameTop = n /\ exec.evalTop = evalTop /\ exec.frame = n + 1
          /\ exec = [frameTop |-> n, evalTop |-> evalTop, frame |-> n + 1]
  <2>1. [frameTop |-> n, evalTop |-> evalTop, frame |-> n + 1] \in Executes
    BY <1>2, <1>3 DEF Executes
  <2> QED BY <2>1
<1>6. /\ frames' = Append(frames, new) /\ executes' = Append(executes, exec)
      /\ evalTop' = evalTop + MaxStack[m]
  BY <1>2, <1>4, <1>5 DEF Execute
<1>7. /\ frames' \in Seq(Frames) /\ Len(frames') = n + 1 /\ DOMAIN frames' = 1..(n + 1)
      /\ frames'[n + 1] = new
      /\ \A j \in 1..n : frames'[j] = frames[j]
  BY <1>2, <1>3, <1>6
<1>8. /\ executes' \in Seq(Executes) /\ Len(executes') = L + 1
      /\ DOMAIN executes' = 1..(L + 1)
      /\ executes'[L + 1] = exec
      /\ \A i \in 1..L : executes'[i] = executes[i]
  BY <1>1, <1>3, <1>6
<1>9. \A i \in 1..L : EvalTopOf(i)' = EvalTopOf(i) /\ FrameTopOf(i)' = FrameTopOf(i)
  <2> SUFFICES ASSUME NEW i \in 1..L
               PROVE  EvalTopOf(i)' = EvalTopOf(i) /\ FrameTopOf(i)' = FrameTopOf(i)
    OBVIOUS
  <2>1. CASE i = L
    BY <2>1, <1>1, <1>2, <1>5, <1>8 DEF EvalTopOf, FrameTopOf
  <2>2. CASE i # L
    <3>1. i + 1 \in 1..L /\ i # L + 1
      BY <2>2
    <3>2. executes'[i + 1] = executes[i + 1]
      BY <3>1, <1>8
    <3> QED BY <2>2, <3>1, <3>2, <1>1, <1>8 DEF EvalTopOf, FrameTopOf
  <2> QED BY <2>1, <2>2
<1>10. EvalTopOf(Len(executes))' = evalTop' /\ FrameTopOf(Len(executes))' = n + 1
  BY <1>7 DEF EvalTopOf, FrameTopOf
<1>11. \A j \in 1..n : frames[j].entered =>
           executes # <<>> /\ frames[j].base + frames[j].live <= evalTop
  <2> SUFFICES ASSUME NEW j \in 1..n, frames[j].entered
               PROVE  executes # <<>> /\ frames[j].base + frames[j].live <= evalTop
    OBVIOUS
  <2>1. executes # <<>>
    BY <1>2, <1>3, NoExecuteNoFrame
  <2> QED BY <2>1, <1>2, LiveBelow DEF Execute
<1>12. \A i \in 1..L : /\ executes[i].frame \in 1..n
                       /\ FrameTopOf(i) \in Nat /\ FrameTopOf(i) <= n
  BY <1>2, <1>3, TopsInStack DEF StacksIInv
<1>13. StacksTypeOK'
  BY <1>3, <1>6, <1>7, <1>8 DEF StacksTypeOK
<1>14. LiveSlotsKept'
  <2> SUFFICES ASSUME NEW j \in 1..(n + 1), frames'[j].entered
               PROVE  /\ frames'[j].base + frames'[j].size <= EvalSlots
                      /\ \A i \in 1..(j - 1) : frames'[i].entered =>
                             frames'[i].base + frames'[i].live <= frames'[j].base
    BY <1>7 DEF LiveSlotsKept
  <2>1. CASE j = n + 1
    BY <2>1, <1>3, <1>4, <1>7, <1>11
  <2>2. CASE j # n + 1
    <3>1. j \in 1..n /\ \A i \in 1..(j - 1) : i \in 1..n
      BY <2>2
    <3>2. frames'[j] = frames[j] /\ \A i \in 1..(j - 1) : frames'[i] = frames[i]
      BY <3>1, <1>7
    <3> QED BY <3>1, <3>2, <1>3 DEF StacksIInv, LiveSlotsKept
  <2> QED BY <2>1, <2>2
<1>15. StacksBalanced'
  <2> SUFFICES ASSUME NEW i \in 1..(L + 1)
               PROVE  /\ executes'[i].frameTop < executes'[i].frame
                      /\ executes'[i].frame <= FrameTopOf(i)'
                      /\ frames'[executes'[i].frame].entered =>
                             EvalTopOf(i)' = frames'[executes'[i].frame].base
                                                 + frames'[executes'[i].frame].size
    <3>1. executes' # <<>>
      BY <1>8
    <3> QED BY <3>1, <1>8 DEF StacksBalanced
  <2>1. CASE i = L + 1
    <3>1. EvalTopOf(i)' = evalTop' /\ FrameTopOf(i)' = n + 1
      BY <2>1, <1>7, <1>8 DEF EvalTopOf, FrameTopOf
    <3> QED BY <2>1, <3>1, <1>4, <1>5, <1>6, <1>7, <1>8
  <2>2. CASE i # L + 1
    <3>1. i \in 1..L /\ executes'[i] = executes[i]
      BY <2>2, <1>8
    <3>2. /\ executes[i].frameTop < executes[i].frame
          /\ executes[i].frame <= FrameTopOf(i)
          /\ frames[executes[i].frame].entered =>
                 EvalTopOf(i) = frames[executes[i].frame].base + frames[executes[i].frame].size
      BY <3>1, <1>3 DEF StacksIInv, StacksBalanced
    <3>3. frames'[executes[i].frame] = frames[executes[i].frame]
      BY <3>1, <1>7, <1>12
    <3> QED BY <3>1, <3>2, <3>3, <1>9
  <2> QED BY <2>1, <2>2
<1>16. TopsOrdered'
  <2> SUFFICES ASSUME NEW i \in 1..(L + 1), NEW j \in 1..(L + 1), i < j
               PROVE  executes'[i].frame <= executes'[j].frameTop
    BY <1>8 DEF TopsOrdered
  <2>1. i \in 1..L /\ executes'[i] = executes[i]
    BY <1>8
  <2>2. CASE j = L + 1
    BY <2>1, <2>2, <1>5, <1>8, <1>12
  <2>3. CASE j # L + 1
    <3>1. j \in 1..L /\ executes'[j] = executes[j]
      BY <2>3, <1>8
    <3> QED BY <2>1, <3>1, <1>3 DEF StacksIInv, TopsOrdered
  <2> QED BY <2>2, <2>3
<1>17. NothingAbove'
  <2> SUFFICES ASSUME NEW i \in 1..(L + 1), NEW j \in 1..(n + 1),
                      executes'[i].frame < j, j <= FrameTopOf(i)'
               PROVE  ~frames'[j].entered
    BY <1>7, <1>8 DEF NothingAbove
  <2>1. CASE i = L + 1
    BY <2>1, <1>5, <1>8
  <2>2. CASE i # L + 1
    <3>1. i \in 1..L /\ executes'[i] = executes[i] /\ FrameTopOf(i)' = FrameTopOf(i)
      BY <2>2, <1>8, <1>9
    <3>2. j \in 1..n /\ frames'[j] = frames[j]
      BY <3>1, <1>7, <1>12
    <3> QED BY <3>1, <3>2, <1>3 DEF StacksIInv, NothingAbove
  <2> QED BY <2>1, <2>2
<1>18. FramesLinked'
  <2> SUFFICES ASSUME NEW j \in 1..(n + 1), j - 1 \in 1..(n + 1),
                      frames'[j].entered, frames'[j - 1].entered,
                      \A i \in 1..(L + 1) : j # executes'[i].frameTop + 1
               PROVE  /\ frames'[j].oldTop = frames'[j - 1].base + frames'[j - 1].size
                      /\ frames'[j].caller = j - 1
    BY <1>7, <1>8 DEF FramesLinked
  <2>1. j # n + 1
    BY <1>5, <1>8
  <2>2. /\ j \in 1..n /\ j - 1 \in 1..n
        /\ frames'[j] = frames[j] /\ frames'[j - 1] = frames[j - 1]
    BY <2>1, <1>7
  <2>3. \A i \in 1..L : j # executes[i].frameTop + 1
    BY <1>8
  <2> QED BY <2>2, <2>3, <1>3 DEF StacksIInv, FramesLinked
<1>19. LiveInFrame'
  <2> SUFFICES ASSUME NEW j \in 1..(n + 1), frames'[j].entered
               PROVE  frames'[j].live <= frames'[j].size
    BY <1>7 DEF LiveInFrame
  <2>1. CASE j = n + 1
    BY <2>1, <1>3, <1>4, <1>7
  <2>2. CASE j # n + 1
    <3>1. j \in 1..n /\ frames'[j] = frames[j]
      BY <2>2, <1>7
    <3>2. j \in DOMAIN frames /\ frames[j].entered
      BY <3>1, <1>3
    <3> QED BY <3>1, <3>2 DEF StacksIInv, LiveInFrame
  <2> QED BY <2>1, <2>2
<1>20. FirstExecute'
  <2>1. CASE L = 0
    <3>1. executes = <<>>
      BY <2>1, <1>1, <1>3
    <3>2. n = 0 /\ evalTop = 0
      BY <3>1, <1>2, NoExecuteNoFrame
    <3> QED BY <2>1, <3>2, <1>5, <1>8 DEF FirstExecute
  <2>2. CASE L # 0
    <3>1. executes'[1] = executes[1] /\ executes # <<>>
      BY <2>2, <1>1, <1>8
    <3> QED BY <3>1 DEF StacksIInv, FirstExecute
  <2> QED BY <2>1, <2>2
<1> QED BY <1>13, <1>14, <1>15, <1>16, <1>17, <1>18, <1>19, <1>20 DEF StacksIInv

(* The first frame of an execute() is left, and its save point restored. *)
LEMMA LeaveExecuteKeeps ==
    ASSUME StacksIInv, LeaveExecute
    PROVE  StacksIInv'
<1>1. PICK L \in Nat : L = Len(executes)
  BY TypeParts
<1>2. executes # <<>> /\ L \in 1..L
  BY <1>1, Innermost DEF LeaveExecute, InManagedCode
<1>3. PICK n \in Nat : n = Len(frames)
  BY TypeParts
<1>4. /\ frames \in Seq(Frames) /\ DOMAIN frames = 1..n
      /\ executes \in Seq(Executes) /\ DOMAIN executes = 1..L
  BY <1>1, <1>3, TypeParts
<1>5. PICK top \in 0..n : top = executes[L].frameTop
  BY <1>1, <1>2, <1>3, Innermost DEF Execution
<1>6. evalTop' = executes[L].evalTop /\ evalTop' \in Nat
  BY <1>1, <1>2, Innermost DEF LeaveExecute, Execution
<1>7. /\ frames' \in Seq(Frames) /\ Len(frames') = top /\ DOMAIN frames' = 1..top
      /\ \A j \in 1..top : frames'[j] = frames[j] /\ j \in 1..n
  <2>1. frames' = SubSeq(frames, 1, top)
    BY <1>1, <1>5 DEF LeaveExecute, Execution
  <2> QED BY <2>1, <1>3, <1>4, <1>5
<1>8. /\ executes' \in Seq(Executes) /\ Len(executes') = L - 1
      /\ DOMAIN executes' = 1..(L - 1)
      /\ \A i \in 1..(L - 1) : executes'[i] = executes[i] /\ i \in 1..L
  <2>1. executes' = SubSeq(executes, 1, L - 1)
    BY <1>1 DEF LeaveExecute, Front
  <2> QED BY <2>1, <1>1, <1>2, <1>4
<1>9. \A i \in 1..(L - 1) : EvalTopOf(i)' = EvalTopOf(i) /\ FrameTopOf(i)' = FrameTopOf(i)
  <2> SUFFICES ASSUME NEW i \in 1..(L - 1)
               PROVE  EvalTopOf(i)' = EvalTopOf(i) /\ FrameTopOf(i)' = FrameTopOf(i)
    OBVIOUS
  <2>1. CASE i = L - 1
    <3>1. i + 1 = L /\ i # L
      BY <2>1
    <3> QED BY <2>1, <3>1, <1>1, <1>5, <1>6, <1>7, <1>8 DEF EvalTopOf, FrameTopOf
  <2>2. CASE i # L - 1
    <3>1. i + 1 \in 1..(L - 1) /\ i # L
      BY <2>2
    <3>2. executes'[i + 1] = executes[i + 1]
      BY <3>1, <1>8
    <3> QED BY <2>2, <3>1, <3>2, <1>1, <1>8 DEF EvalTopOf, FrameTopOf
  <2> QED BY <2>1, <2>2
<1>10. \A i \in 1..(L - 1) : /\ executes[i].frame \in 1..top
                             /\ i \in DOMAIN executes
  <2> SUFFICES ASSUME NEW i \in 1..(L - 1)
               PROVE  executes[i].frame \in 1..top /\ i \in DOMAIN executes
    OBVIOUS
  <2>1. i \in DOMAIN executes /\ L \in DOMAIN executes /\ i < L
    BY <1>2, <1>4
  <2>2. executes[i].frame <= top
    BY <2>1, <1>5 DEF StacksIInv, TopsOrdered
  <2>3. executes[i].frame \in 1..n
    BY <2>1, <1>3, TopsInStack DEF StacksIInv
  <2> QED BY <2>1, <2>2, <2>3
<1>11. StacksTypeOK'
  BY <1>6, <1>7, <1>8 DEF StacksTypeOK
<1>12. LiveSlotsKept'
  <2> SUFFICES ASSUME NEW j \in 1..top, frames'[j].entered
               PROVE  /\ frames'[j].base + frames'[j].size <= EvalSlots
                      /\ \A i \in 1..(j - 1) : frames'[i].entered =>
                             frames'[i].base + frames'[i].live <= frames'[j].base
    BY <1>7 DEF LiveSlotsKept
  <2>1. j \in 1..n /\ frames'[j] = frames[j] /\ \A i \in 1..(j - 1) : frames'[i] = frames[i]
    BY <1>7
  <2> QED BY <2>1, <1>4 DEF StacksIInv, LiveSlotsKept
<1>13. StacksBalanced'
  <2>1. ASSUME executes' = <<>> PROVE frames' = <<>> /\ evalTop' = 0
    <3>1. L = 1
      BY <2>1, <1>2, <1>8
    <3>2. top = 0 /\ evalTop' = 0
      BY <3>1, <1>2, <1>5, <1>6 DEF StacksIInv, FirstExecute
    <3> QED BY <3>2, <1>7
  <2>2. ASSUME NEW i \in 1..(L - 1)
        PROVE  /\ executes'[i].frameTop < executes'[i].frame
               /\ executes'[i].frame <= FrameTopOf(i)'
               /\ frames'[executes'[i].frame].entered =>
                      EvalTopOf(i)' = frames'[executes'[i].frame].base
                                          + frames'[executes'[i].frame].size
    <3>1. executes'[i] = executes[i] /\ frames'[executes[i].frame] = frames[executes[i].frame]
      BY <1>7, <1>8, <1>10
    <3>2. /\ executes[i].frameTop < executes[i].frame
          /\ executes[i].frame <= FrameTopOf(i)
          /\ frames[executes[i].frame].entered =>
                 EvalTopOf(i) = frames[executes[i].frame].base + frames[executes[i].frame].size
      BY <1>10 DEF StacksIInv, StacksBalanced
    <3> QED BY <3>1, <3>2, <1>9
  <2> QED BY <2>1, <2>2, <1>8 DEF StacksBalanced
<1>14. TopsOrdered'
  <2> SUFFICES ASSUME NEW i \in 1..(L - 1), NEW j \in 1..(L - 1), i < j
               PROVE  executes'[i].frame <= executes'[j].frameTop
    BY <1>8 DEF TopsOrdered
  <2>1. executes'[i] = executes[i] /\ executes'[j] = executes[j]
    BY <1>8
  <2> QED BY <2>1, <1>10 DEF StacksIInv, TopsOrdered
<1>15. NothingAbove'
  <2> SUFFICES ASSUME NEW i \in 1..(L - 1), NEW j \in 1..top,
                      executes'[i].frame < j, j <= FrameTopOf(i)'
               PROVE  ~frames'[j].entered
    BY <1>7, <1>8 DEF NothingAbove
  <2>1. executes'[i] = executes[i] /\ FrameTopOf(i)' = FrameTopOf(i)
    BY <1>8, <1>9
  <2>2. j \in DOMAIN frames /\ frames'[j] = frames[j]
    BY <1>4, <1>7
  <2> QED BY <2>1, <2>2, <1>10 DEF StacksIInv, NothingAbove
<1>16. FramesLinked'
  <2> SUFFICES ASSUME NEW j \in 1..top, j - 1 \in 1..top,
                      frames'[j].entered, frames'[j - 1].entered,
                      \A i \in 1..(L - 1) : j # executes'[i].frameTop + 1
               PROVE  /\ frames'[j].oldTop = frames'[j - 1].base + frames'[j - 1].size
                      /\ frames'[j].caller = j - 1
    BY <1>7, <1>8 DEF FramesLinked
  <2>1. /\ j \in DOMAIN frames /\ j - 1 \in DOMAIN frames
        /\ frames'[j] = frames[j] /\ frames'[j - 1] = frames[j - 1]
    BY <1>4, <1>7
  <2>2. ASSUME NEW i \in 1..L PROVE j # executes[i].frameTop + 1
    <3>1. CASE i = L
      BY <3>1, <1>5
    <3>2. CASE i # L
      BY <3>2, <1>8
    <3> QED BY <3>1, <3>2
  <2> QED BY <2>1, <2>2, <1>4 DEF StacksIInv, FramesLinked
<1>17. LiveInFrame'
  BY <1>4, <1>7 DEF StacksIInv, LiveInFrame
<1>18. FirstExecute'
  <2> SUFFICES ASSUME executes' # <<>>
               PROVE  executes'[1].frameTop = 0 /\ executes'[1].evalTop = 0
    BY DEF FirstExecute
  <2>1. 1 \in 1..(L - 1)
    BY <1>2, <1>8
  <2> QED BY <2>1, <1>2, <1>8 DEF StacksIInv, FirstExecute
<1> QED BY <1>11, <1>12, <1>13, <1>14, <1>15, <1>16, <1>17, <1>18 DEF StacksIInv
-----------------------------------------------------------------------------
(* Nothing changes. *)
LEMMA StacksUnchanged ==
    ASSUME StacksIInv, UNCHANGED stackVars
    PROVE  StacksIInv'
  BY DEF StacksIInv, StacksTypeOK, LiveSlotsKept, StacksBalanced, TopsOrdered, NothingAbove,
         FramesLinked, LiveInFrame, FirstExecute, EvalTopOf, FrameTopOf, stackVars

(* Every step keeps the invariant. *)
LEMMA StacksStep ==
    ASSUME StacksAssumption, StacksIInv, [StacksNext]_stackVars
    PROVE  StacksIInv'
  BY ExecuteKeeps, CallKeeps, CallOverflowsKeeps, LeaveFrameKeeps, LeaveExecuteKeeps,
     StacksUnchanged DEF StacksNext

(* A step that lowers the current frame is LeaveFrame's, and the slot      *)
(* below is the caller's or was never filled.                              *)
LEMMA StepResumesCaller ==
    ASSUME StacksAssumption, StacksIInv, [StacksNext]_stackVars,
           executes # <<>>, Len(executes') = Len(executes), Current' < Current
    PROVE  Current' = frames[Current].caller \/ ~frames'[Current'].entered
<1>1. PICK L \in Nat : L = Len(executes) /\ L = Len(executes') /\ L \in DOMAIN executes
  BY Innermost
<1>2. /\ executes \in Seq(Executes) /\ frames \in Seq(Frames) /\ Len(frames) \in Nat
      /\ Current \in 1..Len(frames)
  BY Innermost, TypeParts
<1>3. ASSUME NEW c \in Nat, executes' = ContinueWith(c)
      PROVE  Current' = c
  <2>1. executes[L] \in Executes /\ executes' = [executes EXCEPT ![L].frame = c]
    BY <1>1, <1>2, <1>3 DEF ContinueWith
  <2>2. executes'[L].frame = c
    BY <2>1, <1>1 DEF Executes
  <2> QED BY <2>2, <1>1 DEF Current, Execution
<1>4. CASE \E m \in Methods : Execute(m)
  <2>1. PICK e : executes' = Append(executes, e)
    BY <1>4 DEF Execute
  <2>2. Len(executes') = L + 1
    BY <2>1, <1>1, <1>2
  <2> QED BY <2>2, <1>1
<1>5. CASE \E m \in Methods : \E offset \in 0..EvalSlots : Call(m, offset)
  <2>1. executes' = ContinueWith(Len(frames) + 1) /\ Len(frames) + 1 \in Nat
    BY <1>2, <1>5 DEF Call
  <2>2. Current' = Len(frames) + 1
    BY <2>1, <1>3
  <2> QED BY <2>2, <1>2
<1>6. CASE \E m \in Methods : \E offset \in 0..EvalSlots : CallOverflows(m, offset)
  <2>1. executes' = executes
    BY <1>6 DEF CallOverflows
  <2> QED BY <2>1, <1>2 DEF Current, Execution
<1>7. CASE LeaveFrame
  <2>1. PICK p \in Nat : p = Current - 1
    BY <1>2
  <2>2. Current' = p
    BY <2>1, <1>3, <1>7 DEF LeaveFrame
  <2>3. /\ Current \in DOMAIN frames /\ frames[Current].entered
        /\ Execution.frameTop + 1 < Current /\ Execution.frameTop \in Nat
    BY <1>2, <1>7, Innermost DEF LeaveFrame, InManagedCode, Running, LeavesExecute
  <2>4. p \in DOMAIN frames
    BY <2>1, <2>3, <1>2
  <2>5. ASSUME NEW i \in DOMAIN executes PROVE Current # executes[i].frameTop + 1
    BY <2>3, <2>5, TopIsLargest
  <2>6. ~frames[p].entered \/ frames[Current].caller = Current - 1
    BY <2>1, <2>3, <2>4, <2>5 DEF StacksIInv, FramesLinked
  <2>7. frames'[p].entered => frames[p].entered
    <3>1. frames' = [SubSeq(frames, 1, p) EXCEPT ![p].live = frames[p].size]
      BY <2>1, <1>7 DEF LeaveFrame
    <3>2. /\ SubSeq(frames, 1, p) \in Seq(Frames) /\ Len(SubSeq(frames, 1, p)) = p
          /\ SubSeq(frames, 1, p)[p] = frames[p] /\ p \in DOMAIN SubSeq(frames, 1, p)
      BY <2>4, <1>2
    <3>3. frames[p] \in Frames
      BY <2>4, <1>2
    <3>4. frames'[p] = [frames[p] EXCEPT !.live = frames[p].size]
      BY <3>1, <3>2
    <3> QED BY <3>3, <3>4 DEF Frames
  <2> QED BY <2>1, <2>2, <2>6, <2>7
<1>8. CASE LeaveExecute
  <2>1. Len(executes') = L - 1
    BY <1>1, <1>2, <1>8 DEF LeaveExecute, Front
  <2> QED BY <2>1, <1>1
<1>9. CASE UNCHANGED stackVars
  BY <1>2, <1>9 DEF stackVars, Current, Execution
<1> QED BY <1>4, <1>5, <1>6, <1>7, <1>8, <1>9 DEF StacksNext

(* The stacks alone, whatever runs on them *)
THEOREM StacksInvariance == StacksSpec => []StacksIInv
<1>1. StacksInit => StacksIInv
  BY StacksInitially
<1>2. StacksIInv /\ [StacksNext]_stackVars => StacksIInv'
  BY StacksAssumption, StacksStep
<1> QED BY <1>1, <1>2, PTL DEF StacksSpec
------------------------------------------------------------------------------
(***************************************************************************)
(* What the flags of static constructors promise, for every set of classes *)
(* and modules and every use the program makes of them.                    *)
(*                                                                         *)
(* The invariant says of each call in progress what it relies on: of the   *)
(* innermost one what the next step needs, of a suspended one that the     *)
(* call above it is the one it made, which is what makes its next step's   *)
(* needs true when that call returns. A failure cuts the stack at a call   *)
(* of a constructor, which relies on nothing.                              *)
(***************************************************************************)

Started(k) == cctorStatus[k] # "NotInited"

Shape(c) ==
    /\ c.fn = "class" => c.of \in Classes /\ c.at \in {"enter", "load", "invoke", "body"}
    /\ c.fn = "hierarchy" => c.of \in Classes /\ c.at \in {"enter", "parent", "mark"}
    /\ c.fn = "module" => c.of \in Modules /\ c.at \in {"enter", "invoke", "body"}
    /\ c.at \in {"invoke", "body"} => c.of \in WithCctor
    /\ c.at = "body" => attempts[c.of] > 0
    /\ c.fn = "class" /\ c.at \in {"invoke", "body"} => Started(c.of)

(* The constructor of m has ended, or runs below the i-th call. *)
ModuleDone(m, i) ==
    \/ m \notin WithCctor
    \/ m \in ended
    \/ \E j \in 1..(i - 1) : calls[j].of = m /\ calls[j].at = "body"

ConstructorReady(i) ==
    calls[i].fn = "class" /\ calls[i].at \in {"invoke", "body"} =>
        ModuleDone(ModuleOf[calls[i].of], i)

(* A suspended call waits for the one above it, c. *)
WaitsFor(call, c) ==
    /\ call.at \in {"load", "parent", "mark", "body"}
    /\ call.at = "load" => c.fn = "module" /\ c.of = ModuleOf[call.of]
    /\ call.at = "parent" => c.fn = "class" /\ c.of = call.of
    /\ call.at = "mark" => Started(call.of) /\ c.fn = "hierarchy" /\ c.of = Parent[call.of]

(* What the innermost call has been given by those it made *)
Served(i) ==
    /\ calls[i].at = "load" => ModuleDone(ModuleOf[calls[i].of], i)
    /\ calls[i].at = "parent" => Started(calls[i].of)
    /\ calls[i].at = "mark" => /\ Started(calls[i].of)
                               /\ \/ Parent[calls[i].of] = NoClass
                                  \/ Started(Parent[calls[i].of])

CallsSound ==
    /\ \A i \in DOMAIN calls : Shape(calls[i]) /\ ConstructorReady(i)
    /\ \A i \in DOMAIN calls : IF i = Len(calls) THEN Served(i)
                               ELSE WaitsFor(calls[i], calls[i + 1])

ModulesEnd ==
    \A m \in Modules \cap WithCctor : moduleFinished[m] =>
        \/ m \in ended
        \/ \E j \in DOMAIN calls : calls[j].of = m /\ calls[j].at \in {"invoke", "body"}

AttemptedOrFirst ==
    \A k \in Classes \cap WithCctor : Started(k) =>
        \/ attempts[k] > 0
        \/ initFlags[k] = "failedEarly"
        \/ calls # <<>> /\ Top.of = k /\ Top.at = "invoke"

ClassesIInv ==
    /\ ClassesTypeOK
    /\ CallsSound
    /\ ModulesEnd
    /\ AttemptedOrFirst
    /\ ObjectsFollowParents
-----------------------------------------------------------------------------
(* A natural number to name n - 1 by, which the provers handle better *)
LEMMA Predecessor ==
    ASSUME NEW n \in Nat, n > 0
    PROVE  \E k \in Nat : k = n - 1
  OBVIOUS

(* One element of a sequence is replaced. *)
LEMMA Replaced ==
    ASSUME NEW S, NEW s \in Seq(S), NEW x \in S, NEW i \in 1..Len(s)
    PROVE  /\ [s EXCEPT ![i] = x] \in Seq(S) /\ Len([s EXCEPT ![i] = x]) = Len(s)
           /\ [s EXCEPT ![i] = x][i] = x
           /\ \A j \in 1..Len(s) : j # i => [s EXCEPT ![i] = x][j] = s[j]
  OBVIOUS

(* A bounded set of natural numbers has a greatest element. *)
LEMMA GreatestExists ==
    ASSUME NEW n \in Nat, NEW S \in SUBSET (0..n), S # {}
    PROVE  \E x \in S : \A y \in S : x >= y
<1> DEFINE T == {t \in 0..n : n - t \in S}
<1>1. T \subseteq Nat /\ T # {}
  <2>1. PICK s \in S : TRUE
    OBVIOUS
  <2>2. n - s \in T
    BY <2>1
  <2> QED BY <2>2
<1>2. \E t \in T : \A u \in T : ~(<<u, t>> \in OpToRel(<, Nat))
  BY <1>1, WFMin, NatLessThanWellFounded
<1>3. PICK t \in T : \A u \in T : ~(u < t)
  BY <1>1, <1>2 DEF OpToRel
<1>4. n - t \in S
  OBVIOUS
<1>5. ASSUME NEW y \in S PROVE n - t >= y
  <2>1. n - y \in T
    OBVIOUS
  <2>2. ~(n - y < t)
    BY <1>3, <2>1
  <2> QED BY <2>2, <1>3
<1> QED BY <1>4, <1>5

(* A failure leaves the calls up to a constructor's, or none. *)
LEMMA FailCuts ==
    ASSUME ClassesTypeOK, calls # <<>>
    PROVE  \E h \in 0..(Len(calls) - 1) :
               /\ Fail = SubSeq(calls, 1, h)
               /\ h = 0 \/ calls[h].at = "body"
               /\ \A i \in (h + 1)..(Len(calls) - 1) : calls[i].at # "body"
<1>1. PICK n \in Nat : n = Len(calls) - 1
  BY DEF ClassesTypeOK
<1> DEFINE B == {i \in 1..(Len(calls) - 1) : calls[i].at = "body"} \cup {0}
<1>2. B \in SUBSET (0..n) /\ B # {}
  BY <1>1
<1>3. PICK h \in B : \A y \in B : h >= y
  BY <1>2, GreatestExists
<1>4. Max(B) \in B /\ \A y \in B : Max(B) >= y
  BY <1>3 DEF Max
<1>5. Fail = SubSeq(calls, 1, Max(B))
  BY DEF Fail
<1>6. PICK max \in B : max = Max(B) /\ \A y \in B : max >= y
  BY <1>4
<1>7. max \in 0..(Len(calls) - 1) /\ (max = 0 \/ calls[max].at = "body")
  BY <1>1
<1>8. ASSUME NEW i \in (max + 1)..(Len(calls) - 1)
      PROVE  calls[i].at # "body"
  <2>1. i \in 1..(Len(calls) - 1) /\ ~(max >= i)
    BY <1>1, <1>7
  <2>2. i \notin B
    BY <1>6, <2>1
  <2> QED BY <2>1, <2>2
<1>9. Fail = SubSeq(calls, 1, max)
  BY <1>5, <1>6
<1> HIDE DEF B
<1> QED BY <1>7, <1>8, <1>9
-----------------------------------------------------------------------------
(* What no step takes back *)
Monotone ==
    /\ \A k \in Classes : Started(k) => cctorStatus'[k] # "NotInited"
    /\ \A c \in WithCctor : attempts[c] \in Nat /\ attempts'[c] \in Nat /\ attempts[c] <= attempts'[c]
    /\ ended \subseteq ended'

SameCall(c, d) == c.fn = d.fn /\ c.of = d.of

(* The lowest n calls are as they were, and so is what is above them.      *)
LEMMA KeptCalls ==
    ASSUME ClassesAssumption, ClassesIInv, Monotone,
           calls' \in Seq(Calls),
           NEW n \in Nat, n <= Len(calls), n <= Len(calls'),
           \A i \in 1..n : calls'[i] = calls[i],
           n < Len(calls) /\ n < Len(calls') => SameCall(calls'[n + 1], calls[n + 1])
    PROVE  /\ \A i \in 1..n : Shape(calls[i])' /\ ConstructorReady(i)'
           /\ \A i \in 1..n : i < Len(calls) /\ i < Len(calls') =>
                  WaitsFor(calls[i], calls[i + 1])'
<1>1. calls \in Seq(Calls) /\ \A i \in 1..n : i \in DOMAIN calls /\ calls[i] \in Calls
  BY DEF ClassesIInv, ClassesTypeOK
<1>2. ASSUME NEW i \in 1..n
      PROVE  Shape(calls[i])'
  <2>1. Shape(calls[i]) /\ calls'[i] = calls[i]
    BY <1>1 DEF ClassesIInv, CallsSound
  <2>2. calls[i] \in Calls
    BY <1>1
  <2>3. calls[i].of \in WithCctor => attempts[calls[i].of] <= attempts'[calls[i].of]
                                     /\ attempts[calls[i].of] \in Nat
                                     /\ attempts'[calls[i].of] \in Nat
    BY DEF Monotone
  <2>4. calls[i].of \in Classes /\ Started(calls[i].of) => cctorStatus'[calls[i].of] # "NotInited"
    BY DEF Monotone
  <2> QED BY <2>1, <2>3, <2>4 DEF Shape, Started
<1>3. ASSUME NEW i \in 1..n
      PROVE  ConstructorReady(i)'
  <2>1. ConstructorReady(i) /\ calls'[i] = calls[i]
    BY <1>1 DEF ClassesIInv, CallsSound
  <2>2. \A j \in 1..(i - 1) : calls'[j] = calls[j]
    OBVIOUS
  <2> QED BY <2>1, <2>2 DEF ConstructorReady, ModuleDone, Monotone
<1>4. ASSUME NEW i \in 1..n, i < Len(calls), i < Len(calls')
      PROVE  WaitsFor(calls[i], calls[i + 1])'
  <2>1. WaitsFor(calls[i], calls[i + 1]) /\ calls'[i] = calls[i]
    BY <1>1, <1>4 DEF ClassesIInv, CallsSound
  <2>2. calls'[i + 1].fn = calls[i + 1].fn /\ calls'[i + 1].of = calls[i + 1].of
    <3>1. CASE i = n
      BY <3>1, <1>4 DEF SameCall
    <3>2. CASE i # n
      BY <3>2
    <3> QED BY <3>1, <3>2
  <2>3. calls[i].at = "mark" => calls[i].of \in Classes
    <3>1. Shape(calls[i]) /\ calls[i] \in Calls
      BY <1>1 DEF ClassesIInv, CallsSound
    <3> QED BY <3>1 DEF Shape, Calls
  <2>4. calls[i].of \in Classes /\ Started(calls[i].of) => cctorStatus'[calls[i].of] # "NotInited"
    BY DEF Monotone
  <2> QED BY <2>1, <2>2, <2>3, <2>4 DEF WaitsFor, Started
<1> QED BY <1>2, <1>3, <1>4

(* The fields of a call in progress have their types. *)
LEMMA CallType ==
    ASSUME ClassesIInv, NEW i \in DOMAIN calls
    PROVE  /\ calls[i] \in Calls
           /\ calls[i].fn \in {"class", "hierarchy", "module"}
           /\ calls[i].of \in Classes \cup Modules
           /\ calls[i].at \in {"enter", "load", "parent", "mark", "invoke", "body"}
<1>1. calls \in Seq(Calls)
  BY DEF ClassesIInv, ClassesTypeOK
<1>2. PICK call \in Calls : call = calls[i]
  BY <1>1
<1>3. /\ call.fn \in {"class", "hierarchy", "module"}
      /\ call.of \in Classes \cup Modules
      /\ call.at \in {"enter", "load", "parent", "mark", "invoke", "body"}
  BY DEF Calls
<1> QED BY <1>2, <1>3

(* What the type invariant says, part by part *)
LEMMA Types ==
    ASSUME ClassesIInv
    PROVE  /\ calls \in Seq(Calls) /\ Len(calls) \in Nat /\ DOMAIN calls = 1..Len(calls)
           /\ attempts \in [WithCctor -> Nat]
           /\ cctorStatus \in [Classes -> {"NotInited", "InitSelf", "InitHierarchy"}]
           /\ moduleFinished \in [Modules -> BOOLEAN]
           /\ initFlags \in [Classes -> {"none", "loaded", "failedEarly", "failedLate"}]
           /\ ended \subseteq WithCctor
           /\ created \subseteq Classes
  BY DEF ClassesIInv, ClassesTypeOK

(* The innermost call, with what the invariant says of it *)
LEMMA TopCall ==
    ASSUME ClassesIInv, calls # <<>>
    PROVE  \E n \in Nat :
               /\ n = Len(calls) /\ n > 0 /\ DOMAIN calls = 1..n /\ n \in DOMAIN calls
               /\ Top = calls[n] /\ calls[n] \in Calls
               /\ Shape(calls[n]) /\ ConstructorReady(n) /\ Served(n)
<1>1. PICK n \in Nat : n = Len(calls) /\ DOMAIN calls = 1..n /\ calls \in Seq(Calls)
  BY Types
<1>2. n > 0 /\ n \in DOMAIN calls /\ calls[n] \in Calls
  BY <1>1
<1>3. Shape(calls[n]) /\ ConstructorReady(n) /\ Served(n)
  BY <1>1, <1>2 DEF ClassesIInv, CallsSound
<1> QED BY <1>1, <1>2, <1>3 DEF Top

(* A step that leaves statuses and counts alone takes nothing back. *)
LEMMA UnchangedMonotone ==
    ASSUME ClassesIInv, UNCHANGED <<cctorStatus, attempts, ended>>
    PROVE  Monotone
<1>1. \A c \in WithCctor : attempts[c] \in Nat
  BY Types
<1> QED BY <1>1 DEF Monotone, Started

(* From the parts of CallsSound to the whole *)
LEMMA CallsSoundAgain ==
    ASSUME calls' \in Seq(Calls), NEW n \in Nat, n = Len(calls'),
           \A i \in 1..n : Shape(calls[i])' /\ ConstructorReady(i)',
           \A i \in 1..(n - 1) : WaitsFor(calls[i], calls[i + 1])',
           n > 0 => Served(n)'
    PROVE  CallsSound'
<1>1. \A i \in 1..n : i # n => i \in 1..(n - 1)
  OBVIOUS
<1>2. DOMAIN calls' = 1..n
  OBVIOUS
<1> QED BY <1>1, <1>2 DEF CallsSound
-----------------------------------------------------------------------------
(* Managed code uses a class or a module: a call is pushed. *)
LEMMA PushKeeps ==
    ASSUME ClassesAssumption, ClassesIInv, ManagedRuns,
           NEW call \in Calls, call.at = "enter",
           call.fn \in {"class", "hierarchy"} => call.of \in Classes,
           call.fn = "module" => call.of \in Modules,
           calls' = Append(calls, call),
           UNCHANGED <<cctorStatus, initFlags, moduleFinished, attempts, ended, created>>
    PROVE  ClassesIInv'
<1>1. PICK n \in Nat : n = Len(calls) /\ DOMAIN calls = 1..n /\ calls \in Seq(Calls)
  BY Types
<1>2. /\ calls' \in Seq(Calls) /\ Len(calls') = n + 1 /\ DOMAIN calls' = 1..(n + 1)
      /\ calls'[n + 1] = call
      /\ \A i \in 1..n : calls'[i] = calls[i]
  BY <1>1
<1>3. Monotone
  BY UnchangedMonotone
<1>4. /\ \A i \in 1..n : Shape(calls[i])' /\ ConstructorReady(i)'
      /\ \A i \in 1..n : i < Len(calls) /\ i < Len(calls') => WaitsFor(calls[i], calls[i + 1])'
  BY <1>1, <1>2, <1>3, KeptCalls
<1>5. n # 0 => calls[n].at = "body"
  BY <1>1 DEF ManagedRuns, Top
<1>6. Shape(calls[n + 1])' /\ ConstructorReady(n + 1)' /\ Served(n + 1)'
  BY <1>2 DEF Shape, ConstructorReady, Served
<1>7. ASSUME NEW i \in 1..((n + 1) - 1) PROVE WaitsFor(calls[i], calls[i + 1])'
  <2>1. CASE i = n
    BY <2>1, <1>2, <1>5 DEF WaitsFor
  <2>2. CASE i # n
    <3>1. i \in 1..n /\ i < Len(calls) /\ i < Len(calls')
      BY <2>2, <1>1, <1>2
    <3> QED BY <3>1, <1>4
  <2> QED BY <2>1, <2>2
<1>8. CallsSound'
  <2>1. \A i \in 1..(n + 1) : Shape(calls[i])' /\ ConstructorReady(i)'
    <3>1. \A i \in 1..(n + 1) : i = n + 1 \/ i \in 1..n
      OBVIOUS
    <3> QED BY <3>1, <1>4, <1>6
  <2> QED BY <2>1, <1>2, <1>6, <1>7, CallsSoundAgain
<1>9. ClassesTypeOK'
  BY <1>2 DEF ClassesIInv, ClassesTypeOK
<1>10. ModulesEnd'
  <2>1. \A j \in DOMAIN calls : j \in DOMAIN calls' /\ calls'[j] = calls[j]
    BY <1>1, <1>2
  <2> QED BY <2>1 DEF ClassesIInv, ModulesEnd
<1>11. AttemptedOrFirst'
  <2>1. calls # <<>> => Top.at # "invoke"
    BY DEF ManagedRuns
  <2> QED BY <2>1 DEF ClassesIInv, AttemptedOrFirst, Started
<1>12. ObjectsFollowParents'
  BY DEF ClassesIInv, ObjectsFollowParents
<1> QED BY <1>8, <1>9, <1>10, <1>11, <1>12 DEF ClassesIInv

(* Managed code uses a class or a module: a call is pushed. *)
LEMMA ManagedUseKeeps ==
    ASSUME ClassesAssumption, ClassesIInv, ManagedUse
    PROVE  ClassesIInv'
<1>1. ASSUME NEW k \in Classes, UseStatic(k) PROVE ClassesIInv'
  <2>1. CallOf("class", k) \in Calls
    BY DEF CallOf, Calls
  <2> QED BY <1>1, <2>1, PushKeeps DEF UseStatic, CallOf
<1>2. ASSUME NEW k \in Classes, NewObject(k) PROVE ClassesIInv'
  <2>1. CallOf("hierarchy", k) \in Calls
    BY DEF CallOf, Calls
  <2> QED BY <1>2, <2>1, PushKeeps DEF NewObject, CallOf
<1>3. ASSUME NEW m \in Modules, RunModule(m) PROVE ClassesIInv'
  <2>1. CallOf("module", m) \in Calls
    BY DEF CallOf, Calls
  <2> QED BY <1>3, <2>1, PushKeeps DEF RunModule, CallOf
<1> QED BY <1>1, <1>2, <1>3 DEF ManagedUse
-----------------------------------------------------------------------------
(* The calls are cut at the m-th, which may have reached another point.    *)
LEMMA CutKeeps ==
    ASSUME ClassesAssumption, ClassesIInv, Monotone,
           NEW m \in Nat, m <= Len(calls), calls' \in Seq(Calls), Len(calls') = m,
           \A i \in 1..(m - 1) : calls'[i] = calls[i],
           m > 0 => /\ SameCall(calls'[m], calls[m])
                    /\ Shape(calls[m])' /\ ConstructorReady(m)' /\ Served(m)'
    PROVE  CallsSound'
<1>1. Len(calls) \in Nat
  BY Types
<1>2. CASE m = 0
  BY <1>2, CallsSoundAgain
<1>3. CASE m > 0
  <2>1. PICK k \in Nat : k = m - 1
    BY <1>3
  <2>2. k <= Len(calls) /\ k <= Len(calls') /\ k + 1 = m
    BY <1>1, <2>1
  <2>3. \A i \in 1..k : calls'[i] = calls[i]
    BY <2>1
  <2>4. SameCall(calls'[k + 1], calls[k + 1])
    BY <2>2, <1>3
  <2>5. /\ \A i \in 1..k : Shape(calls[i])' /\ ConstructorReady(i)'
        /\ \A i \in 1..k : i < Len(calls) /\ i < Len(calls') => WaitsFor(calls[i], calls[i + 1])'
    BY <2>2, <2>3, <2>4, KeptCalls
  <2>6. \A i \in 1..m : i = m \/ i \in 1..k
    BY <2>2
  <2>7. \A i \in 1..m : Shape(calls[i])' /\ ConstructorReady(i)'
    BY <2>5, <2>6, <1>3
  <2>8. \A i \in 1..(m - 1) : i \in 1..k /\ i < Len(calls) /\ i < Len(calls')
    BY <1>1, <2>1
  <2>9. \A i \in 1..(m - 1) : WaitsFor(calls[i], calls[i + 1])'
    BY <2>5, <2>8
  <2> QED BY <2>7, <2>9, <1>3, CallsSoundAgain
<1> QED BY <1>2, <1>3

(* A call that has reached another point is still a call, of the same.     *)
LEMMA Moved ==
    ASSUME NEW call \in Calls,
           NEW point \in {"load", "parent", "mark", "invoke", "body"}
    PROVE  /\ [call EXCEPT !.at = point] \in Calls
           /\ [call EXCEPT !.at = point].fn = call.fn
           /\ [call EXCEPT !.at = point].of = call.of
           /\ [call EXCEPT !.at = point].at = point
  BY DEF Calls

(* The innermost call reaches another point. *)
LEMMA AdvanceKeeps ==
    ASSUME ClassesAssumption, ClassesIInv, Monotone, NEW n \in Nat, n = Len(calls), n > 0,
           NEW point \in {"load", "parent", "mark", "invoke", "body"},
           calls' = Advance(point)
    PROVE  /\ calls' \in Seq(Calls) /\ Len(calls') = n
           /\ \A i \in 1..(n - 1) : calls'[i] = calls[i]
           /\ calls'[n].fn = calls[n].fn /\ calls'[n].of = calls[n].of /\ calls'[n].at = point
           /\ Shape(calls[n])' /\ ConstructorReady(n)' /\ Served(n)' => CallsSound'
<1>1. calls \in Seq(Calls) /\ DOMAIN calls = 1..n /\ n \in DOMAIN calls
  BY Types
<1>2. PICK call \in Calls : call = calls[n]
  BY <1>1
<1>3. PICK moved \in Calls : /\ moved = [call EXCEPT !.at = point]
                             /\ moved.fn = call.fn /\ moved.of = call.of /\ moved.at = point
  <2>1. /\ [call EXCEPT !.at = point] \in Calls
        /\ [call EXCEPT !.at = point].fn = call.fn
        /\ [call EXCEPT !.at = point].of = call.of
        /\ [call EXCEPT !.at = point].at = point
    BY Moved
  <2> QED BY <2>1
<1>4. calls' = [calls EXCEPT ![n] = moved]
  BY <1>2, <1>3 DEF Advance
<1>5. calls' \in Seq(Calls) /\ Len(calls') = n /\ calls'[n] = moved
      /\ \A i \in 1..(n - 1) : calls'[i] = calls[i]
  BY <1>1, <1>4
<1>6. SameCall(calls'[n], calls[n])
  BY <1>2, <1>3, <1>5 DEF SameCall
<1>7. Shape(calls[n])' /\ ConstructorReady(n)' /\ Served(n)' => CallsSound'
  BY <1>5, <1>6, CutKeeps
<1> QED BY <1>2, <1>3, <1>5, <1>7

(* It returns to the call that waits for it, or to nobody. *)
LEMMA ReturnKeeps ==
    ASSUME ClassesAssumption, ClassesIInv, Monotone, NEW n \in Nat, n = Len(calls), n > 0,
           calls' = Return,
           calls[n].fn \in {"class", "hierarchy"} => cctorStatus'[calls[n].of] # "NotInited",
           calls[n].fn = "module" =>
               \/ calls[n].of \notin WithCctor
               \/ calls[n].of \in ended'
               \/ \E j \in 1..(n - 1) : calls[j].of = calls[n].of /\ calls[j].at = "body"
    PROVE  /\ calls' \in Seq(Calls) /\ Len(calls') = n - 1
           /\ \A i \in 1..(n - 1) : calls'[i] = calls[i]
           /\ CallsSound'
<1>1. calls \in Seq(Calls) /\ DOMAIN calls = 1..n
  BY Types
<1>2. PICK m \in Nat : m = n - 1
  BY Predecessor
<1>3. calls' \in Seq(Calls) /\ Len(calls') = m /\ \A i \in 1..m : calls'[i] = calls[i]
  BY <1>1, <1>2 DEF Return, Front
<1>4. \A i \in 1..m : Shape(calls[i])' /\ ConstructorReady(i)'
  <2>1. m <= Len(calls) /\ m <= Len(calls') /\ ~(m < Len(calls'))
    BY <1>2, <1>3
  <2> QED BY <1>3, <2>1, KeptCalls
<1>5. ASSUME m > 0 PROVE Served(m)' /\ SameCall(calls'[m], calls[m])
  <2>1. m \in DOMAIN calls /\ m # Len(calls) /\ m + 1 = n /\ m \in 1..m /\ m - 1 = n - 2
    BY <1>1, <1>2, <1>5
  <2>2. WaitsFor(calls[m], calls[n]) /\ calls'[m] = calls[m]
    BY <2>1, <1>3 DEF ClassesIInv, CallsSound
  <2>3. calls[m].at = "mark" => cctorStatus'[calls[m].of] # "NotInited"
    <3>1. Shape(calls[m]) /\ calls[m] \in Calls
      BY <1>1, <2>1 DEF ClassesIInv, CallsSound
    <3>2. calls[m].at = "mark" => calls[m].of \in Classes
      BY <3>1 DEF Shape, Calls
    <3> QED BY <2>2, <3>2 DEF WaitsFor, Monotone
  <2>4. calls[m].at = "load" => ModuleDone(ModuleOf[calls[m].of], m)'
    <3>1. \A j \in 1..(n - 2) : calls'[j] = calls[j]
      BY <1>2, <1>3
    <3>2. \A j \in 1..(n - 1) : j = m \/ j \in 1..(n - 2)
      BY <1>2
    <3> QED BY <2>1, <2>2, <3>1, <3>2 DEF WaitsFor, ModuleDone
  <2> QED BY <2>2, <2>3, <2>4 DEF Served, WaitsFor, Started, SameCall
<1>6. CallsSound'
  <2>1. \A i \in 1..(m - 1) : calls'[i] = calls[i]
    BY <1>3
  <2>2. m <= Len(calls) /\ (m > 0 => m \in 1..m)
    BY <1>2
  <2> QED BY <1>3, <1>4, <1>5, <2>1, <2>2, CutKeeps
<1> QED BY <1>2, <1>3, <1>6

(* It fails, to a constructor below or to the managed code of the host. *)
LEMMA FailKeeps ==
    ASSUME ClassesAssumption, ClassesIInv, Monotone, calls # <<>>, calls' = Fail
    PROVE  /\ CallsSound' /\ calls' \in Seq(Calls)
           /\ calls' # <<>> => calls'[Len(calls')].at = "body"
           /\ \A i \in DOMAIN calls :
                  \/ i \in DOMAIN calls' /\ calls'[i] = calls[i]
                  \/ i = Len(calls)
                  \/ calls[i].at \notin {"invoke", "body"}
<1>1. PICK n \in Nat : n = Len(calls) /\ DOMAIN calls = 1..n /\ calls \in Seq(Calls)
  BY Types
<1>2. PICK h \in 0..(Len(calls) - 1) :
          /\ Fail = SubSeq(calls, 1, h)
          /\ h = 0 \/ calls[h].at = "body"
          /\ \A i \in (h + 1)..(Len(calls) - 1) : calls[i].at # "body"
  BY FailCuts DEF ClassesIInv
<1>3. h \in Nat /\ h < n
  BY <1>1
<1>4. /\ calls' \in Seq(Calls) /\ Len(calls') = h /\ DOMAIN calls' = 1..h
      /\ \A i \in 1..h : calls'[i] = calls[i]
  BY <1>1, <1>2, <1>3
<1>5. \A i \in 1..h : Shape(calls[i])' /\ ConstructorReady(i)'
  <2>1. h <= Len(calls) /\ h <= Len(calls') /\ ~(h < Len(calls'))
    BY <1>1, <1>3, <1>4
  <2> QED BY <1>3, <1>4, <2>1, KeptCalls
<1>6. h > 0 => calls'[h].at = "body" /\ SameCall(calls'[h], calls[h]) /\ Served(h)'
  <2>1. h > 0 => h \in 1..h
    BY <1>3
  <2>2. h > 0 => calls'[h] = calls[h] /\ calls[h].at = "body"
    BY <2>1, <1>2, <1>4
  <2> QED BY <2>2 DEF SameCall, Served
<1>7. CallsSound'
  <2>1. \A i \in 1..(h - 1) : calls'[i] = calls[i]
    BY <1>3, <1>4
  <2>2. h <= Len(calls) /\ (h > 0 => h \in 1..h)
    BY <1>1, <1>3
  <2> QED BY <1>3, <1>4, <1>5, <1>6, <2>1, <2>2, CutKeeps
<1>8. ASSUME NEW i \in DOMAIN calls
      PROVE  \/ i \in DOMAIN calls' /\ calls'[i] = calls[i]
             \/ i = Len(calls)
             \/ calls[i].at \notin {"invoke", "body"}
  <2>1. CASE i \in 1..h
    BY <2>1, <1>4
  <2>2. CASE i \notin 1..h /\ i # Len(calls)
    <3>1. i \in (h + 1)..(Len(calls) - 1)
      BY <1>1, <1>3, <2>2
    <3>2. calls[i].at # "body"
      BY <3>1, <1>2
    <3>3. WaitsFor(calls[i], calls[i + 1])
      BY <2>2 DEF ClassesIInv, CallsSound
    <3> QED BY <3>2, <3>3 DEF WaitsFor
  <2> QED BY <2>1, <2>2
<1>9. calls' # <<>> => calls'[Len(calls')].at = "body"
  <2>1. calls' # <<>> => h > 0
    BY <1>3, <1>4
  <2> QED BY <1>4, <1>6, <2>1
<1> QED BY <1>4, <1>7, <1>8, <1>9

(* It calls another function, and waits for it. *)
LEMMA CallThenKeeps ==
    ASSUME ClassesAssumption, ClassesIInv, Monotone, NEW n \in Nat, n = Len(calls), n > 0,
           NEW call \in Calls, call.at = "enter",
           call.fn \in {"class", "hierarchy"} => call.of \in Classes,
           call.fn = "module" => call.of \in Modules,
           calls' \in Seq(Calls), Len(calls') = n + 1, calls'[n + 1] = call,
           \A i \in 1..(n - 1) : calls'[i] = calls[i],
           SameCall(calls'[n], calls[n]),
           calls'[n].at \in {"load", "parent", "mark"},
           Shape(calls[n])', WaitsFor(calls[n], call)'
    PROVE  CallsSound'
<1>1. PICK k \in Nat : k = n - 1
  BY Predecessor
<1>2. k <= Len(calls) /\ k <= Len(calls') /\ k + 1 = n
  BY <1>1
<1>3. \A i \in 1..k : calls'[i] = calls[i]
  BY <1>1
<1>4. SameCall(calls'[k + 1], calls[k + 1])
  BY <1>2
<1>5. /\ \A i \in 1..k : Shape(calls[i])' /\ ConstructorReady(i)'
      /\ \A i \in 1..k : i < Len(calls) /\ i < Len(calls') => WaitsFor(calls[i], calls[i + 1])'
  BY <1>2, <1>3, <1>4, KeptCalls
<1>6. Shape(calls[n + 1])' /\ ConstructorReady(n + 1)' /\ Served(n + 1)'
  BY DEF Shape, ConstructorReady, Served
<1>7. ConstructorReady(n)'
  BY DEF ConstructorReady
<1>8. \A i \in 1..(n + 1) : Shape(calls[i])' /\ ConstructorReady(i)'
  <2>1. \A i \in 1..(n + 1) : i = n + 1 \/ i = n \/ i \in 1..k
    BY <1>1
  <2> QED BY <2>1, <1>5, <1>6, <1>7
<1>9. \A i \in 1..((n + 1) - 1) : WaitsFor(calls[i], calls[i + 1])'
  <2>1. \A i \in 1..((n + 1) - 1) : i = n \/ (i \in 1..k /\ i < Len(calls) /\ i < Len(calls'))
    BY <1>1
  <2> QED BY <2>1, <1>5
<1> QED BY <1>6, <1>8, <1>9, CallsSoundAgain
-----------------------------------------------------------------------------
(* run_module_static_constructor sets its flag. *)
LEMMA EnterModuleKeeps ==
    ASSUME ClassesAssumption, ClassesIInv, EnterModule
    PROVE  ClassesIInv'
<1>1. PICK n \in Nat :
          /\ n = Len(calls) /\ n > 0 /\ DOMAIN calls = 1..n /\ n \in DOMAIN calls
          /\ Top = calls[n] /\ calls[n] \in Calls
          /\ Shape(calls[n]) /\ ConstructorReady(n) /\ Served(n)
  BY TopCall DEF EnterModule, At
<1>2. PICK m \in Modules : m = calls[n].of /\ calls[n].fn = "module" /\ calls[n].at = "enter" /\ m = Top.of
  BY <1>1 DEF EnterModule, At, Shape
<1>3. Monotone
  BY UnchangedMonotone DEF EnterModule
<1>4. CASE ~moduleFinished[m] /\ m \in WithCctor
  <2>1. calls' = Advance("invoke")
    BY <1>2, <1>4 DEF EnterModule
  <2>2. /\ calls' \in Seq(Calls) /\ Len(calls') = n
        /\ \A i \in 1..(n - 1) : calls'[i] = calls[i]
        /\ calls'[n].fn = "module" /\ calls'[n].of = m /\ calls'[n].at = "invoke"
        /\ Shape(calls[n])' /\ ConstructorReady(n)' /\ Served(n)' => CallsSound'
    BY <1>1, <1>2, <1>3, <2>1, AdvanceKeeps
  <2>3. Shape(calls[n])' /\ ConstructorReady(n)' /\ Served(n)'
    BY <2>2, <1>4 DEF Shape, ConstructorReady, Served
  <2>4. ModulesEnd'
    <3>1. DOMAIN calls' = 1..n
      BY <2>2
    <3>2. ASSUME NEW p \in Modules \cap WithCctor, moduleFinished'[p], p \notin ended'
          PROVE  \E j \in DOMAIN calls' : calls'[j].of = p /\ calls'[j].at \in {"invoke", "body"}
      <4>1. CASE p = m
        BY <4>1, <1>1, <2>2, <3>1
      <4>2. CASE p # m
        <5>1. moduleFinished[p] /\ p \notin ended
          BY <3>2, <4>2, <1>2, Types DEF EnterModule
        <5>2. PICK j \in DOMAIN calls : calls[j].of = p /\ calls[j].at \in {"invoke", "body"}
          BY <5>1 DEF ClassesIInv, ModulesEnd
        <5>3. j \in 1..(n - 1)
          BY <5>2, <4>2, <1>1, <1>2
        <5> QED BY <5>2, <5>3, <2>2, <3>1, <1>1
      <4> QED BY <4>1, <4>2
    <3> QED BY <3>2 DEF ModulesEnd
  <2>5. AttemptedOrFirst'
    <3>1. calls # <<>> => Top.at # "invoke"
      BY <1>1, <1>2
    <3> QED BY <3>1 DEF ClassesIInv, AttemptedOrFirst, Started, EnterModule
  <2>6. ClassesTypeOK'
    BY <2>2, Types DEF ClassesTypeOK, EnterModule
  <2>7. ObjectsFollowParents'
    BY DEF ClassesIInv, ObjectsFollowParents, EnterModule
  <2> QED BY <2>2, <2>3, <2>4, <2>5, <2>6, <2>7 DEF ClassesIInv
<1>5. CASE ~(~moduleFinished[m] /\ m \in WithCctor)
  <2>1. calls' = Return
    BY <1>2, <1>5 DEF EnterModule
  <2>2. \/ m \notin WithCctor
        \/ m \in ended
        \/ \E j \in 1..(n - 1) : calls[j].of = m /\ calls[j].at = "body"
    <3>1. SUFFICES ASSUME m \in WithCctor, m \notin ended
                   PROVE  \E j \in 1..(n - 1) : calls[j].of = m /\ calls[j].at = "body"
      OBVIOUS
    <3>2. PICK j \in DOMAIN calls : calls[j].of = m /\ calls[j].at \in {"invoke", "body"}
      BY <3>1, <1>5 DEF ClassesIInv, ModulesEnd
    <3>3. j \in 1..(n - 1)
      BY <3>2, <1>1, <1>2
    <3>4. calls[j].at # "invoke"
      BY <3>3, <1>1 DEF ClassesIInv, CallsSound, WaitsFor
    <3> QED BY <3>2, <3>3, <3>4
  <2>3. /\ calls' \in Seq(Calls) /\ Len(calls') = n - 1
        /\ \A i \in 1..(n - 1) : calls'[i] = calls[i]
        /\ CallsSound'
    BY <1>1, <1>2, <1>3, <2>1, <2>2, ReturnKeeps DEF EnterModule
  <2>4. ModulesEnd'
    <3>1. DOMAIN calls' = 1..(n - 1)
      BY <1>1, <2>3
    <3>2. ASSUME NEW p \in Modules \cap WithCctor, moduleFinished'[p], p \notin ended'
          PROVE  \E j \in DOMAIN calls' : calls'[j].of = p /\ calls'[j].at \in {"invoke", "body"}
      <4>1. moduleFinished[p] /\ p \notin ended
        BY <3>2, <1>2, <1>5, Types DEF EnterModule
      <4>2. PICK j \in DOMAIN calls : calls[j].of = p /\ calls[j].at \in {"invoke", "body"}
        BY <4>1 DEF ClassesIInv, ModulesEnd
      <4>3. j \in 1..(n - 1)
        BY <4>2, <1>1, <1>2
      <4> QED BY <4>2, <4>3, <2>3, <3>1
    <3> QED BY <3>2 DEF ModulesEnd
  <2>5. AttemptedOrFirst'
    <3>1. calls # <<>> => Top.at # "invoke"
      BY <1>1, <1>2
    <3> QED BY <3>1 DEF ClassesIInv, AttemptedOrFirst, Started, EnterModule
  <2>6. ClassesTypeOK'
    BY <2>3, Types DEF ClassesTypeOK, EnterModule
  <2>7. ObjectsFollowParents'
    BY DEF ClassesIInv, ObjectsFollowParents, EnterModule
  <2> QED BY <2>3, <2>4, <2>5, <2>6, <2>7 DEF ClassesIInv
<1> QED BY <1>4, <1>5
-----------------------------------------------------------------------------
(* The parts of the invariant that most actions leave as they are *)
LEMMA ModulesEndKept ==
    ASSUME ClassesIInv, UNCHANGED moduleFinished, ended \subseteq ended',
           \A i \in DOMAIN calls : calls[i].at \in {"invoke", "body"} =>
               \/ /\ i \in DOMAIN calls'
                  /\ calls'[i].of = calls[i].of /\ calls'[i].at \in {"invoke", "body"}
               \/ calls[i].of \in ended'
    PROVE  ModulesEnd'
<1>1. ASSUME NEW p \in Modules \cap WithCctor, moduleFinished'[p], p \notin ended'
      PROVE  \E j \in DOMAIN calls' : calls'[j].of = p /\ calls'[j].at \in {"invoke", "body"}
  <2>1. PICK j \in DOMAIN calls : calls[j].of = p /\ calls[j].at \in {"invoke", "body"}
    BY <1>1 DEF ClassesIInv, ModulesEnd
  <2> QED BY <2>1, <1>1
<1> QED BY <1>1 DEF ModulesEnd

(* A class that counts as initialized goes on having been attempted. *)
LEMMA AttemptedKept ==
    ASSUME ClassesIInv, Monotone, UNCHANGED cctorStatus,
           \A k \in Classes : initFlags[k] = "failedEarly" => initFlags'[k] = "failedEarly",
           calls # <<>> /\ Top.at = "invoke" => attempts'[Top.of] > 0
    PROVE  AttemptedOrFirst'
<1>1. ASSUME NEW k \in Classes \cap WithCctor, cctorStatus'[k] # "NotInited"
      PROVE  attempts'[k] > 0 \/ initFlags'[k] = "failedEarly"
  <2>1. \/ attempts[k] > 0
        \/ initFlags[k] = "failedEarly"
        \/ calls # <<>> /\ Top.of = k /\ Top.at = "invoke"
    BY <1>1 DEF ClassesIInv, AttemptedOrFirst, Started
  <2>2. attempts[k] \in Nat /\ attempts'[k] \in Nat /\ attempts[k] <= attempts'[k]
    BY DEF Monotone
  <2> QED BY <2>1, <2>2
<1> QED BY <1>1 DEF AttemptedOrFirst, Started

(* Objects that exist go on following their parents. *)
LEMMA ObjectsKept ==
    ASSUME ClassesAssumption, ClassesIInv, Monotone, UNCHANGED created
    PROVE  ObjectsFollowParents'
<1>1. \A k \in created : k \in Classes /\ (Parent[k] # NoClass => Parent[k] \in Classes)
  BY Types DEF ClassesAssumption
<1> QED BY <1>1 DEF ClassesIInv, ObjectsFollowParents, Monotone, Started
-----------------------------------------------------------------------------
(* The calls when the constructor of the module is asked for *)
LEMMA EnterClassCalls ==
    ASSUME ClassesAssumption, ClassesIInv, EnterClass,
           NEW n \in Nat, n = Len(calls), n > 0,
           NEW k \in Classes, k = Top.of, cctorStatus[k] = "NotInited"
    PROVE  /\ calls' \in Seq(Calls) /\ Len(calls') = n + 1 /\ DOMAIN calls' = 1..(n + 1)
           /\ calls'[n + 1] = CallOf("module", ModuleOf[k])
           /\ calls'[n].fn = "class" /\ calls'[n].of = k /\ calls'[n].at = "load"
           /\ calls'[n].waited = (~moduleFinished[ModuleOf[k]] /\ ModuleOf[k] \in WithCctor)
           /\ \A i \in 1..(n - 1) : calls'[i] = calls[i]
<1>1. n \in DOMAIN calls /\ DOMAIN calls = 1..n /\ Top = calls[n] /\ calls[n] \in Calls
  <2>1. calls # <<>>
    BY DEF EnterClass, At
  <2> QED BY <2>1, TopCall
<1>2. k = calls[n].of /\ calls[n].fn = "class" /\ calls[n].at = "enter"
  BY <1>1 DEF EnterClass, At
<1>3. PICK m \in Modules : m = ModuleOf[k]
  BY DEF ClassesAssumption
<1>4. PICK call \in Calls : call = CallOf("module", m) /\ call.fn = "module" /\ call.of = m /\ call.at = "enter"
  <2>1. /\ CallOf("module", m) \in Calls
        /\ CallOf("module", m).fn = "module" /\ CallOf("module", m).of = m
        /\ CallOf("module", m).at = "enter"
    BY DEF Calls, CallOf
  <2> QED BY <2>1
<1>5. PICK waited \in BOOLEAN : waited = (~moduleFinished[m] /\ m \in WithCctor)
  OBVIOUS
<1>6. calls' = [Append(Advance("load"), call) EXCEPT ![n].waited = waited]
  BY <1>1, <1>2, <1>3, <1>4, <1>5 DEF EnterClass, CallThen
<1>7. PICK moved \in Calls : moved.fn = "class" /\ moved.of = k /\ moved.at = "load"
                             /\ moved = [[calls[n] EXCEPT !.at = "load"] EXCEPT !.waited = waited]
  BY <1>1, <1>2 DEF Calls
<1>8. PICK loading \in Seq(Calls) :
          /\ loading = Advance("load") /\ Len(loading) = n
          /\ loading[n] = [calls[n] EXCEPT !.at = "load"]
          /\ \A i \in 1..(n - 1) : loading[i] = calls[i]
  <2>1. PICK reached \in Calls : reached = [calls[n] EXCEPT !.at = "load"]
    <3>1. [calls[n] EXCEPT !.at = "load"] \in Calls
      BY <1>1, Moved
    <3> QED BY <3>1
  <2>2. /\ [calls EXCEPT ![n] = reached] \in Seq(Calls)
        /\ Len([calls EXCEPT ![n] = reached]) = n
        /\ [calls EXCEPT ![n] = reached][n] = reached
        /\ \A i \in 1..(n - 1) : [calls EXCEPT ![n] = reached][i] = calls[i]
    BY <1>1, Types
  <2>3. Advance("load") = [calls EXCEPT ![n] = reached]
    BY <1>1, <2>1 DEF Advance
  <2> QED BY <2>1, <2>2, <2>3
<1>9. /\ calls' \in Seq(Calls) /\ Len(calls') = n + 1 /\ DOMAIN calls' = 1..(n + 1)
      /\ calls'[n + 1] = call /\ calls'[n] = moved
      /\ \A i \in 1..(n - 1) : calls'[i] = calls[i]
  <2>1. PICK both \in Seq(Calls) :
            /\ both = Append(loading, call) /\ Len(both) = n + 1
            /\ both[n + 1] = call /\ \A i \in 1..n : both[i] = loading[i]
    <3>1. /\ Append(loading, call) \in Seq(Calls) /\ Len(Append(loading, call)) = n + 1
          /\ Append(loading, call)[n + 1] = call
          /\ \A i \in 1..n : Append(loading, call)[i] = loading[i]
      BY <1>8
    <3> QED BY <3>1
  <2>2. [both[n] EXCEPT !.waited = waited] = moved
    <3>1. n \in 1..n
      BY <1>1
    <3> QED BY <1>7, <1>8, <2>1, <3>1
  <2>3. calls' = [both EXCEPT ![n] = moved]
    BY <1>6, <1>8, <2>1, <2>2
  <2>4. /\ calls' \in Seq(Calls) /\ Len(calls') = Len(both) /\ calls'[n] = moved
        /\ \A i \in 1..Len(both) : i # n => calls'[i] = both[i]
    <3>1. n \in 1..Len(both)
      BY <1>1, <2>1
    <3> QED BY <2>3, <3>1, Replaced
  <2>5. calls'[n + 1] = call
    <3>1. n + 1 \in 1..Len(both) /\ n + 1 # n
      BY <2>1
    <3> QED BY <2>1, <2>4, <3>1
  <2>6. ASSUME NEW i \in 1..(n - 1) PROVE calls'[i] = calls[i]
    <3>1. i \in 1..Len(both) /\ i # n /\ i \in 1..n
      BY <2>1
    <3> QED BY <1>8, <2>1, <2>4, <3>1
  <2>7. DOMAIN calls' = 1..(n + 1)
    BY <2>1, <2>4
  <2> QED BY <2>1, <2>4, <2>5, <2>6, <2>7
<1> QED BY <1>3, <1>4, <1>5, <1>7, <1>9

(* run_class_static_constructor asks for the constructor of the module. *)
LEMMA EnterClassKeeps ==
    ASSUME ClassesAssumption, ClassesIInv, EnterClass
    PROVE  ClassesIInv'
<1>1. PICK n \in Nat :
          /\ n = Len(calls) /\ n > 0 /\ DOMAIN calls = 1..n /\ n \in DOMAIN calls
          /\ Top = calls[n] /\ calls[n] \in Calls
          /\ Shape(calls[n]) /\ ConstructorReady(n) /\ Served(n)
  BY TopCall DEF EnterClass, At
<1>2. PICK k \in Classes : k = calls[n].of /\ calls[n].fn = "class" /\ calls[n].at = "enter" /\ k = Top.of
  BY <1>1 DEF EnterClass, At, Shape
<1>3. Monotone
  BY UnchangedMonotone DEF EnterClass
<1>4. AttemptedOrFirst' /\ ObjectsFollowParents'
  BY <1>1, <1>2, <1>3, AttemptedKept, ObjectsKept DEF EnterClass
<1>5. CASE cctorStatus[k] = "NotInited"
  <2>1. PICK m \in Modules : m = ModuleOf[k]
    BY DEF ClassesAssumption
  <2>2. PICK call \in Calls : call = CallOf("module", m) /\ call.fn = "module" /\ call.of = m /\ call.at = "enter"
    <3>1. /\ CallOf("module", m) \in Calls
          /\ CallOf("module", m).fn = "module" /\ CallOf("module", m).of = m
          /\ CallOf("module", m).at = "enter"
      BY DEF Calls, CallOf
    <3> QED BY <3>1
  <2>7. /\ calls' \in Seq(Calls) /\ Len(calls') = n + 1 /\ DOMAIN calls' = 1..(n + 1)
        /\ calls'[n + 1] = call
        /\ calls'[n].fn = "class" /\ calls'[n].of = k /\ calls'[n].at = "load"
        /\ \A i \in 1..(n - 1) : calls'[i] = calls[i]
    BY <1>1, <1>2, <1>5, <2>1, <2>2, EnterClassCalls
  <2>8. CallsSound'
    <3>1. Shape(calls[n])' /\ WaitsFor(calls[n], call)'
      BY <2>1, <2>2, <2>7 DEF Shape, WaitsFor
    <3>2. SameCall(calls'[n], calls[n]) /\ calls'[n].at \in {"load", "parent", "mark"}
      BY <1>2, <2>7 DEF SameCall
    <3> QED BY <1>1, <1>3, <2>2, <2>7, <3>1, <3>2, CallThenKeeps
  <2>9. ModulesEnd'
    <3>1. ASSUME NEW i \in DOMAIN calls, calls[i].at \in {"invoke", "body"}
          PROVE  i \in DOMAIN calls' /\ calls'[i] = calls[i]
      <4>1. i \in 1..(n - 1)
        BY <1>1, <1>2, <3>1
      <4> QED BY <4>1, <1>1, <2>7
    <3> QED BY <3>1, ModulesEndKept DEF EnterClass
  <2>10. ClassesTypeOK'
    BY <2>7, Types DEF ClassesTypeOK, EnterClass
  <2> QED BY <1>4, <2>8, <2>9, <2>10 DEF ClassesIInv
<1>6. CASE cctorStatus[k] # "NotInited"
  <2>1. calls' = Return
    BY <1>2, <1>6 DEF EnterClass
  <2>2. /\ calls' \in Seq(Calls) /\ Len(calls') = n - 1
        /\ \A i \in 1..(n - 1) : calls'[i] = calls[i]
        /\ CallsSound'
    BY <1>1, <1>2, <1>3, <1>6, <2>1, ReturnKeeps DEF EnterClass
  <2>3. ModulesEnd'
    <3>1. ASSUME NEW i \in DOMAIN calls, calls[i].at \in {"invoke", "body"}
          PROVE  i \in DOMAIN calls' /\ calls'[i] = calls[i]
      <4>1. i \in 1..(n - 1)
        BY <1>1, <1>2, <3>1
      <4>2. DOMAIN calls' = 1..(n - 1)
        BY <1>1, <2>2
      <4> QED BY <4>1, <4>2, <2>2
    <3> QED BY <3>1, ModulesEndKept DEF EnterClass
  <2>4. ClassesTypeOK'
    BY <2>2, Types DEF ClassesTypeOK, EnterClass
  <2> QED BY <1>4, <2>2, <2>3, <2>4 DEF ClassesIInv
<1> QED BY <1>5, <1>6

(* The global type of a module without a constructor cannot be loaded. *)
LEMMA LookUpFailsKeeps ==
    ASSUME ClassesAssumption, ClassesIInv, LookUpFails
    PROVE  ClassesIInv'
<1>1. PICK n \in Nat :
          /\ n = Len(calls) /\ n > 0 /\ DOMAIN calls = 1..n /\ n \in DOMAIN calls
          /\ Top = calls[n] /\ calls[n] \in Calls
          /\ Shape(calls[n]) /\ ConstructorReady(n) /\ Served(n)
  BY TopCall DEF LookUpFails, At
<1>2. PICK m \in Modules : m = calls[n].of /\ calls[n].at = "enter" /\ m = Top.of /\ m \notin WithCctor
  BY <1>1 DEF LookUpFails, At, Shape
<1>3. Monotone
  BY UnchangedMonotone DEF LookUpFails
<1>4. /\ CallsSound' /\ calls' \in Seq(Calls)
      /\ \A i \in DOMAIN calls :
             \/ i \in DOMAIN calls' /\ calls'[i] = calls[i]
             \/ i = Len(calls)
             \/ calls[i].at \notin {"invoke", "body"}
  BY <1>3, FailKeeps DEF LookUpFails, At
<1>5. moduleFinished' = [moduleFinished EXCEPT ![m] = TRUE]
  BY <1>2 DEF LookUpFails
<1>6. ModulesEnd'
  <2>1. ASSUME NEW p \in Modules \cap WithCctor, moduleFinished'[p], p \notin ended'
        PROVE  \E j \in DOMAIN calls' : calls'[j].of = p /\ calls'[j].at \in {"invoke", "body"}
    <3>1. moduleFinished[p] /\ p \notin ended
      BY <2>1, <1>2, <1>5, Types DEF LookUpFails
    <3>2. PICK j \in DOMAIN calls : calls[j].of = p /\ calls[j].at \in {"invoke", "body"}
      BY <3>1 DEF ClassesIInv, ModulesEnd
    <3> QED BY <3>2, <1>1, <1>2, <1>4
  <2> QED BY <2>1 DEF ModulesEnd
<1>7. AttemptedOrFirst' /\ ObjectsFollowParents'
  BY <1>1, <1>2, <1>3, AttemptedKept, ObjectsKept DEF LookUpFails
<1>8. ClassesTypeOK'
  BY <1>4, <1>5, Types DEF ClassesTypeOK, LookUpFails
<1> QED BY <1>4, <1>6, <1>7, <1>8 DEF ClassesIInv

(* initialize_all fails, and all calls up to managed code with it. *)
LEMMA LoadFailsKeeps ==
    ASSUME ClassesAssumption, ClassesIInv, LoadFails
    PROVE  ClassesIInv'
<1>1. PICK n \in Nat :
          /\ n = Len(calls) /\ n > 0 /\ DOMAIN calls = 1..n /\ n \in DOMAIN calls
          /\ Top = calls[n] /\ calls[n] \in Calls
          /\ Shape(calls[n]) /\ ConstructorReady(n) /\ Served(n)
  BY TopCall DEF LoadFails, At
<1>2. PICK k \in Classes : k = calls[n].of /\ calls[n].at = "load" /\ k = Top.of
  BY <1>1 DEF LoadFails, At, Shape
<1>3. Monotone
  BY UnchangedMonotone DEF LoadFails
<1>4. /\ CallsSound' /\ calls' \in Seq(Calls)
      /\ \A i \in DOMAIN calls :
             \/ i \in DOMAIN calls' /\ calls'[i] = calls[i]
             \/ i = Len(calls)
             \/ calls[i].at \notin {"invoke", "body"}
  BY <1>3, FailKeeps DEF LoadFails, At
<1>5. ModulesEnd'
  BY <1>1, <1>2, <1>4, ModulesEndKept DEF LoadFails
<1>6. AttemptedOrFirst' /\ ObjectsFollowParents'
  BY <1>1, <1>2, <1>3, Types, AttemptedKept, ObjectsKept DEF LoadFails
<1>7. ClassesTypeOK'
  <2>1. initFlags' \in [Classes -> {"none", "loaded", "failedEarly", "failedLate"}]
    <3>1. PICK how \in {"failedEarly", "failedLate"} : initFlags' = [initFlags EXCEPT ![k] = how]
      BY <1>2 DEF LoadFails
    <3> QED BY <3>1, Types
  <2> QED BY <1>4, <2>1, Types DEF ClassesTypeOK, LoadFails
<1> QED BY <1>4, <1>5, <1>6, <1>7 DEF ClassesIInv

(* The status changes, and the constructor is looked for. *)
LEMMA SetFinishedKeeps ==
    ASSUME ClassesAssumption, ClassesIInv, SetFinished
    PROVE  ClassesIInv'
<1>1. PICK n \in Nat :
          /\ n = Len(calls) /\ n > 0 /\ DOMAIN calls = 1..n /\ n \in DOMAIN calls
          /\ Top = calls[n] /\ calls[n] \in Calls
          /\ Shape(calls[n]) /\ ConstructorReady(n) /\ Served(n)
  BY TopCall DEF SetFinished, At
<1>2. PICK k \in Classes : k = calls[n].of /\ calls[n].fn = "class" /\ calls[n].at = "load" /\ k = Top.of
  BY <1>1 DEF SetFinished, At, Shape
<1>3. cctorStatus' = [cctorStatus EXCEPT ![k] = "InitSelf"] /\ cctorStatus'[k] = "InitSelf"
  BY <1>2, Types DEF SetFinished
<1>4. Monotone
  <2>1. \A j \in Classes : Started(j) => cctorStatus'[j] # "NotInited"
    BY <1>3, Types DEF Started
  <2> QED BY <2>1, Types DEF Monotone, SetFinished
<1>5. ObjectsFollowParents'
  BY <1>4, ObjectsKept DEF SetFinished
<1>6. \A j \in Classes : initFlags[j] = "failedEarly" => initFlags'[j] = "failedEarly"
  BY <1>2, Types DEF SetFinished
<1>7. ASSUME NEW j \in Classes \cap WithCctor, j # k, cctorStatus'[j] # "NotInited"
      PROVE  attempts'[j] > 0 \/ initFlags'[j] = "failedEarly"
  <2>1. Started(j)
    BY <1>3, <1>7, Types DEF Started
  <2>2. attempts[j] > 0 \/ initFlags[j] = "failedEarly"
    BY <2>1, <1>1, <1>2 DEF ClassesIInv, AttemptedOrFirst
  <2> QED BY <2>2, <1>6 DEF SetFinished
<1>8. CASE k \in WithCctor /\ initFlags[k] # "failedEarly"
  <2>1. calls' = Advance("invoke")
    BY <1>2, <1>8 DEF SetFinished
  <2>2. /\ calls' \in Seq(Calls) /\ Len(calls') = n
        /\ \A i \in 1..(n - 1) : calls'[i] = calls[i]
        /\ calls'[n].fn = "class" /\ calls'[n].of = k /\ calls'[n].at = "invoke"
        /\ Shape(calls[n])' /\ ConstructorReady(n)' /\ Served(n)' => CallsSound'
    BY <1>1, <1>2, <1>4, <2>1, AdvanceKeeps
  <2>3. Shape(calls[n])' /\ Served(n)'
    BY <1>3, <1>8, <2>2 DEF Shape, Served, Started
  <2>4. ConstructorReady(n)'
    <3>1. ModuleDone(ModuleOf[k], n)
      BY <1>2, <1>1 DEF Served
    <3>2. ModuleDone(ModuleOf[k], n)'
      BY <3>1, <2>2 DEF ModuleDone, SetFinished
    <3> QED BY <3>2, <2>2 DEF ConstructorReady
  <2>5. ModulesEnd'
    <3>1. ASSUME NEW i \in DOMAIN calls, calls[i].at \in {"invoke", "body"}
          PROVE  i \in DOMAIN calls' /\ calls'[i] = calls[i]
      <4>1. i \in 1..(n - 1)
        BY <1>1, <1>2, <3>1
      <4>2. DOMAIN calls' = 1..n
        BY <2>2
      <4> QED BY <4>1, <4>2, <1>1, <2>2
    <3> QED BY <3>1, ModulesEndKept DEF SetFinished
  <2>6. AttemptedOrFirst'
    <3>1. calls' # <<>> /\ Top' = calls'[n]
      BY <1>1, <2>2 DEF Top
    <3> QED BY <1>7, <2>2, <3>1 DEF AttemptedOrFirst, Started
  <2>7. ClassesTypeOK'
    BY <1>2, <2>2, Types DEF ClassesTypeOK, SetFinished
  <2> QED BY <1>5, <2>2, <2>3, <2>4, <2>5, <2>6, <2>7 DEF ClassesIInv
<1>9. CASE ~(k \in WithCctor /\ initFlags[k] # "failedEarly")
  <2>1. calls' = Return
    BY <1>2, <1>9 DEF SetFinished
  <2>2. /\ calls' \in Seq(Calls) /\ Len(calls') = n - 1
        /\ \A i \in 1..(n - 1) : calls'[i] = calls[i]
        /\ CallsSound'
    BY <1>1, <1>2, <1>3, <1>4, <2>1, ReturnKeeps
  <2>3. ModulesEnd'
    <3>1. ASSUME NEW i \in DOMAIN calls, calls[i].at \in {"invoke", "body"}
          PROVE  i \in DOMAIN calls' /\ calls'[i] = calls[i]
      <4>1. i \in 1..(n - 1)
        BY <1>1, <1>2, <3>1
      <4>2. DOMAIN calls' = 1..(n - 1)
        BY <1>1, <2>2
      <4> QED BY <4>1, <4>2, <2>2
    <3> QED BY <3>1, ModulesEndKept DEF SetFinished
  <2>4. AttemptedOrFirst'
    BY <1>6, <1>7, <1>9 DEF AttemptedOrFirst, Started
  <2>5. ClassesTypeOK'
    BY <1>2, <2>2, Types DEF ClassesTypeOK, SetFinished
  <2> QED BY <1>5, <2>2, <2>3, <2>4, <2>5 DEF ClassesIInv
<1> QED BY <1>8, <1>9

(* The constructor is entered. *)
LEMMA StartBodyKeeps ==
    ASSUME ClassesAssumption, ClassesIInv, StartBody
    PROVE  ClassesIInv'
<1>1. PICK n \in Nat :
          /\ n = Len(calls) /\ n > 0 /\ DOMAIN calls = 1..n /\ n \in DOMAIN calls
          /\ Top = calls[n] /\ calls[n] \in Calls
          /\ Shape(calls[n]) /\ ConstructorReady(n) /\ Served(n)
  BY TopCall DEF StartBody
<1>2. PICK c \in WithCctor : c = calls[n].of /\ calls[n].at = "invoke" /\ c = Top.of
  BY <1>1 DEF StartBody, Shape
<1>3. /\ calls[n].fn \in {"class", "module"}
      /\ calls[n].fn = "class" => c \in Classes /\ Started(c)
      /\ calls[n].fn = "module" => c \in Modules
  BY <1>1, <1>2 DEF Shape, Calls
<1>4. attempts' = [attempts EXCEPT ![c] = @ + 1] /\ attempts[c] \in Nat /\ attempts'[c] = attempts[c] + 1
  BY <1>2, Types DEF StartBody
<1>5. attempts' \in [WithCctor -> Nat] /\ \A d \in WithCctor : attempts[d] <= attempts'[d]
  BY <1>4, Types
<1>6. Monotone
  BY <1>5, Types DEF Monotone, StartBody, Started
<1>7. /\ calls' \in Seq(Calls) /\ Len(calls') = n
      /\ \A i \in 1..(n - 1) : calls'[i] = calls[i]
      /\ calls'[n].fn = calls[n].fn /\ calls'[n].of = c /\ calls'[n].at = "body"
      /\ Shape(calls[n])' /\ ConstructorReady(n)' /\ Served(n)' => CallsSound'
  BY <1>1, <1>2, <1>6, AdvanceKeeps DEF StartBody
<1>8. Shape(calls[n])'
  BY <1>2, <1>3, <1>4, <1>7 DEF Shape, Started, StartBody
<1>9. ConstructorReady(n)'
  <2>1. SUFFICES ASSUME calls[n].fn = "class" PROVE ModuleDone(ModuleOf[c], n)'
    BY <1>7 DEF ConstructorReady
  <2>2. ModuleDone(ModuleOf[c], n)
    BY <1>1, <1>2, <2>1 DEF ConstructorReady
  <2> QED BY <2>2, <1>7 DEF ModuleDone, StartBody
<1>10. Served(n)'
  BY <1>7 DEF Served
<1>11. ModulesEnd'
  <2>1. ASSUME NEW i \in DOMAIN calls, calls[i].at \in {"invoke", "body"}
        PROVE  i \in DOMAIN calls' /\ calls'[i].of = calls[i].of /\ calls'[i].at \in {"invoke", "body"}
    <3>1. i = n \/ i \in 1..(n - 1)
      BY <1>1
    <3>2. DOMAIN calls' = 1..n
      BY <1>7
    <3> QED BY <3>1, <3>2, <1>1, <1>2, <1>7, <2>1
  <2> QED BY <2>1, ModulesEndKept DEF StartBody
<1>12. AttemptedOrFirst'
  BY <1>2, <1>4, <1>6, AttemptedKept DEF StartBody
<1>13. ObjectsFollowParents'
  BY <1>6, ObjectsKept DEF StartBody
<1>14. ClassesTypeOK'
  BY <1>5, <1>7, Types DEF ClassesTypeOK, StartBody
<1> QED BY <1>7, <1>8, <1>9, <1>10, <1>11, <1>12, <1>13, <1>14 DEF ClassesIInv

(* The constructor cannot be entered. *)
LEMMA RefuseBodyKeeps ==
    ASSUME ClassesAssumption, ClassesIInv, RefuseBody
    PROVE  ClassesIInv'
<1>1. PICK n \in Nat :
          /\ n = Len(calls) /\ n > 0 /\ DOMAIN calls = 1..n /\ n \in DOMAIN calls
          /\ Top = calls[n] /\ calls[n] \in Calls
          /\ Shape(calls[n]) /\ ConstructorReady(n) /\ Served(n)
  BY TopCall DEF RefuseBody
<1>2. PICK c \in WithCctor : c = calls[n].of /\ calls[n].at = "invoke" /\ c = Top.of
  BY <1>1 DEF RefuseBody, Shape
<1>3. attempts' = [attempts EXCEPT ![c] = @ + 1] /\ attempts'[c] = attempts[c] + 1 /\ attempts[c] \in Nat
  BY <1>2, Types DEF RefuseBody
<1>4. attempts' \in [WithCctor -> Nat] /\ \A d \in WithCctor : attempts[d] <= attempts'[d]
  BY <1>3, Types
<1>5. Monotone
  BY <1>4, Types DEF Monotone, RefuseBody, Started
<1>6. /\ CallsSound' /\ calls' \in Seq(Calls)
      /\ \A i \in DOMAIN calls :
             \/ i \in DOMAIN calls' /\ calls'[i] = calls[i]
             \/ i = Len(calls)
             \/ calls[i].at \notin {"invoke", "body"}
  BY <1>5, FailKeeps DEF RefuseBody
<1>7. ModulesEnd'
  BY <1>1, <1>2, <1>6, ModulesEndKept DEF RefuseBody
<1>8. AttemptedOrFirst'
  BY <1>1, <1>2, <1>3, <1>5, AttemptedKept DEF RefuseBody
<1>9. ObjectsFollowParents'
  BY <1>5, ObjectsKept DEF RefuseBody
<1>10. ClassesTypeOK'
  BY <1>2, <1>4, <1>6, Types DEF ClassesTypeOK, RefuseBody
<1> QED BY <1>6, <1>7, <1>8, <1>9, <1>10 DEF ClassesIInv

(* The constructor throws, and all calls up to managed code fail. *)
LEMMA BodyThrowsKeeps ==
    ASSUME ClassesAssumption, ClassesIInv, BodyThrows
    PROVE  ClassesIInv'
<1>1. PICK n \in Nat :
          /\ n = Len(calls) /\ n > 0 /\ DOMAIN calls = 1..n /\ n \in DOMAIN calls
          /\ Top = calls[n] /\ calls[n] \in Calls
          /\ Shape(calls[n]) /\ ConstructorReady(n) /\ Served(n)
  BY TopCall DEF BodyThrows
<1>2. PICK c \in WithCctor : c = calls[n].of /\ calls[n].at = "body" /\ c = Top.of
  BY <1>1 DEF BodyThrows, Shape
<1>3. attempts' = attempts
  BY DEF BodyThrows
<1>4. attempts' \in [WithCctor -> Nat] /\ \A d \in WithCctor : attempts[d] <= attempts'[d]
  BY <1>3, Types
<1>5. Monotone
  BY <1>4, Types DEF Monotone, BodyThrows, Started
<1>6. /\ CallsSound' /\ calls' \in Seq(Calls)
      /\ \A i \in DOMAIN calls :
             \/ i \in DOMAIN calls' /\ calls'[i] = calls[i]
             \/ i = Len(calls)
             \/ calls[i].at \notin {"invoke", "body"}
  BY <1>5, FailKeeps DEF BodyThrows
<1>7. ModulesEnd'
  BY <1>1, <1>2, <1>6, ModulesEndKept DEF BodyThrows
<1>8. AttemptedOrFirst'
  BY <1>1, <1>2, <1>3, <1>5, AttemptedKept DEF BodyThrows
<1>9. ObjectsFollowParents'
  BY <1>5, ObjectsKept DEF BodyThrows
<1>10. ClassesTypeOK'
  BY <1>2, <1>4, <1>6, Types DEF ClassesTypeOK, BodyThrows
<1> QED BY <1>6, <1>7, <1>8, <1>9, <1>10 DEF ClassesIInv

(* The constructor returns, and so does the call that invoked it. *)
LEMMA BodyReturnsKeeps ==
    ASSUME ClassesAssumption, ClassesIInv, BodyReturns
    PROVE  ClassesIInv'
<1>1. PICK n \in Nat :
          /\ n = Len(calls) /\ n > 0 /\ DOMAIN calls = 1..n /\ n \in DOMAIN calls
          /\ Top = calls[n] /\ calls[n] \in Calls
          /\ Shape(calls[n]) /\ ConstructorReady(n) /\ Served(n)
  BY TopCall DEF BodyReturns
<1>2. PICK c \in WithCctor : c = calls[n].of /\ calls[n].at = "body" /\ c = Top.of
  BY <1>1 DEF BodyReturns, Shape
<1>3. /\ calls[n].fn \in {"class", "module"}
      /\ calls[n].fn = "class" => Started(c)
  BY <1>1, <1>2 DEF Shape, Calls
<1>4. Monotone
  BY Types DEF Monotone, Started, BodyReturns
<1>5. /\ calls' \in Seq(Calls) /\ Len(calls') = n - 1
      /\ \A i \in 1..(n - 1) : calls'[i] = calls[i]
      /\ CallsSound'
  <2>1. calls' = Return /\ c \in ended' /\ UNCHANGED cctorStatus
    BY <1>2 DEF BodyReturns
  <2>2. calls[n].fn \in {"class", "hierarchy"} => cctorStatus'[calls[n].of] # "NotInited"
    BY <1>2, <1>3, <2>1 DEF Started
  <2> QED BY <1>1, <1>2, <1>4, <2>1, <2>2, ReturnKeeps
<1>6. ModulesEnd'
  <2>1. ASSUME NEW i \in DOMAIN calls, calls[i].at \in {"invoke", "body"}
        PROVE  \/ i \in DOMAIN calls' /\ calls'[i] = calls[i]
               \/ calls[i].of \in ended'
    <3>1. i = n \/ i \in 1..(n - 1)
      BY <1>1
    <3>2. DOMAIN calls' = 1..(n - 1)
      BY <1>1, <1>5
    <3> QED BY <3>1, <3>2, <1>2, <1>5 DEF BodyReturns
  <2> QED BY <2>1, ModulesEndKept DEF BodyReturns
<1>7. AttemptedOrFirst' /\ ObjectsFollowParents'
  BY <1>1, <1>2, <1>4, AttemptedKept, ObjectsKept DEF BodyReturns
<1>8. ClassesTypeOK'
  BY <1>2, <1>5, Types DEF ClassesTypeOK, BodyReturns
<1> QED BY <1>5, <1>6, <1>7, <1>8 DEF ClassesIInv
-----------------------------------------------------------------------------
(* The calls when the innermost one goes to a point and makes a call.      *)
LEMMA HierarchyCalls ==
    ASSUME ClassesAssumption, ClassesIInv, NEW n \in Nat, n = Len(calls), n > 0,
           calls[n] \in Calls,
           NEW point \in {"parent", "mark"}, NEW call \in Calls,
           calls' = CallThen(point, call)
    PROVE  /\ calls' \in Seq(Calls) /\ Len(calls') = n + 1 /\ DOMAIN calls' = 1..(n + 1)
           /\ calls'[n + 1] = call
           /\ calls'[n].fn = calls[n].fn /\ calls'[n].of = calls[n].of /\ calls'[n].at = point
           /\ \A i \in 1..(n - 1) : calls'[i] = calls[i]
<1>1. n \in 1..Len(calls) /\ calls \in Seq(Calls)
  BY Types
<1>2. PICK moved \in Calls : /\ moved = [calls[n] EXCEPT !.at = point]
                             /\ moved.fn = calls[n].fn /\ moved.of = calls[n].of /\ moved.at = point
  <2>1. /\ [calls[n] EXCEPT !.at = point] \in Calls
        /\ [calls[n] EXCEPT !.at = point].fn = calls[n].fn
        /\ [calls[n] EXCEPT !.at = point].of = calls[n].of
        /\ [calls[n] EXCEPT !.at = point].at = point
    <3>1. PICK reachable \in {"load", "parent", "mark", "invoke", "body"} : reachable = point
      OBVIOUS
    <3>2. PICK own \in Calls : own = calls[n]
      OBVIOUS
    <3>3. /\ [own EXCEPT !.at = reachable] \in Calls
          /\ [own EXCEPT !.at = reachable].fn = own.fn
          /\ [own EXCEPT !.at = reachable].of = own.of
          /\ [own EXCEPT !.at = reachable].at = reachable
      BY Moved
    <3> QED BY <3>1, <3>2, <3>3
  <2> QED BY <2>1
<1>3. PICK reached \in Seq(Calls) :
          /\ reached = [calls EXCEPT ![n] = moved] /\ Len(reached) = n /\ reached[n] = moved
          /\ \A j \in 1..n : j # n => reached[j] = calls[j]
  <2>1. /\ [calls EXCEPT ![n] = moved] \in Seq(Calls)
        /\ Len([calls EXCEPT ![n] = moved]) = Len(calls)
        /\ [calls EXCEPT ![n] = moved][n] = moved
        /\ \A j \in 1..Len(calls) : j # n => [calls EXCEPT ![n] = moved][j] = calls[j]
    BY <1>1, Replaced
  <2> QED BY <2>1
<1>4. calls' = Append(reached, call)
  BY <1>2, <1>3 DEF CallThen, Advance
<1>5. /\ calls' \in Seq(Calls) /\ Len(calls') = n + 1 /\ calls'[n + 1] = call
      /\ \A j \in 1..n : calls'[j] = reached[j]
  BY <1>3, <1>4
<1>6. n \in 1..n /\ \A i \in 1..(n - 1) : i \in 1..n /\ i # n
  OBVIOUS
<1>7. DOMAIN calls' = 1..(n + 1)
  BY <1>5
<1> QED BY <1>2, <1>3, <1>5, <1>6, <1>7

(* The hierarchy begins with the class itself. *)
LEMMA EnterHierarchyKeeps ==
    ASSUME ClassesAssumption, ClassesIInv, EnterHierarchy
    PROVE  ClassesIInv'
<1>1. PICK n \in Nat :
          /\ n = Len(calls) /\ n > 0 /\ DOMAIN calls = 1..n /\ n \in DOMAIN calls
          /\ Top = calls[n] /\ calls[n] \in Calls
          /\ Shape(calls[n]) /\ ConstructorReady(n) /\ Served(n)
  BY TopCall DEF EnterHierarchy, At
<1>2. PICK k \in Classes : k = calls[n].of /\ calls[n].fn = "hierarchy" /\ calls[n].at = "enter" /\ k = Top.of
  BY <1>1 DEF EnterHierarchy, At, Shape
<1>3. Monotone
  BY UnchangedMonotone DEF EnterHierarchy
<1>4. AttemptedOrFirst' /\ ObjectsFollowParents'
  BY <1>1, <1>2, <1>3, AttemptedKept, ObjectsKept DEF EnterHierarchy
<1>5. CASE cctorStatus[k] = "NotInited"
  <2>1. PICK call \in Calls : call = CallOf("class", k) /\ call.fn = "class" /\ call.of = k
                              /\ call.at = "enter" /\ call.of \in Classes
    <3>1. k \in Classes
      BY <1>5 DEF ClassesAssumption
    <3>2. /\ CallOf("class", k) \in Calls
          /\ CallOf("class", k).fn = "class" /\ CallOf("class", k).of = k
          /\ CallOf("class", k).at = "enter"
      BY <3>1 DEF Calls, CallOf
    <3> QED BY <3>1, <3>2
  <2>2. calls' = CallThen("parent", call)
    BY <1>2, <1>5, <2>1 DEF EnterHierarchy
  <2>3. /\ calls' \in Seq(Calls) /\ Len(calls') = n + 1 /\ DOMAIN calls' = 1..(n + 1)
        /\ calls'[n + 1] = call
        /\ calls'[n].fn = "hierarchy" /\ calls'[n].of = k /\ calls'[n].at = "parent"
        /\ \A i \in 1..(n - 1) : calls'[i] = calls[i]
    BY <1>1, <1>2, <2>2, HierarchyCalls
  <2>4. CallsSound'
    <3>1. Shape(calls[n])' /\ WaitsFor(calls[n], call)'
      <4>1. Shape(calls[n])'
        BY <2>3 DEF Shape
      <4> QED BY <2>1, <2>3, <4>1 DEF WaitsFor
    <3>2. SameCall(calls'[n], calls[n]) /\ calls'[n].at \in {"load", "parent", "mark"}
      BY <1>2, <2>3 DEF SameCall
    <3> QED BY <1>1, <1>3, <2>1, <2>3, <3>1, <3>2, CallThenKeeps
  <2>5. ModulesEnd'
    <3>1. ASSUME NEW i \in DOMAIN calls, calls[i].at \in {"invoke", "body"}
          PROVE  i \in DOMAIN calls' /\ calls'[i] = calls[i]
      <4>1. i \in 1..(n - 1)
        BY <1>1, <1>2, <3>1
      <4> QED BY <4>1, <1>1, <2>3
    <3> QED BY <3>1, ModulesEndKept DEF EnterHierarchy
  <2>6. ClassesTypeOK'
    BY <2>3, Types DEF ClassesTypeOK, EnterHierarchy
  <2> QED BY <1>4, <2>4, <2>5, <2>6 DEF ClassesIInv
<1>6. CASE ~(cctorStatus[k] = "NotInited")
  <2>1. calls' = Advance("parent")
    BY <1>2, <1>6 DEF EnterHierarchy
  <2>2. /\ calls' \in Seq(Calls) /\ Len(calls') = n
        /\ \A i \in 1..(n - 1) : calls'[i] = calls[i]
        /\ calls'[n].fn = "hierarchy" /\ calls'[n].of = k /\ calls'[n].at = "parent"
        /\ Shape(calls[n])' /\ ConstructorReady(n)' /\ Served(n)' => CallsSound'
    BY <1>1, <1>2, <1>3, <2>1, AdvanceKeeps
  <2>3. Shape(calls[n])' /\ ConstructorReady(n)'
    BY <2>2 DEF Shape, ConstructorReady
  <2>4. Served(n)'
    <3>1. UNCHANGED cctorStatus
      BY DEF EnterHierarchy
    <3> QED BY <1>1, <1>2, <1>6, <2>2, <3>1 DEF Served, Started
  <2>5. ModulesEnd'
    <3>1. ASSUME NEW i \in DOMAIN calls, calls[i].at \in {"invoke", "body"}
          PROVE  i \in DOMAIN calls' /\ calls'[i] = calls[i]
      <4>1. i \in 1..(n - 1)
        BY <1>1, <1>2, <3>1
      <4>2. DOMAIN calls' = 1..n
        BY <2>2
      <4> QED BY <4>1, <4>2, <1>1, <2>2
    <3> QED BY <3>1, ModulesEndKept DEF EnterHierarchy
  <2>6. ClassesTypeOK'
    BY <2>2, Types DEF ClassesTypeOK, EnterHierarchy
  <2> QED BY <1>4, <2>2, <2>3, <2>4, <2>5, <2>6 DEF ClassesIInv
<1> QED BY <1>5, <1>6

(* The hierarchy goes on with the parent. *)
LEMMA EnterParentKeeps ==
    ASSUME ClassesAssumption, ClassesIInv, EnterParent
    PROVE  ClassesIInv'
<1>1. PICK n \in Nat :
          /\ n = Len(calls) /\ n > 0 /\ DOMAIN calls = 1..n /\ n \in DOMAIN calls
          /\ Top = calls[n] /\ calls[n] \in Calls
          /\ Shape(calls[n]) /\ ConstructorReady(n) /\ Served(n)
  BY TopCall DEF EnterParent, At
<1>2. PICK k \in Classes : k = calls[n].of /\ calls[n].fn = "hierarchy" /\ calls[n].at = "parent" /\ k = Top.of
  BY <1>1 DEF EnterParent, At, Shape
<1>3. Monotone
  BY UnchangedMonotone DEF EnterParent
<1>4. AttemptedOrFirst' /\ ObjectsFollowParents'
  BY <1>1, <1>2, <1>3, AttemptedKept, ObjectsKept DEF EnterParent
<1>5. CASE Parent[k] # NoClass /\ cctorStatus[Parent[k]] # "InitHierarchy"
  <2>1. PICK call \in Calls : call = CallOf("hierarchy", Parent[k]) /\ call.fn = "hierarchy" /\ call.of = Parent[k]
                              /\ call.at = "enter" /\ call.of \in Classes
    <3>1. Parent[k] \in Classes
      BY <1>5 DEF ClassesAssumption
    <3>2. /\ CallOf("hierarchy", Parent[k]) \in Calls
          /\ CallOf("hierarchy", Parent[k]).fn = "hierarchy" /\ CallOf("hierarchy", Parent[k]).of = Parent[k]
          /\ CallOf("hierarchy", Parent[k]).at = "enter"
      BY <3>1 DEF Calls, CallOf
    <3> QED BY <3>1, <3>2
  <2>2. calls' = CallThen("mark", call)
    BY <1>2, <1>5, <2>1 DEF EnterParent
  <2>3. /\ calls' \in Seq(Calls) /\ Len(calls') = n + 1 /\ DOMAIN calls' = 1..(n + 1)
        /\ calls'[n + 1] = call
        /\ calls'[n].fn = "hierarchy" /\ calls'[n].of = k /\ calls'[n].at = "mark"
        /\ \A i \in 1..(n - 1) : calls'[i] = calls[i]
    BY <1>1, <1>2, <2>2, HierarchyCalls
  <2>4. CallsSound'
    <3>1. Shape(calls[n])' /\ WaitsFor(calls[n], call)'
      <4>1. Shape(calls[n])'
        BY <2>3 DEF Shape
      <4>2. Started(k)'
        BY <1>1, <1>2 DEF Served, Started, EnterParent
      <4> QED BY <2>1, <2>3, <4>1, <4>2 DEF WaitsFor
    <3>2. SameCall(calls'[n], calls[n]) /\ calls'[n].at \in {"load", "parent", "mark"}
      BY <1>2, <2>3 DEF SameCall
    <3> QED BY <1>1, <1>3, <2>1, <2>3, <3>1, <3>2, CallThenKeeps
  <2>5. ModulesEnd'
    <3>1. ASSUME NEW i \in DOMAIN calls, calls[i].at \in {"invoke", "body"}
          PROVE  i \in DOMAIN calls' /\ calls'[i] = calls[i]
      <4>1. i \in 1..(n - 1)
        BY <1>1, <1>2, <3>1
      <4> QED BY <4>1, <1>1, <2>3
    <3> QED BY <3>1, ModulesEndKept DEF EnterParent
  <2>6. ClassesTypeOK'
    BY <2>3, Types DEF ClassesTypeOK, EnterParent
  <2> QED BY <1>4, <2>4, <2>5, <2>6 DEF ClassesIInv
<1>6. CASE ~(Parent[k] # NoClass /\ cctorStatus[Parent[k]] # "InitHierarchy")
  <2>1. calls' = Advance("mark")
    BY <1>2, <1>6 DEF EnterParent
  <2>2. /\ calls' \in Seq(Calls) /\ Len(calls') = n
        /\ \A i \in 1..(n - 1) : calls'[i] = calls[i]
        /\ calls'[n].fn = "hierarchy" /\ calls'[n].of = k /\ calls'[n].at = "mark"
        /\ Shape(calls[n])' /\ ConstructorReady(n)' /\ Served(n)' => CallsSound'
    BY <1>1, <1>2, <1>3, <2>1, AdvanceKeeps
  <2>3. Shape(calls[n])' /\ ConstructorReady(n)'
    BY <2>2 DEF Shape, ConstructorReady
  <2>4. Served(n)'
    <3>1. UNCHANGED cctorStatus
      BY DEF EnterParent
    <3> QED BY <1>1, <1>2, <1>6, <2>2, <3>1 DEF Served, Started
  <2>5. ModulesEnd'
    <3>1. ASSUME NEW i \in DOMAIN calls, calls[i].at \in {"invoke", "body"}
          PROVE  i \in DOMAIN calls' /\ calls'[i] = calls[i]
      <4>1. i \in 1..(n - 1)
        BY <1>1, <1>2, <3>1
      <4>2. DOMAIN calls' = 1..n
        BY <2>2
      <4> QED BY <4>1, <4>2, <1>1, <2>2
    <3> QED BY <3>1, ModulesEndKept DEF EnterParent
  <2>6. ClassesTypeOK'
    BY <2>2, Types DEF ClassesTypeOK, EnterParent
  <2> QED BY <1>4, <2>2, <2>3, <2>4, <2>5, <2>6 DEF ClassesIInv
<1> QED BY <1>5, <1>6

(* The hierarchy ends; an object may be created. *)
LEMMA MarkHierarchyKeeps ==
    ASSUME ClassesAssumption, ClassesIInv, MarkHierarchy
    PROVE  ClassesIInv'
<1>1. PICK n \in Nat :
          /\ n = Len(calls) /\ n > 0 /\ DOMAIN calls = 1..n /\ n \in DOMAIN calls
          /\ Top = calls[n] /\ calls[n] \in Calls
          /\ Shape(calls[n]) /\ ConstructorReady(n) /\ Served(n)
  BY TopCall DEF MarkHierarchy, At
<1>2. PICK k \in Classes : k = calls[n].of /\ calls[n].fn = "hierarchy" /\ calls[n].at = "mark" /\ k = Top.of
  BY <1>1 DEF MarkHierarchy, At, Shape
<1>3. Started(k) /\ (Parent[k] = NoClass \/ Started(Parent[k]))
  BY <1>1, <1>2 DEF Served
<1>4. Monotone
  BY UnchangedMonotone DEF MarkHierarchy
<1>5. /\ calls' \in Seq(Calls) /\ Len(calls') = n - 1
      /\ \A i \in 1..(n - 1) : calls'[i] = calls[i]
      /\ CallsSound'
  <2>1. calls' = Return /\ UNCHANGED cctorStatus
    BY DEF MarkHierarchy
  <2>2. calls[n].fn \in {"class", "hierarchy"} => cctorStatus'[calls[n].of] # "NotInited"
    BY <1>2, <1>3, <2>1 DEF Started
  <2>3. calls[n].fn # "module"
    BY <1>2
  <2> QED BY <1>1, <1>4, <2>1, <2>2, <2>3, ReturnKeeps
<1>6. ModulesEnd'
  <2>1. ASSUME NEW i \in DOMAIN calls, calls[i].at \in {"invoke", "body"}
        PROVE  i \in DOMAIN calls' /\ calls'[i] = calls[i]
    <3>1. i \in 1..(n - 1)
      BY <1>1, <1>2, <2>1
    <3>2. DOMAIN calls' = 1..(n - 1)
      BY <1>1, <1>5
    <3> QED BY <3>1, <3>2, <1>5
  <2> QED BY <2>1, ModulesEndKept DEF MarkHierarchy
<1>7. AttemptedOrFirst'
  BY <1>1, <1>2, <1>4, AttemptedKept DEF MarkHierarchy
<1>8. created' \subseteq created \cup {k}
  BY <1>2 DEF MarkHierarchy
<1>9. ObjectsFollowParents'
  <2>1. UNCHANGED cctorStatus
    BY DEF MarkHierarchy
  <2>2. ASSUME NEW c \in created'
        PROVE  cctorStatus[c] # "NotInited" /\ (Parent[c] # NoClass => cctorStatus[Parent[c]] # "NotInited")
    <3>1. CASE c = k
      BY <3>1, <1>3 DEF Started
    <3>2. CASE c # k
      BY <3>2, <1>8 DEF ClassesIInv, ObjectsFollowParents
    <3> QED BY <3>1, <3>2
  <2> QED BY <2>1, <2>2 DEF ObjectsFollowParents
<1>10. ClassesTypeOK'
  BY <1>5, <1>8, Types DEF ClassesTypeOK, MarkHierarchy
<1> QED BY <1>5, <1>6, <1>7, <1>9, <1>10 DEF ClassesIInv
-----------------------------------------------------------------------------
(* Nothing has been initialized, and no call is in progress. *)
LEMMA ClassesInitially ==
    ASSUME ClassesAssumption, ClassesInit
    PROVE  ClassesIInv
<1>1. ClassesTypeOK
  BY DEF ClassesTypeOK, ClassesInit
<1>2. CallsSound /\ ModulesEnd /\ AttemptedOrFirst /\ ObjectsFollowParents
  BY DEF ClassesInit, CallsSound, ModulesEnd, AttemptedOrFirst, ObjectsFollowParents, Started
<1> QED BY <1>1, <1>2 DEF ClassesIInv

(* Nothing changes. *)
LEMMA ClassesStutter ==
    ASSUME ClassesIInv, UNCHANGED classVars
    PROVE  ClassesIInv'
<1>1. ClassesTypeOK' /\ ObjectsFollowParents'
  BY DEF ClassesIInv, ClassesTypeOK, ObjectsFollowParents, classVars
<1>2. ModulesEnd' /\ AttemptedOrFirst'
  BY DEF ClassesIInv, ModulesEnd, AttemptedOrFirst, Started, Top, classVars
<1>3. CallsSound'
  BY DEF ClassesIInv, CallsSound, Shape, ConstructorReady, ModuleDone, WaitsFor, Served, Started, classVars
<1> QED BY <1>1, <1>2, <1>3 DEF ClassesIInv

(* Every step keeps the invariant. *)
LEMMA ClassesStep ==
    ASSUME ClassesAssumption, ClassesIInv, [ClassesNext]_classVars
    PROVE  ClassesIInv'
<1>1. RuntimeStep => ClassesIInv'
  BY EnterModuleKeeps, LookUpFailsKeeps, EnterClassKeeps, LoadFailsKeeps, SetFinishedKeeps,
     EnterHierarchyKeeps, EnterParentKeeps, MarkHierarchyKeeps DEF RuntimeStep
<1> QED BY <1>1, ManagedUseKeeps, StartBodyKeeps, RefuseBodyKeeps, BodyReturnsKeeps, BodyThrowsKeeps,
           ClassesStutter DEF ClassesNext

(***************************************************************************)
(* The invariant of static constructors: whatever classes managed code     *)
(* uses and whichever constructors fail, every call in progress of         *)
(* run_class_static_constructor and of the functions about it has what it  *)
(* relies on.                                                              *)
(***************************************************************************)
THEOREM ClassesInvariance == ClassesSpec => []ClassesIInv
<1>1. ClassesInit => ClassesIInv
  BY ClassesAssumption, ClassesInitially
<1>2. ClassesIInv /\ [ClassesNext]_classVars => ClassesIInv'
  BY ClassesAssumption, ClassesStep
<1> QED BY <1>1, <1>2, PTL DEF ClassesSpec
-----------------------------------------------------------------------------
(* What the invariant implies *)
LEMMA InvariantMeansAttempted ==
    ASSUME ClassesIInv
    PROVE  FinishedMeansAttempted
<1>1. calls # <<>> => Len(calls) \in DOMAIN calls
  BY Types
<1> QED BY <1>1 DEF ClassesIInv, AttemptedOrFirst, FinishedMeansAttempted, InConstructor, Started, Top

(* The calls on the stack tell that the module came first. *)
LEMMA InvariantMeansModuleFirst ==
    ASSUME ClassesAssumption, ClassesIInv
    PROVE  ModuleRunsFirst
<1>1. ASSUME NEW i \in DOMAIN calls, NEW k \in Classes, InConstructor(i, k)
      PROVE  ModuleDone(ModuleOf[k], i)
  <2>1. Shape(calls[i]) /\ ConstructorReady(i)
    BY DEF ClassesIInv, CallsSound
  <2>2. calls[i].fn \in {"class", "hierarchy", "module"}
    BY CallType
  <2>3. calls[i].fn = "class"
    BY <1>1, <2>1, <2>2 DEF Shape, InConstructor, ClassesAssumption
  <2> QED BY <1>1, <2>1, <2>3 DEF ConstructorReady, InConstructor
<1> QED BY <1>1 DEF ModuleRunsFirst, ModuleDone
-----------------------------------------------------------------------------
(***************************************************************************)
(* How often a constructor is invoked. A class call that finds the module  *)
(* unfinished is marked as waiting; there is one for each module at most,  *)
(* because the next step sets the module's flag. Every other class call    *)
(* reaches its constructor before anything else runs.                      *)
(***************************************************************************)
Waiting(i) == calls[i].fn = "class" /\ calls[i].waited /\ calls[i].at \in {"load", "invoke"}

(* The i-th call has called the module's function, which is about to begin. *)
Asks(i) == i + 1 = Len(calls) /\ calls[i + 1].at = "enter"

Fresh(i) ==
    /\ calls[i].at = "enter" => ~calls[i].waited
    /\ calls[i].fn = "module" /\ calls[i].at = "invoke" => moduleFinished[calls[i].of]
    /\ calls[i].fn = "class" /\ calls[i].at = "load" /\ ~calls[i].waited =>
           /\ ~Started(calls[i].of)
           /\ \/ i = Len(calls)
              \/ Asks(i) /\ (moduleFinished[ModuleOf[calls[i].of]] \/ ModuleOf[calls[i].of] \notin WithCctor)
    /\ Waiting(i) =>
           /\ ModuleOf[calls[i].of] \in WithCctor
           /\ calls[i].of \in WithCctor => attempts[calls[i].of] <= 1
           /\ moduleFinished[ModuleOf[calls[i].of]] \/ Asks(i)

OneWaits ==
    \A i, j \in DOMAIN calls :
        Waiting(i) /\ Waiting(j) /\ ModuleOf[calls[i].of] = ModuleOf[calls[j].of] => i = j

NotStartedNotAttempted ==
    /\ \A c \in Classes \cap WithCctor : ~Started(c) => attempts[c] = 0
    /\ \A m \in Modules \cap WithCctor : ~moduleFinished[m] => attempts[m] = 0

FirstInvoke ==
    calls # <<>> /\ Top.at = "invoke" /\ ~(Top.fn = "class" /\ Top.waited) => attempts[Top.of] = 0

AttemptsIInv ==
    /\ \A i \in DOMAIN calls : Fresh(i)
    /\ OneWaits
    /\ NotStartedNotAttempted
    /\ FirstInvoke

(* Below a call that is not one of the module's function about to begin,   *)
(* what waits at "load" has been marked, and the module's flag is set.     *)
LEMMA Below ==
    ASSUME ClassesIInv, AttemptsIInv, NEW n \in Nat, n = Len(calls),
           ~(calls[n].fn = "module" /\ calls[n].at = "enter"),
           NEW i \in 1..(n - 1)
    PROVE  /\ calls[i].at \notin {"enter", "invoke"}
           /\ calls[i].fn = "class" /\ calls[i].at = "load" =>
                  /\ calls[i].waited /\ Waiting(i)
                  /\ moduleFinished[ModuleOf[calls[i].of]]
                  /\ ModuleOf[calls[i].of] \in WithCctor
<1>1. i \in DOMAIN calls /\ i # Len(calls)
  BY Types
<1>2. WaitsFor(calls[i], calls[i + 1]) /\ Fresh(i)
  BY <1>1 DEF ClassesIInv, CallsSound, AttemptsIInv
<1>3. ASSUME calls[i].at = "load" PROVE ~Asks(i)
  <2>1. calls[i + 1].fn = "module"
    BY <1>2, <1>3 DEF WaitsFor
  <2>2. i + 1 = Len(calls) => calls[i + 1].at # "enter"
    BY <2>1
  <2> QED BY <2>2 DEF Asks
<1>4. calls[i].at \notin {"enter", "invoke"}
  BY <1>2 DEF WaitsFor
<1>5. calls[i].fn = "class" /\ calls[i].at = "load" => calls[i].waited
  BY <1>1, <1>2, <1>3 DEF Fresh
<1>6. calls[i].fn = "class" /\ calls[i].at = "load" => Waiting(i)
  BY <1>5 DEF Waiting
<1> QED BY <1>2, <1>3, <1>4, <1>5, <1>6 DEF Fresh

(* The calls below stay as they were. *)
LEMMA BelowStaysFresh ==
    ASSUME ClassesAssumption, ClassesIInv, AttemptsIInv, NEW n \in Nat, n = Len(calls),
           ~(calls[n].fn = "module" /\ calls[n].at = "enter"),
           NEW i \in 1..(n - 1), calls'[i] = calls[i],
           \A m \in Modules : moduleFinished[m] => moduleFinished'[m],
           Waiting(i) /\ calls[i].of \in WithCctor => attempts'[calls[i].of] <= 1
    PROVE  Fresh(i)' /\ (Waiting(i)' => Waiting(i))
<1>1. i \in DOMAIN calls /\ Shape(calls[i])
  <2>1. i \in DOMAIN calls
    BY Types
  <2> QED BY <2>1 DEF ClassesIInv, CallsSound
<1>2. /\ calls[i].at \notin {"enter", "invoke"}
      /\ calls[i].fn = "class" /\ calls[i].at = "load" =>
             /\ calls[i].waited /\ Waiting(i)
             /\ moduleFinished[ModuleOf[calls[i].of]]
             /\ ModuleOf[calls[i].of] \in WithCctor
  BY Below
<1>3. calls[i].fn = "class" => ModuleOf[calls[i].of] \in Modules
  BY <1>1 DEF Shape, ClassesAssumption
<1>4. Waiting(i)' => Waiting(i)
  BY DEF Waiting
<1>5. calls[i].fn = "class" /\ calls[i].at = "load" =>
          moduleFinished'[ModuleOf[calls[i].of]]
  BY <1>2, <1>3
<1>6. Fresh(i)'
  <2>1. Waiting(i)' => calls[i].fn = "class" /\ calls[i].at = "load"
    BY <1>2 DEF Waiting
  <2> QED BY <1>2, <1>4, <1>5, <2>1 DEF Fresh
<1> QED BY <1>4, <1>6

(* No call begins to wait for the constructor of a module. *)
LEMMA OneWaitsKept ==
    ASSUME AttemptsIInv,
           \A i \in DOMAIN calls' : Waiting(i)' =>
               i \in DOMAIN calls /\ Waiting(i) /\ calls'[i].of = calls[i].of
    PROVE  OneWaits'
  BY DEF AttemptsIInv, OneWaits

(* Managed code uses a class or a module. *)
LEMMA UseKeepsFresh ==
    ASSUME ClassesAssumption, ClassesIInv, AttemptsIInv, ManagedUse
    PROVE  AttemptsIInv'
<1>1. PICK n \in Nat : n = Len(calls) /\ DOMAIN calls = 1..n /\ calls \in Seq(Calls)
  BY Types
<1>2. PICK call : calls' = Append(calls, call) /\ call.at = "enter" /\ ~call.waited
  <2>1. \A fn, of : CallOf(fn, of).at = "enter" /\ ~CallOf(fn, of).waited
    BY DEF CallOf
  <2>2. \E fn, of : calls' = Append(calls, CallOf(fn, of))
    BY DEF ManagedUse, UseStatic, NewObject, RunModule
  <2> QED BY <2>1, <2>2
<1>3. UNCHANGED <<cctorStatus, moduleFinished, attempts>> /\ ManagedRuns
  BY DEF ManagedUse, UseStatic, NewObject, RunModule
<1>4. /\ Len(calls') = n + 1 /\ DOMAIN calls' = 1..(n + 1) /\ calls'[n + 1] = call
      /\ \A i \in 1..n : calls'[i] = calls[i]
  BY <1>1, <1>2
<1>5. n # 0 => calls[n].at = "body"
  BY <1>1, <1>3 DEF ManagedRuns, Top
<1>6. Fresh(n + 1)' /\ ~Waiting(n + 1)'
  BY <1>2, <1>4 DEF Fresh, Waiting
<1>7. n # 0 => Fresh(n)' /\ ~Waiting(n)'
  <2>1. n # 0 => calls'[n] = calls[n]
    BY <1>4
  <2> QED BY <2>1, <1>5 DEF Fresh, Waiting
<1>8. ASSUME NEW i \in 1..(n - 1) PROVE Fresh(i)' /\ (Waiting(i)' => Waiting(i))
  <2>1. calls'[i] = calls[i] /\ i \in DOMAIN calls /\ n # 0
    BY <1>1, <1>4
  <2>2. ~(calls[n].fn = "module" /\ calls[n].at = "enter")
    BY <1>5, <2>1
  <2>3. Fresh(i) /\ calls[i].of \in Classes \cup Modules
    BY <2>1, CallType DEF AttemptsIInv
  <2>4. Waiting(i) /\ calls[i].of \in WithCctor => attempts'[calls[i].of] <= 1
    BY <1>3, <2>3 DEF Fresh
  <2> QED BY <1>1, <1>3, <2>1, <2>2, <2>4, BelowStaysFresh
<1>9. \A i \in 1..(n + 1) : i = n + 1 \/ (i = n /\ n # 0) \/ i \in 1..(n - 1)
  OBVIOUS
<1>10. \A i \in DOMAIN calls' : Fresh(i)' /\ (Waiting(i)' => i \in 1..(n - 1) /\ Waiting(i))
  BY <1>4, <1>6, <1>7, <1>8, <1>9
<1>11. OneWaits'
  <2>1. \A i \in 1..(n - 1) : i \in DOMAIN calls /\ calls'[i].of = calls[i].of
    BY <1>1, <1>4
  <2> QED BY <1>10, <2>1, OneWaitsKept
<1>12. NotStartedNotAttempted'
  BY <1>3 DEF AttemptsIInv, NotStartedNotAttempted, Started
<1>13. FirstInvoke'
  <2>1. Top' = call
    BY <1>4 DEF Top
  <2> QED BY <1>2, <2>1 DEF FirstInvoke
<1> QED BY <1>10, <1>11, <1>12, <1>13 DEF AttemptsIInv

(* Steps of a call that is not one of the module's function about to begin *)
LEMMA FreshAgain ==
    ASSUME ClassesAssumption, ClassesIInv, AttemptsIInv, NEW n \in Nat, n = Len(calls), n > 0,
           ~(calls[n].fn = "module" /\ calls[n].at = "enter"),
           NEW m \in Nat, DOMAIN calls' = 1..m,
           \A i \in 1..m : i < n => calls'[i] = calls[i],
           UNCHANGED moduleFinished,
           \A i \in 1..(n - 1) : Waiting(i) /\ calls[i].of \in WithCctor => attempts'[calls[i].of] <= 1,
           \A i \in 1..m : ~(i < n) =>
               Fresh(i)' /\ (Waiting(i)' => i = n /\ Waiting(n) /\ calls'[n].of = calls[n].of),
           NotStartedNotAttempted', FirstInvoke'
    PROVE  AttemptsIInv'
<1>1. ASSUME NEW i \in 1..m, i < n
      PROVE  Fresh(i)' /\ (Waiting(i)' => Waiting(i)) /\ i \in 1..(n - 1) /\ calls'[i] = calls[i]
  <2>1. i \in 1..(n - 1) /\ calls'[i] = calls[i]
    BY <1>1
  <2> QED BY <2>1, BelowStaysFresh
<1>2. DOMAIN calls = 1..n /\ n \in 1..n /\ \A i \in 1..(n - 1) : i \in 1..n
  BY Types
<1>3. \A i \in DOMAIN calls' : Fresh(i)'
  BY <1>1
<1>4. \A i \in DOMAIN calls' : Waiting(i)' =>
          i \in DOMAIN calls /\ Waiting(i) /\ calls'[i].of = calls[i].of
  BY <1>1, <1>2
<1>5. OneWaits'
  BY <1>4, OneWaitsKept
<1> QED BY <1>3, <1>5 DEF AttemptsIInv

(* No constructor is invoked: calls that wait have had at most one attempt. *)
LEMMA SameAttempts ==
    ASSUME ClassesIInv, AttemptsIInv, UNCHANGED attempts, NEW n \in Nat, n = Len(calls)
    PROVE  \A i \in 1..(n - 1) : Waiting(i) /\ calls[i].of \in WithCctor => attempts'[calls[i].of] <= 1
<1>1. \A i \in 1..(n - 1) : i \in DOMAIN calls
  BY Types
<1> QED BY <1>1 DEF AttemptsIInv, Fresh

(* The innermost call ends. *)
LEMMA EndingKeepsFresh ==
    ASSUME ClassesAssumption, ClassesIInv, AttemptsIInv, NEW n \in Nat, n = Len(calls), n > 0,
           ~(calls[n].fn = "module" /\ calls[n].at = "enter"),
           calls' = Return \/ calls' = Fail,
           UNCHANGED moduleFinished,
           \A i \in 1..(n - 1) : Waiting(i) /\ calls[i].of \in WithCctor => attempts'[calls[i].of] <= 1,
           NotStartedNotAttempted'
    PROVE  AttemptsIInv'
<1>1. PICK m \in 0..(n - 1) : calls' = SubSeq(calls, 1, m)
  <2>1. CASE calls' = Fail
    BY <2>1, FailCuts, Types DEF ClassesIInv
  <2>2. CASE calls' = Return
    <3>1. n - 1 \in 0..(n - 1) /\ calls' = SubSeq(calls, 1, n - 1)
      BY <2>2 DEF Return, Front
    <3> QED BY <3>1
  <2> QED BY <2>1, <2>2
<1>2. /\ m \in Nat /\ Len(calls') = m /\ DOMAIN calls' = 1..m
      /\ \A i \in 1..m : calls'[i] = calls[i]
  BY <1>1, Types
<1>3. \A i \in 1..m : i < n /\ i \in 1..(n - 1)
  BY <1>1
<1>4. FirstInvoke'
  <2>1. calls' # <<>> => m \in 1..m /\ Top' = calls[m]
    BY <1>2 DEF Top
  <2>2. m \in 1..m => calls[m].at # "invoke"
    BY <1>3, Below
  <2> QED BY <2>1, <2>2 DEF FirstInvoke
<1> QED BY <1>2, <1>3, <1>4, FreshAgain

(* No status changes and no constructor is invoked. *)
LEMMA SameStatusNotAttempted ==
    ASSUME AttemptsIInv, UNCHANGED <<cctorStatus, moduleFinished, attempts>>
    PROVE  NotStartedNotAttempted'
  BY DEF AttemptsIInv, NotStartedNotAttempted, Started

(* The constructor is invoked, or refused. *)
LEMMA AttemptCounts ==
    ASSUME ClassesAssumption, ClassesIInv, AttemptsIInv, StartBody \/ RefuseBody,
           NEW n \in Nat, n = Len(calls)
    PROVE  /\ attempts[Top.of] > 0 => Top.fn = "class" /\ Top.waited /\ attempts[Top.of] = 1
           /\ \A i \in 1..(n - 1) : Waiting(i) /\ calls[i].of \in WithCctor => attempts'[calls[i].of] <= 1
           /\ NotStartedNotAttempted'
<1>1. /\ n > 0 /\ DOMAIN calls = 1..n /\ n \in DOMAIN calls
      /\ Top = calls[n] /\ calls[n] \in Calls
      /\ Shape(calls[n]) /\ ConstructorReady(n) /\ Served(n)
  BY TopCall DEF StartBody, RefuseBody
<1>2. PICK c \in WithCctor : c = calls[n].of /\ calls[n].at = "invoke" /\ c = Top.of
  BY <1>1 DEF StartBody, RefuseBody, Shape
<1>3. /\ calls[n].fn \in {"class", "module"}
      /\ calls[n].fn = "class" => c \in Classes /\ Started(c)
      /\ calls[n].fn = "module" => c \in Modules /\ c \notin Classes
  BY <1>1, <1>2 DEF Shape, Calls, ClassesAssumption
<1>4. Fresh(n)
  BY <1>1 DEF AttemptsIInv
<1>5. attempts[c] \in Nat /\ attempts'[c] = attempts[c] + 1 /\ \A d \in WithCctor : d # c => attempts'[d] = attempts[d]
  BY <1>2, Types DEF StartBody, RefuseBody
<1>6. calls[n].fn = "class" /\ calls[n].waited => Waiting(n) /\ attempts[c] <= 1
  BY <1>2, <1>4 DEF Fresh, Waiting
<1>7. ~(calls[n].fn = "class" /\ calls[n].waited) => attempts[c] = 0
  BY <1>1, <1>2 DEF AttemptsIInv, FirstInvoke
<1>8. ASSUME NEW i \in 1..(n - 1), Waiting(i), calls[i].of \in WithCctor
      PROVE  attempts'[calls[i].of] <= 1
  <2>1. i \in DOMAIN calls /\ i # n
    BY <1>1
  <2>2. attempts[calls[i].of] <= 1
    BY <1>8, <2>1 DEF AttemptsIInv, Fresh
  <2>3. CASE calls[i].of # c
    BY <1>5, <1>8, <2>2, <2>3
  <2>4. CASE calls[i].of = c
    <3>1. ~(calls[n].fn = "class" /\ calls[n].waited)
      <4>1. ~Waiting(n)
        BY <1>1, <1>2, <1>8, <2>1, <2>4 DEF AttemptsIInv, OneWaits
      <4> QED BY <1>6, <4>1
    <3> QED BY <1>5, <1>7, <2>4, <3>1
  <2> QED BY <2>3, <2>4
<1>9. NotStartedNotAttempted'
  <2>1. calls[n].fn = "module" => moduleFinished[c]
    BY <1>2, <1>4 DEF Fresh
  <2>2. UNCHANGED <<cctorStatus, moduleFinished>>
    BY DEF StartBody, RefuseBody
  <2>3. \A d \in Classes \cap WithCctor : ~Started(d) => d # c
    BY <1>3, <2>1 DEF ClassesAssumption
  <2>4. \A m \in Modules \cap WithCctor : ~moduleFinished[m] => m # c
    BY <1>3, <2>1 DEF ClassesAssumption
  <2> QED BY <1>5, <2>2, <2>3, <2>4 DEF AttemptsIInv, NotStartedNotAttempted, Started
<1>10. attempts[c] > 0 => calls[n].fn = "class" /\ calls[n].waited /\ attempts[c] = 1
  BY <1>5, <1>6, <1>7
<1> QED BY <1>1, <1>2, <1>8, <1>9, <1>10

(* The steps that end the innermost call *)
LEMMA EndsKeepFresh ==
    ASSUME ClassesAssumption, ClassesIInv, AttemptsIInv,
           LoadFails \/ RefuseBody \/ BodyReturns \/ BodyThrows \/ MarkHierarchy
    PROVE  AttemptsIInv'
<1>1. PICK n \in Nat :
          /\ n = Len(calls) /\ n > 0 /\ DOMAIN calls = 1..n /\ n \in DOMAIN calls
          /\ Top = calls[n] /\ calls[n] \in Calls
          /\ Shape(calls[n]) /\ ConstructorReady(n) /\ Served(n)
  BY TopCall DEF LoadFails, RefuseBody, BodyReturns, BodyThrows, MarkHierarchy, At
<1>2. ~(calls[n].fn = "module" /\ calls[n].at = "enter")
  BY <1>1 DEF LoadFails, RefuseBody, BodyReturns, BodyThrows, MarkHierarchy, At
<1>3. (calls' = Return \/ calls' = Fail) /\ UNCHANGED <<cctorStatus, moduleFinished>>
  BY DEF LoadFails, RefuseBody, BodyReturns, BodyThrows, MarkHierarchy
<1>4. /\ \A i \in 1..(n - 1) : Waiting(i) /\ calls[i].of \in WithCctor => attempts'[calls[i].of] <= 1
      /\ NotStartedNotAttempted'
  <2>1. CASE RefuseBody
    BY <1>1, <2>1, AttemptCounts
  <2>2. CASE ~RefuseBody
    <3>1. UNCHANGED attempts
      BY <2>2 DEF LoadFails, BodyReturns, BodyThrows, MarkHierarchy
    <3> QED BY <1>1, <1>3, <3>1, SameAttempts, SameStatusNotAttempted
  <2> QED BY <2>1, <2>2
<1> QED BY <1>1, <1>2, <1>3, <1>4, EndingKeepsFresh

(* The constructor is entered: its attempt counts. *)
LEMMA StartBodyKeepsFresh ==
    ASSUME ClassesAssumption, ClassesIInv, AttemptsIInv, Monotone, StartBody
    PROVE  AttemptsIInv'
<1>1. PICK n \in Nat :
          /\ n = Len(calls) /\ n > 0 /\ DOMAIN calls = 1..n /\ n \in DOMAIN calls
          /\ Top = calls[n] /\ calls[n] \in Calls
          /\ Shape(calls[n]) /\ ConstructorReady(n) /\ Served(n)
  BY TopCall DEF StartBody
<1>2. calls[n].at = "invoke" /\ calls' = Advance("body") /\ UNCHANGED moduleFinished
  BY <1>1 DEF StartBody
<1>3. /\ calls' \in Seq(Calls) /\ Len(calls') = n
      /\ \A i \in 1..(n - 1) : calls'[i] = calls[i]
      /\ calls'[n].at = "body"
  BY <1>1, <1>2, AdvanceKeeps
<1>4. /\ \A i \in 1..(n - 1) : Waiting(i) /\ calls[i].of \in WithCctor => attempts'[calls[i].of] <= 1
      /\ NotStartedNotAttempted'
  BY <1>1, AttemptCounts
<1>5. DOMAIN calls' = 1..n /\ (\A i \in 1..n : i < n => calls'[i] = calls[i])
  BY <1>3
<1>6. Fresh(n)' /\ ~Waiting(n)'
  BY <1>3 DEF Fresh, Waiting
<1>7. FirstInvoke'
  BY <1>3 DEF FirstInvoke, Top
<1>8. \A i \in 1..n : ~(i < n) => i = n
  OBVIOUS
<1> QED BY <1>1, <1>2, <1>4, <1>5, <1>6, <1>7, <1>8, FreshAgain

(* The steps of the hierarchy push or advance a call of their own. *)
LEMMA HierarchyKeepsFresh ==
    ASSUME ClassesAssumption, ClassesIInv, AttemptsIInv, Monotone, EnterHierarchy \/ EnterParent
    PROVE  AttemptsIInv'
<1>1. PICK n \in Nat :
          /\ n = Len(calls) /\ n > 0 /\ DOMAIN calls = 1..n /\ n \in DOMAIN calls
          /\ Top = calls[n] /\ calls[n] \in Calls
          /\ Shape(calls[n]) /\ ConstructorReady(n) /\ Served(n)
  BY TopCall DEF EnterHierarchy, EnterParent, At
<1>2. calls[n].fn = "hierarchy" /\ calls[n].of \in Classes /\ UNCHANGED <<cctorStatus, moduleFinished, attempts>>
  BY <1>1 DEF EnterHierarchy, EnterParent, At, Shape
<1>3. /\ \A i \in 1..(n - 1) : Waiting(i) /\ calls[i].of \in WithCctor => attempts'[calls[i].of] <= 1
      /\ NotStartedNotAttempted'
  BY <1>1, <1>2, SameAttempts, SameStatusNotAttempted
<1>4. ASSUME NEW point \in {"parent", "mark"}, calls' = Advance(point)
      PROVE  AttemptsIInv'
  <2>1. PICK p \in {"load", "parent", "mark", "invoke", "body"} : p = point
    OBVIOUS
  <2>2. /\ calls' \in Seq(Calls) /\ Len(calls') = n
        /\ \A i \in 1..(n - 1) : calls'[i] = calls[i]
        /\ calls'[n].fn = "hierarchy" /\ calls'[n].at = p
    BY <1>1, <1>2, <1>4, <2>1, AdvanceKeeps
  <2>3. DOMAIN calls' = 1..n /\ (\A i \in 1..n : i < n => calls'[i] = calls[i])
    BY <2>2
  <2>4. Fresh(n)' /\ ~Waiting(n)'
    BY <2>1, <2>2 DEF Fresh, Waiting
  <2>5. FirstInvoke'
    BY <2>1, <2>2 DEF FirstInvoke, Top
  <2>6. \A i \in 1..n : ~(i < n) => i = n
    OBVIOUS
  <2> QED BY <1>1, <1>2, <1>3, <2>3, <2>4, <2>5, <2>6, FreshAgain
<1>5. ASSUME NEW point \in {"parent", "mark"}, NEW call \in Calls, call.at = "enter", ~call.waited,
             calls' = CallThen(point, call)
      PROVE  AttemptsIInv'
  <2>1. /\ calls' \in Seq(Calls) /\ Len(calls') = n + 1 /\ DOMAIN calls' = 1..(n + 1)
        /\ calls'[n + 1] = call
        /\ calls'[n].fn = "hierarchy" /\ calls'[n].at = point
        /\ \A i \in 1..(n - 1) : calls'[i] = calls[i]
    BY <1>1, <1>2, <1>5, HierarchyCalls
  <2>2. \A i \in 1..(n + 1) : i < n => calls'[i] = calls[i]
    BY <2>1
  <2>3. Fresh(n)' /\ ~Waiting(n)' /\ Fresh(n + 1)' /\ ~Waiting(n + 1)'
    BY <1>5, <2>1 DEF Fresh, Waiting
  <2>4. FirstInvoke'
    BY <1>5, <2>1 DEF FirstInvoke, Top
  <2>5. \A i \in 1..(n + 1) : ~(i < n) => i = n \/ i = n + 1
    OBVIOUS
  <2>6. \A i \in 1..(n + 1) : ~(i < n) =>
            Fresh(i)' /\ (Waiting(i)' => i = n /\ Waiting(n) /\ calls'[n].of = calls[n].of)
    BY <2>3, <2>5
  <2>7. n + 1 \in Nat
    OBVIOUS
  <2> QED BY <1>1, <1>2, <1>3, <2>1, <2>2, <2>4, <2>6, <2>7, FreshAgain
<1>6. ASSUME NEW fn \in {"class", "hierarchy"}, NEW k \in Classes
      PROVE  CallOf(fn, k) \in Calls /\ CallOf(fn, k).at = "enter" /\ ~CallOf(fn, k).waited
  BY DEF CallOf, Calls
<1>7. CASE EnterHierarchy
  <2>1. calls' = CallThen("parent", CallOf("class", calls[n].of)) \/ calls' = Advance("parent")
    BY <1>1, <1>7 DEF EnterHierarchy
  <2> QED BY <1>2, <1>4, <1>5, <1>6, <2>1
<1>8. CASE EnterParent
  <2>1. \/ Parent[calls[n].of] # NoClass /\ calls' = CallThen("mark", CallOf("hierarchy", Parent[calls[n].of]))
        \/ calls' = Advance("mark")
    BY <1>1, <1>8 DEF EnterParent
  <2>2. Parent[calls[n].of] # NoClass => Parent[calls[n].of] \in Classes
    BY <1>2 DEF ClassesAssumption
  <2> QED BY <1>4, <1>5, <1>6, <2>1, <2>2
<1> QED BY <1>7, <1>8

(* The status changes: the class is not fresh for anyone after. *)
LEMMA SetFinishedKeepsFresh ==
    ASSUME ClassesAssumption, ClassesIInv, AttemptsIInv, Monotone, SetFinished
    PROVE  AttemptsIInv'
<1>1. PICK n \in Nat :
          /\ n = Len(calls) /\ n > 0 /\ DOMAIN calls = 1..n /\ n \in DOMAIN calls
          /\ Top = calls[n] /\ calls[n] \in Calls
          /\ Shape(calls[n]) /\ ConstructorReady(n) /\ Served(n)
  BY TopCall DEF SetFinished, At
<1>2. PICK k \in Classes : k = calls[n].of /\ calls[n].fn = "class" /\ calls[n].at = "load" /\ k = Top.of
  BY <1>1 DEF SetFinished, At, Shape
<1>3. cctorStatus' = [cctorStatus EXCEPT ![k] = "InitSelf"] /\ UNCHANGED <<moduleFinished, attempts>>
  BY <1>2 DEF SetFinished
<1>4. \A i \in 1..(n - 1) : Waiting(i) /\ calls[i].of \in WithCctor => attempts'[calls[i].of] <= 1
  BY <1>1, <1>3, SameAttempts
<1>5. NotStartedNotAttempted'
  <2>1. \A c \in Classes : ~(cctorStatus'[c] # "NotInited") => ~Started(c)
    BY <1>3, Types DEF Started
  <2> QED BY <1>3, <2>1 DEF AttemptsIInv, NotStartedNotAttempted, Started
<1>6. Fresh(n)
  BY <1>1 DEF AttemptsIInv
<1>7. CASE calls' = Return
  BY <1>1, <1>2, <1>3, <1>4, <1>5, <1>7, EndingKeepsFresh
<1>8. CASE k \in WithCctor /\ calls' = Advance("invoke")
  <2>1. /\ calls' \in Seq(Calls) /\ Len(calls') = n
        /\ \A i \in 1..(n - 1) : calls'[i] = calls[i]
        /\ calls'[n].fn = "class" /\ calls'[n].of = k /\ calls'[n].at = "invoke"
    BY <1>1, <1>2, <1>8, AdvanceKeeps
  <2>2. calls'[n].waited = calls[n].waited
    BY <1>1, <1>8 DEF Advance, Calls
  <2>3. Waiting(n)' => Waiting(n) /\ calls'[n].of = calls[n].of
    BY <1>2, <2>1, <2>2 DEF Waiting
  <2>4. Fresh(n)'
    <3>1. ~Asks(n)
      BY <1>1 DEF Asks
    <3>2. Waiting(n) => /\ ModuleOf[k] \in WithCctor /\ attempts[k] <= 1
                        /\ moduleFinished[ModuleOf[k]]
      BY <1>2, <1>6, <1>8, <3>1 DEF Fresh
    <3> QED BY <1>3, <2>1, <2>3, <3>2 DEF Fresh
  <2>5. FirstInvoke'
    <3>1. Top' = calls'[n]
      BY <2>1 DEF Top
    <3>2. ~calls[n].waited => attempts[k] = 0
      <4>1. ~calls[n].waited => ~Started(k)
        BY <1>2, <1>6 DEF Fresh
      <4> QED BY <1>8, <4>1 DEF AttemptsIInv, NotStartedNotAttempted
    <3> QED BY <1>3, <2>1, <2>2, <3>1, <3>2 DEF FirstInvoke
  <2>6. DOMAIN calls' = 1..n /\ (\A i \in 1..n : i < n => calls'[i] = calls[i])
    BY <2>1
  <2>7. \A i \in 1..n : ~(i < n) => i = n
    OBVIOUS
  <2> QED BY <1>1, <1>2, <1>3, <1>4, <1>5, <2>3, <2>4, <2>5, <2>6, <2>7, FreshAgain
<1> QED BY <1>2, <1>7, <1>8 DEF SetFinished

(* The call begins to wait for the constructor of the module. *)
LEMMA EnterClassKeepsFresh ==
    ASSUME ClassesAssumption, ClassesIInv, AttemptsIInv, EnterClass
    PROVE  AttemptsIInv'
<1>1. PICK n \in Nat :
          /\ n = Len(calls) /\ n > 0 /\ DOMAIN calls = 1..n /\ n \in DOMAIN calls
          /\ Top = calls[n] /\ calls[n] \in Calls
          /\ Shape(calls[n]) /\ ConstructorReady(n) /\ Served(n)
  BY TopCall DEF EnterClass, At
<1>2. PICK k \in Classes : k = calls[n].of /\ calls[n].fn = "class" /\ calls[n].at = "enter" /\ k = Top.of
  BY <1>1 DEF EnterClass, At, Shape
<1>3. UNCHANGED <<cctorStatus, moduleFinished, attempts>>
  BY DEF EnterClass
<1>4. /\ \A i \in 1..(n - 1) : Waiting(i) /\ calls[i].of \in WithCctor => attempts'[calls[i].of] <= 1
      /\ NotStartedNotAttempted'
  BY <1>1, <1>3, SameAttempts, SameStatusNotAttempted
<1>5. CASE cctorStatus[k] # "NotInited"
  <2>1. calls' = Return
    BY <1>2, <1>5 DEF EnterClass
  <2> QED BY <1>1, <1>2, <1>3, <1>4, <2>1, EndingKeepsFresh
<1>6. CASE cctorStatus[k] = "NotInited"
  <2>1. PICK m \in Modules : m = ModuleOf[k]
    BY DEF ClassesAssumption
  <2>2. /\ calls' \in Seq(Calls) /\ Len(calls') = n + 1 /\ DOMAIN calls' = 1..(n + 1)
        /\ calls'[n + 1] = CallOf("module", m)
        /\ calls'[n].fn = "class" /\ calls'[n].of = k /\ calls'[n].at = "load"
        /\ calls'[n].waited = (~moduleFinished[m] /\ m \in WithCctor)
        /\ \A i \in 1..(n - 1) : calls'[i] = calls[i]
    BY <1>1, <1>2, <1>6, <2>1, EnterClassCalls
  <2>3. /\ calls'[n + 1].at = "enter" /\ calls'[n + 1].fn = "module" /\ ~calls'[n + 1].waited
    BY <2>2 DEF CallOf
  <2>4. Asks(n)'
    BY <2>2, <2>3 DEF Asks
  <2>5. ~Started(k) /\ (k \in WithCctor => attempts[k] = 0)
    BY <1>6 DEF Started, AttemptsIInv, NotStartedNotAttempted
  <2>6. Fresh(n)'
    <3>1. calls'[n].waited \/ moduleFinished[m] \/ m \notin WithCctor
      BY <2>2
    <3>2. calls'[n].waited => m \in WithCctor
      BY <2>2
    <3> QED BY <1>3, <2>1, <2>2, <2>4, <2>5, <3>1, <3>2 DEF Fresh, Waiting, Started
  <2>7. Fresh(n + 1)' /\ ~Waiting(n + 1)'
    BY <2>3 DEF Fresh, Waiting
  <2>8. ASSUME NEW i \in 1..(n - 1)
        PROVE  Fresh(i)' /\ (Waiting(i)' => Waiting(i) /\ moduleFinished[ModuleOf[calls[i].of]])
    <3>1. calls'[i] = calls[i]
      BY <2>2
    <3>2. Fresh(i)' /\ (Waiting(i)' => Waiting(i))
      BY <1>1, <1>2, <1>3, <1>4, <3>1, BelowStaysFresh
    <3>3. Waiting(i) => moduleFinished[ModuleOf[calls[i].of]]
      <4>1. Waiting(i) => calls[i].fn = "class" /\ calls[i].at \in {"load", "invoke"}
        BY DEF Waiting
      <4> QED BY <1>1, <1>2, <4>1, Below
    <3> QED BY <3>2, <3>3
  <2>9. \A i \in 1..(n + 1) : i = n + 1 \/ i = n \/ i \in 1..(n - 1)
    OBVIOUS
  <2>10. \A i \in DOMAIN calls' : Fresh(i)'
    BY <2>2, <2>6, <2>7, <2>8, <2>9
  <2>11. OneWaits'
    <3>1. SUFFICES ASSUME NEW i \in 1..(n + 1), NEW j \in 1..(n + 1), Waiting(i)', Waiting(j)',
                          ModuleOf[calls'[i].of] = ModuleOf[calls'[j].of]
                   PROVE  i = j
      BY <2>2 DEF OneWaits
    <3>2. i # n + 1 /\ j # n + 1
      BY <2>7, <3>1
    <3>3. CASE i \in 1..(n - 1) /\ j \in 1..(n - 1)
      <4>1. Waiting(i) /\ Waiting(j) /\ calls'[i] = calls[i] /\ calls'[j] = calls[j]
        BY <2>2, <2>8, <3>1, <3>3
      <4>2. i \in DOMAIN calls /\ j \in DOMAIN calls
        BY <1>1, <3>3
      <4> QED BY <3>1, <4>1, <4>2 DEF AttemptsIInv, OneWaits
    <3>4. ASSUME NEW a \in 1..(n - 1), Waiting(a)', Waiting(n)', ModuleOf[calls'[a].of] = ModuleOf[calls'[n].of]
          PROVE  FALSE
      <4>1. moduleFinished[ModuleOf[calls[a].of]] /\ calls'[a] = calls[a]
        BY <2>2, <2>8, <3>4
      <4>2. ~moduleFinished[m]
        BY <2>2, <3>4 DEF Waiting
      <4> QED BY <2>1, <2>2, <3>4, <4>1, <4>2
    <3> QED BY <2>9, <3>1, <3>2, <3>3, <3>4
  <2>12. FirstInvoke'
    BY <2>2, <2>3 DEF FirstInvoke, Top
  <2> QED BY <1>4, <2>10, <2>11, <2>12 DEF AttemptsIInv
<1> QED BY <1>5, <1>6

(* The flag of the module is set: no other call will wait for it. *)
LEMMA EnterModuleKeepsFresh ==
    ASSUME ClassesAssumption, ClassesIInv, AttemptsIInv, Monotone, EnterModule \/ LookUpFails
    PROVE  AttemptsIInv'
<1>1. PICK n \in Nat :
          /\ n = Len(calls) /\ n > 0 /\ DOMAIN calls = 1..n /\ n \in DOMAIN calls
          /\ Top = calls[n] /\ calls[n] \in Calls
          /\ Shape(calls[n]) /\ ConstructorReady(n) /\ Served(n)
  BY TopCall DEF EnterModule, LookUpFails, At
<1>2. PICK m \in Modules : m = calls[n].of /\ calls[n].fn = "module" /\ calls[n].at = "enter" /\ m = Top.of
  BY <1>1 DEF EnterModule, LookUpFails, At, Shape
<1>3. moduleFinished' = [moduleFinished EXCEPT ![m] = TRUE] /\ UNCHANGED <<cctorStatus, attempts>>
  BY <1>2 DEF EnterModule, LookUpFails
<1>4. moduleFinished'[m] /\ \A p \in Modules : moduleFinished[p] => moduleFinished'[p]
  BY <1>3, Types
<1>5. ASSUME NEW i \in 1..(n - 1)
      PROVE  /\ calls[i].at \notin {"enter", "invoke"}
             /\ calls[i].fn = "class" /\ calls[i].at = "load" =>
                  /\ moduleFinished'[ModuleOf[calls[i].of]]
                  /\ ~calls[i].waited =>
                         i = n - 1 /\ ~Started(calls[i].of) /\ (moduleFinished[m] \/ m \notin WithCctor)
  <2>1. i \in DOMAIN calls /\ i # Len(calls) /\ (i + 1 = n => i = n - 1)
    BY <1>1
  <2>2. WaitsFor(calls[i], calls[i + 1]) /\ Fresh(i) /\ Shape(calls[i])
    BY <2>1 DEF ClassesIInv, CallsSound, AttemptsIInv
  <2>3. calls[i].at \notin {"enter", "invoke"}
    BY <2>2 DEF WaitsFor
  <2>4. ASSUME calls[i].fn = "class", calls[i].at = "load"
        PROVE  /\ moduleFinished'[ModuleOf[calls[i].of]]
               /\ ~calls[i].waited =>
                      i = n - 1 /\ ~Started(calls[i].of) /\ (moduleFinished[m] \/ m \notin WithCctor)
    <3>1. ModuleOf[calls[i].of] \in Modules
      BY <2>2, <2>4 DEF Shape, ClassesAssumption
    <3>2. i + 1 = n => ModuleOf[calls[i].of] = m
      BY <1>2, <2>2, <2>4 DEF WaitsFor
    <3>3. Asks(i) => i + 1 = n
      BY <1>1 DEF Asks
    <3>4. CASE calls[i].waited
      <4>1. moduleFinished[ModuleOf[calls[i].of]] \/ Asks(i)
        BY <2>2, <2>4, <3>4 DEF Fresh, Waiting
      <4> QED BY <1>4, <3>1, <3>2, <3>3, <3>4, <4>1
    <3>5. CASE ~calls[i].waited
      <4>1. /\ ~Started(calls[i].of) /\ Asks(i)
            /\ moduleFinished[ModuleOf[calls[i].of]] \/ ModuleOf[calls[i].of] \notin WithCctor
        BY <2>1, <2>2, <2>4, <3>5 DEF Fresh
      <4> QED BY <1>4, <2>1, <3>2, <3>3, <4>1
    <3> QED BY <3>4, <3>5
  <2> QED BY <2>3, <2>4
<1>6. ASSUME NEW i \in 1..(n - 1), calls'[i] = calls[i],
             calls[i].fn = "class" /\ calls[i].at = "load" /\ ~calls[i].waited => i = Len(calls')
      PROVE  Fresh(i)' /\ (Waiting(i)' => Waiting(i))
  <2>1. Fresh(i)
    BY <1>1 DEF AttemptsIInv
  <2>2. Waiting(i)' => Waiting(i)
    BY <1>6 DEF Waiting
  <2>3. Waiting(i) => calls[i].fn = "class" /\ calls[i].at = "load"
    BY <1>5 DEF Waiting
  <2> QED BY <1>3, <1>5, <1>6, <2>1, <2>2, <2>3 DEF Fresh, Started
<1>7. NotStartedNotAttempted'
  <2>1. \A p \in Modules : ~moduleFinished'[p] => ~moduleFinished[p]
    BY <1>4
  <2> QED BY <1>3, <2>1 DEF AttemptsIInv, NotStartedNotAttempted, Started
<1>8. CASE EnterModule /\ ~moduleFinished[m] /\ m \in WithCctor
  <2>1. calls' = Advance("invoke")
    BY <1>2, <1>8 DEF EnterModule
  <2>2. /\ calls' \in Seq(Calls) /\ Len(calls') = n /\ DOMAIN calls' = 1..n
        /\ \A i \in 1..(n - 1) : calls'[i] = calls[i]
        /\ calls'[n].fn = "module" /\ calls'[n].of = m /\ calls'[n].at = "invoke"
    <3>1. /\ calls' \in Seq(Calls) /\ Len(calls') = n
          /\ \A i \in 1..(n - 1) : calls'[i] = calls[i]
          /\ calls'[n].fn = calls[n].fn /\ calls'[n].of = calls[n].of /\ calls'[n].at = "invoke"
      BY <1>1, <2>1, AdvanceKeeps
    <3>2. DOMAIN calls' = 1..n
      BY <3>1
    <3> QED BY <1>2, <3>1, <3>2
  <2>3. \A i \in 1..(n - 1) : Fresh(i)' /\ (Waiting(i)' => Waiting(i))
    BY <1>5, <1>6, <1>8, <2>2
  <2>4. Fresh(n)' /\ ~Waiting(n)'
    BY <1>4, <2>2 DEF Fresh, Waiting
  <2>5. \A i \in 1..n : i = n \/ i \in 1..(n - 1)
    OBVIOUS
  <2>6. (\A i \in DOMAIN calls' : Fresh(i)') /\ OneWaits'
    <3>1. \A i \in DOMAIN calls' : Waiting(i)' =>
              i \in DOMAIN calls /\ Waiting(i) /\ calls'[i].of = calls[i].of
      BY <1>1, <2>2, <2>3, <2>4, <2>5
    <3>2. OneWaits'
      BY <3>1, OneWaitsKept
    <3> QED BY <2>2, <2>3, <2>4, <2>5, <3>2
  <2>7. FirstInvoke'
    <3>1. attempts[m] = 0
      BY <1>8 DEF AttemptsIInv, NotStartedNotAttempted
    <3>2. Top' = calls'[n]
      BY <2>2 DEF Top
    <3> QED BY <1>3, <2>2, <3>1, <3>2 DEF FirstInvoke
  <2> QED BY <1>7, <2>6, <2>7 DEF AttemptsIInv
<1>9. CASE ~(EnterModule /\ ~moduleFinished[m] /\ m \in WithCctor)
  <2>1. PICK k \in 0..(n - 1) : calls' = SubSeq(calls, 1, k)
    <3>1. CASE LookUpFails
      <4>1. calls' = Fail
        BY <3>1 DEF LookUpFails
      <4> QED BY <1>1, <4>1, FailCuts, Types DEF ClassesIInv
    <3>2. CASE EnterModule
      <4>1. n - 1 \in 0..(n - 1) /\ calls' = SubSeq(calls, 1, n - 1)
        BY <1>1, <1>2, <1>9, <3>2 DEF EnterModule, Return, Front
      <4> QED BY <4>1
    <3> QED BY <3>1, <3>2
  <2>2. /\ k \in Nat /\ Len(calls') = k /\ DOMAIN calls' = 1..k
        /\ \A i \in 1..k : calls'[i] = calls[i] /\ i \in 1..(n - 1)
    <3>1. k \in 0..n
      BY <1>1
    <3> QED BY <1>1, <2>1, <3>1, Types
  <2>3. \A i \in 1..k : Fresh(i)' /\ (Waiting(i)' => Waiting(i))
    <3>1. \A i \in 1..k : i = n - 1 => i = Len(calls')
      BY <1>1, <2>1, <2>2
    <3> QED BY <1>5, <1>6, <2>2, <3>1
  <2>4. OneWaits'
    <3>1. \A i \in DOMAIN calls' : Waiting(i)' =>
              i \in DOMAIN calls /\ Waiting(i) /\ calls'[i].of = calls[i].of
      BY <1>1, <2>2, <2>3
    <3> QED BY <3>1, OneWaitsKept
  <2>5. FirstInvoke'
    <3>1. calls' # <<>> => k \in 1..k /\ Top' = calls[k]
      BY <2>2 DEF Top
    <3> QED BY <1>5, <2>2, <3>1 DEF FirstInvoke
  <2> QED BY <1>7, <2>2, <2>3, <2>4, <2>5 DEF AttemptsIInv
<1> QED BY <1>8, <1>9
-----------------------------------------------------------------------------
(* No constructor has been invoked. *)
LEMMA AttemptsInitially ==
    ASSUME ClassesInit
    PROVE  AttemptsIInv
  BY DEF ClassesInit, AttemptsIInv, OneWaits, NotStartedNotAttempted, FirstInvoke

(* Nothing changes. *)
LEMMA AttemptsStutter ==
    ASSUME AttemptsIInv, UNCHANGED classVars
    PROVE  AttemptsIInv'
  BY DEF AttemptsIInv, Fresh, OneWaits, NotStartedNotAttempted, FirstInvoke, Waiting, Asks,
         Started, Top, classVars

(* No step takes back a status, an attempt or an end. *)
LEMMA StepMonotone ==
    ASSUME ClassesIInv, ClassesNext
    PROVE  Monotone
<1>1. CASE UNCHANGED <<cctorStatus, attempts, ended>>
  BY <1>1, UnchangedMonotone
<1>2. CASE SetFinished
  <2>1. cctorStatus' = [cctorStatus EXCEPT ![Top.of] = "InitSelf"] /\ UNCHANGED <<attempts, ended>>
    BY <1>2 DEF SetFinished
  <2>2. \A k \in Classes : Started(k) => cctorStatus'[k] # "NotInited"
    BY <2>1, Types DEF Started
  <2> QED BY <2>1, <2>2, Types DEF Monotone
<1>3. CASE StartBody \/ RefuseBody
  <2>1. attempts' = [attempts EXCEPT ![Top.of] = @ + 1] /\ UNCHANGED cctorStatus /\ ended \subseteq ended'
    BY <1>3 DEF StartBody, RefuseBody
  <2>2. \A c \in WithCctor : attempts[c] \in Nat /\ (attempts'[c] = attempts[c] \/ attempts'[c] = attempts[c] + 1)
    BY <2>1, Types
  <2> QED BY <2>1, <2>2 DEF Monotone, Started
<1>4. CASE BodyReturns \/ BodyThrows
  BY <1>4, Types DEF Monotone, Started, BodyReturns, BodyThrows
<1> QED BY <1>1, <1>2, <1>3, <1>4 DEF ClassesNext, RuntimeStep, ManagedUse, UseStatic, NewObject, RunModule,
            EnterModule, LookUpFails, EnterClass, LoadFails, EnterHierarchy, EnterParent, MarkHierarchy

(* Every step keeps the second invariant. *)
LEMMA AttemptsStep ==
    ASSUME ClassesAssumption, ClassesIInv, AttemptsIInv, [ClassesNext]_classVars
    PROVE  AttemptsIInv'
<1>1. ClassesNext => Monotone
  BY StepMonotone
<1>2. RuntimeStep => AttemptsIInv'
  BY <1>1, EnterModuleKeepsFresh, EnterClassKeepsFresh, EndsKeepFresh, SetFinishedKeepsFresh,
     HierarchyKeepsFresh DEF RuntimeStep, ClassesNext
<1>3. StartBody => AttemptsIInv'
  BY <1>1, StartBodyKeepsFresh DEF ClassesNext
<1> QED BY <1>2, <1>3, UseKeepsFresh, EndsKeepFresh, AttemptsStutter DEF ClassesNext

(* A step that invokes a constructor again was waiting for the module.     *)
LEMMA StepAttempts ==
    ASSUME ClassesAssumption, ClassesIInv, AttemptsIInv, [ClassesNext]_classVars,
           NEW c \in WithCctor, attempts'[c] > 1
    PROVE  \/ attempts'[c] = attempts[c]
           \/ attempts[c] = 1 /\ Top.of = c /\ Top.waited
<1>1. CASE attempts' = attempts
  BY <1>1
<1>2. CASE StartBody \/ RefuseBody
  <2>1. attempts' = [attempts EXCEPT ![Top.of] = @ + 1]
    BY <1>2 DEF StartBody, RefuseBody
  <2>2. attempts[c] \in Nat /\ Len(calls) \in Nat
    BY Types
  <2>3. attempts[Top.of] > 0 => Top.waited /\ attempts[Top.of] = 1
    BY <1>2, <2>2, AttemptCounts
  <2>4. CASE c = Top.of
    <3>1. attempts'[c] = attempts[c] + 1
      BY <2>1, <2>4, Types
    <3> QED BY <2>2, <2>3, <2>4, <3>1
  <2>5. CASE c # Top.of
    BY <2>1, <2>5, Types
  <2> QED BY <2>4, <2>5
<1> QED BY <1>1, <1>2 DEF ClassesNext, RuntimeStep, ManagedUse, UseStatic, NewObject, RunModule,
            EnterModule, LookUpFails, EnterClass, LoadFails, SetFinished, EnterHierarchy, EnterParent, MarkHierarchy,
            BodyReturns, BodyThrows, classVars

(* The invariant about the number of attempts                              *)
THEOREM AttemptsInvariance == ClassesSpec => []AttemptsIInv
<1>1. ClassesInit => AttemptsIInv
  BY AttemptsInitially
<1>2. ClassesIInv /\ AttemptsIInv /\ [ClassesNext]_classVars => AttemptsIInv'
  BY ClassesAssumption, AttemptsStep
<1> QED BY <1>1, <1>2, ClassesInvariance, PTL DEF ClassesSpec
------------------------------------------------------------------------------
(***************************************************************************)
(* The two together.                                                       *)
(***************************************************************************)

(* A step of the thread is one of the stacks or leaves them alone. *)
LEMMA StepOfStacks ==
    ASSUME CctorsAssumption, ClassesAssumption, ClassesIInv, [Next]_vars
    PROVE  [StacksNext]_stackVars
<1>1. HostInvokes => StacksNext
  BY DEF HostInvokes, StacksNext
<1>2. HostInvokeEnds \/ CctorEnds => StacksNext
  BY DEF HostInvokeEnds, CctorEnds, StacksNext
<1>3. CallsMethod => StacksNext
  BY DEF CallsMethod, StacksNext
<1>4. Returns => StacksNext
  BY DEF Returns, StacksNext
<1>5. InvokesCctor => StacksNext
  <2>1. SUFFICES ASSUME InvokesCctor PROVE CctorMethod[Top.of] \in Methods
    BY DEF InvokesCctor, StacksNext
  <2>2. calls # <<>> /\ Top.at = "invoke"
    BY <2>1 DEF InvokesCctor, StartBody
  <2>3. Top.of \in WithCctor
    BY <2>2, TopCall DEF Shape
  <2> QED BY <2>3 DEF CctorsAssumption
<1>6. UsesClass \/ InitializesClass \/ CctorRefused => UNCHANGED stackVars
  BY DEF UsesClass, InitializesClass, CctorRefused
<1>7. UNCHANGED vars => UNCHANGED stackVars
  BY DEF vars
<1> QED BY <1>1, <1>2, <1>3, <1>4, <1>5, <1>6, <1>7 DEF Next

(* A step of the thread is one of the classes or leaves them alone. *)
LEMMA StepOfClasses ==
    ASSUME [Next]_vars
    PROVE  [ClassesNext]_classVars
<1>1. HostInvokes \/ HostInvokeEnds \/ CallsMethod \/ Returns => UNCHANGED classVars
  BY DEF HostInvokes, HostInvokeEnds, CallsMethod, Returns
<1>2. UsesClass \/ InitializesClass => ClassesNext
  BY DEF UsesClass, InitializesClass, ClassesNext
<1>3. InvokesCctor \/ CctorRefused \/ CctorEnds => ClassesNext
  BY DEF InvokesCctor, CctorRefused, CctorEnds, ClassesNext
<1>4. UNCHANGED vars => UNCHANGED classVars
  BY DEF vars
<1> QED BY <1>1, <1>2, <1>3, <1>4 DEF Next

(* What the thread does to the classes is what ClassInit says. *)
THEOREM ThreadImplementsClasses == Spec => ClassesSpec
<1>1. Init => ClassesInit
  BY DEF Init
<1>2. [Next]_vars => [ClassesNext]_classVars
  BY StepOfClasses
<1> QED BY <1>1, <1>2, PTL DEF Spec, ClassesSpec

(* What the thread does to the stacks is what MachineState says: each      *)
(* constructor is one execute(), entered and left once.                    *)
THEOREM ThreadImplementsStacks == Spec => StacksSpec
<1>1. Init => StacksInit
  BY DEF Init
<1>2. ClassesIInv /\ [Next]_vars => [StacksNext]_stackVars
  BY CctorsAssumption, ClassesAssumption, StepOfStacks
<1>3. Spec => []ClassesIInv
  BY ThreadImplementsClasses, ClassesInvariance, PTL
<1> QED BY <1>1, <1>2, <1>3, PTL DEF Spec, StacksSpec
-----------------------------------------------------------------------------
(* The stacks of the thread are what MachineState lets them be. *)
THEOREM ThreadStacksInvariance == Spec => []StacksIInv
  BY ThreadImplementsStacks, StacksInvariance, PTL

(* The statuses and calls of the thread are what ClassInit lets them be. *)
THEOREM ThreadClassesInvariance == Spec => []ClassesIInv
  BY ThreadImplementsClasses, ClassesInvariance, PTL

(***************************************************************************)
(* No frame overwrites what a suspended frame below it still needs, in     *)
(* whatever way static constructors nest into the calls of managed code.   *)
(***************************************************************************)
THEOREM ThreadKeepsLiveSlots == Spec => []LiveSlotsKept
<1>1. StacksIInv => LiveSlotsKept
  BY DEF StacksIInv
<1> QED BY <1>1, ThreadStacksInvariance, PTL

(* After returns and failures the tops of both stacks are what the code    *)
(* that goes on has left: execute() gives back all that it took.           *)
THEOREM ThreadBalancesStacks == Spec => []StacksBalanced
<1>1. StacksIInv => StacksBalanced
  BY DEF StacksIInv
<1> QED BY <1>1, ThreadStacksInvariance, PTL

(* leave_frame, which takes the frame below for the caller, finds the      *)
(* caller there, except where a frame that failed to be entered was left.  *)
THEOREM ThreadResumesCaller == Spec => ResumesCaller
<1>1. StacksIInv /\ [StacksNext]_stackVars =>
          [(executes # <<>> /\ Len(executes') = Len(executes) /\ Current' < Current)
               => \/ Current' = frames[Current].caller
                  \/ ~frames'[Current'].entered]_stackVars
  BY StacksAssumption, StepResumesCaller
<1> QED BY <1>1, ThreadStacksInvariance, ThreadImplementsStacks, PTL DEF StacksSpec, ResumesCaller

(* A class that is used without running its constructor has had it run,    *)
(* has it running further down the stack, or has failed to load.           *)
THEOREM ThreadFinishedMeansAttempted == Spec => []FinishedMeansAttempted
  BY ThreadClassesInvariance, InvariantMeansAttempted, PTL

(* The constructor of a module comes before those of its classes, unless   *)
(* code called from it needs the class.                                    *)
THEOREM ThreadRunsModuleFirst == Spec => []ModuleRunsFirst
<1>1. ClassesIInv => ModuleRunsFirst
  BY ClassesAssumption, InvariantMeansModuleFirst
<1> QED BY <1>1, ThreadClassesInvariance, PTL

(* No object is created before the constructors of its class and of its    *)
(* parent have been through, or are in progress.                           *)
THEOREM ThreadObjectsFollowParents == Spec => []ObjectsFollowParents
<1>1. ClassesIInv => ObjectsFollowParents
  BY DEF ClassesIInv
<1> QED BY <1>1, ThreadClassesInvariance, PTL

(***************************************************************************)
(* Only a use of a class that was waiting for the constructor of its       *)
(* module invokes the constructor of the class a second time, and it does  *)
(* so once: no constructor is ever invoked three times.                    *)
(***************************************************************************)
THEOREM ThreadAttemptsAgainOnlyAfterModule == Spec => SecondAttemptOnlyAfterModule
<1>1. ClassesIInv /\ AttemptsIInv /\ [ClassesNext]_classVars =>
          [\A c \in WithCctor : attempts'[c] > 1 =>
               \/ attempts'[c] = attempts[c]
               \/ attempts[c] = 1 /\ Top.of = c /\ Top.waited]_classVars
  BY ClassesAssumption, StepAttempts
<1>2. Spec => []AttemptsIInv
  BY ThreadImplementsClasses, AttemptsInvariance, PTL
<1> QED BY <1>1, <1>2, ThreadClassesInvariance, ThreadImplementsClasses, PTL
        DEF ClassesSpec, SecondAttemptOnlyAfterModule
-----------------------------------------------------------------------------
(* How a step changes the set of the constructors in progress *)
LEMMA BodiesFinite ==
    ASSUME ClassesIInv
    PROVE  IsFiniteSet(Bodies) /\ Cardinality(Bodies) \in Nat
<1>1. Bodies \subseteq 1..Len(calls) /\ Len(calls) \in Nat
  BY Types DEF Bodies
<1>2. IsFiniteSet(1..Len(calls))
  BY <1>1, FS_Interval
<1>3. IsFiniteSet(Bodies)
  BY <1>1, <1>2, FS_Subset
<1> QED BY <1>3, FS_CardinalityType

(* The innermost call ends, by returning or with all that fails with it.   *)
LEMMA EndingKeepsBodies ==
    ASSUME ClassesAssumption, ClassesIInv, Monotone, NEW n \in Nat, n = Len(calls), n > 0,
           calls' = Fail \/ calls' = Return
    PROVE  Bodies' = Bodies \ {n}
<1>1. DOMAIN calls = 1..n /\ calls \in Seq(Calls) /\ calls # <<>>
  BY Types
<1>2. PICK h \in 0..(n - 1) : calls' = SubSeq(calls, 1, h) /\ \A i \in (h + 1)..(n - 1) : calls[i].at # "body"
  <2>1. CASE calls' = Fail
    BY <1>1, <2>1, FailCuts DEF ClassesIInv
  <2>2. CASE calls' = Return
    <3>1. calls' = SubSeq(calls, 1, n - 1) /\ n - 1 \in 0..(n - 1)
      BY <2>2 DEF Return, Front
    <3>2. \A i \in ((n - 1) + 1)..(n - 1) : calls[i].at # "body"
      OBVIOUS
    <3> QED BY <3>1, <3>2
  <2> QED BY <2>1, <2>2
<1>3. DOMAIN calls' = 1..h /\ \A i \in 1..h : calls'[i] = calls[i]
  BY <1>1, <1>2
<1>4. \A i \in 1..n : i # n /\ i \notin 1..h => i \in (h + 1)..(n - 1)
  BY <1>2
<1>5. \A i \in 1..h : i \in 1..n /\ i # n
  BY <1>2
<1> QED BY <1>1, <1>2, <1>3, <1>4, <1>5 DEF Bodies

(* The calls above the lowest n - 1 are none of a constructor, and were not. *)
LEMMA SameBodies ==
    ASSUME NEW n \in Nat, NEW m \in Nat, DOMAIN calls = 1..n, DOMAIN calls' = 1..m, n <= m + 1,
           \A i \in 1..(n - 1) : calls'[i] = calls[i],
           n > 0 => calls[n].at # "body",
           \A i \in 1..m : ~(i < n) => calls'[i].at # "body"
    PROVE  Bodies' = Bodies
<1>1. \A i : i \in Bodies <=> i \in 1..(n - 1) /\ calls[i].at = "body"
  <2>1. \A i \in 1..n : i = n \/ i \in 1..(n - 1)
    OBVIOUS
  <2>2. n \in 1..n => n > 0
    OBVIOUS
  <2> QED BY <2>1, <2>2 DEF Bodies
<1>2. \A i : i \in Bodies' <=> i \in 1..(n - 1) /\ calls[i].at = "body"
  <2>1. \A i \in 1..m : i < n => i \in 1..(n - 1)
    OBVIOUS
  <2>2. \A i \in 1..(n - 1) : i \in 1..m
    OBVIOUS
  <2> QED BY <2>1, <2>2 DEF Bodies
<1> QED BY <1>1, <1>2

(* A use of a class enters no constructor. *)
LEMMA UseKeepsBodies ==
    ASSUME ClassesIInv, ManagedUse
    PROVE  Bodies' = Bodies
<1>1. PICK call : calls' = Append(calls, call) /\ call.at = "enter"
  <2>1. \A fn, of : CallOf(fn, of).at = "enter"
    BY DEF CallOf
  <2>2. \E fn, of : calls' = Append(calls, CallOf(fn, of))
    BY DEF ManagedUse, UseStatic, NewObject, RunModule
  <2> QED BY <2>1, <2>2
<1>2. PICK n \in Nat : n = Len(calls) /\ DOMAIN calls = 1..n /\ calls \in Seq(Calls)
  BY Types
<1>3. DOMAIN calls' = 1..(n + 1) /\ calls'[n + 1] = call /\ \A i \in 1..n : calls'[i] = calls[i]
  BY <1>1, <1>2
<1>4. \A i \in 1..(n + 1) : i = n + 1 \/ i \in 1..n
  OBVIOUS
<1>5. \A i \in 1..n : i \in 1..(n + 1) /\ i # n + 1
  OBVIOUS
<1> QED BY <1>1, <1>2, <1>3, <1>4, <1>5 DEF Bodies

(* The innermost call is not one of a constructor, and does not enter it.  *)
LEMMA TopKeepsBodies ==
    ASSUME ClassesAssumption, ClassesIInv, Monotone, NEW n \in Nat, n = Len(calls), n > 0,
           calls[n].at # "body",
           \/ calls' = Return
           \/ calls' = Fail
           \/ \E point \in {"load", "parent", "mark", "invoke"} :
                  calls' = Advance(point)
           \/ /\ calls' \in Seq(Calls) /\ Len(calls') = n + 1
              /\ calls'[n].at # "body" /\ calls'[n + 1].at # "body"
              /\ \A i \in 1..(n - 1) : calls'[i] = calls[i]
    PROVE  Bodies' = Bodies
<1>1. DOMAIN calls = 1..n
  BY Types
<1>2. CASE calls' = Return \/ calls' = Fail
  <2>1. Bodies' = Bodies \ {n}
    BY <1>2, EndingKeepsBodies
  <2>2. n \notin Bodies
    BY DEF Bodies
  <2> QED BY <2>1, <2>2
<1>3. ASSUME NEW point \in {"load", "parent", "mark", "invoke"}, calls' = Advance(point)
      PROVE  Bodies' = Bodies
  <2>1. PICK p \in {"load", "parent", "mark", "invoke", "body"} : p = point
    OBVIOUS
  <2>2. /\ calls' \in Seq(Calls) /\ Len(calls') = n
        /\ \A i \in 1..(n - 1) : calls'[i] = calls[i]
        /\ calls'[n].at = p
    BY <1>3, <2>1, AdvanceKeeps
  <2>3. DOMAIN calls' = 1..n /\ n <= n + 1 /\ calls'[n].at # "body"
    BY <2>1, <2>2
  <2>4. \A i \in 1..n : ~(i < n) => i = n
    OBVIOUS
  <2> QED BY <1>1, <2>2, <2>3, <2>4, SameBodies
<1>4. CASE /\ calls' \in Seq(Calls) /\ Len(calls') = n + 1
           /\ calls'[n].at # "body" /\ calls'[n + 1].at # "body"
           /\ \A i \in 1..(n - 1) : calls'[i] = calls[i]
  <2>1. PICK m \in Nat : m = n + 1
    OBVIOUS
  <2>2. DOMAIN calls' = 1..m /\ n <= m + 1
    BY <1>4, <2>1
  <2>3. \A i \in 1..m : ~(i < n) => i = n \/ i = n + 1
    BY <2>1
  <2>4. \A i \in 1..m : ~(i < n) => calls'[i].at # "body"
    BY <1>4, <2>3
  <2> QED BY <1>1, <1>4, <2>2, <2>4, SameBodies
<1> QED BY <1>2, <1>3, <1>4

(* The runtime's own steps enter and leave no constructor. *)
LEMMA RuntimeKeepsBodies ==
    ASSUME ClassesAssumption, ClassesIInv, RuntimeStep \/ RefuseBody
    PROVE  Bodies' = Bodies
<1>1. PICK n \in Nat :
          /\ n = Len(calls) /\ n > 0 /\ DOMAIN calls = 1..n /\ n \in DOMAIN calls
          /\ Top = calls[n] /\ calls[n] \in Calls
          /\ Shape(calls[n]) /\ ConstructorReady(n) /\ Served(n)
  BY TopCall DEF At, RuntimeStep, EnterModule, LookUpFails, EnterClass, LoadFails, SetFinished,
                EnterHierarchy, EnterParent, MarkHierarchy, RefuseBody
<1>2. calls[n].at # "body"
  BY <1>1 DEF At, RuntimeStep, EnterModule, LookUpFails, EnterClass, LoadFails, SetFinished,
              EnterHierarchy, EnterParent, MarkHierarchy, RefuseBody
<1>3. Monotone
  BY StepMonotone DEF ClassesNext
<1>4. CASE LookUpFails \/ LoadFails \/ RefuseBody
  BY <1>1, <1>2, <1>3, <1>4, TopKeepsBodies DEF LookUpFails, LoadFails, RefuseBody
<1>5. CASE EnterModule \/ SetFinished \/ MarkHierarchy
  <2>1. calls' = Return \/ calls' = Advance("invoke")
    BY <1>5 DEF EnterModule, SetFinished, MarkHierarchy
  <2> QED BY <1>1, <1>2, <1>3, <2>1, TopKeepsBodies
<1>6. CASE EnterHierarchy \/ EnterParent
  <2>1. ASSUME NEW point \in {"parent", "mark"}, NEW call \in Calls, call.at = "enter",
               calls' = CallThen(point, call)
        PROVE  Bodies' = Bodies
    <3>1. /\ calls' \in Seq(Calls) /\ Len(calls') = n + 1
          /\ calls'[n + 1] = call /\ calls'[n].at = point
          /\ \A i \in 1..(n - 1) : calls'[i] = calls[i]
      BY <1>1, <2>1, HierarchyCalls
    <3>2. calls'[n].at # "body" /\ calls'[n + 1].at # "body"
      BY <2>1, <3>1
    <3> QED BY <1>1, <1>2, <1>3, <3>1, <3>2, TopKeepsBodies
  <2>2. ASSUME NEW point \in {"parent", "mark"}, calls' = Advance(point)
        PROVE  Bodies' = Bodies
    BY <1>1, <1>2, <1>3, <2>2, TopKeepsBodies
  <2>3. ASSUME NEW fn \in {"class", "hierarchy"}, NEW k \in Classes
        PROVE  CallOf(fn, k) \in Calls /\ CallOf(fn, k).at = "enter"
    BY DEF CallOf, Calls
  <2>4. calls[n].of \in Classes
    BY <1>1, <1>6 DEF EnterHierarchy, EnterParent, At, Shape
  <2>5. CASE EnterHierarchy
    <3>1. calls' = CallThen("parent", CallOf("class", calls[n].of)) \/ calls' = Advance("parent")
      BY <1>1, <2>5 DEF EnterHierarchy
    <3> QED BY <2>1, <2>2, <2>3, <2>4, <3>1
  <2>6. CASE EnterParent
    <3>1. \/ Parent[calls[n].of] # NoClass /\ calls' = CallThen("mark", CallOf("hierarchy", Parent[calls[n].of]))
          \/ calls' = Advance("mark")
      BY <1>1, <2>6 DEF EnterParent
    <3>2. Parent[calls[n].of] # NoClass => Parent[calls[n].of] \in Classes
      BY <2>4 DEF ClassesAssumption
    <3> QED BY <2>1, <2>2, <2>3, <3>1, <3>2
  <2> QED BY <1>6, <2>5, <2>6
<1>7. CASE EnterClass
  <2>1. PICK k \in Classes : k = Top.of
    BY <1>1, <1>7 DEF EnterClass, At, Shape
  <2>2. CASE cctorStatus[k] = "NotInited"
    <3>1. /\ calls' \in Seq(Calls) /\ Len(calls') = n + 1
          /\ calls'[n + 1] = CallOf("module", ModuleOf[k]) /\ calls'[n].at = "load"
          /\ \A i \in 1..(n - 1) : calls'[i] = calls[i]
      BY <1>1, <1>7, <2>1, <2>2, EnterClassCalls
    <3>2. calls'[n].at # "body" /\ calls'[n + 1].at # "body"
      BY <3>1 DEF CallOf
    <3> QED BY <1>1, <1>2, <1>3, <3>1, <3>2, TopKeepsBodies
  <2>3. CASE cctorStatus[k] # "NotInited"
    <3>1. calls' = Return
      BY <1>7, <2>1, <2>3 DEF EnterClass
    <3> QED BY <1>1, <1>2, <1>3, <3>1, TopKeepsBodies
  <2> QED BY <2>2, <2>3
<1> QED BY <1>4, <1>5, <1>6, <1>7 DEF RuntimeStep

(* The constructor that is entered was not in progress. *)
LEMMA BodyStarts ==
    ASSUME ClassesAssumption, ClassesIInv, StartBody
    PROVE  Bodies' = Bodies \cup {Len(calls)} /\ Len(calls) \notin Bodies
<1>1. PICK n \in Nat :
          /\ n = Len(calls) /\ n > 0 /\ DOMAIN calls = 1..n /\ n \in DOMAIN calls
          /\ Top = calls[n] /\ calls[n] \in Calls
          /\ Shape(calls[n]) /\ ConstructorReady(n) /\ Served(n)
  BY TopCall DEF StartBody
<1>2. calls' = [calls EXCEPT ![n].at = "body"] /\ calls[n].at = "invoke"
  BY <1>1 DEF StartBody, Advance
<1>3. DOMAIN calls' = 1..n /\ (\A i \in 1..n : i # n => calls'[i] = calls[i]) /\ calls'[n].at = "body"
  BY <1>1, <1>2 DEF Calls
<1> QED BY <1>1, <1>2, <1>3 DEF Bodies

(* The constructor that ends was the innermost. *)
LEMMA BodyEnds ==
    ASSUME ClassesAssumption, ClassesIInv, BodyReturns \/ BodyThrows
    PROVE  Bodies' = Bodies \ {Len(calls)} /\ Len(calls) \in Bodies
<1>1. PICK n \in Nat :
          /\ n = Len(calls) /\ n > 0 /\ DOMAIN calls = 1..n /\ n \in DOMAIN calls
          /\ Top = calls[n] /\ calls[n] \in Calls
          /\ Shape(calls[n]) /\ ConstructorReady(n) /\ Served(n)
  BY TopCall DEF BodyReturns, BodyThrows
<1>2. Monotone
  BY StepMonotone DEF ClassesNext
<1>3. calls' = Fail \/ calls' = Return
  BY DEF BodyReturns, BodyThrows
<1>4. Bodies' = Bodies \ {n}
  BY <1>1, <1>2, <1>3, EndingKeepsBodies
<1>5. n \in Bodies
  BY <1>1 DEF Bodies, BodyReturns, BodyThrows
<1> QED BY <1>1, <1>4, <1>5

(* A call of execute() is one more. *)
LEMMA ExecutesGrow ==
    ASSUME StacksIInv, NEW m \in Methods, Execute(m)
    PROVE  Len(executes) \in Nat /\ Len(executes') = Len(executes) + 1
  BY TypeParts DEF Execute

(* A return from execute() is one less. *)
LEMMA ExecutesShrink ==
    ASSUME StacksIInv, LeaveExecute
    PROVE  Len(executes) \in Nat \ {0} /\ Len(executes') = Len(executes) - 1
<1>1. PICK e \in Nat : e = Len(executes) /\ executes \in Seq(Executes)
  BY TypeParts
<1>2. e # 0
  BY <1>1 DEF LeaveExecute, InManagedCode
<1>3. executes' = SubSeq(executes, 1, e - 1)
  BY <1>1 DEF LeaveExecute, Front
<1>4. e - 1 \in 0..e
  BY <1>2
<1>5. Len(executes') = e - 1
  BY <1>1, <1>3, <1>4
<1> QED BY <1>1, <1>2, <1>5

(* Calls and returns of managed code stay in their execute(). *)
LEMMA ExecutesKept ==
    ASSUME StacksIInv,
           \/ \E m \in Methods : \E offset \in 0..EvalSlots : Call(m, offset) \/ CallOverflows(m, offset)
           \/ LeaveFrame
    PROVE  Len(executes') = Len(executes)
<1>1. executes' = executes \/ \E c : executes' = ContinueWith(c)
  BY DEF Call, CallOverflows, LeaveFrame
<1> QED BY <1>1, TypeParts DEF ContinueWith

(* Every step keeps constructors and execute() calls matched. *)
LEMMA CctorsStep ==
    ASSUME CctorsAssumption, ClassesAssumption,
           ClassesIInv, StacksIInv, CctorsAreExecutes, [Next]_vars
    PROVE  CctorsAreExecutes'
<1>1. PICK b \in Nat, e \in Nat : b = Cardinality(Bodies) /\ e = Len(executes) /\ IsFiniteSet(Bodies)
  <2>1. IsFiniteSet(Bodies) /\ Cardinality(Bodies) \in Nat
    BY BodiesFinite
  <2>2. Len(executes) \in Nat
    BY TypeParts
  <2> QED BY <2>1, <2>2
<1>2. e = b \/ e = b + 1
  BY <1>1 DEF CctorsAreExecutes
<1>3. ASSUME Bodies' = Bodies, Len(executes') = e PROVE CctorsAreExecutes'
  BY <1>1, <1>2, <1>3 DEF CctorsAreExecutes
<1>4. CASE HostInvokes \/ HostInvokeEnds
  <2>1. calls = <<>> /\ calls' = calls
    BY <1>4 DEF HostInvokes, HostInvokeEnds, classVars
  <2>2. Bodies = {} /\ Bodies' = Bodies
    BY <2>1 DEF Bodies
  <2>3. b = 0
    BY <1>1, <2>2, FS_EmptySet
  <2>4. Len(executes') = 0 \/ Len(executes') = 1
    <3>1. CASE HostInvokes
      <4>1. e = 0
        BY <1>1, <3>1 DEF HostInvokes
      <4>2. PICK m \in Methods : Execute(m)
        BY <3>1 DEF HostInvokes
      <4> QED BY <1>1, <4>1, <4>2, ExecutesGrow
    <3>2. CASE HostInvokeEnds
      <4>1. e # 0 /\ Len(executes') = e - 1
        BY <1>1, <3>2, ExecutesShrink DEF HostInvokeEnds
      <4>2. e = 1
        BY <1>2, <2>3, <4>1
      <4>3. Len(executes') = 0
        BY <4>1, <4>2
      <4> QED BY <4>3
    <3> QED BY <1>4, <3>1, <3>2
  <2>5. Cardinality(Bodies') = 0
    BY <1>1, <2>2, <2>3
  <2> QED BY <2>4, <2>5 DEF CctorsAreExecutes
<1>5. CASE CallsMethod \/ Returns
  <2>1. Bodies' = Bodies
    BY <1>5 DEF CallsMethod, Returns, classVars, Bodies
  <2>2. Len(executes') = e
    BY <1>1, <1>5, ExecutesKept DEF CallsMethod, Returns
  <2> QED BY <1>3, <2>1, <2>2
<1>6. CASE UsesClass \/ InitializesClass \/ CctorRefused
  <2>1. Bodies' = Bodies
    BY <1>6, UseKeepsBodies, RuntimeKeepsBodies DEF UsesClass, InitializesClass, CctorRefused
  <2>2. Len(executes') = e
    BY <1>1, <1>6 DEF UsesClass, InitializesClass, CctorRefused, stackVars
  <2> QED BY <1>3, <2>1, <2>2
<1>7. CASE InvokesCctor
  <2>1. StartBody /\ Execute(CctorMethod[Top.of])
    BY <1>7 DEF InvokesCctor
  <2>2. CctorMethod[Top.of] \in Methods
    <3>1. calls # <<>> /\ Top.at = "invoke"
      BY <2>1 DEF StartBody
    <3>2. Top.of \in WithCctor
      BY <3>1, TopCall DEF Shape
    <3> QED BY <3>2 DEF CctorsAssumption
  <2>3. Len(executes') = e + 1
    BY <1>1, <2>1, <2>2, ExecutesGrow
  <2>4. Bodies' = Bodies \cup {Len(calls)} /\ Len(calls) \notin Bodies
    BY <2>1, BodyStarts
  <2>5. Cardinality(Bodies') = b + 1
    BY <1>1, <2>4, FS_AddElement
  <2> QED BY <1>2, <2>3, <2>5 DEF CctorsAreExecutes
<1>8. CASE CctorEnds
  <2>1. Len(executes') = e - 1 /\ e # 0
    BY <1>1, <1>8, ExecutesShrink DEF CctorEnds
  <2>2. Bodies' = Bodies \ {Len(calls)} /\ Len(calls) \in Bodies
    BY <1>8, BodyEnds DEF CctorEnds
  <2>3. Cardinality(Bodies') = b - 1
    BY <1>1, <2>2, FS_RemoveElement
  <2> QED BY <1>2, <2>1, <2>3 DEF CctorsAreExecutes
<1>9. CASE UNCHANGED vars
  <2>1. calls' = calls /\ executes' = executes
    BY <1>9 DEF vars, classVars, stackVars
  <2> QED BY <1>1, <1>3, <2>1 DEF Bodies
<1> QED BY <1>4, <1>5, <1>6, <1>7, <1>8, <1>9 DEF Next

(***************************************************************************)
(* The variables keep their types, and there is one execute() for each     *)
(* constructor in progress and at most one more, which the host called.    *)
(***************************************************************************)
THEOREM ThreadTypeOK == Spec => []TypeOK
<1>1. Init => CctorsAreExecutes
  <2>1. ASSUME Init PROVE CctorsAreExecutes
    <3>1. executes = <<>> /\ Bodies = {}
      BY <2>1 DEF Init, StacksInit, ClassesInit, Bodies
    <3> QED BY <3>1, FS_EmptySet DEF CctorsAreExecutes
  <2> QED BY <2>1
<1>2. ClassesIInv /\ StacksIInv /\ CctorsAreExecutes /\ [Next]_vars => CctorsAreExecutes'
  BY CctorsAssumption, ClassesAssumption, CctorsStep
<1>3. ClassesIInv /\ StacksIInv /\ CctorsAreExecutes => TypeOK
  BY DEF ClassesIInv, StacksIInv, TypeOK
<1> QED BY <1>1, <1>2, <1>3, ThreadStacksInvariance, ThreadClassesInvariance, PTL DEF Spec
==============================================================================
