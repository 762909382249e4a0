------------------------- MODULE ExceptionFlowProofs -------------------------
(***************************************************************************)
(* Proofs about ExceptionFlow, for all programs that are well formed and   *)
(* that the flows are kept right for (Supported): its types, the           *)
(* interpreter's assertions about s_exception_flows, and that no flow      *)
(* outlives its frame. And, for those which besides raise exceptions where *)
(* they go right (SupportedRaises), that it implements                     *)
(* StructuredExceptions.                                                   *)
(*                                                                         *)
(* The assertions are about the last flow only, but popping brings the     *)
(* ones below to the top. So the invariant says of every flow what will    *)
(* hold when it is the last: a frame has at its top the flow of the        *)
(* innermost handler that it is in, and each clause that may still take an *)
(* exception finds the flow of the handler around it by popping.           *)
(*                                                                         *)
(* StructuredExceptions knows the handlers that a frame is in as a set of  *)
(* clauses, which the flows give only by where control is. So a second     *)
(* invariant says where each flow began: in the handlers that the flows    *)
(* below it are for, or behind one that a throw has left. No two flows are *)
(* then for the same handler, and entering one and leaving others is       *)
(* seen as pushing a flow, popping some, or no longer being where the flow *)
(* is looked for.                                                          *)
(***************************************************************************)
EXTENDS ExceptionFlow, FiniteSetTheorems, SequenceTheorems, TLAPS

(* Every program is well formed, and all its methods are supported. *)
ProgramsSupported ==
    \A p \in Programs : WellFormed(p) /\ \A n \in DOMAIN p : Supported(p[n])
------------------------------------------------------------------------------
(* The inductive invariant.                                                *)

ThrowFlows(prog) ==
    [throw : {TRUE}, ex : Exceptions, frame : Nat, at : (DOMAIN prog) \X Nat, next : Nat,
     clause : {NoClause} \cup ((DOMAIN prog) \X Nat), handled : BOOLEAN]

LeaveFlows(prog) ==
    [throw : {FALSE}, frame : Nat, src : Nat, target : Nat,
     clause : (DOMAIN prog) \X Nat, next : Nat, remain : Nat]

FlowSet(prog) == ThrowFlows(prog) \cup LeaveFlows(prog)

FrameSet(prog) == [method : DOMAIN prog, ip : Nat]

(* The method whose code a flow is about. *)
Owner(flow) == IF flow.throw THEN flow.at[1] ELSE flow.clause[1]

(* The clause whose handler frame k runs when flow s is the last, or 0. *)
Executing(fs, s, k) == IF s > 0 /\ fs[s].frame = k THEN Executes(fs[s]) ELSE 0

InnermostOrNone(cs, p, e) ==
    \/ e = 0 /\ \A h \in DOMAIN cs : p \notin cs[h].handler
    \/ e \in DOMAIN cs /\ IsInnermost(cs, p, e)

(* Clause e has the innermost of the handlers that clause c is in. *)
Enclosing(cs, c, e) ==
    /\ \A h \in DOMAIN cs : h # c /\ cs[c].entry \in cs[h].handler => e # 0 /\ e <= h
    /\ \/ e = 0
       \/ e \in DOMAIN cs /\ e # c /\ cs[c].entry \in cs[e].handler

Covers(cs, flow, p) == flow.clause # NoClause /\ p \in cs[flow.clause[2]].handler

(* PopOutOfScope with the entry of catch clause c, flow s being the last,  *)
(* stops at flow r, and r is the flow of the handler that c is in.         *)
StopsAt(cs, fs, s, k, c, r) ==
    /\ \A x \in r + 1 .. s : fs[x].frame = k /\ ~Covers(cs, fs[x], cs[c].entry)
    /\ r = 0 \/ fs[r].frame # k \/ Covers(cs, fs[r], cs[c].entry)
    /\ Enclosing(cs, c, Executing(fs, r, k))

Reaches(cs, fs, s, k, c) == \E r \in 0 .. s : StopsAt(cs, fs, s, k, c, r)

ThrowOK(m, fs, s) ==
    LET f == fs[s]
        cs == m.clauses
    IN  /\ f.at[2] \in DOMAIN m.code
        /\ f.handled => f.clause # NoClause
        /\ f.clause # NoClause =>
               /\ f.clause[2] \in DOMAIN cs
               /\ f.handled <=> cs[f.clause[2]].kind = "catch"
               /\ f.next = f.clause[2] + 1
               /\ f.at[2] \in cs[f.clause[2]].try
               /\ cs[f.clause[2]].kind \in {"catch", "filter"} =>
                      Enclosing(cs, f.clause[2], Executing(fs, s - 1, f.frame))
        /\ \A c \in DOMAIN cs :
               cs[c].kind = "catch" /\ f.at[2] \in cs[c].try /\ c >= f.next =>
                   Reaches(cs, fs, s - 1, f.frame, c)
        /\ ~f.handled => \A c \in DOMAIN cs :
               cs[c].kind = "filter" /\ f.at[2] \in cs[c].try /\ c >= f.next =>
                   Executing(fs, s - 1, f.frame) = 0

LeaveOK(m, fs, s) ==
    LET f == fs[s]
        cs == m.clauses
        finallys == FinallysBetween(cs, f.src, f.target)
    IN  /\ f.src \in DOMAIN m.code
        /\ m.code[f.src].op = "leave"
        /\ m.code[f.src].target = f.target
        /\ f.clause[2] \in finallys
        /\ \A i \in finallys : f.clause[2] <= i
        /\ \E e \in finallys : f.next = e + 1
        /\ f.remain = Cardinality({i \in finallys : i >= f.next})
        /\ InnermostOrNone(cs, f.target, Executing(fs, s - 1, f.frame))
        /\ \A i \in finallys, c \in DOMAIN cs :
               cs[c].kind = "catch" /\ cs[i].handler \subseteq cs[c].try =>
                   Reaches(cs, fs, s - 1, f.frame, c)

FlowOK(prog, fs, s) ==
    /\ fs[s].clause # NoClause => fs[s].clause[1] = Owner(fs[s])
    /\ fs[s].throw => ThrowOK(prog[Owner(fs[s])], fs, s)
    /\ ~fs[s].throw => LeaveOK(prog[Owner(fs[s])], fs, s)

(* Flow t is the last of those of frames up to k. *)
LastUpTo(fs, k, t) ==
    /\ \A x \in 1 .. t : fs[x].frame <= k
    /\ \A x \in t + 1 .. Len(fs) : fs[x].frame > k

(* Frame k, which is at p of m, has at its top the flow for where it is. *)
Placed(m, fs, k, p) ==
    \A t \in 0 .. Len(fs) :
        LastUpTo(fs, k, t) => InnermostOrNone(m.clauses, p, Executing(fs, t, k))

FramesTyped ==
    /\ program \in Programs
    /\ mode \in {"run", "unwind"}
    /\ outcome \in {"running", "returned"} \cup Exceptions
    /\ ip \in Nat
    /\ frames \in Seq(FrameSet(program))
    /\ entries \in Seq([base : Nat, ip : Nat])
    /\ flows \in Seq(FlowSet(program))
    /\ Len(frames) <= MaxFrames
    /\ \A k \in DOMAIN frames : frames[k].ip \in DOMAIN program[frames[k].method].code
    /\ outcome = "running" => /\ frames # <<>> /\ entries # <<>>
                             /\ ip \in DOMAIN program[Method].code
    /\ outcome # "running" => frames = <<>> /\ entries = <<>> /\ flows = <<>> /\ mode = "run"

(* The execute() calls begin at frame 1 and at ever higher frames; all but *)
(* the first are at an invoke of the frame below.                          *)
EntriesNested(prog, frs, ents) ==
    /\ ents # <<>> => ents[1].base = 1
    /\ \A e \in DOMAIN ents : ents[e].base \in DOMAIN frs
    /\ \A d, e \in DOMAIN ents : d < e => ents[d].base < ents[e].base
    /\ \A e \in DOMAIN ents : e > 1 =>
           LET m == prog[frs[ents[e].base - 1].method]
           IN  ents[e].ip \in DOMAIN m.code /\ m.code[ents[e].ip].op = "invoke"

FlowsKept(prog, frs, fs) ==
    /\ \A s \in DOMAIN fs : fs[s].frame \in DOMAIN frs
    /\ \A s, t \in DOMAIN fs : s < t => fs[s].frame <= fs[t].frame
    /\ \A s \in DOMAIN fs : Owner(fs[s]) = frs[fs[s].frame].method
    /\ \A s \in DOMAIN fs : FlowOK(prog, fs, s)

CallersPlaced(prog, frs, ents, fs) ==
    /\ \A e \in DOMAIN ents : e > 1 =>
           Placed(prog[frs[ents[e].base - 1].method], fs, ents[e].base - 1, ents[e].ip)
    /\ \A k \in DOMAIN frs :
           k < Len(frs) /\ (\A e \in DOMAIN ents : ents[e].base # k + 1) =>
               Placed(prog[frs[k].method], fs, k, frs[k].ip)

CurrentPlaced == Running => Placed(program[Method], flows, Cur, ip)

HaveClauses ==
    \A s \in DOMAIN flows : s < Len(flows) \/ mode = "run" => flows[s].clause # NoClause

UnwindsTop ==
    mode = "unwind" => /\ flows # <<>>
                       /\ TopFlow.frame = Cur
                       /\ TopFlow.throw => ~TopFlow.handled

FlowsIInv ==
    /\ FramesTyped
    /\ EntriesNested(program, frames, entries)
    /\ FlowsKept(program, frames, flows)
    /\ CallersPlaced(program, frames, entries, flows)
    /\ CurrentPlaced
    /\ HaveClauses
    /\ UnwindsTop
------------------------------------------------------------------------------
(* Numbers and sequences.                                                  *)

(* A bounded set of natural numbers has a greatest element. *)
LEMMA MaxOfBounded ==
    ASSUME NEW n \in Nat, NEW S \in SUBSET (0 .. n), S # {}
    PROVE  Max(S) \in S /\ \A y \in S : Max(S) >= y
<1> DEFINE T == {t \in 0 .. n : n - t \in S}
<1>1. T \subseteq Nat /\ T # {}
  <2>1. PICK s \in S : TRUE
    OBVIOUS
  <2>2. n - s \in T
    BY <2>1
  <2> QED BY <2>2
<1>2. \E t \in T : \A u \in T : ~(<<u, t>> \in OpToRel(<, Nat))
  BY <1>1, WFMin, NatLessThanWellFounded
<1>3. PICK t \in T : \A u \in T : ~(u < t)
  BY <1>1, <1>2 DEF OpToRel
<1>4. n - t \in S
  OBVIOUS
<1>5. ASSUME NEW y \in S PROVE n - t >= y
  <2>1. n - y \in T
    OBVIOUS
  <2>2. ~(n - y < t)
    BY <1>3, <2>1
  <2> QED BY <2>2, <1>3
<1> QED BY <1>4, <1>5 DEF Max

(* A set of natural numbers has a least element. *)
LEMMA MinOfNats ==
    ASSUME NEW S \in SUBSET Nat, S # {}
    PROVE  Min(S) \in S /\ \A y \in S : Min(S) <= y
<1>1. \E t \in S : \A u \in S : ~(<<u, t>> \in OpToRel(<, Nat))
  BY WFMin, NatLessThanWellFounded
<1>2. PICK t \in S : \A u \in S : ~(u < t)
  BY <1>1 DEF OpToRel
<1>3. \A u \in S : t <= u
  BY <1>2
<1> QED BY <1>3 DEF Min

(* What is popped up to the last element that is not stale. *)
LEMMA Popped ==
    ASSUME NEW S, NEW fs \in Seq(S), NEW Keep \in SUBSET DOMAIN fs
    PROVE  \E r \in 0 .. Len(fs) :
               /\ SubSeq(fs, 1, Max({0} \cup Keep)) \in Seq(S)
               /\ Len(SubSeq(fs, 1, Max({0} \cup Keep))) = r
               /\ \A x \in 1 .. r : SubSeq(fs, 1, Max({0} \cup Keep))[x] = fs[x]
               /\ r = 0 \/ r \in Keep
               /\ \A x \in r + 1 .. Len(fs) : x \notin Keep
<1> DEFINE B == {0} \cup Keep
<1>1. B \in SUBSET (0 .. Len(fs)) /\ B # {} /\ Len(fs) \in Nat
  OBVIOUS
<1>2. Max(B) \in B /\ \A y \in B : Max(B) >= y
  <2> HIDE DEF B
  <2> QED BY <1>1, MaxOfBounded
<1>3. PICK r \in B : r = Max(B) /\ \A y \in B : r >= y
  BY <1>2
<1>4. r \in 0 .. Len(fs) /\ \A x \in r + 1 .. Len(fs) : x \notin Keep
  <2>1. r \in 0 .. Len(fs)
    BY <1>1
  <2>2. ASSUME NEW x \in r + 1 .. Len(fs), x \in Keep PROVE FALSE
    <3>1. r >= x
      BY <1>3, <2>2
    <3> QED BY <2>1, <2>2, <3>1
  <2> QED BY <2>1, <2>2
<1>5. /\ SubSeq(fs, 1, r) \in Seq(S)
      /\ Len(SubSeq(fs, 1, r)) = r
      /\ \A x \in 1 .. r : SubSeq(fs, 1, r)[x] = fs[x]
  BY <1>4
<1> QED BY <1>3, <1>4, <1>5
------------------------------------------------------------------------------
(* How the blocks of well nested clauses lie.                              *)

LEMMA HandlersNested ==
    ASSUME NEW cs, WellNested(cs), NEW i \in DOMAIN cs, NEW j \in DOMAIN cs, NEW p,
           p \in cs[i].handler, p \in cs[j].handler, i < j
    PROVE  Unit(cs[i]) \subseteq cs[j].handler
<1>1. Arranged(cs[i], cs[j]) /\ cs[j].try \cap cs[j].handler = {}
  BY DEF WellNested
<1> QED BY <1>1 DEF Arranged, Unit

(* A handler around the entry of a handler is around its try block too, *)
(* and comes later.                                                     *)
LEMMA AroundEntry ==
    ASSUME NEW cs, WellNested(cs), NEW c \in DOMAIN cs, NEW h \in DOMAIN cs, h # c,
           cs[c].entry \in cs[h].handler
    PROVE  c < h /\ Unit(cs[c]) \subseteq cs[h].handler
<1>1. cs[c].entry \in cs[c].handler
  BY DEF WellNested
<1>2. c \in Nat /\ h \in Nat
  BY DEF WellNested
<1>3. ~(h < c)
  BY DEF WellNested
<1> QED BY <1>1, <1>2, <1>3, HandlersNested

LEMMA EntryIsInnermost ==
    ASSUME NEW cs, WellNested(cs), NEW c \in DOMAIN cs
    PROVE  IsInnermost(cs, cs[c].entry, c)
<1>1. cs[c].entry \in cs[c].handler
  BY DEF WellNested
<1>2. c \in Nat /\ \A h \in DOMAIN cs : h \in Nat
  BY DEF WellNested
<1>3. ASSUME NEW h \in DOMAIN cs, cs[c].entry \in cs[h].handler PROVE c <= h
  BY <1>2, <1>3, AroundEntry
<1> QED BY <1>1, <1>3 DEF IsInnermost

(* Where a try block and a handler have an offset in common, one clause is *)
(* in the block of the other.                                              *)
LEMMA TryMeetsHandler ==
    ASSUME NEW cs, WellNested(cs), NEW c \in DOMAIN cs, NEW h \in DOMAIN cs, NEW p,
           p \in cs[c].try, p \in cs[h].handler
    PROVE  \/ c < h /\ Unit(cs[c]) \subseteq cs[h].handler
           \/ h < c /\ Unit(cs[h]) \subseteq cs[c].try
<1>1. /\ cs[c].try \cap cs[c].handler = {}
      /\ cs[h].try \cap cs[h].handler = {}
      /\ c \in Nat /\ h \in Nat
      /\ c < h => Arranged(cs[c], cs[h])
      /\ h < c => Arranged(cs[h], cs[c])
  BY DEF WellNested
<1>2. c # h
  BY <1>1
<1>3. CASE c < h
  BY <1>1, <1>3 DEF Arranged, Unit
<1>4. CASE h < c
  BY <1>1, <1>4 DEF Arranged, Unit
<1> QED BY <1>1, <1>2, <1>3, <1>4

(* A handler inside a try block is there with its own try block. *)
LEMMA HandlerInTry ==
    ASSUME NEW cs, WellNested(cs), NEW c \in DOMAIN cs, NEW h \in DOMAIN cs,
           cs[h].handler \subseteq cs[c].try
    PROVE  h < c /\ Unit(cs[h]) \subseteq cs[c].try
<1>1. /\ cs[h].entry \in cs[h].handler
      /\ cs[c].entry \in cs[c].handler
      /\ cs[c].try \cap cs[c].handler = {}
  BY DEF WellNested
<1>2. \/ c < h /\ Unit(cs[c]) \subseteq cs[h].handler
      \/ h < c /\ Unit(cs[h]) \subseteq cs[c].try
  BY <1>1, TryMeetsHandler
<1> QED BY <1>1, <1>2 DEF Unit
------------------------------------------------------------------------------
(* Flows.                                                                  *)

LEMMA FlowFields ==
    ASSUME NEW prog, NEW f \in FlowSet(prog)
    PROVE  /\ f.throw \in BOOLEAN
           /\ f.frame \in Nat
           /\ f.next \in Nat
           /\ f.clause # NoClause => f.clause[1] \in DOMAIN prog /\ f.clause[2] \in Nat
           /\ f.throw => /\ f \in ThrowFlows(prog)
                         /\ f.ex \in Exceptions
                         /\ f.at[1] \in DOMAIN prog /\ f.at[2] \in Nat
                         /\ f.handled \in BOOLEAN
           /\ ~f.throw => /\ f \in LeaveFlows(prog)
                          /\ f.clause # NoClause
                          /\ f.src \in Nat /\ f.target \in Nat /\ f.remain \in Nat
           /\ Owner(f) \in DOMAIN prog
<1>1. CASE f \in ThrowFlows(prog)
  BY <1>1 DEF ThrowFlows, Owner, NoClause
<1>2. CASE f \in LeaveFlows(prog)
  <2>1. f.clause \in (DOMAIN prog) \X Nat
    BY <1>2 DEF LeaveFlows
  <2>2. f.clause # NoClause
    <3>1. PICK a \in DOMAIN prog, b \in Nat : f.clause = <<a, b>>
      BY <2>1
    <3>2. Len(f.clause) = 2 /\ Len(NoClause) = 0
      BY <3>1 DEF NoClause
    <3> QED BY <3>2
  <2>3. f.clause[1] \in DOMAIN prog /\ f.clause[2] \in Nat
    BY <2>1
  <2> QED BY <1>2, <2>2, <2>3 DEF LeaveFlows, Owner
<1> QED BY <1>1, <1>2 DEF FlowSet

(* What is said of the flows up to s depends on no other flow. *)
LEMMA ExecutingSame ==
    ASSUME NEW fs, NEW gs, NEW s \in Nat, NEW k, \A x \in 1 .. s : gs[x] = fs[x]
    PROVE  Executing(gs, s, k) = Executing(fs, s, k)
BY DEF Executing

LEMMA StopsSame ==
    ASSUME NEW cs, NEW fs, NEW gs, NEW s \in Nat, NEW k, NEW c, NEW r \in 0 .. s,
           \A x \in 1 .. s : gs[x] = fs[x],
           StopsAt(cs, fs, s, k, c, r)
    PROVE  StopsAt(cs, gs, s, k, c, r)
<1>1. Executing(gs, r, k) = Executing(fs, r, k)
  BY ExecutingSame
<1>2. r # 0 => gs[r] = fs[r]
  OBVIOUS
<1>3. \A x \in r + 1 .. s : gs[x] = fs[x]
  OBVIOUS
<1> QED BY <1>1, <1>2, <1>3 DEF StopsAt

LEMMA ReachesSame ==
    ASSUME NEW cs, NEW fs, NEW gs, NEW s \in Nat, NEW k, NEW c,
           \A x \in 1 .. s : gs[x] = fs[x],
           Reaches(cs, fs, s, k, c)
    PROVE  Reaches(cs, gs, s, k, c)
<1>1. PICK r \in 0 .. s : StopsAt(cs, fs, s, k, c, r)
  BY DEF Reaches
<1>2. StopsAt(cs, gs, s, k, c, r)
  BY <1>1, StopsSame
<1> QED BY <1>2 DEF Reaches

LEMMA FlowOKSame ==
    ASSUME NEW prog, NEW fs, NEW gs, NEW s \in Nat \ {0}, \A x \in 1 .. s : gs[x] = fs[x],
           FlowOK(prog, fs, s)
    PROVE  FlowOK(prog, gs, s)
<1> DEFINE k == fs[s].frame
           m == prog[Owner(fs[s])]
<1>1. gs[s] = fs[s] /\ s - 1 \in Nat
  OBVIOUS
<1>2. \A x \in 1 .. (s - 1) : gs[x] = fs[x]
  OBVIOUS
<1>3. Executing(gs, s - 1, k) = Executing(fs, s - 1, k)
  BY <1>1, <1>2, ExecutingSame
<1>4. \A c : Reaches(m.clauses, fs, s - 1, k, c) => Reaches(m.clauses, gs, s - 1, k, c)
  BY <1>1, <1>2, ReachesSame
<1>5. fs[s].throw => ThrowOK(m, fs, s)
  BY DEF FlowOK
<1>6. fs[s].throw => ThrowOK(m, gs, s)
  BY <1>1, <1>3, <1>4, <1>5 DEF ThrowOK
<1>7. ~fs[s].throw => LeaveOK(m, fs, s)
  BY DEF FlowOK
<1>8. ~fs[s].throw => LeaveOK(m, gs, s)
  BY <1>1, <1>3, <1>4, <1>7 DEF LeaveOK
<1> QED BY <1>1, <1>6, <1>8 DEF FlowOK
------------------------------------------------------------------------------
(* The clause that a flow executes.                                        *)

LEMMA Executed ==
    ASSUME NEW prog, NEW fs, NEW s \in Nat \ {0}, fs[s] \in FlowSet(prog),
           fs[s].clause # NoClause, FlowOK(prog, fs, s),
           WellNested(prog[Owner(fs[s])].clauses)
    PROVE  LET f == fs[s]
               cs == prog[Owner(f)].clauses
               e == Executes(f)
           IN  /\ e \in DOMAIN cs /\ e \in Nat \ {0}
               /\ f.next = e + 1
               /\ f.clause[2] \in DOMAIN cs /\ f.clause[2] \in Nat /\ f.clause[2] <= e
               /\ f.throw => f.clause[2] = e
               /\ ~f.throw => /\ e \in FinallysBetween(cs, f.src, f.target)
                              /\ cs[e].kind = "finally"
<1> DEFINE f == fs[s]
           m == prog[Owner(f)]
           cs == m.clauses
<1>1. DOMAIN cs \subseteq Nat \ {0}
  BY DEF WellNested
<1>2. f.throw \in BOOLEAN /\ f.next \in Nat
  BY FlowFields
<1>3. CASE f.throw
  <2>1. f.clause[2] \in DOMAIN cs /\ f.next = f.clause[2] + 1
    BY <1>3 DEF FlowOK, ThrowOK
  <2> QED BY <1>1, <1>3, <2>1 DEF Executes
<1>4. CASE ~f.throw
  <2> DEFINE finallys == FinallysBetween(cs, f.src, f.target)
  <2>1. f.clause[2] \in finallys /\ \A i \in finallys : f.clause[2] <= i
    BY <1>4 DEF FlowOK, LeaveOK
  <2>2. PICK e \in finallys : f.next = e + 1
    BY <1>4 DEF FlowOK, LeaveOK
  <2>3. \A i \in finallys : i \in DOMAIN cs /\ cs[i].kind = "finally"
    BY DEF FinallysBetween
  <2>4. Executes(f) = e
    BY <1>1, <1>4, <2>2, <2>3 DEF Executes
  <2> HIDE DEF finallys
  <2>5. f.clause[2] \in DOMAIN cs /\ f.clause[2] <= e /\ e \in DOMAIN cs /\ cs[e].kind = "finally"
    BY <2>1, <2>2, <2>3
  <2>6. e \in FinallysBetween(cs, f.src, f.target)
    BY <2>2 DEF finallys
  <2> QED BY <1>1, <1>4, <2>2, <2>4, <2>5, <2>6
<1> QED BY <1>2, <1>3, <1>4

(***************************************************************************)
(* The flow of the handler that frame k is in at p is the last of the      *)
(* frame's flows up to s. A catch clause c whose entry is in the same      *)
(* handlers, but for those in its try block, finds its surroundings below. *)
(***************************************************************************)
LEMMA CatchReaches ==
    ASSUME NEW prog, NEW fs, NEW s \in Nat, NEW k, NEW n, NEW p, NEW c,
           WellNested(prog[n].clauses),
           \A q \in DOMAIN prog[n].code :
               prog[n].code[q].op = "leave" => SupportedLeave(prog[n], q),
           s # 0 /\ fs[s].frame = k =>
               /\ fs[s] \in FlowSet(prog)
               /\ fs[s].clause # NoClause
               /\ Owner(fs[s]) = n
               /\ FlowOK(prog, fs, s),
           InnermostOrNone(prog[n].clauses, p, Executing(fs, s, k)),
           IsCatch(prog[n], c),
           \A h \in DOMAIN prog[n].clauses : p \in prog[n].clauses[h].handler =>
               \/ c < h /\ prog[n].clauses[c].entry \in prog[n].clauses[h].handler
               \/ h < c /\ prog[n].clauses[h].handler \subseteq prog[n].clauses[c].try,
           \A h \in DOMAIN prog[n].clauses :
               h # c /\ prog[n].clauses[c].entry \in prog[n].clauses[h].handler =>
                   p \in prog[n].clauses[h].handler
    PROVE  Reaches(prog[n].clauses, fs, s, k, c)
<1> DEFINE cs == prog[n].clauses
           f == fs[s]
           e == Executes(f)
<1>1. DOMAIN cs \subseteq Nat \ {0} /\ c \in DOMAIN cs
  BY DEF WellNested, IsCatch
<1>2. CASE s = 0 \/ f.frame # k
  <2>1. Executing(fs, s, k) = 0
    BY <1>2 DEF Executing
  <2>2. \A h \in DOMAIN cs : p \notin cs[h].handler
    BY <1>1, <2>1 DEF InnermostOrNone
  <2>3. Enclosing(cs, c, 0)
    BY <2>2 DEF Enclosing
  <2>4. StopsAt(cs, fs, s, k, c, s)
    BY <1>2, <2>1, <2>3 DEF StopsAt
  <2> QED BY <2>4 DEF Reaches
<1>3. CASE s # 0 /\ f.frame = k
  <2>1. /\ e \in DOMAIN cs /\ e \in Nat \ {0}
        /\ f.next = e + 1
        /\ f.clause[2] \in DOMAIN cs /\ f.clause[2] \in Nat /\ f.clause[2] <= e
        /\ f.throw => f.clause[2] = e
        /\ ~f.throw => e \in FinallysBetween(cs, f.src, f.target) /\ cs[e].kind = "finally"
    BY <1>3, Executed
  <2>2. Executing(fs, s, k) = e
    BY <1>3 DEF Executing
  <2>3. p \in cs[e].handler /\ \A h \in DOMAIN cs : p \in cs[h].handler => e <= h
    BY <1>1, <2>1, <2>2 DEF InnermostOrNone, IsInnermost
  <2>4. f.clause # NoClause /\ f.throw \in BOOLEAN
    BY <1>3, FlowFields
  <2>5. CASE c < e /\ cs[c].entry \in cs[e].handler
    <3>1. f.clause[2] = e
      <4>1. SUFFICES ASSUME ~f.throw, f.clause[2] # e PROVE FALSE
        BY <2>1, <2>4
      <4>2. /\ f.src \in DOMAIN prog[n].code
            /\ prog[n].code[f.src].op = "leave"
            /\ prog[n].code[f.src].target = f.target
            /\ f.clause[2] \in FinallysBetween(cs, f.src, f.target)
        BY <1>3, <4>1 DEF FlowOK, LeaveOK
      <4>3. SupportedLeave(prog[n], f.src)
        BY <4>2
      <4>4. \A i, j \in FinallysBetween(cs, f.src, f.target) :
                i < j => cs[c].entry \notin cs[j].handler
        BY <1>1, <4>2, <4>3 DEF SupportedLeave
      <4> QED BY <2>1, <2>5, <4>1, <4>2, <4>4
    <3>2. Covers(cs, f, cs[c].entry)
      BY <2>4, <2>5, <3>1 DEF Covers
    <3>3. Enclosing(cs, c, e)
      BY <1>1, <2>1, <2>3, <2>5 DEF Enclosing
    <3>4. StopsAt(cs, fs, s, k, c, s)
      BY <2>2, <3>2, <3>3 DEF StopsAt
    <3> QED BY <3>4 DEF Reaches
  <2>6. CASE e < c /\ cs[e].handler \subseteq cs[c].try
    <3>1. cs[c].entry \notin cs[f.clause[2]].handler
      <4>1. f.clause[2] < c /\ c \in Nat
        BY <1>1, <2>1, <2>6
      <4> QED BY <1>1, <2>1, <4>1, AroundEntry
    <3>2. ~Covers(cs, f, cs[c].entry)
      BY <3>1 DEF Covers
    <3>3. Reaches(cs, fs, s - 1, k, c)
      <4>1. CASE f.throw
        <5>1. f.at[2] \in cs[e].try
          BY <1>3, <2>1, <2>4, <4>1 DEF FlowOK, ThrowOK
        <5>2. f.at[2] \in cs[c].try /\ c >= f.next
          BY <1>1, <2>1, <2>6, <5>1, HandlerInTry DEF Unit
        <5> QED BY <1>1, <1>3, <4>1, <5>2 DEF FlowOK, ThrowOK, IsCatch
      <4>2. CASE ~f.throw
        BY <1>1, <1>3, <2>1, <2>6, <4>2 DEF FlowOK, LeaveOK, IsCatch
      <4> QED BY <2>4, <4>1, <4>2
    <3>4. PICK r \in 0 .. (s - 1) : StopsAt(cs, fs, s - 1, k, c, r)
      BY <3>3 DEF Reaches
    <3>5. StopsAt(cs, fs, s, k, c, r) /\ r \in 0 .. s
      BY <1>3, <3>2, <3>4 DEF StopsAt
    <3> QED BY <3>5 DEF Reaches
  <2> QED BY <2>1, <2>3, <2>5, <2>6
<1> QED BY <1>2, <1>3
------------------------------------------------------------------------------
(* Steps: flows up to r are kept, and at most one is pushed on them.       *)

LEMMA KeptStep ==
    ASSUME NEW prog, NEW frs, NEW grs, NEW fs, NEW gs, NEW r \in Nat, NEW n \in {r, r + 1},
           1 .. r \subseteq DOMAIN fs, DOMAIN gs = 1 .. n,
           FlowsKept(prog, frs, fs),
           \A x \in 1 .. r : gs[x] = fs[x],
           \A x \in 1 .. r : fs[x].frame \in DOMAIN grs,
           \A k \in DOMAIN grs : k \in DOMAIN frs => grs[k].method = frs[k].method,
           n = r + 1 => /\ gs[r + 1].frame \in DOMAIN grs
                        /\ \A x \in 1 .. r : fs[x].frame <= gs[r + 1].frame
                        /\ Owner(gs[r + 1]) = grs[gs[r + 1].frame].method
                        /\ FlowOK(prog, gs, r + 1)
    PROVE  FlowsKept(prog, grs, gs)
<1>1. \A x \in 1 .. r : x \in DOMAIN fs
  OBVIOUS
<1>2. ASSUME NEW s \in DOMAIN gs
      PROVE  /\ gs[s].frame \in DOMAIN grs
             /\ Owner(gs[s]) = grs[gs[s].frame].method
             /\ FlowOK(prog, gs, s)
  <2>1. CASE s \in 1 .. r
    <3>1. gs[s] = fs[s] /\ FlowOK(prog, fs, s) /\ s \in Nat \ {0}
      BY <1>1, <2>1 DEF FlowsKept
    <3>2. \A x \in 1 .. s : gs[x] = fs[x]
      BY <2>1, <3>1
    <3>3. FlowOK(prog, gs, s)
      BY <3>1, <3>2, FlowOKSame
    <3> QED BY <1>1, <2>1, <3>1, <3>3 DEF FlowsKept
  <2>2. CASE s = r + 1 /\ n = r + 1
    BY <2>2
  <2> QED BY <1>1, <2>1, <2>2
<1>3. ASSUME NEW s \in DOMAIN gs, NEW t \in DOMAIN gs, s < t PROVE gs[s].frame <= gs[t].frame
  <2>1. s \in 1 .. r
    BY <1>1, <1>3
  <2>2. CASE t \in 1 .. r
    BY <1>1, <1>3, <2>1, <2>2 DEF FlowsKept
  <2>3. CASE t = r + 1 /\ n = r + 1
    BY <2>1, <2>3
  <2> QED BY <1>1, <2>2, <2>3
<1> QED BY <1>2, <1>3 DEF FlowsKept

LEMMA PlacedStep ==
    ASSUME NEW m, NEW fs, NEW gs, NEW r \in Nat, NEW k \in Nat, NEW p,
           Len(fs) \in Nat, Len(gs) \in Nat, r <= Len(fs), r <= Len(gs),
           \A x \in 1 .. r : gs[x] = fs[x],
           \A x \in r + 1 .. Len(fs) : fs[x].frame > k,
           \A x \in r + 1 .. Len(gs) : gs[x].frame \in Nat /\ gs[x].frame > k,
           Placed(m, fs, k, p)
    PROVE  Placed(m, gs, k, p)
<1> SUFFICES ASSUME NEW t \in 0 .. Len(gs), LastUpTo(gs, k, t)
             PROVE  InnermostOrNone(m.clauses, p, Executing(gs, t, k))
  BY DEF Placed
<1>1. t <= r
  <2>1. SUFFICES ASSUME r < t PROVE FALSE
    OBVIOUS
  <2>2. t \in 1 .. t /\ t \in r + 1 .. Len(gs)
    BY <2>1
  <2> QED BY <2>2 DEF LastUpTo
<1>2. \A x \in 1 .. t : gs[x] = fs[x]
  BY <1>1
<1>3. LastUpTo(fs, k, t)
  <2>1. \A x \in t + 1 .. r : fs[x].frame > k
    <3>1. ASSUME NEW x \in t + 1 .. r PROVE fs[x].frame > k
      <4>1. x \in t + 1 .. Len(gs) /\ gs[x] = fs[x]
        BY <1>1
      <4> QED BY <4>1 DEF LastUpTo
    <3> QED BY <3>1
  <2>2. \A x \in t + 1 .. Len(fs) : x \in t + 1 .. r \/ x \in r + 1 .. Len(fs)
    BY <1>1
  <2>3. \A x \in 1 .. t : fs[x].frame <= k
    BY <1>2 DEF LastUpTo
  <2> QED BY <2>1, <2>2, <2>3 DEF LastUpTo
<1>4. Executing(gs, t, k) = Executing(fs, t, k)
  BY <1>2, ExecutingSame
<1>5. t \in 0 .. Len(fs)
  BY <1>1
<1> QED BY <1>3, <1>4, <1>5 DEF Placed

(* Flows are changed above the callers, and frames and execute() calls end. *)
Shrinks(frs, grs, ents, gents, fs, gs, r) ==
    /\ r \in Nat /\ Len(fs) \in Nat /\ Len(gs) \in Nat /\ r <= Len(fs) /\ r <= Len(gs)
    /\ Len(frs) \in Nat /\ Len(grs) \in 1 .. Len(frs)
    /\ \A k \in 1 .. Len(frs) : k \in DOMAIN frs
    /\ \A k \in DOMAIN grs : k \in 1 .. Len(grs)
    /\ \A k \in 1 .. Len(grs) : k \in DOMAIN grs
    /\ \A k \in DOMAIN grs : /\ grs[k].method = frs[k].method
                             /\ k < Len(grs) => grs[k].ip = frs[k].ip
    /\ \A e \in DOMAIN gents : e \in DOMAIN ents /\ gents[e] = ents[e]
    /\ \A e \in DOMAIN ents : ents[e].base > Len(grs) \/ e \in DOMAIN gents
    /\ \A e \in DOMAIN gents : gents[e].base \in 1 .. Len(grs)
    /\ \A e \in DOMAIN gents : e > 1 => gents[e].base > 1
    /\ \A x \in 1 .. r : gs[x] = fs[x]
    /\ \A x \in r + 1 .. Len(fs) : fs[x].frame \in Nat /\ fs[x].frame >= Len(grs)
    /\ \A x \in r + 1 .. Len(gs) : gs[x].frame \in Nat /\ gs[x].frame >= Len(grs)

(* Then the callers stay where they are. *)
LEMMA CallersStep ==
    ASSUME NEW prog, NEW frs, NEW grs, NEW ents, NEW gents, NEW fs, NEW gs, NEW r,
           Shrinks(frs, grs, ents, gents, fs, gs, r),
           CallersPlaced(prog, frs, ents, fs)
    PROVE  CallersPlaced(prog, grs, gents, gs)
<1>1. ASSUME NEW k \in Nat, k < Len(grs), NEW m, NEW p, Placed(m, fs, k, p)
      PROVE  Placed(m, gs, k, p)
  <2>1. /\ r \in Nat /\ Len(fs) \in Nat /\ Len(gs) \in Nat /\ r <= Len(fs) /\ r <= Len(gs)
        /\ \A x \in 1 .. r : gs[x] = fs[x]
        /\ \A x \in r + 1 .. Len(fs) : fs[x].frame > k
        /\ \A x \in r + 1 .. Len(gs) : gs[x].frame \in Nat /\ gs[x].frame > k
    BY <1>1 DEF Shrinks
  <2> QED BY <1>1, <2>1, PlacedStep
<1>2. ASSUME NEW e \in DOMAIN gents, e > 1
      PROVE  Placed(prog[grs[gents[e].base - 1].method], gs, gents[e].base - 1, gents[e].ip)
  <2>1. e \in DOMAIN ents /\ gents[e] = ents[e]
    BY DEF Shrinks
  <2>2. gents[e].base - 1 \in Nat /\ gents[e].base - 1 < Len(grs) /\ gents[e].base - 1 \in DOMAIN grs
    BY <1>2 DEF Shrinks
  <2>3. Placed(prog[frs[gents[e].base - 1].method], fs, gents[e].base - 1, gents[e].ip)
    BY <1>2, <2>1 DEF CallersPlaced
  <2>4. grs[gents[e].base - 1].method = frs[gents[e].base - 1].method
    BY <2>2 DEF Shrinks
  <2> QED BY <1>1, <2>2, <2>3, <2>4
<1>3. ASSUME NEW k \in DOMAIN grs, k < Len(grs), \A e \in DOMAIN gents : gents[e].base # k + 1
      PROVE  Placed(prog[grs[k].method], gs, k, grs[k].ip)
  <2>1. k \in Nat /\ k \in DOMAIN frs /\ k < Len(frs)
    BY <1>3 DEF Shrinks
  <2>2. \A e \in DOMAIN ents : ents[e].base # k + 1
    <3>1. ASSUME NEW e \in DOMAIN ents, ents[e].base = k + 1 PROVE FALSE
      <4>1. e \in DOMAIN gents
        BY <1>3, <2>1, <3>1 DEF Shrinks
      <4>2. gents[e] = ents[e]
        BY <4>1 DEF Shrinks
      <4> QED BY <1>3, <3>1, <4>1, <4>2
    <3> QED BY <3>1
  <2>3. Placed(prog[frs[k].method], fs, k, frs[k].ip)
    BY <2>1, <2>2 DEF CallersPlaced
  <2>4. grs[k].method = frs[k].method /\ grs[k].ip = frs[k].ip
    BY <1>3 DEF Shrinks
  <2> QED BY <1>1, <1>3, <2>1, <2>3, <2>4
<1> QED BY <1>2, <1>3 DEF CallersPlaced
------------------------------------------------------------------------------
(* What the invariant says of a state.                                     *)

Top == Len(flows)
Depth == Len(entries)

LEMMA MethodFacts ==
    ASSUME ProgramsSupported, NEW prog \in Programs, NEW n \in DOMAIN prog
    PROVE  /\ WellNested(prog[n].clauses)
           /\ DOMAIN prog[n].clauses \subseteq Nat \ {0}
           /\ Supported(prog[n])
           /\ DOMAIN prog[n].code \subseteq Nat
           /\ 1 \in DOMAIN prog[n].code
           /\ \A c \in DOMAIN prog[n].clauses :
                  /\ 1 \notin prog[n].clauses[c].handler
                  /\ prog[n].clauses[c].entry \in DOMAIN prog[n].code
           /\ \A q \in DOMAIN prog[n].code :
                  /\ WellFormedAt(prog[n], q)
                  /\ prog[n].code[q].op \in {"call", "invoke"} =>
                         prog[n].code[q].method \in DOMAIN prog
                  /\ prog[n].code[q].op = "leave" => SupportedLeave(prog[n], q)
<1>1. WellFormed(prog) /\ Supported(prog[n])
  BY DEF ProgramsSupported
<1>2. /\ WellNested(prog[n].clauses)
      /\ DOMAIN prog[n].code = 1 .. Len(prog[n].code)
      /\ 1 \in DOMAIN prog[n].code
      /\ \A c \in DOMAIN prog[n].clauses :
             /\ 1 \notin prog[n].clauses[c].handler
             /\ prog[n].clauses[c].handler \subseteq DOMAIN prog[n].code
      /\ \A q \in DOMAIN prog[n].code :
             /\ WellFormedAt(prog[n], q)
             /\ prog[n].code[q].op \in {"call", "invoke"} =>
                    prog[n].code[q].method \in DOMAIN prog
  BY <1>1 DEF WellFormed
<1>3. /\ DOMAIN prog[n].clauses \subseteq Nat \ {0}
      /\ \A c \in DOMAIN prog[n].clauses : prog[n].clauses[c].entry \in prog[n].clauses[c].handler
  BY <1>2 DEF WellNested
<1>4. DOMAIN prog[n].code \subseteq Nat
  BY <1>2
<1>5. \A q \in DOMAIN prog[n].code :
          prog[n].code[q].op = "leave" => SupportedLeave(prog[n], q)
  BY <1>1 DEF Supported
<1>6. \A c \in DOMAIN prog[n].clauses : prog[n].clauses[c].entry \in DOMAIN prog[n].code
  BY <1>2, <1>3
<1> QED BY <1>1, <1>2, <1>3, <1>4, <1>5, <1>6

LEMMA StateFacts ==
    ASSUME ProgramsSupported, FlowsIInv, outcome = "running"
    PROVE  /\ program \in Programs
           /\ Cur \in Nat \ {0} /\ DOMAIN frames = 1 .. Cur
           /\ \A k \in 1 .. Cur : frames[k].method \in DOMAIN program
           /\ Method = frames[Cur].method
           /\ ip \in DOMAIN program[Method].code
           /\ Top \in Nat /\ DOMAIN flows = 1 .. Top
           /\ \A s \in 1 .. Top : flows[s] \in FlowSet(program)
           /\ \A s \in 1 .. Top : flows[s].frame \in 1 .. Cur
           /\ \A s \in 1 .. Top : Owner(flows[s]) = frames[flows[s].frame].method
           /\ \A s \in 1 .. Top : FlowOK(program, flows, s)
           /\ Depth \in Nat \ {0} /\ DOMAIN entries = 1 .. Depth
           /\ \A e \in 1 .. Depth : entries[e].base \in 1 .. Cur
<1>1. /\ frames \in Seq(FrameSet(program))
      /\ entries \in Seq([base : Nat, ip : Nat])
      /\ flows \in Seq(FlowSet(program))
      /\ frames # <<>> /\ entries # <<>> /\ ip \in DOMAIN program[Method].code
      /\ program \in Programs
  BY DEF FlowsIInv, FramesTyped
<1>2. Cur \in Nat \ {0} /\ DOMAIN frames = 1 .. Cur
  BY <1>1 DEF Cur
<1>3. \A k \in 1 .. Cur : frames[k].method \in DOMAIN program
  <2>1. \A k \in 1 .. Cur : frames[k] \in FrameSet(program)
    BY <1>1, ElementOfSeq DEF Cur
  <2> QED BY <2>1 DEF FrameSet
<1>4. Top \in Nat /\ DOMAIN flows = 1 .. Top
  BY <1>1 DEF Top
<1>5. \A s \in 1 .. Top : flows[s] \in FlowSet(program)
  BY <1>1, ElementOfSeq DEF Top
<1>6. Depth \in Nat \ {0} /\ DOMAIN entries = 1 .. Depth
  BY <1>1 DEF Depth
<1>7. /\ \A s \in 1 .. Top : flows[s].frame \in 1 .. Cur
      /\ \A s \in 1 .. Top : Owner(flows[s]) = frames[flows[s].frame].method
      /\ \A s \in 1 .. Top : FlowOK(program, flows, s)
  BY <1>2, <1>4 DEF FlowsIInv, FlowsKept
<1>8. \A e \in 1 .. Depth : entries[e].base \in 1 .. Cur
  BY <1>2, <1>6 DEF FlowsIInv, EntriesNested
<1> QED BY <1>1, <1>2, <1>3, <1>4, <1>5, <1>6, <1>7, <1>8 DEF Method

(* The last flow is the one of the handler that the last frame is in. *)
LEMMA InstructionFacts ==
    ASSUME ProgramsSupported, FlowsIInv, Running
    PROVE  /\ InnermostOrNone(Clauses, ip, Executing(flows, Top, Cur))
           /\ \A s \in 1 .. Top : flows[s].clause # NoClause
<1>1. outcome = "running" /\ mode = "run"
  BY DEF Running
<1>2. Placed(program[Method], flows, Cur, ip)
  BY DEF FlowsIInv, CurrentPlaced
<1>3. /\ Top \in Nat /\ DOMAIN flows = 1 .. Top
      /\ \A s \in 1 .. Top : flows[s].frame \in 1 .. Cur
      /\ Cur \in Nat \ {0}
  BY <1>1, StateFacts
<1>4. LastUpTo(flows, Cur, Top)
  BY <1>3 DEF LastUpTo, Top
<1>5. Top \in 0 .. Top
  BY <1>3
<1>6. \A s \in 1 .. Top : flows[s].clause # NoClause
  BY <1>1, <1>3 DEF FlowsIInv, HaveClauses
<1> QED BY <1>2, <1>4, <1>5, <1>6 DEF Placed, Clauses, Top

LEMMA InitKeeps == ASSUME ProgramsSupported PROVE Init => FlowsIInv
<1> SUFFICES ASSUME Init PROVE FlowsIInv
  OBVIOUS
<1>1. /\ program \in Programs /\ Main \in DOMAIN program
      /\ frames = <<[method |-> Main, ip |-> 1]>> /\ ip = 1
      /\ entries = <<[base |-> 1, ip |-> 0]>> /\ flows = <<>>
      /\ mode = "run" /\ outcome = "running"
  BY CodeAssumption DEF Init, CodeAssumption
<1>2. 1 \in DOMAIN program[Main].code /\ WellNested(program[Main].clauses)
      /\ \A c \in DOMAIN program[Main].clauses : 1 \notin program[Main].clauses[c].handler
  BY <1>1, MethodFacts
<1>3. Cur = 1 /\ Method = Main
  BY <1>1 DEF Cur, Method
<1>4. FramesTyped
  <2>1. frames \in Seq(FrameSet(program)) /\ Len(frames) = 1 /\ frames # <<>>
    BY <1>1 DEF FrameSet
  <2>2. entries \in Seq([base : Nat, ip : Nat]) /\ entries # <<>>
    BY <1>1
  <2>3. flows \in Seq(FlowSet(program)) /\ 1 <= MaxFrames
    BY <1>1, FramesAssumption DEF FramesAssumption
  <2>4. \A k \in DOMAIN frames : frames[k].ip \in DOMAIN program[frames[k].method].code
    BY <1>1, <1>2
  <2>5. ip \in DOMAIN program[Method].code
    BY <1>1, <1>2, <1>3
  <2> QED BY <1>1, <2>1, <2>2, <2>3, <2>4, <2>5 DEF FramesTyped
<1>5. EntriesNested(program, frames, entries)
  BY <1>1 DEF EntriesNested
<1>6. FlowsKept(program, frames, flows) /\ HaveClauses
  BY <1>1 DEF FlowsKept, HaveClauses
<1>7. CallersPlaced(program, frames, entries, flows)
  BY <1>1 DEF CallersPlaced
<1>8. CurrentPlaced
  BY <1>1, <1>2, <1>3 DEF CurrentPlaced, Placed, Executing, InnermostOrNone
<1>9. UnwindsTop
  BY <1>1 DEF UnwindsTop
<1> QED BY <1>4, <1>5, <1>6, <1>7, <1>8, <1>9 DEF FlowsIInv
------------------------------------------------------------------------------
(* Raising.                                                                *)

LEMMA NewThrowOK ==
    ASSUME ProgramsSupported, NEW prog \in Programs, NEW n \in DOMAIN prog,
           NEW fs, NEW gs, NEW r \in Nat, NEW k, NEW p \in DOMAIN prog[n].code, NEW ex,
           \A x \in 1 .. r : gs[x] = fs[x],
           gs[r + 1] = ThrowFlow(ex, k, <<n, p>>),
           r # 0 /\ fs[r].frame = k =>
               /\ fs[r] \in FlowSet(prog)
               /\ fs[r].clause # NoClause
               /\ Owner(fs[r]) = n
               /\ FlowOK(prog, fs, r),
           InnermostOrNone(prog[n].clauses, p, Executing(fs, r, k))
    PROVE  FlowOK(prog, gs, r + 1)
<1> DEFINE m == prog[n]
           cs == m.clauses
           f == gs[r + 1]
<1>1. /\ f.throw = TRUE /\ f.frame = k /\ f.at[1] = n /\ f.at[2] = p /\ f.next = 1
      /\ f.clause = NoClause /\ f.handled = FALSE
  BY DEF ThrowFlow
<1>2. /\ WellNested(cs) /\ Supported(m)
      /\ DOMAIN cs \subseteq Nat \ {0}
      /\ \A q \in DOMAIN m.code : m.code[q].op = "leave" => SupportedLeave(m, q)
  BY MethodFacts
<1>3. Owner(f) = n
  BY <1>1 DEF Owner
<1>4. (r + 1) - 1 = r
  OBVIOUS
<1>5. ASSUME NEW c \in DOMAIN cs, cs[c].kind = "catch", p \in cs[c].try
      PROVE  Reaches(cs, gs, r, k, c)
  <2>1. \A h \in DOMAIN cs : p \in cs[h].handler =>
            \/ c < h /\ cs[c].entry \in cs[h].handler
            \/ h < c /\ cs[h].handler \subseteq cs[c].try
    <3>1. cs[c].entry \in cs[c].handler
      BY <1>2 DEF WellNested
    <3> QED BY <1>2, <1>5, <3>1, TryMeetsHandler DEF Unit
  <2>2. \A h \in DOMAIN cs : h # c /\ cs[c].entry \in cs[h].handler => p \in cs[h].handler
    BY <1>2, <1>5, AroundEntry DEF Unit
  <2>3. IsCatch(m, c)
    BY <1>5 DEF IsCatch
  <2>4. Reaches(cs, fs, r, k, c)
    BY <1>2, <2>1, <2>2, <2>3, CatchReaches
  <2> QED BY <2>4, ReachesSame
<1>6. ASSUME NEW c \in DOMAIN cs, cs[c].kind = "filter", p \in cs[c].try
      PROVE  Executing(gs, r, k) = 0
  <2>1. \A h \in DOMAIN cs : p \notin cs[h].handler
    BY <1>2, <1>6 DEF Supported
  <2>2. Executing(fs, r, k) = 0
    BY <2>1 DEF InnermostOrNone, IsInnermost
  <2> QED BY <2>2, ExecutingSame
<1>7. ThrowOK(m, gs, r + 1)
  BY <1>1, <1>4, <1>5, <1>6 DEF ThrowOK
<1> QED BY <1>1, <1>3, <1>7 DEF FlowOK
------------------------------------------------------------------------------
(***************************************************************************)
(* Steps that leave frame k, the last one or the one below, as the last,   *)
(* keep flows up to r, and push at most one.                               *)
(***************************************************************************)
FramesUpTo(k) ==
    /\ frames' \in Seq(FrameSet(program))
    /\ Cur' = k
    /\ \A j \in 1 .. k : frames'[j].method = frames[j].method
    /\ \A j \in 1 .. k : j < k => frames'[j].ip = frames[j].ip
    /\ frames'[k].ip \in DOMAIN program[frames[k].method].code
    /\ ip' \in DOMAIN program[frames[k].method].code

EntriesUpTo(k) ==
    /\ entries' \in Seq([base : Nat, ip : Nat])
    /\ Depth' \in 1 .. Depth
    /\ \A e \in 1 .. Depth' : entries'[e] = entries[e] /\ entries[e].base <= k
    /\ \A e \in 1 .. Depth : e > Depth' => entries[e].base > k

FlowsUpTo(k, r) ==
    /\ flows' \in Seq(FlowSet(program))
    /\ Top' \in {r, r + 1}
    /\ \A x \in 1 .. r : flows'[x] = flows[x]
    /\ \A x \in 1 .. r : flows[x].frame <= k
    /\ \A x \in 1 .. r : flows[x].clause # NoClause
    /\ \A x \in r + 1 .. Top : flows[x].frame >= k

Pushed(k, r) ==
    Top' = r + 1 => /\ flows'[r + 1].frame = k
                    /\ Owner(flows'[r + 1]) = frames[k].method
                    /\ FlowOK(program, flows', r + 1)

StepUpTo(k, r) ==
    /\ program' = program /\ outcome' = "running" /\ mode' \in {"run", "unwind"}
    /\ FramesUpTo(k)
    /\ EntriesUpTo(k)
    /\ FlowsUpTo(k, r)
    /\ Pushed(k, r)

LEMMA FramesStep ==
    ASSUME ProgramsSupported, FlowsIInv, outcome = "running",
           NEW k \in 1 .. Cur, NEW r \in 0 .. Top, StepUpTo(k, r)
    PROVE  /\ FramesTyped'
           /\ DOMAIN frames' = 1 .. k
           /\ Method' = frames[k].method
<1>1. /\ FramesUpTo(k) /\ program' = program /\ outcome' = "running"
      /\ mode' \in {"run", "unwind"}
      /\ entries' \in Seq([base : Nat, ip : Nat]) /\ entries' # <<>>
      /\ flows' \in Seq(FlowSet(program))
  BY DEF StepUpTo, EntriesUpTo, FlowsUpTo, Depth
<1>2. /\ program \in Programs
      /\ Cur \in Nat \ {0} /\ DOMAIN frames = 1 .. Cur
      /\ frames[k].method \in DOMAIN program
  BY StateFacts
<1>3. DOMAIN frames' = 1 .. k /\ frames' # <<>> /\ Len(frames') = k
  BY <1>1, <1>2 DEF FramesUpTo, Cur
<1>4. FramesTyped
  BY DEF FlowsIInv
<1>5. Method' = frames[k].method
  BY <1>1, <1>2 DEF FramesUpTo, Method
<1>6. Len(frames') <= MaxFrames
  <2>1. Cur <= MaxFrames
    BY <1>4 DEF FramesTyped, Cur
  <2> QED BY <1>2, <1>3, <2>1, FramesAssumption DEF FramesAssumption
<1>7. ASSUME NEW j \in 1 .. k PROVE frames'[j].ip \in DOMAIN program[frames'[j].method].code
  <2>1. frames[j].ip \in DOMAIN program[frames[j].method].code
    <3>1. j \in DOMAIN frames
      BY <1>2
    <3> QED BY <1>4, <3>1 DEF FramesTyped
  <2>2. CASE j < k
    BY <1>1, <2>1, <2>2 DEF FramesUpTo
  <2>3. CASE j = k
    BY <1>1, <2>3 DEF FramesUpTo
  <2> QED BY <1>2, <2>2, <2>3
<1>8. ip' \in Nat /\ ip' \in DOMAIN program[Method'].code
  BY <1>1, <1>2, <1>5, MethodFacts DEF FramesUpTo
<1>9. frames' \in Seq(FrameSet(program))
  BY <1>1 DEF FramesUpTo
<1>10. FramesTyped'
  BY <1>1, <1>2, <1>3, <1>6, <1>7, <1>8, <1>9 DEF FramesTyped
<1> QED BY <1>3, <1>5, <1>10

LEMMA EntriesStep ==
    ASSUME ProgramsSupported, FlowsIInv, outcome = "running",
           NEW k \in 1 .. Cur, NEW r \in 0 .. Top, StepUpTo(k, r)
    PROVE  /\ EntriesNested(program', frames', entries')
           /\ Depth' \in Nat \ {0} /\ DOMAIN entries' = 1 .. Depth'
           /\ \A e \in DOMAIN entries' : entries'[e].base \in 1 .. k
           /\ \A e \in DOMAIN entries' : e > 1 => entries'[e].base > 1
<1>1. EntriesUpTo(k) /\ program' = program
  BY DEF StepUpTo
<1>2. /\ Depth \in Nat \ {0} /\ DOMAIN entries = 1 .. Depth
      /\ Cur \in Nat \ {0}
      /\ \A e \in 1 .. Depth : entries[e].base \in 1 .. Cur
  BY StateFacts
<1>3. EntriesNested(program, frames, entries)
  BY DEF FlowsIInv
<1>4. DOMAIN frames' = 1 .. k /\ \A j \in 1 .. k : frames'[j].method = frames[j].method
  BY FramesStep DEF StepUpTo, FramesUpTo
<1>5. Depth' \in Nat \ {0} /\ DOMAIN entries' = 1 .. Depth' /\ Depth' <= Depth
  BY <1>1, <1>2 DEF EntriesUpTo, Depth
<1>6. \A e \in 1 .. Depth' : e \in DOMAIN entries /\ entries'[e] = entries[e]
  BY <1>1, <1>2, <1>5 DEF EntriesUpTo
<1>7. \A e \in 1 .. Depth' : entries'[e].base \in 1 .. k
  BY <1>1, <1>2, <1>5, <1>6 DEF EntriesUpTo
<1>8. ASSUME NEW e \in 1 .. Depth', e > 1 PROVE entries'[e].base > 1
  <2>1. 1 \in DOMAIN entries /\ e \in DOMAIN entries /\ 1 < e
    BY <1>2, <1>6, <1>8
  <2>2. entries[1].base < entries[e].base
    BY <1>3, <2>1 DEF EntriesNested
  <2>3. entries[1].base \in 1 .. Cur /\ entries[e].base \in 1 .. Cur
    BY <1>2, <2>1
  <2> QED BY <1>6, <2>2, <2>3
<1>9. entries'[1].base = 1
  <2>1. entries # <<>>
    BY <1>2 DEF Depth
  <2>2. 1 \in 1 .. Depth'
    BY <1>5
  <2> QED BY <1>3, <1>6, <2>1, <2>2 DEF EntriesNested
<1>10. ASSUME NEW d \in 1 .. Depth', NEW e \in 1 .. Depth', d < e
       PROVE  entries'[d].base < entries'[e].base
  BY <1>3, <1>6, <1>10 DEF EntriesNested
<1>11. ASSUME NEW e \in 1 .. Depth', e > 1
       PROVE  LET m == program[frames'[entries'[e].base - 1].method]
              IN  entries'[e].ip \in DOMAIN m.code /\ m.code[entries'[e].ip].op = "invoke"
  <2>1. entries'[e].base - 1 \in 1 .. k
    BY <1>7, <1>8, <1>11
  <2>2. frames'[entries'[e].base - 1].method = frames[entries[e].base - 1].method
    BY <1>4, <1>6, <2>1
  <2> QED BY <1>3, <1>6, <1>11, <2>2 DEF EntriesNested
<1>12. EntriesNested(program', frames', entries')
  BY <1>1, <1>4, <1>5, <1>7, <1>9, <1>10, <1>11 DEF EntriesNested
<1> QED BY <1>5, <1>7, <1>8, <1>12

LEMMA FlowsStep ==
    ASSUME ProgramsSupported, FlowsIInv, outcome = "running",
           NEW k \in 1 .. Cur, NEW r \in 0 .. Top, StepUpTo(k, r)
    PROVE  /\ FlowsKept(program', frames', flows')
           /\ Top' \in Nat /\ DOMAIN flows' = 1 .. Top'
<1>1. FlowsUpTo(k, r) /\ Pushed(k, r) /\ program' = program
  BY DEF StepUpTo
<1>2. /\ Top \in Nat /\ DOMAIN flows = 1 .. Top /\ Cur \in Nat
      /\ DOMAIN frames = 1 .. Cur
      /\ \A s \in 1 .. Top : flows[s].frame \in 1 .. Cur
  BY StateFacts
<1>3. DOMAIN frames' = 1 .. k /\ \A j \in 1 .. k : frames'[j].method = frames[j].method
  BY FramesStep DEF StepUpTo, FramesUpTo
<1>4. Top' \in {r, r + 1} /\ Top' \in Nat /\ DOMAIN flows' = 1 .. Top'
  BY <1>1, <1>2 DEF FlowsUpTo, Top
<1>5. r \in Nat /\ 1 .. r \subseteq DOMAIN flows
  BY <1>2
<1>6. \A x \in 1 .. r : flows'[x] = flows[x]
  BY <1>1 DEF FlowsUpTo
<1>7. \A x \in 1 .. r : flows[x].frame \in 1 .. k
  BY <1>1, <1>2 DEF FlowsUpTo
<1>8. \A j \in DOMAIN frames' : j \in DOMAIN frames => frames'[j].method = frames[j].method
  BY <1>3
<1>9. Top' = r + 1 => /\ flows'[r + 1].frame \in DOMAIN frames'
                      /\ \A x \in 1 .. r : flows[x].frame <= flows'[r + 1].frame
                      /\ Owner(flows'[r + 1]) = frames'[flows'[r + 1].frame].method
                      /\ FlowOK(program, flows', r + 1)
  <2>1. SUFFICES ASSUME Top' = r + 1
                 PROVE  /\ flows'[r + 1].frame \in DOMAIN frames'
                        /\ \A x \in 1 .. r : flows[x].frame <= flows'[r + 1].frame
                        /\ Owner(flows'[r + 1]) = frames'[flows'[r + 1].frame].method
                        /\ FlowOK(program, flows', r + 1)
    OBVIOUS
  <2>2. /\ flows'[r + 1].frame = k
        /\ Owner(flows'[r + 1]) = frames[k].method
        /\ FlowOK(program, flows', r + 1)
    BY <1>1, <2>1 DEF Pushed
  <2> QED BY <1>2, <1>3, <1>7, <2>2
<1>10. FlowsKept(program, frames, flows)
  BY DEF FlowsIInv
<1>11. FlowsKept(program, frames', flows')
  BY <1>3, <1>4, <1>5, <1>6, <1>7, <1>8, <1>9, <1>10, KeptStep
<1> QED BY <1>1, <1>4, <1>11

LEMMA PlacesStep ==
    ASSUME ProgramsSupported, FlowsIInv, outcome = "running",
           NEW k \in 1 .. Cur, NEW r \in 0 .. Top, StepUpTo(k, r)
    PROVE  CallersPlaced(program', frames', entries', flows')
<1>1. FlowsUpTo(k, r) /\ Pushed(k, r) /\ EntriesUpTo(k) /\ FramesUpTo(k) /\ program' = program
  BY DEF StepUpTo
<1>2. /\ Top \in Nat /\ Cur \in Nat /\ DOMAIN frames = 1 .. Cur
      /\ \A s \in 1 .. Top : flows[s].frame \in 1 .. Cur
      /\ Depth \in Nat /\ DOMAIN entries = 1 .. Depth
  BY StateFacts
<1>3. DOMAIN frames' = 1 .. k
  BY FramesStep
<1>4. /\ Depth' \in Nat /\ DOMAIN entries' = 1 .. Depth'
      /\ \A e \in DOMAIN entries' : entries'[e].base \in 1 .. k
      /\ \A e \in DOMAIN entries' : e > 1 => entries'[e].base > 1
  BY EntriesStep
<1>5. Top' \in Nat /\ Top' \in {r, r + 1}
  BY <1>1, FlowsStep DEF FlowsUpTo
<1>6. \A x \in r + 1 .. Top' : flows'[x].frame \in Nat /\ flows'[x].frame >= k
  BY <1>1, <1>2, <1>5 DEF Pushed
<1>7. \A x \in r + 1 .. Top : flows[x].frame \in Nat /\ flows[x].frame >= k
  BY <1>1, <1>2 DEF FlowsUpTo
<1>8. \A e \in DOMAIN entries' : e \in DOMAIN entries /\ entries'[e] = entries[e]
  BY <1>1, <1>2, <1>4 DEF EntriesUpTo
<1>9. \A e \in DOMAIN entries : entries[e].base > k \/ e \in DOMAIN entries'
  BY <1>1, <1>2, <1>4 DEF EntriesUpTo
<1>10. \A j \in DOMAIN frames' : /\ frames'[j].method = frames[j].method
                                 /\ j < k => frames'[j].ip = frames[j].ip
  BY <1>1, <1>3 DEF FramesUpTo
<1>11. Len(frames) = Cur /\ Len(frames') = k /\ Len(flows) = Top /\ Len(flows') = Top'
  BY <1>1 DEF FramesUpTo, Cur, Top
<1>12. \A x \in 1 .. r : flows'[x] = flows[x]
  BY <1>1 DEF FlowsUpTo
<1>13. CallersPlaced(program, frames, entries, flows)
  BY DEF FlowsIInv
<1>14. r \in Nat /\ r <= Top /\ r <= Top' /\ k \in Nat /\ k <= Cur
  BY <1>2, <1>5
<1>15. Shrinks(frames, frames', entries, entries', flows, flows', r)
  BY <1>2, <1>3, <1>4, <1>5, <1>6, <1>7, <1>8, <1>9, <1>10, <1>11, <1>12, <1>14 DEF Shrinks
<1>16. CallersPlaced(program, frames', entries', flows')
  BY <1>13, <1>15, CallersStep
<1> QED BY <1>1, <1>16

(* The step leads to an instruction, ... *)
LEMMA RunsOn ==
    ASSUME ProgramsSupported, FlowsIInv, outcome = "running",
           NEW k \in 1 .. Cur, NEW r \in 0 .. Top, StepUpTo(k, r), mode' = "run",
           Top' = r + 1 => flows'[r + 1].clause # NoClause,
           InnermostOrNone(program[frames[k].method].clauses, ip', Executing(flows', Top', k))
    PROVE  FlowsIInv'
<1>1. /\ FramesTyped' /\ EntriesNested(program', frames', entries')
      /\ FlowsKept(program', frames', flows') /\ CallersPlaced(program', frames', entries', flows')
      /\ Top' \in Nat /\ DOMAIN flows' = 1 .. Top' /\ DOMAIN frames' = 1 .. k
      /\ Method' = frames[k].method
  BY FramesStep, EntriesStep, FlowsStep, PlacesStep
<1>2. FlowsUpTo(k, r) /\ program' = program /\ Cur' = k
  BY DEF StepUpTo, FramesUpTo
<1>3. Top \in Nat /\ Cur \in Nat /\ r \in Nat /\ k \in Nat
  <2>1. Top \in Nat /\ Cur \in Nat
    BY StateFacts
  <2> QED BY <2>1
<1>4. HaveClauses'
  <2>1. \A s \in 1 .. Top' : flows'[s].clause # NoClause
    <3>1. ASSUME NEW s \in 1 .. Top' PROVE flows'[s].clause # NoClause
      <4>1. CASE s \in 1 .. r
        BY <1>2, <4>1 DEF FlowsUpTo
      <4>2. CASE s = r + 1 /\ Top' = r + 1
        BY <4>2
      <4>3. Top' = r \/ Top' = r + 1
        BY <1>2 DEF FlowsUpTo
      <4> QED BY <1>3, <4>1, <4>2, <4>3
    <3> QED BY <3>1
  <2> QED BY <1>1, <2>1 DEF HaveClauses
<1>5. CurrentPlaced'
  <2>1. ASSUME NEW t \in 0 .. Len(flows'), LastUpTo(flows', k, t) PROVE t = Len(flows')
    <3>1. \A s \in 1 .. Len(flows') : flows'[s].frame \in 1 .. k
      BY <1>1 DEF FlowsKept, Top
    <3>2. Len(flows') \in Nat
      BY <1>1 DEF Top
    <3>3. SUFFICES ASSUME t < Len(flows') PROVE FALSE
      BY <3>2
    <3>4. Len(flows') \in t + 1 .. Len(flows')
      BY <3>2, <3>3
    <3>5. flows'[Len(flows')].frame > k
      BY <2>1, <3>4 DEF LastUpTo
    <3>6. flows'[Len(flows')].frame \in 1 .. k
      BY <3>1, <3>2, <3>4
    <3> QED BY <1>3, <3>5, <3>6
  <2>2. Placed(program[frames[k].method], flows', k, ip')
    BY <2>1 DEF Placed, Top
  <2> QED BY <1>1, <1>2, <2>2 DEF CurrentPlaced
<1>6. UnwindsTop'
  BY DEF UnwindsTop
<1> QED BY <1>1, <1>4, <1>5, <1>6 DEF FlowsIInv

(* ... or unwinding goes on. *)
LEMMA UnwindsOn ==
    ASSUME ProgramsSupported, FlowsIInv, outcome = "running",
           NEW k \in 1 .. Cur, NEW r \in 0 .. Top, StepUpTo(k, r), mode' = "unwind",
           Top' # 0, flows'[Top'].frame = k,
           flows'[Top'].throw => ~flows'[Top'].handled
    PROVE  FlowsIInv'
<1>1. /\ FramesTyped' /\ EntriesNested(program', frames', entries')
      /\ FlowsKept(program', frames', flows') /\ CallersPlaced(program', frames', entries', flows')
      /\ Top' \in Nat /\ DOMAIN flows' = 1 .. Top'
  BY FramesStep, EntriesStep, FlowsStep, PlacesStep
<1>2. FlowsUpTo(k, r) /\ Cur' = k
  BY DEF StepUpTo, FramesUpTo
<1>3. Top \in Nat /\ r \in Nat
  <2>1. Top \in Nat
    BY StateFacts
  <2> QED BY <2>1
<1>4. HaveClauses'
  <2>1. \A s \in 1 .. Top' : s < Top' => flows'[s].clause # NoClause
    <3>1. ASSUME NEW s \in 1 .. Top', s < Top' PROVE flows'[s].clause # NoClause
      <4>1. Top' = r \/ Top' = r + 1
        BY <1>2 DEF FlowsUpTo
      <4>2. s \in 1 .. r
        BY <1>3, <3>1, <4>1
      <4> QED BY <1>2, <4>2 DEF FlowsUpTo
    <3> QED BY <3>1
  <2> QED BY <1>1, <2>1 DEF HaveClauses, Top
<1>5. CurrentPlaced'
  BY DEF CurrentPlaced, Running
<1>6. UnwindsTop'
  <2>1. TopFlow' = flows'[Top'] /\ flows' # <<>>
    BY <1>1 DEF TopFlow, Last, Top
  <2> QED BY <1>2, <2>1 DEF UnwindsTop
<1> QED BY <1>1, <1>4, <1>5, <1>6 DEF FlowsIInv

(* A throw goes on in frame k, at the new ip. *)
LEMMA ThrownOn ==
    ASSUME ProgramsSupported, FlowsIInv, outcome = "running",
           NEW k \in 1 .. Cur, NEW r \in 0 .. Top, NEW ex,
           program' = program, outcome' = "running", mode' = "unwind",
           FramesUpTo(k), EntriesUpTo(k), FlowsUpTo(k, r),
           Top' = r + 1, flows'[r + 1] = ThrowFlow(ex, k, <<frames[k].method, ip'>>),
           InnermostOrNone(program[frames[k].method].clauses, ip', Executing(flows, r, k))
    PROVE  FlowsIInv'
<1>1. /\ program \in Programs /\ frames[k].method \in DOMAIN program
      /\ Top \in Nat
      /\ \A s \in 1 .. Top : flows[s] \in FlowSet(program) /\ FlowOK(program, flows, s)
      /\ \A s \in 1 .. Top : Owner(flows[s]) = frames[flows[s].frame].method
  BY StateFacts
<1>2. ip' \in DOMAIN program[frames[k].method].code
  BY DEF FramesUpTo
<1>3. /\ \A x \in 1 .. r : flows'[x] = flows[x]
      /\ \A x \in 1 .. r : flows[x].clause # NoClause
  BY DEF FlowsUpTo
<1>4. r \in Nat /\ \A x \in 1 .. r : x \in 1 .. Top
  BY <1>1
<1>5. r # 0 /\ flows[r].frame = k =>
          /\ flows[r] \in FlowSet(program)
          /\ flows[r].clause # NoClause
          /\ Owner(flows[r]) = frames[k].method
          /\ FlowOK(program, flows, r)
  BY <1>1, <1>3, <1>4
<1>6. FlowOK(program, flows', r + 1)
  BY <1>1, <1>2, <1>3, <1>4, <1>5, NewThrowOK
<1>7. Pushed(k, r)
  BY <1>6 DEF Pushed, ThrowFlow, Owner
<1>8. StepUpTo(k, r)
  BY <1>7 DEF StepUpTo
<1> QED BY <1>4, <1>8, UnwindsOn DEF ThrowFlow
------------------------------------------------------------------------------
(* The steps of instructions.                                              *)

(* Frames and entries stay as they are, ... *)
LEMMA FramesStay ==
    ASSUME ProgramsSupported, FlowsIInv, outcome = "running",
           ip' \in DOMAIN program[Method].code, UNCHANGED <<program, frames, entries>>
    PROVE  FramesUpTo(Cur) /\ EntriesUpTo(Cur) /\ Cur \in 1 .. Cur
<1>1. /\ Cur \in Nat \ {0} /\ DOMAIN frames = 1 .. Cur /\ Method = frames[Cur].method
      /\ Depth \in Nat \ {0}
      /\ \A e \in 1 .. Depth : entries[e].base \in 1 .. Cur
  BY StateFacts
<1>2. FramesTyped
  BY DEF FlowsIInv
<1>3. FramesUpTo(Cur)
  <2>1. Cur \in DOMAIN frames /\ Cur' = Cur
    BY <1>1 DEF Cur
  <2>2. /\ frames \in Seq(FrameSet(program))
        /\ frames[Cur].ip \in DOMAIN program[frames[Cur].method].code
    BY <1>2, <2>1 DEF FramesTyped
  <2> HIDE <1>1
  <2> QED BY <1>1, <2>1, <2>2 DEF FramesUpTo
<1>4. EntriesUpTo(Cur)
  BY <1>1, <1>2 DEF EntriesUpTo, FramesTyped, Depth
<1> QED BY <1>1, <1>3, <1>4

(* ... and flows do. *)
LEMMA StaysUpTo ==
    ASSUME ProgramsSupported, FlowsIInv, Running, ip' \in DOMAIN program[Method].code,
           UNCHANGED <<program, frames, entries, flows, outcome>>, mode' \in {"run", "unwind"}
    PROVE  /\ StepUpTo(Cur, Top)
           /\ Cur \in 1 .. Cur /\ Top \in 0 .. Top /\ Top' = Top
           /\ Executing(flows', Top', Cur) = Executing(flows, Top, Cur)
<1>1. outcome = "running"
  BY DEF Running
<1>2. Top \in Nat /\ \A s \in 1 .. Top : flows[s].frame \in 1 .. Cur
  BY <1>1, StateFacts
<1>3. FramesUpTo(Cur) /\ EntriesUpTo(Cur) /\ Cur \in 1 .. Cur
  BY <1>1, FramesStay
<1>4. FlowsUpTo(Cur, Top)
  <2>1. \A x \in 1 .. Top : flows[x].clause # NoClause
    BY InstructionFacts
  <2>2. flows \in Seq(FlowSet(program))
    BY DEF FlowsIInv, FramesTyped
  <2> QED BY <1>2, <1>3, <2>1, <2>2 DEF FlowsUpTo, Top
<1>5. Pushed(Cur, Top)
  <2>1. Top' = Top
    BY DEF Top
  <2> QED BY <1>2, <2>1 DEF Pushed
<1> QED BY <1>1, <1>2, <1>3, <1>4, <1>5 DEF StepUpTo, Top

(* Control goes to an instruction that is in the same handlers. *)
LEMMA GotoKeeps ==
    ASSUME ProgramsSupported, FlowsIInv, Running, ip' \in DOMAIN program[Method].code,
           UNCHANGED <<program, frames, entries, flows, outcome>>, mode' = "run",
           \A h \in DOMAIN Clauses : ip' \in Clauses[h].handler <=> ip \in Clauses[h].handler
    PROVE  FlowsIInv'
<1>1. outcome = "running" /\ Method = frames[Cur].method
  BY DEF Running, Method
<1>2. /\ StepUpTo(Cur, Top)
      /\ Cur \in 1 .. Cur /\ Top \in 0 .. Top /\ Top' = Top
      /\ Executing(flows', Top', Cur) = Executing(flows, Top, Cur)
  BY StaysUpTo
<1>3. InnermostOrNone(Clauses, ip', Executing(flows, Top, Cur))
  BY InstructionFacts DEF InnermostOrNone, IsInnermost
<1>4. Top' # Top + 1
  BY <1>1, <1>2, StateFacts
<1> QED BY <1>1, <1>2, <1>3, <1>4, RunsOn DEF Clauses

LEMMA ProceedKeeps ==
    ASSUME ProgramsSupported, FlowsIInv, Proceed PROVE FlowsIInv'
<1>1. outcome = "running" /\ Running /\ Instr.op \in {"next", "may"}
  BY DEF Proceed, Running
<1>2. program \in Programs /\ Method \in DOMAIN program /\ ip \in DOMAIN program[Method].code
  BY <1>1, StateFacts
<1>3. WellFormedAt(program[Method], ip)
  BY <1>2, MethodFacts
<1>4. /\ ip + 1 \in DOMAIN program[Method].code
      /\ \A h \in DOMAIN Clauses : ip + 1 \in Clauses[h].handler <=> ip \in Clauses[h].handler
  BY <1>1, <1>3 DEF WellFormedAt, Instr, Clauses
<1>5. ip' = ip + 1 /\ mode' = "run" /\ UNCHANGED <<program, frames, entries, flows, outcome>>
  BY DEF Proceed, Goto
<1> QED BY <1>1, <1>4, <1>5, GotoKeeps

LEMMA ThrowFlowType ==
    ASSUME NEW prog, NEW n \in DOMAIN prog, NEW p \in Nat, NEW k \in Nat, NEW ex \in Exceptions
    PROVE  ThrowFlow(ex, k, <<n, p>>) \in FlowSet(prog)
BY DEF ThrowFlow, FlowSet, ThrowFlows

(* The ip of frame k is saved, where f is the frame with it. *)
LEMMA IpSaved ==
    ASSUME NEW prog, NEW frs \in Seq(FrameSet(prog)), NEW k \in 1 .. Len(frs),
           NEW f \in FrameSet(prog), f.method = frs[k].method,
           NEW new, new = [frs EXCEPT ![k] = f]
    PROVE  /\ new \in Seq(FrameSet(prog))
           /\ Len(new) = Len(frs)
           /\ \A j \in 1 .. Len(frs) : new[j].method = frs[j].method
           /\ \A j \in 1 .. Len(frs) : j # k => new[j] = frs[j]
           /\ new[k] = f
<1>1. /\ new \in Seq(FrameSet(prog))
      /\ Len(new) = Len(frs)
      /\ \A j \in 1 .. Len(frs) : new[j] = IF j = k THEN f ELSE frs[j]
  BY ExceptSeq
<1> QED BY <1>1

LEMMA RaiseKeeps ==
    ASSUME ProgramsSupported, FlowsIInv, Running, NEW ex \in Exceptions, Raise(ex)
    PROVE  FlowsIInv'
<1>1. outcome = "running"
  BY DEF Running
<1>2. /\ program \in Programs
      /\ Cur \in Nat \ {0} /\ DOMAIN frames = 1 .. Cur /\ Method = frames[Cur].method
      /\ frames[Cur].method \in DOMAIN program
      /\ ip \in DOMAIN program[Method].code
      /\ Top \in Nat /\ Depth \in Nat \ {0}
      /\ \A s \in 1 .. Top : flows[s].frame \in 1 .. Cur
      /\ \A e \in 1 .. Depth : entries[e].base \in 1 .. Cur
  BY <1>1, StateFacts
<1>3. /\ mode' = "unwind" /\ ip' = ip
      /\ UNCHANGED <<program, entries, outcome>>
      /\ \/ InFilterCheck(flows, Cur) /\ flows' = flows /\ frames' = frames
         \/ /\ flows' = Append(flows, ThrowFlow(ex, Cur, <<Method, ip>>))
            /\ frames' = [frames EXCEPT ![Cur].ip = ip]
  BY DEF Raise, RaiseAt, Cur, Method
<1>4. CASE InFilterCheck(flows, Cur) /\ flows' = flows /\ frames' = frames
  <2>1. /\ StepUpTo(Cur, Top)
        /\ Cur \in 1 .. Cur /\ Top \in 0 .. Top /\ Top' = Top
    BY <1>2, <1>3, <1>4, StaysUpTo
  <2>2. Top # 0 /\ flows[Top].frame = Cur /\ ~flows[Top].handled
    <3>1. flows # <<>> /\ Last(flows).frame = Cur /\ ~Last(flows).handled
      BY <1>4 DEF InFilterCheck
    <3>2. Top # 0
      BY <3>1 DEF FlowsIInv, FramesTyped, Top
    <3> QED BY <3>1, <3>2 DEF Last, Top
  <2> QED BY <1>1, <1>3, <1>4, <2>1, <2>2, UnwindsOn
<1>5. CASE /\ flows' = Append(flows, ThrowFlow(ex, Cur, <<Method, ip>>))
           /\ frames' = [frames EXCEPT ![Cur].ip = ip]
  <2>1. /\ frames \in Seq(FrameSet(program))
        /\ entries \in Seq([base : Nat, ip : Nat])
        /\ flows \in Seq(FlowSet(program)) /\ ip \in Nat
    BY DEF FlowsIInv, FramesTyped
  <2>2. FramesUpTo(Cur)
    <3>1. Cur \in 1 .. Len(frames) /\ Len(frames) = Cur
      BY <1>2 DEF Cur
    <3>2. /\ frames' \in Seq(FrameSet(program))
          /\ Len(frames') = Cur
          /\ \A j \in 1 .. Cur : frames'[j].method = frames[j].method
          /\ \A j \in 1 .. Cur : j # Cur => frames'[j] = frames[j]
          /\ frames'[Cur].ip = ip
      <4> DEFINE new == frames'
                 f == [frames[Cur] EXCEPT !.ip = ip]
      <4>1. new = [frames EXCEPT ![Cur] = f]
        BY <1>5
      <4>2. f \in FrameSet(program) /\ f.method = frames[Cur].method /\ f.ip = ip
        <5>1. frames[Cur] \in FrameSet(program)
          BY <2>1, <3>1, ElementOfSeq
        <5> QED BY <2>1, <5>1 DEF FrameSet
      <4> HIDE DEF new, f
      <4>3. /\ new \in Seq(FrameSet(program))
            /\ Len(new) = Len(frames)
            /\ \A j \in 1 .. Len(frames) : new[j].method = frames[j].method
            /\ \A j \in 1 .. Len(frames) : j # Cur => new[j] = frames[j]
            /\ new[Cur] = f
        BY <2>1, <3>1, <4>1, <4>2, IpSaved
      <4> QED BY <3>1, <4>2, <4>3 DEF new
    <3> QED BY <1>2, <1>3, <3>2 DEF FramesUpTo, Cur
  <2>3. EntriesUpTo(Cur)
    BY <1>2, <1>3, <2>1 DEF EntriesUpTo, Depth
  <2>4. ThrowFlow(ex, Cur, <<Method, ip>>) \in FlowSet(program)
    BY <1>2, <2>1, ThrowFlowType
  <2>5. /\ flows' \in Seq(FlowSet(program)) /\ Top' = Top + 1
        /\ \A x \in 1 .. Top : flows'[x] = flows[x]
        /\ flows'[Top + 1] = ThrowFlow(ex, Cur, <<Method, ip>>)
    BY <1>5, <2>1, <2>4, AppendProperties DEF Top
  <2>6. FlowsUpTo(Cur, Top)
    <3>1. \A x \in 1 .. Top : flows[x].clause # NoClause
      BY InstructionFacts
    <3> QED BY <1>2, <2>5, <3>1 DEF FlowsUpTo
  <2>7. InnermostOrNone(program[frames[Cur].method].clauses, ip', Executing(flows, Top, Cur))
    BY <1>2, <1>3, InstructionFacts DEF Clauses
  <2>8. Cur \in 1 .. Cur /\ Top \in 0 .. Top
    BY <1>2
  <2> QED BY <1>1, <1>2, <1>3, <2>2, <2>3, <2>5, <2>6, <2>7, <2>8, ThrownOn
<1> QED BY <1>3, <1>4, <1>5

LEMMA RaiseFromInstructionKeeps ==
    ASSUME ProgramsSupported, FlowsIInv, RaiseFromInstruction PROVE FlowsIInv'
BY RaiseKeeps DEF RaiseFromInstruction

LEMMA CallOverflowsKeeps ==
    ASSUME ProgramsSupported, FlowsIInv, CallOverflows PROVE FlowsIInv'
BY RaiseKeeps, CodeAssumption DEF CallOverflows, CodeAssumption

LEMMA RethrowKeeps ==
    ASSUME ProgramsSupported, FlowsIInv, Rethrow PROVE FlowsIInv'
<1>1. Running /\ outcome = "running"
  BY DEF Rethrow, Running
<1>2. EnclosingThrows # {} => flows[Max(EnclosingThrows)].ex \in Exceptions
  <2>1. SUFFICES ASSUME EnclosingThrows # {}
                 PROVE  flows[Max(EnclosingThrows)].ex \in Exceptions
    OBVIOUS
  <2>2. /\ Top \in Nat /\ DOMAIN flows = 1 .. Top
        /\ \A s \in 1 .. Top : flows[s] \in FlowSet(program)
    BY <1>1, StateFacts
  <2>3. EnclosingThrows \in SUBSET (0 .. Top)
    BY <2>2 DEF EnclosingThrows
  <2>4. PICK i \in EnclosingThrows : i = Max(EnclosingThrows)
    BY <2>1, <2>2, <2>3, MaxOfBounded
  <2>5. i \in 1 .. Top /\ flows[i].throw
    BY <2>2 DEF EnclosingThrows
  <2> QED BY <2>2, <2>4, <2>5, FlowFields
<1>3. ExecutionEngine \in Exceptions
  BY CodeAssumption DEF CodeAssumption
<1>4. CASE EnclosingThrows = {}
  <2>1. Raise(ExecutionEngine)
    BY <1>4 DEF Rethrow
  <2> QED BY <1>1, <1>3, <2>1, RaiseKeeps
<1>5. CASE EnclosingThrows # {}
  <2>1. Raise(flows[Max(EnclosingThrows)].ex)
    BY <1>5 DEF Rethrow
  <2> QED BY <1>1, <1>2, <1>5, <2>1, RaiseKeeps
<1> QED BY <1>4, <1>5
------------------------------------------------------------------------------
(* Calls and returns.                                                      *)

LEMMA FrontOf ==
    ASSUME NEW S, NEW s \in Seq(S), NEW n \in Nat \ {0}, Len(s) = n
    PROVE  /\ Front(s) \in Seq(S)
           /\ Len(Front(s)) = n - 1
           /\ \A i \in 1 .. n - 1 : Front(s)[i] = s[i]
BY DEF Front

LEMMA LastEntry ==
    ASSUME ProgramsSupported, FlowsIInv, outcome = "running"
    PROVE  /\ Last(entries) = entries[Depth]
           /\ Last(entries).base \in 1 .. Cur /\ Last(entries).ip \in Nat
           /\ \A e \in 1 .. Depth : e < Depth => entries[e].base < Last(entries).base
           /\ Depth = 1 => Last(entries).base = 1
           /\ Depth > 1 =>
                  LET k == Last(entries).base - 1
                      m == program[frames[k].method]
                  IN  /\ k \in 1 .. Cur
                      /\ Last(entries).ip \in DOMAIN m.code
                      /\ m.code[Last(entries).ip].op = "invoke"
                      /\ Placed(m, flows, k, Last(entries).ip)
<1>1. /\ Depth \in Nat \ {0} /\ DOMAIN entries = 1 .. Depth /\ Cur \in Nat
      /\ \A e \in 1 .. Depth : entries[e].base \in 1 .. Cur
  BY StateFacts
<1>2. Last(entries) = entries[Depth]
  BY DEF Last, Depth
<1>3. EntriesNested(program, frames, entries) /\ CallersPlaced(program, frames, entries, flows)
  BY DEF FlowsIInv
<1>4. Last(entries).ip \in Nat
  <2>1. entries \in Seq([base : Nat, ip : Nat])
    BY DEF FlowsIInv, FramesTyped
  <2>2. Depth \in 1 .. Len(entries)
    BY <1>1 DEF Depth
  <2>3. entries[Depth] \in [base : Nat, ip : Nat]
    BY <2>1, <2>2, ElementOfSeq
  <2> QED BY <1>2, <2>3
<1>5. entries[1].base = 1 /\ 1 \in 1 .. Depth /\ Depth \in 1 .. Depth
  <2>1. entries # <<>>
    BY <1>1 DEF Depth
  <2> QED BY <1>1, <1>3, <2>1 DEF EntriesNested
<1>6. \A e \in 1 .. Depth : e < Depth => entries[e].base < entries[Depth].base
  BY <1>1, <1>3, <1>5 DEF EntriesNested
<1>7. ASSUME Depth > 1
      PROVE  LET k == Last(entries).base - 1
                 m == program[frames[k].method]
             IN  /\ k \in 1 .. Cur
                 /\ Last(entries).ip \in DOMAIN m.code
                 /\ m.code[Last(entries).ip].op = "invoke"
                 /\ Placed(m, flows, k, Last(entries).ip)
  <2>1. entries[Depth].base > 1 /\ entries[Depth].base \in 1 .. Cur
    BY <1>1, <1>5, <1>6, <1>7
  <2>2. Last(entries).base - 1 \in 1 .. Cur
    BY <1>1, <1>2, <2>1
  <2> QED BY <1>1, <1>2, <1>3, <1>5, <1>7, <2>2 DEF EntriesNested, CallersPlaced
<1> QED BY <1>1, <1>2, <1>4, <1>5, <1>6, <1>7

(* A frame whose ip is in no handler has no flow. *)
LEMMA NoFlowOfLast ==
    ASSUME ProgramsSupported, FlowsIInv, Running, \A h \in DOMAIN Clauses : ip \notin Clauses[h].handler
    PROVE  \A x \in 1 .. Top : flows[x].frame < Cur
<1>1. outcome = "running"
  BY DEF Running
<1>2. /\ program \in Programs /\ Cur \in Nat \ {0}
      /\ Method = frames[Cur].method
      /\ \A k \in 1 .. Cur : frames[k].method \in DOMAIN program
      /\ Top \in Nat /\ DOMAIN flows = 1 .. Top
      /\ \A s \in 1 .. Top : flows[s] \in FlowSet(program) /\ flows[s].frame \in 1 .. Cur
      /\ \A s \in 1 .. Top : Owner(flows[s]) = frames[flows[s].frame].method
      /\ \A s \in 1 .. Top : FlowOK(program, flows, s)
  BY <1>1, StateFacts
<1>3. /\ InnermostOrNone(Clauses, ip, Executing(flows, Top, Cur))
      /\ \A s \in 1 .. Top : flows[s].clause # NoClause
  BY InstructionFacts
<1>4. Executing(flows, Top, Cur) = 0
  BY <1>3 DEF InnermostOrNone, IsInnermost
<1>5. ASSUME Top # 0 PROVE flows[Top].frame # Cur
  <2>1. SUFFICES ASSUME flows[Top].frame = Cur PROVE FALSE
    OBVIOUS
  <2>2. Top \in 1 .. Top /\ Top \in Nat \ {0}
    BY <1>2, <1>5
  <2>3. Owner(flows[Top]) = Method /\ Method \in DOMAIN program
    BY <1>2, <2>1, <2>2
  <2>4. WellNested(program[Owner(flows[Top])].clauses)
    BY <1>2, <2>3, MethodFacts
  <2>5. Executes(flows[Top]) \in Nat \ {0}
    BY <1>2, <1>3, <2>2, <2>4, Executed
  <2>6. Executing(flows, Top, Cur) = Executes(flows[Top])
    BY <2>1, <2>2 DEF Executing
  <2> QED BY <1>4, <2>5, <2>6
<1>6. ASSUME NEW x \in 1 .. Top PROVE flows[x].frame < Cur
  <2>1. Top \in 1 .. Top /\ x <= Top
    BY <1>2
  <2>2. flows[Top].frame < Cur /\ flows[Top].frame \in 1 .. Cur
    BY <1>2, <1>5, <2>1
  <2>3. x < Top => flows[x].frame <= flows[Top].frame
    BY <1>2, <2>1 DEF FlowsIInv, FlowsKept
  <2> QED BY <1>2, <2>1, <2>2, <2>3
<1> QED BY <1>6

LEMMA FrameEnds ==
    ASSUME ProgramsSupported, FlowsIInv, outcome = "running", Cur > 1, frames' = Front(frames),
           ip' \in DOMAIN program[frames[Cur - 1].method].code
    PROVE  FramesUpTo(Cur - 1)
<1>1. Cur \in Nat \ {0} /\ DOMAIN frames = 1 .. Cur
  BY StateFacts
<1>2. /\ frames \in Seq(FrameSet(program))
      /\ \A k \in DOMAIN frames : frames[k].ip \in DOMAIN program[frames[k].method].code
  BY DEF FlowsIInv, FramesTyped
<1>3. /\ frames' \in Seq(FrameSet(program)) /\ Cur' = Cur - 1
      /\ \A j \in 1 .. Cur - 1 : frames'[j] = frames[j]
  BY <1>1, <1>2, FrontOf DEF Cur
<1>4. Cur - 1 \in 1 .. Cur - 1 /\ Cur - 1 \in DOMAIN frames
  BY <1>1
<1> QED BY <1>2, <1>3, <1>4 DEF FramesUpTo

LEMMA EntriesStay ==
    ASSUME ProgramsSupported, FlowsIInv, outcome = "running", entries' = entries, NEW k \in Nat,
           Last(entries).base <= k
    PROVE  EntriesUpTo(k)
<1>1. /\ Depth \in Nat \ {0} /\ Cur \in Nat
      /\ \A e \in 1 .. Depth : entries[e].base \in 1 .. Cur
  BY StateFacts
<1>2. /\ Last(entries) = entries[Depth] /\ Last(entries).base \in 1 .. Cur
      /\ \A e \in 1 .. Depth : e < Depth => entries[e].base < Last(entries).base
  BY LastEntry
<1>3. \A e \in 1 .. Depth : entries[e].base <= k
  BY <1>1, <1>2
<1>4. entries \in Seq([base : Nat, ip : Nat])
  BY DEF FlowsIInv, FramesTyped
<1> QED BY <1>1, <1>3, <1>4 DEF EntriesUpTo, Depth

LEMMA EntryEnds ==
    ASSUME ProgramsSupported, FlowsIInv, outcome = "running", Depth > 1,
           entries' = Front(entries), Cur = Last(entries).base
    PROVE  EntriesUpTo(Cur - 1)
<1>1. /\ Depth \in Nat \ {0} /\ Cur \in Nat
      /\ \A e \in 1 .. Depth : entries[e].base \in 1 .. Cur
  BY StateFacts
<1>2. /\ Last(entries) = entries[Depth]
      /\ \A e \in 1 .. Depth : e < Depth => entries[e].base < Last(entries).base
  BY LastEntry
<1>3. entries \in Seq([base : Nat, ip : Nat])
  BY DEF FlowsIInv, FramesTyped
<1>4. /\ entries' \in Seq([base : Nat, ip : Nat]) /\ Depth' = Depth - 1
      /\ \A e \in 1 .. Depth - 1 : entries'[e] = entries[e]
  BY <1>1, <1>3, FrontOf DEF Depth
<1>5. Depth' \in 1 .. Depth
  BY <1>1, <1>4
<1>6. \A e \in 1 .. Depth' : entries'[e] = entries[e] /\ entries[e].base <= Cur - 1
  BY <1>1, <1>2, <1>4
<1>7. \A e \in 1 .. Depth : e > Depth' => entries[e].base > Cur - 1
  BY <1>1, <1>2, <1>4
<1> QED BY <1>4, <1>5, <1>6, <1>7 DEF EntriesUpTo

LEMMA EndedKeeps ==
    ASSUME FlowsIInv, program' = program, frames' = <<>>, entries' = <<>>, flows' = <<>>,
           mode' = "run", ip' \in Nat,
           outcome' \in {"returned"} \cup Exceptions
    PROVE  FlowsIInv'
<1>1. outcome' # "running"
  BY OutcomeAssumption DEF OutcomeAssumption
<1>2. FramesTyped'
  BY <1>1, FramesAssumption DEF FlowsIInv, FramesTyped, FramesAssumption
<1>3. EntriesNested(program', frames', entries')
  BY DEF EntriesNested
<1>4. FlowsKept(program', frames', flows') /\ HaveClauses'
  BY DEF FlowsKept, HaveClauses
<1>5. CallersPlaced(program', frames', entries', flows')
  BY DEF CallersPlaced
<1>6. CurrentPlaced' /\ UnwindsTop'
  BY <1>1 DEF CurrentPlaced, UnwindsTop, Running
<1> QED BY <1>2, <1>3, <1>4, <1>5, <1>6 DEF FlowsIInv

LEMMA PlacedAt ==
    ASSUME NEW m, NEW k, NEW p, NEW r \in 0 .. Top, Placed(m, flows, k, p),
           \A x \in 1 .. r : flows[x].frame <= k,
           \A x \in r + 1 .. Top : flows[x].frame > k
    PROVE  InnermostOrNone(m.clauses, p, Executing(flows, r, k))
BY DEF Placed, LastUpTo, Top

LEMMA RetKeeps ==
    ASSUME ProgramsSupported, FlowsIInv, Ret PROVE FlowsIInv'
<1>1. /\ Running /\ outcome = "running" /\ Instr.op = "ret" /\ frames' = Front(frames)
      /\ UNCHANGED <<program, flows>>
  BY DEF Ret, Running
<1>2. /\ program \in Programs
      /\ Cur \in Nat \ {0} /\ DOMAIN frames = 1 .. Cur /\ Method = frames[Cur].method
      /\ \A k \in 1 .. Cur : frames[k].method \in DOMAIN program
      /\ ip \in DOMAIN program[Method].code
      /\ Top \in Nat /\ Depth \in Nat \ {0}
      /\ \A s \in 1 .. Top : flows[s].frame \in 1 .. Cur
      /\ \A e \in 1 .. Depth : entries[e].base \in 1 .. Cur
  BY <1>1, StateFacts
<1>3. \A x \in 1 .. Top : flows[x].frame < Cur
  <2>1. Cur \in 1 .. Cur
    BY <1>2
  <2>2. WellFormedAt(program[Method], ip)
    BY <1>2, <2>1, MethodFacts
  <2>3. \A h \in DOMAIN Clauses : ip \notin Clauses[h].handler
    BY <1>1, <2>2 DEF WellFormedAt, Instr, Clauses
  <2> QED BY <1>1, <2>3, NoFlowOfLast
<1>4. /\ Last(entries).base \in 1 .. Cur /\ Last(entries).ip \in Nat
      /\ \A e \in 1 .. Depth : e < Depth => entries[e].base < Last(entries).base
      /\ Last(entries) = entries[Depth]
      /\ Depth = 1 => Last(entries).base = 1
  BY <1>1, LastEntry
<1>5. /\ \A x \in 1 .. Top : flows[x].frame <= Cur - 1 /\ flows[x].clause # NoClause
      /\ flows' \in Seq(FlowSet(program)) /\ Top' = Top
  <2>1. flows \in Seq(FlowSet(program))
    BY DEF FlowsIInv, FramesTyped
  <2>2. \A x \in 1 .. Top : flows[x].clause # NoClause
    BY <1>1, InstructionFacts
  <2>3. \A x \in 1 .. Top : flows[x].frame <= Cur - 1
    BY <1>2, <1>3
  <2> QED BY <1>1, <2>1, <2>2, <2>3 DEF Top
<1>6. ASSUME Cur > 1, EntriesUpTo(Cur - 1), outcome' = "running", mode' = "run",
             ip' \in DOMAIN program[frames[Cur - 1].method].code,
             InnermostOrNone(program[frames[Cur - 1].method].clauses, ip',
                             Executing(flows, Top, Cur - 1))
      PROVE  FlowsIInv'
  <2>1. FramesUpTo(Cur - 1)
    BY <1>1, <1>6, FrameEnds
  <2>2. FlowsUpTo(Cur - 1, Top)
    BY <1>1, <1>2, <1>5 DEF FlowsUpTo
  <2>3. Pushed(Cur - 1, Top)
    BY <1>2, <1>5 DEF Pushed
  <2>4. StepUpTo(Cur - 1, Top)
    BY <1>1, <1>6, <2>1, <2>2, <2>3 DEF StepUpTo
  <2>5. Cur - 1 \in 1 .. Cur /\ Top \in 0 .. Top /\ Top' # Top + 1
    BY <1>2, <1>5, <1>6
  <2>6. Executing(flows', Top', Cur - 1) = Executing(flows, Top, Cur - 1)
    BY <1>1, <1>5
  <2> QED BY <1>1, <1>6, <2>4, <2>5, <2>6, RunsOn
<1>7. CASE /\ Cur # Last(entries).base /\ Goto(frames[Cur - 1].ip)
           /\ UNCHANGED <<entries, outcome>>
  <2>1. Cur > 1 /\ Last(entries).base <= Cur - 1 /\ Cur - 1 \in Nat
    BY <1>2, <1>4, <1>7
  <2>2. EntriesUpTo(Cur - 1)
    BY <1>1, <1>7, <2>1, EntriesStay
  <2>3. Cur - 1 \in DOMAIN frames /\ Cur - 1 < Cur
    BY <1>2, <2>1
  <2>4. frames[Cur - 1].ip \in DOMAIN program[frames[Cur - 1].method].code
    BY <2>3 DEF FlowsIInv, FramesTyped
  <2>5. Placed(program[frames[Cur - 1].method], flows, Cur - 1, frames[Cur - 1].ip)
    <3>1. \A e \in 1 .. Depth : entries[e].base # Cur
      BY <1>2, <1>4, <1>7
    <3>2. DOMAIN entries = 1 .. Depth
      BY <1>1, StateFacts
    <3>3. \A e \in DOMAIN entries : entries[e].base # (Cur - 1) + 1
      BY <1>2, <3>1, <3>2
    <3> QED BY <2>3, <3>3 DEF FlowsIInv, CallersPlaced, Cur
  <2>6. InnermostOrNone(program[frames[Cur - 1].method].clauses, frames[Cur - 1].ip,
                        Executing(flows, Top, Cur - 1))
    <3>1. Top \in 0 .. Top /\ \A x \in Top + 1 .. Top : flows[x].frame > Cur - 1
      BY <1>2
    <3> QED BY <1>5, <2>5, <3>1, PlacedAt
  <2>7. ip' = frames[Cur - 1].ip /\ mode' = "run" /\ outcome' = "running"
    BY <1>1, <1>7 DEF Goto
  <2> QED BY <1>6, <2>1, <2>2, <2>4, <2>6, <2>7
<1>8. CASE /\ Cur = Last(entries).base /\ entries' = Front(entries)
           /\ Goto(Last(entries).ip + 1)
           /\ outcome' = IF Len(entries) = 1 THEN "returned" ELSE "running"
  <2>1. ip' = Last(entries).ip + 1 /\ mode' = "run"
    BY <1>8 DEF Goto
  <2>2. CASE Depth = 1
    <3>1. Cur = 1
      BY <1>4, <1>8, <2>2
    <3>2. Top = 0
      BY <1>2, <1>3, <3>1
    <3>3. frames \in Seq(FrameSet(program)) /\ entries \in Seq([base : Nat, ip : Nat])
          /\ flows \in Seq(FlowSet(program))
      BY DEF FlowsIInv, FramesTyped
    <3>4. frames' = <<>> /\ entries' = <<>> /\ flows' = <<>>
      BY <1>1, <1>8, <2>2, <3>1, <3>2, <3>3 DEF Front, Cur, Depth, Top
    <3>5. outcome' = "returned" /\ ip' \in Nat
      BY <1>4, <1>8, <2>1, <2>2 DEF Depth
    <3> QED BY <1>1, <2>1, <3>4, <3>5, EndedKeeps
  <2>3. CASE Depth > 1
    <3> DEFINE m == program[frames[Cur - 1].method]
               p == Last(entries).ip
    <3>1. /\ Cur - 1 \in 1 .. Cur /\ p \in DOMAIN m.code /\ m.code[p].op = "invoke"
          /\ Placed(m, flows, Cur - 1, p)
      BY <1>1, <1>8, <2>3, LastEntry
    <3>2. Cur > 1 /\ Cur - 1 \in 1 .. Cur
      BY <1>2, <3>1
    <3>3. WellFormedAt(m, p)
      BY <1>2, <3>1, <3>2, MethodFacts
    <3>4. /\ p + 1 \in DOMAIN m.code
          /\ \A h \in DOMAIN m.clauses : p + 1 \in m.clauses[h].handler <=> p \in m.clauses[h].handler
      BY <3>1, <3>3 DEF WellFormedAt
    <3>5. InnermostOrNone(m.clauses, p, Executing(flows, Top, Cur - 1))
      <4>1. Top \in 0 .. Top /\ \A x \in Top + 1 .. Top : flows[x].frame > Cur - 1
        BY <1>2
      <4> QED BY <1>5, <3>1, <4>1, PlacedAt
    <3>6. InnermostOrNone(m.clauses, p + 1, Executing(flows, Top, Cur - 1))
      BY <3>4, <3>5 DEF InnermostOrNone, IsInnermost
    <3>7. EntriesUpTo(Cur - 1)
      BY <1>1, <1>8, <2>3, EntryEnds
    <3>8. outcome' = "running"
      <4>1. Depth # 1
        BY <1>2, <2>3
      <4> QED BY <1>8, <4>1 DEF Depth
    <3> QED BY <1>6, <2>1, <3>2, <3>4, <3>6, <3>7, <3>8
  <2> QED BY <1>2, <2>2, <2>3
<1> QED BY <1>7, <1>8 DEF Ret

(* A call from offset p: a frame is added, and for native code an entry. *)
FramesEntered(n) ==
    /\ frames' \in Seq(FrameSet(program))
    /\ Cur < MaxFrames
    /\ Cur' = Cur + 1
    /\ \A j \in 1 .. Cur : frames'[j].method = frames[j].method
    /\ \A j \in 1 .. Cur : j # Cur => frames'[j].ip = frames[j].ip
    /\ frames'[Cur].ip \in DOMAIN program[Method].code
    /\ frames'[Cur + 1].method = n
    /\ frames'[Cur + 1].ip = 1

EntriesEntered(p) ==
    \/ entries' = entries /\ frames'[Cur].ip = p
    \/ /\ entries' \in Seq([base : Nat, ip : Nat])
       /\ Depth' = Depth + 1
       /\ \A e \in 1 .. Depth : entries'[e] = entries[e]
       /\ entries'[Depth + 1].base = Cur + 1
       /\ entries'[Depth + 1].ip = p
       /\ program[Method].code[p].op = "invoke"

LEMMA EnteredEntries ==
    ASSUME ProgramsSupported, FlowsIInv, outcome = "running", NEW p, EntriesEntered(p)
    PROVE  /\ entries' \in Seq([base : Nat, ip : Nat]) /\ entries' # <<>>
           /\ \A e \in 1 .. Depth : e \in DOMAIN entries' /\ entries'[e] = entries[e]
           /\ \A e \in DOMAIN entries' :
                  \/ e \in 1 .. Depth
                  \/ /\ e = Depth + 1
                     /\ entries'[e].base = Cur + 1 /\ entries'[e].ip = p
                     /\ program[Method].code[p].op = "invoke"
           /\ (\A e \in DOMAIN entries' : entries'[e].base # Cur + 1) => frames'[Cur].ip = p
<1>1. Depth \in Nat \ {0} /\ DOMAIN entries = 1 .. Depth
  BY StateFacts
<1>2. CASE entries' = entries /\ frames'[Cur].ip = p
  <2>1. entries \in Seq([base : Nat, ip : Nat]) /\ entries # <<>>
    BY <1>1 DEF FlowsIInv, FramesTyped, Depth
  <2> QED BY <1>1, <1>2, <2>1
<1>3. CASE /\ entries' \in Seq([base : Nat, ip : Nat])
           /\ Depth' = Depth + 1
           /\ \A e \in 1 .. Depth : entries'[e] = entries[e]
           /\ entries'[Depth + 1].base = Cur + 1
           /\ entries'[Depth + 1].ip = p
           /\ program[Method].code[p].op = "invoke"
  <2>1. DOMAIN entries' = 1 .. Depth' /\ entries' # <<>>
    BY <1>1, <1>3 DEF Depth
  <2>2. \A e \in DOMAIN entries' : e \in 1 .. Depth \/ e = Depth + 1
    BY <1>1, <1>3, <2>1
  <2>3. \A e \in 1 .. Depth + 1 : e \in DOMAIN entries'
    BY <1>3, <2>1
  <2>4. Depth + 1 \in 1 .. Depth + 1 /\ \A e \in 1 .. Depth : e \in 1 .. Depth + 1
    BY <1>1
  <2> QED BY <1>3, <2>1, <2>2, <2>3, <2>4
<1> QED BY <1>2, <1>3 DEF EntriesEntered

LEMMA EnteredKeeps ==
    ASSUME ProgramsSupported, FlowsIInv, Running,
           NEW n \in DOMAIN program, NEW p \in DOMAIN program[Method].code,
           UNCHANGED <<program, flows, outcome>>, ip' = 1, mode' = "run",
           FramesEntered(n), EntriesEntered(p),
           InnermostOrNone(Clauses, p, Executing(flows, Top, Cur))
    PROVE  FlowsIInv'
<1>1. outcome = "running" /\ mode = "run"
  BY DEF Running
<1>2. /\ program \in Programs
      /\ Cur \in Nat \ {0} /\ DOMAIN frames = 1 .. Cur /\ Method = frames[Cur].method
      /\ Top \in Nat /\ DOMAIN flows = 1 .. Top
      /\ Depth \in Nat \ {0} /\ DOMAIN entries = 1 .. Depth
      /\ \A s \in 1 .. Top : flows[s].frame \in 1 .. Cur
      /\ \A e \in 1 .. Depth : entries[e].base \in 1 .. Cur
  BY <1>1, StateFacts
<1>3. /\ FramesTyped /\ EntriesNested(program, frames, entries)
      /\ FlowsKept(program, frames, flows) /\ CallersPlaced(program, frames, entries, flows)
  BY DEF FlowsIInv
<1>4. /\ 1 \in DOMAIN program[n].code
      /\ \A h \in DOMAIN program[n].clauses : 1 \notin program[n].clauses[h].handler
  BY <1>2, MethodFacts
<1>5. /\ frames' \in Seq(FrameSet(program)) /\ frames' # <<>>
      /\ DOMAIN frames' = 1 .. Cur + 1 /\ Method' = n
  <2>1. frames' \in Seq(FrameSet(program)) /\ Cur' = Cur + 1 /\ frames'[Cur + 1].method = n
    BY DEF FramesEntered
  <2>2. DOMAIN frames' = 1 .. Cur' /\ frames' # <<>>
    BY <1>2, <2>1 DEF Cur
  <2> QED BY <2>1, <2>2 DEF Method
<1>6. /\ entries' \in Seq([base : Nat, ip : Nat]) /\ entries' # <<>>
      /\ \A e \in 1 .. Depth : e \in DOMAIN entries' /\ entries'[e] = entries[e]
      /\ \A e \in DOMAIN entries' :
             \/ e \in 1 .. Depth
             \/ /\ e = Depth + 1
                /\ entries'[e].base = Cur + 1 /\ entries'[e].ip = p
                /\ program[Method].code[p].op = "invoke"
      /\ (\A e \in DOMAIN entries' : entries'[e].base # Cur + 1) => frames'[Cur].ip = p
  BY <1>1, EnteredEntries
<1>7. FramesTyped'
  <2>1. Len(frames') <= MaxFrames
    <3>1. Cur' <= MaxFrames
      BY <1>2, FramesAssumption DEF FramesAssumption, FramesEntered
    <3> QED BY <3>1 DEF Cur
  <2>2. ASSUME NEW j \in 1 .. Cur + 1
        PROVE  frames'[j].ip \in DOMAIN program[frames'[j].method].code
    <3>1. CASE j = Cur + 1
      BY <1>4, <3>1 DEF FramesEntered
    <3>2. CASE j = Cur
      <4>1. Cur \in 1 .. Cur
        BY <1>2
      <4> QED BY <1>2, <3>2, <4>1 DEF FramesEntered
    <3>3. CASE j \in 1 .. Cur - 1
      <4>1. j \in DOMAIN frames /\ j \in 1 .. Cur /\ j # Cur
        BY <1>2, <3>3
      <4>2. frames[j].ip \in DOMAIN program[frames[j].method].code
        BY <1>3, <4>1 DEF FramesTyped
      <4> QED BY <4>1, <4>2 DEF FramesEntered
    <3> QED BY <1>2, <3>1, <3>2, <3>3
  <2>3. program' = program /\ outcome' = "running" /\ mode' = "run" /\ flows' = flows /\ ip' = 1
    BY <1>1
  <2> QED BY <1>3, <1>4, <1>5, <1>6, <2>1, <2>2, <2>3 DEF FramesTyped
<1>8. \A j \in 1 .. Cur : frames'[j].method = frames[j].method
  BY DEF FramesEntered
<1>9. ASSUME NEW e \in 1 .. Depth, e > 1 PROVE entries[e].base - 1 \in 1 .. Cur
  <2>1. 1 \in DOMAIN entries /\ e \in DOMAIN entries /\ 1 \in 1 .. Depth
    BY <1>2
  <2>2. entries[1].base < entries[e].base
    BY <1>3, <1>9, <2>1 DEF EntriesNested
  <2>3. entries[1].base \in 1 .. Cur /\ entries[e].base \in 1 .. Cur
    BY <1>2, <2>1
  <2> QED BY <1>2, <2>2, <2>3
<1>10. EntriesNested(program', frames', entries')
  <2>1. entries'[1].base = 1
    <3>1. 1 \in 1 .. Depth /\ entries # <<>>
      BY <1>2 DEF Depth
    <3> QED BY <1>3, <1>6, <3>1 DEF EntriesNested
  <2>2. \A e \in DOMAIN entries' : entries'[e].base \in DOMAIN frames'
    <3>1. Cur + 1 \in 1 .. Cur + 1 /\ \A j \in 1 .. Cur : j \in 1 .. Cur + 1
      BY <1>2
    <3>2. \A e \in 1 .. Depth : entries'[e].base \in 1 .. Cur
      BY <1>2, <1>6
    <3> QED BY <1>5, <1>6, <3>1, <3>2
  <2>3. ASSUME NEW d \in DOMAIN entries', NEW e \in DOMAIN entries', d < e
        PROVE  entries'[d].base < entries'[e].base
    <3>1. d \in 1 .. Depth
      <4>1. SUFFICES ASSUME d = Depth + 1 PROVE FALSE
        BY <1>6
      <4>2. e = Depth + 1 \/ e \in 1 .. Depth
        BY <1>6
      <4> HIDE <1>6
      <4> QED BY <1>2, <2>3, <4>1, <4>2
    <3>2. CASE e \in 1 .. Depth
      <4>1. entries[d].base < entries[e].base
        BY <1>2, <1>3, <2>3, <3>1, <3>2 DEF EntriesNested
      <4> QED BY <1>6, <3>1, <3>2, <4>1
    <3>3. CASE e = Depth + 1 /\ entries'[e].base = Cur + 1
      <4>1. entries'[d].base \in 1 .. Cur
        BY <1>2, <1>6, <3>1
      <4> QED BY <1>2, <3>3, <4>1
    <3> QED BY <1>6, <3>2, <3>3
  <2>4. ASSUME NEW e \in DOMAIN entries', e > 1
        PROVE  LET m == program[frames'[entries'[e].base - 1].method]
               IN  entries'[e].ip \in DOMAIN m.code /\ m.code[entries'[e].ip].op = "invoke"
    <3>1. CASE e \in 1 .. Depth
      <4>1. entries'[e] = entries[e] /\ e \in DOMAIN entries
        BY <1>2, <1>6, <3>1
      <4>2. frames'[entries[e].base - 1].method = frames[entries[e].base - 1].method
        BY <1>8, <1>9, <2>4, <3>1
      <4> QED BY <1>3, <2>4, <4>1, <4>2 DEF EntriesNested
    <3>2. CASE /\ e = Depth + 1
               /\ entries'[e].base = Cur + 1 /\ entries'[e].ip = p
               /\ program[Method].code[p].op = "invoke"
      <4>1. entries'[e].base - 1 = Cur /\ Cur \in 1 .. Cur
        BY <1>2, <3>2
      <4>2. frames'[entries'[e].base - 1].method = Method
        BY <1>2, <1>8, <4>1
      <4> QED BY <3>2, <4>2
    <3> QED BY <1>6, <3>1, <3>2
  <2> QED BY <2>1, <2>2, <2>3, <2>4 DEF EntriesNested
<1>11. FlowsKept(program', frames', flows')
  <2>1. \A x \in 1 .. Top : flows[x].frame \in DOMAIN frames'
    BY <1>2, <1>5
  <2>2. \A j \in DOMAIN frames' : j \in DOMAIN frames => frames'[j].method = frames[j].method
    BY <1>2, <1>8
  <2>3. Top \in {Top, Top + 1} /\ Top # Top + 1 /\ 1 .. Top \subseteq DOMAIN flows
    BY <1>2
  <2>4. \A x \in 1 .. Top : flows[x] = flows[x]
    OBVIOUS
  <2>5. FlowsKept(program, frames', flows)
    BY <1>2, <1>3, <2>1, <2>2, <2>3, <2>4, KeptStep
  <2> QED BY <2>5
<1>12. Placed(program[Method], flows, Cur, p)
  <2>1. ASSUME NEW t \in 0 .. Top, LastUpTo(flows, Cur, t) PROVE t = Top
    <3>1. SUFFICES ASSUME t < Top PROVE FALSE
      BY <1>2
    <3>2. Top \in t + 1 .. Top /\ Top \in 1 .. Top
      BY <1>2, <3>1
    <3>3. flows[Top].frame > Cur
      BY <2>1, <3>2 DEF LastUpTo, Top
    <3> QED BY <1>2, <3>2, <3>3
  <2> QED BY <2>1 DEF Placed, Clauses, Top
<1>13. CallersPlaced(program', frames', entries', flows')
  <2>1. ASSUME NEW e \in DOMAIN entries', e > 1
        PROVE  Placed(program[frames'[entries'[e].base - 1].method], flows,
                      entries'[e].base - 1, entries'[e].ip)
    <3>1. CASE e \in 1 .. Depth
      <4>1. entries'[e] = entries[e] /\ e \in DOMAIN entries
        BY <1>2, <1>6, <3>1
      <4>2. frames'[entries[e].base - 1].method = frames[entries[e].base - 1].method
        BY <1>8, <1>9, <2>1, <3>1
      <4> QED BY <1>3, <2>1, <4>1, <4>2 DEF CallersPlaced
    <3>2. CASE e = Depth + 1 /\ entries'[e].base = Cur + 1 /\ entries'[e].ip = p
      <4>1. entries'[e].base - 1 = Cur /\ Cur \in 1 .. Cur
        BY <1>2, <3>2
      <4>2. frames'[entries'[e].base - 1].method = Method
        BY <1>2, <1>8, <4>1
      <4> QED BY <1>12, <3>2, <4>1, <4>2
    <3> QED BY <1>6, <3>1, <3>2
  <2>2. ASSUME NEW k \in 1 .. Cur, \A e \in DOMAIN entries' : entries'[e].base # k + 1
        PROVE  Placed(program[frames'[k].method], flows, k, frames'[k].ip)
    <3>1. \A e \in DOMAIN entries : e \in DOMAIN entries' /\ entries'[e] = entries[e]
      BY <1>2, <1>6
    <3>2. CASE k # Cur
      <4>1. k \in DOMAIN frames /\ k < Cur
        BY <1>2, <3>2
      <4>2. Placed(program[frames[k].method], flows, k, frames[k].ip)
        <5>1. \A e \in DOMAIN entries : entries[e].base # k + 1
          BY <2>2, <3>1
        <5>2. Cur = Len(frames)
          BY DEF Cur
        <5> QED BY <1>3, <4>1, <5>1, <5>2 DEF CallersPlaced
      <4> QED BY <1>8, <3>2, <4>2 DEF FramesEntered
    <3>3. CASE k = Cur
      <4>1. frames'[Cur].ip = p /\ frames'[Cur].method = Method
        BY <1>2, <1>6, <1>8, <2>2, <3>3
      <4> QED BY <1>12, <3>3, <4>1
    <3> QED BY <3>2, <3>3
  <2>3. Len(frames') = Cur + 1
    BY DEF FramesEntered, Cur
  <2>4. \A k \in DOMAIN frames' : k < Len(frames') => k \in 1 .. Cur
    BY <1>2, <1>5, <2>3
  <2> QED BY <2>1, <2>2, <2>4 DEF CallersPlaced
<1>14. CurrentPlaced'
  <2>1. ASSUME NEW t \in 0 .. Top PROVE Executing(flows, t, Cur + 1) = 0
    <3>1. t > 0 => flows[t].frame # Cur + 1
      BY <1>2
    <3> QED BY <3>1 DEF Executing
  <2>2. Placed(program[n], flows, Cur + 1, 1)
    BY <1>4, <2>1 DEF Placed, InnermostOrNone, Top
  <2>3. Cur' = Cur + 1
    BY DEF FramesEntered
  <2> QED BY <1>5, <2>2, <2>3 DEF CurrentPlaced
<1>15. HaveClauses' /\ UnwindsTop'
  BY <1>1 DEF FlowsIInv, HaveClauses, UnwindsTop
<1> QED BY <1>7, <1>10, <1>11, <1>13, <1>14, <1>15 DEF FlowsIInv

(* The frames after a call, where f is the caller's with its ip. *)
LEMMA FrameIsEntered ==
    ASSUME ProgramsSupported, FlowsIInv, outcome = "running", FrameStackHasRoom,
           NEW n \in DOMAIN program, NEW frs \in Seq(FrameSet(program)), Len(frs) = Cur,
           \A j \in 1 .. Cur : frs[j].method = frames[j].method,
           \A j \in 1 .. Cur : j # Cur => frs[j].ip = frames[j].ip,
           frs[Cur].ip \in DOMAIN program[Method].code,
           frames' = Append(frs, [method |-> n, ip |-> 1])
    PROVE  FramesEntered(n) /\ frames'[Cur].ip = frs[Cur].ip
<1>1. Cur \in Nat \ {0}
  BY StateFacts
<1>2. [method |-> n, ip |-> 1] \in FrameSet(program)
  BY DEF FrameSet
<1>3. /\ frames' \in Seq(FrameSet(program)) /\ Len(frames') = Cur + 1
      /\ \A j \in 1 .. Cur : frames'[j] = frs[j]
      /\ frames'[Cur + 1] = [method |-> n, ip |-> 1]
  BY <1>2, AppendProperties
<1>4. Cur \in 1 .. Cur
  BY <1>1
<1> QED BY <1>3, <1>4 DEF FramesEntered, FrameStackHasRoom, Cur

(* What an instruction that calls calls, and where it returns to. *)
LEMMA CallFacts ==
    ASSUME ProgramsSupported, FlowsIInv, Running, Instr.op \in {"call", "invoke"}
    PROVE  /\ Instr.method \in DOMAIN program
           /\ ip \in DOMAIN program[Method].code /\ ip + 1 \in DOMAIN program[Method].code
           /\ ip \in Nat
           /\ InnermostOrNone(Clauses, ip, Executing(flows, Top, Cur))
           /\ InnermostOrNone(Clauses, ip + 1, Executing(flows, Top, Cur))
<1>1. outcome = "running"
  BY DEF Running
<1>2. /\ program \in Programs /\ ip \in DOMAIN program[Method].code
      /\ Method \in DOMAIN program
  <2>1. Cur \in 1 .. Cur
    BY <1>1, StateFacts
  <2> QED BY <1>1, <2>1, StateFacts
<1>3. /\ WellFormedAt(program[Method], ip)
      /\ Instr.method \in DOMAIN program
  BY <1>2, MethodFacts DEF Instr
<1>4. /\ ip + 1 \in DOMAIN program[Method].code
      /\ \A h \in DOMAIN Clauses : ip + 1 \in Clauses[h].handler <=> ip \in Clauses[h].handler
  BY <1>3 DEF WellFormedAt, Instr, Clauses
<1>5. InnermostOrNone(Clauses, ip, Executing(flows, Top, Cur))
  BY InstructionFacts
<1>6. InnermostOrNone(Clauses, ip + 1, Executing(flows, Top, Cur))
  BY <1>4, <1>5 DEF InnermostOrNone, IsInnermost
<1>7. ip \in Nat
  BY DEF FlowsIInv, FramesTyped
<1> QED BY <1>2, <1>3, <1>4, <1>5, <1>6, <1>7

LEMMA CallKeeps ==
    ASSUME ProgramsSupported, FlowsIInv, Call PROVE FlowsIInv'
<1>1. /\ Running /\ outcome = "running" /\ Instr.op = "call" /\ FrameStackHasRoom
      /\ frames' = Append([frames EXCEPT ![Cur].ip = ip + 1], [method |-> Instr.method, ip |-> 1])
      /\ ip' = 1 /\ mode' = "run"
      /\ UNCHANGED <<program, entries, flows, outcome>>
  BY DEF Call, Running, Goto
<1>2. /\ Instr.method \in DOMAIN program
      /\ ip + 1 \in DOMAIN program[Method].code /\ ip \in Nat
      /\ InnermostOrNone(Clauses, ip + 1, Executing(flows, Top, Cur))
  BY <1>1, CallFacts
<1>3. Cur \in Nat \ {0} /\ Cur = Len(frames) /\ frames \in Seq(FrameSet(program))
  BY <1>1, StateFacts DEF FlowsIInv, FramesTyped, Cur
<1> DEFINE frs == [frames EXCEPT ![Cur].ip = ip + 1]
           f == [frames[Cur] EXCEPT !.ip = ip + 1]
<1>4. frs = [frames EXCEPT ![Cur] = f]
  OBVIOUS
<1>5. f \in FrameSet(program) /\ f.method = frames[Cur].method /\ f.ip = ip + 1
  <2>1. frames[Cur] \in FrameSet(program)
    BY <1>3, ElementOfSeq
  <2> QED BY <1>2, <2>1 DEF FrameSet
<1>6. frames' = Append(frs, [method |-> Instr.method, ip |-> 1])
  BY <1>1
<1> HIDE DEF frs, f
<1>7. /\ frs \in Seq(FrameSet(program)) /\ Len(frs) = Cur
      /\ \A j \in 1 .. Cur : frs[j].method = frames[j].method
      /\ \A j \in 1 .. Cur : j # Cur => frs[j] = frames[j]
      /\ frs[Cur] = f
  <2>1. Cur \in 1 .. Len(frames)
    BY <1>3
  <2> QED BY <1>3, <1>4, <1>5, <2>1, IpSaved
<1>8. FramesEntered(Instr.method) /\ frames'[Cur].ip = ip + 1
  BY <1>1, <1>2, <1>5, <1>6, <1>7, FrameIsEntered
<1>9. EntriesEntered(ip + 1)
  BY <1>1, <1>8 DEF EntriesEntered
<1> QED BY <1>1, <1>2, <1>8, <1>9, EnteredKeeps

LEMMA InvokeKeeps ==
    ASSUME ProgramsSupported, FlowsIInv, Invoke PROVE FlowsIInv'
<1>1. /\ Running /\ outcome = "running" /\ Instr.op = "invoke" /\ FrameStackHasRoom
      /\ frames' = Append(frames, [method |-> Instr.method, ip |-> 1])
      /\ entries' = Append(entries, [base |-> Cur + 1, ip |-> ip])
      /\ ip' = 1 /\ mode' = "run"
      /\ UNCHANGED <<program, flows, outcome>>
  BY DEF Invoke, Running, Goto
<1>2. /\ Instr.method \in DOMAIN program
      /\ ip \in DOMAIN program[Method].code /\ ip \in Nat
      /\ InnermostOrNone(Clauses, ip, Executing(flows, Top, Cur))
  BY <1>1, CallFacts
<1>3. /\ Cur \in Nat \ {0} /\ Cur = Len(frames) /\ DOMAIN frames = 1 .. Cur
      /\ Method = frames[Cur].method /\ Depth \in Nat
  BY <1>1, StateFacts DEF Cur
<1>4. /\ frames \in Seq(FrameSet(program)) /\ entries \in Seq([base : Nat, ip : Nat])
      /\ \A k \in DOMAIN frames : frames[k].ip \in DOMAIN program[frames[k].method].code
  BY DEF FlowsIInv, FramesTyped
<1>5. FramesEntered(Instr.method)
  <2>1. frames[Cur].ip \in DOMAIN program[Method].code
    BY <1>3, <1>4
  <2>2. Len(frames) = Cur
    BY <1>3
  <2> HIDE <1>3
  <2> QED BY <1>1, <1>2, <1>4, <2>1, <2>2, FrameIsEntered
<1>6. EntriesEntered(ip)
  <2>1. [base |-> Cur + 1, ip |-> ip] \in [base : Nat, ip : Nat]
    BY <1>2, <1>3
  <2>2. /\ entries' \in Seq([base : Nat, ip : Nat])
        /\ Len(entries') = Len(entries) + 1
        /\ \A e \in 1 .. Len(entries) : entries'[e] = entries[e]
        /\ entries'[Len(entries) + 1] = [base |-> Cur + 1, ip |-> ip]
    BY <1>1, <1>4, <2>1, AppendProperties
  <2>3. program[Method].code[ip].op = "invoke"
    BY <1>1 DEF Instr
  <2> QED BY <2>2, <2>3 DEF EntriesEntered, Depth
<1> QED BY <1>1, <1>2, <1>5, <1>6, EnteredKeeps
------------------------------------------------------------------------------
(* Leaving blocks.                                                         *)

(* The first of a set of clauses, and how many are left after it. *)
LEMMA FirstTaken ==
    ASSUME NEW cs, WellNested(cs), NEW R \in SUBSET DOMAIN cs, R # {}
    PROVE  /\ Min(R) \in R
           /\ \A j \in R : Min(R) <= j
           /\ Cardinality(R \ {Min(R)}) = Cardinality(R) - 1
           /\ Cardinality(R) - 1 \in Nat
<1>1. R \subseteq DOMAIN cs /\ DOMAIN cs = 1 .. Len(cs) /\ Len(cs) \in Nat
  BY DEF WellNested
<1>2. IsFiniteSet(R)
  <2>1. IsFiniteSet(1 .. Len(cs))
    BY <1>1, FS_Interval
  <2> QED BY <1>1, <2>1, FS_Subset
<1>3. Cardinality(R) \in Nat /\ Cardinality(R) # 0
  BY <1>2, FS_CardinalityType, FS_EmptySet
<1>4. R \subseteq Nat
  BY <1>1
<1>5. Min(R) \in R /\ \A j \in R : Min(R) <= j
  BY <1>4, MinOfNats
<1>6. Cardinality(R \ {Min(R)}) = Cardinality(R) - 1
  BY <1>2, <1>5, FS_RemoveElement
<1> QED BY <1>3, <1>5, <1>6

(* The same of the clauses in F from n on. *)
LEMMA FirstOfRest ==
    ASSUME NEW cs, WellNested(cs), NEW F \in SUBSET DOMAIN cs, NEW n \in Nat,
           NEW R, R = {i \in F : i >= n}, R # {}
    PROVE  /\ Min(R) \in R
           /\ \A j \in R : Min(R) <= j
           /\ Cardinality({i \in F : i >= Min(R) + 1}) = Cardinality(R) - 1
           /\ Cardinality(R) - 1 \in Nat
<1>1. R \in SUBSET DOMAIN cs /\ DOMAIN cs \subseteq Nat
  BY DEF WellNested
<1>2. PICK t \in R : t = Min(R) /\ \A j \in R : t <= j
  BY <1>1, FirstTaken
<1>3. ASSUME NEW i \in F PROVE i >= t + 1 <=> i \in R /\ i # t
  <2>1. i \in Nat /\ t \in Nat
    BY <1>1, <1>2
  <2>2. i \in R <=> i >= n
    OBVIOUS
  <2>3. t >= n /\ (i \in R => t <= i)
    BY <1>2
  <2> HIDE <1>1, <1>2
  <2> QED BY <2>1, <2>2, <2>3
<1>4. {i \in F : i >= t + 1} = R \ {t}
  BY <1>3
<1> QED BY <1>1, <1>2, <1>4, FirstTaken

LEMMA FirstOfAll ==
    ASSUME NEW cs, WellNested(cs), NEW F \in SUBSET DOMAIN cs, F # {}
    PROVE  /\ Min(F) \in F
           /\ \A j \in F : Min(F) <= j
           /\ Cardinality({j \in F : j >= Min(F) + 1}) = Cardinality(F) - 1
           /\ Cardinality(F) - 1 \in Nat
<1>1. DOMAIN cs \subseteq Nat
  BY DEF WellNested
<1>2. PICK t \in F : t = Min(F) /\ \A j \in F : t <= j
  BY FirstTaken
<1>3. {j \in F : j >= t + 1} = F \ {t}
  <2>1. ASSUME NEW j \in F PROVE j >= t + 1 <=> j # t
    BY <1>1, <1>2
  <2> QED BY <2>1
<1> QED BY <1>2, <1>3, FirstTaken

LEMMA LeaveFacts ==
    ASSUME ProgramsSupported, FlowsIInv, Running, Instr.op = "leave"
    PROVE  /\ Instr.target \in DOMAIN program[Method].code
           /\ ip \in DOMAIN program[Method].code
           /\ \A h \in DOMAIN Clauses :
                  Instr.target \in Clauses[h].handler => ip \in Clauses[h].handler
           /\ SupportedLeave(program[Method], ip)
           /\ WellNested(Clauses) /\ DOMAIN Clauses \subseteq Nat \ {0}
           /\ program \in Programs /\ Method \in DOMAIN program
<1>1. outcome = "running" /\ Instr = program[Method].code[ip]
  BY DEF Running, Instr
<1>2. /\ program \in Programs /\ Method \in DOMAIN program /\ ip \in DOMAIN program[Method].code
  <2>1. Cur \in 1 .. Cur
    BY <1>1, StateFacts
  <2> QED BY <1>1, <2>1, StateFacts
<1>3. /\ WellFormedAt(program[Method], ip) /\ SupportedLeave(program[Method], ip)
      /\ WellNested(Clauses) /\ DOMAIN Clauses \subseteq Nat \ {0}
  BY <1>1, <1>2, MethodFacts DEF Clauses
<1>4. /\ Instr.target \in DOMAIN program[Method].code
      /\ \A h \in DOMAIN Clauses :
             Instr.target \in Clauses[h].handler => ip \in Clauses[h].handler
  BY <1>1, <1>3 DEF WellFormedAt, Clauses
<1> QED BY <1>2, <1>3, <1>4

(* A leave that is not lowered as one from a handler leaves none, ... *)
LEMMA LeavesNoHandler ==
    ASSUME ProgramsSupported, FlowsIInv, Running, Instr.op = "leave",
           Surrounding # "catch_or_filter"
    PROVE  /\ \A h \in DOMAIN Clauses :
                  Instr.target \in Clauses[h].handler <=> ip \in Clauses[h].handler
           /\ InnermostOrNone(Clauses, Instr.target, Executing(flows, Top, Cur))
<1>1. LeftBy(program[Method], ip) = {}
  BY LeaveFacts DEF SupportedLeave, Surrounding, Clauses, Instr
<1>2. \A h \in DOMAIN Clauses :
          Instr.target \in Clauses[h].handler <=> ip \in Clauses[h].handler
  BY <1>1, LeaveFacts DEF LeftBy, LeavesHandler, Clauses, Instr
<1>3. InnermostOrNone(Clauses, ip, Executing(flows, Top, Cur))
  BY InstructionFacts
<1> QED BY <1>2, <1>3 DEF InnermostOrNone, IsInnermost

(* ... and another leaves the catch handler of the last flow, only. *)
LEMMA LeavesCatch ==
    ASSUME ProgramsSupported, FlowsIInv, Running, Instr.op = "leave",
           Surrounding = "catch_or_filter"
    PROVE  /\ Top # 0 /\ flows[Top].throw /\ flows[Top].frame = Cur
           /\ flows[Top].clause # NoClause
           /\ flows[Top].clause[2] \in DOMAIN Clauses
           /\ ip \in Clauses[flows[Top].clause[2]].handler
           /\ \A h \in DOMAIN Clauses :
                  Instr.target \in Clauses[h].handler
                      <=> h # flows[Top].clause[2] /\ ip \in Clauses[h].handler
           /\ InnermostOrNone(Clauses, Instr.target, Executing(flows, Top - 1, Cur))
<1> DEFINE f == flows[Top]
           target == Instr.target
           x == Executing(flows, Top - 1, Cur)
<1>1. /\ WellNested(Clauses) /\ DOMAIN Clauses \subseteq Nat \ {0}
      /\ \A h \in DOMAIN Clauses : target \in Clauses[h].handler => ip \in Clauses[h].handler
  BY LeaveFacts
<1>2. PICK i \in LeftBy(program[Method], ip) :
          Clauses[i].kind \in {"catch", "filter"} /\ LeftBy(program[Method], ip) = {i}
  BY LeaveFacts DEF SupportedLeave, Surrounding, Clauses, Instr
<1>3. /\ i \in DOMAIN Clauses /\ ip \in Clauses[i].handler /\ target \notin Clauses[i].handler
      /\ \A h \in DOMAIN Clauses :
             h # i /\ ip \in Clauses[h].handler => target \in Clauses[h].handler
  BY <1>2 DEF LeftBy, LeavesHandler, Clauses, Instr
<1>4. InnermostOrNone(Clauses, ip, Executing(flows, Top, Cur))
      /\ \A s \in 1 .. Top : flows[s].clause # NoClause
  BY InstructionFacts
<1>5. /\ Executing(flows, Top, Cur) = i
      /\ \A h \in DOMAIN Clauses : ip \in Clauses[h].handler => i <= h
  <2>1. PICK e \in DOMAIN Clauses :
            e = Executing(flows, Top, Cur) /\ IsInnermost(Clauses, ip, e)
    BY <1>3, <1>4 DEF InnermostOrNone
  <2>2. ip \in Clauses[e].handler /\ \A h \in DOMAIN Clauses : ip \in Clauses[h].handler => e <= h
    BY <2>1 DEF IsInnermost
  <2>3. SUFFICES ASSUME e # i PROVE FALSE
    BY <2>1, <2>2
  <2>4. e < i
    BY <1>1, <1>3, <2>2, <2>3
  <2>5. Clauses[e].handler \subseteq Clauses[i].handler
    BY <1>1, <1>3, <2>2, <2>4, HandlersNested DEF Unit
  <2>6. target \in Clauses[e].handler
    BY <1>3, <2>2, <2>3
  <2> QED BY <1>3, <2>5, <2>6
<1>6. outcome = "running"
  BY DEF Running
<1>7. /\ Top \in Nat /\ Cur \in Nat \ {0}
      /\ \A s \in 1 .. Top : flows[s] \in FlowSet(program)
      /\ \A s \in 1 .. Top : Owner(flows[s]) = frames[flows[s].frame].method
      /\ \A s \in 1 .. Top : FlowOK(program, flows, s)
      /\ Method = frames[Cur].method
  BY <1>6, StateFacts
<1>8. Top # 0 /\ f.frame = Cur /\ Executes(f) = i
  BY <1>1, <1>3, <1>5, <1>7 DEF Executing
<1>9. /\ Top \in 1 .. Top /\ f.clause # NoClause /\ f \in FlowSet(program)
      /\ FlowOK(program, flows, Top) /\ Owner(f) = Method
  <2>1. Top \in 1 .. Top
    BY <1>7, <1>8
  <2> QED BY <1>4, <1>7, <1>8, <2>1
<1>10. f.throw /\ f.clause[2] = i
  <2>1. WellNested(program[Owner(f)].clauses)
    BY <1>1, <1>9 DEF Clauses
  <2>2. /\ f.throw => f.clause[2] = i
        /\ ~f.throw => Clauses[i].kind = "finally"
    BY <1>7, <1>8, <1>9, <2>1, Executed DEF Clauses
  <2>3. f.throw \in BOOLEAN
    BY <1>9, FlowFields
  <2> QED BY <1>2, <2>2, <2>3
<1>11. Enclosing(Clauses, i, x)
  <2>1. ThrowOK(program[Method], flows, Top)
    BY <1>9, <1>10 DEF FlowOK
  <2> QED BY <1>2, <1>8, <1>9, <1>10, <2>1 DEF ThrowOK, Clauses
<1>12. \A h \in DOMAIN Clauses : target \in Clauses[h].handler => x # 0 /\ x <= h
  <2>1. ASSUME NEW h \in DOMAIN Clauses, target \in Clauses[h].handler
        PROVE  h # i /\ Clauses[i].entry \in Clauses[h].handler
    <3>1. h # i /\ i < h /\ ip \in Clauses[h].handler
      BY <1>1, <1>3, <1>5, <2>1
    <3>2. Clauses[i].entry \in Clauses[i].handler
      BY <1>1, <1>3 DEF WellNested
    <3> QED BY <1>1, <1>3, <3>1, <3>2, HandlersNested DEF Unit
  <2> QED BY <1>11, <2>1 DEF Enclosing
<1>13. \A h \in DOMAIN Clauses :
           target \in Clauses[h].handler <=> h # f.clause[2] /\ ip \in Clauses[h].handler
  BY <1>1, <1>3, <1>10
<1>14. CASE x = 0
  <2>1. \A h \in DOMAIN Clauses : target \notin Clauses[h].handler
    BY <1>12, <1>14
  <2> HIDE DEF x, target
  <2>2. InnermostOrNone(Clauses, target, x)
    BY <1>14, <2>1 DEF InnermostOrNone
  <2> QED BY <1>8, <1>9, <1>10, <1>3, <1>13, <2>2 DEF x, target
<1>15. CASE x \in DOMAIN Clauses /\ x # i /\ Clauses[i].entry \in Clauses[x].handler
  <2>1. ip \in Clauses[x].handler
    BY <1>1, <1>3, <1>15, AroundEntry DEF Unit
  <2>2. target \in Clauses[x].handler
    BY <1>3, <1>15, <2>1
  <2> HIDE DEF x, target
  <2>3. InnermostOrNone(Clauses, target, x)
    BY <1>12, <1>15, <2>2 DEF InnermostOrNone, IsInnermost
  <2> QED BY <1>8, <1>9, <1>10, <1>3, <1>13, <2>3 DEF x, target
<1> QED BY <1>3, <1>8, <1>9, <1>10, <1>11, <1>14, <1>15 DEF Enclosing

LEMMA LeaveByBranchKeeps ==
    ASSUME ProgramsSupported, FlowsIInv, LeaveByBranch PROVE FlowsIInv'
<1>1. /\ Running /\ Instr.op = "leave" /\ Surrounding # "catch_or_filter"
      /\ ip' = Instr.target /\ mode' = "run"
      /\ UNCHANGED <<program, frames, entries, flows, outcome>>
  BY DEF LeaveByBranch, Goto
<1>2. Instr.target \in DOMAIN program[Method].code
  BY <1>1, LeaveFacts
<1>3. \A h \in DOMAIN Clauses :
          Instr.target \in Clauses[h].handler <=> ip \in Clauses[h].handler
  BY <1>1, LeavesNoHandler
<1> QED BY <1>1, <1>2, <1>3, GotoKeeps

(* The flow for a leave at ip, on the flows of the handler its target is in. *)
LEMMA NewLeaveOK ==
    ASSUME ProgramsSupported, FlowsIInv, Running, Instr.op = "leave", Finallys # {},
           NEW r \in 0 .. Top, NEW gs,
           \A x \in 1 .. r : gs[x] = flows[x],
           gs[r + 1] = LeaveFlow(Instr.target, Min(Finallys), Cardinality(Finallys) - 1),
           InnermostOrNone(Clauses, Instr.target, Executing(flows, r, Cur))
    PROVE  /\ Min(Finallys) \in DOMAIN Clauses
           /\ gs[r + 1] \in FlowSet(program)
           /\ FlowOK(program, gs, r + 1)
<1> DEFINE f == gs[r + 1]
           m == program[Method]
           target == Instr.target
           i == Min(Finallys)
<1>1. /\ Instr.target \in DOMAIN m.code
      /\ ip \in DOMAIN m.code
      /\ \A h \in DOMAIN Clauses : target \in Clauses[h].handler => ip \in Clauses[h].handler
      /\ SupportedLeave(m, ip)
      /\ WellNested(Clauses) /\ DOMAIN Clauses \subseteq Nat \ {0}
      /\ program \in Programs /\ Method \in DOMAIN program
      /\ Clauses = m.clauses
  BY LeaveFacts DEF Clauses
<1>2. outcome = "running"
  BY DEF Running
<1>3. /\ Top \in Nat /\ Cur \in Nat \ {0} /\ Method = frames[Cur].method
      /\ \A s \in 1 .. Top : flows[s] \in FlowSet(program)
      /\ \A s \in 1 .. Top : Owner(flows[s]) = frames[flows[s].frame].method
      /\ \A s \in 1 .. Top : FlowOK(program, flows, s)
  BY <1>2, StateFacts
<1>4. \A s \in 1 .. Top : flows[s].clause # NoClause
  BY InstructionFacts
<1>5. Finallys \in SUBSET DOMAIN Clauses
  BY DEF Finallys, FinallysBetween
<1>6. /\ i \in Finallys /\ \A j \in Finallys : i <= j
      /\ Cardinality({j \in Finallys : j >= i + 1}) = Cardinality(Finallys) - 1
      /\ Cardinality(Finallys) - 1 \in Nat
  <2>1. WellNested(Clauses)
    BY <1>1
  <2> QED BY <1>5, <2>1, FirstOfAll
<1>7. /\ f.throw = FALSE /\ f.frame = Cur /\ f.src = ip /\ f.target = target
      /\ f.clause = <<Method, i>> /\ f.next = i + 1 /\ f.remain = Cardinality(Finallys) - 1
  BY DEF LeaveFlow
<1>8. i \in Nat /\ ip \in Nat /\ target \in Nat
  <2>1. DOMAIN m.code \subseteq Nat
    BY <1>1, MethodFacts
  <2> QED BY <1>1, <1>5, <1>6, <2>1
<1>9. f \in FlowSet(program)
  <2>1. f \in LeaveFlows(program)
    BY <1>1, <1>3, <1>6, <1>8 DEF LeaveFlow, LeaveFlows
  <2> QED BY <2>1 DEF FlowSet
<1>10. (r + 1) - 1 = r /\ r \in Nat
  BY <1>3
<1>11. ASSUME NEW j \in Finallys, NEW c \in DOMAIN Clauses, Clauses[c].kind = "catch",
              Clauses[j].handler \subseteq Clauses[c].try
       PROVE  Reaches(Clauses, gs, r, Cur, c)
  <2>1. j \in DOMAIN Clauses /\ ip \in Clauses[j].try
    BY <1>5 DEF Finallys, FinallysBetween
  <2>2. ip \in Clauses[c].try
    BY <1>1, <1>11, <2>1, HandlerInTry DEF Unit
  <2>3. \A h \in DOMAIN Clauses : target \in Clauses[h].handler =>
            \/ c < h /\ Clauses[c].entry \in Clauses[h].handler
            \/ h < c /\ Clauses[h].handler \subseteq Clauses[c].try
    <3>1. Clauses[c].entry \in Clauses[c].handler
      BY <1>1 DEF WellNested
    <3> QED BY <1>1, <2>2, <3>1, TryMeetsHandler DEF Unit
  <2>4. IsCatch(m, c)
    BY <1>1, <1>11 DEF IsCatch
  <2>5. \A h \in DOMAIN Clauses :
            h # c /\ Clauses[c].entry \in Clauses[h].handler => target \in Clauses[h].handler
    BY <1>1, <1>11, <2>4 DEF SupportedLeave, Finallys, Instr
  <2>6. r # 0 /\ flows[r].frame = Cur =>
            /\ flows[r] \in FlowSet(program)
            /\ flows[r].clause # NoClause
            /\ Owner(flows[r]) = Method
            /\ FlowOK(program, flows, r)
    BY <1>3, <1>4
  <2>7. \A q \in DOMAIN m.code : m.code[q].op = "leave" => SupportedLeave(m, q)
    BY <1>1, MethodFacts
  <2>8. Reaches(Clauses, flows, r, Cur, c)
    BY <1>1, <1>10, <2>3, <2>4, <2>5, <2>6, <2>7, CatchReaches
  <2> QED BY <1>10, <2>8, ReachesSame
<1>12. InnermostOrNone(Clauses, target, Executing(gs, r, Cur))
  BY <1>10, ExecutingSame
<1>13. Finallys = FinallysBetween(m.clauses, f.src, f.target)
  BY <1>1, <1>7 DEF Finallys
<1>14. m.code[f.src].op = "leave" /\ m.code[f.src].target = f.target
  BY <1>7 DEF Instr
<1>15. LeaveOK(m, gs, r + 1)
  <2>1. f.clause[2] = i
    BY <1>7
  <2>2. \E e \in Finallys : f.next = e + 1
    BY <1>6, <1>7
  <2>3. f.remain = Cardinality({j \in Finallys : j >= f.next})
    BY <1>6, <1>7
  <2>4. \A j \in Finallys, c \in DOMAIN Clauses :
            Clauses[c].kind = "catch" /\ Clauses[j].handler \subseteq Clauses[c].try =>
                Reaches(Clauses, gs, r, f.frame, c)
    BY <1>7, <1>11
  <2>5. InnermostOrNone(Clauses, f.target, Executing(gs, r, f.frame))
    BY <1>7, <1>12
  <2>6. f.src \in DOMAIN m.code
    BY <1>1, <1>7
  <2> HIDE DEF f, m, i, target
  <2> QED BY <1>1, <1>6, <1>10, <1>13, <1>14, <2>1, <2>2, <2>3, <2>4, <2>5, <2>6 DEF LeaveOK, f
<1>16. FlowOK(program, gs, r + 1)
  BY <1>7, <1>15 DEF FlowOK, Owner
<1> QED BY <1>5, <1>6, <1>9, <1>16

(* Control enters the handler of clause i of the last frame, for a flow pushed. *)
LEMMA EnterKeeps ==
    ASSUME ProgramsSupported, FlowsIInv, outcome = "running",
           NEW r \in 0 .. Top, \A x \in r + 1 .. Top : flows[x].frame = Cur,
           \A x \in 1 .. r : flows[x].clause # NoClause,
           flows' \in Seq(FlowSet(program)), Top' = r + 1, \A x \in 1 .. r : flows'[x] = flows[x],
           flows'[r + 1].frame = Cur, Owner(flows'[r + 1]) = Method,
           flows'[r + 1].clause # NoClause, FlowOK(program, flows', r + 1),
           NEW i \in DOMAIN Clauses, Executes(flows'[r + 1]) = i,
           ip' = Clauses[i].entry, mode' = "run", UNCHANGED <<program, frames, entries, outcome>>
    PROVE  FlowsIInv'
<1>1. /\ Top \in Nat /\ Cur \in Nat \ {0} /\ Method = frames[Cur].method
      /\ program \in Programs
      /\ \A k \in 1 .. Cur : frames[k].method \in DOMAIN program
      /\ \A s \in 1 .. Top : flows[s].frame \in 1 .. Cur
  BY StateFacts
<1>2. WellNested(Clauses) /\ ip' \in DOMAIN program[Method].code
  <2>1. Method \in DOMAIN program
    BY <1>1
  <2> QED BY <1>1, <2>1, MethodFacts DEF Clauses
<1>3. FramesUpTo(Cur) /\ EntriesUpTo(Cur) /\ Cur \in 1 .. Cur
  BY <1>2, FramesStay
<1>4. FlowsUpTo(Cur, r)
  <2>1. \A x \in 1 .. r : flows[x].frame <= Cur
    BY <1>1
  <2>2. \A x \in r + 1 .. Top : flows[x].frame >= Cur
    BY <1>1
  <2> QED BY <2>1, <2>2 DEF FlowsUpTo
<1>5. Pushed(Cur, r)
  BY <1>1 DEF Pushed
<1>6. StepUpTo(Cur, r)
  BY <1>3, <1>4, <1>5 DEF StepUpTo
<1>7. Executing(flows', Top', Cur) = i
  BY <1>1 DEF Executing
<1>8. InnermostOrNone(Clauses, ip', i)
  BY <1>2, EntryIsInnermost DEF InnermostOrNone
<1> QED BY <1>1, <1>3, <1>6, <1>7, <1>8, RunsOn DEF Clauses

LEMMA EnterFirstFinallyKeeps ==
    ASSUME ProgramsSupported, FlowsIInv, Running, Instr.op = "leave", Finallys # {},
           NEW r \in 0 .. Top, \A x \in r + 1 .. Top : flows[x].frame = Cur,
           NEW fs \in Seq(FlowSet(program)), Len(fs) = r, \A x \in 1 .. r : fs[x] = flows[x],
           EnterFirstFinally(fs), UNCHANGED <<program, frames, entries, outcome>>,
           InnermostOrNone(Clauses, Instr.target, Executing(flows, r, Cur))
    PROVE  FlowsIInv'
<1> DEFINE i == Min(Finallys)
           new == LeaveFlow(Instr.target, i, Cardinality(Finallys) - 1)
           gs == Append(fs, new)
<1>1. /\ flows' = gs /\ ip' = Clauses[i].entry /\ mode' = "run"
  BY DEF EnterFirstFinally, Goto
<1>2. outcome = "running" /\ Top \in Nat
  BY StateFacts DEF Running
<1>3. gs[r + 1] = new /\ \A x \in 1 .. r : gs[x] = fs[x]
  OBVIOUS
<1>4. i \in DOMAIN Clauses /\ new \in FlowSet(program) /\ FlowOK(program, gs, r + 1)
  <2> HIDE DEF gs
  <2> QED BY <1>3, NewLeaveOK
<1>5. /\ new.throw = FALSE /\ new.frame = Cur /\ new.clause = <<Method, i>> /\ new.next = i + 1
  BY DEF LeaveFlow
<1> HIDE DEF new
<1>6. gs \in Seq(FlowSet(program)) /\ Len(gs) = r + 1
  BY <1>4, AppendProperties
<1> HIDE DEF gs
<1>7. new.clause # NoClause /\ Owner(new) = Method /\ Executes(new) = i
  <2>1. i \in Nat
    BY <1>4, LeaveFacts
  <2>2. ~new.throw
    BY <1>5
  <2>3. new.clause # NoClause
    BY <1>4, <2>2, FlowFields
  <2>4. Owner(new) = Method
    BY <1>5 DEF Owner
  <2>5. Executes(new) = i
    BY <1>5, <2>1 DEF Executes
  <2> QED BY <2>3, <2>4, <2>5
<1>8. \A x \in 1 .. r : flows[x].clause # NoClause
  BY <1>2, InstructionFacts
<1>9. Top' = r + 1
  BY <1>1, <1>6 DEF Top
<1>10. flows' \in Seq(FlowSet(program)) /\ \A x \in 1 .. r : flows'[x] = flows[x]
  BY <1>1, <1>3, <1>6
<1>11. flows'[r + 1] = new /\ FlowOK(program, flows', r + 1)
  BY <1>1, <1>3, <1>4
<1> QED BY <1>1, <1>2, <1>4, <1>5, <1>7, <1>8, <1>9, <1>10, <1>11, EnterKeeps

LEMMA LeaveTryWithFinallyKeeps ==
    ASSUME ProgramsSupported, FlowsIInv, LeaveTryWithFinally PROVE FlowsIInv'
<1>1. /\ Running /\ outcome = "running" /\ Instr.op = "leave" /\ Finallys # {}
      /\ Surrounding # "catch_or_filter"
      /\ EnterFirstFinally(flows) /\ UNCHANGED <<program, frames, entries, outcome>>
  BY DEF LeaveTryWithFinally, Running
<1>2. InnermostOrNone(Clauses, Instr.target, Executing(flows, Top, Cur))
  BY <1>1, LeavesNoHandler
<1>3. flows \in Seq(FlowSet(program)) /\ Len(flows) = Top
  BY DEF FlowsIInv, FramesTyped, Top
<1>4. Top \in 0 .. Top /\ \A x \in Top + 1 .. Top : flows[x].frame = Cur
  <2>1. Top \in Nat
    BY <1>1, StateFacts
  <2> QED BY <2>1
<1>5. \A x \in 1 .. Top : flows[x] = flows[x]
  OBVIOUS
<1> QED BY <1>1, <1>2, <1>3, <1>4, <1>5, EnterFirstFinallyKeeps

LEMMA FlowsFront ==
    ASSUME ProgramsSupported, FlowsIInv, outcome = "running", Top # 0
    PROVE  /\ Front(flows) \in Seq(FlowSet(program))
           /\ Len(Front(flows)) = Top - 1
           /\ \A x \in 1 .. Top - 1 : Front(flows)[x] = flows[x]
           /\ \A x \in 1 .. Top - 1 : flows[x].clause # NoClause /\ flows[x].frame <= Cur
           /\ \A x \in (Top - 1) + 1 .. Top : x = Top
           /\ Top - 1 \in 0 .. Top /\ (Top - 1) + 1 = Top
<1>1. /\ Top \in Nat /\ DOMAIN flows = 1 .. Top /\ Cur \in Nat
      /\ \A s \in 1 .. Top : flows[s].frame \in 1 .. Cur
  BY StateFacts
<1>2. flows \in Seq(FlowSet(program)) /\ Len(flows) = Top
  BY DEF FlowsIInv, FramesTyped, Top
<1>3. /\ Front(flows) \in Seq(FlowSet(program))
      /\ Len(Front(flows)) = Top - 1
      /\ \A x \in 1 .. Top - 1 : Front(flows)[x] = flows[x]
  <2>1. Top \in Nat \ {0}
    BY <1>1
  <2> HIDE <1>1
  <2> QED BY <1>2, <2>1, FrontOf
<1>4. \A x \in 1 .. Top - 1 : flows[x].clause # NoClause
  <2>1. \A x \in 1 .. Top - 1 : x \in DOMAIN flows /\ x < Top
    BY <1>1
  <2> QED BY <1>2, <2>1 DEF FlowsIInv, HaveClauses
<1>5. \A x \in 1 .. Top - 1 : flows[x].frame <= Cur
  BY <1>1
<1>6. /\ \A x \in (Top - 1) + 1 .. Top : x = Top
      /\ Top - 1 \in 0 .. Top /\ (Top - 1) + 1 = Top
  BY <1>1
<1> QED BY <1>3, <1>4, <1>5, <1>6

LEMMA LeaveCatchWithFinallyKeeps ==
    ASSUME ProgramsSupported, FlowsIInv, LeaveCatchWithFinally PROVE FlowsIInv'
<1>1. /\ Running /\ outcome = "running" /\ Instr.op = "leave" /\ Finallys # {}
      /\ Surrounding = "catch_or_filter"
      /\ EnterFirstFinally(Front(flows)) /\ UNCHANGED <<program, frames, entries, outcome>>
  BY DEF LeaveCatchWithFinally, Running
<1>2. /\ Top # 0 /\ flows[Top].frame = Cur
      /\ InnermostOrNone(Clauses, Instr.target, Executing(flows, Top - 1, Cur))
  BY <1>1, LeavesCatch
<1>3. /\ Front(flows) \in Seq(FlowSet(program)) /\ Len(Front(flows)) = Top - 1
      /\ \A x \in 1 .. Top - 1 : Front(flows)[x] = flows[x]
      /\ \A x \in (Top - 1) + 1 .. Top : x = Top
      /\ Top - 1 \in 0 .. Top
  BY <1>1, <1>2, FlowsFront
<1>4. \A x \in (Top - 1) + 1 .. Top : flows[x].frame = Cur
  BY <1>2, <1>3
<1> QED BY <1>1, <1>2, <1>3, <1>4, EnterFirstFinallyKeeps

(* The last flow is popped, for an offset in the handlers around. *)
LEMMA PopKeeps ==
    ASSUME ProgramsSupported, FlowsIInv, outcome = "running", Top # 0, flows[Top].frame = Cur,
           flows' = Front(flows), mode' = "run", UNCHANGED <<program, frames, entries, outcome>>,
           ip' \in DOMAIN program[Method].code,
           InnermostOrNone(Clauses, ip', Executing(flows, Top - 1, Cur))
    PROVE  FlowsIInv'
<1>1. /\ Front(flows) \in Seq(FlowSet(program)) /\ Len(Front(flows)) = Top - 1
      /\ \A x \in 1 .. Top - 1 : Front(flows)[x] = flows[x]
      /\ \A x \in 1 .. Top - 1 : flows[x].clause # NoClause /\ flows[x].frame <= Cur
      /\ \A x \in (Top - 1) + 1 .. Top : x = Top
      /\ Top - 1 \in 0 .. Top /\ (Top - 1) + 1 = Top
  BY FlowsFront
<1>2. Cur \in Nat /\ Top \in Nat
  BY StateFacts
<1>3. Top' = Top - 1 /\ Top' # (Top - 1) + 1
  BY <1>1, <1>2 DEF Top
<1>4. FramesUpTo(Cur) /\ EntriesUpTo(Cur) /\ Cur \in 1 .. Cur
  BY FramesStay
<1>5. FlowsUpTo(Cur, Top - 1)
  <2>1. \A x \in (Top - 1) + 1 .. Top : flows[x].frame >= Cur
    BY <1>1, <1>2
  <2> QED BY <1>1, <1>3, <2>1 DEF FlowsUpTo
<1>6. StepUpTo(Cur, Top - 1)
  BY <1>3, <1>4, <1>5 DEF StepUpTo, Pushed
<1>7. Executing(flows', Top', Cur) = Executing(flows, Top - 1, Cur)
  <2>1. Top - 1 \in Nat /\ \A x \in 1 .. Top - 1 : flows'[x] = flows[x]
    BY <1>1
  <2>2. Executing(flows', Top - 1, Cur) = Executing(flows, Top - 1, Cur)
    BY <2>1, ExecutingSame
  <2> QED BY <1>3, <2>2
<1> QED BY <1>1, <1>3, <1>4, <1>6, <1>7, RunsOn DEF Clauses, Method

LEMMA LeaveCatchWithoutFinallyKeeps ==
    ASSUME ProgramsSupported, FlowsIInv, LeaveCatchWithoutFinally PROVE FlowsIInv'
<1>1. /\ Running /\ outcome = "running" /\ Instr.op = "leave"
      /\ Surrounding = "catch_or_filter" /\ flows' = Front(flows)
      /\ ip' = Instr.target /\ mode' = "run"
      /\ UNCHANGED <<program, frames, entries, outcome>>
  BY DEF LeaveCatchWithoutFinally, Running, Goto
<1>2. /\ Top # 0 /\ flows[Top].frame = Cur
      /\ InnermostOrNone(Clauses, Instr.target, Executing(flows, Top - 1, Cur))
  BY <1>1, LeavesCatch
<1>3. Instr.target \in DOMAIN program[Method].code
  BY <1>1, LeaveFacts
<1> QED BY <1>1, <1>2, <1>3, PopKeeps

LEMMA EndFinallyKeeps ==
    ASSUME ProgramsSupported, FlowsIInv, EndFinally PROVE FlowsIInv'
<1>1. /\ Running /\ outcome = "running" /\ Instr.op = "endfinally" /\ mode' = "unwind"
      /\ UNCHANGED <<program, frames, ip, entries, flows, outcome>>
  BY DEF EndFinally, Running
<1>2. /\ program \in Programs /\ Cur \in Nat \ {0} /\ Method = frames[Cur].method
      /\ \A k \in 1 .. Cur : frames[k].method \in DOMAIN program
      /\ ip \in DOMAIN program[Method].code
      /\ Top \in Nat
      /\ \A s \in 1 .. Top : flows[s] \in FlowSet(program)
      /\ \A s \in 1 .. Top : Owner(flows[s]) = frames[flows[s].frame].method
      /\ \A s \in 1 .. Top : FlowOK(program, flows, s)
  BY <1>1, StateFacts
<1>3. /\ WellFormedAt(program[Method], ip) /\ WellNested(Clauses)
      /\ DOMAIN Clauses \subseteq Nat \ {0}
  <2>1. Method \in DOMAIN program
    BY <1>2
  <2> QED BY <1>2, <2>1, MethodFacts DEF Clauses
<1>4. PICK i \in DOMAIN Clauses : IsCleanup(Clauses[i]) /\ IsInnermost(Clauses, ip, i)
  BY <1>1, <1>3 DEF WellFormedAt, Clauses, Instr
<1>5. /\ InnermostOrNone(Clauses, ip, Executing(flows, Top, Cur))
      /\ \A s \in 1 .. Top : flows[s].clause # NoClause
  BY <1>1, InstructionFacts
<1>6. Executing(flows, Top, Cur) = i
  <2>1. PICK e \in DOMAIN Clauses :
            e = Executing(flows, Top, Cur) /\ IsInnermost(Clauses, ip, e)
    BY <1>4, <1>5 DEF InnermostOrNone, IsInnermost
  <2>2. e <= i /\ i <= e
    BY <1>4, <2>1 DEF IsInnermost
  <2>3. e \in Nat /\ i \in Nat
    BY <1>3
  <2> QED BY <2>1, <2>2, <2>3
<1>7. Top # 0 /\ flows[Top].frame = Cur /\ Executes(flows[Top]) = i
  BY <1>2, <1>3, <1>6 DEF Executing
<1>8. flows[Top].throw => ~flows[Top].handled
  <2>1. Top \in 1 .. Top /\ Top \in Nat \ {0}
    BY <1>2, <1>7
  <2>2. /\ flows[Top] \in FlowSet(program) /\ flows[Top].clause # NoClause
        /\ FlowOK(program, flows, Top) /\ Owner(flows[Top]) = Method
    BY <1>2, <1>5, <1>7, <2>1
  <2>3. flows[Top].throw => flows[Top].clause[2] = i
    BY <1>3, <1>7, <2>1, <2>2, Executed DEF Clauses
  <2>4. flows[Top].throw => (flows[Top].handled <=> Clauses[flows[Top].clause[2]].kind = "catch")
    BY <2>2 DEF FlowOK, ThrowOK, Clauses
  <2> QED BY <1>4, <2>3, <2>4 DEF IsCleanup
<1>9. /\ StepUpTo(Cur, Top) /\ Cur \in 1 .. Cur /\ Top \in 0 .. Top /\ Top' = Top
  BY <1>1, <1>2, StaysUpTo
<1> QED BY <1>1, <1>7, <1>8, <1>9, UnwindsOn
------------------------------------------------------------------------------
(* Unwinding.                                                              *)

LEMMA UnwindFacts ==
    ASSUME ProgramsSupported, FlowsIInv, outcome = "running", mode = "unwind"
    PROVE  /\ Top \in Nat \ {0} /\ TopFlow = flows[Top] /\ flows[Top].frame = Cur
           /\ flows[Top] \in FlowSet(program)
           /\ Owner(flows[Top]) = Method /\ FlowOK(program, flows, Top)
           /\ flows[Top].throw =>
                  ~flows[Top].handled /\ ThrowOK(program[Method], flows, Top)
           /\ ~flows[Top].throw => LeaveOK(program[Method], flows, Top)
           /\ program \in Programs /\ Method \in DOMAIN program
           /\ WellNested(Clauses) /\ DOMAIN Clauses \subseteq Nat \ {0}
<1>1. /\ program \in Programs /\ Cur \in Nat \ {0} /\ Method = frames[Cur].method
      /\ \A k \in 1 .. Cur : frames[k].method \in DOMAIN program
      /\ Top \in Nat
      /\ \A s \in 1 .. Top : flows[s] \in FlowSet(program)
      /\ \A s \in 1 .. Top : Owner(flows[s]) = frames[flows[s].frame].method
      /\ \A s \in 1 .. Top : FlowOK(program, flows, s)
  BY StateFacts
<1>2. /\ flows # <<>> /\ TopFlow.frame = Cur
      /\ TopFlow.throw => ~TopFlow.handled
  BY DEF FlowsIInv, UnwindsTop
<1>3. Top # 0 /\ TopFlow = flows[Top]
  BY <1>2 DEF FlowsIInv, FramesTyped, Top, TopFlow, Last
<1>4. Top \in 1 .. Top /\ Top \in Nat \ {0}
  BY <1>1, <1>3
<1>5. /\ flows[Top] \in FlowSet(program) /\ Owner(flows[Top]) = Method
      /\ FlowOK(program, flows, Top)
  BY <1>1, <1>2, <1>3, <1>4
<1>6. /\ flows[Top].throw => ThrowOK(program[Method], flows, Top)
      /\ ~flows[Top].throw => LeaveOK(program[Method], flows, Top)
  BY <1>5 DEF FlowOK
<1>7. Method \in DOMAIN program
  BY <1>1
<1>8. WellNested(Clauses) /\ DOMAIN Clauses \subseteq Nat \ {0}
  BY <1>1, <1>7, MethodFacts DEF Clauses
<1> QED BY <1>1, <1>2, <1>3, <1>4, <1>5, <1>6, <1>7, <1>8

LEMMA FinishLeaveKeeps ==
    ASSUME ProgramsSupported, FlowsIInv, FinishLeave PROVE FlowsIInv'
<1>1. /\ outcome = "running" /\ mode = "unwind" /\ ~TopFlow.throw
      /\ flows' = Front(flows) /\ ip' = TopFlow.target /\ mode' = "run"
      /\ UNCHANGED <<program, frames, entries, outcome>>
  BY DEF FinishLeave, UnwindingLeave, Goto
<1>2. /\ Top # 0 /\ TopFlow = flows[Top] /\ flows[Top].frame = Cur
      /\ LeaveOK(program[Method], flows, Top)
      /\ program \in Programs /\ Method \in DOMAIN program
  BY <1>1, UnwindFacts
<1>3. /\ flows[Top].src \in DOMAIN program[Method].code
      /\ program[Method].code[flows[Top].src].op = "leave"
      /\ program[Method].code[flows[Top].src].target = flows[Top].target
      /\ InnermostOrNone(Clauses, flows[Top].target, Executing(flows, Top - 1, Cur))
  BY <1>2 DEF LeaveOK, Clauses
<1>4. flows[Top].target \in DOMAIN program[Method].code
  <2>1. WellFormedAt(program[Method], flows[Top].src)
    BY <1>2, <1>3, MethodFacts
  <2> QED BY <1>3, <2>1 DEF WellFormedAt
<1> QED BY <1>1, <1>2, <1>3, <1>4, PopKeeps

(* The flow on top is replaced by one for clause i. *)
LEMMA SetTopFlowKeeps ==
    ASSUME ProgramsSupported, FlowsIInv, outcome = "running", mode = "unwind",
           NEW g \in FlowSet(program), g.frame = Cur, Owner(g) = Method, g.clause # NoClause,
           NEW i \in DOMAIN Clauses, Executes(g) = i,
           SetTopFlow(g), FlowOK(program, flows', Top),
           ip' = Clauses[i].entry, mode' = "run", UNCHANGED <<program, frames, entries, outcome>>
    PROVE  FlowsIInv'
<1>1. Top # 0 /\ flows[Top].frame = Cur
  BY UnwindFacts
<1>2. /\ Front(flows) \in Seq(FlowSet(program)) /\ Len(Front(flows)) = Top - 1
      /\ \A x \in 1 .. Top - 1 : Front(flows)[x] = flows[x]
      /\ \A x \in 1 .. Top - 1 : flows[x].clause # NoClause
      /\ \A x \in (Top - 1) + 1 .. Top : x = Top
      /\ Top - 1 \in 0 .. Top /\ (Top - 1) + 1 = Top
  BY <1>1, FlowsFront
<1>3. /\ flows' \in Seq(FlowSet(program)) /\ Len(flows') = (Top - 1) + 1
      /\ \A x \in 1 .. Top - 1 : flows'[x] = Front(flows)[x]
      /\ flows'[(Top - 1) + 1] = g
  BY <1>2, AppendProperties DEF SetTopFlow
<1>4. \A x \in (Top - 1) + 1 .. Top : flows[x].frame = Cur
  BY <1>1, <1>2
<1>5. Top' = (Top - 1) + 1
  BY <1>3 DEF Top
<1>6. \A x \in 1 .. Top - 1 : flows'[x] = flows[x]
  BY <1>2, <1>3
<1>7. FlowOK(program, flows', (Top - 1) + 1)
  BY <1>2
<1> QED BY <1>2, <1>3, <1>4, <1>5, <1>6, <1>7, EnterKeeps

(* What SetTopFlow leaves of what ThrowOK and LeaveOK say of the flows below. *)
LEMMA TopFlowSet ==
    ASSUME ProgramsSupported, FlowsIInv, outcome = "running", mode = "unwind",
           NEW g, SetTopFlow(g)
    PROVE  /\ flows'[Top] = g
           /\ Executing(flows', Top - 1, Cur) = Executing(flows, Top - 1, Cur)
           /\ \A cs, c : Reaches(cs, flows, Top - 1, Cur, c) => Reaches(cs, flows', Top - 1, Cur, c)
<1>1. Top # 0 /\ Top \in Nat
  BY UnwindFacts
<1>2. /\ Len(Front(flows)) = Top - 1 /\ Front(flows) \in Seq(FlowSet(program))
      /\ \A x \in 1 .. Top - 1 : Front(flows)[x] = flows[x]
      /\ (Top - 1) + 1 = Top
  BY <1>1, FlowsFront
<1>3. /\ flows' = Append(Front(flows), g) /\ Top - 1 \in Nat
  BY <1>1 DEF SetTopFlow
<1>4. /\ flows'[(Top - 1) + 1] = g
      /\ \A x \in 1 .. Top - 1 : flows'[x] = Front(flows)[x]
  <2>1. \A n \in Nat, fs \in Seq(FlowSet(program)) : Len(fs) = n =>
            /\ Append(fs, g)[n + 1] = g
            /\ \A x \in 1 .. n : Append(fs, g)[x] = fs[x]
    OBVIOUS
  <2> HIDE <1>1
  <2> QED BY <1>2, <1>3, <2>1
<1>5. \A x \in 1 .. Top - 1 : flows'[x] = flows[x]
  BY <1>2, <1>4
<1>6. Executing(flows', Top - 1, Cur) = Executing(flows, Top - 1, Cur)
  BY <1>3, <1>5, ExecutingSame
<1>7. \A cs, c : Reaches(cs, flows, Top - 1, Cur, c) => Reaches(cs, flows', Top - 1, Cur, c)
  BY <1>3, <1>5, ReachesSame
<1> QED BY <1>2, <1>4, <1>6, <1>7

LEMMA NextFinallyKeeps ==
    ASSUME ProgramsSupported, FlowsIInv, NextFinally PROVE FlowsIInv'
<1> DEFINE f == flows[Top]
           m == program[Method]
           F == FinallysBetween(Clauses, f.src, f.target)
           i == Min(RemainingFinallys(f))
           g == [f EXCEPT !.next = i + 1, !.remain = @ - 1]
<1>1. /\ outcome = "running" /\ mode = "unwind" /\ ~TopFlow.throw
      /\ UNCHANGED <<program, frames, entries, outcome>>
  BY DEF NextFinally, UnwindingLeave
<1>2. /\ TopFlow = f /\ f.frame = Cur /\ f \in FlowSet(program)
      /\ Owner(f) = Method /\ FlowOK(program, flows, Top) /\ LeaveOK(m, flows, Top)
      /\ program \in Programs /\ Method \in DOMAIN program
      /\ WellNested(Clauses) /\ DOMAIN Clauses \subseteq Nat \ {0}
      /\ Clauses = m.clauses
  BY <1>1, UnwindFacts DEF Clauses
<1>3. /\ RemainingFinallys(f) # {} /\ f.remain > 0
      /\ SetTopFlow(g) /\ ip' = Clauses[i].entry /\ mode' = "run"
  BY <1>2 DEF NextFinally, Goto
<1>4. f \in LeaveFlows(program) /\ f.clause # NoClause /\ f.next \in Nat /\ f.throw = FALSE
  <2>1. f.throw \in BOOLEAN /\ ~f.throw
    BY <1>1, <1>2, FlowFields
  <2> QED BY <1>2, <2>1, FlowFields
<1>5. /\ i \in F /\ i >= f.next
      /\ Cardinality({j \in F : j >= i + 1}) = f.remain - 1
  <2>1. F \in SUBSET DOMAIN Clauses /\ RemainingFinallys(f) = {j \in F : j >= f.next}
    BY DEF FinallysBetween, RemainingFinallys
  <2>2. /\ i \in RemainingFinallys(f)
        /\ Cardinality({j \in F : j >= i + 1}) = Cardinality(RemainingFinallys(f)) - 1
    <3>1. WellNested(Clauses) /\ f.next \in Nat /\ RemainingFinallys(f) # {}
      BY <1>2, <1>3, <1>4
    <3> DEFINE R == RemainingFinallys(f)
               n == f.next
    <3>2. WellNested(Clauses) /\ n \in Nat /\ R # {} /\ R = {j \in F : j >= n}
      BY <2>1, <3>1
    <3>3. F \in SUBSET DOMAIN Clauses
      BY <2>1
    <3> HIDE DEF F, R, n
    <3>4. Min(R) \in R /\ Cardinality({j \in F : j >= Min(R) + 1}) = Cardinality(R) - 1
      BY <3>2, <3>3, FirstOfRest
    <3> QED BY <3>4 DEF R
  <2>3. f.remain = Cardinality({j \in F : j >= f.next})
    BY <1>2 DEF LeaveOK
  <2> QED BY <2>1, <2>2, <2>3
<1>6. i \in DOMAIN Clauses /\ i \in Nat
  BY <1>2, <1>5 DEF FinallysBetween
<1> HIDE DEF i
<1>7. /\ g \in LeaveFlows(program)
      /\ g.throw = FALSE /\ g.frame = Cur /\ g.src = f.src /\ g.target = f.target
      /\ g.clause = f.clause /\ g.next = i + 1 /\ g.remain = f.remain - 1
  <2>1. f \in LeaveFlows(program) /\ f.remain > 0 /\ i + 1 \in Nat /\ f.frame = Cur
    BY <1>2, <1>3, <1>4, <1>6
  <2> HIDE DEF f
  <2>2. f.remain - 1 \in Nat
    BY <2>1 DEF LeaveFlows
  <2> QED BY <2>1, <2>2 DEF LeaveFlows
<1> HIDE DEF g
<1>8. Owner(g) = Method /\ Executes(g) = i /\ g.clause # NoClause /\ g \in FlowSet(program)
  BY <1>2, <1>4, <1>6, <1>7 DEF Owner, Executes, FlowSet
<1>9. /\ flows'[Top] = g
      /\ Executing(flows', Top - 1, Cur) = Executing(flows, Top - 1, Cur)
      /\ \A cs, c : Reaches(cs, flows, Top - 1, Cur, c) => Reaches(cs, flows', Top - 1, Cur, c)
  BY <1>1, <1>3, TopFlowSet
<1>10. LeaveOK(m, flows', Top)
  <2>1. /\ f.src \in DOMAIN m.code
        /\ m.code[f.src].op = "leave"
        /\ m.code[f.src].target = f.target
        /\ f.clause[2] \in F
        /\ \A j \in F : f.clause[2] <= j
        /\ InnermostOrNone(Clauses, f.target, Executing(flows, Top - 1, Cur))
        /\ \A j \in F, c \in DOMAIN Clauses :
               Clauses[c].kind = "catch" /\ Clauses[j].handler \subseteq Clauses[c].try =>
                   Reaches(Clauses, flows, Top - 1, Cur, c)
    BY <1>2 DEF LeaveOK
  <2>2. \E e \in F : g.next = e + 1
    BY <1>5, <1>7
  <2>3. F = FinallysBetween(m.clauses, g.src, g.target)
    BY <1>2, <1>7
  <2> HIDE DEF F, f, m
  <2>4. g.remain = Cardinality({j \in F : j >= g.next})
    BY <1>5, <1>7
  <2>5. \A j \in F, c \in DOMAIN Clauses :
            Clauses[c].kind = "catch" /\ Clauses[j].handler \subseteq Clauses[c].try =>
                Reaches(Clauses, flows', Top - 1, Cur, c)
    BY <1>9, <2>1
  <2> QED BY <1>2, <1>7, <1>9, <2>1, <2>2, <2>3, <2>4, <2>5 DEF LeaveOK
<1>11. FlowOK(program, flows', Top)
  <2>1. f.clause[1] = Owner(f)
    BY <1>2, <1>4 DEF FlowOK
  <2> QED BY <1>2, <1>7, <1>8, <1>9, <1>10, <2>1 DEF FlowOK
<1> QED BY <1>1, <1>3, <1>6, <1>7, <1>8, <1>11, SetTopFlowKeeps

(* The clause that takes what is thrown. *)
LEMMA TakingFacts ==
    ASSUME ProgramsSupported, FlowsIInv, UnwindingThrow, NEW i \in DOMAIN Clauses, FirstTaking(i)
    PROVE  /\ outcome = "running" /\ mode = "unwind"
           /\ TopFlow = flows[Top] /\ flows[Top].throw = TRUE /\ flows[Top].frame = Cur
           /\ flows[Top] \in ThrowFlows(program)
           /\ flows[Top].at[1] = Method /\ flows[Top].handled = FALSE
           /\ flows[Top].at[2] \in Clauses[i].try /\ i >= flows[Top].next
           /\ flows[Top].next \in Nat /\ i \in Nat /\ Method \in DOMAIN program
           /\ ThrowOK(program[Method], flows, Top)
<1>1. outcome = "running" /\ mode = "unwind" /\ TopFlow.throw
  BY DEF UnwindingThrow
<1>2. /\ TopFlow = flows[Top] /\ flows[Top].frame = Cur
      /\ flows[Top] \in FlowSet(program)
      /\ Owner(flows[Top]) = Method
      /\ flows[Top].throw => ~flows[Top].handled /\ ThrowOK(program[Method], flows, Top)
      /\ DOMAIN Clauses \subseteq Nat \ {0} /\ Method \in DOMAIN program
  BY <1>1, UnwindFacts
<1>3. /\ flows[Top].throw \in BOOLEAN /\ flows[Top].next \in Nat
      /\ flows[Top] \in ThrowFlows(program) /\ flows[Top].handled \in BOOLEAN
  BY <1>1, <1>2, FlowFields
<1>4. flows[Top].at[2] \in Clauses[i].try /\ i >= flows[Top].next
  BY <1>2 DEF FirstTaking, ToSearch, Protecting
<1>5. flows[Top].at[1] = Method
  BY <1>1, <1>2 DEF Owner
<1> QED BY <1>1, <1>2, <1>3, <1>4, <1>5

LEMMA UnwindToBlockKeeps ==
    ASSUME ProgramsSupported, FlowsIInv, NEW kinds, kinds \subseteq {"filter", "finally", "fault"},
           UnwindToBlock(kinds)
    PROVE  FlowsIInv'
<1>1. PICK i \in DOMAIN Clauses :
          /\ FirstTaking(i) /\ Clauses[i].kind \in kinds
          /\ SetTopFlow(SearchFromNext(TopFlow, i)) /\ Goto(Clauses[i].entry)
  BY DEF UnwindToBlock
<1> DEFINE f == flows[Top]
           g == SearchFromNext(f, i)
           m == program[Method]
<1>2. UnwindingThrow /\ UNCHANGED <<program, frames, entries, outcome>>
  BY DEF UnwindToBlock
<1>3. /\ outcome = "running" /\ mode = "unwind"
      /\ TopFlow = f /\ f.throw = TRUE /\ f.frame = Cur /\ f \in ThrowFlows(program)
      /\ f.at[1] = Method /\ f.handled = FALSE
      /\ f.at[2] \in Clauses[i].try /\ i >= f.next
      /\ f.next \in Nat /\ i \in Nat /\ Method \in DOMAIN program
      /\ ThrowOK(m, flows, Top)
  BY <1>1, <1>2, TakingFacts
<1>4. /\ g \in ThrowFlows(program)
      /\ g.throw = TRUE /\ g.ex = f.ex /\ g.frame = Cur /\ g.at = f.at
      /\ g.next = i + 1 /\ g.clause = <<Method, i>> /\ g.handled = FALSE
  <2>1. /\ f \in ThrowFlows(program) /\ f.throw = TRUE /\ f.frame = Cur /\ f.handled = FALSE
        /\ i + 1 \in Nat /\ <<Method, i>> \in (DOMAIN program) \X Nat
    BY <1>3
  <2> HIDE DEF f
  <2>2. /\ g.throw = f.throw /\ g.ex = f.ex /\ g.frame = f.frame /\ g.at = f.at
        /\ g.next = i + 1 /\ g.clause = <<Method, i>> /\ g.handled = f.handled
    BY <2>1 DEF SearchFromNext, ThrowFlows
  <2>3. g \in ThrowFlows(program)
    BY <2>1 DEF SearchFromNext, ThrowFlows
  <2> HIDE DEF g
  <2> QED BY <2>1, <2>2, <2>3
<1>5. SetTopFlow(g) /\ ip' = Clauses[i].entry /\ mode' = "run"
  BY <1>1, <1>3 DEF Goto
<1> HIDE DEF g
<1>6. /\ flows'[Top] = g
      /\ Executing(flows', Top - 1, Cur) = Executing(flows, Top - 1, Cur)
      /\ \A cs, c : Reaches(cs, flows, Top - 1, Cur, c) => Reaches(cs, flows', Top - 1, Cur, c)
  BY <1>3, <1>5, TopFlowSet
<1>7. g \in FlowSet(program) /\ g.clause # NoClause /\ g.clause[1] = Method /\ g.clause[2] = i
  <2>1. g \in FlowSet(program) /\ g.clause[1] = Method /\ g.clause[2] = i
    BY <1>4 DEF FlowSet
  <2>2. Len(g.clause) = 2 /\ Len(NoClause) = 0
    BY <1>4 DEF NoClause
  <2> QED BY <2>1, <2>2
<1>8. Owner(g) = Method /\ Executes(g) = i
  BY <1>3, <1>4, <1>7 DEF Owner, Executes
<1>9. /\ WellNested(Clauses) /\ Supported(m) /\ DOMAIN Clauses \subseteq Nat \ {0}
      /\ Clauses = m.clauses
  <2>1. program \in Programs
    BY <1>3, UnwindFacts
  <2> QED BY <1>3, <2>1, MethodFacts DEF Clauses
<1>10. Clauses[i].kind # "catch"
  BY <1>1
<1>11. /\ f.at[2] \in DOMAIN m.code
       /\ \A c \in DOMAIN Clauses :
              Clauses[c].kind = "catch" /\ f.at[2] \in Clauses[c].try /\ c >= f.next =>
                  Reaches(Clauses, flows, Top - 1, Cur, c)
       /\ \A c \in DOMAIN Clauses :
              Clauses[c].kind = "filter" /\ f.at[2] \in Clauses[c].try /\ c >= f.next =>
                  Executing(flows, Top - 1, Cur) = 0
  BY <1>3, <1>9 DEF ThrowOK
<1>12. Clauses[i].kind = "filter" => Enclosing(Clauses, i, Executing(flows', Top - 1, Cur))
  <2>1. SUFFICES ASSUME Clauses[i].kind = "filter"
                 PROVE  Enclosing(Clauses, i, 0)
    BY <1>3, <1>6, <1>11
  <2>2. \A h \in DOMAIN Clauses : h # i => Clauses[i].entry \notin Clauses[h].handler
    <3>1. ASSUME NEW h \in DOMAIN Clauses, h # i, Clauses[i].entry \in Clauses[h].handler
          PROVE  FALSE
      <4>1. f.at[2] \in Clauses[h].handler
        BY <1>3, <1>9, <3>1, AroundEntry DEF Unit
      <4>2. Clauses[i].try \cap Clauses[h].handler = {}
        BY <1>9, <2>1 DEF Supported
      <4> QED BY <1>3, <4>1, <4>2
    <3> QED BY <3>1
  <2> QED BY <2>2 DEF Enclosing
<1>13. \A c \in DOMAIN Clauses : c >= i + 1 => c >= f.next
  BY <1>3, <1>9
<1>14. ThrowOK(m, flows', Top)
  <2>1. \A c \in DOMAIN Clauses :
            Clauses[c].kind = "catch" /\ f.at[2] \in Clauses[c].try /\ c >= i + 1 =>
                Reaches(Clauses, flows', Top - 1, Cur, c)
    BY <1>6, <1>11, <1>13
  <2>2. \A c \in DOMAIN Clauses :
            Clauses[c].kind = "filter" /\ f.at[2] \in Clauses[c].try /\ c >= i + 1 =>
                Executing(flows', Top - 1, Cur) = 0
    BY <1>6, <1>11, <1>13
  <2>3. Clauses[i].kind \in {"catch", "filter"} =>
            Enclosing(Clauses, i, Executing(flows', Top - 1, Cur))
    BY <1>10, <1>12
  <2>4. i \in DOMAIN Clauses /\ f.at[2] \in Clauses[i].try /\ f.at[2] \in DOMAIN m.code
    BY <1>3, <1>11
  <2> HIDE DEF f, m
  <2> QED BY <1>4, <1>6, <1>7, <1>9, <1>10, <2>1, <2>2, <2>3, <2>4 DEF ThrowOK
<1>15. FlowOK(program, flows', Top)
  BY <1>4, <1>6, <1>7, <1>8, <1>14 DEF FlowOK
<1> QED BY <1>2, <1>3, <1>4, <1>5, <1>7, <1>8, <1>15, SetTopFlowKeeps

LEMMA UnwindToFilterKeeps ==
    ASSUME ProgramsSupported, FlowsIInv, UnwindToFilter PROVE FlowsIInv'
BY UnwindToBlockKeeps DEF UnwindToFilter

LEMMA UnwindToCleanupKeeps ==
    ASSUME ProgramsSupported, FlowsIInv, UnwindToCleanup PROVE FlowsIInv'
BY UnwindToBlockKeeps DEF UnwindToCleanup

(* Popping for the entry of a catch clause stops where Reaches says. *)
LEMMA PopsTo ==
    ASSUME ProgramsSupported, FlowsIInv, outcome = "running", mode = "unwind",
           NEW i \in DOMAIN Clauses, Reaches(Clauses, flows, Top - 1, Cur, i),
           NEW fs, fs = PopOutOfScope(Front(flows), Clauses[i].entry)
    PROVE  \E r \in 0 .. Top - 1 :
               /\ fs \in Seq(FlowSet(program)) /\ Len(fs) = r
               /\ \A x \in 1 .. r : fs[x] = flows[x]
               /\ StopsAt(Clauses, flows, Top - 1, Cur, i, r)
<1> DEFINE p == Clauses[i].entry
           front == Front(flows)
           Keep == {x \in DOMAIN front : ~(front[x].frame = Cur /\ ~InHandler(front[x], p))}
<1>1. Top # 0 /\ Top \in Nat
  BY UnwindFacts
<1>2. /\ front \in Seq(FlowSet(program)) /\ Len(front) = Top - 1
      /\ \A x \in 1 .. Top - 1 : front[x] = flows[x]
      /\ \A x \in 1 .. Top - 1 : flows[x].clause # NoClause
      /\ Top - 1 \in Nat
  <2>1. Top - 1 \in Nat
    BY <1>1
  <2> QED BY <1>1, <2>1, FlowsFront
<1>3. DOMAIN front = 1 .. Top - 1
  BY <1>2
<1>4. \A x \in 1 .. Top - 1 :
          flows[x].frame = Cur => (InHandler(flows[x], p) <=> Covers(Clauses, flows[x], p))
  <2>1. /\ \A s \in 1 .. Top : Owner(flows[s]) = frames[flows[s].frame].method
        /\ \A s \in 1 .. Top : FlowOK(program, flows, s)
    BY StateFacts
  <2>2. \A s \in 1 .. Top - 1 : s \in 1 .. Top
    BY <1>1
  <2>3. ASSUME NEW x \in 1 .. Top - 1, flows[x].frame = Cur PROVE flows[x].clause[1] = Method
    BY <1>2, <2>1, <2>2, <2>3 DEF FlowOK, Method
  <2> QED BY <2>3 DEF InHandler, Covers, Clauses
<1>5. fs = SubSeq(front, 1, Max({0} \cup Keep))
  BY DEF PopOutOfScope, PopWhile
<1>6. PICK s \in 0 .. Top - 1 :
          /\ fs \in Seq(FlowSet(program)) /\ Len(fs) = s
          /\ \A x \in 1 .. s : fs[x] = front[x]
          /\ s = 0 \/ s \in Keep
          /\ \A x \in s + 1 .. Top - 1 : x \notin Keep
  <2>1. Keep \in SUBSET DOMAIN front /\ front \in Seq(FlowSet(program))
    BY <1>2
  <2> HIDE DEF Keep, front
  <2>2. \E s \in 0 .. Len(front) :
            /\ fs \in Seq(FlowSet(program)) /\ Len(fs) = s
            /\ \A x \in 1 .. s : fs[x] = front[x]
            /\ s = 0 \/ s \in Keep
            /\ \A x \in s + 1 .. Len(front) : x \notin Keep
    <3> DEFINE left == SubSeq(front, 1, Max({0} \cup Keep))
    <3>1. \E s \in 0 .. Len(front) :
              /\ left \in Seq(FlowSet(program)) /\ Len(left) = s
              /\ \A x \in 1 .. s : left[x] = front[x]
              /\ s = 0 \/ s \in Keep
              /\ \A x \in s + 1 .. Len(front) : x \notin Keep
      BY <2>1, Popped
    <3>2. fs = left
      BY <1>5
    <3> HIDE DEF left
    <3> QED BY <3>1, <3>2
  <2> QED BY <1>2, <2>2
<1>7. PICK r \in 0 .. Top - 1 : StopsAt(Clauses, flows, Top - 1, Cur, i, r)
  BY DEF Reaches
<1>8. /\ \A x \in r + 1 .. Top - 1 : flows[x].frame = Cur /\ ~Covers(Clauses, flows[x], p)
      /\ r = 0 \/ flows[r].frame # Cur \/ Covers(Clauses, flows[r], p)
  BY <1>7 DEF StopsAt
<1>9. \A x \in 1 .. Top - 1 :
          x \in Keep <=> ~(flows[x].frame = Cur /\ ~Covers(Clauses, flows[x], p))
  <2> HIDE DEF front, p
  <2> QED BY <1>2, <1>3, <1>4
<1> HIDE DEF Keep
<1>10. r = s
  <2>1. ASSUME r < s PROVE FALSE
    <3>1. s \in r + 1 .. Top - 1 /\ s \in 1 .. Top - 1 /\ s # 0
      BY <1>1, <2>1
    <3> QED BY <1>6, <1>8, <1>9, <3>1
  <2>2. ASSUME s < r PROVE FALSE
    <3>1. r \in s + 1 .. Top - 1 /\ r \in 1 .. Top - 1 /\ r # 0
      BY <1>1, <2>2
    <3> QED BY <1>6, <1>8, <1>9, <3>1
  <2> QED BY <2>1, <2>2
<1>11. \A x \in 1 .. s : fs[x] = flows[x]
  <2>1. \A x \in 1 .. s : x \in 1 .. Top - 1
    BY <1>1
  <2> QED BY <1>2, <1>6, <2>1
<1> QED BY <1>6, <1>7, <1>10, <1>11

(* What pops down to r for catch clause i pops no further for a later one. *)
LEMMA OuterCatchReaches ==
    ASSUME ProgramsSupported, FlowsIInv, outcome = "running", mode = "unwind",
           NEW r \in 0 .. Top - 1, NEW i \in DOMAIN Clauses, NEW c \in DOMAIN Clauses, NEW p,
           p \in Clauses[i].try, p \in Clauses[c].try, i < c, Clauses[c].kind = "catch",
           StopsAt(Clauses, flows, Top - 1, Cur, i, r),
           Reaches(Clauses, flows, Top - 1, Cur, c)
    PROVE  Reaches(Clauses, flows, r, Cur, c)
<1>1. PICK s \in 0 .. Top - 1 : StopsAt(Clauses, flows, Top - 1, Cur, c, s)
  BY DEF Reaches
<1>2. /\ Top \in Nat \ {0} /\ WellNested(Clauses) /\ DOMAIN Clauses \subseteq Nat \ {0}
  BY UnwindFacts
<1>3. s <= r
  <2>1. SUFFICES ASSUME r < s PROVE FALSE
    BY <1>2
  <2> DEFINE f == flows[s]
             q == f.clause[2]
  <2>2. s \in r + 1 .. Top - 1 /\ s \in 1 .. Top /\ s # 0 /\ s \in Nat \ {0} /\ s \in 1 .. Top - 1
    BY <1>2, <2>1
  <2>3. f.frame = Cur /\ ~Covers(Clauses, f, Clauses[i].entry)
    BY <2>2 DEF StopsAt
  <2>4. Covers(Clauses, f, Clauses[c].entry) /\ Enclosing(Clauses, c, Executing(flows, s, Cur))
    BY <1>1, <2>2, <2>3 DEF StopsAt
  <2>5. f.clause # NoClause /\ Clauses[c].entry \in Clauses[q].handler
        /\ Clauses[i].entry \notin Clauses[q].handler
    BY <2>3, <2>4 DEF Covers
  <2>6. /\ f \in FlowSet(program) /\ FlowOK(program, flows, s) /\ Owner(f) = Method
    BY <2>2, <2>3, StateFacts DEF Method
  <2>7. /\ Executes(f) \in DOMAIN Clauses /\ q \in DOMAIN Clauses
        /\ f.throw => q = Executes(f)
        /\ ~f.throw => f.clause[2] \in FinallysBetween(Clauses, f.src, f.target)
    <3>1. WellNested(program[Owner(f)].clauses)
      BY <1>2, <2>6 DEF Clauses
    <3>2. ~f.throw => f.clause[2] \in FinallysBetween(Clauses, f.src, f.target)
      BY <2>6 DEF FlowOK, LeaveOK, Clauses
    <3>3. s \in Nat \ {0} /\ f.clause # NoClause
      BY <2>2, <2>5
    <3>4. /\ Executes(f) \in DOMAIN program[Owner(f)].clauses
          /\ f.clause[2] \in DOMAIN program[Owner(f)].clauses
          /\ f.throw => f.clause[2] = Executes(f)
      <4> HIDE DEF q
      <4> QED BY <2>6, <3>1, <3>3, Executed
    <3> QED BY <2>6, <3>2, <3>4 DEF Clauses
  <2>8. q # c
    <3>1. CASE f.throw
      <4>1. Executing(flows, s, Cur) = q /\ q # 0
        BY <1>2, <2>2, <2>3, <2>7, <3>1 DEF Executing
      <4> QED BY <2>4, <4>1 DEF Enclosing
    <3>2. CASE ~f.throw
      BY <2>7, <3>2 DEF FinallysBetween
    <3> QED BY <3>1, <3>2
  <2>9. c < q /\ Unit(Clauses[c]) \subseteq Clauses[q].handler
    BY <1>2, <2>5, <2>7, <2>8, AroundEntry
  <2>10. p \in Clauses[q].handler
    BY <2>9 DEF Unit
  <2>11. \/ i < q /\ Unit(Clauses[i]) \subseteq Clauses[q].handler
         \/ q < i /\ Unit(Clauses[q]) \subseteq Clauses[i].try
    BY <1>2, <2>7, <2>10, TryMeetsHandler
  <2>12. Clauses[i].entry \in Unit(Clauses[i])
    BY <1>2 DEF WellNested, Unit
  <2> HIDE DEF q
  <2> QED BY <1>2, <2>5, <2>7, <2>9, <2>11, <2>12
<1>4. StopsAt(Clauses, flows, r, Cur, c, s) /\ s \in 0 .. r
  <2>1. s \in 0 .. r /\ \A x \in s + 1 .. r : x \in s + 1 .. Top - 1
    BY <1>2, <1>3
  <2> QED BY <1>1, <2>1 DEF StopsAt
<1> QED BY <1>4 DEF Reaches

LEMMA UnwindToCatchKeeps ==
    ASSUME ProgramsSupported, FlowsIInv, UnwindToCatch PROVE FlowsIInv'
<1> DEFINE f == flows[Top]
           m == program[Method]
<1>1. UnwindingThrow /\ UNCHANGED <<program, frames, entries, outcome>>
  BY DEF UnwindToCatch
<1>2. PICK i \in DOMAIN Clauses :
          /\ FirstTaking(i) /\ Clauses[i].kind = "catch" /\ Goto(Clauses[i].entry)
          /\ flows' = Append(PopOutOfScope(Front(flows), Clauses[i].entry),
                          [TopFlow EXCEPT !.next = i + 1, !.clause = <<Method, i>>,
                                          !.handled = TRUE])
  BY DEF UnwindToCatch
<1> DEFINE g == [f EXCEPT !.next = i + 1, !.clause = <<Method, i>>, !.handled = TRUE]
           fs == PopOutOfScope(Front(flows), Clauses[i].entry)
<1>3. /\ outcome = "running" /\ mode = "unwind"
      /\ TopFlow = f /\ f.throw = TRUE /\ f.frame = Cur /\ f \in ThrowFlows(program)
      /\ f.at[1] = Method
      /\ f.at[2] \in Clauses[i].try /\ i >= f.next
      /\ f.next \in Nat /\ i \in Nat /\ Method \in DOMAIN program
      /\ ThrowOK(m, flows, Top)
  BY <1>1, <1>2, TakingFacts
<1>4. /\ g \in ThrowFlows(program)
      /\ g.throw = TRUE /\ g.ex = f.ex /\ g.frame = Cur /\ g.at = f.at
      /\ g.next = i + 1 /\ g.clause = <<Method, i>> /\ g.handled = TRUE
  <2>1. /\ f \in ThrowFlows(program) /\ f.throw = TRUE /\ f.frame = Cur
        /\ i + 1 \in Nat /\ <<Method, i>> \in (DOMAIN program) \X Nat
    BY <1>3
  <2> HIDE DEF f
  <2>2. /\ g.throw = f.throw /\ g.ex = f.ex /\ g.frame = f.frame /\ g.at = f.at
        /\ g.next = i + 1 /\ g.clause = <<Method, i>> /\ g.handled = TRUE
    BY <2>1 DEF ThrowFlows
  <2>3. g \in ThrowFlows(program)
    BY <2>1 DEF ThrowFlows
  <2> HIDE DEF g
  <2> QED BY <2>1, <2>2, <2>3
<1>5. flows' = Append(fs, g) /\ ip' = Clauses[i].entry /\ mode' = "run"
  BY <1>2, <1>3 DEF Goto
<1> HIDE DEF g
<1>6. g \in FlowSet(program) /\ g.clause # NoClause /\ g.clause[1] = Method /\ g.clause[2] = i
  <2>1. g \in FlowSet(program) /\ g.clause[1] = Method /\ g.clause[2] = i
    BY <1>4 DEF FlowSet
  <2>2. Len(g.clause) = 2 /\ Len(NoClause) = 0
    BY <1>4 DEF NoClause
  <2> QED BY <2>1, <2>2
<1>7. Owner(g) = Method /\ Executes(g) = i
  BY <1>3, <1>4, <1>6 DEF Owner, Executes
<1>8. /\ Clauses = m.clauses
      /\ f.at[2] \in DOMAIN m.code
      /\ \A c \in DOMAIN Clauses :
             Clauses[c].kind = "catch" /\ f.at[2] \in Clauses[c].try /\ c >= f.next =>
                 Reaches(Clauses, flows, Top - 1, Cur, c)
  BY <1>3 DEF ThrowOK, Clauses
<1>9. PICK r \in 0 .. Top - 1 :
          /\ fs \in Seq(FlowSet(program)) /\ Len(fs) = r
          /\ \A x \in 1 .. r : fs[x] = flows[x]
          /\ StopsAt(Clauses, flows, Top - 1, Cur, i, r)
  <2>1. Reaches(Clauses, flows, Top - 1, Cur, i)
    BY <1>2, <1>3, <1>8
  <2> HIDE DEF fs
  <2>2. fs = PopOutOfScope(Front(flows), Clauses[i].entry)
    BY DEF fs
  <2> QED BY <1>3, <2>1, <2>2, PopsTo
<1> HIDE DEF fs
<1>10. /\ flows' \in Seq(FlowSet(program)) /\ Top' = r + 1
       /\ \A x \in 1 .. r : flows'[x] = flows[x]
       /\ flows'[r + 1] = g
  BY <1>5, <1>6, <1>9, AppendProperties DEF Top
<1>11. Top \in Nat \ {0} /\ r \in Nat /\ r \in 0 .. Top /\ (r + 1) - 1 = r
       /\ DOMAIN Clauses \subseteq Nat
  BY <1>3, UnwindFacts
<1>12. \A x \in 1 .. r : flows[x].clause # NoClause
  <2>1. Top # 0 /\ \A x \in 1 .. r : x \in 1 .. Top - 1
    BY <1>11
  <2> QED BY <1>3, <2>1, FlowsFront
<1>13. \A x \in r + 1 .. Top : flows[x].frame = Cur
  <2>1. \A x \in r + 1 .. Top : x \in r + 1 .. Top - 1 \/ x = Top
    BY <1>11
  <2> QED BY <1>3, <1>9, <2>1 DEF StopsAt
<1>14. ThrowOK(m, flows', r + 1)
  <2>1. Enclosing(Clauses, i, Executing(flows', r, Cur))
    <3>1. Enclosing(Clauses, i, Executing(flows, r, Cur))
      BY <1>9 DEF StopsAt
    <3>2. Executing(flows', r, Cur) = Executing(flows, r, Cur)
      BY <1>10, <1>11, ExecutingSame
    <3> QED BY <3>1, <3>2
  <2>2. ASSUME NEW c \in DOMAIN Clauses, Clauses[c].kind = "catch",
               f.at[2] \in Clauses[c].try, c >= i + 1
        PROVE  Reaches(Clauses, flows', r, Cur, c)
    <3>1. i < c /\ c >= f.next
      BY <1>3, <1>11, <2>2
    <3>2. Reaches(Clauses, flows, Top - 1, Cur, c)
      BY <1>8, <2>2, <3>1
    <3>3. Reaches(Clauses, flows, r, Cur, c)
      BY <1>3, <1>9, <2>2, <3>1, <3>2, OuterCatchReaches
    <3> QED BY <1>10, <1>11, <3>3, ReachesSame
  <2>3. f.at[2] \in Clauses[i].try /\ i \in DOMAIN Clauses
    BY <1>3
  <2> DEFINE s == r + 1
  <2>4. s - 1 = r /\ flows'[s] = g
    BY <1>10, <1>11
  <2>5. Enclosing(Clauses, i, Executing(flows', s - 1, Cur))
    BY <2>1, <2>4
  <2>6. \A c \in DOMAIN Clauses :
            Clauses[c].kind = "catch" /\ f.at[2] \in Clauses[c].try /\ c >= i + 1 =>
                Reaches(Clauses, flows', s - 1, Cur, c)
    BY <2>2, <2>4
  <2>7. f.at[2] \in DOMAIN m.code
    BY <1>8
  <2> HIDE DEF f, m, s
  <2>8. ThrowOK(m, flows', s)
    BY <1>2, <1>4, <1>6, <1>8, <2>3, <2>4, <2>5, <2>6, <2>7 DEF ThrowOK
  <2> QED BY <2>8 DEF s
<1>15. FlowOK(program, flows', r + 1)
  BY <1>4, <1>6, <1>7, <1>10, <1>14 DEF FlowOK
<1> QED BY <1>1, <1>3, <1>4, <1>5, <1>6, <1>7, <1>10, <1>11, <1>12, <1>13, <1>15, EnterKeeps

(* PopFrameFlows leaves the flows of the callers. *)
LEMMA FrameFlowsPopped ==
    ASSUME ProgramsSupported, FlowsIInv, outcome = "running", mode = "unwind",
           NEW fs, fs = PopFrameFlows(flows)
    PROVE  \E r \in 0 .. Top - 1 :
               /\ fs \in Seq(FlowSet(program)) /\ Len(fs) = r
               /\ \A x \in 1 .. r : fs[x] = flows[x]
               /\ \A x \in 1 .. r : flows[x].frame \in 1 .. Cur - 1
               /\ \A x \in 1 .. r : flows[x].clause # NoClause
               /\ \A x \in r + 1 .. Top : flows[x].frame = Cur
<1> DEFINE Keep == {x \in DOMAIN flows : ~(flows[x].frame = Cur)}
           left == SubSeq(flows, 1, Max({0} \cup Keep))
<1>1. /\ Top \in Nat \ {0} /\ flows[Top].frame = Cur
      /\ flows \in Seq(FlowSet(program)) /\ Len(flows) = Top /\ DOMAIN flows = 1 .. Top
  BY UnwindFacts, StateFacts DEF FlowsIInv, FramesTyped, Top
<1>2. \E r \in 0 .. Len(flows) :
          /\ left \in Seq(FlowSet(program)) /\ Len(left) = r
          /\ \A x \in 1 .. r : left[x] = flows[x]
          /\ r = 0 \/ r \in Keep
          /\ \A x \in r + 1 .. Len(flows) : x \notin Keep
  <2>1. Keep \in SUBSET DOMAIN flows /\ flows \in Seq(FlowSet(program))
    BY <1>1
  <2> HIDE DEF Keep
  <2> QED BY <2>1, Popped
<1>3. fs = left
  BY DEF PopFrameFlows, PopWhile
<1> HIDE DEF left
<1>4. PICK r \in 0 .. Top :
          /\ fs \in Seq(FlowSet(program)) /\ Len(fs) = r
          /\ \A x \in 1 .. r : fs[x] = flows[x]
          /\ r = 0 \/ r \in Keep
          /\ \A x \in r + 1 .. Top : x \notin Keep
  BY <1>1, <1>2, <1>3
<1>5. r # 0 => flows[r].frame # Cur
  BY <1>4
<1>6. \A x \in r + 1 .. Top : flows[x].frame = Cur
  BY <1>1, <1>4
<1> HIDE DEF Keep
<1>7. r \in 0 .. Top - 1 /\ r \in Nat
  BY <1>1, <1>5
<1>8. /\ \A x \in 1 .. Top : flows[x].frame \in 1 .. Cur /\ Cur \in Nat
      /\ \A x, y \in 1 .. Top : x < y => flows[x].frame <= flows[y].frame
  BY <1>1, StateFacts DEF FlowsIInv, FlowsKept
<1>9. ASSUME NEW x \in 1 .. r PROVE flows[x].frame \in 1 .. Cur - 1
  <2>1. r \in 1 .. Top /\ x \in 1 .. Top /\ x <= r /\ r # 0
    BY <1>1, <1>7
  <2>2. flows[r].frame \in 1 .. Cur - 1
    BY <1>5, <1>8, <2>1
  <2>3. x = r \/ flows[x].frame <= flows[r].frame
    BY <1>8, <2>1
  <2>4. flows[x].frame \in 1 .. Cur
    BY <1>8, <2>1
  <2> QED BY <1>8, <2>2, <2>3, <2>4
<1>10. \A x \in 1 .. r : flows[x].clause # NoClause
  <2>1. Top # 0 /\ \A x \in 1 .. r : x \in 1 .. Top - 1
    BY <1>1, <1>7
  <2> QED BY <2>1, FlowsFront
<1> QED BY <1>4, <1>6, <1>7, <1>9, <1>10

LEMMA UnwindToCallerKeeps ==
    ASSUME ProgramsSupported, FlowsIInv, UnwindToCaller PROVE FlowsIInv'
<1> DEFINE fs == PopFrameFlows(flows)
           k == Cur - 1
           m == program[frames[k].method]
           new == ThrowFlow(TopFlow.ex, k, <<frames[k].method, frames[k].ip>>)
<1>1. /\ outcome = "running" /\ mode = "unwind" /\ TopFlow.throw
      /\ Cur # Last(entries).base
      /\ flows' = Append(fs, new) /\ ip' = frames[k].ip /\ frames' = Front(frames)
      /\ UNCHANGED <<program, entries, mode, outcome>>
  BY DEF UnwindToCaller, UnwindingThrow
<1>2. /\ Cur \in Nat \ {0} /\ DOMAIN frames = 1 .. Cur
      /\ \A j \in 1 .. Cur : frames[j].method \in DOMAIN program
      /\ Depth \in Nat \ {0} /\ DOMAIN entries = 1 .. Depth
      /\ program \in Programs
  BY <1>1, StateFacts
<1>3. /\ Last(entries).base \in 1 .. Cur /\ Last(entries) = entries[Depth]
      /\ \A e \in 1 .. Depth : e < Depth => entries[e].base < Last(entries).base
      /\ \A e \in 1 .. Depth : entries[e].base \in 1 .. Cur
  BY <1>1, LastEntry, StateFacts
<1>4. Cur > 1 /\ Last(entries).base <= k /\ k \in Nat \ {0} /\ k \in 1 .. Cur /\ k < Cur
  BY <1>1, <1>2, <1>3
<1>5. frames[k].ip \in DOMAIN m.code /\ frames[k].ip \in Nat /\ frames[k].method \in DOMAIN program
  <2>1. k \in DOMAIN frames
    BY <1>2, <1>4
  <2>2. frames[k].ip \in DOMAIN m.code /\ frames[k].method \in DOMAIN program
    BY <1>2, <1>4, <2>1 DEF FlowsIInv, FramesTyped
  <2>3. DOMAIN m.code \subseteq Nat
    BY <1>2, <2>2, MethodFacts
  <2> QED BY <2>2, <2>3
<1>6. Placed(m, flows, k, frames[k].ip)
  <2>1. \A e \in 1 .. Depth : entries[e].base # Cur
    BY <1>1, <1>2, <1>3
  <2>2. \A e \in DOMAIN entries : entries[e].base # k + 1
    BY <1>2, <2>1
  <2>3. k \in DOMAIN frames /\ k < Len(frames)
    BY <1>2, <1>4 DEF Cur
  <2> QED BY <2>2, <2>3 DEF FlowsIInv, CallersPlaced
<1>7. FramesUpTo(k)
  BY <1>1, <1>4, <1>5, FrameEnds
<1>8. EntriesUpTo(k)
  <2>1. k \in Nat
    BY <1>4
  <2> QED BY <1>1, <1>4, <2>1, EntriesStay
<1> HIDE DEF fs
<1>9. PICK r \in 0 .. Top - 1 :
          /\ fs \in Seq(FlowSet(program)) /\ Len(fs) = r
          /\ \A x \in 1 .. r : fs[x] = flows[x]
          /\ \A x \in 1 .. r : flows[x].frame \in 1 .. Cur - 1
          /\ \A x \in 1 .. r : flows[x].clause # NoClause
          /\ \A x \in r + 1 .. Top : flows[x].frame = Cur
  BY <1>1, FrameFlowsPopped DEF fs
<1>10. Top \in Nat \ {0} /\ r \in Nat /\ r \in 0 .. Top /\ TopFlow.ex \in Exceptions
  <2>1. Top \in Nat \ {0} /\ TopFlow = flows[Top] /\ flows[Top] \in FlowSet(program)
    BY <1>1, UnwindFacts
  <2> QED BY <1>1, <2>1, FlowFields
<1>11. new \in FlowSet(program)
  BY <1>4, <1>5, <1>10, ThrowFlowType
<1> HIDE DEF new
<1>12. /\ flows' \in Seq(FlowSet(program)) /\ Top' = r + 1
       /\ \A x \in 1 .. r : flows'[x] = flows[x]
       /\ flows'[r + 1] = new
  BY <1>1, <1>9, <1>11, AppendProperties DEF Top
<1>13. FlowsUpTo(k, r)
  <2>1. \A x \in 1 .. r : flows[x].frame <= k
    BY <1>4, <1>9
  <2>2. \A x \in r + 1 .. Top : flows[x].frame >= k
    BY <1>4, <1>9
  <2> QED BY <1>9, <1>12, <2>1, <2>2 DEF FlowsUpTo
<1>14. InnermostOrNone(m.clauses, ip', Executing(flows, r, k))
  <2>1. \A x \in 1 .. r : flows[x].frame <= k
    BY <1>4, <1>9
  <2>2. \A x \in r + 1 .. Top : flows[x].frame > k
    BY <1>4, <1>9
  <2> HIDE DEF k, m
  <2> QED BY <1>1, <1>6, <1>10, <2>1, <2>2, PlacedAt
<1>15. flows'[r + 1] = ThrowFlow(TopFlow.ex, k, <<frames[k].method, ip'>>)
  BY <1>1, <1>12 DEF new
<1> QED BY <1>1, <1>4, <1>7, <1>8, <1>10, <1>12, <1>13, <1>14, <1>15, ThrownOn

LEMMA UnwindOutKeeps ==
    ASSUME ProgramsSupported, FlowsIInv, UnwindToNative, Depth = 1 PROVE FlowsIInv'
<1>1. /\ outcome = "running" /\ mode = "unwind" /\ TopFlow.throw /\ program' = program
      /\ Cur = Last(entries).base /\ entries' = Front(entries)
      /\ flows' = PopFrameFlows(flows) /\ frames' = Front(frames)
      /\ outcome' = TopFlow.ex /\ ip' = 1 /\ mode' = "run"
  BY DEF UnwindToNative, UnwindingThrow, Goto, Depth
<1>2. Cur = 1
  BY <1>1, LastEntry
<1>3. /\ frames \in Seq(FrameSet(program)) /\ entries \in Seq([base : Nat, ip : Nat])
  BY DEF FlowsIInv, FramesTyped
<1>4. frames' = <<>> /\ entries' = <<>>
  BY <1>1, <1>2, <1>3 DEF Front, Cur, Depth
<1>5. flows' = <<>>
  <2>1. PICK r \in 0 .. Top - 1 :
            /\ flows' \in Seq(FlowSet(program)) /\ Len(flows') = r
            /\ \A x \in 1 .. r : flows[x].frame \in 1 .. Cur - 1
    BY <1>1, FrameFlowsPopped
  <2>2. r \in Nat
    BY <1>1, UnwindFacts
  <2>3. r = 0
    <3>1. SUFFICES ASSUME r # 0 PROVE FALSE
      OBVIOUS
    <3>2. r \in 1 .. r
      BY <2>2, <3>1
    <3>3. flows[r].frame \in 1 .. 0
      BY <1>2, <2>1, <3>2
    <3> QED BY <3>3
  <2> QED BY <2>1, <2>3
<1>6. TopFlow.ex \in Exceptions
  <2>1. TopFlow = flows[Top] /\ flows[Top] \in FlowSet(program)
    BY <1>1, UnwindFacts
  <2> QED BY <1>1, <2>1, FlowFields
<1> QED BY <1>1, <1>4, <1>5, <1>6, EndedKeeps

LEMMA UnwindToOuterKeeps ==
    ASSUME ProgramsSupported, FlowsIInv, UnwindToNative, Depth > 1 PROVE FlowsIInv'
<1> DEFINE fs == PopFrameFlows(flows)
           frs == Front(frames)
           k == Cur - 1
           m == program[frames[k].method]
           p == Last(entries).ip
           ex == TopFlow.ex
<1>1. /\ outcome = "running" /\ mode = "unwind" /\ TopFlow.throw
      /\ Cur = Last(entries).base /\ entries' = Front(entries)
      /\ RaiseAt(fs, frs, p, ex) /\ UNCHANGED <<program, outcome>>
  <2>1. Depth # 1
    BY UnwindFacts, StateFacts DEF UnwindToNative, UnwindingThrow
  <2> QED BY <2>1 DEF UnwindToNative, UnwindingThrow, Depth
<1>2. /\ Cur \in Nat \ {0} /\ \A j \in 1 .. Cur : frames[j].method \in DOMAIN program
      /\ program \in Programs
  BY <1>1, StateFacts
<1>3. /\ k \in 1 .. Cur /\ p \in DOMAIN m.code /\ m.code[p].op = "invoke"
      /\ Placed(m, flows, k, p)
  BY <1>1, LastEntry
<1>4. Cur > 1 /\ k \in Nat \ {0} /\ k < Cur /\ frames[k].method \in DOMAIN program
  BY <1>2, <1>3
<1>5. p \in Nat
  BY <1>1, LastEntry
<1>6. EntriesUpTo(k)
  BY <1>1, EntryEnds
<1>7. frs \in Seq(FrameSet(program)) /\ Len(frs) = k /\ \A j \in 1 .. k : frs[j] = frames[j]
  <2>1. frames \in Seq(FrameSet(program)) /\ Len(frames) = Cur
    BY DEF FlowsIInv, FramesTyped, Cur
  <2> QED BY <1>2, <2>1, FrontOf
<1> HIDE DEF fs
<1>8. PICK r \in 0 .. Top - 1 :
          /\ fs \in Seq(FlowSet(program)) /\ Len(fs) = r
          /\ \A x \in 1 .. r : fs[x] = flows[x]
          /\ \A x \in 1 .. r : flows[x].frame \in 1 .. Cur - 1
          /\ \A x \in 1 .. r : flows[x].clause # NoClause
          /\ \A x \in r + 1 .. Top : flows[x].frame = Cur
  BY <1>1, FrameFlowsPopped DEF fs
<1>9. Top \in Nat \ {0} /\ r \in Nat /\ r \in 0 .. Top /\ ex \in Exceptions
  <2>1. Top \in Nat \ {0} /\ TopFlow = flows[Top] /\ flows[Top] \in FlowSet(program)
    BY <1>1, UnwindFacts
  <2> QED BY <1>1, <2>1, FlowFields
<1>10. /\ \A x \in 1 .. r : flows[x].frame <= k
       /\ \A x \in r + 1 .. Top : flows[x].frame >= k /\ flows[x].frame > k
  <2>1. Cur - 1 \in Nat /\ k = Cur - 1 /\ Cur \in Nat
    BY <1>2, <1>4
  <2>2. \A x \in 1 .. r : flows[x].frame <= Cur - 1
    BY <1>8, <2>1
  <2>3. \A x \in r + 1 .. Top : flows[x].frame >= Cur - 1 /\ flows[x].frame > Cur - 1
    BY <1>8, <2>1
  <2> QED BY <2>2, <2>3
<1>11. InnermostOrNone(m.clauses, p, Executing(flows, r, k))
  <2> HIDE DEF k, m, p
  <2> QED BY <1>3, <1>9, <1>10, PlacedAt
<1>12. /\ mode' = "unwind" /\ ip' = p
       /\ \/ InFilterCheck(fs, k) /\ flows' = fs /\ frames' = frs
          \/ /\ flows' = Append(fs, ThrowFlow(ex, k, <<frs[k].method, p>>))
             /\ frames' = [frs EXCEPT ![k].ip = p]
  <2> HIDE DEF frs, p, ex, k
  <2> QED BY <1>1, <1>7 DEF RaiseAt
<1>13. CASE InFilterCheck(fs, k) /\ flows' = fs /\ frames' = frs
  <2>1. FramesUpTo(k)
    BY <1>1, <1>3, <1>4, <1>12, <1>13, FrameEnds
  <2>2. flows' \in Seq(FlowSet(program)) /\ Top' = r
    BY <1>8, <1>13 DEF Top
  <2>3. FlowsUpTo(k, r)
    BY <1>8, <1>10, <1>13, <2>2 DEF FlowsUpTo
  <2>4. Top' # r + 1
    BY <1>9, <2>2
  <2>5. StepUpTo(k, r)
    BY <1>1, <1>6, <1>12, <2>1, <2>3, <2>4 DEF StepUpTo, Pushed
  <2>6. r # 0 /\ fs[r].frame = k /\ ~fs[r].handled
    <3>1. fs # <<>> /\ Last(fs).frame = k /\ ~Last(fs).handled
      BY <1>13 DEF InFilterCheck
    <3>2. r # 0
      BY <1>8, <3>1
    <3> QED BY <1>8, <3>1, <3>2 DEF Last
  <2> QED BY <1>1, <1>3, <1>9, <1>12, <1>13, <2>2, <2>5, <2>6, UnwindsOn
<1>14. CASE /\ flows' = Append(fs, ThrowFlow(ex, k, <<frs[k].method, p>>))
            /\ frames' = [frs EXCEPT ![k].ip = p]
  <2>1. k \in 1 .. k /\ frs[k] = frames[k]
    <3>1. k \in 1 .. k
      <4>1. k \in Nat \ {0}
        BY <1>4
      <4> HIDE DEF k
      <4> QED BY <4>1
    <3> HIDE DEF frs, k
    <3> QED BY <1>7, <3>1
  <2> DEFINE f == [frs[k] EXCEPT !.ip = p]
             new == ThrowFlow(ex, k, <<frames[k].method, p>>)
             grs == frames'
  <2>2. grs = [frs EXCEPT ![k] = f]
    BY <1>14
  <2>3. f \in FrameSet(program) /\ f.method = frames[k].method /\ f.ip = p
    <3>1. frs[k] \in FrameSet(program)
      BY <1>7, <2>1, ElementOfSeq
    <3> HIDE DEF frs, p, k
    <3> QED BY <1>5, <2>1, <3>1 DEF FrameSet
  <2> HIDE DEF f, frs, grs
  <2>4. /\ grs \in Seq(FrameSet(program)) /\ Len(grs) = Len(frs)
        /\ \A j \in 1 .. Len(frs) : grs[j].method = frs[j].method
        /\ \A j \in 1 .. Len(frs) : j # k => grs[j] = frs[j]
        /\ grs[k] = f
    <3>1. k \in 1 .. Len(frs) /\ f.method = frs[k].method
      BY <1>7, <2>1, <2>3
    <3> HIDE DEF k
    <3> QED BY <1>7, <2>2, <2>3, <3>1, IpSaved
  <2>5. FramesUpTo(k)
    <3>1. \A j \in 1 .. k : frames'[j].method = frames[j].method
      BY <1>7, <2>4 DEF grs
    <3>2. \A j \in 1 .. k : j < k => frames'[j].ip = frames[j].ip
      BY <1>7, <2>4 DEF grs
    <3>3. frames' \in Seq(FrameSet(program)) /\ Cur' = k /\ frames'[k].ip = p
      BY <1>7, <2>3, <2>4 DEF grs, Cur
    <3> HIDE DEF k
    <3> QED BY <1>3, <1>12, <3>1, <3>2, <3>3 DEF FramesUpTo
  <2>6. new \in FlowSet(program)
    BY <1>4, <1>5, <1>9, ThrowFlowType
  <2>7. flows' = Append(fs, new) /\ new = ThrowFlow(ex, k, <<frames[k].method, ip'>>)
    BY <1>12, <1>14, <2>1
  <2> HIDE DEF new
  <2>8. /\ flows' \in Seq(FlowSet(program)) /\ Top' = r + 1
        /\ \A x \in 1 .. r : flows'[x] = flows[x]
        /\ flows'[r + 1] = new
    BY <1>8, <2>6, <2>7, AppendProperties DEF Top
  <2>9. FlowsUpTo(k, r)
    <3> HIDE DEF k
    <3> QED BY <1>8, <1>10, <2>8 DEF FlowsUpTo
  <2>10. InnermostOrNone(m.clauses, ip', Executing(flows, r, k))
    BY <1>11, <1>12
  <2> QED BY <1>1, <1>3, <1>6, <1>9, <1>12, <2>5, <2>7, <2>8, <2>9, <2>10, ThrownOn
<1> QED BY <1>12, <1>13, <1>14

LEMMA UnwindToNativeKeeps ==
    ASSUME ProgramsSupported, FlowsIInv, UnwindToNative PROVE FlowsIInv'
<1>1. outcome = "running"
  BY DEF UnwindToNative, UnwindingThrow
<1>2. Depth \in Nat \ {0}
  BY <1>1, StateFacts
<1>3. Depth = 1 \/ Depth > 1
  BY <1>2
<1> QED BY <1>3, UnwindOutKeeps, UnwindToOuterKeeps
------------------------------------------------------------------------------
LEMMA StutterKeeps ==
    ASSUME FlowsIInv, UNCHANGED vars PROVE FlowsIInv'
<1>1. /\ program' = program /\ frames' = frames /\ ip' = ip /\ entries' = entries
      /\ flows' = flows /\ mode' = mode /\ outcome' = outcome
  BY DEF vars
<1>2. Cur' = Cur /\ Method' = Method /\ TopFlow' = TopFlow /\ Running' = Running
  BY <1>1 DEF Cur, Method, TopFlow, Running
<1>3. FramesTyped'
  BY <1>1, <1>2 DEF FlowsIInv, FramesTyped
<1>4. /\ EntriesNested(program', frames', entries') /\ FlowsKept(program', frames', flows')
      /\ CallersPlaced(program', frames', entries', flows')
  BY <1>1 DEF FlowsIInv
<1>5. CurrentPlaced' /\ HaveClauses' /\ UnwindsTop'
  BY <1>1, <1>2 DEF FlowsIInv, CurrentPlaced, HaveClauses, UnwindsTop
<1> QED BY <1>3, <1>4, <1>5 DEF FlowsIInv

(* FlowsIInv is an invariant: throws, leaves, calls and returns keep the   *)
(* flows in step with the handlers that the frames are in.                 *)
THEOREM FlowsInvariance == ASSUME ProgramsSupported PROVE Spec => []FlowsIInv
<1>1. Init => FlowsIInv
  BY InitKeeps
<1>2. ASSUME FlowsIInv, [Next]_vars PROVE FlowsIInv'
  <2>1. CASE UNCHANGED vars
    BY <1>2, <2>1, StutterKeeps
  <2>2. CASE Proceed
    BY <1>2, <2>2, ProceedKeeps
  <2>3. CASE RaiseFromInstruction
    BY <1>2, <2>3, RaiseFromInstructionKeeps
  <2>4. CASE Rethrow
    BY <1>2, <2>4, RethrowKeeps
  <2>5. CASE Call
    BY <1>2, <2>5, CallKeeps
  <2>6. CASE Invoke
    BY <1>2, <2>6, InvokeKeeps
  <2>7. CASE CallOverflows
    BY <1>2, <2>7, CallOverflowsKeeps
  <2>8. CASE Ret
    BY <1>2, <2>8, RetKeeps
  <2>9. CASE LeaveByBranch
    BY <1>2, <2>9, LeaveByBranchKeeps
  <2>10. CASE LeaveTryWithFinally
    BY <1>2, <2>10, LeaveTryWithFinallyKeeps
  <2>11. CASE LeaveCatchWithFinally
    BY <1>2, <2>11, LeaveCatchWithFinallyKeeps
  <2>12. CASE LeaveCatchWithoutFinally
    BY <1>2, <2>12, LeaveCatchWithoutFinallyKeeps
  <2>13. CASE EndFinally
    BY <1>2, <2>13, EndFinallyKeeps
  <2>14. CASE UnwindToCatch
    BY <1>2, <2>14, UnwindToCatchKeeps
  <2>15. CASE UnwindToFilter
    BY <1>2, <2>15, UnwindToFilterKeeps
  <2>16. CASE UnwindToCleanup
    BY <1>2, <2>16, UnwindToCleanupKeeps
  <2>17. CASE UnwindToCaller
    BY <1>2, <2>17, UnwindToCallerKeeps
  <2>18. CASE UnwindToNative
    BY <1>2, <2>18, UnwindToNativeKeeps
  <2>19. CASE FinishLeave
    BY <1>2, <2>19, FinishLeaveKeeps
  <2>20. CASE NextFinally
    BY <1>2, <2>20, NextFinallyKeeps
  <2> QED BY <1>2, <2>1, <2>2, <2>3, <2>4, <2>5, <2>6, <2>7, <2>8, <2>9, <2>10, <2>11, <2>12,
             <2>13, <2>14, <2>15, <2>16, <2>17, <2>18, <2>19, <2>20 DEF Next
<1> QED BY <1>1, <1>2, PTL DEF Spec
------------------------------------------------------------------------------
LEMMA KeptTyped == ASSUME ProgramsSupported, FlowsIInv PROVE TypeOK
<1>1. FramesTyped /\ EntriesNested(program, frames, entries)
  BY DEF FlowsIInv
<1>2. /\ program \in Programs /\ mode \in {"run", "unwind"}
      /\ outcome \in {"running", "returned"} \cup Exceptions /\ Len(frames) <= MaxFrames
      /\ \A k \in DOMAIN frames : frames[k].ip \in DOMAIN program[frames[k].method].code
      /\ outcome = "running" => /\ frames # <<>> /\ entries # <<>>
                               /\ ip \in DOMAIN program[Method].code
      /\ outcome # "running" => frames = <<>> /\ entries = <<>>
  BY <1>1 DEF FramesTyped
<1>3. \A k \in DOMAIN frames : frames[k].method \in DOMAIN program
  <2>1. frames \in Seq(FrameSet(program))
    BY <1>1 DEF FramesTyped
  <2>2. \A k \in DOMAIN frames : frames[k] \in FrameSet(program)
    BY <2>1
  <2> QED BY <2>2 DEF FrameSet
<1>4. \A e \in DOMAIN entries : entries[e].base \in DOMAIN frames
  BY <1>1 DEF EntriesNested
<1>5. ASSUME NEW s \in DOMAIN flows
      PROVE  /\ flows[s].frame \in 1 .. MaxFrames
             /\ flows[s].clause # NoClause =>
                    flows[s].clause[2] \in DOMAIN program[flows[s].clause[1]].clauses
  <2>1. outcome = "running"
    <3>1. flows # <<>>
      OBVIOUS
    <3> QED BY <1>1, <3>1 DEF FramesTyped
  <2>2. /\ Cur \in Nat /\ Top \in Nat /\ DOMAIN flows = 1 .. Top
        /\ \A x \in 1 .. Top : /\ flows[x].frame \in 1 .. Cur /\ FlowOK(program, flows, x)
                              /\ flows[x] \in FlowSet(program)
    BY <2>1, StateFacts
  <2>3. flows[s].frame \in 1 .. MaxFrames
    <3>1. Cur <= MaxFrames
      BY <1>2 DEF Cur
    <3> QED BY <2>2, <3>1, FramesAssumption DEF FramesAssumption
  <2>4. ASSUME flows[s].clause # NoClause
        PROVE  flows[s].clause[2] \in DOMAIN program[flows[s].clause[1]].clauses
    <3>1. FlowOK(program, flows, s) /\ flows[s].throw \in BOOLEAN
      BY <2>2, FlowFields
    <3>2. flows[s].clause[1] = Owner(flows[s])
      BY <2>4, <3>1 DEF FlowOK
    <3>3. CASE flows[s].throw
      BY <2>4, <3>1, <3>2, <3>3 DEF FlowOK, ThrowOK
    <3>4. CASE ~flows[s].throw
      BY <3>1, <3>2, <3>4 DEF FlowOK, LeaveOK, FinallysBetween
    <3> QED BY <3>1, <3>3, <3>4
  <2> QED BY <2>3, <2>4
<1> QED BY <1>2, <1>3, <1>4, <1>5 DEF TypeOK

LEMMA KeptAsserted == ASSUME ProgramsSupported, FlowsIInv PROVE AssertionsHold
<1> SUFFICES ASSUME outcome = "running"
             PROVE  /\ mode = "unwind" => flows # <<>>
                    /\ UnwindingThrow => ~TopFlow.handled
                    /\ \A i \in DOMAIN flows : i < Len(flows) => flows[i].clause # NoClause
                    /\ mode = "run" /\ Instr.op = "leave" /\ Surrounding = "catch_or_filter" =>
                           /\ flows # <<>>
                           /\ TopFlow.throw
                           /\ TopFlow.frame = Cur
                           /\ InHandler(TopFlow, ip)
                    /\ UnwindingLeave =>
                           /\ TopFlow.frame = Cur
                           /\ TopFlow.remain > 0 => RemainingFinallys(TopFlow) # {}
  BY DEF AssertionsHold
<1>1. mode = "unwind" => flows # <<>> /\ TopFlow.frame = Cur /\ (TopFlow.throw => ~TopFlow.handled)
  BY DEF FlowsIInv, UnwindsTop
<1>2. UnwindingThrow => ~TopFlow.handled
  BY <1>1 DEF UnwindingThrow
<1>3. \A i \in DOMAIN flows : i < Len(flows) => flows[i].clause # NoClause
  BY DEF FlowsIInv, HaveClauses
<1>4. ASSUME mode = "run", Instr.op = "leave", Surrounding = "catch_or_filter"
      PROVE  flows # <<>> /\ TopFlow.throw /\ TopFlow.frame = Cur /\ InHandler(TopFlow, ip)
  <2>1. Running
    BY <1>4 DEF Running
  <2>2. /\ Top # 0 /\ flows[Top].throw /\ flows[Top].frame = Cur
        /\ flows[Top].clause # NoClause
        /\ ip \in Clauses[flows[Top].clause[2]].handler
    BY <1>4, <2>1, LeavesCatch
  <2>3. TopFlow = flows[Top] /\ flows # <<>>
    BY <2>2 DEF TopFlow, Last, Top
  <2>4. flows[Top].clause[1] = Method
    <3>1. /\ Top \in Nat
          /\ \A s \in 1 .. Top : Owner(flows[s]) = frames[flows[s].frame].method
          /\ \A s \in 1 .. Top : FlowOK(program, flows, s)
      BY StateFacts
    <3>2. Top \in 1 .. Top
      BY <2>2, <3>1
    <3> QED BY <2>2, <3>1, <3>2 DEF FlowOK, Method
  <2> QED BY <2>2, <2>3, <2>4 DEF InHandler, Clauses
<1>5. ASSUME UnwindingLeave, TopFlow.remain > 0 PROVE RemainingFinallys(TopFlow) # {}
  <2>1. mode = "unwind" /\ ~TopFlow.throw
    BY <1>5 DEF UnwindingLeave
  <2>2. TopFlow = flows[Top] /\ LeaveOK(program[Method], flows, Top)
    BY <2>1, UnwindFacts
  <2>3. TopFlow.remain = Cardinality(RemainingFinallys(TopFlow))
    BY <2>2 DEF LeaveOK, RemainingFinallys, Clauses
  <2>4. TopFlow.remain # 0
    BY <1>5
  <2> QED BY <2>3, <2>4, FS_EmptySet
<1> QED BY <1>1, <1>2, <1>3, <1>4, <1>5 DEF UnwindingLeave

LEMMA KeptWithFrames == ASSUME ProgramsSupported, FlowsIInv PROVE NoFlowOutlivesFrame
<1>1. CASE outcome = "running"
  <2>1. /\ Cur \in Nat /\ DOMAIN frames = 1 .. Cur
        /\ FlowsKept(program, frames, flows)
    BY <1>1, StateFacts DEF FlowsIInv
  <2>2. \A s \in DOMAIN flows : flows[s].frame \in 1 .. Cur
    BY <2>1 DEF FlowsKept
  <2>3. \A s, t \in DOMAIN flows : s < t => flows[s].frame <= flows[t].frame
    BY <2>1 DEF FlowsKept
  <2> QED BY <2>1, <2>2, <2>3 DEF NoFlowOutlivesFrame, Cur
<1>2. CASE outcome # "running"
  <2>1. flows = <<>>
    BY <1>2 DEF FlowsIInv, FramesTyped
  <2> QED BY <2>1 DEF NoFlowOutlivesFrame
<1> QED BY <1>1, <1>2

(* Whatever supported programs raise and leave, frames, entries, flows and *)
(* the ip stay in their ranges.                                            *)
THEOREM FlowsTypeOK == ASSUME ProgramsSupported PROVE Spec => []TypeOK
BY FlowsInvariance, KeptTyped, PTL

(* The interpreter's assertions about s_exception_flows hold in every      *)
(* program whose methods are supported.                                    *)
THEOREM FlowsAssertionsHold == ASSUME ProgramsSupported PROVE Spec => []AssertionsHold
BY FlowsInvariance, KeptAsserted, PTL

(* No flow outlives its frame, and the flows of callers are below those of *)
(* what they call, in every program whose methods are supported.           *)
THEOREM FlowsEndWithFrames == ASSUME ProgramsSupported PROVE Spec => []NoFlowOutlivesFrame
BY FlowsInvariance, KeptWithFrames, PTL
------------------------------------------------------------------------------
(* Where flows began, and the handlers that they are in.                   *)

(* Every raise is one for which the flows lead where the standard says. *)
RaisesSupported == \A p \in Programs : \A n \in DOMAIN p : SupportedRaises(p[n])

(* Where a flow began. *)
Origin(flow) == IF flow.throw THEN flow.at[2] ELSE flow.src

(* Offset p is in the handler of clause h, or in that of a clause around   *)
(* clause h that began when the handler of h had been left by a throw.     *)
InOrLeft(cs, h, p) ==
    \/ p \in cs[h].handler
    \/ \E z \in DOMAIN cs : cs[h].handler \subseteq cs[z].try /\ p \in cs[z].handler

(* No handler of frame k is run by two flows. *)
Distinct(fs, k) ==
    \A x, y \in DOMAIN fs :
        /\ fs[x].frame = k /\ fs[x].clause # NoClause
        /\ fs[y].frame = k /\ fs[y].clause # NoClause
        /\ Executes(fs[x]) = Executes(fs[y])
        => x = y

LEMMA InOrLeftOn ==
    ASSUME NEW cs, WellNested(cs), NEW h \in DOMAIN cs, NEW i \in DOMAIN cs, NEW o, NEW p,
           InOrLeft(cs, h, o), o \in cs[i].try, p \in cs[i].handler
    PROVE  InOrLeft(cs, h, p)
<1>1. CASE o \in cs[h].handler
  <2>1. Unit(cs[i]) \subseteq cs[h].handler \/ Unit(cs[h]) \subseteq cs[i].try
    BY <1>1, TryMeetsHandler
  <2> QED BY <2>1 DEF Unit, InOrLeft
<1>2. ASSUME NEW z \in DOMAIN cs, cs[h].handler \subseteq cs[z].try, o \in cs[z].handler
      PROVE  InOrLeft(cs, h, p)
  <2>1. Unit(cs[i]) \subseteq cs[z].handler \/ Unit(cs[z]) \subseteq cs[i].try
    BY <1>2, TryMeetsHandler
  <2> QED BY <1>2, <2>1 DEF Unit, InOrLeft
<1> QED BY <1>1, <1>2 DEF InOrLeft

LEMMA NotInTry ==
    ASSUME NEW cs, WellNested(cs), NEW h \in DOMAIN cs, NEW p, InOrLeft(cs, h, p)
    PROVE  p \notin cs[h].try
<1>1. cs[h].try \cap cs[h].handler = {}
  BY DEF WellNested
<1>2. ASSUME NEW z \in DOMAIN cs, cs[h].handler \subseteq cs[z].try, p \in cs[z].handler
      PROVE  p \notin cs[h].try
  <2>1. Unit(cs[h]) \subseteq cs[z].try
    BY <1>2, HandlerInTry
  <2>2. cs[z].try \cap cs[z].handler = {}
    BY DEF WellNested
  <2> QED BY <1>2, <2>1, <2>2 DEF Unit
<1> QED BY <1>1, <1>2 DEF InOrLeft

(* A handler around that of clause i, too, is around the whole clause. *)
LEMMA EntersInside ==
    ASSUME NEW cs, WellNested(cs), NEW h \in DOMAIN cs, NEW i \in DOMAIN cs, NEW o, NEW q,
           InOrLeft(cs, h, o), o \in cs[i].try, q \in cs[i].handler, q \in cs[h].handler
    PROVE  Unit(cs[i]) \subseteq cs[h].handler /\ o \in cs[h].handler /\ h # i
<1>1. /\ cs[i].try \cap cs[i].handler = {}
      /\ \A z \in DOMAIN cs : cs[z].try \cap cs[z].handler = {}
  BY DEF WellNested
<1>2. CASE o \in cs[h].handler
  <2>1. Unit(cs[i]) \subseteq cs[h].handler \/ Unit(cs[h]) \subseteq cs[i].try
    BY <1>2, TryMeetsHandler
  <2> QED BY <1>1, <1>2, <2>1 DEF Unit
<1>3. ASSUME NEW z \in DOMAIN cs, cs[h].handler \subseteq cs[z].try, o \in cs[z].handler
      PROVE  FALSE
  <2>1. Unit(cs[i]) \subseteq cs[z].handler \/ Unit(cs[z]) \subseteq cs[i].try
    BY <1>3, TryMeetsHandler
  <2> QED BY <1>1, <1>3, <2>1 DEF Unit
<1> QED BY <1>2, <1>3 DEF InOrLeft

(* And so it is around an earlier clause with the same origin. *)
LEMMA EntersInsideNext ==
    ASSUME NEW cs, WellNested(cs), NEW h \in DOMAIN cs, NEW e \in DOMAIN cs, NEW i \in DOMAIN cs,
           NEW o, NEW q, e < i,
           InOrLeft(cs, h, o), o \in cs[e].try, o \in cs[i].try,
           q \in cs[i].handler, q \in cs[h].handler
    PROVE  Unit(cs[e]) \subseteq cs[h].handler
<1>1. Unit(cs[i]) \subseteq cs[h].handler /\ o \in cs[h].handler
  BY EntersInside
<1>2. Unit(cs[e]) \subseteq cs[h].handler \/ Unit(cs[h]) \subseteq cs[e].try
  BY <1>1, TryMeetsHandler
<1>3. ~(Unit(cs[h]) \subseteq cs[e].try)
  <2>1. SUFFICES ASSUME Unit(cs[h]) \subseteq cs[e].try PROVE FALSE
    OBVIOUS
  <2>2. cs[i].handler \subseteq cs[e].try
    BY <1>1, <2>1 DEF Unit
  <2>3. i < e
    BY <2>2, HandlerInTry
  <2>4. i \in Nat /\ e \in Nat
    BY DEF WellNested
  <2> QED BY <2>3, <2>4
<1> QED BY <1>2, <1>3

(* A leave goes to where the handler of h has not been left for good. *)
LEMMA TargetInHandler ==
    ASSUME NEW cs, WellNested(cs), NEW h \in DOMAIN cs, NEW o, NEW target,
           InOrLeft(cs, h, target), o \in cs[h].handler,
           \A z \in DOMAIN cs : target \in cs[z].handler => o \in cs[z].handler
    PROVE  target \in cs[h].handler
<1>1. ASSUME NEW z \in DOMAIN cs, cs[h].handler \subseteq cs[z].try, target \in cs[z].handler
      PROVE  FALSE
  <2>1. cs[z].try \cap cs[z].handler = {}
    BY DEF WellNested
  <2> QED BY <1>1, <2>1
<1> QED BY <1>1 DEF InOrLeft
------------------------------------------------------------------------------
(* Handlers, as a function of the flows.                                   *)

(* H has the handlers that frame k is executing at p. *)
AreHandlers(cs, fs, k, p, H) ==
    /\ H = [c \in DOMAIN H |-> H[c]]
    /\ DOMAIN H = {Executes(fs[x]) : x \in HandlerFlows(cs, fs, k, p)}
    /\ \A x \in HandlerFlows(cs, fs, k, p) : H[Executes(fs[x])] = HandlerOf(cs, fs[x])

LEMMA HandlersAt ==
    ASSUME NEW cs, NEW fs, NEW k, NEW p, Distinct(fs, k), NEW H, H = Handlers(cs, fs, k, p)
    PROVE  AreHandlers(cs, fs, k, p, H)
<1> DEFINE inside == HandlerFlows(cs, fs, k, p)
<1>1. H = [c \in {Executes(fs[x]) : x \in inside} |->
              HandlerOf(cs, fs[CHOOSE x \in inside : Executes(fs[x]) = c])]
  BY DEF Handlers
<1>2. ASSUME NEW x \in inside PROVE H[Executes(fs[x])] = HandlerOf(cs, fs[x])
  <2> DEFINE y == CHOOSE y \in inside : Executes(fs[y]) = Executes(fs[x])
  <2>1. y \in inside /\ Executes(fs[y]) = Executes(fs[x])
    OBVIOUS
  <2>2. y = x
    <3> HIDE DEF y
    <3>1. /\ x \in DOMAIN fs /\ fs[x].frame = k /\ fs[x].clause # NoClause
          /\ y \in DOMAIN fs /\ fs[y].frame = k /\ fs[y].clause # NoClause
      BY <2>1 DEF HandlerFlows
    <3> QED BY <2>1, <3>1 DEF Distinct
  <2>3. H[Executes(fs[x])] = HandlerOf(cs, fs[y])
    BY <1>1
  <2> QED BY <2>2, <2>3
<1> QED BY <1>1, <1>2 DEF AreHandlers

LEMMA HandlersAre ==
    ASSUME NEW cs, NEW fs, NEW k, NEW p, Distinct(fs, k), NEW G,
           AreHandlers(cs, fs, k, p, G)
    PROVE  Handlers(cs, fs, k, p) = G
<1>1. PICK H : H = Handlers(cs, fs, k, p)
  OBVIOUS
<1>2. AreHandlers(cs, fs, k, p, H)
  BY <1>1, HandlersAt
<1>3. DOMAIN H = DOMAIN G /\ \A c \in DOMAIN H : H[c] = G[c]
  BY <1>2 DEF AreHandlers
<1>4. H = G
  BY <1>2, <1>3 DEF AreHandlers
<1> QED BY <1>1, <1>4

(* The same flows have the same handlers. *)
LEMMA HandlersSame ==
    ASSUME NEW cs, NEW fs, NEW gs, NEW k, NEW p, NEW q, Distinct(fs, k), Distinct(gs, k),
           HandlerFlows(cs, gs, k, q) = HandlerFlows(cs, fs, k, p),
           \A x \in HandlerFlows(cs, fs, k, p) : gs[x] = fs[x]
    PROVE  Handlers(cs, gs, k, q) = Handlers(cs, fs, k, p)
<1>1. PICK H : H = Handlers(cs, fs, k, p)
  OBVIOUS
<1>2. AreHandlers(cs, fs, k, p, H)
  BY <1>1, HandlersAt
<1>3. /\ DOMAIN H = {Executes(gs[x]) : x \in HandlerFlows(cs, gs, k, q)}
      /\ \A x \in HandlerFlows(cs, gs, k, q) : H[Executes(gs[x])] = HandlerOf(cs, gs[x])
  BY <1>2 DEF AreHandlers
<1>4. Handlers(cs, gs, k, q) = H
  BY <1>2, <1>3, HandlersAre DEF AreHandlers
<1> QED BY <1>1, <1>4

(* The handlers, of those in H, that p is still in. *)
Still(cs, H, p) == Restrict(H, {i \in DOMAIN H : p \in cs[i].handler})

LEMMA HandlersStill ==
    ASSUME NEW cs, NEW fs, NEW k, NEW p, NEW q, Distinct(fs, k),
           \A x \in DOMAIN fs : /\ fs[x].frame = k /\ fs[x].clause # NoClause
                                /\ q \in cs[Executes(fs[x])].handler
                                => p \in cs[Executes(fs[x])].handler
    PROVE  Handlers(cs, fs, k, q) = Still(cs, Handlers(cs, fs, k, p), q)
<1>1. PICK H : H = Handlers(cs, fs, k, p)
  OBVIOUS
<1>2. AreHandlers(cs, fs, k, p, H)
  BY <1>1, HandlersAt
<1>3. PICK G : G = Still(cs, H, q)
  OBVIOUS
<1>4. /\ G = [c \in DOMAIN G |-> G[c]]
      /\ DOMAIN G = {i \in DOMAIN H : q \in cs[i].handler}
      /\ \A c \in DOMAIN G : G[c] = H[c]
  BY <1>3 DEF Still, Restrict
<1>5. \A x : x \in HandlerFlows(cs, fs, k, q) <=>
              x \in HandlerFlows(cs, fs, k, p) /\ q \in cs[Executes(fs[x])].handler
  BY DEF HandlerFlows
<1>6. /\ DOMAIN G = {Executes(fs[x]) : x \in HandlerFlows(cs, fs, k, q)}
      /\ \A x \in HandlerFlows(cs, fs, k, q) : G[Executes(fs[x])] = HandlerOf(cs, fs[x])
  BY <1>2, <1>4, <1>5 DEF AreHandlers
<1>7. Handlers(cs, fs, k, q) = G
  BY <1>4, <1>6, HandlersAre DEF AreHandlers
<1> QED BY <1>1, <1>3, <1>7

(* gs has flow f on the flows fs. *)
OneMore(fs, gs, f) ==
    \E n \in Nat : /\ DOMAIN fs = 1 .. n /\ \A x \in 1 .. n : gs[x] = fs[x]
                   /\ DOMAIN gs = 1 .. (n + 1) /\ gs[n + 1] = f

(* A flow is pushed whose handler q is in, ... *)
Besides(H, i, h) == [j \in DOMAIN H \cup {i} |-> IF j = i THEN h ELSE H[j]]

LEMMA HandlersPushed ==
    ASSUME NEW cs, NEW fs, NEW gs, NEW f, NEW k, NEW q,
           OneMore(fs, gs, f),
           Distinct(fs, k), Distinct(gs, k),
           f.frame = k, f.clause # NoClause,
           q \in cs[Executes(f)].handler
    PROVE  Handlers(cs, gs, k, q) =
               Besides(Handlers(cs, fs, k, q), Executes(f), HandlerOf(cs, f))
<1>1. PICK H : H = Handlers(cs, fs, k, q)
  OBVIOUS
<1>2. AreHandlers(cs, fs, k, q, H)
  BY <1>1, HandlersAt
<1>3. PICK i, h : i = Executes(f) /\ h = HandlerOf(cs, f)
  OBVIOUS
<1>4. PICK G : G = Besides(H, i, h)
  OBVIOUS
<1>5. /\ G = [c \in DOMAIN G |-> G[c]]
      /\ DOMAIN G = DOMAIN H \cup {i}
      /\ G[i] = h
      /\ \A c \in DOMAIN H : c # i => G[c] = H[c]
  BY <1>4 DEF Besides
<1>0. PICK n \in Nat : /\ DOMAIN fs = 1 .. n /\ \A x \in 1 .. n : gs[x] = fs[x]
                       /\ DOMAIN gs = 1 .. (n + 1) /\ gs[n + 1] = f
  BY DEF OneMore
<1>6. n + 1 \in 1 .. (n + 1) /\ \A x : x \in 1 .. (n + 1) <=> x \in 1 .. n \/ x = n + 1
  OBVIOUS
<1>7. \A x : x \in HandlerFlows(cs, gs, k, q) <=> x \in HandlerFlows(cs, fs, k, q) \/ x = n + 1
  BY <1>0, <1>6 DEF HandlerFlows
<1>8. \A x \in HandlerFlows(cs, fs, k, q) : gs[x] = fs[x]
  BY <1>0 DEF HandlerFlows
<1>9. ASSUME NEW x \in HandlerFlows(cs, fs, k, q) PROVE Executes(fs[x]) # i
  <2>1. SUFFICES ASSUME Executes(fs[x]) = i PROVE FALSE
    OBVIOUS
  <2>2. /\ x \in DOMAIN gs /\ gs[x].frame = k /\ gs[x].clause # NoClause
        /\ Executes(gs[x]) = Executes(f)
    BY <1>0, <1>3, <1>6, <1>8, <2>1 DEF HandlerFlows
  <2>3. x = n + 1 /\ x \in 1 .. n
    BY <1>0, <1>6, <2>2 DEF Distinct, HandlerFlows
  <2> QED BY <2>3
<1>10. /\ DOMAIN G = {Executes(gs[x]) : x \in HandlerFlows(cs, gs, k, q)}
       /\ \A x \in HandlerFlows(cs, gs, k, q) : G[Executes(gs[x])] = HandlerOf(cs, gs[x])
  <2>1. \A x \in HandlerFlows(cs, gs, k, q) : G[Executes(gs[x])] = HandlerOf(cs, gs[x])
    BY <1>0, <1>2, <1>3, <1>5, <1>7, <1>8, <1>9 DEF AreHandlers
  <2>2. \A c : c \in DOMAIN G <=> \E x \in HandlerFlows(cs, gs, k, q) : c = Executes(gs[x])
    BY <1>0, <1>2, <1>3, <1>5, <1>7, <1>8 DEF AreHandlers
  <2> QED BY <2>1, <2>2
<1>11. Handlers(cs, gs, k, q) = G
  BY <1>5, <1>10, HandlersAre DEF AreHandlers
<1> QED BY <1>1, <1>3, <1>4, <1>11

(* ... or one popped. H has the handler h of clause i, and then those of W. *)
HasOver(H, i, h, W) == i \in DOMAIN H /\ H[i] = h /\ Restrict(H, DOMAIN H \ {i}) = W

LEMMA HandlersPopped ==
    ASSUME NEW cs, NEW fs, NEW gs, NEW f, NEW k, NEW q,
           OneMore(fs, gs, f),
           Distinct(fs, k), Distinct(gs, k),
           f.frame = k, f.clause # NoClause,
           q \in cs[Executes(f)].handler
    PROVE  HasOver(Handlers(cs, gs, k, q), Executes(f), HandlerOf(cs, f), Handlers(cs, fs, k, q))
<1>1. PICK H : H = Handlers(cs, fs, k, q)
  OBVIOUS
<1>2. AreHandlers(cs, fs, k, q, H)
  BY <1>1, HandlersAt
<1>3. PICK i, h : i = Executes(f) /\ h = HandlerOf(cs, f)
  OBVIOUS
<1>4. Handlers(cs, gs, k, q) = Besides(H, i, h)
  <2>1. Handlers(cs, gs, k, q) =
            Besides(Handlers(cs, fs, k, q), Executes(f), HandlerOf(cs, f))
    BY HandlersPushed
  <2> QED BY <1>1, <1>3, <2>1
<1>0. PICK n \in Nat : /\ DOMAIN fs = 1 .. n /\ \A x \in 1 .. n : gs[x] = fs[x]
                       /\ DOMAIN gs = 1 .. (n + 1) /\ gs[n + 1] = f
  BY DEF OneMore
<1>5. i \notin DOMAIN H
  <2>1. SUFFICES ASSUME NEW x \in HandlerFlows(cs, fs, k, q), Executes(fs[x]) = i PROVE FALSE
    BY <1>2 DEF AreHandlers
  <2>2. n + 1 \in 1 .. (n + 1) /\ \A y \in 1 .. n : y \in 1 .. (n + 1) /\ y # n + 1
    OBVIOUS
  <2>3. /\ x \in DOMAIN gs /\ gs[x].frame = k /\ gs[x].clause # NoClause
        /\ Executes(gs[x]) = Executes(f) /\ x # n + 1
    BY <1>0, <1>3, <2>1, <2>2 DEF HandlerFlows
  <2> QED BY <1>0, <2>2, <2>3 DEF Distinct
<1>6. PICK G : G = Besides(H, i, h)
  OBVIOUS
<1>7. /\ DOMAIN G = DOMAIN H \cup {i}
      /\ G[i] = h
      /\ \A c \in DOMAIN H : c # i => G[c] = H[c]
  BY <1>6 DEF Besides
<1>8. Restrict(G, DOMAIN G \ {i}) = H
  <2>1. DOMAIN G \ {i} = DOMAIN H
    BY <1>5, <1>7
  <2>2. Restrict(G, DOMAIN H) = [c \in DOMAIN H |-> H[c]]
    BY <1>5, <1>7 DEF Restrict
  <2> QED BY <1>2, <2>1, <2>2 DEF AreHandlers
<1> QED BY <1>1, <1>3, <1>4, <1>6, <1>7, <1>8 DEF HasOver

(* A flow began in the handlers that the flows below it are of. *)
OriginsKept(prog, fs) ==
    \A x, y \in DOMAIN fs :
        x < y /\ fs[x].frame = fs[y].frame =>
            InOrLeft(prog[Owner(fs[y])].clauses, Executes(fs[x]), Origin(fs[y]))

(* A flow unwinds from where it began, or from the end of its block. *)
UnwindsAt ==
    mode = "unwind" =>
        \/ TopFlow.clause = NoClause /\ TopFlow.throw /\ ip = Origin(TopFlow)
        \/ /\ TopFlow.clause # NoClause
           /\ Instr.op = "endfinally"
           /\ Executes(TopFlow) \in DOMAIN Clauses
           /\ IsCleanup(Clauses[Executes(TopFlow)])
           /\ IsInnermost(Clauses, ip, Executes(TopFlow))

(* A caller in the same execute() is behind its call. *)
CallersWait(prog, frs, ents) ==
    \A k \in DOMAIN frs :
        k < Len(frs) /\ (\A e \in DOMAIN ents : ents[e].base # k + 1) =>
            LET m == prog[frs[k].method]
            IN  frs[k].ip - 1 \in DOMAIN m.code /\ m.code[frs[k].ip - 1].op = "call"

(* The second inductive invariant. *)
HandlersIInv ==
    /\ OriginsKept(program, flows)
    /\ UnwindsAt
    /\ CallersWait(program, frames, entries)

(* The flows fs are in order, in a program like those supported. *)
FlowsOrdered(prog, frs, fs) ==
    /\ prog \in Programs
    /\ \A k \in DOMAIN frs : frs[k].method \in DOMAIN prog
    /\ fs \in Seq(FlowSet(prog))
    /\ FlowsKept(prog, frs, fs)
    /\ OriginsKept(prog, fs)

LEMMA FlowBegan ==
    ASSUME ProgramsSupported, NEW prog, NEW frs, NEW fs, FlowsOrdered(prog, frs, fs),
           NEW x \in 1 .. Len(fs), fs[x].clause # NoClause
    PROVE  LET cs == prog[frs[fs[x].frame].method].clauses
           IN  /\ WellNested(cs)
               /\ Owner(fs[x]) = frs[fs[x].frame].method
               /\ Executes(fs[x]) \in DOMAIN cs
               /\ Executes(fs[x]) \in Nat \ {0}
               /\ Origin(fs[x]) \in cs[Executes(fs[x])].try
<1> DEFINE f == fs[x]
           m == prog[Owner(f)]
           e == Executes(f)
<1>1. /\ prog \in Programs /\ \A k \in DOMAIN frs : frs[k].method \in DOMAIN prog
      /\ fs \in Seq(FlowSet(prog)) /\ FlowsKept(prog, frs, fs)
  BY DEF FlowsOrdered
<1>2. x \in Nat \ {0} /\ x \in DOMAIN fs /\ f \in FlowSet(prog)
  BY <1>1, ElementOfSeq
<1>3. f.frame \in DOMAIN frs /\ Owner(f) = frs[f.frame].method /\ FlowOK(prog, fs, x)
  BY <1>1, <1>2 DEF FlowsKept
<1>4. WellNested(m.clauses)
  BY <1>1, <1>3, MethodFacts
<1>5. /\ e \in DOMAIN m.clauses /\ e \in Nat \ {0}
      /\ f.throw => f.clause[2] = e
      /\ ~f.throw => e \in FinallysBetween(m.clauses, f.src, f.target)
  BY <1>2, <1>3, <1>4, Executed
<1>6. f.throw \in BOOLEAN
  BY <1>2, FlowFields
<1>7. Origin(f) \in m.clauses[e].try
  <2>1. CASE f.throw
    BY <1>3, <1>5, <2>1 DEF FlowOK, ThrowOK, Origin
  <2>2. CASE ~f.throw
    BY <1>5, <2>2 DEF FinallysBetween, Origin
  <2> QED BY <1>6, <2>1, <2>2
<1> QED BY <1>3, <1>4, <1>5, <1>7

LEMMA FlowsDistinct ==
    ASSUME ProgramsSupported, NEW prog, NEW frs, NEW fs, FlowsOrdered(prog, frs, fs), NEW k
    PROVE  Distinct(fs, k)
<1>1. DOMAIN fs = 1 .. Len(fs) /\ Len(fs) \in Nat /\ OriginsKept(prog, fs)
  BY DEF FlowsOrdered
<1>2. ASSUME NEW x \in 1 .. Len(fs), NEW y \in 1 .. Len(fs), x < y,
             fs[x].frame = k, fs[x].clause # NoClause,
             fs[y].frame = k, fs[y].clause # NoClause, Executes(fs[x]) = Executes(fs[y])
      PROVE  FALSE
  <2> DEFINE cs == prog[frs[k].method].clauses
             e == Executes(fs[y])
  <2>1. /\ WellNested(cs) /\ Owner(fs[y]) = frs[k].method
        /\ e \in DOMAIN cs /\ Origin(fs[y]) \in cs[e].try
    BY <1>2, FlowBegan
  <2>2. InOrLeft(cs, e, Origin(fs[y]))
    BY <1>1, <1>2, <2>1 DEF OriginsKept
  <2> QED BY <2>1, <2>2, NotInTry
<1> QED BY <1>1, <1>2 DEF Distinct

(* What is popped or has yet to be pushed makes no difference. *)
LEMMA DistinctBelow ==
    ASSUME NEW fs, NEW gs, NEW k, Distinct(fs, k), DOMAIN gs \subseteq DOMAIN fs,
           \A x \in DOMAIN gs : gs[x] = fs[x]
    PROVE  Distinct(gs, k)
BY DEF Distinct

(* Frame k is at p, or may go there: what its flows are for is around. *)
LEMMA FlowsAround ==
    ASSUME ProgramsSupported, NEW prog, NEW frs, NEW fs, FlowsOrdered(prog, frs, fs),
           NEW k \in DOMAIN frs, NEW r \in 0 .. Len(fs), NEW p,
           \A x \in 1 .. r : fs[x].clause # NoClause,
           \A x \in 1 .. r : fs[x].frame <= k, DOMAIN frs \subseteq Nat,
           InnermostOrNone(prog[frs[k].method].clauses, p, Executing(fs, r, k)),
           NEW x \in 1 .. r, fs[x].frame = k
    PROVE  InOrLeft(prog[frs[k].method].clauses, Executes(fs[x]), p)
<1> DEFINE cs == prog[frs[k].method].clauses
           e == Executes(fs[r])
<1>1. DOMAIN fs = 1 .. Len(fs) /\ Len(fs) \in Nat /\ FlowsKept(prog, frs, fs) /\ OriginsKept(prog, fs)
  BY DEF FlowsOrdered
<1>2. r \in 1 .. Len(fs) /\ x \in 1 .. Len(fs) /\ r \in 1 .. r /\ r # 0 /\ r \in Nat /\ x <= r
  BY <1>1
<1>3. fs[r].frame = k
  <2>1. fs[r].frame \in Nat /\ k \in Nat
    BY <1>1, <1>2 DEF FlowsKept
  <2>2. x = r \/ k <= fs[r].frame
    BY <1>1, <1>2 DEF FlowsKept
  <2>3. fs[r].frame <= k
    BY <1>2
  <2> QED BY <2>1, <2>2, <2>3
<1>4. /\ WellNested(cs) /\ Owner(fs[r]) = frs[k].method
      /\ e \in DOMAIN cs /\ e # 0 /\ Origin(fs[r]) \in cs[e].try
  <2>1. fs[r].clause # NoClause
    BY <1>2
  <2> QED BY <1>2, <1>3, <2>1, FlowBegan
<1>5. p \in cs[e].handler
  <2>1. Executing(fs, r, k) = e
    BY <1>2, <1>3 DEF Executing
  <2> QED BY <1>4, <2>1 DEF InnermostOrNone, IsInnermost
<1>6. CASE x = r
  BY <1>5, <1>6 DEF InOrLeft
<1>7. CASE x < r
  <2>1. InOrLeft(cs, Executes(fs[x]), Origin(fs[r]))
    BY <1>1, <1>2, <1>3, <1>4, <1>7 DEF OriginsKept
  <2>2. Executes(fs[x]) \in DOMAIN cs
    <3>1. fs[x].clause # NoClause
      OBVIOUS
    <3> QED BY <1>2, <3>1, FlowBegan
  <2> QED BY <1>4, <1>5, <2>1, <2>2, InOrLeftOn
<1> QED BY <1>2, <1>6, <1>7

LEMMA OriginsStep ==
    ASSUME NEW prog, NEW fs, NEW gs, NEW r \in Nat, NEW n \in {r, r + 1},
           1 .. r \subseteq DOMAIN fs, DOMAIN gs = 1 .. n, \A x \in 1 .. r : gs[x] = fs[x],
           OriginsKept(prog, fs),
           n = r + 1 => \A x \in 1 .. r : fs[x].frame = gs[r + 1].frame =>
               InOrLeft(prog[Owner(gs[r + 1])].clauses, Executes(fs[x]), Origin(gs[r + 1]))
    PROVE  OriginsKept(prog, gs)
<1> SUFFICES ASSUME NEW x \in 1 .. n, NEW y \in 1 .. n, x < y, gs[x].frame = gs[y].frame
             PROVE  InOrLeft(prog[Owner(gs[y])].clauses, Executes(gs[x]), Origin(gs[y]))
  BY DEF OriginsKept
<1>1. x \in 1 .. r /\ gs[x] = fs[x]
  OBVIOUS
<1>2. CASE y \in 1 .. r
  <2>1. gs[y] = fs[y] /\ x \in DOMAIN fs /\ y \in DOMAIN fs
    BY <1>1, <1>2
  <2> QED BY <1>1, <2>1 DEF OriginsKept
<1>3. CASE y = r + 1 /\ n = r + 1
  BY <1>1, <1>3
<1> QED BY <1>2, <1>3

(* gs has the first r of the flows fs, and then flow g, or nothing more. *)
Grown(fs, gs, r, g) ==
    /\ r \in Nat /\ 1 .. r \subseteq DOMAIN fs
    /\ DOMAIN gs = 1 .. (r + 1) /\ Len(gs) = r + 1
    /\ \A x \in 1 .. r : gs[x] = fs[x]
    /\ gs[r + 1] = g

Cut(fs, gs, r) ==
    /\ r \in Nat /\ 1 .. r \subseteq DOMAIN fs
    /\ DOMAIN gs = 1 .. r /\ Len(gs) = r
    /\ \A x \in 1 .. r : gs[x] = fs[x]

(* grs has the first of the frames frs, up to k, which may be elsewhere. *)
CutTo(frs, grs, k) ==
    /\ k \in Nat \ {0} /\ 1 .. k \subseteq DOMAIN frs
    /\ DOMAIN grs = 1 .. k /\ Len(grs) = k
    /\ \A j \in 1 .. k : grs[j].method = frs[j].method
    /\ \A j \in 1 .. k : j < k => grs[j].ip = frs[j].ip

(* gents has those of the execute() calls ents that began up to frame k. *)
EntriesBelow(ents, gents, k) ==
    /\ \A e \in DOMAIN gents : e \in DOMAIN ents /\ gents[e] = ents[e]
    /\ \A e \in DOMAIN ents : ents[e].base > k \/ e \in DOMAIN gents

LEMMA GrownOrigins ==
    ASSUME NEW prog, NEW fs, NEW gs, NEW r, NEW g, Grown(fs, gs, r, g), OriginsKept(prog, fs),
           \A x \in 1 .. r : fs[x].frame = g.frame =>
               InOrLeft(prog[Owner(g)].clauses, Executes(fs[x]), Origin(g))
    PROVE  OriginsKept(prog, gs)
<1>1. r \in Nat /\ r + 1 \in {r, r + 1}
  BY DEF Grown
<1> QED BY <1>1, OriginsStep DEF Grown

LEMMA CutOrigins ==
    ASSUME NEW prog, NEW fs, NEW gs, NEW r, Cut(fs, gs, r), OriginsKept(prog, fs)
    PROVE  OriginsKept(prog, gs)
<1>1. r \in Nat /\ r \in {r, r + 1} /\ r # r + 1
  BY DEF Cut
<1> QED BY <1>1, OriginsStep DEF Cut

LEMMA WaitStep ==
    ASSUME NEW prog, NEW frs, NEW grs, NEW ents, NEW gents, NEW k, Len(frs) \in Nat,
           DOMAIN frs = 1 .. Len(frs),
           CallersWait(prog, frs, ents), CutTo(frs, grs, k), EntriesBelow(ents, gents, k)
    PROVE  CallersWait(prog, grs, gents)
<1> SUFFICES ASSUME NEW j \in 1 .. k, j < k, \A e \in DOMAIN gents : gents[e].base # j + 1
             PROVE  LET m == prog[grs[j].method]
                    IN  /\ grs[j].ip - 1 \in DOMAIN m.code
                        /\ m.code[grs[j].ip - 1].op = "call"
  BY DEF CallersWait, CutTo
<1>1. /\ k \in Nat /\ j \in DOMAIN frs /\ j < Len(frs)
      /\ grs[j].method = frs[j].method /\ grs[j].ip = frs[j].ip
  <2>1. k \in Nat \ {0} /\ k \in 1 .. k /\ k \in DOMAIN frs
    BY DEF CutTo
  <2> QED BY <2>1 DEF CutTo
<1>2. \A e \in DOMAIN ents : ents[e].base # j + 1
  BY <1>1 DEF EntriesBelow
<1> QED BY <1>1, <1>2 DEF CallersWait

(* The flows are in order. *)
LEMMA OrderedNow ==
    ASSUME FlowsIInv, HandlersIInv PROVE FlowsOrdered(program, frames, flows)
<1>1. frames \in Seq(FrameSet(program)) /\ program \in Programs /\ flows \in Seq(FlowSet(program))
  BY DEF FlowsIInv, FramesTyped
<1>2. \A k \in DOMAIN frames : frames[k].method \in DOMAIN program
  <2>1. \A k \in DOMAIN frames : frames[k] \in FrameSet(program)
    BY <1>1, ElementOfSeq
  <2> QED BY <2>1 DEF FrameSet
<1> QED BY <1>1, <1>2 DEF FlowsIInv, HandlersIInv, FlowsOrdered

LEMMA OrderedNext ==
    ASSUME FlowsIInv', HandlersIInv' PROVE FlowsOrdered(program', frames', flows')
<1>1. /\ frames' \in Seq(FrameSet(program')) /\ program' \in Programs
      /\ flows' \in Seq(FlowSet(program'))
  BY DEF FlowsIInv, FramesTyped
<1>2. \A k \in DOMAIN frames' : frames'[k].method \in DOMAIN program'
  <2>1. \A k \in DOMAIN frames' : frames'[k] \in FrameSet(program')
    BY <1>1, ElementOfSeq
  <2> QED BY <2>1 DEF FrameSet
<1> QED BY <1>1, <1>2 DEF FlowsIInv, HandlersIInv, FlowsOrdered

(* What frame Cur's flows up to r are for is around p. *)
LEMMA AroundHere ==
    ASSUME ProgramsSupported, FlowsIInv, HandlersIInv, outcome = "running",
           NEW r \in 0 .. Top, \A x \in 1 .. r : flows[x].clause # NoClause,
           NEW k \in 1 .. Cur, \A x \in 1 .. r : flows[x].frame <= k, NEW p,
           InnermostOrNone(program[frames[k].method].clauses, p, Executing(flows, r, k)),
           NEW x \in 1 .. r, flows[x].frame = k
    PROVE  InOrLeft(program[frames[k].method].clauses, Executes(flows[x]), p)
<1>1. FlowsOrdered(program, frames, flows)
  BY OrderedNow
<1>2. Cur \in Nat /\ DOMAIN frames = 1 .. Cur /\ Top = Len(flows)
  BY StateFacts DEF Top
<1>3. k \in DOMAIN frames /\ r \in 0 .. Len(flows) /\ DOMAIN frames \subseteq Nat
  BY <1>2
<1> QED BY <1>1, <1>3, FlowsAround
------------------------------------------------------------------------------
(* What a step does to frames, execute() calls and flows.                  *)

(* Nothing is raised in a handler that runs for a filter. *)
LEMMA NotInFilter ==
    ASSUME ProgramsSupported, RaisesSupported, FlowsIInv, outcome = "running",
           NEW k \in 1 .. Cur, NEW p \in DOMAIN program[frames[k].method].code,
           program[frames[k].method].code[p].op \in RaisingOps,
           NEW fs, NEW r \in 0 .. Top, fs \in Seq(FlowSet(program)), Len(fs) = r,
           \A x \in 1 .. r : fs[x] = flows[x],
           InnermostOrNone(program[frames[k].method].clauses, p, Executing(flows, r, k))
    PROVE  ~InFilterCheck(fs, k)
<1> DEFINE m == program[frames[k].method]
           f == flows[r]
<1>1. SUFFICES ASSUME InFilterCheck(fs, k) PROVE FALSE
  OBVIOUS
<1>2. /\ program \in Programs /\ frames[k].method \in DOMAIN program
      /\ Top \in Nat
      /\ \A s \in 1 .. Top : flows[s] \in FlowSet(program)
      /\ \A s \in 1 .. Top : Owner(flows[s]) = frames[flows[s].frame].method
      /\ \A s \in 1 .. Top : FlowOK(program, flows, s)
  BY StateFacts
<1>3. /\ r # 0 /\ r \in Nat \ {0} /\ r \in 1 .. Top /\ r \in 1 .. r /\ Last(fs) = f
  <2>1. r # 0
    BY <1>1 DEF InFilterCheck
  <2>2. r \in 1 .. r /\ r \in 1 .. Top /\ r \in Nat \ {0}
    BY <1>2, <2>1
  <2> QED BY <2>1, <2>2 DEF Last
<1>4. /\ f.throw /\ f.frame = k /\ f.clause # NoClause
      /\ program[f.clause[1]].clauses[f.clause[2]].kind = "filter"
  BY <1>1, <1>3 DEF InFilterCheck
<1>5. Owner(f) = frames[k].method /\ FlowOK(program, flows, r) /\ f \in FlowSet(program)
  BY <1>2, <1>3, <1>4
<1>6. WellNested(program[Owner(f)].clauses)
  BY <1>2, <1>5, MethodFacts
<1>7. /\ Executes(f) \in Nat \ {0} /\ Executes(f) \in DOMAIN m.clauses
      /\ f.clause[2] = Executes(f)
  BY <1>3, <1>4, <1>5, <1>6, Executed
<1>8. f.clause[1] = frames[k].method
  BY <1>4, <1>5 DEF FlowOK
<1>9. m.clauses[Executes(f)].kind = "filter"
  BY <1>4, <1>7, <1>8
<1>10. IsInnermost(m.clauses, p, Executes(f))
  <2>1. Executing(flows, r, k) = Executes(f)
    BY <1>3, <1>4 DEF Executing
  <2> QED BY <1>7, <2>1 DEF InnermostOrNone
<1>11. SupportedRaise(m, p)
  BY <1>2 DEF RaisesSupported, SupportedRaises
<1> QED BY <1>7, <1>9, <1>10, <1>11 DEF SupportedRaise

(* ex is raised: a throw flow on those that are there. *)
RaisedHere(ex) ==
    /\ outcome = "running" /\ outcome' = "running" /\ mode' = "unwind"
    /\ program' = program /\ ip' = ip /\ entries' = entries
    /\ CutTo(frames, frames', Cur)
    /\ Grown(flows, flows', Top, ThrowFlow(ex, Cur, <<Method, ip>>))

LEMMA RaiseStep ==
    ASSUME ProgramsSupported, RaisesSupported, FlowsIInv, Running, Instr.op \in RaisingOps,
           NEW ex, Raise(ex)
    PROVE  RaisedHere(ex)
<1>1. outcome = "running"
  BY DEF Running
<1>2. /\ Cur \in Nat \ {0} /\ DOMAIN frames = 1 .. Cur /\ Method = frames[Cur].method
      /\ ip \in DOMAIN program[Method].code
      /\ Top \in Nat /\ DOMAIN flows = 1 .. Top
  BY <1>1, StateFacts
<1>3. /\ InnermostOrNone(Clauses, ip, Executing(flows, Top, Cur))
      /\ flows \in Seq(FlowSet(program)) /\ frames \in Seq(FrameSet(program))
      /\ Len(flows) = Top
  BY InstructionFacts DEF FlowsIInv, FramesTyped, Top
<1>4. ~InFilterCheck(flows, Cur)
  <2>1. Cur \in 1 .. Cur /\ Top \in 0 .. Top
    BY <1>2
  <2>2. \A x \in 1 .. Top : flows[x] = flows[x]
    OBVIOUS
  <2> QED BY <1>1, <1>2, <1>3, <2>1, <2>2, NotInFilter DEF Instr, Clauses
<1>5. /\ mode' = "unwind" /\ ip' = ip
      /\ UNCHANGED <<program, entries, outcome>>
      /\ flows' = Append(flows, ThrowFlow(ex, Cur, <<Method, ip>>))
      /\ frames' = [frames EXCEPT ![Cur].ip = ip]
  BY <1>4 DEF Raise, RaiseAt, Cur, Method
<1>6. Grown(flows, flows', Top, ThrowFlow(ex, Cur, <<Method, ip>>))
  <2>1. PICK g : g = ThrowFlow(ex, Cur, <<Method, ip>>)
    OBVIOUS
  <2>2. flows' = Append(flows, g)
    BY <1>5, <2>1
  <2>3. /\ DOMAIN flows' = 1 .. (Top + 1) /\ Len(flows') = Top + 1
        /\ \A x \in 1 .. Top : flows'[x] = flows[x]
        /\ flows'[Top + 1] = g
    BY <1>2, <1>3, <2>2
  <2> QED BY <1>2, <2>1, <2>3 DEF Grown
<1>7. CutTo(frames, frames', Cur)
  <2>1. /\ DOMAIN frames' = DOMAIN frames
        /\ \A j \in DOMAIN frames : j # Cur => frames'[j] = frames[j]
        /\ frames'[Cur].method = frames[Cur].method
    <3>1. frames[Cur] \in FrameSet(program)
      BY <1>2, <1>3, ElementOfSeq
    <3> QED BY <1>2, <1>5, <3>1 DEF FrameSet
  <2>2. Len(frames') = Cur
    BY <1>2, <1>3, <1>5 DEF Cur
  <2> QED BY <1>2, <2>1, <2>2 DEF CutTo
<1> QED BY <1>1, <1>5, <1>6, <1>7 DEF RaisedHere

LEMMA AppendGrown ==
    ASSUME NEW S, NEW base, NEW fs \in Seq(S), NEW r \in Nat, Len(fs) = r,
           1 .. r \subseteq DOMAIN base, \A x \in 1 .. r : fs[x] = base[x],
           NEW g, NEW gs, gs = Append(fs, g)
    PROVE  Grown(base, gs, r, g)
<1>1. /\ DOMAIN gs = 1 .. (r + 1) /\ Len(gs) = r + 1
      /\ \A x \in 1 .. r : gs[x] = fs[x]
      /\ gs[r + 1] = g
  OBVIOUS
<1> QED BY <1>1 DEF Grown

(* The flow on top is popped, ... *)
LEMMA PopStep ==
    ASSUME ProgramsSupported, FlowsIInv, outcome = "running", Top # 0
    PROVE  Cut(flows, Front(flows), Top - 1) /\ Top - 1 \in 0 .. Top /\ Top \in Nat
<1>1. Top \in Nat /\ DOMAIN flows = 1 .. Top
  BY StateFacts
<1>2. /\ Front(flows) \in Seq(FlowSet(program))
      /\ Len(Front(flows)) = Top - 1
      /\ \A x \in 1 .. Top - 1 : Front(flows)[x] = flows[x]
  BY FlowsFront
<1>3. PICK fs : fs = Front(flows)
  OBVIOUS
<1>4. DOMAIN fs = 1 .. Top - 1
  BY <1>2, <1>3
<1> QED BY <1>1, <1>2, <1>3, <1>4 DEF Cut

(* ... or replaced. *)
LEMMA ReplaceStep ==
    ASSUME ProgramsSupported, FlowsIInv, outcome = "running", Top # 0, NEW g,
           flows' = Append(Front(flows), g)
    PROVE  Grown(flows, flows', Top - 1, g)
<1>1. Top \in Nat /\ DOMAIN flows = 1 .. Top
  BY StateFacts
<1>2. /\ Front(flows) \in Seq(FlowSet(program))
      /\ Len(Front(flows)) = Top - 1
      /\ \A x \in 1 .. Top - 1 : Front(flows)[x] = flows[x]
  BY FlowsFront
<1>3. Top - 1 \in Nat /\ 1 .. Top - 1 \subseteq DOMAIN flows
  BY <1>1
<1> QED BY <1>2, <1>3, AppendGrown

(* A leave runs a finally block, having popped the flow of a catch. *)
EntersFirst(r) ==
    /\ outcome = "running" /\ mode' = "run" /\ ip' = Clauses[Min(Finallys)].entry
    /\ UNCHANGED <<program, frames, entries, outcome>>
    /\ r \in 0 .. Top
    /\ Grown(flows, flows', r, LeaveFlow(Instr.target, Min(Finallys), Cardinality(Finallys) - 1))

LEMMA EnterTryStep ==
    ASSUME ProgramsSupported, FlowsIInv, LeaveTryWithFinally PROVE EntersFirst(Top)
<1>1. /\ outcome = "running" /\ EnterFirstFinally(flows)
      /\ UNCHANGED <<program, frames, entries, outcome>>
  BY DEF LeaveTryWithFinally, Running
<1>2. Top \in Nat /\ DOMAIN flows = 1 .. Top
  BY <1>1, StateFacts
<1>3. PICK g : g = LeaveFlow(Instr.target, Min(Finallys), Cardinality(Finallys) - 1)
  OBVIOUS
<1>4. flows' = Append(flows, g) /\ ip' = Clauses[Min(Finallys)].entry /\ mode' = "run"
  BY <1>1, <1>3 DEF EnterFirstFinally, Goto
<1>5. flows \in Seq(FlowSet(program)) /\ Len(flows) = Top /\ 1 .. Top \subseteq DOMAIN flows
  BY <1>2 DEF FlowsIInv, FramesTyped, Top
<1>6. Grown(flows, flows', Top, g)
  <2>1. \A x \in 1 .. Top : flows[x] = flows[x]
    OBVIOUS
  <2> QED BY <1>2, <1>4, <1>5, <2>1, AppendGrown
<1>7. Top \in 0 .. Top
  BY <1>2
<1> QED BY <1>1, <1>3, <1>4, <1>6, <1>7 DEF EntersFirst

LEMMA EnterCatchStep ==
    ASSUME ProgramsSupported, FlowsIInv, LeaveCatchWithFinally
    PROVE  EntersFirst(Top - 1) /\ Top # 0
<1>1. /\ outcome = "running" /\ EnterFirstFinally(Front(flows)) /\ Running /\ Instr.op = "leave"
      /\ Surrounding = "catch_or_filter"
      /\ UNCHANGED <<program, frames, entries, outcome>>
  BY DEF LeaveCatchWithFinally, Running
<1>2. Top # 0
  BY <1>1, LeavesCatch
<1>3. PICK g : g = LeaveFlow(Instr.target, Min(Finallys), Cardinality(Finallys) - 1)
  OBVIOUS
<1>4. /\ flows' = Append(Front(flows), g)
      /\ ip' = Clauses[Min(Finallys)].entry /\ mode' = "run"
  BY <1>1, <1>3 DEF EnterFirstFinally, Goto
<1>5. Grown(flows, flows', Top - 1, g)
  BY <1>1, <1>2, <1>4, ReplaceStep
<1>6. Top - 1 \in 0 .. Top
  BY <1>1, <1>2, PopStep
<1> QED BY <1>1, <1>2, <1>3, <1>4, <1>5, <1>6 DEF EntersFirst

(* A throw enters the handler of clause i, above the first r flows. *)
TakenBy(i, r, g) ==
    /\ UnwindingThrow
    /\ i \in DOMAIN Clauses /\ FirstTaking(i)
    /\ r \in 0 .. Top - 1
    /\ \A x \in r + 1 .. Top - 1 :
           /\ flows[x].frame = Cur
           /\ Clauses[i].kind = "catch" /\ ~Covers(Clauses, flows[x], Clauses[i].entry)
    /\ g.throw = TRUE /\ g.ex = TopFlow.ex /\ g.frame = Cur /\ g.at = TopFlow.at
    /\ g.clause = <<Method, i>>
    /\ Grown(flows, flows', r, g)
    /\ ip' = Clauses[i].entry /\ mode' = "run" /\ outcome = "running"
    /\ UNCHANGED <<program, frames, entries, outcome>>

Taken == \E i, r, g : TakenBy(i, r, g)

LEMMA CatchStep ==
    ASSUME ProgramsSupported, FlowsIInv, UnwindToCatch PROVE Taken
<1> DEFINE f == flows[Top]
<1>1. UnwindingThrow /\ UNCHANGED <<program, frames, entries, outcome>>
  BY DEF UnwindToCatch
<1>2. PICK i \in DOMAIN Clauses :
          /\ FirstTaking(i) /\ Clauses[i].kind = "catch" /\ Goto(Clauses[i].entry)
          /\ flows' = Append(PopOutOfScope(Front(flows), Clauses[i].entry),
                          [TopFlow EXCEPT !.next = i + 1, !.clause = <<Method, i>>,
                                          !.handled = TRUE])
  BY DEF UnwindToCatch
<1>3. /\ outcome = "running" /\ mode = "unwind"
      /\ TopFlow = f /\ f.throw = TRUE /\ f.frame = Cur /\ f \in ThrowFlows(program)
      /\ f.at[2] \in Clauses[i].try /\ i >= f.next
      /\ ThrowOK(program[Method], flows, Top)
  BY <1>1, <1>2, TakingFacts
<1>4. PICK g : g = [f EXCEPT !.next = i + 1, !.clause = <<Method, i>>, !.handled = TRUE]
  OBVIOUS
<1>5. /\ g.throw = TRUE /\ g.ex = f.ex /\ g.frame = Cur /\ g.at = f.at
      /\ g.clause = <<Method, i>>
  BY <1>3, <1>4 DEF ThrowFlows
<1>6. Reaches(Clauses, flows, Top - 1, Cur, i)
  BY <1>2, <1>3 DEF ThrowOK, Clauses
<1>7. PICK fs : fs = PopOutOfScope(Front(flows), Clauses[i].entry)
  OBVIOUS
<1>8. PICK r \in 0 .. Top - 1 :
          /\ fs \in Seq(FlowSet(program)) /\ Len(fs) = r
          /\ \A x \in 1 .. r : fs[x] = flows[x]
          /\ StopsAt(Clauses, flows, Top - 1, Cur, i, r)
  BY <1>3, <1>6, <1>7, PopsTo
<1>9. Top \in Nat /\ DOMAIN flows = 1 .. Top
  BY <1>3, StateFacts
<1>10. Grown(flows, flows', r, g)
  <2>1. r \in Nat /\ 1 .. r \subseteq DOMAIN flows
    BY <1>9
  <2>2. flows' = Append(fs, g)
    BY <1>2, <1>3, <1>4, <1>7
  <2> QED BY <1>8, <2>1, <2>2, AppendGrown
<1>11. \A x \in r + 1 .. Top - 1 :
           flows[x].frame = Cur /\ ~Covers(Clauses, flows[x], Clauses[i].entry)
  BY <1>8 DEF StopsAt
<1>12. ip' = Clauses[i].entry /\ mode' = "run"
  BY <1>2 DEF Goto
<1>13. TakenBy(i, r, g)
  BY <1>1, <1>2, <1>3, <1>5, <1>8, <1>10, <1>11, <1>12 DEF TakenBy
<1> QED BY <1>13 DEF Taken

LEMMA BlockStep ==
    ASSUME ProgramsSupported, FlowsIInv, NEW kinds, UnwindToBlock(kinds) PROVE Taken
<1> DEFINE f == flows[Top]
<1>1. UnwindingThrow /\ UNCHANGED <<program, frames, entries, outcome>>
  BY DEF UnwindToBlock
<1>2. PICK i \in DOMAIN Clauses :
          /\ FirstTaking(i) /\ Goto(Clauses[i].entry)
          /\ SetTopFlow(SearchFromNext(TopFlow, i))
  BY DEF UnwindToBlock
<1>3. /\ outcome = "running" /\ mode = "unwind"
      /\ TopFlow = f /\ f.throw = TRUE /\ f.frame = Cur /\ f \in ThrowFlows(program)
  BY <1>1, <1>2, TakingFacts
<1>4. PICK g : g = [f EXCEPT !.next = i + 1, !.clause = <<Method, i>>]
  OBVIOUS
<1>5. /\ g.throw = TRUE /\ g.ex = f.ex /\ g.frame = Cur /\ g.at = f.at
      /\ g.clause = <<Method, i>>
  BY <1>3, <1>4 DEF ThrowFlows
<1>6. Top # 0
  BY <1>3, UnwindFacts
<1>7. Grown(flows, flows', Top - 1, g)
  <2>1. flows' = Append(Front(flows), g)
    BY <1>2, <1>3, <1>4 DEF SetTopFlow, SearchFromNext
  <2> QED BY <1>3, <1>6, <2>1, ReplaceStep
<1>8. Top \in Nat /\ Top - 1 \in 0 .. Top - 1 /\ \A x \in (Top - 1) + 1 .. Top - 1 : FALSE
  <2>1. Top \in Nat
    BY <1>3, StateFacts
  <2> QED BY <1>6, <2>1
<1>9. ip' = Clauses[i].entry /\ mode' = "run"
  BY <1>2 DEF Goto
<1>10. TakenBy(i, Top - 1, g)
  BY <1>1, <1>2, <1>3, <1>5, <1>7, <1>8, <1>9 DEF TakenBy
<1> QED BY <1>10 DEF Taken

(* The next finally block of the leave on top, clause i. *)
EntersNext(i, g) ==
    /\ outcome = "running" /\ mode = "unwind" /\ ~TopFlow.throw
    /\ i \in RemainingFinallys(TopFlow) /\ \A j \in RemainingFinallys(TopFlow) : i <= j
    /\ g.throw = FALSE /\ g.frame = Cur /\ g.src = TopFlow.src /\ g.target = TopFlow.target
    /\ g.clause = TopFlow.clause /\ g.next = i + 1
    /\ Grown(flows, flows', Top - 1, g)
    /\ ip' = Clauses[i].entry /\ mode' = "run"
    /\ UNCHANGED <<program, frames, entries, outcome>>

NextEntered == \E i, g : EntersNext(i, g)

LEMMA NextStep ==
    ASSUME ProgramsSupported, FlowsIInv, NextFinally PROVE NextEntered
<1> DEFINE f == flows[Top]
<1>1. /\ outcome = "running" /\ mode = "unwind" /\ ~TopFlow.throw
      /\ UNCHANGED <<program, frames, entries, outcome>>
  BY DEF NextFinally, UnwindingLeave
<1>2. /\ TopFlow = f /\ f.frame = Cur /\ f \in FlowSet(program) /\ Top # 0
      /\ WellNested(Clauses) /\ DOMAIN Clauses \subseteq Nat \ {0}
  BY <1>1, UnwindFacts
<1>3. f \in LeaveFlows(program) /\ f.next \in Nat /\ f.throw = FALSE
  <2>1. f.throw \in BOOLEAN /\ ~f.throw
    BY <1>1, <1>2, FlowFields
  <2> QED BY <1>2, <2>1, FlowFields
<1>4. PICK R, i : R = RemainingFinallys(f) /\ i = Min(R)
  OBVIOUS
<1>5. i \in R /\ \A j \in R : i <= j
  <2>1. R \subseteq Nat /\ R # {}
    BY <1>1, <1>2, <1>4 DEF NextFinally, RemainingFinallys, FinallysBetween
  <2> QED BY <1>4, <2>1, MinOfNats
<1>6. PICK g : g = [f EXCEPT !.next = i + 1, !.remain = @ - 1]
  OBVIOUS
<1>7. SetTopFlow(g) /\ ip' = Clauses[i].entry /\ mode' = "run"
  BY <1>2, <1>4, <1>6 DEF NextFinally, Goto
<1>8. /\ g.throw = FALSE /\ g.frame = Cur /\ g.src = f.src /\ g.target = f.target
      /\ g.clause = f.clause /\ g.next = i + 1
  BY <1>2, <1>3, <1>6 DEF LeaveFlows
<1>9. Grown(flows, flows', Top - 1, g)
  BY <1>1, <1>2, <1>7, ReplaceStep DEF SetTopFlow
<1>10. EntersNext(i, g)
  BY <1>1, <1>2, <1>4, <1>5, <1>7, <1>8, <1>9 DEF EntersNext
<1> QED BY <1>10 DEF NextEntered

(* The caller of the last frame is at offset p: saved with it, or, when it *)
(* called through native code, with the execute() call.                    *)
SavedAt(p) ==
    \/ /\ \A e \in DOMAIN entries : entries[e].base # Cur
       /\ p = frames[Cur - 1].ip
       /\ entries' = entries
    \/ \E e \in DOMAIN entries : entries[e].base = Cur /\ p = entries[e].ip

CallerPlaced(p, r) ==
    /\ r \in 0 .. Top
    /\ \A x \in 1 .. r : flows[x].frame <= Cur - 1 /\ flows[x].clause # NoClause
    /\ \A x \in r + 1 .. Top : flows[x].frame = Cur
    /\ p \in DOMAIN program[frames[Cur - 1].method].code
    /\ InnermostOrNone(program[frames[Cur - 1].method].clauses, p, Executing(flows, r, Cur - 1))

(* The last frame ends, and with it the execute() call that began there. *)
Ended ==
    /\ outcome = "running" /\ outcome' = "running" /\ program' = program
    /\ Cur > 1
    /\ CutTo(frames, frames', Cur - 1)
    /\ EntriesBelow(entries, entries', Cur - 1)

LEMMA EntriesBelowFrom ==
    ASSUME ProgramsSupported, FlowsIInv, outcome = "running", NEW k \in Nat, EntriesUpTo(k)
    PROVE  EntriesBelow(entries, entries', k)
<1>1. Depth \in Nat /\ DOMAIN entries = 1 .. Depth
  BY StateFacts
<1>2. DOMAIN entries' = 1 .. Depth' /\ Depth' \in 1 .. Depth
  BY DEF EntriesUpTo, Depth
<1>3. \A e \in 1 .. Depth : e \in 1 .. Depth' \/ e > Depth'
  BY <1>1, <1>2
<1>4. \A e \in DOMAIN entries : entries[e].base > k \/ e \in DOMAIN entries'
  BY <1>1, <1>2, <1>3 DEF EntriesUpTo
<1>5. \A e \in DOMAIN entries' : e \in DOMAIN entries /\ entries'[e] = entries[e]
  BY <1>1, <1>2 DEF EntriesUpTo
<1> QED BY <1>4, <1>5 DEF EntriesBelow

LEMMA CutFront ==
    ASSUME ProgramsSupported, FlowsIInv, outcome = "running", Cur > 1,
           NEW frs, frs = Front(frames)
    PROVE  CutTo(frames, frs, Cur - 1) /\ Cur - 1 \in Nat
<1>1. Cur \in Nat \ {0} /\ DOMAIN frames = 1 .. Cur
  BY StateFacts
<1>2. frames \in Seq(FrameSet(program)) /\ Len(frames) = Cur
  BY DEF FlowsIInv, FramesTyped, Cur
<1>3. PICK n \in Nat \ {0} : n = Cur
  BY <1>1
<1>4. /\ frs \in Seq(FrameSet(program)) /\ Len(frs) = n - 1
      /\ \A j \in 1 .. n - 1 : frs[j] = frames[j]
  BY <1>2, <1>3, FrontOf
<1>5. DOMAIN frs = 1 .. n - 1 /\ n - 1 \in Nat \ {0} /\ 1 .. n - 1 \subseteq DOMAIN frames
  BY <1>1, <1>3, <1>4
<1> QED BY <1>3, <1>4, <1>5 DEF CutTo

(* Where a call in the same execute() has saved the ip. *)
LEMMA SavedHere ==
    ASSUME ProgramsSupported, FlowsIInv, outcome = "running", Cur # Last(entries).base,
           entries' = entries
    PROVE  /\ Cur > 1 /\ SavedAt(frames[Cur - 1].ip)
           /\ EntriesBelow(entries, entries', Cur - 1)
           /\ frames[Cur - 1].ip \in DOMAIN program[frames[Cur - 1].method].code
           /\ Placed(program[frames[Cur - 1].method], flows, Cur - 1, frames[Cur - 1].ip)
<1>1. /\ Cur \in Nat \ {0} /\ DOMAIN frames = 1 .. Cur
      /\ Depth \in Nat \ {0} /\ DOMAIN entries = 1 .. Depth
      /\ \A e \in 1 .. Depth : entries[e].base \in 1 .. Cur
  BY StateFacts
<1>2. /\ Last(entries).base \in 1 .. Cur /\ Last(entries) = entries[Depth]
      /\ \A e \in 1 .. Depth : e < Depth => entries[e].base < Last(entries).base
  BY LastEntry
<1>3. PICK k \in Nat : k = Cur - 1 /\ k \in 1 .. Cur /\ k < Cur /\ Last(entries).base <= k
  BY <1>1, <1>2
<1>4. \A e \in DOMAIN entries : entries[e].base # Cur
  BY <1>1, <1>2
<1>5. SavedAt(frames[Cur - 1].ip)
  BY <1>4 DEF SavedAt
<1>6. k \in DOMAIN frames
  BY <1>1, <1>3
<1>7. frames[k].ip \in DOMAIN program[frames[k].method].code
  BY <1>6 DEF FlowsIInv, FramesTyped
<1>8. Placed(program[frames[k].method], flows, k, frames[k].ip)
  <2>1. k + 1 = Cur /\ k < Len(frames)
    BY <1>1, <1>3 DEF Cur
  <2> QED BY <1>4, <1>6, <2>1 DEF FlowsIInv, CallersPlaced
<1>9. EntriesBelow(entries, entries', k)
  <2>1. EntriesUpTo(k)
    BY <1>3, EntriesStay
  <2> QED BY <1>3, <2>1, EntriesBelowFrom
<1>10. Cur > 1
  BY <1>1, <1>3
<1> QED BY <1>3, <1>5, <1>7, <1>8, <1>9, <1>10

LEMMA SavedOutside ==
    ASSUME ProgramsSupported, FlowsIInv, outcome = "running", Cur = Last(entries).base,
           Depth > 1, entries' = Front(entries)
    PROVE  /\ Cur > 1 /\ SavedAt(Last(entries).ip)
           /\ EntriesBelow(entries, entries', Cur - 1)
           /\ Last(entries).ip \in DOMAIN program[frames[Cur - 1].method].code
           /\ program[frames[Cur - 1].method].code[Last(entries).ip].op = "invoke"
           /\ Placed(program[frames[Cur - 1].method], flows, Cur - 1, Last(entries).ip)
<1>1. Cur \in Nat \ {0} /\ Depth \in Nat \ {0} /\ DOMAIN entries = 1 .. Depth
  BY StateFacts
<1>2. Last(entries) = entries[Depth] /\ Depth \in DOMAIN entries
  BY <1>1, LastEntry
<1>3. SavedAt(Last(entries).ip)
  BY <1>2 DEF SavedAt
<1>4. PICK k : k = Cur - 1
  OBVIOUS
<1>5. /\ k \in 1 .. Cur
      /\ Last(entries).ip \in DOMAIN program[frames[k].method].code
      /\ program[frames[k].method].code[Last(entries).ip].op = "invoke"
      /\ Placed(program[frames[k].method], flows, k, Last(entries).ip)
  BY <1>4, LastEntry
<1>6. Cur > 1 /\ k \in Nat
  BY <1>1, <1>4, <1>5
<1>7. EntriesBelow(entries, entries', k)
  <2>1. EntriesUpTo(k)
    BY <1>4, EntryEnds
  <2> QED BY <1>6, <2>1, EntriesBelowFrom
<1> QED BY <1>3, <1>4, <1>5, <1>6, <1>7

(* The caller gets what was thrown, above the first r flows. *)
PassedOn(r) ==
    /\ Ended /\ mode' = "unwind" /\ UnwindingThrow /\ NoneTakes
    /\ SavedAt(ip') /\ CallerPlaced(ip', r)
    /\ Grown(flows, flows', r, ThrowFlow(TopFlow.ex, Cur - 1, <<frames[Cur - 1].method, ip'>>))

Propagated == \E r : PassedOn(r)

LEMMA CallerGetsIt ==
    ASSUME ProgramsSupported, FlowsIInv, UnwindingThrow, NoneTakes, outcome' = "running",
           mode' = "unwind", program' = program, Cur > 1,
           CutTo(frames, frames', Cur - 1), EntriesBelow(entries, entries', Cur - 1), SavedAt(ip'),
           ip' \in DOMAIN program[frames[Cur - 1].method].code,
           Placed(program[frames[Cur - 1].method], flows, Cur - 1, ip'),
           flows' = Append(PopFrameFlows(flows),
                        ThrowFlow(TopFlow.ex, Cur - 1, <<frames[Cur - 1].method, ip'>>))
    PROVE  Propagated
<1>1. outcome = "running" /\ mode = "unwind"
  BY DEF UnwindingThrow
<1>2. PICK fs, g, k : /\ fs = PopFrameFlows(flows)
                      /\ g = ThrowFlow(TopFlow.ex, Cur - 1, <<frames[Cur - 1].method, ip'>>)
                      /\ k = Cur - 1
  OBVIOUS
<1>3. PICK r \in 0 .. Top - 1 :
          /\ fs \in Seq(FlowSet(program)) /\ Len(fs) = r
          /\ \A x \in 1 .. r : fs[x] = flows[x]
          /\ \A x \in 1 .. r : flows[x].frame \in 1 .. Cur - 1
          /\ \A x \in 1 .. r : flows[x].clause # NoClause
          /\ \A x \in r + 1 .. Top : flows[x].frame = Cur
  BY <1>1, <1>2, FrameFlowsPopped
<1>4. Cur \in Nat /\ Top \in Nat /\ DOMAIN flows = 1 .. Top
  BY <1>1, StateFacts
<1>5. r \in Nat /\ r \in 0 .. Top /\ 1 .. r \subseteq DOMAIN flows
  BY <1>4
<1>6. Grown(flows, flows', r, g)
  BY <1>2, <1>3, <1>5, AppendGrown
<1>7. \A x \in 1 .. r : flows[x].frame <= k
  BY <1>2, <1>3, <1>4
<1>8. InnermostOrNone(program[frames[k].method].clauses, ip', Executing(flows, r, k))
  <2>1. \A x \in r + 1 .. Top : flows[x].frame > k
    BY <1>2, <1>3, <1>4
  <2> QED BY <1>2, <1>5, <1>7, <2>1, PlacedAt
<1>9. CallerPlaced(ip', r)
  BY <1>2, <1>3, <1>5, <1>7, <1>8 DEF CallerPlaced
<1>10. Ended
  BY <1>1 DEF Ended
<1>11. PassedOn(r)
  BY <1>2, <1>6, <1>9, <1>10 DEF PassedOn
<1> QED BY <1>11 DEF Propagated

LEMMA CallerStep ==
    ASSUME ProgramsSupported, FlowsIInv, UnwindToCaller PROVE Propagated
<1>1. /\ UnwindingThrow /\ NoneTakes /\ Cur # Last(entries).base
      /\ flows' = Append(PopFrameFlows(flows),
                      ThrowFlow(TopFlow.ex, Cur - 1, <<frames[Cur - 1].method, ip'>>))
      /\ ip' = frames[Cur - 1].ip /\ frames' = Front(frames)
      /\ outcome' = "running" /\ mode' = "unwind" /\ outcome = "running"
      /\ program' = program /\ entries' = entries
  BY DEF UnwindToCaller, UnwindingThrow
<1>2. /\ Cur > 1 /\ SavedAt(ip')
      /\ EntriesBelow(entries, entries', Cur - 1)
      /\ ip' \in DOMAIN program[frames[Cur - 1].method].code
      /\ Placed(program[frames[Cur - 1].method], flows, Cur - 1, ip')
  BY <1>1, SavedHere
<1>3. CutTo(frames, frames', Cur - 1)
  BY <1>1, <1>2, CutFront
<1> QED BY <1>1, <1>2, <1>3, CallerGetsIt

LEMMA OuterStep ==
    ASSUME ProgramsSupported, RaisesSupported, FlowsIInv, UnwindToNative, Depth > 1
    PROVE  Propagated
<1> DEFINE fs == PopFrameFlows(flows)
           frs == Front(frames)
           p == Last(entries).ip
           ex == TopFlow.ex
<1>1. /\ outcome = "running" /\ mode = "unwind" /\ UnwindingThrow /\ NoneTakes
      /\ Cur = Last(entries).base /\ entries' = Front(entries)
      /\ RaiseAt(fs, frs, p, ex) /\ program' = program /\ outcome' = "running"
  <2>1. Depth # 1
    BY UnwindFacts, StateFacts DEF UnwindToNative, UnwindingThrow
  <2> QED BY <2>1 DEF UnwindToNative, UnwindingThrow, Depth
<1>2. /\ Cur > 1 /\ SavedAt(p)
      /\ EntriesBelow(entries, entries', Cur - 1)
      /\ p \in DOMAIN program[frames[Cur - 1].method].code
      /\ program[frames[Cur - 1].method].code[p].op = "invoke"
      /\ Placed(program[frames[Cur - 1].method], flows, Cur - 1, p)
  BY <1>1, SavedOutside
<1>3. Cur \in Nat /\ Top \in Nat /\ DOMAIN flows = 1 .. Top /\ DOMAIN frames = 1 .. Cur
  BY <1>1, StateFacts
<1>4. PICK k \in Nat \ {0} : k = Cur - 1 /\ k \in 1 .. Cur /\ k \in 1 .. k
  BY <1>2, <1>3
<1>5. CutTo(frames, frs, k) /\ Len(frs) = k /\ frs[k].method = frames[k].method
      /\ DOMAIN frs = 1 .. k
  <2>1. PICK s : s = frs
    OBVIOUS
  <2>2. CutTo(frames, s, k)
    BY <1>1, <1>2, <1>4, <2>1, CutFront
  <2> QED BY <1>4, <2>1, <2>2 DEF CutTo
<1>6. ~InFilterCheck(fs, k)
  <2>1. PICK gs : gs = fs
    OBVIOUS
  <2>2. PICK r \in 0 .. Top - 1 :
            /\ gs \in Seq(FlowSet(program)) /\ Len(gs) = r
            /\ \A x \in 1 .. r : gs[x] = flows[x]
            /\ \A x \in 1 .. r : flows[x].frame \in 1 .. Cur - 1
            /\ \A x \in r + 1 .. Top : flows[x].frame = Cur
    BY <1>1, <2>1, FrameFlowsPopped
  <2>3. r \in 0 .. Top
    BY <1>3
  <2>4. /\ \A x \in 1 .. r : flows[x].frame <= k
        /\ \A x \in r + 1 .. Top : flows[x].frame > k
    BY <1>3, <1>4, <2>2
  <2>5. PICK q : q = p
    OBVIOUS
  <2>6. InnermostOrNone(program[frames[k].method].clauses, q, Executing(flows, r, k))
    BY <1>2, <1>4, <2>3, <2>4, <2>5, PlacedAt
  <2>7. q \in DOMAIN program[frames[k].method].code
    BY <1>2, <1>4, <2>5
  <2>8. program[frames[k].method].code[q].op \in RaisingOps
    BY <1>2, <1>4, <2>5 DEF RaisingOps
  <2> HIDE DEF fs, p
  <2> QED BY <1>1, <1>4, <2>1, <2>2, <2>3, <2>6, <2>7, <2>8, NotInFilter
<1>7. /\ mode' = "unwind" /\ ip' = p
      /\ flows' = Append(fs, ThrowFlow(ex, k, <<frames[k].method, p>>))
      /\ frames' = [frs EXCEPT ![k].ip = p]
  <2> HIDE DEF fs, frs, p, ex
  <2> QED BY <1>1, <1>5, <1>6 DEF RaiseAt
<1>8. CutTo(frames, frames', k)
  <2>1. PICK s : s = frs
    OBVIOUS
  <2>2. s \in Seq(FrameSet(program))
    <3>1. frames \in Seq(FrameSet(program)) /\ Len(frames) = Cur /\ Cur \in Nat \ {0}
      BY <1>1, StateFacts DEF FlowsIInv, FramesTyped, Cur
    <3> QED BY <2>1, <3>1, FrontOf
  <2>3. s[k] \in FrameSet(program)
    BY <1>4, <1>5, <2>1, <2>2, ElementOfSeq
  <2>4. frames' = [s EXCEPT ![k].ip = p] /\ CutTo(frames, s, k)
    BY <1>5, <1>7, <2>1
  <2> HIDE DEF frs, p
  <2>5. /\ DOMAIN frames' = DOMAIN s
        /\ \A j \in DOMAIN s : j # k => frames'[j] = s[j]
        /\ frames'[k].method = s[k].method
    BY <2>3, <2>4 DEF FrameSet, CutTo
  <2>6. Len(frames') = k
    BY <1>5, <2>1, <2>2, <2>4
  <2> QED BY <1>4, <2>4, <2>5, <2>6 DEF CutTo
<1> QED BY <1>1, <1>2, <1>4, <1>7, <1>8, CallerGetsIt

(* The caller goes on behind its call, which it is at. *)
ReturnedTo(p) ==
    /\ Ended /\ mode' = "run" /\ Running
    /\ SavedAt(p) /\ CallerPlaced(p, Top)
    /\ \A x \in 1 .. Top : flows[x].frame < Cur
    /\ flows' = flows
    /\ \/ /\ \A e \in DOMAIN entries : entries[e].base # Cur
          /\ ip' = p
       \/ /\ \E e \in DOMAIN entries : entries[e].base = Cur
          /\ program[frames[Cur - 1].method].code[p].op = "invoke"
          /\ ip' = p + 1

Returned == \E p : ReturnedTo(p)

LEMMA RetStep ==
    ASSUME ProgramsSupported, FlowsIInv, Ret, Cur # 1 \/ Depth # 1 PROVE Returned
<1>1. /\ Running /\ outcome = "running" /\ Instr.op = "ret" /\ frames' = Front(frames)
      /\ program' = program /\ flows' = flows
  BY DEF Ret, Running
<1>2. /\ program \in Programs
      /\ Cur \in Nat \ {0} /\ DOMAIN frames = 1 .. Cur /\ Method = frames[Cur].method
      /\ \A k \in 1 .. Cur : frames[k].method \in DOMAIN program
      /\ ip \in DOMAIN program[Method].code
      /\ Top \in Nat /\ DOMAIN flows = 1 .. Top
      /\ Depth \in Nat \ {0} /\ DOMAIN entries = 1 .. Depth
  BY <1>1, StateFacts
<1>3. \A x \in 1 .. Top : flows[x].frame < Cur /\ flows[x].frame \in Nat
  <2>1. Cur \in 1 .. Cur
    BY <1>2
  <2>2. WellFormedAt(program[Method], ip)
    BY <1>2, <2>1, MethodFacts
  <2>3. \A h \in DOMAIN Clauses : ip \notin Clauses[h].handler
    BY <1>1, <2>2 DEF WellFormedAt, Instr, Clauses
  <2>4. \A s \in 1 .. Top : flows[s].frame \in 1 .. Cur
    BY <1>1, StateFacts
  <2> QED BY <1>1, <2>3, <2>4, NoFlowOfLast
<1>4. ASSUME NEW p, Placed(program[frames[Cur - 1].method], flows, Cur - 1, p), Cur > 1,
             p \in DOMAIN program[frames[Cur - 1].method].code
      PROVE  CallerPlaced(p, Top)
  <2>1. PICK k : k = Cur - 1
    OBVIOUS
  <2>2. /\ Top \in 0 .. Top
        /\ \A x \in 1 .. Top : flows[x].frame <= k
        /\ \A x \in Top + 1 .. Top : flows[x].frame > k
        /\ \A x \in Top + 1 .. Top : flows[x].frame = Cur
    BY <1>2, <1>3, <2>1
  <2>3. \A x \in 1 .. Top : flows[x].clause # NoClause
    BY <1>1, InstructionFacts
  <2>4. InnermostOrNone(program[frames[k].method].clauses, p, Executing(flows, Top, k))
    BY <1>4, <2>1, <2>2, PlacedAt
  <2> QED BY <1>4, <2>1, <2>2, <2>3, <2>4 DEF CallerPlaced
<1>5. CASE /\ Cur # Last(entries).base /\ Goto(frames[Cur - 1].ip)
           /\ UNCHANGED <<entries, outcome>>
  <2>1. /\ Cur > 1 /\ SavedAt(frames[Cur - 1].ip)
        /\ EntriesBelow(entries, entries', Cur - 1)
        /\ frames[Cur - 1].ip \in DOMAIN program[frames[Cur - 1].method].code
        /\ Placed(program[frames[Cur - 1].method], flows, Cur - 1, frames[Cur - 1].ip)
    BY <1>1, <1>5, SavedHere
  <2>2. \A e \in DOMAIN entries : entries[e].base # Cur
    <3>1. /\ Last(entries).base \in 1 .. Cur /\ Last(entries) = entries[Depth]
          /\ \A e \in 1 .. Depth : e < Depth => entries[e].base < Last(entries).base
      BY <1>1, LastEntry
    <3> QED BY <1>2, <1>5, <3>1
  <2>3. CutTo(frames, frames', Cur - 1)
    BY <1>1, <2>1, CutFront
  <2>4. PICK p : p = frames[Cur - 1].ip
    OBVIOUS
  <2>5. CallerPlaced(p, Top)
    BY <1>4, <2>1, <2>4
  <2>6. Ended /\ mode' = "run" /\ ip' = p
    BY <1>1, <1>5, <2>1, <2>3, <2>4 DEF Ended, Goto
  <2>7. ReturnedTo(p)
    BY <1>1, <1>3, <2>1, <2>2, <2>4, <2>5, <2>6 DEF ReturnedTo
  <2> QED BY <2>7 DEF Returned
<1>6. CASE /\ Cur = Last(entries).base /\ entries' = Front(entries)
           /\ Goto(Last(entries).ip + 1)
           /\ outcome' = IF Len(entries) = 1 THEN "returned" ELSE "running"
  <2>1. Depth > 1 /\ outcome' = "running"
    <3>1. Depth # 1
      <4>1. Depth = 1 => Last(entries).base = 1
        BY <1>1, LastEntry
      <4> QED BY <1>6, <4>1
    <3> QED BY <1>2, <1>6, <3>1 DEF Depth
  <2>2. PICK p : p = Last(entries).ip
    OBVIOUS
  <2>3. /\ Cur > 1 /\ SavedAt(p)
        /\ EntriesBelow(entries, entries', Cur - 1)
        /\ p \in DOMAIN program[frames[Cur - 1].method].code
        /\ program[frames[Cur - 1].method].code[p].op = "invoke"
        /\ Placed(program[frames[Cur - 1].method], flows, Cur - 1, p)
    BY <1>1, <1>6, <2>1, <2>2, SavedOutside
  <2>4. CutTo(frames, frames', Cur - 1)
    BY <1>1, <2>3, CutFront
  <2>5. CallerPlaced(p, Top)
    BY <1>4, <2>3
  <2>6. Ended /\ mode' = "run" /\ ip' = p + 1
    BY <1>1, <1>6, <2>1, <2>2, <2>3, <2>4 DEF Ended, Goto
  <2>7. \E e \in DOMAIN entries : entries[e].base = Cur
    <3>1. Last(entries) = entries[Depth] /\ Depth \in DOMAIN entries
      BY <1>1, <1>2, LastEntry
    <3> QED BY <1>6, <3>1
  <2>8. ReturnedTo(p)
    BY <1>1, <1>3, <2>3, <2>5, <2>6, <2>7 DEF ReturnedTo
  <2> QED BY <2>8 DEF Returned
<1> QED BY <1>1, <1>5, <1>6 DEF Ret

(* A frame is entered, at the first instruction of method n. *)
Entered ==
    /\ Running /\ Instr.op \in {"call", "invoke"} /\ mode' = "run" /\ ip' = 1
    /\ UNCHANGED <<program, flows, outcome>>
    /\ DOMAIN frames' = 1 .. (Cur + 1) /\ Len(frames') = Cur + 1
    /\ \A j \in 1 .. Cur : frames'[j].method = frames[j].method
    /\ \A j \in 1 .. Cur : j # Cur => frames'[j].ip = frames[j].ip
    /\ frames'[Cur + 1].method = Instr.method
    /\ \A e \in DOMAIN entries : e \in DOMAIN entries' /\ entries'[e] = entries[e]
    /\ \A e \in DOMAIN entries' : e \in DOMAIN entries \/ entries'[e].base = Cur + 1
    /\ \/ /\ Instr.op = "call" /\ frames'[Cur].ip = ip + 1
          /\ \A e \in DOMAIN entries' : entries'[e].base # Cur + 1
       \/ /\ Instr.op = "invoke"
          /\ \E e \in DOMAIN entries' : entries'[e].base = Cur + 1 /\ entries'[e].ip = ip

LEMMA CallStep ==
    ASSUME ProgramsSupported, FlowsIInv, Call PROVE Entered
<1>1. /\ Running /\ outcome = "running" /\ Instr.op = "call"
      /\ frames' = Append([frames EXCEPT ![Cur].ip = ip + 1], [method |-> Instr.method, ip |-> 1])
      /\ ip' = 1 /\ mode' = "run"
      /\ UNCHANGED <<program, entries, flows, outcome>>
  BY DEF Call, Running, Goto
<1>2. /\ Cur \in Nat \ {0} /\ Cur = Len(frames) /\ frames \in Seq(FrameSet(program))
      /\ DOMAIN frames = 1 .. Cur
      /\ Depth \in Nat /\ DOMAIN entries = 1 .. Depth
      /\ \A e \in 1 .. Depth : entries[e].base \in 1 .. Cur
  BY <1>1, StateFacts DEF FlowsIInv, FramesTyped, Cur
<1>3. PICK f, new : /\ f = [frames[Cur] EXCEPT !.ip = ip + 1]
                    /\ new = [method |-> Instr.method, ip |-> 1]
  OBVIOUS
<1>4. f \in FrameSet(program) /\ f.method = frames[Cur].method /\ f.ip = ip + 1
  <2>1. frames[Cur] \in FrameSet(program) /\ ip + 1 \in Nat
    BY <1>2, ElementOfSeq DEF FlowsIInv, FramesTyped
  <2> QED BY <1>3, <2>1 DEF FrameSet
<1>5. PICK frs : frs = [frames EXCEPT ![Cur] = f]
  OBVIOUS
<1>6. frames' = Append(frs, new)
  BY <1>1, <1>3, <1>5
<1>7. /\ frs \in Seq(FrameSet(program)) /\ Len(frs) = Cur
      /\ \A j \in 1 .. Cur : frs[j].method = frames[j].method
      /\ \A j \in 1 .. Cur : j # Cur => frs[j] = frames[j]
      /\ frs[Cur] = f
  <2>1. Cur \in 1 .. Len(frames)
    BY <1>2
  <2> QED BY <1>2, <1>4, <1>5, <2>1, IpSaved
<1>8. /\ DOMAIN frames' = 1 .. (Cur + 1) /\ Len(frames') = Cur + 1
      /\ \A j \in 1 .. Cur : frames'[j] = frs[j]
      /\ frames'[Cur + 1] = new
  BY <1>2, <1>6, <1>7
<1>9. Cur \in 1 .. Cur /\ \A e \in DOMAIN entries : entries[e].base # Cur + 1
  BY <1>2
<1> QED BY <1>1, <1>3, <1>4, <1>7, <1>8, <1>9 DEF Entered

LEMMA InvokeStep ==
    ASSUME ProgramsSupported, FlowsIInv, Invoke PROVE Entered
<1>1. /\ Running /\ outcome = "running" /\ Instr.op = "invoke"
      /\ frames' = Append(frames, [method |-> Instr.method, ip |-> 1])
      /\ entries' = Append(entries, [base |-> Cur + 1, ip |-> ip])
      /\ ip' = 1 /\ mode' = "run"
      /\ UNCHANGED <<program, flows, outcome>>
  BY DEF Invoke, Running, Goto
<1>2. /\ Cur \in Nat \ {0} /\ Cur = Len(frames) /\ frames \in Seq(FrameSet(program))
      /\ DOMAIN frames = 1 .. Cur
      /\ Depth \in Nat /\ DOMAIN entries = 1 .. Depth /\ Depth = Len(entries)
      /\ entries \in Seq([base : Nat, ip : Nat])
  BY <1>1, StateFacts DEF FlowsIInv, FramesTyped, Cur, Depth
<1>3. PICK n, new : /\ n = [base |-> Cur + 1, ip |-> ip]
                    /\ new = [method |-> Instr.method, ip |-> 1]
  OBVIOUS
<1>4. /\ DOMAIN frames' = 1 .. (Cur + 1) /\ Len(frames') = Cur + 1
      /\ \A j \in 1 .. Cur : frames'[j] = frames[j]
      /\ frames'[Cur + 1] = new
  BY <1>1, <1>2, <1>3
<1>5. /\ DOMAIN entries' = 1 .. (Depth + 1)
      /\ \A e \in 1 .. Depth : entries'[e] = entries[e]
      /\ entries'[Depth + 1] = n
  BY <1>1, <1>2, <1>3
<1>6. Depth + 1 \in 1 .. (Depth + 1) /\ \A e \in 1 .. (Depth + 1) : e \in 1 .. Depth \/ e = Depth + 1
  BY <1>2
<1>7. \E e \in DOMAIN entries' : entries'[e].base = Cur + 1 /\ entries'[e].ip = ip
  BY <1>3, <1>5, <1>6
<1>8. \A e \in DOMAIN entries' : e \in DOMAIN entries \/ entries'[e].base = Cur + 1
  BY <1>2, <1>3, <1>5, <1>6
<1>9. \A e \in DOMAIN entries : e \in DOMAIN entries' /\ entries'[e] = entries[e]
  BY <1>2, <1>5
<1>10. /\ \A j \in 1 .. Cur : frames'[j].method = frames[j].method
       /\ \A j \in 1 .. Cur : j # Cur => frames'[j].ip = frames[j].ip
       /\ frames'[Cur + 1].method = Instr.method
  BY <1>3, <1>4
<1> QED BY <1>1, <1>4, <1>7, <1>8, <1>9, <1>10 DEF Entered
------------------------------------------------------------------------------
(* Each step keeps where flows began.                                      *)

LEMMA SameFrames ==
    ASSUME ProgramsSupported, FlowsIInv, outcome = "running", UNCHANGED <<frames, entries>>
    PROVE  CutTo(frames, frames', Cur) /\ EntriesBelow(entries, entries', Cur)
<1>1. Cur \in Nat \ {0} /\ DOMAIN frames = 1 .. Cur
  BY StateFacts
<1> QED BY <1>1 DEF CutTo, EntriesBelow, Cur

LEMMA KeptIn ==
    ASSUME ProgramsSupported, FlowsIInv, HandlersIInv, outcome = "running", program' = program,
           OriginsKept(program, flows'), UnwindsAt',
           NEW k, CutTo(frames, frames', k), EntriesBelow(entries, entries', k)
    PROVE  HandlersIInv'
<1>1. DOMAIN frames = 1 .. Len(frames) /\ Len(frames) \in Nat
  BY StateFacts DEF Cur
<1>2. CallersWait(program, frames', entries')
  BY <1>1, WaitStep DEF HandlersIInv
<1> QED BY <1>2 DEF HandlersIInv

LEMMA RunsIn ==
    ASSUME ProgramsSupported, FlowsIInv, HandlersIInv, outcome = "running", mode' = "run",
           UNCHANGED <<program, frames, entries>>, OriginsKept(program, flows')
    PROVE  HandlersIInv'
<1>1. CutTo(frames, frames', Cur) /\ EntriesBelow(entries, entries', Cur)
  BY SameFrames
<1>2. UnwindsAt'
  BY DEF UnwindsAt
<1> QED BY <1>1, <1>2, KeptIn

LEMMA StayIn ==
    ASSUME ProgramsSupported, FlowsIInv, HandlersIInv, outcome = "running", mode' = "run",
           UNCHANGED <<program, frames, entries, flows>>
    PROVE  HandlersIInv'
<1>1. OriginsKept(program, flows')
  BY DEF HandlersIInv
<1> QED BY <1>1, RunsIn

LEMMA ThrowOrigins ==
    ASSUME ProgramsSupported, FlowsIInv, HandlersIInv, outcome = "running",
           NEW r \in 0 .. Top, \A x \in 1 .. r : flows[x].clause # NoClause,
           NEW k \in 1 .. Cur, \A x \in 1 .. r : flows[x].frame <= k, NEW p,
           InnermostOrNone(program[frames[k].method].clauses, p, Executing(flows, r, k)),
           NEW ex, NEW gs, Grown(flows, gs, r, ThrowFlow(ex, k, <<frames[k].method, p>>))
    PROVE  OriginsKept(program, gs)
<1>1. PICK g : g = ThrowFlow(ex, k, <<frames[k].method, p>>)
  OBVIOUS
<1>2. g.frame = k /\ Owner(g) = frames[k].method /\ Origin(g) = p
  BY <1>1 DEF ThrowFlow, Owner, Origin
<1>3. \A x \in 1 .. r : flows[x].frame = g.frame =>
          InOrLeft(program[Owner(g)].clauses, Executes(flows[x]), Origin(g))
  BY <1>2, AroundHere
<1> QED BY <1>1, <1>3, GrownOrigins DEF HandlersIInv

LEMMA RaisedIn ==
    ASSUME ProgramsSupported, FlowsIInv, HandlersIInv, Running, NEW ex, RaisedHere(ex)
    PROVE  HandlersIInv'
<1>1. /\ outcome = "running" /\ mode' = "unwind" /\ program' = program /\ ip' = ip
      /\ entries' = entries /\ CutTo(frames, frames', Cur)
      /\ Grown(flows, flows', Top, ThrowFlow(ex, Cur, <<Method, ip>>))
  BY DEF RaisedHere
<1>2. /\ Cur \in Nat \ {0} /\ Method = frames[Cur].method /\ Top \in Nat
      /\ \A s \in 1 .. Top : flows[s].frame \in 1 .. Cur
  BY <1>1, StateFacts
<1>3. /\ Top \in 0 .. Top /\ Cur \in 1 .. Cur
      /\ \A x \in 1 .. Top : flows[x].clause # NoClause /\ flows[x].frame <= Cur
      /\ InnermostOrNone(program[frames[Cur].method].clauses, ip, Executing(flows, Top, Cur))
  BY <1>2, InstructionFacts DEF Clauses
<1>4. OriginsKept(program, flows')
  BY <1>1, <1>2, <1>3, ThrowOrigins
<1>5. UnwindsAt'
  <2>1. PICK gs, at, g : gs = flows' /\ at = <<Method, ip>> /\ g = ThrowFlow(ex, Cur, at)
    OBVIOUS
  <2>2. Grown(flows, gs, Top, g) /\ at[2] = ip /\ g = ThrowFlow(ex, Cur, at)
    BY <1>1, <2>1
  <2>3. Last(gs) = g /\ g.throw = TRUE /\ g.clause = NoClause /\ Origin(g) = at[2]
    <3>1. g.throw = TRUE /\ g.clause = NoClause /\ g.at = at
      BY <2>2 DEF ThrowFlow
    <3>2. Origin(g) = at[2]
      BY <3>1 DEF Origin
    <3>3. Last(gs) = g
      BY <2>2 DEF Grown, Last
    <3> QED BY <3>1, <3>2, <3>3
  <2>4. TopFlow'.throw = TRUE /\ TopFlow'.clause = NoClause /\ Origin(TopFlow') = ip
    BY <2>1, <2>2, <2>3 DEF TopFlow
  <2> QED BY <1>1, <2>4 DEF UnwindsAt
<1>6. EntriesBelow(entries, entries', Cur)
  BY <1>1 DEF EntriesBelow
<1> QED BY <1>1, <1>4, <1>5, <1>6, KeptIn

LEMMA EnteredIn ==
    ASSUME ProgramsSupported, FlowsIInv, HandlersIInv, Entered PROVE HandlersIInv'
<1>1. outcome = "running" /\ Running
  BY DEF Entered, Running
<1>2. /\ Cur \in Nat \ {0} /\ DOMAIN frames = 1 .. Cur /\ Method = frames[Cur].method
      /\ ip \in DOMAIN program[Method].code
  BY <1>1, StateFacts
<1>3. OriginsKept(program', flows') /\ UnwindsAt'
  BY DEF Entered, HandlersIInv, UnwindsAt
<1>4. ASSUME NEW k \in 1 .. (Cur + 1), k < Cur + 1,
             \A e \in DOMAIN entries' : entries'[e].base # k + 1
      PROVE  LET m == program[frames'[k].method]
             IN  /\ frames'[k].ip - 1 \in DOMAIN m.code
                 /\ m.code[frames'[k].ip - 1].op = "call"
  <2>1. k \in 1 .. Cur
    BY <1>2, <1>4
  <2>2. \A e \in DOMAIN entries : entries[e].base # k + 1
    BY <1>4 DEF Entered
  <2>3. CASE k = Cur
    <3>1. Instr.op = "call" /\ frames'[Cur].ip = ip + 1
      BY <1>4, <2>3 DEF Entered
    <3>2. ip \in Nat
      BY DEF FlowsIInv, FramesTyped
    <3>3. frames'[k].ip - 1 = ip
      BY <2>3, <3>1, <3>2
    <3>4. frames'[k].method = Method
      BY <1>2, <2>1, <2>3 DEF Entered
    <3> QED BY <1>2, <3>1, <3>3, <3>4 DEF Instr
  <2>4. CASE k # Cur
    <3>1. frames'[k].ip = frames[k].ip /\ frames'[k].method = frames[k].method
      BY <2>1, <2>4 DEF Entered
    <3>2. k \in DOMAIN frames /\ k < Len(frames)
      <4>1. k \in 1 .. Cur /\ k < Cur
        BY <1>2, <2>1, <2>4
      <4> QED BY <1>2, <4>1 DEF Cur
    <3> QED BY <2>2, <3>1, <3>2 DEF HandlersIInv, CallersWait
  <2> QED BY <2>3, <2>4
<1>5. CallersWait(program', frames', entries')
  BY <1>4 DEF CallersWait, Entered
<1> QED BY <1>3, <1>5 DEF HandlersIInv

LEMMA ReturnedIn ==
    ASSUME ProgramsSupported, FlowsIInv, HandlersIInv, Returned PROVE HandlersIInv'
<1>1. PICK p : ReturnedTo(p)
  BY DEF Returned
<1>2. OriginsKept(program, flows') /\ UnwindsAt'
  BY <1>1 DEF ReturnedTo, HandlersIInv, UnwindsAt
<1> QED BY <1>1, <1>2, KeptIn DEF ReturnedTo, Ended

LEMMA EntersIn ==
    ASSUME ProgramsSupported, FlowsIInv, HandlersIInv, Running, NEW r, EntersFirst(r)
    PROVE  HandlersIInv'
<1>1. PICK g : g = LeaveFlow(Instr.target, Min(Finallys), Cardinality(Finallys) - 1)
  OBVIOUS
<1>2. /\ outcome = "running" /\ mode' = "run" /\ UNCHANGED <<program, frames, entries>>
      /\ r \in 0 .. Top /\ Grown(flows, flows', r, g)
  BY <1>1 DEF EntersFirst
<1>3. g.frame = Cur /\ Owner(g) = Method /\ Origin(g) = ip
  BY <1>1 DEF LeaveFlow, Owner, Origin
<1>4. /\ Cur \in Nat \ {0} /\ Method = frames[Cur].method /\ Top \in Nat
      /\ \A s \in 1 .. Top : flows[s].frame \in 1 .. Cur
  BY <1>2, StateFacts
<1>5. /\ Top \in 0 .. Top /\ Cur \in 1 .. Cur
      /\ \A x \in 1 .. Top : flows[x].clause # NoClause /\ flows[x].frame <= Cur
      /\ InnermostOrNone(program[frames[Cur].method].clauses, ip, Executing(flows, Top, Cur))
  BY <1>4, InstructionFacts DEF Clauses
<1>6. \A x \in 1 .. r : flows[x].frame = g.frame =>
          InOrLeft(program[Owner(g)].clauses, Executes(flows[x]), Origin(g))
  <2>1. \A x \in 1 .. r : x \in 1 .. Top
    BY <1>2, <1>4
  <2> QED BY <1>2, <1>3, <1>4, <1>5, <2>1, AroundHere
<1>7. OriginsKept(program, flows')
  BY <1>2, <1>6, GrownOrigins DEF HandlersIInv
<1> QED BY <1>2, <1>7, RunsIn

LEMMA PopsIn ==
    ASSUME ProgramsSupported, FlowsIInv, HandlersIInv, outcome = "running", Top # 0,
           flows' = Front(flows), mode' = "run", UNCHANGED <<program, frames, entries>>
    PROVE  HandlersIInv'
<1>1. Cut(flows, flows', Top - 1)
  BY PopStep
<1>2. OriginsKept(program, flows')
  BY <1>1, CutOrigins DEF HandlersIInv
<1> QED BY <1>2, RunsIn

LEMMA EndFinallyIn ==
    ASSUME ProgramsSupported, FlowsIInv, HandlersIInv, EndFinally PROVE HandlersIInv'
<1>1. /\ Running /\ outcome = "running" /\ Instr.op = "endfinally" /\ mode' = "unwind"
      /\ UNCHANGED <<program, frames, ip, entries, flows, outcome>>
  BY DEF EndFinally, Running
<1>2. /\ program \in Programs /\ Cur \in Nat \ {0} /\ Method = frames[Cur].method
      /\ \A k \in 1 .. Cur : frames[k].method \in DOMAIN program
      /\ ip \in DOMAIN program[Method].code /\ Top \in Nat
  BY <1>1, StateFacts
<1>3. Method \in DOMAIN program
  BY <1>2
<1>4. WellFormedAt(program[Method], ip) /\ DOMAIN Clauses \subseteq Nat \ {0}
  BY <1>2, <1>3, MethodFacts DEF Clauses
<1>5. PICK i \in DOMAIN Clauses : IsCleanup(Clauses[i]) /\ IsInnermost(Clauses, ip, i)
  BY <1>1, <1>4 DEF WellFormedAt, Instr, Clauses
<1>6. /\ InnermostOrNone(Clauses, ip, Executing(flows, Top, Cur))
      /\ \A s \in 1 .. Top : flows[s].clause # NoClause
  BY <1>1, InstructionFacts
<1>7. Executing(flows, Top, Cur) = i
  <2>1. PICK e : e = Executing(flows, Top, Cur)
    OBVIOUS
  <2>2. e \in DOMAIN Clauses /\ IsInnermost(Clauses, ip, e)
    BY <1>5, <1>6, <2>1 DEF InnermostOrNone, IsInnermost
  <2>3. e <= i /\ i <= e
    BY <1>5, <2>2 DEF IsInnermost
  <2>4. e \in Nat /\ i \in Nat
    BY <1>4, <2>2
  <2> QED BY <2>1, <2>3, <2>4
<1>8. i # 0
  BY <1>4
<1>9. Top # 0 /\ Executes(flows[Top]) = i
  BY <1>2, <1>7, <1>8 DEF Executing
<1>10. TopFlow = flows[Top] /\ Top \in 1 .. Top
  BY <1>2, <1>9 DEF TopFlow, Last, Top
<1>11. /\ TopFlow.clause # NoClause /\ Executes(TopFlow) = i
  BY <1>6, <1>9, <1>10
<1>12. UnwindsAt'
  <2>1. TopFlow' = TopFlow /\ Instr' = Instr /\ Clauses' = Clauses
    BY <1>1 DEF TopFlow, Instr, Clauses, Method, Cur
  <2> QED BY <1>1, <1>5, <1>11, <2>1 DEF UnwindsAt
<1>13. CutTo(frames, frames', Cur) /\ EntriesBelow(entries, entries', Cur)
  BY <1>1, SameFrames
<1>14. OriginsKept(program, flows')
  BY <1>1 DEF HandlersIInv
<1> QED BY <1>1, <1>12, <1>13, <1>14, KeptIn

LEMMA TakenIn ==
    ASSUME ProgramsSupported, FlowsIInv, HandlersIInv, Taken PROVE HandlersIInv'
<1>1. PICK i, r, g : TakenBy(i, r, g)
  BY DEF Taken
<1>2. /\ UnwindingThrow /\ outcome = "running" /\ mode' = "run"
      /\ UNCHANGED <<program, frames, entries>>
      /\ r \in 0 .. Top - 1 /\ Grown(flows, flows', r, g)
      /\ g.throw = TRUE /\ g.frame = Cur /\ g.at = TopFlow.at
  BY <1>1 DEF TakenBy
<1>3. TopFlow.throw /\ mode = "unwind"
  BY <1>2 DEF UnwindingThrow
<1>4. TopFlow = flows[Top] /\ TopFlow.frame = Cur /\ Top \in Nat \ {0}
  BY <1>2, <1>3, UnwindFacts
<1>5. Owner(g) = Owner(TopFlow) /\ Origin(g) = Origin(TopFlow)
  BY <1>2, <1>3 DEF Owner, Origin
<1>6. \A x \in 1 .. r : flows[x].frame = g.frame =>
          InOrLeft(program[Owner(g)].clauses, Executes(flows[x]), Origin(g))
  <2>1. DOMAIN flows = 1 .. Top
    BY <1>2, StateFacts
  <2>2. Top \in DOMAIN flows /\ \A x \in 1 .. r : x \in DOMAIN flows /\ x < Top
    BY <1>2, <1>4, <2>1
  <2> QED BY <1>2, <1>4, <1>5, <2>2 DEF HandlersIInv, OriginsKept
<1>7. OriginsKept(program, flows')
  BY <1>2, <1>6, GrownOrigins DEF HandlersIInv
<1> QED BY <1>2, <1>7, RunsIn

LEMMA NextIn ==
    ASSUME ProgramsSupported, FlowsIInv, HandlersIInv, NextEntered PROVE HandlersIInv'
<1>1. PICK i, g : EntersNext(i, g)
  BY DEF NextEntered
<1>2. /\ outcome = "running" /\ mode = "unwind" /\ mode' = "run" /\ ~TopFlow.throw
      /\ UNCHANGED <<program, frames, entries>>
      /\ Grown(flows, flows', Top - 1, g)
      /\ g.throw = FALSE /\ g.frame = Cur /\ g.src = TopFlow.src /\ g.clause = TopFlow.clause
  BY <1>1 DEF EntersNext
<1>3. TopFlow = flows[Top] /\ TopFlow.frame = Cur /\ Top \in Nat \ {0}
  BY <1>2, UnwindFacts
<1>4. Owner(g) = Owner(TopFlow) /\ Origin(g) = Origin(TopFlow)
  BY <1>2 DEF Owner, Origin
<1>5. \A x \in 1 .. Top - 1 : flows[x].frame = g.frame =>
          InOrLeft(program[Owner(g)].clauses, Executes(flows[x]), Origin(g))
  <2>1. DOMAIN flows = 1 .. Top
    BY <1>2, StateFacts
  <2>2. Top \in DOMAIN flows /\ \A x \in 1 .. Top - 1 : x \in DOMAIN flows /\ x < Top
    BY <1>3, <2>1
  <2> QED BY <1>2, <1>3, <1>4, <2>2 DEF HandlersIInv, OriginsKept
<1>6. OriginsKept(program, flows')
  BY <1>2, <1>5, GrownOrigins DEF HandlersIInv
<1> QED BY <1>2, <1>6, RunsIn

LEMMA PropagatedIn ==
    ASSUME ProgramsSupported, FlowsIInv, HandlersIInv, Propagated PROVE HandlersIInv'
<1>1. PICK r : PassedOn(r)
  BY DEF Propagated
<1>2. PICK k, ex : k = Cur - 1 /\ ex = TopFlow.ex
  OBVIOUS
<1>3. /\ outcome = "running" /\ mode' = "unwind" /\ program' = program
      /\ CutTo(frames, frames', k) /\ EntriesBelow(entries, entries', k)
      /\ r \in 0 .. Top
      /\ \A x \in 1 .. r : flows[x].frame <= k /\ flows[x].clause # NoClause
      /\ InnermostOrNone(program[frames[k].method].clauses, ip', Executing(flows, r, k))
      /\ Grown(flows, flows', r, ThrowFlow(ex, k, <<frames[k].method, ip'>>))
      /\ Cur > 1
  BY <1>1, <1>2 DEF PassedOn, Ended, CallerPlaced
<1>4. k \in 1 .. Cur
  <2>1. Cur \in Nat
    BY <1>3, StateFacts
  <2> QED BY <1>2, <1>3, <2>1
<1>5. OriginsKept(program, flows')
  BY <1>3, <1>4, ThrowOrigins
<1>6. UnwindsAt'
  <2>1. PICK gs, at, g : gs = flows' /\ at = <<frames[k].method, ip'>> /\ g = ThrowFlow(ex, k, at)
    OBVIOUS
  <2>2. Grown(flows, gs, r, g) /\ at[2] = ip' /\ g = ThrowFlow(ex, k, at)
    BY <1>3, <2>1
  <2>3. Last(gs) = g /\ g.throw = TRUE /\ g.clause = NoClause /\ Origin(g) = at[2]
    <3>1. g.throw = TRUE /\ g.clause = NoClause /\ g.at = at
      BY <2>2 DEF ThrowFlow
    <3>2. Origin(g) = at[2]
      BY <3>1 DEF Origin
    <3>3. Last(gs) = g
      BY <2>2 DEF Grown, Last
    <3> QED BY <3>1, <3>2, <3>3
  <2>4. TopFlow'.throw = TRUE /\ TopFlow'.clause = NoClause /\ Origin(TopFlow') = ip'
    BY <2>1, <2>2, <2>3 DEF TopFlow
  <2> QED BY <1>3, <2>4 DEF UnwindsAt
<1> QED BY <1>3, <1>5, <1>6, KeptIn

LEMMA GoneIn ==
    ASSUME frames' = <<>>, flows' = <<>>, mode' = "run" PROVE HandlersIInv'
BY DEF HandlersIInv, OriginsKept, UnwindsAt, CallersWait
------------------------------------------------------------------------------
LEMMA InitHandlers == Init => HandlersIInv
<1> SUFFICES ASSUME Init PROVE HandlersIInv
  OBVIOUS
<1>1. /\ frames = <<[method |-> Main, ip |-> 1]>> /\ entries = <<[base |-> 1, ip |-> 0]>>
      /\ flows = <<>> /\ mode = "run"
  BY DEF Init
<1>2. OriginsKept(program, flows)
  BY <1>1 DEF OriginsKept
<1>3. UnwindsAt
  BY <1>1 DEF UnwindsAt
<1>4. CallersWait(program, frames, entries)
  <2>1. Len(frames) = 1 /\ DOMAIN frames = {1}
    BY <1>1
  <2> QED BY <2>1 DEF CallersWait
<1> QED BY <1>2, <1>3, <1>4 DEF HandlersIInv

LEMMA OverIn ==
    ASSUME FlowsIInv', outcome' # "running" PROVE HandlersIInv'
<1>1. frames' = <<>> /\ flows' = <<>> /\ mode' = "run"
  BY DEF FlowsIInv, FramesTyped
<1> QED BY <1>1, GoneIn

LEMMA RaiseIn ==
    ASSUME ProgramsSupported, RaisesSupported, FlowsIInv, HandlersIInv, Running,
           Instr.op \in RaisingOps, NEW ex, Raise(ex)
    PROVE  HandlersIInv'
<1>1. RaisedHere(ex)
  BY RaiseStep
<1> QED BY <1>1, RaisedIn

LEMMA HandlersStep ==
    ASSUME ProgramsSupported, RaisesSupported, FlowsIInv, HandlersIInv, FlowsIInv', [Next]_vars
    PROVE  HandlersIInv'
<1>1. CASE UNCHANGED vars
  <2>1. UNCHANGED <<program, frames, ip, entries, flows, mode>>
    BY <1>1 DEF vars
  <2>2. OriginsKept(program', flows') /\ CallersWait(program', frames', entries')
    BY <2>1 DEF HandlersIInv
  <2>3. TopFlow' = TopFlow /\ Instr' = Instr /\ Clauses' = Clauses
    BY <2>1 DEF TopFlow, Instr, Clauses, Method, Cur
  <2>4. UnwindsAt'
    BY <2>1, <2>3 DEF UnwindsAt, HandlersIInv
  <2> QED BY <2>2, <2>4 DEF HandlersIInv
<1>2. CASE Proceed
  <2>1. outcome = "running" /\ mode' = "run" /\ UNCHANGED <<program, frames, entries, flows>>
    BY <1>2 DEF Proceed, Running, Goto
  <2> QED BY <2>1, StayIn
<1>3. CASE RaiseFromInstruction
  <2>1. Running /\ Instr.op \in RaisingOps /\ \E ex \in Exceptions : Raise(ex)
    BY <1>3 DEF RaiseFromInstruction, RaisingOps
  <2> QED BY <2>1, RaiseIn
<1>4. CASE Rethrow
  <2>1. Running /\ Instr.op \in RaisingOps /\ \E ex : Raise(ex)
    BY <1>4 DEF Rethrow, RaisingOps
  <2> QED BY <2>1, RaiseIn
<1>5. CASE Call
  BY <1>5, CallStep, EnteredIn
<1>6. CASE Invoke
  BY <1>6, InvokeStep, EnteredIn
<1>7. CASE CallOverflows
  <2>1. Running /\ Instr.op \in RaisingOps /\ Raise(StackOverflow)
    BY <1>7 DEF CallOverflows, RaisingOps
  <2> QED BY <2>1, RaiseIn
<1>8. CASE Ret
  <2>1. CASE Cur # 1 \/ Depth # 1
    BY <1>8, <2>1, RetStep, ReturnedIn
  <2>2. CASE Cur = 1 /\ Depth = 1
    <3>1. outcome = "running"
      BY <1>8 DEF Ret, Running
    <3>2. Cur = Last(entries).base
      BY <2>2, <3>1, LastEntry
    <3>3. outcome' # "running"
      BY <1>8, <2>2, <3>2 DEF Ret, Depth
    <3> QED BY <3>3, OverIn
  <2> QED BY <2>1, <2>2
<1>9. CASE LeaveByBranch
  <2>1. outcome = "running" /\ mode' = "run" /\ UNCHANGED <<program, frames, entries, flows>>
    BY <1>9 DEF LeaveByBranch, Running, Goto
  <2> QED BY <2>1, StayIn
<1>10. CASE LeaveTryWithFinally
  <2>1. Running
    BY <1>10 DEF LeaveTryWithFinally
  <2> QED BY <1>10, <2>1, EnterTryStep, EntersIn
<1>11. CASE LeaveCatchWithFinally
  <2>1. Running
    BY <1>11 DEF LeaveCatchWithFinally
  <2> QED BY <1>11, <2>1, EnterCatchStep, EntersIn
<1>12. CASE LeaveCatchWithoutFinally
  <2>1. /\ Running /\ outcome = "running" /\ Instr.op = "leave" /\ Surrounding = "catch_or_filter"
        /\ flows' = Front(flows) /\ mode' = "run" /\ UNCHANGED <<program, frames, entries>>
    BY <1>12 DEF LeaveCatchWithoutFinally, Running, Goto
  <2>2. Top # 0
    BY <2>1, LeavesCatch
  <2> QED BY <2>1, <2>2, PopsIn
<1>13. CASE EndFinally
  BY <1>13, EndFinallyIn
<1>14. CASE UnwindToCatch
  BY <1>14, CatchStep, TakenIn
<1>15. CASE UnwindToFilter
  BY <1>15, BlockStep, TakenIn DEF UnwindToFilter
<1>16. CASE UnwindToCleanup
  BY <1>16, BlockStep, TakenIn DEF UnwindToCleanup
<1>17. CASE UnwindToCaller
  BY <1>17, CallerStep, PropagatedIn
<1>18. CASE UnwindToNative
  <2>1. CASE Depth > 1
    BY <1>18, <2>1, OuterStep, PropagatedIn
  <2>2. CASE ~(Depth > 1)
    <3>1. outcome = "running" /\ mode = "unwind" /\ TopFlow.throw
      BY <1>18 DEF UnwindToNative, UnwindingThrow
    <3>2. outcome' = TopFlow.ex
      BY <1>18, <2>2 DEF UnwindToNative, Depth
    <3>3. TopFlow.ex \in Exceptions
      BY <3>1, UnwindFacts, FlowFields
    <3>4. outcome' # "running"
      BY <3>2, <3>3, OutcomeAssumption
    <3> QED BY <3>4, OverIn
  <2> QED BY <2>1, <2>2
<1>19. CASE FinishLeave
  <2>1. /\ outcome = "running" /\ mode = "unwind" /\ flows' = Front(flows) /\ mode' = "run"
        /\ UNCHANGED <<program, frames, entries>>
    BY <1>19 DEF FinishLeave, UnwindingLeave, Goto
  <2>2. Top # 0
    BY <2>1, UnwindFacts
  <2> QED BY <2>1, <2>2, PopsIn
<1>20. CASE NextFinally
  BY <1>20, NextStep, NextIn
<1> QED BY <1>1, <1>2, <1>3, <1>4, <1>5, <1>6, <1>7, <1>8, <1>9, <1>10, <1>11, <1>12, <1>13,
           <1>14, <1>15, <1>16, <1>17, <1>18, <1>19, <1>20 DEF Next

(* In every program whose methods are supported and raise where they       *)
(* should, a flow began in the handlers that those below it are for, the   *)
(* unwinding goes on from where a throw is or a block ended, and callers   *)
(* wait behind their calls.                                                *)
THEOREM HandlersInvariance ==
    ASSUME ProgramsSupported, RaisesSupported PROVE Spec => []HandlersIInv
<1>1. Init => HandlersIInv
  BY InitHandlers
<1>2. FlowsIInv /\ HandlersIInv /\ FlowsIInv' /\ [Next]_vars => HandlersIInv'
  BY HandlersStep
<1>3. Spec => []FlowsIInv
  BY FlowsInvariance
<1> QED BY <1>1, <1>2, <1>3, PTL DEF Spec
------------------------------------------------------------------------------
(* The activations, as a function of frames, execute() calls and flows.    *)

(* Where frame k waits. *)
Waits(frs, ents, k) ==
    IF \E e \in DOMAIN ents : ents[e].base = k + 1
    THEN ents[CHOOSE e \in DOMAIN ents : ents[e].base = k + 1].ip
    ELSE frs[k].ip - 1

(* The handlers of frame k, when it is at p; the ip that is seen is q. *)
ActivationAt(prog, frs, fs, k, p, q) ==
    [method |-> frs[k].method, ip |-> q,
     handlers |-> Handlers(prog[frs[k].method].clauses, fs, k, p)]

View(prog, frs, ents, fs, p, q) ==
    [k \in DOMAIN frs |->
        IF k = Len(frs) THEN ActivationAt(prog, frs, fs, k, p, q)
        ELSE ActivationAt(prog, frs, fs, k, Waits(frs, ents, k), Waits(frs, ents, k))]

SeenIp == IF Raising THEN 0 ELSE ip

LEMMA ViewNow == Activations = View(program, frames, entries, HandledFlows, ip, SeenIp)
<1>1. ASSUME NEW k \in DOMAIN frames
      PROVE  Activations[k] = View(program, frames, entries, HandledFlows, ip, SeenIp)[k]
  <2>1. CASE k = Len(frames)
    <3>1. Location(k) = ip
      BY <2>1 DEF Location, Cur
    <3>2. (IF k = Cur /\ Raising THEN 0 ELSE Location(k)) = SeenIp
      BY <2>1, <3>1 DEF SeenIp, Cur
    <3> QED BY <2>1, <3>1, <3>2 DEF Activations, View, ActivationAt
  <2>2. CASE k # Len(frames)
    <3>1. Location(k) = Waits(frames, entries, k)
      BY <2>2 DEF Location, Waits, Cur
    <3>2. (IF k = Cur /\ Raising THEN 0 ELSE Location(k)) = Waits(frames, entries, k)
      BY <2>2, <3>1 DEF Cur
    <3> QED BY <2>2, <3>1, <3>2 DEF Activations, View, ActivationAt
  <2> QED BY <2>1, <2>2
<1> QED BY <1>1 DEF Activations, View

LEMMA ViewNext ==
    Activations' = View(program', frames', entries', HandledFlows', ip', SeenIp')
<1>1. PICK prog, frs, ents, fs, p, q :
          /\ prog = program' /\ frs = frames' /\ ents = entries' /\ fs = HandledFlows'
          /\ p = ip' /\ q = SeenIp'
  OBVIOUS
<1>2. Activations' = [k \in DOMAIN frs |->
          [method |-> frs[k].method,
           ip |-> IF k = Cur' /\ Raising' THEN 0 ELSE Location(k)',
           handlers |-> Handlers(prog[frs[k].method].clauses, fs, k, Location(k)')]]
  BY <1>1 DEF Activations
<1>3. Cur' = Len(frs) /\ q = IF Raising' THEN 0 ELSE p
  BY <1>1 DEF Cur, SeenIp
<1>4. ASSUME NEW k \in DOMAIN frs
      PROVE  Activations'[k] = View(prog, frs, ents, fs, p, q)[k]
  <2>1. CASE k = Len(frs)
    <3>1. Location(k)' = p
      BY <1>1, <2>1 DEF Location, Cur
    <3> QED BY <1>2, <1>3, <2>1, <3>1 DEF View, ActivationAt
  <2>2. CASE k # Len(frs)
    <3>1. Location(k)' = Waits(frs, ents, k)
      BY <1>1, <2>2 DEF Location, Waits, Cur
    <3> QED BY <1>2, <1>3, <2>2, <3>1 DEF View, ActivationAt
  <2> QED BY <2>1, <2>2
<1> QED BY <1>1, <1>2, <1>4 DEF View
------------------------------------------------------------------------------
(* What a step does to the activations.                                    *)

LEMMA ViewSeq ==
    ASSUME NEW prog, NEW frs, NEW ents, NEW fs, NEW p, NEW q, NEW n \in Nat,
           DOMAIN frs = 1 .. n, NEW V, V = View(prog, frs, ents, fs, p, q)
    PROVE  DOMAIN V = 1 .. n /\ Len(V) = n /\ \A S : (\A j \in 1 .. n : V[j] \in S) => V \in Seq(S)
<1>1. V = [j \in 1 .. n |-> V[j]] /\ DOMAIN V = 1 .. n
  BY DEF View
<1>2. ASSUME NEW S, \A j \in 1 .. n : V[j] \in S PROVE V \in Seq(S)
  <2>1. V \in [1 .. n -> S]
    BY <1>1, <1>2
  <2> QED BY <2>1, SeqDef
<1>3. Len(V) = n
  <2>1. PICK S : \A j \in 1 .. n : V[j] \in S
    <3>1. \A j \in 1 .. n : V[j] \in {V[i] : i \in 1 .. n}
      OBVIOUS
    <3> QED BY <3>1
  <2>2. V \in Seq(S)
    BY <1>2, <2>1
  <2>3. Len(V) \in Nat /\ DOMAIN V = 1 .. Len(V)
    BY <2>2, LenProperties
  <2>4. 1 .. n = 1 .. Len(V)
    BY <1>1, <2>3
  <2>5. PICK m \in Nat : m = Len(V) /\ 1 .. n = 1 .. m
    BY <2>3, <2>4
  <2>6. n = m
    <3>1. n = 0 \/ n \in 1 .. m
      BY <2>5
    <3>2. m = 0 \/ m \in 1 .. n
      BY <2>5
    <3> QED BY <3>1, <3>2
  <2> QED BY <2>5, <2>6
<1> QED BY <1>1, <1>2, <1>3

(* Frame k has the same flows in fs and gs. *)
SameFlowsOf(fs, gs, k) ==
    \A x : /\ x \in DOMAIN fs /\ fs[x].frame = k <=> x \in DOMAIN gs /\ gs[x].frame = k
           /\ x \in DOMAIN fs /\ fs[x].frame = k => gs[x] = fs[x]

LEMMA SameHandlers ==
    ASSUME NEW cs, NEW fs, NEW gs, NEW k, NEW p, Distinct(fs, k), Distinct(gs, k),
           SameFlowsOf(fs, gs, k)
    PROVE  Handlers(cs, gs, k, p) = Handlers(cs, fs, k, p)
<1>1. \A x : x \in HandlerFlows(cs, gs, k, p) <=> x \in HandlerFlows(cs, fs, k, p)
  BY DEF SameFlowsOf, HandlerFlows
<1>2. HandlerFlows(cs, gs, k, p) = HandlerFlows(cs, fs, k, p)
  BY <1>1
<1>3. \A x \in HandlerFlows(cs, fs, k, p) : gs[x] = fs[x]
  BY DEF SameFlowsOf, HandlerFlows
<1> QED BY <1>2, <1>3, HandlersSame

SetTo(s, a) == [s EXCEPT ![Len(s)] = a]

(* The last frame goes on. *)
LEMMA StayView ==
    ASSUME NEW prog, NEW frs, NEW grs, NEW ents, NEW fs, NEW gs, NEW n \in Nat \ {0},
           DOMAIN frs = 1 .. n, Len(frs) = n, DOMAIN grs = 1 .. n, Len(grs) = n,
           \A j \in 1 .. n : grs[j].method = frs[j].method,
           \A j \in 1 .. n : j < n => grs[j].ip = frs[j].ip,
           \A k : Distinct(fs, k) /\ Distinct(gs, k),
           \A k \in 1 .. n : k < n => SameFlowsOf(fs, gs, k),
           NEW p, NEW q, NEW pp, NEW qq,
           NEW V, V = View(prog, frs, ents, fs, p, q), NEW W, W = View(prog, grs, ents, gs, pp, qq),
           NEW a, a = ActivationAt(prog, grs, gs, n, pp, qq)
    PROVE  W = SetTo(V, a)
<1>1. DOMAIN V = 1 .. n /\ Len(V) = n
  BY ViewSeq
<1>2. ASSUME NEW j \in 1 .. n, j < n PROVE W[j] = V[j]
  <2>1. Waits(grs, ents, j) = Waits(frs, ents, j)
    BY <1>2 DEF Waits
  <2>2. PICK w : w = Waits(frs, ents, j)
    OBVIOUS
  <2>3. j # n
    BY <1>2
  <2>4. W[j] = ActivationAt(prog, grs, gs, j, w, w) /\ V[j] = ActivationAt(prog, frs, fs, j, w, w)
    BY <2>1, <2>2, <2>3 DEF View
  <2>5. PICK cs : cs = prog[frs[j].method].clauses
    OBVIOUS
  <2>6. Handlers(cs, gs, j, w) = Handlers(cs, fs, j, w)
    BY <1>2, SameHandlers
  <2> QED BY <2>4, <2>5, <2>6 DEF ActivationAt
<1>3. W[n] = a
  <2>1. n \in DOMAIN grs
    OBVIOUS
  <2> QED BY <2>1 DEF View
<1>4. \A j \in 1 .. n : j < n \/ j = n
  OBVIOUS
<1>5. W = [j \in 1 .. n |-> W[j]] /\ V = [j \in 1 .. n |-> V[j]]
  BY DEF View
<1>6. \A j \in 1 .. n : W[j] = IF j = n THEN a ELSE V[j]
  BY <1>2, <1>3, <1>4
<1>7. [V EXCEPT ![n] = a] = [j \in 1 .. n |-> IF j = n THEN a ELSE V[j]]
  BY <1>1
<1> QED BY <1>1, <1>5, <1>6, <1>7 DEF SetTo

(* A frame is entered from p. *)
LEMMA EnterView ==
    ASSUME NEW prog, NEW frs, NEW grs, NEW ents, NEW gents, NEW fs, NEW n \in Nat \ {0},
           DOMAIN frs = 1 .. n, Len(frs) = n, DOMAIN grs = 1 .. (n + 1), Len(grs) = n + 1,
           \A j \in 1 .. n : grs[j].method = frs[j].method,
           \A j \in 1 .. n : j < n => Waits(grs, gents, j) = Waits(frs, ents, j),
           NEW p, Waits(grs, gents, n) = p, NEW pp,
           NEW V, V = View(prog, frs, ents, fs, p, p), NEW W, W = View(prog, grs, gents, fs, pp, pp),
           NEW a, a = ActivationAt(prog, grs, fs, n + 1, pp, pp)
    PROVE  W = Append(V, a)
<1>1. DOMAIN V = 1 .. n /\ Len(V) = n
  BY ViewSeq
<1>2. ASSUME NEW j \in 1 .. n PROVE W[j] = V[j]
  <2>1. PICK w : w = Waits(grs, gents, j)
    OBVIOUS
  <2>2. j # n + 1 /\ j \in 1 .. (n + 1)
    OBVIOUS
  <2>3. W[j] = ActivationAt(prog, grs, fs, j, w, w)
    BY <2>1, <2>2 DEF View
  <2>4. V[j] = ActivationAt(prog, frs, fs, j, w, w)
    <3>1. CASE j = n
      BY <2>1, <3>1 DEF View
    <3>2. CASE j < n
      <4>1. w = Waits(frs, ents, j) /\ j # n
        BY <2>1, <3>2
      <4> QED BY <4>1 DEF View
    <3> QED BY <3>1, <3>2
  <2> QED BY <2>3, <2>4 DEF ActivationAt
<1>3. W[n + 1] = a
  <2>1. n + 1 \in DOMAIN grs
    OBVIOUS
  <2> QED BY <2>1 DEF View
<1>4. DOMAIN W = 1 .. (n + 1) /\ Len(W) = n + 1
  <2>1. n + 1 \in Nat
    OBVIOUS
  <2> QED BY <2>1, ViewSeq
<1>5. PICK S : V \in Seq(S) /\ W \in Seq(S) /\ a \in S
  <2>1. PICK S : (\A j \in 1 .. n : V[j] \in S) /\ (\A j \in 1 .. (n + 1) : W[j] \in S) /\ a \in S
    <3> DEFINE T == {V[j] : j \in 1 .. n} \cup {W[j] : j \in 1 .. (n + 1)} \cup {a}
    <3>1. (\A j \in 1 .. n : V[j] \in T) /\ (\A j \in 1 .. (n + 1) : W[j] \in T) /\ a \in T
      OBVIOUS
    <3> HIDE DEF T
    <3> QED BY <3>1
  <2>2. V \in Seq(S)
    BY <2>1, ViewSeq
  <2>3. n + 1 \in Nat
    OBVIOUS
  <2>4. W \in Seq(S)
    BY <2>1, <2>3, ViewSeq
  <2> QED BY <2>1, <2>2, <2>4
<1>6. PICK U : U = Append(V, a)
  OBVIOUS
<1>7. /\ U \in Seq(S) /\ Len(U) = n + 1
      /\ \A j \in 1 .. n : U[j] = V[j]
      /\ U[n + 1] = a
  BY <1>1, <1>5, <1>6
<1>8. \A j \in 1 .. (n + 1) : j \in 1 .. n \/ j = n + 1
  OBVIOUS
<1>9. \A j \in 1 .. Len(W) : W[j] = U[j]
  BY <1>2, <1>3, <1>4, <1>7, <1>8
<1>10. W = U
  BY <1>4, <1>5, <1>7, <1>9, SeqEqual
<1> QED BY <1>6, <1>10

(* The last frame ends, and its caller, which waited at p, goes to pp. *)
CallerTo(s, q) == [Front(s) EXCEPT ![Len(s) - 1].ip = q]
CallerLeft(V, W, k, w, q) == W = CallerTo(V, q) /\ V[k].ip = w

LEMMA LeaveView ==
    ASSUME NEW prog, NEW frs, NEW grs, NEW ents, NEW gents, NEW fs, NEW gs, NEW n \in Nat \ {0},
           NEW k \in Nat \ {0}, n = k + 1,
           DOMAIN frs = 1 .. n, Len(frs) = n, DOMAIN grs = 1 .. k, Len(grs) = k,
           \A j \in 1 .. k : grs[j].method = frs[j].method,
           \A j \in 1 .. k : j < k => Waits(grs, gents, j) = Waits(frs, ents, j),
           \A j : Distinct(fs, j) /\ Distinct(gs, j),
           \A j \in 1 .. k : SameFlowsOf(fs, gs, j),
           NEW w, w = Waits(frs, ents, k),
           NEW p, NEW q, NEW pp, NEW qq,
           Handlers(prog[frs[k].method].clauses, gs, k, pp) =
               Handlers(prog[frs[k].method].clauses, gs, k, w),
           NEW V, V = View(prog, frs, ents, fs, p, q), NEW W, W = View(prog, grs, gents, gs, pp, qq)
    PROVE  CallerLeft(V, W, k, w, qq)
<1>1. DOMAIN V = 1 .. n /\ Len(V) = n /\ DOMAIN W = 1 .. k /\ Len(W) = k
  BY ViewSeq
<1>2. k \in 1 .. n /\ k # n /\ k \in 1 .. k /\ \A j \in 1 .. k : j \in 1 .. n /\ j # n
  OBVIOUS
<1>3. PICK cs : cs = prog[frs[k].method].clauses
  OBVIOUS
<1>4. Handlers(cs, gs, k, pp) = Handlers(cs, fs, k, w)
  <2>1. Handlers(cs, gs, k, w) = Handlers(cs, fs, k, w)
    BY <1>2, SameHandlers
  <2> QED BY <1>3, <2>1
<1>5. V[k] = ActivationAt(prog, frs, fs, k, w, w)
  BY <1>2 DEF View
<1>6. W[k] = ActivationAt(prog, grs, gs, k, pp, qq)
  BY <1>2 DEF View
<1>7. W[k] = [V[k] EXCEPT !.ip = qq] /\ V[k].ip = w
  BY <1>2, <1>3, <1>4, <1>5, <1>6 DEF ActivationAt
<1>8. ASSUME NEW j \in 1 .. k, j # k PROVE W[j] = V[j]
  <2>1. j < k
    BY <1>8
  <2>2. Waits(grs, gents, j) = Waits(frs, ents, j)
    BY <2>1
  <2>3. PICK u : u = Waits(frs, ents, j)
    OBVIOUS
  <2>4. W[j] = ActivationAt(prog, grs, gs, j, u, u) /\ V[j] = ActivationAt(prog, frs, fs, j, u, u)
    BY <1>2, <1>8, <2>2, <2>3 DEF View
  <2>5. PICK ds : ds = prog[frs[j].method].clauses
    OBVIOUS
  <2>6. Handlers(ds, gs, j, u) = Handlers(ds, fs, j, u)
    BY SameHandlers
  <2> QED BY <2>4, <2>5, <2>6 DEF ActivationAt
<1>9. PICK F : F = Front(V)
  OBVIOUS
<1>10. F = [j \in 1 .. k |-> V[j]]
  <2>1. PICK S : \A j \in 1 .. n : V[j] \in S
    <3>1. \A j \in 1 .. n : V[j] \in {V[i] : i \in 1 .. n}
      OBVIOUS
    <3> QED BY <3>1
  <2>2. V \in Seq(S)
    BY <2>1, ViewSeq
  <2>3. /\ F \in Seq(S) /\ Len(F) = k /\ \A j \in 1 .. k : F[j] = V[j]
    BY <1>1, <1>9, <2>2, FrontOf
  <2>4. F \in [1 .. k -> S]
    BY <2>3, LenProperties
  <2> QED BY <2>3, <2>4
<1>11. CallerTo(V, qq) = [F EXCEPT ![k].ip = qq]
  <2>1. Len(V) - 1 = k
    BY <1>1
  <2> QED BY <1>9, <2>1 DEF CallerTo
<1>12. [F EXCEPT ![k].ip = qq] = [j \in 1 .. k |-> IF j = k THEN [V[k] EXCEPT !.ip = qq] ELSE V[j]]
  BY <1>2, <1>10
<1>13. W = [j \in 1 .. k |-> W[j]]
  BY DEF View
<1>14. PICK a : a = [V[k] EXCEPT !.ip = qq]
  OBVIOUS
<1>15. \A j \in 1 .. k : W[j] = IF j = k THEN a ELSE V[j]
  BY <1>7, <1>8, <1>14
<1>16. W = CallerTo(V, qq)
  BY ONLY <1>11, <1>12, <1>13, <1>14, <1>15
<1> QED BY <1>7, <1>16 DEF CallerLeft
(* Of the flows fs, gs are left; control goes from p to q. *)
LEMMA HandlersNarrow ==
    ASSUME NEW cs, NEW fs, NEW gs, NEW k, NEW p, NEW q, Distinct(fs, k), Distinct(gs, k),
           DOMAIN gs \subseteq DOMAIN fs, \A x \in DOMAIN gs : gs[x] = fs[x],
           \A x \in DOMAIN fs :
               fs[x].frame = k /\ fs[x].clause # NoClause /\ q \in cs[Executes(fs[x])].handler =>
                   IF x \in DOMAIN gs THEN p \in cs[Executes(fs[x])].handler
                   ELSE p \notin cs[Executes(fs[x])].handler
    PROVE  Handlers(cs, gs, k, q) = Still(cs, Handlers(cs, fs, k, p), q)
<1>1. PICK H : H = Handlers(cs, fs, k, p)
  OBVIOUS
<1>2. AreHandlers(cs, fs, k, p, H)
  BY <1>1, HandlersAt
<1>3. PICK G : G = Still(cs, H, q)
  OBVIOUS
<1>4. /\ G = [c \in DOMAIN G |-> G[c]]
      /\ DOMAIN G = {i \in DOMAIN H : q \in cs[i].handler}
      /\ \A c \in DOMAIN G : G[c] = H[c]
  BY <1>3 DEF Still, Restrict
<1>5. \A x : x \in HandlerFlows(cs, gs, k, q) <=>
              x \in HandlerFlows(cs, fs, k, p) /\ q \in cs[Executes(fs[x])].handler
  BY DEF HandlerFlows
<1>6. \A x \in HandlerFlows(cs, gs, k, q) : gs[x] = fs[x]
  BY DEF HandlerFlows
<1>7. /\ DOMAIN G = {Executes(gs[x]) : x \in HandlerFlows(cs, gs, k, q)}
      /\ \A x \in HandlerFlows(cs, gs, k, q) : G[Executes(gs[x])] = HandlerOf(cs, gs[x])
  BY <1>2, <1>4, <1>5, <1>6 DEF AreHandlers
<1>8. Handlers(cs, gs, k, q) = G
  BY <1>4, <1>7, HandlersAre DEF AreHandlers
<1> QED BY <1>1, <1>3, <1>8

(* fs and gs differ only in flows of frame n, on top of the first r. *)
DifferOnTop(fs, gs, r, n) ==
    /\ \A x \in 1 .. r : x \in DOMAIN fs /\ x \in DOMAIN gs /\ gs[x] = fs[x]
    /\ \A x \in DOMAIN fs : x \in 1 .. r \/ fs[x].frame = n
    /\ \A x \in DOMAIN gs : x \in 1 .. r \/ gs[x].frame = n

LEMMA OthersSame ==
    ASSUME NEW fs, NEW gs, NEW r, NEW n, DifferOnTop(fs, gs, r, n), NEW k, k # n
    PROVE  SameFlowsOf(fs, gs, k)
BY DEF DifferOnTop, SameFlowsOf

(* The flows that have a handler. *)
LEMMA HandledOf ==
    ASSUME NEW S, NEW fs \in Seq(S), fs # <<>>, NEW hs, hs = Front(fs)
    PROVE  Cut(fs, hs, Len(fs) - 1)
<1>1. PICK n \in Nat \ {0} : n = Len(fs)
  BY EmptySeq
<1>2. DOMAIN fs = 1 .. n
  BY <1>1, LenProperties
<1>3. hs \in Seq(S) /\ Len(hs) = n - 1 /\ \A x \in 1 .. n - 1 : hs[x] = fs[x]
  BY <1>1, FrontOf
<1>4. DOMAIN hs = 1 .. n - 1
  BY <1>3, LenProperties
<1> QED BY <1>1, <1>2, <1>3, <1>4 DEF Cut

LEMMA HandledNow ==
    ASSUME FlowsIInv, HandlersIInv, ProgramsSupported
    PROVE  /\ Raising => Cut(flows, HandledFlows, Top - 1)
           /\ ~Raising => HandledFlows = flows
           /\ \A k : Distinct(flows, k) /\ Distinct(HandledFlows, k)
<1>1. \A k : Distinct(flows, k)
  BY OrderedNow, FlowsDistinct
<1>2. CASE ~Raising
  BY <1>1, <1>2 DEF HandledFlows
<1>3. CASE Raising
  <2>1. flows \in Seq(FlowSet(program)) /\ flows # <<>> /\ HandledFlows = Front(flows)
    BY <1>3 DEF HandledFlows, Raising, FlowsIInv, FramesTyped
  <2>2. Cut(flows, HandledFlows, Len(flows) - 1)
    BY <2>1, HandledOf
  <2>3. DOMAIN HandledFlows \subseteq DOMAIN flows
        /\ \A x \in DOMAIN HandledFlows : HandledFlows[x] = flows[x]
    BY <2>2 DEF Cut
  <2>4. \A k : Distinct(HandledFlows, k)
    BY <1>1, <2>3, DistinctBelow
  <2> QED BY <1>1, <1>3, <2>2, <2>4 DEF Top
<1> QED BY <1>2, <1>3

LEMMA HandledNext ==
    ASSUME FlowsIInv', HandlersIInv', ProgramsSupported
    PROVE  /\ Raising' => Cut(flows', HandledFlows', Len(flows') - 1)
           /\ ~Raising' => HandledFlows' = flows'
           /\ \A k : Distinct(flows', k) /\ Distinct(HandledFlows', k)
<1>1. \A k : Distinct(flows', k)
  BY OrderedNext, FlowsDistinct
<1>2. CASE ~Raising'
  BY <1>1, <1>2 DEF HandledFlows
<1>3. CASE Raising'
  <2>1. PICK fs, hs : fs = flows' /\ hs = HandledFlows'
    OBVIOUS
  <2>2. fs \in Seq(FlowSet(program')) /\ fs # <<>> /\ hs = Front(fs)
    BY <1>3, <2>1 DEF HandledFlows, Raising, FlowsIInv, FramesTyped
  <2>3. Cut(fs, hs, Len(fs) - 1)
    BY <2>2, HandledOf
  <2>4. DOMAIN hs \subseteq DOMAIN fs /\ \A x \in DOMAIN hs : hs[x] = fs[x]
    BY <2>3 DEF Cut
  <2>5. \A k : Distinct(hs, k)
    BY <1>1, <2>1, <2>4, DistinctBelow
  <2> QED BY <1>1, <1>3, <2>1, <2>3, <2>5
<1> QED BY <1>2, <1>3

Activation(m, p, H) == [method |-> m, ip |-> p, handlers |-> H]

(* The last activation goes to p, with handlers H. *)
GoesTo(p, H) == Activations' = SetTo(Activations, Activation(Method, p, H))

LEMMA GoesOn ==
    ASSUME ProgramsSupported, FlowsIInv, HandlersIInv, FlowsIInv', HandlersIInv',
           outcome = "running", program' = program, entries' = entries, CutTo(frames, frames', Cur),
           NEW r, DifferOnTop(HandledFlows, HandledFlows', r, Cur),
           NEW p, NEW q, NEW H, p = ip', q = SeenIp',
           H = Handlers(Clauses, HandledFlows', Cur, p)
    PROVE  GoesTo(q, H)
<1>1. PICK grs, fs, gs, n, V, W :
          /\ grs = frames' /\ fs = HandledFlows /\ gs = HandledFlows' /\ n = Cur
          /\ V = Activations /\ W = Activations'
  OBVIOUS
<1>2. n \in Nat \ {0} /\ DOMAIN frames = 1 .. n /\ Len(frames) = n
  BY <1>1, StateFacts DEF Cur
<1>3. /\ DOMAIN grs = 1 .. n /\ Len(grs) = n
      /\ \A j \in 1 .. n : grs[j].method = frames[j].method
      /\ \A j \in 1 .. n : j < n => grs[j].ip = frames[j].ip
  BY <1>1 DEF CutTo
<1>4. \A k : Distinct(fs, k) /\ Distinct(gs, k)
  BY <1>1, HandledNow, HandledNext
<1>5. \A k \in 1 .. n : k < n => SameFlowsOf(fs, gs, k)
  <2>1. \A k \in 1 .. n : k < n => k # n
    BY <1>2
  <2>2. DifferOnTop(fs, gs, r, n)
    BY <1>1
  <2> QED BY <2>1, <2>2, OthersSame
<1>6. V = View(program, frames, entries, fs, ip, SeenIp)
  BY <1>1, ViewNow
<1>7. W = View(program, grs, entries, gs, p, q)
  BY <1>1, ViewNext
<1>8. PICK a : a = ActivationAt(program, grs, gs, n, p, q)
  OBVIOUS
<1>9. W = SetTo(V, a)
  BY <1>2, <1>3, <1>4, <1>5, <1>6, <1>7, <1>8, StayView
<1>10. n \in 1 .. n
  BY <1>2
<1>11. grs[n].method = Method /\ program[grs[n].method].clauses = Clauses
  BY <1>1, <1>3, <1>10 DEF Method, Clauses
<1>12. a = Activation(Method, q, H)
  BY <1>1, <1>8, <1>11 DEF ActivationAt, Activation
<1> QED BY <1>1, <1>9, <1>12 DEF GoesTo

(* The last activation is seen with handlers H. *)
SeenWith(H) ==
    /\ Len(Activations) = Cur
    /\ Activations[Cur] = Activation(Method, SeenIp, H)

LEMMA SeenTop ==
    ASSUME ProgramsSupported, FlowsIInv, outcome = "running", NEW H,
           H = Handlers(Clauses, HandledFlows, Cur, ip)
    PROVE  SeenWith(H)
<1>1. Cur \in Nat \ {0} /\ DOMAIN frames = 1 .. Cur /\ Len(frames) = Cur /\ Cur \in 1 .. Cur
  BY StateFacts DEF Cur
<1>2. PICK V : V = View(program, frames, entries, HandledFlows, ip, SeenIp)
  OBVIOUS
<1>3. Activations = V
  BY <1>2, ViewNow
<1>4. Len(V) = Cur
  <2>1. PICK n \in Nat : n = Cur /\ DOMAIN frames = 1 .. n
    BY <1>1
  <2> QED BY <1>2, <2>1, ViewSeq
<1>5. V[Cur] = ActivationAt(program, frames, HandledFlows, Cur, ip, SeenIp)
  BY <1>1, <1>2 DEF View
<1>6. V[Cur] = Activation(Method, SeenIp, H)
  BY <1>5 DEF ActivationAt, Activation, Method, Clauses
<1> QED BY <1>3, <1>4, <1>6 DEF SeenWith
------------------------------------------------------------------------------
(* Each step is one that StructuredExceptions allows.                      *)

LEMMA ExecutingSeen ==
    ASSUME ProgramsSupported, FlowsIInv, Running, NEW H, H = Handlers(Clauses, flows, Cur, ip)
    PROVE  /\ ~Raising /\ HandledFlows = flows /\ SeenIp = ip
           /\ SeenWith(H)
           /\ Abstract!Executing
           /\ Abstract!Instr = Instr /\ Abstract!Clauses = Clauses
<1>1. ~Raising /\ HandledFlows = flows /\ SeenIp = ip
  BY DEF Running, Raising, HandledFlows, SeenIp
<1>2. SeenWith(H)
  BY <1>1, SeenTop DEF Running
<1>3. Pending = Abstract!NotRaising
  BY <1>1 DEF Pending, Abstract!NotRaising
<1>4. Abstract!Executing
  BY <1>3 DEF Abstract!Executing, Running
<1>5. Abstract!Top.method = Method /\ Abstract!Top.ip = ip
  BY <1>1, <1>2 DEF SeenWith, Abstract!Top, Activation
<1>6. Abstract!Instr = Instr /\ Abstract!Clauses = Clauses
  BY <1>5 DEF Abstract!Instr, Abstract!Clauses, Instr, Clauses
<1> QED BY <1>1, <1>2, <1>4, <1>6

MovedTo(a, p, G) == [a EXCEPT !.ip = p, !.handlers = G]

LEMMA Moves ==
    ASSUME NEW m, NEW s, NEW H, NEW p, NEW G, NEW a, a = Activation(m, s, H)
    PROVE  MovedTo(a, p, G) = Activation(m, p, G)
<1>1. PICK b : b = [a EXCEPT !.ip = p]
  OBVIOUS
<1>2. b = [method |-> m, ip |-> p, handlers |-> H]
  BY <1>1 DEF Activation
<1>3. [b EXCEPT !.handlers = G] = [method |-> m, ip |-> p, handlers |-> G]
  BY <1>2
<1>4. MovedTo(a, p, G) = [b EXCEPT !.handlers = G]
  BY <1>1 DEF MovedTo, Activation
<1> QED BY <1>3, <1>4 DEF Activation

LEMMA MovesIp ==
    ASSUME NEW m, NEW s, NEW H, NEW p, NEW a, a = Activation(m, s, H)
    PROVE  [a EXCEPT !.ip = p] = Activation(m, p, H)
BY DEF Activation

(* A block is left for p, or gone on with. *)
LEMMA GotoSeen ==
    ASSUME NEW H, SeenWith(H), Abstract!Clauses = Clauses, NEW p, GoesTo(p, Still(Clauses, H, p))
    PROVE  Abstract!Goto(p)
<1>1. PICK a, b, G : /\ a = Activation(Method, SeenIp, H)
                     /\ b = Activation(Method, p, G) /\ G = Still(Clauses, H, p)
  OBVIOUS
<1>2. Abstract!Top = a /\ Len(Activations) = Cur
  BY <1>1 DEF SeenWith, Abstract!Top
<1>3. Abstract!InScope(a.handlers, p) = G
  BY <1>1 DEF Abstract!InScope, Abstract!Restrict, Still, Restrict, Activation
<1>4. [a EXCEPT !.ip = p, !.handlers = Abstract!InScope(@, p)] = b
  <2>1. MovedTo(a, p, G) = b
    BY <1>1, Moves
  <2> QED BY <1>3, <2>1 DEF MovedTo
<1>5. Activations' = SetTo(Activations, b)
  BY <1>1 DEF GoesTo
<1> QED BY <1>2, <1>4, <1>5 DEF Abstract!Goto, Abstract!SetTop, SetTo

LEMMA ClauseHere ==
    ASSUME ProgramsSupported, FlowsIInv, HandlersIInv, outcome = "running",
           NEW x \in DOMAIN flows, flows[x].frame = Cur, flows[x].clause # NoClause
    PROVE  /\ x \in 1 .. Top /\ Owner(flows[x]) = Method
           /\ Executes(flows[x]) \in DOMAIN Clauses /\ Executes(flows[x]) \in Nat \ {0}
           /\ Origin(flows[x]) \in Clauses[Executes(flows[x])].try
<1>1. FlowsOrdered(program, frames, flows)
  BY OrderedNow
<1>2. x \in 1 .. Len(flows) /\ x \in 1 .. Top
  BY StateFacts DEF Top
<1>3. LET cs == program[frames[flows[x].frame].method].clauses
      IN  /\ Owner(flows[x]) = frames[flows[x].frame].method
          /\ Executes(flows[x]) \in DOMAIN cs
          /\ Executes(flows[x]) \in Nat \ {0}
          /\ Origin(flows[x]) \in cs[Executes(flows[x])].try
  BY <1>1, <1>2, FlowBegan
<1> QED BY <1>2, <1>3 DEF Method, Clauses

(* No handler is entered. *)
LEMMA HandlersGoOn ==
    ASSUME ProgramsSupported, FlowsIInv, HandlersIInv, outcome = "running", NEW p, NEW q,
           \A h \in DOMAIN Clauses : q \in Clauses[h].handler => p \in Clauses[h].handler
    PROVE  Handlers(Clauses, flows, Cur, q) = Still(Clauses, Handlers(Clauses, flows, Cur, p), q)
<1>1. Distinct(flows, Cur)
  BY HandledNow
<1>2. \A x \in DOMAIN flows :
          flows[x].frame = Cur /\ flows[x].clause # NoClause => Executes(flows[x]) \in DOMAIN Clauses
  BY ClauseHere
<1> QED BY <1>1, <1>2, HandlersStill

LEMMA NoneDiffer ==
    ASSUME ProgramsSupported, FlowsIInv, outcome = "running"
    PROVE  DifferOnTop(flows, flows, Top, Cur)
<1>1. DOMAIN flows = 1 .. Top
  BY StateFacts
<1> QED BY <1>1 DEF DifferOnTop

LEMMA ProceedAllowed ==
    ASSUME ProgramsSupported, FlowsIInv, HandlersIInv, FlowsIInv', HandlersIInv', Proceed
    PROVE  Abstract!Advance
<1>1. /\ Running /\ outcome = "running" /\ Instr.op \in {"next", "may"} /\ mode' = "run"
      /\ ip' = ip + 1 /\ UNCHANGED <<program, frames, entries, flows, outcome>>
  BY DEF Proceed, Running, Goto
<1>2. PICK H : H = Handlers(Clauses, flows, Cur, ip)
  OBVIOUS
<1>3. /\ ~Raising /\ HandledFlows = flows /\ SeenWith(H)
      /\ Abstract!Executing /\ Abstract!Instr = Instr /\ Abstract!Clauses = Clauses
  BY <1>1, <1>2, ExecutingSeen
<1>4. ~Raising' /\ HandledFlows' = flows /\ SeenIp' = ip'
  BY <1>1 DEF Raising, HandledFlows, SeenIp
<1>5. \A h \in DOMAIN Clauses : ip' \in Clauses[h].handler => ip \in Clauses[h].handler
  <2>1. program \in Programs /\ Method \in DOMAIN program /\ ip \in DOMAIN program[Method].code
    BY <1>1, StateFacts
  <2>2. WellFormedAt(program[Method], ip)
    BY <2>1, MethodFacts
  <2> QED BY <1>1, <2>2 DEF WellFormedAt, Instr, Clauses
<1>6. PICK p, G : p = ip' /\ G = Handlers(Clauses, flows, Cur, p)
  OBVIOUS
<1>7. G = Still(Clauses, H, p)
  BY <1>1, <1>2, <1>5, <1>6, HandlersGoOn
<1>8. GoesTo(p, G)
  <2>1. CutTo(frames, frames', Cur)
    BY <1>1, SameFrames
  <2>2. DifferOnTop(HandledFlows, HandledFlows', Top, Cur)
    BY <1>1, <1>3, <1>4, NoneDiffer
  <2>3. p = ip' /\ p = SeenIp'
    BY <1>4, <1>6
  <2>4. G = Handlers(Clauses, HandledFlows', Cur, p)
    BY <1>4, <1>6
  <2> QED BY <1>1, <2>1, <2>2, <2>3, <2>4, GoesOn
<1>9. Abstract!Goto(Abstract!Top.ip + 1)
  <2>1. Abstract!Goto(p)
    BY <1>3, <1>7, <1>8, GotoSeen
  <2>2. Abstract!Top.ip = ip
    BY <1>1, <1>3 DEF SeenWith, Abstract!Top, Activation, SeenIp, Raising, Running
  <2> QED BY <1>1, <1>6, <2>1, <2>2
<1>10. Pending' = Pending
  BY <1>1, <1>3, <1>4 DEF Pending
<1> QED BY <1>1, <1>3, <1>9, <1>10 DEF Abstract!Advance

(* What is raised next: ex, for the clauses R. *)
Raises(ex, R) == Pending' = [ex |-> ex, clauses |-> R]

(* A throw flow without a clause looks at all clauses around it. *)
LEMMA RaisesNext ==
    ASSUME NEW fs, NEW gs, NEW r, NEW g, Grown(fs, gs, r, g), gs = flows',
           NEW ex, NEW k, NEW n, NEW p, NEW prog, NEW frs, NEW cs,
           g = ThrowFlow(ex, k, <<n, p>>),
           outcome' = "running", mode' = "unwind", prog = program', frs = frames',
           DOMAIN frs = 1 .. k, Len(frs) = k, k \in Nat \ {0}, frs[k].method = n,
           cs = prog[n].clauses, DOMAIN cs \subseteq Nat \ {0}
    PROVE  Raising' /\ Raises(ex, Protecting(cs, p))
<1>1. /\ g.throw = TRUE /\ g.ex = ex /\ g.next = 1 /\ g.at = <<n, p>>
  BY DEF ThrowFlow
<1>2. Last(gs) = g /\ gs # <<>>
  BY DEF Grown, Last
<1>3. Raising' /\ TopFlow' = g
  BY <1>1, <1>2 DEF Raising, TopFlow
<1>4. Method' = n /\ Clauses' = cs
  BY DEF Method, Clauses, Cur
<1>5. ToSearch(TopFlow)' = {i \in Protecting(cs, p) : n = n /\ i >= 1}
  BY <1>1, <1>3, <1>4 DEF ToSearch
<1>6. \A i \in Protecting(cs, p) : i >= 1
  BY DEF Protecting
<1>7. ToSearch(TopFlow)' = Protecting(cs, p)
  BY <1>5, <1>6
<1>8. Pending' = [ex |-> TopFlow'.ex, clauses |-> ToSearch(TopFlow)']
  BY <1>3 DEF Pending
<1> QED BY <1>1, <1>3, <1>7, <1>8 DEF Raises

LEMMA RaisedAllowed ==
    ASSUME ProgramsSupported, FlowsIInv, HandlersIInv, FlowsIInv', HandlersIInv', Running,
           NEW ex, RaisedHere(ex)
    PROVE  Abstract!Raise(ex)
<1>1. /\ outcome = "running" /\ outcome' = "running" /\ mode' = "unwind"
      /\ program' = program /\ ip' = ip /\ entries' = entries
      /\ CutTo(frames, frames', Cur)
      /\ Grown(flows, flows', Top, ThrowFlow(ex, Cur, <<Method, ip>>))
  BY DEF RaisedHere
<1>2. PICK H : H = Handlers(Clauses, flows, Cur, ip)
  OBVIOUS
<1>3. /\ ~Raising /\ HandledFlows = flows /\ SeenWith(H) /\ SeenIp = ip
      /\ Abstract!Executing /\ Abstract!Instr = Instr /\ Abstract!Clauses = Clauses
  BY <1>1, <1>2, ExecutingSeen
<1>4. /\ Cur \in Nat \ {0} /\ Method = frames[Cur].method /\ DOMAIN Clauses \subseteq Nat \ {0}
      /\ Top \in Nat /\ DOMAIN flows = 1 .. Top
  <2>1. /\ program \in Programs /\ Cur \in Nat \ {0} /\ Method = frames[Cur].method
        /\ \A k \in 1 .. Cur : frames[k].method \in DOMAIN program
        /\ Top \in Nat /\ DOMAIN flows = 1 .. Top
    BY <1>1, StateFacts
  <2>2. Method \in DOMAIN program
    BY <2>1
  <2> QED BY <2>1, <2>2, MethodFacts DEF Clauses
<1>5. Raising' /\ Raises(ex, Protecting(Clauses, ip))
  <2>1. PICK gs, n, g, frs, k, cs :
            /\ gs = flows' /\ n = Method /\ g = ThrowFlow(ex, k, <<n, ip>>) /\ frs = frames'
            /\ k = Cur /\ cs = Clauses
    OBVIOUS
  <2>2. Grown(flows, gs, Top, g)
    BY <1>1, <2>1
  <2>3. DOMAIN frs = 1 .. k /\ Len(frs) = k /\ k \in Nat \ {0} /\ frs[k].method = n
    <3>1. k \in 1 .. k
      BY <1>4, <2>1
    <3> QED BY <1>1, <1>4, <2>1, <3>1 DEF CutTo
  <2>4. cs = program[n].clauses /\ DOMAIN cs \subseteq Nat \ {0}
    BY <1>4, <2>1 DEF Clauses
  <2> QED BY <1>1, <2>1, <2>2, <2>3, <2>4, RaisesNext
<1>6. SeenIp' = 0 /\ HandledFlows' = Front(flows')
  BY <1>5 DEF SeenIp, HandledFlows
<1>7. /\ DOMAIN HandledFlows' = 1 .. Top
      /\ \A x \in 1 .. Top : HandledFlows'[x] = flows[x]
  <2>1. Cut(flows', HandledFlows', Len(flows') - 1)
    BY <1>5, HandledNext
  <2>2. Len(flows') - 1 = Top
    BY <1>1, <1>4 DEF Grown
  <2> QED BY <1>1, <2>1, <2>2 DEF Cut, Grown
<1>8. SameFlowsOf(flows, HandledFlows', Cur) /\ DifferOnTop(flows, HandledFlows', Top, Cur)
  BY <1>4, <1>7 DEF SameFlowsOf, DifferOnTop
<1>9. PICK fs : fs = HandledFlows'
  OBVIOUS
<1>10. Handlers(Clauses, fs, Cur, ip) = H
  <2>1. Distinct(flows, Cur) /\ Distinct(fs, Cur)
    BY <1>9, HandledNow, HandledNext
  <2> QED BY <1>2, <1>8, <1>9, <2>1, SameHandlers
<1>11. PICK p, q : p = ip' /\ q = SeenIp'
  OBVIOUS
<1>12. GoesTo(q, H)
  <2>1. H = Handlers(Clauses, HandledFlows', Cur, p)
    BY <1>1, <1>9, <1>10, <1>11
  <2>2. DifferOnTop(HandledFlows, HandledFlows', Top, Cur)
    BY <1>3, <1>8
  <2> QED BY <1>1, <1>11, <2>1, <2>2, GoesOn
<1>13. PICK a, b : a = Activation(Method, SeenIp, H) /\ b = Activation(Method, 0, H)
  OBVIOUS
<1>14. Abstract!Top = a /\ Len(Activations) = Cur /\ a.ip = ip
  BY <1>3, <1>13 DEF SeenWith, Abstract!Top, Activation
<1>15. [a EXCEPT !.ip = 0] = b
  BY <1>13, MovesIp
<1>16. Activations' = SetTo(Activations, b)
  BY <1>6, <1>11, <1>12, <1>13 DEF GoesTo
<1>17. Pending' = [ex |-> ex, clauses |-> Protecting(Clauses, ip)]
  BY <1>5 DEF Raises
<1>18. Abstract!Protecting(Clauses, ip) = Protecting(Clauses, ip)
  BY DEF Abstract!Protecting, Protecting
<1> QED BY <1>1, <1>3, <1>14, <1>15, <1>16, <1>17, <1>18
           DEF Abstract!Raise, Abstract!SetTop, SetTo

LEMMA RaiseFromInstructionAllowed ==
    ASSUME ProgramsSupported, RaisesSupported, FlowsIInv, HandlersIInv, FlowsIInv', HandlersIInv',
           RaiseFromInstruction
    PROVE  Abstract!RaiseFromInstruction
<1>1. Running /\ Instr.op = "may" /\ Instr.op \in RaisingOps
  BY DEF RaiseFromInstruction, RaisingOps
<1>2. PICK ex \in Exceptions : Raise(ex)
  BY DEF RaiseFromInstruction
<1>3. RaisedHere(ex)
  BY <1>1, <1>2, RaiseStep
<1>4. Abstract!Raise(ex)
  BY <1>1, <1>3, RaisedAllowed
<1>5. Abstract!Executing /\ Abstract!Instr = Instr
  BY <1>1, ExecutingSeen
<1> QED BY <1>1, <1>4, <1>5 DEF Abstract!RaiseFromInstruction

LEMMA CallOverflowsAllowed ==
    ASSUME ProgramsSupported, RaisesSupported, FlowsIInv, HandlersIInv, FlowsIInv', HandlersIInv',
           CallOverflows
    PROVE  Abstract!CallOverflows
<1>1. /\ Running /\ Instr.op \in {"call", "invoke"} /\ Instr.op \in RaisingOps
      /\ Raise(StackOverflow)
  BY DEF CallOverflows, RaisingOps
<1>2. RaisedHere(StackOverflow)
  BY <1>1, RaiseStep
<1>3. Abstract!Raise(StackOverflow)
  BY <1>1, <1>2, RaisedAllowed
<1>4. Abstract!Executing /\ Abstract!Instr = Instr
  BY <1>1, ExecutingSeen
<1> QED BY <1>1, <1>3, <1>4 DEF Abstract!CallOverflows

(* The flow on top is of the innermost handler that control is in. *)
LEMMA InnermostFlow ==
    ASSUME ProgramsSupported, FlowsIInv, HandlersIInv, outcome = "running",
           InnermostOrNone(Clauses, ip, Executing(flows, Top, Cur)),
           \A s \in 1 .. Top : flows[s].clause # NoClause,
           NEW i \in DOMAIN Clauses, IsInnermost(Clauses, ip, i)
    PROVE  /\ Top \in Nat \ {0} /\ TopFlow = flows[Top] /\ flows # <<>>
           /\ flows[Top].frame = Cur /\ flows[Top].clause # NoClause /\ Executes(flows[Top]) = i
<1>1. /\ program \in Programs /\ Cur \in Nat \ {0} /\ Method = frames[Cur].method
      /\ \A k \in 1 .. Cur : frames[k].method \in DOMAIN program
      /\ Top \in Nat
  BY StateFacts
<1>2. Method \in DOMAIN program
  BY <1>1
<1>3. DOMAIN Clauses \subseteq Nat \ {0}
  BY <1>1, <1>2, MethodFacts DEF Clauses
<1>4. Executing(flows, Top, Cur) = i
  <2>1. PICK e : e = Executing(flows, Top, Cur)
    OBVIOUS
  <2>2. e \in DOMAIN Clauses /\ IsInnermost(Clauses, ip, e)
    BY <2>1 DEF InnermostOrNone, IsInnermost
  <2>3. e <= i /\ i <= e
    BY <2>2 DEF IsInnermost
  <2>4. e \in Nat /\ i \in Nat
    BY <1>3, <2>2
  <2> QED BY <2>1, <2>3, <2>4
<1>5. i # 0
  BY <1>3
<1>6. Top # 0 /\ flows[Top].frame = Cur /\ Executes(flows[Top]) = i
  BY <1>1, <1>4, <1>5 DEF Executing
<1>7. Top \in 1 .. Top
  BY <1>1, <1>6
<1> QED BY <1>1, <1>6, <1>7 DEF TopFlow, Last, Top

LEMMA RethrowAllowed ==
    ASSUME ProgramsSupported, RaisesSupported, FlowsIInv, HandlersIInv, FlowsIInv', HandlersIInv',
           Rethrow
    PROVE  Abstract!Rethrow
<1>1. Running /\ outcome = "running" /\ Instr.op = "rethrow" /\ Instr.op \in RaisingOps
  BY DEF Rethrow, RaisingOps, Running
<1>2. /\ program \in Programs /\ Cur \in Nat \ {0} /\ Method = frames[Cur].method
      /\ \A k \in 1 .. Cur : frames[k].method \in DOMAIN program
      /\ ip \in DOMAIN program[Method].code
      /\ Top \in Nat /\ DOMAIN flows = 1 .. Top
  BY <1>1, StateFacts
<1>3. Method \in DOMAIN program
  BY <1>2
<1>4. WellNested(Clauses) /\ DOMAIN Clauses \subseteq Nat \ {0}
  BY <1>2, <1>3, MethodFacts DEF Clauses
<1>5. PICK i : IsCatch(program[Method], i) /\ IsInnermost(Clauses, ip, i)
  <2>1. SupportedRaises(program[Method])
    BY <1>2, <1>3 DEF RaisesSupported
  <2>2. SupportedRaise(program[Method], ip)
    BY <1>2, <2>1 DEF SupportedRaises
  <2> QED BY <1>1, <2>2 DEF SupportedRaise, Instr, Clauses
<1>6. i \in DOMAIN Clauses /\ Clauses[i].kind = "catch"
  BY <1>5 DEF IsCatch, Clauses
<1>7. /\ InnermostOrNone(Clauses, ip, Executing(flows, Top, Cur))
      /\ \A s \in 1 .. Top : flows[s].clause # NoClause
  BY <1>1, InstructionFacts
<1>8. PICK f : f = flows[Top]
  OBVIOUS
<1>9. /\ Top \in Nat \ {0} /\ flows # <<>> /\ f.frame = Cur /\ f.clause # NoClause
      /\ Executes(f) = i
  BY <1>1, <1>5, <1>6, <1>7, <1>8, InnermostFlow
<1>10. Top \in 1 .. Top /\ Top \in DOMAIN flows
  BY <1>2, <1>9
<1>11. Owner(f) = Method /\ f \in FlowSet(program) /\ FlowOK(program, flows, Top)
  BY <1>1, <1>8, <1>9, <1>10, StateFacts
<1>12. f.throw = TRUE /\ f.clause[2] = i /\ f.clause[1] = Method
  <2>1. f.throw \in BOOLEAN
    BY <1>11, FlowFields
  <2>2. ~f.throw => Executes(f) \in FinallysBetween(Clauses, f.src, f.target)
    BY <1>4, <1>8, <1>9, <1>11, Executed DEF Clauses
  <2>3. f.throw
    BY <1>6, <1>9, <2>1, <2>2 DEF FinallysBetween
  <2>4. f.clause[1] = Owner(f)
    BY <1>8, <1>9, <1>11 DEF FlowOK
  <2> QED BY <1>9, <1>11, <2>1, <2>3, <2>4 DEF Executes
<1>13. EnclosingThrows # {} /\ Max(EnclosingThrows) = Top
  <2>1. ip \in Clauses[i].handler
    BY <1>5 DEF IsInnermost
  <2>2. InHandler(f, ip)
    BY <1>9, <1>12, <2>1 DEF InHandler, Clauses
  <2>3. \A j \in Top .. Len(flows) : j = Top
    <3>1. Len(flows) = Top /\ Top \in Nat
      BY <1>2 DEF Top
    <3>2. \A j \in Top .. Top : j = Top
      BY ONLY <3>1
    <3> QED BY <3>1, <3>2
  <2>4. Top \in EnclosingThrows
    BY <1>8, <1>9, <1>10, <1>12, <2>2, <2>3 DEF EnclosingThrows
  <2>5. EnclosingThrows \in SUBSET (0 .. Top)
    BY <1>2 DEF EnclosingThrows
  <2>6. Max(EnclosingThrows) \in EnclosingThrows
        /\ \A y \in EnclosingThrows : Max(EnclosingThrows) >= y
    BY <1>2, <2>4, <2>5, MaxOfBounded
  <2>7. PICK n : n = Max(EnclosingThrows)
    OBVIOUS
  <2>8. n \in 0 .. Top /\ n >= Top
    BY <2>4, <2>5, <2>6, <2>7
  <2> QED BY <1>2, <2>4, <2>7, <2>8
<1>14. Raise(f.ex)
  BY <1>8, <1>13 DEF Rethrow
<1>15. Abstract!Raise(f.ex)
  <2>1. PICK ex : ex = f.ex
    OBVIOUS
  <2>2. RaisedHere(ex)
    BY <1>1, <1>14, <2>1, RaiseStep
  <2>3. Abstract!Raise(ex)
    BY <1>1, <2>2, RaisedAllowed
  <2> QED BY <2>1, <2>3
<1>16. PICK H : H = Handlers(Clauses, flows, Cur, ip)
  OBVIOUS
<1>17. AreHandlers(Clauses, flows, Cur, ip, H)
  BY <1>16, HandledNow, HandlersAt
<1>18. Top \in HandlerFlows(Clauses, flows, Cur, ip)
  BY <1>5, <1>8, <1>9, <1>10 DEF HandlerFlows, IsInnermost
<1>19. i \in DOMAIN H /\ H[i] = HandlerOf(Clauses, f)
  BY <1>8, <1>9, <1>17, <1>18 DEF AreHandlers
<1>20. H[i].kind = "caught" /\ H[i].ex = f.ex
  BY <1>6, <1>9, <1>12, <1>19 DEF HandlerOf, IsCleanup
<1>21. \A j \in DOMAIN H : ~(j < i)
  <2>1. SUFFICES ASSUME NEW x \in HandlerFlows(Clauses, flows, Cur, ip), Executes(flows[x]) < i
                 PROVE  FALSE
    BY <1>17 DEF AreHandlers
  <2>2. /\ x \in DOMAIN flows /\ flows[x].frame = Cur /\ flows[x].clause # NoClause
        /\ ip \in Clauses[Executes(flows[x])].handler
    BY DEF HandlerFlows
  <2>3. Executes(flows[x]) \in DOMAIN Clauses
    BY <1>1, <2>2, ClauseHere
  <2>4. i <= Executes(flows[x])
    BY <1>5, <2>2, <2>3 DEF IsInnermost
  <2> QED BY <1>4, <1>6, <2>1, <2>3, <2>4
<1>22. Abstract!Executing /\ Abstract!Instr = Instr /\ SeenWith(H)
  BY <1>1, <1>16, ExecutingSeen
<1>23. Abstract!Top.handlers = H
  BY <1>22 DEF SeenWith, Abstract!Top, Activation
<1> QED BY <1>1, <1>15, <1>19, <1>20, <1>21, <1>22, <1>23 DEF Abstract!Rethrow

(* No two of the execute() calls ents begin at the same frame. *)
Apart(ents) == \A d, e \in DOMAIN ents : ents[d].base = ents[e].base => d = e

LEMMA NestedApart ==
    ASSUME NEW prog, NEW frs, NEW ents, EntriesNested(prog, frs, ents),
           DOMAIN ents \subseteq Nat, \A e \in DOMAIN ents : ents[e].base \in Nat
    PROVE  Apart(ents)
<1> SUFFICES ASSUME NEW d \in DOMAIN ents, NEW e \in DOMAIN ents, ents[d].base = ents[e].base
             PROVE  d = e
  BY DEF Apart
<1>1. d \in Nat /\ e \in Nat /\ ents[d].base \in Nat
  OBVIOUS
<1>2. ~(d < e) /\ ~(e < d)
  BY <1>1 DEF EntriesNested
<1> QED BY <1>1, <1>2

LEMMA ApartNow ==
    ASSUME FlowsIInv PROVE Apart(entries)
<1>1. /\ entries \in Seq([base : Nat, ip : Nat])
      /\ EntriesNested(program, frames, entries)
  BY DEF FlowsIInv, FramesTyped
<1>2. DOMAIN entries = 1 .. Len(entries) /\ Len(entries) \in Nat
  BY <1>1, LenProperties
<1>4. \A e \in DOMAIN entries : entries[e] \in [base : Nat, ip : Nat]
  BY <1>1, <1>2, ElementOfSeq
<1>3. DOMAIN entries \subseteq Nat /\ \A e \in DOMAIN entries : entries[e].base \in Nat
  BY <1>2, <1>4
<1> QED BY <1>1, <1>3, NestedApart

LEMMA ApartNext ==
    ASSUME FlowsIInv' PROVE Apart(entries')
<1>1. PICK ents, prog, frs : ents = entries' /\ prog = program' /\ frs = frames'
  OBVIOUS
<1>2. ents \in Seq([base : Nat, ip : Nat]) /\ EntriesNested(prog, frs, ents)
  BY <1>1 DEF FlowsIInv, FramesTyped
<1>3. DOMAIN ents = 1 .. Len(ents) /\ Len(ents) \in Nat
  BY <1>2, LenProperties
<1>6. \A e \in DOMAIN ents : ents[e] \in [base : Nat, ip : Nat]
  BY <1>2, <1>3, ElementOfSeq
<1>4. DOMAIN ents \subseteq Nat /\ \A e \in DOMAIN ents : ents[e].base \in Nat
  BY <1>3, <1>6
<1>5. Apart(ents)
  BY <1>2, <1>4, NestedApart
<1> QED BY <1>1, <1>5

LEMMA WaitsAt ==
    ASSUME NEW frs, NEW ents, NEW k, Apart(ents),
           NEW e \in DOMAIN ents, ents[e].base = k + 1
    PROVE  Waits(frs, ents, k) = ents[e].ip
<1>1. PICK d : d = CHOOSE c \in DOMAIN ents : ents[c].base = k + 1
  OBVIOUS
<1>2. d \in DOMAIN ents /\ ents[d].base = k + 1
  BY <1>1
<1>3. d = e
  BY <1>2 DEF Apart
<1> QED BY <1>1, <1>3 DEF Waits

LEMMA WaitsBehind ==
    ASSUME NEW frs, NEW ents, NEW k, \A e \in DOMAIN ents : ents[e].base # k + 1
    PROVE  Waits(frs, ents, k) = frs[k].ip - 1
BY DEF Waits

LEMMA WaitsSame ==
    ASSUME NEW frs, NEW grs, NEW ents, NEW gents, NEW k, Apart(ents), Apart(gents),
           grs[k].ip = frs[k].ip,
           \A e \in DOMAIN ents : ents[e].base = k + 1 => e \in DOMAIN gents /\ gents[e] = ents[e],
           \A e \in DOMAIN gents : gents[e].base = k + 1 => e \in DOMAIN ents /\ gents[e] = ents[e]
    PROVE  Waits(grs, gents, k) = Waits(frs, ents, k)
<1>1. CASE \E e \in DOMAIN ents : ents[e].base = k + 1
  <2>1. PICK e \in DOMAIN ents : ents[e].base = k + 1
    BY <1>1
  <2>2. e \in DOMAIN gents /\ gents[e] = ents[e]
    BY <2>1
  <2>3. Waits(frs, ents, k) = ents[e].ip
    BY <2>1, WaitsAt
  <2>4. Waits(grs, gents, k) = gents[e].ip
    BY <2>1, <2>2, WaitsAt
  <2> QED BY <2>2, <2>3, <2>4
<1>2. CASE \A e \in DOMAIN ents : ents[e].base # k + 1
  <2>1. \A e \in DOMAIN gents : gents[e].base # k + 1
    BY <1>2
  <2>2. Waits(frs, ents, k) = frs[k].ip - 1
    BY <1>2, WaitsBehind
  <2>3. Waits(grs, gents, k) = grs[k].ip - 1
    BY <2>1, WaitsBehind
  <2> QED BY <2>2, <2>3
<1> QED BY <1>1, <1>2

LEMMA NoHandlersYet ==
    ASSUME NEW cs, NEW fs, NEW k, NEW p, Distinct(fs, k), \A x \in DOMAIN fs : fs[x].frame # k
    PROVE  Handlers(cs, fs, k, p) = Abstract!NoHandlers
<1>1. PICK G : G = Abstract!NoHandlers
  OBVIOUS
<1>2. HandlerFlows(cs, fs, k, p) = {}
  BY DEF HandlerFlows
<1>3. G = [c \in {} |-> "none"] /\ DOMAIN G = {}
  BY <1>1 DEF Abstract!NoHandlers
<1>4. G = [c \in DOMAIN G |-> G[c]]
  BY <1>3
<1>5. AreHandlers(cs, fs, k, p, G)
  BY <1>2, <1>3, <1>4 DEF AreHandlers
<1>6. Handlers(cs, fs, k, p) = G
  BY <1>5, HandlersAre
<1> QED BY <1>1, <1>6

LEMMA EnteredAllowed ==
    ASSUME ProgramsSupported, FlowsIInv, HandlersIInv, FlowsIInv', HandlersIInv', Entered
    PROVE  Abstract!Call
<1>1. /\ Running /\ outcome = "running" /\ Instr.op \in {"call", "invoke"} /\ mode' = "run"
      /\ ip' = 1 /\ UNCHANGED <<program, flows, outcome>>
  BY DEF Entered, Running
<1>2. PICK H : H = Handlers(Clauses, flows, Cur, ip)
  OBVIOUS
<1>3. /\ ~Raising /\ HandledFlows = flows /\ SeenWith(H) /\ SeenIp = ip
      /\ Abstract!Executing /\ Abstract!Instr = Instr /\ Abstract!Clauses = Clauses
  BY <1>1, <1>2, ExecutingSeen
<1>4. ~Raising' /\ HandledFlows' = flows /\ SeenIp' = ip' /\ Pending' = Pending
  BY <1>1, <1>3 DEF Raising, HandledFlows, SeenIp, Pending
<1>5. /\ Cur \in Nat \ {0} /\ DOMAIN frames = 1 .. Cur /\ Len(frames) = Cur
      /\ Top \in Nat /\ DOMAIN flows = 1 .. Top /\ \A x \in 1 .. Top : flows[x].frame \in 1 .. Cur
      /\ ip \in Nat
  BY <1>1, StateFacts DEF Cur, FlowsIInv, FramesTyped
<1>6. PICK n, grs, gents, V, W :
          n = Cur /\ grs = frames' /\ gents = entries' /\ V = Activations /\ W = Activations'
  OBVIOUS
<1>7. /\ DOMAIN grs = 1 .. (n + 1) /\ Len(grs) = n + 1
      /\ \A j \in 1 .. n : grs[j].method = frames[j].method
      /\ \A j \in 1 .. n : j # n => grs[j].ip = frames[j].ip
      /\ grs[n + 1].method = Instr.method
      /\ \A e \in DOMAIN entries : e \in DOMAIN gents /\ gents[e] = entries[e]
      /\ \A e \in DOMAIN gents : e \in DOMAIN entries \/ gents[e].base = n + 1
  BY <1>6 DEF Entered
<1>8. Apart(entries) /\ Apart(gents)
  BY <1>6, ApartNow, ApartNext
<1>9. ASSUME NEW j \in 1 .. n, j < n PROVE Waits(grs, gents, j) = Waits(frames, entries, j)
  <2>1. j + 1 # n + 1 /\ j # n
    <3>1. j \in Nat /\ n \in Nat
      BY <1>5, <1>6
    <3> QED BY <1>9, <3>1
  <2>2. grs[j].ip = frames[j].ip
    BY <1>7, <2>1
  <2> QED BY <1>7, <1>8, <2>1, <2>2, WaitsSame
<1>10. Waits(grs, gents, n) = ip
  <2>1. CASE Instr.op = "call"
    <3>1. grs[n].ip = ip + 1 /\ \A e \in DOMAIN gents : gents[e].base # n + 1
      BY <1>6, <2>1 DEF Entered
    <3>2. Waits(grs, gents, n) = grs[n].ip - 1
      BY <3>1, WaitsBehind
    <3> QED BY <1>5, <3>1, <3>2
  <2>2. CASE Instr.op = "invoke"
    <3>1. PICK e \in DOMAIN gents : gents[e].base = n + 1 /\ gents[e].ip = ip
      BY <1>6, <2>2 DEF Entered
    <3> QED BY <1>8, <3>1, WaitsAt
  <2> QED BY <1>1, <2>1, <2>2
<1>11. V = View(program, frames, entries, flows, ip, ip)
  BY <1>3, <1>6, ViewNow
<1>12. W = View(program, grs, gents, flows, 1, 1)
  BY <1>1, <1>4, <1>6, ViewNext
<1>13. PICK a : a = ActivationAt(program, grs, flows, n + 1, 1, 1)
  OBVIOUS
<1>14. W = Append(V, a)
  <2>1. n \in Nat \ {0} /\ DOMAIN frames = 1 .. n /\ Len(frames) = n
    BY <1>5, <1>6
  <2> QED BY <1>7, <1>9, <1>10, <1>11, <1>12, <1>13, <2>1, EnterView
<1>15. a = [method |-> Instr.method, ip |-> 1, handlers |-> Abstract!NoHandlers]
  <2>1. PICK k, cs : k = n + 1 /\ cs = program[grs[k].method].clauses
    OBVIOUS
  <2>2. Distinct(flows, k)
    BY HandledNow
  <2>3. \A x \in DOMAIN flows : flows[x].frame # k
    BY <1>5, <1>6, <2>1
  <2>4. Handlers(cs, flows, k, 1) = Abstract!NoHandlers
    BY <2>2, <2>3, NoHandlersYet
  <2>5. a = ActivationAt(program, grs, flows, k, 1, 1) /\ grs[k].method = Instr.method
    BY <1>7, <1>13, <2>1
  <2> QED BY <2>1, <2>4, <2>5 DEF ActivationAt
<1> QED BY <1>1, <1>3, <1>4, <1>6, <1>14, <1>15 DEF Abstract!Call

(* The caller of the last frame waits at w, ... *)
WaitsFor(p, w) ==
    LET code == program[frames[Cur - 1].method].code
    IN  \/ /\ \A e \in DOMAIN entries : entries[e].base # Cur
           /\ w \in DOMAIN code /\ code[w].op = "call" /\ p = w + 1
       \/ /\ \E e \in DOMAIN entries : entries[e].base = Cur
          /\ p = w

LEMMA CallerWaits ==
    ASSUME ProgramsSupported, FlowsIInv, HandlersIInv, outcome = "running", Cur > 1,
           NEW p, SavedAt(p), p \in Nat, NEW w, w = Waits(frames, entries, Cur - 1)
    PROVE  WaitsFor(p, w)
<1>1. Cur \in Nat /\ DOMAIN frames = 1 .. Cur /\ Len(frames) = Cur
  BY StateFacts DEF Cur
<1>2. PICK k \in Nat \ {0} : k = Cur - 1 /\ k + 1 = Cur /\ k \in DOMAIN frames /\ k < Len(frames)
  BY <1>1
<1>3. CASE (\A e \in DOMAIN entries : entries[e].base # Cur) /\ p = frames[Cur - 1].ip
  <2>1. w = frames[k].ip - 1
    BY <1>2, <1>3, WaitsBehind
  <2>2. LET m == program[frames[k].method]
        IN  frames[k].ip - 1 \in DOMAIN m.code /\ m.code[frames[k].ip - 1].op = "call"
    BY <1>2, <1>3 DEF HandlersIInv, CallersWait
  <2>3. p = w + 1
    BY <1>2, <1>3, <2>1
  <2> QED BY <1>2, <1>3, <2>1, <2>2, <2>3 DEF WaitsFor
<1>4. CASE \E e \in DOMAIN entries : entries[e].base = Cur /\ p = entries[e].ip
  <2>1. PICK e \in DOMAIN entries : entries[e].base = k + 1 /\ p = entries[e].ip
    BY <1>2, <1>4
  <2>2. Apart(entries)
    BY ApartNow
  <2>3. Waits(frames, entries, k) = entries[e].ip
    BY <2>1, <2>2, WaitsAt
  <2>4. p = w /\ entries[e].base = Cur
    BY <1>2, <2>1, <2>3
  <2> QED BY <2>4 DEF WaitsFor
<1> QED BY <1>3, <1>4 DEF SavedAt

(* ... and what it does next is for it alone to see. *)
CallerGoesTo(q, w) ==
    /\ Len(Activations) = Cur
    /\ Activations' = CallerTo(Activations, q)
    /\ Activations[Cur - 1].ip = w
    /\ Activations[Cur - 1].method = frames[Cur - 1].method

LEMMA CallerGoesOn ==
    ASSUME ProgramsSupported, FlowsIInv, HandlersIInv, FlowsIInv', HandlersIInv', Ended,
           NEW r, DifferOnTop(HandledFlows, HandledFlows', r, Cur),
           NEW w, w = Waits(frames, entries, Cur - 1),
           \A h \in DOMAIN program[frames[Cur - 1].method].clauses :
               ip' \in program[frames[Cur - 1].method].clauses[h].handler
                   <=> w \in program[frames[Cur - 1].method].clauses[h].handler
    PROVE  CallerGoesTo(SeenIp', w)
<1>1. /\ outcome = "running" /\ outcome' = "running" /\ program' = program /\ Cur > 1
      /\ CutTo(frames, frames', Cur - 1)
      /\ EntriesBelow(entries, entries', Cur - 1)
  BY DEF Ended
<1>2. PICK n, k, grs, gents, fs, gs, V, W, pp, qq, cs :
          /\ n = Cur /\ k = Cur - 1 /\ grs = frames' /\ gents = entries'
          /\ fs = HandledFlows /\ gs = HandledFlows'
          /\ V = Activations /\ W = Activations' /\ pp = ip' /\ qq = SeenIp'
          /\ cs = program[frames[k].method].clauses
  OBVIOUS
<1>3. /\ n \in Nat \ {0} /\ k \in Nat \ {0} /\ n = k + 1
      /\ DOMAIN frames = 1 .. n /\ Len(frames) = n
  <2>1. Cur \in Nat \ {0} /\ DOMAIN frames = 1 .. Cur /\ Len(frames) = Cur
    BY <1>1, StateFacts DEF Cur
  <2> QED BY <1>1, <1>2, <2>1
<1>4. /\ DOMAIN grs = 1 .. k /\ Len(grs) = k
      /\ \A j \in 1 .. k : grs[j].method = frames[j].method
      /\ \A j \in 1 .. k : j < k => grs[j].ip = frames[j].ip
  BY <1>1, <1>2 DEF CutTo
<1>5. Apart(entries) /\ Apart(gents)
  BY <1>2, ApartNow, ApartNext
<1>6. ASSUME NEW j \in 1 .. k, j < k PROVE Waits(grs, gents, j) = Waits(frames, entries, j)
  <2>1. grs[j].ip = frames[j].ip
    BY <1>4, <1>6
  <2>2. /\ \A e \in DOMAIN gents : e \in DOMAIN entries /\ gents[e] = entries[e]
        /\ \A e \in DOMAIN entries : entries[e].base > k \/ e \in DOMAIN gents
    BY <1>1, <1>2 DEF EntriesBelow
  <2>3. ~(j + 1 > k)
    BY <1>3, <1>6
  <2>4. \A e \in DOMAIN entries :
            entries[e].base = j + 1 => e \in DOMAIN gents /\ gents[e] = entries[e]
    BY <2>2, <2>3
  <2> QED BY <1>5, <2>1, <2>2, <2>4, WaitsSame
<1>7. \A j : Distinct(fs, j) /\ Distinct(gs, j)
  BY <1>2, HandledNow, HandledNext
<1>8. \A j \in 1 .. k : SameFlowsOf(fs, gs, j)
  <2>1. \A j \in 1 .. k : j # n
    BY <1>3
  <2>2. DifferOnTop(fs, gs, r, n)
    BY <1>2
  <2> QED BY <2>1, <2>2, OthersSame
<1>9. \A x \in DOMAIN gs :
          gs[x].frame = k /\ gs[x].clause # NoClause => Executes(gs[x]) \in DOMAIN cs
  <2>1. PICK hs, prog : hs = flows' /\ prog = program'
    OBVIOUS
  <2>2. \A x \in DOMAIN gs : x \in DOMAIN hs /\ gs[x] = hs[x]
    BY <1>2, <2>1, HandledNext DEF Cut
  <2>3. FlowsOrdered(prog, grs, hs)
    BY <1>2, <2>1, OrderedNext
  <2>4. DOMAIN hs = 1 .. Len(hs)
    BY <2>3, LenProperties DEF FlowsOrdered
  <2>5. ASSUME NEW x \in DOMAIN gs, gs[x].frame = k, gs[x].clause # NoClause
        PROVE  Executes(gs[x]) \in DOMAIN cs
    <3>1. x \in 1 .. Len(hs) /\ hs[x].clause # NoClause /\ hs[x] = gs[x]
      BY <2>2, <2>4, <2>5
    <3>2. Executes(hs[x]) \in DOMAIN prog[grs[hs[x].frame].method].clauses
      BY <2>3, <3>1, FlowBegan
    <3>3. grs[k].method = frames[k].method
      <4>1. k \in 1 .. k
        BY <1>3
      <4> QED BY <1>4, <4>1
    <3> QED BY <1>1, <1>2, <2>1, <2>5, <3>1, <3>2, <3>3
  <2> QED BY <2>5
<1>10. Handlers(cs, gs, k, pp) = Handlers(cs, gs, k, w)
  <2>1. \A h \in DOMAIN cs : pp \in cs[h].handler <=> w \in cs[h].handler
    BY <1>2
  <2>2. \A x : x \in HandlerFlows(cs, gs, k, pp) <=> x \in HandlerFlows(cs, gs, k, w)
    BY <1>9, <2>1 DEF HandlerFlows
  <2>3. HandlerFlows(cs, gs, k, pp) = HandlerFlows(cs, gs, k, w)
    BY <2>2
  <2> QED BY <1>7, <2>3, HandlersSame
<1>11. V = View(program, frames, entries, fs, ip, SeenIp)
  BY <1>2, ViewNow
<1>12. W = View(program, grs, gents, gs, pp, qq)
  BY <1>1, <1>2, ViewNext
<1>13. W = CallerTo(V, qq) /\ V[k].ip = w
  <2>1. w = Waits(frames, entries, k)
    BY <1>2
  <2>2. Handlers(program[frames[k].method].clauses, gs, k, pp) =
            Handlers(program[frames[k].method].clauses, gs, k, w)
    BY <1>2, <1>10
  <2>3. CallerLeft(V, W, k, w, qq)
    BY <1>3, <1>4, <1>6, <1>7, <1>8, <1>11, <1>12, <2>1, <2>2, LeaveView
  <2> QED BY <2>3 DEF CallerLeft
<1>14. Len(V) = n
  BY <1>3, <1>11, ViewSeq
<1>15. V[k].method = frames[k].method
  <2>1. k \in DOMAIN frames
    BY <1>3
  <2> QED BY <1>11, <2>1 DEF View, ActivationAt
<1> QED BY <1>2, <1>13, <1>14, <1>15 DEF CallerGoesTo

LEMMA ReturnedAllowed ==
    ASSUME ProgramsSupported, FlowsIInv, HandlersIInv, FlowsIInv', HandlersIInv', Returned,
           Instr.op = "ret"
    PROVE  Abstract!Ret
<1>1. PICK p : ReturnedTo(p)
  BY DEF Returned
<1>2. /\ Ended /\ mode' = "run" /\ Running /\ outcome = "running" /\ outcome' = "running"
      /\ Cur > 1 /\ program' = program
      /\ SavedAt(p) /\ CallerPlaced(p, Top) /\ flows' = flows
  BY <1>1 DEF ReturnedTo, Ended, Running
<1>3. PICK H : H = Handlers(Clauses, flows, Cur, ip)
  OBVIOUS
<1>4. /\ ~Raising /\ HandledFlows = flows /\ SeenWith(H) /\ SeenIp = ip
      /\ Abstract!Executing /\ Abstract!Instr = Instr /\ Abstract!Clauses = Clauses
  BY <1>2, <1>3, ExecutingSeen
<1>5. ~Raising' /\ HandledFlows' = flows /\ SeenIp' = ip' /\ Pending' = Pending
  BY <1>2, <1>4 DEF Raising, HandledFlows, SeenIp, Pending
<1>6. PICK k, m, w : /\ k = Cur - 1 /\ m = program[frames[k].method]
                     /\ w = Waits(frames, entries, Cur - 1)
  OBVIOUS
<1>7. /\ Cur \in Nat /\ k \in 1 .. Cur
      /\ program \in Programs /\ frames[k].method \in DOMAIN program
      /\ p \in DOMAIN m.code /\ p \in Nat
  <2>1. /\ Cur \in Nat /\ program \in Programs
        /\ \A j \in 1 .. Cur : frames[j].method \in DOMAIN program
    BY <1>2, StateFacts
  <2>2. k \in 1 .. Cur /\ p \in DOMAIN m.code
    BY <1>2, <1>6, <2>1 DEF CallerPlaced
  <2>3. DOMAIN m.code \subseteq Nat
    BY <1>6, <2>1, <2>2, MethodFacts
  <2> QED BY <2>1, <2>2, <2>3
<1>8. WaitsFor(p, w)
  BY <1>2, <1>6, <1>7, CallerWaits
<1>9. /\ w \in DOMAIN m.code /\ m.code[w].op \in {"call", "invoke"} /\ ip' = w + 1
  BY <1>1, <1>6, <1>7, <1>8 DEF WaitsFor, ReturnedTo
<1>10. \A h \in DOMAIN m.clauses : ip' \in m.clauses[h].handler <=> w \in m.clauses[h].handler
  <2>1. WellFormedAt(m, w)
    BY <1>6, <1>7, <1>9, MethodFacts
  <2> QED BY <1>9, <2>1 DEF WellFormedAt
<1>11. CallerGoesTo(ip', w)
  <2>1. DifferOnTop(HandledFlows, HandledFlows', Top, Cur)
    BY <1>2, <1>4, <1>5, NoneDiffer
  <2>2. CallerGoesTo(SeenIp', w)
    BY <1>2, <1>6, <1>10, <2>1, CallerGoesOn
  <2> QED BY <1>5, <2>2
<1>12. PICK a, V : a = Activations[Cur - 1] /\ V = Front(Activations)
  OBVIOUS
<1>13. /\ Len(Activations) = Cur /\ Len(Activations) # 1
       /\ Activations' = CallerTo(Activations, w + 1)
       /\ a.ip = w
  BY <1>2, <1>7, <1>9, <1>11, <1>12 DEF CallerGoesTo
<1>14. Activations' = [Abstract!Front(Activations) EXCEPT ![Len(Activations) - 1].ip = @ + 1]
  <2>1. Abstract!Front(Activations) = V
    BY <1>12 DEF Abstract!Front, Front
  <2>2. V[Cur - 1] = a
    <3>1. PICK A, n : A = Activations /\ n = Cur
      OBVIOUS
    <3>2. A = View(program, frames, entries, flows, ip, ip)
      BY <1>4, <3>1, ViewNow
    <3>3. n \in Nat \ {0} /\ DOMAIN frames = 1 .. n /\ k = n - 1 /\ k \in 1 .. n - 1
      BY <1>2, <1>6, <3>1, StateFacts
    <3>4. DOMAIN A = 1 .. n /\ Len(A) = n
          /\ \A S : (\A j \in 1 .. n : A[j] \in S) => A \in Seq(S)
      BY <3>2, <3>3, ViewSeq
    <3>5. PICK S : \A j \in 1 .. n : A[j] \in S
      <4>1. \A j \in 1 .. n : A[j] \in {A[i] : i \in 1 .. n}
        OBVIOUS
      <4> QED BY <4>1
    <3>6. A \in Seq(S)
      BY <3>4, <3>5
    <3>7. \A i \in 1 .. n - 1 : Front(A)[i] = A[i]
      BY <3>3, <3>4, <3>6, FrontOf
    <3> QED BY <1>6, <1>12, <3>1, <3>3, <3>7
  <2>3. [V EXCEPT ![Cur - 1].ip = @ + 1] = [V EXCEPT ![Cur - 1].ip = w + 1]
    BY <1>13, <2>2
  <2> QED BY <1>12, <1>13, <2>1, <2>3 DEF CallerTo
<1> QED BY <1>2, <1>4, <1>5, <1>13, <1>14 DEF Abstract!Ret

(* The first r of the flows fs. *)
Below(fs, r) == [x \in 1 .. r |-> fs[x]]

LEMMA BelowDistinct ==
    ASSUME NEW fs, NEW r, 1 .. r \subseteq DOMAIN fs, NEW k, Distinct(fs, k)
    PROVE  Distinct(Below(fs, r), k)
<1>1. PICK gs : gs = Below(fs, r)
  OBVIOUS
<1>2. DOMAIN gs \subseteq DOMAIN fs /\ \A x \in DOMAIN gs : gs[x] = fs[x]
  BY <1>1 DEF Below
<1>3. Distinct(gs, k)
  BY <1>2, DistinctBelow
<1> QED BY <1>1, <1>3

LEMMA DifferAbove ==
    ASSUME ProgramsSupported, FlowsIInv, HandlersIInv, outcome = "running",
           NEW r \in 0 .. Top, Raising => r # Top, NEW gs, NEW n \in {r, r + 1},
           DOMAIN gs = 1 .. n, \A x \in 1 .. r : gs[x] = flows[x],
           n = r + 1 => gs[r + 1].frame = Cur,
           \A x \in r + 1 .. Top : flows[x].frame = Cur
    PROVE  DifferOnTop(HandledFlows, gs, r, Cur)
<1>1. Top \in Nat /\ DOMAIN flows = 1 .. Top
  BY StateFacts
<1>2. PICK fs : fs = HandledFlows
  OBVIOUS
<1>3. PICK m \in 0 .. Top : DOMAIN fs = 1 .. m /\ r <= m /\ \A x \in 1 .. m : fs[x] = flows[x]
  <2>1. CASE Raising
    <3>1. Cut(flows, fs, Top - 1) /\ Top - 1 \in Nat
      BY <1>2, <2>1, HandledNow DEF Cut
    <3>2. Top - 1 \in 0 .. Top /\ r <= Top - 1
      BY <1>1, <2>1, <3>1
    <3> QED BY <3>1, <3>2 DEF Cut
  <2>2. CASE ~Raising
    <3>1. fs = flows
      BY <1>2, <2>2, HandledNow
    <3>2. Top \in 0 .. Top /\ r <= Top
      BY <1>1
    <3> QED BY <1>1, <3>1, <3>2
  <2> QED BY <2>1, <2>2
<1>4. \A x \in 1 .. r : x \in DOMAIN fs /\ x \in DOMAIN gs /\ gs[x] = fs[x]
  <2>1. \A x \in 1 .. r : x \in 1 .. m /\ x \in 1 .. n
    BY <1>1, <1>3
  <2> QED BY <1>3, <2>1
<1>5. \A x \in DOMAIN fs : x \in 1 .. r \/ fs[x].frame = Cur
  <2>1. \A x \in 1 .. m : x \in 1 .. r \/ x \in r + 1 .. Top
    BY <1>1, <1>3
  <2> QED BY <1>3, <2>1
<1>6. \A x \in DOMAIN gs : x \in 1 .. r \/ gs[x].frame = Cur
  <2>1. \A x \in 1 .. n : x \in 1 .. r \/ (x = r + 1 /\ n = r + 1)
    BY <1>1
  <2> QED BY <2>1
<1> QED BY <1>2, <1>4, <1>5, <1>6 DEF DifferOnTop

(* A handler is entered for flow g, above the first r. *)
LEMMA EntersHandler ==
    ASSUME ProgramsSupported, FlowsIInv, HandlersIInv, FlowsIInv', HandlersIInv',
           outcome = "running", mode' = "run",
           UNCHANGED <<program, frames, entries, outcome>>,
           NEW r \in 0 .. Top, Raising => r # Top, \A x \in r + 1 .. Top : flows[x].frame = Cur,
           NEW g, Grown(flows, flows', r, g), g.frame = Cur, g.clause # NoClause,
           NEW e, e = Executes(g), NEW h, h = HandlerOf(Clauses, g),
           ip' \in Clauses[e].handler,
           NEW p, p = ip', NEW K, K = Handlers(Clauses, Below(flows, r), Cur, p)
    PROVE  GoesTo(p, Besides(K, e, h))
<1>1. PICK gs, hs : gs = flows' /\ hs = Below(flows, r)
  OBVIOUS
<1>2. ~Raising' /\ HandledFlows' = gs /\ SeenIp' = p
  BY <1>1 DEF Raising, HandledFlows, SeenIp
<1>3. r \in Nat /\ DOMAIN gs = 1 .. (r + 1) /\ (\A x \in 1 .. r : gs[x] = flows[x]) /\ gs[r + 1] = g
      /\ 1 .. r \subseteq DOMAIN flows
  BY <1>1 DEF Grown
<1>4. OneMore(hs, gs, g)
  BY <1>1, <1>3 DEF OneMore, Below
<1>5. Distinct(hs, Cur) /\ Distinct(gs, Cur)
  BY <1>1, <1>2, <1>3, HandledNow, HandledNext, BelowDistinct
<1>6. Handlers(Clauses, gs, Cur, p) = Besides(K, e, h)
  BY <1>1, <1>4, <1>5, HandlersPushed
<1>7. DifferOnTop(HandledFlows, gs, r, Cur)
  <2>1. r + 1 \in {r, r + 1}
    OBVIOUS
  <2> QED BY <1>3, <2>1, DifferAbove
<1>8. CutTo(frames, frames', Cur)
  BY SameFrames
<1>9. PICK q, G : q = SeenIp' /\ G = Besides(K, e, h)
  OBVIOUS
<1>10. G = Handlers(Clauses, HandledFlows', Cur, p) /\ DifferOnTop(HandledFlows, HandledFlows', r, Cur)
  BY <1>2, <1>6, <1>7, <1>9
<1>11. GoesTo(q, G)
  BY <1>8, <1>9, <1>10, GoesOn
<1> QED BY <1>2, <1>9, <1>11

LEMMA EnterHandlerSeen ==
    ASSUME NEW H, SeenWith(H), Abstract!Clauses = Clauses, NEW i, NEW K, NEW h, NEW p,
           p = Clauses[i].entry, GoesTo(p, Besides(Still(Clauses, K, p), i, h))
    PROVE  Abstract!EnterHandler(i, K, h)
<1>1. PICK a, b, G : /\ a = Activation(Method, SeenIp, H)
                     /\ b = Activation(Method, p, G) /\ G = Besides(Still(Clauses, K, p), i, h)
  OBVIOUS
<1>2. Abstract!Top = a /\ Len(Activations) = Cur
  BY <1>1 DEF SeenWith, Abstract!Top
<1>3. Abstract!With(Abstract!InScope(K, p), i, h) = G
  BY <1>1 DEF Abstract!InScope, Abstract!Restrict, Still, Restrict, Abstract!With, Besides
<1>4. [a EXCEPT !.ip = p, !.handlers = G] = b
  <2>1. MovedTo(a, p, G) = b
    BY <1>1, Moves
  <2> QED BY <2>1 DEF MovedTo
<1>5. Activations' = SetTo(Activations, b)
  BY <1>1 DEF GoesTo
<1> QED BY <1>2, <1>3, <1>4, <1>5 DEF Abstract!EnterHandler, Abstract!SetTop, SetTo
------------------------------------------------------------------------------
(* Leaving.                                                                *)

(* A leave, to target: the handlers K and the finally blocks rest are left. *)
LEMMA LeaveDone ==
    ASSUME NEW H, SeenWith(H), Abstract!Clauses = Clauses, NEW K, NEW p,
           GoesTo(p, Still(Clauses, K, p))
    PROVE  Abstract!ContinueLeave(K, {}, p)
<1>1. PICK a, b, G : /\ a = Activation(Method, SeenIp, H)
                     /\ b = Activation(Method, p, G) /\ G = Still(Clauses, K, p)
  OBVIOUS
<1>2. Abstract!Top = a /\ Len(Activations) = Cur
  BY <1>1 DEF SeenWith, Abstract!Top
<1>3. Abstract!InScope(K, p) = G
  BY <1>1 DEF Abstract!InScope, Abstract!Restrict, Still, Restrict
<1>4. [a EXCEPT !.ip = p, !.handlers = G] = b
  <2>1. MovedTo(a, p, G) = b
    BY <1>1, Moves
  <2> QED BY <2>1 DEF MovedTo
<1>5. Activations' = SetTo(Activations, b)
  BY <1>1 DEF GoesTo
<1> QED BY <1>2, <1>3, <1>4, <1>5 DEF Abstract!ContinueLeave, Abstract!SetTop, SetTo

LeaveHandler(rest, target) == [kind |-> "leave", target |-> target, rest |-> rest]

LEMMA LeaveEnters ==
    ASSUME NEW H, SeenWith(H), Abstract!Clauses = Clauses, NEW K, NEW target,
           NEW rest, rest # {}, NEW i, i = Min(rest), NEW p, p = Clauses[i].entry,
           NEW L, L = Still(Clauses, K, target), NEW h, h = LeaveHandler(rest \ {i}, target),
           GoesTo(p, Besides(Still(Clauses, L, p), i, h))
    PROVE  Abstract!ContinueLeave(K, rest, target)
<1>1. Abstract!EnterHandler(i, L, h)
  BY EnterHandlerSeen
<1>2. L = Abstract!InScope(K, target)
  BY DEF Abstract!InScope, Abstract!Restrict, Still, Restrict
<1>3. i = Abstract!Min(rest)
  BY DEF Abstract!Min, Min
<1> QED BY <1>1, <1>2, <1>3 DEF Abstract!ContinueLeave, LeaveHandler

(* The leave pops the flows above r, whose handlers it leaves. *)
LeavesFlows(r) ==
    /\ r \in 0 .. Top
    /\ \A x \in r + 1 .. Top : /\ flows[x].frame = Cur
                               /\ Instr.target \notin Clauses[Executes(flows[x])].handler
    /\ \A x \in 1 .. r : flows[x].frame = Cur =>
           Instr.target \in Clauses[Executes(flows[x])].handler
               <=> ip \in Clauses[Executes(flows[x])].handler

LEMMA LeavesNone ==
    ASSUME ProgramsSupported, FlowsIInv, HandlersIInv, Running, Instr.op = "leave",
           Surrounding # "catch_or_filter"
    PROVE  LeavesFlows(Top)
<1>1. outcome = "running"
  BY DEF Running
<1>2. Top \in Nat /\ DOMAIN flows = 1 .. Top
  BY <1>1, StateFacts
<1>3. \A x \in 1 .. Top : flows[x].clause # NoClause
  BY InstructionFacts
<1>4. \A x \in 1 .. Top : flows[x].frame = Cur => Executes(flows[x]) \in DOMAIN Clauses
  BY <1>1, <1>2, <1>3, ClauseHere
<1>5. \A h \in DOMAIN Clauses :
          Instr.target \in Clauses[h].handler <=> ip \in Clauses[h].handler
  BY LeavesNoHandler
<1>6. Top \in 0 .. Top /\ \A x \in Top + 1 .. Top : FALSE
  BY <1>2
<1> QED BY <1>4, <1>5, <1>6 DEF LeavesFlows

LEMMA LeavesOne ==
    ASSUME ProgramsSupported, FlowsIInv, HandlersIInv, Running, Instr.op = "leave",
           Surrounding = "catch_or_filter"
    PROVE  LeavesFlows(Top - 1) /\ Top # 0
<1>1. outcome = "running"
  BY DEF Running
<1>2. Top \in Nat /\ DOMAIN flows = 1 .. Top
  BY <1>1, StateFacts
<1>3. \A x \in 1 .. Top : flows[x].clause # NoClause
  BY InstructionFacts
<1>4. \A x \in 1 .. Top : flows[x].frame = Cur => Executes(flows[x]) \in DOMAIN Clauses
  BY <1>1, <1>2, <1>3, ClauseHere
<1>5. PICK c : c = Executes(flows[Top])
  OBVIOUS
<1>6. /\ Top # 0 /\ flows[Top].frame = Cur /\ c \in DOMAIN Clauses
      /\ \A h \in DOMAIN Clauses :
             Instr.target \in Clauses[h].handler <=> h # c /\ ip \in Clauses[h].handler
  BY <1>5, LeavesCatch DEF Executes
<1>7. Top \in 1 .. Top /\ Top - 1 \in 0 .. Top /\ \A x \in 1 .. Top - 1 : x \in 1 .. Top /\ x # Top
  BY <1>2, <1>6
<1>8. \A x \in 1 .. Top - 1 : flows[x].frame = Cur => Executes(flows[x]) # c
  <2>1. Distinct(flows, Cur)
    BY HandledNow
  <2> QED BY <1>2, <1>3, <1>5, <1>6, <1>7, <2>1 DEF Distinct
<1>9. \A x \in (Top - 1) + 1 .. Top : x = Top
  BY <1>2
<1> QED BY <1>4, <1>5, <1>6, <1>7, <1>8, <1>9 DEF LeavesFlows

LEMMA HandlersLeft ==
    ASSUME ProgramsSupported, FlowsIInv, HandlersIInv, Running, Instr.op = "leave",
           NEW r, LeavesFlows(r), NEW gs, DOMAIN gs = 1 .. r, \A x \in 1 .. r : gs[x] = flows[x],
           NEW target, target = Instr.target
    PROVE  Handlers(Clauses, gs, Cur, target) =
               Still(Clauses, Handlers(Clauses, flows, Cur, ip), target)
<1>1. outcome = "running"
  BY DEF Running
<1>2. Top \in Nat /\ DOMAIN flows = 1 .. Top
  BY <1>1, StateFacts
<1>3. DOMAIN gs \subseteq DOMAIN flows /\ \A x \in DOMAIN flows : x \in DOMAIN gs \/ x \in r + 1 .. Top
  BY <1>2 DEF LeavesFlows
<1>4. Distinct(flows, Cur) /\ Distinct(gs, Cur)
  BY <1>3, HandledNow, DistinctBelow
<1>5. \A x \in DOMAIN flows :
          /\ flows[x].frame = Cur /\ flows[x].clause # NoClause
          /\ target \in Clauses[Executes(flows[x])].handler
          => IF x \in DOMAIN gs THEN ip \in Clauses[Executes(flows[x])].handler
             ELSE ip \notin Clauses[Executes(flows[x])].handler
  BY <1>3 DEF LeavesFlows
<1>6. \A x \in DOMAIN gs : gs[x] = flows[x]
  OBVIOUS
<1>7. PICK cs, fs, k, p : cs = Clauses /\ fs = flows /\ k = Cur /\ p = ip
  OBVIOUS
<1>8. \A x \in DOMAIN fs :
          fs[x].frame = k /\ fs[x].clause # NoClause /\ target \in cs[Executes(fs[x])].handler =>
              IF x \in DOMAIN gs THEN p \in cs[Executes(fs[x])].handler
              ELSE p \notin cs[Executes(fs[x])].handler
  BY <1>5, <1>7
<1>9. /\ Distinct(fs, k) /\ Distinct(gs, k)
      /\ DOMAIN gs \subseteq DOMAIN fs /\ \A x \in DOMAIN gs : gs[x] = fs[x]
  BY <1>3, <1>4, <1>6, <1>7
<1>10. Handlers(cs, gs, k, target) = Still(cs, Handlers(cs, fs, k, p), target)
  BY ONLY <1>8, <1>9, HandlersNarrow
<1> QED BY <1>7, <1>10

LEMMA LeaveDoneAllowed ==
    ASSUME ProgramsSupported, FlowsIInv, HandlersIInv, FlowsIInv', HandlersIInv',
           Running, Instr.op = "leave", Finallys = {}, ip' = Instr.target, mode' = "run",
           UNCHANGED <<program, frames, entries, outcome>>,
           NEW r, LeavesFlows(r), DOMAIN flows' = 1 .. r, \A x \in 1 .. r : flows'[x] = flows[x]
    PROVE  Abstract!Leave
<1>1. outcome = "running"
  BY DEF Running
<1>2. PICK H, p, gs, K : /\ H = Handlers(Clauses, flows, Cur, ip) /\ p = ip' /\ gs = flows'
                         /\ K = Still(Clauses, H, p)
  OBVIOUS
<1>3. /\ ~Raising /\ HandledFlows = flows /\ SeenWith(H) /\ SeenIp = ip
      /\ Abstract!Executing /\ Abstract!Instr = Instr /\ Abstract!Clauses = Clauses
  BY <1>2, ExecutingSeen
<1>4. ~Raising' /\ HandledFlows' = gs /\ SeenIp' = p /\ Pending' = Pending
  BY <1>2, <1>3 DEF Raising, HandledFlows, SeenIp, Pending
<1>5. K = Handlers(Clauses, gs, Cur, p)
  BY <1>2, HandlersLeft
<1>6. GoesTo(p, K)
  <2>1. CutTo(frames, frames', Cur)
    BY <1>1, SameFrames
  <2>2. DifferOnTop(HandledFlows, HandledFlows', r, Cur)
    <3>1. r \in 0 .. Top /\ \A x \in r + 1 .. Top : flows[x].frame = Cur
      BY DEF LeavesFlows
    <3>2. r \in {r, r + 1} /\ r # r + 1
      BY <1>1, <3>1, StateFacts
    <3>3. DifferOnTop(HandledFlows, gs, r, Cur)
      BY <1>1, <1>2, <1>3, <3>1, <3>2, DifferAbove
    <3> QED BY <1>4, <3>3
  <2>3. K = Handlers(Clauses, HandledFlows', Cur, p) /\ p = SeenIp'
    BY <1>4, <1>5
  <2> QED BY <1>1, <1>2, <2>1, <2>2, <2>3, GoesOn
<1>7. Abstract!ContinueLeave(H, {}, p)
  BY <1>2, <1>3, <1>6, LeaveDone
<1>8. Abstract!Top.ip = ip /\ Abstract!Top.handlers = H
  BY <1>3 DEF SeenWith, Abstract!Top, Activation
<1>9. Abstract!FinallysBetween(Clauses, ip, p) = {}
  BY <1>2 DEF Abstract!FinallysBetween, FinallysBetween, Finallys
<1> QED BY <1>2, <1>3, <1>4, <1>7, <1>8, <1>9 DEF Abstract!Leave

LeavesBy(g, target, i) ==
    /\ g.throw = FALSE /\ g.frame = Cur /\ g.src = ip /\ g.target = target
    /\ g.clause # NoClause /\ Executes(g) = i

LEMMA LeaveFlowFields ==
    ASSUME NEW target, NEW i \in Nat, NEW remain, NEW g, g = LeaveFlow(target, i, remain)
    PROVE  LeavesBy(g, target, i)
<1>1. /\ g.throw = FALSE /\ g.frame = Cur /\ g.src = ip /\ g.target = target
      /\ g.clause = <<Method, i>> /\ g.next = i + 1
  BY DEF LeaveFlow
<1>2. <<Method, i>> # NoClause
  BY DEF NoClause
<1>3. Executes(g) = i
  BY <1>1 DEF Executes
<1> QED BY <1>1, <1>2, <1>3 DEF LeavesBy

LEMMA LeaveEntersAllowed ==
    ASSUME ProgramsSupported, FlowsIInv, HandlersIInv, FlowsIInv', HandlersIInv',
           Running, Instr.op = "leave", Finallys # {},
           NEW r, LeavesFlows(r), EntersFirst(r)
    PROVE  Abstract!Leave
<1>1. /\ outcome = "running" /\ mode' = "run" /\ ip' = Clauses[Min(Finallys)].entry
      /\ UNCHANGED <<program, frames, entries, outcome>> /\ r \in 0 .. Top
      /\ Grown(flows, flows', r,
               LeaveFlow(Instr.target, Min(Finallys), Cardinality(Finallys) - 1))
  BY DEF EntersFirst
<1>2. PICK H, p, hs, K, i, g, target, rest :
          /\ H = Handlers(Clauses, flows, Cur, ip) /\ p = ip' /\ hs = Below(flows, r)
          /\ target = Instr.target /\ K = Still(Clauses, H, target)
          /\ rest = Finallys /\ i = Min(rest)
          /\ g = LeaveFlow(target, i, Cardinality(rest) - 1)
  OBVIOUS
<1>3. /\ ~Raising /\ HandledFlows = flows /\ SeenWith(H) /\ SeenIp = ip
      /\ Abstract!Executing /\ Abstract!Instr = Instr /\ Abstract!Clauses = Clauses
  BY <1>2, ExecutingSeen
<1>4. /\ WellNested(Clauses) /\ DOMAIN Clauses \subseteq Nat \ {0}
      /\ \A h \in DOMAIN Clauses : target \in Clauses[h].handler => ip \in Clauses[h].handler
  BY <1>2, LeaveFacts
<1>5. /\ i \in rest /\ i \in DOMAIN Clauses /\ i \in Nat
      /\ ip \in Clauses[i].try /\ target \notin Clauses[i].try
      /\ Clauses[i].kind = "finally"
      /\ \A j \in rest : i <= j
      /\ rest \subseteq Nat
  <2>1. rest \subseteq Nat /\ rest # {} /\ rest \subseteq DOMAIN Clauses
    BY <1>2, <1>4 DEF Finallys, FinallysBetween
  <2>2. i \in rest /\ \A j \in rest : i <= j
    BY <1>2, <2>1, MinOfNats
  <2> QED BY <1>2, <2>1, <2>2 DEF Finallys, FinallysBetween
<1>6. /\ g.throw = FALSE /\ g.frame = Cur /\ g.src = ip /\ g.target = target
      /\ g.clause # NoClause /\ Executes(g) = i
  <2>1. PICK n : n = Cardinality(rest) - 1
    OBVIOUS
  <2>2. g = LeaveFlow(target, i, n)
    BY <1>2, <2>1
  <2>3. LeavesBy(g, target, i)
    BY <1>5, <2>2, LeaveFlowFields
  <2> QED BY <2>3 DEF LeavesBy
<1>7. Grown(flows, flows', r, g) /\ p = Clauses[i].entry
  BY <1>1, <1>2
<1>8. 1 .. r \subseteq DOMAIN flows /\ DOMAIN hs = 1 .. r /\ \A x \in 1 .. r : hs[x] = flows[x]
  BY <1>1, <1>2 DEF Grown, Below
<1>9. Handlers(Clauses, hs, Cur, target) = K
  BY <1>2, <1>8, HandlersLeft
<1>10. Handlers(Clauses, hs, Cur, p) = Still(Clauses, K, p)
  <2>1. ASSUME NEW x \in 1 .. r, flows[x].frame = Cur, p \in Clauses[Executes(flows[x])].handler
        PROVE  target \in Clauses[Executes(flows[x])].handler
    <3>1. PICK h : h = Executes(flows[x])
      OBVIOUS
    <3>2. /\ InnermostOrNone(Clauses, ip, Executing(flows, Top, Cur))
          /\ \A s \in 1 .. Top : flows[s].clause # NoClause
      BY InstructionFacts
    <3>3. x \in 1 .. Top /\ x \in DOMAIN flows /\ Top \in 0 .. Top
      BY <1>1, <1>8, <2>1, StateFacts
    <3>4. h \in DOMAIN Clauses
      BY <1>1, <2>1, <3>1, <3>2, <3>3, ClauseHere
    <3>5. InOrLeft(Clauses, h, ip)
      <4>1. Cur \in 1 .. Cur /\ (\A y \in 1 .. Top : flows[y].frame <= Cur)
            /\ Clauses = program[frames[Cur].method].clauses
        BY <1>1, StateFacts DEF Clauses
      <4> QED BY <1>1, <2>1, <3>1, <3>2, <3>3, <4>1, AroundHere
    <3>6. p \in Clauses[i].handler
      BY <1>4, <1>5, <1>7 DEF WellNested
    <3>7. ip \in Clauses[h].handler
      BY <1>4, <1>5, <2>1, <3>1, <3>4, <3>5, <3>6, EntersInside
    <3> QED BY <1>2, <2>1, <3>1, <3>7 DEF LeavesFlows
  <2>2. Distinct(hs, Cur)
    BY <1>2, <1>8, HandledNow, BelowDistinct
  <2>3. PICK cs, k : cs = Clauses /\ k = Cur
    OBVIOUS
  <2>4. \A x \in DOMAIN hs :
            /\ hs[x].frame = k /\ hs[x].clause # NoClause /\ p \in cs[Executes(hs[x])].handler
            => target \in cs[Executes(hs[x])].handler
    BY <1>8, <2>1, <2>3
  <2>5. Distinct(hs, k) /\ K = Handlers(cs, hs, k, target)
    BY <1>9, <2>2, <2>3
  <2>6. Handlers(cs, hs, k, p) = Still(cs, Handlers(cs, hs, k, target), p)
    BY ONLY <2>4, <2>5, HandlersStill
  <2> QED BY <2>3, <2>5, <2>6
<1>11. PICK h : h = LeaveHandler(rest \ {i}, target)
  OBVIOUS
<1>12. h = HandlerOf(Clauses, g)
  <2>1. {j \in FinallysBetween(Clauses, ip, target) : j > i} = rest \ {i}
    BY <1>2, <1>5 DEF Finallys
  <2> QED BY <1>6, <1>11, <2>1 DEF HandlerOf, LeaveHandler
<1>13. GoesTo(p, Besides(Still(Clauses, K, p), i, h))
  <2>1. PICK G : G = Still(Clauses, K, p)
    OBVIOUS
  <2>2. G = Handlers(Clauses, Below(flows, r), Cur, p)
    BY <1>2, <1>10, <2>1
  <2>3. ip' \in Clauses[i].handler
    BY <1>2, <1>4, <1>5, <1>7 DEF WellNested
  <2>4. \A x \in r + 1 .. Top : flows[x].frame = Cur
    BY DEF LeavesFlows
  <2>5. i = Executes(g)
    BY <1>6
  <2>6. GoesTo(p, Besides(G, i, h))
    BY <1>1, <1>2, <1>3, <1>6, <1>7, <1>12, <2>2, <2>3, <2>4, <2>5, EntersHandler
  <2> QED BY <2>1, <2>6
<1>14. Abstract!ContinueLeave(H, rest, target)
  BY <1>2, <1>3, <1>7, <1>11, <1>13, LeaveEnters
<1>15. Abstract!Top.ip = ip /\ Abstract!Top.handlers = H
  BY <1>3 DEF SeenWith, Abstract!Top, Activation
<1>16. Abstract!FinallysBetween(Clauses, ip, target) = rest
  BY <1>2 DEF Abstract!FinallysBetween, FinallysBetween, Finallys
<1>17. Pending' = Pending
  BY <1>1, <1>3 DEF Raising, Pending
<1> QED BY <1>1, <1>2, <1>3, <1>14, <1>15, <1>16, <1>17 DEF Abstract!Leave

LEMMA LeaveByBranchAllowed ==
    ASSUME ProgramsSupported, FlowsIInv, HandlersIInv, FlowsIInv', HandlersIInv', LeaveByBranch
    PROVE  Abstract!Leave
<1>1. /\ Running /\ Instr.op = "leave" /\ Surrounding # "catch_or_filter"
      /\ Surrounding = "try" => Finallys = {}
      /\ ip' = Instr.target /\ mode' = "run" /\ flows' = flows
      /\ UNCHANGED <<program, frames, entries, outcome>>
  BY DEF LeaveByBranch, Goto
<1>2. Finallys = {}
  <2>1. SUFFICES ASSUME NEW i \in Finallys, Surrounding # "try" PROVE FALSE
    BY <1>1
  <2>2. /\ i \in DOMAIN Clauses /\ Clauses[i].kind # "fault"
        /\ LeavesTry(Clauses[i], ip, Instr.target)
    BY DEF Finallys, FinallysBetween, LeavesTry
  <2>3. Surrounding # "none"
    BY <2>2 DEF Surrounding, SurroundingBlock
  <2> QED BY <1>1, <2>1, <2>3 DEF Surrounding, SurroundingBlock
<1>3. LeavesFlows(Top)
  BY <1>1, LeavesNone
<1>4. DOMAIN flows' = 1 .. Top /\ \A x \in 1 .. Top : flows'[x] = flows[x]
  BY <1>1, StateFacts DEF Running
<1> QED BY <1>1, <1>2, <1>3, <1>4, LeaveDoneAllowed

LEMMA LeaveCatchWithoutFinallyAllowed ==
    ASSUME ProgramsSupported, FlowsIInv, HandlersIInv, FlowsIInv', HandlersIInv',
           LeaveCatchWithoutFinally
    PROVE  Abstract!Leave
<1>1. /\ Running /\ Instr.op = "leave" /\ Surrounding = "catch_or_filter"
      /\ Finallys = {} /\ ip' = Instr.target /\ mode' = "run" /\ flows' = Front(flows)
      /\ UNCHANGED <<program, frames, entries, outcome>>
  BY DEF LeaveCatchWithoutFinally, Goto
<1>2. LeavesFlows(Top - 1) /\ Top # 0
  BY <1>1, LeavesOne
<1>3. Cut(flows, flows', Top - 1)
  BY <1>1, <1>2, PopStep DEF Running
<1>4. DOMAIN flows' = 1 .. Top - 1 /\ \A x \in 1 .. Top - 1 : flows'[x] = flows[x]
  BY <1>3 DEF Cut
<1> QED BY <1>1, <1>2, <1>4, LeaveDoneAllowed

LEMMA LeaveTryWithFinallyAllowed ==
    ASSUME ProgramsSupported, FlowsIInv, HandlersIInv, FlowsIInv', HandlersIInv',
           LeaveTryWithFinally
    PROVE  Abstract!Leave
<1>1. Running /\ Instr.op = "leave" /\ Surrounding # "catch_or_filter" /\ Finallys # {}
  BY DEF LeaveTryWithFinally
<1> QED BY <1>1, EnterTryStep, LeavesNone, LeaveEntersAllowed

LEMMA LeaveCatchWithFinallyAllowed ==
    ASSUME ProgramsSupported, FlowsIInv, HandlersIInv, FlowsIInv', HandlersIInv',
           LeaveCatchWithFinally
    PROVE  Abstract!Leave
<1>1. Running /\ Instr.op = "leave" /\ Surrounding = "catch_or_filter" /\ Finallys # {}
  BY DEF LeaveCatchWithFinally
<1> QED BY <1>1, EnterCatchStep, LeavesOne, LeaveEntersAllowed
------------------------------------------------------------------------------
(* Raising.                                                                *)

(* The last activation raises ex, which the clauses R have yet to see. *)
Seeks(ex, R) == Pending = [ex |-> ex, clauses |-> R]

LEMMA RaisingSeen ==
    ASSUME ProgramsSupported, FlowsIInv, HandlersIInv, UnwindingThrow,
           NEW H, H = Handlers(Clauses, HandledFlows, Cur, ip),
           NEW R, R = ToSearch(TopFlow), NEW ex, ex = TopFlow.ex
    PROVE  /\ Raising /\ outcome = "running" /\ mode = "unwind"
           /\ SeenWith(H) /\ SeenIp = 0 /\ Seeks(ex, R)
           /\ Abstract!Clauses = Clauses
           /\ ex \in Exceptions /\ Pending # Abstract!NotRaising
<1>1. Raising /\ outcome = "running" /\ mode = "unwind" /\ TopFlow.throw
  BY DEF UnwindingThrow, Raising
<1>2. SeenWith(H) /\ SeenIp = 0
  BY <1>1, SeenTop DEF SeenIp
<1>3. Seeks(ex, R)
  BY <1>1 DEF Seeks, Pending
<1>4. Abstract!Clauses = Clauses
  <2>1. Abstract!Top.method = Method
    BY <1>2 DEF SeenWith, Abstract!Top, Activation
  <2> QED BY <2>1 DEF Abstract!Clauses, Clauses
<1>5. ex \in Exceptions
  <2>1. TopFlow \in FlowSet(program)
    BY <1>1, UnwindFacts
  <2> QED BY <1>1, <2>1, FlowFields
<1>6. Pending # Abstract!NotRaising
  <2>1. ex # NoException
    BY <1>5, CodeAssumption
  <2> QED BY <1>3, <2>1 DEF Seeks, Abstract!NotRaising
<1> QED BY <1>1, <1>2, <1>3, <1>4, <1>5, <1>6

(* A filter accepts everything, so that it need not be asked. *)
LEMMA TakesSame ==
    ASSUME ProgramsSupported, RaisesSupported, FlowsIInv, HandlersIInv, UnwindingThrow,
           NEW i \in DOMAIN Clauses
    PROVE  Abstract!Takes(i) <=> Takes(i, TopFlow.ex)
<1>1. PICK ex, R, H : /\ ex = TopFlow.ex /\ R = ToSearch(TopFlow)
                      /\ H = Handlers(Clauses, HandledFlows, Cur, ip)
  OBVIOUS
<1>2. /\ outcome = "running" /\ mode = "unwind" /\ Seeks(ex, R)
      /\ Abstract!Clauses = Clauses /\ ex \in Exceptions
  BY <1>1, RaisingSeen
<1>3. Pending.ex = ex
  BY <1>2 DEF Seeks
<1>4. program \in Programs /\ Method \in DOMAIN program /\ WellNested(Clauses)
  BY <1>2, UnwindFacts
<1>5. PICK c : c = Clauses[i]
  OBVIOUS
<1>6. c \in Clause
  BY <1>4, <1>5, ElementOfSeq DEF WellNested
<1>7. c.kind \in {"catch", "filter", "finally", "fault"}
  BY <1>6 DEF Clause, ClauseKinds
<1>8. c.kind = "filter" => c.catches = Exceptions
  <2>1. SupportedRaises(program[Method])
    BY <1>4 DEF RaisesSupported
  <2> QED BY <1>5, <2>1 DEF SupportedRaises, Clauses
<1>9. Takes(i, ex) <=> c.kind # "catch" \/ Catches(c, ex)
  BY <1>5 DEF Takes
<1>10. Abstract!Takes(i) <=> Abstract!IsCleanup(c) \/ Abstract!Catches(c, ex)
  BY <1>2, <1>3, <1>5 DEF Abstract!Takes
<1>11. Takes(i, ex) <=> Abstract!Takes(i)
  BY <1>2, <1>7, <1>8, <1>9, <1>10 DEF Abstract!IsCleanup, Abstract!Catches, Catches
<1> QED BY <1>1, <1>11

(* A handler around that of the taken clause i is one that control is in *)
(* already, unless its flow is popped.                                   *)
LEMMA TakenFromInside ==
    ASSUME ProgramsSupported, FlowsIInv, HandlersIInv, NEW i, NEW r, NEW g, TakenBy(i, r, g),
           NEW x \in 1 .. r, flows[x].frame = Cur, flows[x].clause # NoClause,
           NEW h, h = Executes(flows[x]), Clauses[i].entry \in Clauses[h].handler
    PROVE  ip \in Clauses[h].handler
<1>1. /\ UnwindingThrow /\ i \in DOMAIN Clauses /\ FirstTaking(i) /\ r \in 0 .. Top - 1
  BY DEF TakenBy
<1>2. PICK f, at : f = flows[Top] /\ at = Origin(f)
  OBVIOUS
<1>3. /\ outcome = "running" /\ mode = "unwind" /\ TopFlow = f /\ f.throw = TRUE /\ f.frame = Cur
      /\ f.at[2] \in Clauses[i].try /\ i >= f.next /\ i \in Nat
      /\ ThrowOK(program[Method], flows, Top)
  BY <1>1, <1>2, TakingFacts
<1>4. /\ Top \in Nat \ {0} /\ Owner(f) = Method /\ WellNested(Clauses)
      /\ DOMAIN Clauses \subseteq Nat \ {0}
  BY <1>2, <1>3, UnwindFacts
<1>5. at = f.at[2] /\ at \in Clauses[i].try
  BY <1>2, <1>3 DEF Origin
<1>6. x \in 1 .. Top /\ x < Top /\ x \in DOMAIN flows /\ Top \in DOMAIN flows
  BY <1>1, <1>3, <1>4, StateFacts
<1>7. h \in DOMAIN Clauses
  BY <1>3, <1>6, ClauseHere
<1>8. InOrLeft(Clauses, h, at)
  BY <1>2, <1>3, <1>4, <1>6 DEF HandlersIInv, OriginsKept, Clauses
<1>9. Clauses[i].entry \in Clauses[i].handler
  BY <1>1, <1>4 DEF WellNested
<1>10. CASE f.clause = NoClause
  <2>1. ip = at
    BY <1>2, <1>3, <1>10 DEF HandlersIInv, UnwindsAt
  <2> QED BY <1>1, <1>4, <1>5, <1>7, <1>8, <1>9, <2>1, EntersInside
<1>11. CASE f.clause # NoClause
  <2>1. PICK e : e = Executes(f)
    OBVIOUS
  <2>2. e \in DOMAIN Clauses /\ ip \in Clauses[e].handler
    BY <1>3, <1>11, <2>1 DEF HandlersIInv, UnwindsAt, IsInnermost
  <2>3. at \in Clauses[e].try
    BY <1>2, <1>3, <1>6, <1>11, <2>1, ClauseHere
  <2>4. e < i
    <3>1. f.next = f.clause[2] + 1 /\ f.clause[2] \in DOMAIN Clauses /\ e = f.clause[2]
      BY <1>2, <1>3, <1>11, <2>1 DEF ThrowOK, Executes, Clauses
    <3> QED BY <1>3, <1>4, <3>1
  <2>5. Unit(Clauses[e]) \subseteq Clauses[h].handler
    BY <1>1, <1>4, <1>5, <1>7, <1>8, <1>9, <2>2, <2>3, <2>4, EntersInsideNext
  <2> QED BY <2>2, <2>5 DEF Unit
<1> QED BY <1>10, <1>11

(* The handlers whose flows are popped are left. *)
LEMMA TakenFromOutside ==
    ASSUME ProgramsSupported, FlowsIInv, HandlersIInv, NEW i, NEW r, NEW g, TakenBy(i, r, g),
           NEW x \in r + 1 .. Top - 1, flows[x].clause # NoClause,
           NEW h, h = Executes(flows[x])
    PROVE  Clauses[i].entry \notin Clauses[h].handler
<1>1. /\ UnwindingThrow /\ i \in DOMAIN Clauses /\ r \in 0 .. Top - 1
      /\ flows[x].frame = Cur
      /\ Clauses[i].kind = "catch" /\ ~Covers(Clauses, flows[x], Clauses[i].entry)
      /\ outcome = "running" /\ mode = "unwind"
  BY DEF TakenBy, UnwindingThrow
<1>2. PICK f : f = flows[x]
  OBVIOUS
<1>3. /\ program \in Programs /\ Method \in DOMAIN program
      /\ WellNested(Clauses) /\ DOMAIN Clauses \subseteq Nat \ {0} /\ Top \in Nat \ {0}
  BY <1>1, UnwindFacts
<1>4. x \in 1 .. Top /\ x \in DOMAIN flows /\ x \in Nat \ {0}
  BY <1>1, <1>3, StateFacts
<1>5. /\ f \in FlowSet(program) /\ FlowOK(program, flows, x)
      /\ Owner(f) = Method
  BY <1>1, <1>2, <1>4, StateFacts
<1>6. /\ f.clause[2] \in DOMAIN Clauses /\ f.clause[2] <= h
      /\ f.throw => f.clause[2] = h
      /\ ~f.throw => h \in FinallysBetween(Clauses, f.src, f.target)
      /\ h \in DOMAIN Clauses
  BY <1>2, <1>3, <1>4, <1>5, Executed DEF Clauses
<1>7. Clauses[i].entry \notin Clauses[f.clause[2]].handler
  BY <1>1, <1>2 DEF Covers
<1>8. f.throw \in BOOLEAN
  BY <1>5, FlowFields
<1>9. CASE f.clause[2] = h
  BY <1>7, <1>9
<1>10. CASE f.clause[2] # h /\ ~f.throw
  <2>1. LeaveOK(program[Method], flows, x)
    BY <1>2, <1>5, <1>10 DEF FlowOK
  <2>2. PICK m : m = program[Method]
    OBVIOUS
  <2>3. /\ f.src \in DOMAIN m.code /\ m.code[f.src].op = "leave"
        /\ m.code[f.src].target = f.target
        /\ f.clause[2] \in FinallysBetween(m.clauses, f.src, f.target)
        /\ m.clauses = Clauses
    BY <1>2, <2>1, <2>2 DEF LeaveOK, Clauses
  <2>4. SupportedLeave(m, f.src)
    BY <1>3, <2>2, <2>3, MethodFacts
  <2>5. f.clause[2] < h
    BY <1>3, <1>6, <1>10
  <2>6. IsCatch(m, i)
    BY <1>1, <2>3 DEF IsCatch
  <2>7. PICK F : F = FinallysBetween(m.clauses, f.src, f.target)
    OBVIOUS
  <2>8. \A a, b \in F, c \in DOMAIN m.clauses :
            a < b /\ IsCatch(m, c) => m.clauses[c].entry \notin m.clauses[b].handler
    BY <2>3, <2>4, <2>7 DEF SupportedLeave
  <2>9. f.clause[2] \in F /\ h \in F /\ i \in DOMAIN m.clauses
    BY <1>1, <1>6, <1>10, <2>3, <2>7
  <2> QED BY <2>3, <2>5, <2>6, <2>8, <2>9
<1> QED BY <1>6, <1>8, <1>9, <1>10

(* The handlers that are still executing when clause i takes what is raised. *)
LEMMA HandlersTaken ==
    ASSUME ProgramsSupported, FlowsIInv, HandlersIInv, NEW i, NEW r, NEW g, TakenBy(i, r, g),
           NEW p, p = Clauses[i].entry
    PROVE  Handlers(Clauses, Below(flows, r), Cur, p) =
               Still(Clauses, Handlers(Clauses, HandledFlows, Cur, ip), p)
<1>1. UnwindingThrow /\ r \in 0 .. Top - 1 /\ outcome = "running"
  BY DEF TakenBy, UnwindingThrow
<1>2. Raising
  BY <1>1 DEF UnwindingThrow, Raising
<1>3. PICK cs, fs, gs, k, q : /\ cs = Clauses /\ fs = HandledFlows /\ gs = Below(flows, r)
                              /\ k = Cur /\ q = ip
  OBVIOUS
<1>4. Top \in Nat /\ DOMAIN flows = 1 .. Top
  BY <1>1, StateFacts
<1>5. /\ DOMAIN fs = 1 .. Top - 1 /\ \A x \in 1 .. Top - 1 : fs[x] = flows[x]
  BY <1>2, <1>3, HandledNow DEF Cut
<1>6. DOMAIN gs = 1 .. r /\ \A x \in 1 .. r : gs[x] = flows[x]
  BY <1>3 DEF Below
<1>7. /\ DOMAIN gs \subseteq DOMAIN fs /\ \A x \in DOMAIN gs : gs[x] = fs[x]
      /\ \A x \in 1 .. Top - 1 : x \in 1 .. r \/ x \in r + 1 .. Top - 1
  BY <1>1, <1>4, <1>5, <1>6
<1>8. Distinct(fs, k) /\ Distinct(gs, k)
  BY <1>3, <1>7, HandledNow, DistinctBelow
<1>9. ASSUME NEW x \in DOMAIN fs, fs[x].frame = k, fs[x].clause # NoClause,
             p \in cs[Executes(fs[x])].handler
      PROVE  x \in DOMAIN gs /\ q \in cs[Executes(fs[x])].handler
  <2>1. PICK h : h = Executes(flows[x])
    OBVIOUS
  <2>2. fs[x] = flows[x] /\ x \in 1 .. Top - 1
    BY <1>5, <1>9
  <2>3. x \notin r + 1 .. Top - 1
    BY <1>3, <1>9, <2>1, <2>2, TakenFromOutside
  <2>4. x \in 1 .. r
    BY <1>7, <2>2, <2>3
  <2>5. ip \in Clauses[h].handler
    BY <1>3, <1>9, <2>1, <2>2, <2>4, TakenFromInside
  <2> QED BY <1>3, <1>6, <2>1, <2>2, <2>4, <2>5
<1>10. \A x \in DOMAIN fs :
           fs[x].frame = k /\ fs[x].clause # NoClause /\ p \in cs[Executes(fs[x])].handler =>
               IF x \in DOMAIN gs THEN q \in cs[Executes(fs[x])].handler
               ELSE q \notin cs[Executes(fs[x])].handler
  BY <1>9
<1>11. Handlers(cs, gs, k, p) = Still(cs, Handlers(cs, fs, k, q), p)
  BY ONLY <1>7, <1>8, <1>10, HandlersNarrow
<1> QED BY <1>3, <1>11

(* What the taken clause does when its handler ends. *)
RaiseHandler(cleanup, ex, rest) ==
    IF cleanup THEN [kind |-> "raise", ex |-> ex, rest |-> rest] ELSE [kind |-> "caught", ex |-> ex]

LEMMA TakenAllowed ==
    ASSUME ProgramsSupported, RaisesSupported, FlowsIInv, HandlersIInv, FlowsIInv', HandlersIInv',
           Taken
    PROVE  Abstract!Dispatch
<1>1. PICK i, r, g : TakenBy(i, r, g)
  BY DEF Taken
<1>2. /\ UnwindingThrow /\ i \in DOMAIN Clauses /\ FirstTaking(i) /\ r \in 0 .. Top - 1
      /\ \A x \in r + 1 .. Top - 1 : flows[x].frame = Cur
      /\ g.throw = TRUE /\ g.ex = TopFlow.ex /\ g.frame = Cur /\ g.at = TopFlow.at
      /\ g.clause = <<Method, i>> /\ Grown(flows, flows', r, g)
      /\ ip' = Clauses[i].entry /\ mode' = "run" /\ outcome = "running"
      /\ UNCHANGED <<program, frames, entries, outcome>>
  BY <1>1 DEF TakenBy
<1>3. PICK ex, R, H, f, p, K, rest, h :
          /\ ex = TopFlow.ex /\ R = ToSearch(TopFlow)
          /\ H = Handlers(Clauses, HandledFlows, Cur, ip) /\ f = flows[Top]
          /\ p = Clauses[i].entry /\ K = Handlers(Clauses, Below(flows, r), Cur, p)
          /\ rest = {j \in R : j > i} /\ h = HandlerOf(Clauses, g)
  OBVIOUS
<1>4. /\ Raising /\ mode = "unwind" /\ SeenWith(H) /\ Seeks(ex, R)
      /\ Abstract!Clauses = Clauses /\ Pending # Abstract!NotRaising
  BY <1>2, <1>3, RaisingSeen
<1>5. /\ TopFlow = f /\ f.at[1] = Method /\ i >= f.next /\ f.next \in Nat /\ i \in Nat
  BY <1>2, <1>3, TakingFacts
<1>6. /\ Top \in Nat \ {0} /\ f.frame = Cur /\ WellNested(Clauses)
      /\ DOMAIN Clauses \subseteq Nat \ {0}
  BY <1>2, <1>3, <1>4, UnwindFacts
<1>7. K = Still(Clauses, H, p)
  BY <1>1, <1>3, HandlersTaken
<1>8. /\ i \in R /\ Takes(i, ex) /\ \A j \in R : Takes(j, ex) => i <= j
      /\ R \subseteq DOMAIN Clauses
  BY <1>2, <1>3 DEF FirstTaking, ToSearch, Protecting
<1>9. rest = {j \in Protecting(Clauses, g.at[2]) : j > i}
  <2>1. R = {j \in Protecting(Clauses, g.at[2]) : j >= f.next}
    BY <1>2, <1>3, <1>5 DEF ToSearch
  <2>2. \A j \in Protecting(Clauses, g.at[2]) : j > i => j >= f.next
    BY <1>5, <1>6 DEF Protecting
  <2> QED BY <1>3, <2>1, <2>2
<1>10. Executes(g) = i /\ g.clause # NoClause
  BY <1>2 DEF Executes, NoClause
<1>11. h = RaiseHandler(IsCleanup(Clauses[i]), ex, rest)
  BY <1>2, <1>3, <1>9, <1>10 DEF HandlerOf, RaiseHandler
<1>12. GoesTo(p, Besides(K, i, h))
  <2>1. r \in 0 .. Top /\ r # Top /\ \A x \in r + 1 .. Top : x \in r + 1 .. Top - 1 \/ x = Top
    BY <1>2, <1>6
  <2>2. \A x \in r + 1 .. Top : flows[x].frame = Cur
    BY <1>2, <1>3, <1>6, <2>1
  <2>3. p \in Clauses[i].handler /\ p = ip'
    BY <1>2, <1>3, <1>6 DEF WellNested
  <2>4. i = Executes(g)
    BY <1>10
  <2> QED BY <1>2, <1>3, <1>10, <2>1, <2>2, <2>3, <2>4, EntersHandler
<1>13. Abstract!EnterHandler(i, H, h)
  BY <1>3, <1>4, <1>7, <1>12, EnterHandlerSeen
<1>14. Abstract!Top.handlers = H /\ Pending.ex = ex /\ Pending.clauses = R
  BY <1>4 DEF SeenWith, Abstract!Top, Activation, Seeks
<1>15. \A j \in R : Abstract!Takes(j) <=> Takes(j, ex)
  BY <1>2, <1>3, <1>8, TakesSame
<1>16. h = IF Abstract!IsCleanup(Clauses[i])
           THEN [kind |-> "raise", ex |-> ex, rest |-> {j \in R : j > i}]
           ELSE [kind |-> "caught", ex |-> ex]
  BY <1>3, <1>11 DEF RaiseHandler, Abstract!IsCleanup, IsCleanup
<1>17. Pending' = Abstract!NotRaising
  BY <1>2 DEF Pending, Raising, Abstract!NotRaising
<1>18. Abstract!EnterHandler(i, Abstract!Top.handlers,
           IF Abstract!IsCleanup(Abstract!Clauses[i])
           THEN [kind |-> "raise", ex |-> Pending.ex, rest |-> {j \in Pending.clauses : j > i}]
           ELSE [kind |-> "caught", ex |-> Pending.ex])
  BY <1>4, <1>13, <1>14, <1>16
<1> QED BY <1>2, <1>4, <1>8, <1>14, <1>15, <1>17, <1>18 DEF Abstract!Dispatch
------------------------------------------------------------------------------
(* Finally blocks end.                                                     *)

(* H without the handler of clause e, which is innermost and does h, is W. *)
HandlerEnds(H, e, h, W) ==
    HasOver(H, e, h, W) /\ \A j \in DOMAIN H : e <= j

LEMMA TopHandlerEnds ==
    ASSUME ProgramsSupported, FlowsIInv, HandlersIInv, outcome = "running",
           Top \in DOMAIN flows, NEW f, f = flows[Top], f.frame = Cur, f.clause # NoClause,
           NEW e, e = Executes(f), e \in DOMAIN Clauses, IsInnermost(Clauses, ip, e),
           NEW hs, DOMAIN hs = 1 .. Top - 1, \A x \in 1 .. Top - 1 : hs[x] = flows[x],
           NEW H, H = Handlers(Clauses, flows, Cur, ip), NEW h, h = HandlerOf(Clauses, f),
           NEW W, W = Handlers(Clauses, hs, Cur, ip)
    PROVE  HandlerEnds(H, e, h, W)
<1>1. /\ Top \in Nat /\ DOMAIN flows = 1 .. Top /\ WellNested(Clauses)
      /\ DOMAIN Clauses \subseteq Nat \ {0}
  <2>1. /\ Top \in Nat /\ DOMAIN flows = 1 .. Top /\ Cur \in 1 .. Cur
        /\ program \in Programs /\ Method = frames[Cur].method
        /\ \A k \in 1 .. Cur : frames[k].method \in DOMAIN program
    BY StateFacts
  <2> QED BY <2>1, MethodFacts DEF Clauses
<1>2. OneMore(hs, flows, f)
  <2>1. Top - 1 \in Nat /\ Top = (Top - 1) + 1
    BY <1>1
  <2> QED BY <1>1, <2>1 DEF OneMore
<1>3. Distinct(flows, Cur) /\ Distinct(hs, Cur)
  <2>1. DOMAIN hs \subseteq DOMAIN flows /\ \A x \in DOMAIN hs : hs[x] = flows[x]
    BY <1>1
  <2> QED BY <2>1, HandledNow, DistinctBelow
<1>4. ip \in Clauses[Executes(f)].handler
  BY DEF IsInnermost
<1>5. HasOver(H, e, h, W)
  BY <1>2, <1>3, <1>4, HandlersPopped
<1>6. ASSUME NEW j \in DOMAIN H PROVE e <= j
  <2>1. AreHandlers(Clauses, flows, Cur, ip, H)
    BY <1>3, HandlersAt
  <2>2. PICK x \in HandlerFlows(Clauses, flows, Cur, ip) : j = Executes(flows[x])
    BY <1>6, <2>1 DEF AreHandlers
  <2>3. /\ x \in DOMAIN flows /\ flows[x].frame = Cur /\ flows[x].clause # NoClause
        /\ ip \in Clauses[j].handler
    BY <2>2 DEF HandlerFlows
  <2>4. j \in DOMAIN Clauses
    BY <2>2, <2>3, ClauseHere
  <2> QED BY <2>3, <2>4 DEF IsInnermost
<1> QED BY <1>5, <1>6 DEF HandlerEnds

LEMMA EndFinallyAllowed ==
    ASSUME ProgramsSupported, FlowsIInv, HandlersIInv, FlowsIInv', HandlersIInv', EndFinally
    PROVE  \/ Abstract!EndFinallyOfRaise
           \/ UNCHANGED <<program, Activations, Pending, outcome>>
<1>1. /\ Running /\ outcome = "running" /\ Instr.op = "endfinally" /\ mode' = "unwind"
      /\ UNCHANGED <<program, frames, ip, entries, flows, outcome>>
  BY DEF EndFinally, Running
<1>2. PICK H, f : H = Handlers(Clauses, flows, Cur, ip) /\ f = flows[Top]
  OBVIOUS
<1>3. /\ ~Raising /\ HandledFlows = flows /\ SeenWith(H) /\ SeenIp = ip
      /\ Abstract!Executing /\ Abstract!Instr = Instr /\ Abstract!Clauses = Clauses
  BY <1>1, <1>2, ExecutingSeen
<1>4. PICK e \in DOMAIN Clauses : IsCleanup(Clauses[e]) /\ IsInnermost(Clauses, ip, e)
  <2>1. program \in Programs /\ Method \in DOMAIN program /\ ip \in DOMAIN program[Method].code
    BY <1>1, StateFacts
  <2>2. WellFormedAt(program[Method], ip)
    BY <2>1, MethodFacts
  <2> QED BY <1>1, <2>2 DEF WellFormedAt, Instr, Clauses
<1>5. /\ Top \in Nat \ {0} /\ TopFlow = f /\ flows # <<>>
      /\ f.frame = Cur /\ f.clause # NoClause /\ Executes(f) = e
  <2>1. /\ InnermostOrNone(Clauses, ip, Executing(flows, Top, Cur))
        /\ \A s \in 1 .. Top : flows[s].clause # NoClause
    BY <1>1, InstructionFacts
  <2> QED BY <1>1, <1>2, <1>4, <2>1, InnermostFlow
<1>6. /\ Top \in DOMAIN flows /\ f \in FlowSet(program) /\ Owner(f) = Method
      /\ FlowOK(program, flows, Top) /\ f.throw \in BOOLEAN
  <2>1. Top \in 1 .. Top
    BY <1>5
  <2>2. Top \in DOMAIN flows /\ f \in FlowSet(program) /\ Owner(f) = Method
        /\ FlowOK(program, flows, Top)
    BY <1>1, <1>2, <1>5, <2>1, StateFacts
  <2> QED BY <2>2, FlowFields
<1>7. CASE ~f.throw
  <2>1. ~Raising' /\ HandledFlows' = flows /\ SeenIp' = ip
    BY <1>1, <1>5, <1>7 DEF Raising, HandledFlows, SeenIp, TopFlow
  <2>2. Activations = View(program, frames, entries, flows, ip, ip)
    BY <1>3, ViewNow
  <2>3. Activations' = View(program, frames, entries, flows, ip, ip)
    BY <1>1, <2>1, ViewNext
  <2>4. Pending' = Pending
    BY <1>3, <2>1 DEF Pending
  <2> QED BY <1>1, <2>2, <2>3, <2>4
<1>8. CASE f.throw
  <2>1. Raising' /\ SeenIp' = 0 /\ HandledFlows' = Front(flows) /\ TopFlow' = f
    BY <1>1, <1>5, <1>8 DEF Raising, HandledFlows, SeenIp, TopFlow
  <2>2. PICK hs : hs = HandledFlows'
    OBVIOUS
  <2>3. DOMAIN hs = 1 .. Top - 1 /\ \A x \in 1 .. Top - 1 : hs[x] = flows[x]
    <3>1. Cut(flows', HandledFlows', Len(flows') - 1)
      BY <2>1, HandledNext
    <3> QED BY <1>1, <2>2, <3>1 DEF Cut, Top
  <2>4. PICK W, h : W = Handlers(Clauses, hs, Cur, ip) /\ h = HandlerOf(Clauses, f)
    OBVIOUS
  <2>5. HandlerEnds(H, e, h, W)
    BY <1>1, <1>2, <1>4, <1>5, <1>6, <2>3, <2>4, TopHandlerEnds
  <2>6. DifferOnTop(HandledFlows, HandledFlows', Top - 1, Cur)
    <3>1. \A x \in (Top - 1) + 1 .. Top : x = Top
      BY <1>5
    <3>2. Top - 1 \in 0 .. Top /\ Top - 1 \in {Top - 1, (Top - 1) + 1} /\ Top - 1 # (Top - 1) + 1
      BY <1>5
    <3>3. DifferOnTop(HandledFlows, hs, Top - 1, Cur)
      BY <1>1, <1>2, <1>3, <1>5, <2>3, <3>1, <3>2, DifferAbove
    <3> QED BY <2>2, <3>3
  <2>7. GoesTo(0, W)
    <3>1. CutTo(frames, frames', Cur)
      BY <1>1, SameFrames
    <3>2. PICK p, q : p = ip' /\ q = SeenIp'
      OBVIOUS
    <3>3. W = Handlers(Clauses, HandledFlows', Cur, p)
      BY <1>1, <2>2, <2>4, <3>2
    <3>4. GoesTo(q, W)
      BY <1>1, <2>6, <3>1, <3>2, <3>3, GoesOn
    <3> QED BY <2>1, <3>2, <3>4
  <2>8. h.kind = "raise" /\ h.ex = f.ex
    BY <1>4, <1>5, <1>8, <2>4 DEF HandlerOf
  <2>9. Pending' = [ex |-> h.ex, clauses |-> h.rest]
    <3>1. h.rest = {j \in Protecting(Clauses, f.at[2]) : j > e}
      BY <1>4, <1>5, <1>8, <2>4 DEF HandlerOf
    <3>2. f.at[1] = Method /\ f.next = e + 1 /\ e \in Nat \ {0} /\ WellNested(Clauses)
          /\ DOMAIN Clauses \subseteq Nat
      <4>1. /\ program \in Programs /\ Method \in DOMAIN program
        BY <1>1, StateFacts
      <4>2. WellNested(Clauses) /\ DOMAIN Clauses \subseteq Nat \ {0}
        BY <4>1, MethodFacts DEF Clauses
      <4>3. f.next = e + 1
        BY <1>2, <1>5, <1>6, <4>2, Executed DEF Clauses
      <4> QED BY <1>4, <1>6, <1>8, <4>2, <4>3 DEF Owner
    <3>3. ToSearch(f) = h.rest
      <4>1. \A j \in Protecting(Clauses, f.at[2]) : j > e <=> j >= e + 1
        BY <3>2 DEF Protecting
      <4> QED BY <3>1, <3>2, <4>1 DEF ToSearch
    <3>4. ToSearch(TopFlow)' = ToSearch(f)
      BY <1>1, <2>1 DEF ToSearch, Clauses, Method, Cur
    <3> QED BY <1>1, <2>1, <2>8, <3>3, <3>4 DEF Pending
  <2>10. Abstract!Innermost(H, e) /\ Abstract!Without(H, e) = W /\ e \in DOMAIN H /\ H[e] = h
    BY <2>5 DEF HandlerEnds, HasOver, Abstract!Innermost, Abstract!Without, Abstract!Restrict, Restrict
  <2>11. Abstract!Top.handlers = H
    BY <1>3 DEF SeenWith, Abstract!Top, Activation
  <2>12. Activations' =
             Abstract!SetTop([Abstract!Top EXCEPT !.ip = 0, !.handlers = Abstract!Without(@, e)])
    <3>1. PICK a, b : a = Activation(Method, SeenIp, H) /\ b = Activation(Method, 0, W)
      OBVIOUS
    <3>2. Abstract!Top = a /\ Len(Activations) = Cur /\ a.handlers = H
      BY <1>3, <3>1 DEF SeenWith, Abstract!Top, Activation
    <3>3. [a EXCEPT !.ip = 0, !.handlers = W] = b
      <4>1. MovedTo(a, 0, W) = b
        BY <3>1, Moves
      <4> QED BY <4>1 DEF MovedTo
    <3>4. Activations' = SetTo(Activations, b)
      BY <2>7, <3>1 DEF GoesTo
    <3> QED BY <2>10, <3>2, <3>3, <3>4 DEF Abstract!SetTop, SetTo
  <2>13. Abstract!EndFinallyOfRaise
    BY <1>1, <1>3, <2>8, <2>9, <2>10, <2>11, <2>12 DEF Abstract!EndFinallyOfRaise
  <2> QED BY <2>13
<1> QED BY <1>6, <1>7, <1>8

(* A leave whose finally block has ended, clause e, goes on, to target. *)
LeaveGoesOn(f, e, target) ==
    /\ Top \in Nat \ {0} /\ Top \in DOMAIN flows /\ f = flows[Top] /\ TopFlow = f
    /\ f.throw = FALSE /\ f.frame = Cur /\ f.clause # NoClause
    /\ e = Executes(f) /\ f.next = e + 1 /\ target = f.target
    /\ e \in DOMAIN Clauses /\ IsInnermost(Clauses, ip, e)
    /\ f.src \in Clauses[e].try /\ target \notin Clauses[e].try
    /\ \A h \in DOMAIN Clauses : target \in Clauses[h].handler => f.src \in Clauses[h].handler
    /\ Instr.op = "endfinally"
    /\ f.remain = Cardinality({i \in FinallysBetween(Clauses, f.src, target) : i > e})
    /\ WellNested(Clauses) /\ DOMAIN Clauses \subseteq Nat \ {0}

LEMMA LeaveAt ==
    ASSUME ProgramsSupported, FlowsIInv, HandlersIInv, outcome = "running", mode = "unwind",
           ~TopFlow.throw,
           NEW f, f = flows[Top], NEW e, e = Executes(f), NEW target, target = f.target
    PROVE  LeaveGoesOn(f, e, target)
<1>1. /\ Top \in Nat \ {0} /\ TopFlow = f /\ f.frame = Cur
      /\ f \in FlowSet(program) /\ Owner(f) = Method /\ FlowOK(program, flows, Top)
      /\ program \in Programs /\ Method \in DOMAIN program
      /\ WellNested(Clauses) /\ DOMAIN Clauses \subseteq Nat \ {0}
      /\ LeaveOK(program[Method], flows, Top)
  BY UnwindFacts
<1>2. f.throw = FALSE /\ f.clause # NoClause
  <2>1. f.throw \in BOOLEAN /\ ~f.throw
    BY <1>1, FlowFields
  <2> QED BY <1>1, <2>1, FlowFields
<1>3. Top \in DOMAIN flows
  <2>1. Top \in 1 .. Top
    BY <1>1
  <2> QED BY <2>1, StateFacts
<1>4. Instr.op = "endfinally" /\ e \in DOMAIN Clauses /\ IsInnermost(Clauses, ip, e)
  BY <1>1, <1>2 DEF HandlersIInv, UnwindsAt
<1>5. f.next = e + 1 /\ e \in FinallysBetween(Clauses, f.src, target) /\ e \in Nat
  BY <1>1, <1>2, Executed DEF Clauses
<1>6. f.src \in Clauses[e].try /\ target \notin Clauses[e].try
  BY <1>5 DEF FinallysBetween
<1>7. PICK m : m = program[Method]
  OBVIOUS
<1>8. /\ f.src \in DOMAIN m.code /\ m.code[f.src].op = "leave"
      /\ m.code[f.src].target = target
      /\ f.remain = Cardinality({i \in FinallysBetween(m.clauses, f.src, target) : i >= f.next})
  BY <1>1, <1>7 DEF LeaveOK
<1>9. \A h \in DOMAIN Clauses : target \in Clauses[h].handler => f.src \in Clauses[h].handler
  <2>1. WellFormedAt(m, f.src)
    BY <1>1, <1>7, <1>8, MethodFacts
  <2> QED BY <1>7, <1>8, <2>1 DEF WellFormedAt, Clauses
<1>10. f.remain = Cardinality({i \in FinallysBetween(Clauses, f.src, target) : i > e})
  <2>1. PICK F : F = FinallysBetween(Clauses, f.src, target)
    OBVIOUS
  <2>2. F \subseteq Nat
    BY <1>1, <2>1 DEF FinallysBetween
  <2>3. {i \in F : i >= f.next} = {i \in F : i > e}
    <3>1. PICK n : n = f.next
      OBVIOUS
    <3>2. \A i \in Nat : i >= e + 1 <=> i > e
      BY ONLY <1>5
    <3>3. \A i \in F : i >= n <=> i > e
      BY <1>5, <2>2, <3>1, <3>2
    <3> QED BY <3>1, <3>3
  <2> QED BY <1>7, <1>8, <2>1, <2>3 DEF Clauses
<1> QED BY <1>1, <1>2, <1>3, <1>4, <1>5, <1>6, <1>9, <1>10 DEF LeaveGoesOn

(* What the leave goes on from: the handlers W that are left when that of  *)
(* the block has ended, and the blocks that remain.                        *)
LEMMA LeaveSeen ==
    ASSUME ProgramsSupported, FlowsIInv, HandlersIInv, outcome = "running", mode = "unwind",
           ~TopFlow.throw, NEW f, NEW e, NEW target, LeaveGoesOn(f, e, target),
           NEW H, H = Handlers(Clauses, flows, Cur, ip),
           NEW W, W = Handlers(Clauses, Below(flows, Top - 1), Cur, ip),
           NEW rest, rest = {i \in FinallysBetween(Clauses, f.src, target) : i > e},
           outcome' = outcome, mode' = "run", program' = program,
           Abstract!ContinueLeave(W, rest, target)
    PROVE  Abstract!EndFinallyOfLeave
<1>1. ~Raising /\ HandledFlows = flows /\ SeenIp = ip
  BY DEF Raising, HandledFlows, SeenIp
<1>2. SeenWith(H)
  BY <1>1, SeenTop
<1>3. Pending = Abstract!NotRaising /\ Pending' = Abstract!NotRaising
  BY <1>1 DEF Pending, Abstract!NotRaising, Raising
<1>4. Abstract!Top.method = Method /\ Abstract!Top.ip = ip /\ Abstract!Top.handlers = H
  BY <1>1, <1>2 DEF SeenWith, Abstract!Top, Activation
<1>5. Abstract!Instr = Instr /\ Abstract!Clauses = Clauses /\ Abstract!Executing
  BY <1>3, <1>4 DEF Abstract!Instr, Abstract!Clauses, Instr, Clauses, Abstract!Executing
<1>6. PICK h, hs : h = HandlerOf(Clauses, f) /\ hs = Below(flows, Top - 1)
  OBVIOUS
<1>7. HandlerEnds(H, e, h, W)
  <2>1. DOMAIN hs = 1 .. Top - 1 /\ \A x \in 1 .. Top - 1 : hs[x] = flows[x]
    BY <1>6 DEF Below
  <2> QED BY <1>6, <2>1, TopHandlerEnds DEF LeaveGoesOn
<1>8. h.kind = "leave" /\ h.target = target /\ h.rest = rest
  BY <1>6 DEF HandlerOf, LeaveGoesOn
<1>9. Abstract!Innermost(H, e) /\ Abstract!Without(H, e) = W /\ e \in DOMAIN H /\ H[e] = h
  BY <1>7 DEF HandlerEnds, HasOver, Abstract!Innermost, Abstract!Without, Abstract!Restrict, Restrict
<1> QED BY <1>3, <1>4, <1>5, <1>8, <1>9 DEF Abstract!EndFinallyOfLeave, LeaveGoesOn

(* The handlers that target is in are around the leave, and so around the *)
(* finally block.                                                         *)
LEMMA HandlersAtTarget ==
    ASSUME ProgramsSupported, FlowsIInv, HandlersIInv, outcome = "running", mode = "unwind",
           NEW f, NEW e, NEW target, LeaveGoesOn(f, e, target),
           NEW hs, hs = Below(flows, Top - 1)
    PROVE  Handlers(Clauses, hs, Cur, target) =
               Still(Clauses, Handlers(Clauses, hs, Cur, ip), target)
<1>1. PICK cs, k, p : cs = Clauses /\ k = Cur /\ p = ip
  OBVIOUS
<1>2. /\ Top \in Nat \ {0} /\ DOMAIN flows = 1 .. Top
      /\ DOMAIN hs = 1 .. Top - 1 /\ \A x \in 1 .. Top - 1 : hs[x] = flows[x] /\ x \in DOMAIN flows
  BY StateFacts DEF Below, LeaveGoesOn
<1>3. Distinct(hs, k)
  <2>1. 1 .. Top - 1 \subseteq DOMAIN flows
    BY <1>2
  <2> QED BY <1>1, <2>1, HandledNow, BelowDistinct
<1>4. ASSUME NEW x \in DOMAIN hs, hs[x].frame = k, hs[x].clause # NoClause,
             target \in cs[Executes(hs[x])].handler
      PROVE  p \in cs[Executes(hs[x])].handler
  <2>1. PICK h : h = Executes(flows[x])
    OBVIOUS
  <2>2. hs[x] = flows[x] /\ x \in DOMAIN flows /\ h \in DOMAIN Clauses
        /\ target \in Clauses[h].handler
    BY <1>1, <1>2, <1>4, <2>1, ClauseHere
  <2>3. /\ WellNested(Clauses) /\ e \in DOMAIN Clauses /\ f.src \in Clauses[e].try
        /\ f.src \in Clauses[h].handler /\ target \notin Clauses[e].try
        /\ ip \in Clauses[e].handler
    BY <2>2 DEF LeaveGoesOn, IsInnermost
  <2>4. Unit(Clauses[e]) \subseteq Clauses[h].handler \/ Unit(Clauses[h]) \subseteq Clauses[e].try
    BY <2>2, <2>3, TryMeetsHandler
  <2>5. ip \in Clauses[h].handler
    BY <2>2, <2>3, <2>4 DEF Unit
  <2> QED BY <1>1, <2>1, <2>2, <2>5
<1>5. \A x \in DOMAIN hs :
          /\ hs[x].frame = k /\ hs[x].clause # NoClause /\ target \in cs[Executes(hs[x])].handler
          => p \in cs[Executes(hs[x])].handler
  BY <1>4
<1>6. Handlers(cs, hs, k, target) = Still(cs, Handlers(cs, hs, k, p), target)
  BY ONLY <1>3, <1>5, HandlersStill
<1> QED BY <1>1, <1>6

LEMMA FinishLeaveAllowed ==
    ASSUME ProgramsSupported, FlowsIInv, HandlersIInv, FlowsIInv', HandlersIInv', FinishLeave
    PROVE  Abstract!EndFinallyOfLeave
<1>1. /\ outcome = "running" /\ mode = "unwind" /\ ~TopFlow.throw /\ TopFlow.remain = 0
      /\ flows' = Front(flows) /\ ip' = TopFlow.target /\ mode' = "run"
      /\ UNCHANGED <<program, frames, entries, outcome>>
  BY DEF FinishLeave, UnwindingLeave, Goto
<1>2. PICK f, e, target, hs, gs, H, W, rest :
          /\ f = flows[Top] /\ e = Executes(f) /\ target = f.target
          /\ hs = Below(flows, Top - 1) /\ gs = flows'
          /\ H = Handlers(Clauses, flows, Cur, ip) /\ W = Handlers(Clauses, hs, Cur, ip)
          /\ rest = {i \in FinallysBetween(Clauses, f.src, target) : i > e}
  OBVIOUS
<1>3. LeaveGoesOn(f, e, target)
  BY <1>1, <1>2, LeaveAt
<1>4. TopFlow = f /\ Top \in Nat \ {0} /\ Top # 0 /\ f.remain = Cardinality(rest) /\ f.frame = Cur
  BY <1>2, <1>3 DEF LeaveGoesOn
<1>5. rest = {}
  <2>1. DOMAIN Clauses = 1 .. Len(Clauses) /\ Len(Clauses) \in Nat
    BY <1>3, LenProperties DEF LeaveGoesOn, WellNested
  <2>2. rest \subseteq DOMAIN Clauses
    BY <1>2 DEF FinallysBetween
  <2>3. IsFiniteSet(1 .. Len(Clauses))
    BY <2>1, FS_Interval
  <2>4. IsFiniteSet(rest)
    BY <2>1, <2>2, <2>3, FS_Subset
  <2>5. Cardinality(rest) = 0
    BY <1>1, <1>4
  <2> QED BY <2>4, <2>5, FS_EmptySet
<1>6. Cut(flows, gs, Top - 1)
  BY <1>1, <1>2, <1>4, PopStep
<1>7. DOMAIN gs = 1 .. Top - 1 /\ (\A x \in 1 .. Top - 1 : gs[x] = flows[x]) /\ gs = hs
  <2>1. DOMAIN gs = 1 .. Top - 1 /\ \A x \in 1 .. Top - 1 : gs[x] = flows[x]
    BY <1>6 DEF Cut
  <2>2. gs = [x \in DOMAIN gs |-> gs[x]]
    <3>1. Front(flows) \in Seq(FlowSet(program))
      BY <1>1, <1>4, FlowsFront
    <3> QED BY <1>1, <1>2, <3>1
  <2> QED BY <1>2, <2>1, <2>2 DEF Below
<1>8. Handlers(Clauses, hs, Cur, target) = Still(Clauses, W, target)
  BY <1>1, <1>2, <1>3, HandlersAtTarget
<1>9. ~Raising /\ HandledFlows = flows /\ SeenIp = ip
      /\ ~Raising' /\ HandledFlows' = gs /\ SeenIp' = target /\ ip' = target
  BY <1>1, <1>2, <1>4 DEF Raising, HandledFlows, SeenIp
<1>10. GoesTo(target, Still(Clauses, W, target))
  <2>1. CutTo(frames, frames', Cur)
    BY <1>1, SameFrames
  <2>2. DifferOnTop(HandledFlows, HandledFlows', Top - 1, Cur)
    <3>1. /\ Top - 1 \in 0 .. Top /\ Top - 1 \in {Top - 1, (Top - 1) + 1} /\ Top - 1 # (Top - 1) + 1
          /\ \A x \in (Top - 1) + 1 .. Top : x = Top
      BY <1>4
    <3>2. DifferOnTop(HandledFlows, gs, Top - 1, Cur)
      BY <1>1, <1>2, <1>4, <1>7, <1>9, <3>1, DifferAbove
    <3> QED BY <1>9, <3>2
  <2>3. PICK G : G = Still(Clauses, W, target)
    OBVIOUS
  <2>4. G = Handlers(Clauses, HandledFlows', Cur, target) /\ target = ip' /\ target = SeenIp'
    BY <1>7, <1>8, <1>9, <2>3
  <2>5. GoesTo(target, G)
    BY <1>1, <2>1, <2>2, <2>4, GoesOn
  <2> QED BY <2>3, <2>5
<1>11. Abstract!ContinueLeave(W, rest, target)
  <2>1. SeenWith(H)
    BY <1>1, <1>2, <1>9, SeenTop
  <2>2. Abstract!Clauses = Clauses
    BY <2>1 DEF SeenWith, Abstract!Top, Activation, Abstract!Clauses, Clauses
  <2> QED BY <1>5, <1>10, <2>1, <2>2, LeaveDone
<1>12. W = Handlers(Clauses, Below(flows, Top - 1), Cur, ip)
  BY <1>2
<1> QED BY <1>1, <1>2, <1>3, <1>11, <1>12, LeaveSeen

(* Of the handlers around the next finally block, clause i, all are around *)
(* the target, too.                                                        *)
LEMMA HandlersAtNext ==
    ASSUME ProgramsSupported, FlowsIInv, HandlersIInv, NEW i, NEW g, EntersNext(i, g),
           NEW f, NEW e, NEW target, LeaveGoesOn(f, e, target),
           NEW hs, hs = Below(flows, Top - 1), NEW p, p = Clauses[i].entry
    PROVE  Handlers(Clauses, hs, Cur, p) = Still(Clauses, Handlers(Clauses, hs, Cur, target), p)
<1>1. outcome = "running" /\ mode = "unwind" /\ ~TopFlow.throw /\ i \in RemainingFinallys(TopFlow)
  BY DEF EntersNext
<1>2. /\ Top \in Nat \ {0} /\ f = flows[Top] /\ TopFlow = f /\ f.frame = Cur /\ f.throw = FALSE
      /\ target = f.target /\ Top \in DOMAIN flows /\ WellNested(Clauses)
      /\ \A h \in DOMAIN Clauses : target \in Clauses[h].handler => f.src \in Clauses[h].handler
  BY DEF LeaveGoesOn
<1>3. i \in DOMAIN Clauses /\ f.src \in Clauses[i].try /\ p \in Clauses[i].handler
  BY <1>1, <1>2 DEF RemainingFinallys, FinallysBetween, WellNested
<1>4. /\ DOMAIN flows = 1 .. Top
      /\ DOMAIN hs = 1 .. Top - 1
      /\ \A x \in 1 .. Top - 1 : hs[x] = flows[x] /\ x \in DOMAIN flows /\ x < Top
  BY <1>1, <1>2, StateFacts DEF Below
<1>5. LeaveOK(program[Method], flows, Top) /\ Owner(flows[Top]) = Method
  BY <1>1, UnwindFacts
<1>6. ASSUME NEW x \in 1 .. Top - 1, flows[x].frame = Cur, p \in Clauses[Executes(flows[x])].handler
      PROVE  target \in Clauses[Executes(flows[x])].handler
  <2>1. PICK h : h = Executes(flows[x])
    OBVIOUS
  <2>2. /\ \A y \in 1 .. Top - 1 : flows[y].clause # NoClause /\ flows[y].frame <= Cur
        /\ Top - 1 \in 0 .. Top
    BY <1>1, <1>2, FlowsFront
  <2>3. h \in DOMAIN Clauses
    BY <1>1, <1>4, <1>6, <2>1, <2>2, ClauseHere
  <2>4. InOrLeft(Clauses, h, f.src)
    <3>1. InOrLeft(program[Owner(flows[Top])].clauses, Executes(flows[x]), Origin(flows[Top]))
      BY <1>2, <1>4, <1>6 DEF HandlersIInv, OriginsKept
    <3>2. Origin(flows[Top]) = f.src
      BY <1>2 DEF Origin
    <3> QED BY <1>5, <2>1, <3>1, <3>2 DEF Clauses
  <2>5. f.src \in Clauses[h].handler
    BY <1>2, <1>3, <1>6, <2>1, <2>3, <2>4, EntersInside
  <2>6. InOrLeft(Clauses, h, target)
    <3>1. PICK r : r = Top - 1
      OBVIOUS
    <3>2. Cur \in 1 .. Cur /\ Clauses = program[frames[Cur].method].clauses
      BY <1>1, StateFacts DEF Clauses, Method
    <3>3. InnermostOrNone(Clauses, target, Executing(flows, r, Cur))
      BY <1>2, <1>5, <3>1 DEF LeaveOK, Clauses
    <3>4. /\ r \in 0 .. Top /\ x \in 1 .. r
          /\ \A y \in 1 .. r : flows[y].clause # NoClause
          /\ \A y \in 1 .. r : flows[y].frame <= Cur
      BY <1>6, <2>2, <3>1
    <3> QED BY <1>1, <1>6, <2>1, <3>2, <3>3, <3>4, AroundHere
  <2> QED BY <1>2, <2>1, <2>3, <2>5, <2>6, TargetInHandler
<1>7. PICK cs, k : cs = Clauses /\ k = Cur
  OBVIOUS
<1>8. Distinct(hs, k)
  <2>1. 1 .. Top - 1 \subseteq DOMAIN flows
    BY <1>4
  <2> QED BY <1>7, <2>1, HandledNow, BelowDistinct
<1>9. \A x \in DOMAIN hs :
          hs[x].frame = k /\ hs[x].clause # NoClause /\ p \in cs[Executes(hs[x])].handler
          => target \in cs[Executes(hs[x])].handler
  BY <1>4, <1>6, <1>7
<1>10. Handlers(cs, hs, k, p) = Still(cs, Handlers(cs, hs, k, target), p)
  BY ONLY <1>8, <1>9, HandlersStill
<1> QED BY <1>7, <1>10

LEMMA NextFinallyAllowed ==
    ASSUME ProgramsSupported, FlowsIInv, HandlersIInv, FlowsIInv', HandlersIInv', NextFinally
    PROVE  Abstract!EndFinallyOfLeave
<1>1. PICK i, g : EntersNext(i, g)
  BY NextStep DEF NextEntered
<1>2. /\ outcome = "running" /\ mode = "unwind" /\ ~TopFlow.throw /\ mode' = "run"
      /\ i \in RemainingFinallys(TopFlow) /\ \A j \in RemainingFinallys(TopFlow) : i <= j
      /\ g.throw = FALSE /\ g.frame = Cur /\ g.src = TopFlow.src /\ g.target = TopFlow.target
      /\ g.clause = TopFlow.clause /\ g.next = i + 1
      /\ Grown(flows, flows', Top - 1, g)
      /\ ip' = Clauses[i].entry
      /\ UNCHANGED <<program, frames, entries, outcome>>
  BY <1>1 DEF EntersNext
<1>3. PICK f, e, target, hs, H, W, rest, p :
          /\ f = flows[Top] /\ e = Executes(f) /\ target = f.target
          /\ hs = Below(flows, Top - 1) /\ p = ip'
          /\ H = Handlers(Clauses, flows, Cur, ip) /\ W = Handlers(Clauses, hs, Cur, ip)
          /\ rest = {j \in FinallysBetween(Clauses, f.src, target) : j > e}
  OBVIOUS
<1>4. LeaveGoesOn(f, e, target)
  BY <1>2, <1>3, LeaveAt
<1>5. /\ TopFlow = f /\ Top \in Nat \ {0} /\ f.clause # NoClause /\ f.next = e + 1
      /\ e \in Nat /\ f.frame = Cur
      /\ WellNested(Clauses) /\ DOMAIN Clauses \subseteq Nat \ {0}
  BY <1>3, <1>4 DEF LeaveGoesOn
<1>6. /\ rest = RemainingFinallys(f)
      /\ i \in rest /\ rest \subseteq Nat /\ \A j \in rest : i <= j
  <2>1. PICK F, n : F = FinallysBetween(Clauses, f.src, target) /\ n = f.next
    OBVIOUS
  <2>2. F \subseteq Nat
    BY <1>5, <2>1 DEF FinallysBetween
  <2>3. \A j \in Nat : j >= e + 1 <=> j > e
    BY ONLY <1>5
  <2>4. \A j \in F : j >= n <=> j > e
    BY <1>5, <2>1, <2>2, <2>3
  <2>5. RemainingFinallys(f) = rest
    BY <1>3, <2>1, <2>4 DEF RemainingFinallys
  <2> QED BY <1>2, <1>3, <1>5, <2>1, <2>2, <2>5
<1>7. i = Min(rest) /\ rest # {} /\ i \in Nat
  <2>1. Min(rest) \in rest /\ \A j \in rest : Min(rest) <= j
    BY <1>6, MinOfNats
  <2>2. Min(rest) <= i /\ i <= Min(rest) /\ Min(rest) \in Nat /\ i \in Nat
    BY <1>6, <2>1
  <2> QED BY <1>6, <2>2
<1>8. Executes(g) = i /\ g.clause # NoClause
  BY <1>2, <1>5, <1>7 DEF Executes
<1>9. i \in DOMAIN Clauses /\ p = Clauses[i].entry /\ p \in Clauses[i].handler
  BY <1>2, <1>3, <1>5, <1>6 DEF RemainingFinallys, FinallysBetween, WellNested
<1>10. PICK L, h : L = Handlers(Clauses, hs, Cur, target) /\ h = HandlerOf(Clauses, g)
  OBVIOUS
<1>11. L = Still(Clauses, W, target)
  BY <1>2, <1>3, <1>4, <1>10, HandlersAtTarget
<1>12. Handlers(Clauses, hs, Cur, p) = Still(Clauses, L, p)
  BY <1>1, <1>3, <1>4, <1>9, <1>10, HandlersAtNext
<1>13. h = LeaveHandler(rest \ {i}, target)
  <2>1. PICK F : F = FinallysBetween(Clauses, f.src, target)
    OBVIOUS
  <2>2. F \subseteq Nat
    BY <1>5, <2>1 DEF FinallysBetween
  <2>3. rest \ {i} = {j \in F : j > i}
    <3>1. \A j \in rest \ {i} : j > i
      BY <1>6, <1>7
    <3>2. rest = {j \in F : j > e} /\ i > e
      BY <1>3, <1>6, <2>1
    <3>3. \A j \in F : j > i => j > e /\ j # i
      BY <1>5, <1>7, <2>2, <3>2
    <3> QED BY <3>1, <3>2, <3>3
  <2>4. g.throw = FALSE /\ g.src = f.src /\ g.target = target
    BY <1>2, <1>3, <1>5
  <2> QED BY <1>8, <1>10, <2>1, <2>3, <2>4 DEF HandlerOf, LeaveHandler
<1>14. ~Raising /\ HandledFlows = flows /\ SeenIp = ip
  BY <1>2 DEF Raising, HandledFlows, SeenIp
<1>15. SeenWith(H)
  BY <1>2, <1>3, <1>14, SeenTop
<1>16. Abstract!Clauses = Clauses
  BY <1>15 DEF SeenWith, Abstract!Top, Activation, Abstract!Clauses, Clauses
<1>17. GoesTo(p, Besides(Still(Clauses, L, p), i, h))
  <2>1. PICK r : r = Top - 1
    OBVIOUS
  <2>2. /\ r \in 0 .. Top /\ (\A x \in r + 1 .. Top : flows[x].frame = Cur)
        /\ (Raising => r # Top)
    <3>1. \A x \in r + 1 .. Top : x = Top
      BY <1>5, <2>1
    <3> QED BY <1>3, <1>5, <1>14, <2>1, <3>1
  <2>3. PICK K : K = Handlers(Clauses, Below(flows, r), Cur, p)
    OBVIOUS
  <2>4. K = Still(Clauses, L, p)
    BY <1>3, <1>12, <2>1, <2>3
  <2>5. i = Executes(g) /\ Grown(flows, flows', r, g) /\ ip' \in Clauses[i].handler
    BY <1>2, <1>3, <1>8, <1>9, <2>1
  <2>6. GoesTo(p, Besides(K, i, h))
    BY <1>2, <1>3, <1>8, <1>10, <2>2, <2>3, <2>5, EntersHandler
  <2> QED BY <2>4, <2>6
<1>18. Abstract!ContinueLeave(W, rest, target)
  BY <1>7, <1>9, <1>11, <1>13, <1>15, <1>16, <1>17, LeaveEnters
<1>19. W = Handlers(Clauses, Below(flows, Top - 1), Cur, ip)
  BY <1>3
<1> QED BY <1>2, <1>3, <1>4, <1>18, <1>19, LeaveSeen
------------------------------------------------------------------------------
(* Leaving frames.                                                         *)

(* The same clauses wait at the call and behind it. *)
LEMMA CallerProtects ==
    ASSUME ProgramsSupported, RaisesSupported, FlowsIInv, outcome = "running", Cur > 1,
           NEW m, m = program[frames[Cur - 1].method],
           NEW p, p \in DOMAIN m.code, NEW w, WaitsFor(p, w)
    PROVE  /\ Protecting(m.clauses, p) = Protecting(m.clauses, w)
           /\ \A h \in DOMAIN m.clauses : p \in m.clauses[h].handler <=> w \in m.clauses[h].handler
<1>1. CASE p = w
  BY <1>1
<1>2. CASE w \in DOMAIN m.code /\ m.code[w].op = "call" /\ p = w + 1
  <2>1. PICK k : k = Cur - 1
    OBVIOUS
  <2>2. /\ program \in Programs /\ Cur \in Nat
        /\ \A j \in 1 .. Cur : frames[j].method \in DOMAIN program
    BY StateFacts
  <2>3. frames[k].method \in DOMAIN program
    BY <2>1, <2>2
  <2>4. WellFormedAt(m, w)
    BY <1>2, <2>1, <2>2, <2>3, MethodFacts
  <2>5. SupportedRaise(m, w)
    BY <1>2, <2>1, <2>2, <2>3 DEF RaisesSupported, SupportedRaises
  <2> QED BY <1>2, <2>4, <2>5 DEF WellFormedAt, SupportedRaise
<1> QED BY <1>1, <1>2 DEF WaitsFor

LEMMA PropagatedAllowed ==
    ASSUME ProgramsSupported, RaisesSupported, FlowsIInv, HandlersIInv, FlowsIInv', HandlersIInv',
           Propagated
    PROVE  Abstract!Propagate
<1>1. PICK r : PassedOn(r)
  BY DEF Propagated
<1>2. PICK H, R, ex, k, m, p, w :
          /\ H = Handlers(Clauses, HandledFlows, Cur, ip) /\ R = ToSearch(TopFlow) /\ ex = TopFlow.ex
          /\ k = Cur - 1 /\ m = program[frames[k].method] /\ p = ip'
          /\ w = Waits(frames, entries, Cur - 1)
  OBVIOUS
<1>3. /\ Ended /\ UnwindingThrow /\ NoneTakes /\ SavedAt(p) /\ CallerPlaced(p, r)
      /\ outcome = "running" /\ outcome' = "running" /\ program' = program /\ mode' = "unwind"
      /\ Cur > 1 /\ CutTo(frames, frames', k)
      /\ Grown(flows, flows', r, ThrowFlow(ex, k, <<frames[k].method, p>>))
  BY <1>1, <1>2 DEF PassedOn, Ended
<1>4. /\ Raising /\ mode = "unwind"
      /\ SeenWith(H) /\ SeenIp = 0 /\ Seeks(ex, R)
      /\ Abstract!Clauses = Clauses
      /\ ex \in Exceptions /\ Pending # Abstract!NotRaising
  BY <1>2, <1>3, RaisingSeen
<1>5. Top \in Nat \ {0} /\ TopFlow = flows[Top] /\ flows[Top].frame = Cur /\ DOMAIN flows = 1 .. Top
  BY <1>3, <1>4, UnwindFacts, StateFacts
<1>6. /\ Cur \in Nat /\ k \in Nat \ {0} /\ k \in 1 .. Cur /\ k + 1 = Cur
      /\ program \in Programs /\ frames[k].method \in DOMAIN program
      /\ p \in DOMAIN m.code /\ p \in Nat /\ DOMAIN m.clauses \subseteq Nat \ {0}
  <2>1. /\ Cur \in Nat /\ program \in Programs
        /\ \A j \in 1 .. Cur : frames[j].method \in DOMAIN program
    BY <1>3, StateFacts
  <2>2. k \in Nat \ {0} /\ k \in 1 .. Cur /\ k + 1 = Cur /\ p \in DOMAIN m.code
    BY <1>2, <1>3, <2>1 DEF CallerPlaced
  <2>3. DOMAIN m.code \subseteq Nat /\ DOMAIN m.clauses \subseteq Nat \ {0}
    BY <1>2, <2>1, <2>2, MethodFacts
  <2> QED BY <2>1, <2>2, <2>3
<1>7. /\ r \in 0 .. Top /\ r # Top
      /\ \A x \in r + 1 .. Top : flows[x].frame = Cur
  <2>1. /\ r \in 0 .. Top /\ \A x \in 1 .. r : flows[x].frame <= Cur - 1
        /\ \A x \in r + 1 .. Top : flows[x].frame = Cur
    BY <1>3 DEF CallerPlaced
  <2>2. r # Top
    <3>1. SUFFICES ASSUME r = Top PROVE FALSE
      OBVIOUS
    <3>2. Top \in 1 .. r
      BY <1>5, <3>1
    <3> QED BY <1>5, <1>6, <2>1, <3>2
  <2> QED BY <2>1, <2>2
<1>8. WaitsFor(p, w)
  BY <1>2, <1>3, <1>6, CallerWaits
<1>9. /\ Protecting(m.clauses, p) = Protecting(m.clauses, w)
      /\ \A h \in DOMAIN m.clauses : p \in m.clauses[h].handler <=> w \in m.clauses[h].handler
  BY <1>2, <1>3, <1>6, <1>8, CallerProtects
<1>10. Raising' /\ Raises(ex, Protecting(m.clauses, p))
  <2>1. PICK gs, n, g, frs, cs :
            /\ gs = flows' /\ n = frames[k].method /\ g = ThrowFlow(ex, k, <<n, p>>)
            /\ frs = frames' /\ cs = m.clauses
    OBVIOUS
  <2>2. Grown(flows, gs, r, g)
    BY <1>3, <2>1
  <2>3. DOMAIN frs = 1 .. k /\ Len(frs) = k /\ frs[k].method = n
    <3>1. k \in 1 .. k
      BY <1>6
    <3> QED BY <1>3, <2>1, <3>1 DEF CutTo
  <2>4. cs = program[n].clauses
    BY <1>2, <2>1
  <2> QED BY <1>3, <1>6, <2>1, <2>2, <2>3, <2>4, RaisesNext
<1>11. SeenIp' = 0
  BY <1>10 DEF SeenIp
<1>12. DifferOnTop(HandledFlows, HandledFlows', r, Cur)
  <2>1. Cut(flows', HandledFlows', Len(flows') - 1)
    BY <1>10, HandledNext
  <2>2. Len(flows') - 1 = r
    BY <1>3, <1>7 DEF Grown
  <2>3. PICK gs : gs = HandledFlows'
    OBVIOUS
  <2>4. DOMAIN gs = 1 .. r /\ \A x \in 1 .. r : gs[x] = flows[x]
    BY <1>3, <2>1, <2>2, <2>3 DEF Cut, Grown
  <2>5. r \in {r, r + 1} /\ r # r + 1
    BY <1>7
  <2> QED BY <1>3, <1>7, <2>3, <2>4, <2>5, DifferAbove
<1>13. CallerGoesTo(0, w)
  <2>1. CallerGoesTo(SeenIp', w)
    BY <1>2, <1>3, <1>9, <1>12, CallerGoesOn
  <2> QED BY <1>11, <2>1
<1>14. /\ Len(Activations) = Cur /\ Len(Activations) # 1
       /\ Activations' = CallerTo(Activations, 0)
       /\ Activations[Len(Activations) - 1].ip = w
       /\ Activations[Len(Activations) - 1].method = frames[k].method
  BY <1>2, <1>3, <1>6, <1>13 DEF CallerGoesTo
<1>15. Activations' = [Abstract!Front(Activations) EXCEPT ![Len(Activations) - 1].ip = 0]
  BY <1>14 DEF CallerTo, Abstract!Front, Front
<1>16. \A i \in Pending.clauses : ~Abstract!Takes(i)
  <2>1. Pending.clauses = R
    BY <1>4 DEF Seeks
  <2>2. R \subseteq DOMAIN Clauses
    BY <1>2 DEF ToSearch, Protecting
  <2>3. \A i \in R : ~Takes(i, TopFlow.ex)
    BY <1>2, <1>3 DEF NoneTakes
  <2>4. ASSUME NEW i \in R PROVE ~Abstract!Takes(i)
    BY <1>3, <2>2, <2>3, <2>4, TakesSame
  <2> QED BY <2>1, <2>4
<1>17. Pending' = [Pending EXCEPT !.clauses = Abstract!Protecting(m.clauses, w)]
  <2>1. PICK P : P = Protecting(m.clauses, w)
    OBVIOUS
  <2>2. Abstract!Protecting(m.clauses, w) = P
    BY <2>1 DEF Abstract!Protecting, Protecting
  <2>3. Pending' = [ex |-> ex, clauses |-> P]
    BY <1>9, <1>10, <2>1 DEF Raises
  <2>4. [Pending EXCEPT !.clauses = P] = [ex |-> ex, clauses |-> P]
    BY <1>4 DEF Seeks
  <2> QED BY <2>2, <2>3, <2>4
<1> QED BY <1>2, <1>3, <1>4, <1>14, <1>15, <1>16, <1>17 DEF Abstract!Propagate

LEMMA OverSeen ==
    ASSUME FlowsIInv', outcome' # "running"
    PROVE  Activations' = <<>> /\ Pending' = Abstract!NotRaising
<1>1. frames' = <<>> /\ mode' = "run"
  BY DEF FlowsIInv, FramesTyped
<1>2. PICK W, prog, frs, ents, fs, p, q :
          /\ W = Activations' /\ prog = program' /\ frs = frames' /\ ents = entries'
          /\ fs = HandledFlows' /\ p = ip' /\ q = SeenIp'
  OBVIOUS
<1>3. W = View(prog, frs, ents, fs, p, q)
  BY <1>2, ViewNext
<1>4. DOMAIN frs = 1 .. 0
  BY <1>1, <1>2
<1>5. Len(W) = 0 /\ W \in Seq({})
  <2>1. Len(W) = 0 /\ \A S : (\A j \in 1 .. 0 : W[j] \in S) => W \in Seq(S)
    BY <1>3, <1>4, ViewSeq
  <2> QED BY <2>1
<1>6. W = <<>>
  BY <1>5
<1>7. Pending' = Abstract!NotRaising
  BY <1>1 DEF Pending, Raising, Abstract!NotRaising
<1> QED BY <1>2, <1>6, <1>7

(* The first execute() call returns ... *)
LEMMA ReturnedOutAllowed ==
    ASSUME ProgramsSupported, FlowsIInv, HandlersIInv, FlowsIInv', HandlersIInv', Ret,
           Cur = 1, Depth = 1
    PROVE  Abstract!Ret
<1>1. Running /\ outcome = "running" /\ Instr.op = "ret" /\ UNCHANGED <<program, flows>>
  BY DEF Ret, Running
<1>2. Cur = Last(entries).base
  BY <1>1, LastEntry
<1>3. outcome' = "returned"
  BY <1>2 DEF Ret, Depth
<1>4. Activations' = <<>> /\ Pending' = Abstract!NotRaising
  BY <1>3, OverSeen
<1>5. PICK H : H = Handlers(Clauses, flows, Cur, ip)
  OBVIOUS
<1>6. /\ ~Raising /\ SeenWith(H)
      /\ Abstract!Executing /\ Abstract!Instr = Instr
  BY <1>1, <1>5, ExecutingSeen
<1>7. Pending = Abstract!NotRaising /\ Len(Activations) = 1
  BY <1>6 DEF Abstract!Executing, SeenWith
<1> QED BY <1>1, <1>3, <1>4, <1>6, <1>7 DEF Abstract!Ret

(* ... or fails. *)
LEMMA PropagatedOutAllowed ==
    ASSUME ProgramsSupported, RaisesSupported, FlowsIInv, HandlersIInv, FlowsIInv', HandlersIInv',
           UnwindToNative, Depth = 1
    PROVE  Abstract!Propagate
<1>1. PICK H, R, ex : /\ H = Handlers(Clauses, HandledFlows, Cur, ip)
                      /\ R = ToSearch(TopFlow) /\ ex = TopFlow.ex
  OBVIOUS
<1>2. /\ UnwindingThrow /\ NoneTakes /\ program' = program /\ Cur = Last(entries).base
      /\ outcome' = ex
  BY <1>1 DEF UnwindToNative, Depth
<1>3. /\ outcome = "running" /\ SeenWith(H) /\ Seeks(ex, R)
      /\ ex \in Exceptions /\ Pending # Abstract!NotRaising
  BY <1>1, <1>2, RaisingSeen
<1>4. Cur = 1
  BY <1>2, <1>3, LastEntry
<1>5. Activations' = <<>> /\ Pending' = Abstract!NotRaising
  BY <1>2, <1>3, OutcomeAssumption, OverSeen
<1>6. Len(Activations) = 1 /\ Pending.ex = ex /\ Pending.clauses = R
  BY <1>3, <1>4 DEF SeenWith, Seeks
<1>7. \A i \in R : ~Abstract!Takes(i)
  <2>1. R \subseteq DOMAIN Clauses
    BY <1>1 DEF ToSearch, Protecting
  <2>2. \A i \in R : ~Takes(i, TopFlow.ex)
    BY <1>1, <1>2 DEF NoneTakes
  <2> QED BY <1>2, <2>1, <2>2, TakesSame
<1> QED BY <1>2, <1>3, <1>5, <1>6, <1>7 DEF Abstract!Propagate
------------------------------------------------------------------------------
LEMMA InitAllowed == Init => Abstract!Init
<1> SUFFICES ASSUME Init PROVE Abstract!Init
  OBVIOUS
<1>1. /\ program \in Programs /\ frames = <<[method |-> Main, ip |-> 1]>> /\ ip = 1
      /\ entries = <<[base |-> 1, ip |-> 0]>>
      /\ flows = <<>> /\ mode = "run" /\ outcome = "running"
  BY DEF Init
<1>2. ~Raising /\ HandledFlows = <<>> /\ SeenIp = 1
  BY <1>1 DEF Raising, HandledFlows, SeenIp
<1>3. Pending = Abstract!NotRaising
  BY <1>2 DEF Pending, Abstract!NotRaising
<1>4. PICK V, cs, fs : /\ V = Activations /\ fs = HandledFlows
                       /\ cs = program[frames[1].method].clauses
  OBVIOUS
<1>5. V = View(program, frames, entries, fs, 1, 1)
  BY <1>1, <1>2, <1>4, ViewNow
<1>6. DOMAIN frames = 1 .. 1 /\ Len(frames) = 1 /\ frames[1].method = Main
  BY <1>1
<1>7. Len(V) = 1 /\ DOMAIN V = 1 .. 1 /\ \A S : (\A j \in 1 .. 1 : V[j] \in S) => V \in Seq(S)
  <2>1. PICK n : n = 1
    OBVIOUS
  <2>2. n \in Nat /\ DOMAIN frames = 1 .. n
    BY <1>6, <2>1
  <2>3. DOMAIN V = 1 .. n /\ Len(V) = n /\ \A S : (\A j \in 1 .. n : V[j] \in S) => V \in Seq(S)
    BY <1>5, <2>2, ViewSeq
  <2> QED BY <2>1, <2>3
<1>8. Handlers(cs, fs, 1, 1) = Abstract!NoHandlers
  <2>1. DOMAIN fs = {}
    BY <1>2, <1>4
  <2>2. Distinct(fs, 1) /\ \A x \in DOMAIN fs : fs[x].frame # 1
    BY <2>1 DEF Distinct
  <2> QED BY <2>2, NoHandlersYet
<1>9. V[1] = [method |-> Main, ip |-> 1, handlers |-> Abstract!NoHandlers]
  BY <1>4, <1>5, <1>6, <1>8 DEF View, ActivationAt
<1>10. V = <<V[1]>>
  <2>1. V \in Seq({V[1]})
    BY <1>7
  <2> QED BY <1>7, <2>1
<1>11. Activations = <<[method |-> Main, ip |-> 1, handlers |-> Abstract!NoHandlers]>>
  BY <1>4, <1>9, <1>10
<1> QED BY <1>1, <1>3, <1>11 DEF Abstract!Init

LEMMA StutterAllowed ==
    ASSUME UNCHANGED vars PROVE UNCHANGED Abstract!vars
<1>1. UNCHANGED <<program, frames, ip, entries, flows, mode, outcome>>
  BY DEF vars
<1>2. HandledFlows' = HandledFlows /\ SeenIp' = SeenIp
  BY <1>1 DEF HandledFlows, SeenIp, Raising, TopFlow
<1>3. Activations' = Activations
  BY <1>1, <1>2, ViewNow, ViewNext
<1>4. Pending' = Pending
  BY <1>1 DEF Pending, Raising, TopFlow, ToSearch, Clauses, Method, Cur
<1> QED BY <1>1, <1>3, <1>4 DEF Abstract!vars

LEMMA StepAllowed ==
    ASSUME ProgramsSupported, RaisesSupported, FlowsIInv, HandlersIInv, FlowsIInv', HandlersIInv',
           [Next]_vars
    PROVE  [Abstract!Next]_(Abstract!vars)
<1>1. CASE UNCHANGED vars
  BY <1>1, StutterAllowed
<1>2. CASE Proceed
  BY <1>2, ProceedAllowed DEF Abstract!Next
<1>3. CASE RaiseFromInstruction
  BY <1>3, RaiseFromInstructionAllowed DEF Abstract!Next
<1>4. CASE Rethrow
  BY <1>4, RethrowAllowed DEF Abstract!Next
<1>5. CASE Call
  BY <1>5, CallStep, EnteredAllowed DEF Abstract!Next
<1>6. CASE Invoke
  BY <1>6, InvokeStep, EnteredAllowed DEF Abstract!Next
<1>7. CASE CallOverflows
  BY <1>7, CallOverflowsAllowed DEF Abstract!Next
<1>8. CASE Ret
  <2>1. CASE Cur # 1 \/ Depth # 1
    <3>1. Instr.op = "ret"
      BY <1>8 DEF Ret
    <3> QED BY <1>8, <2>1, <3>1, RetStep, ReturnedAllowed DEF Abstract!Next
  <2>2. CASE Cur = 1 /\ Depth = 1
    BY <1>8, <2>2, ReturnedOutAllowed DEF Abstract!Next
  <2> QED BY <2>1, <2>2
<1>9. CASE LeaveByBranch
  BY <1>9, LeaveByBranchAllowed DEF Abstract!Next
<1>10. CASE LeaveTryWithFinally
  BY <1>10, LeaveTryWithFinallyAllowed DEF Abstract!Next
<1>11. CASE LeaveCatchWithFinally
  BY <1>11, LeaveCatchWithFinallyAllowed DEF Abstract!Next
<1>12. CASE LeaveCatchWithoutFinally
  BY <1>12, LeaveCatchWithoutFinallyAllowed DEF Abstract!Next
<1>13. CASE EndFinally
  BY <1>13, EndFinallyAllowed DEF Abstract!Next, Abstract!vars
<1>14. CASE UnwindToCatch
  BY <1>14, CatchStep, TakenAllowed DEF Abstract!Next
<1>15. CASE UnwindToFilter
  BY <1>15, BlockStep, TakenAllowed DEF UnwindToFilter, Abstract!Next
<1>16. CASE UnwindToCleanup
  BY <1>16, BlockStep, TakenAllowed DEF UnwindToCleanup, Abstract!Next
<1>17. CASE UnwindToCaller
  BY <1>17, CallerStep, PropagatedAllowed DEF Abstract!Next
<1>18. CASE UnwindToNative
  <2>1. outcome = "running"
    BY <1>18 DEF UnwindToNative, UnwindingThrow
  <2>2. Depth = 1 \/ Depth > 1
    BY <2>1, StateFacts
  <2>3. CASE Depth > 1
    BY <1>18, <2>3, OuterStep, PropagatedAllowed DEF Abstract!Next
  <2>4. CASE Depth = 1
    BY <1>18, <2>4, PropagatedOutAllowed DEF Abstract!Next
  <2> QED BY <2>2, <2>3, <2>4
<1>19. CASE FinishLeave
  BY <1>19, FinishLeaveAllowed DEF Abstract!Next
<1>20. CASE NextFinally
  BY <1>20, NextFinallyAllowed DEF Abstract!Next
<1> QED BY <1>1, <1>2, <1>3, <1>4, <1>5, <1>6, <1>7, <1>8, <1>9, <1>10, <1>11, <1>12, <1>13,
           <1>14, <1>15, <1>16, <1>17, <1>18, <1>19, <1>20 DEF Next

(* The flows give every program whose methods are supported, and raise     *)
(* where they should, the exceptions ECMA-335 promises it: each step of    *)
(* the interpreter is one of StructuredExceptions, or invisible to it.     *)
THEOREM FlowsImplementStructuredExceptions ==
    ASSUME ProgramsSupported, RaisesSupported PROVE Spec => ImplementsStructuredExceptions
<1>1. Init => Abstract!Init
  BY InitAllowed
<1>2. FlowsIInv /\ HandlersIInv /\ FlowsIInv' /\ HandlersIInv' /\ [Next]_vars
          => [Abstract!Next]_(Abstract!vars)
  BY StepAllowed
<1>3. Spec => []FlowsIInv
  BY FlowsInvariance
<1>4. Spec => []HandlersIInv
  BY HandlersInvariance
<1> QED BY <1>1, <1>2, <1>3, <1>4, PTL DEF Spec, Abstract!Spec, ImplementsStructuredExceptions
==============================================================================
