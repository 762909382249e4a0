------------------------ MODULE VirtualTablesProofs ------------------------
(***************************************************************************)
(* Slots mean the same everywhere: SlotsAgree of VirtualTables for every   *)
(* program that the metadata can describe. Folds and recursive functions   *)
(* are unfolded one step at a time first; then come the tables, the calls  *)
(* in progress and the steps. From there on programs are Supported: what   *)
(* the standard names, what each pass of setup_vtable_typedef makes of an  *)
(* entry, and so CallsAsDeclared and ValidProgramsLoad.                    *)
(***************************************************************************)
EXTENDS VirtualTables, SequenceTheorems, FiniteSetTheorems, WellFoundedInduction, TLAPS

(* A set of numbers has a least one. *)
LEMMA LeastNat ==
    ASSUME NEW S \in SUBSET Nat, S # {}
    PROVE  \E n \in S : \A m \in S : n <= m
<1>1. \E n \in S : \A m \in S : ~(<<m, n>> \in OpToRel(<, Nat))
  BY WFMin, NatLessThanWellFounded
<1>2. PICK n \in S : \A m \in S : ~(m < n)
  BY <1>1 DEF OpToRel
<1> QED BY <1>2

(* A bounded set of numbers has a greatest one. *)
LEMMA GreatestNat ==
    ASSUME NEW b \in Nat, NEW S \in SUBSET (0 .. b), S # {}
    PROVE  \E n \in S : \A m \in S : m <= n
<1> DEFINE T == {t \in 0 .. b : b - t \in S}
<1>1. T \in SUBSET Nat /\ T # {}
  <2>1. PICK s \in S : TRUE
    OBVIOUS
  <2>2. b - s \in 0 .. b /\ b - (b - s) = s
    OBVIOUS
  <2>3. b - s \in T
    BY <2>2
  <2>4. T \in SUBSET Nat
    OBVIOUS
  <2> QED BY <2>3, <2>4
<1>2. PICK t \in T : \A u \in T : t <= u
  BY <1>1, LeastNat
<1>3. \A m \in S : b - m \in T
  OBVIOUS
<1> QED BY <1>2, <1>3

(* Max is the greatest of a bounded set. *)
LEMMA MaxIsUpper ==
    ASSUME NEW b \in Nat, NEW S \in SUBSET (0 .. b), S # {}
    PROVE  Max(S) \in S /\ \A m \in S : m <= Max(S)
<1>1. \E n \in S : \A m \in S : n >= m
  BY GreatestNat
<1> QED BY <1>1 DEF Max

(* Max of places of a sequence is one of them. *)
LEMMA MaxIn ==
    ASSUME NEW n \in Nat, NEW t \in SUBSET (1 .. n), t # {}
    PROVE  Max(t) \in t
<1>1. t \in SUBSET (0 .. n)
  OBVIOUS
<1> QED BY <1>1, MaxIsUpper

(* Min is the least. *)
LEMMA MinIsLower ==
    ASSUME NEW S \in SUBSET Nat, S # {}
    PROVE  Min(S) \in S /\ \A m \in S : Min(S) <= m
<1>1. \E n \in S : \A m \in S : n <= m
  BY LeastNat
<1> QED BY <1>1 DEF Min

(* The places of a sequence and what is there *)
LEMMA SeqElements ==
    ASSUME NEW S, NEW s \in Seq(S)
    PROVE  /\ Len(s) \in Nat /\ DOMAIN s = 1 .. Len(s)
           /\ \A i \in DOMAIN s : s[i] \in S
OBVIOUS

(* A sequence over one set whose elements are in another *)
LEMMA SeqOfOther ==
    ASSUME NEW S, NEW T, NEW s \in Seq(S), \A i \in DOMAIN s : s[i] \in T
    PROVE  s \in Seq(T)
OBVIOUS

(* A recursive function of a number up to n exists. *)
Counts(F, n, X, x, step) ==
    /\ F \in [0 .. n -> X]
    /\ F[0] = x
    /\ \A i \in 1 .. n : F[i] = step[<<i, F[i - 1]>>]

(* Step by step from 0, each result from the one before *)
LEMMA RecursionUpTo ==
    ASSUME NEW n \in Nat, NEW X, NEW x \in X, NEW step \in [(1 .. n) \X X -> X]
    PROVE  \E F : Counts(F, n, X, x, step)
<1> DEFINE Good(m, F) == /\ F \in [0 .. m -> X]
                         /\ F[0] = x
                         /\ \A i \in 1 .. m : F[i] = step[<<i, F[i - 1]>>]
           Bad == {m \in 0 .. n : \A F : ~Good(m, F)}
<1> USE DEF Counts
<1>1. SUFFICES ASSUME Bad # {} PROVE FALSE
  <2>1. ASSUME Bad = {} PROVE \E F : Good(n, F)
    <3> HIDE DEF Good
    <3>1. n \in 0 .. n /\ n \notin Bad
      BY <2>1
    <3> QED BY <3>1
  <2> QED BY <2>1
<1>2. PICK m \in Bad : \A u \in Bad : m <= u
  <2> HIDE DEF Good
  <2>1. Bad \in SUBSET Nat
    OBVIOUS
  <2> HIDE DEF Bad
  <2> QED BY <1>1, <2>1, LeastNat
<1>3. CASE m = 0
  <2>1. 0 .. 0 = {0} /\ 1 .. 0 = {}
    OBVIOUS
  <2> DEFINE F == [i \in 0 .. 0 |-> x]
  <2>2. F \in [0 .. 0 -> X] /\ F[0] = x
    BY ONLY <2>1, x \in X
  <2>3. \A i \in 1 .. 0 : F[i] = step[<<i, F[i - 1]>>]
    BY ONLY <2>1
  <2>4. Good(0, F)
    BY <2>2, <2>3
  <2> HIDE DEF Good, F
  <2> QED BY <1>3, <2>4
<1>4. CASE m # 0
  <2>1. m - 1 \in 0 .. n /\ m - 1 \notin Bad
    <3> HIDE DEF Good
    <3>1. m \in 0 .. n /\ \A u \in Bad : u \in 0 .. n /\ m <= u
      BY <1>2
    <3> HIDE DEF Bad
    <3> QED BY ONLY <3>1, <1>4, n \in Nat
  <2>2. PICK F : Good(m - 1, F)
    <3> HIDE DEF Good
    <3> QED BY <2>1
  <2> DEFINE G == [i \in 0 .. m |-> IF i = m THEN step[<<m, F[m - 1]>>] ELSE F[i]]
  <2>3. F[m - 1] \in X /\ step[<<m, F[m - 1]>>] \in X
    BY <1>2, <1>4, <2>2
  <2>4. G \in [0 .. m -> X] /\ G[0] = x
    BY <1>2, <1>4, <2>2, <2>3
  <2>5. ASSUME NEW i \in 1 .. m PROVE G[i] = step[<<i, G[i - 1]>>]
    <3>1. i \in 0 .. m /\ i - 1 \in 0 .. m /\ i - 1 # m /\ m \in Nat
      BY <1>2
    <3>2. G[i - 1] = F[i - 1]
      BY <3>1
    <3>3. CASE i = m
      BY <3>1, <3>2, <3>3
    <3>4. CASE i # m
      <4>1. i \in 1 .. (m - 1) /\ G[i] = F[i]
        BY <3>1, <3>4
      <4> QED BY <2>2, <3>2, <4>1
    <3> QED BY <3>3, <3>4
  <2>6. Good(m, G)
    BY <2>4, <2>5
  <2> QED BY <2>6
<1> QED BY <1>3, <1>4

(* A recursive function over the parents exists where every set of classes *)
(* has a member whose parent is not in it.                                 *)
Climbs(F, par, X, base, step) ==
    /\ F \in [Classes -> X]
    /\ \A k \in Classes :
           F[k] = IF par[k] = NoClass THEN base[k] ELSE step[<<k, F[par[k]]>>]

(* From the parent to the class, for all classes at once *)
LEMMA RecursionOverParents ==
    ASSUME NoClass \notin Classes,
           NEW par \in [Classes -> Classes \cup {NoClass}],
           \A S \in (SUBSET Classes) \ {{}} : \E k \in S : par[k] \notin S,
           NEW X, NEW base \in [Classes -> X], NEW step \in [Classes \X X -> X]
    PROVE  \E F : Climbs(F, par, X, base, step)
<1> DEFINE Value(F, k) == IF par[k] = NoClass THEN base[k] ELSE step[<<k, F[par[k]]>>]
           Good(D, F) == /\ D \in SUBSET Classes
                         /\ F \in [D -> X]
                         /\ \A k \in D : par[k] = NoClass \/ par[k] \in D
                         /\ \A k \in D : F[k] = Value(F, k)
<1>1. ASSUME NEW D, NEW F, NEW E, NEW G, Good(D, F), Good(E, G)
      PROVE  \A k \in D \cap E : F[k] = G[k]
  <2> DEFINE S == {k \in D \cap E : F[k] # G[k]}
  <2>1. SUFFICES ASSUME S # {} PROVE FALSE
    OBVIOUS
  <2>2. S \in (SUBSET Classes) \ {{}}
    BY <1>1, <2>1
  <2>3. PICK k \in S : par[k] \notin S
    BY <2>2
  <2>4. F[k] = Value(F, k) /\ G[k] = Value(G, k)
    BY <1>1
  <2>5. par[k] = NoClass \/ F[par[k]] = G[par[k]]
    BY <1>1, <2>3
  <2> QED BY <2>4, <2>5
<1>2. \A k \in Classes : \E D, F : Good(D, F) /\ k \in D
  <2> DEFINE S == {k \in Classes : \A D, F : ~(Good(D, F) /\ k \in D)}
  <2>1. SUFFICES ASSUME S # {} PROVE FALSE
    <3> HIDE DEF Good
    <3> QED OBVIOUS
  <2>2. PICK k \in S : par[k] \notin S
    <3> HIDE DEF Good
    <3>1. S \in (SUBSET Classes) \ {{}}
      BY <2>1
    <3> HIDE DEF S
    <3> QED BY <3>1
  <2>3. CASE par[k] = NoClass
    <3>1. Good({k}, [c \in {k} |-> base[k]])
      BY <2>3
    <3> HIDE DEF Good
    <3> QED BY <3>1
  <2>4. CASE par[k] # NoClass
    <3>1. PICK D, F : Good(D, F) /\ par[k] \in D
      <4> HIDE DEF Good
      <4> QED BY <2>2, <2>4
    <3>2. k \notin D
      <4> HIDE DEF Good
      <4> QED BY <3>1
    <3> DEFINE E == D \cup {k}
               G == [c \in E |-> IF c = k THEN step[<<k, F[par[k]]>>] ELSE F[c]]
    <3>3. F[par[k]] \in X /\ step[<<k, F[par[k]]>>] \in X
      BY <3>1
    <3>4. G \in [E -> X]
      BY <3>1, <3>3
    <3>5. \A c \in E : par[c] = NoClass \/ par[c] \in D
      BY <3>1
    <3>6. ASSUME NEW c \in E PROVE G[c] = Value(G, c)
      <4>1. par[c] = NoClass \/ G[par[c]] = F[par[c]]
        BY <3>2, <3>5
      <4>2. CASE c = k
        BY <2>4, <4>1, <4>2
      <4>3. CASE c # k
        <5>1. c \in D /\ G[c] = F[c] /\ F[c] = Value(F, c)
          BY <3>1, <4>3
        <5> QED BY <4>1, <5>1
      <4> QED BY <4>2, <4>3
    <3>7. Good(E, G)
      BY <3>1, <3>4, <3>5, <3>6
    <3> HIDE DEF Good
    <3> QED BY <3>7
  <2> QED BY <2>3, <2>4
<1> DEFINE Pair(k) == CHOOSE p : Good(p[1], p[2]) /\ k \in p[1]
           F == [k \in Classes |-> Pair(k)[2][k]]
<1>3. ASSUME NEW k \in Classes PROVE Good(Pair(k)[1], Pair(k)[2]) /\ k \in Pair(k)[1]
  <2> HIDE DEF Good
  <2>1. PICK D, G : Good(D, G) /\ k \in D
    BY <1>2
  <2>2. Good(<<D, G>>[1], <<D, G>>[2]) /\ k \in <<D, G>>[1]
    BY <2>1
  <2> QED BY <2>2
<1>4. ASSUME NEW k \in Classes, NEW c \in Pair(k)[1] PROVE c \in Classes /\ F[c] = Pair(k)[2][c]
  <2>1. c \in Classes
    BY <1>3
  <2>2. Good(Pair(c)[1], Pair(c)[2]) /\ c \in Pair(c)[1] /\ Good(Pair(k)[1], Pair(k)[2])
    <3> HIDE DEF Good, Pair
    <3> QED BY <1>3, <2>1
  <2>3. Pair(c)[2][c] = Pair(k)[2][c]
    <3> HIDE DEF Good, Pair
    <3> QED BY <1>1, <2>2
  <2> QED BY <2>1, <2>3
<1>5. F \in [Classes -> X]
  <2>1. ASSUME NEW k \in Classes PROVE Pair(k)[2][k] \in X
    <3> HIDE DEF Pair
    <3> QED BY <1>3
  <2> QED BY <2>1
<1>6. ASSUME NEW k \in Classes PROVE F[k] = Value(F, k)
  <2> HIDE DEF Pair, F
  <2>1. Good(Pair(k)[1], Pair(k)[2]) /\ k \in Pair(k)[1]
    BY <1>3
  <2>2. F[k] = Pair(k)[2][k] /\ Pair(k)[2][k] = Value(Pair(k)[2], k)
    BY <1>4, <2>1
  <2>3. par[k] = NoClass \/ F[par[k]] = Pair(k)[2][par[k]]
    BY <1>4, <2>1
  <2> QED BY <2>2, <2>3
<1> HIDE DEF F
<1> QED BY <1>5, <1>6 DEF Climbs

(* A fold over a sequence is a function of the sets of its places. *)
Folds(G, n, X, x, step) ==
    /\ G \in [SUBSET (1 .. n) -> X]
    /\ \A t \in SUBSET (1 .. n) :
           G[t] = IF t = {} THEN x ELSE step[<<Max(t), G[t \ {Max(t)}]>>]

(* A function of sets of places, one place taken off at a time *)
LEMMA FoldExists ==
    ASSUME NEW n \in Nat, NEW X, NEW x \in X, NEW step \in [(1 .. n) \X X -> X]
    PROVE  \E G : Folds(G, n, X, x, step)
<1> DEFINE Good(m, G) ==
               /\ G \in [SUBSET (1 .. m) -> X]
               /\ \A t \in SUBSET (1 .. m) :
                      G[t] = IF t = {} THEN x ELSE step[<<Max(t), G[t \ {Max(t)}]>>]
           Bad == {m \in 0 .. n : \A G : ~Good(m, G)}
<1>1. SUFFICES ASSUME Bad # {} PROVE FALSE
  <2>1. ASSUME Bad = {} PROVE \E G : Good(n, G)
    <3> HIDE DEF Good
    <3>1. n \in 0 .. n /\ n \notin Bad
      BY <2>1
    <3> QED BY <3>1
  <2> QED BY <2>1 DEF Folds
<1>2. PICK m \in Bad : \A u \in Bad : m <= u
  <2> HIDE DEF Good
  <2>1. Bad \in SUBSET Nat
    OBVIOUS
  <2> HIDE DEF Bad
  <2> QED BY <1>1, <2>1, LeastNat
<1>3. CASE m = 0
  <2>1. SUBSET (1 .. 0) = {{}}
    OBVIOUS
  <2>2. Good(0, [t \in {{}} |-> x])
    BY <2>1
  <2> HIDE DEF Good
  <2> QED BY <1>3, <2>2
<1>4. CASE m # 0
  <2>1. m \in 1 .. n /\ m \in Nat /\ m - 1 \in 0 .. n /\ m - 1 \notin Bad
    <3> HIDE DEF Good
    <3> QED BY <1>2, <1>4
  <2>2. PICK F : Good(m - 1, F)
    <3> HIDE DEF Good
    <3> QED BY <2>1
  <2> DEFINE G == [t \in SUBSET (1 .. m) |-> IF m \in t THEN step[<<m, F[t \ {m}]>>] ELSE F[t]]
  <2>3. ASSUME NEW t \in SUBSET (1 .. m)
        PROVE  /\ m \notin t => t \in SUBSET (1 .. (m - 1))
               /\ t \ {m} \in SUBSET (1 .. (m - 1))
               /\ t # {} => Max(t) \in t /\ \A i \in t : i <= Max(t)
    <3>1. \A i \in 1 .. m : i # m => i \in 1 .. (m - 1)
      BY <2>1
    <3>2. t \in SUBSET (0 .. m)
      OBVIOUS
    <3>3. t # {} => Max(t) \in t /\ \A i \in t : i <= Max(t)
      BY ONLY <2>1, <3>2, MaxIsUpper
    <3> QED BY <3>1, <3>3
  <2>4. G \in [SUBSET (1 .. m) -> X]
    <3>1. ASSUME NEW t \in SUBSET (1 .. m) PROVE G[t] \in X
      BY <2>1, <2>2, <2>3
    <3> QED BY <3>1
  <2>5. ASSUME NEW t \in SUBSET (1 .. m)
        PROVE  G[t] = IF t = {} THEN x ELSE step[<<Max(t), G[t \ {Max(t)}]>>]
    <3>1. CASE m \in t
      <4>1. Max(t) = m
        <5> PICK g : g = Max(t)
          OBVIOUS
        <5>1. g \in 1 .. m /\ m <= g
          BY <2>3, <3>1
        <5> QED BY <2>1, <5>1
      <4>2. G[t \ {m}] = F[t \ {m}]
        BY <2>3
      <4> QED BY <3>1, <4>1, <4>2
    <3>2. CASE m \notin t
      <4>1. t \in SUBSET (1 .. (m - 1)) /\ t \ {Max(t)} \in SUBSET (1 .. (m - 1)) /\ m \notin t \ {Max(t)}
        BY <2>3, <3>2
      <4>2. G[t] = F[t] /\ G[t \ {Max(t)}] = F[t \ {Max(t)}]
        BY <3>2, <4>1
      <4> QED BY <2>2, <4>1, <4>2
    <3> QED BY <3>1, <3>2
  <2>6. Good(m, G)
    BY <2>4, <2>5
  <2> HIDE DEF Good
  <2> QED BY <1>2, <2>6
<1> QED BY <1>3, <1>4

(* What it gives for the whole sequence is reached one place at a time. *)
FoldsOnward(G, n, X, x, step) ==
    /\ G[{}] = x
    /\ \A t \in (SUBSET (1 .. n)) \ {{}} :
           G[t \ {Max(t)}] \in X => G[t] = step[<<Max(t), G[t \ {Max(t)}]>>]

FoldedTo(G, n, X, x, step) == \E H : Counts(H, n, X, x, step) /\ G[1 .. n] = H[n]

(* Such a function gives for all places what counting gives. *)
LEMMA FoldResult ==
    ASSUME NEW n \in Nat, NEW X, NEW x \in X, NEW step \in [(1 .. n) \X X -> X],
           NEW G, FoldsOnward(G, n, X, x, step)
    PROVE  FoldedTo(G, n, X, x, step)
<1> USE DEF FoldsOnward, FoldedTo
<1>1. PICK H : Counts(H, n, X, x, step)
  BY RecursionUpTo
<1> DEFINE Bad == {i \in 0 .. n : G[1 .. i] # H[i]}
<1>2. Bad = {}
  <2>1. SUFFICES ASSUME Bad # {} PROVE FALSE
    OBVIOUS
  <2>2. PICK m \in Bad : \A u \in Bad : m <= u
    <3>1. Bad \in SUBSET Nat
      OBVIOUS
    <3> HIDE DEF Bad
    <3> QED BY <2>1, <3>1, LeastNat
  <2>3. m # 0
    <3>1. 1 .. 0 = {}
      OBVIOUS
    <3> QED BY <1>1, <3>1 DEF Counts
  <2>4. m \in 1 .. n /\ m - 1 \in 0 .. n /\ m - 1 \notin Bad
    BY <2>2, <2>3
  <2>5. G[1 .. (m - 1)] = H[m - 1] /\ H[m - 1] \in X /\ H[m] = step[<<m, H[m - 1]>>]
    BY <1>1, <2>4 DEF Counts
  <2> DEFINE t == 1 .. m
  <2>6. t \in (SUBSET (1 .. n)) \ {{}} /\ t \ {m} = 1 .. (m - 1)
    BY <2>4
  <2>7. Max(t) = m
    <3>1. m \in Nat /\ t \in SUBSET (0 .. m) /\ t # {} /\ m \in t /\ \A i \in t : i <= m /\ i \in Nat
      BY <2>4
    <3> HIDE DEF t
    <3>2. Max(t) \in t /\ \A i \in t : i <= Max(t)
      BY ONLY <3>1, MaxIsUpper
    <3> PICK g : g = Max(t)
      OBVIOUS
    <3>3. g \in Nat /\ g <= m /\ m <= g
      BY <3>1, <3>2
    <3> QED BY <3>1, <3>3
  <2>8. G[t] = step[<<m, H[m - 1]>>]
    <3> HIDE DEF t
    <3> QED BY <2>5, <2>6, <2>7
  <2> QED BY <2>5, <2>8
<1>3. n \in 0 .. n /\ n \notin Bad
  BY <1>2
<1> QED BY <1>1, <1>3

(* Sequences behind one another: FlattenSeq, one sequence at a time. *)
Flattens(F, T, seqs) ==
    /\ F \in [0 .. Len(seqs) -> Seq(T)]
    /\ F[0] = <<>>
    /\ \A i \in 1 .. Len(seqs) : F[i] = F[i - 1] \o seqs[i]

(* FlattenSeq adds the sequences one after another. *)
LEMMA FlattenUnfolded ==
    ASSUME NEW T, NEW seqs \in Seq(Seq(T))
    PROVE  \E F : Flattens(F, T, seqs) /\ FlattenSeq(seqs) = F[Len(seqs)]
<1> DEFINE n == Len(seqs)
           X == Seq(T)
           step == [p \in (1 .. n) \X X |-> p[2] \o seqs[p[1]]]
           D(G) == G = [i \in 1 .. n |-> IF i = 1 THEN seqs[i] ELSE G[i - 1] \o seqs[i]]
           U == CHOOSE G : D(G)
<1>1. n \in Nat /\ \A i \in 1 .. n : seqs[i] \in X
  OBVIOUS
<1>2. step \in [(1 .. n) \X X -> X]
  <2>1. ASSUME NEW p \in (1 .. n) \X X PROVE p[2] \o seqs[p[1]] \in X
    <3>1. p[2] \in X /\ seqs[p[1]] \in X
      BY <1>1
    <3> QED BY <3>1
  <2> HIDE DEF X, n
  <2> QED BY <2>1
<1>3. <<>> \in X
  OBVIOUS
<1>4. PICK F : Counts(F, n, X, <<>>, step)
  <2> HIDE DEF X, n, step
  <2> QED BY <1>1, <1>2, <1>3, RecursionUpTo
<1>5. Flattens(F, T, seqs)
  <2>1. ASSUME NEW i \in 1 .. n PROVE F[i] = F[i - 1] \o seqs[i]
    <3>1. i - 1 \in 0 .. n
      BY <1>1
    <3>2. <<i, F[i - 1]>> \in (1 .. n) \X X
      BY <1>4, <3>1 DEF Counts
    <3>3. F[i] = step[<<i, F[i - 1]>>]
      BY <1>4 DEF Counts
    <3> HIDE DEF X, n
    <3> QED BY <3>2, <3>3
  <2> QED BY <1>4, <2>1 DEF Counts, Flattens
<1>6. CASE n = 0
  <2>1. seqs = <<>> /\ FlattenSeq(seqs) = seqs
    BY <1>6 DEF FlattenSeq
  <2> QED BY <1>5, <1>6, <2>1 DEF Flattens
<1>7. CASE n # 0
  <2> DEFINE E == [i \in 1 .. n |-> F[i]]
  <2>1. \A i \in 1 .. n : i # 1 => i - 1 \in 1 .. n
    BY <1>1
  <2>2. 1 \in 1 .. n => F[1] = seqs[1]
    <3>1. ASSUME 1 \in 1 .. n PROVE F[1] = <<>> \o seqs[1] /\ seqs[1] \in Seq(T)
      <4>1. seqs[1] \in Seq(T) /\ 1 - 1 = 0
        BY <1>1, <3>1
      <4>2. F[1] = F[0] \o seqs[1] /\ F[0] = <<>>
        BY <1>5, <3>1, <4>1 DEF Flattens
      <4> QED BY <4>1, <4>2
    <3> QED BY <3>1
  <2>3. \A i \in 1 .. n : E[i] = IF i = 1 THEN seqs[i] ELSE E[i - 1] \o seqs[i]
    BY <1>5, <2>1, <2>2 DEF Flattens
  <2>4. D(E)
    BY <2>3
  <2>5. D(U)
    <3> HIDE DEF D
    <3> QED BY <2>4
  <2>6. FlattenSeq(seqs) = U[n]
    BY <1>7 DEF FlattenSeq
  <2> DEFINE Bad == {i \in 1 .. n : U[i] # F[i]}
  <2>7. Bad = {}
    <3>1. SUFFICES ASSUME Bad # {} PROVE FALSE
      OBVIOUS
    <3>2. PICK m \in Bad : \A u \in Bad : m <= u
      <4>1. Bad \in SUBSET Nat
        <5> HIDE DEF U, n
        <5> QED BY <1>1
      <4> HIDE DEF Bad
      <4> QED BY <3>1, <4>1, LeastNat
    <3>3. U[m] = IF m = 1 THEN seqs[m] ELSE U[m - 1] \o seqs[m]
      <4> HIDE DEF U
      <4> QED BY <2>5
    <3>4. m # 1 => m - 1 \in 1 .. n /\ m - 1 \notin Bad
      <4> HIDE DEF U, n
      <4> QED BY <1>1, <3>2
    <3> HIDE DEF U
    <3> QED BY <1>5, <2>2, <3>2, <3>3, <3>4 DEF Flattens
  <2>8. n \in 1 .. n /\ n \notin Bad
    <3> HIDE DEF U, n
    <3> QED BY <1>1, <1>7, <2>7
  <2> HIDE DEF U
  <2> QED BY <1>5, <2>6, <2>8
<1> QED BY <1>6, <1>7

(* What is flattened is over the same set. *)
LEMMA FlattenType ==
    ASSUME NEW T, NEW seqs \in Seq(Seq(T))
    PROVE  FlattenSeq(seqs) \in Seq(T)
<1>1. PICK F : Flattens(F, T, seqs) /\ FlattenSeq(seqs) = F[Len(seqs)]
  BY FlattenUnfolded
<1>2. Len(seqs) \in 0 .. Len(seqs)
  OBVIOUS
<1> QED BY <1>1, <1>2 DEF Flattens

(* One more sequence is added at the end. *)
LEMMA FlattenAppend ==
    ASSUME NEW T, NEW seqs \in Seq(Seq(T)), NEW s \in Seq(T)
    PROVE  FlattenSeq(Append(seqs, s)) = FlattenSeq(seqs) \o s
<1> DEFINE more == Append(seqs, s)
           n == Len(seqs)
<1>1. /\ more \in Seq(Seq(T)) /\ n \in Nat /\ Len(more) = n + 1 /\ more[n + 1] = s
      /\ \A i \in 1 .. n : more[i] = seqs[i]
  OBVIOUS
<1>2. PICK F : Flattens(F, T, seqs) /\ FlattenSeq(seqs) = F[n]
  BY FlattenUnfolded
<1>3. PICK G : Flattens(G, T, more) /\ FlattenSeq(more) = G[n + 1]
  BY <1>1, FlattenUnfolded
<1> HIDE DEF more, n
<1> DEFINE Bad == {i \in 0 .. n : G[i] # F[i]}
<1>4. Bad = {}
  <2>1. SUFFICES ASSUME Bad # {} PROVE FALSE
    OBVIOUS
  <2>2. PICK m \in Bad : \A u \in Bad : m <= u
    <3>1. Bad \in SUBSET Nat
      BY <1>1
    <3> HIDE DEF Bad
    <3> QED BY <2>1, <3>1, LeastNat
  <2>3. m # 0
    BY <1>2, <1>3 DEF Flattens
  <2>4. m \in 1 .. n /\ m \in 1 .. (n + 1) /\ m - 1 \in 0 .. n /\ m - 1 \notin Bad
    BY <1>1, <2>2, <2>3
  <2>5. F[m] = F[m - 1] \o seqs[m] /\ G[m] = G[m - 1] \o more[m]
    BY <1>1, <1>2, <1>3, <2>4 DEF Flattens, n
  <2> QED BY <1>1, <2>4, <2>5
<1>5. n \in 0 .. n /\ n \notin Bad /\ n + 1 \in 1 .. (n + 1) /\ (n + 1) - 1 = n
  <2>1. n \in 0 .. n /\ n \notin Bad
    BY <1>1, <1>4
  <2>2. n + 1 \in 1 .. (n + 1) /\ (n + 1) - 1 = n
    BY <1>1
  <2> QED BY <2>1, <2>2
<1>6. G[n + 1] = G[n] \o more[n + 1]
  BY <1>1, <1>3, <1>5 DEF Flattens
<1> QED BY <1>1, <1>2, <1>3, <1>5, <1>6 DEF more

(* Empty sequences flatten to the empty one. *)
LEMMA FlattenNothing ==
    ASSUME NEW T, NEW seqs \in Seq(Seq(T)), \A i \in DOMAIN seqs : seqs[i] = <<>>
    PROVE  FlattenSeq(seqs) = <<>>
<1>1. PICK F : Flattens(F, T, seqs) /\ FlattenSeq(seqs) = F[Len(seqs)]
  BY FlattenUnfolded
<1> DEFINE Bad == {i \in 0 .. Len(seqs) : F[i] # <<>>}
<1>2. Bad = {}
  <2>1. SUFFICES ASSUME Bad # {} PROVE FALSE
    OBVIOUS
  <2>2. PICK m \in Bad : \A u \in Bad : m <= u
    <3>1. Bad \in SUBSET Nat
      OBVIOUS
    <3> HIDE DEF Bad
    <3> QED BY <2>1, <3>1, LeastNat
  <2>3. m # 0
    BY <1>1 DEF Flattens
  <2>4. m \in 1 .. Len(seqs) /\ m - 1 \in 0 .. Len(seqs) /\ m - 1 \notin Bad
    BY <2>2, <2>3
  <2>5. F[m] = F[m - 1] \o seqs[m] /\ F[m - 1] = <<>> /\ seqs[m] = <<>>
    <3>1. m \in DOMAIN seqs
      BY <2>4
    <3>2. F[m] = F[m - 1] \o seqs[m]
      BY <1>1, <2>4 DEF Flattens
    <3>3. F[m - 1] = <<>>
      BY <2>4
    <3> QED BY <3>1, <3>2, <3>3
  <2>6. <<>> \o <<>> = <<>>
    OBVIOUS
  <2> QED BY <2>2, <2>5, <2>6
<1>3. Len(seqs) \in 0 .. Len(seqs) /\ Len(seqs) \notin Bad
  BY <1>2
<1> QED BY <1>1, <1>3

------------------------------------------------------------------------------
(***************************************************************************)
(* What the metadata says.                                                 *)
(***************************************************************************)
Ifaces == {c \in Classes : IsInterface(c)}

(* What is assumed of all programs holds of this one. *)
LEMMA MetadataHolds == ASSUME program \in Programs PROVE Metadata(program)
BY ProgramsAssumption

(* The methods of a class are numbered as in its metadata. *)
LEMMA OwnMethods ==
    ASSUME Metadata(program), NEW c \in Classes
    PROVE  /\ Len(Own(c)) \in Nat /\ DOMAIN Own(c) = 1 .. Len(Own(c))
           /\ DOMAIN Own(c) = DOMAIN program[c].methods
           /\ \A k \in DOMAIN Own(c) : Own(c)[k] = <<c, k>>
           /\ ToSet(Own(c)) = {c} \X DOMAIN program[c].methods
<1>1. PICK T : program[c].methods \in Seq(T)
  BY DEF Metadata, Classes
<1>2. Len(program[c].methods) \in Nat /\ DOMAIN program[c].methods = 1 .. Len(program[c].methods)
  BY <1>1
<1>3. Len(Own(c)) = Len(program[c].methods) /\ DOMAIN Own(c) = DOMAIN program[c].methods
  BY <1>2 DEF Own
<1>4. \A k \in DOMAIN Own(c) : Own(c)[k] = <<c, k>>
  BY DEF Own
<1>5. ToSet(Own(c)) = {c} \X DOMAIN program[c].methods
  <2>1. ToSet(Own(c)) = {<<c, k>> : k \in DOMAIN program[c].methods}
    BY <1>3, <1>4 DEF ToSet
  <2> QED BY <2>1
<1> QED BY <1>2, <1>3, <1>4, <1>5

(* A method is one of the class that its name says. *)
LEMMA MethodsAre ==
    ASSUME Metadata(program)
    PROVE  /\ Methods = UNION {{c} \X DOMAIN program[c].methods : c \in Classes}
           /\ \A m \in Methods : m[1] \in Classes /\ m \in ToSet(Own(m[1]))
           /\ \A c \in Classes : Own(c) \in Seq(Methods) /\ \A m \in ToSet(Own(c)) : m[1] = c
           /\ NoMethod \notin Methods
<1>1. Methods = UNION {{c} \X DOMAIN program[c].methods : c \in Classes}
  BY OwnMethods DEF Methods
<1>2. ASSUME NEW m \in Methods PROVE m[1] \in Classes /\ m \in ToSet(Own(m[1]))
  <2>1. PICK c \in Classes : m \in ToSet(Own(c))
    BY DEF Methods
  <2>2. m \in {c} \X DOMAIN program[c].methods
    BY <2>1, OwnMethods
  <2>3. m[1] = c
    BY <2>2
  <2> QED BY <2>1, <2>3
<1>3. ASSUME NEW c \in Classes PROVE Own(c) \in Seq(Methods) /\ \A m \in ToSet(Own(c)) : m[1] = c
  <2> PICK s : s = Own(c)
    OBVIOUS
  <2>1. /\ Len(s) \in Nat /\ DOMAIN s = 1 .. Len(s)
        /\ ToSet(s) = {c} \X DOMAIN program[c].methods
    BY OwnMethods
  <2>2. s = [k \in DOMAIN program[c].methods |-> <<c, k>>] /\ DOMAIN s = DOMAIN program[c].methods
    BY DEF Own
  <2>3. \A k \in DOMAIN s : s[k] \in Methods
    <3>1. \A k \in DOMAIN s : s[k] \in ToSet(s)
      BY DEF ToSet
    <3> QED BY <1>1, <2>1, <3>1
  <2>4. s = [k \in 1 .. Len(s) |-> s[k]]
    BY <2>1, <2>2
  <2>5. s \in [1 .. Len(s) -> Methods]
    BY ONLY <2>1, <2>3, <2>4
  <2>6. s \in Seq(Methods)
    BY ONLY <2>1, <2>5
  <2>7. \A m \in ToSet(s) : m[1] = c
    BY <2>1
  <2> QED BY <2>6, <2>7
<1>4. NoMethod \notin Methods
  BY <1>1 DEF Metadata, Classes
<1> QED BY <1>1, <1>2, <1>3, <1>4

(* Interfaces have no parent, classes have a class, if any. *)
LEMMA ClassFacts ==
    ASSUME Metadata(program), NEW c \in Classes
    PROVE  /\ NoClass \notin Classes
           /\ Parent(c) \in (Classes \ Ifaces) \cup {NoClass}
           /\ c \in Ifaces => Parent(c) = NoClass
           /\ program[c].lists \in Seq(Ifaces)
           /\ \A j, k \in DOMAIN program[c].lists :
                  program[c].lists[j] = program[c].lists[k] => j = k
           /\ program[c].impls \in Seq([class : Classes, body : Methods, decl : Methods])
<1> DEFINE classes == {k \in DOMAIN program : ~program[k].interface}
           methods == UNION {{k} \X DOMAIN program[k].methods : k \in DOMAIN program}
<1>1. Classes = DOMAIN program /\ classes = Classes \ Ifaces /\ Ifaces = DOMAIN program \ classes
  BY DEF Classes, Ifaces, IsInterface
<1>2. methods = Methods
  BY MethodsAre DEF Classes
<1>3. /\ NoClass \notin Classes
      /\ program[c].parent \in IF program[c].interface THEN {NoClass} ELSE classes \cup {NoClass}
      /\ program[c].lists \in Seq(DOMAIN program \ classes) /\ IsInjective(program[c].lists)
      /\ program[c].impls \in Seq([class : {c}, body : methods, decl : methods])
  BY <1>1 DEF Metadata
<1> HIDE DEF classes, methods
<1>4. \A j, k \in DOMAIN program[c].lists : program[c].lists[j] = program[c].lists[k] => j = k
  BY <1>3 DEF IsInjective
<1>5. Parent(c) \in (Classes \ Ifaces) \cup {NoClass} /\ (c \in Ifaces => Parent(c) = NoClass)
  <2>1. c \in Ifaces <=> program[c].interface
    BY DEF Ifaces, IsInterface
  <2> QED BY <1>1, <1>3, <2>1 DEF Parent
<1>6. program[c].impls \in Seq([class : Classes, body : Methods, decl : Methods])
  <2> PICK R : R = [class : {c}, body : Methods, decl : Methods]
    OBVIOUS
  <2> PICK T : T = [class : Classes, body : Methods, decl : Methods]
    OBVIOUS
  <2>1. R \subseteq T
    OBVIOUS
  <2>2. program[c].impls \in Seq(R)
    BY <1>2, <1>3
  <2>3. program[c].impls \in Seq(T)
    BY ONLY <2>1, <2>2
  <2> QED BY <2>3
<1>7. program[c].lists \in Seq(Ifaces)
  BY <1>1, <1>3
<1> QED BY <1>3, <1>4, <1>5, <1>6, <1>7

(* Every set of classes has one whose parent is not in it. *)
LEMMA ParentsFounded ==
    ASSUME Metadata(program), NEW S \in (SUBSET Classes) \ {{}}
    PROVE  \E c \in S : Parent(c) \notin S
<1>1. CASE \E c \in S : c \in Ifaces
  <2>1. PICK c \in S : c \in Ifaces
    BY <1>1
  <2>2. Parent(c) = NoClass /\ NoClass \notin S
    BY <2>1, ClassFacts
  <2> QED BY <2>2
<1>2. CASE \A c \in S : c \notin Ifaces
  <2> DEFINE classes == {k \in DOMAIN program : ~program[k].interface}
  <2>1. S \in (SUBSET classes) \ {{}}
    BY <1>2 DEF Classes, Ifaces, IsInterface
  <2>2. \A T \in (SUBSET classes) \ {{}} : \E c \in T : program[c].parent \notin T
    BY DEF Metadata
  <2> HIDE DEF classes
  <2> QED BY <2>1, <2>2 DEF Parent
<1> QED BY <1>1, <1>2

ParentFunction == [c \in Classes |-> Parent(c)]

(* The recursive definition of Line has the value it says. *)
LEMMA LineUnfolded ==
    ASSUME Metadata(program)
    PROVE  /\ Line[NoClass] = <<>>
           /\ \A c \in Classes : Line[c] \in Seq(Classes) /\ Line[c] = Append(Line[Parent(c)], c)
           /\ \A c \in Classes : Line[Parent(c)] \in Seq(Classes)
<1> DEFINE X == Seq(Classes)
           base == [c \in Classes |-> <<c>>]
           step == [p \in Classes \X X |-> Append(p[2], p[1])]
           D(G) == G = [c \in Classes \cup {NoClass} |->
                           IF c = NoClass THEN <<>> ELSE Append(G[Parent(c)], c)]
<1>1. base \in [Classes -> X] /\ step \in [Classes \X X -> X]
  <2>1. ASSUME NEW c \in Classes PROVE <<c>> \in X
    OBVIOUS
  <2>2. ASSUME NEW p \in Classes \X X PROVE Append(p[2], p[1]) \in X
    <3>1. p[1] \in Classes /\ p[2] \in X
      OBVIOUS
    <3> QED BY <3>1
  <2> HIDE DEF X
  <2> QED BY <2>1, <2>2
<1>2. /\ NoClass \notin Classes /\ ParentFunction \in [Classes -> Classes \cup {NoClass}]
      /\ \A c \in Classes : ParentFunction[c] = Parent(c) /\ Parent(c) \in Classes \cup {NoClass}
      /\ \A S \in (SUBSET Classes) \ {{}} : \E c \in S : ParentFunction[c] \notin S
  <2>1. NoClass \notin Classes
    BY DEF Metadata, Classes
  <2>2. \A c \in Classes : Parent(c) \in Classes \cup {NoClass}
    BY ClassFacts
  <2> QED BY <2>1, <2>2, ParentsFounded DEF ParentFunction
<1>3. PICK F : Climbs(F, ParentFunction, X, base, step)
  <2>1. \E F : Climbs(F, ParentFunction, X, base, step)
    <3> HIDE DEF X, base, step
    <3> QED BY <1>1, <1>2, RecursionOverParents
  <2> QED BY <2>1
<1> DEFINE G == [c \in Classes \cup {NoClass} |-> IF c = NoClass THEN <<>> ELSE F[c]]
<1>4. F \in [Classes -> X]
  BY <1>3 DEF Climbs
<1>5. ASSUME NEW c \in Classes PROVE G[c] = Append(G[Parent(c)], c)
  <2>1. F[c] = IF Parent(c) = NoClass THEN base[c] ELSE step[<<c, F[Parent(c)]>>]
    BY <1>2, <1>3 DEF Climbs
  <2>2. base[c] = Append(<<>>, c)
    OBVIOUS
  <2>3. Parent(c) # NoClass => F[Parent(c)] \in X
    BY <1>2, <1>4
  <2>4. Parent(c) # NoClass => step[<<c, F[Parent(c)]>>] = Append(F[Parent(c)], c)
    <3> HIDE DEF X
    <3> QED BY <2>3
  <2> QED BY <1>2, <2>1, <2>2, <2>4
<1>6. D(G)
  BY <1>2, <1>5
<1>7. D(Line)
  <2>1. Line = CHOOSE H : D(H)
    BY DEF Line
  <2> HIDE DEF D
  <2> QED BY <1>6, <2>1
<1>8. Line[NoClass] = <<>> /\ \A c \in Classes : Line[c] = Append(Line[Parent(c)], c)
  BY <1>2, <1>7
<1>9. \A c \in Classes : Line[c] \in X
  <2> DEFINE S == {c \in Classes : Line[c] \notin X}
  <2>1. SUFFICES ASSUME S # {} PROVE FALSE
    OBVIOUS
  <2>2. PICK c \in S : Parent(c) \notin S
    <3>1. S \in (SUBSET Classes) \ {{}}
      BY <2>1
    <3> HIDE DEF S
    <3> QED BY <3>1, ParentsFounded
  <2>3. Line[Parent(c)] \in X
    BY <1>2, <1>8, <2>2
  <2>4. Line[c] \in X
    <3> PICK s : s = Line[Parent(c)]
      OBVIOUS
    <3>1. s \in Seq(Classes) /\ c \in Classes
      BY <2>3
    <3>2. Append(s, c) \in Seq(Classes)
      BY ONLY <3>1
    <3> QED BY <1>8, <3>2
  <2> QED BY <2>4
<1>10. \A c \in Classes : Line[Parent(c)] \in X
  <2>1. <<>> \in X
    OBVIOUS
  <2> HIDE DEF X
  <2> QED BY <1>2, <1>8, <1>9, <2>1
<1> QED BY <1>8, <1>9, <1>10

(* The ancestors are those of the parent and the class. *)
LEMMA AncestorsUnfolded ==
    ASSUME Metadata(program)
    PROVE  /\ Ancestors(NoClass) = {}
           /\ \A c \in Classes : Ancestors(c) = Ancestors(Parent(c)) \cup {c}
           /\ \A c \in Classes : Ancestors(c) \subseteq Classes /\ Ancestors(Parent(c)) \subseteq Classes
<1>1. Ancestors(NoClass) = {}
  BY LineUnfolded DEF Ancestors, ToSet
<1>2. ASSUME NEW c \in Classes
      PROVE  /\ Ancestors(c) = Ancestors(Parent(c)) \cup {c}
             /\ Ancestors(c) \subseteq Classes /\ Ancestors(Parent(c)) \subseteq Classes
  <2> PICK s : s = Line[Parent(c)]
    OBVIOUS
  <2>1. s \in Seq(Classes) /\ Line[c] = Append(s, c)
    BY LineUnfolded
  <2>2. ToSet(Append(s, c)) = ToSet(s) \cup {c} /\ ToSet(s) \subseteq Classes
    BY <2>1 DEF ToSet
  <2> QED BY <2>1, <2>2 DEF Ancestors
<1> QED BY <1>1, <1>2

(* No class is among the ancestors of its parent. *)
LEMMA NoneAboveItself ==
    ASSUME Metadata(program), NEW c \in Classes
    PROVE  c \notin Ancestors(Parent(c))
<1> DEFINE S == {k \in Classes : \E a \in Ancestors(k) : Len(Line[a]) > Len(Line[k])}
<1>1. \A k \in Classes : Len(Line[k]) \in Nat /\ Len(Line[k]) = Len(Line[Parent(k)]) + 1
                         /\ Len(Line[Parent(k)]) \in Nat
  <2>1. ASSUME NEW k \in Classes, NEW s \in Seq(Classes) PROVE Len(Append(s, k)) = Len(s) + 1 /\ Len(s) \in Nat
    OBVIOUS
  <2> QED BY <2>1, LineUnfolded
<1>2. S = {}
  <2>1. SUFFICES ASSUME S # {} PROVE FALSE
    OBVIOUS
  <2>2. PICK k \in S : Parent(k) \notin S
    <3>1. S \in (SUBSET Classes) \ {{}}
      BY <2>1
    <3> HIDE DEF S
    <3> QED BY <3>1, ParentsFounded
  <2>3. PICK a \in Ancestors(k) : Len(Line[a]) > Len(Line[k])
    OBVIOUS
  <2>4. a \in Classes /\ (a = k \/ a \in Ancestors(Parent(k)))
    BY AncestorsUnfolded
  <2>5. a # k
    BY <1>1, <2>3, <2>4
  <2>6. Parent(k) \in Classes
    BY <2>4, <2>5, AncestorsUnfolded, ClassFacts
  <2> QED BY <1>1, <2>2, <2>3, <2>4, <2>5, <2>6
<1>3. SUFFICES ASSUME c \in Ancestors(Parent(c)) PROVE FALSE
  OBVIOUS
<1>4. Parent(c) \in Classes
  BY <1>3, AncestorsUnfolded, ClassFacts
<1>5. Len(Line[c]) <= Len(Line[Parent(c)])
  BY <1>1, <1>2, <1>3, <1>4
<1> QED BY <1>1, <1>5

(* collect_virtual_methods collects methods. *)
LEMMA HierarchyType ==
    ASSUME Metadata(program), NEW c \in Classes
    PROVE  Hierarchy(c) \in Seq(Methods)
<1> PICK s : s = Line[c]
  OBVIOUS
<1>1. s \in Seq(Classes)
  BY LineUnfolded
<1>2. \A k \in DOMAIN s : s[k] \in Classes
  BY <1>1
<1>3. \A k \in DOMAIN s : Own(s[k]) \in Seq(Methods)
  BY <1>2, MethodsAre
<1> PICK M : M = Seq(Methods)
  OBVIOUS
<1>4. [k \in DOMAIN s |-> Own(s[k])] \in Seq(M)
  <2>1. DOMAIN s = 1 .. Len(s) /\ Len(s) \in Nat
    BY <1>1
  <2> QED BY <1>3, <2>1
<1>5. FlattenSeq([k \in DOMAIN s |-> Own(s[k])]) \in Seq(Methods)
  BY <1>4, FlattenType
<1> QED BY <1>5 DEF Hierarchy

(* The methods with new slots, in their order, once each. *)
LEMMA NewSlotsAre ==
    ASSUME Metadata(program), NEW c \in Classes
    PROVE  /\ NewSlots(c) \in Seq(Methods)
           /\ ToSet(NewSlots(c)) = {m \in ToSet(Own(c)) : Info(m).newSlot}
           /\ \A j, k \in DOMAIN NewSlots(c) : NewSlots(c)[j] = NewSlots(c)[k] => j = k
<1> PICK own : own = Own(c)
  OBVIOUS
<1> PICK n : n = Len(own)
  OBVIOUS
<1> DEFINE X == Seq(Methods)
           More(so, m) == IF Info(m).newSlot THEN Append(so, m) ELSE so
           step == [p \in (1 .. n) \X X |-> More(p[2], own[p[1]])]
           D(G) == G = [t \in SUBSET (DOMAIN own) |->
                           IF t = {} THEN <<>> ELSE More(G[t \ {Max(t)}], own[Max(t)])]
           U == CHOOSE G : D(G)
<1>1. /\ own \in X /\ n \in Nat /\ DOMAIN own = 1 .. n
      /\ \A k \in 1 .. n : own[k] = <<c, k>> /\ own[k] \in Methods
  <2>1. own \in Seq(Methods)
    BY MethodsAre
  <2>2. \A k \in DOMAIN own : own[k] = <<c, k>> /\ own[k] \in Methods
    BY <2>1, OwnMethods
  <2> QED BY <2>1, <2>2
<1>2. <<>> \in X /\ \A so \in X, k \in 1 .. n : More(so, own[k]) \in X
  BY <1>1
<1>3. step \in [(1 .. n) \X X -> X] /\ \A so \in X, k \in 1 .. n : step[<<k, so>>] = More(so, own[k])
  <2> HIDE DEF X, More
  <2>1. ASSUME NEW p \in (1 .. n) \X X PROVE More(p[2], own[p[1]]) \in X
    BY <1>2
  <2> QED BY <2>1
<1>4. \E G : D(G)
  <2>1. PICK G : Folds(G, n, X, <<>>, step)
    <3>1. n \in Nat /\ <<>> \in X /\ step \in [(1 .. n) \X X -> X]
      BY <1>1, <1>2, <1>3
    <3> HIDE DEF X, step
    <3> QED BY ONLY <3>1, FoldExists
  <2>2. ASSUME NEW t \in SUBSET (1 .. n)
        PROVE  G[t] = IF t = {} THEN <<>> ELSE More(G[t \ {Max(t)}], own[Max(t)])
    <3>1. t # {} => Max(t) \in 1 .. n
      BY <1>1, MaxIn
    <3>2. G[t \ {Max(t)}] \in X
      <4>1. t \ {Max(t)} \in SUBSET (1 .. n)
        OBVIOUS
      <4> HIDE DEF X
      <4> QED BY <2>1, <4>1 DEF Folds
    <3> HIDE DEF X, More, step
    <3> QED BY <1>3, <2>1, <3>1, <3>2 DEF Folds
  <2>3. D(G)
    <3> HIDE DEF X, More, step
    <3> QED BY <1>1, <2>1, <2>2 DEF Folds
  <2> QED BY <2>3
<1>5. D(U)
  <2> HIDE DEF D
  <2> QED BY <1>4
<1>6. NewSlots(c) = U[DOMAIN own]
  BY DEF NewSlots, FoldLeft, MapThenFoldSet
<1>7. PICK H : Counts(H, n, X, <<>>, step) /\ U[1 .. n] = H[n]
  <2>1. U[{}] = <<>>
    BY <1>5
  <2>2. ASSUME NEW t \in (SUBSET (1 .. n)) \ {{}}, U[t \ {Max(t)}] \in X
        PROVE  U[t] = step[<<Max(t), U[t \ {Max(t)}]>>]
    <3>1. Max(t) \in 1 .. n
      BY <1>1, MaxIn
    <3>2. U[t] = More(U[t \ {Max(t)}], own[Max(t)])
      <4>1. t \in SUBSET (DOMAIN own) /\ t # {}
        BY <1>1
      <4> HIDE DEF More, U
      <4> QED BY <1>5, <4>1
    <3> HIDE DEF X, More, step, U
    <3> QED BY <1>3, <2>2, <3>1, <3>2
  <2>3. n \in Nat /\ <<>> \in X /\ step \in [(1 .. n) \X X -> X]
    BY <1>1, <1>2, <1>3
  <2> HIDE DEF X, step, U, D
  <2>4. FoldsOnward(U, n, X, <<>>, step)
    BY <2>1, <2>2 DEF FoldsOnward
  <2>5. FoldedTo(U, n, X, <<>>, step)
    BY ONLY <2>3, <2>4, FoldResult
  <2> QED BY <2>5 DEF FoldedTo
<1> DEFINE Fine(i, s) ==
               /\ s \in Seq(Methods)
               /\ ToSet(s) = {m \in {own[k] : k \in 1 .. i} : Info(m).newSlot}
               /\ \A j, k \in DOMAIN s : s[j] = s[k] => j = k
           Bad == {i \in 0 .. n : ~Fine(i, H[i])}
<1>8. Bad = {}
  <2>1. SUFFICES ASSUME Bad # {} PROVE FALSE
    OBVIOUS
  <2>2. PICK i \in Bad : \A u \in Bad : i <= u
    <3> HIDE DEF Fine
    <3>1. Bad \in SUBSET Nat
      OBVIOUS
    <3> HIDE DEF Bad
    <3> QED BY <2>1, <3>1, LeastNat
  <2>3. i # 0
    <3>1. Fine(0, <<>>)
      BY DEF ToSet
    <3> HIDE DEF Fine
    <3> QED BY <1>7, <2>2, <3>1 DEF Counts
  <2>4. i \in 1 .. n /\ i - 1 \in 0 .. n /\ i - 1 \notin Bad
    <3> HIDE DEF Fine
    <3> QED BY <1>1, <2>2, <2>3
  <2> PICK s : s = H[i - 1]
    OBVIOUS
  <2>5. Fine(i - 1, s)
    <3> HIDE DEF Fine
    <3> QED BY <2>4
  <2>6. H[i] = More(s, own[i])
    <3> HIDE DEF X, More, step
    <3>1. s \in X /\ H[i] = step[<<i, s>>]
      BY <1>7, <2>4 DEF Counts
    <3> QED BY <1>3, <2>4, <3>1
  <2> PICK m : m = own[i]
    OBVIOUS
  <2>7. m \in Methods /\ {own[k] : k \in 1 .. i} = {own[k] : k \in 1 .. (i - 1)} \cup {m}
    <3>1. \A k \in 1 .. i : k = i \/ k \in 1 .. (i - 1)
      BY <1>1, <2>4
    <3>2. \A k \in 1 .. (i - 1) : k \in 1 .. i
      BY <1>1, <2>4
    <3> QED BY <1>1, <2>4, <3>1, <3>2
  <2>8. m \notin {own[k] : k \in 1 .. (i - 1)}
    <3>1. \A k \in 1 .. (i - 1) : k \in 1 .. n /\ k # i
      BY <1>1, <2>4
    <3> QED BY <1>1, <2>4, <3>1
  <2>9. CASE Info(m).newSlot
    <3>1. H[i] = Append(s, m)
      BY <2>6, <2>9
    <3>2. /\ Append(s, m) \in Seq(Methods)
          /\ DOMAIN Append(s, m) = DOMAIN s \cup {Len(s) + 1}
          /\ \A j \in DOMAIN s : Append(s, m)[j] = s[j]
          /\ Append(s, m)[Len(s) + 1] = m
      BY <2>5, <2>7
    <3>3. ToSet(Append(s, m)) = ToSet(s) \cup {m}
      BY <3>2 DEF ToSet
    <3>4. m \notin ToSet(s)
      BY <2>5, <2>8
    <3>5. \A j \in DOMAIN s : s[j] # m
      BY <3>4 DEF ToSet
    <3>6. ToSet(Append(s, m)) = {x \in {own[k] : k \in 1 .. i} : Info(x).newSlot}
      BY <2>5, <2>7, <2>9, <3>3
    <3>7. ASSUME NEW j \in DOMAIN Append(s, m), NEW k \in DOMAIN Append(s, m),
                 Append(s, m)[j] = Append(s, m)[k]
          PROVE  j = k
      <4> PICK more : more = Append(s, m)
        OBVIOUS
      <4>1. (j \in DOMAIN s \/ j = Len(s) + 1) /\ (k \in DOMAIN s \/ k = Len(s) + 1)
        BY <3>2
      <4>2. j \in DOMAIN s /\ k \in DOMAIN s => j = k
        BY <2>5, <3>2, <3>7
      <4> QED BY <3>2, <3>5, <3>7, <4>1, <4>2
    <3>8. Fine(i, Append(s, m))
      BY <3>2, <3>6, <3>7
    <3> HIDE DEF Fine
    <3> QED BY <2>2, <3>1, <3>8
  <2>10. CASE ~Info(m).newSlot
    <3>1. H[i] = s
      BY <2>6, <2>10
    <3>2. Fine(i, s)
      BY <2>5, <2>7, <2>10
    <3> HIDE DEF Fine
    <3> QED BY <2>2, <3>1, <3>2
  <2> QED BY <2>9, <2>10
<1>9. Fine(n, H[n])
  <2> HIDE DEF Fine
  <2>1. n \in 0 .. n
    BY <1>1
  <2> QED BY <1>8, <2>1
<1>10. NewSlots(c) = H[n]
  <2> HIDE DEF U
  <2> QED BY <1>1, <1>6, <1>7
<1>11. {own[k] : k \in 1 .. n} = ToSet(own)
  BY <1>1 DEF ToSet
<1> QED BY <1>9, <1>10, <1>11

------------------------------------------------------------------------------
(***************************************************************************)
(* Tables.                                                                 *)
(***************************************************************************)
EntryType == [method : Methods, impl : Methods \cup {NoMethod}]
OffsetType == [interface : Ifaces, offset : Nat]

TablesType ==
    /\ vtable \in [Classes -> Seq(EntryType)]
    /\ offsets \in [Classes -> Seq(OffsetType)]
    /\ slot \in [Methods -> Nat]

(* A table has the tables of interfaces where offsets say. *)
Agrees(offs, table) ==
    \A k \in DOMAIN offs :
        /\ offs[k].offset + Len(vtable[offs[k].interface]) <= Len(table)
        /\ \A j \in DOMAIN vtable[offs[k].interface] :
               table[offs[k].offset + j].method = vtable[offs[k].interface][j].method

NoneTwice(table) == \A j, k \in DOMAIN table : j # k => table[j].method # table[k].method
MethodsOf(table, classes) == \A k \in DOMAIN table : table[k].method[1] \in classes
PlacedOnce(offs) == \A j, k \in DOMAIN offs : offs[j].interface = offs[k].interface => j = k

Extends(c, parent) ==
    /\ Len(offsets[parent]) <= Len(offsets[c])
    /\ \A k \in DOMAIN offsets[parent] : offsets[c][k] = offsets[parent][k]
    /\ Len(vtable[parent]) <= Len(vtable[c])
    /\ \A k \in DOMAIN vtable[parent] : vtable[c][k].method = vtable[parent][k].method

TableFine(c) ==
    /\ Agrees(offsets[c], vtable[c])
    /\ NoneTwice(vtable[c])
    /\ MethodsOf(vtable[c], Ancestors(c) \cup InterfacesAt(offsets[c]))
    /\ PlacedOnce(offsets[c])
    /\ Parent(c) = NoClass => offsets[c] = <<>>
    /\ Parent(c) # NoClass => Extends(c, Parent(c))
    /\ ToSet(Interfaces(c)) \subseteq InterfacesAt(offsets[c])

(* The tables behind that of the parent *)
Behind(c, offs) ==
    [k \in DOMAIN offs |-> IF offs[k].offset >= Len(vtable[Parent(c)])
                           THEN vtable[offs[k].interface] ELSE <<>>]
Base(c, offs) == vtable[Parent(c)] \o FlattenSeq(Behind(c, offs))

(* No interface is an ancestor of a class. *)
LEMMA AncestorsAreClasses ==
    ASSUME Metadata(program), NEW c \in Classes \ Ifaces
    PROVE  Ancestors(c) \cap Ifaces = {}
<1> DEFINE S == {k \in Classes \ Ifaces : Ancestors(k) \cap Ifaces # {}}
<1>1. SUFFICES ASSUME S # {} PROVE FALSE
  OBVIOUS
<1>2. PICK k \in S : Parent(k) \notin S
  <2>1. S \in (SUBSET Classes) \ {{}}
    BY <1>1
  <2> HIDE DEF S
  <2> QED BY <2>1, ParentsFounded
<1>3. Parent(k) \in (Classes \ Ifaces) \cup {NoClass}
  BY ClassFacts
<1>4. Ancestors(Parent(k)) \cap Ifaces = {}
  BY <1>2, <1>3, AncestorsUnfolded
<1>5. Ancestors(k) = Ancestors(Parent(k)) \cup {k}
  BY AncestorsUnfolded
<1> QED BY <1>4, <1>5

(* An offset is that of an interface. *)
LEMMA OffsetsAre ==
    ASSUME NEW offs \in Seq(OffsetType), NEW k \in DOMAIN offs
    PROVE  /\ offs[k].interface \in Ifaces /\ offs[k].interface \in Classes
           /\ offs[k].offset \in Nat
<1>1. offs[k] \in OffsetType
  BY SeqElements
<1> QED BY <1>1 DEF OffsetType, Ifaces

(* The tables behind the parent's are tables. *)
LEMMA BehindType ==
    ASSUME TablesType, NEW c, Parent(c) \in Classes, NEW offs \in Seq(OffsetType)
    PROVE  Behind(c, offs) \in Seq(Seq(EntryType)) /\ DOMAIN Behind(c, offs) = DOMAIN offs
<1>1. \A k \in DOMAIN offs : offs[k].interface \in Classes
  BY OffsetsAre
<1> PICK T : T = Seq(EntryType)
  OBVIOUS
<1>2. \A k \in DOMAIN offs :
          (IF offs[k].offset >= Len(vtable[Parent(c)]) THEN vtable[offs[k].interface] ELSE <<>>) \in T
  BY <1>1 DEF TablesType
<1>3. DOMAIN offs = 1 .. Len(offs) /\ Len(offs) \in Nat
  OBVIOUS
<1>4. Behind(c, offs) \in [1 .. Len(offs) -> T] /\ DOMAIN Behind(c, offs) = DOMAIN offs
  BY <1>2, <1>3 DEF Behind
<1>5. Behind(c, offs) \in Seq(T)
  BY ONLY <1>3, <1>4
<1> QED BY <1>4, <1>5

(* So is the table without the new slots. *)
LEMMA BaseType ==
    ASSUME TablesType, NEW c, Parent(c) \in Classes, NEW offs \in Seq(OffsetType)
    PROVE  Base(c, offs) \in Seq(EntryType)
<1>1. FlattenSeq(Behind(c, offs)) \in Seq(EntryType)
  BY BehindType, FlattenType
<1>2. vtable[Parent(c)] \in Seq(EntryType)
  BY DEF TablesType
<1> QED BY <1>1, <1>2, ConcatProperties DEF Base

(* One more offset puts one more table at the end of it. *)
LEMMA BaseAppend ==
    ASSUME TablesType, NEW c, Parent(c) \in Classes, NEW offs \in Seq(OffsetType),
           NEW o \in OffsetType, o.offset >= Len(vtable[Parent(c)])
    PROVE  Base(c, Append(offs, o)) = Base(c, offs) \o vtable[o.interface]
<1> PICK T : T = Seq(EntryType)
  OBVIOUS
<1> PICK b : b = Behind(c, offs)
  OBVIOUS
<1> PICK v : v = vtable[o.interface]
  OBVIOUS
<1>1. b \in Seq(T) /\ DOMAIN b = DOMAIN offs /\ v \in T /\ vtable[Parent(c)] \in T
  BY BehindType DEF TablesType, OffsetType, Ifaces
<1>2. Behind(c, Append(offs, o)) = Append(b, v)
  <2>1. /\ DOMAIN Append(offs, o) = 1 .. (Len(offs) + 1) /\ DOMAIN offs = 1 .. Len(offs) /\ Len(offs) \in Nat
        /\ \A k \in DOMAIN offs : Append(offs, o)[k] = offs[k]
        /\ Append(offs, o)[Len(offs) + 1] = o
    OBVIOUS
  <2>2. Len(b) = Len(offs)
    BY <1>1, <2>1
  <2>3. /\ Append(b, v) = [k \in 1 .. (Len(b) + 1) |-> IF k = Len(b) + 1 THEN v ELSE b[k]]
    BY <1>1
  <2>4. ASSUME NEW k \in 1 .. (Len(offs) + 1)
        PROVE  Behind(c, Append(offs, o))[k] = Append(b, v)[k]
    <3>1. CASE k = Len(offs) + 1
      BY <2>1, <2>2, <2>3, <3>1 DEF Behind
    <3>2. CASE k # Len(offs) + 1
      <4>1. k \in DOMAIN offs /\ k \in DOMAIN Append(offs, o)
        BY <2>1, <3>2
      <4>2. Append(b, v)[k] = b[k]
        BY <2>2, <2>3, <3>2
      <4>3. Behind(c, Append(offs, o))[k] = Behind(c, offs)[k]
        BY <2>1, <4>1 DEF Behind
      <4> QED BY <4>2, <4>3
    <3> QED BY <3>1, <3>2
  <2>5. Behind(c, Append(offs, o)) = [k \in 1 .. (Len(offs) + 1) |-> Behind(c, Append(offs, o))[k]]
    BY <2>1 DEF Behind
  <2>6. Append(b, v) = [k \in 1 .. (Len(offs) + 1) |-> Append(b, v)[k]]
    BY <2>2, <2>3
  <2> QED BY <2>4, <2>5, <2>6
<1>3. FlattenSeq(Append(b, v)) = FlattenSeq(b) \o v /\ FlattenSeq(b) \in T
  BY <1>1, FlattenAppend, FlattenType
<1>4. vtable[Parent(c)] \o (FlattenSeq(b) \o v) = (vtable[Parent(c)] \o FlattenSeq(b)) \o v
  <2> PICK u : u = vtable[Parent(c)]
    OBVIOUS
  <2> PICK f : f = FlattenSeq(b)
    OBVIOUS
  <2> PICK E : E = EntryType
    OBVIOUS
  <2>1. u \in Seq(E) /\ f \in Seq(E) /\ v \in Seq(E)
    BY <1>1, <1>3
  <2>2. u \o (f \o v) = (u \o f) \o v
    BY ONLY <2>1, ConcatAssociative
  <2> QED BY <2>2
<1> QED BY <1>2, <1>3, <1>4 DEF Base

(* With the parent's offsets it is the parent's table. *)
LEMMA BaseInherited ==
    ASSUME TablesType, NEW c, Parent(c) \in Classes, Agrees(offsets[Parent(c)], vtable[Parent(c)])
    PROVE  Base(c, offsets[Parent(c)]) = vtable[Parent(c)]
<1> PICK offs : offs = offsets[Parent(c)]
  OBVIOUS
<1> PICK v : v = vtable[Parent(c)]
  OBVIOUS
<1>1. offs \in Seq(OffsetType) /\ v \in Seq(EntryType)
  BY DEF TablesType
<1>2. ASSUME NEW k \in DOMAIN offs PROVE Behind(c, offs)[k] = <<>>
  <2> PICK w : w = vtable[offs[k].interface]
    OBVIOUS
  <2>1. offs[k].offset \in Nat /\ w \in Seq(EntryType) /\ Len(v) \in Nat /\ Len(w) \in Nat
    BY <1>1, OffsetsAre DEF TablesType
  <2>2. offs[k].offset + Len(w) <= Len(v)
    BY DEF Agrees
  <2>3. CASE offs[k].offset >= Len(v)
    <3>1. Len(w) = 0
      <4> PICK at : at = offs[k].offset
        OBVIOUS
      <4> QED BY <2>1, <2>2, <2>3
    <3>2. w = <<>>
      BY <2>1, <3>1
    <3> QED BY <3>2 DEF Behind
  <2>4. CASE ~(offs[k].offset >= Len(v))
    BY <2>4 DEF Behind
  <2> QED BY <2>3, <2>4
<1>3. Behind(c, offs) \in Seq(Seq(EntryType)) /\ DOMAIN Behind(c, offs) = DOMAIN offs
  BY <1>1, BehindType
<1>4. FlattenSeq(Behind(c, offs)) = <<>>
  BY <1>2, <1>3, FlattenNothing
<1>5. v \o <<>> = v
  BY <1>1
<1> QED BY <1>4, <1>5 DEF Base
------------------------------------------------------------------------------
(* The offsets with the first n of the listed interfaces placed *)
OffsetsFine(c, n, s) ==
    LET base == Base(c, s.offsets)
        inherited == offsets[Parent(c)]
    IN  /\ s.offsets \in Seq(OffsetType)
        /\ s.count = Len(base)
        /\ Len(inherited) <= Len(s.offsets)
        /\ \A k \in DOMAIN inherited : s.offsets[k] = inherited[k]
        /\ Len(vtable[Parent(c)]) <= Len(base)
        /\ \A k \in DOMAIN vtable[Parent(c)] : base[k] = vtable[Parent(c)][k]
        /\ InterfacesAt(s.offsets) = InterfacesAt(inherited) \cup {Interfaces(c)[k] : k \in 1 .. n}
        /\ PlacedOnce(s.offsets)
        /\ Agrees(s.offsets, base)
        /\ NoneTwice(base)
        /\ MethodsOf(base, Ancestors(Parent(c)) \cup InterfacesAt(s.offsets))

(* Before any interface is placed, all is the parent's. *)
LEMMA OffsetsBegin ==
    ASSUME TablesType, NEW c, Parent(c) \in Classes, TableFine(Parent(c)), NEW s,
           s.offsets = offsets[Parent(c)], s.count = Len(vtable[Parent(c)])
    PROVE  OffsetsFine(c, 0, s)
<1>1. Base(c, s.offsets) = vtable[Parent(c)]
  BY BaseInherited DEF TableFine
<1>2. offsets[Parent(c)] \in Seq(OffsetType) /\ vtable[Parent(c)] \in Seq(EntryType)
  BY DEF TablesType
<1>3. Len(offsets[Parent(c)]) \in Nat /\ Len(vtable[Parent(c)]) \in Nat
  BY <1>2
<1>4. {Interfaces(c)[k] : k \in 1 .. 0} = {}
  OBVIOUS
<1> QED BY <1>1, <1>2, <1>3, <1>4 DEF OffsetsFine, TableFine

Longer(t, b) == Len(b) <= Len(t) /\ \A k \in DOMAIN b : t[k] = b[k]

(* A table with entries of methods of another class behind it *)
LEMMA EntriesBehind ==
    ASSUME TablesType, NEW offs \in Seq(OffsetType), NEW b \in Seq(EntryType),
           NEW w \in Seq(EntryType), NEW i, NEW classes, i \notin classes,
           Agrees(offs, b), NoneTwice(b), MethodsOf(b, classes), NoneTwice(w), MethodsOf(w, {i})
    PROVE  /\ b \o w \in Seq(EntryType)
           /\ Agrees(offs, b \o w)
           /\ NoneTwice(b \o w)
           /\ MethodsOf(b \o w, classes \cup {i})
           /\ Longer(b \o w, b)
<1> PICK t : t = b \o w
  OBVIOUS
<1> PICK n : n = Len(b)
  OBVIOUS
<1> PICK m : m = Len(w)
  OBVIOUS
<1>1. n \in Nat /\ m \in Nat /\ DOMAIN b = 1 .. n /\ DOMAIN w = 1 .. m
  OBVIOUS
<1>2. /\ t \in Seq(EntryType) /\ Len(t) = n + m /\ DOMAIN t = 1 .. (n + m)
      /\ \A k \in 1 .. n : t[k] = b[k]
      /\ \A k \in 1 .. m : t[n + k] = w[k]
  BY <1>1
<1>3. ASSUME NEW k \in DOMAIN t, k \notin 1 .. n PROVE k - n \in 1 .. m /\ t[k] = w[k - n]
  <2>1. k - n \in 1 .. m /\ n + (k - n) = k
    BY <1>1, <1>2, <1>3
  <2> QED BY <1>2, <2>1
<1>4. ASSUME NEW k \in DOMAIN offs
      PROVE  /\ offs[k].offset + Len(vtable[offs[k].interface]) <= Len(t)
             /\ \A j \in DOMAIN vtable[offs[k].interface] :
                    t[offs[k].offset + j].method = vtable[offs[k].interface][j].method
  <2> PICK x : x = vtable[offs[k].interface]
    OBVIOUS
  <2> PICK at : at = offs[k].offset
    OBVIOUS
  <2>1. x \in Seq(EntryType) /\ at \in Nat
    BY OffsetsAre DEF TablesType
  <2>2. at + Len(x) <= n /\ \A j \in DOMAIN x : b[at + j].method = x[j].method
    BY DEF Agrees
  <2>3. Len(x) \in Nat /\ DOMAIN x = 1 .. Len(x)
    BY <2>1
  <2>4. \A j \in DOMAIN x : at + j \in 1 .. n
    <3> PICK l : l = Len(x)
      OBVIOUS
    <3>1. l \in Nat /\ at \in Nat /\ at + l <= n /\ n \in Nat
      BY <1>1, <2>1, <2>2, <2>3
    <3>2. \A j \in 1 .. l : at + j \in 1 .. n
      BY ONLY <3>1
    <3> QED BY <2>3, <3>2
  <2>5. at + Len(x) <= Len(t)
    BY <1>1, <1>2, <2>1, <2>2, <2>3
  <2> QED BY <1>2, <2>2, <2>4, <2>5
<1>5. MethodsOf(t, classes \cup {i})
  <2>1. \A k \in 1 .. n : b[k].method[1] \in classes
    BY <1>1 DEF MethodsOf
  <2>2. \A k \in 1 .. m : w[k].method[1] = i
    BY <1>1 DEF MethodsOf
  <2>3. ASSUME NEW k \in DOMAIN t PROVE t[k].method[1] \in classes \cup {i}
    BY <1>2, <1>3, <2>1, <2>2
  <2> QED BY <2>3 DEF MethodsOf
<1>6. NoneTwice(t)
  <2>1. \A k \in 1 .. n : b[k].method[1] # i
    BY <1>1 DEF MethodsOf
  <2>2. \A k \in 1 .. m : w[k].method[1] = i
    BY <1>1 DEF MethodsOf
  <2>3. ASSUME NEW j \in DOMAIN t, NEW k \in DOMAIN t, j # k PROVE t[j].method # t[k].method
    <3>1. CASE j \in 1 .. n /\ k \in 1 .. n
      BY <1>1, <1>2, <2>3, <3>1 DEF NoneTwice
    <3>2. CASE j \in 1 .. n /\ k \notin 1 .. n
      <4>1. t[j] = b[j] /\ t[k] = w[k - n] /\ k - n \in 1 .. m
        BY <1>2, <1>3, <3>2
      <4>2. t[j].method[1] # i /\ t[k].method[1] = i
        BY <2>1, <2>2, <3>2, <4>1
      <4> QED BY <4>2
    <3>3. CASE j \notin 1 .. n /\ k \in 1 .. n
      <4>1. t[k] = b[k] /\ t[j] = w[j - n] /\ j - n \in 1 .. m
        BY <1>2, <1>3, <3>3
      <4>2. t[k].method[1] # i /\ t[j].method[1] = i
        BY <2>1, <2>2, <3>3, <4>1
      <4> QED BY <4>2
    <3>4. CASE j \notin 1 .. n /\ k \notin 1 .. n
      <4>1. j - n \in 1 .. m /\ k - n \in 1 .. m /\ t[j] = w[j - n] /\ t[k] = w[k - n]
        BY <1>3, <3>4
      <4>2. j - n # k - n
        BY <1>1, <1>2, <2>3
      <4> QED BY <1>1, <4>1, <4>2 DEF NoneTwice
    <3> QED BY <3>1, <3>2, <3>3, <3>4
  <2> QED BY <2>3 DEF NoneTwice
<1>7. Longer(t, b)
  BY <1>1, <1>2 DEF Longer
<1>8. Agrees(offs, t)
  BY <1>4 DEF Agrees
<1> QED BY <1>2, <1>5, <1>6, <1>7, <1>8

(* A table with that of one more interface behind it *)
LEMMA OneMoreTable ==
    ASSUME TablesType, NEW offs \in Seq(OffsetType), NEW b \in Seq(EntryType),
           NEW i \in Ifaces, i \notin InterfacesAt(offs), NEW classes, i \notin classes,
           Agrees(offs, b), NoneTwice(b), MethodsOf(b, classes), PlacedOnce(offs),
           NoneTwice(vtable[i]), MethodsOf(vtable[i], {i}), NEW o, o = [interface |-> i, offset |-> Len(b)]
    PROVE  /\ o \in OffsetType
           /\ InterfacesAt(Append(offs, o)) = InterfacesAt(offs) \cup {i}
           /\ PlacedOnce(Append(offs, o))
           /\ Agrees(Append(offs, o), b \o vtable[i])
           /\ NoneTwice(b \o vtable[i])
           /\ MethodsOf(b \o vtable[i], classes \cup {i})
           /\ Longer(b \o vtable[i], b)
<1> PICK w : w = vtable[i]
  OBVIOUS
<1> PICK more : more = Append(offs, o)
  OBVIOUS
<1> PICK t : t = b \o w
  OBVIOUS
<1> PICK n : n = Len(b)
  OBVIOUS
<1> PICK m : m = Len(w)
  OBVIOUS
<1>1. w \in Seq(EntryType) /\ n \in Nat /\ m \in Nat /\ DOMAIN b = 1 .. n /\ DOMAIN w = 1 .. m
  BY DEF TablesType, Ifaces
<1>2. o \in OffsetType /\ o.interface = i /\ o.offset = n
  BY <1>1 DEF OffsetType
<1>3. /\ DOMAIN more = DOMAIN offs \cup {Len(offs) + 1} /\ Len(offs) + 1 \notin DOMAIN offs
      /\ \A k \in DOMAIN offs : more[k] = offs[k]
      /\ more[Len(offs) + 1] = o
  BY <1>2
<1>4. InterfacesAt(more) = InterfacesAt(offs) \cup {i}
  BY <1>2, <1>3 DEF InterfacesAt
<1>5. PlacedOnce(more)
  <2>1. \A k \in DOMAIN offs : more[k].interface # i
    BY <1>3 DEF InterfacesAt
  <2> QED BY <1>2, <1>3, <2>1 DEF PlacedOnce
<1>6. Agrees(offs, t) /\ NoneTwice(t) /\ MethodsOf(t, classes \cup {i}) /\ Longer(t, b)
  <2>1. NoneTwice(w) /\ MethodsOf(w, {i}) /\ w \in Seq(EntryType)
    BY <1>1
  <2>2. /\ Agrees(offs, b \o w) /\ NoneTwice(b \o w)
        /\ MethodsOf(b \o w, classes \cup {i}) /\ Longer(b \o w, b)
    BY <2>1, EntriesBehind
  <2> QED BY <2>2
<1>7. Len(t) = n + m /\ \A j \in 1 .. m : t[n + j] = w[j]
  BY <1>1
<1>8. Agrees(more, t)
  <2>1. n + m <= Len(t) /\ \A j \in DOMAIN w : t[n + j].method = w[j].method
    BY <1>1, <1>7
  <2>2. ASSUME NEW k \in DOMAIN more
        PROVE  /\ more[k].offset + Len(vtable[more[k].interface]) <= Len(t)
               /\ \A j \in DOMAIN vtable[more[k].interface] :
                      t[more[k].offset + j].method = vtable[more[k].interface][j].method
    <3>1. CASE k \in DOMAIN offs
      <4>1. more[k] = offs[k]
        BY <1>3, <3>1
      <4>2. /\ offs[k].offset + Len(vtable[offs[k].interface]) <= Len(t)
            /\ \A j \in DOMAIN vtable[offs[k].interface] :
                   t[offs[k].offset + j].method = vtable[offs[k].interface][j].method
        BY <1>6, <3>1 DEF Agrees
      <4> QED BY ONLY <4>1, <4>2
    <3>2. CASE k \notin DOMAIN offs
      <4>1. more[k].offset = n /\ vtable[more[k].interface] = w
        BY <1>2, <1>3, <3>2
      <4> QED BY <2>1, <4>1
    <3> QED BY <3>1, <3>2
  <2> QED BY <2>2 DEF Agrees
<1> QED BY <1>2, <1>4, <1>5, <1>6, <1>8

------------------------------------------------------------------------------
(* The table of an interface has its own methods, once each. *)
LEMMA RootTable ==
    ASSUME Metadata(program), NEW i \in Ifaces, TableFine(i)
    PROVE  NoneTwice(vtable[i]) /\ MethodsOf(vtable[i], {i})
<1>1. i \in Classes /\ Parent(i) = NoClass
  BY ClassFacts DEF Ifaces
<1>2. Ancestors(i) = {i}
  BY <1>1, AncestorsUnfolded
<1>3. InterfacesAt(offsets[i]) = {}
  BY <1>1 DEF TableFine, InterfacesAt
<1> QED BY <1>2, <1>3 DEF TableFine

(* RtClass::interfaces are interfaces, once each. *)
LEMMA InterfacesAre ==
    ASSUME Metadata(program), NEW c \in Classes
    PROVE  /\ Interfaces(c) \in Seq(Ifaces)
           /\ \A j, k \in DOMAIN Interfaces(c) : Interfaces(c)[j] = Interfaces(c)[k] => j = k
           /\ DOMAIN Interfaces(c) = 1 .. Len(Interfaces(c)) /\ Len(Interfaces(c)) \in Nat
           /\ \A k \in DOMAIN Interfaces(c) : Interfaces(c)[k] \in Ifaces
<1>1. Interfaces(c) \in Seq(Ifaces)
  BY ClassFacts DEF Interfaces
<1>2. \A j, k \in DOMAIN Interfaces(c) : Interfaces(c)[j] = Interfaces(c)[k] => j = k
  <2>1. CASE Parent(c) = NoClass
    <3>1. DOMAIN Interfaces(c) = {}
      BY <2>1 DEF Interfaces
    <3> QED BY <3>1
  <2>2. CASE Parent(c) # NoClass
    BY <2>2, ClassFacts DEF Interfaces
  <2> QED BY <2>1, <2>2
<1> QED BY <1>1, <1>2, SeqElements

(* One more of the listed interfaces *)
LEMMA PlaceKeeps ==
    ASSUME Metadata(program), TablesType, NEW c \in Classes, Parent(c) # NoClass,
           NEW n \in DOMAIN Interfaces(c), TableFine(Interfaces(c)[n]),
           NEW s, OffsetsFine(c, n - 1, s)
    PROVE  OffsetsFine(c, n, Place(c, s, Interfaces(c)[n]))
<1> PICK i : i = Interfaces(c)[n]
  OBVIOUS
<1> PICK inherited : inherited = offsets[Parent(c)]
  OBVIOUS
<1> DEFINE L(k) == {Interfaces(c)[j] : j \in 1 .. k}
<1>1. i \in Ifaces /\ Parent(c) \in Classes \ Ifaces /\ inherited \in Seq(OffsetType)
  BY InterfacesAre, ClassFacts DEF TablesType
<1>2. L(n) = L(n - 1) \cup {i}
  <2>1. n \in 1 .. Len(Interfaces(c)) /\ Len(Interfaces(c)) \in Nat
    BY InterfacesAre
  <2>2. 1 .. n = (1 .. (n - 1)) \cup {n}
    BY <2>1
  <2> QED BY <2>2
<1>3. i \notin L(n - 1)
  <2>1. n \in 1 .. Len(Interfaces(c)) /\ Len(Interfaces(c)) \in Nat
    BY InterfacesAre
  <2>2. \A j \in 1 .. (n - 1) : j \in 1 .. Len(Interfaces(c)) /\ j # n
    BY <2>1
  <2> QED BY <2>2, InterfacesAre
<1>4. CASE i \in InterfacesAt(inherited)
  <2>1. Place(c, s, i) = s
    BY <1>4 DEF Place
  <2>2. InterfacesAt(inherited) \cup L(n) = InterfacesAt(inherited) \cup L(n - 1)
    BY <1>2, <1>4
  <2> HIDE DEF L
  <2>3. OffsetsFine(c, n, s)
    BY <2>2 DEF OffsetsFine, L
  <2> QED BY <2>1, <2>3
<1>5. CASE i \notin InterfacesAt(inherited)
  <2> PICK o : o = [interface |-> i, offset |-> s.count]
    OBVIOUS
  <2> PICK offs : offs = s.offsets
    OBVIOUS
  <2> PICK b : b = Base(c, offs)
    OBVIOUS
  <2> PICK classes : classes = Ancestors(Parent(c)) \cup InterfacesAt(offs)
    OBVIOUS
  <2> PICK r : r = Place(c, s, i)
    OBVIOUS
  <2>1. offs \in Seq(OffsetType) /\ b \in Seq(EntryType) /\ s.count = Len(b)
    BY <1>1, BaseType DEF OffsetsFine
  <2>2. InterfacesAt(offs) = InterfacesAt(inherited) \cup L(n - 1)
    BY DEF OffsetsFine
  <2>3. i \notin InterfacesAt(offs) /\ i \notin classes
    <3>1. i \notin Ancestors(Parent(c))
      BY <1>1, AncestorsAreClasses
    <3> HIDE DEF L
    <3> QED BY <1>3, <1>5, <2>2, <3>1
  <2>4. Agrees(offs, b) /\ NoneTwice(b) /\ MethodsOf(b, classes) /\ PlacedOnce(offs)
    BY DEF OffsetsFine
  <2>5. NoneTwice(vtable[i]) /\ MethodsOf(vtable[i], {i})
    BY <1>1, RootTable
  <2>6. /\ o \in OffsetType
        /\ InterfacesAt(Append(offs, o)) = InterfacesAt(offs) \cup {i}
        /\ PlacedOnce(Append(offs, o))
        /\ Agrees(Append(offs, o), b \o vtable[i])
        /\ NoneTwice(b \o vtable[i])
        /\ MethodsOf(b \o vtable[i], classes \cup {i})
        /\ Longer(b \o vtable[i], b)
    <3> PICK at : at = s.count
      OBVIOUS
    <3>1. at = Len(b) /\ o = [interface |-> i, offset |-> at]
      BY <2>1
    <3>2. o = [interface |-> i, offset |-> Len(b)]
      BY ONLY <3>1
    <3>3. i \in Ifaces /\ TablesType
      BY <1>1
    <3>4. offs \in Seq(OffsetType) /\ b \in Seq(EntryType)
      BY <2>1
    <3> QED BY ONLY <2>3, <2>4, <2>5, <3>2, <3>3, <3>4, OneMoreTable
  <2>7. r.offsets = Append(offs, o) /\ r.count = Len(b) + Len(vtable[i])
    BY <1>5, <2>1 DEF Place
  <2>8. vtable[i] \in Seq(EntryType) /\ vtable[Parent(c)] \in Seq(EntryType)
    BY <1>1 DEF TablesType, Ifaces
  <2>9. o.offset = Len(b) /\ o.interface = i /\ Len(b) >= Len(vtable[Parent(c)])
    BY <2>1 DEF OffsetsFine
  <2>10. Base(c, Append(offs, o)) = b \o vtable[i]
    <3>1. TablesType /\ Parent(c) \in Classes /\ o.offset >= Len(vtable[Parent(c)])
      BY <1>1, <2>9
    <3>2. o \in OffsetType
      BY <2>6
    <3>3. Base(c, Append(offs, o)) = Base(c, offs) \o vtable[o.interface]
      BY ONLY <2>1, <3>1, <3>2, BaseAppend
    <3> QED BY <2>9, <3>3
  <2>11. Len(b \o vtable[i]) = Len(b) + Len(vtable[i])
    BY <2>1, <2>8
  <2>12. Append(offs, o) \in Seq(OffsetType) /\ Len(Append(offs, o)) = Len(offs) + 1 /\ Len(offs) \in Nat
         /\ \A k \in DOMAIN offs : Append(offs, o)[k] = offs[k]
    BY <2>1, <2>6
  <2>13. Len(inherited) <= Len(r.offsets) /\ \A k \in DOMAIN inherited : r.offsets[k] = inherited[k]
    <3>1. Len(inherited) \in Nat /\ DOMAIN inherited = 1 .. Len(inherited) /\ DOMAIN offs = 1 .. Len(offs)
      BY <1>1, <2>1
    <3>2. Len(inherited) <= Len(offs) /\ \A k \in DOMAIN inherited : offs[k] = inherited[k]
      BY DEF OffsetsFine
    <3>3. \A k \in DOMAIN inherited : k \in DOMAIN offs
      BY <2>12, <3>1, <3>2
    <3> QED BY <2>7, <2>12, <3>1, <3>2, <3>3
  <2>14. Len(vtable[Parent(c)]) <= Len(b \o vtable[i])
         /\ \A k \in DOMAIN vtable[Parent(c)] : (b \o vtable[i])[k] = vtable[Parent(c)][k]
    <3> PICK v : v = vtable[Parent(c)]
      OBVIOUS
    <3> PICK t : t = b \o vtable[i]
      OBVIOUS
    <3>1. Len(v) \in Nat /\ Len(b) \in Nat /\ Len(t) \in Nat /\ DOMAIN v = 1 .. Len(v) /\ DOMAIN b = 1 .. Len(b)
      <4> PICK w : w = vtable[i]
        OBVIOUS
      <4>2. w \in Seq(EntryType) /\ t = b \o w
        BY <2>8
      <4>3. b \in Seq(EntryType)
        BY <2>1
      <4>1. t \in Seq(EntryType)
        BY ONLY <4>2, <4>3
      <4>4. v \in Seq(EntryType)
        BY <2>8
      <4> QED BY ONLY <4>1, <4>3, <4>4
    <3>2. Len(v) <= Len(b) /\ \A k \in DOMAIN v : b[k] = v[k]
      BY DEF OffsetsFine
    <3>3. \A k \in DOMAIN v : k \in DOMAIN b
      BY <3>1, <3>2
    <3>4. Len(b) <= Len(t) /\ \A k \in DOMAIN b : t[k] = b[k]
      BY <2>6 DEF Longer
    <3>5. Len(v) <= Len(t)
      BY ONLY <3>1, <3>2, <3>4
    <3> QED BY <3>2, <3>3, <3>4, <3>5
  <2>15. InterfacesAt(r.offsets) = InterfacesAt(inherited) \cup L(n)
    <3> HIDE DEF L
    <3> QED BY <1>2, <2>2, <2>6, <2>7
  <2>16. MethodsOf(b \o vtable[i], Ancestors(Parent(c)) \cup InterfacesAt(r.offsets))
    <3>1. Ancestors(Parent(c)) \cup InterfacesAt(r.offsets) = classes \cup {i}
      BY <2>6, <2>7
    <3> QED BY <2>6, <3>1
  <2>17. OffsetsFine(c, n, r)
    <3> PICK t : t = b \o vtable[i]
      OBVIOUS
    <3> PICK u : u = vtable[Parent(c)]
      OBVIOUS
    <3>1. Base(c, r.offsets) = t
      BY <2>7, <2>10
    <3>2. r.offsets \in Seq(OffsetType) /\ r.count = Len(t)
      BY <2>7, <2>11, <2>12
    <3>3. PlacedOnce(r.offsets) /\ Agrees(r.offsets, t) /\ NoneTwice(t)
      BY <2>6, <2>7
    <3>4. Len(u) <= Len(t) /\ \A k \in DOMAIN u : t[k] = u[k]
      BY <2>14
    <3>5. MethodsOf(t, Ancestors(Parent(c)) \cup InterfacesAt(r.offsets))
      BY <2>16
    <3>6. InterfacesAt(r.offsets) = InterfacesAt(offsets[Parent(c)]) \cup {Interfaces(c)[k] : k \in 1 .. n}
      BY <2>15
    <3>7. /\ Len(offsets[Parent(c)]) <= Len(r.offsets)
          /\ \A k \in DOMAIN offsets[Parent(c)] : r.offsets[k] = offsets[Parent(c)][k]
      BY <2>13
    <3> QED BY <3>1, <3>2, <3>3, <3>4, <3>5, <3>6, <3>7 DEF OffsetsFine
  <2> QED BY <2>17
<1> QED BY <1>4, <1>5

(* All of the listed interfaces *)
LEMMA InterfacesPlaced ==
    ASSUME Metadata(program), TablesType, NEW c \in Classes, Parent(c) # NoClass, TableFine(Parent(c)),
           \A i \in ToSet(Interfaces(c)) : TableFine(i)
    PROVE  \E s : OffsetsFine(c, Len(Interfaces(c)), s) /\ InterfaceOffsets(c) = s.offsets
<1> PICK is : is = Interfaces(c)
  OBVIOUS
<1> PICK n : n = Len(is)
  OBVIOUS
<1> PICK x : x = [offsets |-> offsets[Parent(c)], count |-> Len(vtable[Parent(c)])]
  OBVIOUS
<1> DEFINE X == [offsets : Seq(OffsetType), count : Nat]
           More(so, i) == Place(c, so, i)
           step == [p \in (1 .. n) \X X |-> More(p[2], is[p[1]])]
           D(G) == G = [t \in SUBSET (DOMAIN is) |->
                           IF t = {} THEN x ELSE More(G[t \ {Max(t)}], is[Max(t)])]
           U == CHOOSE G : D(G)
<1>1. /\ n \in Nat /\ DOMAIN is = 1 .. n /\ \A k \in 1 .. n : is[k] \in Ifaces
      /\ Parent(c) \in Classes
  BY InterfacesAre, ClassFacts
<1>2. x \in X
  <2>1. offsets[Parent(c)] \in Seq(OffsetType) /\ Len(vtable[Parent(c)]) \in Nat
    BY <1>1 DEF TablesType
  <2> QED BY <2>1
<1>3. \A so \in X, k \in 1 .. n : More(so, is[k]) \in X
  <2> SUFFICES ASSUME NEW so \in X, NEW k \in 1 .. n PROVE Place(c, so, is[k]) \in X
    OBVIOUS
  <2> PICK offs : offs = so.offsets
    OBVIOUS
  <2> PICK i : i = is[k]
    OBVIOUS
  <2>1. i \in Ifaces /\ Len(vtable[i]) \in Nat
    BY <1>1 DEF TablesType, Ifaces
  <2>2. offs \in Seq(OffsetType) /\ so.count \in Nat
    OBVIOUS
  <2> PICK o : o = [interface |-> i, offset |-> so.count]
    OBVIOUS
  <2>3. o \in OffsetType
    BY <2>1, <2>2 DEF OffsetType
  <2>4. Append(offs, o) \in Seq(OffsetType)
    BY <2>2, <2>3
  <2>5. so.count + Len(vtable[i]) \in Nat
    BY <2>1, <2>2
  <2> QED BY <2>4, <2>5 DEF Place
<1> HIDE DEF More, X
<1>4. step \in [(1 .. n) \X X -> X] /\ \A so \in X, k \in 1 .. n : step[<<k, so>>] = More(so, is[k])
  <2>1. ASSUME NEW p \in (1 .. n) \X X PROVE More(p[2], is[p[1]]) \in X
    BY <1>3
  <2> QED BY <2>1
<1>5. \E G : D(G)
  <2>1. PICK G : Folds(G, n, X, x, step)
    <3> HIDE DEF step
    <3> QED BY ONLY <1>1, <1>2, <1>4, FoldExists
  <2>2. ASSUME NEW t \in SUBSET (1 .. n)
        PROVE  G[t] = IF t = {} THEN x ELSE More(G[t \ {Max(t)}], is[Max(t)])
    <3>1. t # {} => Max(t) \in 1 .. n
      BY <1>1, MaxIn
    <3>2. G[t \ {Max(t)}] \in X
      <4>1. t \ {Max(t)} \in SUBSET (1 .. n)
        OBVIOUS
      <4> QED BY <2>1, <4>1 DEF Folds
    <3> HIDE DEF step
    <3> QED BY <1>4, <2>1, <3>1, <3>2 DEF Folds
  <2>3. D(G)
    <3> HIDE DEF step
    <3> QED BY <1>1, <2>1, <2>2 DEF Folds
  <2> QED BY <2>3
<1>6. D(U)
  <2> HIDE DEF D
  <2> QED BY <1>5
<1>7. InterfaceOffsets(c) = U[DOMAIN is].offsets
  BY DEF InterfaceOffsets, FoldLeft, MapThenFoldSet, More
<1>8. PICK H : Counts(H, n, X, x, step) /\ U[1 .. n] = H[n]
  <2>1. U[{}] = x
    BY <1>6
  <2>2. ASSUME NEW t \in (SUBSET (1 .. n)) \ {{}}, U[t \ {Max(t)}] \in X
        PROVE  U[t] = step[<<Max(t), U[t \ {Max(t)}]>>]
    <3>1. Max(t) \in 1 .. n
      BY <1>1, MaxIn
    <3>2. U[t] = More(U[t \ {Max(t)}], is[Max(t)])
      <4>1. t \in SUBSET (DOMAIN is) /\ t # {}
        BY <1>1
      <4> HIDE DEF U
      <4> QED BY <1>6, <4>1
    <3> HIDE DEF step, U
    <3> QED BY <1>4, <2>2, <3>1, <3>2
  <2>5. n \in Nat /\ x \in X /\ step \in [(1 .. n) \X X -> X]
    BY <1>1, <1>2, <1>4
  <2> HIDE DEF step, U, D
  <2>3. FoldsOnward(U, n, X, x, step)
    BY <2>1, <2>2 DEF FoldsOnward
  <2>4. FoldedTo(U, n, X, x, step)
    BY ONLY <2>3, <2>5, FoldResult
  <2> QED BY <2>4 DEF FoldedTo
<1> HIDE DEF U, D
<1>9. \A k \in 1 .. n : H[k - 1] \in X /\ H[k] = More(H[k - 1], is[k])
  <2> SUFFICES ASSUME NEW k \in 1 .. n PROVE H[k - 1] \in X /\ H[k] = More(H[k - 1], is[k])
    OBVIOUS
  <2>1. k - 1 \in 0 .. n
    BY <1>1
  <2> HIDE DEF step
  <2> QED BY <1>4, <1>8, <2>1 DEF Counts
<1> HIDE DEF step
<1> DEFINE Bad == {k \in 0 .. n : ~OffsetsFine(c, k, H[k])}
<1>10. Bad = {}
  <2>1. SUFFICES ASSUME Bad # {} PROVE FALSE
    OBVIOUS
  <2>2. PICK k \in Bad : \A u \in Bad : k <= u
    <3>1. Bad \in SUBSET Nat
      OBVIOUS
    <3> HIDE DEF Bad
    <3> QED BY <2>1, <3>1, LeastNat
  <2>3. k # 0
    <3>1. H[0] = x
      BY <1>8 DEF Counts
    <3>2. x.offsets = offsets[Parent(c)] /\ x.count = Len(vtable[Parent(c)])
      OBVIOUS
    <3>3. OffsetsFine(c, 0, x)
      BY <1>1, <3>2, OffsetsBegin
    <3> QED BY <2>2, <3>1, <3>3
  <2>4. k \in 1 .. n /\ k - 1 \in 0 .. n /\ k - 1 \notin Bad
    BY <1>1, <2>2, <2>3
  <2>5. OffsetsFine(c, k - 1, H[k - 1])
    BY <2>4
  <2>6. TableFine(Interfaces(c)[k])
    BY <1>1, <2>4 DEF ToSet
  <2>7. OffsetsFine(c, k, H[k])
    BY <1>1, <1>9, <2>4, <2>5, <2>6, PlaceKeeps DEF More
  <2> QED BY <2>2, <2>7
<1>11. n \in 0 .. n /\ n \notin Bad
  BY <1>1, <1>10
<1>12. OffsetsFine(c, n, H[n]) /\ InterfaceOffsets(c) = H[n].offsets
  BY <1>1, <1>7, <1>8, <1>11
<1> QED BY <1>12

------------------------------------------------------------------------------
(* A table with the entries of another one, but for the implementations. *)
Shaped(table, t) ==
    /\ t \in Seq(EntryType)
    /\ DOMAIN t = DOMAIN table
    /\ \A k \in DOMAIN table : t[k].method = table[k].method

DraftsOf(table) ==
    [table : {t \in Seq(EntryType) : Shaped(table, t)}, taken : SUBSET Nat,
     sound : BOOLEAN, slot : [Methods -> Nat]]

(* Changed implementations leave the shape. *)
LEMMA ShapedAgain ==
    ASSUME NEW table, NEW t, Shaped(table, t), NEW u, u = [k \in DOMAIN t |-> u[k]],
           \A k \in DOMAIN t : u[k] \in EntryType /\ u[k].method = t[k].method
    PROVE  Shaped(table, u)
<1> PICK n : n = Len(t)
  OBVIOUS
<1>1. n \in Nat /\ DOMAIN t = 1 .. n
  BY DEF Shaped
<1>2. DOMAIN u = DOMAIN t
  OBVIOUS
<1>3. u \in [1 .. n -> EntryType]
  BY <1>1, <1>2
<1>4. u \in Seq(EntryType)
  BY ONLY <1>1, <1>3
<1> QED BY <1>2, <1>4 DEF Shaped

(* The parts of a draft *)
LEMMA DraftFields ==
    ASSUME NEW table, NEW d \in DraftsOf(table)
    PROVE  /\ Shaped(table, d.table) /\ d.table \in Seq(EntryType)
           /\ \A k \in DOMAIN d.table : /\ d.table[k].method \in Methods
                                        /\ d.table[k] \in EntryType
           /\ d.taken \in SUBSET Nat /\ d.sound \in BOOLEAN /\ d.slot \in [Methods -> Nat]
           /\ Refused(d) \in DraftsOf(table)
<1>1. /\ Shaped(table, d.table) /\ d.table \in Seq(EntryType)
      /\ d.taken \in SUBSET Nat /\ d.sound \in BOOLEAN /\ d.slot \in [Methods -> Nat]
  BY DEF DraftsOf
<1>2. \A k \in DOMAIN d.table : d.table[k] \in EntryType
  BY <1>1, SeqElements
<1>3. \A k \in DOMAIN d.table : d.table[k].method \in Methods
  BY <1>2 DEF EntryType
<1>4. Refused(d) \in DraftsOf(table)
  BY DEF DraftsOf, Refused
<1> QED BY <1>1, <1>2, <1>3, <1>4

(* A draft with other parts is one. *)
LEMMA DraftOf ==
    ASSUME NEW table, NEW d \in DraftsOf(table), NEW t, Shaped(table, t),
           NEW taken \in SUBSET Nat, NEW places \in [Methods -> Nat]
    PROVE  [d EXCEPT !.table = t, !.taken = taken, !.slot = places] \in DraftsOf(table)
<1>1. t \in {s \in Seq(EntryType) : Shaped(table, s)}
  BY DEF Shaped
<1> QED BY <1>1 DEF DraftsOf

(* The offset looked up is there. *)
LEMMA OffsetOfIs ==
    ASSUME NEW offs \in Seq(OffsetType), NEW i \in InterfacesAt(offs)
    PROVE  OffsetOf(offs, i) \in Nat
<1> DEFINE I == {k \in 1 .. Len(offs) : offs[k].interface = i}
<1>1. DOMAIN offs = 1 .. Len(offs) /\ Len(offs) \in Nat
  OBVIOUS
<1>2. I # {} /\ I \in SUBSET Nat
  BY <1>1 DEF InterfacesAt
<1>3. SelectInSeq(offs, LAMBDA o : o.interface = i) = Min(I)
  BY <1>2 DEF SelectInSeq
<1>4. Min(I) \in I
  <2> HIDE DEF I
  <2> QED BY <1>2, MinIsLower
<1>5. Min(I) \in DOMAIN offs
  BY <1>1, <1>4
<1>6. OffsetOf(offs, i) = offs[Min(I)].offset
  BY <1>3 DEF OffsetOf
<1> HIDE DEF I
<1> QED BY <1>5, <1>6, OffsetsAre

(* The method found last is one of the sequence. *)
LEMMA LastMatchIn ==
    ASSUME NEW s \in Seq(Methods), NEW m, LastMatch(s, m) # 0
    PROVE  s[LastMatch(s, m)] \in Methods
<1> DEFINE I == {k \in 1 .. Len(s) : SameName(s[k], m)}
<1>1. Len(s) \in Nat /\ DOMAIN s = 1 .. Len(s) /\ \A k \in 1 .. Len(s) : s[k] \in Methods
  BY SeqElements
<1>2. LastMatch(s, m) = IF I # {} THEN Max(I) ELSE 0
  BY DEF LastMatch, SelectLastInSeq
<1>3. I # {} /\ I \in SUBSET (1 .. Len(s))
  BY <1>2
<1>4. Max(I) \in 1 .. Len(s)
  <2> HIDE DEF I
  <2> QED BY <1>1, <1>3, MaxIn
<1> QED BY <1>1, <1>2, <1>3, <1>4
------------------------------------------------------------------------------
(* The steps of setup_vtable_typedef keep the methods declared. *)
LEMMA RowKeeps ==
    ASSUME Metadata(program), NEW c \in Classes, NEW placed \in Seq(OffsetType), NEW table,
           NEW draft \in DraftsOf(table), NEW row \in [class : Classes, body : Methods, decl : Methods]
    PROVE  ApplyRow(placed, draft, row) \in DraftsOf(table)
<1> PICK d : d = row.decl
  OBVIOUS
<1> PICK at : at = draft.slot[d] + IF IsInterface(d[1]) THEN OffsetOf(placed, d[1]) ELSE 0
  OBVIOUS
<1>1. d \in Methods /\ row.body \in Methods /\ draft.slot[d] \in Nat
  BY DraftFields
<1>2. CASE /\ draft.sound
           /\ d[1] \in IF IsInterface(d[1]) THEN InterfacesAt(placed) ELSE Ancestors(row.class)
           /\ at \notin draft.taken
           /\ draft.table[at + 1].method = d
  <2> PICK off : off = IF IsInterface(d[1]) THEN OffsetOf(placed, d[1]) ELSE 0
    OBVIOUS
  <2>1. off \in Nat
    <3>1. IsInterface(d[1]) => OffsetOf(placed, d[1]) \in Nat
      BY <1>2, OffsetOfIs
    <3> QED BY <3>1
  <2>2. at \in Nat
    <3>1. at = draft.slot[d] + off
      OBVIOUS
    <3> QED BY ONLY <1>1, <2>1, <3>1
  <2> PICK t : t = draft.table
    OBVIOUS
  <2> PICK u : u = [t EXCEPT ![at + 1].impl = row.body]
    OBVIOUS
  <2>3. Shaped(table, t) /\ \A k \in DOMAIN t : t[k] \in EntryType
    BY DraftFields
  <2>4. u = [k \in DOMAIN t |-> u[k]]
    <3>1. t \in Seq(EntryType)
      BY DraftFields
    <3> QED BY <3>1
  <2>5. \A k \in DOMAIN t : u[k] \in EntryType /\ u[k].method = t[k].method
    BY <1>1, <2>3 DEF EntryType
  <2>6. Shaped(table, u)
    BY ONLY <2>3, <2>4, <2>5, ShapedAgain
  <2>7. draft.taken \cup {at} \in SUBSET Nat /\ draft.slot \in [Methods -> Nat]
    BY <2>2, DraftFields
  <2>8. [draft EXCEPT !.table = u, !.taken = draft.taken \cup {at}, !.slot = draft.slot] \in DraftsOf(table)
    BY <2>6, <2>7, DraftOf
  <2>9. ApplyRow(placed, draft, row) = [draft EXCEPT !.table[at + 1].impl = row.body, !.taken = @ \cup {at}]
    BY <1>2 DEF ApplyRow
  <2>10. [draft EXCEPT !.table[at + 1].impl = row.body, !.taken = @ \cup {at}]
         = [draft EXCEPT !.table = u, !.taken = draft.taken \cup {at}, !.slot = draft.slot]
    BY DEF DraftsOf
  <2> QED BY <2>8, <2>9, <2>10
<1>3. CASE ~ /\ draft.sound
             /\ d[1] \in IF IsInterface(d[1]) THEN InterfacesAt(placed) ELSE Ancestors(row.class)
             /\ at \notin draft.taken
             /\ draft.table[at + 1].method = d
  <2>1. ApplyRow(placed, draft, row) \in {draft, Refused(draft)}
    BY <1>3 DEF ApplyRow
  <2> QED BY <2>1, DraftFields
<1> QED BY <1>2, <1>3

(* One method without a new slot *)
LEMMA OverrideKeeps ==
    ASSUME Metadata(program), NEW c \in Classes, Parent(c) \in Classes, NEW table,
           NEW draft \in DraftsOf(table), NEW m \in Methods
    PROVE  Override(c, draft, m) \in DraftsOf(table)
<1> PICK methods : methods = Hierarchy(Parent(c))
  OBVIOUS
<1> PICK matched : matched = methods[LastMatch(methods, m)]
  OBVIOUS
<1> PICK at : at = draft.slot[matched]
  OBVIOUS
<1>1. methods \in Seq(Methods)
  BY HierarchyType
<1>2. CASE draft.sound /\ LastMatch(methods, m) # 0 /\ at \notin draft.taken
  <2>1. matched \in Methods
    BY <1>1, <1>2, LastMatchIn
  <2>2. at \in Nat
    BY <2>1, DraftFields
  <2> PICK t : t = draft.table
    OBVIOUS
  <2> DEFINE Taken(k) == k = at + 1 \/ (k <= Len(vtable[Parent(c)]) /\ t[k].impl = matched)
  <2> PICK u : u = [k \in DOMAIN t |-> IF Taken(k) THEN [t[k] EXCEPT !.impl = m] ELSE t[k]]
    OBVIOUS
  <2>3. Shaped(table, t) /\ \A k \in DOMAIN t : t[k] \in EntryType
    BY DraftFields
  <2>4. u = [k \in DOMAIN t |-> u[k]]
    <3> HIDE DEF Taken
    <3> QED OBVIOUS
  <2>5. \A k \in DOMAIN t : u[k] \in EntryType /\ u[k].method = t[k].method
    <3> HIDE DEF Taken
    <3> QED BY <2>3 DEF EntryType
  <2>6. Shaped(table, u)
    BY ONLY <2>3, <2>4, <2>5, ShapedAgain
  <2>7. draft.taken \in SUBSET Nat /\ [draft.slot EXCEPT ![m] = at] \in [Methods -> Nat]
    BY <2>2, DraftFields
  <2>8. [draft EXCEPT !.table = u, !.taken = draft.taken, !.slot = [draft.slot EXCEPT ![m] = at]] \in DraftsOf(table)
    BY <2>6, <2>7, DraftOf
  <2>9. Override(c, draft, m) =
            [draft EXCEPT !.slot[m] = at,
                          !.table = [k \in DOMAIN @ |->
                              IF \/ k = at + 1
                                 \/ k <= Len(vtable[Parent(c)]) /\ @[k].impl = matched
                              THEN [@[k] EXCEPT !.impl = m] ELSE @[k]]]
    BY <1>2 DEF Override
  <2>10. u = [k \in DOMAIN t |-> IF \/ k = at + 1
                                    \/ k <= Len(vtable[Parent(c)]) /\ t[k].impl = matched
                                 THEN [t[k] EXCEPT !.impl = m] ELSE t[k]]
    OBVIOUS
  <2>11. Override(c, draft, m) = [draft EXCEPT !.slot = [draft.slot EXCEPT ![m] = at], !.table = u]
    BY <2>9, <2>10
  <2>12. [draft EXCEPT !.slot = [draft.slot EXCEPT ![m] = at], !.table = u]
         = [draft EXCEPT !.table = u, !.taken = draft.taken, !.slot = [draft.slot EXCEPT ![m] = at]]
    BY DEF DraftsOf
  <2> QED BY <2>8, <2>11, <2>12
<1>3. CASE ~(draft.sound /\ LastMatch(methods, m) # 0 /\ at \notin draft.taken)
  <2>1. Override(c, draft, m) \in {draft, Refused(draft)}
    BY <1>3 DEF Override
  <2> QED BY <2>1, DraftFields
<1> QED BY <1>2, <1>3

(* New methods for the interfaces' slots *)
LEMMA NewSlotsKeep ==
    ASSUME Metadata(program), NEW c \in Classes, NEW placed, NEW table, NEW draft \in DraftsOf(table)
    PROVE  ApplyNewSlots(c, placed, draft) \in DraftsOf(table)
<1> PICK t : t = draft.table
  OBVIOUS
<1> DEFINE Matching(k) == {m \in ToSet(NewSlots(c)) : SameName(m, t[k].method)}
           Filled(k) == IF k \in ListedSlots(c, placed) /\ Matching(k) # {}
                        THEN [t[k] EXCEPT !.impl = OneOf(Matching(k))] ELSE t[k]
<1> PICK u : u = [k \in DOMAIN t |-> Filled(k)]
  OBVIOUS
<1>1. Shaped(table, t) /\ \A k \in DOMAIN t : t[k] \in EntryType
  BY DraftFields
<1>2. u = [k \in DOMAIN t |-> u[k]]
  <2> HIDE DEF Filled
  <2> QED OBVIOUS
<1>3. ASSUME NEW k \in DOMAIN t PROVE u[k] \in EntryType /\ u[k].method = t[k].method
  <2>1. u[k] = Filled(k)
    <3> HIDE DEF Filled
    <3> QED OBVIOUS
  <2>2. Matching(k) # {} => OneOf(Matching(k)) \in Methods
    <3>1. ToSet(NewSlots(c)) \subseteq Methods
      <4>1. NewSlots(c) \in Seq(Methods)
        BY NewSlotsAre
      <4> QED BY <4>1, SeqElements DEF ToSet
    <3>2. Matching(k) # {} => OneOf(Matching(k)) \in Matching(k)
      BY DEF OneOf
    <3> QED BY <3>1, <3>2
  <2> HIDE DEF Matching
  <2> QED BY <1>1, <2>1, <2>2 DEF EntryType
<1>4. Shaped(table, u)
  <2>1. \A k \in DOMAIN t : u[k] \in EntryType /\ u[k].method = t[k].method
    BY <1>3
  <2> QED BY ONLY <1>1, <1>2, <2>1, ShapedAgain
<1>5. [draft EXCEPT !.table = u, !.taken = draft.taken, !.slot = draft.slot] \in DraftsOf(table)
  BY <1>4, DraftOf, DraftFields
<1>6. ApplyNewSlots(c, placed, draft) = [draft EXCEPT !.table = u]
  BY DEF ApplyNewSlots
<1>7. [draft EXCEPT !.table = u] = [draft EXCEPT !.table = u, !.taken = draft.taken, !.slot = draft.slot]
  BY DEF DraftsOf
<1> QED BY <1>5, <1>6, <1>7

(* What is still empty *)
LEMMA FillKeeps ==
    ASSUME Metadata(program), NEW c \in Classes, NEW table, NEW draft \in DraftsOf(table)
    PROVE  FillEmpty(c, draft) \in DraftsOf(table)
<1> PICK t : t = draft.table
  OBVIOUS
<1> PICK methods : methods = Hierarchy(c)
  OBVIOUS
<1> PICK empty : empty = {k \in DOMAIN t : k > Len(vtable[Parent(c)]) /\ t[k].impl = NoMethod}
  OBVIOUS
<1> DEFINE Found(k) == LastMatch(methods, t[k].method)
<1>1. CASE draft.sound /\ \A k \in empty : Found(k) # 0
  <2> PICK u : u = [k \in DOMAIN t |-> IF k \in empty THEN [t[k] EXCEPT !.impl = methods[Found(k)]] ELSE t[k]]
    OBVIOUS
  <2>1. Shaped(table, t) /\ \A k \in DOMAIN t : t[k] \in EntryType
    BY DraftFields
  <2>2. u = [k \in DOMAIN t |-> u[k]]
    OBVIOUS
  <2>3. ASSUME NEW k \in DOMAIN t PROVE u[k] \in EntryType /\ u[k].method = t[k].method
    <3>1. k \in empty => methods[Found(k)] \in Methods
      BY <1>1, HierarchyType, LastMatchIn
    <3> HIDE DEF Found
    <3> QED BY <2>1, <3>1 DEF EntryType
  <2>4. Shaped(table, u)
    <3>1. \A k \in DOMAIN t : u[k] \in EntryType /\ u[k].method = t[k].method
      BY <2>3
    <3> QED BY ONLY <2>1, <2>2, <3>1, ShapedAgain
  <2>5. [draft EXCEPT !.table = u, !.taken = draft.taken, !.slot = draft.slot] \in DraftsOf(table)
    BY <2>4, DraftOf, DraftFields
  <2>6. FillEmpty(c, draft) = [draft EXCEPT !.table = u]
    BY <1>1 DEF FillEmpty
  <2>7. [draft EXCEPT !.table = u] = [draft EXCEPT !.table = u, !.taken = draft.taken, !.slot = draft.slot]
    BY DEF DraftsOf
  <2> QED BY <2>5, <2>6, <2>7
<1>2. CASE ~(draft.sound /\ \A k \in empty : Found(k) # 0)
  <2>1. FillEmpty(c, draft) = Refused(draft)
    BY <1>2 DEF FillEmpty
  <2> QED BY <2>1, DraftFields
<1> QED BY <1>1, <1>2

------------------------------------------------------------------------------
Rows(c) ==
    LET from == <<c>> \o Reverse(Interfaces(c))
    IN  FlattenSeq([k \in DOMAIN from |-> program[from[k]].impls])

(* The rows are pairs of methods. *)
LEMMA RowsAre ==
    ASSUME Metadata(program), NEW c \in Classes
    PROVE  Rows(c) \in Seq([class : Classes, body : Methods, decl : Methods])
<1> PICK is : is = Interfaces(c)
  OBVIOUS
<1> PICK n : n = Len(is)
  OBVIOUS
<1> PICK from : from = <<c>> \o Reverse(is)
  OBVIOUS
<1> PICK R : R = [class : Classes, body : Methods, decl : Methods]
  OBVIOUS
<1> PICK T : T = Seq(R)
  OBVIOUS
<1>1. n \in Nat /\ \A k \in 1 .. n : is[k] \in Classes
  BY InterfacesAre DEF Ifaces
<1>2. Reverse(is) \in Seq(Classes)
  <2>1. \A k \in 1 .. n : (n - k) + 1 \in 1 .. n
    BY <1>1
  <2>2. Reverse(is) = [k \in 1 .. n |-> is[(n - k) + 1]]
    BY DEF Reverse
  <2>3. Reverse(is) \in [1 .. n -> Classes]
    BY <1>1, <2>1, <2>2
  <2> PICK r : r = Reverse(is)
    OBVIOUS
  <2>4. r \in Seq(Classes)
    BY <1>1, <2>3
  <2> QED BY <2>4
<1>3. from \in Seq(Classes)
  <2> PICK r : r = Reverse(is)
    OBVIOUS
  <2>1. r \in Seq(Classes) /\ from = <<c>> \o r /\ <<c>> \in Seq(Classes)
    BY <1>2
  <2> QED BY ONLY <2>1, ConcatProperties
<1>4. DOMAIN from = 1 .. Len(from) /\ Len(from) \in Nat /\ \A k \in DOMAIN from : from[k] \in Classes
  BY <1>3, SeqElements
<1>5. \A k \in DOMAIN from : program[from[k]].impls \in T
  BY <1>4, ClassFacts
<1> PICK rows : rows = [k \in DOMAIN from |-> program[from[k]].impls]
  OBVIOUS
<1>6. rows \in Seq(T)
  <2>1. rows \in [1 .. Len(from) -> T]
    BY <1>4, <1>5
  <2> QED BY ONLY <1>4, <2>1
<1>7. FlattenSeq(rows) \in Seq(R)
  BY <1>6, FlattenType
<1> QED BY <1>7 DEF Rows

(* All the rows of MethodImpl, one after another *)
LEMMA RowsFolded ==
    ASSUME Metadata(program), NEW c \in Classes, NEW placed \in Seq(OffsetType), NEW table,
           NEW draft \in DraftsOf(table)
    PROVE  \E H : /\ H \in [0 .. Len(Rows(c)) -> DraftsOf(table)] /\ H[0] = draft
                 /\ \A k \in 1 .. Len(Rows(c)) : H[k] = ApplyRow(placed, H[k - 1], Rows(c)[k])
                 /\ ApplyMethodImpls(c, placed, draft) = H[Len(Rows(c))]
<1> PICK X : X = DraftsOf(table)
  OBVIOUS
<1> PICK s : s = Rows(c)
  OBVIOUS
<1> PICK n : n = Len(s)
  OBVIOUS
<1> DEFINE More(so, e) == ApplyRow(placed, so, e)
           step == [p \in (1 .. n) \X X |-> More(p[2], s[p[1]])]
           D(G) == G = [t \in SUBSET (DOMAIN s) |->
                           IF t = {} THEN draft ELSE More(G[t \ {Max(t)}], s[Max(t)])]
           U == CHOOSE G : D(G)
<1>1. /\ n \in Nat /\ DOMAIN s = 1 .. n /\ \A k \in 1 .. n : s[k] \in [class : Classes, body : Methods, decl : Methods]
  BY RowsAre, SeqElements
<1>2. draft \in X
  OBVIOUS
<1>3. \A so \in X, k \in 1 .. n : More(so, s[k]) \in X
  BY <1>1, RowKeeps
<1> HIDE DEF More
<1>4. step \in [(1 .. n) \X X -> X] /\ \A so \in X, k \in 1 .. n : step[<<k, so>>] = More(so, s[k])
  <2>1. ASSUME NEW p \in (1 .. n) \X X PROVE More(p[2], s[p[1]]) \in X
    BY <1>3
  <2> QED BY <2>1
<1>5. \E G : D(G)
  <2>1. PICK G : Folds(G, n, X, draft, step)
    <3>1. n \in Nat /\ draft \in X /\ step \in [(1 .. n) \X X -> X]
      BY <1>1, <1>2, <1>4
    <3> HIDE DEF step
    <3> QED BY ONLY <3>1, FoldExists
  <2>2. ASSUME NEW t \in SUBSET (1 .. n)
        PROVE  G[t] = IF t = {} THEN draft ELSE More(G[t \ {Max(t)}], s[Max(t)])
    <3>1. t # {} => Max(t) \in 1 .. n
      BY <1>1, MaxIn
    <3>2. G[t \ {Max(t)}] \in X
      <4>1. t \ {Max(t)} \in SUBSET (1 .. n)
        OBVIOUS
      <4> QED BY <2>1, <4>1 DEF Folds
    <3> HIDE DEF step
    <3> QED BY <1>4, <2>1, <3>1, <3>2 DEF Folds
  <2>3. D(G)
    <3> HIDE DEF step
    <3> QED BY <1>1, <2>1, <2>2 DEF Folds
  <2> QED BY <2>3
<1>6. D(U)
  <2> HIDE DEF D
  <2> QED BY <1>5
<1>7. ApplyMethodImpls(c, placed, draft) = U[DOMAIN s]
  BY DEF ApplyMethodImpls, Rows, FoldLeft, MapThenFoldSet, More
<1>8. PICK H : Counts(H, n, X, draft, step) /\ U[1 .. n] = H[n]
  <2>1. U[{}] = draft
    BY <1>6
  <2>2. ASSUME NEW t \in (SUBSET (1 .. n)) \ {{}}, U[t \ {Max(t)}] \in X
        PROVE  U[t] = step[<<Max(t), U[t \ {Max(t)}]>>]
    <3>1. Max(t) \in 1 .. n
      BY <1>1, MaxIn
    <3>2. U[t] = More(U[t \ {Max(t)}], s[Max(t)])
      <4>1. t \in SUBSET (DOMAIN s) /\ t # {}
        BY <1>1
      <4> HIDE DEF U
      <4> QED BY <1>6, <4>1
    <3> HIDE DEF step, U
    <3> QED BY <1>4, <2>2, <3>1, <3>2
  <2>3. n \in Nat /\ draft \in X /\ step \in [(1 .. n) \X X -> X]
    BY <1>1, <1>2, <1>4
  <2> HIDE DEF step, U, D
  <2>4. FoldsOnward(U, n, X, draft, step)
    BY <2>1, <2>2 DEF FoldsOnward
  <2>5. FoldedTo(U, n, X, draft, step)
    BY ONLY <2>3, <2>4, FoldResult
  <2> QED BY <2>5 DEF FoldedTo
<1> HIDE DEF U, D, step
<1>9. H \in [0 .. n -> X] /\ H[0] = draft
  BY <1>8 DEF Counts
<1>10. ASSUME NEW k \in 1 .. n PROVE H[k] = More(H[k - 1], s[k])
  <2>1. k - 1 \in 0 .. n
    BY <1>1
  <2> QED BY <1>4, <1>8, <1>9, <2>1 DEF Counts
<1> QED BY <1>1, <1>7, <1>8, <1>9, <1>10 DEF More

(* They keep the methods declared. *)
LEMMA RowsKeep ==
    ASSUME Metadata(program), NEW c \in Classes, NEW placed \in Seq(OffsetType), NEW table,
           NEW draft \in DraftsOf(table)
    PROVE  ApplyMethodImpls(c, placed, draft) \in DraftsOf(table)
<1>1. Len(Rows(c)) \in 0 .. Len(Rows(c))
  BY RowsAre, SeqElements
<1> QED BY <1>1, RowsFolded

OverridesFold(c, table, draft, H) ==
    /\ H \in [0 .. Len(Own(c)) -> DraftsOf(table)] /\ H[0] = draft
    /\ \A k \in 1 .. Len(Own(c)) :
           H[k] = IF Info(Own(c)[k]).newSlot THEN H[k - 1] ELSE Override(c, H[k - 1], Own(c)[k])
    /\ ApplyOverrides(c, draft) = H[Len(Own(c))]

(* All the methods without a new slot, one after another *)
LEMMA OverridesFolded ==
    ASSUME Metadata(program), NEW c \in Classes, Parent(c) \in Classes, NEW table,
           NEW draft \in DraftsOf(table)
    PROVE  \E H : OverridesFold(c, table, draft, H)
<1> PICK X : X = DraftsOf(table)
  OBVIOUS
<1> PICK s : s = Own(c)
  OBVIOUS
<1> PICK n : n = Len(s)
  OBVIOUS
<1> DEFINE More(so, e) == IF Info(e).newSlot THEN so ELSE Override(c, so, e)
           step == [p \in (1 .. n) \X X |-> More(p[2], s[p[1]])]
           D(G) == G = [t \in SUBSET (DOMAIN s) |->
                           IF t = {} THEN draft ELSE More(G[t \ {Max(t)}], s[Max(t)])]
           U == CHOOSE G : D(G)
<1>1. /\ n \in Nat /\ DOMAIN s = 1 .. n /\ \A k \in 1 .. n : s[k] \in Methods
  BY MethodsAre, SeqElements
<1>2. draft \in X
  OBVIOUS
<1>3. \A so \in X, k \in 1 .. n : More(so, s[k]) \in X
  BY <1>1, OverrideKeeps
<1> HIDE DEF More
<1>4. step \in [(1 .. n) \X X -> X] /\ \A so \in X, k \in 1 .. n : step[<<k, so>>] = More(so, s[k])
  <2>1. ASSUME NEW p \in (1 .. n) \X X PROVE More(p[2], s[p[1]]) \in X
    BY <1>3
  <2> QED BY <2>1
<1>5. \E G : D(G)
  <2>1. PICK G : Folds(G, n, X, draft, step)
    <3>1. n \in Nat /\ draft \in X /\ step \in [(1 .. n) \X X -> X]
      BY <1>1, <1>2, <1>4
    <3> HIDE DEF step
    <3> QED BY ONLY <3>1, FoldExists
  <2>2. ASSUME NEW t \in SUBSET (1 .. n)
        PROVE  G[t] = IF t = {} THEN draft ELSE More(G[t \ {Max(t)}], s[Max(t)])
    <3>1. t # {} => Max(t) \in 1 .. n
      BY <1>1, MaxIn
    <3>2. G[t \ {Max(t)}] \in X
      <4>1. t \ {Max(t)} \in SUBSET (1 .. n)
        OBVIOUS
      <4> QED BY <2>1, <4>1 DEF Folds
    <3> HIDE DEF step
    <3> QED BY <1>4, <2>1, <3>1, <3>2 DEF Folds
  <2>3. D(G)
    <3> HIDE DEF step
    <3> QED BY <1>1, <2>1, <2>2 DEF Folds
  <2> QED BY <2>3
<1>6. D(U)
  <2> HIDE DEF D
  <2> QED BY <1>5
<1>7. ApplyOverrides(c, draft) = U[DOMAIN s]
  BY DEF ApplyOverrides, FoldLeft, MapThenFoldSet, More
<1>8. PICK H : Counts(H, n, X, draft, step) /\ U[1 .. n] = H[n]
  <2>1. U[{}] = draft
    BY <1>6
  <2>2. ASSUME NEW t \in (SUBSET (1 .. n)) \ {{}}, U[t \ {Max(t)}] \in X
        PROVE  U[t] = step[<<Max(t), U[t \ {Max(t)}]>>]
    <3>1. Max(t) \in 1 .. n
      BY <1>1, MaxIn
    <3>2. U[t] = More(U[t \ {Max(t)}], s[Max(t)])
      <4>1. t \in SUBSET (DOMAIN s) /\ t # {}
        BY <1>1
      <4> HIDE DEF U
      <4> QED BY <1>6, <4>1
    <3> HIDE DEF step, U
    <3> QED BY <1>4, <2>2, <3>1, <3>2
  <2>3. n \in Nat /\ draft \in X /\ step \in [(1 .. n) \X X -> X]
    BY <1>1, <1>2, <1>4
  <2> HIDE DEF step, U, D
  <2>4. FoldsOnward(U, n, X, draft, step)
    BY <2>1, <2>2 DEF FoldsOnward
  <2>5. FoldedTo(U, n, X, draft, step)
    BY ONLY <2>3, <2>4, FoldResult
  <2> QED BY <2>5 DEF FoldedTo
<1> HIDE DEF U, D, step
<1>9. H \in [0 .. n -> X] /\ H[0] = draft
  BY <1>8 DEF Counts
<1>10. ASSUME NEW k \in 1 .. n PROVE H[k] = More(H[k - 1], s[k])
  <2>1. k - 1 \in 0 .. n
    BY <1>1
  <2> QED BY <1>4, <1>8, <1>9, <2>1 DEF Counts
<1> QED BY <1>1, <1>7, <1>8, <1>9, <1>10 DEF More, OverridesFold

(* They keep the methods declared, too. *)
LEMMA OverridesKeep ==
    ASSUME Metadata(program), NEW c \in Classes, Parent(c) \in Classes, NEW table,
           NEW draft \in DraftsOf(table)
    PROVE  ApplyOverrides(c, draft) \in DraftsOf(table)
<1>1. Len(Own(c)) \in 0 .. Len(Own(c))
  BY OwnMethods
<1> QED BY <1>1, OverridesFolded DEF OverridesFold

------------------------------------------------------------------------------
(* What setting up a class leaves: its offsets and its table *)
NewTable(c, offs, t) ==
    /\ offs \in Seq(OffsetType)
    /\ t \in Seq(EntryType)
    /\ Agrees(offs, t)
    /\ NoneTwice(t)
    /\ MethodsOf(t, Ancestors(c) \cup InterfacesAt(offs))
    /\ PlacedOnce(offs)
    /\ Parent(c) = NoClass => offs = <<>>
    /\ Parent(c) # NoClass =>
           /\ Longer(offs, offsets[Parent(c)])
           /\ Len(vtable[Parent(c)]) <= Len(t)
           /\ \A k \in DOMAIN vtable[Parent(c)] : t[k].method = vtable[Parent(c)][k].method
           /\ InterfacesAt(offs) = InterfacesAt(offsets[Parent(c)]) \cup ToSet(Interfaces(c))

(* The new slots are of the class's own methods, once each. *)
LEMMA EntriesAre ==
    ASSUME Metadata(program), NEW c \in Classes
    PROVE  /\ Entries(NewSlots(c)) \in Seq(EntryType)
           /\ NoneTwice(Entries(NewSlots(c))) /\ MethodsOf(Entries(NewSlots(c)), {c})
           /\ Len(Entries(NewSlots(c))) = Len(NewSlots(c))
<1> PICK s : s = NewSlots(c)
  OBVIOUS
<1>1. /\ s \in Seq(Methods) /\ ToSet(s) \subseteq ToSet(Own(c))
      /\ \A j, k \in DOMAIN s : s[j] = s[k] => j = k
  BY NewSlotsAre
<1>2. DOMAIN s = 1 .. Len(s) /\ Len(s) \in Nat /\ \A k \in DOMAIN s : s[k] \in Methods
  BY <1>1, SeqElements
<1>3. \A k \in DOMAIN s : s[k][1] = c
  BY <1>1, MethodsAre DEF ToSet
<1>4. \A m \in Methods : Entry(m) \in EntryType /\ Entry(m).method = m
  BY DEF Entry, EntryType
<1> PICK t : t = Entries(s)
  OBVIOUS
<1>5. DOMAIN t = 1 .. Len(s) /\ t = [k \in DOMAIN s |-> Entry(s[k])]
  BY <1>2 DEF Entries
<1>6. \A k \in 1 .. Len(s) : t[k] = Entry(s[k]) /\ t[k] \in EntryType /\ t[k].method = s[k]
  BY <1>2, <1>4, <1>5
<1>7. t \in [1 .. Len(s) -> EntryType]
  BY <1>2, <1>5, <1>6
<1>8. t \in Seq(EntryType) /\ Len(t) = Len(s)
  <2>1. t \in Seq(EntryType)
    BY ONLY <1>2, <1>7
  <2> QED BY <1>2, <1>5, <2>1
<1>9. NoneTwice(t) /\ MethodsOf(t, {c})
  BY <1>1, <1>2, <1>3, <1>5, <1>6 DEF NoneTwice, MethodsOf
<1> QED BY <1>8, <1>9

(* The table of System.Object or of an interface *)
LEMMA RootSetUp ==
    ASSUME Metadata(program), NEW c \in Classes, Parent(c) = NoClass
    PROVE  NewTable(c, <<>>, Entries(NewSlots(c)))
<1> PICK t : t = Entries(NewSlots(c))
  OBVIOUS
<1>1. t \in Seq(EntryType) /\ NoneTwice(t) /\ MethodsOf(t, {c})
  BY EntriesAre
<1>2. Ancestors(c) = {c}
  BY AncestorsUnfolded
<1>3. InterfacesAt(<<>>) = {} /\ Agrees(<<>>, t) /\ PlacedOnce(<<>>) /\ <<>> \in Seq(OffsetType)
  BY DEF InterfacesAt, Agrees, PlacedOnce
<1> QED BY <1>1, <1>2, <1>3 DEF NewTable

(* A class without methods and interfaces has its parent's. *)
LEMMA InheritedSetUp ==
    ASSUME Metadata(program), TablesType, NEW c \in Classes, Parent(c) # NoClass, TableFine(Parent(c)),
           Interfaces(c) = <<>>
    PROVE  NewTable(c, offsets[Parent(c)], vtable[Parent(c)])
<1> PICK offs : offs = offsets[Parent(c)]
  OBVIOUS
<1> PICK t : t = vtable[Parent(c)]
  OBVIOUS
<1>1. Parent(c) \in Classes
  BY ClassFacts
<1>2. offs \in Seq(OffsetType) /\ t \in Seq(EntryType) /\ Len(offs) \in Nat /\ Len(t) \in Nat
  BY <1>1 DEF TablesType
<1>3. Agrees(offs, t) /\ NoneTwice(t) /\ PlacedOnce(offs)
  BY DEF TableFine
<1>4. MethodsOf(t, Ancestors(c) \cup InterfacesAt(offs))
  <2>1. MethodsOf(t, Ancestors(Parent(c)) \cup InterfacesAt(offs))
    BY DEF TableFine
  <2>2. Ancestors(Parent(c)) \subseteq Ancestors(c)
    BY AncestorsUnfolded
  <2> QED BY <2>1, <2>2 DEF MethodsOf
<1>5. Longer(offs, offs)
  BY <1>2 DEF Longer
<1>6. ToSet(Interfaces(c)) = {}
  BY DEF ToSet
<1>7. Len(t) <= Len(t)
  BY <1>2
<1> QED BY <1>2, <1>3, <1>4, <1>5, <1>6, <1>7 DEF NewTable

(* The first table is already one of the shape wanted. *)
LEMMA FirstTableIs ==
    ASSUME Metadata(program), TablesType, NEW c \in Classes, Parent(c) # NoClass, TableFine(Parent(c)),
           \A i \in ToSet(Interfaces(c)) : TableFine(i)
    PROVE  NewTable(c, InterfaceOffsets(c), FirstTable(c, InterfaceOffsets(c)))
<1> PICK offs : offs = InterfaceOffsets(c)
  OBVIOUS
<1> PICK b : b = Base(c, offs)
  OBVIOUS
<1> PICK w : w = Entries(NewSlots(c))
  OBVIOUS
<1> PICK inherited : inherited = offsets[Parent(c)]
  OBVIOUS
<1> PICK v : v = vtable[Parent(c)]
  OBVIOUS
<1> PICK n : n = Len(Interfaces(c))
  OBVIOUS
<1>1. PICK s : OffsetsFine(c, n, s) /\ offs = s.offsets
  BY InterfacesPlaced
<1>2. Parent(c) \in Classes \ Ifaces /\ c \notin Ifaces
  BY ClassFacts
<1>3. /\ offs \in Seq(OffsetType)
      /\ Len(inherited) <= Len(offs) /\ \A k \in DOMAIN inherited : offs[k] = inherited[k]
      /\ Len(v) <= Len(b) /\ \A k \in DOMAIN v : b[k] = v[k]
      /\ InterfacesAt(offs) = InterfacesAt(inherited) \cup {Interfaces(c)[k] : k \in 1 .. n}
      /\ PlacedOnce(offs) /\ Agrees(offs, b) /\ NoneTwice(b)
      /\ MethodsOf(b, Ancestors(Parent(c)) \cup InterfacesAt(offs))
  BY <1>1 DEF OffsetsFine
<1>4. b \in Seq(EntryType)
  BY <1>2, <1>3, BaseType
<1>5. w \in Seq(EntryType) /\ NoneTwice(w) /\ MethodsOf(w, {c})
  BY EntriesAre
<1> PICK classes : classes = Ancestors(Parent(c)) \cup InterfacesAt(offs)
  OBVIOUS
<1>6. c \notin classes
  <2>1. InterfacesAt(offs) \subseteq Ifaces
    BY <1>3, OffsetsAre DEF InterfacesAt
  <2> QED BY <1>2, <2>1, NoneAboveItself
<1> PICK t : t = b \o w
  OBVIOUS
<1>7. /\ t \in Seq(EntryType) /\ Agrees(offs, t) /\ NoneTwice(t)
      /\ MethodsOf(t, classes \cup {c}) /\ Longer(t, b)
  <2>1. MethodsOf(b, classes)
    BY <1>3
  <2>2. /\ b \o w \in Seq(EntryType) /\ Agrees(offs, b \o w) /\ NoneTwice(b \o w)
        /\ MethodsOf(b \o w, classes \cup {c}) /\ Longer(b \o w, b)
    BY <1>3, <1>4, <1>5, <1>6, <2>1, EntriesBehind
  <2> QED BY <2>2
<1>8. FirstTable(c, offs) = t
  BY DEF FirstTable, Base, Behind
<1>9. classes \cup {c} = Ancestors(c) \cup InterfacesAt(offs)
  BY AncestorsUnfolded
<1>10. MethodsOf(t, Ancestors(c) \cup InterfacesAt(offs))
  BY <1>7, <1>9
<1>11. Longer(offs, inherited)
  BY <1>3 DEF Longer
<1>12. Len(v) <= Len(t) /\ \A k \in DOMAIN v : t[k].method = v[k].method
  <2>1. v \in Seq(EntryType)
    BY <1>2 DEF TablesType
  <2>2. /\ Len(v) \in Nat /\ Len(b) \in Nat /\ Len(t) \in Nat
        /\ DOMAIN v = 1 .. Len(v) /\ DOMAIN b = 1 .. Len(b)
    BY <1>4, <1>7, <2>1
  <2>3. Len(b) <= Len(t) /\ \A k \in DOMAIN b : t[k] = b[k]
    BY <1>7 DEF Longer
  <2>4. Len(v) <= Len(b) /\ \A k \in DOMAIN v : b[k] = v[k]
    BY <1>3
  <2>5. Len(v) <= Len(t)
    BY ONLY <2>2, <2>3, <2>4
  <2>6. \A k \in DOMAIN v : k \in DOMAIN b
    BY ONLY <2>2, <2>4
  <2>7. \A k \in DOMAIN v : t[k] = v[k]
    BY ONLY <2>3, <2>4, <2>6
  <2> QED BY <2>5, <2>7
<1>13. InterfacesAt(offs) = InterfacesAt(inherited) \cup ToSet(Interfaces(c))
  <2>1. DOMAIN Interfaces(c) = 1 .. n
    BY InterfacesAre
  <2>2. ToSet(Interfaces(c)) = {Interfaces(c)[k] : k \in 1 .. n}
    BY <2>1 DEF ToSet
  <2> QED BY <1>3, <2>2
<1>14. NewTable(c, offs, t)
  BY <1>3, <1>7, <1>10, <1>11, <1>12, <1>13 DEF NewTable
<1> QED BY <1>8, <1>14

(* The same goes for all tables of that shape. *)
LEMMA ShapedTable ==
    ASSUME TablesType, NEW c, NEW offs, NEW first, NEW t, NewTable(c, offs, first), Shaped(first, t)
    PROVE  NewTable(c, offs, t)
<1>1. t \in Seq(EntryType) /\ DOMAIN t = DOMAIN first /\ first \in Seq(EntryType)
      /\ \A k \in DOMAIN first : t[k].method = first[k].method
  BY DEF Shaped, NewTable
<1>2. Len(t) = Len(first) /\ Len(t) \in Nat /\ DOMAIN t = 1 .. Len(t)
  BY <1>1
<1>3. offs \in Seq(OffsetType) /\ Agrees(offs, first)
  BY DEF NewTable
<1>4. Agrees(offs, t)
  <2> SUFFICES ASSUME NEW k \in DOMAIN offs
               PROVE  /\ offs[k].offset + Len(vtable[offs[k].interface]) <= Len(t)
                      /\ \A j \in DOMAIN vtable[offs[k].interface] :
                             t[offs[k].offset + j].method = vtable[offs[k].interface][j].method
    BY DEF Agrees
  <2> PICK x : x = vtable[offs[k].interface]
    OBVIOUS
  <2> PICK at : at = offs[k].offset
    OBVIOUS
  <2>1. at + Len(x) <= Len(first) /\ \A j \in DOMAIN x : first[at + j].method = x[j].method
    BY <1>3 DEF Agrees
  <2>2. x \in Seq(EntryType) /\ at \in Nat
    BY <1>3, OffsetsAre DEF TablesType
  <2>3. Len(x) \in Nat /\ DOMAIN x = 1 .. Len(x)
    BY <2>2
  <2>4. \A j \in DOMAIN x : at + j \in 1 .. Len(t)
    BY <1>2, <2>1, <2>2, <2>3
  <2> QED BY <1>1, <1>2, <2>1, <2>4
<1> QED BY <1>1, <1>2, <1>4 DEF NewTable, NoneTwice, MethodsOf
------------------------------------------------------------------------------
(* Slots are numbers. *)
LEMMA Numbered ==
    ASSUME TablesType, NEW first \in Int, first >= -1, NEW s \in Seq(Methods)
    PROVE  NumberedFrom(first, s) \in [Methods -> Nat]
<1>1. ASSUME NEW m \in Methods
      PROVE  (IF m \in ToSet(s) THEN first + CHOOSE k \in DOMAIN s : s[k] = m ELSE slot[m]) \in Nat
  <2>1. CASE m \in ToSet(s)
    <3> PICK j : j = CHOOSE k \in DOMAIN s : s[k] = m
      OBVIOUS
    <3>1. \E k \in DOMAIN s : s[k] = m
      BY <2>1 DEF ToSet
    <3>2. j \in DOMAIN s
      BY <3>1
    <3>3. j \in 1 .. Len(s) /\ Len(s) \in Nat
      BY <3>2
    <3>4. first + j \in Nat
      BY <3>3
    <3> QED BY <2>1, <3>4
  <2>2. CASE m \notin ToSet(s)
    BY <2>2 DEF TablesType
  <2> QED BY <2>1, <2>2
<1> QED BY <1>1 DEF NumberedFrom

(* The steps begin with the first table. *)
LEMMA DraftBegins ==
    ASSUME Metadata(program), TablesType, NEW c \in Classes, NEW placed,
           NewTable(c, placed, FirstTable(c, placed)), Parent(c) \in Classes
    PROVE  Draft(c, placed) \in DraftsOf(FirstTable(c, placed))
<1> PICK table : table = FirstTable(c, placed)
  OBVIOUS
<1> PICK b : b = Base(c, placed)
  OBVIOUS
<1> PICK s : s = NewSlots(c)
  OBVIOUS
<1> PICK w : w = Entries(s)
  OBVIOUS
<1>1. s \in Seq(Methods) /\ w \in Seq(EntryType) /\ Len(w) = Len(s) /\ Len(s) \in Nat
  <2>1. s \in Seq(Methods)
    BY NewSlotsAre
  <2>2. Len(s) \in Nat
    BY <2>1
  <2>3. w \in Seq(EntryType) /\ Len(w) = Len(s)
    BY EntriesAre
  <2> QED BY <2>1, <2>2, <2>3
<1>2. table = b \o w
  BY DEF FirstTable, Base, Behind
<1>3. b \in Seq(EntryType)
  BY BaseType DEF NewTable
<1>4. Len(table) = Len(b) + Len(s) /\ Len(b) \in Nat
  <2>1. w \in Seq(EntryType) /\ Len(w) = Len(s)
    BY <1>1
  <2>2. Len(b \o w) = Len(b) + Len(w) /\ Len(b) \in Nat
    BY ONLY <1>3, <2>1
  <2> QED BY <1>2, <2>1, <2>2
<1> PICK first : first = Len(table) - Len(s) - 1
  OBVIOUS
<1>5. first \in Int /\ first >= -1
  BY <1>1, <1>4
<1>6. NumberedFrom(first, s) \in [Methods -> Nat]
  BY <1>1, <1>5, Numbered
<1>7. table \in Seq(EntryType) /\ Shaped(table, table)
  BY DEF NewTable, Shaped
<1> QED BY <1>6, <1>7 DEF Draft, DraftsOf

(* And they end with one like it. *)
LEMMA FinishedIs ==
    ASSUME Metadata(program), TablesType, NEW c \in Classes, Parent(c) # NoClass, TableFine(Parent(c)),
           \A i \in ToSet(Interfaces(c)) : TableFine(i)
    PROVE  /\ NewTable(c, InterfaceOffsets(c), Finished(c, InterfaceOffsets(c)).table)
           /\ Finished(c, InterfaceOffsets(c)).slot \in [Methods -> Nat]
           /\ InterfaceOffsets(c) \in Seq(OffsetType)
<1> PICK placed : placed = InterfaceOffsets(c)
  OBVIOUS
<1> PICK table : table = FirstTable(c, placed)
  OBVIOUS
<1>1. Parent(c) \in Classes
  BY ClassFacts
<1>2. NewTable(c, placed, table) /\ placed \in Seq(OffsetType)
  <2>1. NewTable(c, placed, table)
    BY FirstTableIs
  <2> QED BY <2>1 DEF NewTable
<1>3. Draft(c, placed) \in DraftsOf(table)
  BY <1>1, <1>2, DraftBegins
<1>4. ApplyMethodImpls(c, placed, Draft(c, placed)) \in DraftsOf(table)
  BY <1>2, <1>3, RowsKeep
<1>5. ApplyOverrides(c, ApplyMethodImpls(c, placed, Draft(c, placed))) \in DraftsOf(table)
  BY <1>1, <1>4, OverridesKeep
<1>6. ApplyNewSlots(c, placed, ApplyOverrides(c, ApplyMethodImpls(c, placed, Draft(c, placed)))) \in DraftsOf(table)
  BY <1>5, NewSlotsKeep
<1>7. Finished(c, placed) \in DraftsOf(table)
  BY <1>6, FillKeeps DEF Finished
<1>8. Shaped(table, Finished(c, placed).table) /\ Finished(c, placed).slot \in [Methods -> Nat]
  BY <1>7, DraftFields
<1>9. NewTable(c, placed, Finished(c, placed).table)
  BY <1>2, <1>8, ShapedTable
<1> QED BY <1>2, <1>8, <1>9

------------------------------------------------------------------------------
(***************************************************************************)
(* The invariant.                                                          *)
(***************************************************************************)
Needs(c) == <<Parent(c)>> \o Interfaces(c)

CallType == [class : Classes, served : Nat]

(* Each call waits for the one above it, and what it was served is ready. *)
Waits(s, k) ==
    k # Len(s) => /\ s[k].served \in DOMAIN Needs(s[k].class)
                  /\ s[k + 1].class = Needs(s[k].class)[s[k].served]

Served(s, k, ready) ==
    /\ s[k].served <= Len(Needs(s[k].class))
    /\ \A j \in 1 .. s[k].served :
           \/ k # Len(s) /\ j = s[k].served
           \/ Needs(s[k].class)[j] \in ready \cup {NoClass}

CallsFine(s, ready) ==
    /\ s \in Seq(CallType)
    /\ \A j, k \in DOMAIN s : s[j].class = s[k].class => j = k
    /\ \A k \in DOMAIN s : Waits(s, k) /\ Served(s, k, ready)

ReadyIsClosed ==
    \A c \in Ready : /\ Parent(c) \in Ready \cup {NoClass}
                     /\ InterfacesAt(offsets[c]) \subseteq Ready
                     /\ TableFine(c)

TablesInv ==
    /\ program \in Programs
    /\ initialized \subseteq Classes
    /\ InProgress \subseteq initialized
    /\ refused \subseteq initialized
    /\ refused # {} => calls = <<>>
    /\ CallsFine(calls, Ready)
    /\ TablesType
    /\ \A c \in Classes : Parent(c) = NoClass => offsets[c] = <<>>
    /\ ReadyIsClosed
------------------------------------------------------------------------------
(* What depends on the metadata alone stays. *)
LEMMA ProgramKept ==
    ASSUME program' = program
    PROVE  /\ Classes' = Classes /\ Methods' = Methods /\ Ifaces' = Ifaces
           /\ EntryType' = EntryType /\ OffsetType' = OffsetType
           /\ \A c : /\ Parent(c)' = Parent(c) /\ Interfaces(c)' = Interfaces(c)
                     /\ Needs(c)' = Needs(c) /\ Ancestors(c)' = Ancestors(c)
<1>1. Classes' = Classes
  BY DEF Classes
<1>2. Methods' = Methods /\ Ifaces' = Ifaces
  BY DEF Methods, Own, Classes, Ifaces, IsInterface
<1>3. EntryType' = EntryType /\ OffsetType' = OffsetType
  BY <1>2 DEF EntryType, OffsetType
<1>4. Line' = Line
  BY DEF Line, Classes, Parent
<1>5. ASSUME NEW c PROVE Parent(c)' = Parent(c) /\ Interfaces(c)' = Interfaces(c)
  BY DEF Parent, Interfaces
<1>6. ASSUME NEW c PROVE Needs(c)' = Needs(c)
  BY <1>5 DEF Needs
<1>7. ASSUME NEW c PROVE Ancestors(c)' = Ancestors(c)
  BY <1>4 DEF Ancestors
<1> QED BY <1>1, <1>2, <1>3, <1>5, <1>6, <1>7

(* The classes of D keep their tables. *)
Kept(D) == \A k \in D : vtable'[k] = vtable[k] /\ offsets'[k] = offsets[k]

(* Offsets still agree where the interfaces keep their tables. *)
LEMMA AgreesKept ==
    ASSUME NEW D, Kept(D), NEW offs, InterfacesAt(offs) \subseteq D, NEW t, Agrees(offs, t),
           NEW c, vtable'[c] = t, offsets'[c] = offs
    PROVE  Agrees(offsets[c], vtable[c])'
<1>1. \A k \in DOMAIN offs : vtable'[offs[k].interface] = vtable[offs[k].interface]
  BY DEF Kept, InterfacesAt
<1>2. ASSUME NEW k \in DOMAIN offs
      PROVE  /\ offs[k].offset + Len(vtable'[offs[k].interface]) <= Len(t)
             /\ \A j \in DOMAIN vtable'[offs[k].interface] :
                    t[offs[k].offset + j].method = vtable'[offs[k].interface][j].method
  BY <1>1 DEF Agrees
<1> QED BY <1>2 DEF Agrees

(* A class keeps what it has while those it refers to do. *)
LEMMA TableKept ==
    ASSUME program' = program, NEW D, Kept(D), NEW c \in D, Parent(c) \in D \cup {NoClass},
           InterfacesAt(offsets[c]) \subseteq D, TableFine(c)
    PROVE  TableFine(c)'
<1> PICK t : t = vtable[c]
  OBVIOUS
<1> PICK offs : offs = offsets[c]
  OBVIOUS
<1>1. vtable'[c] = t /\ offsets'[c] = offs
  BY DEF Kept
<1>2. /\ Parent(c)' = Parent(c) /\ Interfaces(c)' = Interfaces(c) /\ Ancestors(c)' = Ancestors(c)
  BY ProgramKept
<1>3. Agrees(offsets[c], vtable[c])'
  <2>1. Agrees(offs, t)
    BY DEF TableFine
  <2>2. InterfacesAt(offs) \subseteq D
    OBVIOUS
  <2> QED BY <1>1, <2>1, <2>2, AgreesKept
<1>4. InterfacesAt(offsets[c])' = InterfacesAt(offsets[c])
  BY <1>1 DEF InterfacesAt
<1>5. NoneTwice(vtable[c])' /\ PlacedOnce(offsets[c])'
  BY <1>1 DEF TableFine, NoneTwice, PlacedOnce
<1>6. MethodsOf(vtable[c], Ancestors(c) \cup InterfacesAt(offsets[c]))'
  BY <1>1, <1>2, <1>4 DEF TableFine, MethodsOf
<1>7. Parent(c) # NoClass => Extends(c, Parent(c))'
  BY <1>1, <1>2 DEF TableFine, Extends, Kept
<1>8. /\ Parent(c)' = NoClass => offsets'[c] = <<>>
      /\ ToSet(Interfaces(c))' \subseteq InterfacesAt(offsets[c])'
  <2>1. ToSet(Interfaces(c))' = ToSet(Interfaces(c))
    BY <1>2 DEF ToSet
  <2> QED BY <1>1, <1>2, <1>4, <2>1 DEF TableFine
<1> QED BY <1>2, <1>3, <1>5, <1>6, <1>7, <1>8 DEF TableFine

(* A class has it when it has just been set up. *)
LEMMA TableMade ==
    ASSUME program' = program, NEW D, Kept(D), NEW c, NEW offs, NEW t, NewTable(c, offs, t),
           Parent(c) \in D \cup {NoClass}, InterfacesAt(offs) \subseteq D,
           vtable'[c] = t, offsets'[c] = offs
    PROVE  TableFine(c)'
<1>1. /\ Parent(c)' = Parent(c) /\ Interfaces(c)' = Interfaces(c) /\ Ancestors(c)' = Ancestors(c)
  BY ProgramKept
<1>2. Agrees(offsets[c], vtable[c])'
  <2>1. Agrees(offs, t)
    BY DEF NewTable
  <2> QED BY <2>1, AgreesKept
<1>3. InterfacesAt(offsets[c])' = InterfacesAt(offs)
  BY DEF InterfacesAt
<1>4. NoneTwice(vtable[c])' /\ PlacedOnce(offsets[c])'
  BY DEF NewTable, NoneTwice, PlacedOnce
<1>5. MethodsOf(vtable[c], Ancestors(c) \cup InterfacesAt(offsets[c]))'
  BY <1>1, <1>3 DEF NewTable, MethodsOf
<1>6. Parent(c) # NoClass => Extends(c, Parent(c))'
  BY <1>1 DEF NewTable, Extends, Kept, Longer
<1>7. ToSet(Interfaces(c))' \subseteq InterfacesAt(offsets[c])'
  <2>1. ToSet(Interfaces(c))' = ToSet(Interfaces(c))
    BY <1>1 DEF ToSet
  <2>2. CASE Parent(c) = NoClass
    <3>1. ToSet(Interfaces(c)) = {}
      BY <2>2 DEF Interfaces, ToSet
    <3> QED BY <2>1, <3>1
  <2>3. CASE Parent(c) # NoClass
    BY <1>3, <2>1, <2>3 DEF NewTable
  <2> QED BY <2>2, <2>3
<1>8. Parent(c)' = NoClass => offsets'[c] = <<>>
  BY <1>1 DEF NewTable
<1> QED BY <1>1, <1>2, <1>4, <1>5, <1>6, <1>7, <1>8 DEF TableFine

------------------------------------------------------------------------------
(* The parent first, then the interfaces. *)
LEMMA NeedsAre ==
    ASSUME Metadata(program), NEW c \in Classes
    PROVE  /\ Len(Needs(c)) = Len(Interfaces(c)) + 1 /\ Len(Interfaces(c)) \in Nat
           /\ DOMAIN Needs(c) = 1 .. Len(Needs(c))
           /\ Needs(c)[1] = Parent(c)
           /\ \A k \in DOMAIN Interfaces(c) : Needs(c)[k + 1] = Interfaces(c)[k]
           /\ \A j \in DOMAIN Needs(c) : j # 1 => Needs(c)[j] \in Ifaces
           /\ Parent(c) = NoClass => Len(Needs(c)) = 1
<1> PICK is : is = Interfaces(c)
  OBVIOUS
<1> PICK m : m = Len(is)
  OBVIOUS
<1> PICK p : p = Parent(c)
  OBVIOUS
<1>1. is \in Seq(Ifaces) /\ m \in Nat /\ DOMAIN is = 1 .. m /\ \A k \in 1 .. m : is[k] \in Ifaces
  BY InterfacesAre
<1> PICK s : s = <<p>> \o is
  OBVIOUS
<1>2. /\ Len(s) = m + 1 /\ DOMAIN s = 1 .. (m + 1) /\ s[1] = p
      /\ \A k \in 1 .. m : s[k + 1] = is[k]
  BY <1>1
<1>3. \A j \in DOMAIN s : j # 1 => s[j] \in Ifaces
  <2> SUFFICES ASSUME NEW j \in 1 .. (m + 1), j # 1 PROVE s[j] \in Ifaces
    BY <1>2
  <2>1. j - 1 \in 1 .. m /\ (j - 1) + 1 = j
    BY <1>1
  <2> QED BY <1>1, <1>2, <2>1
<1>4. p = NoClass => m = 0
  BY DEF Interfaces
<1>5. Needs(c) = s
  BY DEF Needs
<1> QED BY <1>1, <1>2, <1>3, <1>4, <1>5

(* The calls in progress are of classes. *)
LEMMA CallsAre ==
    ASSUME NEW s \in Seq(CallType)
    PROVE  /\ Len(s) \in Nat /\ DOMAIN s = 1 .. Len(s)
           /\ \A k \in DOMAIN s : s[k].class \in Classes /\ s[k].served \in Nat
<1>1. \A k \in DOMAIN s : s[k] \in CallType
  BY SeqElements
<1> QED BY <1>1 DEF CallType

(* What is served was not begun before and left unfinished. *)
LEMMA NotBegun ==
    ASSUME Metadata(program), NEW s, NEW ready, CallsFine(s, ready), s # <<>>,
           s[Len(s)].served < Len(Needs(s[Len(s)].class)),
           NEW c \in Classes, c = Needs(s[Len(s)].class)[s[Len(s)].served + 1]
    PROVE  \A m \in DOMAIN s : s[m].class # c
<1> PICK n : n = Len(s)
  OBVIOUS
<1>1. n \in Nat /\ n # 0 /\ DOMAIN s = 1 .. n
  <2>1. s \in Seq(CallType)
    BY DEF CallsFine
  <2> QED BY <2>1
<1>2. \A k \in 1 .. n : s[k].class \in Classes /\ s[k].served \in Nat
  BY <1>1, CallsAre DEF CallsFine
<1>3. SUFFICES ASSUME NEW m \in 1 .. n, s[m].class = c PROVE FALSE
  BY <1>1
(* Every call but the last is of a class that is not an interface, and one *)
(* that waits for a class waits for its parent.                            *)
<1>4. ASSUME NEW k \in 1 .. n, k # n
      PROVE  /\ s[k].class \notin Ifaces
             /\ s[k + 1].class = Parent(s[k].class) \/ s[k + 1].class \in Ifaces
  <2> PICK x : x = s[k].class
    OBVIOUS
  <2>1. s[k].served \in DOMAIN Needs(x) /\ s[k + 1].class = Needs(x)[s[k].served]
    BY <1>1, <1>4 DEF CallsFine, Waits
  <2>2. k + 1 \in 1 .. n /\ x \in Classes
    BY <1>1, <1>2, <1>4
  <2>3. s[k + 1].class \in Classes
    BY <1>2, <2>2
  <2>4. s[k].served = 1 => s[k + 1].class = Parent(x)
    BY <2>1, <2>2, NeedsAre
  <2>5. s[k].served # 1 => s[k + 1].class \in Ifaces
    BY <2>1, <2>2, NeedsAre
  <2>6. x \notin Ifaces
    <3>1. SUFFICES ASSUME x \in Ifaces PROVE FALSE
      OBVIOUS
    <3>2. Parent(x) = NoClass /\ NoClass \notin Classes
      BY <2>2, <3>1, ClassFacts
    <3>3. Len(Needs(x)) = 1 /\ DOMAIN Needs(x) = 1 .. 1
      BY <2>2, <3>2, NeedsAre
    <3>4. s[k].served = 1
      BY <2>1, <3>3
    <3> QED BY <2>3, <2>4, <3>2, <3>4
  <2> QED BY <2>4, <2>5, <2>6
<1> PICK x : x = s[n].class
  OBVIOUS
<1>5. x \in Classes /\ s[n].served \in Nat
  BY <1>1, <1>2
<1>6. c = Parent(x) \/ c \in Ifaces
  <2> PICK v : v = s[n].served
    OBVIOUS
  <2>1. v + 1 \in DOMAIN Needs(x) /\ c = Needs(x)[v + 1]
    <3>1. v \in Nat /\ v < Len(Needs(x)) /\ Len(Needs(x)) \in Nat /\ DOMAIN Needs(x) = 1 .. Len(Needs(x))
      BY <1>5, NeedsAre
    <3>2. v + 1 \in 1 .. Len(Needs(x))
      BY <3>1
    <3> QED BY <3>1, <3>2
  <2>2. v + 1 = 1 => c = Parent(x)
    BY <1>5, <2>1, NeedsAre
  <2>3. v + 1 # 1 => c \in Ifaces
    BY <1>5, <2>1, NeedsAre
  <2> QED BY <2>2, <2>3
<1>7. x \notin Ifaces
  <2>1. SUFFICES ASSUME x \in Ifaces PROVE FALSE
    OBVIOUS
  <2>2. Parent(x) = NoClass /\ NoClass \notin Classes
    BY <1>5, <2>1, ClassFacts
  <2>3. Len(Needs(x)) = 1 /\ Needs(x)[1] = NoClass
    BY <1>5, <2>2, NeedsAre
  <2>4. s[n].served + 1 = 1
    BY <1>5, <2>3
  <2> QED BY <2>2, <2>3, <2>4
<1>8. \A k \in 1 .. n : s[k].class \notin Ifaces
  BY <1>4, <1>7
<1>9. c = Parent(x) /\ \A k \in 1 .. n : k # n => s[k + 1].class = Parent(s[k].class)
  <2>1. c \notin Ifaces
    BY <1>3, <1>8
  <2>2. \A k \in 1 .. n : k # n => k + 1 \in 1 .. n
    BY <1>1
  <2> QED BY <1>4, <1>6, <1>8, <2>1, <2>2
<1> DEFINE S == {s[k].class : k \in m .. n}
<1>10. S \in (SUBSET Classes) \ {{}}
  <2>1. m \in m .. n /\ \A k \in m .. n : k \in 1 .. n
    BY <1>1
  <2> QED BY <1>2, <2>1
<1>11. ASSUME NEW d \in S PROVE Parent(d) \in S
  <2>1. PICK k \in m .. n : d = s[k].class
    OBVIOUS
  <2>2. CASE k = n
    <3>1. m \in m .. n
      BY <1>1
    <3> QED BY <1>3, <1>9, <2>1, <2>2, <3>1
  <2>3. CASE k # n
    <3>1. k + 1 \in m .. n /\ k \in 1 .. n
      BY <1>1, <2>3
    <3> QED BY <1>9, <2>1, <2>3, <3>1
  <2> QED BY <2>2, <2>3
<1> HIDE DEF S
<1> QED BY <1>10, <1>11, ParentsFounded

------------------------------------------------------------------------------
(* The last call has been served once more. *)
ServedOn(s) == Append(Front(s), [Last(s) EXCEPT !.served = @ + 1])

(* All calls but the last *)
LEMMA FrontIs ==
    ASSUME NEW s \in Seq(CallType), s # <<>>
    PROVE  /\ Front(s) \in Seq(CallType) /\ Len(Front(s)) = Len(s) - 1
           /\ DOMAIN Front(s) = 1 .. (Len(s) - 1)
           /\ \A k \in 1 .. (Len(s) - 1) : Front(s)[k] = s[k]
           /\ Len(s) \in Nat /\ Len(s) \in DOMAIN s /\ DOMAIN s = 1 .. Len(s)
<1> PICK T : T = CallType
  OBVIOUS
<1> PICK n : n = Len(s)
  OBVIOUS
<1> PICK f : f = SubSeq(s, 1, n - 1)
  OBVIOUS
<1>1. s \in Seq(T) /\ s # <<>>
  OBVIOUS
<1>2. n \in Nat /\ DOMAIN s = 1 .. n /\ n # 0
  BY <1>1
<1>3. n \in 1 .. n /\ n - 1 \in Nat /\ \A k \in 1 .. (n - 1) : k \in 1 .. n
  BY <1>2
<1>4. f = [k \in 1 .. (n - 1) |-> s[k]]
  BY <1>1, <1>2
<1>5. \A k \in 1 .. (n - 1) : s[k] \in T
  BY <1>1, <1>2, <1>3
<1>6. f \in [1 .. (n - 1) -> T]
  BY ONLY <1>4, <1>5
<1>7. f \in Seq(T) /\ Len(f) = n - 1
  <2>1. f \in Seq(T)
    BY ONLY <1>3, <1>6
  <2>2. DOMAIN f = 1 .. (n - 1)
    BY <1>4
  <2> PICK m : m = Len(f)
    OBVIOUS
  <2>3. m \in Nat /\ DOMAIN f = 1 .. m
    BY ONLY <2>1, m = Len(f)
  <2>4. 1 .. m = 1 .. (n - 1)
    BY ONLY <2>2, <2>3
  <2>5. m = n - 1
    BY ONLY <2>3, <2>4, <1>3, <1>2
  <2> QED BY ONLY <2>1, <2>5, m = Len(f)
<1>8. Front(s) = f
  BY DEF Front
<1> QED BY <1>2, <1>3, <1>4, <1>7, <1>8

(* Serving a call changes nothing else. *)
LEMMA ServedOnIs ==
    ASSUME NEW s \in Seq(CallType), s # <<>>
    PROVE  /\ ServedOn(s) \in Seq(CallType) /\ Len(ServedOn(s)) = Len(s)
           /\ DOMAIN ServedOn(s) = DOMAIN s
           /\ \A k \in DOMAIN s : ServedOn(s)[k].class = s[k].class
           /\ \A k \in DOMAIN s : k # Len(s) => ServedOn(s)[k] = s[k]
           /\ ServedOn(s)[Len(s)].served = s[Len(s)].served + 1
<1> PICK n : n = Len(s)
  OBVIOUS
<1> PICK f : f = Front(s)
  OBVIOUS
<1> PICK x : x = [Last(s) EXCEPT !.served = @ + 1]
  OBVIOUS
<1>1. /\ f \in Seq(CallType) /\ Len(f) = n - 1 /\ n \in Nat /\ n \in DOMAIN s /\ DOMAIN s = 1 .. n
      /\ \A k \in 1 .. (n - 1) : f[k] = s[k]
  BY FrontIs
<1>2. s[n] \in CallType
  BY <1>1, SeqElements
<1>3. x \in CallType /\ x.class = s[n].class /\ x.served = s[n].served + 1
  BY <1>2 DEF CallType, Last
<1> PICK t : t = Append(f, x)
  OBVIOUS
<1>4. t \in Seq(CallType) /\ Len(t) = n /\ DOMAIN t = 1 .. n /\ t[n] = x
  BY <1>1, <1>3
<1>5. \A k \in 1 .. (n - 1) : t[k] = s[k]
  BY <1>1, <1>3
<1>6. \A k \in 1 .. n : k # n => k \in 1 .. (n - 1)
  BY <1>1
<1>7. t = ServedOn(s)
  BY DEF ServedOn
<1> QED BY <1>1, <1>3, <1>4, <1>5, <1>6, <1>7

(* The last call ends. *)
LEMMA Popped ==
    ASSUME NEW s, NEW ready, CallsFine(s, ready), s # <<>>
    PROVE  CallsFine(Front(s), ready \cup {s[Len(s)].class})
<1> PICK n : n = Len(s)
  OBVIOUS
<1> PICK f : f = Front(s)
  OBVIOUS
<1> PICK more : more = ready \cup {s[n].class}
  OBVIOUS
<1>1. s \in Seq(CallType)
  BY DEF CallsFine
<1>2. /\ f \in Seq(CallType) /\ Len(f) = n - 1 /\ n \in Nat /\ n \in 1 .. n /\ DOMAIN s = 1 .. n
      /\ DOMAIN f = 1 .. (n - 1)
      /\ \A k \in 1 .. (n - 1) : f[k] = s[k]
  BY <1>1, FrontIs
<1>3. \A k \in 1 .. (n - 1) : k \in 1 .. n /\ k # n /\ k + 1 \in 1 .. n /\ (k # n - 1 => k + 1 \in 1 .. (n - 1))
                              /\ (k = n - 1 => k + 1 = n)
  BY <1>2
<1>4. \A j, k \in DOMAIN f : f[j].class = f[k].class => j = k
  <2>1. \A j, k \in DOMAIN s : s[j].class = s[k].class => j = k
    BY DEF CallsFine
  <2>2. SUFFICES ASSUME NEW j \in 1 .. (n - 1), NEW k \in 1 .. (n - 1), f[j].class = f[k].class
                 PROVE  j = k
    BY <1>2
  <2>3. f[j] = s[j] /\ f[k] = s[k] /\ j \in DOMAIN s /\ k \in DOMAIN s
    BY <1>2, <1>3
  <2> QED BY ONLY <2>1, <2>2, <2>3
<1>5. ASSUME NEW k \in 1 .. (n - 1) PROVE Waits(f, k) /\ Served(f, k, more)
  <2>1. Waits(s, k) /\ Served(s, k, ready) /\ k # n
    BY <1>2, <1>3 DEF CallsFine
  <2>2. f[k] = s[k]
    BY <1>2
  <2>3. /\ s[k].served \in DOMAIN Needs(s[k].class)
        /\ s[k + 1].class = Needs(s[k].class)[s[k].served]
    BY <2>1 DEF Waits
  <2>4. Waits(f, k)
    <3>1. k # Len(f) => f[k + 1] = s[k + 1]
      BY <1>2, <1>3
    <3> QED BY <2>2, <2>3, <3>1 DEF Waits
  <2>5. ASSUME NEW j \in 1 .. s[k].served
        PROVE  \/ k # Len(f) /\ j = s[k].served
               \/ Needs(s[k].class)[j] \in more \cup {NoClass}
    <3>1. CASE j = s[k].served /\ k = n - 1
      <4>1. Needs(s[k].class)[j] = s[n].class
        BY <1>3, <2>3, <3>1
      <4> QED BY <4>1
    <3>2. CASE j = s[k].served /\ k # n - 1
      BY <1>2, <3>2
    <3>3. CASE j # s[k].served
      BY <2>1, <3>3 DEF Served
    <3> QED BY <3>1, <3>2, <3>3
  <2>6. s[k].served <= Len(Needs(s[k].class))
    BY <2>1 DEF Served
  <2> QED BY <2>2, <2>4, <2>5, <2>6 DEF Served
<1>6. CallsFine(f, more)
  BY <1>2, <1>4, <1>5 DEF CallsFine
<1> QED BY <1>6

(* What it needs next is there already, or there is none. *)
LEMMA ServedNext ==
    ASSUME Metadata(program), NEW s, NEW ready, CallsFine(s, ready), s # <<>>,
           s[Len(s)].served < Len(Needs(s[Len(s)].class)),
           Needs(s[Len(s)].class)[s[Len(s)].served + 1] \in ready \cup {NoClass}
    PROVE  CallsFine(ServedOn(s), ready)
<1> PICK n : n = Len(s)
  OBVIOUS
<1> PICK t : t = ServedOn(s)
  OBVIOUS
<1> PICK x : x = s[n].class
  OBVIOUS
<1> PICK v : v = s[n].served
  OBVIOUS
<1>1. s \in Seq(CallType)
  BY DEF CallsFine
<1>2. /\ t \in Seq(CallType) /\ Len(t) = n /\ DOMAIN t = DOMAIN s
      /\ \A k \in DOMAIN s : t[k].class = s[k].class
      /\ \A k \in DOMAIN s : k # n => t[k] = s[k]
      /\ t[n].served = v + 1
  BY <1>1, ServedOnIs
<1>3. n \in Nat /\ n \in DOMAIN s /\ DOMAIN s = 1 .. n
  BY <1>1, FrontIs
<1>4. x \in Classes /\ v \in Nat
  BY <1>1, <1>3, CallsAre
<1>5. Len(Needs(x)) \in Nat
  BY <1>4, NeedsAre
<1>6. \A j, k \in DOMAIN t : t[j].class = t[k].class => j = k
  BY <1>2 DEF CallsFine
<1>7. ASSUME NEW k \in DOMAIN s PROVE Waits(t, k) /\ Served(t, k, ready)
  <2>1. Waits(s, k) /\ Served(s, k, ready)
    BY DEF CallsFine
  <2>2. CASE k = n
    <3>1. Waits(t, k)
      BY <1>2, <2>2 DEF Waits
    <3>2. t[k].class = x /\ t[k].served = v + 1
      BY <1>2, <1>3, <2>2
    <3>3. v + 1 <= Len(Needs(x))
      BY <1>4, <1>5
    <3>4. ASSUME NEW j \in 1 .. (v + 1) PROVE Needs(x)[j] \in ready \cup {NoClass}
      <4>1. CASE j = v + 1
        BY <4>1
      <4>2. CASE j # v + 1
        <5>1. j \in 1 .. v
          BY <1>4, <4>2
        <5> QED BY <2>1, <2>2, <5>1 DEF Served
      <4> QED BY <4>1, <4>2
    <3>5. Served(t, k, ready)
      BY <3>2, <3>3, <3>4 DEF Served
    <3> QED BY <3>1, <3>5
  <2>3. CASE k # n
    <3>1. t[k] = s[k] /\ t[k + 1].class = s[k + 1].class
      <4>1. k + 1 \in DOMAIN s
        BY <1>3, <2>3
      <4> QED BY <1>2, <2>3, <4>1
    <3> QED BY <1>2, <2>1, <3>1 DEF Waits, Served
  <2> QED BY <2>2, <2>3
<1>8. CallsFine(t, ready)
  BY <1>2, <1>6, <1>7 DEF CallsFine
<1> QED BY <1>8

(* What it needs next is begun. *)
LEMMA Pushed ==
    ASSUME Metadata(program), NEW s, NEW ready, CallsFine(s, ready), s # <<>>,
           s[Len(s)].served < Len(Needs(s[Len(s)].class)),
           NEW c \in Classes, c = Needs(s[Len(s)].class)[s[Len(s)].served + 1],
           \A m \in DOMAIN s : s[m].class # c
    PROVE  CallsFine(Append(ServedOn(s), [class |-> c, served |-> 0]), ready)
<1> PICK n : n = Len(s)
  OBVIOUS
<1> PICK h : h = ServedOn(s)
  OBVIOUS
<1> PICK x : x = s[n].class
  OBVIOUS
<1> PICK v : v = s[n].served
  OBVIOUS
<1> PICK new : new = [class |-> c, served |-> 0]
  OBVIOUS
<1> PICK t : t = Append(h, new)
  OBVIOUS
<1>1. s \in Seq(CallType)
  BY DEF CallsFine
<1>2. /\ h \in Seq(CallType) /\ Len(h) = n /\ DOMAIN h = DOMAIN s
      /\ \A k \in DOMAIN s : h[k].class = s[k].class
      /\ \A k \in DOMAIN s : k # n => h[k] = s[k]
      /\ h[n].served = v + 1
  BY <1>1, ServedOnIs
<1>3. n \in Nat /\ n \in DOMAIN s /\ DOMAIN s = 1 .. n
  BY <1>1, FrontIs
<1>4. x \in Classes /\ v \in Nat
  BY <1>1, <1>3, CallsAre
<1>5. Len(Needs(x)) \in Nat /\ DOMAIN Needs(x) = 1 .. Len(Needs(x)) /\ Len(Needs(c)) \in Nat
  BY <1>4, NeedsAre
<1>6. new \in CallType /\ new.class = c /\ new.served = 0
  BY DEF CallType
<1>7. /\ t \in Seq(CallType) /\ Len(t) = n + 1 /\ DOMAIN t = 1 .. (n + 1) /\ t[n + 1] = new
      /\ \A k \in 1 .. n : t[k] = h[k]
  BY <1>2, <1>3, <1>6
<1>8. \A k \in DOMAIN t : k = n + 1 \/ k \in 1 .. n
  BY <1>3, <1>7
<1>9. \A k \in 1 .. n : t[k].class = s[k].class /\ t[k].class # c
  BY <1>2, <1>3, <1>7
<1>10. ASSUME NEW j \in DOMAIN t, NEW k \in DOMAIN t, t[j].class = t[k].class PROVE j = k
  <2>1. j \in 1 .. n /\ k \in 1 .. n => j = k
    BY <1>3, <1>9, <1>10 DEF CallsFine
  <2> QED BY <1>6, <1>7, <1>8, <1>9, <1>10, <2>1
<1>11. ASSUME NEW k \in 1 .. n PROVE Waits(t, k) /\ Served(t, k, ready)
  <2>1. Waits(s, k) /\ Served(s, k, ready)
    BY <1>3 DEF CallsFine
  <2>2. k # Len(t)
    BY <1>3, <1>7
  <2>3. CASE k = n
    <3>1. t[k].class = x /\ t[k].served = v + 1
      BY <1>2, <1>3, <1>7, <2>3
    <3>2. v + 1 \in 1 .. Len(Needs(x)) /\ v + 1 <= Len(Needs(x))
      BY <1>4, <1>5
    <3>3. t[k + 1].class = Needs(x)[v + 1]
      BY <1>6, <1>7, <2>3
    <3>4. Waits(t, k)
      BY <1>5, <3>1, <3>2, <3>3 DEF Waits
    <3>5. ASSUME NEW j \in 1 .. (v + 1), j # v + 1 PROVE Needs(x)[j] \in ready \cup {NoClass}
      <4>1. j \in 1 .. v
        BY <1>4, <3>5
      <4> QED BY <2>1, <2>3, <4>1 DEF Served
    <3>6. Served(t, k, ready)
      BY <2>2, <3>1, <3>2, <3>5 DEF Served
    <3> QED BY <3>4, <3>6
  <2>4. CASE k # n
    <3>1. k + 1 \in 1 .. n
      BY <1>3, <2>4
    <3>2. t[k] = s[k] /\ t[k + 1].class = s[k + 1].class
      BY <1>2, <1>3, <1>7, <1>9, <2>4, <3>1
    <3> QED BY <2>1, <2>2, <2>4, <3>2 DEF Waits, Served
  <2> QED BY <2>3, <2>4
<1>12. Waits(t, n + 1) /\ Served(t, n + 1, ready)
  <2>1. Waits(t, n + 1)
    BY <1>7 DEF Waits
  <2>2. 0 <= Len(Needs(c)) /\ 1 .. 0 = {}
    BY <1>5
  <2>3. Served(t, n + 1, ready)
    BY <1>6, <1>7, <2>2 DEF Served
  <2> QED BY <2>1, <2>3
<1>13. CallsFine(t, ready)
  <2>1. \A k \in DOMAIN t : Waits(t, k) /\ Served(t, k, ready)
    BY <1>8, <1>11, <1>12
  <2> QED BY <1>7, <1>10, <2>1 DEF CallsFine
<1> QED BY <1>13

(* The same of the next state *)
LEMMA CallsKept ==
    ASSUME program' = program, NEW t, NEW r, CallsFine(t, r), calls' = t, Ready' = r
    PROVE  CallsFine(calls, Ready)'
<1>1. CallType' = CallType /\ \A c : Needs(c)' = Needs(c)
  BY ProgramKept DEF CallType
<1> QED BY <1>1 DEF CallsFine, Waits, Served

------------------------------------------------------------------------------
(* The call at the top is the one that goes on. *)
LEMMA CurrentIs ==
    ASSUME TablesInv, calls # <<>>
    PROVE  /\ Current = calls[Len(calls)] /\ Current.class \in Classes /\ Current.class \in InProgress
           /\ Current.served \in Nat /\ Len(calls) \in DOMAIN calls
           /\ Serving = Needs(Current.class) /\ refused = {}
<1>1. calls \in Seq(CallType)
  BY DEF TablesInv, CallsFine
<1>2. Len(calls) \in DOMAIN calls
  BY <1>1, FrontIs
<1>3. Current = calls[Len(calls)]
  BY DEF Current, Last
<1>4. Current.class \in Classes /\ Current.served \in Nat
  BY <1>1, <1>2, <1>3, CallsAre
<1>5. Current.class \in InProgress
  BY <1>2, <1>3 DEF InProgress
<1> QED BY <1>2, <1>3, <1>4, <1>5 DEF Serving, Needs, TablesInv

(* All that a class needs is ready when it is set up. *)
LEMMA NeedsReady ==
    ASSUME TablesInv, NEW c, AtSetUp(c)
    PROVE  /\ c \in Classes /\ c \in InProgress /\ c \notin Ready /\ c \in initialized
           /\ Parent(c) \in Ready \cup {NoClass} /\ ToSet(Interfaces(c)) \subseteq Ready
           /\ Metadata(program) /\ refused = {} /\ calls # <<>> /\ calls[Len(calls)].class = c
<1> PICK n : n = Len(calls)
  OBVIOUS
<1>1. /\ n \in DOMAIN calls /\ calls[n].class = c /\ calls[n].served = Len(Needs(c))
      /\ c \in Classes /\ c \in InProgress /\ refused = {} /\ calls # <<>>
  BY CurrentIs DEF AtSetUp
<1>2. Metadata(program)
  BY MetadataHolds DEF TablesInv
<1>3. Served(calls, n, Ready)
  BY <1>1 DEF TablesInv, CallsFine
<1> PICK v : v = Len(Needs(c))
  OBVIOUS
<1>4. \A j \in 1 .. v : Needs(c)[j] \in Ready \cup {NoClass}
  BY <1>1, <1>3 DEF Served
<1>5. /\ v = Len(Interfaces(c)) + 1 /\ Len(Interfaces(c)) \in Nat /\ Needs(c)[1] = Parent(c)
      /\ \A k \in DOMAIN Interfaces(c) : Needs(c)[k + 1] = Interfaces(c)[k]
  BY <1>1, <1>2, NeedsAre
<1>6. Parent(c) \in Ready \cup {NoClass}
  <2>1. 1 \in 1 .. v
    BY <1>5
  <2> QED BY <1>4, <1>5, <2>1
<1>7. ASSUME NEW k \in DOMAIN Interfaces(c) PROVE Interfaces(c)[k] \in Ready
  <2>1. k \in 1 .. Len(Interfaces(c)) /\ Interfaces(c)[k] \in Ifaces
    BY <1>1, <1>2, InterfacesAre
  <2>2. k + 1 \in 1 .. v
    BY <1>5, <2>1
  <2>3. Interfaces(c)[k] # NoClass
    BY <1>2, <2>1 DEF Metadata, Ifaces, Classes
  <2> QED BY <1>4, <1>5, <2>2, <2>3
<1>8. ToSet(Interfaces(c)) \subseteq Ready
  BY <1>7 DEF ToSet
<1>9. c \notin Ready /\ c \in initialized
  BY <1>1 DEF Ready, TablesInv
<1> QED BY <1>1, <1>2, <1>6, <1>8, <1>9

(* A class is set up. *)
LEMMA SetUpKeeps ==
    ASSUME TablesInv, NEW c, AtSetUp(c), UNCHANGED <<program, initialized, refused>>,
           calls' = Front(calls), NEW offs, NEW t, NewTable(c, offs, t),
           vtable' = [vtable EXCEPT ![c] = t], offsets' = [offsets EXCEPT ![c] = offs],
           slot' \in [Methods -> Nat]
    PROVE  TablesInv' /\ Ready' = Ready \cup {c}
<1> PICK D : D = Ready
  OBVIOUS
<1> PICK s : s = calls
  OBVIOUS
<1> PICK n : n = Len(s)
  OBVIOUS
<1>1. /\ c \in Classes /\ c \in InProgress /\ c \notin D /\ c \in initialized
      /\ Parent(c) \in D \cup {NoClass} /\ ToSet(Interfaces(c)) \subseteq D
      /\ Metadata(program) /\ refused = {} /\ s # <<>> /\ s[n].class = c
  BY NeedsReady
<1>2. TablesType /\ CallsFine(s, D) /\ InProgress \subseteq initialized
  BY DEF TablesInv
<1>3. s \in Seq(CallType)
  BY <1>2 DEF CallsFine
<1>4. /\ DOMAIN Front(s) = 1 .. (n - 1) /\ n \in Nat /\ n \in DOMAIN s /\ DOMAIN s = 1 .. n
      /\ \A k \in 1 .. (n - 1) : Front(s)[k] = s[k]
  BY <1>1, <1>3, FrontIs
<1>5. InProgress' = InProgress \ {c}
  <2>1. \A k \in 1 .. n : k = n \/ k \in 1 .. (n - 1)
    BY <1>4
  <2>2. \A k \in 1 .. (n - 1) : k \in 1 .. n /\ k # n
    BY <1>4
  <2>3. \A k \in 1 .. (n - 1) : s[k].class # c
    BY <1>1, <1>2, <1>4, <2>2 DEF CallsFine
  <2>4. InProgress = {s[k].class : k \in 1 .. n}
    BY <1>4 DEF InProgress
  <2>5. InProgress' = {Front(s)[k].class : k \in 1 .. (n - 1)}
    BY <1>4 DEF InProgress
  <2>6. {Front(s)[k].class : k \in 1 .. (n - 1)} = {s[k].class : k \in 1 .. (n - 1)}
    BY <1>4
  <2>7. {s[k].class : k \in 1 .. (n - 1)} = {s[k].class : k \in 1 .. n} \ {c}
    BY <1>1, <2>1, <2>2, <2>3
  <2> QED BY <2>4, <2>5, <2>6, <2>7
<1>6. Ready' = D \cup {c}
  BY <1>1, <1>2, <1>5 DEF Ready
<1>7. CallsFine(calls, Ready)'
  <2>1. CallsFine(Front(s), D \cup {c})
    BY <1>1, <1>2, Popped
  <2>2. program' = program /\ calls' = Front(s)
    OBVIOUS
  <2> QED BY <1>6, <2>1, <2>2, CallsKept
<1>8. /\ Classes' = Classes /\ Methods' = Methods /\ EntryType' = EntryType /\ OffsetType' = OffsetType
      /\ \A k : Parent(k)' = Parent(k)
  BY ProgramKept
<1>9. t \in Seq(EntryType) /\ offs \in Seq(OffsetType) /\ (Parent(c) = NoClass => offs = <<>>)
  BY DEF NewTable
<1>10. TablesType'
  BY <1>2, <1>8, <1>9 DEF TablesType
<1>11. \A k \in Classes' : Parent(k)' = NoClass => offsets'[k] = <<>>
  BY <1>2, <1>8, <1>9 DEF TablesInv, TablesType
<1>12. vtable'[c] = t /\ offsets'[c] = offs /\ \A k \in Classes \ {c} : vtable'[k] = vtable[k] /\ offsets'[k] = offsets[k]
  BY <1>1, <1>2 DEF TablesType
<1>13. D \subseteq Classes /\ Kept(D)
  <2>1. D \subseteq Classes
    BY DEF TablesInv, Ready
  <2> QED BY <1>1, <1>12, <2>1 DEF Kept
<1>14. \A k \in D : /\ Parent(k) \in D \cup {NoClass} /\ InterfacesAt(offsets[k]) \subseteq D /\ TableFine(k)
  BY DEF TablesInv, ReadyIsClosed
<1>15. InterfacesAt(offs) \subseteq D
  <2>1. CASE Parent(c) = NoClass
    BY <1>9, <2>1 DEF InterfacesAt
  <2>2. CASE Parent(c) # NoClass
    <3>1. InterfacesAt(offs) = InterfacesAt(offsets[Parent(c)]) \cup ToSet(Interfaces(c))
      BY <2>2 DEF NewTable
    <3>2. Parent(c) \in D
      BY <1>1, <2>2
    <3> QED BY <1>1, <1>14, <3>1, <3>2
  <2> QED BY <2>1, <2>2
<1>16. ASSUME NEW k \in D
       PROVE  TableFine(k)' /\ Parent(k)' \in Ready' \cup {NoClass} /\ InterfacesAt(offsets[k])' \subseteq Ready'
  <2>1. Parent(k) \in D \cup {NoClass} /\ InterfacesAt(offsets[k]) \subseteq D /\ TableFine(k)
    BY <1>14
  <2>2. TableFine(k)'
    BY <1>13, <2>1, TableKept
  <2>3. InterfacesAt(offsets[k])' = InterfacesAt(offsets[k])
    BY <1>13 DEF InterfacesAt, Kept
  <2> QED BY <1>6, <1>8, <2>1, <2>2, <2>3
<1>17. TableFine(c)' /\ Parent(c)' \in Ready' \cup {NoClass} /\ InterfacesAt(offsets[c])' \subseteq Ready'
  <2>1. TableFine(c)'
    BY <1>1, <1>12, <1>13, <1>15, TableMade
  <2>2. InterfacesAt(offsets[c])' = InterfacesAt(offs)
    BY <1>12 DEF InterfacesAt
  <2> QED BY <1>1, <1>6, <1>8, <1>15, <2>1, <2>2
<1>18. ReadyIsClosed'
  BY <1>6, <1>16, <1>17 DEF ReadyIsClosed
<1>19. /\ program' \in Programs /\ initialized' \subseteq Classes' /\ InProgress' \subseteq initialized'
       /\ refused' = {}
  BY <1>1, <1>2, <1>5, <1>8 DEF TablesInv
<1> QED BY <1>6, <1>7, <1>10, <1>11, <1>18, <1>19 DEF TablesInv

------------------------------------------------------------------------------
(* Classes that are ready stay so. *)
LEMMA ReadyKept ==
    ASSUME TablesInv, program' = program, Kept(Ready), Ready' = Ready
    PROVE  ReadyIsClosed'
<1> PICK D : D = Ready
  OBVIOUS
<1>1. \A k \in D : /\ Parent(k) \in D \cup {NoClass} /\ InterfacesAt(offsets[k]) \subseteq D /\ TableFine(k)
  BY DEF TablesInv, ReadyIsClosed
<1>2. ASSUME NEW k \in D
      PROVE  TableFine(k)' /\ Parent(k)' \in D \cup {NoClass} /\ InterfacesAt(offsets[k])' \subseteq D
  <2>1. Parent(k) \in D \cup {NoClass} /\ InterfacesAt(offsets[k]) \subseteq D /\ TableFine(k)
    BY <1>1
  <2>2. TableFine(k)'
    BY <2>1, TableKept
  <2>3. InterfacesAt(offsets[k])' = InterfacesAt(offsets[k]) /\ Parent(k)' = Parent(k)
    BY ProgramKept DEF InterfacesAt, Kept
  <2> QED BY <2>1, <2>2, <2>3
<1> QED BY <1>2 DEF ReadyIsClosed

(* What does not touch the tables *)
LEMMA CallsChange ==
    ASSUME TablesInv, UNCHANGED <<program, vtable, offsets, slot, refused>>, refused = {},
           initialized' \subseteq Classes, InProgress' \subseteq initialized',
           NEW t, calls' = t, CallsFine(t, Ready), Ready' = Ready
    PROVE  TablesInv'
<1>1. /\ Classes' = Classes /\ Methods' = Methods /\ EntryType' = EntryType /\ OffsetType' = OffsetType
      /\ \A k : Parent(k)' = Parent(k)
  BY ProgramKept
<1>2. TablesType' /\ \A k \in Classes' : Parent(k)' = NoClass => offsets'[k] = <<>>
  BY <1>1 DEF TablesInv, TablesType
<1>3. CallsFine(calls, Ready)'
  BY CallsKept
<1>4. ReadyIsClosed'
  BY ReadyKept DEF Kept
<1> QED BY <1>1, <1>2, <1>3, <1>4 DEF TablesInv

(* At first nothing is set up. *)
LEMMA InitKeeps == ASSUME Init PROVE TablesInv
<1>1. Metadata(program)
  BY MetadataHolds DEF Init
<1>2. calls \in Seq(CallType) /\ DOMAIN calls = {} /\ InProgress = {} /\ Ready = {}
  BY DEF Init, InProgress, Ready
<1>3. CallsFine(calls, Ready)
  BY <1>2 DEF CallsFine
<1>4. TablesType
  BY DEF Init, TablesType
<1> QED BY <1>2, <1>3, <1>4 DEF TablesInv, Init, ReadyIsClosed

(* A class is used first. *)
LEMMA UseKeeps == ASSUME TablesInv, NEW c \in Classes, Use(c) PROVE TablesInv' /\ Ready' = Ready
<1> PICK t : t = <<[class |-> c, served |-> 0]>>
  OBVIOUS
<1>1. /\ calls = <<>> /\ refused = {} /\ c \notin initialized /\ calls' = t
      /\ initialized' = initialized \cup {c} /\ UNCHANGED <<program, vtable, offsets, slot, refused>>
  BY DEF Use
<1>2. Metadata(program) /\ initialized \subseteq Classes
  BY MetadataHolds DEF TablesInv
<1>3. InProgress = {} /\ InProgress' = {c}
  BY <1>1 DEF InProgress
<1>4. Ready' = Ready
  BY <1>1, <1>3 DEF Ready
<1>5. CallsFine(t, Ready)
  <2>1. t \in Seq(CallType) /\ DOMAIN t = {1} /\ Len(t) = 1 /\ t[1].class = c /\ t[1].served = 0
    BY DEF CallType
  <2>2. 0 <= Len(Needs(c)) /\ 1 .. 0 = {}
    BY <1>2, NeedsAre
  <2> QED BY <2>1, <2>2 DEF CallsFine, Waits, Served
<1> QED BY <1>1, <1>2, <1>3, <1>4, <1>5, CallsChange

(* The parent or an interface is called for, or is there. *)
LEMMA RecurseKeeps == ASSUME TablesInv, Recurse PROVE TablesInv' /\ Ready' = Ready
<1> PICK s : s = calls
  OBVIOUS
<1> PICK n : n = Len(s)
  OBVIOUS
<1> PICK x : x = s[n].class
  OBVIOUS
<1> PICK v : v = s[n].served
  OBVIOUS
<1> PICK c : c = Needs(x)[v + 1]
  OBVIOUS
<1>1. /\ s # <<>> /\ Current = s[n] /\ x \in Classes /\ v \in Nat /\ n \in DOMAIN s
      /\ Serving = Needs(x) /\ refused = {}
  BY CurrentIs DEF Recurse
<1>2. v < Len(Needs(x)) /\ UNCHANGED <<program, vtable, offsets, slot, refused>>
  BY <1>1 DEF Recurse
<1>3. /\ Metadata(program) /\ initialized \subseteq Classes /\ CallsFine(s, Ready)
      /\ InProgress \subseteq initialized
  BY MetadataHolds DEF TablesInv
<1>4. s \in Seq(CallType)
  BY <1>3 DEF CallsFine
<1>5. /\ ServedOn(s) \in Seq(CallType) /\ Len(ServedOn(s)) = n /\ DOMAIN ServedOn(s) = DOMAIN s
      /\ \A k \in DOMAIN s : ServedOn(s)[k].class = s[k].class
  BY <1>1, <1>4, ServedOnIs
<1>6. Append(Front(calls), [Current EXCEPT !.served = @ + 1]) = ServedOn(s)
  BY DEF ServedOn, Current
<1>7. CASE c = NoClass \/ c \in initialized
  <2>1. calls' = ServedOn(s) /\ initialized' = initialized
    BY <1>1, <1>6, <1>7 DEF Recurse
  <2>2. InProgress' = InProgress
    BY <1>5, <2>1 DEF InProgress
  <2>3. Ready' = Ready
    BY <1>2, <2>1, <2>2 DEF Ready
  <2>4. c \in Ready \cup {NoClass}
    <3>1. CASE c = NoClass
      BY <3>1
    <3>2. CASE c # NoClass
      <4>1. c \in Classes /\ c \in initialized
        BY <1>3, <1>7, <3>2
      <4>2. \A m \in DOMAIN s : s[m].class # c
        BY <1>1, <1>2, <1>3, <4>1, NotBegun
      <4>3. c \notin InProgress
        BY <4>2 DEF InProgress
      <4> QED BY <1>1, <4>1, <4>3 DEF Ready
    <3> QED BY <3>1, <3>2
  <2>5. CallsFine(ServedOn(s), Ready)
    BY <1>1, <1>2, <1>3, <2>4, ServedNext
  <2> QED BY <1>1, <1>2, <1>3, <2>1, <2>2, <2>3, <2>5, CallsChange
<1>8. CASE ~(c = NoClass \/ c \in initialized)
  <2> PICK new : new = [class |-> c, served |-> 0]
    OBVIOUS
  <2>1. calls' = Append(ServedOn(s), new) /\ initialized' = initialized \cup {c}
    BY <1>1, <1>6, <1>8 DEF Recurse
  <2>2. c \in Classes
    <3>1. /\ Len(Needs(x)) \in Nat /\ DOMAIN Needs(x) = 1 .. Len(Needs(x)) /\ Needs(x)[1] = Parent(x)
          /\ \A j \in DOMAIN Needs(x) : j # 1 => Needs(x)[j] \in Ifaces
      BY <1>1, <1>3, NeedsAre
    <3>2. v + 1 \in DOMAIN Needs(x)
      <4>1. v + 1 \in 1 .. Len(Needs(x))
        BY <1>1, <1>2, <3>1
      <4> QED BY <3>1, <4>1
    <3>3. Parent(x) \in Classes \cup {NoClass}
      BY <1>1, <1>3, ClassFacts
    <3> QED BY <1>8, <3>1, <3>2, <3>3 DEF Ifaces
  <2>3. c \notin InProgress
    BY <1>3, <1>8
  <2>4. \A m \in DOMAIN s : s[m].class # c
    BY <2>3 DEF InProgress
  <2>5. CallsFine(Append(ServedOn(s), new), Ready)
    BY <1>1, <1>2, <1>3, <2>2, <2>4, Pushed
  <2>6. InProgress' = InProgress \cup {c}
    <3> PICK h : h = ServedOn(s)
      OBVIOUS
    <3>1. h \in Seq(CallType) /\ new \in CallType
      BY <1>5, <2>2 DEF CallType
    <3>2. /\ DOMAIN Append(h, new) = DOMAIN h \cup {Len(h) + 1} /\ Append(h, new)[Len(h) + 1] = new
          /\ \A k \in DOMAIN h : Append(h, new)[k] = h[k]
      BY <3>1
    <3>3. {Append(h, new)[k].class : k \in DOMAIN Append(h, new)} = {h[k].class : k \in DOMAIN h} \cup {c}
      BY <3>2
    <3>4. {h[k].class : k \in DOMAIN h} = InProgress
      BY <1>5 DEF InProgress
    <3> PICK t : t = Append(h, new)
      OBVIOUS
    <3>5. calls' = t
      BY <2>1
    <3>6. InProgress' = {t[k].class : k \in DOMAIN t}
      BY <3>5 DEF InProgress
    <3> QED BY <3>3, <3>4, <3>6
  <2>7. Ready' = Ready
    BY <1>2, <1>8, <2>1, <2>6 DEF Ready
  <2>8. initialized' \subseteq Classes /\ InProgress' \subseteq initialized'
    BY <1>3, <2>1, <2>2, <2>6
  <2> QED BY <1>1, <1>2, <2>1, <2>5, <2>7, <2>8, CallsChange
<1> QED BY <1>7, <1>8

------------------------------------------------------------------------------
(* System.Object and interfaces *)
LEMMA SetUpRootKeeps == ASSUME TablesInv, NEW c, SetUpRoot(c) PROVE TablesInv' /\ Ready' = Ready \cup {c}
<1> PICK t : t = Entries(NewSlots(c))
  OBVIOUS
<1>1. /\ AtSetUp(c) /\ Parent(c) = NoClass /\ UNCHANGED <<program, initialized, offsets, refused>>
      /\ vtable' = [vtable EXCEPT ![c] = t] /\ calls' = Front(calls)
      /\ slot' = NumberedFrom(-1, NewSlots(c))
  BY DEF SetUpRoot
<1>2. c \in Classes /\ Metadata(program) /\ TablesType
  BY <1>1, NeedsReady DEF TablesInv
<1>3. NewTable(c, <<>>, t)
  BY <1>1, <1>2, RootSetUp
<1>4. offsets[c] = <<>> /\ offsets' = [offsets EXCEPT ![c] = <<>>]
  BY <1>1, <1>2 DEF TablesInv, TablesType
<1>5. slot' \in [Methods -> Nat]
  BY <1>1, <1>2, NewSlotsAre, Numbered
<1> QED BY <1>1, <1>3, <1>4, <1>5, SetUpKeeps

(* The parent's table is shared. *)
LEMMA InheritKeeps == ASSUME TablesInv, NEW c, Inherit(c) PROVE TablesInv' /\ Ready' = Ready \cup {c}
<1> PICK t : t = vtable[Parent(c)]
  OBVIOUS
<1> PICK offs : offs = offsets[Parent(c)]
  OBVIOUS
<1>1. /\ AtSetUp(c) /\ Parent(c) # NoClass /\ UNCHANGED <<program, initialized, slot, refused>>
      /\ vtable' = [vtable EXCEPT ![c] = t] /\ calls' = Front(calls)
      /\ offsets' = [offsets EXCEPT ![c] = offs] /\ Interfaces(c) = <<>>
  BY DEF Inherit, SharesParents
<1>2. c \in Classes /\ Metadata(program) /\ TablesType /\ Parent(c) \in Ready
  BY <1>1, NeedsReady DEF TablesInv
<1>3. TableFine(Parent(c))
  BY <1>2 DEF TablesInv, ReadyIsClosed
<1>4. NewTable(c, offs, t)
  BY <1>1, <1>2, <1>3, InheritedSetUp
<1>5. slot' \in [Methods -> Nat]
  BY <1>1, <1>2 DEF TablesType
<1> QED BY <1>1, <1>4, <1>5, SetUpKeeps

(* setup_vtable_typedef, when it succeeds and when it fails *)
LEMMA SetUpStepKeeps == ASSUME TablesInv, NEW c, SetUp(c) PROVE TablesInv'
<1> PICK placed : placed = InterfaceOffsets(c)
  OBVIOUS
<1> PICK draft : draft = Finished(c, placed)
  OBVIOUS
<1> PICK D : D = Ready
  OBVIOUS
<1>1. /\ AtSetUp(c) /\ Parent(c) # NoClass /\ UNCHANGED <<program, initialized>>
      /\ offsets' = [offsets EXCEPT ![c] = placed] /\ slot' = draft.slot
  BY DEF SetUp
<1>2. /\ c \in Classes /\ c \in InProgress /\ c \notin D /\ Metadata(program) /\ Parent(c) \in D
      /\ ToSet(Interfaces(c)) \subseteq D /\ refused = {}
  BY <1>1, NeedsReady
<1>3. TablesType /\ TableFine(Parent(c)) /\ \A i \in ToSet(Interfaces(c)) : TableFine(i)
  BY <1>2 DEF TablesInv, ReadyIsClosed
<1>4. NewTable(c, placed, draft.table) /\ draft.slot \in [Methods -> Nat] /\ placed \in Seq(OffsetType)
  BY <1>1, <1>2, <1>3, FinishedIs
<1>5. CASE draft.sound /\ Complete(c, draft)
  <2>1. vtable' = [vtable EXCEPT ![c] = draft.table] /\ calls' = Front(calls) /\ refused' = refused
    BY <1>5 DEF SetUp
  <2>2. slot' \in [Methods -> Nat] /\ UNCHANGED <<program, initialized, refused>>
    BY <1>1, <1>4, <2>1
  <2> QED BY <1>1, <1>4, <2>1, <2>2, SetUpKeeps
<1>6. CASE ~(draft.sound /\ Complete(c, draft))
  <2>1. calls' = <<>> /\ refused' = InProgress /\ vtable' = vtable
    BY <1>6 DEF SetUp
  <2>2. InProgress' = {}
    BY <2>1 DEF InProgress
  <2>3. Ready' = D
    BY <1>1, <1>2, <2>1, <2>2 DEF Ready
  <2>4. \A k \in D : offsets'[k] = offsets[k]
    <3>1. D \subseteq Classes
      BY DEF TablesInv, Ready
    <3> QED BY <1>1, <1>2, <1>3, <3>1 DEF TablesType
  <2>5. ReadyIsClosed'
    BY <1>1, <2>1, <2>3, <2>4, ReadyKept DEF Kept
  <2>6. /\ Classes' = Classes /\ Methods' = Methods /\ EntryType' = EntryType /\ OffsetType' = OffsetType
        /\ \A k : Parent(k)' = Parent(k)
    BY <1>1, ProgramKept
  <2>7. TablesType'
    BY <1>1, <1>3, <1>4, <2>1, <2>6 DEF TablesType
  <2>8. \A k \in Classes' : Parent(k)' = NoClass => offsets'[k] = <<>>
    BY <1>1, <1>3, <2>6 DEF TablesInv, TablesType
  <2>9. CallsFine(calls, Ready)'
    <3>1. calls' \in Seq(CallType)' /\ DOMAIN calls' = {}
      BY <2>1
    <3> QED BY <3>1 DEF CallsFine
  <2>10. program' \in Programs /\ initialized' \subseteq Classes' /\ InProgress \subseteq initialized'
    BY <1>1, <2>6 DEF TablesInv
  <2> QED BY <2>1, <2>2, <2>5, <2>7, <2>8, <2>9, <2>10 DEF TablesInv
<1> QED BY <1>5, <1>6

(* Nothing changes. *)
LEMMA StutterKeeps == ASSUME TablesInv, UNCHANGED vars PROVE TablesInv' /\ Ready' = Ready
<1>1. UNCHANGED <<program, initialized, calls, vtable, offsets, slot, refused>>
  BY DEF vars
<1>2. InProgress' = InProgress /\ Ready' = Ready
  BY <1>1 DEF InProgress, Ready
<1>3. /\ Classes' = Classes /\ Methods' = Methods /\ EntryType' = EntryType /\ OffsetType' = OffsetType
      /\ \A k : Parent(k)' = Parent(k)
  BY <1>1, ProgramKept
<1>4. ReadyIsClosed'
  BY <1>1, <1>2, ReadyKept DEF Kept
<1>5. CallsFine(calls, Ready)'
  BY <1>1, <1>2, CallsKept DEF TablesInv
<1>6. TablesType' /\ \A k \in Classes' : Parent(k)' = NoClass => offsets'[k] = <<>>
  BY <1>1, <1>3 DEF TablesInv, TablesType
<1> QED BY <1>1, <1>2, <1>3, <1>4, <1>5, <1>6 DEF TablesInv

(***************************************************************************)
(* The invariant holds of every hierarchy the metadata can describe, and   *)
(* whatever the order in which classes are first used: initialize_vtables  *)
(* calls itself for what is needed first, each class is set up once, and a *)
(* class is left with its parent's table at the front, those of its        *)
(* interfaces behind it and its own new slots at the end.                  *)
(***************************************************************************)
THEOREM TablesInvariance == Spec => []TablesInv
<1>1. Init => TablesInv
  BY InitKeeps
<1>2. TablesInv /\ [Next]_vars => TablesInv'
  <2> SUFFICES ASSUME TablesInv, [Next]_vars PROVE TablesInv'
    OBVIOUS
  <2>1. ASSUME NEW c \in Classes, Use(c) PROVE TablesInv'
    BY <2>1, UseKeeps
  <2>2. ASSUME NEW c \in Classes, SetUpRoot(c) PROVE TablesInv'
    BY <2>2, SetUpRootKeeps
  <2>3. ASSUME NEW c \in Classes, Inherit(c) PROVE TablesInv'
    BY <2>3, InheritKeeps
  <2>4. ASSUME NEW c \in Classes, SetUp(c) PROVE TablesInv'
    BY <2>4, SetUpStepKeeps
  <2>5. CASE Recurse
    BY <2>5, RecurseKeeps
  <2>6. CASE UNCHANGED vars
    BY <2>6, StutterKeeps
  <2> QED BY <2>1, <2>2, <2>3, <2>4, <2>5, <2>6 DEF Next
<1> QED BY <1>1, <1>2, PTL DEF Spec

(***************************************************************************)
(* The variables have their types: a table's entries name methods of the   *)
(* program, offsets its classes, and only classes that initialize_vtables  *)
(* was called for are refused.                                             *)
(***************************************************************************)
THEOREM TablesTypeCorrect == Spec => []TypeOK
<1>1. TablesInv => TypeOK
  <2> SUFFICES ASSUME TablesInv PROVE TypeOK
    OBVIOUS
  <2>1. calls \in Seq([class : Classes, served : Nat])
    BY DEF TablesInv, CallsFine, CallType
  <2>2. TablesType
    BY DEF TablesInv
  <2>3. \A c \in Classes : vtable[c] \in Seq([method : Methods, impl : Methods \cup {NoMethod}])
    BY <2>2 DEF TablesType, EntryType
  <2>4. ASSUME NEW c \in Classes PROVE offsets[c] \in Seq([interface : Classes, offset : Nat])
    <3> PICK o : o = offsets[c]
      OBVIOUS
    <3> PICK T : T = [interface : Classes, offset : Nat]
      OBVIOUS
    <3>1. o \in Seq(OffsetType)
      BY <2>2 DEF TablesType
    <3>2. \A k \in DOMAIN o : o[k] \in T
      <4>1. OffsetType \subseteq T
        BY DEF OffsetType, Ifaces
      <4> QED BY <3>1, <4>1, SeqElements
    <3>3. o \in Seq(T)
      BY <3>1, <3>2, SeqOfOther
    <3> QED BY <3>3
  <2> QED BY <2>1, <2>2, <2>3, <2>4 DEF TypeOK, TablesInv, TablesType
<1> QED BY <1>1, TablesInvariance, PTL

(***************************************************************************)
(* Slots mean the same in a class and in all classes derived from it, no   *)
(* two declarations share one, and the slots of each interface are where   *)
(* its offset says, in every hierarchy and for every order of first uses.  *)
(***************************************************************************)
THEOREM SlotsAlwaysAgree == Spec => []SlotsAgree
<1>1. TablesInv => SlotsAgree
  <2> SUFFICES ASSUME TablesInv, NEW c \in Ready
               PROVE  /\ Parent(c) # NoClass =>
                             /\ offsets[Parent(c)] = SubSeq(offsets[c], 1, Len(offsets[Parent(c)]))
                             /\ \A k \in DOMAIN vtable[Parent(c)] :
                                    vtable[c][k].method = vtable[Parent(c)][k].method
                      /\ \A j, k \in DOMAIN vtable[c] :
                             j # k => vtable[c][j].method # vtable[c][k].method
                      /\ \A k \in DOMAIN offsets[c] :
                             \A j \in DOMAIN vtable[offsets[c][k].interface] :
                                 vtable[c][offsets[c][k].offset + j].method
                                     = vtable[offsets[c][k].interface][j].method
    BY DEF SlotsAgree
  <2>1. /\ TablesType /\ TableFine(c) /\ Parent(c) \in Ready \cup {NoClass} /\ c \in Classes
        /\ Ready \subseteq Classes
    BY DEF TablesInv, ReadyIsClosed, Ready
  <2>2. CASE Parent(c) # NoClass
    <3> PICK o : o = offsets[c]
      OBVIOUS
    <3> PICK p : p = offsets[Parent(c)]
      OBVIOUS
    <3>1. o \in Seq(OffsetType) /\ p \in Seq(OffsetType)
      BY <2>1, <2>2 DEF TablesType
    <3>2. Extends(c, Parent(c))
      BY <2>1, <2>2 DEF TableFine
    <3>3. Len(p) <= Len(o) /\ \A k \in DOMAIN p : o[k] = p[k]
      BY <3>2 DEF Extends
    <3>4. p = SubSeq(o, 1, Len(p))
      BY ONLY <3>1, <3>3
    <3> QED BY <2>1, <3>2, <3>4 DEF Extends, TableFine, NoneTwice, Agrees
  <2>3. CASE Parent(c) = NoClass
    BY <2>1, <2>3 DEF TableFine, NoneTwice, Agrees
  <2> QED BY <2>2, <2>3
<1> QED BY <1>1, TablesInvariance, PTL

------------------------------------------------------------------------------
(***************************************************************************)
(* What the standard names: its recursive definitions, one class at a time.*)
(***************************************************************************)
(* What one of a set is. *)
LEMMA OneOfIs ==
    ASSUME NEW S
    PROVE  /\ S # {} => OneOf(S) \in S
           /\ S = {} => OneOf(S) = NoMethod
           /\ \A x \in S : (\A y \in S : y = x) => OneOf(S) = x
BY DEF OneOf

(* The parents of all classes, for recursion over them *)
LEMMA ParentsAre ==
    ASSUME Metadata(program)
    PROVE  /\ NoClass \notin Classes /\ ParentFunction \in [Classes -> Classes \cup {NoClass}]
           /\ \A c \in Classes : ParentFunction[c] = Parent(c) /\ Parent(c) \in Classes \cup {NoClass}
           /\ \A S \in (SUBSET Classes) \ {{}} : \E c \in S : ParentFunction[c] \notin S
<1>1. NoClass \notin Classes
  BY DEF Metadata, Classes
<1>2. \A c \in Classes : Parent(c) \in Classes \cup {NoClass}
  BY ClassFacts
<1> QED BY <1>1, <1>2, ParentsFounded DEF ParentFunction

MaybeMethod == Methods \cup {NoMethod}

(* The own methods of a set, or one of the parent's *)
Found(F, found) ==
    F = [k \in Classes \cup {NoClass} |->
            IF k = NoClass THEN NoMethod
            ELSE IF found[k] = {} THEN F[Parent(k)] ELSE OneOf(found[k])]

(* A search that goes from parent to parent ends. *)
LEMMA SearchExists ==
    ASSUME Metadata(program), NEW found \in [Classes -> SUBSET Methods]
    PROVE  \E F : Found(F, found)
<1> PICK X : X = MaybeMethod
  OBVIOUS
<1> DEFINE base == [c \in Classes |-> OneOf(found[c])]
           step == [p \in Classes \X X |-> IF found[p[1]] = {} THEN p[2] ELSE OneOf(found[p[1]])]
<1>1. \A c \in Classes : OneOf(found[c]) \in X
  BY OneOfIs DEF MaybeMethod
<1>2. base \in [Classes -> X] /\ step \in [Classes \X X -> X]
  BY <1>1
<1>3. PICK F : Climbs(F, ParentFunction, X, base, step)
  <2>1. \E F : Climbs(F, ParentFunction, X, base, step)
    <3> HIDE DEF base, step
    <3> QED BY <1>2, ParentsAre, RecursionOverParents
  <2> QED BY <2>1
<1> DEFINE G == [k \in Classes \cup {NoClass} |-> IF k = NoClass THEN NoMethod ELSE F[k]]
<1>4. ASSUME NEW c \in Classes
      PROVE  F[c] = IF found[c] = {} THEN G[Parent(c)] ELSE OneOf(found[c])
  <2>1. F[c] = IF Parent(c) = NoClass THEN base[c] ELSE step[<<c, F[Parent(c)]>>]
    BY <1>3, ParentsAre DEF Climbs
  <2>2. Parent(c) \in Classes \cup {NoClass} /\ NoClass \notin Classes
    BY ParentsAre
  <2>3. CASE Parent(c) = NoClass
    BY <2>1, <2>3, OneOfIs
  <2>4. CASE Parent(c) # NoClass
    <3>1. F[Parent(c)] \in X
      BY <1>3, <2>2, <2>4 DEF Climbs
    <3>2. F[c] = IF found[c] = {} THEN F[Parent(c)] ELSE OneOf(found[c])
      BY <2>1, <2>4, <3>1
    <3> QED BY <2>2, <2>4, <3>2
  <2> QED BY <2>3, <2>4
<1>5. NoClass \notin Classes
  BY ParentsAre
<1>6. Found(G, found)
  BY <1>4, <1>5 DEF Found
<1> QED BY <1>6

(* What is introduced above a class, or by it *)
LEMMA IntroducingUnfolded ==
    ASSUME Metadata(program), NEW d
    PROVE  /\ Introducing(NoClass, d) = NoMethod
           /\ \A c \in Classes :
                  Introducing(c, d) = IF NewOf(c, d) = {} THEN Introducing(Parent(c), d)
                                      ELSE OneOf(NewOf(c, d))
<1> DEFINE found == [k \in Classes |-> NewOf(k, d)]
           D(G) == G = [k \in Classes \cup {NoClass} |->
                           IF k = NoClass THEN NoMethod
                           ELSE IF NewOf(k, d) = {} THEN G[Parent(k)] ELSE OneOf(NewOf(k, d))]
           F == CHOOSE G : D(G)
<1>1. \A k \in Classes : NewOf(k, d) \subseteq Methods
  BY DEF NewOf, Methods
<1>2. found \in [Classes -> SUBSET Methods]
  BY <1>1
<1>3. \E G : D(G)
  <2>1. PICK G : Found(G, found)
    <3> HIDE DEF found
    <3> QED BY <1>2, SearchExists
  <2>2. NoClass \notin Classes
    BY ParentsAre
  <2>3. D(G)
    BY <2>1, <2>2 DEF Found
  <2> QED BY <2>3
<1>4. D(F)
  <2> HIDE DEF D
  <2> QED BY <1>3
<1>5. ASSUME NEW c PROVE Introducing(c, d) = F[c]
  BY DEF Introducing, Nearest, NewOf
<1>6. NoClass \notin Classes /\ \A c \in Classes : Parent(c) \in Classes \cup {NoClass}
  BY ParentsAre
<1> HIDE DEF F
<1> QED BY <1>4, <1>5, <1>6

(* The method of d's name of the class or of the nearest ancestor *)
Named(c, d) == Nearest(c, LAMBDA x : SameName(x, d))
NamedOwn(c, d) == {x \in ToSet(Own(c)) : SameName(x, d)}

(* What is named above a class, or by it *)
LEMMA NamedUnfolded ==
    ASSUME Metadata(program), NEW d
    PROVE  /\ Named(NoClass, d) = NoMethod
           /\ \A c \in Classes :
                  Named(c, d) = IF NamedOwn(c, d) = {} THEN Named(Parent(c), d)
                                ELSE OneOf(NamedOwn(c, d))
<1> DEFINE found == [k \in Classes |-> NamedOwn(k, d)]
           D(G) == G = [k \in Classes \cup {NoClass} |->
                           IF k = NoClass THEN NoMethod
                           ELSE IF NamedOwn(k, d) = {} THEN G[Parent(k)] ELSE OneOf(NamedOwn(k, d))]
           F == CHOOSE G : D(G)
<1>1. \A k \in Classes : NamedOwn(k, d) \subseteq Methods
  BY DEF NamedOwn, Methods
<1>2. found \in [Classes -> SUBSET Methods]
  BY <1>1
<1>3. \E G : D(G)
  <2>1. PICK G : Found(G, found)
    <3> HIDE DEF found
    <3> QED BY <1>2, SearchExists
  <2>2. NoClass \notin Classes
    BY ParentsAre
  <2>3. D(G)
    BY <2>1, <2>2 DEF Found
  <2> QED BY <2>3
<1>4. D(F)
  <2> HIDE DEF D
  <2> QED BY <1>3
<1>5. ASSUME NEW c PROVE Named(c, d) = F[c]
  BY DEF Named, Nearest, NamedOwn
<1>6. NoClass \notin Classes /\ \A c \in Classes : Parent(c) \in Classes \cup {NoClass}
  BY ParentsAre
<1> HIDE DEF F
<1> QED BY <1>4, <1>5, <1>6

(* The rows of a class are pairs of methods. *)
LEMMA ImplsAre ==
    ASSUME Metadata(program), NEW c \in Classes
    PROVE  /\ program[c].impls \in Seq([class : Classes, body : Methods, decl : Methods])
           /\ \A row \in ToSet(program[c].impls) : row.body \in Methods /\ row.decl \in Methods
<1> PICK s : s = program[c].impls
  OBVIOUS
<1> PICK T : T = [class : Classes, body : Methods, decl : Methods]
  OBVIOUS
<1>1. s \in Seq(T)
  BY ClassFacts
<1>2. \A k \in DOMAIN s : s[k] \in T
  BY <1>1, SeqElements
<1>3. \A row \in ToSet(s) : row \in T
  BY <1>2 DEF ToSet
<1> QED BY <1>1, <1>3

(* What a class makes of a slot is a method, or nothing. *)
LEMMA OverriddenType ==
    ASSUME Metadata(program), NEW c \in Classes, NEW d, NEW m
    PROVE  Overridden(c, d, m) \in MaybeMethod \cup {m}
<1>1. Bodies(c, d) \subseteq Methods
  BY ImplsAre DEF Bodies
<1>2. ToSet(Own(c)) \subseteq Methods
  BY DEF Methods
<1> DEFINE overriding(slots) == {x \in ToSet(Own(c)) : Original[x] \in slots}
<1>3. \A slots : overriding(slots) \subseteq Methods
  BY <1>2
<1>4. /\ Bodies(c, d) # {} => OneOf(Bodies(c, d)) \in Methods
      /\ \A slots : overriding(slots) # {} => OneOf(overriding(slots)) \in Methods
  <2> HIDE DEF overriding
  <2> QED BY <1>1, <1>3, OneOfIs
<1>5. Overridden(c, d, m) =
          IF Bodies(c, d) # {} THEN OneOf(Bodies(c, d))
          ELSE IF overriding({d}) # {} THEN OneOf(overriding({d}))
          ELSE IF overriding({Original[m]}) # {} THEN OneOf(overriding({Original[m]}))
          ELSE m
  BY DEF Overridden
<1> HIDE DEF overriding
<1> QED BY <1>4, <1>5 DEF MaybeMethod

(* What a slot holds is made of what it holds in the parent. *)
LEMMA HoldsUnfolded ==
    ASSUME Metadata(program), NEW d \in Methods, NEW c \in Classes, d[1] \in Ancestors(c)
    PROVE  Holds(c, d) = Overridden(c, d, IF c = d[1] THEN d ELSE Holds(Parent(c), d))
<1> PICK X : X = MaybeMethod
  OBVIOUS
<1> DEFINE Next1(k, m) == IF d[1] \notin Ancestors(k) THEN NoMethod
                          ELSE Overridden(k, d, IF k = d[1] THEN d ELSE m)
           base == [k \in Classes |-> Next1(k, NoMethod)]
           step == [p \in Classes \X X |-> Next1(p[1], p[2])]
           D(G) == G = [k \in Classes |->
                           IF d[1] \notin Ancestors(k) THEN NoMethod
                           ELSE Overridden(k, d, IF k = d[1] THEN d ELSE G[Parent(k)])]
           F == CHOOSE G : D(G)
<1>1. \A k \in Classes, m \in X : Next1(k, m) \in X
  BY OverriddenType DEF MaybeMethod
<1>2. NoMethod \in X
  BY DEF MaybeMethod
<1> HIDE DEF Next1
<1>3. /\ base \in [Classes -> X] /\ step \in [Classes \X X -> X]
      /\ \A k \in Classes : base[k] = Next1(k, NoMethod)
      /\ \A k \in Classes, m \in X : step[<<k, m>>] = Next1(k, m)
  BY <1>1, <1>2
<1>4. PICK G : Climbs(G, ParentFunction, X, base, step)
  <2>1. \E G : Climbs(G, ParentFunction, X, base, step)
    <3> HIDE DEF base, step
    <3> QED BY <1>3, ParentsAre, RecursionOverParents
  <2> QED BY <2>1
<1>5. \A k \in Classes : Parent(k) \in Classes \cup {NoClass}
  BY ParentsAre
<1>6. ASSUME NEW k \in Classes PROVE G[k] = Next1(k, G[Parent(k)])
  <2> HIDE DEF base, step
  <2>1. G[k] = IF Parent(k) = NoClass THEN base[k] ELSE step[<<k, G[Parent(k)]>>]
    BY <1>4, ParentsAre DEF Climbs
  <2>2. CASE Parent(k) = NoClass
    <3>1. Ancestors(k) = {k}
      BY <2>2, AncestorsUnfolded
    <3>2. G[k] = Next1(k, NoMethod)
      BY <1>3, <2>1, <2>2
    <3> QED BY <3>1, <3>2 DEF Next1
  <2>3. CASE Parent(k) # NoClass
    <3>1. G[Parent(k)] \in X
      BY <1>4, <1>5, <2>3 DEF Climbs
    <3> QED BY <1>3, <2>1, <2>3, <3>1
  <2> QED BY <2>2, <2>3
<1>7. \E H : D(H)
  <2>1. G = [k \in Classes |-> G[k]]
    BY <1>4 DEF Climbs
  <2>2. D(G)
    BY <1>6, <2>1 DEF Next1
  <2> QED BY <2>2
<1>8. D(F)
  <2> HIDE DEF D
  <2> QED BY <1>7
<1>9. ASSUME NEW k PROVE Holds(k, d) = F[k]
  BY DEF Holds
<1> HIDE DEF F
<1> QED BY <1>8, <1>9

(* What a class gives for an interface's method is a method, or nothing. *)
LEMMA GivenType ==
    ASSUME Metadata(program), NEW c \in Classes, NEW d, NEW m
    PROVE  Given(c, d, m) \in MaybeMethod \cup {m}
<1>1. Bodies(c, d) \subseteq Methods
  BY ImplsAre DEF Bodies
<1>2. NewOf(c, d) \subseteq Methods
  BY DEF NewOf, Methods
<1>3. \A k \in Classes \cup {NoClass} : Named(k, d) \in MaybeMethod
  <2> DEFINE S == {k \in Classes : Named(k, d) \notin MaybeMethod}
  <2>1. Named(NoClass, d) \in MaybeMethod
    BY NamedUnfolded DEF MaybeMethod
  <2>2. S = {}
    <3>1. SUFFICES ASSUME S # {} PROVE FALSE
      OBVIOUS
    <3>2. PICK k \in S : Parent(k) \notin S
      <4>1. S \in (SUBSET Classes) \ {{}}
        BY <3>1
      <4> HIDE DEF S
      <4> QED BY <4>1, ParentsFounded
    <3>3. Named(Parent(k), d) \in MaybeMethod
      BY <2>1, <3>2, ParentsAre
    <3>4. NamedOwn(k, d) \subseteq Methods
      BY DEF NamedOwn, Methods
    <3>5. Named(k, d) = IF NamedOwn(k, d) = {} THEN Named(Parent(k), d) ELSE OneOf(NamedOwn(k, d))
      BY NamedUnfolded
    <3> QED BY <3>2, <3>3, <3>4, <3>5, OneOfIs DEF MaybeMethod
  <2> QED BY <2>1, <2>2
<1>4. Given(c, d, m) = IF Bodies(c, d) # {} THEN OneOf(Bodies(c, d))
                       ELSE IF d[1] \in Listed(c) /\ NewOf(c, d) # {} THEN OneOf(NewOf(c, d))
                       ELSE IF m # NoMethod \/ d[1] \notin Listed(c) THEN m
                       ELSE Named(c, d)
  BY DEF Given, Named
<1> QED BY <1>1, <1>2, <1>3, <1>4, OneOfIs DEF MaybeMethod

(* What a class gives is made of what its parent gives. *)
LEMMA GivesUnfolded ==
    ASSUME Metadata(program), NEW d, NEW c \in Classes
    PROVE  Gives(c, d) = IF d[1] \notin Implements(c) THEN NoMethod
                         ELSE Given(c, d, IF Parent(c) = NoClass THEN NoMethod
                                          ELSE Gives(Parent(c), d))
<1> PICK X : X = MaybeMethod
  OBVIOUS
<1> DEFINE Next1(k, m) == IF d[1] \notin Implements(k) THEN NoMethod ELSE Given(k, d, m)
           base == [k \in Classes |-> Next1(k, NoMethod)]
           step == [p \in Classes \X X |-> Next1(p[1], p[2])]
           D(G) == G = [k \in Classes |->
                           IF d[1] \notin Implements(k) THEN NoMethod
                           ELSE Given(k, d, IF Parent(k) = NoClass THEN NoMethod ELSE G[Parent(k)])]
           F == CHOOSE G : D(G)
<1>1. \A k \in Classes, m \in X : Next1(k, m) \in X
  BY GivenType DEF MaybeMethod
<1>2. NoMethod \in X
  BY DEF MaybeMethod
<1> HIDE DEF Next1
<1>3. /\ base \in [Classes -> X] /\ step \in [Classes \X X -> X]
      /\ \A k \in Classes : base[k] = Next1(k, NoMethod)
      /\ \A k \in Classes, m \in X : step[<<k, m>>] = Next1(k, m)
  BY <1>1, <1>2
<1>4. PICK G : Climbs(G, ParentFunction, X, base, step)
  <2>1. \E G : Climbs(G, ParentFunction, X, base, step)
    <3> HIDE DEF base, step
    <3> QED BY <1>3, ParentsAre, RecursionOverParents
  <2> QED BY <2>1
<1>5. \A k \in Classes : Parent(k) \in Classes \cup {NoClass}
  BY ParentsAre
<1>6. ASSUME NEW k \in Classes
      PROVE  G[k] = Next1(k, IF Parent(k) = NoClass THEN NoMethod ELSE G[Parent(k)])
  <2> HIDE DEF base, step
  <2>1. G[k] = IF Parent(k) = NoClass THEN base[k] ELSE step[<<k, G[Parent(k)]>>]
    BY <1>4, ParentsAre DEF Climbs
  <2>2. CASE Parent(k) = NoClass
    BY <1>3, <2>1, <2>2
  <2>3. CASE Parent(k) # NoClass
    <3>1. G[Parent(k)] \in X
      BY <1>4, <1>5, <2>3 DEF Climbs
    <3> QED BY <1>3, <2>1, <2>3, <3>1
  <2> QED BY <2>2, <2>3
<1>7. \E H : D(H)
  <2>1. G = [k \in Classes |-> G[k]]
    BY <1>4 DEF Climbs
  <2>2. D(G)
    BY <1>6, <2>1 DEF Next1
  <2> QED BY <2>2
<1>8. D(F)
  <2> HIDE DEF D
  <2> QED BY <1>7
<1>9. ASSUME NEW k PROVE Gives(k, d) = F[k]
  BY DEF Gives
<1> HIDE DEF F
<1> QED BY <1>5, <1>8, <1>9

------------------------------------------------------------------------------
(***************************************************************************)
(* What the standard names in a program that compilers produce.            *)
(***************************************************************************)
GoodProgram == Metadata(program) /\ Valid /\ Compiled /\ Supported

(* The methods of classes, and of interfaces those that can be called *)
ClassMethods == {m \in Methods : m[1] \notin Ifaces}
Declared == {m \in Methods : m[1] \in Ifaces /\ Info(m).newSlot}

(* A name is of one method of a class. *)
LEMMA NamesAreUnique ==
    ASSUME GoodProgram, NEW m \in Methods, NEW x \in Methods, m[1] = x[1], SameName(m, x)
    PROVE  m = x
<1>1. Metadata(program) /\ Compiled
  BY DEF GoodProgram
<1>2. m[1] \in Classes /\ m \in ToSet(Own(m[1])) /\ x \in ToSet(Own(m[1]))
  BY <1>1, MethodsAre
<1> QED BY <1>1, <1>2 DEF Compiled

(* Rows are of the methods of interfaces, one each, and name own methods. *)
LEMMA BodiesAre ==
    ASSUME GoodProgram, NEW c \in Classes
    PROVE  /\ \A d : d[1] \in Classes \ Ifaces => Bodies(c, d) = {}
           /\ \A d : d[1] \in Ifaces =>
                  /\ \A b \in Bodies(c, d) : /\ b \in Methods /\ b[1] = c /\ b \in ToSet(Own(c))
                                             /\ d \in Declared
                                             /\ d[1] \in IF c \in Ifaces THEN Listed(c) ELSE Implements(c)
                  /\ \A b, e \in Bodies(c, d) : b = e
                  /\ \A row \in ToSet(program[c].impls) : row.decl = d => row.body \in Bodies(c, d)
                  /\ \A b \in Bodies(c, d) : \E row \in ToSet(program[c].impls) : row.decl = d /\ row.body = b
<1> PICK R : R = ToSet(program[c].impls)
  OBVIOUS
<1>1. Metadata(program) /\ Compiled
  BY DEF GoodProgram
<1>2. \A k : k \in Ifaces <=> k \in Classes /\ IsInterface(k)
  BY DEF Ifaces
<1>3. /\ \A row \in R : ExplicitRow(c, row)
      /\ \A row, r \in R : row.decl = r.decl => row = r
  BY <1>1 DEF Compiled
<1>4. \A row \in R : row.body \in Methods /\ row.decl \in Methods
  BY <1>1, ImplsAre
<1>5. \A m \in ToSet(Own(c)) : m \in Methods /\ m[1] = c
  BY <1>1, MethodsAre DEF Methods
<1>6. \A m \in Methods : m[1] \in Classes
  BY <1>1, MethodsAre
<1>7. \A row \in R : /\ row.body[1] = c /\ row.body \in ToSet(Own(c)) /\ row.decl \in Declared
                     /\ IsInterface(row.decl[1])
                     /\ row.decl[1] \in IF c \in Ifaces THEN Listed(c) ELSE Implements(c)
  BY <1>2, <1>3, <1>4, <1>5, <1>6 DEF ExplicitRow, Declared
<1>8. ASSUME NEW d, d[1] \in Classes \ Ifaces PROVE Bodies(c, d) = {}
  <2>1. ~IsInterface(d[1])
    BY <1>2, <1>8
  <2>2. \A row \in R : IsInterface(row.decl[1])
    BY <1>7
  <2> QED BY <2>1, <2>2 DEF Bodies
<1>9. ASSUME NEW d, d[1] \in Ifaces PROVE Bodies(c, d) = {row.body : row \in {r \in R : r.decl = d}}
  <2>1. IsInterface(d[1])
    BY <1>2, <1>9
  <2> QED BY <2>1 DEF Bodies
<1>10. ASSUME NEW d, d[1] \in Ifaces
       PROVE  /\ \A b \in Bodies(c, d) : /\ b \in Methods /\ b[1] = c /\ b \in ToSet(Own(c))
                                         /\ d \in Declared
                                         /\ d[1] \in IF c \in Ifaces THEN Listed(c) ELSE Implements(c)
              /\ \A b, e \in Bodies(c, d) : b = e
              /\ \A row \in R : row.decl = d => row.body \in Bodies(c, d)
              /\ \A b \in Bodies(c, d) : \E row \in R : row.decl = d /\ row.body = b
  BY <1>3, <1>4, <1>7, <1>9, <1>10
<1> QED BY <1>8, <1>10

(* New methods of a name are own methods, and one at most. *)
LEMMA NewOfIs ==
    ASSUME GoodProgram, NEW c \in Classes, NEW d
    PROVE  /\ \A m \in NewOf(c, d) : /\ m \in Methods /\ m[1] = c /\ m \in ToSet(Own(c))
                                     /\ SameName(m, d) /\ Info(m).newSlot
           /\ \A m, x \in NewOf(c, d) : m = x
           /\ \A m \in Methods : m[1] = c /\ SameName(m, d) /\ Info(m).newSlot => m \in NewOf(c, d)
           /\ \A m \in NewOf(c, d) : OneOf(NewOf(c, d)) = m
<1>1. Metadata(program)
  BY DEF GoodProgram
<1>2. \A m \in NewOf(c, d) : /\ m \in Methods /\ m[1] = c /\ m \in ToSet(Own(c))
                             /\ SameName(m, d) /\ Info(m).newSlot
  BY <1>1, MethodsAre DEF NewOf, Methods
<1>3. \A m, x \in NewOf(c, d) : m = x
  <2> TAKE m, x \in NewOf(c, d)
  <2>1. SameName(m, x)
    BY <1>2 DEF SameName
  <2> QED BY <1>2, <2>1, NamesAreUnique
<1>4. \A m \in Methods : m[1] = c /\ SameName(m, d) /\ Info(m).newSlot => m \in NewOf(c, d)
  BY <1>1, MethodsAre DEF NewOf
<1> QED BY <1>2, <1>3, <1>4, OneOfIs

(* The same for methods with and without a new slot *)
LEMMA NamedOwnIs ==
    ASSUME GoodProgram, NEW c \in Classes, NEW d
    PROVE  /\ \A m \in NamedOwn(c, d) : /\ m \in Methods /\ m[1] = c /\ m \in ToSet(Own(c))
                                        /\ SameName(m, d)
           /\ \A m \in Methods : m[1] = c /\ SameName(m, d) => m \in NamedOwn(c, d)
           /\ \A m \in NamedOwn(c, d) : OneOf(NamedOwn(c, d)) = m
           /\ NewOf(c, d) \subseteq NamedOwn(c, d)
<1>1. Metadata(program)
  BY DEF GoodProgram
<1>2. \A m \in NamedOwn(c, d) : /\ m \in Methods /\ m[1] = c /\ m \in ToSet(Own(c)) /\ SameName(m, d)
  BY <1>1, MethodsAre DEF NamedOwn, Methods
<1>3. \A m, x \in NamedOwn(c, d) : m = x
  <2> TAKE m, x \in NamedOwn(c, d)
  <2>1. SameName(m, x)
    BY <1>2 DEF SameName
  <2> QED BY <1>2, <2>1, NamesAreUnique
<1>4. \A m \in Methods : m[1] = c /\ SameName(m, d) => m \in NamedOwn(c, d)
  BY <1>1, MethodsAre DEF NamedOwn
<1> QED BY <1>2, <1>3, <1>4, OneOfIs DEF NewOf, NamedOwn

(* What is introduced is a new method of an ancestor. *)
LEMMA IntroducingIs ==
    ASSUME GoodProgram, NEW d, NEW c \in Classes \cup {NoClass}, Introducing(c, d) # NoMethod
    PROVE  /\ Introducing(c, d) \in Methods /\ Introducing(c, d)[1] \in Ancestors(c)
           /\ SameName(Introducing(c, d), d) /\ Info(Introducing(c, d)).newSlot
<1> DEFINE Right(k) == /\ Introducing(k, d) \in Methods /\ Introducing(k, d)[1] \in Ancestors(k)
                       /\ SameName(Introducing(k, d), d) /\ Info(Introducing(k, d)).newSlot
           S == {k \in Classes : Introducing(k, d) # NoMethod /\ ~Right(k)}
<1>1. Metadata(program)
  BY DEF GoodProgram
<1>2. Introducing(NoClass, d) = NoMethod
  BY <1>1, IntroducingUnfolded
<1>3. S = {}
  <2> HIDE DEF Right
  <2>1. SUFFICES ASSUME S # {} PROVE FALSE
    OBVIOUS
  <2>2. PICK k \in S : Parent(k) \notin S
    <3>1. S \in (SUBSET Classes) \ {{}}
      BY <2>1
    <3> HIDE DEF S
    <3> QED BY <1>1, <3>1, ParentsFounded
  <2>3. Ancestors(k) = Ancestors(Parent(k)) \cup {k}
    BY <1>1, AncestorsUnfolded
  <2>4. Introducing(k, d) = IF NewOf(k, d) = {} THEN Introducing(Parent(k), d) ELSE OneOf(NewOf(k, d))
    BY <1>1, IntroducingUnfolded
  <2>5. CASE NewOf(k, d) = {}
    <3>1. Parent(k) \in Classes
      BY <1>1, <1>2, <2>4, <2>5, ParentsAre
    <3>2. Right(Parent(k))
      BY <2>2, <2>4, <2>5, <3>1
    <3>3. Right(k)
      BY <2>3, <2>4, <2>5, <3>2 DEF Right
    <3> QED BY <3>3
  <2>6. CASE NewOf(k, d) # {}
    <3>1. PICK m \in NewOf(k, d) : TRUE
      BY <2>6
    <3>2. Introducing(k, d) = m
      BY <2>4, <2>6, <3>1, NewOfIs
    <3>3. Right(k)
      BY <2>3, <3>1, <3>2, NewOfIs DEF Right
    <3> QED BY <3>3
  <2> QED BY <2>5, <2>6
<1> QED BY <1>2, <1>3

(* Methods of one name have what one class introduces in common. *)
LEMMA IntroducingOfName ==
    ASSUME GoodProgram, NEW d, NEW e, SameName(d, e), NEW c \in Classes \cup {NoClass}
    PROVE  Introducing(c, d) = Introducing(c, e)
<1> DEFINE S == {k \in Classes : Introducing(k, d) # Introducing(k, e)}
<1>1. Metadata(program)
  BY DEF GoodProgram
<1>2. Introducing(NoClass, d) = NoMethod /\ Introducing(NoClass, e) = NoMethod
  BY <1>1, IntroducingUnfolded
<1>3. \A k : NewOf(k, d) = NewOf(k, e)
  BY DEF NewOf, SameName
<1>4. S = {}
  <2>1. SUFFICES ASSUME S # {} PROVE FALSE
    OBVIOUS
  <2>2. PICK k \in S : Parent(k) \notin S
    <3>1. S \in (SUBSET Classes) \ {{}}
      BY <2>1
    <3> HIDE DEF S
    <3> QED BY <1>1, <3>1, ParentsFounded
  <2>3. Introducing(k, d) = IF NewOf(k, d) = {} THEN Introducing(Parent(k), d) ELSE OneOf(NewOf(k, d))
    BY <1>1, IntroducingUnfolded
  <2>4. Introducing(k, e) = IF NewOf(k, e) = {} THEN Introducing(Parent(k), e) ELSE OneOf(NewOf(k, e))
    BY <1>1, IntroducingUnfolded
  <2> QED BY <1>1, <1>2, <1>3, <2>2, <2>3, <2>4, ParentsAre
<1> QED BY <1>2, <1>4

(* The slot of a method is its own, or one introduced above its class. *)
LEMMA OriginalIs ==
    ASSUME GoodProgram, NEW x \in Methods
    PROVE  /\ Info(x).newSlot => Original[x] = x
           /\ ~Info(x).newSlot => Original[x] = Introducing(Parent(x[1]), x)
           /\ x \in ClassMethods => Original[x] # NoMethod
           /\ Original[x] # NoMethod =>
                  /\ Original[x] \in Methods /\ Original[x][1] \in Ancestors(x[1])
                  /\ SameName(Original[x], x) /\ Info(Original[x]).newSlot
                  /\ Original[Original[x]] = Original[x]
<1>1. Metadata(program) /\ Valid
  BY DEF GoodProgram
<1>2. ASSUME NEW m \in Methods
      PROVE  /\ m[1] \in Classes
             /\ Original[m] = IF NewOf(m[1], m) = {} THEN Introducing(Parent(m[1]), m)
                              ELSE OneOf(NewOf(m[1], m))
             /\ Original[m] = Introducing(m[1], m)
  <2>1. m[1] \in Classes
    BY <1>1, MethodsAre
  <2>2. Original[m] = Introducing(m[1], m)
    BY DEF Original
  <2> QED BY <1>1, <2>1, <2>2, IntroducingUnfolded
<1>3. ASSUME NEW m \in Methods
      PROVE  /\ Info(m).newSlot => Original[m] = m
             /\ ~Info(m).newSlot => NewOf(m[1], m) = {}
  <2>1. SameName(m, m)
    BY DEF SameName
  <2>2. \A y \in NewOf(m[1], m) : y = m /\ Info(y).newSlot
    BY <1>2, NewOfIs, NamesAreUnique
  <2>3. Info(m).newSlot => m \in NewOf(m[1], m)
    BY <1>2, <2>1, NewOfIs
  <2> QED BY <1>2, <2>2, <2>3, NewOfIs
<1>4. x \in ClassMethods => Original[x] # NoMethod
  BY <1>1, <1>2 DEF Valid, ClassMethods, Ifaces
<1>5. ASSUME Original[x] # NoMethod
      PROVE  /\ Original[x] \in Methods /\ Original[x][1] \in Ancestors(x[1])
             /\ SameName(Original[x], x) /\ Info(Original[x]).newSlot
             /\ Original[Original[x]] = Original[x]
  <2>1. /\ Original[x] \in Methods /\ Original[x][1] \in Ancestors(x[1])
        /\ SameName(Original[x], x) /\ Info(Original[x]).newSlot
    BY <1>2, <1>5, IntroducingIs
  <2> QED BY <1>3, <2>1
<1> QED BY <1>2, <1>3, <1>4, <1>5

(* What is named is a method of an ancestor. *)
LEMMA NamedIs ==
    ASSUME GoodProgram, NEW d, NEW c \in Classes \cup {NoClass}, Named(c, d) # NoMethod
    PROVE  /\ Named(c, d) \in Methods /\ Named(c, d)[1] \in Ancestors(c)
           /\ SameName(Named(c, d), d)
<1> DEFINE Right(k) == /\ Named(k, d) \in Methods /\ Named(k, d)[1] \in Ancestors(k)
                       /\ SameName(Named(k, d), d)
           S == {k \in Classes : Named(k, d) # NoMethod /\ ~Right(k)}
<1>1. Metadata(program)
  BY DEF GoodProgram
<1>2. Named(NoClass, d) = NoMethod
  BY <1>1, NamedUnfolded
<1>3. S = {}
  <2> HIDE DEF Right
  <2>1. SUFFICES ASSUME S # {} PROVE FALSE
    OBVIOUS
  <2>2. PICK k \in S : Parent(k) \notin S
    <3>1. S \in (SUBSET Classes) \ {{}}
      BY <2>1
    <3> HIDE DEF S
    <3> QED BY <1>1, <3>1, ParentsFounded
  <2>3. Ancestors(k) = Ancestors(Parent(k)) \cup {k}
    BY <1>1, AncestorsUnfolded
  <2>4. Named(k, d) = IF NamedOwn(k, d) = {} THEN Named(Parent(k), d) ELSE OneOf(NamedOwn(k, d))
    BY <1>1, NamedUnfolded
  <2>5. CASE NamedOwn(k, d) = {}
    <3>1. Parent(k) \in Classes
      BY <1>1, <1>2, <2>4, <2>5, ParentsAre
    <3>2. Right(Parent(k))
      BY <2>2, <2>4, <2>5, <3>1
    <3>3. Right(k)
      BY <2>3, <2>4, <2>5, <3>2 DEF Right
    <3> QED BY <3>3
  <2>6. CASE NamedOwn(k, d) # {}
    <3>1. PICK m \in NamedOwn(k, d) : TRUE
      BY <2>6
    <3>2. Named(k, d) = m
      BY <2>4, <2>6, <3>1, NamedOwnIs
    <3>3. Right(k)
      BY <2>3, <3>1, <3>2, NamedOwnIs DEF Right
    <3> QED BY <3>3
  <2> QED BY <2>5, <2>6
<1> QED BY <1>2, <1>3

(* What is named is in the slot that its class or an ancestor introduced. *)
LEMMA NamedHasSlot ==
    ASSUME GoodProgram, NEW d, NEW c \in Classes \cup {NoClass}
    PROVE  /\ Named(c, d) # NoMethod => Original[Named(c, d)] = Introducing(c, d)
           /\ Named(c, d) = NoMethod => Introducing(c, d) = NoMethod
<1> DEFINE Right(k) == /\ Named(k, d) # NoMethod => Original[Named(k, d)] = Introducing(k, d)
                       /\ Named(k, d) = NoMethod => Introducing(k, d) = NoMethod
           S == {k \in Classes : ~Right(k)}
<1>1. Metadata(program)
  BY DEF GoodProgram
<1>2. Right(NoClass)
  BY <1>1, NamedUnfolded, IntroducingUnfolded
<1>3. S = {}
  <2> HIDE DEF Right
  <2>1. SUFFICES ASSUME S # {} PROVE FALSE
    OBVIOUS
  <2>2. PICK k \in S : Parent(k) \notin S
    <3>1. S \in (SUBSET Classes) \ {{}}
      BY <2>1
    <3> HIDE DEF S
    <3> QED BY <1>1, <3>1, ParentsFounded
  <2>3. Right(Parent(k)) /\ Parent(k) \in Classes \cup {NoClass}
    BY <1>1, <1>2, <2>2, ParentsAre
  <2>4. Named(k, d) = IF NamedOwn(k, d) = {} THEN Named(Parent(k), d) ELSE OneOf(NamedOwn(k, d))
    BY <1>1, NamedUnfolded
  <2>5. Introducing(k, d) = IF NewOf(k, d) = {} THEN Introducing(Parent(k), d) ELSE OneOf(NewOf(k, d))
    BY <1>1, IntroducingUnfolded
  <2>6. CASE NamedOwn(k, d) = {}
    <3>1. NewOf(k, d) = {}
      BY <2>6, NamedOwnIs
    <3> QED BY <2>3, <2>4, <2>5, <2>6, <3>1 DEF Right
  <2>7. CASE NamedOwn(k, d) # {}
    <3>1. PICK m \in NamedOwn(k, d) : TRUE
      BY <2>7
    <3>2. Named(k, d) = m /\ m \in Methods /\ m[1] = k /\ SameName(m, d) /\ m # NoMethod
      BY <1>1, <2>4, <2>7, <3>1, NamedOwnIs, MethodsAre
    <3>3. CASE Info(m).newSlot
      <4>1. m \in NewOf(k, d)
        BY <3>2, <3>3, NewOfIs
      <4> QED BY <2>5, <3>2, <3>3, <4>1, NewOfIs, OriginalIs DEF Right
    <3>4. CASE ~Info(m).newSlot
      <4>1. NewOf(k, d) = {}
        <5> SUFFICES ASSUME NEW y \in NewOf(k, d) PROVE FALSE
          OBVIOUS
        <5>1. y \in Methods /\ y[1] = k /\ SameName(y, d) /\ Info(y).newSlot
          BY NewOfIs
        <5>2. y = m
          BY <3>2, <5>1, NamesAreUnique DEF SameName
        <5> QED BY <3>4, <5>1, <5>2
      <4>2. Original[m] = Introducing(Parent(k), m)
        BY <3>2, <3>4, OriginalIs
      <4>3. Introducing(Parent(k), m) = Introducing(Parent(k), d)
        BY <2>3, <3>2, IntroducingOfName
      <4> QED BY <2>5, <3>2, <4>1, <4>2, <4>3 DEF Right
    <3> QED BY <3>3, <3>4
  <2> QED BY <2>6, <2>7
<1> QED BY <1>2, <1>3

(* Two methods of a class in one slot are one. *)
LEMMA OneInSlot ==
    ASSUME GoodProgram, NEW x \in ClassMethods, NEW y \in ClassMethods, x[1] = y[1],
           Original[x] = Original[y]
    PROVE  x = y
<1>1. x \in Methods /\ y \in Methods
  BY DEF ClassMethods
<1>2. Original[x] # NoMethod /\ SameName(Original[x], x) /\ SameName(Original[y], y)
  BY <1>1, OriginalIs
<1>3. SameName(x, y)
  BY <1>2 DEF SameName
<1> QED BY <1>1, <1>3, NamesAreUnique

(* The methods of a class that is no interface *)
LEMMA OwnOfClass ==
    ASSUME GoodProgram, NEW c \in Classes \ Ifaces
    PROVE  /\ \A x \in ToSet(Own(c)) : x \in ClassMethods /\ x[1] = c /\ x \in Methods
           /\ \A x \in Methods : x[1] = c => x \in ToSet(Own(c))
           /\ Parent(c) \in (Classes \ Ifaces) \cup {NoClass}
           /\ Ancestors(c) \subseteq Classes \ Ifaces
           /\ Ancestors(c) = Ancestors(Parent(c)) \cup {c}
           /\ c \notin Ancestors(Parent(c))
           /\ c \in Ancestors(c)
           /\ Ancestors(NoClass) = {}
           /\ NoClass \notin Classes
<1>1. Metadata(program)
  BY DEF GoodProgram
<1>2. \A x \in ToSet(Own(c)) : x \in ClassMethods /\ x[1] = c /\ x \in Methods
  BY <1>1, MethodsAre DEF ClassMethods, Methods
<1>3. \A x \in Methods : x[1] = c => x \in ToSet(Own(c))
  BY <1>1, MethodsAre
<1>4. Ancestors(c) \subseteq Classes \ Ifaces
  BY <1>1, AncestorsAreClasses, AncestorsUnfolded
<1> QED BY <1>1, <1>2, <1>3, <1>4, ClassFacts, AncestorsUnfolded, NoneAboveItself

(* What a slot holds is in that slot: an own method, or what the parent has. *)
LEMMA HoldsIs ==
    ASSUME GoodProgram, NEW c \in Classes \ Ifaces, NEW d \in ClassMethods, Info(d).newSlot,
           d[1] \in Ancestors(c)
    PROVE  /\ Holds(c, d) \in ClassMethods /\ Original[Holds(c, d)] = d
           /\ Holds(c, d)[1] \in Ancestors(c)
           /\ \A x \in ToSet(Own(c)) : Original[x] = d => Holds(c, d) = x
           /\ (\A x \in ToSet(Own(c)) : Original[x] # d) =>
                  d[1] \in Ancestors(Parent(c)) /\ Holds(c, d) = Holds(Parent(c), d)
<1> DEFINE Right(k) ==
               /\ Holds(k, d) \in ClassMethods /\ Original[Holds(k, d)] = d
               /\ Holds(k, d)[1] \in Ancestors(k)
           Steps(k) ==
               /\ \A x \in ToSet(Own(k)) : Original[x] = d => Holds(k, d) = x
               /\ (\A x \in ToSet(Own(k)) : Original[x] # d) =>
                      d[1] \in Ancestors(Parent(k)) /\ Holds(k, d) = Holds(Parent(k), d)
           S == {k \in Classes \ Ifaces : d[1] \in Ancestors(k) /\ ~(Right(k) /\ Steps(k))}
<1>1. Metadata(program)
  BY DEF GoodProgram
<1>2. d \in Methods /\ Original[d] = d /\ d[1] \in Classes \ Ifaces
  BY <1>1, OriginalIs, MethodsAre DEF ClassMethods
<1>3. ASSUME NEW k \in Classes \ Ifaces, d[1] \in Ancestors(k),
             k # d[1] => Right(Parent(k))
      PROVE  Right(k) /\ Steps(k)
  <2> DEFINE m == IF k = d[1] THEN d ELSE Holds(Parent(k), d)
             own == {x \in ToSet(Own(k)) : Original[x] \in {d}}
  <2>1. m \in ClassMethods /\ Original[m] = d
    BY <1>2, <1>3
  <2>2. Holds(k, d) = Overridden(k, d, m)
    BY <1>1, <1>2, <1>3, HoldsUnfolded
  <2>3. Bodies(k, d) = {}
    BY <1>2, BodiesAre
  <2>4. Holds(k, d) = IF own # {} THEN OneOf(own) ELSE m
    BY <2>1, <2>2, <2>3 DEF Overridden
  <2>5. \A x \in own : x \in ClassMethods /\ x[1] = k /\ Original[x] = d /\ OneOf(own) = x
    <3>1. \A x \in own : x \in ClassMethods /\ x[1] = k /\ Original[x] = d
      BY OwnOfClass
    <3>2. \A x, y \in own : x = y
      <4> HIDE DEF own
      <4> QED BY <3>1, OneInSlot
    <3> HIDE DEF own
    <3> QED BY <3>1, <3>2, OneOfIs
  <2>6. CASE own # {}
    <3>1. PICK x \in own : TRUE
      BY <2>6
    <3>2. Holds(k, d) = x
      <4> HIDE DEF own, m
      <4> QED BY <2>4, <2>5, <2>6, <3>1
    <3>3. \A y \in ToSet(Own(k)) : Original[y] = d => y \in own
      OBVIOUS
    <3>4. x \in ClassMethods /\ x[1] = k /\ Original[x] = d
      <4> HIDE DEF own
      <4> QED BY <2>5, <3>1
    <3>5. \A y \in own : y = x
      <4> HIDE DEF own
      <4> QED BY <2>5, <3>1
    <3>6. k \in Ancestors(k)
      BY OwnOfClass
    <3> HIDE DEF own, m
    <3>7. x \in ToSet(Own(k))
      BY <3>1 DEF own
    <3> QED BY <3>2, <3>3, <3>4, <3>5, <3>6, <3>7
  <2>7. CASE own = {}
    <3>1. \A x \in ToSet(Own(k)) : Original[x] # d
      BY <2>7
    <3>2. k # d[1]
      BY <1>2, <3>1, OwnOfClass
    <3>3. Holds(k, d) = Holds(Parent(k), d)
      <4> HIDE DEF own
      <4> QED BY <2>4, <2>7, <3>2
    <3>4. Right(Parent(k))
      BY <1>3, <3>2
    <3>5. d[1] \in Ancestors(Parent(k)) /\ Ancestors(Parent(k)) \subseteq Ancestors(k)
      BY <1>3, <3>2, OwnOfClass
    <3> QED BY <3>1, <3>3, <3>4, <3>5
  <2> HIDE DEF Right, Steps, own
  <2> QED BY <2>6, <2>7
<1>4. S = {}
  <2> HIDE DEF Right, Steps
  <2>1. SUFFICES ASSUME S # {} PROVE FALSE
    OBVIOUS
  <2>2. PICK k \in S : Parent(k) \notin S
    <3>1. S \in (SUBSET Classes) \ {{}}
      BY <2>1
    <3> HIDE DEF S
    <3> QED BY <1>1, <3>1, ParentsFounded
  <2>3. k # d[1] => d[1] \in Ancestors(Parent(k)) /\ Parent(k) \in Classes \ Ifaces
    BY OwnOfClass
  <2>4. k # d[1] => Right(Parent(k))
    BY <2>2, <2>3
  <2> QED BY <1>3, <2>2, <2>4
<1> QED BY <1>4

(* The nearest method of a name is what its slot holds. *)
LEMMA NamedIsHeld ==
    ASSUME GoodProgram, NEW d, NEW c \in Classes \ Ifaces, Named(c, d) # NoMethod
    PROVE  /\ Named(c, d) \in ClassMethods /\ Original[Named(c, d)] \in ClassMethods
           /\ Info(Original[Named(c, d)]).newSlot
           /\ Original[Named(c, d)][1] \in Ancestors(c)
           /\ Holds(c, Original[Named(c, d)]) = Named(c, d)
<1> DEFINE Right(k) ==
               /\ Named(k, d) \in ClassMethods /\ Original[Named(k, d)] \in ClassMethods
               /\ Info(Original[Named(k, d)]).newSlot
               /\ Original[Named(k, d)][1] \in Ancestors(k)
               /\ Holds(k, Original[Named(k, d)]) = Named(k, d)
           S == {k \in Classes \ Ifaces : Named(k, d) # NoMethod /\ ~Right(k)}
<1>1. Metadata(program)
  BY DEF GoodProgram
<1>2. S = {}
  <2> HIDE DEF Right
  <2>1. SUFFICES ASSUME S # {} PROVE FALSE
    OBVIOUS
  <2>2. PICK k \in S : Parent(k) \notin S
    <3>1. S \in (SUBSET Classes) \ {{}}
      BY <2>1
    <3> HIDE DEF S
    <3> QED BY <1>1, <3>1, ParentsFounded
  <2>3. k \in Classes \ Ifaces /\ Named(k, d) # NoMethod
    BY <2>2
  <2> PICK x : x = Named(k, d)
    OBVIOUS
  <2> PICK o : o = Original[x]
    OBVIOUS
  <2>4. x \in Methods /\ x[1] \in Ancestors(k) /\ SameName(x, d)
    BY <2>3, NamedIs
  <2>5. Introducing(k, d) = o
    BY <2>3, NamedHasSlot
  <2>6. x \in ClassMethods
    BY <2>3, <2>4, OwnOfClass DEF ClassMethods
  <2>7. o \in Methods /\ Info(o).newSlot /\ o # NoMethod
    BY <2>4, <2>6, OriginalIs
  <2>8. o[1] \in Ancestors(k)
    BY <2>3, <2>5, <2>7, IntroducingIs
  <2>9. o \in ClassMethods
    BY <2>3, <2>7, <2>8, OwnOfClass DEF ClassMethods
  <2>10. Named(k, d) = IF NamedOwn(k, d) = {} THEN Named(Parent(k), d) ELSE OneOf(NamedOwn(k, d))
    BY <1>1, <2>3, NamedUnfolded
  <2>11. Holds(k, o) = x
    <3>1. CASE NamedOwn(k, d) # {}
      <4>1. PICK m \in NamedOwn(k, d) : TRUE
        BY <3>1
      <4>2. m = x /\ m \in ToSet(Own(k))
        BY <2>3, <2>10, <3>1, <4>1, NamedOwnIs
      <4> QED BY <2>3, <2>7, <2>8, <2>9, <4>2, HoldsIs
    <3>2. CASE NamedOwn(k, d) = {}
      <4>1. x = Named(Parent(k), d)
        BY <2>10, <3>2
      <4>2. Parent(k) \in Classes \ Ifaces
        BY <1>1, <2>3, <4>1, OwnOfClass, NamedUnfolded
      <4>3. Right(Parent(k))
        BY <2>2, <2>3, <4>1, <4>2
      <4>4. Holds(Parent(k), o) = x
        BY <4>1, <4>3 DEF Right
      <4>5. \A y \in ToSet(Own(k)) : Original[y] # o
        <5> SUFFICES ASSUME NEW y \in ToSet(Own(k)), Original[y] = o PROVE FALSE
          OBVIOUS
        <5>1. y \in Methods /\ y[1] = k
          BY <2>3, OwnOfClass
        <5>2. SameName(o, y) /\ SameName(o, x)
          BY <2>4, <2>7, <5>1, OriginalIs
        <5>3. SameName(y, d)
          BY <2>4, <5>2 DEF SameName
        <5> QED BY <2>3, <3>2, <5>1, <5>3, NamedOwnIs
      <4> QED BY <2>3, <2>7, <2>8, <2>9, <4>4, <4>5, HoldsIs
    <3> QED BY <3>1, <3>2
  <2> QED BY <2>2, <2>3, <2>6, <2>7, <2>8, <2>9, <2>11 DEF Right
<1> QED BY <1>2

(* The interfaces of a class are its parent's and those it lists. *)
LEMMA ImplementsAre ==
    ASSUME GoodProgram, NEW c \in Classes \ Ifaces
    PROVE  /\ Implements(c) = Implements(Parent(c)) \cup Listed(c)
           /\ Implements(c) \subseteq Ifaces /\ Listed(c) \subseteq Ifaces
           /\ Implements(NoClass) = {}
           /\ Parent(c) = NoClass => Implements(c) = {}
           /\ \A i \in Implements(c) : i \notin Listed(i) /\ Listed(i) \subseteq Implements(c)
           /\ \A i \in Implements(Parent(c)) : Listed(i) \subseteq Implements(Parent(c))
           /\ \A i \in Listed(c) : Listed(i) \subseteq Listed(c)
<1>1. Metadata(program) /\ Compiled
  BY DEF GoodProgram
<1>2. ASSUME NEW k \in Classes PROVE Listed(k) \subseteq Ifaces
  <2> PICK s : s = program[k].lists
    OBVIOUS
  <2>1. s \in Seq(Ifaces)
    BY <1>1, ClassFacts
  <2>2. \A j \in DOMAIN s : s[j] \in Ifaces
    BY <2>1, SeqElements
  <2> QED BY <2>2 DEF Listed, ToSet
<1>3. Ancestors(c) = Ancestors(Parent(c)) \cup {c} /\ Ancestors(NoClass) = {} /\ Ancestors(c) \subseteq Classes
  BY OwnOfClass
<1>4. Implements(c) = Implements(Parent(c)) \cup Listed(c)
  BY <1>3 DEF Implements
<1>5. Implements(NoClass) = {}
  BY <1>3 DEF Implements
<1>6. Parent(c) = NoClass => Listed(c) = {}
  BY <1>1 DEF Compiled, Ifaces
<1>7. \A k \in Classes : \A i \in Listed(k) : i \in Classes /\ i # k /\ Listed(i) \subseteq Listed(k)
  BY <1>1, <1>2 DEF Compiled, Ifaces
<1>8. \A i \in Ifaces : i \notin Listed(i)
  BY <1>7 DEF Ifaces
<1>9. Implements(c) \subseteq Ifaces
  BY <1>2, <1>3 DEF Implements
<1>10. Implements(Parent(c)) \subseteq Implements(c)
  BY <1>4
<1>11. \A i \in Implements(c) : Listed(i) \subseteq Implements(c)
  BY <1>3, <1>7 DEF Implements
<1>12. \A i \in Implements(Parent(c)) : Listed(i) \subseteq Implements(Parent(c))
  BY <1>3, <1>7 DEF Implements
<1> QED BY <1>2, <1>4, <1>5, <1>6, <1>7, <1>8, <1>9, <1>11, <1>12

(* At most one interface of a class has a default beside the declared one. *)
LEMMA OneDefault ==
    ASSUME GoodProgram, NEW c \in Classes \ Ifaces, NEW d \in Declared
    PROVE  /\ \A i, j \in Implements(c) : Bodies(i, d) # {} /\ Bodies(j, d) # {} => i = j
           /\ d[1] \in Listed(c) =>
                  /\ Bodies(c, d) = {} \/ NewOf(c, d) = {}
                  /\ Defaulting(c, d) # {} =>
                         Gives(c, d) = NoMethod \/ Bodies(c, d) # {} \/ NewOf(c, d) # {}
           /\ \A i \in Implements(c) : Bodies(i, d) # {} => d[1] \in Listed(i)
           /\ d \in Methods /\ d[1] \in Ifaces /\ IsInterface(d[1]) /\ Info(d).newSlot
BY BodiesAre, ImplementsAre DEF GoodProgram, Supported, Declared, Ifaces

(* The default is that of the one interface that has one, else d itself. *)
LEMMA DefaultIs ==
    ASSUME GoodProgram, NEW c \in Classes \ Ifaces, NEW d \in Declared, d[1] \in Implements(c)
    PROVE  /\ \A i \in Implements(c) : \A b \in Bodies(i, d) : Default(c, d) = b
           /\ (\A i \in Implements(c) : Bodies(i, d) = {}) =>
                  Default(c, d) = IF Info(d).abstract THEN NoMethod ELSE d
           /\ Default(c, d) # NoMethod => Defaulting(c, d) # {}
           /\ \A i \in Implements(c) : Bodies(i, d) # {} => i \in Defaulting(c, d)
           /\ ~Info(d).abstract => Defaulting(c, d) # {}
<1> PICK D : D = Defaulting(c, d)
  OBVIOUS
<1> DEFINE best == {i \in D : \A j \in D : i \notin Listed(j)}
           from == CHOOSE i \in best : TRUE
<1>1. Default(c, d) = IF Cardinality(best) # 1 THEN NoMethod
                      ELSE IF from = d[1] THEN d ELSE OneOf(Bodies(from, d))
  BY DEF Default
<1>2. \A i : i \in D <=> i \in Implements(c) /\ (Bodies(i, d) # {} \/ (i = d[1] /\ ~Info(d).abstract))
  BY DEF Defaulting
<1>3. /\ \A i, j \in Implements(c) : Bodies(i, d) # {} /\ Bodies(j, d) # {} => i = j
      /\ \A i \in Implements(c) : Bodies(i, d) # {} => d[1] \in Listed(i)
      /\ d[1] \in Ifaces
  BY OneDefault
<1>4. /\ \A i \in Implements(c) : i \in Classes /\ i \notin Listed(i)
      /\ \A i \in Implements(c) : Listed(i) \subseteq Implements(c)
  BY ImplementsAre DEF Ifaces
<1>5. ASSUME NEW i \in Implements(c), NEW b \in Bodies(i, d) PROVE Default(c, d) = b
  <2>1. d[1] \in Listed(i) /\ i # d[1] /\ i \in D
    BY <1>2, <1>3, <1>4
  <2>2. i \notin Listed(d[1])
    <3>1. Listed(d[1]) \subseteq Listed(i)
      <4>1. \A k \in Classes : \A j \in Listed(k) : Listed(j) \subseteq Listed(k)
        BY DEF GoodProgram, Compiled
      <4> QED BY <1>4, <2>1, <4>1
    <3> QED BY <1>4, <3>1
  <2>3. \A j \in D : j = i \/ j = d[1]
    BY <1>2, <1>3
  <2>4. best = {i}
    <3>1. i \in best
      BY <1>4, <2>1, <2>2, <2>3
    <3>2. d[1] \notin best
      BY <2>1
    <3>3. \A j \in best : j = i
      BY <2>3, <3>2
    <3> HIDE DEF best
    <3> QED BY <3>1, <3>3
  <2>5. Cardinality(best) = 1
    BY <2>4, FS_Singleton
  <2>6. from = i
    BY <2>4
  <2>7. OneOf(Bodies(i, d)) = b
    <3>1. \A e \in Bodies(i, d) : e = b
      BY <1>3, <1>4, BodiesAre
    <3> QED BY <3>1, OneOfIs
  <2> HIDE DEF best, from
  <2> QED BY <1>1, <2>1, <2>5, <2>6, <2>7
<1>6. ASSUME \A i \in Implements(c) : Bodies(i, d) = {}
      PROVE  /\ Default(c, d) = IF Info(d).abstract THEN NoMethod ELSE d
             /\ Info(d).abstract => D = {}
  <2>1. CASE Info(d).abstract
    <3>1. D = {} /\ best = {}
      BY <1>2, <1>6, <2>1
    <3>2. Cardinality(best) = 0
      BY <3>1, FS_EmptySet
    <3> HIDE DEF best, from
    <3> QED BY <1>1, <2>1, <3>1, <3>2
  <2>2. CASE ~Info(d).abstract
    <3>1. D = {d[1]}
      BY <1>2, <1>6, <2>2
    <3>2. best = {d[1]}
      BY <1>4, <3>1
    <3>3. Cardinality(best) = 1
      BY <3>2, FS_Singleton
    <3>4. from = d[1]
      BY <3>2
    <3> HIDE DEF best, from
    <3> QED BY <1>1, <2>2, <3>3, <3>4
  <2> QED BY <2>1, <2>2
<1>7. Default(c, d) # NoMethod => D # {}
  BY <1>2, <1>6
<1> QED BY <1>2, <1>5, <1>6, <1>7

(* What the parent gives, if there is one *)
Inherited(c, d) == IF Parent(c) = NoClass THEN NoMethod ELSE Gives(Parent(c), d)

(* What a class gives, one case after the other *)
LEMMA GivesIs ==
    ASSUME GoodProgram, NEW c \in Classes \ Ifaces, NEW d \in Declared
    PROVE  /\ Gives(c, d) # NoMethod =>
                  Gives(c, d) \in ClassMethods /\ Gives(c, d)[1] \in Ancestors(c)
           /\ d[1] \notin Implements(c) => Gives(c, d) = NoMethod
           /\ d[1] \in Implements(c) =>
                  /\ \A b \in Bodies(c, d) : Gives(c, d) = b
                  /\ \A x \in NewOf(c, d) :
                         Bodies(c, d) = {} /\ d[1] \in Listed(c) => Gives(c, d) = x
                  /\ Bodies(c, d) = {} /\ (d[1] \notin Listed(c) \/ NewOf(c, d) = {}) =>
                         Gives(c, d) = IF Inherited(c, d) # NoMethod \/ d[1] \notin Listed(c)
                                       THEN Inherited(c, d) ELSE Named(c, d)
<1> DEFINE Right(k) == Gives(k, d) # NoMethod =>
                           Gives(k, d) \in ClassMethods /\ Gives(k, d)[1] \in Ancestors(k)
           S == {k \in Classes \ Ifaces : ~Right(k)}
<1>1. Metadata(program) /\ d[1] \in Ifaces
  BY OneDefault DEF GoodProgram
<1>2. ASSUME NEW k \in Classes \ Ifaces
      PROVE  /\ d[1] \notin Implements(k) => Gives(k, d) = NoMethod
             /\ d[1] \in Implements(k) =>
                    /\ \A b \in Bodies(k, d) : Gives(k, d) = b
                    /\ \A x \in NewOf(k, d) :
                           Bodies(k, d) = {} /\ d[1] \in Listed(k) => Gives(k, d) = x
                    /\ Bodies(k, d) = {} /\ (d[1] \notin Listed(k) \/ NewOf(k, d) = {}) =>
                           Gives(k, d) = IF Inherited(k, d) # NoMethod \/ d[1] \notin Listed(k)
                                         THEN Inherited(k, d) ELSE Named(k, d)
  <2>1. Gives(k, d) = IF d[1] \notin Implements(k) THEN NoMethod ELSE Given(k, d, Inherited(k, d))
    BY <1>1, GivesUnfolded DEF Inherited
  <2> PICK m : m = Inherited(k, d)
    OBVIOUS
  <2>2. Given(k, d, m) = IF Bodies(k, d) # {} THEN OneOf(Bodies(k, d))
                         ELSE IF d[1] \in Listed(k) /\ NewOf(k, d) # {} THEN OneOf(NewOf(k, d))
                         ELSE IF m # NoMethod \/ d[1] \notin Listed(k) THEN m
                         ELSE Named(k, d)
    BY DEF Given, Named
  <2>3. \A b \in Bodies(k, d) : OneOf(Bodies(k, d)) = b
    <3>1. \A b, e \in Bodies(k, d) : b = e
      BY <1>1, BodiesAre
    <3> QED BY <3>1, OneOfIs
  <2>4. \A x \in NewOf(k, d) : OneOf(NewOf(k, d)) = x
    BY NewOfIs
  <2> QED BY <2>1, <2>2, <2>3, <2>4
<1>3. S = {}
  <2> HIDE DEF Right
  <2>1. SUFFICES ASSUME S # {} PROVE FALSE
    OBVIOUS
  <2>2. PICK k \in S : Parent(k) \notin S
    <3>1. S \in (SUBSET Classes) \ {{}}
      BY <2>1
    <3> HIDE DEF S
    <3> QED BY <1>1, <3>1, ParentsFounded
  <2>3. k \in Classes \ Ifaces /\ k \in Classes
    BY <2>2
  <2>4. /\ Ancestors(k) = Ancestors(Parent(k)) \cup {k} /\ Parent(k) \in (Classes \ Ifaces) \cup {NoClass}
        /\ Ancestors(k) \subseteq Classes \ Ifaces
    BY <2>3, OwnOfClass
  <2>5. Inherited(k, d) # NoMethod => Inherited(k, d) \in ClassMethods /\ Inherited(k, d)[1] \in Ancestors(k)
    BY <2>2, <2>4 DEF Inherited, Right
  <2>6. \A b \in Bodies(k, d) : b \in ClassMethods /\ b[1] \in Ancestors(k)
    BY <1>1, <2>3, <2>4, BodiesAre DEF ClassMethods
  <2>7. \A x \in NewOf(k, d) : x \in ClassMethods /\ x[1] \in Ancestors(k)
    BY <2>3, <2>4, NewOfIs DEF ClassMethods
  <2>8. Named(k, d) # NoMethod => Named(k, d) \in ClassMethods /\ Named(k, d)[1] \in Ancestors(k)
    BY <2>3, <2>4, NamedIs DEF ClassMethods
  <2>9. ~Right(k)
    BY <2>2
  <2>10. Gives(k, d) # NoMethod /\ ~(Gives(k, d) \in ClassMethods /\ Gives(k, d)[1] \in Ancestors(k))
    BY <2>9 DEF Right
  <2>11. d[1] \in Implements(k)
    BY <1>2, <2>3, <2>10
  <2>12. Bodies(k, d) = {}
    BY <1>2, <2>3, <2>6, <2>10, <2>11
  <2>13. d[1] \notin Listed(k) \/ NewOf(k, d) = {}
    BY <1>2, <2>3, <2>7, <2>10, <2>11, <2>12
  <2>14. Gives(k, d) = IF Inherited(k, d) # NoMethod \/ d[1] \notin Listed(k)
                       THEN Inherited(k, d) ELSE Named(k, d)
    BY <1>2, <2>3, <2>11, <2>12, <2>13
  <2> QED BY <2>5, <2>8, <2>10, <2>14
<1>4. Right(c)
  <2> HIDE DEF Right
  <2> QED BY <1>3
<1> QED BY <1>2, <1>4

(* An own method of a class is what its slot holds there. *)
LEMMA OwnIsHeld ==
    ASSUME GoodProgram, NEW c \in Classes \ Ifaces, NEW x \in ToSet(Own(c))
    PROVE  /\ Original[x] \in ClassMethods /\ Info(Original[x]).newSlot
           /\ Original[x][1] \in Ancestors(c) /\ Holds(c, Original[x]) = x
<1>1. x \in ClassMethods /\ x \in Methods /\ x[1] = c
  BY OwnOfClass
<1>2. /\ Original[x] \in Methods /\ Original[x][1] \in Ancestors(c) /\ Info(Original[x]).newSlot
  BY <1>1, OriginalIs
<1>3. Original[x] \in ClassMethods
  BY <1>2, OwnOfClass DEF ClassMethods
<1> QED BY <1>2, <1>3, HoldsIs

(* The same for the methods of ancestors *)
LEMMA SlotOfAncestors ==
    ASSUME GoodProgram, NEW c \in Classes \ Ifaces, NEW x \in ClassMethods, x[1] \in Ancestors(c)
    PROVE  /\ Original[x] \in ClassMethods /\ Info(Original[x]).newSlot
           /\ Original[x][1] \in Ancestors(c) /\ SameName(Original[x], x)
<1> DEFINE S == {k \in Classes \ Ifaces : x[1] \in Ancestors(k) /\ Original[x][1] \notin Ancestors(k)}
<1>1. x \in Methods
  BY DEF ClassMethods
<1>2. /\ Original[x] \in Methods /\ Original[x][1] \in Ancestors(x[1]) /\ Info(Original[x]).newSlot
      /\ SameName(Original[x], x)
  BY <1>1, OriginalIs
<1>3. S = {}
  <2>1. SUFFICES ASSUME S # {} PROVE FALSE
    OBVIOUS
  <2>2. PICK k \in S : Parent(k) \notin S
    <3>1. S \in (SUBSET Classes) \ {{}}
      BY <2>1
    <3> HIDE DEF S
    <3> QED BY <3>1, ParentsFounded DEF GoodProgram
  <2>3. k \in Classes \ Ifaces /\ x[1] \in Ancestors(k) /\ Original[x][1] \notin Ancestors(k)
    BY <2>2
  <2>4. x[1] # k
    BY <1>2, <2>3
  <2> QED BY <2>2, <2>3, <2>4, OwnOfClass
<1>4. Original[x][1] \in Ancestors(c)
  BY <1>3
<1> QED BY <1>2, <1>4, OwnOfClass DEF ClassMethods

(* A call of an interface's method: what is given, or the default *)
LEMMA RunsIs ==
    ASSUME GoodProgram, NEW c \in Classes \ Ifaces, NEW d \in Declared, d[1] \in Implements(c)
    PROVE  /\ Runs(c, d) = IF Gives(c, d) # NoMethod THEN Holds(c, Original[Gives(c, d)])
                           ELSE Default(c, d)
           /\ Runs(c, d) # NoMethod
           /\ NoMethod \notin Methods
<1>1. IsInterface(d[1]) /\ d \in Methods /\ Info(d).newSlot
  BY OneDefault
<1>2. d \in Callable(c)
  BY <1>1 DEF Callable
<1>3. Runs(c, d) # NoMethod
  BY <1>2 DEF GoodProgram, Compiled, Ifaces
<1> QED BY <1>1, <1>3, MethodsAre DEF Runs, GoodProgram

(* A row of MethodImpl of the class itself comes first. *)
LEMMA RunsOwnRow ==
    ASSUME GoodProgram, NEW c \in Classes \ Ifaces, NEW d \in Declared, d[1] \in Implements(c),
           NEW b \in Bodies(c, d)
    PROVE  Runs(c, d) = b
<1>1. Gives(c, d) = b
  BY GivesIs
<1>2. b \in ToSet(Own(c)) /\ b \in Methods
  BY OneDefault, BodiesAre
<1> QED BY <1>1, <1>2, RunsIs, OwnIsHeld

(* Then comes a new method of a class that lists the interface. *)
LEMMA RunsNew ==
    ASSUME GoodProgram, NEW c \in Classes \ Ifaces, NEW d \in Declared, d[1] \in Listed(c),
           NEW x \in NewOf(c, d)
    PROVE  Runs(c, d) = x /\ Bodies(c, d) = {}
<1>1. d[1] \in Implements(c) /\ Bodies(c, d) = {}
  BY OneDefault, ImplementsAre
<1>2. Gives(c, d) = x
  BY <1>1, GivesIs
<1>3. x \in ToSet(Own(c)) /\ x \in Methods
  BY NewOfIs
<1> QED BY <1>1, <1>2, <1>3, RunsIs, OwnIsHeld

(* Else it is the parent's, and an override is followed. *)
LEMMA RunsGiven ==
    ASSUME GoodProgram, NEW c \in Classes \ Ifaces, NEW d \in Declared, Parent(c) # NoClass,
           d[1] \in Implements(Parent(c)), Bodies(c, d) = {},
           d[1] \notin Listed(c) \/ NewOf(c, d) = {}, Gives(Parent(c), d) # NoMethod
    PROVE  /\ Runs(Parent(c), d) \in ClassMethods /\ Runs(Parent(c), d)[1] \in Ancestors(Parent(c))
           /\ \A y \in ToSet(Own(c)) : Original[y] = Original[Runs(Parent(c), d)] => Runs(c, d) = y
           /\ (\A y \in ToSet(Own(c)) : Original[y] # Original[Runs(Parent(c), d)]) =>
                  Runs(c, d) = Runs(Parent(c), d)
           /\ \A i \in Listed(c) : Bodies(i, d) = {}
<1> PICK p : p = Parent(c)
  OBVIOUS
<1> PICK g : g = Gives(p, d)
  OBVIOUS
<1>1. p \in Classes \ Ifaces /\ d[1] \in Implements(c)
  BY OwnOfClass, ImplementsAre
<1>2. Gives(c, d) = g /\ g # NoMethod
  BY <1>1, GivesIs DEF Inherited
<1>3. g \in ClassMethods /\ g[1] \in Ancestors(p) /\ g[1] \in Ancestors(c)
  BY <1>1, <1>2, GivesIs, OwnOfClass
<1> PICK o : o = Original[g]
  OBVIOUS
<1>4. /\ o \in ClassMethods /\ Info(o).newSlot /\ o[1] \in Ancestors(p) /\ o[1] \in Ancestors(c)
  BY <1>1, <1>3, SlotOfAncestors
<1>5. Runs(p, d) = Holds(p, o) /\ Runs(c, d) = Holds(c, o)
  BY <1>1, <1>2, RunsIs
<1>6. Holds(p, o) \in ClassMethods /\ Original[Holds(p, o)] = o /\ Holds(p, o)[1] \in Ancestors(p)
  BY <1>1, <1>4, HoldsIs
<1>7. /\ \A y \in ToSet(Own(c)) : Original[y] = o => Holds(c, o) = y
      /\ (\A y \in ToSet(Own(c)) : Original[y] # o) => Holds(c, o) = Holds(p, o)
  BY <1>4, HoldsIs
<1>8. ASSUME NEW i \in Listed(c), Bodies(i, d) # {} PROVE FALSE
  <2>1. i \in Implements(c)
    BY ImplementsAre
  <2>2. d[1] \in Listed(c)
    BY <1>8, <2>1, OneDefault, ImplementsAre
  <2>3. Defaulting(c, d) # {}
    BY <1>1, <1>8, <2>1, DefaultIs
  <2> QED BY <1>2, <2>2, <2>3, OneDefault
<1> QED BY <1>5, <1>6, <1>7, <1>8

(* Where the parent has a default, that or one of a listed interface runs. *)
LEMMA RunsDefault ==
    ASSUME GoodProgram, NEW c \in Classes \ Ifaces, NEW d \in Declared, Parent(c) # NoClass,
           d[1] \in Implements(Parent(c)), Bodies(c, d) = {},
           d[1] \notin Listed(c) \/ NewOf(c, d) = {}, Gives(Parent(c), d) = NoMethod
    PROVE  /\ Runs(Parent(c), d) \in Methods \ ClassMethods
           /\ \A i \in Listed(c) : \A b \in Bodies(i, d) : Runs(c, d) = b
           /\ (\A i \in Listed(c) : Bodies(i, d) = {}) => Runs(c, d) = Runs(Parent(c), d)
<1> PICK p : p = Parent(c)
  OBVIOUS
<1>1. p \in Classes \ Ifaces /\ d[1] \in Implements(c) /\ Gives(p, d) = NoMethod
  BY OwnOfClass, ImplementsAre
<1>2. Runs(p, d) = Default(p, d) /\ Default(p, d) # NoMethod
  BY <1>1, RunsIs
<1>3. d \in Methods /\ d[1] \in Ifaces
  BY OneDefault
<1>4. \A i \in Implements(c) : i \in Classes /\ i \in Ifaces
  BY ImplementsAre DEF Ifaces
<1>5. Implements(c) = Implements(p) \cup Listed(c)
  BY ImplementsAre
<1>6. Runs(p, d) \in Methods \ ClassMethods
  <2>1. CASE \E i \in Implements(p) : Bodies(i, d) # {}
    <3>1. PICK i \in Implements(p) : Bodies(i, d) # {}
      BY <2>1
    <3>2. PICK b \in Bodies(i, d) : TRUE
      BY <3>1
    <3>3. Default(p, d) = b
      BY <1>1, <3>1, DefaultIs
    <3>4. b \in Methods /\ b[1] = i
      BY <1>3, <1>4, <1>5, BodiesAre
    <3> QED BY <1>2, <1>4, <1>5, <3>3, <3>4 DEF ClassMethods
  <2>2. CASE \A i \in Implements(p) : Bodies(i, d) = {}
    <3>1. Default(p, d) = d
      BY <1>1, <1>2, <2>2, DefaultIs
    <3> QED BY <1>2, <1>3, <3>1 DEF ClassMethods
  <2> QED BY <2>1, <2>2
<1>7. Defaulting(p, d) # {} /\ Defaulting(c, d) # {}
  <2>1. Defaulting(p, d) # {}
    BY <1>1, <1>2, DefaultIs
  <2>2. Defaulting(p, d) \subseteq Defaulting(c, d)
    BY <1>5 DEF Defaulting
  <2> QED BY <2>1, <2>2
<1>8. Gives(c, d) = NoMethod
  <2>1. CASE d[1] \notin Listed(c)
    BY <1>1, <2>1, GivesIs DEF Inherited
  <2>2. CASE d[1] \in Listed(c)
    BY <1>7, <2>2, OneDefault
  <2> QED BY <2>1, <2>2
<1>9. Runs(c, d) = Default(c, d)
  BY <1>1, <1>8, RunsIs
<1>10. \A i \in Listed(c) : \A b \in Bodies(i, d) : Default(c, d) = b
  BY <1>1, <1>5, DefaultIs
<1>11. ASSUME \A i \in Listed(c) : Bodies(i, d) = {} PROVE Default(c, d) = Default(p, d)
  <2>1. CASE \E i \in Implements(p) : Bodies(i, d) # {}
    <3>1. PICK i \in Implements(p) : Bodies(i, d) # {}
      BY <2>1
    <3>2. PICK b \in Bodies(i, d) : TRUE
      BY <3>1
    <3>3. i \in Implements(c)
      BY <1>5
    <3>4. Default(p, d) = b
      BY <1>1, <3>1, DefaultIs
    <3>5. Default(c, d) = b
      BY <1>1, <3>3, DefaultIs
    <3> QED BY <3>4, <3>5
  <2>2. CASE \A i \in Implements(p) : Bodies(i, d) = {}
    <3>1. \A i \in Implements(c) : Bodies(i, d) = {}
      BY <1>5, <1>11, <2>2
    <3>2. Default(p, d) = IF Info(d).abstract THEN NoMethod ELSE d
      BY <1>1, <2>2, DefaultIs
    <3>3. Default(c, d) = IF Info(d).abstract THEN NoMethod ELSE d
      BY <1>1, <3>1, DefaultIs
    <3> QED BY <3>2, <3>3
  <2> QED BY <2>1, <2>2
<1> QED BY <1>2, <1>6, <1>9, <1>10, <1>11

(* For an interface that the parent lacks: a default, or what is named *)
LEMMA RunsPlaced ==
    ASSUME GoodProgram, NEW c \in Classes \ Ifaces, NEW d \in Declared, Parent(c) # NoClass,
           d[1] \in Implements(c) \ Implements(Parent(c)), Bodies(c, d) = {}, NewOf(c, d) = {}
    PROVE  /\ \A i \in Listed(c) : \A b \in Bodies(i, d) : Runs(c, d) = b
           /\ (\A i \in Listed(c) : Bodies(i, d) = {}) =>
                  /\ ~Info(d).abstract => Runs(c, d) = d
                  /\ Info(d).abstract => Named(c, d) # NoMethod /\ Runs(c, d) = Named(c, d)
<1> PICK p : p = Parent(c)
  OBVIOUS
<1>1. p \in Classes \ Ifaces /\ d[1] \in Implements(c) /\ d[1] \in Listed(c)
  BY OwnOfClass, ImplementsAre
<1>2. Gives(p, d) = NoMethod
  BY <1>1, GivesIs
<1>3. Gives(c, d) = Named(c, d)
  BY <1>1, <1>2, GivesIs DEF Inherited
<1>4. Implements(c) = Implements(p) \cup Listed(c)
  BY ImplementsAre
<1>5. \A i \in Implements(c) : Bodies(i, d) # {} => i \in Listed(c)
  <2> SUFFICES ASSUME NEW i \in Implements(p), Bodies(i, d) # {} PROVE FALSE
    BY <1>4
  <2>1. d[1] \in Listed(i)
    BY <1>4, OneDefault
  <2>2. Listed(i) \subseteq Implements(p)
    BY ImplementsAre
  <2> QED BY <2>1, <2>2
<1>6. ASSUME Defaulting(c, d) # {} PROVE Runs(c, d) = Default(c, d)
  <2>1. Gives(c, d) = NoMethod
    BY <1>1, <1>6, OneDefault
  <2> QED BY <1>1, <2>1, RunsIs
<1>7. ASSUME NEW i \in Listed(c), NEW b \in Bodies(i, d) PROVE Runs(c, d) = b
  <2>1. i \in Implements(c)
    BY <1>4
  <2>2. Defaulting(c, d) # {} /\ Default(c, d) = b
    BY <1>1, <2>1, DefaultIs
  <2> QED BY <1>6, <2>2
<1>8. ASSUME \A i \in Listed(c) : Bodies(i, d) = {}
      PROVE  /\ ~Info(d).abstract => Runs(c, d) = d
             /\ Info(d).abstract => Named(c, d) # NoMethod /\ Runs(c, d) = Named(c, d)
  <2>1. \A i \in Implements(c) : Bodies(i, d) = {}
    BY <1>5, <1>8
  <2>2. Default(c, d) = IF Info(d).abstract THEN NoMethod ELSE d
    BY <1>1, <2>1, DefaultIs
  <2>3. ~Info(d).abstract => Runs(c, d) = d
    BY <1>1, <1>6, <2>2, DefaultIs
  <2>4. ASSUME Info(d).abstract PROVE Named(c, d) # NoMethod /\ Runs(c, d) = Named(c, d)
    <3>1. Gives(c, d) # NoMethod
      BY <1>1, <2>2, <2>4, RunsIs
    <3>2. Holds(c, Original[Named(c, d)]) = Named(c, d)
      BY <1>3, <3>1, NamedIsHeld
    <3> QED BY <1>1, <1>3, <3>1, <3>2, RunsIs
  <2> QED BY <2>3, <2>4
<1> QED BY <1>7, <1>8

------------------------------------------------------------------------------
(***************************************************************************)
(* Sequences behind one another, and the last method of a name.            *)
(***************************************************************************)
(* The elements of two sequences, one behind the other *)
LEMMA ConcatIs ==
    ASSUME NEW T, NEW s \in Seq(T), NEW t \in Seq(T)
    PROVE  /\ s \o t \in Seq(T) /\ Len(s) \in Nat /\ Len(t) \in Nat
           /\ DOMAIN s = 1 .. Len(s) /\ DOMAIN t = 1 .. Len(t)
           /\ DOMAIN (s \o t) = 1 .. (Len(s) + Len(t)) /\ Len(s \o t) = Len(s) + Len(t)
           /\ \A k \in DOMAIN s : k \in DOMAIN (s \o t) /\ (s \o t)[k] = s[k]
           /\ \A j \in DOMAIN t : Len(s) + j \in DOMAIN (s \o t) /\ (s \o t)[Len(s) + j] = t[j]
           /\ \A k \in DOMAIN (s \o t) :
                  k \in DOMAIN s \/ (k - Len(s) \in DOMAIN t /\ (s \o t)[k] = t[k - Len(s)])
OBVIOUS

(* The elements of all sequences, and the first sequence at the front *)
LEMMA FlattenIs ==
    ASSUME NEW T, NEW seqs \in Seq(Seq(T)), NEW flat, flat = FlattenSeq(seqs)
    PROVE  /\ \A k \in DOMAIN flat :
                  \E i \in DOMAIN seqs : \E j \in DOMAIN seqs[i] : flat[k] = seqs[i][j]
           /\ \A i \in DOMAIN seqs : \A j \in DOMAIN seqs[i] :
                  \E k \in DOMAIN flat : flat[k] = seqs[i][j]
           /\ seqs # <<>> => Longer(flat, seqs[1])
<1> DEFINE Within(f, n) == \A k \in DOMAIN f :
                               \E i \in 1 .. n : \E j \in DOMAIN seqs[i] : f[k] = seqs[i][j]
           Has(f, i) == \A j \in DOMAIN seqs[i] : \E k \in DOMAIN f : f[k] = seqs[i][j]
           Begins(f) == Len(seqs[1]) <= Len(f) /\ \A k \in DOMAIN seqs[1] : f[k] = seqs[1][k]
           Right(f, n) == Within(f, n) /\ (\A i \in 1 .. n : Has(f, i)) /\ (n # 0 => Begins(f))
<1>1. PICK F : Flattens(F, T, seqs) /\ FlattenSeq(seqs) = F[Len(seqs)]
  BY FlattenUnfolded
<1> PICK n : n = Len(seqs)
  OBVIOUS
<1>2. n \in Nat /\ DOMAIN seqs = 1 .. n /\ \A i \in 1 .. n : seqs[i] \in Seq(T)
  OBVIOUS
<1> DEFINE Bad == {m \in 0 .. n : ~Right(F[m], m)}
<1>3. Bad = {}
  <2> HIDE DEF Right
  <2>1. SUFFICES ASSUME Bad # {} PROVE FALSE
    OBVIOUS
  <2>2. PICK m \in Bad : \A u \in Bad : m <= u
    <3>1. Bad \in SUBSET Nat
      OBVIOUS
    <3> HIDE DEF Bad
    <3> QED BY <2>1, <3>1, LeastNat
  <2>3. m \in 0 .. n /\ ~Right(F[m], m)
    BY <2>2
  <2>4. CASE m = 0
    <3>1. F[0] = <<>>
      BY <1>1 DEF Flattens
    <3>2. Right(<<>>, 0)
      BY DEF Right
    <3> QED BY <2>3, <2>4, <3>1, <3>2
  <2>5. CASE m # 0
    <3>1. m - 1 \in 0 .. n /\ m - 1 \notin Bad /\ m \in 1 .. n
      BY <1>2, <2>2, <2>3, <2>5
    <3> PICK s : s = F[m - 1]
      OBVIOUS
    <3> PICK t : t = seqs[m]
      OBVIOUS
    <3>2. Right(s, m - 1)
      BY <3>1
    <3>3. F[m] = s \o t /\ s \in Seq(T) /\ t \in Seq(T)
      BY <1>1, <1>2, <3>1 DEF Flattens
    <3> PICK f : f = s \o t
      OBVIOUS
    <3>4. /\ Len(s) \in Nat /\ Len(t) \in Nat /\ DOMAIN s = 1 .. Len(s)
          /\ Len(f) = Len(s) + Len(t)
          /\ \A k \in DOMAIN s : k \in DOMAIN f /\ f[k] = s[k]
          /\ \A j \in DOMAIN t : Len(s) + j \in DOMAIN f /\ f[Len(s) + j] = t[j]
          /\ \A k \in DOMAIN f : k \in DOMAIN s \/ (k - Len(s) \in DOMAIN t /\ f[k] = t[k - Len(s)])
      <4>1. s \in Seq(T) /\ t \in Seq(T)
        BY <3>3
      <4> QED BY ONLY <4>1, ConcatIs, f = s \o t
    <3>5. \A i \in 1 .. m : i \in 1 .. (m - 1) \/ i = m
      BY <3>1
    <3>6. \A i \in 1 .. (m - 1) : i \in 1 .. m
      BY <3>1
    <3>7. Within(f, m)
      <4> SUFFICES ASSUME NEW k \in DOMAIN f
                   PROVE  \E i \in 1 .. m : \E j \in DOMAIN seqs[i] : f[k] = seqs[i][j]
        OBVIOUS
      <4>1. CASE k \in DOMAIN s
        <5>1. PICK i \in 1 .. (m - 1) : \E j \in DOMAIN seqs[i] : s[k] = seqs[i][j]
          BY <3>2, <4>1 DEF Right
        <5> QED BY <3>4, <3>6, <4>1, <5>1
      <4>2. CASE k \notin DOMAIN s
        <5>1. k - Len(s) \in DOMAIN seqs[m] /\ f[k] = seqs[m][k - Len(s)]
          BY <3>4, <4>2
        <5>2. m \in 1 .. m
          BY <3>1
        <5> QED BY <5>1, <5>2
      <4> QED BY <4>1, <4>2
    <3>8. ASSUME NEW i \in 1 .. m PROVE Has(f, i)
      <4>1. CASE i \in 1 .. (m - 1)
        <5>1. Has(s, i)
          BY <3>2, <4>1 DEF Right
        <5>2. ASSUME NEW j \in DOMAIN seqs[i] PROVE \E k \in DOMAIN f : f[k] = seqs[i][j]
          <6>1. PICK k \in DOMAIN s : s[k] = seqs[i][j]
            BY <5>1
          <6>2. k \in DOMAIN f /\ f[k] = s[k]
            BY <3>4, <6>1
          <6> QED BY <6>1, <6>2
        <5> QED BY <5>2
      <4>2. CASE i = m
        BY <3>4, <4>2
      <4> QED BY <3>5, <4>1, <4>2
    <3>9. Begins(f)
      <4>1. CASE m = 1
        <5>1. s = <<>>
          BY <1>1, <4>1 DEF Flattens
        <5>2. f = t
          BY <3>3, <5>1
        <5>3. Begins(t)
          BY <3>4, <4>1
        <5> QED BY <5>2, <5>3
      <4>2. CASE m # 1
        <5>1. Begins(s)
          BY <3>1, <3>2, <4>2 DEF Right
        <5>2. seqs[1] \in Seq(T) /\ 1 \in 1 .. n
          BY <1>2, <3>1
        <5>3. Len(seqs[1]) \in Nat /\ DOMAIN seqs[1] = 1 .. Len(seqs[1])
          BY <5>2
        <5>4. \A k \in DOMAIN seqs[1] : k \in DOMAIN s
          BY <3>4, <5>1, <5>3
        <5>5. Len(seqs[1]) <= Len(f)
          <6> HIDE DEF Right, Within, Has
          <6>1. Len(s) \in Nat /\ Len(t) \in Nat /\ Len(f) = Len(s) + Len(t)
            BY <3>4
          <6>2. Len(seqs[1]) \in Nat /\ Len(seqs[1]) <= Len(s)
            BY <5>1, <5>3
          <6> QED BY ONLY <6>1, <6>2
        <5>6. \A k \in DOMAIN seqs[1] : f[k] = seqs[1][k]
          BY <3>4, <5>1, <5>4
        <5> QED BY <5>5, <5>6
      <4> QED BY <4>1, <4>2
    <3> HIDE DEF Within, Has, Begins
    <3>10. Right(f, m)
      BY <3>7, <3>8, <3>9 DEF Right
    <3> QED BY <2>3, <3>3, <3>10
  <2> QED BY <2>4, <2>5
<1>4. Right(flat, n)
  <2>1. n \in 0 .. n
    BY <1>2
  <2> HIDE DEF Right
  <2> QED BY <1>1, <1>3, <2>1
<1>5. seqs # <<>> => n # 0
  BY <1>2
<1>6. Within(flat, n) /\ (\A i \in 1 .. n : Has(flat, i)) /\ (seqs # <<>> => Begins(flat))
  <2> HIDE DEF Within, Has, Begins
  <2> QED BY <1>4, <1>5
<1>7. seqs # <<>> => Longer(flat, seqs[1])
  BY <1>6 DEF Longer
<1>8. \A i \in DOMAIN seqs : \A j \in DOMAIN seqs[i] : \E k \in DOMAIN flat : flat[k] = seqs[i][j]
  BY <1>2, <1>6
<1>9. ASSUME NEW k \in DOMAIN flat
      PROVE  \E i \in DOMAIN seqs : \E j \in DOMAIN seqs[i] : flat[k] = seqs[i][j]
  <2>1. Within(flat, n)
    BY <1>6
  <2>2. PICK i \in 1 .. n : \E j \in DOMAIN seqs[i] : flat[k] = seqs[i][j]
    BY <2>1
  <2> QED BY <1>2, <2>2
<1> HIDE DEF Within, Has, Begins, Right
<1> QED BY <1>7, <1>8, <1>9

(* The method found last is the one behind which there is no other. *)
LastOf(s, d, x) ==
    IF x = NoMethod THEN \A k \in DOMAIN s : ~SameName(s[k], d)
    ELSE \E r \in DOMAIN s : /\ s[r] = x /\ SameName(x, d)
                             /\ \A k \in DOMAIN s : k > r => ~SameName(s[k], d)

(* What LastMatch finds *)
LEMMA LastMatchIs ==
    ASSUME NEW s \in Seq(Methods), NEW d, NEW x, LastOf(s, d, x)
    PROVE  /\ x = NoMethod => LastMatch(s, d) = 0
           /\ x # NoMethod => LastMatch(s, d) # 0 /\ s[LastMatch(s, d)] = x
<1> DEFINE I == {k \in 1 .. Len(s) : SameName(s[k], d)}
<1>1. Len(s) \in Nat /\ DOMAIN s = 1 .. Len(s)
  BY SeqElements
<1>2. LastMatch(s, d) = IF I # {} THEN Max(I) ELSE 0
  BY DEF LastMatch, SelectLastInSeq
<1>3. CASE x = NoMethod
  <2>1. I = {}
    BY <1>1, <1>3 DEF LastOf
  <2> HIDE DEF I
  <2> QED BY <1>2, <1>3, <2>1
<1>4. CASE x # NoMethod
  <2>1. PICK r \in DOMAIN s : /\ s[r] = x /\ SameName(x, d)
                              /\ \A k \in DOMAIN s : k > r => ~SameName(s[k], d)
    BY <1>4 DEF LastOf
  <2>2. r \in I /\ I \in SUBSET (0 .. Len(s)) /\ I \in SUBSET (1 .. Len(s))
    BY <1>1, <2>1
  <2>3. Max(I) \in I /\ \A k \in I : k <= Max(I)
    <3> HIDE DEF I
    <3> QED BY <1>1, <2>2, MaxIsUpper
  <2>4. Max(I) = r
    <3>1. \A k \in I : k \in DOMAIN s /\ SameName(s[k], d) /\ k \in Nat
      BY <1>1
    <3> HIDE DEF I
    <3> QED BY <1>1, <2>1, <2>2, <2>3, <3>1
  <2>5. r \in Nat /\ r # 0 /\ I # {}
    BY <1>1, <2>2
  <2> HIDE DEF I
  <2> QED BY <1>2, <1>4, <2>1, <2>4, <2>5
<1> QED BY <1>3, <1>4

(* collect_virtual_methods: the parent's, and the class's own behind them *)
LEMMA HierarchyUnfolded ==
    ASSUME Metadata(program)
    PROVE  /\ Hierarchy(NoClass) = <<>>
           /\ \A c \in Classes : /\ Hierarchy(c) = Hierarchy(Parent(c)) \o Own(c)
                                 /\ Hierarchy(Parent(c)) \in Seq(Methods)
<1> PICK M : M = Seq(Methods)
  OBVIOUS
<1> DEFINE owns(s) == [k \in DOMAIN s |-> Own(s[k])]
<1>1. ASSUME NEW s \in Seq(Classes) PROVE owns(s) \in Seq(M) /\ DOMAIN owns(s) = DOMAIN s
  <2>1. DOMAIN s = 1 .. Len(s) /\ Len(s) \in Nat /\ \A k \in DOMAIN s : s[k] \in Classes
    BY SeqElements
  <2>2. \A k \in DOMAIN s : Own(s[k]) \in M
    BY <2>1, MethodsAre
  <2> PICK t : t = owns(s)
    OBVIOUS
  <2>3. t \in [1 .. Len(s) -> M]
    BY <2>1, <2>2
  <2> QED BY <2>1, <2>3
<1>2. Hierarchy(NoClass) = <<>>
  <2>1. Line[NoClass] = <<>>
    BY LineUnfolded
  <2>2. owns(<<>>) \in Seq(Seq(Methods)) /\ DOMAIN owns(<<>>) = {}
    BY <1>1
  <2>3. FlattenSeq(owns(<<>>)) = <<>>
    <3> HIDE DEF owns
    <3> QED BY <2>2, FlattenNothing
  <2> QED BY <2>1, <2>3 DEF Hierarchy
<1>3. ASSUME NEW c \in Classes PROVE Hierarchy(c) = Hierarchy(Parent(c)) \o Own(c)
  <2> PICK s : s = Line[Parent(c)]
    OBVIOUS
  <2> PICK o : o = Own(c)
    OBVIOUS
  <2>1. s \in Seq(Classes) /\ Line[c] = Append(s, c)
    BY LineUnfolded
  <2>2. owns(Append(s, c)) = Append(owns(s), Own(c))
    <3> PICK u : u = Append(s, c)
      OBVIOUS
    <3>1. /\ DOMAIN s = 1 .. Len(s) /\ Len(s) \in Nat /\ DOMAIN u = 1 .. (Len(s) + 1)
          /\ u[Len(s) + 1] = c /\ \A k \in DOMAIN s : u[k] = s[k]
      BY <2>1
    <3> PICK w : w = owns(s)
      OBVIOUS
    <3>2. w \in Seq(M) /\ DOMAIN w = 1 .. Len(s) /\ Len(w) = Len(s) /\ \A k \in DOMAIN s : w[k] = Own(s[k])
      <4>1. w \in Seq(M) /\ DOMAIN w = DOMAIN s
        BY <1>1, <2>1
      <4>2. Len(w) = Len(s)
        BY <3>1, <4>1
      <4> QED BY <3>1, <4>1, <4>2
    <3>3. DOMAIN Append(w, o) = 1 .. (Len(s) + 1) /\ Append(w, o)[Len(s) + 1] = o
          /\ (\A k \in DOMAIN s : Append(w, o)[k] = w[k])
          /\ Append(w, o) = [k \in 1 .. (Len(s) + 1) |-> Append(w, o)[k]]
      BY <3>1, <3>2
    <3>4. \A k \in DOMAIN u : Own(u[k]) = Append(w, o)[k]
      BY <3>1, <3>2, <3>3
    <3>5. [k \in DOMAIN u |-> Own(u[k])] = Append(w, o)
      BY <3>1, <3>3, <3>4
    <3> QED BY <3>5
  <2>3. owns(s) \in Seq(Seq(Methods)) /\ o \in Seq(Methods)
    BY <1>1, <2>1, MethodsAre
  <2>4. FlattenSeq(Append(owns(s), o)) = FlattenSeq(owns(s)) \o o
    <3> HIDE DEF owns
    <3> QED BY <2>3, FlattenAppend
  <2> QED BY <2>1, <2>2, <2>4 DEF Hierarchy
<1>4. \A c \in Classes : Hierarchy(Parent(c)) \in Seq(Methods)
  <2>1. <<>> \in Seq(Methods)
    OBVIOUS
  <2> QED BY <1>2, <2>1, HierarchyType, ParentsAre
<1> QED BY <1>2, <1>3, <1>4

(* The last method of a name that is collected is the nearest one. *)
LEMMA NamedIsLast ==
    ASSUME GoodProgram, NEW d, NEW c \in Classes \cup {NoClass}
    PROVE  LastOf(Hierarchy(c), d, Named(c, d))
<1> DEFINE S == {k \in Classes : ~LastOf(Hierarchy(k), d, Named(k, d))}
<1>1. Metadata(program)
  BY DEF GoodProgram
<1>2. LastOf(Hierarchy(NoClass), d, Named(NoClass, d))
  BY <1>1, HierarchyUnfolded, NamedUnfolded DEF LastOf
<1>3. S = {}
  <2>1. SUFFICES ASSUME S # {} PROVE FALSE
    OBVIOUS
  <2>2. PICK k \in S : Parent(k) \notin S
    <3>1. S \in (SUBSET Classes) \ {{}}
      BY <2>1
    <3> HIDE DEF S
    <3> QED BY <1>1, <3>1, ParentsFounded
  <2> PICK s : s = Hierarchy(Parent(k))
    OBVIOUS
  <2> PICK t : t = Own(k)
    OBVIOUS
  <2> PICK y : y = Named(Parent(k), d)
    OBVIOUS
  <2>3. LastOf(s, d, y)
    BY <1>1, <1>2, <2>2, ParentsAre
  <2>4. Hierarchy(k) = s \o t /\ s \in Seq(Methods) /\ t \in Seq(Methods)
    BY <1>1, HierarchyUnfolded, MethodsAre
  <2> PICK u : u = s \o t
    OBVIOUS
  <2>5. /\ Len(s) \in Nat /\ Len(t) \in Nat /\ DOMAIN s = 1 .. Len(s) /\ DOMAIN t = 1 .. Len(t)
        /\ DOMAIN u = 1 .. (Len(s) + Len(t))
        /\ \A j \in DOMAIN s : j \in DOMAIN u /\ u[j] = s[j]
        /\ \A j \in DOMAIN t : Len(s) + j \in DOMAIN u /\ u[Len(s) + j] = t[j]
        /\ \A j \in DOMAIN u : j \in DOMAIN s \/ (j - Len(s) \in DOMAIN t /\ u[j] = t[j - Len(s)])
    BY <2>4, ConcatIs
  <2>6. Named(k, d) = IF NamedOwn(k, d) = {} THEN y ELSE OneOf(NamedOwn(k, d))
    BY <1>1, NamedUnfolded
  <2>7. \A j \in DOMAIN t : t[j] = <<k, j>> /\ t[j] \in ToSet(Own(k))
    BY <1>1, OwnMethods DEF ToSet
  <2>8. CASE NamedOwn(k, d) = {}
    <3>1. \A j \in DOMAIN t : ~SameName(t[j], d)
      BY <2>7, <2>8 DEF NamedOwn
    <3>2. CASE y = NoMethod
      <4>1. \A j \in DOMAIN u : ~SameName(u[j], d)
        BY <2>3, <2>5, <3>1, <3>2 DEF LastOf
      <4> QED BY <2>2, <2>4, <2>6, <2>8, <3>2, <4>1 DEF LastOf
    <3>3. CASE y # NoMethod
      <4>1. PICK r \in DOMAIN s : /\ s[r] = y /\ SameName(y, d)
                                  /\ \A j \in DOMAIN s : j > r => ~SameName(s[j], d)
        BY <2>3, <3>3 DEF LastOf
      <4>2. r \in DOMAIN u /\ u[r] = y
        BY <2>5, <4>1
      <4>3. \A j \in DOMAIN u : j > r => ~SameName(u[j], d)
        BY <2>5, <3>1, <4>1
      <4> QED BY <2>2, <2>4, <2>6, <2>8, <3>3, <4>1, <4>2, <4>3 DEF LastOf
    <3> QED BY <3>2, <3>3
  <2>9. CASE NamedOwn(k, d) # {}
    <3>1. PICK x \in NamedOwn(k, d) : TRUE
      BY <2>9
    <3>2. Named(k, d) = x /\ x \in ToSet(Own(k)) /\ SameName(x, d) /\ x \in Methods /\ x # NoMethod
      BY <1>1, <2>6, <2>9, <3>1, NamedOwnIs, MethodsAre
    <3>3. PICK j \in DOMAIN t : t[j] = x
      BY <3>2 DEF ToSet
    <3>4. \A i \in DOMAIN t : SameName(t[i], d) => i = j
      <4> SUFFICES ASSUME NEW i \in DOMAIN t, SameName(t[i], d) PROVE i = j
        OBVIOUS
      <4>1. t[i] \in NamedOwn(k, d)
        BY <2>7 DEF NamedOwn
      <4>2. t[i] = x
        BY <3>1, <4>1, NamedOwnIs
      <4> QED BY <2>7, <3>3, <4>2
    <3>5. Len(s) + j \in DOMAIN u /\ u[Len(s) + j] = x
      BY <2>5, <3>3
    <3>6. \A i \in DOMAIN u : i > Len(s) + j => ~SameName(u[i], d)
      <4> SUFFICES ASSUME NEW i \in DOMAIN u, i > Len(s) + j, SameName(u[i], d) PROVE FALSE
        OBVIOUS
      <4>1. i \notin DOMAIN s
        BY <2>5, <3>3
      <4>2. i - Len(s) \in DOMAIN t /\ u[i] = t[i - Len(s)]
        BY <2>5, <4>1
      <4>3. i - Len(s) = j
        BY <3>4, <4>2
      <4> QED BY <2>5, <3>3, <4>3
    <3> QED BY <2>2, <2>4, <3>2, <3>5, <3>6 DEF LastOf
  <2> QED BY <2>8, <2>9
<1> QED BY <1>2, <1>3

------------------------------------------------------------------------------
(***************************************************************************)
(* What the tables of ready classes say.                                   *)
(***************************************************************************)
(* An entry of a class's table has the method that the standard names; in  *)
(* the table of System.Object an abstract method has none.                 *)
EntryRight(c, e) ==
    IF e.method \in ClassMethods
    THEN \/ e.impl = Holds(c, e.method)
         \/ /\ e.impl = NoMethod /\ Info(e.method).abstract
            /\ Holds(c, e.method) = e.method
    ELSE e.impl = Runs(c, e.method)

(* A method's slot is that of the method that introduced it. *)
AtItsSlot(x, s, t) == s[x] + 1 \in DOMAIN t /\ t[s[x] + 1].method = Original[x]

Dispatches(c) ==
    /\ c \in Ifaces =>
           /\ vtable[c] = Entries(NewSlots(c))
           /\ \A k \in DOMAIN NewSlots(c) : slot[NewSlots(c)[k]] = k - 1
    /\ c \notin Ifaces =>
           /\ \A k \in DOMAIN vtable[c] :
                  Info(vtable[c][k].method).newSlot /\ EntryRight(c, vtable[c][k])
           /\ \A x \in ClassMethods : x[1] \in Ancestors(c) => AtItsSlot(x, slot, vtable[c])
           /\ InterfacesAt(offsets[c]) = Implements(c)

(* The slots of an interface are those of its new methods, in order. *)
LEMMA InterfaceSlots ==
    ASSUME GoodProgram, NEW i \in Ifaces, Dispatches(i)
    PROVE  /\ \A j \in DOMAIN vtable[i] :
                  /\ vtable[i][j] = Entry(vtable[i][j].method)
                  /\ vtable[i][j].method \in Declared /\ vtable[i][j].method[1] = i
                  /\ slot[vtable[i][j].method] = j - 1 /\ j \in Nat
           /\ \A d \in Declared : d[1] = i =>
                  /\ slot[d] + 1 \in DOMAIN vtable[i] /\ slot[d] \in Nat
                  /\ vtable[i][slot[d] + 1].method = d
<1> PICK s : s = NewSlots(i)
  OBVIOUS
<1> PICK w : w = vtable[i]
  OBVIOUS
<1>1. Metadata(program) /\ i \in Classes
  BY DEF GoodProgram, Ifaces
<1>2. s \in Seq(Methods) /\ ToSet(s) = {m \in ToSet(Own(i)) : Info(m).newSlot}
  BY <1>1, NewSlotsAre
<1>3. /\ DOMAIN s = 1 .. Len(s) /\ Len(s) \in Nat
      /\ \A k \in DOMAIN s : s[k] \in Methods /\ s[k] \in ToSet(s)
  BY <1>2, SeqElements DEF ToSet
<1>4. w = Entries(s) /\ \A k \in DOMAIN s : slot[s[k]] = k - 1
  BY DEF Dispatches
<1>5. DOMAIN w = DOMAIN s /\ \A k \in DOMAIN s : w[k] = Entry(s[k]) /\ w[k].method = s[k]
  BY <1>4 DEF Entries, Entry
<1>6. \A m \in ToSet(s) : m \in Declared /\ m[1] = i
  BY <1>1, <1>2, MethodsAre DEF Declared, Methods
<1>7. ASSUME NEW d \in Declared, d[1] = i
      PROVE  slot[d] + 1 \in DOMAIN w /\ slot[d] \in Nat /\ w[slot[d] + 1].method = d
  <2>1. d \in ToSet(s)
    BY <1>1, <1>2, <1>7, MethodsAre DEF Declared
  <2>2. PICK k \in DOMAIN s : s[k] = d
    BY <2>1 DEF ToSet
  <2>3. slot[d] = k - 1 /\ k \in 1 .. Len(s)
    BY <1>3, <1>4, <2>2
  <2>4. slot[d] + 1 = k /\ slot[d] \in Nat
    BY <1>3, <2>3
  <2> QED BY <1>5, <2>2, <2>4
<1>8. \A k \in DOMAIN s : k \in Nat
  BY <1>3
<1> QED BY <1>3, <1>4, <1>5, <1>6, <1>7, <1>8

(* A class is to be set up, and all it needs is. *)
AllSetUp(c) ==
    /\ GoodProgram /\ TablesType
    /\ c \in Classes \ Ifaces /\ Parent(c) # NoClass
    /\ TableFine(Parent(c)) /\ Dispatches(Parent(c))
    /\ \A i \in Implements(c) : TableFine(i) /\ Dispatches(i)

(* The parts of the first table, and the slots in it *)
LEMMA FirstEntries ==
    ASSUME NEW c, AllSetUp(c), NEW placed, placed = InterfaceOffsets(c), NEW t, t = FirstTable(c, placed)
    PROVE  /\ NewTable(c, placed, t) /\ InterfacesAt(placed) = Implements(c)
           /\ Parent(c) \in Classes \ Ifaces
           /\ \A k \in DOMAIN vtable[Parent(c)] : k \in DOMAIN t /\ t[k] = vtable[Parent(c)][k]
           /\ \A k \in DOMAIN t : k > Len(vtable[Parent(c)]) =>
                  /\ t[k] = Entry(t[k].method) /\ Info(t[k].method).newSlot
                  /\ t[k].method[1] \in {c} \cup (Implements(c) \ Implements(Parent(c)))
           /\ \A x \in ToSet(NewSlots(c)) : /\ Draft(c, placed).slot[x] + 1 \in DOMAIN t
                                            /\ t[Draft(c, placed).slot[x] + 1].method = x
           /\ \A x \in Methods \ ToSet(NewSlots(c)) : Draft(c, placed).slot[x] = slot[x]
<1> PICK p : p = Parent(c)
  OBVIOUS
<1> PICK v : v = vtable[p]
  OBVIOUS
<1> PICK behind : behind = Behind(c, placed)
  OBVIOUS
<1> PICK flat : flat = FlattenSeq(behind)
  OBVIOUS
<1> PICK b : b = v \o flat
  OBVIOUS
<1> PICK s : s = NewSlots(c)
  OBVIOUS
<1> PICK w : w = Entries(s)
  OBVIOUS
<1>1. /\ GoodProgram /\ Metadata(program) /\ TablesType /\ c \in Classes /\ c \in Classes \ Ifaces /\ p # NoClass
      /\ TableFine(p) /\ Dispatches(p) /\ \A i \in Implements(c) : TableFine(i) /\ Dispatches(i)
  BY DEF AllSetUp, GoodProgram
<1>2. p \in Classes \ Ifaces /\ p \in Classes
  BY <1>1, OwnOfClass
<1>3. ToSet(Interfaces(c)) = Listed(c)
  BY <1>1 DEF Interfaces, Listed
<1>4. Implements(c) = Implements(p) \cup Listed(c) /\ Implements(c) \subseteq Ifaces
  BY <1>1, ImplementsAre
<1>5. NewTable(c, placed, t)
  BY <1>1, <1>3, <1>4, FirstTableIs
<1>6. /\ placed \in Seq(OffsetType) /\ t \in Seq(EntryType) /\ NoneTwice(t)
      /\ InterfacesAt(placed) = InterfacesAt(offsets[p]) \cup ToSet(Interfaces(c))
  BY <1>1, <1>5 DEF NewTable
<1>7. InterfacesAt(offsets[p]) = Implements(p)
  BY <1>1, <1>2 DEF Dispatches
<1>8. InterfacesAt(placed) = Implements(c)
  BY <1>3, <1>4, <1>6, <1>7
<1>9. /\ behind \in Seq(Seq(EntryType)) /\ DOMAIN behind = DOMAIN placed /\ b = Base(c, placed)
      /\ v \in Seq(EntryType) /\ flat \in Seq(EntryType) /\ b \in Seq(EntryType)
  <2>1. behind \in Seq(Seq(EntryType)) /\ DOMAIN behind = DOMAIN placed
    BY <1>1, <1>2, <1>6, BehindType
  <2>2. flat \in Seq(EntryType)
    BY <2>1, FlattenType
  <2>3. v \in Seq(EntryType)
    BY <1>1, <1>2 DEF TablesType
  <2>4. b = Base(c, placed)
    BY DEF Base
  <2>5. b \in Seq(EntryType)
    BY <2>2, <2>3, ConcatIs
  <2> QED BY <2>1, <2>2, <2>3, <2>4, <2>5
<1>10. /\ Len(v) \in Nat /\ DOMAIN v = 1 .. Len(v) /\ Len(flat) \in Nat
       /\ Len(b) = Len(v) + Len(flat) /\ Len(b) \in Nat /\ DOMAIN b = 1 .. Len(b)
       /\ \A k \in DOMAIN v : k \in DOMAIN b /\ b[k] = v[k]
       /\ \A k \in DOMAIN b : k \in DOMAIN v \/ (k - Len(v) \in DOMAIN flat /\ b[k] = flat[k - Len(v)])
  <2>1. v \in Seq(EntryType) /\ flat \in Seq(EntryType) /\ b = v \o flat
    BY <1>9
  <2>2. /\ Len(v) \in Nat /\ DOMAIN v = 1 .. Len(v) /\ Len(flat) \in Nat
        /\ DOMAIN b = 1 .. (Len(v) + Len(flat)) /\ Len(b) = Len(v) + Len(flat)
        /\ \A k \in DOMAIN v : k \in DOMAIN b /\ b[k] = v[k]
        /\ \A k \in DOMAIN b : k \in DOMAIN v \/ (k - Len(v) \in DOMAIN flat /\ b[k] = flat[k - Len(v)])
    BY ONLY <2>1, ConcatIs
  <2> QED BY ONLY <2>2
<1>11. w \in Seq(EntryType) /\ Len(w) = Len(s) /\ s \in Seq(Methods)
       /\ ToSet(s) = {m \in ToSet(Own(c)) : Info(m).newSlot}
       /\ \A j, k \in DOMAIN s : s[j] = s[k] => j = k
  BY <1>1, EntriesAre, NewSlotsAre
<1>12. t = b \o w
  BY DEF FirstTable, Behind
<1>13. /\ Len(t) = Len(b) + Len(w) /\ DOMAIN t = 1 .. (Len(b) + Len(w)) /\ Len(w) \in Nat /\ DOMAIN w = 1 .. Len(w)
       /\ \A k \in DOMAIN b : k \in DOMAIN t /\ t[k] = b[k]
       /\ \A j \in DOMAIN w : Len(b) + j \in DOMAIN t /\ t[Len(b) + j] = w[j]
       /\ \A k \in DOMAIN t : k \in DOMAIN b \/ (k - Len(b) \in DOMAIN w /\ t[k] = w[k - Len(b)])
  <2>1. b \in Seq(EntryType) /\ w \in Seq(EntryType) /\ t = b \o w
    BY <1>9, <1>11, <1>12
  <2> QED BY ONLY <2>1, ConcatIs
<1>14. \A k \in DOMAIN v : k \in DOMAIN t /\ t[k] = v[k]
  BY <1>10, <1>13
<1>15. DOMAIN s = DOMAIN w /\ \A j \in DOMAIN s : w[j] = Entry(s[j]) /\ s[j] \in ToSet(s)
  BY DEF Entries, ToSet
<1>16. ASSUME NEW k \in DOMAIN t, k > Len(v)
       PROVE  /\ t[k] = Entry(t[k].method) /\ Info(t[k].method).newSlot
              /\ t[k].method[1] \in {c} \cup (Implements(c) \ Implements(p))
  <2>1. CASE k \in DOMAIN b
    <3>1. k \notin DOMAIN v
      BY <1>10, <1>16
    <3>2. k - Len(v) \in DOMAIN flat /\ t[k] = flat[k - Len(v)]
      BY <1>10, <1>13, <2>1, <3>1
    <3>3. PICK n \in DOMAIN behind : \E j \in DOMAIN behind[n] : t[k] = behind[n][j]
      <4>1. \A m \in DOMAIN flat :
                \E n \in DOMAIN behind : \E j \in DOMAIN behind[n] : flat[m] = behind[n][j]
        BY <1>9, FlattenIs
      <4> QED BY <3>2, <4>1
    <3>4. PICK j \in DOMAIN behind[n] : t[k] = behind[n][j]
      BY <3>3
    <3> PICK i : i = placed[n].interface
      OBVIOUS
    <3>5. behind[n] = vtable[i]
      <4>1. behind[n] = IF placed[n].offset >= Len(v) THEN vtable[i] ELSE <<>>
        BY <1>9, <3>3 DEF Behind
      <4> QED BY <3>4, <4>1
    <3>6. i \in Implements(c) /\ i \in Ifaces /\ Dispatches(i)
      BY <1>1, <1>4, <1>8, <1>9, <3>3 DEF InterfacesAt
    <3>7. /\ t[k] = Entry(t[k].method) /\ t[k].method \in Declared /\ t[k].method[1] = i
      BY <1>1, <3>4, <3>5, <3>6, InterfaceSlots
    <3>8. i \notin Implements(p)
      <4> SUFFICES ASSUME i \in Implements(p) PROVE FALSE
        OBVIOUS
      <4>1. PICK m \in DOMAIN offsets[p] : offsets[p][m].interface = i
        BY <1>7 DEF InterfacesAt
      <4> PICK at : at = offsets[p][m].offset
        OBVIOUS
      <4>2. Agrees(offsets[p], v)
        BY <1>1 DEF TableFine
      <4>3. at + Len(vtable[i]) <= Len(v) /\ v[at + j].method = vtable[i][j].method
        <5>1. j \in DOMAIN vtable[offsets[p][m].interface]
          BY <3>4, <3>5, <4>1
        <5>2. /\ offsets[p][m].offset + Len(vtable[offsets[p][m].interface]) <= Len(v)
              /\ v[offsets[p][m].offset + j].method = vtable[offsets[p][m].interface][j].method
          BY <4>1, <4>2, <5>1 DEF Agrees
        <5> QED BY <4>1, <5>2
      <4>4. at \in Nat /\ vtable[i] \in Seq(EntryType)
        <5>1. offsets[p] \in Seq(OffsetType) /\ i \in Classes
          BY <1>1, <1>2, <3>6 DEF TablesType, Ifaces
        <5> QED BY <1>1, <4>1, <5>1, OffsetsAre DEF TablesType
      <4>5. j \in 1 .. Len(vtable[i]) /\ Len(vtable[i]) \in Nat
        BY <3>4, <3>5, <4>4
      <4>6. at + j \in 1 .. Len(v)
        <5> PICK size, l : size = Len(vtable[i]) /\ l = Len(v)
          OBVIOUS
        <5>1. at + size <= l /\ at \in Nat /\ j \in 1 .. size /\ size \in Nat /\ l \in Nat
          BY <1>10, <4>3, <4>4, <4>5
        <5>2. at + j \in 1 .. l
          BY ONLY <5>1
        <5> QED BY <5>2
      <4>7. at + j \in DOMAIN t /\ t[at + j].method = t[k].method
        BY <1>10, <1>14, <3>4, <3>5, <4>3, <4>6
      <4>8. at + j = k
        BY <1>6, <4>7 DEF NoneTwice
      <4> QED BY <1>10, <1>16, <4>6, <4>8
    <3> QED BY <3>6, <3>7, <3>8 DEF Declared
  <2>2. CASE k \notin DOMAIN b
    <3>1. k - Len(b) \in DOMAIN s /\ t[k] = Entry(s[k - Len(b)]) /\ s[k - Len(b)] \in ToSet(s)
      <4> PICK j : j = k - Len(b)
        OBVIOUS
      <4>1. j \in DOMAIN w /\ t[k] = w[j]
        BY ONLY <1>13, <1>16, <2>2, j = k - Len(b)
      <4>2. j \in DOMAIN s /\ w[j] = Entry(s[j]) /\ s[j] \in ToSet(s)
        BY <1>15, <4>1
      <4> QED BY <4>1, <4>2
    <3>2. t[k].method = s[k - Len(b)]
      BY <3>1 DEF Entry
    <3> QED BY <1>1, <1>11, <3>1, <3>2, OwnOfClass
  <2> QED BY <2>1, <2>2
<1> PICK so : so = Draft(c, placed).slot
  OBVIOUS
<1> PICK first : first = Len(t) - Len(s) - 1
  OBVIOUS
<1>17. so = NumberedFrom(first, s)
  BY DEF Draft
<1>18. \A x \in Methods : so[x] = IF x \in ToSet(s) THEN first + CHOOSE k \in DOMAIN s : s[k] = x ELSE slot[x]
  BY <1>17 DEF NumberedFrom
<1>19. ASSUME NEW x \in ToSet(s) PROVE so[x] + 1 \in DOMAIN t /\ t[so[x] + 1].method = x
  <2> PICK j : j = CHOOSE k \in DOMAIN s : s[k] = x
    OBVIOUS
  <2>1. \E k \in DOMAIN s : s[k] = x
    BY DEF ToSet
  <2>2. j \in DOMAIN s /\ s[j] = x
    BY <2>1
  <2>3. x \in Methods
    BY <1>11, <2>2
  <2>4. so[x] = first + j
    BY <1>18, <2>3
  <2>5. j \in DOMAIN w /\ first = Len(b) - 1 /\ j \in Nat
    BY <1>10, <1>11, <1>13, <1>15, <2>2
  <2>6. so[x] + 1 = Len(b) + j
    BY <1>10, <2>4, <2>5
  <2>7. t[Len(b) + j] = Entry(x)
    BY <1>13, <1>15, <2>2, <2>5
  <2> QED BY <1>13, <2>5, <2>6, <2>7 DEF Entry
<1> QED BY <1>2, <1>5, <1>8, <1>14, <1>16, <1>18, <1>19

------------------------------------------------------------------------------
(***************************************************************************)
(* The rows of MethodImpl, applied one after another.                      *)
(***************************************************************************)
(* Those of the class and of the interfaces it lists, its own in front *)
LEMMA RowsFrom ==
    ASSUME Metadata(program), NEW c \in Classes
    PROVE  /\ \A k \in DOMAIN Rows(c) : \E i \in {c} \cup ToSet(Interfaces(c)) :
                  Rows(c)[k] \in ToSet(program[i].impls)
           /\ \A i \in {c} \cup ToSet(Interfaces(c)) : \A row \in ToSet(program[i].impls) :
                  \E k \in DOMAIN Rows(c) : Rows(c)[k] = row
           /\ Longer(Rows(c), program[c].impls)
<1> PICK is : is = Interfaces(c)
  OBVIOUS
<1> PICK n : n = Len(is)
  OBVIOUS
<1> PICK r : r = Reverse(is)
  OBVIOUS
<1> PICK from : from = <<c>> \o r
  OBVIOUS
<1> PICK R : R = [class : Classes, body : Methods, decl : Methods]
  OBVIOUS
<1> PICK T : T = Seq(R)
  OBVIOUS
<1>1. n \in Nat /\ DOMAIN is = 1 .. n /\ \A k \in 1 .. n : is[k] \in Classes
  <2>1. is \in Seq(Ifaces)
    BY InterfacesAre
  <2> QED BY <2>1 DEF Ifaces
<1>2. r = [k \in 1 .. n |-> is[(n - k) + 1]] /\ r \in Seq(Classes) /\ DOMAIN r = 1 .. n /\ Len(r) = n
  <2>1. \A k \in 1 .. n : (n - k) + 1 \in 1 .. n
    BY <1>1
  <2>2. r = [k \in 1 .. n |-> is[(n - k) + 1]]
    BY DEF Reverse
  <2>3. r \in [1 .. n -> Classes]
    BY <1>1, <2>1, <2>2
  <2>4. r \in Seq(Classes)
    BY <1>1, <2>3
  <2> QED BY <1>1, <2>2, <2>4
<1>3. /\ from \in Seq(Classes) /\ DOMAIN from = 1 .. (1 + n) /\ Len(from) = 1 + n
      /\ from[1] = c /\ \A k \in DOMAIN r : 1 + k \in DOMAIN from /\ from[1 + k] = r[k]
      /\ \A k \in DOMAIN from : k = 1 \/ (k - 1 \in DOMAIN r /\ from[k] = r[k - 1])
  <2> PICK one : one = <<c>>
    OBVIOUS
  <2>1. one \in Seq(Classes) /\ Len(one) = 1 /\ DOMAIN one = {1} /\ one[1] = c
    OBVIOUS
  <2>2. r \in Seq(Classes) /\ from = one \o r /\ Len(r) = n
    BY <1>2
  <2>3. /\ from \in Seq(Classes)
        /\ DOMAIN from = 1 .. (Len(one) + Len(r)) /\ Len(from) = Len(one) + Len(r)
        /\ \A k \in DOMAIN one : k \in DOMAIN from /\ from[k] = one[k]
        /\ \A j \in DOMAIN r : Len(one) + j \in DOMAIN from /\ from[Len(one) + j] = r[j]
        /\ \A k \in DOMAIN from :
               k \in DOMAIN one \/ (k - Len(one) \in DOMAIN r /\ from[k] = r[k - Len(one)])
    <3>1. one \in Seq(Classes)
      BY <2>1
    <3> QED BY ONLY <2>2, <3>1, ConcatIs
  <2> QED BY ONLY <2>1, <2>2, <2>3
<1>4. \A k \in DOMAIN from : from[k] \in {c} \cup ToSet(is) /\ from[k] \in Classes
  <2> SUFFICES ASSUME NEW k \in DOMAIN from
               PROVE  from[k] \in {c} \cup ToSet(is) /\ from[k] \in Classes
    OBVIOUS
  <2>1. CASE k = 1
    BY <1>3, <2>1
  <2>2. CASE k # 1
    <3> PICK j : j = k - 1
      OBVIOUS
    <3>1. j \in 1 .. n /\ from[k] = r[j]
      BY <1>2, <1>3, <2>2
    <3>2. (n - j) + 1 \in 1 .. n /\ r[j] = is[(n - j) + 1]
      <4>1. r[j] = is[(n - j) + 1]
        BY ONLY <1>2, <3>1
      <4>2. (n - j) + 1 \in 1 .. n
        BY ONLY <1>1, <3>1
      <4> QED BY <4>1, <4>2
    <3>3. is[(n - j) + 1] \in ToSet(is)
      BY <1>1, <3>2 DEF ToSet
    <3> QED BY <1>1, <3>1, <3>2, <3>3
  <2> QED BY <2>1, <2>2
<1>5. \A i \in {c} \cup ToSet(is) : \E k \in DOMAIN from : from[k] = i
  <2> SUFFICES ASSUME NEW i \in {c} \cup ToSet(is) PROVE \E k \in DOMAIN from : from[k] = i
    OBVIOUS
  <2>1. CASE i = c
    <3>1. 1 \in DOMAIN from
      BY <1>1, <1>3
    <3> QED BY <1>3, <2>1, <3>1
  <2>2. CASE i \in ToSet(is)
    <3>1. PICK m \in DOMAIN is : is[m] = i
      BY <2>2 DEF ToSet
    <3> PICK j : j = (n - m) + 1
      OBVIOUS
    <3>2. j \in 1 .. n /\ (n - j) + 1 = m
      BY <1>1, <3>1
    <3>3. r[j] = i
      BY <1>2, <3>1, <3>2
    <3>4. 1 + j \in DOMAIN from /\ from[1 + j] = i
      BY <1>2, <1>3, <3>2, <3>3
    <3> QED BY <3>4
  <2> QED BY <2>1, <2>2
<1> PICK rows : rows = [k \in DOMAIN from |-> program[from[k]].impls]
  OBVIOUS
<1>6. /\ rows \in Seq(Seq(R)) /\ DOMAIN rows = DOMAIN from /\ rows # <<>> /\ rows[1] = program[c].impls
      /\ \A k \in DOMAIN rows : rows[k] = program[from[k]].impls
  <2>1. \A k \in DOMAIN from : program[from[k]].impls \in T
    BY <1>4, ClassFacts
  <2>2. rows \in [1 .. (1 + n) -> T]
    <3>1. DOMAIN from = 1 .. (1 + n)
      BY <1>3
    <3>2. rows = [k \in DOMAIN from |-> program[from[k]].impls]
      OBVIOUS
    <3> QED BY ONLY <2>1, <3>1, <3>2
  <2>3. 1 + n \in Nat
    BY <1>1
  <2>4. rows \in Seq(T)
    BY ONLY <2>2, <2>3
  <2>5. 1 \in DOMAIN rows
    BY <1>1, <1>3
  <2>6. rows \in Seq(Seq(R))
    BY ONLY <2>4, T = Seq(R)
  <2>7. DOMAIN rows = DOMAIN from /\ \A k \in DOMAIN rows : rows[k] = program[from[k]].impls
    OBVIOUS
  <2>8. rows # <<>>
    BY ONLY <2>5
  <2>9. rows[1] = program[c].impls
    BY ONLY <1>3, <2>5, <2>7
  <2> QED BY ONLY <2>6, <2>7, <2>8, <2>9
<1> PICK flat : flat = FlattenSeq(rows)
  OBVIOUS
<1>7. flat = Rows(c)
  BY DEF Rows
<1>8. /\ \A k \in DOMAIN flat :
             \E i \in DOMAIN rows : \E j \in DOMAIN rows[i] : flat[k] = rows[i][j]
      /\ \A i \in DOMAIN rows : \A j \in DOMAIN rows[i] :
             \E k \in DOMAIN flat : flat[k] = rows[i][j]
      /\ Longer(flat, rows[1])
  <2>1. rows \in Seq(Seq(R)) /\ rows # <<>>
    BY <1>6
  <2> QED BY ONLY <2>1, FlattenIs, flat = FlattenSeq(rows)
<1>9. ASSUME NEW k \in DOMAIN flat
      PROVE  \E i \in {c} \cup ToSet(is) : flat[k] \in ToSet(program[i].impls)
  <2>1. PICK m \in DOMAIN rows : \E j \in DOMAIN rows[m] : flat[k] = rows[m][j]
    BY ONLY <1>8, <1>9
  <2>2. flat[k] \in ToSet(rows[m])
    BY <2>1 DEF ToSet
  <2> QED BY <1>4, <1>6, <2>1, <2>2
<1>10. ASSUME NEW i \in {c} \cup ToSet(is), NEW row \in ToSet(program[i].impls)
       PROVE  \E k \in DOMAIN flat : flat[k] = row
  <2>1. PICK m \in DOMAIN from : from[m] = i
    BY <1>5
  <2>2. m \in DOMAIN rows /\ rows[m] = program[i].impls
    BY <1>6, <2>1
  <2>3. PICK j \in DOMAIN rows[m] : rows[m][j] = row
    BY <2>2 DEF ToSet
  <2>4. \E k \in DOMAIN flat : flat[k] = rows[m][j]
    BY ONLY <1>8, <2>2, <2>3
  <2> QED BY <2>3, <2>4
<1>11. Longer(flat, program[c].impls)
  BY <1>6, <1>8
<1> QED BY ONLY <1>7, <1>9, <1>10, <1>11, is = Interfaces(c)

(* Where the methods of an interface are in a table that has it *)
LEMMA PlacesAre ==
    ASSUME GoodProgram, TablesType, NEW offs \in Seq(OffsetType), NEW table \in Seq(EntryType),
           Agrees(offs, table), NEW i \in InterfacesAt(offs), Dispatches(i)
    PROVE  /\ i \in Ifaces /\ OffsetOf(offs, i) \in Nat /\ Len(vtable[i]) \in Nat
           /\ \A k \in OffsetOf(offs, i) + 1 .. OffsetOf(offs, i) + Len(vtable[i]) :
                  /\ k \in DOMAIN table
                  /\ table[k].method \in Declared /\ table[k].method[1] = i
           /\ \A d \in Declared : d[1] = i =>
                  /\ slot[d] + OffsetOf(offs, i) \in Nat
                  /\ slot[d] + OffsetOf(offs, i) + 1 \in
                         OffsetOf(offs, i) + 1 .. OffsetOf(offs, i) + Len(vtable[i])
                  /\ table[slot[d] + OffsetOf(offs, i) + 1].method = d
<1> PICK at : at = OffsetOf(offs, i)
  OBVIOUS
<1> PICK w : w = vtable[i]
  OBVIOUS
<1> DEFINE I == {k \in 1 .. Len(offs) : offs[k].interface = i}
<1>1. DOMAIN offs = 1 .. Len(offs) /\ Len(offs) \in Nat /\ \A k \in DOMAIN offs : offs[k] \in OffsetType
  OBVIOUS
<1>2. I # {} /\ I \in SUBSET Nat
  BY <1>1 DEF InterfacesAt
<1>3. SelectInSeq(offs, LAMBDA o : o.interface = i) = Min(I)
  BY <1>2 DEF SelectInSeq
<1>4. Min(I) \in I
  <2> HIDE DEF I
  <2> QED BY <1>2, MinIsLower
<1> PICK m : m = Min(I)
  OBVIOUS
<1>5. m \in DOMAIN offs /\ offs[m].interface = i /\ offs[m].offset = at
  <2>1. at = offs[Min(I)].offset
    BY <1>3 DEF OffsetOf
  <2> QED BY <1>1, <1>4, <2>1
<1> HIDE DEF I
<1>6. i \in Ifaces /\ at \in Nat
  <2>1. offs[m] \in OffsetType
    BY <1>1, <1>5
  <2> QED BY <1>5, <2>1 DEF OffsetType
<1>7. at + Len(w) <= Len(table) /\ \A j \in DOMAIN w : table[at + j].method = w[j].method
  <2>1. /\ offs[m].offset + Len(vtable[offs[m].interface]) <= Len(table)
        /\ \A j \in DOMAIN vtable[offs[m].interface] :
               table[offs[m].offset + j].method = vtable[offs[m].interface][j].method
    BY <1>5 DEF Agrees
  <2> QED BY <1>5, <2>1
<1>8. Len(w) \in Nat /\ DOMAIN w = 1 .. Len(w) /\ DOMAIN table = 1 .. Len(table) /\ Len(table) \in Nat
  <2>1. w \in Seq(EntryType)
    BY <1>6 DEF TablesType, Ifaces
  <2> QED BY <2>1
<1>9. /\ \A j \in DOMAIN w : w[j].method \in Declared /\ w[j].method[1] = i
      /\ \A d \in Declared : d[1] = i =>
             slot[d] + 1 \in DOMAIN w /\ slot[d] \in Nat /\ w[slot[d] + 1].method = d
  BY <1>6, InterfaceSlots
<1>10. ASSUME NEW k \in at + 1 .. at + Len(w)
       PROVE  k \in DOMAIN table /\ table[k].method \in Declared /\ table[k].method[1] = i
  <2> PICK n, l : n = Len(w) /\ l = Len(table)
    OBVIOUS
  <2> PICK j : j = k - at
    OBVIOUS
  <2>1. n \in Nat /\ l \in Nat /\ at \in Nat /\ at + n <= l /\ k \in at + 1 .. at + n
    BY <1>6, <1>7, <1>8
  <2>2. j \in 1 .. n /\ at + j = k /\ k \in 1 .. l
    BY ONLY <2>1, j = k - at
  <2>3. j \in DOMAIN w /\ k \in DOMAIN table
    BY <1>8, <2>2
  <2>4. table[at + j].method = w[j].method
    BY <1>7, <2>3
  <2> QED BY <1>9, <2>2, <2>3, <2>4
<1>11. ASSUME NEW d \in Declared, d[1] = i
       PROVE  /\ slot[d] + at \in Nat /\ slot[d] + at + 1 \in at + 1 .. at + Len(w)
              /\ table[slot[d] + at + 1].method = d
  <2> PICK n, s : n = Len(w) /\ s = slot[d]
    OBVIOUS
  <2>1. s + 1 \in DOMAIN w /\ s \in Nat /\ w[s + 1].method = d
    BY <1>9, <1>11
  <2>2. s + 1 \in 1 .. n /\ n \in Nat
    BY <1>8, <2>1
  <2>3. s + at \in Nat /\ s + at + 1 \in at + 1 .. at + n /\ s + at + 1 = at + (s + 1)
    BY ONLY <1>6, <2>1, <2>2
  <2>4. table[at + (s + 1)].method = d
    BY <1>7, <2>1
  <2> QED BY <2>3, <2>4
<1> QED BY <1>6, <1>8, <1>10, <1>11

(* The setting up of a class has begun. *)
Begun(c, placed, t) ==
    AllSetUp(c) /\ placed = InterfaceOffsets(c) /\ t = FirstTable(c, placed)

(* The methods that rows are for, and the places of those methods *)
LEMMA RowsFound ==
    ASSUME NEW c, NEW placed, NEW t, Begun(c, placed, t),
           NEW i \in {c} \cup Listed(c), NEW row \in ToSet(program[i].impls)
    PROVE  /\ row.decl \in Declared /\ row.decl[1] \in Implements(c)
           /\ row.body \in Bodies(i, row.decl) /\ row.body \in Methods /\ row.body[1] = i
<1>1. GoodProgram /\ c \in Classes \ Ifaces
  BY DEF Begun, AllSetUp
<1>2. Listed(c) \subseteq Implements(c) /\ Implements(c) \subseteq Ifaces
      /\ \A j \in Implements(c) : Listed(j) \subseteq Implements(c)
  BY <1>1, ImplementsAre
<1>3. i \in Classes
  BY <1>1, <1>2 DEF Ifaces
<1>4. row.decl \in Methods /\ row.body \in Methods
  BY <1>1, <1>3, ImplsAre DEF GoodProgram
<1>5. IsInterface(row.decl[1])
  BY <1>1, <1>3 DEF GoodProgram, Compiled, ExplicitRow
<1>6. row.decl[1] \in Ifaces
  BY <1>1, <1>4, <1>5, MethodsAre DEF Ifaces, GoodProgram
<1>7. row.body \in Bodies(i, row.decl)
  BY <1>1, <1>3, <1>6, BodiesAre
<1>8. /\ row.body[1] = i /\ row.decl \in Declared
      /\ row.decl[1] \in IF i \in Ifaces THEN Listed(i) ELSE Implements(i)
  BY <1>1, <1>3, <1>6, <1>7, BodiesAre
<1>9. row.decl[1] \in Implements(c)
  BY <1>1, <1>2, <1>8
<1> QED BY <1>4, <1>7, <1>8, <1>9

(* The first row for a slot is applied, and no other one is. *)
LEMMA RowApplied ==
    ASSUME NEW c, NEW placed, NEW t, Begun(c, placed, t), NEW draft \in DraftsOf(t),
           draft.sound, draft.slot = Draft(c, placed).slot,
           NEW row \in [class : Classes, body : Methods, decl : Methods],
           row.decl \in Declared, row.decl[1] \in Implements(c),
           NEW next, next = ApplyRow(placed, draft, row)
    PROVE  /\ next.sound /\ next.slot = draft.slot
           /\ \E k \in DOMAIN t :
                  /\ t[k].method = row.decl
                  /\ k - 1 \in draft.taken => next = draft
                  /\ k - 1 \notin draft.taken =>
                         /\ next.taken = draft.taken \cup {k - 1}
                         /\ next.table[k].impl = row.body
                         /\ \A j \in DOMAIN t : j # k => next.table[j] = draft.table[j]
<1> PICK d : d = row.decl
  OBVIOUS
<1> PICK i : i = d[1]
  OBVIOUS
<1> PICK so : so = Draft(c, placed).slot
  OBVIOUS
<1>1. /\ GoodProgram /\ TablesType /\ c \in Classes \ Ifaces /\ \A k \in Implements(c) : Dispatches(k)
      /\ Metadata(program) /\ c \in Classes
  BY DEF Begun, AllSetUp, GoodProgram
<1>2. NewTable(c, placed, t) /\ InterfacesAt(placed) = Implements(c)
      /\ \A x \in Methods \ ToSet(NewSlots(c)) : so[x] = slot[x]
  BY FirstEntries DEF Begun
<1>3. placed \in Seq(OffsetType) /\ t \in Seq(EntryType) /\ Agrees(placed, t)
  BY <1>2 DEF NewTable
<1>4. i \in InterfacesAt(placed) /\ Dispatches(i) /\ i \in Ifaces
  BY <1>1, <1>2 DEF Declared
<1> PICK at : at = slot[d] + OffsetOf(placed, i)
  OBVIOUS
<1>5. at \in Nat /\ at + 1 \in DOMAIN t /\ t[at + 1].method = d
  BY <1>1, <1>3, <1>4, PlacesAre
<1>6. so[d] = slot[d]
  <2>1. d \in Methods
    BY DEF Declared
  <2>2. d \notin ToSet(NewSlots(c))
    BY <1>1, <1>4, NewSlotsAre, OwnOfClass
  <2> QED BY <1>2, <2>1, <2>2
<1>7. IsInterface(d[1])
  BY <1>4 DEF Ifaces
<1>8. Shaped(t, draft.table) /\ draft.table \in Seq(EntryType)
  BY DraftFields
<1>9. draft.table[at + 1].method = d /\ at + 1 \in DOMAIN draft.table
  BY <1>5, <1>8 DEF Shaped
<1>10. next = IF at \in draft.taken THEN draft
              ELSE [draft EXCEPT !.table[at + 1].impl = row.body, !.taken = @ \cup {at}]
  <2>1. draft.slot[d] + (IF IsInterface(d[1]) THEN OffsetOf(placed, d[1]) ELSE 0) = at
    BY <1>6, <1>7
  <2>2. ~(d[1] \notin IF IsInterface(d[1]) THEN InterfacesAt(placed) ELSE Ancestors(row.class))
    BY <1>4, <1>7
  <2>3. row.decl = d
    OBVIOUS
  <2> QED BY <1>9, <2>1, <2>2, <2>3 DEF ApplyRow
<1>11. at + 1 - 1 = at
  BY <1>5
<1>12. CASE at \in draft.taken
  BY <1>5, <1>10, <1>11, <1>12
<1>13. CASE at \notin draft.taken
  <2>1. DOMAIN draft = {"table", "taken", "sound", "slot"}
    BY DEF DraftsOf
  <2>2. next = [draft EXCEPT !.table[at + 1].impl = row.body, !.taken = @ \cup {at}]
    BY <1>10, <1>13
  <2>3. next.table = [draft.table EXCEPT ![at + 1].impl = row.body]
    BY <2>1, <2>2
  <2>4. next.sound = draft.sound /\ next.slot = draft.slot /\ next.taken = draft.taken \cup {at}
    BY <2>1, <2>2
  <2>5. draft.table[at + 1] \in EntryType
    BY <1>9, DraftFields
  <2>6. next.table[at + 1].impl = row.body
    BY <1>9, <2>3, <2>5 DEF EntryType
  <2>7. \A j \in DOMAIN t : j # at + 1 => next.table[j] = draft.table[j]
    BY <1>8, <2>3 DEF Shaped
  <2> QED BY <1>5, <1>11, <1>13, <2>4, <2>6, <2>7
<1> QED BY <1>12, <1>13

(* The first n rows are applied: the first one for a slot counts. *)
RowsDone(t, rows, n, draft) ==
    \A k \in DOMAIN t :
        \/ /\ \A m \in 1 .. n : rows[m].decl # t[k].method
           /\ k - 1 \notin draft.taken /\ draft.table[k] = t[k]
        \/ \E m \in 1 .. n :
               /\ rows[m].decl = t[k].method /\ \A j \in 1 .. m - 1 : rows[j].decl # t[k].method
               /\ k - 1 \in draft.taken /\ draft.table[k].impl = rows[m].body

(* One more row *)
LEMMA RowDone ==
    ASSUME NEW t \in Seq(EntryType), NoneTwice(t), NEW rows, NEW n \in Nat, NEW draft, NEW next,
           RowsDone(t, rows, n, draft), NEW at \in DOMAIN t, t[at].method = rows[n + 1].decl,
           at - 1 \in draft.taken => next = draft,
           at - 1 \notin draft.taken =>
               /\ next.taken = draft.taken \cup {at - 1}
               /\ next.table[at].impl = rows[n + 1].body
               /\ \A j \in DOMAIN t : j # at => next.table[j] = draft.table[j]
    PROVE  RowsDone(t, rows, n + 1, next)
<1>1. \A k \in DOMAIN t : k \in Nat
  BY SeqElements
<1>2. /\ 1 .. n + 1 = 1 .. n \cup {n + 1} /\ n + 1 \in 1 .. n + 1 /\ 1 .. (n + 1) - 1 = 1 .. n
      /\ 1 .. n \subseteq 1 .. n + 1
  OBVIOUS
<1> PICK big : big = 1 .. n + 1
  OBVIOUS
<1> PICK small : small = 1 .. n
  OBVIOUS
<1>3. SUFFICES ASSUME NEW k \in DOMAIN t
               PROVE  \/ /\ \A m \in big : rows[m].decl # t[k].method
                         /\ k - 1 \notin next.taken /\ next.table[k] = t[k]
                      \/ \E m \in big :
                             /\ rows[m].decl = t[k].method
                             /\ \A j \in 1 .. m - 1 : rows[j].decl # t[k].method
                             /\ k - 1 \in next.taken /\ next.table[k].impl = rows[m].body
  BY DEF RowsDone
<1>4. big = small \cup {n + 1} /\ n + 1 \in big /\ 1 .. (n + 1) - 1 = small /\ small \subseteq big
  BY <1>2
<1>5. \/ /\ \A m \in small : rows[m].decl # t[k].method
         /\ k - 1 \notin draft.taken /\ draft.table[k] = t[k]
      \/ \E m \in small :
             /\ rows[m].decl = t[k].method /\ \A j \in 1 .. m - 1 : rows[j].decl # t[k].method
             /\ k - 1 \in draft.taken /\ draft.table[k].impl = rows[m].body
  BY DEF RowsDone
<1>6. CASE k = at /\ at - 1 \in draft.taken
  BY <1>4, <1>5, <1>6
<1>7. CASE k = at /\ at - 1 \notin draft.taken
  <2>1. \A m \in small : rows[m].decl # t[k].method
    BY <1>5, <1>7
  <2>2. k - 1 \in next.taken /\ next.table[k].impl = rows[n + 1].body /\ rows[n + 1].decl = t[k].method
    BY <1>7
  <2> QED BY <1>4, <2>1, <2>2
<1>8. CASE k # at
  <2>1. rows[n + 1].decl # t[k].method
    BY <1>8 DEF NoneTwice
  <2>2. k - 1 # at - 1
    BY <1>1, <1>8
  <2>3. next.table[k] = draft.table[k] /\ (k - 1 \in next.taken <=> k - 1 \in draft.taken)
    BY <1>8, <2>2
  <2> QED BY <1>4, <1>5, <2>1, <2>3
<1> QED BY <1>6, <1>7, <1>8

(* What the rows of MethodImpl leave *)
RowsLeave(c, placed, t, draft) ==
    /\ draft \in DraftsOf(t) /\ draft.sound /\ draft.slot = Draft(c, placed).slot
    /\ \A k \in DOMAIN t :
           /\ k - 1 \in draft.taken => t[k].method \in Declared
           /\ \A b \in Bodies(c, t[k].method) : draft.table[k].impl = b
           /\ Bodies(c, t[k].method) = {} =>
                  \A i \in Listed(c) : \A b \in Bodies(i, t[k].method) : draft.table[k].impl = b
           /\ (\A i \in {c} \cup Listed(c) : Bodies(i, t[k].method) = {}) => draft.table[k] = t[k]

(* All the rows are applied. *)
LEMMA RowsAllDone ==
    ASSUME NEW c, NEW placed, NEW t, Begun(c, placed, t),
           NEW draft, draft = ApplyMethodImpls(c, placed, Draft(c, placed))
    PROVE  /\ draft \in DraftsOf(t) /\ draft.sound /\ draft.slot = Draft(c, placed).slot
           /\ RowsDone(t, Rows(c), Len(Rows(c)), draft)
<1> PICK first : first = Draft(c, placed)
  OBVIOUS
<1> PICK rows : rows = Rows(c)
  OBVIOUS
<1> PICK n : n = Len(rows)
  OBVIOUS
<1> PICK X : X = DraftsOf(t)
  OBVIOUS
<1> PICK so : so = first.slot
  OBVIOUS
<1>1. /\ GoodProgram /\ TablesType /\ c \in Classes \ Ifaces /\ Metadata(program) /\ c \in Classes
      /\ Parent(c) # NoClass
  BY DEF Begun, AllSetUp, GoodProgram
<1>2. NewTable(c, placed, t) /\ Parent(c) \in Classes
  BY FirstEntries DEF Begun
<1>3. placed \in Seq(OffsetType) /\ t \in Seq(EntryType) /\ NoneTwice(t)
  BY <1>2 DEF NewTable
<1>4. first \in X /\ t = FirstTable(c, placed)
  BY <1>1, <1>2, DraftBegins DEF Begun
<1>5. first.sound /\ first.table = t /\ first.taken = {}
  BY <1>4 DEF Draft
<1>6. PICK H : /\ H \in [0 .. n -> X] /\ H[0] = first
               /\ \A k \in 1 .. n : H[k] = ApplyRow(placed, H[k - 1], rows[k])
               /\ draft = H[n]
  BY <1>1, <1>3, <1>4, RowsFolded
<1>7. n \in Nat /\ DOMAIN rows = 1 .. n /\ \A k \in 1 .. n : rows[k] \in [class : Classes, body : Methods, decl : Methods]
  BY <1>1, RowsAre, SeqElements
<1>8. ASSUME NEW k \in 1 .. n
      PROVE  rows[k].decl \in Declared /\ rows[k].decl[1] \in Implements(c)
  <2>1. PICK i \in {c} \cup ToSet(Interfaces(c)) : rows[k] \in ToSet(program[i].impls)
    BY <1>1, <1>7, RowsFrom
  <2>2. ToSet(Interfaces(c)) = Listed(c)
    BY <1>1 DEF Interfaces, Listed
  <2> QED BY <2>1, <2>2, RowsFound
<1> DEFINE Good(k) == H[k].sound /\ H[k].slot = so /\ RowsDone(t, rows, k, H[k])
           Bad == {k \in 0 .. n : ~Good(k)}
<1>9. Bad = {}
  <2> SUFFICES ASSUME Bad # {} PROVE FALSE
    OBVIOUS
  <2>1. PICK k \in Bad : \A j \in Bad : k <= j
    <3>1. Bad # {} /\ Bad \in SUBSET Nat
      BY <1>7
    <3> HIDE DEF Bad
    <3> QED BY <3>1, LeastNat
  <2>2. k \in 0 .. n /\ ~Good(k)
    OBVIOUS
  <2>3. CASE k = 0
    <3>1. RowsDone(t, rows, 0, first)
      <4>1. 1 .. 0 = {}
        OBVIOUS
      <4> QED BY <1>5, <4>1 DEF RowsDone
    <3> QED BY <1>5, <1>6, <2>2, <2>3, <3>1
  <2>4. CASE k # 0
    <3> PICK j : j = k - 1
      OBVIOUS
    <3>1. j \in 0 .. n /\ k \in 1 .. n /\ j \in Nat /\ j + 1 = k /\ ~(k <= j)
      BY <1>7, <2>2, <2>4
    <3>2. Good(j)
      BY <2>1, <3>1
    <3>3. H[j] \in X /\ H[k] = ApplyRow(placed, H[j], rows[k])
      BY <1>6, <3>1
    <3>4. /\ H[k].sound /\ H[k].slot = H[j].slot
          /\ \E at \in DOMAIN t :
                 /\ t[at].method = rows[k].decl
                 /\ at - 1 \in H[j].taken => H[k] = H[j]
                 /\ at - 1 \notin H[j].taken =>
                        /\ H[k].taken = H[j].taken \cup {at - 1}
                        /\ H[k].table[at].impl = rows[k].body
                        /\ \A m \in DOMAIN t : m # at => H[k].table[m] = H[j].table[m]
      BY <1>7, <1>8, <3>1, <3>2, <3>3, RowApplied
    <3>5. RowsDone(t, rows, j + 1, H[k])
      BY <1>3, <3>1, <3>2, <3>4, RowDone
    <3> QED BY <2>2, <3>1, <3>2, <3>4, <3>5
  <2> QED BY <2>3, <2>4
<1>10. n \in 0 .. n
  BY <1>7
<1>11. Good(n)
  BY <1>9, <1>10
<1> QED BY <1>6, <1>10, <1>11

(* The class's own row, else that of a listed interface *)
LEMMA RowsApplied ==
    ASSUME NEW c, NEW placed, NEW t, Begun(c, placed, t),
           NEW draft, draft = ApplyMethodImpls(c, placed, Draft(c, placed))
    PROVE  RowsLeave(c, placed, t, draft)
<1> PICK rows : rows = Rows(c)
  OBVIOUS
<1> PICK n : n = Len(rows)
  OBVIOUS
<1> PICK own : own = program[c].impls
  OBVIOUS
<1>1. /\ GoodProgram /\ c \in Classes \ Ifaces /\ Metadata(program) /\ c \in Classes
      /\ Parent(c) # NoClass
  BY DEF Begun, AllSetUp, GoodProgram
<1>2. t \in Seq(EntryType)
  BY FirstEntries DEF Begun, NewTable
<1>3. n \in Nat /\ DOMAIN rows = 1 .. n
  BY <1>1, RowsAre, SeqElements
<1>4. ToSet(Interfaces(c)) = Listed(c) /\ Listed(c) \subseteq Implements(c) /\ Implements(c) \subseteq Ifaces
      /\ Implements(c) \subseteq Classes
  BY <1>1, ImplementsAre DEF Interfaces, Listed, Ifaces
<1>5. /\ draft \in DraftsOf(t) /\ draft.sound /\ draft.slot = Draft(c, placed).slot
      /\ RowsDone(t, rows, n, draft)
  BY RowsAllDone
<1>6. \A k \in 1 .. n : \E i \in {c} \cup Listed(c) : rows[k] \in ToSet(program[i].impls)
  BY <1>1, <1>3, <1>4, RowsFrom
<1>7. \A i \in {c} \cup Listed(c) : \A row \in ToSet(program[i].impls) : \E k \in 1 .. n : rows[k] = row
  BY <1>1, <1>3, <1>4, RowsFrom
<1>8. \A k \in 1 .. n : /\ rows[k].decl \in Declared
                        /\ \E i \in {c} \cup Listed(c) : rows[k].body \in Bodies(i, rows[k].decl)
  BY <1>6, RowsFound
<1>9. Longer(rows, own)
  BY <1>1, RowsFrom
<1>10. own \in Seq([class : Classes, body : Methods, decl : Methods])
  BY <1>1, ImplsAre
<1>11. Len(own) \in Nat /\ DOMAIN own = 1 .. Len(own)
  BY <1>10
<1>12. ASSUME NEW i \in {c} \cup Listed(c), NEW d \in Methods, NEW b \in Bodies(i, d)
       PROVE  /\ \A e \in Bodies(i, d) : e = b
              /\ \E row \in ToSet(program[i].impls) : row.decl = d /\ row.body = b
              /\ d \in Declared
  <2>1. i \in Classes
    BY <1>1, <1>4
  <2>2. d[1] \in Ifaces
    <3>1. d[1] \in Classes
      BY <1>1, MethodsAre
    <3> QED BY <1>1, <2>1, <3>1, BodiesAre
  <2> QED BY <1>1, <2>1, <2>2, BodiesAre
<1>13. \A k \in DOMAIN t : t[k].method \in Methods
  <2>1. \A k \in DOMAIN t : t[k] \in EntryType
    BY <1>2, SeqElements
  <2> QED BY <2>1 DEF EntryType
<1> SUFFICES ASSUME NEW k \in DOMAIN t
             PROVE  /\ k - 1 \in draft.taken => t[k].method \in Declared
                    /\ \A b \in Bodies(c, t[k].method) : draft.table[k].impl = b
                    /\ Bodies(c, t[k].method) = {} =>
                           \A i \in Listed(c) : \A b \in Bodies(i, t[k].method) : draft.table[k].impl = b
                    /\ (\A i \in {c} \cup Listed(c) : Bodies(i, t[k].method) = {}) => draft.table[k] = t[k]
  BY <1>5 DEF RowsLeave
<1> PICK d : d = t[k].method
  OBVIOUS
<1>14. d \in Methods
  BY <1>13
<1>15. \/ /\ \A m \in 1 .. n : rows[m].decl # d
          /\ k - 1 \notin draft.taken /\ draft.table[k] = t[k]
       \/ \E m \in 1 .. n :
              /\ rows[m].decl = d /\ \A j \in 1 .. m - 1 : rows[j].decl # d
              /\ k - 1 \in draft.taken /\ draft.table[k].impl = rows[m].body
  BY <1>5 DEF RowsDone
<1>16. k - 1 \in draft.taken => d \in Declared
  BY <1>8, <1>15
<1>17. ASSUME NEW b \in Bodies(c, d) PROVE draft.table[k].impl = b
  <2>1. PICK row \in ToSet(own) : row.decl = d /\ row.body = b
    BY <1>12, <1>14
  <2>2. PICK q \in DOMAIN own : own[q] = row
    BY DEF ToSet
  <2>3. rows[q] = row /\ q \in 1 .. n
    <3>1. rows[q] = row
      BY <1>9, <2>2 DEF Longer
    <3>2. Len(own) <= n
      BY <1>9 DEF Longer
    <3> QED BY <1>3, <1>11, <3>1, <3>2
  <2>4. PICK m \in 1 .. n : /\ rows[m].decl = d /\ \A j \in 1 .. m - 1 : rows[j].decl # d
                            /\ draft.table[k].impl = rows[m].body
    BY <1>15, <2>1, <2>3
  <2>5. m \in DOMAIN own
    <3>1. q \notin 1 .. m - 1
      BY <2>1, <2>3, <2>4
    <3>2. q \in Nat /\ m \in Nat /\ q >= 1 /\ m >= 1 /\ Len(own) \in Nat /\ q <= Len(own)
      BY <1>3, <1>11, <2>2, <2>3
    <3>3. m \in 1 .. Len(own)
      BY ONLY <3>1, <3>2
    <3> QED BY <1>11, <3>3
  <2>6. rows[m] \in ToSet(own)
    BY <1>9, <2>5 DEF Longer, ToSet
  <2>7. rows[m].body \in Bodies(c, d)
    BY <2>4, <2>6, RowsFound
  <2> QED BY <1>12, <1>14, <2>4, <2>7
<1>18. ASSUME Bodies(c, d) = {}, NEW i \in Listed(c), NEW b \in Bodies(i, d) PROVE draft.table[k].impl = b
  <2>1. PICK row \in ToSet(program[i].impls) : row.decl = d /\ row.body = b
    BY <1>12, <1>14
  <2>2. PICK q \in 1 .. n : rows[q] = row
    BY <1>7
  <2>3. PICK m \in 1 .. n : rows[m].decl = d /\ draft.table[k].impl = rows[m].body
    BY <1>15, <2>1, <2>2
  <2>4. PICK j \in {c} \cup Listed(c) : rows[m].body \in Bodies(j, d)
    BY <1>8, <2>3
  <2>5. j \in Listed(c)
    BY <1>18, <2>4
  <2>6. j \in Implements(c) /\ i \in Implements(c) /\ d \in Declared
    BY <1>4, <1>12, <1>14, <2>5
  <2>7. i = j
    BY <1>1, <1>18, <2>4, <2>6, OneDefault
  <2> QED BY <1>12, <1>14, <2>3, <2>4, <2>7
<1>19. ASSUME \A i \in {c} \cup Listed(c) : Bodies(i, d) = {} PROVE draft.table[k] = t[k]
  BY <1>8, <1>15, <1>19
<1> QED BY <1>16, <1>17, <1>18, <1>19

------------------------------------------------------------------------------
(***************************************************************************)
(* The overrides, one after another.                                       *)
(***************************************************************************)
(* What a method without a new slot overrides, and where that is *)
LEMMA OverriddenIs ==
    ASSUME NEW c, NEW placed, NEW t, Begun(c, placed, t), NEW m \in ToSet(Own(c)), ~Info(m).newSlot,
           NEW x, x = Named(Parent(c), m)
    PROVE  /\ LastMatch(Hierarchy(Parent(c)), m) # 0
           /\ Hierarchy(Parent(c))[LastMatch(Hierarchy(Parent(c)), m)] = x
           /\ x \in ClassMethods /\ x \in Methods /\ x \notin ToSet(Own(c))
           /\ x[1] \in Ancestors(Parent(c))
           /\ Original[x] = Original[m] /\ Holds(Parent(c), Original[m]) = x
           /\ slot[x] + 1 \in DOMAIN t /\ t[slot[x] + 1].method = Original[m] /\ slot[x] \in Nat
           /\ m \in ClassMethods /\ m \in Methods
<1> PICK p : p = Parent(c)
  OBVIOUS
<1>1. /\ GoodProgram /\ TablesType /\ c \in Classes \ Ifaces /\ Metadata(program) /\ c \in Classes
      /\ Dispatches(p) /\ p # NoClass
  BY DEF Begun, AllSetUp, GoodProgram
<1>2. /\ p \in Classes \ Ifaces /\ p \in Classes
      /\ \A k \in DOMAIN vtable[p] : k \in DOMAIN t /\ t[k] = vtable[p][k]
  BY FirstEntries DEF Begun
<1>3. m \in ClassMethods /\ m \in Methods /\ m[1] = c /\ c \notin Ancestors(p)
  BY <1>1, OwnOfClass
<1>4. Original[m] # NoMethod /\ Original[m] = Introducing(p, m)
  BY <1>1, <1>3, OriginalIs
<1>5. x # NoMethod
  BY <1>1, <1>2, <1>4, NamedHasSlot
<1>6. Original[x] = Original[m]
  BY <1>1, <1>2, <1>4, <1>5, NamedHasSlot
<1>7. x \in Methods /\ x[1] \in Ancestors(p)
  BY <1>1, <1>2, <1>5, NamedIs
<1>8. x \in ClassMethods /\ Holds(p, Original[m]) = x
  BY <1>1, <1>2, <1>5, <1>6, NamedIsHeld
<1>9. x \notin ToSet(Own(c))
  BY <1>1, <1>3, <1>7, OwnOfClass
<1>10. LastMatch(Hierarchy(p), m) # 0 /\ Hierarchy(p)[LastMatch(Hierarchy(p), m)] = x
  <2>1. Hierarchy(p) \in Seq(Methods)
    BY <1>1, HierarchyUnfolded
  <2>2. LastOf(Hierarchy(p), m, x)
    BY <1>1, <1>2, NamedIsLast
  <2> QED BY <1>5, <2>1, <2>2, LastMatchIs
<1>11. slot[x] + 1 \in DOMAIN vtable[p] /\ vtable[p][slot[x] + 1].method = Original[m]
  BY <1>1, <1>2, <1>6, <1>7, <1>8 DEF Dispatches, AtItsSlot
<1>12. slot[x] \in Nat
  BY <1>1, <1>7 DEF TablesType
<1> QED BY <1>2, <1>3, <1>6, <1>7, <1>8, <1>9, <1>10, <1>11, <1>12

(* It is replaced at its slot, and wherever the parent's table has it. *)
LEMMA OverrideApplied ==
    ASSUME NEW c, NEW placed, NEW t, Begun(c, placed, t), NEW m \in ToSet(Own(c)), ~Info(m).newSlot,
           NEW x, x = Named(Parent(c), m), NEW draft \in DraftsOf(t), draft.sound,
           draft.slot[x] = slot[x], \A k \in DOMAIN t : k - 1 \in draft.taken => t[k].method \in Declared,
           NEW next, next = Override(c, draft, m)
    PROVE  /\ next.sound /\ next.taken = draft.taken
           /\ next.slot = [draft.slot EXCEPT ![m] = slot[x]]
           /\ \A k \in DOMAIN t :
                  IF \/ t[k].method = Original[m]
                     \/ k <= Len(vtable[Parent(c)]) /\ draft.table[k].impl = x
                  THEN next.table[k].impl = m ELSE next.table[k] = draft.table[k]
<1> PICK p : p = Parent(c)
  OBVIOUS
<1> PICK at : at = slot[x]
  OBVIOUS
<1> PICK d : d = Original[m]
  OBVIOUS
<1>1. /\ LastMatch(Hierarchy(p), m) # 0 /\ Hierarchy(p)[LastMatch(Hierarchy(p), m)] = x
      /\ x \in ClassMethods /\ at + 1 \in DOMAIN t /\ t[at + 1].method = d /\ at \in Nat
      /\ m \in ClassMethods /\ Original[x] = d
  BY OverriddenIs
<1>2. d \in ClassMethods
  <2>1. /\ GoodProgram /\ c \in Classes \ Ifaces
    BY DEF Begun, AllSetUp
  <2> QED BY <2>1, OwnIsHeld
<1>3. at \notin draft.taken
  <2>1. at + 1 - 1 = at
    BY <1>1
  <2>2. d \notin Declared
    BY <1>2 DEF Declared, ClassMethods
  <2> QED BY <1>1, <2>1, <2>2
<1> PICK hits : hits = {k \in DOMAIN t : k = at + 1 \/ (k <= Len(vtable[p]) /\ draft.table[k].impl = x)}
  OBVIOUS
<1>4. DOMAIN draft.table = DOMAIN t /\ \A k \in DOMAIN t : draft.table[k] \in EntryType
  BY DraftFields DEF Shaped
<1>5. next = [draft EXCEPT !.slot[m] = at,
                           !.table = [k \in DOMAIN @ |->
                               IF \/ k = at + 1
                                  \/ k <= Len(vtable[Parent(c)]) /\ @[k].impl = x
                               THEN [@[k] EXCEPT !.impl = m] ELSE @[k]]]
  <2>1. draft.slot[Hierarchy(p)[LastMatch(Hierarchy(p), m)]] = at
    BY <1>1
  <2> QED BY <1>1, <1>3, <2>1 DEF Override
<1>6. DOMAIN draft = {"table", "taken", "sound", "slot"}
  BY DEF DraftsOf
<1>7. /\ next.sound = draft.sound /\ next.taken = draft.taken
      /\ next.slot = [draft.slot EXCEPT ![m] = at]
      /\ next.table = [k \in DOMAIN draft.table |->
                          IF \/ k = at + 1
                             \/ k <= Len(vtable[Parent(c)]) /\ draft.table[k].impl = x
                          THEN [draft.table[k] EXCEPT !.impl = m] ELSE draft.table[k]]
  BY <1>5, <1>6
<1>8. ASSUME NEW k \in DOMAIN t
      PROVE  IF \/ t[k].method = d
                \/ k <= Len(vtable[Parent(c)]) /\ draft.table[k].impl = x
             THEN next.table[k].impl = m ELSE next.table[k] = draft.table[k]
  <2>1. t[k].method = d <=> k = at + 1
    <3>1. NoneTwice(t)
      BY FirstEntries DEF Begun, NewTable
    <3> QED BY <1>1, <3>1 DEF NoneTwice
  <2>2. next.table[k] = IF \/ k = at + 1
                           \/ k <= Len(vtable[Parent(c)]) /\ draft.table[k].impl = x
                        THEN [draft.table[k] EXCEPT !.impl = m] ELSE draft.table[k]
    BY <1>4, <1>7
  <2>3. [draft.table[k] EXCEPT !.impl = m].impl = m
    BY <1>4 DEF EntryType
  <2> QED BY <2>1, <2>2, <2>3
<1> QED BY <1>7, <1>8

(* An override takes this entry of the table. *)
Takes(c, t, from, y, k) ==
    \/ t[k].method = Original[y]
    \/ k <= Len(vtable[Parent(c)]) /\ from.table[k].impl = Named(Parent(c), y)

(* The overrides of a set are applied. *)
OverridesDone(c, t, from, Y, draft) ==
    /\ draft.sound /\ draft.taken = from.taken
    /\ \A x \in Methods :
           draft.slot[x] = IF x \in Y THEN slot[Named(Parent(c), x)] ELSE from.slot[x]
    /\ \A k \in DOMAIN t :
           \/ (\A y \in Y : ~Takes(c, t, from, y, k)) /\ draft.table[k] = from.table[k]
           \/ \E y \in Y : Takes(c, t, from, y, k) /\ draft.table[k].impl = y

(* One more override *)
LEMMA OverrideDone ==
    ASSUME NEW c, NEW placed, NEW t, Begun(c, placed, t), NEW from, RowsLeave(c, placed, t, from),
           NEW m \in ToSet(Own(c)), ~Info(m).newSlot, NEW Y \in SUBSET ToSet(Own(c)),
           NEW draft \in DraftsOf(t), OverridesDone(c, t, from, Y, draft)
    PROVE  OverridesDone(c, t, from, Y \cup {m}, Override(c, draft, m))
<1> PICK x : x = Named(Parent(c), m)
  OBVIOUS
<1> PICK next : next = Override(c, draft, m)
  OBVIOUS
<1> PICK v : v = vtable[Parent(c)]
  OBVIOUS
<1>1. x \in Methods /\ x \notin ToSet(Own(c)) /\ m \in Methods
  BY OverriddenIs
<1>2. draft.slot[x] = slot[x]
  <2>1. x \notin ToSet(NewSlots(c))
    <3>1. Metadata(program) /\ c \in Classes
      BY DEF Begun, AllSetUp, GoodProgram
    <3> QED BY <1>1, <3>1, NewSlotsAre
  <2>2. from.slot[x] = slot[x]
    BY <1>1, <2>1, FirstEntries DEF Begun, RowsLeave
  <2> QED BY <1>1, <2>2 DEF OverridesDone
<1>3. \A k \in DOMAIN t : k - 1 \in draft.taken => t[k].method \in Declared
  BY DEF OverridesDone, RowsLeave
<1>4. /\ next.sound /\ next.taken = draft.taken
      /\ next.slot = [draft.slot EXCEPT ![m] = slot[x]]
      /\ \A k \in DOMAIN t :
             IF t[k].method = Original[m] \/ (k <= Len(v) /\ draft.table[k].impl = x)
             THEN next.table[k].impl = m ELSE next.table[k] = draft.table[k]
  <2>1. draft.sound
    BY DEF OverridesDone
  <2> QED BY <1>2, <1>3, <2>1, OverrideApplied
<1>5. draft.slot \in [Methods -> Nat]
  BY DraftFields
<1>6. ASSUME NEW y \in Methods
      PROVE  next.slot[y] = IF y \in Y \cup {m} THEN slot[Named(Parent(c), y)] ELSE from.slot[y]
  <2>1. draft.slot[y] = IF y \in Y THEN slot[Named(Parent(c), y)] ELSE from.slot[y]
    BY DEF OverridesDone
  <2>2. next.slot[y] = IF y = m THEN slot[x] ELSE draft.slot[y]
    BY <1>1, <1>4, <1>5
  <2> QED BY <2>1, <2>2
<1>7. ASSUME NEW k \in DOMAIN t
      PROVE  \/ (\A y \in Y \cup {m} : ~Takes(c, t, from, y, k)) /\ next.table[k] = from.table[k]
             \/ \E y \in Y \cup {m} : Takes(c, t, from, y, k) /\ next.table[k].impl = y
  <2>1. \/ (\A y \in Y : ~Takes(c, t, from, y, k)) /\ draft.table[k] = from.table[k]
        \/ \E y \in Y : Takes(c, t, from, y, k) /\ draft.table[k].impl = y
    BY DEF OverridesDone
  <2>2. IF t[k].method = Original[m] \/ (k <= Len(v) /\ draft.table[k].impl = x)
        THEN next.table[k].impl = m ELSE next.table[k] = draft.table[k]
    BY <1>4
  <2>3. Takes(c, t, from, m, k) <=> (t[k].method = Original[m] \/ (k <= Len(v) /\ from.table[k].impl = x))
    BY DEF Takes
  <2>4. CASE (\A y \in Y : ~Takes(c, t, from, y, k)) /\ draft.table[k] = from.table[k]
    BY <2>2, <2>3, <2>4
  <2>5. CASE \E y \in Y : Takes(c, t, from, y, k) /\ draft.table[k].impl = y
    <3>1. PICK y \in Y : Takes(c, t, from, y, k) /\ draft.table[k].impl = y
      BY <2>5
    <3>2. y # x
      BY <1>1
    <3> QED BY <2>2, <2>3, <3>1, <3>2
  <2> QED BY <2>1, <2>4, <2>5
<1>8. next.sound /\ next.taken = from.taken
  BY <1>4 DEF OverridesDone
<1> QED BY <1>6, <1>7, <1>8 DEF OverridesDone

Overrides(c) == {y \in ToSet(Own(c)) : ~Info(y).newSlot}

(* All the overrides are applied. *)
LEMMA OverridesApplied ==
    ASSUME NEW c, NEW placed, NEW t, Begun(c, placed, t), NEW from, RowsLeave(c, placed, t, from)
    PROVE  /\ ApplyOverrides(c, from) \in DraftsOf(t)
           /\ OverridesDone(c, t, from, Overrides(c), ApplyOverrides(c, from))
<1> PICK s : s = Own(c)
  OBVIOUS
<1> PICK n : n = Len(s)
  OBVIOUS
<1> PICK X : X = DraftsOf(t)
  OBVIOUS
<1>1. Metadata(program) /\ c \in Classes
  BY DEF Begun, AllSetUp, GoodProgram
<1>2. Parent(c) \in Classes
  BY FirstEntries DEF Begun
<1>3. from \in X
  BY DEF RowsLeave
<1>4. PICK H : /\ H \in [0 .. n -> X] /\ H[0] = from
               /\ \A k \in 1 .. n :
                      H[k] = IF Info(s[k]).newSlot THEN H[k - 1] ELSE Override(c, H[k - 1], s[k])
               /\ ApplyOverrides(c, from) = H[n]
  <2>1. from \in DraftsOf(t)
    BY <1>3
  <2>2. \E H : OverridesFold(c, t, from, H)
    BY <1>1, <1>2, <2>1, OverridesFolded
  <2> QED BY <2>2 DEF OverridesFold
<1>5. n \in Nat /\ DOMAIN s = 1 .. n
  BY <1>1, OwnMethods
<1> DEFINE Upto(k) == {y \in {s[j] : j \in 1 .. k} : ~Info(y).newSlot}
           Good(k) == OverridesDone(c, t, from, Upto(k), H[k])
           Bad == {k \in 0 .. n : ~Good(k)}
<1>6. Bad = {}
  <2> SUFFICES ASSUME Bad # {} PROVE FALSE
    OBVIOUS
  <2>1. PICK k \in Bad : \A j \in Bad : k <= j
    <3>1. Bad # {} /\ Bad \in SUBSET Nat
      <4> HIDE DEF Good
      <4> QED BY <1>5
    <3> HIDE DEF Bad
    <3> QED BY <3>1, LeastNat
  <2>2. k \in 0 .. n /\ ~Good(k)
    OBVIOUS
  <2>3. CASE k = 0
    <3>1. Upto(0) = {}
      OBVIOUS
    <3>2. OverridesDone(c, t, from, {}, from)
      BY DEF OverridesDone, RowsLeave
    <3> HIDE DEF Upto
    <3> QED BY <1>4, <2>2, <2>3, <3>1, <3>2
  <2>4. CASE k # 0
    <3> PICK j : j = k - 1
      OBVIOUS
    <3>1. j \in 0 .. n /\ k \in 1 .. n /\ j \in Nat /\ ~(k <= j) /\ 1 .. k = 1 .. j \cup {k}
      BY <1>5, <2>2, <2>4
    <3>2. Good(j)
      BY <2>1, <3>1
    <3>3. H[j] \in X /\ H[k] = IF Info(s[k]).newSlot THEN H[j] ELSE Override(c, H[j], s[k])
      BY <1>4, <3>1
    <3>4. s[k] \in ToSet(s) /\ Upto(j) \in SUBSET ToSet(s)
      <4>1. \A q \in 1 .. j : q \in 1 .. n
        BY <1>5, <3>1
      <4> QED BY <1>5, <3>1, <4>1 DEF ToSet
    <3>5. Upto(k) = IF Info(s[k]).newSlot THEN Upto(j) ELSE Upto(j) \cup {s[k]}
      BY <3>1
    <3> HIDE DEF Upto
    <3>6. CASE Info(s[k]).newSlot
      BY <2>2, <3>2, <3>3, <3>5, <3>6
    <3>7. CASE ~Info(s[k]).newSlot
      <4>1. OverridesDone(c, t, from, Upto(j) \cup {s[k]}, Override(c, H[j], s[k]))
        BY <3>2, <3>3, <3>4, <3>7, OverrideDone
      <4> QED BY <2>2, <3>3, <3>5, <3>7, <4>1
    <3> QED BY <3>6, <3>7
  <2> QED BY <2>3, <2>4
<1>7. n \in 0 .. n
  BY <1>5
<1>8. Good(n)
  BY <1>6, <1>7
<1>9. Upto(n) = Overrides(c)
  BY <1>5 DEF Overrides, ToSet
<1> HIDE DEF Upto
<1> QED BY <1>4, <1>7, <1>8, <1>9

------------------------------------------------------------------------------
(***************************************************************************)
(* The entries after rows and overrides.                                   *)
(***************************************************************************)
(* The methods that the entries of the first table are for *)
LEMMA EntriesFor ==
    ASSUME NEW c, NEW placed, NEW t, Begun(c, placed, t), NEW k \in DOMAIN t
    PROVE  LET d == t[k].method
               p == Parent(c)
           IN  /\ Info(d).newSlot
               /\ d \in ClassMethods \/ (d \in Declared /\ d[1] \in Implements(c))
               /\ k <= Len(vtable[p]) =>
                      /\ k \in DOMAIN vtable[p] /\ t[k] = vtable[p][k] /\ EntryRight(p, t[k])
                      /\ d \in ClassMethods => d[1] \in Ancestors(p)
                      /\ d \in Declared => d[1] \in Implements(p)
               /\ k > Len(vtable[p]) =>
                      /\ t[k] = Entry(d)
                      /\ d \in ClassMethods => d[1] = c
                      /\ d \in Declared => d[1] \in Implements(c) \ Implements(p)
<1> PICK p : p = Parent(c)
  OBVIOUS
<1> PICK d : d = t[k].method
  OBVIOUS
<1> PICK v : v = vtable[p]
  OBVIOUS
<1>1. /\ GoodProgram /\ TablesType /\ c \in Classes \ Ifaces /\ Dispatches(p) /\ TableFine(p) /\ p # NoClass
  BY DEF Begun, AllSetUp
<1>2. /\ NewTable(c, placed, t) /\ InterfacesAt(placed) = Implements(c) /\ p \in Classes \ Ifaces
      /\ \A j \in DOMAIN v : j \in DOMAIN t /\ t[j] = v[j]
      /\ k > Len(v) => /\ t[k] = Entry(d) /\ Info(d).newSlot
                       /\ d[1] \in {c} \cup (Implements(c) \ Implements(p))
  BY FirstEntries DEF Begun
<1>3. /\ Implements(c) \subseteq Ifaces /\ Implements(p) \subseteq Ifaces
      /\ Ancestors(c) \cap Ifaces = {} /\ Ancestors(p) \cap Ifaces = {}
  BY <1>1, <1>2, ImplementsAre, OwnOfClass
<1>4. d \in Methods
  <2>1. t \in Seq(EntryType)
    BY <1>2 DEF NewTable
  <2>2. t[k] \in EntryType
    BY <2>1
  <2> QED BY <2>2 DEF EntryType
<1>5. d[1] \in Ancestors(c) \cup Implements(c)
  BY <1>2 DEF NewTable, MethodsOf
<1>6. v \in Seq(EntryType) /\ t \in Seq(EntryType)
  BY <1>1, <1>2 DEF TablesType, NewTable
<1>7. DOMAIN v = 1 .. Len(v) /\ Len(v) \in Nat /\ DOMAIN t = 1 .. Len(t)
  BY <1>6
<1>8. d \in ClassMethods => d[1] \notin Ifaces
  BY DEF ClassMethods
<1>9. d \in Declared => d[1] \in Ifaces
  BY DEF Declared
<1>10. CASE k <= Len(v)
  <2>1. k \in DOMAIN v
    BY <1>7, <1>10
  <2>2. t[k] = v[k]
    BY <1>2, <2>1
  <2>3. EntryRight(p, v[k]) /\ Info(v[k].method).newSlot /\ InterfacesAt(offsets[p]) = Implements(p)
    BY <1>1, <1>2, <2>1 DEF Dispatches
  <2>4. d[1] \in Ancestors(p) \cup Implements(p)
    BY <1>1, <2>1, <2>2, <2>3 DEF TableFine, MethodsOf
  <2>5. Info(d).newSlot
    BY <2>2, <2>3
  <2>6. d \in ClassMethods \/ (d \in Declared /\ d[1] \in Implements(c))
    BY <1>3, <1>4, <1>5, <2>5 DEF ClassMethods, Declared
  <2>7. d \in ClassMethods => d[1] \in Ancestors(p)
    BY <1>3, <1>8, <2>4
  <2>8. d \in Declared => d[1] \in Implements(p)
    BY <1>3, <1>9, <2>4
  <2> QED BY <1>7, <1>10, <2>1, <2>2, <2>3, <2>5, <2>6, <2>7, <2>8
<1>11. CASE ~(k <= Len(v))
  <2>1. k > Len(v)
    BY <1>7, <1>11
  <2>2. d \in ClassMethods \/ (d \in Declared /\ d[1] \in Implements(c))
    BY <1>2, <1>3, <1>4, <1>5, <2>1 DEF ClassMethods, Declared
  <2>3. d \in ClassMethods => d[1] = c
    BY <1>2, <1>3, <1>8, <2>1
  <2>4. d \in Declared => d[1] \in Implements(c) \ Implements(p)
    BY <1>1, <1>2, <1>9, <2>1
  <2> QED BY <1>2, <1>11, <2>1, <2>2, <2>3, <2>4
<1> QED BY <1>10, <1>11

(* Rows and overrides are applied. *)
Overrode(c, placed, t, over) ==
    /\ Begun(c, placed, t)
    /\ over = ApplyOverrides(c, ApplyMethodImpls(c, placed, Draft(c, placed)))

(* An own method without a new slot is in no slot that the class begins. *)
LEMMA OverrodeIs ==
    ASSUME NEW c, NEW placed, NEW t, NEW over, Overrode(c, placed, t, over),
           NEW from, from = ApplyMethodImpls(c, placed, Draft(c, placed)), NEW k \in DOMAIN t
    PROVE  /\ over \in DraftsOf(t) /\ over.sound
           /\ \/ (\A y \in Overrides(c) : ~Takes(c, t, from, y, k)) /\ over.table[k] = from.table[k]
              \/ \E y \in Overrides(c) : Takes(c, t, from, y, k) /\ over.table[k].impl = y
           /\ \A b \in Bodies(c, t[k].method) : from.table[k].impl = b
           /\ Bodies(c, t[k].method) = {} =>
                  \A i \in Listed(c) : \A b \in Bodies(i, t[k].method) : from.table[k].impl = b
           /\ (\A i \in {c} \cup Listed(c) : Bodies(i, t[k].method) = {}) => from.table[k] = t[k]
           /\ \A y \in Overrides(c) :
                  /\ y \in ToSet(Own(c)) /\ ~Info(y).newSlot
                  /\ Named(Parent(c), y) \in ClassMethods /\ Named(Parent(c), y) \notin ToSet(Own(c))
                  /\ Original[Named(Parent(c), y)] = Original[y] /\ Original[y] \in ClassMethods
                  /\ Holds(Parent(c), Original[y]) = Named(Parent(c), y)
<1>1. Begun(c, placed, t) /\ over = ApplyOverrides(c, from)
  BY DEF Overrode
<1>2. RowsLeave(c, placed, t, from)
  BY <1>1, RowsApplied
<1>3. over \in DraftsOf(t) /\ OverridesDone(c, t, from, Overrides(c), over)
  BY <1>1, <1>2, OverridesApplied
<1>4. GoodProgram /\ c \in Classes \ Ifaces
  BY <1>1 DEF Begun, AllSetUp
<1>5. ASSUME NEW y \in Overrides(c)
      PROVE  /\ y \in ToSet(Own(c)) /\ ~Info(y).newSlot
             /\ Named(Parent(c), y) \in ClassMethods /\ Named(Parent(c), y) \notin ToSet(Own(c))
             /\ Original[Named(Parent(c), y)] = Original[y] /\ Original[y] \in ClassMethods
             /\ Holds(Parent(c), Original[y]) = Named(Parent(c), y)
  <2>1. y \in ToSet(Own(c)) /\ ~Info(y).newSlot
    BY DEF Overrides
  <2>2. Original[y] \in ClassMethods
    BY <1>4, <2>1, OwnIsHeld
  <2> QED BY <1>1, <2>1, <2>2, OverriddenIs
<1>6. /\ \A b \in Bodies(c, t[k].method) : from.table[k].impl = b
      /\ Bodies(c, t[k].method) = {} =>
             \A i \in Listed(c) : \A b \in Bodies(i, t[k].method) : from.table[k].impl = b
      /\ (\A i \in {c} \cup Listed(c) : Bodies(i, t[k].method) = {}) => from.table[k] = t[k]
  BY <1>2 DEF RowsLeave
<1>7. /\ over.sound
      /\ \/ (\A y \in Overrides(c) : ~Takes(c, t, from, y, k)) /\ over.table[k] = from.table[k]
         \/ \E y \in Overrides(c) : Takes(c, t, from, y, k) /\ over.table[k].impl = y
  BY <1>3 DEF OverridesDone
<1> QED BY <1>3, <1>5, <1>6, <1>7

(* A slot of the parent is overridden, or stays; a new one stays. *)
LEMMA ClassEntry ==
    ASSUME NEW c, NEW placed, NEW t, NEW over, Overrode(c, placed, t, over),
           NEW k \in DOMAIN t, NEW d, d = t[k].method, d \in ClassMethods
    PROVE  /\ k <= Len(vtable[Parent(c)]) =>
                  \/ over.table[k].impl = Holds(c, d)
                  \/ over.table[k].impl = NoMethod /\ Info(d).abstract /\ Holds(c, d) = d
           /\ k > Len(vtable[Parent(c)]) =>
                  over.table[k] = Entry(d) /\ Holds(c, d) = d /\ Named(c, d) = d
           /\ d[1] \in Ancestors(c) /\ Info(d).newSlot
<1> PICK p : p = Parent(c)
  OBVIOUS
<1> PICK v : v = vtable[p]
  OBVIOUS
<1> PICK from : from = ApplyMethodImpls(c, placed, Draft(c, placed))
  OBVIOUS
<1>1. /\ GoodProgram /\ c \in Classes \ Ifaces /\ Metadata(program) /\ c \in Classes /\ p # NoClass
      /\ Begun(c, placed, t)
  BY DEF Overrode, Begun, AllSetUp, GoodProgram
<1>2. p \in Classes \ Ifaces /\ Ancestors(c) = Ancestors(p) \cup {c} /\ c \notin Ancestors(p)
      /\ \A x \in ToSet(Own(c)) : x \in ClassMethods /\ x[1] = c /\ x \in Methods
      /\ \A y \in Methods : y[1] = c => y \in ToSet(Own(c))
  BY <1>1, OwnOfClass
<1>3. /\ Info(d).newSlot
      /\ k <= Len(v) => t[k] = v[k] /\ EntryRight(p, t[k]) /\ d[1] \in Ancestors(p)
      /\ k > Len(v) => t[k] = Entry(d) /\ d[1] = c
  BY <1>1, EntriesFor
<1>4. d \in Methods /\ Original[d] = d
  <2>1. d \in Methods
    BY DEF ClassMethods
  <2> QED BY <1>1, <1>3, <2>1, OriginalIs
<1>5. from.table[k] = t[k]
  <2>1. d[1] \in Classes \ Ifaces
    BY <1>1, MethodsAre DEF ClassMethods
  <2>2. Listed(c) \subseteq Classes
    BY <1>1, ImplementsAre DEF Ifaces
  <2>3. \A i \in {c} \cup Listed(c) : Bodies(i, d) = {}
    BY <1>1, <2>1, <2>2, BodiesAre
  <2> QED BY <2>3, OverrodeIs
<1>6. /\ \/ (\A y \in Overrides(c) : ~Takes(c, t, from, y, k)) /\ over.table[k] = from.table[k]
         \/ \E y \in Overrides(c) : Takes(c, t, from, y, k) /\ over.table[k].impl = y
      /\ \A y \in Overrides(c) :
             /\ y \in ToSet(Own(c)) /\ ~Info(y).newSlot /\ Named(p, y) \in ClassMethods
             /\ Original[Named(p, y)] = Original[y]
  BY OverrodeIs
<1>7. NoMethod \notin Methods
  BY <1>1, MethodsAre
<1>8. CASE k <= Len(v)
  <2>1. t[k] = v[k] /\ d[1] \in Ancestors(p)
    BY <1>3, <1>8
  <2>2. \/ t[k].impl = Holds(p, d)
        \/ t[k].impl = NoMethod /\ Info(d).abstract /\ Holds(p, d) = d
    BY <1>3, <1>8 DEF EntryRight
  <2>3. Holds(p, d) \in ClassMethods /\ Original[Holds(p, d)] = d
    BY <1>1, <1>2, <1>3, <2>1, HoldsIs
  <2>4. d[1] \in Ancestors(c)
    BY <1>2, <2>1
  <2>5. /\ \A x \in ToSet(Own(c)) : Original[x] = d => Holds(c, d) = x
        /\ (\A x \in ToSet(Own(c)) : Original[x] # d) => Holds(c, d) = Holds(p, d)
    BY <1>1, <1>3, <2>4, HoldsIs
  <2>6. ASSUME NEW y \in Overrides(c), Takes(c, t, from, y, k) PROVE Original[y] = d
    <3>1. CASE t[k].method = Original[y]
      BY <3>1
    <3>2. CASE from.table[k].impl = Named(p, y)
      <4>1. t[k].impl # NoMethod
        BY <1>5, <1>6, <1>7, <3>2 DEF ClassMethods
      <4>2. Named(p, y) = Holds(p, d)
        BY <1>5, <2>2, <3>2, <4>1
      <4> QED BY <1>6, <2>3, <4>2
    <3> QED BY <2>6, <3>1, <3>2 DEF Takes
  <2>7. ASSUME \E y \in Overrides(c) : Takes(c, t, from, y, k) /\ over.table[k].impl = y
        PROVE  over.table[k].impl = Holds(c, d)
    BY <1>6, <2>5, <2>6, <2>7
  <2>8. ASSUME \A y \in Overrides(c) : ~Takes(c, t, from, y, k), over.table[k] = from.table[k]
        PROVE  \/ over.table[k].impl = Holds(c, d)
               \/ over.table[k].impl = NoMethod /\ Info(d).abstract /\ Holds(c, d) = d
    <3>1. ASSUME NEW x \in ToSet(Own(c)), Original[x] = d PROVE FALSE
      <4>1. x \notin Overrides(c)
        BY <2>8, <3>1 DEF Takes
      <4>2. Info(x).newSlot /\ x[1] = c /\ x \in Methods
        BY <1>2, <4>1 DEF Overrides
      <4>3. x = d
        BY <1>1, <3>1, <4>2, OriginalIs
      <4> QED BY <1>2, <2>1, <4>2, <4>3
    <3>2. Holds(c, d) = Holds(p, d)
      BY <2>5, <3>1
    <3> QED BY <1>5, <2>2, <2>8, <3>2
  <2>9. ~(k > Len(v))
    <3>1. k \in Nat /\ Len(v) \in Nat
      <4>1. t \in Seq(EntryType) /\ v \in Seq(EntryType)
        BY <1>1, <1>2, FirstEntries DEF Begun, AllSetUp, TablesType, NewTable
      <4> QED BY <4>1
    <3> QED BY <1>8, <3>1
  <2> QED BY <1>3, <1>6, <2>4, <2>7, <2>8, <2>9
<1>9. CASE ~(k <= Len(v))
  <2>1. k > Len(v)
    <3>1. k \in Nat /\ Len(v) \in Nat
      <4>1. t \in Seq(EntryType) /\ v \in Seq(EntryType)
        BY <1>1, <1>2, FirstEntries DEF Begun, AllSetUp, TablesType, NewTable
      <4> QED BY <4>1
    <3> QED BY <1>9, <3>1
  <2>2. t[k] = Entry(d) /\ d[1] = c /\ d \in ToSet(Own(c)) /\ d[1] \in Ancestors(c)
    <3>1. t[k] = Entry(d) /\ d[1] = c
      BY <1>3, <2>1
    <3>2. d \in ToSet(Own(c))
      <4>1. d \in ToSet(Own(d[1]))
        BY <1>1, <1>4, MethodsAre
      <4> QED BY <3>1, <4>1
    <3>3. d[1] \in Ancestors(c)
      BY <1>2, <3>1
    <3> QED BY <3>1, <3>2, <3>3
  <2>3. Holds(c, d) = d
    BY <1>1, <1>3, <1>4, <2>2, HoldsIs
  <2>4. Named(c, d) = d
    <3>1. d \in NamedOwn(c, d)
      BY <2>2 DEF NamedOwn, SameName
    <3>2. OneOf(NamedOwn(c, d)) = d
      BY <1>1, <3>1, NamedOwnIs
    <3> QED BY <1>1, <3>1, <3>2, NamedUnfolded
  <2>5. ASSUME NEW y \in Overrides(c) PROVE ~Takes(c, t, from, y, k)
    <3>1. y \in ToSet(Own(c)) /\ ~Info(y).newSlot /\ y \in ClassMethods /\ y[1] = c
      BY <1>2, <1>6
    <3>2. Original[y] # d
      BY <1>1, <1>3, <1>4, <2>2, <3>1, OneInSlot
    <3> QED BY <1>9, <3>2 DEF Takes
  <2> QED BY <1>3, <1>5, <1>6, <1>9, <2>2, <2>3, <2>4, <2>5
<1> QED BY <1>8, <1>9

(* An entry is in the parent's table, or behind it. *)
LEMMA EntryPlaces ==
    ASSUME NEW c, NEW placed, NEW t, Begun(c, placed, t), NEW k \in DOMAIN t
    PROVE  (k <= Len(vtable[Parent(c)])) = ~(k > Len(vtable[Parent(c)]))
<1> PICK v : v = vtable[Parent(c)]
  OBVIOUS
<1>1. t \in Seq(EntryType) /\ v \in Seq(EntryType)
  BY FirstEntries DEF Begun, AllSetUp, TablesType, NewTable
<1>2. k \in Nat /\ Len(v) \in Nat
  BY <1>1
<1> QED BY <1>2

(* What a class gives is what a slot of it holds. *)
LEMMA RunsHeld ==
    ASSUME GoodProgram, NEW c \in Classes \ Ifaces, NEW d \in Declared, d[1] \in Implements(c),
           Gives(c, d) # NoMethod
    PROVE  /\ Runs(c, d) \in ClassMethods /\ Runs(c, d) # NoMethod
           /\ Original[Runs(c, d)][1] \in Ancestors(c)
           /\ Holds(c, Original[Runs(c, d)]) = Runs(c, d)
<1> PICK o : o = Original[Gives(c, d)]
  OBVIOUS
<1>1. Gives(c, d) \in ClassMethods /\ Gives(c, d)[1] \in Ancestors(c)
  BY GivesIs
<1>2. o \in ClassMethods /\ Info(o).newSlot /\ o[1] \in Ancestors(c)
  BY <1>1, SlotOfAncestors
<1>3. Runs(c, d) = Holds(c, o) /\ Runs(c, d) # NoMethod
  BY RunsIs
<1>4. Holds(c, o) \in ClassMethods /\ Original[Holds(c, o)] = o
  BY <1>2, HoldsIs
<1> QED BY <1>2, <1>3, <1>4

(* No override takes an entry that the class or an interface implements. *)
LEMMA NotTaken ==
    ASSUME NEW c, NEW placed, NEW t, NEW over, Overrode(c, placed, t, over),
           NEW from, from = ApplyMethodImpls(c, placed, Draft(c, placed)),
           NEW k \in DOMAIN t, t[k].method \in Declared,
           \/ k > Len(vtable[Parent(c)])
           \/ from.table[k].impl \notin ClassMethods \ ToSet(Own(c))
    PROVE  over.table[k] = from.table[k]
<1>1. Begun(c, placed, t)
  BY DEF Overrode
<1>2. \A y \in Overrides(c) :
          /\ Named(Parent(c), y) \in ClassMethods \ ToSet(Own(c)) /\ Original[y] \in ClassMethods
  BY OverrodeIs
<1>3. t[k].method \notin ClassMethods
  BY DEF Declared, ClassMethods
<1>4. \A y \in Overrides(c) : ~Takes(c, t, from, y, k)
  BY <1>1, <1>2, <1>3, EntryPlaces DEF Takes
<1> QED BY <1>4, OverrodeIs

(* An interface's entry that no new method is for is right, or to be filled. *)
LEMMA InterfaceEntry ==
    ASSUME NEW c, NEW placed, NEW t, NEW over, Overrode(c, placed, t, over),
           NEW k \in DOMAIN t, NEW d, d = t[k].method, d \in Declared,
           d[1] \notin Listed(c) \/ NewOf(c, d) = {}
    PROVE  \/ over.table[k].impl = Runs(c, d)
           \/ /\ k > Len(vtable[Parent(c)]) /\ over.table[k].impl = NoMethod
              /\ Named(c, d) # NoMethod /\ Runs(c, d) = Named(c, d)
<1> PICK p : p = Parent(c)
  OBVIOUS
<1> PICK v : v = vtable[p]
  OBVIOUS
<1> PICK from : from = ApplyMethodImpls(c, placed, Draft(c, placed))
  OBVIOUS
<1>1. /\ GoodProgram /\ c \in Classes \ Ifaces /\ Metadata(program) /\ c \in Classes /\ p # NoClass
      /\ Begun(c, placed, t)
  BY DEF Overrode, Begun, AllSetUp, GoodProgram
<1>2. p \in Classes \ Ifaces /\ c \notin Ancestors(p)
      /\ \A x \in ToSet(Own(c)) : x \in ClassMethods /\ x[1] = c /\ x \in Methods
  BY <1>1, OwnOfClass
<1>3. /\ d[1] \in Implements(c) /\ d \notin ClassMethods
      /\ k <= Len(v) => t[k] = v[k] /\ EntryRight(p, t[k]) /\ d[1] \in Implements(p)
      /\ k > Len(v) => t[k] = Entry(d) /\ d[1] \in Implements(c) \ Implements(p)
  <2>1. d \notin ClassMethods
    BY DEF Declared, ClassMethods
  <2> QED BY <1>1, <2>1, EntriesFor
<1>4. (k <= Len(v)) = ~(k > Len(v))
  BY <1>1, EntryPlaces
<1>5. Implements(c) = Implements(p) \cup Listed(c) /\ Listed(c) \subseteq Ifaces /\ Listed(c) \subseteq Classes
  BY <1>1, ImplementsAre DEF Ifaces
<1>6. \A i \in {c} \cup Listed(c) : \A b \in Bodies(i, d) : b \in Methods /\ b[1] = i
  <2>1. d[1] \in Ifaces
    BY DEF Declared
  <2> QED BY <1>1, <1>5, <2>1, BodiesAre
<1>7. \A i \in Listed(c) : \A b \in Bodies(i, d) : b \notin ClassMethods
  BY <1>5, <1>6 DEF ClassMethods
<1>8. /\ \/ (\A y \in Overrides(c) : ~Takes(c, t, from, y, k)) /\ over.table[k] = from.table[k]
         \/ \E y \in Overrides(c) : Takes(c, t, from, y, k) /\ over.table[k].impl = y
      /\ \A y \in Overrides(c) :
             /\ y \in ToSet(Own(c)) /\ Named(p, y) \in ClassMethods
             /\ Original[Named(p, y)] = Original[y] /\ Original[y] \in ClassMethods
             /\ Holds(p, Original[y]) = Named(p, y)
  BY OverrodeIs
<1>9. /\ \A b \in Bodies(c, d) : from.table[k].impl = b
      /\ Bodies(c, d) = {} => \A i \in Listed(c) : \A b \in Bodies(i, d) : from.table[k].impl = b
      /\ (\A i \in {c} \cup Listed(c) : Bodies(i, d) = {}) => from.table[k] = t[k]
  <2>1. /\ \A b \in Bodies(c, t[k].method) : from.table[k].impl = b
        /\ Bodies(c, t[k].method) = {} =>
               \A i \in Listed(c) : \A b \in Bodies(i, t[k].method) : from.table[k].impl = b
        /\ (\A i \in {c} \cup Listed(c) : Bodies(i, t[k].method) = {}) => from.table[k] = t[k]
    BY ONLY OverrodeIs, Overrode(c, placed, t, over), k \in DOMAIN t, SMTT(30),
            from = ApplyMethodImpls(c, placed, Draft(c, placed))
  <2> QED BY ONLY <2>1, d = t[k].method
<1>10. CASE Bodies(c, d) # {}
  <2>1. PICK b : b \in Bodies(c, d)
    BY <1>10
  <2>2. from.table[k].impl = b /\ b \in ToSet(Own(c))
    <3>1. b \in Methods /\ b[1] = c
      BY <1>6, <2>1
    <3>2. b \in ToSet(Own(b[1]))
      BY <1>1, <3>1, MethodsAre
    <3> QED BY <1>9, <2>1, <3>1, <3>2
  <2>3. over.table[k] = from.table[k]
    BY <2>2, NotTaken
  <2>4. Runs(c, d) = b
    BY <1>1, <1>3, <2>1, RunsOwnRow
  <2> QED BY <2>2, <2>3, <2>4
<1>11. CASE Bodies(c, d) = {} /\ k <= Len(v) /\ Gives(p, d) # NoMethod
  <2> PICK r : r = Runs(p, d)
    OBVIOUS
  <2>1. d[1] \in Implements(p)
    BY <1>3, <1>11
  <2>2. /\ \A y \in ToSet(Own(c)) : Original[y] = Original[r] => Runs(c, d) = y
        /\ (\A y \in ToSet(Own(c)) : Original[y] # Original[r]) => Runs(c, d) = r
        /\ \A i \in Listed(c) : Bodies(i, d) = {}
    BY <1>1, <1>11, <2>1, RunsGiven
  <2>3. /\ r \in ClassMethods /\ Original[r][1] \in Ancestors(p) /\ Holds(p, Original[r]) = r
    BY <1>1, <1>2, <1>11, <2>1, RunsHeld
  <2>4. from.table[k] = t[k]
    BY <1>9, <1>11, <2>2
  <2>5. t[k].impl = r
    BY <1>3, <1>11 DEF EntryRight
  <2>6. ASSUME NEW y \in Overrides(c)
        PROVE  Takes(c, t, from, y, k) <=> Original[y] = Original[r]
    <3>1. Takes(c, t, from, y, k) <=> r = Named(p, y)
      BY <1>3, <1>8, <1>11, <2>4, <2>5 DEF Takes
    <3>2. Original[y] = Original[r] => r = Named(p, y)
      BY <1>8, <2>3
    <3>3. r = Named(p, y) => Original[y] = Original[r]
      BY <1>8
    <3> QED BY <3>1, <3>2, <3>3
  <2>7. CASE \E y \in Overrides(c) : Takes(c, t, from, y, k) /\ over.table[k].impl = y
    BY <1>8, <2>2, <2>6, <2>7
  <2>8. CASE (\A y \in Overrides(c) : ~Takes(c, t, from, y, k)) /\ over.table[k] = from.table[k]
    <3>1. ASSUME NEW x \in ToSet(Own(c)), Original[x] = Original[r] PROVE FALSE
      <4>1. x \notin Overrides(c)
        BY <2>6, <2>8, <3>1
      <4>2. Info(x).newSlot /\ x[1] = c /\ x \in Methods
        BY <1>2, <4>1 DEF Overrides
      <4>3. x = Original[r]
        BY <1>1, <3>1, <4>2, OriginalIs
      <4> QED BY <1>2, <2>3, <4>2, <4>3
    <3>2. Runs(c, d) = r
      BY <2>2, <3>1
    <3> QED BY <2>4, <2>5, <2>8, <3>2
  <2> QED BY <1>8, <2>7, <2>8
<1>12. CASE Bodies(c, d) = {} /\ k <= Len(v) /\ Gives(p, d) = NoMethod
  <2>1. d[1] \in Implements(p)
    BY <1>3, <1>12
  <2>2. /\ Runs(p, d) \notin ClassMethods
        /\ \A i \in Listed(c) : \A b \in Bodies(i, d) : Runs(c, d) = b
        /\ (\A i \in Listed(c) : Bodies(i, d) = {}) => Runs(c, d) = Runs(p, d)
    BY <1>1, <1>12, <2>1, RunsDefault
  <2>3. from.table[k].impl = Runs(c, d) /\ Runs(c, d) \notin ClassMethods
    <3>1. CASE \E i \in Listed(c) : Bodies(i, d) # {}
      <4>1. PICK i \in Listed(c), b \in Methods : b \in Bodies(i, d)
        BY <1>6, <3>1
      <4> QED BY <1>7, <1>9, <1>12, <2>2, <4>1
    <3>2. CASE \A i \in Listed(c) : Bodies(i, d) = {}
      <4>1. from.table[k] = t[k]
        BY <1>9, <1>12, <3>2
      <4>2. t[k].impl = Runs(p, d)
        BY <1>3, <1>12 DEF EntryRight
      <4> QED BY <2>2, <3>2, <4>1, <4>2
    <3> QED BY <3>1, <3>2
  <2>4. over.table[k] = from.table[k]
    BY <2>3, NotTaken
  <2> QED BY <2>3, <2>4
<1>13. CASE Bodies(c, d) = {} /\ k > Len(v)
  <2>1. d[1] \in Implements(c) \ Implements(p) /\ t[k] = Entry(d)
    BY <1>3, <1>13
  <2>2. NewOf(c, d) = {}
    BY <1>5, <2>1
  <2>3. over.table[k] = from.table[k]
    BY <1>13, NotTaken
  <2>4. /\ \A i \in Listed(c) : \A b \in Bodies(i, d) : Runs(c, d) = b
        /\ (\A i \in Listed(c) : Bodies(i, d) = {}) =>
               /\ ~Info(d).abstract => Runs(c, d) = d
               /\ Info(d).abstract => Named(c, d) # NoMethod /\ Runs(c, d) = Named(c, d)
    BY <1>1, <1>13, <2>1, <2>2, RunsPlaced
  <2>5. CASE \E i \in Listed(c) : Bodies(i, d) # {}
    <3>1. PICK i \in Listed(c), b \in Methods : b \in Bodies(i, d)
      BY <1>6, <2>5
    <3> QED BY <1>9, <1>13, <2>3, <2>4, <3>1
  <2>6. CASE \A i \in Listed(c) : Bodies(i, d) = {}
    <3>1. from.table[k] = Entry(d)
      BY <1>9, <1>13, <2>1, <2>6
    <3>2. over.table[k].impl = IF Info(d).abstract THEN NoMethod ELSE d
      BY <2>3, <3>1 DEF Entry
    <3> QED BY <1>13, <2>4, <2>6, <3>2
  <2> QED BY <2>5, <2>6
<1> QED BY <1>4, <1>10, <1>11, <1>12, <1>13

(* New methods take the entries of the listed interfaces with their name. *)
LEMMA NewSlotsFill ==
    ASSUME NEW c, NEW placed, NEW t, NEW over, Overrode(c, placed, t, over),
           NEW news, news = ApplyNewSlots(c, placed, over)
    PROVE  /\ news \in DraftsOf(t) /\ news.sound /\ news.slot = over.slot
           /\ \A k \in DOMAIN t :
                  /\ t[k].method[1] \in Listed(c) =>
                         \A x \in NewOf(c, t[k].method) : news.table[k].impl = x
                  /\ t[k].method[1] \notin Listed(c) \/ NewOf(c, t[k].method) = {} =>
                         news.table[k] = over.table[k]
<1>1. /\ GoodProgram /\ TablesType /\ c \in Classes \ Ifaces /\ Metadata(program) /\ c \in Classes
      /\ Begun(c, placed, t) /\ \A i \in Implements(c) : Dispatches(i)
  BY DEF Overrode, Begun, AllSetUp, GoodProgram
<1>2. /\ NewTable(c, placed, t) /\ InterfacesAt(placed) = Implements(c)
  BY <1>1, FirstEntries DEF Begun
<1>3. placed \in Seq(OffsetType) /\ t \in Seq(EntryType) /\ Agrees(placed, t) /\ NoneTwice(t)
  BY <1>2 DEF NewTable
<1>4. ToSet(Interfaces(c)) = Listed(c) /\ Listed(c) \subseteq Implements(c) /\ Listed(c) \subseteq Ifaces
  <2>1. Parent(c) # NoClass
    BY <1>1 DEF Begun, AllSetUp
  <2> QED BY <1>1, <2>1, ImplementsAre DEF Interfaces, Listed
<1>5. over \in DraftsOf(t)
  <2>1. RowsLeave(c, placed, t, ApplyMethodImpls(c, placed, Draft(c, placed)))
    BY <1>1, RowsApplied
  <2> QED BY <1>1, <2>1, OverridesApplied DEF Overrode
<1>6. over.sound
  <2>1. RowsLeave(c, placed, t, ApplyMethodImpls(c, placed, Draft(c, placed)))
    BY <1>1, RowsApplied
  <2> QED BY <1>1, <2>1, OverridesApplied DEF Overrode, OverridesDone
<1>7. ASSUME NEW k \in DOMAIN t
      PROVE  k \in ListedSlots(c, placed) <=> t[k].method[1] \in Listed(c)
  <2>1. ASSUME k \in ListedSlots(c, placed) PROVE t[k].method[1] \in Listed(c)
    <3>1. PICK i \in Listed(c) : k \in OffsetOf(placed, i) + 1 .. OffsetOf(placed, i) + Len(vtable[i])
      BY <1>4, <2>1 DEF ListedSlots
    <3>2. i \in InterfacesAt(placed) /\ Dispatches(i)
      BY <1>1, <1>2, <1>4
    <3>3. t[k].method[1] = i
      BY <1>1, <1>3, <3>1, <3>2, PlacesAre
    <3> QED BY <3>3
  <2>2. ASSUME t[k].method[1] \in Listed(c) PROVE k \in ListedSlots(c, placed)
    <3> PICK d : d = t[k].method
      OBVIOUS
    <3> PICK i : i = d[1]
      OBVIOUS
    <3> PICK at : at = OffsetOf(placed, i)
      OBVIOUS
    <3>1. i \in InterfacesAt(placed) /\ Dispatches(i) /\ i \in Listed(c)
      BY <1>1, <1>2, <1>4, <2>2
    <3>2. d \in Declared
      BY <1>1, <1>4, <2>2, EntriesFor DEF ClassMethods
    <3>3. /\ slot[d] + at + 1 \in at + 1 .. at + Len(vtable[i])
          /\ t[slot[d] + at + 1].method = d
      BY <1>1, <1>3, <3>1, <3>2, PlacesAre
    <3>4. slot[d] + at + 1 \in DOMAIN t
      BY <1>1, <1>3, <3>1, <3>3, PlacesAre
    <3>5. slot[d] + at + 1 = k
      BY <1>3, <3>3, <3>4 DEF NoneTwice
    <3> QED BY <1>4, <3>1, <3>3, <3>5 DEF ListedSlots
  <2> QED BY <2>1, <2>2
<1> PICK u : u = over.table
  OBVIOUS
<1>8. DOMAIN u = DOMAIN t /\ \A k \in DOMAIN t : u[k] \in EntryType /\ u[k].method = t[k].method
  BY <1>5, DraftFields DEF Shaped
<1>9. DOMAIN over = {"table", "taken", "sound", "slot"}
  BY <1>5 DEF DraftsOf
<1> DEFINE Matching(k) == {m \in ToSet(NewSlots(c)) : SameName(m, u[k].method)}
<1>10. \A k \in DOMAIN t : Matching(k) = NewOf(c, t[k].method)
  <2>1. ToSet(NewSlots(c)) = {m \in ToSet(Own(c)) : Info(m).newSlot}
    BY <1>1, NewSlotsAre
  <2> QED BY <1>8, <2>1 DEF NewOf
<1> HIDE DEF Matching
<1>11. /\ news.sound = over.sound /\ news.slot = over.slot
       /\ news.table = [k \in DOMAIN u |->
              IF k \in ListedSlots(c, placed) /\ Matching(k) # {}
              THEN [u[k] EXCEPT !.impl = OneOf(Matching(k))] ELSE u[k]]
  BY <1>9 DEF ApplyNewSlots, Matching
<1>12. news \in DraftsOf(t)
  BY <1>1, <1>5, NewSlotsKeep
<1>13. ASSUME NEW k \in DOMAIN t
       PROVE  /\ t[k].method[1] \in Listed(c) =>
                     \A x \in NewOf(c, t[k].method) : news.table[k].impl = x
              /\ t[k].method[1] \notin Listed(c) \/ NewOf(c, t[k].method) = {} =>
                     news.table[k] = u[k]
  <2> PICK S : S = NewOf(c, t[k].method)
    OBVIOUS
  <2>1. news.table[k] = IF t[k].method[1] \in Listed(c) /\ S # {}
                        THEN [u[k] EXCEPT !.impl = OneOf(S)] ELSE u[k]
    BY <1>7, <1>8, <1>10, <1>11
  <2>2. \A x \in S : OneOf(S) = x
    BY <1>1, NewOfIs
  <2>3. [u[k] EXCEPT !.impl = OneOf(S)].impl = OneOf(S)
    BY <1>8 DEF EntryType
  <2> QED BY <2>1, <2>2, <2>3
<1> QED BY <1>6, <1>11, <1>12, <1>13

(* What an entry for d should have in class c *)
Right(c, d) == IF d \in ClassMethods THEN Holds(c, d) ELSE Runs(c, d)

(* What is not right yet is empty, and of that name there is the right one. *)
LEMMA AlmostRight ==
    ASSUME NEW c, NEW placed, NEW t, NEW over, Overrode(c, placed, t, over),
           NEW news, news = ApplyNewSlots(c, placed, over), NEW k \in DOMAIN t, NEW d, d = t[k].method
    PROVE  /\ k <= Len(vtable[Parent(c)]) => EntryRight(c, news.table[k])
           /\ k > Len(vtable[Parent(c)]) =>
                  \/ news.table[k].impl = Right(c, d)
                  \/ /\ news.table[k].impl = NoMethod
                     /\ Named(c, d) # NoMethod /\ Right(c, d) = Named(c, d)
           /\ Right(c, d) # NoMethod
<1>1. /\ GoodProgram /\ c \in Classes \ Ifaces /\ Begun(c, placed, t) /\ Metadata(program)
  BY DEF Overrode, Begun, AllSetUp, GoodProgram
<1>2. d \in ClassMethods \/ (d \in Declared /\ d[1] \in Implements(c))
  BY <1>1, EntriesFor
<1>3. d \in Declared => d \notin ClassMethods
  BY DEF Declared, ClassMethods
<1>4. (k <= Len(vtable[Parent(c)])) = ~(k > Len(vtable[Parent(c)]))
  BY <1>1, EntryPlaces
<1>5. NoMethod \notin Methods
  BY <1>1, MethodsAre
<1>6. /\ t[k].method[1] \in Listed(c) => \A x \in NewOf(c, t[k].method) : news.table[k].impl = x
      /\ t[k].method[1] \notin Listed(c) \/ NewOf(c, t[k].method) = {} => news.table[k] = over.table[k]
      /\ news \in DraftsOf(t)
  <2>1. t[k].method[1] \in Listed(c) => \A x \in NewOf(c, t[k].method) : news.table[k].impl = x
    BY NewSlotsFill
  <2>2. t[k].method[1] \notin Listed(c) \/ NewOf(c, t[k].method) = {} => news.table[k] = over.table[k]
    BY NewSlotsFill
  <2>3. news \in DraftsOf(t)
    BY NewSlotsFill
  <2> QED BY <2>1, <2>2, <2>3
<1>7. news.table[k].method = d
  <2>1. Shaped(t, news.table)
    BY <1>6, DraftFields
  <2> QED BY <2>1 DEF Shaped
<1>8. CASE d \in ClassMethods
  <2>1. /\ k <= Len(vtable[Parent(c)]) =>
               \/ over.table[k].impl = Holds(c, d)
               \/ over.table[k].impl = NoMethod /\ Info(d).abstract /\ Holds(c, d) = d
        /\ k > Len(vtable[Parent(c)]) =>
               over.table[k] = Entry(d) /\ Holds(c, d) = d /\ Named(c, d) = d
        /\ d[1] \in Ancestors(c) /\ Info(d).newSlot
    BY <1>8, ClassEntry
  <2>2. news.table[k] = over.table[k]
    <3>1. Listed(c) \subseteq Ifaces
      BY <1>1, ImplementsAre
    <3> QED BY <1>6, <1>8, <3>1 DEF ClassMethods
  <2>3. Holds(c, d) \in ClassMethods
    BY <1>1, <1>8, <2>1, HoldsIs
  <2>4. Holds(c, d) # NoMethod /\ d # NoMethod
    BY <1>5, <1>8, <2>3 DEF ClassMethods
  <2>5. Right(c, d) = Holds(c, d)
    BY <1>8 DEF Right
  <2>6. ASSUME k > Len(vtable[Parent(c)])
        PROVE  \/ news.table[k].impl = d
               \/ news.table[k].impl = NoMethod
    BY <2>1, <2>2, <2>6 DEF Entry
  <2>7. ASSUME k <= Len(vtable[Parent(c)]) PROVE EntryRight(c, news.table[k])
    BY <1>7, <1>8, <2>1, <2>2, <2>7 DEF EntryRight
  <2> QED BY <2>1, <2>4, <2>5, <2>6, <2>7
<1>9. CASE d \in Declared
  <2>1. d \notin ClassMethods /\ d[1] \in Implements(c) /\ Right(c, d) = Runs(c, d)
    BY <1>2, <1>3, <1>9 DEF Right
  <2>2. Runs(c, d) # NoMethod
    BY <1>1, <1>9, <2>1, RunsIs
  <2>3. \/ news.table[k].impl = Runs(c, d)
        \/ /\ k > Len(vtable[Parent(c)]) /\ news.table[k].impl = NoMethod
           /\ Named(c, d) # NoMethod /\ Runs(c, d) = Named(c, d)
    <3>1. CASE d[1] \notin Listed(c) \/ NewOf(c, d) = {}
      <4>1. \/ over.table[k].impl = Runs(c, d)
            \/ /\ k > Len(vtable[Parent(c)]) /\ over.table[k].impl = NoMethod
               /\ Named(c, d) # NoMethod /\ Runs(c, d) = Named(c, d)
        BY <1>9, <3>1, InterfaceEntry
      <4> QED BY <1>6, <3>1, <4>1
    <3>2. CASE ~(d[1] \notin Listed(c) \/ NewOf(c, d) = {})
      <4>1. PICK x : x \in NewOf(c, d)
        BY <3>2
      <4>2. Runs(c, d) = x
        BY <1>1, <1>9, <3>2, <4>1, RunsNew
      <4> QED BY <1>6, <3>2, <4>1, <4>2
    <3> QED BY <3>1, <3>2
  <2>4. k <= Len(vtable[Parent(c)]) => news.table[k].impl = Runs(c, d)
    BY <1>4, <2>3
  <2>5. k <= Len(vtable[Parent(c)]) => EntryRight(c, news.table[k])
    BY <1>7, <2>1, <2>4 DEF EntryRight
  <2> QED BY <2>1, <2>2, <2>3, <2>5
<1> QED BY <1>2, <1>8, <1>9

(* What is empty is filled with what is right. *)
LEMMA FilledRight ==
    ASSUME NEW c, NEW placed, NEW t, NEW over, Overrode(c, placed, t, over),
           NEW fin, fin = FillEmpty(c, ApplyNewSlots(c, placed, over))
    PROVE  /\ fin \in DraftsOf(t) /\ fin.sound /\ fin.slot = over.slot
           /\ \A k \in DOMAIN t : EntryRight(c, fin.table[k])
           /\ \A k \in DOMAIN t : k > Len(vtable[Parent(c)]) =>
                  fin.table[k].impl = Right(c, t[k].method)
<1> PICK news : news = ApplyNewSlots(c, placed, over)
  OBVIOUS
<1> PICK u : u = news.table
  OBVIOUS
<1> PICK methods : methods = Hierarchy(c)
  OBVIOUS
<1> PICK n : n = Len(vtable[Parent(c)])
  OBVIOUS
<1>1. /\ GoodProgram /\ c \in Classes \ Ifaces /\ Begun(c, placed, t) /\ Metadata(program) /\ c \in Classes
  BY DEF Overrode, Begun, AllSetUp, GoodProgram
<1>2. news \in DraftsOf(t) /\ news.sound /\ news.slot = over.slot
  BY NewSlotsFill
<1>3. DOMAIN u = DOMAIN t /\ \A k \in DOMAIN t : u[k] \in EntryType /\ u[k].method = t[k].method
  BY <1>2, DraftFields DEF Shaped
<1>4. \A k \in DOMAIN t : (k <= n) = ~(k > n)
  BY <1>1, EntryPlaces
<1>5. ASSUME NEW k \in DOMAIN t
      PROVE  /\ k <= n => EntryRight(c, u[k])
             /\ k > n => \/ u[k].impl = Right(c, t[k].method)
                         \/ /\ u[k].impl = NoMethod
                            /\ Named(c, t[k].method) # NoMethod
                            /\ Right(c, t[k].method) = Named(c, t[k].method)
             /\ Right(c, t[k].method) # NoMethod
  BY AlmostRight
<1>6. methods \in Seq(Methods)
  BY <1>1, HierarchyType
<1> DEFINE empty == {k \in DOMAIN u : k > n /\ u[k].impl = NoMethod}
           found(k) == LastMatch(methods, u[k].method)
<1>7. ASSUME NEW k \in empty
      PROVE  found(k) # 0 /\ methods[found(k)] = Right(c, t[k].method)
  <2> PICK d : d = t[k].method
    OBVIOUS
  <2>1. k \in DOMAIN t /\ k > n /\ u[k].impl = NoMethod /\ u[k].method = d
    BY <1>3
  <2>2. Named(c, d) # NoMethod /\ Right(c, d) = Named(c, d)
    BY <1>5, <2>1
  <2>3. LastOf(methods, d, Named(c, d))
    BY <1>1, NamedIsLast
  <2>4. LastMatch(methods, d) # 0 /\ methods[LastMatch(methods, d)] = Named(c, d)
    BY <1>6, <2>2, <2>3, LastMatchIs
  <2> QED BY <2>1, <2>2, <2>4
<1>8. fin = [news EXCEPT !.table = [k \in DOMAIN @ |->
                 IF k \in empty THEN [@[k] EXCEPT !.impl = methods[found(k)]] ELSE @[k]]]
  BY <1>2, <1>7 DEF FillEmpty
<1>9. DOMAIN news = {"table", "taken", "sound", "slot"}
  BY <1>2 DEF DraftsOf
<1>10. /\ fin.sound = news.sound /\ fin.slot = news.slot
       /\ fin.table = [k \in DOMAIN u |->
              IF k \in empty THEN [u[k] EXCEPT !.impl = methods[found(k)]] ELSE u[k]]
  BY <1>8, <1>9
<1>11. fin \in DraftsOf(t)
  BY <1>1, <1>2, FillKeeps
<1>12. ASSUME NEW k \in DOMAIN t
       PROVE  /\ EntryRight(c, fin.table[k])
              /\ k > n => fin.table[k].impl = Right(c, t[k].method)
  <2>1. fin.table[k].method = t[k].method
    <3>1. Shaped(t, fin.table)
      BY <1>11, DraftFields
    <3> QED BY <3>1 DEF Shaped
  <2>2. ASSUME k \in empty PROVE fin.table[k].impl = Right(c, t[k].method)
    <3>1. [u[k] EXCEPT !.impl = methods[found(k)]].impl = methods[found(k)]
      BY <1>3 DEF EntryType
    <3>2. fin.table[k] = [u[k] EXCEPT !.impl = methods[found(k)]]
      BY <1>3, <1>10, <2>2
    <3> HIDE DEF found, empty
    <3> QED BY <1>7, <2>2, <3>1, <3>2
  <2>3. ASSUME k \notin empty PROVE fin.table[k] = u[k]
    BY <1>3, <1>10, <2>3
  <2>4. k \in empty <=> (k > n /\ u[k].impl = NoMethod)
    BY <1>3
  <2> HIDE DEF found, empty
  <2>5. k > n => fin.table[k].impl = Right(c, t[k].method)
    BY <1>5, <2>2, <2>3, <2>4
  <2>6. fin.table[k].impl = Right(c, t[k].method) => EntryRight(c, fin.table[k])
    BY <2>1 DEF EntryRight, Right
  <2> QED BY <1>4, <1>5, <2>3, <2>4, <2>5, <2>6
<1> HIDE DEF empty, found
<1> QED BY <1>2, <1>10, <1>11, <1>12

(* A class that is not abstract has something for all that can be called. *)
LEMMA NoneMissing ==
    ASSUME GoodProgram, NEW c \in Classes \ Ifaces, ~program[c].abstract, NEW e, EntryRight(c, e),
           Info(e.method).newSlot, e.method \in ClassMethods => e.method[1] \in Ancestors(c),
           e.method \notin ClassMethods => e.method \in Declared /\ e.method[1] \in Implements(c)
    PROVE  e.impl # NoMethod /\ e.impl = Right(c, e.method)
<1> PICK d : d = e.method
  OBVIOUS
<1>1. Metadata(program) /\ NoMethod \notin Methods
  BY MethodsAre DEF GoodProgram
<1>2. CASE d \in ClassMethods
  <2>1. Original[d] = d /\ d \in Methods
    BY <1>2, OriginalIs DEF ClassMethods
  <2>2. d \in Callable(c) /\ ~IsInterface(d[1]) /\ ~IsInterface(c)
    <3>1. d[1] \in Classes
      BY <1>1, <2>1, MethodsAre
    <3> QED BY <1>2, <2>1, <3>1 DEF Callable, ClassMethods, Ifaces
  <2>3. Runs(c, d) = Holds(c, d)
    BY <2>1, <2>2 DEF Runs
  <2>4. Holds(c, d) \in Bodied
    BY <2>2, <2>3 DEF GoodProgram, Valid
  <2>5. Holds(c, d) # NoMethod /\ ~Info(Holds(c, d)).abstract
    BY <1>1, <2>4 DEF Bodied
  <2> QED BY <1>2, <2>5 DEF EntryRight, Right
<1>3. CASE d \notin ClassMethods
  <2>1. Runs(c, d) # NoMethod
    BY <1>3, RunsIs
  <2> QED BY <1>3, <2>1 DEF EntryRight, Right
<1> QED BY <1>2, <1>3

(* The finished table is right, and the class is not refused. *)
LEMMA FinishedRight ==
    ASSUME NEW c, NEW placed, NEW t, Begun(c, placed, t), NEW fin, fin = Finished(c, placed)
    PROVE  /\ fin \in DraftsOf(t) /\ fin.sound /\ Complete(c, fin)
           /\ \A k \in DOMAIN t : Info(t[k].method).newSlot /\ EntryRight(c, fin.table[k])
           /\ \A x \in ClassMethods : x[1] \in Ancestors(c) => AtItsSlot(x, fin.slot, fin.table)
           /\ \A x \in Methods : x[1] # c => fin.slot[x] = slot[x]
<1> PICK from : from = ApplyMethodImpls(c, placed, Draft(c, placed))
  OBVIOUS
<1> PICK over : over = ApplyOverrides(c, from)
  OBVIOUS
<1> PICK p : p = Parent(c)
  OBVIOUS
<1>1. /\ GoodProgram /\ TablesType /\ c \in Classes \ Ifaces /\ Metadata(program) /\ c \in Classes /\ Dispatches(p)
  BY DEF Begun, AllSetUp, GoodProgram
<1>2. Overrode(c, placed, t, over) /\ RowsLeave(c, placed, t, from)
  BY RowsApplied DEF Overrode
<1>3. OverridesDone(c, t, from, Overrides(c), over)
  BY <1>2, OverridesApplied
<1>4. /\ fin \in DraftsOf(t) /\ fin.sound /\ fin.slot = over.slot
      /\ \A k \in DOMAIN t : EntryRight(c, fin.table[k])
  <2>1. fin = FillEmpty(c, ApplyNewSlots(c, placed, over))
    BY DEF Finished
  <2> QED BY <1>2, <2>1, FilledRight
<1>5. /\ DOMAIN fin.table = DOMAIN t /\ \A k \in DOMAIN t : fin.table[k].method = t[k].method
  BY <1>4, DraftFields DEF Shaped
<1>6. /\ p \in Classes \ Ifaces /\ Ancestors(c) = Ancestors(p) \cup {c} /\ c \notin Ancestors(p)
      /\ \A x \in ToSet(Own(c)) : x \in ClassMethods /\ x[1] = c /\ x \in Methods
      /\ \A k \in DOMAIN vtable[p] : k \in DOMAIN t /\ t[k] = vtable[p][k]
  BY <1>1, OwnOfClass, FirstEntries DEF Begun
<1>7. \A x \in Methods : x[1] = c => x \in ToSet(Own(c))
  BY <1>1, OwnOfClass
<1>8. /\ \A x \in ToSet(NewSlots(c)) : /\ Draft(c, placed).slot[x] + 1 \in DOMAIN t
                                       /\ t[Draft(c, placed).slot[x] + 1].method = x
      /\ \A x \in Methods \ ToSet(NewSlots(c)) : Draft(c, placed).slot[x] = slot[x]
  BY FirstEntries DEF Begun
<1>9. ToSet(NewSlots(c)) = {m \in ToSet(Own(c)) : Info(m).newSlot}
  BY <1>1, NewSlotsAre
<1>10. \A x \in Methods :
           fin.slot[x] = IF x \in Overrides(c) THEN slot[Named(p, x)] ELSE Draft(c, placed).slot[x]
  BY <1>2, <1>3, <1>4 DEF OverridesDone, RowsLeave
<1>11. ASSUME NEW x \in Methods, x[1] # c PROVE fin.slot[x] = slot[x]
  <2>1. x \notin ToSet(Own(c))
    BY <1>6, <1>11
  <2>2. x \notin Overrides(c) /\ x \notin ToSet(NewSlots(c))
    BY <1>9, <2>1 DEF Overrides
  <2> QED BY <1>8, <1>10, <2>2
<1>12. ASSUME NEW x \in ClassMethods, x[1] \in Ancestors(c)
       PROVE  fin.slot[x] + 1 \in DOMAIN t /\ t[fin.slot[x] + 1].method = Original[x]
  <2>1. x \in Methods
    BY DEF ClassMethods
  <2>2. CASE x[1] # c
    <3>1. fin.slot[x] = slot[x] /\ x[1] \in Ancestors(p)
      BY <1>6, <1>11, <1>12, <2>1, <2>2
    <3>2. slot[x] + 1 \in DOMAIN vtable[p] /\ vtable[p][slot[x] + 1].method = Original[x]
      BY <1>1, <1>6, <3>1 DEF Dispatches, AtItsSlot
    <3> QED BY <1>6, <3>1, <3>2
  <2>3. CASE x[1] = c /\ Info(x).newSlot
    <3>1. x \in ToSet(NewSlots(c)) /\ x \notin Overrides(c)
      BY <1>7, <1>9, <2>1, <2>3 DEF Overrides
    <3>2. Original[x] = x
      BY <1>1, <2>1, <2>3, OriginalIs
    <3> QED BY <1>8, <1>10, <2>1, <3>1, <3>2
  <2>4. CASE x[1] = c /\ ~Info(x).newSlot
    <3>1. x \in ToSet(Own(c)) /\ x \in Overrides(c)
      BY <1>7, <2>1, <2>4 DEF Overrides
    <3>2. fin.slot[x] = slot[Named(p, x)]
      BY <1>10, <2>1, <3>1
    <3> QED BY <2>4, <3>1, <3>2, OverriddenIs
  <2> QED BY <2>2, <2>3, <2>4
<1>13. \A k \in DOMAIN t : Info(t[k].method).newSlot
  BY EntriesFor
<1>14. Complete(c, fin)
  <2> SUFFICES ASSUME ~program[c].abstract, NEW k \in DOMAIN t PROVE fin.table[k].impl # NoMethod
    BY <1>5 DEF Complete
  <2>1. t[k].method \in ClassMethods \/ (t[k].method \in Declared /\ t[k].method[1] \in Implements(c))
    BY EntriesFor
  <2>2. t[k].method \in ClassMethods => t[k].method[1] \in Ancestors(c)
    BY <1>2, ClassEntry
  <2> QED BY <1>1, <1>4, <1>5, <1>13, <2>1, <2>2, NoneMissing
<1>15. \A x \in ClassMethods : x[1] \in Ancestors(c) => AtItsSlot(x, fin.slot, fin.table)
  BY <1>5, <1>12 DEF AtItsSlot
<1> QED BY <1>4, <1>11, <1>13, <1>14, <1>15

------------------------------------------------------------------------------
(***************************************************************************)
(* What is ready stays right.                                              *)
(***************************************************************************)
(* What the standard names depends on the metadata alone. *)
LEMMA NamesKept ==
    ASSUME program' = program
    PROVE  /\ Original' = Original /\ ClassMethods' = ClassMethods
           /\ \A m : Info(m)' = Info(m) /\ Entry(m)' = Entry(m)
           /\ \A c : NewSlots(c)' = NewSlots(c) /\ Implements(c)' = Implements(c)
           /\ \A c : Listed(c)' = Listed(c) /\ ToSet(Own(c))' = ToSet(Own(c))
           /\ \A s : Entries(s)' = Entries(s)
           /\ \A c, d : Holds(c, d)' = Holds(c, d) /\ Runs(c, d)' = Runs(c, d) /\ Gives(c, d)' = Gives(c, d)
<1>1. /\ Classes' = Classes /\ Methods' = Methods /\ Ifaces' = Ifaces /\ Line' = Line
      /\ \A c : Parent(c)' = Parent(c) /\ Ancestors(c)' = Ancestors(c)
  BY ProgramKept DEF Line, Classes, Parent
<1>2. ASSUME NEW m PROVE Info(m)' = Info(m)
  BY DEF Info
<1>3. ASSUME NEW c PROVE Own(c)' = Own(c) /\ Listed(c)' = Listed(c) /\ IsInterface(c)' = IsInterface(c)
  BY DEF Own, Listed, IsInterface
<1>4. ASSUME NEW m, NEW d PROVE SameName(m, d)' = SameName(m, d)
  BY <1>2 DEF SameName
<1>5. ASSUME NEW c, NEW d PROVE Introducing(c, d)' = Introducing(c, d)
  BY DEF Introducing, Nearest, SameName, Info, Classes, Own, Parent, OneOf
<1>6. Original' = Original
  BY <1>1, <1>5 DEF Original
<1>7. ASSUME NEW c, NEW d PROVE Bodies(c, d)' = Bodies(c, d)
  BY <1>3, <1>6 DEF Bodies
<1>8. ASSUME NEW c, NEW d, NEW m PROVE Overridden(c, d, m)' = Overridden(c, d, m)
  BY DEF Overridden, OneOf, Bodies, IsInterface, Own, ToSet, Original, Introducing, Nearest,
         SameName, Info, Classes, Parent, Methods
<1>9. ASSUME NEW c, NEW d PROVE Holds(c, d)' = Holds(c, d)
  BY <1>1, <1>8 DEF Holds
<1>10. ASSUME NEW c PROVE Implements(c)' = Implements(c)
  BY <1>1, <1>3 DEF Implements
<1>11. ASSUME NEW c, NEW d PROVE NewOf(c, d)' = NewOf(c, d)
  BY <1>2, <1>3, <1>4 DEF NewOf
<1>12. ASSUME NEW c, NEW d PROVE Named(c, d)' = Named(c, d)
  BY DEF Named, Nearest, SameName, Info, Classes, Own, Parent, OneOf
<1>13. ASSUME NEW c, NEW d, NEW m PROVE Given(c, d, m)' = Given(c, d, m)
  BY DEF Given, NewOf, Listed, OneOf, Bodies, IsInterface, Own, ToSet, Original, Introducing, Nearest,
         SameName, Info, Classes, Parent, Methods
<1>14. ASSUME NEW c, NEW d PROVE Gives(c, d)' = Gives(c, d)
  BY <1>1, <1>10, <1>13 DEF Gives
<1>15. ASSUME NEW c, NEW d PROVE Default(c, d)' = Default(c, d)
  BY DEF Default, Defaulting, Implements, Ancestors, Line, Listed, OneOf, Bodies, IsInterface, Own,
         ToSet, Original, Introducing, Nearest, SameName, Info, Classes, Parent, Methods
<1>16. ASSUME NEW c, NEW d PROVE Runs(c, d)' = Runs(c, d)
  BY <1>3, <1>6, <1>9, <1>14, <1>15 DEF Runs
<1>17. ASSUME NEW c PROVE NewSlots(c)' = NewSlots(c)
  BY DEF NewSlots, FoldLeft, MapThenFoldSet, Info, Own
<1>18. ClassMethods' = ClassMethods
  BY <1>1 DEF ClassMethods
<1>19. ASSUME NEW m PROVE Entry(m)' = Entry(m)
  BY <1>2 DEF Entry
<1>20. ASSUME NEW s PROVE Entries(s)' = Entries(s)
  BY <1>19 DEF Entries
<1>21. ASSUME NEW c PROVE ToSet(Own(c))' = ToSet(Own(c))
  BY <1>3 DEF ToSet
<1> QED BY <1>2, <1>3, <1>6, <1>9, <1>10, <1>14, <1>16, <1>17, <1>18, <1>19, <1>20, <1>21

(* So it is the same program. *)
LEMMA GoodKept == ASSUME program' = program, GoodProgram PROVE GoodProgram'
<1>1. Metadata(program)'
  <2>1. Metadata(program')
    BY DEF GoodProgram
  <2> QED BY <2>1
<1>2. /\ Classes' = Classes /\ Methods' = Methods /\ Original' = Original
      /\ \A c : Listed(c)' = Listed(c) /\ Implements(c)' = Implements(c) /\ Ancestors(c)' = Ancestors(c)
      /\ \A c : IsInterface(c)' = IsInterface(c) /\ Parent(c)' = Parent(c) /\ ToSet(Own(c))' = ToSet(Own(c))
      /\ \A c, d : Runs(c, d)' = Runs(c, d)
      /\ \A m : Info(m)' = Info(m)
  BY NamesKept, ProgramKept DEF IsInterface
<1>3. ASSUME NEW c PROVE Callable(c)' = Callable(c)
  BY <1>2 DEF Callable
<1>4. Bodied' = Bodied
  BY <1>2 DEF Bodied
<1>5. Valid'
  BY <1>2, <1>3, <1>4 DEF GoodProgram, Valid
<1>6. ASSUME NEW m, NEW d PROVE SameName(m, d)' = SameName(m, d)
  BY <1>2 DEF SameName
<1>7. ASSUME NEW c, NEW row PROVE ExplicitRow(c, row)' = ExplicitRow(c, row)
  BY <1>2, <1>4 DEF ExplicitRow
<1>8. Compiled'
  <2>1. ASSUME NEW c PROVE ToSet(program[c].impls)' = ToSet(program[c].impls)
    BY DEF ToSet
  <2> QED BY <1>2, <1>3, <1>6, <1>7, <2>1 DEF GoodProgram, Compiled
<1>9. ASSUME NEW c, NEW d PROVE Bodies(c, d)' = Bodies(c, d) /\ NewOf(c, d)' = NewOf(c, d)
  BY <1>2, <1>6 DEF Bodies, NewOf
<1>10. ASSUME NEW c, NEW d PROVE Gives(c, d)' = Gives(c, d) /\ Defaulting(c, d)' = Defaulting(c, d)
  BY <1>2, <1>9, NamesKept DEF Defaulting
<1>11. Supported'
  BY <1>2, <1>9, <1>10 DEF GoodProgram, Supported
<1> QED BY <1>1, <1>5, <1>8, <1>11 DEF GoodProgram

(* The ancestors of a class that is ready are ready. *)
LEMMA AncestorsReady ==
    ASSUME TablesInv, NEW c \in Ready
    PROVE  Ancestors(c) \subseteq Ready
<1> PICK D : D = Ready
  OBVIOUS
<1> DEFINE Bad == {k \in D : ~(Ancestors(k) \subseteq D)}
<1>1. Metadata(program) /\ D \subseteq Classes /\ \A k \in D : Parent(k) \in D \cup {NoClass}
  BY MetadataHolds DEF TablesInv, Ready, ReadyIsClosed
<1>2. CASE Bad # {}
  <2>1. Bad \in (SUBSET Classes) \ {{}}
    BY <1>1, <1>2
  <2> HIDE DEF Bad
  <2>2. PICK k \in Bad : Parent(k) \notin Bad
    BY <1>1, <2>1, ParentsFounded
  <2> USE DEF Bad
  <2>3. k \in D /\ k \in Classes /\ Parent(k) \in D \cup {NoClass}
    BY <1>1, <2>2
  <2>4. Ancestors(Parent(k)) \subseteq D
    BY <1>1, <2>2, <2>3, AncestorsUnfolded
  <2>5. Ancestors(k) \subseteq D
    BY <1>1, <2>3, <2>4, AncestorsUnfolded
  <2> QED BY <2>2, <2>5
<1> QED BY <1>2

(* The tables of a class that keeps them, and the slots in them, stay right. *)
LEMMA DispatchesKept ==
    ASSUME GoodProgram, program' = program, NEW k \in Classes, Dispatches(k),
           vtable'[k] = vtable[k], offsets'[k] = offsets[k],
           \A x \in Methods : x[1] \in Ancestors(k) => slot'[x] = slot[x]
    PROVE  Dispatches(k)'
<1>1. /\ Original' = Original /\ ClassMethods' = ClassMethods /\ Ifaces' = Ifaces
      /\ \A m : Info(m)' = Info(m)
      /\ NewSlots(k)' = NewSlots(k) /\ Implements(k)' = Implements(k) /\ Ancestors(k)' = Ancestors(k)
      /\ \A d : Holds(k, d)' = Holds(k, d) /\ Runs(k, d)' = Runs(k, d)
      /\ \A s : Entries(s)' = Entries(s)
  BY NamesKept, ProgramKept
<1>2. ASSUME NEW e PROVE EntryRight(k, e)' = EntryRight(k, e)
  BY <1>1 DEF EntryRight
<1>3. CASE k \in Ifaces
  <2>1. k \in Ancestors(k) /\ Metadata(program)
    BY AncestorsUnfolded DEF GoodProgram
  <2>2. \A j \in DOMAIN NewSlots(k) : NewSlots(k)[j] \in Methods /\ NewSlots(k)[j][1] = k
    <3>1. ToSet(NewSlots(k)) \subseteq ToSet(Own(k))
      BY <2>1, NewSlotsAre
    <3>2. \A m \in ToSet(Own(k)) : m \in Methods /\ m[1] = k
      BY <2>1, MethodsAre DEF Methods
    <3> QED BY <3>1, <3>2 DEF ToSet
  <2>3. vtable[k] = Entries(NewSlots(k)) /\ \A j \in DOMAIN NewSlots(k) : slot[NewSlots(k)[j]] = j - 1
    BY <1>3 DEF Dispatches
  <2>4. \A j \in DOMAIN NewSlots(k) : slot'[NewSlots(k)[j]] = j - 1
    BY <2>1, <2>2, <2>3
  <2> QED BY <1>1, <1>3, <2>3, <2>4 DEF Dispatches
<1>4. CASE k \notin Ifaces
  <2>1. /\ \A j \in DOMAIN vtable[k] :
               Info(vtable[k][j].method).newSlot /\ EntryRight(k, vtable[k][j])
        /\ \A x \in ClassMethods : x[1] \in Ancestors(k) => AtItsSlot(x, slot, vtable[k])
        /\ InterfacesAt(offsets[k]) = Implements(k)
    BY <1>4 DEF Dispatches
  <2>2. \A j \in DOMAIN vtable'[k] : (Info(vtable[k][j].method).newSlot /\ EntryRight(k, vtable[k][j]))'
    <3> SUFFICES ASSUME NEW j \in DOMAIN vtable[k]
                 PROVE  (Info(vtable[k][j].method).newSlot /\ EntryRight(k, vtable[k][j]))'
      OBVIOUS
    <3> PICK e : e = vtable[k][j]
      OBVIOUS
    <3>1. vtable'[k][j] = e
      OBVIOUS
    <3>2. EntryRight(k, e)' /\ Info(e.method)'.newSlot
      BY <1>1, <1>2, <2>1
    <3>3. EntryRight(k, vtable[k][j])'
      BY <3>1, <3>2 DEF EntryRight
    <3>4. Info(vtable[k][j].method)'.newSlot
      BY <3>1, <3>2 DEF Info
    <3> QED BY <3>3, <3>4
  <2>3. InterfacesAt(offsets[k])' = InterfacesAt(offsets[k])
    BY DEF InterfacesAt
  <2>4. ASSUME NEW x \in ClassMethods, x[1] \in Ancestors(k) PROVE AtItsSlot(x, slot, vtable[k])'
    <3>1. slot'[x] = slot[x]
      BY <2>4 DEF ClassMethods
    <3> QED BY <1>1, <2>1, <2>4, <3>1 DEF AtItsSlot
  <2> QED BY <1>1, <1>4, <2>1, <2>2, <2>3, <2>4 DEF Dispatches
<1> QED BY <1>3, <1>4

(* The table t, the offsets offs and the slots s are right for class c. *)
Serves(c, t, offs, s) ==
    /\ c \in Ifaces =>
           /\ t = Entries(NewSlots(c))
           /\ \A k \in DOMAIN NewSlots(c) : s[NewSlots(c)[k]] = k - 1
    /\ c \notin Ifaces =>
           /\ \A k \in DOMAIN t : Info(t[k].method).newSlot /\ EntryRight(c, t[k])
           /\ \A x \in ClassMethods : x[1] \in Ancestors(c) => AtItsSlot(x, s, t)
           /\ InterfacesAt(offs) = Implements(c)

(* So a class with that table, those offsets and slots is right after a step. *)
LEMMA ServesThen ==
    ASSUME program' = program, NEW c, NEW t, NEW offs, NEW s, Serves(c, t, offs, s),
           vtable'[c] = t, offsets'[c] = offs, slot' = s
    PROVE  Dispatches(c)'
<1>1. /\ Original' = Original /\ ClassMethods' = ClassMethods /\ Ifaces' = Ifaces
      /\ \A m : Info(m)' = Info(m)
      /\ NewSlots(c)' = NewSlots(c) /\ Implements(c)' = Implements(c) /\ Ancestors(c)' = Ancestors(c)
      /\ \A d : Holds(c, d)' = Holds(c, d) /\ Runs(c, d)' = Runs(c, d)
      /\ \A q : Entries(q)' = Entries(q)
  BY NamesKept, ProgramKept
<1>2. ASSUME NEW e PROVE EntryRight(c, e)' = EntryRight(c, e)
  BY <1>1 DEF EntryRight
<1>3. ASSUME NEW x PROVE AtItsSlot(x, slot, vtable[c])' = AtItsSlot(x, s, t)
  BY <1>1 DEF AtItsSlot
<1>4. \A k \in DOMAIN t : Info(t[k].method)' = Info(t[k].method) /\ EntryRight(c, t[k])' = EntryRight(c, t[k])
  <2>1. ASSUME NEW k \in DOMAIN t PROVE EntryRight(c, t[k])' = EntryRight(c, t[k])
    BY <1>2
  <2> QED BY <1>1, <2>1
<1>5. \A k \in DOMAIN t : /\ Info(vtable[c][k].method)' = Info(t[k].method)'
                           /\ EntryRight(c, vtable[c][k])' = EntryRight(c, t[k])'
  BY DEF EntryRight, Info
<1>6. InterfacesAt(offsets[c])' = InterfacesAt(offs)
  BY DEF InterfacesAt
<1>7. CASE c \in Ifaces
  BY <1>1, <1>7 DEF Serves, Dispatches
<1>8. CASE c \notin Ifaces
  <2>1. \A k \in DOMAIN vtable'[c] : Info(vtable[c][k].method)'.newSlot /\ EntryRight(c, vtable[c][k])'
    BY <1>4, <1>5, <1>8 DEF Serves
  <2>2. \A x \in ClassMethods : x[1] \in Ancestors(c) => AtItsSlot(x, slot, vtable[c])'
    BY <1>3, <1>8 DEF Serves
  <2>3. InterfacesAt(offsets[c])' = Implements(c)
    BY <1>6, <1>8 DEF Serves
  <2> QED BY <1>1, <1>8, <2>1, <2>2, <2>3 DEF Dispatches
<1> QED BY <1>7, <1>8

(* Methods with new slots are numbered in their order. *)
LEMMA RootSlots ==
    ASSUME Metadata(program), NEW c \in Classes, NEW s, s = NumberedFrom(-1, NewSlots(c))
    PROVE  /\ \A k \in DOMAIN NewSlots(c) : s[NewSlots(c)[k]] = k - 1
           /\ \A x \in Methods : x[1] # c => s[x] = slot[x]
<1> PICK q : q = NewSlots(c)
  OBVIOUS
<1>1. /\ q \in Seq(Methods) /\ ToSet(q) \subseteq ToSet(Own(c))
      /\ \A j, k \in DOMAIN q : q[j] = q[k] => j = k
  BY NewSlotsAre
<1>2. /\ DOMAIN q \subseteq Nat /\ \A k \in DOMAIN q : q[k] \in Methods /\ q[k] \in ToSet(q)
  <2>1. DOMAIN q = 1 .. Len(q) /\ Len(q) \in Nat /\ \A k \in DOMAIN q : q[k] \in Methods
    BY <1>1, SeqElements
  <2> QED BY <2>1 DEF ToSet
<1>3. \A m \in Methods : s[m] = IF m \in ToSet(q) THEN -1 + CHOOSE k \in DOMAIN q : q[k] = m ELSE slot[m]
  BY DEF NumberedFrom
<1>4. ASSUME NEW k \in DOMAIN q PROVE s[q[k]] = k - 1
  <2> PICK j : j = CHOOSE i \in DOMAIN q : q[i] = q[k]
    OBVIOUS
  <2>1. j \in DOMAIN q /\ q[j] = q[k]
    OBVIOUS
  <2>2. j = k
    BY <1>1, <2>1
  <2>3. s[q[k]] = -1 + j
    BY <1>2, <1>3
  <2>4. k \in Nat
    BY <1>2
  <2>5. -1 + k = k - 1
    BY ONLY <2>4
  <2> QED BY <2>2, <2>3, <2>5
<1>5. ASSUME NEW x \in Methods, x[1] # c PROVE s[x] = slot[x]
  <2>1. x \notin ToSet(q)
    BY <1>1, <1>5, MethodsAre
  <2> QED BY <1>3, <2>1
<1> QED BY <1>4, <1>5

(* System.Object and interfaces *)
LEMMA RootServes ==
    ASSUME GoodProgram, NEW c \in Classes, Parent(c) = NoClass
    PROVE  Serves(c, Entries(NewSlots(c)), <<>>, NumberedFrom(-1, NewSlots(c)))
<1> PICK q : q = NewSlots(c)
  OBVIOUS
<1> PICK t : t = Entries(q)
  OBVIOUS
<1> PICK s : s = NumberedFrom(-1, q)
  OBVIOUS
<1>1. Metadata(program)
  BY DEF GoodProgram
<1>2. \A k \in DOMAIN q : s[q[k]] = k - 1
  BY <1>1, RootSlots
<1>3. CASE c \in Ifaces
  BY <1>2, <1>3 DEF Serves
<1>4. CASE c \notin Ifaces
  <2>1. c \in Classes \ Ifaces
    BY <1>4
  <2>2. /\ Ancestors(c) = {c} /\ Implements(c) = {} /\ InterfacesAt(<<>>) = {}
    BY <1>1, <2>1, ImplementsAre, AncestorsUnfolded DEF InterfacesAt
  <2>3. /\ q \in Seq(Methods) /\ ToSet(q) = {m \in ToSet(Own(c)) : Info(m).newSlot}
        /\ \A x \in ToSet(Own(c)) : x \in ClassMethods /\ x \in Methods
        /\ \A x \in Methods : x[1] = c => x \in ToSet(Own(c))
    BY <1>1, <2>1, NewSlotsAre, OwnOfClass
  <2>4. DOMAIN q \subseteq Nat /\ \A k \in DOMAIN q : q[k] \in ToSet(q)
    <3>1. DOMAIN q = 1 .. Len(q) /\ Len(q) \in Nat
      BY <2>3
    <3> QED BY <3>1 DEF ToSet
  <2>5. DOMAIN t = DOMAIN q /\ \A k \in DOMAIN q : t[k] = Entry(q[k])
    BY DEF Entries
  <2>6. ASSUME NEW k \in DOMAIN t PROVE Info(t[k].method).newSlot /\ EntryRight(c, t[k])
    <3> PICK m : m = q[k]
      OBVIOUS
    <3>1. m \in ToSet(Own(c)) /\ Info(m).newSlot /\ m \in ClassMethods /\ m \in Methods
      BY <2>3, <2>4, <2>5
    <3>2. Original[m] = m /\ Holds(c, m) = m
      <4>1. Original[m] = m
        BY <3>1, OriginalIs
      <4>2. Holds(c, Original[m]) = m
        BY <2>1, <3>1, OwnIsHeld
      <4> QED BY <4>1, <4>2
    <3>3. t[k].method = m /\ t[k].impl = IF Info(m).abstract THEN NoMethod ELSE m
      BY <2>5 DEF Entry
    <3> QED BY <3>1, <3>2, <3>3 DEF EntryRight
  <2>7. ASSUME NEW x \in ClassMethods, x[1] \in Ancestors(c) PROVE AtItsSlot(x, s, t)
    <3>1. x \in Methods /\ x[1] = c /\ x \in ToSet(Own(c))
      BY <2>2, <2>3, <2>7 DEF ClassMethods
    <3>2. Info(x).newSlot /\ Original[x] = x
      <4>1. Original[x] # NoMethod
        BY <3>1, OriginalIs
      <4>2. ~Info(x).newSlot => Original[x] = Introducing(Parent(x[1]), x)
        BY <3>1, OriginalIs
      <4>3. Introducing(NoClass, x) = NoMethod
        BY <1>1, IntroducingUnfolded
      <4>4. Info(x).newSlot
        BY <3>1, <4>1, <4>2, <4>3
      <4> QED BY <3>1, <4>4, OriginalIs
    <3>3. PICK k \in DOMAIN q : q[k] = x
      BY <2>3, <3>1, <3>2 DEF ToSet
    <3>4. s[x] + 1 = k
      <4>1. s[x] = k - 1 /\ k \in Nat
        BY <1>2, <2>4, <3>3
      <4> QED BY <4>1
    <3>5. t[k].method = x /\ k \in DOMAIN t
      BY <2>5, <3>3 DEF Entry
    <3> QED BY <3>2, <3>4, <3>5 DEF AtItsSlot
  <2> QED BY <1>4, <2>2, <2>6, <2>7 DEF Serves
<1> QED BY <1>3, <1>4

(* A class without methods and interfaces is as its parent. *)
LEMMA InheritedServes ==
    ASSUME GoodProgram, NEW c \in Classes \ Ifaces, NEW p, p = Parent(c), p # NoClass,
           TablesType, TableFine(p), Dispatches(p), SharesParents(c)
    PROVE  Serves(c, vtable[p], offsets[p], slot)
<1> PICK t : t = vtable[p]
  OBVIOUS
<1>1. /\ Metadata(program) /\ p \in Classes \ Ifaces /\ Ancestors(c) = Ancestors(p) \cup {c}
      /\ Implements(p) \subseteq Ifaces /\ Ancestors(p) \subseteq Classes \ Ifaces
      /\ Implements(c) = Implements(p) \cup Listed(c)
      /\ \A x \in Methods : x[1] = c => x \in ToSet(Own(c))
  BY OwnOfClass, ImplementsAre DEF GoodProgram
<1>2. ToSet(Own(c)) = {} /\ Listed(c) = {}
  BY <1>1 DEF SharesParents, Interfaces, Listed, ToSet
<1>3. /\ \A k \in DOMAIN t : Info(t[k].method).newSlot /\ EntryRight(p, t[k])
      /\ \A x \in ClassMethods : x[1] \in Ancestors(p) => AtItsSlot(x, slot, t)
      /\ InterfacesAt(offsets[p]) = Implements(p)
  BY <1>1 DEF Dispatches
<1>4. \A k \in DOMAIN t : t[k].method \in Methods /\ t[k].method[1] \in Ancestors(p) \cup Implements(p)
  <2>1. t \in Seq(EntryType)
    BY <1>1 DEF TablesType
  <2>2. \A k \in DOMAIN t : t[k] \in EntryType
    BY <2>1, SeqElements
  <2> QED BY <1>3, <2>2 DEF TableFine, MethodsOf, EntryType
<1>5. ASSUME NEW k \in DOMAIN t PROVE EntryRight(c, t[k])
  <2> PICK e : e = t[k]
    OBVIOUS
  <2> PICK d : d = e.method
    OBVIOUS
  <2>1. d \in Methods /\ Info(d).newSlot /\ EntryRight(p, e) /\ d[1] \in Ancestors(p) \cup Implements(p)
    BY <1>3, <1>4
  <2>2. CASE d \in ClassMethods
    <3>1. d[1] \in Ancestors(p)
      BY <1>1, <2>1, <2>2 DEF ClassMethods
    <3>2. Holds(c, d) = Holds(p, d)
      BY <1>1, <1>2, <2>1, <2>2, <3>1, HoldsIs
    <3> QED BY <2>1, <2>2, <3>2 DEF EntryRight
  <2>3. CASE d \notin ClassMethods
    <3>1. d \in Declared /\ d[1] \in Ifaces /\ d[1] \in Implements(p)
      BY <1>1, <2>1, <2>3 DEF ClassMethods, Declared
    <3>2. Bodies(c, d) = {}
      BY <1>2, <3>1, BodiesAre
    <3>3. d[1] \notin Listed(c)
      BY <1>2
    <3>4. CASE Gives(p, d) # NoMethod
      <4>1. \A y \in ToSet(Own(c)) : Original[y] # Original[Runs(p, d)]
        BY <1>2
      <4>2. Runs(c, d) = Runs(p, d)
        BY <3>1, <3>2, <3>3, <3>4, <4>1, RunsGiven
      <4> QED BY <2>1, <2>3, <4>2 DEF EntryRight
    <3>5. CASE Gives(p, d) = NoMethod
      <4>1. \A i \in Listed(c) : Bodies(i, d) = {}
        BY <1>2
      <4>2. Runs(c, d) = Runs(p, d)
        BY <3>1, <3>2, <3>3, <3>5, <4>1, RunsDefault
      <4> QED BY <2>1, <2>3, <4>2 DEF EntryRight
    <3> QED BY <3>4, <3>5
  <2> QED BY <2>2, <2>3
<1>6. ASSUME NEW x \in ClassMethods, x[1] \in Ancestors(c) PROVE AtItsSlot(x, slot, t)
  <2>1. x[1] # c
    BY <1>1, <1>2 DEF ClassMethods
  <2> QED BY <1>1, <1>3, <1>6, <2>1
<1>7. InterfacesAt(offsets[p]) = Implements(c)
  BY <1>1, <1>2, <1>3
<1> QED BY <1>3, <1>5, <1>6, <1>7 DEF Serves

(* setup_vtable_typedef *)
LEMMA FinishedServes ==
    ASSUME NEW c, AllSetUp(c), NEW placed, placed = InterfaceOffsets(c),
           NEW fin, fin = Finished(c, placed)
    PROVE  fin.sound /\ Complete(c, fin) /\ Serves(c, fin.table, placed, fin.slot)
<1> PICK t : t = FirstTable(c, placed)
  OBVIOUS
<1>1. Begun(c, placed, t)
  BY DEF Begun
<1>2. /\ fin \in DraftsOf(t) /\ fin.sound /\ Complete(c, fin)
      /\ \A k \in DOMAIN t : Info(t[k].method).newSlot /\ EntryRight(c, fin.table[k])
      /\ \A x \in ClassMethods : x[1] \in Ancestors(c) => AtItsSlot(x, fin.slot, fin.table)
  BY <1>1, FinishedRight
<1>3. DOMAIN fin.table = DOMAIN t /\ \A k \in DOMAIN t : fin.table[k].method = t[k].method
  BY <1>2, DraftFields DEF Shaped
<1>4. InterfacesAt(placed) = Implements(c)
  BY FirstEntries
<1>5. c \notin Ifaces
  BY DEF AllSetUp
<1> QED BY <1>2, <1>3, <1>4, <1>5 DEF Serves

(***************************************************************************)
(* The second invariant: in a program that compilers produce and that the  *)
(* tables support, no class is refused, and each class that is ready has   *)
(* in its tables what the standard names.                                  *)
(***************************************************************************)
DispatchInv ==
    /\ TablesInv
    /\ GoodProgram
    /\ refused = {}
    /\ \A c \in Ready : Dispatches(c)

(* Only slots of the class's own methods change. *)
OwnSlotsOnly(c, s) == \A x \in Methods : x[1] # c => s[x] = slot[x]

(* A class is added to those that are ready. *)
LEMMA ClassAdded ==
    ASSUME DispatchInv, TablesInv', program' = program, refused' = {},
           NEW c \in Classes, c \notin Ready, Ready' = Ready \cup {c},
           NEW t, NEW offs, NEW s, Serves(c, t, offs, s),
           vtable' = [vtable EXCEPT ![c] = t], offsets' = [offsets EXCEPT ![c] = offs], slot' = s,
           OwnSlotsOnly(c, s)
    PROVE  DispatchInv'
<1> PICK D : D = Ready
  OBVIOUS
<1>1. /\ TablesInv /\ TablesType /\ GoodProgram /\ D \subseteq Classes /\ \A k \in D : Dispatches(k)
  BY DEF DispatchInv, TablesInv, Ready
<1>2. GoodProgram'
  BY <1>1, GoodKept
<1>3. Dispatches(c)'
  <2>1. vtable'[c] = t /\ offsets'[c] = offs
    BY <1>1 DEF TablesType
  <2> QED BY <2>1, ServesThen
<1>4. ASSUME NEW k \in D PROVE Dispatches(k)'
  <2>1. k \in Classes /\ k # c /\ vtable'[k] = vtable[k] /\ offsets'[k] = offsets[k]
    BY <1>1 DEF TablesType
  <2>2. Ancestors(k) \subseteq D
    BY <1>1, AncestorsReady
  <2>3. \A x \in Methods : x[1] \in Ancestors(k) => slot'[x] = slot[x]
    BY <2>1, <2>2 DEF OwnSlotsOnly
  <2> QED BY <1>1, <2>1, <2>3, DispatchesKept
<1>5. \A k \in Ready' : Dispatches(k)'
  <2>1. \A k \in Ready' : k = c \/ k \in D
    OBVIOUS
  <2>2. \A k : k = c => Dispatches(k)'
    BY <1>3
  <2> QED BY <1>4, <2>1, <2>2
<1> QED BY <1>2, <1>5 DEF DispatchInv

(* The tables are not touched. *)
LEMMA TablesLeft ==
    ASSUME DispatchInv, TablesInv', UNCHANGED <<program, vtable, offsets, slot, refused>>,
           Ready' = Ready
    PROVE  DispatchInv'
<1> PICK D : D = Ready
  OBVIOUS
<1>1. /\ GoodProgram /\ D \subseteq Classes /\ refused = {} /\ \A k \in D : Dispatches(k)
  BY DEF DispatchInv, TablesInv, Ready
<1>2. GoodProgram'
  BY <1>1, GoodKept
<1>3. ASSUME NEW k \in D PROVE Dispatches(k)'
  BY <1>1, DispatchesKept
<1> QED BY <1>1, <1>2, <1>3 DEF DispatchInv

(* At first *)
LEMMA DispatchInit == ASSUME SupportedInit PROVE DispatchInv
<1>1. TablesInv
  BY InitKeeps DEF SupportedInit
<1>2. GoodProgram
  BY MetadataHolds DEF SupportedInit, Init, GoodProgram
<1>3. refused = {} /\ Ready = {}
  BY DEF SupportedInit, Init, Ready
<1> QED BY <1>1, <1>2, <1>3 DEF DispatchInv

(* System.Object and interfaces *)
LEMMA RootStep == ASSUME DispatchInv, NEW c \in Classes, SetUpRoot(c) PROVE DispatchInv'
<1> PICK t : t = Entries(NewSlots(c))
  OBVIOUS
<1> PICK s : s = NumberedFrom(-1, NewSlots(c))
  OBVIOUS
<1>1. TablesInv /\ GoodProgram /\ Metadata(program) /\ TablesType /\ refused = {}
  BY DEF DispatchInv, GoodProgram, TablesInv
<1>2. TablesInv' /\ Ready' = Ready \cup {c}
  BY <1>1, SetUpRootKeeps
<1>3. /\ AtSetUp(c) /\ Parent(c) = NoClass /\ program' = program /\ refused' = {}
      /\ vtable' = [vtable EXCEPT ![c] = t] /\ slot' = s /\ offsets' = offsets
  BY <1>1 DEF SetUpRoot
<1>4. c \notin Ready
  BY <1>1, <1>3, NeedsReady
<1>5. offsets' = [offsets EXCEPT ![c] = <<>>]
  BY <1>1, <1>3 DEF TablesInv, TablesType
<1>6. Serves(c, t, <<>>, s)
  BY <1>1, <1>3, RootServes
<1>7. OwnSlotsOnly(c, s)
  BY <1>1, RootSlots DEF OwnSlotsOnly
<1> QED BY <1>2, <1>3, <1>4, <1>5, <1>6, <1>7, ClassAdded

(* What a class with a parent is set up from *)
LEMMA AllIsSetUp ==
    ASSUME DispatchInv, NEW c \in Classes, AtSetUp(c), Parent(c) # NoClass
    PROVE  AllSetUp(c) /\ c \notin Ready
<1> PICK D : D = Ready
  OBVIOUS
<1> PICK p : p = Parent(c)
  OBVIOUS
<1>1. /\ TablesInv /\ GoodProgram /\ Metadata(program) /\ TablesType /\ ReadyIsClosed
      /\ \A k \in D : Dispatches(k)
  BY DEF DispatchInv, GoodProgram, TablesInv
<1>2. p \in D /\ ToSet(Interfaces(c)) \subseteq D /\ c \notin D
  BY <1>1, NeedsReady
<1>3. \A k \in D : TableFine(k) /\ InterfacesAt(offsets[k]) \subseteq D
  BY <1>1 DEF ReadyIsClosed
<1>4. c \in Classes \ Ifaces
  BY <1>1, ClassFacts
<1>5. p \in Classes \ Ifaces /\ Implements(c) = Implements(p) \cup Listed(c)
  BY <1>1, <1>4, OwnOfClass, ImplementsAre
<1>6. Implements(p) \subseteq D
  <2>1. InterfacesAt(offsets[p]) = Implements(p)
    BY <1>1, <1>2, <1>5 DEF Dispatches
  <2> QED BY <1>2, <1>3, <2>1
<1>7. Listed(c) \subseteq D
  BY <1>2 DEF Interfaces, Listed
<1> QED BY <1>1, <1>2, <1>3, <1>4, <1>5, <1>6, <1>7 DEF AllSetUp

(* A class shares its parent's tables. *)
LEMMA InheritStep == ASSUME DispatchInv, NEW c \in Classes, Inherit(c) PROVE DispatchInv'
<1> PICK p : p = Parent(c)
  OBVIOUS
<1> PICK t : t = vtable[p]
  OBVIOUS
<1> PICK offs : offs = offsets[p]
  OBVIOUS
<1>1. TablesInv /\ GoodProgram /\ refused = {}
  BY DEF DispatchInv
<1>2. TablesInv' /\ Ready' = Ready \cup {c}
  BY <1>1, InheritKeeps
<1>3. /\ AtSetUp(c) /\ p # NoClass /\ SharesParents(c) /\ program' = program /\ refused' = {}
      /\ vtable' = [vtable EXCEPT ![c] = t] /\ slot' = slot /\ offsets' = [offsets EXCEPT ![c] = offs]
  BY <1>1 DEF Inherit
<1>4. AllSetUp(c) /\ c \notin Ready
  BY <1>3, AllIsSetUp
<1>5. Serves(c, t, offs, slot)
  BY <1>1, <1>3, <1>4, InheritedServes DEF AllSetUp
<1>6. OwnSlotsOnly(c, slot)
  BY DEF OwnSlotsOnly
<1> QED BY <1>2, <1>3, <1>4, <1>5, <1>6, ClassAdded

(* A class is set up, and is not refused. *)
LEMMA SetUpStep == ASSUME DispatchInv, NEW c \in Classes, SetUp(c) PROVE DispatchInv'
<1> PICK placed : placed = InterfaceOffsets(c)
  OBVIOUS
<1> PICK fin : fin = Finished(c, placed)
  OBVIOUS
<1> PICK t : t = fin.table
  OBVIOUS
<1> PICK s : s = fin.slot
  OBVIOUS
<1>1. TablesInv /\ GoodProgram /\ Metadata(program) /\ TablesType /\ refused = {}
  BY DEF DispatchInv, GoodProgram, TablesInv
<1>2. /\ AtSetUp(c) /\ Parent(c) # NoClass /\ UNCHANGED <<program, initialized>>
      /\ offsets' = [offsets EXCEPT ![c] = placed] /\ slot' = s
  BY DEF SetUp
<1>3. AllSetUp(c) /\ c \notin Ready
  BY <1>2, AllIsSetUp
<1>4. fin.sound /\ Complete(c, fin) /\ Serves(c, t, placed, s)
  BY <1>3, FinishedServes
<1>5. vtable' = [vtable EXCEPT ![c] = t] /\ calls' = Front(calls) /\ refused' = refused
  BY <1>4 DEF SetUp
<1>6. NewTable(c, placed, t) /\ s \in [Methods -> Nat]
  <2>1. TableFine(Parent(c))
    BY <1>3 DEF AllSetUp
  <2>2. \A i \in ToSet(Interfaces(c)) : TableFine(i)
    <3>1. ToSet(Interfaces(c)) \subseteq Ready
      BY <1>1, <1>2, NeedsReady
    <3> QED BY <1>1, <3>1 DEF TablesInv, ReadyIsClosed
  <2> QED BY <1>1, <1>2, <2>1, <2>2, FinishedIs
<1>7. TablesInv' /\ Ready' = Ready \cup {c}
  <2>1. UNCHANGED <<program, initialized, refused>> /\ slot' \in [Methods -> Nat]
    BY <1>2, <1>5, <1>6
  <2> QED BY <1>1, <1>2, <1>5, <1>6, <2>1, SetUpKeeps
<1>8. OwnSlotsOnly(c, s)
  <2> PICK first : first = FirstTable(c, placed)
    OBVIOUS
  <2>1. Begun(c, placed, first)
    BY <1>3 DEF Begun
  <2> QED BY <2>1, FinishedRight DEF OwnSlotsOnly
<1> QED BY <1>1, <1>2, <1>3, <1>4, <1>5, <1>7, <1>8, ClassAdded

(***************************************************************************)
(* The second invariant holds of every program that compilers produce and  *)
(* that the tables support, and whatever the order of first uses:          *)
(* setup_vtable_typedef finds all that it needs ready, refuses no class,   *)
(* and leaves in each entry the method that the standard names for it.     *)
(***************************************************************************)
THEOREM DispatchInvariance == SupportedSpec => []DispatchInv
<1>1. SupportedInit => DispatchInv
  BY DispatchInit
<1>2. DispatchInv /\ [Next]_vars => DispatchInv'
  <2> SUFFICES ASSUME DispatchInv, [Next]_vars PROVE DispatchInv'
    OBVIOUS
  <2>1. TablesInv
    BY DEF DispatchInv
  <2>2. ASSUME NEW c \in Classes, Use(c) PROVE DispatchInv'
    <3>1. TablesInv' /\ Ready' = Ready
      BY <2>1, <2>2, UseKeeps
    <3> QED BY <2>2, <3>1, TablesLeft DEF Use
  <2>3. ASSUME NEW c \in Classes, SetUpRoot(c) PROVE DispatchInv'
    BY <2>3, RootStep
  <2>4. ASSUME NEW c \in Classes, Inherit(c) PROVE DispatchInv'
    BY <2>4, InheritStep
  <2>5. ASSUME NEW c \in Classes, SetUp(c) PROVE DispatchInv'
    BY <2>5, SetUpStep
  <2>6. CASE Recurse
    <3>1. TablesInv' /\ Ready' = Ready
      BY <2>1, <2>6, RecurseKeeps
    <3> QED BY <2>6, <3>1, TablesLeft DEF Recurse
  <2>7. CASE UNCHANGED vars
    <3>1. TablesInv' /\ Ready' = Ready
      BY <2>1, <2>7, StutterKeeps
    <3> QED BY <2>7, <3>1, TablesLeft DEF vars
  <2> QED BY <2>2, <2>3, <2>4, <2>5, <2>6, <2>7 DEF Next
<1> QED BY <1>1, <1>2, PTL DEF SupportedSpec

(***************************************************************************)
(* Every valid program that is supported can be used: initialize_vtables   *)
(* fails for no class of it, in whatever order classes are first used.     *)
(***************************************************************************)
THEOREM ValidProgramsAlwaysLoad == SupportedSpec => []ValidProgramsLoad
<1>1. DispatchInv => ValidProgramsLoad
  BY DEF DispatchInv, ValidProgramsLoad
<1> QED BY <1>1, DispatchInvariance, PTL

(* The look-ups find in the table of a class what the standard names. *)
LEMMA CallIsRight ==
    ASSUME DispatchInv, NEW c \in Ready, ~IsInterface(c), ~program[c].abstract, NEW d \in Callable(c)
    PROVE  Called(c, d) = Runs(c, d)
<1> PICK t : t = vtable[c]
  OBVIOUS
<1>1. /\ GoodProgram /\ Metadata(program) /\ TablesType /\ Ready \subseteq Classes
      /\ TableFine(c) /\ InterfacesAt(offsets[c]) \subseteq Ready
      /\ \A k \in Ready : Dispatches(k)
  BY DEF DispatchInv, GoodProgram, TablesInv, ReadyIsClosed, Ready
<1>2. c \in Classes \ Ifaces /\ c \in Classes
  BY <1>1 DEF Ifaces
<1>3. /\ \A k \in DOMAIN t : Info(t[k].method).newSlot /\ EntryRight(c, t[k])
      /\ \A x \in ClassMethods : x[1] \in Ancestors(c) => AtItsSlot(x, slot, t)
      /\ InterfacesAt(offsets[c]) = Implements(c)
  BY <1>1, <1>2 DEF Dispatches
<1>4. /\ d \in Methods /\ d[1] \in Classes /\ slot[d] \in Nat
      /\ Ancestors(c) \subseteq Classes \ Ifaces /\ Implements(c) \subseteq Ifaces
  BY <1>1, <1>2, MethodsAre, OwnOfClass, ImplementsAre DEF Callable, TablesType
<1>5. CASE d[1] \in Ancestors(c)
  <2>1. d \in ClassMethods /\ ~IsInterface(d[1])
    BY <1>4, <1>5 DEF ClassMethods, Ifaces
  <2>2. Runs(c, d) = Holds(c, Original[d])
    BY <2>1 DEF Runs
  <2>3. CASE d[1] = c
    <3>1. d \in ToSet(Own(c))
      BY <1>1, <1>2, <1>4, <2>3, OwnOfClass
    <3>2. Holds(c, Original[d]) = d
      BY <1>1, <1>2, <3>1, OwnIsHeld
    <3> QED BY <2>2, <2>3, <3>2 DEF Called
  <2>4. CASE d[1] # c
    <3> PICK e : e = t[slot[d] + 1]
      OBVIOUS
    <3>1. slot[d] + 1 \in DOMAIN t /\ e.method = Original[d]
      BY <1>3, <1>5, <2>1 DEF AtItsSlot
    <3>2. Info(e.method).newSlot /\ EntryRight(c, e)
      BY <1>3, <3>1
    <3>3. e.method \in ClassMethods /\ e.method[1] \in Ancestors(c)
      BY <1>1, <1>2, <1>5, <2>1, <3>1, SlotOfAncestors
    <3>4. e.impl = Right(c, e.method)
      BY <1>1, <1>2, <3>2, <3>3, NoneMissing
    <3>5. e.impl = Runs(c, d)
      BY <2>2, <3>1, <3>3, <3>4 DEF Right
    <3>6. 0 + slot[d] + 1 = slot[d] + 1
      BY ONLY <1>4
    <3>7. Called(c, d) = vtable[c][0 + slot[d] + 1].impl
      BY <2>1, <2>4 DEF Called
    <3> QED BY <3>5, <3>6, <3>7
  <2> QED BY <2>3, <2>4
<1>6. CASE d[1] \notin Ancestors(c)
  <2> PICK i : i = d[1]
    OBVIOUS
  <2> PICK at : at = OffsetOf(offsets[c], i)
    OBVIOUS
  <2> PICK e : e = t[slot[d] + at + 1]
    OBVIOUS
  <2>1. i \in Implements(c) /\ i \in Ifaces /\ IsInterface(i) /\ i # c /\ d \in Declared
    BY <1>2, <1>4, <1>6 DEF Callable, Declared, Ifaces
  <2>2. i \in InterfacesAt(offsets[c]) /\ Dispatches(i) /\ Agrees(offsets[c], t)
        /\ offsets[c] \in Seq(OffsetType) /\ t \in Seq(EntryType)
    BY <1>1, <1>2, <1>3, <2>1 DEF TableFine, TablesType
  <2>3. /\ at \in Nat
        /\ slot[d] + at + 1 \in at + 1 .. at + Len(vtable[i])
        /\ \A k \in at + 1 .. at + Len(vtable[i]) : k \in DOMAIN t
        /\ e.method = d
    BY <1>1, <2>1, <2>2, PlacesAre
  <2>4. Info(e.method).newSlot /\ EntryRight(c, e)
    BY <1>3, <2>3
  <2>5. d \notin ClassMethods
    BY <2>1 DEF ClassMethods
  <2>6. e.impl = Right(c, e.method)
    BY <1>1, <1>2, <2>1, <2>3, <2>4, <2>5, NoneMissing
  <2>7. e.impl = Runs(c, d)
    BY <2>3, <2>5, <2>6 DEF Right
  <2>8. at + slot[d] + 1 = slot[d] + at + 1
    BY ONLY <1>4, <2>3
  <2>9. Called(c, d) = vtable[c][at + slot[d] + 1].impl
    BY <2>1 DEF Called
  <2> QED BY <2>7, <2>8, <2>9
<1> QED BY <1>5, <1>6

(***************************************************************************)
(* get_virtual_method_impl_on_klass and get_interface_method_invoke_data   *)
(* run on an object of a class that is ready the method that the standard  *)
(* names, whatever the hierarchy, its overrides, MethodImpls and default   *)
(* methods, and whatever the order in which its classes are first used.    *)
(***************************************************************************)
THEOREM CallsRunAsDeclared == SupportedSpec => []CallsAsDeclared
<1>1. DispatchInv => CallsAsDeclared
  BY CallIsRight DEF CallsAsDeclared
<1> QED BY <1>1, DispatchInvariance, PTL
============================================================================
