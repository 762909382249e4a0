------------------------- MODULE FieldLayoutProofs --------------------------
(***************************************************************************)
(* Proofs about FieldLayout, for all classes, in whichever order they are  *)
(* initialized, and all programs in which no class contains itself.        *)
(***************************************************************************)
EXTENDS FieldLayout, FiniteSetTheorems, SequenceTheorems, WellFoundedInduction, TLAPS

(* The metadata of every program is valid. *)
ProgramsValid == \A p \in Programs : Valid(p)
------------------------------------------------------------------------------
(* Numbers, sequences and recursion.                                       *)

LEMMA LeastNat ==
    ASSUME NEW S \in SUBSET Nat, S # {}
    PROVE  \E n \in S : \A m \in S : n <= m
<1>1. \E n \in S : \A m \in S : ~(<<m, n>> \in OpToRel(<, Nat))
  BY WFMin, NatLessThanWellFounded
<1>2. PICK n \in S : \A m \in S : ~(m < n)
  BY <1>1 DEF OpToRel
<1> QED BY <1>2

LEMMA GreatestNat ==
    ASSUME NEW b \in Nat, NEW S \in SUBSET (0 .. b), S # {}
    PROVE  \E n \in S : \A m \in S : m <= n
<1> DEFINE T == {t \in 0 .. b : b - t \in S}
<1>1. T \in SUBSET Nat /\ T # {}
  <2>1. PICK s \in S : TRUE
    OBVIOUS
  <2>2. b - s \in 0 .. b /\ b - (b - s) = s
    OBVIOUS
  <2>3. b - s \in T
    BY <2>2
  <2>4. T \in SUBSET Nat
    OBVIOUS
  <2> QED BY <2>3, <2>4
<1>2. PICK t \in T : \A u \in T : t <= u
  BY <1>1, LeastNat
<1>3. \A m \in S : b - m \in T
  OBVIOUS
<1> QED BY <1>2, <1>3

LEMMA MaxIsUpper ==
    ASSUME NEW b \in Nat, NEW S \in SUBSET (0 .. b), S # {}
    PROVE  Max(S) \in S /\ \A m \in S : m <= Max(S)
<1>1. \E n \in S : \A m \in S : n >= m
  BY GreatestNat
<1> QED BY <1>1 DEF Max

LEMMA MinIsLower ==
    ASSUME NEW S \in SUBSET Nat, S # {}
    PROVE  Min(S) \in S /\ \A m \in S : Min(S) <= m
<1>1. \E n \in S : \A m \in S : n <= m
  BY LeastNat
<1> QED BY <1>1 DEF Min

LEMMA MaxOfTwo ==
    ASSUME NEW a \in Nat, NEW b \in Nat
    PROVE  Max({a, b}) \in {a, b} /\ a <= Max({a, b}) /\ b <= Max({a, b})
<1>1. {a, b} \in SUBSET (0 .. (a + b)) /\ {a, b} # {} /\ a + b \in Nat
  OBVIOUS
<1> QED BY <1>1, MaxIsUpper

LEMMA MaxOfThree ==
    ASSUME NEW a \in Nat, NEW b \in Nat, NEW c \in Nat
    PROVE  /\ Max({a, b, c}) \in {a, b, c}
           /\ a <= Max({a, b, c}) /\ b <= Max({a, b, c}) /\ c <= Max({a, b, c})
<1>1. {a, b, c} \in SUBSET (0 .. (a + b + c)) /\ {a, b, c} # {} /\ a + b + c \in Nat
  OBVIOUS
<1> QED BY <1>1, MaxIsUpper

LEMMA SeqElements ==
    ASSUME NEW S, NEW s \in Seq(S)
    PROVE  /\ Len(s) \in Nat /\ DOMAIN s = 1 .. Len(s)
           /\ \A i \in DOMAIN s : s[i] \in S
OBVIOUS

LEMMA SeqOfOther ==
    ASSUME NEW S, NEW T, NEW s \in Seq(S), \A i \in DOMAIN s : s[i] \in T
    PROVE  s \in Seq(T)
OBVIOUS

(* A recursive function of a number up to n exists. *)
Counts(F, n, X, x, step) ==
    /\ F \in [0 .. n -> X]
    /\ F[0] = x
    /\ \A i \in 1 .. n : F[i] = step[<<i, F[i - 1]>>]

LEMMA RecursionUpTo ==
    ASSUME NEW n \in Nat, NEW X, NEW x \in X, NEW step \in [(1 .. n) \X X -> X]
    PROVE  \E F : Counts(F, n, X, x, step)
<1> DEFINE Good(m, F) == /\ F \in [0 .. m -> X]
                         /\ F[0] = x
                         /\ \A i \in 1 .. m : F[i] = step[<<i, F[i - 1]>>]
           Bad == {m \in 0 .. n : \A F : ~Good(m, F)}
<1> USE DEF Counts
<1>1. SUFFICES ASSUME Bad # {} PROVE FALSE
  <2>1. ASSUME Bad = {} PROVE \E F : Good(n, F)
    <3> HIDE DEF Good
    <3>1. n \in 0 .. n /\ n \notin Bad
      BY <2>1
    <3> QED BY <3>1
  <2> QED BY <2>1
<1>2. PICK m \in Bad : \A u \in Bad : m <= u
  <2> HIDE DEF Good
  <2>1. Bad \in SUBSET Nat
    OBVIOUS
  <2> HIDE DEF Bad
  <2> QED BY <1>1, <2>1, LeastNat
<1>3. CASE m = 0
  <2>1. Good(0, [i \in 0 .. 0 |-> x])
    OBVIOUS
  <2> QED BY <1>3, <2>1
<1>4. CASE m # 0
  <2>1. m - 1 \in 0 .. n /\ m - 1 \notin Bad
    BY <1>2, <1>4
  <2>2. PICK F : Good(m - 1, F)
    BY <2>1
  <2> DEFINE G == [i \in 0 .. m |-> IF i = m THEN step[<<m, F[m - 1]>>] ELSE F[i]]
  <2>3. F[m - 1] \in X /\ step[<<m, F[m - 1]>>] \in X
    BY <1>2, <1>4, <2>2
  <2>4. G \in [0 .. m -> X] /\ G[0] = x
    BY <1>2, <1>4, <2>2, <2>3
  <2>5. ASSUME NEW i \in 1 .. m PROVE G[i] = step[<<i, G[i - 1]>>]
    <3>1. i \in 0 .. m /\ i - 1 \in 0 .. m /\ i - 1 # m /\ m \in Nat
      BY <1>2
    <3>2. G[i - 1] = F[i - 1]
      BY <3>1
    <3>3. CASE i = m
      BY <3>1, <3>2, <3>3
    <3>4. CASE i # m
      <4>1. i \in 1 .. (m - 1) /\ G[i] = F[i]
        BY <3>1, <3>4
      <4> QED BY <2>2, <3>2, <4>1
    <3> QED BY <3>3, <3>4
  <2>6. Good(m, G)
    BY <2>4, <2>5
  <2> QED BY <2>6
<1> QED BY <1>3, <1>4

(* A recursive function over the parents exists where every set of classes *)
(* has a member whose parent is not in it.                                 *)
Climbs(F, par, X, base, step) ==
    /\ F \in [Classes -> X]
    /\ \A k \in Classes :
           F[k] = IF par[k] = NoClass THEN base[k] ELSE step[<<k, F[par[k]]>>]

LEMMA RecursionOverParents ==
    ASSUME NoClass \notin Classes,
           NEW par \in [Classes -> Classes \cup {NoClass}],
           \A S \in (SUBSET Classes) \ {{}} : \E k \in S : par[k] \notin S,
           NEW X, NEW base \in [Classes -> X], NEW step \in [Classes \X X -> X]
    PROVE  \E F : Climbs(F, par, X, base, step)
<1> DEFINE Value(F, k) == IF par[k] = NoClass THEN base[k] ELSE step[<<k, F[par[k]]>>]
           Good(D, F) == /\ D \in SUBSET Classes
                         /\ F \in [D -> X]
                         /\ \A k \in D : par[k] = NoClass \/ par[k] \in D
                         /\ \A k \in D : F[k] = Value(F, k)
<1>1. ASSUME NEW D, NEW F, NEW E, NEW G, Good(D, F), Good(E, G)
      PROVE  \A k \in D \cap E : F[k] = G[k]
  <2> DEFINE S == {k \in D \cap E : F[k] # G[k]}
  <2>1. SUFFICES ASSUME S # {} PROVE FALSE
    OBVIOUS
  <2>2. S \in (SUBSET Classes) \ {{}}
    BY <1>1, <2>1
  <2>3. PICK k \in S : par[k] \notin S
    BY <2>2
  <2>4. F[k] = Value(F, k) /\ G[k] = Value(G, k)
    BY <1>1
  <2>5. par[k] = NoClass \/ F[par[k]] = G[par[k]]
    BY <1>1, <2>3
  <2> QED BY <2>4, <2>5
<1>2. \A k \in Classes : \E D, F : Good(D, F) /\ k \in D
  <2> DEFINE S == {k \in Classes : \A D, F : ~(Good(D, F) /\ k \in D)}
  <2>1. SUFFICES ASSUME S # {} PROVE FALSE
    <3> HIDE DEF Good
    <3> QED OBVIOUS
  <2>2. PICK k \in S : par[k] \notin S
    <3> HIDE DEF Good
    <3>1. S \in (SUBSET Classes) \ {{}}
      BY <2>1
    <3> HIDE DEF S
    <3> QED BY <3>1
  <2>3. CASE par[k] = NoClass
    <3>1. Good({k}, [c \in {k} |-> base[k]])
      BY <2>3
    <3> HIDE DEF Good
    <3> QED BY <3>1
  <2>4. CASE par[k] # NoClass
    <3>1. PICK D, F : Good(D, F) /\ par[k] \in D
      <4> HIDE DEF Good
      <4> QED BY <2>2, <2>4
    <3>2. k \notin D
      <4> HIDE DEF Good
      <4> QED BY <3>1
    <3> DEFINE E == D \cup {k}
               G == [c \in E |-> IF c = k THEN step[<<k, F[par[k]]>>] ELSE F[c]]
    <3>3. F[par[k]] \in X /\ step[<<k, F[par[k]]>>] \in X
      BY <3>1
    <3>4. G \in [E -> X]
      BY <3>1, <3>3
    <3>5. \A c \in E : par[c] = NoClass \/ par[c] \in D
      BY <3>1
    <3>6. ASSUME NEW c \in E PROVE G[c] = Value(G, c)
      <4>1. par[c] = NoClass \/ G[par[c]] = F[par[c]]
        BY <3>2, <3>5
      <4>2. CASE c = k
        BY <2>4, <4>1, <4>2
      <4>3. CASE c # k
        <5>1. c \in D /\ G[c] = F[c] /\ F[c] = Value(F, c)
          BY <3>1, <4>3
        <5> QED BY <4>1, <5>1
      <4> QED BY <4>2, <4>3
    <3>7. Good(E, G)
      BY <3>1, <3>4, <3>5, <3>6
    <3> HIDE DEF Good
    <3> QED BY <3>7
  <2> QED BY <2>3, <2>4
<1> DEFINE Pair(k) == CHOOSE p : Good(p[1], p[2]) /\ k \in p[1]
           F == [k \in Classes |-> Pair(k)[2][k]]
<1>3. ASSUME NEW k \in Classes PROVE Good(Pair(k)[1], Pair(k)[2]) /\ k \in Pair(k)[1]
  <2> HIDE DEF Good
  <2>1. PICK D, G : Good(D, G) /\ k \in D
    BY <1>2
  <2>2. Good(<<D, G>>[1], <<D, G>>[2]) /\ k \in <<D, G>>[1]
    BY <2>1
  <2> QED BY <2>2
<1>4. ASSUME NEW k \in Classes, NEW c \in Pair(k)[1] PROVE c \in Classes /\ F[c] = Pair(k)[2][c]
  <2>1. c \in Classes
    BY <1>3
  <2>2. Good(Pair(c)[1], Pair(c)[2]) /\ c \in Pair(c)[1] /\ Good(Pair(k)[1], Pair(k)[2])
    <3> HIDE DEF Good, Pair
    <3> QED BY <1>3, <2>1
  <2>3. Pair(c)[2][c] = Pair(k)[2][c]
    <3> HIDE DEF Good, Pair
    <3> QED BY <1>1, <2>2
  <2> QED BY <2>1, <2>3
<1>5. F \in [Classes -> X]
  <2>1. ASSUME NEW k \in Classes PROVE Pair(k)[2][k] \in X
    <3> HIDE DEF Pair
    <3> QED BY <1>3
  <2> QED BY <2>1
<1>6. ASSUME NEW k \in Classes PROVE F[k] = Value(F, k)
  <2> HIDE DEF Pair, F
  <2>1. Good(Pair(k)[1], Pair(k)[2]) /\ k \in Pair(k)[1]
    BY <1>3
  <2>2. F[k] = Pair(k)[2][k] /\ Pair(k)[2][k] = Value(Pair(k)[2], k)
    BY <1>4, <2>1
  <2>3. par[k] = NoClass \/ F[par[k]] = Pair(k)[2][par[k]]
    BY <1>4, <2>1
  <2> QED BY <2>2, <2>3
<1> HIDE DEF F
<1> QED BY <1>5, <1>6 DEF Climbs
------------------------------------------------------------------------------
(* The fields of a class.                                                  *)

Ref == [class : Classes, index : Nat]

LEMMA Metadatum ==
    ASSUME ProgramsAssumption, program \in Programs, NEW k \in Classes
    PROVE  /\ program[k] \in Metadata
           /\ program[k].fields \in Seq([type : DOMAIN Primitives \cup Classes \cup {"missing"},
                                         static : BOOLEAN, at : Nat])
           /\ Len(program[k].fields) \in Nat
           /\ DOMAIN program[k].fields = 1 .. Len(program[k].fields)
           /\ \A i \in DOMAIN program[k].fields :
                  /\ program[k].fields[i].type \in DOMAIN Primitives \cup Classes \cup {"missing"}
                  /\ program[k].fields[i].static \in BOOLEAN
                  /\ program[k].fields[i].at \in Nat
           /\ Parent(k) \in Classes \cup {NoClass}
           /\ program[k].struct \in BOOLEAN /\ program[k].explicit \in BOOLEAN
           /\ program[k].packing \in {0, 1, 2, 4} /\ program[k].classSize \in Nat
<1> DEFINE T == [type : DOMAIN Primitives \cup Classes \cup {"missing"},
                 static : BOOLEAN, at : Nat]
<1>1. program[k] \in Metadata
  BY DEF ProgramsAssumption
<1>2. program[k].fields \in Seq(T)
  BY <1>1 DEF Metadata
<1>3. /\ Parent(k) \in Classes \cup {NoClass}
      /\ program[k].struct \in BOOLEAN /\ program[k].explicit \in BOOLEAN
      /\ program[k].packing \in {0, 1, 2, 4} /\ program[k].classSize \in Nat
  BY <1>1 DEF Metadata, Parent
<1>4. \A i \in DOMAIN program[k].fields : program[k].fields[i] \in T
  <2> HIDE DEF T
  <2> QED BY <1>2, SeqElements
<1>5. /\ Len(program[k].fields) \in Nat
      /\ DOMAIN program[k].fields = 1 .. Len(program[k].fields)
  BY <1>2
<1> QED BY <1>1, <1>2, <1>3, <1>4, <1>5

(* What Own collects is in the order of the metadata and of the kind asked. *)
LEMMA OwnFields ==
    ASSUME NEW k, NEW static, NEW T, program[k].fields \in Seq(T)
    PROVE  /\ Own(k, static) \in Seq([class : {k}, index : DOMAIN program[k].fields])
           /\ \A i \in DOMAIN Own(k, static) : FieldOf(Own(k, static)[i]).static = static
           /\ \A i, j \in DOMAIN Own(k, static) :
                  i < j => Own(k, static)[i].index < Own(k, static)[j].index
<1> DEFINE fields == program[k].fields
           n == Len(fields)
           X == Seq([class : {k}, index : DOMAIN fields])
           More(i) == IF fields[i].static = static THEN <<[class |-> k, index |-> i]>> ELSE <<>>
           D(G) == G = [i \in 0 .. n |-> IF i = 0 THEN <<>> ELSE G[i - 1] \o More(i)]
           U == CHOOSE G : D(G)
<1>1. n \in Nat /\ DOMAIN fields = 1 .. n
  OBVIOUS
<1>2. ASSUME NEW i \in 1 .. n PROVE More(i) \in X
  <2>1. [class |-> k, index |-> i] \in [class : {k}, index : DOMAIN fields]
    BY <1>1
  <2> DEFINE R == [class : {k}, index : DOMAIN fields]
             r == [class |-> k, index |-> i]
  <2>2. r \in R
    BY <2>1
  <2> HIDE DEF R, r
  <2>3. <<r>> \in Seq(R) /\ <<>> \in Seq(R)
    BY <2>2
  <2> QED BY <2>3 DEF R, r
<1>3. \E G : D(G)
  <2> DEFINE step == [p \in (1 .. n) \X X |-> p[2] \o More(p[1])]
  <2>1. step \in [(1 .. n) \X X -> X]
    <3>1. ASSUME NEW p \in (1 .. n) \X X PROVE p[2] \o More(p[1]) \in X
      <4>1. p[2] \in X /\ More(p[1]) \in X
        BY <1>2
      <4> HIDE DEF More
      <4> QED BY <4>1
    <3> HIDE DEF X, More
    <3> QED BY <3>1
  <2>2. <<>> \in X
    OBVIOUS
  <2> HIDE DEF X, More, n
  <2>3. \A i \in 1 .. n, s \in X : step[<<i, s>>] = s \o More(i)
    OBVIOUS
  <2> HIDE DEF step
  <2>4. PICK F \in [0 .. n -> X] : F[0] = <<>> /\ \A i \in 1 .. n : F[i] = step[<<i, F[i - 1]>>]
    <3>1. n \in Nat
      BY <1>1
    <3>2. \E F : Counts(F, n, X, <<>>, step)
      BY ONLY <2>1, <2>2, <3>1, RecursionUpTo
    <3> QED BY ONLY <3>2 DEF Counts
  <2>5. ASSUME NEW i \in 1 .. n PROVE F[i] = F[i - 1] \o More(i)
    <3>1. F[i - 1] \in X
      BY <1>1
    <3> QED BY <2>3, <2>4, <3>1
  <2>6. F = [i \in 0 .. n |-> F[i]]
    OBVIOUS
  <2>7. \A i \in 0 .. n : F[i] = IF i = 0 THEN <<>> ELSE F[i - 1] \o More(i)
    BY <1>1, <2>4, <2>5
  <2>8. D(F)
    BY <2>6, <2>7
  <2> QED BY <2>8
<1>4. D(U)
  <2> HIDE DEF D
  <2> QED BY <1>3
<1>5. Own(k, static) = U[n]
  BY DEF Own
<1>6. U[0] = <<>> /\ \A i \in 1 .. n : U[i] = U[i - 1] \o More(i)
  <2>1. 0 \in 0 .. n /\ \A i \in 1 .. n : i \in 0 .. n /\ i # 0
    BY <1>1
  <2> HIDE DEF U, More, n
  <2> QED BY <1>4, <2>1
<1> HIDE DEF U
<1> DEFINE Ordered(m, s) ==
               /\ s \in Seq([class : {k}, index : 1 .. m])
               /\ \A i \in DOMAIN s : fields[s[i].index].static = static
               /\ \A i, j \in DOMAIN s : i < j => s[i].index < s[j].index
           Bad == {m \in 0 .. n : ~Ordered(m, U[m])}
<1>7. Bad = {}
  <2>1. SUFFICES ASSUME Bad # {} PROVE FALSE
    OBVIOUS
  <2>2. PICK m \in Bad : \A u \in Bad : m <= u
    <3> HIDE DEF Ordered
    <3>1. Bad \in SUBSET Nat
      OBVIOUS
    <3> HIDE DEF Bad
    <3> QED BY <2>1, <3>1, LeastNat
  <2>3. m # 0
    <3>1. Ordered(0, <<>>)
      OBVIOUS
    <3> HIDE DEF Ordered
    <3> QED BY <1>6, <3>1
  <2>4. m \in 1 .. n /\ m - 1 \in 0 .. n
    BY <1>1, <2>3
  <2> DEFINE s == U[m - 1]
  <2>5. Ordered(m - 1, s)
    <3> HIDE DEF Ordered
    <3> QED BY <2>2, <2>4
  <2>6. U[m] = s \o More(m)
    BY <1>6, <2>4
  <2> HIDE DEF s
  <2>7. s \in Seq([class : {k}, index : 1 .. m]) /\ \A i \in DOMAIN s : s[i].index < m
    <3>1. \A i \in DOMAIN s : s[i] \in [class : {k}, index : 1 .. (m - 1)]
      BY <2>5, SeqElements
    <3>2. \A i \in DOMAIN s : s[i] \in [class : {k}, index : 1 .. m]
      BY <2>4, <3>1
    <3>3. DOMAIN s = 1 .. Len(s) /\ Len(s) \in Nat
      BY <2>5
    <3>4. s \in Seq([class : {k}, index : 1 .. m])
      <4> DEFINE R == [class : {k}, index : 1 .. m]
                 Q == [class : {k}, index : 1 .. (m - 1)]
      <4>1. s \in Seq(Q) /\ \A i \in DOMAIN s : s[i] \in R
        BY <2>5, <3>2
      <4> HIDE DEF R, Q
      <4>2. s \in Seq(R)
        BY ONLY <4>1, SeqOfOther
      <4> QED BY <4>2 DEF R
    <3> QED BY <2>4, <3>1, <3>4
  <2>8. CASE fields[m].static = static
    <3> DEFINE x == [class |-> k, index |-> m]
    <3>1. U[m] = Append(s, x) /\ x \in [class : {k}, index : 1 .. m]
      BY <2>4, <2>6, <2>7, <2>8
    <3>2. x.index = m
      OBVIOUS
    <3> HIDE DEF x
    <3>3. /\ Append(s, x) \in Seq([class : {k}, index : 1 .. m])
          /\ DOMAIN Append(s, x) = DOMAIN s \cup {Len(s) + 1}
          /\ \A i \in DOMAIN s : Append(s, x)[i] = s[i] /\ i < Len(s) + 1
          /\ Append(s, x)[Len(s) + 1] = x
          /\ DOMAIN s \subseteq Nat /\ Len(s) + 1 \in Nat
      BY <2>7, <3>1
    <3>4. \A i \in DOMAIN Append(s, x) : fields[Append(s, x)[i].index].static = static
      BY <2>5, <2>8, <3>2, <3>3
    <3>5. \A i, j \in DOMAIN Append(s, x) : i < j => Append(s, x)[i].index < Append(s, x)[j].index
      BY <2>5, <2>7, <3>2, <3>3
    <3>6. Ordered(m, Append(s, x))
      BY <3>3, <3>4, <3>5
    <3> HIDE DEF Ordered
    <3> QED BY <2>2, <3>1, <3>6
  <2>9. CASE fields[m].static # static
    <3>1. U[m] = s
      BY <2>6, <2>7, <2>9
    <3>2. Ordered(m, s)
      BY <2>5, <2>7
    <3> HIDE DEF Ordered
    <3> QED BY <2>2, <3>1, <3>2
  <2> QED BY <2>8, <2>9
<1>8. Ordered(n, U[n])
  <2>1. n \in 0 .. n
    BY <1>1
  <2> HIDE DEF Ordered
  <2> QED BY <1>7, <2>1
<1>9. \A i \in DOMAIN U[n] : U[n][i] \in [class : {k}, index : 1 .. n]
  BY <1>8, SeqElements
<1>10. \A i \in DOMAIN U[n] : FieldOf(U[n][i]).static = static
  BY <1>8, <1>9 DEF FieldOf
<1> QED BY <1>1, <1>5, <1>8, <1>10
------------------------------------------------------------------------------
(* Parents.                                                                *)

MetadataOK == ProgramsAssumption /\ ProgramsValid /\ program \in Programs

LEMMA ValidProgram == ASSUME MetadataOK PROVE Valid(program)
BY DEF MetadataOK, ProgramsValid

LEMMA ParentsFounded ==
    ASSUME MetadataOK
    PROVE  /\ NoClass \notin Classes
           /\ \A k \in Classes : Parent(k) \in Classes \cup {NoClass}
           /\ \A S \in (SUBSET Classes) \ {{}} : \E k \in S : Parent(k) \notin S
<1>1. NoClass \notin Classes /\ \A k \in Classes : Parent(k) \in Classes \cup {NoClass}
  BY Metadatum DEF MetadataOK, ProgramsAssumption
<1>2. ASSUME NEW S \in (SUBSET Classes) \ {{}} PROVE \E k \in S : Parent(k) \notin S
  <2>1. PICK k \in S : Parts(program, k) \cap S = {}
    BY ValidProgram DEF Valid
  <2>2. Parent(k) \in Classes => Parent(k) \in Parts(program, k)
    BY DEF Parts, Parent
  <2> QED BY <1>1, <2>1, <2>2
<1> QED BY <1>1, <1>2

ParentFunction == [k \in Classes |-> Parent(k)]

LEMMA ParentFunctionFacts ==
    ASSUME MetadataOK
    PROVE  /\ NoClass \notin Classes
           /\ ParentFunction \in [Classes -> Classes \cup {NoClass}]
           /\ \A k \in Classes : ParentFunction[k] = Parent(k)
           /\ \A S \in (SUBSET Classes) \ {{}} : \E k \in S : ParentFunction[k] \notin S
BY ParentsFounded DEF ParentFunction

LEMMA OwnIsRefs ==
    ASSUME MetadataOK, NEW k \in Classes, NEW static
    PROVE  Own(k, static) \in Seq(Ref)
<1> DEFINE R == [class : {k}, index : DOMAIN program[k].fields]
<1>1. Own(k, static) \in Seq(R)
  <2>1. PICK T : program[k].fields \in Seq(T)
    BY Metadatum DEF MetadataOK
  <2> QED BY <2>1, OwnFields
<1>2. ASSUME NEW r \in R PROVE r \in Ref
  <2>1. r.class = k /\ r.index \in DOMAIN program[k].fields /\ r = [class |-> r.class, index |-> r.index]
    OBVIOUS
  <2>2. r.index \in Nat
    BY <2>1, Metadatum DEF MetadataOK
  <2> QED BY <2>1, <2>2 DEF Ref
<1> HIDE DEF R
<1> QED BY <1>1, <1>2, SeqElements, SeqOfOther

LEMMA InstanceFieldsUnfolded ==
    ASSUME MetadataOK
    PROVE  /\ \A k \in Classes : InstanceFields[k] \in Seq(Ref)
           /\ \A k \in Classes : InstanceFields[k] =
                  (IF Parent(k) = NoClass THEN <<>> ELSE InstanceFields[Parent(k)]) \o Own(k, FALSE)
<1> DEFINE X == Seq(Ref)
           base == [k \in Classes |-> Own(k, FALSE)]
           step == [p \in Classes \X X |-> p[2] \o Own(p[1], FALSE)]
           D(G) == G = [k \in Classes |->
                           (IF Parent(k) = NoClass THEN <<>> ELSE G[Parent(k)]) \o Own(k, FALSE)]
<1>1. base \in [Classes -> X]
  BY OwnIsRefs
<1>2. step \in [Classes \X X -> X]
  <2>1. ASSUME NEW p \in Classes \X X PROVE p[2] \o Own(p[1], FALSE) \in X
    <3>1. p[1] \in Classes /\ p[2] \in Seq(Ref)
      OBVIOUS
    <3>2. Own(p[1], FALSE) \in Seq(Ref)
      BY <3>1, OwnIsRefs
    <3> QED BY <3>1, <3>2, ConcatProperties
  <2> HIDE DEF X
  <2> QED BY <2>1
<1>3. PICK F : Climbs(F, ParentFunction, X, base, step)
  <2>1. \E F : Climbs(F, ParentFunction, X, base, step)
    <3> HIDE DEF X, base, step
    <3> QED BY <1>1, <1>2, ParentFunctionFacts, RecursionOverParents
  <2> QED BY <2>1
<1>4. F \in [Classes -> X]
  BY <1>3 DEF Climbs
<1>5. ASSUME NEW k \in Classes
      PROVE  F[k] = (IF Parent(k) = NoClass THEN <<>> ELSE F[Parent(k)]) \o Own(k, FALSE)
  <2>1. F[k] = IF Parent(k) = NoClass THEN base[k] ELSE step[<<k, F[Parent(k)]>>]
    BY <1>3, ParentFunctionFacts DEF Climbs
  <2>2. Own(k, FALSE) \in Seq(Ref) /\ base[k] = Own(k, FALSE)
    BY OwnIsRefs
  <2>3. <<>> \o Own(k, FALSE) = Own(k, FALSE)
    BY <2>2
  <2>4. Parent(k) # NoClass => step[<<k, F[Parent(k)]>>] = F[Parent(k)] \o Own(k, FALSE)
    <3>1. Parent(k) # NoClass => F[Parent(k)] \in X
      BY <1>4, ParentsFounded
    <3> HIDE DEF X
    <3> QED BY <3>1
  <2> QED BY <2>1, <2>2, <2>3, <2>4
<1>6. D(F)
  BY <1>4, <1>5
<1>7. D(InstanceFields)
  <2>1. InstanceFields = CHOOSE G : D(G)
    BY DEF InstanceFields
  <2> HIDE DEF D
  <2> QED BY <1>6, <2>1
<1>8. \A k \in Classes : InstanceFields[k] =
          (IF Parent(k) = NoClass THEN <<>> ELSE InstanceFields[Parent(k)]) \o Own(k, FALSE)
  BY <1>7
<1>9. \A k \in Classes : InstanceFields[k] \in Seq(Ref)
  <2> DEFINE S == {k \in Classes : InstanceFields[k] \notin Seq(Ref)}
  <2>1. SUFFICES ASSUME S # {} PROVE FALSE
    OBVIOUS
  <2>2. PICK k \in S : Parent(k) \notin S
    <3>1. S \in (SUBSET Classes) \ {{}}
      BY <2>1
    <3> HIDE DEF S
    <3> QED BY <3>1, ParentsFounded
  <2>3. (IF Parent(k) = NoClass THEN <<>> ELSE InstanceFields[Parent(k)]) \in Seq(Ref)
    BY <2>2, ParentsFounded
  <2>4. Own(k, FALSE) \in Seq(Ref)
    BY OwnIsRefs
  <2> DEFINE s == IF Parent(k) = NoClass THEN <<>> ELSE InstanceFields[Parent(k)]
  <2>5. InstanceFields[k] = s \o Own(k, FALSE) /\ s \in Seq(Ref)
    BY <1>8, <2>3
  <2> HIDE DEF s
  <2>6. InstanceFields[k] \in Seq(Ref)
    BY <2>4, <2>5, ConcatProperties
  <2> QED BY <2>6
<1> QED BY <1>8, <1>9

(* Ancestry and Holders have one form. *)
Upwards(G, stop) ==
    G = [k \in Classes |-> IF stop[k] THEN {}
                           ELSE {k} \cup IF Parent(k) = NoClass THEN {} ELSE G[Parent(k)]]

LEMMA SetsClimb ==
    ASSUME MetadataOK, NEW stop \in [Classes -> BOOLEAN], NEW Z, Z = CHOOSE G : Upwards(G, stop)
    PROVE  Upwards(Z, stop)
<1> DEFINE X == SUBSET Classes
           base == [k \in Classes |-> IF stop[k] THEN {} ELSE {k}]
           step == [p \in Classes \X X |-> IF stop[p[1]] THEN {} ELSE {p[1]} \cup p[2]]
<1>1. base \in [Classes -> X] /\ step \in [Classes \X X -> X]
  OBVIOUS
<1>2. PICK F : Climbs(F, ParentFunction, X, base, step)
  <2>1. \E F : Climbs(F, ParentFunction, X, base, step)
    <3> HIDE DEF X, base, step
    <3> QED BY <1>1, ParentFunctionFacts, RecursionOverParents
  <2> QED BY <2>1
<1>3. F \in [Classes -> X]
  BY <1>2 DEF Climbs
<1>4. ASSUME NEW k \in Classes
      PROVE  F[k] = IF stop[k] THEN {} ELSE {k} \cup IF Parent(k) = NoClass THEN {} ELSE F[Parent(k)]
  <2>1. F[k] = IF Parent(k) = NoClass THEN base[k] ELSE step[<<k, F[Parent(k)]>>]
    BY <1>2, ParentFunctionFacts DEF Climbs
  <2>2. Parent(k) # NoClass => F[Parent(k)] \in X
    BY <1>3, ParentsFounded
  <2>3. Parent(k) # NoClass =>
            step[<<k, F[Parent(k)]>>] = IF stop[k] THEN {} ELSE {k} \cup F[Parent(k)]
    <3> HIDE DEF X
    <3> QED BY <2>2
  <2> QED BY <2>1, <2>3
<1>5. Upwards(F, stop)
  BY <1>3, <1>4 DEF Upwards
<1> QED BY <1>5

LEMMA AncestryUnfolded ==
    ASSUME MetadataOK, NEW k \in Classes
    PROVE  Ancestry[k] = {k} \cup IF Parent(k) = NoClass THEN {} ELSE Ancestry[Parent(k)]
<1> DEFINE stop == [c \in Classes |-> FALSE]
           E(G) == G = [c \in Classes |->
                           {c} \cup IF Parent(c) = NoClass THEN {} ELSE G[Parent(c)]]
<1>1. \A G : Upwards(G, stop) <=> E(G)
  BY DEF Upwards
<1>2. Ancestry = CHOOSE G : E(G)
  BY DEF Ancestry
<1>3. (CHOOSE G : E(G)) = CHOOSE G : Upwards(G, stop)
  <2> HIDE DEF E
  <2> QED BY <1>1
<1>4. stop \in [Classes -> BOOLEAN]
  OBVIOUS
<1>5. Upwards(Ancestry, stop)
  <2> HIDE DEF stop, E
  <2> QED BY <1>2, <1>3, <1>4, SetsClimb
<1> QED BY <1>5 DEF Upwards

LEMMA HoldersUnfolded ==
    ASSUME MetadataOK, \A k \in Classes : klass[k].hasReferences \in BOOLEAN, NEW k \in Classes
    PROVE  Holders[k] = IF klass[k].hasReferences
                        THEN {k} \cup IF Parent(k) = NoClass THEN {} ELSE Holders[Parent(k)]
                        ELSE {}
<1> DEFINE stop == [c \in Classes |-> ~klass[c].hasReferences]
           E(G) == G = [c \in Classes |->
                           IF klass[c].hasReferences
                           THEN {c} \cup IF Parent(c) = NoClass THEN {} ELSE G[Parent(c)]
                           ELSE {}]
<1>1. \A G : Upwards(G, stop) <=> E(G)
  BY DEF Upwards
<1>2. Holders = CHOOSE G : E(G)
  BY DEF Holders
<1>3. (CHOOSE G : E(G)) = CHOOSE G : Upwards(G, stop)
  <2> HIDE DEF E
  <2> QED BY <1>1
<1>4. stop \in [Classes -> BOOLEAN]
  OBVIOUS
<1>5. Upwards(Holders, stop)
  <2> HIDE DEF stop, E
  <2> QED BY <1>2, <1>3, <1>4, SetsClimb
<1> QED BY <1>5 DEF Upwards
------------------------------------------------------------------------------
(* What a class is made of, however deep.                                  *)

Below(k) ==
    {t \in Classes : \A S \in SUBSET Classes :
        Parts(program, k) \subseteq S /\ (\A c \in S : Parts(program, c) \subseteq S) => t \in S}

LEMMA BelowHasParts ==
    ASSUME NEW k \in Classes, NEW t \in Parts(program, k)
    PROVE  t \in Below(k)
BY DEF Below, Parts

LEMMA BelowIsClosed ==
    ASSUME NEW k, NEW t \in Below(k), NEW s \in Parts(program, t)
    PROVE  s \in Below(k)
BY DEF Below, Parts

LEMMA BelowTransitive ==
    ASSUME NEW k, NEW t \in Below(k), NEW s \in Below(t)
    PROVE  s \in Below(k)
<1>1. Below(k) \in SUBSET Classes
  BY DEF Below
<1>2. Parts(program, t) \subseteq Below(k)
  BY BelowIsClosed
<1>3. \A c \in Below(k) : Parts(program, c) \subseteq Below(k)
  BY BelowIsClosed
<1> QED BY <1>1, <1>2, <1>3 DEF Below

LEMMA BelowIrreflexive ==
    ASSUME MetadataOK, NEW k \in Classes
    PROVE  k \notin Below(k)
<1> DEFINE X == {x \in Classes : k \in Below(x)}
<1>1. SUFFICES ASSUME k \in Below(k) PROVE FALSE
  OBVIOUS
<1>2. X \in (SUBSET Classes) \ {{}}
  BY <1>1
<1>3. PICK x \in X : Parts(program, x) \cap X = {}
  BY <1>2, ValidProgram DEF Valid
<1> DEFINE S == Parts(program, x) \cup {t \in Classes : \E z \in Parts(program, x) : t \in Below(z)}
<1>4. S \in SUBSET Classes /\ Parts(program, x) \subseteq S
  BY DEF Parts
<1>5. ASSUME NEW c \in S, NEW p \in Parts(program, c) PROVE p \in S
  <2>1. c \in Classes /\ p \in Classes
    BY <1>4 DEF Parts
  <2>2. CASE c \in Parts(program, x)
    BY <2>1, <2>2, BelowHasParts
  <2>3. CASE c \notin Parts(program, x)
    <3>1. PICK z \in Parts(program, x) : c \in Below(z)
      BY <2>3
    <3>2. p \in Below(z)
      BY <3>1, BelowIsClosed
    <3> QED BY <2>1, <3>1, <3>2
  <2> QED BY <2>2, <2>3
<1>6. k \in S
  <2>1. k \in Below(x)
    BY <1>3
  <2> HIDE DEF S
  <2>2. \A c \in S : Parts(program, c) \subseteq S
    BY <1>5
  <2> QED BY <1>4, <2>1, <2>2 DEF Below
<1>7. PICK z \in Parts(program, x) : z = k \/ k \in Below(z)
  BY <1>6
<1>8. z \in X
  BY <1>1, <1>7 DEF Parts
<1> QED BY <1>3, <1>7, <1>8

LEMMA ParentBelow ==
    ASSUME MetadataOK, NEW k \in Classes, Parent(k) # NoClass
    PROVE  Parent(k) \in Classes /\ Parent(k) \in Below(k)
<1>1. Parent(k) \in Classes /\ Parent(k) \in Parts(program, k)
  BY ParentsFounded DEF Parts, Parent
<1> QED BY <1>1, BelowHasParts

LEMMA AncestryFacts ==
    ASSUME MetadataOK
    PROVE  \A k \in Classes :
               /\ Ancestry[k] \subseteq Classes
               /\ k \in Ancestry[k]
               /\ \A c \in Ancestry[k] : c = k \/ c \in Below(k)
               /\ \A c \in Ancestry[k] : Ancestry[c] \subseteq Ancestry[k]
<1> DEFINE Fine(k) == /\ Ancestry[k] \subseteq Classes
                      /\ k \in Ancestry[k]
                      /\ \A c \in Ancestry[k] : c = k \/ c \in Below(k)
                      /\ \A c \in Ancestry[k] : Ancestry[c] \subseteq Ancestry[k]
           S == {k \in Classes : ~Fine(k)}
<1>1. SUFFICES ASSUME S # {} PROVE FALSE
  <2> HIDE DEF Fine
  <2>1. \A k \in Classes : Fine(k)
    BY <1>1
  <2> QED BY <2>1 DEF Fine
<1>2. PICK k \in S : Parent(k) \notin S
  <2> HIDE DEF Fine
  <2>1. S \in (SUBSET Classes) \ {{}}
    BY <1>1
  <2> HIDE DEF S
  <2> QED BY <2>1, ParentsFounded
<1>3. k \in Classes /\ ~Fine(k)
  <2> HIDE DEF Fine
  <2> QED BY <1>2
<1>4. Ancestry[k] = {k} \cup IF Parent(k) = NoClass THEN {} ELSE Ancestry[Parent(k)]
  BY <1>3, AncestryUnfolded
<1>5. CASE Parent(k) = NoClass
  BY <1>3, <1>4, <1>5
<1>6. CASE Parent(k) # NoClass
  <2> DEFINE p == Parent(k)
  <2>1. p \in Classes /\ p \in Below(k)
    BY <1>3, <1>6, ParentBelow
  <2>2. Fine(p)
    <3> HIDE DEF Fine
    <3> QED BY <1>2, <2>1
  <2>3. Ancestry[k] = {k} \cup Ancestry[p]
    BY <1>4, <1>6
  <2>4. \A c \in Ancestry[p] : c \in Below(k)
    BY <2>1, <2>2, BelowTransitive
  <2> HIDE DEF p
  <2> QED BY <1>3, <2>2, <2>3, <2>4
<1> QED BY <1>5, <1>6

(* What is known of a field of class k. *)
OwnFieldOf(k, static, f) ==
    /\ f \in Ref
    /\ f.class = k
    /\ f \in FieldsOf(k, static)
    /\ f.index \in DOMAIN program[k].fields
    /\ FieldOf(f).static = static
    /\ FieldOf(f).type \in Classes /\ ~static => FieldOf(f).type \in Below(k)

LEMMA OwnField ==
    ASSUME MetadataOK, NEW k \in Classes, NEW static \in BOOLEAN
    PROVE  /\ Len(Own(k, static)) \in Nat
           /\ DOMAIN Own(k, static) = 1 .. Len(Own(k, static))
           /\ \A i \in DOMAIN Own(k, static) : OwnFieldOf(k, static, Own(k, static)[i])
           /\ \A i, j \in DOMAIN Own(k, static) :
                  i # j => Own(k, static)[i] # Own(k, static)[j]
<1> DEFINE R == [class : {k}, index : DOMAIN program[k].fields]
           s == Own(k, static)
<1>1. /\ s \in Seq(R)
      /\ \A i \in DOMAIN s : FieldOf(s[i]).static = static
      /\ \A i, j \in DOMAIN s : i < j => s[i].index < s[j].index
  <2>1. PICK T : program[k].fields \in Seq(T)
    BY Metadatum DEF MetadataOK
  <2> QED BY <2>1, OwnFields
<1>2. s \in Seq(Ref)
  BY OwnIsRefs
<1>3. /\ Len(s) \in Nat /\ DOMAIN s = 1 .. Len(s)
      /\ \A i \in DOMAIN s : s[i] \in R /\ s[i] \in Ref
  <2> HIDE DEF R, s
  <2> QED BY <1>1, <1>2, SeqElements
<1>4. ASSUME NEW i \in DOMAIN s
      PROVE  /\ s[i] \in Ref /\ s[i].class = k /\ s[i].index \in DOMAIN program[k].fields
             /\ s[i] \in FieldsOf(k, static)
  <2>1. s[i] \in R /\ s[i] \in Ref
    BY <1>3
  <2>2. s[i] \in FieldsOf(k, static)
    BY DEF FieldsOf, ToSet
  <2> HIDE DEF s
  <2> QED BY <2>1, <2>2
<1>5. ASSUME NEW i \in DOMAIN s, FieldOf(s[i]).type \in Classes, ~static
      PROVE  FieldOf(s[i]).type \in Parts(program, k)
  <2> HIDE DEF s
  <2> DEFINE g == program[k].fields[s[i].index]
  <2>1. g = FieldOf(s[i]) /\ g \in ToSet(program[k].fields)
    BY <1>4 DEF FieldOf, ToSet
  <2>2. ~g.static
    BY <1>1, <1>5, <2>1
  <2> HIDE DEF g
  <2> QED BY <1>5, <2>1, <2>2 DEF Parts
<1>6. ASSUME NEW i \in DOMAIN s, NEW j \in DOMAIN s, i # j PROVE s[i] # s[j]
  <2> HIDE DEF s
  <2>1. i \in Nat /\ j \in Nat
    BY <1>3
  <2>2. i < j \/ j < i
    BY <1>6, <2>1
  <2>3. s[i].index \in Nat /\ s[j].index \in Nat
    BY <1>4 DEF Ref
  <2>4. s[i].index # s[j].index
    BY <1>1, <2>2, <2>3
  <2> QED BY <2>4
<1> HIDE DEF s
<1>7. \A i \in DOMAIN s : OwnFieldOf(k, static, s[i])
  BY <1>1, <1>4, <1>5, BelowHasParts DEF OwnFieldOf
<1> QED BY <1>3, <1>6, <1>7 DEF s

Inherited(k) == IF Parent(k) = NoClass THEN <<>> ELSE InstanceFields[Parent(k)]

LEMMA Inherits ==
    ASSUME MetadataOK, NEW k \in Classes
    PROVE  /\ Len(Inherited(k)) \in Nat /\ Len(Own(k, FALSE)) \in Nat
           /\ Len(InstanceFields[k]) = Len(Inherited(k)) + Len(Own(k, FALSE))
           /\ DOMAIN InstanceFields[k] = 1 .. Len(InstanceFields[k])
           /\ \A i \in 1 .. Len(Inherited(k)) : InstanceFields[k][i] = Inherited(k)[i]
           /\ \A i \in 1 .. Len(InstanceFields[k]) : i > Len(Inherited(k)) =>
                  /\ i - Len(Inherited(k)) \in DOMAIN Own(k, FALSE)
                  /\ InstanceFields[k][i] = Own(k, FALSE)[i - Len(Inherited(k))]
<1> DEFINE s == Inherited(k)
           t == Own(k, FALSE)
<1>1. s \in Seq(Ref)
  BY InstanceFieldsUnfolded, ParentsFounded DEF Inherited
<1>2. t \in Seq(Ref)
  BY OwnIsRefs
<1>3. InstanceFields[k] = s \o t
  BY InstanceFieldsUnfolded DEF Inherited
<1> HIDE DEF s, t
<1>4. /\ Len(s) \in Nat /\ Len(t) \in Nat
      /\ DOMAIN t = 1 .. Len(t)
      /\ Len(s \o t) = Len(s) + Len(t)
      /\ DOMAIN (s \o t) = 1 .. Len(s \o t)
      /\ \A i \in 1 .. Len(s) : (s \o t)[i] = s[i]
      /\ \A i \in 1 .. Len(s \o t) : i > Len(s) =>
             i - Len(s) \in 1 .. Len(t) /\ (s \o t)[i] = t[i - Len(s)]
  BY <1>1, <1>2
<1> QED BY <1>3, <1>4 DEF s, t

(* What is known of the i-th instance field of class k. *)
InstanceFieldOf(k, f) ==
    /\ f \in Ref
    /\ f.class \in Ancestry[k]
    /\ f \in FieldsOf(f.class, FALSE)
    /\ f.index \in DOMAIN program[f.class].fields
    /\ FieldOf(f).static = FALSE
    /\ FieldOf(f).type \in Classes => FieldOf(f).type \in Below(k)

LEMMA InstanceField ==
    ASSUME MetadataOK
    PROVE  \A k \in Classes :
               /\ \A i \in DOMAIN InstanceFields[k] : InstanceFieldOf(k, InstanceFields[k][i])
               /\ \A i \in DOMAIN InstanceFields[k] :
                      InstanceFields[k][i].class = k <=> i > Len(Inherited(k))
               /\ \A i, j \in DOMAIN InstanceFields[k] :
                      i # j => InstanceFields[k][i] # InstanceFields[k][j]
<1> DEFINE Fine(k) ==
               /\ \A i \in DOMAIN InstanceFields[k] : InstanceFieldOf(k, InstanceFields[k][i])
               /\ \A i \in DOMAIN InstanceFields[k] :
                      InstanceFields[k][i].class = k <=> i > Len(Inherited(k))
               /\ \A i, j \in DOMAIN InstanceFields[k] :
                      i # j => InstanceFields[k][i] # InstanceFields[k][j]
           S == {k \in Classes : ~Fine(k)}
<1>1. SUFFICES ASSUME S # {} PROVE FALSE
  <2> HIDE DEF Fine
  <2>1. \A k \in Classes : Fine(k)
    BY <1>1
  <2> QED BY <2>1 DEF Fine
<1>2. PICK k \in S : Parent(k) \notin S
  <2> HIDE DEF Fine
  <2>1. S \in (SUBSET Classes) \ {{}}
    BY <1>1
  <2> HIDE DEF S
  <2> QED BY <2>1, ParentsFounded
<1>3. k \in Classes /\ ~Fine(k)
  <2> HIDE DEF Fine
  <2> QED BY <1>2
<1> DEFINE n == Len(Inherited(k))
           D == DOMAIN InstanceFields[k]
           F(i) == InstanceFields[k][i]
           g(i) == Own(k, FALSE)[i]
           O == DOMAIN Own(k, FALSE)
<1>4. n \in Nat /\ D = 1 .. Len(InstanceFields[k]) /\ Len(InstanceFields[k]) \in Nat
  BY <1>3, Inherits
<1>4a. \A i \in D : i \in Nat /\ i >= 1
  <2> HIDE DEF D
  <2> QED BY <1>4
<1>4b. \A i \in D : i <= n => i \in 1 .. n /\ F(i) = Inherited(k)[i]
  <2>1. \A i \in 1 .. n : F(i) = Inherited(k)[i]
    BY <1>3, Inherits
  <2> HIDE DEF D, F, n
  <2> QED BY <1>4, <1>4a, <2>1
<1>4c. \A i \in D : i > n => i - n \in O /\ F(i) = g(i - n)
  <2>1. \A i \in 1 .. Len(InstanceFields[k]) : i > n => i - n \in O /\ F(i) = g(i - n)
    BY <1>3, Inherits
  <2> HIDE DEF D, F, g, n, O
  <2> QED BY <1>4, <2>1
<1>5. /\ \A i \in O : /\ g(i) \in Ref
                      /\ g(i).class = k
                      /\ g(i) \in FieldsOf(k, FALSE)
                      /\ g(i).index \in DOMAIN program[k].fields
                      /\ FieldOf(g(i)).static = FALSE
                      /\ FieldOf(g(i)).type \in Classes => FieldOf(g(i)).type \in Below(k)
      /\ \A i, j \in O : i # j => g(i) # g(j)
  BY <1>3, OwnField DEF OwnFieldOf
<1>6. n # 0 => /\ Parent(k) \in Classes /\ Parent(k) \in Below(k)
               /\ Inherited(k) = InstanceFields[Parent(k)]
               /\ Ancestry[Parent(k)] \subseteq Ancestry[k]
  <2>1. CASE Parent(k) = NoClass
    BY <2>1 DEF Inherited
  <2>2. CASE Parent(k) # NoClass
    BY <1>3, <2>2, ParentBelow, AncestryUnfolded DEF Inherited
  <2> QED BY <2>1, <2>2
<1>7. ASSUME NEW i \in D, i <= n
      PROVE  InstanceFieldOf(k, F(i)) /\ F(i).class # k
  <2> DEFINE p == Parent(k)
  <2>1. n # 0 /\ i \in 1 .. n /\ F(i) = InstanceFields[p][i]
    BY <1>4, <1>4a, <1>4b, <1>6, <1>7
  <2>2. p \in Classes /\ p \in Below(k) /\ i \in DOMAIN InstanceFields[p]
    BY <1>6, <2>1, Inherits
  <2>3. Fine(p)
    <3> HIDE DEF Fine
    <3> QED BY <1>2, <2>2
  <2>4. InstanceFieldOf(p, F(i))
    BY <2>1, <2>2, <2>3
  <2>5. F(i).class \in Ancestry[k] /\ F(i).class \in Classes
    BY <1>6, <2>1, <2>4 DEF InstanceFieldOf, Ref
  <2>6. F(i).class = p \/ F(i).class \in Below(p)
    BY <2>2, <2>4, AncestryFacts DEF InstanceFieldOf
  <2>7. F(i).class \in Below(k)
    BY <2>2, <2>6, BelowTransitive
  <2>8. FieldOf(F(i)).type \in Classes => FieldOf(F(i)).type \in Below(k)
    BY <2>2, <2>4, BelowTransitive DEF InstanceFieldOf
  <2> HIDE DEF F
  <2>9. F(i).class # k
    BY <1>3, <2>7, BelowIrreflexive
  <2> QED BY <2>4, <2>5, <2>8, <2>9 DEF InstanceFieldOf
<1>8. ASSUME NEW i \in D, i > n
      PROVE  InstanceFieldOf(k, F(i)) /\ F(i).class = k
  <2>1. i - n \in O /\ F(i) = g(i - n)
    BY <1>4c, <1>8
  <2>2. k \in Ancestry[k]
    BY <1>3, AncestryFacts
  <2> HIDE DEF F, g, O
  <2> QED BY <1>5, <2>1, <2>2 DEF InstanceFieldOf
<1>9. ASSUME NEW i \in D, NEW j \in D, i # j PROVE F(i) # F(j)
  <2>1. CASE i <= n /\ j <= n
    <3>1. n # 0 /\ F(i) = InstanceFields[Parent(k)][i] /\ F(j) = InstanceFields[Parent(k)][j]
      BY <1>4, <1>4a, <1>4b, <1>6, <2>1
    <3>2. /\ Parent(k) \in Classes
          /\ i \in DOMAIN InstanceFields[Parent(k)] /\ j \in DOMAIN InstanceFields[Parent(k)]
      BY <1>4a, <1>4b, <1>6, <2>1, <3>1, Inherits
    <3>3. Fine(Parent(k))
      <4> HIDE DEF Fine
      <4> QED BY <1>2, <3>2
    <3> QED BY <1>9, <3>1, <3>2, <3>3
  <2>2. CASE i > n /\ j > n
    <3> HIDE DEF g, O, D, F, n
    <3>1. i \in Nat /\ j \in Nat /\ n \in Nat
      BY <1>4, <1>4a
    <3>2. i - n # j - n
      BY <1>9, <3>1
    <3>3. /\ i - n \in O /\ F(i) = g(i - n)
          /\ j - n \in O /\ F(j) = g(j - n)
      BY <1>4c, <2>2
    <3>4. \A x, y \in O : x # y => g(x) # g(y)
      BY <1>5
    <3> QED BY <3>2, <3>3, <3>4
  <2>3. CASE (i <= n /\ j > n) \/ (i > n /\ j <= n)
    BY <1>7, <1>8, <2>3
  <2> HIDE DEF D, F, n
  <2>4. i \in Nat /\ j \in Nat /\ n \in Nat
    BY <1>4, <1>4a
  <2> QED BY <2>1, <2>2, <2>3, <2>4
<1>10. \A i \in D : InstanceFieldOf(k, F(i)) /\ (F(i).class = k <=> i > n)
  <2> HIDE DEF D, F, n
  <2> QED BY <1>4, <1>4a, <1>7, <1>8
<1> QED BY <1>3, <1>9, <1>10

------------------------------------------------------------------------------
(* A step leaves the metadata and what is defined by it alone.              *)

LEMMA SameMetadata ==
    ASSUME UNCHANGED program
    PROVE  /\ MetadataOK' <=> MetadataOK
           /\ InstanceFields' = InstanceFields
           /\ Ancestry' = Ancestry
           /\ \A k, static : Own(k, static)' = Own(k, static)
           /\ \A k, static : FieldsOf(k, static)' = FieldsOf(k, static)
           /\ \A k : Parent(k)' = Parent(k)
           /\ \A k : Below(k)' = Below(k)
           /\ \A k : Computed(k)' <=> Computed(k)
           /\ \A f : FieldOf(f)' = FieldOf(f)
<1>1. MetadataOK' <=> MetadataOK
  BY DEF MetadataOK, ProgramsAssumption, ProgramsValid
<1>2. InstanceFields' = InstanceFields
  BY DEF InstanceFields, Parent, Own
<1>3. Ancestry' = Ancestry
  BY DEF Ancestry, Parent
<1>4. ASSUME NEW k, NEW static PROVE Own(k, static)' = Own(k, static)
  BY DEF Own
<1>5. ASSUME NEW k, NEW static PROVE FieldsOf(k, static)' = FieldsOf(k, static)
  BY <1>4 DEF FieldsOf
<1>6. ASSUME NEW k PROVE Parent(k)' = Parent(k)
  BY DEF Parent
<1>7. ASSUME NEW k PROVE Below(k)' = Below(k)
  BY DEF Below
<1>8. ASSUME NEW k PROVE Computed(k)' <=> Computed(k)
  BY <1>3 DEF Computed
<1>9. ASSUME NEW f PROVE FieldOf(f)' = FieldOf(f)
  BY DEF FieldOf
<1> QED BY <1>1, <1>2, <1>3, <1>4, <1>5, <1>6, <1>7, <1>8, <1>9
------------------------------------------------------------------------------
(* Types.                                                                  *)

Points == {"parent", "references", "instance", "static", "bitmap", "staticBitmap"}
Widths == {1, 2, 4, 8}
CallType == [of : Classes, at : Points, next : Nat \ {0}, end : Nat, alignment : Widths,
             refs : BOOLEAN]
KlassType(k) ==
    [size : Nat, alignment : Widths \cup {0}, offsets : [DOMAIN program[k].fields -> Nat],
     hasReferences : BOOLEAN, bitmap : SUBSET Nat, staticSize : Nat, staticBitmap : SUBSET Nat,
     sized : BOOLEAN, done : BOOLEAN]
Records == [by : Classes, of : Classes,
            what : {"references", "instance", "static", "bitmap", "staticBitmap"}]

KlassesOK == /\ klass = [k \in Classes |-> klass[k]]
             /\ \A k \in Classes : klass[k] \in KlassType(k)
             /\ \A k \in Classes : klass[k].sized => klass[k].alignment \in Widths

TypeOK ==
    /\ program \in Programs
    /\ flagged \in SUBSET Classes
    /\ failed \in SUBSET Classes
    /\ calls \in Seq(CallType)
    /\ KlassesOK
    /\ early \in SUBSET Records

Context == ProgramsAssumption /\ PlatformAssumption /\ ProgramsValid /\ TypeOK

LEMMA ContextMetadata == ASSUME Context PROVE MetadataOK
BY DEF Context, MetadataOK, TypeOK

LEMMA StackTop ==
    ASSUME calls \in Seq(CallType), calls # <<>>
    PROVE  /\ Len(calls) \in Nat \ {0} /\ DOMAIN calls = 1 .. Len(calls)
           /\ Len(calls) \in DOMAIN calls
           /\ Top = calls[Len(calls)]
           /\ Top \in CallType
           /\ \A i \in DOMAIN calls : calls[i] \in CallType
<1>1. Len(calls) \in Nat \ {0} /\ DOMAIN calls = 1 .. Len(calls)
  OBVIOUS
<1>2. \A i \in DOMAIN calls : calls[i] \in CallType
  BY SeqElements
<1>3. Len(calls) \in DOMAIN calls
  BY <1>1
<1> QED BY <1>1, <1>2, <1>3 DEF Top

LEMMA CallFields ==
    ASSUME NEW x \in CallType
    PROVE  /\ x.of \in Classes /\ x.at \in Points /\ x.next \in Nat /\ x.next >= 1
           /\ x.end \in Nat /\ x.alignment \in Widths /\ x.refs \in BOOLEAN
BY DEF CallType

(* The top of the stack replaced *)
LEMMA Continued ==
    ASSUME calls \in Seq(CallType), calls # <<>>, NEW x \in CallType, calls' = Continue(x)
    PROVE  /\ calls' \in Seq(CallType) /\ calls' # <<>>
           /\ Len(calls') = Len(calls) /\ DOMAIN calls' = DOMAIN calls
           /\ calls'[Len(calls)] = x /\ Top' = x
           /\ \A i \in DOMAIN calls : i # Len(calls) => calls'[i] = calls[i]
<1> DEFINE n == Len(calls)
<1>1. /\ n \in Nat \ {0} /\ DOMAIN calls = 1 .. n
      /\ \A i \in DOMAIN calls : calls[i] \in CallType
  BY StackTop
<1>2. calls' = [calls EXCEPT ![n] = x]
  BY DEF Continue
<1>3. calls = [i \in 1 .. n |-> calls[i]]
  BY <1>1
<1> HIDE DEF n
<1>4. /\ DOMAIN calls' = 1 .. n
      /\ calls'[n] = x
      /\ \A i \in 1 .. n : i # n => calls'[i] = calls[i]
  BY <1>1, <1>2
<1>5. calls' = [i \in 1 .. n |-> calls'[i]]
  BY <1>1, <1>2
<1>6. \A i \in 1 .. n : calls'[i] \in CallType
  BY <1>1, <1>4
<1>7. calls' \in Seq(CallType) /\ Len(calls') = n
  BY <1>1, <1>4, <1>5, <1>6
<1>8. calls' # <<>>
  BY <1>1, <1>7
<1> QED BY <1>1, <1>4, <1>7, <1>8 DEF Top, n

LEMMA Pushed ==
    ASSUME calls \in Seq(CallType), NEW k \in Classes, calls' = Append(calls, Call(k))
    PROVE  /\ calls' \in Seq(CallType) /\ calls' # <<>>
           /\ Len(calls') = Len(calls) + 1 /\ Len(calls) \in Nat
           /\ DOMAIN calls = 1 .. Len(calls) /\ DOMAIN calls' = 1 .. (Len(calls) + 1)
           /\ calls'[Len(calls) + 1] = Call(k) /\ Top' = Call(k)
           /\ \A i \in DOMAIN calls : calls'[i] = calls[i]
<1>1. Call(k) \in CallType
  BY DEF Call, CallType, Points, Widths
<1> HIDE DEF Call, CallType
<1>2. /\ calls' \in Seq(CallType)
      /\ Len(calls') = Len(calls) + 1 /\ Len(calls) \in Nat
      /\ DOMAIN calls = 1 .. Len(calls) /\ DOMAIN calls' = 1 .. (Len(calls) + 1)
      /\ calls'[Len(calls) + 1] = Call(k)
      /\ \A i \in DOMAIN calls : calls'[i] = calls[i]
  BY <1>1
<1> QED BY <1>2 DEF Top

LEMMA Popped ==
    ASSUME calls \in Seq(CallType), calls # <<>>, calls' = Front(calls)
    PROVE  /\ calls' \in Seq(CallType)
           /\ Len(calls') = Len(calls) - 1
           /\ DOMAIN calls' = 1 .. (Len(calls) - 1)
           /\ \A i \in DOMAIN calls' : calls'[i] = calls[i] /\ i \in DOMAIN calls /\ i # Len(calls)
<1> DEFINE n == Len(calls)
<1>1. /\ n \in Nat \ {0} /\ DOMAIN calls = 1 .. n
      /\ \A i \in DOMAIN calls : calls[i] \in CallType
  BY StackTop
<1>2. calls' = [i \in 1 .. (n - 1) |-> calls[i]]
  BY <1>1 DEF Front
<1> HIDE DEF n
<1>3. \A i \in 1 .. (n - 1) : i \in 1 .. n /\ i # n
  BY <1>1
<1> HIDE DEF CallType
<1>4. /\ DOMAIN calls' = 1 .. (n - 1)
      /\ \A i \in 1 .. (n - 1) : calls'[i] = calls[i] /\ calls'[i] \in CallType
  BY <1>1, <1>2, <1>3
<1>5. n - 1 \in Nat
  BY <1>1
<1>6. calls' \in Seq(CallType) /\ Len(calls') = n - 1
  BY <1>2, <1>4, <1>5
<1> QED BY <1>1, <1>3, <1>4, <1>6 DEF n
LEMMA AlignUpFacts ==
    ASSUME NEW o \in Nat
    PROVE  /\ AlignUp(o, 0) = 0
           /\ \A w \in Widths : AlignUp(o, w) \in Nat /\ AlignUp(o, w) >= o /\ AlignUp(o, w) % w = 0
<1>1. AlignUp(o, 1) \in Nat /\ AlignUp(o, 1) >= o /\ AlignUp(o, 1) % 1 = 0
  BY DEF AlignUp
<1>2. AlignUp(o, 2) \in Nat /\ AlignUp(o, 2) >= o /\ AlignUp(o, 2) % 2 = 0
  BY DEF AlignUp
<1>3. AlignUp(o, 4) \in Nat /\ AlignUp(o, 4) >= o /\ AlignUp(o, 4) % 4 = 0
  BY DEF AlignUp
<1>4. AlignUp(o, 8) \in Nat /\ AlignUp(o, 8) >= o /\ AlignUp(o, 8) % 8 = 0
  BY DEF AlignUp
<1>5. AlignUp(o, 0) = 0
  BY DEF AlignUp
<1> HIDE DEF AlignUp
<1> QED BY <1>1, <1>2, <1>3, <1>4, <1>5 DEF Widths

FieldTypes == DOMAIN Primitives \cup Classes

LEMMA Sizes ==
    ASSUME Context, NEW t \in FieldTypes
    PROVE  /\ SizeOf(t) \in Nat
           /\ AlignmentOf(t) \in Widths \cup {0}
           /\ (Struct(t) => klass[t].sized) => AlignmentOf(t) \in Widths
           /\ t = "ref" => ~Struct(t) /\ SizeOf(t) = PointerSize /\ AlignmentOf(t) = PointerSize
           /\ PointerSize \in Widths
<1>1. PointerSize \in {4, 8} /\ Classes \cap (DOMAIN Primitives \cup {"missing"}) = {}
  BY DEF Context, PlatformAssumption, ProgramsAssumption
<1>2. CASE t \in Classes
  <2>1. klass[t] \in KlassType(t) /\ (klass[t].sized => klass[t].alignment \in Widths)
    BY <1>2 DEF Context, TypeOK, KlassesOK
  <2>2. klass[t].size \in Nat /\ klass[t].alignment \in Widths \cup {0}
    BY <2>1 DEF KlassType
  <2>3. t # "ref"
    BY <1>1, <1>2 DEF Primitives
  <2> QED BY <1>1, <1>2, <2>1, <2>2, <2>3 DEF SizeOf, AlignmentOf, Struct, Widths
<1>3. CASE t \notin Classes
  <2>1. t \in {"i1", "i4", "i8", "ref"}
    BY <1>3 DEF FieldTypes, Primitives
  <2>2. Primitives[t] \in {1, 4, 8} /\ (t = "ref" => Primitives[t] = PointerSize)
    BY <1>1, <2>1 DEF Primitives
  <2> QED BY <1>1, <1>3, <2>2 DEF SizeOf, AlignmentOf, Struct, Widths
<1> QED BY <1>2, <1>3

LEMMA MinOfTwo ==
    ASSUME NEW a \in Nat, NEW b \in Nat
    PROVE  Min({a, b}) \in {a, b} /\ Min({a, b}) <= a /\ Min({a, b}) <= b
<1>1. {a, b} \in SUBSET Nat /\ {a, b} # {}
  OBVIOUS
<1> QED BY <1>1, MinIsLower

LEMMA Alignments ==
    ASSUME Context, NEW k \in Classes, NEW t \in FieldTypes
    PROVE  /\ FieldAlignment(k, t) \in Widths \cup {0}
           /\ (Struct(t) => klass[t].sized) => FieldAlignment(k, t) \in Widths
           /\ Packing(k) = 0 => FieldAlignment(k, t) = AlignmentOf(t)
<1>1. program[k].packing \in {0, 1, 2, 4}
  BY Metadatum DEF Context, TypeOK
<1>2. Packing(k) \in {0, 1, 2, 4}
  BY <1>1 DEF Packing
<1>3. AlignmentOf(t) \in Widths \cup {0} /\ ((Struct(t) => klass[t].sized) => AlignmentOf(t) \in Widths)
  BY Sizes
<1>4. AlignmentOf(t) \in Nat /\ Packing(k) \in Nat
  BY <1>2, <1>3 DEF Widths
<1> DEFINE x == AlignmentOf(t)
           y == Packing(k)
<1>5. Min({x, y}) \in {x, y}
  BY <1>4, MinOfTwo
<1>6. FieldAlignment(k, t) = IF y = 0 THEN x ELSE Min({x, y})
  BY DEF FieldAlignment
<1> HIDE DEF x, y
<1> QED BY <1>2, <1>3, <1>5, <1>6 DEF Widths, x, y

LEMMA FieldTyped ==
    ASSUME MetadataOK, NEW f, f.class \in Classes, f.index \in DOMAIN program[f.class].fields
    PROVE  /\ FieldOf(f).type \in FieldTypes \cup {"missing"}
           /\ FieldOf(f).static \in BOOLEAN /\ FieldOf(f).at \in Nat
<1> DEFINE k == f.class
<1>1. \A i \in DOMAIN program[k].fields :
          /\ program[k].fields[i].type \in FieldTypes \cup {"missing"}
          /\ program[k].fields[i].static \in BOOLEAN
          /\ program[k].fields[i].at \in Nat
  BY Metadatum DEF MetadataOK, FieldTypes
<1> QED BY <1>1 DEF FieldOf

(* What is known of a field the top of the stack has come to *)
LEMMA AtFieldKnown ==
    ASSUME Context, calls # <<>>, AtField
    PROVE  /\ Top \in CallType
           /\ Top.next \in DOMAIN Fields /\ Field = Fields[Top.next]
           /\ Field \in Ref /\ Field.class \in Classes
           /\ Field.index \in DOMAIN program[Field.class].fields
           /\ FieldOf(Field).at \in Nat
           /\ Type \in FieldTypes \cup {"missing"}
           /\ Type = FieldOf(Field).type
           /\ Top.at \in {"references", "instance", "static"}
           /\ Top.at = "references" => /\ Fields = Own(Top.of, FALSE)
                                       /\ Field.class = Top.of
                                       /\ Field \in FieldsOf(Top.of, FALSE)
           /\ Top.at = "instance" => Fields = InstanceFields[Top.of] /\ InstanceFieldOf(Top.of, Field)
           /\ Top.at = "static" => /\ Fields = Own(Top.of, TRUE)
                                   /\ Field.class = Top.of
                                   /\ Field \in FieldsOf(Top.of, TRUE)
                                   /\ FieldOf(Field).static = TRUE
           /\ Top.at # "static" => /\ FieldOf(Field).static = FALSE
                                   /\ Type \in Classes => Type \in Below(Top.of)
<1>1. MetadataOK /\ Top \in CallType
  BY ContextMetadata, StackTop DEF Context, TypeOK
<1>2. Top.of \in Classes /\ Top.next \in Nat /\ Top.next >= 1
  BY <1>1, CallFields
<1> DEFINE k == Top.of
<1>3. Top.at \in {"references", "instance", "static"}
  <2>1. Top.at \notin {"references", "instance", "static"} => Len(Fields) = 0
    BY DEF Fields
  <2> QED BY <1>2, <2>1 DEF AtField
<1>4. CASE Top.at = "references"
  <2>1. Fields = Own(k, FALSE)
    BY <1>4 DEF Fields
  <2>2. Top.next \in DOMAIN Own(k, FALSE)
    <3>1. Len(Own(k, FALSE)) \in Nat
      BY <1>1, <1>2, OwnField
    <3>2. Top.next <= Len(Own(k, FALSE))
      BY <2>1 DEF AtField
    <3> DEFINE n == Len(Own(k, FALSE))
    <3>3. Top.next \in 1 .. n
      <4>1. n \in Nat /\ Top.next <= n
        BY <3>1, <3>2
      <4> HIDE DEF n
      <4> QED BY <1>2, <4>1
    <3>4. DOMAIN Own(k, FALSE) = 1 .. Len(Own(k, FALSE))
      BY <1>1, <1>2, OwnField
    <3> QED BY <3>3, <3>4
  <2>3. OwnFieldOf(k, FALSE, Own(k, FALSE)[Top.next])
    BY <1>1, <1>2, <2>2, OwnField
  <2>4. Field = Own(k, FALSE)[Top.next]
    BY <2>1 DEF Field
  <2>5. FieldOf(Field).at \in Nat /\ Type \in FieldTypes \cup {"missing"}
    BY <1>1, <1>2, <2>3, <2>4, FieldTyped DEF OwnFieldOf, Type
  <2> QED BY <1>1, <1>2, <1>4, <2>1, <2>2, <2>3, <2>4, <2>5 DEF Type, OwnFieldOf
<1>5. CASE Top.at = "instance"
  <2>1. Fields = InstanceFields[k]
    BY <1>5 DEF Fields
  <2>2. Top.next \in DOMAIN InstanceFields[k]
    BY <1>1, <1>2, <2>1, Inherits DEF AtField
  <2>3. InstanceFieldOf(k, InstanceFields[k][Top.next])
    BY <1>1, <1>2, <2>2, InstanceField
  <2>4. Field = InstanceFields[k][Top.next]
    BY <2>1 DEF Field
  <2>5. Field.class \in Classes
    <3> HIDE DEF k
    <3> QED BY <2>3, <2>4 DEF InstanceFieldOf, Ref
  <2>6. FieldOf(Field).at \in Nat /\ Type \in FieldTypes \cup {"missing"}
    BY <1>1, <2>3, <2>4, <2>5, FieldTyped DEF InstanceFieldOf, Type
  <2> QED BY <1>1, <1>5, <2>1, <2>2, <2>3, <2>4, <2>5, <2>6 DEF Type, InstanceFieldOf
<1>6. CASE Top.at = "static"
  <2>1. Fields = Own(k, TRUE)
    BY <1>6 DEF Fields
  <2>2. Top.next \in DOMAIN Own(k, TRUE)
    <3>1. Len(Own(k, TRUE)) \in Nat
      BY <1>1, <1>2, OwnField
    <3>2. Top.next <= Len(Own(k, TRUE))
      BY <2>1 DEF AtField
    <3> DEFINE n == Len(Own(k, TRUE))
    <3>3. Top.next \in 1 .. n
      <4>1. n \in Nat /\ Top.next <= n
        BY <3>1, <3>2
      <4> HIDE DEF n
      <4> QED BY <1>2, <4>1
    <3>4. DOMAIN Own(k, TRUE) = 1 .. Len(Own(k, TRUE))
      BY <1>1, <1>2, OwnField
    <3> QED BY <3>3, <3>4
  <2>3. OwnFieldOf(k, TRUE, Own(k, TRUE)[Top.next])
    BY <1>1, <1>2, <2>2, OwnField
  <2>4. Field = Own(k, TRUE)[Top.next]
    BY <2>1 DEF Field
  <2>5. FieldOf(Field).at \in Nat /\ Type \in FieldTypes \cup {"missing"}
    BY <1>1, <1>2, <2>3, <2>4, FieldTyped DEF OwnFieldOf, Type
  <2> QED BY <1>1, <1>2, <1>6, <2>1, <2>2, <2>3, <2>4, <2>5 DEF Type, OwnFieldOf
<1> QED BY <1>3, <1>4, <1>5, <1>6
------------------------------------------------------------------------------
(* What the steps write to a class                                         *)

LEMMA KlassKnown ==
    ASSUME KlassesOK, NEW k \in Classes
    PROVE  /\ klass[k] \in KlassType(k)
           /\ klass[k].size \in Nat /\ klass[k].staticSize \in Nat
           /\ klass[k].alignment \in Widths \cup {0}
           /\ klass[k].sized => klass[k].alignment \in Widths
           /\ klass[k].offsets \in [DOMAIN program[k].fields -> Nat]
           /\ klass[k].hasReferences \in BOOLEAN
           /\ klass[k].sized \in BOOLEAN /\ klass[k].done \in BOOLEAN
           /\ klass[k].bitmap \in SUBSET Nat /\ klass[k].staticBitmap \in SUBSET Nat
BY DEF KlassesOK, KlassType

LEMMA Rewritten ==
    ASSUME KlassesOK, UNCHANGED program, NEW k \in Classes, NEW r \in KlassType(k),
           r.sized => r.alignment \in Widths, klass' = [klass EXCEPT ![k] = r]
    PROVE  /\ KlassesOK'
           /\ klass'[k] = r
           /\ \A t \in Classes : t # k => klass'[t] = klass[t]
<1>1. DOMAIN klass = Classes
  BY DEF KlassesOK
<1>2. klass'[k] = r /\ \A t \in Classes : t # k => klass'[t] = klass[t]
  BY <1>1
<1>3. klass' = [t \in Classes |-> klass'[t]]
  BY <1>1
<1>4. ASSUME NEW t \in Classes
      PROVE  klass'[t] \in KlassType(t)' /\ (klass'[t].sized => klass'[t].alignment \in Widths)
  <2>1. KlassType(t)' = KlassType(t)
    BY DEF KlassType
  <2>2. klass[t] \in KlassType(t) /\ (klass[t].sized => klass[t].alignment \in Widths)
    BY KlassKnown
  <2> HIDE DEF KlassType
  <2> QED BY <1>2, <2>1, <2>2
<1> HIDE DEF KlassType
<1> QED BY <1>2, <1>3, <1>4 DEF KlassesOK

LEMMA OffsetWritten ==
    ASSUME KlassesOK, UNCHANGED program, NEW k \in Classes, NEW i \in DOMAIN program[k].fields,
           NEW o \in Nat, klass' = [klass EXCEPT ![k].offsets[i] = o]
    PROVE  /\ KlassesOK'
           /\ \A t \in Classes : t # k => klass'[t] = klass[t]
           /\ klass'[k] = [klass[k] EXCEPT !.offsets = klass'[k].offsets]
           /\ klass'[k].offsets[i] = o
           /\ \A j \in DOMAIN program[k].fields : j # i => klass'[k].offsets[j] = klass[k].offsets[j]
<1> DEFINE r == [klass[k] EXCEPT !.offsets = [klass[k].offsets EXCEPT ![i] = o]]
<1>1. klass[k] \in KlassType(k) /\ (klass[k].sized => klass[k].alignment \in Widths)
  BY KlassKnown
<1>2. r \in KlassType(k) /\ r.offsets = [klass[k].offsets EXCEPT ![i] = o]
  BY <1>1 DEF KlassType
<1>3. r.sized => r.alignment \in Widths
  BY <1>1 DEF KlassType
<1>4. klass' = [klass EXCEPT ![k] = r]
  BY DEF KlassesOK
<1>5. /\ KlassesOK' /\ klass'[k] = r
      /\ \A t \in Classes : t # k => klass'[t] = klass[t]
  <2> HIDE DEF r
  <2> QED BY <1>2, <1>3, <1>4, Rewritten
<1>6. /\ r.offsets[i] = o
      /\ \A j \in DOMAIN program[k].fields : j # i => r.offsets[j] = klass[k].offsets[j]
  BY <1>1, <1>2 DEF KlassType
<1>7. r = [klass[k] EXCEPT !.offsets = r.offsets]
  BY <1>1, <1>2 DEF KlassType
<1> HIDE DEF r
<1> QED BY <1>5, <1>6, <1>7
------------------------------------------------------------------------------
(* Steps.                                                                  *)

(* The top of the stack goes on. *)
Continues ==
    /\ calls # <<>> /\ calls' # <<>>
    /\ Len(calls') = Len(calls) /\ DOMAIN calls' = DOMAIN calls
    /\ Top \in CallType /\ Top' \in CallType
    /\ Top' = calls'[Len(calls)] /\ Top'.of = Top.of
    /\ \A i \in DOMAIN calls : i # Len(calls) => calls'[i] = calls[i]

Pushes(k) ==
    /\ k \in Classes \ flagged
    /\ flagged' = flagged \cup {k}
    /\ calls' = Append(calls, Call(k))
    /\ UNCHANGED <<program, klass, early, failed>>
    /\ \/ calls = <<>>
       \/ At("parent") /\ k = Parent(Top.of)
       \/ Visits /\ k = Type

Fails == Fail /\ calls # <<>> /\ UNCHANGED <<program, flagged, klass>> /\ early \subseteq early'

(* A step writes to the class at the top only what its point is for. *)
ClassKept(t) ==
    /\ ~(At("references") /\ t = Top.of) => klass'[t].hasReferences = klass[t].hasReferences
    /\ ~(At("instance") /\ t = Top.of) => /\ klass'[t].sized = klass[t].sized
                                          /\ klass'[t].size = klass[t].size
                                          /\ klass'[t].alignment = klass[t].alignment
    /\ ~(At("static") /\ t = Top.of) => klass'[t].staticSize = klass[t].staticSize
    /\ ~(At("bitmap") /\ t = Top.of) => klass'[t].bitmap = klass[t].bitmap
    /\ ~(At("staticBitmap") /\ t = Top.of) => /\ klass'[t].staticBitmap = klass[t].staticBitmap
                                              /\ klass'[t].done = klass[t].done

(* Offset i of class t is written for the field the top has come to. *)
OffsetKept(t, i) ==
    \/ klass'[t].offsets[i] = klass[t].offsets[i]
    \/ /\ calls # <<>> /\ AtField
       /\ t = Field.class /\ i = Field.index
       /\ \/ t = Top.of /\ Top.at \in {"instance", "static"}
          \/ /\ Top.at = "instance" /\ program[t].explicit
             /\ klass'[t].offsets[i] = program[t].fields[i].at

Kept ==
    /\ UNCHANGED program
    /\ flagged \subseteq flagged' /\ failed \subseteq failed' /\ early \subseteq early'
    /\ \A t \in Classes : ClassKept(t) /\ \A i \in DOMAIN program[t].fields : OffsetKept(t, i)

LEMMA KlassUnchanged ==
    ASSUME UNCHANGED <<program, klass>>, flagged \subseteq flagged', failed \subseteq failed',
           early \subseteq early'
    PROVE  Kept /\ (KlassesOK => KlassesOK')
<1>1. Kept
  BY DEF Kept, ClassKept, OffsetKept
<1>2. KlassesOK => KlassesOK'
  <2>1. \A k \in Classes : KlassType(k)' = KlassType(k)
    BY DEF KlassType
  <2> QED BY <2>1 DEF KlassesOK
<1> QED BY <1>1, <1>2

LEMMA PushStep ==
    ASSUME Context, NEW k, Pushes(k)
    PROVE  TypeOK' /\ Kept
<1>1. calls' \in Seq(CallType)
  BY Pushed DEF Context, TypeOK, Pushes
<1>2. Kept /\ KlassesOK'
  BY KlassUnchanged DEF Context, TypeOK, Pushes
<1> QED BY <1>1, <1>2 DEF Context, TypeOK, Pushes

LEMMA FailStep ==
    ASSUME Context, Fails, early' \in SUBSET Records
    PROVE  TypeOK' /\ Kept /\ calls' = <<>>
<1>1. calls' = <<>> /\ calls' \in Seq(CallType)
  BY DEF Fails, Fail
<1>2. failed' \in SUBSET Classes /\ failed \subseteq failed'
  <2>1. \A i \in DOMAIN calls : calls[i].of \in Classes
    BY StackTop, CallFields DEF Context, TypeOK, Fails
  <2> QED BY <2>1 DEF Context, TypeOK, Fails, Fail
<1>3. Kept /\ KlassesOK'
  BY <1>2, KlassUnchanged DEF Context, TypeOK, Fails
<1> QED BY <1>1, <1>2, <1>3 DEF Context, TypeOK, Fails

LEMMA ContinueStep ==
    ASSUME Context, calls # <<>>, NEW x \in CallType, x.of = Top.of, calls' = Continue(x)
    PROVE  Continues /\ Top' = x /\ calls' \in Seq(CallType)
BY Continued, StackTop DEF Context, TypeOK, Continues

LEMMA ReadsTyped ==
    ASSUME Context, Ready, NEW what \in {"references", "instance", "static"}, Reads(what)
    PROVE  /\ early' \in SUBSET Records /\ early \subseteq early'
           /\ Struct(Type) /\ ~klass[Type].sized =>
                  [by |-> Top.of, of |-> Type, what |-> what] \in early'
           /\ \A e \in early' \ early :
                  /\ Struct(Type) /\ ~klass[Type].sized
                  /\ e = [by |-> Top.of, of |-> Type, what |-> what]
<1>1. Top \in CallType /\ Type \in FieldTypes
  BY AtFieldKnown DEF Ready, Visits
<1>2. Top.of \in Classes
  BY <1>1, CallFields
<1>3. Struct(Type) => [by |-> Top.of, of |-> Type, what |-> what] \in Records
  BY <1>2 DEF Struct, Records
<1> DEFINE e == [by |-> Top.of, of |-> Type, what |-> what]
<1>4. early' = early \cup IF Struct(Type) /\ ~klass[Type].sized THEN {e} ELSE {}
  BY DEF Reads
<1>5. early \in SUBSET Records
  BY DEF Context, TypeOK
<1> HIDE DEF e
<1> QED BY <1>3, <1>4, <1>5 DEF e
LEMMA EnterSteps ==
    ASSUME Context, (\E k \in Classes : Initialize(k)) \/ EnterParent \/ EnterFieldType
    PROVE  \E k : Pushes(k)
<1>1. ASSUME NEW k \in Classes, Initialize(k) PROVE Pushes(k)
  BY <1>1 DEF Initialize, Enter, Pushes
<1>2. ASSUME EnterParent PROVE Pushes(Parent(Top.of))
  BY <1>2 DEF EnterParent, Enter, Pushes
<1>3. ASSUME EnterFieldType PROVE Pushes(Type)
  BY <1>3 DEF EnterFieldType, Enter, Pushes
<1> QED BY <1>1, <1>2, <1>3

LEMMA FailSteps ==
    ASSUME Context, TypeMissing \/ OffsetMissing
    PROVE  Fails /\ early' \in SUBSET Records
BY DEF Fails, TypeMissing, OffsetMissing, Visits, At, Context, TypeOK

LEMMA GoStep ==
    ASSUME Context, calls # <<>>, NEW point \in Points, calls' = Go(point)
    PROVE  /\ Continues /\ calls' \in Seq(CallType)
           /\ Top'.at = point /\ Top'.next = 1 /\ Top'.end = 0 /\ Top'.alignment = 1
           /\ Top'.refs = Top.refs
<1>1. Top \in CallType
  BY StackTop DEF Context, TypeOK
<1> DEFINE x == [Top EXCEPT !.at = point, !.next = 1, !.end = 0, !.alignment = 1]
<1>2. /\ x \in CallType /\ x.of = Top.of
      /\ x.at = point /\ x.next = 1 /\ x.end = 0 /\ x.alignment = 1 /\ x.refs = Top.refs
  <2>1. 1 \in Nat \ {0} /\ 0 \in Nat /\ 1 \in Widths
    BY DEF Widths
  <2> HIDE DEF Top
  <2> QED BY <1>1, <2>1 DEF CallType
<1>3. calls' = Continue(x)
  BY DEF Go
<1> HIDE DEF x
<1> QED BY <1>2, <1>3, ContinueStep

LEMMA StartLayoutStep ==
    ASSUME Context, StartLayout
    PROVE  /\ TypeOK' /\ Kept /\ Continues /\ UNCHANGED klass /\ UNCHANGED <<flagged, failed>>
           /\ At("parent") /\ Parent(Top.of) \notin Classes \ flagged
           /\ Top'.at = "references" /\ Top'.next = Top.next
           /\ Top'.refs = (Parent(Top.of) # NoClass /\ klass[Parent(Top.of)].hasReferences)
           /\ \A e \in early' \ early :
                  /\ Parent(Top.of) # NoClass /\ ~klass[Parent(Top.of)].sized
                  /\ e.by = Top.of /\ e.of = Parent(Top.of) /\ e.what \in {"references", "instance"}
           /\ Parent(Top.of) # NoClass /\ ~klass[Parent(Top.of)].sized =>
                  \A w \in {"references", "instance"} :
                      [by |-> Top.of, of |-> Parent(Top.of), what |-> w] \in early'
<1>1. Top \in CallType /\ Top.of \in Classes /\ At("parent") /\ calls # <<>>
  BY StackTop, CallFields DEF Context, TypeOK, StartLayout, At
<1>2. Parent(Top.of) \in Classes \cup {NoClass}
  BY <1>1, ContextMetadata, ParentsFounded
<1> DEFINE p == Parent(Top.of)
           r == p # NoClass /\ klass[p].hasReferences
           x == [Top EXCEPT !.at = "references", !.refs = r]
           q == {c \in {p} \ {NoClass} : ~klass[c].sized}
           new == {[by |-> Top.of, of |-> c, what |-> w] : c \in q, w \in {"references", "instance"}}
<1>3. r \in BOOLEAN
  BY <1>2, KlassKnown DEF Context, TypeOK
<1>4. x \in CallType /\ x.of = Top.of /\ x.at = "references" /\ x.next = Top.next /\ x.refs = r
  <2> HIDE DEF r
  <2> QED BY <1>1, <1>3 DEF CallType, Points
<1>5. calls' = Continue(x) /\ UNCHANGED <<program, klass, flagged, failed>>
  BY DEF StartLayout
<1>6. Continues /\ Top' = x /\ calls' \in Seq(CallType)
  <2> HIDE DEF x
  <2> QED BY <1>1, <1>4, <1>5, ContinueStep
<1>7. early' = early \cup new
  BY DEF StartLayout
<1>8. new \in SUBSET Records
  BY <1>1, <1>2 DEF Records
<1>9. Kept /\ KlassesOK'
  BY <1>5, <1>7, KlassUnchanged DEF Context, TypeOK
<1>10. TypeOK'
  <2> HIDE DEF new
  <2> QED BY <1>5, <1>6, <1>7, <1>8, <1>9 DEF Context, TypeOK
<1>11. p # NoClass /\ ~klass[p].sized =>
           \A w \in {"references", "instance"} : [by |-> Top.of, of |-> p, what |-> w] \in new
  OBVIOUS
<1>12. \A e \in new : /\ p # NoClass /\ ~klass[p].sized
                      /\ e.by = Top.of /\ e.of = p /\ e.what \in {"references", "instance"}
  OBVIOUS
<1>13. p \notin Classes \ flagged
  BY DEF StartLayout
<1> HIDE DEF new, x, p
<1> QED BY <1>1, <1>4, <1>5, <1>6, <1>7, <1>9, <1>10, <1>11, <1>12, <1>13 DEF p

LEMMA LookForReferenceStep ==
    ASSUME Context, LookForReference
    PROVE  /\ TypeOK' /\ Kept /\ Continues /\ UNCHANGED klass /\ UNCHANGED <<flagged, failed>>
           /\ At("references") /\ Ready /\ Reads("references")
           /\ Top'.at = "references" /\ Top'.next = Top.next + 1
           /\ Top'.refs = IF Struct(Type) THEN klass[Type].hasReferences ELSE Type = "ref"
<1>1. /\ Top \in CallType /\ Top.of \in Classes /\ At("references") /\ calls # <<>>
      /\ Top.next \in Nat /\ Top.next >= 1
  BY StackTop, CallFields DEF Context, TypeOK, LookForReference, At
<1>2. Ready /\ Reads("references") /\ UNCHANGED <<program, flagged, klass, failed>>
  BY DEF LookForReference
<1> DEFINE r == IF Struct(Type) THEN klass[Type].hasReferences ELSE Type = "ref"
           x == [Top EXCEPT !.next = @ + 1, !.refs = r]
<1>3. r \in BOOLEAN
  BY KlassKnown DEF Context, TypeOK, Struct
<1>4. /\ x \in CallType /\ x.of = Top.of /\ x.at = "references" /\ x.next = Top.next + 1
      /\ x.refs = r
  <2> HIDE DEF r
  <2>1. Top.next + 1 \in Nat \ {0}
    BY <1>1
  <2>2. Top.at = "references"
    BY <1>1 DEF At
  <2> QED BY <1>1, <1>3, <2>1, <2>2 DEF CallType
<1>5. calls' = Continue(x)
  BY DEF LookForReference
<1>6. Continues /\ Top' = x /\ calls' \in Seq(CallType)
  <2> HIDE DEF x
  <2> QED BY <1>1, <1>4, <1>5, ContinueStep
<1>7. early' \in SUBSET Records /\ early \subseteq early'
  BY <1>2, ReadsTyped
<1>8. Kept /\ KlassesOK'
  BY <1>2, <1>7, KlassUnchanged DEF Context, TypeOK
<1>9. TypeOK'
  BY <1>2, <1>6, <1>7, <1>8 DEF Context, TypeOK
<1> HIDE DEF x
<1> QED BY <1>1, <1>2, <1>4, <1>6, <1>8, <1>9
LEMMA StartInstanceStep ==
    ASSUME Context, StartInstance
    PROVE  /\ TypeOK' /\ Kept /\ Continues /\ UNCHANGED <<flagged, failed, early>>
           /\ At("references") /\ (AtField => Skipped)
           /\ Top'.at = "instance" /\ Top'.next = 1 /\ Top'.end = 0 /\ Top'.alignment = 1
           /\ klass'[Top.of].hasReferences = Top.refs
<1>1. /\ Top \in CallType /\ Top.of \in Classes /\ At("references") /\ calls # <<>>
      /\ Top.refs \in BOOLEAN
  BY StackTop, CallFields DEF Context, TypeOK, StartInstance, At
<1> DEFINE k == Top.of
           r == [klass[k] EXCEPT !.hasReferences = Top.refs]
<1>2. klass[k] \in KlassType(k) /\ (klass[k].sized => klass[k].alignment \in Widths) /\ KlassesOK
  BY <1>1, KlassKnown DEF Context, TypeOK
<1>3. /\ r \in KlassType(k) /\ (r.sized => r.alignment \in Widths)
      /\ r.hasReferences = Top.refs /\ r.sized = klass[k].sized /\ r.size = klass[k].size
      /\ r.alignment = klass[k].alignment /\ r.offsets = klass[k].offsets
      /\ r.bitmap = klass[k].bitmap /\ r.staticBitmap = klass[k].staticBitmap
      /\ r.staticSize = klass[k].staticSize /\ r.done = klass[k].done
  BY <1>1, <1>2 DEF KlassType
<1>4. /\ calls' = Go("instance") /\ UNCHANGED <<program, flagged, early, failed>>
      /\ AtField => Skipped
  BY DEF StartInstance
<1>5. klass' = [klass EXCEPT ![k] = r]
  BY <1>2 DEF StartInstance, KlassesOK
<1>6. /\ Continues /\ calls' \in Seq(CallType)
      /\ Top'.at = "instance" /\ Top'.next = 1 /\ Top'.end = 0 /\ Top'.alignment = 1
  <2>1. "instance" \in Points
    BY DEF Points
  <2> QED BY <1>1, <1>4, <2>1, GoStep
<1> HIDE DEF r
<1>7. KlassesOK' /\ klass'[k] = r /\ \A t \in Classes : t # k => klass'[t] = klass[t]
  BY <1>1, <1>2, <1>3, <1>4, <1>5, Rewritten
<1>8. \A t \in Classes : ClassKept(t) /\ \A i \in DOMAIN program[t].fields : OffsetKept(t, i)
  BY <1>1, <1>3, <1>7 DEF ClassKept, OffsetKept
<1>9. Kept
  BY <1>4, <1>8 DEF Kept
<1>10. TypeOK'
  BY <1>4, <1>6, <1>7 DEF Context, TypeOK
<1> QED BY <1>1, <1>3, <1>4, <1>6, <1>7, <1>9, <1>10

LEMMA EndInstanceStep ==
    ASSUME Context, EndInstance
    PROVE  /\ TypeOK' /\ Kept /\ Continues /\ UNCHANGED <<flagged, failed, early>>
           /\ At("instance") /\ ~AtField
           /\ Top'.at = "static" /\ Top'.next = 1 /\ Top'.end = 0 /\ Top'.alignment = 1
           /\ klass'[Top.of].sized /\ klass'[Top.of].alignment = Top.alignment
           /\ klass'[Top.of].size >= Top.end
           /\ IsValueClass(Top.of) => klass'[Top.of].size >= 1
           /\ klass'[Top.of].offsets = klass[Top.of].offsets
<1>1. /\ Top \in CallType /\ Top.of \in Classes /\ At("instance") /\ ~AtField /\ calls # <<>>
      /\ Top.end \in Nat /\ Top.alignment \in Widths
  BY StackTop, CallFields DEF Context, TypeOK, EndInstance, At
<1> DEFINE k == Top.of
           s == AlignUp(Top.end, Top.alignment)
           z == IF IsValueClass(k) THEN Max({s, program[k].classSize, 1}) ELSE s
           r == [klass[k] EXCEPT !.size = z, !.alignment = Top.alignment, !.sized = TRUE]
<1>2. klass[k] \in KlassType(k) /\ KlassesOK
  BY <1>1, KlassKnown DEF Context, TypeOK
<1>3. s \in Nat /\ s >= Top.end
  BY <1>1, AlignUpFacts
<1>4. z \in Nat /\ z >= s /\ (IsValueClass(k) => z >= 1)
  <2>1. program[k].classSize \in Nat
    BY <1>1, Metadatum DEF Context, TypeOK
  <2> HIDE DEF s
  <2>2. /\ Max({s, program[k].classSize, 1}) \in {s, program[k].classSize, 1}
        /\ s <= Max({s, program[k].classSize, 1}) /\ 1 <= Max({s, program[k].classSize, 1})
    BY <1>3, <2>1, MaxOfThree
  <2> QED BY <1>3, <2>1, <2>2
<1> HIDE DEF z, s
<1>5. /\ r \in KlassType(k) /\ (r.sized => r.alignment \in Widths)
      /\ r.hasReferences = klass[k].hasReferences /\ r.sized = TRUE /\ r.size = z
      /\ r.alignment = Top.alignment /\ r.offsets = klass[k].offsets
      /\ r.bitmap = klass[k].bitmap /\ r.staticBitmap = klass[k].staticBitmap
      /\ r.staticSize = klass[k].staticSize /\ r.done = klass[k].done
  BY <1>1, <1>2, <1>4 DEF KlassType
<1>6. calls' = Go("static") /\ UNCHANGED <<program, flagged, early, failed>>
  BY DEF EndInstance
<1>7. klass' = [klass EXCEPT ![k] = r]
  BY <1>2 DEF EndInstance, KlassesOK, z, s
<1>8. /\ Continues /\ calls' \in Seq(CallType)
      /\ Top'.at = "static" /\ Top'.next = 1 /\ Top'.end = 0 /\ Top'.alignment = 1
  <2>1. "static" \in Points
    BY DEF Points
  <2> QED BY <1>1, <1>6, <2>1, GoStep
<1> HIDE DEF r
<1>9. KlassesOK' /\ klass'[k] = r /\ \A t \in Classes : t # k => klass'[t] = klass[t]
  BY <1>1, <1>2, <1>5, <1>6, <1>7, Rewritten
<1>10. \A t \in Classes : ClassKept(t) /\ \A i \in DOMAIN program[t].fields : OffsetKept(t, i)
  BY <1>1, <1>5, <1>9 DEF ClassKept, OffsetKept
<1>11. Kept
  BY <1>6, <1>10 DEF Kept
<1>12. TypeOK'
  BY <1>6, <1>8, <1>9 DEF Context, TypeOK
<1>13. z >= Top.end
  BY <1>1, <1>3, <1>4
<1> QED BY <1>1, <1>4, <1>5, <1>6, <1>8, <1>9, <1>11, <1>12, <1>13

LEMMA EndStaticStep ==
    ASSUME Context, EndStatic
    PROVE  /\ TypeOK' /\ Kept /\ Continues /\ UNCHANGED <<flagged, failed, early>>
           /\ At("static") /\ ~AtField
           /\ Top'.at = "bitmap"
           /\ klass'[Top.of].staticSize = AlignUp(Top.end, Top.alignment)
           /\ klass'[Top.of].offsets = klass[Top.of].offsets
<1>1. /\ Top \in CallType /\ Top.of \in Classes /\ At("static") /\ ~AtField /\ calls # <<>>
      /\ Top.end \in Nat /\ Top.alignment \in Widths
  BY StackTop, CallFields DEF Context, TypeOK, EndStatic, At
<1> DEFINE k == Top.of
           s == AlignUp(Top.end, Top.alignment)
           r == [klass[k] EXCEPT !.staticSize = s]
<1>2. klass[k] \in KlassType(k) /\ KlassesOK /\ (klass[k].sized => klass[k].alignment \in Widths)
  BY <1>1, KlassKnown DEF Context, TypeOK
<1>3. s \in Nat
  BY <1>1, AlignUpFacts
<1>4. klass' = [klass EXCEPT ![k] = r]
  BY <1>2 DEF EndStatic, KlassesOK
<1> HIDE DEF s
<1>5. /\ r \in KlassType(k) /\ (r.sized => r.alignment \in Widths)
      /\ r.hasReferences = klass[k].hasReferences /\ r.sized = klass[k].sized
      /\ r.size = klass[k].size
      /\ r.alignment = klass[k].alignment /\ r.offsets = klass[k].offsets
      /\ r.bitmap = klass[k].bitmap /\ r.staticBitmap = klass[k].staticBitmap
      /\ r.staticSize = s /\ r.done = klass[k].done
  BY <1>2, <1>3 DEF KlassType
<1>6. calls' = Go("bitmap") /\ UNCHANGED <<program, flagged, early, failed>>
  BY DEF EndStatic
<1>7. /\ Continues /\ calls' \in Seq(CallType)
      /\ Top'.at = "bitmap"
  <2>1. "bitmap" \in Points
    BY DEF Points
  <2> QED BY <1>1, <1>6, <2>1, GoStep
<1> HIDE DEF r
<1>8. KlassesOK' /\ klass'[k] = r /\ \A t \in Classes : t # k => klass'[t] = klass[t]
  BY <1>1, <1>2, <1>4, <1>5, <1>6, Rewritten
<1>9. \A t \in Classes : ClassKept(t) /\ \A i \in DOMAIN program[t].fields : OffsetKept(t, i)
  BY <1>1, <1>5, <1>8 DEF ClassKept, OffsetKept
<1>10. Kept
  BY <1>6, <1>9 DEF Kept
<1>11. TypeOK'
  BY <1>6, <1>7, <1>8 DEF Context, TypeOK
<1> QED BY <1>1, <1>5, <1>6, <1>7, <1>8, <1>10, <1>11 DEF s
(* Nothing of a class but the offset of the field is written. *)
OthersKept ==
    \A t \in Classes : \A i \in DOMAIN program[t].fields :
        ~(t = Field.class /\ i = Field.index) => klass'[t].offsets[i] = klass[t].offsets[i]

LEMMA OffsetStep ==
    ASSUME Context, calls # <<>>, AtField, UNCHANGED <<program, flagged, failed>>, early \subseteq early',
           NEW o \in Nat, klass' = [klass EXCEPT ![Field.class].offsets[Field.index] = o],
           \/ Field.class = Top.of /\ Top.at \in {"instance", "static"}
           \/ Top.at = "instance" /\ program[Field.class].explicit /\ o = FieldOf(Field).at
    PROVE  /\ Kept /\ KlassesOK' /\ OthersKept
           /\ klass'[Field.class].offsets[Field.index] = o
<1> DEFINE c == Field.class
           n == Field.index
<1>1. c \in Classes /\ n \in DOMAIN program[c].fields /\ KlassesOK
  BY AtFieldKnown DEF Context, TypeOK
<1>2. /\ KlassesOK'
      /\ \A t \in Classes : t # c => klass'[t] = klass[t]
      /\ klass'[c] = [klass[c] EXCEPT !.offsets = klass'[c].offsets]
      /\ klass'[c].offsets[n] = o
      /\ \A j \in DOMAIN program[c].fields : j # n => klass'[c].offsets[j] = klass[c].offsets[j]
  BY <1>1, OffsetWritten
<1>3. \A t \in Classes : ClassKept(t)
  <2>1. klass[c] \in KlassType(c)
    BY <1>1, KlassKnown
  <2>2. /\ klass'[c].hasReferences = klass[c].hasReferences /\ klass'[c].sized = klass[c].sized
        /\ klass'[c].size = klass[c].size /\ klass'[c].alignment = klass[c].alignment
        /\ klass'[c].staticSize = klass[c].staticSize /\ klass'[c].bitmap = klass[c].bitmap
        /\ klass'[c].staticBitmap = klass[c].staticBitmap /\ klass'[c].done = klass[c].done
    <3> DEFINE z == klass'[c].offsets
    <3>1. klass'[c] = [klass[c] EXCEPT !.offsets = z]
      BY <1>2
    <3> HIDE DEF z, c
    <3> QED BY <2>1, <3>1 DEF KlassType
  <2> HIDE DEF c
  <2> QED BY <1>1, <1>2, <2>2 DEF ClassKept
<1>4. OthersKept
  BY <1>2 DEF OthersKept
<1>5. \A t \in Classes : \A i \in DOMAIN program[t].fields : OffsetKept(t, i)
  <2>1. FieldOf(Field).at = program[c].fields[n].at
    BY DEF FieldOf
  <2>2. \/ c = Top.of /\ Top.at \in {"instance", "static"}
        \/ Top.at = "instance" /\ program[c].explicit /\ o = FieldOf(Field).at
    OBVIOUS
  <2> QED BY <1>2, <1>4, <2>1, <2>2 DEF OffsetKept, OthersKept
<1>6. Kept
  BY <1>3, <1>5 DEF Kept
<1> QED BY <1>2, <1>4, <1>6

Placing(align) ==
    /\ TypeOK' /\ Kept /\ Continues /\ UNCHANGED <<flagged, failed>> /\ OthersKept
    /\ Top'.at = Top.at /\ Top'.next = Top.next + 1
    /\ Top'.alignment >= Top.alignment /\ Top'.alignment >= align

LEMMA PlaceFieldStep ==
    ASSUME Context, Ready, Top.at \in {"instance", "static"}, NEW align \in Widths \cup {0},
           PlaceField(align), UNCHANGED <<program, flagged, failed>>,
           early' \in SUBSET Records, early \subseteq early'
    PROVE  /\ Placing(align)
           /\ Top'.end = AlignUp(Top.end, align) + SizeOf(Type)
           /\ Field.class = Top.of =>
                  klass'[Field.class].offsets[Field.index] = AlignUp(Top.end, align)
           /\ Field.class # Top.of => UNCHANGED klass
<1>1. /\ calls # <<>> /\ AtField /\ Top \in CallType /\ Type \in FieldTypes
  BY AtFieldKnown DEF Ready, Visits
<1>2. /\ Top.of \in Classes /\ Top.at \in Points /\ Top.next \in Nat /\ Top.next >= 1
      /\ Top.end \in Nat /\ Top.alignment \in Widths
  BY <1>1, CallFields
<1> DEFINE o == AlignUp(Top.end, align)
           s == SizeOf(Type)
           m == Max({Top.alignment, align})
           x == [Top EXCEPT !.next = @ + 1, !.end = o + s, !.alignment = m]
<1>3. o \in Nat /\ s \in Nat
  <2>1. s \in Nat
    BY <1>1, Sizes
  <2>2. AlignUp(Top.end, 0) \in Nat /\ \A w \in Widths : AlignUp(Top.end, w) \in Nat
    BY <1>2, AlignUpFacts
  <2> QED BY <2>1, <2>2
<1>4. m \in Widths /\ m >= Top.alignment /\ m >= align
  <2>1. Top.alignment \in Nat /\ align \in Nat
    BY <1>2 DEF Widths
  <2>2. m \in {Top.alignment, align} /\ m >= Top.alignment /\ m >= align
    BY <2>1, MaxOfTwo
  <2> HIDE DEF m
  <2> QED BY <1>2, <2>1, <2>2 DEF Widths
<1> HIDE DEF o, s, m
<1>5. /\ x \in CallType /\ x.of = Top.of /\ x.at = Top.at /\ x.next = Top.next + 1
      /\ x.end = o + s /\ x.alignment = m
  <2>1. Top.next + 1 \in Nat \ {0} /\ o + s \in Nat
    BY <1>2, <1>3
  <2> QED BY <1>1, <1>4, <2>1 DEF CallType
<1>6. calls' = Continue(x)
  BY DEF PlaceField, o, s, m
<1>7. Continues /\ Top' = x /\ calls' \in Seq(CallType)
  <2> HIDE DEF x
  <2> QED BY <1>1, <1>5, <1>6, ContinueStep
<1>8. CASE Field.class = Top.of
  <2>1. klass' = [klass EXCEPT ![Field.class].offsets[Field.index] = o]
    BY <1>8 DEF PlaceField, o
  <2>2. Kept /\ KlassesOK' /\ OthersKept /\ klass'[Field.class].offsets[Field.index] = o
    BY <1>1, <1>3, <1>8, <2>1, OffsetStep
  <2>3. TypeOK'
    BY <1>7, <2>2 DEF Context, TypeOK
  <2> QED BY <1>4, <1>5, <1>7, <1>8, <2>2, <2>3 DEF Placing, o, s
<1>9. CASE Field.class # Top.of
  <2>1. UNCHANGED klass
    BY <1>9 DEF PlaceField
  <2>2. Kept /\ KlassesOK'
    BY <2>1, KlassUnchanged DEF Context, TypeOK
  <2>3. TypeOK'
    BY <1>7, <2>2 DEF Context, TypeOK
  <2>4. OthersKept
    BY <2>1 DEF OthersKept
  <2> QED BY <1>4, <1>5, <1>7, <1>9, <2>1, <2>2, <2>3, <2>4 DEF Placing, o, s
<1> QED BY <1>8, <1>9

LEMMA PlaceExplicitlyStep ==
    ASSUME Context, Ready, Top.at = "instance", program[Field.class].explicit,
           NEW align \in Widths \cup {0}, PlaceExplicitly(align),
           UNCHANGED <<program, flagged, failed>>, early' \in SUBSET Records, early \subseteq early'
    PROVE  /\ Placing(align)
           /\ Top'.end >= Top.end /\ Top'.end >= FieldOf(Field).at + SizeOf(Type)
           /\ klass'[Field.class].offsets[Field.index] = FieldOf(Field).at
<1>1. /\ calls # <<>> /\ AtField /\ Top \in CallType /\ Type \in FieldTypes
      /\ FieldOf(Field).at \in Nat
  BY AtFieldKnown DEF Ready, Visits
<1>2. /\ Top.of \in Classes /\ Top.at \in Points /\ Top.next \in Nat /\ Top.next >= 1
      /\ Top.end \in Nat /\ Top.alignment \in Widths
  BY <1>1, CallFields
<1> DEFINE o == FieldOf(Field).at
           s == SizeOf(Type)
           e == Max({Top.end, o + s})
           m == Max({Top.alignment, align})
           x == [Top EXCEPT !.next = @ + 1, !.end = e, !.alignment = m]
<1>3. e \in Nat /\ e >= Top.end /\ e >= o + s
  <2>1. s \in Nat
    BY <1>1, Sizes
  <2>2. o + s \in Nat
    BY <1>1, <2>1
  <2> HIDE DEF o, s
  <2> QED BY <1>2, <2>2, MaxOfTwo
<1>4. m \in Widths /\ m >= Top.alignment /\ m >= align
  <2>1. Top.alignment \in Nat /\ align \in Nat
    BY <1>2 DEF Widths
  <2>2. m \in {Top.alignment, align} /\ m >= Top.alignment /\ m >= align
    BY <2>1, MaxOfTwo
  <2> HIDE DEF m
  <2> QED BY <1>2, <2>1, <2>2 DEF Widths
<1> HIDE DEF m, e
<1>5. /\ x \in CallType /\ x.of = Top.of /\ x.at = Top.at /\ x.next = Top.next + 1
      /\ x.end = e /\ x.alignment = m
  <2>1. Top.next + 1 \in Nat \ {0}
    BY <1>2
  <2> QED BY <1>1, <1>3, <1>4, <2>1 DEF CallType
<1>6. calls' = Continue(x)
  BY DEF PlaceExplicitly, m, e
<1>7. Continues /\ Top' = x /\ calls' \in Seq(CallType)
  <2> HIDE DEF x
  <2> QED BY <1>1, <1>5, <1>6, ContinueStep
<1>8. klass' = [klass EXCEPT ![Field.class].offsets[Field.index] = o]
  BY DEF PlaceExplicitly
<1>9. Kept /\ KlassesOK' /\ OthersKept /\ klass'[Field.class].offsets[Field.index] = o
  BY <1>1, <1>8, OffsetStep
<1>10. TypeOK'
  BY <1>7, <1>9 DEF Context, TypeOK
<1> QED BY <1>3, <1>4, <1>5, <1>7, <1>9, <1>10 DEF Placing
LEMMA PlaceInstanceFieldStep ==
    ASSUME Context, PlaceInstanceField
    PROVE  /\ Placing(FieldAlignment(Top.of, Type))
           /\ At("instance") /\ Ready /\ ~NoOffset /\ Reads("instance")
           /\ program[Top.of].explicit =>
                  /\ program[Field.class].explicit
                  /\ Top'.end >= Top.end /\ Top'.end >= FieldOf(Field).at + SizeOf(Type)
                  /\ klass'[Field.class].offsets[Field.index] = FieldOf(Field).at
           /\ ~program[Top.of].explicit =>
                  LET o == AlignUp(Top.end, FieldAlignment(Top.of, Type)) IN
                      /\ Top'.end = o + SizeOf(Type)
                      /\ Field.class = Top.of => klass'[Field.class].offsets[Field.index] = o
                      /\ Field.class # Top.of => UNCHANGED klass
<1>1. /\ At("instance") /\ Ready /\ ~NoOffset /\ Reads("instance")
      /\ UNCHANGED <<program, flagged, failed>>
  BY DEF PlaceInstanceField
<1>2. calls # <<>> /\ Top.at = "instance" /\ AtField
  BY <1>1 DEF At, Ready, Visits
<1>3. early' \in SUBSET Records /\ early \subseteq early'
  BY <1>1, ReadsTyped
<1> DEFINE align == FieldAlignment(Top.of, Type)
<1>4. align \in Widths \cup {0}
  <2>1. Top.of \in Classes /\ Type \in FieldTypes
    BY <1>1, <1>2, AtFieldKnown, CallFields DEF Ready
  <2> QED BY <2>1, Alignments
<1>5. CASE program[Top.of].explicit
  <2>1. program[Field.class].explicit
    BY <1>1, <1>5 DEF NoOffset
  <2>2. PlaceExplicitly(align)
    BY <1>5 DEF PlaceInstanceField
  <2> HIDE DEF align
  <2> QED BY <1>1, <1>2, <1>3, <1>4, <1>5, <2>1, <2>2, PlaceExplicitlyStep DEF align
<1>6. CASE ~program[Top.of].explicit
  <2>1. PlaceField(align)
    BY <1>6 DEF PlaceInstanceField
  <2> HIDE DEF align
  <2> QED BY <1>1, <1>2, <1>3, <1>4, <1>6, <2>1, PlaceFieldStep DEF align
<1> QED BY <1>5, <1>6

LEMMA PlaceStaticFieldStep ==
    ASSUME Context, PlaceStaticField
    PROVE  /\ Placing(AlignmentOf(Type))
           /\ At("static") /\ Ready /\ Reads("static")
           /\ Top'.end = AlignUp(Top.end, AlignmentOf(Type)) + SizeOf(Type)
           /\ klass'[Field.class].offsets[Field.index] = AlignUp(Top.end, AlignmentOf(Type))
<1>1. /\ At("static") /\ Ready /\ Reads("static")
      /\ UNCHANGED <<program, flagged, failed>>
  BY DEF PlaceStaticField
<1>2. calls # <<>> /\ Top.at = "static" /\ AtField
  BY <1>1 DEF At, Ready, Visits
<1>3. early' \in SUBSET Records /\ early \subseteq early'
  BY <1>1, ReadsTyped
<1> DEFINE align == AlignmentOf(Type)
<1>4. align \in Widths \cup {0} /\ Field.class = Top.of
  <2>1. Type \in FieldTypes /\ Field.class = Top.of
    BY <1>1, <1>2, AtFieldKnown DEF Ready
  <2> QED BY <2>1, Sizes
<1>5. PlaceField(align)
  BY DEF PlaceStaticField
<1> HIDE DEF align
<1> QED BY <1>1, <1>2, <1>3, <1>4, <1>5, PlaceFieldStep DEF align

LEMMA HoldersFacts ==
    ASSUME Context
    PROVE  \A k \in Classes : Holders[k] \subseteq Ancestry[k] /\ Holders[k] \subseteq Classes
<1>1. MetadataOK /\ \A k \in Classes : klass[k].hasReferences \in BOOLEAN
  BY ContextMetadata, KlassKnown DEF Context, TypeOK
<1> DEFINE S == {k \in Classes : ~(Holders[k] \subseteq Ancestry[k])}
<1>2. S = {}
  <2>1. SUFFICES ASSUME S # {} PROVE FALSE
    OBVIOUS
  <2>2. PICK k \in S : Parent(k) \notin S
    <3>1. S \in (SUBSET Classes) \ {{}}
      BY <2>1
    <3> HIDE DEF S
    <3> QED BY <1>1, <3>1, ParentsFounded
  <2>3. k \in Classes /\ ~(Holders[k] \subseteq Ancestry[k])
    BY <2>2
  <2>4. Ancestry[k] = {k} \cup IF Parent(k) = NoClass THEN {} ELSE Ancestry[Parent(k)]
    BY <1>1, <2>3, AncestryUnfolded
  <2>5. Holders[k] = IF klass[k].hasReferences
                     THEN {k} \cup IF Parent(k) = NoClass THEN {} ELSE Holders[Parent(k)]
                     ELSE {}
    BY <1>1, <2>3, HoldersUnfolded
  <2>6. Parent(k) # NoClass => Holders[Parent(k)] \subseteq Ancestry[Parent(k)]
    BY <1>1, <2>2, <2>3, ParentsFounded
  <2> QED BY <2>3, <2>4, <2>5, <2>6
<1> QED BY <1>1, <1>2, AncestryFacts

LEMMA FieldsOfClass ==
    ASSUME MetadataOK, NEW k \in Classes, NEW static \in BOOLEAN, NEW f \in FieldsOf(k, static)
    PROVE  /\ OwnFieldOf(k, static, f)
           /\ \E i \in DOMAIN Own(k, static) : f = Own(k, static)[i]
<1>1. PICK i \in DOMAIN Own(k, static) : f = Own(k, static)[i]
  BY DEF FieldsOf, ToSet
<1> QED BY <1>1, OwnField

LEMMA BitsAreWords ==
    ASSUME Context, NEW f, f.class \in Classes, f.index \in DOMAIN program[f.class].fields
    PROVE  BitsOf(f) \in SUBSET Nat /\ OffsetOf(f) \in Nat /\ OffsetOf(f) \div PointerSize \in Nat
<1>1. OffsetOf(f) \in Nat
  BY KlassKnown DEF Context, TypeOK, OffsetOf
<1>2. PointerSize \in {4, 8}
  BY DEF Context, PlatformAssumption
<1>3. OffsetOf(f) \div PointerSize \in Nat
  BY <1>1, <1>2
<1> DEFINE w == OffsetOf(f) \div PointerSize
           t == FieldOf(f).type
<1>4. Struct(t) => klass[t].bitmap \in SUBSET Nat
  BY KlassKnown DEF Context, TypeOK, Struct
<1>5. BitsOf(f) = IF Struct(t)
                  THEN IF klass[t].hasReferences THEN {w + b : b \in klass[t].bitmap} ELSE {}
                  ELSE IF t = "ref" THEN {w} ELSE {}
  BY DEF BitsOf
<1>6. w \in Nat
  BY <1>3
<1> HIDE DEF w, t
<1>7. BitsOf(f) \in SUBSET Nat
  <2>1. CASE Struct(t)
    <3>1. \A b \in klass[t].bitmap : w + b \in Nat
      BY <1>4, <1>6, <2>1
    <3> QED BY <1>5, <2>1, <3>1
  <2>2. CASE ~Struct(t)
    BY <1>5, <1>6, <2>2
  <2> QED BY <2>1, <2>2
<1> QED BY <1>1, <1>3, <1>7

LEMMA BitmapStep ==
    ASSUME Context, Bitmap
    PROVE  /\ early' \in SUBSET Records /\ early \subseteq early'
           /\ \A e \in early' \ early : e.by = Top.of /\ e.what = "bitmap"
           /\ \A t \in Classes : Unmapped(t) /\ (\E f \in ToSet(InstanceFields[Top.of]) : FieldOf(f).type = t)
                  => [by |-> Top.of, of |-> t, what |-> "bitmap"] \in early'
           /\ At("bitmap")
           /\ \/ Fails
              \/ /\ TypeOK' /\ Kept /\ Continues /\ UNCHANGED <<flagged, failed>>
                 /\ Top'.at = "staticBitmap"
                 /\ ~(klass[Top.of].hasReferences /\ InstanceBits(Top.of) = {})
                 /\ klass'[Top.of].bitmap = InstanceBits(Top.of)
                 /\ \A t \in Classes : klass'[t].offsets = klass[t].offsets
<1>1. /\ Top \in CallType /\ Top.of \in Classes /\ At("bitmap") /\ calls # <<>>
      /\ MetadataOK
  BY StackTop, CallFields, ContextMetadata DEF Context, TypeOK, Bitmap, At
<1> DEFINE k == Top.of
           new == {[by |-> k, of |-> t, what |-> "bitmap"] :
                     t \in {t \in Classes : /\ Unmapped(t)
                                            /\ \E f \in ToSet(InstanceFields[k]) : FieldOf(f).type = t}}
<1>2. early' = early \cup new /\ UNCHANGED <<program, flagged>>
  BY DEF Bitmap
<1>3. new \in SUBSET Records
  BY <1>1 DEF Records
<1>4. early' \in SUBSET Records /\ early \subseteq early'
  BY <1>2, <1>3 DEF Context, TypeOK
<1>5. \A e \in new : e.by = k /\ e.what = "bitmap"
  OBVIOUS
<1>6. ASSUME NEW t \in Classes, Unmapped(t), \E f \in ToSet(InstanceFields[k]) : FieldOf(f).type = t
      PROVE  [by |-> k, of |-> t, what |-> "bitmap"] \in new
  BY <1>6
<1> HIDE DEF new
<1>7. CASE klass[k].hasReferences /\ InstanceBits(k) = {}
  <2>1. Fail /\ UNCHANGED klass
    BY <1>7 DEF Bitmap
  <2>2. Fails
    BY <1>1, <1>2, <2>1 DEF Fails
  <2> QED BY <1>1, <1>2, <1>4, <1>5, <1>6, <2>2
<1>8. CASE ~(klass[k].hasReferences /\ InstanceBits(k) = {})
  <2> DEFINE r == [klass[k] EXCEPT !.bitmap = InstanceBits(k)]
  <2>1. /\ klass' = [klass EXCEPT ![k].bitmap = InstanceBits(k)]
        /\ calls' = Go("staticBitmap") /\ UNCHANGED failed
    BY <1>8 DEF Bitmap
  <2>2. klass[k] \in KlassType(k) /\ KlassesOK /\ (klass[k].sized => klass[k].alignment \in Widths)
    BY <1>1, KlassKnown DEF Context, TypeOK
  <2>3. InstanceBits(k) \in SUBSET Nat
    <3>1. ASSUME NEW c \in Holders[k], NEW f \in FieldsOf(c, FALSE) PROVE BitsOf(f) \in SUBSET Nat
      <4>1. c \in Classes
        BY <1>1, HoldersFacts
      <4>2. f.class = c /\ f.index \in DOMAIN program[c].fields
        BY <1>1, <4>1, FieldsOfClass DEF OwnFieldOf
      <4> QED BY <4>1, <4>2, BitsAreWords
    <3> QED BY <3>1 DEF InstanceBits
  <2>4. klass' = [klass EXCEPT ![k] = r]
    BY <2>1, <2>2 DEF KlassesOK
  <2>5. /\ r \in KlassType(k) /\ (r.sized => r.alignment \in Widths)
        /\ r.hasReferences = klass[k].hasReferences /\ r.sized = klass[k].sized
        /\ r.size = klass[k].size
        /\ r.alignment = klass[k].alignment /\ r.offsets = klass[k].offsets
        /\ r.bitmap = InstanceBits(k) /\ r.staticBitmap = klass[k].staticBitmap
        /\ r.staticSize = klass[k].staticSize /\ r.done = klass[k].done
    BY <2>2, <2>3 DEF KlassType
  <2>6. Continues /\ calls' \in Seq(CallType) /\ Top'.at = "staticBitmap"
    <3>1. "staticBitmap" \in Points
      BY DEF Points
    <3> QED BY <1>1, <2>1, <3>1, GoStep
  <2> HIDE DEF r
  <2>7. KlassesOK' /\ klass'[k] = r /\ \A t \in Classes : t # k => klass'[t] = klass[t]
    BY <1>1, <1>2, <2>2, <2>4, <2>5, Rewritten
  <2>8. \A t \in Classes : ClassKept(t) /\ \A i \in DOMAIN program[t].fields : OffsetKept(t, i)
    BY <1>1, <2>5, <2>7 DEF ClassKept, OffsetKept
  <2>9. Kept
    BY <1>2, <1>4, <2>1, <2>8 DEF Kept
  <2>10. TypeOK'
    BY <1>2, <1>4, <2>1, <2>6, <2>7 DEF Context, TypeOK
  <2>11. \A t \in Classes : klass'[t].offsets = klass[t].offsets
    BY <2>5, <2>7
  <2> QED BY <1>1, <1>2, <1>4, <1>5, <1>6, <1>8, <2>1, <2>5, <2>6, <2>7, <2>9, <2>10, <2>11
<1> QED BY <1>7, <1>8

LEMMA EndLayoutStep ==
    ASSUME Context, EndLayout
    PROVE  /\ TypeOK' /\ Kept /\ UNCHANGED <<flagged, failed>>
           /\ At("staticBitmap") /\ Top \in CallType /\ calls # <<>> /\ calls' = Front(calls)
           /\ klass'[Top.of].done
           /\ klass'[Top.of].staticBitmap =
                  IF klass[Top.of].staticSize >= PointerSize
                  THEN UNION {BitsOf(f) : f \in FieldsOf(Top.of, TRUE)} ELSE {}
           /\ \A t \in Classes : klass'[t].offsets = klass[t].offsets
           /\ \A e \in early' \ early : e.by = Top.of /\ e.what = "staticBitmap"
           /\ \A t \in Classes \ {Top.of} : Unmapped(t) /\ (\E f \in FieldsOf(Top.of, TRUE) : FieldOf(f).type = t)
                  => [by |-> Top.of, of |-> t, what |-> "staticBitmap"] \in early'
<1>1. /\ Top \in CallType /\ Top.of \in Classes /\ At("staticBitmap") /\ calls # <<>>
      /\ MetadataOK
  BY StackTop, CallFields, ContextMetadata DEF Context, TypeOK, EndLayout, At
<1> DEFINE k == Top.of
           u == {t \in Classes \ {k} : Unmapped(t) /\ \E f \in FieldsOf(k, TRUE) : FieldOf(f).type = t}
           new == {[by |-> k, of |-> t, what |-> "staticBitmap"] : t \in u}
           bits == IF klass[k].staticSize >= PointerSize
                   THEN UNION {BitsOf(f) : f \in FieldsOf(k, TRUE)} ELSE {}
           r == [klass[k] EXCEPT !.staticBitmap = bits, !.done = TRUE]
<1>2. early' = early \cup new /\ UNCHANGED <<program, flagged, failed>> /\ calls' = Front(calls)
  BY DEF EndLayout
<1>3. new \in SUBSET Records
  <2>1. u \in SUBSET Classes
    OBVIOUS
  <2> HIDE DEF u
  <2> QED BY <1>1, <2>1 DEF Records
<1>4. early' \in SUBSET Records /\ early \subseteq early'
  BY <1>2, <1>3 DEF Context, TypeOK
<1>5. \A e \in new : e.by = k /\ e.what = "staticBitmap"
  <2> HIDE DEF u
  <2> QED OBVIOUS
<1>6. ASSUME NEW t \in Classes \ {k}, Unmapped(t), \E f \in FieldsOf(k, TRUE) : FieldOf(f).type = t
      PROVE  [by |-> k, of |-> t, what |-> "staticBitmap"] \in new
  BY <1>6
<1>7. klass[k] \in KlassType(k) /\ KlassesOK /\ (klass[k].sized => klass[k].alignment \in Widths)
  BY <1>1, KlassKnown DEF Context, TypeOK
<1>8. klass' = [klass EXCEPT ![k] = r]
  BY <1>7 DEF EndLayout, KlassesOK
<1>9. bits \in SUBSET Nat
  <2>1. ASSUME NEW f \in FieldsOf(k, TRUE) PROVE BitsOf(f) \in SUBSET Nat
    <3>1. f.class = k /\ f.index \in DOMAIN program[k].fields
      BY <1>1, FieldsOfClass DEF OwnFieldOf
    <3> QED BY <1>1, <3>1, BitsAreWords
  <2> QED BY <2>1
<1> HIDE DEF new, bits
<1>10. /\ r \in KlassType(k) /\ (r.sized => r.alignment \in Widths)
       /\ r.hasReferences = klass[k].hasReferences /\ r.sized = klass[k].sized
       /\ r.size = klass[k].size
       /\ r.alignment = klass[k].alignment /\ r.offsets = klass[k].offsets
       /\ r.bitmap = klass[k].bitmap /\ r.staticBitmap = bits
       /\ r.staticSize = klass[k].staticSize /\ r.done = TRUE
  BY <1>7, <1>9 DEF KlassType
<1> HIDE DEF r
<1>11. KlassesOK' /\ klass'[k] = r /\ \A t \in Classes : t # k => klass'[t] = klass[t]
  BY <1>1, <1>2, <1>7, <1>8, <1>10, Rewritten
<1>12. \A t \in Classes : ClassKept(t) /\ \A i \in DOMAIN program[t].fields : OffsetKept(t, i)
  BY <1>1, <1>10, <1>11 DEF ClassKept, OffsetKept
<1>13. Kept
  BY <1>2, <1>4, <1>12 DEF Kept
<1>14. calls' \in Seq(CallType)
  BY <1>1, <1>2, Popped DEF Context, TypeOK
<1>15. TypeOK'
  BY <1>2, <1>4, <1>11, <1>14 DEF Context, TypeOK
<1>16. \A t \in Classes : klass'[t].offsets = klass[t].offsets
  BY <1>10, <1>11
<1> QED BY <1>1, <1>2, <1>4, <1>5, <1>6, <1>10, <1>11, <1>13, <1>15, <1>16 DEF bits
------------------------------------------------------------------------------
(* The calls in progress.                                                  *)

Late == {"static", "bitmap", "staticBitmap"}

CallsDistinct == \A i, j \in DOMAIN calls : i # j => calls[i].of # calls[j].of
CallsOngoing ==
    \A i \in DOMAIN calls :
        /\ calls[i].of \in flagged \ failed
        /\ ~klass[calls[i].of].done
        /\ klass[calls[i].of].sized <=> calls[i].at \in Late
FlaggedKnown ==
    \A k \in flagged : klass[k].done \/ k \in failed \/ \E i \in DOMAIN calls : calls[i].of = k
StagesInOrder ==
    /\ \A k \in Classes : (klass[k].done => klass[k].sized) /\ (klass[k].sized => k \in flagged)
    /\ failed \subseteq flagged

(* A call waits for a part of its class, unless there is one between that  *)
(* goes through static fields.                                             *)
Waits(i, j) ==
    /\ calls[i].at \in {"parent", "references", "instance", "static"}
    /\ calls[i].at = "parent" \/ program[calls[j].of].struct
    /\ \/ calls[j].of \in Below(calls[i].of)
       \/ \E l \in i .. (j - 1) : calls[l].at = "static"
CallersWait == \A i, j \in DOMAIN calls : i < j => Waits(i, j)

StackOK == CallsDistinct /\ CallsOngoing /\ FlaggedKnown /\ StagesInOrder /\ CallersWait

LEMMA FieldTypesAreStructs ==
    ASSUME MetadataOK, NEW f, f.class \in Classes, f.index \in DOMAIN program[f.class].fields,
           FieldOf(f).type \in Classes
    PROVE  program[FieldOf(f).type].struct
<1>1. FieldOf(f) \in ToSet(program[f.class].fields)
  BY DEF FieldOf, ToSet
<1> QED BY <1>1, ValidProgram DEF Valid

LEMMA ParentsAreNotStructs ==
    ASSUME MetadataOK, NEW k \in Classes, Parent(k) # NoClass
    PROVE  ~program[k].struct /\ ~program[Parent(k)].struct
BY ValidProgram DEF Valid, Parent

LEMMA StackPushed ==
    ASSUME Context, StackOK, NEW k, Pushes(k)
    PROVE  StackOK'
<1> DEFINE n == Len(calls)
<1>1. /\ k \in Classes \ flagged /\ flagged' = flagged \cup {k}
      /\ UNCHANGED <<program, klass, early, failed>> /\ MetadataOK
  BY ContextMetadata DEF Pushes
<1>2. /\ n \in Nat /\ DOMAIN calls = 1 .. n /\ DOMAIN calls' = 1 .. (n + 1)
      /\ calls'[n + 1] = Call(k)
      /\ \A i \in DOMAIN calls : calls'[i] = calls[i] /\ calls[i] \in CallType
  BY <1>1, Pushed, SeqElements DEF Pushes, Context, TypeOK
<1>3. ~klass[k].sized /\ ~klass[k].done /\ k \notin failed
  BY <1>1 DEF StackOK, StagesInOrder
<1>4. Call(k).of = k /\ Call(k).at = "parent"
  BY DEF Call
<1>5. \A i \in 1 .. n : calls[i].of \in flagged
  BY <1>2 DEF StackOK, CallsOngoing
<1>6. n # 0 => Top = calls[n] /\ calls # <<>> /\ Top \in CallType /\ n \in DOMAIN calls
  BY <1>2 DEF Top
<1> HIDE DEF n
<1>7. \A i \in 1 .. (n + 1) : i \in 1 .. n \/ i = n + 1
  BY <1>2
<1>8. CallsDistinct'
  BY <1>1, <1>2, <1>4, <1>5, <1>7 DEF StackOK, CallsDistinct
<1>9. CallsOngoing'
  BY <1>1, <1>2, <1>3, <1>4, <1>7 DEF StackOK, CallsOngoing, Late
<1>10. FlaggedKnown'
  <2>1. n + 1 \in DOMAIN calls' /\ \A i \in DOMAIN calls : i \in DOMAIN calls'
    BY <1>2
  <2> QED BY <1>1, <1>2, <1>4, <2>1 DEF StackOK, FlaggedKnown
<1>11. StagesInOrder'
  BY <1>1 DEF StackOK, StagesInOrder
<1>12. ASSUME NEW i \in 1 .. (n + 1), NEW j \in 1 .. (n + 1), i < j PROVE Waits(i, j)'
  <2>1. i \in 1 .. n /\ calls'[i] = calls[i] /\ i \in DOMAIN calls /\ calls[i] \in CallType
    BY <1>2, <1>12
  <2>2. \A c \in Classes : Below(c)' = Below(c)
    BY <1>1, SameMetadata
  <2>3. CASE j \in 1 .. n
    <3>1. Waits(i, j) /\ calls'[j] = calls[j]
      BY <1>2, <1>12, <2>1, <2>3 DEF StackOK, CallersWait
    <3>2. \A l \in i .. (j - 1) : calls'[l] = calls[l]
      BY <1>2, <2>1, <2>3
    <3>3. calls[i].of \in Classes
      BY <2>1, CallFields
    <3> QED BY <1>1, <2>1, <2>2, <3>1, <3>2, <3>3 DEF Waits
  <2>4. CASE j = n + 1
    <3>1. n # 0 /\ calls'[j].of = k /\ n \in 1 .. n
      BY <1>2, <1>4, <2>1, <2>4
    <3>2. Top = calls[n] /\ calls # <<>> /\ Top \in CallType /\ n \in DOMAIN calls
      BY <1>6, <3>1
    <3>3. Top.of \in Classes /\ calls[i].of \in Classes
      BY <2>1, <3>2, CallFields
    <3>4. \/ Top.at = "parent" /\ k = Parent(Top.of) /\ k \in Below(Top.of) /\ ~program[Top.of].struct
          \/ /\ Top.at \in {"references", "instance", "static"}
             /\ program[k].struct /\ (Top.at # "static" => k \in Below(Top.of))
      <4>1. CASE At("parent") /\ k = Parent(Top.of)
        <5>1. Parent(Top.of) # NoClass
          BY <1>1, <3>3, <4>1, ParentsFounded
        <5> QED BY <1>1, <3>3, <4>1, <5>1, ParentBelow, ParentsAreNotStructs DEF At
      <4>2. CASE Visits /\ k = Type
        <5>1. calls # <<>> /\ AtField
          BY <4>2 DEF Visits
        <5>2. Field.class \in Classes /\ Field.index \in DOMAIN program[Field.class].fields
          BY <5>1, AtFieldKnown
        <5>3. Type = FieldOf(Field).type /\ program[Type].struct
          BY <1>1, <4>2, <5>1, <5>2, AtFieldKnown, FieldTypesAreStructs
        <5> QED BY <1>1, <4>2, <5>1, <5>3, AtFieldKnown
      <4> QED BY <3>2, <4>1, <4>2 DEF Pushes
    <3>5. n \in i .. (j - 1)
      BY <1>2, <2>1, <2>4
    <3>6. \A l \in i .. n : calls'[l] = calls[l]
      BY <1>2, <2>1
    <3>7. CASE i = n
      BY <1>1, <2>1, <2>2, <3>1, <3>2, <3>3, <3>4, <3>5, <3>7 DEF Waits
    <3>8. CASE i # n
      <4>1. Waits(i, n)
        <5>1. i < n
          BY <1>2, <2>1, <3>8
        <5> QED BY <2>1, <3>2, <5>1 DEF StackOK, CallersWait
      <4>2. calls[i].at = "parent" \/ program[k].struct
        BY <3>2, <3>4, <4>1 DEF Waits
      <4>3. CASE \E l \in i .. (n - 1) : calls[l].at = "static"
        <5>1. PICK l \in i .. (n - 1) : calls[l].at = "static"
          BY <4>3
        <5>2. l \in i .. (j - 1) /\ l \in i .. n
          BY <1>2, <2>1, <2>4
        <5>3. calls'[l].at = "static"
          BY <3>6, <5>1, <5>2
        <5> QED BY <1>1, <2>1, <3>1, <4>1, <4>2, <5>2, <5>3 DEF Waits
      <4>4. CASE calls[n].of \in Below(calls[i].of)
        <5>1. CASE Top.at = "static"
          BY <1>1, <2>1, <3>1, <3>2, <3>5, <3>6, <4>1, <4>2, <5>1 DEF Waits
        <5>2. CASE Top.at # "static"
          <6>1. k \in Below(calls[i].of)
            BY <3>2, <3>4, <4>4, <5>2, BelowTransitive
          <6> QED BY <1>1, <2>1, <2>2, <3>1, <3>3, <4>1, <4>2, <6>1 DEF Waits
        <5> QED BY <5>1, <5>2
      <4> QED BY <4>1, <4>3, <4>4 DEF Waits
    <3> QED BY <3>7, <3>8
  <2> QED BY <1>7, <2>3, <2>4
<1>13. CallersWait'
  BY <1>2, <1>12 DEF CallersWait
<1> QED BY <1>8, <1>9, <1>10, <1>11, <1>13 DEF StackOK

LEMMA StackFailed ==
    ASSUME Context, StackOK, Fails
    PROVE  StackOK'
<1>1. calls' = <<>> /\ DOMAIN calls' = {}
  BY DEF Fails, Fail
<1>2. CallsDistinct' /\ CallsOngoing' /\ CallersWait'
  BY <1>1 DEF CallsDistinct, CallsOngoing, CallersWait
<1>3. FlaggedKnown'
  BY DEF Fails, Fail, StackOK, FlaggedKnown
<1>4. StagesInOrder'
  <2>1. \A i \in DOMAIN calls : calls[i].of \in flagged
    BY DEF StackOK, CallsOngoing
  <2> QED BY <2>1 DEF Fails, Fail, StackOK, StagesInOrder
<1> QED BY <1>2, <1>3, <1>4 DEF StackOK

LEMMA StackContinued ==
    ASSUME Context, StackOK, Continues, Kept, UNCHANGED <<flagged, failed>>,
           ~At("staticBitmap"),
           klass[Top.of].sized => klass'[Top.of].sized,
           klass'[Top.of].sized <=> Top'.at \in Late
    PROVE  StackOK'
<1> DEFINE n == Len(calls)
<1>1. /\ n \in DOMAIN calls /\ Top = calls[n] /\ Top' = calls'[n] /\ Top'.of = Top.of
      /\ DOMAIN calls' = DOMAIN calls
      /\ \A i \in DOMAIN calls : i # n => calls'[i] = calls[i]
      /\ \A i \in DOMAIN calls : calls[i].of \in Classes
      /\ DOMAIN calls = 1 .. n /\ n \in Nat
  BY StackTop, CallFields DEF Context, TypeOK, Continues
<1>2. \A t \in Classes : /\ klass'[t].done = klass[t].done
                         /\ t # Top.of => klass'[t].sized = klass[t].sized
  BY DEF Kept, ClassKept
<1> HIDE DEF n
<1>3. \A i \in DOMAIN calls : calls'[i].of = calls[i].of
  BY <1>1
<1>4. CallsDistinct'
  BY <1>1, <1>3 DEF StackOK, CallsDistinct
<1>5. ASSUME NEW i \in DOMAIN calls
      PROVE  /\ calls'[i].of \in flagged' \ failed'
             /\ ~klass'[calls'[i].of].done
             /\ klass'[calls'[i].of].sized <=> calls'[i].at \in Late
  <2>1. calls[i].of \in flagged \ failed /\ ~klass[calls[i].of].done
    BY DEF StackOK, CallsOngoing
  <2>2. CASE i = n
    BY <1>1, <1>2, <2>1, <2>2
  <2>3. CASE i # n
    <3>1. calls[i].of # Top.of
      BY <1>1, <2>3 DEF StackOK, CallsDistinct
    <3> QED BY <1>1, <1>2, <2>1, <2>3, <3>1 DEF StackOK, CallsOngoing
  <2> QED BY <2>2, <2>3
<1>6. CallsOngoing'
  BY <1>1, <1>5 DEF CallsOngoing
<1>7. FlaggedKnown'
  <2>1. flagged \subseteq Classes
    BY DEF Context, TypeOK
  <2> QED BY <1>1, <1>2, <1>3, <2>1 DEF StackOK, FlaggedKnown
<1>8. StagesInOrder'
  <2>1. \A t \in Classes : klass'[t].sized => t \in flagged
    <3>1. Top.of \in flagged
      BY <1>1 DEF StackOK, CallsOngoing
    <3> QED BY <1>2, <3>1 DEF StackOK, StagesInOrder
  <2>2. \A t \in Classes : klass'[t].done => klass'[t].sized
    BY <1>2 DEF StackOK, StagesInOrder
  <2> QED BY <2>1, <2>2 DEF StackOK, StagesInOrder
<1>9. ASSUME NEW i \in DOMAIN calls, NEW j \in DOMAIN calls, i < j PROVE Waits(i, j)'
  <2>1. Waits(i, j)
    BY <1>9 DEF StackOK, CallersWait
  <2>2. i # n
    BY <1>1, <1>9
  <2>3. \A l \in i .. (j - 1) : l \in DOMAIN calls /\ l # n
    BY <1>1, <1>9
  <2>4. \A c \in Classes : Below(c)' = Below(c)
    BY SameMetadata DEF Kept
  <2>5. calls'[i] = calls[i] /\ calls'[j].of = calls[j].of /\ calls[i].of \in Classes
    BY <1>1, <1>3, <2>2
  <2>6. \A l \in i .. (j - 1) : calls'[l] = calls[l]
    BY <1>1, <2>3
  <2>7. program' = program
    BY DEF Kept
  <2> QED BY <2>1, <2>4, <2>5, <2>6, <2>7 DEF Waits
<1>10. CallersWait'
  BY <1>1, <1>9 DEF CallersWait
<1> QED BY <1>4, <1>6, <1>7, <1>8, <1>10 DEF StackOK

LEMMA StackPopped ==
    ASSUME Context, StackOK, EndLayout
    PROVE  StackOK'
<1> DEFINE n == Len(calls)
<1>1. /\ Kept /\ UNCHANGED <<flagged, failed>> /\ At("staticBitmap") /\ calls # <<>>
      /\ Top \in CallType /\ klass'[Top.of].done /\ calls' = Front(calls)
  BY EndLayoutStep
<1>2. /\ n \in DOMAIN calls /\ Top = calls[n] /\ n \in Nat /\ DOMAIN calls = 1 .. n
      /\ DOMAIN calls' = 1 .. (n - 1)
      /\ \A i \in DOMAIN calls' : calls'[i] = calls[i] /\ i \in DOMAIN calls /\ i # n
      /\ \A i \in DOMAIN calls : calls[i].of \in Classes
  BY <1>1, StackTop, CallFields, Popped DEF Context, TypeOK
<1>3. \A t \in Classes : /\ klass'[t].sized = klass[t].sized
                         /\ t # Top.of => klass'[t].done = klass[t].done
  BY <1>1 DEF Kept, ClassKept, At
<1>4. \A i \in DOMAIN calls : i # n => i \in DOMAIN calls'
  <2> HIDE DEF n
  <2> QED BY <1>2
<1> HIDE DEF n
<1>5. CallsDistinct'
  BY <1>2 DEF StackOK, CallsDistinct
<1>6. ASSUME NEW i \in DOMAIN calls'
      PROVE  /\ calls'[i].of \in flagged' \ failed'
             /\ ~klass'[calls'[i].of].done
             /\ klass'[calls'[i].of].sized <=> calls'[i].at \in Late
  <2>1. calls[i].of # Top.of
    BY <1>2 DEF StackOK, CallsDistinct
  <2> QED BY <1>1, <1>2, <1>3, <2>1 DEF StackOK, CallsOngoing
<1>7. CallsOngoing'
  BY <1>6 DEF CallsOngoing
<1>8. FlaggedKnown'
  <2>1. ASSUME NEW k \in flagged, ~klass'[k].done, k \notin failed
        PROVE  \E i \in DOMAIN calls' : calls'[i].of = k
    <3>1. k \in Classes /\ k # Top.of
      BY <1>1, <2>1 DEF Context, TypeOK
    <3>2. ~klass[k].done
      BY <1>3, <2>1, <3>1
    <3>3. PICK i \in DOMAIN calls : calls[i].of = k
      BY <2>1, <3>2 DEF StackOK, FlaggedKnown
    <3>4. i \in DOMAIN calls'
      BY <1>2, <1>4, <3>1, <3>3
    <3> QED BY <1>2, <3>3, <3>4
  <2> QED BY <1>1, <2>1 DEF FlaggedKnown
<1>9. StagesInOrder'
  <2>1. klass[Top.of].sized
    BY <1>1, <1>2 DEF StackOK, CallsOngoing, Late, At
  <2>2. Top.of \in Classes
    BY <1>2
  <2> QED BY <1>1, <1>3, <2>1, <2>2 DEF StackOK, StagesInOrder
<1>10. ASSUME NEW i \in DOMAIN calls', NEW j \in DOMAIN calls', i < j PROVE Waits(i, j)'
  <2>1. Waits(i, j) /\ calls[i].of \in Classes /\ calls'[i] = calls[i] /\ calls'[j] = calls[j]
    BY <1>2, <1>10 DEF StackOK, CallersWait
  <2>2. \A l \in i .. (j - 1) : calls'[l] = calls[l]
    <3>1. \A l \in i .. (j - 1) : l \in DOMAIN calls'
      BY <1>2, <1>10
    <3> QED BY <1>2, <3>1
  <2>3. \A c \in Classes : Below(c)' = Below(c)
    BY <1>1, SameMetadata DEF Kept
  <2>4. program' = program
    BY <1>1 DEF Kept
  <2> QED BY <2>1, <2>2, <2>3, <2>4 DEF Waits
<1>11. CallersWait'
  BY <1>10 DEF CallersWait
<1> QED BY <1>5, <1>7, <1>8, <1>9, <1>11 DEF StackOK

LEMMA NextKept ==
    ASSUME Context, StackOK, Next
    PROVE  TypeOK' /\ Kept /\ StackOK'
<1>1. ASSUME NEW p \in Points, At(p) PROVE calls # <<>> /\ Top.at = p /\ (klass[Top.of].sized <=> p \in Late)
  <2>1. Len(calls) \in DOMAIN calls /\ Top = calls[Len(calls)]
    BY <1>1, StackTop DEF Context, TypeOK, At
  <2> QED BY <1>1, <2>1 DEF StackOK, CallsOngoing, At
<1>2. \A p \in Points : At(p) => (klass[Top.of].sized <=> p \in Late)
  BY <1>1
<1>3. ASSUME Continues PROVE Top.of \in Classes
  BY <1>3, CallFields DEF Continues
<1>4. CASE (\E k \in Classes : Initialize(k)) \/ EnterParent \/ EnterFieldType
  <2>1. PICK k : Pushes(k)
    BY <1>4, EnterSteps
  <2> QED BY <2>1, PushStep, StackPushed
<1>5. CASE TypeMissing \/ OffsetMissing
  <2>1. Fails /\ early' \in SUBSET Records
    BY <1>5, FailSteps
  <2> QED BY <2>1, FailStep, StackFailed
<1>6. CASE StartLayout
  <2>1. /\ TypeOK' /\ Kept /\ Continues /\ UNCHANGED klass /\ UNCHANGED <<flagged, failed>>
        /\ At("parent") /\ Top'.at = "references"
    BY <1>6, StartLayoutStep
  <2> QED BY <1>2, <2>1, StackContinued DEF Points, Late, At
<1>7. CASE LookForReference
  <2>1. /\ TypeOK' /\ Kept /\ Continues /\ UNCHANGED klass /\ UNCHANGED <<flagged, failed>>
        /\ At("references") /\ Top'.at = "references"
    BY <1>7, LookForReferenceStep
  <2> QED BY <1>2, <2>1, StackContinued DEF Points, Late, At
<1>8. CASE StartInstance
  <2>1. /\ TypeOK' /\ Kept /\ Continues /\ UNCHANGED <<flagged, failed>>
        /\ At("references") /\ Top'.at = "instance"
    BY <1>8, StartInstanceStep
  <2>2. klass'[Top.of].sized = klass[Top.of].sized
    BY <1>3, <2>1 DEF Kept, ClassKept, At
  <2> QED BY <1>2, <2>1, <2>2, StackContinued DEF Points, Late, At
<1>9. CASE PlaceInstanceField
  <2>1. Placing(FieldAlignment(Top.of, Type)) /\ At("instance") /\ Ready
    BY <1>9, PlaceInstanceFieldStep
  <2>2. /\ TypeOK' /\ Kept /\ Continues /\ UNCHANGED <<flagged, failed>> /\ Top'.at = "instance"
    BY <2>1 DEF Placing, At
  <2>3. klass'[Top.of].sized = klass[Top.of].sized
    <3>1. UNCHANGED klass \/ klass' = [klass EXCEPT ![Field.class].offsets[Field.index] = FieldOf(Field).at]
              \/ klass' = [klass EXCEPT ![Field.class].offsets[Field.index] = AlignUp(Top.end, FieldAlignment(Top.of, Type))]
      BY <1>9 DEF PlaceInstanceField, PlaceField, PlaceExplicitly
    <3>2. /\ KlassesOK /\ program' = program /\ Field.class \in Classes
          /\ Field.index \in DOMAIN program[Field.class].fields
      BY <2>1, <2>2, AtFieldKnown DEF Context, TypeOK, Kept, Ready, Visits
    <3> QED BY <1>3, <2>2, <3>1, <3>2 DEF KlassesOK, KlassType
  <2> QED BY <1>2, <2>1, <2>2, <2>3, StackContinued DEF Points, Late, At
<1>10. CASE EndInstance
  <2>1. /\ TypeOK' /\ Kept /\ Continues /\ UNCHANGED <<flagged, failed, early>>
        /\ At("instance") /\ Top'.at = "static" /\ klass'[Top.of].sized
    BY <1>10, EndInstanceStep
  <2> QED BY <1>2, <2>1, StackContinued DEF Points, Late, At
<1>11. CASE PlaceStaticField
  <2>1. Placing(AlignmentOf(Type)) /\ At("static")
    BY <1>11, PlaceStaticFieldStep
  <2>2. /\ TypeOK' /\ Kept /\ Continues /\ UNCHANGED <<flagged, failed>> /\ Top'.at = "static"
    BY <2>1 DEF Placing, At
  <2>3. klass'[Top.of].sized = klass[Top.of].sized
    BY <1>3, <2>1, <2>2 DEF Kept, ClassKept, At
  <2> QED BY <1>2, <2>1, <2>2, <2>3, StackContinued DEF Points, Late, At
<1>12. CASE EndStatic
  <2>1. /\ TypeOK' /\ Kept /\ Continues /\ UNCHANGED <<flagged, failed, early>>
        /\ At("static") /\ Top'.at = "bitmap"
    BY <1>12, EndStaticStep
  <2>2. klass'[Top.of].sized = klass[Top.of].sized
    BY <1>3, <2>1 DEF Kept, ClassKept, At
  <2> QED BY <1>2, <2>1, <2>2, StackContinued DEF Points, Late, At
<1>13. CASE Bitmap
  <2>1. CASE Fails
    <3>1. early' \in SUBSET Records
      BY <1>13, BitmapStep
    <3> QED BY <2>1, <3>1, FailStep, StackFailed
  <2>2. CASE ~Fails
    <3>1. /\ TypeOK' /\ Kept /\ Continues /\ UNCHANGED <<flagged, failed>>
          /\ At("bitmap") /\ Top'.at = "staticBitmap"
      BY <1>13, <2>2, BitmapStep
    <3>2. klass'[Top.of].sized = klass[Top.of].sized
      BY <1>3, <3>1 DEF Kept, ClassKept, At
    <3> QED BY <1>2, <3>1, <3>2, StackContinued DEF Points, Late, At
  <2> QED BY <2>1, <2>2
<1>14. CASE EndLayout
  BY <1>14, EndLayoutStep, StackPopped
<1> QED BY <1>4, <1>5, <1>6, <1>7, <1>8, <1>9, <1>10, <1>11, <1>12, <1>13, <1>14 DEF Next

(* EarlyOnlyBelowStatics, from the order in which the calls wait *)
LEMMA EarlyExplained ==
    ASSUME Context, StackOK
    PROVE  EarlyOnlyBelowStatics
<1>1. MetadataOK
  BY ContextMetadata
<1> DEFINE n == Len(calls)
<1>2. ASSUME calls # <<>>
      PROVE  /\ n \in DOMAIN calls /\ Top = calls[n] /\ Top.of \in Classes /\ n \in Nat
             /\ \A i \in DOMAIN calls : i \in Nat /\ (i < n \/ i = n) /\ calls[i].of \in Classes
  <2>1. /\ n \in DOMAIN calls /\ Top = calls[n] /\ Top.of \in Classes /\ n \in Nat
        /\ DOMAIN calls = 1 .. n /\ \A i \in DOMAIN calls : calls[i].of \in Classes
    BY <1>2, StackTop, CallFields DEF Context, TypeOK
  <2> HIDE DEF n
  <2> QED BY <2>1
<1> HIDE DEF n
<1>3. ASSUME NEW t \in flagged, ~klass[t].sized, t \notin failed
      PROVE  \E i \in DOMAIN calls : calls[i].of = t /\ calls[i].at \notin Late
  <2>1. t \in Classes /\ ~klass[t].done
    BY <1>3 DEF Context, TypeOK, StackOK, StagesInOrder
  <2>2. PICK i \in DOMAIN calls : calls[i].of = t
    BY <1>3, <2>1 DEF StackOK, FlaggedKnown
  <2> QED BY <1>3, <2>2 DEF StackOK, CallsOngoing
<1>4. ASSUME At("parent"), Parent(Top.of) \in flagged, ~klass[Parent(Top.of)].sized,
             Parent(Top.of) \notin failed
      PROVE  FALSE
  <2> DEFINE p == Parent(Top.of)
  <2>1. calls # <<>> /\ Top.at = "parent" /\ p \in Classes
    BY <1>4 DEF At, Context, TypeOK
  <2>2. PICK i \in DOMAIN calls : calls[i].of = p
    BY <1>3, <1>4
  <2>3. p # NoClass
    BY <1>1, <2>1, ParentsFounded
  <2>4. p \in Below(Top.of) /\ ~program[Top.of].struct
    BY <1>1, <1>2, <2>1, <2>3, ParentBelow, ParentsAreNotStructs
  <2>5. CASE i = n
    BY <1>1, <1>2, <2>1, <2>2, <2>4, <2>5, BelowIrreflexive
  <2>6. CASE i < n
    <3>1. Waits(i, n)
      BY <1>2, <2>1, <2>6 DEF StackOK, CallersWait
    <3>2. ASSUME NEW l \in i .. (n - 1) PROVE calls[l].at = "parent"
      <4>1. l \in DOMAIN calls /\ l < n
        <5>1. DOMAIN calls = 1 .. Len(calls) /\ Len(calls) \in Nat
          BY <2>1, StackTop DEF Context, TypeOK
        <5> QED BY <2>6, <5>1 DEF n
      <4>2. Waits(l, n)
        BY <1>2, <2>1, <4>1 DEF StackOK, CallersWait
      <4> QED BY <1>2, <2>1, <2>4, <4>2 DEF Waits
    <3>3. Top.of \in Below(p)
      BY <1>2, <2>1, <2>2, <3>1, <3>2 DEF Waits
    <3>4. p \in Below(p)
      BY <2>4, <3>3, BelowTransitive
    <3> QED BY <1>1, <2>1, <3>4, BelowIrreflexive
  <2> QED BY <1>2, <2>1, <2>5, <2>6
<1>5. ASSUME Visits, Type \in flagged, ~klass[Type].sized, Type \notin failed
      PROVE  \E i \in DOMAIN calls : calls[i].of = Type /\ \E j \in i .. Len(calls) : calls[j].at = "static"
  <2>1. calls # <<>> /\ AtField /\ Type \in Classes
    BY <1>5 DEF Visits, Context, TypeOK
  <2>2. PICK i \in DOMAIN calls : calls[i].of = Type
    BY <1>3, <1>5
  <2>3. n \in i .. Len(calls)
    BY <1>2, <2>1 DEF n
  <2>4. CASE Top.at = "static"
    BY <1>2, <2>1, <2>2, <2>3, <2>4
  <2>5. CASE Top.at # "static"
    <3>1. Type \in Below(Top.of)
      BY <2>1, <2>5, AtFieldKnown
    <3>2. i # n
      BY <1>1, <1>2, <2>1, <2>2, <3>1, BelowIrreflexive
    <3>3. Waits(i, n)
      BY <1>2, <2>1, <3>2 DEF StackOK, CallersWait
    <3>4. ~(Top.of \in Below(Type))
      <4>1. Type \notin Below(Type)
        BY <1>1, <2>1, BelowIrreflexive
      <4> QED BY <3>1, <4>1, BelowTransitive
    <3>5. PICK l \in i .. (n - 1) : calls[l].at = "static"
      BY <1>2, <2>1, <2>2, <3>3, <3>4 DEF Waits
    <3>6. l \in i .. Len(calls)
      BY <1>2, <2>1, <3>5 DEF n
    <3> QED BY <2>2, <3>5, <3>6
  <2> QED BY <2>4, <2>5
<1> QED BY <1>4, <1>5 DEF EarlyOnlyBelowStatics
------------------------------------------------------------------------------
(* Where the fields are: what is known of a class that has been laid out   *)
(* and of the calls, as far as they have come.                             *)

Record(k, t, what) == [by |-> k, of |-> t, what |-> what]
Clean(k, what) == ~ReadEarly(k, what)
TypeOf(f) == FieldOf(f).type
TypeKnown(f) == TypeOf(f) \in FieldTypes /\ (Struct(TypeOf(f)) => klass[TypeOf(f)].sized)
EndOf(f) == OffsetOf(f) + SizeOf(TypeOf(f))
EndBefore(k, i) == IF i = 1 THEN 0 ELSE EndOf(InstanceFields[k][i - 1])

(* Instance field i of class k, where the fields end at e *)
FieldLaid(k, i, e) ==
    LET f == InstanceFields[k][i] IN
        /\ TypeKnown(f)
        /\ Computed(k) =>
               /\ OffsetOf(f) = AlignUp(EndBefore(k, i), FieldAlignment(k, TypeOf(f)))
               /\ \A j \in DOMAIN InstanceFields[k] :
                      j < i => EndOf(InstanceFields[k][j]) <= OffsetOf(f)
        /\ (Computed(k) \/ program[k].explicit \/ f.class = k) => EndOf(f) <= e
        /\ f.class = k /\ ~program[k].explicit =>
               OffsetOf(f) % FieldAlignment(k, TypeOf(f)) = 0

AsDeclared(f) == OffsetOf(f) = FieldOf(f).at

(* What the class has taken over from its parent was there, or the parent  *)
(* is on record.                                                           *)
ParentRead(k) ==
    \/ Parent(k) = NoClass
    \/ klass[Parent(k)].sized
    \/ \A w \in {"references", "instance"} : Record(k, Parent(k), w) \in early

LaidClass(k) ==
    klass[k].sized =>
        /\ ParentRead(k)
        /\ program[k].explicit => \A f \in FieldsOf(k, FALSE) : AsDeclared(f)
        /\ Clean(k, {"instance"}) =>
               \A i \in DOMAIN InstanceFields[k] : FieldLaid(k, i, klass[k].size)

LaidCall(x) ==
    /\ x.at # "parent" => ParentRead(x.of)
    /\ x.at = "instance" =>
           /\ program[x.of].explicit =>
                  \A i \in DOMAIN InstanceFields[x.of] :
                      i < x.next /\ InstanceFields[x.of][i].class = x.of =>
                          AsDeclared(InstanceFields[x.of][i])
           /\ Clean(x.of, {"instance"}) =>
                  /\ \A i \in DOMAIN InstanceFields[x.of] :
                         i < x.next => FieldLaid(x.of, i, x.end)
                  /\ Computed(x.of) /\ x.next \in DOMAIN InstanceFields[x.of] =>
                         x.end = EndBefore(x.of, x.next)

Statics(k) == Own(k, TRUE)

(* Static field i of class k *)
StaticLaid(k, i, e) ==
    /\ TypeKnown(Statics(k)[i])
    /\ EndOf(Statics(k)[i]) <= e
    /\ \A j \in DOMAIN Statics(k) : j < i => EndOf(Statics(k)[j]) <= OffsetOf(Statics(k)[i])

StaticsLaid(k) ==
    Clean(k, {"static"}) => \A i \in DOMAIN Statics(k) : StaticLaid(k, i, klass[k].staticSize)

StaticClass(k) == klass[k].done => StaticsLaid(k)

StaticCall(x) ==
    /\ x.at \in {"bitmap", "staticBitmap"} => StaticsLaid(x.of)
    /\ x.at = "static" /\ Clean(x.of, {"static"}) =>
           \A i \in DOMAIN Statics(x.of) : i < x.next => StaticLaid(x.of, i, x.end)

FieldsLaid ==
    /\ \A k \in Classes : LaidClass(k) /\ StaticClass(k)
    /\ \A n \in DOMAIN calls : LaidCall(calls[n]) /\ StaticCall(calls[n])

(* A class on its way to "static" has no size; what has one keeps it.      *)
LEMMA TopOngoing ==
    ASSUME Context, StackOK, calls # <<>>
    PROVE  /\ Top \in CallType /\ Top.of \in Classes
           /\ Len(calls) \in DOMAIN calls /\ Top = calls[Len(calls)]
           /\ klass[Top.of].sized <=> Top.at \in Late
           /\ ~klass[Top.of].done
           /\ \A n \in DOMAIN calls : /\ calls[n] \in CallType
                                      /\ n # Len(calls) => calls[n].of # Top.of
<1>1. /\ Top \in CallType /\ Len(calls) \in DOMAIN calls /\ Top = calls[Len(calls)]
      /\ \A n \in DOMAIN calls : calls[n] \in CallType
  BY StackTop DEF Context, TypeOK
<1>2. Top.of \in Classes
  BY <1>1, CallFields
<1>3. (klass[Top.of].sized <=> Top.at \in Late) /\ ~klass[Top.of].done
  BY <1>1 DEF StackOK, CallsOngoing
<1>4. \A n \in DOMAIN calls : n # Len(calls) => calls[n].of # Top.of
  BY <1>1 DEF StackOK, CallsDistinct
<1> QED BY <1>1, <1>2, <1>3, <1>4

LEMMA SizedStays ==
    ASSUME Context, StackOK, Kept, NEW t \in Classes, klass[t].sized
    PROVE  /\ klass'[t].sized
           /\ klass'[t].size = klass[t].size /\ klass'[t].alignment = klass[t].alignment
           /\ klass'[t].hasReferences = klass[t].hasReferences
<1>1. ~(At("instance") /\ t = Top.of) /\ ~(At("references") /\ t = Top.of)
  BY TopOngoing DEF At, Late
<1> QED BY <1>1 DEF Kept, ClassKept

LEMMA NewlySized ==
    ASSUME Context, StackOK, Kept, NEW t \in Classes, ~klass[t].sized, klass'[t].sized
    PROVE  At("instance") /\ t = Top.of
<1>1. klass[t].sized \in BOOLEAN
  BY KlassKnown DEF Context, TypeOK
<1> QED BY <1>1 DEF Kept, ClassKept

LEMMA CleanBefore ==
    ASSUME Kept, NEW k, NEW what, Clean(k, what)'
    PROVE  Clean(k, what)
<1>1. Ancestry' = Ancestry /\ early \subseteq early'
  BY SameMetadata DEF Kept
<1> QED BY <1>1 DEF Clean, ReadEarly

LEMMA ParentReadStays ==
    ASSUME Context, StackOK, Kept, NEW k \in Classes, ParentRead(k)
    PROVE  ParentRead(k)'
<1>1. MetadataOK
  BY ContextMetadata
<1>2. Parent(k)' = Parent(k) /\ (Parent(k) = NoClass \/ Parent(k) \in Classes)
  BY <1>1, SameMetadata, ParentsFounded DEF Kept
<1>3. klass[Parent(k)].sized /\ Parent(k) # NoClass => klass'[Parent(k)].sized
  BY <1>2, SizedStays
<1>4. \A w : Record(k, Parent(k), w)' = Record(k, Parent(k), w)
  BY <1>2 DEF Record
<1> QED BY <1>2, <1>3, <1>4 DEF ParentRead, Kept

(* The ancestors of a class had their size when it took their fields over. *)
LEMMA AncestorsSized ==
    ASSUME MetadataOK, \A k \in Classes : klass[k].sized => ParentRead(k),
           NEW what, NEW w \in {"references", "instance"}, w \in what
    PROVE  \A k \in Classes : ParentRead(k) /\ Clean(k, what) =>
               \A c \in Ancestry[k] : /\ c = k \/ klass[c].sized
                                      /\ Clean(c, what)
<1> DEFINE Fine(k) == ParentRead(k) /\ Clean(k, what) =>
                          \A c \in Ancestry[k] : c = k \/ klass[c].sized
           S == {k \in Classes : ~Fine(k)}
<1>1. \A k \in Classes : Clean(k, what) => \A c \in Ancestry[k] : Clean(c, what)
  BY AncestryFacts DEF Clean, ReadEarly
<1>2. SUFFICES ASSUME S # {} PROVE FALSE
  <2> HIDE DEF Fine
  <2>1. \A k \in Classes : Fine(k)
    BY <1>2
  <2> QED BY <1>1, <2>1 DEF Fine
<1>3. PICK k \in S : Parent(k) \notin S
  <2> HIDE DEF Fine
  <2>1. S \in (SUBSET Classes) \ {{}}
    BY <1>2
  <2> HIDE DEF S
  <2> QED BY <2>1, ParentsFounded
<1>4. k \in Classes /\ ~Fine(k)
  <2> HIDE DEF Fine
  <2> QED BY <1>3
<1>5. Ancestry[k] = {k} \cup IF Parent(k) = NoClass THEN {} ELSE Ancestry[Parent(k)]
  BY <1>4, AncestryUnfolded
<1>6. CASE Parent(k) = NoClass
  BY <1>4, <1>5, <1>6
<1>7. CASE Parent(k) # NoClass
  <2> DEFINE p == Parent(k)
  <2>1. p \in Classes /\ Ancestry[k] = {k} \cup Ancestry[p] /\ k \in Ancestry[k] /\ p \in Ancestry[p]
    BY <1>4, <1>5, <1>7, ParentsFounded, AncestryFacts
  <2>2. klass[p].sized
    <3>1. Record(k, p, w) \notin early
      BY <1>4, <2>1 DEF Clean, ReadEarly, Record
    <3> QED BY <1>4, <1>7, <3>1 DEF ParentRead
  <2>3. ParentRead(p) /\ Clean(p, what)
    <3>1. Clean(k, what)
      BY <1>4
    <3> HIDE DEF p
    <3> QED BY <1>1, <1>4, <2>1, <2>2, <3>1
  <2>4. Fine(p)
    <3> HIDE DEF Fine
    <3> QED BY <1>3, <2>1
  <2>5. \A c \in Ancestry[k] : c = k \/ klass[c].sized
    <3> HIDE DEF p
    <3> QED BY <2>1, <2>2, <2>3, <2>4
  <2> QED BY <1>4, <2>5
<1> QED BY <1>6, <1>7

LEMMA OwnAreInstance ==
    ASSUME MetadataOK, NEW k \in Classes
    PROVE  /\ \A f \in FieldsOf(k, FALSE) :
                  \E i \in DOMAIN InstanceFields[k] : InstanceFields[k][i] = f /\ f.class = k
           /\ \A i \in DOMAIN InstanceFields[k] :
                  InstanceFields[k][i].class = k => InstanceFields[k][i] \in FieldsOf(k, FALSE)
<1> DEFINE m == Len(Inherited(k))
           n == Len(Own(k, FALSE))
           Own_ == Own(k, FALSE)
<1>1. ASSUME NEW f \in FieldsOf(k, FALSE)
      PROVE  \E i \in DOMAIN InstanceFields[k] : InstanceFields[k][i] = f /\ f.class = k
  <2>1. f.class = k /\ \E i \in DOMAIN Own_ : f = Own_[i]
    BY FieldsOfClass DEF OwnFieldOf
  <2>2. PICK i \in DOMAIN Own_ : f = Own_[i]
    BY <2>1
  <2>3. /\ m \in Nat /\ n \in Nat /\ DOMAIN Own_ = 1 .. n
        /\ DOMAIN InstanceFields[k] = 1 .. (m + n)
        /\ \A j \in 1 .. (m + n) : j > m => InstanceFields[k][j] = Own_[j - m]
    BY Inherits, OwnField
  <2> HIDE DEF m, n, Own_
  <2>4. m + i \in 1 .. (m + n) /\ m + i > m /\ (m + i) - m = i
    BY <2>2, <2>3
  <2>5. InstanceFields[k][m + i] = Own_[(m + i) - m]
    BY <2>3, <2>4
  <2> QED BY <2>1, <2>2, <2>3, <2>4, <2>5
<1>2. ASSUME NEW i \in DOMAIN InstanceFields[k], InstanceFields[k][i].class = k
      PROVE  InstanceFields[k][i] \in FieldsOf(k, FALSE)
  BY <1>2, InstanceField DEF InstanceFieldOf
<1> QED BY <1>1, <1>2

(* The field the top of the stack is at has an offset written. *)
Writes(point, f) == At(point) /\ AtField /\ Field = f /\ Top.of = f.class

LEMMA OffsetStays ==
    ASSUME Context, Kept, NEW k \in Classes, NEW f \in FieldsOf(k, FALSE),
           program[k].explicit => AsDeclared(f), ~Writes("instance", f)
    PROVE  OffsetOf(f)' = OffsetOf(f)
<1>1. MetadataOK
  BY ContextMetadata
<1>2. /\ f \in Ref /\ f.class = k /\ f.index \in DOMAIN program[k].fields
      /\ FieldOf(f).static = FALSE
  BY <1>1, FieldsOfClass DEF OwnFieldOf
<1>3. OffsetKept(k, f.index)
  BY <1>2 DEF Kept
<1>4. SUFFICES ASSUME klass'[k].offsets[f.index] # klass[k].offsets[f.index] PROVE FALSE
  BY <1>2 DEF OffsetOf
<1>5. /\ calls # <<>> /\ AtField /\ k = Field.class /\ f.index = Field.index
      /\ \/ k = Top.of /\ Top.at \in {"instance", "static"}
         \/ /\ Top.at = "instance" /\ program[k].explicit
            /\ klass'[k].offsets[f.index] = program[k].fields[f.index].at
  BY <1>3, <1>4 DEF OffsetKept
<1>6. Field \in Ref /\ (Top.at = "static" => FieldOf(Field).static = TRUE)
  BY <1>5, AtFieldKnown
<1>7. Field = f
  BY <1>2, <1>5, <1>6 DEF Ref
<1>8. Top.at # "static"
  BY <1>2, <1>6, <1>7
<1>9. Top.at = "instance" /\ Top.of # k
  BY <1>2, <1>5, <1>7, <1>8 DEF Writes, At
<1>10. klass[k].offsets[f.index] = program[k].fields[f.index].at
  BY <1>2, <1>5, <1>9 DEF AsDeclared, OffsetOf, FieldOf
<1> QED BY <1>4, <1>5, <1>9, <1>10

LEMMA StaticOffsetStays ==
    ASSUME Context, Kept, NEW k \in Classes, NEW f \in FieldsOf(k, TRUE), ~Writes("static", f)
    PROVE  OffsetOf(f)' = OffsetOf(f)
<1>1. MetadataOK
  BY ContextMetadata
<1>2. /\ f \in Ref /\ f.class = k /\ f.index \in DOMAIN program[k].fields
      /\ FieldOf(f).static = TRUE
  BY <1>1, FieldsOfClass DEF OwnFieldOf
<1>3. OffsetKept(k, f.index)
  BY <1>2 DEF Kept
<1>4. SUFFICES ASSUME klass'[k].offsets[f.index] # klass[k].offsets[f.index] PROVE FALSE
  BY <1>2 DEF OffsetOf
<1>5. /\ calls # <<>> /\ AtField /\ k = Field.class /\ f.index = Field.index
      /\ \/ k = Top.of /\ Top.at \in {"instance", "static"}
         \/ Top.at = "instance"
  BY <1>3, <1>4 DEF OffsetKept
<1>6. Field \in Ref /\ (Top.at # "static" => FieldOf(Field).static = FALSE)
  BY <1>5, AtFieldKnown
<1>7. Field = f
  BY <1>2, <1>5, <1>6 DEF Ref
<1>8. Top.at = "static" /\ Top.of = k
  BY <1>2, <1>5, <1>6, <1>7
<1> QED BY <1>2, <1>5, <1>7, <1>8 DEF Writes, At

LEMMA TypeStays ==
    ASSUME Context, StackOK, Kept, NEW f, TypeKnown(f)
    PROVE  /\ TypeKnown(f)' /\ TypeOf(f)' = TypeOf(f)
           /\ SizeOf(TypeOf(f))' = SizeOf(TypeOf(f))
           /\ AlignmentOf(TypeOf(f))' = AlignmentOf(TypeOf(f))
<1> DEFINE t == TypeOf(f)
<1>1. t' = t
  BY SameMetadata DEF TypeOf, Kept
<1>2. CASE t \in Classes
  <2>1. /\ klass'[t].sized /\ klass'[t].size = klass[t].size
        /\ klass'[t].alignment = klass[t].alignment
    BY <1>2, SizedStays DEF TypeKnown, Struct
  <2>2. SizeOf(t)' = klass'[t].size /\ SizeOf(t) = klass[t].size
    BY <1>1, <1>2 DEF SizeOf, Struct
  <2>3. AlignmentOf(t)' = klass'[t].alignment /\ AlignmentOf(t) = klass[t].alignment
    BY <1>1, <1>2 DEF AlignmentOf, Struct
  <2>4. TypeKnown(f)'
    BY <1>1, <1>2, <2>1 DEF TypeKnown, FieldTypes, Primitives, Struct
  <2> QED BY <1>1, <2>1, <2>2, <2>3, <2>4
<1>3. CASE t \notin Classes
  <2>1. SizeOf(t)' = Primitives[t]' /\ SizeOf(t) = Primitives[t]
    BY <1>1, <1>3 DEF SizeOf, Struct
  <2>2. AlignmentOf(t)' = Primitives[t]' /\ AlignmentOf(t) = Primitives[t]
    BY <1>1, <1>3 DEF AlignmentOf, Struct
  <2>3. Primitives[t]' = Primitives[t]
    BY <1>1 DEF Primitives
  <2>4. TypeKnown(f)'
    BY <1>1, <1>3 DEF TypeKnown, FieldTypes, Primitives, Struct
  <2> QED BY <1>1, <2>1, <2>2, <2>3, <2>4
<1> QED BY <1>2, <1>3

LEMMA EndStays ==
    ASSUME Context, StackOK, Kept, NEW f, TypeKnown(f), OffsetOf(f)' = OffsetOf(f)
    PROVE  EndOf(f)' = EndOf(f)
<1>1. TypeOf(f)' = TypeOf(f) /\ SizeOf(TypeOf(f))' = SizeOf(TypeOf(f))
  BY TypeStays
<1> QED BY <1>1 DEF EndOf

LEMMA AlignmentStays ==
    ASSUME Context, StackOK, Kept, NEW k \in Classes, NEW f, TypeKnown(f),
           klass'[k].hasReferences = klass[k].hasReferences
    PROVE  FieldAlignment(k, TypeOf(f))' = FieldAlignment(k, TypeOf(f))
<1>1. AlignmentOf(TypeOf(f))' = AlignmentOf(TypeOf(f))
  BY TypeStays
<1>2. Packing(k)' = Packing(k)
  BY DEF Packing, IsValueClass, Kept
<1> QED BY <1>1, <1>2 DEF FieldAlignment

(* Numbers of fields, from the first one on *)
Numbers(D) ==
    \A i \in D : /\ i \in Nat /\ i >= 1
                 /\ \A j \in Nat \ {0} : j <= i => j \in D
                 /\ i # 1 => (i - 1 \in D /\ i - 1 < i)

LEMMA FieldNumbers ==
    ASSUME MetadataOK, NEW k \in Classes
    PROVE  /\ Numbers(DOMAIN InstanceFields[k])
           /\ \A static \in BOOLEAN : Numbers(DOMAIN Own(k, static))
<1>1. ASSUME NEW n \in Nat PROVE Numbers(1 .. n)
  BY DEF Numbers
<1>2. /\ DOMAIN InstanceFields[k] = 1 .. Len(InstanceFields[k])
      /\ Len(InstanceFields[k]) \in Nat
  <2>1. /\ DOMAIN InstanceFields[k] = 1 .. Len(InstanceFields[k])
        /\ Len(InstanceFields[k]) = Len(Inherited(k)) + Len(Own(k, FALSE))
        /\ Len(Inherited(k)) \in Nat /\ Len(Own(k, FALSE)) \in Nat
    BY Inherits
  <2> DEFINE m == Len(Inherited(k))
             n == Len(Own(k, FALSE))
  <2>2. m + n \in Nat
    <3>1. m \in Nat /\ n \in Nat
      BY <2>1
    <3> HIDE DEF m, n
    <3> QED BY <3>1
  <2> QED BY <2>1, <2>2
<1>3. \A static \in BOOLEAN : /\ DOMAIN Own(k, static) = 1 .. Len(Own(k, static))
                              /\ Len(Own(k, static)) \in Nat
  BY OwnField
<1> QED BY <1>1, <1>2, <1>3

LEMMA EndTyped ==
    ASSUME Context, NEW f, TypeKnown(f), f.class \in Classes,
           f.index \in DOMAIN program[f.class].fields
    PROVE  OffsetOf(f) \in Nat /\ SizeOf(TypeOf(f)) \in Nat /\ EndOf(f) \in Nat
<1>1. OffsetOf(f) \in Nat
  BY KlassKnown DEF Context, TypeOK, OffsetOf
<1>2. SizeOf(TypeOf(f)) \in Nat
  BY Sizes DEF TypeKnown
<1> QED BY <1>1, <1>2 DEF EndOf

(* The fields up to i as they were *)
LEMMA FieldLaidStays ==
    ASSUME Context, StackOK, Kept, NEW k \in Classes, NEW i \in DOMAIN InstanceFields[k],
           NEW e \in Nat, NEW d \in Nat, e <= d, FieldLaid(k, i, e),
           \A j \in DOMAIN InstanceFields[k] : j <= i =>
               TypeKnown(InstanceFields[k][j]) /\
               OffsetOf(InstanceFields[k][j])' = OffsetOf(InstanceFields[k][j]),
           klass'[k].hasReferences = klass[k].hasReferences
    PROVE  FieldLaid(k, i, d)'
<1>1. /\ MetadataOK
      /\ InstanceFields' = InstanceFields
      /\ (Computed(k)' <=> Computed(k))
      /\ program' = program
  BY ContextMetadata, SameMetadata DEF Kept
<1> PICK F : F = InstanceFields[k]
  OBVIOUS
<1> PICK f : f = F[i]
  OBVIOUS
<1>2. F = InstanceFields'[k] /\ i \in DOMAIN F /\ Numbers(DOMAIN F)
  BY <1>1, FieldNumbers
<1>3. ASSUME NEW j \in DOMAIN F, j <= i
      PROVE  EndOf(F[j])' = EndOf(F[j]) /\ OffsetOf(F[j])' = OffsetOf(F[j]) /\ TypeKnown(F[j])
  <2> PICK g : g = F[j]
    OBVIOUS
  <2>1. TypeKnown(g) /\ OffsetOf(g)' = OffsetOf(g)
    BY <1>2, <1>3
  <2>2. EndOf(g)' = EndOf(g)
    BY <2>1, EndStays
  <2> QED BY <2>1, <2>2
<1>4. /\ TypeKnown(f) /\ OffsetOf(f)' = OffsetOf(f) /\ EndOf(f)' = EndOf(f)
  BY <1>2, <1>3 DEF Numbers
<1>5. /\ TypeKnown(f)' /\ TypeOf(f)' = TypeOf(f)
      /\ FieldAlignment(k, TypeOf(f))' = FieldAlignment(k, TypeOf(f))
  BY <1>4, TypeStays, AlignmentStays
<1>6. EndBefore(k, i)' = EndBefore(k, i)
  <2>1. i # 1 => i - 1 \in DOMAIN F /\ i - 1 <= i
    BY <1>2 DEF Numbers
  <2>2. i # 1 => EndOf(F[i - 1])' = EndOf(F[i - 1])
    BY <1>3, <2>1
  <2> QED BY <1>2, <2>2 DEF EndBefore
<1>7. EndOf(f) \in Nat
  <2>1. f.class \in Classes /\ f.index \in DOMAIN program[f.class].fields
    BY <1>1, InstanceField, AncestryFacts DEF InstanceFieldOf
  <2> QED BY <1>4, <2>1, EndTyped
<1>8. /\ Computed(k) =>
             /\ OffsetOf(f) = AlignUp(EndBefore(k, i), FieldAlignment(k, TypeOf(f)))
             /\ \A j \in DOMAIN F : j < i => EndOf(F[j]) <= OffsetOf(f)
      /\ (Computed(k) \/ program[k].explicit \/ f.class = k) => EndOf(f) <= e
      /\ f.class = k /\ ~program[k].explicit =>
             OffsetOf(f) % FieldAlignment(k, TypeOf(f)) = 0
  BY DEF FieldLaid
<1>9. Computed(k)' =>
          /\ OffsetOf(f)' = AlignUp(EndBefore(k, i)', FieldAlignment(k, TypeOf(f))')
          /\ \A j \in DOMAIN F : j < i => EndOf(F[j])' <= OffsetOf(f)'
  <2>1. \A j \in DOMAIN F : j < i => j <= i
    BY <1>2 DEF Numbers
  <2> QED BY <1>1, <1>3, <1>4, <1>5, <1>6, <1>8, <2>1
<1>10. (Computed(k)' \/ program'[k].explicit \/ f.class = k) => EndOf(f)' <= d
  BY <1>1, <1>4, <1>7, <1>8
<1>11. f.class = k /\ ~program'[k].explicit =>
           OffsetOf(f)' % FieldAlignment(k, TypeOf(f))' = 0
  BY <1>1, <1>4, <1>5, <1>8
<1>12. InstanceFields'[k][i] = f /\ DOMAIN InstanceFields'[k] = DOMAIN F
  BY <1>2
<1> QED BY <1>2, <1>5, <1>9, <1>10, <1>11, <1>12 DEF FieldLaid

(* A class that has its size, and the calls a step is not about, stay as   *)
(* they are.                                                               *)
LEMMA SizedOffsetStays ==
    ASSUME Context, StackOK, Kept, NEW c \in Classes, LaidClass(c), klass[c].sized,
           NEW f \in FieldsOf(c, FALSE)
    PROVE  OffsetOf(f)' = OffsetOf(f) /\ (AsDeclared(f) => AsDeclared(f)')
<1>1. f.class = c
  BY ContextMetadata, FieldsOfClass DEF OwnFieldOf
<1>2. ~Writes("instance", f)
  BY <1>1, TopOngoing DEF Writes, At, Late
<1>3. OffsetOf(f)' = OffsetOf(f)
  BY <1>2, OffsetStays DEF LaidClass
<1>4. FieldOf(f)' = FieldOf(f)
  BY SameMetadata DEF Kept
<1> QED BY <1>3, <1>4 DEF AsDeclared

LEMMA InheritedOffsetStays ==
    ASSUME Context, StackOK, Kept, \A c \in Classes : LaidClass(c),
           NEW k \in Classes, ParentRead(k), Clean(k, {"instance"}),
           NEW i \in DOMAIN InstanceFields[k], NEW f, f = InstanceFields[k][i], f.class # k
    PROVE  OffsetOf(f)' = OffsetOf(f)
<1>1. f.class \in Ancestry[k] /\ f \in FieldsOf(f.class, FALSE)
  BY ContextMetadata, InstanceField DEF InstanceFieldOf
<1>2. f.class \in Classes
  BY <1>1, ContextMetadata, AncestryFacts
<1>3. klass[f.class].sized
  <2>1. \A c \in Classes : klass[c].sized => ParentRead(c)
    BY DEF LaidClass
  <2>2. "instance" \in {"references", "instance"} /\ "instance" \in {"instance"}
    OBVIOUS
  <2> QED BY <1>1, <2>1, <2>2, ContextMetadata, AncestorsSized
<1> QED BY <1>1, <1>2, <1>3, SizedOffsetStays

LEMMA LaidClassStays ==
    ASSUME Context, StackOK, Kept, \A c \in Classes : LaidClass(c), NEW k \in Classes, klass[k].sized
    PROVE  LaidClass(k)'
<1>1. /\ MetadataOK
      /\ InstanceFields' = InstanceFields
      /\ FieldsOf(k, FALSE)' = FieldsOf(k, FALSE)
      /\ program' = program
  BY ContextMetadata, SameMetadata DEF Kept
<1>2. /\ klass'[k].sized /\ klass'[k].size = klass[k].size
      /\ klass'[k].hasReferences = klass[k].hasReferences
      /\ klass[k].size \in Nat
  BY SizedStays, KlassKnown DEF Context, TypeOK
<1>3. ParentRead(k)'
  BY ParentReadStays DEF LaidClass
<1>4. ASSUME program[k].explicit, NEW f \in FieldsOf(k, FALSE) PROVE AsDeclared(f)'
  BY <1>4, SizedOffsetStays DEF LaidClass
<1>5. ASSUME Clean(k, {"instance"})', NEW i \in DOMAIN InstanceFields[k]
      PROVE  FieldLaid(k, i, klass[k].size)'
  <2>1. Clean(k, {"instance"}) /\ ParentRead(k)
    BY <1>5, CleanBefore DEF LaidClass
  <2>2. \A j \in DOMAIN InstanceFields[k] : FieldLaid(k, j, klass[k].size)
    BY <2>1 DEF LaidClass
  <2>3. ASSUME NEW j \in DOMAIN InstanceFields[k]
        PROVE  TypeKnown(InstanceFields[k][j]) /\
               OffsetOf(InstanceFields[k][j])' = OffsetOf(InstanceFields[k][j])
    <3> PICK f : f = InstanceFields[k][j]
      OBVIOUS
    <3>1. TypeKnown(f)
      BY <2>2 DEF FieldLaid
    <3>2. CASE f.class = k
      <4>1. f \in FieldsOf(k, FALSE)
        BY <1>1, <3>2, OwnAreInstance
      <4> QED BY <1>1, <3>1, <4>1, SizedOffsetStays
    <3>3. CASE f.class # k
      BY <1>1, <2>1, <3>1, <3>3, InheritedOffsetStays
    <3> QED BY <3>2, <3>3
  <2> PICK d : d = klass[k].size
    OBVIOUS
  <2>4. FieldLaid(k, i, d) /\ d \in Nat /\ d <= d
    BY <1>2, <2>2
  <2>5. FieldLaid(k, i, d)'
    BY <1>2, <2>3, <2>4, FieldLaidStays
  <2> QED BY <1>2, <2>5
<1>6. (\A f \in FieldsOf(k, FALSE) : AsDeclared(f)') \/ ~program[k].explicit
  BY <1>4
<1>7. Clean(k, {"instance"})' => \A i \in DOMAIN InstanceFields[k] : FieldLaid(k, i, klass[k].size)'
  BY <1>5
<1> QED BY <1>1, <1>3, <1>6, <1>7 DEF LaidClass

LEMMA LaidCallStays ==
    ASSUME Context, StackOK, Kept, \A c \in Classes : LaidClass(c),
           NEW n \in DOMAIN calls, NEW x, x = calls[n], LaidCall(x),
           n # Len(calls) \/ UNCHANGED klass
    PROVE  LaidCall(x)'
<1> PICK k : k = x.of
  OBVIOUS
<1> PICK F : F = InstanceFields[k]
  OBVIOUS
<1>1. /\ MetadataOK
      /\ InstanceFields' = InstanceFields
      /\ program' = program
      /\ Computed(k)' <=> Computed(k)
  BY ContextMetadata, SameMetadata DEF Kept
<1>2. x \in CallType /\ k \in Classes /\ x.next \in Nat /\ x.next >= 1 /\ x.end \in Nat
  BY StackTop, CallFields DEF Context, TypeOK
<1>3. UNCHANGED klass \/ k # Top.of
  BY <1>2, TopOngoing
<1>4. klass'[k].hasReferences = klass[k].hasReferences
  BY <1>2, <1>3 DEF Kept, ClassKept
<1>5. Numbers(DOMAIN F)
  BY <1>1, <1>2, FieldNumbers
<1>6. x.at # "parent" => ParentRead(k)'
  BY <1>2, ParentReadStays DEF LaidCall
<1>7. SUFFICES ASSUME x.at = "instance"
      PROVE  /\ program[k].explicit =>
                    \A i \in DOMAIN F : i < x.next /\ F[i].class = k => AsDeclared(F[i])'
             /\ Clean(k, {"instance"})' =>
                    /\ \A i \in DOMAIN F : i < x.next => FieldLaid(k, i, x.end)'
                    /\ Computed(k) /\ x.next \in DOMAIN F => x.end = EndBefore(k, x.next)'
  <2>1. F = InstanceFields'[k] /\ program[k].explicit = program'[k].explicit
    BY <1>1
  <2> QED BY <1>1, <1>6, <2>1 DEF LaidCall
<1>8. ASSUME NEW i \in DOMAIN F, i < x.next, NEW f, f = F[i], f.class = k
      PROVE  OffsetOf(f)' = OffsetOf(f) /\ (program[k].explicit => AsDeclared(f)')
  <2>1. f \in FieldsOf(k, FALSE)
    BY <1>1, <1>2, <1>8, OwnAreInstance
  <2>2. program[k].explicit => AsDeclared(f)
    BY <1>7, <1>8 DEF LaidCall
  <2>3. OffsetOf(f)' = OffsetOf(f)
    <3>1. CASE UNCHANGED klass
      BY <3>1 DEF OffsetOf
    <3>2. CASE k # Top.of
      BY <1>2, <1>8, <2>1, <2>2, <3>2, OffsetStays DEF Writes
    <3> QED BY <1>3, <3>1, <3>2
  <2>4. FieldOf(f)' = FieldOf(f)
    BY SameMetadata DEF Kept
  <2> QED BY <2>2, <2>3, <2>4 DEF AsDeclared
<1>9. ASSUME Clean(k, {"instance"})'
      PROVE  /\ \A i \in DOMAIN F : i < x.next => FieldLaid(k, i, x.end)'
             /\ Computed(k) /\ x.next \in DOMAIN F => x.end = EndBefore(k, x.next)'
  <2>1. Clean(k, {"instance"}) /\ ParentRead(k)
    BY <1>7, <1>9, CleanBefore DEF LaidCall
  <2>2. /\ \A i \in DOMAIN F : i < x.next => FieldLaid(k, i, x.end)
        /\ Computed(k) /\ x.next \in DOMAIN F => x.end = EndBefore(k, x.next)
    BY <1>7, <2>1 DEF LaidCall
  <2>3. ASSUME NEW j \in DOMAIN F, j < x.next, NEW f, f = F[j]
        PROVE  TypeKnown(f) /\ OffsetOf(f)' = OffsetOf(f)
    <3>1. TypeKnown(f)
      BY <2>2, <2>3 DEF FieldLaid
    <3>2. CASE f.class = k
      BY <1>8, <2>3, <3>1, <3>2
    <3>3. CASE f.class # k
      BY <1>2, <2>1, <2>3, <3>1, <3>3, InheritedOffsetStays
    <3> QED BY <3>2, <3>3
  <2>4. ASSUME NEW i \in DOMAIN F, i < x.next PROVE FieldLaid(k, i, x.end)'
    <3> PICK d : d = x.end
      OBVIOUS
    <3>1. \A j \in DOMAIN F : j <= i => j < x.next
      BY <1>2, <1>5, <2>4 DEF Numbers
    <3>2. \A j \in DOMAIN InstanceFields[k] : j <= i =>
              TypeKnown(InstanceFields[k][j]) /\
              OffsetOf(InstanceFields[k][j])' = OffsetOf(InstanceFields[k][j])
      <4>1. ASSUME NEW j \in DOMAIN InstanceFields[k], j <= i
            PROVE  TypeKnown(InstanceFields[k][j]) /\
                   OffsetOf(InstanceFields[k][j])' = OffsetOf(InstanceFields[k][j])
        <5> PICK f : f = F[j]
          OBVIOUS
        <5>1. TypeKnown(f) /\ OffsetOf(f)' = OffsetOf(f)
          BY <2>3, <3>1, <4>1
        <5> QED BY <1>1, <5>1
      <4> QED BY <4>1
    <3>3. FieldLaid(k, i, d) /\ d \in Nat /\ d <= d /\ i \in DOMAIN InstanceFields[k]
      BY <1>2, <2>2, <2>4
    <3>4. FieldLaid(k, i, d)'
      BY <1>2, <1>4, <3>2, <3>3, FieldLaidStays
    <3> QED BY <3>4
  <2>5. ASSUME Computed(k), x.next \in DOMAIN F PROVE x.end = EndBefore(k, x.next)'
    <3>1. CASE x.next = 1
      BY <2>2, <2>5, <3>1 DEF EndBefore
    <3>2. CASE x.next # 1
      <4>1. x.next - 1 \in DOMAIN F /\ x.next - 1 < x.next
        BY <1>5, <2>5, <3>2 DEF Numbers
      <4> PICK f : f = F[x.next - 1]
        OBVIOUS
      <4>2. TypeKnown(f) /\ OffsetOf(f)' = OffsetOf(f)
        BY <2>3, <4>1
      <4>3. EndOf(f)' = EndOf(f)
        BY <4>2, EndStays
      <4>4. EndBefore(k, x.next) = EndOf(f) /\ EndBefore(k, x.next)' = EndOf(f)'
        BY <1>1, <3>2 DEF EndBefore
      <4> QED BY <2>2, <2>5, <4>3, <4>4
    <3> QED BY <3>1, <3>2
  <2> QED BY <2>4, <2>5
<1> QED BY <1>8, <1>9

(* The assertion of compute_layout: what a class inherits is where it      *)
(* would place it, too.                                                    *)
LEMMA InheritedField ==
    ASSUME Context, StackOK, FieldsLaid, At("instance"), AtField, NEW k, k = Top.of,
           Field.class # k, Clean(k, {"instance"})
    PROVE  /\ TypeKnown(Field)
           /\ Computed(k) => OffsetOf(Field) = AlignUp(Top.end, FieldAlignment(k, TypeOf(Field)))
<1> PICK i : i = Top.next
  OBVIOUS
<1> PICK f : f = Field
  OBVIOUS
<1> PICK p : p = Parent(k)
  OBVIOUS
<1>1. /\ MetadataOK /\ calls # <<>> /\ Top.at = "instance"
      /\ k \in Classes /\ i \in Nat /\ i >= 1
      /\ LaidCall(Top)
  BY ContextMetadata, TopOngoing, CallFields DEF At, FieldsLaid
<1>2. i \in DOMAIN InstanceFields[k] /\ f = InstanceFields[k][i]
  BY <1>1, AtFieldKnown
<1>3. /\ i <= Len(Inherited(k)) /\ Len(Inherited(k)) \in Nat
      /\ \A j \in 1 .. Len(Inherited(k)) : InstanceFields[k][j] = Inherited(k)[j]
  <2>1. ~(i > Len(Inherited(k)))
    BY <1>1, <1>2, InstanceField
  <2>2. Len(Inherited(k)) \in Nat
    BY <1>1, Inherits
  <2> PICK m : m = Len(Inherited(k))
    OBVIOUS
  <2>3. m \in Nat /\ ~(i > m)
    BY <2>1, <2>2
  <2>4. i <= m
    BY <1>1, <2>3
  <2> QED BY <1>1, <2>2, <2>4, Inherits
<1>4. p \in Classes /\ p # NoClass /\ Inherited(k) = InstanceFields[p]
  <2>1. p # NoClass
    <3>1. p = NoClass => Len(Inherited(k)) = 0
      BY DEF Inherited
    <3> PICK m : m = Len(Inherited(k))
      OBVIOUS
    <3>2. m \in Nat /\ i <= m /\ (p = NoClass => m = 0)
      BY <1>3, <3>1
    <3> QED BY <1>1, <3>2
  <2> QED BY <1>1, <2>1, ParentsFounded DEF Inherited
<1>5. /\ i \in DOMAIN InstanceFields[p]
      /\ \A j \in Nat \ {0} : j <= i => InstanceFields[k][j] = InstanceFields[p][j]
  <2> PICK m : m = Len(Inherited(k))
    OBVIOUS
  <2>1. m \in Nat /\ i <= m
    BY <1>3
  <2>2. DOMAIN InstanceFields[p] = 1 .. m
    BY <1>1, <1>4, Inherits
  <2>3. \A j \in Nat \ {0} : j <= i => j \in 1 .. m
    BY <1>1, <2>1
  <2> QED BY <1>1, <1>3, <1>4, <2>2, <2>3
<1>6. klass[p].sized /\ Clean(p, {"instance"}) /\ LaidClass(p)
  <2>1. ParentRead(k)
    BY <1>1 DEF LaidCall
  <2>2. p \in Ancestry[k] /\ p # k
    <3>1. Ancestry[k] = {k} \cup Ancestry[p] /\ p \in Ancestry[p]
      BY <1>1, <1>4, AncestryUnfolded, AncestryFacts
    <3> QED BY <1>1, <1>4, <3>1, ParentBelow, BelowIrreflexive
  <2>3. \A c \in Classes : klass[c].sized => ParentRead(c)
    BY DEF FieldsLaid, LaidClass
  <2>4. "instance" \in {"references", "instance"} /\ "instance" \in {"instance"}
    OBVIOUS
  <2> QED BY <1>1, <1>4, <2>1, <2>2, <2>3, <2>4, AncestorsSized DEF FieldsLaid
<1>7. FieldLaid(p, i, klass[p].size)
  BY <1>5, <1>6 DEF LaidClass
<1>8. f = InstanceFields[p][i]
  BY <1>1, <1>2, <1>5
<1>9. TypeKnown(f)
  BY <1>7, <1>8 DEF FieldLaid
<1>10. ASSUME Computed(k)
       PROVE  OffsetOf(f) = AlignUp(Top.end, FieldAlignment(k, TypeOf(f)))
  <2>1. Computed(p)
    <3>1. Ancestry[p] \subseteq Ancestry[k]
      BY <1>1, <1>4, AncestryUnfolded
    <3> QED BY <1>10, <3>1 DEF Computed
  <2>2. OffsetOf(f) = AlignUp(EndBefore(p, i), FieldAlignment(p, TypeOf(f)))
    BY <1>7, <1>8, <2>1 DEF FieldLaid
  <2>3. EndBefore(p, i) = EndBefore(k, i)
    <3>1. i # 1 => i - 1 \in Nat \ {0} /\ i - 1 <= i
      BY <1>1
    <3> QED BY <1>5, <3>1 DEF EndBefore
  <2>4. Packing(k) = 0 /\ Packing(p) = 0
    BY <1>1, <1>4, ParentsAreNotStructs DEF Packing, IsValueClass
  <2>5. FieldAlignment(p, TypeOf(f)) = FieldAlignment(k, TypeOf(f))
    BY <2>4 DEF FieldAlignment
  <2>6. Top.end = EndBefore(k, i)
    BY <1>1, <1>2, <1>10 DEF LaidCall
  <2> QED BY <2>2, <2>3, <2>5, <2>6
<1> QED BY <1>9, <1>10

(* A field is placed after those before it. *)
LEMMA FieldPlaced ==
    ASSUME Context, StackOK, FieldsLaid, PlaceInstanceField, NEW k, k = Top.of,
           NEW f, f = Field, Clean(k, {"instance"})'
    PROVE  /\ TypeKnown(f) /\ Type = TypeOf(f)
           /\ OffsetOf(f)' \in Nat /\ SizeOf(Type) \in Nat
           /\ Top'.end \in Nat /\ Top.end <= Top'.end
           /\ program[k].explicit => OffsetOf(f)' + SizeOf(Type) <= Top'.end
           /\ ~program[k].explicit =>
                  /\ f.class = k \/ Computed(k) =>
                         /\ OffsetOf(f)' = AlignUp(Top.end, FieldAlignment(k, Type))
                         /\ OffsetOf(f)' + SizeOf(Type) = Top'.end
                         /\ Top.end <= OffsetOf(f)'
                  /\ f.class = k => OffsetOf(f)' % FieldAlignment(k, Type) = 0
<1> PICK x : x = Top
  OBVIOUS
<1> PICK y : y = Top'
  OBVIOUS
<1> PICK a : a = FieldAlignment(k, Type)
  OBVIOUS
<1>1. /\ Placing(a)
      /\ At("instance") /\ Ready /\ ~NoOffset /\ Reads("instance")
      /\ program[k].explicit =>
             /\ program[f.class].explicit
             /\ y.end >= x.end /\ y.end >= FieldOf(f).at + SizeOf(Type)
             /\ klass'[f.class].offsets[f.index] = FieldOf(f).at
      /\ ~program[k].explicit =>
             LET o == AlignUp(x.end, a) IN
                 /\ y.end = o + SizeOf(Type)
                 /\ f.class = k => klass'[f.class].offsets[f.index] = o
                 /\ f.class # k => UNCHANGED klass
  BY PlaceInstanceFieldStep
<1>2. /\ TypeOK' /\ Kept /\ Continues
      /\ AtField /\ calls # <<>> /\ Top.at = "instance"
      /\ UNCHANGED program
  BY <1>1 DEF Placing, Ready, Visits, At, Kept
<1>3. /\ f \in Ref /\ f.class \in Classes /\ f.index \in DOMAIN program[f.class].fields
      /\ FieldOf(f).at \in Nat /\ Type = TypeOf(f) /\ Type \in FieldTypes
  BY <1>1, <1>2, AtFieldKnown DEF TypeOf, Ready
<1>4. x \in CallType /\ y \in CallType /\ k \in Classes /\ x.end \in Nat /\ y.end \in Nat
  BY <1>2, CallFields DEF Continues
<1>5. Clean(k, {"instance"}) /\ MetadataOK
  BY <1>2, CleanBefore, ContextMetadata
<1>6. TypeKnown(f)
  <2>1. ASSUME Struct(Type), ~klass[Type].sized PROVE FALSE
    <3>1. Record(k, Type, "instance") \in early'
      BY <1>1, <2>1 DEF Reads, Record
    <3>2. k \in Ancestry[k] /\ Ancestry' = Ancestry
      BY <1>2, <1>4, <1>5, AncestryFacts, SameMetadata
    <3> QED BY <3>1, <3>2 DEF Clean, ReadEarly, Record
  <2> QED BY <1>3, <2>1 DEF TypeKnown
<1>7. SizeOf(Type) \in Nat /\ a \in Widths
  BY <1>3, <1>4, <1>6, Sizes, Alignments DEF TypeKnown
<1>8. AlignUp(x.end, a) \in Nat /\ x.end <= AlignUp(x.end, a) /\ AlignUp(x.end, a) % a = 0
  BY <1>4, <1>7, AlignUpFacts
<1>9. OffsetOf(f)' = klass'[f.class].offsets[f.index] /\ OffsetOf(f)' \in Nat
  <2>1. klass'[f.class].offsets \in [DOMAIN program[f.class].fields -> Nat]
    BY <1>2, <1>3 DEF TypeOK, KlassesOK, KlassType
  <2> QED BY <1>3, <2>1 DEF OffsetOf
<1>10. CASE program[k].explicit
  BY <1>1, <1>3, <1>4, <1>6, <1>7, <1>9, <1>10
<1>11. CASE ~program[k].explicit
  <2> PICK o : o = AlignUp(x.end, a)
    OBVIOUS
  <2>1. y.end = o + SizeOf(Type) /\ o \in Nat /\ x.end <= o /\ o % a = 0
    BY <1>1, <1>8, <1>11
  <2>2. f.class = k \/ Computed(k) => OffsetOf(f)' = o
    <3>1. CASE f.class = k
      BY <1>1, <1>9, <1>11, <3>1
    <3>2. CASE f.class # k /\ Computed(k)
      <4>1. OffsetOf(f) = o
        BY <1>1, <1>2, <1>3, <1>5, <3>2, InheritedField
      <4>2. OffsetOf(f)' = OffsetOf(f)
        BY <1>1, <1>9, <1>11, <3>2 DEF OffsetOf
      <4> QED BY <4>1, <4>2
    <3> QED BY <3>1, <3>2
  <2>3. x.end <= y.end
    BY <1>4, <1>7, <2>1
  <2> QED BY <1>3, <1>4, <1>6, <1>7, <1>9, <1>11, <2>1, <2>2, <2>3
<1> QED BY <1>10, <1>11

LEMMA PlacedCall ==
    ASSUME Context, StackOK, FieldsLaid, PlaceInstanceField, NEW y, y = Top'
    PROVE  LaidCall(y)'
<1> PICK x : x = Top
  OBVIOUS
<1> PICK k : k = Top.of
  OBVIOUS
<1> PICK i : i = Top.next
  OBVIOUS
<1> PICK f : f = Field
  OBVIOUS
<1> PICK F : F = InstanceFields[k]
  OBVIOUS
<1>1. /\ Placing(FieldAlignment(k, Type)) /\ At("instance") /\ Ready
      /\ program[k].explicit => klass'[f.class].offsets[f.index] = FieldOf(f).at
  BY PlaceInstanceFieldStep
<1>2. /\ TypeOK' /\ Kept /\ OthersKept /\ Continues
      /\ calls # <<>> /\ AtField /\ Top.at = "instance"
      /\ y.at = "instance" /\ y.next = i + 1 /\ y.of = k
  BY <1>1 DEF Placing, Ready, Visits, At, Continues
<1>3. /\ MetadataOK
      /\ InstanceFields' = InstanceFields
      /\ program' = program
      /\ Computed(k)' <=> Computed(k)
  BY <1>2, ContextMetadata, SameMetadata DEF Kept
<1>4. /\ x \in CallType /\ y \in CallType /\ k \in Classes /\ x.end \in Nat /\ y.end \in Nat
      /\ i \in Nat /\ i >= 1 /\ LaidCall(x)
      /\ x.of = k /\ x.at = "instance" /\ x.next = i
  BY <1>2, CallFields, TopOngoing DEF Continues, FieldsLaid
<1>5. /\ i \in DOMAIN F /\ f = F[i] /\ f \in Ref
      /\ Numbers(DOMAIN F)
  BY <1>2, <1>3, <1>4, AtFieldKnown, FieldNumbers
<1>6. klass'[k].hasReferences = klass[k].hasReferences
  BY <1>2, <1>4 DEF Kept, ClassKept, At
<1>7. ParentRead(k)'
  BY <1>2, <1>4, ParentReadStays DEF LaidCall
<1>8. ASSUME NEW j \in DOMAIN F, j < i, NEW g, g = F[j]
      PROVE  OffsetOf(g)' = OffsetOf(g)
  <2>1. g # f
    BY <1>3, <1>4, <1>5, <1>8, InstanceField
  <2>2. g \in Ref /\ g.class \in Classes /\ g.index \in DOMAIN program[g.class].fields
    BY <1>3, <1>4, <1>8, InstanceField, AncestryFacts DEF InstanceFieldOf
  <2>3. ~(g.class = f.class /\ g.index = f.index)
    BY <1>5, <2>1, <2>2 DEF Ref
  <2>4. klass'[g.class].offsets[g.index] = klass[g.class].offsets[g.index]
    BY <1>2, <2>2, <2>3 DEF OthersKept
  <2> QED BY <2>4 DEF OffsetOf
<1>9. ASSUME program[k].explicit, NEW j \in DOMAIN F, j < i + 1, F[j].class = k
      PROVE  AsDeclared(F[j])'
  <2> PICK g : g = F[j]
    OBVIOUS
  <2>1. FieldOf(g)' = FieldOf(g)
    BY <1>2, SameMetadata DEF Kept
  <2>2. CASE j < i
    <3>1. AsDeclared(g)
      BY <1>4, <1>9, <2>2 DEF LaidCall
    <3>2. OffsetOf(g)' = OffsetOf(g)
      BY <1>8, <2>2
    <3> QED BY <2>1, <3>1, <3>2 DEF AsDeclared
  <2>3. CASE j = i
    <3>1. OffsetOf(g)' = FieldOf(g).at
      BY <1>1, <1>5, <1>9, <2>3 DEF OffsetOf
    <3> QED BY <2>1, <3>1 DEF AsDeclared
  <2>4. j < i \/ j = i
    BY <1>4, <1>5, <1>9 DEF Numbers
  <2> QED BY <2>2, <2>3, <2>4
<1>10. ASSUME Clean(k, {"instance"})'
       PROVE  /\ \A j \in DOMAIN F : j < i + 1 => FieldLaid(k, j, y.end)'
              /\ Computed(k) /\ i + 1 \in DOMAIN F => y.end = EndBefore(k, i + 1)'
  <2> PICK t : t = Type
    OBVIOUS
  <2> PICK d : d = y.end
    OBVIOUS
  <2> PICK e : e = x.end
    OBVIOUS
  <2>1. /\ TypeKnown(f) /\ t = TypeOf(f)
        /\ OffsetOf(f)' \in Nat /\ SizeOf(t) \in Nat
        /\ d \in Nat /\ e \in Nat /\ e <= d
        /\ program[k].explicit => OffsetOf(f)' + SizeOf(t) <= d
        /\ ~program[k].explicit =>
               /\ f.class = k \/ Computed(k) =>
                      /\ OffsetOf(f)' = AlignUp(e, FieldAlignment(k, t))
                      /\ OffsetOf(f)' + SizeOf(t) = d
                      /\ e <= OffsetOf(f)'
               /\ f.class = k => OffsetOf(f)' % FieldAlignment(k, t) = 0
    BY <1>4, <1>10, FieldPlaced
  <2>2. /\ TypeKnown(f)' /\ TypeOf(f)' = t /\ SizeOf(TypeOf(f))' = SizeOf(t)
        /\ FieldAlignment(k, TypeOf(f))' = FieldAlignment(k, t)
    BY <1>2, <1>4, <1>6, <2>1, TypeStays, AlignmentStays
  <2>3. EndOf(f)' = OffsetOf(f)' + SizeOf(t)
    BY <2>2 DEF EndOf
  <2>4. Clean(k, {"instance"})
    BY <1>2, <1>10, CleanBefore
  <2>5. /\ \A j \in DOMAIN F : j < i => FieldLaid(k, j, e)
        /\ Computed(k) => e = EndBefore(k, i)
    BY <1>4, <1>5, <2>4 DEF LaidCall
  <2>6. ASSUME NEW j \in DOMAIN F, j < i, NEW g, g = F[j]
        PROVE  /\ TypeKnown(g) /\ OffsetOf(g)' = OffsetOf(g) /\ EndOf(g)' = EndOf(g)
               /\ EndOf(g) \in Nat /\ (Computed(k) => EndOf(g) <= e)
    <3>1. TypeKnown(g) /\ (Computed(k) => EndOf(g) <= e)
      BY <2>5, <2>6 DEF FieldLaid
    <3>2. OffsetOf(g)' = OffsetOf(g)
      BY <1>8, <2>6
    <3>3. EndOf(g)' = EndOf(g)
      BY <1>2, <3>1, <3>2, EndStays
    <3>4. g.class \in Classes /\ g.index \in DOMAIN program[g.class].fields
      BY <1>3, <1>4, <2>6, InstanceField, AncestryFacts DEF InstanceFieldOf
    <3> QED BY <3>1, <3>2, <3>3, <3>4, EndTyped
  <2>7. ASSUME NEW j \in DOMAIN F, j < i PROVE FieldLaid(k, j, d)'
    <3>1. \A u \in DOMAIN InstanceFields[k] : u <= j =>
              TypeKnown(InstanceFields[k][u]) /\
              OffsetOf(InstanceFields[k][u])' = OffsetOf(InstanceFields[k][u])
      <4>1. ASSUME NEW u \in DOMAIN InstanceFields[k], u <= j
            PROVE  TypeKnown(InstanceFields[k][u]) /\
                   OffsetOf(InstanceFields[k][u])' = OffsetOf(InstanceFields[k][u])
        <5> PICK g : g = F[u]
          OBVIOUS
        <5>1. u < i
          BY <1>4, <1>5, <2>7, <4>1 DEF Numbers
        <5>2. TypeKnown(g) /\ OffsetOf(g)' = OffsetOf(g)
          BY <2>6, <4>1, <5>1
        <5> QED BY <1>3, <5>2
      <4> QED BY <4>1
    <3>2. FieldLaid(k, j, e) /\ j \in DOMAIN InstanceFields[k]
      BY <2>5, <2>7
    <3> QED BY <1>2, <1>4, <1>6, <2>1, <3>1, <3>2, FieldLaidStays
  <2>8. FieldLaid(k, i, d)'
    <3>1. ASSUME Computed(k)
          PROVE  /\ OffsetOf(f)' = AlignUp(EndBefore(k, i)', FieldAlignment(k, TypeOf(f))')
                 /\ \A j \in DOMAIN F : j < i => EndOf(F[j])' <= OffsetOf(f)'
      <4>1. ~program[k].explicit
        BY <1>3, <1>4, <3>1, AncestryFacts DEF Computed
      <4>2. EndBefore(k, i)' = e
        <5>1. CASE i = 1
          BY <2>5, <3>1, <5>1 DEF EndBefore
        <5>2. CASE i # 1
          <6>1. i - 1 \in DOMAIN F /\ i - 1 < i
            BY <1>5, <5>2 DEF Numbers
          <6> PICK g : g = F[i - 1]
            OBVIOUS
          <6>2. EndOf(g)' = EndOf(g)
            BY <2>6, <6>1
          <6>3. EndBefore(k, i) = EndOf(g) /\ EndBefore(k, i)' = EndOf(g)'
            BY <1>3, <5>2 DEF EndBefore
          <6> QED BY <2>5, <3>1, <6>2, <6>3
        <5> QED BY <5>1, <5>2
      <4>3. ASSUME NEW j \in DOMAIN F, j < i PROVE EndOf(F[j])' <= OffsetOf(f)'
        <5> PICK g : g = F[j]
          OBVIOUS
        <5>1. EndOf(g)' = EndOf(g) /\ EndOf(g) \in Nat /\ EndOf(g) <= e
          BY <2>6, <3>1, <4>3
        <5>2. e <= OffsetOf(f)' /\ OffsetOf(f)' \in Nat /\ e \in Nat
          BY <2>1, <3>1, <4>1
        <5>3. EndOf(g)' <= OffsetOf(f)'
          BY <5>1, <5>2
        <5> QED BY <5>3
      <4> QED BY <2>1, <2>2, <3>1, <4>1, <4>2, <4>3
    <3>2. (Computed(k) \/ program[k].explicit \/ f.class = k) => EndOf(f)' <= d
      BY <2>1, <2>3
    <3>3. f.class = k /\ ~program[k].explicit =>
              OffsetOf(f)' % FieldAlignment(k, TypeOf(f))' = 0
      BY <2>1, <2>2
    <3>4. InstanceFields'[k][i] = f /\ DOMAIN InstanceFields'[k] = DOMAIN F /\ F = InstanceFields'[k]
      BY <1>3, <1>5
    <3> QED BY <1>3, <2>2, <3>1, <3>2, <3>3, <3>4 DEF FieldLaid
  <2>9. \A j \in DOMAIN F : j < i + 1 => j < i \/ j = i
    BY <1>4, <1>5 DEF Numbers
  <2>10. Computed(k) => d = EndBefore(k, i + 1)'
    <3>1. EndBefore(k, i + 1)' = EndOf(f)'
      <4>1. i + 1 # 1 /\ (i + 1) - 1 = i
        BY <1>4
      <4> QED BY <1>3, <1>5, <4>1 DEF EndBefore
    <3>2. Computed(k) => ~program[k].explicit
      BY <1>3, <1>4, AncestryFacts DEF Computed
    <3> QED BY <2>1, <2>3, <3>1, <3>2
  <2> QED BY <2>7, <2>8, <2>9, <2>10
<1>11. F = InstanceFields'[k] /\ program'[k] = program[k]
  BY <1>3
<1> QED BY <1>2, <1>3, <1>7, <1>9, <1>10, <1>11 DEF LaidCall

LEMMA OffsetsStay ==
    ASSUME Context, Kept, calls = <<>> \/ ~AtField, NEW f, f.class \in Classes,
           f.index \in DOMAIN program[f.class].fields
    PROVE  OffsetOf(f)' = OffsetOf(f)
BY DEF Kept, OffsetKept, OffsetOf

LEMMA InstanceEnded ==
    ASSUME Context, StackOK, FieldsLaid, EndInstance, NEW k, k = Top.of
    PROVE  LaidClass(k)'
<1> PICK x : x = Top
  OBVIOUS
<1> PICK F : F = InstanceFields[k]
  OBVIOUS
<1>1. /\ TypeOK' /\ Kept /\ calls # <<>> /\ Top.at = "instance" /\ ~AtField
      /\ klass'[k].size >= x.end
  BY EndInstanceStep DEF At
<1>2. /\ MetadataOK
      /\ InstanceFields' = InstanceFields
      /\ FieldsOf(k, FALSE)' = FieldsOf(k, FALSE)
      /\ program' = program
  BY <1>1, ContextMetadata, SameMetadata DEF Kept
<1>3. /\ k \in Classes /\ x \in CallType /\ x.end \in Nat /\ x.next \in Nat
      /\ LaidCall(x) /\ x.of = k /\ x.at = "instance"
  BY <1>1, TopOngoing, CallFields DEF FieldsLaid
<1>4. \A i \in DOMAIN F : i < x.next
  <2>1. DOMAIN F = 1 .. Len(F) /\ ~(x.next <= Len(F)) /\ Len(F) \in Nat
    <3>1. ~(x.next <= Len(F))
      BY <1>1, <1>3 DEF AtField, Fields
    <3>2. /\ DOMAIN F = 1 .. Len(F) /\ Len(F) = Len(Inherited(k)) + Len(Own(k, FALSE))
          /\ Len(Inherited(k)) \in Nat /\ Len(Own(k, FALSE)) \in Nat
      BY <1>2, <1>3, Inherits
    <3> PICK m : m = Len(Inherited(k))
      OBVIOUS
    <3> PICK n : n = Len(Own(k, FALSE))
      OBVIOUS
    <3>3. m \in Nat /\ n \in Nat /\ Len(F) = m + n
      BY <3>2
    <3>4. m + n \in Nat
      BY ONLY <3>3
    <3> QED BY <3>1, <3>2, <3>3, <3>4
  <2> PICK n : n = Len(F)
    OBVIOUS
  <2>2. DOMAIN F = 1 .. n /\ ~(x.next <= n) /\ n \in Nat
    BY <2>1
  <2> QED BY <1>3, <2>2
<1>5. klass'[k].hasReferences = klass[k].hasReferences /\ klass'[k].size \in Nat
  <2>1. klass'[k].hasReferences = klass[k].hasReferences
    BY <1>1, <1>3 DEF Kept, ClassKept, At
  <2>2. klass'[k].size \in Nat
    BY <1>1, <1>3 DEF TypeOK, KlassesOK, KlassType
  <2> QED BY <2>1, <2>2
<1>6. ParentRead(k)'
  BY <1>1, <1>3, ParentReadStays DEF LaidCall
<1>7. ASSUME NEW i \in DOMAIN F, NEW f, f = F[i] PROVE OffsetOf(f)' = OffsetOf(f)
  <2>1. f.class \in Classes /\ f.index \in DOMAIN program[f.class].fields
    BY <1>2, <1>3, <1>7, InstanceField, AncestryFacts DEF InstanceFieldOf
  <2> QED BY <1>1, <2>1, OffsetsStay
<1>8. ASSUME program[k].explicit, NEW f \in FieldsOf(k, FALSE) PROVE AsDeclared(f)'
  <2>1. PICK i \in DOMAIN F : F[i] = f /\ f.class = k
    BY <1>2, <1>3, OwnAreInstance
  <2>2. AsDeclared(f)
    BY <1>3, <1>4, <1>8, <2>1 DEF LaidCall
  <2>3. FieldOf(f)' = FieldOf(f)
    BY <1>1, SameMetadata DEF Kept
  <2> QED BY <1>7, <2>1, <2>2, <2>3 DEF AsDeclared
<1>9. ASSUME Clean(k, {"instance"})', NEW i \in DOMAIN F PROVE FieldLaid(k, i, klass[k].size)'
  <2> PICK d : d = klass'[k].size
    OBVIOUS
  <2> PICK e : e = x.end
    OBVIOUS
  <2>1. \A j \in DOMAIN F : FieldLaid(k, j, e)
    BY <1>1, <1>3, <1>4, <1>9, CleanBefore DEF LaidCall
  <2>2. \A j \in DOMAIN InstanceFields[k] : j <= i =>
            TypeKnown(InstanceFields[k][j]) /\
            OffsetOf(InstanceFields[k][j])' = OffsetOf(InstanceFields[k][j])
    <3>1. ASSUME NEW j \in DOMAIN InstanceFields[k]
          PROVE  TypeKnown(InstanceFields[k][j]) /\
                 OffsetOf(InstanceFields[k][j])' = OffsetOf(InstanceFields[k][j])
      <4> PICK g : g = F[j]
        OBVIOUS
      <4>1. TypeKnown(g) /\ OffsetOf(g)' = OffsetOf(g)
        BY <1>7, <2>1 DEF FieldLaid
      <4> QED BY <1>2, <4>1
    <3> QED BY <3>1
  <2>3. /\ e \in Nat /\ d \in Nat /\ e <= d /\ FieldLaid(k, i, e)
        /\ i \in DOMAIN InstanceFields[k]
    BY <1>1, <1>3, <1>5, <2>1
  <2>4. FieldLaid(k, i, d)'
    BY <1>1, <1>3, <1>5, <2>2, <2>3, FieldLaidStays
  <2> QED BY <2>4
<1>10. F = InstanceFields'[k] /\ program'[k] = program[k]
  BY <1>2
<1>11. program[k].explicit => \A f \in FieldsOf(k, FALSE) : AsDeclared(f)'
  BY <1>8
<1> QED BY <1>2, <1>6, <1>9, <1>10, <1>11 DEF LaidClass

LEMMA StaticFields ==
    ASSUME MetadataOK, NEW k \in Classes
    PROVE  /\ DOMAIN Statics(k) = 1 .. Len(Statics(k)) /\ Len(Statics(k)) \in Nat
           /\ Numbers(DOMAIN Statics(k))
           /\ \A i \in DOMAIN Statics(k) :
                  /\ Statics(k)[i] \in Ref /\ Statics(k)[i].class = k
                  /\ Statics(k)[i].index \in DOMAIN program[k].fields
           /\ \A i, j \in DOMAIN Statics(k) : i # j => Statics(k)[i] # Statics(k)[j]
<1>1. DOMAIN Statics(k) = 1 .. Len(Statics(k)) /\ Len(Statics(k)) \in Nat
  BY OwnField DEF Statics
<1>2. Numbers(DOMAIN Statics(k))
  BY FieldNumbers DEF Statics
<1>3. \A i \in DOMAIN Statics(k) : OwnFieldOf(k, TRUE, Statics(k)[i])
  BY OwnField DEF Statics
<1>4. \A i, j \in DOMAIN Statics(k) : i # j => Statics(k)[i] # Statics(k)[j]
  BY OwnField DEF Statics
<1> QED BY <1>1, <1>2, <1>3, <1>4 DEF OwnFieldOf

LEMMA StaticFieldsOf ==
    ASSUME MetadataOK, NEW k \in Classes
    PROVE  \A i \in DOMAIN Statics(k) : Statics(k)[i] \in FieldsOf(k, TRUE)
BY OwnField DEF Statics, OwnFieldOf

LEMMA StaticsSame ==
    ASSUME Kept
    PROVE  \A k : Statics(k)' = Statics(k)
BY SameMetadata DEF Kept, Statics

(* Static fields: only the call that places them writes their offsets.     *)
LEMMA StaticLaidStays ==
    ASSUME Context, StackOK, Kept, NEW k \in Classes, NEW i \in DOMAIN Statics(k),
           NEW e \in Nat, NEW d \in Nat, e <= d, StaticLaid(k, i, e),
           \A j \in DOMAIN Statics(k) : j <= i =>
               TypeKnown(Statics(k)[j]) /\ OffsetOf(Statics(k)[j])' = OffsetOf(Statics(k)[j])
    PROVE  StaticLaid(k, i, d)'
<1> PICK F : F = Statics(k)
  OBVIOUS
<1> PICK f : f = F[i]
  OBVIOUS
<1>1. MetadataOK /\ Statics(k)' = F /\ Numbers(DOMAIN F)
  BY ContextMetadata, StaticsSame, StaticFields
<1>2. ASSUME NEW j \in DOMAIN F, j <= i
      PROVE  EndOf(F[j])' = EndOf(F[j]) /\ OffsetOf(F[j])' = OffsetOf(F[j]) /\ TypeKnown(F[j])
  <2> PICK g : g = F[j]
    OBVIOUS
  <2>1. TypeKnown(g) /\ OffsetOf(g)' = OffsetOf(g)
    BY <1>1, <1>2
  <2>2. EndOf(g)' = EndOf(g)
    BY <2>1, EndStays
  <2> QED BY <2>1, <2>2
<1>3. i <= i /\ \A j \in DOMAIN F : j < i => j <= i
  BY <1>1 DEF Numbers
<1>4. TypeKnown(f) /\ EndOf(f)' = EndOf(f) /\ OffsetOf(f)' = OffsetOf(f) /\ TypeKnown(f)'
  <2>1. TypeKnown(f) /\ EndOf(f)' = EndOf(f) /\ OffsetOf(f)' = OffsetOf(f)
    BY <1>2, <1>3
  <2> QED BY <2>1, TypeStays
<1>5. EndOf(f) \in Nat
  <2>1. f.class = k /\ f.index \in DOMAIN program[k].fields
    BY <1>1, StaticFields
  <2> QED BY <1>4, <2>1, EndTyped
<1>6. EndOf(f)' <= d
  BY <1>4, <1>5 DEF StaticLaid
<1>7. \A j \in DOMAIN F : j < i => EndOf(F[j])' <= OffsetOf(f)'
  BY <1>2, <1>3, <1>4 DEF StaticLaid
<1> QED BY <1>1, <1>4, <1>6, <1>7 DEF StaticLaid

LEMMA StaticsLaidStay ==
    ASSUME Context, StackOK, Kept, NEW k \in Classes, StaticsLaid(k),
           At("static") => Top.of # k
    PROVE  StaticsLaid(k)'
<1>1. MetadataOK /\ Statics(k)' = Statics(k)
  BY ContextMetadata, StaticsSame
<1>2. klass'[k].staticSize = klass[k].staticSize /\ klass[k].staticSize \in Nat
  BY KlassKnown DEF Kept, ClassKept, Context, TypeOK
<1>3. ASSUME Clean(k, {"static"})', NEW i \in DOMAIN Statics(k)
      PROVE  StaticLaid(k, i, klass[k].staticSize)'
  <2> PICK d : d = klass[k].staticSize
    OBVIOUS
  <2>1. \A j \in DOMAIN Statics(k) : StaticLaid(k, j, d)
    BY <1>3, CleanBefore DEF StaticsLaid
  <2>2. ASSUME NEW j \in DOMAIN Statics(k)
        PROVE  TypeKnown(Statics(k)[j]) /\ OffsetOf(Statics(k)[j])' = OffsetOf(Statics(k)[j])
    <3> PICK f : f = Statics(k)[j]
      OBVIOUS
    <3>1. TypeKnown(f)
      BY <2>1 DEF StaticLaid
    <3>2. f \in FieldsOf(k, TRUE) /\ f.class = k
      BY <1>1, StaticFields, StaticFieldsOf
    <3>3. OffsetOf(f)' = OffsetOf(f)
      BY <3>2, StaticOffsetStays DEF Writes
    <3> QED BY <1>1, <3>1, <3>3
  <2>3. d \in Nat /\ d <= d /\ StaticLaid(k, i, d)
    BY <1>2, <2>1
  <2>4. StaticLaid(k, i, d)'
    BY <2>2, <2>3, StaticLaidStays
  <2> QED BY <1>2, <2>4
<1> QED BY <1>1, <1>3 DEF StaticsLaid

LEMMA StaticCallStays ==
    ASSUME Context, StackOK, Kept, NEW n \in DOMAIN calls, NEW x, x = calls[n], StaticCall(x),
           n # Len(calls) \/ UNCHANGED klass
    PROVE  StaticCall(x)'
<1> PICK k : k = x.of
  OBVIOUS
<1>1. x \in CallType /\ k \in Classes /\ x.next \in Nat /\ x.end \in Nat
  BY StackTop, CallFields DEF Context, TypeOK
<1>2. UNCHANGED klass \/ k # Top.of
  BY <1>1, TopOngoing
<1>3. MetadataOK /\ Statics(k)' = Statics(k) /\ Numbers(DOMAIN Statics(k))
  BY <1>1, ContextMetadata, StaticsSame, StaticFields
<1>4. ASSUME NEW j \in DOMAIN Statics(k), TypeKnown(Statics(k)[j])
      PROVE  TypeKnown(Statics(k)[j]) /\ OffsetOf(Statics(k)[j])' = OffsetOf(Statics(k)[j])
  <2> PICK f : f = Statics(k)[j]
    OBVIOUS
  <2>1. f \in FieldsOf(k, TRUE) /\ f.class = k
    BY <1>1, <1>3, StaticFields, StaticFieldsOf
  <2>2. OffsetOf(f)' = OffsetOf(f)
    <3>1. CASE UNCHANGED klass
      BY <3>1 DEF OffsetOf
    <3>2. CASE k # Top.of
      BY <1>1, <2>1, <3>2, StaticOffsetStays DEF Writes
    <3> QED BY <1>2, <3>1, <3>2
  <2> QED BY <1>3, <1>4, <2>2
<1>5. ASSUME x.at \in {"bitmap", "staticBitmap"} PROVE StaticsLaid(k)'
  <2>1. StaticsLaid(k)
    BY <1>5 DEF StaticCall
  <2>2. At("static") => Top.of # k
    <3>1. CASE n # Len(calls)
      BY <1>1, <3>1, TopOngoing DEF At
    <3>2. CASE n = Len(calls)
      BY <1>5, <3>2 DEF At, Top
    <3> QED BY <3>1, <3>2
  <2> QED BY <1>1, <2>1, <2>2, StaticsLaidStay
<1>6. ASSUME x.at = "static", Clean(k, {"static"})', NEW i \in DOMAIN Statics(k), i < x.next
      PROVE  StaticLaid(k, i, x.end)'
  <2> PICK d : d = x.end
    OBVIOUS
  <2>1. \A j \in DOMAIN Statics(k) : j < x.next => StaticLaid(k, j, d)
    BY <1>6, CleanBefore DEF StaticCall
  <2> PICK D : D = DOMAIN Statics(k)
    OBVIOUS
  <2>2. \A j \in DOMAIN Statics(k) : j <= i => j < x.next
    <3> PICK m : m = x.next
      OBVIOUS
    <3>1. Numbers(D) /\ i \in D /\ i < m /\ m \in Nat
      BY <1>1, <1>3, <1>6
    <3>2. \A j \in D : j <= i => j < m
      BY ONLY <3>1 DEF Numbers
    <3> QED BY <3>2
  <2>3. \A j \in DOMAIN Statics(k) : j <= i =>
            TypeKnown(Statics(k)[j]) /\ OffsetOf(Statics(k)[j])' = OffsetOf(Statics(k)[j])
    BY <1>4, <2>1, <2>2 DEF StaticLaid
  <2>4. d \in Nat /\ d <= d /\ StaticLaid(k, i, d)
    BY <1>1, <1>6, <2>1
  <2>5. StaticLaid(k, i, d)'
    BY <1>1, <2>3, <2>4, StaticLaidStays
  <2> QED BY <2>5
<1> QED BY <1>3, <1>5, <1>6 DEF StaticCall

LEMMA PlacedStatic ==
    ASSUME Context, StackOK, FieldsLaid, PlaceStaticField, NEW y, y = Top'
    PROVE  StaticCall(y)'
<1> PICK x : x = Top
  OBVIOUS
<1> PICK k : k = Top.of
  OBVIOUS
<1> PICK i : i = Top.next
  OBVIOUS
<1> PICK f : f = Field
  OBVIOUS
<1> PICK t : t = Type
  OBVIOUS
<1> PICK F : F = Statics(k)
  OBVIOUS
<1>1. /\ Placing(AlignmentOf(t)) /\ At("static") /\ Ready /\ Reads("static")
      /\ y.end = AlignUp(x.end, AlignmentOf(t)) + SizeOf(t)
      /\ klass'[f.class].offsets[f.index] = AlignUp(x.end, AlignmentOf(t))
  BY PlaceStaticFieldStep
<1>2. /\ TypeOK' /\ Kept /\ OthersKept /\ Continues
      /\ calls # <<>> /\ AtField /\ Top.at = "static"
      /\ y.at = "static" /\ y.next = i + 1 /\ y.of = k
  BY <1>1 DEF Placing, Ready, Visits, At, Continues
<1>3. MetadataOK /\ program' = program /\ Statics(k)' = F
  BY <1>2, ContextMetadata, StaticsSame DEF Kept
<1>4. /\ x \in CallType /\ y \in CallType /\ k \in Classes /\ x.end \in Nat /\ y.end \in Nat
      /\ i \in Nat /\ i >= 1 /\ StaticCall(x)
      /\ x.of = k /\ x.at = "static" /\ x.next = i
  BY <1>2, CallFields, TopOngoing DEF Continues, FieldsLaid
<1>5. /\ i \in DOMAIN F /\ f = F[i] /\ f.class = k /\ f.index \in DOMAIN program[k].fields
      /\ t = TypeOf(f) /\ t \in FieldTypes /\ f \in Ref
  BY <1>1, <1>2, AtFieldKnown DEF Statics, TypeOf, Ready
<1>5a. /\ Numbers(DOMAIN F)
       /\ \A j \in DOMAIN F : /\ F[j] \in Ref /\ F[j].class = k
                               /\ F[j].index \in DOMAIN program[k].fields
       /\ \A j, u \in DOMAIN F : j # u => F[j] # F[u]
  BY <1>3, <1>4, StaticFields
<1> PICK D : D = DOMAIN F
  OBVIOUS
<1>5b. \A j \in D : /\ j < i + 1 => j < i \/ j = i
                    /\ j < i => j # i
                    /\ \A u \in D : u <= j /\ j < i => u < i
  <2>1. Numbers(D) /\ i \in Nat
    BY <1>4, <1>5a
  <2> QED BY ONLY <2>1 DEF Numbers
<1>6. ASSUME NEW j \in DOMAIN F, j < i, NEW g, g = F[j]
      PROVE  OffsetOf(g)' = OffsetOf(g)
  <2>1. g # f
    BY <1>5, <1>5a, <1>5b, <1>6
  <2>2. g \in Ref /\ g.class = k /\ g.index \in DOMAIN program[k].fields
    BY <1>5a, <1>6
  <2>3. ~(g.class = f.class /\ g.index = f.index)
    BY <1>5, <2>1, <2>2 DEF Ref
  <2>4. klass'[k].offsets[g.index] = klass[k].offsets[g.index]
    BY <1>2, <1>4, <2>2, <2>3 DEF OthersKept
  <2> QED BY <2>2, <2>4 DEF OffsetOf
<1>7. ASSUME Clean(k, {"static"})', NEW j \in DOMAIN F, j < i + 1
      PROVE  StaticLaid(k, j, y.end)'
  <2> PICK d : d = y.end
    OBVIOUS
  <2> PICK e : e = x.end
    OBVIOUS
  <2> PICK a : a = AlignmentOf(t)
    OBVIOUS
  <2> PICK o : o = AlignUp(e, a)
    OBVIOUS
  <2>1. TypeKnown(f)
    <3>1. ASSUME Struct(t), ~klass[t].sized PROVE FALSE
      <4>1. Record(k, t, "static") \in early'
        BY <1>1, <3>1 DEF Reads, Record
      <4>2. k \in Ancestry[k] /\ Ancestry' = Ancestry
        BY <1>2, <1>3, <1>4, AncestryFacts, SameMetadata DEF Kept
      <4> QED BY <1>7, <4>1, <4>2 DEF Clean, ReadEarly, Record
    <3> QED BY <1>5, <3>1 DEF TypeKnown
  <2>2. SizeOf(t) \in Nat /\ a \in Widths
    BY <1>5, <2>1, Sizes DEF TypeKnown
  <2>3. o \in Nat /\ e <= o /\ d = o + SizeOf(t) /\ e \in Nat /\ d \in Nat
    BY <1>1, <1>4, <2>2, AlignUpFacts
  <2>4. OffsetOf(f)' = o /\ TypeKnown(f)' /\ EndOf(f)' = o + SizeOf(t)
    <3>1. OffsetOf(f)' = o
      BY <1>1 DEF OffsetOf
    <3>2. TypeKnown(f)' /\ SizeOf(TypeOf(f))' = SizeOf(t)
      BY <1>2, <1>5, <2>1, TypeStays
    <3> QED BY <3>1, <3>2 DEF EndOf
  <2>5. \A u \in DOMAIN F : u < i => StaticLaid(k, u, e)
    BY <1>2, <1>4, <1>7, CleanBefore DEF StaticCall
  <2>6. ASSUME NEW u \in DOMAIN F, u < i, NEW g, g = F[u]
        PROVE  /\ TypeKnown(g) /\ OffsetOf(g)' = OffsetOf(g) /\ EndOf(g)' = EndOf(g)
               /\ EndOf(g) \in Nat /\ EndOf(g) <= e
    <3>1. TypeKnown(g) /\ EndOf(g) <= e
      BY <2>5, <2>6 DEF StaticLaid
    <3>2. OffsetOf(g)' = OffsetOf(g)
      BY <1>6, <2>6
    <3>3. EndOf(g)' = EndOf(g)
      BY <1>2, <3>1, <3>2, EndStays
    <3>4. g.class \in Classes /\ g.index \in DOMAIN program[g.class].fields
      BY <1>4, <1>5a, <2>6
    <3> QED BY <3>1, <3>2, <3>3, <3>4, EndTyped
  <2>7. CASE j < i
    <3>1. ASSUME NEW u \in DOMAIN Statics(k), u <= j
          PROVE  TypeKnown(Statics(k)[u]) /\ OffsetOf(Statics(k)[u])' = OffsetOf(Statics(k)[u])
      <4> PICK g : g = F[u]
        OBVIOUS
      <4>1. u < i
        BY <1>5b, <2>7, <3>1
      <4>2. TypeKnown(g) /\ OffsetOf(g)' = OffsetOf(g)
        BY <2>6, <3>1, <4>1
      <4> QED BY <1>3, <4>2
    <3>2. StaticLaid(k, j, e) /\ e <= d /\ j \in DOMAIN Statics(k)
      BY <2>2, <2>3, <2>5, <2>7
    <3> QED BY <1>2, <1>4, <2>3, <3>1, <3>2, StaticLaidStays
  <2>8. CASE j = i
    <3>1. ASSUME NEW u \in DOMAIN F, u < i PROVE EndOf(F[u])' <= OffsetOf(f)'
      <4> PICK g : g = F[u]
        OBVIOUS
      <4>1. EndOf(g)' = EndOf(g) /\ EndOf(g) \in Nat /\ EndOf(g) <= e
        BY <2>6, <3>1
      <4>2. EndOf(g)' <= OffsetOf(f)'
        BY <2>3, <2>4, <4>1
      <4> QED BY <4>2
    <3>2. EndOf(f)' <= d
      BY <2>3, <2>4
    <3> QED BY <1>3, <1>5, <2>4, <2>8, <3>1, <3>2 DEF StaticLaid
  <2>9. j < i \/ j = i
    BY <1>5b, <1>7
  <2> QED BY <2>7, <2>8, <2>9
<1> QED BY <1>2, <1>3, <1>7 DEF StaticCall

LEMMA StaticsEnded ==
    ASSUME Context, StackOK, FieldsLaid, EndStatic, NEW k, k = Top.of
    PROVE  StaticsLaid(k)'
<1> PICK x : x = Top
  OBVIOUS
<1> PICK F : F = Statics(k)
  OBVIOUS
<1>1. /\ TypeOK' /\ Kept /\ calls # <<>> /\ Top.at = "static" /\ ~AtField
      /\ klass'[k].staticSize = AlignUp(x.end, x.alignment)
  BY EndStaticStep DEF At
<1>2. MetadataOK /\ Statics(k)' = F
  BY <1>1, ContextMetadata, StaticsSame
<1>3. /\ k \in Classes /\ x \in CallType /\ x.end \in Nat /\ x.next \in Nat
      /\ x.alignment \in Widths
      /\ StaticCall(x) /\ x.of = k /\ x.at = "static"
  BY <1>1, TopOngoing, CallFields DEF FieldsLaid
<1>4. klass'[k].staticSize \in Nat /\ x.end <= klass'[k].staticSize
  BY <1>1, <1>3, AlignUpFacts
<1>5. \A i \in DOMAIN F : i < x.next
  <2>1. ~(x.next <= Len(F))
    BY <1>1, <1>3 DEF AtField, Fields, Statics
  <2>2. DOMAIN F = 1 .. Len(F) /\ Len(F) \in Nat
    BY <1>2, <1>3, StaticFields
  <2> PICK n : n = Len(F)
    OBVIOUS
  <2> PICK m : m = x.next
    OBVIOUS
  <2>3. DOMAIN F = 1 .. n /\ n \in Nat /\ m \in Nat /\ ~(m <= n)
    BY <1>3, <2>1, <2>2
  <2>4. \A i \in 1 .. n : i < m
    BY ONLY <2>3
  <2> QED BY <2>3, <2>4
<1>6. ASSUME Clean(k, {"static"})', NEW i \in DOMAIN F
      PROVE  StaticLaid(k, i, klass[k].staticSize)'
  <2> PICK d : d = klass'[k].staticSize
    OBVIOUS
  <2> PICK e : e = x.end
    OBVIOUS
  <2>1. \A j \in DOMAIN F : StaticLaid(k, j, e)
    BY <1>1, <1>3, <1>5, <1>6, CleanBefore DEF StaticCall
  <2>2. ASSUME NEW j \in DOMAIN Statics(k)
        PROVE  TypeKnown(Statics(k)[j]) /\ OffsetOf(Statics(k)[j])' = OffsetOf(Statics(k)[j])
    <3> PICK g : g = F[j]
      OBVIOUS
    <3>1. TypeKnown(g)
      BY <2>1, <2>2 DEF StaticLaid
    <3>2. g.class \in Classes /\ g.index \in DOMAIN program[g.class].fields
      BY <1>2, <1>3, <2>2, StaticFields
    <3>3. OffsetOf(g)' = OffsetOf(g)
      BY <1>1, <3>2, OffsetsStay
    <3> QED BY <1>2, <3>1, <3>3
  <2>3. e \in Nat /\ d \in Nat /\ e <= d /\ StaticLaid(k, i, e) /\ i \in DOMAIN Statics(k)
    BY <1>3, <1>4, <2>1
  <2>4. StaticLaid(k, i, d)'
    BY <1>1, <1>3, <2>2, <2>3, StaticLaidStays
  <2> QED BY <2>4
<1> QED BY <1>2, <1>6 DEF StaticsLaid

(* The call at the top goes on. *)
LEMMA CallsContinue ==
    ASSUME Context, StackOK, FieldsLaid, Kept, Continues,
           \A y : y = Top' => LaidCall(y)' /\ StaticCall(y)'
    PROVE  \A n \in DOMAIN calls' : LaidCall(calls[n])' /\ StaticCall(calls[n])'
<1>1. SUFFICES ASSUME NEW n \in DOMAIN calls' PROVE LaidCall(calls[n])' /\ StaticCall(calls[n])'
  OBVIOUS
<1>2. n \in DOMAIN calls
  BY DEF Continues
<1> PICK y : y = calls'[n]
  OBVIOUS
<1>3. CASE n = Len(calls)
  <2>1. y = Top'
    BY <1>3 DEF Continues
  <2>2. LaidCall(y)' /\ StaticCall(y)'
    BY <2>1
  <2> QED BY <2>2
<1>4. CASE n # Len(calls)
  <2>1. y = calls[n]
    BY <1>2, <1>4 DEF Continues
  <2>2. LaidCall(y) /\ StaticCall(y) /\ \A c \in Classes : LaidClass(c)
    BY <1>2, <2>1 DEF FieldsLaid
  <2>3. LaidCall(y)' /\ StaticCall(y)'
    BY <1>2, <1>4, <2>1, <2>2, LaidCallStays, StaticCallStays
  <2> QED BY <2>3
<1> QED BY <1>3, <1>4

LEMMA TopParentRead ==
    ASSUME Context, StackOK, FieldsLaid, Kept, calls # <<>>, Top.at # "parent", NEW k, k = Top.of
    PROVE  ParentRead(k)'
<1>1. LaidCall(Top) /\ k \in Classes
  BY TopOngoing DEF FieldsLaid
<1> QED BY <1>1, ParentReadStays DEF LaidCall

LEMMA ContinuedCall ==
    ASSUME Context, StackOK, FieldsLaid, Kept,
           \/ StartLayout \/ LookForReference \/ StartInstance \/ PlaceInstanceField \/ EndInstance
           \/ PlaceStaticField \/ EndStatic \/ (Bitmap /\ ~Fails),
           NEW y, y = Top'
    PROVE  Continues /\ LaidCall(y)' /\ StaticCall(y)'
<1> PICK k : k = Top.of
  OBVIOUS
<1>1. MetadataOK /\ Parent(k)' = Parent(k)
  BY ContextMetadata, SameMetadata DEF Kept
<1>2. CASE StartLayout
  <2>1. /\ Continues /\ UNCHANGED klass /\ y.at = "references" /\ y.of = k
        /\ Parent(k) # NoClass /\ ~klass[Parent(k)].sized =>
               \A w \in {"references", "instance"} :
                   [by |-> k, of |-> Parent(k), what |-> w] \in early'
    BY <1>2, StartLayoutStep DEF Continues
  <2>2. ParentRead(k)'
    BY <1>1, <2>1 DEF ParentRead, Record
  <2> QED BY <2>1, <2>2 DEF LaidCall, StaticCall
<1>3. CASE LookForReference
  <2>1. Continues /\ At("references") /\ y.at = "references" /\ y.of = k
    BY <1>3, LookForReferenceStep DEF Continues
  <2>2. ParentRead(k)'
    BY <2>1, TopParentRead DEF At
  <2> QED BY <2>1, <2>2 DEF LaidCall, StaticCall
<1>4. CASE StartInstance
  <2>1. /\ Continues /\ At("references") /\ y.at = "instance" /\ y.of = k
        /\ y.next = 1 /\ y.end = 0 /\ k \in Classes
    BY <1>4, StartInstanceStep, CallFields DEF Continues
  <2>2. ParentRead(k)'
    BY <2>1, TopParentRead DEF At
  <2>3. EndBefore(k, 1)' = 0
    BY DEF EndBefore
  <2>4. \A i \in DOMAIN InstanceFields'[k] : ~(i < 1)
    <3>1. InstanceFields' = InstanceFields
      BY SameMetadata DEF Kept
    <3>2. Numbers(DOMAIN InstanceFields[k])
      BY <1>1, <2>1, FieldNumbers
    <3> PICK D : D = DOMAIN InstanceFields[k]
      OBVIOUS
    <3>3. \A i \in D : ~(i < 1)
      <4>1. Numbers(D)
        BY <3>2
      <4> QED BY ONLY <4>1 DEF Numbers
    <3> QED BY <3>1, <3>3
  <2>5. y.at = "instance" /\ y.at \notin {"static", "bitmap", "staticBitmap"}
    BY <2>1
  <2> QED BY <2>1, <2>2, <2>3, <2>4, <2>5 DEF LaidCall, StaticCall
<1>5. CASE PlaceInstanceField
  <2>1. Continues /\ y.at = "instance"
    BY <1>5, PlaceInstanceFieldStep DEF Placing, At
  <2> QED BY <1>5, <2>1, PlacedCall DEF StaticCall
<1>6. CASE EndInstance
  <2>1. /\ Continues /\ At("instance") /\ y.at = "static" /\ y.of = k /\ y.next = 1
        /\ k \in Classes
    BY <1>6, EndInstanceStep, CallFields DEF Continues
  <2>2. ParentRead(k)'
    BY <2>1, TopParentRead DEF At
  <2>3. \A i \in DOMAIN Statics(k)' : ~(i < 1)
    <3>1. Statics(k)' = Statics(k) /\ Numbers(DOMAIN Statics(k))
      BY <1>1, <2>1, StaticsSame, StaticFields
    <3> PICK D : D = DOMAIN Statics(k)
      OBVIOUS
    <3>2. \A i \in D : ~(i < 1)
      <4>1. Numbers(D)
        BY <3>1
      <4> QED BY ONLY <4>1 DEF Numbers
    <3> QED BY <3>1, <3>2
  <2> QED BY <2>1, <2>2, <2>3 DEF LaidCall, StaticCall
<1>7. CASE PlaceStaticField
  <2>1. Continues /\ At("static") /\ y.at = "static" /\ y.of = k
    BY <1>7, PlaceStaticFieldStep DEF Placing, At, Continues
  <2>2. ParentRead(k)'
    BY <2>1, TopParentRead DEF At
  <2> QED BY <1>7, <2>1, <2>2, PlacedStatic DEF LaidCall
<1>8. CASE EndStatic
  <2>1. Continues /\ At("static") /\ y.at = "bitmap" /\ y.of = k
    BY <1>8, EndStaticStep DEF Continues
  <2>2. ParentRead(k)'
    BY <2>1, TopParentRead DEF At
  <2>3. StaticsLaid(k)'
    BY <1>8, StaticsEnded
  <2> QED BY <2>1, <2>2, <2>3 DEF LaidCall, StaticCall
<1>9. CASE Bitmap /\ ~Fails
  <2>1. Continues /\ At("bitmap") /\ y.at = "staticBitmap" /\ y.of = k
    BY <1>9, BitmapStep DEF Continues
  <2>2. ParentRead(k)'
    BY <2>1, TopParentRead DEF At
  <2>3. StaticCall(Top) /\ k \in Classes
    BY <2>1, TopOngoing DEF FieldsLaid, At
  <2>4. StaticsLaid(k)'
    BY <2>1, <2>3, StaticsLaidStay DEF StaticCall, At
  <2> QED BY <2>1, <2>2, <2>4 DEF LaidCall, StaticCall
<1> QED BY <1>2, <1>3, <1>4, <1>5, <1>6, <1>7, <1>8, <1>9

LEMMA FieldsLaidKept ==
    ASSUME Context, StackOK, FieldsLaid, Next
    PROVE  FieldsLaid'
<1>1. TypeOK' /\ Kept /\ StackOK'
  BY NextKept
<1>2. \A c \in Classes : LaidClass(c) /\ StaticClass(c)
  BY DEF FieldsLaid
<1>3. ASSUME NEW k \in Classes PROVE LaidClass(k)'
  <2>1. CASE klass[k].sized
    BY <1>1, <1>2, <2>1, LaidClassStays
  <2>2. CASE ~klass[k].sized /\ klass'[k].sized
    <3>1. At("instance") /\ k = Top.of /\ calls # <<>>
      BY <1>1, <2>2, NewlySized DEF At
    <3>2. ~UNCHANGED klass
      BY <2>2
    <3>3. EndInstance
      <4>1. PlaceInstanceField \/ EndInstance
        BY <3>1, <3>2 DEF Next, At, Initialize, EnterParent, EnterFieldType, Enter, TypeMissing,
               StartLayout, LookForReference, StartInstance, OffsetMissing, PlaceStaticField,
               EndStatic, Bitmap, EndLayout
      <4>2. ASSUME PlaceInstanceField PROVE FALSE
        <5>1. Continues /\ Top'.at = "instance" /\ Top'.of = k
          BY <3>1, <4>2, PlaceInstanceFieldStep DEF Placing, At, Continues
        <5>2. Len(calls) \in DOMAIN calls' /\ Top' = calls'[Len(calls)]
          BY <3>1, <5>1, TopOngoing DEF Continues
        <5>3. klass'[k].sized <=> Top'.at \in Late
          BY <1>1, <5>1, <5>2 DEF StackOK, CallsOngoing
        <5> QED BY <2>2, <5>1, <5>3 DEF Late
      <4> QED BY <4>1, <4>2
    <3> QED BY <3>1, <3>3, InstanceEnded
  <2>3. CASE ~klass'[k].sized
    BY <2>3 DEF LaidClass
  <2> QED BY <2>1, <2>2, <2>3
<1>4. ASSUME NEW k \in Classes PROVE StaticClass(k)'
  <2>1. CASE klass[k].done
    <3>1. StaticsLaid(k)
      BY <1>2, <2>1 DEF StaticClass
    <3>2. At("static") => Top.of # k
      BY <2>1, TopOngoing DEF At
    <3> QED BY <1>1, <3>1, <3>2, StaticsLaidStay DEF StaticClass
  <2>2. CASE ~klass[k].done /\ klass'[k].done
    <3>1. At("staticBitmap") /\ k = Top.of
      <4>1. klass[k].done \in BOOLEAN
        BY KlassKnown DEF Context, TypeOK
      <4> QED BY <1>1, <2>2, <4>1 DEF Kept, ClassKept
    <3>2. StaticCall(Top)
      BY <3>1, TopOngoing DEF At, FieldsLaid
    <3>3. StaticsLaid(k)
      BY <3>1, <3>2 DEF StaticCall, At
    <3> QED BY <1>1, <3>1, <3>3, StaticsLaidStay DEF StaticClass, At
  <2>3. CASE ~klass'[k].done
    BY <2>3 DEF StaticClass
  <2> QED BY <2>1, <2>2, <2>3
<1>5. ASSUME NEW n \in DOMAIN calls' PROVE LaidCall(calls[n])' /\ StaticCall(calls[n])'
  <2> PICK y : y = calls'[n]
    OBVIOUS
  <2>1. ASSUME n \in DOMAIN calls, y = calls[n], n # Len(calls) \/ UNCHANGED klass
        PROVE  LaidCall(y)' /\ StaticCall(y)'
    <3>1. LaidCall(y) /\ StaticCall(y)
      BY <2>1 DEF FieldsLaid
    <3> QED BY <1>1, <1>2, <2>1, <3>1, LaidCallStays, StaticCallStays
  <2>2. CASE (\E k \in Classes : Initialize(k)) \/ EnterParent \/ EnterFieldType
    <3>1. PICK k : Pushes(k)
      BY <2>2, EnterSteps
    <3>2. /\ Len(calls) \in Nat /\ DOMAIN calls = 1 .. Len(calls)
          /\ DOMAIN calls' = 1 .. (Len(calls) + 1)
          /\ calls'[Len(calls) + 1] = Call(k)
          /\ \A i \in DOMAIN calls : calls'[i] = calls[i]
          /\ UNCHANGED klass
      BY <3>1, Pushed DEF Pushes, Context, TypeOK
    <3>3. n \in DOMAIN calls \/ n = Len(calls) + 1
      <4> PICK m : m = Len(calls)
        OBVIOUS
      <4>1. m \in Nat /\ n \in 1 .. (m + 1) /\ DOMAIN calls = 1 .. m
        BY <3>2
      <4> QED BY <4>1
    <3>4. CASE n \in DOMAIN calls
      BY <2>1, <3>2, <3>4
    <3>5. CASE n = Len(calls) + 1
      <4>1. y.at = "parent"
        BY <3>2, <3>5 DEF Call
      <4>2. LaidCall(y)' /\ StaticCall(y)'
        BY <4>1 DEF LaidCall, StaticCall
      <4> QED BY <4>2
    <3> QED BY <3>3, <3>4, <3>5
  <2>3. CASE TypeMissing \/ OffsetMissing
    <3>1. calls' = <<>>
      BY <2>3, FailSteps DEF Fails, Fail
    <3> QED BY <3>1
  <2>4. CASE Bitmap /\ Fails
    <3>1. calls' = <<>>
      BY <2>4 DEF Fails, Fail
    <3> QED BY <3>1
  <2>5. CASE \/ StartLayout \/ LookForReference \/ StartInstance \/ PlaceInstanceField
             \/ EndInstance \/ PlaceStaticField \/ EndStatic \/ (Bitmap /\ ~Fails)
    <3>1. \A z : z = Top' => Continues /\ LaidCall(z)' /\ StaticCall(z)'
      BY <1>1, <2>5, ContinuedCall
    <3>2. Continues
      BY <3>1
    <3> QED BY <1>1, <3>1, <3>2, CallsContinue
  <2>6. CASE EndLayout
    <3>1. calls # <<>> /\ calls' = Front(calls)
      BY <2>6, EndLayoutStep
    <3>2. n \in DOMAIN calls /\ calls'[n] = calls[n] /\ n # Len(calls)
      BY <3>1, Popped DEF Context, TypeOK
    <3> QED BY <2>1, <3>2
  <2> QED BY <2>2, <2>3, <2>4, <2>5, <2>6 DEF Next
<1> QED BY <1>3, <1>4, <1>5 DEF FieldsLaid
------------------------------------------------------------------------------
(* What the invariant says of the layouts.                                 *)

LEMMA PlacedInstance ==
    ASSUME Context, FieldsLaid, NEW k \in Classes, klass[k].sized, Clean(k, {"instance"})
    PROVE  InstancePlaced(k)
<1> PICK F : F = InstanceFields[k]
  OBVIOUS
<1> PICK size : size = klass[k].size
  OBVIOUS
<1>1. MetadataOK /\ LaidClass(k) /\ size \in Nat
  BY ContextMetadata, KlassKnown DEF FieldsLaid, Context, TypeOK
<1>2. \A i \in DOMAIN F : FieldLaid(k, i, size)
  BY <1>1 DEF LaidClass
<1>3. ASSUME NEW f, f \in ToSet(F) PROVE \E i \in DOMAIN F : f = F[i]
  BY <1>3 DEF ToSet
<1>4. ASSUME NEW f, f \in ToSet(F), Computed(k) \/ program[k].explicit \/ f.class = k
      PROVE  InBounds(f, size)
  <2>1. PICK i \in DOMAIN F : f = F[i]
    BY <1>3, <1>4
  <2>2. EndOf(f) <= size
    BY <1>2, <1>4, <2>1 DEF FieldLaid
  <2> QED BY <2>2 DEF InBounds, EndOf, TypeOf
<1>5. ASSUME Computed(k), NEW f, NEW g, f \in ToSet(F), g \in ToSet(F), f # g PROVE Apart(f, g)
  <2>1. PICK i \in DOMAIN F : f = F[i]
    BY <1>3, <1>5
  <2>2. PICK j \in DOMAIN F : g = F[j]
    BY <1>3, <1>5
  <2>3. i < j \/ j < i
    <3> PICK D : D = DOMAIN F
      OBVIOUS
    <3>1. Numbers(D) /\ i \in D /\ j \in D /\ i # j
      BY <1>1, <1>5, <2>1, <2>2, FieldNumbers
    <3> QED BY ONLY <3>1 DEF Numbers
  <2>4. CASE i < j
    <3>1. EndOf(f) <= OffsetOf(g)
      BY <1>2, <1>5, <2>1, <2>2, <2>4 DEF FieldLaid
    <3> QED BY <3>1 DEF Apart, EndOf, TypeOf
  <2>5. CASE j < i
    <3>1. EndOf(g) <= OffsetOf(f)
      BY <1>2, <1>5, <2>1, <2>2, <2>5 DEF FieldLaid
    <3> QED BY <3>1 DEF Apart, EndOf, TypeOf
  <2> QED BY <2>3, <2>4, <2>5
<1>6. ASSUME NEW f \in FieldsOf(k, FALSE) PROVE f \in ToSet(F) /\ f.class = k
  <2>1. PICK i \in DOMAIN F : F[i] = f /\ f.class = k
    BY <1>1, OwnAreInstance
  <2> QED BY <2>1 DEF ToSet
<1>7. ASSUME NEW f \in FieldsOf(k, FALSE), ~program[k].explicit
      PROVE  OffsetOf(f) % FieldAlignment(k, FieldOf(f).type) = 0
  <2>1. PICK i \in DOMAIN F : f = F[i]
    BY <1>3, <1>6
  <2> QED BY <1>2, <1>6, <1>7, <2>1 DEF FieldLaid, TypeOf
<1>8. Computed(k) => Placed(ToSet(F), size)
  BY <1>4, <1>5 DEF Placed
<1>9. program[k].explicit => \A f \in ToSet(F) : InBounds(f, size)
  BY <1>4
<1>10. \A f \in FieldsOf(k, FALSE) : InBounds(f, size)
  BY <1>4, <1>6
<1>11. ToSet(F) = ToSet(InstanceFields[k]) /\ size = klass[k].size
  OBVIOUS
<1> HIDE DEF Placed, InBounds
<1> QED BY <1>7, <1>8, <1>9, <1>10, <1>11 DEF InstancePlaced

LEMMA PlacedStatics ==
    ASSUME Context, FieldsLaid, NEW k \in Classes, klass[k].done, Clean(k, {"static"})
    PROVE  Placed(FieldsOf(k, TRUE), klass[k].staticSize)
<1> PICK F : F = Statics(k)
  OBVIOUS
<1> PICK size : size = klass[k].staticSize
  OBVIOUS
<1>1. MetadataOK /\ StaticClass(k)
  BY ContextMetadata DEF FieldsLaid
<1>2. \A i \in DOMAIN F : StaticLaid(k, i, size)
  BY <1>1 DEF StaticClass, StaticsLaid
<1>3. FieldsOf(k, TRUE) = ToSet(F)
  BY DEF FieldsOf, Statics
<1>4. ASSUME NEW f, f \in ToSet(F) PROVE \E i \in DOMAIN F : f = F[i]
  BY <1>4 DEF ToSet
<1>5. ASSUME NEW f, f \in ToSet(F) PROVE InBounds(f, size)
  <2>1. PICK i \in DOMAIN F : f = F[i]
    BY <1>4, <1>5
  <2>2. EndOf(f) <= size
    BY <1>2, <2>1 DEF StaticLaid
  <2> QED BY <2>2 DEF InBounds, EndOf, TypeOf
<1>6. ASSUME NEW f, NEW g, f \in ToSet(F), g \in ToSet(F), f # g PROVE Apart(f, g)
  <2>1. PICK i \in DOMAIN F : f = F[i]
    BY <1>4, <1>6
  <2>2. PICK j \in DOMAIN F : g = F[j]
    BY <1>4, <1>6
  <2>3. i < j \/ j < i
    <3> PICK D : D = DOMAIN F
      OBVIOUS
    <3>1. Numbers(D) /\ i \in D /\ j \in D /\ i # j
      BY <1>1, <1>6, <2>1, <2>2, StaticFields
    <3> QED BY ONLY <3>1 DEF Numbers
  <2>4. CASE i < j
    <3>1. EndOf(f) <= OffsetOf(g)
      BY <1>2, <2>1, <2>2, <2>4 DEF StaticLaid
    <3> QED BY <3>1 DEF Apart, EndOf, TypeOf
  <2>5. CASE j < i
    <3>1. EndOf(g) <= OffsetOf(f)
      BY <1>2, <2>1, <2>2, <2>5 DEF StaticLaid
    <3> QED BY <3>1 DEF Apart, EndOf, TypeOf
  <2> QED BY <2>3, <2>4, <2>5
<1> QED BY <1>3, <1>5, <1>6 DEF Placed

LEMMA LayoutsAreKept ==
    ASSUME Context, StackOK, FieldsLaid
    PROVE  InheritedKept
<1>1. ASSUME At("instance"), Ready, Field.class # Top.of, Computed(Top.of), Clean(Top.of, {"instance"})
      PROVE  OffsetOf(Field) = AlignUp(Top.end, FieldAlignment(Top.of, Type))
  <2>1. AtField
    BY <1>1 DEF Ready, Visits
  <2>2. Type = TypeOf(Field)
    BY DEF Type, TypeOf
  <2> QED BY <1>1, <2>1, <2>2, InheritedField
<1> QED BY <1>1 DEF InheritedKept, Clean

(* The layouts that do not rest on a size that was read too early, at      *)
(* every step: where the calls and the classes stand (StackOK) and where   *)
(* the fields are (FieldsLaid).                                            *)
LayoutIInv == TypeOK /\ StackOK /\ FieldsLaid

LEMMA LayoutInit ==
    ASSUME ProgramsAssumption, Init
    PROVE  LayoutIInv
<1>1. ASSUME NEW k \in Classes PROVE klass[k] \in KlassType(k) /\ ~klass[k].sized /\ ~klass[k].done
  <2>1. klass[k] = NotLaidOut(k)
    BY DEF Init
  <2>2. NotLaidOut(k).offsets \in [DOMAIN program[k].fields -> Nat]
    BY DEF NotLaidOut
  <2> QED BY <2>1, <2>2 DEF NotLaidOut, KlassType, Widths
<1>2. KlassesOK
  BY <1>1 DEF KlassesOK, Init
<1>3. calls \in Seq(CallType) /\ DOMAIN calls = {}
  BY DEF Init
<1>4. TypeOK
  BY <1>2, <1>3 DEF TypeOK, Init
<1>5. StackOK
  BY <1>1, <1>3 DEF StackOK, CallsDistinct, CallsOngoing, FlaggedKnown, StagesInOrder,
         CallersWait, Init
<1>6. FieldsLaid
  BY <1>1, <1>3 DEF FieldsLaid, LaidClass, StaticClass
<1> QED BY <1>4, <1>5, <1>6 DEF LayoutIInv

LEMMA LayoutStutters ==
    ASSUME Context, UNCHANGED vars, LayoutIInv
    PROVE  LayoutIInv'
<1>1. /\ calls' = calls /\ klass' = klass /\ program' = program /\ early' = early
      /\ flagged' = flagged /\ failed' = failed
  BY DEF vars
<1>2. Kept /\ (KlassesOK => KlassesOK')
  BY <1>1, KlassUnchanged
<1>3. TypeOK'
  BY <1>1, <1>2 DEF LayoutIInv, TypeOK
<1>4. StackOK'
  <2>1. CallsDistinct' /\ CallsOngoing' /\ FlaggedKnown' /\ StagesInOrder'
    BY <1>1 DEF LayoutIInv, StackOK, CallsDistinct, CallsOngoing, FlaggedKnown, StagesInOrder
  <2>2. \A c : Below(c)' = Below(c)
    BY <1>1, SameMetadata
  <2>3. CallersWait'
    BY <1>1, <2>2 DEF LayoutIInv, StackOK, CallersWait, Waits
  <2> QED BY <2>1, <2>3 DEF StackOK
<1>5. StackOK /\ FieldsLaid /\ \A c \in Classes : LaidClass(c) /\ StaticClass(c)
  BY DEF LayoutIInv, FieldsLaid
<1>6. ASSUME NEW k \in Classes PROVE LaidClass(k)' /\ StaticClass(k)'
  <2>1. LaidClass(k)'
    <3>1. CASE klass[k].sized
      BY <1>2, <1>5, <3>1, LaidClassStays
    <3>2. CASE ~klass[k].sized
      BY <1>1, <3>2 DEF LaidClass
    <3> QED BY <3>1, <3>2
  <2>2. StaticClass(k)'
    <3>1. CASE klass[k].done
      <4>1. StaticsLaid(k)
        BY <1>5, <3>1 DEF StaticClass
      <4>2. At("static") => Top.of # k
        BY <1>5, <3>1, TopOngoing DEF At
      <4> QED BY <1>2, <1>5, <4>1, <4>2, StaticsLaidStay DEF StaticClass
    <3>2. CASE ~klass[k].done
      BY <1>1, <3>2 DEF StaticClass
    <3> QED BY <3>1, <3>2
  <2> QED BY <2>1, <2>2
<1>7. ASSUME NEW n \in DOMAIN calls' PROVE LaidCall(calls[n])' /\ StaticCall(calls[n])'
  <2> PICK y : y = calls[n]
    OBVIOUS
  <2>1. LaidCall(y) /\ StaticCall(y) /\ n \in DOMAIN calls
    BY <1>1, <1>5 DEF FieldsLaid
  <2>2. LaidCall(y)' /\ StaticCall(y)'
    BY <1>1, <1>2, <1>5, <2>1, LaidCallStays, StaticCallStays
  <2> QED BY <1>1, <2>2
<1> QED BY <1>3, <1>4, <1>6, <1>7 DEF LayoutIInv, FieldsLaid

(* The invariant holds at every step, for all programs in which no class   *)
(* contains itself.                                                        *)
THEOREM LayoutInvariance ==
    ASSUME ProgramsValid PROVE Spec => []LayoutIInv
<1>1. Init => LayoutIInv
  BY LayoutInit, ProgramsAssumption
<1>2. ASSUME LayoutIInv, [Next]_vars PROVE LayoutIInv'
  <2>1. Context /\ StackOK /\ FieldsLaid
    BY <1>2, ProgramsAssumption, PlatformAssumption DEF LayoutIInv, Context
  <2>2. CASE Next
    BY <2>1, <2>2, NextKept, FieldsLaidKept DEF LayoutIInv
  <2>3. CASE UNCHANGED vars
    BY <1>2, <2>1, <2>3, LayoutStutters
  <2> QED BY <1>2, <2>2, <2>3
<1> QED BY <1>1, <1>2, PTL DEF Spec

(* A size is read too early only below static fields or after a failure,   *)
(* whichever the classes and their fields.                                 *)
THEOREM EarlyReadsExplained ==
    ASSUME ProgramsValid PROVE Spec => []EarlyOnlyBelowStatics
<1>1. ASSUME LayoutIInv PROVE EarlyOnlyBelowStatics
  BY <1>1, EarlyExplained, ProgramsAssumption, PlatformAssumption DEF LayoutIInv, Context
<1> QED BY <1>1, LayoutInvariance, PTL

(* Fields do not overlap, are aligned and within bounds, and those that    *)
(* are inherited stay where they were, for all classes and in every order  *)
(* in which they are initialized, but for those that read a size too early.*)
THEOREM LayoutsAreSound ==
    ASSUME ProgramsValid PROVE Spec => []LayoutsSound
<1>1. ASSUME LayoutIInv PROVE LayoutsSound
  <2>1. Context /\ StackOK /\ FieldsLaid
    BY <1>1, ProgramsAssumption, PlatformAssumption DEF LayoutIInv, Context
  <2>2. EarlyOnlyBelowStatics /\ InheritedKept
    BY <2>1, EarlyExplained, LayoutsAreKept
  <2>3. \A k \in Classes : klass[k].sized /\ ~ReadEarly(k, {"instance"}) => InstancePlaced(k)
    BY <2>1, PlacedInstance DEF Clean
  <2>4. \A k \in Classes : klass[k].done /\ ~ReadEarly(k, {"static"}) =>
            Placed(FieldsOf(k, TRUE), klass[k].staticSize)
    BY <2>1, PlacedStatics DEF Clean
  <2> QED BY <2>2, <2>3, <2>4 DEF LayoutsSound
<1> QED BY <1>1, LayoutInvariance, PTL
------------------------------------------------------------------------------
(* The references: which class knows that it has some.                     *)

(* What a class in progress has read too early has not got its size since: *)
(* it has failed, or its own call waits further down.                      *)
SizeReads == {"references", "instance", "static"}
Waiting(n, t) == t \in failed \/ \E j \in DOMAIN calls : j < n /\ calls[j].of = t
RecordsWait ==
    /\ \A e \in early : e.by \in flagged
    /\ \A n \in DOMAIN calls : calls[n].at = "parent" => calls[n].next = 1
    /\ \A n \in DOMAIN calls, e \in early :
           e.by = calls[n].of /\ e.what \in SizeReads => ~klass[e.of].sized /\ Waiting(n, e.of)

(* The steps in which the top of the stack goes on *)
GoesOn ==
    \/ StartLayout \/ LookForReference \/ StartInstance \/ PlaceInstanceField \/ EndInstance
    \/ PlaceStaticField \/ EndStatic \/ (Bitmap /\ ~Fails)

LEMMA GoesOnContinues ==
    ASSUME Context, GoesOn
    PROVE  Continues /\ Top'.at # "parent" /\ UNCHANGED flagged
BY StartLayoutStep, LookForReferenceStep, StartInstanceStep, PlaceInstanceFieldStep,
   EndInstanceStep, PlaceStaticFieldStep, EndStaticStep, BitmapStep DEF GoesOn, Placing, At

(* A call of the next state is one of this state, or has just begun. *)
LEMMA CallsMove ==
    ASSUME Context, Next
    PROVE  \A n \in DOMAIN calls' :
               \/ /\ n \in DOMAIN calls /\ calls'[n].of = calls[n].of
                  /\ \/ calls'[n] = calls[n]
                     \/ GoesOn /\ n = Len(calls) /\ calls'[n] = Top' /\ calls[n] = Top
                  /\ n = Len(calls) /\ GoesOn => calls'[n] = Top' /\ calls[n] = Top
                  /\ GoesOn \/ n # Len(calls) \/ UNCHANGED klass
               \/ /\ n \notin DOMAIN calls /\ \A j \in DOMAIN calls : j < n
                  /\ UNCHANGED <<klass, early, failed>>
                  /\ \E k \in Classes \ flagged : calls'[n] = Call(k)
<1>1. SUFFICES ASSUME NEW n \in DOMAIN calls'
      PROVE \/ /\ n \in DOMAIN calls /\ calls'[n].of = calls[n].of
               /\ \/ calls'[n] = calls[n]
                  \/ GoesOn /\ n = Len(calls) /\ calls'[n] = Top' /\ calls[n] = Top
               /\ n = Len(calls) /\ GoesOn => calls'[n] = Top' /\ calls[n] = Top
               /\ GoesOn \/ n # Len(calls) \/ UNCHANGED klass
            \/ /\ n \notin DOMAIN calls /\ \A j \in DOMAIN calls : j < n
               /\ UNCHANGED <<klass, early, failed>>
               /\ \E k \in Classes \ flagged : calls'[n] = Call(k)
  OBVIOUS
<1>2. CASE (\E k \in Classes : Initialize(k)) \/ EnterParent \/ EnterFieldType
  <2>1. PICK k : Pushes(k)
    BY <1>2, EnterSteps
  <2>2. /\ Len(calls) \in Nat /\ DOMAIN calls = 1 .. Len(calls)
        /\ DOMAIN calls' = 1 .. (Len(calls) + 1)
        /\ calls'[Len(calls) + 1] = Call(k)
        /\ \A i \in DOMAIN calls : calls'[i] = calls[i]
        /\ UNCHANGED <<klass, early, failed>> /\ k \in Classes \ flagged
    BY <2>1, Pushed DEF Pushes, Context, TypeOK
  <2>3. \/ n \in DOMAIN calls
        \/ n = Len(calls) + 1 /\ n \notin DOMAIN calls /\ \A j \in DOMAIN calls : j < n
    <3> PICK m : m = Len(calls)
      OBVIOUS
    <3> PICK D : D = DOMAIN calls
      OBVIOUS
    <3>1. m \in Nat /\ n \in 1 .. (m + 1) /\ D = 1 .. m
      BY <2>2
    <3>2. n \in D \/ (n = m + 1 /\ n \notin D /\ \A j \in D : j < n)
      BY ONLY <3>1
    <3> QED BY <3>2
  <2>4. ~GoesOn
    <3>1. Len(calls') # Len(calls)
      BY <2>1, Pushed DEF Pushes, Context, TypeOK
    <3>2. GoesOn => Len(calls') = Len(calls)
      BY GoesOnContinues DEF Continues
    <3> QED BY <3>1, <3>2
  <2> QED BY <2>2, <2>3, <2>4
<1>3. CASE TypeMissing \/ OffsetMissing
  <2>1. calls' = <<>>
    BY <1>3, FailSteps DEF Fails, Fail
  <2> QED BY <2>1
<1>4. CASE Bitmap /\ Fails
  <2>1. calls' = <<>>
    BY <1>4 DEF Fails, Fail
  <2> QED BY <2>1
<1>5. CASE GoesOn
  <2>1. Continues
    BY <1>5, GoesOnContinues
  <2>2. Top = calls[Len(calls)]
    BY DEF Top
  <2> QED BY <1>5, <2>1, <2>2 DEF Continues
<1>6. CASE EndLayout
  <2>1. calls # <<>> /\ calls' = Front(calls)
    BY <1>6, EndLayoutStep
  <2>2. n \in DOMAIN calls /\ calls'[n] = calls[n] /\ n # Len(calls)
    BY <2>1, Popped DEF Context, TypeOK
  <2> QED BY <2>2
<1> QED BY <1>2, <1>3, <1>4, <1>5, <1>6 DEF Next, GoesOn

(* What a step records *)
NewRecord(e) ==
    /\ calls # <<>> /\ e.by = Top.of
    /\ \/ /\ e.what \in SizeReads /\ e.of \in flagged /\ ~klass[e.of].sized
          /\ \/ At("parent") /\ e.of = Parent(Top.of) /\ e.what # "static"
             \/ At(e.what) /\ Visits /\ e.of = Type
       \/ At("bitmap") /\ e.what = "bitmap"
       \/ At("staticBitmap") /\ e.what = "staticBitmap"

LEMMA ReadRecords ==
    ASSUME Context, Ready, NEW what \in SizeReads, At(what), Reads(what)
    PROVE  \A e \in early' \ early : NewRecord(e)
<1>1. ASSUME NEW e \in early' \ early PROVE NewRecord(e)
  <2>1. Struct(Type) /\ ~klass[Type].sized /\ e = [by |-> Top.of, of |-> Type, what |-> what]
    BY <1>1, ReadsTyped DEF SizeReads
  <2>2. Type \in flagged /\ Visits /\ calls # <<>>
    BY <2>1 DEF Ready, Struct, Visits
  <2> QED BY <2>1, <2>2 DEF NewRecord
<1> QED BY <1>1

LEMMA NewRecords ==
    ASSUME Context, Next
    PROVE  \A e \in early' \ early : NewRecord(e)
<1>1. SUFFICES ASSUME NEW e \in early' \ early PROVE NewRecord(e)
  OBVIOUS
<1>2. CASE StartLayout
  <2>1. /\ At("parent") /\ Parent(Top.of) \notin Classes \ flagged
        /\ Parent(Top.of) # NoClass /\ ~klass[Parent(Top.of)].sized
        /\ e.by = Top.of /\ e.of = Parent(Top.of) /\ e.what \in {"references", "instance"}
    BY <1>1, <1>2, StartLayoutStep
  <2>2. Parent(Top.of) \in Classes
    <3>1. Top.of \in Classes
      BY <2>1, StackTop, CallFields DEF At, Context, TypeOK
    <3> QED BY <2>1, <3>1, ContextMetadata, ParentsFounded
  <2> QED BY <2>1, <2>2 DEF NewRecord, SizeReads, At
<1>3. CASE LookForReference
  BY <1>1, <1>3, LookForReferenceStep, ReadRecords DEF SizeReads
<1>4. CASE PlaceInstanceField
  BY <1>1, <1>4, PlaceInstanceFieldStep, ReadRecords DEF SizeReads
<1>5. CASE PlaceStaticField
  BY <1>1, <1>5, PlaceStaticFieldStep, ReadRecords DEF SizeReads
<1>6. CASE Bitmap
  <2>1. e.by = Top.of /\ e.what = "bitmap" /\ At("bitmap")
    BY <1>1, <1>6, BitmapStep
  <2> QED BY <2>1 DEF NewRecord, At
<1>7. CASE EndLayout
  <2>1. e.by = Top.of /\ e.what = "staticBitmap" /\ At("staticBitmap")
    BY <1>1, <1>7, EndLayoutStep
  <2> QED BY <2>1 DEF NewRecord, At
<1>8. CASE ~(StartLayout \/ LookForReference \/ PlaceInstanceField \/ PlaceStaticField \/ Bitmap \/ EndLayout)
  <2>1. early' = early
    BY <1>8 DEF Next, Initialize, EnterParent, EnterFieldType, Enter, TypeMissing, OffsetMissing,
           StartInstance, EndInstance, EndStatic
  <2> QED BY <1>1, <2>1
<1> QED BY <1>2, <1>3, <1>4, <1>5, <1>6, <1>7, <1>8

LEMMA RecordsWaitKept ==
    ASSUME Context, StackOK, RecordsWait, Next
    PROVE  RecordsWait'
<1>1. TypeOK' /\ Kept /\ StackOK' /\ MetadataOK
  BY NextKept, ContextMetadata
<1>2. ASSUME NEW e \in early' PROVE e.by \in flagged'
  <2>1. CASE e \in early
    BY <1>1, <2>1 DEF RecordsWait, Kept
  <2>2. CASE e \notin early
    <3>1. calls # <<>> /\ e.by = Top.of
      BY <2>2, NewRecords DEF NewRecord
    <3>2. Top.of \in flagged
      BY <3>1, TopOngoing DEF StackOK, CallsOngoing
    <3> QED BY <1>1, <3>1, <3>2 DEF Kept
  <2> QED BY <2>1, <2>2
<1>3. ASSUME NEW n \in DOMAIN calls', calls'[n].at = "parent" PROVE calls'[n].next = 1
  <2>1. ASSUME GoesOn, calls'[n] = Top' PROVE FALSE
    BY <1>3, <2>1, GoesOnContinues
  <2>2. ASSUME NEW k, calls'[n] = Call(k) PROVE calls'[n].next = 1
    BY <2>2 DEF Call
  <2> QED BY <1>3, <2>1, <2>2, CallsMove DEF RecordsWait
<1>4. ASSUME NEW n \in DOMAIN calls', NEW e \in early', e.by = calls'[n].of, e.what \in SizeReads
      PROVE  ~klass'[e.of].sized /\ Waiting(n, e.of)'
  <2>1. CASE n \notin DOMAIN calls
    <3>1. e \in early /\ calls'[n].of \notin flagged
      BY <1>4, <2>1, CallsMove DEF Call
    <3> QED BY <1>4, <3>1 DEF RecordsWait
  <2>2. CASE n \in DOMAIN calls
    <3>1. calls'[n].of = calls[n].of
      BY <2>2, CallsMove
    <3>2. e.of \in Classes
      BY <1>1 DEF TypeOK, Records
    <3>3. ~klass[e.of].sized /\ Waiting(n, e.of)
      <4>1. CASE e \in early
        BY <1>4, <2>2, <3>1, <4>1 DEF RecordsWait
      <4>2. CASE e \notin early
        <5>1. NewRecord(e)
          BY <4>2, NewRecords
        <5>2. n = Len(calls)
          BY <1>4, <2>2, <3>1, <5>1, TopOngoing DEF NewRecord
        <5>3. ~klass[e.of].sized /\ e.of \in flagged
          BY <1>4, <5>1 DEF NewRecord, SizeReads
        <5>4. ASSUME e.of \notin failed
              PROVE  \E j \in DOMAIN calls : j < n /\ calls[j].of = e.of
          <6>1. EarlyOnlyBelowStatics
            BY EarlyExplained
          <6>2. At(e.what) /\ Visits /\ e.of = Type
            BY <1>4, <5>1, <5>3, <5>4, <6>1 DEF NewRecord, SizeReads, EarlyOnlyBelowStatics
          <6>3. PICK i \in DOMAIN calls : calls[i].of = e.of /\ \E j \in i .. Len(calls) : calls[j].at = "static"
            BY <5>3, <5>4, <6>1, <6>2 DEF EarlyOnlyBelowStatics
          <6>4. i # Len(calls)
            <7>1. ASSUME i = Len(calls) PROVE FALSE
              <8>1. Top.of = e.of /\ ~klass[Top.of].sized /\ calls # <<>>
                BY <5>3, <6>2, <6>3, <7>1, TopOngoing DEF Visits
              <8>2. Top.at # "static"
                BY <8>1, TopOngoing DEF Late
              <8>3. Type \in Below(Top.of)
                BY <3>2, <6>2, <8>1, <8>2, AtFieldKnown DEF Visits
              <8> QED BY <1>1, <3>2, <6>2, <8>1, <8>3, BelowIrreflexive
            <7> QED BY <7>1
          <6>5. i < Len(calls)
            <7> PICK m : m = Len(calls)
              OBVIOUS
            <7>1. m \in Nat /\ i \in 1 .. m /\ i # m
              BY <5>1, <6>3, <6>4, StackTop DEF NewRecord, Context, TypeOK
            <7>2. i < m
              BY ONLY <7>1
            <7> QED BY <7>2
          <6> QED BY <5>2, <6>3, <6>5
        <5> QED BY <5>3, <5>4 DEF Waiting
      <4> QED BY <4>1, <4>2
    <3>4. ASSUME klass'[e.of].sized PROVE FALSE
      <4>1. At("instance") /\ e.of = Top.of /\ calls # <<>>
        BY <1>1, <3>2, <3>3, <3>4, NewlySized DEF At
      <4>2. e.of \notin failed
        BY <4>1, TopOngoing DEF StackOK, CallsOngoing
      <4>3. PICK j \in DOMAIN calls : j < n /\ calls[j].of = e.of
        BY <3>3, <4>2 DEF Waiting
      <4>4. j = Len(calls)
        BY <4>1, <4>3, TopOngoing
      <4> PICK m : m = Len(calls)
        OBVIOUS
      <4>5. m \in Nat /\ n \in 1 .. m /\ m < n
        BY <2>2, <4>1, <4>3, <4>4, StackTop DEF Context, TypeOK
      <4> QED BY ONLY <4>5
    <3>5. Waiting(n, e.of)'
      <4>1. CASE e.of \in failed
        BY <1>1, <4>1 DEF Waiting, Kept
      <4>2. CASE e.of \notin failed
        <5>1. PICK j \in DOMAIN calls : j < n /\ calls[j].of = e.of
          BY <3>3, <4>2 DEF Waiting
        <5>2. j \in DOMAIN calls'
          <6> PICK m : m = Len(calls')
            OBVIOUS
          <6> PICK l : l = Len(calls)
            OBVIOUS
          <6>1. m \in Nat /\ DOMAIN calls' = 1 .. m /\ l \in Nat /\ DOMAIN calls = 1 .. l
            BY <1>1 DEF TypeOK, Context
          <6>2. j \in 1 .. l /\ j < n /\ n \in 1 .. m
            BY <1>4, <5>1, <6>1
          <6>3. j \in 1 .. m
            BY ONLY <6>1, <6>2
          <6> QED BY <6>1, <6>3
        <5>3. calls'[j].of = calls[j].of
          BY <5>1, <5>2, CallsMove
        <5> QED BY <5>1, <5>2, <5>3 DEF Waiting
      <4> QED BY <4>1, <4>2
    <3> QED BY <3>4, <3>5
  <2> QED BY <2>1, <2>2
<1> QED BY <1>2, <1>3, <1>4 DEF RecordsWait

(* A class that finds no references: a type or the parent has none, or it  *)
(* is on record that it was not known yet.                                 *)
Members(k) == Own(k, FALSE)
Silent(k, t) ==
    /\ t # "ref"
    /\ Struct(t) => \/ Record(k, t, "references") \in early
                    \/ klass[t].sized /\ ~klass[t].hasReferences
ParentSilent(k) == Parent(k) # NoClass => Silent(k, Parent(k))
AllSilent(k) == ParentSilent(k) /\ \A i \in DOMAIN Members(k) : Silent(k, TypeOf(Members(k)[i]))

NotedClass(k) == klass[k].sized /\ ~klass[k].hasReferences => AllSilent(k)
NotedCall(x) ==
    /\ x.at = "instance" /\ ~klass[x.of].hasReferences => AllSilent(x.of)
    /\ x.at = "references" /\ ~x.refs =>
           /\ ParentSilent(x.of)
           /\ \A i \in DOMAIN Members(x.of) : i < x.next => Silent(x.of, TypeOf(Members(x.of)[i]))

ReferencesNoted ==
    /\ \A k \in Classes : NotedClass(k)
    /\ \A n \in DOMAIN calls : NotedCall(calls[n])

LEMMA MembersKnown ==
    ASSUME MetadataOK, NEW k \in Classes
    PROVE  /\ DOMAIN Members(k) = 1 .. Len(Members(k)) /\ Len(Members(k)) \in Nat
           /\ Numbers(DOMAIN Members(k))
           /\ \A i \in DOMAIN Members(k) : Members(k)[i] \in FieldsOf(k, FALSE)
           /\ \A f \in FieldsOf(k, FALSE) : \E i \in DOMAIN Members(k) : f = Members(k)[i]
BY OwnField, FieldNumbers DEF Members, FieldsOf, ToSet

LEMMA MembersSame ==
    ASSUME Kept
    PROVE  \A k : Members(k)' = Members(k)
BY SameMetadata DEF Members, Kept

LEMMA SilentStays ==
    ASSUME Context, StackOK, Kept, NEW k, NEW t, Silent(k, t)
    PROVE  Silent(k, t)'
<1>1. Record(k, t, "references")' = Record(k, t, "references") /\ (Struct(t)' <=> Struct(t))
  BY DEF Record, Struct
<1>2. CASE Struct(t) /\ klass[t].sized
  BY <1>1, <1>2, SizedStays DEF Silent, Struct, Kept
<1>3. CASE ~(Struct(t) /\ klass[t].sized)
  BY <1>1, <1>3 DEF Silent, Kept
<1> QED BY <1>2, <1>3

LEMMA ParentSilentStays ==
    ASSUME Context, StackOK, Kept, NEW k, ParentSilent(k)
    PROVE  ParentSilent(k)'
<1> PICK p : p = Parent(k)
  OBVIOUS
<1>1. Parent(k)' = p
  BY SameMetadata DEF Kept
<1>2. p # NoClass => Silent(k, p)'
  BY SilentStays DEF ParentSilent
<1> QED BY <1>1, <1>2 DEF ParentSilent

LEMMA MemberSilentStays ==
    ASSUME Context, StackOK, Kept, NEW k, NEW i, Silent(k, TypeOf(Members(k)[i]))
    PROVE  Silent(k, TypeOf(Members(k)[i]))'
<1> PICK t : t = TypeOf(Members(k)[i])
  OBVIOUS
<1>1. Members(k)' = Members(k)
  BY MembersSame
<1>2. TypeOf(Members(k)[i])' = t
  <2> PICK f : f = Members(k)[i]
    OBVIOUS
  <2>1. TypeOf(f)' = TypeOf(f)
    BY SameMetadata DEF Kept, TypeOf
  <2> QED BY <1>1, <2>1
<1>3. Silent(k, t)'
  BY SilentStays
<1> QED BY <1>2, <1>3

LEMMA AllSilentStays ==
    ASSUME Context, StackOK, Kept, NEW k, AllSilent(k)
    PROVE  AllSilent(k)'
<1>1. Members(k)' = Members(k)
  BY MembersSame
<1>2. ParentSilent(k)'
  BY ParentSilentStays DEF AllSilent
<1>3. \A i \in DOMAIN Members(k) : Silent(k, TypeOf(Members(k)[i]))'
  BY MemberSilentStays DEF AllSilent
<1> QED BY <1>1, <1>2, <1>3 DEF AllSilent

LEMMA NotedCallStays ==
    ASSUME Context, StackOK, Kept, NEW y, NotedCall(y),
           klass'[y.of].hasReferences = klass[y.of].hasReferences
    PROVE  NotedCall(y)'
<1>1. Members(y.of)' = Members(y.of)
  BY MembersSame
<1>2. AllSilent(y.of) => AllSilent(y.of)'
  BY AllSilentStays
<1>3. ParentSilent(y.of) => ParentSilent(y.of)'
  BY ParentSilentStays
<1>4. \A i \in DOMAIN Members(y.of) :
          Silent(y.of, TypeOf(Members(y.of)[i])) => Silent(y.of, TypeOf(Members(y.of)[i]))'
  BY MemberSilentStays
<1> QED BY <1>1, <1>2, <1>3, <1>4 DEF NotedCall

LEMMA NotedCallGoesOn ==
    ASSUME Context, StackOK, RecordsWait, ReferencesNoted, Kept, GoesOn, NEW y, y = Top'
    PROVE  NotedCall(y)'
<1> PICK k : k = Top.of
  OBVIOUS
<1>1. Continues /\ y.of = k /\ k \in Classes /\ calls # <<>> /\ MetadataOK
  BY GoesOnContinues, CallFields, ContextMetadata DEF Continues
<1>2. /\ NotedCall(Top) /\ Top \in CallType /\ (Top.at = "parent" => Top.next = 1)
      /\ y.next \in Nat /\ Top.next \in Nat
  BY <1>1, TopOngoing, CallFields DEF ReferencesNoted, RecordsWait, Continues
<1> PICK F : F = Members(k)
  OBVIOUS
<1>3. F = Members(k)' /\ DOMAIN F = 1 .. Len(F) /\ Len(F) \in Nat /\ Numbers(DOMAIN F)
  BY <1>1, MembersKnown, MembersSame
<1>4. \A i \in DOMAIN F : i \in Nat /\ i >= 1
  <2> PICK D : D = DOMAIN F
    OBVIOUS
  <2>1. Numbers(D)
    BY <1>3
  <2>2. \A i \in D : i \in Nat /\ i >= 1
    BY ONLY <2>1 DEF Numbers
  <2> QED BY <2>2
<1>5. CASE StartLayout
  <2>1. /\ At("parent") /\ y.at = "references" /\ y.next = Top.next
        /\ y.refs = (Parent(k) # NoClass /\ klass[Parent(k)].hasReferences)
        /\ UNCHANGED klass
        /\ Parent(k) # NoClass /\ ~klass[Parent(k)].sized =>
               [by |-> k, of |-> Parent(k), what |-> "references"] \in early'
    BY <1>5, StartLayoutStep
  <2>2. Parent(k)' = Parent(k) /\ (Parent(k) = NoClass \/ Parent(k) \in Classes)
    BY <1>1, ParentsFounded, SameMetadata DEF Kept
  <2>3. "ref" \notin Classes
    BY DEF Context, ProgramsAssumption, Primitives
  <2>4. ASSUME ~y.refs PROVE ParentSilent(k)'
    BY <2>1, <2>2, <2>3, <2>4 DEF ParentSilent, Silent, Record, Struct
  <2>5. \A i \in DOMAIN F : ~(i < y.next)
    <3>1. y.next = 1
      BY <1>2, <2>1 DEF At
    <3> PICK D : D = DOMAIN F
      OBVIOUS
    <3>2. \A i \in D : i \in Nat /\ i >= 1
      BY <1>4
    <3>3. \A i \in D : ~(i < 1)
      BY ONLY <3>2
    <3> QED BY <3>1, <3>3
  <2> QED BY <1>1, <1>3, <2>1, <2>4, <2>5 DEF NotedCall
<1>6. CASE LookForReference
  <2>1. /\ At("references") /\ Ready /\ Reads("references") /\ UNCHANGED klass
        /\ y.at = "references" /\ y.next = Top.next + 1
        /\ y.refs = IF Struct(Type) THEN klass[Type].hasReferences ELSE Type = "ref"
    BY <1>6, LookForReferenceStep
  <2>2. ~Top.refs
    BY <2>1 DEF Ready, Visits, Skipped, At
  <2>3. Top.next \in DOMAIN F /\ Field = F[Top.next] /\ TypeOf(F[Top.next]) = Type
    BY <1>1, <2>1, AtFieldKnown DEF Ready, Visits, At, Members, TypeOf
  <2> PICK t : t = Type
    OBVIOUS
  <2>4. ASSUME ~y.refs PROVE Silent(k, t)'
    <3>1. Struct(t) /\ ~klass[t].sized => Record(k, t, "references") \in early'
      BY <2>1, ReadsTyped DEF Record
    <3>2. t # "ref" /\ (Struct(t) => ~klass[t].hasReferences)
      BY <2>1, <2>4 DEF Struct, Context, ProgramsAssumption, Primitives
    <3> QED BY <2>1, <3>1, <3>2 DEF Silent, Record, Struct
  <2>5. ASSUME ~y.refs, NEW i \in DOMAIN F, i < y.next PROVE Silent(k, TypeOf(F[i]))'
    <3> PICK f : f = F[i]
      OBVIOUS
    <3>1. TypeOf(f)' = TypeOf(f)
      BY SameMetadata DEF Kept, TypeOf
    <3>2. CASE i = Top.next
      <4>1. TypeOf(f)' = t
        BY <2>3, <3>1, <3>2
      <4>2. Silent(k, TypeOf(f))'
        BY <2>4, <2>5, <4>1
      <4> QED BY <4>2
    <3>3. CASE i # Top.next
      <4>1. i < Top.next
        <5> PICK m : m = Top.next
          OBVIOUS
        <5>1. m \in Nat /\ i \in Nat /\ i < m + 1 /\ i # m
          BY <1>2, <1>4, <2>1, <2>5, <3>3
        <5>2. i < m
          BY ONLY <5>1
        <5> QED BY <5>2
      <4>2. Silent(k, TypeOf(f))
        BY <1>2, <1>3, <2>1, <2>2, <2>5, <4>1 DEF NotedCall, At
      <4> PICK u : u = TypeOf(f)
        OBVIOUS
      <4>3. Silent(k, u)'
        BY <4>2, SilentStays
      <4>4. Silent(k, TypeOf(f))'
        BY <3>1, <4>3
      <4> QED BY <4>4
    <3> QED BY <3>2, <3>3
  <2>6. ASSUME ~y.refs PROVE ParentSilent(k)'
    <3>1. ParentSilent(k)
      BY <1>2, <2>1, <2>2 DEF NotedCall, At
    <3> QED BY <3>1, ParentSilentStays
  <2> QED BY <1>1, <1>3, <2>1, <2>5, <2>6 DEF NotedCall
<1>7. CASE StartInstance
  <2>1. /\ At("references") /\ (AtField => Skipped) /\ y.at = "instance"
        /\ klass'[k].hasReferences = Top.refs
    BY <1>7, StartInstanceStep
  <2>2. ASSUME ~Top.refs PROVE AllSilent(k)'
    <3>1. ParentSilent(k) /\ \A i \in DOMAIN F : i < Top.next => Silent(k, TypeOf(F[i]))
      BY <1>2, <2>1, <2>2 DEF NotedCall, At
    <3>2. ~(Top.next <= Len(F))
      BY <1>1, <2>1, <2>2 DEF Skipped, AtField, Fields, At, Members
    <3>3. \A i \in DOMAIN F : i < Top.next
      <4> PICK n : n = Len(F)
        OBVIOUS
      <4> PICK m : m = Top.next
        OBVIOUS
      <4>1. DOMAIN F = 1 .. n /\ n \in Nat /\ m \in Nat /\ ~(m <= n)
        BY <1>2, <1>3, <3>2
      <4>2. \A i \in 1 .. n : i < m
        BY ONLY <4>1
      <4> QED BY <4>1, <4>2
    <3>4. AllSilent(k)
      BY <3>1, <3>3 DEF AllSilent
    <3> QED BY <3>4, AllSilentStays
  <2> QED BY <1>1, <2>1, <2>2 DEF NotedCall
<1>8. CASE PlaceInstanceField
  <2>1. At("instance") /\ y.at = "instance"
    BY <1>8, PlaceInstanceFieldStep DEF Placing, At
  <2>2. klass'[k].hasReferences = klass[k].hasReferences
    BY <1>1, <2>1 DEF Kept, ClassKept, At
  <2>3. ASSUME ~klass[k].hasReferences PROVE AllSilent(k)'
    <3>1. AllSilent(k)
      BY <1>2, <2>1, <2>3 DEF NotedCall, At
    <3> QED BY <3>1, AllSilentStays
  <2> QED BY <1>1, <2>1, <2>2, <2>3 DEF NotedCall
<1>9. CASE EndInstance \/ PlaceStaticField \/ EndStatic \/ (Bitmap /\ ~Fails)
  <2>1. y.at \in {"static", "bitmap", "staticBitmap"}
    BY <1>9, EndInstanceStep, PlaceStaticFieldStep, EndStaticStep, BitmapStep DEF Placing, At
  <2> QED BY <2>1 DEF NotedCall
<1> QED BY <1>5, <1>6, <1>7, <1>8, <1>9 DEF GoesOn

LEMMA ReferencesNotedKept ==
    ASSUME Context, StackOK, RecordsWait, ReferencesNoted, Next
    PROVE  ReferencesNoted'
<1>1. TypeOK' /\ Kept /\ StackOK' /\ MetadataOK
  BY NextKept, ContextMetadata
<1>2. ASSUME NEW k \in Classes PROVE NotedClass(k)'
  <2>1. SUFFICES ASSUME klass'[k].sized, ~klass'[k].hasReferences PROVE AllSilent(k)'
    BY DEF NotedClass
  <2>2. CASE klass[k].sized
    <3>1. ~klass[k].hasReferences
      BY <1>1, <2>1, <2>2, SizedStays
    <3>2. AllSilent(k)
      BY <2>2, <3>1 DEF ReferencesNoted, NotedClass
    <3> QED BY <1>1, <3>2, AllSilentStays
  <2>3. CASE ~klass[k].sized
    <3>1. At("instance") /\ k = Top.of /\ calls # <<>>
      BY <1>1, <2>1, <2>3, NewlySized DEF At
    <3>2. ~klass[k].hasReferences
      BY <1>1, <2>1, <3>1 DEF Kept, ClassKept, At
    <3>3. AllSilent(k)
      BY <3>1, <3>2, TopOngoing DEF ReferencesNoted, NotedCall, At
    <3> QED BY <1>1, <3>3, AllSilentStays
  <2> QED BY <2>2, <2>3
<1>3. ASSUME NEW n \in DOMAIN calls' PROVE NotedCall(calls[n])'
  <2> PICK y : y = calls'[n]
    OBVIOUS
  <2>1. CASE n \notin DOMAIN calls
    <3>1. y.at = "parent"
      BY <2>1, CallsMove DEF Call
    <3>2. NotedCall(y)'
      BY <3>1 DEF NotedCall
    <3> QED BY <3>2
  <2>2. CASE n \in DOMAIN calls /\ GoesOn /\ n = Len(calls)
    <3>1. y = Top'
      BY <2>2, CallsMove
    <3>2. NotedCall(y)'
      BY <1>1, <2>2, <3>1, NotedCallGoesOn
    <3> QED BY <3>2
  <2>3. CASE n \in DOMAIN calls /\ ~(GoesOn /\ n = Len(calls))
    <3>1. y = calls[n] /\ (n # Len(calls) \/ UNCHANGED klass)
      BY <2>3, CallsMove
    <3>2. NotedCall(y)
      BY <2>3, <3>1 DEF ReferencesNoted
    <3>3. klass'[y.of].hasReferences = klass[y.of].hasReferences
      <4>1. CASE n # Len(calls)
        <5>1. calls # <<>>
          BY <2>3
        <5>2. y.of # Top.of /\ y.of \in Classes
          BY <2>3, <3>1, <4>1, <5>1, TopOngoing, CallFields
        <5> QED BY <1>1, <5>2 DEF Kept, ClassKept
      <4>2. CASE UNCHANGED klass
        BY <4>2
      <4> QED BY <3>1, <4>1, <4>2
    <3>4. NotedCall(y)'
      BY <1>1, <3>2, <3>3, NotedCallStays
    <3> QED BY <3>4
  <2> QED BY <2>1, <2>2, <2>3
<1> QED BY <1>2, <1>3 DEF ReferencesNoted

------------------------------------------------------------------------------
(* The alignment of what holds references.                                 *)

(* A class that gets its size has just been ended. *)
LEMMA SizedByEnd ==
    ASSUME Context, StackOK, Next, NEW k \in Classes, ~klass[k].sized, klass'[k].sized
    PROVE  EndInstance /\ At("instance") /\ k = Top.of /\ calls # <<>>
<1>1. Kept /\ StackOK'
  BY NextKept
<1>2. At("instance") /\ k = Top.of /\ calls # <<>>
  BY <1>1, NewlySized DEF At
<1>3. ~UNCHANGED klass
  OBVIOUS
<1>4. PlaceInstanceField \/ EndInstance
  BY <1>2, <1>3 DEF Next, At, Initialize, EnterParent, EnterFieldType, Enter, TypeMissing,
         StartLayout, LookForReference, StartInstance, OffsetMissing, PlaceStaticField,
         EndStatic, Bitmap, EndLayout
<1>5. ASSUME PlaceInstanceField PROVE FALSE
  <2>1. Continues /\ Top'.at = "instance" /\ Top'.of = k
    BY <1>2, <1>5, PlaceInstanceFieldStep DEF Placing, At, Continues
  <2>2. Len(calls) \in DOMAIN calls' /\ Top' = calls'[Len(calls)]
    BY <1>2, <2>1, TopOngoing DEF Continues
  <2>3. klass'[k].sized <=> Top'.at \in Late
    BY <1>1, <2>1, <2>2 DEF StackOK, CallsOngoing
  <2> QED BY <2>1, <2>3 DEF Late
<1> QED BY <1>2, <1>4, <1>5

(* Who has read too early whether a type has references reads its size too *)
(* early, too.                                                             *)
ReadAgain(k, t) == Record(k, t, "references") \in early => Record(k, t, "instance") \in early

(* A type with references is as wide as a pointer, and so is a class with  *)
(* a field of the type, unless it is packed or the size was not there.     *)
Wide(t) == t = "ref" \/ (Struct(t) /\ klass[t].sized /\ klass[t].alignment >= PointerSize)
Aligned(k, t, alignment) ==
    /\ Struct(t) => klass[t].sized \/ Record(k, t, "instance") \in early
    /\ Wide(t) /\ Packing(k) = 0 => alignment >= PointerSize

AlignedClass(k) ==
    klass[k].sized =>
        /\ \A i \in DOMAIN InstanceFields[k] : ReadAgain(k, TypeOf(InstanceFields[k][i]))
        /\ IsValueClass(k) => klass[k].size >= 1
AlignedCall(x) ==
    /\ x.at = "instance" =>
           \A i \in DOMAIN InstanceFields[x.of] : i < x.next =>
               /\ ReadAgain(x.of, TypeOf(InstanceFields[x.of][i]))
               /\ Aligned(x.of, TypeOf(InstanceFields[x.of][i]), x.alignment)
    /\ x.at \in Late =>
           \A i \in DOMAIN InstanceFields[x.of] :
               Aligned(x.of, TypeOf(InstanceFields[x.of][i]), klass[x.of].alignment)

ReferencesAligned ==
    /\ \A k \in Classes : AlignedClass(k)
    /\ \A n \in DOMAIN calls : AlignedCall(calls[n])

LEMMA ReadAgainStays ==
    ASSUME Context, Next, NEW k, NEW t, ReadAgain(k, t), Kept,
           calls # <<>> /\ Top.of = k => Top.at \notin {"parent", "references"}
    PROVE  ReadAgain(k, t)'
<1>1. \A w : Record(k, t, w)' = Record(k, t, w)
  BY DEF Record
<1>2. SUFFICES ASSUME Record(k, t, "references") \in early' PROVE Record(k, t, "instance") \in early'
  BY <1>1 DEF ReadAgain
<1> PICK e : e = Record(k, t, "references")
  OBVIOUS
<1>3. e.by = k /\ e.what = "references" /\ e.of = t
  BY DEF Record
<1>4. ASSUME e \notin early PROVE FALSE
  <2>1. NewRecord(e)
    BY <1>2, <1>4, NewRecords
  <2>2. Top.of = k /\ calls # <<>> /\ (At("parent") \/ At("references"))
    BY <1>3, <2>1 DEF NewRecord
  <2> QED BY <2>2 DEF At
<1> QED BY <1>4 DEF ReadAgain, Kept

LEMMA AlignedStays ==
    ASSUME Context, StackOK, Kept, RecordsWait', NEW n \in DOMAIN calls', NEW k \in Classes,
           calls'[n].of = k, klass'[k].hasReferences = klass[k].hasReferences,
           NEW t, NEW alignment, Aligned(k, t, alignment)
    PROVE  Aligned(k, t, alignment)'
<1>1. \A w : Record(k, t, w)' = Record(k, t, w)
  BY DEF Record
<1>2. (Struct(t)' <=> Struct(t)) /\ Packing(k)' = Packing(k)
  BY DEF Struct, Packing, IsValueClass, Kept
<1>3. CASE Struct(t) /\ ~klass[t].sized
  <2> PICK e : e = Record(k, t, "instance")
    OBVIOUS
  <2>1. e \in early' /\ e.by = k /\ e.of = t /\ e.what = "instance"
    BY <1>3 DEF Aligned, Kept, Record
  <2>2. ~klass'[t].sized
    BY <2>1 DEF RecordsWait, SizeReads
  <2>3. t # "ref"
    BY <1>3 DEF Struct, Context, ProgramsAssumption, Primitives
  <2> QED BY <1>1, <1>2, <2>1, <2>2, <2>3 DEF Aligned, Wide
<1>4. CASE Struct(t) /\ klass[t].sized
  <2>1. klass'[t].sized /\ klass'[t].alignment = klass[t].alignment
    BY <1>4, SizedStays DEF Struct
  <2> QED BY <1>1, <1>2, <1>4, <2>1 DEF Aligned, Wide
<1>5. CASE ~Struct(t)
  BY <1>1, <1>2, <1>5 DEF Aligned, Wide
<1> QED BY <1>3, <1>4, <1>5

LEMMA InstanceTypeSame ==
    ASSUME Kept
    PROVE  /\ InstanceFields' = InstanceFields
           /\ \A k, i : TypeOf(InstanceFields[k][i])' = TypeOf(InstanceFields[k][i])
<1>1. InstanceFields' = InstanceFields
  BY SameMetadata DEF Kept
<1>2. ASSUME NEW k, NEW i PROVE TypeOf(InstanceFields[k][i])' = TypeOf(InstanceFields[k][i])
  <2> PICK f : f = InstanceFields[k][i]
    OBVIOUS
  <2>1. TypeOf(f)' = TypeOf(f)
    BY SameMetadata DEF Kept, TypeOf
  <2> QED BY <1>1, <2>1
<1> QED BY <1>1, <1>2

LEMMA AlignedCallStays ==
    ASSUME Context, StackOK, Next, Kept, RecordsWait', NEW n \in DOMAIN calls', n \in DOMAIN calls,
           NEW y, y = calls'[n], y = calls[n], AlignedCall(y), n # Len(calls) \/ UNCHANGED klass
    PROVE  AlignedCall(y)'
<1> PICK k : k = y.of
  OBVIOUS
<1>1. k \in Classes /\ y \in CallType /\ (n # Len(calls) => k # Top.of) /\ calls # <<>>
  BY TopOngoing, CallFields
<1>2. klass'[k].hasReferences = klass[k].hasReferences /\ klass'[k].alignment = klass[k].alignment
  BY <1>1 DEF Kept, ClassKept
<1>3. InstanceFields' = InstanceFields
  BY InstanceTypeSame
<1>4. ASSUME NEW i \in DOMAIN InstanceFields[k], NEW alignment,
             Aligned(k, TypeOf(InstanceFields[k][i]), alignment)
      PROVE  Aligned(k, TypeOf(InstanceFields[k][i]), alignment)'
  <2> PICK t : t = TypeOf(InstanceFields[k][i])
    OBVIOUS
  <2>1. TypeOf(InstanceFields[k][i])' = t
    BY InstanceTypeSame
  <2>2. Aligned(k, t, alignment)'
    BY <1>1, <1>2, <1>4, AlignedStays
  <2> QED BY <2>1, <2>2
<1>5. ASSUME y.at = "instance", NEW i \in DOMAIN InstanceFields[k],
             ReadAgain(k, TypeOf(InstanceFields[k][i]))
      PROVE  ReadAgain(k, TypeOf(InstanceFields[k][i]))'
  <2> PICK t : t = TypeOf(InstanceFields[k][i])
    OBVIOUS
  <2>1. TypeOf(InstanceFields[k][i])' = t
    BY InstanceTypeSame
  <2>2. Top.of = k => Top.at \notin {"parent", "references"}
    BY <1>1, <1>5, TopOngoing
  <2>3. ReadAgain(k, t)'
    BY <1>5, <2>2, ReadAgainStays
  <2> QED BY <2>1, <2>3
<1>6. y.at = "instance" => \A i \in DOMAIN InstanceFields[k] : i < y.next =>
          ReadAgain(k, TypeOf(InstanceFields[k][i]))' /\ Aligned(k, TypeOf(InstanceFields[k][i]), y.alignment)'
  <2> PICK alignment : alignment = y.alignment
    OBVIOUS
  <2> QED BY <1>4, <1>5 DEF AlignedCall
<1>7. y.at \in Late => \A i \in DOMAIN InstanceFields[k] :
          Aligned(k, TypeOf(InstanceFields[k][i]), klass[k].alignment)'
  <2> PICK alignment : alignment = klass[k].alignment
    OBVIOUS
  <2>1. y.at \in Late => \A i \in DOMAIN InstanceFields[k] :
            Aligned(k, TypeOf(InstanceFields[k][i]), alignment)'
    BY <1>4 DEF AlignedCall
  <2> QED BY <1>2, <2>1
<1> QED BY <1>3, <1>6, <1>7 DEF AlignedCall

LEMMA AlignedAtInstance ==
    ASSUME Context, StackOK, Next, Kept, RecordsWait, RecordsWait', StackOK', ReferencesAligned,
           PlaceInstanceField, NEW k, k = Top.of, NEW y, y = Top',
           NEW i \in DOMAIN InstanceFields[k], i < y.next, NEW t, t = TypeOf(InstanceFields[k][i])
    PROVE  ReadAgain(k, t)' /\ Aligned(k, t, y.alignment)'
<1> PICK n : n = Len(calls)
  OBVIOUS
<1>1. /\ Continues /\ At("instance") /\ Ready /\ Reads("instance") /\ Top'.at = "instance"
      /\ Top'.next = Top.next + 1 /\ Top'.alignment >= Top.alignment
      /\ Top'.alignment >= FieldAlignment(k, Type)
  BY PlaceInstanceFieldStep DEF Placing, At
<1>2. /\ k \in Classes /\ n \in DOMAIN calls /\ n \in DOMAIN calls' /\ calls'[n].of = k
      /\ calls[n] = Top /\ calls # <<>> /\ MetadataOK /\ AlignedCall(Top)
      /\ y.alignment \in Nat /\ Top.alignment \in Nat /\ Top.next \in Nat /\ PointerSize \in Nat
      /\ i \in Nat /\ Top \in CallType
  <2>1. /\ k \in Classes /\ n \in DOMAIN calls /\ n \in DOMAIN calls' /\ calls'[n].of = k
        /\ calls[n] = Top /\ calls # <<>> /\ MetadataOK /\ AlignedCall(Top)
        /\ Top \in CallType /\ y \in CallType
    BY <1>1, TopOngoing, ContextMetadata DEF Continues, ReferencesAligned
  <2>2. y.alignment \in Nat /\ Top.alignment \in Nat /\ Top.next \in Nat
    BY <2>1, CallFields DEF Widths
  <2>3. PointerSize \in Nat
    BY DEF Context, PlatformAssumption
  <2>4. i \in Nat
    <3> PICK D : D = DOMAIN InstanceFields[k]
      OBVIOUS
    <3>1. Numbers(D)
      BY <2>1, FieldNumbers
    <3> QED BY <3>1 DEF Numbers
  <2> QED BY <2>1, <2>2, <2>3, <2>4
<1>3. klass'[k].hasReferences = klass[k].hasReferences
  BY <1>1, <1>2 DEF Kept, ClassKept, At
<1>4. CASE i < Top.next
  <2>1. ReadAgain(k, t) /\ Aligned(k, t, Top.alignment)
    BY <1>1, <1>2, <1>4 DEF AlignedCall, At
  <2>2. ReadAgain(k, t)'
    BY <1>1, <2>1, ReadAgainStays DEF At
  <2> PICK a : a = Top.alignment
    OBVIOUS
  <2>3. Aligned(k, t, a)'
    BY <1>2, <1>3, <2>1, AlignedStays
  <2>4. y.alignment >= a /\ a \in Nat
    BY <1>1, <1>2
  <2>5. Wide(t)' /\ Packing(k)' = 0 => y.alignment >= PointerSize
    <3>1. Wide(t)' /\ Packing(k)' = 0 => a >= PointerSize
      BY <2>3 DEF Aligned
    <3> PICK b : b = y.alignment
      OBVIOUS
    <3>2. b \in Nat /\ b >= a
      BY <1>2, <2>4
    <3>3. a >= PointerSize => b >= PointerSize
      BY <1>2, <2>4, <3>2
    <3> QED BY <3>1, <3>3
  <2> QED BY <2>2, <2>3, <2>5 DEF Aligned
<1>5. CASE ~(i < Top.next)
  <2>1. i = Top.next
    <3> PICK m : m = Top.next
      OBVIOUS
    <3>1. m \in Nat /\ i \in Nat /\ i < m + 1 /\ ~(i < m)
      BY <1>1, <1>2, <1>5
    <3>2. i = m
      BY ONLY <3>1
    <3> QED BY <3>2
  <2>2. Type = t /\ t \in FieldTypes
    <3>1. AtField /\ Type # "missing"
      BY <1>1 DEF Ready, Visits
    <3>2. Field = InstanceFields[k][i] /\ Type \in FieldTypes
      BY <1>1, <1>2, <2>1, <3>1, AtFieldKnown DEF At
    <3> QED BY <3>2 DEF Type, TypeOf
  <2>3. Struct(t) /\ ~klass[t].sized => Record(k, t, "instance") \in early'
    BY <1>1, <2>2, ReadsTyped DEF Record
  <2>4. (Struct(t)' <=> Struct(t)) /\ \A w : Record(k, t, w)' = Record(k, t, w)
    BY DEF Struct, Record
  <2>5. ReadAgain(k, t)'
    <3> PICK e : e = Record(k, t, "references")
      OBVIOUS
    <3>1. e.by = k /\ e.what = "references" /\ e.of = t
      BY DEF Record
    <3>2. SUFFICES ASSUME e \in early' PROVE Record(k, t, "instance") \in early'
      BY <2>4 DEF ReadAgain
    <3>3. e \in early
      <4>1. ~At("parent") /\ ~At("references") /\ ~At("bitmap") /\ ~At("staticBitmap")
        BY <1>1 DEF At
      <4> QED BY <3>1, <3>2, <4>1, NewRecords DEF NewRecord
    <3>4. ~klass[t].sized
      BY <1>2, <3>1, <3>3 DEF RecordsWait, SizeReads
    <3>5. Struct(t)
      BY <3>1, <3>3 DEF Context, TypeOK, Records, Struct
    <3> QED BY <2>3, <3>4, <3>5
  <2>6. Struct(t) /\ ~klass[t].sized => ~klass'[t].sized
    <3> PICK e : e = Record(k, t, "instance")
      OBVIOUS
    <3>1. e.by = k /\ e.what = "instance" /\ e.of = t
      BY DEF Record
    <3> QED BY <1>2, <2>3, <3>1 DEF RecordsWait, SizeReads
  <2>7. Struct(t) /\ klass[t].sized => klass'[t].sized /\ klass'[t].alignment = klass[t].alignment
    BY SizedStays DEF Struct
  <2>8. ASSUME Wide(t)', Packing(k)' = 0 PROVE y.alignment >= PointerSize
    <3>1. Packing(k) = 0
      BY <1>3, <2>8 DEF Packing, IsValueClass, Kept
    <3>2. FieldAlignment(k, t) = AlignmentOf(t)
      BY <1>2, <2>2, <3>1, Alignments
    <3>3. AlignmentOf(t) >= PointerSize
      <4>1. CASE t = "ref"
        BY <1>2, <2>2, <4>1, Sizes
      <4>2. CASE t # "ref"
        <5>1. Struct(t) /\ klass'[t].sized /\ klass'[t].alignment >= PointerSize
          BY <2>4, <2>8, <4>2 DEF Wide
        <5>2. klass[t].alignment >= PointerSize
          BY <2>6, <2>7, <5>1
        <5> QED BY <5>1, <5>2 DEF AlignmentOf
      <4> QED BY <4>1, <4>2
    <3>4. AlignmentOf(t) \in Nat
      BY <2>2, Sizes DEF Widths
    <3> PICK a : a = AlignmentOf(t)
      OBVIOUS
    <3> PICK b : b = y.alignment
      OBVIOUS
    <3>5. a \in Nat /\ b \in Nat /\ a >= PointerSize /\ b >= a
      BY <1>1, <1>2, <2>2, <3>2, <3>3, <3>4
    <3>6. b >= PointerSize
      BY <1>2, <3>5
    <3> QED BY <3>6
  <2> QED BY <2>3, <2>4, <2>5, <2>7, <2>8 DEF Aligned
<1> QED BY <1>4, <1>5

LEMMA AlignedCallGoesOn ==
    ASSUME Context, StackOK, Next, Kept, RecordsWait, RecordsWait', StackOK', ReferencesAligned,
           GoesOn, NEW y, y = Top'
    PROVE  AlignedCall(y)'
<1> PICK k : k = Top.of
  OBVIOUS
<1> PICK n : n = Len(calls)
  OBVIOUS
<1>1. /\ Continues /\ y.of = k /\ k \in Classes /\ calls # <<>> /\ MetadataOK
      /\ n \in DOMAIN calls' /\ calls'[n].of = k /\ AlignedCall(Top)
      /\ klass[k].sized <=> Top.at \in Late
  BY GoesOnContinues, TopOngoing, ContextMetadata DEF Continues, ReferencesAligned
<1>2. InstanceFields' = InstanceFields
  BY InstanceTypeSame
<1>3. ASSUME klass'[k].hasReferences = klass[k].hasReferences, NEW a, y.at \in Late,
             \A i \in DOMAIN InstanceFields[k] : Aligned(k, TypeOf(InstanceFields[k][i]), a),
             klass'[k].alignment = a
      PROVE  AlignedCall(y)'
  <2>1. ASSUME NEW i \in DOMAIN InstanceFields[k]
        PROVE  Aligned(k, TypeOf(InstanceFields[k][i]), klass[k].alignment)'
    <3> PICK t : t = TypeOf(InstanceFields[k][i])
      OBVIOUS
    <3>1. TypeOf(InstanceFields[k][i])' = t
      BY InstanceTypeSame
    <3>2. Aligned(k, t, a)'
      BY <1>1, <1>3, AlignedStays
    <3> QED BY <1>3, <3>1, <3>2
  <2>2. y.at # "instance"
    BY <1>3 DEF Late
  <2> QED BY <1>1, <1>2, <2>1, <2>2 DEF AlignedCall
<1>4. CASE StartLayout \/ LookForReference
  <2>1. y.at = "references"
    BY <1>4, StartLayoutStep, LookForReferenceStep
  <2> QED BY <2>1 DEF AlignedCall, Late
<1>5. CASE StartInstance
  <2>1. y.at = "instance" /\ y.next = 1
    BY <1>5, StartInstanceStep
  <2>2. \A i \in DOMAIN InstanceFields[k] : ~(i < y.next)
    <3> PICK D : D = DOMAIN InstanceFields[k]
      OBVIOUS
    <3>1. Numbers(D)
      BY <1>1, FieldNumbers
    <3>2. \A i \in D : ~(i < 1)
      BY ONLY <3>1 DEF Numbers
    <3> QED BY <2>1, <3>2
  <2> QED BY <1>1, <1>2, <2>1, <2>2 DEF AlignedCall, Late
<1>6. CASE PlaceInstanceField
  <2>1. y.at = "instance"
    BY <1>6, PlaceInstanceFieldStep DEF Placing, At
  <2>2. ASSUME NEW i \in DOMAIN InstanceFields[k], i < y.next
        PROVE  ReadAgain(k, TypeOf(InstanceFields[k][i]))' /\ Aligned(k, TypeOf(InstanceFields[k][i]), y.alignment)'
    <3> PICK t : t = TypeOf(InstanceFields[k][i])
      OBVIOUS
    <3>1. TypeOf(InstanceFields[k][i])' = t
      BY InstanceTypeSame
    <3>2. ReadAgain(k, t)' /\ Aligned(k, t, y.alignment)'
      BY <1>6, <2>2, AlignedAtInstance
    <3> QED BY <3>1, <3>2
  <2> QED BY <1>1, <1>2, <2>1, <2>2 DEF AlignedCall, Late
<1>7. CASE EndInstance
  <2>1. /\ At("instance") /\ ~AtField /\ y.at = "static"
        /\ klass'[k].alignment = Top.alignment
    BY <1>7, EndInstanceStep
  <2>2. klass'[k].hasReferences = klass[k].hasReferences
    BY <1>1, <2>1 DEF Kept, ClassKept, At
  <2>3. \A i \in DOMAIN InstanceFields[k] : i < Top.next
    <3>1. ~(Top.next <= Len(InstanceFields[k])) /\ Top.next \in Nat
      BY <1>1, <2>1, TopOngoing, CallFields DEF AtField, Fields, At
    <3>2. Len(InstanceFields[k]) \in Nat /\ DOMAIN InstanceFields[k] = 1 .. Len(InstanceFields[k])
      <4>1. InstanceFields[k] \in Seq(Ref)
        BY <1>1, InstanceFieldsUnfolded
      <4> QED BY <4>1
    <3> PICK l : l = Len(InstanceFields[k])
      OBVIOUS
    <3> PICK m : m = Top.next
      OBVIOUS
    <3>3. DOMAIN InstanceFields[k] = 1 .. l /\ l \in Nat /\ m \in Nat /\ ~(m <= l)
      BY <3>1, <3>2
    <3>4. \A i \in 1 .. l : i < m
      BY ONLY <3>3
    <3> QED BY <3>3, <3>4
  <2>4. \A i \in DOMAIN InstanceFields[k] : Aligned(k, TypeOf(InstanceFields[k][i]), Top.alignment)
    BY <1>1, <2>1, <2>3 DEF AlignedCall, At
  <2> QED BY <1>3, <2>1, <2>2, <2>4 DEF Late
<1>8. CASE PlaceStaticField \/ EndStatic \/ (Bitmap /\ ~Fails)
  <2>1. Top.at \in Late /\ y.at \in Late
    BY <1>8, PlaceStaticFieldStep, EndStaticStep, BitmapStep DEF Placing, At, Late
  <2>2. klass'[k].hasReferences = klass[k].hasReferences /\ klass'[k].alignment = klass[k].alignment
    BY <1>1, <2>1, SizedStays
  <2>3. \A i \in DOMAIN InstanceFields[k] : Aligned(k, TypeOf(InstanceFields[k][i]), klass[k].alignment)
    BY <1>1, <2>1 DEF AlignedCall
  <2> QED BY <1>3, <2>1, <2>2, <2>3
<1> QED BY <1>4, <1>5, <1>6, <1>7, <1>8 DEF GoesOn

LEMMA ReferencesAlignedKept ==
    ASSUME Context, StackOK, RecordsWait, RecordsWait', ReferencesAligned, Next
    PROVE  ReferencesAligned'
<1>1. TypeOK' /\ Kept /\ StackOK' /\ MetadataOK
  BY NextKept, ContextMetadata
<1>2. InstanceFields' = InstanceFields /\ program' = program
  BY <1>1, InstanceTypeSame DEF Kept
<1>3. ASSUME NEW k \in Classes PROVE AlignedClass(k)'
  <2>1. SUFFICES ASSUME klass'[k].sized
                 PROVE  /\ \A i \in DOMAIN InstanceFields[k] : ReadAgain(k, TypeOf(InstanceFields[k][i]))'
                        /\ IsValueClass(k) => klass'[k].size >= 1
    BY <1>2 DEF AlignedClass, IsValueClass
  <2>2. CASE klass[k].sized
    <3>1. klass'[k].size = klass[k].size
      BY <1>1, <2>2, SizedStays
    <3>2. ASSUME NEW i \in DOMAIN InstanceFields[k] PROVE ReadAgain(k, TypeOf(InstanceFields[k][i]))'
      <4> PICK t : t = TypeOf(InstanceFields[k][i])
        OBVIOUS
      <4>1. TypeOf(InstanceFields[k][i])' = t
        BY <1>1, InstanceTypeSame
      <4>2. ReadAgain(k, t)
        BY <2>2 DEF ReferencesAligned, AlignedClass
      <4>3. calls # <<>> /\ Top.of = k => Top.at \notin {"parent", "references"}
        BY <2>2, TopOngoing DEF Late
      <4>4. ReadAgain(k, t)'
        BY <1>1, <4>2, <4>3, ReadAgainStays
      <4> QED BY <4>1, <4>4
    <3> QED BY <2>2, <3>1, <3>2 DEF ReferencesAligned, AlignedClass
  <2>3. CASE ~klass[k].sized
    <3>1. EndInstance /\ At("instance") /\ k = Top.of /\ calls # <<>>
      BY <2>1, <2>3, SizedByEnd
    <3>2. /\ IsValueClass(k) => klass'[k].size >= 1
          /\ ~AtField
      BY <3>1, EndInstanceStep
    <3>3. AlignedCall(Top)
      BY <3>1, TopOngoing DEF ReferencesAligned
    <3>4. \A i \in DOMAIN InstanceFields[k] : i < Top.next
      <4>1. ~(Top.next <= Len(InstanceFields[k])) /\ Top.next \in Nat
        BY <3>1, <3>2, TopOngoing, CallFields DEF AtField, Fields, At
      <4>2. Len(InstanceFields[k]) \in Nat /\ DOMAIN InstanceFields[k] = 1 .. Len(InstanceFields[k])
        <5>1. InstanceFields[k] \in Seq(Ref)
          BY <1>1, InstanceFieldsUnfolded
        <5> QED BY <5>1
      <4> PICK l : l = Len(InstanceFields[k])
        OBVIOUS
      <4> PICK m : m = Top.next
        OBVIOUS
      <4>3. DOMAIN InstanceFields[k] = 1 .. l /\ l \in Nat /\ m \in Nat /\ ~(m <= l)
        BY <4>1, <4>2
      <4>4. \A i \in 1 .. l : i < m
        BY ONLY <4>3
      <4> QED BY <4>3, <4>4
    <3>5. ASSUME NEW i \in DOMAIN InstanceFields[k] PROVE ReadAgain(k, TypeOf(InstanceFields[k][i]))'
      <4> PICK t : t = TypeOf(InstanceFields[k][i])
        OBVIOUS
      <4>1. TypeOf(InstanceFields[k][i])' = t
        BY <1>1, InstanceTypeSame
      <4>2. ReadAgain(k, t)
        BY <3>1, <3>3, <3>4 DEF AlignedCall, At
      <4>3. ReadAgain(k, t)'
        BY <1>1, <3>1, <4>2, ReadAgainStays DEF At
      <4> QED BY <4>1, <4>3
    <3> QED BY <3>2, <3>5
  <2> QED BY <2>2, <2>3
<1>4. ASSUME NEW n \in DOMAIN calls' PROVE AlignedCall(calls[n])'
  <2> PICK y : y = calls'[n]
    OBVIOUS
  <2>1. CASE n \notin DOMAIN calls
    <3>1. y.at = "parent"
      BY <2>1, CallsMove DEF Call
    <3>2. AlignedCall(y)'
      BY <3>1 DEF AlignedCall, Late
    <3> QED BY <3>2
  <2>2. CASE n \in DOMAIN calls /\ GoesOn /\ n = Len(calls)
    <3>1. y = Top'
      BY <2>2, CallsMove
    <3>2. AlignedCall(y)'
      BY <1>1, <2>2, <3>1, AlignedCallGoesOn
    <3> QED BY <3>2
  <2>3. CASE n \in DOMAIN calls /\ ~(GoesOn /\ n = Len(calls))
    <3>1. y = calls[n] /\ (n # Len(calls) \/ UNCHANGED klass)
      BY <2>3, CallsMove
    <3>2. AlignedCall(y)
      BY <2>3, <3>1 DEF ReferencesAligned
    <3>3. AlignedCall(y)'
      BY <1>1, <2>3, <3>1, <3>2, AlignedCallStays
    <3> QED BY <3>3
  <2> QED BY <2>1, <2>2, <2>3
<1> QED BY <1>3, <1>4 DEF ReferencesAligned

------------------------------------------------------------------------------
(* The memory for static fields has room for the references in them.       *)
RoomyCall(x) ==
    Clean(x.of, {"static"}) =>
        /\ x.at = "static" =>
               \A i \in DOMAIN Statics(x.of) : i < x.next /\ Wide(TypeOf(Statics(x.of)[i])) =>
                   x.end >= 1 /\ x.alignment >= PointerSize
        /\ x.at \in {"bitmap", "staticBitmap"} =>
               \A i \in DOMAIN Statics(x.of) :
                   Wide(TypeOf(Statics(x.of)[i])) => klass[x.of].staticSize >= PointerSize

StaticsRoomy == \A n \in DOMAIN calls : RoomyCall(calls[n])

(* Whether a type that is known is wide is settled. *)
LEMMA WideSettled ==
    ASSUME Context, StackOK, Kept, NEW k, NEW i, TypeKnown(Statics(k)[i])
    PROVE  Wide(TypeOf(Statics(k)[i]))' <=> Wide(TypeOf(Statics(k)[i]))
<1> PICK f : f = Statics(k)[i]
  OBVIOUS
<1> PICK t : t = TypeOf(f)
  OBVIOUS
<1>1. TypeOf(f)' = t /\ Statics(k)' = Statics(k)
  BY SameMetadata, StaticsSame DEF Kept, TypeOf
<1>2. Struct(t) => klass[t].sized
  BY DEF TypeKnown
<1>3. Struct(t)' <=> Struct(t)
  BY DEF Struct
<1>4. Struct(t) => klass'[t].sized /\ klass'[t].alignment = klass[t].alignment
  BY <1>2, SizedStays DEF Struct
<1>5. Wide(t)' <=> Wide(t)
  BY <1>2, <1>3, <1>4 DEF Wide
<1>6. Wide(TypeOf(f))' <=> Wide(t)'
  BY <1>1 DEF Wide, Struct
<1>7. Wide(TypeOf(Statics(k)[i]))' <=> Wide(TypeOf(f))'
  BY <1>1 DEF Wide, Struct, TypeOf, FieldOf
<1> QED BY <1>5, <1>6, <1>7

LEMMA RoomyCallStays ==
    ASSUME Context, StackOK, Kept, NEW y, RoomyCall(y), StaticCall(y),
           klass'[y.of].staticSize = klass[y.of].staticSize
    PROVE  RoomyCall(y)'
<1> PICK k : k = y.of
  OBVIOUS
<1>1. Statics(k)' = Statics(k)
  BY StaticsSame
<1>2. SUFFICES ASSUME Clean(k, {"static"})' PROVE RoomyCall(y)'
  BY DEF RoomyCall
<1>3. Clean(k, {"static"})
  BY <1>2, CleanBefore
<1>4. ASSUME y.at = "static", NEW i \in DOMAIN Statics(k), i < y.next, Wide(TypeOf(Statics(k)[i]))'
      PROVE  y.end >= 1 /\ y.alignment >= PointerSize
  <2>1. TypeKnown(Statics(k)[i])
    BY <1>3, <1>4 DEF StaticCall, StaticLaid
  <2>2. Wide(TypeOf(Statics(k)[i]))
    BY <1>4, <2>1, WideSettled
  <2> QED BY <1>3, <1>4, <2>2 DEF RoomyCall
<1>5. ASSUME y.at \in {"bitmap", "staticBitmap"}, NEW i \in DOMAIN Statics(k), Wide(TypeOf(Statics(k)[i]))'
      PROVE  klass'[k].staticSize >= PointerSize
  <2>1. TypeKnown(Statics(k)[i])
    BY <1>3, <1>5 DEF StaticCall, StaticsLaid, StaticLaid
  <2>2. Wide(TypeOf(Statics(k)[i]))
    BY <1>5, <2>1, WideSettled
  <2> QED BY <1>3, <1>5, <2>2 DEF RoomyCall
<1> QED BY <1>1, <1>4, <1>5 DEF RoomyCall

LEMMA RoomyPlaced ==
    ASSUME Context, StackOK, FieldsLaid, ReferencesAligned, StaticsRoomy, PlaceStaticField,
           NEW y, y = Top'
    PROVE  RoomyCall(y)'
<1> PICK x : x = Top
  OBVIOUS
<1> PICK k : k = Top.of
  OBVIOUS
<1> PICK i : i = Top.next
  OBVIOUS
<1> PICK t : t = Type
  OBVIOUS
<1> PICK a : a = AlignmentOf(t)
  OBVIOUS
<1> PICK F : F = Statics(k)
  OBVIOUS
<1>1. /\ Placing(AlignmentOf(t)) /\ At("static") /\ Ready /\ Reads("static")
      /\ y.end = AlignUp(x.end, AlignmentOf(t)) + SizeOf(t)
  BY PlaceStaticFieldStep
<1>2. /\ Kept /\ Continues /\ calls # <<>> /\ AtField /\ Top.at = "static"
      /\ y.at = "static" /\ y.next = i + 1 /\ y.of = k
      /\ y.alignment >= x.alignment /\ y.alignment >= a
  BY <1>1 DEF Placing, Ready, Visits, At, Continues
<1>3. MetadataOK /\ Statics(k)' = F /\ Ancestry' = Ancestry
  BY <1>2, ContextMetadata, StaticsSame, SameMetadata DEF Kept
<1>4. /\ x \in CallType /\ y \in CallType /\ k \in Classes /\ x.end \in Nat /\ y.end \in Nat
      /\ x.alignment \in Nat /\ y.alignment \in Nat /\ i \in Nat
      /\ StaticCall(x) /\ RoomyCall(x) /\ x.of = k /\ x.at = "static" /\ x.next = i
  <2>1. /\ x \in CallType /\ y \in CallType /\ k \in Classes
        /\ StaticCall(x) /\ RoomyCall(x) /\ x.of = k /\ x.at = "static" /\ x.next = i
    BY <1>2, TopOngoing DEF Continues, FieldsLaid, StaticsRoomy
  <2> QED BY <2>1, CallFields DEF Widths
<1>5. i \in DOMAIN F /\ Field = F[i] /\ t = TypeOf(F[i]) /\ t \in FieldTypes
  BY <1>1, <1>2, AtFieldKnown DEF Statics, TypeOf, Ready
<1>6. SUFFICES ASSUME Clean(k, {"static"})', NEW j \in DOMAIN F, j < i + 1, Wide(TypeOf(F[j]))'
               PROVE  y.end >= 1 /\ y.alignment >= PointerSize
  BY <1>2, <1>3 DEF RoomyCall
<1>7. Clean(k, {"static"})
  BY <1>2, <1>6, CleanBefore
<1>8. TypeKnown(F[i])
  <2>1. ASSUME Struct(t), ~klass[t].sized PROVE FALSE
    <3>1. Record(k, t, "static") \in early'
      BY <1>1, <2>1 DEF Reads, Record
    <3>2. k \in Ancestry[k]
      BY <1>3, <1>4, AncestryFacts
    <3> QED BY <1>3, <1>6, <3>1, <3>2 DEF Clean, ReadEarly, Record
  <2> QED BY <1>5, <2>1 DEF TypeKnown
<1> PICK s : s = SizeOf(t)
  OBVIOUS
<1> PICK e : e = x.end
  OBVIOUS
<1> PICK d : d = y.end
  OBVIOUS
<1>9. s \in Nat /\ a \in Widths
  BY <1>5, <1>8, Sizes DEF TypeKnown
<1>10. AlignUp(e, a) \in Nat /\ e <= AlignUp(e, a) /\ d = AlignUp(e, a) + s /\ e \in Nat /\ d \in Nat
  BY <1>1, <1>4, <1>9, AlignUpFacts
<1>10a. d >= e /\ d >= s
  <2> PICK o : o = AlignUp(e, a)
    OBVIOUS
  <2>1. o \in Nat /\ e <= o /\ d = o + s /\ e \in Nat /\ s \in Nat
    BY <1>9, <1>10
  <2>2. d >= e /\ d >= s
    BY ONLY <2>1
  <2> QED BY <2>2
<1> PICK P : P = PointerSize
  OBVIOUS
<1> PICK b : b = y.alignment
  OBVIOUS
<1>11. P \in {4, 8} /\ b \in Nat /\ a \in Nat
  BY <1>4, <1>9 DEF Context, PlatformAssumption, Widths
<1>12. Wide(TypeOf(F[j]))
  <2>1. TypeKnown(Statics(k)[j])
    <3>1. CASE j = i
      BY <1>8, <3>1
    <3>2. CASE j # i
      <4> PICK D : D = DOMAIN F
        OBVIOUS
      <4>1. Numbers(D) /\ j \in D /\ i \in D /\ j < i + 1 /\ j # i
        BY <1>3, <1>4, <1>5, <1>6, <3>2, StaticFields
      <4>2. j < i
        BY ONLY <4>1 DEF Numbers
      <4>3. StaticLaid(k, j, x.end)
        BY <1>4, <1>6, <1>7, <4>2 DEF StaticCall
      <4> QED BY <4>3 DEF StaticLaid
    <3> QED BY <3>1, <3>2
  <2>2. Wide(TypeOf(Statics(k)[j]))'
    <3> PICK f : f = F[j]
      OBVIOUS
    <3>1. Wide(TypeOf(f))'
      BY <1>6
    <3>2. f = (Statics(k)')[j]
      BY <1>3
    <3> QED BY <3>1, <3>2
  <2> QED BY <1>2, <2>1, <2>2, WideSettled
<1>13. CASE j # i
  <2>1. j < i
    <3> PICK D : D = DOMAIN F
      OBVIOUS
    <3>1. Numbers(D) /\ j \in D /\ i \in D /\ j < i + 1 /\ j # i
      BY <1>3, <1>4, <1>5, <1>6, <1>13, StaticFields
    <3> QED BY ONLY <3>1 DEF Numbers
  <2> PICK c : c = x.alignment
    OBVIOUS
  <2>2. e >= 1 /\ c >= P /\ c \in Nat /\ b >= c
    BY <1>2, <1>4, <1>6, <1>7, <1>12, <2>1 DEF RoomyCall
  <2>3. d >= 1 /\ b >= P
    BY ONLY <1>10, <1>10a, <1>11, <2>2
  <2> QED BY <2>3
<1>14. CASE j = i
  <2>1. Wide(t)
    BY <1>5, <1>12, <1>14
  <2>2. a >= P /\ s >= 1
    <3>1. CASE t = "ref"
      <4>1. a = P /\ s = P
        BY <1>5, <3>1, Sizes
      <4> QED BY ONLY <1>11, <4>1
    <3>2. CASE t # "ref"
      <4>1. Struct(t) /\ klass[t].sized /\ klass[t].alignment >= PointerSize
        BY <2>1, <3>2 DEF Wide
      <4>2. t \in Classes /\ a = klass[t].alignment /\ s = klass[t].size
        BY <4>1 DEF AlignmentOf, SizeOf, Struct
      <4>3. program[t].struct
        BY <1>3, <1>5, <4>2, AtFieldKnown, <1>2, FieldTypesAreStructs DEF TypeOf
      <4>4. s >= 1
        BY <4>1, <4>2, <4>3 DEF ReferencesAligned, AlignedClass, IsValueClass
      <4> QED BY <4>1, <4>2, <4>4
    <3> QED BY <3>1, <3>2
  <2>3. b >= a
    BY <1>2
  <2>4. d >= 1 /\ b >= P
    BY ONLY <1>9, <1>10, <1>10a, <1>11, <2>2, <2>3
  <2> QED BY <2>4
<1> QED BY <1>13, <1>14

LEMMA RoomyEnded ==
    ASSUME Context, StackOK, FieldsLaid, StaticsRoomy, EndStatic, NEW y, y = Top'
    PROVE  RoomyCall(y)'
<1> PICK x : x = Top
  OBVIOUS
<1> PICK k : k = Top.of
  OBVIOUS
<1> PICK F : F = Statics(k)
  OBVIOUS
<1>1. /\ Kept /\ Continues /\ calls # <<>> /\ Top.at = "static" /\ ~AtField /\ y.at = "bitmap"
      /\ klass'[k].staticSize = AlignUp(x.end, x.alignment) /\ y.of = k
  BY EndStaticStep DEF At, Continues
<1>2. MetadataOK /\ Statics(k)' = F
  BY <1>1, ContextMetadata, StaticsSame
<1>3. /\ k \in Classes /\ x \in CallType /\ x.end \in Nat /\ x.next \in Nat
      /\ x.alignment \in Widths
      /\ StaticCall(x) /\ RoomyCall(x) /\ x.of = k /\ x.at = "static"
  BY <1>1, TopOngoing, CallFields DEF FieldsLaid, StaticsRoomy
<1>4. \A i \in DOMAIN F : i < x.next
  <2>1. ~(x.next <= Len(F))
    BY <1>1, <1>3 DEF AtField, Fields, Statics
  <2>2. DOMAIN F = 1 .. Len(F) /\ Len(F) \in Nat
    BY <1>2, <1>3, StaticFields
  <2> PICK n : n = Len(F)
    OBVIOUS
  <2> PICK m : m = x.next
    OBVIOUS
  <2>3. DOMAIN F = 1 .. n /\ n \in Nat /\ m \in Nat /\ ~(m <= n)
    BY <1>3, <2>1, <2>2
  <2>4. \A i \in 1 .. n : i < m
    BY ONLY <2>3
  <2> QED BY <2>3, <2>4
<1>5. ASSUME Clean(k, {"static"})', NEW i \in DOMAIN F, Wide(TypeOf(Statics(k)[i]))'
      PROVE  klass'[k].staticSize >= PointerSize
  <2>1. Clean(k, {"static"})
    BY <1>1, <1>5, CleanBefore
  <2>2. TypeKnown(Statics(k)[i])
    BY <1>3, <1>4, <2>1 DEF StaticCall, StaticLaid
  <2>3. Wide(TypeOf(Statics(k)[i]))
    BY <1>1, <1>5, <2>2, WideSettled
  <2> PICK e : e = x.end
    OBVIOUS
  <2> PICK a : a = x.alignment
    OBVIOUS
  <2> PICK P : P = PointerSize
    OBVIOUS
  <2>4. e >= 1 /\ a >= P /\ e \in Nat /\ a \in Widths
    BY <1>3, <1>4, <2>1, <2>3 DEF RoomyCall
  <2>5. AlignUp(e, a) \in Nat /\ AlignUp(e, a) >= e /\ AlignUp(e, a) % a = 0
    BY <2>4, AlignUpFacts
  <2> PICK s : s = AlignUp(e, a)
    OBVIOUS
  <2>6. s \in Nat /\ s >= e /\ s % a = 0
    BY <2>5
  <2>7. s >= a
    <3>1. a \in {1, 2, 4, 8}
      BY <2>4 DEF Widths
    <3>2. s >= 1
      BY ONLY <2>4, <2>6
    <3> QED BY ONLY <2>6, <3>1, <3>2
  <2>8. P \in {4, 8} /\ a \in {1, 2, 4, 8}
    BY <2>4 DEF Widths, Context, PlatformAssumption
  <2>9. s >= P
    BY ONLY <2>4, <2>6, <2>7, <2>8
  <2> QED BY <1>1, <2>9
<1> QED BY <1>1, <1>2, <1>5 DEF RoomyCall

LEMMA StaticsRoomyKept ==
    ASSUME Context, StackOK, FieldsLaid, ReferencesAligned, StaticsRoomy, Next
    PROVE  StaticsRoomy'
<1>1. TypeOK' /\ Kept /\ StackOK' /\ MetadataOK
  BY NextKept, ContextMetadata
<1>2. SUFFICES ASSUME NEW n \in DOMAIN calls' PROVE RoomyCall(calls[n])'
  BY DEF StaticsRoomy
<1> PICK y : y = calls'[n]
  OBVIOUS
<1>3. CASE n \notin DOMAIN calls
  <2>1. y.at = "parent"
    BY <1>3, CallsMove DEF Call
  <2>2. RoomyCall(y)'
    BY <2>1 DEF RoomyCall
  <2> QED BY <2>2
<1>4. CASE n \in DOMAIN calls /\ GoesOn /\ n = Len(calls)
  <2>1. y = Top' /\ calls # <<>>
    BY <1>4, CallsMove
  <2>2. CASE StartLayout \/ LookForReference \/ StartInstance \/ PlaceInstanceField
    <3>1. y.at \in {"references", "instance"}
      BY <2>1, <2>2, StartLayoutStep, LookForReferenceStep, StartInstanceStep,
         PlaceInstanceFieldStep DEF Placing, At
    <3>2. RoomyCall(y)'
      BY <3>1 DEF RoomyCall
    <3> QED BY <3>2
  <2>3. CASE EndInstance
    <3>1. y.at = "static" /\ y.next = 1 /\ y.of = Top.of
      BY <2>1, <2>3, EndInstanceStep DEF Continues
    <3> PICK k : k = y.of
      OBVIOUS
    <3>2. k \in Classes /\ Statics(k)' = Statics(k)
      BY <1>1, <2>1, <3>1, TopOngoing, StaticsSame
    <3>3. \A i \in DOMAIN Statics(k) : ~(i < y.next)
      <4> PICK D : D = DOMAIN Statics(k)
        OBVIOUS
      <4>1. Numbers(D)
        BY <1>1, <3>2, StaticFields
      <4>2. \A i \in D : ~(i < 1)
        BY ONLY <4>1 DEF Numbers
      <4> QED BY <3>1, <4>2
    <3>4. RoomyCall(y)'
      BY <3>1, <3>2, <3>3 DEF RoomyCall
    <3> QED BY <3>4
  <2>4. CASE PlaceStaticField
    <3>1. RoomyCall(y)'
      BY <2>1, <2>4, RoomyPlaced
    <3> QED BY <3>1
  <2>5. CASE EndStatic
    <3>1. RoomyCall(y)'
      BY <2>1, <2>5, RoomyEnded
    <3> QED BY <3>1
  <2>6. CASE Bitmap /\ ~Fails
    <3>1. Continues /\ y.at = "staticBitmap" /\ At("bitmap") /\ y.of = Top.of
      BY <2>1, <2>6, BitmapStep DEF Continues
    <3> PICK k : k = Top.of
      OBVIOUS
    <3> PICK x : x = Top
      OBVIOUS
    <3>2. /\ k \in Classes /\ x.of = k /\ x.at = "bitmap" /\ RoomyCall(x) /\ StaticCall(x)
          /\ Statics(k)' = Statics(k)
      BY <1>1, <2>1, <3>1, TopOngoing, StaticsSame DEF At, StaticsRoomy, FieldsLaid
    <3>3. klass'[k].staticSize = klass[k].staticSize
      BY <1>1, <3>1, <3>2 DEF Kept, ClassKept, At
    <3>4. RoomyCall(x)'
      BY <1>1, <3>2, <3>3, RoomyCallStays
    <3>5. RoomyCall(y)'
      BY <3>1, <3>2, <3>4 DEF RoomyCall
    <3> QED BY <3>5
  <2> QED BY <1>4, <2>2, <2>3, <2>4, <2>5, <2>6 DEF GoesOn
<1>5. CASE n \in DOMAIN calls /\ ~(GoesOn /\ n = Len(calls))
  <2>1. y = calls[n] /\ (n # Len(calls) \/ UNCHANGED klass)
    BY <1>5, CallsMove
  <2>2. RoomyCall(y) /\ StaticCall(y)
    BY <1>5, <2>1 DEF StaticsRoomy, FieldsLaid
  <2>3. klass'[y.of].staticSize = klass[y.of].staticSize
    <3>1. CASE n # Len(calls)
      <4>1. calls # <<>>
        BY <1>5
      <4>2. y.of # Top.of /\ y.of \in Classes
        BY <1>5, <2>1, <3>1, <4>1, TopOngoing, CallFields
      <4> QED BY <1>1, <4>2 DEF Kept, ClassKept
    <3>2. CASE UNCHANGED klass
      BY <3>2
    <3> QED BY <2>1, <3>1, <3>2
  <2>4. RoomyCall(y)'
    BY <1>1, <2>2, <2>3, RoomyCallStays
  <2> QED BY <2>4
<1> QED BY <1>3, <1>4, <1>5

------------------------------------------------------------------------------
(* The bitmaps.                                                            *)

(* The bitmap of k has been written. *)
Mapped(k) == klass[k].done \/ (At("staticBitmap") /\ Top.of = k)
AllFields(k) == ToSet(InstanceFields[k])
BitsIn(fields) == UNION {BitsOf(f) : f \in fields}
TypeMapped(f) == Struct(TypeOf(f)) => ~Unmapped(TypeOf(f))

(* There are references only where they can be: in a bitmap that will not  *)
(* change any more, of a class as wide as a pointer.                       *)
BitsSettled(k) ==
    klass[k].bitmap # {} => /\ Mapped(k) /\ klass[k].sized /\ klass[k].hasReferences
                            /\ klass[k].alignment >= PointerSize
InstanceMapped(k) ==
    Mapped(k) =>
        /\ Clean(k, {"references", "bitmap"}) =>
               /\ klass[k].bitmap = BitsIn(AllFields(k))
               /\ klass[k].hasReferences <=> klass[k].bitmap # {}
               /\ \A f \in AllFields(k) : TypeMapped(f)
        /\ Clean(k, {"instance"}) => klass[k].bitmap \subseteq BitsIn(AllFields(k))
StaticsMapped(k) ==
    klass[k].done =>
        /\ Clean(k, {"static", "staticBitmap"}) =>
               /\ klass[k].staticBitmap = BitsIn(FieldsOf(k, TRUE))
               /\ \A f \in FieldsOf(k, TRUE) : TypeMapped(f)
        /\ Clean(k, {"static"}) => klass[k].staticBitmap \subseteq BitsIn(FieldsOf(k, TRUE))

BitsMapped == \A k \in Classes : BitsSettled(k) /\ InstanceMapped(k) /\ StaticsMapped(k)

(* The instance fields of a class are those of its ancestors. *)
LEMMA AncestryFields ==
    ASSUME MetadataOK
    PROVE  \A k \in Classes : \A c \in Ancestry[k] : FieldsOf(c, FALSE) \subseteq AllFields(k)
<1> DEFINE Fine(k) == \A c \in Ancestry[k] : FieldsOf(c, FALSE) \subseteq AllFields(k)
           S == {k \in Classes : ~Fine(k)}
<1>1. SUFFICES ASSUME S # {} PROVE FALSE
  <2> HIDE DEF Fine
  <2>1. \A k \in Classes : Fine(k)
    BY <1>1
  <2> QED BY <2>1 DEF Fine
<1>2. PICK k \in S : Parent(k) \notin S
  <2> HIDE DEF Fine
  <2>1. S \in (SUBSET Classes) \ {{}}
    BY <1>1
  <2> HIDE DEF S
  <2> QED BY <2>1, ParentsFounded
<1>3. k \in Classes /\ ~Fine(k)
  <2> HIDE DEF Fine
  <2> QED BY <1>2
<1>4. Ancestry[k] = {k} \cup IF Parent(k) = NoClass THEN {} ELSE Ancestry[Parent(k)]
  BY <1>3, AncestryUnfolded
<1>5. FieldsOf(k, FALSE) \subseteq AllFields(k)
  <2>1. ASSUME NEW f \in FieldsOf(k, FALSE) PROVE f \in AllFields(k)
    <3>1. PICK i \in DOMAIN InstanceFields[k] : InstanceFields[k][i] = f
      BY <1>3, OwnAreInstance
    <3> QED BY <3>1 DEF AllFields, ToSet
  <2> QED BY <2>1
<1>6. CASE Parent(k) = NoClass
  BY <1>3, <1>4, <1>5, <1>6
<1>7. CASE Parent(k) # NoClass
  <2> PICK p : p = Parent(k)
    OBVIOUS
  <2>1. p \in Classes /\ Fine(p) /\ Ancestry[k] = {k} \cup Ancestry[p]
    <3>1. p \in Classes /\ Ancestry[k] = {k} \cup Ancestry[p]
      BY <1>3, <1>4, <1>7, ParentsFounded
    <3> HIDE DEF Fine
    <3> QED BY <1>2, <3>1
  <2>2. AllFields(p) \subseteq AllFields(k)
    <3> PICK G : G = InstanceFields[p]
      OBVIOUS
    <3> PICK F : F = InstanceFields[k]
      OBVIOUS
    <3>1. G = Inherited(k)
      BY <1>7 DEF Inherited
    <3>2. /\ Len(G) \in Nat /\ Len(F) = Len(G) + Len(Own(k, FALSE)) /\ Len(Own(k, FALSE)) \in Nat
          /\ DOMAIN F = 1 .. Len(F)
          /\ \A i \in 1 .. Len(G) : F[i] = G[i]
      BY <1>3, <3>1, Inherits
    <3>3. DOMAIN G = 1 .. Len(G)
      <4>1. G \in Seq(Ref)
        BY <2>1, InstanceFieldsUnfolded
      <4> QED BY <4>1
    <3>4. DOMAIN G \subseteq DOMAIN F
      <4> PICK a : a = Len(G)
        OBVIOUS
      <4> PICK b : b = Len(Own(k, FALSE))
        OBVIOUS
      <4>1. a \in Nat /\ b \in Nat /\ DOMAIN G = 1 .. a /\ DOMAIN F = 1 .. (a + b)
        BY <3>2, <3>3
      <4>2. 1 .. a \subseteq 1 .. (a + b)
        BY ONLY <4>1
      <4> QED BY <4>1, <4>2
    <3>5. \A f \in ToSet(G) : f \in ToSet(F)
      BY <3>2, <3>3, <3>4 DEF ToSet
    <3> QED BY <3>5 DEF AllFields
  <2> QED BY <1>3, <1>5, <2>1, <2>2
<1> QED BY <1>6, <1>7

(* What is known of an instance field. *)
LEMMA FieldInAll ==
    ASSUME MetadataOK, NEW k \in Classes, NEW f \in AllFields(k)
    PROVE  /\ f \in Ref /\ f.class \in Ancestry[k] /\ f.class \in Classes
           /\ f \in FieldsOf(f.class, FALSE)
           /\ f.index \in DOMAIN program[f.class].fields
           /\ Struct(TypeOf(f)) => TypeOf(f) # k /\ TypeOf(f) \in Classes
           /\ \E i \in DOMAIN InstanceFields[k] : f = InstanceFields[k][i]
<1>1. PICK i \in DOMAIN InstanceFields[k] : f = InstanceFields[k][i]
  BY DEF AllFields, ToSet
<1>2. InstanceFieldOf(k, f)
  BY <1>1, InstanceField
<1>3. f.class \in Classes
  BY <1>2, AncestryFacts DEF InstanceFieldOf
<1>4. k \notin Below(k)
  BY BelowIrreflexive
<1> QED BY <1>1, <1>2, <1>3, <1>4 DEF InstanceFieldOf, TypeOf, Struct

LEMMA StaticInAll ==
    ASSUME MetadataOK, NEW k \in Classes, NEW f \in FieldsOf(k, TRUE)
    PROVE  /\ f \in Ref /\ f.class = k /\ f.index \in DOMAIN program[k].fields
           /\ \E i \in DOMAIN Statics(k) : f = Statics(k)[i]
BY FieldsOfClass DEF OwnFieldOf, Statics

(* At "staticBitmap", the call returns next. *)
LEMMA MappedStays ==
    ASSUME Context, StackOK, Next, NEW k \in Classes, Mapped(k)
    PROVE  /\ Mapped(k)' /\ klass'[k].bitmap = klass[k].bitmap /\ klass[k].sized
           /\ klass'[k].hasReferences = klass[k].hasReferences
           /\ klass[k].done => klass'[k].done
<1>1. Kept
  BY NextKept
<1>2. CASE klass[k].done
  <2>1. ~(At("staticBitmap") /\ k = Top.of) /\ ~(At("bitmap") /\ k = Top.of)
    BY <1>2, TopOngoing DEF At
  <2>2. klass[k].sized
    BY <1>2 DEF StackOK, StagesInOrder
  <2>3. klass'[k].done /\ klass'[k].bitmap = klass[k].bitmap
    BY <1>1, <1>2, <2>1 DEF Kept, ClassKept
  <2> QED BY <1>1, <2>2, <2>3, SizedStays DEF Mapped
<1>3. CASE At("staticBitmap") /\ Top.of = k
  <2>1. ~At("bitmap") /\ ~At("parent") /\ ~At("references") /\ ~At("instance") /\ ~At("static")
    BY <1>3 DEF At
  <2>2. ~Visits
    BY <1>3, AtFieldKnown DEF Visits, At
  <2>3. EndLayout
    BY <1>3, <2>1, <2>2 DEF Next, At, Initialize, EnterParent, EnterFieldType, TypeMissing,
           StartLayout, LookForReference, StartInstance, OffsetMissing, Ready, PlaceInstanceField,
           EndInstance, PlaceStaticField, EndStatic, Bitmap
  <2>4. klass'[k].done /\ klass[k].sized
    BY <1>3, <2>3, EndLayoutStep, TopOngoing DEF At, Late
  <2>5. klass'[k].bitmap = klass[k].bitmap
    BY <1>1, <2>1 DEF Kept, ClassKept
  <2>6. ~klass[k].done
    BY <1>3, TopOngoing DEF At
  <2> QED BY <1>1, <2>4, <2>5, <2>6, SizedStays DEF Mapped
<1> QED BY <1>2, <1>3 DEF Mapped

LEMMA NewlyMapped ==
    ASSUME Context, StackOK, Next, NEW k \in Classes, ~Mapped(k), Mapped(k)'
    PROVE  Bitmap /\ ~Fails /\ k = Top.of /\ At("bitmap") /\ calls # <<>>
<1>1. Kept /\ TypeOK'
  BY NextKept
<1>2. ~klass'[k].done
  BY <1>1 DEF Kept, ClassKept, Mapped
<1>3. At("staticBitmap")' /\ Top'.of = k
  BY <1>2 DEF Mapped
<1> PICK n : n = Len(calls')
  OBVIOUS
<1>4. n \in DOMAIN calls' /\ calls'[n] = Top' /\ Top'.at = "staticBitmap"
  <2> PICK s : s = calls'
    OBVIOUS
  <2>1. s \in Seq(CallType) /\ s # <<>>
    BY <1>1, <1>3 DEF TypeOK, At
  <2>2. Len(s) \in DOMAIN s
    BY ONLY <2>1
  <2> QED BY <1>3, <2>2 DEF At, Top
<1>5. n \in DOMAIN calls
  BY <1>4, CallsMove DEF Call
<1>6. calls # <<>>
  BY <1>5
<1>7. CASE calls'[n] = calls[n]
  <2>1. n # Len(calls)
    BY <1>3, <1>4, <1>6, <1>7 DEF Mapped, At, Top
  <2>2. n < Len(calls)
    <3> PICK m : m = Len(calls)
      OBVIOUS
    <3>1. m \in Nat /\ n \in 1 .. m /\ n # m
      BY <1>5, <1>6, <2>1, StackTop DEF Context, TypeOK
    <3>2. n < m
      BY ONLY <3>1
    <3> QED BY <3>2
  <2>3. Waits(n, Len(calls))
    BY <1>5, <1>6, <2>2, TopOngoing DEF StackOK, CallersWait
  <2> QED BY <1>4, <1>7, <2>3 DEF Waits
<1>8. CASE calls'[n] # calls[n]
  <2>1. GoesOn /\ Top'.at = "staticBitmap"
    BY <1>4, <1>5, <1>8, CallsMove
  <2>2. Bitmap /\ ~Fails
    BY <2>1, StartLayoutStep, LookForReferenceStep, StartInstanceStep, PlaceInstanceFieldStep,
       EndInstanceStep, PlaceStaticFieldStep, EndStaticStep DEF GoesOn, Placing, At
  <2>3. At("bitmap") /\ Top'.of = Top.of
    BY <2>2, BitmapStep DEF Continues
  <2> QED BY <1>3, <1>6, <2>2, <2>3
<1> QED BY <1>7, <1>8

LEMMA TypeMappedStays ==
    ASSUME Context, StackOK, Next, NEW f, TypeMapped(f)
    PROVE  TypeMapped(f)'
<1>1. Kept
  BY NextKept
<1> PICK t : t = TypeOf(f)
  OBVIOUS
<1>2. TypeOf(f)' = t /\ (Struct(t)' <=> Struct(t))
  BY <1>1, SameMetadata DEF Kept, TypeOf, Struct
<1>3. ASSUME t \in Classes, ~Unmapped(t) PROVE ~Unmapped(t)'
  <2>1. CASE klass[t].done
    <3>1. klass'[t].done
      BY <1>3, <2>1, MappedStays DEF Mapped
    <3> QED BY <3>1 DEF Unmapped
  <2>2. CASE ~klass[t].done
    <3>1. klass[t].sized /\ ~klass[t].hasReferences
      BY <1>3, <2>2 DEF Unmapped
    <3>2. klass'[t].sized /\ ~klass'[t].hasReferences
      BY <1>1, <1>3, <3>1, SizedStays
    <3> QED BY <3>2 DEF Unmapped
  <2> QED BY <2>1, <2>2
<1>4. Struct(t) => ~Unmapped(t)'
  BY <1>3 DEF TypeMapped, Struct
<1>5. TypeMapped(f)' <=> (Struct(t)' => ~Unmapped(t)')
  BY <1>2 DEF TypeMapped, Struct, Unmapped
<1> QED BY <1>2, <1>4, <1>5

(* The words of a field: they do not change when its type is mapped, and   *)
(* none is lost otherwise.                                                 *)
LEMMA BitsStay ==
    ASSUME Context, StackOK, Next, BitsMapped, NEW f, OffsetOf(f)' = OffsetOf(f)
    PROVE  /\ BitsOf(f) \subseteq BitsOf(f)'
           /\ TypeMapped(f) => BitsOf(f)' = BitsOf(f)
<1>1. Kept
  BY NextKept
<1> PICK t : t = FieldOf(f).type
  OBVIOUS
<1> PICK w : w = OffsetOf(f) \div PointerSize
  OBVIOUS
<1>2. (FieldOf(f).type)' = t /\ (OffsetOf(f) \div PointerSize)' = w /\ t = TypeOf(f)
  BY <1>1, SameMetadata DEF Kept, TypeOf
<1>3. BitsOf(f) = IF t \in Classes
                  THEN IF klass[t].hasReferences THEN {w + b : b \in klass[t].bitmap} ELSE {}
                  ELSE IF t = "ref" THEN {w} ELSE {}
  BY DEF BitsOf, Struct
<1>4. BitsOf(f)' = IF t \in Classes
                   THEN IF klass'[t].hasReferences THEN {w + b : b \in klass'[t].bitmap} ELSE {}
                   ELSE IF t = "ref" THEN {w} ELSE {}
  BY <1>2 DEF BitsOf, Struct
<1>5. ASSUME t \in Classes, Mapped(t)
      PROVE  klass'[t].bitmap = klass[t].bitmap /\ klass'[t].hasReferences = klass[t].hasReferences
  BY <1>5, MappedStays
<1>6. CASE t \notin Classes
  BY <1>3, <1>4, <1>6
<1>7. CASE t \in Classes /\ Mapped(t)
  BY <1>3, <1>4, <1>5, <1>7
<1>8. CASE t \in Classes /\ ~Mapped(t)
  <2>1. klass[t].bitmap = {}
    BY <1>8 DEF BitsMapped, BitsSettled
  <2>2. BitsOf(f) = {}
    BY <1>3, <1>8, <2>1
  <2>3. ASSUME TypeMapped(f) PROVE BitsOf(f)' = {}
    <3>1. klass[t].sized /\ ~klass[t].hasReferences
      BY <1>2, <1>8, <2>3 DEF TypeMapped, Unmapped, Struct, Mapped
    <3>2. ~klass'[t].hasReferences
      BY <1>1, <1>8, <3>1, SizedStays
    <3> QED BY <1>4, <1>8, <3>2
  <2> QED BY <2>2, <2>3
<1> QED BY <1>6, <1>7, <1>8

LEMMA BitsInStay ==
    ASSUME Context, StackOK, Next, BitsMapped, NEW fields, \A f \in fields : OffsetOf(f)' = OffsetOf(f)
    PROVE  /\ BitsIn(fields) \subseteq BitsIn(fields)'
           /\ (\A f \in fields : TypeMapped(f)) => BitsIn(fields)' = BitsIn(fields)
<1>1. \A f \in fields : BitsOf(f) \subseteq BitsOf(f)' /\ (TypeMapped(f) => BitsOf(f)' = BitsOf(f))
  BY BitsStay
<1>2. BitsIn(fields) \subseteq BitsIn(fields)'
  BY <1>1 DEF BitsIn
<1>3. ASSUME \A f \in fields : TypeMapped(f) PROVE BitsIn(fields)' = BitsIn(fields)
  BY <1>1, <1>3 DEF BitsIn
<1> QED BY <1>2, <1>3

(* A field with references is wide. *)
LEMMA BitsAreWide ==
    ASSUME BitsMapped, NEW f, BitsOf(f) # {}
    PROVE  /\ Wide(TypeOf(f))
           /\ Struct(TypeOf(f)) => klass[TypeOf(f)].hasReferences /\ klass[TypeOf(f)].bitmap # {}
<1> PICK t : t = TypeOf(f)
  OBVIOUS
<1>1. CASE Struct(t)
  <2>1. klass[t].hasReferences /\ klass[t].bitmap # {} /\ t \in Classes
    BY <1>1 DEF BitsOf, TypeOf, Struct
  <2> QED BY <1>1, <2>1 DEF BitsMapped, BitsSettled, Wide
<1>2. CASE ~Struct(t)
  <2>1. t = "ref"
    BY <1>2 DEF BitsOf, TypeOf
  <2> QED BY <1>2, <2>1 DEF Wide
<1> QED BY <1>1, <1>2

LEMMA BitsSettledKept ==
    ASSUME Context, StackOK, ReferencesAligned, BitsMapped, Next, NEW k \in Classes
    PROVE  BitsSettled(k)'
<1>1. TypeOK' /\ Kept /\ MetadataOK
  BY NextKept, ContextMetadata
<1>2. SUFFICES ASSUME klass'[k].bitmap # {}
               PROVE  /\ Mapped(k)' /\ klass'[k].sized /\ klass'[k].hasReferences
                      /\ klass'[k].alignment >= PointerSize
  BY DEF BitsSettled
<1>3. CASE klass[k].bitmap # {}
  <2>1. Mapped(k) /\ klass[k].sized /\ klass[k].hasReferences /\ klass[k].alignment >= PointerSize
    BY <1>3 DEF BitsMapped, BitsSettled
  <2> QED BY <1>1, <2>1, MappedStays, SizedStays
<1>4. CASE klass[k].bitmap = {}
  <2>1. At("bitmap") /\ k = Top.of
    BY <1>1, <1>2, <1>4 DEF Kept, ClassKept
  <2>2. ~Visits /\ calls # <<>>
    BY <2>1, AtFieldKnown DEF Visits, At
  <2>3. Bitmap
    BY <2>1, <2>2 DEF Next, At, Initialize, EnterParent, EnterFieldType, TypeMissing,
           StartLayout, LookForReference, StartInstance, OffsetMissing, Ready, PlaceInstanceField,
           EndInstance, PlaceStaticField, EndStatic, EndLayout
  <2>4. ~Fails
    BY <1>2, <1>4 DEF Fails
  <2>5. Continues /\ Top'.at = "staticBitmap" /\ klass'[k].bitmap = InstanceBits(k)
    BY <2>1, <2>3, <2>4, BitmapStep
  <2>6. Mapped(k)'
    BY <2>1, <2>5 DEF Mapped, At, Continues
  <2>7. klass[k].sized
    BY <2>1, <2>2, TopOngoing DEF At, Late
  <2>8. /\ klass'[k].sized /\ klass'[k].alignment = klass[k].alignment
        /\ klass'[k].hasReferences = klass[k].hasReferences
    BY <1>1, <2>7, SizedStays
  <2>8a. PICK c \in Holders[k] : \E f \in FieldsOf(c, FALSE) : BitsOf(f) # {}
    <3>1. PICK b \in InstanceBits(k) : TRUE
      BY <1>2, <2>5
    <3>2. PICK f \in UNION {FieldsOf(c, FALSE) : c \in Holders[k]} : b \in BitsOf(f)
      BY <3>1 DEF InstanceBits
    <3> QED BY <3>2
  <2>9. PICK f \in FieldsOf(c, FALSE) : BitsOf(f) # {}
    BY <2>8a
  <2>10. klass[k].hasReferences
    <3>1. \A d \in Classes : klass[d].hasReferences \in BOOLEAN
      BY KlassKnown DEF Context, TypeOK
    <3> QED BY <1>1, <2>8a, <3>1, HoldersUnfolded
  <2>11. c \in Ancestry[k] /\ f \in AllFields(k)
    BY <1>1, <2>9, HoldersFacts, AncestryFields
  <2>12. PICK i \in DOMAIN InstanceFields[k] : f = InstanceFields[k][i]
    BY <1>1, <2>11, FieldInAll
  <2>13. Wide(TypeOf(f))
    BY <2>9, BitsAreWide
  <2>14. AlignedCall(Top) /\ Top.of = k /\ Top.at \in Late
    BY <2>1, <2>2, TopOngoing DEF ReferencesAligned, At, Late
  <2>15. Aligned(k, TypeOf(f), klass[k].alignment)
    BY <2>12, <2>14 DEF AlignedCall
  <2>16. Packing(k) = 0
    BY <2>10 DEF Packing
  <2>17. klass[k].alignment >= PointerSize
    BY <2>13, <2>15, <2>16 DEF Aligned
  <2> QED BY <2>6, <2>8, <2>10, <2>17
<1> QED BY <1>3, <1>4

(* A class holds the references of its ancestors, or they have none. *)
Bare(c) == \A f \in FieldsOf(c, FALSE) : BitsOf(f) = {}

LEMMA SilentIsBare ==
    ASSUME NEW k, NEW f, Silent(k, TypeOf(f)), Record(k, TypeOf(f), "references") \notin early
    PROVE  BitsOf(f) = {}
BY DEF Silent, BitsOf, TypeOf

LEMMA HoldersOrBare ==
    ASSUME Context, FieldsLaid, ReferencesNoted
    PROVE  \A k \in Classes : klass[k].sized /\ Clean(k, {"references", "bitmap"}) =>
               \A c \in Ancestry[k] : c \in Holders[k] \/ Bare(c)
<1> DEFINE what == {"references", "bitmap"}
           Held(k) == \A c \in Ancestry[k] : c \in Holders[k] \/ Bare(c)
           Fine(k) == klass[k].sized /\ Clean(k, what) => Held(k)
           S == {k \in Classes : ~Fine(k)}
<1>0. MetadataOK /\ \A d \in Classes : klass[d].hasReferences \in BOOLEAN
  BY ContextMetadata, KlassKnown DEF Context, TypeOK
<1>1. SUFFICES ASSUME S # {} PROVE FALSE
  <2> HIDE DEF Fine
  <2>1. \A k \in Classes : Fine(k)
    BY <1>1
  <2> QED BY <2>1 DEF Fine
<1>2. PICK k \in S : Parent(k) \notin S
  <2> HIDE DEF Fine
  <2>1. S \in (SUBSET Classes) \ {{}}
    BY <1>1
  <2> HIDE DEF S
  <2> QED BY <1>0, <2>1, ParentsFounded
<1>3. k \in Classes /\ klass[k].sized /\ Clean(k, what) /\ ~Held(k)
  <2> HIDE DEF Held, what
  <2> QED BY <1>2
<1>4. k \in Ancestry[k] /\ \A t : Record(k, t, "references") \notin early
  BY <1>0, <1>3, AncestryFacts DEF Clean, ReadEarly, Record
<1>5. Ancestry[k] = {k} \cup IF Parent(k) = NoClass THEN {} ELSE Ancestry[Parent(k)]
  BY <1>0, <1>3, AncestryUnfolded
<1>6. Holders[k] = IF klass[k].hasReferences
                   THEN {k} \cup IF Parent(k) = NoClass THEN {} ELSE Holders[Parent(k)]
                   ELSE {}
  BY <1>0, <1>3, HoldersUnfolded
<1>7. k \in Holders[k] \/ Bare(k)
  <2>1. CASE klass[k].hasReferences
    BY <1>6, <2>1
  <2>2. CASE ~klass[k].hasReferences
    <3>1. AllSilent(k)
      BY <1>3, <2>2 DEF ReferencesNoted, NotedClass
    <3>2. ASSUME NEW f \in FieldsOf(k, FALSE) PROVE BitsOf(f) = {}
      <4>1. PICK i \in DOMAIN Members(k) : f = Members(k)[i]
        BY <1>0, <1>3, MembersKnown
      <4>2. Silent(k, TypeOf(f))
        BY <3>1, <4>1 DEF AllSilent
      <4> QED BY <1>4, <4>2, SilentIsBare
    <3> QED BY <3>2 DEF Bare
  <2> QED BY <2>1, <2>2
<1>8. ASSUME Parent(k) # NoClass, NEW p, p = Parent(k)
      PROVE  \A c \in Ancestry[p] : c \in Holders[k] \/ Bare(c)
  <2>1. p \in Classes /\ Record(k, p, "references") \notin early
    BY <1>0, <1>3, <1>4, <1>8, ParentsFounded
  <2>2. ParentRead(k)
    BY <1>3 DEF FieldsLaid, LaidClass
  <2>3. klass[p].sized
    BY <1>8, <2>1, <2>2 DEF ParentRead
  <2>4. p \in Ancestry[k]
    BY <1>0, <1>5, <1>8, <2>1, AncestryFacts
  <2>5. Clean(p, what)
    <3>1. Ancestry[p] \subseteq Ancestry[k]
      BY <1>0, <1>3, <2>4, AncestryFacts
    <3> QED BY <1>3, <3>1 DEF Clean, ReadEarly
  <2>6. Held(p)
    <3>1. Fine(p)
      <4> HIDE DEF Fine
      <4> QED BY <1>2, <1>8, <2>1
    <3> HIDE DEF Held, what
    <3> QED BY <2>3, <2>5, <3>1
  <2>7. CASE klass[k].hasReferences
    BY <1>6, <1>8, <2>6, <2>7
  <2>8. CASE ~klass[k].hasReferences
    <3>1. Silent(k, p)
      BY <1>3, <1>8, <2>8 DEF ReferencesNoted, NotedClass, AllSilent, ParentSilent
    <3>2. ~klass[p].hasReferences
      BY <2>1, <3>1 DEF Silent, Struct
    <3>3. Holders[p] = {}
      BY <1>0, <2>1, <3>2, HoldersUnfolded
    <3> QED BY <2>6, <3>3
  <2> QED BY <1>0, <2>1, <2>7, <2>8
<1>9. Held(k)
  <2> HIDE DEF Bare
  <2> QED BY <1>5, <1>7, <1>8
<1> QED BY <1>3, <1>9

(* What a class has inherited stays where it is. *)
LEMMA AllOffsetsStay ==
    ASSUME Context, StackOK, FieldsLaid, Kept, NEW k \in Classes, klass[k].sized,
           NEW what, NEW w \in {"references", "instance"}, w \in what, Clean(k, what)
    PROVE  \A f \in AllFields(k) : OffsetOf(f)' = OffsetOf(f)
<1>1. MetadataOK /\ \A c \in Classes : LaidClass(c) /\ (klass[c].sized => ParentRead(c))
  BY ContextMetadata DEF FieldsLaid, LaidClass
<1>2. ASSUME NEW f \in AllFields(k) PROVE OffsetOf(f)' = OffsetOf(f)
  <2>1. f.class \in Ancestry[k] /\ f.class \in Classes /\ f \in FieldsOf(f.class, FALSE)
    BY <1>1, FieldInAll
  <2>2. klass[f.class].sized
    BY <1>1, <2>1, AncestorsSized
  <2> QED BY <1>1, <2>1, <2>2, SizedOffsetStays
<1> QED BY <1>2

LEMMA AllFieldsSame ==
    ASSUME Kept
    PROVE  /\ \A k : AllFields(k)' = AllFields(k)
           /\ \A k, static : FieldsOf(k, static)' = FieldsOf(k, static)
           /\ \A k, what : Clean(k, what)' => Clean(k, what)
<1>1. InstanceFields' = InstanceFields
  BY InstanceTypeSame
<1>2. \A k : AllFields(k)' = AllFields(k)
  BY <1>1 DEF AllFields
<1> QED BY <1>2, SameMetadata, CleanBefore DEF Kept

LEMMA InstanceMappedKept ==
    ASSUME Context, StackOK, FieldsLaid, ReferencesNoted, BitsMapped, Next, NEW k \in Classes
    PROVE  InstanceMapped(k)'
<1> DEFINE what == {"references", "bitmap"}
<1> PICK F : F = AllFields(k)
  OBVIOUS
<1>1. TypeOK' /\ Kept /\ MetadataOK
  BY NextKept, ContextMetadata
<1>2. AllFields(k)' = F /\ (\A w : Clean(k, w)' => Clean(k, w))
  BY <1>1, AllFieldsSame
<1>3. SUFFICES ASSUME Mapped(k)'
               PROVE  /\ Clean(k, what)' =>
                             /\ klass'[k].bitmap = BitsIn(F)'
                             /\ klass'[k].hasReferences <=> klass'[k].bitmap # {}
                             /\ \A f \in F : TypeMapped(f)'
                      /\ Clean(k, {"instance"})' => klass'[k].bitmap \subseteq BitsIn(F)'
  BY <1>2 DEF InstanceMapped, BitsIn
<1>4. CASE Mapped(k)
  <2>1. /\ klass'[k].bitmap = klass[k].bitmap /\ klass[k].sized
        /\ klass'[k].hasReferences = klass[k].hasReferences
        /\ InstanceMapped(k)
    BY <1>4, MappedStays DEF BitsMapped
  <2>2. ASSUME Clean(k, what)'
        PROVE  /\ klass'[k].bitmap = BitsIn(F)'
               /\ klass'[k].hasReferences <=> klass'[k].bitmap # {}
               /\ \A f \in F : TypeMapped(f)'
    <3>1. Clean(k, what)
      BY <1>2, <2>2
    <3>2. /\ klass[k].bitmap = BitsIn(F) /\ (klass[k].hasReferences <=> klass[k].bitmap # {})
          /\ \A f \in F : TypeMapped(f)
      BY <1>4, <2>1, <3>1 DEF InstanceMapped
    <3>3. \A f \in F : TypeMapped(f)'
      BY <3>2, TypeMappedStays
    <3>4. \A f \in F : OffsetOf(f)' = OffsetOf(f)
      BY <1>1, <2>1, <3>1, AllOffsetsStay
    <3>5. BitsIn(F)' = BitsIn(F)
      BY <3>2, <3>4, BitsInStay
    <3> QED BY <2>1, <3>2, <3>3, <3>5
  <2>3. ASSUME Clean(k, {"instance"})' PROVE klass'[k].bitmap \subseteq BitsIn(F)'
    <3>1. Clean(k, {"instance"})
      BY <1>2, <2>3
    <3>2. klass[k].bitmap \subseteq BitsIn(F)
      BY <1>4, <2>1, <3>1 DEF InstanceMapped
    <3>3. \A f \in F : OffsetOf(f)' = OffsetOf(f)
      BY <1>1, <2>1, <3>1, AllOffsetsStay
    <3>4. BitsIn(F) \subseteq BitsIn(F)'
      BY <3>3, BitsInStay
    <3> QED BY <2>1, <3>2, <3>4
  <2> QED BY <2>2, <2>3
<1>5. CASE ~Mapped(k)
  <2>1. Bitmap /\ ~Fails /\ k = Top.of /\ At("bitmap") /\ calls # <<>>
    BY <1>3, <1>5, NewlyMapped
  <2>2. /\ klass'[k].bitmap = InstanceBits(k)
        /\ ~(klass[k].hasReferences /\ InstanceBits(k) = {})
        /\ \A t \in Classes : klass'[t].offsets = klass[t].offsets
        /\ early' \in SUBSET Records
        /\ \A t \in Classes : Unmapped(t) /\ (\E f \in F : FieldOf(f).type = t)
               => Record(k, t, "bitmap") \in early'
    BY <2>1, BitmapStep DEF Record, AllFields
  <2>3. klass[k].sized /\ Top.at = "bitmap"
    BY <2>1, TopOngoing DEF At, Late
  <2>4. \A t \in Classes : /\ klass'[t].hasReferences = klass[t].hasReferences
                           /\ t # k => klass'[t].bitmap = klass[t].bitmap
    BY <1>1, <2>1, <2>3 DEF Kept, ClassKept, At
  <2>5. ASSUME NEW f \in F PROVE BitsOf(f)' = BitsOf(f)
    <3>1. /\ f.class \in Classes
          /\ Struct(TypeOf(f)) => TypeOf(f) # k /\ TypeOf(f) \in Classes
      BY <1>1, <2>5, FieldInAll
    <3>2. OffsetOf(f)' = OffsetOf(f)
      BY <2>2, <3>1 DEF OffsetOf
    <3> PICK t : t = FieldOf(f).type
      OBVIOUS
    <3> PICK w : w = OffsetOf(f) \div PointerSize
      OBVIOUS
    <3>3. (FieldOf(f).type)' = t /\ (OffsetOf(f) \div PointerSize)' = w
      BY <1>1, <3>2, SameMetadata DEF Kept
    <3>4. t \in Classes => /\ klass'[t].bitmap = klass[t].bitmap
                           /\ klass'[t].hasReferences = klass[t].hasReferences
      BY <2>4, <3>1 DEF TypeOf, Struct
    <3>5. BitsOf(f) = IF t \in Classes
                      THEN IF klass[t].hasReferences THEN {w + b : b \in klass[t].bitmap} ELSE {}
                      ELSE IF t = "ref" THEN {w} ELSE {}
      BY DEF BitsOf, Struct
    <3>6. BitsOf(f)' = IF t \in Classes
                       THEN IF klass'[t].hasReferences THEN {w + b : b \in klass'[t].bitmap} ELSE {}
                       ELSE IF t = "ref" THEN {w} ELSE {}
      BY <3>3 DEF BitsOf, Struct
    <3> QED BY <3>4, <3>5, <3>6
  <2>6. BitsIn(F)' = BitsIn(F)
    BY <2>5 DEF BitsIn
  <2>7. InstanceBits(k) \subseteq BitsIn(F)
    <3>1. \A c \in Holders[k] : FieldsOf(c, FALSE) \subseteq F
      BY <1>1, HoldersFacts, AncestryFields
    <3>2. UNION {FieldsOf(c, FALSE) : c \in Holders[k]} \subseteq F
      BY <3>1
    <3> QED BY <3>2 DEF InstanceBits, BitsIn
  <2>8. ASSUME Clean(k, what)'
        PROVE  /\ klass'[k].bitmap = BitsIn(F)'
               /\ klass'[k].hasReferences <=> klass'[k].bitmap # {}
               /\ \A f \in F : TypeMapped(f)'
    <3>1. Clean(k, what) /\ k \in Ancestry[k] /\ Ancestry' = Ancestry
      BY <1>1, <1>2, <2>8, AncestryFacts, SameMetadata DEF Kept
    <3>2. ASSUME NEW f \in F PROVE TypeMapped(f)'
      <4>1. ASSUME Struct(TypeOf(f)), Unmapped(TypeOf(f)) PROVE FALSE
        <5>1. TypeOf(f) \in Classes
          BY <4>1 DEF Struct
        <5>2. Record(k, TypeOf(f), "bitmap") \in early'
          BY <2>2, <4>1, <5>1 DEF TypeOf
        <5> QED BY <2>8, <3>1, <5>2 DEF Clean, ReadEarly, Record
      <4> QED BY <4>1, TypeMappedStays DEF TypeMapped
    <3>3. \A c \in Ancestry[k] : c \in Holders[k] \/ Bare(c)
      <4> HIDE DEF what
      <4>1. klass[k].sized /\ Clean(k, what)
        BY <2>3, <3>1
      <4> QED BY <4>1, HoldersOrBare DEF what
    <3>4. BitsIn(F) \subseteq InstanceBits(k)
      <4>1. ASSUME NEW f \in F, NEW b \in BitsOf(f) PROVE b \in InstanceBits(k)
        <5>1. f.class \in Ancestry[k] /\ f \in FieldsOf(f.class, FALSE)
          BY <1>1, <4>1, FieldInAll
        <5>2. f.class \in Holders[k]
          BY <3>3, <4>1, <5>1 DEF Bare
        <5>3. f \in UNION {FieldsOf(c, FALSE) : c \in Holders[k]}
          BY <5>1, <5>2
        <5> QED BY <4>1, <5>3 DEF InstanceBits
      <4> QED BY <4>1 DEF BitsIn
    <3>5. klass'[k].bitmap = BitsIn(F)'
      <4> PICK I : I = InstanceBits(k)
        OBVIOUS
      <4> PICK A : A = BitsIn(F)
        OBVIOUS
      <4>1. I \subseteq A /\ A \subseteq I
        BY <2>7, <3>4
      <4>2. I = A
        BY ONLY <4>1
      <4> QED BY <2>2, <2>6, <4>2
    <3>6. klass[k].hasReferences <=> InstanceBits(k) # {}
      <4>1. \A d \in Classes : klass[d].hasReferences \in BOOLEAN
        BY KlassKnown DEF Context, TypeOK
      <4>2. ~klass[k].hasReferences => Holders[k] = {}
        BY <1>1, <4>1, HoldersUnfolded
      <4>3. Holders[k] = {} => InstanceBits(k) = {}
        BY DEF InstanceBits
      <4>4. klass[k].hasReferences \in BOOLEAN
        BY <4>1
      <4> QED BY <2>2, <4>2, <4>3, <4>4
    <3>7. klass'[k].hasReferences <=> klass'[k].bitmap # {}
      BY <2>2, <2>4, <3>6
    <3> QED BY <3>2, <3>5, <3>7
  <2> QED BY <2>2, <2>6, <2>7, <2>8
<1> QED BY <1>4, <1>5

LEMMA StaticsMappedKept ==
    ASSUME Context, StackOK, FieldsLaid, StaticsRoomy, BitsMapped, Next, NEW k \in Classes
    PROVE  StaticsMapped(k)'
<1> DEFINE what == {"static", "staticBitmap"}
<1> PICK F : F = FieldsOf(k, TRUE)
  OBVIOUS
<1>1. TypeOK' /\ Kept /\ MetadataOK
  BY NextKept, ContextMetadata
<1>2. FieldsOf(k, TRUE)' = F /\ (\A w : Clean(k, w)' => Clean(k, w))
  BY <1>1, AllFieldsSame
<1>3. SUFFICES ASSUME klass'[k].done
               PROVE  /\ Clean(k, what)' => /\ klass'[k].staticBitmap = BitsIn(F)'
                                            /\ \A f \in F : TypeMapped(f)'
                      /\ Clean(k, {"static"})' => klass'[k].staticBitmap \subseteq BitsIn(F)'
  BY <1>2 DEF StaticsMapped, BitsIn
<1>4. CASE klass[k].done
  <2>1. calls # <<>> => Top.of # k
    BY <1>4, TopOngoing
  <2>2. klass'[k].staticBitmap = klass[k].staticBitmap /\ StaticsMapped(k)
    BY <1>1, <2>1 DEF Kept, ClassKept, At, BitsMapped
  <2>3. \A f \in F : OffsetOf(f)' = OffsetOf(f)
    <3>1. ASSUME NEW f \in F PROVE OffsetOf(f)' = OffsetOf(f)
      <4>1. f.class = k
        BY <1>1, <3>1, StaticInAll
      <4>2. ~Writes("static", f)
        BY <2>1, <4>1 DEF Writes, At
      <4> QED BY <1>1, <3>1, <4>2, StaticOffsetStays
    <3> QED BY <3>1
  <2>4. BitsIn(F) \subseteq BitsIn(F)' /\ ((\A f \in F : TypeMapped(f)) => BitsIn(F)' = BitsIn(F))
    BY <2>3, BitsInStay
  <2>5. \A f \in F : TypeMapped(f) => TypeMapped(f)'
    BY TypeMappedStays
  <2> HIDE DEF what
  <2>6. Clean(k, what)' => klass[k].staticBitmap = BitsIn(F) /\ \A f \in F : TypeMapped(f)
    BY <1>2, <1>4, <2>2 DEF StaticsMapped, what
  <2>7. Clean(k, {"static"})' => klass[k].staticBitmap \subseteq BitsIn(F)
    BY <1>2, <1>4, <2>2 DEF StaticsMapped
  <2> QED BY <2>2, <2>4, <2>5, <2>6, <2>7
<1>5. CASE ~klass[k].done
  <2>1. At("staticBitmap") /\ k = Top.of /\ calls # <<>>
    BY <1>1, <1>3, <1>5 DEF Kept, ClassKept, At
  <2>2. ~Visits /\ ~At("bitmap") /\ ~At("parent") /\ ~At("references") /\ ~At("instance") /\ ~At("static")
    BY <2>1, AtFieldKnown DEF Visits, At
  <2>3. EndLayout
    BY <2>1, <2>2 DEF Next, At, Initialize, EnterParent, EnterFieldType, TypeMissing,
           StartLayout, LookForReference, StartInstance, OffsetMissing, Ready, PlaceInstanceField,
           EndInstance, PlaceStaticField, EndStatic, Bitmap
  <2>4. /\ klass'[k].staticBitmap = IF klass[k].staticSize >= PointerSize THEN BitsIn(F) ELSE {}
        /\ \A t \in Classes : klass'[t].offsets = klass[t].offsets
        /\ \A t \in Classes \ {k} : Unmapped(t) /\ (\E f \in F : FieldOf(f).type = t)
               => Record(k, t, "staticBitmap") \in early'
    BY <2>1, <2>3, EndLayoutStep DEF Record, BitsIn
  <2>5. \A t \in Classes : /\ klass'[t].hasReferences = klass[t].hasReferences
                           /\ klass'[t].bitmap = klass[t].bitmap
    BY <1>1, <2>2 DEF Kept, ClassKept
  <2>6. ASSUME NEW f \in F PROVE BitsOf(f)' = BitsOf(f)
    <3>1. OffsetOf(f)' = OffsetOf(f)
      BY <1>1, <2>4, <2>6, StaticInAll DEF OffsetOf
    <3> PICK t : t = FieldOf(f).type
      OBVIOUS
    <3> PICK w : w = OffsetOf(f) \div PointerSize
      OBVIOUS
    <3>2. (FieldOf(f).type)' = t /\ (OffsetOf(f) \div PointerSize)' = w
      BY <1>1, <3>1, SameMetadata DEF Kept
    <3>3. t \in Classes => /\ klass'[t].bitmap = klass[t].bitmap
                           /\ klass'[t].hasReferences = klass[t].hasReferences
      BY <2>5
    <3>4. BitsOf(f) = IF t \in Classes
                      THEN IF klass[t].hasReferences THEN {w + b : b \in klass[t].bitmap} ELSE {}
                      ELSE IF t = "ref" THEN {w} ELSE {}
      BY DEF BitsOf, Struct
    <3>5. BitsOf(f)' = IF t \in Classes
                       THEN IF klass'[t].hasReferences THEN {w + b : b \in klass'[t].bitmap} ELSE {}
                       ELSE IF t = "ref" THEN {w} ELSE {}
      BY <3>2 DEF BitsOf, Struct
    <3> QED BY <3>3, <3>4, <3>5
  <2>7. BitsIn(F)' = BitsIn(F)
    BY <2>6 DEF BitsIn
  <2>8. ASSUME Clean(k, what)' PROVE klass'[k].staticBitmap = BitsIn(F)' /\ \A f \in F : TypeMapped(f)'
    <3>1. Clean(k, {"static"}) /\ k \in Ancestry[k] /\ Ancestry' = Ancestry
      <4>1. Clean(k, what)
        BY <1>2, <2>8
      <4>2. Clean(k, {"static"})
        BY <4>1 DEF Clean, ReadEarly
      <4> QED BY <1>1, <4>2, AncestryFacts, SameMetadata DEF Kept
    <3>2. ASSUME NEW f \in F PROVE TypeMapped(f)'
      <4> PICK t : t = TypeOf(f)
        OBVIOUS
      <4>1. ASSUME t \in Classes \ {k} PROVE TypeMapped(f)
        <5>1. ASSUME Unmapped(t) PROVE FALSE
          <6>1. Record(k, t, "staticBitmap") \in early'
            BY <2>4, <4>1, <5>1 DEF TypeOf
          <6> QED BY <2>8, <3>1, <6>1 DEF Clean, ReadEarly, Record
        <5> QED BY <5>1 DEF TypeMapped
      <4>2. CASE t \in Classes \ {k} \/ t \notin Classes
        BY <4>1, <4>2, TypeMappedStays DEF TypeMapped, Struct
      <4>3. CASE t = k
        <5>1. ~Unmapped(t)'
          BY <1>3, <4>3 DEF Unmapped
        <5>2. TypeOf(f)' = t
          BY <1>1, SameMetadata DEF Kept, TypeOf
        <5>3. ~Unmapped(TypeOf(f))'
          BY <5>1, <5>2 DEF Unmapped
        <5> QED BY <5>3 DEF TypeMapped
      <4> QED BY <4>2, <4>3
    <3>3. ASSUME ~(klass[k].staticSize >= PointerSize) PROVE BitsIn(F) = {}
      <4>1. RoomyCall(Top) /\ Top.of = k /\ Top.at = "staticBitmap"
        BY <2>1, TopOngoing DEF StaticsRoomy, At
      <4>2. ASSUME NEW f \in F, BitsOf(f) # {} PROVE FALSE
        <5>1. PICK i \in DOMAIN Statics(k) : f = Statics(k)[i]
          BY <1>1, <4>2, StaticInAll
        <5>2. Wide(TypeOf(f))
          BY <4>2, BitsAreWide
        <5> QED BY <3>1, <3>3, <4>1, <5>1, <5>2 DEF RoomyCall
      <4> QED BY <4>2 DEF BitsIn
    <3> QED BY <2>4, <2>7, <3>2, <3>3
  <2> QED BY <2>4, <2>7, <2>8
<1> QED BY <1>4, <1>5

LEMMA BitsMappedKept ==
    ASSUME Context, StackOK, FieldsLaid, ReferencesNoted, ReferencesAligned, StaticsRoomy,
           BitsMapped, Next
    PROVE  BitsMapped'
<1>1. \A k \in Classes : BitsSettled(k)' /\ InstanceMapped(k)' /\ StaticsMapped(k)'
  BY BitsSettledKept, InstanceMappedKept, StaticsMappedKept
<1> QED BY <1>1 DEF BitsMapped

------------------------------------------------------------------------------
(* What the collector reads from the bitmaps.                              *)

(* A field whose end is in bounds has its words in bounds. *)
LEMMA WordsInside ==
    ASSUME PlatformAssumption, NEW o \in Nat, NEW z \in Nat, NEW s \in Nat, o + z <= s
    PROVE  /\ z >= PointerSize => (o \div PointerSize + 1) * PointerSize <= s
           /\ \A b \in Nat : (b + 1) * PointerSize <= z =>
                  (o \div PointerSize + b + 1) * PointerSize <= s
<1> PICK P : P = PointerSize
  OBVIOUS
<1>1. P \in {4, 8}
  BY DEF PlatformAssumption
<1> PICK w : w = o \div P
  OBVIOUS
<1>2. w \in Nat /\ w * P <= o
  <2>1. CASE P = 4
    BY ONLY <2>1, w = o \div P, o \in Nat
  <2>2. CASE P = 8
    BY ONLY <2>2, w = o \div P, o \in Nat
  <2> QED BY <1>1, <2>1, <2>2
<1>3. z >= P => (w + 1) * P <= s
  <2>1. CASE P = 4
    BY <1>2, <2>1
  <2>2. CASE P = 8
    BY <1>2, <2>2
  <2> QED BY <1>1, <2>1, <2>2
<1>4. ASSUME NEW b \in Nat, (b + 1) * P <= z PROVE (w + b + 1) * P <= s
  <2>1. CASE P = 4
    BY <1>2, <1>4, <2>1
  <2>2. CASE P = 8
    BY <1>2, <1>4, <2>2
  <2> QED BY <1>1, <2>1, <2>2
<1> QED BY <1>3, <1>4

(* The words of fields that are in bounds are in bounds. *)
LEMMA BitsInside ==
    ASSUME Context, NEW fields, NEW size \in Nat, StructsInside(fields),
           \A f \in fields : /\ f.class \in Classes /\ f.index \in DOMAIN program[f.class].fields
                             /\ TypeKnown(f) /\ EndOf(f) <= size
    PROVE  Inside(BitsIn(fields), size)
<1>1. SUFFICES ASSUME NEW f \in fields, NEW word \in BitsOf(f)
               PROVE  (word + 1) * PointerSize <= size
  BY DEF BitsIn, Inside
<1> PICK t : t = TypeOf(f)
  OBVIOUS
<1> PICK o : o = OffsetOf(f)
  OBVIOUS
<1> PICK z : z = SizeOf(t)
  OBVIOUS
<1>2. o \in Nat /\ z \in Nat /\ o + z <= size /\ TypeKnown(f) /\ PlatformAssumption
  BY EndTyped DEF EndOf, Context
<1>3. CASE Struct(t)
  <2>1. PICK b \in klass[t].bitmap : word = o \div PointerSize + b
    BY <1>3 DEF BitsOf, TypeOf
  <2>2. b \in Nat /\ z = klass[t].size
    BY <1>3, <2>1, KlassKnown DEF Context, TypeOK, Struct, SizeOf
  <2>3. (b + 1) * PointerSize <= z
    BY <1>3, <2>1, <2>2 DEF StructsInside, Inside, TypeOf
  <2> QED BY <1>2, <2>1, <2>2, <2>3, WordsInside
<1>4. CASE ~Struct(t)
  <2>1. t = "ref" /\ word = o \div PointerSize
    BY <1>4 DEF BitsOf, TypeOf
  <2>2. z = PointerSize
    BY <2>1, <1>4 DEF SizeOf, Primitives
  <2>3. z >= PointerSize
    BY <1>2, <2>2
  <2> QED BY <1>2, <2>1, <2>3, WordsInside
<1> QED BY <1>3, <1>4

LEMMA InsideSubset ==
    ASSUME NEW size, NEW big, Inside(big, size), NEW small, small \subseteq big
    PROVE  Inside(small, size)
BY DEF Inside

(* A field with references is where a reference can be read. *)
LEMMA ReferencesOnWords ==
    ASSUME Context, FieldsLaid, ReferencesNoted, ReferencesAligned, BitsMapped,
           NEW k \in Classes, klass[k].sized, Clean(k, {"instance"}), ~program[k].explicit,
           NEW f \in FieldsOf(k, FALSE), BitsOf(f) # {}
    PROVE  OffsetOf(f) % PointerSize = 0
<1>1. MetadataOK
  BY ContextMetadata
<1> PICK t : t = TypeOf(f)
  OBVIOUS
<1>2. Wide(t) /\ (Struct(t) => klass[t].hasReferences)
  BY BitsAreWide
<1>3. PICK i \in DOMAIN InstanceFields[k] : InstanceFields[k][i] = f /\ f.class = k
  BY <1>1, OwnAreInstance
<1>4. FieldLaid(k, i, klass[k].size)
  BY <1>3 DEF FieldsLaid, LaidClass
<1>5. TypeKnown(f) /\ OffsetOf(f) % FieldAlignment(k, t) = 0
  BY <1>3, <1>4 DEF FieldLaid
<1>6. klass[k].hasReferences
  <2>1. SUFFICES ASSUME ~klass[k].hasReferences PROVE FALSE
    OBVIOUS
  <2>2. AllSilent(k)
    BY <2>1 DEF ReferencesNoted, NotedClass
  <2>3. PICK j \in DOMAIN Members(k) : f = Members(k)[j]
    BY <1>1, MembersKnown
  <2>4. Silent(k, t)
    BY <2>2, <2>3 DEF AllSilent
  <2>5. Record(k, t, "references") \in early
    BY <1>2, <2>4 DEF Silent, Wide
  <2>6. Record(k, t, "instance") \in early
    BY <1>3, <2>5 DEF ReferencesAligned, AlignedClass, ReadAgain
  <2>7. k \in Ancestry[k]
    BY <1>1, AncestryFacts
  <2> QED BY <2>6, <2>7 DEF Clean, ReadEarly, Record
<1>7. Packing(k) = 0
  BY <1>6 DEF Packing
<1> PICK a : a = AlignmentOf(t)
  OBVIOUS
<1>8. FieldAlignment(k, t) = a /\ a \in Widths
  BY <1>5, <1>7, Alignments, Sizes DEF TypeKnown
<1>9. a >= PointerSize
  <2>1. CASE t = "ref"
    <3>1. a = PointerSize /\ PointerSize \in Nat
      BY <1>5, <2>1, Sizes DEF TypeKnown, Context, PlatformAssumption
    <3> QED BY <3>1
  <2>2. CASE t # "ref"
    BY <1>2, <2>2 DEF Wide, AlignmentOf
  <2> QED BY <2>1, <2>2
<1> PICK o : o = OffsetOf(f)
  OBVIOUS
<1> PICK P : P = PointerSize
  OBVIOUS
<1>10. o \in Nat
  <2>1. OwnFieldOf(k, FALSE, f)
    BY <1>1, FieldsOfClass
  <2>2. f.index \in DOMAIN program[f.class].fields
    BY <1>3, <2>1 DEF OwnFieldOf
  <2> QED BY <1>3, <1>5, <2>2, EndTyped
<1>11. a \in {1, 2, 4, 8} /\ P \in {4, 8} /\ a >= P /\ o % a = 0
  BY <1>5, <1>8, <1>9 DEF Widths, Context, PlatformAssumption
<1>12. o % P = 0
  <2>1. CASE a = P
    BY <1>11, <2>1
  <2>2. CASE a # P
    <3>1. a = 8 /\ P = 4
      BY ONLY <1>11, <2>2
    <3> QED BY ONLY <1>10, <1>11, <3>1
  <2> QED BY <2>1, <2>2
<1> QED BY <1>12

LEMMA BitsAreTraced ==
    ASSUME Context, StackOK, FieldsLaid, ReferencesNoted, ReferencesAligned, BitsMapped
    PROVE  ReferencesTraced
<1>1. MetadataOK
  BY ContextMetadata
<1>2. SUFFICES ASSUME NEW k \in Classes, klass[k].done
      PROVE
        /\ Clean(k, {"references", "bitmap"}) =>
               /\ klass[k].bitmap = BitsIn(AllFields(k))
               /\ klass[k].hasReferences <=> klass[k].bitmap # {}
        /\ Clean(k, {"static", "staticBitmap"}) => klass[k].staticBitmap = BitsIn(FieldsOf(k, TRUE))
        /\ Clean(k, {"instance"}) =>
               /\ (Computed(k) \/ program[k].explicit) /\ StructsInside(AllFields(k)) =>
                      Inside(klass[k].bitmap, klass[k].size)
               /\ \A f \in FieldsOf(k, FALSE) :
                      ~program[k].explicit /\ BitsOf(f) # {} => OffsetOf(f) % PointerSize = 0
        /\ Clean(k, {"static"}) /\ StructsInside(FieldsOf(k, TRUE)) =>
               Inside(klass[k].staticBitmap, klass[k].staticSize)
  BY DEF ReferencesTraced, Clean, AllFields, BitsIn
<1>3. /\ klass[k].sized /\ Mapped(k) /\ InstanceMapped(k) /\ StaticsMapped(k)
      /\ LaidClass(k) /\ StaticClass(k)
      /\ klass[k].size \in Nat /\ klass[k].staticSize \in Nat
  BY <1>2, KlassKnown DEF StackOK, StagesInOrder, Mapped, BitsMapped, FieldsLaid, Context, TypeOK
<1>4. ASSUME Clean(k, {"instance"}), Computed(k) \/ program[k].explicit, StructsInside(AllFields(k))
      PROVE  Inside(klass[k].bitmap, klass[k].size)
  <2>1. ASSUME NEW f \in AllFields(k)
        PROVE  /\ f.class \in Classes /\ f.index \in DOMAIN program[f.class].fields
               /\ TypeKnown(f) /\ EndOf(f) <= klass[k].size
    <3>1. PICK i \in DOMAIN InstanceFields[k] : f = InstanceFields[k][i]
      BY <1>1, <2>1, FieldInAll
    <3>2. FieldLaid(k, i, klass[k].size)
      BY <1>3, <1>4, <3>1 DEF LaidClass
    <3>3. TypeKnown(f) /\ EndOf(f) <= klass[k].size
      BY <1>4, <3>1, <3>2 DEF FieldLaid
    <3> QED BY <1>1, <2>1, <3>3, FieldInAll
  <2>2. Inside(BitsIn(AllFields(k)), klass[k].size)
    BY <1>3, <1>4, <2>1, BitsInside
  <2>3. klass[k].bitmap \subseteq BitsIn(AllFields(k))
    BY <1>3, <1>4 DEF InstanceMapped
  <2> QED BY <2>2, <2>3, InsideSubset
<1>5. ASSUME Clean(k, {"static"}), StructsInside(FieldsOf(k, TRUE))
      PROVE  Inside(klass[k].staticBitmap, klass[k].staticSize)
  <2>1. ASSUME NEW f \in FieldsOf(k, TRUE)
        PROVE  /\ f.class \in Classes /\ f.index \in DOMAIN program[f.class].fields
               /\ TypeKnown(f) /\ EndOf(f) <= klass[k].staticSize
    <3>1. PICK i \in DOMAIN Statics(k) : f = Statics(k)[i]
      BY <1>1, <2>1, StaticInAll
    <3>2. StaticLaid(k, i, klass[k].staticSize)
      BY <1>2, <1>3, <1>5, <3>1 DEF StaticClass, StaticsLaid
    <3>3. TypeKnown(f) /\ EndOf(f) <= klass[k].staticSize
      BY <3>1, <3>2 DEF StaticLaid
    <3> QED BY <1>1, <2>1, <3>3, StaticInAll
  <2>2. Inside(BitsIn(FieldsOf(k, TRUE)), klass[k].staticSize)
    BY <1>3, <1>5, <2>1, BitsInside
  <2>3. klass[k].staticBitmap \subseteq BitsIn(FieldsOf(k, TRUE))
    BY <1>2, <1>3, <1>5 DEF StaticsMapped
  <2> QED BY <2>2, <2>3, InsideSubset
<1>6. Clean(k, {"instance"}) =>
          \A f \in FieldsOf(k, FALSE) :
              ~program[k].explicit /\ BitsOf(f) # {} => OffsetOf(f) % PointerSize = 0
  BY <1>3, ReferencesOnWords
<1> QED BY <1>2, <1>3, <1>4, <1>5, <1>6 DEF InstanceMapped, StaticsMapped

(* What is known of the references, besides the layouts: which classes     *)
(* know that they hold some (ReferencesNoted), that these are as wide as   *)
(* pointers (ReferencesAligned), that there is memory for them where they  *)
(* are static (StaticsRoomy), and where they are (BitsMapped).             *)
ReferencesIInv ==
    /\ LayoutIInv
    /\ RecordsWait /\ ReferencesNoted /\ ReferencesAligned /\ StaticsRoomy /\ BitsMapped

LEMMA ReferencesInit ==
    ASSUME ProgramsAssumption, Init
    PROVE  ReferencesIInv
<1>1. calls = <<>> /\ early = {} /\ DOMAIN calls = {}
  BY DEF Init
<1>2. ASSUME NEW k \in Classes
      PROVE  ~klass[k].sized /\ ~klass[k].done /\ klass[k].bitmap = {}
  BY DEF Init, NotLaidOut
<1>3. LayoutIInv
  BY LayoutInit
<1>4. RecordsWait /\ StaticsRoomy
  BY <1>1 DEF RecordsWait, StaticsRoomy
<1>5. ReferencesNoted /\ ReferencesAligned
  BY <1>1, <1>2 DEF ReferencesNoted, ReferencesAligned, NotedClass, AlignedClass
<1>6. BitsMapped
  BY <1>1, <1>2 DEF BitsMapped, BitsSettled, InstanceMapped, StaticsMapped, Mapped, At
<1> QED BY <1>3, <1>4, <1>5, <1>6 DEF ReferencesIInv

LEMMA ReferencesStep ==
    ASSUME ProgramsAssumption, PlatformAssumption, ProgramsValid, ReferencesIInv, Next
    PROVE  ReferencesIInv'
<1>1. Context /\ StackOK /\ FieldsLaid
  BY DEF ReferencesIInv, LayoutIInv, Context
<1>2. RecordsWait /\ ReferencesNoted /\ ReferencesAligned /\ StaticsRoomy /\ BitsMapped
  BY DEF ReferencesIInv
<1>3. LayoutIInv'
  BY <1>1, NextKept, FieldsLaidKept DEF LayoutIInv
<1>4. RecordsWait'
  BY <1>1, <1>2, RecordsWaitKept
<1>5. ReferencesNoted' /\ ReferencesAligned' /\ StaticsRoomy' /\ BitsMapped'
  BY <1>1, <1>2, <1>4, ReferencesNotedKept, ReferencesAlignedKept, StaticsRoomyKept, BitsMappedKept
<1> QED BY <1>3, <1>4, <1>5 DEF ReferencesIInv

LEMMA ReferencesStutter ==
    ASSUME Context, UNCHANGED vars, ReferencesIInv
    PROVE  ReferencesIInv'
<1>1. /\ calls' = calls /\ klass' = klass /\ program' = program /\ early' = early
      /\ flagged' = flagged /\ failed' = failed
  BY DEF vars
<1>2. /\ LayoutIInv /\ StackOK /\ FieldsLaid /\ RecordsWait /\ ReferencesNoted
      /\ ReferencesAligned /\ StaticsRoomy /\ BitsMapped
  BY DEF ReferencesIInv, LayoutIInv
<1>3. LayoutIInv'
  BY <1>2, LayoutStutters
<1>4. Kept
  BY <1>1, KlassUnchanged
<1>5. RecordsWait'
  BY <1>1, <1>2 DEF RecordsWait, Waiting
<1>6. ReferencesNoted'
  <2>1. ASSUME NEW k \in Classes PROVE NotedClass(k)'
    <3>1. AllSilent(k) => AllSilent(k)'
      BY <1>2, <1>4, AllSilentStays
    <3> QED BY <1>1, <1>2, <3>1 DEF ReferencesNoted, NotedClass
  <2>2. ASSUME NEW n \in DOMAIN calls' PROVE NotedCall(calls[n])'
    <3> PICK y : y = calls[n]
      OBVIOUS
    <3>1. NotedCall(y)
      BY <1>1, <1>2, <2>2 DEF ReferencesNoted
    <3>2. NotedCall(y)'
      BY <1>1, <1>2, <1>4, <3>1, NotedCallStays
    <3> QED BY <1>1, <3>2
  <2> QED BY <2>1, <2>2 DEF ReferencesNoted
<1>7. ReferencesAligned'
  <2>1. InstanceFields' = InstanceFields
    BY <1>4, InstanceTypeSame
  <2>2. ASSUME NEW k, NEW i, NEW a
        PROVE  /\ ReadAgain(k, TypeOf(InstanceFields[k][i]))' <=> ReadAgain(k, TypeOf(InstanceFields[k][i]))
               /\ Aligned(k, TypeOf(InstanceFields[k][i]), a)' <=> Aligned(k, TypeOf(InstanceFields[k][i]), a)
    <3> PICK t : t = TypeOf(InstanceFields[k][i])
      OBVIOUS
    <3>1. TypeOf(InstanceFields[k][i])' = t
      BY <1>4, InstanceTypeSame
    <3>2. ReadAgain(k, t)' <=> ReadAgain(k, t)
      BY <1>1 DEF ReadAgain, Record
    <3>3. Aligned(k, t, a)' <=> Aligned(k, t, a)
      BY <1>1 DEF Aligned, Wide, Record, Struct, Packing, IsValueClass
    <3> QED BY <3>1, <3>2, <3>3
  <2>3. ASSUME NEW k \in Classes PROVE AlignedClass(k)'
    <3>1. AlignedClass(k)
      BY <1>2 DEF ReferencesAligned
    <3> QED BY <1>1, <2>1, <2>2, <3>1 DEF AlignedClass, IsValueClass
  <2>4. ASSUME NEW n \in DOMAIN calls' PROVE AlignedCall(calls[n])'
    <3> PICK y : y = calls[n]
      OBVIOUS
    <3>1. AlignedCall(y)
      BY <1>1, <1>2, <2>4 DEF ReferencesAligned
    <3> PICK a : a = klass[y.of].alignment
      OBVIOUS
    <3>2. AlignedCall(y)'
      <4>1. y.at = "instance" =>
                \A i \in DOMAIN InstanceFields[y.of] : i < y.next =>
                    /\ ReadAgain(y.of, TypeOf(InstanceFields[y.of][i]))'
                    /\ Aligned(y.of, TypeOf(InstanceFields[y.of][i]), y.alignment)'
        <5> PICK b : b = y.alignment
          OBVIOUS
        <5> QED BY <2>2, <3>1 DEF AlignedCall
      <4>2. y.at \in Late =>
                \A i \in DOMAIN InstanceFields[y.of] :
                    Aligned(y.of, TypeOf(InstanceFields[y.of][i]), a)'
        BY <2>2, <3>1 DEF AlignedCall
      <4>3. klass'[y.of].alignment = a
        BY <1>1
      <4>4. y.at \in Late =>
                \A i \in DOMAIN InstanceFields[y.of] :
                    Aligned(y.of, TypeOf(InstanceFields[y.of][i]), klass[y.of].alignment)'
        BY <4>2, <4>3
      <4> QED BY <2>1, <4>1, <4>4 DEF AlignedCall
    <3> QED BY <1>1, <3>2
  <2> QED BY <2>3, <2>4 DEF ReferencesAligned
<1>8. StaticsRoomy'
  <2>1. ASSUME NEW n \in DOMAIN calls' PROVE RoomyCall(calls[n])'
    <3> PICK y : y = calls[n]
      OBVIOUS
    <3>1. RoomyCall(y) /\ StaticCall(y)
      BY <1>1, <1>2, <2>1 DEF StaticsRoomy, FieldsLaid
    <3>2. RoomyCall(y)'
      BY <1>1, <1>2, <1>4, <3>1, RoomyCallStays
    <3> QED BY <1>1, <3>2
  <2> QED BY <2>1 DEF StaticsRoomy
<1>9. BitsMapped'
  <2>1. /\ \A k : AllFields(k)' = AllFields(k)
        /\ \A k, static : FieldsOf(k, static)' = FieldsOf(k, static)
        /\ \A k, what : Clean(k, what)' => Clean(k, what)
        /\ \A f : FieldOf(f)' = FieldOf(f)
    BY <1>1, <1>4, AllFieldsSame, SameMetadata
  <2>2. ASSUME NEW f PROVE BitsOf(f)' = BitsOf(f) /\ (TypeMapped(f)' <=> TypeMapped(f))
    <3>1. BitsOf(f)' = BitsOf(f)
      BY <1>1 DEF BitsOf, Struct, FieldOf, OffsetOf
    <3>2. TypeMapped(f)' <=> TypeMapped(f)
      BY <1>1 DEF TypeMapped, Struct, Unmapped, TypeOf, FieldOf
    <3> QED BY <3>1, <3>2
  <2>3. ASSUME NEW fields PROVE BitsIn(fields)' = BitsIn(fields)
    BY <2>2 DEF BitsIn
  <2>4. \A k : Mapped(k)' <=> Mapped(k)
    BY <1>1 DEF Mapped, At, Top
  <2>5. ASSUME NEW k \in Classes PROVE BitsSettled(k)' /\ InstanceMapped(k)' /\ StaticsMapped(k)'
    <3>1. BitsSettled(k) /\ InstanceMapped(k) /\ StaticsMapped(k)
      BY <1>2 DEF BitsMapped
    <3>2. BitsSettled(k)'
      BY <1>1, <2>4, <3>1 DEF BitsSettled
    <3> PICK F : F = AllFields(k)
      OBVIOUS
    <3> PICK G : G = FieldsOf(k, TRUE)
      OBVIOUS
    <3>3. AllFields(k)' = F /\ FieldsOf(k, TRUE)' = G
      BY <2>1
    <3>4. BitsIn(AllFields(k))' = BitsIn(F) /\ BitsIn(FieldsOf(k, TRUE))' = BitsIn(G)
      <4>1. BitsIn(AllFields(k))' = BitsIn(F)' /\ BitsIn(FieldsOf(k, TRUE))' = BitsIn(G)'
        BY <3>3 DEF BitsIn
      <4> QED BY <2>3, <4>1
    <3>5. InstanceMapped(k)'
      BY <1>1, <2>1, <2>2, <2>4, <3>1, <3>3, <3>4 DEF InstanceMapped
    <3>6. StaticsMapped(k)'
      BY <1>1, <2>1, <2>2, <3>1, <3>3, <3>4 DEF StaticsMapped
    <3> QED BY <3>2, <3>5, <3>6
  <2> QED BY <2>5 DEF BitsMapped
<1> QED BY <1>3, <1>5, <1>6, <1>7, <1>8, <1>9 DEF ReferencesIInv

(* The collector finds every reference in objects and static fields, and   *)
(* none where there is no memory, for all classes and in every order in    *)
(* which they are initialized, but for those that read something too early.*)
THEOREM ReferencesAreTraced ==
    ASSUME ProgramsValid PROVE Spec => []ReferencesTraced
<1>1. Init => ReferencesIInv
  BY ReferencesInit, ProgramsAssumption
<1>2. ASSUME ReferencesIInv PROVE Context /\ StackOK /\ FieldsLaid
  BY <1>2, ProgramsAssumption, PlatformAssumption DEF ReferencesIInv, LayoutIInv, Context
<1>3. ASSUME ReferencesIInv, [Next]_vars PROVE ReferencesIInv'
  <2>1. CASE Next
    BY <1>3, <2>1, ReferencesStep, ProgramsAssumption, PlatformAssumption
  <2>2. CASE UNCHANGED vars
    BY <1>2, <1>3, <2>2, ReferencesStutter
  <2> QED BY <1>3, <2>1, <2>2
<1>4. ASSUME ReferencesIInv PROVE ReferencesTraced
  BY <1>2, <1>4, BitsAreTraced DEF ReferencesIInv
<1> QED BY <1>1, <1>3, <1>4, PTL DEF Spec
==============================================================================
