------------------------ MODULE SizeClassPoolProofs -------------------------
(***************************************************************************)
(* The pool of a size class is correct for any number of arenas, blocks    *)
(* and use bits in a word, and implements BlockStore: allocation never     *)
(* hands out a live block, and a sweep frees exactly the dead ones although*)
(* the array it walks shrinks under it.                                    *)
(***************************************************************************)
EXTENDS SizeClassPool, SequenceTheorems, TLAPS

Elements(list) == {list[i] : i \in DOMAIN list}
NoneTwice(list) == \A i, j \in DOMAIN list : list[i] = list[j] => i = j

(* ArenasConsistent, of one arena *)
Consistent(a) ==
    /\ NoneTwice(freeList[a])
    /\ Elements(freeList[a]) = BlockIndexes \ useBits[a]
    /\ chunkMask[a] = {Chunk(b) : b \in useBits[a]}

(***************************************************************************)
(* What the loops of the sweep have gone through: every block before the   *)
(* one they are at is free or marked, and no marked block has been freed.  *)
(***************************************************************************)
SweepSound ==
    Sweeping =>
        /\ arenaAt >= 1
        /\ alive \subseteq Live
        /\ \A i \in DOMAIN arenas, b \in BlockIndexes :
               (i < arenaAt \/ (i = arenaAt /\ b < blockAt)) /\ b \in useBits[arenas[i]]
                   => <<arenas[i], b>> \in alive

IInv ==
    /\ TypeOK
    /\ \A a \in Owned : Consistent(a)
    /\ NoneTwice(arenas)
    /\ CursorSound
    /\ SweepSound
-----------------------------------------------------------------------------
(* What the type invariant says, part by part *)
LEMMA Types ==
    ASSUME IInv
    PROVE  /\ arenas \in Seq(Arenas) /\ Len(arenas) \in Nat /\ DOMAIN arenas = 1..Len(arenas)
           /\ freeList \in [Arenas -> Seq(BlockIndexes)]
           /\ useBits \in [Arenas -> SUBSET BlockIndexes]
           /\ chunkMask \in [Arenas -> SUBSET Chunks]
           /\ current \in Arenas \cup {NoArena}
           /\ nextStart \in Nat /\ arenaAt \in Nat /\ blockAt \in Nat
           /\ result \in Blocks \cup {NoBlock}
           /\ Owned \subseteq Arenas
           /\ BlockCount \in Nat \ {0} /\ NoArena \notin Arenas
  BY PoolAssumption DEF IInv, TypeOK, Owned

(* Elements and NoneTwice of a sequence, by its length *)
LEMMA ElementsByLength ==
    ASSUME NEW S, NEW list \in Seq(S), NEW n \in Nat, Len(list) = n
    PROVE  /\ \A x : x \in Elements(list) <=> \E i \in 1..n : x = list[i]
           /\ NoneTwice(list) <=> \A i, j \in 1..n : list[i] = list[j] => i = j
<1>1. DOMAIN list = 1..n
  OBVIOUS
<1> QED BY <1>1 DEF Elements, NoneTwice

(* The first element of a sequence, and the others *)
LEMMA HeadAndTail ==
    ASSUME NEW S, NEW list \in Seq(S), list # <<>>, NoneTwice(list)
    PROVE  /\ Head(list) \in S /\ Tail(list) \in Seq(S) /\ NoneTwice(Tail(list))
           /\ Elements(Tail(list)) = Elements(list) \ {Head(list)}
           /\ Head(list) \in Elements(list)
<1>1. PICK n \in Nat : n + 1 = Len(list)
  <2>1. Len(list) \in Nat /\ Len(list) # 0
    OBVIOUS
  <2> QED BY <2>1, (Len(list) - 1) + 1 = Len(list), Len(list) - 1 \in Nat
<1>2. PICK rest \in Seq(S) :
          /\ rest = Tail(list) /\ Len(rest) = n
          /\ \A i \in 1..n : rest[i] = list[i + 1]
  <2>1. /\ Tail(list) \in Seq(S) /\ Len(Tail(list)) = Len(list) - 1
        /\ \A i \in 1..Len(Tail(list)) : Tail(list)[i] = list[i + 1]
    BY HeadTailProperties
  <2>2. Len(Tail(list)) = n
    BY <1>1, <2>1
  <2>3. \A i \in 1..n : Tail(list)[i] = list[i + 1]
    BY <2>1, <2>2
  <2>4. Tail(list) \in Seq(S)
    BY <2>1
  <2> QED BY <2>2, <2>3, <2>4
<1>3. Head(list) = list[1] /\ Head(list) \in S
  BY <1>1
<1>4. /\ \A x : x \in Elements(list) <=> \E i \in 1..(n + 1) : x = list[i]
      /\ \A i, j \in 1..(n + 1) : list[i] = list[j] => i = j
  BY <1>1, ElementsByLength
<1>5. /\ \A x : x \in Elements(rest) <=> \E i \in 1..n : x = rest[i]
      /\ NoneTwice(rest) <=> \A i, j \in 1..n : rest[i] = rest[j] => i = j
  <2>1. Len(rest) = n
    BY <1>2
  <2> QED BY <2>1, ElementsByLength
<1>6. \A i \in 1..n : i + 1 \in 1..(n + 1) /\ i + 1 # 1
  OBVIOUS
<1>7. NoneTwice(rest)
  BY <1>2, <1>4, <1>5, <1>6
<1>8. ASSUME NEW x
      PROVE  x \in Elements(rest) <=> x \in Elements(list) /\ x # list[1]
  <2>1. ASSUME NEW i \in 1..n, x = rest[i]
        PROVE  x \in Elements(list) /\ x # list[1]
    BY <1>2, <1>4, <1>6, <2>1
  <2>2. ASSUME NEW i \in 1..(n + 1), x = list[i], x # list[1]
        PROVE  x \in Elements(rest)
    <3>1. PICK j \in 1..n : i = j + 1
      <4>1. i - 1 \in 1..n /\ i = (i - 1) + 1
        BY <2>2
      <4> QED BY <4>1
    <3> QED BY <1>2, <1>5, <2>2, <3>1
  <2> QED BY <1>4, <1>5, <2>1, <2>2
<1>9. Head(list) \in Elements(list)
  <2>1. 1 \in 1..(n + 1)
    OBVIOUS
  <2> QED BY <1>3, <1>4, <2>1
<1> QED BY <1>2, <1>3, <1>7, <1>8, <1>9

(* An element is put in front of a sequence that did not have it. *)
LEMMA Prepended ==
    ASSUME NEW S, NEW list \in Seq(S), NEW x \in S, x \notin Elements(list), NoneTwice(list)
    PROVE  /\ <<x>> \o list \in Seq(S) /\ NoneTwice(<<x>> \o list)
           /\ Elements(<<x>> \o list) = Elements(list) \cup {x}
<1>1. PICK n \in Nat : n = Len(list)
  OBVIOUS
<1>2. PICK more \in Seq(S) :
          /\ more = <<x>> \o list /\ Len(more) = n + 1
          /\ more[1] = x /\ \A i \in 1..n : more[i + 1] = list[i]
  <2>1. <<x>> \in Seq(S) /\ Len(<<x>>) = 1
    OBVIOUS
  <2>2. /\ <<x>> \o list \in Seq(S) /\ Len(<<x>> \o list) = n + 1
        /\ \A i \in 1..(n + 1) :
               (<<x>> \o list)[i] = IF i <= 1 THEN <<x>>[i] ELSE list[i - 1]
    BY <1>1, <2>1, ConcatProperties
  <2>3. (<<x>> \o list)[1] = x
    BY <1>1, <2>2
  <2>4. \A i \in 1..n : (<<x>> \o list)[i + 1] = list[i]
    BY <1>1, <2>2
  <2> QED BY <2>2, <2>3, <2>4
<1>3. /\ \A y : y \in Elements(list) <=> \E i \in 1..n : y = list[i]
      /\ \A i, j \in 1..n : list[i] = list[j] => i = j
  BY <1>1, ElementsByLength
<1>4. /\ \A y : y \in Elements(more) <=> \E i \in 1..(n + 1) : y = more[i]
      /\ NoneTwice(more) <=> \A i, j \in 1..(n + 1) : more[i] = more[j] => i = j
  <2>1. Len(more) = n + 1
    BY <1>2
  <2> QED BY <2>1, ElementsByLength
<1>5. ASSUME NEW i \in 1..(n + 1)
      PROVE  i = 1 \/ \E k \in 1..n : i = k + 1
  <2>1. CASE i # 1
    <3>1. i - 1 \in 1..n /\ i = (i - 1) + 1
      BY <2>1
    <3> QED BY <3>1
  <2> QED BY <2>1
<1>6. ASSUME NEW i \in 1..(n + 1), NEW j \in 1..(n + 1), more[i] = more[j]
      PROVE  i = j
  <2>1. \A k \in 1..n : more[k + 1] # x
    BY <1>2, <1>3
  <2>2. CASE i = 1 \/ j = 1
    BY <1>2, <1>5, <1>6, <2>1, <2>2
  <2>3. CASE i # 1 /\ j # 1
    <3>1. PICK k \in 1..n, l \in 1..n : i = k + 1 /\ j = l + 1
      BY <1>5, <2>3
    <3>2. list[k] = list[l]
      BY <1>2, <1>6, <3>1
    <3> QED BY <1>3, <3>1, <3>2
  <2> QED BY <2>2, <2>3
<1>7. ASSUME NEW y
      PROVE  y \in Elements(more) <=> y \in Elements(list) \/ y = x
  <2>1. ASSUME NEW i \in 1..(n + 1), y = more[i]
        PROVE  y \in Elements(list) \/ y = x
    BY <1>2, <1>3, <1>5, <2>1
  <2>2. ASSUME NEW i \in 1..n, y = list[i]
        PROVE  y \in Elements(more)
    <3>1. i + 1 \in 1..(n + 1) /\ more[i + 1] = y
      BY <1>2, <2>2
    <3> QED BY <1>4, <3>1
  <2>3. x \in Elements(more)
    <3>1. 1 \in 1..(n + 1) /\ more[1] = x
      BY <1>2
    <3> QED BY <1>4, <3>1
  <2> QED BY <1>3, <1>4, <2>1, <2>2, <2>3
<1> QED BY <1>2, <1>4, <1>6, <1>7

(* The blocks of a new arena are all in its free list. *)
LEMMA FreshIsComplete ==
    /\ FreshFreeList \in Seq(BlockIndexes) /\ FreshFreeList # <<>>
    /\ NoneTwice(FreshFreeList) /\ Elements(FreshFreeList) = BlockIndexes
<1>1. PICK n \in Nat : n = BlockCount /\ n > 0
  BY PoolAssumption
<1>2. PICK list \in Seq(BlockIndexes) :
          list = FreshFreeList /\ Len(list) = n /\ \A i \in 1..n : list[i] = n - i
  <2>1. FreshFreeList = [i \in 1..n |-> n - i]
    BY <1>1 DEF FreshFreeList
  <2>2. \A i \in 1..n : n - i \in BlockIndexes
    BY <1>1 DEF BlockIndexes
  <2>3. FreshFreeList \in Seq(BlockIndexes)
    BY <2>1, <2>2
  <2>4. Len(FreshFreeList) = n
    BY <2>1
  <2>. QED  BY <2>1, <2>3, <2>4
<1>3. /\ \A x : x \in Elements(list) <=> \E i \in 1..n : x = list[i]
      /\ NoneTwice(list) <=> \A i, j \in 1..n : list[i] = list[j] => i = j
  <2>1. Len(list) = n
    BY <1>2
  <2> QED BY <2>1, ElementsByLength
<1>4. NoneTwice(list)
  BY <1>2, <1>3
<1>5. ASSUME NEW x
      PROVE  x \in Elements(list) <=> x \in BlockIndexes
  <2>1. ASSUME NEW i \in 1..n PROVE list[i] \in BlockIndexes
    BY <1>1, <1>2 DEF BlockIndexes
  <2>2. ASSUME NEW b \in BlockIndexes PROVE \E i \in 1..n : b = list[i]
    <3>1. b \in Nat /\ b < n
      BY <1>1 DEF BlockIndexes
    <3>2. n - b \in 1..n /\ n - (n - b) = b
      BY <3>1
    <3>3. list[n - b] = b
      BY <1>2, <3>2
    <3> QED BY <3>2, <3>3
  <2> QED BY <1>3, <2>1, <2>2
<1>6. list # <<>>
  BY <1>1, <1>2
<1> QED BY <1>2, <1>4, <1>5, <1>6

(***************************************************************************)
(* The first block of the free list is handed out, of an arena of the pool *)
(* or of a new one: the block was free, and the records still agree.       *)
(***************************************************************************)
LEMMA BlockTaken ==
    ASSUME IInv, NEW a \in Arenas, NEW list \in Seq(BlockIndexes), list # <<>>, NoneTwice(list),
           NEW used \in SUBSET BlockIndexes, Elements(list) = BlockIndexes \ used,
           a \in Owned => used = useBits[a], a \notin Owned => used = {},
           freeList' = [freeList EXCEPT ![a] = Tail(list)],
           useBits' = [useBits EXCEPT ![a] = used \cup {Head(list)}],
           chunkMask' = [chunkMask EXCEPT ![a] = {Chunk(b) : b \in used} \cup {Chunk(Head(list))}],
           Owned' = Owned \cup {a}
    PROVE  /\ freeList' \in [Arenas -> Seq(BlockIndexes)]
           /\ useBits' \in [Arenas -> SUBSET BlockIndexes]
           /\ chunkMask' \in [Arenas -> SUBSET Chunks]
           /\ \A c \in Owned' : Consistent(c)'
           /\ <<a, Head(list)>> \in Blocks \ Live
           /\ Live' = Live \cup {<<a, Head(list)>>}
<1>1. PICK b \in BlockIndexes : b = Head(list) /\ b \notin used
  BY HeadAndTail
<1>2. PICK rest \in Seq(BlockIndexes) :
          rest = Tail(list) /\ NoneTwice(rest) /\ Elements(rest) = BlockIndexes \ (used \cup {b})
  <2>1. /\ Tail(list) \in Seq(BlockIndexes) /\ NoneTwice(Tail(list))
        /\ Elements(Tail(list)) = Elements(list) \ {Head(list)}
    BY HeadAndTail
  <2>2. Elements(Tail(list)) = BlockIndexes \ (used \cup {b})
    BY <1>1, <2>1
  <2>. QED  BY <2>1, <2>2
<1>3. /\ freeList'[a] = rest /\ useBits'[a] = used \cup {b}
      /\ chunkMask'[a] = {Chunk(x) : x \in used \cup {b}}
      /\ \A c \in Arenas : c # a =>
             freeList'[c] = freeList[c] /\ useBits'[c] = useBits[c] /\ chunkMask'[c] = chunkMask[c]
  BY <1>1, <1>2, Types
<1>4. freeList' \in [Arenas -> Seq(BlockIndexes)]
  BY <1>2, Types
<1>5. useBits' \in [Arenas -> SUBSET BlockIndexes]
  BY <1>1, Types
<1>6. chunkMask' \in [Arenas -> SUBSET Chunks]
  <2>1. {Chunk(x) : x \in used} \cup {Chunk(b)} \in SUBSET Chunks
    BY DEF Chunks
  <2> QED BY <1>1, <2>1, Types
<1>7. ASSUME NEW c \in Owned'
      PROVE  Consistent(c)'
  <2>1. CASE c = a
    BY <1>2, <1>3, <2>1 DEF Consistent
  <2>2. CASE c # a
    <3>1. c \in Owned /\ c \in Arenas /\ Consistent(c)
      BY <2>2, Types DEF IInv
    <3> QED BY <1>3, <2>2, <3>1 DEF Consistent
  <2> QED BY <2>1, <2>2
<1>8. <<a, b>> \in Blocks \ Live
  BY <1>1 DEF Blocks, Live
<1>9. Live' = Live \cup {<<a, b>>}
  <2>1. ASSUME NEW c \in Arenas, NEW x \in BlockIndexes
        PROVE  <<c, x>> \in Live' <=> <<c, x>> \in Live \/ (c = a /\ x = b)
    <3>1. <<c, x>> \in Live' <=> c \in Owned' /\ x \in useBits'[c]
      BY DEF Live, Blocks
    <3>2. <<c, x>> \in Live <=> c \in Owned /\ x \in useBits[c]
      BY DEF Live, Blocks
    <3> QED BY <1>3, <3>1, <3>2
  <2>2. Live \subseteq Blocks /\ Live' \subseteq Blocks /\ <<a, b>> \in Blocks
    BY DEF Live, Blocks
  <2> QED BY <2>1, <2>2 DEF Blocks
<1> QED BY <1>1, <1>4, <1>5, <1>6, <1>7, <1>8, <1>9
(* The places the cursor has passed hold full arenas once the arena in use *)
(* is exhausted.                                                           *)
LEMMA PassedAreFull ==
    ASSUME IInv, ~Sweeping, CurrentExhausted
    PROVE  \A j \in DOMAIN arenas : j <= nextStart => IsFull(arenas[j])
<1>1. \A j \in DOMAIN arenas : arenas[j] \in Arenas
  BY Types
<1>2. \A j \in DOMAIN arenas : j <= nextStart => arenas[j] = current \/ IsFull(arenas[j])
  BY DEF IInv, CursorSound
<1>3. \A j \in DOMAIN arenas : arenas[j] # NoArena
  BY <1>1, Types
<1>. QED  BY <1>2, <1>3 DEF CurrentExhausted

(* What the search for an arena with a free block selects, when the places *)
(* it does not look at hold full arenas                                    *)
LEMMA Found ==
    ASSUME IInv, NEW n \in Nat, FindNextNotFull(n),
           \A j \in DOMAIN arenas : j <= n => IsFull(arenas[j])
    PROVE  /\ nextStart' \in Nat
           /\ \A j \in DOMAIN arenas : j <= nextStart' => arenas[j] = current' \/ IsFull(arenas[j])
           /\ \/ current' = NoArena /\ AllFull
              \/ current' \in Owned /\ ~IsFull(current')
<1>1. CASE NotFullFrom(n) = {}
  <2>1. \A j \in DOMAIN arenas : j > n => IsFull(arenas[j])
    BY <1>1 DEF NotFullFrom
  <2>2. \A j \in DOMAIN arenas : j \in Nat /\ (j <= n \/ j > n)
    BY Types
  <2>3. \A j \in DOMAIN arenas : IsFull(arenas[j])
    BY <2>1, <2>2
  <2>4. AllFull
    BY <2>3 DEF AllFull, Owned
  <2>5. current' = NoArena /\ nextStart' = Len(arenas)
    BY <1>1 DEF FindNextNotFull
  <2>. QED  BY <2>3, <2>4, <2>5, Types
<1>2. CASE NotFullFrom(n) # {}
  <2>1. PICK i \in NotFullFrom(n) :
            /\ \A j \in NotFullFrom(n) : i <= j
            /\ current' = arenas[i] /\ nextStart' = i
    BY <1>2 DEF FindNextNotFull
  <2>2. i \in DOMAIN arenas /\ i > n /\ ~IsFull(arenas[i]) /\ i \in Nat
    BY Types DEF NotFullFrom
  <2>3. ASSUME NEW j \in DOMAIN arenas, j <= i
        PROVE  j = i \/ IsFull(arenas[j])
    <3>1. j \in Nat
      BY Types
    <3>2. CASE j <= n
      BY <3>2
    <3>3. CASE j > n /\ ~IsFull(arenas[j])
      <4>1. i <= j
        BY <2>1, <3>3 DEF NotFullFrom
      <4>. QED  BY <2>2, <2>3, <3>1, <4>1
    <3>. QED  BY <3>1, <3>2, <3>3
  <2>. QED  BY <2>1, <2>2, <2>3 DEF Owned
<1>. QED  BY <1>1, <1>2

(* Allocating from the arena in use keeps the invariant and hands out a    *)
(* block that was free.                                                    *)
LEMMA AllocateFromCurrentStep ==
    ASSUME IInv, AllocateFromCurrent
    PROVE  IInv' /\ \E blk \in Blocks \ Live : Live' = Live \cup {blk} /\ result' = blk
<1>1. PICK a \in Arenas : a = current /\ a \in Owned
  BY Types DEF AllocateFromCurrent, IInv, CursorSound
<1>2. PICK list \in Seq(BlockIndexes) :
          list = freeList[a] /\ list # <<>> /\ NoneTwice(list)
          /\ Elements(list) = BlockIndexes \ useBits[a]
  BY <1>1, Types DEF AllocateFromCurrent, IsFull, IInv, Consistent
<1>3. PICK used \in SUBSET BlockIndexes :
          used = useBits[a] /\ chunkMask[a] = {Chunk(b) : b \in used}
  BY <1>1, Types DEF IInv, Consistent
<1>4. /\ freeList' = [freeList EXCEPT ![a] = Tail(list)]
      /\ useBits' = [useBits EXCEPT ![a] = used \cup {Head(list)}]
      /\ chunkMask' = [chunkMask EXCEPT ![a] = {Chunk(b) : b \in used} \cup {Chunk(Head(list))}]
      /\ result' = <<a, Head(list)>>
  BY <1>1, <1>2, <1>3 DEF AllocateFromCurrent, Take
<1>5. ~Sweeping /\ UNCHANGED <<arenas, current, nextStart, alive, arenaAt, blockAt>>
  BY DEF AllocateFromCurrent
<1>6. Owned' = Owned /\ Owned' = Owned \cup {a}
  BY <1>1, <1>5 DEF Owned
<1>7. /\ freeList' \in [Arenas -> Seq(BlockIndexes)]
      /\ useBits' \in [Arenas -> SUBSET BlockIndexes]
      /\ chunkMask' \in [Arenas -> SUBSET Chunks]
      /\ \A c \in Owned' : Consistent(c)'
      /\ <<a, Head(list)>> \in Blocks \ Live
      /\ Live' = Live \cup {<<a, Head(list)>>}
  <2>1. Elements(list) = BlockIndexes \ used
    BY <1>2, <1>3
  <2>. QED  BY <1>1, <1>2, <1>3, <1>4, <1>6, <2>1, BlockTaken
<1>8. TypeOK'
  BY <1>4, <1>5, <1>7 DEF IInv, TypeOK, Sweeping
<1>9. NoneTwice(arenas)'
  BY <1>5 DEF IInv, NoneTwice
<1>10. CursorSound'
  <2>1. \A i \in DOMAIN arenas : i <= nextStart => arenas[i] = current \/ IsFull(arenas[i])
    BY <1>5 DEF IInv, CursorSound
  <2>2. \A c \in Arenas : c # a => freeList'[c] = freeList[c]
    BY <1>4, Types
  <2>3. \A i \in DOMAIN arenas : arenas[i] \in Arenas
    BY Types
  <2>4. \A i \in DOMAIN arenas : i <= nextStart => arenas[i] = current \/ IsFull(arenas[i])'
    BY <1>1, <1>5, <2>1, <2>2, <2>3 DEF IsFull
  <2>5. current' \in Owned' /\ current' # NoArena
    BY <1>1, <1>5, <1>6, Types
  <2>. QED  BY <1>5, <2>4, <2>5 DEF CursorSound
<1>11. SweepSound'
  BY <1>5 DEF SweepSound, Sweeping
<1>. QED  BY <1>4, <1>7, <1>8, <1>9, <1>10, <1>11 DEF IInv

(* ... and so does allocating from the next arena that is not full. *)
LEMMA AllocateFromNextStep ==
    ASSUME IInv, AllocateFromNext
    PROVE  /\ IInv' /\ \E blk \in Blocks \ Live : Live' = Live \cup {blk} /\ result' = blk
           /\ current' # NoArena
<1>1. ~Sweeping /\ CurrentExhausted /\ UNCHANGED <<arenas, alive, arenaAt, blockAt>>
  BY DEF AllocateFromNext
<1>2. /\ nextStart' \in Nat
      /\ \A j \in DOMAIN arenas : j <= nextStart' => arenas[j] = current' \/ IsFull(arenas[j])
      /\ current' \in Owned /\ ~IsFull(current')
  <2>1. \A j \in DOMAIN arenas : j <= nextStart => IsFull(arenas[j])
    BY <1>1, PassedAreFull
  <2>2. PICK i \in DOMAIN arenas : i > nextStart /\ ~IsFull(arenas[i])
    BY DEF AllocateFromNext, NotFullFrom
  <2>3. ~AllFull
    BY <2>2 DEF AllFull, Owned
  <2>4. FindNextNotFull(nextStart) /\ nextStart \in Nat
    BY Types DEF AllocateFromNext
  <2>. QED  BY <2>1, <2>3, <2>4, Found
<1>3. PICK a \in Arenas : a = current' /\ a \in Owned /\ ~IsFull(a)
  BY <1>2, Types
<1>4. PICK list \in Seq(BlockIndexes) :
          list = freeList[a] /\ list # <<>> /\ NoneTwice(list)
          /\ Elements(list) = BlockIndexes \ useBits[a]
  BY <1>3, Types DEF IsFull, IInv, Consistent
<1>5. PICK used \in SUBSET BlockIndexes :
          used = useBits[a] /\ chunkMask[a] = {Chunk(b) : b \in used}
  BY <1>3, Types DEF IInv, Consistent
<1>6. /\ freeList' = [freeList EXCEPT ![a] = Tail(list)]
      /\ useBits' = [useBits EXCEPT ![a] = used \cup {Head(list)}]
      /\ chunkMask' = [chunkMask EXCEPT ![a] = {Chunk(b) : b \in used} \cup {Chunk(Head(list))}]
      /\ result' = <<a, Head(list)>>
  BY <1>3, <1>4, <1>5 DEF AllocateFromNext, Take
<1>7. Owned' = Owned /\ Owned' = Owned \cup {a}
  BY <1>1, <1>3 DEF Owned
<1>8. /\ freeList' \in [Arenas -> Seq(BlockIndexes)]
      /\ useBits' \in [Arenas -> SUBSET BlockIndexes]
      /\ chunkMask' \in [Arenas -> SUBSET Chunks]
      /\ \A c \in Owned' : Consistent(c)'
      /\ <<a, Head(list)>> \in Blocks \ Live
      /\ Live' = Live \cup {<<a, Head(list)>>}
  <2>1. Elements(list) = BlockIndexes \ used
    BY <1>4, <1>5
  <2>. QED  BY <1>3, <1>4, <1>5, <1>6, <1>7, <2>1, BlockTaken
<1>9. TypeOK'
  BY <1>1, <1>2, <1>3, <1>6, <1>8 DEF IInv, TypeOK, Sweeping
<1>10. NoneTwice(arenas)'
  BY <1>1 DEF IInv, NoneTwice
<1>11. CursorSound'
  <2>1. \A c \in Arenas : c # a => freeList'[c] = freeList[c]
    BY <1>6, Types
  <2>2. \A i \in DOMAIN arenas : arenas[i] \in Arenas
    BY Types
  <2>3. \A i \in DOMAIN arenas : i <= nextStart' => arenas[i] = current' \/ IsFull(arenas[i])'
    BY <1>1, <1>2, <1>3, <2>1, <2>2 DEF IsFull
  <2>4. current' \in Owned' /\ current' # NoArena
    BY <1>3, <1>7, Types
  <2>. QED  BY <1>1, <2>3, <2>4 DEF CursorSound
<1>12. SweepSound'
  BY <1>1 DEF SweepSound, Sweeping
<1>13. current' # NoArena
  BY <1>3, Types
<1>. QED  BY <1>6, <1>8, <1>9, <1>10, <1>11, <1>12, <1>13 DEF IInv
(* The places of an array with an arena added at the end *)
LEMMA ArenaAppended ==
    ASSUME IInv, NEW a \in Arenas \ Owned, arenas' = Append(arenas, a)
    PROVE  /\ arenas' \in Seq(Arenas) /\ NoneTwice(arenas') /\ Owned' = Owned \cup {a}
           /\ Len(arenas') \in Nat /\ Len(arenas') > Len(arenas)
           /\ \A i \in DOMAIN arenas' : arenas'[i] = a \/ arenas'[i] \in Owned
<1>1. PICK n \in Nat : n = Len(arenas) /\ DOMAIN arenas = 1..n
  BY Types
<1>2. /\ arenas' \in Seq(Arenas) /\ Len(arenas') = n + 1
      /\ arenas'[n + 1] = a /\ \A i \in 1..n : arenas'[i] = arenas[i]
  BY <1>1, Types
<1>3. DOMAIN arenas' = 1..(n + 1)
  BY <1>2
<1>4. \A i \in 1..n : arenas[i] \in Owned /\ arenas[i] # a
  BY <1>1 DEF Owned
<1>5. \A i \in 1..(n + 1) : i \in 1..n \/ i = n + 1
  OBVIOUS
<1>6. NoneTwice(arenas')
  <2>1. \A i, j \in 1..n : arenas[i] = arenas[j] => i = j
    BY <1>1 DEF IInv, NoneTwice
  <2>2. ASSUME NEW i \in 1..(n + 1), NEW j \in 1..(n + 1), arenas'[i] = arenas'[j]
        PROVE  i = j
    BY <1>2, <1>4, <1>5, <2>1, <2>2
  <2>. QED  BY <1>3, <2>2 DEF NoneTwice
<1>7. Owned' = Owned \cup {a}
  <2>1. \A c : c \in Owned <=> \E i \in 1..n : c = arenas[i]
    BY <1>1 DEF Owned
  <2>2. \A c : c \in Owned' <=> \E i \in 1..(n + 1) : c = arenas'[i]
    BY <1>3 DEF Owned
  <2>3. \A i \in 1..n : i \in 1..(n + 1)
    OBVIOUS
  <2>4. n + 1 \in 1..(n + 1)
    OBVIOUS
  <2>5. ASSUME NEW c \in Owned' PROVE c \in Owned \cup {a}
    BY <1>2, <1>5, <2>1, <2>2
  <2>6. ASSUME NEW c \in Owned \cup {a} PROVE c \in Owned'
    BY <1>2, <2>1, <2>2, <2>3, <2>4
  <2>. QED  BY <2>5, <2>6
<1>8. \A i \in DOMAIN arenas' : arenas'[i] = a \/ arenas'[i] \in Owned
  BY <1>2, <1>3, <1>4, <1>5
<1>. QED  BY <1>1, <1>2, <1>6, <1>7, <1>8

(* An arena is asked for when no arena of the pool has a free block. *)
LEMMA ExhaustedMeansFull ==
    ASSUME IInv, ~Sweeping, CurrentExhausted, NotFullFrom(nextStart) = {}
    PROVE  AllFull
<1>1. \A j \in DOMAIN arenas : j <= nextStart => IsFull(arenas[j])
  BY PassedAreFull
<1>2. \A j \in DOMAIN arenas : j > nextStart => IsFull(arenas[j])
  BY DEF NotFullFrom
<1>3. \A j \in DOMAIN arenas : j \in Nat
  BY Types
<1>4. \A j \in DOMAIN arenas : IsFull(arenas[j])
  BY <1>1, <1>2, <1>3, Types
<1>. QED  BY <1>4 DEF AllFull, Owned

(* A new arena starts with every block free but the one handed out. *)
LEMMA AllocateFromNewArenaStep ==
    ASSUME IInv, NEW a \in Arenas, AllocateFromNewArena(a)
    PROVE  IInv' /\ \E blk \in Blocks \ Live : Live' = Live \cup {blk} /\ result' = blk
<1>1. /\ ~Sweeping /\ a \notin Owned /\ arenas' = Append(arenas, a)
      /\ current' = a /\ nextStart' = Len(arenas') /\ UNCHANGED <<alive, arenaAt, blockAt>>
  BY DEF AllocateFromNewArena
<1>2. PICK list \in Seq(BlockIndexes) :
          list = FreshFreeList /\ list # <<>> /\ NoneTwice(list)
          /\ Elements(list) = BlockIndexes
  BY FreshIsComplete
<1>3. PICK used \in SUBSET BlockIndexes : used = {}
  OBVIOUS
<1>4. /\ freeList' = [freeList EXCEPT ![a] = Tail(list)]
      /\ useBits' = [useBits EXCEPT ![a] = used \cup {Head(list)}]
      /\ chunkMask' = [chunkMask EXCEPT ![a] = {Chunk(b) : b \in used} \cup {Chunk(Head(list))}]
      /\ result' = <<a, Head(list)>>
  <2>1. used \cup {Head(list)} = {Head(list)}
    BY <1>3
  <2>2. {Chunk(b) : b \in used} \cup {Chunk(Head(list))} = {Chunk(Head(list))}
    BY <1>3
  <2>. QED  BY <1>2, <2>1, <2>2 DEF AllocateFromNewArena
<1>5. /\ arenas' \in Seq(Arenas) /\ NoneTwice(arenas') /\ Owned' = Owned \cup {a}
      /\ Len(arenas') \in Nat
      /\ \A i \in DOMAIN arenas' : arenas'[i] = a \/ arenas'[i] \in Owned
  BY <1>1, ArenaAppended
<1>6. /\ freeList' \in [Arenas -> Seq(BlockIndexes)]
      /\ useBits' \in [Arenas -> SUBSET BlockIndexes]
      /\ chunkMask' \in [Arenas -> SUBSET Chunks]
      /\ \A c \in Owned' : Consistent(c)'
      /\ <<a, Head(list)>> \in Blocks \ Live
      /\ Live' = Live \cup {<<a, Head(list)>>}
  <2>1. Elements(list) = BlockIndexes \ used
    BY <1>2, <1>3
  <2>. QED  BY <1>1, <1>2, <1>3, <1>4, <1>5, <2>1, BlockTaken
<1>7. TypeOK'
  <2>1. result' \in Blocks
    BY <1>4, <1>6
  <2>. QED  BY <1>1, <1>5, <1>6, <2>1 DEF IInv, TypeOK, Sweeping
<1>8. CursorSound'
  <2>1. AllFull
    BY <1>1, ExhaustedMeansFull DEF AllocateFromNewArena
  <2>2. \A c \in Arenas : c # a => freeList'[c] = freeList[c]
    BY <1>4, Types
  <2>3. \A c \in Owned : c \in Arenas /\ c # a
    BY <1>1, Types
  <2>4. \A c \in Owned : freeList'[c] = <<>>
    BY <2>1, <2>2, <2>3 DEF AllFull, IsFull
  <2>5. \A i \in DOMAIN arenas' : arenas'[i] = current' \/ freeList'[arenas'[i]] = <<>>
    BY <1>1, <1>5, <2>4
  <2>6. current' \in Owned' /\ current' # NoArena
    BY <1>1, <1>5, Types
  <2>. QED  BY <2>5, <2>6 DEF CursorSound, IsFull
<1>9. SweepSound'
  BY <1>1 DEF SweepSound, Sweeping
<1>. QED  BY <1>4, <1>5, <1>6, <1>7, <1>8, <1>9 DEF IInv, NoneTwice

(* A failed allocation leaves the pool as it was, with every arena full. *)
LEMMA AllocateFailsStep ==
    ASSUME IInv, AllocateFails
    PROVE  IInv' /\ Live' = Live /\ result' = NoBlock
<1>1. /\ ~Sweeping /\ current' = NoArena /\ nextStart' = Len(arenas) /\ result' = NoBlock
      /\ UNCHANGED <<arenas, freeList, useBits, chunkMask, alive, arenaAt, blockAt>>
  BY DEF AllocateFails
<1>2. AllFull
  BY <1>1, ExhaustedMeansFull DEF AllocateFails
<1>3. Owned' = Owned /\ Live' = Live
  BY <1>1 DEF Owned, Live
<1>4. AllFull'
  BY <1>1, <1>2, <1>3 DEF AllFull, IsFull
<1>5. CursorSound'
  <2>1. \A i \in DOMAIN arenas' : IsFull(arenas[i])'
    BY <1>4 DEF AllFull, Owned
  <2>. QED  BY <1>1, <1>4, <2>1 DEF CursorSound
<1>6. TypeOK'
  BY <1>1, Types DEF IInv, TypeOK, Sweeping
<1>7. \A c \in Owned' : Consistent(c)'
  BY <1>1, <1>3 DEF IInv, Consistent
<1>8. NoneTwice(arenas)'
  BY <1>1 DEF IInv, NoneTwice
<1>9. SweepSound'
  BY <1>1 DEF SweepSound, Sweeping
<1>. QED  BY <1>1, <1>3, <1>5, <1>6, <1>7, <1>8, <1>9 DEF IInv
(* A sweep begins with the loop before the first block of the first arena. *)
LEMMA BeginSweepStep ==
    ASSUME IInv, NEW S \in SUBSET Live, BeginSweep(S)
    PROVE  IInv' /\ Live' = Live /\ ~Sweeping /\ alive' = S /\ result' = result
<1>1. /\ ~Sweeping /\ alive' = S /\ arenaAt' = 1 /\ blockAt' = 0
      /\ UNCHANGED <<arenas, freeList, useBits, chunkMask, current, nextStart, result>>
  BY DEF BeginSweep
<1>2. Owned' = Owned /\ Live' = Live
  BY <1>1 DEF Owned, Live
<1>3. Sweeping'
  <2>1. S \in SUBSET (Arenas \X (0 .. BlockCount - 1))
    BY DEF Live, Blocks, BlockIndexes
  <2>. QED  BY <1>1, <2>1, PoolAssumption DEF Sweeping
<1>4. TypeOK'
  <2>1. 0 \in 0 .. BlockCount
    BY Types
  <2>. QED  BY <1>1, <2>1 DEF IInv, TypeOK, Live
<1>5. \A c \in Owned' : Consistent(c)'
  BY <1>1, <1>2 DEF IInv, Consistent
<1>6. NoneTwice(arenas)'
  BY <1>1 DEF IInv, NoneTwice
<1>7. CursorSound'
  BY <1>3 DEF CursorSound
<1>8. SweepSound'
  <2>1. \A i \in DOMAIN arenas : ~(i < 1)
    BY Types
  <2>2. \A b \in BlockIndexes : ~(b < 0)
    BY DEF BlockIndexes
  <2>. QED  BY <1>1, <1>2, <2>1, <2>2 DEF SweepSound
<1>. QED  BY <1>1, <1>2, <1>4, <1>5, <1>6, <1>7, <1>8 DEF IInv

(* The loop of an arena's sweep is at a block of an arena of the pool. *)
LEMMA AtBlockFacts ==
    ASSUME IInv, NEW a \in Arenas, AtBlock(a)
    PROVE  /\ Sweeping /\ arenaAt \in DOMAIN arenas /\ a = arenas[arenaAt] /\ a \in Owned
           /\ blockAt \in BlockIndexes /\ blockAt + 1 \in 0 .. BlockCount
           /\ Consistent(a)
           /\ \A i \in DOMAIN arenas : arenas[i] = a => i = arenaAt
<1>1. Sweeping /\ arenaAt \in DOMAIN arenas /\ a = arenas[arenaAt] /\ blockAt < BlockCount
  BY DEF AtBlock
<1>2. a \in Owned
  BY <1>1 DEF Owned
<1>3. blockAt \in BlockIndexes /\ blockAt + 1 \in 0 .. BlockCount
  BY <1>1, Types DEF BlockIndexes
<1>4. \A i \in DOMAIN arenas : arenas[i] = a => i = arenaAt
  BY <1>1 DEF IInv, NoneTwice
<1>. QED  BY <1>1, <1>2, <1>3, <1>4 DEF IInv

(* A block that is free or marked is left as it is. *)
LEMMA SweepLiveOrFreeStep ==
    ASSUME IInv, NEW a \in Arenas, SweepLiveOrFree(a)
    PROVE  IInv' /\ Live' = Live /\ alive' = alive /\ result' = result
<1>1. /\ AtBlock(a) /\ ~IsDead(a, blockAt) /\ blockAt' = blockAt + 1
      /\ UNCHANGED <<arenas, freeList, useBits, chunkMask, current, nextStart, alive, arenaAt, result>>
  BY DEF SweepLiveOrFree
<1>2. /\ Sweeping /\ arenaAt \in DOMAIN arenas /\ a = arenas[arenaAt] /\ a \in Owned
      /\ blockAt \in BlockIndexes /\ blockAt + 1 \in 0 .. BlockCount /\ Consistent(a)
  BY <1>1, AtBlockFacts
<1>3. Owned' = Owned /\ Live' = Live /\ Sweeping'
  BY <1>1, <1>2 DEF Owned, Live, Sweeping
<1>4. TypeOK'
  BY <1>1, <1>2 DEF IInv, TypeOK, Sweeping
<1>5. \A c \in Owned' : Consistent(c)'
  BY <1>1, <1>3 DEF IInv, Consistent
<1>6. NoneTwice(arenas)'
  BY <1>1 DEF IInv, NoneTwice
<1>7. CursorSound'
  BY <1>3 DEF CursorSound
<1>8. SweepSound'
  <2>1. blockAt \in useBits[a] => <<a, blockAt>> \in alive
    <3>1. blockAt \in useBits[a] => Chunk(blockAt) \in chunkMask[a]
      BY <1>2 DEF Consistent
    <3>. QED  BY <1>1, <3>1 DEF IsDead
  <2>2. /\ arenaAt >= 1 /\ alive \subseteq Live
        /\ \A i \in DOMAIN arenas, b \in BlockIndexes :
               (i < arenaAt \/ (i = arenaAt /\ b < blockAt)) /\ b \in useBits[arenas[i]]
                   => <<arenas[i], b>> \in alive
    BY <1>2 DEF IInv, SweepSound
  <2>3. \A b \in BlockIndexes : b < blockAt + 1 => b < blockAt \/ b = blockAt
    BY <1>2 DEF BlockIndexes
  <2>4. \A i \in DOMAIN arenas, b \in BlockIndexes :
            (i < arenaAt \/ (i = arenaAt /\ b < blockAt + 1)) /\ b \in useBits[arenas[i]]
                => <<arenas[i], b>> \in alive
    BY <1>2, <2>1, <2>2, <2>3
  <2>. QED  BY <1>1, <1>3, <2>2, <2>4 DEF SweepSound
<1>. QED  BY <1>1, <1>3, <1>4, <1>5, <1>6, <1>7, <1>8 DEF IInv

(* A dead block goes back to the free list of its arena, and no other.     *)
LEMMA SweepDeadStep ==
    ASSUME IInv, NEW a \in Arenas, SweepDead(a)
    PROVE  /\ IInv' /\ alive' = alive /\ result' = result /\ Sweeping
           /\ <<a, blockAt>> \in Live \ alive
           /\ Live' = Live \ {<<a, blockAt>>}
<1>1. /\ AtBlock(a) /\ blockAt \in useBits[a] /\ <<a, blockAt>> \notin alive
      /\ freeList' = [freeList EXCEPT ![a] = <<blockAt>> \o @]
      /\ useBits' = [useBits EXCEPT ![a] = @ \ {blockAt}]
      /\ chunkMask' = [chunkMask EXCEPT ![a] = MaskWithout(a, blockAt)]
      /\ blockAt' = blockAt + 1
      /\ UNCHANGED <<arenas, current, nextStart, alive, arenaAt, result>>
  BY DEF SweepDead, IsDead
<1>2. /\ Sweeping /\ arenaAt \in DOMAIN arenas /\ a = arenas[arenaAt] /\ a \in Owned
      /\ blockAt \in BlockIndexes /\ blockAt + 1 \in 0 .. BlockCount /\ Consistent(a)
      /\ \A i \in DOMAIN arenas : arenas[i] = a => i = arenaAt
  BY <1>1, AtBlockFacts
<1>3. PICK list \in Seq(BlockIndexes), used \in SUBSET BlockIndexes :
          /\ list = freeList[a] /\ used = useBits[a] /\ NoneTwice(list)
          /\ Elements(list) = BlockIndexes \ used
          /\ chunkMask[a] = {Chunk(b) : b \in used}
  BY <1>2, Types DEF Consistent
<1>4. PICK more \in Seq(BlockIndexes) :
          /\ more = <<blockAt>> \o list /\ NoneTwice(more)
          /\ Elements(more) = BlockIndexes \ (used \ {blockAt})
  <2>1. blockAt \notin Elements(list)
    BY <1>1, <1>3
  <2>2. /\ <<blockAt>> \o list \in Seq(BlockIndexes) /\ NoneTwice(<<blockAt>> \o list)
        /\ Elements(<<blockAt>> \o list) = Elements(list) \cup {blockAt}
    BY <1>2, <1>3, <2>1, Prepended
  <2>3. Elements(<<blockAt>> \o list) = BlockIndexes \ (used \ {blockAt})
    BY <1>1, <1>2, <1>3, <2>2
  <2>. QED  BY <2>2, <2>3
<1>5. MaskWithout(a, blockAt) = {Chunk(b) : b \in used \ {blockAt}}
  <2>1. CASE \E x \in used \ {blockAt} : Chunk(x) = Chunk(blockAt)
    <3>1. MaskWithout(a, blockAt) = chunkMask[a]
      BY <1>3, <2>1 DEF MaskWithout
    <3>. QED  BY <1>3, <2>1, <3>1
  <2>2. CASE ~\E x \in used \ {blockAt} : Chunk(x) = Chunk(blockAt)
    <3>1. MaskWithout(a, blockAt) = chunkMask[a] \ {Chunk(blockAt)}
      BY <1>3, <2>2 DEF MaskWithout
    <3>. QED  BY <1>3, <2>2, <3>1
  <2>. QED  BY <2>1, <2>2
<1>6. /\ freeList'[a] = more /\ useBits'[a] = used \ {blockAt}
      /\ chunkMask'[a] = {Chunk(b) : b \in used \ {blockAt}}
      /\ \A c \in Arenas : c # a =>
             freeList'[c] = freeList[c] /\ useBits'[c] = useBits[c] /\ chunkMask'[c] = chunkMask[c]
  BY <1>1, <1>3, <1>4, <1>5, Types
<1>7. /\ freeList' \in [Arenas -> Seq(BlockIndexes)]
      /\ useBits' \in [Arenas -> SUBSET BlockIndexes]
      /\ chunkMask' \in [Arenas -> SUBSET Chunks]
  <2>1. freeList' \in [Arenas -> Seq(BlockIndexes)]
    BY <1>1, <1>3, <1>4, Types
  <2>2. useBits' \in [Arenas -> SUBSET BlockIndexes]
    BY <1>1, Types
  <2>3. MaskWithout(a, blockAt) \in SUBSET Chunks
    BY <1>5 DEF Chunks
  <2>4. chunkMask' \in [Arenas -> SUBSET Chunks]
    BY <1>1, <2>3, Types
  <2>. QED  BY <2>1, <2>2, <2>4
<1>8. Owned' = Owned /\ Sweeping'
  BY <1>1, <1>2 DEF Owned, Sweeping
<1>9. <<a, blockAt>> \in Live \ alive
  BY <1>1, <1>2 DEF Live, Blocks
<1>10. Live' = Live \ {<<a, blockAt>>}
  <2>1. ASSUME NEW c \in Arenas, NEW x \in BlockIndexes
        PROVE  <<c, x>> \in Live' <=> <<c, x>> \in Live /\ ~(c = a /\ x = blockAt)
    <3>1. <<c, x>> \in Live' <=> c \in Owned /\ x \in useBits'[c]
      BY <1>8 DEF Live, Blocks
    <3>2. <<c, x>> \in Live <=> c \in Owned /\ x \in useBits[c]
      BY DEF Live, Blocks
    <3>. QED  BY <1>3, <1>6, <3>1, <3>2
  <2>2. Live \subseteq Blocks /\ Live' \subseteq Blocks
    BY DEF Live, Blocks
  <2>. QED  BY <2>1, <2>2 DEF Blocks
<1>11. TypeOK'
  BY <1>1, <1>2, <1>7 DEF IInv, TypeOK, Sweeping
<1>12. ASSUME NEW c \in Owned'
       PROVE  Consistent(c)'
  <2>1. CASE c = a
    BY <1>4, <1>6, <2>1 DEF Consistent
  <2>2. CASE c # a
    <3>1. c \in Arenas /\ Consistent(c)
      BY <1>8, Types DEF IInv
    <3>. QED  BY <1>6, <2>2, <3>1 DEF Consistent
  <2>. QED  BY <2>1, <2>2
<1>13. NoneTwice(arenas)'
  BY <1>1 DEF IInv, NoneTwice
<1>14. CursorSound'
  BY <1>8 DEF CursorSound
<1>15. SweepSound'
  <2>1. /\ arenaAt >= 1 /\ alive \subseteq Live
        /\ \A i \in DOMAIN arenas, b \in BlockIndexes :
               (i < arenaAt \/ (i = arenaAt /\ b < blockAt)) /\ b \in useBits[arenas[i]]
                   => <<arenas[i], b>> \in alive
    BY <1>2 DEF IInv, SweepSound
  <2>2. \A b \in BlockIndexes : b < blockAt + 1 => b < blockAt \/ b = blockAt
    BY <1>2 DEF BlockIndexes
  <2>3. \A c \in Arenas, b \in BlockIndexes :
            b \in useBits'[c] => b \in useBits[c] /\ ~(c = a /\ b = blockAt)
    BY <1>3, <1>6
  <2>4. \A i \in DOMAIN arenas : arenas[i] \in Arenas
    BY Types
  <2>5. ASSUME NEW i \in DOMAIN arenas, NEW b \in BlockIndexes, b \in useBits'[arenas[i]],
               i < arenaAt \/ (i = arenaAt /\ b < blockAt + 1)
        PROVE  <<arenas[i], b>> \in alive
    <3>1. b \in useBits[arenas[i]] /\ ~(arenas[i] = a /\ b = blockAt)
      BY <2>3, <2>4, <2>5
    <3>2. i < arenaAt \/ (i = arenaAt /\ b < blockAt)
      BY <1>2, <2>2, <2>5, <3>1
    <3>. QED  BY <2>1, <3>1, <3>2
  <2>6. alive \subseteq Live'
    BY <1>9, <1>10, <2>1
  <2>. QED  BY <1>1, <2>1, <2>5, <2>6 DEF SweepSound
<1>. QED  BY <1>1, <1>2, <1>9, <1>10, <1>11, <1>12, <1>13, <1>14, <1>15 DEF IInv
(* The loop is past the last block of an arena of the pool: every block in *)
(* use before the next arena is marked.                                    *)
LEMMA AtArenaEndFacts ==
    ASSUME IInv, NEW a \in Arenas, AtArenaEnd(a)
    PROVE  /\ Sweeping /\ arenaAt \in DOMAIN arenas /\ a = arenas[arenaAt] /\ a \in Owned
           /\ Consistent(a) /\ arenaAt >= 1 /\ alive \subseteq Live
           /\ \A i \in DOMAIN arenas, b \in BlockIndexes :
                  i <= arenaAt /\ b \in useBits[arenas[i]] => <<arenas[i], b>> \in alive
<1>1. Sweeping /\ arenaAt \in DOMAIN arenas /\ a = arenas[arenaAt] /\ blockAt = BlockCount
  BY DEF AtArenaEnd
<1>2. a \in Owned
  BY <1>1 DEF Owned
<1>3. /\ arenaAt >= 1 /\ alive \subseteq Live
      /\ \A i \in DOMAIN arenas, b \in BlockIndexes :
             (i < arenaAt \/ (i = arenaAt /\ b < blockAt)) /\ b \in useBits[arenas[i]]
                 => <<arenas[i], b>> \in alive
  BY <1>1 DEF IInv, SweepSound
<1>4. \A b \in BlockIndexes : b < blockAt
  BY <1>1, Types DEF BlockIndexes
<1>5. \A i \in DOMAIN arenas : i <= arenaAt => i < arenaAt \/ i = arenaAt
  BY Types
<1>. QED  BY <1>1, <1>2, <1>3, <1>4, <1>5 DEF IInv

(* An arena with blocks in use stays, and the loop goes on to the next.    *)
LEMMA KeepArenaStep ==
    ASSUME IInv, NEW a \in Arenas, KeepArena(a)
    PROVE  IInv' /\ Live' = Live /\ alive' = alive /\ result' = result
<1>1. /\ AtArenaEnd(a) /\ arenaAt' = arenaAt + 1 /\ blockAt' = 0
      /\ UNCHANGED <<arenas, freeList, useBits, chunkMask, current, nextStart, alive, result>>
  BY DEF KeepArena
<1>2. /\ Sweeping /\ arenaAt >= 1 /\ alive \subseteq Live
      /\ \A i \in DOMAIN arenas, b \in BlockIndexes :
             i <= arenaAt /\ b \in useBits[arenas[i]] => <<arenas[i], b>> \in alive
  BY <1>1, AtArenaEndFacts
<1>3. Owned' = Owned /\ Live' = Live /\ Sweeping'
  BY <1>1, <1>2 DEF Owned, Live, Sweeping
<1>4. TypeOK'
  <2>1. 0 \in 0 .. BlockCount /\ arenaAt + 1 \in Nat
    BY Types
  <2>. QED  BY <1>1, <2>1 DEF IInv, TypeOK, Sweeping
<1>5. \A c \in Owned' : Consistent(c)'
  BY <1>1, <1>3 DEF IInv, Consistent
<1>6. NoneTwice(arenas)'
  BY <1>1 DEF IInv, NoneTwice
<1>7. CursorSound'
  BY <1>3 DEF CursorSound
<1>8. SweepSound'
  <2>1. \A b \in BlockIndexes : ~(b < 0)
    BY DEF BlockIndexes
  <2>2. \A i \in DOMAIN arenas : i < arenaAt + 1 => i <= arenaAt
    BY Types
  <2>3. arenaAt + 1 >= 1
    BY Types
  <2>. QED  BY <1>1, <1>2, <1>3, <2>1, <2>2, <2>3 DEF SweepSound
<1>. QED  BY <1>1, <1>3, <1>4, <1>5, <1>6, <1>7, <1>8 DEF IInv

(* The array after the arena at a place is replaced by the last one: every *)
(* other arena is still in it, once, and those before it have not moved.   *)
LEMMA ArenaRemoved ==
    ASSUME IInv, NEW a \in Arenas, NEW k \in DOMAIN arenas, a = arenas[k],
           arenas' = SubSeq([arenas EXCEPT ![k] = arenas[Len(arenas)]], 1, Len(arenas) - 1)
    PROVE  /\ arenas' \in Seq(Arenas) /\ NoneTwice(arenas') /\ Owned' = Owned \ {a}
           /\ \A i \in DOMAIN arenas' : i < k => i \in DOMAIN arenas /\ arenas'[i] = arenas[i]
<1>1. PICK n \in Nat : n = Len(arenas) /\ DOMAIN arenas = 1..n /\ n >= 1 /\ n - 1 \in Nat
  <2>1. Len(arenas) \in Nat /\ DOMAIN arenas = 1..Len(arenas) /\ k \in 1..Len(arenas)
    BY Types
  <2>2. Len(arenas) >= 1 /\ Len(arenas) - 1 \in Nat
    BY <2>1
  <2>. QED  BY <2>1, <2>2
<1>2. PICK moved \in Seq(Arenas) :
          /\ moved = [arenas EXCEPT ![k] = arenas[n]] /\ Len(moved) = n
          /\ \A i \in 1..n : moved[i] = IF i = k THEN arenas[n] ELSE arenas[i]
  <2>1. n \in DOMAIN arenas /\ arenas[n] \in Arenas
    BY <1>1, Types
  <2>2. \A i \in 1..n : [arenas EXCEPT ![k] = arenas[n]][i] = IF i = k THEN arenas[n] ELSE arenas[i]
    BY <1>1
  <2>3. [arenas EXCEPT ![k] = arenas[n]] \in Seq(Arenas) /\ Len([arenas EXCEPT ![k] = arenas[n]]) = n
    BY <1>1, <2>1, Types, ExceptSeq
  <2>. QED  BY <2>2, <2>3
<1>3. /\ arenas' = SubSeq(moved, 1, n - 1)
      /\ arenas' \in Seq(Arenas) /\ Len(arenas') = n - 1
      /\ \A i \in 1..(n - 1) : arenas'[i] = moved[i]
  <2>1. arenas' = SubSeq(moved, 1, n - 1)
    BY <1>1, <1>2
  <2>2. /\ SubSeq(moved, 1, n - 1) \in Seq(Arenas)
        /\ Len(SubSeq(moved, 1, n - 1)) = n - 1
        /\ \A i \in 1..(n - 1) : SubSeq(moved, 1, n - 1)[i] = moved[i]
    BY <1>1, <1>2
  <2>. QED  BY <2>1, <2>2
<1>4. DOMAIN arenas' = 1..(n - 1)
  BY <1>1, <1>3
<1>5. \A i \in 1..(n - 1) : /\ i \in 1..n /\ i # n
                            /\ arenas'[i] = IF i = k THEN arenas[n] ELSE arenas[i]
  BY <1>1, <1>2, <1>3
<1>6. \A i, j \in 1..n : arenas[i] = arenas[j] => i = j
  BY <1>1 DEF IInv, NoneTwice
<1>7. k \in 1..n /\ n \in 1..n
  BY <1>1
<1>8. NoneTwice(arenas')
  <2>1. ASSUME NEW i \in 1..(n - 1), NEW j \in 1..(n - 1), arenas'[i] = arenas'[j]
        PROVE  i = j
    BY <1>5, <1>6, <1>7, <2>1
  <2>. QED  BY <1>4, <2>1 DEF NoneTwice
<1>9. Owned' = Owned \ {a}
  <2>1. \A c : c \in Owned <=> \E i \in 1..n : c = arenas[i]
    BY <1>1 DEF Owned
  <2>2. \A c : c \in Owned' <=> \E i \in 1..(n - 1) : c = arenas'[i]
    BY <1>4 DEF Owned
  <2>3. ASSUME NEW i \in 1..(n - 1)
        PROVE  arenas'[i] \in Owned /\ arenas'[i] # a
    BY <1>5, <1>6, <1>7, <2>1
  <2>4. ASSUME NEW c \in Owned, c # a
        PROVE  c \in Owned'
    <3>1. PICK i \in 1..n : c = arenas[i] /\ i # k
      BY <2>1, <2>4
    <3>2. CASE i # n
      <4>1. i \in 1..(n - 1)
        BY <1>1, <3>2
      <4>. QED  BY <1>5, <2>2, <3>1, <4>1
    <3>3. CASE i = n
      <4>1. k \in 1..(n - 1)
        BY <1>1, <1>7, <3>1, <3>3
      <4>. QED  BY <1>5, <2>2, <3>1, <3>3, <4>1
    <3>. QED  BY <3>2, <3>3
  <2>5. ASSUME NEW c \in Owned'
        PROVE  c \in Owned \ {a}
    <3>1. PICK i \in 1..(n - 1) : c = arenas'[i]
      BY <2>2
    <3>. QED  BY <2>3, <3>1
  <2>. QED  BY <2>4, <2>5
<1>10. ASSUME NEW i \in DOMAIN arenas', i < k
       PROVE  i \in DOMAIN arenas /\ arenas'[i] = arenas[i]
  <2>1. i \in 1..(n - 1) /\ i # k
    BY <1>4, <1>7, <1>10
  <2>. QED  BY <1>1, <1>5, <2>1
<1>. QED  BY <1>3, <1>8, <1>9, <1>10

(* An empty arena is released: no block in use goes with it, and the loop  *)
(* still has every arena it has not swept before it.                       *)
LEMMA FreeArenaStep ==
    ASSUME IInv, NEW a \in Arenas, FreeArena(a)
    PROVE  IInv' /\ Live' = Live /\ alive' = alive /\ result' = result
<1>1. /\ AtArenaEnd(a) /\ chunkMask[a] = {} /\ blockAt' = 0
      /\ arenas' = SubSeq([arenas EXCEPT ![arenaAt] = arenas[Len(arenas)]], 1, Len(arenas) - 1)
      /\ UNCHANGED <<freeList, useBits, chunkMask, current, nextStart, alive, arenaAt, result>>
  BY DEF FreeArena
<1>2. /\ Sweeping /\ arenaAt \in DOMAIN arenas /\ a = arenas[arenaAt] /\ a \in Owned
      /\ Consistent(a) /\ arenaAt >= 1 /\ alive \subseteq Live
      /\ \A i \in DOMAIN arenas, b \in BlockIndexes :
             i <= arenaAt /\ b \in useBits[arenas[i]] => <<arenas[i], b>> \in alive
  BY <1>1, AtArenaEndFacts
<1>3. /\ arenas' \in Seq(Arenas) /\ NoneTwice(arenas') /\ Owned' = Owned \ {a}
      /\ \A i \in DOMAIN arenas' : i < arenaAt => i \in DOMAIN arenas /\ arenas'[i] = arenas[i]
  BY <1>1, <1>2, ArenaRemoved
<1>4. useBits[a] = {}
  BY <1>1, <1>2 DEF Consistent
<1>5. Live' = Live
  <2>1. \A c \in Arenas, x \in BlockIndexes :
            /\ <<c, x>> \in Live' <=> c \in Owned' /\ x \in useBits'[c]
            /\ <<c, x>> \in Live <=> c \in Owned /\ x \in useBits[c]
    BY DEF Live, Blocks
  <2>2. \A c \in Arenas, x \in BlockIndexes : <<c, x>> \in Live' <=> <<c, x>> \in Live
    BY <1>1, <1>3, <1>4, <2>1
  <2>3. Live \subseteq Blocks /\ Live' \subseteq Blocks
    BY DEF Live, Blocks
  <2>. QED  BY <2>2, <2>3 DEF Blocks
<1>6. Sweeping'
  BY <1>1, <1>2 DEF Sweeping
<1>7. TypeOK'
  <2>1. 0 \in 0 .. BlockCount
    BY Types
  <2>. QED  BY <1>1, <1>3, <2>1 DEF IInv, TypeOK, Sweeping
<1>8. \A c \in Owned' : Consistent(c)'
  BY <1>1, <1>3 DEF IInv, Consistent
<1>9. NoneTwice(arenas)'
  BY <1>3 DEF NoneTwice
<1>10. CursorSound'
  BY <1>6 DEF CursorSound
<1>11. SweepSound'
  <2>1. \A b \in BlockIndexes : ~(b < 0)
    BY DEF BlockIndexes
  <2>2. ASSUME NEW i \in DOMAIN arenas', NEW b \in BlockIndexes, b \in useBits[arenas'[i]],
               i < arenaAt
        PROVE  <<arenas'[i], b>> \in alive
    <3>1. i \in DOMAIN arenas /\ arenas'[i] = arenas[i] /\ i <= arenaAt
      <4>1. i \in DOMAIN arenas /\ arenas'[i] = arenas[i]
        BY <1>3, <2>2
      <4>2. i \in Nat /\ arenaAt \in Nat
        BY <4>1, Types
      <4>. QED  BY <2>2, <4>1, <4>2
    <3>. QED  BY <1>2, <2>2, <3>1
  <2>. QED  BY <1>1, <1>2, <1>5, <2>1, <2>2 DEF SweepSound
<1>. QED  BY <1>1, <1>5, <1>7, <1>8, <1>9, <1>10, <1>11 DEF IInv

(* The sweep ends with the marked blocks in use and no other, and the      *)
(* cursor at the first arena with a free block.                            *)
LEMMA EndSweepStep ==
    ASSUME IInv, EndSweep
    PROVE  IInv' /\ Live' = Live /\ Sweeping /\ Live = alive /\ alive' = NotSweeping /\ result' = result
<1>1. /\ Sweeping /\ arenaAt \notin DOMAIN arenas /\ FindNextNotFull(0)
      /\ alive' = NotSweeping /\ arenaAt' = 0 /\ blockAt' = 0
      /\ UNCHANGED <<arenas, freeList, useBits, chunkMask, result>>
  BY DEF EndSweep
<1>2. /\ arenaAt >= 1 /\ alive \subseteq Live
      /\ \A i \in DOMAIN arenas, b \in BlockIndexes :
             i < arenaAt /\ b \in useBits[arenas[i]] => <<arenas[i], b>> \in alive
  BY <1>1 DEF IInv, SweepSound
<1>3. \A i \in DOMAIN arenas : i < arenaAt
  BY <1>1, <1>2, Types
<1>4. Live = alive
  <2>1. ASSUME NEW c \in Arenas, NEW b \in BlockIndexes, <<c, b>> \in Live
        PROVE  <<c, b>> \in alive
    <3>1. c \in Owned /\ b \in useBits[c]
      BY <2>1 DEF Live
    <3>2. PICK i \in DOMAIN arenas : c = arenas[i]
      BY <3>1 DEF Owned
    <3>. QED  BY <1>2, <1>3, <3>1, <3>2
  <2>2. Live \subseteq alive
    BY <2>1 DEF Live, Blocks
  <2>. QED  BY <1>2, <2>2
<1>5. Owned' = Owned /\ Live' = Live /\ ~Sweeping'
  BY <1>1 DEF Owned, Live, Sweeping
<1>6. /\ nextStart' \in Nat
      /\ \A j \in DOMAIN arenas : j <= nextStart' => arenas[j] = current' \/ IsFull(arenas[j])
      /\ \/ current' = NoArena /\ AllFull
         \/ current' \in Owned /\ ~IsFull(current')
  <2>1. \A j \in DOMAIN arenas : j <= 0 => IsFull(arenas[j])
    BY Types
  <2>. QED  BY <1>1, <2>1, Found
<1>7. TypeOK'
  <2>1. current' \in Arenas \cup {NoArena}
    BY <1>6, Types
  <2>2. 0 \in 0 .. BlockCount
    BY Types
  <2>. QED  BY <1>1, <1>5, <1>6, <2>1, <2>2 DEF IInv, TypeOK
<1>8. \A c \in Owned' : Consistent(c)'
  BY <1>1, <1>5 DEF IInv, Consistent
<1>9. NoneTwice(arenas)'
  BY <1>1 DEF IInv, NoneTwice
<1>10. CursorSound'
  <2>1. current' = NoArena => AllFull'
    <3>1. current' \in Owned => current' # NoArena
      BY Types
    <3>2. current' = NoArena => AllFull
      BY <1>6, <3>1
    <3>. QED  BY <1>1, <1>5, <3>2 DEF AllFull, IsFull
  <2>2. \A j \in DOMAIN arenas : j <= nextStart' => arenas[j] = current' \/ IsFull(arenas[j])'
    BY <1>1, <1>6 DEF IsFull
  <2>3. current' \in Owned' \cup {NoArena}
    BY <1>5, <1>6
  <2>. QED  BY <1>1, <2>1, <2>2, <2>3 DEF CursorSound
<1>11. SweepSound'
  BY <1>5 DEF SweepSound
<1>. QED  BY <1>1, <1>4, <1>5, <1>7, <1>8, <1>9, <1>10, <1>11 DEF IInv
-----------------------------------------------------------------------------
(* The pool starts without arenas and between sweeps. *)
LEMMA Initially == Init => IInv
<1>1. SUFFICES ASSUME Init PROVE IInv
  OBVIOUS
<1>2. Owned = {} /\ arenas = <<>> /\ DOMAIN arenas = {} /\ ~Sweeping
  BY <1>1 DEF Init, Owned, Sweeping
<1>3. 0 \in 0 .. BlockCount
  BY PoolAssumption
<1>4. /\ freeList \in [Arenas -> Seq(BlockIndexes)]
      /\ useBits \in [Arenas -> SUBSET BlockIndexes]
      /\ chunkMask \in [Arenas -> SUBSET Chunks]
  BY <1>1 DEF Init
<1>5. TypeOK
  BY <1>1, <1>2, <1>3, <1>4 DEF Init, TypeOK
<1>6. CursorSound
  BY <1>1, <1>2 DEF Init, CursorSound, AllFull
<1>7. SweepSound
  BY <1>2 DEF SweepSound
<1>8. NoneTwice(arenas)
  BY <1>2 DEF NoneTwice
<1>. QED  BY <1>2, <1>5, <1>6, <1>7, <1>8 DEF IInv

(* Every step keeps the invariant, in an arena's records and in the array. *)
LEMMA Stepwise == IInv /\ [Next]_vars => IInv'
<1>. SUFFICES ASSUME IInv, [Next]_vars
              PROVE  IInv'
  OBVIOUS
<1>1. CASE AllocateFromCurrent
  BY <1>1, AllocateFromCurrentStep
<1>2. CASE AllocateFromNext
  BY <1>2, AllocateFromNextStep
<1>3. ASSUME NEW a \in Arenas, AllocateFromNewArena(a) PROVE IInv'
  BY <1>3, AllocateFromNewArenaStep
<1>4. CASE AllocateFails
  BY <1>4, AllocateFailsStep
<1>5. ASSUME NEW S \in SUBSET Live, BeginSweep(S) PROVE IInv'
  BY <1>5, BeginSweepStep
<1>6. ASSUME NEW a \in Arenas, SweepLiveOrFree(a) PROVE IInv'
  BY <1>6, SweepLiveOrFreeStep
<1>7. ASSUME NEW a \in Arenas, SweepDead(a) PROVE IInv'
  BY <1>7, SweepDeadStep
<1>8. ASSUME NEW a \in Arenas, KeepArena(a) PROVE IInv'
  BY <1>8, KeepArenaStep
<1>9. ASSUME NEW a \in Arenas, FreeArena(a) PROVE IInv'
  BY <1>9, FreeArenaStep
<1>10. CASE EndSweep
  BY <1>10, EndSweepStep
<1>11. CASE UNCHANGED vars
  BY <1>11 DEF vars, IInv, TypeOK, Owned, Consistent, CursorSound, SweepSound, Sweeping,
               AllFull, IsFull, Live
<1>. QED  BY <1>1, <1>2, <1>3, <1>4, <1>5, <1>6, <1>7, <1>8, <1>9, <1>10, <1>11 DEF Next

(***************************************************************************)
(* The inductive invariant. ArenasConsistent, ArenasDistinct and           *)
(* CursorSound are not inductive by themselves: SweepSound says what the   *)
(* loops of the sweep have gone through, without which nothing is known    *)
(* when they end.                                                          *)
(***************************************************************************)
THEOREM Invariance == Spec => []IInv
<1>. QED  BY Initially, Stepwise, PTL DEF Spec

(* The variables keep their types: lists of blocks, masks of words. *)
THEOREM TypeCorrect == Spec => []TypeOK
<1>1. IInv => TypeOK
  BY DEF IInv
<1>. QED  BY <1>1, Invariance, PTL

(* The free list, the use bits and the mask of every arena agree, in the   *)
(* middle of a sweep too.                                                  *)
THEOREM ArenasAgree == Spec => []ArenasConsistent
<1>1. IInv => ArenasConsistent
  BY DEF IInv, ArenasConsistent, Consistent, NoneTwice, Elements
<1>. QED  BY <1>1, Invariance, PTL

(* No arena is in the array twice, whatever the sweep moved in it. *)
THEOREM ArenasOnce == Spec => []ArenasDistinct
<1>1. IInv => ArenasDistinct
  BY DEF IInv, ArenasDistinct, NoneTwice
<1>. QED  BY <1>1, Invariance, PTL

(* The allocation cursor passes over full arenas only. *)
THEOREM CursorIsSound == Spec => []CursorSound
<1>1. IInv => CursorSound
  BY DEF IInv
<1>. QED  BY <1>1, Invariance, PTL

(* Memory is asked for, and refused, only when every arena is full. *)
THEOREM GrowsOnlyWhenFull == Spec => NewArenaOnlyWhenFull
<1>1. ASSUME IInv, [Next]_vars, ~Sweeping, Len(arenas') > Len(arenas) \/ current' = NoArena
      PROVE  AllFull \/ UNCHANGED vars
  <2>1. Len(arenas) \in Nat /\ (current = NoArena => AllFull)
    BY <1>1, Types DEF IInv, CursorSound
  <2>2. CASE AllocateFromCurrent
    BY <1>1, <2>1, <2>2 DEF AllocateFromCurrent
  <2>3. CASE AllocateFromNext
    <3>1. arenas' = arenas
      BY <2>3 DEF AllocateFromNext
    <3>. QED  BY <1>1, <2>1, <2>3, <3>1, AllocateFromNextStep
  <2>4. ASSUME NEW a \in Arenas, AllocateFromNewArena(a) PROVE AllFull
    BY <1>1, <2>4, ExhaustedMeansFull DEF AllocateFromNewArena
  <2>5. CASE AllocateFails
    BY <1>1, <2>5, ExhaustedMeansFull DEF AllocateFails
  <2>6. ASSUME NEW S \in SUBSET Live, BeginSweep(S) PROVE AllFull
    BY <1>1, <2>1, <2>6 DEF BeginSweep
  <2>7. ASSUME NEW a \in Arenas, SweepLiveOrFree(a) \/ SweepDead(a) PROVE FALSE
    BY <1>1, <2>7 DEF SweepLiveOrFree, SweepDead, AtBlock
  <2>8. ASSUME NEW a \in Arenas, KeepArena(a) \/ FreeArena(a) PROVE FALSE
    BY <1>1, <2>8 DEF KeepArena, FreeArena, AtArenaEnd
  <2>9. CASE EndSweep
    BY <1>1, <2>9 DEF EndSweep
  <2>. QED  BY <1>1, <2>2, <2>3, <2>4, <2>5, <2>6, <2>7, <2>8, <2>9 DEF Next
<1>2. IInv /\ [Next]_vars =>
          [ ~Sweeping /\ (Len(arenas') > Len(arenas) \/ current' = NoArena) => AllFull ]_vars
  BY <1>1
<1>. QED  BY <1>2, Invariance, PTL DEF Spec, NewArenaOnlyWhenFull

(***************************************************************************)
(* The pool is a BlockStore: an allocation hands out one block that was    *)
(* not in use, or none, and a sweep ends with the marked blocks in use and *)
(* no other. Dropping an arena and moving the last one are stuttering      *)
(* steps of it.                                                            *)
(***************************************************************************)
THEOREM Refinement == Spec => ImplementsBlockStore
<1>1. Init => Store!Init
  <2>1. SUFFICES ASSUME Init PROVE Store!Init
    OBVIOUS
  <2>2. Owned = {}
    BY <2>1 DEF Init, Owned
  <2>3. Live = {}
    BY <2>2 DEF Live
  <2>. QED  BY <2>1, <2>3 DEF Init, Store!Init
<1>2. IInv /\ [Next]_vars => [Store!Next]_<<Live, alive, result>>
  <2>. SUFFICES ASSUME IInv, [Next]_vars
                PROVE  [Store!Next]_<<Live, alive, result>>
    OBVIOUS
  <2>1. ASSUME ~Sweeping, alive' = alive,
               \E blk \in Blocks \ Live : Live' = Live \cup {blk} /\ result' = blk
        PROVE  Store!Next
    BY <2>1 DEF Store!Next, Store!Allocate, Sweeping
  <2>2. CASE AllocateFromCurrent
    BY <2>1, <2>2, AllocateFromCurrentStep DEF AllocateFromCurrent
  <2>3. CASE AllocateFromNext
    BY <2>1, <2>3, AllocateFromNextStep DEF AllocateFromNext
  <2>4. ASSUME NEW a \in Arenas, AllocateFromNewArena(a) PROVE Store!Next
    BY <2>1, <2>4, AllocateFromNewArenaStep DEF AllocateFromNewArena
  <2>5. CASE AllocateFails
    <3>1. Live' = Live /\ result' = NoBlock
      BY <2>5, AllocateFailsStep
    <3>2. alive = NotSweeping /\ alive' = alive
      BY <2>5 DEF AllocateFails, Sweeping
    <3>. QED  BY <3>1, <3>2 DEF Store!Next, Store!OutOfMemory
  <2>6. ASSUME NEW S \in SUBSET Live, BeginSweep(S) PROVE Store!Next
    <3>1. Live' = Live /\ alive = NotSweeping /\ alive' = S /\ result' = result
      BY <2>6, BeginSweepStep DEF Sweeping
    <3>. QED  BY <3>1 DEF Store!Next, Store!BeginSweep
  <2>7. ASSUME NEW a \in Arenas, SweepLiveOrFree(a) \/ KeepArena(a) \/ FreeArena(a)
        PROVE  UNCHANGED <<Live, alive, result>>
    BY <2>7, SweepLiveOrFreeStep, KeepArenaStep, FreeArenaStep
  <2>8. ASSUME NEW a \in Arenas, SweepDead(a) PROVE Store!Next
    <3>1. PICK blk \in Blocks : blk \in Live \ alive /\ Live' = Live \ {blk}
      <4>1. <<a, blockAt>> \in Blocks
        BY <2>8, SweepDeadStep DEF Live
      <4>. QED  BY <2>8, <4>1, SweepDeadStep
    <3>2. alive # NotSweeping /\ alive' = alive /\ result' = result
      BY <2>8, SweepDeadStep DEF Sweeping
    <3>. QED  BY <3>1, <3>2 DEF Store!Next, Store!Free
  <2>9. CASE EndSweep
    <3>1. Live' = Live /\ alive # NotSweeping /\ Live = alive /\ alive' = NotSweeping /\ result' = result
      BY <2>9, EndSweepStep DEF Sweeping
    <3>. QED  BY <3>1 DEF Store!Next, Store!EndSweep
  <2>10. CASE UNCHANGED vars
    BY <2>10 DEF vars, Live, Owned
  <2>. QED  BY <2>2, <2>3, <2>4, <2>5, <2>6, <2>7, <2>8, <2>9, <2>10 DEF Next
<1>. QED  BY <1>1, <1>2, Invariance, PTL
          DEF Spec, ImplementsBlockStore, Store!Spec, Store!vars
==============================================================================
