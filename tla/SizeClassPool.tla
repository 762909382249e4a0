---------------------------- MODULE SizeClassPool ----------------------------
(***************************************************************************)
(* gc::SizeClassPool and the gc::SmallHeapArena objects it owns: the       *)
(* blocks of one size class, handed out from per-arena free lists and      *)
(* taken back by the sweep. Release build: LEANCLR_GC_DEBUG, which         *)
(* quarantines dead blocks instead of freeing them, is off.                *)
(*                                                                         *)
(* An allocation is one step. A sweep is one step per block: nothing else  *)
(* runs in between, but its loops over blocks and over an array of arenas  *)
(* that shrinks under the loop are what can go wrong in it.                *)
(***************************************************************************)
EXTENDS Naturals, Sequences

CONSTANTS
    Arenas,       \* the places the system may give an arena
    BlockCount,   \* blocks of an arena: arena_size / block_size
    ChunkBits,    \* kBitsPerUseWord
    NoArena,      \* nullptr
    NoBlock,      \* nullptr
    NotSweeping   \* no sweep is under way

ASSUME PoolAssumption ==
    /\ BlockCount \in Nat \ {0}
    /\ ChunkBits \in Nat \ {0}
    /\ NoArena \notin Arenas
    /\ \A S \in SUBSET (Arenas \X (0 .. BlockCount - 1)) : NotSweeping # S

VARIABLES
    arenas,     \* _arenas
    freeList,   \* _free_list of each arena
    useBits,    \* _use_bits of each arena
    chunkMask,  \* _chunk_in_use_mask of each arena
    current,    \* _current_arena
    nextStart,  \* _next_find_not_full_start
    alive,      \* the blocks the collector marked, during a sweep
    arenaAt,    \* the loop of SizeClassPool::sweep is at this arena
    blockAt,    \* the loop of SmallHeapArena::sweep is at this block
    result      \* what the last allocate_block returned

vars == <<arenas, freeList, useBits, chunkMask, current, nextStart, alive,
          arenaAt, blockAt, result>>

BlockIndexes == 0 .. BlockCount - 1
Blocks == Arenas \X BlockIndexes
Chunk(b) == b \div ChunkBits
Chunks == {Chunk(b) : b \in BlockIndexes}

Owned == {arenas[i] : i \in DOMAIN arenas}
IsFull(a) == freeList[a] = <<>>
AllFull == \A a \in Owned : IsFull(a)
Live == {blk \in Blocks : blk[1] \in Owned /\ blk[2] \in useBits[blk[1]]}
Sweeping == alive # NotSweeping

(* rebuild_free_list on a zeroed arena: each block is prepended in turn. *)
FreshFreeList == [i \in 1 .. BlockCount |-> BlockCount - i]

(* Mutant: an arena found not full is never looked at again. *)
NotFullAfterNext(n) == {i \in DOMAIN arenas : i > n + 1 /\ ~IsFull(arenas[i])}

(* The places of arenas with a free block, from the n-th (from 0) on. *)
NotFullFrom(n) == {i \in DOMAIN arenas : i > n /\ ~IsFull(arenas[i])}

(* find_next_not_full_arena from place n: the arena it selects, and the    *)
(* place after it.                                                         *)
FindNextNotFull(n) ==
    \/ /\ NotFullFrom(n) = {}
       /\ current' = NoArena
       /\ nextStart' = Len(arenas)
    \/ \E i \in NotFullFrom(n) :
          /\ \A j \in NotFullFrom(n) : i <= j
          /\ current' = arenas[i]
          /\ nextStart' = i
------------------------------------------------------------------------------
Init ==
    /\ arenas = <<>>
    /\ freeList = [a \in Arenas |-> <<>>]
    /\ useBits = [a \in Arenas |-> {}]
    /\ chunkMask = [a \in Arenas |-> {}]
    /\ current = NoArena
    /\ nextStart = 0
    /\ alive = NotSweeping
    /\ arenaAt = 0
    /\ blockAt = 0
    /\ result = NoBlock

(* SmallHeapArena::allocate_block on an arena whose free list is list. *)
Take(a, list) ==
    /\ freeList' = [freeList EXCEPT ![a] = Tail(list)]
    /\ useBits' = [useBits EXCEPT ![a] = @ \cup {Head(list)}]
    /\ chunkMask' = [chunkMask EXCEPT ![a] = @ \cup {Chunk(Head(list))}]
    /\ result' = <<a, Head(list)>>

(* allocate_block from the arena used last. *)
AllocateFromCurrent ==
    /\ ~Sweeping
    /\ current # NoArena
    /\ ~IsFull(current)
    /\ Take(current, freeList[current])
    /\ UNCHANGED <<arenas, current, nextStart, alive, arenaAt, blockAt>>

CurrentExhausted == current # NoArena => IsFull(current)

(* ... from the next arena that has a free block. *)
AllocateFromNext ==
    /\ ~Sweeping
    /\ CurrentExhausted
    /\ NotFullFrom(nextStart) # {}
    /\ FindNextNotFull(nextStart)
    /\ Take(current', freeList[current'])
    /\ UNCHANGED <<arenas, alive, arenaAt, blockAt>>

(* ... from a new arena, pushed at the end. *)
AllocateFromNewArena(a) ==
    /\ ~Sweeping
    /\ CurrentExhausted
    /\ NotFullFrom(nextStart) = {}
    /\ a \notin Owned
    /\ arenas' = Append(arenas, a)
    /\ current' = a
    /\ nextStart' = Len(arenas')
    /\ freeList' = [freeList EXCEPT ![a] = Tail(FreshFreeList)]
    /\ useBits' = [useBits EXCEPT ![a] = {Head(FreshFreeList)}]
    /\ chunkMask' = [chunkMask EXCEPT ![a] = {Chunk(Head(FreshFreeList))}]
    /\ result' = <<a, Head(FreshFreeList)>>
    /\ UNCHANGED <<alive, arenaAt, blockAt>>

(* ... or from nowhere: allocate_arena returned nullptr. *)
AllocateFails ==
    /\ ~Sweeping
    /\ CurrentExhausted
    /\ NotFullFrom(nextStart) = {}
    /\ current' = NoArena
    /\ nextStart' = Len(arenas)
    /\ result' = NoBlock
    /\ UNCHANGED <<arenas, freeList, useBits, chunkMask, alive, arenaAt, blockAt>>

(* SizeClassPool::sweep begins; the marked objects are those of S. *)
BeginSweep(S) ==
    /\ ~Sweeping
    /\ alive' = S
    /\ arenaAt' = 1
    /\ blockAt' = 0
    /\ UNCHANGED <<arenas, freeList, useBits, chunkMask, current, nextStart, result>>

AtBlock(a) ==
    /\ Sweeping
    /\ arenaAt \in DOMAIN arenas /\ a = arenas[arenaAt]
    /\ blockAt < BlockCount

(* The block holds an object nobody marked. *)
IsDead(a, b) ==
    /\ Chunk(b) \in chunkMask[a] /\ b \in useBits[a]
    /\ <<a, b>> \notin alive

(* Mutant: the bit of the word is cleared whatever is left in the word. *)
MaskWithoutWord(a, b) == chunkMask[a] \ {Chunk(b)}

(* clear_block_in_use also clears the bit of a word that became zero. *)
MaskWithout(a, b) ==
    IF \E x \in useBits[a] \ {b} : Chunk(x) = Chunk(b) THEN chunkMask[a]
    ELSE chunkMask[a] \ {Chunk(b)}

SweepLiveOrFree(a) ==
    /\ AtBlock(a)
    /\ ~IsDead(a, blockAt)
    /\ blockAt' = blockAt + 1
    /\ UNCHANGED <<arenas, freeList, useBits, chunkMask, current, nextStart, alive, arenaAt, result>>

SweepDead(a) ==
    /\ AtBlock(a)
    /\ IsDead(a, blockAt)
    /\ freeList' = [freeList EXCEPT ![a] = <<blockAt>> \o @]
    /\ useBits' = [useBits EXCEPT ![a] = @ \ {blockAt}]
    /\ chunkMask' = [chunkMask EXCEPT ![a] = MaskWithout(a, blockAt)]
    /\ blockAt' = blockAt + 1
    /\ UNCHANGED <<arenas, current, nextStart, alive, arenaAt, result>>

AtArenaEnd(a) ==
    /\ Sweeping
    /\ arenaAt \in DOMAIN arenas /\ a = arenas[arenaAt]
    /\ blockAt = BlockCount

KeepArena(a) ==
    /\ AtArenaEnd(a)
    /\ chunkMask[a] # {}
    /\ arenaAt' = arenaAt + 1
    /\ blockAt' = 0
    /\ UNCHANGED <<arenas, freeList, useBits, chunkMask, current, nextStart, alive, result>>

(* Mutant: the loop index moves on although another arena took the place. *)
FreeArenaAndSkip(a) ==
    /\ AtArenaEnd(a)
    /\ chunkMask[a] = {}
    /\ arenas' = SubSeq([arenas EXCEPT ![arenaAt] = arenas[Len(arenas)]], 1, Len(arenas) - 1)
    /\ arenaAt' = arenaAt + 1
    /\ blockAt' = 0
    /\ UNCHANGED <<freeList, useBits, chunkMask, current, nextStart, alive, result>>

(* Mutant: the last arena is copied, not moved. *)
FreeArenaWithoutPop(a) ==
    /\ AtArenaEnd(a)
    /\ chunkMask[a] = {}
    /\ arenas' = [arenas EXCEPT ![arenaAt] = arenas[Len(arenas)]]
    /\ blockAt' = 0
    /\ UNCHANGED <<freeList, useBits, chunkMask, current, nextStart, alive, arenaAt, result>>

(* An empty arena is released and the last one moves to its place, where   *)
(* the loop looks again.                                                   *)
FreeArena(a) ==
    /\ AtArenaEnd(a)
    /\ chunkMask[a] = {}
    /\ arenas' = SubSeq([arenas EXCEPT ![arenaAt] = arenas[Len(arenas)]], 1, Len(arenas) - 1)
    /\ blockAt' = 0
    /\ UNCHANGED <<freeList, useBits, chunkMask, current, nextStart, alive, arenaAt, result>>

(* The search for a free block starts over: every arena may have one now.  *)
EndSweep ==
    /\ Sweeping
    /\ arenaAt \notin DOMAIN arenas
    /\ FindNextNotFull(0)
    /\ alive' = NotSweeping
    /\ arenaAt' = 0
    /\ blockAt' = 0
    /\ UNCHANGED <<arenas, freeList, useBits, chunkMask, result>>

Next ==
    \/ AllocateFromCurrent
    \/ AllocateFromNext
    \/ \E a \in Arenas : AllocateFromNewArena(a)
    \/ AllocateFails
    \/ \E S \in SUBSET Live : BeginSweep(S)
    \/ \E a \in Arenas : SweepLiveOrFree(a) \/ SweepDead(a) \/ KeepArena(a) \/ FreeArena(a)
    \/ EndSweep

Spec == Init /\ [][Next]_vars

(* A sweep is a call on the only thread: once begun it runs on. *)
Sweep ==
    \/ \E a \in Arenas : SweepLiveOrFree(a) \/ SweepDead(a) \/ KeepArena(a) \/ FreeArena(a)
    \/ EndSweep

FairSpec == Spec /\ WF_vars(Sweep)
------------------------------------------------------------------------------
TypeOK ==
    /\ arenas \in Seq(Arenas)
    /\ freeList \in [Arenas -> Seq(BlockIndexes)]
    /\ useBits \in [Arenas -> SUBSET BlockIndexes]
    /\ chunkMask \in [Arenas -> SUBSET Chunks]
    /\ current \in Arenas \cup {NoArena}
    /\ nextStart \in Nat
    /\ Sweeping => alive \subseteq Blocks
    /\ arenaAt \in Nat
    /\ blockAt \in 0 .. BlockCount
    /\ result \in Blocks \cup {NoBlock}

(***************************************************************************)
(* The three records an arena keeps of its blocks agree, in the middle of  *)
(* a sweep too: a block is on the free list, once, iff its use bit is      *)
(* clear, and the mask that is_empty trusts has exactly the words in use.  *)
(***************************************************************************)
ArenasConsistent ==
    \A a \in Owned :
        /\ \A i, j \in DOMAIN freeList[a] : freeList[a][i] = freeList[a][j] => i = j
        /\ {freeList[a][i] : i \in DOMAIN freeList[a]} = BlockIndexes \ useBits[a]
        /\ chunkMask[a] = {Chunk(b) : b \in useBits[a]}

(* _arenas holds no arena twice: one would be released twice. *)
ArenasDistinct == \A i, j \in DOMAIN arenas : arenas[i] = arenas[j] => i = j

(***************************************************************************)
(* Between sweeps the allocation cursor loses no free block: the arenas    *)
(* before it are full but for the one in use, and the one in use has not   *)
(* been released.                                                          *)
(***************************************************************************)
CursorSound ==
    ~Sweeping =>
        /\ current \in Owned \cup {NoArena}
        /\ \A i \in DOMAIN arenas : i <= nextStart => arenas[i] = current \/ IsFull(arenas[i])
        /\ current = NoArena => AllFull

(* An arena is added, and an allocation fails, only when no arena of the   *)
(* pool has a free block left.                                             *)
NewArenaOnlyWhenFull ==
    [][ ~Sweeping /\ (Len(arenas') > Len(arenas) \/ current' = NoArena) => AllFull ]_vars

(***************************************************************************)
(* The pool implements BlockStore: no block is handed out twice, and a     *)
(* sweep frees every dead block and no other, whatever the order in which  *)
(* arenas are dropped from the array it walks.                             *)
(***************************************************************************)
Store == INSTANCE BlockStore WITH live <- Live, survivors <- alive

ImplementsBlockStore == Store!Spec

(* Every sweep ends, although the array shrinks under its loop. *)
SweepEnds == Sweeping ~> ~Sweeping
==============================================================================
