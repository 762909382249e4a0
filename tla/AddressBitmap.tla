---------------------------- MODULE AddressBitmap ----------------------------
(***************************************************************************)
(* utils::SegmentedAddressBitmap: one mark bit per Granularity bytes, in   *)
(* segments of SegmentBits bits allocated on demand and found through a    *)
(* hash map, in front of which a direct-mapped cache of CacheSize entries  *)
(* remembers lookups, the failed ones too.                                 *)
(***************************************************************************)
EXTENDS Integers

CONSTANTS
    Addresses,     \* addresses of objects that may exist together
    Granularity,   \* SLOT_GRANULARITY, in bytes
    SegmentBits,   \* kSegmentBitCount
    CacheSize,     \* SEGMENT_CACHE_SIZE
    NullSegment    \* nullptr

(***************************************************************************)
(* An object is at least Granularity bytes long (its header alone is two   *)
(* words), so two objects start that far apart. Nothing aligns them to     *)
(* Granularity: GC_ALIGN is one word.                                      *)
(***************************************************************************)
ASSUME BitmapAssumption ==
    /\ Granularity \in Nat \ {0}
    /\ SegmentBits \in Nat \ {0}
    /\ CacheSize \in Nat \ {0}
    /\ Addresses \subseteq Nat
    /\ \A a, b \in Addresses : a < b => b - a >= Granularity
    /\ NullSegment \notin Nat

Slot(a) == a \div Granularity
SegmentIndex(a) == Slot(a) \div SegmentBits

BitIndex(a) == Slot(a) % SegmentBits

Segments == {SegmentIndex(a) : a \in Addresses}

(* SEGMENT_CACHE_SIZE is a power of two: masking is taking the remainder. *)
CacheSlot(s) == s % CacheSize
CacheSlots == 0 .. CacheSize - 1

(* kInvalidSegmentIndex: equal to no index. *)
InvalidIndex == -1

VARIABLES
    segmentMap,    \* _segment_map: the segments that exist
    bits,          \* the bits set in each segment
    cache,         \* _segment_cache
    answer         \* the last call and what it returned

bitmapVars == <<segmentMap, bits, cache, answer>>

(* The pointer to an existing segment is the segment's index here.         *)
Hit(s) == cache[CacheSlot(s)].index = s
Find(s) == IF s \in segmentMap THEN s ELSE NullSegment

(* Mutant: an entry is recognised by its place alone. *)
GetSegmentUnchecked(s) ==
    IF cache[CacheSlot(s)].index # InvalidIndex THEN cache[CacheSlot(s)].segment ELSE Find(s)

(* get_segment: what it returns, and the cache it leaves. *)
GetSegment(s) == IF Hit(s) THEN cache[CacheSlot(s)].segment ELSE Find(s)
CacheWith(s, segment) == [cache EXCEPT ![CacheSlot(s)] = [index |-> s, segment |-> segment]]

(* Mutant: create_segment leaves the failed lookup in the cache. *)
CacheAfterMarkStale(s) == CacheWith(s, GetSegment(s))

(* The cache after the lookup and, when it failed, create_segment. *)
CacheAfterMark(s) ==
    CacheWith(s, IF GetSegment(s) = NullSegment THEN s ELSE GetSegment(s))

BitmapInit ==
    /\ segmentMap = {}
    /\ bits = [s \in Segments |-> {}]
    /\ cache = [i \in CacheSlots |-> [index |-> InvalidIndex, segment |-> NullSegment]]
    /\ answer = [call |-> "none"]

(***************************************************************************)
(* mark: a missing segment is created zeroed. The segment written is the   *)
(* one the lookup returned, whichever that is.                             *)
(***************************************************************************)
Mark(a) ==
    LET s == SegmentIndex(a)
        found == GetSegment(s)
        target == IF found = NullSegment THEN s ELSE found
        old == IF found = NullSegment THEN {} ELSE bits[found]
    IN  /\ segmentMap' = IF found = NullSegment THEN segmentMap \cup {s} ELSE segmentMap
        /\ bits' = [bits EXCEPT ![target] = old \cup {BitIndex(a)}]
        /\ cache' = CacheAfterMark(s)
        /\ answer' = [call |-> "mark", address |-> a, result |-> BitIndex(a) \notin old]

IsMarked(a) ==
    LET s == SegmentIndex(a)
        found == GetSegment(s)
    IN  /\ cache' = CacheWith(s, found)
        /\ answer' = [call |-> "is_marked", address |-> a,
                      result |-> found # NullSegment /\ BitIndex(a) \in bits[found]]
        /\ UNCHANGED <<segmentMap, bits>>

BitmapNext == \E a \in Addresses : Mark(a) \/ IsMarked(a)

BitmapSpec == BitmapInit /\ [][BitmapNext]_bitmapVars
------------------------------------------------------------------------------
BitmapTypeOK ==
    /\ segmentMap \subseteq Segments
    /\ bits \in [Segments -> SUBSET (0 .. SegmentBits - 1)]
    /\ cache \in [CacheSlots -> [index : Segments \cup {InvalidIndex},
                                 segment : Segments \cup {NullSegment}]]

(***************************************************************************)
(* A cached lookup says what the map says now. In particular an entry that *)
(* remembers that a segment did not exist is gone once it does: otherwise  *)
(* a marked object would read as dead and be swept.                        *)
(***************************************************************************)
CacheCoherent ==
    \A i \in CacheSlots :
        LET entry == cache[i]
        IN  entry.index # InvalidIndex =>
                /\ CacheSlot(entry.index) = i
                /\ entry.segment = Find(entry.index)

Marked(a) == BitIndex(a) \in bits[SegmentIndex(a)]

(***************************************************************************)
(* The bitmap implements a set of addresses: no answer depends on which    *)
(* segments exist or are cached, and no two objects share a bit although   *)
(* their addresses need not be multiples of the granularity.               *)
(***************************************************************************)
Abstract == INSTANCE MarkSet WITH members <- {a \in Addresses : Marked(a)}

ImplementsMarkSet == Abstract!Spec
==============================================================================
