------------------------------- MODULE Buddy -------------------------------
(***************************************************************************)
(* The buddy system of libs/buddy_alloc/buddy_alloc.c, the part that the   *)
(* heap allocator (malloc/free) and the frame allocator (kalloc) share: an *)
(* array of free lists and add_range, which cuts a byte range into blocks. *)
(*                                                                         *)
(* add_node keeps every list sorted by address and never merges, so a list *)
(* is the SET of its blocks: its first element is the least address of the *)
(* set, and the `next' word of a block is the least greater address.       *)
(*                                                                         *)
(* One turn of the loop of add_range is one step, with the loop's three    *)
(* locals addr, end and index as variables.                                *)
(***************************************************************************)
EXTENDS Integers, FiniteSets, FiniteSetsExt, Data

CONSTANTS
  Unit,                   \* unit_size: MIN_UNIT_SIZE (heap) or PAGE_SIZE (frames)
  MAX_BUDDY_HEADER_BITS   \* number of free lists

VARIABLES
  header,   \* header[i]: addresses of the free blocks of level i
  addr,     \* add_range: start of what is still to be cut
  end,      \* add_range: end of what is still to be cut
  index     \* add_range: level of the next turn of its loop

buddyVars == <<header, addr, end, index>>

Levels == 0 .. (MAX_BUDDY_HEADER_BITS - 1)

\* The largest power of two that alloc_node can look for: level index + 3.
MaxLvl == MAX_BUDDY_HEADER_BITS + 2

\* A unit is at least the 8 bytes that the shift by 3 in alloc_node stands for.
ASSUME UnitAssumption ==
  /\ Unit \in Nat /\ Unit >= 8
  /\ MAX_BUDDY_HEADER_BITS \in Nat /\ MAX_BUDDY_HEADER_BITS >= 1

\* What the proofs use of the powers of two (evaluated by TLC on each run).
ASSUME PowerAssumption ==
  /\ 2^0 = 1
  /\ \A i \in 0 .. MaxLvl : 2^i \in Nat /\ 2^i >= 1 /\ 2^(i + 1) = 2 * 2^i
  /\ \A i, j \in 0 .. MaxLvl : i <= j => 2^i <= 2^j

\* unit_size << i
BlockSize(i) == Unit * 2^i

\* The two masks at the start of add_range.
RoundUp(a) == ((a + (Unit - 1)) \div Unit) * Unit

RoundDown(a) == (a \div Unit) * Unit

\* (a & w) != 0, for w a power of two.
Bit(a, w) == (a \div w) % 2 = 1

\* Two byte ranges [a, aEnd) and [b, bEnd) have no byte in common.
Apart(a, aEnd, b, bEnd) == aEnd <= b \/ bEnd <= a

----------------------------------------------------------------------------
(* add_range *)

\* The call add_range(buddy, a, size): rounding, then the loop at index 0.
StartRange(a, size) ==
  /\ addr' = RoundUp(a)
  /\ end' = RoundDown(a + size)
  /\ index' = 0

\* The block this turn cuts off the low end, and the one off the high end.
LowNode == IF Bit(addr, BlockSize(index)) THEN {addr} ELSE {}

HighNode ==
  IF Bit(end, BlockSize(index)) THEN {end - BlockSize(index)} ELSE {}

Cutting == addr < end

\* A mutant: the low end does not advance.
AddRangeStuck ==
  /\ Cutting
  /\ header' = [header EXCEPT ![index] = @ \cup LowNode \cup HighNode]
  /\ addr' = addr
  /\ end' = IF HighNode = {} THEN end ELSE end - BlockSize(index)
  /\ index' = index + 1

\* One turn of the loop.
AddRange ==
  /\ Cutting
  /\ header' = [header EXCEPT ![index] = @ \cup LowNode \cup HighNode]
  /\ addr' = IF LowNode = {} THEN addr ELSE addr + BlockSize(index)
  /\ end' = IF HighNode = {} THEN end ELSE end - BlockSize(index)
  /\ index' = index + 1

----------------------------------------------------------------------------
(* alloc_node *)

\* 64 - clzll(size - 1): the least l with size <= 2^l.
Lvl(size) ==
  CHOOSE l \in 0 .. MaxLvl : size <= 2^l /\ (l = 0 \/ 2^(l - 1) < size)

\* A mutant: the level is one too low.
AllocSizeHalf(size) == 2^(Lvl(size) - 1)

\* The bytes alloc_node keeps from the block it finds.
AllocSize(size) == 2^Lvl(size)

\* The list where the search starts: lvl - 3, whatever the unit is.
FirstIndex(size) == Lvl(size) - 3

\* The lists at or above FirstIndex that have a block.
Candidates(size) == {i \in Levels : i >= FirstIndex(size) /\ header[i] # {}}

FoundIndex(size) == Min(Candidates(size))

FoundNode(size) == Min(header[FoundIndex(size)])

\* alloc_node found a block: it is unlinked and what lies after its first
\* 2^lvl bytes goes to add_range.
AllocNode(size) ==
  LET i == FoundIndex(size)
      node == FoundNode(size)
  IN  /\ Candidates(size) # {}
      /\ header' = [header EXCEPT ![i] = @ \ {node}]
      /\ StartRange(node + AllocSize(size), BlockSize(i) - AllocSize(size))

\* The search walks past header[MAX_BUDDY_HEADER_BITS - 1]: nothing stops it.
SearchRunsOff(size) == Candidates(size) = {}

----------------------------------------------------------------------------
(* Parts of the invariants of both allocators, for a memory [lo, hi) *)

BuddyTypeOK ==
  /\ header \in [Levels -> SUBSET Nat]
  /\ addr \in Nat /\ end \in Nat
  /\ index \in 0 .. MAX_BUDDY_HEADER_BITS

\* A free block starts at a multiple of its own size.
FreeAligned ==
  \A i \in Levels : \A b \in header[i] : b % BlockSize(i) = 0

FreeInside(lo, hi) ==
  \A i \in Levels : \A b \in header[i] : lo <= b /\ b + BlockSize(i) <= hi

FreeApart ==
  \A i, j \in Levels : \A a \in header[i], b \in header[j] :
    <<i, a>> = <<j, b>> \/ Apart(a, a + BlockSize(i), b, b + BlockSize(j))

RangeInside(lo, hi) == Cutting => lo <= addr /\ end <= hi

RangeApartFromFree ==
  Cutting => \A i \in Levels : \A b \in header[i] :
               Apart(b, b + BlockSize(i), addr, end)

\* While there is something to cut, both of its ends are multiples of the
\* block size of the turn, so that what is left is a whole number of blocks.
RangeAligned ==
  Cutting => addr % BlockSize(index) = 0 /\ end % BlockSize(index) = 0

\* Bytes on the free lists.
FreeBytes ==
  SumTo([i \in Levels |-> Cardinality(header[i]) * BlockSize(i)], MAX_BUDDY_HEADER_BITS)
=============================================================================
