----------------------------- MODULE HeapAlloc -----------------------------
(***************************************************************************)
(* malloc, calloc, free and free_len of libs/buddy_alloc/buddy_alloc.c on  *)
(* the buddy system heap_buddy, which boot.c fills with the array heap.    *)
(*                                                                         *)
(* An allocation is [mh, size]: the address of its mem_header_t and the    *)
(* size that was asked for; the caller's pointer is mh + HeaderSize.       *)
(***************************************************************************)
EXTENDS Buddy

CONSTANTS
  HeapBase, HeapSize,   \* the array heap[HEAP_SIZE]
  HeaderSize,           \* HEADER_SIZE = sizeof(mem_header_t)
  Sizes                 \* the sizes callers ask for

VARIABLES
  pc,        \* who is inside add_range, "idle", or "runs_off"
  cur,       \* malloc: the block alloc_node has taken, not yet returned
  live,      \* allocations handed out and not freed
  released,  \* history: allocations freed whose address was not reissued
  tagged     \* the addresses a where the word at a is a (ptr_validate)

vars == <<header, addr, end, index, pc, cur, live, released, tagged>>

HeapEnd == HeapBase + HeapSize

ASSUME HeapAssumption ==
  /\ HeapBase \in Nat /\ HeapSize \in Nat /\ HeaderSize \in Nat
  /\ HeapBase + HeapSize < BlockSize(MAX_BUDDY_HEADER_BITS)

\* Every request, with its header, is at most 2^MaxLvl and above 4 bytes.
ASSUME SizesAssumption ==
  \A s \in Sizes :
    /\ s \in Nat
    /\ \E l \in 3 .. MaxLvl : s + HeaderSize <= 2^l /\ 2^(l - 1) < s + HeaderSize

Blocks == [mh : Nat, size : Sizes]

\* The bytes that belong to an allocation.
Footprint(p) == AllocSize(p.size + HeaderSize)

\* malloc has not taken a block: a value of cur outside malloc.
NoBlock == [mh |-> 0, size |-> 0]

----------------------------------------------------------------------------
(* boot_main: add_heap_range((uintptr_t)heap, HEAP_SIZE) is the first call  *)

Init ==
  /\ header = [i \in Levels |-> {}]
  /\ addr = RoundUp(HeapBase)
  /\ end = RoundDown(HeapEnd)
  /\ index = 0
  /\ pc = "boot"
  /\ cur = NoBlock
  /\ live = {}
  /\ released = {}
  /\ tagged = {}

\* Mutants of Cut: the link word of a block does not reach memory; the level
\* of the loop does not advance.
CutKeepsTags ==
  /\ AddRange
  /\ UNCHANGED <<pc, cur, live, released, tagged>>

CutSameLevel ==
  /\ Cutting
  /\ header' = [header EXCEPT ![index] = @ \cup LowNode \cup HighNode]
  /\ addr' = IF LowNode = {} THEN addr ELSE addr + BlockSize(index)
  /\ end' = IF HighNode = {} THEN end ELSE end - BlockSize(index)
  /\ index' = index
  /\ tagged' = tagged \ (LowNode \cup HighNode)
  /\ UNCHANGED <<pc, cur, live, released>>

\* A turn of add_range: add_node writes `next' into the first word of a block.
Cut ==
  /\ AddRange
  /\ tagged' = tagged \ (LowNode \cup HighNode)
  /\ UNCHANGED <<pc, cur, live, released>>

\* add_range returns to add_heap_range or to free_len.
Return ==
  /\ pc \in {"boot", "free"} /\ ~Cutting
  /\ pc' = "idle"
  /\ UNCHANGED <<header, addr, end, index, cur, live, released, tagged>>

\* malloc(size) up to the call of add_range in alloc_node. (calloc is malloc
\* of the product.)
Malloc(size) ==
  /\ pc = "idle"
  /\ AllocNode(size + HeaderSize)
  /\ cur' = [mh |-> FoundNode(size + HeaderSize), size |-> size]
  /\ pc' = "malloc"
  /\ UNCHANGED <<live, released, tagged>>

\* malloc(size) with no block in any list from FirstIndex on: alloc_node reads
\* past the array of lists. What it does then is undefined; the model stops.
MallocRunsOff(size) ==
  /\ pc = "idle"
  /\ SearchRunsOff(size + HeaderSize)
  /\ pc' = "runs_off"
  /\ UNCHANGED <<header, addr, end, index, cur, live, released, tagged>>

\* The rest of malloc: header written, the caller's bytes set to zero.
MallocReturn ==
  /\ pc = "malloc" /\ ~Cutting
  /\ tagged' = {cur.mh} \cup
       {t \in tagged : t < cur.mh + HeaderSize \/ t >= cur.mh + HeaderSize + cur.size}
  /\ live' = live \cup {cur}
  /\ released' = {r \in released : r.mh # cur.mh}
  /\ cur' = NoBlock
  /\ pc' = "idle"
  /\ UNCHANGED <<header, addr, end, index>>

\* A mutant of FreeLength: the block size of the list the search started at,
\* which is the block's own size only if a unit is 8 bytes.
FreeLengthOfLevel(p) == BlockSize(FirstIndex(p.size + HeaderSize))

\* The length free_len gives to add_range: mh->size, without the header.
FreeLength(p) == p.size

\* free(ptr), and free_len(ptr, len) with len = mh->size. The assertion on
\* ptr_validate guards the release.
Free(p) ==
  /\ pc = "idle"
  /\ p \in live
  /\ p.mh \in tagged
  /\ live' = live \ {p}
  /\ released' = released \cup {p}
  /\ StartRange(p.mh, FreeLength(p))
  /\ pc' = "free"
  /\ UNCHANGED <<header, cur, tagged>>

Next ==
  \/ Cut
  \/ Return
  \/ MallocReturn
  \/ \E size \in Sizes : Malloc(size) \/ MallocRunsOff(size)
  \/ \E p \in live : Free(p)

Spec == Init /\ [][Next]_vars

\* The one hart never stops in the middle of a call.
FairSpec == Spec /\ WF_vars(Cut \/ Return \/ MallocReturn)

----------------------------------------------------------------------------
(* Properties *)

\* The types of the state: addresses stay natural numbers through the
\* subtractions of add_range, and its loop never counts past the lists.
TypeOK ==
  /\ BuddyTypeOK
  /\ pc \in {"boot", "idle", "malloc", "free", "runs_off"}
  /\ cur \in Blocks \cup {NoBlock}
  /\ live \subseteq Blocks
  /\ released \subseteq Blocks
  /\ tagged \subseteq Nat

\* The allocations whose bytes are in use: handed out, or being handed out.
Held == live \cup (IF pc = "malloc" THEN {cur} ELSE {})

\* The bytes of an allocation are its own: no free block, no range add_range is
\* cutting, and no other allocation shares a byte with them, at every turn of
\* every loop. (alloc_node, add_range, free_len: the remainder of a split and
\* a released block never reach into memory that a caller still holds, and malloc
\* never takes a block that is already handed out.)
HeldApart ==
  /\ pc = "malloc" => cur \notin live
  /\ \A p \in Held :
    /\ \A i \in Levels : \A b \in header[i] :
         Apart(p.mh, p.mh + Footprint(p), b, b + BlockSize(i))
    /\ Cutting => Apart(p.mh, p.mh + Footprint(p), addr, end)
    /\ \A q \in live : p = q \/ Apart(p.mh, p.mh + Footprint(p), q.mh, q.mh + Footprint(q))

\* Free memory is handled once: free blocks are pairwise apart, and apart from
\* the range being cut, so no address is ever linked twice.
FreeOnce == FreeApart /\ RangeApartFromFree

\* Every byte the allocator handles lies in the array heap.
InsideHeap ==
  /\ FreeInside(HeapBase, HeapEnd)
  /\ RangeInside(HeapBase, HeapEnd)
  /\ \A p \in Held : HeapBase <= p.mh /\ p.mh + Footprint(p) <= HeapEnd

\* Free blocks stay naturally aligned through every split and release, and the
\* ends of the range being cut are multiples of the block size of the turn:
\* with either off by one unit, add_range would link a block that its list's
\* size does not describe.
Aligned == FreeAligned /\ RangeAligned

\* add_range never indexes past the last list: it is done before its level
\* reaches MAX_BUDDY_HEADER_BITS.
IndexInBounds == Cutting => index < MAX_BUDDY_HEADER_BITS

\* The assertion of free_len on ptr_validate holds for every pointer that is
\* handed out: nothing the allocator writes elsewhere reaches its header.
LiveTagged == \A p \in live : p.mh \in tagged

\* A second free of a pointer whose block was not reissued is either stopped by
\* the assertion of free_len or gives nothing to add_range.
StaleFreeHarmless ==
  pc = "idle" =>
    \A p \in released : p.mh \in tagged => RoundDown(p.mh + FreeLength(p)) <= p.mh

\* A turn of add_range moves bytes from the range to the lists: none is lost
\* and none is counted twice.
CutConserves ==
  [][Cutting => FreeBytes' + (end' - addr') = FreeBytes + (end - addr)]_vars

\* Every call comes back, unless alloc_node runs off the lists.
CallsReturn == (pc # "idle") ~> (pc \in {"idle", "runs_off"})

----------------------------------------------------------------------------
(* What comments and callers say of the allocator, and the code does not do *)

\* "Release the memory block" (line 206): once every allocation is freed, the
\* lists hold the whole heap again.
ReleasedWhole ==
  pc = "idle" /\ live = {} => FreeBytes = RoundDown(HeapEnd) - RoundUp(HeapBase)

\* Callers test malloc's result for NULL (ext4_bcache.c:126): a request that
\* cannot be served is answered, it does not read past the lists.
ExhaustionAnswered == pc # "runs_off"
=============================================================================
