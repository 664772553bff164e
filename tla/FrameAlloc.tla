---------------------------- MODULE FrameAlloc -----------------------------
(***************************************************************************)
(* add_frame_range and kalloc of libs/buddy_alloc/buddy_alloc.c on the     *)
(* buddy system page_buddy. cmain gives it the memory the device tree      *)
(* names, from the end of the kernel image on; kfree is not implemented.   *)
(* The names differ from those of HeapAlloc: BuddyProofs extends both.     *)
(***************************************************************************)
EXTENDS Buddy, Sequences

CONSTANTS
  Maps,      \* the boards: [base, end, image, kernel], memory and kernel image;
             \* image is BASE_ADDRESS of the linker script, kernel the symbol _end
  Counts,    \* the page counts callers ask for
  MaxCalls   \* bound on the number of calls of kalloc

VARIABLES
  map,    \* the board this boot runs on
  stage,  \* "boot", "idle", "kalloc" or "runs_off"
  pages   \* what kalloc has handed out, in order: [page, count, word]

frameVars == <<header, addr, end, index, map, stage, pages>>

NULL == 0

Pages == [page : Nat, count : Counts, word : Nat]

ASSUME MapsAssumption ==
  \A m \in Maps :
    /\ m.base \in Nat /\ m.end \in Nat /\ m.image \in Nat /\ m.kernel \in Nat
    /\ 1 <= m.base /\ m.base <= m.end /\ m.image < m.kernel
    /\ m.end < BlockSize(MAX_BUDDY_HEADER_BITS)
    \* the image lies in this range of memory or in another one
    /\ \/ m.base <= m.image /\ m.kernel <= m.end
       \/ Apart(m.base, m.end, m.image, m.kernel)

ASSUME CountsAssumption ==
  /\ MaxCalls \in Nat
  /\ \A c \in Counts :
       /\ c \in Nat
       /\ \E l \in 3 .. MaxLvl : c * Unit <= 2^l /\ 2^(l - 1) < c * Unit

\* add_frame_range: the image is skipped only if it ends inside the range.
FrameStartIgnoresImage(m) == m.base

FrameStart(m) ==
  IF m.base <= m.kernel /\ m.kernel < m.end THEN RoundUp(m.kernel) ELSE m.base

\* cmain: add_frame_range(mrange.a, mrange.a + mrange.b)
FrameInit ==
  /\ map \in Maps
  /\ header = [i \in Levels |-> {}]
  /\ addr = RoundUp(FrameStart(map))
  /\ end = RoundDown(map.end)
  /\ index = 0
  /\ stage = "boot"
  /\ pages = << >>

FrameCut ==
  /\ AddRange
  /\ UNCHANGED <<map, stage, pages>>

FrameReturn ==
  /\ stage \in {"boot", "kalloc"} /\ ~Cutting
  /\ stage' = "idle"
  /\ UNCHANGED <<header, addr, end, index, map, pages>>

\* What add_node left in the first word of a block: its successor in the list.
NextWord(i, node) ==
  LET rest == {b \in header[i] : b > node}
  IN  IF rest = {} THEN NULL ELSE Min(rest)

\* kalloc(count) up to add_range in alloc_node. The page is not cleared.
Kalloc(count) ==
  LET n == count * Unit
  IN  /\ stage = "idle" /\ Len(pages) < MaxCalls
      /\ AllocNode(n)
      /\ pages' = Append(pages, [page |-> FoundNode(n), count |-> count,
                                 word |-> NextWord(FoundIndex(n), FoundNode(n))])
      /\ stage' = "kalloc"
      /\ UNCHANGED map

\* kalloc with no block left: see MallocRunsOff of HeapAlloc.
KallocRunsOff(count) ==
  /\ stage = "idle" /\ Len(pages) < MaxCalls
  /\ SearchRunsOff(count * Unit)
  /\ stage' = "runs_off"
  /\ UNCHANGED <<header, addr, end, index, map, pages>>

FrameNext ==
  \/ FrameCut
  \/ FrameReturn
  \/ \E count \in Counts : Kalloc(count) \/ KallocRunsOff(count)

FrameSpec == FrameInit /\ [][FrameNext]_frameVars

----------------------------------------------------------------------------
(* Properties *)

\* The types of the state: pages only ever holds counts callers asked for, and
\* the loop of add_range never counts past the lists.
FrameTypeOK ==
  /\ BuddyTypeOK
  /\ map \in Maps
  /\ stage \in {"boot", "idle", "kalloc", "runs_off"}
  /\ pages \in Seq(Pages)

PageEnd(p) == p.page + p.count * Unit

\* Pages handed out by kalloc are never handed out again, never on a free list
\* and never in the range add_range is cutting.
PagesApart ==
  \A k \in DOMAIN pages :
    LET p == pages[k]
    IN  /\ \A l \in DOMAIN pages : l # k =>
             Apart(p.page, PageEnd(p), pages[l].page, PageEnd(pages[l]))
        /\ \A i \in Levels : \A b \in header[i] :
             Apart(p.page, PageEnd(p), b, b + BlockSize(i))
        /\ Cutting => Apart(p.page, PageEnd(p), addr, end)

\* What the frame allocator may use: bytes of the board's memory, none of them of the
\* kernel image.
InMemory(from, to) ==
  /\ map.base <= from /\ to <= map.end
  /\ Apart(from, to, map.image, map.kernel)

\* No page handed out, no block that may become one and no part of the range being cut
\* lies outside the board's memory or touches the kernel image (add_frame_range,
\* buddy_alloc.c:153-160). A memory that ends where the image ends has to be excluded:
\* there the code skips nothing (MCFrameFull.cfg).
OutsideImage ==
  /\ \A i \in Levels : \A b \in header[i] : InMemory(b, b + BlockSize(i))
  /\ Cutting => InMemory(addr, end)
  /\ \A k \in DOMAIN pages : InMemory(pages[k].page, PageEnd(pages[k]))

\* What kalloc returns is page aligned, as its comment (line 163) says.
PageAligned == \A k \in DOMAIN pages : pages[k].page % Unit = 0

\* virtio_block_probe takes its three queue pages with the first three calls
\* and clears none of them. The second becomes the avail ring, whose flags and
\* idx are in the first word: they start at zero only if that block was the
\* last of its free list.
AvailPageClear ==
  Len(pages) >= 2 /\ pages[1].count = 1 /\ pages[2].count = 1 => pages[2].word = NULL
=============================================================================
