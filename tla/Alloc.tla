------------------------------- MODULE Alloc -------------------------------
(***************************************************************************)
(* The allocators of lwext4: blocks (ext4_balloc.c), inodes (ext4_ialloc.c),*)
(* the bitmaps they search (ext4_bitmap.c) and the groups that are set up  *)
(* at first use (ext4_fs.c). Bitmaps are sets of the bits that are set.    *)
(***************************************************************************)
EXTENDS Integers, Sequences, FiniteSets, FiniteSetsExt, Data

CONSTANTS
  GroupSize,        \* blocks_per_group, which is also the number of bits of a bitmap
  TotalBlocks,      \* blocks_count
  FirstDataBlock,   \* 1 for blocks of 1024 bytes, else 0
  ByteBits,         \* bits the bitmap search looks at at once (8)
  WordBits,         \* the block search looks at first up to the next multiple (64)
  Meta,             \* bits of each group's own metadata
  InodesPerGroup,
  TotalInodes,
  UninitGroups      \* groups whose bitmaps are not set up yet

VARIABLES
  bitmap,     \* block bitmap of each group
  bgFree,     \* free blocks in each group's descriptor
  sbFree,     \* free blocks in the superblock
  inoBlocks,  \* blocks of the file that allocates and frees them
  ibitmap,    \* inode bitmap of each group
  igFree, igDirs, igUnused, \* free inodes, directories, never used inodes of each group
  isbFree,    \* free inodes in the superblock
  lastGroup,  \* last_inode_bg_id
  uninit,     \* groups that still are to be set up
  pc,         \* "idle", or "search" inside ext4_ialloc_alloc_inode
  loop,       \* its locals
  ret,        \* the result of the last call
  held,       \* history: the blocks of the file
  dirs, files \* history: the inodes given out

blockVars == <<bgFree, sbFree, inoBlocks, held>>
inodeVars == <<igFree, igDirs, igUnused, isbFree, lastGroup, pc, loop, dirs, files>>
maps == <<bitmap, ibitmap, uninit>>
vars == <<maps, blockVars, inodeVars, ret>>

----------------------------------------------------------------------------
(* Geometry *)

\* ext4_block_group_cnt, ext4_blocks_in_group_cnt, ext4_inodes_in_group_cnt. The first
\* data block is not subtracted: the last group seems one block larger than it is.
GroupCount == (TotalBlocks + GroupSize - 1) \div GroupSize
Groups == 0 .. GroupCount - 1
BlocksIn(g) == IF g < GroupCount - 1 THEN GroupSize
               ELSE TotalBlocks - (GroupCount - 1) * GroupSize
InodesIn(g) == IF g < GroupCount - 1 THEN InodesPerGroup
               ELSE TotalInodes - (GroupCount - 1) * InodesPerGroup

\* ext4_balloc_get_bgid_of_block, ext4_fs_addr_to_idx_bg, ext4_fs_bg_idx_to_addr.
Relative(b) == IF FirstDataBlock # 0 /\ b # 0 THEN b - 1 ELSE b
GroupOf(b) == Relative(b) \div GroupSize
IdxIn(b) == Relative(b) % GroupSize
Addr(i, g) == g * GroupSize + i + FirstDataBlock

\* The blocks that exist, by group; the bits behind them are set for good.
RealIn(g) == IF g < GroupCount - 1 THEN GroupSize
             ELSE TotalBlocks - FirstDataBlock - (GroupCount - 1) * GroupSize
Padding(g) == RealIn(g) .. GroupSize - 1

\* ext4_ialloc_get_bgid_of_inode, ext4_ialloc_inode_to_bgidx, ext4_ialloc_bgidx_to_inode.
InodeGroup(n) == (n - 1) \div InodesPerGroup
InodeIdx(n) == (n - 1) % InodesPerGroup
InodeAt(i, g) == g * InodesPerGroup + i + 1

ASSUME AllocAssumption ==
  /\ GroupSize \in Nat \ {0} /\ TotalBlocks \in Nat \ {0} /\ FirstDataBlock \in {0, 1}
  /\ TotalBlocks > (GroupCount - 1) * GroupSize + FirstDataBlock
  /\ ByteBits \in Nat \ {0} /\ WordBits \in Nat \ {0} /\ WordBits % ByteBits = 0
  /\ Meta \in [Groups -> SUBSET (0 .. GroupSize - 1)] /\ UninitGroups \subseteq Groups
  /\ \A g \in Groups : Meta[g] \subseteq 0 .. RealIn(g) - 1
  /\ InodesPerGroup \in Nat \ {0} /\ TotalInodes \in Nat
  /\ TotalInodes > (GroupCount - 1) * InodesPerGroup
  /\ TotalInodes <= GroupCount * InodesPerGroup

SumOver(f) == SumTo(f, GroupCount)

\* The contents of a bitmap that was never written are whatever the device holds.
Init ==
  /\ \E junk \in {{}, 0 .. GroupSize - 1} :
       bitmap = [g \in Groups |-> IF g \in UninitGroups THEN junk ELSE Meta[g] \cup Padding(g)]
  /\ bgFree = [g \in Groups |-> RealIn(g) - Cardinality(Meta[g])]
  /\ sbFree = SumOver(bgFree)
  /\ inoBlocks = 0 /\ held = {}
  /\ \E junk \in {{}, 0 .. InodesPerGroup - 1} :
       ibitmap = [g \in Groups |-> IF g \in UninitGroups THEN junk ELSE {}]
  /\ igFree = [g \in Groups |-> InodesIn(g)]
  /\ igDirs = [g \in Groups |-> 0]
  /\ igUnused = [g \in Groups |-> InodesIn(g)]
  /\ isbFree = TotalInodes
  /\ lastGroup = 0 /\ uninit = UninitGroups
  /\ pc = "idle" /\ loop = <<>> /\ ret = "none" /\ dirs = {} /\ files = {}

----------------------------------------------------------------------------
(* Bitmaps *)

Aligned(i, n) == ((i + n - 1) \div n) * n
Clear(bm, from, to) == (from .. to - 1) \ bm

\* ext4_bmap_bits_free: single bits up to a byte, whole bytes, single bits.
BitsFree(bm, sbit, n) ==
  LET head  == Min({n, Aligned(sbit, ByteBits) - sbit})
      whole == ((n - head) \div ByteBits) * ByteBits
      first == sbit + head
  IN  ((bm \ (sbit .. first - 1)) \ (first .. first + whole - 1))
      \ (first + whole .. first + whole + (n - head - whole) - 1)

\* ext4_bmap_bit_find_clr: a clear bit before the first whole byte is found, and the
\* bit the search began with is returned for it. -1 is ENOSPC.
FindClear(bm, sbit, ebit) ==
  LET body == Aligned(sbit, ByteBits) IN
  IF Clear(bm, sbit, Min({body, ebit})) # {} THEN sbit
  ELSE IF Clear(bm, body, ebit) # {} THEN Min(Clear(bm, body, ebit))
  ELSE -1

----------------------------------------------------------------------------
(* Groups: ext4_fs_get_block_group_ref sets up a group before it is used *)

\* ext4_fs_init_block_bitmap and ext4_fs_init_inode_bitmap.
Ready(bm, gs) == [g \in Groups |-> IF g \in uninit \cap gs THEN Meta[g] \cup Padding(g) ELSE bm[g]]
ReadyInodes(gs) == [g \in Groups |-> IF g \in uninit \cap gs THEN {} ELSE ibitmap[g]]
Used(gs) == uninit' = uninit \ gs

----------------------------------------------------------------------------
(* ext4_balloc_alloc_block *)

\* A mutant: the search near the goal is left out.
FindFromGoalFar(bm, i, g) == FindClear(bm, i, BlocksIn(g))

\* In the goal's group: the goal, the rest of its word, the rest of the group.
FindFromGoal(bm, i, g) ==
  LET near == Clear(bm, i + 1, Min({Aligned(i, WordBits), BlocksIn(g)})) IN
  IF i \notin bm THEN i
  ELSE IF near # {} THEN Min(near)
  ELSE FindClear(bm, i, BlocksIn(g))

\* A mutant: the groups before the goal's are not searched.
NextGroupsAhead(g) == [k \in 1 .. GroupCount |-> Min({g + k, GroupCount - 1})]

\* The groups behind the goal's, and at last that one again.
NextGroups(g) == [k \in 1 .. GroupCount |-> (g + k) % GroupCount]

\* The groups read, and where a block is found, if it is. A goal behind the last group
\* reads a descriptor behind the last one, taken to be zero.
Search(goal) ==
  LET g == GroupOf(goal)
      bm == Ready(bitmap, Groups)
      here == IF g \notin Groups \/ bgFree[g] = 0 THEN -1 ELSE FindFromGoal(bm[g], IdxIn(goal), g)
      found == {k \in 1 .. GroupCount : LET h == NextGroups(g)[k] IN
                  bgFree[h] # 0 /\ FindClear(bm[h], 0, BlocksIn(h)) # -1}
      k == IF found = {} THEN GroupCount ELSE Min(found)
      h == NextGroups(g)[k]
      read == {g} \cup {NextGroups(g)[i] : i \in 1 .. k}
  IN  IF here # -1 THEN [g |-> g, i |-> here, read |-> {g}]
      ELSE IF found # {} THEN [g |-> h, i |-> FindClear(bm[h], 0, BlocksIn(h)), read |-> read]
      ELSE [g |-> -1, i |-> -1, read |-> read]

AllocBlock(goal) ==
  /\ pc = "idle"
  /\ LET s == Search(goal)
         ready == Ready(bitmap, s.read)
     IN  /\ Used(s.read) /\ ibitmap' = ReadyInodes(s.read)
         /\ IF s.g = -1
            THEN bitmap' = ready /\ ret' = "no block" /\ UNCHANGED blockVars
            ELSE /\ bitmap' = [ready EXCEPT ![s.g] = @ \cup {s.i}]
                 /\ bgFree' = [bgFree EXCEPT ![s.g] = @ - 1]
                 /\ sbFree' = sbFree - 1
                 /\ inoBlocks' = inoBlocks + 1
                 /\ held' = held \cup {Addr(s.i, s.g)}
                 /\ ret' = "EOK"
  /\ UNCHANGED inodeVars

\* ext4_balloc_try_alloc_block.
TryAllocBlock(b) ==
  /\ pc = "idle"
  /\ LET g == GroupOf(b)
         ready == Ready(bitmap, {g})
         free == IdxIn(b) \notin ready[g]
     IN  /\ Used({g}) /\ ibitmap' = ReadyInodes({g})
         /\ bitmap' = [ready EXCEPT ![g] = @ \cup {IdxIn(b)}]
         /\ bgFree' = IF free THEN [bgFree EXCEPT ![g] = @ - 1] ELSE bgFree
         /\ sbFree' = IF free THEN sbFree - 1 ELSE sbFree
         /\ inoBlocks' = IF free THEN inoBlocks + 1 ELSE inoBlocks
         /\ held' = IF free THEN held \cup {b} ELSE held
  /\ ret' = "EOK"
  /\ UNCHANGED inodeVars

\* ext4_balloc_free_blocks for a run of the file's blocks, which may go on in the next
\* group, and ext4_balloc_free_block for one.
FreeBlocks(first, count) ==
  /\ pc = "idle" /\ first .. first + count - 1 \subseteq held
  /\ LET g == GroupOf(first)
         last == GroupOf(first + count - 1)
         here == Min({count, GroupSize - IdxIn(first)})
         one == [bitmap EXCEPT ![g] = BitsFree(@, IdxIn(first), here)]
     IN  /\ bitmap' = IF last = g THEN one
                      ELSE [one EXCEPT ![last] = BitsFree(@, IdxIn(first + here), count - here)]
         /\ bgFree' = IF last = g THEN [bgFree EXCEPT ![g] = @ + here]
                      ELSE [bgFree EXCEPT ![g] = @ + here, ![last] = @ + (count - here)]
  /\ sbFree' = sbFree + count
  /\ inoBlocks' = inoBlocks - count
  /\ held' = held \ (first .. first + count - 1)
  /\ ret' = "EOK"
  /\ UNCHANGED <<inodeVars, ibitmap, uninit>>

----------------------------------------------------------------------------
(* ext4_ialloc_alloc_inode and ext4_ialloc_free_inode *)

AllocInodeStart(isDir) ==
  /\ pc = "idle"
  /\ loop' = [bgid |-> lastGroup, count |-> GroupCount, rewind |-> FALSE, dir |-> isDir]
  /\ pc' = "search"
  /\ UNCHANGED <<maps, blockVars, igFree, igDirs, igUnused, isbFree, lastGroup, dirs, files, ret>>

\* Behind the last group the search starts again from the first, up to where it began.
SearchRewind ==
  /\ pc = "search" /\ loop.bgid = loop.count
  /\ IF loop.rewind
     THEN pc' = "idle" /\ loop' = <<>> /\ ret' = "no inode"
     ELSE /\ loop' = [loop EXCEPT !.count = lastGroup, !.bgid = 0, !.rewind = TRUE]
          /\ UNCHANGED <<pc, ret>>
  /\ UNCHANGED <<maps, blockVars, igFree, igDirs, igUnused, isbFree, lastGroup, dirs, files>>

SearchNext ==
  /\ pc = "search" /\ loop.bgid < loop.count /\ igFree[loop.bgid] = 0
  /\ bitmap' = Ready(bitmap, {loop.bgid}) /\ ibitmap' = ReadyInodes({loop.bgid})
  /\ Used({loop.bgid})
  /\ loop' = [loop EXCEPT !.bgid = @ + 1]
  /\ UNCHANGED <<blockVars, igFree, igDirs, igUnused, isbFree, lastGroup, pc, dirs, files, ret>>

\* A mutant: the group's count is not decremented.
SearchTakeUncounted ==
  /\ pc = "search" /\ loop.bgid < loop.count /\ igFree[loop.bgid] > 0
  /\ LET g == loop.bgid
         i == FindClear(ReadyInodes({g})[g], 0, InodesIn(g))
     IN  IF i = -1 THEN UNCHANGED <<inodeVars, maps, ret>>
         ELSE /\ ibitmap' = [ReadyInodes({g}) EXCEPT ![g] = @ \cup {i}]
              /\ pc' = "idle" /\ loop' = <<>> /\ ret' = "EOK" /\ Used({g}) /\ lastGroup' = g
              /\ bitmap' = Ready(bitmap, {g})
              /\ UNCHANGED <<igFree, igDirs, igUnused, isbFree, dirs, files>>
  /\ UNCHANGED blockVars

\* A group whose count promises an inode: without one in its bitmap the loop goes
\* around with the same group.
SearchTake ==
  /\ pc = "search" /\ loop.bgid < loop.count /\ igFree[loop.bgid] > 0
  /\ LET g == loop.bgid
         ready == ReadyInodes({g})
         i == FindClear(ready[g], 0, InodesIn(g))
     IN  IF i = -1 THEN ibitmap' = ready /\ UNCHANGED <<inodeVars, ret>>
         ELSE /\ ibitmap' = [ready EXCEPT ![g] = @ \cup {i}]
              /\ igFree' = [igFree EXCEPT ![g] = @ - 1]
              /\ igDirs' = IF loop.dir THEN [igDirs EXCEPT ![g] = @ + 1] ELSE igDirs
              /\ igUnused' = IF i >= InodesIn(g) - igUnused[g]
                             THEN [igUnused EXCEPT ![g] = InodesIn(g) - (i + 1)] ELSE igUnused
              /\ isbFree' = isbFree - 1
              /\ lastGroup' = g
              /\ dirs' = IF loop.dir THEN dirs \cup {InodeAt(i, g)} ELSE dirs
              /\ files' = IF loop.dir THEN files ELSE files \cup {InodeAt(i, g)}
              /\ pc' = "idle" /\ loop' = <<>> /\ ret' = "EOK"
  /\ bitmap' = Ready(bitmap, {loop.bgid}) /\ Used({loop.bgid})
  /\ UNCHANGED blockVars

\* A mutant: the count of directories is not corrected.
FreeInodeAsFile(n) ==
  /\ pc = "idle" /\ n \in dirs \cup files
  /\ ibitmap' = [ibitmap EXCEPT ![InodeGroup(n)] = @ \ {InodeIdx(n)}]
  /\ igFree' = [igFree EXCEPT ![InodeGroup(n)] = @ + 1]
  /\ isbFree' = isbFree + 1 /\ dirs' = dirs \ {n} /\ files' = files \ {n} /\ ret' = "EOK"
  /\ UNCHANGED <<blockVars, igDirs, bitmap, igUnused, lastGroup, pc, loop, uninit>>

FreeInode(n) ==
  /\ pc = "idle" /\ n \in dirs \cup files
  /\ LET g == InodeGroup(n) IN
     /\ ibitmap' = [ibitmap EXCEPT ![g] = @ \ {InodeIdx(n)}]
     /\ igFree' = [igFree EXCEPT ![g] = @ + 1]
     /\ igDirs' = IF n \in dirs THEN [igDirs EXCEPT ![g] = @ - 1] ELSE igDirs
  /\ isbFree' = isbFree + 1
  /\ dirs' = dirs \ {n} /\ files' = files \ {n}
  /\ ret' = "EOK"
  /\ UNCHANGED <<blockVars, bitmap, igUnused, lastGroup, pc, loop, uninit>>

\* Goals lie in the file system or just behind it (ext4_fs_indirect_find_goal).
Goals == FirstDataBlock .. TotalBlocks
SearchStep == SearchRewind \/ SearchNext \/ SearchTake

Next ==
  \/ \E b \in Goals : AllocBlock(b) \/ (b < TotalBlocks /\ TryAllocBlock(b))
  \/ \E b \in held, n \in 1 .. GroupSize + 1 : FreeBlocks(b, n)
  \/ \E d \in BOOLEAN : AllocInodeStart(d)
  \/ \E n \in dirs \cup files : FreeInode(n)
  \/ SearchStep

\* A search that has begun goes on.
Spec == Init /\ [][Next]_vars /\ WF_vars(SearchStep)

----------------------------------------------------------------------------
(* Properties *)

\* No block is given to a file twice and none is lost: the file holds as many blocks as
\* it was charged for, the bitmaps show its blocks, the metadata and the blocks that do
\* not exist, and the counts of groups and superblock are what the bitmaps say, also for
\* a group set up at first use and for runs that cross into the next group.
BlocksAccounted ==
  /\ inoBlocks = Cardinality(held)
  /\ \A g \in Groups \ uninit :
       bitmap[g] = Meta[g] \cup Padding(g) \cup {IdxIn(b) : b \in {b \in held : GroupOf(b) = g}}
  /\ \A g \in Groups :
       bgFree[g] = RealIn(g) - Cardinality(Meta[g]) - Cardinality({b \in held : GroupOf(b) = g})
  /\ sbFree = SumOver(bgFree)

\* The same for inodes, with the count of directories; and no inode lies in the part of
\* the table that is marked as never used.
InodesAccounted ==
  /\ dirs \cap files = {}
  /\ \A g \in Groups :
       LET mine == {n \in dirs \cup files : InodeGroup(n) = g} IN
       /\ g \notin uninit => ibitmap[g] = {InodeIdx(n) : n \in mine}
       /\ igFree[g] = InodesIn(g) - Cardinality(mine)
       /\ igDirs[g] = Cardinality(mine \cap dirs)
       /\ \A n \in mine : InodeIdx(n) < InodesIn(g) - igUnused[g]
  /\ isbFree = SumOver(igFree)

\* ENOSPC is the answer only when nothing is left in any group, whatever the goal and
\* wherever the last inode was found.
FullWhenTold ==
  [][ret' # ret => (ret' = "no block" => sbFree = 0) /\ (ret' = "no inode" => isbFree = 0)]_vars

\* The search for an inode ends, although it goes around with a group whose count
\* and bitmap disagree.
SearchEnds == pc = "search" ~> pc = "idle"

=============================================================================
