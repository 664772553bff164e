------------------------------ MODULE BlockMap ------------------------------
(***************************************************************************)
(* The block map of an inode without extents (ext4_fs.c): direct pointers  *)
(* in the inode, then trees of one, two and three levels of indirect       *)
(* blocks. Appending, truncating and releasing an inode take one step per  *)
(* turn of their loops. Reads and writes of blocks succeed here; running   *)
(* out of blocks is modelled everywhere.                                   *)
(***************************************************************************)
EXTENDS Integers, Sequences, FiniteSets, FiniteSetsExt

CONSTANTS
  Blocks,       \* the blocks of the device the allocator may give out
  DirectCount,  \* EXT4_INODE_DIRECT_BLOCK_COUNT
  Fanout,       \* block_size / sizeof(uint32_t)
  BlockSize     \* block_size, for the arithmetic on sizes

ASSUME BlockMapAssumption ==
  /\ Blocks \subseteq Nat \ {0} /\ IsFiniteSet(Blocks)
  /\ DirectCount \in Nat \ {0} /\ Fanout \in Nat \ {0} /\ BlockSize \in Nat \ {0}

VARIABLES
  size,      \* the size in the inode
  direct,    \* blocks[0 .. DirectCount - 1] of the inode
  indirect,  \* the three pointers behind them
  content,   \* the pointers in an indirect block
  used,      \* the blocks the allocator has given to this inode
  others,    \* the blocks it has given to other inodes
  pc,        \* where the running operation is
  ib,        \* the logical block it works on
  lvl,       \* append: the level it has reached
  cur,       \* append: the indirect block of that level
  hand,      \* append: phys_block, allocated and not yet linked
  goal,      \* truncate: the new size
  file       \* history: the data block of each logical block

vars == <<size, direct, indirect, content, used, others, pc, ib, lvl, cur, hand, goal, file>>

Null == 0
Ptr == Blocks \union {Null}
Offsets == 0 .. Fanout - 1
ZeroBlock == [o \in Offsets |-> Null]

\* fs->inode_blocks_per_level and fs->inode_block_limits, as ext4_fs_init computes them.
blocks_per_level[l \in 0 .. 3] == IF l = 0 THEN 1 ELSE blocks_per_level[l - 1] * Fanout
block_limits[l \in 0 .. 3] ==
  IF l = 0 THEN DirectCount ELSE block_limits[l - 1] + blocks_per_level[l]

\* The first level whose limit lies above the block.
Level(i) == Min({l \in 1 .. 3 : i < block_limits[l]})

\* The offset in the indirect block of level k on the way to block i.
OffsetAt(i, k) ==
  ((i - block_limits[Level(i) - 1]) % (blocks_per_level[k - 1] * Fanout))
     \div blocks_per_level[k - 1]

\* The blocks on that way, from the pointer in the inode down to the data block at 0.
Way(i) ==
  LET l == Level(i)
      way[k \in 0 .. l] ==
        IF k = l THEN indirect[l]
        ELSE IF way[k + 1] = Null THEN Null
        ELSE content[way[k + 1]][OffsetAt(i, k + 1)]
  IN  way

\* ext4_fs_get_inode_dblk_idx
Get(i) ==
  IF size = 0 THEN Null
  ELSE IF i < DirectCount THEN direct[i]
  ELSE Way(i)[0]

CeilBlocks(n) == (n + BlockSize - 1) \div BlockSize

\* The allocator: any allocator would do, this one takes the first free block.
Free == Blocks \ (used \union others)
FirstFree == Min(Free)

Init ==
  /\ size = 0
  /\ direct = [i \in 0 .. DirectCount - 1 |-> Null]
  /\ indirect = [l \in 1 .. 3 |-> Null]
  /\ content = [b \in Blocks |-> ZeroBlock]
  /\ used = {}
  /\ others = {}
  /\ pc = "idle"
  /\ ib = 0 /\ lvl = 0 /\ cur = Null /\ hand = Null /\ goal = 0
  /\ file = <<>>

----------------------------------------------------------------------------
(* ext4_fs_append_inode_dblk *)

\* A data block is allocated; a direct pointer is set at once.
AppendDirect ==
  /\ pc = "idle" /\ Free # {}
  /\ CeilBlocks(size) < DirectCount
  /\ direct' = [direct EXCEPT ![CeilBlocks(size)] = FirstFree]
  /\ used' = used \union {FirstFree}
  /\ size' = (CeilBlocks(size) + 1) * BlockSize
  /\ file' = Append(file, FirstFree)
  /\ UNCHANGED <<indirect, content, pc, ib, lvl, cur, hand, goal, others>>

\* Otherwise the way to the pointer has to be found, and made where it is missing.
AppendStart ==
  /\ pc = "idle" /\ Free # {}
  /\ CeilBlocks(size) \in DirectCount .. block_limits[3] - 1
  /\ ib' = CeilBlocks(size)
  /\ lvl' = Level(ib')
  /\ cur' = indirect[lvl']
  /\ hand' = FirstFree
  /\ used' = used \union {FirstFree}
  /\ pc' = "top"
  /\ UNCHANGED <<size, direct, indirect, content, goal, file, others>>

\* The inode's own pointer: a zeroed indirect block is put there if it is null.
TopBlock ==
  /\ pc = "top" /\ (cur = Null => Free # {})
  /\ IF cur # Null
     THEN UNCHANGED <<indirect, content, used, cur>>
     ELSE /\ indirect' = [indirect EXCEPT ![lvl] = FirstFree]
          /\ content' = [content EXCEPT ![FirstFree] = ZeroBlock]
          /\ used' = used \union {FirstFree}
          /\ cur' = FirstFree
  /\ pc' = "walk"
  /\ UNCHANGED <<size, direct, ib, lvl, hand, goal, file, others>>

Here == OffsetAt(ib, lvl)

\* A mutant: the new indirect block is not linked.
WalkDownUnlinked ==
  /\ pc = "walk" /\ lvl > 1
  /\ LET next == content[cur][Here] IN
     /\ next = Null => Free # {}
     /\ IF next # Null
        THEN cur' = next /\ UNCHANGED <<content, used>>
        ELSE /\ content' = [content EXCEPT ![FirstFree] = ZeroBlock]
             /\ used' = used \union {FirstFree}
             /\ cur' = FirstFree
  /\ lvl' = lvl - 1
  /\ UNCHANGED <<size, direct, indirect, pc, ib, hand, goal, file, others>>

\* A turn of the loop above the last level.
WalkDown ==
  /\ pc = "walk" /\ lvl > 1
  /\ LET next == content[cur][Here] IN
     /\ next = Null => Free # {}
     /\ IF next # Null
        THEN cur' = next /\ UNCHANGED <<content, used>>
        ELSE /\ content' = [content EXCEPT ![FirstFree] = ZeroBlock, ![cur][Here] = FirstFree]
             /\ used' = used \union {FirstFree}
             /\ cur' = FirstFree
  /\ lvl' = lvl - 1
  /\ UNCHANGED <<size, direct, indirect, pc, ib, hand, goal, file, others>>

\* The last level takes the address of the data block, and the file grows.
WalkLast ==
  /\ pc = "walk" /\ lvl = 1
  /\ content' = [content EXCEPT ![cur][Here] = hand]
  /\ size' = (ib + 1) * BlockSize
  /\ file' = Append(file, hand)
  /\ hand' = Null /\ cur' = Null /\ lvl' = 0 /\ ib' = 0
  /\ pc' = "idle"
  /\ UNCHANGED <<direct, indirect, used, goal, others>>

\* ENOSPC on the way: the data block goes back, the blocks already linked stay.
AppendFails ==
  /\ Free = {}
  /\ \/ pc = "top" /\ cur = Null
     \/ pc = "walk" /\ lvl > 1 /\ content[cur][Here] = Null
  /\ used' = used \ {hand}
  /\ hand' = Null /\ cur' = Null /\ lvl' = 0 /\ ib' = 0
  /\ pc' = "idle"
  /\ UNCHANGED <<size, direct, indirect, content, goal, file, others>>

----------------------------------------------------------------------------
(* ext4_fs_truncate_inode: the blocks behind the new size, from the first. *)

TruncateStart(n) ==
  /\ pc = "idle" /\ n < size
  /\ goal' = n
  /\ ib' = CeilBlocks(n)
  /\ pc' = "release"
  /\ UNCHANGED <<size, direct, indirect, content, used, lvl, cur, hand, file, others>>

\* A mutant: the pointer in the indirect block is left behind.
ReleaseKeepsPointer ==
  /\ pc = "release" /\ ib < CeilBlocks(size)
  /\ IF ib < DirectCount
     THEN /\ direct' = [direct EXCEPT ![ib] = Null]
          /\ used' = used \ {direct[ib]}
     ELSE used' = used \ {Way(ib)[0]} /\ UNCHANGED direct
  /\ ib' = ib + 1
  /\ UNCHANGED <<size, indirect, content, pc, lvl, cur, hand, goal, file, others>>

\* ext4_fs_release_inode_block: the pointer is cleared and the block is freed.
Release ==
  /\ pc = "release" /\ ib < CeilBlocks(size)
  /\ IF ib < DirectCount
     THEN /\ direct' = [direct EXCEPT ![ib] = Null]
          /\ used' = used \ {direct[ib]}
          /\ UNCHANGED content
     ELSE LET way == Way(ib) IN
          IF way[1] = Null
          THEN UNCHANGED <<direct, used, content>>
          ELSE /\ content' = [content EXCEPT ![way[1]][OffsetAt(ib, 1)] = Null]
               /\ used' = used \ {way[0]}
               /\ UNCHANGED direct
  /\ ib' = ib + 1
  /\ UNCHANGED <<size, indirect, pc, lvl, cur, hand, goal, file, others>>

TruncateEnd ==
  /\ pc = "release" /\ ib = CeilBlocks(size)
  /\ size' = goal
  /\ file' = SubSeq(file, 1, CeilBlocks(goal))
  /\ ib' = 0 /\ goal' = 0
  /\ pc' = "idle"
  /\ UNCHANGED <<direct, indirect, content, used, lvl, cur, hand, others>>

----------------------------------------------------------------------------
(* ext4_fs_free_inode, of an inode truncated to size 0: the indirect blocks. *)

Entries(b) == {content[b][o] : o \in Offsets} \ {Null}

FreeSingle ==
  /\ pc = "idle" /\ size = 0
  /\ used' = used \ {indirect[1]}
  /\ indirect' = [indirect EXCEPT ![1] = Null]
  /\ pc' = "free2"
  /\ UNCHANGED <<size, direct, content, ib, lvl, cur, hand, goal, file, others>>

FreeDouble ==
  /\ pc = "free2"
  /\ used' = IF indirect[2] = Null THEN used
             ELSE used \ ({indirect[2]} \union Entries(indirect[2]))
  /\ indirect' = [indirect EXCEPT ![2] = Null]
  /\ pc' = "free3"
  /\ UNCHANGED <<size, direct, content, ib, lvl, cur, hand, goal, file, others>>

FreeTriple ==
  /\ pc = "free3"
  /\ used' = IF indirect[3] = Null THEN used
             ELSE used \ ({indirect[3]} \union Entries(indirect[3])
                          \union UNION {Entries(b) : b \in Entries(indirect[3])})
  /\ indirect' = [indirect EXCEPT ![3] = Null]
  /\ pc' = "gone"
  /\ UNCHANGED <<size, direct, content, ib, lvl, cur, hand, goal, file, others>>

\* ext4_fs_alloc_inode clears the inode when its number is given out again.
Reuse ==
  /\ pc = "gone"
  /\ direct' = [i \in 0 .. DirectCount - 1 |-> Null]
  /\ indirect' = [l \in 1 .. 3 |-> Null]
  /\ size' = 0
  /\ pc' = "idle"
  /\ UNCHANGED <<content, used, ib, lvl, cur, hand, goal, file, others>>

\* Another inode is given a block, near its own goal: the other end of the device.
OtherFile ==
  /\ pc = "idle" /\ Free # {}
  /\ others' = others \union {Max(Free)}
  /\ UNCHANGED <<size, direct, indirect, content, used, pc, ib, lvl, cur, hand, goal, file>>

Next ==
  \/ AppendDirect \/ AppendStart \/ TopBlock \/ WalkDown \/ WalkLast \/ AppendFails
  \/ \E n \in 0 .. block_limits[3] * BlockSize : TruncateStart(n)
  \/ Release \/ TruncateEnd
  \/ FreeSingle \/ FreeDouble \/ FreeTriple \/ Reuse \/ OtherFile

Spec == Init /\ [][Next]_vars

----------------------------------------------------------------------------
(* Properties *)

\* Type of the state.
TypeOK ==
  /\ size \in 0 .. block_limits[3] * BlockSize
  /\ direct \in [0 .. DirectCount - 1 -> Ptr]
  /\ indirect \in [1 .. 3 -> Ptr]
  /\ content \in [Blocks -> [Offsets -> Ptr]]
  /\ used \subseteq Blocks /\ others \subseteq Blocks
  /\ pc \in {"idle", "top", "walk", "release", "free2", "free3", "gone"}
  /\ ib \in 0 .. block_limits[3] /\ lvl \in 0 .. 3
  /\ cur \in Ptr /\ hand \in Ptr /\ goal \in 0 .. block_limits[3] * BlockSize
  /\ file \in Seq(Blocks)

\* The indirect blocks that hang below the inode: Below(S) goes one level down.
Below(S) == UNION {Entries(b) : b \in S}
Root(l) == {indirect[l]} \ {Null}
Nodes == Root(1) \union Root(2) \union Below(Root(2))
         \union Root(3) \union Below(Root(3)) \union Below(Below(Root(3)))

PointersTo(b) ==
  {<<"direct", i, 0>> : i \in {i \in DOMAIN direct : direct[i] = b}} \union
  {<<"inode", l, 0>> : l \in {l \in 1 .. 3 : indirect[l] = b}} \union
  {<<"block", s[1], s[2]>> : s \in {s \in Nodes \X Offsets : content[s[1]][s[2]] = b}}

\* Every block given to the inode is pointed to exactly once, or is the one in
\* hand, and nothing points to a block that was freed: ext4_fs.c:898-1132 and
\* 1423-1655 keep this at every turn of their loops, also when blocks run out,
\* and releasing the inode returns every block.
Accounted ==
  \A b \in Blocks :
    Cardinality(PointersTo(b)) + (IF b = hand THEN 1 ELSE 0) = (IF b \in used THEN 1 ELSE 0)

\* ext4_fs_get_inode_dblk_idx finds for each logical block the data block that
\* was appended there, whatever was truncated and appended before; while a
\* truncation runs this holds of the blocks it keeps.
MapsFile ==
  /\ Len(file) = CeilBlocks(size)
  /\ \A i \in 0 .. Len(file) - 1 :
       (pc = "release" => i < CeilBlocks(goal)) => Get(i) = file[i + 1]

=============================================================================
