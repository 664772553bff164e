------------------------------ MODULE DirBlock ------------------------------
(***************************************************************************)
(* The blocks of a directory and the linear algorithm on them              *)
(* (ext4_dir.c), as operators: the modules DirIndex and Directory build on *)
(* them. A directory is a sequence of blocks, a block maps every aligned   *)
(* offset to what lies there: the header of an entry, dead or alive, or    *)
(* the bytes of a name ("Bytes"). Headers that were merged into their      *)
(* predecessor stay where they are until something is written over them,   *)
(* as on the disk.                                                         *)
(*                                                                         *)
(* The checksum of a block (computed over all of it, checked, and only     *)
(* reported when wrong) is left out, the entry that carries it is not: it  *)
(* is `tail' bytes long, 0 without EXT4_FRO_COM_METADATA_CSUM.             *)
(***************************************************************************)
EXTENDS Integers, Sequences, SequencesExt, FiniteSets

CONSTANTS
  Names, Dot, DotDot,   \* every directory starts with Dot and DotDot
  NameLen,      \* lengths of the names, in bytes
  BlockSize,    \* in bytes
  MaxBlocks     \* bound: ext4_fs_append_inode_dblk finds no block after that many

CoreLen == 8   \* sizeof(struct ext4_fake_dir_entry)
Align(n) == ((n + 3) \div 4) * 4
Required(n) == Align(CoreLen + NameLen[n])

ASSUME DirBlockAssumption ==
  /\ {Dot, DotDot} \subseteq Names /\ NameLen \in [Names -> 1 .. 255]
  /\ BlockSize \in Nat /\ BlockSize % 4 = 0
  /\ \A n \in Names : Required(n) <= BlockSize \div 2
  /\ MaxBlocks \in Nat \ {0}

CsumTail == "tail"
TailLen == 12   \* sizeof(struct ext4_dir_entry_tail)
NoSlot == -1    \* ENOSPC, ENOENT
Offsets == {o \in 0 .. BlockSize - 1 : o % 4 = 0}
Header(live, rec, name) == [live |-> live, rec |-> rec, name |-> name]
Bytes == Header(FALSE, 0, "bytes")   \* no header: part of a name, or zeroes
ZeroBlock == [x \in Offsets |-> Bytes]

\* ext4_dir_write_entry, over whatever lay there.
WriteEntry(b, o, rec, n) ==
  [x \in Offsets |-> IF x = o THEN Header(TRUE, rec, n)
                     ELSE IF x \in o + 1 .. o + CoreLen + NameLen[n] - 1 THEN Bytes
                     ELSE b[x]]

\* ext4_dir_init_entry_tail, if there are checksums.
Tailed(b, tail) ==
  IF tail = 0 THEN b ELSE [b EXCEPT ![BlockSize - tail] = Header(FALSE, tail, CsumTail)]

\* A zeroed block with its first entry.
NewBlock(n, tail) == WriteEntry(Tailed(ZeroBlock, tail), 0, BlockSize - tail, n)

----------------------------------------------------------------------------
(* One block *)

IsHeader(c) == c # Bytes

\* The offsets of the entries, each rec_len behind the one before.
Chain(b) ==
  LET from[o \in 0 .. BlockSize] ==
        IF o \notin Offsets \/ ~IsHeader(b[o]) \/ b[o].rec = 0
           \/ o + b[o].rec > BlockSize
        THEN <<>>
        ELSE <<o>> \o from[o + b[o].rec]
  IN  from[0]

\* A dead entry is used if it is large enough and does not hold the checksum.
UsesRec(b, o, n) == ~b[o].live /\ b[o].name # CsumTail /\ b[o].rec >= Required(n)

\* free_space, a uint16_t.
FreeSpace(b, o) == (b[o].rec - Required(b[o].name)) % 65536

Cuts(b, o, n) == b[o].live /\ FreeSpace(b, o) >= Required(n)

\* The new entry gets all the room behind the name of the one that is cut.
CutEntry(b, o, n) ==
  WriteEntry([b EXCEPT ![o].rec = Required(b[o].name)],
             o + Required(b[o].name), FreeSpace(b, o), n)

Fits(b, o, n) == UsesRec(b, o, n) \/ Cuts(b, o, n)

\* ext4_dir_try_insert_entry: the first entry that gives room.
TryInsert(b, n) ==
  LET fit == SelectSeq(Chain(b), LAMBDA o : Fits(b, o, n))
  IN  IF fit = <<>> THEN b
      ELSE IF UsesRec(b, Head(fit), n) THEN WriteEntry(b, Head(fit), b[Head(fit)].rec, n)
      ELSE CutEntry(b, Head(fit), n)

\* ext4_dir_find_in_block: an entry too close to the end for the name ends the walk.
FindInBlock(b, n) ==
  LET hit == SelectSeq(Chain(b), LAMBDA o : o + NameLen[n] <= BlockSize
                                            /\ b[o].live /\ b[o].name = n)
  IN  IF hit = <<>> THEN NoSlot ELSE Head(hit)

\* A mutant: the entry is only marked dead.
RemoveInBlockDead(b, o) == [b EXCEPT ![o].live = FALSE]

\* The rest of ext4_dir_remove_entry: the space goes to the direct predecessor.
RemoveInBlock(b, o) ==
  LET before == SelectLastInSeq(Chain(b), LAMBDA x : x < o)
      dead   == [b EXCEPT ![o].live = FALSE]
  IN  IF o = 0 THEN dead
      ELSE [dead EXCEPT ![Chain(b)[before]].rec = @ + b[o].rec]

----------------------------------------------------------------------------
(* All blocks *)

\* The linear part of ext4_dir_find_entry: the first block that holds the name.
FindLinear(d, n) == SelectInSeq(d, LAMBDA b : FindInBlock(b, n) # NoSlot)

\* The linear part of ext4_dir_add_entry: the first block with room, or a new one.
AddLinear(d, n, tail) ==
  LET k == SelectInSeq(d, LAMBDA b : TryInsert(b, n) # b)
  IN  IF k # 0 THEN [d EXCEPT ![k] = TryInsert(@, n)]
      ELSE IF Len(d) < MaxBlocks THEN Append(d, NewBlock(n, tail))
      ELSE d

=============================================================================
