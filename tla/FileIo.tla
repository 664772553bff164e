------------------------------- MODULE FileIo -------------------------------
(***************************************************************************)
(* Reading, writing, seeking and truncating one file through the file API  *)
(* (ext4_fread, ext4_fwrite, ext4_fseek, ext4_ftruncate), down to the      *)
(* bytes of the device: ext4_block_readbytes and ext4_block_writebytes for *)
(* the unaligned ends, direct access to runs of contiguous blocks between  *)
(* them. The file has extents, two handles may be open on it, blocks run   *)
(* out, and a write to the device may fail.                                *)
(*                                                                         *)
(* A byte the k-th write call takes from position j of its buffer is the   *)
(* pair <<k, j>>, so that a byte put in the wrong place shows.             *)
(***************************************************************************)
EXTENDS Integers, Sequences, SequencesExt, FiniteSets, FiniteSetsExt

CONSTANTS
  Handles,     \* the ext4_file structures open on the file
  BlockSize,   \* the block size of the file system
  SectorSize,  \* bdif->ph_bsize
  NBlocks,     \* blocks of the device; block 0 and blocks not in `map' are not the file's
  Sizes,       \* sizes of reads and writes
  Offsets,     \* positions sought and lengths truncated to
  MaxTrunc,    \* CONFIG_MAX_TRUNCATE_SIZE
  MaxCalls,    \* bound: write and truncate calls
  IoFails      \* writes and truncations may fail with EIO

ASSUME FileIoAssumption ==
  /\ SectorSize \in Nat \ {0} /\ NBlocks \in Nat \ {0}
  /\ BlockSize \in Nat \ {0} /\ BlockSize % SectorSize = 0
  /\ Sizes \subseteq Nat \ {0} /\ Offsets \subseteq Nat /\ MaxTrunc \in Nat \ {0} /\ MaxCalls \in Nat
  /\ IoFails \in BOOLEAN

VARIABLES
  disk,   \* the bytes of the device
  map,    \* the extent tree: the device block of each block of the file
  size,   \* the size in the inode
  fpos,   \* file->fpos of each handle
  fsize,  \* file->fsize of each handle
  wb,     \* bdev->cache_write_back
  pc,     \* where the running call is
  op,     \* its locals
  calls,  \* number of write and truncate calls so far
  ref,    \* history: what the file contains
  failed  \* history: a write or truncation left early with an error

vars == <<disk, map, size, fpos, fsize, wb, pc, op, calls, ref, failed>>

Foreign == <<0, 0>>   \* a byte that is not the file's
Bytes == 0 .. NBlocks * BlockSize - 1

NoOp == [kind |-> "none", h |-> CHOOSE h \in Handles : TRUE, left |-> 0, done |-> 0,
         iblk |-> 0, last |-> 0, fblocks |-> 0, fblk |-> 0, start |-> 0, count |-> 0,
         full |-> FALSE, got |-> <<>>, want |-> <<>>]

Init ==
  /\ disk = [x \in Bytes |-> Foreign]
  /\ map = <<>> /\ size = 0
  /\ fpos = [h \in Handles |-> 0] /\ fsize = [h \in Handles |-> 0]
  /\ wb = 0 /\ pc = "idle" /\ op = NoOp /\ calls = 0
  /\ ref = <<>> /\ failed = FALSE

Smaller(a, b) == IF a < b THEN a ELSE b
CeilBlocks(n) == (n + BlockSize - 1) \div BlockSize
Unused == (1 .. NBlocks - 1) \ ToSet(map)
BlockOf(i) == map[i + 1]    \* ext4_fs_get_inode_dblk_idx, for a block of the file

\* ext4_block_writebytes and ext4_block_readbytes: the rest of the first sector,
\* whole sectors, the start of the last one. Cut(off, len) lists the bytes in order.
HeadLen(off, len) == IF off % SectorSize = 0 THEN 0
                     ELSE Smaller(SectorSize - (off % SectorSize), len)
Cut(off, len) ==
  LET head  == HeadLen(off, len)
      first == off \div SectorSize + (IF off % SectorSize = 0 THEN 0 ELSE 1)
      whole == (len - head) \div SectorSize
      rest  == (len - head) - whole * SectorSize
  IN  [i \in 1 .. head |-> off + i - 1]
      \o [i \in 1 .. whole * SectorSize |-> first * SectorSize + i - 1]
      \o [i \in 1 .. rest |-> (first + whole) * SectorSize + i - 1]

\* ext4_blocks_set_direct and ext4_blocks_get_direct: count blocks from start on.
Run(start, count) == [i \in 1 .. count * BlockSize |-> start * BlockSize + i - 1]

\* The caller's buffer from byte op.done on, written to the given places.
Place(where) ==
  [x \in Bytes |-> IF Contains(where, x)
                   THEN <<calls, op.done + (CHOOSE i \in DOMAIN where : where[i] = x)>>
                   ELSE disk[x]]

\* The contents of the file after n bytes more at the position of the handle.
Overlay(n) ==
  LET p == fpos[op.h]
  IN  [i \in 1 .. (IF Len(ref) > p + n THEN Len(ref) ELSE p + n) |->
         IF i > p /\ i <= p + n THEN <<calls, op.done + (i - p)>> ELSE ref[i]]

\* The transfer of the bytes `where', between the device and the caller's buffer.
Transfer(where) ==
  /\ fpos' = [fpos EXCEPT ![op.h] = @ + Len(where)]
  /\ IF op.kind = "write"
     THEN disk' = Place(where) /\ ref' = Overlay(Len(where))
     ELSE UNCHANGED <<disk, ref>>

\* The locals after a transfer.
Moved(where) ==
  [op EXCEPT !.left = @ - Len(where), !.done = @ + Len(where),
             !.got = IF op.kind = "read" THEN @ \o [i \in DOMAIN where |-> disk[where[i]]]
                     ELSE @]

----------------------------------------------------------------------------
(* ext4_fseek: it checks against the size the handle remembers. *)

\* SEEK_SET, SEEK_END and SEEK_CUR reach the same positions.
Fseek(h, to) ==
  /\ pc = "idle" /\ ~failed
  /\ to <= fsize[h]
  /\ fpos' = [fpos EXCEPT ![h] = to]
  /\ UNCHANGED <<disk, map, size, fsize, wb, pc, op, calls, ref, failed>>

----------------------------------------------------------------------------
(* ext4_fread and ext4_fwrite *)

\* What callers have to see to: nobody truncated the file below the position.
InFile(h) == fpos[h] <= size

Begin(kind, h, n) ==
  /\ pc = "idle" /\ ~failed /\ InFile(h)
  /\ fsize' = [fsize EXCEPT ![h] = size]
  /\ op' = [NoOp EXCEPT !.kind = kind, !.h = h, !.left = n,
                        !.want = IF kind = "read" THEN SubSeq(ref, fpos[h] + 1, fpos[h] + n)
                                 ELSE <<>>,
                        !.iblk = fpos[h] \div BlockSize,
                        !.last = (fpos[h] + n) \div BlockSize,
                        !.fblocks = CeilBlocks(size)]
  /\ pc' = "head"
  /\ UNCHANGED <<disk, map, size, fpos, wb, ref, failed>>

Fread(h, n) ==
  /\ Begin("read", h, Smaller(n, size - fpos[h]))
  /\ UNCHANGED calls

Fwrite(h, n) ==
  /\ calls < MaxCalls
  /\ Begin("write", h, n)
  /\ calls' = calls + 1

\* The end of the first block, if the position is not aligned. A write then turns
\* write-back mode on.
HeadBlock ==
  /\ pc = "head"
  /\ LET unalg == fpos[op.h] % BlockSize
         where == IF unalg = 0 THEN <<>>
                  ELSE Cut(BlockOf(op.iblk) * BlockSize + unalg,
                           Smaller(BlockSize - unalg, op.left))
     IN  /\ Transfer(where)
         /\ op' = [Moved(where) EXCEPT !.iblk = IF unalg = 0 THEN @ ELSE @ + 1]
  /\ wb' = IF op.kind = "write" THEN wb + 1 ELSE wb
  /\ pc' = "loop"
  /\ UNCHANGED <<map, size, fsize, calls, failed>>

\* A mutant: write-back mode is not turned off.
OuterLoopStaysOn ==
  /\ pc = "loop"
  /\ pc' = IF op.left >= BlockSize THEN "gather" ELSE "tail"
  /\ UNCHANGED <<disk, map, size, fpos, fsize, wb, op, calls, ref, failed>>

\* while(size >= block_size); behind it a write turns write-back mode off.
OuterLoop ==
  /\ pc = "loop"
  /\ IF op.left >= BlockSize
     THEN pc' = "gather" /\ UNCHANGED wb
     ELSE pc' = "tail" /\ wb' = IF op.kind = "write" THEN wb - 1 ELSE wb
  /\ UNCHANGED <<disk, map, size, fpos, fsize, op, calls, ref, failed>>

\* A mutant: a block joins the run wherever it lies.
JoinsAny(b, i) ==
  /\ op' = [op EXCEPT !.fblk = b, !.iblk = i + 1, !.start = IF @ = 0 THEN b ELSE @, !.count = @ + 1]
  /\ pc' = "gather"

\* The inner loop found block b as block i of the file: it joins the run, or ends it.
Joins(b, i) ==
  LET start == IF op.start = 0 THEN b ELSE op.start
  IN  IF start + op.count = b
      THEN /\ op' = [op EXCEPT !.fblk = b, !.iblk = i + 1, !.start = start, !.count = @ + 1]
           /\ pc' = "gather"
      ELSE /\ op' = [op EXCEPT !.fblk = b, !.iblk = i + 1, !.start = start]
           /\ pc' = "flush"

GatherOld ==
  /\ pc = "gather" /\ op.iblk < op.last
  /\ op.kind = "read" \/ op.iblk < op.fblocks
  /\ Joins(BlockOf(op.iblk), op.iblk)
  /\ UNCHANGED <<disk, map, size, fpos, fsize, wb, calls, ref, failed>>

\* ext4_fs_append_inode_dblk: a block at the end of the file, which grows at once.
Appended(b) == map' = Append(map, b) /\ size' = size + BlockSize

GatherNew(b) ==
  /\ pc = "gather" /\ op.iblk < op.last
  /\ op.kind = "write" /\ op.iblk >= op.fblocks
  /\ Appended(b)
  /\ Joins(b, CeilBlocks(size))
  /\ UNCHANGED <<disk, fpos, fsize, wb, calls, ref, failed>>

\* No block left: what was gathered is written before the call gives up.
GatherFull ==
  /\ pc = "gather" /\ op.iblk < op.last
  /\ op.kind = "write" /\ op.iblk >= op.fblocks
  /\ Unused = {}
  /\ op' = [op EXCEPT !.full = TRUE]
  /\ pc' = "flush"
  /\ UNCHANGED <<disk, map, size, fpos, fsize, wb, calls, ref, failed>>

GatherEnd ==
  /\ pc = "gather" /\ op.iblk >= op.last
  /\ pc' = "flush"
  /\ UNCHANGED <<disk, map, size, fpos, fsize, wb, op, calls, ref, failed>>

\* A mutant: the block that ended the run is forgotten.
FlushForgets ==
  /\ pc = "flush"
  /\ LET where == Run(op.start, op.count) IN
     /\ Transfer(where)
     /\ op' = [Moved(where) EXCEPT !.start = 0, !.count = 0]
  /\ pc' = IF op.full THEN "fsize" ELSE "loop"
  /\ failed' = (failed \/ op.full)
  /\ UNCHANGED <<map, size, fsize, wb, calls>>

\* The run goes to or comes from the device; the block that ended it starts the
\* next one. A call that ran out of blocks leaves for out_fsize, and write-back
\* mode stays on.
Flush ==
  /\ pc = "flush"
  /\ LET where == Run(op.start, op.count) IN
     /\ Transfer(where)
     /\ op' = [Moved(where) EXCEPT !.start = op.fblk, !.count = 1]
  /\ pc' = IF op.full THEN "fsize" ELSE "loop"
  /\ failed' = (failed \/ op.full)
  /\ UNCHANGED <<map, size, fsize, wb, calls>>

\* The start of the last block.
TailOld ==
  /\ pc = "tail"
  /\ op.left = 0 \/ op.kind = "read" \/ op.iblk < op.fblocks
  /\ LET where == IF op.left = 0 THEN <<>>
                  ELSE Cut(BlockOf(op.iblk) * BlockSize, op.left)
     IN  Transfer(where) /\ op' = Moved(where)
  /\ pc' = IF op.kind = "read" THEN "ret" ELSE "fsize"
  /\ UNCHANGED <<map, size, fsize, wb, calls, failed>>

TailNew(b) ==
  /\ pc = "tail" /\ op.left > 0 /\ op.kind = "write" /\ op.iblk >= op.fblocks
  /\ Appended(b)
  /\ LET where == Cut(b * BlockSize, op.left)
     IN  Transfer(where) /\ op' = Moved(where)
  /\ pc' = "fsize"
  /\ UNCHANGED <<fsize, wb, calls, failed>>

TailFull ==
  /\ pc = "tail" /\ op.left > 0 /\ op.kind = "write" /\ op.iblk >= op.fblocks
  /\ Unused = {}
  /\ pc' = "fsize"
  /\ UNCHANGED <<disk, map, size, fpos, fsize, wb, op, calls, ref, failed>>

\* A mutant: the file keeps the length its blocks gave it.
OutFsizeKeeps ==
  /\ pc = "fsize" /\ pc' = "ret"
  /\ UNCHANGED <<disk, map, size, fpos, fsize, wb, op, calls, ref, failed>>

\* out_fsize: the file is as long as what was written.
OutFsize ==
  /\ pc = "fsize"
  /\ IF fpos[op.h] > fsize[op.h]
     THEN /\ size' = fpos[op.h]
          /\ fsize' = [fsize EXCEPT ![op.h] = fpos[op.h]]
     ELSE UNCHANGED <<size, fsize>>
  /\ pc' = "ret"
  /\ UNCHANGED <<disk, map, fpos, wb, op, calls, ref, failed>>

\* A transfer fails. In the loop a write leaves by the regular way and ends
\* write-back mode, elsewhere it goes to Finish; the size is not corrected.
TransferFails ==
  /\ IoFails
  /\ \/ pc = "flush" /\ wb' = (IF op.kind = "write" THEN wb - 1 ELSE wb)
     \/ pc = "head" /\ fpos[op.h] % BlockSize # 0 /\ UNCHANGED wb
     \/ pc = "tail" /\ op.left > 0 /\ op.iblk < op.fblocks /\ UNCHANGED wb
  /\ pc' = "ret"
  /\ op' = [op EXCEPT !.kind = "none"]
  /\ failed' = (failed \/ op.kind = "write")
  /\ UNCHANGED <<disk, map, size, fpos, fsize, calls, ref>>

\* The block at the end of the file was appended, and the transfer to it fails.
TailNewFails(b) ==
  /\ IoFails
  /\ pc = "tail" /\ op.left > 0 /\ op.kind = "write" /\ op.iblk >= op.fblocks
  /\ Appended(b)
  /\ pc' = "ret" /\ failed' = TRUE
  /\ op' = [op EXCEPT !.kind = "none"]
  /\ UNCHANGED <<disk, fpos, fsize, wb, calls, ref>>

----------------------------------------------------------------------------
(* ext4_ftruncate, ext4_trunc_inode: in pieces, each a transaction of its own. *)

Ftruncate(h, n) ==
  /\ pc = "idle" /\ ~failed /\ calls < MaxCalls
  /\ fsize' = [fsize EXCEPT ![h] = size]
  /\ IF n < size
     THEN /\ op' = [NoOp EXCEPT !.kind = "trunc", !.h = h, !.left = n]
          /\ wb' = wb + 1
          /\ pc' = "trunc"
     ELSE UNCHANGED <<op, wb, pc>>
  /\ calls' = calls + 1
  /\ UNCHANGED <<disk, map, size, fpos, ref, failed>>

Shrink(n) == size' = n /\ map' = SubSeq(map, 1, CeilBlocks(n))

TruncPiece ==
  /\ pc = "trunc" /\ size > op.left
  /\ Shrink(IF size > op.left + MaxTrunc THEN size - MaxTrunc ELSE op.left)
  /\ UNCHANGED <<disk, fpos, fsize, wb, pc, op, calls, ref, failed>>

TruncEnd ==
  /\ pc = "trunc" /\ size = op.left
  /\ fsize' = [fsize EXCEPT ![op.h] = op.left]
  /\ fpos' = [fpos EXCEPT ![op.h] = Smaller(@, op.left)]
  /\ wb' = wb - 1
  /\ pc' = "ret"
  /\ ref' = SubSeq(ref, 1, op.left)
  /\ UNCHANGED <<disk, map, size, op, calls, failed>>

\* An error leaves by Finish, and write-back mode stays on.
TruncFails ==
  /\ IoFails /\ pc = "trunc" /\ size > op.left
  /\ pc' = "ret" /\ failed' = TRUE
  /\ op' = [op EXCEPT !.kind = "none"]
  /\ UNCHANGED <<disk, map, size, fpos, fsize, wb, calls, ref>>

\* The call returns.
Return ==
  /\ pc = "ret"
  /\ pc' = "idle" /\ op' = NoOp
  /\ UNCHANGED <<disk, map, size, fpos, fsize, wb, calls, ref, failed>>

Step ==
  \/ HeadBlock \/ OuterLoop \/ GatherOld \/ GatherFull \/ GatherEnd \/ Flush
  \/ TailOld \/ TailFull \/ OutFsize \/ TransferFails \/ TruncPiece \/ TruncEnd \/ TruncFails \/ Return
  \/ \E b \in Unused : GatherNew(b) \/ TailNew(b) \/ TailNewFails(b)

Next ==
  \/ \E h \in Handles :
       \/ \E n \in Sizes : Fread(h, n) \/ Fwrite(h, n)
       \/ \E n \in Offsets : Fseek(h, n) \/ Ftruncate(h, n)
  \/ Step

Spec == Init /\ [][Next]_vars
FairSpec == Spec /\ WF_vars(Step)

----------------------------------------------------------------------------
(* Properties *)

\* Type of the state.
TypeOK ==
  /\ DOMAIN disk = Bytes /\ map \in Seq(1 .. NBlocks - 1) /\ size \in Nat
  /\ fpos \in [Handles -> Nat] /\ fsize \in [Handles -> Nat] /\ wb \in 0 .. 1
  /\ pc \in {"idle", "head", "loop", "gather", "flush", "tail", "fsize", "trunc", "ret"}
  /\ calls \in 0 .. MaxCalls /\ failed \in BOOLEAN

\* After every call the file holds what was written, byte for byte, through either
\* handle and over any mix of aligned and unaligned writes, truncations and a full
\* device (ext4.c:1540-1945).
ContentRight ==
  (pc = "ret" /\ (failed => op.kind = "write")) =>
    /\ size = Len(ref)
    /\ CeilBlocks(size) = Len(map)
    /\ \A i \in 1 .. size :
         disk[BlockOf((i - 1) \div BlockSize) * BlockSize + ((i - 1) % BlockSize)] = ref[i]

\* What a read delivers is what the file holds from its position on, and it
\* delivers all of it (ext4.c:1604-1759).
ReadRight ==
  op.kind = "read" =>
    /\ op.got = SubSeq(op.want, 1, Len(op.got))
    /\ pc = "ret" => op.got = op.want

\* A write touches no byte of the device outside the blocks of the file.
Confined ==
  [][\A x \in Bytes : disk'[x] # disk[x] => x \div BlockSize \in ToSet(map')]_vars

\* Write-back mode is off again after every call that did not fail. (It stays on
\* after the exits of ext4.c:1564, 1851 and 1894.)
WriteBackEnds == pc = "ret" => (wb = 0 \/ failed)

\* Every call returns.
CallEnds == (pc # "idle") ~> (pc = "idle")

=============================================================================
