----------------------------- MODULE BlockCache -----------------------------
(***************************************************************************)
(* The block cache of lwext4 (ext4_bcache.c) under the block device layer  *)
(* (ext4_blockdev.c), with the two ways in which the file system reaches a *)
(* block: metadata through the cache, file data directly.                  *)
(*                                                                         *)
(* `lru' lists the cached blocks by rising lru_id, so that it stands for   *)
(* lba_root (its range), for ref_blocks (its length) and for lru_root (its *)
(* unreferenced members). `dirtyList' is dirty_list, head first, and a     *)
(* block is on it iff its on_dirty_list is set. One call of the interface  *)
(* is one step: there is one hart and no call is interrupted.              *)
(***************************************************************************)
EXTENDS Integers, Sequences, SequencesExt, FiniteSets, Data

CONSTANTS
  Lbas,        \* block addresses: a set of positive integers (lb_id # 0)
  Values,      \* contents of a block
  Zero,        \* the contents of a block at the start
  cnt,         \* bc->cnt: CONFIG_BLOCK_DEV_CACHE_SIZE
  MaxRef,      \* bound: references to one buffer
  MaxBack,     \* bound: nesting of the write-back mode
  MaxRange,    \* bound: the blocks freed by one call
  Stores,      \* bdif->bwrite writes the block (FALSE: it returns EOK and does not)
  IoFails      \* bdif->bread and bdif->bwrite may return an error

ASSUME CacheAssumption ==
  /\ Lbas \subseteq Nat \ {0} /\ Zero \in Values
  /\ cnt \in Nat \ {0} /\ MaxRef \in Nat \ {0} /\ MaxBack \in Nat /\ MaxRange \in Nat
  /\ Stores \in BOOLEAN /\ IoFails \in BOOLEAN

VARIABLES
  buf,        \* buf[l]: flags, reference counter and data of a cached block
  lru,        \* the cached blocks, by rising lru_id
  dirtyList,  \* dirty_list
  writeBack,  \* bdev->cache_write_back
  disk,       \* what the device holds
  role,       \* what the file system uses a block for
  latest,     \* history: the contents last given to a block
  lost,       \* history: the blocks a write of which was lost in one of three ways: a
              \* bwrite that returned EOK and stored nothing, a dirty buffer dropped
              \* although its write had failed, or freed without being invalidated
  ret         \* the result of the last call

vars == <<buf, lru, dirtyList, writeBack, disk, role, latest, lost, ret>>

Bufs == [up : BOOLEAN, dirty : BOOLEAN, flush : BOOLEAN, tmp : BOOLEAN,
         ref : 0 .. MaxRef, data : Values]

\* What ext4_buf_alloc returns (and the value of buf for a block not cached).
NewBuf == [up |-> FALSE, dirty |-> FALSE, flush |-> FALSE, tmp |-> FALSE,
           ref |-> 0, data |-> Zero]

Cached(l) == Contains(lru, l)

Results == IF IoFails THEN {"EOK", "EIO"} ELSE {"EOK"}

\* The device after ext4_blocks_set_direct of the buffers S.
Written(S) == [l \in Lbas |-> IF Stores /\ l \in S THEN buf[l].data ELSE disk[l]]

\* The blocks of S whose write has not reached the device.
Unstored(S) == IF Stores THEN {} ELSE S

Init ==
  /\ buf = [l \in Lbas |-> NewBuf]
  /\ lru = <<>>
  /\ dirtyList = <<>>
  /\ writeBack = 0
  /\ disk = [l \in Lbas |-> Zero]
  /\ role = [l \in Lbas |-> "meta"]
  /\ latest = disk
  /\ lost = {}
  /\ ret = "EOK"

----------------------------------------------------------------------------
(* ext4_block_cache_shake *)

Unreferenced == Without(lru, {l \in Lbas : buf[l].ref > 0})

\* A mutant: the loop stops one buffer early.
VictimsLate ==
  LET full == Len(lru) - cnt
  IN  SubSeq(Unreferenced, 1, IF full < Len(Unreferenced) THEN full ELSE Len(Unreferenced))

\* The buffers the loop of ext4_block_cache_shake drops when no write fails.
Victims ==
  LET full == Len(lru) - cnt + 1
  IN  SubSeq(Unreferenced, 1, IF full < Len(Unreferenced) THEN full ELSE Len(Unreferenced))

\* The cache after shaking off the buffers S, the dirty ones having been written.
ShakenDisk(S) == Written({l \in S : buf[l].dirty})
ShakenBuf(S) == [l \in Lbas |-> IF l \in S THEN NewBuf ELSE buf[l]]
ShakenLost(S) == lost \cup Unstored({l \in S : buf[l].dirty})

\* ext4_block_get and ext4_block_get_noread where the write of a dirty victim
\* fails: the victims before it are gone, the caller gets the error.
ShakeFails(l) ==
  /\ IoFails /\ role[l] # "data"
  /\ \E k \in 1 .. Len(Victims) :
       /\ buf[Victims[k]].dirty
       /\ LET S == ToSet(SubSeq(Victims, 1, k - 1))
          IN  /\ disk' = ShakenDisk(S)
              /\ buf' = ShakenBuf(S)
              /\ lost' = ShakenLost(S)
              /\ lru' = Without(lru, S)
              /\ dirtyList' = Without(dirtyList, S)
  /\ ret' = "EIO"
  /\ UNCHANGED <<writeBack, role, latest>>

----------------------------------------------------------------------------
(* ext4_block_get, ext4_block_get_noread *)

\* The buffer of l after the shake: the one in the cache, or a new one.
Found(l) == ShakenBuf(ToSet(Victims))[l]

\* Shake, then ext4_bcache_alloc: find_get or a new buffer. b is what the caller
\* makes of the buffer Found(l). A buffer that had no reference gets the highest
\* lru_id and leaves the dirty list.
Acquire(l, b) ==
  LET S == ToSet(Victims)
      fresh == Found(l).ref = 0
  IN  /\ Found(l).ref < MaxRef
      /\ disk' = ShakenDisk(S)
      /\ lost' = ShakenLost(S)
      /\ buf' = [ShakenBuf(S) EXCEPT ![l] = [b EXCEPT !.ref = @ + 1]]
      /\ lru' = IF fresh THEN Append(Without(lru, S \cup {l}), l) ELSE Without(lru, S)
      /\ dirtyList' = Without(dirtyList, IF fresh THEN S \cup {l} ELSE S)

\* ext4_block_get: a buffer that is not up to date is read from the device.
Get(l) ==
  /\ role[l] = "meta"
  /\ Acquire(l, IF Found(l).up THEN Found(l)
                ELSE [Found(l) EXCEPT !.up = TRUE, !.data = ShakenDisk(ToSet(Victims))[l]])
  /\ ret' = "EOK"
  /\ UNCHANGED <<writeBack, role, latest>>

\* ext4_block_get where the read fails: ext4_bcache_free gives the reference
\* back and drops a buffer that is not up to date and has no other.
GetReadFails(l) ==
  LET S == ToSet(Victims)
      gone == IF Found(l).ref = 0 THEN S \cup {l} ELSE S
  IN  /\ IoFails /\ role[l] = "meta" /\ ~Found(l).up
      /\ disk' = ShakenDisk(S)
      /\ lost' = ShakenLost(S)
      /\ buf' = ShakenBuf(gone)
      /\ lru' = Without(lru, gone)
      /\ dirtyList' = Without(dirtyList, gone)
      /\ ret' = "EIO"
      /\ UNCHANGED <<writeBack, role, latest>>

\* ext4_block_get_noread by a caller that gives the block new contents v: the
\* first use of a block as metadata, or a block of the journal.
GetNoread(l, v) ==
  /\ role[l] # "data"
  /\ Acquire(l, [Found(l) EXCEPT !.up = TRUE, !.dirty = TRUE, !.data = v])
  /\ role' = [role EXCEPT ![l] = "meta"]
  /\ latest' = [latest EXCEPT ![l] = v]
  /\ ret' = "EOK"
  /\ UNCHANGED writeBack

\* The holder of a reference changes the data: ext4_bcache_set_dirty.
SetDirty(l, v) ==
  /\ buf[l].ref > 0 /\ role[l] = "meta"
  /\ buf' = [buf EXCEPT ![l].up = TRUE, ![l].dirty = TRUE, ![l].data = v]
  /\ latest' = [latest EXCEPT ![l] = v]
  /\ UNCHANGED <<lru, dirtyList, writeBack, disk, role, lost, ret>>

\* The journal marks a buffer it holds: BC_FLUSH, or BC_FLUSH and BC_TMP.
SetFlags(l, tmp) ==
  /\ buf[l].ref > 0
  /\ buf' = [buf EXCEPT ![l].flush = TRUE, ![l].tmp = @ \/ tmp]
  /\ UNCHANGED <<lru, dirtyList, writeBack, disk, role, latest, lost, ret>>

----------------------------------------------------------------------------
(* ext4_block_set: ext4_bcache_free *)

\* The last reference to a dirty buffer goes: does its write wait?
Delays(b) == writeBack > 0 /\ ~b.flush /\ ~b.tmp

\* A mutant of SetLast: a buffer whose write is delayed is not put on the list.
SetLastForgets(l, w) ==
  LET b == buf[l]
      flushes == b.dirty /\ b.up /\ ~Delays(b)
      drops == ~b.up \/ b.tmp
  IN  /\ w # "EOK" => flushes
      /\ disk' = IF flushes /\ w = "EOK" THEN Written({l}) ELSE disk
      /\ lost' = lost \cup (IF ~flushes THEN {} ELSE IF w = "EOK" THEN Unstored({l})
                           ELSE IF drops THEN {l} ELSE {})
      /\ buf' = [buf EXCEPT ![l] =
           IF drops THEN NewBuf
           ELSE [b EXCEPT !.ref = 0, !.flush = @ /\ ~flushes,
                          !.dirty = @ /\ ~(flushes /\ w = "EOK")]]
      /\ lru' = IF drops THEN Without(lru, {l}) ELSE lru
      /\ dirtyList' = Without(dirtyList, {l})

\* ext4_bcache_free of the last reference; w is the result of the write, which
\* nobody looks at. A flushed or dropped buffer leaves the dirty list, one whose
\* write is delayed becomes its head.
SetLast(l, w) ==
  LET b == buf[l]
      flushes == b.dirty /\ b.up /\ ~Delays(b)
      drops == ~b.up \/ b.tmp
  IN  /\ w # "EOK" => flushes
      /\ disk' = IF flushes /\ w = "EOK" THEN Written({l}) ELSE disk
      /\ lost' = lost \cup (IF ~flushes THEN {} ELSE IF w = "EOK" THEN Unstored({l})
                           ELSE IF drops THEN {l} ELSE {})
      /\ buf' = [buf EXCEPT ![l] =
           IF drops THEN NewBuf
           ELSE [b EXCEPT !.ref = 0, !.flush = @ /\ ~flushes,
                          !.dirty = @ /\ ~(flushes /\ w = "EOK")]]
      /\ lru' = IF drops THEN Without(lru, {l}) ELSE lru
      /\ dirtyList' =
           IF b.dirty /\ b.up /\ ~flushes THEN <<l>> \o Without(dirtyList, {l})
           ELSE Without(dirtyList, {l})

\* ext4_block_set: always EOK.
Set(l, w) ==
  /\ buf[l].ref > 0
  /\ \/ /\ buf[l].ref = 1
        /\ SetLast(l, w)
     \/ /\ buf[l].ref > 1 /\ w = "EOK"
        /\ buf' = [buf EXCEPT ![l].ref = @ - 1]
        /\ UNCHANGED <<lru, dirtyList, disk, lost>>
  /\ ret' = "EOK"
  /\ UNCHANGED <<writeBack, role, latest>>

----------------------------------------------------------------------------
(* Flushing *)

\* ext4_block_flush_lba: find_get, flush_buf, bcache_free. Where the first write
\* fails (w), bcache_free puts the buffer back on the list or tries again (again).
FlushLba(l, w, again) ==
  LET b == buf[l]
      flushes == b.dirty /\ b.up
      held == b.ref > 0
      retries == flushes /\ w # "EOK" /\ ~held /\ ~Delays(b)
      clean == flushes /\ (w = "EOK" \/ (retries /\ again = "EOK"))
      drops == ~held /\ (~b.up \/ b.tmp)
  IN  /\ Cached(l)
      /\ w # "EOK" => flushes
      /\ again # "EOK" => retries
      /\ disk' = IF clean THEN Written({l}) ELSE disk
      /\ lost' = lost \cup (IF clean THEN Unstored({l}) ELSE IF flushes /\ drops THEN {l} ELSE {})
      /\ buf' = [buf EXCEPT ![l] =
           IF drops THEN NewBuf
           ELSE [b EXCEPT !.dirty = @ /\ ~clean, !.flush = @ /\ ~retries]]
      /\ lru' = IF held THEN lru
                ELSE IF drops THEN Without(lru, {l})
                ELSE Append(Without(lru, {l}), l)
      /\ dirtyList' =
           IF flushes /\ ~clean /\ ~retries /\ ~held THEN <<l>> \o Without(dirtyList, {l})
           ELSE Without(dirtyList, {l})
      /\ ret' = w
      /\ UNCHANGED <<writeBack, role, latest>>

\* ext4_block_cache_flush wrote the first k members of the list and stopped at a
\* write that failed, if k is not all of them.
FlushFirst(k) ==
  LET S == ToSet(SubSeq(dirtyList, 1, k))
  IN  /\ k < Len(dirtyList) => IoFails
      /\ disk' = Written(S)
      /\ lost' = lost \cup Unstored(S)
      /\ buf' = [l \in Lbas |-> IF l \in S THEN [buf[l] EXCEPT !.dirty = FALSE] ELSE buf[l]]
      /\ dirtyList' = SubSeq(dirtyList, k + 1, Len(dirtyList))
      /\ ret' = IF k = Len(dirtyList) THEN "EOK" ELSE "EIO"

\* ext4_block_cache_flush
CacheFlush ==
  /\ \E k \in 0 .. Len(dirtyList) : FlushFirst(k)
  /\ UNCHANGED <<lru, writeBack, role, latest>>

\* ext4_block_cache_write_back(bdev, 1)
WriteBackOn ==
  /\ writeBack < MaxBack
  /\ writeBack' = writeBack + 1
  /\ ret' = "EOK"
  /\ UNCHANGED <<buf, lru, dirtyList, disk, role, latest, lost>>

\* ext4_block_cache_write_back(bdev, 0): the outermost one flushes.
WriteBackOff ==
  /\ writeBack' = IF writeBack > 0 THEN writeBack - 1 ELSE 0
  /\ \/ /\ writeBack' = 0
        /\ \E k \in 0 .. Len(dirtyList) : FlushFirst(k)
     \/ /\ writeBack' > 0
        /\ ret' = "EOK"
        /\ UNCHANGED <<buf, dirtyList, disk, lost>>
  /\ UNCHANGED <<lru, role, latest>>

\* ext4_umount, with no block held: ext4_bcache_cleanup flushes every buffer,
\* whatever the writes return, and drops it.
Cleanup(failed) ==
  /\ \A l \in Lbas : buf[l].ref = 0
  /\ failed \subseteq {l \in Lbas : buf[l].dirty}
  /\ failed # {} => IoFails
  /\ disk' = Written({l \in Lbas : buf[l].dirty} \ failed)
  /\ lost' = lost \cup failed \cup Unstored({l \in Lbas : buf[l].dirty})
  /\ buf' = [l \in Lbas |-> NewBuf]
  /\ lru' = <<>>
  /\ dirtyList' = <<>>
  /\ ret' = "EOK"
  /\ UNCHANGED <<writeBack, role, latest>>

----------------------------------------------------------------------------
(* Blocks change hands *)

\* A mutant: freeing a block leaves its buffer alone.
VisitsNone(from, n) == {}

\* ext4_bcache_invalidate_lba starts at the buffer of `from' itself: if that
\* block is not cached, none of the range is visited.
Visited(from, n) ==
  IF Cached(from) THEN {l \in from .. from + n - 1 : Cached(l)} ELSE {}

\* A mutant: an invalidated buffer stays on the dirty list.
FreeBlocksKeepsList(from, n) ==
  LET range == from .. from + n - 1
      S == Visited(from, n)
  IN  /\ range \subseteq {l \in Lbas : role[l] = "meta" /\ buf[l].ref = 0}
      /\ buf' = [l \in Lbas |->
           IF l \in S THEN [buf[l] EXCEPT !.up = FALSE, !.dirty = FALSE] ELSE buf[l]]
      /\ role' = [l \in Lbas |-> IF l \in range THEN "free" ELSE role[l]]
      /\ UNCHANGED <<lru, dirtyList, writeBack, disk, latest, lost, ret>>

\* ext4_balloc_free_block(s) without a journal: metadata blocks that nobody
\* holds are freed and their buffers invalidated.
FreeBlocks(from, n) ==
  LET range == from .. from + n - 1
      S == Visited(from, n)
  IN  /\ range \subseteq {l \in Lbas : role[l] = "meta" /\ buf[l].ref = 0}
      /\ buf' = [l \in Lbas |->
           IF l \in S THEN [buf[l] EXCEPT !.up = FALSE, !.dirty = FALSE] ELSE buf[l]]
      /\ dirtyList' = Without(dirtyList, S)
      /\ role' = [l \in Lbas |-> IF l \in range THEN "free" ELSE role[l]]
      /\ lost' = IF Cached(from) THEN lost ELSE lost \cup {l \in range : buf[l].dirty}
      /\ UNCHANGED <<lru, writeBack, disk, latest, ret>>

\* ext4_fwrite of a whole block, free until now or already of a file:
\* ext4_blocks_set_direct, past the cache.
WriteDirect(l, v) ==
  /\ role[l] # "meta"
  /\ disk' = IF Stores THEN [disk EXCEPT ![l] = v] ELSE disk
  /\ role' = [role EXCEPT ![l] = "data"]
  /\ latest' = [latest EXCEPT ![l] = v]
  /\ lost' = lost \cup Unstored({l})
  /\ ret' = "EOK"
  /\ UNCHANGED <<buf, lru, dirtyList, writeBack>>

\* A data block of a file is freed: it has no buffer of its own to invalidate,
\* and one left from an earlier use is invalidated.
FreeData(l) ==
  /\ role[l] = "data"
  /\ buf' = [buf EXCEPT ![l].up = FALSE, ![l].dirty = FALSE]
  /\ dirtyList' = Without(dirtyList, {l})
  /\ role' = [role EXCEPT ![l] = "free"]
  /\ UNCHANGED <<lru, writeBack, disk, latest, lost, ret>>

Next ==
  \/ \E l \in Lbas :
       \/ Get(l) \/ ShakeFails(l) \/ GetReadFails(l) \/ FreeData(l)
       \/ \E v \in Values : GetNoread(l, v) \/ SetDirty(l, v) \/ WriteDirect(l, v)
       \/ \E tmp \in BOOLEAN : SetFlags(l, tmp)
       \/ \E w \in Results : Set(l, w) \/ \E again \in Results : FlushLba(l, w, again)
       \/ \E n \in 1 .. MaxRange : FreeBlocks(l, n)
  \/ CacheFlush \/ WriteBackOn \/ WriteBackOff
  \/ \E failed \in SUBSET Lbas : Cleanup(failed)

Spec == Init /\ [][Next]_vars

----------------------------------------------------------------------------
(* Properties *)

\* The types of the state: each block is in the LRU order and on the dirty list
\* at most once, only cached blocks are on the list, and the write-back counter
\* never goes below zero.
TypeOK ==
  /\ buf \in [Lbas -> Bufs]
  /\ lru \in Seq(Lbas) /\ IsInjective(lru)
  /\ dirtyList \in Seq(Lbas) /\ IsInjective(dirtyList) /\ ToSet(dirtyList) \subseteq ToSet(lru)
  /\ \A l \in Lbas : ~Cached(l) => buf[l] = NewBuf
  /\ writeBack \in 0 .. MaxBack
  /\ disk \in [Lbas -> Values] /\ latest \in [Lbas -> Values]
  /\ role \in [Lbas -> {"meta", "data", "free"}]
  /\ lost \subseteq Lbas
  /\ ret \in {"EOK", "EIO"}

\* The buffers that wait for the flush: dirty, and nobody holds them.
Waiting == {l \in Lbas : buf[l].dirty /\ buf[l].ref = 0}

\* Every member of dirty_list is dirty, up to date and not referenced ("ready to
\* be flushed"). The loop of ext4_block_cache_flush depends on it: flush_buf
\* leaves any other buffer at the head of the list, and the loop never ends.
ListFlushable == \A l \in ToSet(dirtyList) : l \in Waiting /\ buf[l].up

\* What is read of block l through the path its role gives it: metadata in the buffer
\* if it is up to date and on the device otherwise, file data on the device.
ReadsLatest(l) ==
  /\ role[l] = "meta" => latest[l] = IF buf[l].up THEN buf[l].data ELSE disk[l]
  /\ role[l] = "data" => latest[l] = disk[l]

\* Whoever reads a block sees what was last written to it, and no late flush overwrites
\* file data; also while reads and writes fail, and whatever happens to other blocks,
\* which may be lost in the ways `lost' names (ext4_bcache.c:176-197, 263-275).
LatestSeen == \A l \in Lbas \ lost : ReadsLatest(l)

\* The same of every block, which the code does not keep.
LatestAlways == \A l \in Lbas : ReadsLatest(l)

\* The cache outgrows bc->cnt only when every buffer in it is referenced.
GrowsOnlyHeld ==
  [][Len(lru') > Len(lru) /\ Len(lru') > cnt => \A l \in ToSet(lru') : buf'[l].ref > 0]_vars

\* When the outermost ext4_block_cache_write_back(bdev, 0) returns EOK nothing
\* waits any more ("all delayed cache buffers will be flushed").
AllDelayedFlushed ==
  [][writeBack > 0 /\ writeBack' = 0 /\ ret' = "EOK" => Waiting' = {}]_vars
=============================================================================
