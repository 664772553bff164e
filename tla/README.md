# Verification of ByteOS (C): allocators, block driver and the ext4 file system

ByteOS is a small kernel in C for riscv64 and aarch64 under QEMU, with the lwext4
file system built in. This directory holds TLA+ models of its core, the TLC
configurations that check them on small instances, and TLAPS proofs for every value
of the constants. Paths are relative to the repository (`src/` is its root), line
numbers are those of this commit; files named `ext4*.c` are under
`src/libs/lwext4/src/`.

    cd tla
    tlc -workers 2 -config MCHeapAlloc.cfg MCHeapAlloc     # one run
    tlapm BuddyProofs.tla                                  # one proof module

`PROJECT.json` lists components, runs, the mutants that show each property can
fail, the source lines of each definition, the hazards and the theorems.

## 1. The system

One hart runs everything; interrupts are never enabled. The concurrency there is lies
between the driver and the virtio device, between the processor's store buffer
(and the compiler) and memory, and between calls of different users of the file API:
two handles of a file, a directory stream beside changes of the directory. A crash
may come anywhere. `boot_main` gives the array `heap` to the heap allocator, reads
the device tree and calls `cmain`, which gives the board's memory to the frame
allocator, runs the constructors (one registers the block device with lwext4),
probes the drivers the tree names, mounts the file system read-only, runs
`ext4_recover`, which replays the journal *and writes* even so, turns write-back
mode on and reads some files.

| Component | State | Operations | Talks to |
|---|---|---|---|
| Buddy system (`libs/buddy_alloc`) | an array of address-sorted free lists | `add_range`, `add_node`, `alloc_node` | both allocators |
| Heap allocator (same file) | `heap_buddy`, a header in front of each block | `add_heap_range`, `malloc`, `calloc`, `free`, `free_len` | every user of memory |
| Frame allocator (same file) | `page_buddy` | `add_frame_range`, `kalloc` | `cmain`, `virtio_block_probe` |
| virtio-blk driver (`drivers/block`) | descriptor table, avail ring, per-request status bytes | `virtio_block_probe`, `virtio_disk_rw` | the device, through memory and registers |
| Block device glue (`libs/lwext4/lwext4.c`) | none | `file_dev_bread`, `file_dev_bwrite` | driver below, lwext4 above |
| Block cache (`ext4_bcache.c`, `ext4_blockdev.c`) | buffers with flags and reference counts, LRU tree, dirty list, write-back counter | get, set, flush, shake, invalidate, write-back on/off, direct and byte access | file system above, glue below, journal by callback |
| Transactions (`ext4_trans.c`) | a pointer to the running transaction | set dirty, get, revoke | cache, journal |
| Journal (`ext4_journal.c`) | log head and tail, checkpoint queue, block records, revoke tree | start, commit, checkpoint, stop, recover | cache, in both directions |
| Allocators (`ext4_balloc.c`, `ext4_ialloc.c`, `ext4_bitmap.c`) | bitmaps, counters of groups and superblock | allocate and free blocks and inodes | file system core |
| File system core (`ext4_fs.c`, `ext4_inode.c`) | inodes and their block maps | append, truncate, set up a group, link counts | allocators, extents |
| Extent tree (`ext4_extent.c`) | a tree in the inode and in blocks | look up, insert, split, grow, convert, remove | allocators |
| Directories (`ext4_dir.c`, `ext4_dir_idx.c`) | entries in blocks, a hash index of two levels | find, add, remove, split, iterate | file system core |
| Mount points and file API (`ext4.c`) | mount table, handles, streams | open, read, write, seek, truncate, link, rename, remove, list | everything above |
| Xattrs, mkfs, MBR, hashes, checksums | layouts on disk | | not used by the kernel, or pure |
| Device tree parser (`libs/smoldtb`) | fixed node and property pools, a linked tree | `dtb_init`, lookups | boot, probing |
| Driver model, serial, clock, arch code, C library | little or none | probe, put a character, ... | hardware |

What is hard in this code:

* **Address arithmetic.** `add_range` cuts a range by the bits of its two ends;
  `malloc` takes a power of two, `free` returns another length. That no byte is
  ever on two lists is a property of sequences of calls.
* **A device running beside the driver.** Store order, the fence, the 16-bit
  index, the late used entry and interrupt, a status byte the compiler may keep
  in a register.
* **Nesting and error paths.** References, write-back mode, the flags the journal
  sets, a write that fails while the last reference goes, and in the file API calls
  that leave by `goto` in the middle of a bracket.
* **Crash and replay.** Commit blocks, checkpointing in any order, revocation against
  reuse of a block, a log that wraps and fills up.
* **Partial failure.** Every operation of the file system may run out of blocks
  after it has changed something: indirect blocks, tree splits, directory entries.
* **Trees and layouts.** Extent trees and directory indexes whose inner entries must
  follow every change below; entries carved out of each other's slack.

## 2. Modules

| Module | What it is | Source |
|---|---|---|
| `Buddy` | free lists, `add_range` (one step per turn of its loop), the search of `alloc_node` | `buddy_alloc.c:27-146` |
| `HeapAlloc` | `malloc`, `calloc`, `free` on it, from `boot_main` on | `buddy_alloc.c:113-119, 181-229` |
| `FrameAlloc` | `add_frame_range`, `kalloc` on it, from `cmain` on | `buddy_alloc.c:148-170` |
| `BlockDev` | abstract: one request at a time on an array of sectors | what callers of `virtio_disk_rw` rely on |
| `VirtioBlk` | `virtio_disk_rw` step by step, and the device (external); refines `BlockDev` | `virtio-blk.c:177-303` |
| `BlockCache` | buffers, LRU order, dirty list, write-back mode, failing I/O | `ext4_bcache.c`, `ext4_blockdev.c`, `ext4_trans.c` |
| `Journal` | transactions, log, checkpointing, crash, recovery | `ext4_journal.c`, `ext4_trans.c`, `ext4.c` |
| `Alloc` | block and inode allocation on bitmaps and counters | `ext4_balloc.c`, `ext4_ialloc.c`, `ext4_bitmap.c`, parts of `ext4_fs.c` |
| `BlockMap` | inodes with indirect blocks: append, truncate, release | `ext4_fs.c:898-1132, 1423-1655` |
| `Extents` | the extent tree | `ext4_extent.c` |
| `DirBlock`, `DirIndex`, `Directory` | entries of one block; the hash index; a directory and a stream on it | `ext4_dir.c`, `ext4_dir_idx.c`, `ext4.c` |
| `Namespace` | names, directories, link counts, recursive removal | `ext4.c`, `ext4_fs.c` |
| `FileIo` | read, write, seek, truncate through two handles, down to bytes | `ext4.c:1540-1990`, `ext4_blockdev.c` |
| `Data`, `DataLemmas` | removal from a list and sums as recursive functions; facts on them, on least elements, division and cardinalities | `ext4_bcache.h:172-201` (`Without`) |
| `BuddyProofs` | what one turn of `add_range` and one `alloc_node` preserve, for every unit and number of lists; on that, the theorems on `HeapAlloc` and `FrameAlloc` | |
| `BufferProofs` | the theorems on `BlockCache` and `Journal`, the two that hold dirty buffers | |
| `VirtioBlkProofs`, `AllocProofs`, `NamespaceProofs`, `FileIoProofs`, `BlockMapProofs` | the theorems on the module of that name | |
| `MC*` | instances for TLC | |

`HeapAlloc` and `FrameAlloc` extend `Buddy`, and `BuddyProofs` extends both, for which
the second names its state and actions differently (`stage`, `FrameInit`, ...), as
`Journal` does (`JournalInit`, ...) for `BufferProofs`, which extends it and `BlockCache`; the
other proof modules extend their component and `DataLemmas`;
`Directory` extends `DirIndex`, which extends `DirBlock`. The modules of the file
system meet at interfaces rather than in one large state: what a lower module
guarantees is the form in which the upper one uses it. `Namespace` takes a directory
as a function from names to inodes, which `FindsNames` of `Directory` says of the
blocks; `FileIo` takes the map of a file as a sequence of blocks, which `MapsRight`
and `MapsFile` say of the trees; `Extents` and `BlockMap` take any allocator that
gives a free block once, which is `BlocksAccounted` of `Alloc`; `Journal` takes a
buffer cache that writes dirty buffers in any order.

**Calls and steps.** A call of the file API holds the lock of the mount point, and one
hart runs it, so it is one step unless its intermediate states matter: loops that
may fail, run long or be cut short by a crash take one step per turn
(`BlockMap`, `FileIo`, the commit of `Journal`, truncation in `Extents`, `ext4_dir_rm`
in `Namespace`, the inode search in `Alloc`).

**Flaws.** Some behaviours of the code are plainly not intended and destroy what later
steps rely on (section 5 describes each). They are modelled as the code does them,
and the history variable `flawed` of `Journal`, `Extents` and `Directory` records by
name when one has come up. A behaviour ends there unless its name is in the constant
`Explored`, and the properties speak of states whose flaws are all explored: what a
passing run shows is that these flaws are the *only* ways to lose the
property within the bounds. Adding a name to `Explored` in a copy of the
configuration gives TLC's counterexample for it (for `mixed`, `prepend`, `third`,
`restore`, `nospace`, `hole` in `MCExtents.cfg`; `abort`, `full`, `restart`, `revoke`
in `MCJournal.cfg`; `whole` in `MCDirectory.cfg`). `intact` in `Namespace` plays the same
part for two flaws, `failed` in `FileIo` for one, and `lost` in `BlockCache` names the
blocks a write of which was lost, while the rest of the cache goes on.

### Buddy, HeapAlloc, FrameAlloc

`add_node` keeps a list sorted and nothing merges blocks, so list `i` is the set
`header[i]` of its addresses: its head is the minimum and the link word of a
block is the next larger member. `addr`, `end` and `index` are the locals of
`add_range`. `pc` (in `FrameAlloc`, `stage`) says who is inside it, so the properties are checked between
any two turns of the loop, not just between calls.

`tagged` is the set of addresses `a` where the word at `a` equals `a`, which is
what the assertion of `free_len` on `ptr_validate` looks for; `add_node` and the
`memset` of `malloc` destroy such words. `released` is a history variable:
pointers freed whose address was not handed out again.

When no list can serve a request, `alloc_node` walks past the array of lists.
What follows is undefined, so the model stops in `"runs_off"` there; this is
why these runs do not check for deadlock. Sizes whose level lies beyond the
array or below 8 bytes are excluded by `SizesAssumption`. A board of `FrameAlloc` is a
range of memory and the range of the kernel image; `OutsideImage` compares what is handed
out with both, while `FrameStart` only has what the code looks at, the end of the image. `FrameAlloc` also keeps the
first word of each page handed out (`NextWord`), because the driver uses its pages
without clearing them.

### VirtioBlk and BlockDev

The stores of the descriptors, request header, status byte and ring entry wait
in `stores` and reach memory in any order; the fence before the index (a guard of
`Publish`) waits for them all. The device is external: it may take a chain as soon
as the index moved, must take it once notified, moves one sector per step, writes
the status byte, and only later the used entry and interrupt. The bookkeeping
fields of `info[]` that nothing reads are left out. `Reloads` says whether the
compiler loads the status byte on each turn of the poll; the build uses `-O2`, the
byte is not `volatile` and `nop()` does not clobber memory, so C allows both.

`VirtioBlk` implements `BlockDev`: `phase` is computed from `pc`, `answer` is the
status byte of the finished request, `req`, `buffer` and `disk` are themselves.

### BlockCache

One call of the cache's interface is one step. `lru` is the LRU tree as a sequence
from the lowest `lru_id`, `dirtyList` the dirty list from its head, `writeBack` the
counter `cache_write_back`, `role` what the file system uses a block for, `latest`
and `lost` history variables. A block enters `lost` when `bwrite` returns EOK and stores
nothing, when a dirty buffer is dropped although its write failed, and when a dirty buffer
is freed in a range whose first block is not cached, and stays in it; `LatestSeen` speaks of
all other blocks, `LatestAlways` (kept by no run) of all. `Acquire` is the common part of `ext4_block_get` and
`ext4_block_get_noread`: shake, look up or create, take a reference.

Left out: `ENXIO` and `ENOMEM` (the allocator never returns NULL), the `end_write`
callback (it is in `Journal`), the width of `lru_id`. `GetNoread` stands for a
caller that fills the block and marks it dirty, as all callers do. `FreeBlocks` is
`ext4_balloc_free_blocks` without a journal; its caller holds no reference.
`Stores = FALSE` is this repository's `file_dev_bwrite`, which writes nothing.

### Journal

The device is `home` (the blocks at their place), `log` and `sb` (start and sequence of
the journal superblock); `j` is everything in memory: the transactions with their
queues, the block records with owner and unwritten copies, the dirty buffers with
their `end_write_arg`. A step queues its writes in `wq`, `Persist` lets them reach the
device one by one and in order, and `Crash` may come between any two: memory and `wq`
are lost. The contents of a block is the number of the transaction that wrote it.

`CommitBegin`, `WriteBlock`, `RoomFlush`/`RoomEnd` (the log is full: flush a
transaction) and `CommitEnd` are `__jbd_journal_commit_trans`; a flush or an eviction of
any dirty buffer runs `jbd_trans_end_write`; `Recover` is the scan, revoke and replay
passes of `jbd_iterate_log` and the new superblock. `safe` is what acknowledged
transactions make of each block, `want` the same with the running one. `WriteData`
writes file data directly into a block that a transaction freed.

### Alloc

Bitmaps are the sets of bits that are set. `FindClear` is `ext4_bmap_bit_find_clr`
with what it returns for a bit before the first whole byte, `Search` the order in which
`ext4_balloc_alloc_block` looks (the goal, up to the next multiple of 64, the rest of the
group, the other groups), `FreeBlocks` the run that crosses groups, `SearchNext`,
`SearchTake` and `SearchRewind` the turns of `ext4_ialloc_alloc_inode`. A group whose
bitmaps are not initialised is set up at first use. `held`, `dirs` and `files` are
history.

### BlockMap

`direct`, `indirect` and `content` are the pointers in the inode and in indirect
blocks; `hand` is the block an append has allocated and not yet linked. An append takes
a step per level, and every allocation may fail; truncation frees one data block per
step and the release frees the trees level by level. `file` is the history of what was
appended.

### Extents

A node is a sequence of entries; an index is an entry of length 0. Lookups, insertion
with its three merges, the split of a chain of full nodes and growth by a level,
`ext4_ext_split_extent_at` and the conversion of preallocated blocks are operators on
the tree; allocation, writing into a hole or a preallocated block and truncation are
actions. Truncation keeps its path and level as state, one step per leaf or index.
Files start empty, preallocated, or with a hole, as other systems leave them.

### DirBlock, DirIndex, Directory

A block is a function from offsets to what lies there: a header (length, name, alive
or not) or bytes of a name, so that an entry misread from the middle of another one
shows. `DirBlock` has search, insertion into slack, removal with merging and the
checksum entry; `DirIndex` the root, nodes and leaves of the hash index, lookup along
equal hashes (a hash whose lowest bit is set continues the leaf before), and the splits of leaf, node
and root; `Directory` the calls and one stream, which keeps nothing but an offset between
two calls. Names have lengths and hashes given by constants.

When a stream's offset comes to lie inside another entry, bytes are read as a header:
the stream is then `Stray` and nothing is expected of it; likewise after a leaf split
has moved names under it.

### Namespace

`fs` holds kind, link count, entries and `..` of each inode. Open with `O_CREAT`
walks a path and creates what is missing (`Turn` is one component); `full` names the
component and the entry (the name, `.` or `..`) that finds no room. The kernel mounts
without starting the journal, so what a failed call has changed stays changed.
`~Inside` in `Frename` is a precondition: nobody moves a directory below itself, and the
code does not check it. `indexed` says whether the file system has a directory index;
both kinds are initial states. `intact` becomes FALSE in two events, and the behaviour ends
there: a mkdir fails and leaves its name on the inode it frees, and `ext4_dir_rm` frees a
file that still has a name elsewhere. The name is left (`"LEFT"`) on an indexed file system
whenever the blocks of the new directory cannot be had (`ext4.c:233-235`: no clean-up), and on
the others if the component is not the last of the path, since the entry is then removed by the
length of the rest of the path (`ext4.c:244`, 250). A failure for the new name itself, and one
for `.` or `..` of a last component without an index, is undone and checked.

### FileIo

A byte written by call `k` from position `j` of its buffer is the pair `<<k, j>>`.
`Fread`, `Fwrite` run through the unaligned head, the loop that gathers contiguous blocks
into a run, the flush of a run and the unaligned tail; `Cut` is the splitting of a
transfer into sectors by `ext4_block_readbytes` and `writebytes`. Blocks run out
anywhere, transfers fail anywhere. Behaviours stop after a failed write (`failed`): write-back
mode may stay on and the size may be uncorrected then. `InFile` is a precondition of
callers: the other handle has not truncated the file below this one's position, which
the code does not check either. Holes and symbolic links kept in the inode are left out.

## 3. Runs

| Run | Instance | Distinct states | Shows |
|---|---|---|---|
| `heap` | 580 bytes at an unaligned address, unit 32, header 16, sizes 0, 40, 70 | 41618 | no byte is handed out twice or lost by a split, at every turn of `add_range`; a second free does no harm; every call returns |
| `frames` | 11 boards, counts 1, 3, 8, four calls | 8033 | pages are disjoint, inside the memory and outside the kernel image |
| `virtio` | 3 descriptors, index modulo 6, 2 sectors, failing device | 919200 | the queue's soundness, termination and the refinement of `BlockDev` |
| `cache` | 3 blocks, room for 2, two references, ranges of 2, write-back nested twice | 574852 | the cache outgrows its bound only when all is held, the end of write-back mode flushes all |
| `cache_io_errors` | 2 blocks, room for 1, two contents, two references, ranges of 2, failing I/O | 270852 | whatever is on the dirty list can be flushed, so the flush ends; every reader sees the last write, except of the blocks in `lost` |
| `journal` | 2 blocks, log of 8, 4 transactions, 2 crashes, 1 reuse | 8.9 M | atomicity over crashes, also one during recovery, no lost or stale copy, the log always finds room |
| `alloc` | two groups of 12 and 7 blocks, 3 inodes, "bytes" of 3 bits | 133613 | bitmaps and counters agree, ENOSPC only on a full disk, the inode search ends |
| `blockmap` | 1 direct block, fan-out 2, 17 blocks, half blocks | 140898 | pointers, allocated blocks and the file agree at every step, under any failure |
| `extents` | root of 1, nodes of 2, file of 5, 10 blocks | 72402 | the tree maps every block where it was put, loses and doubles none, keeps its order; truncation ends |
| `dir` | blocks of 32 bytes, 6 blocks, 4 names (two with one hash, one longer) | 146791 | blocks stay well formed, lookups are exact, listings complete |
| `namespace` | 4 inodes, 2 names, paths of up to 3 components, with and without directory index | 58234 | link counts, names and inodes agree after every call, also when entries find no room, while the tree is `intact`; recursive removal ends |
| `fileio` | 4-byte blocks of two sectors, 3 blocks, 2 handles, sizes 3 and 9, 2 changes | 225244 | contents, reads, confinement to the file's blocks, write-back mode, termination |

Each takes at most about two and a half minutes. Every property has a mutant in
`PROJECT.json`: a plausible bug in the code it is about, under which TLC finds the
property violated in the same run.

Why the bounds are enough. The heap has 17 whole units between two unaligned
ends, so a range is cut at several levels from both sides, blocks of two levels
are split, and the three sizes give blocks of half a unit, two units and four
units with and without a tail to release; the heap can be exhausted. The memory
maps cover an image at the start, inside, below and above the memory, one that ends a page
or less before the memory does, unaligned ends, and a range smaller than a page. Six requests wrap the index of the virtio
queue twice round its ring, and a request in flight is the only one (one caller),
so more descriptors add nothing. In the cache one block more than it has room for
makes a victim necessary, three make the choice of the victim matter; with two blocks and room for one a range of two has
either block in the cache, and two values tell stale from fresh (`cache`, whose properties do
not speak of contents, has one); the write-back counter and the reference count behave alike
from 2 on. A log of 8 blocks holds two transactions of two blocks and no third, so
that the log wraps and fills while older copies are unwritten; two blocks let a
crash cut a transaction in two; four transactions let a block be logged, freed, reused and
logged again. Two groups, the second shorter and not yet set up, with goals at every
block reach both ends of each search. Fan-out 2 and one direct block put all three
levels of indirect blocks below 16 blocks, and the 17th is the one that is refused.
Nodes of one and two entries make a file of five blocks with holes reach a tree of three
levels and splits on two of them. The blocks of the directory hold two names, so
that leaves and the node split, a hash continues into the next leaf and, with checksums,
the two-level index is rejected. Four inodes nest directories three deep beside a
file with two names. Blocks of 4 bytes in sectors of 2 give heads, runs, tails and
sectors in all combinations with sizes 3 and 9.

`dir` and `cache` have a `VIEW`. In `dir` it hides what lies outside the entries of a block,
which only a stream standing there reads (the view keeps it then); in `cache` the data of
a buffer that is not up to date and the last contents of a free block, which are
overwritten before anything reads them. `dir` also has a symmetry: two names with equal
length and hash are interchangeable. Both runs check safety only.

Deadlock is checked in `virtio`, `alloc`, `blockmap`, `cache` and `cache_io_errors`. Elsewhere the model may
stop: at an exhausted heap, at a bound on calls, transactions or crashes, or at a flaw.

Fairness is weak fairness of the steps of a call that is running: the one hart does
not stop inside a call and nothing preempts it (`HeapAlloc`, `VirtioBlk`, `Namespace`
for `ext4_dir_rm`, `FileIo`, `Extents` for truncation, `Alloc` for the inode search). In
`VirtioBlk` the device serves a chain once it was *notified* (an unnotified device owes
nothing), moves its sectors and answers. Callers owe nothing anywhere.

Definitions no run lists: the `TypeOK` of most modules (documentation of the state; for
the heap, the cache, the driver, the file API and the block map it is proved), and `NoDangling`, `ReturnMeansDone`, `ReleasedWhole`,
`ExhaustionAnswered`, `AvailPageClear` and `LatestAlways` state what the code does *not* keep.

## 4. Proofs

Nine of the components have theorems. 40 of them
are listed in `PROJECT.json`; 27 of these state a property that a run checks. Each is
`Spec => []P`, or `Spec => [][A]_vars` for an action property, by one inductive
invariant `IInv` of the component, with one lemma or step per action. TLC has checked
every `IInv` as an invariant of the component's run.

| Module | Theorems, by the property they state |
|---|---|
| `BuddyProofs` | of the heap: `TypeOK`, `HeldApart`, `FreeOnce`, `InsideHeap`, `Aligned`, `IndexInBounds`, `LiveTagged`, `StaleFreeHarmless`, and the action property `CutConserves`; of the frames: `PagesApart`, `OutsideImage`, `PageAligned` |
| `VirtioBlkProofs` | `TypeOK`, `DeviceSeesWholeChain`, `NoDescriptorLost`, `NeverPanics`, `ReturnMeansAnswered`, and the refinement `ImplementsBlockDev` |
| `BufferProofs` | of the cache: `TypeOK`, `ListFlushable`, `LatestSeen`, and the action properties `AllDelayedFlushed`, `GrowsOnlyHeld`; of the journal: `Unwritten`, `RoomFound`, `Readable`, and that a stop leaves every block in use at its place (`JournalStopsClean`) |
| `AllocProofs` | `BlocksAccounted`, `InodesAccounted`, `CountsHold`, and the action property `FullWhenTold` |
| `NamespaceProofs` | `LinksMatch`, `NamedOnce` |
| `FileIoProofs` | `TypeOK`, `ContentRight`, `ReadRight`, `WriteBackEnds`, and the action property `Confined` |
| `BlockMapProofs` | `TypeOK`, `Accounted`, `MapsFile` |

### Assumptions

On the constants, all evaluated by TLC for the instances: `UnitAssumption` (a unit of at
least 8 bytes, at least one list), `PowerAssumption` (the facts about powers of two used,
which the provers cannot derive), `HeapAssumption`/`MapsAssumption` (the memory ends below
the size of one block more than the lists describe, which is what keeps `add_range` in
the array), `SizesAssumption`/`CountsAssumption` (requests have a level);
`QueueAssumption` (at least three descriptors, and a queue length that divides the modulus
of the index, as every power of two divides 2^16), `DiskAssumption` (the sectors of a disk
are consecutive); `CacheAssumption` (a cache of at least one buffer); `AllocAssumption` (the
last group has at least one block and one inode, no group has more inodes than
`InodesPerGroup`); `NamespaceAssumption` (finitely many inodes and names, at least one name);
`FileIoAssumption` (a block is one or more whole sectors); `BlockMapAssumption` (finitely
many blocks, none of them block 0, at least one direct pointer, a fan-out and a block size of
at least 1); `JournalAssumption` (a log of at least one block, finitely many journalled blocks).

Some theorems have hypotheses of their own or hold up to a flaw. `OutsideImage` is proved
for boards with `kernel # end`: where the memory ends with the image, `add_frame_range` skips
nothing, as `MCFrameFull` shows. `LatestSeen` is proved without hypotheses, for every device
and every range, but leaves out the blocks in `lost`; with this repository's `file_dev_bwrite`
every block written back is one (`MCCacheGlue`). `AllDelayedFlushed` is proved for `~IoFails`; a failing
write refutes it. `RoomFound` is proved for `Cardinality(Blocks) + 3 < LogLen`: a log longer than
one transaction of all blocks with its descriptor, revocations and commit block. The code
does not check that a transaction fits, and its assertion rests on the sizes mkfs gives
a journal; `MCJournal`, with 2 blocks and a log of 8, meets the hypothesis. `Readable` and
`JournalStopsClean` are proved for `"abort" \notin Explored`, since behind that flaw a buffer
stays invalidated while an older transaction still has to write it, and `MCJournal` explores
no flaw. Up to the first crash they assume nothing else; what a session after a crash starts
from is what recovery leaves, so there they assume `AllOrNothing` of the states with
`ncrash # 0`. The last part of `Unwritten`, that a log block holds the copy, is for states up to
a flaw. The properties of `Namespace` speak of states in which `intact` holds, that is, up to
the first of its two events.

### Allocators of memory

`BuddyProofs` states `BuddyInv(lo, hi)`: types, free blocks pairwise apart, inside
`[lo, hi)` and aligned to their size, and the range being cut inside, apart from
them, with both ends multiples of the block size of the turn. The last part is the
strengthening that makes the rest inductive: only because both ends are multiples of
the block size does a set bit mean that a whole block can be cut off without
passing the other end, and only because the two ends then become multiples of twice
the size does the loop stop before it runs out of lists. `AddRangeKeeps` proves it
for one turn, `AllocNodeKeeps` for taking a block and starting on its rest.
The heap's invariant adds that held blocks are apart from all that, inside the heap and
tagged. `StaleFreeHarmless` needs a second invariant, `StaleInv`: a freed pointer whose
tag word survived either gives an empty range to `add_range` or is the very range whose
first turn has not run yet. `CutConserves` is a sum over the lists; a turn changes one
list by one block or two, and the sum follows from `SumTo` being a recursive function.

### virtio-blk

The types and the property `DeviceSeesWholeChain` are not inductive. Needed besides:
`Ownership` (a call holds three different descriptors and all others are free and clear;
inside `free_chain`, those from `nxt` on), `Formatted` (once the index is published, the
three stores have reached memory), `Lockstep` (the device is at most one
request behind, the ring entry it will read is the running request's first descriptor,
and when it has caught up its status byte is the answer of *this* request) and `Moving`
(the sectors it has moved agree). Lockstep is where the wrap of the index matters: the
next value of a counter that wraps is never the present one. The refinement then has
one lemma per abstract action: the stores of the driver, the fence, the index, the
notification and the interrupt are stutters, a moved sector is `Move`, the end of the
poll is `Complete`.

### Block cache

The invariant is about one block (`Block`): its buffer, its contents on the device, what
was last written to it, its role, and whether it is cached and on the dirty list; around it, that
both lists hold each block once. `ListFlushable` needs all of the first part, since a
buffer on the list must be seen to be dirty, up to date and unreferenced whatever
failed before; `LatestSeen` needs the last part, about blocks of which no write was lost: a
clean buffer agrees with the device, and what is file data or free has no dirty buffer that a
late flush could write. For a range this is where the first block counts: if it is cached, every
dirty buffer of the range is invalidated, and if not, they are in `lost`. The flushes are proved with what `Without` does to a list:
it keeps order and uniqueness and removes exactly the members named. `GrowsOnlyHeld` counts: a
buffer enters only after the shake has taken out as many unreferenced ones as it needs to.

### Block and inode allocation

The properties count; the invariant says for each *bit* what it stands for (metadata,
padding, a block held by a file, or none), that nothing is held in a group not set up
yet, and that each count is the cardinality of the bits it counts. `FindClear` is
proved to find a clear bit when there is one from the first bit on, `FreeBlocks` to
give back exactly the run, across groups. `FullWhenTold` needs `SearchInv`: the groups a
search has passed have no free inode, and after the rewind it has passed all of them.

### Namespace

`LinksMatch` and `NamedOnce` together are not inductive: a removal takes an inode
out of a directory by the name it was found under, but counts down the links of the
directory that `..` leads to. So the invariant (`GoodTree`) says of each directory that its
only name is where its `..` leads, that entries lead to used inodes other than the
root, and that a directory without a name has stopped counting. `ext4_dir_rm` keeps
only the inode it is in; that it goes up into the directory it came from follows from
`Descent`, a chain of directories each named in the one before, whose existence every
turn preserves. Creation is a walk of `Turn`s, each of which keeps `GoodTree`, also when
an entry finds no room, unless its answer is `"LEFT"`.

### File API

What is said of the file between calls (its size, its map and the bytes in its blocks
agree, `Stored`) does not hold inside one: a write may have allocated a block it has not
reached, the size runs ahead of or behind the bytes, the flush of a run comes after its
blocks were counted. The invariant says for each `pc` what is true there: `AtHead`,
`Growing`, `Gathering`, `Flushing`, `Ending`, `Correcting` and `Truncating` relate position,
bytes left, the run gathered so far and the part of the buffer already delivered.
`Delivered` says of a read that the first bytes of its buffer are the file's,
which `ReadRight` needs of the whole of it. `Confined` follows because every transfer
starts in a block of the map and ends in the same block or, for a run, in the last of
consecutive blocks of the map. The lemmas underneath are about one transfer:
`CutIs` and `RunIs` say which bytes a transfer of so many bytes at an
address covers once `ext4_block_readbytes` and `writebytes` have split it into sectors,
`CutReaches` and `RunReaches` that it covers no others, `TransferKeeps` and `MoveKeeps` what
it leaves of the bytes elsewhere.

### Block map

`Accounted` counts the pointers to a block; the invariant says instead that no two
slots reachable from the inode hold the same block (`Once`) and that the blocks in them
are those given to the inode except the one in hand (`Kept`). Neither is inductive without
knowing where an append stands: by `Walking`, `cur` is the pointer at level `lvl` of the way
to the very block it will link, so that giving up at any level leaves indirect blocks
with room and nothing lost. `Mapped` says of *every* logical block that its pointer is the
one appended there, or null behind the end and where a truncation has passed. From it
`EmptyFile` follows: in an empty file the last indirect blocks hold only nulls, which is why
freeing the trees level by level (`Freeing`) strands no data block. The lemmas underneath are
about numbers and ways: `Decode` and `Encode`, that the offsets of a logical block are its
digits in base `Fanout`, so that each path belongs to one block (`SameWay`); `SlotHasBlock`
and `WayOnce`, that each slot of a last indirect block is on the way to one block and no
other; `PutKeeps`, `DropKeeps` and `NodeGrows`, what storing or clearing one pointer and
linking an empty indirect block do to `Once`, and `WaysStay`, that they leave all other ways
alone.

### Journal

`Unwritten` is not inductive: inside one call of `jbd_trans_end_write` the callback completes
the older copies of the block, which may empty transactions, take them off the queue and
purge the queue before the entry's own transaction is counted. The invariant
(`JournalInv`) consists of

* `Linked`: a transaction lists a block exactly if the block's queue of unwritten copies
  names it, what it has written and what it still lists add up to its `data`, the owner of
  a block's record is one of the transactions that have to write it, and so is the
  owner of its buffer. Two parameters name the transactions whose counts are behind for the
  moment, so the same predicate holds at each turn of the callback (`Finishing`) and of the
  revocations at the end of a commit (`Revoking`);
* `Laid`: the transactions lie one behind the other on the ring, the running one last, and
  together are shorter than the log, or as long as it while room is being made. It is stated
  over positions counted on without wrapping, of which the places in the log are the
  remainders (`WrapFacts`: two positions less than a log apart have different places);
* `Logged`: each unwritten copy of a committed transaction is in the log at the place
  the transaction holds, or in a write that is still queued (`Holds`);
* `Committing`: each block of the running commit is in the log already or still to be
  written, and what was allocated and what is still to be written add up to the
  length of the transaction.

From `Laid` follows `Untouched`: the block a commit writes to holds no unwritten copy of
another transaction. `RoomFound` follows from `Laid` and the sum in `Committing`: were
the queue empty, the running transaction alone would fill the log.

`Readable` speaks of the running transaction only, but a step of an older one may break
it: an eviction, a revocation or an abort moves a block from one transaction's copy
to another's, or to its place. `ReadInv` says block by block what makes it inductive. The
queue is in the order of the transactions and so are the unwritten copies of a block, none
newer than its record's owner (`InOrder`, `Ranked`). What the committed transactions make of
a block is the newest of its unwritten copies, or is at its place, or on the way there in the writes
still queued, when no copy is left (`SafeAt`, `Comes`). With the running transaction a block is in
its buffer, or is free and its older copies are revoked, or is what it was before
(`WantAt`). `Moved` describes one completed copy of one block, so the callback and the
purge of the queue are walks of such moves. `RestInv` carries the same over a stop: without a crash
the device alone holds every block in use, which is what the next session starts from.
TLC has checked `ReadInv` and `RestInv` on `MCJournal`'s instance.

### Only model-checked

* Liveness, which rests on fairness: `CallsReturn`, `CallReturns`, `SearchEnds`,
  the two `RemovalEnds`, `CallEnds`. The prover has no rule for it. The safety behind one
  of them is proved: `CountsHold` is why the inode search does not stay in a group.
* `Extents`, `Directory`: all their properties. The invariants are about trees and
  layouts of any depth and length, built by folds over sequences, and need an
  induction for each.
* Of `Journal`, `AllOrNothing`, which says what a walk over the log of any length finds after a
  crash between any two writes.
* The bound on the depth of a removal in `Namespace`'s `TypeOK`, which needs that the tree
  has no cycle.

The library's induction rules take an operator as parameter, which the installed provers
cannot instantiate. Where a proof needs induction over numbers (sums, prefixes of lists,
the walk of a path) it is done with `MinNat`: if the claim failed for some number it would
fail for a least one, and the one before leads to a contradiction.

## 5. What the models show the code to do wrong

Configurations kept for reproduction, each of which TLC refutes:

| Configuration (module) | Refutes | What the code does |
|---|---|---|
| `MCHeapReleasedWhole` (`MCHeapAlloc`) | `ReleasedWhole` | `free_len` calls `add_range(mh, mh->size)` (`buddy_alloc.c:228`): header and rounding are omitted, so repeated malloc and free exhaust the heap; "Release the memory block" (206) |
| `MCHeapExhaustionAnswered` (`MCHeapAlloc`) | `ExhaustionAnswered` | the search of `alloc_node` (133) has no bound and leaves `header[]`; callers test for NULL (`ext4_bcache.c:126`) |
| `MCFrameFull` (`MCFrameAlloc`) | `OutsideImage` | `add_frame_range` skips the image only if `_end` lies inside the range, whose end is excluded (`buddy_alloc.c:156`): a memory that ends with the image is handed out whole, the image included |
| `MCFrameRingTail` (`MCFrameAlloc`) | `AvailPageClear` | the avail page is not cleared (`virtio-blk.c:133`); with 152 MB on riscv64 its first `idx` is part of a list link, with QEMU's default 128 MB it is 0 |
| `MCVirtioError` (`MCVirtioBlk`) | `ReturnMeansDone` | the poll ends at any status and discards it (295); "device writes 0 on success" (268) |
| `MCVirtioHoisted` (`MCVirtioBlk`) | `CallReturns` | the status byte is not `volatile`: a compiler may test one load for ever (295) |
| `MCCacheGlue` (`MCBlockCache`) | `LatestAlways` | `file_dev_bwrite` (`lwext4.c:31`) reports success and writes nothing, so what recovery replays is gone with its buffer |
| `MCCacheRange` (`MCBlockCache`) | `LatestAlways` | `ext4_bcache_invalidate_lba` (190) visits nothing if the first block is not cached; "Invalidate a range of buffers." (`ext4_bcache.h:235`) |
| `MCJournalRevoke` (`Journal`) | `AllOrNothing` | `jbd_trans_try_revoke_block` (`ext4_journal.c:1492-1502`) does not revoke a block the transaction dirtied itself once older copies are written, though these are still in the log; "If @lba still remains in an transaction on checkpoint queue, add @lba as a revoked block to the transaction." (1482-1484) |

`alloc_node` also starts at list `lvl - 3`, which is the block's own list only for an
8-byte unit: with 32-byte units it skips two lists of blocks that would fit, with
pages nine. With failing writes `AllDelayedFlushed` does not hold: `ext4_bcache_free`
ignores the result of the flush and puts the buffer on no list.

Flaws recorded in `flawed`, each refuted when put into `Explored`:

* *Journal.* `restart`: a session that starts after `jbd_journal_stop` numbers its
  transactions from the superblock's sequence, which the stop has set to 0, so old commit
  blocks further along the log continue the new ones. `full`: the log is full and the
  oldest transaction is purged, but the superblock on the device still starts there
  while its blocks are overwritten. `abort`: an aborted transaction had freed a block
  that an older one still has to write; its buffer stays invalidated. `revoke`: above.
* *Extents.* `prepend`: a block merged in front of an extent keeps the old
  physical start (`ext4_extent.c:1204-1214`). `mixed`: appending or prepending ignores
  that only one of the two is unwritten (1121-1171). `third`: converting the middle of a
  preallocated extent splits the wrong piece the second time (1818-1826). `restore`: a
  failed insertion of the second half drops the unwritten mark and reports success
  (1795-1798). `nospace`: a split over several levels that runs out of blocks loses
  the entries already moved (965-1060). `hole`: a truncation that starts in a hole
  removes nothing (1626-1632). The branch for punching a hole frees nothing
  (1634-1659); no caller reaches it.
* *Directory.* `whole`: a leaf in which no name crosses half the block is split with
  `mid = 0`, and `sort[-1]` is read (`ext4_dir_idx.c:957-985`). `lost`: the result of the
  insertion after a split is overwritten (1286-1294). `release`: when a node cannot be
  split, a block that was never read is released (1252-1254). The last two do not occur in the
  instance of `dir`.

Others the modules model and their comments mention:

* *Directories.* `node_limit` is taken before the checksum tail is subtracted (`ext4_dir_idx.c:1051-1054`), so
  with checksums a two-level index is rejected at the next lookup and the
  directory becomes linear. The index does not find `.` and `..`. A leaf split under an open
  stream repeats or skips names. Opening a stream on a block whose first entry was removed
  returns that entry.
* *Namespace.* `ext4_dir_rm` frees the inode of every entry whatever its link count
  (`ext4.c:2897-2901`, `NoDangling`). A failed `ext4_link` of a directory on an indexed file
  system leaves its entry, and the entry it does remove is looked up by the length
  of the rest of the path (`NoDangling`). `ext4_frename` does not check the mount point of the new
  path, nor that a directory is moved below itself.
* *File API.* Write-back mode stays on after the exits at `ext4.c:1564`, 1851 and 1894.
  A handle whose position another one's truncation has left behind reads and writes
  with `fpos > fsize`. An error of `ext4_fwrite` is overwritten at 1936.
  Read but not modelled: `ext4_readlink` locks twice, `ext4_removexattr` locks where it should unlock,
  `ext4_ftruncate_no_lock` unlocks on one exit.
* *Allocation.* `ext4_bmap_bit_find_clr` returns the first bit it looked at for any clear bit
  before the first whole byte (`ext4_bitmap.c:102`); the callers start at places where the two
  agree. With 1 KB blocks the last group seems one block larger; the padding of its
  bitmap saves it. A goal behind the last block reads a descriptor behind the table.
  `ext4_ialloc_alloc_inode` does not end if a group's count and bitmap disagree.

## 6. Not modelled, and what is left

Not modelled: extended attributes and mkfs (not used by the kernel), hashes, checksums,
the mount table and attribute getters and setters of `ext4.c`, the device tree parser, driver
tables and the register handshake of `virtio_block_probe` (straight lines run once at boot),
serial and clock registers, assembly, string functions and formatting, the ELF reader
(not called). Within the modelled parts: failing reads and writes in `Journal`,
`Extents`, `Directory`, `BlockMap` and `Alloc`; the wrap of `lru_id`; holes in `FileIo`.

What is left to prove, in order: `AllOrNothing` of `Journal` (an induction over the walk
of the log, on top of `Laid` and `Logged`), which would free `Readable` of its hypothesis; that the tree of `Namespace` has no cycle.
