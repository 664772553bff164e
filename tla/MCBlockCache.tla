---------------------------- MODULE MCBlockCache ----------------------------
(* The block cache on a few blocks: one more than it has room for, so that    *)
(* buffers are evicted, and two values, so that a stale one shows.            *)
EXTENDS BlockCache

MCLbas == 1 .. 3
MCLbas2 == 1 .. 2

\* The data of a buffer that is not up to date and the last contents of a free block
\* are overwritten before anything reads them, those of a lost block are not compared:
\* states that differ only there agree.
View ==
  <<[l \in Lbas |-> IF buf[l].up \/ buf[l].dirty THEN buf[l] ELSE [buf[l] EXCEPT !.data = Zero]],
    lru, dirtyList, writeBack, disk, role, lost,
    [l \in Lbas |-> IF role[l] = "free" \/ l \in lost THEN Zero ELSE latest[l]], ret>>
=============================================================================
