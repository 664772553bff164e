------------------------------ MODULE Journal ------------------------------
(***************************************************************************)
(* The journal of lwext4 (ext4_journal.c) under crashes: transactions are  *)
(* written to the log, their blocks reach their place later and in any     *)
(* order (write-back, eviction), the start of the log follows, and after a *)
(* crash the log is replayed.                                              *)
(*                                                                         *)
(* A step changes memory and queues the writes it makes; Persist lets them *)
(* reach the device one by one, in order, before the program goes on, and  *)
(* Crash may come between any two. The contents of a block is the number   *)
(* of the transaction that wrote it.                                       *)
(***************************************************************************)
EXTENDS Integers, Sequences, SequencesExt, FiniteSets, FiniteSetsExt, Data

CONSTANTS
  Blocks,      \* the journalled blocks of the file system
  LogLen,      \* blocks of the log, 1 .. LogLen
  MaxTrans,    \* bound: transactions that are started
  MaxCrash,    \* bound: crashes
  MaxData,     \* bound: direct writes of file data
  Explored     \* the flaws of `flawed' behind which behaviours go on

ASSUME JournalAssumption ==
  /\ LogLen \in Nat \ {0} /\ MaxTrans \in Nat /\ MaxCrash \in Nat /\ MaxData \in Nat
  /\ Explored \subseteq {"abort", "full", "restart", "revoke"} /\ IsFiniteSet(Blocks)

VARIABLES
  home,     \* the device: the blocks at their place
  log,      \* the device: the blocks of the log
  sb,       \* the device: the journal superblock, its start and sequence
  j,        \* memory: the journal session (see NoSession)
  wq,       \* writes the running step still has to make
  pc,       \* what runs
  todo,     \* the log blocks a commit still has to write
  slot,     \* the log block it allocated last
  safe,     \* history: what the acknowledged transactions make of each block
  want,     \* history: the same with the running transaction
  flawed,   \* history: the flaws of the code, described in the README, that came up
  ntrans, ncrash, ndata

journalVars == <<home, log, sb, j, wq, pc, todo, slot, safe, want, flawed, ntrans, ncrash, ndata>>
history == <<safe, want, flawed, ntrans, ncrash, ndata>>
device == <<home, log, sb>>

Trans == 1 .. MaxTrans
Free == -1                           \* a block nobody uses
Data(k) == MaxTrans + k              \* the k-th write of file data
Empty == [type |-> "none", seq |-> 0, tags |-> <<>>, val |-> 0]

\* struct jbd_trans, struct jbd_journal, the jbd_block_rec of each block (its owner,
\* 0 when there is none, and the transactions whose copy of it is unwritten, oldest
\* first), and the dirty buffers of the cache with their end_write_arg.
NoTrans == [id |-> 0, bufq |-> <<>>, lba |-> [b \in Blocks |-> 0], data |-> 0, written |-> 0,
            start |-> 0, alloc |-> 0, revoke |-> {}]
NoBuf == [val |-> 0, owner |-> 0]
NoSession == [cur |-> 0, trans |-> [t \in Trans |-> NoTrans], queue |-> <<>>,
              start |-> 0, last |-> 0, tid |-> 0, atid |-> 0,
              rec |-> [b \in Blocks |-> 0], dq |-> [b \in Blocks |-> <<>>],
              buf |-> [b \in Blocks |-> NoBuf], w |-> <<>>]

Write(dev, at, val) == [dev |-> dev, at |-> at, val |-> val]

JournalInit ==
  /\ home = [b \in Blocks |-> 0] /\ log = [i \in 1 .. LogLen |-> Empty]
  /\ sb = [start |-> 0, seq |-> 0]
  /\ j = NoSession /\ wq = <<>> /\ pc = "mounted" /\ todo = <<>> /\ slot = 0
  /\ safe = home /\ want = home /\ flawed = {}
  /\ ntrans = 0 /\ ncrash = 0 /\ ndata = 0

Wrap(i) == ((i - 1) % LogLen) + 1
If(cond, flaw) == IF cond THEN {flaw} ELSE {}
Runs == wq = <<>> /\ flawed \subseteq Explored

\* A step of the session: its memory, and its writes to the device.
Becomes(s) == j' = [s EXCEPT !.w = <<>>] /\ wq' = s.w

----------------------------------------------------------------------------
(* The device *)

Persist ==
  /\ wq # <<>>
  /\ LET w == Head(wq) IN
     /\ home' = IF w.dev = "home" THEN [home EXCEPT ![w.at] = w.val] ELSE home
     /\ log' = IF w.dev = "log" THEN [log EXCEPT ![w.at] = w.val] ELSE log
     /\ sb' = IF w.dev = "sb" THEN [start |-> w.at, seq |-> w.val] ELSE sb
  /\ wq' = Tail(wq)
  /\ UNCHANGED <<j, pc, todo, slot, history>>

\* A crash while a transaction is being committed may keep it or not, and so may one
\* before the recovery from that one has ended.
Crash ==
  /\ ncrash < MaxCrash /\ pc \notin {"down", "mounted"}
  /\ j' = NoSession /\ wq' = <<>> /\ pc' = "down" /\ todo' = <<>> /\ slot' = 0
  /\ want' = IF pc \in {"commit", "room", "slot", "recovered"} THEN want ELSE safe
  /\ ncrash' = ncrash + 1
  /\ UNCHANGED <<home, log, sb, safe, flawed, ntrans, ndata>>

----------------------------------------------------------------------------
(* Recovery: jbd_recover and jbd_iterate_log *)

\* jbd_iterate_block_table: the blocks a descriptor block names, in the order in which
\* their copies follow it. A block of another type names none.
Tags(h) == IF h.type = "desc" THEN h.tags ELSE <<>>

\* One turn of the loop of jbd_iterate_log, in the scan pass, and the same walk for
\* the other passes, which stop behind the last transaction the scan found.
Turn(p) ==
  LET h == log[p.at]
      next == Wrap(p.at + 1 + Len(Tags(h)))
  IN  IF p.end \/ h.type \notin {"desc", "revoke", "commit"} \/ h.seq # p.seq
      THEN [p EXCEPT !.end = TRUE]
      ELSE [p EXCEPT !.at = next, !.end = next = sb.start, !.seen = Append(@, p.at),
                     !.seq = IF h.type = "commit" THEN @ + 1 ELSE @,
                     !.ok = IF h.type = "commit" THEN Len(p.seen) + 1 ELSE @]

Scan ==
  LET walk[k \in 0 .. LogLen] ==
        IF k = 0 THEN [at |-> sb.start, seq |-> sb.seq, end |-> FALSE, seen |-> <<>>, ok |-> 0]
        ELSE Turn(walk[k - 1])
  IN  walk[LogLen]

\* The headers of complete transactions, in order.
Headers == SubSeq(Scan.seen, 1, Scan.ok)

\* The last transaction that revokes b, 0 when none does.
Revoked(b) ==
  LET ids == {log[Headers[i]].seq : i \in {i \in DOMAIN Headers :
                  log[Headers[i]].type = "revoke" /\ b \in log[Headers[i]].val}}
  IN  IF ids = {} THEN 0 ELSE CHOOSE x \in ids : \A y \in ids : y <= x

\* A mutant: revoked blocks are replayed.
ReplayRevoked(p) ==
  LET tags == Tags(log[p])
  IN  [i \in DOMAIN tags |-> Write("home", tags[i], log[Wrap(p + i)].val)]

\* jbd_replay_block_tags for the tags of the descriptor block at position p. A block of
\* another type has none.
Replay(p) ==
  LET tags == Tags(log[p])
      tag(i) == IF log[p].seq <= Revoked(tags[i]) THEN <<>>
                ELSE <<Write("home", tags[i], log[Wrap(p + i)].val)>>
  IN  FlattenSeq([i \in DOMAIN tags |-> tag(i)])

LastId == IF Scan.seq > sb.seq THEN Scan.seq - 1 ELSE sb.seq

Recover ==
  /\ pc = "down" /\ wq = <<>>
  /\ IF sb.start = 0 THEN wq' = <<>>
     ELSE wq' = FlattenSeq([i \in DOMAIN Headers |-> Replay(Headers[i])])
                  \o <<Write("sb", 0, LastId)>>
  /\ pc' = "recovered"
  /\ UNCHANGED <<device, j, todo, slot, history>>

\* jbd_journal_start. The records of an earlier session must not be mistaken for
\* new ones: their numbers have to be smaller.
Start ==
  /\ pc \in {"mounted", "recovered"} /\ Runs
  /\ LET id == sb.seq + 1 IN
     /\ Becomes([NoSession EXCEPT !.start = 1, !.last = 1, !.tid = id, !.atid = id,
                                  !.w = <<Write("sb", 1, id)>>])
     /\ flawed' = flawed \cup If(\E i \in 1 .. LogLen : log[i].type = "commit" /\ log[i].seq >= id,
                                "restart")
  /\ safe' = IF \A b \in Blocks : safe[b] \in {Free, home[b]} THEN safe ELSE want
  /\ want' = safe'
  /\ pc' = "up"
  /\ UNCHANGED <<device, todo, slot, ntrans, ncrash, ndata>>

----------------------------------------------------------------------------
(* Checkpointing: jbd_trans_end_write *)

IsFirst(s, t) == s.queue # <<>> /\ s.queue[1] = t
Done(s, t) == s.trans[t].data = s.trans[t].written
Behind(s, t) == Wrap(s.trans[t].start + s.trans[t].alloc)
SyncSb(s) == [s EXCEPT !.w = Append(@, Write("sb", s.start, s.tid))]

\* jbd_journal_free_trans of a committed transaction: the block records it owns go.
FreeTrans(s, t) ==
  [s EXCEPT !.queue = Without(@, {t}), !.trans[t] = NoTrans,
            !.rec = [b \in Blocks |-> IF @[b] = t THEN 0 ELSE @[b]]]

\* A mutant: the start of the log stays.
PopHeadStays(s) == FreeTrans(s, s.queue[1])

\* The first n transactions leave the queue, one after the other, each freed as by
\* FreeTrans, and the log starts behind the last of them.
Pop(s, n) ==
  LET gone == {s.queue[i] : i \in 1 .. n}
      t    == s.queue[n]
  IN  [s EXCEPT !.queue = SubSeq(@, n + 1, Len(@)),
                !.trans = [u \in Trans |-> IF u \in gone THEN NoTrans ELSE @[u]],
                !.rec = [b \in Blocks |-> IF @[b] \in gone THEN 0 ELSE @[b]],
                !.start = IF n = 0 THEN @ ELSE Behind(s, t),
                !.tid = IF n = 0 THEN @ ELSE s.trans[t].id + 1]

PopHead(s) == Pop(s, 1)

\* jbd_journal_purge_cp_trans(journal, false, false): up to the first transaction that
\* is not complete.
Purge(s) ==
  LET n == CHOOSE n \in 0 .. Len(s.queue) :
             /\ \A i \in 1 .. n : Done(s, s.queue[i])
             /\ n < Len(s.queue) => ~Done(s, s.queue[n + 1])
      p == Pop(s, n)
  IN  IF p.queue = <<>> THEN p
      ELSE [p EXCEPT !.start = p.trans[p.queue[1]].start, !.tid = p.trans[p.queue[1]].id]

Unlink(s, t, b) ==
  [s EXCEPT !.trans[t].bufq = Without(@, {b}), !.dq[b] = Without(@, {t})]

\* A mutant: the first block that reaches its place completes the transaction.
CountEarly(s, t, first) ==
  LET c == [s EXCEPT !.trans[t].written = @ + 1]
  IN  IF first THEN SyncSb(Purge(PopHead(c))) ELSE c

Count(s, t, first) ==
  LET c == [s EXCEPT !.trans[t].written = @ + 1]
  IN  IF Done(c, t) /\ first THEN SyncSb(Purge(PopHead(c))) ELSE c

\* Whether t is first is asked on entry, before the older copies of the block, which
\* finish_callback completes, may have emptied the queue before it.
Complete(s, u, b) == Count(Unlink(s, u, b), u, IsFirst(s, u))

\* The states in which jbd_trans_finish_callback completes the older copies of b.
Finishing(s, b) ==
  LET x[i \in 0 .. Len(s.dq[b])] == IF i = 0 THEN s ELSE Complete(x[i - 1], s.dq[b][i], b)
  IN  x

EndWrite(s, t, b) ==
  LET first == IsFirst(s, t)
      one   == Unlink(s, t, b)
      all   == Finishing(one, b)[Len(one.dq[b])]
  IN  Count(IF s.rec[b] = t THEN [all EXCEPT !.buf[b] = NoBuf] ELSE one, t, first)

\* ext4_block_flush_buf of a buffer no transaction holds: an eviction, the end of
\* write-back mode or the release of the buffer.
Flushed(s, b) ==
  EndWrite([s EXCEPT !.w = <<Write("home", b, s.buf[b].val)>>, !.buf[b] = NoBuf],
           s.buf[b].owner, b)

Flush(b) ==
  /\ pc \in {"up", "commit"} /\ Runs
  /\ j.buf[b].owner \notin {0, j.cur}
  /\ Becomes(Flushed(j, b))
  /\ UNCHANGED <<device, pc, todo, slot, history>>

\* One turn of jbd_journal_flush_trans: from the cache if the buffer there is the
\* transaction's, else from the log.
FlushOldest(s) ==
  LET t == s.queue[1]
      b == s.trans[t].bufq[1]
  IN  IF s.buf[b].owner # 0 /\ s.rec[b] = t THEN Flushed(s, b)
      ELSE EndWrite([s EXCEPT !.w = <<Write("home", b, log[s.trans[t].lba[b]].val)>>], t, b)

----------------------------------------------------------------------------
(* Transactions *)

NewTrans ==
  /\ pc = "up" /\ Runs /\ j.cur = 0 /\ ntrans < MaxTrans
  /\ j' = [j EXCEPT !.cur = ntrans + 1]
  /\ ntrans' = ntrans + 1
  /\ UNCHANGED <<device, wq, pc, todo, slot, safe, want, flawed, ncrash, ndata>>

\* A block the running transaction has freed is not used again before it is committed.
FreedHere(b) ==
  \/ want[b] = Free /\ safe[b] # Free
  \/ j.cur # 0 /\ Contains(j.trans[j.cur].bufq, b) /\ j.buf[b].owner # j.cur

\* jbd_trans_set_block_dirty, after the block was modified.
SetBlockDirty(b) ==
  /\ pc = "up" /\ Runs /\ j.cur # 0
  /\ j.buf[b].owner # j.cur /\ ~FreedHere(b)
  /\ j' = [j EXCEPT !.rec[b] = j.cur, !.dq[b] = Append(@, j.cur),
                    !.buf[b] = [val |-> j.cur, owner |-> j.cur],
                    !.trans[j.cur].data = @ + 1,
                    !.trans[j.cur].bufq = <<b>> \o @,
                    !.trans[j.cur].revoke = @ \ {b}]
  /\ want' = [want EXCEPT ![b] = j.cur]
  /\ UNCHANGED <<device, wq, pc, todo, slot, safe, flawed, ntrans, ncrash, ndata>>

\* jbd_trans_try_revoke_block: a block the transaction has dirtied itself is revoked
\* only while an older copy is unwritten, although a written one may still be in the
\* log.
TryRevoke(b) == j.rec[b] # 0 /\ (j.rec[b] = j.cur => Len(j.dq[b]) > 1)
StillLogged(b) == \E i \in DOMAIN j.queue : j.trans[j.queue[i]].lba[b] # 0

\* ext4_balloc_free_blocks: try to revoke, then invalidate the buffer.
FreeBlock(b) ==
  /\ pc = "up" /\ Runs /\ j.cur # 0 /\ want[b] # Free
  /\ j' = [j EXCEPT !.trans[j.cur].revoke = IF TryRevoke(b) THEN @ \cup {b} ELSE @,
                    !.buf[b] = NoBuf]
  /\ want' = [want EXCEPT ![b] = Free]
  /\ flawed' = flawed \cup If(StillLogged(b) /\ ~TryRevoke(b), "revoke")
  /\ UNCHANGED <<device, wq, pc, todo, slot, safe, ntrans, ncrash, ndata>>

\* ext4_fwrite into a block that a committed transaction has freed.
WriteData(b) ==
  /\ pc = "up" /\ Runs /\ ndata < MaxData
  /\ want[b] = Free /\ ~FreedHere(b)
  /\ home' = [home EXCEPT ![b] = Data(ndata + 1)]
  /\ want' = [want EXCEPT ![b] = Data(ndata + 1)]
  /\ safe' = [safe EXCEPT ![b] = Data(ndata + 1)]
  /\ ndata' = ndata + 1
  /\ UNCHANGED <<log, sb, j, wq, pc, todo, slot, flawed, ntrans, ncrash>>

\* A mutant: the contents of the older transaction's copy are not restored.
RollBackKeeps(s, t, B) ==
  LET older(b) == Without(s.dq[b], {t})
      a(b)     == IF older(b) = <<>> THEN 0 ELSE Last(older(b))
  IN  [s EXCEPT !.trans[t].bufq = Without(@, B),
                !.dq  = [b \in Blocks |-> IF b \in B THEN older(b) ELSE @[b]],
                !.rec = [b \in Blocks |-> IF b \in B THEN a(b) ELSE @[b]],
                !.buf = [b \in Blocks |-> IF b \notin B THEN @[b] ELSE IF a(b) = 0 THEN NoBuf
                                          ELSE [val |-> @[b].val, owner |-> a(b)]]]

\* jbd_trans_finish_callback(abort) and jbd_trans_remove_block_rec for the blocks B of
\* t, which do not depend on each other: the newest unwritten copy of an older
\* transaction takes over, from the log unless the block is revoked.
RollBack(s, t, B) ==
  LET older(b) == Without(s.dq[b], {t})
      a(b)     == IF older(b) = <<>> THEN 0 ELSE Last(older(b))
      back(b)  == IF a(b) = 0 \/ b \in s.trans[t].revoke THEN NoBuf
                  ELSE [val |-> log[s.trans[a(b)].lba[b]].val, owner |-> a(b)]
  IN  [s EXCEPT !.trans[t].bufq = Without(@, B),
                !.dq  = [b \in Blocks |-> IF b \in B THEN older(b) ELSE @[b]],
                !.rec = [b \in Blocks |-> IF b \in B THEN a(b) ELSE @[b]],
                !.buf = [b \in Blocks |-> IF b \in B THEN back(b) ELSE @[b]]]

\* jbd_journal_free_trans(abort). A block that was only freed has no jbd_buf, and its
\* buffer stays invalidated though an older transaction still has to write it.
Abort ==
  /\ pc = "up" /\ Runs /\ j.cur # 0
  /\ LET t == j.cur
         a == RollBack([j EXCEPT !.trans[t].revoke = {}], t, ToSet(j.trans[t].bufq))
     IN  /\ j' = [a EXCEPT !.trans[t] = NoTrans, !.cur = 0]
         /\ flawed' = flawed \cup If(\E b \in Blocks : a.dq[b] # <<>> /\ a.buf[b] = NoBuf, "abort")
  /\ want' = safe
  /\ UNCHANGED <<device, wq, pc, todo, slot, safe, ntrans, ncrash, ndata>>

----------------------------------------------------------------------------
(* Commit: __jbd_journal_commit_trans *)

Item(kind, b) == [kind |-> kind, b |-> b]

\* The buffers that are no longer dirty leave the transaction. One that is empty then
\* is no transaction at all.
CommitBegin ==
  /\ pc = "up" /\ Runs /\ j.cur # 0
  /\ LET t == j.cur
         B == {b \in ToSet(j.trans[t].bufq) : j.buf[b].owner # t}
         s == [RollBack(j, t, B) EXCEPT !.trans[t].data = @ - Cardinality(B)]
         q == s.trans[t]
     IN  IF q.data = 0 /\ q.revoke = {}
         THEN /\ j' = [FreeTrans(s, t) EXCEPT !.cur = 0]
              /\ safe' = want
              /\ UNCHANGED <<pc, todo>>
         ELSE /\ j' = [s EXCEPT !.trans[t].id = j.atid]
              /\ todo' = (IF q.data = 0 THEN <<>>
                         ELSE <<Item("desc", 0)>> \o [i \in DOMAIN q.bufq |-> Item("data", q.bufq[i])])
                        \o (IF q.revoke = {} THEN <<>> ELSE <<Item("revoke", 0)>>)
                        \o <<Item("commit", 0)>>
              /\ pc' = "commit"
              /\ UNCHANGED safe
  /\ UNCHANGED <<device, wq, slot, want, flawed, ntrans, ncrash, ndata>>

\* jbd_journal_alloc_block for the next block to write.
AllocBlock ==
  /\ pc = "commit" /\ Runs /\ todo # <<>>
  /\ slot' = j.last
  /\ LET t == j.cur IN
     j' = [j EXCEPT !.last = Wrap(@ + 1), !.trans[t].alloc = @ + 1,
                    !.trans[t].start = IF @ = 0 THEN j.last ELSE @]
  /\ pc' = IF j'.last = j.start THEN "room" ELSE "slot"
  /\ UNCHANGED <<device, wq, todo, history>>

\* No space left: one transaction is flushed. A head that is complete already leaves
\* the queue, and the superblock on the device does not learn of it.
RoomFlush ==
  /\ pc = "room" /\ Runs /\ j.last = j.start /\ j.queue # <<>>
  /\ IF Done(j, j.queue[1])
     THEN Becomes(PopHead(j)) /\ flawed' = flawed \cup {"full"}
     ELSE Becomes(FlushOldest(j)) /\ UNCHANGED flawed
  /\ UNCHANGED <<device, pc, todo, slot, safe, want, ntrans, ncrash, ndata>>

RoomEnd ==
  /\ pc = "room" /\ Runs /\ j.last # j.start
  /\ pc' = "slot"
  /\ UNCHANGED <<device, j, wq, todo, slot, history>>

\* The descriptor block of a transaction: jbd_write_block_tag for each of its blocks.
Descriptor(q) == [type |-> "desc", seq |-> q.id, tags |-> q.bufq, val |-> 0]

\* The allocated block is written, the descriptor block after the last data block.
WriteBlock ==
  /\ pc = "slot" /\ Runs
  /\ LET t    == j.cur
         q    == j.trans[t]
         what == Head(todo)
         blk(type, val) == Write("log", slot, [Empty EXCEPT !.type = type, !.seq = q.id, !.val = val])
     IN  /\ j' = IF what.kind = "data" THEN [j EXCEPT !.trans[t].lba[what.b] = slot] ELSE j
         /\ wq' = CASE what.kind = "desc"   -> <<>>
                    [] what.kind = "revoke" -> <<blk("revoke", q.revoke)>>
                    [] what.kind = "commit" -> <<blk("commit", 0)>>
                    [] what.kind = "data"   ->
                         <<blk("data", j.buf[what.b].val)>>
                         \o (IF what.b # Last(q.bufq) THEN <<>>
                             ELSE <<Write("log", q.start, Descriptor(q))>>)
  /\ todo' = Tail(todo)
  /\ pc' = "commit" /\ slot' = 0
  /\ UNCHANGED <<device, history>>

\* The blocks r the transaction revokes, in any order: their newest copies are complete.
Revoking(s, r) ==
  LET x[i \in 0 .. Len(r)] ==
        IF i = 0 THEN s
        ELSE IF x[i - 1].dq[r[i]] = <<>> THEN x[i - 1]
        ELSE EndWrite(x[i - 1], Last(x[i - 1].dq[r[i]]), r[i])
  IN  x

\* The transaction joins the checkpoint queue.
CommitEnd ==
  /\ pc = "commit" /\ Runs /\ todo = <<>>
  /\ LET t  == j.cur
         r  == SetToSeq(j.trans[t].revoke)
         s  == Revoking([j EXCEPT !.atid = @ + 1, !.cur = 0], r)[Len(r)]
     IN  Becomes(
           CASE s.queue # <<>> -> [s EXCEPT !.queue = Append(@, t)]
             [] s.queue = <<>> /\ s.trans[t].data > 0 ->
                  SyncSb([s EXCEPT !.start = s.trans[t].start, !.tid = s.trans[t].id,
                                   !.queue = <<t>>])
             [] OTHER -> PopHead([s EXCEPT !.queue = <<t>>]))
  /\ safe' = want
  /\ pc' = "up"
  /\ UNCHANGED <<device, todo, slot, want, flawed, ntrans, ncrash, ndata>>

----------------------------------------------------------------------------
(* Stop: jbd_journal_stop *)

StopFlush ==
  /\ pc \in {"up", "stop"} /\ Runs /\ j.cur = 0 /\ j.queue # <<>>
  /\ Becomes(IF Done(j, j.queue[1]) THEN PopHead(j) ELSE FlushOldest(j))
  /\ pc' = "stop"
  /\ UNCHANGED <<device, todo, slot, history>>

StopEnd ==
  /\ pc \in {"up", "stop"} /\ Runs /\ j.cur = 0 /\ j.queue = <<>>
  /\ j' = NoSession
  /\ wq' = <<Write("sb", 0, 0)>>
  /\ pc' = "recovered"
  /\ UNCHANGED <<device, todo, slot, history>>

JournalNext ==
  \/ Persist \/ Crash \/ Recover \/ Start
  \/ NewTrans \/ Abort \/ CommitBegin \/ AllocBlock \/ RoomFlush \/ RoomEnd \/ WriteBlock
  \/ CommitEnd \/ StopFlush \/ StopEnd
  \/ \E b \in Blocks : Flush(b) \/ SetBlockDirty(b) \/ FreeBlock(b) \/ WriteData(b)

JournalSpec == JournalInit /\ [][JournalNext]_journalVars

----------------------------------------------------------------------------
(* Properties *)

Unflawed == flawed \subseteq Explored
Agrees(v) == \A b \in Blocks : v[b] \in {Free, home[b]}

\* After recovery the device holds what the acknowledged transactions left, or that
\* and all of the transaction whose commit the crash cut short: never a part of it,
\* never an older copy of a block, never a copy over file data that reused the block.
AllOrNothing ==
  (pc = "recovered" /\ wq = <<>> /\ Unflawed) => Agrees(safe) \/ Agrees(want)

\* A reader finds the newest copy of every block in use, in the cache or at its place.
Readable ==
  (pc \in {"up", "stop"} /\ wq = <<>> /\ Unflawed) =>
    \A b \in Blocks :
      want[b] \in {Free, IF j.buf[b].owner # 0 THEN j.buf[b].val ELSE home[b]}

\* A copy that still has to be written belongs to a transaction that still exists, its
\* block has a record, and a committed one is in the log where the transaction says.
Unwritten ==
  \A b \in Blocks : \A i \in DOMAIN j.dq[b] :
    LET t == j.dq[b][i] IN
    /\ j.rec[b] # 0
    /\ Contains(j.trans[t].bufq, b)
    /\ (t # j.cur /\ wq = <<>> /\ Unflawed) => log[j.trans[t].lba[b]].val = t

\* The assertion of jbd_journal_alloc_block: flushing one transaction makes room.
RoomFound == (pc = "room" /\ wq = <<>>) => (j.last = j.start => j.queue # <<>>)

=============================================================================
