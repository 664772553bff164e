---------------------------- MODULE BufferProofs ----------------------------
(***************************************************************************)
(* The block cache, for every number of blocks, cache size, bound on       *)
(* references and nesting of the write-back mode: the flush of the dirty   *)
(* list always ends, also when I/O fails; and nobody reads anything but    *)
(* what was last written, unless a write of that block was lost in one of  *)
(* the three ways BlockCache names.                                        *)
(*                                                                         *)
(* And the journal above it, for every number of blocks, length of the log *)
(* and number of transactions and crashes: what transactions, records and  *)
(* buffers say of each other agrees, a committed copy that still has to be *)
(* written is in the log block its transaction names, and a full log has a *)
(* transaction to write back.                                              *)
(***************************************************************************)
EXTENDS BlockCache, Journal, DataLemmas, SequenceTheorems, FiniteSetTheorems

\* The invariant of one block, from its buffer b, its contents on the device d,
\* what was last written to it, its role and whether it is on the dirty list, in
\* the cache and sure: no write of it was lost.
Block(b, d, last, ro, listed, cached, sure) ==
  /\ b \in Bufs /\ d \in Values /\ last \in Values /\ ro \in {"meta", "data", "free"}
  /\ ~cached => b = NewBuf
  /\ b.dirty => b.up
  /\ listed => cached /\ b.dirty /\ b.up /\ b.ref = 0
  /\ ~IoFails => (b.dirty /\ b.ref = 0 => listed)
  /\ sure => /\ ro # "meta" => ~b.dirty
             /\ ro = "meta" /\ b.up => last = b.data
             /\ ro = "meta" /\ ~b.dirty => last = d
             /\ ro = "data" => last = d

\* A list of blocks in which each is at most once.
Unique(s) == s \in Seq(Lbas) /\ IsInjective(s)

\* The inductive invariant. ListFlushable is part of Block; LatestSeen is not
\* inductive without the facts that a clean buffer agrees with the device and that
\* a block which is no metadata has no dirty buffer.
IInv ==
  /\ Unique(lru) /\ Unique(dirtyList)
  /\ buf \in [Lbas -> Bufs] /\ disk \in [Lbas -> Values] /\ latest \in [Lbas -> Values]
  /\ role \in [Lbas -> {"meta", "data", "free"}]
  /\ writeBack \in 0 .. MaxBack /\ ret \in {"EOK", "EIO"} /\ lost \subseteq Lbas
  /\ \A l \in Lbas :
       Block(buf[l], disk[l], latest[l], role[l],
             l \in ToSet(dirtyList), l \in ToSet(lru), l \notin lost)

----------------------------------------------------------------------------
(* Sequences *)

\* A new member at the end.
LEMMA AppendFacts ==
  ASSUME NEW T, NEW s \in Seq(T), NEW x \in T, x \notin ToSet(s), IsInjective(s)
  PROVE  /\ Append(s, x) \in Seq(T) /\ IsInjective(Append(s, x))
         /\ ToSet(Append(s, x)) = ToSet(s) \cup {x}
         /\ Len(Append(s, x)) = Len(s) + 1
<1> DEFINE v == Append(s, x)
           n == Len(s)
<1>1. /\ v \in Seq(T) /\ Len(v) = n + 1 /\ v[n + 1] = x /\ \A i \in 1 .. n : v[i] = s[i]
      /\ n \in Nat /\ DOMAIN s = 1 .. n /\ DOMAIN v = 1 .. n + 1
  OBVIOUS
<1> HIDE DEF v, n
<1>2. \A i \in 1 .. n : s[i] # x
  BY <1>1 DEF ToSet
<1>3. \A i, m \in 1 .. n : s[i] = s[m] => i = m
  BY <1>1 DEF IsInjective
<1>4. IsInjective(v)
  BY <1>1, <1>2, <1>3 DEF IsInjective
<1>5. ToSet(v) = ToSet(s) \cup {x}
  <2>1. ASSUME NEW y \in ToSet(v) PROVE y \in ToSet(s) \cup {x}
    <3>1. PICK i \in 1 .. n + 1 : y = v[i]
      BY <1>1 DEF ToSet
    <3> QED BY <1>1, <3>1 DEF ToSet
  <2>2. ASSUME NEW y \in ToSet(s) \cup {x} PROVE y \in ToSet(v)
    <3>1. CASE y = x
      <4>1. n + 1 \in DOMAIN v
        BY <1>1
      <4> QED BY <1>1, <3>1, <4>1 DEF ToSet
    <3>2. CASE y \in ToSet(s)
      <4>1. PICK i \in 1 .. n : y = s[i]
        BY <1>1, <3>2 DEF ToSet
      <4>2. i \in DOMAIN v
        BY <1>1
      <4> QED BY <1>1, <4>1, <4>2 DEF ToSet
    <3> QED BY <3>1, <3>2
  <2> QED BY <2>1, <2>2
<1> QED BY <1>1, <1>4, <1>5 DEF v, n

\* A new member at the head.
LEMMA HeadFacts ==
  ASSUME NEW T, NEW s \in Seq(T), NEW x \in T, x \notin ToSet(s), IsInjective(s)
  PROVE  /\ <<x>> \o s \in Seq(T) /\ IsInjective(<<x>> \o s)
         /\ ToSet(<<x>> \o s) = ToSet(s) \cup {x}
<1> DEFINE v == <<x>> \o s
           n == Len(s)
<1>1. /\ v \in Seq(T) /\ Len(v) = n + 1 /\ v[1] = x /\ \A i \in 1 .. n : v[i + 1] = s[i]
      /\ n \in Nat /\ DOMAIN s = 1 .. n /\ DOMAIN v = 1 .. n + 1
  OBVIOUS
<1> HIDE DEF v, n
<1>2. \A i \in 1 .. n : s[i] # x
  BY <1>1 DEF ToSet
<1>3. \A i, m \in 1 .. n : s[i] = s[m] => i = m
  BY <1>1 DEF IsInjective
<1>4. \A i \in 1 .. n + 1 : i = 1 \/ (i - 1 \in 1 .. n /\ v[i] = s[i - 1])
  <2> TAKE i \in 1 .. n + 1
  <2>1. CASE i # 1
    <3>1. i - 1 \in 1 .. n /\ (i - 1) + 1 = i
      BY <1>1, <2>1
    <3> QED BY <1>1, <3>1
  <2> QED BY <2>1
<1>5. IsInjective(v)
  <2> SUFFICES ASSUME NEW i \in 1 .. n + 1, NEW m \in 1 .. n + 1, v[i] = v[m] PROVE i = m
    BY <1>1 DEF IsInjective
  <2>1. i = 1 \/ (i - 1 \in 1 .. n /\ v[i] = s[i - 1])
    BY <1>4
  <2>2. m = 1 \/ (m - 1 \in 1 .. n /\ v[m] = s[m - 1])
    BY <1>4
  <2> QED BY <1>1, <1>2, <1>3, <2>1, <2>2
<1>6. ToSet(v) = ToSet(s) \cup {x}
  <2>1. ASSUME NEW y \in ToSet(v) PROVE y \in ToSet(s) \cup {x}
    <3>1. PICK i \in 1 .. n + 1 : y = v[i]
      BY <1>1 DEF ToSet
    <3> QED BY <1>1, <1>4, <3>1 DEF ToSet
  <2>2. ASSUME NEW y \in ToSet(s) \cup {x} PROVE y \in ToSet(v)
    <3>1. CASE y = x
      <4>1. 1 \in DOMAIN v
        BY <1>1
      <4> QED BY <1>1, <3>1, <4>1 DEF ToSet
    <3>2. CASE y \in ToSet(s)
      <4>1. PICK i \in 1 .. n : y = s[i]
        BY <1>1, <3>2 DEF ToSet
      <4>2. i + 1 \in DOMAIN v
        BY <1>1
      <4> QED BY <1>1, <4>1, <4>2 DEF ToSet
    <3> QED BY <3>1, <3>2
  <2> QED BY <2>1, <2>2
<1> QED BY <1>1, <1>5, <1>6 DEF v

\* A sequence without repetitions, cut in two.
LEMMA CutFacts ==
  ASSUME NEW T, NEW s \in Seq(T), IsInjective(s), NEW k \in 0 .. Len(s)
  PROVE  LET head == SubSeq(s, 1, k)
             rest == SubSeq(s, k + 1, Len(s))
         IN  /\ head \in Seq(T) /\ ToSet(head) \subseteq ToSet(s) /\ Len(head) = k
             /\ rest \in Seq(T) /\ IsInjective(rest)
             /\ ToSet(rest) = ToSet(s) \ ToSet(head)
<1> DEFINE n == Len(s)
           head == SubSeq(s, 1, k)
           rest == SubSeq(s, k + 1, n)
<1>1. /\ n \in Nat /\ k \in Nat /\ k <= n /\ DOMAIN s = 1 .. n
      /\ \A i \in 1 .. n : s[i] \in T
  OBVIOUS
<1>2. /\ head \in Seq(T) /\ Len(head) = k /\ \A i \in 1 .. k : head[i] = s[i]
      /\ DOMAIN head = 1 .. k
  BY <1>1
<1>3. /\ rest \in Seq(T) /\ Len(rest) = n - k /\ \A i \in 1 .. n - k : rest[i] = s[k + i]
      /\ DOMAIN rest = 1 .. n - k
  <2>2. rest \in Seq(T)
    BY <1>1
  <2>3. Len(rest) = n - k
    <3>1. k + 1 \in Int /\ n \in Int /\ \A i \in k + 1 .. n : s[i] \in T
      BY <1>1
    <3>2. Len(rest) = IF k + 1 <= n THEN n - (k + 1) + 1 ELSE 0
      BY <3>1, SubSeqProperties, ZenonT(60)
    <3> HIDE DEF rest, n
    <3> QED BY <1>1, <3>2
  <2>4. \A i \in 1 .. n - k : rest[i] = s[k + i]
    BY <1>1
  <2> QED BY <2>2, <2>3, <2>4
<1>4. \A i, m \in 1 .. n : s[i] = s[m] => i = m
  BY <1>1 DEF IsInjective
<1> HIDE DEF head, rest, n
<1>5. ToSet(head) \subseteq ToSet(s)
  BY <1>1, <1>2 DEF ToSet
<1>6. IsInjective(rest)
  <2> SUFFICES ASSUME NEW i \in 1 .. n - k, NEW m \in 1 .. n - k, rest[i] = rest[m] PROVE i = m
    BY <1>3 DEF IsInjective
  <2>1. k + i \in 1 .. n /\ k + m \in 1 .. n
    BY <1>1
  <2>2. k + i = k + m
    BY <1>3, <1>4, <2>1
  <2> QED BY <1>1, <2>2
<1>7. ToSet(rest) = ToSet(s) \ ToSet(head)
  <2>1. ASSUME NEW y \in ToSet(rest) PROVE y \in ToSet(s) /\ y \notin ToSet(head)
    <3>1. PICK i \in 1 .. n - k : y = s[k + i]
      BY <1>3 DEF ToSet
    <3>2. k + i \in 1 .. n
      BY <1>1
    <3>3. \A m \in 1 .. k : m # k + i /\ m \in 1 .. n
      BY <1>1
    <3> QED BY <1>1, <1>2, <1>4, <3>1, <3>2, <3>3 DEF ToSet
  <2>2. ASSUME NEW y \in ToSet(s), y \notin ToSet(head) PROVE y \in ToSet(rest)
    <3>1. PICK i \in 1 .. n : y = s[i]
      BY <1>1 DEF ToSet
    <3>2. ~(i <= k)
      BY <1>1, <1>2, <2>2, <3>1 DEF ToSet
    <3>3. i - k \in 1 .. n - k /\ k + (i - k) = i
      BY <1>1, <3>2
    <3> QED BY <1>3, <3>1, <3>3 DEF ToSet
  <2> QED BY <2>1, <2>2
<1> QED BY <1>2, <1>3, <1>5, <1>6, <1>7 DEF head, rest, n

----------------------------------------------------------------------------
(* One block *)

\* The buffer of a block that is not cached.
LEMMA NewBufFacts ==
  /\ NewBuf \in Bufs
  /\ ~NewBuf.up /\ ~NewBuf.dirty /\ NewBuf.ref = 0
BY CacheAssumption DEF NewBuf, Bufs

\* An invalidated buffer, and that of a block which is not cached.
LEMMA Invalidated ==
  ASSUME NEW b \in Bufs
  PROVE  LET nb == [b EXCEPT !.up = FALSE, !.dirty = FALSE]
         IN  nb \in Bufs /\ ~nb.up /\ ~nb.dirty /\ (b = NewBuf => nb = NewBuf)
<1> DEFINE nb == [b EXCEPT !.up = FALSE, !.dirty = FALSE]
<1>1. nb \in Bufs /\ ~nb.up /\ ~nb.dirty
  BY DEF Bufs
<1>2. [NewBuf EXCEPT !.up = FALSE, !.dirty = FALSE] = NewBuf
  <2> DEFINE x == [NewBuf EXCEPT !.up = FALSE, !.dirty = FALSE]
  <2>1. /\ x \in Bufs /\ x.up = FALSE /\ x.dirty = FALSE /\ x.flush = NewBuf.flush
        /\ x.tmp = NewBuf.tmp /\ x.ref = NewBuf.ref /\ x.data = NewBuf.data
    BY NewBufFacts DEF Bufs
  <2>2. NewBuf \in Bufs /\ NewBuf.up = FALSE /\ NewBuf.dirty = FALSE
    BY NewBufFacts DEF NewBuf
  <2> HIDE DEF x
  <2>3. x = NewBuf
    BY <2>1, <2>2 DEF Bufs
  <2> QED BY <2>3 DEF x
<1> QED BY <1>1, <1>2

\* A buffer nobody holds is dropped, having been written if it was dirty.
LEMMA DropKeeps ==
  ASSUME NEW b, NEW d, NEW last, NEW ro, NEW listed, NEW cached, NEW c, NEW sure, NEW now,
         now => sure /\ (Stores \/ ~b.dirty),
         Block(b, d, last, ro, listed, cached, sure)
  PROVE  Block(NewBuf, IF Stores /\ b.dirty THEN b.data ELSE d, last, ro, FALSE, c, now)
<1>1. b.data \in Values
  BY DEF Block, Bufs
<1> QED BY <1>1, NewBufFacts DEF Block

----------------------------------------------------------------------------
(* ext4_block_cache_shake *)

\* What follows from the invariant when some buffers nobody holds are shaken off.
LEMMA ShakeKeeps ==
  ASSUME IInv, NEW S, S \subseteq {l \in Lbas : buf[l].ref = 0}
  PROVE  /\ Unique(Without(lru, S)) /\ ToSet(Without(lru, S)) = ToSet(lru) \ S
         /\ Unique(Without(dirtyList, S)) /\ ToSet(Without(dirtyList, S)) = ToSet(dirtyList) \ S
         /\ ShakenBuf(S) \in [Lbas -> Bufs] /\ ShakenDisk(S) \in [Lbas -> Values]
         /\ ShakenLost(S) \subseteq Lbas
         /\ \A m \in Lbas :
              Block(ShakenBuf(S)[m], ShakenDisk(S)[m], latest[m], role[m],
                    m \in ToSet(dirtyList) \ S, m \in ToSet(lru) \ S, m \notin ShakenLost(S))
<1>1. /\ Unique(Without(lru, S)) /\ ToSet(Without(lru, S)) = ToSet(lru) \ S
      /\ Unique(Without(dirtyList, S)) /\ ToSet(Without(dirtyList, S)) = ToSet(dirtyList) \ S
  BY WithoutFacts DEF IInv, Unique
<1>2. ASSUME NEW m \in Lbas
      PROVE  Block(ShakenBuf(S)[m], ShakenDisk(S)[m], latest[m], role[m],
                   m \in ToSet(dirtyList) \ S, m \in ToSet(lru) \ S, m \notin ShakenLost(S))
  <2>0. m \notin ShakenLost(S) => m \notin lost /\ (m \in S /\ buf[m].dirty => Stores)
    BY DEF ShakenLost, Unstored
  <2>1. Block(buf[m], disk[m], latest[m], role[m],
              m \in ToSet(dirtyList), m \in ToSet(lru), m \notin lost)
    BY DEF IInv
  <2>2. CASE m \in S
    <3>1. ShakenBuf(S)[m] = NewBuf
      BY <2>2 DEF ShakenBuf
    <3>2. ShakenDisk(S)[m] = IF Stores /\ buf[m].dirty THEN buf[m].data ELSE disk[m]
      BY <2>2 DEF ShakenDisk, Written
    <3>3. Block(NewBuf, ShakenDisk(S)[m], latest[m], role[m], FALSE, FALSE, m \notin ShakenLost(S))
      BY <2>0, <2>1, <2>2, <3>2, DropKeeps
    <3> QED BY <2>2, <3>1, <3>3 DEF Block
  <2>3. CASE m \notin S
    <3>1. ShakenBuf(S)[m] = buf[m] /\ ShakenDisk(S)[m] = disk[m]
      BY <2>3 DEF ShakenBuf, ShakenDisk, Written
    <3> QED BY <2>0, <2>1, <2>3, <3>1 DEF Block
  <2> QED BY <2>2, <2>3
<1>3. /\ \A m \in Lbas : ShakenBuf(S)[m] \in Bufs /\ ShakenDisk(S)[m] \in Values
  BY <1>2 DEF Block
<1>4. ShakenBuf(S) = [m \in Lbas |-> ShakenBuf(S)[m]] /\ ShakenDisk(S) = [m \in Lbas |-> ShakenDisk(S)[m]]
  BY DEF ShakenBuf, ShakenDisk, Written
<1>5. ShakenBuf(S) \in [Lbas -> Bufs] /\ ShakenDisk(S) \in [Lbas -> Values]
  BY <1>3, <1>4
<1>6. ShakenLost(S) \subseteq Lbas
  BY DEF IInv, ShakenLost, Unstored
<1> QED BY <1>1, <1>2, <1>5, <1>6

\* The victims are cached and nobody holds them, and there are as many as the cache
\* is over its size once one more is added, or all that nobody holds.
LEMMA VictimFacts ==
  ASSUME IInv
  PROVE  /\ Victims \in Seq(Lbas)
         /\ ToSet(Victims) \subseteq {l \in ToSet(lru) : l \in Lbas /\ buf[l].ref = 0}
         /\ \A k \in 1 .. Len(Victims) :
              ToSet(SubSeq(Victims, 1, k - 1)) \subseteq ToSet(Victims)
         /\ ToSet(Victims) = {} =>
              Len(lru) < cnt \/ \A l \in ToSet(lru) : buf[l].ref > 0
<1> DEFINE u == Unreferenced
           H == {l \in Lbas : buf[l].ref > 0}
           full == Len(lru) - cnt + 1
           n == IF full < Len(u) THEN full ELSE Len(u)
           v == SubSeq(u, 1, n)
<1>0. /\ lru \in Seq(Lbas) /\ Len(lru) \in Nat
      /\ ToSet(lru) \subseteq Lbas
      /\ \A l \in Lbas : buf[l].ref \in Nat
  BY CacheAssumption DEF IInv, Unique, Block, Bufs, ToSet
<1>1. u \in Seq(Lbas) /\ ToSet(u) = ToSet(lru) \ H
  BY <1>0, WithoutFacts, Zenon DEF Unreferenced
<1>2. Victims = v
  BY Zenon DEF Victims
<1> HIDE DEF u, H
<1>3. /\ full \in Int /\ Len(u) \in Nat /\ n \in Int /\ 1 \in Int /\ n <= Len(u)
      /\ \A i \in 1 .. n : u[i] \in Lbas
      /\ DOMAIN u = 1 .. Len(u)
  BY <1>0, <1>1, CacheAssumption
<1> HIDE DEF n
<1>4. /\ v \in Seq(Lbas) /\ Len(v) = (IF 1 <= n THEN n - 1 + 1 ELSE 0)
      /\ \A i \in 1 .. n - 1 + 1 : v[i] = u[1 + i - 1]
  BY <1>3, SubSeqProperties
<1> HIDE DEF v
<1>5. DOMAIN v = 1 .. Len(v) /\ Len(v) \in Nat /\ \A i \in 1 .. Len(v) : i \in 1 .. n /\ v[i] = u[i]
  BY <1>3, <1>4
<1>6. ToSet(v) \subseteq ToSet(u)
  BY <1>3, <1>5 DEF ToSet
<1>7. ToSet(v) \subseteq {l \in ToSet(lru) : l \in Lbas /\ buf[l].ref = 0}
  BY <1>0, <1>1, <1>6 DEF H
<1>8. ASSUME NEW k \in 1 .. Len(v) PROVE ToSet(SubSeq(v, 1, k - 1)) \subseteq ToSet(v)
  <2>1. k - 1 \in 0 .. Len(v)
    BY <1>5
  <2>2. SubSeq(v, 1, k - 1) \in Seq(Lbas) /\ Len(SubSeq(v, 1, k - 1)) = k - 1
        /\ \A i \in 1 .. k - 1 : SubSeq(v, 1, k - 1)[i] = v[i]
    BY <1>4, <2>1
  <2> QED BY <1>5, <2>1, <2>2 DEF ToSet
<1>9. ASSUME ToSet(v) = {} PROVE Len(lru) < cnt \/ \A l \in ToSet(lru) : buf[l].ref > 0
  <2>1. Len(v) = 0
    <3>1. 1 \in DOMAIN v => v[1] \in ToSet(v)
      BY DEF ToSet
    <3> QED BY <1>5, <1>9, <3>1
  <2>2. n <= 0
    BY <1>3, <1>4, <2>1
  <2>3. CASE full <= 0
    BY <1>0, <2>3, CacheAssumption
  <2>4. CASE Len(u) = 0
    <3>1. ToSet(u) = {}
      BY <1>3, <2>4 DEF ToSet
    <3> QED BY <1>0, <1>1, <3>1 DEF H
  <2> QED BY <1>3, <2>2, <2>3, <2>4 DEF n
<1> QED BY <1>2, <1>4, <1>7, <1>8, <1>9

\* The invariant after a step, from its parts.
LEMMA Assembled ==
  ASSUME Unique(lru'), Unique(dirtyList'),
         buf' = [m \in Lbas |-> buf'[m]], disk' = [m \in Lbas |-> disk'[m]],
         latest' = [m \in Lbas |-> latest'[m]], role' = [m \in Lbas |-> role'[m]],
         writeBack' \in 0 .. MaxBack, ret' \in {"EOK", "EIO"}, lost' \subseteq Lbas,
         \A m \in Lbas : Block(buf'[m], disk'[m], latest'[m], role'[m],
                               m \in ToSet(dirtyList'), m \in ToSet(lru'), m \notin lost')
  PROVE  IInv'
<1>1. \A m \in Lbas : buf'[m] \in Bufs /\ disk'[m] \in Values /\ latest'[m] \in Values
                      /\ role'[m] \in {"meta", "data", "free"}
  BY DEF Block
<1>2. buf' \in [Lbas -> Bufs]
  BY <1>1
<1>3. disk' \in [Lbas -> Values]
  BY <1>1
<1>4. latest' \in [Lbas -> Values]
  BY <1>1
<1>5. role' \in [Lbas -> {"meta", "data", "free"}]
  BY <1>1
<1> QED BY <1>2, <1>3, <1>4, <1>5 DEF IInv, Unique

\* ext4_block_get and ext4_block_get_noread, the write of a victim failing.
LEMMA ShakeFailsStep ==
  ASSUME IInv, NEW l \in Lbas, ShakeFails(l)
  PROVE  IInv'
<1>1. PICK k \in 1 .. Len(Victims) :
        LET S == ToSet(SubSeq(Victims, 1, k - 1))
        IN  /\ disk' = ShakenDisk(S)
            /\ buf' = ShakenBuf(S)
            /\ lost' = ShakenLost(S)
            /\ lru' = Without(lru, S)
            /\ dirtyList' = Without(dirtyList, S)
  BY Zenon DEF ShakeFails
<1> DEFINE S == ToSet(SubSeq(Victims, 1, k - 1))
<1>2. S \subseteq {m \in Lbas : buf[m].ref = 0}
  BY VictimFacts
<1> HIDE DEF S
<1>3. /\ disk' = ShakenDisk(S) /\ buf' = ShakenBuf(S) /\ lost' = ShakenLost(S)
      /\ lru' = Without(lru, S) /\ dirtyList' = Without(dirtyList, S)
      /\ UNCHANGED <<writeBack, role, latest>> /\ ret' = "EIO"
  BY <1>1 DEF ShakeFails, S
<1>4. /\ Unique(lru') /\ ToSet(lru') = ToSet(lru) \ S
      /\ Unique(dirtyList') /\ ToSet(dirtyList') = ToSet(dirtyList) \ S
      /\ buf' \in [Lbas -> Bufs] /\ disk' \in [Lbas -> Values] /\ lost' \subseteq Lbas
      /\ \A m \in Lbas : Block(buf'[m], disk'[m], latest[m], role[m],
                               m \in ToSet(dirtyList) \ S, m \in ToSet(lru) \ S, m \notin lost')
  BY <1>2, <1>3, ShakeKeeps
<1> QED BY <1>3, <1>4 DEF IInv

\* The step of a call that acquires the buffer of l, from what it makes of it.
LEMMA AcquireStep ==
  ASSUME IInv, NEW l \in Lbas, NEW b, Acquire(l, b),
         latest' = [latest EXCEPT ![l] = latest'[l]], role' = [role EXCEPT ![l] = role'[l]],
         UNCHANGED writeBack, ret' = "EOK",
         \A d, listed, cached, sure :
           /\ d = ShakenDisk(ToSet(Victims))[l]
           /\ Block(Found(l), d, latest[l], role[l], listed, cached, sure)
           => Block([b EXCEPT !.ref = @ + 1], d, latest'[l], role'[l],
                    listed /\ Found(l).ref # 0, TRUE, sure)
  PROVE  IInv'
<1> DEFINE S == ToSet(Victims)
           nb == [b EXCEPT !.ref = @ + 1]
           fresh == Found(l).ref = 0
           out == IF fresh THEN S \cup {l} ELSE S
<1>1. S \subseteq {m \in Lbas : buf[m].ref = 0} /\ S \subseteq ToSet(lru)
  BY VictimFacts
<1>2. /\ disk' = ShakenDisk(S) /\ buf' = [ShakenBuf(S) EXCEPT ![l] = nb]
      /\ lost' = ShakenLost(S)
      /\ lru' = IF fresh THEN Append(Without(lru, S \cup {l}), l) ELSE Without(lru, S)
      /\ dirtyList' = Without(dirtyList, out)
  BY Zenon DEF Acquire
<1>3. Found(l) = ShakenBuf(S)[l]
  BY DEF Found
<1>4. \A d, listed, cached, sure :
        d = ShakenDisk(S)[l] /\ Block(Found(l), d, latest[l], role[l], listed, cached, sure)
        => Block(nb, d, latest'[l], role'[l], listed /\ ~fresh, TRUE, sure)
  OBVIOUS
<1> HIDE DEF S, nb
<1>5. /\ Unique(Without(lru, S)) /\ ToSet(Without(lru, S)) = ToSet(lru) \ S
      /\ Unique(Without(dirtyList, S)) /\ ToSet(Without(dirtyList, S)) = ToSet(dirtyList) \ S
      /\ ShakenBuf(S) \in [Lbas -> Bufs] /\ ShakenDisk(S) \in [Lbas -> Values]
      /\ lost' \subseteq Lbas
      /\ \A m \in Lbas : Block(ShakenBuf(S)[m], ShakenDisk(S)[m], latest[m], role[m],
                               m \in ToSet(dirtyList) \ S, m \in ToSet(lru) \ S, m \notin lost')
  BY <1>1, <1>2, ShakeKeeps
<1>6. Block(Found(l), disk'[l], latest[l], role[l], l \in ToSet(dirtyList) \ S,
            l \in ToSet(lru) \ S, l \notin lost')
  BY <1>2, <1>3, <1>5
<1>7. Unique(lru') /\ ToSet(lru') = (ToSet(lru) \ S) \cup {l}
  <2>1. CASE fresh
    <3> DEFINE w == Without(lru, S \cup {l})
    <3>1. Unique(w) /\ ToSet(w) = ToSet(lru) \ (S \cup {l})
      BY WithoutFacts DEF IInv, Unique
    <3> HIDE DEF w
    <3>2. Unique(Append(w, l)) /\ ToSet(Append(w, l)) = ToSet(w) \cup {l}
      BY <3>1, AppendFacts DEF Unique
    <3> QED BY <1>2, <2>1, <3>1, <3>2 DEF w
  <2>2. CASE ~fresh
    <3>1. l \in ToSet(lru) \ S
      BY <1>6, <2>2, NewBufFacts DEF Block
    <3> QED BY <1>2, <1>5, <2>2, <3>1
  <2> QED BY <2>1, <2>2
<1>8. Unique(dirtyList') /\ ToSet(dirtyList') = ToSet(dirtyList) \ out
  BY <1>2, WithoutFacts DEF IInv, Unique
<1>9. ASSUME NEW m \in Lbas
      PROVE  Block(buf'[m], disk'[m], latest'[m], role'[m],
                   m \in ToSet(dirtyList'), m \in ToSet(lru'), m \notin lost')
  <2>1. CASE m = l
    <3>1. buf'[m] = nb
      BY <1>2, <1>5, <2>1
    <3>2. Block(nb, disk'[l], latest'[l], role'[l], (l \in ToSet(dirtyList) \ S) /\ ~fresh, TRUE,
                l \notin lost')
      BY <1>2, <1>4, <1>6
    <3>3. (m \in ToSet(dirtyList') <=> (l \in ToSet(dirtyList) \ S) /\ ~fresh) /\ m \in ToSet(lru')
      BY <1>7, <1>8, <2>1
    <3> QED BY <2>1, <3>1, <3>2, <3>3 DEF Block
  <2>2. CASE m # l
    <3>1. buf'[m] = ShakenBuf(S)[m] /\ latest'[m] = latest[m] /\ role'[m] = role[m]
      BY <1>2, <1>5, <2>2 DEF IInv
    <3>2. /\ m \in ToSet(dirtyList') <=> m \in ToSet(dirtyList) \ S
          /\ m \in ToSet(lru') <=> m \in ToSet(lru) \ S
      BY <1>7, <1>8, <2>2
    <3>3. Block(ShakenBuf(S)[m], ShakenDisk(S)[m], latest[m], role[m],
                m \in ToSet(dirtyList) \ S, m \in ToSet(lru) \ S, m \notin lost')
      BY <1>5
    <3> QED BY <1>2, <3>1, <3>2, <3>3 DEF Block
  <2> QED BY <2>1, <2>2
<1>10. /\ buf' = [m \in Lbas |-> buf'[m]] /\ disk' = [m \in Lbas |-> disk'[m]]
       /\ latest' = [m \in Lbas |-> latest'[m]] /\ role' = [m \in Lbas |-> role'[m]]
  BY <1>2, <1>5 DEF IInv
<1>11. writeBack' \in 0 .. MaxBack /\ ret' \in {"EOK", "EIO"}
  BY DEF IInv
<1> QED BY <1>5, <1>7, <1>8, <1>9, <1>10, <1>11, Assembled

\* ext4_block_get.
LEMMA GetStep ==
  ASSUME IInv, NEW l \in Lbas, Get(l)
  PROVE  IInv'
<1> DEFINE f == Found(l)
           D == ShakenDisk(ToSet(Victims))[l]
           b == IF f.up THEN f ELSE [f EXCEPT !.up = TRUE, !.data = D]
<1>1. /\ Acquire(l, b) /\ role[l] = "meta" /\ ret' = "EOK"
      /\ UNCHANGED <<writeBack, role, latest>>
  BY Zenon DEF Get
<1>2. f.ref < MaxRef
  BY <1>1 DEF Acquire
<1>3. latest' = [latest EXCEPT ![l] = latest'[l]] /\ role' = [role EXCEPT ![l] = role'[l]]
  BY <1>1 DEF IInv
<1>4. ASSUME NEW d, NEW listed, NEW cached, NEW sure, d = D,
             Block(f, d, latest[l], role[l], listed, cached, sure)
      PROVE  Block([b EXCEPT !.ref = @ + 1], d, latest'[l], role'[l], listed /\ f.ref # 0, TRUE,
                   sure)
  <2> HIDE DEF f, D
  <2>1. f \in Bufs /\ d \in Values
    BY <1>4 DEF Block
  <2>2. f.ref + 1 \in 1 .. MaxRef
    BY <1>2, <2>1, CacheAssumption DEF Bufs
  <2>3. b \in Bufs /\ b.ref = f.ref /\ b.up /\ b.dirty = f.dirty
    <3>1. CASE f.up
      BY <2>1, <3>1 DEF Bufs
    <3>2. CASE ~f.up
      BY <1>4, <2>1, <3>2 DEF Bufs
    <3> QED BY <3>1, <3>2
  <2>4. b.data = IF f.up THEN f.data ELSE d
    BY <1>4, <2>1 DEF Bufs
  <2> HIDE DEF b
  <2> DEFINE nb == [b EXCEPT !.ref = @ + 1]
  <2>5. nb \in Bufs /\ nb.ref = f.ref + 1 /\ nb.up /\ nb.dirty = f.dirty /\ nb.data = b.data
    BY <2>2, <2>3 DEF Bufs
  <2> SUFFICES Block(nb, d, latest'[l], role'[l], listed /\ f.ref # 0, TRUE, sure)
    OBVIOUS
  <2> HIDE DEF nb
  <2> QED BY <1>1, <1>4, <2>2, <2>4, <2>5 DEF Block
<1>5. UNCHANGED writeBack
  BY <1>1
<1> HIDE DEF b
<1> QED BY <1>1, <1>3, <1>4, <1>5, AcquireStep

\* ext4_block_get_noread by a caller that gives the block new contents.
LEMMA GetNoreadStep ==
  ASSUME IInv, NEW l \in Lbas, NEW v \in Values, GetNoread(l, v)
  PROVE  IInv'
<1> DEFINE f == Found(l)
           b == [f EXCEPT !.up = TRUE, !.dirty = TRUE, !.data = v]
<1>1. /\ Acquire(l, b) /\ role[l] # "data" /\ ret' = "EOK" /\ UNCHANGED writeBack
      /\ role' = [role EXCEPT ![l] = "meta"] /\ latest' = [latest EXCEPT ![l] = v]
  BY Zenon DEF GetNoread
<1>2. f.ref < MaxRef
  BY <1>1 DEF Acquire
<1>3. /\ latest' = [latest EXCEPT ![l] = latest'[l]] /\ role' = [role EXCEPT ![l] = role'[l]]
      /\ latest'[l] = v /\ role'[l] = "meta"
  BY <1>1 DEF IInv
<1>4. ASSUME NEW d, NEW listed, NEW cached, NEW sure,
             Block(f, d, latest[l], role[l], listed, cached, sure)
      PROVE  Block([b EXCEPT !.ref = @ + 1], d, latest'[l], role'[l], listed /\ f.ref # 0, TRUE,
                   sure)
  <2> HIDE DEF f
  <2>1. f \in Bufs /\ d \in Values
    BY <1>4 DEF Block
  <2>2. f.ref + 1 \in 1 .. MaxRef
    BY <1>2, <2>1, CacheAssumption DEF Bufs
  <2>3. b \in Bufs /\ b.ref = f.ref /\ b.up /\ b.dirty /\ b.data = v
    BY <2>1 DEF Bufs
  <2> HIDE DEF b
  <2> DEFINE nb == [b EXCEPT !.ref = @ + 1]
  <2>4. nb \in Bufs /\ nb.ref = f.ref + 1 /\ nb.up /\ nb.dirty /\ nb.data = v
    BY <2>2, <2>3 DEF Bufs
  <2> SUFFICES Block(nb, d, latest'[l], role'[l], listed /\ f.ref # 0, TRUE, sure)
    OBVIOUS
  <2> HIDE DEF nb
  <2> QED BY <1>3, <1>4, <2>2, <2>4 DEF Block
<1> HIDE DEF b
<1>5. \A d, listed, cached, sure :
        /\ d = ShakenDisk(ToSet(Victims))[l]
        /\ Block(Found(l), d, latest[l], role[l], listed, cached, sure)
        => Block([b EXCEPT !.ref = @ + 1], d, latest'[l], role'[l],
                 listed /\ Found(l).ref # 0, TRUE, sure)
  BY <1>4, Zenon
<1> QED BY <1>1, <1>3, <1>5, AcquireStep

\* ext4_block_get where the read fails: the buffer that is dropped is not up to date,
\* so it is not dirty and nothing is lost with it.
LEMMA GetReadFailsStep ==
  ASSUME IInv, NEW l \in Lbas, GetReadFails(l)
  PROVE  IInv'
<1> DEFINE S == ToSet(Victims)
           gone == IF Found(l).ref = 0 THEN S \cup {l} ELSE S
<1>1. /\ ~Found(l).up /\ disk' = ShakenDisk(S) /\ buf' = ShakenBuf(gone)
      /\ lost' = ShakenLost(S)
      /\ lru' = Without(lru, gone) /\ dirtyList' = Without(dirtyList, gone)
      /\ ret' = "EIO" /\ UNCHANGED <<writeBack, role, latest>>
  BY Zenon DEF GetReadFails
<1>2. S \subseteq {m \in Lbas : buf[m].ref = 0}
  BY VictimFacts
<1>3. l \in gone \ S => buf[l].ref = 0 /\ ~buf[l].dirty
  <2> SUFFICES ASSUME l \in gone \ S PROVE buf[l].ref = 0 /\ ~buf[l].dirty
    OBVIOUS
  <2>1. Found(l) = buf[l] /\ Found(l).ref = 0
    BY DEF Found, ShakenBuf
  <2> QED BY <1>1, <2>1 DEF IInv, Block
<1>4. gone \subseteq {m \in Lbas : buf[m].ref = 0} /\ gone \subseteq S \cup {l}
  BY <1>2, <1>3
<1>5. ShakenDisk(gone) = ShakenDisk(S) /\ ShakenLost(gone) = ShakenLost(S)
  <2>1. {m \in gone : buf[m].dirty} = {m \in S : buf[m].dirty}
    BY <1>3, <1>4
  <2> QED BY <2>1, Zenon DEF ShakenDisk, ShakenLost
<1> HIDE DEF S, gone
<1>6. /\ Unique(lru') /\ ToSet(lru') = ToSet(lru) \ gone
      /\ Unique(dirtyList') /\ ToSet(dirtyList') = ToSet(dirtyList) \ gone
      /\ buf' \in [Lbas -> Bufs] /\ disk' \in [Lbas -> Values] /\ lost' \subseteq Lbas
      /\ \A m \in Lbas : Block(buf'[m], disk'[m], latest[m], role[m],
                               m \in ToSet(dirtyList) \ gone, m \in ToSet(lru) \ gone,
                               m \notin lost')
  BY <1>1, <1>4, <1>5, ShakeKeeps
<1> QED BY <1>1, <1>6 DEF IInv

----------------------------------------------------------------------------
(* Steps that touch one buffer *)

\* A step after which every block but l is as before, and l satisfies the invariant.
LEMMA OneBlockStep ==
  ASSUME IInv, NEW l \in Lbas, Unique(lru'), Unique(dirtyList'),
         ToSet(lru') \ {l} = ToSet(lru) \ {l},
         ToSet(dirtyList') \ {l} = ToSet(dirtyList) \ {l}, lost' \ {l} = lost \ {l},
         buf' = [buf EXCEPT ![l] = buf'[l]], disk' = [disk EXCEPT ![l] = disk'[l]],
         latest' = [latest EXCEPT ![l] = latest'[l]], role' = [role EXCEPT ![l] = role'[l]],
         writeBack' \in 0 .. MaxBack, ret' \in {"EOK", "EIO"},
         Block(buf'[l], disk'[l], latest'[l], role'[l],
               l \in ToSet(dirtyList'), l \in ToSet(lru'), l \notin lost')
  PROVE  IInv'
<1>1. /\ buf' = [m \in Lbas |-> buf'[m]] /\ disk' = [m \in Lbas |-> disk'[m]]
      /\ latest' = [m \in Lbas |-> latest'[m]] /\ role' = [m \in Lbas |-> role'[m]]
  BY DEF IInv
<1>2. ASSUME NEW m \in Lbas
      PROVE  Block(buf'[m], disk'[m], latest'[m], role'[m],
                   m \in ToSet(dirtyList'), m \in ToSet(lru'), m \notin lost')
  <2>1. CASE m # l
    <3>1. buf'[m] = buf[m] /\ disk'[m] = disk[m] /\ latest'[m] = latest[m] /\ role'[m] = role[m]
      BY <2>1 DEF IInv
    <3>2. /\ m \in ToSet(dirtyList') <=> m \in ToSet(dirtyList)
          /\ m \in ToSet(lru') <=> m \in ToSet(lru)
          /\ m \in lost' <=> m \in lost
      BY <2>1
    <3>3. Block(buf[m], disk[m], latest[m], role[m],
                m \in ToSet(dirtyList), m \in ToSet(lru), m \notin lost)
      BY DEF IInv
    <3> QED BY <3>1, <3>2, <3>3 DEF Block
  <2> QED BY <2>1
<1>3. lost' \subseteq Lbas
  BY DEF IInv
<1> QED BY <1>1, <1>2, <1>3, Assembled

\* The invariant of one block and of the lists, out of IInv.
LEMMA OneBlock ==
  ASSUME IInv, NEW l \in Lbas
  PROVE  /\ Block(buf[l], disk[l], latest[l], role[l],
                  l \in ToSet(dirtyList), l \in ToSet(lru), l \notin lost)
         /\ buf[l] \in Bufs /\ buf[l].ref \in Nat /\ Unique(lru) /\ Unique(dirtyList)
         /\ buf \in [Lbas -> Bufs] /\ disk \in [Lbas -> Values]
         /\ latest \in [Lbas -> Values] /\ role \in [Lbas -> {"meta", "data", "free"}]
         /\ writeBack \in 0 .. MaxBack /\ ret \in {"EOK", "EIO"}
BY CacheAssumption DEF IInv, Bufs

\* ext4_bcache_set_dirty by the holder of a reference.
LEMMA SetDirtyStep ==
  ASSUME IInv, NEW l \in Lbas, NEW v \in Values, SetDirty(l, v)
  PROVE  IInv'
<1> DEFINE b == buf[l]
           nb == [b EXCEPT !.up = TRUE, !.dirty = TRUE, !.data = v]
<1>1. /\ b.ref > 0 /\ role[l] = "meta"
      /\ latest' = [latest EXCEPT ![l] = v]
      /\ UNCHANGED <<lru, dirtyList, writeBack, disk, role, lost, ret>>
  BY DEF SetDirty
<1>2. /\ Block(b, disk[l], latest[l], role[l],
               l \in ToSet(dirtyList), l \in ToSet(lru), l \notin lost)
      /\ b \in Bufs /\ b.ref \in Nat
  BY OneBlock
<1>3. buf' = [buf EXCEPT ![l] = nb]
  BY OneBlock DEF SetDirty, Bufs
<1>4. nb \in Bufs /\ nb.up /\ nb.dirty /\ nb.ref = b.ref /\ nb.data = v
  BY <1>2 DEF Bufs
<1> HIDE DEF b, nb
<1>5. buf'[l] = nb /\ latest'[l] = v
  BY <1>1, <1>3, OneBlock
<1>6. Block(buf'[l], disk'[l], latest'[l], role'[l],
            l \in ToSet(dirtyList'), l \in ToSet(lru'), l \notin lost')
  BY <1>1, <1>2, <1>4, <1>5, NewBufFacts DEF Block
<1> QED BY <1>1, <1>3, <1>5, <1>6, OneBlock, OneBlockStep

\* The journal marks a buffer it holds.
LEMMA SetFlagsStep ==
  ASSUME IInv, NEW l \in Lbas, NEW tmp \in BOOLEAN, SetFlags(l, tmp)
  PROVE  IInv'
<1> DEFINE b == buf[l]
           nb == [b EXCEPT !.flush = TRUE, !.tmp = @ \/ tmp]
<1>1. b.ref > 0 /\ UNCHANGED <<lru, dirtyList, writeBack, disk, role, latest, lost, ret>>
  BY DEF SetFlags
<1>2. /\ Block(b, disk[l], latest[l], role[l],
               l \in ToSet(dirtyList), l \in ToSet(lru), l \notin lost)
      /\ b \in Bufs /\ b.ref \in Nat
  BY OneBlock
<1>3. buf' = [buf EXCEPT ![l] = nb]
  BY OneBlock DEF SetFlags, Bufs
<1>4. /\ nb \in Bufs /\ nb.up = b.up /\ nb.dirty = b.dirty /\ nb.ref = b.ref
      /\ nb.data = b.data
  BY <1>2 DEF Bufs
<1> HIDE DEF b, nb
<1>5. buf'[l] = nb
  BY <1>3, OneBlock
<1>6. Block(buf'[l], disk'[l], latest'[l], role'[l],
            l \in ToSet(dirtyList'), l \in ToSet(lru'), l \notin lost')
  BY <1>1, <1>2, <1>4, <1>5, NewBufFacts DEF Block
<1> QED BY <1>1, <1>3, <1>5, <1>6, OneBlock, OneBlockStep

\* The device after the write of at most the buffer of l.
LEMMA WrittenOne ==
  ASSUME IInv, NEW l \in Lbas, NEW c \in BOOLEAN,
         disk' = IF c THEN Written({l}) ELSE disk
  PROVE  /\ disk' = [disk EXCEPT ![l] = disk'[l]]
         /\ disk'[l] = IF c /\ Stores THEN buf[l].data ELSE disk[l]
BY DEF IInv, Written

\* The dirty list after l was taken off it, or put at its head.
LEMMA Relisted ==
  ASSUME IInv, NEW l \in Lbas, NEW c \in BOOLEAN,
         dirtyList' = IF c THEN <<l>> \o Without(dirtyList, {l}) ELSE Without(dirtyList, {l})
  PROVE  /\ Unique(dirtyList') /\ ToSet(dirtyList') \ {l} = ToSet(dirtyList) \ {l}
         /\ l \in ToSet(dirtyList') <=> c
<1> DEFINE w == Without(dirtyList, {l})
<1>1. Unique(w) /\ ToSet(w) = ToSet(dirtyList) \ {l}
  BY WithoutFacts DEF IInv, Unique
<1> HIDE DEF w
<1>2. Unique(<<l>> \o w) /\ ToSet(<<l>> \o w) = ToSet(w) \cup {l}
  BY <1>1, HeadFacts DEF Unique
<1>3. dirtyList' = IF c THEN <<l>> \o w ELSE w
  BY DEF w
<1> QED BY <1>1, <1>2, <1>3

\* The LRU order after l was taken out of it, or left where it was.
LEMMA Dropped ==
  ASSUME IInv, NEW l \in Lbas, l \in ToSet(lru), NEW c \in BOOLEAN,
         lru' = IF c THEN Without(lru, {l}) ELSE lru
  PROVE  /\ Unique(lru') /\ ToSet(lru') \ {l} = ToSet(lru) \ {l}
         /\ l \in ToSet(lru') <=> ~c
<1>1. Unique(Without(lru, {l})) /\ ToSet(Without(lru, {l})) = ToSet(lru) \ {l}
  BY WithoutFacts DEF IInv, Unique
<1> QED BY <1>1 DEF IInv

\* ext4_block_set.
LEMMA SetStep ==
  ASSUME IInv, NEW l \in Lbas, NEW w \in Results, Set(l, w)
  PROVE  IInv'
<1> DEFINE b == buf[l]
<1>1. b.ref > 0 /\ ret' = "EOK" /\ UNCHANGED <<writeBack, role, latest>>
  BY DEF Set
<1>2. /\ Block(b, disk[l], latest[l], role[l],
               l \in ToSet(dirtyList), l \in ToSet(lru), l \notin lost)
      /\ b \in Bufs /\ b.ref \in Nat
  BY OneBlock
<1>3. l \in ToSet(lru)
  BY <1>1, <1>2, NewBufFacts DEF Block
<1>4. CASE /\ b.ref > 1 /\ buf' = [buf EXCEPT ![l].ref = @ - 1]
           /\ UNCHANGED <<lru, dirtyList, disk, lost>>
  <2> DEFINE nb == [b EXCEPT !.ref = @ - 1]
  <2>1. buf' = [buf EXCEPT ![l] = nb]
    BY <1>4, OneBlock DEF Bufs
  <2>2. b.ref \in 0 .. MaxRef
    BY <1>2 DEF Bufs
  <2>3. b.ref - 1 \in 0 .. MaxRef /\ b.ref - 1 # 0
    BY <1>4, <2>2, CacheAssumption
  <2>4. /\ nb \in Bufs /\ nb.up = b.up /\ nb.dirty = b.dirty /\ nb.data = b.data
        /\ nb.ref = b.ref - 1
    BY <1>2, <2>3 DEF Bufs
  <2> HIDE DEF b, nb
  <2>5. buf'[l] = nb
    BY <2>1, OneBlock
  <2>6. Block(buf'[l], disk'[l], latest'[l], role'[l],
              l \in ToSet(dirtyList'), l \in ToSet(lru'), l \notin lost')
    <3>1. /\ l \in ToSet(lru') /\ l \notin ToSet(dirtyList') /\ disk'[l] = disk[l]
          /\ latest'[l] = latest[l] /\ role'[l] = role[l] /\ lost' = lost
      BY <1>1, <1>2, <1>3, <1>4 DEF Block
    <3> QED BY <1>2, <2>3, <2>4, <2>5, <3>1 DEF Block
  <2> QED BY <1>1, <1>4, <2>1, <2>5, <2>6, OneBlock, OneBlockStep
<1>5. CASE b.ref = 1 /\ SetLast(l, w)
  <2> DEFINE flushes == b.dirty /\ b.up /\ ~Delays(b)
             drops == ~b.up \/ b.tmp
             wr == flushes /\ w = "EOK"
             kb == [b EXCEPT !.ref = 0, !.flush = @ /\ ~flushes, !.dirty = @ /\ ~wr]
             nb == IF drops THEN NewBuf ELSE kb
             back == b.dirty /\ b.up /\ ~flushes
  <2>1. /\ disk' = IF wr THEN Written({l}) ELSE disk
        /\ lost' = lost \cup (IF ~flushes THEN {} ELSE IF w = "EOK" THEN Unstored({l})
                             ELSE IF drops THEN {l} ELSE {})
        /\ buf' = [buf EXCEPT ![l] = nb]
        /\ lru' = IF drops THEN Without(lru, {l}) ELSE lru
        /\ dirtyList' = IF back THEN <<l>> \o Without(dirtyList, {l})
                        ELSE Without(dirtyList, {l})
    BY <1>5, Zenon DEF SetLast
  <2>2. b.dirty \in BOOLEAN /\ b.up \in BOOLEAN /\ b.tmp \in BOOLEAN /\ b.flush \in BOOLEAN
        /\ b.data \in Values
    BY <1>2 DEF Bufs
  <2>3. Delays(b) \in BOOLEAN /\ (Delays(b) => ~b.tmp)
    BY DEF Delays
  <2>4. ~IoFails => w = "EOK"
    BY DEF Results
  <2>5. kb \in Bufs /\ kb.up = b.up /\ kb.dirty = (b.dirty /\ ~wr) /\ kb.ref = 0 /\ kb.data = b.data
    <3> DEFINE x == b.flush /\ ~flushes
               y == b.dirty /\ ~wr
    <3>1. x \in BOOLEAN /\ y \in BOOLEAN /\ 0 \in 0 .. MaxRef
      BY <2>2, <2>3, CacheAssumption
    <3>2. kb = [b EXCEPT !.ref = 0, !.flush = x, !.dirty = y]
      OBVIOUS
    <3> HIDE DEF x, y, kb
    <3>3. kb \in Bufs /\ kb.up = b.up /\ kb.dirty = y /\ kb.ref = 0 /\ kb.data = b.data
      BY <1>2, <3>1, <3>2 DEF Bufs
    <3> QED BY <3>3 DEF y
  <2>6. wr \in BOOLEAN /\ drops \in BOOLEAN /\ back \in BOOLEAN
    BY <2>2, <2>3
  <2>7. /\ disk' = [disk EXCEPT ![l] = disk'[l]]
        /\ disk'[l] = IF wr /\ Stores THEN b.data ELSE disk[l]
    BY <2>1, <2>6, WrittenOne, Zenon
  <2>8. /\ Unique(dirtyList') /\ ToSet(dirtyList') \ {l} = ToSet(dirtyList) \ {l}
        /\ l \in ToSet(dirtyList') <=> back
    BY <2>1, <2>6, Relisted, Zenon
  <2>9. /\ Unique(lru') /\ ToSet(lru') \ {l} = ToSet(lru) \ {l}
        /\ l \in ToSet(lru') <=> ~drops
    BY <1>3, <2>1, <2>6, Dropped, Zenon
  <2>10. buf'[l] = nb
    <3> HIDE DEF nb
    <3> QED BY <2>1, OneBlock
  <2>13. /\ lost' \ {l} = lost \ {l}
         /\ l \notin lost' => l \notin lost /\ (wr => Stores) /\ (flushes /\ drops => wr)
    BY <2>1 DEF Unstored
  <2>11. Block(nb, disk'[l], latest[l], role[l], back, ~drops, l \notin lost')
    <3> HIDE DEF kb, b
    <3>1. CASE drops
      <4>1. nb = NewBuf /\ ~back
        BY <2>3, <3>1
      <4> QED BY <1>2, <2>2, <2>3, <2>4, <2>7, <2>13, <3>1, <4>1, NewBufFacts DEF Block
    <3>2. CASE ~drops
      <4>1. nb = kb
        BY <3>2
      <4> HIDE DEF nb
      <4> QED BY <1>2, <2>2, <2>3, <2>4, <2>5, <2>7, <2>13, <3>2, <4>1 DEF Block
    <3> QED BY <3>1, <3>2
  <2> HIDE DEF nb, back, drops
  <2>12. Block(buf'[l], disk'[l], latest'[l], role'[l],
               l \in ToSet(dirtyList'), l \in ToSet(lru'), l \notin lost')
    BY <1>1, <2>8, <2>9, <2>10, <2>11 DEF Block
  <2> QED BY <1>1, <2>1, <2>7, <2>8, <2>9, <2>10, <2>12, <2>13, OneBlock, OneBlockStep, ZenonT(60)
<1> QED BY <1>4, <1>5 DEF Set

\* ext4_block_flush_lba.
LEMMA FlushLbaStep ==
  ASSUME IInv, NEW l \in Lbas, NEW w \in Results, NEW again \in Results, FlushLba(l, w, again)
  PROVE  IInv'
<1> DEFINE b == buf[l]
           flushes == b.dirty /\ b.up
           held == b.ref > 0
           retries == flushes /\ w # "EOK" /\ ~held /\ ~Delays(b)
           clean == flushes /\ (w = "EOK" \/ (retries /\ again = "EOK"))
           drops == ~held /\ (~b.up \/ b.tmp)
           kb == [b EXCEPT !.dirty = @ /\ ~clean, !.flush = @ /\ ~retries]
           nb == IF drops THEN NewBuf ELSE kb
           back == flushes /\ ~clean /\ ~retries /\ ~held
<1>1. /\ Cached(l)
      /\ disk' = IF clean THEN Written({l}) ELSE disk
      /\ lost' = lost \cup (IF clean THEN Unstored({l}) ELSE IF flushes /\ drops THEN {l} ELSE {})
      /\ buf' = [buf EXCEPT ![l] = nb]
      /\ lru' = IF held THEN lru
                ELSE IF drops THEN Without(lru, {l})
                ELSE Append(Without(lru, {l}), l)
      /\ dirtyList' = IF back THEN <<l>> \o Without(dirtyList, {l})
                      ELSE Without(dirtyList, {l})
      /\ ret' = w /\ UNCHANGED <<writeBack, role, latest>>
  BY Zenon DEF FlushLba
<1>2. /\ Block(b, disk[l], latest[l], role[l],
               l \in ToSet(dirtyList), l \in ToSet(lru), l \notin lost)
      /\ b \in Bufs /\ b.ref \in Nat
  BY OneBlock
<1>3. l \in ToSet(lru)
  BY <1>1 DEF Cached, Contains, ToSet
<1>4. /\ b.dirty \in BOOLEAN /\ b.up \in BOOLEAN /\ b.tmp \in BOOLEAN /\ b.flush \in BOOLEAN
      /\ b.data \in Values
  BY <1>2 DEF Bufs
<1>5. Delays(b) \in BOOLEAN /\ (Delays(b) => ~b.tmp)
  BY DEF Delays
<1>6. (~IoFails => w = "EOK") /\ w \in {"EOK", "EIO"}
  BY DEF Results
<1>7. kb \in Bufs /\ kb.up = b.up /\ kb.dirty = (b.dirty /\ ~clean) /\ kb.ref = b.ref /\ kb.data = b.data
  <2> DEFINE x == b.flush /\ ~retries
             y == b.dirty /\ ~clean
  <2>1. x \in BOOLEAN /\ y \in BOOLEAN
    BY <1>4
  <2>2. kb = [b EXCEPT !.dirty = y, !.flush = x]
    OBVIOUS
  <2> HIDE DEF x, y, kb
  <2>3. kb \in Bufs /\ kb.up = b.up /\ kb.dirty = y /\ kb.ref = b.ref /\ kb.data = b.data
    BY <1>2, <2>1, <2>2 DEF Bufs
  <2> QED BY <2>3 DEF y
<1>8. clean \in BOOLEAN /\ drops \in BOOLEAN /\ back \in BOOLEAN /\ held \in BOOLEAN
  BY <1>2, <1>4, <1>5
<1>9. /\ disk' = [disk EXCEPT ![l] = disk'[l]]
      /\ disk'[l] = IF clean /\ Stores THEN b.data ELSE disk[l]
  BY <1>1, <1>8, WrittenOne, Zenon
<1>10. /\ Unique(dirtyList') /\ ToSet(dirtyList') \ {l} = ToSet(dirtyList) \ {l}
       /\ l \in ToSet(dirtyList') <=> back
  BY <1>1, <1>8, Relisted, Zenon
<1>11. /\ Unique(lru') /\ ToSet(lru') \ {l} = ToSet(lru) \ {l}
       /\ l \in ToSet(lru') <=> ~drops
  <2> DEFINE u == Without(lru, {l})
  <2>1. Unique(u) /\ ToSet(u) = ToSet(lru) \ {l}
    BY WithoutFacts DEF IInv, Unique
  <2> HIDE DEF u
  <2>2. Unique(Append(u, l)) /\ ToSet(Append(u, l)) = ToSet(u) \cup {l}
    BY <2>1, AppendFacts DEF Unique
  <2>3. lru' = IF held THEN lru ELSE IF drops THEN u ELSE Append(u, l)
    BY <1>1, Zenon DEF u
  <2>4. held => ~drops
    OBVIOUS
  <2>5. Unique(lru)
    BY DEF IInv
  <2> HIDE DEF held, drops
  <2> QED BY <1>3, <2>1, <2>2, <2>3, <2>4, <2>5
<1>12. buf'[l] = nb
  <2> HIDE DEF nb
  <2> QED BY <1>1, OneBlock
<1>15. /\ lost' \ {l} = lost \ {l}
       /\ l \notin lost' => l \notin lost /\ (clean => Stores) /\ (flushes /\ drops => clean)
  BY <1>1 DEF Unstored
<1>13. Block(nb, disk'[l], latest[l], role[l], back, ~drops, l \notin lost')
  <2> HIDE DEF kb, b
  <2>1. CASE drops
    <3>1. nb = NewBuf
      BY <2>1
    <3>2. ~back
      BY <1>4, <1>5, <2>1
    <3> HIDE DEF back
    <3> QED BY <1>2, <1>4, <1>6, <1>9, <1>15, <2>1, <3>1, <3>2, NewBufFacts DEF Block
  <2>2. CASE ~drops
    <3>1. nb = kb
      BY <2>2
    <3> HIDE DEF nb
    <3> QED BY <1>2, <1>4, <1>5, <1>6, <1>7, <1>9, <1>15, <2>2, <3>1 DEF Block
  <2> QED BY <2>1, <2>2
<1> HIDE DEF nb, back, drops
<1>14. Block(buf'[l], disk'[l], latest'[l], role'[l],
             l \in ToSet(dirtyList'), l \in ToSet(lru'), l \notin lost')
  BY <1>1, <1>10, <1>11, <1>12, <1>13 DEF Block
<1> QED BY <1>1, <1>6, <1>9, <1>10, <1>11, <1>12, <1>14, <1>15, OneBlock, OneBlockStep, ZenonT(60)

\* ext4_fwrite of a whole block, past the cache.
LEMMA WriteDirectStep ==
  ASSUME IInv, NEW l \in Lbas, NEW v \in Values, WriteDirect(l, v)
  PROVE  IInv'
<1>1. /\ role[l] # "meta" /\ UNCHANGED <<buf, lru, dirtyList, writeBack>> /\ ret' = "EOK"
      /\ disk' = [disk EXCEPT ![l] = disk'[l]] /\ (Stores => disk'[l] = v) /\ disk'[l] \in Values
      /\ role' = [role EXCEPT ![l] = "data"] /\ role'[l] = "data"
      /\ latest' = [latest EXCEPT ![l] = v] /\ latest'[l] = v
      /\ lost' \ {l} = lost \ {l} /\ (l \notin lost' => l \notin lost /\ Stores)
  BY OneBlock DEF WriteDirect, Unstored
<1>2. Block(buf[l], disk[l], latest[l], role[l],
            l \in ToSet(dirtyList), l \in ToSet(lru), l \notin lost)
  BY OneBlock
<1>3. Block(buf'[l], disk'[l], latest'[l], role'[l],
            l \in ToSet(dirtyList'), l \in ToSet(lru'), l \notin lost')
  BY <1>1, <1>2 DEF Block
<1>4. buf' = [buf EXCEPT ![l] = buf'[l]]
  BY <1>1, OneBlock
<1> QED BY <1>1, <1>3, <1>4, OneBlock, OneBlockStep

\* A data block of a file is freed.
LEMMA FreeDataStep ==
  ASSUME IInv, NEW l \in Lbas, FreeData(l)
  PROVE  IInv'
<1> DEFINE b == buf[l]
           nb == [b EXCEPT !.up = FALSE, !.dirty = FALSE]
<1>1. /\ role[l] = "data" /\ UNCHANGED <<lru, writeBack, disk, latest, lost, ret>>
      /\ role' = [role EXCEPT ![l] = "free"] /\ dirtyList' = Without(dirtyList, {l})
  BY DEF FreeData
<1>2. /\ Block(b, disk[l], latest[l], role[l],
               l \in ToSet(dirtyList), l \in ToSet(lru), l \notin lost)
      /\ b \in Bufs
  BY OneBlock
<1>3. buf' = [buf EXCEPT ![l] = nb]
  BY OneBlock DEF FreeData, Bufs
<1>4. nb \in Bufs /\ ~nb.up /\ ~nb.dirty /\ (b = NewBuf => nb = NewBuf)
  BY <1>2, Invalidated
<1> HIDE DEF b, nb
<1>5. buf'[l] = nb /\ role'[l] = "free"
  BY <1>1, <1>3, OneBlock
<1>6. Unique(dirtyList') /\ ToSet(dirtyList') = ToSet(dirtyList) \ {l}
  BY <1>1, WithoutFacts DEF IInv, Unique
<1>7. Block(buf'[l], disk'[l], latest'[l], role'[l],
            l \in ToSet(dirtyList'), l \in ToSet(lru'), l \notin lost')
  BY <1>1, <1>2, <1>4, <1>5, <1>6 DEF Block
<1> QED BY <1>1, <1>3, <1>5, <1>6, <1>7, OneBlock, OneBlockStep

----------------------------------------------------------------------------
(* Steps that touch many buffers *)

\* ext4_balloc_free_block(s) without a journal.
LEMMA FreeBlocksStep ==
  ASSUME IInv, NEW from \in Lbas, NEW n \in 1 .. MaxRange, FreeBlocks(from, n)
  PROVE  IInv'
<1> DEFINE range == from .. from + n - 1
           S == Visited(from, n)
           nb(m) == [buf[m] EXCEPT !.up = FALSE, !.dirty = FALSE]
<1>1. /\ \A m \in range : m \in Lbas /\ role[m] = "meta" /\ buf[m].ref = 0
      /\ buf' = [m \in Lbas |-> IF m \in S THEN nb(m) ELSE buf[m]]
      /\ dirtyList' = Without(dirtyList, S)
      /\ role' = [m \in Lbas |-> IF m \in range THEN "free" ELSE role[m]]
      /\ lost' = IF Cached(from) THEN lost ELSE lost \cup {m \in range : buf[m].dirty}
      /\ UNCHANGED <<lru, writeBack, disk, latest, ret>>
  BY DEF FreeBlocks
<1>2. S \subseteq range
  BY DEF Visited
<1>3. Unique(dirtyList') /\ ToSet(dirtyList') = ToSet(dirtyList) \ S
  BY <1>1, WithoutFacts, ZenonT(60) DEF IInv, Unique
<1>4. \A m \in Lbas : Cached(m) <=> m \in ToSet(lru)
  BY DEF Cached, Contains, ToSet
<1>5. Cached(from) => \A m \in range : m \in ToSet(lru) => m \in S
  BY <1>1, <1>4 DEF Visited
<1> HIDE DEF range, S
<1>6. ASSUME NEW m \in Lbas
      PROVE  Block(buf'[m], disk'[m], latest'[m], role'[m],
                   m \in ToSet(dirtyList'), m \in ToSet(lru'), m \notin lost')
  <2>1. /\ Block(buf[m], disk[m], latest[m], role[m],
                 m \in ToSet(dirtyList), m \in ToSet(lru), m \notin lost)
        /\ buf[m] \in Bufs
    BY OneBlock
  <2>2. CASE m \in S
    <3>1. /\ buf'[m] = nb(m) /\ role'[m] = "free" /\ disk'[m] = disk[m]
          /\ latest'[m] = latest[m] /\ m \notin ToSet(dirtyList') /\ lru' = lru
          /\ m \notin lost' => m \notin lost
      BY <1>1, <1>2, <1>3, <2>2
    <3>2. nb(m) \in Bufs /\ ~nb(m).up /\ ~nb(m).dirty /\ (buf[m] = NewBuf => nb(m) = NewBuf)
      BY <2>1, Invalidated
    <3> HIDE DEF nb
    <3> QED BY <2>1, <3>1, <3>2 DEF Block
  <2>3. CASE m \notin S
    <3>1. /\ buf'[m] = buf[m] /\ role'[m] \in {"free", role[m]} /\ disk'[m] = disk[m]
          /\ latest'[m] = latest[m] /\ lru' = lru
          /\ m \in ToSet(dirtyList') <=> m \in ToSet(dirtyList)
      BY <1>1, <1>3, <2>3
    <3>2. m \notin lost' => m \notin lost /\ (role'[m] # role[m] => ~buf[m].dirty)
      <4> SUFFICES ASSUME m \notin lost', role'[m] # role[m] PROVE ~buf[m].dirty
        BY <1>1
      <4>1. m \in range
        BY <1>1
      <4>2. CASE Cached(from)
        <5>1. buf[m] = NewBuf
          BY <1>5, <2>1, <2>3, <4>1, <4>2 DEF Block
        <5> QED BY <5>1, NewBufFacts
      <4>3. CASE ~Cached(from)
        BY <1>1, <4>1, <4>3
      <4> QED BY <4>2, <4>3
    <3> QED BY <2>1, <3>1, <3>2 DEF Block
  <2> QED BY <2>2, <2>3
<1>7. /\ buf' = [m \in Lbas |-> buf'[m]] /\ disk' = [m \in Lbas |-> disk'[m]]
      /\ latest' = [m \in Lbas |-> latest'[m]] /\ role' = [m \in Lbas |-> role'[m]]
  BY <1>1 DEF IInv
<1>8. /\ Unique(lru') /\ writeBack' \in 0 .. MaxBack /\ ret' \in {"EOK", "EIO"}
      /\ lost' \subseteq Lbas
  BY <1>1 DEF IInv
<1> QED BY <1>3, <1>6, <1>7, <1>8, Assembled

\* ext4_block_cache_flush up to the k-th member of the list.
LEMMA FlushFirstStep ==
  ASSUME IInv, NEW k \in 0 .. Len(dirtyList), FlushFirst(k),
         UNCHANGED <<lru, role, latest>>, writeBack' \in 0 .. MaxBack
  PROVE  IInv'
<1> DEFINE S == ToSet(SubSeq(dirtyList, 1, k))
           nb(m) == [buf[m] EXCEPT !.dirty = FALSE]
<1>1. /\ disk' = Written(S) /\ lost' = lost \cup Unstored(S)
      /\ buf' = [m \in Lbas |-> IF m \in S THEN nb(m) ELSE buf[m]]
      /\ dirtyList' = SubSeq(dirtyList, k + 1, Len(dirtyList))
      /\ ret' \in {"EOK", "EIO"}
  BY DEF FlushFirst
<1>2. Unique(dirtyList') /\ ToSet(dirtyList') = ToSet(dirtyList) \ S /\ S \subseteq ToSet(dirtyList)
  BY <1>1, CutFacts DEF IInv, Unique
<1> HIDE DEF S
<1>6. lost' \subseteq Lbas /\ \A m \in Lbas : m \notin lost' => m \notin lost /\ (m \in S => Stores)
  BY <1>1, <1>2 DEF Unstored, IInv, Unique, ToSet
<1>3. ASSUME NEW m \in Lbas
      PROVE  Block(buf'[m], disk'[m], latest'[m], role'[m],
                   m \in ToSet(dirtyList'), m \in ToSet(lru'), m \notin lost')
  <2>1. /\ Block(buf[m], disk[m], latest[m], role[m],
                 m \in ToSet(dirtyList), m \in ToSet(lru), m \notin lost)
        /\ buf[m] \in Bufs
    BY OneBlock
  <2>2. CASE m \in S
    <3>1. /\ buf'[m] = nb(m) /\ disk'[m] = (IF Stores THEN buf[m].data ELSE disk[m])
          /\ m \notin ToSet(dirtyList') /\ m \in ToSet(dirtyList)
      BY <1>1, <1>2, <2>2 DEF Written
    <3>2. /\ nb(m) \in Bufs /\ ~nb(m).dirty /\ nb(m).up = buf[m].up /\ nb(m).data = buf[m].data
          /\ buf[m].data \in Values
      BY <2>1 DEF Bufs
    <3> HIDE DEF nb
    <3> QED BY <1>6, <2>1, <2>2, <3>1, <3>2 DEF Block
  <2>3. CASE m \notin S
    <3>1. /\ buf'[m] = buf[m] /\ disk'[m] = disk[m]
          /\ m \in ToSet(dirtyList') <=> m \in ToSet(dirtyList)
      BY <1>1, <1>2, <2>3 DEF Written
    <3> QED BY <1>6, <2>1, <3>1 DEF Block
  <2> QED BY <2>2, <2>3
<1>4. /\ buf' = [m \in Lbas |-> buf'[m]] /\ disk' = [m \in Lbas |-> disk'[m]]
      /\ latest' = [m \in Lbas |-> latest'[m]] /\ role' = [m \in Lbas |-> role'[m]]
  BY <1>1 DEF IInv, Written
<1>5. Unique(lru')
  BY DEF IInv
<1> QED BY <1>1, <1>2, <1>3, <1>4, <1>5, <1>6, Assembled

\* ext4_umount drops every buffer.
LEMMA CleanupStep ==
  ASSUME IInv, NEW failed \in SUBSET Lbas, Cleanup(failed)
  PROVE  IInv'
<1> DEFINE S == {m \in Lbas : buf[m].dirty} \ failed
<1>1. /\ disk' = Written(S) /\ buf' = [m \in Lbas |-> NewBuf]
      /\ lru' = <<>> /\ dirtyList' = <<>> /\ ret' = "EOK"
      /\ lost' = lost \cup failed \cup Unstored({m \in Lbas : buf[m].dirty})
      /\ UNCHANGED <<writeBack, role, latest>>
  BY DEF Cleanup
<1>2. Unique(<<>>) /\ ToSet(<<>>) = {}
  BY DEF Unique, IsInjective, ToSet
<1>3. ASSUME NEW m \in Lbas
      PROVE  Block(buf'[m], disk'[m], latest'[m], role'[m],
                   m \in ToSet(dirtyList'), m \in ToSet(lru'), m \notin lost')
  <2>1. /\ Block(buf[m], disk[m], latest[m], role[m],
                 m \in ToSet(dirtyList), m \in ToSet(lru), m \notin lost)
        /\ buf[m] \in Bufs /\ buf[m].data \in Values
    BY OneBlock DEF Bufs
  <2>2. /\ buf'[m] = NewBuf /\ m \notin ToSet(dirtyList') /\ m \notin ToSet(lru')
        /\ latest'[m] = latest[m] /\ role'[m] = role[m]
        /\ disk'[m] = IF Stores /\ m \in S THEN buf[m].data ELSE disk[m]
    BY <1>1, <1>2 DEF Written
  <2>3. m \in S => buf[m].dirty
    OBVIOUS
  <2>4. m \notin lost' => m \notin lost /\ (m \in S <=> buf[m].dirty) /\ (buf[m].dirty => Stores)
    BY <1>1 DEF Unstored
  <2> HIDE DEF S
  <2> QED BY <2>1, <2>2, <2>3, <2>4, NewBufFacts DEF Block
<1>4. /\ buf' = [m \in Lbas |-> buf'[m]] /\ disk' = [m \in Lbas |-> disk'[m]]
      /\ latest' = [m \in Lbas |-> latest'[m]] /\ role' = [m \in Lbas |-> role'[m]]
  BY <1>1 DEF IInv, Written
<1>5. writeBack' \in 0 .. MaxBack /\ lost' \subseteq Lbas
  BY <1>1 DEF IInv, Unstored
<1> QED BY <1>1, <1>2, <1>3, <1>4, <1>5, Assembled

\* ext4_block_cache_flush and ext4_block_cache_write_back.
LEMMA WriteBackStep ==
  ASSUME IInv, CacheFlush \/ WriteBackOn \/ WriteBackOff
  PROVE  IInv'
<1>1. writeBack \in 0 .. MaxBack /\ MaxBack \in Nat
  BY CacheAssumption DEF IInv
<1>2. CASE CacheFlush
  <2>1. PICK k \in 0 .. Len(dirtyList) : FlushFirst(k)
    BY <1>2 DEF CacheFlush
  <2>2. UNCHANGED <<lru, role, latest>> /\ writeBack' \in 0 .. MaxBack
    BY <1>1, <1>2 DEF CacheFlush
  <2> QED BY <2>1, <2>2, FlushFirstStep
<1>3. CASE WriteBackOn
  <2>1. writeBack' \in 0 .. MaxBack
    BY <1>1, <1>3 DEF WriteBackOn
  <2>2. UNCHANGED <<buf, lru, dirtyList, disk, role, latest, lost>> /\ ret' = "EOK"
    BY <1>3 DEF WriteBackOn
  <2> QED BY <2>1, <2>2 DEF IInv, Unique
<1>4. CASE WriteBackOff
  <2>1. writeBack' \in 0 .. MaxBack
    BY <1>1, <1>4 DEF WriteBackOff
  <2>2. UNCHANGED <<lru, role, latest>>
    BY <1>4 DEF WriteBackOff
  <2>3. CASE \E k \in 0 .. Len(dirtyList) : FlushFirst(k)
    BY <2>1, <2>2, <2>3, FlushFirstStep
  <2>4. CASE ret' = "EOK" /\ UNCHANGED <<buf, dirtyList, disk, lost>>
    BY <2>1, <2>2, <2>4 DEF IInv, Unique
  <2> QED BY <1>4, <2>3, <2>4 DEF WriteBackOff
<1> QED BY <1>2, <1>3, <1>4

----------------------------------------------------------------------------
(* Theorems *)

\* The cache starts empty.
LEMMA CacheInit == Init => IInv
<1> SUFFICES ASSUME Init PROVE IInv
  OBVIOUS
<1>1. Unique(<<>>) /\ ToSet(<<>>) = {}
  BY DEF Unique, IsInjective, ToSet
<1>2. \A m \in Lbas :
        Block(buf[m], disk[m], latest[m], role[m],
              m \in ToSet(dirtyList), m \in ToSet(lru), m \notin lost)
  BY <1>1, NewBufFacts, CacheAssumption DEF Init, Block
<1> QED BY <1>1, <1>2, NewBufFacts, CacheAssumption DEF Init, IInv

\* Every call keeps the invariant.
LEMMA CacheNext == IInv /\ [Next]_vars => IInv'
<1> SUFFICES ASSUME IInv, [Next]_vars PROVE IInv'
  OBVIOUS
<1>1. CASE UNCHANGED vars
  BY <1>1 DEF IInv, Unique, vars
<1>2. ASSUME NEW l \in Lbas, Get(l) \/ ShakeFails(l) \/ GetReadFails(l) \/ FreeData(l)
      PROVE  IInv'
  BY <1>2, GetStep, ShakeFailsStep, GetReadFailsStep, FreeDataStep
<1>3. ASSUME NEW l \in Lbas, NEW v \in Values,
             GetNoread(l, v) \/ SetDirty(l, v) \/ WriteDirect(l, v)
      PROVE  IInv'
  BY <1>3, GetNoreadStep, SetDirtyStep, WriteDirectStep
<1>4. ASSUME NEW l \in Lbas, NEW tmp \in BOOLEAN, SetFlags(l, tmp) PROVE IInv'
  BY <1>4, SetFlagsStep
<1>5. ASSUME NEW l \in Lbas, NEW w \in Results, Set(l, w) PROVE IInv'
  BY <1>5, SetStep
<1>6. ASSUME NEW l \in Lbas, NEW w \in Results, NEW again \in Results, FlushLba(l, w, again)
      PROVE  IInv'
  BY <1>6, FlushLbaStep
<1>7. ASSUME NEW l \in Lbas, NEW n \in 1 .. MaxRange, FreeBlocks(l, n) PROVE IInv'
  BY <1>7, FreeBlocksStep
<1>8. ASSUME NEW failed \in SUBSET Lbas, Cleanup(failed) PROVE IInv'
  BY <1>8, CleanupStep
<1>9. CASE CacheFlush \/ WriteBackOn \/ WriteBackOff
  BY <1>9, WriteBackStep
<1> QED BY <1>1, <1>2, <1>3, <1>4, <1>5, <1>6, <1>7, <1>8, <1>9, Zenon DEF Next

\* The invariant of the cache holds in every state.
LEMMA CacheInv == Spec => []IInv
BY CacheInit, CacheNext, PTL DEF Spec

\* The types of the state, for every cache and whatever the device does: among
\* them, that each block is in the LRU order and on dirty_list at most once and
\* that only cached blocks are on dirty_list.
THEOREM CacheTyped == Spec => []TypeOK
<1>1. IInv => TypeOK
  <2> SUFFICES ASSUME IInv PROVE TypeOK
    OBVIOUS
  <2>1. \A l \in Lbas : Cached(l) <=> l \in ToSet(lru)
    BY DEF Cached, Contains, ToSet
  <2>2. \A l \in Lbas : ~Cached(l) => buf[l] = NewBuf
    BY <2>1 DEF IInv, Block
  <2>3. ToSet(dirtyList) \subseteq ToSet(lru)
    <3>1. ToSet(dirtyList) \subseteq Lbas
      BY DEF IInv, Unique, ToSet
    <3> QED BY <3>1 DEF IInv, Block
  <2> QED BY <2>2, <2>3 DEF IInv, Unique, TypeOK
<1> QED BY <1>1, CacheInv, PTL

\* dirty_list holds only buffers that ext4_block_cache_flush can write, also when
\* reads and writes fail, so that its loop ends.
THEOREM CacheListFlushable == Spec => []ListFlushable
<1>1. IInv => ListFlushable
  <2> SUFFICES ASSUME IInv PROVE ListFlushable
    OBVIOUS
  <2>1. ToSet(dirtyList) \subseteq Lbas
    BY DEF IInv, Unique, ToSet
  <2> QED BY <2>1 DEF IInv, Block, ListFlushable, Waiting
<1> QED BY <1>1, CacheInv, PTL

\* Whoever reads a block sees what was last written to it, for every cache, whatever
\* fails and whichever ranges are freed; only a block whose own write was lost, in one
\* of the three ways BlockCache names, is left out.
THEOREM CacheLatestSeen == Spec => []LatestSeen
<1>1. IInv => LatestSeen
  <2> SUFFICES ASSUME IInv, NEW l \in Lbas \ lost PROVE ReadsLatest(l)
    BY DEF LatestSeen
  <2>1. Block(buf[l], disk[l], latest[l], role[l],
              l \in ToSet(dirtyList), l \in ToSet(lru), TRUE)
    BY DEF IInv, Block
  <2> QED BY <2>1 DEF Block, ReadsLatest
<1> QED BY <1>1, CacheInv, PTL

\* When no write fails, nothing waits any more once the outermost
\* ext4_block_cache_write_back(bdev, 0) has returned.
THEOREM CacheDelayedFlushed ==
  ASSUME ~IoFails
  PROVE  Spec => AllDelayedFlushed
<1>1. ASSUME IInv, IInv', [Next]_vars, writeBack > 0, writeBack' = 0, ret' = "EOK"
      PROVE  Waiting' = {}
  <2>1. writeBack' # writeBack
    BY <1>1
  <2>3. Next
    BY <1>1, <2>1 DEF vars
  <2>4. WriteBackOff
    <3>1. ~WriteBackOn
      BY <1>1 DEF WriteBackOn, IInv
    <3>2. \A l \in Lbas : ~Get(l) /\ ~ShakeFails(l) /\ ~GetReadFails(l) /\ ~FreeData(l)
      BY <2>1 DEF Get, ShakeFails, GetReadFails, FreeData
    <3>3. \A l \in Lbas, v \in Values : ~GetNoread(l, v) /\ ~SetDirty(l, v) /\ ~WriteDirect(l, v)
      BY <2>1 DEF GetNoread, SetDirty, WriteDirect
    <3>4. \A l \in Lbas, tmp \in BOOLEAN : ~SetFlags(l, tmp)
      BY <2>1 DEF SetFlags
    <3>5. \A l \in Lbas, w \in Results : ~Set(l, w)
      BY <2>1 DEF Set
    <3>6. \A l \in Lbas, w, again \in Results : ~FlushLba(l, w, again)
      BY <2>1 DEF FlushLba
    <3>7. \A l \in Lbas, n \in 1 .. MaxRange : ~FreeBlocks(l, n)
      BY <2>1 DEF FreeBlocks
    <3>8. \A failed \in SUBSET Lbas : ~Cleanup(failed)
      BY <2>1 DEF Cleanup
    <3>9. ~CacheFlush
      BY <2>1 DEF CacheFlush
    <3> QED BY <2>3, <3>1, <3>2, <3>3, <3>4, <3>5, <3>6, <3>7, <3>8, <3>9, Zenon DEF Next
  <2>5. PICK k \in 0 .. Len(dirtyList) : FlushFirst(k)
    BY <1>1, <2>4 DEF WriteBackOff
  <2>6. k = Len(dirtyList) /\ dirtyList' = SubSeq(dirtyList, k + 1, Len(dirtyList))
    BY <1>1, <2>5 DEF FlushFirst
  <2>7. dirtyList' = <<>>
    <3>1. k \in Int /\ k + 1 \in Int /\ k < k + 1
      OBVIOUS
    <3> QED BY <2>6, <3>1, SubSeqEmpty
  <2>8. ToSet(dirtyList') = {}
    BY <2>7 DEF ToSet
  <2>9. \A m \in Lbas : ~(buf'[m].dirty /\ buf'[m].ref = 0)
    BY <1>1, <2>8 DEF IInv, Block
  <2> QED BY <2>9 DEF Waiting
<1> QED BY <1>1, CacheInv, PTL DEF Spec, AllDelayedFlushed

\* A step of a call that acquires a buffer: the cache grows only by one, and beyond
\* its size only when there was nobody to evict.
LEMMA AcquireGrows ==
  ASSUME IInv, NEW l \in Lbas, NEW b, Acquire(l, b), b \in Bufs, b.ref = Found(l).ref,
         Len(lru') > Len(lru), Len(lru') > cnt
  PROVE  \A m \in ToSet(lru') : buf'[m].ref > 0
<1> DEFINE S == ToSet(Victims)
           nb == [b EXCEPT !.ref = @ + 1]
           w == Without(lru, S \cup {l})
<1>1. /\ lru' = (IF Found(l).ref = 0 THEN Append(w, l) ELSE Without(lru, S))
      /\ buf' = [ShakenBuf(S) EXCEPT ![l] = nb]
  BY Zenon DEF Acquire
<1>2. /\ lru \in Seq(Lbas) /\ Len(lru) \in Nat /\ ToSet(lru) \subseteq Lbas /\ IsInjective(lru)
  BY DEF IInv, Unique, ToSet
<1>3. /\ S \subseteq ToSet(lru)
      /\ S = {} => Len(lru) < cnt \/ \A m \in ToSet(lru) : buf[m].ref > 0
  BY VictimFacts
<1> HIDE DEF S
<1>4. Len(Without(lru, S)) <= Len(lru) /\ Len(Without(lru, S)) \in Nat
  BY <1>2, WithoutFacts
<1>5. /\ w \in Seq(Lbas) /\ IsInjective(w) /\ Len(w) <= Len(lru)
      /\ ToSet(w) = ToSet(lru) \ (S \cup {l})
      /\ ToSet(lru) \cap (S \cup {l}) # {} => Len(w) < Len(lru)
  BY <1>2, WithoutFacts
<1> HIDE DEF w
<1>6. Len(Append(w, l)) = Len(w) + 1 /\ ToSet(Append(w, l)) = ToSet(w) \cup {l} /\ Len(w) \in Nat
  BY <1>5, AppendFacts
<1>7. lru' = Append(w, l)
  BY <1>1, <1>2, <1>4
<1>8. Len(w) >= Len(lru)
  BY <1>2, <1>6, <1>7
<1>9. S = {}
  BY <1>2, <1>3, <1>5, <1>6, <1>8
<1>10. ~(Len(lru) < cnt)
  BY <1>2, <1>5, <1>6, <1>7, CacheAssumption
<1>11. \A m \in ToSet(lru) : buf[m].ref > 0
  BY <1>3, <1>9, <1>10
<1>12. ASSUME NEW m \in ToSet(lru') PROVE buf'[m].ref > 0
  <2>1. m = l \/ (m \in ToSet(lru) /\ m # l)
    BY <1>5, <1>6, <1>7, <1>12
  <2>2. CASE m = l
    <3>1. buf'[m] = nb
      BY <1>1, <2>2 DEF ShakenBuf
    <3>2. nb.ref = b.ref + 1 /\ b.ref \in Nat
      BY CacheAssumption DEF Bufs
    <3> QED BY <3>1, <3>2
  <2>3. CASE m \in ToSet(lru) /\ m # l
    <3>1. buf'[m] = buf[m]
      BY <1>1, <1>2, <1>9, <2>3 DEF ShakenBuf
    <3> QED BY <1>11, <2>3, <3>1
  <2> QED BY <2>1, <2>2, <2>3
<1> QED BY <1>12

\* The buffer of a block after the shake is a buffer.
LEMMA FoundTyped ==
  ASSUME IInv, NEW l \in Lbas
  PROVE  Found(l) \in Bufs /\ ShakenDisk(ToSet(Victims))[l] \in Values
<1>1. ToSet(Victims) \subseteq {m \in Lbas : buf[m].ref = 0}
  BY VictimFacts
<1>2. /\ ShakenBuf(ToSet(Victims)) \in [Lbas -> Bufs]
      /\ ShakenDisk(ToSet(Victims)) \in [Lbas -> Values]
  BY <1>1, ShakeKeeps
<1> QED BY <1>2 DEF Found

\* The cache outgrows its size only when every buffer in it is referenced: the
\* victims of ext4_block_cache_shake are enough, also when I/O fails.
THEOREM CacheGrowsOnlyHeld == Spec => GrowsOnlyHeld
<1>1. ASSUME IInv, [Next]_vars, Len(lru') > Len(lru), Len(lru') > cnt
      PROVE  \A l \in ToSet(lru') : buf'[l].ref > 0
  <2>1. lru \in Seq(Lbas) /\ Len(lru) \in Nat
    BY <1>1 DEF IInv, Unique
  <2>2. \A S : Len(Without(lru, S)) \in Nat /\ Len(Without(lru, S)) <= Len(lru)
    BY <2>1, WithoutFacts
  <2>3. lru' # lru
    BY <1>1, <2>1
  <2>4. \A S : lru' # Without(lru, S)
    BY <1>1, <2>1, <2>2
  <2>5. lru' # <<>>
    BY <1>1, <2>1
  <2>6. Next
    BY <1>1, <2>3 DEF vars
  <2>7. ASSUME NEW l \in Lbas, Get(l) PROVE \A m \in ToSet(lru') : buf'[m].ref > 0
    <3> DEFINE f == Found(l)
               D == ShakenDisk(ToSet(Victims))[l]
               b == IF f.up THEN f ELSE [f EXCEPT !.up = TRUE, !.data = D]
    <3>1. Acquire(l, b)
      BY <2>7, Zenon DEF Get
    <3>2. f \in Bufs /\ D \in Values
      BY <1>1, FoundTyped
    <3>3. b \in Bufs /\ b.ref = f.ref
      <4> HIDE DEF f, D
      <4> QED BY <3>2 DEF Bufs
    <3> HIDE DEF b
    <3> QED BY <1>1, <3>1, <3>3, AcquireGrows
  <2>8. ASSUME NEW l \in Lbas, NEW v \in Values, GetNoread(l, v)
        PROVE  \A m \in ToSet(lru') : buf'[m].ref > 0
    <3> DEFINE f == Found(l)
               b == [f EXCEPT !.up = TRUE, !.dirty = TRUE, !.data = v]
    <3>1. Acquire(l, b)
      BY <2>8, Zenon DEF GetNoread
    <3>2. f \in Bufs
      BY <1>1, FoundTyped
    <3>3. b \in Bufs /\ b.ref = f.ref
      <4> HIDE DEF f
      <4> QED BY <3>2 DEF Bufs
    <3> HIDE DEF b
    <3> QED BY <1>1, <3>1, <3>3, AcquireGrows
  <2>9. \A l \in Lbas, w, again \in Results : ~FlushLba(l, w, again)
    <3> SUFFICES ASSUME NEW l \in Lbas, NEW w \in Results, NEW again \in Results,
                        FlushLba(l, w, again)
                 PROVE  FALSE
      OBVIOUS
    <3> DEFINE u == Without(lru, {l})
    <3>1. l \in ToSet(lru)
      BY DEF FlushLba, Cached, Contains, ToSet
    <3>2. lru' = Append(u, l)
      BY <2>3, <2>4 DEF FlushLba
    <3>3. u \in Seq(Lbas) /\ Len(u) < Len(lru)
      BY <2>1, <3>1, WithoutFacts
    <3> HIDE DEF u
    <3>4. Len(Append(u, l)) = Len(u) + 1 /\ Len(u) \in Nat
      BY <3>3
    <3> QED BY <1>1, <2>1, <3>2, <3>3, <3>4
  <2>10. \A l \in Lbas : ~ShakeFails(l) /\ ~GetReadFails(l) /\ ~FreeData(l)
    BY <2>3, <2>4 DEF ShakeFails, GetReadFails, FreeData
  <2>11. \A l \in Lbas, v \in Values : ~SetDirty(l, v) /\ ~WriteDirect(l, v)
    BY <2>3 DEF SetDirty, WriteDirect
  <2>12. \A l \in Lbas, tmp \in BOOLEAN : ~SetFlags(l, tmp)
    BY <2>3 DEF SetFlags
  <2>13. \A l \in Lbas, w \in Results : ~Set(l, w)
    BY <2>3, <2>4 DEF Set, SetLast
  <2>14. \A l \in Lbas, n \in 1 .. MaxRange : ~FreeBlocks(l, n)
    BY <2>3 DEF FreeBlocks
  <2>15. ~CacheFlush /\ ~WriteBackOn /\ ~WriteBackOff
    BY <2>3 DEF CacheFlush, WriteBackOn, WriteBackOff
  <2>16. \A failed \in SUBSET Lbas : ~Cleanup(failed)
    BY <2>5 DEF Cleanup
  <2> QED BY <2>6, <2>7, <2>8, <2>9, <2>10, <2>11, <2>12, <2>13, <2>14, <2>15, <2>16, Zenon
          DEF Next
<1>2. IInv /\ [Next]_vars =>
        [Len(lru') > Len(lru) /\ Len(lru') > cnt => \A l \in ToSet(lru') : buf'[l].ref > 0]_vars
  BY <1>1
<1> QED BY <1>2, CacheInv, PTL DEF Spec, GrowsOnlyHeld

----------------------------------------------------------(* The journal *)

\* An injective sequence has as many members as elements.
LEMMA SeqCard ==
  ASSUME NEW T, NEW s \in Seq(T), IsInjective(s)
  PROVE  IsFiniteSet(ToSet(s)) /\ Cardinality(ToSet(s)) = Len(s)
<1> DEFINE n == Len(s)
<1>1. n \in Nat /\ DOMAIN s = 1 .. n
  OBVIOUS
<1>2. s \in [1 .. n -> ToSet(s)]
  BY <1>1 DEF ToSet
<1>3. \A x \in ToSet(s) : \E i \in 1 .. n : s[i] = x
  BY <1>1 DEF ToSet
<1>4. s \in Bijection(1 .. n, ToSet(s))
  BY <1>2, <1>3, Zenon DEF Bijection, Injection, Surjection
<1>5. ExistsBijection(1 .. n, ToSet(s))
  BY <1>4, Zenon DEF ExistsBijection
<1> QED BY <1>1, <1>5, FS_NatBijection, FS_CountingElements

\* Removing members of an injective sequence shortens it by their number.
LEMMA WithoutLen ==
  ASSUME NEW T, NEW s \in Seq(T), IsInjective(s), NEW S, S \subseteq ToSet(s)
  PROVE  /\ IsFiniteSet(S) /\ Cardinality(S) \in Nat
         /\ Len(Without(s, S)) = Len(s) - Cardinality(S)
<1> DEFINE u == Without(s, S)
<1>1. u \in Seq(T) /\ ToSet(u) = ToSet(s) \ S /\ IsInjective(u)
  BY WithoutFacts
<1> HIDE DEF u
<1>2. IsFiniteSet(ToSet(s)) /\ Cardinality(ToSet(s)) = Len(s) /\ Cardinality(ToSet(u)) = Len(u)
  BY <1>1, SeqCard
<1>3. ToSet(s) \cap S = S
  OBVIOUS
<1>4. Cardinality(ToSet(s) \ S) = Cardinality(ToSet(s)) - Cardinality(S)
  <2>1. Cardinality(ToSet(s) \ S) = Cardinality(ToSet(s)) - Cardinality(ToSet(s) \cap S)
    BY <1>2, FS_Difference, Zenon
  <2> QED BY <1>3, <2>1, Zenon
<1>5. IsFiniteSet(S) /\ Cardinality(S) \in Nat
  BY <1>2, FS_Subset, FS_CardinalityType
<1> QED BY <1>1, <1>2, <1>4, <1>5 DEF u

LEMMA WithoutOne ==
  ASSUME NEW T, NEW s \in Seq(T), IsInjective(s), NEW x \in ToSet(s), NEW v, v = Without(s, {x})
  PROVE  v \in Seq(T) /\ ToSet(v) = ToSet(s) \ {x} /\ IsInjective(v) /\ Len(v) = Len(s) - 1
<1>1. Cardinality({x}) = 1
  BY FS_Singleton
<1>2. Len(v) = Len(s) - Cardinality({x})
  BY WithoutLen
<1> QED BY <1>1, <1>2, WithoutFacts

\* Only the empty sequence has no member.
LEMMA NonEmpty ==
  ASSUME NEW T, NEW s \in Seq(T)
  PROVE  /\ s = <<>> <=> ToSet(s) = {}
         /\ s = <<>> <=> Len(s) = 0
         /\ s # <<>> => s[1] \in ToSet(s) /\ Last(s) \in ToSet(s) /\ Len(s) \in 1 .. Len(s)
<1>1. DOMAIN s = 1 .. Len(s) /\ Len(s) \in Nat
  OBVIOUS
<1>2. ASSUME s # <<>>
      PROVE  1 \in DOMAIN s /\ Len(s) \in DOMAIN s
  BY <1>1, <1>2
<1>3. s # <<>> => s[1] \in ToSet(s) /\ Last(s) \in ToSet(s)
  BY <1>2 DEF ToSet, Last
<1>4. ToSet(<<>>) = {}
  BY DEF ToSet
<1> QED BY <1>1, <1>2, <1>3, <1>4

\* The blocks of a finite set, in any order.
LEMMA SetSeq ==
  ASSUME NEW S, IsFiniteSet(S)
  PROVE  SetToSeq(S) \in Seq(S) /\ ToSet(SetToSeq(S)) = S
<1> DEFINE n == Cardinality(S)
<1>1. n \in Nat /\ ExistsBijection(1 .. n, S)
  BY FS_CardinalityType
<1>2. PICK f : f \in Bijection(1 .. n, S)
  BY <1>1, Zenon DEF ExistsBijection
<1>3. f \in [1 .. n -> S] /\ IsInjective(f)
  BY <1>2, Zenon DEF Bijection, Injection
<1> DEFINE q == SetToSeq(S)
<1>4. q \in [1 .. n -> S] /\ IsInjective(q)
  BY <1>3, Zenon DEF SetToSeq
<1> HIDE DEF q
<1>5. q \in Seq(S) /\ Len(q) = n
  <2> HIDE DEF n
  <2> QED BY <1>1, <1>4
<1>6. Cardinality(ToSet(q)) = Cardinality(S) /\ ToSet(q) \subseteq S
  <2>1. ToSet(q) \subseteq S
    BY <1>5 DEF ToSet
  <2> QED BY <1>4, <1>5, <2>1, SeqCard
<1>7. ToSet(q) = S
  BY <1>6, FS_Subset
<1> QED BY <1>5, <1>7 DEF q

\* Positions in the log.
LEMMA WrapFacts ==
  ASSUME NEW i \in Nat \ {0}
  PROVE  /\ Wrap(i) \in 1 .. LogLen
         /\ \A a \in Nat : Wrap(Wrap(i) + a) = Wrap(i + a)
         /\ \A k \in Nat \ {0} : i <= k /\ k - i < LogLen /\ Wrap(i) = Wrap(k) => i = k
<1> DEFINE q == (i - 1) \div LogLen
           r == (i - 1) % LogLen
<1>0. LogLen \in Nat \ {0}
  BY JournalAssumption
<1>n. i - 1 \in Nat
  OBVIOUS
<1>1. q \in Nat /\ r \in 0 .. LogLen - 1 /\ i - 1 = q * LogLen + r
  BY <1>0, <1>n, DivMod
<1>2. Wrap(i) = r + 1
  BY DEF Wrap
<1> HIDE DEF q, r
<1>3. ASSUME NEW a \in Nat PROVE Wrap(Wrap(i) + a) = Wrap(i + a)
  <2> DEFINE q2 == (r + a) \div LogLen
             r2 == (r + a) % LogLen
  <2>n. r + a \in Nat
    BY <1>0, <1>1
  <2>1. q2 \in Nat /\ r2 \in 0 .. LogLen - 1 /\ r + a = q2 * LogLen + r2
    BY <1>0, <2>n, DivMod
  <2>2. Wrap(Wrap(i) + a) = r2 + 1
    <3>1. ((r + 1) + a) - 1 = r + a
      BY <1>1, <1>0
    <3>2. (Wrap(i) + a) - 1 = r + a
      BY <1>2, <3>1
    <3>3. \A x : x - 1 = r + a => Wrap(x) = r2 + 1
      BY DEF Wrap
    <3> QED BY <3>2, <3>3, Zenon
  <2> HIDE DEF q2, r2
  <2>3. (i + a) - 1 = (q + q2) * LogLen + r2
    BY <1>0, <1>1, <2>1
  <2>4. q + q2 \in Nat
    BY <1>1, <2>1
  <2>5. ((q + q2) * LogLen + r2) % LogLen = r2
    BY <1>0, <2>1, <2>4, DivModUnique
  <2> QED BY <2>2, <2>3, <2>5 DEF Wrap
<1>4. ASSUME NEW k \in Nat \ {0}, i <= k, k - i < LogLen, Wrap(i) = Wrap(k) PROVE i = k
  <2> DEFINE p == (k - 1) \div LogLen
             m == (k - 1) % LogLen
  <2>n. k - 1 \in Nat
    BY <1>4
  <2>1. p \in Nat /\ m \in 0 .. LogLen - 1 /\ k - 1 = p * LogLen + m
    BY <1>0, <2>n, DivMod
  <2>2. m = r
    <3>1. Wrap(k) = m + 1
      BY DEF Wrap
    <3> QED BY <1>0, <1>1, <1>2, <1>4, <2>1, <3>1
  <2> HIDE DEF p, m
  <2>3. CASE p <= q
    <3>1. p * LogLen <= q * LogLen /\ p * LogLen \in Int /\ q * LogLen \in Int
      BY <1>0, <1>1, <2>1, <2>3, TimesMono
    <3> QED BY <1>1, <1>4, <2>1, <2>2, <3>1
  <2>4. CASE q + 1 <= p
    <3>1. (q + 1) * LogLen <= p * LogLen /\ p * LogLen \in Int
      BY <1>0, <1>1, <2>1, <2>4, TimesMono
    <3>2. (q + 1) * LogLen = q * LogLen + LogLen /\ q * LogLen \in Int
      BY <1>0, <1>1
    <3> QED BY <1>0, <1>1, <1>4, <2>1, <2>2, <3>1, <3>2
  <2> QED BY <1>1, <2>1, <2>3, <2>4
<1> QED BY <1>0, <1>1, <1>2, <1>3, <1>4

\* The structures of a session; V holds the numbers of transactions and the writes,
\* which a superblock read from the device makes arbitrary.
Transactions(V) ==
  [id : V, bufq : Seq(Blocks), lba : [Blocks -> Nat], data : Nat, written : Nat,
   start : Nat, alloc : Nat, revoke : SUBSET Blocks]
Sessions(V) ==
  [cur : Trans \cup {0}, trans : [Trans -> Transactions(V)], queue : Seq(Trans),
   start : Nat, last : Nat, tid : V, atid : V,
   rec : [Blocks -> Trans \cup {0}], dq : [Blocks -> Seq(Trans)],
   buf : [Blocks -> [val : V, owner : Trans \cup {0}]], w : Seq(V)]

LEMMA SessionsGrow ==
  ASSUME NEW V, NEW U, NEW s \in Sessions(V)
  PROVE  s \in Sessions(V \cup U)
<1>0. s.trans \in [Trans -> Transactions(V)] /\ s.buf \in [Blocks -> [val : V, owner : Trans \cup {0}]]
      /\ s.w \in Seq(V)
  BY DEF Sessions
<1>1. s.trans \in [Trans -> Transactions(V \cup U)]
  <2>1. Transactions(V) \subseteq Transactions(V \cup U)
    BY DEF Transactions
  <2> QED BY <1>0, <2>1
<1>2. s.buf \in [Blocks -> [val : V \cup U, owner : Trans \cup {0}]]
  BY <1>0
<1>3. s.w \in Seq(V \cup U)
  BY <1>0
<1> QED BY <1>1, <1>2, <1>3 DEF Sessions

\* The parts of a session.
LEMMA Parts ==
  ASSUME NEW V, NEW s \in Sessions(V)
  PROVE  /\ s.cur \in Trans \cup {0} /\ s.trans \in [Trans -> Transactions(V)]
         /\ s.queue \in Seq(Trans) /\ s.start \in Nat /\ s.last \in Nat /\ s.tid \in V
         /\ s.atid \in V /\ s.rec \in [Blocks -> Trans \cup {0}]
         /\ s.dq \in [Blocks -> Seq(Trans)]
         /\ s.buf \in [Blocks -> [val : V, owner : Trans \cup {0}]] /\ s.w \in Seq(V)
         /\ \A t \in Trans :
              /\ s.trans[t] \in Transactions(V)
              /\ s.trans[t].id \in V /\ s.trans[t].bufq \in Seq(Blocks)
              /\ s.trans[t].lba \in [Blocks -> Nat] /\ s.trans[t].data \in Nat
              /\ s.trans[t].written \in Nat /\ s.trans[t].start \in Nat
              /\ s.trans[t].alloc \in Nat /\ s.trans[t].revoke \subseteq Blocks
         /\ \A b \in Blocks : s.dq[b] \in Seq(Trans) /\ s.rec[b] \in Trans \cup {0}
                              /\ s.buf[b].owner \in Trans \cup {0}
<1>1. /\ s.cur \in Trans \cup {0} /\ s.trans \in [Trans -> Transactions(V)]
      /\ s.queue \in Seq(Trans) /\ s.start \in Nat /\ s.last \in Nat /\ s.tid \in V
      /\ s.atid \in V /\ s.rec \in [Blocks -> Trans \cup {0}]
      /\ s.dq \in [Blocks -> Seq(Trans)]
      /\ s.buf \in [Blocks -> [val : V, owner : Trans \cup {0}]] /\ s.w \in Seq(V)
  BY DEF Sessions
<1>2. ASSUME NEW t \in Trans
      PROVE  /\ s.trans[t] \in Transactions(V)
             /\ s.trans[t].id \in V /\ s.trans[t].bufq \in Seq(Blocks)
             /\ s.trans[t].lba \in [Blocks -> Nat] /\ s.trans[t].data \in Nat
             /\ s.trans[t].written \in Nat /\ s.trans[t].start \in Nat
             /\ s.trans[t].alloc \in Nat /\ s.trans[t].revoke \subseteq Blocks
  <2>1. s.trans[t] \in Transactions(V)
    BY <1>1
  <2> QED BY <2>1 DEF Transactions
<1>3. ASSUME NEW b \in Blocks
      PROVE  s.dq[b] \in Seq(Trans) /\ s.rec[b] \in Trans \cup {0}
             /\ s.buf[b].owner \in Trans \cup {0}
  <2>1. s.buf[b] \in [val : V, owner : Trans \cup {0}]
    BY <1>1
  <2> QED BY <1>1, <2>1
<1> QED BY <1>1, <1>2, <1>3

\* A session whose structures are what they should be.
Shape(s) == \E V : s \in Sessions(V)

Typed(s) ==
  /\ s.cur \in Trans \cup {0} /\ s.queue \in Seq(Trans) /\ s.start \in Nat /\ s.last \in Nat
  /\ \A t \in Trans :
       /\ s.trans[t].bufq \in Seq(Blocks) /\ s.trans[t].lba \in [Blocks -> Nat]
       /\ s.trans[t].data \in Nat /\ s.trans[t].written \in Nat
       /\ s.trans[t].start \in Nat /\ s.trans[t].alloc \in Nat
       /\ s.trans[t].revoke \subseteq Blocks
  /\ \A b \in Blocks : /\ s.dq[b] \in Seq(Trans) /\ s.rec[b] \in Trans \cup {0}
                        /\ s.buf[b].owner \in Trans \cup {0}

LEMMA ShapeTyped ==
  ASSUME NEW s, Shape(s)
  PROVE  Typed(s)
<1>1. PICK V : s \in Sessions(V)
  BY DEF Shape
<1> QED BY <1>1, Parts, Zenon DEF Typed

LEMMA NoTransFacts ==
  /\ NoTrans.bufq = <<>> /\ NoTrans.data = 0 /\ NoTrans.written = 0 /\ NoTrans.alloc = 0
  /\ NoTrans.revoke = {} /\ NoTrans.start = 0 /\ \A b \in Blocks : NoTrans.lba[b] = 0
  /\ NoTrans \in Transactions({0})
<1>1. [b \in Blocks |-> 0] \in [Blocks -> Nat]
  OBVIOUS
<1>2. <<>> \in Seq(Blocks)
  OBVIOUS
<1> QED BY <1>1, <1>2 DEF NoTrans, Transactions

\* What Unlink does.
Unlinked(u, s, t, b) ==
  /\ u.trans[t].bufq = Without(s.trans[t].bufq, {b})
  /\ u.trans[t].data = s.trans[t].data /\ u.trans[t].lba = s.trans[t].lba
  /\ u.trans[t].written = s.trans[t].written
  /\ u.trans[t].start = s.trans[t].start /\ u.trans[t].alloc = s.trans[t].alloc
  /\ \A x \in Trans : x # t => u.trans[x] = s.trans[x]
  /\ u.dq[b] = Without(s.dq[b], {t})
  /\ \A x \in Blocks : x # b => u.dq[x] = s.dq[x]
  /\ u.queue = s.queue /\ u.rec = s.rec /\ u.buf = s.buf /\ u.w = s.w
  /\ u.start = s.start /\ u.last = s.last /\ u.cur = s.cur

LEMMA UnlinkIs ==
  ASSUME NEW s, Shape(s), NEW t \in Trans, NEW b \in Blocks
  PROVE  Shape(Unlink(s, t, b)) /\ Unlinked(Unlink(s, t, b), s, t, b)
<1>s. PICK V : s \in Sessions(V)
  BY DEF Shape
<1> DEFINE u == Unlink(s, t, b)
           q == Without(s.trans[t].bufq, {b})
           d == Without(s.dq[b], {t})
           x == [s.trans[t] EXCEPT !.bufq = q]
           tr == [s.trans EXCEPT ![t] = x]
           dq == [s.dq EXCEPT ![b] = d]
<1>0. s.trans[t] \in Transactions(V) /\ s.trans \in [Trans -> Transactions(V)] /\ s.dq \in [Blocks -> Seq(Trans)]
  BY <1>s DEF Sessions
<1>1. q \in Seq(Blocks) /\ d \in Seq(Trans)
  BY <1>s, <1>0, WithoutFacts DEF Sessions, Transactions
<1>2. u = [[s EXCEPT !.trans = tr] EXCEPT !.dq = dq]
  BY <1>0, Zenon DEF Unlink
<1> HIDE DEF q, d
<1>3. /\ x \in Transactions(V) /\ x.bufq = q /\ x.data = s.trans[t].data
      /\ x.written = s.trans[t].written /\ x.lba = s.trans[t].lba
      /\ x.start = s.trans[t].start /\ x.alloc = s.trans[t].alloc
  BY <1>1, <1>0 DEF Transactions
<1> HIDE DEF x
<1>4. tr \in [Trans -> Transactions(V)] /\ tr[t] = x /\ \A y \in Trans : y # t => tr[y] = s.trans[y]
  BY <1>3, <1>0
<1>5. dq \in [Blocks -> Seq(Trans)] /\ dq[b] = d /\ \A y \in Blocks : y # b => dq[y] = s.dq[y]
  BY <1>1, <1>0
<1> HIDE DEF tr, dq
<1>6. /\ u.trans = tr /\ u.dq = dq
      /\ u.queue = s.queue /\ u.rec = s.rec /\ u.buf = s.buf /\ u.w = s.w
      /\ u.start = s.start /\ u.last = s.last /\ u.cur = s.cur
      /\ u \in Sessions(V)
  BY <1>s, <1>2, <1>4, <1>5 DEF Sessions
<1> QED BY <1>3, <1>4, <1>5, <1>6 DEF u, q, d, Shape, Unlinked

LEMMA WrapNat ==
  ASSUME NEW i \in Int
  PROVE  Wrap(i) \in Nat
BY JournalAssumption DEF Wrap

\* What Pop does.
Popped(u, s, n) ==
  LET gone == {s.queue[i] : i \in 1 .. n}
  IN  /\ u.queue = SubSeq(s.queue, n + 1, Len(s.queue))
      /\ u.trans = [x \in Trans |-> IF x \in gone THEN NoTrans ELSE s.trans[x]]
      /\ u.rec = [b \in Blocks |-> IF s.rec[b] \in gone THEN 0 ELSE s.rec[b]]
      /\ u.start = IF n = 0 THEN s.start ELSE Behind(s, s.queue[n])
      /\ u.dq = s.dq /\ u.buf = s.buf /\ u.w = s.w /\ u.last = s.last /\ u.cur = s.cur

LEMMA PopIs ==
  ASSUME NEW s, Shape(s), NEW n \in 0 .. Len(s.queue)
  PROVE  Shape(Pop(s, n)) /\ Popped(Pop(s, n), s, n)
<1>s. PICK V : s \in Sessions(V)
  BY DEF Shape
<1> DEFINE u == Pop(s, n)
           gone == {s.queue[i] : i \in 1 .. n}
           qu == SubSeq(s.queue, n + 1, Len(s.queue))
           tr == [x \in Trans |-> IF x \in gone THEN NoTrans ELSE s.trans[x]]
           re == [b \in Blocks |-> IF s.rec[b] \in gone THEN 0 ELSE s.rec[b]]
           st == IF n = 0 THEN s.start ELSE Behind(s, s.queue[n])
           ti == IF n = 0 THEN s.tid ELSE s.trans[s.queue[n]].id + 1
           U == V \cup {0, ti}
<1>0. /\ s \in Sessions(U) /\ s.trans \in [Trans -> Transactions(U)] /\ s.queue \in Seq(Trans)
      /\ s.rec \in [Blocks -> Trans \cup {0}] /\ s.start \in Nat
      /\ \A t \in Trans : s.trans[t].start \in Nat /\ s.trans[t].alloc \in Nat
  BY <1>s, SessionsGrow, Parts
<1>1. u = [[[[[s EXCEPT !.queue = qu] EXCEPT !.trans = tr] EXCEPT !.rec = re] EXCEPT !.start = st]
              EXCEPT !.tid = ti]
  BY Zenon DEF Pop
<1>2. qu \in Seq(Trans)
  BY <1>0
<1>3. tr \in [Trans -> Transactions(U)]
  <2>1. NoTrans \in Transactions(U)
    BY NoTransFacts DEF Transactions
  <2> QED BY <1>0, <2>1
<1>4. re \in [Blocks -> Trans \cup {0}]
  BY <1>0
<1>5. st \in Nat
  <2>1. ASSUME n # 0 PROVE Behind(s, s.queue[n]) \in Nat
    <3>1. s.queue[n] \in Trans
      BY <1>0, <2>1
    <3>2. s.trans[s.queue[n]].start + s.trans[s.queue[n]].alloc \in Int
      BY <1>0, <3>1
    <3> QED BY <3>2, WrapNat DEF Behind
  <2> QED BY <1>0, <2>1
<1>6. ti \in U
  OBVIOUS
<1> HIDE DEF qu, tr, re, st, ti, U
<1>7. /\ u \in Sessions(U) /\ u.queue = qu /\ u.trans = tr /\ u.rec = re /\ u.start = st
      /\ u.dq = s.dq /\ u.buf = s.buf /\ u.w = s.w /\ u.last = s.last /\ u.cur = s.cur
  BY <1>0, <1>1, <1>2, <1>3, <1>4, <1>5, <1>6 DEF Sessions
<1> QED BY <1>7, Zenon DEF u, qu, tr, re, st, Shape, Popped

\* A block of a transaction is counted as written.
Counted(u, s, t) ==
  /\ u.trans[t].written = s.trans[t].written + 1
  /\ u.trans[t].data = s.trans[t].data /\ u.trans[t].lba = s.trans[t].lba
  /\ u.trans[t].bufq = s.trans[t].bufq
  /\ u.trans[t].start = s.trans[t].start /\ u.trans[t].alloc = s.trans[t].alloc
  /\ \A x \in Trans : x # t => u.trans[x] = s.trans[x]
  /\ u.dq = s.dq
  /\ u.queue = s.queue /\ u.rec = s.rec /\ u.buf = s.buf /\ u.w = s.w
  /\ u.start = s.start /\ u.last = s.last /\ u.cur = s.cur

LEMMA WrittenIs ==
  ASSUME NEW s, Shape(s), NEW t \in Trans
  PROVE  LET u == [s EXCEPT !.trans[t].written = @ + 1]
         IN  Shape(u) /\ Counted(u, s, t)
<1>s. PICK V : s \in Sessions(V)
  BY DEF Shape
<1> DEFINE n == s.trans[t].written + 1
           x == [s.trans[t] EXCEPT !.written = n]
           tr == [s.trans EXCEPT ![t] = x]
           u == [s EXCEPT !.trans[t].written = @ + 1]
<1>0. /\ s.trans[t] \in Transactions(V) /\ s.trans \in [Trans -> Transactions(V)]
      /\ s.trans[t].written \in Nat
  BY <1>s, Parts
<1>1. n \in Nat
  BY <1>0
<1>2. u = [s EXCEPT !.trans = tr]
  BY <1>0, Zenon
<1> HIDE DEF n
<1>3. /\ x \in Transactions(V) /\ x.written = n /\ x.data = s.trans[t].data
      /\ x.bufq = s.trans[t].bufq /\ x.lba = s.trans[t].lba
      /\ x.start = s.trans[t].start /\ x.alloc = s.trans[t].alloc
  BY <1>1, <1>0 DEF Transactions
<1> HIDE DEF x
<1>4. tr \in [Trans -> Transactions(V)] /\ tr[t] = x /\ \A y \in Trans : y # t => tr[y] = s.trans[y]
  BY <1>3, <1>0
<1> HIDE DEF tr
<1>5. /\ u.trans = tr /\ u.dq = s.dq
      /\ u.queue = s.queue /\ u.rec = s.rec /\ u.buf = s.buf /\ u.w = s.w
      /\ u.start = s.start /\ u.last = s.last /\ u.cur = s.cur
      /\ u \in Sessions(V)
  BY <1>s, <1>2, <1>4 DEF Sessions
<1> QED BY <1>3, <1>4, <1>5 DEF u, n, Shape, Counted

\* The transaction t of a session whose running transaction is c: a transaction that is
\* neither queued nor running has no memory, and the blocks it still has to write are
\* those not counted as written. P holds the transactions of which one block has reached
\* its place and is not counted yet.
TransLinked(s, c, P, t) ==
  /\ IsInjective(s.trans[t].bufq)
  /\ t \notin ToSet(s.queue) \cup {c} => s.trans[t] = NoTrans
  /\ s.trans[t].data = s.trans[t].written + Len(s.trans[t].bufq) + (IF t \in P THEN 1 ELSE 0)

\* The block b: the transactions that have to write it are those of its record, the
\* running one is its newest, and its buffer is owned by the owner of the record. The
\* owner is one of them, except while the older copies of the block are completed (b
\* in E), after the owner has written its copy and before that is counted.
BlockLinked(s, c, P, E, b) ==
  /\ IsInjective(s.dq[b])
  /\ \A t \in Trans : b \in ToSet(s.trans[t].bufq) <=> t \in ToSet(s.dq[b])
  /\ c # 0 /\ c \in ToSet(s.dq[b]) => s.rec[b] = c
  /\ s.buf[b].owner # 0 => s.buf[b].owner = s.rec[b]
  /\ c # 0 /\ s.buf[b].owner = c => s.buf[b].val = c
  /\ IF b \in E THEN s.rec[b] \in P \ ToSet(s.dq[b])
     ELSE s.dq[b] # <<>> \/ s.buf[b].owner # 0 => s.rec[b] \in ToSet(s.dq[b])

Linked(s, c, P, E) ==
  /\ Shape(s) /\ c \in Trans \cup {0} /\ c \notin ToSet(s.queue) /\ IsInjective(s.queue)
  /\ E \subseteq Blocks
  /\ \A t \in Trans : TransLinked(s, c, P, t)
  /\ \A b \in Blocks : BlockLinked(s, c, P, E, b)

\* Positions in the log, counted on without wrapping: p[i] is where the i-th
\* transaction of the queue starts, and the running one behind the last.
Positions(s, p) ==
  /\ p \in [1 .. Len(s.queue) + 1 -> Nat \ {0}]
  /\ s.start = Wrap(p[1])
  /\ \A i, k \in 1 .. Len(s.queue) + 1 : i <= k => p[i] <= p[k]
  /\ \A i \in 1 .. Len(s.queue) :
       LET q == s.trans[s.queue[i]]
       IN  /\ q.start = Wrap(p[i]) /\ p[i + 1] = p[i] + q.alloc
           /\ \A b \in ToSet(q.bufq) : \E x \in p[i] .. p[i + 1] - 1 : q.lba[b] = Wrap(x)

\* The log blocks the running transaction c has allocated end where the journal goes
\* on; `at' is the last of them as long as it is not written, else 0. The log holds no
\* more than max blocks of transactions.
LaidAt(s, c, at, max, p) ==
  LET e == p[Len(s.queue) + 1]
      q == s.trans[c]
      a == IF c = 0 THEN 0 ELSE q.alloc
      gap == IF at = 0 THEN 0 ELSE 1
  IN  /\ Positions(s, p)
      /\ s.last = Wrap(e + a) /\ e + a <= p[1] + max
      /\ c # 0 => /\ q.start = IF a = 0 THEN 0 ELSE Wrap(e)
                  /\ \A b \in Blocks : q.lba[b] # 0 =>
                       \E x \in e + 1 .. (e + a) - (1 + gap) : q.lba[b] = Wrap(x)
      /\ at # 0 => at = Wrap((e + a) - 1)

Laid(s, c, at, max) == \E p : LaidAt(s, c, at, max, p)

\* The steps of checkpointing only take away: u has no transaction, copy or buffer that
\* s had not, the running transaction c and its buffers stay, and no block of the log is
\* written.
Quiet(s) == \A k \in DOMAIN s.w : s.w[k].dev # "log"
Less(u, s, c) ==
  /\ u.cur = s.cur /\ u.last = s.last /\ (c # 0 => u.trans[c] = s.trans[c])
  /\ ToSet(u.queue) \subseteq ToSet(s.queue)
  /\ \A t \in Trans : \A b \in ToSet(u.trans[t].bufq) :
       b \in ToSet(s.trans[t].bufq) /\ u.trans[t].lba = s.trans[t].lba
  /\ \A b \in Blocks : \/ u.buf[b] = s.buf[b]
                       \/ u.buf[b] = NoBuf /\ (c # 0 => s.buf[b].owner # c)
  /\ Quiet(s) => Quiet(u)

LEMMA LessTrans ==
  ASSUME NEW s, NEW u, NEW v, NEW c, Less(u, s, c), Less(v, u, c)
  PROVE  Less(v, s, c)
<1>1. \A t \in Trans : \A b \in ToSet(v.trans[t].bufq) :
        b \in ToSet(s.trans[t].bufq) /\ v.trans[t].lba = s.trans[t].lba
  BY DEF Less
<1>2. \A b \in Blocks : \/ v.buf[b] = s.buf[b]
                        \/ v.buf[b] = NoBuf /\ (c # 0 => s.buf[b].owner # c)
  BY DEF Less, NoBuf
<1> QED BY <1>1, <1>2 DEF Less

\* A transaction with an unwritten block is queued or running and not done.
LEMMA Unfinished ==
  ASSUME NEW s, NEW c, NEW P, NEW E, Linked(s, c, P, E), NEW t \in Trans,
         t \in P \/ s.trans[t].bufq # <<>> \/ \E b \in Blocks : t \in ToSet(s.dq[b])
  PROVE  t \in ToSet(s.queue) \cup {c} /\ ~Done(s, t)
<1>1. /\ s.trans[t].bufq \in Seq(Blocks) /\ s.trans[t].data \in Nat /\ s.trans[t].written \in Nat
  BY ShapeTyped DEF Linked, Typed
<1>2. TransLinked(s, c, P, t)
  BY DEF Linked
<1>3. t \in P \/ s.trans[t].bufq # <<>>
  <2> SUFFICES ASSUME NEW b \in Blocks, t \in ToSet(s.dq[b]), s.trans[t].bufq = <<>> PROVE FALSE
    OBVIOUS
  <2>1. b \in ToSet(s.trans[t].bufq)
    BY DEF Linked, BlockLinked
  <2> QED BY <2>1 DEF ToSet
<1>4. s.trans[t].data > s.trans[t].written
  BY <1>1, <1>2, <1>3 DEF TransLinked
<1>5. s.trans[t] # NoTrans
  BY <1>4, NoTransFacts
<1> QED BY <1>1, <1>2, <1>4, <1>5 DEF TransLinked, Done

\* A block leaves a transaction before it is counted.
LEMMA UnlinkKeeps ==
  ASSUME NEW s, NEW c, NEW P, NEW E, Linked(s, c, P, E), NEW b \in Blocks, NEW t \in ToSet(s.dq[b]),
         t # c, t \notin P, NEW u, Unlinked(u, s, t, b), Shape(u)
  PROVE  Linked(u, c, P \cup {t}, IF s.rec[b] = t THEN E \cup {b} ELSE E)
<1>1. t \in Trans /\ s.dq[b] \in Seq(Trans) /\ s.trans[t].bufq \in Seq(Blocks)
      /\ s.trans[t].data \in Nat /\ s.trans[t].written \in Nat
  <2>0. Typed(s)
    BY ShapeTyped DEF Linked
  <2>1. s.dq[b] \in Seq(Trans)
    BY <2>0 DEF Typed
  <2>2. t \in Trans
    BY <2>1 DEF ToSet
  <2> QED BY <2>0, <2>1, <2>2, Zenon DEF Typed
<1>2. /\ u.trans[t].bufq = Without(s.trans[t].bufq, {b})
      /\ u.trans[t].data = s.trans[t].data /\ u.trans[t].written = s.trans[t].written
      /\ \A x \in Trans : x # t => u.trans[x] = s.trans[x]
      /\ u.dq[b] = Without(s.dq[b], {t})
      /\ \A x \in Blocks : x # b => u.dq[x] = s.dq[x]
      /\ u.queue = s.queue /\ u.rec = s.rec /\ u.buf = s.buf
  BY Zenon DEF Unlinked
<1>3. /\ IsInjective(s.trans[t].bufq) /\ IsInjective(s.dq[b])
      /\ b \in ToSet(s.trans[t].bufq) /\ TransLinked(s, c, P, t)
  BY <1>1 DEF Linked, TransLinked, BlockLinked
<1>4. /\ ToSet(u.trans[t].bufq) = ToSet(s.trans[t].bufq) \ {b} /\ IsInjective(u.trans[t].bufq)
      /\ Len(u.trans[t].bufq) = Len(s.trans[t].bufq) - 1
  <2> DEFINE q == s.trans[t].bufq
             v == u.trans[t].bufq
  <2>1. q \in Seq(Blocks) /\ IsInjective(q) /\ b \in ToSet(q) /\ v = Without(q, {b})
    BY <1>1, <1>2, <1>3, Zenon
  <2> HIDE DEF q, v
  <2>2. ToSet(v) = ToSet(q) \ {b} /\ IsInjective(v) /\ Len(v) = Len(q) - 1
    BY <2>1, WithoutOne
  <2> QED BY <2>2 DEF q, v
<1>5. ToSet(u.dq[b]) = ToSet(s.dq[b]) \ {t} /\ IsInjective(u.dq[b])
  <2> DEFINE q == s.dq[b]
             v == u.dq[b]
  <2>1. q \in Seq(Trans) /\ IsInjective(q) /\ t \in ToSet(q) /\ v = Without(q, {t})
    BY <1>1, <1>2, <1>3, Zenon
  <2> HIDE DEF q, v
  <2>2. ToSet(v) = ToSet(q) \ {t} /\ IsInjective(v)
    BY <2>1, WithoutOne
  <2> QED BY <2>2 DEF q, v
<1>6. ASSUME NEW x \in Trans PROVE TransLinked(u, c, P \cup {t}, x)
  <2>0. TransLinked(s, c, P, x)
    BY DEF Linked
  <2>1. CASE x = t
    <3>1. t \in ToSet(s.queue) \cup {c}
      BY <1>1, Unfinished
    <3>2. Len(s.trans[t].bufq) \in Nat
      BY <1>1
    <3>3. s.trans[t].data = s.trans[t].written + Len(s.trans[t].bufq)
      BY <2>0, <2>1 , <1>1, <3>2 DEF TransLinked
    <3>4. u.trans[t].data = u.trans[t].written + Len(u.trans[t].bufq) + 1
      <4>1. u.trans[t].data = s.trans[t].data /\ u.trans[t].written = s.trans[t].written
        BY <1>2
      <4> DEFINE d == s.trans[t].data
                 w == s.trans[t].written
                 l == Len(s.trans[t].bufq)
                 m == Len(u.trans[t].bufq)
      <4>2. w \in Nat /\ l \in Nat /\ d = w + l /\ m = l - 1
        BY <1>1, <1>4, <3>2, <3>3
      <4> HIDE DEF d, w, l, m
      <4>3. d = w + m + 1
        BY <4>2
      <4> QED BY <4>1, <4>3 DEF d, w, m
    <3> QED BY <1>2, <1>4, <2>1, <3>1, <3>4 DEF TransLinked
  <2>2. CASE x # t
    <3>1. u.trans[x] = s.trans[x] /\ u.queue = s.queue
      BY <1>2, <2>2
    <3> QED BY <2>0, <2>2, <3>1, Zenon DEF TransLinked
  <2> QED BY <2>1, <2>2
<1> DEFINE F == IF s.rec[b] = t THEN E \cup {b} ELSE E
<1>7. ASSUME NEW y \in Blocks PROVE BlockLinked(u, c, P \cup {t}, F, y)
  <2>0. BlockLinked(s, c, P, E, y)
    BY DEF Linked
  <2>1. \A x \in Trans : y \in ToSet(u.trans[x].bufq) <=> x \in ToSet(u.dq[y])
    <3> TAKE x \in Trans
    <3>1. y \in ToSet(s.trans[x].bufq) <=> x \in ToSet(s.dq[y])
      BY <2>0 DEF BlockLinked
    <3>2. CASE x = t /\ y = b
      BY <1>4, <1>5, <3>2
    <3>3. CASE x = t /\ y # b
      BY <1>2, <1>4, <3>1, <3>3
    <3>4. CASE x # t /\ y = b
      BY <1>2, <1>5, <3>1, <3>4
    <3>5. CASE x # t /\ y # b
      BY <1>2, <3>1, <3>5
    <3> QED BY <3>2, <3>3, <3>4, <3>5
  <2>2. CASE y = b
    <3>1. u.dq[b] # <<>> => s.dq[b] # <<>>
      <4>1. u.dq[b] \in Seq(Trans)
        BY ShapeTyped DEF Typed
      <4>2. s.dq[b] \in Seq(Trans)
        BY <1>1
      <4> QED BY <1>5, <4>1, <4>2, NonEmpty
    <3>2. IF b \in F THEN u.rec[b] \in (P \cup {t}) \ ToSet(u.dq[b])
          ELSE u.dq[b] # <<>> \/ u.buf[b].owner # 0 => u.rec[b] \in ToSet(u.dq[b])
      BY <1>2, <1>5, <2>0, <2>2, <3>1 DEF BlockLinked
    <3>3. c # 0 /\ c \in ToSet(u.dq[b]) => u.rec[b] = c
      BY <1>2, <1>5, <2>0, <2>2 DEF BlockLinked
    <3> HIDE DEF F
    <3> QED BY <1>2, <1>5, <2>0, <2>1, <2>2, <3>2, <3>3 DEF BlockLinked
  <2>3. CASE y # b
    <3>1. u.dq[y] = s.dq[y] /\ u.rec = s.rec /\ u.buf = s.buf
      BY <1>2, <2>3
    <3>2. y \in F <=> y \in E
      BY <2>3
    <3> HIDE DEF F
    <3> QED BY <2>0, <2>1, <3>1, <3>2 DEF BlockLinked
  <2> QED BY <2>2, <2>3
<1> QED BY <1>2, <1>6, <1>7, Zenon DEF Linked

\* Nothing in the log moves.
LEMMA LaidSame ==
  ASSUME NEW s, NEW u, NEW c \in Trans \cup {0}, NEW at, NEW max, Laid(s, c, at, max), Shape(s),
         u.queue = s.queue, u.start = s.start, u.last = s.last,
         \A t \in Trans : /\ u.trans[t].start = s.trans[t].start
                          /\ u.trans[t].alloc = s.trans[t].alloc
                          /\ u.trans[t].lba = s.trans[t].lba
                          /\ ToSet(u.trans[t].bufq) \subseteq ToSet(s.trans[t].bufq)
  PROVE  Laid(u, c, at, max)
<1>0. s.queue \in Seq(Trans)
  BY Parts DEF Shape
<1>1. PICK p : LaidAt(s, c, at, max, p)
  BY DEF Laid
<1>2. Positions(s, p)
  BY <1>1 DEF LaidAt
<1>3. Positions(u, p)
  <2>1. ASSUME NEW i \in 1 .. Len(u.queue)
        PROVE  LET q == u.trans[u.queue[i]]
               IN  /\ q.start = Wrap(p[i]) /\ p[i + 1] = p[i] + q.alloc
                   /\ \A b \in ToSet(q.bufq) : \E x \in p[i] .. p[i + 1] - 1 : q.lba[b] = Wrap(x)
    <3>1. u.queue[i] = s.queue[i] /\ s.queue[i] \in Trans /\ i \in 1 .. Len(s.queue)
      BY <1>0
    <3> DEFINE x == s.queue[i]
    <3>2. LET q == s.trans[x]
          IN  /\ q.start = Wrap(p[i]) /\ p[i + 1] = p[i] + q.alloc
              /\ \A b \in ToSet(q.bufq) : \E y \in p[i] .. p[i + 1] - 1 : q.lba[b] = Wrap(y)
      BY <1>2, <3>1, Zenon DEF Positions
    <3>3. /\ u.trans[x].start = s.trans[x].start /\ u.trans[x].alloc = s.trans[x].alloc
          /\ u.trans[x].lba = s.trans[x].lba
          /\ ToSet(u.trans[x].bufq) \subseteq ToSet(s.trans[x].bufq)
      BY <3>1
    <3> QED BY <3>1, <3>2, <3>3, ZenonT(60)
  <2> QED BY <1>2, <2>1, Zenon DEF Positions
<1>4. LaidAt(u, c, at, max, p)
  <2>1. CASE c = 0
    BY <1>1, <1>3, <2>1, Zenon DEF LaidAt
  <2>2. CASE c # 0
    <3>1. c \in Trans
      BY <2>2
    <3> QED BY <1>1, <1>3, <2>2, <3>1, Zenon DEF LaidAt
  <2> QED BY <2>1, <2>2
<1> QED BY <1>4, Zenon DEF Laid

\* The session but for its queued writes and the number in the superblock.
Same(u, s) ==
  /\ u.queue = s.queue /\ u.trans = s.trans /\ u.rec = s.rec /\ u.dq = s.dq /\ u.buf = s.buf
  /\ u.start = s.start /\ u.last = s.last /\ u.cur = s.cur

LEMMA SameKeeps ==
  ASSUME NEW s, NEW c, NEW P, NEW E, Linked(s, c, P, E), NEW u, Shape(u), Same(u, s)
  PROVE  /\ Linked(u, c, P, E)
         /\ \A at, max : Laid(s, c, at, max) => Laid(u, c, at, max)
         /\ (Quiet(s) => Quiet(u)) => Less(u, s, c)
<1>1. \A t \in Trans : TransLinked(u, c, P, t)
  BY Zenon DEF Linked, TransLinked, Same
<1>2. \A b \in Blocks : BlockLinked(u, c, P, E, b)
  BY Zenon DEF Linked, BlockLinked, Same
<1>3. Linked(u, c, P, E)
  BY <1>1, <1>2, Zenon DEF Linked, Same
<1>4. ASSUME NEW at, NEW max, Laid(s, c, at, max) PROVE Laid(u, c, at, max)
  <2>1. c \in Trans \cup {0} /\ Shape(s)
    BY DEF Linked
  <2> QED BY <1>4, <2>1, LaidSame DEF Same
<1>5. (Quiet(s) => Quiet(u)) => Less(u, s, c)
  BY Zenon DEF Same, Less
<1> QED BY <1>3, <1>4, <1>5

\* A block that has left a transaction is counted.
LEMMA CountedKeeps ==
  ASSUME NEW s, NEW c, NEW P, NEW E, Linked(s, c, P, E), NEW t \in P, t \in Trans, t # c,
         \A b \in E : s.rec[b] # t, NEW u, Shape(u), Counted(u, s, t)
  PROVE  /\ Linked(u, c, P \ {t}, E)
         /\ \A at, max : Laid(s, c, at, max) => Laid(u, c, at, max)
         /\ Less(u, s, c)
<1>1. ASSUME NEW x \in Trans PROVE TransLinked(u, c, P \ {t}, x)
  <2>0. TransLinked(s, c, P, x)
    BY DEF Linked
  <2>1. CASE x = t
    <3>1. t \in ToSet(s.queue) \cup {c}
      BY Unfinished
    <3> DEFINE d == s.trans[t].data
               w == s.trans[t].written
               l == Len(s.trans[t].bufq)
    <3>2. w \in Nat /\ l \in Nat /\ d = w + l + 1
      BY <2>0, <2>1, ShapeTyped DEF Linked, Typed, TransLinked
    <3>3. u.trans[t].data = d /\ u.trans[t].written = w + 1 /\ Len(u.trans[t].bufq) = l
      BY Zenon DEF Counted
    <3> HIDE DEF d, w, l
    <3>4. d = (w + 1) + l + 0
      BY <3>2
    <3>5. u.trans[t].data = u.trans[t].written + Len(u.trans[t].bufq) + 0
      BY <3>3, <3>4, Zenon
    <3>6. u.trans[t].bufq = s.trans[t].bufq /\ u.queue = s.queue
      BY Zenon DEF Counted
    <3> QED BY <2>0, <2>1, <3>1, <3>5, <3>6 DEF TransLinked
  <2>2. CASE x # t
    <3>1. u.trans[x] = s.trans[x] /\ u.queue = s.queue /\ (x \in P <=> x \in P \ {t})
      BY <2>2 DEF Counted
    <3> QED BY <2>0, <3>1 DEF TransLinked
  <2> QED BY <2>1, <2>2
<1>b. \A x \in Trans : u.trans[x].bufq = s.trans[x].bufq
  BY Zenon DEF Counted
<1>2. ASSUME NEW y \in Blocks PROVE BlockLinked(u, c, P \ {t}, E, y)
  <2>1. BlockLinked(s, c, P, E, y)
    BY DEF Linked
  <2>2. u.dq = s.dq /\ u.rec = s.rec /\ u.buf = s.buf
    BY DEF Counted
  <2> QED BY <1>b, <2>1, <2>2 DEF BlockLinked
<1>3. Linked(u, c, P \ {t}, E)
  BY <1>1, <1>2, Zenon DEF Linked, Counted
<1>4. ASSUME NEW at, NEW max, Laid(s, c, at, max) PROVE Laid(u, c, at, max)
  <2>1. c \in Trans \cup {0} /\ Shape(s)
    BY DEF Linked
  <2>2. \A x \in Trans : /\ u.trans[x].start = s.trans[x].start
                         /\ u.trans[x].alloc = s.trans[x].alloc
                         /\ u.trans[x].lba = s.trans[x].lba
    BY Zenon DEF Counted
  <2> QED BY <1>b, <1>4, <2>1, <2>2, LaidSame DEF Counted
<1>5. Less(u, s, c)
  <2>1. c # 0 => u.trans[c] = s.trans[c]
    BY DEF Counted, Linked
  <2>2. \A x \in Trans : u.trans[x].lba = s.trans[x].lba
    BY Zenon DEF Counted
  <2> QED BY <1>b, <2>1, <2>2, Zenon DEF Less, Counted, Quiet
<1> QED BY <1>3, <1>4, <1>5

\* Transactions that are done leave the head of the queue.
LEMMA PoppedKeeps ==
  ASSUME NEW s, NEW c, NEW P, NEW E, Linked(s, c, P, E), NEW n \in 0 .. Len(s.queue),
         \A i \in 1 .. n : Done(s, s.queue[i]), NEW u, Shape(u), Popped(u, s, n)
  PROVE  /\ Linked(u, c, P, E)
         /\ \A at, max : Laid(s, c, at, max) /\ max \in Nat => Laid(u, c, at, max)
         /\ Less(u, s, c) /\ u.dq = s.dq /\ u.buf = s.buf
         /\ \A b \in Blocks : s.rec[b] \in P => u.rec[b] = s.rec[b]
<1> DEFINE gone == {s.queue[i] : i \in 1 .. n}
<1>0. Typed(s) /\ Typed(u) /\ c \in Trans \cup {0} /\ c \notin ToSet(s.queue) /\ IsInjective(s.queue)
  BY ShapeTyped DEF Linked
<1>1. /\ s.queue \in Seq(Trans) /\ n \in Nat /\ Len(s.queue) \in Nat /\ n <= Len(s.queue)
      /\ DOMAIN s.queue = 1 .. Len(s.queue)
  BY <1>0 DEF Typed
<1>2. /\ u.queue = SubSeq(s.queue, n + 1, Len(s.queue))
      /\ \A x \in Trans : u.trans[x] = IF x \in gone THEN NoTrans ELSE s.trans[x]
      /\ \A b \in Blocks : u.rec[b] = IF s.rec[b] \in gone THEN 0 ELSE s.rec[b]
      /\ u.start = IF n = 0 THEN s.start ELSE Behind(s, s.queue[n])
      /\ u.dq = s.dq /\ u.buf = s.buf /\ u.w = s.w /\ u.last = s.last /\ u.cur = s.cur
  BY DEF Popped
<1>3. /\ Len(u.queue) = Len(s.queue) - n /\ DOMAIN u.queue = 1 .. Len(s.queue) - n
      /\ \A i \in 1 .. Len(s.queue) - n : u.queue[i] = s.queue[n + i]
  BY <1>1, <1>2
<1>4. /\ \A x \in gone : x \in Trans /\ x \in ToSet(s.queue) /\ Done(s, x)
      /\ ToSet(u.queue) = ToSet(s.queue) \ gone
  <2>1. \A x \in gone : x \in Trans /\ x \in ToSet(s.queue) /\ Done(s, x)
    BY <1>1 DEF ToSet
  <2>2. ASSUME NEW x \in ToSet(u.queue) PROVE x \in ToSet(s.queue) \ gone
    <3>1. PICK i \in 1 .. Len(s.queue) - n : x = s.queue[n + i]
      BY <1>3, <2>2 DEF ToSet
    <3>2. n + i \in DOMAIN s.queue /\ \A k \in 1 .. n : k \in DOMAIN s.queue /\ k # n + i
      BY <1>1
    <3>3. x \notin gone
      BY <1>0, <3>1, <3>2 DEF IsInjective
    <3> QED BY <3>1, <3>2, <3>3 DEF ToSet
  <2>3. ASSUME NEW x \in ToSet(s.queue), x \notin gone PROVE x \in ToSet(u.queue)
    <3>1. PICK i \in 1 .. Len(s.queue) : x = s.queue[i]
      BY <1>1, <2>3 DEF ToSet
    <3>2. i - n \in 1 .. Len(s.queue) - n /\ n + (i - n) = i
      BY <1>1, <2>3, <3>1
    <3>3. u.queue[i - n] = x
      BY <1>3, <3>1, <3>2
    <3> QED BY <1>3, <3>2, <3>3 DEF ToSet
  <2> QED BY <2>1, <2>2, <2>3
<1> HIDE DEF gone
<1>5. \A x \in gone : x \notin P /\ x # c /\ s.trans[x].bufq = <<>> /\ \A b \in Blocks : x \notin ToSet(s.dq[b])
  BY <1>0, <1>4, Unfinished, Zenon
<1>6. IsInjective(u.queue) /\ c \notin ToSet(u.queue)
  <2>1. ASSUME NEW i \in 1 .. Len(s.queue) - n, NEW k \in 1 .. Len(s.queue) - n, u.queue[i] = u.queue[k]
        PROVE  i = k
    <3>1. n + i \in DOMAIN s.queue /\ n + k \in DOMAIN s.queue
      BY <1>1
    <3>3. s.queue[n + i] = s.queue[n + k]
      BY <1>3, <2>1, Zenon
    <3>2. n + i = n + k
      BY <1>0, <3>1, <3>3, Zenon DEF IsInjective
    <3> QED BY <1>1, <3>2
  <2> QED BY <1>0, <1>3, <1>4, <2>1 DEF IsInjective
<1>7. ASSUME NEW x \in Trans PROVE TransLinked(u, c, P, x)
  <2>0. TransLinked(s, c, P, x)
    BY DEF Linked
  <2>1. CASE x \in gone
    <3>1. u.trans[x] = NoTrans /\ x \notin P
      BY <1>2, <1>5, <2>1
    <3> QED BY <3>1, NoTransFacts DEF TransLinked, IsInjective
  <2>2. CASE x \notin gone
    <3>1. u.trans[x] = s.trans[x]
      BY <1>2, <2>2
    <3> QED BY <1>4, <2>0, <2>2, <3>1 DEF TransLinked
  <2> QED BY <2>1, <2>2
<1>8. ASSUME NEW y \in Blocks PROVE BlockLinked(u, c, P, E, y)
  <2>0. BlockLinked(s, c, P, E, y)
    BY DEF Linked
  <2>1. \A x \in Trans : y \in ToSet(u.trans[x].bufq) <=> x \in ToSet(u.dq[y])
    <3> TAKE x \in Trans
    <3>1. y \in ToSet(s.trans[x].bufq) <=> x \in ToSet(s.dq[y])
      BY <2>0 DEF BlockLinked
    <3>2. CASE x \in gone
      <4>1. u.trans[x].bufq = <<>> /\ x \notin ToSet(u.dq[y])
        BY <1>2, <1>5, <3>2, NoTransFacts
      <4> QED BY <4>1 DEF ToSet
    <3>3. CASE x \notin gone
      BY <1>2, <3>1, <3>3
    <3> QED BY <3>2, <3>3
  <2>2. s.dq[y] # <<>> \/ s.buf[y].owner # 0 => s.rec[y] \notin gone
    BY <1>5, <2>0 DEF BlockLinked
  <2>3. y \in E => s.rec[y] \notin gone
    BY <1>5, <2>0 DEF BlockLinked
  <2>4. c # 0 /\ c \in ToSet(u.dq[y]) => u.rec[y] = c
    BY <1>2, <1>5, <2>0 DEF BlockLinked
  <2>5. u.buf[y].owner # 0 => u.buf[y].owner = u.rec[y]
    BY <1>2, <2>0, <2>2 DEF BlockLinked
  <2>6. IF y \in E THEN u.rec[y] \in P \ ToSet(u.dq[y])
        ELSE u.dq[y] # <<>> \/ u.buf[y].owner # 0 => u.rec[y] \in ToSet(u.dq[y])
    BY <1>2, <2>0, <2>2, <2>3 DEF BlockLinked
  <2> QED BY <1>2, <2>0, <2>1, <2>4, <2>5, <2>6 DEF BlockLinked
<1>9. Linked(u, c, P, E)
  BY <1>0, <1>6, <1>7, <1>8, Zenon DEF Linked
<1>10. Less(u, s, c)
  <2>1. c # 0 => u.trans[c] = s.trans[c]
    BY <1>0, <1>2, <1>5
  <2>2. \A t \in Trans : \A b \in ToSet(u.trans[t].bufq) :
          b \in ToSet(s.trans[t].bufq) /\ u.trans[t].lba = s.trans[t].lba
    BY <1>2, NoTransFacts DEF ToSet
  <2> QED BY <1>2, <1>4, <2>1, <2>2 DEF Less, Quiet
<1>11. \A b \in Blocks : s.rec[b] \in P => u.rec[b] = s.rec[b]
  BY <1>2, <1>5
<1>12. ASSUME NEW at, NEW max, Laid(s, c, at, max), max \in Nat PROVE Laid(u, c, at, max)
  <2>1. PICK p : LaidAt(s, c, at, max, p)
    BY <1>12 DEF Laid
  <2> DEFINE L == Len(s.queue)
             m == [i \in 1 .. (L - n) + 1 |-> p[n + i]]
  <2>2. Positions(s, p)
    BY <2>1 DEF LaidAt
  <2>3. /\ p \in [1 .. L + 1 -> Nat \ {0}] /\ s.start = Wrap(p[1])
        /\ \A i, k \in 1 .. L + 1 : i <= k => p[i] <= p[k]
    BY <2>2, Zenon DEF Positions
  <2>4. \A i \in 1 .. L :
          LET q == s.trans[s.queue[i]]
          IN  /\ q.start = Wrap(p[i]) /\ p[i + 1] = p[i] + q.alloc
              /\ \A b \in ToSet(q.bufq) : \E x \in p[i] .. p[i + 1] - 1 : q.lba[b] = Wrap(x)
    BY <2>2, Zenon DEF Positions
  <2>5. /\ m \in [1 .. (L - n) + 1 -> Nat \ {0}] /\ m[1] = p[n + 1] /\ m[(L - n) + 1] = p[L + 1]
        /\ \A i, k \in 1 .. (L - n) + 1 : i <= k => m[i] <= m[k]
        /\ \A i \in 1 .. L - n : m[i] = p[n + i] /\ m[i + 1] = p[(n + i) + 1]
        /\ p[1] <= p[n + 1] /\ p[n + 1] \in Nat /\ p[1] \in Nat
    <3>0. L \in Nat /\ n \in Nat /\ n <= L
      BY <1>1
    <3> HIDE DEF L
    <3>1. \A i \in 1 .. (L - n) + 1 : n + i \in 1 .. L + 1 /\ m[i] = p[n + i]
      BY <3>0
    <3>2. m \in [1 .. (L - n) + 1 -> Nat \ {0}]
      BY <2>3, <3>1
    <3>3. /\ 1 \in 1 .. (L - n) + 1 /\ (L - n) + 1 \in 1 .. (L - n) + 1 /\ n + ((L - n) + 1) = L + 1
          /\ 1 <= n + 1 /\ 1 \in 1 .. L + 1 /\ n + 1 \in 1 .. L + 1
      BY <3>0
    <3> HIDE DEF m
    <3>4. m[1] = p[n + 1] /\ m[(L - n) + 1] = p[L + 1]
      BY <3>1, <3>3
    <3>5. ASSUME NEW i \in 1 .. (L - n) + 1, NEW k \in 1 .. (L - n) + 1, i <= k PROVE m[i] <= m[k]
      <4>1. n + i <= n + k
        BY <3>0, <3>5
      <4> QED BY <2>3, <3>1, <4>1
    <3>6. ASSUME NEW i \in 1 .. L - n PROVE m[i] = p[n + i] /\ m[i + 1] = p[(n + i) + 1]
      <4>1. i \in 1 .. (L - n) + 1 /\ i + 1 \in 1 .. (L - n) + 1 /\ n + (i + 1) = (n + i) + 1
        BY <3>0
      <4> QED BY <3>1, <4>1
    <3> QED BY <2>3, <3>2, <3>3, <3>4, <3>5, <3>6
  <2>6. u.start = Wrap(m[1])
    <3>1. CASE n = 0
      BY <1>2, <2>3, <2>5, <3>1
    <3>2. CASE n # 0
      <4> DEFINE q == s.trans[s.queue[n]]
      <4>1. n \in 1 .. L /\ s.queue[n] \in Trans
        BY <1>1, <3>2
      <4>2. q.start = Wrap(p[n]) /\ p[n + 1] = p[n] + q.alloc
        BY <2>4, <4>1, Zenon
      <4>3. q.alloc \in Nat /\ p[n] \in Nat \ {0}
        BY <1>0, <1>1, <2>3, <4>1 DEF Typed
      <4>4. u.start = Wrap(q.start + q.alloc)
        BY <1>2, <3>2, Zenon DEF Behind
      <4> HIDE DEF q
      <4>5. Wrap(Wrap(p[n]) + q.alloc) = Wrap(p[n] + q.alloc)
        BY <4>3, WrapFacts
      <4> QED BY <2>5, <4>2, <4>4, <4>5
    <3> QED BY <3>1, <3>2
  <2>7. ASSUME NEW i \in 1 .. L - n
        PROVE  LET q == u.trans[u.queue[i]]
               IN  /\ q.start = Wrap(m[i]) /\ m[i + 1] = m[i] + q.alloc
                   /\ \A b \in ToSet(q.bufq) : \E x \in m[i] .. m[i + 1] - 1 : q.lba[b] = Wrap(x)
    <3> DEFINE t == s.queue[n + i]
    <3>1. n + i \in 1 .. L /\ t \in Trans /\ u.queue[i] = t
      BY <1>1, <1>3
    <3>2. t \notin gone
      <4>1. t \in ToSet(u.queue)
        BY <1>3, <3>1 DEF ToSet
      <4> QED BY <1>4, <4>1
    <3>3. u.trans[t] = s.trans[t]
      BY <1>2, <3>1, <3>2
    <3>4. LET q == s.trans[t]
          IN  /\ q.start = Wrap(p[n + i]) /\ p[(n + i) + 1] = p[n + i] + q.alloc
              /\ \A b \in ToSet(q.bufq) : \E x \in p[n + i] .. p[(n + i) + 1] - 1 : q.lba[b] = Wrap(x)
      BY <2>4, <3>1, Zenon
    <3>5. m[i] = p[n + i] /\ m[i + 1] = p[(n + i) + 1]
      BY <2>5
    <3> HIDE DEF m, t
    <3> QED BY <3>1, <3>3, <3>4, <3>5, Zenon
  <2> HIDE DEF m
  <2>8. Positions(u, m)
    <3>1. Len(u.queue) = L - n
      BY <1>3
    <3> HIDE DEF L
    <3>2. /\ m \in [1 .. Len(u.queue) + 1 -> Nat \ {0}]
          /\ \A i, k \in 1 .. Len(u.queue) + 1 : i <= k => m[i] <= m[k]
      BY <2>5, <3>1
    <3>3. \A i \in 1 .. Len(u.queue) :
            LET q == u.trans[u.queue[i]]
            IN  /\ q.start = Wrap(m[i]) /\ m[i + 1] = m[i] + q.alloc
                /\ \A b \in ToSet(q.bufq) : \E x \in m[i] .. m[i + 1] - 1 : q.lba[b] = Wrap(x)
      BY <2>7, <3>1, Zenon
    <3> QED BY <2>6, <3>2, <3>3, Zenon DEF Positions
  <2>9. LaidAt(u, c, at, max, m)
    <3> DEFINE e == p[L + 1]
               a == IF c = 0 THEN 0 ELSE s.trans[c].alloc
               gap == IF at = 0 THEN 0 ELSE 1
    <3>1. c # 0 => u.trans[c] = s.trans[c]
      BY <1>0, <1>2, <1>5
    <3>2. m[Len(u.queue) + 1] = e /\ e \in Nat /\ a \in Nat
      <4>1. e \in Nat
        BY <1>1, <2>3
      <4>2. a \in Nat
        BY <1>0 DEF Typed
      <4> QED BY <1>3, <2>5, <4>1, <4>2
    <3>3. e + a <= p[1] + max
      BY <2>1, Zenon DEF LaidAt
    <3>4. e + a <= m[1] + max
      <4> HIDE DEF e, a
      <4> QED BY <1>12, <2>5, <3>2, <3>3, SMTT(60)
    <3>5. /\ s.last = Wrap(e + a)
          /\ c # 0 => /\ s.trans[c].start = IF a = 0 THEN 0 ELSE Wrap(e)
                      /\ \A b \in Blocks : s.trans[c].lba[b] # 0 =>
                           \E x \in e + 1 .. (e + a) - (1 + gap) : s.trans[c].lba[b] = Wrap(x)
          /\ at # 0 => at = Wrap((e + a) - 1)
      BY <2>1, Zenon DEF LaidAt
    <3>6. a = IF c = 0 THEN 0 ELSE u.trans[c].alloc
      BY <3>1, Zenon
    <3> HIDE DEF e, a
    <3> QED BY <1>2, <2>8, <3>1, <3>2, <3>4, <3>5, <3>6 DEF LaidAt
  <2> QED BY <2>9, Zenon DEF Laid
<1> QED BY <1>2, <1>9, <1>10, <1>11, <1>12

\* Counting makes no write to the place of a block, the queue keeps its order, and
\* records only go.
Sorted(q) == \A i, k \in DOMAIN q : i < k => q[i] < q[k]
HomeWrites(q) == {q[k] : k \in {k \in DOMAIN q : q[k].dev = "home"}}
Calm(u, s) ==
  /\ HomeWrites(u.w) = HomeWrites(s.w)
  /\ Sorted(s.queue) => Sorted(u.queue)
  /\ \A y \in Blocks : u.rec[y] \in {0, s.rec[y]}

LEMMA CalmTrans ==
  ASSUME NEW s, NEW u, NEW v, Calm(u, s), Calm(v, u)
  PROVE  Calm(v, s)
<1>1. \A y \in Blocks : v.rec[y] \in {0, s.rec[y]}
  BY DEF Calm
<1> QED BY <1>1 DEF Calm

LEMMA SameCalm ==
  ASSUME NEW s, NEW u, Same(u, s), HomeWrites(u.w) = HomeWrites(s.w)
  PROVE  Calm(u, s)
BY DEF Same, Calm

LEMMA CountedCalm ==
  ASSUME NEW s, NEW t, NEW u, Counted(u, s, t)
  PROVE  Calm(u, s)
BY DEF Counted, Calm

LEMMA PoppedCalm ==
  ASSUME NEW s, s.queue \in Seq(Trans), NEW n \in 0 .. Len(s.queue), NEW u, Popped(u, s, n)
  PROVE  Calm(u, s)
<1>1. /\ u.queue = SubSeq(s.queue, n + 1, Len(s.queue)) /\ u.w = s.w
      /\ \A y \in Blocks : u.rec[y] \in {0, s.rec[y]}
  BY DEF Popped
<1>2. /\ DOMAIN u.queue = 1 .. Len(s.queue) - n
      /\ \A i \in 1 .. Len(s.queue) - n : u.queue[i] = s.queue[n + i] /\ n + i \in DOMAIN s.queue
  BY <1>1
<1>3. ASSUME Sorted(s.queue), NEW i \in DOMAIN u.queue, NEW k \in DOMAIN u.queue, i < k
      PROVE  u.queue[i] < u.queue[k]
  <2>1. n + i < n + k /\ n + i \in DOMAIN s.queue /\ n + k \in DOMAIN s.queue
    BY <1>2, <1>3
  <2> QED BY <1>2, <1>3, <2>1 DEF Sorted
<1> QED BY <1>1, <1>3 DEF Calm, Sorted

\* What the steps of a count leave intact.
Kept(u, s, c, P, E, at, max) ==
  /\ Linked(u, c, P, E) /\ Laid(u, c, at, max) /\ Less(u, s, c) /\ u.dq = s.dq /\ u.buf = s.buf
  /\ \A b \in Blocks : s.rec[b] \in P => u.rec[b] = s.rec[b]
  /\ Calm(u, s)

LEMMA KeptTrans ==
  ASSUME NEW s, NEW u, NEW v, NEW c, NEW P, NEW E, NEW at, NEW max, NEW Q,
         Kept(u, s, c, Q, E, at, max), Kept(v, u, c, P, E, at, max), P \subseteq Q
  PROVE  Kept(v, s, c, P, E, at, max)
<1>1. Less(v, s, c)
  BY LessTrans DEF Kept
<1>2. Calm(v, s)
  BY CalmTrans DEF Kept
<1> QED BY <1>1, <1>2 DEF Kept

\* The start of the log is set once more.
Restarted(s, x, y) == [s EXCEPT !.start = x, !.tid = y]

LEMMA RestartIs ==
  ASSUME NEW s, Shape(s), NEW x, x = s.start, NEW y
  PROVE  Shape(Restarted(s, x, y)) /\ Same(Restarted(s, x, y), s) /\ Restarted(s, x, y).w = s.w
<1> DEFINE u == Restarted(s, x, y)
<1>1. PICK V : s \in Sessions(V)
  BY DEF Shape
<1>2. s \in Sessions(V \cup {y})
  BY <1>1, SessionsGrow
<1>3. /\ u \in Sessions(V \cup {y}) /\ u.start = x /\ u.w = s.w
      /\ u.queue = s.queue /\ u.trans = s.trans /\ u.rec = s.rec /\ u.dq = s.dq /\ u.buf = s.buf
      /\ u.last = s.last /\ u.cur = s.cur
  BY <1>2 DEF Sessions, Restarted
<1> QED BY <1>3 DEF Shape, Same

\* The superblock is queued.
LEMMA SyncIs ==
  ASSUME NEW s, Shape(s)
  PROVE  /\ Shape(SyncSb(s)) /\ Same(SyncSb(s), s) /\ (Quiet(s) => Quiet(SyncSb(s)))
         /\ HomeWrites(SyncSb(s).w) = HomeWrites(s.w)
<1> DEFINE x == Write("sb", s.start, s.tid)
           q == Append(s.w, x)
           u == SyncSb(s)
<1>1. PICK V : s \in Sessions(V)
  BY DEF Shape
<1>2. s \in Sessions(V \cup {x}) /\ s.w \in Seq(V \cup {x})
  BY <1>1, SessionsGrow, Parts
<1>3. u = [s EXCEPT !.w = q]
  BY Zenon DEF SyncSb
<1>4. x.dev = "sb"
  BY DEF Write
<1> HIDE DEF x
<1>5. q \in Seq(V \cup {x}) /\ Len(q) = Len(s.w) + 1 /\ q[Len(s.w) + 1] = x
      /\ \A i \in 1 .. Len(s.w) : q[i] = s.w[i]
  BY <1>2
<1> HIDE DEF q
<1>6. /\ u \in Sessions(V \cup {x}) /\ u.w = q
      /\ u.queue = s.queue /\ u.trans = s.trans /\ u.rec = s.rec /\ u.dq = s.dq /\ u.buf = s.buf
      /\ u.start = s.start /\ u.last = s.last /\ u.cur = s.cur
  BY <1>2, <1>3, <1>5 DEF Sessions
<1>7. Quiet(s) => Quiet(u)
  <2> SUFFICES ASSUME Quiet(s), NEW k \in DOMAIN q PROVE q[k].dev # "log"
    BY <1>6 DEF Quiet
  <2>1. k \in 1 .. Len(s.w) + 1 /\ DOMAIN s.w = 1 .. Len(s.w) /\ Len(s.w) \in Nat
    BY <1>2, <1>5
  <2>2. CASE k = Len(s.w) + 1
    BY <1>4, <1>5, <2>2
  <2>3. CASE k \in 1 .. Len(s.w)
    BY <1>5, <2>1, <2>3 DEF Quiet
  <2> QED BY <2>1, <2>2, <2>3
<1>8. HomeWrites(q) = HomeWrites(s.w)
  <2>1. /\ DOMAIN q = 1 .. Len(s.w) + 1 /\ DOMAIN s.w = 1 .. Len(s.w) /\ Len(s.w) \in Nat
        /\ \A k \in DOMAIN q : k = Len(s.w) + 1 \/ k \in DOMAIN s.w
        /\ \A k \in DOMAIN s.w : k \in DOMAIN q
    BY <1>2, <1>5
  <2>2. \A k \in DOMAIN q : q[k].dev = "home" => k \in DOMAIN s.w
    BY <1>4, <1>5, <2>1
  <2>3. \A k \in DOMAIN s.w : q[k] = s.w[k]
    BY <1>5, <2>1
  <2> QED BY <2>1, <2>2, <2>3, Zenon DEF HomeWrites
<1> QED BY <1>6, <1>7, <1>8 DEF Shape, Same

\* Purge takes away the transactions at the head that are done.
LEMMA PurgeKeeps ==
  ASSUME NEW s, NEW c, NEW P, NEW E, NEW at, NEW max \in Nat, Linked(s, c, P, E), Laid(s, c, at, max)
  PROVE  Kept(Purge(s), s, c, P, E, at, max)
<1> DEFINE Up2(n) == /\ \A i \in 1 .. n : Done(s, s.queue[i])
                     /\ n < Len(s.queue) => ~Done(s, s.queue[n + 1])
<1>0. s.queue \in Seq(Trans) /\ Len(s.queue) \in Nat /\ Shape(s)
  BY ShapeTyped DEF Linked, Typed
<1>1. \E n \in 0 .. Len(s.queue) : Up2(n)
  <2> DEFINE S == {n \in 0 .. Len(s.queue) : n < Len(s.queue) => ~Done(s, s.queue[n + 1])}
  <2>1. S \subseteq Nat /\ Len(s.queue) \in S
    BY <1>0
  <2> DEFINE n == Min(S)
  <2>2. n \in S /\ \A y \in S : n <= y
    BY <2>1, MinNat
  <2> HIDE DEF n
  <2>3. ASSUME NEW i \in 1 .. n PROVE Done(s, s.queue[i])
    <3>1. i - 1 \in 0 .. Len(s.queue) /\ i - 1 < Len(s.queue) /\ (i - 1) + 1 = i /\ ~(n <= i - 1)
      BY <1>0, <2>2
    <3>2. i - 1 \notin S
      BY <2>2, <3>1
    <3> QED BY <3>1, <3>2
  <2> QED BY <2>2, <2>3
<1> DEFINE n == CHOOSE n \in 0 .. Len(s.queue) : Up2(n)
           p == Pop(s, n)
           u == Purge(s)
<1>2. n \in 0 .. Len(s.queue) /\ Up2(n)
  BY <1>1, Zenon
<1>3. u = IF p.queue = <<>> THEN p
          ELSE [p EXCEPT !.start = p.trans[p.queue[1]].start, !.tid = p.trans[p.queue[1]].id]
  BY Zenon DEF Purge
<1> HIDE DEF n
<1>4. Shape(p) /\ Popped(p, s, n)
  BY <1>0, <1>2, PopIs
<1> HIDE DEF p
<1>5. Kept(p, s, c, P, E, at, max)
  <2>1. Calm(p, s)
    BY <1>0, <1>2, <1>4, PoppedCalm
  <2> QED BY <1>2, <1>4, <2>1, PoppedKeeps DEF Kept
<1>6. CASE p.queue = <<>>
  BY <1>3, <1>5, <1>6
<1>7. CASE p.queue # <<>>
  <2> DEFINE h == p.queue[1]
             x == p.trans[h].start
             y == p.trans[h].id
             v == Restarted(p, x, y)
  <2>1. u = v
    BY <1>3, <1>7 DEF Restarted
  <2>2. p.queue \in Seq(Trans) /\ h \in Trans /\ 1 \in 1 .. Len(p.queue)
    BY <1>4, <1>7, ShapeTyped DEF Typed
  <2>4. x = p.start
    <3>1. PICK m : LaidAt(p, c, at, max, m)
      BY <1>5 DEF Kept, Laid
    <3>2. p.start = Wrap(m[1]) /\ x = Wrap(m[1])
      BY <2>2, <3>1, Zenon DEF LaidAt, Positions
    <3> QED BY <3>2
  <2> HIDE DEF x, y, h
  <2>5. Shape(v) /\ Same(v, p) /\ v.w = p.w
    BY <1>4, <2>4, RestartIs
  <2> HIDE DEF v
  <2>6. Kept(v, p, c, P, E, at, max)
    <3>1. Quiet(p) => Quiet(v)
      BY <2>5 DEF Quiet
    <3>2. Linked(p, c, P, E) /\ Laid(p, c, at, max)
      BY <1>5 DEF Kept
    <3>3. Linked(v, c, P, E) /\ Laid(v, c, at, max) /\ Less(v, p, c)
      BY <2>5, <3>1, <3>2, SameKeeps
    <3>4. Calm(v, p)
      BY <2>5, SameCalm
    <3> QED BY <2>5, <3>3, <3>4 DEF Kept, Same
  <2> QED BY <1>5, <2>1, <2>6, KeptTrans
<1> QED BY <1>6, <1>7

\* Count, after the block has left the transaction t.
LEMMA CountKeeps ==
  ASSUME NEW s, NEW c, NEW P, NEW E, NEW at, NEW max \in Nat, Linked(s, c, P, E), Laid(s, c, at, max),
         NEW t \in P, t \in Trans, t # c, \A b \in E : s.rec[b] # t,
         NEW first \in BOOLEAN, first => IsFirst(s, t)
  PROVE  /\ Kept(Count(s, t, first), s, c, P \ {t}, E, at, max)
         /\ \A x : x # t /\ IsFirst(s, x) => IsFirst(Count(s, t, first), x)
<1> DEFINE d == [s EXCEPT !.trans[t].written = @ + 1]
           u == Count(s, t, first)
<1>1. u = IF Done(d, t) /\ first THEN SyncSb(Purge(PopHead(d))) ELSE d
  BY Zenon DEF Count
<1>2. Shape(d) /\ Counted(d, s, t)
  BY WrittenIs DEF Linked
<1> HIDE DEF d, u
<1>3. Kept(d, s, c, P \ {t}, E, at, max) /\ d.queue = s.queue
  <2>1. Calm(d, s)
    BY <1>2, CountedCalm
  <2> QED BY <1>2, <2>1, CountedKeeps DEF Kept, Counted
<1>4. CASE ~(Done(d, t) /\ first)
  BY <1>1, <1>3, <1>4 DEF IsFirst, u
<1>5. CASE Done(d, t) /\ first
  <2> DEFINE p == PopHead(d)
             r == Purge(p)
  <2>1. /\ d.queue \in Seq(Trans) /\ d.queue # <<>> /\ d.queue[1] = t /\ 1 \in 0 .. Len(d.queue)
    BY <1>2, <1>3, <1>5, ShapeTyped DEF Typed, IsFirst
  <2>2. Shape(p) /\ Popped(p, d, 1)
    BY <1>2, <2>1, PopIs DEF PopHead
  <2>3. Linked(d, c, P \ {t}, E) /\ Laid(d, c, at, max)
    BY <1>3 DEF Kept
  <2> HIDE DEF p
  <2>4. Kept(p, d, c, P \ {t}, E, at, max)
    <3>1. \A i \in 1 .. 1 : Done(d, d.queue[i])
      BY <1>5, <2>1
    <3>2. Calm(p, d)
      BY <2>1, <2>2, PoppedCalm
    <3> QED BY <2>1, <2>2, <2>3, <3>1, <3>2, PoppedKeeps DEF Kept
  <2>5. Kept(r, p, c, P \ {t}, E, at, max)
    BY <2>4, PurgeKeeps DEF Kept
  <2> HIDE DEF r
  <2>6. Kept(r, s, c, P \ {t}, E, at, max)
    BY <1>3, <2>4, <2>5, KeptTrans
  <2>7. Kept(SyncSb(r), r, c, P \ {t}, E, at, max)
    <3>1. Linked(r, c, P \ {t}, E) /\ Laid(r, c, at, max) /\ Shape(r)
      BY <2>5 DEF Kept, Linked
    <3>2. /\ Shape(SyncSb(r)) /\ Same(SyncSb(r), r) /\ (Quiet(r) => Quiet(SyncSb(r)))
          /\ HomeWrites(SyncSb(r).w) = HomeWrites(r.w)
      BY <3>1, SyncIs
    <3>3. Linked(SyncSb(r), c, P \ {t}, E) /\ Laid(SyncSb(r), c, at, max) /\ Less(SyncSb(r), r, c)
      BY <3>1, <3>2, SameKeeps
    <3>4. Calm(SyncSb(r), r)
      BY <3>2, SameCalm
    <3> QED BY <3>2, <3>3, <3>4 DEF Kept, Same
  <2>8. u = SyncSb(r)
    BY <1>1, <1>5 DEF r, p
  <2>9. Kept(u, s, c, P \ {t}, E, at, max)
    BY <2>6, <2>7, <2>8, KeptTrans
  <2>10. \A x : x # t /\ IsFirst(s, x) => IsFirst(u, x)
    BY <1>5 DEF IsFirst
  <2> QED BY <2>9, <2>10 DEF u
<1> QED BY <1>4, <1>5

LEMMA UnlinkLess ==
  ASSUME NEW s, NEW c \in Trans \cup {0}, Shape(s), NEW b \in Blocks, NEW t \in Trans, t # c,
         NEW u, Unlinked(u, s, t, b)
  PROVE  Less(u, s, c) /\ \A at, max : Laid(s, c, at, max) => Laid(u, c, at, max)
<1>1. \A x \in Trans : /\ u.trans[x].start = s.trans[x].start /\ u.trans[x].alloc = s.trans[x].alloc
                       /\ u.trans[x].lba = s.trans[x].lba
                       /\ ToSet(u.trans[x].bufq) \subseteq ToSet(s.trans[x].bufq)
  <2>1. s.trans[t].bufq \in Seq(Blocks)
    BY ShapeTyped DEF Typed
  <2>2. ToSet(Without(s.trans[t].bufq, {b})) \subseteq ToSet(s.trans[t].bufq)
    BY <2>1, WithoutFacts
  <2> TAKE x \in Trans
  <2>3. CASE x = t
    BY <2>2, <2>3 DEF Unlinked
  <2>4. CASE x # t
    BY <2>4 DEF Unlinked
  <2> QED BY <2>3, <2>4
<1>2. \A at, max : Laid(s, c, at, max) => Laid(u, c, at, max)
  BY <1>1, LaidSame DEF Unlinked
<1>3. Less(u, s, c)
  <2>1. c # 0 => u.trans[c] = s.trans[c]
    BY DEF Unlinked
  <2> QED BY <1>1, <2>1 DEF Less, Unlinked, Quiet
<1> QED BY <1>2, <1>3

\* jbd_trans_finish_callback for one transaction.
Apart(u, s, b) == \A y \in Blocks : y # b => u.dq[y] = s.dq[y]
Completed(u, s, c, P, E, at, max, b, t) ==
  /\ Linked(u, c, P, E) /\ Laid(u, c, at, max) /\ Less(u, s, c) /\ u.buf = s.buf
  /\ u.dq[b] = Without(s.dq[b], {t}) /\ Apart(u, s, b) /\ Calm(u, s)
  /\ \A x : x # t /\ IsFirst(s, x) => IsFirst(u, x)
  /\ \A y \in Blocks : s.rec[y] \in P => u.rec[y] = s.rec[y]

LEMMA CompleteKeeps ==
  ASSUME NEW s, NEW c, NEW P, NEW E, NEW at, NEW max \in Nat, Linked(s, c, P, E), Laid(s, c, at, max),
         NEW b \in Blocks, NEW t \in ToSet(s.dq[b]), t # c, t \notin P, s.rec[b] # t
  PROVE  Completed(Complete(s, t, b), s, c, P, E, at, max, b, t)
<1> DEFINE m == Unlink(s, t, b)
           first == IsFirst(s, t)
           Q == P \cup {t}
           u == Count(m, t, first)
<1>1. t \in Trans /\ Shape(s) /\ c \in Trans \cup {0}
  <2>1. s.dq[b] \in Seq(Trans)
    BY ShapeTyped DEF Typed, Linked
  <2> QED BY <2>1 DEF ToSet, Linked
<1>2. Shape(m) /\ Unlinked(m, s, t, b)
  BY <1>1, UnlinkIs
<1>u. u = Complete(s, t, b)
  BY DEF Complete
<1> HIDE DEF m
<1>3. Linked(m, c, Q, E)
  <2>1. Linked(m, c, Q, IF s.rec[b] = t THEN E \cup {b} ELSE E)
    BY <1>2, UnlinkKeeps
  <2> QED BY <2>1
<1>4. Laid(m, c, at, max) /\ Less(m, s, c)
  BY <1>1, <1>2, UnlinkLess
<1>5. m.queue = s.queue /\ m.rec = s.rec /\ m.buf = s.buf /\ m.dq[b] = Without(s.dq[b], {t})
  BY <1>2 DEF Unlinked
<1>6. \A y \in E : m.rec[y] # t
  <2>1. ASSUME NEW y \in E, s.rec[y] = t PROVE FALSE
    <3>1. y \in Blocks /\ BlockLinked(s, c, P, E, y)
      BY DEF Linked
    <3> QED BY <2>1, <3>1 DEF BlockLinked
  <2> QED BY <1>5, <2>1
<1>7. first \in BOOLEAN /\ (first => IsFirst(m, t)) /\ t \in Q /\ Q \ {t} = P
  BY <1>5 DEF IsFirst
<1> HIDE DEF first, Q, u
<1>8. /\ Kept(u, m, c, P, E, at, max)
      /\ \A x : x # t /\ IsFirst(m, x) => IsFirst(u, x)
  <2>1. /\ Kept(u, m, c, Q \ {t}, E, at, max)
        /\ \A x : x # t /\ IsFirst(m, x) => IsFirst(u, x)
    BY <1>1, <1>3, <1>4, <1>6, <1>7, CountKeeps DEF u
  <2> QED BY <1>7, <2>1
<1>9. Less(u, s, c)
  BY <1>4, <1>8, LessTrans DEF Kept
<1>10. Calm(u, s)
  <2>1. Calm(m, s)
    BY <1>2 DEF Unlinked, Calm
  <2> QED BY <1>8, <2>1, CalmTrans DEF Kept
<1>11. Apart(u, s, b)
  BY <1>2, <1>8 DEF Unlinked, Kept, Apart
<1> QED BY <1>5, <1>8, <1>9, <1>10, <1>11, <1>u DEF Kept, IsFirst, Completed

\* Finishing is the function its recursion describes.
LEMMA FinishingDef ==
  ASSUME NEW s, NEW b, NEW n \in Nat, n = Len(s.dq[b])
  PROVE  LET x == Finishing(s, b)
         IN  x[0] = s /\ \A i \in 1 .. n : x[i] = Complete(x[i - 1], s.dq[b][i], b)
<1> DEFINE Step(g, i) == IF i = 0 THEN s ELSE Complete(g[i - 1], s.dq[b][i], b)
           Good(g, k) == g = [i \in 0 .. k |-> Step(g, i)]
           Bad == {k \in 0 .. n : ~ \E g : Good(g, k)}
<1>1. Bad = {}
  <2> SUFFICES ASSUME Bad # {} PROVE FALSE
    OBVIOUS
  <2>1. Bad \subseteq Nat
    OBVIOUS
  <2> HIDE DEF Bad
  <2>2. PICK k \in Bad : \A y \in Bad : k <= y
    BY <2>1, MinNat
  <2>3. k \in 0 .. n /\ ~ \E g : Good(g, k)
    BY <2>2 DEF Bad
  <2>4. CASE k = 0
    <3> DEFINE g == [i \in 0 .. 0 |-> s]
    <3>1. ASSUME NEW i \in 0 .. 0 PROVE Step(g, i) = s
      <4>1. i = 0
        OBVIOUS
      <4> QED BY <4>1, Zenon
    <3>2. g = [i \in 0 .. 0 |-> Step(g, i)]
      <4> HIDE DEF Step
      <4> QED BY <3>1, Zenon
    <3> QED BY <2>3, <2>4, <3>2, Zenon
  <2>5. CASE k > 0
    <3>1. k - 1 \in 0 .. n /\ k - 1 \notin Bad
      BY <2>1, <2>2, <2>3, <2>5
    <3>2. PICK g : Good(g, k - 1)
      BY <3>1 DEF Bad
    <3> DEFINE last == Step(g, k)
               h == [i \in 0 .. k |-> IF i < k THEN g[i] ELSE last]
    <3>3. ASSUME NEW i \in 0 .. k PROVE h[i] = Step(h, i)
      <4>1. CASE i = k
        <5>1. k \in 0 .. k /\ k - 1 \in 0 .. k /\ k - 1 < k /\ ~(k < k) /\ k # 0
          BY <2>3, <2>5
        <5>2. h[k] = last /\ h[k - 1] = g[k - 1]
          <6> HIDE DEF last
          <6> QED BY <5>1
        <5> HIDE DEF h
        <5> QED BY <4>1, <5>1, <5>2, Zenon
      <4>2. CASE i # k
        <5>1. i \in 0 .. k - 1 /\ i < k /\ (i # 0 => i - 1 \in 0 .. k /\ i - 1 < k)
          BY <2>3, <4>2
        <5>2. g[i] = Step(g, i)
          <6> HIDE DEF Step
          <6> QED BY <3>2, <5>1
        <5>3. h[i] = g[i] /\ (i # 0 => h[i - 1] = g[i - 1])
          <6> HIDE DEF last
          <6> QED BY <5>1
        <5> HIDE DEF h
        <5> QED BY <5>2, <5>3, Zenon
      <4> QED BY <4>1, <4>2, Zenon
    <3>4. h = [i \in 0 .. k |-> Step(h, i)]
      <4>1. h = [i \in 0 .. k |-> h[i]]
        <5> HIDE DEF last
        <5> QED OBVIOUS
      <4> HIDE DEF h, Step
      <4> QED BY <3>3, <4>1
    <3> HIDE DEF h
    <3> QED BY <2>3, <3>4, Zenon
  <2> QED BY <2>3, <2>4, <2>5
<1>2. PICK g : Good(g, n)
  <2>1. n \in 0 .. n
    OBVIOUS
  <2>2. n \notin Bad
    BY <1>1, Zenon
  <2> QED BY <2>1, <2>2
<1> DEFINE x == Finishing(s, b)
<1>3. x = CHOOSE f : f = [i \in 0 .. n |-> Step(f, i)]
  BY Zenon DEF Finishing
<1> HIDE DEF Step, x
<1>4. x = [i \in 0 .. n |-> Step(x, i)]
  BY <1>2, <1>3, Zenon
<1>5. \A i \in 0 .. n : x[i] = Step(x, i)
  BY <1>4, Zenon
<1>6. x[0] = s
  <2>1. 0 \in 0 .. n
    OBVIOUS
  <2> QED BY <1>5, <2>1, Zenon DEF Step
<1>7. ASSUME NEW i \in 1 .. n PROVE x[i] = Step(x, i) /\ i # 0
  <2>1. i \in 0 .. n /\ i # 0
    OBVIOUS
  <2> QED BY <1>5, <2>1, Zenon DEF Step
<1> QED BY <1>6, <1>7, Zenon DEF x, Step

\* So is Revoking.
RevokeOne(s, b) == IF s.dq[b] = <<>> THEN s ELSE EndWrite(s, Last(s.dq[b]), b)

LEMMA RevokingDef ==
  ASSUME NEW s, NEW r, NEW n \in Nat, n = Len(r)
  PROVE  LET x == Revoking(s, r)
         IN  x[0] = s /\ \A i \in 1 .. n : x[i] = RevokeOne(x[i - 1], r[i])
<1> DEFINE Step(g, i) == IF i = 0 THEN s ELSE IF g[i - 1].dq[r[i]] = <<>> THEN g[i - 1]
                         ELSE EndWrite(g[i - 1], Last(g[i - 1].dq[r[i]]), r[i])
           Good(g, k) == g = [i \in 0 .. k |-> Step(g, i)]
           Bad == {k \in 0 .. n : ~ \E g : Good(g, k)}
<1>1. Bad = {}
  <2> SUFFICES ASSUME Bad # {} PROVE FALSE
    OBVIOUS
  <2>1. Bad \subseteq Nat
    OBVIOUS
  <2> HIDE DEF Bad
  <2>2. PICK k \in Bad : \A y \in Bad : k <= y
    BY <2>1, MinNat
  <2>3. k \in 0 .. n /\ ~ \E g : Good(g, k)
    BY <2>2 DEF Bad
  <2>4. CASE k = 0
    <3> DEFINE g == [i \in 0 .. 0 |-> s]
    <3>1. ASSUME NEW i \in 0 .. 0 PROVE Step(g, i) = s
      <4>1. i = 0
        OBVIOUS
      <4> QED BY <4>1, Zenon
    <3>2. g = [i \in 0 .. 0 |-> Step(g, i)]
      <4> HIDE DEF Step
      <4> QED BY <3>1, Zenon
    <3> QED BY <2>3, <2>4, <3>2, Zenon
  <2>5. CASE k > 0
    <3>1. k - 1 \in 0 .. n /\ k - 1 \notin Bad
      BY <2>1, <2>2, <2>3, <2>5
    <3>2. PICK g : Good(g, k - 1)
      BY <3>1 DEF Bad
    <3> DEFINE last == Step(g, k)
               h == [i \in 0 .. k |-> IF i < k THEN g[i] ELSE last]
    <3>3. ASSUME NEW i \in 0 .. k PROVE h[i] = Step(h, i)
      <4>1. CASE i = k
        <5>1. k \in 0 .. k /\ k - 1 \in 0 .. k /\ k - 1 < k /\ ~(k < k) /\ k # 0
          BY <2>3, <2>5
        <5>2. h[k] = last /\ h[k - 1] = g[k - 1]
          <6> HIDE DEF last
          <6> QED BY <5>1
        <5> HIDE DEF h
        <5> QED BY <4>1, <5>1, <5>2, Zenon
      <4>2. CASE i # k
        <5>1. i \in 0 .. k - 1 /\ i < k /\ (i # 0 => i - 1 \in 0 .. k /\ i - 1 < k)
          BY <2>3, <4>2
        <5>2. g[i] = Step(g, i)
          <6> HIDE DEF Step
          <6> QED BY <3>2, <5>1
        <5>3. h[i] = g[i] /\ (i # 0 => h[i - 1] = g[i - 1])
          <6> HIDE DEF last
          <6> QED BY <5>1
        <5> HIDE DEF h
        <5> QED BY <5>2, <5>3, Zenon
      <4> QED BY <4>1, <4>2, Zenon
    <3>4. h = [i \in 0 .. k |-> Step(h, i)]
      <4>1. h = [i \in 0 .. k |-> h[i]]
        <5> HIDE DEF last
        <5> QED OBVIOUS
      <4> HIDE DEF h, Step
      <4> QED BY <3>3, <4>1
    <3> HIDE DEF h
    <3> QED BY <2>3, <3>4, Zenon
  <2> QED BY <2>3, <2>4, <2>5
<1>2. PICK g : Good(g, n)
  <2>1. n \in 0 .. n
    OBVIOUS
  <2>2. n \notin Bad
    BY <1>1, Zenon
  <2> QED BY <2>1, <2>2
<1> DEFINE x == Revoking(s, r)
<1>3. x = CHOOSE f : f = [i \in 0 .. n |-> Step(f, i)]
  BY Zenon DEF Revoking
<1> HIDE DEF Step, x
<1>4. x = [i \in 0 .. n |-> Step(x, i)]
  BY <1>2, <1>3, Zenon
<1>5. \A i \in 0 .. n : x[i] = Step(x, i)
  BY <1>4, Zenon
<1>6. x[0] = s
  <2>1. 0 \in 0 .. n
    OBVIOUS
  <2> QED BY <1>5, <2>1, Zenon DEF Step
<1>7. ASSUME NEW i \in 1 .. n PROVE x[i] = Step(x, i) /\ i # 0
  <2>1. i \in 0 .. n /\ i # 0
    OBVIOUS
  <2> QED BY <1>5, <2>1, Zenon DEF Step
<1>8. \A i \in 1 .. n : x[i] = RevokeOne(x[i - 1], r[i])
  BY <1>7, Zenon DEF Step, RevokeOne
<1> QED BY <1>6, <1>8, Zenon DEF x

LEMMA RevokingSteps ==
  ASSUME NEW s, NEW r, Len(r) \in Nat
  PROVE  /\ Revoking(s, r)[0] = s
         /\ \A i \in 1 .. Len(r) : Revoking(s, r)[i] = RevokeOne(Revoking(s, r)[i - 1], r[i])
BY RevokingDef

\* The older copies of a block are completed one after the other.
Finished(u, s, c, t, b, at, max) ==
  /\ Linked(u, c, {t}, {b}) /\ Laid(u, c, at, max) /\ Less(u, s, c) /\ u.buf = s.buf
  /\ u.dq[b] = <<>> /\ (IsFirst(s, t) => IsFirst(u, t)) /\ Apart(u, s, b) /\ Calm(u, s)

LEMMA FinishingKeeps ==
  ASSUME NEW s, NEW c, NEW at, NEW max \in Nat, NEW b \in Blocks, NEW t, t # c,
         Linked(s, c, {t}, {b}), Laid(s, c, at, max)
  PROVE  Finished(Finishing(s, b)[Len(s.dq[b])], s, c, t, b, at, max)
<1> DEFINE x == Finishing(s, b)
           d == s.dq[b]
           n == Len(d)
           Q(i) == /\ Linked(x[i], c, {t}, {b}) /\ Laid(x[i], c, at, max) /\ Less(x[i], s, c)
                   /\ x[i].buf = s.buf /\ (IsFirst(s, t) => IsFirst(x[i], t))
                   /\ ToSet(x[i].dq[b]) = {d[k] : k \in i + 1 .. n}
                   /\ Apart(x[i], s, b) /\ Calm(x[i], s)
           Bad == {i \in 0 .. n : ~Q(i)}
<1>0. d \in Seq(Trans) /\ n \in Nat /\ IsInjective(d) /\ DOMAIN d = 1 .. n
  <2>1. d \in Seq(Trans) /\ IsInjective(d)
    BY ShapeTyped DEF Typed, Linked, BlockLinked
  <2> QED BY <2>1
<1>1. x[0] = s /\ \A i \in 1 .. n : x[i] = Complete(x[i - 1], d[i], b)
  BY <1>0, FinishingDef, Zenon
<1> HIDE DEF x
<1>2. Q(0)
  <2>1. ToSet(s.dq[b]) = {d[k] : k \in 0 + 1 .. n}
    BY <1>0 DEF ToSet
  <2>2. Less(s, s, c) /\ Apart(s, s, b) /\ Calm(s, s)
    BY DEF Less, Apart, Calm
  <2> QED BY <1>1, <2>1, <2>2
<1>3. ASSUME NEW i \in 1 .. n, Q(i - 1) PROVE Q(i)
  <2> DEFINE y == x[i - 1]
             u == d[i]
             z == Complete(y, u, b)
  <2>1. /\ Linked(y, c, {t}, {b}) /\ Laid(y, c, at, max) /\ Less(y, s, c)
        /\ y.buf = s.buf /\ (IsFirst(s, t) => IsFirst(y, t))
        /\ ToSet(y.dq[b]) = {d[k] : k \in i .. n}
        /\ Apart(y, s, b) /\ Calm(y, s)
    <3>1. (i - 1) + 1 = i
      BY <1>0
    <3> QED BY <1>3, <3>1
  <2>2. x[i] = z
    BY <1>1
  <2> HIDE DEF y
  <2>3. u \in ToSet(y.dq[b])
    BY <1>0, <2>1
  <2>4. BlockLinked(y, c, {t}, {b}, b)
    BY <2>1 DEF Linked
  <2>5. y.rec[b] = t /\ t \notin ToSet(y.dq[b])
    BY <2>4 DEF BlockLinked
  <2>6. u # t /\ u # c
    <3>1. u # t
      BY <2>3, <2>5
    <3>2. u \in Trans
      BY <1>0
    <3>3. ASSUME u = c PROVE FALSE
      <4>1. c # 0
        BY <3>2, <3>3, JournalAssumption DEF Trans
      <4>2. y.rec[b] = c
        BY <2>3, <2>4, <3>3, <4>1 DEF BlockLinked
      <4> QED BY <2>5, <4>2
    <3> QED BY <3>1, <3>3
  <2>7. /\ Linked(z, c, {t}, {b}) /\ Laid(z, c, at, max) /\ Less(z, y, c) /\ z.buf = y.buf
        /\ z.dq[b] = Without(y.dq[b], {u}) /\ Apart(z, y, b) /\ Calm(z, y)
        /\ \A w : w # u /\ IsFirst(y, w) => IsFirst(z, w)
    <3>1. u \notin {t} /\ y.rec[b] # u
      BY <2>5, <2>6
    <3>2. z = Complete(y, u, b)
      OBVIOUS
    <3> HIDE DEF u, z
    <3>3. Completed(Complete(y, u, b), y, c, {t}, {b}, at, max, b, u)
      BY <2>1, <2>3, <2>6, <3>1, CompleteKeeps
    <3> QED BY <3>2, <3>3 DEF Completed
  <2> HIDE DEF z
  <2>8. ToSet(z.dq[b]) = {d[k] : k \in i + 1 .. n}
    <3>1. y.dq[b] \in Seq(Trans)
      BY <2>1, ShapeTyped DEF Typed, Linked
    <3>2. ToSet(z.dq[b]) = ToSet(y.dq[b]) \ {u}
      BY <2>7, <3>1, WithoutFacts
    <3>3. {d[k] : k \in i .. n} \ {d[i]} = {d[k] : k \in i + 1 .. n}
      <4>1. \A k \in i .. n : k = i \/ k \in i + 1 .. n
        BY <1>0
      <4>2. \A k \in i + 1 .. n : k \in i .. n /\ d[k] # d[i]
        <5> TAKE k \in i + 1 .. n
        <5>1. k \in DOMAIN d /\ i \in DOMAIN d /\ k # i /\ k \in i .. n
          BY <1>0
        <5> QED BY <1>0, <5>1 DEF IsInjective
      <4> HIDE DEF d, n
      <4> QED BY <4>1, <4>2
    <3> QED BY <2>1, <3>2, <3>3
  <2>9. Less(z, s, c)
    BY <2>1, <2>7, LessTrans
  <2>10. IsFirst(s, t) => IsFirst(z, t)
    BY <2>1, <2>6, <2>7
  <2>11. Apart(z, s, b) /\ Calm(z, s)
    BY <2>1, <2>7, CalmTrans DEF Apart
  <2> QED BY <2>1, <2>2, <2>7, <2>8, <2>9, <2>10, <2>11
<1> HIDE DEF Q
<1>4. Bad = {}
  <2> SUFFICES ASSUME Bad # {} PROVE FALSE
    OBVIOUS
  <2>1. Bad \subseteq Nat
    BY <1>0
  <2>2. PICK m \in Bad : \A y \in Bad : m <= y
    BY <2>1, MinNat
  <2>3. m \in 0 .. n /\ ~Q(m)
    OBVIOUS
  <2>4. m # 0
    BY <1>2, <2>3
  <2>5. m \in 1 .. n /\ m - 1 \in 0 .. n /\ ~(m <= m - 1)
    BY <1>0, <2>3, <2>4
  <2>6. Q(m - 1)
    BY <2>2, <2>5
  <2> QED BY <1>3, <2>3, <2>5, <2>6
<1>5. Q(n)
  <2>1. n \in 0 .. n
    BY <1>0
  <2> QED BY <1>4, <2>1
<1>6. x[n].dq[b] = <<>>
  <2>1. x[n].dq[b] \in Seq(Trans)
    BY <1>5, ShapeTyped DEF Q, Typed, Linked
  <2>2. n + 1 .. n = {}
    BY <1>0
  <2>3. ToSet(x[n].dq[b]) = {}
    BY <1>5, <2>2 DEF Q
  <2> QED BY <2>1, <2>3, NonEmpty
<1> QED BY <1>5, <1>6, Zenon DEF Q, x, Finished

\* A buffer is cleared, and the writes may change.
Cleared(u, s, b) ==
  /\ u.buf[b] = NoBuf /\ \A y \in Blocks : y # b => u.buf[y] = s.buf[y]
  /\ u.queue = s.queue /\ u.trans = s.trans /\ u.rec = s.rec /\ u.dq = s.dq
  /\ u.start = s.start /\ u.last = s.last /\ u.cur = s.cur

LEMMA ClearIs ==
  ASSUME NEW s, Shape(s), NEW b \in Blocks
  PROVE  LET u == [s EXCEPT !.buf[b] = NoBuf]
         IN  Shape(u) /\ Cleared(u, s, b) /\ u.w = s.w
<1> DEFINE x == [s.buf EXCEPT ![b] = NoBuf]
           u == [s EXCEPT !.buf[b] = NoBuf]
<1>1. PICK V : s \in Sessions(V)
  BY DEF Shape
<1>2. s \in Sessions(V \cup {0}) /\ s.buf \in [Blocks -> [val : V \cup {0}, owner : Trans \cup {0}]]
  BY <1>1, SessionsGrow, Parts
<1>3. NoBuf \in [val : V \cup {0}, owner : Trans \cup {0}]
  BY DEF NoBuf
<1>4. u = [s EXCEPT !.buf = x]
  BY <1>2, Zenon
<1>5. /\ x \in [Blocks -> [val : V \cup {0}, owner : Trans \cup {0}]]
      /\ x[b] = NoBuf /\ \A y \in Blocks : y # b => x[y] = s.buf[y]
  BY <1>2, <1>3
<1> HIDE DEF x
<1>6. /\ u \in Sessions(V \cup {0}) /\ u.buf = x /\ u.w = s.w
      /\ u.queue = s.queue /\ u.trans = s.trans /\ u.rec = s.rec /\ u.dq = s.dq
      /\ u.start = s.start /\ u.last = s.last /\ u.cur = s.cur
  BY <1>2, <1>4, <1>5 DEF Sessions
<1> QED BY <1>5, <1>6 DEF Shape, Cleared

LEMMA ClearKeeps ==
  ASSUME NEW s, NEW c, NEW P, NEW E, Linked(s, c, P, E), NEW b \in Blocks, c # 0 => s.buf[b].owner # c,
         NEW u, Shape(u), Cleared(u, s, b)
  PROVE  /\ Linked(u, c, P, E) /\ (s.dq[b] = <<>> => Linked(u, c, P, E \ {b}))
         /\ \A at, max : Laid(s, c, at, max) => Laid(u, c, at, max)
         /\ (Quiet(s) => Quiet(u)) => Less(u, s, c)
<1>1. \A t \in Trans : TransLinked(u, c, P, t)
  BY Zenon DEF Linked, TransLinked, Cleared
<1>2. NoBuf.owner = 0
  BY DEF NoBuf
<1>3. ASSUME NEW y \in Blocks
      PROVE  /\ BlockLinked(u, c, P, E, y)
             /\ s.dq[b] = <<>> => BlockLinked(u, c, P, E \ {b}, y)
  <2>1. BlockLinked(s, c, P, E, y)
    BY DEF Linked
  <2>2. u.trans = s.trans /\ u.dq = s.dq /\ u.rec = s.rec
    BY DEF Cleared
  <2>3. CASE y = b
    <3>1. u.buf[y].owner = 0
      BY <1>2, <2>3 DEF Cleared
    <3> QED BY <2>1, <2>2, <2>3, <3>1 DEF BlockLinked
  <2>4. CASE y # b
    <3>1. u.buf[y] = s.buf[y]
      BY <2>4 DEF Cleared
    <3> QED BY <2>1, <2>2, <2>4, <3>1 DEF BlockLinked
  <2> QED BY <2>3, <2>4
<1>4. Linked(u, c, P, E) /\ (s.dq[b] = <<>> => Linked(u, c, P, E \ {b}))
  <2>1. Linked(u, c, P, E)
    BY <1>1, <1>3, Zenon DEF Linked, Cleared
  <2>2. s.dq[b] = <<>> => Linked(u, c, P, E \ {b})
    <3>1. E \ {b} \subseteq Blocks
      BY DEF Linked
    <3> QED BY <1>1, <1>3, <2>1, <3>1, Zenon DEF Linked
  <2> QED BY <2>1, <2>2
<1>5. \A at, max : Laid(s, c, at, max) => Laid(u, c, at, max)
  BY LaidSame DEF Cleared, Linked
<1>6. (Quiet(s) => Quiet(u)) => Less(u, s, c)
  BY DEF Cleared, Less
<1> QED BY <1>4, <1>5, <1>6

\* A step of checkpointing outside of jbd_trans_end_write.
Down(u, s, c, at, max) == Linked(u, c, {}, {}) /\ Laid(u, c, at, max) /\ Less(u, s, c)

LEMMA DownTrans ==
  ASSUME NEW s, NEW u, NEW v, NEW c, NEW at, NEW max, Down(u, s, c, at, max), Down(v, u, c, at, max)
  PROVE  Down(v, s, c, at, max)
BY LessTrans DEF Down

\* The copy of transaction t has been written to the place of block b, or is not wanted
\* any more: with the newest copy all go, and the buffer is clean.
Settled(u, s, b, t) ==
  /\ IF s.rec[b] = t THEN u.dq[b] = <<>> /\ u.buf[b] = NoBuf
     ELSE u.dq[b] = Without(s.dq[b], {t}) /\ u.buf[b] = s.buf[b]
  /\ \A y \in Blocks : y # b => u.dq[y] = s.dq[y] /\ u.buf[y] = s.buf[y]
  /\ Sorted(s.queue) => Sorted(u.queue)
  /\ \A y \in Blocks : u.rec[y] \in {0, s.rec[y]}

\* jbd_trans_end_write.
LEMMA EndWriteKeeps ==
  ASSUME NEW s, NEW c, NEW at, NEW max \in Nat, Linked(s, c, {}, {}), Laid(s, c, at, max),
         NEW b \in Blocks, NEW t \in ToSet(s.dq[b]), t # c
  PROVE  /\ Down(EndWrite(s, t, b), s, c, at, max) /\ Settled(EndWrite(s, t, b), s, b, t)
         /\ HomeWrites(EndWrite(s, t, b).w) = HomeWrites(s.w)
<1> DEFINE first == IsFirst(s, t)
           one == Unlink(s, t, b)
           all == Finishing(one, b)[Len(one.dq[b])]
           clear == [all EXCEPT !.buf[b] = NoBuf]
           u == EndWrite(s, t, b)
<1>1. t \in Trans /\ Shape(s) /\ c \in Trans \cup {0}
  <2>1. s.dq[b] \in Seq(Trans)
    BY ShapeTyped DEF Typed, Linked
  <2> QED BY <2>1 DEF ToSet, Linked
<1>2. u = Count(IF s.rec[b] = t THEN clear ELSE one, t, first)
  BY Zenon DEF EndWrite
<1> HIDE DEF u
<1>3. CASE s.rec[b] # t
  <2>1. u = Complete(s, t, b)
    BY <1>2, <1>3 DEF Complete
  <2>0. Completed(u, s, c, {}, {}, at, max, b, t)
    BY <1>3, <2>1, CompleteKeeps
  <2>2. Linked(u, c, {}, {}) /\ Laid(u, c, at, max) /\ Less(u, s, c)
    BY <2>0 DEF Completed
  <2>3. Settled(u, s, b, t) /\ HomeWrites(u.w) = HomeWrites(s.w)
    BY <1>3, <2>0 DEF Completed, Apart, Calm, Settled
  <2> QED BY <2>2, <2>3 DEF u, Down
<1>4. CASE s.rec[b] = t
  <2>1. Shape(one) /\ Unlinked(one, s, t, b)
    BY <1>1, UnlinkIs
  <2> HIDE DEF one
  <2>2. Linked(one, c, {t}, {b})
    <3>1. Linked(one, c, {} \cup {t}, IF s.rec[b] = t THEN {} \cup {b} ELSE {})
      BY <2>1, UnlinkKeeps, Zenon
    <3>2. {} \cup {t} = {t} /\ (IF s.rec[b] = t THEN {} \cup {b} ELSE {}) = {b}
      BY <1>4
    <3> QED BY <3>1, <3>2
  <2>3. Laid(one, c, at, max) /\ Less(one, s, c) /\ (IsFirst(s, t) => IsFirst(one, t))
    BY <1>1, <2>1, UnlinkLess DEF Unlinked, IsFirst
  <2>4. /\ Linked(all, c, {t}, {b}) /\ Laid(all, c, at, max) /\ Less(all, one, c)
        /\ all.dq[b] = <<>> /\ (IsFirst(one, t) => IsFirst(all, t))
        /\ all.buf = one.buf /\ Apart(all, one, b) /\ Calm(all, one)
    <3>1. Finished(Finishing(one, b)[Len(one.dq[b])], one, c, t, b, at, max)
      BY <2>2, <2>3, FinishingKeeps
    <3> QED BY <3>1 DEF Finished
  <2> HIDE DEF all
  <2>5. Shape(clear) /\ Cleared(clear, all, b) /\ clear.w = all.w
    BY <2>4, ClearIs DEF Linked
  <2> HIDE DEF clear
  <2>6. c # 0 => all.buf[b].owner # c
    <3>1. BlockLinked(all, c, {t}, {b}, b)
      BY <2>4 DEF Linked
    <3> QED BY <3>1 DEF BlockLinked
  <2>7. /\ Linked(clear, c, {t}, {b} \ {b}) /\ Laid(clear, c, at, max) /\ Less(clear, all, c)
        /\ (IsFirst(all, t) => IsFirst(clear, t))
    <3>1. Quiet(all) => Quiet(clear)
      BY <2>5 DEF Quiet
    <3>2. /\ Linked(clear, c, {t}, {b} \ {b}) /\ Laid(clear, c, at, max)
          /\ (Quiet(all) => Quiet(clear)) => Less(clear, all, c)
      BY <2>4, <2>5, <2>6, ClearKeeps
    <3>3. clear.queue = all.queue
      BY <2>5 DEF Cleared
    <3> QED BY <3>1, <3>2, <3>3 DEF IsFirst
  <2>8. Linked(clear, c, {t}, {})
    <3>1. {b} \ {b} = {}
      OBVIOUS
    <3> QED BY <2>7, <3>1
  <2>9. first \in BOOLEAN /\ (first => IsFirst(clear, t))
    BY <2>3, <2>4, <2>7 DEF IsFirst
  <2> HIDE DEF first
  <2>10. Kept(Count(clear, t, first), clear, c, {t} \ {t}, {}, at, max)
    BY <1>1, <2>7, <2>8, <2>9, CountKeeps
  <2>11. {t} \ {t} = {} /\ u = Count(clear, t, first)
    BY <1>2, <1>4
  <2>12. Linked(u, c, {}, {}) /\ Laid(u, c, at, max) /\ Less(u, clear, c)
    BY <2>10, <2>11 DEF Kept
  <2>13. Less(u, s, c)
    BY <2>3, <2>4, <2>7, <2>12, LessTrans
  <2>14. /\ u.dq = clear.dq /\ u.buf = clear.buf /\ Calm(u, clear)
         /\ clear.dq = all.dq /\ clear.buf[b] = NoBuf /\ clear.queue = all.queue
         /\ clear.rec = all.rec /\ \A y \in Blocks : y # b => clear.buf[y] = all.buf[y]
         /\ one.queue = s.queue /\ one.rec = s.rec /\ one.buf = s.buf /\ one.w = s.w
         /\ \A y \in Blocks : y # b => one.dq[y] = s.dq[y]
    BY <2>1, <2>5, <2>10, <2>11 DEF Kept, Cleared, Unlinked
  <2>15. HomeWrites(u.w) = HomeWrites(s.w)
    BY <2>4, <2>5, <2>14 DEF Calm
  <2>16. \A y \in Blocks : u.rec[y] \in {0, s.rec[y]}
    BY <2>4, <2>14 DEF Calm
  <2>17. Sorted(s.queue) => Sorted(u.queue)
    BY <2>4, <2>14 DEF Calm
  <2>18. \A y \in Blocks : y # b => u.dq[y] = s.dq[y] /\ u.buf[y] = s.buf[y]
    BY <2>4, <2>14 DEF Apart
  <2>19. Settled(u, s, b, t)
    BY <1>4, <2>4, <2>14, <2>16, <2>17, <2>18 DEF Settled
  <2> QED BY <2>12, <2>13, <2>15, <2>19 DEF u, Down
<1> QED BY <1>3, <1>4

\* The writes of a session are replaced.
LEMMA WritesIs ==
  ASSUME NEW s, Shape(s), NEW q, NEW U, q \in Seq(U)
  PROVE  LET u == [s EXCEPT !.w = q] IN Shape(u) /\ Same(u, s) /\ u.w = q
<1> DEFINE u == [s EXCEPT !.w = q]
<1>1. PICK V : s \in Sessions(V)
  BY DEF Shape
<1>2. s \in Sessions(V \cup U)
  BY <1>1, SessionsGrow
<1>4. q \in Seq(V \cup U)
  BY SMT
<1>3. /\ u \in Sessions(V \cup U) /\ u.w = q
      /\ u.queue = s.queue /\ u.trans = s.trans /\ u.rec = s.rec /\ u.dq = s.dq /\ u.buf = s.buf
      /\ u.start = s.start /\ u.last = s.last /\ u.cur = s.cur
  BY <1>2, <1>4 DEF Sessions
<1> QED BY <1>3 DEF Shape, Same

\* A copy is written to its place.
LEMMA HomeIs ==
  ASSUME NEW s, NEW c, Linked(s, c, {}, {}), NEW at, NEW max, Laid(s, c, at, max), NEW b, NEW val
  PROVE  LET u == [s EXCEPT !.w = <<Write("home", b, val)>>]
         IN  /\ Down(u, s, c, at, max) /\ Shape(u) /\ Same(u, s) /\ Quiet(u)
             /\ HomeWrites(u.w) = {Write("home", b, val)}
<1> DEFINE x == Write("home", b, val)
           q == <<x>>
           u == [s EXCEPT !.w = q]
<1>1. x.dev # "log" /\ x.dev = "home"
  BY DEF Write
<1> HIDE DEF x
<1>2. q \in Seq({x}) /\ (\A k \in DOMAIN q : q[k] = x) /\ 1 \in DOMAIN q
  OBVIOUS
<1>3. Shape(s)
  BY DEF Linked
<1> HIDE DEF q
<1>4. Shape(u) /\ Same(u, s) /\ u.w = q
  BY <1>2, <1>3, WritesIs, Zenon
<1> HIDE DEF u
<1>5. Quiet(u)
  BY <1>1, <1>2, <1>4 DEF Quiet
<1>6. Down(u, s, c, at, max)
  BY <1>4, <1>5, SameKeeps DEF Down
<1>7. HomeWrites(u.w) = {x}
  BY <1>1, <1>2, <1>4 DEF HomeWrites
<1> QED BY <1>4, <1>5, <1>6, <1>7, Zenon DEF u, q, x

\* A buffer of the cache is flushed.
LEMMA FlushedKeeps ==
  ASSUME NEW s, NEW c, NEW at, NEW max \in Nat, Linked(s, c, {}, {}), Laid(s, c, at, max),
         NEW b \in Blocks, s.buf[b].owner # 0, s.buf[b].owner # c
  PROVE  /\ Down(Flushed(s, b), s, c, at, max) /\ Quiet(Flushed(s, b))
         /\ Settled(Flushed(s, b), s, b, s.rec[b]) /\ s.rec[b] \in ToSet(s.dq[b])
         /\ HomeWrites(Flushed(s, b).w) = {Write("home", b, s.buf[b].val)}
<1> DEFINE t == s.buf[b].owner
           m == [s EXCEPT !.w = <<Write("home", b, s.buf[b].val)>>]
           n == [m EXCEPT !.buf[b] = NoBuf]
           u == EndWrite(n, t, b)
<1>1. t \in ToSet(s.dq[b]) /\ t = s.rec[b]
  BY DEF Linked, BlockLinked
<1>2. u = Flushed(s, b)
  BY Zenon DEF Flushed
<1>3. /\ Down(m, s, c, at, max) /\ Shape(m) /\ Same(m, s) /\ Quiet(m)
      /\ HomeWrites(m.w) = {Write("home", b, s.buf[b].val)}
  BY HomeIs, Zenon
<1> HIDE DEF m
<1>4. Shape(n) /\ Cleared(n, m, b) /\ n.w = m.w
  BY <1>3, ClearIs
<1> HIDE DEF n
<1>5. /\ Linked(m, c, {}, {}) /\ Laid(m, c, at, max) /\ m.buf = s.buf /\ m.dq = s.dq
      /\ m.rec = s.rec /\ m.queue = s.queue
  BY <1>3 DEF Down, Same
<1>6. Quiet(n)
  BY <1>3, <1>4 DEF Quiet
<1>7. Linked(n, c, {}, {}) /\ Laid(n, c, at, max) /\ Less(n, m, c)
  <2>1. c # 0 => m.buf[b].owner # c
    BY <1>5
  <2> QED BY <1>4, <1>5, <1>6, <2>1, ClearKeeps
<1>8. t \in ToSet(n.dq[b]) /\ t # c
  BY <1>1, <1>4, <1>5 DEF Cleared
<1> HIDE DEF t, u
<1>9. /\ Down(u, n, c, at, max) /\ Settled(u, n, b, t) /\ HomeWrites(u.w) = HomeWrites(n.w)
  BY <1>7, <1>8, EndWriteKeeps DEF u
<1>10. Quiet(u)
  BY <1>6, <1>9 DEF Down, Less
<1>11. Less(u, s, c)
  BY <1>3, <1>7, <1>9, LessTrans DEF Down
<1>12. Settled(u, s, b, s.rec[b])
  <2>1. /\ n.rec = s.rec /\ n.queue = s.queue /\ n.dq = s.dq
        /\ \A y \in Blocks : y # b => n.buf[y] = s.buf[y]
    BY <1>4, <1>5 DEF Cleared
  <2> QED BY <1>1, <1>9, <2>1 DEF Settled
<1> QED BY <1>1, <1>2, <1>3, <1>4, <1>9, <1>10, <1>11, <1>12 DEF Down

\* A copy of block b is written to its place: the newest, from the cache, or that of the
\* oldest transaction, from the log.
Moved(u, s, c, b, t, v) ==
  /\ Settled(u, s, b, t) /\ t \in ToSet(s.dq[b]) /\ t # c
  /\ HomeWrites(u.w) = {Write("home", b, v)}
  /\ \/ t = s.rec[b] /\ v = s.buf[b].val /\ s.buf[b].owner = t
     \/ t = s.queue[1] /\ s.queue # <<>> /\ v = log[s.trans[t].lba[b]].val

\* The oldest transaction is flushed.
LEMMA FlushOldestKeeps ==
  ASSUME NEW s, NEW c, NEW at, NEW max \in Nat, Linked(s, c, {}, {}), Laid(s, c, at, max),
         s.queue # <<>>, ~Done(s, s.queue[1])
  PROVE  /\ Down(FlushOldest(s), s, c, at, max) /\ Quiet(FlushOldest(s))
         /\ \E b \in Blocks : \E t, v : Moved(FlushOldest(s), s, c, b, t, v)
<1> DEFINE t == s.queue[1]
           b == s.trans[t].bufq[1]
           u == FlushOldest(s)
<1>1. s.queue \in Seq(Trans) /\ t \in Trans /\ t \in ToSet(s.queue) /\ t # c
  <2>1. s.queue \in Seq(Trans)
    BY ShapeTyped DEF Linked, Typed
  <2>2. t \in ToSet(s.queue)
    BY <2>1, NonEmpty
  <2> QED BY <2>1, <2>2 DEF Linked
<1> HIDE DEF t
<1>2. b \in Blocks /\ t \in ToSet(s.dq[b])
  <2>1. /\ s.trans[t].bufq \in Seq(Blocks) /\ s.trans[t].data \in Nat /\ s.trans[t].written \in Nat
        /\ TransLinked(s, c, {}, t)
    BY <1>1, ShapeTyped DEF Linked, Typed
  <2>2. s.trans[t].bufq # <<>>
    <3>1. s.trans[t].data # s.trans[t].written
      BY DEF t, Done
    <3> QED BY <2>1, <3>1 DEF TransLinked
  <2>3. b \in ToSet(s.trans[t].bufq) /\ b \in Blocks
    BY <2>1, <2>2, NonEmpty
  <2> HIDE DEF b
  <2> QED BY <1>1, <2>3 DEF Linked, BlockLinked
<1>3. u = IF s.buf[b].owner # 0 /\ s.rec[b] = t THEN Flushed(s, b)
          ELSE EndWrite([s EXCEPT !.w = <<Write("home", b, log[s.trans[t].lba[b]].val)>>], t, b)
  BY Zenon DEF FlushOldest, t
<1> HIDE DEF b, u
<1>4. CASE s.buf[b].owner # 0 /\ s.rec[b] = t
  <2>1. s.buf[b].owner # c
    BY <1>1, <1>2, <1>4 DEF Linked, BlockLinked
  <2>2. /\ Down(Flushed(s, b), s, c, at, max) /\ Quiet(Flushed(s, b))
        /\ Settled(Flushed(s, b), s, b, s.rec[b])
        /\ HomeWrites(Flushed(s, b).w) = {Write("home", b, s.buf[b].val)}
    BY <1>2, <1>4, <2>1, FlushedKeeps
  <2>3. s.buf[b].owner = t
    BY <1>2, <1>4 DEF Linked, BlockLinked
  <2>4. Moved(Flushed(s, b), s, c, b, t, s.buf[b].val)
    BY <1>1, <1>2, <1>4, <2>2, <2>3 DEF Moved
  <2> QED BY <1>2, <1>3, <1>4, <2>2, <2>4 DEF u
<1>5. CASE ~(s.buf[b].owner # 0 /\ s.rec[b] = t)
  <2> DEFINE v == log[s.trans[t].lba[b]].val
             m == [s EXCEPT !.w = <<Write("home", b, v)>>]
  <2>1. /\ Down(m, s, c, at, max) /\ Shape(m) /\ Same(m, s) /\ Quiet(m)
        /\ HomeWrites(m.w) = {Write("home", b, v)}
    BY HomeIs, Zenon
  <2>2. u = EndWrite(m, t, b)
    BY <1>3, <1>5, Zenon
  <2> HIDE DEF m
  <2>3. Linked(m, c, {}, {}) /\ Laid(m, c, at, max) /\ t \in ToSet(m.dq[b])
    BY <1>2, <2>1 DEF Down, Same
  <2>4. Down(u, m, c, at, max) /\ Settled(u, m, b, t) /\ HomeWrites(u.w) = HomeWrites(m.w)
    BY <1>1, <1>2, <2>2, <2>3, EndWriteKeeps
  <2>5. Quiet(u)
    BY <2>1, <2>4 DEF Down, Less
  <2>6. Settled(u, s, b, t)
    BY <2>1, <2>4 DEF Settled, Same
  <2>7. Moved(u, s, c, b, t, v)
    BY <1>1, <1>2, <2>1, <2>4, <2>6 DEF Moved, t
  <2> HIDE DEF v
  <2> QED BY <1>2, <2>1, <2>4, <2>5, <2>7, DownTrans DEF u
<1> QED BY <1>4, <1>5

\* A transaction that is done leaves the queue.
LEMMA PopHeadKeeps ==
  ASSUME NEW s, NEW c, NEW at, NEW max \in Nat, Linked(s, c, {}, {}), Laid(s, c, at, max),
         s.queue # <<>>, Done(s, s.queue[1])
  PROVE  /\ Down(PopHead(s), s, c, at, max) /\ Calm(PopHead(s), s)
         /\ PopHead(s).dq = s.dq /\ PopHead(s).buf = s.buf
<1>1. s.queue \in Seq(Trans) /\ 1 \in 0 .. Len(s.queue)
  <2>1. s.queue \in Seq(Trans)
    BY ShapeTyped DEF Linked, Typed
  <2> QED BY <2>1
<1> DEFINE p == PopHead(s)
<1>2. Shape(p) /\ Popped(p, s, 1)
  BY <1>1, PopIs DEF PopHead, Linked
<1> HIDE DEF p
<1>3. \A i \in 1 .. 1 : Done(s, s.queue[i])
  OBVIOUS
<1>4. Linked(p, c, {}, {}) /\ Laid(p, c, at, max) /\ Less(p, s, c)
  BY <1>1, <1>2, <1>3, PoppedKeeps
<1>5. Calm(p, s) /\ p.dq = s.dq /\ p.buf = s.buf
  BY <1>1, <1>2, PoppedCalm DEF Popped
<1> QED BY <1>4, <1>5 DEF p, Down

\* The copies of a block that still have to be written are in the order of their
\* transactions, and the record is of the newest.
Ranked(s, b) == Sorted(s.dq[b]) /\ \A t \in ToSet(s.dq[b]) : t <= s.rec[b]

LEMMA TransInt ==
  ASSUME NEW q \in Seq(Trans)
  PROVE  q \in Seq(Int)
BY JournalAssumption DEF Trans

LEMMA AppendSorted ==
  ASSUME NEW s \in Seq(Int), Sorted(s), NEW x \in Int, \A y \in ToSet(s) : y < x
  PROVE  Sorted(Append(s, x))
<1>1. \A k \in 1 .. Len(s) : s[k] < x
  BY DEF ToSet
<1> QED BY <1>1 DEF Sorted

LEMMA LastRanked ==
  ASSUME NEW q \in Seq(Trans), Sorted(q), NEW m \in ToSet(q), \A t \in ToSet(q) : t <= m
  PROVE  q # <<>> /\ Last(q) = m
<1>1. PICK k \in DOMAIN q : q[k] = m
  BY DEF ToSet
<1>2. k \in 1 .. Len(q) /\ Len(q) \in DOMAIN q /\ Len(q) \in Nat /\ k \in Nat
  BY <1>1
<1>3. q[Len(q)] \in ToSet(q) /\ q[Len(q)] \in Int /\ m \in Int
  BY <1>1, <1>2, JournalAssumption DEF ToSet, Trans
<1>4. m <= q[Len(q)]
  BY <1>1, <1>2, <1>3 DEF Sorted
<1>5. Last(q) = q[Len(q)] /\ q # <<>>
  BY <1>2 DEF Last
<1> QED BY <1>3, <1>4, <1>5

\* The copies of the blocks R that still have to be written are dropped.
Discarded(u, s, R) ==
  /\ \A y \in Blocks : IF y \in R /\ s.dq[y] # <<>> THEN u.dq[y] = <<>> /\ u.buf[y] = NoBuf
                      ELSE u.dq[y] = s.dq[y] /\ u.buf[y] = s.buf[y]
  /\ Calm(u, s)

\* The newest copies of revoked blocks are completed.
LEMMA RevokingKeeps ==
  ASSUME NEW s, NEW c \in Trans, NEW at, NEW max \in Nat, Linked(s, c, {}, {}), Laid(s, c, at, max),
         NEW r \in Seq(Blocks), \A i \in DOMAIN r : r[i] \notin ToSet(s.trans[c].bufq)
  PROVE  /\ Down(Revoking(s, r)[Len(r)], s, c, at, max)
         /\ (\A y \in Blocks : Ranked(s, y)) => Discarded(Revoking(s, r)[Len(r)], s, ToSet(r))
<1> DEFINE x == Revoking(s, r)
           n == Len(r)
           R(i) == {r[k] : k \in 1 .. i}
           Q(i) == /\ Down(x[i], s, c, at, max)
                   /\ (\A y \in Blocks : Ranked(s, y)) => Discarded(x[i], s, R(i))
           Bad == {i \in 0 .. n : ~Q(i)}
<1>0. n \in Nat /\ DOMAIN r = 1 .. n /\ c # 0
  BY JournalAssumption DEF Trans
<1>1. /\ x[0] = s
      /\ \A i \in 1 .. n : x[i] = RevokeOne(x[i - 1], r[i])
  BY <1>0, RevokingSteps
<1> HIDE DEF x
<1>2. Q(0)
  <2>1. R(0) = {}
    OBVIOUS
  <2>2. Discarded(s, s, {})
    BY DEF Discarded, Calm
  <2> QED BY <1>1, <2>1, <2>2 DEF Down, Less
<1>3. ASSUME NEW i \in 1 .. n, Q(i - 1) PROVE Q(i)
  <2> DEFINE y == x[i - 1]
             b == r[i]
             t == Last(y.dq[b])
  <2>0. R(i) = R(i - 1) \cup {b}
    BY <1>0
  <2>1. /\ Down(y, s, c, at, max) /\ b \in Blocks /\ b \notin ToSet(s.trans[c].bufq)
        /\ (\A z \in Blocks : Ranked(s, z)) => Discarded(y, s, R(i - 1))
    BY <1>0, <1>3
  <2>2. x[i] = IF y.dq[b] = <<>> THEN y ELSE EndWrite(y, t, b)
    BY <1>1 DEF RevokeOne
  <2> HIDE DEF y, b, R
  <2>3. CASE y.dq[b] = <<>>
    <3>1. Discarded(y, s, R(i - 1)) => Discarded(y, s, R(i))
      BY <2>0, <2>3 DEF Discarded
    <3> QED BY <2>1, <2>2, <2>3, <3>1
  <2>4. CASE y.dq[b] # <<>>
    <3>1. y.dq[b] \in Seq(Trans)
      BY <2>1, ShapeTyped DEF Down, Linked, Typed
    <3>2. t \in ToSet(y.dq[b])
      BY <2>4, <3>1, NonEmpty
    <3>3. c \notin ToSet(y.dq[b])
      <4>1. b \in ToSet(y.trans[c].bufq) <=> c \in ToSet(y.dq[b])
        BY <2>1 DEF Down, Linked, BlockLinked
      <4>2. y.trans[c] = s.trans[c]
        BY <1>0, <2>1 DEF Down, Less
      <4> QED BY <2>1, <4>1, <4>2
    <3>4. t # c
      BY <3>2, <3>3
    <3> HIDE DEF t
    <3> DEFINE u == EndWrite(y, t, b)
    <3>5. Down(u, y, c, at, max) /\ Settled(u, y, b, t) /\ HomeWrites(u.w) = HomeWrites(y.w)
      BY <2>1, <3>2, <3>4, EndWriteKeeps DEF Down
    <3>6. u = x[i]
      BY <2>2, <2>4
    <3> HIDE DEF u
    <3>7. Down(u, s, c, at, max)
      BY <2>1, <3>5, DownTrans
    <3>8. ASSUME \A z \in Blocks : Ranked(s, z) PROVE Discarded(u, s, R(i))
      <4>1. Discarded(y, s, R(i - 1)) /\ Ranked(s, b)
        BY <2>1, <3>8
      <4>2. y.dq[b] = s.dq[b] /\ y.rec[b] \in {0, s.rec[b]}
        BY <2>1, <2>4, <4>1 DEF Discarded, Calm
      <4>3. y.rec[b] \in ToSet(y.dq[b])
        BY <2>1, <2>4 DEF Down, Linked, BlockLinked
      <4>4. y.rec[b] = s.rec[b]
        <5>1. y.rec[b] # 0
          BY <3>1, <4>3, JournalAssumption DEF ToSet, Trans
        <5> QED BY <4>2, <5>1
      <4>5. t = y.rec[b]
        BY <3>1, <4>1, <4>2, <4>3, <4>4, LastRanked DEF Ranked, t
      <4>6. /\ u.dq[b] = <<>> /\ u.buf[b] = NoBuf /\ (Sorted(y.queue) => Sorted(u.queue))
            /\ \A z \in Blocks : z # b => u.dq[z] = y.dq[z] /\ u.buf[z] = y.buf[z]
            /\ \A z \in Blocks : u.rec[z] \in {0, y.rec[z]}
        BY <3>5, <4>5 DEF Settled
      <4>7. Calm(u, s)
        <5>1. Calm(u, y)
          BY <3>5, <4>6 DEF Calm
        <5> QED BY <4>1, <5>1, CalmTrans DEF Discarded
      <4>8. ASSUME NEW z \in Blocks
            PROVE  IF z \in R(i) /\ s.dq[z] # <<>> THEN u.dq[z] = <<>> /\ u.buf[z] = NoBuf
                   ELSE u.dq[z] = s.dq[z] /\ u.buf[z] = s.buf[z]
        <5>1. CASE z = b
          BY <2>0, <2>4, <4>2, <4>6, <5>1
        <5>2. CASE z # b
          BY <2>0, <4>1, <4>6, <5>2 DEF Discarded
        <5> QED BY <5>1, <5>2
      <4> QED BY <4>7, <4>8 DEF Discarded
    <3> QED BY <3>6, <3>7, <3>8
  <2> QED BY <2>3, <2>4
<1> HIDE DEF Q
<1>4. Bad = {}
  <2> SUFFICES ASSUME Bad # {} PROVE FALSE
    OBVIOUS
  <2>1. Bad \subseteq Nat
    BY <1>0
  <2>2. PICK m \in Bad : \A y \in Bad : m <= y
    BY <2>1, MinNat
  <2>3. m \in 0 .. n /\ ~Q(m)
    OBVIOUS
  <2>4. m # 0
    BY <1>2, <2>3
  <2>5. m \in 1 .. n /\ m - 1 \in 0 .. n /\ ~(m <= m - 1)
    BY <1>0, <2>3, <2>4
  <2>6. Q(m - 1)
    BY <2>2, <2>5
  <2> QED BY <1>3, <2>3, <2>5, <2>6
<1>5. n \in 0 .. n
  BY <1>0
<1>6. R(n) = ToSet(r)
  BY <1>0 DEF ToSet, R
<1>7. Q(n)
  BY <1>4, <1>5
<1> QED BY <1>6, <1>7 DEF Q, x

\* The log block i holds a copy of transaction t, or will when the writes q have been
\* made to the log l.
Holds(l, q, i, t) ==
  /\ i \in 1 .. LogLen
  /\ \A k \in DOMAIN q : q[k].dev = "log" /\ q[k].at = i => q[k].val.val = t
  /\ (\E k \in DOMAIN q : q[k].dev = "log" /\ q[k].at = i) \/ l[i].val = t

Logged(s, l, q) ==
  \A t \in Trans : \A b \in ToSet(s.trans[t].bufq) :
    s.trans[t].lba[b] # 0 => Holds(l, q, s.trans[t].lba[b], t)

\* The session s between two steps, with the log l, the writes q, n transactions
\* started, the log block `at' allocated and not written, and at most max blocks of the
\* log in use.
Session(s, l, q, n, at, max) ==
  /\ Linked(s, s.cur, {}, {}) /\ ToSet(s.queue) \cup {s.cur} \subseteq 0 .. n
  /\ Laid(s, s.cur, at, max) /\ Logged(s, l, q) /\ s.w = <<>> /\ (\E V : q \in Seq(V))
  /\ s.cur # 0 => \A b \in s.trans[s.cur].revoke : s.buf[b].owner # s.cur

\* A commit that still has to write the items td: each block of the transaction is in
\* the log or to be written, behind the descriptor block.
Committing(s, td, at) ==
  LET c == s.cur
      q == s.trans[c]
      gap == IF at = 0 THEN 0 ELSE 1
  IN  /\ c # 0 /\ td \in Seq([kind : {"desc", "data", "revoke", "commit"}, b : Blocks \cup {0}])
      /\ \A b \in ToSet(q.bufq) :
           s.buf[b].owner = c /\ (q.lba[b] # 0 \/ Item("data", b) \in ToSet(td))
      /\ \A i \in DOMAIN td : td[i].kind = "data" =>
           td[i].b \in ToSet(q.bufq) /\ (i = 1 => q.alloc > gap)
      /\ q.alloc + Len(td) > gap /\ q.alloc >= gap
      /\ q.alloc + Len(td) <= Len(q.bufq) + 3 + gap
      /\ td = <<>> => at = 0

\* No commit has begun.
Idle(s, at) ==
  at = 0 /\ (s.cur # 0 => s.trans[s.cur].alloc = 0 /\ \A b \in Blocks : s.trans[s.cur].lba[b] = 0)

\* A step of checkpointing between two steps of the journal.
LEMMA DownSession ==
  ASSUME NEW s, NEW l, NEW n, NEW at, NEW max, Session(s, l, <<>>, n, at, max),
         NEW m \in Nat, NEW u, Down(u, s, s.cur, at, m), Quiet(u)
  PROVE  LET v == [u EXCEPT !.w = <<>>]
         IN  /\ Session(v, l, u.w, n, at, m) /\ v.last = s.last /\ v.cur = s.cur
             /\ \A td : Committing(s, td, at) => Committing(v, td, at)
             /\ Idle(s, at) => Idle(v, at)
<1> DEFINE c == s.cur
           v == [u EXCEPT !.w = <<>>]
<1>1. Linked(u, c, {}, {}) /\ Laid(u, c, at, m) /\ Less(u, s, c) /\ Shape(u)
  BY DEF Down, Linked
<1>2. Shape(v) /\ Same(v, u) /\ v.w = <<>>
  <2>1. <<>> \in Seq({})
    OBVIOUS
  <2> QED BY <1>1, <2>1, WritesIs
<1> HIDE DEF v
<1>3. Linked(v, c, {}, {}) /\ Laid(v, c, at, m)
  BY <1>1, <1>2, SameKeeps
<1>4. /\ v.cur = c /\ v.last = s.last /\ ToSet(v.queue) \subseteq ToSet(s.queue)
      /\ (c # 0 => v.trans[c] = s.trans[c])
      /\ \A b \in Blocks : \/ v.buf[b] = s.buf[b]
                           \/ v.buf[b] = NoBuf /\ (c # 0 => s.buf[b].owner # c)
      /\ \A t \in Trans : \A b \in ToSet(v.trans[t].bufq) :
           b \in ToSet(s.trans[t].bufq) /\ v.trans[t].lba = s.trans[t].lba
  BY <1>1, <1>2 DEF Same, Less
<1>5. Logged(v, l, u.w)
  <2> SUFFICES ASSUME NEW t \in Trans, NEW b \in ToSet(v.trans[t].bufq), v.trans[t].lba[b] # 0
               PROVE  Holds(l, u.w, v.trans[t].lba[b], t)
    BY DEF Logged
  <2> DEFINE i == v.trans[t].lba[b]
  <2>1. Holds(l, <<>>, i, t)
    BY <1>4 DEF Session, Logged
  <2> HIDE DEF i
  <2>2. i \in 1 .. LogLen /\ l[i].val = t
    BY <2>1 DEF Holds
  <2> QED BY <2>2 DEF Holds, Quiet, i
<1>6. \E V : u.w \in Seq(V)
  BY <1>1, Parts DEF Shape
<1>7. c # 0 => \A b \in v.trans[c].revoke : v.buf[b].owner # c
  <2> SUFFICES ASSUME c # 0, NEW b \in s.trans[c].revoke PROVE v.buf[b].owner # c
    BY <1>4
  <2>1. b \in Blocks
    BY <1>3, <1>4, ShapeTyped DEF Linked, Typed
  <2>2. s.buf[b].owner # c
    BY DEF Session
  <2> QED BY <1>4, <2>1, <2>2 DEF NoBuf
<1>8. Session(v, l, u.w, n, at, m)
  <2>1. ToSet(v.queue) \cup {v.cur} \subseteq 0 .. n
    BY <1>4 DEF Session
  <2> QED BY <1>2, <1>3, <1>4, <1>5, <1>6, <1>7, <2>1 DEF Session
<1>9. ASSUME NEW td, Committing(s, td, at) PROVE Committing(v, td, at)
  <2>0. v.cur = c /\ c # 0 /\ v.trans[c] = s.trans[c]
    BY <1>4, <1>9 DEF Committing
  <2>1. ASSUME NEW b \in ToSet(s.trans[c].bufq) PROVE v.buf[b].owner = c
    <3>1. s.buf[b].owner = c
      BY <1>9 DEF Committing
    <3>2. b \in Blocks
      <4>1. s.trans[c].bufq \in Seq(Blocks)
        BY <1>3, <2>0, ShapeTyped DEF Linked, Typed
      <4> QED BY <4>1 DEF ToSet
    <3> QED BY <1>4, <2>0, <3>1, <3>2
  <2> QED BY <1>9, <2>0, <2>1, Zenon DEF Committing
<1>10. Idle(s, at) => Idle(v, at)
  BY <1>4 DEF Idle
<1> QED BY <1>4, <1>8, <1>9, <1>10, Zenon DEF v

Up == pc \notin {"mounted", "down", "recovered"}
InCommit == pc \in {"commit", "room", "slot"}
Room == IF pc = "room" THEN LogLen ELSE LogLen - 1

JournalInv ==
  /\ log = [i \in 1 .. LogLen |-> log[i]] /\ ntrans \in 0 .. MaxTrans
  /\ Up => Session(j, log, wq, ntrans, slot, Room)
  /\ InCommit => Committing(j, todo, slot)
  /\ Up /\ ~InCommit => Idle(j, slot)
  /\ ~Up => j = NoSession /\ slot = 0
  /\ slot = 0 <=> pc \notin {"room", "slot"}

\* A write of the queue reaches the device.
LEMMA HoldsPersist ==
  ASSUME NEW V, NEW q \in Seq(V), q # <<>>, NEW l, l = [k \in 1 .. LogLen |-> l[k]],
         NEW w, w = Head(q), NEW m, m = IF w.dev = "log" THEN [l EXCEPT ![w.at] = w.val] ELSE l,
         NEW i, NEW t, Holds(l, q, i, t)
  PROVE  Holds(m, Tail(q), i, t)
<1>1. /\ w = q[1] /\ Len(q) \in Nat /\ 1 \in 1 .. Len(q) /\ DOMAIN q = 1 .. Len(q)
      /\ DOMAIN Tail(q) = 1 .. Len(q) - 1
      /\ \A k \in 1 .. Len(q) - 1 : Tail(q)[k] = q[k + 1] /\ k + 1 \in 1 .. Len(q)
      /\ \A k \in 1 .. Len(q) : k = 1 \/ (k - 1 \in 1 .. Len(q) - 1 /\ (k - 1) + 1 = k)
  OBVIOUS
<1>2. i \in 1 .. LogLen
  BY DEF Holds
<1>3. \A k \in DOMAIN Tail(q) : Tail(q)[k].dev = "log" /\ Tail(q)[k].at = i => Tail(q)[k].val.val = t
  BY <1>1 DEF Holds
<1>4. CASE w.dev = "log" /\ w.at = i
  <2>1. m[i] = w.val /\ w.val.val = t
    BY <1>1, <1>2, <1>4 DEF Holds
  <2> QED BY <1>2, <1>3, <2>1 DEF Holds
<1>5. CASE ~(w.dev = "log" /\ w.at = i)
  <2>1. m[i] = l[i]
    BY <1>2, <1>5
  <2>2. ASSUME NEW k \in DOMAIN q, q[k].dev = "log", q[k].at = i
        PROVE  \E n \in DOMAIN Tail(q) : Tail(q)[n].dev = "log" /\ Tail(q)[n].at = i
    <3>1. k # 1
      BY <1>1, <1>5, <2>2
    <3>2. k - 1 \in DOMAIN Tail(q) /\ Tail(q)[k - 1] = q[k]
      BY <1>1, <3>1
    <3> QED BY <2>2, <3>2
  <2> QED BY <1>2, <1>3, <2>1, <2>2 DEF Holds
<1> QED BY <1>4, <1>5

LEMMA PersistKeeps ==
  ASSUME JournalInv, Persist
  PROVE  JournalInv'
<1> DEFINE w == Head(wq)
<1>1. /\ wq # <<>> /\ wq' = Tail(wq) /\ log' = IF w.dev = "log" THEN [log EXCEPT ![w.at] = w.val] ELSE log
      /\ UNCHANGED <<j, pc, todo, slot, ntrans>>
  BY DEF Persist, history
<1>2. log = [i \in 1 .. LogLen |-> log[i]]
  BY DEF JournalInv
<1>3. log' = [i \in 1 .. LogLen |-> log'[i]]
  BY <1>1, <1>2
<1>4. ASSUME Up PROVE Session(j, log', wq', ntrans, slot, Room)
  <2>1. Session(j, log, wq, ntrans, slot, Room)
    BY <1>4 DEF JournalInv
  <2>2. PICK V : wq \in Seq(V)
    BY <2>1 DEF Session
  <2>3. wq' \in Seq(V)
    BY <1>1, <2>2
  <2>4. Logged(j, log', wq')
    <3> SUFFICES ASSUME NEW t \in Trans, NEW b \in ToSet(j.trans[t].bufq), j.trans[t].lba[b] # 0
                 PROVE  Holds(log', wq', j.trans[t].lba[b], t)
      BY DEF Logged
    <3> DEFINE i == j.trans[t].lba[b]
               m == log'
    <3>1. Holds(log, wq, i, t)
      BY <2>1 DEF Session, Logged
    <3>2. m = IF w.dev = "log" THEN [log EXCEPT ![w.at] = w.val] ELSE log
      BY <1>1
    <3> HIDE DEF i, m
    <3>3. Holds(m, Tail(wq), i, t)
      BY <1>1, <1>2, <2>2, <3>1, <3>2, HoldsPersist
    <3> QED BY <1>1, <3>3 DEF i, m
  <2> QED BY <2>1, <2>3, <2>4, Zenon DEF Session
<1>5. Up' = Up /\ InCommit' = InCommit /\ Room' = Room
  BY <1>1 DEF Up, InCommit, Room
<1> QED BY <1>1, <1>3, <1>4, <1>5 DEF JournalInv

LEMMA CrashKeeps ==
  ASSUME JournalInv, Crash
  PROVE  JournalInv'
BY DEF JournalInv, Crash, device, history, Up, InCommit

LEMMA RecoverKeeps ==
  ASSUME JournalInv, Recover
  PROVE  JournalInv'
<1>1. pc = "down" /\ pc' = "recovered" /\ UNCHANGED <<log, j, todo, slot, ntrans>>
  BY DEF Recover, device, history
<1> QED BY <1>1 DEF JournalInv, Up, InCommit

LEMMA StopEndKeeps ==
  ASSUME JournalInv, StopEnd
  PROVE  JournalInv'
<1>1. pc \in {"up", "stop"} /\ pc' = "recovered" /\ j' = NoSession /\ UNCHANGED <<log, slot, ntrans>>
  BY DEF StopEnd, device, history
<1> QED BY <1>1 DEF JournalInv, Up, InCommit

\* What holds when a step of an active session begins.
LEMMA Begins ==
  ASSUME JournalInv, Up, Runs
  PROVE  /\ Session(j, log, <<>>, ntrans, slot, Room) /\ Room \in Nat
         /\ Linked(j, j.cur, {}, {}) /\ Laid(j, j.cur, slot, Room) /\ Shape(j) /\ Typed(j)
         /\ Quiet(j) /\ Logged(j, log, <<>>)
         /\ ~InCommit => Idle(j, slot)
         /\ j.cur \in Trans \cup {0}
<1>1. Session(j, log, <<>>, ntrans, slot, Room)
  BY DEF JournalInv, Runs
<1>2. Linked(j, j.cur, {}, {}) /\ Laid(j, j.cur, slot, Room) /\ Shape(j) /\ j.w = <<>> /\ Logged(j, log, <<>>)
  BY <1>1 DEF Session, Linked
<1>3. LogLen \in Nat \ {0}
  BY JournalAssumption
<1> QED BY <1>1, <1>2, <1>3, ShapeTyped DEF Room, Quiet, JournalInv, Typed

\* A step of checkpointing keeps the invariant.
LEMMA DownInv ==
  ASSUME JournalInv, Up, Runs, NEW u, Down(u, j, j.cur, slot, Room), Quiet(u),
         Becomes(u), UNCHANGED <<log, slot, ntrans, todo>>, Up', InCommit' = InCommit, Room' = Room,
         slot' = 0 <=> pc' \notin {"room", "slot"}
  PROVE  JournalInv'
<1>1. Session(j, log, <<>>, ntrans, slot, Room) /\ Room \in Nat
  BY Begins
<1>2. j' = [u EXCEPT !.w = <<>>] /\ wq' = u.w
  BY DEF Becomes
<1>3. /\ Session(j', log, wq', ntrans, slot, Room)
      /\ \A td : Committing(j, td, slot) => Committing(j', td, slot)
      /\ Idle(j, slot) => Idle(j', slot)
  BY <1>1, <1>2, DownSession
<1> QED BY <1>3 DEF JournalInv

LEMMA FlushKeeps ==
  ASSUME JournalInv, NEW b \in Blocks, Flush(b)
  PROVE  JournalInv'
<1>1. /\ pc \in {"up", "commit"} /\ Runs /\ j.buf[b].owner \notin {0, j.cur}
      /\ Becomes(Flushed(j, b)) /\ UNCHANGED <<log, pc, todo, slot, ntrans>>
  BY DEF Flush, device, history
<1>2. Up /\ Up' /\ InCommit' = InCommit /\ Room' = Room
  BY <1>1 DEF Up, InCommit, Room
<1>3. Linked(j, j.cur, {}, {}) /\ Laid(j, j.cur, slot, Room) /\ Room \in Nat
  BY <1>1, <1>2, Begins
<1>4. Down(Flushed(j, b), j, j.cur, slot, Room) /\ Quiet(Flushed(j, b))
  BY <1>1, <1>3, FlushedKeeps
<1>5. slot' = 0 <=> pc' \notin {"room", "slot"}
  BY <1>1 DEF JournalInv
<1> QED BY <1>1, <1>2, <1>4, <1>5, DownInv

\* Either step of jbd_journal_flush_trans, or of jbd_journal_purge_cp_trans.
LEMMA HeadKeeps ==
  ASSUME JournalInv, Up, Runs, j.queue # <<>>
  PROVE  LET u == IF Done(j, j.queue[1]) THEN PopHead(j) ELSE FlushOldest(j)
         IN  Down(u, j, j.cur, slot, Room) /\ Quiet(u)
<1>1. Linked(j, j.cur, {}, {}) /\ Laid(j, j.cur, slot, Room) /\ Room \in Nat /\ Quiet(j)
  BY Begins
<1>2. CASE Done(j, j.queue[1])
  <2>1. Down(PopHead(j), j, j.cur, slot, Room)
    BY <1>1, <1>2, PopHeadKeeps
  <2> QED BY <1>1, <1>2, <2>1 DEF Down, Less
<1>3. CASE ~Done(j, j.queue[1])
  BY <1>1, <1>3, FlushOldestKeeps
<1> QED BY <1>2, <1>3

LEMMA RoomFlushKeeps ==
  ASSUME JournalInv, RoomFlush
  PROVE  JournalInv'
<1> DEFINE u == IF Done(j, j.queue[1]) THEN PopHead(j) ELSE FlushOldest(j)
<1>1. /\ pc = "room" /\ Runs /\ j.queue # <<>> /\ Becomes(u)
      /\ UNCHANGED <<log, pc, todo, slot, ntrans>>
  BY DEF RoomFlush, device
<1>2. Up /\ Up' /\ InCommit' = InCommit /\ Room' = Room
  BY <1>1 DEF Up, InCommit, Room
<1>3. Down(u, j, j.cur, slot, Room) /\ Quiet(u)
  BY <1>1, <1>2, HeadKeeps
<1>4. slot' = 0 <=> pc' \notin {"room", "slot"}
  BY <1>1 DEF JournalInv
<1> HIDE DEF u
<1> QED BY <1>1, <1>2, <1>3, <1>4, DownInv

LEMMA StopFlushKeeps ==
  ASSUME JournalInv, StopFlush
  PROVE  JournalInv'
<1> DEFINE u == IF Done(j, j.queue[1]) THEN PopHead(j) ELSE FlushOldest(j)
<1>1. /\ pc \in {"up", "stop"} /\ Runs /\ j.queue # <<>> /\ Becomes(u) /\ pc' = "stop"
      /\ UNCHANGED <<log, todo, slot, ntrans>>
  BY DEF StopFlush, device, history
<1>2. Up /\ Up' /\ InCommit' = InCommit /\ Room' = Room
  BY <1>1 DEF Up, InCommit, Room
<1>3. Down(u, j, j.cur, slot, Room) /\ Quiet(u)
  BY <1>1, <1>2, HeadKeeps
<1>4. slot' = 0 <=> pc' \notin {"room", "slot"}
  BY <1>1 DEF JournalInv
<1> HIDE DEF u
<1> QED BY <1>1, <1>2, <1>3, <1>4, DownInv

\* A new session.
Fresh(id) == [NoSession EXCEPT !.start = 1, !.last = 1, !.tid = id, !.atid = id, !.w = <<>>]

LEMMA NewSession ==
  ASSUME NEW u, NEW id, NEW l, NEW V, NEW q \in Seq(V), NEW n \in Nat, u = Fresh(id)
  PROVE  Session(u, l, q, n, 0, LogLen - 1) /\ Idle(u, 0)
<1> DEFINE U == {0, id}
           T == [t \in Trans |-> NoTrans]
           R == [b \in Blocks |-> 0]
           D == [b \in Blocks |-> <<>>]
           B == [b \in Blocks |-> NoBuf]
<1>1. /\ u.cur = 0 /\ u.trans = T /\ u.queue = <<>> /\ u.start = 1 /\ u.last = 1 /\ u.tid = id
      /\ u.atid = id /\ u.rec = R /\ u.dq = D /\ u.buf = B /\ u.w = <<>>
      /\ u = [cur |-> 0, trans |-> T, queue |-> <<>>, start |-> 1, last |-> 1, tid |-> id,
              atid |-> id, rec |-> R, dq |-> D, buf |-> B, w |-> <<>>]
  BY DEF NoSession, Fresh
<1>2. T \in [Trans -> Transactions(U)] /\ \A t \in Trans : T[t] = NoTrans
  <2>1. NoTrans \in Transactions(U)
    BY NoTransFacts DEF Transactions
  <2> QED BY <2>1
<1>3. R \in [Blocks -> Trans \cup {0}] /\ \A b \in Blocks : R[b] = 0
  OBVIOUS
<1>4. D \in [Blocks -> Seq(Trans)] /\ \A b \in Blocks : D[b] = <<>>
  OBVIOUS
<1>5. B \in [Blocks -> [val : U, owner : Trans \cup {0}]] /\ \A b \in Blocks : B[b].owner = 0
  BY DEF NoBuf
<1> HIDE DEF T, R, D, B
<1>6. Shape(u)
  <2>1. <<>> \in Seq(Trans) /\ <<>> \in Seq(U) /\ 1 \in Nat /\ id \in U
    OBVIOUS
  <2>2. u \in Sessions(U)
    BY <1>1, <1>2, <1>3, <1>4, <1>5, <2>1 DEF Sessions
  <2> QED BY <2>2 DEF Shape
<1>7. ToSet(<<>>) = {} /\ IsInjective(<<>>) /\ Len(<<>>) = 0
  BY DEF ToSet, IsInjective
<1>8. Linked(u, 0, {}, {})
  <2>1. \A t \in Trans : TransLinked(u, 0, {}, t)
    <3> TAKE t \in Trans
    <3>1. u.trans[t] = NoTrans
      BY <1>1, <1>2
    <3> QED BY <1>7, <3>1, NoTransFacts DEF TransLinked
  <2>2. \A b \in Blocks : BlockLinked(u, 0, {}, {}, b)
    <3> TAKE b \in Blocks
    <3>1. u.dq[b] = <<>> /\ u.buf[b].owner = 0 /\ \A t \in Trans : u.trans[t].bufq = <<>>
      BY <1>1, <1>2, <1>4, <1>5, NoTransFacts
    <3> QED BY <1>7, <3>1 DEF BlockLinked
  <2> QED BY <1>1, <1>6, <1>7, <2>1, <2>2 DEF Linked
<1>9. Laid(u, 0, 0, LogLen - 1)
  <2> DEFINE p == [i \in 1 .. 1 |-> 1]
  <2>1. Wrap(1) = 1
    BY JournalAssumption DEF Wrap
  <2>2. p[1] = 1 /\ 1 .. Len(u.queue) + 1 = 1 .. 1 /\ 1 .. Len(u.queue) = {} /\ Len(u.queue) + 1 = 1
    BY <1>1, <1>7
  <2>3. p \in [1 .. 1 -> Nat \ {0}] /\ \A i, k \in 1 .. 1 : i <= k => p[i] <= p[k]
    OBVIOUS
  <2> HIDE DEF p
  <2>4. Positions(u, p)
    BY <1>1, <2>1, <2>2, <2>3 DEF Positions
  <2>5. LaidAt(u, 0, 0, LogLen - 1, p)
    BY <1>1, <2>1, <2>2, <2>4, JournalAssumption DEF LaidAt
  <2> QED BY <2>5 DEF Laid
<1>10. Logged(u, l, q)
  <2>1. \A t \in Trans : ToSet(u.trans[t].bufq) = {}
    BY <1>1, <1>2, <1>7, NoTransFacts
  <2> QED BY <2>1 DEF Logged
<1>11. Session(u, l, q, n, 0, LogLen - 1)
  BY <1>1, <1>7, <1>8, <1>9, <1>10 DEF Session
<1> QED BY <1>1, <1>11 DEF Idle

LEMMA StartKeeps ==
  ASSUME JournalInv, Start
  PROVE  JournalInv'
<1> DEFINE id == sb.seq + 1
           s == [NoSession EXCEPT !.start = 1, !.last = 1, !.tid = id, !.atid = id,
                                  !.w = <<Write("sb", 1, id)>>]
           x == Write("sb", 1, id)
<1>1. /\ pc \in {"mounted", "recovered"} /\ Becomes(s) /\ pc' = "up"
      /\ UNCHANGED <<log, todo, slot, ntrans>>
  BY DEF Start, device
<1> HIDE DEF id
<1>2. /\ j' = [NoSession EXCEPT !.start = 1, !.last = 1, !.tid = id, !.atid = id, !.w = <<>>]
      /\ wq' = <<x>>
  BY <1>1 DEF Becomes, NoSession
<1> HIDE DEF x
<1>3. wq' \in Seq({x}) /\ ntrans \in Nat
  BY <1>2, JournalAssumption DEF JournalInv
<1>4. Session(j', log, wq', ntrans, 0, LogLen - 1) /\ Idle(j', 0)
  <2> DEFINE u == j'
             q == wq'
             X == {x}
  <2>1. u = Fresh(id) /\ q \in Seq(X) /\ ntrans \in Nat
    BY <1>2, <1>3 DEF Fresh
  <2> HIDE DEF u, q, X
  <2>2. Session(u, log, q, ntrans, 0, LogLen - 1) /\ Idle(u, 0)
    BY <2>1, NewSession
  <2> QED BY <2>2 DEF u, q
<1>5. slot = 0 /\ slot' = 0 /\ Up' /\ ~InCommit' /\ Room' = LogLen - 1
  BY <1>1 DEF JournalInv, Up, InCommit, Room
<1> QED BY <1>1, <1>4, <1>5 DEF JournalInv

\* What a step of the running transaction has to show.
LEMMA RunInv ==
  ASSUME JournalInv, pc = "up", pc' = "up", slot' = slot, log' = log, ntrans' \in 0 .. MaxTrans,
         Session(j', log, wq', ntrans', 0, LogLen - 1), Idle(j', 0)
  PROVE  JournalInv'
BY DEF JournalInv, Up, InCommit, Room

LEMMA RunBegins ==
  ASSUME JournalInv, pc = "up", Runs
  PROVE  /\ Session(j, log, <<>>, ntrans, 0, LogLen - 1) /\ Idle(j, 0) /\ slot = 0 /\ wq = <<>>
         /\ Linked(j, j.cur, {}, {}) /\ Laid(j, j.cur, 0, LogLen - 1) /\ Shape(j) /\ Typed(j)
         /\ Logged(j, log, <<>>) /\ j.cur \in Trans \cup {0} /\ j.w = <<>>
<1>1. slot = 0 /\ Room = LogLen - 1 /\ Up /\ ~InCommit
  BY DEF JournalInv, Room, Up, InCommit
<1> QED BY <1>1, Begins DEF Session, Runs

\* The queue, the unwritten copies and the buffers stay as they are.
Still(u, s) == u.dq = s.dq /\ u.rec = s.rec /\ u.buf = s.buf /\ u.queue = s.queue

\* The transaction c gives up the blocks B, of which those in R are revoked.
GivenUp(u, s, c, R, B) ==
  /\ u.queue = s.queue
  /\ \A b \in B : LET a == IF u.dq[b] = <<>> THEN 0 ELSE Last(u.dq[b]) IN
       /\ u.dq[b] = Without(s.dq[b], {c}) /\ u.rec[b] \in {0, a}
       /\ u.buf[b] = IF a = 0 \/ b \in R THEN NoBuf
                     ELSE [val |-> log[s.trans[a].lba[b]].val, owner |-> a]
  /\ \A b \in Blocks \ B : u.dq[b] = s.dq[b] /\ u.buf[b] = s.buf[b] /\ u.rec[b] \in {0, s.rec[b]}

LEMMA NewTransKeeps ==
  ASSUME JournalInv, NewTrans
  PROVE  /\ JournalInv' /\ Still(j', j)
         /\ \E c \in Trans : /\ j'.cur = c /\ j'.trans[c].revoke = {}
                             /\ \A b \in Blocks : c \notin ToSet(j.dq[b])
                             /\ \A t \in ToSet(j.queue) : t < c
<1> DEFINE c == ntrans + 1
           u == [j EXCEPT !.cur = c]
<1>1. /\ pc = "up" /\ Runs /\ j.cur = 0 /\ ntrans < MaxTrans /\ j' = u /\ ntrans' = c
      /\ UNCHANGED <<log, wq, pc, slot>>
  BY DEF NewTrans, device
<1>2. /\ Session(j, log, <<>>, ntrans, 0, LogLen - 1) /\ wq = <<>>
      /\ Linked(j, 0, {}, {}) /\ Laid(j, 0, 0, LogLen - 1) /\ Shape(j) /\ Typed(j) /\ j.w = <<>>
      /\ Logged(j, log, <<>>)
  BY <1>1, RunBegins
<1>3. /\ c \in Trans /\ c \notin 0 .. ntrans /\ c # 0 /\ 0 .. ntrans \subseteq 0 .. c /\ c \in 0 .. c
      /\ ntrans' \in 0 .. MaxTrans /\ \A t \in 0 .. ntrans : t < c
  BY <1>1, JournalAssumption DEF JournalInv, Trans
<1> HIDE DEF c
<1>4. c \notin ToSet(j.queue) \cup {0} /\ ToSet(j.queue) \subseteq 0 .. c
  BY <1>2, <1>3 DEF Session
<1>5. /\ Shape(u) /\ u.cur = c /\ u.trans = j.trans /\ u.queue = j.queue /\ u.start = j.start
      /\ u.last = j.last /\ u.rec = j.rec /\ u.dq = j.dq /\ u.buf = j.buf /\ u.w = j.w
  <2>1. PICK V : j \in Sessions(V)
    BY <1>2 DEF Shape
  <2>2. u \in Sessions(V)
    BY <1>3, <2>1 DEF Sessions
  <2> QED BY <2>1, <2>2 DEF Shape, Sessions
<1> HIDE DEF u
<1>6. j.trans[c] = NoTrans /\ \A b \in Blocks : c \notin ToSet(j.dq[b])
  BY <1>2, <1>3, <1>4, Unfinished DEF Linked, TransLinked
<1>7. Linked(u, c, {}, {})
  <2>1. ASSUME NEW t \in Trans PROVE TransLinked(u, c, {}, t)
    <3>1. t \notin ToSet(j.queue) \cup {c} => t \notin ToSet(j.queue) \cup {0}
      BY JournalAssumption DEF Trans
    <3> QED BY <1>2, <1>5, <3>1 DEF Linked, TransLinked
  <2>2. ASSUME NEW b \in Blocks PROVE BlockLinked(u, c, {}, {}, b)
    <3>1. BlockLinked(j, 0, {}, {}, b) /\ c \notin ToSet(j.dq[b])
      BY <1>2, <1>6 DEF Linked
    <3>2. j.buf[b].owner # c
      BY <1>3, <3>1 DEF BlockLinked
    <3> QED BY <1>5, <3>1, <3>2 DEF BlockLinked
  <2> QED BY <1>2, <1>3, <1>4, <1>5, <2>1, <2>2 DEF Linked
<1>8. Laid(u, c, 0, LogLen - 1)
  <2>1. PICK p : LaidAt(j, 0, 0, LogLen - 1, p)
    BY <1>2 DEF Laid
  <2>2. Positions(u, p)
    <3>1. Positions(j, p)
      BY <2>1, Zenon DEF LaidAt
    <3> QED BY <1>5, <3>1 DEF Positions
  <2>3. u.trans[c].alloc = 0 /\ u.trans[c].start = 0 /\ \A b \in Blocks : u.trans[c].lba[b] = 0
    BY <1>5, <1>6, NoTransFacts
  <2>4. LaidAt(u, c, 0, LogLen - 1, p)
    BY <1>3, <1>5, <2>1, <2>2, <2>3, Zenon DEF LaidAt
  <2> QED BY <2>4 DEF Laid
<1>9. Logged(u, log, <<>>)
  BY <1>2, <1>5 DEF Logged
<1>10. Session(u, log, <<>>, c, 0, LogLen - 1)
  <2>1. u.trans[c].revoke = {}
    BY <1>5, <1>6, NoTransFacts
  <2> QED BY <1>2, <1>3, <1>4, <1>5, <1>7, <1>8, <1>9, <2>1 DEF Session
<1>11. Idle(u, 0)
  BY <1>5, <1>6, NoTransFacts DEF Idle
<1>12. JournalInv'
  BY <1>1, <1>2, <1>3, <1>10, <1>11, RunInv
<1>13. Still(j', j)
  BY <1>1, <1>5 DEF Still
<1>14. j'.cur = c /\ j'.trans[c].revoke = {} /\ \A t \in ToSet(j.queue) : t < c
  BY <1>1, <1>2, <1>3, <1>5, <1>6, NoTransFacts DEF Session
<1> QED BY <1>3, <1>6, <1>12, <1>13, <1>14

LEMMA WriteDataKeeps ==
  ASSUME JournalInv, NEW b \in Blocks, WriteData(b)
  PROVE  JournalInv'
<1>1. pc = "up" /\ Runs /\ UNCHANGED <<log, j, wq, pc, slot, ntrans>>
  BY DEF WriteData
<1>2. Session(j, log, <<>>, ntrans, 0, LogLen - 1) /\ Idle(j, 0) /\ wq = <<>> /\ ntrans \in 0 .. MaxTrans
  BY <1>1, RunBegins DEF JournalInv
<1> QED BY <1>1, <1>2, RunInv

\* The running transaction changes nothing of the log.
LEMMA RunLaid ==
  ASSUME NEW s, NEW u, NEW c \in Trans, NEW at, NEW max, Laid(s, c, at, max), Shape(s),
         c \notin ToSet(s.queue), u.queue = s.queue, u.start = s.start, u.last = s.last,
         \A t \in Trans : t # c => u.trans[t] = s.trans[t],
         u.trans[c].start = s.trans[c].start, u.trans[c].alloc = s.trans[c].alloc,
         u.trans[c].lba = s.trans[c].lba
  PROVE  Laid(u, c, at, max)
<1>0. s.queue \in Seq(Trans)
  BY Parts DEF Shape
<1>1. PICK p : LaidAt(s, c, at, max, p)
  BY DEF Laid
<1>2. Positions(s, p)
  BY <1>1 DEF LaidAt
<1>3. Positions(u, p)
  <2>1. \A i \in 1 .. Len(s.queue) : u.trans[s.queue[i]] = s.trans[s.queue[i]]
    BY <1>0 DEF ToSet
  <2>2. ASSUME NEW i \in 1 .. Len(u.queue)
        PROVE  LET q == u.trans[u.queue[i]]
               IN  /\ q.start = Wrap(p[i]) /\ p[i + 1] = p[i] + q.alloc
                   /\ \A b \in ToSet(q.bufq) : \E x \in p[i] .. p[i + 1] - 1 : q.lba[b] = Wrap(x)
    <3> DEFINE x == s.queue[i]
    <3>1. u.queue[i] = x /\ i \in 1 .. Len(s.queue) /\ u.trans[x] = s.trans[x]
      BY <2>1
    <3>2. LET q == s.trans[x]
          IN  /\ q.start = Wrap(p[i]) /\ p[i + 1] = p[i] + q.alloc
              /\ \A b \in ToSet(q.bufq) : \E y \in p[i] .. p[i + 1] - 1 : q.lba[b] = Wrap(y)
      BY <1>2, <3>1, Zenon DEF Positions
    <3> HIDE DEF x
    <3> QED BY <3>1, <3>2, ZenonT(60)
  <2> QED BY <1>2, <2>2, Zenon DEF Positions
<1>4. LaidAt(u, c, at, max, p)
  BY <1>1, <1>3, Zenon DEF LaidAt
<1> QED BY <1>4, Zenon DEF Laid

\* An element is put behind an injective sequence.
LEMMA LastFacts ==
  ASSUME NEW T, NEW s \in Seq(T), NEW x \in T, x \notin ToSet(s), IsInjective(s)
  PROVE  /\ Append(s, x) \in Seq(T) /\ IsInjective(Append(s, x))
         /\ ToSet(Append(s, x)) = ToSet(s) \cup {x} /\ Len(Append(s, x)) = Len(s) + 1
<1> DEFINE n == Len(s)
           v == Append(s, x)
<1>1. /\ v \in Seq(T) /\ Len(v) = n + 1 /\ v[n + 1] = x /\ \A i \in 1 .. n : v[i] = s[i]
      /\ n \in Nat /\ DOMAIN s = 1 .. n /\ DOMAIN v = 1 .. n + 1
  OBVIOUS
<1> HIDE DEF n, v
<1>2. \A i \in 1 .. n : s[i] # x
  BY <1>1 DEF ToSet
<1>3. \A i, m \in 1 .. n : s[i] = s[m] => i = m
  BY <1>1 DEF IsInjective
<1>4. \A i \in 1 .. n + 1 : i = n + 1 \/ i \in 1 .. n
  BY <1>1
<1>5. IsInjective(v)
  BY <1>1, <1>2, <1>3, <1>4 DEF IsInjective
<1>6. ToSet(v) = ToSet(s) \cup {x}
  BY <1>1, <1>4 DEF ToSet
<1> QED BY <1>1, <1>5, <1>6 DEF n, v

\* The transactions and the blocks of a session are replaced.
Replaced(s, tr, re, dq, bu) ==
  [[[[s EXCEPT !.rec = re] EXCEPT !.dq = dq] EXCEPT !.buf = bu] EXCEPT !.trans = tr]

Fits(U, s, tr, re, dq, bu) ==
  /\ s \in Sessions(U) /\ tr \in [Trans -> Transactions(U)] /\ re \in [Blocks -> Trans \cup {0}]
  /\ dq \in [Blocks -> Seq(Trans)] /\ bu \in [Blocks -> [val : U, owner : Trans \cup {0}]]

LEMMA ReplacedIs ==
  ASSUME NEW U, NEW s, NEW tr, NEW re, NEW dq, NEW bu, Fits(U, s, tr, re, dq, bu)
  PROVE  LET u == Replaced(s, tr, re, dq, bu)
         IN  /\ u \in Sessions(U) /\ u.trans = tr /\ u.dq = dq /\ u.rec = re /\ u.buf = bu
             /\ u.queue = s.queue /\ u.w = s.w /\ u.start = s.start /\ u.last = s.last
             /\ u.cur = s.cur
BY DEF Sessions, Replaced, Fits

\* What SetBlockDirty does.
Dirtied(u, s, t, b) ==
  /\ u.trans[t].bufq = <<b>> \o s.trans[t].bufq /\ u.trans[t].data = s.trans[t].data + 1
  /\ u.trans[t].lba = s.trans[t].lba /\ u.trans[t].written = s.trans[t].written
  /\ u.trans[t].start = s.trans[t].start /\ u.trans[t].alloc = s.trans[t].alloc
  /\ u.trans[t].revoke = s.trans[t].revoke \ {b}
  /\ \A x \in Trans : x # t => u.trans[x] = s.trans[x]
  /\ u.dq[b] = Append(s.dq[b], t) /\ \A x \in Blocks : x # b => u.dq[x] = s.dq[x]
  /\ u.rec[b] = t /\ \A x \in Blocks : x # b => u.rec[x] = s.rec[x]
  /\ u.buf[b].val = t /\ u.buf[b].owner = t /\ \A x \in Blocks : x # b => u.buf[x] = s.buf[x]
  /\ u.queue = s.queue /\ u.start = s.start /\ u.last = s.last /\ u.cur = s.cur /\ u.w = s.w

Dirty(s, t, b) ==
  [s EXCEPT !.rec[b] = t, !.dq[b] = Append(@, t), !.buf[b] = [val |-> t, owner |-> t],
            !.trans[t].data = @ + 1, !.trans[t].bufq = <<b>> \o @, !.trans[t].revoke = @ \ {b}]

LEMMA DirtiedIs ==
  ASSUME NEW s, Shape(s), NEW t \in Trans, NEW b \in Blocks, NEW u, u = Dirty(s, t, b)
  PROVE  Shape(u) /\ Dirtied(u, s, t, b)
<1>s. PICK V : s \in Sessions(V)
  BY DEF Shape
<1> DEFINE U == V \cup {t}
           q == <<b>> \o s.trans[t].bufq
           d == Append(s.dq[b], t)
           n == s.trans[t].data + 1
           r == s.trans[t].revoke \ {b}
           x == [[[s.trans[t] EXCEPT !.data = n] EXCEPT !.bufq = q] EXCEPT !.revoke = r]
           tr == [s.trans EXCEPT ![t] = x]
           dq == [s.dq EXCEPT ![b] = d]
           re == [s.rec EXCEPT ![b] = t]
           z == [val |-> t, owner |-> t]
           bu == [s.buf EXCEPT ![b] = z]
<1>0. /\ s \in Sessions(U) /\ s.trans[t] \in Transactions(U) /\ s.trans \in [Trans -> Transactions(U)]
      /\ s.dq \in [Blocks -> Seq(Trans)] /\ s.rec \in [Blocks -> Trans \cup {0}]
      /\ s.buf \in [Blocks -> [val : U, owner : Trans \cup {0}]]
      /\ s.trans[t].bufq \in Seq(Blocks) /\ s.dq[b] \in Seq(Trans) /\ s.trans[t].data \in Nat
      /\ s.trans[t].revoke \subseteq Blocks
  <2>1. s \in Sessions(U)
    BY <1>s, SessionsGrow
  <2> HIDE DEF U
  <2> QED BY <2>1, Parts
<1>1. q \in Seq(Blocks) /\ d \in Seq(Trans) /\ n \in Nat /\ r \subseteq Blocks
  BY <1>0
<1>2. u = Replaced(s, tr, re, dq, bu)
  BY <1>0 DEF Dirty, Replaced
<1>3. z \in [val : U, owner : Trans \cup {0}] /\ z.val = t /\ z.owner = t
  OBVIOUS
<1> HIDE DEF q, d, n, r, z, U
<1>4. /\ x \in Transactions(U) /\ x.bufq = q /\ x.data = n /\ x.revoke = r
      /\ x.written = s.trans[t].written /\ x.lba = s.trans[t].lba
      /\ x.start = s.trans[t].start /\ x.alloc = s.trans[t].alloc
  BY <1>1, <1>0 DEF Transactions
<1> HIDE DEF x
<1>5. tr \in [Trans -> Transactions(U)] /\ tr[t] = x /\ \A y \in Trans : y # t => tr[y] = s.trans[y]
  BY <1>4, <1>0
<1>6. dq \in [Blocks -> Seq(Trans)] /\ dq[b] = d /\ \A y \in Blocks : y # b => dq[y] = s.dq[y]
  BY <1>1, <1>0
<1>7. re \in [Blocks -> Trans \cup {0}] /\ re[b] = t /\ \A y \in Blocks : y # b => re[y] = s.rec[y]
  BY <1>0
<1>8. /\ bu \in [Blocks -> [val : U, owner : Trans \cup {0}]] /\ bu[b] = z
      /\ \A y \in Blocks : y # b => bu[y] = s.buf[y]
  BY <1>0, <1>3
<1> HIDE DEF tr, dq, re, bu
<1>9. /\ u.trans = tr /\ u.dq = dq /\ u.rec = re /\ u.buf = bu /\ u.queue = s.queue
      /\ u.w = s.w /\ u.start = s.start /\ u.last = s.last /\ u.cur = s.cur
      /\ u \in Sessions(U)
  <2>1. Fits(U, s, tr, re, dq, bu)
    BY <1>0, <1>5, <1>6, <1>7, <1>8, Zenon DEF Fits
  <2> QED BY <1>2, <2>1, ReplacedIs
<1>11. Dirtied(u, s, t, b)
  BY <1>3, <1>4, <1>5, <1>6, <1>7, <1>8, <1>9, Zenon DEF q, d, n, r, Dirtied
<1> QED BY <1>9, <1>11 DEF Shape

\* A block joins the running transaction.
LEMMA DirtiedKeeps ==
  ASSUME NEW s, NEW c \in Trans, Linked(s, c, {}, {}), NEW b \in Blocks, b \notin ToSet(s.trans[c].bufq),
         NEW u, Shape(u), Dirtied(u, s, c, b)
  PROVE  /\ Linked(u, c, {}, {})
         /\ \A at, max : Laid(s, c, at, max) => Laid(u, c, at, max)
<1>0. /\ Typed(s) /\ Shape(s) /\ c \notin ToSet(s.queue) /\ IsInjective(s.queue) /\ c # 0
      /\ TransLinked(s, c, {}, c) /\ BlockLinked(s, c, {}, {}, b) /\ c \notin ToSet(s.dq[b])
  BY ShapeTyped, JournalAssumption DEF Linked, BlockLinked, Trans
<1>1. /\ u.trans[c].bufq = <<b>> \o s.trans[c].bufq /\ u.trans[c].data = s.trans[c].data + 1
      /\ u.trans[c].written = s.trans[c].written /\ u.dq[b] = Append(s.dq[b], c)
      /\ \A x \in Trans : x # c => u.trans[x] = s.trans[x]
      /\ \A x \in Blocks : x # b => u.dq[x] = s.dq[x] /\ u.rec[x] = s.rec[x] /\ u.buf[x] = s.buf[x]
      /\ u.rec[b] = c /\ u.buf[b].val = c /\ u.buf[b].owner = c /\ u.queue = s.queue
  BY DEF Dirtied
<1>2. /\ s.trans[c].bufq \in Seq(Blocks) /\ s.trans[c].data \in Nat /\ s.trans[c].written \in Nat
      /\ s.dq[b] \in Seq(Trans) /\ IsInjective(s.trans[c].bufq) /\ IsInjective(s.dq[b])
  BY <1>0 DEF Typed, TransLinked, BlockLinked
<1>3. /\ IsInjective(u.trans[c].bufq) /\ ToSet(u.trans[c].bufq) = ToSet(s.trans[c].bufq) \cup {b}
      /\ Len(u.trans[c].bufq) = Len(s.trans[c].bufq) + 1
  <2>1. Len(<<b>> \o s.trans[c].bufq) = Len(s.trans[c].bufq) + 1
    BY <1>2
  <2> QED BY <1>1, <1>2, <2>1, HeadFacts
<1>4. IsInjective(u.dq[b]) /\ ToSet(u.dq[b]) = ToSet(s.dq[b]) \cup {c}
  <2> DEFINE q == s.dq[b]
             v == u.dq[b]
  <2>1. q \in Seq(Trans) /\ IsInjective(q) /\ c \notin ToSet(q) /\ v = Append(q, c)
    BY <1>0, <1>1, <1>2
  <2> HIDE DEF q, v
  <2>2. IsInjective(v) /\ ToSet(v) = ToSet(q) \cup {c}
    BY <2>1, LastFacts
  <2> QED BY <2>2 DEF q, v
<1>5. ASSUME NEW x \in Trans PROVE TransLinked(u, c, {}, x)
  <2>0. TransLinked(s, c, {}, x)
    BY DEF Linked
  <2>1. CASE x = c
    <3> DEFINE d == s.trans[c].data
               w == s.trans[c].written
               l == Len(s.trans[c].bufq)
    <3>1. d \in Nat /\ w \in Nat /\ l \in Nat /\ d = w + l + 0
      BY <1>0, <1>2 DEF TransLinked
    <3>2. u.trans[c].data = d + 1 /\ u.trans[c].written = w /\ Len(u.trans[c].bufq) = l + 1
      BY <1>1, <1>3
    <3> HIDE DEF d, w, l
    <3>3. d + 1 = w + (l + 1) + 0
      BY <3>1
    <3>4. u.trans[c].data = u.trans[c].written + Len(u.trans[c].bufq) + 0
      BY <3>2, <3>3, Zenon
    <3> QED BY <1>3, <2>1, <3>4 DEF TransLinked
  <2>2. CASE x # c
    <3>1. u.trans[x] = s.trans[x] /\ u.queue = s.queue
      BY <1>1, <2>2
    <3> QED BY <2>0, <3>1, Zenon DEF TransLinked
  <2> QED BY <2>1, <2>2
<1>6. ASSUME NEW y \in Blocks PROVE BlockLinked(u, c, {}, {}, y)
  <2>0. BlockLinked(s, c, {}, {}, y)
    BY DEF Linked
  <2>1. \A x \in Trans : y \in ToSet(u.trans[x].bufq) <=> x \in ToSet(u.dq[y])
    <3> TAKE x \in Trans
    <3>1. y \in ToSet(s.trans[x].bufq) <=> x \in ToSet(s.dq[y])
      BY <2>0 DEF BlockLinked
    <3>2. CASE x = c /\ y = b
      BY <1>3, <1>4, <3>2
    <3>3. CASE x = c /\ y # b
      BY <1>1, <1>3, <3>1, <3>3
    <3>4. CASE x # c /\ y = b
      BY <1>1, <1>4, <3>1, <3>4
    <3>5. CASE x # c /\ y # b
      BY <1>1, <3>1, <3>5
    <3> QED BY <3>2, <3>3, <3>4, <3>5
  <2>2. CASE y = b
    BY <1>1, <1>4, <2>1, <2>2 DEF BlockLinked
  <2>3. CASE y # b
    <3>1. u.dq[y] = s.dq[y] /\ u.rec[y] = s.rec[y] /\ u.buf[y] = s.buf[y]
      BY <1>1, <2>3
    <3> QED BY <2>0, <2>1, <3>1 DEF BlockLinked
  <2> QED BY <2>2, <2>3
<1>7. Linked(u, c, {}, {})
  BY <1>0, <1>1, <1>5, <1>6 DEF Linked
<1>8. ASSUME NEW at, NEW max, Laid(s, c, at, max) PROVE Laid(u, c, at, max)
  <2>1. /\ u.queue = s.queue /\ u.start = s.start /\ u.last = s.last
        /\ u.trans[c].start = s.trans[c].start /\ u.trans[c].alloc = s.trans[c].alloc
        /\ u.trans[c].lba = s.trans[c].lba
    BY DEF Dirtied
  <2> QED BY <1>0, <1>1, <1>8, <2>1, RunLaid
<1> QED BY <1>7, <1>8

LEMMA SetBlockDirtyKeeps ==
  ASSUME JournalInv, NEW b \in Blocks, SetBlockDirty(b)
  PROVE  JournalInv' /\ Dirtied(j', j, j.cur, b)
<1> DEFINE c == j.cur
           u == Dirty(j, c, b)
<1>1. /\ pc = "up" /\ Runs /\ c # 0 /\ j.buf[b].owner # c /\ ~FreedHere(b) /\ j' = u
      /\ UNCHANGED <<log, wq, pc, slot, ntrans>>
  BY DEF SetBlockDirty, device, Dirty
<1>2. /\ Session(j, log, <<>>, ntrans, 0, LogLen - 1) /\ wq = <<>> /\ Idle(j, 0)
      /\ Linked(j, c, {}, {}) /\ Laid(j, c, 0, LogLen - 1) /\ Shape(j) /\ Typed(j) /\ j.w = <<>>
      /\ Logged(j, log, <<>>) /\ c \in Trans
  BY <1>1, RunBegins
<1> HIDE DEF u
<1>3. Shape(u) /\ Dirtied(u, j, c, b)
  BY <1>2, DirtiedIs DEF u
<1>4. b \notin ToSet(j.trans[c].bufq)
  <2>1. ~Contains(j.trans[c].bufq, b)
    BY <1>1 DEF FreedHere
  <2>2. j.trans[c].bufq \in Seq(Blocks)
    BY <1>2 DEF Typed
  <2> QED BY <2>1, <2>2 DEF Contains, ToSet
<1>5. Linked(u, c, {}, {}) /\ Laid(u, c, 0, LogLen - 1)
  BY <1>2, <1>3, <1>4, DirtiedKeeps
<1>6. /\ u.cur = c /\ u.w = <<>> /\ u.queue = j.queue /\ u.trans[c].lba = j.trans[c].lba
      /\ u.trans[c].alloc = j.trans[c].alloc /\ u.trans[c].revoke = j.trans[c].revoke \ {b}
      /\ \A x \in Trans : x # c => u.trans[x] = j.trans[x]
      /\ \A x \in Blocks : x # b => u.buf[x] = j.buf[x]
  BY <1>2, <1>3 DEF Dirtied
<1>7. Idle(u, 0)
  BY <1>1, <1>2, <1>6 DEF Idle
<1>8. Logged(u, log, <<>>)
  <2> SUFFICES ASSUME NEW t \in Trans, NEW y \in ToSet(u.trans[t].bufq), u.trans[t].lba[y] # 0
               PROVE  Holds(log, <<>>, u.trans[t].lba[y], t)
    BY DEF Logged
  <2>1. t # c
    <3>1. u.trans[c].bufq \in Seq(Blocks)
      BY <1>2, <1>3, ShapeTyped DEF Typed
    <3>2. ASSUME t = c PROVE FALSE
      <4>1. y \in Blocks
        BY <3>1, <3>2 DEF ToSet
      <4> QED BY <1>1, <1>2, <1>6, <3>2, <4>1 DEF Idle
    <3> QED BY <3>2
  <2>2. u.trans[t] = j.trans[t]
    BY <1>6, <2>1
  <2> QED BY <1>2, <2>2 DEF Logged
<1>9. \A x \in u.trans[c].revoke : u.buf[x].owner # c
  <2>1. \A x \in j.trans[c].revoke : x \in Blocks /\ j.buf[x].owner # c
    BY <1>1, <1>2 DEF Session, Typed
  <2> QED BY <1>6, <2>1
<1>10. Session(u, log, <<>>, ntrans, 0, LogLen - 1)
  <2>1. ToSet(u.queue) \cup {u.cur} \subseteq 0 .. ntrans
    BY <1>2, <1>6 DEF Session
  <2>2. \E V : <<>> \in Seq(V)
    BY <1>2 DEF Session
  <2> QED BY <1>5, <1>6, <1>8, <1>9, <2>1, <2>2 DEF Session
<1>11. ntrans \in 0 .. MaxTrans
  BY DEF JournalInv
<1>12. JournalInv'
  BY <1>1, <1>2, <1>7, <1>10, <1>11, RunInv
<1> QED BY <1>1, <1>3, <1>12

\* A block is freed.
LEMMA FreeBlockKeeps ==
  ASSUME JournalInv, NEW b \in Blocks, FreeBlock(b)
  PROVE  /\ JournalInv' /\ j'.dq = j.dq /\ j'.rec = j.rec /\ j'.queue = j.queue /\ j'.cur = j.cur
         /\ j'.buf[b] = NoBuf /\ \A y \in Blocks : y # b => j'.buf[y] = j.buf[y]
         /\ j'.trans[j.cur].revoke = IF TryRevoke(b) THEN j.trans[j.cur].revoke \cup {b}
                                     ELSE j.trans[j.cur].revoke
<1> DEFINE c == j.cur
           r == IF TryRevoke(b) THEN j.trans[c].revoke \cup {b} ELSE j.trans[c].revoke
           x == [j.trans[c] EXCEPT !.revoke = r]
           tr == [j.trans EXCEPT ![c] = x]
           bu == [j.buf EXCEPT ![b] = NoBuf]
           u == [[j EXCEPT !.trans = tr] EXCEPT !.buf = bu]
<1>1. /\ pc = "up" /\ Runs /\ c # 0
      /\ j' = [j EXCEPT !.trans[c].revoke = IF TryRevoke(b) THEN @ \cup {b} ELSE @, !.buf[b] = NoBuf]
      /\ UNCHANGED <<log, wq, pc, slot, ntrans>>
  BY DEF FreeBlock, device
<1>2. /\ Session(j, log, <<>>, ntrans, 0, LogLen - 1) /\ wq = <<>> /\ Idle(j, 0)
      /\ Linked(j, c, {}, {}) /\ Laid(j, c, 0, LogLen - 1) /\ Shape(j) /\ Typed(j) /\ j.w = <<>>
      /\ Logged(j, log, <<>>) /\ c \in Trans /\ c \notin ToSet(j.queue)
  BY <1>1, RunBegins DEF Linked
<1>s. PICK V : j \in Sessions(V)
  BY <1>2 DEF Shape
<1> DEFINE U == V \cup {0}
<1>3. /\ j \in Sessions(U) /\ j.trans \in [Trans -> Transactions(U)] /\ j.trans[c] \in Transactions(U)
      /\ j.buf \in [Blocks -> [val : U, owner : Trans \cup {0}]]
      /\ j.rec \in [Blocks -> Trans \cup {0}] /\ j.dq \in [Blocks -> Seq(Trans)]
      /\ j.trans[c].revoke \subseteq Blocks
  <2>1. j \in Sessions(U)
    BY <1>s, SessionsGrow
  <2> HIDE DEF U
  <2> QED BY <1>2, <2>1, Parts
<1>4. j' = u
  BY <1>1, <1>3
<1>5. r \subseteq Blocks /\ NoBuf \in [val : U, owner : Trans \cup {0}] /\ NoBuf.owner = 0
      /\ \A y \in r : y = b \/ y \in j.trans[c].revoke
  BY <1>3 DEF NoBuf
<1> HIDE DEF r, U
<1>6. /\ x \in Transactions(U) /\ x.revoke = r /\ x.bufq = j.trans[c].bufq /\ x.data = j.trans[c].data
      /\ x.written = j.trans[c].written /\ x.lba = j.trans[c].lba
      /\ x.start = j.trans[c].start /\ x.alloc = j.trans[c].alloc
  BY <1>3, <1>5 DEF Transactions
<1> HIDE DEF x
<1>7. tr \in [Trans -> Transactions(U)] /\ tr[c] = x /\ \A y \in Trans : y # c => tr[y] = j.trans[y]
  BY <1>2, <1>3, <1>6
<1>8. /\ bu \in [Blocks -> [val : U, owner : Trans \cup {0}]] /\ bu[b].owner = 0
      /\ bu[b] = NoBuf
      /\ \A y \in Blocks : y # b => bu[y] = j.buf[y]
  BY <1>3, <1>5
<1> HIDE DEF tr, bu
<1>9. /\ Shape(u) /\ u.trans = tr /\ u.buf = bu /\ u.rec = j.rec /\ u.dq = j.dq /\ u.queue = j.queue
      /\ u.start = j.start /\ u.last = j.last /\ u.cur = c /\ u.w = <<>>
  <2>1. u \in Sessions(U)
    BY <1>3, <1>7, <1>8 DEF Sessions
  <2>2. /\ u.trans = tr /\ u.buf = bu /\ u.rec = j.rec /\ u.dq = j.dq /\ u.queue = j.queue
        /\ u.start = j.start /\ u.last = j.last /\ u.cur = c /\ u.w = <<>>
    BY <1>2, <1>3 DEF Sessions
  <2> QED BY <2>1, <2>2, Zenon DEF Shape
<1> HIDE DEF u
<1>10. \A t \in Trans : u.trans[t].bufq = j.trans[t].bufq /\ u.trans[t].lba = j.trans[t].lba
  BY <1>6, <1>7, <1>9
<1>11. Linked(u, c, {}, {})
  <2>1. ASSUME NEW t \in Trans PROVE TransLinked(u, c, {}, t)
    <3>1. TransLinked(j, c, {}, t)
      BY <1>2 DEF Linked
    <3>2. CASE t = c
      <4>1. /\ u.trans[c].bufq = j.trans[c].bufq /\ u.trans[c].data = j.trans[c].data
            /\ u.trans[c].written = j.trans[c].written /\ u.queue = j.queue
        BY <1>6, <1>7, <1>9, Zenon
      <4> QED BY <3>1, <3>2, <4>1 DEF TransLinked
    <3>3. CASE t # c
      <4>1. u.trans[t] = j.trans[t] /\ u.queue = j.queue
        BY <1>7, <1>9, <3>3
      <4> QED BY <3>1, <4>1 DEF TransLinked
    <3> QED BY <3>2, <3>3
  <2>2. ASSUME NEW y \in Blocks PROVE BlockLinked(u, c, {}, {}, y)
    <3>1. BlockLinked(j, c, {}, {}, y)
      BY <1>2 DEF Linked
    <3>2. u.dq[y] = j.dq[y] /\ u.rec[y] = j.rec[y]
      BY <1>9
    <3>3. u.buf[y].owner = 0 \/ u.buf[y] = j.buf[y]
      BY <1>8, <1>9
    <3> QED BY <1>1, <1>10, <3>1, <3>2, <3>3 DEF BlockLinked
  <2> QED BY <1>2, <1>9, <2>1, <2>2 DEF Linked
<1>12. Laid(u, c, 0, LogLen - 1)
  <2>1. \A t \in Trans : t # c => u.trans[t] = j.trans[t]
    BY <1>7, <1>9
  <2>2. /\ u.trans[c].start = j.trans[c].start /\ u.trans[c].alloc = j.trans[c].alloc
        /\ u.trans[c].lba = j.trans[c].lba
    BY <1>6, <1>7, <1>9, Zenon
  <2> QED BY <1>2, <1>9, <2>1, <2>2, RunLaid
<1>13. Logged(u, log, <<>>)
  BY <1>2, <1>10 DEF Logged
<1>14. Idle(u, 0)
  <2>1. u.trans[c].alloc = j.trans[c].alloc
    BY <1>6, <1>7, <1>9, Zenon
  <2> QED BY <1>1, <1>2, <1>9, <1>10, <2>1 DEF Idle
<1>15. \A y \in u.trans[c].revoke : u.buf[y].owner # c
  <2>1. \A y \in j.trans[c].revoke : y \in Blocks /\ j.buf[y].owner # c
    BY <1>1, <1>2 DEF Session, Typed
  <2>2. u.trans[c].revoke = r
    BY <1>6, <1>7, <1>9, Zenon
  <2>3. ASSUME NEW y \in r PROVE u.buf[y].owner # c
    <3>1. y = b \/ y \in j.trans[c].revoke
      BY <1>5
    <3> QED BY <1>1, <1>8, <1>9, <2>1, <3>1
  <2> QED BY <2>2, <2>3
<1>16. Session(u, log, <<>>, ntrans, 0, LogLen - 1)
  <2>1. ToSet(u.queue) \cup {u.cur} \subseteq 0 .. ntrans
    BY <1>2, <1>9 DEF Session
  <2>2. \E W : <<>> \in Seq(W)
    BY <1>2 DEF Session
  <2> QED BY <1>9, <1>11, <1>12, <1>13, <1>15, <2>1, <2>2 DEF Session
<1>17. ntrans \in 0 .. MaxTrans
  BY DEF JournalInv
<1>18. JournalInv'
  BY <1>1, <1>2, <1>4, <1>14, <1>16, <1>17, RunInv
<1>19. u.trans[c].revoke = r
  BY <1>6, <1>7, <1>9, Zenon
<1> QED BY <1>4, <1>8, <1>9, <1>18, <1>19 DEF r

\* A sequence without a member to remove stays as it is.
LEMMA WithoutSame ==
  ASSUME NEW T, NEW s \in Seq(T), NEW S, ToSet(s) \cap S = {}
  PROVE  Without(s, S) = s
<1> DEFINE w == Filtered(s, S)
           n == Len(s)
           Bad == {i \in 0 .. n : w[i] # SubSeq(s, 1, i)}
<1>1. w[0] = <<>> /\ \A i \in 1 .. n : w[i] = IF s[i] \in S THEN w[i - 1] ELSE Append(w[i - 1], s[i])
  BY FilteredDef
<1>2. n \in Nat /\ DOMAIN s = 1 .. n
  OBVIOUS
<1>3. \A i \in 1 .. n : s[i] \notin S
  BY <1>2 DEF ToSet
<1> HIDE DEF w
<1>4. Bad = {}
  <2> SUFFICES ASSUME Bad # {} PROVE FALSE
    OBVIOUS
  <2>1. Bad \subseteq Nat
    BY <1>2
  <2>2. PICK m \in Bad : \A y \in Bad : m <= y
    BY <2>1, MinNat
  <2>3. m \in 0 .. n /\ w[m] # SubSeq(s, 1, m)
    OBVIOUS
  <2>4. m # 0
    <3>1. SubSeq(s, 1, 0) = <<>>
      OBVIOUS
    <3> QED BY <1>1, <2>3, <3>1
  <2>5. m \in 1 .. n /\ m - 1 \in 0 .. n /\ ~(m <= m - 1)
    BY <1>2, <2>3, <2>4
  <2>6. w[m - 1] = SubSeq(s, 1, m - 1)
    BY <2>2, <2>5
  <2>7. w[m] = Append(SubSeq(s, 1, m - 1), s[m])
    BY <1>1, <1>3, <2>5, <2>6
  <2>8. Append(SubSeq(s, 1, m - 1), s[m]) = SubSeq(s, 1, m)
    BY <1>2, <2>5
  <2> QED BY <2>3, <2>7, <2>8
<1>5. w[n] = SubSeq(s, 1, n)
  <2>1. n \in 0 .. n
    BY <1>2
  <2> QED BY <1>4, <2>1
<1>6. SubSeq(s, 1, n) = s
  BY <1>2
<1> QED BY <1>5, <1>6 DEF Without, w

\* The buffer of block b when transaction t gives it up to transaction a.
Restored(s, t, a, b) ==
  IF a = 0 \/ b \in s.trans[t].revoke THEN NoBuf
  ELSE [val |-> log[s.trans[a].lba[b]].val, owner |-> a]

\* What RollBack does, the transaction t having n blocks afterwards.
Rolled(u, s, t, B, n) ==
  /\ u.trans[t].bufq = Without(s.trans[t].bufq, B) /\ u.trans[t].data = n
  /\ u.trans[t].written = s.trans[t].written /\ u.trans[t].lba = s.trans[t].lba
  /\ u.trans[t].start = s.trans[t].start /\ u.trans[t].alloc = s.trans[t].alloc
  /\ u.trans[t].revoke = s.trans[t].revoke
  /\ \A x \in Trans : x # t => u.trans[x] = s.trans[x]
  /\ \A b \in B : /\ u.dq[b] = Without(s.dq[b], {t})
                  /\ u.rec[b] = IF u.dq[b] = <<>> THEN 0 ELSE Last(u.dq[b])
                  /\ u.buf[b].owner # 0 => u.buf[b].owner = u.rec[b] /\ u.rec[b] # 0
                  /\ u.buf[b] = Restored(s, t, u.rec[b], b)
  /\ \A b \in Blocks \ B : u.dq[b] = s.dq[b] /\ u.rec[b] = s.rec[b] /\ u.buf[b] = s.buf[b]
  /\ u.queue = s.queue /\ u.start = s.start /\ u.last = s.last /\ u.cur = s.cur /\ u.w = s.w

LEMMA RolledIs ==
  ASSUME NEW s, Shape(s), NEW t \in Trans, NEW B, B \subseteq Blocks
  PROVE  LET u == RollBack(s, t, B) IN Shape(u) /\ Rolled(u, s, t, B, s.trans[t].data)
<1>s. PICK V : s \in Sessions(V)
  BY DEF Shape
<1> DEFINE older(b) == Without(s.dq[b], {t})
           a(b) == IF older(b) = <<>> THEN 0 ELSE Last(older(b))
           back(b) == IF a(b) = 0 \/ b \in s.trans[t].revoke THEN NoBuf
                      ELSE [val |-> log[s.trans[a(b)].lba[b]].val, owner |-> a(b)]
           U == V \cup {0} \cup {back(b).val : b \in Blocks}
           q == Without(s.trans[t].bufq, B)
           x == [s.trans[t] EXCEPT !.bufq = q]
           tr == [s.trans EXCEPT ![t] = x]
           dq == [b \in Blocks |-> IF b \in B THEN older(b) ELSE s.dq[b]]
           re == [b \in Blocks |-> IF b \in B THEN a(b) ELSE s.rec[b]]
           bu == [b \in Blocks |-> IF b \in B THEN back(b) ELSE s.buf[b]]
           u == RollBack(s, t, B)
<1>0. /\ s \in Sessions(U) /\ s.trans[t] \in Transactions(U) /\ s.trans \in [Trans -> Transactions(U)]
      /\ s.dq \in [Blocks -> Seq(Trans)] /\ s.rec \in [Blocks -> Trans \cup {0}]
      /\ s.buf \in [Blocks -> [val : U, owner : Trans \cup {0}]]
      /\ s.trans[t].bufq \in Seq(Blocks)
  <2> DEFINE W == {0} \cup {back(b).val : b \in Blocks}
  <2> HIDE DEF W
  <2>1. s \in Sessions(V \cup W)
    BY <1>s, SessionsGrow
  <2>2. V \cup W = U
    <3> HIDE DEF back
    <3> QED BY DEF W
  <2> HIDE DEF U
  <2>3. s \in Sessions(U)
    BY <2>1, <2>2
  <2> QED BY <2>3, Parts
<1>v. \A b \in Blocks : back(b).val \in U
  <2> HIDE DEF back
  <2> QED OBVIOUS
<1> HIDE DEF U
<1>1. ASSUME NEW b \in Blocks PROVE older(b) \in Seq(Trans)
  BY <1>0, WithoutFacts
<1>2. q \in Seq(Blocks)
  BY <1>0, WithoutFacts
<1> HIDE DEF older
<1>3. \A b \in Blocks : a(b) \in Trans \cup {0}
  BY <1>1, NonEmpty DEF ToSet
<1> HIDE DEF a
<1>4. ASSUME NEW b \in Blocks
      PROVE  /\ back(b) \in [val : U, owner : Trans \cup {0}]
             /\ back(b).owner # 0 => back(b).owner = a(b) /\ a(b) # 0
  <2>1. back(b).val \in U
    BY <1>v
  <2>2. CASE a(b) = 0 \/ b \in s.trans[t].revoke
    BY <2>1, <2>2 DEF NoBuf
  <2>3. CASE ~(a(b) = 0 \/ b \in s.trans[t].revoke)
    <3> DEFINE v == log[s.trans[a(b)].lba[b]].val
    <3>1. back(b) = [val |-> v, owner |-> a(b)]
      BY <2>3
    <3> HIDE DEF back, U, v
    <3> QED BY <1>3, <2>1, <2>3, <3>1
  <2> QED BY <2>2, <2>3
<1>5. u = Replaced(s, tr, re, dq, bu)
  BY <1>0, Zenon DEF RollBack, Replaced, older, a
<1>b. \A b \in Blocks : back(b) = Restored(s, t, a(b), b)
  BY DEF Restored
<1> HIDE DEF back, q
<1>6. /\ x \in Transactions(U) /\ x.bufq = q /\ x.data = s.trans[t].data
      /\ x.written = s.trans[t].written /\ x.lba = s.trans[t].lba /\ x.revoke = s.trans[t].revoke
      /\ x.start = s.trans[t].start /\ x.alloc = s.trans[t].alloc
  BY <1>0, <1>2 DEF Transactions
<1> HIDE DEF x
<1>7. tr \in [Trans -> Transactions(U)] /\ tr[t] = x /\ \A y \in Trans : y # t => tr[y] = s.trans[y]
  BY <1>0, <1>6
<1>8. /\ dq \in [Blocks -> Seq(Trans)] /\ \A b \in B : dq[b] = older(b)
      /\ \A b \in Blocks \ B : dq[b] = s.dq[b]
  BY <1>0, <1>1
<1>9. /\ re \in [Blocks -> Trans \cup {0}] /\ \A b \in B : re[b] = a(b)
      /\ \A b \in Blocks \ B : re[b] = s.rec[b]
  BY <1>0, <1>3
<1>10. /\ bu \in [Blocks -> [val : U, owner : Trans \cup {0}]] /\ \A b \in B : bu[b] = back(b)
       /\ \A b \in Blocks \ B : bu[b] = s.buf[b]
  BY <1>0, <1>4
<1> HIDE DEF tr, dq, re, bu
<1>11. Fits(U, s, tr, re, dq, bu)
  BY <1>0, <1>7, <1>8, <1>9, <1>10, Zenon DEF Fits
<1> HIDE DEF u
<1>12. /\ u.trans = tr /\ u.dq = dq /\ u.rec = re /\ u.buf = bu /\ u.queue = s.queue
       /\ u.w = s.w /\ u.start = s.start /\ u.last = s.last /\ u.cur = s.cur
       /\ u \in Sessions(U)
  BY <1>5, <1>11, ReplacedIs
<1>13. ASSUME NEW b \in B
       PROVE  /\ u.dq[b] = Without(s.dq[b], {t})
              /\ u.rec[b] = IF u.dq[b] = <<>> THEN 0 ELSE Last(u.dq[b])
              /\ u.buf[b].owner # 0 => u.buf[b].owner = u.rec[b] /\ u.rec[b] # 0
              /\ u.buf[b] = Restored(s, t, u.rec[b], b)
  <2>1. u.dq[b] = older(b) /\ u.rec[b] = a(b) /\ u.buf[b] = back(b) /\ b \in Blocks
    BY <1>8, <1>9, <1>10, <1>12
  <2>2. u.buf[b].owner # 0 => u.buf[b].owner = u.rec[b] /\ u.rec[b] # 0
    BY <1>4, <2>1
  <2>3. a(b) = IF older(b) = <<>> THEN 0 ELSE Last(older(b))
    BY DEF a
  <2>4. u.buf[b] = Restored(s, t, u.rec[b], b)
    BY <1>b, <2>1
  <2> QED BY <2>1, <2>2, <2>3, <2>4 DEF older
<1>14. \A b \in Blocks \ B : u.dq[b] = s.dq[b] /\ u.rec[b] = s.rec[b] /\ u.buf[b] = s.buf[b]
  BY <1>8, <1>9, <1>10, <1>12
<1>15. Rolled(u, s, t, B, s.trans[t].data)
  BY <1>6, <1>7, <1>12, <1>13, <1>14, Zenon DEF q, Rolled
<1> QED BY <1>12, <1>15, Zenon DEF Shape, u

\* Blocks leave the running transaction, which may be miscounted then.
Shrunk(u, s, c, B, n) ==
  /\ \A b \in Blocks : BlockLinked(u, c, {}, {}, b)
  /\ \A t \in Trans : t # c => TransLinked(u, c, {}, t)
  /\ IsInjective(u.trans[c].bufq) /\ ToSet(u.trans[c].bufq) = ToSet(s.trans[c].bufq) \ B
  /\ s.trans[c].data - Cardinality(B) \in Nat
  /\ n = s.trans[c].data - Cardinality(B) => Linked(u, c, {}, {})

LEMMA RolledKeeps ==
  ASSUME NEW s, NEW c \in Trans, Linked(s, c, {}, {}), NEW B, B \subseteq ToSet(s.trans[c].bufq),
         NEW u, Shape(u), NEW n, Rolled(u, s, c, B, n)
  PROVE  Shrunk(u, s, c, B, n)
<1>0. /\ Typed(s) /\ Typed(u) /\ Shape(s) /\ c \notin ToSet(s.queue) /\ IsInjective(s.queue) /\ c # 0
      /\ TransLinked(s, c, {}, c)
  BY ShapeTyped, JournalAssumption DEF Linked, Trans
<1>1. /\ s.trans[c].bufq \in Seq(Blocks) /\ s.trans[c].data \in Nat /\ s.trans[c].written \in Nat
      /\ IsInjective(s.trans[c].bufq)
  BY <1>0 DEF Typed, TransLinked
<1>2. B \subseteq Blocks
  BY <1>1 DEF ToSet
<1>3. /\ u.trans[c].bufq = Without(s.trans[c].bufq, B) /\ u.trans[c].data = n
      /\ u.trans[c].written = s.trans[c].written /\ u.queue = s.queue
      /\ \A x \in Trans : x # c => u.trans[x] = s.trans[x]
  BY DEF Rolled
<1>4. /\ IsInjective(u.trans[c].bufq) /\ ToSet(u.trans[c].bufq) = ToSet(s.trans[c].bufq) \ B
      /\ Cardinality(B) \in Nat /\ Len(u.trans[c].bufq) = Len(s.trans[c].bufq) - Cardinality(B)
  BY <1>1, <1>3, WithoutLen, WithoutFacts
<1>5. /\ s.trans[c].data - Cardinality(B) \in Nat
      /\ s.trans[c].data - Cardinality(B) = u.trans[c].written + Len(u.trans[c].bufq) + 0
  <2> DEFINE d == s.trans[c].data
             w == s.trans[c].written
             l == Len(s.trans[c].bufq)
             k == Cardinality(B)
             m == Len(u.trans[c].bufq)
  <2>1. d \in Nat /\ w \in Nat /\ l \in Nat /\ k \in Nat /\ m \in Nat /\ d = w + l + 0 /\ m = l - k
    <3>1. u.trans[c].bufq \in Seq(Blocks)
      BY <1>0 DEF Typed
    <3>2. s.trans[c].data = s.trans[c].written + Len(s.trans[c].bufq) + 0
      BY <1>0, Zenon DEF TransLinked
    <3>3. l \in Nat
      BY <1>1
    <3>4. m \in Nat
      BY <3>1
    <3>5. d \in Nat /\ w \in Nat /\ k \in Nat /\ m = l - k
      BY <1>1, <1>4, Zenon
    <3> QED BY <3>2, <3>3, <3>4, <3>5, Zenon
  <2> HIDE DEF d, w, l, k, m
  <2>2. d - k \in Nat /\ d - k = w + m + 0
    BY <2>1
  <2> QED BY <1>3, <2>2 DEF d, w, k, m
<1>6. ASSUME NEW t \in Trans, t # c PROVE TransLinked(u, c, {}, t)
  <2>1. u.trans[t] = s.trans[t] /\ u.queue = s.queue /\ TransLinked(s, c, {}, t)
    BY <1>3, <1>6 DEF Linked
  <2> QED BY <2>1, Zenon DEF TransLinked
<1>7. ASSUME NEW y \in Blocks PROVE BlockLinked(u, c, {}, {}, y)
  <2>0. BlockLinked(s, c, {}, {}, y) /\ s.dq[y] \in Seq(Trans) /\ IsInjective(s.dq[y])
    BY <1>0 DEF Linked, BlockLinked, Typed
  <2>1. CASE y \in B
    <3>1. /\ u.dq[y] = Without(s.dq[y], {c})
          /\ u.rec[y] = IF u.dq[y] = <<>> THEN 0 ELSE Last(u.dq[y])
          /\ u.buf[y].owner # 0 => u.buf[y].owner = u.rec[y] /\ u.rec[y] # 0
      BY <2>1 DEF Rolled
    <3>2. IsInjective(u.dq[y]) /\ ToSet(u.dq[y]) = ToSet(s.dq[y]) \ {c} /\ u.dq[y] \in Seq(Trans)
      BY <2>0, <3>1, WithoutFacts
    <3>3. u.dq[y] # <<>> => u.rec[y] \in ToSet(u.dq[y])
      BY <3>1, <3>2, NonEmpty
    <3>4. \A t \in Trans : y \in ToSet(u.trans[t].bufq) <=> t \in ToSet(u.dq[y])
      <4> TAKE t \in Trans
      <4>1. y \in ToSet(s.trans[t].bufq) <=> t \in ToSet(s.dq[y])
        BY <2>0 DEF BlockLinked
      <4>2. CASE t = c
        BY <1>4, <2>1, <3>2, <4>2
      <4>3. CASE t # c
        BY <1>3, <3>2, <4>1, <4>3
      <4> QED BY <4>2, <4>3
    <3>5. c \notin ToSet(u.dq[y])
      BY <3>2
    <3>6. u.buf[y].owner # 0 => u.rec[y] \in ToSet(u.dq[y]) /\ u.buf[y].owner = u.rec[y]
      BY <3>1, <3>3
    <3>7. u.buf[y].owner # c
      BY <1>0, <3>5, <3>6
    <3> QED BY <3>2, <3>3, <3>4, <3>5, <3>6, <3>7 DEF BlockLinked
  <2>2. CASE y \notin B
    <3>1. u.dq[y] = s.dq[y] /\ u.rec[y] = s.rec[y] /\ u.buf[y] = s.buf[y]
      BY <2>2 DEF Rolled
    <3>2. \A t \in Trans : y \in ToSet(u.trans[t].bufq) <=> y \in ToSet(s.trans[t].bufq)
      BY <1>3, <1>4, <2>2
    <3> QED BY <2>0, <3>1, <3>2 DEF BlockLinked
  <2> QED BY <2>1, <2>2
<1>8. n = s.trans[c].data - Cardinality(B) => Linked(u, c, {}, {})
  <2> SUFFICES ASSUME n = s.trans[c].data - Cardinality(B) PROVE Linked(u, c, {}, {})
    OBVIOUS
  <2>1. u.trans[c].data = u.trans[c].written + Len(u.trans[c].bufq) + 0
    BY <1>3, <1>5
  <2>2. TransLinked(u, c, {}, c)
    BY <1>4, <2>1 DEF TransLinked
  <2>3. \A t \in Trans : TransLinked(u, c, {}, t)
    BY <1>6, <2>2
  <2> QED BY <1>0, <1>3, <1>7, <2>3 DEF Linked
<1> QED BY <1>4, <1>5, <1>6, <1>7, <1>8 DEF Shrunk

\* A transaction is replaced.
TransSet(u, s, t, x) ==
  /\ u.trans[t] = x /\ \A y \in Trans : y # t => u.trans[y] = s.trans[y]
  /\ u.queue = s.queue /\ u.rec = s.rec /\ u.dq = s.dq /\ u.buf = s.buf
  /\ u.start = s.start /\ u.last = s.last /\ u.cur = s.cur /\ u.w = s.w

LEMMA TransSetIs ==
  ASSUME NEW s, Shape(s), NEW t \in Trans, NEW W, NEW x \in Transactions(W)
  PROVE  LET u == [s EXCEPT !.trans[t] = x] IN Shape(u) /\ TransSet(u, s, t, x)
<1>s. PICK V : s \in Sessions(V)
  BY DEF Shape
<1> DEFINE U == V \cup W
           tr == [s.trans EXCEPT ![t] = x]
           u == [s EXCEPT !.trans[t] = x]
<1>0. s \in Sessions(U) /\ s.trans \in [Trans -> Transactions(U)]
  <2>1. s \in Sessions(U)
    BY <1>s, SessionsGrow
  <2> HIDE DEF U
  <2> QED BY <2>1, Parts
<1>1. x \in Transactions(U)
  BY DEF Transactions
<1>2. u = [s EXCEPT !.trans = tr]
  BY <1>0, Zenon
<1> HIDE DEF U
<1>3. tr \in [Trans -> Transactions(U)] /\ tr[t] = x /\ \A y \in Trans : y # t => tr[y] = s.trans[y]
  BY <1>0, <1>1
<1> HIDE DEF tr
<1>4. /\ u.trans = tr /\ u.queue = s.queue /\ u.rec = s.rec /\ u.dq = s.dq /\ u.buf = s.buf
      /\ u.start = s.start /\ u.last = s.last /\ u.cur = s.cur /\ u.w = s.w /\ u \in Sessions(U)
  BY <1>0, <1>2, <1>3 DEF Sessions
<1> QED BY <1>3, <1>4, Zenon DEF TransSet, Shape, u

\* The running transaction changes, but not what it is linked by.
LEMMA TunedKeeps ==
  ASSUME NEW s, NEW c \in Trans, Linked(s, c, {}, {}), NEW u, Shape(u), NEW x, TransSet(u, s, c, x),
         x.bufq = s.trans[c].bufq, x.data = s.trans[c].data, x.written = s.trans[c].written,
         x.lba = s.trans[c].lba, x.start = s.trans[c].start, x.alloc = s.trans[c].alloc
  PROVE  /\ Linked(u, c, {}, {})
         /\ \A at, max : Laid(s, c, at, max) => Laid(u, c, at, max)
         /\ \A l, q : Logged(s, l, q) => Logged(u, l, q)
<1>0. /\ Shape(s) /\ c \notin ToSet(s.queue) /\ u.queue = s.queue /\ u.trans[c] = x
      /\ \A t \in Trans : t # c => u.trans[t] = s.trans[t]
      /\ u.rec = s.rec /\ u.dq = s.dq /\ u.buf = s.buf /\ u.start = s.start /\ u.last = s.last
  BY DEF Linked, TransSet
<1>1. \A t \in Trans : /\ u.trans[t].bufq = s.trans[t].bufq /\ u.trans[t].data = s.trans[t].data
                       /\ u.trans[t].written = s.trans[t].written
                       /\ u.trans[t].lba = s.trans[t].lba
  BY <1>0
<1>2. ASSUME NEW t \in Trans PROVE TransLinked(u, c, {}, t)
  <2>1. TransLinked(s, c, {}, t)
    BY DEF Linked
  <2>2. t # c => u.trans[t] = s.trans[t]
    BY <1>0
  <2> QED BY <1>0, <1>1, <2>1, <2>2, Zenon DEF TransLinked
<1>3. ASSUME NEW b \in Blocks PROVE BlockLinked(u, c, {}, {}, b)
  <2>1. BlockLinked(s, c, {}, {}, b)
    BY DEF Linked
  <2> QED BY <1>0, <1>1, <2>1 DEF BlockLinked
<1>4. Linked(u, c, {}, {})
  BY <1>0, <1>2, <1>3 DEF Linked
<1>5. \A at, max : Laid(s, c, at, max) => Laid(u, c, at, max)
  BY <1>0, RunLaid
<1>6. \A l, q : Logged(s, l, q) => Logged(u, l, q)
  BY <1>1 DEF Logged
<1> QED BY <1>4, <1>5, <1>6

\* The running transaction ends without having been committed.
Ended(u, s, c) ==
  /\ u.trans[c] = NoTrans /\ \A y \in Trans : y # c => u.trans[y] = s.trans[y]
  /\ \A b \in Blocks : u.rec[b] = s.rec[b] \/ (s.rec[b] = c /\ u.rec[b] = 0)
  /\ u.queue = s.queue /\ u.dq = s.dq /\ u.buf = s.buf
  /\ u.start = s.start /\ u.last = s.last /\ u.cur = 0 /\ u.w = s.w

LEMMA EndedKeeps ==
  ASSUME NEW s, NEW c \in Trans, Shape(s), c \notin ToSet(s.queue), IsInjective(s.queue),
         \A b \in Blocks : BlockLinked(s, c, {}, {}, b),
         \A t \in Trans : t # c => TransLinked(s, c, {}, t), ToSet(s.trans[c].bufq) = {},
         NEW u, Shape(u), Ended(u, s, c), NEW n, ToSet(s.queue) \subseteq 0 .. n, 0 \in 0 .. n,
         NEW max, Laid(s, c, 0, max), s.trans[c].alloc = 0, NEW l, Logged(s, l, <<>>), s.w = <<>>
  PROVE  Session(u, l, <<>>, n, 0, max) /\ Idle(u, 0)
<1>0. /\ u.trans[c] = NoTrans /\ \A y \in Trans : y # c => u.trans[y] = s.trans[y]
      /\ \A b \in Blocks : u.rec[b] = s.rec[b] \/ s.rec[b] = c
      /\ u.queue = s.queue /\ u.dq = s.dq /\ u.buf = s.buf
      /\ u.start = s.start /\ u.last = s.last /\ u.cur = 0 /\ u.w = <<>> /\ c # 0
  BY JournalAssumption DEF Ended, Trans
<1>1. ToSet(NoTrans.bufq) = {} /\ IsInjective(NoTrans.bufq) /\ Len(NoTrans.bufq) = 0
  BY NoTransFacts DEF ToSet, IsInjective
<1>2. ASSUME NEW t \in Trans PROVE TransLinked(u, 0, {}, t)
  <2>1. CASE t = c
    BY <1>0, <1>1, <2>1, NoTransFacts DEF TransLinked
  <2>2. CASE t # c
    <3>1. TransLinked(s, c, {}, t) /\ u.trans[t] = s.trans[t]
      BY <1>0, <2>2
    <3> QED BY <1>0, <2>2, <3>1 DEF TransLinked
  <2> QED BY <2>1, <2>2
<1>3. ASSUME NEW b \in Blocks PROVE BlockLinked(u, 0, {}, {}, b)
  <2>1. BlockLinked(s, c, {}, {}, b)
    OBVIOUS
  <2>2. c \notin ToSet(s.dq[b])
    BY <2>1 DEF BlockLinked
  <2>3. \A t \in Trans : b \in ToSet(u.trans[t].bufq) <=> t \in ToSet(u.dq[b])
    <3> TAKE t \in Trans
    <3>1. CASE t = c
      BY <1>0, <1>1, <2>2, <3>1
    <3>2. CASE t # c
      BY <1>0, <2>1, <3>2 DEF BlockLinked
    <3> QED BY <3>1, <3>2
  <2>4. s.dq[b] # <<>> \/ s.buf[b].owner # 0 => s.rec[b] # c
    BY <2>1, <2>2 DEF BlockLinked
  <2>5. u.rec[b] = s.rec[b] \/ s.rec[b] = c
    BY <1>0
  <2> QED BY <1>0, <2>1, <2>3, <2>4, <2>5 DEF BlockLinked
<1>4. Linked(u, 0, {}, {})
  <2>1. 0 \notin ToSet(s.queue)
    <3>1. s.queue \in Seq(Trans)
      BY ShapeTyped DEF Typed
    <3> QED BY <3>1, JournalAssumption DEF ToSet, Trans
  <2> QED BY <1>0, <1>2, <1>3, <2>1 DEF Linked
<1>5. Laid(u, 0, 0, max)
  <2>1. PICK p : LaidAt(s, c, 0, max, p)
    BY DEF Laid
  <2>2. Positions(s, p) /\ s.queue \in Seq(Trans)
    BY <2>1, ShapeTyped DEF LaidAt, Typed
  <2>3. ASSUME NEW i \in 1 .. Len(u.queue)
        PROVE  LET q == u.trans[u.queue[i]]
               IN  /\ q.start = Wrap(p[i]) /\ p[i + 1] = p[i] + q.alloc
                   /\ \A b \in ToSet(q.bufq) : \E x \in p[i] .. p[i + 1] - 1 : q.lba[b] = Wrap(x)
    <3> DEFINE x == s.queue[i]
    <3>1. u.queue[i] = x /\ i \in 1 .. Len(s.queue) /\ u.trans[x] = s.trans[x]
      <4>1. i \in DOMAIN s.queue /\ x \in Trans
        BY <1>0, <2>2
      <4>2. x # c
        BY <4>1 DEF ToSet
      <4> QED BY <1>0, <4>1, <4>2
    <3>2. LET q == s.trans[x]
          IN  /\ q.start = Wrap(p[i]) /\ p[i + 1] = p[i] + q.alloc
              /\ \A b \in ToSet(q.bufq) : \E y \in p[i] .. p[i + 1] - 1 : q.lba[b] = Wrap(y)
      BY <2>2, <3>1, Zenon DEF Positions
    <3> HIDE DEF x
    <3> QED BY <3>1, <3>2, ZenonT(60)
  <2>4. Positions(u, p)
    BY <1>0, <2>2, <2>3, Zenon DEF Positions
  <2>5. LaidAt(u, 0, 0, max, p)
    BY <1>0, <2>1, <2>4, Zenon DEF LaidAt
  <2> QED BY <2>5 DEF Laid
<1>6. Logged(u, l, <<>>)
  <2> SUFFICES ASSUME NEW t \in Trans, NEW b \in ToSet(u.trans[t].bufq), u.trans[t].lba[b] # 0
               PROVE  Holds(l, <<>>, u.trans[t].lba[b], t)
    BY DEF Logged
  <2>1. t # c
    BY <1>0, <1>1
  <2> QED BY <1>0, <2>1 DEF Logged
<1>7. <<>> \in Seq({})
  OBVIOUS
<1> QED BY <1>0, <1>4, <1>5, <1>6, <1>7 DEF Session, Idle

LEMMA GivenUpIs ==
  ASSUME NEW s, NEW c, NEW B, NEW n, NEW v, Rolled(v, s, c, B, n), NEW u, u.dq = v.dq, u.buf = v.buf,
         u.queue = v.queue, B \subseteq Blocks, \A b \in Blocks : u.rec[b] \in {0, v.rec[b]}
  PROVE  GivenUp(u, s, c, s.trans[c].revoke, B)
<1>1. ASSUME NEW b \in B
      PROVE  LET a == IF u.dq[b] = <<>> THEN 0 ELSE Last(u.dq[b]) IN
             /\ u.dq[b] = Without(s.dq[b], {c}) /\ u.rec[b] \in {0, a}
             /\ u.buf[b] = IF a = 0 \/ b \in s.trans[c].revoke THEN NoBuf
                           ELSE [val |-> log[s.trans[a].lba[b]].val, owner |-> a]
  <2> DEFINE a == IF u.dq[b] = <<>> THEN 0 ELSE Last(u.dq[b])
  <2>1. /\ v.dq[b] = Without(s.dq[b], {c}) /\ v.buf[b] = Restored(s, c, v.rec[b], b)
        /\ v.rec[b] = IF v.dq[b] = <<>> THEN 0 ELSE Last(v.dq[b])
    BY Zenon DEF Rolled
  <2>2. v.rec[b] = a
    BY <2>1, Zenon
  <2> HIDE DEF a
  <2> QED BY <2>1, <2>2, Zenon DEF Restored, a
<1>2. \A b \in Blocks \ B : u.dq[b] = s.dq[b] /\ u.buf[b] = s.buf[b] /\ u.rec[b] \in {0, s.rec[b]}
  BY DEF Rolled
<1> QED BY <1>1, <1>2, Zenon DEF GivenUp, Rolled

LEMMA AbortKeeps ==
  ASSUME JournalInv, Abort
  PROVE  /\ JournalInv' /\ j'.cur = 0 /\ GivenUp(j', j, j.cur, {}, ToSet(j.trans[j.cur].bufq))
         /\ (\E b \in Blocks : j'.dq[b] # <<>> /\ j'.buf[b] = NoBuf) => "abort" \in flawed'
<1> DEFINE c == j.cur
           x == [j.trans[c] EXCEPT !.revoke = {}]
           s == [j EXCEPT !.trans[c] = x]
           B == ToSet(j.trans[c].bufq)
           a == RollBack(s, c, B)
           v == [a EXCEPT !.trans[c] = NoTrans]
           u == [v EXCEPT !.cur = 0]
<1>1. /\ pc = "up" /\ Runs /\ c # 0
      /\ j' = [RollBack([j EXCEPT !.trans[c].revoke = {}], c, B) EXCEPT !.trans[c] = NoTrans, !.cur = 0]
      /\ UNCHANGED <<log, wq, pc, slot, ntrans>>
      /\ LET a0 == RollBack([j EXCEPT !.trans[c].revoke = {}], c, B)
         IN  (\E b \in Blocks : a0.dq[b] # <<>> /\ a0.buf[b] = NoBuf) => "abort" \in flawed'
  BY DEF Abort, device, If
<1>2. /\ Session(j, log, <<>>, ntrans, 0, LogLen - 1) /\ wq = <<>> /\ Idle(j, 0)
      /\ Linked(j, c, {}, {}) /\ Laid(j, c, 0, LogLen - 1) /\ Shape(j) /\ Typed(j) /\ j.w = <<>>
      /\ Logged(j, log, <<>>) /\ c \in Trans /\ c \notin ToSet(j.queue)
  BY <1>1, RunBegins DEF Linked
<1>s. PICK V : j \in Sessions(V)
  BY <1>2 DEF Shape
<1>3. j.trans \in [Trans -> Transactions(V)] /\ j.trans[c] \in Transactions(V)
  BY <1>s, <1>2, Parts
<1>4. [j EXCEPT !.trans[c].revoke = {}] = s
  BY <1>3, Zenon
<1>5. j' = u /\ ((\E b \in Blocks : a.dq[b] # <<>> /\ a.buf[b] = NoBuf) => "abort" \in flawed')
  BY <1>1, <1>4, Zenon
<1>6. /\ x \in Transactions(V) /\ x.bufq = j.trans[c].bufq /\ x.data = j.trans[c].data
      /\ x.written = j.trans[c].written /\ x.lba = j.trans[c].lba
      /\ x.start = j.trans[c].start /\ x.alloc = j.trans[c].alloc /\ x.revoke = {}
  BY <1>3 DEF Transactions
<1> HIDE DEF x
<1>7. Shape(s) /\ TransSet(s, j, c, x)
  BY <1>2, <1>6, TransSetIs
<1> HIDE DEF s
<1>8. Linked(s, c, {}, {}) /\ Laid(s, c, 0, LogLen - 1) /\ Logged(s, log, <<>>)
  BY <1>2, <1>6, <1>7, TunedKeeps
<1>9. /\ s.trans[c].bufq = j.trans[c].bufq /\ s.trans[c].alloc = 0 /\ s.queue = j.queue
      /\ s.cur = c /\ s.w = <<>> /\ B = ToSet(s.trans[c].bufq)
  BY <1>1, <1>2, <1>6, <1>7 DEF TransSet, Idle
<1>10. B \subseteq Blocks
  BY <1>2 DEF Typed, ToSet
<1> HIDE DEF B
<1>11. Shape(a) /\ Rolled(a, s, c, B, s.trans[c].data)
  BY <1>2, <1>7, <1>10, RolledIs
<1> HIDE DEF a
<1>12. /\ \A b \in Blocks : BlockLinked(a, c, {}, {}, b)
       /\ \A t \in Trans : t # c => TransLinked(a, c, {}, t)
       /\ ToSet(a.trans[c].bufq) = {}
  <2>1. B \subseteq ToSet(s.trans[c].bufq)
    BY <1>9
  <2>2. /\ \A b \in Blocks : BlockLinked(a, c, {}, {}, b)
        /\ \A t \in Trans : t # c => TransLinked(a, c, {}, t)
        /\ ToSet(a.trans[c].bufq) = ToSet(s.trans[c].bufq) \ B
    <3> DEFINE n == s.trans[c].data
    <3>1. c \in Trans /\ Linked(s, c, {}, {}) /\ Shape(a) /\ Rolled(a, s, c, B, n)
      BY <1>2, <1>8, <1>11
    <3> HIDE DEF n, c
    <3>2. Shrunk(a, s, c, B, n)
      BY <2>1, <3>1, RolledKeeps, Zenon
    <3> QED BY <3>2 DEF Shrunk
  <2> QED BY <1>9, <2>2
<1>13. /\ a.queue = s.queue /\ a.start = s.start /\ a.last = s.last /\ a.cur = c /\ a.w = <<>>
       /\ \A t \in Trans : t # c => a.trans[t] = s.trans[t]
       /\ a.trans[c].start = s.trans[c].start /\ a.trans[c].alloc = s.trans[c].alloc
       /\ a.trans[c].lba = s.trans[c].lba
  BY <1>9, <1>11 DEF Rolled
<1>14. Laid(a, c, 0, LogLen - 1)
  BY <1>2, <1>7, <1>8, <1>9, <1>13, RunLaid
<1>15. Logged(a, log, <<>>)
  <2> SUFFICES ASSUME NEW t \in Trans, NEW b \in ToSet(a.trans[t].bufq), a.trans[t].lba[b] # 0
               PROVE  Holds(log, <<>>, a.trans[t].lba[b], t)
    BY DEF Logged
  <2>1. t # c
    BY <1>12
  <2> QED BY <1>8, <1>13, <2>1 DEF Logged
<1>16. Shape(v) /\ TransSet(v, a, c, NoTrans)
  BY <1>2, <1>11, NoTransFacts, TransSetIs
<1> HIDE DEF v
<1>17. Shape(u) /\ u.cur = 0 /\ u.trans = v.trans /\ u.rec = v.rec /\ u.queue = v.queue /\ u.dq = v.dq
       /\ u.buf = v.buf /\ u.start = v.start /\ u.last = v.last /\ u.w = v.w
  <2>1. PICK W : v \in Sessions(W)
    BY <1>16 DEF Shape
  <2>2. u \in Sessions(W)
    BY <2>1 DEF Sessions
  <2> QED BY <2>1, <2>2 DEF Shape, Sessions
<1> HIDE DEF u
<1>18. Ended(u, a, c)
  BY <1>16, <1>17 DEF Ended, TransSet
<1>19. ToSet(a.queue) \subseteq 0 .. ntrans /\ 0 \in 0 .. ntrans /\ IsInjective(a.queue) /\ c \notin ToSet(a.queue)
  BY <1>2, <1>9, <1>13, JournalAssumption DEF Session, JournalInv, Linked
<1>20. Session(u, log, <<>>, ntrans, 0, LogLen - 1) /\ Idle(u, 0)
  <2>1. a.trans[c].alloc = 0
    BY <1>9, <1>13
  <2> QED BY <1>2, <1>11, <1>12, <1>13, <1>14, <1>15, <1>17, <1>18, <1>19, <2>1, EndedKeeps
<1>21. ntrans \in 0 .. MaxTrans
  BY DEF JournalInv
<1>22. JournalInv'
  BY <1>1, <1>2, <1>5, <1>20, <1>21, RunInv
<1>23. u.dq = a.dq /\ u.buf = a.buf /\ u.cur = 0 /\ u.queue = j.queue /\ u.rec = a.rec
  BY <1>9, <1>13, <1>18, <1>16, <1>17 DEF Ended, TransSet
<1>24. /\ s.dq = j.dq /\ s.rec = j.rec /\ s.buf = j.buf /\ s.trans[c].revoke = {}
       /\ \A y \in Trans : s.trans[y].lba = j.trans[y].lba
  BY <1>6, <1>7 DEF TransSet
<1>25. GivenUp(u, j, c, {}, B)
  <2>1. ASSUME NEW b \in B
        PROVE  LET e == IF u.dq[b] = <<>> THEN 0 ELSE Last(u.dq[b]) IN
               /\ u.dq[b] = Without(j.dq[b], {c}) /\ u.rec[b] \in {0, e}
               /\ u.buf[b] = IF e = 0 \/ b \in {} THEN NoBuf
                             ELSE [val |-> log[j.trans[e].lba[b]].val, owner |-> e]
    <3> DEFINE e == IF u.dq[b] = <<>> THEN 0 ELSE Last(u.dq[b])
    <3>0. /\ a.dq[b] = Without(s.dq[b], {c}) /\ a.buf[b] = Restored(s, c, a.rec[b], b)
          /\ a.rec[b] = IF a.dq[b] = <<>> THEN 0 ELSE Last(a.dq[b])
      BY <1>11, Zenon DEF Rolled
    <3>1. a.dq[b] = Without(s.dq[b], {c}) /\ a.rec[b] = e /\ a.buf[b] = Restored(s, c, e, b)
      BY <1>23, <3>0, Zenon
    <3>2. e = 0 \/ e \in Trans
      <4>1. b \in Blocks /\ Typed(a)
        BY <1>10, <1>11, ShapeTyped
      <4> HIDE DEF e
      <4> QED BY <3>1, <4>1 DEF Typed
    <3> HIDE DEF e
    <3>3. e # 0 => s.trans[e].lba = j.trans[e].lba
      BY <1>24, <3>2
    <3>4. u.buf[b] = IF e = 0 THEN NoBuf ELSE [val |-> log[j.trans[e].lba[b]].val, owner |-> e]
      BY <1>23, <1>24, <3>1, <3>3, Zenon DEF Restored
    <3> QED BY <1>23, <1>24, <3>1, <3>4 DEF e
  <2>2. \A b \in Blocks \ B : u.dq[b] = j.dq[b] /\ u.buf[b] = j.buf[b] /\ u.rec[b] \in {0, j.rec[b]}
    BY <1>11, <1>23, <1>24 DEF Rolled
  <2> QED BY <1>23, <2>1, <2>2, Zenon DEF GivenUp
<1> QED BY <1>5, <1>22, <1>23, <1>25 DEF B

\* The log blocks a commit writes: the descriptor block before the data blocks.
Items == [kind : {"desc", "data", "revoke", "commit"}, b : Blocks \cup {0}]

LEMMA TodoFacts ==
  ASSUME NEW q \in Seq(Blocks), NEW d, NEW r,
         NEW td, td = (IF d THEN <<>>
                       ELSE <<Item("desc", 0)>> \o [i \in DOMAIN q |-> Item("data", q[i])])
                      \o (IF r THEN <<>> ELSE <<Item("revoke", 0)>>) \o <<Item("commit", 0)>>
  PROVE  /\ td \in Seq(Items) /\ Len(td) \in 1 .. Len(q) + 3
         /\ \A i \in DOMAIN td : td[i].kind = "data" => td[i].b \in ToSet(q) /\ i # 1
         /\ ~d => \A b \in ToSet(q) : Item("data", b) \in ToSet(td)
<1> DEFINE n == Len(q)
           de == Item("desc", 0)
           re == Item("revoke", 0)
           co == Item("commit", 0)
           m == [i \in DOMAIN q |-> Item("data", q[i])]
           x == IF d THEN <<>> ELSE <<de>> \o m
           y == IF r THEN <<>> ELSE <<re>>
           z == <<co>>
           k == Len(x)
           o == Len(y)
<1>1. /\ de \in Items /\ re \in Items /\ co \in Items /\ de.kind = "desc" /\ re.kind = "revoke"
      /\ co.kind = "commit"
  BY DEF Item, Items
<1>2. n \in Nat /\ DOMAIN q = 1 .. n /\ \A i \in 1 .. n : q[i] \in Blocks /\ q[i] \in ToSet(q)
  BY DEF ToSet
<1>3. /\ m \in [1 .. n -> Items]
      /\ \A i \in 1 .. n : m[i].kind = "data" /\ m[i].b = q[i] /\ m[i] = Item("data", q[i])
  BY <1>2 DEF Item, Items
<1> HIDE DEF de, re, co, m, n
<1>4. m \in Seq(Items) /\ Len(m) = n
  <2>1. n \in Nat /\ m \in [1 .. n -> Items]
    BY <1>2, <1>3
  <2> QED BY <2>1
<1>5. /\ x \in Seq(Items) /\ k \in 0 .. n + 1
      /\ \A i \in 1 .. k : x[i].kind = "data" => i - 1 \in 1 .. n /\ x[i].b = q[i - 1]
      /\ ~d => k = n + 1 /\ \A i \in 1 .. n : x[i + 1] = m[i]
  <2>1. CASE d
    BY <1>2, <2>1
  <2>2. CASE ~d
    <3> DEFINE v == <<de>> \o m
    <3>1. /\ v \in Seq(Items) /\ Len(v) = n + 1 /\ v[1] = de /\ \A i \in 1 .. n : v[i + 1] = m[i]
      BY <1>1, <1>2, <1>4
    <3>2. x = v
      BY <2>2
    <3> HIDE DEF v, x
    <3>3. ASSUME NEW i \in 1 .. n + 1, x[i].kind = "data" PROVE i - 1 \in 1 .. n /\ x[i].b = q[i - 1]
      <4>1. i # 1
        BY <1>1, <3>1, <3>2, <3>3
      <4>2. i - 1 \in 1 .. n /\ (i - 1) + 1 = i
        BY <1>2, <4>1
      <4>3. x[i] = m[i - 1]
        BY <3>1, <3>2, <4>2
      <4> QED BY <1>3, <4>2, <4>3
    <3>4. k = n + 1 /\ n + 1 \in 0 .. n + 1
      BY <1>2, <3>1, <3>2
    <3> HIDE DEF k
    <3> QED BY <2>2, <3>1, <3>2, <3>3, <3>4
  <2> QED BY <2>1, <2>2
<1>6. y \in Seq(Items) /\ o \in 0 .. 1 /\ \A i \in 1 .. o : y[i] = re
  BY <1>1
<1>7. z \in Seq(Items) /\ Len(z) = 1 /\ z[1] = co
  BY <1>1
<1>8. td = (x \o y) \o z
  BY DEF m, de, re, co
<1> HIDE DEF x, y, z
<1>9. /\ td \in Seq(Items) /\ Len(td) = (k + o) + 1
      /\ \A i \in 1 .. k : td[i] = x[i]
      /\ \A i \in 1 .. o : td[k + i] = y[i]
      /\ td[(k + o) + 1] = co
  <2> DEFINE v == x \o y
  <2>1. /\ v \in Seq(Items) /\ Len(v) = k + o /\ \A i \in 1 .. k : v[i] = x[i]
        /\ \A i \in 1 .. o : v[k + i] = y[i]
    BY <1>5, <1>6
  <2> HIDE DEF v
  <2>2. /\ v \o z \in Seq(Items) /\ Len(v \o z) = (k + o) + 1 /\ \A i \in 1 .. k + o : (v \o z)[i] = v[i]
        /\ (v \o z)[(k + o) + 1] = co
    <3> DEFINE e == Len(v)
    <3>1. v \in Seq(Items) /\ z \in Seq(Items) /\ Len(z) = 1 /\ z[1] = co
      BY <1>7, <2>1
    <3>2. /\ v \o z \in Seq(Items) /\ Len(v \o z) = e + 1 /\ \A i \in 1 .. e : (v \o z)[i] = v[i]
          /\ (v \o z)[e + 1] = co
      <4>1. e \in Nat
        BY <3>1
      <4>2. /\ v \o z \in Seq(Items) /\ Len(v \o z) = e + 1
            /\ \A i \in 1 .. e + 1 : (v \o z)[i] = IF i <= e THEN v[i] ELSE z[i - e]
        <5>1. v \in Seq(Items) /\ z \in Seq(Items)
          BY <3>1
        <5>2. /\ v \o z \in Seq(Items) /\ Len(v \o z) = Len(v) + Len(z)
              /\ \A i \in 1 .. Len(v) + Len(z) : (v \o z)[i] = IF i <= Len(v) THEN v[i] ELSE z[i - Len(v)]
          BY <5>1, ConcatProperties, Zenon
        <5>3. Len(z) = 1
          BY <3>1
        <5> QED BY <5>2, <5>3
      <4> HIDE DEF e
      <4>3. /\ \A i \in 1 .. e : i \in 1 .. e + 1 /\ i <= e
            /\ e + 1 \in 1 .. e + 1 /\ ~(e + 1 <= e) /\ (e + 1) - e = 1
        BY <4>1
      <4> QED BY <3>1, <4>2, <4>3
    <3>3. e = k + o
      BY <2>1
    <3> HIDE DEF e
    <3> QED BY <3>2, <3>3
  <2>3. td = v \o z
    BY <1>8 DEF v
  <2>4. k \in Nat /\ o \in Nat /\ (\A i \in 1 .. k : i \in 1 .. k + o) /\ (\A i \in 1 .. o : k + i \in 1 .. k + o)
    BY <1>5, <1>6, <1>2
  <2> QED BY <2>1, <2>2, <2>3, <2>4
<1> HIDE DEF k, o
<1>10. k \in Nat /\ o \in Nat /\ DOMAIN td = 1 .. (k + o) + 1 /\ Len(td) \in 1 .. n + 3
  BY <1>2, <1>5, <1>6, <1>9
<1>11. ASSUME NEW i \in DOMAIN td, td[i].kind = "data" PROVE td[i].b \in ToSet(q) /\ i # 1
  <2>1. CASE i \in 1 .. k
    <3>1. i - 1 \in 1 .. n /\ td[i].b = q[i - 1] /\ i # 1
      <4>1. td[i] = x[i]
        BY <1>9, <2>1
      <4>2. i - 1 \in 1 .. n /\ x[i].b = q[i - 1]
        BY <1>5, <1>11, <2>1, <4>1
      <4> QED BY <1>2, <4>1, <4>2
    <3> QED BY <1>2, <3>1
  <2>2. CASE i \notin 1 .. k
    <3>0. i \in 1 .. (k + o) + 1
      BY <1>10, <1>11
    <3>1. i = (k + o) + 1 \/ (i - k \in 1 .. o /\ k + (i - k) = i)
      BY <1>10, <2>2, <3>0
    <3>2. td[i] = co \/ td[i] = re
      BY <1>6, <1>9, <3>1 DEF o
    <3> QED BY <1>1, <1>11, <3>2
  <2> QED BY <2>1, <2>2
<1>12. ASSUME ~d, NEW b \in ToSet(q) PROVE Item("data", b) \in ToSet(td)
  <2>1. PICK i \in 1 .. n : b = q[i]
    BY <1>2 DEF ToSet
  <2>2. i + 1 \in 1 .. k /\ i + 1 \in DOMAIN td
    BY <1>2, <1>5, <1>10, <1>12 DEF k
  <2>3. td[i + 1] = Item("data", b)
    BY <1>3, <1>5, <1>9, <1>12, <2>1, <2>2
  <2> QED BY <2>2, <2>3 DEF ToSet
<1> QED BY <1>9, <1>10, <1>11, <1>12 DEF n

\* The buffers that are no longer dirty leave the transaction.
Trimmed(s, c, B) == [RollBack(s, c, B) EXCEPT !.trans[c].data = @ - Cardinality(B)]

LEMMA TrimmedIs ==
  ASSUME NEW s, NEW c \in Trans, Linked(s, c, {}, {}), NEW B, B \subseteq ToSet(s.trans[c].bufq)
  PROVE  LET u == Trimmed(s, c, B)
         IN  /\ Shape(u) /\ Linked(u, c, {}, {})
             /\ Rolled(u, s, c, B, s.trans[c].data - Cardinality(B))
             /\ ToSet(u.trans[c].bufq) = ToSet(s.trans[c].bufq) \ B
<1> DEFINE a == RollBack(s, c, B)
           m == s.trans[c].data
           n == m - Cardinality(B)
           x == [a.trans[c] EXCEPT !.data = n]
           u == [a EXCEPT !.trans[c] = x]
<1>1. Shape(s) /\ Typed(s) /\ B \subseteq Blocks
  <2>1. Shape(s) /\ Typed(s)
    BY ShapeTyped DEF Linked
  <2> QED BY <2>1 DEF Typed, ToSet
<1>2. Shape(a) /\ Rolled(a, s, c, B, m)
  BY <1>1, RolledIs
<1>3. PICK V : a \in Sessions(V)
  BY <1>2 DEF Shape
<1>4. a.trans[c] \in Transactions(V) /\ a.trans \in [Trans -> Transactions(V)] /\ a.trans[c].data = m
  BY <1>2, <1>3, Parts DEF Rolled
<1>5. Trimmed(s, c, B) = u
  BY <1>4, Zenon DEF Trimmed
<1> HIDE DEF a
<1>6. n \in Nat
  <2>1. Shrunk(a, s, c, B, m)
    BY <1>2, RolledKeeps
  <2> QED BY <2>1 DEF Shrunk
<1> HIDE DEF n
<1>7. /\ x \in Transactions(V) /\ x.bufq = a.trans[c].bufq /\ x.data = n
      /\ x.written = a.trans[c].written /\ x.lba = a.trans[c].lba /\ x.start = a.trans[c].start
      /\ x.alloc = a.trans[c].alloc /\ x.revoke = a.trans[c].revoke
  BY <1>4, <1>6 DEF Transactions
<1> HIDE DEF x
<1>8. Shape(u) /\ TransSet(u, a, c, x)
  BY <1>2, <1>7, TransSetIs
<1> HIDE DEF u
<1>9. Rolled(u, s, c, B, n)
  <2>1. /\ u.dq = a.dq /\ u.rec = a.rec /\ u.buf = a.buf /\ u.queue = a.queue /\ u.start = a.start
        /\ u.last = a.last /\ u.cur = a.cur /\ u.w = a.w /\ u.trans[c] = x
        /\ \A t \in Trans : t # c => u.trans[t] = a.trans[t]
    BY <1>8, Zenon DEF TransSet
  <2>2. \A t \in Trans : t # c => u.trans[t] = s.trans[t]
    BY <1>2, <2>1 DEF Rolled
  <2>3. \A b \in B : /\ u.dq[b] = Without(s.dq[b], {c})
                     /\ u.rec[b] = IF u.dq[b] = <<>> THEN 0 ELSE Last(u.dq[b])
                     /\ u.buf[b].owner # 0 => u.buf[b].owner = u.rec[b] /\ u.rec[b] # 0
                     /\ u.buf[b] = Restored(s, c, u.rec[b], b)
    <3>1. \A b \in B : /\ a.dq[b] = Without(s.dq[b], {c})
                       /\ a.rec[b] = IF a.dq[b] = <<>> THEN 0 ELSE Last(a.dq[b])
                       /\ a.buf[b].owner # 0 => a.buf[b].owner = a.rec[b] /\ a.rec[b] # 0
                       /\ a.buf[b] = Restored(s, c, a.rec[b], b)
      BY <1>2, Zenon DEF Rolled
    <3>2. u.dq = a.dq /\ u.rec = a.rec /\ u.buf = a.buf
      BY <2>1
    <3> QED BY <3>1, <3>2
  <2>4. \A b \in Blocks \ B : u.dq[b] = s.dq[b] /\ u.rec[b] = s.rec[b] /\ u.buf[b] = s.buf[b]
    BY <1>2, <2>1 DEF Rolled
  <2>5. /\ x.bufq = Without(s.trans[c].bufq, B) /\ x.data = n /\ x.written = s.trans[c].written
        /\ x.lba = s.trans[c].lba /\ x.start = s.trans[c].start /\ x.alloc = s.trans[c].alloc
        /\ x.revoke = s.trans[c].revoke
    BY <1>2, <1>7 DEF Rolled
  <2>6. /\ u.queue = s.queue /\ u.start = s.start /\ u.last = s.last /\ u.cur = s.cur /\ u.w = s.w
    BY <1>2, <2>1 DEF Rolled
  <2> QED BY <2>1, <2>2, <2>3, <2>4, <2>5, <2>6, Zenon DEF Rolled
<1>10. Shrunk(u, s, c, B, n)
  BY <1>8, <1>9, RolledKeeps
<1>11. Linked(u, c, {}, {}) /\ ToSet(u.trans[c].bufq) = ToSet(s.trans[c].bufq) \ B
  BY <1>10 DEF Shrunk, n
<1> QED BY <1>5, <1>8, <1>9, <1>11 DEF n

\* A transaction that is not queued is freed.
LEMMA EndIs ==
  ASSUME NEW s, Shape(s), NEW c \in Trans, c \notin ToSet(s.queue)
  PROVE  LET u == [FreeTrans(s, c) EXCEPT !.cur = 0] IN Shape(u) /\ Ended(u, s, c)
<1>1. PICK W : s \in Sessions(W)
  BY DEF Shape
<1> DEFINE V == W \cup {0}
           tr == [s.trans EXCEPT ![c] = NoTrans]
           re == [b \in Blocks |-> IF s.rec[b] = c THEN 0 ELSE s.rec[b]]
           f == [[[s EXCEPT !.queue = Without(s.queue, {c})] EXCEPT !.trans = tr] EXCEPT !.rec = re]
           u == [f EXCEPT !.cur = 0]
<1>2. s \in Sessions(V) /\ NoTrans \in Transactions(V)
  <2>1. s \in Sessions(V)
    BY <1>1, SessionsGrow
  <2> QED BY <2>1, NoTransFacts DEF Transactions
<1> HIDE DEF V
<1>3. /\ s.trans \in [Trans -> Transactions(V)] /\ s.queue \in Seq(Trans)
      /\ s.rec \in [Blocks -> Trans \cup {0}]
  BY <1>2, Parts
<1>4. FreeTrans(s, c) = f
  BY <1>3, Zenon DEF FreeTrans
<1>5. Without(s.queue, {c}) = s.queue
  <2>1. ToSet(s.queue) \cap {c} = {}
    OBVIOUS
  <2> QED BY <1>3, <2>1, WithoutSame
<1>6. tr \in [Trans -> Transactions(V)] /\ tr[c] = NoTrans /\ \A y \in Trans : y # c => tr[y] = s.trans[y]
  BY <1>2, <1>3
<1>7. re \in [Blocks -> Trans \cup {0}] /\ \A b \in Blocks : re[b] = s.rec[b] \/ (s.rec[b] = c /\ re[b] = 0)
  BY <1>3
<1> HIDE DEF tr, re
<1>8. /\ f \in Sessions(V) /\ f.trans = tr /\ f.rec = re /\ f.queue = s.queue /\ f.dq = s.dq
      /\ f.buf = s.buf /\ f.start = s.start /\ f.last = s.last /\ f.w = s.w
  BY <1>2, <1>3, <1>5, <1>6, <1>7 DEF Sessions
<1> HIDE DEF f
<1>9. /\ u \in Sessions(V) /\ u.trans = tr /\ u.rec = re /\ u.queue = s.queue /\ u.dq = s.dq
      /\ u.buf = s.buf /\ u.start = s.start /\ u.last = s.last /\ u.w = s.w /\ u.cur = 0
  BY <1>8 DEF Sessions
<1> HIDE DEF u
<1>10. Shape(u) /\ Ended(u, s, c)
  BY <1>6, <1>7, <1>9 DEF Shape, Ended
<1> QED BY <1>4, <1>10 DEF u

LEMMA CommitBeginKeeps ==
  ASSUME JournalInv, CommitBegin
  PROVE  /\ JournalInv'
         /\ LET c == j.cur
                B == {b \in ToSet(j.trans[c].bufq) : j.buf[b].owner # c}
            IN  /\ GivenUp(j', j, c, j.trans[c].revoke, B)
                /\ \/ j'.cur = c /\ j'.trans[c].revoke = j.trans[c].revoke /\ safe' = safe
                   \/ /\ j'.cur = 0 /\ safe' = want /\ j.trans[c].revoke = {}
                      /\ \A b \in Blocks : c \notin ToSet(j'.dq[b])
<1> DEFINE c == j.cur
           B == {b \in ToSet(j.trans[c].bufq) : j.buf[b].owner # c}
           s == Trimmed(j, c, B)
           q == s.trans[c]
           td == (IF q.data = 0 THEN <<>>
                  ELSE <<Item("desc", 0)>> \o [i \in DOMAIN q.bufq |-> Item("data", q.bufq[i])])
                 \o (IF q.revoke = {} THEN <<>> ELSE <<Item("revoke", 0)>>) \o <<Item("commit", 0)>>
<1>1. /\ pc = "up" /\ Runs /\ c # 0 /\ UNCHANGED <<log, wq, slot, ntrans>>
      /\ IF q.data = 0 /\ q.revoke = {}
         THEN j' = [FreeTrans(s, c) EXCEPT !.cur = 0] /\ pc' = pc /\ safe' = want
         ELSE j' = [s EXCEPT !.trans[c].id = j.atid] /\ todo' = td /\ pc' = "commit" /\ safe' = safe
  BY Zenon DEF CommitBegin, device, Trimmed
<1> HIDE DEF td
<1>2. /\ Session(j, log, <<>>, ntrans, 0, LogLen - 1) /\ wq = <<>> /\ Idle(j, 0) /\ slot = 0
      /\ Linked(j, c, {}, {}) /\ Laid(j, c, 0, LogLen - 1) /\ Shape(j) /\ Typed(j) /\ j.w = <<>>
      /\ Logged(j, log, <<>>) /\ c \in Trans /\ c \notin ToSet(j.queue) /\ ntrans \in 0 .. MaxTrans
  <2>1. pc = "up" /\ Runs /\ c # 0 /\ UNCHANGED slot
    BY <1>1, Zenon
  <2>2. c \in Trans
    BY <2>1, RunBegins
  <2> QED BY <2>1, <2>2, RunBegins DEF Linked, JournalInv
<1>e. B \subseteq ToSet(j.trans[c].bufq) /\ (\A b \in ToSet(j.trans[c].bufq) \ B : j.buf[b].owner = c)
  OBVIOUS
<1> HIDE DEF B
<1>3. /\ Shape(s) /\ Linked(s, c, {}, {}) /\ Rolled(s, j, c, B, j.trans[c].data - Cardinality(B))
      /\ ToSet(q.bufq) = ToSet(j.trans[c].bufq) \ B
  BY <1>2, <1>e, TrimmedIs
<1> HIDE DEF s
<1>d. Typed(s) /\ \A b \in ToSet(q.bufq) : b \in Blocks
  <2>1. Typed(s) /\ c \in Trans
    BY <1>2, <1>3, ShapeTyped
  <2> QED BY <2>1 DEF Typed, ToSet
<1>4. /\ \A b \in B : /\ s.dq[b] = Without(j.dq[b], {c})
                      /\ s.buf[b].owner # 0 => s.buf[b].owner = s.rec[b] /\ s.rec[b] # 0
      /\ \A b \in Blocks \ B : s.buf[b] = j.buf[b]
      /\ s.queue = j.queue /\ s.start = j.start /\ s.last = j.last /\ s.cur = c /\ s.w = <<>>
      /\ \A t \in Trans : t # c => s.trans[t] = j.trans[t]
      /\ q.lba = j.trans[c].lba /\ q.start = j.trans[c].start /\ q.alloc = j.trans[c].alloc
      /\ q.revoke = j.trans[c].revoke
  BY <1>2, <1>3, Zenon DEF Rolled
<1>5. \A b \in ToSet(q.bufq) : s.buf[b].owner = c
  <2> SUFFICES ASSUME NEW b \in ToSet(q.bufq) PROVE s.buf[b].owner = c
    OBVIOUS
  <2>1. b \in Blocks /\ b \notin B /\ b \in ToSet(j.trans[c].bufq)
    BY <1>3, <1>d
  <2>2. s.buf[b] = j.buf[b]
    BY <1>4, <2>1
  <2> QED BY <1>e, <2>1, <2>2
<1>b. \A b \in B : b \in Blocks
  BY <1>2, <1>e DEF Typed, ToSet
<1>6. \A b \in q.revoke : s.buf[b].owner # c
  <2> SUFFICES ASSUME NEW b \in q.revoke PROVE s.buf[b].owner # c
    OBVIOUS
  <2>1. b \in Blocks /\ j.buf[b].owner # c
    BY <1>1, <1>2, <1>4 DEF Session, Typed
  <2>2. CASE b \in B
    <3>1. b \notin ToSet(q.bufq) /\ BlockLinked(s, c, {}, {}, b)
      BY <1>3, <2>1, <2>2 DEF Linked
    <3>2. c \notin ToSet(s.dq[b])
      BY <1>2, <3>1 DEF BlockLinked
    <3> QED BY <1>1, <3>1, <3>2 DEF BlockLinked
  <2>3. CASE b \notin B
    BY <1>4, <2>1, <2>3
  <2> QED BY <2>2, <2>3
<1>7. q.alloc = 0 /\ \A b \in Blocks : q.lba[b] = 0
  BY <1>1, <1>2, <1>4 DEF Idle
<1>8. Laid(s, c, 0, LogLen - 1)
  BY <1>2, <1>4, RunLaid
<1>9. Logged(s, log, <<>>)
  <2> SUFFICES ASSUME NEW t \in Trans, NEW b \in ToSet(s.trans[t].bufq), s.trans[t].lba[b] # 0
               PROVE  Holds(log, <<>>, s.trans[t].lba[b], t)
    BY DEF Logged
  <2>1. t # c
    BY <1>7, <1>d
  <2> QED BY <1>2, <1>4, <2>1 DEF Logged
<1>10. ToSet(s.queue) \cup {c} \subseteq 0 .. ntrans /\ 0 \in 0 .. ntrans /\ IsInjective(s.queue)
       /\ c \notin ToSet(s.queue)
  BY <1>2, <1>4, JournalAssumption DEF Session, Linked
<1>11. q.data = 0 => ToSet(q.bufq) = {}
  <2>1. q.data = q.written + Len(q.bufq) + 0 /\ q.written \in Nat /\ q.bufq \in Seq(Blocks)
    BY <1>2, <1>3, <1>d DEF Linked, TransLinked, Typed
  <2>2. q.data = 0 => Len(q.bufq) = 0
    BY <2>1
  <2> QED BY <2>1, <2>2, NonEmpty
<1> DEFINE Given(u) ==
             /\ GivenUp(u, j, c, j.trans[c].revoke, B)
             /\ \/ u.cur = c /\ u.trans[c].revoke = j.trans[c].revoke /\ safe' = safe
                \/ /\ u.cur = 0 /\ safe' = want /\ j.trans[c].revoke = {}
                   /\ \A b \in Blocks : c \notin ToSet(u.dq[b])
<1> HIDE DEF Given
<1>12. ASSUME q.data = 0 /\ q.revoke = {} PROVE JournalInv' /\ Given(j')
  <2> DEFINE u == [FreeTrans(s, c) EXCEPT !.cur = 0]
  <2>1. Shape(u) /\ Ended(u, s, c)
    BY <1>2, <1>3, <1>10, EndIs
  <2>2. j' = u /\ pc' = "up"
    BY <1>1, <1>12
  <2>s. safe' = want
    BY <1>1, <1>12
  <2> HIDE DEF u
  <2>3. /\ \A b \in Blocks : BlockLinked(s, c, {}, {}, b)
        /\ \A t \in Trans : t # c => TransLinked(s, c, {}, t)
    BY <1>3 DEF Linked
  <2>4. ToSet(s.queue) \subseteq 0 .. ntrans
    BY <1>10
  <2>5. Session(u, log, <<>>, ntrans, 0, LogLen - 1) /\ Idle(u, 0)
    BY <1>2, <1>3, <1>4, <1>7, <1>8, <1>9, <1>10, <1>11, <1>12, <2>1, <2>3, <2>4, EndedKeeps
  <2>6. JournalInv'
    BY <1>1, <1>2, <2>2, <2>5, RunInv
  <2>7. u.dq = s.dq /\ u.buf = s.buf /\ u.queue = s.queue /\ u.cur = 0 /\ \A b \in Blocks : u.rec[b] \in {0, s.rec[b]}
    BY <2>1 DEF Ended
  <2>8. GivenUp(u, j, c, j.trans[c].revoke, B)
    BY <1>3, <1>b, <2>7, GivenUpIs
  <2>9. \A b \in Blocks : c \notin ToSet(u.dq[b])
    BY <1>2, <1>11, <1>12, <2>3, <2>7 DEF BlockLinked
  <2> QED BY <1>4, <1>12, <2>2, <2>s, <2>6, <2>7, <2>8, <2>9 DEF Given
<1>13. ASSUME ~(q.data = 0 /\ q.revoke = {}) PROVE JournalInv' /\ Given(j')
  <2> DEFINE x == [q EXCEPT !.id = j.atid]
             u == [s EXCEPT !.trans[c] = x]
  <2>1. PICK W : s \in Sessions(W)
    BY <1>3 DEF Shape
  <2>2. q \in Transactions(W) /\ s.trans \in [Trans -> Transactions(W)]
    BY <1>2, <2>1, Parts
  <2>3. [s EXCEPT !.trans[c].id = j.atid] = u
    BY <1>2, <2>2, Zenon
  <2>4. j' = u /\ todo' = td /\ pc' = "commit"
    BY <1>1, <1>13, <2>3
  <2>s. safe' = safe
    BY <1>1, <1>13
  <2> DEFINE V == W \cup {j.atid}
  <2>5. /\ x \in Transactions(V) /\ x.bufq = q.bufq /\ x.data = q.data /\ x.written = q.written
        /\ x.lba = q.lba /\ x.start = q.start /\ x.alloc = q.alloc /\ x.revoke = q.revoke
    BY <2>2 DEF Transactions
  <2> HIDE DEF x, V
  <2>6. Shape(u) /\ TransSet(u, s, c, x)
    BY <1>2, <1>3, <2>5, TransSetIs
  <2> HIDE DEF u
  <2>7. Linked(u, c, {}, {}) /\ Laid(u, c, 0, LogLen - 1) /\ Logged(u, log, <<>>)
    <3>1. /\ Linked(u, c, {}, {})
          /\ \A at, max : Laid(s, c, at, max) => Laid(u, c, at, max)
          /\ \A l, z : Logged(s, l, z) => Logged(u, l, z)
      BY <1>2, <1>3, <2>5, <2>6, TunedKeeps
    <3> QED BY <1>8, <1>9, <3>1
  <2>8. u.cur = c /\ u.queue = s.queue /\ u.buf = s.buf /\ u.w = <<>> /\ u.trans[c] = x
    BY <1>4, <2>6, Zenon DEF TransSet
  <2>9. Session(u, log, <<>>, ntrans, 0, LogLen - 1)
    <3>1. <<>> \in Seq({})
      OBVIOUS
    <3>2. \A b \in u.trans[c].revoke : u.buf[b].owner # c
      BY <1>6, <2>5, <2>8
    <3> QED BY <1>10, <2>7, <2>8, <3>1, <3>2 DEF Session
  <2>10. Committing(u, td, 0)
    <3>1. /\ td \in Seq(Items) /\ Len(td) \in 1 .. Len(q.bufq) + 3
          /\ \A i \in DOMAIN td : td[i].kind = "data" => td[i].b \in ToSet(q.bufq) /\ i # 1
          /\ q.data # 0 => \A b \in ToSet(q.bufq) : Item("data", b) \in ToSet(td)
      <4>1. q.bufq \in Seq(Blocks)
        BY <1>2, <1>d DEF Typed
      <4> HIDE DEF q
      <4> QED BY <4>1, TodoFacts DEF td
    <3>2. \A b \in ToSet(q.bufq) : Item("data", b) \in ToSet(td)
      BY <1>11, <3>1
    <3>3. td # <<>> /\ Len(td) \in Nat /\ Len(td) > 0
      BY <3>1
    <3>4. /\ x.alloc + Len(td) > 0 /\ x.alloc >= 0 /\ x.alloc + Len(td) <= Len(x.bufq) + 3 + 0
      <4>1. x.alloc = 0 /\ x.bufq = q.bufq /\ q.bufq \in Seq(Blocks)
        BY <1>2, <1>7, <1>d, <2>5 DEF Typed
      <4> QED BY <3>1, <3>3, <4>1
    <3>5. \A i \in DOMAIN td : td[i].kind = "data" => td[i].b \in ToSet(x.bufq) /\ (i = 1 => x.alloc > 0)
      BY <2>5, <3>1
    <3>6. \A b \in ToSet(x.bufq) : u.buf[b].owner = c /\ Item("data", b) \in ToSet(td)
      BY <1>5, <2>5, <2>8, <3>2
    <3> HIDE DEF q, c
    <3> QED BY <1>1, <2>8, <3>1, <3>3, <3>4, <3>5, <3>6 DEF Committing, Items
  <2>11. JournalInv'
    BY <1>1, <1>2, <2>4, <2>9, <2>10 DEF JournalInv, Up, InCommit, Room
  <2>12. u.dq = s.dq /\ u.buf = s.buf /\ u.queue = s.queue /\ u.rec = s.rec
    BY <2>6 DEF TransSet
  <2>13. GivenUp(u, j, c, j.trans[c].revoke, B)
    BY <1>3, <1>b, <2>12, GivenUpIs
  <2> QED BY <1>4, <2>4, <2>s, <2>5, <2>8, <2>11, <2>13 DEF Given
<1> QED BY <1>12, <1>13 DEF Given, B

\* Positions a whole log apart are the same block.
LEMMA WrapRound ==
  ASSUME NEW i \in Nat \ {0}
  PROVE  Wrap(i + LogLen) = Wrap(i)
<1> DEFINE q == (i - 1) \div LogLen
           r == (i - 1) % LogLen
<1>0. LogLen \in Nat \ {0}
  BY JournalAssumption
<1>n. i - 1 \in Nat
  OBVIOUS
<1>1. q \in Nat /\ r \in 0 .. LogLen - 1 /\ i - 1 = q * LogLen + r
  BY <1>0, <1>n, DivMod
<1>2. Wrap(i) = r + 1
  BY DEF Wrap
<1> HIDE DEF q, r
<1>3. (i + LogLen) - 1 = (q + 1) * LogLen + r
  BY <1>0, <1>1
<1>4. ((q + 1) * LogLen + r) % LogLen = r
  <2>1. q + 1 \in Nat
    BY <1>1
  <2> QED BY <1>0, <1>1, <2>1, DivModUnique
<1> QED BY <1>2, <1>3, <1>4 DEF Wrap

\* As long as the end of the log is not its start, one block of it is free.
LEMMA RoomLeft ==
  ASSUME NEW s, Shape(s), NEW c \in Trans \cup {0}, NEW at, Laid(s, c, at, LogLen), s.last # s.start
  PROVE  Laid(s, c, at, LogLen - 1)
<1> DEFINE a == IF c = 0 THEN 0 ELSE s.trans[c].alloc
           n == Len(s.queue) + 1
<1>1. PICK p : LaidAt(s, c, at, LogLen, p)
  BY DEF Laid
<1>2. LogLen \in Nat \ {0} /\ a \in Nat /\ n \in Nat \ {0} /\ 1 \in 1 .. n /\ n \in 1 .. n
  <2>1. Typed(s)
    BY ShapeTyped
  <2>2. s.queue \in Seq(Trans) /\ (c # 0 => s.trans[c].alloc \in Nat)
    BY <2>1 DEF Typed
  <2> QED BY <2>2, JournalAssumption
<1>3. /\ p \in [1 .. n -> Nat \ {0}] /\ s.start = Wrap(p[1])
      /\ s.last = Wrap(p[n] + a) /\ p[n] + a <= p[1] + LogLen
  BY <1>1 DEF LaidAt, Positions
<1>4. p[1] \in Nat \ {0} /\ p[n] \in Nat \ {0}
  BY <1>2, <1>3
<1>5. p[n] + a # p[1] + LogLen
  BY <1>3, <1>4, WrapRound
<1> HIDE DEF a, n
<1>6. p[n] + a <= p[1] + (LogLen - 1)
  BY <1>2, <1>3, <1>4, <1>5
<1>7. LaidAt(s, c, at, LogLen - 1, p)
  BY <1>1, <1>6 DEF LaidAt, a, n
<1> QED BY <1>7 DEF Laid

\* The running transaction changes, but not its blocks.
LEMMA LinkKept ==
  ASSUME NEW s, NEW c \in Trans, Linked(s, c, {}, {}), NEW u, Shape(u), u.queue = s.queue,
         u.rec = s.rec, u.dq = s.dq, u.buf = s.buf, \A t \in Trans : t # c => u.trans[t] = s.trans[t],
         u.trans[c].bufq = s.trans[c].bufq, u.trans[c].data = s.trans[c].data,
         u.trans[c].written = s.trans[c].written
  PROVE  Linked(u, c, {}, {})
<1>1. \A t \in Trans : /\ u.trans[t].bufq = s.trans[t].bufq /\ u.trans[t].data = s.trans[t].data
                       /\ u.trans[t].written = s.trans[t].written
  OBVIOUS
<1>2. ASSUME NEW t \in Trans PROVE TransLinked(u, c, {}, t)
  <2>1. TransLinked(s, c, {}, t)
    BY DEF Linked
  <2>2. t # c => u.trans[t] = s.trans[t]
    OBVIOUS
  <2> QED BY <1>1, <2>1, <2>2, Zenon DEF TransLinked
<1>3. ASSUME NEW b \in Blocks PROVE BlockLinked(u, c, {}, {}, b)
  <2>1. BlockLinked(s, c, {}, {}, b)
    BY DEF Linked
  <2> QED BY <1>1, <2>1 DEF BlockLinked
<1> QED BY <1>2, <1>3 DEF Linked

LEMMA RoomEndKeeps ==
  ASSUME JournalInv, RoomEnd
  PROVE  JournalInv'
<1>1. pc = "room" /\ Runs /\ j.last # j.start /\ pc' = "slot" /\ UNCHANGED <<log, j, wq, todo, slot, ntrans>>
  BY DEF RoomEnd, device, history
<1>2. Up /\ Room = LogLen /\ InCommit
  BY <1>1 DEF Up, Room, InCommit
<1>3. Session(j, log, wq, ntrans, slot, LogLen) /\ Committing(j, todo, slot)
  BY <1>2 DEF JournalInv
<1>4. Shape(j) /\ j.cur \in Trans \cup {0} /\ Laid(j, j.cur, slot, LogLen)
  BY <1>3 DEF Session, Linked
<1>5. Laid(j, j.cur, slot, LogLen - 1)
  BY <1>1, <1>4, RoomLeft
<1>6. Session(j, log, wq, ntrans, slot, LogLen - 1)
  BY <1>3, <1>5 DEF Session
<1>7. Up' /\ Room' = LogLen - 1 /\ InCommit'
  BY <1>1 DEF Up, Room, InCommit
<1> QED BY <1>1, <1>2, <1>3, <1>6, <1>7 DEF JournalInv

\* The running transaction takes the next block of the log.
LEMMA TakeLaid ==
  ASSUME NEW s, NEW c \in Trans, Shape(s), Laid(s, c, 0, LogLen - 1), c \notin ToSet(s.queue),
         NEW u, u.queue = s.queue, u.start = s.start, u.last = Wrap(s.last + 1),
         \A t \in Trans : t # c => u.trans[t] = s.trans[t],
         u.trans[c].start = (IF s.trans[c].start = 0 THEN s.last ELSE s.trans[c].start),
         u.trans[c].alloc = s.trans[c].alloc + 1, u.trans[c].lba = s.trans[c].lba
  PROVE  Laid(u, c, s.last, LogLen) /\ s.last # 0
<1> DEFINE n == Len(s.queue) + 1
           a == s.trans[c].alloc
<1>1. PICK p : LaidAt(s, c, 0, LogLen - 1, p)
  BY DEF Laid
<1>2. /\ LogLen \in Nat \ {0} /\ a \in Nat /\ n \in Nat \ {0} /\ 1 \in 1 .. n /\ n \in 1 .. n
      /\ s.queue \in Seq(Trans) /\ c # 0
  <2>1. Typed(s)
    BY ShapeTyped
  <2>2. s.queue \in Seq(Trans) /\ s.trans[c].alloc \in Nat
    BY <2>1 DEF Typed
  <2> QED BY <2>2, JournalAssumption DEF Trans
<1> DEFINE e == p[n]
<1>3. /\ Positions(s, p) /\ p \in [1 .. n -> Nat \ {0}]
      /\ s.last = Wrap(e + a) /\ e + a <= p[1] + (LogLen - 1)
      /\ s.trans[c].start = IF a = 0 THEN 0 ELSE Wrap(e)
      /\ \A b \in Blocks : s.trans[c].lba[b] # 0 =>
           \E x \in e + 1 .. (e + a) - (1 + 0) : s.trans[c].lba[b] = Wrap(x)
  BY <1>1, <1>2 DEF LaidAt, Positions
<1>4. p[1] \in Nat \ {0} /\ e \in Nat \ {0}
  <2>1. p \in [1 .. n -> Nat \ {0}]
    BY <1>3
  <2> HIDE DEF n
  <2> QED BY <1>2, <2>1
<1> HIDE DEF e
<1>5. e + a \in Nat \ {0} /\ 1 \in Nat
  <2>1. a \in Nat
    BY <1>2
  <2> HIDE DEF a
  <2> QED BY <1>4, <2>1
<1>6. Wrap(e) \in 1 .. LogLen /\ s.last \in 1 .. LogLen /\ u.last = Wrap((e + a) + 1)
  BY <1>3, <1>4, <1>5, WrapFacts
<1>7. s.last # 0 /\ Wrap(e) # 0
  BY <1>2, <1>6
<1>8. Positions(u, p)
  <2>1. \A i \in 1 .. Len(s.queue) : u.trans[s.queue[i]] = s.trans[s.queue[i]]
    BY <1>2 DEF ToSet
  <2>2. ASSUME NEW i \in 1 .. Len(u.queue)
        PROVE  LET q == u.trans[u.queue[i]]
               IN  /\ q.start = Wrap(p[i]) /\ p[i + 1] = p[i] + q.alloc
                   /\ \A b \in ToSet(q.bufq) : \E x \in p[i] .. p[i + 1] - 1 : q.lba[b] = Wrap(x)
    <3> DEFINE x == s.queue[i]
    <3>1. u.queue[i] = x /\ i \in 1 .. Len(s.queue) /\ u.trans[x] = s.trans[x]
      BY <2>1
    <3>2. LET q == s.trans[x]
          IN  /\ q.start = Wrap(p[i]) /\ p[i + 1] = p[i] + q.alloc
              /\ \A b \in ToSet(q.bufq) : \E y \in p[i] .. p[i + 1] - 1 : q.lba[b] = Wrap(y)
      BY <1>3, <3>1, Zenon DEF Positions
    <3> HIDE DEF x
    <3> QED BY <3>1, <3>2, ZenonT(60)
  <2> QED BY <1>3, <2>2, Zenon DEF Positions
<1>9. LaidAt(u, c, s.last, LogLen, p)
  <2> DEFINE d == u.trans[c].alloc
  <2>1. d = a + 1
    OBVIOUS
  <2> HIDE DEF a, d
  <2>2. /\ e + d = (e + a) + 1 /\ d # 0 /\ e + d <= p[1] + LogLen /\ (e + d) - 1 = e + a
        /\ (e + d) - (1 + 1) = (e + a) - (1 + 0)
    BY <1>2, <1>3, <1>4, <2>1
  <2>3. u.last = Wrap(e + d) /\ s.last = Wrap((e + d) - 1)
    BY <1>3, <1>6, <2>2
  <2>4. u.trans[c].start = IF d = 0 THEN 0 ELSE Wrap(e)
    <3>1. CASE a = 0
      <4>1. e + a = e
        BY <1>4, <3>1
      <4> QED BY <1>3, <2>2, <3>1, <4>1
    <3>2. CASE a # 0
      BY <1>3, <1>7, <2>2, <3>2
    <3> QED BY <3>1, <3>2
  <2>5. \A b \in Blocks : u.trans[c].lba[b] # 0 =>
           \E x \in e + 1 .. (e + d) - (1 + 1) : u.trans[c].lba[b] = Wrap(x)
    BY <1>3, <2>2
  <2>6. e = p[Len(u.queue) + 1]
    BY DEF e
  <2>7. c # 0 /\ s.last # 0
    BY <1>2, <1>7
  <2>8. e + d <= p[1] + LogLen
    BY <2>2
  <2> HIDE DEF n
  <2>9. /\ Positions(u, p) /\ u.last = Wrap(p[Len(u.queue) + 1] + d)
        /\ p[Len(u.queue) + 1] + d <= p[1] + LogLen
        /\ u.trans[c].start = (IF d = 0 THEN 0 ELSE Wrap(p[Len(u.queue) + 1]))
        /\ \A b \in Blocks : u.trans[c].lba[b] # 0 =>
             \E x \in p[Len(u.queue) + 1] + 1 .. (p[Len(u.queue) + 1] + d) - (1 + 1) :
               u.trans[c].lba[b] = Wrap(x)
        /\ s.last = Wrap((p[Len(u.queue) + 1] + d) - 1)
    BY <1>8, <2>3, <2>4, <2>5, <2>6, <2>8
  <2> QED BY <2>7, <2>9 DEF LaidAt, d
<1> QED BY <1>7, <1>9, Zenon DEF Laid

LEMMA AllocBlockKeeps ==
  ASSUME JournalInv, AllocBlock
  PROVE  /\ JournalInv' /\ Still(j', j) /\ j'.cur = j.cur
         /\ j'.trans[j.cur].revoke = j.trans[j.cur].revoke
<1> DEFINE c == j.cur
           q == j.trans[c]
           y == [q EXCEPT !.alloc = @ + 1]
           s == [j EXCEPT !.last = Wrap(@ + 1)]
           v == [s EXCEPT !.trans[c] = y]
           x == [v.trans[c] EXCEPT !.start = IF @ = 0 THEN j.last ELSE @]
           u == [v EXCEPT !.trans[c] = x]
<1>1. /\ pc = "commit" /\ Runs /\ todo # <<>> /\ slot' = j.last
      /\ j' = [j EXCEPT !.last = Wrap(@ + 1), !.trans[c].alloc = @ + 1,
                        !.trans[c].start = IF @ = 0 THEN j.last ELSE @]
      /\ pc' = (IF j'.last = j.start THEN "room" ELSE "slot")
      /\ UNCHANGED <<log, wq, todo, ntrans>>
  BY DEF AllocBlock, device, history
<1>2. /\ Up /\ InCommit /\ Room = LogLen - 1 /\ slot = 0
  BY <1>1 DEF Up, InCommit, Room, JournalInv
<1>3. /\ Session(j, log, <<>>, ntrans, 0, LogLen - 1) /\ wq = <<>> /\ Committing(j, todo, 0)
      /\ Linked(j, c, {}, {}) /\ Laid(j, c, 0, LogLen - 1) /\ Shape(j) /\ Typed(j) /\ j.w = <<>>
      /\ Logged(j, log, <<>>) /\ c \in Trans /\ c \notin ToSet(j.queue) /\ ntrans \in 0 .. MaxTrans
      /\ c # 0
  <2>1. Committing(j, todo, 0) /\ wq = <<>> /\ c # 0
    BY <1>1, <1>2 DEF JournalInv, Runs, Committing
  <2>2. Session(j, log, <<>>, ntrans, 0, LogLen - 1) /\ Typed(j) /\ c \in Trans \cup {0}
    BY <1>1, <1>2, Begins
  <2> QED BY <2>1, <2>2 DEF Session, Linked, JournalInv
<1>s. PICK V : j \in Sessions(V)
  BY <1>3 DEF Shape
<1>4. /\ j.trans \in [Trans -> Transactions(V)] /\ q \in Transactions(V) /\ j.last \in Nat
      /\ q.alloc \in Nat /\ q.start \in Nat
  BY <1>s, <1>3, Parts
<1>5. /\ Shape(s) /\ s.last = Wrap(j.last + 1) /\ s.cur = c /\ s.trans = j.trans /\ s.rec = j.rec
      /\ s.queue = j.queue /\ s.dq = j.dq /\ s.buf = j.buf /\ s.start = j.start /\ s.w = j.w
  <2>1. Wrap(j.last + 1) \in Nat
    BY <1>4, WrapNat
  <2>2. s \in Sessions(V)
    BY <1>s, <2>1 DEF Sessions
  <2> QED BY <1>s, <2>1, <2>2 DEF Shape, Sessions
<1>6. j' = [[s EXCEPT !.trans[c].alloc = @ + 1] EXCEPT !.trans[c].start = IF @ = 0 THEN j.last ELSE @]
  BY <1>1, Zenon
<1> HIDE DEF s
<1>7. [s EXCEPT !.trans[c].alloc = @ + 1] = v
  BY <1>4, <1>5, Zenon
<1>f. j' = [v EXCEPT !.trans[c].start = IF @ = 0 THEN j.last ELSE @]
  <2> HIDE DEF v
  <2> QED BY <1>6, <1>7, Zenon
<1>b. /\ y \in Transactions(V) /\ y.alloc = q.alloc + 1 /\ y.start = q.start
      /\ y.bufq = q.bufq /\ y.data = q.data /\ y.written = q.written /\ y.lba = q.lba
      /\ y.revoke = q.revoke
  <2>1. q \in Transactions(V)
    BY <1>4
  <2> HIDE DEF q
  <2>2. q.alloc \in Nat /\ q.alloc + 1 \in Nat
    BY <2>1 DEF Transactions
  <2> QED BY <2>1, <2>2 DEF Transactions
<1> HIDE DEF y
<1>c. Shape(v) /\ TransSet(v, s, c, y)
  BY <1>3, <1>5, <1>b, TransSetIs
<1> HIDE DEF v
<1>a. j' = u
  BY <1>f, Zenon
<1>d. v.trans[c] = y
  BY <1>c DEF TransSet
<1>e. /\ x \in Transactions(V) /\ x.alloc = q.alloc + 1 /\ x.start = (IF q.start = 0 THEN j.last ELSE q.start)
      /\ x.bufq = q.bufq /\ x.data = q.data /\ x.written = q.written /\ x.lba = q.lba
      /\ x.revoke = q.revoke
  BY <1>4, <1>b, <1>d DEF Transactions
<1> HIDE DEF x
<1>8. Shape(u) /\ TransSet(u, v, c, x) /\ u.last = Wrap(j.last + 1)
  <2>1. Shape(u) /\ TransSet(u, v, c, x)
    BY <1>3, <1>c, <1>e, TransSetIs
  <2> HIDE DEF u
  <2> QED BY <1>5, <1>c, <2>1 DEF TransSet
<1> HIDE DEF u
<1>9. /\ u.trans[c] = x /\ \A t \in Trans : t # c => u.trans[t] = j.trans[t]
      /\ u.rec = j.rec /\ u.queue = j.queue /\ u.dq = j.dq /\ u.buf = j.buf /\ u.start = j.start
      /\ u.w = <<>> /\ u.cur = c
  BY <1>3, <1>5, <1>8, <1>c DEF TransSet
<1>10. Linked(u, c, {}, {})
  BY <1>3, <1>8, <1>9, <1>e, LinkKept
<1>11. Laid(u, c, j.last, LogLen) /\ j.last # 0
  BY <1>3, <1>8, <1>9, <1>e, TakeLaid
<1>12. Logged(u, log, <<>>)
  <2>1. \A t \in Trans : u.trans[t].bufq = j.trans[t].bufq /\ u.trans[t].lba = j.trans[t].lba
    BY <1>9, <1>e
  <2> QED BY <1>3, <2>1 DEF Logged
<1>13. \A max : Laid(u, c, j.last, max) => Session(u, log, <<>>, ntrans, j.last, max)
  <2>1. \A b \in u.trans[c].revoke : u.buf[b].owner # c
    BY <1>3, <1>9, <1>e DEF Session
  <2> QED BY <1>3, <1>9, <1>10, <1>12, <2>1 DEF Session
<1>14. Committing(u, todo, j.last)
  <2>1. /\ todo \in Seq(Items) /\ q.alloc + Len(todo) <= Len(q.bufq) + 3 + 0
        /\ \A b \in ToSet(q.bufq) : j.buf[b].owner = c /\ (q.lba[b] # 0 \/ Item("data", b) \in ToSet(todo))
        /\ \A i \in DOMAIN todo : todo[i].kind = "data" => todo[i].b \in ToSet(q.bufq) /\ (i = 1 => q.alloc > 0)
    <3> HIDE DEF q
    <3> QED BY <1>3 DEF Committing, Items, q
  <2>2. Len(todo) \in Nat /\ Len(todo) > 0 /\ Len(q.bufq) \in Nat
    <3>1. q.bufq \in Seq(Blocks)
      BY <1>3 DEF Typed
    <3> QED BY <1>1, <2>1, <3>1
  <2>3. /\ x.alloc + Len(todo) > 1 /\ x.alloc >= 1 /\ x.alloc + Len(todo) <= Len(x.bufq) + 3 + 1
        /\ q.alloc > 0 => x.alloc > 1
    <3> DEFINE a == q.alloc
               m == Len(todo)
               k == Len(q.bufq)
    <3>1. a \in Nat /\ m \in Nat /\ m > 0 /\ k \in Nat /\ a + m <= k + 3 + 0
      BY <1>4, <2>1, <2>2
    <3>2. x.alloc = a + 1 /\ Len(x.bufq) = k
      BY <1>e
    <3> HIDE DEF a, m, k
    <3>3. (a + 1) + m > 1 /\ a + 1 >= 1 /\ (a + 1) + m <= k + 3 + 1 /\ (a > 0 => a + 1 > 1)
      BY <3>1
    <3> QED BY <3>2, <3>3 DEF a, m, k
  <2> HIDE DEF q
  <2>4. /\ \A b \in ToSet(x.bufq) : u.buf[b].owner = c /\ (x.lba[b] # 0 \/ Item("data", b) \in ToSet(todo))
        /\ \A i \in DOMAIN todo : todo[i].kind = "data" => todo[i].b \in ToSet(x.bufq) /\ (i = 1 => x.alloc > 1)
    BY <1>9, <1>e, <2>1, <2>3
  <2> QED BY <1>1, <1>3, <1>9, <1>11, <2>1, <2>3, <2>4 DEF Committing, Items
<1>15. ASSUME j'.last = j.start PROVE JournalInv'
  <2>1. pc' = "room"
    BY <1>1, <1>15
  <2>2. Session(u, log, <<>>, ntrans, j.last, LogLen)
    BY <1>11, <1>13
  <2> QED BY <1>1, <1>3, <1>a, <1>11, <1>14, <2>1, <2>2 DEF JournalInv, Up, InCommit, Room
<1>16. ASSUME j'.last # j.start PROVE JournalInv'
  <2>1. pc' = "slot"
    BY <1>1, <1>16
  <2>2. Laid(u, c, j.last, LogLen - 1)
    BY <1>3, <1>a, <1>8, <1>9, <1>11, <1>16, RoomLeft
  <2>3. Session(u, log, <<>>, ntrans, j.last, LogLen - 1)
    BY <1>13, <2>2
  <2> QED BY <1>1, <1>3, <1>a, <1>11, <1>14, <2>1, <2>3 DEF JournalInv, Up, InCommit, Room
<1>17. Still(u, j) /\ u.cur = c /\ u.trans[c].revoke = q.revoke
  BY <1>9, <1>e DEF Still
<1> QED BY <1>a, <1>15, <1>16, <1>17

\* The block of the log that is being written, and the one of the descriptor block, are
\* no block in which an unwritten copy is.
LEMMA Untouched ==
  ASSUME NEW s, NEW c \in Trans, Linked(s, c, {}, {}), NEW at, at # 0, Laid(s, c, at, LogLen - 1),
         s.trans[c].alloc >= 1
  PROVE  /\ at \in 1 .. LogLen /\ (s.trans[c].alloc > 1 => at # s.trans[c].start)
         /\ \A t \in Trans : \A b \in ToSet(s.trans[t].bufq) :
              s.trans[t].lba[b] # 0 => s.trans[t].lba[b] \notin {at, s.trans[c].start}
<1> DEFINE n == Len(s.queue) + 1
           a == s.trans[c].alloc
<1>1. PICK p : LaidAt(s, c, at, LogLen - 1, p)
  BY DEF Laid
<1>2. /\ LogLen \in Nat \ {0} /\ a \in Nat /\ n \in Nat \ {0} /\ 1 \in 1 .. n /\ n \in 1 .. n
      /\ s.queue \in Seq(Trans) /\ c # 0 /\ Typed(s) /\ a >= 1
      /\ Len(s.queue) \in Nat
  <2>1. Typed(s)
    BY ShapeTyped DEF Linked
  <2>2. s.queue \in Seq(Trans) /\ s.trans[c].alloc \in Nat
    BY <2>1 DEF Typed
  <2> QED BY <2>1, <2>2, JournalAssumption DEF Trans
<1> DEFINE e == p[n]
           first == p[1]
           y == (e + a) - 1
<1>3. /\ Positions(s, p) /\ p \in [1 .. n -> Nat \ {0}] /\ e + a <= first + (LogLen - 1)
      /\ s.trans[c].start = (IF a = 0 THEN 0 ELSE Wrap(e)) /\ at = Wrap(y)
      /\ \A b \in Blocks : s.trans[c].lba[b] # 0 =>
           \E x \in e + 1 .. (e + a) - (1 + 1) : s.trans[c].lba[b] = Wrap(x)
  BY <1>1, <1>2 DEF LaidAt, Positions
<1>4. /\ \A i, k \in 1 .. n : i <= k => p[i] <= p[k]
      /\ \A i \in 1 .. Len(s.queue) :
           \A b \in ToSet(s.trans[s.queue[i]].bufq) :
             \E x \in p[i] .. p[i + 1] - 1 : s.trans[s.queue[i]].lba[b] = Wrap(x)
  BY <1>3, Zenon DEF Positions
<1>5. first \in Nat \ {0} /\ e \in Nat \ {0} /\ first <= e
  BY <1>2, <1>3, <1>4
<1>6. \A i \in 1 .. Len(s.queue) : /\ p[i] \in Nat \ {0} /\ p[i + 1] \in Nat \ {0}
                                   /\ first <= p[i] /\ p[i + 1] <= e
  <2> TAKE i \in 1 .. Len(s.queue)
  <2>1. i \in 1 .. n /\ i + 1 \in 1 .. n /\ 1 <= i /\ i + 1 <= n
    BY <1>2
  <2> QED BY <1>2, <1>3, <1>4, <2>1
<1> HIDE DEF e, first, a
<1>7. y \in Nat \ {0} /\ e <= y /\ y - first < LogLen /\ e - first < LogLen
      /\ y - e < LogLen /\ (a > 1 => e < y) /\ y \in Int
  BY <1>2, <1>3, <1>5
<1>8. at = Wrap(y) /\ s.trans[c].start = Wrap(e)
  BY <1>2, <1>3
<1>s. y = (e + a) - 1
  OBVIOUS
<1> HIDE DEF y
<1>9. at \in 1 .. LogLen
  BY <1>7, <1>8, WrapFacts
<1>10. a > 1 => at # s.trans[c].start
  BY <1>5, <1>7, <1>8, WrapFacts
<1>11. ASSUME NEW x \in Nat \ {0}, first <= x, x < e
       PROVE  Wrap(x) # at /\ Wrap(x) # s.trans[c].start
  <2>1. /\ x <= y /\ y - x < LogLen /\ x # y
        /\ x <= e /\ e - x < LogLen /\ x # e
    <3>1. LogLen \in Int /\ x \in Int /\ y \in Int /\ e \in Int /\ first \in Int
      BY <1>2, <1>5, <1>7
    <3> QED BY <1>7, <1>11, <3>1
  <2> QED BY <1>5, <1>7, <1>8, <2>1, WrapFacts
<1>12. ASSUME NEW x \in Nat, e < x, x < y
       PROVE  Wrap(x) # at /\ Wrap(x) # s.trans[c].start
  <2>1. /\ x <= y /\ y - x < LogLen /\ x # y /\ x \in Nat \ {0}
        /\ e <= x /\ x - e < LogLen /\ x # e
    <3>1. LogLen \in Int /\ x \in Int /\ y \in Int /\ e \in Int /\ e > 0
      BY <1>2, <1>5, <1>7
    <3> QED BY <1>7, <1>12, <3>1
  <2>2. Wrap(x) # Wrap(y)
    BY <1>7, <2>1, WrapFacts
  <2>3. Wrap(e) # Wrap(x)
    BY <1>5, <2>1, WrapFacts
  <2> QED BY <1>8, <2>2, <2>3
<1>13. ASSUME NEW t \in Trans, NEW b \in ToSet(s.trans[t].bufq), s.trans[t].lba[b] # 0
       PROVE  s.trans[t].lba[b] \notin {at, s.trans[c].start}
  <2>1. CASE t = c
    <3>1. b \in Blocks
      <4>1. s.trans[c].bufq \in Seq(Blocks)
        BY <1>2 DEF Typed
      <4> QED BY <1>13, <2>1, <4>1 DEF ToSet
    <3>2. PICK x \in e + 1 .. (e + a) - (1 + 1) : s.trans[c].lba[b] = Wrap(x)
      BY <1>3, <1>13, <2>1, <3>1
    <3>3. x \in Nat /\ e < x /\ x < y
      BY <1>2, <1>5, <1>s
    <3> QED BY <1>12, <2>1, <3>2, <3>3
  <2>2. CASE t \in ToSet(s.queue)
    <3>1. PICK i \in 1 .. Len(s.queue) : s.queue[i] = t
      BY <1>2, <2>2 DEF ToSet
    <3>2. PICK x \in p[i] .. p[i + 1] - 1 : s.trans[t].lba[b] = Wrap(x)
      BY <1>4, <1>13, <3>1
    <3>3. p[i] \in Nat \ {0} /\ p[i + 1] \in Nat \ {0} /\ first <= p[i] /\ p[i + 1] <= e
      BY <1>6
    <3>4. x \in Nat \ {0} /\ first <= x /\ x < e
      <4> DEFINE f == p[i]
                 g == p[i + 1]
      <4>1. x \in f .. g - 1 /\ f \in Nat \ {0} /\ g \in Nat \ {0} /\ first <= f /\ g <= e
        BY <3>3
      <4> HIDE DEF f, g
      <4> QED BY <1>5, <4>1
    <3> QED BY <1>11, <3>2, <3>4
  <2>3. CASE t \notin ToSet(s.queue) \cup {c}
    <3>1. s.trans[t] = NoTrans
      BY <2>3 DEF Linked, TransLinked
    <3> QED BY <1>13, <3>1, NoTransFacts DEF ToSet
  <2> QED BY <2>1, <2>2, <2>3
<1> QED BY <1>9, <1>10, <1>13 DEF a

\* The allocated block is written.
LEMMA PutLaid ==
  ASSUME NEW s, NEW c \in Trans, Shape(s), NEW at, at # 0, NEW max, Laid(s, c, at, max), s.trans[c].alloc >= 1,
         c \notin ToSet(s.queue), NEW u, u.queue = s.queue, u.start = s.start, u.last = s.last,
         \A t \in Trans : t # c => u.trans[t] = s.trans[t],
         u.trans[c].start = s.trans[c].start, u.trans[c].alloc = s.trans[c].alloc,
         \A b \in Blocks : \/ u.trans[c].lba[b] = s.trans[c].lba[b]
                           \/ u.trans[c].lba[b] = at /\ s.trans[c].alloc > 1
  PROVE  Laid(u, c, 0, max)
<1> DEFINE n == Len(s.queue) + 1
           a == s.trans[c].alloc
<1>1. PICK p : LaidAt(s, c, at, max, p)
  BY DEF Laid
<1>2. /\ a \in Nat /\ n \in Nat \ {0} /\ n \in 1 .. n
      /\ s.queue \in Seq(Trans) /\ c # 0 /\ a >= 1
  <2>1. Typed(s)
    BY ShapeTyped DEF Linked
  <2>2. s.queue \in Seq(Trans) /\ s.trans[c].alloc \in Nat
    BY <2>1 DEF Typed
  <2> QED BY <2>2, JournalAssumption DEF Trans
<1> DEFINE e == p[n]
<1>3. /\ Positions(s, p) /\ p \in [1 .. n -> Nat \ {0}] /\ at = Wrap((e + a) - 1)
      /\ \A b \in Blocks : s.trans[c].lba[b] # 0 =>
           \E x \in e + 1 .. (e + a) - (1 + 1) : s.trans[c].lba[b] = Wrap(x)
  BY <1>1, <1>2 DEF LaidAt, Positions
<1>4. e \in Nat
  BY <1>2, <1>3
<1>5. Positions(u, p)
  <2>1. \A i \in 1 .. Len(s.queue) : u.trans[s.queue[i]] = s.trans[s.queue[i]]
    BY <1>2 DEF ToSet
  <2>2. ASSUME NEW i \in 1 .. Len(u.queue)
        PROVE  LET q == u.trans[u.queue[i]]
               IN  /\ q.start = Wrap(p[i]) /\ p[i + 1] = p[i] + q.alloc
                   /\ \A b \in ToSet(q.bufq) : \E x \in p[i] .. p[i + 1] - 1 : q.lba[b] = Wrap(x)
    <3> DEFINE x == s.queue[i]
    <3>1. u.queue[i] = x /\ i \in 1 .. Len(s.queue) /\ u.trans[x] = s.trans[x]
      BY <2>1
    <3>2. LET q == s.trans[x]
          IN  /\ q.start = Wrap(p[i]) /\ p[i + 1] = p[i] + q.alloc
              /\ \A b \in ToSet(q.bufq) : \E y \in p[i] .. p[i + 1] - 1 : q.lba[b] = Wrap(y)
      BY <1>3, <3>1, Zenon DEF Positions
    <3> HIDE DEF x
    <3> QED BY <3>1, <3>2, ZenonT(60)
  <2> QED BY <1>3, <2>2, Zenon DEF Positions
<1>6. ASSUME NEW b \in Blocks, u.trans[c].lba[b] # 0
      PROVE  \E x \in e + 1 .. (e + a) - (1 + 0) : u.trans[c].lba[b] = Wrap(x)
  <2> HIDE DEF e, a
  <2>1. CASE u.trans[c].lba[b] = s.trans[c].lba[b]
    <3>1. PICK x \in e + 1 .. (e + a) - (1 + 1) : s.trans[c].lba[b] = Wrap(x)
      BY <1>3, <1>6, <2>1
    <3>2. x \in e + 1 .. (e + a) - (1 + 0)
      BY <1>2, <1>4
    <3> QED BY <2>1, <3>1, <3>2
  <2>2. CASE u.trans[c].lba[b] = at /\ s.trans[c].alloc > 1
    <3>1. (e + a) - 1 \in e + 1 .. (e + a) - (1 + 0)
      BY <1>2, <1>4, <2>2 DEF a
    <3> QED BY <1>3, <2>2, <3>1
  <2> QED BY <2>1, <2>2
<1>7. LaidAt(u, c, 0, max, p)
  <2>1. u.trans[c].alloc = a /\ p[Len(u.queue) + 1] = e
    OBVIOUS
  <2>2. /\ s.last = Wrap(p[Len(s.queue) + 1] + a) /\ p[Len(s.queue) + 1] + a <= p[1] + max
        /\ s.trans[c].start = IF a = 0 THEN 0 ELSE Wrap(p[Len(s.queue) + 1])
    BY <1>1, <1>2 DEF LaidAt
  <2> QED BY <1>2, <1>5, <1>6, <2>2 DEF LaidAt
<1> QED BY <1>7, Zenon DEF Laid

LEMMA WriteBlockKeeps ==
  ASSUME JournalInv, WriteBlock
  PROVE  /\ JournalInv' /\ Still(j', j) /\ j'.cur = j.cur /\ HomeWrites(wq') = {}
         /\ j'.trans[j.cur].revoke = j.trans[j.cur].revoke
<1> DEFINE c == j.cur
           q == j.trans[c]
           what == Head(todo)
           data == what.kind = "data"
           blk(type, val) == Write("log", slot, [Empty EXCEPT !.type = type, !.seq = q.id, !.val = val])
           lba == IF data THEN [q.lba EXCEPT ![what.b] = slot] ELSE q.lba
           x == IF data THEN [q EXCEPT !.lba = lba] ELSE q
           one == blk("data", j.buf[what.b].val)
           des == Write("log", q.start, Descriptor(q))
           u == j'
<1>1. /\ pc = "slot" /\ Runs /\ pc' = "commit" /\ slot' = 0 /\ todo' = Tail(todo)
      /\ j' = (IF data THEN [j EXCEPT !.trans[c].lba[what.b] = slot] ELSE j)
      /\ wq' = CASE what.kind = "desc"   -> <<>>
                 [] what.kind = "revoke" -> <<blk("revoke", q.revoke)>>
                 [] what.kind = "commit" -> <<blk("commit", 0)>>
                 [] what.kind = "data"   -> <<one>> \o (IF what.b # Last(q.bufq) THEN <<>> ELSE <<des>>)
      /\ UNCHANGED <<log, ntrans>>
  BY Zenon DEF WriteBlock, device, history
<1>2. /\ Up /\ InCommit /\ Room = LogLen - 1 /\ slot # 0
  BY <1>1 DEF Up, InCommit, Room, JournalInv
<1>3. /\ Session(j, log, <<>>, ntrans, slot, LogLen - 1) /\ Committing(j, todo, slot)
      /\ Linked(j, c, {}, {}) /\ Laid(j, c, slot, LogLen - 1) /\ Shape(j) /\ Typed(j) /\ j.w = <<>>
      /\ Logged(j, log, <<>>) /\ c \in Trans /\ c \notin ToSet(j.queue) /\ ntrans \in 0 .. MaxTrans
      /\ c # 0
  <2>0. pc = "slot" /\ Runs
    BY <1>1, Zenon
  <2>1. Committing(j, todo, slot) /\ c # 0
    BY <1>2 DEF JournalInv, Committing
  <2>2. Session(j, log, <<>>, ntrans, slot, LogLen - 1) /\ Typed(j) /\ c \in Trans \cup {0}
    BY <1>2, <2>0, Begins
  <2> QED BY <2>1, <2>2 DEF Session, Linked, JournalInv
<1>s. PICK V : j \in Sessions(V)
  BY <1>3 DEF Shape
<1>4. /\ j.trans \in [Trans -> Transactions(V)] /\ q \in Transactions(V)
      /\ q.alloc \in Nat /\ q.start \in Nat /\ q.lba \in [Blocks -> Nat] /\ q.bufq \in Seq(Blocks)
  BY <1>s, <1>3, Parts
<1>5. /\ todo \in Seq(Items) /\ todo # <<>> /\ q.alloc + Len(todo) <= Len(q.bufq) + 3 + 1
      /\ \A b \in ToSet(q.bufq) : j.buf[b].owner = c /\ (q.lba[b] # 0 \/ Item("data", b) \in ToSet(todo))
      /\ \A i \in DOMAIN todo : todo[i].kind = "data" => todo[i].b \in ToSet(q.bufq) /\ (i = 1 => q.alloc > 1)
      /\ q.alloc + Len(todo) > 1 /\ q.alloc >= 1
  <2>1. Committing(j, todo, slot)
    BY <1>3
  <2> QED BY <1>2, <2>1 DEF Committing, Items
<1>6. /\ what \in Items /\ what = todo[1] /\ 1 \in DOMAIN todo /\ Len(todo) \in Nat /\ Len(todo) >= 1
      /\ Tail(todo) \in Seq(Items) /\ Len(Tail(todo)) = Len(todo) - 1
      /\ DOMAIN Tail(todo) = 1 .. Len(todo) - 1
      /\ \A i \in DOMAIN Tail(todo) : Tail(todo)[i] = todo[i + 1] /\ i + 1 \in DOMAIN todo
  BY <1>5
<1>7. data => what.b \in ToSet(q.bufq) /\ what.b \in Blocks /\ q.alloc > 1
  BY <1>4, <1>5, <1>6 DEF ToSet
<1>8. /\ slot \in 1 .. LogLen /\ (q.alloc > 1 => slot # q.start)
      /\ \A t \in Trans : \A b \in ToSet(j.trans[t].bufq) :
           j.trans[t].lba[b] # 0 => j.trans[t].lba[b] \notin {slot, q.start}
  BY <1>2, <1>3, <1>5, Untouched
<1> HIDE DEF what
<1>9. /\ lba \in [Blocks -> Nat]
      /\ \A b \in Blocks : \/ lba[b] = q.lba[b]
                           \/ lba[b] = slot /\ b = what.b /\ data
      /\ data => lba[what.b] = slot
  BY <1>4, <1>7, <1>8, JournalAssumption
<1> HIDE DEF lba
<1>10. /\ x \in Transactions(V) /\ x.lba = lba /\ x.bufq = q.bufq /\ x.data = q.data
       /\ x.written = q.written /\ x.start = q.start /\ x.alloc = q.alloc /\ x.revoke = q.revoke
  <2>1. q \in Transactions(V) /\ (~data => lba = q.lba)
    BY <1>4 DEF lba
  <2> HIDE DEF q
  <2> QED BY <1>9, <2>1 DEF Transactions
<1>11. Shape(u) /\ TransSet(u, j, c, x)
  <2>1. CASE data
    <3>1. [j EXCEPT !.trans[c].lba[what.b] = slot] = [j EXCEPT !.trans[c] = x]
      BY <1>3, <1>4, <2>1, Zenon DEF lba
    <3> QED BY <1>1, <1>3, <1>10, <2>1, <3>1, TransSetIs
  <2>2. CASE ~data
    BY <1>1, <1>3, <2>2 DEF TransSet
  <2> QED BY <2>1, <2>2
<1>12. /\ \E W : wq' \in Seq(W)
       /\ \A k \in DOMAIN wq' : wq'[k].dev = "log" /\ wq'[k].at \in {slot, q.start}
       /\ data => /\ 1 \in DOMAIN wq' /\ wq'[1].at = slot /\ wq'[1].val.val = j.buf[what.b].val
                  /\ \A k \in DOMAIN wq' : k # 1 => wq'[k].at = q.start
  <2>1. ASSUME NEW type, NEW val
        PROVE  LET w == blk(type, val) IN w.dev = "log" /\ w.at = slot /\ w.val.val = val
    BY DEF Write, Empty
  <2>2. des.dev = "log" /\ des.at = q.start
    BY DEF Write
  <2>3. one.dev = "log" /\ one.at = slot /\ one.val.val = j.buf[what.b].val
    BY DEF Write, Empty
  <2> HIDE DEF one, des, blk
  <2>4. CASE data
    <3> DEFINE S == {one, des}
               z == <<one>>
               v == IF what.b # Last(q.bufq) THEN <<>> ELSE <<des>>
    <3>1. /\ z \in Seq(S) /\ Len(z) = 1 /\ z[1] = one /\ v \in Seq(S) /\ Len(v) \in 0 .. 1
          /\ \A i \in 1 .. Len(v) : v[i] = des
      <4>1. /\ <<one>> \in Seq(S) /\ Len(<<one>>) = 1 /\ <<one>>[1] = one
        OBVIOUS
      <4>2. /\ <<des>> \in Seq(S) /\ Len(<<des>>) = 1 /\ <<des>>[1] = des
        OBVIOUS
      <4>3. <<>> \in Seq(S) /\ Len(<<>>) = 0
        OBVIOUS
      <4>4. v = <<>> \/ v = <<des>>
        OBVIOUS
      <4> HIDE DEF v, S
      <4>5. CASE v = <<>>
        BY <4>1, <4>3, <4>5
      <4>6. CASE v = <<des>>
        BY <4>1, <4>2, <4>6
      <4> QED BY <4>4, <4>5, <4>6
    <3>2. wq' = z \o v
      BY <1>1, <2>4
    <3> HIDE DEF z, v, S
    <3>3. /\ z \o v \in Seq(S) /\ Len(z \o v) = 1 + Len(v)
          /\ \A i \in 1 .. 1 + Len(v) : (z \o v)[i] = IF i <= 1 THEN z[i] ELSE v[i - 1]
      <4>1. /\ z \o v \in Seq(S) /\ Len(z \o v) = Len(z) + Len(v)
            /\ \A i \in 1 .. Len(z) + Len(v) : (z \o v)[i] = IF i <= Len(z) THEN z[i] ELSE v[i - Len(z)]
        BY <3>1, ConcatProperties, Zenon
      <4> QED BY <3>1, <4>1
    <3>4. DOMAIN (z \o v) = 1 .. 1 + Len(v)
      BY <3>1, <3>3
    <3>5. 1 \in DOMAIN (z \o v) /\ (z \o v)[1] = one
      BY <3>1, <3>3, <3>4
    <3>6. \A i \in DOMAIN (z \o v) : i = 1 \/ (z \o v)[i] = des
      BY <3>1, <3>3, <3>4
    <3>7. \A i \in DOMAIN (z \o v) : (z \o v)[i] = one \/ (z \o v)[i] = des
      BY <3>5, <3>6
    <3> QED BY <2>2, <2>3, <2>4, <3>2, <3>3, <3>5, <3>6, <3>7
  <2>5. CASE ~data
    <3>1. what.kind \in {"desc", "revoke", "commit"}
      BY <1>6, <2>5 DEF Items
    <3>2. wq' = <<>> \/ \E type, val : wq' = <<blk(type, val)>>
      BY <1>1, <3>1
    <3>3. CASE wq' = <<>>
      <4>1. wq' \in Seq({})
        BY <3>3
      <4> QED BY <2>5, <3>3, <4>1
    <3>4. CASE \E type, val : wq' = <<blk(type, val)>>
      <4>1. PICK type, val : wq' = <<blk(type, val)>>
        BY <3>4
      <4> DEFINE w == blk(type, val)
      <4>2. w.dev = "log" /\ w.at = slot
        BY <2>1
      <4> HIDE DEF w
      <4>3. wq' = <<w>>
        BY <4>1 DEF w
      <4>4. \A z : z = <<w>> => z \in Seq({w}) /\ \A k \in DOMAIN z : z[k] = w
        OBVIOUS
      <4>5. wq' \in Seq({w}) /\ \A k \in DOMAIN wq' : wq'[k] = w
        BY <4>3, <4>4
      <4> QED BY <2>5, <4>2, <4>5
    <3> QED BY <3>2, <3>3, <3>4
  <2> QED BY <2>4, <2>5
<1>13. /\ u.trans[c] = x /\ \A t \in Trans : t # c => u.trans[t] = j.trans[t]
       /\ u.rec = j.rec /\ u.queue = j.queue /\ u.dq = j.dq /\ u.buf = j.buf /\ u.start = j.start
       /\ u.last = j.last /\ u.w = <<>> /\ u.cur = c
  BY <1>3, <1>11 DEF TransSet
<1> HIDE DEF x, u, blk, one, des
<1>14. Linked(u, c, {}, {})
  BY <1>3, <1>10, <1>11, <1>13, LinkKept
<1>15. Laid(u, c, 0, LogLen - 1)
  <2>1. \A b \in Blocks : \/ u.trans[c].lba[b] = j.trans[c].lba[b]
                          \/ u.trans[c].lba[b] = slot /\ j.trans[c].alloc > 1
    BY <1>7, <1>9, <1>10, <1>13
  <2> QED BY <1>2, <1>3, <1>5, <1>10, <1>13, <2>1, PutLaid
<1>16. Logged(u, log, wq')
  <2> SUFFICES ASSUME NEW t \in Trans, NEW b \in ToSet(u.trans[t].bufq), u.trans[t].lba[b] # 0
               PROVE  Holds(log, wq', u.trans[t].lba[b], t)
    BY DEF Logged
  <2> DEFINE i == u.trans[t].lba[b]
  <2>1. CASE t = c /\ data /\ b = what.b
    <3>1. i = slot /\ j.buf[what.b].owner = c
      BY <1>5, <1>7, <1>9, <1>10, <1>13, <2>1
    <3>2. j.buf[what.b].val = c
      BY <1>3, <1>7, <2>1, <3>1 DEF Linked, BlockLinked
    <3>3. slot # q.start
      BY <1>7, <1>8, <2>1
    <3> HIDE DEF i, c
    <3> QED BY <1>8, <1>12, <2>1, <3>1, <3>2, <3>3 DEF Holds, i
  <2>2. CASE ~(t = c /\ data /\ b = what.b)
    <3>1. b \in ToSet(j.trans[t].bufq) /\ i = j.trans[t].lba[b]
      <4>1. CASE t = c
        <5>1. b \in ToSet(q.bufq)
          BY <1>10, <1>13, <4>1
        <5>2. b \in Blocks
          BY <1>4, <5>1 DEF ToSet
        <5>3. lba[b] = q.lba[b]
          BY <1>9, <2>2, <4>1, <5>2
        <5> QED BY <1>10, <1>13, <4>1, <5>1, <5>3
      <4>2. CASE t # c
        BY <1>13, <4>2
      <4> QED BY <4>1, <4>2
    <3>2. Holds(log, <<>>, i, t)
      BY <1>3, <3>1 DEF Logged
    <3>3. i \notin {slot, q.start}
      BY <1>8, <3>1
    <3> HIDE DEF i
    <3> QED BY <1>12, <3>2, <3>3 DEF Holds, i
  <2> QED BY <2>1, <2>2
<1>17. Session(u, log, wq', ntrans, 0, LogLen - 1)
  <2>1. \A b \in u.trans[c].revoke : u.buf[b].owner # c
    BY <1>3, <1>10, <1>13 DEF Session
  <2>2. ToSet(u.queue) \cup {c} \subseteq 0 .. ntrans
    BY <1>3, <1>13 DEF Session
  <2> QED BY <1>12, <1>13, <1>14, <1>15, <1>16, <2>1, <2>2 DEF Session
<1>18. Committing(u, Tail(todo), 0)
  <2>1. /\ x.alloc + Len(Tail(todo)) > 0 /\ x.alloc >= 0 /\ x.alloc > 0
        /\ x.alloc + Len(Tail(todo)) <= Len(x.bufq) + 3 + 0
    <3> DEFINE a == q.alloc
               m == Len(todo)
               k == Len(q.bufq)
    <3>1. a \in Nat /\ m \in Nat /\ a >= 1 /\ k \in Nat /\ a + m <= k + 3 + 1 /\ a + m > 1
      BY <1>4, <1>5, <1>6
    <3>2. x.alloc = a /\ Len(x.bufq) = k /\ Len(Tail(todo)) = m - 1
      BY <1>6, <1>10
    <3> HIDE DEF a, m, k
    <3>3. a + (m - 1) > 0 /\ a >= 0 /\ a > 0 /\ a + (m - 1) <= k + 3 + 0
      BY <3>1
    <3> QED BY <3>2, <3>3
  <2>2. ASSUME NEW b \in ToSet(x.bufq)
        PROVE  u.buf[b].owner = c /\ (x.lba[b] # 0 \/ Item("data", b) \in ToSet(Tail(todo)))
    <3>1. b \in ToSet(q.bufq) /\ b \in Blocks /\ u.buf[b].owner = c
      <4>1. b \in ToSet(q.bufq)
        BY <1>10
      <4>2. b \in Blocks
        BY <1>4, <4>1 DEF ToSet
      <4> QED BY <1>5, <1>13, <4>1, <4>2
    <3>2. CASE q.lba[b] # 0
      BY <1>8, <1>9, <1>10, <3>1, <3>2
    <3>3. CASE q.lba[b] = 0
      <4>1. PICK i \in DOMAIN todo : todo[i] = Item("data", b)
        BY <1>5, <3>1, <3>3 DEF ToSet
      <4>2. CASE i = 1
        <5>1. data /\ what.b = b
          BY <1>6, <4>1, <4>2 DEF Item
        <5> QED BY <1>8, <1>9, <1>10, <3>1, <5>1
      <4>3. CASE i # 1
        <5>1. i - 1 \in DOMAIN Tail(todo) /\ Tail(todo)[i - 1] = todo[i]
          BY <1>5, <1>6, <4>3
        <5> QED BY <3>1, <4>1, <5>1 DEF ToSet
      <4> QED BY <4>2, <4>3
    <3> QED BY <3>2, <3>3
  <2>3. ASSUME NEW i \in DOMAIN Tail(todo), Tail(todo)[i].kind = "data"
        PROVE  Tail(todo)[i].b \in ToSet(x.bufq)
    BY <1>5, <1>6, <1>10, <2>3
  <2> HIDE DEF c, q
  <2> QED BY <1>3, <1>6, <1>13, <2>1, <2>2, <2>3 DEF Committing, Items
<1>19. Up' /\ Room' = LogLen - 1 /\ InCommit'
  <2>1. pc' = "commit"
    BY <1>1, Zenon
  <2> QED BY <2>1 DEF Up, Room, InCommit
<1>20. /\ pc' = "commit" /\ slot' = 0 /\ todo' = Tail(todo) /\ log' = log /\ ntrans' = ntrans
  BY <1>1, Zenon
<1>21. JournalInv'
  BY <1>3, <1>17, <1>18, <1>19, <1>20 DEF JournalInv, u
<1>22. HomeWrites(wq') = {}
  BY <1>12 DEF HomeWrites
<1>23. Still(u, j) /\ u.cur = c /\ u.trans[c].revoke = q.revoke
  BY <1>10, <1>13 DEF Still
<1> QED BY <1>21, <1>22, <1>23 DEF u

\* The transaction joins the queue: its blocks of the log follow those of the others.
LEMMA QueuedLaid ==
  ASSUME NEW s, NEW c \in Trans, Shape(s), c \notin ToSet(s.queue), NEW max, Laid(s, c, 0, max),
         s.trans[c].alloc > 0, \A b \in ToSet(s.trans[c].bufq) : s.trans[c].lba[b] # 0,
         NEW u, u.queue = Append(s.queue, c), u.start = s.start, u.last = s.last, u.trans = s.trans
  PROVE  Laid(u, 0, 0, max)
<1> DEFINE m == Len(s.queue)
           n == m + 1
           a == s.trans[c].alloc
<1>1. PICK p : LaidAt(s, c, 0, max, p)
  BY DEF Laid
<1>2. /\ a \in Nat /\ n \in Nat \ {0} /\ n \in 1 .. n /\ 1 \in 1 .. n /\ m \in Nat
      /\ s.queue \in Seq(Trans) /\ c # 0 /\ a > 0 /\ s.trans[c].bufq \in Seq(Blocks)
  <2>1. Typed(s)
    BY ShapeTyped DEF Linked
  <2>2. s.queue \in Seq(Trans) /\ s.trans[c].alloc \in Nat /\ s.trans[c].bufq \in Seq(Blocks)
    BY <2>1 DEF Typed
  <2> QED BY <2>2, JournalAssumption DEF Trans
<1> DEFINE e == p[n]
           r == [i \in 1 .. n + 1 |-> IF i = n + 1 THEN e + a ELSE p[i]]
<1>3. /\ Positions(s, p) /\ p \in [1 .. n -> Nat \ {0}] /\ s.last = Wrap(e + a) /\ e + a <= p[1] + max
      /\ s.trans[c].start = (IF a = 0 THEN 0 ELSE Wrap(e))
      /\ \A b \in Blocks : s.trans[c].lba[b] # 0 =>
           \E x \in e + 1 .. (e + a) - (1 + 0) : s.trans[c].lba[b] = Wrap(x)
  BY <1>1, <1>2 DEF LaidAt, Positions
<1>4. /\ e \in Nat \ {0} /\ e + a \in Nat \ {0}
      /\ s.start = Wrap(p[1]) /\ \A i, k \in 1 .. n : i <= k => p[i] <= p[k]
  BY <1>2, <1>3 DEF Positions
<1>5. /\ Len(u.queue) = n /\ u.queue[n] = c /\ \A i \in 1 .. m : u.queue[i] = s.queue[i]
  BY <1>2
<1>6. /\ r \in [1 .. n + 1 -> Nat \ {0}] /\ r[n + 1] = e + a /\ r[n] = e /\ r[1] = p[1]
      /\ \A i \in 1 .. n : r[i] = p[i]
  <2> HIDE DEF e, a, n
  <2>1. n + 1 # n /\ n + 1 # 1 /\ \A i \in 1 .. n : i # n + 1 /\ i \in 1 .. n + 1
    BY <1>2
  <2>2. \A i \in 1 .. n + 1 : i # n + 1 => i \in 1 .. n
    BY <1>2
  <2>3. n + 1 \in 1 .. n + 1
    BY <1>2
  <2>4. \A i \in 1 .. n : r[i] = p[i]
    BY <2>1
  <2>5. r[n + 1] = e + a
    BY <2>3
  <2>6. r \in [1 .. n + 1 -> Nat \ {0}]
    BY <1>3, <1>4, <2>2
  <2> QED BY <1>2, <2>4, <2>5, <2>6 DEF e
<1> HIDE DEF r
<1>7. Positions(u, r)
  <2>1. \A i, k \in 1 .. n + 1 : i <= k => r[i] <= r[k]
    <3> SUFFICES ASSUME NEW i \in 1 .. n + 1, NEW k \in 1 .. n + 1, i <= k PROVE r[i] <= r[k]
      OBVIOUS
    <3> HIDE DEF e, a, n
    <3>1. CASE k # n + 1
      <4>1. i \in 1 .. n /\ k \in 1 .. n
        BY <1>2, <3>1
      <4> QED BY <1>4, <1>6, <4>1
    <3>2. CASE k = n + 1 /\ i = n + 1
      BY <1>2, <1>4, <1>6, <3>2
    <3>3. CASE k = n + 1 /\ i # n + 1
      <4>1. i \in 1 .. n /\ n \in 1 .. n /\ i <= n
        BY <1>2, <3>3
      <4>2. p[i] <= e /\ p[i] \in Nat
        BY <1>3, <1>4, <4>1 DEF e
      <4>3. r[i] = p[i] /\ r[k] = e + a
        BY <1>6, <3>3, <4>1
      <4> QED BY <1>2, <1>4, <4>2, <4>3
    <3> QED BY <3>1, <3>2, <3>3
  <2>2. ASSUME NEW i \in 1 .. Len(u.queue)
        PROVE  LET q == u.trans[u.queue[i]]
               IN  /\ q.start = Wrap(r[i]) /\ r[i + 1] = r[i] + q.alloc
                   /\ \A b \in ToSet(q.bufq) : \E x \in r[i] .. r[i + 1] - 1 : q.lba[b] = Wrap(x)
    <3>1. CASE i # n
      <4>1. i \in 1 .. m /\ i \in 1 .. n /\ i + 1 \in 1 .. n
        BY <1>2, <1>5, <3>1
      <4> DEFINE x == s.queue[i]
      <4>2. u.queue[i] = x /\ r[i] = p[i] /\ r[i + 1] = p[i + 1] /\ u.trans[x] = s.trans[x]
        BY <1>5, <1>6, <4>1
      <4>3. LET q == s.trans[x]
            IN  /\ q.start = Wrap(p[i]) /\ p[i + 1] = p[i] + q.alloc
                /\ \A b \in ToSet(q.bufq) : \E y \in p[i] .. p[i + 1] - 1 : q.lba[b] = Wrap(y)
        BY <1>3, <4>1, Zenon DEF Positions
      <4> HIDE DEF x
      <4> QED BY <4>2, <4>3, ZenonT(60)
    <3>2. CASE i = n
      <4>1. u.queue[i] = c /\ r[i] = e /\ r[i + 1] = e + a /\ u.trans[c] = s.trans[c]
        BY <1>5, <1>6, <3>2
      <4>2. s.trans[c].start = Wrap(e)
        BY <1>2, <1>3
      <4>3. ASSUME NEW b \in ToSet(s.trans[c].bufq)
            PROVE  \E x \in e .. (e + a) - 1 : s.trans[c].lba[b] = Wrap(x)
        <5>1. b \in Blocks /\ s.trans[c].lba[b] # 0
          BY <1>2 DEF ToSet
        <5>2. PICK x \in e + 1 .. (e + a) - (1 + 0) : s.trans[c].lba[b] = Wrap(x)
          BY <1>3, <5>1
        <5> HIDE DEF e, a
        <5>3. x \in e .. (e + a) - 1
          BY <1>2, <1>4
        <5> QED BY <5>2, <5>3
      <4> QED BY <4>1, <4>2, <4>3
    <3> QED BY <3>1, <3>2
  <2> QED BY <1>4, <1>5, <1>6, <2>1, <2>2 DEF Positions
<1>8. LaidAt(u, 0, 0, max, r)
  <2>1. (e + a) + 0 = e + a
    BY <1>2, <1>4
  <2>2. r[Len(u.queue) + 1] = e + a
    BY <1>5, <1>6
  <2>3. u.last = Wrap(r[Len(u.queue) + 1] + 0) /\ r[Len(u.queue) + 1] + 0 <= r[1] + max
    BY <1>3, <1>6, <2>1, <2>2
  <2> HIDE DEF n, a, e
  <2> QED BY <1>7, <2>3 DEF LaidAt
<1> QED BY <1>8 DEF Laid

LEMMA QueuedKeeps ==
  ASSUME NEW s, NEW c \in Trans, Linked(s, c, {}, {}), NEW max, Laid(s, c, 0, max),
         s.trans[c].alloc > 0, \A b \in ToSet(s.trans[c].bufq) : s.trans[c].lba[b] # 0,
         NEW u, Shape(u), u.queue = Append(s.queue, c), u.start = s.start, u.last = s.last, u.trans = s.trans,
         u.rec = s.rec, u.dq = s.dq, u.buf = s.buf
  PROVE  Linked(u, 0, {}, {}) /\ Laid(u, 0, 0, max)
<1>1. Shape(s) /\ c \notin ToSet(s.queue) /\ IsInjective(s.queue) /\ s.queue \in Seq(Trans)
      /\ c # 0 /\ 0 \notin Trans
  <2>1. Shape(s)
    BY DEF Linked
  <2> QED BY <2>1, ShapeTyped, JournalAssumption DEF Linked, Typed, Trans
<1>2. IsInjective(u.queue) /\ ToSet(u.queue) = ToSet(s.queue) \cup {c} /\ u.queue \in Seq(Trans)
  BY <1>1, LastFacts
<1>3. 0 \notin ToSet(u.queue)
  BY <1>1, <1>2 DEF ToSet
<1>4. ASSUME NEW t \in Trans PROVE TransLinked(u, 0, {}, t)
  <2>1. TransLinked(s, c, {}, t)
    BY DEF Linked
  <2> QED BY <1>2, <2>1 DEF TransLinked
<1>5. ASSUME NEW b \in Blocks PROVE BlockLinked(u, 0, {}, {}, b)
  <2>1. BlockLinked(s, c, {}, {}, b)
    BY DEF Linked
  <2> QED BY <2>1 DEF BlockLinked
<1>6. Linked(u, 0, {}, {})
  BY <1>2, <1>3, <1>4, <1>5 DEF Linked
<1>7. Laid(u, 0, 0, max)
  BY <1>1, QueuedLaid
<1> QED BY <1>6, <1>7

\* The running transaction of the session s has been committed.
LEMMA EndSession ==
  ASSUME NEW s, NEW l, NEW n, NEW at, NEW m, Session(s, l, <<>>, n, at, m), 0 \in 0 .. n,
         NEW max, NEW u, Linked(u, 0, {}, {}), Laid(u, 0, 0, max), Quiet(u), u.cur = 0,
         ToSet(u.queue) \subseteq ToSet(s.queue) \cup {s.cur},
         \A t \in Trans : \A b \in ToSet(u.trans[t].bufq) :
           b \in ToSet(s.trans[t].bufq) /\ u.trans[t].lba = s.trans[t].lba
  PROVE  LET v == [u EXCEPT !.w = <<>>] IN Session(v, l, u.w, n, 0, max) /\ Idle(v, 0)
<1> DEFINE v == [u EXCEPT !.w = <<>>]
<1>1. Shape(u)
  BY DEF Linked
<1>2. Shape(v) /\ Same(v, u) /\ v.w = <<>>
  <2>1. <<>> \in Seq({})
    OBVIOUS
  <2> QED BY <1>1, <2>1, WritesIs
<1> HIDE DEF v
<1>3. Linked(v, 0, {}, {}) /\ Laid(v, 0, 0, max)
  BY <1>2, SameKeeps
<1>4. v.cur = 0 /\ v.queue = u.queue /\ v.trans = u.trans
  BY <1>2 DEF Same
<1>5. Logged(v, l, u.w)
  <2> SUFFICES ASSUME NEW t \in Trans, NEW b \in ToSet(v.trans[t].bufq), v.trans[t].lba[b] # 0
               PROVE  Holds(l, u.w, v.trans[t].lba[b], t)
    BY DEF Logged
  <2> DEFINE i == v.trans[t].lba[b]
  <2>1. Holds(l, <<>>, i, t)
    BY <1>4 DEF Session, Logged
  <2> HIDE DEF i
  <2>2. i \in 1 .. LogLen /\ l[i].val = t
    BY <2>1 DEF Holds
  <2> QED BY <2>2 DEF Holds, Quiet, i
<1>6. \E V : u.w \in Seq(V)
  BY <1>1, Parts DEF Shape
<1>7. ToSet(v.queue) \cup {v.cur} \subseteq 0 .. n
  BY <1>4 DEF Session
<1> QED BY <1>2, <1>3, <1>4, <1>5, <1>6, <1>7 DEF Session, Idle, v

\* The first transaction of an empty queue starts where the log does.
LEMMA FirstStart ==
  ASSUME NEW s, Shape(s), NEW c \in Trans, NEW at, NEW max, Laid(s, c, at, max), s.queue = <<>>,
         s.trans[c].alloc > 0
  PROVE  s.trans[c].start = s.start
<1>1. PICK p : LaidAt(s, c, at, max, p)
  BY DEF Laid
<1>2. Len(s.queue) + 1 = 1 /\ c # 0 /\ s.trans[c].alloc # 0
  <2>1. s.trans[c].alloc \in Nat
    BY ShapeTyped DEF Typed
  <2> QED BY <2>1, JournalAssumption DEF Trans
<1>3. s.trans[c].start = Wrap(p[1])
  BY <1>1, <1>2 DEF LaidAt
<1> QED BY <1>1, <1>3 DEF LaidAt, Positions

\* The committed transaction is put into the queue.
Enqueued(u, s, c) ==
  /\ u.queue = Append(s.queue, c) /\ u.start = s.start /\ u.last = s.last /\ u.trans = s.trans
  /\ u.rec = s.rec /\ u.dq = s.dq /\ u.buf = s.buf /\ u.cur = s.cur /\ u.w = s.w

LEMMA JoinIs ==
  ASSUME NEW s, Shape(s), NEW c \in Trans, NEW z, z = Append(s.queue, c)
  PROVE  LET u == [s EXCEPT !.queue = z] IN Shape(u) /\ Enqueued(u, s, c)
<1>1. PICK V : s \in Sessions(V)
  BY DEF Shape
<1>2. z \in Seq(Trans)
  BY <1>1, Parts
<1> DEFINE u == [s EXCEPT !.queue = z]
<1>3. /\ u \in Sessions(V) /\ u.queue = z /\ u.start = s.start /\ u.last = s.last /\ u.trans = s.trans
      /\ u.rec = s.rec /\ u.dq = s.dq /\ u.buf = s.buf /\ u.cur = s.cur /\ u.w = s.w
  BY <1>1, <1>2 DEF Sessions
<1> HIDE DEF u
<1>4. Shape(u) /\ Enqueued(u, s, c)
  BY <1>3 DEF Shape, Enqueued
<1> QED BY <1>4 DEF u

LEMMA JoinFirstIs ==
  ASSUME NEW s, Shape(s), NEW c \in Trans, NEW x, x = s.start, NEW y, NEW z, z = Append(s.queue, c)
  PROVE  LET u == [s EXCEPT !.start = x, !.tid = y, !.queue = z] IN Shape(u) /\ Enqueued(u, s, c)
<1>1. PICK V : s \in Sessions(V)
  BY DEF Shape
<1>2. s \in Sessions(V \cup {y}) /\ s.queue \in Seq(Trans)
  BY <1>1, SessionsGrow, Parts
<1>3. z \in Seq(Trans)
  BY <1>2
<1> DEFINE v == [s EXCEPT !.start = x, !.tid = y, !.queue = z]
<1>4. /\ v \in Sessions(V \cup {y}) /\ v.queue = z /\ v.start = x /\ v.last = s.last /\ v.trans = s.trans
      /\ v.rec = s.rec /\ v.dq = s.dq /\ v.buf = s.buf /\ v.cur = s.cur /\ v.w = s.w
  BY <1>2, <1>3 DEF Sessions
<1> HIDE DEF v
<1>5. Shape(v) /\ Enqueued(v, s, c)
  BY <1>4 DEF Shape, Enqueued
<1> QED BY <1>5 DEF v

\* The transactions are numbered in the order in which they were started.
Orderly(s) ==
  /\ \A b \in Blocks : Ranked(s, b)
  /\ Sorted(s.queue) /\ \A t \in ToSet(s.queue) : t < s.cur

\* What the end of a commit makes of the blocks, and the writes q it queues.
Concluded(u, s, q) ==
  /\ Sorted(u.queue) /\ HomeWrites(q) = {}
  /\ \A b \in Blocks :
       /\ IF b \in s.trans[s.cur].revoke /\ s.dq[b] # <<>> THEN u.dq[b] = <<>> /\ u.buf[b] = NoBuf
          ELSE u.dq[b] = s.dq[b] /\ u.buf[b] = s.buf[b]
       /\ u.rec[b] \in {0, s.rec[b]}

LEMMA CommitEndKeeps ==
  ASSUME JournalInv, CommitEnd
  PROVE  /\ JournalInv' /\ j'.cur = 0 /\ \A b \in ToSet(j.trans[j.cur].bufq) : j.buf[b].owner = j.cur
         /\ Orderly(j) => Concluded(j', j, wq')
<1> DEFINE c == j.cur
           q == j.trans[c]
           r == SetToSeq(q.revoke)
           s0 == [j EXCEPT !.atid = @ + 1, !.cur = 0]
           s == Revoking(s0, r)[Len(r)]
           uA == [s EXCEPT !.queue = Append(@, c)]
           vB == [s EXCEPT !.start = s.trans[c].start, !.tid = s.trans[c].id, !.queue = <<c>>]
           vC == [s EXCEPT !.queue = <<c>>]
           m == LogLen - 1
           Rest(u) == /\ u.dq = s.dq /\ u.buf = s.buf /\ HomeWrites(u.w) = HomeWrites(s.w)
                      /\ \A b \in Blocks : u.rec[b] \in {0, s.rec[b]}
                      /\ Sorted(Append(s.queue, c)) => Sorted(u.queue)
<1>1. /\ pc = "commit" /\ Runs /\ todo = <<>> /\ pc' = "up"
      /\ Becomes(CASE s.queue # <<>> -> uA
                   [] s.queue = <<>> /\ s.trans[c].data > 0 -> SyncSb(vB)
                   [] OTHER -> PopHead(vC))
      /\ UNCHANGED <<log, todo, slot, ntrans>>
  BY Zenon DEF CommitEnd, device
<1>2. pc = "commit" /\ Runs /\ todo = <<>>
  BY <1>1, Zenon
<1>a. Up /\ InCommit /\ Room = m /\ slot = 0 /\ m \in Nat
  BY <1>2, JournalAssumption DEF Up, InCommit, Room, JournalInv
<1>3. /\ Session(j, log, <<>>, ntrans, 0, m) /\ Committing(j, <<>>, 0)
      /\ Linked(j, c, {}, {}) /\ Laid(j, c, 0, m) /\ Shape(j) /\ Typed(j) /\ j.w = <<>>
      /\ c \in Trans /\ c \notin ToSet(j.queue) /\ ntrans \in 0 .. MaxTrans /\ c # 0
  <2>1. Committing(j, <<>>, 0) /\ c # 0
    BY <1>2, <1>a DEF JournalInv, Committing
  <2>2. Session(j, log, <<>>, ntrans, 0, m) /\ Typed(j) /\ c \in Trans \cup {0}
    BY <1>2, <1>a, Begins
  <2> QED BY <2>1, <2>2 DEF Session, Linked, JournalInv
<1> HIDE DEF m
<1>4. /\ Shape(s0) /\ s0.cur = 0 /\ s0.trans = j.trans /\ s0.rec = j.rec /\ s0.queue = j.queue
      /\ s0.dq = j.dq /\ s0.buf = j.buf /\ s0.start = j.start /\ s0.last = j.last /\ s0.w = <<>>
  <2>1. PICK W : j \in Sessions(W)
    BY <1>3 DEF Shape
  <2> DEFINE V == W \cup {j.atid + 1}
  <2>2. j \in Sessions(V)
    BY <2>1, SessionsGrow
  <2>3. j.atid + 1 \in V
    OBVIOUS
  <2> HIDE DEF V
  <2>4. s0 \in Sessions(V)
    BY <2>2, <2>3 DEF Sessions
  <2> QED BY <1>3, <2>2, <2>4 DEF Shape, Sessions
<1> HIDE DEF s0
<1>5. Linked(s0, c, {}, {})
  BY <1>3, <1>4, LinkKept
<1>6. Laid(s0, c, 0, m)
  BY <1>3, <1>4, RunLaid
<1>7. /\ q.alloc > 0
      /\ \A b \in ToSet(q.bufq) : j.buf[b].owner = c /\ q.lba[b] # 0
  <2>1. ToSet(<<>>) = {} /\ Len(<<>>) = 0
    BY DEF ToSet
  <2>2. q.alloc \in Nat
    BY <1>3 DEF Typed
  <2> QED BY <1>3, <2>1, <2>2 DEF Committing
<1>8. r \in Seq(Blocks) /\ (\A i \in DOMAIN r : r[i] \notin ToSet(q.bufq)) /\ ToSet(r) = q.revoke
  <2>1. q.revoke \subseteq Blocks /\ IsFiniteSet(q.revoke)
    BY <1>3, JournalAssumption, FS_Subset DEF Typed
  <2>2. r \in Seq(q.revoke) /\ ToSet(r) = q.revoke
    BY <2>1, SetSeq
  <2>3. \A b \in q.revoke : b \notin ToSet(q.bufq)
    BY <1>3, <1>7 DEF Session
  <2> HIDE DEF r
  <2> QED BY <2>1, <2>2, <2>3
<1> HIDE DEF r
<1>9. /\ Down(s, s0, c, 0, m)
      /\ (\A b \in Blocks : Ranked(s0, b)) => Discarded(s, s0, ToSet(r))
  <2>1. \A i \in DOMAIN r : r[i] \notin ToSet(s0.trans[c].bufq)
    BY <1>4, <1>8
  <2> QED BY <1>3, <1>5, <1>6, <1>8, <1>a, <2>1, RevokingKeeps
<1> HIDE DEF s
<1>10. /\ Linked(s, c, {}, {}) /\ Laid(s, c, 0, m) /\ Shape(s) /\ s.cur = 0 /\ s.trans[c] = q
       /\ ToSet(s.queue) \subseteq ToSet(j.queue) /\ Quiet(s) /\ s.queue \in Seq(Trans)
       /\ \A t \in Trans : \A b \in ToSet(s.trans[t].bufq) :
            b \in ToSet(j.trans[t].bufq) /\ s.trans[t].lba = j.trans[t].lba
  <2>1. Linked(s, c, {}, {}) /\ Laid(s, c, 0, m) /\ Less(s, s0, c) /\ Shape(s)
    BY <1>9 DEF Down, Linked
  <2>2. Quiet(s0)
    BY <1>4 DEF Quiet
  <2>3. s.queue \in Seq(Trans)
    BY <2>1, ShapeTyped DEF Typed
  <2> QED BY <1>3, <1>4, <2>1, <2>2, <2>3 DEF Less
<1>11. ASSUME NEW v, Shape(v), Enqueued(v, s, c)
       PROVE  /\ Linked(v, 0, {}, {}) /\ Laid(v, 0, 0, m) /\ v.cur = 0 /\ Quiet(v)
              /\ ToSet(v.queue) \subseteq ToSet(j.queue) \cup {c} /\ v.trans = s.trans
              /\ Rest(v)
  <2>1. /\ v.queue = Append(s.queue, c) /\ v.start = s.start /\ v.last = s.last /\ v.trans = s.trans
        /\ v.rec = s.rec /\ v.dq = s.dq /\ v.buf = s.buf /\ v.cur = 0 /\ v.w = s.w
    BY <1>10, <1>11 DEF Enqueued
  <2>2. Linked(v, 0, {}, {}) /\ Laid(v, 0, 0, m)
    BY <1>3, <1>7, <1>10, <1>11, <2>1, QueuedKeeps
  <2>3. c \notin ToSet(s.queue) /\ IsInjective(s.queue)
    BY <1>10 DEF Linked
  <2>4. ToSet(v.queue) = ToSet(s.queue) \cup {c}
    BY <1>3, <1>10, <2>1, <2>3, LastFacts
  <2>5. Rest(v)
    BY <2>1
  <2> QED BY <1>10, <2>1, <2>2, <2>4, <2>5 DEF Quiet
<1>12. ASSUME NEW u, Becomes(u), Linked(u, 0, {}, {}), Laid(u, 0, 0, m), u.cur = 0, Quiet(u),
              ToSet(u.queue) \subseteq ToSet(j.queue) \cup {c},
              \A t \in Trans : \A b \in ToSet(u.trans[t].bufq) :
                b \in ToSet(s.trans[t].bufq) /\ u.trans[t].lba = s.trans[t].lba,
              Rest(u)
       PROVE  JournalInv' /\ j'.cur = 0 /\ (Orderly(j) => Concluded(j', j, wq'))
  <2>1. j' = [u EXCEPT !.w = <<>>] /\ wq' = u.w
    BY <1>12 DEF Becomes
  <2>2. \A t \in Trans : \A b \in ToSet(u.trans[t].bufq) :
          b \in ToSet(j.trans[t].bufq) /\ u.trans[t].lba = j.trans[t].lba
    BY <1>10, <1>12
  <2>3. 0 \in 0 .. ntrans
    BY <1>3
  <2>4. Session(j', log, wq', ntrans, 0, m) /\ Idle(j', 0)
    BY <1>3, <1>12, <2>1, <2>2, <2>3, EndSession
  <2>5. pc' = "up" /\ log' = log /\ slot' = slot /\ ntrans' = ntrans
    BY <1>1, Zenon
  <2>6. JournalInv'
    BY <1>3, <1>a, <2>4, <2>5 DEF JournalInv, Up, InCommit, Room, m
  <2>7. /\ j'.cur = u.cur /\ j'.dq = u.dq /\ j'.buf = u.buf /\ j'.rec = u.rec /\ j'.queue = u.queue
    <3>1. Shape(u)
      BY <1>12 DEF Linked
    <3> DEFINE v == [u EXCEPT !.w = <<>>]
    <3>2. <<>> \in Seq({})
      OBVIOUS
    <3>3. Same(v, u) /\ v.cur = u.cur
      BY <3>1, <3>2, WritesIs DEF Same
    <3>4. j' = v
      BY <2>1
    <3> HIDE DEF v
    <3> QED BY <3>3, <3>4 DEF Same
  <2>8. ASSUME Orderly(j) PROVE Concluded(j', j, wq')
    <3>1. Discarded(s, s0, q.revoke)
      BY <1>4, <1>8, <1>9, <2>8 DEF Orderly, Ranked
    <3>2. /\ HomeWrites(s.w) = {} /\ Sorted(s.queue) /\ \A b \in Blocks : s.rec[b] \in {0, j.rec[b]}
          /\ \A b \in Blocks : IF b \in q.revoke /\ j.dq[b] # <<>> THEN s.dq[b] = <<>> /\ s.buf[b] = NoBuf
                               ELSE s.dq[b] = j.dq[b] /\ s.buf[b] = j.buf[b]
      <4>1. HomeWrites(<<>>) = {}
        BY DEF HomeWrites
      <4> QED BY <1>4, <2>8, <3>1, <4>1 DEF Discarded, Calm, Orderly
    <3>3. Sorted(Append(s.queue, c))
      <4>1. Trans \subseteq Int
        BY JournalAssumption DEF Trans
      <4>2. s.queue \in Seq(Int) /\ c \in Int
        <5>1. \A z \in Seq(Trans) : z \in Seq(Int)
          BY TransInt
        <5>2. s.queue \in Seq(Trans) /\ c \in Trans
          BY <1>3, <1>10
        <5> HIDE DEF c
        <5> QED BY <4>1, <5>1, <5>2
      <4>3. \A t \in ToSet(s.queue) : t < c
        BY <1>10, <2>8 DEF Orderly
      <4> QED BY <3>2, <4>2, <4>3, AppendSorted
    <3>4. Sorted(j'.queue) /\ HomeWrites(wq') = {}
      BY <1>12, <2>1, <2>7, <3>2, <3>3
    <3>5. ASSUME NEW b \in Blocks
          PROVE  /\ IF b \in q.revoke /\ j.dq[b] # <<>> THEN j'.dq[b] = <<>> /\ j'.buf[b] = NoBuf
                    ELSE j'.dq[b] = j.dq[b] /\ j'.buf[b] = j.buf[b]
                 /\ j'.rec[b] \in {0, j.rec[b]}
      BY <1>12, <2>7, <3>2
    <3> QED BY <3>4, <3>5 DEF Concluded
  <2> QED BY <1>12, <2>6, <2>7, <2>8
<1> DEFINE Goal == JournalInv' /\ j'.cur = 0 /\ (Orderly(j) => Concluded(j', j, wq'))
<1>13. ASSUME s.queue # <<>> PROVE Goal
  <2>1. Becomes(uA)
    BY <1>1, <1>13, Zenon
  <2> DEFINE z == Append(s.queue, c)
  <2>2. uA = [s EXCEPT !.queue = z]
    BY Zenon
  <2>3. Shape(uA) /\ Enqueued(uA, s, c)
    BY <1>3, <1>10, <2>2, JoinIs
  <2> HIDE DEF uA, z
  <2> QED BY <1>11, <1>12, <2>1, <2>3
<1>14. ASSUME s.queue = <<>> PROVE Goal
  <2>1. <<c>> = Append(s.queue, c)
    BY <1>3, <1>14
  <2>2. s.trans[c].start = s.start
    <3>1. s.trans[c].alloc > 0
      BY <1>7, <1>10
    <3> QED BY <1>3, <1>10, <1>14, <3>1, FirstStart
  <2>3. CASE s.trans[c].data > 0
    <3>1. Becomes(SyncSb(vB))
      BY <1>1, <1>14, <2>3, Zenon
    <3> DEFINE x == s.trans[c].start
               y == s.trans[c].id
               z == <<c>>
    <3>a. vB = [s EXCEPT !.start = x, !.tid = y, !.queue = z]
      BY Zenon
    <3>b. x = s.start /\ z = Append(s.queue, c)
      BY <2>1, <2>2
    <3> HIDE DEF vB, x, y, z
    <3>2. Shape(vB) /\ Enqueued(vB, s, c)
      <4> DEFINE v == [s EXCEPT !.start = x, !.tid = y, !.queue = z]
      <4>1. Shape(s) /\ c \in Trans
        BY <1>3, <1>10
      <4> HIDE DEF c
      <4>2. Shape(v) /\ Enqueued(v, s, c)
        BY <3>b, <4>1, JoinFirstIs, Zenon
      <4> HIDE DEF v
      <4>3. vB = v
        BY <3>a DEF v
      <4> QED BY <4>2, <4>3
    <3>3. /\ Linked(vB, 0, {}, {}) /\ Laid(vB, 0, 0, m) /\ vB.cur = 0 /\ Quiet(vB)
          /\ ToSet(vB.queue) \subseteq ToSet(j.queue) \cup {c} /\ vB.trans = s.trans
          /\ Rest(vB)
      BY <1>11, <3>2
    <3> DEFINE u == SyncSb(vB)
    <3>4. Shape(u) /\ Same(u, vB) /\ Quiet(u) /\ HomeWrites(u.w) = HomeWrites(vB.w)
      BY <3>2, <3>3, SyncIs
    <3> HIDE DEF u
    <3>5. Linked(u, 0, {}, {}) /\ Laid(u, 0, 0, m)
      BY <3>3, <3>4, SameKeeps
    <3>6. u.cur = 0 /\ u.queue = vB.queue /\ u.trans = s.trans /\ Rest(u)
      BY <3>3, <3>4 DEF Same
    <3>7. Becomes(u)
      BY <3>1 DEF u
    <3> QED BY <1>12, <3>3, <3>4, <3>5, <3>6, <3>7
  <2>4. CASE ~(s.trans[c].data > 0)
    <3>1. Becomes(PopHead(vC))
      BY <1>1, <1>14, <2>4, Zenon
    <3>2. Shape(vC) /\ Enqueued(vC, s, c)
      BY <1>3, <1>10, <2>1, JoinIs
    <3> HIDE DEF vC
    <3>3. /\ Linked(vC, 0, {}, {}) /\ Laid(vC, 0, 0, m) /\ vC.cur = 0 /\ Quiet(vC)
          /\ ToSet(vC.queue) \subseteq ToSet(j.queue) \cup {c} /\ vC.trans = s.trans
          /\ Rest(vC)
      BY <1>11, <3>2
    <3>4. vC.queue = <<c>> /\ vC.queue # <<>> /\ vC.queue[1] = c
      <4>1. vC.queue = <<c>>
        BY <2>1, <3>2 DEF Enqueued
      <4> QED BY <4>1
    <3>5. Done(vC, c)
      <4> DEFINE d == s.trans[c].data
                 w == s.trans[c].written
                 k == Len(s.trans[c].bufq)
      <4>1. d \in Nat /\ w \in Nat /\ k \in Nat /\ ~(d > 0)
        <5>1. d \in Nat /\ w \in Nat /\ s.trans[c].bufq \in Seq(Blocks)
          BY <1>3, <1>10, ShapeTyped DEF Typed
        <5>2. k \in Nat
          <6>1. \A z \in Seq(Blocks) : Len(z) \in Nat
            OBVIOUS
          <6> QED BY <5>1, <6>1
        <5> HIDE DEF k
        <5> QED BY <2>4, <5>1, <5>2
      <4>2. d = w + k + 0
        BY <1>3, <1>10 DEF Linked, TransLinked
      <4>3. vC.trans[c].data = d /\ vC.trans[c].written = w
        BY <3>3
      <4> HIDE DEF d, w, k
      <4>4. d = w
        BY <4>1, <4>2
      <4> QED BY <4>3, <4>4 DEF Done
    <3> DEFINE u == PopHead(vC)
    <3>6. Down(u, vC, 0, 0, m) /\ Calm(u, vC) /\ u.dq = vC.dq /\ u.buf = vC.buf
      BY <1>a, <3>3, <3>4, <3>5, PopHeadKeeps
    <3> HIDE DEF u
    <3>7. /\ Linked(u, 0, {}, {}) /\ Laid(u, 0, 0, m) /\ u.cur = 0 /\ Quiet(u)
          /\ ToSet(u.queue) \subseteq ToSet(vC.queue)
          /\ \A t \in Trans : \A b \in ToSet(u.trans[t].bufq) :
               b \in ToSet(vC.trans[t].bufq) /\ u.trans[t].lba = vC.trans[t].lba
          /\ Rest(u)
      <4>1. Rest(u)
        <5>1. \A b \in Blocks : u.rec[b] \in {0, s.rec[b]}
          BY <3>3, <3>6 DEF Calm
        <5>2. vC.queue = Append(s.queue, c)
          BY <3>2 DEF Enqueued
        <5> QED BY <3>3, <3>6, <5>1, <5>2 DEF Calm
      <4> QED BY <3>3, <3>6, <4>1 DEF Down, Less
    <3>8. Becomes(u)
      BY <3>1 DEF u
    <3> QED BY <1>12, <3>3, <3>7, <3>8
  <2> QED BY <2>3, <2>4
<1> QED BY <1>7, <1>13, <1>14

LEMMA JournalStarts ==
  ASSUME JournalInit
  PROVE  JournalInv
<1>1. /\ log = [i \in 1 .. LogLen |-> Empty] /\ j = NoSession /\ pc = "mounted" /\ slot = 0 /\ ntrans = 0
  BY DEF JournalInit
<1>2. log = [i \in 1 .. LogLen |-> log[i]]
  BY <1>1
<1>3. ntrans \in 0 .. MaxTrans
  BY <1>1, JournalAssumption
<1> QED BY <1>1, <1>2, <1>3 DEF JournalInv, Up, InCommit

LEMMA JournalSteps ==
  ASSUME JournalInv, [JournalNext]_journalVars
  PROVE  JournalInv'
<1>1. CASE Persist
  BY <1>1, PersistKeeps
<1>2. CASE Crash
  BY <1>2, CrashKeeps
<1>3. CASE Recover
  BY <1>3, RecoverKeeps
<1>4. CASE Start
  BY <1>4, StartKeeps
<1>5. CASE NewTrans
  BY <1>5, NewTransKeeps
<1>6. CASE Abort
  BY <1>6, AbortKeeps
<1>7. CASE CommitBegin
  BY <1>7, CommitBeginKeeps
<1>8. CASE AllocBlock
  BY <1>8, AllocBlockKeeps
<1>9. CASE RoomFlush
  BY <1>9, RoomFlushKeeps
<1>10. CASE RoomEnd
  BY <1>10, RoomEndKeeps
<1>11. CASE WriteBlock
  BY <1>11, WriteBlockKeeps
<1>12. CASE CommitEnd
  BY <1>12, CommitEndKeeps
<1>13. CASE StopFlush
  BY <1>13, StopFlushKeeps
<1>14. CASE StopEnd
  BY <1>14, StopEndKeeps
<1>15. CASE \E b \in Blocks : Flush(b)
  BY <1>15, FlushKeeps
<1>16. CASE \E b \in Blocks : SetBlockDirty(b)
  BY <1>16, SetBlockDirtyKeeps
<1>17. CASE \E b \in Blocks : FreeBlock(b)
  BY <1>17, FreeBlockKeeps
<1>18. CASE \E b \in Blocks : WriteData(b)
  BY <1>18, WriteDataKeeps
<1>19. CASE UNCHANGED journalVars
  <2>1. UNCHANGED <<log, j, wq, pc, todo, slot, ntrans>>
    BY <1>19 DEF journalVars
  <2> QED BY <2>1 DEF JournalInv, Up, InCommit, Room
<1> QED BY <1>1, <1>2, <1>3, <1>4, <1>5, <1>6, <1>7, <1>8, <1>9, <1>10, <1>11, <1>12, <1>13, <1>14,
          <1>15, <1>16, <1>17, <1>18, <1>19, Zenon DEF JournalNext

\* The links between transactions, records and buffers, and the places in the log, hold
\* in every reachable state, whatever crashes, aborts and checkpoints there have been.
LEMMA JournalInvariant == JournalSpec => []JournalInv
<1>1. JournalInit => JournalInv
  BY JournalStarts
<1>2. JournalInv /\ [JournalNext]_journalVars => JournalInv'
  BY JournalSteps
<1> QED BY <1>1, <1>2, PTL DEF JournalSpec

\* Every copy that still has to be written belongs to a transaction that still exists and
\* lists the block, the block has a record, and a committed copy is in the log at the
\* place the transaction holds: jbd_trans_end_write, the roll back of an aborted
\* transaction and the revocation of a block never leave a stray copy.
THEOREM JournalUnwritten == JournalSpec => []Unwritten
<1>1. ASSUME JournalInv PROVE Unwritten
  <2> SUFFICES ASSUME NEW b \in Blocks, NEW i \in DOMAIN j.dq[b]
               PROVE  LET t == j.dq[b][i] IN
                      /\ j.rec[b] # 0
                      /\ Contains(j.trans[t].bufq, b)
                      /\ (t # j.cur /\ wq = <<>> /\ Unflawed) => log[j.trans[t].lba[b]].val = t
    BY DEF Unwritten
  <2> DEFINE t == j.dq[b][i]
  <2>1. Up
    <3> SUFFICES ASSUME ~Up PROVE FALSE
      OBVIOUS
    <3>1. j.dq[b] = <<>>
      BY <1>1 DEF JournalInv, NoSession
    <3> QED BY <3>1
  <2>2. Session(j, log, wq, ntrans, slot, Room)
    BY <1>1, <2>1 DEF JournalInv
  <2>3. Linked(j, j.cur, {}, {}) /\ Laid(j, j.cur, slot, Room) /\ Logged(j, log, wq) /\ Typed(j)
    BY <2>2, ShapeTyped DEF Session, Linked
  <2>4. j.dq[b] \in Seq(Trans) /\ t \in ToSet(j.dq[b]) /\ j.dq[b] # <<>>
    BY <2>3 DEF Typed, ToSet
  <2>5. t \in Trans /\ 0 \notin Trans
    BY <2>4, JournalAssumption DEF Trans
  <2> HIDE DEF t
  <2>6. BlockLinked(j, j.cur, {}, {}, b) /\ TransLinked(j, j.cur, {}, t)
    BY <2>3, <2>5 DEF Linked
  <2>7. j.rec[b] # 0
    <3>1. j.rec[b] \in ToSet(j.dq[b])
      BY <2>4, <2>6 DEF BlockLinked
    <3> QED BY <2>4, <2>5, <3>1 DEF ToSet
  <2>8. b \in ToSet(j.trans[t].bufq) /\ j.trans[t].bufq \in Seq(Blocks)
    BY <2>3, <2>4, <2>5, <2>6 DEF BlockLinked, Typed
  <2>9. Contains(j.trans[t].bufq, b)
    BY <2>8 DEF Contains, ToSet
  <2>10. ASSUME t # j.cur, wq = <<>> PROVE log[j.trans[t].lba[b]].val = t
    <3>1. t \in ToSet(j.queue)
      <4> SUFFICES ASSUME t \notin ToSet(j.queue) PROVE FALSE
        OBVIOUS
      <4>1. j.trans[t] = NoTrans
        BY <2>6, <2>10 DEF TransLinked
      <4> QED BY <2>8, <4>1, NoTransFacts DEF ToSet
    <3>2. j.queue \in Seq(Trans)
      BY <2>3 DEF Typed
    <3>3. PICK k \in 1 .. Len(j.queue) : j.queue[k] = t
      BY <3>1, <3>2 DEF ToSet
    <3>4. PICK p : Positions(j, p)
      BY <2>3 DEF Laid, LaidAt
    <3>5. PICK x \in p[k] .. p[k + 1] - 1 : j.trans[t].lba[b] = Wrap(x)
      BY <2>8, <3>3, <3>4 DEF Positions
    <3>6. p[k] \in Nat \ {0} /\ p[k + 1] \in Nat \ {0}
      <4>1. k \in 1 .. Len(j.queue) + 1 /\ k + 1 \in 1 .. Len(j.queue) + 1
        BY <3>2
      <4> QED BY <3>4, <4>1 DEF Positions
    <3>7. x \in Nat \ {0}
      BY <3>6
    <3>8. j.trans[t].lba[b] # 0
      <4>1. Wrap(x) \in 1 .. LogLen
        BY <3>7, WrapFacts
      <4> QED BY <3>5, <4>1, JournalAssumption
    <3>9. Holds(log, <<>>, j.trans[t].lba[b], t)
      BY <2>3, <2>5, <2>8, <2>10, <3>8 DEF Logged
    <3> QED BY <3>9 DEF Holds
  <2> QED BY <2>7, <2>9, <2>10 DEF t
<1> QED BY <1>1, JournalInvariant, PTL

\* The assertion of jbd_journal_alloc_block, that there is a transaction to checkpoint
\* when the log is full, can not fail when one transaction fits into the log: all blocks
\* with their descriptor block, a block of revocations and the commit block.
THEOREM JournalRoomFound ==
  ASSUME Cardinality(Blocks) + 3 < LogLen
  PROVE  JournalSpec => []RoomFound
<1>1. ASSUME JournalInv PROVE RoomFound
  <2> SUFFICES ASSUME pc = "room", j.last = j.start, j.queue = <<>> PROVE FALSE
    BY DEF RoomFound
  <2>1. Up /\ InCommit /\ slot # 0 /\ Room = LogLen
    BY <1>1 DEF Up, InCommit, JournalInv, Room
  <2> DEFINE c == j.cur
             a == j.trans[c].alloc
             k == Len(j.trans[c].bufq)
             n == Len(todo)
  <2>2. /\ Session(j, log, wq, ntrans, slot, LogLen) /\ Committing(j, todo, slot)
        /\ Linked(j, c, {}, {}) /\ Laid(j, c, slot, LogLen) /\ Typed(j) /\ c # 0 /\ c \in Trans
    <3>1. Session(j, log, wq, ntrans, slot, LogLen) /\ Committing(j, todo, slot)
      BY <1>1, <2>1 DEF JournalInv
    <3>2. Linked(j, c, {}, {}) /\ Laid(j, c, slot, LogLen) /\ Typed(j)
      BY <3>1, ShapeTyped DEF Session, Linked
    <3> QED BY <3>1, <3>2 DEF Committing, Linked
  <2>3. j.trans[c].bufq \in Seq(Blocks) /\ IsInjective(j.trans[c].bufq) /\ a \in Nat
    BY <2>2 DEF Typed, Linked, TransLinked
  <2>4. k <= Cardinality(Blocks) /\ k \in Nat /\ Cardinality(Blocks) \in Nat /\ LogLen \in Nat
    <3>1. IsFiniteSet(Blocks) /\ LogLen \in Nat
      BY JournalAssumption
    <3>2. ToSet(j.trans[c].bufq) \subseteq Blocks
      BY <2>3 DEF ToSet
    <3>3. Cardinality(ToSet(j.trans[c].bufq)) <= Cardinality(Blocks) /\ Cardinality(Blocks) \in Nat
      BY <3>1, <3>2, FS_Subset, FS_CardinalityType
    <3>4. Cardinality(ToSet(j.trans[c].bufq)) = k
      BY <2>3, SeqCard
    <3>5. k \in Nat
      BY <2>3
    <3> QED BY <3>1, <3>3, <3>4, <3>5
  <2>5. a >= 1 /\ a + n <= k + 3 + 1 /\ todo # <<>> /\ todo \in Seq(Items)
    BY <2>1, <2>2 DEF Committing, Items
  <2>6. n \in Nat /\ n >= 1
    BY <2>5
  <2>7. PICK p : LaidAt(j, c, slot, LogLen, p)
    BY <2>2 DEF Laid
  <2>8. /\ p \in [1 .. 1 -> Nat \ {0}] /\ j.start = Wrap(p[1]) /\ j.last = Wrap(p[1] + a)
    <3>1. Len(j.queue) + 1 = 1
      OBVIOUS
    <3> QED BY <2>2, <2>7, <3>1 DEF LaidAt, Positions
  <2> DEFINE e == p[1]
  <2>9. e \in Nat \ {0}
    BY <2>8
  <2> HIDE DEF a, k, n, e
  <2>10. e + a \in Nat \ {0} /\ e <= e + a /\ (e + a) - e < LogLen /\ e # e + a
    BY <2>3, <2>4, <2>5, <2>6, <2>9
  <2>11. Wrap(e) = Wrap(e + a)
    BY <2>8 DEF e
  <2> QED BY <2>9, <2>10, <2>11, WrapFacts
<1> QED BY <1>1, JournalInvariant, PTL

----------------------------------------------------------------------------
(* What a reader finds, in the cache or on the device *)

\* Removing members keeps the order of a sequence.
LEMMA WithoutSorted ==
  ASSUME NEW s \in Seq(Int), Sorted(s), NEW S
  PROVE  Sorted(Without(s, S))
<1> DEFINE w == Filtered(s, S)
           n == Len(s)
           Bad == {i \in 0 .. n : ~Sorted(w[i])}
<1>1. w[0] = <<>> /\ \A i \in 1 .. n : w[i] = IF s[i] \in S THEN w[i - 1] ELSE Append(w[i - 1], s[i])
  BY FilteredDef
<1>2. n \in Nat /\ DOMAIN s = 1 .. n
  OBVIOUS
<1>3. ASSUME NEW m \in 0 .. n
      PROVE  w[m] \in Seq(Int) /\ \A k \in 1 .. Len(w[m]) : \E i \in 1 .. m : s[i] = w[m][k]
  <2>1. /\ w[m] \in Seq(Int)
        /\ \A k \in 1 .. Len(w[m]) : \E i \in 1 .. m : s[i] = w[m][k] /\ s[i] \notin S
    BY FilteredUpTo
  <2> QED BY <2>1, Zenon
<1> HIDE DEF w
<1>4. Bad = {}
  <2> SUFFICES ASSUME Bad # {} PROVE FALSE
    OBVIOUS
  <2>1. Bad \subseteq Nat
    BY <1>2
  <2>2. PICK m \in Bad : \A y \in Bad : m <= y
    BY <2>1, MinNat
  <2>3. m \in 0 .. n /\ ~Sorted(w[m]) /\ \A y \in Bad : m <= y
    BY <2>2
  <2>4. m # 0
    <3>1. Sorted(<<>>)
      BY DEF Sorted
    <3> QED BY <1>1, <2>3, <3>1
  <2>5. m \in 1 .. n /\ m - 1 \in 0 .. n /\ ~(m <= m - 1)
    BY <1>2, <2>3, <2>4
  <2> DEFINE v == w[m - 1]
             x == s[m]
  <2>6. Sorted(v)
    BY <2>2, <2>5
  <2>7. w[m] = Append(v, x)
    BY <1>1, <2>3, <2>5, <2>6
  <2>8. v \in Seq(Int) /\ \A k \in 1 .. Len(v) : \E i \in 1 .. m - 1 : s[i] = v[k]
    BY <1>3, <2>5
  <2>9. \A k \in 1 .. Len(v) : v[k] < x
    <3> TAKE k \in 1 .. Len(v)
    <3>1. PICK i \in 1 .. m - 1 : s[i] = v[k]
      BY <2>8
    <3>2. i \in DOMAIN s /\ m \in DOMAIN s /\ i < m
      <4>0. n \in Nat /\ m \in 1 .. n
        BY <1>2, <2>5
      <4> HIDE DEF n, Bad, v
      <4>1. i \in 1 .. n /\ i < m
        BY <4>0
      <4> QED BY <1>2, <2>5, <4>1
    <3> QED BY <3>1, <3>2 DEF Sorted
  <2>10. x \in Int
    BY <1>2, <2>5
  <2> HIDE DEF v, x
  <2>11. Sorted(Append(v, x))
    <3>1. v \in Seq(Int) /\ \A y \in ToSet(v) : y < x
      BY <2>8, <2>9 DEF ToSet
    <3> QED BY <2>6, <2>10, <3>1, AppendSorted
  <2> QED BY <2>3, <2>7, <2>11
<1>5. n \in 0 .. n
  BY <1>2
<1> QED BY <1>4, <1>5 DEF Without, w

\* The queue is in the order of the transactions, and the running one is the newest.
InOrder(s, c) == Sorted(s.queue) /\ (c # 0 => \A t \in ToSet(s.queue) : t < c)

\* The place of block b holds v, or will when the writes q have been made to the device h.
Comes(h, q, b, v) ==
  LET W == {w \in HomeWrites(q) : w.at = b}
  IN  (W = {} => h[b] = v) /\ \A w \in W : w.val = v

\* The committed transactions whose copy of b is unwritten.
Old(s, c, b) == ToSet(s.dq[b]) \ {c}

\* What the committed transactions make of a block is the newest of its unwritten
\* copies, or at its place when there is none.
SafeAt(s, c, h, q, v, b) ==
  IF Old(s, c, b) = {} THEN v = Free \/ Comes(h, q, b, v)
  ELSE v \in Old(s, c, b) /\ \A t \in Old(s, c, b) : t <= v

\* With the running transaction c, a block has the contents in its buffer; or it is
\* free, and older copies are revoked; or c has nothing to do with it, and the newest
\* copy is in its buffer as long as it is unwritten.
WantAt(s, c, v, x, b) ==
  \/ c # 0 /\ x = c /\ s.buf[b].owner = c
  \/ /\ x = Free /\ (IF c = 0 THEN v = Free ELSE s.buf[b].owner # c)
     /\ Old(s, c, b) # {} => c # 0 /\ b \in s.trans[c].revoke
  \/ /\ x = v /\ v # Free /\ c \notin ToSet(s.dq[b])
     /\ Old(s, c, b) # {} => s.buf[b].owner = s.rec[b] /\ (c # 0 => b \notin s.trans[c].revoke)

ReadAt(s, c, h, q, v, x, b) ==
  /\ Ranked(s, b) /\ s.buf[b].val = s.buf[b].owner
  /\ SafeAt(s, c, h, q, v, b) /\ WantAt(s, c, v, x, b)

ReadInv ==
  /\ DOMAIN home = Blocks /\ DOMAIN safe = Blocks /\ DOMAIN want = Blocks /\ ndata \in Nat
  /\ pc = "mounted" => safe = home /\ wq = <<>>
  /\ Up /\ Unflawed =>
       /\ InOrder(j, j.cur)
       /\ \A b \in Blocks : ReadAt(j, j.cur, home, wq, safe[b], want[b], b)

\* After a stop, when there was no crash before, each block in use is at its place.
RestInv ==
  /\ ncrash \in Nat /\ (pc = "down" => ncrash # 0)
  /\ pc = "recovered" /\ ncrash = 0 /\ Unflawed => wq \in {<<>>, <<Write("sb", 0, 0)>>} /\ Agrees(safe)

\* A block whose copies and buffer a step leaves alone.
LEMMA StaysRead ==
  ASSUME NEW c, NEW s, NEW u, NEW b \in Blocks, BlockLinked(u, c, {}, {}, b), Shape(u),
         NEW h, NEW q, NEW g, NEW p, NEW v, NEW x, ReadAt(s, c, h, q, v, x, b),
         u.dq[b] = s.dq[b], u.buf[b] = s.buf[b], u.rec[b] \in {0, s.rec[b]},
         c # 0 => (b \in u.trans[c].revoke <=> b \in s.trans[c].revoke),
         Comes(h, q, b, v) => Comes(g, p, b, v)
  PROVE  ReadAt(u, c, g, p, v, x, b)
<1>1. Old(u, c, b) = Old(s, c, b)
  BY DEF Old
<1>2. SafeAt(u, c, g, p, v, b)
  BY <1>1 DEF ReadAt, SafeAt
<1>3. u.dq[b] \in Seq(Trans)
  BY ShapeTyped DEF Typed
<1>4. CASE u.dq[b] = <<>>
  <2>1. ToSet(u.dq[b]) = {} /\ Old(u, c, b) = {}
    BY <1>3, <1>4, NonEmpty DEF Old
  <2>2. Ranked(u, b)
    BY <2>1 DEF ReadAt, Ranked
  <2>3. WantAt(u, c, v, x, b)
    BY <1>1, <2>1 DEF ReadAt, WantAt
  <2> QED BY <1>2, <2>2, <2>3 DEF ReadAt
<1>5. CASE u.dq[b] # <<>>
  <2>1. u.rec[b] \in ToSet(u.dq[b])
    BY <1>5 DEF BlockLinked
  <2>2. u.rec[b] = s.rec[b]
    BY <1>3, <2>1, JournalAssumption DEF ToSet, Trans
  <2>3. Ranked(u, b)
    BY <2>2 DEF ReadAt, Ranked
  <2>4. WantAt(u, c, v, x, b)
    BY <1>1, <2>2 DEF ReadAt, WantAt
  <2> QED BY <1>2, <2>3, <2>4 DEF ReadAt
<1> QED BY <1>4, <1>5

\* A committed transaction that still has to write a copy is in the queue, and the copy
\* is in the log.
LEMMA CopyIs ==
  ASSUME NEW s, NEW l, NEW n, NEW at, NEW max, Session(s, l, <<>>, n, at, max),
         NEW b \in Blocks, NEW t \in ToSet(s.dq[b]), t # s.cur
  PROVE  t \in Trans /\ t \in ToSet(s.queue) /\ l[s.trans[t].lba[b]].val = t
<1>1. /\ Linked(s, s.cur, {}, {}) /\ Laid(s, s.cur, at, max) /\ Logged(s, l, <<>>) /\ Typed(s)
      /\ s.dq[b] \in Seq(Trans) /\ s.queue \in Seq(Trans)
  BY ShapeTyped DEF Session, Linked, Typed
<1>2. t \in Trans
  BY <1>1 DEF ToSet
<1>3. b \in ToSet(s.trans[t].bufq) /\ TransLinked(s, s.cur, {}, t)
  BY <1>1, <1>2 DEF Linked, BlockLinked
<1>4. t \in ToSet(s.queue)
  <2> SUFFICES ASSUME t \notin ToSet(s.queue) PROVE FALSE
    OBVIOUS
  <2>1. s.trans[t] = NoTrans
    BY <1>3 DEF TransLinked
  <2> QED BY <1>3, <2>1, NoTransFacts DEF ToSet
<1>5. PICK k \in 1 .. Len(s.queue) : s.queue[k] = t
  BY <1>1, <1>4 DEF ToSet
<1>6. PICK p : Positions(s, p)
  BY <1>1 DEF Laid, LaidAt
<1>7. PICK x \in p[k] .. p[k + 1] - 1 : s.trans[t].lba[b] = Wrap(x)
  BY <1>3, <1>5, <1>6 DEF Positions
<1>8. p[k] \in Nat \ {0} /\ p[k + 1] \in Nat \ {0}
  <2>1. k \in 1 .. Len(s.queue) + 1 /\ k + 1 \in 1 .. Len(s.queue) + 1
    BY <1>1
  <2> QED BY <1>6, <2>1 DEF Positions
<1>9. s.trans[t].lba[b] # 0
  <2>1. x \in Nat \ {0}
    BY <1>8
  <2>2. Wrap(x) \in 1 .. LogLen
    BY <2>1, WrapFacts
  <2> QED BY <1>7, <2>2, JournalAssumption
<1>10. Holds(l, <<>>, s.trans[t].lba[b], t)
  BY <1>1, <1>2, <1>3, <1>9 DEF Logged
<1> QED BY <1>2, <1>4, <1>10 DEF Holds

\* Without a write to the place of a block nothing comes.
LEMMA ComesNone ==
  ASSUME NEW h, NEW q, NEW b, NEW v, HomeWrites(q) = {}
  PROVE  Comes(h, q, b, v) <=> h[b] = v
BY DEF Comes

\* A write of the queue reaches the device.
LEMMA ComesPersist ==
  ASSUME NEW V, NEW q \in Seq(V), q # <<>>, NEW h, DOMAIN h = Blocks, NEW w, w = Head(q),
         NEW g, g = IF w.dev = "home" THEN [h EXCEPT ![w.at] = w.val] ELSE h,
         NEW b \in Blocks, NEW v, Comes(h, q, b, v)
  PROVE  Comes(g, Tail(q), b, v)
<1>1. /\ w = q[1] /\ 1 \in DOMAIN q
      /\ \A k \in DOMAIN Tail(q) : Tail(q)[k] = q[k + 1] /\ k + 1 \in DOMAIN q
      /\ \A k \in DOMAIN q : k = 1 \/ (k - 1 \in DOMAIN Tail(q) /\ Tail(q)[k - 1] = q[k])
  OBVIOUS
<1>2. HomeWrites(Tail(q)) \subseteq HomeWrites(q)
  BY <1>1 DEF HomeWrites
<1>3. \A x \in HomeWrites(q) : x = w \/ x \in HomeWrites(Tail(q))
  <2> TAKE x \in HomeWrites(q)
  <2>1. PICK k \in DOMAIN q : q[k].dev = "home" /\ x = q[k]
    BY DEF HomeWrites
  <2>2. CASE k = 1
    BY <1>1, <2>1, <2>2
  <2>3. CASE k # 1
    <3>1. k - 1 \in DOMAIN Tail(q) /\ Tail(q)[k - 1] = q[k]
      BY <1>1, <2>3
    <3> QED BY <2>1, <3>1 DEF HomeWrites
  <2> QED BY <2>2, <2>3
<1>4. w.dev = "home" <=> w \in HomeWrites(q)
  BY <1>1 DEF HomeWrites
<1>5. \A x \in HomeWrites(Tail(q)) : x.at = b => x.val = v
  BY <1>2 DEF Comes
<1>6. ASSUME \A x \in HomeWrites(Tail(q)) : x.at # b PROVE g[b] = v
  <2>1. CASE w.dev = "home" /\ w.at = b
    <3>1. w.val = v
      BY <1>4, <2>1 DEF Comes
    <3> QED BY <2>1, <3>1
  <2>2. CASE ~(w.dev = "home" /\ w.at = b)
    <3>1. g[b] = h[b]
      BY <2>2
    <3>2. \A x \in HomeWrites(q) : x.at # b
      BY <1>3, <1>4, <1>6, <2>2
    <3> QED BY <3>1, <3>2 DEF Comes
  <2> QED BY <2>1, <2>2
<1> QED BY <1>5, <1>6 DEF Comes

\* A copy of block b is written to its place.
LEMMA MoveReads ==
  ASSUME NEW s, NEW n, NEW at, NEW max, Session(s, log, <<>>, n, at, max), NEW c, c = s.cur,
         InOrder(s, c), NEW u, Linked(u, c, {}, {}), Less(u, s, c),
         NEW b \in Blocks, NEW t, NEW v, Moved(u, s, c, b, t, v),
         NEW q, HomeWrites(q) = HomeWrites(u.w), NEW h, NEW sf, NEW wt,
         \A y \in Blocks : ReadAt(s, c, h, <<>>, sf[y], wt[y], y)
  PROVE  InOrder(u, c) /\ \A y \in Blocks : ReadAt(u, c, h, q, sf[y], wt[y], y)
<1>1. /\ Linked(s, c, {}, {}) /\ Shape(s) /\ Shape(u) /\ Typed(s) /\ Typed(u)
  BY ShapeTyped DEF Session, Linked
<1>2. /\ t \in ToSet(s.dq[b]) /\ t # c /\ HomeWrites(q) = {Write("home", b, v)}
      /\ \A y \in Blocks : y # b => u.dq[y] = s.dq[y] /\ u.buf[y] = s.buf[y]
      /\ \A y \in Blocks : u.rec[y] \in {0, s.rec[y]}
      /\ c # 0 => u.trans[c] = s.trans[c]
  BY DEF Moved, Settled, Less
<1>3. InOrder(u, c)
  BY DEF Moved, Settled, Less, InOrder
<1>4. Write("home", b, v).at = b /\ Write("home", b, v).val = v
  BY DEF Write
<1>5. HomeWrites(<<>>) = {}
  BY DEF HomeWrites
<1>6. ASSUME NEW y \in Blocks, y # b PROVE ReadAt(u, c, h, q, sf[y], wt[y], y)
  <2>1. Comes(h, <<>>, y, sf[y]) => Comes(h, q, y, sf[y])
    BY <1>2, <1>4, <1>5, <1>6 DEF Comes
  <2>2. BlockLinked(u, c, {}, {}, y)
    BY DEF Linked
  <2> QED BY <1>1, <1>2, <1>6, <2>1, <2>2, StaysRead
<1> DEFINE d == s.dq[b]
           O == Old(s, c, b)
           v0 == sf[b]
           x == wt[b]
<1>7. /\ d \in Seq(Trans) /\ t \in Trans /\ t \in O /\ O \subseteq ToSet(d) /\ O \subseteq Trans
      /\ Trans \subseteq Nat \ {0} /\ s.rec[b] \in Nat
  <2>1. d \in Seq(Trans) /\ s.rec[b] \in Trans \cup {0}
    BY <1>1 DEF Typed
  <2>2. Trans \subseteq Nat \ {0}
    BY JournalAssumption DEF Trans
  <2>3. ToSet(d) \subseteq Trans
    BY <2>1 DEF ToSet
  <2>4. O = ToSet(d) \ {c}
    BY DEF Old
  <2> HIDE DEF O, d
  <2>5. s.rec[b] \in Nat
    <3> DEFINE r == s.rec[b]
    <3>1. r \in Trans \cup {0}
      BY <2>1
    <3> HIDE DEF r
    <3>2. r \in Nat
      BY <2>2, <3>1
    <3> QED BY <3>2 DEF r
  <2> QED BY <1>2, <2>1, <2>2, <2>3, <2>4, <2>5, Zenon DEF d
<1>8. /\ v0 \in O /\ \A y \in O : y <= v0
      /\ \A y \in ToSet(d) : y <= s.rec[b]
      /\ Sorted(d) /\ s.buf[b].val = s.buf[b].owner /\ WantAt(s, c, v0, x, b)
  BY <1>7 DEF ReadAt, SafeAt, Ranked
<1>9. /\ BlockLinked(s, c, {}, {}, b) /\ BlockLinked(u, c, {}, {}, b) /\ s.rec[b] \in ToSet(d)
      /\ s.buf[b].owner # 0 => s.buf[b].owner = s.rec[b]
  <2>1. BlockLinked(s, c, {}, {}, b) /\ BlockLinked(u, c, {}, {}, b)
    BY <1>1 DEF Linked
  <2>2. d # <<>>
    BY <1>2 DEF ToSet
  <2> QED BY <2>1, <2>2 DEF BlockLinked
<1>10. \A y \in O : y \in ToSet(s.queue) /\ log[s.trans[y].lba[b]].val = y
  BY CopyIs DEF Old
<1>11. v = t
  BY <1>7, <1>8, <1>10 DEF Moved
<1>12. v0 = t => Comes(h, q, b, v0)
  BY <1>2, <1>4, <1>11 DEF Comes
<1>13. v0 # Free /\ (c # 0 => c \in Nat)
  <2>1. v0 \in Nat
    BY <1>7, <1>8
  <2>2. c # 0 => c \in Nat
    BY <1>1, JournalAssumption DEF Linked, Trans
  <2> HIDE DEF v0
  <2> QED BY <2>1, <2>2 DEF Free
<1>14. ASSUME s.rec[b] = t PROVE ReadAt(u, c, h, q, v0, x, b)
  <2>1. u.dq[b] = <<>> /\ u.buf[b] = NoBuf
    BY <1>14 DEF Moved, Settled
  <2>2. v0 = t
    <3>1. t <= v0 /\ v0 <= t
      BY <1>7, <1>8, <1>14
    <3>2. t \in Nat /\ v0 \in Nat
      BY <1>7, <1>8
    <3> HIDE DEF v0
    <3> QED BY <3>1, <3>2
  <2>3. Old(u, c, b) = {} /\ ToSet(u.dq[b]) = {} /\ DOMAIN u.dq[b] = {}
    BY <2>1 DEF Old, ToSet
  <2>4. SafeAt(u, c, h, q, v0, b)
    BY <1>12, <2>2, <2>3 DEF SafeAt
  <2>5. s.buf[b].owner # c \/ c = 0
    BY <1>2, <1>9, <1>14
  <2>6. WantAt(u, c, v0, x, b)
    BY <1>8, <1>13, <2>1, <2>3, <2>5 DEF WantAt, NoBuf
  <2>7. Ranked(u, b)
    BY <2>3 DEF Ranked, Sorted
  <2> QED BY <2>1, <2>4, <2>6, <2>7 DEF ReadAt, NoBuf
<1>15. ASSUME s.rec[b] # t PROVE ReadAt(u, c, h, q, v0, x, b)
  <2>1. /\ u.dq[b] = Without(d, {t}) /\ u.buf[b] = s.buf[b] /\ t = s.queue[1] /\ s.queue # <<>>
    BY <1>15 DEF Moved, Settled
  <2>2. ToSet(u.dq[b]) = ToSet(d) \ {t} /\ Sorted(u.dq[b])
    <3>1. d \in Seq(Int)
      BY <1>7
    <3> HIDE DEF d
    <3> QED BY <1>7, <1>8, <2>1, <3>1, WithoutFacts, WithoutSorted
  <2>3. u.rec[b] = s.rec[b]
    <3>1. s.rec[b] \in ToSet(u.dq[b])
      BY <1>9, <1>15, <2>2
    <3>2. u.dq[b] # <<>>
      BY <3>1 DEF ToSet
    <3>3. u.rec[b] \in ToSet(u.dq[b])
      BY <1>9, <3>2 DEF BlockLinked
    <3>4. u.rec[b] # 0
      BY <1>7, <2>2, <3>3 DEF ToSet
    <3> QED BY <1>2, <3>4
  <2>4. Old(u, c, b) = O \ {t}
    BY <2>2 DEF Old
  <2>5. ASSUME NEW y \in O, y # t PROVE t < y
    <3>1. PICK k \in DOMAIN s.queue : s.queue[k] = y
      BY <1>10 DEF ToSet
    <3>2. s.queue \in Seq(Trans)
      BY <1>1 DEF Typed
    <3>3. k \in Nat /\ 1 \in DOMAIN s.queue /\ 1 < k
      BY <2>1, <2>5, <3>1, <3>2
    <3> QED BY <2>1, <3>1, <3>3 DEF InOrder, Sorted
  <2>6. SafeAt(u, c, h, q, v0, b)
    <3>1. CASE O \ {t} = {}
      BY <1>8, <1>12, <2>4, <3>1 DEF SafeAt
    <3>2. CASE O \ {t} # {}
      <4>1. v0 # t
        <5>1. PICK y \in O : y # t
          BY <3>2
        <5>2. t < y /\ y <= v0 /\ y \in Nat /\ t \in Nat
          BY <1>7, <1>8, <2>5, <5>1
        <5> QED BY <5>2
      <4> HIDE DEF O
      <4> QED BY <1>8, <2>4, <3>2, <4>1 DEF SafeAt
    <3> QED BY <3>1, <3>2
  <2>7. WantAt(u, c, v0, x, b)
    BY <1>2, <1>8, <2>1, <2>2, <2>3, <2>4 DEF WantAt
  <2>8. Ranked(u, b)
    BY <1>8, <2>2, <2>3 DEF Ranked
  <2> QED BY <1>8, <2>1, <2>6, <2>7, <2>8 DEF ReadAt
<1> QED BY <1>3, <1>6, <1>14, <1>15

\* The head of the queue is dropped: no copy is touched.
LEMMA PopReads ==
  ASSUME NEW s, NEW c, Linked(s, c, {}, {}), InOrder(s, c), NEW u, Linked(u, c, {}, {}), Less(u, s, c),
         Calm(u, s), u.dq = s.dq, u.buf = s.buf, NEW q, HomeWrites(q) = {}, NEW h, NEW sf, NEW wt,
         \A y \in Blocks : ReadAt(s, c, h, <<>>, sf[y], wt[y], y)
  PROVE  InOrder(u, c) /\ \A y \in Blocks : ReadAt(u, c, h, q, sf[y], wt[y], y)
<1>1. InOrder(u, c) /\ Shape(u) /\ (c # 0 => u.trans[c] = s.trans[c])
  BY DEF Calm, Less, InOrder, Linked
<1>2. HomeWrites(<<>>) = {}
  BY DEF HomeWrites
<1>3. ASSUME NEW y \in Blocks PROVE ReadAt(u, c, h, q, sf[y], wt[y], y)
  <2>1. Comes(h, <<>>, y, sf[y]) => Comes(h, q, y, sf[y])
    BY <1>2 DEF Comes
  <2>2. BlockLinked(u, c, {}, {}, y) /\ u.rec[y] \in {0, s.rec[y]}
    BY DEF Linked, Calm
  <2> QED BY <1>1, <2>1, <2>2, StaysRead
<1> QED BY <1>1, <1>3

\* What the invariants give before and after a step of the session.
LEMMA ReadBegins ==
  ASSUME JournalInv, ReadInv, Up, Runs
  PROVE  /\ InOrder(j, j.cur) /\ wq = <<>> /\ Session(j, log, <<>>, ntrans, slot, Room)
         /\ Linked(j, j.cur, {}, {}) /\ Typed(j) /\ j.cur \in Trans \cup {0}
         /\ \A b \in Blocks : BlockLinked(j, j.cur, {}, {}, b)
         /\ \A b \in Blocks : ReadAt(j, j.cur, home, <<>>, safe[b], want[b], b)
<1>1. /\ InOrder(j, j.cur) /\ wq = <<>>
      /\ \A b \in Blocks : ReadAt(j, j.cur, home, <<>>, safe[b], want[b], b)
  BY DEF ReadInv, Runs, Unflawed
<1> QED BY <1>1, Begins DEF Linked

LEMMA LinksAfter ==
  ASSUME JournalInv', Up'
  PROVE  /\ Linked(j', j'.cur, {}, {}) /\ Shape(j') /\ Typed(j')
         /\ \A b \in Blocks : BlockLinked(j', j'.cur, {}, {}, b)
<1>1. Session(j', log', wq', ntrans', slot', Room')
  BY DEF JournalInv
<1>2. Linked(j', j'.cur, {}, {}) /\ Shape(j')
  BY <1>1 DEF Session, Linked
<1> QED BY <1>2, ShapeTyped DEF Linked

LEMMA ReadEnds ==
  ASSUME pc' # "mounted", DOMAIN home' = Blocks, DOMAIN safe' = Blocks, DOMAIN want' = Blocks,
         ndata' \in Nat, InOrder(j', j'.cur),
         \A b \in Blocks : ReadAt(j', j'.cur, home', wq', safe'[b], want'[b], b)
  PROVE  ReadInv'
BY DEF ReadInv

\* A step that leaves the copies and the buffers alone.
LEMMA StillReads ==
  ASSUME JournalInv, JournalInv', ReadInv, Up, Runs, Up', Still(j', j), j'.cur = j.cur,
         j.cur # 0 => j'.trans[j.cur].revoke = j.trans[j.cur].revoke,
         HomeWrites(wq') = {}, UNCHANGED <<home, safe, want, ndata>>
  PROVE  ReadInv'
<1> DEFINE c == j.cur
           s == j
           u == j'
           q == wq'
<1>1. /\ InOrder(s, c) /\ \A b \in Blocks : ReadAt(s, c, home, <<>>, safe[b], want[b], b)
  BY ReadBegins
<1>2. Shape(u) /\ u.cur = c /\ \A b \in Blocks : BlockLinked(u, c, {}, {}, b)
  BY LinksAfter
<1>3. InOrder(u, u.cur)
  BY <1>1, <1>2 DEF InOrder, Still
<1>4. /\ u.dq = s.dq /\ u.buf = s.buf /\ u.rec = s.rec /\ HomeWrites(q) = {}
      /\ c # 0 => u.trans[c].revoke = s.trans[c].revoke
  BY DEF Still
<1>5. HomeWrites(<<>>) = {}
  BY DEF HomeWrites
<1>6. DOMAIN home = Blocks /\ DOMAIN safe = Blocks /\ DOMAIN want = Blocks /\ ndata \in Nat /\ pc' # "mounted"
  BY DEF ReadInv, Up
<1> HIDE DEF s, u, q, c
<1>7. \A b \in Blocks : ReadAt(u, c, home, q, safe[b], want[b], b)
  <2> TAKE b \in Blocks
  <2>1. Comes(home, <<>>, b, safe[b]) => Comes(home, q, b, safe[b])
    BY <1>4, <1>5 DEF Comes
  <2> QED BY <1>1, <1>2, <1>4, <2>1, StaysRead
<1> QED BY <1>2, <1>3, <1>6, <1>7, ReadEnds DEF s, u, q, c

LEMMA PersistReads ==
  ASSUME JournalInv, JournalInv', ReadInv, Persist
  PROVE  ReadInv'
<1> DEFINE w == Head(wq)
           q == Tail(wq)
           g == home'
<1>1. /\ wq # <<>> /\ wq' = q /\ g = IF w.dev = "home" THEN [home EXCEPT ![w.at] = w.val] ELSE home
      /\ UNCHANGED <<j, pc, safe, want, flawed, ndata>>
  BY DEF Persist, history
<1>2. DOMAIN home = Blocks /\ DOMAIN safe = Blocks /\ DOMAIN want = Blocks /\ ndata \in Nat /\ pc # "mounted"
  BY <1>1 DEF ReadInv
<1>3. DOMAIN g = Blocks
  BY <1>1, <1>2
<1>4. ASSUME Up, Unflawed
      PROVE  InOrder(j, j.cur) /\ \A b \in Blocks : ReadAt(j, j.cur, g, q, safe[b], want[b], b)
  <2>1. /\ InOrder(j, j.cur) /\ \A b \in Blocks : ReadAt(j, j.cur, home, wq, safe[b], want[b], b)
    BY <1>4 DEF ReadInv
  <2>2. Session(j, log, wq, ntrans, slot, Room)
    BY <1>4 DEF JournalInv
  <2>3. PICK V : wq \in Seq(V)
    BY <2>2 DEF Session
  <2>4. Shape(j) /\ \A b \in Blocks : BlockLinked(j, j.cur, {}, {}, b)
    BY <2>2 DEF Session, Linked
  <2> HIDE DEF w, q, g
  <2>5. ASSUME NEW b \in Blocks PROVE ReadAt(j, j.cur, g, q, safe[b], want[b], b)
    <3>1. Comes(home, wq, b, safe[b]) => Comes(g, q, b, safe[b])
      BY <1>1, <1>2, <2>3, ComesPersist DEF w, q
    <3>2. BlockLinked(j, j.cur, {}, {}, b) /\ ReadAt(j, j.cur, home, wq, safe[b], want[b], b)
      BY <2>1, <2>4
    <3> QED BY <2>4, <3>1, <3>2, StaysRead
  <2> QED BY <2>1, <2>5
<1> HIDE DEF w, q
<1> QED BY <1>1, <1>2, <1>3, <1>4 DEF ReadInv, Up, Unflawed

LEMMA DownReads ==
  ASSUME ReadInv, Crash \/ Recover \/ StopEnd
  PROVE  ReadInv'
<1>1. CASE Crash
  BY <1>1 DEF ReadInv, Crash, Up
<1>2. CASE Recover
  BY <1>2 DEF ReadInv, Recover, Up, device, history
<1>3. CASE StopEnd
  BY <1>3 DEF ReadInv, StopEnd, Up, device, history
<1> QED BY <1>1, <1>2, <1>3

LEMMA StartReads ==
  ASSUME ReadInv, RestInv, ncrash # 0 => AllOrNothing, Start
  PROVE  ReadInv'
<1> DEFINE id == sb.seq + 1
           x == Write("sb", 1, id)
<1>1. /\ pc \in {"mounted", "recovered"} /\ Runs /\ pc' = "up" /\ UNCHANGED <<home, ndata>>
      /\ j' = Fresh(id) /\ wq' = <<x>>
      /\ safe' = IF \A b \in Blocks : safe[b] \in {Free, home[b]} THEN safe ELSE want
      /\ want' = safe'
  BY DEF Start, device, Becomes, NoSession, Fresh
<1>2. DOMAIN home = Blocks /\ DOMAIN safe' = Blocks /\ ndata \in Nat
  BY <1>1 DEF ReadInv
<1>3. \A b \in Blocks : safe'[b] \in {Free, home[b]}
  <2>1. CASE pc = "mounted"
    <3>1. safe = home
      BY <2>1 DEF ReadInv
    <3> QED BY <1>1, <3>1
  <2>2. CASE pc = "recovered"
    <3>1. Agrees(safe) \/ Agrees(want)
      BY <1>1, <2>2 DEF RestInv, AllOrNothing, Runs, Unflawed
    <3> QED BY <1>1, <3>1 DEF Agrees
  <2> QED BY <1>1, <2>1, <2>2
<1> HIDE DEF id
<1> DEFINE u == j'
           q == wq'
<1>4. /\ u.cur = 0 /\ u.queue = <<>>
      /\ \A b \in Blocks : u.dq[b] = <<>> /\ u.buf[b] = NoBuf
  BY <1>1 DEF Fresh, NoSession
<1>5. HomeWrites(q) = {}
  <2>1. x.dev = "sb"
    BY DEF Write
  <2> HIDE DEF x
  <2> QED BY <1>1, <2>1 DEF HomeWrites
<1> HIDE DEF u, q, x
<1>6. DOMAIN <<>> = {} /\ ToSet(<<>>) = {}
  BY DEF ToSet
<1>7. InOrder(u, u.cur)
  BY <1>4, <1>6 DEF InOrder, Sorted
<1>8. ASSUME NEW b \in Blocks PROVE ReadAt(u, u.cur, home, q, safe'[b], safe'[b], b)
  <2>1. u.cur = 0 /\ u.dq[b] = <<>> /\ u.buf[b] = NoBuf /\ Old(u, u.cur, b) = {} /\ ToSet(u.dq[b]) = {}
    BY <1>4, <1>6 DEF Old
  <2>2. SafeAt(u, u.cur, home, q, safe'[b], b)
    BY <1>3, <1>5, <2>1, ComesNone DEF SafeAt
  <2>3. WantAt(u, u.cur, safe'[b], safe'[b], b)
    BY <2>1 DEF WantAt
  <2>4. Ranked(u, b)
    BY <1>6, <2>1 DEF Ranked, Sorted
  <2> QED BY <2>1, <2>2, <2>3, <2>4 DEF ReadAt, NoBuf
<1> QED BY <1>1, <1>2, <1>7, <1>8, ReadEnds DEF u, q

LEMMA NewTransReads ==
  ASSUME JournalInv, JournalInv', ReadInv, NewTrans
  PROVE  ReadInv'
<1>1. pc = "up" /\ pc' = "up" /\ Runs /\ j.cur = 0 /\ UNCHANGED <<home, safe, want, ndata, wq>> /\ Up /\ Up'
  BY DEF NewTrans, device, Up
<1>2. /\ Still(j', j)
      /\ \E c \in Trans : /\ j'.cur = c /\ j'.trans[c].revoke = {}
                          /\ \A b \in Blocks : c \notin ToSet(j.dq[b])
                          /\ \A t \in ToSet(j.queue) : t < c
  BY NewTransKeeps
<1>3. PICK c \in Trans : /\ j'.cur = c /\ j'.trans[c].revoke = {}
                         /\ \A b \in Blocks : c \notin ToSet(j.dq[b])
                         /\ \A t \in ToSet(j.queue) : t < c
  BY <1>2
<1> DEFINE s == j
           u == j'
<1>4. /\ InOrder(s, 0) /\ wq' = <<>> /\ Typed(s)
      /\ \A b \in Blocks : BlockLinked(s, 0, {}, {}, b)
      /\ \A b \in Blocks : ReadAt(s, 0, home, <<>>, safe[b], want[b], b)
  BY <1>1, ReadBegins
<1>5. DOMAIN home = Blocks /\ DOMAIN safe = Blocks /\ DOMAIN want = Blocks /\ ndata \in Nat
  BY DEF ReadInv
<1>6. /\ u.dq = s.dq /\ u.buf = s.buf /\ u.rec = s.rec /\ u.queue = s.queue /\ u.cur = c
      /\ u.trans[c].revoke = {} /\ \A b \in Blocks : c \notin ToSet(s.dq[b])
      /\ \A t \in ToSet(s.queue) : t < c
  BY <1>2, <1>3 DEF Still
<1> HIDE DEF s, u
<1>7. InOrder(u, u.cur)
  BY <1>4, <1>6 DEF InOrder
<1>8. ASSUME NEW b \in Blocks PROVE ReadAt(u, c, home, <<>>, safe[b], want[b], b)
  <2>1. s.dq[b] \in Seq(Trans) /\ c # 0 /\ 0 \notin Trans
    BY <1>4, JournalAssumption DEF Typed, Trans
  <2>2. 0 \notin ToSet(s.dq[b]) /\ c \notin ToSet(s.dq[b])
    BY <1>6, <2>1 DEF ToSet
  <2>3. Old(u, c, b) = Old(s, 0, b)
    BY <1>6, <2>2 DEF Old
  <2>4. s.buf[b].owner # c
    BY <1>4, <2>1, <2>2 DEF BlockLinked
  <2>5. SafeAt(u, c, home, <<>>, safe[b], b)
    BY <1>4, <2>3 DEF ReadAt, SafeAt
  <2>6. WantAt(s, 0, safe[b], want[b], b)
    BY <1>4 DEF ReadAt
  <2>7. WantAt(u, c, safe[b], want[b], b)
    BY <1>6, <2>2, <2>3, <2>4, <2>6 DEF WantAt
  <2>8. Ranked(u, b) /\ u.buf[b].val = u.buf[b].owner
    BY <1>4, <1>6 DEF ReadAt, Ranked
  <2> QED BY <2>5, <2>7, <2>8 DEF ReadAt
<1> QED BY <1>1, <1>4, <1>5, <1>6, <1>7, <1>8, ReadEnds DEF u

\* A step of checkpointing: a copy reaches its place, or a complete transaction goes.
LEMMA CheckpointReads ==
  ASSUME JournalInv, JournalInv', ReadInv, Up, Runs, Up', NEW u, Becomes(u),
         Down(u, j, j.cur, slot, Room),
         \/ \E b \in Blocks : \E t, v : Moved(u, j, j.cur, b, t, v)
         \/ Calm(u, j) /\ u.dq = j.dq /\ u.buf = j.buf,
         UNCHANGED <<home, safe, want, ndata>>
  PROVE  ReadInv'
<1> DEFINE c == j.cur
           s == j
           x == j'
           q == wq'
<1>1. /\ InOrder(s, c) /\ \A b \in Blocks : ReadAt(s, c, home, <<>>, safe[b], want[b], b)
      /\ Session(s, log, <<>>, ntrans, slot, Room) /\ Linked(s, c, {}, {})
  BY ReadBegins
<1>2. q = u.w /\ Linked(u, c, {}, {}) /\ Less(u, s, c)
  BY DEF Becomes, Down
<1>3. Same(x, u)
  <2> DEFINE v == [u EXCEPT !.w = <<>>]
  <2>1. Shape(u)
    BY <1>2 DEF Linked
  <2>2. <<>> \in Seq({})
    OBVIOUS
  <2>3. Same(v, u)
    BY <2>1, <2>2, WritesIs
  <2>4. x = v
    BY DEF Becomes
  <2> HIDE DEF v
  <2> QED BY <2>3, <2>4
<1>4. s.w = <<>> /\ HomeWrites(<<>>) = {}
  BY <1>1 DEF Session, HomeWrites
<1>5. /\ DOMAIN home = Blocks /\ DOMAIN safe = Blocks /\ DOMAIN want = Blocks /\ ndata \in Nat
      /\ pc' # "mounted"
  BY DEF ReadInv, Up
<1> HIDE DEF x, q
<1>6. InOrder(u, c) /\ \A b \in Blocks : ReadAt(u, c, home, q, safe[b], want[b], b)
  <2>1. CASE \E b \in Blocks : \E t, v : Moved(u, j, j.cur, b, t, v)
    <3>a. PICK b \in Blocks : \E t, v : Moved(u, s, c, b, t, v)
      BY <2>1
    <3>1. PICK t, v : Moved(u, s, c, b, t, v)
      BY <3>a
    <3> HIDE DEF s, c
    <3>2. HomeWrites(q) = HomeWrites(u.w) /\ c = s.cur
      BY <1>2 DEF c, s
    <3> QED BY <1>1, <1>2, <3>1, <3>2, MoveReads
  <2>2. CASE Calm(u, j) /\ u.dq = j.dq /\ u.buf = j.buf
    <3>1. Calm(u, s) /\ u.dq = s.dq /\ u.buf = s.buf
      BY <2>2
    <3>2. HomeWrites(q) = {}
      BY <1>2, <1>4, <3>1 DEF Calm
    <3> HIDE DEF s, c
    <3> QED BY <1>1, <1>2, <3>1, <3>2, PopReads
  <2> QED BY <2>1, <2>2
<1>7. x.cur = c
  BY <1>2, <1>3 DEF Same, Less
<1> HIDE DEF s, c
<1>8. InOrder(x, c)
  BY <1>3, <1>6 DEF InOrder, Same
<1>9. ASSUME NEW b \in Blocks PROVE ReadAt(x, c, home, q, safe[b], want[b], b)
  <2>1. Old(x, c, b) = Old(u, c, b) /\ Ranked(x, b)
    BY <1>3, <1>6 DEF Old, Ranked, Same, ReadAt
  <2>2. SafeAt(x, c, home, q, safe[b], b)
    BY <1>6, <2>1 DEF ReadAt, SafeAt
  <2>3. WantAt(x, c, safe[b], want[b], b)
    BY <1>3, <1>6, <2>1 DEF ReadAt, WantAt, Same
  <2> QED BY <1>3, <1>6, <2>1, <2>2, <2>3 DEF ReadAt, Same
<1> QED BY <1>5, <1>7, <1>8, <1>9, ReadEnds DEF x, q

LEMMA FlushReads ==
  ASSUME JournalInv, JournalInv', ReadInv, NEW b \in Blocks, Flush(b)
  PROVE  ReadInv'
<1> DEFINE u == Flushed(j, b)
           c == j.cur
<1>1. /\ pc \in {"up", "commit"} /\ Runs /\ j.buf[b].owner \notin {0, c} /\ Becomes(u)
      /\ UNCHANGED <<home, safe, want, ndata, pc>>
  BY DEF Flush, device, history
<1>2. Up /\ Up'
  BY <1>1 DEF Up
<1>3. Linked(j, c, {}, {}) /\ Laid(j, c, slot, Room) /\ Room \in Nat
  BY <1>1, <1>2, Begins
<1>4. /\ Down(u, j, c, slot, Room) /\ Settled(u, j, b, j.rec[b]) /\ j.rec[b] \in ToSet(j.dq[b])
      /\ HomeWrites(u.w) = {Write("home", b, j.buf[b].val)}
  BY <1>1, <1>3, FlushedKeeps
<1> HIDE DEF u
<1>5. j.buf[b].owner = j.rec[b] /\ j.rec[b] # c
  BY <1>1, <1>3 DEF Linked, BlockLinked
<1>6. Moved(u, j, c, b, j.rec[b], j.buf[b].val)
  BY <1>4, <1>5 DEF Moved
<1> QED BY <1>1, <1>2, <1>4, <1>6, CheckpointReads

\* The head of the queue: one of its copies is written, or it is complete.
LEMMA HeadReads ==
  ASSUME JournalInv, JournalInv', ReadInv, Up, Runs, Up', j.queue # <<>>,
         Becomes(IF Done(j, j.queue[1]) THEN PopHead(j) ELSE FlushOldest(j)),
         UNCHANGED <<home, safe, want, ndata>>
  PROVE  ReadInv'
<1>1. Linked(j, j.cur, {}, {}) /\ Laid(j, j.cur, slot, Room) /\ Room \in Nat
  BY Begins
<1>2. ASSUME Done(j, j.queue[1]) PROVE ReadInv'
  <2> DEFINE u == PopHead(j)
  <2>1. Becomes(u)
    BY <1>2
  <2>2. Down(u, j, j.cur, slot, Room) /\ Calm(u, j) /\ u.dq = j.dq /\ u.buf = j.buf
    BY <1>1, <1>2, PopHeadKeeps
  <2> HIDE DEF u
  <2> QED BY <2>1, <2>2, CheckpointReads
<1>3. ASSUME ~Done(j, j.queue[1]) PROVE ReadInv'
  <2> DEFINE u == FlushOldest(j)
  <2>1. Becomes(u)
    BY <1>3
  <2>2. /\ Down(u, j, j.cur, slot, Room)
        /\ \E b \in Blocks : \E t, v : Moved(u, j, j.cur, b, t, v)
    BY <1>1, <1>3, FlushOldestKeeps
  <2> HIDE DEF u
  <2> QED BY <2>1, <2>2, CheckpointReads
<1> QED BY <1>2, <1>3

LEMMA RoomFlushReads ==
  ASSUME JournalInv, JournalInv', ReadInv, RoomFlush
  PROVE  ReadInv'
<1>1. /\ pc = "room" /\ Runs /\ j.queue # <<>> /\ UNCHANGED <<home, safe, want, ndata, pc>>
      /\ Becomes(IF Done(j, j.queue[1]) THEN PopHead(j) ELSE FlushOldest(j))
  BY DEF RoomFlush, device
<1>2. Up /\ Up'
  BY <1>1 DEF Up
<1> QED BY <1>1, <1>2, HeadReads

LEMMA StopFlushReads ==
  ASSUME JournalInv, JournalInv', ReadInv, StopFlush
  PROVE  ReadInv'
<1>1. /\ pc \in {"up", "stop"} /\ pc' = "stop" /\ Runs /\ j.queue # <<>>
      /\ UNCHANGED <<home, safe, want, ndata>>
      /\ Becomes(IF Done(j, j.queue[1]) THEN PopHead(j) ELSE FlushOldest(j))
  BY DEF StopFlush, device, history
<1>2. Up /\ Up'
  BY <1>1 DEF Up
<1> QED BY <1>1, <1>2, HeadReads

\* Steps of a commit before its end.
LEMMA CommitReads ==
  ASSUME JournalInv, JournalInv', ReadInv, AllocBlock \/ RoomEnd \/ WriteBlock
  PROVE  ReadInv'
<1>1. HomeWrites(<<>>) = {}
  BY DEF HomeWrites
<1>2. ASSUME AllocBlock PROVE ReadInv'
  <2>1. pc = "commit" /\ Runs /\ pc' \in {"room", "slot"} /\ UNCHANGED <<home, safe, want, ndata, wq>>
    BY <1>2 DEF AllocBlock, device, history
  <2>2. Up /\ Up' /\ wq' = <<>>
    BY <2>1 DEF Up, Runs
  <2>3. Still(j', j) /\ j'.cur = j.cur /\ j'.trans[j.cur].revoke = j.trans[j.cur].revoke
    BY <1>2, AllocBlockKeeps
  <2> QED BY <1>1, <2>1, <2>2, <2>3, StillReads
<1>3. ASSUME RoomEnd PROVE ReadInv'
  <2>1. pc = "room" /\ Runs /\ pc' = "slot" /\ UNCHANGED <<home, safe, want, ndata, wq, j>>
    BY <1>3 DEF RoomEnd, device, history
  <2>2. Up /\ Up' /\ wq' = <<>>
    BY <2>1 DEF Up, Runs
  <2> QED BY <1>1, <2>1, <2>2, StillReads DEF Still
<1>4. ASSUME WriteBlock PROVE ReadInv'
  <2>1. pc = "slot" /\ Runs /\ pc' = "commit" /\ UNCHANGED <<home, safe, want, ndata>>
    BY <1>4 DEF WriteBlock, device, history
  <2>2. Up /\ Up'
    BY <2>1 DEF Up
  <2>3. /\ Still(j', j) /\ j'.cur = j.cur /\ j'.trans[j.cur].revoke = j.trans[j.cur].revoke
        /\ HomeWrites(wq') = {}
    BY <1>4, WriteBlockKeeps
  <2> QED BY <2>1, <2>2, <2>3, StillReads
<1> QED BY <1>2, <1>3, <1>4

LEMMA SetBlockDirtyReads ==
  ASSUME JournalInv, JournalInv', ReadInv, NEW b \in Blocks, SetBlockDirty(b)
  PROVE  ReadInv'
<1> DEFINE c == j.cur
           s == j
           u == j'
           d == s.dq[b]
<1>1. /\ pc = "up" /\ pc' = "up" /\ Runs /\ c # 0 /\ ~FreedHere(b) /\ s.buf[b].owner # c
      /\ UNCHANGED <<home, safe, ndata, wq>> /\ want' = [want EXCEPT ![b] = c] /\ Up /\ Up'
  BY DEF SetBlockDirty, device, Up
<1>2. Dirtied(u, s, c, b)
  BY SetBlockDirtyKeeps
<1>3. /\ InOrder(s, c) /\ Session(s, log, <<>>, ntrans, slot, Room) /\ Typed(s) /\ wq = <<>>
      /\ c \in Trans /\ BlockLinked(s, c, {}, {}, b)
      /\ \A y \in Blocks : ReadAt(s, c, home, <<>>, safe[y], want[y], y)
  BY <1>1, ReadBegins
<1>4. u.cur = c /\ Shape(u) /\ \A y \in Blocks : BlockLinked(u, c, {}, {}, y)
  BY <1>1, <1>2, LinksAfter DEF Dirtied
<1>5. DOMAIN home = Blocks /\ DOMAIN safe = Blocks /\ DOMAIN want = Blocks /\ ndata \in Nat
  BY DEF ReadInv
<1>6. c \notin ToSet(d)
  <2>1. ~Contains(s.trans[c].bufq, b)
    BY <1>1 DEF FreedHere
  <2>2. b \notin ToSet(s.trans[c].bufq)
    BY <2>1 DEF Contains, ToSet
  <2> QED BY <1>3, <2>2 DEF BlockLinked
<1>7. /\ InOrder(u, c)
      /\ \A y \in Blocks : y # b => /\ u.dq[y] = s.dq[y] /\ u.buf[y] = s.buf[y] /\ u.rec[y] = s.rec[y]
                                    /\ (y \in u.trans[c].revoke <=> y \in s.trans[c].revoke)
      /\ u.dq[b] = Append(d, c) /\ u.rec[b] = c /\ u.buf[b].val = c /\ u.buf[b].owner = c
  BY <1>2, <1>3 DEF Dirtied, InOrder
<1>8. \A t \in ToSet(d) : t < c
  <2> TAKE t \in ToSet(d)
  <2>1. t \in ToSet(s.queue)
    BY <1>3, <1>6, CopyIs
  <2> QED BY <1>1, <1>3, <2>1 DEF InOrder
<1>9. d \in Seq(Trans) /\ d \in Seq(Int) /\ c \in Int /\ ToSet(d) \subseteq Int
  <2>1. d \in Seq(Trans)
    BY <1>3 DEF Typed
  <2>2. Trans \subseteq Int
    BY JournalAssumption DEF Trans
  <2> HIDE DEF d
  <2>3. d \in Seq(Int)
    BY <2>1, TransInt
  <2>4. ToSet(d) \subseteq Trans
    BY <2>1 DEF ToSet
  <2>5. c \in Trans
    BY <1>3
  <2> HIDE DEF c
  <2> QED BY <2>1, <2>2, <2>3, <2>4, <2>5
<1>10. want'[b] = c /\ (\A y \in Blocks : y # b => want'[y] = want[y]) /\ DOMAIN want' = Blocks
  BY <1>1, <1>5
<1> DEFINE x == want'
<1> HIDE DEF s, u, d, c, x
<1>11. ASSUME NEW y \in Blocks, y # b PROVE ReadAt(u, c, home, <<>>, safe[y], x[y], y)
  <2>1. ReadAt(s, c, home, <<>>, safe[y], x[y], y)
    BY <1>3, <1>10, <1>11 DEF x
  <2> QED BY <1>4, <1>7, <1>11, <2>1, StaysRead
<1>12. ReadAt(u, c, home, <<>>, safe[b], x[b], b)
  <2>1. ToSet(Append(d, c)) = ToSet(d) \cup {c}
    BY <1>3, <1>6, <1>9, LastFacts DEF BlockLinked, d
  <2>2. Old(u, c, b) = Old(s, c, b)
    BY <1>6, <1>7, <2>1 DEF Old, d
  <2>3. SafeAt(u, c, home, <<>>, safe[b], b)
    BY <1>3, <2>2 DEF ReadAt, SafeAt
  <2>4. WantAt(u, c, safe[b], x[b], b)
    BY <1>1, <1>7, <1>10 DEF WantAt, x
  <2>5. Sorted(d)
    BY <1>3 DEF ReadAt, Ranked, d
  <2>6. Sorted(Append(d, c))
    BY <1>8, <1>9, <2>5, AppendSorted
  <2>7. \A t \in ToSet(d) \cup {c} : t <= c
    BY <1>8, <1>9
  <2>8. Ranked(u, b)
    BY <1>7, <2>1, <2>6, <2>7 DEF Ranked
  <2> QED BY <1>7, <2>3, <2>4, <2>8 DEF ReadAt
<1>13. \A y \in Blocks : ReadAt(u, c, home, <<>>, safe[y], x[y], y)
  BY <1>11, <1>12
<1> QED BY <1>1, <1>3, <1>4, <1>5, <1>7, <1>10, <1>13, ReadEnds DEF u, x

LEMMA FreeBlockReads ==
  ASSUME JournalInv, JournalInv', ReadInv, NEW b \in Blocks, FreeBlock(b)
  PROVE  ReadInv'
<1> DEFINE c == j.cur
           s == j
           u == j'
           d == s.dq[b]
<1>1. /\ pc = "up" /\ pc' = "up" /\ Runs /\ c # 0
      /\ UNCHANGED <<home, safe, ndata, wq>> /\ want' = [want EXCEPT ![b] = Free] /\ Up /\ Up'
  BY DEF FreeBlock, device, Up
<1>2. /\ u.dq = s.dq /\ u.rec = s.rec /\ u.queue = s.queue /\ u.cur = c
      /\ u.buf[b] = NoBuf /\ \A y \in Blocks : y # b => u.buf[y] = s.buf[y]
      /\ u.trans[c].revoke = IF TryRevoke(b) THEN s.trans[c].revoke \cup {b} ELSE s.trans[c].revoke
  BY FreeBlockKeeps
<1>3. /\ InOrder(s, c) /\ Typed(s) /\ wq = <<>> /\ c \in Trans /\ BlockLinked(s, c, {}, {}, b)
      /\ \A y \in Blocks : ReadAt(s, c, home, <<>>, safe[y], want[y], y)
  BY <1>1, ReadBegins
<1>4. Shape(u) /\ \A y \in Blocks : BlockLinked(u, c, {}, {}, y)
  BY <1>1, <1>2, LinksAfter
<1>5. DOMAIN home = Blocks /\ DOMAIN safe = Blocks /\ DOMAIN want = Blocks /\ ndata \in Nat
  BY DEF ReadInv
<1>6. TryRevoke(b) <=> s.rec[b] # 0 /\ (s.rec[b] = c => Len(d) > 1)
  BY DEF TryRevoke
<1>7. want'[b] = Free /\ (\A y \in Blocks : y # b => want'[y] = want[y]) /\ DOMAIN want' = Blocks
  BY <1>1, <1>5
<1>8. InOrder(u, c)
  BY <1>2, <1>3 DEF InOrder
<1> DEFINE x == want'
<1>9. Old(s, c, b) # {} => b \in u.trans[c].revoke
  <2> SUFFICES ASSUME NEW t \in ToSet(d), t # c PROVE TryRevoke(b)
    BY <1>2 DEF Old
  <2>1. d \in Seq(Trans) /\ 0 \notin Trans
    BY <1>3, JournalAssumption DEF Typed, Trans
  <2>2. d # <<>> /\ s.rec[b] \in ToSet(d)
    BY <1>3 DEF BlockLinked, ToSet
  <2>3. s.rec[b] # 0
    BY <2>1, <2>2 DEF ToSet
  <2>4. ASSUME s.rec[b] = c PROVE Len(d) > 1
    <3> HIDE DEF c
    <3> DEFINE e == d
    <3>1. e \in Seq(Trans) /\ c \in ToSet(e) /\ t \in ToSet(e)
      BY <2>1, <2>2, <2>4
    <3> HIDE DEF e
    <3>2. PICK i, k \in 1 .. Len(e) : e[i] = c /\ e[k] = t
      BY <3>1 DEF ToSet
    <3>3. i # k /\ Len(e) \in Nat
      BY <3>1, <3>2
    <3>4. Len(e) > 1
      BY <3>2, <3>3
    <3> QED BY <3>4 DEF e
  <2> QED BY <1>6, <2>3, <2>4
<1> HIDE DEF s, u, d, c, x
<1>10. ASSUME NEW y \in Blocks, y # b PROVE ReadAt(u, c, home, <<>>, safe[y], x[y], y)
  <2>1. ReadAt(s, c, home, <<>>, safe[y], x[y], y)
    BY <1>3, <1>7, <1>10 DEF x
  <2>2. y \in u.trans[c].revoke <=> y \in s.trans[c].revoke
    BY <1>2, <1>10
  <2> QED BY <1>2, <1>4, <1>10, <2>1, <2>2, StaysRead
<1>11. ReadAt(u, c, home, <<>>, safe[b], x[b], b)
  <2>1. Old(u, c, b) = Old(s, c, b)
    BY <1>2 DEF Old
  <2>2. SafeAt(u, c, home, <<>>, safe[b], b)
    BY <1>3, <2>1 DEF ReadAt, SafeAt
  <2>3. u.buf[b].val = 0 /\ u.buf[b].owner = 0
    BY <1>2 DEF NoBuf
  <2>4. WantAt(u, c, safe[b], x[b], b)
    BY <1>1, <1>7, <1>9, <2>1, <2>3 DEF WantAt, x
  <2>5. Ranked(u, b)
    BY <1>2, <1>3 DEF ReadAt, Ranked
  <2> QED BY <2>2, <2>3, <2>4, <2>5 DEF ReadAt
<1>12. \A y \in Blocks : ReadAt(u, c, home, <<>>, safe[y], x[y], y)
  BY <1>10, <1>11
<1> QED BY <1>1, <1>2, <1>3, <1>5, <1>7, <1>8, <1>12, ReadEnds DEF u, x

LEMMA WriteDataReads ==
  ASSUME JournalInv, JournalInv', ReadInv, NEW b \in Blocks, WriteData(b)
  PROVE  ReadInv'
<1> DEFINE c == j.cur
           s == j
           n == Data(ndata + 1)
<1>1. /\ pc = "up" /\ pc' = "up" /\ Runs /\ want[b] = Free /\ ~FreedHere(b)
      /\ home' = [home EXCEPT ![b] = n] /\ want' = [want EXCEPT ![b] = n] /\ safe' = [safe EXCEPT ![b] = n]
      /\ ndata' = ndata + 1 /\ j' = s /\ wq' = wq /\ Up /\ Up'
  BY DEF WriteData, Up
<1>2. /\ InOrder(s, c) /\ Typed(s) /\ wq = <<>> /\ c \in Trans \cup {0} /\ Linked(s, c, {}, {})
      /\ \A y \in Blocks : BlockLinked(s, c, {}, {}, y)
      /\ \A y \in Blocks : ReadAt(s, c, home, <<>>, safe[y], want[y], y)
  BY <1>1, ReadBegins
<1>3. DOMAIN home = Blocks /\ DOMAIN safe = Blocks /\ DOMAIN want = Blocks /\ ndata \in Nat
  BY DEF ReadInv
<1>4. n \in Nat /\ n # Free /\ Trans \subseteq Nat \ {0} /\ Free \notin Trans /\ Free # 0 /\ ndata' \in Nat
  BY <1>1, <1>3, JournalAssumption DEF Data, Free, Trans
<1>5. safe[b] = Free /\ (c # 0 /\ s.buf[b].owner # c => b \notin ToSet(s.trans[c].bufq))
  <2>1. ~Contains(s.trans[c].bufq, b) => b \notin ToSet(s.trans[c].bufq)
    BY DEF Contains, ToSet
  <2>2. safe[b] = Free /\ (c # 0 /\ s.buf[b].owner # c => ~Contains(s.trans[c].bufq, b))
    BY <1>1, Zenon DEF FreedHere
  <2> QED BY <2>1, <2>2, Zenon
<1> DEFINE h == home'
           v == safe'
           x == want'
<1>6. /\ DOMAIN h = Blocks /\ DOMAIN v = Blocks /\ DOMAIN x = Blocks
      /\ h[b] = n /\ v[b] = n /\ x[b] = n
      /\ \A y \in Blocks : y # b => h[y] = home[y] /\ v[y] = safe[y] /\ x[y] = want[y]
  BY <1>1, <1>3
<1>7. HomeWrites(<<>>) = {}
  BY DEF HomeWrites
<1>8. s.cur = c
  OBVIOUS
<1> HIDE DEF c, s, n, h, v, x
<1>9. ASSUME NEW y \in Blocks, y # b PROVE ReadAt(s, c, h, <<>>, v[y], x[y], y)
  <2>1. ReadAt(s, c, home, <<>>, v[y], x[y], y)
    BY <1>2, <1>6, <1>9
  <2>2. Comes(home, <<>>, y, v[y]) => Comes(h, <<>>, y, v[y])
    BY <1>6, <1>7, <1>9, ComesNone
  <2>3. Shape(s)
    BY <1>2 DEF Linked
  <2> QED BY <1>2, <2>1, <2>2, <2>3, StaysRead
<1>10. ReadAt(s, c, h, <<>>, v[b], x[b], b)
  <2>1. s.dq[b] \in Seq(Trans) /\ ToSet(s.dq[b]) \subseteq Trans
    BY <1>2 DEF Typed, ToSet
  <2>2. SafeAt(s, c, home, <<>>, Free, b) /\ WantAt(s, c, Free, Free, b)
    BY <1>1, <1>2, <1>5 DEF ReadAt
  <2>3. Old(s, c, b) = {}
    BY <1>4, <2>1, <2>2 DEF SafeAt, Old
  <2>4. c # 0 => s.buf[b].owner # c
    BY <1>2, <1>4, <2>2 DEF WantAt
  <2>5. c \notin ToSet(s.dq[b])
    <3>1. CASE c = 0
      BY <1>4, <2>1, <3>1
    <3>2. CASE c # 0
      BY <1>2, <1>5, <2>4, <3>2 DEF BlockLinked
    <3> QED BY <3>1, <3>2
  <2>6. SafeAt(s, c, h, <<>>, v[b], b)
    BY <1>6, <1>7, <2>3, ComesNone DEF SafeAt
  <2>7. WantAt(s, c, v[b], x[b], b)
    BY <1>4, <1>6, <2>3, <2>5 DEF WantAt
  <2> QED BY <1>2, <2>6, <2>7 DEF ReadAt
<1>11. \A y \in Blocks : ReadAt(s, c, h, <<>>, v[y], x[y], y)
  BY <1>9, <1>10
<1> QED BY <1>1, <1>2, <1>4, <1>6, <1>8, <1>11, ReadEnds DEF h, v, x

\* The last element of an ordered sequence is its greatest.
LEMMA SortedLast ==
  ASSUME NEW q \in Seq(Trans), Sorted(q), q # <<>>
  PROVE  Last(q) \in ToSet(q) /\ \A t \in ToSet(q) : t <= Last(q)
<1>1. q \in Seq(Int)
  BY TransInt
<1>2. Len(q) \in DOMAIN q /\ Last(q) = q[Len(q)] /\ Len(q) \in Nat
  BY DEF Last
<1>3. ASSUME NEW k \in DOMAIN q PROVE q[k] <= q[Len(q)]
  <2>1. k \in 1 .. Len(q) /\ q[k] \in Int
    BY <1>1
  <2>2. CASE k = Len(q)
    BY <2>1, <2>2
  <2>3. CASE k # Len(q)
    <3>1. k < Len(q)
      BY <1>2, <2>1, <2>3
    <3>2. q[k] < q[Len(q)] /\ q[Len(q)] \in Int
      BY <1>1, <1>2, <3>1 DEF Sorted
    <3> QED BY <2>1, <3>2
  <2> QED BY <2>2, <2>3
<1> QED BY <1>2, <1>3 DEF ToSet

\* The record is of the newest copy as long as there is one.
LEMMA RecordStays ==
  ASSUME NEW s, NEW u, NEW c, NEW b \in Blocks, Shape(u), BlockLinked(u, c, {}, {}, b),
         u.dq[b] = s.dq[b], u.rec[b] \in {0, s.rec[b]}
  PROVE  (u.dq[b] # <<>> => u.rec[b] = s.rec[b]) /\ (Ranked(s, b) => Ranked(u, b))
<1>1. u.dq[b] \in Seq(Trans) /\ 0 \notin Trans
  BY ShapeTyped, JournalAssumption DEF Typed, Trans
<1>2. ASSUME u.dq[b] # <<>> PROVE u.rec[b] = s.rec[b]
  <2>1. u.rec[b] \in ToSet(u.dq[b])
    BY <1>2 DEF BlockLinked
  <2> QED BY <1>1, <2>1 DEF ToSet
<1>3. u.dq[b] = <<>> => ToSet(u.dq[b]) = {}
  BY DEF ToSet
<1> QED BY <1>2, <1>3 DEF Ranked

\* A block that the running transaction gives up: the newest of the older copies takes
\* over, from the log l.
Older(u, s, c, l, b) ==
  LET a == IF u.dq[b] = <<>> THEN 0 ELSE Last(u.dq[b])
  IN  /\ u.dq[b] = Without(s.dq[b], {c}) /\ u.rec[b] \in {0, a}
      /\ u.buf[b] = NoBuf \/ (a # 0 /\ u.buf[b] = [val |-> l[s.trans[a].lba[b]].val, owner |-> a])

LEMMA GivenUpBlock ==
  ASSUME NEW s, NEW n, NEW at, NEW max, Session(s, log, <<>>, n, at, max), NEW c \in Trans, c = s.cur,
         NEW u, NEW d, NEW b \in Blocks, BlockLinked(u, d, {}, {}, b), Shape(u), Ranked(s, b),
         Older(u, s, c, log, b)
  PROVE  /\ ToSet(u.dq[b]) = Old(s, c, b) /\ Ranked(u, b) /\ u.buf[b].val = u.buf[b].owner
         /\ u.buf[b].owner \in Old(s, c, b) \cup {0}
<1>1. s.dq[b] \in Seq(Trans) /\ u.dq[b] \in Seq(Trans) /\ 0 \notin Trans
  <2>1. Typed(s) /\ Typed(u)
    BY ShapeTyped DEF Session, Linked
  <2> QED BY <2>1, JournalAssumption DEF Typed, Trans
<1>2. u.dq[b] = Without(s.dq[b], {c})
  BY DEF Older
<1>3. ToSet(u.dq[b]) = Old(s, c, b)
  BY <1>1, <1>2, WithoutFacts DEF Old
<1>4. Sorted(u.dq[b])
  <2>1. s.dq[b] \in Seq(Int) /\ Sorted(s.dq[b])
    BY <1>1, TransInt DEF Ranked
  <2> QED BY <1>2, <2>1, WithoutSorted
<1> DEFINE a == IF u.dq[b] = <<>> THEN 0 ELSE Last(u.dq[b])
<1>5. /\ u.rec[b] \in {0, a}
      /\ u.buf[b] = NoBuf \/ (a # 0 /\ u.buf[b] = [val |-> log[s.trans[a].lba[b]].val, owner |-> a])
  BY DEF Older
<1>6. CASE u.dq[b] = <<>>
  <2>1. u.buf[b] = NoBuf /\ ToSet(u.dq[b]) = {}
    BY <1>1, <1>5, <1>6, NonEmpty
  <2>2. Ranked(u, b)
    BY <1>4, <2>1 DEF Ranked
  <2> QED BY <1>3, <2>1, <2>2 DEF NoBuf
<1>7. CASE u.dq[b] # <<>>
  <2>1. a \in ToSet(u.dq[b]) /\ \A t \in ToSet(u.dq[b]) : t <= a
    BY <1>1, <1>4, <1>7, SortedLast
  <2> HIDE DEF a
  <2>2. u.rec[b] = a
    <3>1. u.rec[b] \in ToSet(u.dq[b])
      BY <1>7 DEF BlockLinked
    <3>2. u.rec[b] \in Trans
      BY <1>1, <3>1 DEF ToSet
    <3> QED BY <1>1, <1>5, <3>2
  <2>3. log[s.trans[a].lba[b]].val = a
    <3>1. a \in ToSet(s.dq[b]) /\ a # s.cur
      BY <1>3, <2>1 DEF Old
    <3> QED BY <3>1, CopyIs
  <2>4. Ranked(u, b)
    BY <1>4, <2>1, <2>2 DEF Ranked
  <2> QED BY <1>3, <1>5, <2>1, <2>3, <2>4 DEF NoBuf
<1> QED BY <1>6, <1>7

LEMMA GivenUpOlder ==
  ASSUME NEW s, NEW u, NEW c, NEW R, NEW B, GivenUp(u, s, c, R, B), NEW b, b \in B
  PROVE  Older(u, s, c, log, b)
BY DEF GivenUp, Older

LEMMA AbortReads ==
  ASSUME JournalInv, JournalInv', ReadInv, "abort" \notin Explored, Abort
  PROVE  ReadInv'
<1> DEFINE c == j.cur
           s == j
           u == j'
           B == ToSet(s.trans[c].bufq)
<1>1. /\ pc = "up" /\ pc' = "up" /\ Runs /\ c # 0 /\ want' = safe
      /\ UNCHANGED <<home, safe, ndata, wq>> /\ Up /\ Up'
  BY DEF Abort, device, Up
<1>2. /\ u.cur = 0 /\ GivenUp(u, s, c, {}, B)
      /\ (\E b \in Blocks : u.dq[b] # <<>> /\ u.buf[b] = NoBuf) => "abort" \in flawed'
  BY AbortKeeps
<1>3. DOMAIN home = Blocks /\ DOMAIN safe = Blocks /\ DOMAIN want = Blocks /\ ndata \in Nat
  BY DEF ReadInv
<1>4. /\ InOrder(s, c) /\ Session(s, log, <<>>, ntrans, slot, Room) /\ Typed(s) /\ wq = <<>>
      /\ c \in Trans /\ s.cur = c /\ \A b \in Blocks : BlockLinked(s, c, {}, {}, b)
      /\ \A b \in Blocks : ReadAt(s, c, home, <<>>, safe[b], want[b], b)
  BY <1>1, ReadBegins
<1>5. Shape(u) /\ Typed(u) /\ \A b \in Blocks : BlockLinked(u, 0, {}, {}, b)
  BY <1>1, <1>2, LinksAfter
<1> HIDE DEF c, s, u, B
<1>6. InOrder(u, 0)
  BY <1>2, <1>4 DEF InOrder, GivenUp
<1>7. Trans \subseteq Nat \ {0} /\ Free \notin Trans
  BY JournalAssumption DEF Trans, Free
<1>8. ASSUME "abort" \notin flawed', NEW b \in Blocks
      PROVE  ReadAt(u, 0, home, <<>>, safe[b], safe[b], b)
  <2> DEFINE v == safe[b]
  <2>1. s.dq[b] \in Seq(Trans) /\ u.dq[b] \in Seq(Trans)
    BY <1>4, <1>5 DEF Typed
  <2>2. ToSet(s.dq[b]) \subseteq Trans /\ 0 \notin ToSet(u.dq[b]) /\ (u.dq[b] = <<>> <=> ToSet(u.dq[b]) = {})
    <3>1. \A q \in Seq(Trans) : ToSet(q) \subseteq Trans
      BY DEF ToSet
    <3> QED BY <1>7, <2>1, <3>1, NonEmpty
  <2>3. Ranked(s, b) /\ s.buf[b].val = s.buf[b].owner /\ SafeAt(s, c, home, <<>>, v, b)
    BY <1>4 DEF ReadAt
  <2>4. ToSet(u.dq[b]) = Old(s, c, b) /\ Ranked(u, b) /\ u.buf[b].val = u.buf[b].owner
    <3>1. CASE b \in B
      <4>1. Older(u, s, c, log, b)
        BY <1>2, <3>1, GivenUpOlder
      <4>2. Session(s, log, <<>>, ntrans, slot, Room) /\ c \in Trans /\ c = s.cur
        BY <1>4
      <4>3. Ranked(s, b) /\ Shape(u) /\ BlockLinked(u, 0, {}, {}, b)
        BY <1>5, <2>3
      <4> QED BY <4>1, <4>2, <4>3, GivenUpBlock
    <3>2. CASE b \notin B
      <4>1. c \notin ToSet(s.dq[b])
        BY <1>4, <3>2 DEF BlockLinked, B
      <4>2. u.dq[b] = s.dq[b] /\ u.buf[b] = s.buf[b] /\ u.rec[b] \in {0, s.rec[b]}
        BY <1>2, <3>2 DEF GivenUp
      <4>3. Ranked(u, b)
        BY <1>5, <2>3, <4>2, RecordStays
      <4> QED BY <2>3, <4>1, <4>2, <4>3 DEF Old
    <3> QED BY <3>1, <3>2
  <2>5. Old(u, 0, b) = Old(s, c, b)
    BY <2>2, <2>4 DEF Old
  <2>6. SafeAt(u, 0, home, <<>>, v, b)
    BY <2>3, <2>5 DEF SafeAt
  <2>7. Old(u, 0, b) # {} => u.buf[b].owner = u.rec[b]
    <3> SUFFICES ASSUME Old(u, 0, b) # {} PROVE u.buf[b].owner = u.rec[b]
      OBVIOUS
    <3>1. u.dq[b] # <<>>
      BY <2>2 DEF Old
    <3>2. u.buf[b] # NoBuf
      BY <1>2, <1>8, <3>1
    <3>3. u.buf[b].owner # 0
      <4>1. PICK V : u \in Sessions(V)
        BY <1>5 DEF Shape
      <4> DEFINE z == u.buf[b]
      <4>2. z \in [val : V, owner : Trans \cup {0}]
        BY <4>1 DEF Sessions
      <4>3. z # NoBuf /\ z.val = z.owner
        BY <2>4, <3>2
      <4> HIDE DEF z
      <4>4. z = [val |-> z.val, owner |-> z.owner]
        BY <4>2
      <4>5. z.owner # 0
        BY <4>3, <4>4 DEF NoBuf
      <4> QED BY <4>5 DEF z
    <3> QED BY <1>5, <3>3 DEF BlockLinked
  <2>8. v = Free => Old(u, 0, b) = {}
    BY <1>7, <2>2, <2>5, <2>6 DEF SafeAt, Old
  <2>9. WantAt(u, 0, v, v, b)
    BY <2>2, <2>7, <2>8 DEF WantAt
  <2> QED BY <2>4, <2>6, <2>9 DEF ReadAt
<1>9. Unflawed' => "abort" \notin flawed'
  BY DEF Unflawed
<1> QED BY <1>1, <1>2, <1>3, <1>4, <1>6, <1>8, <1>9, Zenon DEF ReadInv, u

LEMMA CommitBeginReads ==
  ASSUME JournalInv, JournalInv', ReadInv, CommitBegin
  PROVE  ReadInv'
<1> DEFINE c == j.cur
           s == j
           u == j'
           d == u.cur
           R == s.trans[c].revoke
           B == {b \in ToSet(s.trans[c].bufq) : s.buf[b].owner # c}
           v == safe'
<1>1. pc = "up" /\ Runs /\ c # 0 /\ UNCHANGED <<home, want, ndata, wq>>
  BY DEF CommitBegin, device
<1>2. pc' \in {"up", "commit"} /\ (v = safe \/ v = want)
  BY Zenon, <1>1 DEF CommitBegin
<1>3. Up /\ Up' /\ pc' # "mounted"
  BY <1>1, <1>2 DEF Up
<1>4. /\ GivenUp(u, s, c, R, B)
      /\ \/ d = c /\ u.trans[c].revoke = R /\ v = safe
         \/ d = 0 /\ v = want /\ R = {} /\ \A b \in Blocks : c \notin ToSet(u.dq[b])
  BY CommitBeginKeeps
<1>5. DOMAIN home = Blocks /\ DOMAIN v = Blocks /\ DOMAIN want = Blocks /\ ndata \in Nat
  BY <1>2 DEF ReadInv
<1>6. /\ InOrder(s, c) /\ Session(s, log, <<>>, ntrans, slot, Room) /\ Typed(s) /\ wq = <<>>
      /\ c \in Trans /\ s.cur = c /\ \A b \in Blocks : BlockLinked(s, c, {}, {}, b)
      /\ \A b \in Blocks : ReadAt(s, c, home, <<>>, safe[b], want[b], b)
  BY <1>1, <1>3, ReadBegins
<1>7. Shape(u) /\ Typed(u) /\ \A b \in Blocks : BlockLinked(u, d, {}, {}, b)
  BY <1>3, LinksAfter
<1> HIDE DEF c, s, u, R, B, v, d
<1>8. InOrder(u, d)
  BY <1>4, <1>6 DEF InOrder, GivenUp
<1>9. Trans \subseteq Nat \ {0} /\ Free \notin Trans /\ c # 0
  BY <1>1, JournalAssumption DEF Trans, Free
<1>10. ASSUME NEW b \in Blocks PROVE ReadAt(u, d, home, <<>>, v[b], want[b], b)
  <2> DEFINE x == want[b]
             w == safe[b]
  <2>1. s.dq[b] \in Seq(Trans) /\ u.dq[b] \in Seq(Trans) /\ s.buf[b].owner \in Trans \cup {0}
    BY <1>6, <1>7 DEF Typed
  <2>2. /\ ToSet(s.dq[b]) \subseteq Trans /\ 0 \notin ToSet(u.dq[b]) /\ 0 \notin Trans
        /\ (u.dq[b] = <<>> <=> ToSet(u.dq[b]) = {}) /\ (s.dq[b] = <<>> <=> ToSet(s.dq[b]) = {})
    <3>1. \A q \in Seq(Trans) : ToSet(q) \subseteq Trans
      BY DEF ToSet
    <3> QED BY <1>9, <2>1, <3>1, NonEmpty
  <2>3. /\ Ranked(s, b) /\ s.buf[b].val = s.buf[b].owner /\ SafeAt(s, c, home, <<>>, w, b)
        /\ WantAt(s, c, w, x, b)
    BY <1>6 DEF ReadAt
  <2>4. ASSUME b \in B
        PROVE  /\ ToSet(u.dq[b]) = Old(s, c, b) /\ Ranked(u, b) /\ u.buf[b].val = u.buf[b].owner
               /\ u.buf[b].owner # c /\ x = Free
               /\ Old(s, c, b) # {} => b \in R
    <3>1. Older(u, s, c, log, b)
      BY <1>4, <2>4, GivenUpOlder
    <3>2. Session(s, log, <<>>, ntrans, slot, Room) /\ c \in Trans /\ c = s.cur
      BY <1>6
    <3>3. Ranked(s, b) /\ Shape(u) /\ BlockLinked(u, d, {}, {}, b)
      BY <1>7, <2>3
    <3>4. /\ ToSet(u.dq[b]) = Old(s, c, b) /\ Ranked(u, b) /\ u.buf[b].val = u.buf[b].owner
          /\ u.buf[b].owner \in Old(s, c, b) \cup {0}
      BY <3>1, <3>2, <3>3, GivenUpBlock
    <3>5. u.buf[b].owner # c
      BY <1>9, <3>4 DEF Old
    <3>6. s.buf[b].owner # c /\ b \in ToSet(s.trans[c].bufq)
      BY <2>4 DEF B
    <3>7. c \in ToSet(s.dq[b])
      BY <1>6, <3>6 DEF BlockLinked
    <3>8. x = Free /\ (Old(s, c, b) # {} => b \in R)
      BY <2>3, <3>6, <3>7 DEF WantAt, R
    <3> QED BY <3>4, <3>5, <3>8
  <2>5. ASSUME b \notin B
        PROVE  /\ u.dq[b] = s.dq[b] /\ u.buf[b] = s.buf[b] /\ u.rec[b] \in {0, s.rec[b]} /\ Ranked(u, b)
               /\ u.dq[b] # <<>> => u.rec[b] = s.rec[b]
    <3>1. u.dq[b] = s.dq[b] /\ u.buf[b] = s.buf[b] /\ u.rec[b] \in {0, s.rec[b]}
      BY <1>4, <2>5 DEF GivenUp
    <3> QED BY <1>7, <2>3, <3>1, RecordStays
  <2>6. ASSUME d = c, u.trans[c].revoke = R, v = safe PROVE ReadAt(u, c, home, <<>>, w, x, b)
    <3>1. CASE b \in B
      <4>1. Old(u, c, b) = Old(s, c, b)
        BY <2>4, <3>1 DEF Old
      <4>2. SafeAt(u, c, home, <<>>, w, b)
        BY <2>3, <4>1 DEF SafeAt
      <4>3. WantAt(u, c, w, x, b)
        BY <1>9, <2>4, <2>6, <3>1, <4>1 DEF WantAt
      <4> QED BY <2>4, <3>1, <4>2, <4>3 DEF ReadAt
    <3>2. CASE b \notin B
      <4>1. b \in u.trans[c].revoke <=> b \in s.trans[c].revoke
        BY <2>6 DEF R
      <4>2. ReadAt(s, c, home, <<>>, w, x, b) /\ BlockLinked(u, c, {}, {}, b)
        BY <1>6, <1>7, <2>6
      <4> QED BY <1>7, <2>5, <3>2, <4>1, <4>2, StaysRead
    <3> QED BY <3>1, <3>2
  <2>7. ASSUME d = 0, v = want, R = {}, c \notin ToSet(u.dq[b]) PROVE ReadAt(u, 0, home, <<>>, x, x, b)
    <3>1. CASE b \in B
      <4>1. Old(u, 0, b) = {} /\ x = Free
        BY <2>4, <2>7, <3>1 DEF Old
      <4>2. SafeAt(u, 0, home, <<>>, x, b) /\ WantAt(u, 0, x, x, b)
        BY <4>1 DEF SafeAt, WantAt
      <4> QED BY <2>4, <3>1, <4>2 DEF ReadAt
    <3>2. CASE b \notin B
      <4>1. c \notin ToSet(s.dq[b])
        BY <2>5, <2>7, <3>2
      <4>2. Old(s, c, b) = ToSet(s.dq[b]) /\ Old(u, 0, b) = ToSet(s.dq[b])
        BY <2>2, <2>5, <3>2, <4>1 DEF Old
      <4>3. s.buf[b].owner # c
        BY <1>6, <1>9, <4>1 DEF BlockLinked
      <4>4. \/ x = Free /\ Old(s, c, b) = {}
            \/ x = w /\ x # Free /\ (Old(s, c, b) # {} => s.buf[b].owner = s.rec[b])
        BY <2>3, <2>7, <4>3 DEF WantAt, R
      <4>5. SafeAt(u, 0, home, <<>>, x, b)
        BY <2>3, <4>2, <4>4 DEF SafeAt
      <4>6. WantAt(u, 0, x, x, b)
        BY <2>2, <2>5, <3>2, <4>2, <4>4 DEF WantAt
      <4> QED BY <2>3, <2>5, <3>2, <4>5, <4>6 DEF ReadAt
    <3> QED BY <3>1, <3>2
  <2>8. CASE d = c /\ u.trans[c].revoke = R /\ v = safe
    BY <2>6, <2>8
  <2>9. CASE d = 0 /\ v = want /\ R = {} /\ \A y \in Blocks : c \notin ToSet(u.dq[y])
    BY <2>7, <2>9
  <2> QED BY <1>4, <2>8, <2>9
<1> QED BY <1>1, <1>3, <1>5, <1>6, <1>8, <1>10, ReadEnds DEF u, v, d

LEMMA CommitEndReads ==
  ASSUME JournalInv, JournalInv', ReadInv, CommitEnd
  PROVE  ReadInv'
<1> DEFINE c == j.cur
           s == j
           u == j'
           q == wq'
           R == s.trans[c].revoke
<1>1. pc = "commit" /\ pc' = "up" /\ Runs /\ safe' = want /\ UNCHANGED <<home, want, ndata>>
  BY Zenon DEF CommitEnd, device
<1>2. Up /\ Up' /\ pc' # "mounted"
  BY <1>1 DEF Up
<1>3. DOMAIN home = Blocks /\ DOMAIN want = Blocks /\ ndata \in Nat
  BY DEF ReadInv
<1>4. /\ InOrder(s, c) /\ Session(s, log, <<>>, ntrans, slot, Room) /\ Typed(s)
      /\ c \in Trans \cup {0} /\ \A b \in Blocks : BlockLinked(s, c, {}, {}, b)
      /\ \A b \in Blocks : ReadAt(s, c, home, <<>>, safe[b], want[b], b)
  BY <1>1, <1>2, ReadBegins
<1>5. c # 0
  BY <1>1 DEF JournalInv, InCommit, Committing
<1>6. Orderly(s)
  BY <1>4, <1>5 DEF Orderly, InOrder, ReadAt
<1>7. u.cur = 0 /\ (\A b \in ToSet(s.trans[c].bufq) : s.buf[b].owner = c) /\ Concluded(u, s, q)
  BY <1>6, CommitEndKeeps
<1>8. Shape(u) /\ Typed(u) /\ \A b \in Blocks : BlockLinked(u, 0, {}, {}, b)
  BY <1>2, <1>7, LinksAfter
<1>9. \A b \in R : s.buf[b].owner # c
  BY <1>4, <1>5 DEF Session
<1>10. /\ Sorted(u.queue) /\ HomeWrites(q) = {}
       /\ \A b \in Blocks :
            /\ IF b \in R /\ s.dq[b] # <<>> THEN u.dq[b] = <<>> /\ u.buf[b] = NoBuf
               ELSE u.dq[b] = s.dq[b] /\ u.buf[b] = s.buf[b]
            /\ u.rec[b] \in {0, s.rec[b]}
  BY <1>7 DEF Concluded
<1> HIDE DEF c, s, u, q
<1>11. InOrder(u, 0)
  BY <1>10 DEF InOrder
<1>12. Trans \subseteq Nat \ {0} /\ Free \notin Trans /\ c \in Trans
  BY <1>4, <1>5, JournalAssumption DEF Trans, Free
<1>13. ASSUME NEW b \in Blocks PROVE ReadAt(u, 0, home, q, want[b], want[b], b)
  <2> DEFINE x == want[b]
             w == safe[b]
  <2>1. s.dq[b] \in Seq(Trans) /\ u.dq[b] \in Seq(Trans)
    BY <1>4, <1>8 DEF Typed
  <2>2. /\ ToSet(s.dq[b]) \subseteq Trans /\ ToSet(u.dq[b]) \subseteq Trans /\ 0 \notin Trans
        /\ (u.dq[b] = <<>> <=> ToSet(u.dq[b]) = {}) /\ (s.dq[b] = <<>> <=> ToSet(s.dq[b]) = {})
    <3>1. \A z \in Seq(Trans) : ToSet(z) \subseteq Trans
      BY DEF ToSet
    <3> QED BY <1>12, <2>1, <3>1, NonEmpty
  <2>3. /\ Ranked(s, b) /\ s.buf[b].val = s.buf[b].owner /\ SafeAt(s, c, home, <<>>, w, b)
        /\ WantAt(s, c, w, x, b) /\ BlockLinked(s, c, {}, {}, b)
    BY <1>4 DEF ReadAt
  <2>4. Old(u, 0, b) = ToSet(u.dq[b]) /\ Old(s, c, b) = ToSet(s.dq[b]) \ {c}
    BY <2>2 DEF Old
  <2>5. HomeWrites(<<>>) = {}
    BY DEF HomeWrites
  <2>6. ASSUME b \in R, s.dq[b] # <<>> PROVE ReadAt(u, 0, home, q, x, x, b)
    <3>1. u.dq[b] = <<>> /\ u.buf[b] = NoBuf
      BY <1>10, <2>6
    <3>2. ToSet(u.dq[b]) = {} /\ Old(u, 0, b) = {} /\ DOMAIN u.dq[b] = {}
      BY <2>2, <2>4, <3>1
    <3>3. s.buf[b].owner # c /\ b \notin ToSet(s.trans[c].bufq)
      BY <1>7, <1>9, <2>6
    <3>4. c \notin ToSet(s.dq[b])
      BY <1>12, <2>3, <3>3 DEF BlockLinked
    <3>5. Old(s, c, b) # {}
      BY <2>2, <2>4, <2>6, <3>4
    <3>6. x = Free
      BY <1>5, <2>3, <2>6, <3>3, <3>5 DEF WantAt
    <3>7. SafeAt(u, 0, home, q, x, b) /\ WantAt(u, 0, x, x, b)
      BY <3>2, <3>6 DEF SafeAt, WantAt
    <3>8. Ranked(u, b)
      BY <3>2 DEF Ranked, Sorted
    <3> QED BY <3>1, <3>7, <3>8 DEF ReadAt, NoBuf
  <2>7. ASSUME ~(b \in R /\ s.dq[b] # <<>>) PROVE ReadAt(u, 0, home, q, x, x, b)
    <3>1. u.dq[b] = s.dq[b] /\ u.buf[b] = s.buf[b] /\ u.rec[b] \in {0, s.rec[b]}
      BY <1>10, <2>7
    <3>2. (u.dq[b] # <<>> => u.rec[b] = s.rec[b]) /\ Ranked(u, b)
      BY <1>8, <2>3, <3>1, RecordStays
    <3>3. ASSUME x = c, s.buf[b].owner = c PROVE SafeAt(u, 0, home, q, x, b) /\ WantAt(u, 0, x, x, b)
      <4>1. s.rec[b] = c /\ c \in ToSet(s.dq[b])
        BY <1>5, <2>3, <3>3 DEF BlockLinked
      <4>2. \A t \in ToSet(s.dq[b]) : t <= c
        BY <2>3, <4>1 DEF Ranked
      <4>3. SafeAt(u, 0, home, q, x, b)
        BY <2>4, <3>1, <3>3, <4>1, <4>2 DEF SafeAt
      <4>4. WantAt(u, 0, x, x, b)
        BY <1>12, <2>2, <3>1, <3>2, <3>3, <4>1 DEF WantAt
      <4> QED BY <4>3, <4>4
    <3>4. ASSUME x = Free, s.buf[b].owner # c, Old(s, c, b) # {} => b \in R
          PROVE  SafeAt(u, 0, home, q, x, b) /\ WantAt(u, 0, x, x, b)
      <4>1. b \notin ToSet(s.trans[c].bufq)
        BY <1>7, <3>4
      <4>2. c \notin ToSet(s.dq[b])
        BY <1>12, <2>3, <4>1 DEF BlockLinked
      <4>3. ToSet(s.dq[b]) = {}
        BY <2>2, <2>4, <2>7, <3>4, <4>2
      <4>4. Old(u, 0, b) = {}
        BY <2>4, <3>1, <4>3
      <4> QED BY <3>4, <4>4 DEF SafeAt, WantAt
    <3>5. ASSUME x = w, x # Free, c \notin ToSet(s.dq[b]),
                 Old(s, c, b) # {} => s.buf[b].owner = s.rec[b]
          PROVE  SafeAt(u, 0, home, q, x, b) /\ WantAt(u, 0, x, x, b)
      <4>1. Old(u, 0, b) = Old(s, c, b)
        BY <2>4, <3>1, <3>5
      <4>2. Comes(home, <<>>, b, x) => Comes(home, q, b, x)
        BY <1>10, <2>5, ComesNone
      <4>3. SafeAt(u, 0, home, q, x, b)
        BY <2>3, <3>5, <4>1, <4>2 DEF SafeAt
      <4>4. 0 \notin ToSet(u.dq[b]) /\ (Old(u, 0, b) # {} => u.buf[b].owner = u.rec[b])
        BY <2>2, <2>4, <3>1, <3>2, <3>5, <4>1
      <4>5. WantAt(u, 0, x, x, b)
        BY <3>5, <4>4 DEF WantAt
      <4> QED BY <4>3, <4>5
    <3>6. SafeAt(u, 0, home, q, x, b) /\ WantAt(u, 0, x, x, b)
      BY <1>5, <2>3, <3>3, <3>4, <3>5 DEF WantAt, R
    <3> QED BY <2>3, <3>1, <3>2, <3>6 DEF ReadAt
  <2> QED BY <2>6, <2>7
<1> QED BY <1>1, <1>2, <1>3, <1>7, <1>11, <1>13, ReadEnds DEF u, q

\* When nothing is queued and no transaction runs, all that was acknowledged is at its place.
LEMMA AtRest ==
  ASSUME JournalInv, ReadInv, Up, Runs, j.cur = 0, j.queue = <<>>
  PROVE  Agrees(safe)
<1>1. /\ Session(j, log, <<>>, ntrans, slot, Room) /\ Typed(j)
      /\ \A b \in Blocks : ReadAt(j, 0, home, <<>>, safe[b], want[b], b)
  BY ReadBegins
<1>2. ASSUME NEW b \in Blocks PROVE safe[b] \in {Free, home[b]}
  <2>1. ToSet(j.queue) = {} /\ HomeWrites(<<>>) = {}
    BY DEF ToSet, HomeWrites
  <2>2. Old(j, 0, b) = {}
    <3>1. \A t \in ToSet(j.dq[b]) : t # 0 => t \in ToSet(j.queue)
      BY <1>1, CopyIs
    <3> QED BY <2>1, <3>1 DEF Old
  <2>3. safe[b] = Free \/ Comes(home, <<>>, b, safe[b])
    BY <1>1, <2>2 DEF ReadAt, SafeAt
  <2> QED BY <2>1, <2>3, ComesNone
<1> QED BY <1>2 DEF Agrees

\* The steps between the start of a session and its end.
Running(p) == p \notin {"down", "recovered"}

LEMMA RunRests ==
  ASSUME RestInv, Running(pc'), ncrash' = ncrash
  PROVE  RestInv'
BY DEF RestInv, Running

LEMMA RestSteps ==
  ASSUME JournalInv, ReadInv, RestInv, [JournalNext]_journalVars
  PROVE  RestInv'
<1>1. CASE Persist
  <2>1. /\ wq # <<>> /\ wq' = Tail(wq) /\ UNCHANGED <<pc, safe, flawed, ncrash>>
        /\ home' = IF Head(wq).dev = "home" THEN [home EXCEPT ![Head(wq).at] = Head(wq).val] ELSE home
    BY <1>1 DEF Persist, history
  <2>2. ASSUME wq = <<Write("sb", 0, 0)>> PROVE home' = home /\ wq' = <<>>
    <3>1. Head(wq).dev = "sb"
      BY <2>2 DEF Write
    <3> QED BY <2>1, <2>2, <3>1
  <2> QED BY <2>1, <2>2 DEF RestInv, Agrees, Unflawed
<1>2. CASE Crash
  BY <1>2 DEF RestInv, Crash
<1>3. CASE Recover
  BY <1>3 DEF RestInv, Recover, history
<1>4. CASE StopEnd
  <2>1. /\ pc \in {"up", "stop"} /\ Runs /\ j.cur = 0 /\ j.queue = <<>> /\ pc' = "recovered"
        /\ wq' = <<Write("sb", 0, 0)>> /\ UNCHANGED <<home, safe, ncrash>>
    BY <1>4 DEF StopEnd, device, history
  <2>2. Agrees(safe)
    BY <2>1, AtRest DEF Up
  <2> QED BY <2>1, <2>2 DEF RestInv, Agrees
<1>5. CASE Start \/ NewTrans \/ Abort
  BY <1>5, RunRests DEF Start, NewTrans, Abort, Running
<1>6. CASE AllocBlock \/ RoomEnd \/ WriteBlock
  <2>1. ncrash' = ncrash /\ pc' \in {"room", "slot", "commit"}
    BY <1>6 DEF AllocBlock, RoomEnd, WriteBlock, history
  <2> QED BY <2>1, RunRests DEF Running
<1>7. CASE CommitBegin
  <2>1. ncrash' = ncrash /\ pc' \in {"up", "commit"}
    BY <1>7, Zenon DEF CommitBegin
  <2> QED BY <2>1, RunRests DEF Running
<1>8. CASE CommitEnd
  <2>1. ncrash' = ncrash /\ pc' = "up"
    BY <1>8, Zenon DEF CommitEnd
  <2> QED BY <2>1, RunRests DEF Running
<1>9. CASE RoomFlush \/ StopFlush
  <2>1. ncrash' = ncrash /\ pc' \in {"room", "stop"}
    BY <1>9, Zenon DEF RoomFlush, StopFlush, history
  <2> QED BY <2>1, RunRests DEF Running
<1>10. CASE \E b \in Blocks : Flush(b) \/ SetBlockDirty(b) \/ FreeBlock(b) \/ WriteData(b)
  <2>1. ncrash' = ncrash /\ pc' = pc /\ pc \in {"up", "commit"}
    BY <1>10 DEF Flush, SetBlockDirty, FreeBlock, WriteData, history
  <2> QED BY <2>1, RunRests DEF Running
<1>11. CASE UNCHANGED journalVars
  BY <1>11 DEF journalVars, RestInv, Agrees, Unflawed
<1> QED BY <1>1, <1>2, <1>3, <1>4, <1>5, <1>6, <1>7, <1>8, <1>9, <1>10, <1>11, Zenon DEF JournalNext

LEMMA ReadSteps ==
  ASSUME JournalInv, JournalInv', ReadInv, RestInv, "abort" \notin Explored,
         ncrash # 0 => AllOrNothing, [JournalNext]_journalVars
  PROVE  ReadInv'
<1>1. CASE Persist
  BY <1>1, PersistReads
<1>2. CASE Crash \/ Recover \/ StopEnd
  BY <1>2, DownReads
<1>3. CASE Start
  BY <1>3, StartReads
<1>4. CASE NewTrans
  BY <1>4, NewTransReads
<1>5. CASE Abort
  BY <1>5, AbortReads
<1>6. CASE CommitBegin
  BY <1>6, CommitBeginReads
<1>7. CASE AllocBlock \/ RoomEnd \/ WriteBlock
  BY <1>7, CommitReads
<1>8. CASE CommitEnd
  BY <1>8, CommitEndReads
<1>9. CASE RoomFlush
  BY <1>9, RoomFlushReads
<1>10. CASE StopFlush
  BY <1>10, StopFlushReads
<1>11. CASE \E b \in Blocks : Flush(b)
  BY <1>11, FlushReads
<1>12. CASE \E b \in Blocks : SetBlockDirty(b)
  BY <1>12, SetBlockDirtyReads
<1>13. CASE \E b \in Blocks : FreeBlock(b)
  BY <1>13, FreeBlockReads
<1>14. CASE \E b \in Blocks : WriteData(b)
  BY <1>14, WriteDataReads
<1>15. CASE UNCHANGED journalVars
  <2>1. UNCHANGED <<home, j, wq, pc, safe, want, flawed, ndata>>
    BY <1>15 DEF journalVars
  <2> QED BY <2>1, Zenon DEF ReadInv, Up, Unflawed
<1> QED BY <1>1, <1>2, <1>3, <1>4, <1>5, <1>6, <1>7, <1>8, <1>9, <1>10, <1>11, <1>12, <1>13, <1>14,
          <1>15, Zenon DEF JournalNext

LEMMA ReadStarts ==
  ASSUME JournalInit
  PROVE  ReadInv /\ RestInv
<1>1. /\ home = [b \in Blocks |-> 0] /\ safe = home /\ want = home /\ wq = <<>> /\ pc = "mounted"
      /\ ncrash = 0 /\ ndata = 0
  BY DEF JournalInit
<1> QED BY <1>1 DEF ReadInv, RestInv, Up

\* What the invariant says of a reader.
LEMMA Reads ==
  ASSUME JournalInv, ReadInv
  PROVE  Readable
<1> SUFFICES ASSUME pc \in {"up", "stop"}, wq = <<>>, Unflawed, NEW b \in Blocks
             PROVE  want[b] \in {Free, IF j.buf[b].owner # 0 THEN j.buf[b].val ELSE home[b]}
  BY DEF Readable
<1> DEFINE c == j.cur
           v == safe[b]
           x == want[b]
           o == j.buf[b].owner
<1>1. Up /\ Runs
  BY DEF Up, Runs, Unflawed
<1>2. /\ Typed(j) /\ BlockLinked(j, c, {}, {}, b) /\ ReadAt(j, c, home, <<>>, v, x, b)
      /\ c \in Trans \cup {0}
  BY <1>1, ReadBegins
<1>3. /\ SafeAt(j, c, home, <<>>, v, b) /\ WantAt(j, c, v, x, b) /\ j.buf[b].val = o
      /\ Ranked(j, b) /\ o \in Trans \cup {0} /\ j.dq[b] \in Seq(Trans)
  BY <1>2 DEF ReadAt, Typed
<1>4. CASE c # 0 /\ x = c /\ o = c
  BY <1>3, <1>4
<1>5. CASE x = Free
  BY <1>5
<1>6. ASSUME x = v, v # Free, c \notin ToSet(j.dq[b]), Old(j, c, b) # {} => o = j.rec[b]
      PROVE  x \in {Free, IF o # 0 THEN j.buf[b].val ELSE home[b]}
  <2>1. Old(j, c, b) = ToSet(j.dq[b]) /\ 0 \notin ToSet(j.dq[b]) /\ (j.dq[b] # <<>> <=> ToSet(j.dq[b]) # {})
    <3>1. 0 \notin Trans /\ \A q \in Seq(Trans) : ToSet(q) \subseteq Trans
      BY JournalAssumption DEF Trans, ToSet
    <3> QED BY <1>3, <1>6, <3>1, NonEmpty DEF Old
  <2>2. CASE Old(j, c, b) = {}
    <3>1. o = 0
      BY <1>2, <2>1, <2>2 DEF BlockLinked
    <3>2. Comes(home, <<>>, b, v)
      BY <1>3, <1>6, <2>2 DEF SafeAt
    <3>3. home[b] = v
      BY <3>2 DEF Comes, HomeWrites
    <3> QED BY <1>6, <3>1, <3>3
  <2>3. CASE Old(j, c, b) # {}
    <3>1. o = j.rec[b] /\ j.rec[b] \in ToSet(j.dq[b])
      BY <1>2, <1>6, <2>1, <2>3 DEF BlockLinked
    <3>2. v \in ToSet(j.dq[b]) /\ (\A t \in ToSet(j.dq[b]) : t <= v /\ t <= o)
      BY <1>3, <2>1, <2>3, <3>1 DEF SafeAt, Ranked
    <3>3. v = o
      <4>1. v \in Int /\ o \in Int
        <5>1. Trans \subseteq Int /\ \A q \in Seq(Trans) : ToSet(q) \subseteq Trans
          BY JournalAssumption DEF Trans, ToSet
        <5> QED BY <1>3, <3>1, <3>2, <5>1
      <4>2. v <= o /\ o <= v
        BY <3>1, <3>2
      <4> HIDE DEF v, o
      <4> QED BY <4>1, <4>2
    <3> QED BY <1>3, <1>6, <2>1, <3>1, <3>3
  <2> QED BY <2>2, <2>3
<1> QED BY <1>3, <1>4, <1>5, <1>6 DEF WantAt

\* A reader finds the newest copy of every block in use, in the cache or at its place:
\* for all transactions, aborts, revocations, evictions and checkpoints. After a crash
\* this rests on what recovery promises. The flaw "abort" is excluded: Readable fails
\* behind it.
THEOREM JournalReadable ==
  ASSUME "abort" \notin Explored
  PROVE  JournalSpec /\ [](ncrash # 0 => AllOrNothing) => []Readable
<1>1. JournalInit => ReadInv /\ RestInv
  BY ReadStarts
<1>2. /\ JournalInv /\ JournalInv' /\ ReadInv /\ RestInv /\ (ncrash # 0 => AllOrNothing)
      /\ [JournalNext]_journalVars
      => ReadInv' /\ RestInv'
  BY ReadSteps, RestSteps
<1>3. JournalInv /\ ReadInv => Readable
  BY Reads
<1> QED BY <1>1, <1>2, <1>3, JournalInvariant, PTL DEF JournalSpec

\* jbd_journal_stop: when the session ends, each block in use has reached its place, and
\* nothing of the log is needed any more.
THEOREM JournalStopsClean ==
  ASSUME "abort" \notin Explored
  PROVE  JournalSpec /\ [](ncrash # 0 => AllOrNothing) => [][StopEnd => Agrees(safe)]_journalVars
<1>1. JournalInit => ReadInv /\ RestInv
  BY ReadStarts
<1>2. /\ JournalInv /\ JournalInv' /\ ReadInv /\ RestInv /\ (ncrash # 0 => AllOrNothing)
      /\ [JournalNext]_journalVars
      => ReadInv' /\ RestInv'
  BY ReadSteps, RestSteps
<1>3. JournalInv /\ ReadInv /\ StopEnd => Agrees(safe)
  <2>1. StopEnd => Up /\ Runs /\ j.cur = 0 /\ j.queue = <<>>
    BY DEF StopEnd, Up
  <2> QED BY <2>1, AtRest
<1>4. JournalInv /\ ReadInv => [StopEnd => Agrees(safe)]_journalVars
  BY <1>3
<1> QED BY <1>1, <1>2, <1>4, JournalInvariant, PTL DEF JournalSpec

=============================================================================
