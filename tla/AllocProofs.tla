---------------------------- MODULE AllocProofs ----------------------------
(***************************************************************************)
(* The allocators of lwext4, for every geometry of the file system: what   *)
(* bitmaps, group descriptors and superblock say of blocks and inodes is   *)
(* what the files hold, and ENOSPC is the truth.                           *)
(***************************************************************************)
EXTENDS Alloc, DataLemmas, FiniteSetTheorems

\* The bits of a group that stand for a free block, when the file holds h.
FreeBits(g, h) == {i \in 0 .. RealIn(g) - 1 : i \notin Meta[g] /\ Addr(i, g) \notin h}

\* The invariant of the block allocator. It says for each bit what it stands for, and
\* nothing is taken in a group that is not set up yet.
BlockInv ==
  /\ held \in SUBSET (FirstDataBlock .. TotalBlocks - 1)
  /\ inoBlocks = Cardinality(held)
  /\ uninit \in SUBSET Groups
  /\ bitmap \in [Groups -> SUBSET (0 .. GroupSize - 1)]
  /\ \A g \in Groups \ uninit : \A i \in 0 .. GroupSize - 1 :
       i \in bitmap[g] <=> i \in Meta[g] \/ i >= RealIn(g) \/ Addr(i, g) \in held
  /\ \A g \in Groups : \A i \in Meta[g] : Addr(i, g) \notin held
  /\ \A g \in uninit : \A i \in 0 .. GroupSize - 1 : Addr(i, g) \notin held
  /\ bgFree \in [Groups -> Int]
  /\ \A g \in Groups : bgFree[g] = Cardinality(FreeBits(g, held))
  /\ sbFree = SumOver(bgFree)

\* The inodes given out, the bits of a group that stand for one of S, and the others.
Given == dirs \cup files
InodeBits(g, S) == {i \in 0 .. InodesIn(g) - 1 : InodeAt(i, g) \in S}
FreeInodes(g, S) == {i \in 0 .. InodesIn(g) - 1 : InodeAt(i, g) \notin S}

\* The invariant of the inode allocator: the same bit by bit.
InodeInv ==
  /\ Given \in SUBSET (1 .. TotalInodes) /\ dirs \cap files = {}
  /\ uninit \in SUBSET Groups
  /\ ibitmap \in [Groups -> SUBSET (0 .. InodesPerGroup - 1)]
  /\ \A g \in Groups \ uninit : \A i \in 0 .. InodesPerGroup - 1 :
       i \in ibitmap[g] <=> InodeAt(i, g) \in Given
  /\ \A g \in uninit : \A i \in 0 .. InodesPerGroup - 1 : InodeAt(i, g) \notin Given
  /\ igFree \in [Groups -> Int] /\ igDirs \in [Groups -> Int] /\ igUnused \in [Groups -> Int]
  /\ \A g \in Groups : igFree[g] = Cardinality(FreeInodes(g, Given))
  /\ \A g \in Groups : igDirs[g] = Cardinality(InodeBits(g, dirs))
  /\ \A g \in Groups : \A i \in 0 .. InodesPerGroup - 1 :
       InodeAt(i, g) \in Given => i < InodesIn(g) - igUnused[g]
  /\ isbFree = SumOver(igFree)

\* What a search for an inode knows: the groups it has passed have none. Behind the
\* last group it starts again and ends where it began, so that it has passed all.
SearchInv ==
  /\ lastGroup \in Groups /\ pc \in {"idle", "search"}
  /\ pc = "search" =>
       /\ loop \in [bgid : Nat, count : Nat, rewind : BOOLEAN, dir : BOOLEAN]
       /\ loop.bgid <= loop.count
       /\ loop.count = IF loop.rewind THEN lastGroup ELSE GroupCount
       /\ \A g \in Groups :
            (IF loop.rewind THEN g >= lastGroup \/ g < loop.bgid ELSE g >= lastGroup /\ g < loop.bgid)
            => igFree[g] = 0

IInv == BlockInv /\ InodeInv /\ SearchInv

----------------------------------------------------------------------------
(* Geometry *)

\* The number of groups, of the blocks in a group and of those that exist.
LEMMA GroupFacts ==
  /\ GroupCount \in Nat \ {0} /\ TotalBlocks <= GroupCount * GroupSize
  /\ Groups = 0 .. GroupCount - 1 /\ Groups \subseteq Nat /\ GroupSize \in Nat \ {0}
  /\ \A g \in Groups : /\ RealIn(g) \in 1 .. GroupSize /\ BlocksIn(g) \in RealIn(g) .. GroupSize
                       /\ Meta[g] \subseteq 0 .. RealIn(g) - 1
                       /\ g * GroupSize \in Nat
<1> DEFINE a == TotalBlocks + GroupSize - 1
           r == a % GroupSize
<1>1. GroupSize \in Nat \ {0} /\ TotalBlocks \in Nat \ {0} /\ a \in Nat
  BY AllocAssumption
<1>2. GroupCount \in Nat /\ r \in 0 .. GroupSize - 1 /\ a = GroupCount * GroupSize + r
  BY <1>1, DivMod DEF GroupCount
<1> HIDE DEF r
<1>3. GroupCount # 0
  <2> SUFFICES ASSUME GroupCount = 0 PROVE FALSE
    OBVIOUS
  <2>1. GroupCount * GroupSize = 0
    BY <1>1
  <2> QED BY <1>1, <1>2, <2>1
<1>4. GroupCount * GroupSize \in Nat
  BY <1>1, <1>2
<1>5. TotalBlocks <= GroupCount * GroupSize
  BY <1>1, <1>2, <1>4
<1>6. (GroupCount - 1) * GroupSize = GroupCount * GroupSize - GroupSize
  BY <1>1, <1>2
<1>7. ASSUME NEW g \in Groups
      PROVE  /\ RealIn(g) \in 1 .. GroupSize /\ BlocksIn(g) \in RealIn(g) .. GroupSize
             /\ Meta[g] \subseteq 0 .. RealIn(g) - 1
             /\ g * GroupSize \in Nat
  <2>1. FirstDataBlock \in {0, 1} /\ TotalBlocks > (GroupCount - 1) * GroupSize + FirstDataBlock
    BY AllocAssumption
  <2>2. g \in Nat
    BY <1>2 DEF Groups
  <2>3. Meta[g] \subseteq 0 .. RealIn(g) - 1
    BY AllocAssumption
  <2>4. g * GroupSize \in Nat
    BY <1>1, <2>2
  <2>5. RealIn(g) \in 1 .. GroupSize /\ BlocksIn(g) \in RealIn(g) .. GroupSize
    BY <1>1, <1>4, <1>5, <1>6, <2>1 DEF RealIn, BlocksIn
  <2> QED BY <2>3, <2>4, <2>5
<1> QED BY <1>1, <1>2, <1>3, <1>5, <1>7 DEF Groups

\* Every bit of a group is a number, and no other bit is the same.
LEMMA BitFacts ==
  ASSUME NEW g \in Groups, NEW i \in 0 .. GroupSize - 1
  PROVE  /\ Addr(i, g) \in Nat /\ Addr(i, g) >= FirstDataBlock
         /\ GroupOf(Addr(i, g)) = g /\ IdxIn(Addr(i, g)) = i
         /\ Addr(i, g) \in FirstDataBlock .. TotalBlocks - 1 <=> i < RealIn(g)
<1>1. /\ g \in Nat /\ GroupSize \in Nat \ {0} /\ FirstDataBlock \in {0, 1} /\ g * GroupSize \in Nat
      /\ GroupCount \in Nat \ {0} /\ TotalBlocks \in Nat /\ g <= GroupCount - 1
  BY GroupFacts, AllocAssumption
<1>2. Addr(i, g) = g * GroupSize + i + FirstDataBlock
  BY DEF Addr
<1>3. Addr(i, g) \in Nat /\ Addr(i, g) >= FirstDataBlock
  BY <1>1, <1>2
<1>4. Relative(Addr(i, g)) = g * GroupSize + i
  BY <1>1, <1>2 DEF Relative
<1>5. GroupOf(Addr(i, g)) = g /\ IdxIn(Addr(i, g)) = i
  BY <1>1, <1>4, DivModUnique, SMTT(60) DEF GroupOf, IdxIn
<1>6. Addr(i, g) \in FirstDataBlock .. TotalBlocks - 1 <=> i < RealIn(g)
  <2>1. CASE g = GroupCount - 1
    BY <1>1, <1>2, <2>1 DEF RealIn
  <2>2. CASE g < GroupCount - 1
    <3>1. (g + 1) * GroupSize <= (GroupCount - 1) * GroupSize /\ (GroupCount - 1) * GroupSize \in Int
      BY <1>1, <2>2, TimesMono
    <3>2. (g + 1) * GroupSize = g * GroupSize + GroupSize
      BY <1>1
    <3>3. TotalBlocks > (GroupCount - 1) * GroupSize + FirstDataBlock
      BY AllocAssumption
    <3>4. RealIn(g) = GroupSize
      BY <2>2 DEF RealIn
    <3> QED BY <1>1, <1>2, <3>1, <3>2, <3>3, <3>4
  <2> QED BY <1>1, <2>1, <2>2
<1> QED BY <1>3, <1>5, <1>6

\* Every block is a bit of a group.
LEMMA BlockFacts ==
  ASSUME NEW b \in Nat, b >= FirstDataBlock
  PROVE  /\ GroupOf(b) \in Nat /\ IdxIn(b) \in 0 .. GroupSize - 1 /\ Addr(IdxIn(b), GroupOf(b)) = b
         /\ b < TotalBlocks => GroupOf(b) \in Groups /\ IdxIn(b) < RealIn(GroupOf(b))
         /\ b <= TotalBlocks => GroupOf(b) <= GroupCount
<1> DEFINE g == GroupOf(b)
           i == IdxIn(b)
           r == Relative(b)
<1>1. /\ GroupSize \in Nat \ {0} /\ FirstDataBlock \in {0, 1} /\ TotalBlocks \in Nat
      /\ GroupCount \in Nat \ {0} /\ TotalBlocks <= GroupCount * GroupSize
  BY GroupFacts, AllocAssumption
<1>2. r \in Nat /\ r = b - FirstDataBlock
  BY <1>1 DEF Relative
<1>3. g \in Nat /\ i \in 0 .. GroupSize - 1 /\ r = g * GroupSize + i
  BY <1>1, <1>2, DivMod DEF GroupOf, IdxIn
<1> HIDE DEF g, i, r
<1>4. g * GroupSize \in Nat /\ GroupCount * GroupSize \in Nat
  BY <1>1, <1>3
<1>5. Addr(i, g) = b
  BY <1>1, <1>2, <1>3, <1>4 DEF Addr
<1>6. ASSUME b <= TotalBlocks PROVE g <= GroupCount
  <2> SUFFICES ASSUME g >= GroupCount + 1 PROVE FALSE
    BY <1>1, <1>3
  <2>1. (GroupCount + 1) * GroupSize <= g * GroupSize
    BY <1>1, <1>3, TimesMono
  <2>2. (GroupCount + 1) * GroupSize = GroupCount * GroupSize + GroupSize
    BY <1>1
  <2> QED BY <1>1, <1>2, <1>3, <1>4, <1>6, <2>1, <2>2
<1>7. ASSUME b < TotalBlocks PROVE g \in Groups /\ i < RealIn(g)
  <2>1. g \in Groups
    <3> SUFFICES ASSUME g >= GroupCount PROVE FALSE
      BY <1>1, <1>3, GroupFacts
    <3>1. GroupCount * GroupSize <= g * GroupSize
      BY <1>1, <1>3, TimesMono
    <3> QED BY <1>1, <1>2, <1>3, <1>4, <1>7, <3>1
  <2>2. Addr(i, g) \in FirstDataBlock .. TotalBlocks - 1
    BY <1>1, <1>5, <1>7
  <2> QED BY <1>3, <2>1, <2>2, BitFacts
<1> QED BY <1>3, <1>5, <1>6, <1>7 DEF g, i

----------------------------------------------------------------------------
(* Bitmaps *)

\* The smaller one of two numbers.
LEMMA MinTwo ==
  ASSUME NEW a \in Nat, NEW b \in Nat
  PROVE  Min({a, b}) \in {a, b} /\ Min({a, b}) <= a /\ Min({a, b}) <= b
<1>1. {a, b} \subseteq Nat /\ {a, b} # {}
  OBVIOUS
<1> QED BY <1>1, MinNat

\* Aligned is the next multiple.
LEMMA AlignedFacts ==
  ASSUME NEW i \in Nat, NEW n \in Nat \ {0}
  PROVE  /\ Aligned(i, n) \in Nat /\ i <= Aligned(i, n) /\ Aligned(i, n) <= i + n - 1
         /\ Aligned(0, n) = 0
         /\ \A k \in Nat : i <= k * n => Aligned(i, n) <= k * n
<1> DEFINE a == i + n - 1
           q == a \div n
           r == a % n
<1>1. a \in Nat
  OBVIOUS
<1>2. q \in Nat /\ r \in 0 .. n - 1 /\ a = q * n + r
  BY <1>1, DivMod
<1>3. Aligned(i, n) = q * n
  BY DEF Aligned
<1> HIDE DEF q, r
<1>4. q * n \in Nat
  BY <1>2
<1>5. ASSUME NEW k \in Nat, i <= k * n PROVE q * n <= k * n
  <2> SUFFICES ASSUME k + 1 <= q PROVE FALSE
    BY <1>2, TimesMono
  <2>1. (k + 1) * n <= q * n
    BY <1>2, TimesMono
  <2>2. (k + 1) * n = k * n + n /\ k * n \in Nat
    OBVIOUS
  <2> QED BY <1>2, <1>4, <1>5, <2>1, <2>2
<1>6. Aligned(0, n) = 0
  <2>1. 0 * n + (n - 1) = 0 + n - 1 /\ n - 1 \in 0 .. n - 1
    OBVIOUS
  <2>2. (0 + n - 1) \div n = 0
    BY <2>1, DivModUnique
  <2> QED BY <2>2 DEF Aligned
<1> QED BY <1>1, <1>2, <1>3, <1>4, <1>5, <1>6

\* The next byte is not behind the next word.
LEMMA ByteInWord ==
  ASSUME NEW i \in Nat
  PROVE  Aligned(i, ByteBits) <= Aligned(i, WordBits)
<1> DEFINE w == Aligned(i, WordBits)
           p == WordBits \div ByteBits
           q == (i + WordBits - 1) \div WordBits
<1>1. ByteBits \in Nat \ {0} /\ WordBits \in Nat \ {0} /\ WordBits % ByteBits = 0
  BY AllocAssumption
<1>2. p \in Nat /\ WordBits = p * ByteBits
  BY <1>1, DivMod
<1>3. q \in Nat /\ w = q * WordBits
  BY <1>1, DivMod DEF Aligned
<1> HIDE DEF p, q, w
<1>4. q * (p * ByteBits) = (q * p) * ByteBits /\ q * p \in Nat
  BY <1>1, <1>2, <1>3
<1>5. i <= w
  BY <1>1, AlignedFacts DEF w
<1>6. i <= (q * p) * ByteBits
  BY <1>2, <1>3, <1>4, <1>5
<1>7. Aligned(i, ByteBits) <= (q * p) * ByteBits
  BY <1>1, <1>4, <1>6, AlignedFacts
<1> QED BY <1>2, <1>3, <1>4, <1>7 DEF w

\* What ext4_bmap_bit_find_clr returns when no bit up to the next byte is clear: a
\* clear bit, or -1 if there is none.
LEMMA FindClearFacts ==
  ASSUME NEW bm, NEW s \in Nat, NEW e \in Nat,
         \A i \in s .. e - 1 : i < Aligned(s, ByteBits) => i \in bm
  PROVE  LET i == FindClear(bm, s, e)
         IN  /\ i = -1 \/ (i \in s .. e - 1 /\ i \notin bm)
             /\ i = -1 => s .. e - 1 \subseteq bm
<1> DEFINE body == Aligned(s, ByteBits)
           C == Clear(bm, body, e)
<1>1. body \in Nat /\ s <= body
  BY AlignedFacts, AllocAssumption
<1> HIDE DEF body
<1>2. Clear(bm, s, Min({body, e})) = {}
  <2>1. Min({body, e}) \in Nat /\ Min({body, e}) <= body /\ Min({body, e}) <= e
    BY <1>1, MinTwo
  <2> QED BY <1>1, <2>1 DEF Clear, body
<1>3. FindClear(bm, s, e) = IF C # {} THEN Min(C) ELSE -1
  BY <1>2 DEF FindClear, body
<1>4. CASE C # {}
  <2>1. C \subseteq Nat
    BY <1>1 DEF Clear
  <2>2. Min(C) \in C
    BY <1>4, <2>1, MinNat
  <2>3. Min(C) \in s .. e - 1 /\ Min(C) \notin bm
    BY <1>1, <2>2 DEF Clear
  <2>4. Min(C) # -1
    <3> HIDE DEF C
    <3> QED BY <2>3
  <2> HIDE DEF C
  <2> QED BY <1>3, <1>4, <2>3, <2>4
<1>5. CASE C = {}
  <2>1. FindClear(bm, s, e) = -1
    BY <1>3, <1>5
  <2>2. s .. e - 1 \subseteq bm
    BY <1>1, <1>5 DEF Clear, body
  <2> QED BY <2>1, <2>2
<1> QED BY <1>4, <1>5

\* The search from the start of a bitmap, which is aligned.
LEMMA FindFirstFacts ==
  ASSUME NEW bm, NEW e \in Nat
  PROVE  LET i == FindClear(bm, 0, e)
         IN  /\ i = -1 \/ (i \in 0 .. e - 1 /\ i \notin bm)
             /\ i = -1 => 0 .. e - 1 \subseteq bm
<1>1. Aligned(0, ByteBits) = 0
  BY AlignedFacts, AllocAssumption
<1> QED BY <1>1, FindClearFacts

\* The search in the goal's group finds a clear bit or none: the bits that make
\* ext4_bmap_bit_find_clr answer with its start were looked at before.
LEMMA FromGoalFacts ==
  ASSUME NEW bm, NEW g \in Groups, NEW i \in 0 .. GroupSize - 1
  PROVE  LET k == FindFromGoal(bm, i, g)
         IN  k = -1 \/ (k \in 0 .. GroupSize - 1 /\ k \notin bm)
<1> DEFINE e == BlocksIn(g)
           m == Min({Aligned(i, WordBits), e})
           near == Clear(bm, i + 1, m)
<1>1. e \in Nat /\ e <= GroupSize /\ GroupSize \in Nat /\ i \in Nat
  BY GroupFacts
<1>2. Aligned(i, WordBits) \in Nat /\ Aligned(i, ByteBits) \in Nat
      /\ Aligned(i, ByteBits) <= Aligned(i, WordBits)
  BY <1>1, AlignedFacts, ByteInWord, AllocAssumption
<1> HIDE DEF e
<1>3. m \in {Aligned(i, WordBits), e} /\ m <= Aligned(i, WordBits) /\ m <= e /\ m \in Nat
  BY <1>1, <1>2, MinTwo
<1> HIDE DEF m
<1>4. FindFromGoal(bm, i, g) = IF i \notin bm THEN i
                               ELSE IF near # {} THEN Min(near) ELSE FindClear(bm, i, e)
  BY DEF FindFromGoal, e, m
<1>5. CASE i \notin bm
  BY <1>4, <1>5
<1>6. CASE i \in bm /\ near # {}
  <2>1. near \subseteq Nat
    BY <1>1 DEF Clear
  <2>2. Min(near) \in near
    BY <1>6, <2>1, MinNat
  <2>3. Min(near) \in 0 .. GroupSize - 1 /\ Min(near) \notin bm
    BY <1>1, <1>3, <2>2 DEF Clear
  <2> QED BY <1>4, <1>6, <2>3
<1>7. CASE i \in bm /\ near = {}
  <2>1. ASSUME NEW j \in i .. e - 1, j < Aligned(i, ByteBits) PROVE j \in bm
    <3>1. CASE j = i
      BY <1>7, <3>1
    <3>2. CASE j # i
      <4>1. j \in i + 1 .. m - 1
        BY <1>1, <1>2, <1>3, <2>1, <3>2
      <4> QED BY <1>7, <4>1 DEF Clear
    <3> QED BY <3>1, <3>2
  <2> DEFINE k == FindClear(bm, i, e)
  <2>2. k = -1 \/ (k \in i .. e - 1 /\ k \notin bm)
    BY <1>1, <2>1, FindClearFacts
  <2>3. FindFromGoal(bm, i, g) = k
    BY <1>4, <1>7
  <2> HIDE DEF k
  <2> QED BY <1>1, <2>2, <2>3
<1> QED BY <1>5, <1>6, <1>7

\* ext4_bmap_bits_free clears the n bits from sbit on and no other.
LEMMA BitsFreeFacts ==
  ASSUME NEW bm, NEW sbit \in Nat, NEW n \in Nat
  PROVE  BitsFree(bm, sbit, n) = bm \ (sbit .. sbit + n - 1)
<1> DEFINE a == Aligned(sbit, ByteBits)
           head == Min({n, a - sbit})
           q == (n - head) \div ByteBits
           whole == q * ByteBits
           first == sbit + head
<1>1. ByteBits \in Nat \ {0} /\ a \in Nat /\ sbit <= a
  BY AlignedFacts, AllocAssumption
<1> HIDE DEF a
<1>2. head \in Nat /\ head <= n
  BY <1>1, MinTwo
<1> HIDE DEF head
<1>3. n - head \in Nat
  BY <1>2
<1>4. q \in Nat /\ (n - head) % ByteBits \in 0 .. ByteBits - 1
      /\ n - head = q * ByteBits + ((n - head) % ByteBits)
  BY <1>1, <1>3, DivMod
<1>5. whole \in Nat /\ whole <= n - head
  <2>1. q * ByteBits \in Nat
    BY <1>1, <1>4
  <2> DEFINE r == (n - head) % ByteBits
  <2>2. r \in Nat /\ n - head = whole + r
    BY <1>1, <1>4
  <2> HIDE DEF r, q
  <2> QED BY <1>3, <2>1, <2>2
<1>6. BitsFree(bm, sbit, n) =
        ((bm \ (sbit .. first - 1)) \ (first .. first + whole - 1))
        \ (first + whole .. first + whole + (n - head - whole) - 1)
  BY DEF BitsFree, head, a
<1> HIDE DEF q, whole
<1>7. sbit .. sbit + n - 1 =
        (sbit .. first - 1) \cup (first .. first + whole - 1)
        \cup (first + whole .. first + whole + (n - head - whole) - 1)
  BY <1>2, <1>5
<1> QED BY <1>6, <1>7

----------------------------------------------------------------------------
(* Blocks *)

\* The sum over the groups after the count of one was changed.
LEMMA SumOverUpdate ==
  ASSUME NEW f \in [Groups -> Int], NEW g \in Groups, NEW d \in Int
  PROVE  /\ SumOver(f) \in Int
         /\ SumOver([f EXCEPT ![g] = @ + d]) = SumOver(f) + d
<1> DEFINE n == GroupCount
           h == [f EXCEPT ![g] = @ + d]
<1>1. n \in Nat /\ f \in [0 .. n - 1 -> Int] /\ g \in 0 .. n - 1
  BY GroupFacts
<1>2. h \in [0 .. n - 1 -> Int] /\ h[g] = f[g] + d /\ f[g] \in Int
      /\ \A i \in 0 .. n - 1 : i # g => h[i] = f[i]
  BY <1>1
<1> HIDE DEF h, n
<1>3. SumTo(f, n) \in Int /\ SumTo(h, n) = SumTo(f, n) + (h[g] - f[g])
  BY <1>1, <1>2, SumUpdate
<1>4. SumTo(h, n) = SumTo(f, n) + d
  BY <1>2, <1>3
<1> QED BY <1>3, <1>4 DEF SumOver, h, n

\* The free bits of a group are a finite set.
LEMMA FreeBitsFinite ==
  ASSUME NEW g \in Groups, NEW h
  PROVE  IsFiniteSet(FreeBits(g, h)) /\ Cardinality(FreeBits(g, h)) \in Nat
<1>1. IsFiniteSet(0 .. RealIn(g) - 1)
  BY GroupFacts, FS_Interval, SMTT(60)
<1>2. FreeBits(g, h) \in SUBSET (0 .. RealIn(g) - 1)
  BY DEF FreeBits
<1> QED BY <1>1, <1>2, FS_Subset, FS_CardinalityType

\* A bitmap that is set up shows the metadata, the blocks that do not exist and those
\* of the file.
LEMMA ReadyBits ==
  ASSUME BlockInv, NEW gs
  PROVE  /\ Ready(bitmap, gs) \in [Groups -> SUBSET (0 .. GroupSize - 1)]
         /\ \A g \in Groups \ (uninit \ gs) : \A i \in 0 .. GroupSize - 1 :
              i \in Ready(bitmap, gs)[g] <=> i \in Meta[g] \/ i >= RealIn(g) \/ Addr(i, g) \in held
<1> DEFINE R == Ready(bitmap, gs)
<1>1. \A g \in Groups : R[g] = IF g \in uninit \cap gs THEN Meta[g] \cup Padding(g) ELSE bitmap[g]
  BY DEF Ready
<1>2. R = [g \in Groups |-> R[g]]
  BY DEF Ready
<1> HIDE DEF R
<1>3. \A g \in Groups : Meta[g] \subseteq 0 .. GroupSize - 1 /\ Padding(g) \subseteq 0 .. GroupSize - 1
  BY GroupFacts DEF Padding
<1>4. \A g \in Groups : R[g] \in SUBSET (0 .. GroupSize - 1)
  BY <1>1, <1>3, ZenonT(60) DEF BlockInv
<1>5. R \in [Groups -> SUBSET (0 .. GroupSize - 1)]
  BY <1>2, <1>4
<1>6. ASSUME NEW g \in Groups \ (uninit \ gs), NEW i \in 0 .. GroupSize - 1
      PROVE  i \in R[g] <=> i \in Meta[g] \/ i >= RealIn(g) \/ Addr(i, g) \in held
  <2>1. CASE g \in uninit \cap gs
    <3>1. Addr(i, g) \notin held
      BY <2>1 DEF BlockInv
    <3>2. i \in Padding(g) <=> i >= RealIn(g)
      BY GroupFacts DEF Padding
    <3> QED BY <1>1, <2>1, <3>1, <3>2
  <2>2. CASE g \notin uninit
    BY <1>1, <2>2 DEF BlockInv
  <2> QED BY <2>1, <2>2
<1> QED BY <1>5, <1>6 DEF R

\* Setting up groups changes nothing that matters.
LEMMA BlocksKept ==
  ASSUME BlockInv, NEW gs, Used(gs), bitmap' = Ready(bitmap, gs), UNCHANGED blockVars
  PROVE  BlockInv'
<1>1. /\ bitmap' \in [Groups -> SUBSET (0 .. GroupSize - 1)]
      /\ uninit' = uninit \ gs /\ uninit' \in SUBSET Groups /\ uninit' \subseteq uninit
      /\ \A g \in Groups \ uninit' : \A i \in 0 .. GroupSize - 1 :
           i \in bitmap'[g] <=> i \in Meta[g] \/ i >= RealIn(g) \/ Addr(i, g) \in held
  BY ReadyBits DEF Used, BlockInv
<1>2. /\ held' = held /\ inoBlocks' = inoBlocks /\ bgFree' = bgFree /\ sbFree' = sbFree
  BY DEF blockVars
<1>3. /\ held' \in SUBSET (FirstDataBlock .. TotalBlocks - 1)
      /\ inoBlocks' = Cardinality(held')
      /\ \A g \in Groups : \A i \in Meta[g] : Addr(i, g) \notin held'
      /\ \A g \in uninit' : \A i \in 0 .. GroupSize - 1 : Addr(i, g) \notin held'
      /\ bgFree' \in [Groups -> Int]
      /\ \A g \in Groups : bgFree'[g] = Cardinality(FreeBits(g, held'))
      /\ sbFree' = SumOver(bgFree')
  BY <1>1, <1>2 DEF BlockInv
<1> QED BY <1>1, <1>2, <1>3 DEF BlockInv, SumOver

\* A block that was free is given to the file.
LEMMA BlockTaken ==
  ASSUME BlockInv, NEW gs, Used(gs), NEW g \in Groups, g \in gs, NEW i \in 0 .. GroupSize - 1,
         i \notin Ready(bitmap, gs)[g],
         bitmap' = [Ready(bitmap, gs) EXCEPT ![g] = @ \cup {i}],
         bgFree' = [bgFree EXCEPT ![g] = @ - 1], sbFree' = sbFree - 1,
         inoBlocks' = inoBlocks + 1, held' = held \cup {Addr(i, g)}
  PROVE  BlockInv'
<1> DEFINE R == Ready(bitmap, gs)
           b == Addr(i, g)
<1>1. /\ R \in [Groups -> SUBSET (0 .. GroupSize - 1)]
      /\ \A h \in Groups \ (uninit \ gs) : \A j \in 0 .. GroupSize - 1 :
           j \in R[h] <=> j \in Meta[h] \/ j >= RealIn(h) \/ Addr(j, h) \in held
  BY ReadyBits
<1>2. bitmap' = [R EXCEPT ![g] = @ \cup {i}] /\ i \notin R[g] /\ held' = held \cup {b}
  OBVIOUS
<1>3. /\ uninit' = uninit \ gs /\ uninit' \in SUBSET Groups /\ g \in Groups \ uninit'
      /\ uninit' \subseteq uninit
  BY DEF Used, BlockInv
<1> HIDE DEF R
<1>4. i \notin Meta[g] /\ i < RealIn(g) /\ b \notin held
  BY <1>1, <1>2, <1>3, GroupFacts
<1>5. b \in FirstDataBlock .. TotalBlocks - 1
  BY <1>4, BitFacts
<1>6. \A h \in Groups : \A j \in 0 .. GroupSize - 1 : Addr(j, h) = b => h = g /\ j = i
  BY BitFacts
<1> HIDE DEF b
<1>7. held' \in SUBSET (FirstDataBlock .. TotalBlocks - 1)
  BY <1>2, <1>5 DEF BlockInv
<1>8. inoBlocks' = Cardinality(held')
  <2>1. IsFiniteSet(held)
    <3>1. IsFiniteSet(FirstDataBlock .. TotalBlocks - 1)
      BY FS_Interval, AllocAssumption
    <3> QED BY <3>1, FS_Subset, ZenonT(60) DEF BlockInv
  <2>2. Cardinality(held \cup {b}) = Cardinality(held) + 1
    BY <1>4, <2>1, FS_AddElement
  <2>3. inoBlocks = Cardinality(held)
    BY DEF BlockInv
  <2> QED BY <1>2, <2>2, <2>3
<1>9. bitmap' \in [Groups -> SUBSET (0 .. GroupSize - 1)]
  BY <1>1, <1>2, ZenonT(60)
<1>10. ASSUME NEW h \in Groups \ uninit', NEW j \in 0 .. GroupSize - 1
       PROVE  j \in bitmap'[h] <=> j \in Meta[h] \/ j >= RealIn(h) \/ Addr(j, h) \in held'
  <2>1. j \in R[h] <=> j \in Meta[h] \/ j >= RealIn(h) \/ Addr(j, h) \in held
    BY <1>1, <1>3
  <2>2. j \in bitmap'[h] <=> j \in R[h] \/ (h = g /\ j = i)
    BY <1>1, <1>2
  <2>3. Addr(j, h) \in held' <=> Addr(j, h) \in held \/ (h = g /\ j = i)
    BY <1>2, <1>6 DEF b
  <2> QED BY <2>1, <2>2, <2>3
<1>11. ASSUME NEW h \in Groups, NEW j \in Meta[h] PROVE Addr(j, h) \notin held'
  <2>1. j \in 0 .. GroupSize - 1
    BY GroupFacts, SMTT(60)
  <2>2. Addr(j, h) \notin held
    BY DEF BlockInv
  <2> QED BY <1>2, <1>4, <1>6, <2>1, <2>2
<1>12. ASSUME NEW h \in uninit', NEW j \in 0 .. GroupSize - 1 PROVE Addr(j, h) \notin held'
  <2>1. h \in Groups /\ h # g /\ Addr(j, h) \notin held
    BY <1>3 DEF BlockInv
  <2> QED BY <1>2, <1>6, <2>1
<1>13. bgFree' \in [Groups -> Int] /\ bgFree'[g] = bgFree[g] - 1 /\ bgFree[g] \in Int
       /\ \A h \in Groups : h # g => bgFree'[h] = bgFree[h]
  BY DEF BlockInv
<1>14. FreeBits(g, held') = FreeBits(g, held) \ {i} /\ i \in FreeBits(g, held)
  <2>1. \A j \in 0 .. RealIn(g) - 1 : j \in 0 .. GroupSize - 1
    BY GroupFacts
  <2>2. \A j \in 0 .. RealIn(g) - 1 : Addr(j, g) \in held' <=> Addr(j, g) \in held \/ j = i
    BY <1>2, <1>6, <2>1 DEF b
  <2>3. i \in 0 .. RealIn(g) - 1
    BY <1>4, GroupFacts
  <2> QED BY <1>4, <2>2, <2>3 DEF FreeBits, b
<1>15. ASSUME NEW h \in Groups, h # g PROVE FreeBits(h, held') = FreeBits(h, held)
  <2>1. \A j \in 0 .. RealIn(h) - 1 : j \in 0 .. GroupSize - 1
    BY GroupFacts, SMTT(60)
  <2>2. \A j \in 0 .. RealIn(h) - 1 : Addr(j, h) \in held' <=> Addr(j, h) \in held
    BY <1>2, <1>6, <1>15, <2>1
  <2> QED BY <2>2 DEF FreeBits
<1>16. Cardinality(FreeBits(g, held')) = Cardinality(FreeBits(g, held)) - 1
  BY <1>14, FreeBitsFinite, FS_RemoveElement
<1>17. \A h \in Groups : bgFree'[h] = Cardinality(FreeBits(h, held'))
  BY <1>13, <1>15, <1>16, ZenonT(60) DEF BlockInv
<1>18. sbFree' = SumOver(bgFree')
  <2>1. bgFree \in [Groups -> Int] /\ sbFree = SumOver(bgFree) /\ -1 \in Int
    BY DEF BlockInv
  <2>2. bgFree' = [bgFree EXCEPT ![g] = @ + (-1)]
    BY <2>1
  <2>3. SumOver(bgFree) \in Int /\ SumOver([bgFree EXCEPT ![g] = @ + (-1)]) = SumOver(bgFree) + (-1)
    BY <2>1, SumOverUpdate
  <2>4. SumOver(bgFree') = SumOver(bgFree) + (-1)
    BY <2>2, <2>3
  <2> QED BY <2>1, <2>3, <2>4
<1> QED BY <1>3, <1>7, <1>8, <1>9, <1>10, <1>11, <1>12, <1>13, <1>17, <1>18 DEF BlockInv, SumOver

\* The groups behind the goal's are all groups.
LEMMA NextGroupsFacts ==
  ASSUME NEW g \in 0 .. GroupCount
  PROVE  /\ \A k \in 1 .. GroupCount : NextGroups(g)[k] \in Groups
         /\ \A h \in Groups : \E k \in 1 .. GroupCount : NextGroups(g)[k] = h
<1> DEFINE n == GroupCount
           q == g \div n
           r == g % n
<1>1. n \in Nat \ {0} /\ Groups = 0 .. n - 1 /\ g \in Nat
  BY GroupFacts
<1>2. \A k \in 1 .. n : NextGroups(g)[k] = (g + k) % n
  BY DEF NextGroups
<1> HIDE DEF n
<1>3. ASSUME NEW k \in 1 .. n PROVE NextGroups(g)[k] \in Groups
  <2>1. (g + k) % n \in 0 .. n - 1
    BY <1>1, DivMod
  <2> QED BY <1>1, <1>2, <2>1
<1>4. q \in Nat /\ r \in 0 .. n - 1 /\ g = q * n + r
  BY <1>1, DivMod
<1> HIDE DEF q, r
<1>mod. \A p \in Nat, h \in 0 .. n - 1 : (p * n + h) % n = h
  BY <1>1, DivModUnique
<1>5. ASSUME NEW h \in Groups PROVE \E k \in 1 .. n : NextGroups(g)[k] = h
  <2>1. h \in 0 .. n - 1 /\ q * n \in Nat
    BY <1>1, <1>4
  <2>2. CASE h > r
    <3>1. h - r \in 1 .. n /\ g + (h - r) = q * n + h
      BY <1>1, <1>4, <2>1, <2>2
    <3>2. (q * n + h) % n = h
      BY <1>4, <1>mod, <2>1
    <3> QED BY <1>2, <3>1, <3>2
  <2>3. CASE h <= r
    <3>1. (q + 1) * n = q * n + n
      BY <1>1, <1>4
    <3>2. h - r + n \in 1 .. n /\ g + (h - r + n) = (q + 1) * n + h
      BY <1>1, <1>4, <2>1, <2>3, <3>1
    <3>3. ((q + 1) * n + h) % n = h
      <4>1. q + 1 \in Nat
        BY <1>4
      <4> QED BY <1>mod, <2>1, <4>1
    <3> QED BY <1>2, <3>2, <3>3
  <2> QED BY <1>4, <2>1, <2>2, <2>3
<1> QED BY <1>3, <1>5 DEF n

\* A group whose bitmap shows no clear bit has no free block.
LEMMA FullGroup ==
  ASSUME BlockInv, NEW h \in Groups, 0 .. BlocksIn(h) - 1 \subseteq Ready(bitmap, Groups)[h]
  PROVE  bgFree[h] = 0
<1>1. \A i \in 0 .. RealIn(h) - 1 : i \in 0 .. GroupSize - 1 /\ i \in 0 .. BlocksIn(h) - 1 /\ ~(i >= RealIn(h))
  BY GroupFacts
<1>2. h \in Groups \ (uninit \ Groups)
  OBVIOUS
<1>3. \A i \in 0 .. RealIn(h) - 1 : i \in Meta[h] \/ Addr(i, h) \in held
  BY <1>1, <1>2, ReadyBits
<1>4. FreeBits(h, held) = {}
  BY <1>3 DEF FreeBits
<1>5. bgFree[h] = Cardinality(FreeBits(h, held))
  BY DEF BlockInv
<1> QED BY <1>4, <1>5, FS_EmptySet

\* What ext4_balloc_alloc_block finds: a block that is free, or none because there is
\* none in any group.
LEMMA SearchFacts ==
  ASSUME BlockInv, NEW goal \in Goals
  PROVE  LET s == Search(goal)
         IN  /\ s.g = -1 => \A h \in Groups : bgFree[h] = 0
             /\ s.g # -1 => /\ s.g \in Groups /\ s.g \in s.read /\ s.i \in 0 .. GroupSize - 1
                            /\ s.i \notin Ready(bitmap, Groups)[s.g]
<1> DEFINE g == GroupOf(goal)
           bm == Ready(bitmap, Groups)
           here == IF g \notin Groups \/ bgFree[g] = 0 THEN -1
                   ELSE FindFromGoal(bm[g], IdxIn(goal), g)
           found == {k \in 1 .. GroupCount : LET h == NextGroups(g)[k] IN
                       bgFree[h] # 0 /\ FindClear(bm[h], 0, BlocksIn(h)) # -1}
           k == IF found = {} THEN GroupCount ELSE Min(found)
           n == NextGroups(g)[k]
           read == {g} \cup {NextGroups(g)[i] : i \in 1 .. k}
           c == FindClear(bm[n], 0, BlocksIn(n))
           s == Search(goal)
<1>1. s = IF here # -1 THEN [g |-> g, i |-> here, read |-> {g}]
          ELSE IF found # {} THEN [g |-> n, i |-> c, read |-> read]
          ELSE [g |-> -1, i |-> -1, read |-> read]
  BY Zenon DEF Search
<1>2. goal \in Nat /\ goal >= FirstDataBlock /\ goal <= TotalBlocks
  BY AllocAssumption DEF Goals
<1>3. g \in 0 .. GroupCount /\ IdxIn(goal) \in 0 .. GroupSize - 1
  BY <1>2, BlockFacts, GroupFacts
<1> HIDE DEF g, bm, s
<1>4. /\ \A j \in 1 .. GroupCount : NextGroups(g)[j] \in Groups
      /\ \A h \in Groups : \E j \in 1 .. GroupCount : NextGroups(g)[j] = h
  BY <1>3, NextGroupsFacts
<1>5. \A h \in Groups : h # -1 /\ BlocksIn(h) \in Nat /\ BlocksIn(h) <= GroupSize /\ GroupSize \in Nat
  BY GroupFacts
<1>6. CASE here # -1
  <2>1. g \in Groups /\ here = FindFromGoal(bm[g], IdxIn(goal), g)
    BY <1>6
  <2>2. here \in 0 .. GroupSize - 1 /\ here \notin bm[g]
    BY <1>3, <1>6, <2>1, FromGoalFacts
  <2>3. s.g = g /\ s.i = here /\ s.read = {g}
    BY <1>1, <1>6
  <2> QED BY <1>5, <2>1, <2>2, <2>3 DEF bm, s
<1>7. CASE here = -1 /\ found # {}
  <2>1. found \subseteq Nat
    OBVIOUS
  <2>2. Min(found) \in found
    BY <1>7, <2>1, MinNat
  <2>3. k \in found /\ k \in 1 .. GroupCount
    BY <1>7, <2>2
  <2> HIDE DEF found, here
  <2>4. n \in Groups
    BY <1>4, <2>3
  <2>5. c # -1
    BY <2>3 DEF found
  <2>6. n \in read
    BY <2>3
  <2> HIDE DEF k
  <2>7. c \in 0 .. BlocksIn(n) - 1 /\ c \notin bm[n]
    BY <1>5, <2>4, <2>5, FindFirstFacts
  <2> HIDE DEF n, c, read
  <2>8. s.g = n /\ s.i = c /\ s.read = read
    BY <1>1, <1>7
  <2>9. c \in 0 .. GroupSize - 1
    BY <1>5, <2>4, <2>7
  <2> QED BY <1>5, <2>4, <2>6, <2>7, <2>8, <2>9 DEF bm, s
<1>8. CASE here = -1 /\ found = {}
  <2>1. s.g = -1
    BY <1>1, <1>8
  <2>2. ASSUME NEW h \in Groups PROVE bgFree[h] = 0
    <3>1. PICK j \in 1 .. GroupCount : NextGroups(g)[j] = h
      BY <1>4
    <3>2. bgFree[h] = 0 \/ FindClear(bm[h], 0, BlocksIn(h)) = -1
      BY <1>8, <3>1
    <3>3. ASSUME FindClear(bm[h], 0, BlocksIn(h)) = -1 PROVE bgFree[h] = 0
      <4>1. 0 .. BlocksIn(h) - 1 \subseteq bm[h]
        BY <1>5, <3>3, FindFirstFacts
      <4> QED BY <4>1, FullGroup DEF bm
    <3> QED BY <3>2, <3>3
  <2> QED BY <2>1, <2>2 DEF s
<1> QED BY <1>6, <1>7, <1>8

\* ext4_balloc_alloc_block.
LEMMA AllocBlockStep ==
  ASSUME BlockInv, NEW goal \in Goals, AllocBlock(goal)
  PROVE  BlockInv'
<1> DEFINE s == Search(goal)
           R == Ready(bitmap, s.read)
<1>1. /\ s.g = -1 \/ (/\ s.g \in Groups /\ s.g \in s.read /\ s.i \in 0 .. GroupSize - 1
                      /\ s.i \notin Ready(bitmap, Groups)[s.g])
  BY SearchFacts
<1>2. /\ Used(s.read)
      /\ IF s.g = -1
         THEN bitmap' = R /\ UNCHANGED blockVars
         ELSE /\ bitmap' = [R EXCEPT ![s.g] = @ \cup {s.i}]
              /\ bgFree' = [bgFree EXCEPT ![s.g] = @ - 1]
              /\ sbFree' = sbFree - 1
              /\ inoBlocks' = inoBlocks + 1
              /\ held' = held \cup {Addr(s.i, s.g)}
  BY DEF AllocBlock
<1> HIDE DEF s
<1>3. CASE s.g = -1
  BY <1>2, <1>3, BlocksKept
<1>4. CASE s.g # -1
  <2>1. R[s.g] = Ready(bitmap, Groups)[s.g]
    BY <1>1, <1>4 DEF Ready
  <2> QED BY <1>1, <1>2, <1>4, <2>1, BlockTaken
<1> QED BY <1>3, <1>4

\* ext4_balloc_try_alloc_block.
LEMMA TryAllocBlockStep ==
  ASSUME BlockInv, NEW b \in Goals, b < TotalBlocks, TryAllocBlock(b)
  PROVE  BlockInv'
<1> DEFINE g == GroupOf(b)
           i == IdxIn(b)
           R == Ready(bitmap, {g})
           free == i \notin R[g]
<1>1. /\ Used({g})
      /\ bitmap' = [R EXCEPT ![g] = @ \cup {i}]
      /\ bgFree' = IF free THEN [bgFree EXCEPT ![g] = @ - 1] ELSE bgFree
      /\ sbFree' = IF free THEN sbFree - 1 ELSE sbFree
      /\ inoBlocks' = IF free THEN inoBlocks + 1 ELSE inoBlocks
      /\ held' = IF free THEN held \cup {b} ELSE held
  BY DEF TryAllocBlock
<1>2. b \in Nat /\ b >= FirstDataBlock
  BY AllocAssumption DEF Goals
<1>3. g \in Groups /\ i \in 0 .. GroupSize - 1 /\ Addr(i, g) = b
  BY <1>2, BlockFacts
<1> HIDE DEF g, i
<1>4. R \in [Groups -> SUBSET (0 .. GroupSize - 1)]
  BY ReadyBits
<1>5. CASE free
  BY <1>1, <1>3, <1>5, BlockTaken
<1>6. CASE ~free
  <2>1. bitmap' = R
    <3> HIDE DEF R
    <3>1. R[g] \cup {i} = R[g]
      BY <1>6
    <3> QED BY <1>1, <1>3, <1>4, <3>1
  <2>2. UNCHANGED blockVars
    BY <1>1, <1>6 DEF blockVars
  <2> QED BY <1>1, <2>1, <2>2, BlocksKept
<1> QED BY <1>5, <1>6

\* Where the bits of a run of the file's blocks are: from the first one's bit on in its
\* group and, if they go on, from bit 0 on in the next one.
LEMMA RunFacts ==
  ASSUME BlockInv, NEW first \in held, NEW count \in 1 .. GroupSize + 1,
         first .. first + count - 1 \subseteq held
  PROVE  LET g == GroupOf(first)
             i == IdxIn(first)
             last == GroupOf(first + count - 1)
             here == Min({count, GroupSize - i})
         IN  /\ g \in Groups /\ last \in Groups /\ i \in 0 .. GroupSize - 1
             /\ here \in Nat /\ count - here \in Nat
             /\ i + here <= GroupSize /\ count - here <= GroupSize
             /\ last = g => here = count
             /\ last # g => IdxIn(first + here) = 0
             /\ \A h \in Groups, j \in 0 .. GroupSize - 1 :
                  Addr(j, h) \in first .. first + count - 1 <=>
                    \/ h = g /\ j \in i .. i + here - 1
                    \/ last # g /\ h = last /\ j \in 0 .. 0 + (count - here) - 1
<1> DEFINE g == GroupOf(first)
           i == IdxIn(first)
           e == first + count - 1
           last == GroupOf(e)
           here == Min({count, GroupSize - i})
           F == FirstDataBlock
           n == GroupSize
           a == g * n
<1>1. /\ n \in Nat \ {0} /\ F \in {0, 1} /\ TotalBlocks \in Nat
      /\ first \in F .. TotalBlocks - 1 /\ e \in held /\ e \in F .. TotalBlocks - 1
  <2>1. e \in first .. e
    BY GroupFacts, AllocAssumption DEF BlockInv
  <2> QED BY <2>1, GroupFacts, AllocAssumption DEF BlockInv
<1>2. /\ g \in Groups /\ i \in 0 .. n - 1 /\ Addr(i, g) = first
      /\ last \in Groups /\ IdxIn(e) \in 0 .. n - 1 /\ Addr(IdxIn(e), last) = e
  BY <1>1, BlockFacts
<1> HIDE DEF g, i, last
<1>3. a \in Nat /\ g \in Nat /\ first = a + i + F
  BY <1>2, GroupFacts DEF Addr
<1>4. here \in {count, n - i} /\ here <= count /\ here <= n - i
  BY <1>1, <1>2, MinTwo
<1> HIDE DEF here
<1>sizes. here \in Nat /\ count - here \in Nat /\ i + here <= n /\ count - here <= n
  <2>1. i \in Nat /\ i <= n - 1 /\ n \in Nat /\ count \in Nat /\ count >= 1 /\ count <= n + 1
    BY <1>1, <1>2
  <2> QED BY <1>4, <2>1
<1>5. \A h \in Groups : h \in Nat /\ h * n \in Nat
  BY GroupFacts
<1>6. \A h \in Groups, j \in 0 .. n - 1 : Addr(j, h) = h * n + j + F
  BY DEF Addr
<1>7. \A h \in Groups : h < g => h * n + n <= a
  <2> TAKE h \in Groups
  <2>1. h < g => (h + 1) * n <= g * n
    BY <1>1, <1>3, <1>5, TimesMono
  <2>2. (h + 1) * n = h * n + n
    BY <1>1, <1>5
  <2> QED BY <2>1, <2>2
<1>8. \A h \in Groups : h > g => a + n <= h * n
  <2> TAKE h \in Groups
  <2>1. h > g => (g + 1) * n <= h * n
    BY <1>1, <1>3, <1>5, TimesMono
  <2>2. (g + 1) * n = g * n + n
    BY <1>1, <1>3
  <2> QED BY <2>1, <2>2
<1>9. (g + 1) * n = a + n /\ \A h \in Groups : h > g + 1 => a + n + n <= h * n
  <2>1. (g + 1) * n = g * n + n /\ (g + 2) * n = g * n + n + n
    BY <1>1, <1>3
  <2>2. ASSUME NEW h \in Groups, h > g + 1 PROVE (g + 2) * n <= h * n
    BY <1>1, <1>3, <1>5, <2>2, TimesMono
  <2> QED BY <2>1, <2>2
<1> HIDE DEF a
<1>10. e = a + i + F + count - 1
  BY <1>1, <1>3
<1> HIDE DEF e
<1>11. CASE last = g
  <2>1. e = a + IdxIn(e) + F
    BY <1>2, <1>6, <1>11 DEF a
  <2>2. here = count /\ i + count <= n
    BY <1>1, <1>2, <1>3, <1>4, <1>10, <2>1
  <2>3. ASSUME NEW h \in Groups, NEW j \in 0 .. n - 1
        PROVE  Addr(j, h) \in first .. e <=> h = g /\ j \in i .. i + here - 1
    <3> DEFINE m == h * n
    <3>1. m \in Nat /\ h \in Nat /\ Addr(j, h) = m + j + F /\ j \in Nat /\ j <= n - 1
          /\ (h < g => m + n <= a) /\ (h > g => a + n <= m) /\ (h = g => m = a)
      BY <1>1, <1>5, <1>6, <1>7, <1>8 DEF a
    <3> HIDE DEF m
    <3> QED BY <1>1, <1>2, <1>3, <1>10, <2>2, <3>1
  <2> HIDE DEF n
  <2> QED BY <1>2, <1>sizes, <1>11, <2>2, <2>3 DEF g, i, e, last, here, n
<1>12. CASE last # g
  <2>1. i + count > n
    <3> SUFFICES ASSUME i + count <= n PROVE last = g
      BY <1>1, <1>2, <1>12
    <3>1. i + count - 1 \in 0 .. n - 1 /\ e = a + (i + count - 1) + F
      BY <1>1, <1>2, <1>3, <1>10
    <3>2. e = Addr(i + count - 1, g)
      BY <1>2, <1>6, <3>1 DEF a
    <3> QED BY <1>2, <3>1, <3>2, BitFacts DEF last
  <2>2. here = n - i
    BY <1>1, <1>2, <1>4, <2>1
  <2>3. e >= a + n + F /\ e <= a + n + n - 1 + F
    BY <1>1, <1>2, <1>3, <1>10, <2>1
  <2>4. last = g + 1
    <3> DEFINE m == last * n
    <3>1. m \in Nat /\ last \in Nat /\ e = m + IdxIn(e) + F
          /\ (last < g => m + n <= a) /\ (last > g + 1 => a + n + n <= m)
      BY <1>2, <1>5, <1>6, <1>7, <1>9
    <3> HIDE DEF m
    <3> QED BY <1>1, <1>2, <1>3, <1>12, <2>3, <3>1
  <2>5. IdxIn(first + here) = 0
    <3>1. first + here = Addr(0, last)
      <4>1. Addr(0, last) = last * n + 0 + F /\ last * n = a + n
        BY <1>1, <1>2, <1>6, <1>9, <2>4
      <4> QED BY <1>1, <1>2, <1>3, <2>2, <4>1
    <3> QED BY <1>1, <1>2, <3>1, BitFacts
  <2>6. ASSUME NEW h \in Groups, NEW j \in 0 .. n - 1
        PROVE  Addr(j, h) \in first .. e <=>
                 \/ h = g /\ j \in i .. i + here - 1
                 \/ h = last /\ j \in 0 .. 0 + (count - here) - 1
    <3> DEFINE m == h * n
    <3>1. m \in Nat /\ h \in Nat /\ Addr(j, h) = m + j + F /\ j \in Nat /\ j <= n - 1
          /\ (h < g => m + n <= a) /\ (h > g + 1 => a + n + n <= m) /\ (h = g => m = a)
          /\ (h = g + 1 => m = a + n)
      BY <1>1, <1>5, <1>6, <1>7, <1>9 DEF a
    <3> HIDE DEF m
    <3> QED BY <1>1, <1>2, <1>3, <1>10, <2>2, <2>3, <2>4, <3>1
  <2> HIDE DEF n
  <2> QED BY <1>2, <1>sizes, <1>12, <2>5, <2>6 DEF g, i, e, last, here, n
<1> QED BY <1>11, <1>12

\* ext4_balloc_free_blocks: the bits B(h) of group h are cleared.
LEMMA FreeBlocksStep ==
  ASSUME BlockInv, NEW first \in held, NEW count \in 1 .. GroupSize + 1, FreeBlocks(first, count)
  PROVE  BlockInv'
<1> DEFINE X == first .. first + count - 1
           g == GroupOf(first)
           i == IdxIn(first)
           last == GroupOf(first + count - 1)
           here == Min({count, GroupSize - i})
           m == count - here
           B(h) == {j \in 0 .. GroupSize - 1 : Addr(j, h) \in X}
           one == [bitmap EXCEPT ![g] = BitsFree(@, i, here)]
<1>1. /\ X \subseteq held
      /\ bitmap' = IF last = g THEN one
                   ELSE [one EXCEPT ![last] = BitsFree(@, IdxIn(first + here), m)]
      /\ bgFree' = IF last = g THEN [bgFree EXCEPT ![g] = @ + here]
                   ELSE [bgFree EXCEPT ![g] = @ + here, ![last] = @ + m]
      /\ sbFree' = sbFree + count /\ inoBlocks' = inoBlocks - count /\ held' = held \ X
      /\ uninit' = uninit
  BY DEF FreeBlocks
<1>2. /\ g \in Groups /\ last \in Groups /\ i \in 0 .. GroupSize - 1
      /\ here \in Nat /\ m \in Nat /\ i + here <= GroupSize /\ m <= GroupSize
      /\ last = g => here = count
      /\ last # g => IdxIn(first + here) = 0
      /\ \A h \in Groups, j \in 0 .. GroupSize - 1 :
           Addr(j, h) \in X <=>
             \/ h = g /\ j \in i .. i + here - 1
             \/ last # g /\ h = last /\ j \in 0 .. 0 + m - 1
  BY <1>1, RunFacts
<1>3. /\ GroupSize \in Nat \ {0} /\ bitmap \in [Groups -> SUBSET (0 .. GroupSize - 1)]
      /\ held \in SUBSET (FirstDataBlock .. TotalBlocks - 1) /\ first \in Nat /\ count \in Nat
      /\ count = here + m
  <2>1. FirstDataBlock \in Nat /\ GroupSize \in Nat \ {0}
    BY AllocAssumption
  <2>2. count \in Nat
    BY <2>1
  <2>3. first \in Nat
    BY <2>1 DEF BlockInv
  <2> QED BY <1>2, <2>1, <2>2, <2>3 DEF BlockInv
<1>geo. \A h \in Groups : RealIn(h) \in Nat /\ RealIn(h) <= GroupSize
  BY GroupFacts
<1> HIDE DEF g, i, last, here, m
<1>4. B(g) = i .. i + here - 1 /\ (last # g => B(last) = 0 .. 0 + m - 1)
      /\ \A h \in Groups : h # g /\ h # last => B(h) = {}
  BY <1>2, <1>3
<1>5. \A h \in Groups : \A j \in 0 .. GroupSize - 1 : j \in B(h) <=> Addr(j, h) \in X
  OBVIOUS
<1>typed. \A h \in Groups : B(h) \subseteq 0 .. GroupSize - 1
  OBVIOUS
<1> HIDE DEF B, X
<1>6. \A h \in Groups : bitmap'[h] = bitmap[h] \ B(h)
  <2>1. BitsFree(bitmap[g], i, here) = bitmap[g] \ (i .. i + here - 1)
    BY <1>2, BitsFreeFacts
  <2>2. one[g] = bitmap[g] \ B(g) /\ \A h \in Groups : h # g => one[h] = bitmap[h]
    BY <1>2, <1>3, <1>4, <2>1
  <2>3. one \in [Groups -> SUBSET (0 .. GroupSize - 1)]
    <3>1. bitmap[g] \ (i .. i + here - 1) \in SUBSET (0 .. GroupSize - 1)
      BY <1>2, <1>3
    <3> QED BY <1>3, <2>1, <3>1
  <2> HIDE DEF one
  <2>4. CASE last = g
    BY <1>1, <1>4, <2>2, <2>4
  <2>5. CASE last # g
    <3>1. BitsFree(one[last], 0, m) = one[last] \ (0 .. 0 + m - 1)
      BY <1>2, BitsFreeFacts
    <3>2. bitmap' = [one EXCEPT ![last] = BitsFree(@, 0, m)]
      BY <1>1, <1>2, <2>5
    <3>3. bitmap'[last] = bitmap[last] \ B(last)
      BY <1>2, <1>4, <2>2, <2>3, <2>5, <3>1, <3>2
    <3>4. \A h \in Groups : h # last => bitmap'[h] = one[h]
      BY <2>3, <3>2
    <3> QED BY <1>4, <2>2, <3>3, <3>4
  <2> QED BY <2>4, <2>5
<1>7. bitmap' \in [Groups -> SUBSET (0 .. GroupSize - 1)]
  <2>1. bitmap' = [h \in Groups |-> bitmap'[h]]
    <3>1. one = [h \in Groups |-> one[h]]
      BY <1>3
    <3> HIDE DEF one
    <3> QED BY <1>1, <3>1
  <2>2. \A h \in Groups : bitmap'[h] \in SUBSET (0 .. GroupSize - 1)
    BY <1>3, <1>6
  <2> QED BY <2>1, <2>2
<1>8. \A h \in Groups : \A j \in 0 .. GroupSize - 1 :
        Addr(j, h) \in held' <=> Addr(j, h) \in held /\ j \notin B(h)
  BY <1>1, <1>5
<1>9. ASSUME NEW h \in Groups, NEW j \in B(h)
      PROVE  /\ j \in 0 .. GroupSize - 1 /\ Addr(j, h) \in held
             /\ j < RealIn(h) /\ j \notin Meta[h] /\ h \notin uninit
  <2>1. j \in 0 .. GroupSize - 1 /\ Addr(j, h) \in held
    BY <1>1, <1>5, <1>typed
  <2>2. j < RealIn(h)
    BY <1>3, <2>1, BitFacts
  <2> QED BY <2>1, <2>2 DEF BlockInv
<1>10. held' \in SUBSET (FirstDataBlock .. TotalBlocks - 1)
  BY <1>1, <1>3
<1>11. inoBlocks' = Cardinality(held')
  <2>1. IsFiniteSet(held)
    <3>1. IsFiniteSet(FirstDataBlock .. TotalBlocks - 1)
      BY FS_Interval, AllocAssumption
    <3> QED BY <1>3, <3>1, FS_Subset
  <2>2. Cardinality(held \ X) = Cardinality(held) - Cardinality(held \cap X)
    BY <2>1, FS_Difference
  <2>3. held \cap X = X
    BY <1>1
  <2>4. Cardinality(X) = count
    <3>1. first + count - 1 \in Int /\ first \in Int /\ ~(first > first + count - 1)
          /\ (first + count - 1) - first + 1 = count
      BY <1>3
    <3> QED BY <3>1, FS_Interval DEF X
  <2>5. inoBlocks = Cardinality(held)
    BY DEF BlockInv
  <2> QED BY <1>1, <2>2, <2>3, <2>4, <2>5
<1>12. ASSUME NEW h \in Groups \ uninit', NEW j \in 0 .. GroupSize - 1
       PROVE  j \in bitmap'[h] <=> j \in Meta[h] \/ j >= RealIn(h) \/ Addr(j, h) \in held'
  <2>1. j \in bitmap[h] <=> j \in Meta[h] \/ j >= RealIn(h) \/ Addr(j, h) \in held
    BY <1>1 DEF BlockInv
  <2>2. j \in B(h) => j < RealIn(h) /\ j \notin Meta[h]
    BY <1>9
  <2>3. RealIn(h) \in Nat /\ j \in Nat
    BY GroupFacts
  <2> QED BY <1>6, <1>8, <2>1, <2>2, <2>3
<1>13. \A h \in Groups : \A j \in Meta[h] : Addr(j, h) \notin held'
  BY <1>1 DEF BlockInv
<1>14. \A h \in uninit' : \A j \in 0 .. GroupSize - 1 : Addr(j, h) \notin held'
  BY <1>1 DEF BlockInv
<1>15. ASSUME NEW h \in Groups
       PROVE  Cardinality(FreeBits(h, held')) = Cardinality(FreeBits(h, held)) + Cardinality(B(h))
  <2>1. \A j \in 0 .. RealIn(h) - 1 : j \in 0 .. GroupSize - 1
    BY <1>3, <1>geo
  <2>2. B(h) \subseteq 0 .. RealIn(h) - 1
    BY <1>3, <1>9, <1>geo
  <2>3. FreeBits(h, held') = FreeBits(h, held) \cup B(h)
    BY <1>8, <1>9, <2>1, <2>2 DEF FreeBits
  <2>4. FreeBits(h, held) \cap B(h) = {}
    BY <1>9 DEF FreeBits
  <2>5. IsFiniteSet(B(h))
    <3>1. IsFiniteSet(0 .. RealIn(h) - 1)
      BY <1>geo, FS_Interval
    <3> QED BY <2>2, <3>1, FS_Subset
  <2>6. IsFiniteSet(FreeBits(h, held)) /\ Cardinality(FreeBits(h, held)) \in Nat
    BY FreeBitsFinite
  <2>7. Cardinality(B(h)) \in Nat
    BY <2>5, FS_CardinalityType
  <2>8. Cardinality(FreeBits(h, held) \cup B(h)) =
          Cardinality(FreeBits(h, held)) + Cardinality(B(h)) - Cardinality({})
    BY <2>4, <2>5, <2>6, FS_Union
  <2> QED BY <2>3, <2>6, <2>7, <2>8, FS_EmptySet
<1>16. Cardinality(B(g)) = here /\ (last # g => Cardinality(B(last)) = m)
       /\ \A h \in Groups : h # g /\ h # last => Cardinality(B(h)) = 0
  <2>1. \A a \in Nat, k \in Nat : Cardinality(a .. a + k - 1) = k
    <3> TAKE a \in Nat, k \in Nat
    <3>1. a + k - 1 \in Int /\ a \in Int
      OBVIOUS
    <3>2. Cardinality(a .. a + k - 1) = IF a > a + k - 1 THEN 0 ELSE (a + k - 1) - a + 1
      BY <3>1, FS_Interval
    <3> QED BY <3>2
  <2>2. i \in Nat
    BY <1>2
  <2>3. Cardinality(B(g)) = here
    BY <1>2, <1>4, <2>1, <2>2
  <2>4. last # g => Cardinality(B(last)) = m
    <3>1. Cardinality(0 .. 0 + m - 1) = m
      BY <1>2, <2>1
    <3> QED BY <1>4, <3>1
  <2> QED BY <1>4, <2>3, <2>4, FS_EmptySet
<1>17. bgFree \in [Groups -> Int] /\ sbFree = SumOver(bgFree)
       /\ \A h \in Groups : bgFree[h] = Cardinality(FreeBits(h, held))
  BY DEF BlockInv
<1>18. CASE last = g
  <2>1. bgFree' = [bgFree EXCEPT ![g] = @ + here] /\ here \in Int /\ here = count
    BY <1>1, <1>2, <1>18
  <2>2. sbFree' = SumOver(bgFree')
    <3>1. SumOver([bgFree EXCEPT ![g] = @ + here]) = SumOver(bgFree) + here
      BY <1>2, <1>17, <2>1, SumOverUpdate
    <3>2. SumOver(bgFree') = SumOver(bgFree) + here
      BY <2>1, <3>1
    <3> QED BY <1>1, <1>17, <2>1, <3>2
  <2>3. bgFree' \in [Groups -> Int]
    <3>1. bgFree[g] + here \in Int
      BY <1>2, <1>17
    <3> QED BY <1>17, <2>1, <3>1
  <2>4. \A h \in Groups : bgFree'[h] = Cardinality(FreeBits(h, held'))
    <3> TAKE h \in Groups
    <3>1. bgFree'[h] = IF h = g THEN bgFree[h] + here ELSE bgFree[h]
      BY <1>17, <2>1
    <3>2. bgFree[h] \in Int /\ bgFree[h] = Cardinality(FreeBits(h, held))
      BY <1>17
    <3>3. Cardinality(B(h)) = IF h = g THEN here ELSE 0
      BY <1>16, <1>18
    <3> QED BY <1>2, <1>15, <3>1, <3>2, <3>3
  <2> QED BY <1>1, <1>7, <1>10, <1>11, <1>12, <1>13, <1>14, <2>2, <2>3, <2>4
       DEF BlockInv, SumOver
<1>19. CASE last # g
  <2> DEFINE f == [bgFree EXCEPT ![g] = @ + here]
  <2>1. f \in [Groups -> Int] /\ here \in Int /\ m \in Int
    BY <1>2, <1>17
  <2>2. bgFree' = [f EXCEPT ![last] = @ + m]
    BY <1>1, <1>19
  <2>3. SumOver(f) = SumOver(bgFree) + here /\ SumOver(bgFree) \in Int
    BY <1>2, <1>17, <2>1, SumOverUpdate
  <2>4. \A h \in Groups : f[h] = IF h = g THEN bgFree[h] + here ELSE bgFree[h]
    BY <1>17
  <2> HIDE DEF f
  <2>5. SumOver([f EXCEPT ![last] = @ + m]) = SumOver(f) + m
    BY <1>2, <2>1, SumOverUpdate
  <2>6. SumOver(bgFree') = SumOver(f) + m
    BY <2>2, <2>5
  <2>7. sbFree' = SumOver(bgFree')
    BY <1>1, <1>2, <1>3, <1>17, <2>3, <2>6
  <2>8. bgFree' \in [Groups -> Int]
    <3>1. f[last] + m \in Int
      BY <1>2, <2>1
    <3> QED BY <2>1, <2>2, <3>1
  <2>9. \A h \in Groups : bgFree'[h] = Cardinality(FreeBits(h, held'))
    <3> TAKE h \in Groups
    <3>1. bgFree'[h] = IF h = last THEN f[h] + m ELSE f[h]
      BY <2>1, <2>2
    <3>2. bgFree[h] \in Int /\ bgFree[h] = Cardinality(FreeBits(h, held))
      BY <1>17
    <3>3. Cardinality(B(h)) = IF h = g THEN here ELSE IF h = last THEN m ELSE 0
      BY <1>16, <1>19
    <3> QED BY <1>2, <1>15, <1>19, <2>4, <3>1, <3>2, <3>3
  <2> QED BY <1>1, <1>7, <1>10, <1>11, <1>12, <1>13, <1>14, <2>7, <2>8, <2>9
       DEF BlockInv, SumOver
<1> QED BY <1>18, <1>19

----------------------------------------------------------------------------
(* Inodes *)

\* The number of inodes of a group.
LEMMA InodeGroupFacts ==
  /\ InodesPerGroup \in Nat \ {0} /\ TotalInodes \in Nat
  /\ \A g \in Groups : /\ g \in Nat /\ g * InodesPerGroup \in Nat
                       /\ InodesIn(g) \in Nat /\ InodesIn(g) <= InodesPerGroup
<1>1. /\ InodesPerGroup \in Nat \ {0} /\ TotalInodes \in Nat
      /\ TotalInodes > (GroupCount - 1) * InodesPerGroup
      /\ TotalInodes <= GroupCount * InodesPerGroup
  BY AllocAssumption
<1>2. GroupCount \in Nat \ {0} /\ Groups = 0 .. GroupCount - 1
  BY GroupFacts
<1>3. (GroupCount - 1) * InodesPerGroup = GroupCount * InodesPerGroup - InodesPerGroup
      /\ GroupCount * InodesPerGroup \in Nat
  BY <1>1, <1>2
<1>4. ASSUME NEW g \in Groups
      PROVE  g \in Nat /\ g * InodesPerGroup \in Nat /\ InodesIn(g) \in Nat
             /\ InodesIn(g) <= InodesPerGroup
  <2>1. g \in Nat
    BY <1>2
  <2>2. g * InodesPerGroup \in Nat
    BY <1>1, <2>1
  <2>3. InodesIn(g) \in Nat /\ InodesIn(g) <= InodesPerGroup
    BY <1>1, <1>3 DEF InodesIn
  <2> QED BY <2>1, <2>2, <2>3
<1> QED BY <1>1, <1>4

\* Every bit of a group is an inode number, and no other bit is the same.
LEMMA InodeBitFacts ==
  ASSUME NEW g \in Groups, NEW i \in 0 .. InodesPerGroup - 1
  PROVE  /\ InodeGroup(InodeAt(i, g)) = g /\ InodeIdx(InodeAt(i, g)) = i
         /\ InodeAt(i, g) \in 1 .. TotalInodes <=> i < InodesIn(g)
<1> DEFINE a == g * InodesPerGroup
<1>1. /\ g \in Nat /\ InodesPerGroup \in Nat \ {0} /\ a \in Nat /\ TotalInodes \in Nat
      /\ GroupCount \in Nat \ {0} /\ g <= GroupCount - 1 /\ i \in Nat
  BY GroupFacts, InodeGroupFacts
<1>2. InodeAt(i, g) = a + i + 1 /\ InodeAt(i, g) - 1 = a + i
  BY <1>1 DEF InodeAt
<1>3. (a + i) \div InodesPerGroup = g /\ (a + i) % InodesPerGroup = i
  BY <1>1, DivModUnique
<1>4. InodeGroup(InodeAt(i, g)) = g /\ InodeIdx(InodeAt(i, g)) = i
  BY <1>2, <1>3 DEF InodeGroup, InodeIdx
<1>5. InodeAt(i, g) \in 1 .. TotalInodes <=> i < InodesIn(g)
  <2>1. CASE g = GroupCount - 1
    <3>1. InodesIn(g) = TotalInodes - a
      BY <2>1 DEF InodesIn
    <3> HIDE DEF a
    <3> QED BY <1>1, <1>2, <3>1
  <2>2. CASE g < GroupCount - 1
    <3>1. (g + 1) * InodesPerGroup <= (GroupCount - 1) * InodesPerGroup
          /\ (GroupCount - 1) * InodesPerGroup \in Int
      BY <1>1, <2>2, TimesMono
    <3>2. (g + 1) * InodesPerGroup = a + InodesPerGroup
      BY <1>1
    <3>3. TotalInodes > (GroupCount - 1) * InodesPerGroup
      BY AllocAssumption
    <3>4. InodesIn(g) = InodesPerGroup
      BY <2>2 DEF InodesIn
    <3> HIDE DEF a
    <3> QED BY <1>1, <1>2, <3>1, <3>2, <3>3, <3>4
  <2> QED BY <1>1, <2>1, <2>2
<1> QED BY <1>4, <1>5

\* Every inode is a bit of a group.
LEMMA InodeNumberFacts ==
  ASSUME NEW n \in 1 .. TotalInodes
  PROVE  /\ InodeGroup(n) \in Groups /\ InodeIdx(n) \in 0 .. InodesPerGroup - 1
         /\ InodeIdx(n) < InodesIn(InodeGroup(n)) /\ InodeAt(InodeIdx(n), InodeGroup(n)) = n
<1> DEFINE g == InodeGroup(n)
           i == InodeIdx(n)
           p == InodesPerGroup
<1>1. p \in Nat \ {0} /\ TotalInodes \in Nat /\ TotalInodes <= GroupCount * p
      /\ GroupCount \in Nat \ {0} /\ n \in Nat /\ n - 1 \in Nat /\ n <= TotalInodes
  BY GroupFacts, AllocAssumption
<1>2. g \in Nat /\ i \in 0 .. p - 1 /\ n - 1 = g * p + i
  BY <1>1, DivMod DEF InodeGroup, InodeIdx
<1> HIDE DEF g, i
<1>3. g * p \in Nat /\ GroupCount * p \in Nat
  BY <1>1, <1>2
<1>4. InodeAt(i, g) = n
  BY <1>1, <1>2, <1>3 DEF InodeAt
<1>5. g \in Groups
  <2> SUFFICES ASSUME g >= GroupCount PROVE FALSE
    BY <1>1, <1>2, GroupFacts
  <2>1. GroupCount * p <= g * p
    BY <1>1, <1>2, TimesMono
  <2> QED BY <1>1, <1>2, <1>3, <2>1
<1>6. i < InodesIn(g)
  BY <1>2, <1>4, <1>5, InodeBitFacts
<1> QED BY <1>2, <1>4, <1>5, <1>6 DEF g, i

\* Bits of a group are a finite set.
LEMMA InodeBitsFinite ==
  ASSUME NEW g \in Groups, NEW S
  PROVE  /\ IsFiniteSet(FreeInodes(g, S)) /\ Cardinality(FreeInodes(g, S)) \in Nat
         /\ IsFiniteSet(InodeBits(g, S)) /\ Cardinality(InodeBits(g, S)) \in Nat
<1>1. InodesIn(g) - 1 \in Int
  BY InodeGroupFacts
<1>2. IsFiniteSet(0 .. InodesIn(g) - 1)
  BY <1>1, FS_Interval
<1>3. /\ FreeInodes(g, S) \in SUBSET (0 .. InodesIn(g) - 1)
      /\ InodeBits(g, S) \in SUBSET (0 .. InodesIn(g) - 1)
  BY DEF FreeInodes, InodeBits
<1> QED BY <1>2, <1>3, FS_Subset, FS_CardinalityType

\* A bitmap that is set up shows the inodes that are given out.
LEMMA ReadyInodesBits ==
  ASSUME InodeInv, NEW gs
  PROVE  /\ ReadyInodes(gs) \in [Groups -> SUBSET (0 .. InodesPerGroup - 1)]
         /\ \A g \in Groups \ (uninit \ gs) : \A i \in 0 .. InodesPerGroup - 1 :
              i \in ReadyInodes(gs)[g] <=> InodeAt(i, g) \in Given
<1> DEFINE R == ReadyInodes(gs)
<1>1. \A g \in Groups : R[g] = IF g \in uninit \cap gs THEN {} ELSE ibitmap[g]
  BY DEF ReadyInodes
<1>2. R \in [Groups -> SUBSET (0 .. InodesPerGroup - 1)]
  BY DEF ReadyInodes, InodeInv
<1> HIDE DEF R
<1>3. ASSUME NEW g \in Groups \ (uninit \ gs), NEW i \in 0 .. InodesPerGroup - 1
      PROVE  i \in R[g] <=> InodeAt(i, g) \in Given
  BY <1>1 DEF InodeInv
<1> QED BY <1>2, <1>3 DEF R

\* Setting up groups changes nothing that matters.
LEMMA InodesKept ==
  ASSUME InodeInv, NEW gs, Used(gs), ibitmap' = ReadyInodes(gs),
         UNCHANGED <<igFree, igDirs, igUnused, isbFree, dirs, files>>
  PROVE  InodeInv'
<1>1. /\ ibitmap' \in [Groups -> SUBSET (0 .. InodesPerGroup - 1)]
      /\ uninit' = uninit \ gs /\ uninit' \in SUBSET Groups /\ uninit' \subseteq uninit
      /\ \A g \in Groups \ uninit' : \A i \in 0 .. InodesPerGroup - 1 :
           i \in ibitmap'[g] <=> InodeAt(i, g) \in Given
  BY ReadyInodesBits DEF Used, InodeInv
<1>2. /\ Given' = Given /\ dirs' = dirs /\ files' = files
      /\ igFree' = igFree /\ igDirs' = igDirs /\ igUnused' = igUnused /\ isbFree' = isbFree
  BY DEF Given
<1>3. /\ Given' \in SUBSET (1 .. TotalInodes) /\ dirs' \cap files' = {}
      /\ \A g \in uninit' : \A i \in 0 .. InodesPerGroup - 1 : InodeAt(i, g) \notin Given'
      /\ igFree' \in [Groups -> Int] /\ igDirs' \in [Groups -> Int] /\ igUnused' \in [Groups -> Int]
      /\ \A g \in Groups : igFree'[g] = Cardinality(FreeInodes(g, Given'))
      /\ \A g \in Groups : igDirs'[g] = Cardinality(InodeBits(g, dirs'))
      /\ \A g \in Groups : \A i \in 0 .. InodesPerGroup - 1 :
           InodeAt(i, g) \in Given' => i < InodesIn(g) - igUnused'[g]
      /\ isbFree' = SumOver(igFree')
  BY <1>1, <1>2 DEF InodeInv
<1> QED BY <1>1, <1>2, <1>3 DEF InodeInv, SumOver

\* The count of a group's free inodes after one more was given out or taken back.
LEMMA FreeInodesUpdate ==
  ASSUME NEW g \in Groups, NEW i \in 0 .. InodesIn(g) - 1, NEW S, InodeAt(i, g) \notin S
  PROVE  LET T == S \cup {InodeAt(i, g)}
         IN  /\ Cardinality(FreeInodes(g, T)) = Cardinality(FreeInodes(g, S)) - 1
             /\ Cardinality(InodeBits(g, T)) = Cardinality(InodeBits(g, S)) + 1
             /\ \A h \in Groups : h # g => /\ FreeInodes(h, T) = FreeInodes(h, S)
                                           /\ InodeBits(h, T) = InodeBits(h, S)
<1> DEFINE x == InodeAt(i, g)
           T == S \cup {x}
<1>1. \A h \in Groups : \A j \in 0 .. InodesIn(h) - 1 : j \in 0 .. InodesPerGroup - 1
  BY InodeGroupFacts
<1>2. \A h \in Groups : \A j \in 0 .. InodesIn(h) - 1 : InodeAt(j, h) = x => h = g /\ j = i
  BY <1>1, InodeBitFacts
<1>3. \A h \in Groups : \A j \in 0 .. InodesIn(h) - 1 :
        InodeAt(j, h) \in T <=> InodeAt(j, h) \in S \/ (h = g /\ j = i)
  BY <1>2
<1> HIDE DEF T
<1>4. FreeInodes(g, T) = FreeInodes(g, S) \ {i} /\ i \in FreeInodes(g, S)
  BY <1>3 DEF FreeInodes
<1>5. InodeBits(g, T) = InodeBits(g, S) \cup {i} /\ i \notin InodeBits(g, S)
  BY <1>3 DEF InodeBits
<1>6. \A h \in Groups : h # g => FreeInodes(h, T) = FreeInodes(h, S) /\ InodeBits(h, T) = InodeBits(h, S)
  BY <1>3 DEF FreeInodes, InodeBits
<1>7. Cardinality(FreeInodes(g, T)) = Cardinality(FreeInodes(g, S)) - 1
  BY <1>4, InodeBitsFinite, FS_RemoveElement
<1>8. Cardinality(InodeBits(g, T)) = Cardinality(InodeBits(g, S)) + 1
  BY <1>5, InodeBitsFinite, FS_AddElement
<1> QED BY <1>6, <1>7, <1>8 DEF T

\* An inode that was free is given out.
LEMMA InodeTaken ==
  ASSUME InodeInv, NEW g \in Groups, Used({g}), NEW i \in 0 .. InodesIn(g) - 1, NEW d \in BOOLEAN,
         i \notin ReadyInodes({g})[g],
         ibitmap' = [ReadyInodes({g}) EXCEPT ![g] = @ \cup {i}],
         igFree' = [igFree EXCEPT ![g] = @ - 1],
         igDirs' = IF d THEN [igDirs EXCEPT ![g] = @ + 1] ELSE igDirs,
         igUnused' = IF i >= InodesIn(g) - igUnused[g]
                     THEN [igUnused EXCEPT ![g] = InodesIn(g) - (i + 1)] ELSE igUnused,
         isbFree' = isbFree - 1,
         dirs' = IF d THEN dirs \cup {InodeAt(i, g)} ELSE dirs,
         files' = IF d THEN files ELSE files \cup {InodeAt(i, g)}
  PROVE  InodeInv'
<1> DEFINE R == ReadyInodes({g})
           x == InodeAt(i, g)
<1>1. /\ R \in [Groups -> SUBSET (0 .. InodesPerGroup - 1)]
      /\ \A h \in Groups \ (uninit \ {g}) : \A j \in 0 .. InodesPerGroup - 1 :
           j \in R[h] <=> InodeAt(j, h) \in Given
  BY ReadyInodesBits
<1>2. /\ uninit' = uninit \ {g} /\ uninit' \in SUBSET Groups /\ uninit' \subseteq uninit
      /\ ibitmap' = [R EXCEPT ![g] = @ \cup {i}] /\ i \notin R[g]
      /\ Given' = Given \cup {x}
  BY DEF Used, InodeInv, Given
<1> HIDE DEF R
<1>3. i \in 0 .. InodesPerGroup - 1 /\ InodesIn(g) \in Nat
  BY InodeGroupFacts
<1>4. x \notin Given /\ x \notin dirs /\ x \notin files
  BY <1>1, <1>2, <1>3 DEF Given
<1>5. x \in 1 .. TotalInodes
  BY <1>3, InodeBitFacts
<1>6. \A h \in Groups : \A j \in 0 .. InodesPerGroup - 1 : InodeAt(j, h) = x => h = g /\ j = i
  BY <1>3, InodeBitFacts
<1> HIDE DEF x
<1>7. Given' \in SUBSET (1 .. TotalInodes) /\ dirs' \cap files' = {}
  <2>1. Given \in SUBSET (1 .. TotalInodes) /\ dirs \cap files = {}
    BY DEF InodeInv
  <2>2. dirs' \cap files' = {}
    BY <1>4, <2>1 DEF x
  <2> QED BY <1>2, <1>5, <2>1, <2>2
<1>8. /\ ibitmap' \in [Groups -> SUBSET (0 .. InodesPerGroup - 1)]
      /\ ibitmap'[g] = R[g] \cup {i} /\ \A h \in Groups : h # g => ibitmap'[h] = R[h]
  <2>1. R[g] \cup {i} \in SUBSET (0 .. InodesPerGroup - 1)
    BY <1>1, <1>3
  <2> QED BY <1>1, <1>2, <2>1
<1>9. \A h \in Groups : \A j \in 0 .. InodesPerGroup - 1 :
        InodeAt(j, h) \in Given' <=> InodeAt(j, h) \in Given \/ (h = g /\ j = i)
  BY <1>2, <1>6 DEF x
<1>10. ASSUME NEW h \in Groups \ uninit', NEW j \in 0 .. InodesPerGroup - 1
       PROVE  j \in ibitmap'[h] <=> InodeAt(j, h) \in Given'
  <2>1. j \in R[h] <=> InodeAt(j, h) \in Given
    BY <1>1, <1>2
  <2>2. j \in ibitmap'[h] <=> j \in R[h] \/ (h = g /\ j = i)
    BY <1>8
  <2> QED BY <1>9, <2>1, <2>2
<1>11. \A h \in uninit' : \A j \in 0 .. InodesPerGroup - 1 : InodeAt(j, h) \notin Given'
  BY <1>2, <1>9 DEF InodeInv
<1>12. /\ igFree \in [Groups -> Int] /\ igDirs \in [Groups -> Int] /\ igUnused \in [Groups -> Int]
       /\ isbFree = SumOver(igFree)
       /\ \A h \in Groups : igFree[h] = Cardinality(FreeInodes(h, Given))
       /\ \A h \in Groups : igDirs[h] = Cardinality(InodeBits(h, dirs))
       /\ \A h \in Groups : \A j \in 0 .. InodesPerGroup - 1 :
            InodeAt(j, h) \in Given => j < InodesIn(h) - igUnused[h]
  BY DEF InodeInv
<1>13. /\ igFree' \in [Groups -> Int] /\ igDirs' \in [Groups -> Int] /\ igUnused' \in [Groups -> Int]
       /\ igFree'[g] = igFree[g] - 1 /\ igFree[g] \in Int
       /\ \A h \in Groups : h # g => igFree'[h] = igFree[h]
  BY <1>3, <1>12
<1>14. \A h \in Groups : igFree'[h] = Cardinality(FreeInodes(h, Given'))
  <2>1. /\ Cardinality(FreeInodes(g, Given')) = Cardinality(FreeInodes(g, Given)) - 1
        /\ \A h \in Groups : h # g => FreeInodes(h, Given') = FreeInodes(h, Given)
    BY <1>2, <1>4, FreeInodesUpdate DEF x
  <2> QED BY <1>12, <1>13, <2>1
<1>15. \A h \in Groups : igDirs'[h] = Cardinality(InodeBits(h, dirs'))
  <2>1. CASE d
    <3>1. dirs' = dirs \cup {x} /\ igDirs' = [igDirs EXCEPT ![g] = @ + 1]
      BY <2>1 DEF x
    <3>2. /\ Cardinality(InodeBits(g, dirs')) = Cardinality(InodeBits(g, dirs)) + 1
          /\ \A h \in Groups : h # g => InodeBits(h, dirs') = InodeBits(h, dirs)
      BY <1>4, <3>1, FreeInodesUpdate DEF x
    <3> QED BY <1>12, <3>1, <3>2
  <2>2. CASE ~d
    BY <1>12, <2>2
  <2> QED BY <2>1, <2>2
<1>16. ASSUME NEW h \in Groups, NEW j \in 0 .. InodesPerGroup - 1, InodeAt(j, h) \in Given'
       PROVE  j < InodesIn(h) - igUnused'[h]
  <2>1. CASE h # g
    <3>1. igUnused'[h] = igUnused[h]
      BY <1>12, <2>1
    <3> QED BY <1>9, <1>12, <1>16, <2>1, <3>1
  <2>2. CASE h = g
    <3> DEFINE u == igUnused[g]
               v == igUnused'[g]
               n == InodesIn(g)
    <3>1. u \in Int /\ n \in Nat /\ i \in Nat /\ j \in Nat /\ v = IF i >= n - u THEN n - (i + 1) ELSE u
      BY <1>3, <1>12
    <3>2. j = i \/ j < n - u
      BY <1>9, <1>12, <1>16, <2>2
    <3> HIDE DEF u, v, n
    <3>3. j < n - v
      BY <3>1, <3>2
    <3> QED BY <2>2, <3>3 DEF v, n
  <2> QED BY <2>1, <2>2
<1>17. isbFree' = SumOver(igFree')
  <2>1. igFree' = [igFree EXCEPT ![g] = @ + (-1)] /\ -1 \in Int
    <3>1. igFree[g] - 1 = igFree[g] + (-1)
      BY <1>12
    <3>2. [igFree EXCEPT ![g] = @ - 1] = [igFree EXCEPT ![g] = @ + (-1)]
      BY <3>1, Zenon
    <3> QED BY <3>2
  <2>2. SumOver(igFree) \in Int /\ SumOver([igFree EXCEPT ![g] = @ + (-1)]) = SumOver(igFree) + (-1)
    BY <1>12, <2>1, SumOverUpdate
  <2>3. SumOver(igFree') = SumOver(igFree) + (-1)
    BY <2>1, <2>2
  <2> QED BY <1>12, <2>2, <2>3
<1> QED BY <1>2, <1>7, <1>8, <1>10, <1>11, <1>13, <1>14, <1>15, <1>16, <1>17 DEF InodeInv, SumOver

\* ext4_ialloc_free_inode.
LEMMA FreeInodeStep ==
  ASSUME InodeInv, NEW n \in Given, FreeInode(n)
  PROVE  InodeInv'
<1> DEFINE g == InodeGroup(n)
           i == InodeIdx(n)
           S == Given \ {n}
<1>1. /\ ibitmap' = [ibitmap EXCEPT ![g] = @ \ {i}]
      /\ igFree' = [igFree EXCEPT ![g] = @ + 1]
      /\ igDirs' = IF n \in dirs THEN [igDirs EXCEPT ![g] = @ - 1] ELSE igDirs
      /\ isbFree' = isbFree + 1
      /\ dirs' = dirs \ {n} /\ files' = files \ {n}
      /\ igUnused' = igUnused /\ uninit' = uninit
  BY DEF FreeInode
<1>2. n \in 1 .. TotalInodes
  BY DEF InodeInv
<1>3. /\ g \in Groups /\ i \in 0 .. InodesPerGroup - 1 /\ i \in 0 .. InodesIn(g) - 1
      /\ InodeAt(i, g) = n
  BY <1>2, InodeNumberFacts, InodeGroupFacts
<1> HIDE DEF g, i
<1>4. /\ Given \in SUBSET (1 .. TotalInodes) /\ dirs \cap files = {} /\ uninit \in SUBSET Groups
      /\ ibitmap \in [Groups -> SUBSET (0 .. InodesPerGroup - 1)]
      /\ igFree \in [Groups -> Int] /\ igDirs \in [Groups -> Int] /\ igUnused \in [Groups -> Int]
      /\ isbFree = SumOver(igFree)
      /\ \A h \in Groups : igFree[h] = Cardinality(FreeInodes(h, Given))
      /\ \A h \in Groups : igDirs[h] = Cardinality(InodeBits(h, dirs))
  BY DEF InodeInv
<1>5. Given' = S /\ Given = S \cup {n} /\ n \notin S
  BY <1>1 DEF Given
<1> HIDE DEF S
<1>6. \A h \in Groups : \A j \in 0 .. InodesPerGroup - 1 : InodeAt(j, h) = n => h = g /\ j = i
  BY <1>3, InodeBitFacts
<1>7. \A h \in Groups : \A j \in 0 .. InodesPerGroup - 1 :
        InodeAt(j, h) \in Given' <=> InodeAt(j, h) \in Given /\ ~(h = g /\ j = i)
  BY <1>3, <1>5, <1>6
<1>8. ASSUME NEW h \in Groups \ uninit', NEW j \in 0 .. InodesPerGroup - 1
      PROVE  j \in ibitmap'[h] <=> InodeAt(j, h) \in Given'
  <2>1. j \in ibitmap[h] <=> InodeAt(j, h) \in Given
    BY <1>1 DEF InodeInv
  <2>2. j \in ibitmap'[h] <=> j \in ibitmap[h] /\ ~(h = g /\ j = i)
    BY <1>1, <1>3, <1>4
  <2> QED BY <1>7, <2>1, <2>2
<1>9. /\ Given' \in SUBSET (1 .. TotalInodes) /\ dirs' \cap files' = {}
      /\ uninit' \in SUBSET Groups
      /\ ibitmap' \in [Groups -> SUBSET (0 .. InodesPerGroup - 1)]
      /\ igFree' \in [Groups -> Int] /\ igDirs' \in [Groups -> Int] /\ igUnused' \in [Groups -> Int]
  BY <1>1, <1>3, <1>4, <1>5
<1>10. /\ \A h \in uninit' : \A j \in 0 .. InodesPerGroup - 1 : InodeAt(j, h) \notin Given'
       /\ \A h \in Groups : \A j \in 0 .. InodesPerGroup - 1 :
            InodeAt(j, h) \in Given' => j < InodesIn(h) - igUnused'[h]
  BY <1>1, <1>7 DEF InodeInv
<1>11. \A h \in Groups : igFree'[h] = Cardinality(FreeInodes(h, Given'))
  <2>1. /\ Cardinality(FreeInodes(g, Given)) = Cardinality(FreeInodes(g, S)) - 1
        /\ \A h \in Groups : h # g => FreeInodes(h, Given) = FreeInodes(h, S)
    BY <1>3, <1>5, FreeInodesUpdate
  <2>2. Cardinality(FreeInodes(g, S)) \in Nat
    BY <1>3, InodeBitsFinite
  <2>3. igFree'[g] = igFree[g] + 1 /\ \A h \in Groups : h # g => igFree'[h] = igFree[h]
    BY <1>1, <1>3, <1>4
  <2>4. igFree'[g] = Cardinality(FreeInodes(g, S))
    BY <1>3, <1>4, <2>1, <2>2, <2>3
  <2> QED BY <1>4, <1>5, <2>1, <2>3, <2>4
<1>12. \A h \in Groups : igDirs'[h] = Cardinality(InodeBits(h, dirs'))
  <2>1. CASE n \in dirs
    <3>1. dirs = dirs' \cup {n} /\ n \notin dirs'
      BY <1>1, <2>1
    <3>2. /\ Cardinality(InodeBits(g, dirs)) = Cardinality(InodeBits(g, dirs')) + 1
          /\ \A h \in Groups : h # g => InodeBits(h, dirs) = InodeBits(h, dirs')
      BY <1>3, <3>1, FreeInodesUpdate
    <3>3. Cardinality(InodeBits(g, dirs')) \in Nat
      BY <1>3, InodeBitsFinite
    <3>4. igDirs'[g] = igDirs[g] - 1 /\ \A h \in Groups : h # g => igDirs'[h] = igDirs[h]
      BY <1>1, <1>3, <1>4, <2>1
    <3>5. igDirs'[g] = Cardinality(InodeBits(g, dirs'))
      BY <1>3, <1>4, <3>2, <3>3, <3>4
    <3> QED BY <1>4, <3>2, <3>4, <3>5
  <2>2. CASE n \notin dirs
    <3>1. dirs' = dirs /\ igDirs' = igDirs
      BY <1>1, <2>2
    <3> QED BY <1>4, <3>1
  <2> QED BY <2>1, <2>2
<1>13. isbFree' = SumOver(igFree')
  <2>0. 1 \in Int /\ g \in Groups /\ igFree \in [Groups -> Int]
    BY <1>3, <1>4
  <2>1. SumOver(igFree) \in Int /\ SumOver([igFree EXCEPT ![g] = @ + 1]) = SumOver(igFree) + 1
    BY <2>0, SumOverUpdate
  <2>2. SumOver(igFree') = SumOver(igFree) + 1
    BY <1>1, <2>1
  <2> QED BY <1>1, <1>4, <2>2
<1> QED BY <1>8, <1>9, <1>10, <1>11, <1>12, <1>13 DEF InodeInv, SumOver

\* The steps that change nothing of the inodes, and those that change nothing of the blocks.
LEMMA InodesUnchanged ==
  ASSUME InodeInv, SearchInv, UNCHANGED inodeVars,
         (ibitmap' = ibitmap /\ uninit' = uninit)
         \/ \E gs : Used(gs) /\ ibitmap' = ReadyInodes(gs)
  PROVE  InodeInv' /\ SearchInv'
<1>1. /\ igFree' = igFree /\ igDirs' = igDirs /\ igUnused' = igUnused /\ isbFree' = isbFree
      /\ dirs' = dirs /\ files' = files /\ lastGroup' = lastGroup /\ pc' = pc /\ loop' = loop
  BY DEF inodeVars
<1>2. SearchInv'
  BY <1>1 DEF SearchInv
<1>3. CASE ibitmap' = ibitmap /\ uninit' = uninit
  BY <1>1, <1>2, <1>3 DEF InodeInv, Given, SumOver
<1>4. CASE \E gs : Used(gs) /\ ibitmap' = ReadyInodes(gs)
  BY <1>1, <1>2, <1>4, InodesKept
<1> QED BY <1>3, <1>4

\* What the inode calls leave alone: the block side of the invariant stays.
LEMMA BlocksUnchanged ==
  ASSUME BlockInv, UNCHANGED blockVars,
         (bitmap' = bitmap /\ uninit' = uninit)
         \/ \E gs : Used(gs) /\ bitmap' = Ready(bitmap, gs)
  PROVE  BlockInv'
<1>1. CASE bitmap' = bitmap /\ uninit' = uninit
  BY <1>1 DEF blockVars, BlockInv, SumOver
<1>2. CASE \E gs : Used(gs) /\ bitmap' = Ready(bitmap, gs)
  BY <1>2, BlocksKept
<1> QED BY <1>1, <1>2

\* What holds inside a search: its group is one, or it is behind the last one.
LEMMA SearchAt ==
  ASSUME SearchInv, pc = "search"
  PROVE  /\ loop.bgid \in Nat /\ loop.count \in Nat /\ loop.bgid <= loop.count
         /\ loop.count <= GroupCount /\ lastGroup \in Nat /\ lastGroup < GroupCount
         /\ loop.bgid < loop.count => loop.bgid \in Groups
<1>1. /\ loop \in [bgid : Nat, count : Nat, rewind : BOOLEAN, dir : BOOLEAN]
      /\ loop.bgid <= loop.count /\ lastGroup \in Groups
      /\ loop.count = IF loop.rewind THEN lastGroup ELSE GroupCount
  BY DEF SearchInv
<1>2. loop.bgid \in Nat /\ loop.count \in Nat
  BY <1>1
<1>3. GroupCount \in Nat /\ Groups = 0 .. GroupCount - 1
  BY GroupFacts
<1>4. lastGroup \in Nat /\ lastGroup < GroupCount
  BY <1>1, <1>3
<1> QED BY <1>1, <1>2, <1>3, <1>4

\* One turn of the loop of ext4_ialloc_alloc_inode.
LEMMA SearchRewindStep ==
  ASSUME IInv, SearchRewind
  PROVE  IInv'
<1> USE DEF IInv
<1>1. /\ pc = "search" /\ loop.bgid = loop.count
      /\ UNCHANGED <<maps, blockVars, igFree, igDirs, igUnused, isbFree, lastGroup, dirs, files>>
  BY DEF SearchRewind
<1>2. BlockInv'
  BY <1>1, BlocksUnchanged DEF maps
<1>3. InodeInv'
  BY <1>1 DEF maps, InodeInv, Given, SumOver
<1>4. SearchInv'
  <2>1. /\ loop \in [bgid : Nat, count : Nat, rewind : BOOLEAN, dir : BOOLEAN]
        /\ lastGroup \in Groups
        /\ loop.count = IF loop.rewind THEN lastGroup ELSE GroupCount
        /\ \A g \in Groups :
            (IF loop.rewind THEN g >= lastGroup \/ g < loop.bgid ELSE g >= lastGroup /\ g < loop.bgid)
            => igFree[g] = 0
    BY <1>1 DEF SearchInv
  <2>2. loop.bgid \in Nat /\ lastGroup \in Nat /\ GroupCount \in Nat /\ \A g \in Groups : g \in Nat /\ g < GroupCount
    BY <1>1, SearchAt, GroupFacts
  <2>3. lastGroup' = lastGroup /\ igFree' = igFree
    BY <1>1
  <2>4. CASE loop.rewind
    BY <2>1, <2>3, <2>4 DEF SearchRewind, SearchInv
  <2>5. CASE ~loop.rewind
    <3>1. loop' = [loop EXCEPT !.count = lastGroup, !.bgid = 0, !.rewind = TRUE] /\ pc' = pc
      BY <2>5 DEF SearchRewind
    <3>2. loop' \in [bgid : Nat, count : Nat, rewind : BOOLEAN, dir : BOOLEAN]
          /\ loop'.bgid = 0 /\ loop'.count = lastGroup /\ loop'.rewind = TRUE
      BY <2>1, <2>2, <3>1
    <3>3. \A g \in Groups : g >= lastGroup \/ g < 0 => igFree[g] = 0
      BY <1>1, <2>1, <2>2, <2>5
    <3> QED BY <1>1, <2>1, <2>2, <2>3, <3>1, <3>2, <3>3 DEF SearchInv
  <2> QED BY <2>4, <2>5
<1> QED BY <1>2, <1>3, <1>4

\* The search of an inode goes on to the next group.
LEMMA SearchNextStep ==
  ASSUME IInv, SearchNext
  PROVE  IInv'
<1> USE DEF IInv
<1>1. /\ pc = "search" /\ loop.bgid < loop.count /\ igFree[loop.bgid] = 0
      /\ bitmap' = Ready(bitmap, {loop.bgid}) /\ ibitmap' = ReadyInodes({loop.bgid})
      /\ Used({loop.bgid})
      /\ loop' = [loop EXCEPT !.bgid = @ + 1]
      /\ UNCHANGED <<blockVars, igFree, igDirs, igUnused, isbFree, lastGroup, pc, dirs, files>>
  BY DEF SearchNext
<1>2. BlockInv'
  BY <1>1, BlocksKept
<1>3. InodeInv'
  BY <1>1, InodesKept
<1>4. SearchInv'
  <2>1. /\ loop \in [bgid : Nat, count : Nat, rewind : BOOLEAN, dir : BOOLEAN]
        /\ lastGroup \in Groups
        /\ loop.count = IF loop.rewind THEN lastGroup ELSE GroupCount
        /\ \A g \in Groups :
            (IF loop.rewind THEN g >= lastGroup \/ g < loop.bgid ELSE g >= lastGroup /\ g < loop.bgid)
            => igFree[g] = 0
    BY <1>1 DEF SearchInv
  <2>2. loop.bgid \in Nat /\ loop.count \in Nat /\ loop.bgid + 1 <= loop.count
        /\ \A g \in Groups : g \in Nat /\ (g < loop.bgid + 1 => g < loop.bgid \/ g = loop.bgid)
    BY <1>1, SearchAt, GroupFacts, SMTT(60)
  <2>3. /\ loop' \in [bgid : Nat, count : Nat, rewind : BOOLEAN, dir : BOOLEAN]
        /\ loop'.bgid = loop.bgid + 1 /\ loop'.count = loop.count /\ loop'.rewind = loop.rewind
    BY <1>1, <2>1, <2>2
  <2>4. \A g \in Groups :
          (IF loop.rewind THEN g >= lastGroup \/ g < loop.bgid + 1
           ELSE g >= lastGroup /\ g < loop.bgid + 1) => igFree[g] = 0
    BY <1>1, <2>1, <2>2
  <2> QED BY <1>1, <2>1, <2>2, <2>3, <2>4 DEF SearchInv
<1> QED BY <1>2, <1>3, <1>4

\* The search of an inode takes the first clear bit of its group.
LEMMA SearchTakeStep ==
  ASSUME IInv, SearchTake
  PROVE  IInv'
<1> USE DEF IInv
<1> DEFINE g == loop.bgid
           ready == ReadyInodes({g})
           i == FindClear(ready[g], 0, InodesIn(g))
<1>1. /\ pc = "search" /\ g < loop.count
      /\ bitmap' = Ready(bitmap, {g}) /\ Used({g}) /\ UNCHANGED blockVars
      /\ IF i = -1 THEN ibitmap' = ready /\ UNCHANGED <<inodeVars, ret>>
         ELSE /\ ibitmap' = [ready EXCEPT ![g] = @ \cup {i}]
              /\ igFree' = [igFree EXCEPT ![g] = @ - 1]
              /\ igDirs' = IF loop.dir THEN [igDirs EXCEPT ![g] = @ + 1] ELSE igDirs
              /\ igUnused' = IF i >= InodesIn(g) - igUnused[g]
                             THEN [igUnused EXCEPT ![g] = InodesIn(g) - (i + 1)] ELSE igUnused
              /\ isbFree' = isbFree - 1
              /\ lastGroup' = g
              /\ dirs' = IF loop.dir THEN dirs \cup {InodeAt(i, g)} ELSE dirs
              /\ files' = IF loop.dir THEN files ELSE files \cup {InodeAt(i, g)}
              /\ pc' = "idle" /\ loop' = <<>> /\ ret' = "EOK"
  BY Zenon DEF SearchTake
<1>2. BlockInv'
  BY <1>1, BlocksKept
<1>3. g \in Groups /\ InodesIn(g) \in Nat /\ loop.dir \in BOOLEAN
  <2>1. g \in Groups
    BY <1>1, SearchAt
  <2>2. loop.dir \in BOOLEAN
    BY <1>1 DEF SearchInv
  <2> QED BY <2>1, <2>2, InodeGroupFacts
<1>4. CASE i = -1
  BY <1>1, <1>2, <1>4, InodesUnchanged
<1>5. CASE i # -1
  <2>1. i \in 0 .. InodesIn(g) - 1 /\ i \notin ready[g]
    BY <1>3, <1>5, FindFirstFacts
  <2> HIDE DEF i, g
  <2>2. InodeInv'
    BY <1>1, <1>3, <1>5, <2>1, InodeTaken
  <2>3. SearchInv'
    BY <1>1, <1>3, <1>5 DEF SearchInv
  <2> QED BY <1>2, <2>2, <2>3
<1> QED BY <1>4, <1>5

\* The call that starts a search, and the one that frees an inode.
LEMMA AllocInodeStartStep ==
  ASSUME IInv, NEW d \in BOOLEAN, AllocInodeStart(d)
  PROVE  IInv'
<1> USE DEF IInv
<1>1. /\ loop' = [bgid |-> lastGroup, count |-> GroupCount, rewind |-> FALSE, dir |-> d]
      /\ pc' = "search"
      /\ UNCHANGED <<maps, blockVars, igFree, igDirs, igUnused, isbFree, lastGroup, dirs, files>>
  BY DEF AllocInodeStart
<1>2. BlockInv'
  BY <1>1, BlocksUnchanged DEF maps
<1>3. InodeInv'
  BY <1>1 DEF maps, InodeInv, Given, SumOver
<1>4. SearchInv'
  <2>1. lastGroup \in Groups /\ GroupCount \in Nat /\ \A g \in Groups : g \in Nat /\ g < GroupCount
    BY GroupFacts DEF SearchInv
  <2>2. /\ loop' \in [bgid : Nat, count : Nat, rewind : BOOLEAN, dir : BOOLEAN]
        /\ loop'.bgid = lastGroup /\ loop'.count = GroupCount /\ loop'.rewind = FALSE
    BY <1>1, <2>1
  <2>3. \A g \in Groups : ~(g >= lastGroup /\ g < lastGroup)
    BY <2>1
  <2> QED BY <1>1, <2>1, <2>2, <2>3 DEF SearchInv
<1> QED BY <1>2, <1>3, <1>4

\* ext4_ialloc_free_inode keeps the inode side of the invariant.
LEMMA FreeInodeKeeps ==
  ASSUME IInv, NEW n \in Given, FreeInode(n)
  PROVE  IInv'
<1> USE DEF IInv
<1>1. /\ pc = "idle"
      /\ UNCHANGED <<blockVars, bitmap, igUnused, lastGroup, pc, loop, uninit>>
  BY DEF FreeInode
<1>2. BlockInv'
  BY <1>1, BlocksUnchanged
<1>3. InodeInv'
  BY FreeInodeStep
<1>4. SearchInv'
  BY <1>1 DEF SearchInv
<1> QED BY <1>2, <1>3, <1>4

----------------------------------------------------------------------------
(* The invariant *)

\* Every call keeps the invariant.
LEMMA AllocKeeps ==
  ASSUME IInv, [Next]_vars
  PROVE  IInv'
<1> USE DEF IInv
<1>1. ASSUME NEW b \in Goals, AllocBlock(b) PROVE IInv'
  <2>1. BlockInv'
    BY <1>1, AllocBlockStep
  <2>2. UNCHANGED inodeVars /\ \E gs : Used(gs) /\ ibitmap' = ReadyInodes(gs)
    BY <1>1, Zenon DEF AllocBlock
  <2> QED BY <2>1, <2>2, InodesUnchanged
<1>2. ASSUME NEW b \in Goals, b < TotalBlocks, TryAllocBlock(b) PROVE IInv'
  <2>1. BlockInv'
    BY <1>2, TryAllocBlockStep
  <2>2. UNCHANGED inodeVars /\ \E gs : Used(gs) /\ ibitmap' = ReadyInodes(gs)
    BY <1>2, Zenon DEF TryAllocBlock
  <2> QED BY <2>1, <2>2, InodesUnchanged
<1>3. ASSUME NEW b \in held, NEW n \in 1 .. GroupSize + 1, FreeBlocks(b, n) PROVE IInv'
  <2>1. BlockInv'
    BY <1>3, FreeBlocksStep
  <2>2. UNCHANGED inodeVars /\ ibitmap' = ibitmap /\ uninit' = uninit
    BY <1>3 DEF FreeBlocks
  <2> QED BY <2>1, <2>2, InodesUnchanged
<1>4. CASE UNCHANGED vars
  BY <1>4, BlocksUnchanged, InodesUnchanged DEF vars, maps
<1> QED BY <1>1, <1>2, <1>3, <1>4, AllocInodeStartStep, FreeInodeKeeps, SearchRewindStep,
           SearchNextStep, SearchTakeStep DEF Next, SearchStep, Given

\* The file system as the allocators find it.
LEMMA BlockInit ==
  ASSUME Init
  PROVE  BlockInv
<1>1. /\ held = {} /\ inoBlocks = 0 /\ uninit = UninitGroups
      /\ bgFree = [g \in Groups |-> RealIn(g) - Cardinality(Meta[g])]
      /\ sbFree = SumOver(bgFree)
      /\ \E junk \in {{}, 0 .. GroupSize - 1} :
           bitmap = [g \in Groups |-> IF g \in UninitGroups THEN junk ELSE Meta[g] \cup Padding(g)]
  BY DEF Init
<1>2. UninitGroups \in SUBSET Groups
  BY AllocAssumption
<1>3. \A g \in Groups : /\ Meta[g] \subseteq 0 .. RealIn(g) - 1 /\ Meta[g] \subseteq 0 .. GroupSize - 1
                        /\ Padding(g) \subseteq 0 .. GroupSize - 1
                        /\ RealIn(g) \in Nat
                        /\ \A i \in 0 .. GroupSize - 1 : i \in Padding(g) <=> i >= RealIn(g)
  BY GroupFacts DEF Padding
<1>4. bitmap \in [Groups -> SUBSET (0 .. GroupSize - 1)]
  BY <1>1, <1>3
<1>5. \A g \in Groups \ uninit : \A i \in 0 .. GroupSize - 1 :
        i \in bitmap[g] <=> i \in Meta[g] \/ i >= RealIn(g) \/ Addr(i, g) \in held
  BY <1>1, <1>3
<1>6. ASSUME NEW g \in Groups
      PROVE  /\ RealIn(g) - Cardinality(Meta[g]) \in Int
             /\ RealIn(g) - Cardinality(Meta[g]) = Cardinality(FreeBits(g, held))
  <2> DEFINE All == 0 .. RealIn(g) - 1
  <2>1. IsFiniteSet(All) /\ Cardinality(All) = RealIn(g)
    BY <1>3, FS_Interval
  <2>2. Meta[g] \in SUBSET All
    BY <1>3
  <2> HIDE DEF All
  <2>3. IsFiniteSet(Meta[g]) /\ Cardinality(Meta[g]) \in Nat
    BY <2>1, <2>2, FS_Subset, FS_CardinalityType
  <2>4. Cardinality(All \ Meta[g]) = Cardinality(All) - Cardinality(All \cap Meta[g])
    BY <2>1, FS_Difference
  <2>5. All \cap Meta[g] = Meta[g]
    BY <2>2
  <2>6. FreeBits(g, held) = All \ Meta[g]
    BY <1>1 DEF FreeBits, All
  <2>7. Cardinality(FreeBits(g, held)) = RealIn(g) - Cardinality(Meta[g])
    BY <2>1, <2>4, <2>5, <2>6
  <2> QED BY <1>3, <2>3, <2>7
<1>7. /\ bgFree \in [Groups -> Int]
      /\ \A g \in Groups : bgFree[g] = Cardinality(FreeBits(g, held))
  BY <1>1, <1>6
<1>8. inoBlocks = Cardinality(held)
  BY <1>1, FS_EmptySet
<1> QED BY <1>1, <1>2, <1>4, <1>5, <1>7, <1>8 DEF BlockInv

\* The inodes of the groups are all inodes.
LEMMA InodesOfGroups ==
  SumOver([g \in Groups |-> InodesIn(g)]) = TotalInodes
<1> DEFINE n == GroupCount
           h == [g \in Groups |-> InodesIn(g)]
           F == [k \in 0 .. n |-> IF k < n THEN k * InodesPerGroup ELSE TotalInodes]
<1>1. /\ n \in Nat \ {0} /\ Groups = 0 .. n - 1
      /\ InodesPerGroup \in Nat \ {0} /\ TotalInodes \in Nat
      /\ \A k \in 0 .. n - 1 : InodesIn(k) \in Int
  BY GroupFacts, InodeGroupFacts
<1>2. \A k \in 0 .. n : k \in Nat /\ k * InodesPerGroup \in Int
  BY <1>1
<1>3. h \in [0 .. n - 1 -> Int] /\ F \in [0 .. n -> Int]
  BY <1>1, <1>2
<1>4. F[0] = 0 /\ F[n] = TotalInodes
  <2>1. 0 * InodesPerGroup = 0
    BY <1>1
  <2> QED BY <1>1, <2>1
<1>5. ASSUME NEW k \in 0 .. n - 1 PROVE h[k] = F[k + 1] - F[k]
  <2>1. h[k] = InodesIn(k) /\ F[k] = k * InodesPerGroup /\ k \in Nat /\ k + 1 \in 0 .. n
    BY <1>1
  <2>2. F[k + 1] = IF k + 1 < n THEN (k + 1) * InodesPerGroup ELSE TotalInodes
    BY <2>1
  <2>3. (k + 1) * InodesPerGroup = k * InodesPerGroup + InodesPerGroup
    BY <1>1, <2>1
  <2>4. k * InodesPerGroup \in Int
    BY <1>1, <2>1
  <2> HIDE DEF F, h
  <2>5. CASE k < n - 1
    <3>1. InodesIn(k) = InodesPerGroup
      BY <2>5 DEF InodesIn
    <3> QED BY <1>1, <2>1, <2>2, <2>3, <2>4, <2>5, <3>1
  <2>6. CASE k = n - 1
    <3>1. InodesIn(k) = TotalInodes - k * InodesPerGroup
      BY <1>1, <2>6 DEF InodesIn
    <3> QED BY <1>1, <2>1, <2>2, <2>6, <3>1
  <2> QED BY <1>1, <2>5, <2>6
<1> HIDE DEF h, F
<1>6. SumTo(h, n) = F[n]
  BY <1>1, <1>3, <1>4, <1>5, SumTelescope
<1> QED BY <1>4, <1>6 DEF SumOver, h

\* A new file system has its inodes counted.
LEMMA InodeInit ==
  ASSUME Init
  PROVE  InodeInv /\ SearchInv
<1>1. /\ dirs = {} /\ files = {} /\ uninit = UninitGroups /\ lastGroup = 0 /\ pc = "idle"
      /\ igFree = [g \in Groups |-> InodesIn(g)] /\ igDirs = [g \in Groups |-> 0]
      /\ igUnused = [g \in Groups |-> InodesIn(g)] /\ isbFree = TotalInodes
      /\ \E junk \in {{}, 0 .. InodesPerGroup - 1} :
           ibitmap = [g \in Groups |-> IF g \in UninitGroups THEN junk ELSE {}]
  BY DEF Init
<1>2. UninitGroups \in SUBSET Groups /\ Given = {} /\ 0 \in Groups
  BY <1>1, AllocAssumption, GroupFacts DEF Given
<1>3. ibitmap \in [Groups -> SUBSET (0 .. InodesPerGroup - 1)]
  BY <1>1
<1>4. \A g \in Groups : InodesIn(g) \in Int /\ InodesIn(g) \in Nat
  BY InodeGroupFacts
<1>5. igFree \in [Groups -> Int] /\ igDirs \in [Groups -> Int] /\ igUnused \in [Groups -> Int]
  BY <1>1, <1>4
<1>6. \A g \in Groups : igFree[g] = Cardinality(FreeInodes(g, Given))
  <2> TAKE g \in Groups
  <2>1. FreeInodes(g, Given) = 0 .. InodesIn(g) - 1
    BY <1>2 DEF FreeInodes
  <2>2. Cardinality(0 .. InodesIn(g) - 1) = InodesIn(g)
    BY <1>4, FS_Interval
  <2> QED BY <1>1, <2>1, <2>2
<1>7. \A g \in Groups : igDirs[g] = Cardinality(InodeBits(g, dirs))
  <2> TAKE g \in Groups
  <2>1. InodeBits(g, dirs) = {}
    BY <1>1 DEF InodeBits
  <2> QED BY <1>1, <2>1, FS_EmptySet
<1>8. isbFree = SumOver(igFree)
  BY <1>1, InodesOfGroups
<1>9. \A g \in Groups \ uninit : \A i \in 0 .. InodesPerGroup - 1 :
        i \in ibitmap[g] <=> InodeAt(i, g) \in Given
  BY <1>1, <1>2
<1>10. InodeInv
  BY <1>1, <1>2, <1>3, <1>5, <1>6, <1>7, <1>8, <1>9 DEF InodeInv
<1>11. SearchInv
  BY <1>1, <1>2 DEF SearchInv
<1> QED BY <1>10, <1>11

----------------------------------------------------------------------------
(* What the invariant means *)

\* The members of an interval from 0 on.
LEMMA FirstNumbers ==
  ASSUME NEW n \in Nat
  PROVE  IsFiniteSet(0 .. n - 1) /\ Cardinality(0 .. n - 1) = n
<1>1. 0 \in Int /\ n - 1 \in Int
  OBVIOUS
<1>2. IsFiniteSet(0 .. n - 1) /\ Cardinality(0 .. n - 1) = IF 0 > n - 1 THEN 0 ELSE (n - 1) - 0 + 1
  BY <1>1, FS_Interval
<1> QED BY <1>2

\* A set counted by names has as many members as names.
LEMMA SameSize ==
  ASSUME NEW S, NEW T, IsFiniteSet(S), NEW f \in [S -> T],
         \A x, y \in S : f[x] = f[y] => x = y, \A t \in T : \E x \in S : f[x] = t
  PROVE  IsFiniteSet(T) /\ Cardinality(T) = Cardinality(S)
<1>1. f \in Bijection(S, T)
  BY DEF Bijection, Injection, Surjection, IsInjective
<1>2. ExistsBijection(S, T)
  BY <1>1 DEF ExistsBijection
<1> QED BY <1>2, FS_Bijection

\* The blocks of the file in a group, counted by their bits.
LEMMA BlocksCounted ==
  ASSUME BlockInv, NEW g \in Groups
  PROVE  LET mine == {b \in held : GroupOf(b) = g}
         IN  bgFree[g] = RealIn(g) - Cardinality(Meta[g]) - Cardinality(mine)
<1> DEFINE mine == {b \in held : GroupOf(b) = g}
           All == 0 .. RealIn(g) - 1
           Bits == {i \in All : Addr(i, g) \in held}
           f == [i \in Bits |-> Addr(i, g)]
<1>1. /\ RealIn(g) \in Nat /\ Meta[g] \in SUBSET All
      /\ \A i \in All : i \in 0 .. GroupSize - 1
  BY GroupFacts
<1>2. IsFiniteSet(All) /\ Cardinality(All) = RealIn(g)
  BY <1>1, FirstNumbers
<1>3. held \in SUBSET (FirstDataBlock .. TotalBlocks - 1) /\ FirstDataBlock \in Nat /\ TotalBlocks \in Nat
  BY AllocAssumption DEF BlockInv
<1>4. Cardinality(mine) = Cardinality(Bits)
  <2>1. IsFiniteSet(Bits)
    BY <1>2, FS_Subset
  <2>2. ASSUME NEW i \in Bits PROVE Addr(i, g) \in mine /\ IdxIn(Addr(i, g)) = i
    BY <1>1, BitFacts
  <2>3. ASSUME NEW b \in mine PROVE \E i \in Bits : Addr(i, g) = b
    <3>1. b \in Nat /\ b >= FirstDataBlock /\ b < TotalBlocks
      BY <1>3
    <3>2. IdxIn(b) \in 0 .. GroupSize - 1 /\ IdxIn(b) < RealIn(g) /\ Addr(IdxIn(b), g) = b
      BY <3>1, BlockFacts
    <3>3. IdxIn(b) \in Bits
      BY <1>1, <3>2
    <3> QED BY <3>2, <3>3
  <2> HIDE DEF Bits, mine
  <2>4. f \in [Bits -> mine] /\ \A i \in Bits : f[i] = Addr(i, g)
    BY <2>2
  <2>5. \A i, j \in Bits : f[i] = f[j] => i = j
    BY <2>2, <2>4
  <2>6. \A b \in mine : \E i \in Bits : f[i] = b
    BY <2>3, <2>4
  <2> HIDE DEF f
  <2> QED BY <2>1, <2>4, <2>5, <2>6, SameSize
<1>5. FreeBits(g, held) = (All \ Meta[g]) \ Bits
  BY DEF FreeBits
<1>6. Cardinality(All \ Meta[g]) = RealIn(g) - Cardinality(Meta[g]) /\ IsFiniteSet(All \ Meta[g])
  <2>1. All \cap Meta[g] = Meta[g]
    BY <1>1
  <2> HIDE DEF All
  <2> QED BY <1>2, <2>1, FS_Difference, ZenonT(60)
<1>7. (All \ Meta[g]) \cap Bits = Bits
  BY DEF BlockInv
<1> HIDE DEF All, Bits, mine
<1>8. Cardinality((All \ Meta[g]) \ Bits) = Cardinality(All \ Meta[g]) - Cardinality(Bits)
  <2> DEFINE A == All \ Meta[g]
  <2>1. IsFiniteSet(A) /\ A \cap Bits = Bits
    BY <1>6, <1>7
  <2> HIDE DEF A
  <2>2. Cardinality(A \ Bits) = Cardinality(A) - Cardinality(A \cap Bits)
    BY <2>1, FS_Difference
  <2> QED BY <2>1, <2>2 DEF A
<1>9. bgFree[g] = Cardinality(FreeBits(g, held))
  BY DEF BlockInv
<1> QED BY <1>4, <1>5, <1>6, <1>8, <1>9 DEF mine

\* The block side of the invariant gives the property of the runs.
LEMMA BlockInvMeans ==
  ASSUME BlockInv
  PROVE  BlocksAccounted
<1>1. /\ held \in SUBSET (FirstDataBlock .. TotalBlocks - 1) /\ FirstDataBlock \in Nat /\ TotalBlocks \in Nat
  BY AllocAssumption DEF BlockInv
<1>2. ASSUME NEW g \in Groups \ uninit
      PROVE  bitmap[g] = Meta[g] \cup Padding(g) \cup {IdxIn(b) : b \in {b \in held : GroupOf(b) = g}}
  <2> DEFINE H == {IdxIn(b) : b \in {b \in held : GroupOf(b) = g}}
  <2>1. bitmap[g] \subseteq 0 .. GroupSize - 1
    BY DEF BlockInv
  <2>2. ASSUME NEW i PROVE i \in H => i \in 0 .. GroupSize - 1 /\ Addr(i, g) \in held
    <3> SUFFICES ASSUME NEW b \in held, GroupOf(b) = g, i = IdxIn(b)
                 PROVE  i \in 0 .. GroupSize - 1 /\ Addr(i, g) \in held
      OBVIOUS
    <3>1. b \in Nat /\ b >= FirstDataBlock
      BY <1>1
    <3> QED BY <3>1, BlockFacts
  <2>3. \A i \in 0 .. GroupSize - 1 : Addr(i, g) \in held => i \in H
    BY BitFacts
  <2>4. Meta[g] \subseteq 0 .. GroupSize - 1 /\ RealIn(g) \in Nat
    BY GroupFacts
  <2>5. \A i : i \in Padding(g) <=> i \in 0 .. GroupSize - 1 /\ i >= RealIn(g)
    BY <2>4, GroupFacts DEF Padding
  <2>6. \A i \in 0 .. GroupSize - 1 :
          i \in bitmap[g] <=> i \in Meta[g] \/ i >= RealIn(g) \/ Addr(i, g) \in held
    BY DEF BlockInv
  <2> HIDE DEF H
  <2>7. \A i : i \in bitmap[g] <=> i \in Meta[g] \/ i \in Padding(g) \/ i \in H
    BY <2>1, <2>2, <2>3, <2>4, <2>5, <2>6
  <2> QED BY <2>7 DEF H
<1>3. \A g \in Groups :
        bgFree[g] = RealIn(g) - Cardinality(Meta[g]) - Cardinality({b \in held : GroupOf(b) = g})
  BY BlocksCounted
<1>4. inoBlocks = Cardinality(held) /\ sbFree = SumOver(bgFree)
  BY DEF BlockInv
<1> QED BY <1>2, <1>3, <1>4 DEF BlocksAccounted

\* The inodes of S in a group, counted by their bits.
LEMMA InodesCounted ==
  ASSUME NEW g \in Groups, NEW S \in SUBSET (1 .. TotalInodes)
  PROVE  LET mine == {n \in S : InodeGroup(n) = g}
         IN  /\ Cardinality(mine) = Cardinality(InodeBits(g, S))
             /\ Cardinality(FreeInodes(g, S)) = InodesIn(g) - Cardinality(mine)
<1> DEFINE mine == {n \in S : InodeGroup(n) = g}
           All == 0 .. InodesIn(g) - 1
           Bits == InodeBits(g, S)
           f == [i \in Bits |-> InodeAt(i, g)]
<1>1. InodesIn(g) \in Nat /\ \A i \in All : i \in 0 .. InodesPerGroup - 1
  BY InodeGroupFacts
<1>2. IsFiniteSet(All) /\ Cardinality(All) = InodesIn(g)
  BY <1>1, FirstNumbers
<1>3. \A i : i \in Bits <=> i \in All /\ InodeAt(i, g) \in S
  BY DEF InodeBits
<1>4. FreeInodes(g, S) = All \ Bits /\ All \cap Bits = Bits
  BY DEF InodeBits, FreeInodes
<1> HIDE DEF All, Bits
<1>5. Cardinality(mine) = Cardinality(Bits)
  <2>1. IsFiniteSet(Bits)
    BY InodeBitsFinite DEF Bits
  <2>2. ASSUME NEW i \in Bits PROVE InodeAt(i, g) \in mine /\ InodeIdx(InodeAt(i, g)) = i
    BY <1>1, <1>3, InodeBitFacts
  <2>3. ASSUME NEW n \in mine PROVE \E i \in Bits : InodeAt(i, g) = n
    <3>1. InodeIdx(n) \in 0 .. InodesPerGroup - 1 /\ InodeIdx(n) < InodesIn(g) /\ InodeAt(InodeIdx(n), g) = n
      BY InodeNumberFacts
    <3>2. InodeIdx(n) \in All
      BY <1>1, <3>1 DEF All
    <3> QED BY <1>3, <3>1, <3>2
  <2> HIDE DEF mine
  <2>4. f \in [Bits -> mine] /\ \A i \in Bits : f[i] = InodeAt(i, g)
    BY <2>2
  <2>5. \A i, j \in Bits : f[i] = f[j] => i = j
    BY <2>2, <2>4
  <2>6. \A n \in mine : \E i \in Bits : f[i] = n
    BY <2>3, <2>4
  <2> HIDE DEF f
  <2> QED BY <2>1, <2>4, <2>5, <2>6, SameSize
<1>6. Cardinality(All \ Bits) = Cardinality(All) - Cardinality(Bits)
  BY <1>2, <1>4, FS_Difference
<1> HIDE DEF mine
<1>7. Cardinality(FreeInodes(g, S)) = InodesIn(g) - Cardinality(mine)
  BY <1>2, <1>4, <1>5, <1>6
<1> QED BY <1>5, <1>7 DEF mine, Bits

\* The inode side of the invariant gives the property of the runs.
LEMMA InodeInvMeans ==
  ASSUME InodeInv
  PROVE  InodesAccounted
<1>1. Given \in SUBSET (1 .. TotalInodes) /\ dirs \in SUBSET (1 .. TotalInodes) /\ dirs \cap files = {}
  BY DEF InodeInv, Given
<1>2. ASSUME NEW g \in Groups
      PROVE  LET mine == {n \in Given : InodeGroup(n) = g} IN
             /\ g \notin uninit => ibitmap[g] = {InodeIdx(n) : n \in mine}
             /\ igFree[g] = InodesIn(g) - Cardinality(mine)
             /\ igDirs[g] = Cardinality(mine \cap dirs)
             /\ \A n \in mine : InodeIdx(n) < InodesIn(g) - igUnused[g]
  <2> DEFINE mine == {n \in Given : InodeGroup(n) = g}
             H == {InodeIdx(n) : n \in mine}
  <2>1. \A n \in mine : /\ n \in Given /\ InodeIdx(n) \in 0 .. InodesPerGroup - 1
                        /\ InodeAt(InodeIdx(n), g) = n
    BY <1>1, InodeNumberFacts
  <2>2. igFree[g] = InodesIn(g) - Cardinality(mine)
    BY <1>1, InodesCounted DEF InodeInv
  <2>3. igDirs[g] = Cardinality(mine \cap dirs)
    <3>1. mine \cap dirs = {n \in dirs : InodeGroup(n) = g}
      BY DEF Given
    <3>2. Cardinality({n \in dirs : InodeGroup(n) = g}) = Cardinality(InodeBits(g, dirs))
      BY <1>1, InodesCounted
    <3> QED BY <3>1, <3>2 DEF InodeInv
  <2>4. ASSUME g \notin uninit PROVE ibitmap[g] = H
    <3>1. ibitmap[g] \subseteq 0 .. InodesPerGroup - 1
      BY DEF InodeInv
    <3>2. \A i \in 0 .. InodesPerGroup - 1 : i \in ibitmap[g] <=> InodeAt(i, g) \in Given
      BY <2>4 DEF InodeInv
    <3>3. \A i \in 0 .. InodesPerGroup - 1 : InodeAt(i, g) \in Given => i \in H
      BY InodeBitFacts
    <3>4. \A i : i \in H => i \in 0 .. InodesPerGroup - 1 /\ InodeAt(i, g) \in Given
      BY <2>1
    <3> HIDE DEF H
    <3> QED BY <3>1, <3>2, <3>3, <3>4
  <2>5. \A n \in mine : InodeIdx(n) < InodesIn(g) - igUnused[g]
    BY <2>1 DEF InodeInv
  <2> QED BY <2>2, <2>3, <2>4, <2>5
<1>3. isbFree = SumOver(igFree)
  BY DEF InodeInv
<1> QED BY <1>1, <1>2, <1>3 DEF InodesAccounted, Given

\* A group whose count says that something is left has a clear bit for it, also before
\* it is set up: the loop of ext4_ialloc_alloc_inode, which goes around with a group
\* whose bitmap is full, goes on to take an inode.
CountsHold ==
  \A g \in Groups :
    /\ bgFree[g] # 0 => FindClear(Ready(bitmap, {g})[g], 0, BlocksIn(g)) # -1
    /\ igFree[g] > 0 => FindClear(ReadyInodes({g})[g], 0, InodesIn(g)) # -1

\* The sides of the invariant give CountsHold: a count that is not zero has a clear bit.
LEMMA CountsMean ==
  ASSUME IInv
  PROVE  CountsHold
<1>1. ASSUME NEW g \in Groups, FindClear(Ready(bitmap, {g})[g], 0, BlocksIn(g)) = -1
      PROVE  bgFree[g] = 0
  <2>1. Ready(bitmap, {g})[g] = Ready(bitmap, Groups)[g]
    BY DEF Ready
  <2>2. BlocksIn(g) \in Nat
    BY GroupFacts
  <2>3. 0 .. BlocksIn(g) - 1 \subseteq Ready(bitmap, {g})[g]
    BY <1>1, <2>2, FindFirstFacts
  <2> QED BY <2>1, <2>3, FullGroup DEF IInv
<1>2. ASSUME NEW g \in Groups, FindClear(ReadyInodes({g})[g], 0, InodesIn(g)) = -1
      PROVE  igFree[g] = 0
  <2>1. InodesIn(g) \in Nat /\ InodesIn(g) <= InodesPerGroup /\ InodesPerGroup \in Nat
    BY InodeGroupFacts
  <2>2. 0 .. InodesIn(g) - 1 \subseteq ReadyInodes({g})[g]
    BY <1>2, <2>1, FindFirstFacts
  <2>3. \A i \in 0 .. InodesIn(g) - 1 : InodeAt(i, g) \in Given
    <3> TAKE i \in 0 .. InodesIn(g) - 1
    <3>1. i \in 0 .. InodesPerGroup - 1 /\ i \in ReadyInodes({g})[g]
      BY <2>1, <2>2
    <3> QED BY <3>1, ReadyInodesBits DEF IInv
  <2>4. FreeInodes(g, Given) = {}
    BY <2>3 DEF FreeInodes
  <2> QED BY <2>4, FS_EmptySet DEF IInv, InodeInv
<1>3. ASSUME NEW g \in Groups, igFree[g] > 0
      PROVE  FindClear(ReadyInodes({g})[g], 0, InodesIn(g)) # -1
  <2>1. igFree[g] # 0
    BY <1>3
  <2> QED BY <1>2, <2>1
<1> QED BY <1>1, <1>3 DEF CountsHold

\* ENOSPC means that nothing is left.
LEMMA EmptyWhenTold ==
  ASSUME IInv, [Next]_vars
  PROVE  ret' # ret => (ret' = "no block" => sbFree = 0) /\ (ret' = "no inode" => isbFree = 0)
<1>1. \A f \in [Groups -> Int] : (\A g \in Groups : f[g] = 0) => SumOver(f) = 0
  <2>1. GroupCount \in Nat /\ Groups = 0 .. GroupCount - 1
    BY GroupFacts
  <2> QED BY <2>1, SumZero DEF SumOver
<1>2. /\ bgFree \in [Groups -> Int] /\ sbFree = SumOver(bgFree)
      /\ igFree \in [Groups -> Int] /\ isbFree = SumOver(igFree)
  BY DEF IInv, BlockInv, InodeInv
<1>3. ASSUME NEW b \in Goals, AllocBlock(b) PROVE ret' = "EOK" \/ (ret' = "no block" /\ sbFree = 0)
  <2>1. IF Search(b).g = -1 THEN ret' = "no block" ELSE ret' = "EOK"
    BY <1>3 DEF AllocBlock
  <2>2. Search(b).g = -1 => \A h \in Groups : bgFree[h] = 0
    BY SearchFacts DEF IInv
  <2> QED BY <1>1, <1>2, <2>1, <2>2
<1>4. ASSUME NEW b \in Goals, TryAllocBlock(b) PROVE ret' = "EOK"
  BY <1>4 DEF TryAllocBlock
<1>5. ASSUME NEW b \in held, NEW n \in 1 .. GroupSize + 1, FreeBlocks(b, n) PROVE ret' = "EOK"
  BY <1>5 DEF FreeBlocks
<1>6. ASSUME NEW d \in BOOLEAN, AllocInodeStart(d) PROVE ret' = ret
  BY <1>6 DEF AllocInodeStart
<1>7. ASSUME NEW n \in dirs \cup files, FreeInode(n) PROVE ret' = "EOK"
  BY <1>7 DEF FreeInode
<1>8. CASE SearchRewind
  <2>1. pc = "search" /\ loop.bgid = loop.count
    BY <1>8 DEF SearchRewind
  <2>2. CASE loop.rewind
    <3>1. loop.bgid = lastGroup /\ lastGroup \in Nat /\ \A g \in Groups : g \in Nat
      BY <2>1, <2>2, SearchAt, GroupFacts DEF IInv, SearchInv
    <3>2. \A g \in Groups : igFree[g] = 0
      BY <2>1, <2>2, <3>1 DEF IInv, SearchInv
    <3>3. ret' = "no inode" /\ isbFree = 0
      BY <1>1, <1>2, <1>8, <2>2, <3>2 DEF SearchRewind
    <3> QED BY <3>3
  <2>3. CASE ~loop.rewind
    BY <1>8, <2>3 DEF SearchRewind
  <2> QED BY <2>2, <2>3
<1>9. CASE SearchNext
  BY <1>9 DEF SearchNext
<1>10. CASE SearchTake
  <2>1. ret' = ret \/ ret' = "EOK"
    BY <1>10, Zenon DEF SearchTake
  <2> QED BY <2>1
<1>11. CASE UNCHANGED vars
  BY <1>11 DEF vars
<1> QED BY <1>3, <1>4, <1>5, <1>6, <1>7, <1>8, <1>9, <1>10, <1>11 DEF Next, SearchStep

----------------------------------------------------------------------------
(* Theorems *)

\* The invariant holds in every state.
LEMMA AllocInvariant == Spec => []IInv
<1>1. Init => IInv
  BY BlockInit, InodeInit DEF IInv
<1>2. IInv /\ [Next]_vars => IInv'
  BY AllocKeeps
<1> QED BY <1>1, <1>2, PTL DEF Spec

\* ext4_balloc.c: no block is given out twice and none is lost; bitmaps, group
\* descriptors and superblock agree with what the file holds, for every geometry, also
\* for groups set up at first use and for runs that cross into the next group.
THEOREM AllocBlocksAccounted == Spec => []BlocksAccounted
<1>1. IInv => BlocksAccounted
  BY BlockInvMeans DEF IInv
<1> QED BY <1>1, AllocInvariant, PTL

\* ext4_ialloc.c: the same for inodes, with the directories of each group and the part
\* of its table that is marked as never used.
THEOREM AllocInodesAccounted == Spec => []InodesAccounted
<1>1. IInv => InodesAccounted
  BY InodeInvMeans DEF IInv
<1> QED BY <1>1, AllocInvariant, PTL

\* ext4_balloc_alloc_block and ext4_ialloc_alloc_inode answer ENOSPC only when nothing
\* is left in any group, whatever the goal and wherever the last inode was found.
THEOREM AllocFullWhenTold == Spec => FullWhenTold
<1>1. IInv /\ [Next]_vars =>
        [ret' # ret => (ret' = "no block" => sbFree = 0) /\ (ret' = "no inode" => isbFree = 0)]_vars
  BY EmptyWhenTold
<1> QED BY <1>1, AllocInvariant, PTL DEF Spec, FullWhenTold

\* A count of free blocks or inodes is never a promise the bitmap does not keep.
THEOREM AllocCountsHold == Spec => []CountsHold
<1>1. IInv => CountsHold
  BY CountsMean
<1> QED BY <1>1, AllocInvariant, PTL
=============================================================================
