---------------------------- MODULE BuddyProofs ----------------------------
(***************************************************************************)
(* The buddy system and the two allocators on it: what one turn of         *)
(* add_range and one alloc_node do to the free lists; malloc and free keep *)
(* allocations apart; kalloc never hands out a page twice, nor a page of   *)
(* the kernel image. For every unit size, number of lists, memory and      *)
(* sequence of requests that satisfy the assumptions of Buddy, HeapAlloc   *)
(* and FrameAlloc.                                                         *)
(***************************************************************************)
EXTENDS HeapAlloc, FrameAlloc, DataLemmas, SequenceTheorems, FiniteSetTheorems

----------------------------------------------------------------------------
(* Arithmetic *)

\* A multiple, divided by what it is a multiple of.
LEMMA DivMul ==
  ASSUME NEW k \in Nat, NEW w \in Nat, w >= 1
  PROVE  (k * w) \div w = k
OBVIOUS

\* x % w = 0 means that x is a multiple of w.
LEMMA ModMultiple ==
  ASSUME NEW x \in Nat, NEW w \in Nat, w >= 1
  PROVE  x % w = 0 <=> \E k \in Nat : x = k * w
<1>1. ASSUME x % w = 0 PROVE \E k \in Nat : x = k * w
  <2>1. x \div w \in Nat /\ x = (x \div w) * w
    BY <1>1
  <2> QED BY <2>1
<1>2. ASSUME NEW k \in Nat, x = k * w PROVE x % w = 0
  BY <1>2, DivMul
<1> QED BY <1>1, <1>2

\* The masks of add_range: RoundUp goes up and RoundDown down, to a unit.
LEMMA Rounding ==
  ASSUME NEW a \in Nat
  PROVE  /\ RoundUp(a) \in Nat /\ a <= RoundUp(a) /\ RoundUp(a) % Unit = 0
         /\ RoundDown(a) \in Nat /\ RoundDown(a) <= a /\ RoundDown(a) % Unit = 0
<1> DEFINE u == Unit
           q == (a + (u - 1)) \div u
           d == a \div u
<1>1. u \in Nat /\ u >= 1
  BY UnitAssumption
<1>2. q \in Nat /\ d \in Nat
  BY <1>1
<1>3. a <= q * u /\ d * u <= a /\ q * u \in Nat /\ d * u \in Nat
  BY <1>1, <1>2
<1> HIDE DEF q, d, u
<1>4. (q * u) % u = 0 /\ (d * u) % u = 0
  BY <1>1, <1>2, <1>3, ModMultiple
<1> QED BY <1>3, <1>4 DEF q, d, u, RoundUp, RoundDown

\* The block sizes: powers of two times the unit.
LEMMA BlockSizes ==
  /\ BlockSize(0) = Unit
  /\ \A i \in 0 .. MAX_BUDDY_HEADER_BITS :
       /\ BlockSize(i) \in Nat /\ BlockSize(i) >= 1
       /\ BlockSize(i + 1) = 2 * BlockSize(i)
  /\ \A i, j \in 0 .. MAX_BUDDY_HEADER_BITS : i <= j => BlockSize(i) <= BlockSize(j)
<1>1. Unit \in Nat /\ Unit >= 8 /\ MAX_BUDDY_HEADER_BITS \in Nat
  BY UnitAssumption
<1>2. 0 .. MAX_BUDDY_HEADER_BITS \subseteq 0 .. MaxLvl
  BY <1>1 DEF MaxLvl
<1>3. BlockSize(0) = Unit
  BY <1>1, PowerAssumption DEF BlockSize
<1>4. ASSUME NEW i \in 0 .. MAX_BUDDY_HEADER_BITS
      PROVE  BlockSize(i) \in Nat /\ BlockSize(i) >= 1 /\ BlockSize(i + 1) = 2 * BlockSize(i)
  <2>1. 2^i \in Nat /\ 2^i >= 1 /\ 2^(i + 1) = 2 * 2^i
    BY <1>2, PowerAssumption
  <2> DEFINE p == 2^i
             q == 2^(i + 1)
  <2> HIDE DEF p, q
  <2>2. p \in Nat /\ p >= 1 /\ q = 2 * p
    BY <2>1 DEF p, q
  <2>3. Unit * p \in Nat /\ Unit * p >= 1 /\ Unit * q = 2 * (Unit * p)
    BY <1>1, <2>2
  <2> QED BY <2>3 DEF p, q, BlockSize
<1>5. ASSUME NEW i \in 0 .. MAX_BUDDY_HEADER_BITS, NEW j \in 0 .. MAX_BUDDY_HEADER_BITS, i <= j
      PROVE  BlockSize(i) <= BlockSize(j)
  <2> DEFINE p == 2^i
             q == 2^j
  <2>1. p \in Nat /\ q \in Nat /\ p <= q
    BY <1>2, <1>5, PowerAssumption
  <2> HIDE DEF p, q
  <2>2. Unit * p <= Unit * q
    BY <1>1, <2>1
  <2> QED BY <2>2 DEF p, q, BlockSize
<1> QED BY <1>3, <1>4, <1>5

\* The same for the levels there are lists for.
LEMMA LevelSizes ==
  ASSUME NEW i \in Levels
  PROVE  BlockSize(i) \in Nat /\ BlockSize(i) >= 1
<1>1. i \in 0 .. MAX_BUDDY_HEADER_BITS
  BY UnitAssumption DEF Levels
<1> QED BY <1>1, BlockSizes

----------------------------------------------------------------------------
(* add_range *)

\* The two ends of the range after a turn with block size w.
LowEnd(a, w) == IF Bit(a, w) THEN a + w ELSE a

HighEnd(e, w) == IF Bit(e, w) THEN e - w ELSE e

\* One turn on the range [a, e), both ends multiples of w: an odd end gives up
\* a block of w bytes, what is left has ends that are multiples of 2w, and the
\* two blocks and the rest do not overlap.
LEMMA CutArithmetic ==
  ASSUME NEW a \in Nat, NEW e \in Nat, NEW w \in Nat, w >= 1,
         a % w = 0, e % w = 0, a < e
  PROVE  /\ LowEnd(a, w) \in Nat /\ HighEnd(e, w) \in Nat
         /\ a <= LowEnd(a, w) /\ LowEnd(a, w) <= HighEnd(e, w) /\ HighEnd(e, w) <= e
         /\ LowEnd(a, w) % (2 * w) = 0 /\ HighEnd(e, w) % (2 * w) = 0
         /\ HighEnd(e, w) % w = 0
         /\ w <= e
<1> DEFINE a1 == LowEnd(a, w)
           e1 == HighEnd(e, w)
<1>1. PICK k \in Nat : a = k * w
  BY ModMultiple
<1>2. PICK m \in Nat : e = m * w
  BY ModMultiple
<1>3. k < m
  BY <1>1, <1>2
<1>4. a \div w = k /\ e \div w = m
  BY <1>1, <1>2, DivMul
<1> DEFINE k1 == IF k % 2 = 1 THEN k + 1 ELSE k
           m1 == IF m % 2 = 1 THEN m - 1 ELSE m
<1>5. /\ k1 \in Nat /\ m1 \in Nat /\ k <= k1 /\ k1 <= m1 /\ m1 <= m
      /\ \E l \in Nat : k1 = 2 * l
      /\ \E l \in Nat : m1 = 2 * l
  <2>1. PICK j \in Nat : IF k % 2 = 1 THEN k = 2 * j + 1 ELSE k = 2 * j
    <3>1. k \div 2 \in Nat /\ k = 2 * (k \div 2) + (k % 2) /\ k % 2 \in {0, 1}
      OBVIOUS
    <3> QED BY <3>1
  <2>2. PICK n \in Nat : IF m % 2 = 1 THEN m = 2 * n + 1 ELSE m = 2 * n
    <3>1. m \div 2 \in Nat /\ m = 2 * (m \div 2) + (m % 2) /\ m % 2 \in {0, 1}
      OBVIOUS
    <3> QED BY <3>1
  <2>3. k1 = 2 * (IF k % 2 = 1 THEN j + 1 ELSE j) /\ m1 = 2 * n
    BY <2>1, <2>2
  <2>4. k <= k1 /\ k1 <= m1 /\ m1 <= m
    BY <1>3, <2>1, <2>2
  <2>5. \E l \in Nat : k1 = 2 * l
    <3> WITNESS (IF k % 2 = 1 THEN j + 1 ELSE j) \in Nat
    <3> QED BY <2>3
  <2>6. \E l \in Nat : m1 = 2 * l
    BY <2>3
  <2>7. k1 \in Nat /\ m1 \in Nat
    BY <2>3
  <2> QED BY <2>4, <2>5, <2>6, <2>7
<1>6. a1 = k1 * w /\ e1 = m1 * w
  BY <1>1, <1>2, <1>4 DEF Bit, LowEnd, HighEnd
<1> HIDE DEF k1, m1, a1, e1
<1>7. a1 \in Nat /\ e1 \in Nat /\ a1 <= e1 /\ w <= e
  BY <1>2, <1>3, <1>5, <1>6
<1>8. a <= a1 /\ e1 <= e
  BY <1>1, <1>2, <1>5, <1>6
<1>9. e1 % w = 0
  BY <1>5, <1>6, <1>7, ModMultiple
<1>10. \E j \in Nat : a1 = j * (2 * w)
  BY <1>5, <1>6
<1>11. \E j \in Nat : e1 = j * (2 * w)
  BY <1>5, <1>6, SMTT(60)
<1>12. a1 % (2 * w) = 0 /\ e1 % (2 * w) = 0
  BY <1>7, <1>10, <1>11, ModMultiple, 2 * w \in Nat, 2 * w >= 1
<1> QED BY <1>7, <1>8, <1>9, <1>12 DEF a1, e1

\* What the two allocators keep true of the lists and of the range.
BuddyInv(lo, hi) ==
  /\ BuddyTypeOK
  /\ FreeApart /\ RangeApartFromFree
  /\ FreeAligned /\ RangeAligned
  /\ FreeInside(lo, hi) /\ RangeInside(lo, hi)

\* add_range ends before its level reaches the end of the array of lists.
LEMMA IndexBound ==
  ASSUME NEW lo \in Nat, NEW hi \in Nat, hi < BlockSize(MAX_BUDDY_HEADER_BITS),
         BuddyTypeOK, RangeAligned, RangeInside(lo, hi), Cutting
  PROVE  index \in Levels
<1>1. MAX_BUDDY_HEADER_BITS \in Nat /\ MAX_BUDDY_HEADER_BITS >= 1
  BY UnitAssumption
<1>2. index \in 0 .. MAX_BUDDY_HEADER_BITS /\ addr \in Nat /\ end \in Nat
  BY DEF BuddyTypeOK
<1> DEFINE w == BlockSize(index)
<1>3. w \in Nat /\ w >= 1
  BY <1>2, BlockSizes
<1>4. addr % w = 0 /\ end % w = 0 /\ addr < end /\ end <= hi
  BY DEF RangeAligned, Cutting, RangeInside
<1> HIDE DEF w
<1>5. w <= end
  BY <1>2, <1>3, <1>4, CutArithmetic
<1>6. index # MAX_BUDDY_HEADER_BITS
  BY <1>2, <1>3, <1>4, <1>5 DEF w
<1> QED BY <1>1, <1>2, <1>6 DEF Levels

\* One turn of add_range: the blocks it links lie in the range, the range
\* shrinks, and everything of BuddyInv holds afterwards.
LEMMA AddRangeKeeps ==
  ASSUME NEW lo \in Nat, NEW hi \in Nat, hi < BlockSize(MAX_BUDDY_HEADER_BITS),
         BuddyInv(lo, hi), AddRange
  PROVE  /\ BuddyInv(lo, hi)'
         /\ \A i \in Levels : \A b \in header'[i] :
              b \in header[i] \/ (addr <= b /\ b + BlockSize(i) <= end)
         /\ \A b \in LowNode \cup HighNode :
              addr <= b /\ b < end
         /\ addr <= addr' /\ end' <= end
<1> DEFINE w == BlockSize(index)
           low == Bit(addr, w)
           high == Bit(end, w)
           new == LowNode \cup HighNode
<1>1. index \in Levels
  BY IndexBound DEF AddRange, BuddyInv
<1>2. MAX_BUDDY_HEADER_BITS \in Nat /\ MAX_BUDDY_HEADER_BITS >= 1
  BY UnitAssumption
<1>3. /\ header \in [Levels -> SUBSET Nat] /\ addr \in Nat /\ end \in Nat
      /\ addr < end
  BY DEF BuddyInv, BuddyTypeOK, AddRange, Cutting
<1>4. \A i \in Levels : BlockSize(i) \in Nat /\ BlockSize(i) >= 1
  BY <1>2, BlockSizes DEF Levels
<1>5. w \in Nat /\ w >= 1 /\ BlockSize(index + 1) = 2 * w
  BY <1>1, <1>2, BlockSizes DEF Levels
<1>6. addr % w = 0 /\ end % w = 0 /\ lo <= addr /\ end <= hi
  BY <1>3 DEF BuddyInv, RangeAligned, RangeInside, Cutting
<1>7. /\ addr' = IF low THEN addr + w ELSE addr
      /\ end' = IF high THEN end - w ELSE end
      /\ header' = [header EXCEPT ![index] = @ \cup new]
      /\ index' = index + 1
  BY DEF AddRange, LowNode, HighNode
<1>8. /\ LowNode = IF low THEN {addr} ELSE {}
      /\ HighNode = IF high THEN {end - w} ELSE {}
  BY DEF LowNode, HighNode
<1> HIDE DEF w, low, high, new
<1>9. /\ addr' \in Nat /\ end' \in Nat
      /\ addr <= addr' /\ addr' <= end' /\ end' <= end
      /\ addr' % (2 * w) = 0 /\ end' % (2 * w) = 0
      /\ end' % w = 0
  <2>1. addr' = LowEnd(addr, w) /\ end' = HighEnd(end, w)
    BY <1>7 DEF low, high, LowEnd, HighEnd
  <2> QED BY <1>3, <1>5, <1>6, <2>1, CutArithmetic
<1>lin. /\ addr' \in Nat /\ end' \in Nat
        /\ addr <= addr' /\ addr' <= end' /\ end' <= end
  BY <1>9
<1>10. \A b \in new :
         /\ b \in Nat /\ addr <= b /\ b + w <= end /\ b % w = 0
         /\ b + w <= addr' \/ end' <= b
  BY <1>3, <1>5, <1>6, <1>7, <1>8, <1>9 DEF new
<1>11. \A a, b \in new : a = b \/ Apart(a, a + w, b, b + w)
  BY <1>3, <1>5, <1>7, <1>8, <1>9 DEF new, Apart
<1>12. \A i \in Levels : \A b \in header'[i] :
         b \in header[i] \/ (i = index /\ b \in new)
  BY <1>1, <1>3, <1>7
<1>13. \A i \in Levels : \A b \in header[i] :
         b \in Nat /\ Apart(b, b + BlockSize(i), addr, end)
  BY <1>3 DEF BuddyInv, RangeApartFromFree, Cutting
<1>14. BuddyTypeOK'
  <2>1. header' \in [Levels -> SUBSET Nat]
    BY <1>1, <1>3, <1>7, <1>10
  <2> QED BY <1>1, <1>2, <1>7, <1>9, <2>1 DEF BuddyTypeOK, Levels
<1>15. FreeApart'
  <2> SUFFICES ASSUME NEW i \in Levels, NEW j \in Levels,
                      NEW a \in header'[i], NEW b \in header'[j]
               PROVE  <<i, a>> = <<j, b>> \/ Apart(a, a + BlockSize(i), b, b + BlockSize(j))
    BY DEF FreeApart
  <2>0. a \in Nat /\ b \in Nat
    BY <1>10, <1>12, <1>13
  <2>1. CASE a \in header[i] /\ b \in header[j]
    BY <2>1 DEF BuddyInv, FreeApart
  <2>2. CASE a \in header[i] /\ j = index /\ b \in new
    BY <1>3, <1>4, <1>5, <1>10, <1>13, <2>2 DEF Apart, w
  <2>3. CASE i = index /\ a \in new /\ b \in header[j]
    BY <1>3, <1>4, <1>5, <1>10, <1>13, <2>3 DEF Apart, w
  <2>4. CASE i = index /\ a \in new /\ j = index /\ b \in new
    BY <1>11, <2>4 DEF w
  <2> QED BY <1>12, <2>1, <2>2, <2>3, <2>4
<1>16. RangeApartFromFree'
  <2> SUFFICES ASSUME addr' < end', NEW i \in Levels, NEW b \in header'[i]
               PROVE  Apart(b, b + BlockSize(i), addr', end')
    BY DEF RangeApartFromFree, Cutting
  <2>1. CASE b \in header[i]
    BY <1>3, <1>4, <1>lin, <1>13, <2>1 DEF Apart
  <2>2. CASE i = index /\ b \in new
    BY <1>5, <1>lin, <1>10, <2>2 DEF Apart, w
  <2> QED BY <1>12, <2>1, <2>2
<1>17. FreeAligned'
  BY <1>10, <1>12 DEF BuddyInv, FreeAligned, w
<1>18. RangeAligned'
  BY <1>5, <1>7, <1>9 DEF RangeAligned
<1>19. FreeInside(lo, hi)'
  <2> SUFFICES ASSUME NEW i \in Levels, NEW b \in header'[i]
               PROVE  lo <= b /\ b + BlockSize(i) <= hi
    BY DEF FreeInside
  <2>1. CASE b \in header[i]
    BY <2>1 DEF BuddyInv, FreeInside
  <2>2. CASE i = index /\ b \in new
    BY <1>3, <1>5, <1>6, <1>10, <2>2 DEF w
  <2> QED BY <1>12, <2>1, <2>2
<1>20. RangeInside(lo, hi)'
  BY <1>3, <1>6, <1>9 DEF RangeInside
<1>21. \A b \in new : addr <= b /\ b < end
  BY <1>3, <1>5, <1>10
<1> QED
  BY <1>9, <1>10, <1>12, <1>14, <1>15, <1>16, <1>17, <1>18, <1>19, <1>20, <1>21 DEF BuddyInv, w, new

----------------------------------------------------------------------------
(* alloc_node *)

\* A request that alloc_node can serve.
Fits(n) == \E l \in 3 .. MaxLvl : n <= 2^l /\ 2^(l - 1) < n

\* alloc_node keeps enough bytes for the request, and a block of any list from
\* FirstIndex on holds them: the shift by 3 never picks a block too small.
LEMMA Levelling ==
  ASSUME NEW n \in Nat, Fits(n)
  PROVE  /\ AllocSize(n) \in Nat /\ AllocSize(n) >= 1 /\ n <= AllocSize(n)
         /\ \A i \in Levels : i >= FirstIndex(n) => AllocSize(n) <= BlockSize(i)
<1> DEFINE P(l) == n <= 2^l /\ (l = 0 \/ 2^(l - 1) < n)
           L == Lvl(n)
<1>1. MAX_BUDDY_HEADER_BITS \in Nat /\ MaxLvl \in Nat /\ MaxLvl = MAX_BUDDY_HEADER_BITS + 2
  BY UnitAssumption DEF MaxLvl
<1>2. PICK k \in 3 .. MaxLvl : n <= 2^k /\ 2^(k - 1) < n
  BY DEF Fits
<1>3. L \in 0 .. MaxLvl /\ P(L)
  <2>1. \E l \in 0 .. MaxLvl : P(l)
    BY <1>1, <1>2
  <2> QED BY <2>1 DEF Lvl
<1> HIDE DEF L
<1>4. 2^L \in Nat /\ 2^L >= 1 /\ n <= 2^L
  BY <1>3, PowerAssumption
<1>5. L >= 3
  <2> SUFFICES ASSUME L < 3 PROVE FALSE
    BY <1>3
  <2>1. L \in 0 .. MaxLvl /\ k - 1 \in 0 .. MaxLvl /\ L <= k - 1
    BY <1>1, <1>2, <1>3
  <2>2. 2^L <= 2^(k - 1) /\ 2^(k - 1) \in Nat
    BY <2>1, PowerAssumption
  <2> QED BY <1>2, <1>4, <2>2
<1>6. 2^L = 8 * 2^(L - 3) /\ 2^(L - 3) \in Nat
  <2>1. L - 3 \in 0 .. MaxLvl /\ L - 2 \in 0 .. MaxLvl /\ L - 1 \in 0 .. MaxLvl
    BY <1>1, <1>3, <1>5
  <2>2. (L - 3) + 1 = L - 2 /\ (L - 2) + 1 = L - 1 /\ (L - 1) + 1 = L
    BY <1>3
  <2>3. 2^(L - 2) = 2 * 2^(L - 3) /\ 2^(L - 1) = 2 * 2^(L - 2) /\ 2^L = 2 * 2^(L - 1)
    BY <2>1, <2>2, PowerAssumption
  <2>4. 2^(L - 3) \in Nat
    BY <2>1, PowerAssumption
  <2> QED BY <2>3, <2>4
<1>7. ASSUME NEW i \in Levels, i >= L - 3 PROVE 2^L <= BlockSize(i)
  <2>1. L - 3 \in 0 .. MaxLvl /\ i \in 0 .. MaxLvl /\ L - 3 <= i
    BY <1>1, <1>3, <1>5, <1>7 DEF Levels
  <2>2. 2^(L - 3) <= 2^i /\ 2^i \in Nat
    BY <2>1, PowerAssumption
  <2> DEFINE p == 2^i
             q == 2^(L - 3)
  <2> HIDE DEF p, q
  <2>3. p \in Nat /\ q \in Nat /\ q <= p
    BY <1>6, <2>2 DEF p, q
  <2>4. 8 * q <= Unit * p
    BY <2>3, UnitAssumption
  <2> QED BY <1>6, <2>4 DEF p, q, BlockSize
<1> QED BY <1>4, <1>7 DEF L, AllocSize, FirstIndex

\* alloc_node: the block it unlinks was free and is apart from every block
\* that stays, and the range it gives to add_range is the rest of that block.
LEMMA AllocNodeKeeps ==
  ASSUME NEW lo \in Nat, NEW hi \in Nat, NEW n \in Nat, Fits(n),
         BuddyInv(lo, hi), AllocNode(n)
  PROVE  /\ BuddyInv(lo, hi)'
         /\ FoundIndex(n) \in Levels /\ FoundNode(n) \in header[FoundIndex(n)]
         /\ FoundNode(n) \in Nat
         /\ AllocSize(n) <= BlockSize(FoundIndex(n))
         /\ \A j \in Levels : header'[j] \subseteq header[j]
         /\ \A j \in Levels : \A b \in header'[j] :
              Apart(b, b + BlockSize(j),
                    FoundNode(n), FoundNode(n) + BlockSize(FoundIndex(n)))
         /\ FoundNode(n) + AllocSize(n) <= addr'
         /\ end' <= FoundNode(n) + BlockSize(FoundIndex(n))
<1> DEFINE i == FoundIndex(n)
           x == FoundNode(n)
           sz == AllocSize(n)
<1>1. MAX_BUDDY_HEADER_BITS \in Nat /\ MAX_BUDDY_HEADER_BITS >= 1
  BY UnitAssumption
<1>2. header \in [Levels -> SUBSET Nat]
  BY DEF BuddyInv, BuddyTypeOK
<1>3. i \in Levels /\ i >= FirstIndex(n) /\ header[i] # {}
  <2>1. Candidates(n) # {} /\ Candidates(n) \subseteq Nat
    BY <1>1 DEF AllocNode, Candidates, Levels
  <2>2. i \in Candidates(n)
    BY <2>1, MinNat DEF FoundIndex
  <2> QED BY <2>2 DEF Candidates
<1>4. x \in header[i] /\ x \in Nat
  <2>1. header[i] \subseteq Nat
    BY <1>2, <1>3
  <2> QED BY <1>3, <2>1, MinNat DEF FoundNode
<1>5. \A j \in Levels : BlockSize(j) \in Nat /\ BlockSize(j) >= 1
  BY <1>1, BlockSizes DEF Levels
<1>6. sz \in Nat /\ sz >= 1 /\ sz <= BlockSize(i)
  BY <1>3, Levelling
<1>7. /\ header' = [header EXCEPT ![i] = @ \ {x}]
      /\ addr' = RoundUp(x + sz)
      /\ end' = RoundDown((x + sz) + (BlockSize(i) - sz))
      /\ index' = 0
  BY DEF AllocNode, StartRange
<1> HIDE DEF i, x, sz
<1>8. (x + sz) + (BlockSize(i) - sz) = x + BlockSize(i) /\ x + BlockSize(i) \in Nat /\ x + sz \in Nat
  BY <1>3, <1>4, <1>5, <1>6
<1>9. /\ addr' \in Nat /\ x + sz <= addr' /\ addr' % Unit = 0
      /\ end' \in Nat /\ end' <= x + BlockSize(i) /\ end' % Unit = 0
  BY <1>7, <1>8, Rounding
<1>10. \A j \in Levels : header'[j] \subseteq header[j]
  BY <1>2, <1>3, <1>7
<1>11. header' \in [Levels -> SUBSET Nat]
  BY <1>2, <1>3, <1>7
<1>12. ASSUME NEW j \in Levels, NEW b \in header'[j]
       PROVE  Apart(b, b + BlockSize(j), x, x + BlockSize(i))
  <2>1. b \in header[j] /\ <<j, b>> # <<i, x>>
    BY <1>2, <1>3, <1>7, <1>12
  <2> QED BY <1>3, <1>4, <2>1 DEF BuddyInv, FreeApart
<1>13. BuddyTypeOK'
  BY <1>1, <1>7, <1>9, <1>11 DEF BuddyTypeOK
<1>14. FreeApart' /\ FreeAligned' /\ FreeInside(lo, hi)'
  BY <1>10 DEF BuddyInv, FreeApart, FreeAligned, FreeInside
<1>15. RangeApartFromFree'
  <2> SUFFICES ASSUME addr' < end', NEW j \in Levels, NEW b \in header'[j]
               PROVE  Apart(b, b + BlockSize(j), addr', end')
    BY DEF RangeApartFromFree, Cutting
  <2>1. b \in Nat /\ BlockSize(j) \in Nat /\ BlockSize(i) \in Nat
    BY <1>3, <1>5, <1>11
  <2>2. /\ addr' \in Nat /\ x + sz <= addr' /\ end' \in Nat /\ end' <= x + BlockSize(i)
        /\ x \in Nat /\ sz \in Nat
    BY <1>4, <1>6, <1>9
  <2> QED BY <1>12, <2>1, <2>2 DEF Apart
<1>16. RangeAligned'
  BY <1>7, <1>9, BlockSizes DEF RangeAligned
<1>17. RangeInside(lo, hi)'
  <2>1. lo <= x /\ x + BlockSize(i) <= hi
    BY <1>3, <1>4 DEF BuddyInv, FreeInside
  <2>2. /\ addr' \in Nat /\ x + sz <= addr' /\ end' \in Nat /\ end' <= x + BlockSize(i)
        /\ x \in Nat /\ sz \in Nat /\ BlockSize(i) \in Nat
    BY <1>3, <1>4, <1>5, <1>6, <1>9
  <2> QED BY <2>1, <2>2 DEF RangeInside
<1> QED
  BY <1>3, <1>4, <1>6, <1>9, <1>10, <1>12, <1>13, <1>14, <1>15, <1>16, <1>17 DEF BuddyInv, i, x, sz

----------------------------------------------------------------------------
(* The heap allocator *)

\* The inductive invariant: the lists and the range (BuddyInv), and the blocks
\* that callers hold. HeldApart alone is not inductive: a split is harmless
\* because the rest of a block is apart from all other free blocks, and a
\* release because the block it gives back was apart from everything.
IInv ==
  /\ TypeOK
  /\ BuddyInv(HeapBase, HeapEnd)
  /\ HeldApart
  /\ InsideHeap
  /\ LiveTagged
  /\ pc = "malloc" => cur \in Blocks

\* Every request fits a level (SizesAssumption), so its footprint holds it.
LEMMA Footprints ==
  ASSUME NEW p \in Blocks
  PROVE  /\ p.mh \in Nat /\ p.size \in Nat /\ p.size \in Sizes
         /\ p.size + HeaderSize \in Nat /\ Fits(p.size + HeaderSize)
         /\ Footprint(p) \in Nat /\ Footprint(p) >= 1
         /\ p.size + HeaderSize <= Footprint(p)
<1>1. p.mh \in Nat /\ p.size \in Sizes
  BY DEF Blocks
<1>2. p.size \in Nat /\ HeaderSize \in Nat /\ Fits(p.size + HeaderSize)
  BY <1>1, SizesAssumption, HeapAssumption DEF Fits
<1>3. p.size + HeaderSize \in Nat
  BY <1>2
<1> QED BY <1>1, <1>2, <1>3, Levelling DEF Footprint

\* What HeapAssumption says of the ends of the heap.
LEMMA HeapBounds ==
  HeapBase \in Nat /\ HeapEnd \in Nat /\ HeapEnd < BlockSize(MAX_BUDDY_HEADER_BITS)
BY HeapAssumption DEF HeapEnd

\* A turn of add_range leaves every held block alone.
LEMMA CutKeeps ==
  ASSUME IInv, Cut
  PROVE  IInv'
<1>1. HeapBase \in Nat /\ HeapEnd \in Nat /\ HeapEnd < BlockSize(MAX_BUDDY_HEADER_BITS)
  BY HeapBounds
<1>2. BuddyInv(HeapBase, HeapEnd) /\ AddRange
  BY DEF IInv, Cut
<1>3. /\ BuddyInv(HeapBase, HeapEnd)'
      /\ \A i \in Levels : \A b \in header'[i] :
           b \in header[i] \/ (addr <= b /\ b + BlockSize(i) <= end)
      /\ \A b \in LowNode \cup HighNode : addr <= b /\ b < end
      /\ addr <= addr' /\ end' <= end
  BY <1>1, <1>2, AddRangeKeeps
<1>4. UNCHANGED <<pc, cur, live, released>> /\ Held' = Held
  BY DEF Cut, Held
<1>5. Held \subseteq Blocks
  BY DEF IInv, TypeOK, Held
<1>6. addr < end /\ addr \in Nat /\ end \in Nat /\ addr' \in Nat /\ end' \in Nat
  BY <1>2, <1>3 DEF AddRange, Cutting, BuddyInv, BuddyTypeOK
<1>7. /\ header' \in [Levels -> SUBSET Nat]
      /\ \A i \in Levels : BlockSize(i) \in Nat /\ BlockSize(i) >= 1
  BY <1>3, LevelSizes DEF BuddyInv, BuddyTypeOK
<1>8. TypeOK'
  <2>1. tagged' \subseteq Nat
    BY DEF Cut, IInv, TypeOK
  <2> QED BY <1>3, <1>4, <2>1 DEF IInv, TypeOK, BuddyInv
<1>9. ASSUME NEW p \in Held
      PROVE  Apart(p.mh, p.mh + Footprint(p), addr, end)
  BY <1>6 DEF IInv, HeldApart, Cutting
<1>10. HeldApart'
  <2>1. (pc = "malloc" => cur \notin live)'
    BY <1>4 DEF IInv, HeldApart
  <2>2. ASSUME NEW p \in Held, NEW i \in Levels, NEW b \in header'[i]
        PROVE  Apart(p.mh, p.mh + Footprint(p), b, b + BlockSize(i))
    <3>1. CASE b \in header[i]
      BY <3>1 DEF IInv, HeldApart
    <3>2. CASE addr <= b /\ b + BlockSize(i) <= end
      <4>1. p.mh \in Nat /\ Footprint(p) \in Nat
        BY <1>5, Footprints
      <4>2. b \in Nat /\ BlockSize(i) \in Nat
        BY <1>7
      <4> QED BY <1>6, <1>9, <3>2, <4>1, <4>2 DEF Apart
    <3> QED BY <1>3, <3>1, <3>2
  <2>3. ASSUME NEW p \in Held
        PROVE  Apart(p.mh, p.mh + Footprint(p), addr', end')
    <3>1. p.mh \in Nat /\ Footprint(p) \in Nat
      BY <1>5, Footprints
    <3> QED BY <1>3, <1>6, <1>9, <3>1 DEF Apart
  <2>4. \A p \in Held : \A q \in live :
          p = q \/ Apart(p.mh, p.mh + Footprint(p), q.mh, q.mh + Footprint(q))
    BY DEF IInv, HeldApart
  <2> QED BY <1>4, <2>1, <2>2, <2>3, <2>4 DEF HeldApart, Footprint
<1>11. InsideHeap'
  BY <1>3, <1>4 DEF IInv, InsideHeap, BuddyInv, Footprint
<1>12. LiveTagged'
  <2> SUFFICES ASSUME NEW p \in live PROVE p.mh \in tagged'
    BY <1>4 DEF LiveTagged
  <2>1. p \in Held /\ p \in Blocks
    BY <1>5 DEF Held
  <2>2. p.mh \in tagged
    BY DEF IInv, LiveTagged
  <2>3. p.mh \in Nat /\ Footprint(p) \in Nat /\ Footprint(p) >= 1
    BY <2>1, Footprints
  <2>4. p.mh \notin LowNode \cup HighNode
    BY <1>3, <1>6, <1>9, <2>1, <2>3 DEF Apart
  <2> QED BY <2>2, <2>4 DEF Cut
<1> QED BY <1>3, <1>4, <1>8, <1>10, <1>11, <1>12 DEF IInv

\* malloc takes a free block: what it keeps is apart from everything else.
LEMMA MallocKeeps ==
  ASSUME IInv, NEW size \in Sizes, Malloc(size)
  PROVE  IInv'
<1> DEFINE n == size + HeaderSize
           x == FoundNode(n)
           i == FoundIndex(n)
<1>1. HeapBase \in Nat /\ HeapEnd \in Nat
  BY HeapBounds
<1>2. size \in Nat /\ n \in Nat /\ Fits(n)
  BY SizesAssumption, HeapAssumption DEF Fits
<1>3. BuddyInv(HeapBase, HeapEnd) /\ AllocNode(n)
  BY DEF IInv, Malloc
<1>4. /\ BuddyInv(HeapBase, HeapEnd)'
      /\ i \in Levels /\ x \in header[i] /\ x \in Nat
      /\ AllocSize(n) <= BlockSize(i)
      /\ \A j \in Levels : header'[j] \subseteq header[j]
      /\ \A j \in Levels : \A b \in header'[j] :
           Apart(b, b + BlockSize(j), x, x + BlockSize(i))
      /\ x + AllocSize(n) <= addr'
      /\ end' <= x + BlockSize(i)
  BY <1>1, <1>2, <1>3, AllocNodeKeeps
<1>5. /\ cur' = [mh |-> x, size |-> size] /\ pc' = "malloc" /\ pc = "idle"
      /\ live' = live /\ released' = released /\ tagged' = tagged
  BY DEF Malloc
<1> HIDE DEF x, i
<1>6. cur' \in Blocks /\ cur'.mh = x /\ Footprint(cur') = AllocSize(n)
  BY <1>4, <1>5 DEF Blocks, Footprint
<1>7. Held' = live \cup {cur'} /\ Held = live /\ live \subseteq Blocks
  BY <1>5 DEF Held, IInv, TypeOK
<1> HIDE DEF n
<1>8. /\ AllocSize(n) \in Nat /\ AllocSize(n) >= 1 /\ BlockSize(i) \in Nat
      /\ addr' \in Nat /\ end' \in Nat
      /\ header \in [Levels -> SUBSET Nat] /\ header' \in [Levels -> SUBSET Nat]
  BY <1>2, <1>3, <1>4, Levelling, LevelSizes DEF BuddyInv, BuddyTypeOK
<1>9. TypeOK'
  BY <1>4, <1>5, <1>6 DEF IInv, TypeOK, BuddyInv
\* The blocks of the other callers are apart from the whole block found.
<1>10. ASSUME NEW p \in live
       PROVE  Apart(p.mh, p.mh + Footprint(p), x, x + BlockSize(i))
  BY <1>4, <1>7 DEF IInv, HeldApart
<1>11. HeldApart'
  <2>1. cur' \notin live
    <3> SUFFICES ASSUME cur' \in live PROVE FALSE
      OBVIOUS
    <3>1. Apart(x, x + AllocSize(n), x, x + BlockSize(i))
      BY <1>6, <1>10
    <3> QED BY <1>4, <1>8, <3>1 DEF Apart
  <2>2. ASSUME NEW p \in live, NEW j \in Levels, NEW b \in header'[j]
        PROVE  Apart(p.mh, p.mh + Footprint(p), b, b + BlockSize(j))
    BY <1>4, <1>7 DEF IInv, HeldApart
  <2>3. ASSUME NEW j \in Levels, NEW b \in header'[j]
        PROVE  Apart(x, x + AllocSize(n), b, b + BlockSize(j))
    <3>1. b \in Nat /\ BlockSize(j) \in Nat
      BY <1>8, LevelSizes
    <3>2. Apart(b, b + BlockSize(j), x, x + BlockSize(i))
      BY <1>4
    <3> QED BY <1>4, <1>8, <3>1, <3>2 DEF Apart
  <2>4. ASSUME NEW p \in live
        PROVE  Apart(p.mh, p.mh + Footprint(p), addr', end')
    <3>1. p.mh \in Nat /\ Footprint(p) \in Nat
      BY <1>7, Footprints
    <3> QED BY <1>4, <1>8, <1>10, <3>1 DEF Apart
  <2>5. Apart(x, x + AllocSize(n), addr', end')
    BY <1>4 DEF Apart
  <2>6. ASSUME NEW p \in live
        PROVE  Apart(x, x + AllocSize(n), p.mh, p.mh + Footprint(p))
    <3>1. p.mh \in Nat /\ Footprint(p) \in Nat
      BY <1>7, Footprints
    <3> QED BY <1>4, <1>8, <1>10, <3>1 DEF Apart
  <2>7. ASSUME NEW p \in live, NEW q \in live
        PROVE  p = q \/ Apart(p.mh, p.mh + Footprint(p), q.mh, q.mh + Footprint(q))
    BY <1>7 DEF IInv, HeldApart
  <2>8. ASSUME NEW p \in Held'
        PROVE  /\ \A j \in Levels : \A b \in header'[j] :
                    Apart(p.mh, p.mh + Footprint(p), b, b + BlockSize(j))
               /\ Apart(p.mh, p.mh + Footprint(p), addr', end')
               /\ \A q \in live :
                    p = q \/ Apart(p.mh, p.mh + Footprint(p), q.mh, q.mh + Footprint(q))
    <3>1. CASE p \in live
      BY <2>2, <2>4, <2>7, <3>1
    <3>2. CASE p = cur'
      BY <1>6, <2>3, <2>5, <2>6, <3>2
    <3> QED BY <1>7, <3>1, <3>2
  <2> QED BY <1>5, <2>1, <2>8 DEF HeldApart, Footprint
<1>12. InsideHeap'
  <2>1. HeapBase <= x /\ x + BlockSize(i) <= HeapEnd
    BY <1>4 DEF IInv, BuddyInv, FreeInside
  <2>2. HeapBase <= x /\ x + AllocSize(n) <= HeapEnd
    BY <1>1, <1>4, <1>8, <2>1
  <2>3. \A p \in live : HeapBase <= p.mh /\ p.mh + Footprint(p) <= HeapEnd
    BY <1>7 DEF IInv, InsideHeap
  <2> QED BY <1>4, <1>6, <1>7, <2>2, <2>3 DEF InsideHeap, BuddyInv, Footprint
<1>13. LiveTagged'
  BY <1>5 DEF IInv, LiveTagged
<1> QED BY <1>4, <1>6, <1>9, <1>11, <1>12, <1>13 DEF IInv

\* The end of malloc hands out the block it took; zeroing the caller's bytes
\* reaches no other header.
LEMMA MallocReturnKeeps ==
  ASSUME IInv, MallocReturn
  PROVE  IInv'
<1>1. /\ pc = "malloc" /\ pc' = "idle" /\ live' = live \cup {cur}
      /\ cur' = NoBlock /\ UNCHANGED <<header, addr, end, index>>
      /\ released' \subseteq released
      /\ cur \in Blocks
  BY DEF MallocReturn, IInv
<1>2. Held' = Held /\ Held = live \cup {cur} /\ Held \subseteq Blocks
  BY <1>1 DEF Held, IInv, TypeOK
<1>3. BuddyInv(HeapBase, HeapEnd)'
  BY <1>1 DEF IInv, BuddyInv, BuddyTypeOK, FreeApart, RangeApartFromFree, FreeAligned,
              RangeAligned, FreeInside, RangeInside, Cutting
<1>4. TypeOK'
  <2>1. tagged' \subseteq Nat
    BY <1>1, Footprints DEF MallocReturn, IInv, TypeOK
  <2> QED BY <1>1, <1>3, <2>1 DEF IInv, TypeOK, BuddyInv
<1>5. HeldApart'
  <2>1. \A p \in Held : \A q \in live :
          p = q \/ Apart(p.mh, p.mh + Footprint(p), q.mh, q.mh + Footprint(q))
    BY DEF IInv, HeldApart
  <2>2. ASSUME NEW p \in Held
        PROVE  p = cur \/ Apart(p.mh, p.mh + Footprint(p), cur.mh, cur.mh + Footprint(cur))
    BY <1>2, <2>1 DEF Apart
  <2>3. \A p \in Held : \A q \in live' :
          p = q \/ Apart(p.mh, p.mh + Footprint(p), q.mh, q.mh + Footprint(q))
    BY <1>1, <2>1, <2>2
  <2> QED BY <1>1, <1>2, <2>3 DEF IInv, HeldApart, Cutting, Footprint
<1>6. InsideHeap'
  BY <1>1, <1>2, <1>3 DEF IInv, InsideHeap, BuddyInv, Footprint
<1>7. LiveTagged'
  <2> SUFFICES ASSUME NEW p \in live, p # cur PROVE p.mh \in tagged'
    BY <1>1 DEF LiveTagged, MallocReturn
  <2>1. p.mh \in tagged
    BY DEF IInv, LiveTagged
  <2>2. Apart(cur.mh, cur.mh + Footprint(cur), p.mh, p.mh + Footprint(p))
    BY <1>2 DEF IInv, HeldApart
  <2>3. /\ p.mh \in Nat /\ Footprint(p) \in Nat /\ Footprint(p) >= 1
        /\ cur.mh \in Nat /\ Footprint(cur) \in Nat /\ cur.size \in Nat
        /\ cur.size + HeaderSize <= Footprint(cur)
    BY <1>2, Footprints
  <2>4. p.mh < cur.mh + HeaderSize \/ p.mh >= cur.mh + HeaderSize + cur.size
    BY <2>2, <2>3, HeapAssumption DEF Apart
  <2> QED BY <2>1, <2>4 DEF MallocReturn
<1> QED BY <1>1, <1>3, <1>4, <1>5, <1>6, <1>7 DEF IInv

\* free gives back part of a block that was apart from everything.
LEMMA FreeKeeps ==
  ASSUME IInv, NEW p \in live, Free(p)
  PROVE  IInv'
<1>1. /\ pc = "idle" /\ pc' = "free" /\ live' = live \ {p}
      /\ released' = released \cup {p}
      /\ UNCHANGED <<header, cur, tagged>>
      /\ addr' = RoundUp(p.mh) /\ end' = RoundDown(p.mh + p.size) /\ index' = 0
  BY DEF Free, StartRange, FreeLength
<1>2. p \in Blocks /\ live \subseteq Blocks /\ Held = live /\ Held' = live'
  BY <1>1 DEF IInv, TypeOK, Held
<1>3. /\ p.mh \in Nat /\ p.size \in Nat /\ Footprint(p) \in Nat
      /\ p.size <= Footprint(p) /\ p.mh + p.size \in Nat
  <2>1. p.mh \in Nat /\ p.size \in Nat /\ Footprint(p) \in Nat /\ p.size + HeaderSize <= Footprint(p)
    BY <1>2, Footprints
  <2> QED BY <2>1, HeapAssumption
<1>4. /\ addr' \in Nat /\ p.mh <= addr' /\ addr' % Unit = 0
      /\ end' \in Nat /\ end' <= p.mh + p.size /\ end' % Unit = 0
  BY <1>1, <1>3, Rounding
<1>5. addr' \in Nat /\ end' \in Nat /\ p.mh <= addr' /\ end' <= p.mh + Footprint(p)
  BY <1>3, <1>4
<1>6. BuddyInv(HeapBase, HeapEnd)'
  <2>1. BuddyTypeOK'
    BY <1>1, <1>4, UnitAssumption DEF IInv, BuddyInv, BuddyTypeOK
  <2>2. FreeApart' /\ FreeAligned' /\ FreeInside(HeapBase, HeapEnd)'
    BY <1>1 DEF IInv, BuddyInv, FreeApart, FreeAligned, FreeInside
  <2>3. RangeAligned'
    BY <1>1, <1>4, BlockSizes DEF RangeAligned
  <2>4. RangeInside(HeapBase, HeapEnd)'
    <3>1. HeapBase <= p.mh /\ p.mh + Footprint(p) <= HeapEnd
      BY <1>2 DEF IInv, InsideHeap
    <3> QED BY <1>3, <1>5, <3>1, HeapBounds DEF RangeInside
  <2>5. RangeApartFromFree'
    <3> SUFFICES ASSUME NEW i \in Levels, NEW b \in header[i]
                 PROVE  Apart(b, b + BlockSize(i), addr', end')
      BY <1>1 DEF RangeApartFromFree
    <3>1. Apart(p.mh, p.mh + Footprint(p), b, b + BlockSize(i))
      BY <1>2 DEF IInv, HeldApart
    <3>2. b \in Nat /\ BlockSize(i) \in Nat
      BY LevelSizes DEF IInv, BuddyInv, BuddyTypeOK
    <3> QED BY <1>3, <1>5, <3>1, <3>2 DEF Apart
  <2> QED BY <2>1, <2>2, <2>3, <2>4, <2>5 DEF BuddyInv
<1>7. TypeOK'
  BY <1>1, <1>2, <1>6 DEF IInv, TypeOK, BuddyInv
<1>8. HeldApart'
  <2>1. ASSUME NEW q \in live'
        PROVE  Apart(q.mh, q.mh + Footprint(q), addr', end')
    <3>1. Apart(q.mh, q.mh + Footprint(q), p.mh, p.mh + Footprint(p))
      BY <1>1, <1>2 DEF IInv, HeldApart
    <3>2. q.mh \in Nat /\ Footprint(q) \in Nat
      BY <1>1, <1>2, Footprints
    <3> QED BY <1>3, <1>5, <3>1, <3>2 DEF Apart
  <2>2. ASSUME NEW q \in live', NEW i \in Levels, NEW b \in header[i]
        PROVE  Apart(q.mh, q.mh + Footprint(q), b, b + BlockSize(i))
    BY <1>1, <1>2 DEF IInv, HeldApart
  <2>3. ASSUME NEW q \in live', NEW r \in live'
        PROVE  q = r \/ Apart(q.mh, q.mh + Footprint(q), r.mh, r.mh + Footprint(r))
    BY <1>1, <1>2 DEF IInv, HeldApart
  <2> QED BY <1>1, <1>2, <2>1, <2>2, <2>3 DEF HeldApart, Footprint
<1>9. InsideHeap'
  BY <1>1, <1>2, <1>6 DEF IInv, InsideHeap, BuddyInv, Footprint
<1>10. LiveTagged'
  BY <1>1 DEF IInv, LiveTagged
<1> QED BY <1>1, <1>6, <1>7, <1>8, <1>9, <1>10 DEF IInv

\* The steps that touch neither the lists nor the blocks.
LEMMA QuietKeeps ==
  ASSUME IInv,
         UNCHANGED <<header, addr, end, index, cur, live, released, tagged>>,
         pc' \in {"idle", "runs_off", pc}
  PROVE  IInv'
<1>1. Held' \subseteq Held
  BY DEF Held
<1>2. BuddyInv(HeapBase, HeapEnd)'
  BY DEF IInv, BuddyInv, BuddyTypeOK, FreeApart, RangeApartFromFree, FreeAligned,
         RangeAligned, FreeInside, RangeInside, Cutting
<1>3. TypeOK'
  BY <1>2 DEF IInv, TypeOK, BuddyInv
<1>4. HeldApart'
  BY <1>1 DEF IInv, HeldApart, Cutting, Footprint
<1>5. InsideHeap'
  BY <1>1, <1>2 DEF IInv, InsideHeap, BuddyInv, Footprint
<1> QED BY <1>2, <1>3, <1>4, <1>5 DEF IInv, LiveTagged

\* boot_main starts in the invariant: empty lists and the rounded heap to cut.
LEMMA InitEstablishes == Init => IInv
<1> SUFFICES ASSUME Init PROVE IInv
  OBVIOUS
<1>1. HeapBase \in Nat /\ HeapEnd \in Nat
  BY HeapBounds
<1>2. /\ addr \in Nat /\ HeapBase <= addr /\ addr % Unit = 0
      /\ end \in Nat /\ end <= HeapEnd /\ end % Unit = 0
  BY <1>1, Rounding DEF Init
<1>3. header = [i \in Levels |-> {}] /\ index = 0 /\ pc = "boot" /\ live = {}
  BY DEF Init
<1>4. BuddyInv(HeapBase, HeapEnd)
  <2>1. BuddyTypeOK
    BY <1>2, <1>3, UnitAssumption DEF BuddyTypeOK
  <2>2. FreeApart /\ FreeAligned /\ FreeInside(HeapBase, HeapEnd) /\ RangeApartFromFree
    BY <1>3 DEF FreeApart, FreeAligned, FreeInside, RangeApartFromFree
  <2>3. RangeAligned
    BY <1>2, <1>3, BlockSizes DEF RangeAligned
  <2>4. RangeInside(HeapBase, HeapEnd)
    BY <1>2 DEF RangeInside
  <2> QED BY <2>1, <2>2, <2>3, <2>4 DEF BuddyInv
<1>5. Held = {}
  BY <1>3 DEF Held
<1> QED
  BY <1>3, <1>4, <1>5 DEF Init, IInv, TypeOK, BuddyInv, HeldApart, InsideHeap, LiveTagged, NoBlock

\* Every step keeps it, one case per action.
LEMMA NextKeeps == IInv /\ [Next]_vars => IInv'
<1> SUFFICES ASSUME IInv, [Next]_vars PROVE IInv'
  OBVIOUS
<1>1. CASE Cut
  BY <1>1, CutKeeps
<1>2. CASE Return
  BY <1>2, QuietKeeps DEF Return
<1>3. CASE MallocReturn
  BY <1>3, MallocReturnKeeps
<1>4. ASSUME NEW size \in Sizes, Malloc(size) PROVE IInv'
  BY <1>4, MallocKeeps
<1>5. ASSUME NEW size \in Sizes, MallocRunsOff(size) PROVE IInv'
  BY <1>5, QuietKeeps DEF MallocRunsOff
<1>6. ASSUME NEW p \in live, Free(p) PROVE IInv'
  BY <1>6, FreeKeeps
<1>7. CASE UNCHANGED vars
  BY <1>7, QuietKeeps DEF vars
<1> QED BY <1>1, <1>2, <1>3, <1>4, <1>5, <1>6, <1>7 DEF Next

\* Along every behaviour of the allocator the inductive invariant holds.
THEOREM HeapInvariant == Spec => []IInv
<1>1. IInv /\ [Next]_vars => IInv'
  BY NextKeeps
<1> QED BY <1>1, InitEstablishes, PTL DEF Spec

\* The state of the allocator is always well typed: in particular add_range's
\* level never exceeds the number of lists.
THEOREM HeapTyped == Spec => []TypeOK
<1>1. IInv => TypeOK
  BY DEF IInv
<1> QED BY <1>1, HeapInvariant, PTL

\* No byte of an allocation is ever on a free list, in the range add_range is
\* cutting, or part of another allocation (buddy_alloc.c:92-229).
THEOREM HeapNoOverlap == Spec => []HeldApart
<1>1. IInv => HeldApart
  BY DEF IInv
<1> QED BY <1>1, HeapInvariant, PTL

\* No free byte is ever on two lists or on a list and in the range.
THEOREM HeapFreeOnce == Spec => []FreeOnce
<1>1. IInv => FreeOnce
  BY DEF IInv, BuddyInv, FreeOnce
<1> QED BY <1>1, HeapInvariant, PTL

\* Blocks and ranges never leave the array heap.
THEOREM HeapInside == Spec => []InsideHeap
<1>1. IInv => InsideHeap
  BY DEF IInv
<1> QED BY <1>1, HeapInvariant, PTL

\* Free blocks are naturally aligned, and so is the range at every turn.
THEOREM HeapAligned == Spec => []Aligned
<1>1. IInv => Aligned
  BY DEF IInv, BuddyInv, Aligned
<1> QED BY <1>1, HeapInvariant, PTL

\* add_range never indexes past the array of lists (buddy_alloc.c:99-108).
THEOREM HeapIndexInBounds == Spec => []IndexInBounds
<1>1. IInv => IndexInBounds
  BY HeapBounds, IndexBound, UnitAssumption DEF IInv, BuddyInv, IndexInBounds, Levels
<1> QED BY <1>1, HeapInvariant, PTL

\* free_len's assertion on ptr_validate never fails for a pointer that malloc
\* returned and that was not freed (buddy_alloc.c:221).
THEOREM HeapLiveTagged == Spec => []LiveTagged
<1>1. IInv => LiveTagged
  BY DEF IInv
<1> QED BY <1>1, HeapInvariant, PTL

----------------------------------------------------------------------------
(* A second free *)

\* A block that is freed starts at a unit, so a range that is not empty starts at
\* its header; and as long as that start has not been cut off, which unlinks the
\* tag, it is still where add_range is.
StaleInv ==
  /\ \A p \in Held : p.mh % Unit = 0
  /\ \A p \in released : p.mh \in tagged =>
       \/ RoundDown(p.mh + p.size) <= p.mh
       \/ pc = "free" /\ Cutting /\ addr = p.mh

\* Every free block starts at a multiple of the unit.
LEMMA FreeOnUnit ==
  ASSUME NEW i \in Levels, NEW b \in Nat, b % BlockSize(i) = 0
  PROVE  b % Unit = 0
<1>1. /\ Unit \in Nat /\ Unit >= 1 /\ 2^i \in Nat /\ i \in 0 .. MaxLvl
      /\ BlockSize(i) \in Nat /\ BlockSize(i) >= 1
  BY UnitAssumption, PowerAssumption, LevelSizes DEF Levels, MaxLvl
<1>2. PICK k \in Nat : b = k * BlockSize(i)
  BY <1>1, ModMultiple
<1> DEFINE t == 2^i
<1>3. b = k * (Unit * t) /\ t \in Nat
  BY <1>1, <1>2 DEF BlockSize
<1> HIDE DEF t
<1>4. b = (k * t) * Unit /\ k * t \in Nat
  BY <1>1, <1>3
<1> QED BY <1>1, <1>4, ModMultiple

\* A multiple of the unit is not rounded.
LEMMA RoundUpUnit ==
  ASSUME NEW a \in Nat, a % Unit = 0
  PROVE  RoundUp(a) = a
<1>1. Unit \in Nat /\ Unit >= 1
  BY UnitAssumption
<1>2. PICK k \in Nat : a = k * Unit
  BY <1>1, ModMultiple
<1>3. (k * Unit + (Unit - 1)) \div Unit = k
  BY <1>1
<1> QED BY <1>2, <1>3 DEF RoundUp

\* A turn of add_range cuts the start of the range off or leaves it in place.
LEMMA StartCutOrKept ==
  ASSUME IInv, AddRange
  PROVE  addr \in LowNode \cup HighNode \/ (addr' = addr /\ addr' < end')
<1>1. /\ BuddyInv(HeapBase, HeapEnd) /\ Cutting
      /\ HeapBase \in Nat /\ HeapEnd \in Nat /\ HeapEnd < BlockSize(MAX_BUDDY_HEADER_BITS)
  BY HeapBounds DEF IInv, AddRange
<1>2. index \in Levels
  BY <1>1, IndexBound DEF BuddyInv
<1> DEFINE w == BlockSize(index)
<1>3. /\ addr \in Nat /\ end \in Nat /\ addr < end /\ w \in Nat /\ w >= 1
      /\ addr % w = 0 /\ end % w = 0
  BY <1>1, <1>2, LevelSizes DEF BuddyInv, BuddyTypeOK, RangeAligned, Cutting
<1>4. /\ addr' = LowEnd(addr, w) /\ end' = HighEnd(end, w)
      /\ LowNode = IF Bit(addr, w) THEN {addr} ELSE {}
      /\ HighNode = IF Bit(end, w) THEN {end - w} ELSE {}
  BY DEF AddRange, LowNode, HighNode, LowEnd, HighEnd
<1> HIDE DEF w
<1>5. LowEnd(addr, w) <= HighEnd(end, w) /\ LowEnd(addr, w) \in Nat /\ HighEnd(end, w) \in Nat
  BY <1>3, CutArithmetic
<1>6. CASE Bit(addr, w)
  BY <1>4, <1>6
<1>7. CASE ~Bit(addr, w)
  <2>1. addr' = addr /\ addr <= end' /\ end' \in Nat
    BY <1>4, <1>5, <1>7 DEF LowEnd
  <2>2. CASE Bit(end, w)
    <3>1. end' = end - w /\ HighNode = {end'}
      BY <1>4, <2>2 DEF HighEnd
    <3> QED BY <1>3, <2>1, <3>1
  <2>3. CASE ~Bit(end, w)
    BY <1>3, <1>4, <2>1, <2>3 DEF HighEnd
  <2> QED BY <2>2, <2>3
<1> QED BY <1>6, <1>7

\* At boot nothing is freed or held.
LEMMA StaleInit == Init => StaleInv
BY DEF Init, StaleInv, Held

\* Every step keeps it.
LEMMA StaleNext ==
  ASSUME IInv, StaleInv, [Next]_vars
  PROVE  StaleInv'
<1>1. CASE Cut
  <2>1. AddRange /\ tagged' = tagged \ (LowNode \cup HighNode)
        /\ UNCHANGED <<pc, cur, live, released>> /\ Held' = Held
    BY <1>1 DEF Cut, Held
  <2>2. addr \in LowNode \cup HighNode \/ (addr' = addr /\ addr' < end')
    BY <2>1, StartCutOrKept
  <2> QED BY <2>1, <2>2 DEF StaleInv, Cutting
<1>2. CASE Return
  <2>1. ~Cutting /\ Held' = Held /\ UNCHANGED <<released, tagged>>
    BY <1>2 DEF Return, Held
  <2> QED BY <2>1 DEF StaleInv
<1>3. CASE MallocReturn
  <2>1. /\ pc = "malloc" /\ Held' = Held
        /\ tagged' \subseteq tagged \cup {cur.mh}
        /\ released' = {r \in released : r.mh # cur.mh}
    BY <1>3 DEF MallocReturn, Held
  <2> QED BY <2>1 DEF StaleInv
<1>4. ASSUME NEW size \in Sizes, Malloc(size) PROVE StaleInv'
  <2> DEFINE n == size + HeaderSize
  <2>1. /\ pc = "idle" /\ pc' = "malloc" /\ cur' = [mh |-> FoundNode(n), size |-> size]
        /\ UNCHANGED <<live, released, tagged>> /\ AllocNode(n)
    BY <1>4 DEF Malloc
  <2>2. n \in Nat /\ Fits(n)
    BY SizesAssumption, HeapAssumption DEF Fits
  <2> HIDE DEF n
  <2>3. /\ FoundIndex(n) \in Levels /\ FoundNode(n) \in header[FoundIndex(n)]
        /\ FoundNode(n) \in Nat
    BY <2>1, <2>2, HeapBounds, AllocNodeKeeps DEF IInv
  <2>4. FoundNode(n) % Unit = 0
    BY <2>3, FreeOnUnit DEF IInv, BuddyInv, FreeAligned
  <2>5. Held' = Held \cup {cur'} /\ cur'.mh % Unit = 0
    BY <2>1, <2>4 DEF Held
  <2> QED BY <2>1, <2>5 DEF StaleInv
<1>5. ASSUME NEW size \in Sizes, MallocRunsOff(size) PROVE StaleInv'
  <2>1. pc = "idle" /\ pc' = "runs_off" /\ UNCHANGED <<live, released, tagged>>
    BY <1>5 DEF MallocRunsOff
  <2> QED BY <2>1 DEF StaleInv, Held
<1>6. ASSUME NEW p \in live, Free(p) PROVE StaleInv'
  <2>1. /\ pc = "idle" /\ pc' = "free" /\ live' = live \ {p} /\ released' = released \cup {p}
        /\ tagged' = tagged
        /\ addr' = RoundUp(p.mh) /\ end' = RoundDown(p.mh + p.size)
    BY <1>6 DEF Free, StartRange, FreeLength
  <2>2. p \in Held /\ p \in Blocks /\ Held' \subseteq Held
    BY <2>1 DEF Held, IInv, TypeOK
  <2>3. p.mh \in Nat /\ p.size \in Nat /\ p.mh % Unit = 0
    BY <2>2, Footprints DEF StaleInv
  <2>4. p.mh + p.size \in Nat
    BY <2>3
  <2>5. addr' = p.mh
    BY <2>1, <2>3, RoundUpUnit
  <2>6. RoundDown(p.mh + p.size) <= p.mh \/ (addr' = p.mh /\ addr' < end')
    <3>1. RoundDown(p.mh + p.size) \in Nat
      BY <2>4, Rounding
    <3> QED BY <2>1, <2>3, <2>5, <3>1
  <2>7. (\A q \in Held : q.mh % Unit = 0)'
    BY <2>2 DEF StaleInv
  <2>8. ASSUME NEW q \in released', q.mh \in tagged'
        PROVE  \/ RoundDown(q.mh + q.size) <= q.mh
               \/ pc' = "free" /\ addr' < end' /\ addr' = q.mh
    BY <2>1, <2>6, <2>8 DEF StaleInv
  <2> QED BY <2>7, <2>8 DEF StaleInv, Cutting, RoundDown
<1>7. CASE UNCHANGED vars
  BY <1>7 DEF vars, StaleInv, Held, Cutting
<1> QED BY <1>1, <1>2, <1>3, <1>4, <1>5, <1>6, <1>7 DEF Next

\* A second free of a pointer whose block was not reissued finds the tag gone or
\* gives nothing to add_range (buddy_alloc.c:218-229).
THEOREM HeapStaleFree == Spec => []StaleFreeHarmless
<1>1. StaleInv => StaleFreeHarmless
  BY DEF StaleInv, StaleFreeHarmless, FreeLength
<1>2. IInv /\ StaleInv /\ [Next]_vars => StaleInv'
  BY StaleNext
<1> QED BY <1>1, <1>2, StaleInit, HeapInvariant, PTL DEF Spec
----------------------------------------------------------------------------
(* The bytes of a range *)

\* Only the calls that cut a range leave one: an idle allocator has none.
QuietInv == pc \in {"idle", "runs_off"} => ~Cutting

\* The blocks of a list are finitely many.
LEMMA ListFinite ==
  ASSUME BuddyInv(HeapBase, HeapEnd), NEW i \in Levels
  PROVE  IsFiniteSet(header[i]) /\ Cardinality(header[i]) \in Nat
<1>1. header[i] \in SUBSET Nat /\ BlockSize(i) \in Nat /\ HeapEnd \in Nat
  BY LevelSizes, HeapBounds DEF BuddyInv, BuddyTypeOK
<1>2. \A b \in header[i] : b + BlockSize(i) <= HeapEnd
  BY DEF BuddyInv, FreeInside
<1>3. \A b \in header[i] : b <= HeapEnd
  BY <1>1, <1>2
<1>4. IsFiniteSet(header[i])
  BY <1>1, <1>3, FS_BoundedSetOfNaturals
<1> QED BY <1>4, FS_CardinalityType

\* A turn of add_range links one block for each end that is cut.
LEMMA CutLinks ==
  ASSUME IInv, Cut
  PROVE  /\ index \in Levels
         /\ Cardinality(header[index] \cup LowNode \cup HighNode) \in Nat
         /\ (Cardinality(header[index] \cup LowNode \cup HighNode) - Cardinality(header[index]))
              * BlockSize(index) = (end - addr) - (end' - addr')
<1>1. /\ BuddyInv(HeapBase, HeapEnd) /\ Cutting /\ AddRange
      /\ HeapBase \in Nat /\ HeapEnd \in Nat /\ HeapEnd < BlockSize(MAX_BUDDY_HEADER_BITS)
  BY HeapBounds DEF IInv, Cut, AddRange
<1>2. index \in Levels
  BY <1>1, IndexBound DEF BuddyInv
<1> DEFINE w == BlockSize(index)
           S == header[index]
<1>3. /\ addr \in Nat /\ end \in Nat /\ addr < end /\ w \in Nat /\ w >= 1
      /\ addr % w = 0 /\ end % w = 0
  BY <1>1, <1>2, LevelSizes DEF BuddyInv, BuddyTypeOK, RangeAligned, Cutting
<1>4. IsFiniteSet(S) /\ Cardinality(S) \in Nat /\ S \subseteq Nat
  BY <1>1, <1>2, ListFinite DEF BuddyInv, BuddyTypeOK
<1>5. \A b \in S : Apart(b, b + w, addr, end)
  BY <1>1, <1>2 DEF BuddyInv, RangeApartFromFree
<1>6. /\ addr' = LowEnd(addr, w) /\ end' = HighEnd(end, w)
      /\ LowNode = IF Bit(addr, w) THEN {addr} ELSE {}
      /\ HighNode = IF Bit(end, w) THEN {end - w} ELSE {}
  BY <1>1 DEF AddRange, LowNode, HighNode, LowEnd, HighEnd
<1> HIDE DEF w, S
<1>7. LowEnd(addr, w) <= HighEnd(end, w) /\ addr <= LowEnd(addr, w) /\ w <= end
      /\ LowEnd(addr, w) \in Nat /\ HighEnd(end, w) \in Nat
  BY <1>3, CutArithmetic
<1>8. addr \notin S
  BY <1>3, <1>4, <1>5 DEF Apart
<1> DEFINE T == S \cup LowNode
           t == IF Bit(addr, w) THEN 1 ELSE 0
           U == T \cup HighNode
           u == IF Bit(end, w) THEN 1 ELSE 0
<1>9. IsFiniteSet(T) /\ Cardinality(T) = Cardinality(S) + t
  <2>1. CASE Bit(addr, w)
    BY <1>4, <1>6, <1>8, <2>1, FS_AddElement
  <2>2. CASE ~Bit(addr, w)
    <3>1. T = S /\ t = 0
      BY <1>6, <2>2
    <3> QED BY <1>4, <3>1
  <2> QED BY <2>1, <2>2
<1>10. Bit(end, w) => end - w \notin T
  <2> SUFFICES ASSUME Bit(end, w), end - w \in T PROVE FALSE
    OBVIOUS
  <2>1. end - w \in Nat /\ HighEnd(end, w) = end - w /\ addr <= end - w
    BY <1>3, <1>7 DEF HighEnd
  <2>2. end - w \notin S
    BY <1>3, <1>4, <1>5, <2>1 DEF Apart
  <2>3. Bit(addr, w) => LowEnd(addr, w) = addr + w
    BY DEF LowEnd
  <2>4. end - w \notin LowNode
    BY <1>3, <1>6, <1>7, <2>1, <2>3
  <2> QED BY <2>2, <2>4
<1> HIDE DEF T
<1>11. Cardinality(U) = Cardinality(T) + u
  <2>1. CASE Bit(end, w)
    BY <1>6, <1>9, <1>10, <2>1, FS_AddElement
  <2>2. CASE ~Bit(end, w)
    <3>1. U = T /\ u = 0
      BY <1>6, <2>2
    <3>2. Cardinality(T) \in Nat
      BY <1>9, FS_CardinalityType
    <3> QED BY <3>1, <3>2
  <2> QED BY <2>1, <2>2
<1> HIDE DEF U
<1>12. t \in {0, 1} /\ u \in {0, 1}
  OBVIOUS
<1>13. addr' = addr + t * w /\ end' = end - u * w
  BY <1>3, <1>6 DEF LowEnd, HighEnd
<1> HIDE DEF t, u
<1>14. Cardinality(U) = Cardinality(S) + t + u
  BY <1>4, <1>9, <1>11
<1>15. (Cardinality(U) - Cardinality(S)) * w = t * w + u * w
  BY <1>3, <1>4, <1>12, <1>14
<1>16. (end - addr) - (end' - addr') = t * w + u * w
  BY <1>3, <1>12, <1>13
<1>17. Cardinality(U) \in Nat
  BY <1>4, <1>12, <1>14
<1> QED BY <1>2, <1>15, <1>16, <1>17 DEF U, T, S, w

\* A turn of add_range puts on the lists what it takes from the range.
LEMMA CutMoves ==
  ASSUME IInv, Cut
  PROVE  FreeBytes' + (end' - addr') = FreeBytes + (end - addr)
<1>1. BuddyInv(HeapBase, HeapEnd) /\ BuddyInv(HeapBase, HeapEnd)'
  BY CutKeeps DEF IInv
<1> DEFINE n == MAX_BUDDY_HEADER_BITS
           U == header[index] \cup LowNode \cup HighNode
           h == [i \in Levels |-> Cardinality(header[i]) * BlockSize(i)]
           g == [i \in Levels |-> Cardinality(header'[i]) * BlockSize(i)]
<1>2. /\ index \in Levels /\ Cardinality(U) \in Nat
      /\ (Cardinality(U) - Cardinality(header[index])) * BlockSize(index)
           = (end - addr) - (end' - addr')
  BY CutLinks
<1>3. /\ header \in [Levels -> SUBSET Nat] /\ header' = [header EXCEPT ![index] = U]
      /\ addr \in Nat /\ end \in Nat /\ addr' \in Nat /\ end' \in Nat
  BY <1>1 DEF BuddyInv, BuddyTypeOK, Cut, AddRange
<1> HIDE DEF U
<1>4. header'[index] = U /\ \A i \in Levels : i # index => header'[i] = header[i]
  BY <1>2, <1>3
<1>5. \A i \in Levels : Cardinality(header[i]) \in Nat /\ BlockSize(i) \in Nat
  BY <1>1, ListFinite, LevelSizes
<1>6. \A i \in Levels : Cardinality(header'[i]) \in Nat
  BY <1>2, <1>4, <1>5
<1>7. h \in [Levels -> Int]
  BY <1>5
<1>8. g \in [Levels -> Int]
  BY <1>5, <1>6
<1>9. /\ h[index] = Cardinality(header[index]) * BlockSize(index)
      /\ g[index] = Cardinality(U) * BlockSize(index)
      /\ \A i \in Levels : i # index => g[i] = h[i]
  BY <1>2, <1>4
<1>10. FreeBytes = SumTo(h, n) /\ FreeBytes' = SumTo(g, n)
  BY Zenon DEF FreeBytes
<1>11. n \in Nat /\ Levels = 0 .. n - 1
  BY UnitAssumption DEF Levels
<1> HIDE DEF h, g, n
<1>12. SumTo(h, n) \in Int /\ SumTo(g, n) = SumTo(h, n) + (g[index] - h[index])
  BY <1>2, <1>7, <1>8, <1>9, <1>11, SumUpdate
<1>13. g[index] - h[index] = (Cardinality(U) - Cardinality(header[index])) * BlockSize(index)
  BY <1>2, <1>5, <1>9
<1>14. g[index] - h[index] = (end - addr) - (end' - addr') /\ g[index] \in Int /\ h[index] \in Int
  BY <1>2, <1>7, <1>8, <1>13
<1> QED BY <1>3, <1>10, <1>12, <1>14

\* No call other than those of add_range finds a range.
LEMMA QuietInit == Init => QuietInv
BY DEF Init, QuietInv

\* Every step keeps that an idle allocator has no range.
LEMMA QuietNext ==
  ASSUME QuietInv, [Next]_vars
  PROVE  QuietInv'
BY DEF QuietInv, Next, Cut, AddRange, Return, Malloc, MallocRunsOff, MallocReturn, Free,
       Cutting, vars

\* Each turn of add_range moves bytes from the range to the lists and neither loses
\* nor doubles one (buddy_alloc.c:92-110).
THEOREM HeapCutConserves == Spec => CutConserves
<1>1. QuietInv /\ [Next]_vars => QuietInv'
  BY QuietNext
<1>2. IInv /\ QuietInv /\ [Next]_vars
        => [Cutting => FreeBytes' + (end' - addr') = FreeBytes + (end - addr)]_vars
  <2> SUFFICES ASSUME IInv, QuietInv, Next, Cutting
               PROVE  FreeBytes' + (end' - addr') = FreeBytes + (end - addr)
    OBVIOUS
  <2>1. Cut
    BY DEF QuietInv, Next, Return, Malloc, MallocRunsOff, MallocReturn, Free
  <2> QED BY <2>1, CutMoves
<1> QED BY <1>1, <1>2, QuietInit, HeapInvariant, PTL DEF Spec, CutConserves

----------------------------------------------------------------------------
(* The frame allocator *)

\* The lowest byte the allocator works with: what add_frame_range makes of the end of
\* the image before it rounds.
Floor(m) == IF m.base <= m.kernel /\ m.kernel < m.end THEN m.kernel ELSE m.base

PagesAbove == \A k \in DOMAIN pages : Floor(map) <= pages[k].page /\ PageEnd(pages[k]) <= map.end

\* The inductive invariant: the lists and the range (BuddyInv) lie between the floor and
\* the end of the memory, as do the pages handed out, which are apart from them and
\* from each other.
FrameInv ==
  /\ FrameTypeOK
  /\ BuddyInv(Floor(map), map.end)
  /\ PagesApart
  /\ PagesAbove
  /\ PageAligned

\* What MapsAssumption says of the memory that add_frame_range is given.
LEMMA MapBounds ==
  ASSUME NEW m \in Maps
  PROVE  /\ Floor(m) \in Nat /\ m.end \in Nat /\ m.end < BlockSize(MAX_BUDDY_HEADER_BITS)
         /\ FrameStart(m) \in Nat /\ Floor(m) <= FrameStart(m)
<1>1. m.base \in Nat /\ m.end \in Nat /\ m.kernel \in Nat /\ m.end < BlockSize(MAX_BUDDY_HEADER_BITS)
  BY MapsAssumption
<1>2. RoundUp(m.kernel) \in Nat /\ m.kernel <= RoundUp(m.kernel)
  BY <1>1, Rounding
<1> QED BY <1>1, <1>2 DEF Floor, FrameStart

\* A request of whole pages fits a level (CountsAssumption).
LEMMA PageSizes ==
  ASSUME NEW c \in Counts
  PROVE  /\ c * Unit \in Nat /\ Fits(c * Unit)
         /\ AllocSize(c * Unit) \in Nat /\ c * Unit <= AllocSize(c * Unit)
         /\ c * Unit >= 1
<1>1. c \in Nat /\ Unit \in Nat /\ Fits(c * Unit)
  BY CountsAssumption, UnitAssumption DEF Fits
<1>2. c * Unit \in Nat
  BY <1>1
<1>3. c * Unit >= 1
  <2>1. PICK l \in 3 .. MaxLvl : c * Unit <= 2^l /\ 2^(l - 1) < c * Unit
    BY CountsAssumption
  <2>2. l - 1 \in 0 .. MaxLvl
    BY UnitAssumption DEF MaxLvl
  <2>3. 2^(l - 1) \in Nat
    BY <2>2, PowerAssumption
  <2> QED BY <1>2, <2>1, <2>3
<1> QED BY <1>1, <1>2, <1>3, Levelling

\* A block aligned to its own size is aligned to a page.
LEMMA BlockIsPageAligned ==
  ASSUME NEW i \in Levels, NEW b \in Nat, b % BlockSize(i) = 0
  PROVE  b % Unit = 0
<1>1. Unit \in Nat /\ Unit >= 1 /\ BlockSize(i) \in Nat /\ BlockSize(i) >= 1
  BY UnitAssumption, LevelSizes
<1>2. PICK k \in Nat : b = k * BlockSize(i)
  BY <1>1, ModMultiple
<1>3. i \in 0 .. MaxLvl
  BY UnitAssumption DEF Levels, MaxLvl
<1>4. 2^i \in Nat
  BY <1>3, PowerAssumption
<1> DEFINE j == k * 2^i
<1>5. j \in Nat /\ b = j * Unit
  BY <1>1, <1>2, <1>4 DEF BlockSize
<1> HIDE DEF j
<1> QED BY <1>1, <1>5, ModMultiple

\* A turn of add_range stays away from the pages handed out.
LEMMA FrameCutKeeps ==
  ASSUME FrameInv, FrameCut
  PROVE  FrameInv'
<1>1. map \in Maps /\ map' = map /\ stage' = stage /\ pages' = pages /\ pages \in Seq(Pages)
  BY DEF FrameInv, FrameTypeOK, FrameCut
<1>2. PICK lo \in Nat, hi \in Nat :
        lo = Floor(map) /\ hi = map.end /\ hi < BlockSize(MAX_BUDDY_HEADER_BITS)
  BY <1>1, MapBounds
<1>3. BuddyInv(lo, hi) /\ AddRange
  BY <1>2 DEF FrameInv, FrameCut
<1>4. /\ BuddyInv(lo, hi)'
      /\ \A i \in Levels : \A b \in header'[i] :
           b \in header[i] \/ (addr <= b /\ b + BlockSize(i) <= end)
      /\ addr <= addr' /\ end' <= end
  BY <1>2, <1>3, AddRangeKeeps
<1>5. Floor(map)' = lo /\ (map.end)' = hi
  BY <1>1, <1>2
<1>6. BuddyInv(Floor(map), map.end)'
  BY <1>4, <1>5 DEF BuddyInv, FreeInside, RangeInside
<1>7. addr < end /\ addr \in Nat /\ end \in Nat /\ addr' \in Nat /\ end' \in Nat
  BY <1>3, <1>4 DEF AddRange, Cutting, BuddyInv, BuddyTypeOK
<1>8. FrameTypeOK'
  BY <1>1, <1>6 DEF FrameInv, FrameTypeOK, BuddyInv
<1>9. PagesApart'
  <2> SUFFICES ASSUME NEW k \in DOMAIN pages
               PROVE  /\ \A i \in Levels : \A b \in header'[i] :
                           Apart(pages[k].page, PageEnd(pages[k]), b, b + BlockSize(i))
                      /\ Apart(pages[k].page, PageEnd(pages[k]), addr', end')
    BY <1>1 DEF FrameInv, PagesApart, PageEnd
  <2>1. Apart(pages[k].page, PageEnd(pages[k]), addr, end)
    BY <1>7 DEF FrameInv, PagesApart, Cutting
  <2>2. pages[k].page \in Nat /\ PageEnd(pages[k]) \in Nat
    <3>1. pages[k] \in Pages
      BY <1>1
    <3> QED BY <3>1, PageSizes DEF Pages, PageEnd
  <2>3. ASSUME NEW i \in Levels, NEW b \in header'[i]
        PROVE  Apart(pages[k].page, PageEnd(pages[k]), b, b + BlockSize(i))
    <3>1. CASE b \in header[i]
      BY <3>1 DEF FrameInv, PagesApart
    <3>2. CASE addr <= b /\ b + BlockSize(i) <= end
      <4>1. b \in Nat /\ BlockSize(i) \in Nat
        BY <1>6, LevelSizes DEF BuddyInv, BuddyTypeOK
      <4> QED BY <1>7, <2>1, <2>2, <3>2, <4>1 DEF Apart
    <3> QED BY <1>4, <3>1, <3>2
  <2>4. Apart(pages[k].page, PageEnd(pages[k]), addr', end')
    BY <1>4, <1>7, <2>1, <2>2 DEF Apart
  <2> QED BY <2>3, <2>4
<1>10. PagesAbove'
  BY <1>1, <1>6 DEF FrameInv, PagesAbove, BuddyInv, PageEnd
<1>11. PageAligned'
  BY <1>1 DEF FrameInv, PageAligned
<1> QED BY <1>6, <1>8, <1>9, <1>10, <1>11 DEF FrameInv

\* kalloc takes a block off its list; the pages it returns start that block.
LEMMA KallocKeeps ==
  ASSUME FrameInv, NEW count \in Counts, Kalloc(count)
  PROVE  FrameInv'
<1> DEFINE n == count * Unit
           x == FoundNode(n)
           i == FoundIndex(n)
           p == [page |-> x, count |-> count, word |-> NextWord(i, x)]
<1>1. map \in Maps /\ map' = map /\ stage' = "kalloc" /\ pages' = Append(pages, p) /\ pages \in Seq(Pages)
  BY DEF FrameInv, FrameTypeOK, Kalloc
<1>2. PICK lo \in Nat, hi \in Nat :
        lo = Floor(map) /\ hi = map.end /\ hi < BlockSize(MAX_BUDDY_HEADER_BITS)
  BY <1>1, MapBounds
<1>3. BuddyInv(lo, hi) /\ AllocNode(n)
  BY <1>2 DEF FrameInv, Kalloc
<1>4. n \in Nat /\ Fits(n) /\ AllocSize(n) \in Nat /\ n <= AllocSize(n) /\ n >= 1
  BY PageSizes
<1> HIDE DEF n
<1>5. /\ BuddyInv(lo, hi)'
      /\ i \in Levels /\ x \in header[i] /\ x \in Nat
      /\ AllocSize(n) <= BlockSize(i)
      /\ \A j \in Levels : header'[j] \subseteq header[j]
      /\ \A j \in Levels : \A b \in header'[j] :
           Apart(b, b + BlockSize(j), x, x + BlockSize(i))
      /\ x + AllocSize(n) <= addr'
      /\ end' <= x + BlockSize(i)
  BY <1>2, <1>3, <1>4, AllocNodeKeeps
<1>6. NextWord(i, x) \in Nat
  <2>1. {b \in header[i] : b > x} \subseteq Nat
    BY <1>3, <1>5 DEF BuddyInv, BuddyTypeOK
  <2> QED BY <2>1, MinNat DEF NextWord, NULL
<1> HIDE DEF x, i
<1>7. p \in Pages /\ p.page = x /\ PageEnd(p) = x + n
  BY <1>5, <1>6 DEF Pages, PageEnd, n
<1> HIDE DEF p
<1>8. /\ BlockSize(i) \in Nat /\ addr' \in Nat /\ end' \in Nat
      /\ header \in [Levels -> SUBSET Nat] /\ header' \in [Levels -> SUBSET Nat]
  BY <1>3, <1>5, LevelSizes DEF BuddyInv, BuddyTypeOK
<1>9. BuddyInv(Floor(map), map.end)'
  <2>1. Floor(map)' = lo /\ (map.end)' = hi
    BY <1>1, <1>2
  <2> QED BY <1>5, <2>1 DEF BuddyInv, FreeInside, RangeInside
\* The old pages keep their places and p comes last.
<1>10. /\ pages' \in Seq(Pages)
       /\ DOMAIN pages' = DOMAIN pages \cup {Len(pages) + 1}
       /\ Len(pages) + 1 \notin DOMAIN pages
       /\ \A k \in DOMAIN pages : pages'[k] = pages[k] /\ pages[k] \in Pages
       /\ pages'[Len(pages) + 1] = p
  BY <1>1, <1>7
<1>11. FrameTypeOK'
  BY <1>1, <1>9, <1>10 DEF FrameInv, FrameTypeOK, BuddyInv
<1>12. ASSUME NEW k \in DOMAIN pages
       PROVE  /\ pages[k].page \in Nat /\ PageEnd(pages[k]) \in Nat
              /\ Apart(pages[k].page, PageEnd(pages[k]), x, x + BlockSize(i))
  <2>1. pages[k].page \in Nat /\ PageEnd(pages[k]) \in Nat
    BY <1>10, PageSizes DEF Pages, PageEnd
  <2>2. Apart(pages[k].page, PageEnd(pages[k]), x, x + BlockSize(i))
    BY <1>5 DEF FrameInv, PagesApart
  <2> QED BY <2>1, <2>2
<1>13. PagesApart'
  <2>1. ASSUME NEW j \in Levels, NEW b \in header'[j]
        PROVE  Apart(x, x + n, b, b + BlockSize(j))
    <3>1. b \in Nat /\ BlockSize(j) \in Nat
      BY <1>8, LevelSizes
    <3>2. Apart(b, b + BlockSize(j), x, x + BlockSize(i))
      BY <1>5
    <3> QED BY <1>4, <1>5, <1>8, <3>1, <3>2 DEF Apart
  <2>2. Apart(x, x + n, addr', end')
    BY <1>4, <1>5, <1>8 DEF Apart
  <2>3. ASSUME NEW k \in DOMAIN pages
        PROVE  /\ \A j \in Levels : \A b \in header'[j] :
                    Apart(pages[k].page, PageEnd(pages[k]), b, b + BlockSize(j))
               /\ Apart(pages[k].page, PageEnd(pages[k]), addr', end')
               /\ Apart(pages[k].page, PageEnd(pages[k]), x, x + n)
               /\ Apart(x, x + n, pages[k].page, PageEnd(pages[k]))
               /\ \A l \in DOMAIN pages : l # k =>
                    Apart(pages[k].page, PageEnd(pages[k]), pages[l].page, PageEnd(pages[l]))
    <3>1. \A j \in Levels : \A b \in header'[j] :
             Apart(pages[k].page, PageEnd(pages[k]), b, b + BlockSize(j))
      BY <1>5 DEF FrameInv, PagesApart
    <3>2. /\ Apart(pages[k].page, PageEnd(pages[k]), addr', end')
          /\ Apart(pages[k].page, PageEnd(pages[k]), x, x + n)
          /\ Apart(x, x + n, pages[k].page, PageEnd(pages[k]))
      BY <1>4, <1>5, <1>8, <1>12 DEF Apart
    <3>3. \A l \in DOMAIN pages : l # k =>
             Apart(pages[k].page, PageEnd(pages[k]), pages[l].page, PageEnd(pages[l]))
      BY DEF FrameInv, PagesApart
    <3> QED BY <3>1, <3>2, <3>3
  <2>4. ASSUME NEW k \in DOMAIN pages'
        PROVE  /\ \A l \in DOMAIN pages' : l # k =>
                    Apart(pages'[k].page, PageEnd(pages'[k]), pages'[l].page, PageEnd(pages'[l]))
               /\ \A j \in Levels : \A b \in header'[j] :
                    Apart(pages'[k].page, PageEnd(pages'[k]), b, b + BlockSize(j))
               /\ Apart(pages'[k].page, PageEnd(pages'[k]), addr', end')
    <3>1. CASE k \in DOMAIN pages
      BY <1>7, <1>10, <2>3, <3>1
    <3>2. CASE k = Len(pages) + 1
      BY <1>7, <1>10, <2>1, <2>2, <2>3, <3>2
    <3> QED BY <1>10, <3>1, <3>2
  <2> QED BY <2>4 DEF PagesApart, PageEnd
<1>14. PagesAbove'
  <2>1. Floor(map) <= x /\ x + BlockSize(i) <= map.end
    BY <1>2, <1>3, <1>5 DEF BuddyInv, FreeInside
  <2>2. Floor(map) <= p.page /\ PageEnd(p) <= map.end
    BY <1>2, <1>4, <1>5, <1>7, <1>8, <2>1
  <2>3. \A k \in DOMAIN pages : Floor(map) <= pages[k].page /\ PageEnd(pages[k]) <= map.end
    BY DEF FrameInv, PagesAbove
  <2>4. \A k \in DOMAIN pages' : Floor(map) <= pages'[k].page /\ PageEnd(pages'[k]) <= map.end
    BY <1>10, <2>2, <2>3
  <2> QED BY <1>1, <1>9, <2>4 DEF PagesAbove, BuddyInv, PageEnd
<1>15. PageAligned'
  <2>1. x % Unit = 0
    BY <1>3, <1>5, BlockIsPageAligned DEF BuddyInv, FreeAligned
  <2> QED BY <1>7, <1>10, <2>1 DEF FrameInv, PageAligned
<1> QED BY <1>9, <1>11, <1>13, <1>14, <1>15 DEF FrameInv

\* The steps that touch neither the lists nor the pages.
LEMMA FrameQuietKeeps ==
  ASSUME FrameInv, UNCHANGED <<header, addr, end, index, map, pages>>,
         stage' \in {"idle", "runs_off", stage}
  PROVE  FrameInv'
<1>1. BuddyInv(Floor(map), map.end)'
  BY DEF FrameInv, BuddyInv, BuddyTypeOK, FreeApart, RangeApartFromFree, FreeAligned,
         RangeAligned, FreeInside, RangeInside, Cutting
<1>2. FrameTypeOK'
  BY <1>1 DEF FrameInv, FrameTypeOK, BuddyInv
<1>3. PagesApart' /\ PageAligned'
  BY DEF FrameInv, PagesApart, PageAligned, PageEnd, Cutting
<1>4. PagesAbove'
  BY <1>1 DEF FrameInv, PagesAbove, BuddyInv, PageEnd
<1> QED BY <1>1, <1>2, <1>3, <1>4 DEF FrameInv

\* cmain starts in the invariant: empty lists, no page, a rounded range to cut.
LEMMA FrameInitEstablishes == FrameInit => FrameInv
<1> SUFFICES ASSUME FrameInit PROVE FrameInv
  OBVIOUS
<1>1. /\ map \in Maps /\ header = [i \in Levels |-> {}] /\ index = 0 /\ stage = "boot"
      /\ pages = << >>
  BY DEF FrameInit
<1>2. Floor(map) \in Nat /\ map.end \in Nat /\ FrameStart(map) \in Nat /\ Floor(map) <= FrameStart(map)
  BY <1>1, MapBounds
<1>3. /\ addr \in Nat /\ FrameStart(map) <= addr /\ addr % Unit = 0
      /\ end \in Nat /\ end <= map.end /\ end % Unit = 0
  BY <1>2, Rounding DEF FrameInit
<1>4. BuddyInv(Floor(map), map.end)
  <2>1. BuddyTypeOK
    BY <1>1, <1>3, UnitAssumption DEF BuddyTypeOK
  <2>2. FreeApart /\ FreeAligned /\ FreeInside(Floor(map), map.end) /\ RangeApartFromFree
    BY <1>1 DEF FreeApart, FreeAligned, FreeInside, RangeApartFromFree
  <2>3. RangeAligned
    BY <1>1, <1>3, BlockSizes DEF RangeAligned
  <2>4. RangeInside(Floor(map), map.end)
    BY <1>2, <1>3 DEF RangeInside
  <2> QED BY <2>1, <2>2, <2>3, <2>4 DEF BuddyInv
<1>5. pages \in Seq(Pages) /\ DOMAIN pages = {}
  BY <1>1
<1> QED
  BY <1>1, <1>4, <1>5 DEF FrameInv, FrameTypeOK, BuddyInv, PagesApart, PagesAbove, PageAligned

\* Every step keeps it, one case per action.
LEMMA FrameNextKeeps == FrameInv /\ [FrameNext]_frameVars => FrameInv'
<1> SUFFICES ASSUME FrameInv, [FrameNext]_frameVars PROVE FrameInv'
  OBVIOUS
<1>1. CASE FrameCut
  BY <1>1, FrameCutKeeps
<1>2. CASE FrameReturn
  BY <1>2, FrameQuietKeeps DEF FrameReturn
<1>3. ASSUME NEW count \in Counts, Kalloc(count) PROVE FrameInv'
  BY <1>3, KallocKeeps
<1>4. ASSUME NEW count \in Counts, KallocRunsOff(count) PROVE FrameInv'
  BY <1>4, FrameQuietKeeps DEF KallocRunsOff
<1>5. CASE UNCHANGED frameVars
  BY <1>5, FrameQuietKeeps DEF frameVars
<1> QED BY <1>1, <1>2, <1>3, <1>4, <1>5 DEF FrameNext

\* Along every behaviour of the frame allocator the inductive invariant holds.
THEOREM FrameInvariant == FrameSpec => []FrameInv
<1>1. FrameInv /\ [FrameNext]_frameVars => FrameInv'
  BY FrameNextKeeps
<1> QED BY <1>1, FrameInitEstablishes, PTL DEF FrameSpec

\* No page is handed out twice, is still on a free list or is being cut
\* (kalloc, alloc_node and add_range, buddy_alloc.c:92-170).
THEOREM FramesApart == FrameSpec => []PagesApart
<1>1. FrameInv => PagesApart
  BY DEF FrameInv
<1> QED BY <1>1, FrameInvariant, PTL

\* Between the floor and the end of the memory nothing of the image is left, unless the
\* memory ends where the image ends.
LEMMA FloorClearsImage ==
  ASSUME NEW m \in Maps, m.kernel # m.end,
         NEW a \in Nat, NEW b \in Nat, Floor(m) <= a, b <= m.end
  PROVE  m.base <= a /\ b <= m.end /\ Apart(a, b, m.image, m.kernel)
<1>1. /\ m.base \in Nat /\ m.end \in Nat /\ m.image \in Nat /\ m.kernel \in Nat
      /\ m.base <= m.end /\ m.image < m.kernel
      /\ \/ m.base <= m.image /\ m.kernel <= m.end
         \/ Apart(m.base, m.end, m.image, m.kernel)
  BY MapsAssumption
<1>2. CASE m.base <= m.image /\ m.kernel <= m.end
  BY <1>1, <1>2 DEF Floor, Apart
<1>3. CASE Apart(m.base, m.end, m.image, m.kernel)
  BY <1>1, <1>3 DEF Floor, Apart
<1> QED BY <1>1, <1>2, <1>3

\* No page handed out, no block that may become one and no part of the range being cut
\* lies outside the board's memory or touches the kernel image (add_frame_range,
\* buddy_alloc.c:153-160), on every board whose memory does not end exactly where the
\* image ends; on one that does the code hands out the image (MCFrameFull).
THEOREM FramesOutsideImage ==
  ASSUME \A m \in Maps : m.kernel # m.end
  PROVE  FrameSpec => []OutsideImage
<1>1. ASSUME FrameInv PROVE OutsideImage
  <2>1. map \in Maps /\ map.kernel # map.end
    BY <1>1 DEF FrameInv, FrameTypeOK
  <2>2. ASSUME NEW i \in Levels, NEW b \in header[i] PROVE InMemory(b, b + BlockSize(i))
    <3>1. /\ b \in Nat /\ BlockSize(i) \in Nat
          /\ Floor(map) <= b /\ b + BlockSize(i) <= map.end
      BY <1>1, <2>2, LevelSizes DEF FrameInv, BuddyInv, BuddyTypeOK, FreeInside
    <3> QED BY <2>1, <3>1, FloorClearsImage DEF InMemory
  <2>3. ASSUME Cutting PROVE InMemory(addr, end)
    <3>1. addr \in Nat /\ end \in Nat /\ Floor(map) <= addr /\ end <= map.end
      BY <1>1, <2>3 DEF FrameInv, BuddyInv, BuddyTypeOK, RangeInside
    <3> QED BY <2>1, <3>1, FloorClearsImage DEF InMemory
  <2>4. ASSUME NEW k \in DOMAIN pages PROVE InMemory(pages[k].page, PageEnd(pages[k]))
    <3>1. pages[k] \in Pages
      BY <1>1 DEF FrameInv, FrameTypeOK
    <3>2. pages[k].page \in Nat /\ PageEnd(pages[k]) \in Nat
      BY <3>1, PageSizes DEF Pages, PageEnd
    <3>3. Floor(map) <= pages[k].page /\ PageEnd(pages[k]) <= map.end
      BY <1>1 DEF FrameInv, PagesAbove
    <3> QED BY <2>1, <3>2, <3>3, FloorClearsImage DEF InMemory
  <2> QED BY <2>2, <2>3, <2>4 DEF OutsideImage
<1> QED BY <1>1, FrameInvariant, PTL

\* kalloc's result is aligned to a page (buddy_alloc.c:163).
THEOREM FramesAligned == FrameSpec => []PageAligned
<1>1. FrameInv => PageAligned
  BY DEF FrameInv
<1> QED BY <1>1, FrameInvariant, PTL
=============================================================================
