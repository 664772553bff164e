--------------------------- MODULE BlockMapProofs ---------------------------
(***************************************************************************)
(* Every block given to the inode is pointed to exactly once, and the map  *)
(* finds for each logical block what was appended there: proofs about the  *)
(* direct pointers and the three trees of BlockMap, for every number of    *)
(* direct pointers, every fan-out and every set of blocks.                 *)
(***************************************************************************)
EXTENDS BlockMap, DataLemmas, FiniteSetTheorems

\* The logical blocks that need an indirect block.
Behind == DirectCount .. block_limits[3] - 1

----------------------------------------------------------------------------
(* Levels and offsets *)

LEMMA Constants ==
  /\ Blocks \subseteq Nat \ {0} /\ IsFiniteSet(Blocks)
  /\ DirectCount \in Nat \ {0} /\ Fanout \in Nat \ {0} /\ BlockSize \in Nat \ {0}
  /\ Null = 0 /\ Null \notin Blocks /\ Ptr = Blocks \cup {Null}
BY BlockMapAssumption DEF Null, Ptr

\* fs->inode_blocks_per_level
LEMMA PerLevelIs ==
  /\ blocks_per_level[0] = 1 /\ blocks_per_level[1] = Fanout
  /\ blocks_per_level[2] = Fanout * Fanout
  /\ blocks_per_level[3] = Fanout * Fanout * Fanout
<1> DEFINE Step(f, l) == IF l = 0 THEN 1 ELSE f[l - 1] * Fanout
           g == [l \in 0 .. 3 |-> IF l = 0 THEN 1 ELSE IF l = 1 THEN Fanout
                                  ELSE IF l = 2 THEN Fanout * Fanout
                                  ELSE Fanout * Fanout * Fanout]
           X == blocks_per_level
<1>1. g = [l \in 0 .. 3 |-> Step(g, l)]
  <2>1. ASSUME NEW l \in 0 .. 3 PROVE g[l] = Step(g, l)
    <3>1. CASE l = 0
      BY <3>1
    <3>2. CASE l = 1
      BY <3>2, Constants
    <3>3. CASE l = 2
      BY <3>3, Constants
    <3>4. CASE l = 3
      BY <3>4, Constants
    <3> QED BY <3>1, <3>2, <3>3, <3>4
  <2> QED BY <2>1
<1>2. X = CHOOSE f : f = [l \in 0 .. 3 |-> Step(f, l)]
  BY Zenon DEF blocks_per_level
<1> HIDE DEF g
<1>3. X = [l \in 0 .. 3 |-> Step(X, l)]
  BY <1>1, <1>2, Zenon
<1> HIDE DEF X
<1>4. \A l \in 0 .. 3 : X[l] = Step(X, l)
  BY <1>3, Zenon
<1>5. X[0] = 1
  BY <1>4
<1>6. X[1] = Fanout
  BY <1>4, <1>5, Constants
<1>7. X[2] = Fanout * Fanout
  BY <1>4, <1>6, Constants
<1>8. X[3] = Fanout * Fanout * Fanout
  BY <1>4, <1>7, Constants
<1> QED BY <1>5, <1>6, <1>7, <1>8 DEF X

\* fs->inode_block_limits
LEMMA LimitsAre ==
  /\ block_limits[0] = DirectCount
  /\ \A l \in 1 .. 3 : block_limits[l] = block_limits[l - 1] + blocks_per_level[l]
<1> DEFINE Step(f, l) == IF l = 0 THEN DirectCount ELSE f[l - 1] + blocks_per_level[l]
           b(l) == blocks_per_level[l]
           g == [l \in 0 .. 3 |-> IF l = 0 THEN DirectCount
                                  ELSE IF l = 1 THEN DirectCount + b(1)
                                  ELSE IF l = 2 THEN (DirectCount + b(1)) + b(2)
                                  ELSE ((DirectCount + b(1)) + b(2)) + b(3)]
           X == block_limits
<1>1. g = [l \in 0 .. 3 |-> Step(g, l)]
  <2>1. ASSUME NEW l \in 0 .. 3 PROVE g[l] = Step(g, l)
    <3>1. CASE l = 0
      BY <3>1
    <3>2. CASE l = 1
      BY <3>2
    <3>3. CASE l = 2
      BY <3>3
    <3>4. CASE l = 3
      BY <3>4
    <3> QED BY <3>1, <3>2, <3>3, <3>4
  <2> QED BY <2>1
<1>2. X = CHOOSE f : f = [l \in 0 .. 3 |-> Step(f, l)]
  BY Zenon DEF block_limits
<1> HIDE DEF g
<1>3. X = [l \in 0 .. 3 |-> Step(X, l)]
  BY <1>1, <1>2, Zenon
<1> HIDE DEF X
<1>4. \A l \in 0 .. 3 : X[l] = Step(X, l)
  BY <1>3, Zenon
<1> QED BY <1>4 DEF X

LEMMA Powers ==
  /\ Fanout * Fanout \in Nat \ {0} /\ Fanout * Fanout * Fanout \in Nat \ {0}
  /\ Fanout * Fanout * Fanout = Fanout * (Fanout * Fanout)
<1>1. Fanout \in Nat /\ Fanout >= 1
  BY Constants
<1>2. Fanout * Fanout >= 1
  BY <1>1
<1> DEFINE s == Fanout * Fanout
<1>3. s \in Nat /\ s >= 1
  BY <1>1, <1>2
<1> HIDE DEF s
<1>4. s * Fanout >= 1 /\ s * Fanout \in Nat /\ s * Fanout = Fanout * s
  BY <1>1, <1>3
<1> QED BY <1>3, <1>4 DEF s

LEMMA LimitsGrow ==
  /\ \A l \in 0 .. 3 : block_limits[l] \in Nat
  /\ block_limits[0] = DirectCount
  /\ block_limits[0] < block_limits[1] /\ block_limits[1] < block_limits[2]
  /\ block_limits[2] < block_limits[3]
<1>1. \A l \in 1 .. 3 : blocks_per_level[l] \in Nat \ {0}
  BY PerLevelIs, Powers, Constants
<1>2. block_limits[0] \in Nat
  BY LimitsAre, Constants
<1>3. block_limits[1] \in Nat /\ block_limits[0] < block_limits[1]
  BY <1>1, <1>2, LimitsAre
<1>4. block_limits[2] \in Nat /\ block_limits[1] < block_limits[2]
  BY <1>1, <1>3, LimitsAre
<1>5. block_limits[3] \in Nat /\ block_limits[2] < block_limits[3]
  BY <1>1, <1>4, LimitsAre
<1> QED BY <1>2, <1>3, <1>4, <1>5, LimitsAre

LEMMA LevelIs ==
  ASSUME NEW i \in Behind
  PROVE  /\ Level(i) \in 1 .. 3 /\ i \in Nat
         /\ block_limits[Level(i) - 1] <= i /\ i < block_limits[Level(i)]
<1> DEFINE S == {l \in 1 .. 3 : i < block_limits[l]}
           m == Level(i)
<1>1. i \in Nat /\ DirectCount <= i /\ i < block_limits[3]
  BY LimitsGrow, Constants DEF Behind
<1>2. S \subseteq Nat /\ 3 \in S
  BY <1>1
<1>3. m \in S /\ \A y \in S : m <= y
  <2>1. m = Min(S)
    BY DEF Level
  <2> HIDE DEF S, m
  <2> QED BY <1>2, <2>1, MinNat
<1> HIDE DEF m
<1>4. m \in 1 .. 3 /\ i < block_limits[m]
  BY <1>3
<1>5. block_limits[m - 1] <= i
  <2>1. CASE m = 1
    BY <1>1, <2>1, LimitsGrow
  <2>2. CASE m # 1
    <3>1. m - 1 \in 1 .. 3 /\ m - 1 \notin S
      BY <1>3, <1>4, <2>2
    <3>2. block_limits[m - 1] \in Nat
      BY <3>1, LimitsGrow
    <3> QED BY <1>1, <3>1, <3>2
  <2> QED BY <2>1, <2>2
<1> QED BY <1>1, <1>4, <1>5 DEF m

LEMMA LevelUnique ==
  ASSUME NEW l \in 1 .. 3, NEW i \in Nat, block_limits[l - 1] <= i, i < block_limits[l]
  PROVE  i \in Behind /\ Level(i) = l
<1>1. i \in Behind
  BY LimitsGrow, Constants DEF Behind
<1>2. /\ Level(i) \in 1 .. 3
      /\ block_limits[Level(i) - 1] <= i /\ i < block_limits[Level(i)]
  BY <1>1, LevelIs
<1> QED BY <1>1, <1>2, LimitsGrow

\* Three digits to the base of the fan-out.
LEMMA Digits ==
  ASSUME NEW a \in Offsets, NEW b \in Offsets, NEW c \in Offsets, NEW x \in Nat,
         x = (a * Fanout + b) * Fanout + c
  PROVE  /\ x \in 0 .. Fanout * Fanout * Fanout - 1
         /\ (x % (1 * Fanout)) \div 1 = c
         /\ (x % (Fanout * Fanout)) \div Fanout = b
         /\ (x % (Fanout * Fanout * Fanout)) \div (Fanout * Fanout) = a
<1> DEFINE n == Fanout
<1>1. n \in Nat \ {0} /\ a \in 0 .. n - 1 /\ b \in 0 .. n - 1 /\ c \in 0 .. n - 1
  BY Constants DEF Offsets
<1>2. n * n \in Nat \ {0} /\ n * n * n \in Nat \ {0} /\ n * n * n = n * (n * n)
  BY Powers
<1> HIDE DEF n
<1>3. a \in Nat /\ b \in Nat /\ c \in Nat /\ a * n \in Nat /\ a * n + b \in Nat
  BY <1>1
<1>4. x % n = c
  BY <1>1, <1>3, DivModUnique, Zenon DEF n
<1>5. b * n + c \in 0 .. n * n - 1
  <2>1. b * n \in Nat /\ b * n + c \in Nat
    BY <1>1, <1>3
  <2>2. (b + 1) * n <= n * n
    BY <1>1, TimesMono
  <2>3. (b + 1) * n = b * n + n
    BY <1>1
  <2> QED BY <1>1, <1>2, <2>1, <2>2, <2>3
<1>6. x = a * (n * n) + (b * n + c)
  <2>1. (a * n + b) * n = (a * n) * n + b * n
    BY <1>1, <1>3
  <2>2. (a * n) * n = a * (n * n)
    BY <1>1, <1>3
  <2>3. b * n \in Nat /\ a * (n * n) \in Nat /\ (a * n) * n \in Nat
    BY <1>1, <1>2, <1>3
  <2> QED BY <1>3, <2>1, <2>2, <2>3 DEF n
<1>7. x % (n * n) = b * n + c
  BY <1>2, <1>3, <1>5, <1>6, DivModUnique, Zenon
<1>8. (x % (n * n)) \div n = b
  <2>1. (b * n + c) \div n = b
    BY <1>1, <1>3, DivModUnique, Zenon
  <2> QED BY <1>7, <2>1
<1> DEFINE y == b * n + c
           s == n * n
<1>9. a * s + y \in 0 .. n * s - 1
  <2>1. a * s \in Nat /\ n * s \in Nat /\ y \in 0 .. s - 1 /\ s \in Nat \ {0}
    BY <1>1, <1>2, <1>3, <1>5
  <2> HIDE DEF s, y
  <2>2. (a + 1) * s <= n * s
    BY <1>1, <2>1, TimesMono
  <2>3. (a + 1) * s = a * s + s
    BY <1>1, <2>1
  <2> QED BY <2>1, <2>2, <2>3
<1>10. x \in 0 .. n * n * n - 1
  BY <1>2, <1>6, <1>9
<1>11. x % (n * n * n) = x
  <2> DEFINE m == n * n * n
  <2>1. m \in Nat \ {0} /\ x \in 0 .. m - 1
    BY <1>2, <1>10
  <2> HIDE DEF m
  <2>2. (0 * m + x) % m = x
    <3>1. 0 \in Nat
      OBVIOUS
    <3> QED BY <2>1, <3>1, DivModUnique, Zenon
  <2>3. 0 * m + x = x
    BY <2>1
  <2> QED BY <2>2, <2>3 DEF m
<1>12. x \div (n * n) = a
  BY <1>2, <1>3, <1>5, <1>6, DivModUnique, Zenon
<1>13. (x % (1 * n)) \div 1 = c
  BY <1>1, <1>3, <1>4
<1> QED BY <1>8, <1>10, <1>11, <1>12, <1>13 DEF n

\* The offsets on the way to a block are the digits of its distance.
LEMMA OffsetsAre ==
  ASSUME NEW l \in 1 .. 3, NEW a \in Offsets, NEW b \in Offsets, NEW c \in Offsets,
         NEW i \in Nat, Level(i) = l,
         i = block_limits[l - 1] + ((a * Fanout + b) * Fanout + c)
  PROVE  OffsetAt(i, 1) = c /\ OffsetAt(i, 2) = b /\ OffsetAt(i, 3) = a
<1> DEFINE x == i - block_limits[l - 1]
<1>1. block_limits[l - 1] \in Nat
  BY LimitsGrow
<1> DEFINE y == (a * Fanout + b) * Fanout + c
<1>2. y \in Nat
  <2>1. a \in Nat /\ b \in Nat /\ c \in Nat /\ Fanout \in Nat
    BY Constants DEF Offsets
  <2>2. a * Fanout \in Nat /\ a * Fanout + b \in Nat
    BY <2>1
  <2>3. (a * Fanout + b) * Fanout \in Nat
    BY <2>1, <2>2
  <2> QED BY <2>1, <2>3
<1>3. x = y /\ x \in Nat
  <2>1. i = block_limits[l - 1] + y
    OBVIOUS
  <2> HIDE DEF y
  <2> QED BY <1>1, <1>2, <2>1
<1>4. /\ (x % (1 * Fanout)) \div 1 = c
      /\ (x % (Fanout * Fanout)) \div Fanout = b
      /\ (x % (Fanout * Fanout * Fanout)) \div (Fanout * Fanout) = a
  <2>1. x = (a * Fanout + b) * Fanout + c
    BY <1>3
  <2> HIDE DEF x, y
  <2> QED BY <1>3, <2>1, Digits
<1>5. /\ OffsetAt(i, 1) = (x % (blocks_per_level[0] * Fanout)) \div blocks_per_level[0]
      /\ OffsetAt(i, 2) = (x % (blocks_per_level[1] * Fanout)) \div blocks_per_level[1]
      /\ OffsetAt(i, 3) = (x % (blocks_per_level[2] * Fanout)) \div blocks_per_level[2]
  <2>1. 1 - 1 = 0 /\ 2 - 1 = 1 /\ 3 - 1 = 2
    OBVIOUS
  <2> QED BY <2>1 DEF OffsetAt
<1> HIDE DEF x, y
<1> QED BY <1>4, <1>5, PerLevelIs

\* What the offsets on the way say of the block.
LEMMA Decode ==
  ASSUME NEW i \in Behind
  PROVE  /\ \A k \in 1 .. 3 : OffsetAt(i, k) \in Offsets
         /\ i = block_limits[Level(i) - 1]
                  + ((OffsetAt(i, 3) * Fanout + OffsetAt(i, 2)) * Fanout + OffsetAt(i, 1))
         /\ Level(i) < 3 => OffsetAt(i, 3) = 0
         /\ Level(i) < 2 => OffsetAt(i, 2) = 0
<1> DEFINE l == Level(i)
           low == block_limits[l - 1]
           x == i - low
           n == Fanout
           q == x \div n
           c == x % n
           a == q \div n
           b == q % n
<1>1. /\ l \in 1 .. 3 /\ i \in Nat
      /\ low <= i /\ i < block_limits[l]
  BY LevelIs
<1>2. n \in Nat \ {0} /\ n * n \in Nat \ {0} /\ n * n * n \in Nat \ {0} /\ n * n * n = n * (n * n)
  BY Powers, Constants
<1>3. low \in Nat /\ l - 1 \in 0 .. 2
  BY <1>1, LimitsGrow
<1>4. x \in Nat /\ i = low + x
  <2> HIDE DEF low
  <2> QED BY <1>1, <1>3
<1>5. /\ l = 1 => x < n
      /\ l = 2 => x < n * n
      /\ x < n * n * n
  <2>1. block_limits[l] = low + blocks_per_level[l] /\ blocks_per_level[l] \in Nat
    BY <1>1, <1>2, LimitsAre, PerLevelIs
  <2>2. x < blocks_per_level[l]
    <3> HIDE DEF low
    <3> QED BY <1>1, <1>3, <2>1
  <2>3. n <= n * n * n /\ n * n <= n * n * n
    <3>1. 1 * n <= n * n
      <4> HIDE DEF n
      <4> QED BY <1>2, TimesMono
    <3> DEFINE s == n * n
    <3>2. 1 * s <= n * s
      <4>1. s \in Nat
        BY <1>2
      <4> HIDE DEF n, s
      <4> QED BY <1>2, <4>1, TimesMono
    <3> QED BY <1>2, <3>1, <3>2
  <2>4. l = 1 \/ l = 2 \/ l = 3
    BY <1>1
  <2>5. /\ blocks_per_level[1] = n /\ blocks_per_level[2] = n * n
        /\ blocks_per_level[3] = n * n * n
    BY PerLevelIs
  <2> HIDE DEF x, n, l
  <2> QED BY <1>2, <1>4, <2>2, <2>3, <2>4, <2>5
<1> HIDE DEF x, low
<1>6. q \in Nat /\ c \in 0 .. n - 1 /\ x = q * n + c
  <2> HIDE DEF n
  <2> QED BY <1>2, <1>4, DivMod
<1>7. a \in Nat /\ b \in 0 .. n - 1 /\ q = a * n + b
  <2> HIDE DEF q, n
  <2> QED BY <1>2, <1>6, DivMod
<1> HIDE DEF a, b, c, q, n
<1>8. a < n
  <2> SUFFICES ASSUME n <= a PROVE FALSE
    BY <1>2, <1>7
  <2>1. n * n <= a * n /\ a * n \in Int
    BY <1>2, <1>7, TimesMono
  <2>2. n * n <= q
    BY <1>2, <1>7, <2>1
  <2>3. (n * n) * n <= q * n /\ q * n \in Int
    BY <1>2, <1>6, <2>2, TimesMono
  <2> QED BY <1>2, <1>4, <1>5, <1>6, <2>3
<1>9. l < 3 => a = 0
  <2> SUFFICES ASSUME l < 3, a # 0 PROVE FALSE
    OBVIOUS
  <2>1. 1 * n <= a * n /\ a * n \in Int
    BY <1>2, <1>7, TimesMono
  <2>2. n <= q
    BY <1>2, <1>7, <2>1
  <2>3. n * n <= q * n /\ q * n \in Int /\ 1 * n <= n * n
    BY <1>2, <1>6, <2>2, TimesMono
  <2> QED BY <1>1, <1>2, <1>4, <1>5, <1>6, <2>3
<1>10. l < 2 => b = 0
  <2> SUFFICES ASSUME l < 2, b # 0 PROVE FALSE
    OBVIOUS
  <2>1. a = 0 /\ q = b
    BY <1>1, <1>2, <1>7, <1>9
  <2>2. 1 * n <= q * n /\ q * n \in Int
    BY <1>2, <1>6, <1>7, <2>1, TimesMono
  <2> QED BY <1>1, <1>2, <1>4, <1>5, <1>6, <2>2
<1>11. a \in Offsets /\ b \in Offsets /\ c \in Offsets
  BY <1>2, <1>6, <1>7, <1>8 DEF Offsets, n
<1>12. x = (a * Fanout + b) * Fanout + c
  BY <1>6, <1>7 DEF n
<1>13. OffsetAt(i, 1) = c /\ OffsetAt(i, 2) = b /\ OffsetAt(i, 3) = a
  <2>1. i = block_limits[l - 1] + ((a * Fanout + b) * Fanout + c)
    BY <1>4, <1>12 DEF low
  <2>2. Level(i) = l
    BY Zenon
  <2> QED BY <1>1, <1>11, <2>1, <2>2, OffsetsAre
<1>14. \A k \in 1 .. 3 : OffsetAt(i, k) \in Offsets
  BY <1>11, <1>13
<1>15. i = block_limits[Level(i) - 1] + ((a * Fanout + b) * Fanout + c)
  BY <1>4, <1>12 DEF low
<1> QED BY <1>9, <1>10, <1>13, <1>14, <1>15

\* Every combination of offsets is a block's.
LEMMA Encode ==
  ASSUME NEW l \in 1 .. 3, NEW a \in Offsets, NEW b \in Offsets, NEW c \in Offsets,
         l < 3 => a = 0, l < 2 => b = 0
  PROVE  \E i \in Behind : /\ Level(i) = l
                           /\ OffsetAt(i, 1) = c /\ OffsetAt(i, 2) = b /\ OffsetAt(i, 3) = a
<1> DEFINE x == (a * Fanout + b) * Fanout + c
           i == block_limits[l - 1] + x
<1>1. /\ Fanout \in Nat \ {0} /\ a \in 0 .. Fanout - 1 /\ b \in 0 .. Fanout - 1
      /\ c \in 0 .. Fanout - 1
  BY Constants DEF Offsets
<1>2. a \in Nat /\ b \in Nat /\ c \in Nat /\ a * Fanout \in Nat /\ a * Fanout + b \in Nat
  BY <1>1
<1>3. x \in Nat
  <2>1. (a * Fanout + b) * Fanout \in Nat
    BY <1>1, <1>2
  <2> QED BY <1>2, <2>1
<1>4. x \in 0 .. Fanout * Fanout * Fanout - 1
  BY <1>3, Digits
<1>5. x < blocks_per_level[l]
  <2>1. CASE l = 1
    <3>1. a * Fanout + b = 0 /\ 0 * Fanout = 0
      BY <1>1, <2>1
    <3> QED BY <1>1, <2>1, <3>1, PerLevelIs
  <2>2. CASE l = 2
    <3>1. a * Fanout + b = b /\ x = b * Fanout + c
      BY <1>1, <2>2
    <3>2. (b + 1) * Fanout <= Fanout * Fanout /\ (b + 1) * Fanout = b * Fanout + Fanout
      BY <1>1, TimesMono
    <3>3. b * Fanout \in Nat /\ Fanout * Fanout \in Nat
      BY <1>1, <1>2
    <3> HIDE DEF x
    <3> QED BY <1>1, <2>2, <3>1, <3>2, <3>3, PerLevelIs
  <2>3. CASE l = 3
    <3> DEFINE m == Fanout * Fanout * Fanout
    <3>1. x \in 0 .. m - 1 /\ m \in Nat /\ blocks_per_level[l] = m
      BY <1>4, <2>3, PerLevelIs, Powers
    <3> HIDE DEF x, m
    <3> QED BY <3>1
  <2> QED BY <2>1, <2>2, <2>3
<1> HIDE DEF x
<1>6. block_limits[l - 1] \in Nat /\ blocks_per_level[l] \in Nat
  BY PerLevelIs, Powers, Constants, LimitsGrow
<1>7. i \in Nat /\ block_limits[l - 1] <= i /\ i < block_limits[l]
  BY <1>3, <1>5, <1>6, LimitsAre
<1>8. i \in Behind /\ Level(i) = l
  BY <1>7, LevelUnique
<1>9. OffsetAt(i, 1) = c /\ OffsetAt(i, 2) = b /\ OffsetAt(i, 3) = a
  <2>1. i = block_limits[l - 1] + ((a * Fanout + b) * Fanout + c)
    BY DEF x
  <2> HIDE DEF i
  <2> QED BY <1>7, <1>8, <2>1, OffsetsAre
<1> QED BY <1>8, <1>9

\* Two blocks whose ways agree are the same.
LEMMA SameWay ==
  ASSUME NEW i \in Behind, NEW j \in Behind, Level(i) = Level(j),
         \A k \in 1 .. Level(i) : OffsetAt(i, k) = OffsetAt(j, k)
  PROVE  i = j
<1>1. Level(i) \in 1 .. 3
  BY LevelIs
<1>2. OffsetAt(i, 1) = OffsetAt(j, 1)
  BY <1>1
<1>3. OffsetAt(i, 2) = OffsetAt(j, 2)
  BY <1>1, Decode
<1>4. OffsetAt(i, 3) = OffsetAt(j, 3)
  BY <1>1, Decode
<1> QED BY <1>2, <1>3, <1>4, Decode

----------------------------------------------------------------------------
(* The trees *)

\* What an indirect block holds at an offset, if there is such a block.
Kid(n, o) == IF n = Null THEN Null ELSE content[n][o]

\* The way to a block.
LEMMA WayIs ==
  \A i \in Behind :
    /\ Way(i)[Level(i)] = indirect[Level(i)]
    /\ \A k \in 0 .. Level(i) - 1 : Way(i)[k] = Kid(Way(i)[k + 1], OffsetAt(i, k + 1))
<1> SUFFICES ASSUME NEW i \in Behind
             PROVE  /\ Way(i)[Level(i)] = indirect[Level(i)]
                    /\ \A k \in 0 .. Level(i) - 1 :
                         Way(i)[k] = Kid(Way(i)[k + 1], OffsetAt(i, k + 1))
  OBVIOUS
<1> DEFINE l == Level(i)
           Step(f, k) == IF k = l THEN indirect[l]
                         ELSE IF f[k + 1] = Null THEN Null
                         ELSE content[f[k + 1]][OffsetAt(i, k + 1)]
           d0 == indirect[l]
           d1 == Kid(d0, OffsetAt(i, l))
           d2 == Kid(d1, OffsetAt(i, l - 1))
           d3 == Kid(d2, OffsetAt(i, l - 2))
           g == [k \in 0 .. l |-> IF k = l THEN d0 ELSE IF k = l - 1 THEN d1
                                  ELSE IF k = l - 2 THEN d2 ELSE d3]
           X == Way(i)
<1>1. l \in 1 .. 3
  BY LevelIs
<1> HIDE DEF l
<1>2. g = [k \in 0 .. l |-> Step(g, k)]
  <2>1. ASSUME NEW k \in 0 .. l PROVE g[k] = Step(g, k)
    <3>1. CASE k = l
      BY <3>1, <1>1
    <3>2. CASE k = l - 1
      <4>1. g[k + 1] = d0 /\ g[k] = d1 /\ k + 1 = l /\ k # l
        BY <3>2, <1>1
      <4> HIDE DEF g, d0
      <4> QED BY <4>1 DEF Kid
    <3>3. CASE k = l - 2
      <4>1. g[k + 1] = d1 /\ g[k] = d2 /\ k + 1 = l - 1 /\ k # l
        BY <3>3, <1>1
      <4> HIDE DEF g, d1
      <4> QED BY <4>1 DEF Kid
    <3>4. CASE k = l - 3
      <4>1. g[k + 1] = d2 /\ g[k] = d3 /\ k + 1 = l - 2 /\ k # l
        BY <3>4, <1>1
      <4> HIDE DEF g, d2
      <4> QED BY <4>1 DEF Kid
    <3> QED BY <1>1, <3>1, <3>2, <3>3, <3>4
  <2> QED BY <2>1
<1>3. X = CHOOSE f : f = [k \in 0 .. l |-> Step(f, k)]
  BY Zenon DEF Way, l
<1> HIDE DEF g
<1>4. X = [k \in 0 .. l |-> Step(X, k)]
  BY <1>2, <1>3, ZenonT(60)
<1> HIDE DEF X
<1>5. \A k \in 0 .. l : X[k] = Step(X, k)
  BY <1>4, Zenon
<1>6. X[l] = indirect[l]
  BY <1>1, <1>5
<1>7. ASSUME NEW k \in 0 .. l - 1 PROVE X[k] = Kid(X[k + 1], OffsetAt(i, k + 1))
  BY <1>1, <1>5 DEF Kid
<1> QED BY <1>6, <1>7 DEF X, l

\* The same of the next state.
LEMMA WayIsNext ==
  (\A i \in Behind :
     /\ Way(i)[Level(i)] = indirect[Level(i)]
     /\ \A k \in 0 .. Level(i) - 1 : Way(i)[k] = Kid(Way(i)[k + 1], OffsetAt(i, k + 1)))'
BY WayIs, PTL

\* The indirect blocks from which so many levels lead down to data.
Tier(k) ==
  IF k = 3 THEN Root(3)
  ELSE IF k = 2 THEN Root(2) \cup Below(Root(3))
  ELSE Root(1) \cup Below(Root(2) \cup Below(Root(3)))

\* One level further down.
LEMMA BelowIs ==
  \A S, n : n \in Below(S) <=> n # Null /\ \E m \in S, o \in Offsets : n = content[m][o]
<1> SUFFICES ASSUME NEW S, NEW n
             PROVE  n \in Below(S) <=> n # Null /\ \E m \in S, o \in Offsets : n = content[m][o]
  OBVIOUS
<1>1. \A m : n \in Entries(m) <=> n # Null /\ \E o \in Offsets : n = content[m][o]
  BY DEF Entries
<1>2. n \in Below(S) <=> \E m \in S : n \in Entries(m)
  BY DEF Below
<1> QED BY <1>1, <1>2, Zenon

LEMMA TiersAre ==
  \A n : /\ n \in Tier(3) <=> n # Null /\ n = indirect[3]
         /\ n \in Tier(2) <=> /\ n # Null
                              /\ \/ n = indirect[2]
                                 \/ \E m \in Tier(3), o \in Offsets : n = content[m][o]
         /\ n \in Tier(1) <=> /\ n # Null
                              /\ \/ n = indirect[1]
                                 \/ \E m \in Tier(2), o \in Offsets : n = content[m][o]
<1>1. \A S, n : n \in Below(S) <=> n # Null /\ \E m \in S, o \in Offsets : n = content[m][o]
  BY BelowIs
<1>2. \A l, n : n \in Root(l) <=> n # Null /\ n = indirect[l]
  BY DEF Root
<1>3. Tier(3) = Root(3)
  BY DEF Tier
<1>4. Tier(2) = Root(2) \cup Below(Tier(3))
  BY <1>3 DEF Tier
<1>5. Tier(1) = Root(1) \cup Below(Tier(2))
  BY DEF Tier
<1> QED BY <1>1, <1>2, <1>3, <1>4, <1>5

LEMMA TiersAreNext ==
  (\A n : /\ n \in Tier(3) <=> n # Null /\ n = indirect[3]
          /\ n \in Tier(2) <=> /\ n # Null
                               /\ \/ n = indirect[2]
                                  \/ \E m \in Tier(3), o \in Offsets : n = content[m][o]
          /\ n \in Tier(1) <=> /\ n # Null
                               /\ \/ n = indirect[1]
                                  \/ \E m \in Tier(2), o \in Offsets : n = content[m][o])'
BY TiersAre, PTL

LEMMA NodesAre ==
  \A n : n \in Nodes <=> n \in Tier(1) \/ n \in Tier(2) \/ n \in Tier(3)
<1>1. \A S, n : n \in Below(S) <=> n # Null /\ \E m \in S, o \in Offsets : n = content[m][o]
  BY BelowIs
<1> DEFINE A == Root(2)
           B == Below(Root(3))
<1>2. \A n : n \in Below(A \cup B) <=> n \in Below(A) \/ n \in Below(B)
  <2> HIDE DEF A, B
  <2> QED BY <1>1
<1>3. /\ Tier(1) = Root(1) \cup Below(A \cup B) /\ Tier(2) = A \cup B /\ Tier(3) = Root(3)
      /\ Nodes = Root(1) \cup A \cup Below(A) \cup Root(3) \cup B \cup Below(B)
  BY DEF Tier, Nodes
<1> HIDE DEF A, B
<1> QED BY <1>2, <1>3

LEMMA NodesAreNext ==
  (\A n : n \in Nodes <=> n \in Tier(1) \/ n \in Tier(2) \/ n \in Tier(3))'
BY NodesAre, PTL

LEMMA NodesTyped ==
  ASSUME TypeOK
  PROVE  Nodes \subseteq Blocks
<1>1. indirect \in [1 .. 3 -> Ptr] /\ content \in [Blocks -> [Offsets -> Ptr]]
  BY DEF TypeOK
<1>2. \A n \in Tier(3) : n \in Blocks
  BY <1>1, TiersAre, Constants
<1>3. \A n \in Tier(2) : n \in Blocks
  <2> TAKE n \in Tier(2)
  <2>1. n # Null
    BY TiersAre
  <2>2. CASE n = indirect[2]
    BY <1>1, <2>1, <2>2, Constants
  <2>3. CASE \E m \in Tier(3), o \in Offsets : n = content[m][o]
    <3>1. PICK m \in Tier(3), o \in Offsets : n = content[m][o]
      BY <2>3
    <3>2. content[m][o] \in Ptr
      BY <1>1, <1>2, <3>1
    <3> QED BY <2>1, <3>1, <3>2, Constants
  <2> QED BY <2>2, <2>3, TiersAre
<1>4. \A n \in Tier(1) : n \in Blocks
  <2> TAKE n \in Tier(1)
  <2>1. n # Null
    BY TiersAre
  <2>2. CASE n = indirect[1]
    BY <1>1, <2>1, <2>2, Constants
  <2>3. CASE \E m \in Tier(2), o \in Offsets : n = content[m][o]
    <3>1. PICK m \in Tier(2), o \in Offsets : n = content[m][o]
      BY <2>3
    <3>2. content[m][o] \in Ptr
      BY <1>1, <1>3, <3>1
    <3> QED BY <2>1, <3>1, <3>2, Constants
  <2> QED BY <2>2, <2>3, TiersAre
<1> QED BY <1>2, <1>3, <1>4, NodesAre

----------------------------------------------------------------------------
(* Slots: the places that hold a pointer *)

Slots ==
  {<<"direct", i, 0>> : i \in 0 .. DirectCount - 1} \cup
  {<<"inode", l, 0>> : l \in 1 .. 3} \cup
  {<<"block", s[1], s[2]>> : s \in Nodes \X Offsets}

Val(s) == IF s[1] = "direct" THEN direct[s[2]]
          ELSE IF s[1] = "inode" THEN indirect[s[2]]
          ELSE content[s[2]][s[3]]

\* No two slots hold the same block.
Once == \A s, t \in Slots : Val(s) # Null /\ Val(s) = Val(t) => s = t

LEMMA SlotsAre ==
  /\ \A i \in 0 .. DirectCount - 1 :
       <<"direct", i, 0>> \in Slots /\ Val(<<"direct", i, 0>>) = direct[i]
  /\ \A l \in 1 .. 3 : <<"inode", l, 0>> \in Slots /\ Val(<<"inode", l, 0>>) = indirect[l]
  /\ \A n, o : <<"block", n, o>> \in Slots <=> n \in Nodes /\ o \in Offsets
  /\ \A n, o : Val(<<"block", n, o>>) = content[n][o]
  /\ \A s \in Slots : \/ \E i \in 0 .. DirectCount - 1 : s = <<"direct", i, 0>>
                      \/ \E l \in 1 .. 3 : s = <<"inode", l, 0>>
                      \/ \E n \in Nodes, o \in Offsets : s = <<"block", n, o>>
<1>1. \A i : Val(<<"direct", i, 0>>) = direct[i]
  BY DEF Val
<1>2. \A l : Val(<<"inode", l, 0>>) = indirect[l]
  BY DEF Val
<1>3. \A n, o : Val(<<"block", n, o>>) = content[n][o]
  BY DEF Val
<1>4. \A i \in 0 .. DirectCount - 1 : <<"direct", i, 0>> \in Slots
  BY DEF Slots
<1>5. \A l \in 1 .. 3 : <<"inode", l, 0>> \in Slots
  BY DEF Slots
<1>6. \A s \in Slots : \/ \E i \in 0 .. DirectCount - 1 : s = <<"direct", i, 0>>
                       \/ \E l \in 1 .. 3 : s = <<"inode", l, 0>>
                       \/ \E n \in Nodes, o \in Offsets : s = <<"block", n, o>>
  <2> TAKE s \in Slots
  <2>1. CASE s \in {<<"block", t[1], t[2]>> : t \in Nodes \X Offsets}
    <3>1. PICK t \in Nodes \X Offsets : s = <<"block", t[1], t[2]>>
      BY <2>1
    <3>2. t[1] \in Nodes /\ t[2] \in Offsets
      BY <3>1
    <3> QED BY <3>1, <3>2
  <2>2. CASE s \in {<<"direct", i, 0>> : i \in 0 .. DirectCount - 1}
    BY <2>2
  <2>3. CASE s \in {<<"inode", l, 0>> : l \in 1 .. 3}
    BY <2>3
  <2> QED BY <2>1, <2>2, <2>3 DEF Slots
<1>7. ASSUME NEW n \in Nodes, NEW o \in Offsets PROVE <<"block", n, o>> \in Slots
  <2>1. <<n, o>> \in Nodes \X Offsets /\ <<n, o>>[1] = n /\ <<n, o>>[2] = o
    OBVIOUS
  <2>2. <<"block", n, o>> \in {<<"block", t[1], t[2]>> : t \in Nodes \X Offsets}
    BY <2>1
  <2> QED BY <2>2 DEF Slots
<1>8. \A n, o : <<"block", n, o>> \in Slots => n \in Nodes /\ o \in Offsets
  <2> SUFFICES ASSUME NEW n, NEW o, <<"block", n, o>> \in Slots
               PROVE  n \in Nodes /\ o \in Offsets
    OBVIOUS
  <2>1. \A i : <<"block", n, o>> # <<"direct", i, 0>> /\ <<"block", n, o>> # <<"inode", i, 0>>
    OBVIOUS
  <2>2. PICK m \in Nodes, p \in Offsets : <<"block", n, o>> = <<"block", m, p>>
    BY <1>6, <2>1
  <2> QED BY <2>2
<1> QED BY <1>1, <1>2, <1>3, <1>4, <1>5, <1>6, <1>7, <1>8

LEMMA SlotsAreNext ==
  (/\ \A i \in 0 .. DirectCount - 1 :
        <<"direct", i, 0>> \in Slots /\ Val(<<"direct", i, 0>>) = direct[i]
   /\ \A l \in 1 .. 3 : <<"inode", l, 0>> \in Slots /\ Val(<<"inode", l, 0>>) = indirect[l]
   /\ \A n, o : <<"block", n, o>> \in Slots <=> n \in Nodes /\ o \in Offsets
   /\ \A n, o : Val(<<"block", n, o>>) = content[n][o]
   /\ \A s \in Slots : \/ \E i \in 0 .. DirectCount - 1 : s = <<"direct", i, 0>>
                       \/ \E l \in 1 .. 3 : s = <<"inode", l, 0>>
                       \/ \E n \in Nodes, o \in Offsets : s = <<"block", n, o>>)'
BY SlotsAre, PTL

\* What Once says of indirect blocks.
LEMMA OnceIs ==
  ASSUME Once
  PROVE  /\ \A l, m \in 1 .. 3 : indirect[l] # Null /\ indirect[l] = indirect[m] => l = m
         /\ \A n, m \in Nodes, o, p \in Offsets :
              content[n][o] # Null /\ content[n][o] = content[m][p] => n = m /\ o = p
         /\ \A l \in 1 .. 3, n \in Nodes, o \in Offsets :
              indirect[l] # Null => indirect[l] # content[n][o]
<1>1. \A s, t \in Slots : Val(s) # Null /\ Val(s) = Val(t) => s = t
  BY DEF Once
<1>2. ASSUME NEW l \in 1 .. 3, NEW m \in 1 .. 3, indirect[l] # Null, indirect[l] = indirect[m]
      PROVE  l = m
  <2>1. <<"inode", l, 0>> = <<"inode", m, 0>>
    BY <1>1, <1>2, SlotsAre
  <2> QED BY <2>1
<1>3. ASSUME NEW n \in Nodes, NEW m \in Nodes, NEW o \in Offsets, NEW p \in Offsets,
             content[n][o] # Null, content[n][o] = content[m][p]
      PROVE  n = m /\ o = p
  <2> DEFINE s == <<"block", n, o>>
             t == <<"block", m, p>>
  <2>1. s \in Slots /\ t \in Slots /\ Val(s) = content[n][o] /\ Val(t) = content[m][p]
    BY SlotsAre
  <2> HIDE DEF s, t
  <2>2. s = t
    BY <1>1, <1>3, <2>1
  <2> QED BY <2>2 DEF s, t
<1>4. ASSUME NEW l \in 1 .. 3, NEW n \in Nodes, NEW o \in Offsets,
             indirect[l] # Null, indirect[l] = content[n][o]
      PROVE  FALSE
  <2> DEFINE s == <<"inode", l, 0>>
             t == <<"block", n, o>>
  <2>1. s \in Slots /\ t \in Slots /\ Val(s) = indirect[l] /\ Val(t) = content[n][o]
    BY SlotsAre
  <2> HIDE DEF s, t
  <2>2. s = t
    BY <1>1, <1>4, <2>1
  <2> QED BY <2>2 DEF s, t
<1> QED BY <1>2, <1>3, <1>4

\* A block is an indirect block of one level only.
LEMMA TiersApart ==
  ASSUME Once
  PROVE  \A n : /\ ~(n \in Tier(1) /\ n \in Tier(2))
                /\ ~(n \in Tier(1) /\ n \in Tier(3))
                /\ ~(n \in Tier(2) /\ n \in Tier(3))
<1>1. \A n : /\ n \in Tier(1) => n \in Nodes
             /\ n \in Tier(2) => n \in Nodes
             /\ n \in Tier(3) => n \in Nodes
  BY NodesAre
<1>one. /\ \A l, m \in 1 .. 3 : indirect[l] # Null /\ indirect[l] = indirect[m] => l = m
        /\ \A n, m \in Nodes, o, p \in Offsets :
             content[n][o] # Null /\ content[n][o] = content[m][p] => n = m /\ o = p
        /\ \A l \in 1 .. 3, n \in Nodes, o \in Offsets :
             indirect[l] # Null => indirect[l] # content[n][o]
  BY OnceIs, Zenon
<1>root. /\ \A l, m \in 1 .. 3 : indirect[l] # Null /\ l # m => indirect[l] # indirect[m]
         /\ 1 \in 1 .. 3 /\ 2 \in 1 .. 3 /\ 1 # 2
  BY <1>one
<1>2. \A n : ~(n \in Tier(2) /\ n \in Tier(3))
  BY <1>1, <1>one, TiersAre
<1>3. \A n : ~(n \in Tier(1) /\ n \in Tier(3))
  BY <1>1, <1>one, TiersAre
<1>4. ASSUME NEW d, d \in Tier(1), d \in Tier(2) PROVE FALSE
  <2>1. d # Null
    BY <1>4, TiersAre
  <2>2. CASE d = indirect[1] /\ d = indirect[2]
    BY <2>1, <2>2, <1>root, Zenon
  <2>3. CASE d = indirect[1] /\ \E m \in Tier(3), o \in Offsets : d = content[m][o]
    <3>1. PICK m \in Tier(3), o \in Offsets : d = content[m][o]
      BY <2>3
    <3>2. m \in Nodes /\ indirect[1] # Null /\ indirect[1] = content[m][o]
      BY <1>1, <2>1, <2>3, <3>1
    <3> QED BY <1>one, <1>root, <3>2
  <2>4. CASE d = indirect[2] /\ \E m \in Tier(2), o \in Offsets : d = content[m][o]
    <3>1. PICK m \in Tier(2), o \in Offsets : d = content[m][o]
      BY <2>4
    <3>2. m \in Nodes /\ indirect[2] # Null /\ indirect[2] = content[m][o]
      BY <1>1, <2>1, <2>4, <3>1
    <3> QED BY <1>one, <1>root, <3>2
  <2>5. CASE /\ \E m \in Tier(3), o \in Offsets : d = content[m][o]
             /\ \E m \in Tier(2), o \in Offsets : d = content[m][o]
    <3>1. PICK m \in Tier(3), o \in Offsets : d = content[m][o]
      BY <2>5
    <3>2. PICK p \in Tier(2), r \in Offsets : d = content[p][r]
      BY <2>5
    <3>3. m = p
      <4>1. m \in Nodes /\ p \in Nodes
        BY <1>1, <3>1, <3>2
      <4>2. content[m][o] # Null /\ content[m][o] = content[p][r]
        BY <2>1, <3>1, <3>2
      <4>3. \A x, y \in Nodes, u, v \in Offsets :
              content[x][u] # Null /\ content[x][u] = content[y][v] => x = y
        BY <1>one
      <4> QED BY <4>3, <3>1, <3>2, <4>1, <4>2
    <3> QED BY <1>2, <3>1, <3>2, <3>3
  <2> QED BY <1>4, <2>2, <2>3, <2>4, <2>5, TiersAre
<1> QED BY <1>2, <1>3, <1>4

\* The way to a block goes through the tiers.
LEMMA WayOnTiers ==
  \A i \in Behind : \A k \in 1 .. Level(i) : Way(i)[k] = Null \/ Way(i)[k] \in Tier(k)
<1> SUFFICES ASSUME NEW i \in Behind
             PROVE  \A k \in 1 .. Level(i) : Way(i)[k] = Null \/ Way(i)[k] \in Tier(k)
  OBVIOUS
<1> DEFINE l == Level(i)
           w == Way(i)
<1>1. l \in 1 .. 3 /\ \A k \in 1 .. 3 : OffsetAt(i, k) \in Offsets
  BY LevelIs, Decode
<1>2. /\ w[l] = indirect[l]
      /\ \A k \in 0 .. l - 1 : w[k] = Kid(w[k + 1], OffsetAt(i, k + 1))
  BY WayIs
<1> HIDE DEF l, w
<1>3. w[l] = Null \/ w[l] \in Tier(l)
  BY <1>1, <1>2, TiersAre
<1>4. ASSUME NEW k \in 1 .. 2, k < l, w[k + 1] = Null \/ w[k + 1] \in Tier(k + 1)
      PROVE  w[k] = Null \/ w[k] \in Tier(k)
  <2>1. w[k] = Kid(w[k + 1], OffsetAt(i, k + 1)) /\ OffsetAt(i, k + 1) \in Offsets
    BY <1>1, <1>2, <1>4
  <2>2. CASE w[k + 1] = Null
    BY <2>1, <2>2 DEF Kid
  <2>3. CASE w[k + 1] # Null
    <3>1. w[k + 1] \in Tier(k + 1) /\ w[k] = content[w[k + 1]][OffsetAt(i, k + 1)]
      BY <1>4, <2>1, <2>3 DEF Kid
    <3>2. CASE k = 1
      BY <2>1, <3>1, <3>2, TiersAre
    <3>3. CASE k = 2
      BY <2>1, <3>1, <3>3, TiersAre
    <3> QED BY <3>2, <3>3
  <2> QED BY <2>2, <2>3
<1>5. l = 3 => w[2] = Null \/ w[2] \in Tier(2)
  BY <1>3, <1>4
<1>6. l >= 2 => w[1] = Null \/ w[1] \in Tier(1)
  <2>1. CASE l = 2
    BY <2>1, <1>3, <1>4
  <2>2. CASE l = 3
    BY <2>2, <1>5, <1>4
  <2> QED BY <1>1, <2>1, <2>2
<1>7. \A k \in 1 .. l : w[k] = Null \/ w[k] \in Tier(k)
  <2> TAKE k \in 1 .. l
  <2> QED BY <1>1, <1>3, <1>5, <1>6
<1> QED BY <1>7 DEF l, w

\* Every slot of a last indirect block is the end of the way to a block.
LEMMA SlotHasBlock ==
  \A n \in Tier(1), o \in Offsets :
    \E i \in Behind : /\ Way(i)[1] = n /\ OffsetAt(i, 1) = o
                      /\ Way(i)[0] = content[n][o]
<1> SUFFICES ASSUME NEW n \in Tier(1), NEW o \in Offsets
             PROVE  \E i \in Behind : /\ Way(i)[1] = n /\ OffsetAt(i, 1) = o
                                      /\ Way(i)[0] = content[n][o]
  OBVIOUS
<1>1. 0 \in Offsets
  BY Constants DEF Offsets
<1>2. n # Null /\ (n = indirect[1] \/ \E m \in Tier(2), p \in Offsets : n = content[m][p])
  BY TiersAre
<1>3. ASSUME NEW i \in Behind, Way(i)[1] = n, OffsetAt(i, 1) = o
      PROVE  Way(i)[0] = content[n][o]
  <2>1. Way(i)[0] = Kid(Way(i)[1], OffsetAt(i, 1))
    <3>1. 0 \in 0 .. Level(i) - 1 /\ 0 + 1 = 1
      BY LevelIs
    <3> QED BY <3>1, WayIs
  <2> QED BY <1>2, <1>3, <2>1 DEF Kid
<1>4. CASE n = indirect[1]
  <2>1. PICK i \in Behind : Level(i) = 1 /\ OffsetAt(i, 1) = o
    BY <1>1, Encode
  <2>2. Way(i)[1] = n
    BY <1>4, <2>1, WayIs
  <2> QED BY <1>3, <2>1, <2>2
<1>5. ASSUME NEW m \in Tier(2), NEW p \in Offsets, n = content[m][p], m = indirect[2]
      PROVE  \E i \in Behind : Way(i)[1] = n /\ OffsetAt(i, 1) = o
  <2>1. PICK i \in Behind : Level(i) = 2 /\ OffsetAt(i, 1) = o /\ OffsetAt(i, 2) = p
    BY <1>1, Encode
  <2>2. Way(i)[2] = m /\ m # Null
    BY <1>5, <2>1, WayIs, TiersAre
  <2>3. Way(i)[1] = Kid(Way(i)[2], OffsetAt(i, 2))
    <3>1. 1 \in 0 .. Level(i) - 1 /\ 1 + 1 = 2
      BY <2>1
    <3> QED BY <3>1, WayIs
  <2> QED BY <1>5, <2>1, <2>2, <2>3 DEF Kid
<1>6. ASSUME NEW m \in Tier(2), NEW p \in Offsets, n = content[m][p],
             NEW q \in Tier(3), NEW r \in Offsets, m = content[q][r]
      PROVE  \E i \in Behind : Way(i)[1] = n /\ OffsetAt(i, 1) = o
  <2>1. PICK i \in Behind : /\ Level(i) = 3 /\ OffsetAt(i, 1) = o
                            /\ OffsetAt(i, 2) = p /\ OffsetAt(i, 3) = r
    BY <1>1, Encode
  <2>2. Way(i)[3] = q /\ q # Null /\ m # Null
    BY <2>1, WayIs, TiersAre
  <2>3. Way(i)[2] = Kid(Way(i)[3], OffsetAt(i, 3)) /\ Way(i)[1] = Kid(Way(i)[2], OffsetAt(i, 2))
    <3>1. 1 \in 0 .. Level(i) - 1 /\ 1 + 1 = 2 /\ 2 \in 0 .. Level(i) - 1 /\ 2 + 1 = 3
      BY <2>1
    <3> QED BY <3>1, WayIs
  <2> QED BY <1>6, <2>1, <2>2, <2>3 DEF Kid
<1>7. CASE \E m \in Tier(2), p \in Offsets : n = content[m][p]
  <2>1. PICK m \in Tier(2), p \in Offsets : n = content[m][p]
    BY <1>7
  <2>2. m = indirect[2] \/ \E q \in Tier(3), r \in Offsets : m = content[q][r]
    BY <2>1, TiersAre
  <2>3. \E i \in Behind : Way(i)[1] = n /\ OffsetAt(i, 1) = o
    BY <1>5, <1>6, <2>1, <2>2
  <2> QED BY <1>3, <2>3
<1> QED BY <1>2, <1>4, <1>7

\* Two ways that end in the same slot are the same.
LEMMA WayOnce ==
  ASSUME Once, NEW i \in Behind, NEW j \in Behind,
         Way(i)[1] = Way(j)[1], Way(i)[1] # Null, OffsetAt(i, 1) = OffsetAt(j, 1)
  PROVE  i = j
<1> DEFINE l == Level(i)
           m == Level(j)
           w == Way(i)
           v == Way(j)
<1>1. l \in 1 .. 3 /\ m \in 1 .. 3 /\ \A k \in 1 .. 3 : OffsetAt(i, k) \in Offsets /\ OffsetAt(j, k) \in Offsets
  BY LevelIs, Decode
<1>2. /\ w[l] = indirect[l] /\ \A k \in 0 .. l - 1 : w[k] = Kid(w[k + 1], OffsetAt(i, k + 1))
      /\ v[m] = indirect[m] /\ \A k \in 0 .. m - 1 : v[k] = Kid(v[k + 1], OffsetAt(j, k + 1))
  BY WayIs
<1>3. /\ \A k \in 1 .. l : w[k] = Null \/ w[k] \in Nodes
      /\ \A k \in 1 .. m : v[k] = Null \/ v[k] \in Nodes
  <2>1. \A k \in 1 .. l : w[k] = Null \/ w[k] \in Tier(k)
    BY WayOnTiers
  <2>2. \A k \in 1 .. m : v[k] = Null \/ v[k] \in Tier(k)
    BY WayOnTiers
  <2>3. \A k \in 1 .. 3 : \A n \in Tier(k) : n \in Nodes
    BY NodesAre
  <2> HIDE DEF l, m, v, w
  <2> QED BY <1>1, <2>1, <2>2, <2>3
<1>4. /\ \A x, y \in Nodes, p, r \in Offsets :
           content[x][p] # Null /\ content[x][p] = content[y][r] => x = y /\ p = r
      /\ \A d \in 1 .. 3, x \in Nodes, p \in Offsets :
           indirect[d] # Null => indirect[d] # content[x][p]
  BY OnceIs
<1>5. w[1] = v[1] /\ w[1] # Null
  OBVIOUS
<1> HIDE DEF l, m, v, w
<1>6. ASSUME NEW k \in 1 .. 2, k < l, k < m, w[k] = v[k], w[k] # Null
      PROVE  /\ w[k + 1] = v[k + 1] /\ w[k + 1] # Null
             /\ OffsetAt(i, k + 1) = OffsetAt(j, k + 1)
  <2>1. /\ w[k] = Kid(w[k + 1], OffsetAt(i, k + 1)) /\ v[k] = Kid(v[k + 1], OffsetAt(j, k + 1))
        /\ k + 1 \in 1 .. l /\ k + 1 \in 1 .. m /\ k + 1 \in 1 .. 3
    BY <1>1, <1>2, <1>6
  <2>2. w[k + 1] # Null /\ v[k + 1] # Null
    BY <1>6, <2>1 DEF Kid
  <2>3. w[k + 1] \in Nodes /\ v[k + 1] \in Nodes
    BY <1>3, <2>1, <2>2
  <2>4. /\ content[w[k + 1]][OffsetAt(i, k + 1)] # Null
        /\ content[w[k + 1]][OffsetAt(i, k + 1)] = content[v[k + 1]][OffsetAt(j, k + 1)]
    BY <1>6, <2>1, <2>2 DEF Kid
  <2>5. OffsetAt(i, k + 1) \in Offsets /\ OffsetAt(j, k + 1) \in Offsets
    BY <1>1, <2>1
  <2>6. w[k + 1] = v[k + 1] /\ OffsetAt(i, k + 1) = OffsetAt(j, k + 1)
    BY <1>4, <2>3, <2>4, <2>5
  <2> QED BY <2>2, <2>6
<1>7. ASSUME NEW k \in 1 .. 2, k < l, k < m \/ k = m, w[k] = v[k], w[k] # Null PROVE k # m
  <2> SUFFICES ASSUME k = m PROVE FALSE
    OBVIOUS
  <2>1. w[k] = Kid(w[k + 1], OffsetAt(i, k + 1)) /\ k + 1 \in 1 .. l /\ k + 1 \in 1 .. 3
    BY <1>1, <1>2, <1>7
  <2>2. w[k + 1] # Null /\ w[k + 1] \in Nodes /\ w[k] = content[w[k + 1]][OffsetAt(i, k + 1)]
    BY <1>3, <1>7, <2>1 DEF Kid
  <2>3. indirect[m] = content[w[k + 1]][OffsetAt(i, k + 1)] /\ indirect[m] # Null
    BY <1>2, <1>7, <2>2
  <2> QED BY <1>1, <1>4, <2>1, <2>2, <2>3
<1>8. ASSUME NEW k \in 1 .. 2, k < m, k < l \/ k = l, w[k] = v[k], w[k] # Null PROVE k # l
  <2> SUFFICES ASSUME k = l PROVE FALSE
    OBVIOUS
  <2>1. v[k] = Kid(v[k + 1], OffsetAt(j, k + 1)) /\ k + 1 \in 1 .. m /\ k + 1 \in 1 .. 3
    BY <1>1, <1>2, <1>8
  <2>2. v[k + 1] # Null /\ v[k + 1] \in Nodes /\ v[k] = content[v[k + 1]][OffsetAt(j, k + 1)]
    BY <1>3, <1>8, <2>1 DEF Kid
  <2>3. indirect[l] = content[v[k + 1]][OffsetAt(j, k + 1)] /\ indirect[l] # Null
    BY <1>2, <1>8, <2>2
  <2> QED BY <1>1, <1>4, <2>1, <2>2, <2>3
<1>9. CASE l = 1 \/ m = 1
  <2>1. l = 1 /\ m = 1
    BY <1>1, <1>5, <1>7, <1>8, <1>9
  <2> QED BY <2>1, SameWay DEF l, m
<1>10. CASE l # 1 /\ m # 1
  <2>1. /\ 1 \in 1 .. 2 /\ 1 < l /\ 1 < m /\ 1 + 1 = 2 /\ 2 \in 1 .. 2 /\ 2 + 1 = 3
    BY <1>1, <1>10
  <2>2. w[2] = v[2] /\ w[2] # Null /\ OffsetAt(i, 2) = OffsetAt(j, 2)
    BY <1>5, <1>6, <2>1
  <2>3. CASE l = 2 \/ m = 2
    <3>1. l = 2 /\ m = 2
      BY <1>1, <2>1, <2>2, <2>3, <1>7, <1>8
    <3>2. \A k \in 1 .. l : OffsetAt(i, k) = OffsetAt(j, k)
      BY <2>2, <3>1
    <3> QED BY <3>1, <3>2, SameWay DEF l, m
  <2>4. CASE l = 3 /\ m = 3
    <3>1. OffsetAt(i, 3) = OffsetAt(j, 3)
      BY <1>6, <2>1, <2>2, <2>4
    <3>2. \A k \in 1 .. l : OffsetAt(i, k) = OffsetAt(j, k)
      BY <2>2, <2>4, <3>1
    <3> QED BY <2>4, <3>2, SameWay DEF l, m
  <2> QED BY <1>1, <1>10, <2>3, <2>4
<1> QED BY <1>9, <1>10

----------------------------------------------------------------------------
(* How a step changes what the slots hold *)

\* The blocks that some slot holds.
Pointed == {Val(s) : s \in Slots} \ {Null}

LEMMA PointedIs == \A b : b \in Pointed <=> b # Null /\ \E s \in Slots : Val(s) = b
BY DEF Pointed

LEMMA PointedIsNext == (\A b : b \in Pointed <=> b # Null /\ \E s \in Slots : Val(s) = b)'
BY PointedIs, PTL

\* A block that no slot held is put into an empty one; it may bring empty slots of its own.
LEMMA PutKeeps ==
  ASSUME Once, NEW b, b # Null, b \notin Pointed, NEW s \in Slots, Val(s) = Null,
         Slots \subseteq Slots', Val(s)' = b,
         \A t \in Slots' : t # s => Val(t)' = IF t \in Slots THEN Val(t) ELSE Null
  PROVE  Once' /\ Pointed' = Pointed \cup {b}
<1>1. \A t \in Slots : Val(t) # b
  BY PointedIs
<1>2. \A t \in Slots' : t # s /\ Val(t)' # Null => t \in Slots /\ Val(t)' = Val(t)
  OBVIOUS
<1>3. s \in Slots'
  OBVIOUS
<1>4. Once'
  <2> SUFFICES ASSUME NEW t \in Slots', NEW u \in Slots', Val(t)' # Null, Val(t)' = Val(u)'
               PROVE  t = u
    BY Zenon DEF Once
  <2>1. CASE t = s /\ u = s
    BY <2>1
  <2>2. CASE t = s /\ u # s
    <3>1. u \in Slots /\ Val(u) = b
      BY <1>2, <2>2
    <3> QED BY <1>1, <3>1
  <2>3. CASE t # s /\ u = s
    <3>1. t \in Slots /\ Val(t) = b
      BY <1>2, <2>3
    <3> QED BY <1>1, <3>1
  <2>4. CASE t # s /\ u # s
    <3>1. t \in Slots /\ u \in Slots /\ Val(t) # Null /\ Val(t) = Val(u)
      BY <1>2, <2>4
    <3> QED BY <3>1, Zenon DEF Once
  <2> QED BY <2>1, <2>2, <2>3, <2>4
<1>5. ASSUME NEW x PROVE x \in Pointed' <=> x \in Pointed \/ x = b
  <2>1. ASSUME x \in Pointed' PROVE x \in Pointed \/ x = b
    <3>1. x # Null
      BY <2>1, PointedIsNext
    <3>2. PICK t \in Slots' : Val(t)' = x
      BY <2>1, PointedIsNext
    <3>3. CASE t = s
      BY <3>2, <3>3
    <3>4. CASE t # s
      <4>1. t \in Slots /\ Val(t) = x
        BY <1>2, <3>1, <3>2, <3>4
      <4> QED BY <3>1, <4>1, PointedIs
    <3> QED BY <3>3, <3>4
  <2>2. ASSUME x \in Pointed PROVE x \in Pointed'
    <3>1. x # Null
      BY <2>2, PointedIs
    <3>2. PICK t \in Slots : Val(t) = x
      BY <2>2, PointedIs
    <3>3. t \in Slots' /\ Val(t)' = x
      BY <3>1, <3>2
    <3> QED BY <3>1, <3>3, PointedIsNext
  <2>3. b \in Pointed'
    BY <1>3, PointedIsNext
  <2> QED BY <2>1, <2>2, <2>3
<1> QED BY <1>4, <1>5

\* The blocks in R leave the slots they are in; slots inside blocks of R go with them.
LEMMA DropKeeps ==
  ASSUME Once, NEW R, Slots' \subseteq Slots,
         \A t \in Slots' : \/ Val(t)' = Val(t) /\ Val(t) \notin R
                           \/ Val(t)' = Null /\ (Val(t) = Null \/ Val(t) \in R),
         \A t \in Slots : t \notin Slots' => Val(t) = Null \/ Val(t) \in R
  PROVE  Once' /\ Pointed' = Pointed \ R
<1>1. \A t \in Slots' : Val(t)' # Null => Val(t)' = Val(t) /\ Val(t) \notin R /\ t \in Slots
  OBVIOUS
<1>2. Once'
  <2> SUFFICES ASSUME NEW t \in Slots', NEW u \in Slots', Val(t)' # Null, Val(t)' = Val(u)'
               PROVE  t = u
    BY Zenon DEF Once
  <2>1. t \in Slots /\ u \in Slots /\ Val(t) # Null /\ Val(t) = Val(u)
    BY <1>1
  <2> QED BY <2>1, Zenon DEF Once
<1>3. ASSUME NEW x PROVE x \in Pointed' <=> x \in Pointed /\ x \notin R
  <2>1. ASSUME x \in Pointed' PROVE x \in Pointed /\ x \notin R
    <3>1. x # Null
      BY <2>1, PointedIsNext
    <3>2. PICK t \in Slots' : Val(t)' = x
      BY <2>1, PointedIsNext
    <3>3. t \in Slots /\ Val(t) = x /\ x \notin R
      BY <1>1, <3>1, <3>2
    <3> QED BY <3>1, <3>3, PointedIs
  <2>2. ASSUME x \in Pointed, x \notin R PROVE x \in Pointed'
    <3>1. x # Null
      BY <2>2, PointedIs
    <3>2. PICK t \in Slots : Val(t) = x
      BY <2>2, PointedIs
    <3>3. t \in Slots' /\ Val(t)' = x
      BY <2>2, <3>1, <3>2
    <3> QED BY <3>1, <3>3, PointedIsNext
  <2> QED BY <2>1, <2>2
<1> QED BY <1>3, <1>2

\* One slot is cleared.
LEMMA SlotDropped ==
  ASSUME Once, Slots' = Slots, NEW s \in Slots, Val(s) # Null, Val(s)' = Null,
         \A t \in Slots : t # s => Val(t)' = Val(t)
  PROVE  Once' /\ Pointed' = Pointed \ {Val(s)}
<1> DEFINE R == {Val(s)}
<1>1. \A t \in Slots : t # s => Val(t) \notin R
  <2> TAKE t \in Slots
  <2>1. t # s => Val(t) # Val(s)
    BY DEF Once
  <2> QED BY <2>1
<1>2. \A t \in Slots' : \/ Val(t)' = Val(t) /\ Val(t) \notin R
                        \/ Val(t)' = Null /\ (Val(t) = Null \/ Val(t) \in R)
  <2> TAKE t \in Slots'
  <2>1. CASE t = s
    BY <2>1
  <2>2. CASE t # s
    BY <1>1, <2>2
  <2> QED BY <2>1, <2>2
<1>3. \A t \in Slots : t \notin Slots' => Val(t) = Null \/ Val(t) \in R
  OBVIOUS
<1>4. Slots' \subseteq Slots
  OBVIOUS
<1> HIDE DEF R
<1>5. Once' /\ Pointed' = Pointed \ R
  BY <1>2, <1>3, <1>4, DropKeeps
<1> QED BY <1>5 DEF R

\* A new indirect block, empty, is linked where there was none.
LEMMA NodeGrows ==
  ASSUME NEW b, b # Null,
         \A l \in 1 .. 3 : indirect'[l] = indirect[l] \/ (indirect[l] = Null /\ indirect'[l] = b),
         \A n \in Nodes, o \in Offsets :
           \/ content'[n][o] = content[n][o]
           \/ content[n][o] = Null /\ content'[n][o] = b,
         \A o \in Offsets : content'[b][o] = Null,
         \A n \in Tier(1), o \in Offsets : content'[n][o] = content[n][o]
  PROVE  /\ \A n : n \in Nodes => n \in Nodes'
         /\ \A n : n \in Nodes' => n \in Nodes \/ n = b
         /\ \A i \in Behind : \A k \in 1 .. Level(i) :
              Way(i)[k] # Null => Way(i)'[k] = Way(i)[k]
         /\ \A i \in Behind : Way(i)'[0] = Way(i)[0]
<1>1. \A k \in 1 .. 3 : \A n \in Tier(k) : n \in Nodes /\ n # Null
  BY NodesAre, TiersAre
<1>t3. \A n : /\ n \in Tier(3) => n \in Tier(3)'
              /\ n \in Tier(3)' => n \in Tier(3) \/ n = b
  BY TiersAre, TiersAreNext
<1>t2. \A n : /\ n \in Tier(2) => n \in Tier(2)'
              /\ n \in Tier(2)' => n \in Tier(2) \/ n = b
  <2>1. ASSUME NEW n \in Tier(2) PROVE n \in Tier(2)'
    <3>1. n # Null
      BY TiersAre
    <3>2. CASE n = indirect[2]
      BY <3>1, <3>2, TiersAreNext
    <3>3. CASE \E m \in Tier(3), o \in Offsets : n = content[m][o]
      <4>1. PICK m \in Tier(3), o \in Offsets : n = content[m][o]
        BY <3>3
      <4>2. m \in Nodes /\ m \in Tier(3)' /\ content'[m][o] = n
        BY <1>1, <1>t3, <3>1, <4>1
      <4> QED BY <3>1, <4>1, <4>2, TiersAreNext
    <3> QED BY <3>2, <3>3, TiersAre
  <2>2. ASSUME NEW n, n \in Tier(2)' PROVE n \in Tier(2) \/ n = b
    <3>1. n # Null
      BY <2>2, TiersAreNext
    <3>2. CASE n = indirect'[2]
      BY <3>1, <3>2, TiersAre
    <3>3. CASE \E m \in Tier(3)', o \in Offsets : n = content'[m][o]
      <4>1. PICK m \in Tier(3)', o \in Offsets : n = content'[m][o]
        BY <3>3
      <4>2. m # b
        BY <3>1, <4>1
      <4>3. m \in Tier(3) /\ m \in Nodes
        BY <1>1, <1>t3, <4>1, <4>2
      <4>4. n = b \/ n = content[m][o]
        BY <4>1, <4>3
      <4> QED BY <3>1, <4>1, <4>3, <4>4, TiersAre
    <3> QED BY <2>2, <3>2, <3>3, TiersAreNext
  <2> QED BY <2>1, <2>2
<1>t1. \A n : /\ n \in Tier(1) => n \in Tier(1)'
              /\ n \in Tier(1)' => n \in Tier(1) \/ n = b
  <2>1. ASSUME NEW n \in Tier(1) PROVE n \in Tier(1)'
    <3>1. n # Null
      BY TiersAre
    <3>2. CASE n = indirect[1]
      BY <3>1, <3>2, TiersAreNext
    <3>3. CASE \E m \in Tier(2), o \in Offsets : n = content[m][o]
      <4>1. PICK m \in Tier(2), o \in Offsets : n = content[m][o]
        BY <3>3
      <4>2. m \in Nodes /\ m \in Tier(2)' /\ content'[m][o] = n
        BY <1>1, <1>t2, <3>1, <4>1
      <4> QED BY <3>1, <4>1, <4>2, TiersAreNext
    <3> QED BY <3>2, <3>3, TiersAre
  <2>2. ASSUME NEW n, n \in Tier(1)' PROVE n \in Tier(1) \/ n = b
    <3>1. n # Null
      BY <2>2, TiersAreNext
    <3>2. CASE n = indirect'[1]
      BY <3>1, <3>2, TiersAre
    <3>3. CASE \E m \in Tier(2)', o \in Offsets : n = content'[m][o]
      <4>1. PICK m \in Tier(2)', o \in Offsets : n = content'[m][o]
        BY <3>3
      <4>2. m # b
        BY <3>1, <4>1
      <4>3. m \in Tier(2) /\ m \in Nodes
        BY <1>1, <1>t2, <4>1, <4>2
      <4>4. n = b \/ n = content[m][o]
        BY <4>1, <4>3
      <4> QED BY <3>1, <4>1, <4>3, <4>4, TiersAre
    <3> QED BY <2>2, <3>2, <3>3, TiersAreNext
  <2> QED BY <2>1, <2>2
<1>2. ASSUME NEW i \in Behind
      PROVE  /\ \A k \in 1 .. Level(i) : Way(i)[k] # Null => Way(i)'[k] = Way(i)[k]
             /\ Way(i)'[0] = Way(i)[0]
  <2>0. PICK v, w : v = Way(i) /\ w = Way(i)'
    OBVIOUS
  <2>l. PICK l : l = Level(i)
    OBVIOUS
  <2>1. l \in 1 .. 3 /\ \A k \in 1 .. 3 : OffsetAt(i, k) \in Offsets
    BY <2>l, LevelIs, Decode
  <2>2. /\ v[l] = indirect[l]
        /\ \A k \in 0 .. l - 1 : v[k] = Kid(v[k + 1], OffsetAt(i, k + 1))
        /\ \A k \in 1 .. l : v[k] = Null \/ v[k] \in Tier(k)
    BY <2>0, <2>l, WayIs, WayOnTiers
  <2>3. /\ w[l] = indirect'[l]
        /\ \A k \in 0 .. l - 1 :
             w[k] = IF w[k + 1] = Null THEN Null ELSE content'[w[k + 1]][OffsetAt(i, k + 1)]
    BY <2>0, <2>l, WayIsNext DEF Kid
  <2> DEFINE Longer(k) == w[k] = v[k] \/ (v[k] = Null /\ w[k] = b)
  <2>4. Longer(l)
    BY <2>1, <2>2, <2>3
  <2>5. ASSUME NEW k \in 1 .. 2, k < l, Longer(k + 1) PROVE Longer(k)
    <3>1. /\ v[k] = Kid(v[k + 1], OffsetAt(i, k + 1)) /\ OffsetAt(i, k + 1) \in Offsets
          /\ w[k] = IF w[k + 1] = Null THEN Null ELSE content'[w[k + 1]][OffsetAt(i, k + 1)]
          /\ v[k + 1] = Null \/ v[k + 1] \in Nodes
      BY <1>1, <2>1, <2>2, <2>3, <2>5
    <3>2. CASE v[k + 1] = Null
      BY <2>5, <3>1, <3>2 DEF Kid
    <3>3. CASE v[k + 1] # Null
      <4>1. w[k + 1] = v[k + 1] /\ v[k + 1] \in Nodes
        BY <2>5, <3>1, <3>3
      <4> QED BY <3>1, <3>3, <4>1 DEF Kid
    <3> QED BY <3>2, <3>3
  <2>6. \A k \in 1 .. l : Longer(k)
    <3>1. l = 3 => Longer(2)
      BY <2>4, <2>5
    <3>2. l >= 2 => Longer(1)
      <4>1. CASE l = 2
        BY <2>4, <2>5, <4>1
      <4>2. CASE l = 3
        BY <2>5, <3>1, <4>2
      <4> QED BY <2>1, <4>1, <4>2
    <3> HIDE DEF Longer
    <3> QED BY <2>1, <2>4, <3>1, <3>2
  <2>7. w[0] = v[0]
    <3>1. /\ v[0] = Kid(v[1], OffsetAt(i, 1)) /\ OffsetAt(i, 1) \in Offsets
          /\ w[0] = IF w[1] = Null THEN Null ELSE content'[w[1]][OffsetAt(i, 1)]
          /\ v[1] = Null \/ v[1] \in Tier(1)
      <4>1. 0 \in 0 .. l - 1 /\ 0 + 1 = 1 /\ 1 \in 1 .. l /\ 1 \in 1 .. 3
        BY <2>1
      <4> QED BY <2>1, <2>2, <2>3, <4>1
    <3>2. Longer(1)
      BY <2>1, <2>6
    <3>3. CASE v[1] = Null
      BY <3>1, <3>2, <3>3 DEF Kid
    <3>4. CASE v[1] # Null
      BY <3>1, <3>2, <3>4 DEF Kid
    <3> QED BY <3>3, <3>4
  <2>8. \A k \in 1 .. l : v[k] # Null => w[k] = v[k]
    BY <2>6
  <2> QED BY <2>0, <2>l, <2>7, <2>8
<1> QED BY <1>t1, <1>t2, <1>t3, <1>2, NodesAre, NodesAreNext

\* Only the last indirect blocks change.
LEMMA WaysStay ==
  ASSUME UNCHANGED indirect,
         \A n : n \in Tier(2) \/ n \in Tier(3) =>
                  \A o \in Offsets : content'[n][o] = content[n][o]
  PROVE  /\ \A n : n \in Nodes' <=> n \in Nodes
         /\ \A n : n \in Tier(1)' <=> n \in Tier(1)
         /\ \A i \in Behind :
              /\ \A k \in 1 .. Level(i) : Way(i)'[k] = Way(i)[k]
              /\ Way(i)'[0] = IF Way(i)[1] = Null THEN Null
                              ELSE content'[Way(i)[1]][OffsetAt(i, 1)]
<1>t3. \A n : n \in Tier(3)' <=> n \in Tier(3)
  BY TiersAre, TiersAreNext
<1>t2. \A n : n \in Tier(2)' <=> n \in Tier(2)
  <2> TAKE n
  <2>1. (\E m \in Tier(3)', o \in Offsets : n = content'[m][o])
          <=> \E m \in Tier(3), o \in Offsets : n = content[m][o]
    BY <1>t3
  <2> QED BY <2>1, TiersAre, TiersAreNext
<1>t1. \A n : n \in Tier(1)' <=> n \in Tier(1)
  <2> TAKE n
  <2>1. (\E m \in Tier(2)', o \in Offsets : n = content'[m][o])
          <=> \E m \in Tier(2), o \in Offsets : n = content[m][o]
    BY <1>t2
  <2> QED BY <2>1, TiersAre, TiersAreNext
<1>2. ASSUME NEW i \in Behind
      PROVE  /\ \A k \in 1 .. Level(i) : Way(i)'[k] = Way(i)[k]
             /\ Way(i)'[0] = IF Way(i)[1] = Null THEN Null
                             ELSE content'[Way(i)[1]][OffsetAt(i, 1)]
  <2>0. PICK v, w : v = Way(i) /\ w = Way(i)'
    OBVIOUS
  <2>l. PICK l : l = Level(i)
    OBVIOUS
  <2>1. l \in 1 .. 3 /\ \A k \in 1 .. 3 : OffsetAt(i, k) \in Offsets
    BY <2>l, LevelIs, Decode
  <2>2. /\ v[l] = indirect[l]
        /\ \A k \in 0 .. l - 1 : v[k] = Kid(v[k + 1], OffsetAt(i, k + 1))
        /\ \A k \in 1 .. l : v[k] = Null \/ v[k] \in Tier(k)
    BY <2>0, <2>l, WayIs, WayOnTiers
  <2>3. /\ w[l] = indirect'[l]
        /\ \A k \in 0 .. l - 1 :
             w[k] = IF w[k + 1] = Null THEN Null ELSE content'[w[k + 1]][OffsetAt(i, k + 1)]
    BY <2>0, <2>l, WayIsNext DEF Kid
  <2>4. w[l] = v[l]
    BY <2>1, <2>2, <2>3
  <2>5. ASSUME NEW k \in 1 .. 2, k < l, w[k + 1] = v[k + 1] PROVE w[k] = v[k]
    <3>1. /\ v[k] = Kid(v[k + 1], OffsetAt(i, k + 1)) /\ OffsetAt(i, k + 1) \in Offsets
          /\ w[k] = IF w[k + 1] = Null THEN Null ELSE content'[w[k + 1]][OffsetAt(i, k + 1)]
          /\ v[k + 1] = Null \/ v[k + 1] \in Tier(2) \/ v[k + 1] \in Tier(3)
      BY <2>1, <2>2, <2>3, <2>5
    <3> QED BY <2>5, <3>1 DEF Kid
  <2>6. \A k \in 1 .. l : w[k] = v[k]
    <3>1. l = 3 => w[2] = v[2]
      BY <2>4, <2>5
    <3>2. l >= 2 => w[1] = v[1]
      <4>1. CASE l = 2
        BY <2>4, <2>5, <4>1
      <4>2. CASE l = 3
        BY <2>5, <3>1, <4>2
      <4> QED BY <2>1, <4>1, <4>2
    <3> QED BY <2>1, <2>4, <3>1, <3>2
  <2>7. w[0] = IF v[1] = Null THEN Null ELSE content'[v[1]][OffsetAt(i, 1)]
    <3>1. 0 \in 0 .. l - 1 /\ 0 + 1 = 1 /\ 1 \in 1 .. l
      BY <2>1
    <3> QED BY <2>3, <2>6, <3>1
  <2> QED BY <2>0, <2>l, <2>6, <2>7
<1> QED BY <1>t1, <1>t2, <1>t3, <1>2, NodesAre, NodesAreNext

\* Pointers of the inode are cleared.
LEMMA WaysEnd ==
  ASSUME UNCHANGED content,
         \A l \in 1 .. 3 : indirect'[l] = indirect[l] \/ indirect'[l] = Null
  PROVE  /\ \A n : /\ n \in Tier(3)' => n \in Tier(3)
                   /\ n \in Tier(2)' => n \in Tier(2)
                   /\ n \in Tier(1)' => n \in Tier(1)
         /\ \A n : n \in Nodes' => n \in Nodes
         /\ \A i \in Behind : Way(i)'[0] = Way(i)[0] \/ Way(i)'[0] = Null
<1>t3. \A n : n \in Tier(3)' => n \in Tier(3)
  BY TiersAre, TiersAreNext
<1>t2. \A n : n \in Tier(2)' => n \in Tier(2)
  BY <1>t3, TiersAre, TiersAreNext
<1>t1. \A n : n \in Tier(1)' => n \in Tier(1)
  BY <1>t2, TiersAre, TiersAreNext
<1>2. ASSUME NEW i \in Behind PROVE Way(i)'[0] = Way(i)[0] \/ Way(i)'[0] = Null
  <2>0. PICK v, w : v = Way(i) /\ w = Way(i)'
    OBVIOUS
  <2>l. PICK l : l = Level(i)
    OBVIOUS
  <2>1. l \in 1 .. 3
    BY <2>l, LevelIs
  <2>2. /\ v[l] = indirect[l]
        /\ \A k \in 0 .. l - 1 : v[k] = Kid(v[k + 1], OffsetAt(i, k + 1))
    BY <2>0, <2>l, WayIs
  <2>3. /\ w[l] = indirect'[l]
        /\ \A k \in 0 .. l - 1 : w[k] = Kid(w[k + 1], OffsetAt(i, k + 1))
    BY <2>0, <2>l, WayIsNext DEF Kid
  <2> DEFINE Cut(k) == w[k] = v[k] \/ w[k] = Null
  <2>4. Cut(l)
    BY <2>1, <2>2, <2>3
  <2>5. ASSUME NEW k \in 0 .. 2, k < l, Cut(k + 1) PROVE Cut(k)
    <3>1. v[k] = Kid(v[k + 1], OffsetAt(i, k + 1)) /\ w[k] = Kid(w[k + 1], OffsetAt(i, k + 1))
      BY <2>1, <2>2, <2>3, <2>5
    <3> QED BY <2>5, <3>1 DEF Kid
  <2> HIDE DEF Cut
  <2>6. l = 3 => Cut(2)
    BY <2>4, <2>5
  <2>7. l >= 2 => Cut(1)
    <3>1. CASE l = 2
      BY <2>4, <2>5, <3>1
    <3>2. CASE l = 3
      BY <2>5, <2>6, <3>2
    <3> QED BY <2>1, <3>1, <3>2
  <2>8. Cut(0)
    <3>1. Cut(1)
      BY <2>1, <2>4, <2>7
    <3> QED BY <2>1, <2>5, <3>1
  <2> QED BY <2>0, <2>8 DEF Cut
<1> QED BY <1>t1, <1>t2, <1>t3, <1>2, NodesAre, NodesAreNext

----------------------------------------------------------------------------
(* Sizes and numbers of blocks *)

LEMMA CeilIs ==
  ASSUME NEW n \in Nat
  PROVE  /\ CeilBlocks(n) \in Nat
         /\ n <= CeilBlocks(n) * BlockSize /\ CeilBlocks(n) * BlockSize < n + BlockSize
<1> DEFINE a == n + BlockSize - 1
           q == a \div BlockSize
           r == a % BlockSize
<1>1. BlockSize \in Nat \ {0} /\ a \in Nat
  BY Constants
<1>2. q \in Nat /\ r \in 0 .. BlockSize - 1 /\ a = q * BlockSize + r
  BY <1>1, DivMod
<1> DEFINE p == q * BlockSize
<1>3. p \in Int /\ a = p + r /\ a = n + BlockSize - 1
  BY <1>1, <1>2
<1> HIDE DEF a, q, r, p
<1>4. n <= p /\ p < n + BlockSize
  BY <1>1, <1>2, <1>3
<1> QED BY <1>2, <1>4 DEF p, q, a, CeilBlocks

LEMMA CeilWhole ==
  ASSUME NEW k \in Nat
  PROVE  CeilBlocks(k * BlockSize) = k /\ k * BlockSize \in Nat
<1>1. BlockSize \in Nat \ {0} /\ BlockSize - 1 \in 0 .. BlockSize - 1 /\ k * BlockSize \in Nat
  BY Constants
<1>2. (k * BlockSize + (BlockSize - 1)) \div BlockSize = k
  BY <1>1, DivModUnique, Zenon
<1> DEFINE p == k * BlockSize
<1>3. p + BlockSize - 1 = p + (BlockSize - 1) /\ p \in Nat
  BY <1>1
<1> QED BY <1>1, <1>2, <1>3 DEF CeilBlocks

LEMMA CeilMono ==
  ASSUME NEW a \in Nat, NEW b \in Nat, a <= b
  PROVE  CeilBlocks(a) <= CeilBlocks(b)
<1> DEFINE p == CeilBlocks(a)
           q == CeilBlocks(b)
<1>1. p \in Nat /\ q \in Nat /\ p * BlockSize < a + BlockSize /\ b <= q * BlockSize
  BY CeilIs
<1> HIDE DEF p, q
<1> SUFFICES ASSUME q < p PROVE FALSE
  BY <1>1 DEF p, q
<1>2. BlockSize \in Nat \ {0}
  BY Constants
<1>3. (q + 1) * BlockSize <= p * BlockSize /\ (q + 1) * BlockSize \in Int /\ p * BlockSize \in Int
  BY <1>1, <1>2, TimesMono
<1>4. (q + 1) * BlockSize = q * BlockSize + BlockSize /\ q * BlockSize \in Int
  BY <1>1, <1>2
<1> QED BY <1>1, <1>2, <1>3, <1>4

LEMMA CeilZero == CeilBlocks(0) = 0
<1>1. 0 * BlockSize = 0
  BY Constants
<1>2. 0 \in Nat
  OBVIOUS
<1>3. CeilBlocks(0 * BlockSize) = 0
  BY <1>2, CeilWhole
<1> QED BY <1>1, <1>3

\* Blocks are finitely many, so that a set of them has a greatest member.
LEMMA MaxIn ==
  ASSUME NEW S, S \subseteq Blocks, S # {}
  PROVE  Max(S) \in S
<1>1. S \subseteq Nat /\ IsFiniteSet(S)
  <2>1. S \in SUBSET Blocks
    OBVIOUS
  <2> QED BY <2>1, Constants, FS_Subset
<1>2. PICK n \in Nat : ExistsBijection(1 .. n, S)
  BY <1>1, FS_NatBijection
<1>3. PICK f : f \in Bijection(1 .. n, S)
  BY <1>2 DEF ExistsBijection
<1>4. /\ \A j \in 1 .. n : f[j] \in Nat
      /\ \A y \in S : \E j \in 1 .. n : f[j] = y
  <2>1. f \in Surjection(1 .. n, S)
    BY <1>3 DEF Bijection
  <2>2. f \in [1 .. n -> S] /\ \A y \in S : \E j \in 1 .. n : f[j] = y
    BY <2>1 DEF Surjection
  <2> QED BY <1>1, <2>2
<1> DEFINE Bounded(k) == \E u \in Nat : \A j \in 1 .. k : f[j] <= u
           Bad == {k \in 0 .. n : ~Bounded(k)}
<1>5. Bounded(0)
  OBVIOUS
<1>6. ASSUME NEW k \in 1 .. n, Bounded(k - 1) PROVE Bounded(k)
  <2>1. PICK u \in Nat : \A j \in 1 .. k - 1 : f[j] <= u
    BY <1>6
  <2>2. f[k] \in Nat /\ u + f[k] \in Nat
    BY <1>4, <2>1
  <2>3. \A j \in 1 .. k : f[j] <= u + f[k]
    <3> TAKE j \in 1 .. k
    <3>1. f[j] \in Nat
      BY <1>2, <1>4
    <3>2. CASE j = k
      BY <2>1, <2>2, <3>2
    <3>3. CASE j # k
      <4>1. j \in 1 .. k - 1
        BY <3>3
      <4> QED BY <2>1, <2>2, <3>1, <4>1
    <3> QED BY <3>2, <3>3
  <2> QED BY <2>2, <2>3
<1>7. Bounded(n)
  <2> SUFFICES ASSUME ~Bounded(n) PROVE FALSE
    OBVIOUS
  <2>1. n \in Bad /\ Bad \subseteq Nat
    BY <1>2
  <2> DEFINE k == Min(Bad)
  <2>2. k \in Bad /\ \A y \in Bad : k <= y
    <3> HIDE DEF Bad
    <3> QED BY <2>1, MinNat
  <2>3. k \in 0 .. n /\ ~Bounded(k) /\ \A y \in 0 .. n : ~Bounded(y) => k <= y
    BY <2>2
  <2> HIDE DEF k, Bounded, Bad
  <2>4. k # 0
    BY <1>5, <2>3
  <2>5. k \in 1 .. n /\ k - 1 \in 0 .. n /\ ~(k <= k - 1)
    BY <1>2, <2>3, <2>4
  <2>6. Bounded(k - 1)
    BY <2>3, <2>5
  <2> QED BY <1>6, <2>3, <2>5, <2>6
<1> DEFINE U == {u \in Nat : \A y \in S : y <= u}
           m == Min(U)
<1>8. U # {} /\ U \subseteq Nat
  BY <1>4, <1>7
<1>9. m \in U /\ \A y \in U : m <= y
  <2> HIDE DEF U
  <2> QED BY <1>8, MinNat
<1>10. m \in Nat /\ \A y \in S : y <= m
  BY <1>9
<1> HIDE DEF m
<1>11. m \in S
  <2> SUFFICES ASSUME m \notin S PROVE FALSE
    OBVIOUS
  <2>1. PICK y \in S : TRUE
    OBVIOUS
  <2>2. \A z \in S : z <= m - 1 /\ z \in Nat
    <3> TAKE z \in S
    <3>1. z \in Nat /\ z <= m /\ z # m
      BY <1>1, <1>10
    <3> QED BY <1>10, <3>1
  <2>3. m - 1 \in Nat
    BY <1>10, <2>1, <2>2
  <2>4. m - 1 \in U
    BY <2>2, <2>3
  <2> QED BY <1>9, <1>10, <2>4
<1>12. \E x \in S : \A y \in S : x >= y
  <2>1. \A y \in S : m >= y
    BY <1>1, <1>10
  <2> QED BY <1>11, <2>1
<1> QED BY <1>12 DEF Max

----------------------------------------------------------------------------
(* The inductive invariant *)

\* The pointer to the data of a logical block.
Pointer(i) == IF i < DirectCount THEN direct[i] ELSE Way(i)[0]

\* What is pointed to is what the inode was given, the block in hand aside.
Kept == Pointed = used \ {hand}

\* The blocks that have data: while a truncation runs, those it has not come to.
Live(i) == i < Len(file) /\ (pc = "release" => i < CeilBlocks(goal) \/ i >= ib)

Mapped ==
  /\ Len(file) = CeilBlocks(size)
  /\ \A i \in 0 .. block_limits[3] - 1 :
       Pointer(i) = IF Live(i) THEN file[i + 1] ELSE Null

\* An append stands where the way to its block leads.
Walking ==
  IF pc \in {"top", "walk"}
  THEN /\ ib = Len(file) /\ ib \in Behind /\ lvl \in 1 .. Level(ib)
       /\ cur = Way(ib)[lvl] /\ hand \in used
       /\ pc = "top" => lvl = Level(ib)
       /\ pc = "walk" => cur # Null
  ELSE hand = Null

Releasing == pc = "release" => goal < size /\ ib \in CeilBlocks(goal) .. Len(file)

\* The trees are freed in order, and only those of an empty inode.
Freeing ==
  /\ pc \in {"free2", "free3", "gone"} => size = 0 /\ indirect[1] = Null
  /\ pc \in {"free3", "gone"} => indirect[2] = Null
  /\ pc = "gone" => indirect[3] = Null

IInv == TypeOK /\ Once /\ Kept /\ Mapped /\ Walking /\ Releasing /\ Freeing

LEMMA Basics ==
  ASSUME IInv
  PROVE  /\ size \in Nat /\ goal \in Nat /\ Len(file) \in Nat /\ Len(file) = CeilBlocks(size)
         /\ Len(file) <= block_limits[3] /\ block_limits[3] \in Nat /\ DirectCount < block_limits[3]
         /\ \A j \in 1 .. Len(file) : file[j] \in Blocks /\ file[j] # Null
         /\ used \subseteq Blocks /\ Null \notin used /\ Null \notin Blocks /\ Null \notin Pointed
         /\ indirect \in [1 .. 3 -> Ptr] /\ content \in [Blocks -> [Offsets -> Ptr]]
         /\ direct \in [0 .. DirectCount - 1 -> Ptr]
         /\ Nodes \subseteq Blocks
<1>1. TypeOK /\ Mapped
  BY DEF IInv
<1>2. block_limits[3] \in Nat /\ DirectCount < block_limits[3] /\ DirectCount \in Nat
  BY LimitsGrow, Constants
<1>3. block_limits[3] * BlockSize \in Nat
  BY <1>2, Constants
<1>4. size \in Nat /\ goal \in Nat /\ size <= block_limits[3] * BlockSize
  BY <1>1, <1>3 DEF TypeOK
<1>5. CeilBlocks(size) <= block_limits[3]
  <2> DEFINE m == block_limits[3]
  <2>1. CeilBlocks(m * BlockSize) = m /\ m * BlockSize \in Nat
    BY <1>2, CeilWhole
  <2> QED BY <1>4, <2>1, CeilMono
<1>6. file \in Seq(Blocks)
  BY <1>1 DEF TypeOK
<1>7. Len(file) = CeilBlocks(size) /\ Len(file) \in Nat
  BY <1>1, <1>6 DEF Mapped
<1>8. \A j \in 1 .. Len(file) : file[j] \in Blocks /\ file[j] # Null
  BY <1>6, Constants
<1>9. Nodes \subseteq Blocks
  BY <1>1, NodesTyped
<1>10. /\ used \subseteq Blocks /\ indirect \in [1 .. 3 -> Ptr]
       /\ content \in [Blocks -> [Offsets -> Ptr]] /\ direct \in [0 .. DirectCount - 1 -> Ptr]
  BY <1>1 DEF TypeOK
<1>11. Null \notin used /\ Null \notin Blocks /\ Null \notin Pointed
  BY <1>10, Constants DEF Pointed
<1> QED BY <1>2, <1>4, <1>5, <1>7, <1>8, <1>9, <1>10, <1>11

\* Indirect blocks are blocks the inode was given.
LEMMA NodesPointed ==
  \A n \in Nodes : n \in Pointed
<1> SUFFICES ASSUME NEW n \in Nodes PROVE n \in Pointed
  OBVIOUS
<1>1. /\ n # Null
      /\ \/ \E l \in 1 .. 3 : n = indirect[l]
         \/ \E m \in Nodes, o \in Offsets : n = content[m][o]
  <2>1. CASE n \in Tier(3)
    BY <2>1, TiersAre
  <2>2. CASE n \in Tier(2)
    BY <2>2, TiersAre, NodesAre
  <2>3. CASE n \in Tier(1)
    BY <2>3, TiersAre, NodesAre
  <2> QED BY <2>1, <2>2, <2>3, NodesAre
<1>2. CASE \E l \in 1 .. 3 : n = indirect[l]
  <2>1. PICK l \in 1 .. 3 : n = indirect[l]
    BY <1>2
  <2>2. <<"inode", l, 0>> \in Slots /\ Val(<<"inode", l, 0>>) = n
    BY <2>1, SlotsAre
  <2> QED BY <1>1, <2>2, PointedIs
<1>3. CASE \E m \in Nodes, o \in Offsets : n = content[m][o]
  <2>1. PICK m \in Nodes, o \in Offsets : n = content[m][o]
    BY <1>3
  <2>2. <<"block", m, o>> \in Slots /\ Val(<<"block", m, o>>) = n
    BY <2>1, SlotsAre
  <2> QED BY <1>1, <2>2, PointedIs
<1> QED BY <1>1, <1>2, <1>3

\* Walking of given values, for use after a step.
LEMMA WalkingIs ==
  \A i, l : i = ib /\ l = lvl =>
    (Walking <=> IF pc \in {"top", "walk"}
                 THEN /\ i = Len(file) /\ i \in Behind /\ l \in 1 .. Level(i)
                      /\ cur = Way(i)[l] /\ hand \in used
                      /\ pc = "top" => l = Level(i)
                      /\ pc = "walk" => cur # Null
                 ELSE hand = Null)
BY DEF Walking

LEMMA WalkingIsNext ==
  (\A i, l : i = ib /\ l = lvl =>
     (Walking <=> IF pc \in {"top", "walk"}
                  THEN /\ i = Len(file) /\ i \in Behind /\ l \in 1 .. Level(i)
                       /\ cur = Way(i)[l] /\ hand \in used
                       /\ pc = "top" => l = Level(i)
                       /\ pc = "walk" => cur # Null
                  ELSE hand = Null))'
BY WalkingIs, PTL

\* What the allocator gives is new.
LEMMA FreshIs ==
  ASSUME IInv, Free # {}
  PROVE  /\ FirstFree \in Blocks /\ FirstFree # Null
         /\ FirstFree \notin used /\ FirstFree \notin Pointed /\ FirstFree \notin Nodes
<1>1. Free \subseteq Nat
  BY Constants DEF Free
<1>2. FirstFree \in Free
  <2>1. FirstFree = Min(Free)
    BY DEF FirstFree
  <2> QED BY <1>1, <2>1, MinNat
<1>3. FirstFree \in Blocks /\ FirstFree \notin used
  BY <1>2 DEF Free
<1>4. FirstFree \notin Pointed
  BY <1>3 DEF IInv, Kept
<1> QED BY <1>3, <1>4, NodesPointed, Constants

LEMMA SameSlots ==
  ASSUME \A n : n \in Nodes' <=> n \in Nodes
  PROVE  Slots' = Slots
<1>1. Nodes' = Nodes
  OBVIOUS
<1> QED BY <1>1 DEF Slots

\* No pointer changes.
LEMMA QuietTree ==
  ASSUME UNCHANGED <<direct, indirect, content>>
  PROVE  /\ Once => Once'
         /\ Pointed' = Pointed /\ \A n : n \in Nodes' <=> n \in Nodes
         /\ \A i \in Behind : \A k \in 0 .. Level(i) : Way(i)'[k] = Way(i)[k]
         /\ \A i : Pointer(i)' = Pointer(i)
<1>1. Nodes' = Nodes
  BY DEF Nodes, Below, Root, Entries
<1>2. Slots' = Slots
  BY <1>1 DEF Slots
<1>3. \A s : Val(s)' = Val(s)
  BY DEF Val
<1>4. Once => Once'
  <2> SUFFICES ASSUME Once, NEW t \in Slots', NEW u \in Slots', Val(t)' # Null, Val(t)' = Val(u)'
               PROVE  t = u
    BY Zenon DEF Once
  <2>1. t \in Slots /\ u \in Slots /\ Val(t) # Null /\ Val(t) = Val(u)
    BY <1>2, <1>3
  <2> QED BY <2>1, Zenon DEF Once
<1>5. Pointed' = Pointed
  <2>1. ASSUME NEW x PROVE x \in Pointed' <=> x \in Pointed
    BY <1>2, <1>3, PointedIs, PointedIsNext
  <2> QED BY <2>1
<1>6. \A i : Way(i)' = Way(i)
  BY DEF Way
<1>7. \A i : Pointer(i)' = Pointer(i)
  BY <1>6 DEF Pointer
<1> QED BY <1>1, <1>4, <1>5, <1>6, <1>7

----------------------------------------------------------------------------
(* What the steps have in common *)

\* The slot s at the end of the way to block j, at offset o of n, is all that changes.
LastWritten(j, n, o, v, s) ==
  /\ Slots' = Slots /\ s \in Slots /\ Val(s) = Way(j)[0] /\ Val(s)' = v
  /\ \A t \in Slots : t # s => Val(t)' = Val(t)
  /\ Way(j)'[0] = v
  /\ \A i \in Behind : i # j => Way(i)'[0] = Way(i)[0]
  /\ n \in Blocks /\ o \in Offsets

LEMMA LastSlot ==
  ASSUME IInv, NEW j \in Behind, NEW n, n = Way(j)[1], n # Null, NEW o, o = OffsetAt(j, 1),
         NEW v, NEW s, s = <<"block", n, o>>,
         direct' = direct, indirect' = indirect, content' = [content EXCEPT ![n][o] = v]
  PROVE  LastWritten(j, n, o, v, s)
<1>1. Once /\ content \in [Blocks -> [Offsets -> Ptr]] /\ Nodes \subseteq Blocks
  BY Basics DEF IInv
<1>2. \A i \in Behind : /\ Level(i) \in 1 .. 3 /\ OffsetAt(i, 1) \in Offsets
                        /\ 0 \in 0 .. Level(i) - 1 /\ 1 \in 1 .. Level(i)
  BY LevelIs, Decode
<1>3. \A i \in Behind : /\ Way(i)[0] = Kid(Way(i)[1], OffsetAt(i, 1))
                        /\ Way(i)[1] = Null \/ Way(i)[1] \in Tier(1)
  <2> TAKE i \in Behind
  <2>1. 0 \in 0 .. Level(i) - 1 /\ 1 \in 1 .. Level(i) /\ 0 + 1 = 1
    BY <1>2
  <2>2. Way(i)[0] = Kid(Way(i)[0 + 1], OffsetAt(i, 0 + 1))
    BY <2>1, WayIs, Zenon
  <2>3. Way(i)[1] = Null \/ Way(i)[1] \in Tier(1)
    BY <2>1, WayOnTiers, Zenon
  <2> QED BY <2>1, <2>2, <2>3
<1>4. n \in Tier(1) /\ n \in Nodes /\ n \in Blocks /\ o \in Offsets
  BY <1>1, <1>2, <1>3, NodesAre
<1>5. /\ content'[n][o] = v
      /\ \A m \in Blocks, p \in Offsets : m # n \/ p # o => content'[m][p] = content[m][p]
  BY <1>1, <1>4
<1>6. \A m : m \in Tier(2) \/ m \in Tier(3) => \A p \in Offsets : content'[m][p] = content[m][p]
  <2>1. \A m : m \in Tier(2) \/ m \in Tier(3) => m \in Blocks /\ m # n
    BY <1>1, <1>4, NodesAre, TiersApart
  <2> QED BY <1>5, <2>1
<1>7. /\ \A m : m \in Nodes' <=> m \in Nodes
      /\ \A i \in Behind :
           Way(i)'[0] = IF Way(i)[1] = Null THEN Null ELSE content'[Way(i)[1]][OffsetAt(i, 1)]
  BY <1>6, WaysStay
<1>8. Slots' = Slots
  BY <1>7, SameSlots
<1>9. s \in Slots /\ Val(s) = content[n][o] /\ Val(s)' = content'[n][o]
  BY <1>4, SlotsAre, SlotsAreNext
<1>10. Val(s) = Way(j)[0]
  BY <1>3, <1>9 DEF Kid
<1>11. ASSUME NEW t \in Slots, t # s PROVE Val(t)' = Val(t)
  <2>1. CASE \E i \in 0 .. DirectCount - 1 : t = <<"direct", i, 0>>
    BY <2>1, SlotsAre, SlotsAreNext
  <2>2. CASE \E l \in 1 .. 3 : t = <<"inode", l, 0>>
    BY <2>2, SlotsAre, SlotsAreNext
  <2>3. CASE \E m \in Nodes, p \in Offsets : t = <<"block", m, p>>
    <3>1. PICK m \in Nodes, p \in Offsets : t = <<"block", m, p>>
      BY <2>3
    <3>2. Val(t) = content[m][p]
      BY <3>1, SlotsAre
    <3>3. Val(t)' = content'[m][p]
      BY <3>1, SlotsAreNext
    <3>4. m # n \/ p # o
      BY <1>11, <3>1
    <3> QED BY <1>1, <1>5, <3>1, <3>2, <3>3, <3>4
  <2> QED BY <2>1, <2>2, <2>3, SlotsAre
<1>12. Way(j)'[0] = v
  BY <1>5, <1>7
<1>13. ASSUME NEW i \in Behind, i # j PROVE Way(i)'[0] = Way(i)[0]
  <2>1. CASE Way(i)[1] = Null
    BY <1>3, <1>7, <2>1 DEF Kid
  <2>2. CASE Way(i)[1] # Null
    <3>1. Way(i)[1] # n \/ OffsetAt(i, 1) # o
      BY <1>1, <1>13, <2>2, WayOnce
    <3>2. Way(i)[1] \in Blocks /\ OffsetAt(i, 1) \in Offsets
      BY <1>1, <1>2, <1>3, <2>2, NodesAre
    <3> QED BY <1>3, <1>5, <1>7, <2>2, <3>1, <3>2 DEF Kid
  <2> QED BY <2>1, <2>2
<1> QED BY <1>4, <1>5, <1>8, <1>9, <1>10, <1>11, <1>12, <1>13 DEF LastWritten

\* The last step of an append.
LEMMA FileGrows ==
  ASSUME IInv, pc # "release", pc' = "idle", NEW b \in Blocks, NEW c, c = Len(file),
         c < block_limits[3],
         file' = Append(file, b), size' = (c + 1) * BlockSize, Pointer(c)' = b,
         \A i \in 0 .. block_limits[3] - 1 : i # c => Pointer(i)' = Pointer(i)
  PROVE  /\ Mapped' /\ file' \in Seq(Blocks)
         /\ size' \in 0 .. block_limits[3] * BlockSize
<1>1. file \in Seq(Blocks) /\ c \in Nat /\ block_limits[3] \in Nat /\ Mapped
  BY Basics DEF IInv, TypeOK
<1>2. file' \in Seq(Blocks) /\ Len(file') = c + 1
  BY <1>1
<1>3. CeilBlocks((c + 1) * BlockSize) = c + 1 /\ (c + 1) * BlockSize \in Nat
  <2>1. c + 1 \in Nat
    BY <1>1
  <2> QED BY <2>1, CeilWhole
<1>4. CeilBlocks(size)' = c + 1
  <2>1. CeilBlocks(size)' = CeilBlocks(size')
    BY DEF CeilBlocks
  <2> QED BY <1>3, <2>1
<1>5. size' \in 0 .. block_limits[3] * BlockSize
  <2>1. (c + 1) * BlockSize <= block_limits[3] * BlockSize /\ block_limits[3] * BlockSize \in Int
    <3>1. c + 1 <= block_limits[3] /\ BlockSize \in Nat /\ c + 1 \in Int /\ block_limits[3] \in Int
      BY <1>1, Constants
    <3> QED BY <3>1, TimesMono
  <2> QED BY <1>3, <2>1
<1>6. ASSUME NEW i \in 0 .. block_limits[3] - 1
      PROVE  Pointer(i)' = IF Live(i)' THEN file'[i + 1] ELSE Null
  <2>1. Live(i)' <=> i < c + 1
    BY <1>2 DEF Live
  <2>2. Live(i) <=> i < c
    BY DEF Live
  <2>3. Pointer(i) = IF Live(i) THEN file[i + 1] ELSE Null
    BY <1>1 DEF Mapped
  <2>4. CASE i = c
    <3>1. file'[i + 1] = b /\ i < c + 1
      BY <1>1, <2>4
    <3>2. Pointer(i)' = b
      BY <2>4
    <3> QED BY <2>1, <3>1, <3>2
  <2>5. CASE i # c
    <3>1. Pointer(i)' = Pointer(i)
      BY <2>5
    <3>2. Live(i)' <=> Live(i)
      BY <1>1, <2>1, <2>2, <2>5
    <3>3. Live(i) => file'[i + 1] = file[i + 1]
      BY <1>1, <2>2
    <3> QED BY <2>3, <3>1, <3>2, <3>3
  <2> QED BY <2>4, <2>5
<1>7. Mapped'
  <2>1. Len(file') = CeilBlocks(size)'
    BY <1>2, <1>4
  <2> QED BY <1>6, <2>1, Zenon DEF Mapped
<1> QED BY <1>2, <1>5, <1>7

\* Neither the file nor a pointer to data changes.
LEMMA MapStays ==
  ASSUME Mapped, pc # "release", pc' # "release", UNCHANGED <<size, file>>,
         \A i \in 0 .. block_limits[3] - 1 : Pointer(i)' = Pointer(i)
  PROVE  Mapped'
<1>1. Len(file') = CeilBlocks(size)'
  BY DEF Mapped, CeilBlocks
<1>2. ASSUME NEW i \in 0 .. block_limits[3] - 1
      PROVE  Pointer(i)' = IF Live(i)' THEN file'[i + 1] ELSE Null
  <2>1. Live(i)' <=> Live(i)
    BY DEF Live
  <2>2. Pointer(i) = IF Live(i) THEN file[i + 1] ELSE Null
    BY DEF Mapped
  <2>3. Pointer(i)' = Pointer(i)
    OBVIOUS
  <2> QED BY <2>1, <2>2, <2>3
<1> QED BY <1>1, <1>2, Zenon DEF Mapped

\* A new indirect block is put into an empty slot.
LEMMA NodePut ==
  ASSUME IInv, NEW b, b \in Blocks, b # Null, b \notin used, b \notin Pointed, b \notin Nodes,
         NEW s \in Slots, Val(s) = Null, Val(s)' = b, s \in Slots',
         \A l \in 1 .. 3 : indirect'[l] = indirect[l] \/ (indirect[l] = Null /\ indirect'[l] = b),
         \A n \in Nodes, o \in Offsets :
           \/ content'[n][o] = content[n][o]
           \/ content[n][o] = Null /\ content'[n][o] = b,
         \A o \in Offsets : content'[b][o] = Null,
         \A n \in Tier(1), o \in Offsets : content'[n][o] = content[n][o],
         \A t \in Slots : t # s => Val(t)' = Val(t),
         UNCHANGED <<direct, hand>>, hand \in used, used' = used \cup {b}
  PROVE  /\ Once' /\ Kept'
         /\ \A i \in Behind : \A k \in 1 .. Level(i) :
              Way(i)[k] # Null => Way(i)'[k] = Way(i)[k]
         /\ \A i \in 0 .. block_limits[3] - 1 : Pointer(i)' = Pointer(i)
<1>1. /\ \A n : n \in Nodes => n \in Nodes'
      /\ \A n : n \in Nodes' => n \in Nodes \/ n = b
      /\ \A i \in Behind : \A k \in 1 .. Level(i) :
           Way(i)[k] # Null => Way(i)'[k] = Way(i)[k]
      /\ \A i \in Behind : Way(i)'[0] = Way(i)[0]
  BY NodeGrows
<1>2. Slots \subseteq Slots'
  <2> SUFFICES ASSUME NEW t \in Slots PROVE t \in Slots'
    OBVIOUS
  <2>1. CASE \E i \in 0 .. DirectCount - 1 : t = <<"direct", i, 0>>
    BY <2>1, SlotsAreNext
  <2>2. CASE \E l \in 1 .. 3 : t = <<"inode", l, 0>>
    BY <2>2, SlotsAreNext
  <2>3. CASE \E m \in Nodes, p \in Offsets : t = <<"block", m, p>>
    <3>1. PICK m \in Nodes, p \in Offsets : t = <<"block", m, p>>
      BY <2>3
    <3>2. m \in Nodes'
      BY <1>1, <3>1
    <3> QED BY <3>1, <3>2, SlotsAreNext
  <2> QED BY <2>1, <2>2, <2>3, SlotsAre
<1>3. ASSUME NEW t \in Slots', t # s PROVE Val(t)' = IF t \in Slots THEN Val(t) ELSE Null
  <2>1. CASE t \in Slots
    BY <1>3, <2>1
  <2>2. CASE t \notin Slots
    <3>1. ~ \E i \in 0 .. DirectCount - 1 : t = <<"direct", i, 0>>
      BY <2>2, SlotsAre
    <3>2. ~ \E l \in 1 .. 3 : t = <<"inode", l, 0>>
      BY <2>2, SlotsAre
    <3>3. PICK m \in Nodes', p \in Offsets : t = <<"block", m, p>>
      BY <3>1, <3>2, SlotsAreNext
    <3>4. m = b
      BY <1>1, <2>2, <3>3, SlotsAre
    <3>5. Val(t)' = content'[m][p]
      BY <3>3, SlotsAreNext
    <3> QED BY <2>2, <3>3, <3>4, <3>5
  <2> QED BY <2>1, <2>2
<1>4. Once /\ Pointed = used \ {hand}
  BY DEF IInv, Kept
<1>5. Once' /\ Pointed' = Pointed \cup {b}
  BY <1>2, <1>3, <1>4, PutKeeps
<1>6. Kept'
  <2>1. b # hand
    OBVIOUS
  <2>2. Pointed' = used' \ {hand'}
    BY <1>4, <1>5, <2>1
  <2> QED BY <2>2, Zenon DEF Kept
<1>7. ASSUME NEW i \in 0 .. block_limits[3] - 1 PROVE Pointer(i)' = Pointer(i)
  <2>1. CASE i < DirectCount
    BY <2>1 DEF Pointer
  <2>2. CASE ~(i < DirectCount)
    <3>1. i \in Behind
      BY <2>2, LimitsGrow, Constants DEF Behind
    <3>2. Way(i)'[0] = Way(i)[0]
      BY <1>1, <3>1
    <3> QED BY <2>2, <3>2 DEF Pointer
  <2> QED BY <2>1, <2>2
<1> QED BY <1>1, <1>5, <1>6, <1>7

----------------------------------------------------------------------------
(* Appending *)

LEMMA AppendDirectKeeps ==
  ASSUME IInv, AppendDirect
  PROVE  IInv'
<1>0. PICK b, c : b = FirstFree /\ c = Len(file)
  OBVIOUS
<1>1. /\ pc = "idle" /\ pc' = "idle" /\ Free # {} /\ c < DirectCount /\ c = CeilBlocks(size)
      /\ direct' = [direct EXCEPT ![c] = b] /\ used' = used \cup {b}
      /\ size' = (c + 1) * BlockSize /\ file' = Append(file, b)
      /\ UNCHANGED <<indirect, content, ib, lvl, cur, hand, goal, others>>
  BY <1>0, Basics DEF AppendDirect
<1>2. TypeOK /\ Once /\ Kept /\ Mapped /\ Walking
  BY DEF IInv
<1>3. b \in Blocks /\ b # Null /\ b \notin used /\ b \notin Pointed
  BY <1>0, <1>1, FreshIs
<1>4. /\ c \in 0 .. DirectCount - 1 /\ c \in Nat /\ DirectCount \in Nat /\ c < block_limits[3]
      /\ block_limits[3] \in Nat /\ DirectCount < block_limits[3]
      /\ direct \in [0 .. DirectCount - 1 -> Ptr]
  BY <1>0, <1>1, Basics, Constants
<1>5. hand = Null
  BY <1>1, <1>2 DEF Walking
<1>6. direct[c] = Null
  <2>1. c \in 0 .. block_limits[3] - 1
    BY <1>4
  <2>2. Pointer(c) = Null
    BY <1>0, <1>2, <1>4, <2>1 DEF Mapped, Live
  <2> QED BY <1>1, <2>2 DEF Pointer
<1>7. Nodes' = Nodes /\ \A i : Way(i)' = Way(i)
  BY <1>1 DEF Nodes, Below, Root, Entries, Way
<1>8. Slots' = Slots
  BY <1>7 DEF Slots
<1> DEFINE s == <<"direct", c, 0>>
<1>9. s \in Slots /\ Val(s) = Null /\ Val(s)' = b
  BY <1>1, <1>4, <1>6, SlotsAre, SlotsAreNext
<1>10. ASSUME NEW t \in Slots, t # s PROVE Val(t)' = Val(t)
  <2>1. CASE \E i \in 0 .. DirectCount - 1 : t = <<"direct", i, 0>>
    <3>1. PICK i \in 0 .. DirectCount - 1 : t = <<"direct", i, 0>>
      BY <2>1
    <3>2. i # c
      BY <1>10, <3>1
    <3>3. Val(t) = direct[i]
      BY <3>1, SlotsAre
    <3>4. Val(t)' = direct'[i]
      BY <3>1, SlotsAreNext
    <3> QED BY <1>1, <1>4, <3>1, <3>2, <3>3, <3>4
  <2>2. CASE \E l \in 1 .. 3 : t = <<"inode", l, 0>>
    BY <1>1, <2>2, SlotsAre, SlotsAreNext
  <2>3. CASE \E m \in Nodes, p \in Offsets : t = <<"block", m, p>>
    <3>1. PICK m \in Nodes, p \in Offsets : t = <<"block", m, p>>
      BY <2>3
    <3>2. Val(t) = content[m][p]
      BY <3>1, SlotsAre
    <3>3. Val(t)' = content'[m][p]
      BY <3>1, SlotsAreNext
    <3> QED BY <1>1, <3>2, <3>3
  <2> QED BY <2>1, <2>2, <2>3, SlotsAre
<1>11. Once' /\ Pointed' = Pointed \cup {b}
  <2>1. \A t \in Slots' : t # s => Val(t)' = IF t \in Slots THEN Val(t) ELSE Null
    BY <1>8, <1>10
  <2>2. Slots \subseteq Slots'
    BY <1>8
  <2> HIDE DEF s
  <2> QED BY <1>2, <1>3, <1>9, <2>1, <2>2, PutKeeps
<1>12. Kept'
  <2>1. Pointed' = used' \ {hand'}
    <3>1. Pointed = used \ {hand}
      BY <1>2 DEF Kept
    <3> QED BY <1>1, <1>3, <1>5, <1>11, <3>1
  <2> QED BY <2>1, Zenon DEF Kept
<1>13. Pointer(c)' = b /\ \A i \in 0 .. block_limits[3] - 1 : i # c => Pointer(i)' = Pointer(i)
  <2>1. Pointer(c)' = b
    BY <1>1, <1>4 DEF Pointer
  <2>2. ASSUME NEW i \in 0 .. block_limits[3] - 1, i # c PROVE Pointer(i)' = Pointer(i)
    <3>1. CASE i < DirectCount
      <4>1. i \in 0 .. DirectCount - 1
        BY <1>4, <3>1
      <4>2. direct'[i] = direct[i]
        BY <1>1, <1>4, <2>2, <4>1
      <4> QED BY <3>1, <4>2 DEF Pointer
    <3>2. CASE ~(i < DirectCount)
      BY <1>7, <3>2 DEF Pointer
    <3> QED BY <3>1, <3>2
  <2> QED BY <2>1, <2>2
<1>14. /\ Mapped' /\ file' \in Seq(Blocks)
       /\ size' \in 0 .. block_limits[3] * BlockSize
  BY <1>0, <1>1, <1>3, <1>4, <1>13, FileGrows
<1>15. TypeOK'
  <2>1. direct' \in [0 .. DirectCount - 1 -> Ptr]
    BY <1>1, <1>3, <1>4, Constants
  <2>2. used' \subseteq Blocks
    BY <1>1, <1>2, <1>3 DEF TypeOK
  <2> QED BY <1>1, <1>2, <1>14, <2>1, <2>2 DEF TypeOK
<1>16. Walking' /\ Releasing' /\ Freeing'
  BY <1>1, <1>5 DEF Walking, Releasing, Freeing
<1> QED BY <1>11, <1>12, <1>14, <1>15, <1>16 DEF IInv

LEMMA AppendStartKeeps ==
  ASSUME IInv, AppendStart
  PROVE  IInv'
<1>0. PICK b, c, l : b = FirstFree /\ c = Len(file) /\ l = Level(c)
  OBVIOUS
<1>1. /\ pc = "idle" /\ pc' = "top" /\ Free # {} /\ c \in Behind
      /\ ib' = c /\ lvl' = l /\ cur' = indirect[l] /\ hand' = b /\ used' = used \cup {b}
      /\ UNCHANGED <<size, direct, indirect, content, goal, file, others>>
  <2>1. CeilBlocks(size) = c
    BY <1>0, Basics
  <2> QED BY <1>0, <2>1 DEF AppendStart, Behind
<1>2. TypeOK /\ Once /\ Kept /\ Mapped /\ Walking
  BY DEF IInv
<1>3. b \in Blocks /\ b # Null /\ b \notin used
  BY <1>0, <1>1, FreshIs
<1>4. l \in 1 .. 3 /\ c \in Nat /\ c < block_limits[3] /\ block_limits[3] \in Nat
  BY <1>0, <1>1, LevelIs, LimitsGrow DEF Behind
<1>5. hand = Null
  BY <1>1, <1>2 DEF Walking
<1>6. /\ Once' /\ Pointed' = Pointed
      /\ \A i \in Behind : \A k \in 0 .. Level(i) : Way(i)'[k] = Way(i)[k]
      /\ \A i : Pointer(i)' = Pointer(i)
  BY <1>1, <1>2, QuietTree
<1>7. Kept'
  <2>1. Pointed = used \ {hand}
    BY <1>2 DEF Kept
  <2>2. Null \notin used
    BY Basics
  <2>3. Pointed' = used' \ {hand'}
    BY <1>1, <1>3, <1>5, <1>6, <2>1, <2>2
  <2> QED BY <2>3, Zenon DEF Kept
<1>8. Mapped'
  BY <1>1, <1>2, <1>6, MapStays
<1>9. TypeOK'
  <2>1. used' \subseteq Blocks /\ hand' \in Ptr
    BY <1>1, <1>2, <1>3, Constants DEF TypeOK
  <2>2. ib' \in 0 .. block_limits[3] /\ lvl' \in 0 .. 3
    BY <1>1, <1>4
  <2>3. cur' \in Ptr
    BY <1>1, <1>2, <1>4 DEF TypeOK
  <2> QED BY <1>1, <1>2, <2>1, <2>2, <2>3 DEF TypeOK
<1>10. Walking'
  <2>1. Way(c)'[l] = indirect[l]
    <3>1. l \in 0 .. l
      BY <1>4
    <3> QED BY <1>0, <1>1, <1>6, <3>1, WayIs
  <2>2. l \in 1 .. l /\ b \in used'
    BY <1>1, <1>4
  <2> QED BY <1>0, <1>1, <2>1, <2>2, WalkingIsNext
<1>11. Releasing' /\ Freeing'
  BY <1>1 DEF Releasing, Freeing
<1> QED BY <1>6, <1>7, <1>8, <1>9, <1>10, <1>11 DEF IInv

LEMMA TopBlockKeeps ==
  ASSUME IInv, TopBlock
  PROVE  IInv'
<1>0. PICK b, i, l : b = FirstFree /\ i = ib /\ l = lvl
  OBVIOUS
<1>1. /\ pc = "top" /\ pc' = "walk" /\ ib' = i /\ lvl' = l
      /\ UNCHANGED <<size, direct, hand, goal, file, others>>
      /\ \/ cur # Null /\ UNCHANGED <<indirect, content, used, cur>>
         \/ /\ cur = Null /\ Free # {}
            /\ indirect' = [indirect EXCEPT ![l] = b]
            /\ content' = [content EXCEPT ![b] = ZeroBlock]
            /\ used' = used \cup {b} /\ cur' = b
  BY <1>0 DEF TopBlock
<1>2. TypeOK /\ Once /\ Kept /\ Mapped /\ Walking
  BY DEF IInv
<1>3. /\ i = Len(file) /\ i \in Behind /\ l \in 1 .. 3 /\ l = Level(i)
      /\ cur = indirect[l] /\ hand \in used /\ hand # Null
  <2>1. /\ i = Len(file) /\ i \in Behind /\ l \in 1 .. Level(i)
        /\ cur = Way(i)[l] /\ hand \in used /\ l = Level(i)
    BY <1>0, <1>1, <1>2 DEF Walking
  <2> QED BY <2>1, LevelIs, WayIs, Basics
<1>4. Releasing' /\ Freeing'
  BY <1>1 DEF Releasing, Freeing
<1>5. CASE cur # Null
  <2>1. UNCHANGED <<direct, indirect, content, used, cur>>
    BY <1>1, <1>5
  <2>2. /\ Once' /\ Pointed' = Pointed
        /\ \A j \in Behind : \A k \in 0 .. Level(j) : Way(j)'[k] = Way(j)[k]
        /\ \A j : Pointer(j)' = Pointer(j)
    BY <1>2, <2>1, QuietTree
  <2>3. Kept'
    <3>1. Pointed' = used' \ {hand'}
      BY <1>1, <1>2, <2>1, <2>2 DEF Kept
    <3> QED BY <3>1, Zenon DEF Kept
  <2>4. Mapped'
    BY <1>1, <1>2, <2>2, MapStays
  <2>5. TypeOK'
    BY <1>0, <1>1, <1>2, <2>1 DEF TypeOK
  <2>6. Walking'
    <3>1. Way(i)'[l] = cur
      <4>1. l \in 0 .. l
        BY <1>3
      <4> QED BY <1>3, <2>2, <4>1, WayIs
    <3>2. l \in 1 .. l
      BY <1>3
    <3> QED BY <1>1, <1>3, <1>5, <2>1, <3>1, <3>2, WalkingIsNext
  <2> QED BY <1>4, <2>2, <2>3, <2>4, <2>5, <2>6 DEF IInv
<1>6. CASE cur = Null
  <2>1. /\ Free # {} /\ indirect' = [indirect EXCEPT ![l] = b]
        /\ content' = [content EXCEPT ![b] = ZeroBlock]
        /\ used' = used \cup {b} /\ cur' = b
    BY <1>1, <1>6
  <2>2. b \in Blocks /\ b # Null /\ b \notin used /\ b \notin Pointed /\ b \notin Nodes
    BY <1>0, <2>1, FreshIs
  <2>3. /\ indirect \in [1 .. 3 -> Ptr] /\ content \in [Blocks -> [Offsets -> Ptr]]
        /\ Nodes \subseteq Blocks
    BY Basics
  <2>4. /\ \A m \in 1 .. 3 : indirect'[m] = IF m = l THEN b ELSE indirect[m]
        /\ indirect[l] = Null
    BY <1>3, <1>6, <2>1, <2>3
  <2>5. /\ \A n \in Nodes : content'[n] = content[n]
        /\ \A o \in Offsets : content'[b][o] = Null
    BY <2>1, <2>2, <2>3 DEF ZeroBlock
  <2> DEFINE s == <<"inode", l, 0>>
  <2>6. s \in Slots /\ s \in Slots' /\ Val(s) = Null /\ Val(s)' = b
    BY <1>3, <2>4, SlotsAre, SlotsAreNext
  <2>7. ASSUME NEW t \in Slots, t # s PROVE Val(t)' = Val(t)
    <3>1. CASE \E j \in 0 .. DirectCount - 1 : t = <<"direct", j, 0>>
      BY <1>1, <3>1, SlotsAre, SlotsAreNext
    <3>2. CASE \E m \in 1 .. 3 : t = <<"inode", m, 0>>
      <4>1. PICK m \in 1 .. 3 : t = <<"inode", m, 0>>
        BY <3>2
      <4>2. Val(t) = indirect[m]
        BY <4>1, SlotsAre
      <4>3. Val(t)' = indirect'[m]
        BY <4>1, SlotsAreNext
      <4>4. m # l
        BY <2>7, <4>1
      <4> QED BY <2>4, <4>1, <4>2, <4>3, <4>4
    <3>3. CASE \E m \in Nodes, p \in Offsets : t = <<"block", m, p>>
      <4>1. PICK m \in Nodes, p \in Offsets : t = <<"block", m, p>>
        BY <3>3
      <4>2. Val(t) = content[m][p]
        BY <4>1, SlotsAre
      <4>3. Val(t)' = content'[m][p]
        BY <4>1, SlotsAreNext
      <4> QED BY <2>5, <4>1, <4>2, <4>3
    <3> QED BY <3>1, <3>2, <3>3, SlotsAre
  <2>8. /\ Once' /\ Kept'
        /\ \A j \in 0 .. block_limits[3] - 1 : Pointer(j)' = Pointer(j)
    <3> HIDE DEF s
    <3>1. \A m \in 1 .. 3 : indirect'[m] = indirect[m] \/ (indirect[m] = Null /\ indirect'[m] = b)
      BY <2>4
    <3>2. /\ \A n \in Nodes, o \in Offsets :
               \/ content'[n][o] = content[n][o]
               \/ content[n][o] = Null /\ content'[n][o] = b
          /\ \A n \in Tier(1), o \in Offsets : content'[n][o] = content[n][o]
      BY <2>5, NodesAre
    <3>3. UNCHANGED <<direct, hand>> /\ hand \in used
      BY <1>1, <1>3
    <3> QED BY <2>1, <2>2, <2>5, <2>6, <2>7, <3>1, <3>2, <3>3, NodePut
  <2>9. Mapped'
    BY <1>1, <1>2, <2>8, MapStays
  <2>10. TypeOK'
    <3>1. indirect' \in [1 .. 3 -> Ptr] /\ cur' \in Ptr
      BY <2>1, <2>2, <2>3, Constants
    <3>2. content' \in [Blocks -> [Offsets -> Ptr]]
      <4>1. ZeroBlock \in [Offsets -> Ptr]
        BY Constants DEF ZeroBlock
      <4> QED BY <2>1, <2>3, <4>1
    <3>3. used' \subseteq Blocks
      BY <1>2, <2>1, <2>2 DEF TypeOK
    <3> QED BY <1>0, <1>1, <1>2, <3>1, <3>2, <3>3 DEF TypeOK
  <2>11. Walking'
    <3>1. Way(i)'[l] = b
      <4>1. Way(i)'[l] = indirect'[l]
        BY <1>3, WayIsNext
      <4> QED BY <1>3, <2>4, <4>1
    <3>2. l \in 1 .. l /\ hand \in used'
      BY <1>3, <2>1
    <3> QED BY <1>1, <1>3, <2>1, <2>2, <3>1, <3>2, WalkingIsNext
  <2> QED BY <1>4, <2>8, <2>9, <2>10, <2>11 DEF IInv
<1> QED BY <1>5, <1>6

LEMMA WalkDownKeeps ==
  ASSUME IInv, WalkDown
  PROVE  IInv'
<1>0. PICK b, i, l, n, o : b = FirstFree /\ i = ib /\ l = lvl /\ n = cur /\ o = OffsetAt(i, l)
  OBVIOUS
<1>1. /\ pc = "walk" /\ pc' = "walk" /\ ib' = i /\ lvl' = l - 1 /\ l > 1
      /\ UNCHANGED <<size, direct, indirect, hand, goal, file, others>>
      /\ \/ content[n][o] # Null /\ cur' = content[n][o] /\ UNCHANGED <<content, used>>
         \/ /\ content[n][o] = Null /\ Free # {}
            /\ content' = [content EXCEPT ![b] = ZeroBlock, ![n][o] = b]
            /\ used' = used \cup {b} /\ cur' = b
  BY <1>0 DEF WalkDown, Here
<1>2. TypeOK /\ Once /\ Kept /\ Mapped /\ Walking
  BY DEF IInv
<1>3. /\ i = Len(file) /\ i \in Behind /\ l \in 1 .. Level(i) /\ Level(i) \in 1 .. 3
      /\ n = Way(i)[l] /\ hand \in used /\ n # Null
  <2>1. /\ i = Len(file) /\ i \in Behind /\ l \in 1 .. Level(i)
        /\ n = Way(i)[l] /\ hand \in used /\ n # Null
    BY <1>0, <1>1, <1>2 DEF Walking
  <2> QED BY <2>1, LevelIs
<1>4. l \in 2 .. 3 /\ l - 1 \in 0 .. Level(i) - 1 /\ l - 1 \in 1 .. Level(i) /\ l - 1 + 1 = l
  BY <1>1, <1>3
<1>5. Way(i)[l - 1] = content[n][o] /\ o \in Offsets
  <2>1. Way(i)[l - 1] = Kid(Way(i)[l - 1 + 1], OffsetAt(i, l - 1 + 1))
    BY <1>3, <1>4, WayIs, Zenon
  <2>2. l \in 1 .. 3
    BY <1>4
  <2> QED BY <1>0, <1>3, <1>4, <2>1, <2>2, Decode DEF Kid
<1>6. n \in Tier(l) /\ n \in Nodes /\ n \notin Tier(1) /\ n \in Blocks
  <2>1. n \in Tier(l)
    BY <1>3, WayOnTiers
  <2>2. CASE l = 2
    BY <1>2, <2>1, <2>2, NodesAre, TiersApart, Basics
  <2>3. CASE l = 3
    BY <1>2, <2>1, <2>3, NodesAre, TiersApart, Basics
  <2> QED BY <1>4, <2>1, <2>2, <2>3
<1>7. Releasing' /\ Freeing'
  BY <1>1 DEF Releasing, Freeing
<1>8. CASE content[n][o] # Null
  <2>1. UNCHANGED <<direct, indirect, content, used>> /\ cur' = content[n][o]
    BY <1>1, <1>8
  <2>2. /\ Once' /\ Pointed' = Pointed
        /\ \A j \in Behind : \A k \in 0 .. Level(j) : Way(j)'[k] = Way(j)[k]
        /\ \A j : Pointer(j)' = Pointer(j)
    BY <1>2, <2>1, QuietTree
  <2>3. Kept'
    <3>1. Pointed' = used' \ {hand'}
      BY <1>1, <1>2, <2>1, <2>2 DEF Kept
    <3> QED BY <3>1, Zenon DEF Kept
  <2>4. Mapped'
    BY <1>1, <1>2, <2>2, MapStays
  <2>5. TypeOK'
    <3>1. content[n][o] \in Ptr
      BY <1>5, <1>6, Basics
    <3>2. lvl' \in 0 .. 3
      BY <1>1, <1>4
    <3> QED BY <1>0, <1>1, <1>2, <2>1, <3>1, <3>2 DEF TypeOK
  <2>6. Walking'
    <3>1. Way(i)'[l - 1] = content[n][o]
      <4>1. l - 1 \in 0 .. Level(i)
        BY <1>4
      <4> QED BY <1>3, <1>5, <2>2, <4>1
    <3> QED BY <1>1, <1>3, <1>4, <1>8, <2>1, <3>1, WalkingIsNext
  <2> QED BY <1>7, <2>2, <2>3, <2>4, <2>5, <2>6 DEF IInv
<1>9. CASE content[n][o] = Null
  <2>1. /\ Free # {} /\ content' = [content EXCEPT ![b] = ZeroBlock, ![n][o] = b]
        /\ used' = used \cup {b} /\ cur' = b
    BY <1>1, <1>9
  <2>2. b \in Blocks /\ b # Null /\ b \notin used /\ b \notin Pointed /\ b \notin Nodes
    BY <1>0, <2>1, FreshIs
  <2>3. /\ content \in [Blocks -> [Offsets -> Ptr]] /\ Nodes \subseteq Blocks
        /\ ZeroBlock \in [Offsets -> Ptr]
    BY Basics, Constants DEF ZeroBlock
  <2>4. n # b
    BY <1>6, <2>2
  <2>5. /\ content'[n][o] = b
        /\ \A m \in Nodes, p \in Offsets : m # n \/ p # o => content'[m][p] = content[m][p]
        /\ \A p \in Offsets : content'[b][p] = Null
    <3>1. /\ content'[n] = [content[n] EXCEPT ![o] = b]
          /\ content'[b] = ZeroBlock
          /\ \A m \in Blocks : m # n /\ m # b => content'[m] = content[m]
      BY <1>6, <2>1, <2>2, <2>3, <2>4
    <3>2. content[n] \in [Offsets -> Ptr]
      BY <1>6, <2>3
    <3>3. content'[n][o] = b /\ \A p \in Offsets : p # o => content'[n][p] = content[n][p]
      BY <1>5, <3>1, <3>2
    <3>4. \A m \in Nodes, p \in Offsets : m # n \/ p # o => content'[m][p] = content[m][p]
      BY <2>2, <2>3, <3>1, <3>3
    <3> QED BY <3>1, <3>3, <3>4 DEF ZeroBlock
  <2> DEFINE s == <<"block", n, o>>
  <2>6. s \in Slots /\ Val(s) = Null /\ Val(s)' = b
    <3>1. s \in Slots /\ Val(s) = content[n][o]
      BY <1>5, <1>6, SlotsAre
    <3>2. Val(s)' = content'[n][o]
      BY SlotsAreNext
    <3> QED BY <1>9, <2>5, <3>1, <3>2
  <2>7. ASSUME NEW t \in Slots, t # s PROVE Val(t)' = Val(t)
    <3>1. CASE \E j \in 0 .. DirectCount - 1 : t = <<"direct", j, 0>>
      BY <1>1, <3>1, SlotsAre, SlotsAreNext
    <3>2. CASE \E m \in 1 .. 3 : t = <<"inode", m, 0>>
      BY <1>1, <3>2, SlotsAre, SlotsAreNext
    <3>3. CASE \E m \in Nodes, p \in Offsets : t = <<"block", m, p>>
      <4>1. PICK m \in Nodes, p \in Offsets : t = <<"block", m, p>>
        BY <3>3
      <4>2. Val(t) = content[m][p]
        BY <4>1, SlotsAre
      <4>3. Val(t)' = content'[m][p]
        BY <4>1, SlotsAreNext
      <4>4. m # n \/ p # o
        BY <2>7, <4>1
      <4> QED BY <2>5, <4>1, <4>2, <4>3, <4>4
    <3> QED BY <3>1, <3>2, <3>3, SlotsAre
  <2>8. /\ \A m \in 1 .. 3 : indirect'[m] = indirect[m] \/ (indirect[m] = Null /\ indirect'[m] = b)
        /\ \A m \in Nodes, p \in Offsets :
             \/ content'[m][p] = content[m][p]
             \/ content[m][p] = Null /\ content'[m][p] = b
        /\ \A m \in Tier(1), p \in Offsets : content'[m][p] = content[m][p]
    <3>1. \A m \in Nodes, p \in Offsets :
            \/ content'[m][p] = content[m][p]
            \/ content[m][p] = Null /\ content'[m][p] = b
      BY <1>9, <2>5
    <3>2. \A m \in Tier(1) : m \in Nodes /\ m # n
      BY <1>6, NodesAre
    <3> QED BY <1>1, <2>5, <3>1, <3>2
  <2>9. s \in Slots'
    <3>1. n \in Nodes'
      BY <1>6, <2>2, <2>5, <2>8, NodeGrows
    <3> QED BY <1>5, <3>1, SlotsAreNext
  <2>10. /\ Once' /\ Kept'
         /\ \A j \in Behind : \A k \in 1 .. Level(j) :
              Way(j)[k] # Null => Way(j)'[k] = Way(j)[k]
         /\ \A j \in 0 .. block_limits[3] - 1 : Pointer(j)' = Pointer(j)
    <3> HIDE DEF s
    <3>1. UNCHANGED <<direct, hand>> /\ hand \in used
      BY <1>1, <1>3
    <3>2. used' = used \cup {b} /\ \A p \in Offsets : content'[b][p] = Null
      BY <2>1, <2>5
    <3> QED BY <2>2, <2>6, <2>7, <2>8, <2>9, <3>1, <3>2, NodePut
  <2>11. Mapped'
    BY <1>1, <1>2, <2>10, MapStays
  <2>12. TypeOK'
    <3>1. content' \in [Blocks -> [Offsets -> Ptr]]
      <4>1. [content EXCEPT ![b] = ZeroBlock] \in [Blocks -> [Offsets -> Ptr]]
        BY <2>3
      <4>2. b \in Ptr
        BY <2>2, Constants
      <4> QED BY <1>5, <1>6, <2>1, <4>1, <4>2
    <3>2. used' \subseteq Blocks /\ cur' \in Ptr
      BY <1>2, <2>1, <2>2, Constants DEF TypeOK
    <3>3. lvl' \in 0 .. 3
      BY <1>1, <1>4
    <3> QED BY <1>0, <1>1, <1>2, <3>1, <3>2, <3>3 DEF TypeOK
  <2>13. Walking'
    <3>1. Way(i)'[l] = n
      BY <1>3, <2>10
    <3>2. Way(i)'[l - 1] = b
      <4>1. Way(i)'[l - 1] = IF Way(i)'[l - 1 + 1] = Null THEN Null
                             ELSE content'[Way(i)'[l - 1 + 1]][OffsetAt(i, l - 1 + 1)]
        BY <1>3, <1>4, WayIsNext, Zenon DEF Kid
      <4> QED BY <1>0, <1>3, <1>4, <2>5, <3>1, <4>1
    <3>3. hand \in used'
      BY <1>3, <2>1
    <3> QED BY <1>1, <1>3, <1>4, <2>1, <2>2, <3>2, <3>3, WalkingIsNext
  <2> QED BY <1>7, <2>10, <2>11, <2>12, <2>13 DEF IInv
<1> QED BY <1>8, <1>9

LEMMA WalkLastKeeps ==
  ASSUME IInv, WalkLast
  PROVE  IInv'
<1>0. PICK b, i, n, o : b = hand /\ i = ib /\ n = cur /\ o = OffsetAt(i, 1)
  OBVIOUS
<1>1. /\ pc = "walk" /\ lvl = 1 /\ pc' = "idle"
      /\ content' = [content EXCEPT ![n][o] = b]
      /\ size' = (i + 1) * BlockSize /\ file' = Append(file, b)
      /\ hand' = Null /\ cur' = Null /\ lvl' = 0 /\ ib' = 0
      /\ UNCHANGED <<direct, indirect, used, goal, others>>
  BY <1>0 DEF WalkLast, Here
<1>2. TypeOK /\ Once /\ Kept /\ Mapped /\ Walking
  BY DEF IInv
<1>3. /\ i = Len(file) /\ i \in Behind /\ n = Way(i)[1] /\ b \in used /\ n # Null
  BY <1>0, <1>1, <1>2 DEF Walking
<1>4. /\ b \in Blocks /\ b # Null /\ b \notin Pointed /\ Null \notin used
      /\ i \in Nat /\ i < block_limits[3] /\ ~(i < DirectCount)
      /\ block_limits[3] \in Nat /\ DirectCount \in Nat
  <2>1. b \in Blocks /\ b # Null /\ Null \notin used
    BY <1>3, Basics
  <2>2. b \notin Pointed
    BY <1>0, <1>2 DEF Kept
  <2> QED BY <1>3, <2>1, <2>2, LevelIs, LimitsGrow, Constants DEF Behind
<1>s. PICK s : s = <<"block", n, o>>
  OBVIOUS
<1>5. /\ Slots' = Slots /\ s \in Slots /\ Val(s) = Way(i)[0] /\ Val(s)' = b
      /\ \A t \in Slots : t # s => Val(t)' = Val(t)
      /\ Way(i)'[0] = b
      /\ \A j \in Behind : j # i => Way(j)'[0] = Way(j)[0]
      /\ n \in Blocks /\ o \in Offsets
  <2>1. direct' = direct /\ indirect' = indirect /\ content' = [content EXCEPT ![n][o] = b]
    BY <1>1
  <2>2. i \in Behind /\ n = Way(i)[1] /\ n # Null /\ o = OffsetAt(i, 1)
    BY <1>0, <1>3
  <2>3. LastWritten(i, n, o, b, s)
    BY <1>s, <2>1, <2>2, LastSlot
  <2> QED BY <2>3 DEF LastWritten
<1>6. Way(i)[0] = Null
  <2>1. i \in 0 .. block_limits[3] - 1
    BY <1>4
  <2>2. ~Live(i)
    BY <1>3, <1>4 DEF Live
  <2>3. Pointer(i) = Null
    BY <1>2, <2>1, <2>2 DEF Mapped
  <2> QED BY <1>4, <2>3 DEF Pointer
<1>7. Once' /\ Pointed' = Pointed \cup {b}
  <2>1. \A t \in Slots' : t # s => Val(t)' = IF t \in Slots THEN Val(t) ELSE Null
    BY <1>5
  <2>2. Slots \subseteq Slots' /\ s \in Slots /\ Val(s) = Null /\ Val(s)' = b
    BY <1>5, <1>6
  <2> QED BY <1>2, <1>4, <2>1, <2>2, PutKeeps
<1>8. Kept'
  <2>1. Pointed' = used' \ {hand'}
    <3>1. Pointed = used \ {b}
      BY <1>0, <1>2 DEF Kept
    <3> QED BY <1>1, <1>3, <1>4, <1>7, <3>1
  <2> QED BY <2>1, Zenon DEF Kept
<1>9. Pointer(i)' = b /\ \A j \in 0 .. block_limits[3] - 1 : j # i => Pointer(j)' = Pointer(j)
  <2>1. Pointer(i)' = b
    BY <1>4, <1>5 DEF Pointer
  <2>2. ASSUME NEW j \in 0 .. block_limits[3] - 1, j # i PROVE Pointer(j)' = Pointer(j)
    <3>1. CASE j < DirectCount
      BY <1>1, <3>1 DEF Pointer
    <3>2. CASE ~(j < DirectCount)
      <4>1. j \in Behind
        BY <1>4, <3>2 DEF Behind
      <4> QED BY <1>5, <2>2, <3>2, <4>1 DEF Pointer
    <3> QED BY <3>1, <3>2
  <2> QED BY <2>1, <2>2
<1>10. /\ Mapped' /\ file' \in Seq(Blocks)
       /\ size' \in 0 .. block_limits[3] * BlockSize
  BY <1>1, <1>3, <1>4, <1>9, FileGrows
<1>11. TypeOK'
  <2>1. content' \in [Blocks -> [Offsets -> Ptr]]
    <3>1. content \in [Blocks -> [Offsets -> Ptr]] /\ b \in Ptr
      BY <1>4, Basics, Constants
    <3> QED BY <1>1, <1>5, <3>1
  <2>2. ib' \in 0 .. block_limits[3] /\ lvl' \in 0 .. 3 /\ cur' \in Ptr /\ hand' \in Ptr
    BY <1>1, <1>4, Constants
  <2> QED BY <1>1, <1>2, <1>10, <2>1, <2>2 DEF TypeOK
<1>12. Walking' /\ Releasing' /\ Freeing'
  BY <1>1 DEF Walking, Releasing, Freeing
<1> QED BY <1>7, <1>8, <1>10, <1>11, <1>12 DEF IInv

LEMMA AppendFailsKeeps ==
  ASSUME IInv, AppendFails
  PROVE  IInv'
<1>1. /\ pc \in {"top", "walk"} /\ pc' = "idle" /\ used' = used \ {hand}
      /\ hand' = Null /\ cur' = Null /\ lvl' = 0 /\ ib' = 0
      /\ UNCHANGED <<size, direct, indirect, content, goal, file, others>>
  BY DEF AppendFails
<1>2. TypeOK /\ Once /\ Kept /\ Mapped
  BY DEF IInv
<1>3. Once' /\ Pointed' = Pointed /\ \A i : Pointer(i)' = Pointer(i)
  BY <1>1, <1>2, QuietTree
<1>4. Kept'
  <2>1. Pointed' = used' \ {hand'}
    <3>1. Pointed = used \ {hand} /\ Null \notin used
      BY <1>2, Basics DEF Kept
    <3> QED BY <1>1, <1>3, <3>1
  <2> QED BY <2>1, Zenon DEF Kept
<1>5. Mapped'
  BY <1>1, <1>2, <1>3, MapStays
<1>6. TypeOK'
  <2>1. used' \subseteq Blocks /\ ib' \in 0 .. block_limits[3] /\ lvl' \in 0 .. 3
        /\ cur' \in Ptr /\ hand' \in Ptr
    BY <1>1, Basics, Constants
  <2> QED BY <1>1, <1>2, <2>1 DEF TypeOK
<1>7. Walking' /\ Releasing' /\ Freeing'
  BY <1>1 DEF Walking, Releasing, Freeing
<1> QED BY <1>3, <1>4, <1>5, <1>6, <1>7 DEF IInv

LEMMA OtherFileKeeps ==
  ASSUME IInv, OtherFile
  PROVE  IInv'
<1>1. /\ pc = "idle" /\ Free # {} /\ others' = others \cup {Max(Free)}
      /\ UNCHANGED <<size, direct, indirect, content, used, pc, ib, lvl, cur, hand, goal, file>>
  BY DEF OtherFile
<1>2. TypeOK /\ Once /\ Kept /\ Mapped /\ Walking /\ Releasing /\ Freeing
  BY DEF IInv
<1>3. Once' /\ Pointed' = Pointed /\ \A i : Pointer(i)' = Pointer(i)
  BY <1>1, <1>2, QuietTree
<1>4. Kept'
  <2>1. Pointed' = used' \ {hand'}
    BY <1>1, <1>2, <1>3 DEF Kept
  <2> QED BY <2>1, Zenon DEF Kept
<1>5. Mapped'
  BY <1>1, <1>2, <1>3, MapStays
<1>6. TypeOK'
  <2>1. Max(Free) \in Blocks
    <3>1. Free \subseteq Blocks
      BY DEF Free
    <3>2. Max(Free) \in Free
      BY <1>1, <3>1, MaxIn
    <3> QED BY <3>1, <3>2
  <2>2. others' \subseteq Blocks
    BY <1>1, <1>2, <2>1 DEF TypeOK
  <2> QED BY <1>1, <1>2, <2>2 DEF TypeOK
<1>7. Walking'
  BY <1>1, <1>2 DEF Walking
<1>8. Releasing' /\ Freeing'
  BY <1>1 DEF Releasing, Freeing
<1> QED BY <1>3, <1>4, <1>5, <1>6, <1>7, <1>8 DEF IInv

----------------------------------------------------------------------------
(* Truncating *)

LEMMA TruncateStartKeeps ==
  ASSUME IInv, NEW n \in 0 .. block_limits[3] * BlockSize, TruncateStart(n)
  PROVE  IInv'
<1>1. /\ pc = "idle" /\ n < size /\ goal' = n /\ ib' = CeilBlocks(n) /\ pc' = "release"
      /\ UNCHANGED <<size, direct, indirect, content, used, lvl, cur, hand, file, others>>
  BY DEF TruncateStart
<1>2. TypeOK /\ Once /\ Kept /\ Mapped /\ Walking
  BY DEF IInv
<1>3. Once' /\ Pointed' = Pointed /\ \A i : Pointer(i)' = Pointer(i)
  BY <1>1, <1>2, QuietTree
<1>4. Kept'
  <2>1. Pointed' = used' \ {hand'}
    BY <1>1, <1>2, <1>3 DEF Kept
  <2> QED BY <2>1, Zenon DEF Kept
<1>5. /\ n \in Nat /\ CeilBlocks(n) \in Nat /\ CeilBlocks(n) <= CeilBlocks(size)
      /\ CeilBlocks(size) = Len(file) /\ Len(file) <= block_limits[3]
      /\ block_limits[3] \in Nat /\ Len(file) \in Nat /\ size \in Nat
  <2>1. block_limits[3] * BlockSize \in Nat
    BY Basics, Constants
  <2>2. n \in Nat /\ size \in Nat /\ n <= size
    BY <1>1, <2>1, Basics
  <2> QED BY <2>2, CeilIs, CeilMono, Basics
<1>6. Mapped'
  <2>1. Len(file') = CeilBlocks(size)'
    BY <1>1, <1>2 DEF Mapped, CeilBlocks
  <2>2. ASSUME NEW i \in 0 .. block_limits[3] - 1
        PROVE  Pointer(i)' = IF Live(i)' THEN file'[i + 1] ELSE Null
    <3>1. Live(i) <=> i < Len(file)
      BY <1>1 DEF Live
    <3>2. CeilBlocks(goal)' = CeilBlocks(n)
      BY <1>1 DEF CeilBlocks
    <3>3. Live(i)' <=> i < Len(file) /\ (i < CeilBlocks(n) \/ i >= CeilBlocks(n))
      BY <1>1, <3>2 DEF Live
    <3>4. Live(i)' <=> Live(i)
      BY <1>5, <3>1, <3>3
    <3>5. Pointer(i) = IF Live(i) THEN file[i + 1] ELSE Null
      BY <1>2 DEF Mapped
    <3>6. Pointer(i)' = Pointer(i) /\ file' = file
      BY <1>1, <1>3
    <3> QED BY <3>4, <3>5, <3>6
  <2> QED BY <2>1, <2>2, Zenon DEF Mapped
<1>7. TypeOK'
  <2>1. ib' \in 0 .. block_limits[3] /\ goal' \in 0 .. block_limits[3] * BlockSize
    BY <1>1, <1>5
  <2> QED BY <1>1, <1>2, <2>1 DEF TypeOK
<1>8. Walking'
  BY <1>1, <1>2 DEF Walking
<1>9. Releasing'
  <2>1. CeilBlocks(goal)' = CeilBlocks(n)
    BY <1>1 DEF CeilBlocks
  <2>2. goal' < size' /\ ib' \in CeilBlocks(n) .. Len(file')
    BY <1>1, <1>5
  <2> QED BY <2>1, <2>2 DEF Releasing
<1>10. Freeing'
  BY <1>1 DEF Freeing
<1> QED BY <1>3, <1>4, <1>6, <1>7, <1>8, <1>9, <1>10 DEF IInv

\* One more block is off the map.
LEMMA OneReleased ==
  ASSUME IInv, pc = "release", NEW c, c = ib, c < CeilBlocks(size), ib' = c + 1,
         UNCHANGED <<size, pc, goal, file>>, Pointer(c)' = Null,
         \A i \in 0 .. block_limits[3] - 1 : i # c => Pointer(i)' = Pointer(i)
  PROVE  Mapped' /\ Releasing' /\ ib' \in 0 .. block_limits[3]
<1>1. /\ Mapped /\ goal < size /\ c \in CeilBlocks(goal) .. Len(file)
      /\ CeilBlocks(goal) \in Nat /\ Len(file) = CeilBlocks(size) /\ Len(file) \in Nat
      /\ Len(file) <= block_limits[3] /\ block_limits[3] \in Nat
  BY Basics, CeilIs DEF IInv, Releasing
<1>2. CeilBlocks(goal)' = CeilBlocks(goal) /\ CeilBlocks(size)' = CeilBlocks(size)
  BY DEF CeilBlocks
<1>3. c \in Nat /\ c < Len(file)
  BY <1>1
<1>4. Len(file') = CeilBlocks(size)'
  BY <1>1, <1>2
<1>5. ASSUME NEW i \in 0 .. block_limits[3] - 1
      PROVE  Pointer(i)' = IF Live(i)' THEN file'[i + 1] ELSE Null
  <2>1. Live(i) <=> i < Len(file) /\ (i < CeilBlocks(goal) \/ i >= c)
    BY DEF Live
  <2>2. Live(i)' <=> i < Len(file) /\ (i < CeilBlocks(goal) \/ i >= c + 1)
    BY <1>2 DEF Live
  <2>3. Pointer(i) = IF Live(i) THEN file[i + 1] ELSE Null
    BY <1>1 DEF Mapped
  <2>4. CASE i = c
    <3>1. ~Live(i)'
      BY <1>1, <1>3, <2>2, <2>4
    <3>2. Pointer(i)' = Null
      BY <2>4
    <3> QED BY <3>1, <3>2
  <2>5. CASE i # c
    <3>1. Live(i)' <=> Live(i)
      BY <1>1, <1>3, <2>1, <2>2, <2>5
    <3>2. Pointer(i)' = Pointer(i) /\ file' = file
      BY <2>5
    <3> QED BY <2>3, <3>1, <3>2
  <2> QED BY <2>4, <2>5
<1>6. Mapped'
  BY <1>4, <1>5, Zenon DEF Mapped
<1>7. Releasing'
  <2>1. ib' \in CeilBlocks(goal) .. Len(file') /\ goal' < size'
    BY <1>1, <1>3
  <2> QED BY <1>2, <2>1 DEF Releasing
<1>8. ib' \in 0 .. block_limits[3]
  BY <1>1, <1>3
<1> QED BY <1>6, <1>7, <1>8

LEMMA ReleaseKeeps ==
  ASSUME IInv, Release
  PROVE  IInv'
<1>0. PICK c, n, o : c = ib /\ n = Way(c)[1] /\ o = OffsetAt(c, 1)
  OBVIOUS
<1>1. /\ pc = "release" /\ c < CeilBlocks(size) /\ ib' = c + 1
      /\ UNCHANGED <<size, indirect, pc, lvl, cur, hand, goal, file, others>>
      /\ IF c < DirectCount
         THEN /\ direct' = [direct EXCEPT ![c] = Null] /\ used' = used \ {direct[c]}
              /\ UNCHANGED content
         ELSE IF n = Null THEN UNCHANGED <<direct, used, content>>
         ELSE /\ content' = [content EXCEPT ![n][o] = Null] /\ used' = used \ {Way(c)[0]}
              /\ UNCHANGED direct
  BY <1>0 DEF Release
<1>2. TypeOK /\ Once /\ Kept /\ Mapped /\ Walking /\ Releasing
  BY DEF IInv
<1>3. hand = Null
  BY <1>1, <1>2 DEF Walking
<1>4. /\ c \in Nat /\ c < Len(file) /\ c \in 0 .. block_limits[3] - 1
      /\ Len(file) \in Nat /\ Len(file) <= block_limits[3] /\ block_limits[3] \in Nat
      /\ DirectCount \in Nat
  <2>1. /\ Len(file) = CeilBlocks(size) /\ Len(file) \in Nat /\ Len(file) <= block_limits[3]
        /\ block_limits[3] \in Nat /\ goal \in Nat
    BY Basics
  <2>2. c \in CeilBlocks(goal) .. Len(file) /\ CeilBlocks(goal) \in Nat
    BY <1>0, <1>1, <1>2, <2>1, CeilIs DEF Releasing
  <2> QED BY <1>1, <2>1, <2>2, Constants
<1>5. Pointer(c) # Null
  <2>1. Live(c)
    BY <1>0, <1>4 DEF Live
  <2>2. Pointer(c) = file[c + 1]
    BY <1>2, <1>4, <2>1 DEF Mapped
  <2>3. c + 1 \in 1 .. Len(file)
    BY <1>4
  <2> QED BY <2>2, <2>3, Basics
<1>6. PICK x : x = Pointer(c)
  OBVIOUS
<1>7. /\ Once' /\ Pointed' = Pointed \ {x} /\ used' = used \ {x}
      /\ Pointer(c)' = Null
      /\ \A i \in 0 .. block_limits[3] - 1 : i # c => Pointer(i)' = Pointer(i)
      /\ direct' \in [0 .. DirectCount - 1 -> Ptr]
      /\ content' \in [Blocks -> [Offsets -> Ptr]]
  <2>1. CASE c < DirectCount
    <3>1. /\ direct' = [direct EXCEPT ![c] = Null] /\ used' = used \ {direct[c]}
          /\ UNCHANGED <<indirect, content>>
      BY <1>1, <2>1
    <3>2. c \in 0 .. DirectCount - 1 /\ direct \in [0 .. DirectCount - 1 -> Ptr]
      BY <1>4, <2>1, Basics
    <3>3. x = direct[c] /\ x # Null
      BY <1>5, <1>6, <2>1 DEF Pointer
    <3>4. Nodes' = Nodes /\ \A i : Way(i)' = Way(i)
      BY <3>1 DEF Nodes, Below, Root, Entries, Way
    <3>5. Slots' = Slots
      BY <3>4 DEF Slots
    <3>6. PICK s : s = <<"direct", c, 0>>
      OBVIOUS
    <3>7. s \in Slots /\ Val(s) = x /\ Val(s)' = Null
      <4>1. s \in Slots /\ Val(s) = x
        BY <3>2, <3>3, <3>6, SlotsAre
      <4>2. Val(s)' = direct'[c]
        BY <3>2, <3>6, SlotsAreNext
      <4> QED BY <3>1, <3>2, <4>1, <4>2
    <3>8. ASSUME NEW t \in Slots, t # s PROVE Val(t)' = Val(t)
      <4>1. CASE \E i \in 0 .. DirectCount - 1 : t = <<"direct", i, 0>>
        <5>1. PICK i \in 0 .. DirectCount - 1 : t = <<"direct", i, 0>>
          BY <4>1
        <5>2. i # c
          BY <3>6, <3>8, <5>1
        <5>3. Val(t) = direct[i]
          BY <5>1, SlotsAre
        <5>4. Val(t)' = direct'[i]
          BY <5>1, SlotsAreNext
        <5> QED BY <3>1, <3>2, <5>1, <5>2, <5>3, <5>4
      <4>2. CASE \E l \in 1 .. 3 : t = <<"inode", l, 0>>
        BY <3>1, <4>2, SlotsAre, SlotsAreNext
      <4>3. CASE \E m \in Nodes, p \in Offsets : t = <<"block", m, p>>
        <5>1. PICK m \in Nodes, p \in Offsets : t = <<"block", m, p>>
          BY <4>3
        <5>2. Val(t) = content[m][p]
          BY <5>1, SlotsAre
        <5>3. Val(t)' = content'[m][p]
          BY <5>1, SlotsAreNext
        <5> QED BY <3>1, <5>2, <5>3
      <4> QED BY <4>1, <4>2, <4>3, SlotsAre
    <3>9. Once' /\ Pointed' = Pointed \ {x}
      <4>1. Val(s) # Null /\ Val(s) = x
        BY <3>3, <3>7
      <4>2. Once' /\ Pointed' = Pointed \ {Val(s)}
        BY <1>2, <3>5, <3>7, <3>8, <4>1, SlotDropped
      <4> QED BY <4>1, <4>2
    <3>10. Pointer(c)' = Null
      BY <2>1, <3>1, <3>2 DEF Pointer
    <3>11. ASSUME NEW i \in 0 .. block_limits[3] - 1, i # c PROVE Pointer(i)' = Pointer(i)
      <4>1. CASE i < DirectCount
        <5>1. i \in 0 .. DirectCount - 1
          BY <1>4, <4>1
        <5>2. direct'[i] = direct[i]
          BY <3>1, <3>2, <3>11, <5>1
        <5> QED BY <4>1, <5>2 DEF Pointer
      <4>2. CASE ~(i < DirectCount)
        BY <3>4, <4>2 DEF Pointer
      <4> QED BY <4>1, <4>2
    <3>12. direct' \in [0 .. DirectCount - 1 -> Ptr] /\ content' \in [Blocks -> [Offsets -> Ptr]]
      BY <3>1, <3>2, Basics, Constants
    <3> QED BY <3>1, <3>3, <3>9, <3>10, <3>11, <3>12
  <2>2. CASE ~(c < DirectCount)
    <3>1. c \in Behind
      BY <1>4, <2>2 DEF Behind
    <3>2. x = Way(c)[0] /\ x # Null
      BY <1>5, <1>6, <2>2 DEF Pointer
    <3>3. n # Null
      <4>1. 0 \in 0 .. Level(c) - 1 /\ 0 + 1 = 1
        BY <3>1, LevelIs
      <4>2. Way(c)[0] = Kid(Way(c)[1], OffsetAt(c, 1))
        BY <3>1, <4>1, WayIs
      <4> QED BY <1>0, <3>2, <4>2 DEF Kid
    <3>4. /\ content' = [content EXCEPT ![n][o] = Null] /\ used' = used \ {x}
          /\ direct' = direct /\ indirect' = indirect
      BY <1>1, <2>2, <3>2, <3>3
    <3>5. PICK s : s = <<"block", n, o>>
      OBVIOUS
    <3>6. LastWritten(c, n, o, Null, s)
      BY <1>0, <3>1, <3>3, <3>4, <3>5, LastSlot
    <3>7. /\ Slots' = Slots /\ s \in Slots /\ Val(s) = x /\ Val(s)' = Null
          /\ \A t \in Slots : t # s => Val(t)' = Val(t)
          /\ Way(c)'[0] = Null
          /\ \A i \in Behind : i # c => Way(i)'[0] = Way(i)[0]
          /\ n \in Blocks /\ o \in Offsets
      BY <3>2, <3>6 DEF LastWritten
    <3>8. Once' /\ Pointed' = Pointed \ {x}
      <4>1. Val(s) # Null /\ Val(s) = x
        BY <3>2, <3>7
      <4>2. Once' /\ Pointed' = Pointed \ {Val(s)}
        BY <1>2, <3>7, <4>1, SlotDropped
      <4> QED BY <4>1, <4>2
    <3>9. Pointer(c)' = Null
      BY <2>2, <3>7 DEF Pointer
    <3>10. ASSUME NEW i \in 0 .. block_limits[3] - 1, i # c PROVE Pointer(i)' = Pointer(i)
      <4>1. CASE i < DirectCount
        BY <3>4, <4>1 DEF Pointer
      <4>2. CASE ~(i < DirectCount)
        <5>1. i \in Behind
          BY <1>4, <4>2 DEF Behind
        <5> QED BY <3>7, <3>10, <4>2, <5>1 DEF Pointer
      <4> QED BY <4>1, <4>2
    <3>11. direct' \in [0 .. DirectCount - 1 -> Ptr] /\ content' \in [Blocks -> [Offsets -> Ptr]]
      <4>1. content \in [Blocks -> [Offsets -> Ptr]] /\ Null \in Ptr
        BY Basics, Constants
      <4> QED BY <3>4, <3>7, <4>1, Basics
    <3> QED BY <3>4, <3>8, <3>9, <3>10, <3>11
  <2> QED BY <2>1, <2>2
<1>8. Kept'
  <2>1. Pointed' = used' \ {hand'}
    <3>1. Pointed = used \ {hand}
      BY <1>2 DEF Kept
    <3> QED BY <1>1, <1>7, <3>1
  <2> QED BY <2>1, Zenon DEF Kept
<1>9. Mapped' /\ Releasing' /\ ib' \in 0 .. block_limits[3]
  BY <1>0, <1>1, <1>7, OneReleased
<1>10. TypeOK'
  <2>1. used' \subseteq Blocks
    BY <1>7, Basics
  <2> QED BY <1>1, <1>2, <1>7, <1>9, <2>1 DEF TypeOK
<1>11. Walking' /\ Freeing'
  BY <1>1, <1>3 DEF Walking, Freeing
<1> QED BY <1>7, <1>8, <1>9, <1>10, <1>11 DEF IInv

LEMMA TruncateEndKeeps ==
  ASSUME IInv, TruncateEnd
  PROVE  IInv'
<1>0. PICK m : m = CeilBlocks(goal)
  OBVIOUS
<1>1. /\ pc = "release" /\ pc' = "idle" /\ ib = CeilBlocks(size) /\ size' = goal
      /\ file' = SubSeq(file, 1, m) /\ ib' = 0 /\ goal' = 0
      /\ UNCHANGED <<direct, indirect, content, used, lvl, cur, hand, others>>
  BY <1>0 DEF TruncateEnd
<1>2. TypeOK /\ Once /\ Kept /\ Mapped /\ Walking /\ Releasing
  BY DEF IInv
<1>3. Once' /\ Pointed' = Pointed /\ \A i : Pointer(i)' = Pointer(i)
  BY <1>1, <1>2, QuietTree
<1>4. Kept'
  <2>1. Pointed' = used' \ {hand'}
    BY <1>1, <1>2, <1>3 DEF Kept
  <2> QED BY <2>1, Zenon DEF Kept
<1>5. /\ m \in Nat /\ Len(file) \in Nat /\ m <= Len(file) /\ ib = Len(file)
      /\ block_limits[3] \in Nat /\ file \in Seq(Blocks) /\ goal \in Nat
      /\ block_limits[3] * BlockSize \in Nat
  <2>1. /\ goal \in Nat /\ size \in Nat /\ Len(file) \in Nat /\ Len(file) = CeilBlocks(size)
        /\ block_limits[3] \in Nat /\ goal < size
    BY <1>1, <1>2, Basics DEF Releasing
  <2>2. m \in Nat /\ m <= CeilBlocks(size)
    BY <1>0, <2>1, CeilIs, CeilMono
  <2>3. block_limits[3] * BlockSize \in Nat
    BY <2>1, Constants
  <2> QED BY <1>1, <1>2, <2>1, <2>2, <2>3 DEF TypeOK
<1>6. /\ file' \in Seq(Blocks) /\ Len(file') = m
      /\ \A j \in 1 .. m : file'[j] = file[j]
  BY <1>1, <1>5
<1>7. Mapped'
  <2>1. Len(file') = CeilBlocks(size)'
    BY <1>0, <1>1, <1>6 DEF CeilBlocks
  <2>2. ASSUME NEW i \in 0 .. block_limits[3] - 1
        PROVE  Pointer(i)' = IF Live(i)' THEN file'[i + 1] ELSE Null
    <3>1. Live(i) <=> i < Len(file) /\ (i < m \/ i >= Len(file))
      BY <1>0, <1>1, <1>5 DEF Live
    <3>2. Live(i)' <=> i < m
      BY <1>1, <1>6 DEF Live
    <3>3. Live(i)' <=> Live(i)
      BY <1>5, <3>1, <3>2
    <3>4. Pointer(i) = IF Live(i) THEN file[i + 1] ELSE Null
      BY <1>2 DEF Mapped
    <3>5. Live(i)' => file'[i + 1] = file[i + 1]
      BY <1>5, <1>6, <3>2
    <3>6. Pointer(i)' = Pointer(i)
      BY <1>3
    <3> QED BY <3>3, <3>4, <3>5, <3>6
  <2> QED BY <2>1, <2>2, Zenon DEF Mapped
<1>8. TypeOK'
  <2>1. size' \in 0 .. block_limits[3] * BlockSize
    BY <1>1, <1>2 DEF TypeOK
  <2>2. ib' \in 0 .. block_limits[3] /\ goal' \in 0 .. block_limits[3] * BlockSize
    BY <1>1, <1>5
  <2> QED BY <1>1, <1>2, <1>6, <2>1, <2>2 DEF TypeOK
<1>9. Walking'
  BY <1>1, <1>2 DEF Walking
<1>10. Releasing' /\ Freeing'
  BY <1>1 DEF Releasing, Freeing
<1> QED BY <1>3, <1>4, <1>7, <1>8, <1>9, <1>10 DEF IInv

----------------------------------------------------------------------------
(* Freeing the trees *)

\* An empty file has no data, so that its last indirect blocks are empty.
LEMMA EmptyFile ==
  ASSUME IInv, size = 0
  PROVE  /\ pc # "release"
         /\ \A i \in 0 .. block_limits[3] - 1 : Pointer(i) = Null
         /\ \A i \in 0 .. DirectCount - 1 : direct[i] = Null
         /\ \A i \in Behind : Way(i)[0] = Null
         /\ \A n \in Tier(1), o \in Offsets : content[n][o] = Null
<1>1. pc # "release"
  BY Basics DEF IInv, Releasing
<1>2. /\ Len(file) = 0 /\ block_limits[3] \in Nat /\ DirectCount \in Nat
      /\ DirectCount < block_limits[3]
  BY Basics, CeilZero, Constants
<1>3. ASSUME NEW i \in 0 .. block_limits[3] - 1 PROVE Pointer(i) = Null
  <2>1. ~Live(i)
    BY <1>2 DEF Live
  <2> QED BY <2>1 DEF IInv, Mapped
<1>4. ASSUME NEW i \in 0 .. DirectCount - 1 PROVE direct[i] = Null
  <2>1. i \in 0 .. block_limits[3] - 1 /\ i < DirectCount
    BY <1>2
  <2> QED BY <1>3, <2>1 DEF Pointer
<1>5. ASSUME NEW i \in Behind PROVE Way(i)[0] = Null
  <2>1. i \in 0 .. block_limits[3] - 1 /\ ~(i < DirectCount)
    BY <1>2 DEF Behind
  <2> QED BY <1>3, <2>1 DEF Pointer
<1>6. ASSUME NEW n \in Tier(1), NEW o \in Offsets PROVE content[n][o] = Null
  <2>1. PICK i \in Behind : Way(i)[0] = content[n][o]
    BY SlotHasBlock
  <2> QED BY <1>5, <2>1
<1> QED BY <1>1, <1>3, <1>4, <1>5, <1>6

\* An inode without pointers has no indirect blocks.
LEMMA Bare ==
  (\A l \in 1 .. 3 : indirect[l] = Null) /\ (\A i \in 0 .. DirectCount - 1 : direct[i] = Null)
    => Once /\ Pointed = {}
<1> SUFFICES ASSUME \A l \in 1 .. 3 : indirect[l] = Null,
                    \A i \in 0 .. DirectCount - 1 : direct[i] = Null
             PROVE  Once /\ Pointed = {}
  OBVIOUS
<1>1. \A n : n \notin Tier(3)
  BY TiersAre
<1>2. \A n : n \notin Tier(2)
  BY <1>1, TiersAre
<1>3. \A n : n \notin Tier(1)
  BY <1>2, TiersAre
<1>4. \A n : n \notin Nodes
  BY <1>1, <1>2, <1>3, NodesAre
<1>5. \A s \in Slots : Val(s) = Null
  BY <1>4, SlotsAre
<1>6. Once
  BY <1>5 DEF Once
<1>7. \A x : x \notin Pointed
  BY <1>5, PointedIs
<1> QED BY <1>6, <1>7

LEMMA BareNext ==
  ((\A l \in 1 .. 3 : indirect[l] = Null) /\ (\A i \in 0 .. DirectCount - 1 : direct[i] = Null)
     => Once /\ Pointed = {})'
BY Bare, PTL

\* Clearing a pointer of an empty inode leaves the file as it is.
LEMMA StaysEmpty ==
  ASSUME IInv, size = 0, pc' # "release", UNCHANGED <<size, file, content>>,
         \A i \in 0 .. DirectCount - 1 : direct'[i] = Null,
         \A l \in 1 .. 3 : indirect'[l] = indirect[l] \/ indirect'[l] = Null
  PROVE  Mapped' /\ \A n : n \in Nodes' => n \in Nodes
<1>1. /\ pc # "release" /\ Mapped
      /\ \A i \in 0 .. block_limits[3] - 1 : Pointer(i) = Null
      /\ \A i \in Behind : Way(i)[0] = Null
  BY EmptyFile DEF IInv
<1>2. /\ \A i \in Behind : Way(i)'[0] = Way(i)[0] \/ Way(i)'[0] = Null
      /\ \A n : n \in Nodes' => n \in Nodes
  BY WaysEnd
<1>3. ASSUME NEW i \in 0 .. block_limits[3] - 1 PROVE Pointer(i)' = Pointer(i)
  <2>1. CASE i < DirectCount
    <3>1. i \in 0 .. DirectCount - 1
      BY <2>1, Constants
    <3> QED BY <1>1, <2>1, <3>1 DEF Pointer
  <2>2. CASE ~(i < DirectCount)
    <3>1. i \in Behind
      BY <2>2, LimitsGrow, Constants DEF Behind
    <3>2. Way(i)'[0] = Null
      BY <1>1, <1>2, <3>1
    <3> QED BY <1>1, <2>2, <3>2 DEF Pointer
  <2> QED BY <2>1, <2>2
<1> QED BY <1>1, <1>2, <1>3, MapStays

LEMMA FreeSingleKeeps ==
  ASSUME IInv, FreeSingle
  PROVE  IInv'
<1>0. PICK r : r = indirect[1]
  OBVIOUS
<1>1. /\ pc = "idle" /\ pc' = "free2" /\ size = 0 /\ used' = used \ {r}
      /\ indirect' = [indirect EXCEPT ![1] = Null]
      /\ UNCHANGED <<size, direct, content, ib, lvl, cur, hand, goal, file, others>>
  BY <1>0 DEF FreeSingle
<1>2. TypeOK /\ Once /\ Kept /\ Walking
  BY DEF IInv
<1>3. hand = Null
  BY <1>1, <1>2 DEF Walking
<1>4. /\ \A i \in 0 .. DirectCount - 1 : direct[i] = Null
      /\ \A n \in Tier(1), o \in Offsets : content[n][o] = Null
  BY <1>1, EmptyFile
<1>5. \A l \in 1 .. 3 : indirect'[l] = IF l = 1 THEN Null ELSE indirect[l]
  BY <1>1, Basics
<1>6. Mapped' /\ \A n : n \in Nodes' => n \in Nodes
  BY <1>1, <1>4, <1>5, StaysEmpty
<1>7. Slots' \subseteq Slots
  <2>1. Nodes' \subseteq Nodes
    BY <1>6
  <2> QED BY <2>1 DEF Slots
<1>8. \A n : /\ n \in Tier(3) => n \in Tier(3)'
             /\ n \in Tier(2) => n \in Tier(2)'
  <2>1. \A n : n \in Tier(3) => n \in Tier(3)'
    BY <1>5, TiersAre, TiersAreNext
  <2>2. \A n : n \in Tier(2) => n \in Tier(2)'
    BY <1>1, <1>5, <2>1, TiersAre, TiersAreNext
  <2> QED BY <2>1, <2>2
<1>9. PICK R : R = {r}
  OBVIOUS
<1>10. ASSUME NEW t \in Slots'
       PROVE  \/ Val(t)' = Val(t) /\ Val(t) \notin R
              \/ Val(t)' = Null /\ (Val(t) = Null \/ Val(t) \in R)
  <2>1. CASE t = <<"inode", 1, 0>>
    <3>1. Val(t) = r /\ Val(t)' = indirect'[1]
      <4>1. 1 \in 1 .. 3
        OBVIOUS
      <4> QED BY <1>0, <2>1, <4>1, SlotsAre, SlotsAreNext
    <3> QED BY <1>5, <1>9, <3>1
  <2>2. CASE t # <<"inode", 1, 0>>
    <3>1. Val(t)' = Val(t)
      <4>1. CASE \E i \in 0 .. DirectCount - 1 : t = <<"direct", i, 0>>
        BY <1>1, <4>1, SlotsAre, SlotsAreNext
      <4>2. CASE \E l \in 1 .. 3 : t = <<"inode", l, 0>>
        <5>1. PICK l \in 1 .. 3 : t = <<"inode", l, 0>>
          BY <4>2
        <5>2. Val(t) = indirect[l] /\ Val(t)' = indirect'[l] /\ l # 1
          BY <2>2, <5>1, SlotsAre, SlotsAreNext
        <5> QED BY <1>5, <5>1, <5>2
      <4>3. CASE \E m \in Nodes', p \in Offsets : t = <<"block", m, p>>
        <5>1. PICK m \in Nodes', p \in Offsets : t = <<"block", m, p>>
          BY <4>3
        <5>2. Val(t) = content[m][p]
          BY <5>1, SlotsAre
        <5>3. Val(t)' = content'[m][p]
          BY <5>1, SlotsAreNext
        <5> QED BY <1>1, <5>2, <5>3
      <4> QED BY <1>10, <4>1, <4>2, <4>3, SlotsAreNext
    <3>2. Val(t) # Null => Val(t) # r
      <4>1. PICK u : u = <<"inode", 1, 0>>
        OBVIOUS
      <4>2. u \in Slots /\ Val(u) = r /\ t \in Slots /\ t # u
        <5>1. 1 \in 1 .. 3
          OBVIOUS
        <5> QED BY <1>0, <1>7, <2>2, <4>1, <5>1, SlotsAre
      <4> QED BY <1>2, <4>2 DEF Once
    <3> QED BY <1>9, <3>1, <3>2
  <2> QED BY <2>1, <2>2
<1>11. ASSUME NEW t \in Slots, t \notin Slots' PROVE Val(t) = Null \/ Val(t) \in R
  <2>1. ~ \E i \in 0 .. DirectCount - 1 : t = <<"direct", i, 0>>
    BY <1>11, SlotsAreNext
  <2>2. ~ \E l \in 1 .. 3 : t = <<"inode", l, 0>>
    BY <1>11, SlotsAreNext
  <2>3. PICK m \in Nodes, p \in Offsets : t = <<"block", m, p>>
    BY <2>1, <2>2, SlotsAre
  <2>4. m \notin Nodes'
    BY <1>11, <2>3, SlotsAreNext
  <2>5. m \in Tier(1)
    BY <1>8, <2>3, <2>4, NodesAre, NodesAreNext
  <2>6. Val(t) = content[m][p]
    BY <2>3, SlotsAre
  <2> QED BY <1>4, <2>3, <2>5, <2>6
<1>12. Once' /\ Pointed' = Pointed \ R
  BY <1>2, <1>7, <1>10, <1>11, DropKeeps
<1>13. Kept'
  <2>1. Pointed' = used' \ {hand'}
    <3>1. Pointed = used \ {hand}
      BY <1>2 DEF Kept
    <3> QED BY <1>1, <1>9, <1>12, <3>1
  <2> QED BY <2>1, Zenon DEF Kept
<1>14. TypeOK'
  <2>1. indirect' \in [1 .. 3 -> Ptr] /\ used' \subseteq Blocks
    BY <1>1, Basics, Constants
  <2> QED BY <1>1, <1>2, <2>1 DEF TypeOK
<1>15. Walking' /\ Releasing' /\ Freeing'
  BY <1>1, <1>3, <1>5 DEF Walking, Releasing, Freeing
<1> QED BY <1>6, <1>12, <1>13, <1>14, <1>15 DEF IInv

LEMMA FreeDoubleKeeps ==
  ASSUME IInv, FreeDouble
  PROVE  IInv'
<1>0. PICK r, R : r = indirect[2] /\ R = {r} \cup Entries(r)
  OBVIOUS
<1>1. /\ pc = "free2" /\ pc' = "free3"
      /\ used' = IF r = Null THEN used ELSE used \ R
      /\ indirect' = [indirect EXCEPT ![2] = Null]
      /\ UNCHANGED <<size, direct, content, ib, lvl, cur, hand, goal, file, others>>
  BY <1>0 DEF FreeDouble
<1>2. TypeOK /\ Once /\ Kept /\ Walking /\ Freeing
  BY DEF IInv
<1>3. hand = Null /\ size = 0 /\ indirect[1] = Null
  BY <1>1, <1>2 DEF Walking, Freeing
<1>4. /\ \A i \in 0 .. DirectCount - 1 : direct[i] = Null
      /\ \A n \in Tier(1), o \in Offsets : content[n][o] = Null
  BY <1>3, EmptyFile
<1>5. \A l \in 1 .. 3 : indirect'[l] = IF l = 2 THEN Null ELSE indirect[l]
  BY <1>1, Basics
<1>6. Mapped' /\ \A n : n \in Nodes' => n \in Nodes
  BY <1>1, <1>3, <1>4, <1>5, StaysEmpty
<1>7. Once' /\ Pointed' = IF r = Null THEN Pointed ELSE Pointed \ R
  <2>1. CASE r = Null
    <3>1. indirect' = indirect
      BY <1>0, <1>1, <2>1, Basics
    <3> QED BY <1>1, <1>2, <2>1, <3>1, QuietTree
  <2>2. CASE r # Null
    <3>1. Slots' \subseteq Slots
      <4>1. Nodes' \subseteq Nodes
        BY <1>6
      <4> QED BY <4>1 DEF Slots
    <3>2. /\ \A l, m \in 1 .. 3 : indirect[l] # Null /\ indirect[l] = indirect[m] => l = m
          /\ \A x, y \in Nodes, p, q \in Offsets :
               content[x][p] # Null /\ content[x][p] = content[y][q] => x = y /\ p = q
          /\ \A l \in 1 .. 3, x \in Nodes, p \in Offsets :
               indirect[l] # Null => indirect[l] # content[x][p]
      BY <1>2, OnceIs
    <3>3. r \in Tier(2) /\ r \in Nodes /\ r \notin Tier(3) /\ r \notin Tier(1)
      BY <1>0, <1>2, <2>2, TiersAre, NodesAre, TiersApart
    <3>4. \A x \in Nodes, p \in Offsets : content[x][p] # r
      <4>1. 2 \in 1 .. 3
        OBVIOUS
      <4> QED BY <1>0, <2>2, <3>2, <4>1
    <3>5. \A n : n \in Tier(3)' <=> n \in Tier(3)
      BY <1>5, TiersAre, TiersAreNext
    <3>6. \A n : n \in Tier(2) /\ n # r => n \in Tier(2)'
      <4> SUFFICES ASSUME NEW n, n \in Tier(2), n # r PROVE n \in Tier(2)'
        OBVIOUS
      <4>1. n # Null /\ \E m \in Tier(3), o \in Offsets : n = content[m][o]
        BY <1>0, TiersAre
      <4> QED BY <1>1, <3>5, <4>1, TiersAreNext
    <3>7. r \notin Nodes'
      <4>1. r \notin Tier(2)'
        <5>1. indirect'[2] = Null
          BY <1>5
        <5>2. \A m \in Tier(3)', o \in Offsets : r # content'[m][o]
          BY <1>1, <3>4, <3>5, NodesAre
        <5> QED BY <2>2, <5>1, <5>2, TiersAreNext
      <4>2. r \notin Tier(1)'
        <5>1. indirect'[1] = Null
          BY <1>3, <1>5
        <5>2. \A m \in Tier(2)', o \in Offsets : r # content'[m][o]
          BY <1>1, <1>6, <3>4, NodesAreNext
        <5> QED BY <2>2, <5>1, <5>2, TiersAreNext
      <4> QED BY <3>3, <3>5, <4>1, <4>2, NodesAreNext
    <3>8. \A x : x \in R <=> x = r \/ (x # Null /\ \E o \in Offsets : x = content[r][o])
      BY <1>0 DEF Entries
    <3>9. ASSUME NEW t \in Slots'
          PROVE  \/ Val(t)' = Val(t) /\ Val(t) \notin R
                 \/ Val(t)' = Null /\ (Val(t) = Null \/ Val(t) \in R)
      <4>1. CASE \E i \in 0 .. DirectCount - 1 : t = <<"direct", i, 0>>
        <5>1. PICK i \in 0 .. DirectCount - 1 : t = <<"direct", i, 0>>
          BY <4>1
        <5>2. Val(t) = direct[i] /\ Val(t)' = direct'[i]
          BY <5>1, SlotsAre, SlotsAreNext
        <5> QED BY <1>1, <1>4, <5>1, <5>2
      <4>2. CASE \E l \in 1 .. 3 : t = <<"inode", l, 0>>
        <5>1. PICK l \in 1 .. 3 : t = <<"inode", l, 0>>
          BY <4>2
        <5>2. Val(t) = indirect[l] /\ Val(t)' = indirect'[l]
          BY <5>1, SlotsAre, SlotsAreNext
        <5>3. CASE l = 1
          BY <1>3, <1>5, <5>2, <5>3
        <5>4. CASE l = 2
          BY <1>0, <1>5, <3>8, <5>2, <5>4
        <5>5. CASE l = 3
          <6>1. Val(t)' = Val(t)
            BY <1>5, <5>2, <5>5
          <6>2. indirect[3] # Null => indirect[3] \notin R
            <7>1. 2 \in 1 .. 3 /\ 3 \in 1 .. 3 /\ 2 # 3
              OBVIOUS
            <7>2. indirect[3] # Null => indirect[3] # r
              BY <1>0, <3>2, <7>1
            <7>3. indirect[3] # Null => \A o \in Offsets : indirect[3] # content[r][o]
              BY <3>2, <3>3, <7>1
            <7> QED BY <3>8, <7>2, <7>3
          <6> QED BY <5>2, <5>5, <6>1, <6>2
        <5> QED BY <5>1, <5>3, <5>4, <5>5
      <4>3. CASE \E m \in Nodes', p \in Offsets : t = <<"block", m, p>>
        <5>1. PICK m \in Nodes', p \in Offsets : t = <<"block", m, p>>
          BY <4>3
        <5>2. Val(t) = content[m][p]
          BY <5>1, SlotsAre
        <5>3. Val(t)' = content'[m][p]
          BY <5>1, SlotsAreNext
        <5>4. m \in Nodes /\ m # r /\ p \in Offsets
          BY <1>6, <3>7, <5>1
        <5>5. content[m][p] # Null => content[m][p] \notin R
          <6>1. content[m][p] # r
            BY <3>4, <5>4
          <6>2. ASSUME NEW o \in Offsets, content[m][p] # Null, content[m][p] = content[r][o]
                PROVE  FALSE
            <7>1. m = r
              BY <3>2, <3>3, <5>4, <6>2
            <7> QED BY <5>4, <7>1
          <6> QED BY <3>8, <6>1, <6>2
        <5> QED BY <1>1, <5>2, <5>3, <5>5
      <4> QED BY <3>9, <4>1, <4>2, <4>3, SlotsAreNext
    <3>10. ASSUME NEW t \in Slots, t \notin Slots' PROVE Val(t) = Null \/ Val(t) \in R
      <4>1. ~ \E i \in 0 .. DirectCount - 1 : t = <<"direct", i, 0>>
        BY <3>10, SlotsAreNext
      <4>2. ~ \E l \in 1 .. 3 : t = <<"inode", l, 0>>
        BY <3>10, SlotsAreNext
      <4>3. PICK m \in Nodes, p \in Offsets : t = <<"block", m, p>>
        BY <4>1, <4>2, SlotsAre
      <4>4. m \notin Nodes'
        BY <3>10, <4>3, SlotsAreNext
      <4>5. m \in Tier(1) \/ m = r
        BY <3>5, <3>6, <4>3, <4>4, NodesAre, NodesAreNext
      <4>6. Val(t) = content[m][p]
        BY <4>3, SlotsAre
      <4>7. CASE m \in Tier(1)
        BY <1>4, <4>3, <4>6, <4>7
      <4>8. CASE m = r
        BY <3>8, <4>3, <4>6, <4>8
      <4> QED BY <4>5, <4>7, <4>8
    <3>11. Once' /\ Pointed' = Pointed \ R
      BY <1>2, <3>1, <3>9, <3>10, DropKeeps
    <3> QED BY <2>2, <3>11
  <2> QED BY <2>1, <2>2
<1>8. Kept'
  <2>1. Pointed' = used' \ {hand'}
    <3>1. Pointed = used \ {hand}
      BY <1>2 DEF Kept
    <3> QED BY <1>1, <1>7, <3>1
  <2> QED BY <2>1, Zenon DEF Kept
<1>9. TypeOK'
  <2>1. indirect' \in [1 .. 3 -> Ptr] /\ used' \subseteq Blocks
    BY <1>1, Basics, Constants
  <2> QED BY <1>1, <1>2, <2>1 DEF TypeOK
<1>10. Walking' /\ Releasing' /\ Freeing'
  BY <1>1, <1>3, <1>5 DEF Walking, Releasing, Freeing
<1> QED BY <1>6, <1>7, <1>8, <1>9, <1>10 DEF IInv

LEMMA FreeTripleKeeps ==
  ASSUME IInv, FreeTriple
  PROVE  IInv'
<1>0. PICK r, R : /\ r = indirect[3]
                  /\ R = {r} \cup Entries(r) \cup UNION {Entries(b) : b \in Entries(r)}
  OBVIOUS
<1>1. /\ pc = "free3" /\ pc' = "gone"
      /\ used' = IF r = Null THEN used ELSE used \ R
      /\ indirect' = [indirect EXCEPT ![3] = Null]
      /\ UNCHANGED <<size, direct, content, ib, lvl, cur, hand, goal, file, others>>
  BY <1>0 DEF FreeTriple
<1>2. TypeOK /\ Once /\ Kept /\ Walking /\ Freeing
  BY DEF IInv
<1>3. hand = Null /\ size = 0 /\ indirect[1] = Null /\ indirect[2] = Null
  BY <1>1, <1>2 DEF Walking, Freeing
<1>4. /\ \A i \in 0 .. DirectCount - 1 : direct[i] = Null
      /\ \A n \in Tier(1), o \in Offsets : content[n][o] = Null
  BY <1>3, EmptyFile
<1>5. \A l \in 1 .. 3 : indirect'[l] = Null
  BY <1>1, <1>3, Basics
<1>6. Mapped'
  BY <1>1, <1>3, <1>4, <1>5, StaysEmpty
<1>7. Once' /\ Pointed' = {}
  BY <1>1, <1>4, <1>5, BareNext
<1>8. used' = {}
  <2>1. Pointed = used
    BY <1>2, <1>3, Basics DEF Kept
  <2>2. CASE r = Null
    <3>1. \A l \in 1 .. 3 : indirect[l] = Null
      <4> TAKE l \in 1 .. 3
      <4>1. l = 1 \/ l = 2 \/ l = 3
        OBVIOUS
      <4> QED BY <1>0, <1>3, <2>2, <4>1
    <3>2. Pointed = {}
      BY <1>4, <3>1, Bare
    <3> QED BY <1>1, <2>1, <2>2, <3>2
  <2>3. CASE r # Null
    <3>1. \A x : x \in Entries(r) <=> x # Null /\ \E o \in Offsets : x = content[r][o]
      BY DEF Entries
    <3>2. \A x : x \in UNION {Entries(b) : b \in Entries(r)}
                   <=> \E b \in Entries(r) : x # Null /\ \E o \in Offsets : x = content[b][o]
      BY DEF Entries
    <3>3. ASSUME NEW x, x \in Pointed PROVE x \in R
      <4>1. x # Null
        BY <3>3, PointedIs
      <4>2. PICK t \in Slots : Val(t) = x
        BY <3>3, PointedIs
      <4>3. CASE \E i \in 0 .. DirectCount - 1 : t = <<"direct", i, 0>>
        BY <1>4, <4>1, <4>2, <4>3, SlotsAre
      <4>4. CASE \E l \in 1 .. 3 : t = <<"inode", l, 0>>
        <5>1. PICK l \in 1 .. 3 : t = <<"inode", l, 0>>
          BY <4>4
        <5>2. x = indirect[l]
          BY <4>2, <5>1, SlotsAre
        <5>3. l = 3
          BY <1>3, <4>1, <5>1, <5>2
        <5> QED BY <1>0, <5>2, <5>3
      <4>5. CASE \E m \in Nodes, p \in Offsets : t = <<"block", m, p>>
        <5>1. PICK m \in Nodes, p \in Offsets : t = <<"block", m, p>>
          BY <4>5
        <5>2. x = content[m][p]
          BY <4>2, <5>1, SlotsAre
        <5>3. m \notin Tier(1)
          BY <1>4, <4>1, <5>1, <5>2
        <5>4. CASE m \in Tier(3)
          <6>1. m = r
            BY <1>0, <5>4, TiersAre
          <6>2. x \in Entries(r)
            BY <3>1, <4>1, <5>1, <5>2, <6>1
          <6> QED BY <1>0, <6>2
        <5>5. CASE m \in Tier(2)
          <6>1. PICK q \in Tier(3), o \in Offsets : m = content[q][o]
            BY <1>3, <5>5, TiersAre
          <6>2. q = r /\ m # Null
            BY <1>0, <5>5, <6>1, TiersAre
          <6>3. m \in Entries(r)
            BY <3>1, <6>1, <6>2
          <6>4. x \in UNION {Entries(b) : b \in Entries(r)}
            BY <3>2, <4>1, <5>1, <5>2, <6>3
          <6> QED BY <1>0, <6>4
        <5> QED BY <5>1, <5>3, <5>4, <5>5, NodesAre
      <4> QED BY <4>2, <4>3, <4>4, <4>5, SlotsAre
    <3> QED BY <1>1, <2>1, <2>3, <3>3
  <2> QED BY <2>2, <2>3
<1>9. Kept'
  <2>1. Pointed' = used' \ {hand'}
    BY <1>7, <1>8
  <2> QED BY <2>1, Zenon DEF Kept
<1>10. TypeOK'
  <2>1. indirect' \in [1 .. 3 -> Ptr]
    BY <1>1, Basics, Constants
  <2> QED BY <1>1, <1>2, <1>8, <2>1 DEF TypeOK
<1>11. Walking' /\ Releasing' /\ Freeing'
  BY <1>1, <1>3, <1>5 DEF Walking, Releasing, Freeing
<1> QED BY <1>6, <1>7, <1>9, <1>10, <1>11 DEF IInv

LEMMA ReuseKeeps ==
  ASSUME IInv, Reuse
  PROVE  IInv'
<1>1. /\ pc = "gone" /\ pc' = "idle" /\ size' = 0
      /\ direct' = [i \in 0 .. DirectCount - 1 |-> Null]
      /\ indirect' = [l \in 1 .. 3 |-> Null]
      /\ UNCHANGED <<content, used, ib, lvl, cur, hand, goal, file, others>>
  BY DEF Reuse
<1>2. TypeOK /\ Once /\ Kept /\ Walking /\ Freeing
  BY DEF IInv
<1>3. hand = Null /\ size = 0 /\ indirect[1] = Null /\ indirect[2] = Null /\ indirect[3] = Null
  BY <1>1, <1>2 DEF Walking, Freeing
<1>4. \A i \in 0 .. DirectCount - 1 : direct[i] = Null
  BY <1>3, EmptyFile
<1>5. used = {}
  <2>1. Pointed = used
    BY <1>2, <1>3, Basics DEF Kept
  <2>2. \A l \in 1 .. 3 : indirect[l] = Null
    <3> TAKE l \in 1 .. 3
    <3>1. l = 1 \/ l = 2 \/ l = 3
      OBVIOUS
    <3> QED BY <1>3, <3>1
  <2> QED BY <1>4, <2>1, <2>2, Bare
<1>6. /\ \A l \in 1 .. 3 : indirect'[l] = Null
      /\ \A i \in 0 .. DirectCount - 1 : direct'[i] = Null
  BY <1>1
<1>7. Mapped'
  BY <1>1, <1>3, <1>6, StaysEmpty
<1>8. Once' /\ Pointed' = {}
  BY <1>6, BareNext
<1>9. Kept'
  <2>1. Pointed' = used' \ {hand'}
    BY <1>1, <1>5, <1>8
  <2> QED BY <2>1, Zenon DEF Kept
<1>10. TypeOK'
  <2>1. indirect' \in [1 .. 3 -> Ptr] /\ direct' \in [0 .. DirectCount - 1 -> Ptr]
    BY <1>1, Constants
  <2>2. size' \in 0 .. block_limits[3] * BlockSize
    BY <1>1, <1>2, <1>3 DEF TypeOK
  <2> QED BY <1>1, <1>2, <2>1, <2>2 DEF TypeOK
<1>11. Walking' /\ Releasing' /\ Freeing'
  BY <1>1, <1>3 DEF Walking, Releasing, Freeing
<1> QED BY <1>7, <1>8, <1>9, <1>10, <1>11 DEF IInv

----------------------------------------------------------------------------
(* The theorems *)

LEMMA InitEstablishes == Init => IInv
<1> SUFFICES ASSUME Init PROVE IInv
  OBVIOUS
<1>1. /\ size = 0 /\ direct = [i \in 0 .. DirectCount - 1 |-> Null]
      /\ indirect = [l \in 1 .. 3 |-> Null] /\ content = [b \in Blocks |-> ZeroBlock]
      /\ used = {} /\ others = {} /\ pc = "idle"
      /\ ib = 0 /\ lvl = 0 /\ cur = Null /\ hand = Null /\ goal = 0 /\ file = <<>>
  BY DEF Init
<1>2. /\ \A l \in 1 .. 3 : indirect[l] = Null
      /\ \A i \in 0 .. DirectCount - 1 : direct[i] = Null
  BY <1>1
<1>3. Once /\ Pointed = {}
  BY <1>2, Bare
<1>4. Kept
  BY <1>1, <1>3 DEF Kept
<1>5. Mapped
  <2>1. Len(file) = 0 /\ CeilBlocks(size) = 0
    BY <1>1, CeilZero
  <2>2. \A n : n \notin Tier(1)
    <3>1. \A n : n \notin Tier(3)
      BY <1>2, TiersAre
    <3>2. \A n : n \notin Tier(2)
      BY <1>2, <3>1, TiersAre
    <3> QED BY <1>2, <3>2, TiersAre
  <2>3. ASSUME NEW i \in 0 .. block_limits[3] - 1
        PROVE  Pointer(i) = IF Live(i) THEN file[i + 1] ELSE Null
    <3>1. ~Live(i)
      BY <2>1 DEF Live
    <3>2. CASE i < DirectCount
      <4>1. i \in 0 .. DirectCount - 1
        BY <3>2, Constants
      <4> QED BY <1>2, <3>1, <3>2, <4>1 DEF Pointer
    <3>3. CASE ~(i < DirectCount)
      <4>1. i \in Behind
        BY <3>3, LimitsGrow, Constants DEF Behind
      <4>2. 0 \in 0 .. Level(i) - 1 /\ 1 \in 1 .. Level(i) /\ 0 + 1 = 1
        BY <4>1, LevelIs
      <4>3. Way(i)[1] = Null
        BY <2>2, <4>1, <4>2, WayOnTiers
      <4>4. Way(i)[0] = Kid(Way(i)[1], OffsetAt(i, 1))
        BY <4>1, <4>2, WayIs
      <4>5. Way(i)[0] = Null
        BY <4>3, <4>4 DEF Kid
      <4> QED BY <3>1, <3>3, <4>5 DEF Pointer
    <3> QED BY <3>2, <3>3
  <2> QED BY <2>1, <2>3 DEF Mapped
<1>6. TypeOK
  <2>1. block_limits[3] \in Nat /\ block_limits[3] * BlockSize \in Nat
    BY LimitsGrow, Constants
  <2>2. ZeroBlock \in [Offsets -> Ptr] /\ Null \in Ptr
    BY Constants DEF ZeroBlock
  <2>3. /\ direct \in [0 .. DirectCount - 1 -> Ptr] /\ indirect \in [1 .. 3 -> Ptr]
        /\ content \in [Blocks -> [Offsets -> Ptr]]
    BY <1>1, <2>2
  <2>4. /\ size \in 0 .. block_limits[3] * BlockSize /\ goal \in 0 .. block_limits[3] * BlockSize
        /\ ib \in 0 .. block_limits[3] /\ lvl \in 0 .. 3 /\ file \in Seq(Blocks)
    BY <1>1, <2>1
  <2> QED BY <1>1, <2>2, <2>3, <2>4 DEF TypeOK
<1>7. Walking /\ Releasing /\ Freeing
  BY <1>1 DEF Walking, Releasing, Freeing
<1> QED BY <1>3, <1>4, <1>5, <1>6, <1>7 DEF IInv

LEMMA StutterKeeps ==
  ASSUME IInv, UNCHANGED vars
  PROVE  IInv'
<1>1. /\ TypeOK /\ Once /\ Kept /\ Mapped /\ Walking /\ Releasing /\ Freeing
      /\ UNCHANGED <<size, direct, indirect, content, used, others, pc, ib, lvl, cur, hand,
                     goal, file>>
  BY DEF IInv, vars
<1>2. /\ Once' /\ Pointed' = Pointed
      /\ \A i \in Behind : \A k \in 0 .. Level(i) : Way(i)'[k] = Way(i)[k]
      /\ \A i : Pointer(i)' = Pointer(i)
  BY <1>1, QuietTree
<1>3. Kept'
  <2>1. Pointed' = used' \ {hand'}
    BY <1>1, <1>2 DEF Kept
  <2> QED BY <2>1, Zenon DEF Kept
<1>4. Mapped'
  <2>1. Len(file') = CeilBlocks(size)'
    BY <1>1 DEF Mapped, CeilBlocks
  <2>2. ASSUME NEW i \in 0 .. block_limits[3] - 1
        PROVE  Pointer(i)' = IF Live(i)' THEN file'[i + 1] ELSE Null
    <3>1. Live(i)' <=> Live(i)
      BY <1>1 DEF Live, CeilBlocks
    <3>2. Pointer(i) = IF Live(i) THEN file[i + 1] ELSE Null
      BY <1>1 DEF Mapped
    <3>3. Pointer(i)' = Pointer(i) /\ file' = file
      BY <1>1, <1>2
    <3> QED BY <3>1, <3>2, <3>3
  <2> QED BY <2>1, <2>2, Zenon DEF Mapped
<1>5. TypeOK'
  BY <1>1 DEF TypeOK
<1>6. Walking'
  <2>1. CASE pc \in {"top", "walk"}
    <3>0. PICK i, l : i = ib /\ l = lvl
      OBVIOUS
    <3>1. /\ i = Len(file) /\ i \in Behind /\ l \in 1 .. Level(i)
          /\ cur = Way(i)[l] /\ hand \in used
          /\ pc = "top" => l = Level(i)
          /\ pc = "walk" => cur # Null
      BY <1>1, <2>1, <3>0 DEF Walking
    <3>2. Way(i)'[l] = cur
      <4>1. l \in 0 .. Level(i)
        BY <3>1, LevelIs
      <4> QED BY <1>2, <3>1, <4>1
    <3> QED BY <1>1, <2>1, <3>0, <3>1, <3>2, WalkingIsNext
  <2>2. CASE pc \notin {"top", "walk"}
    BY <1>1, <2>2 DEF Walking
  <2> QED BY <2>1, <2>2
<1>7. Releasing' /\ Freeing'
  BY <1>1 DEF Releasing, Freeing, CeilBlocks
<1> QED BY <1>2, <1>3, <1>4, <1>5, <1>6, <1>7 DEF IInv

LEMMA NextKeeps == IInv /\ [Next]_vars => IInv'
<1> SUFFICES ASSUME IInv, [Next]_vars PROVE IInv'
  OBVIOUS
<1>1. CASE UNCHANGED vars
  BY <1>1, StutterKeeps
<1>2. CASE Next
  <2>1. CASE AppendDirect
    BY <2>1, AppendDirectKeeps
  <2>2. CASE AppendStart
    BY <2>2, AppendStartKeeps
  <2>3. CASE TopBlock
    BY <2>3, TopBlockKeeps
  <2>4. CASE WalkDown
    BY <2>4, WalkDownKeeps
  <2>5. CASE WalkLast
    BY <2>5, WalkLastKeeps
  <2>6. CASE AppendFails
    BY <2>6, AppendFailsKeeps
  <2>7. CASE \E n \in 0 .. block_limits[3] * BlockSize : TruncateStart(n)
    BY <2>7, TruncateStartKeeps
  <2>8. CASE Release
    BY <2>8, ReleaseKeeps
  <2>9. CASE TruncateEnd
    BY <2>9, TruncateEndKeeps
  <2>10. CASE FreeSingle
    BY <2>10, FreeSingleKeeps
  <2>11. CASE FreeDouble
    BY <2>11, FreeDoubleKeeps
  <2>12. CASE FreeTriple
    BY <2>12, FreeTripleKeeps
  <2>13. CASE Reuse
    BY <2>13, ReuseKeeps
  <2>14. CASE OtherFile
    BY <2>14, OtherFileKeeps
  <2> QED BY <1>2, <2>1, <2>2, <2>3, <2>4, <2>5, <2>6, <2>7, <2>8, <2>9, <2>10, <2>11,
             <2>12, <2>13, <2>14 DEF Next
<1> QED BY <1>1, <1>2

\* The inductive invariant holds in every state: no step of an append, of a
\* truncation or of the release of an inode (ext4_fs.c:898-1132, 1423-1655) leaves a
\* block lost, doubled or mapped at the wrong place, wherever blocks run out.
THEOREM BlockMapInvariant == Spec => []IInv
<1>1. Init => IInv
  BY InitEstablishes
<1>2. IInv /\ [Next]_vars => IInv'
  BY NextKeeps
<1> QED BY <1>1, <1>2, PTL DEF Spec

\* The state keeps its types: every pointer is null or a block of the device, the
\* size stays below what three levels of indirect blocks can map.
THEOREM BlockMapTypes == Spec => []TypeOK
<1>1. IInv => TypeOK
  BY DEF IInv
<1> QED BY <1>1, BlockMapInvariant, PTL

\* Every block given to the inode is pointed to exactly once or is the one in hand,
\* at every turn of the loops of ext4_fs.c that append, truncate and release.
THEOREM BlocksAccountedFor == Spec => []Accounted
<1>1. ASSUME IInv PROVE Accounted
  <2>1. Once /\ Kept /\ Walking
    BY <1>1 DEF IInv
  <2>2. ASSUME NEW b \in Blocks
        PROVE  Cardinality(PointersTo(b)) + (IF b = hand THEN 1 ELSE 0) = (IF b \in used THEN 1 ELSE 0)
    <3>1. \A t : t \in PointersTo(b) <=> t \in Slots /\ Val(t) = b
      <4>1. direct \in [0 .. DirectCount - 1 -> Ptr]
        BY <1>1, Basics
      <4>2. ASSUME NEW t \in PointersTo(b) PROVE t \in Slots /\ Val(t) = b
        <5>1. CASE \E i \in DOMAIN direct : direct[i] = b /\ t = <<"direct", i, 0>>
          BY <4>1, <5>1, SlotsAre
        <5>2. CASE \E l \in 1 .. 3 : indirect[l] = b /\ t = <<"inode", l, 0>>
          BY <5>2, SlotsAre
        <5>3. CASE \E s \in Nodes \X Offsets :
                     content[s[1]][s[2]] = b /\ t = <<"block", s[1], s[2]>>
          <6>1. PICK s \in Nodes \X Offsets :
                  content[s[1]][s[2]] = b /\ t = <<"block", s[1], s[2]>>
            BY <5>3
          <6>2. s[1] \in Nodes /\ s[2] \in Offsets
            BY <6>1
          <6> QED BY <6>1, <6>2, SlotsAre
        <5> QED BY <4>2, <5>1, <5>2, <5>3 DEF PointersTo
      <4>3. ASSUME NEW t \in Slots, Val(t) = b PROVE t \in PointersTo(b)
        <5>1. CASE \E i \in 0 .. DirectCount - 1 : t = <<"direct", i, 0>>
          <6>1. PICK i \in 0 .. DirectCount - 1 : t = <<"direct", i, 0>>
            BY <5>1
          <6>2. i \in DOMAIN direct /\ direct[i] = b
            BY <4>1, <4>3, <6>1, SlotsAre
          <6> QED BY <6>1, <6>2 DEF PointersTo
        <5>2. CASE \E l \in 1 .. 3 : t = <<"inode", l, 0>>
          <6>1. PICK l \in 1 .. 3 : t = <<"inode", l, 0>>
            BY <5>2
          <6>2. indirect[l] = b
            BY <4>3, <6>1, SlotsAre
          <6> QED BY <6>1, <6>2 DEF PointersTo
        <5>3. CASE \E m \in Nodes, p \in Offsets : t = <<"block", m, p>>
          <6>1. PICK m \in Nodes, p \in Offsets : t = <<"block", m, p>>
            BY <5>3
          <6>2. content[m][p] = b
            BY <4>3, <6>1, SlotsAre
          <6>3. PICK s : s = <<m, p>>
            OBVIOUS
          <6>4. s \in Nodes \X Offsets /\ s[1] = m /\ s[2] = p
            BY <6>1, <6>3
          <6>5. /\ s \in {u \in Nodes \X Offsets : content[u[1]][u[2]] = b}
                /\ t = <<"block", s[1], s[2]>>
            BY <6>1, <6>2, <6>4
          <6> QED BY <6>5 DEF PointersTo
        <5> QED BY <4>3, <5>1, <5>2, <5>3, SlotsAre
      <4> QED BY <4>2, <4>3
    <3>2. b # Null /\ Null \notin used
      BY <1>1, Constants, Basics
    <3>3. b = hand => b \in used
      BY <2>1, <3>2 DEF Walking
    <3>4. CASE b \in Pointed
      <4>1. PICK s \in Slots : Val(s) = b
        BY <3>4, PointedIs
      <4>2. \A t \in Slots : Val(t) = b => t = s
        BY <2>1, <3>2, <4>1 DEF Once
      <4>3. PointersTo(b) = {s}
        BY <3>1, <4>1, <4>2
      <4>4. Cardinality(PointersTo(b)) = 1
        BY <4>3, FS_Singleton
      <4>5. b \in used /\ b # hand
        BY <2>1, <3>4 DEF Kept
      <4> QED BY <4>4, <4>5
    <3>5. CASE b \notin Pointed
      <4>1. PointersTo(b) = {}
        BY <3>1, <3>2, <3>5, PointedIs
      <4>2. Cardinality(PointersTo(b)) = 0
        BY <4>1, FS_EmptySet
      <4>3. b \in used <=> b = hand
        BY <2>1, <3>3, <3>5 DEF Kept
      <4> QED BY <4>2, <4>3
    <3> QED BY <3>4, <3>5
  <2> QED BY <2>2 DEF Accounted
<1> QED BY <1>1, BlockMapInvariant, PTL

\* ext4_fs_get_inode_dblk_idx finds for each logical block the data block that was
\* appended there, whatever was truncated and appended before.
THEOREM BlocksFound == Spec => []MapsFile
<1>1. ASSUME IInv PROVE MapsFile
  <2>1. /\ Mapped /\ Len(file) = CeilBlocks(size) /\ Len(file) \in Nat
        /\ Len(file) <= block_limits[3] /\ block_limits[3] \in Nat
    BY <1>1, Basics DEF IInv
  <2>2. ASSUME NEW i \in 0 .. Len(file) - 1, pc = "release" => i < CeilBlocks(goal)
        PROVE  Get(i) = file[i + 1]
    <3>1. i \in 0 .. block_limits[3] - 1 /\ i < Len(file)
      BY <2>1
    <3>2. Live(i)
      BY <2>2, <3>1 DEF Live
    <3>3. Pointer(i) = file[i + 1]
      BY <2>1, <3>1, <3>2 DEF Mapped
    <3>4. size # 0
      BY <2>1, CeilZero
    <3> QED BY <3>3, <3>4 DEF Get, Pointer
  <2> QED BY <2>1, <2>2 DEF MapsFile
<1> QED BY <1>1, BlockMapInvariant, PTL

=============================================================================
