----------------------------- MODULE FileIoProofs -----------------------------
(***************************************************************************)
(* Reads, writes and truncations of a file move exactly the bytes they     *)
(* should, for every block and sector size, number of handles and blocks,  *)
(* sizes of the calls and failures of the device that satisfy              *)
(* FileIoAssumption.                                                       *)
(***************************************************************************)
EXTENDS FileIo, DataLemmas, SequenceTheorems

Cells == Nat \X Nat
Nobody == CHOOSE h \in Handles : TRUE
Larger(a, b) == IF a < b THEN b ELSE a

Locals == [kind : {"none", "read", "write", "trunc"}, h : Handles \cup {Nobody},
           left : Nat, done : Nat, iblk : Nat, last : Nat, fblocks : Nat, fblk : Nat,
           start : Nat, count : Nat, full : BOOLEAN, got : Seq(Cells), want : Seq(Cells)]

\* The byte of the device that holds byte i of a file with the block map m.
At(m, i) == m[(i - 1) \div BlockSize + 1] * BlockSize + ((i - 1) % BlockSize)

\* The first n bytes of r are on the device d, in the blocks of m.
Holds(m, d, r, n) ==
  \A i \in 1 .. n : (i - 1) \div BlockSize < Len(m) /\ d[At(m, i)] = r[i]

\* Blocks k .. k + c - 1 of the file lie one behind the other from block s on.
RunAt(k, c, s) == \A j \in 0 .. c - 1 : k + j < Len(map) /\ map[k + j + 1] = s + j

\* Blocks are numbered by the device, each is in the map once.
MapOK(m) ==
  /\ m \in Seq(1 .. NBlocks - 1)
  /\ \A i, j \in DOMAIN m : m[i] = m[j] => i = j

\* Where the running call is in the file, and how long the file was when it began.
Pos == fpos[op.h]
Began == fsize[op.h]

Typed ==
  /\ TypeOK
  /\ disk \in [Bytes -> Cells] /\ op \in Locals /\ ref \in Seq(Cells)
  /\ pc # "idle" => op.h \in Handles

\* Write-back mode is on in the loop of a write and in a truncation, and an error
\* is on its way out.
Modes ==
  /\ failed => pc \in {"idle", "fsize", "ret"}
  /\ ~failed => wb = IF pc = "trunc" \/ (op.kind = "write" /\ pc \in {"loop", "gather", "flush"})
                     THEN 1 ELSE 0

\* No block is in the file twice, and the file has as many as its size needs.
Mapped == MapOK(map) /\ CeilBlocks(size) = Len(map)

\* A call that left early with an error promises nothing, a write on a full device does.
Promised == ~failed \/ op.kind = "write"

\* What the file contains is on the device; a truncation may have lost the end of it.
Stored ==
  Promised => Holds(map, disk, ref, IF pc = "trunc" THEN size ELSE Len(ref))

AtRest ==
  /\ pc = "idle" => op.kind = "none"
  /\ pc \in {"idle", "ret"} => (Promised => size = Len(ref))

AtHead ==
  pc = "head" =>
    /\ op.kind \in {"read", "write"} /\ ~op.full /\ op.done = 0
    /\ op.count = 0 /\ op.start = 0
    /\ size = Began /\ size = Len(ref) /\ Pos <= size
    /\ op.fblocks = CeilBlocks(size)
    /\ op.iblk = Pos \div BlockSize /\ op.last = (Pos + op.left) \div BlockSize

\* From the first block on a write may have grown the file: by whole blocks in the
\* inode, by the bytes transferred in what it contains.
Growing ==
  pc \in {"loop", "gather", "flush", "tail"} =>
    /\ op.kind \in {"read", "write"}
    /\ op.fblocks = CeilBlocks(Began)
    /\ Len(map) = Larger(op.fblocks, op.iblk)
    /\ size = Began + (Len(map) - op.fblocks) * BlockSize
    /\ Len(ref) = Larger(Began, Pos)
    /\ op.kind = "read" => op.iblk <= op.fblocks

\* The run gathered so far begins at the position of the handle.
Gathering ==
  pc = "gather" \/ (pc = "loop" /\ op.left >= BlockSize) =>
    /\ ~op.full /\ op.left >= BlockSize
    /\ op.last = (Pos + op.left) \div BlockSize
    /\ op.count <= op.iblk /\ op.iblk <= op.last
    /\ Pos = (op.iblk - op.count) * BlockSize
    /\ op.count = 0 => op.start = 0
    /\ RunAt(op.iblk - op.count, op.count, op.start)

\* The run ends because all blocks are gathered or none is left, or because the
\* last block does not join it.
Flushing ==
  pc = "flush" =>
    /\ op.left >= BlockSize
    /\ op.last = (Pos + op.left) \div BlockSize /\ op.iblk <= op.last
    /\ \/ /\ op.count <= op.iblk
          /\ Pos = (op.iblk - op.count) * BlockSize
          /\ RunAt(op.iblk - op.count, op.count, op.start)
          /\ \/ ~op.full /\ op.iblk = op.last
             \/ op.full /\ op.kind = "write" /\ op.iblk >= op.fblocks
       \/ /\ ~op.full /\ op.count < op.iblk
          /\ Pos = (op.iblk - 1 - op.count) * BlockSize
          /\ RunAt(op.iblk - 1 - op.count, op.count, op.start)
          /\ op.fblk = map[op.iblk]

\* Less than a block is left, and it is the start of block iblk.
Ending ==
  pc = "tail" \/ (pc = "loop" /\ op.left < BlockSize) =>
    /\ ~op.full /\ op.left < BlockSize
    /\ op.iblk = CeilBlocks(Pos)
    /\ op.left = 0 \/ Pos = op.iblk * BlockSize

\* out_fsize: if the write grew the file, its last byte lies in the last block.
Correcting ==
  pc = "fsize" =>
    /\ op.kind = "write" /\ Len(ref) = Larger(Began, Pos)
    /\ IF Pos > Began THEN CeilBlocks(Pos) = Len(map) ELSE size = Began

Truncating ==
  pc = "trunc" => op.kind = "trunc" /\ op.left <= size /\ size <= Len(ref)

\* What a read has delivered is the start of what it was asked for.
Answered ==
  op.kind = "read" =>
    /\ Len(op.got) = op.done
    /\ Len(op.want) = op.done + op.left
    /\ \A i \in 1 .. op.done : op.got[i] = op.want[i]

\* What it was asked for is in the file, around the position of the handle.
Asked ==
  op.kind = "read" =>
    /\ op.done <= Pos /\ Pos + op.left <= Began
    /\ \A i \in 1 .. op.done + op.left : op.want[i] = ref[Pos - op.done + i]

Delivered ==
  /\ Answered
  /\ pc # "ret" => Asked
  /\ pc = "ret" /\ op.kind = "read" => op.left = 0

IInv ==
  /\ Typed /\ Modes /\ Mapped /\ Stored
  /\ AtRest /\ AtHead /\ Growing /\ Gathering /\ Flushing /\ Ending /\ Correcting /\ Truncating
  /\ Delivered

----------------------------------------------------------------------------
(* Arithmetic of blocks *)

\* The number of blocks that n bytes need, and that no other number is.
LEMMA CeilIs ==
  ASSUME NEW n \in Nat
  PROVE  /\ CeilBlocks(n) \in Nat
         /\ n <= CeilBlocks(n) * BlockSize /\ CeilBlocks(n) * BlockSize < n + BlockSize
<1>1. BlockSize \in Nat \ {0} /\ n + BlockSize - 1 \in Nat
  BY FileIoAssumption
<1> DEFINE a == n + BlockSize - 1
           q == a \div BlockSize
<1>2. q \in Nat /\ a % BlockSize \in 0 .. BlockSize - 1 /\ a = q * BlockSize + (a % BlockSize)
  BY <1>1, DivMod
<1>3. q * BlockSize \in Nat
  BY <1>1, <1>2
<1> QED BY <1>1, <1>2, <1>3 DEF CeilBlocks

LEMMA CeilUnique ==
  ASSUME NEW n \in Nat, NEW k \in Nat, n <= k * BlockSize, k * BlockSize < n + BlockSize
  PROVE  CeilBlocks(n) = k
<1>1. BlockSize \in Nat \ {0} /\ k * BlockSize \in Nat
  BY FileIoAssumption
<1> DEFINE r == n + BlockSize - 1 - k * BlockSize
<1>2. r \in 0 .. BlockSize - 1
  BY <1>1
<1>3. n + BlockSize - 1 = k * BlockSize + r
  BY <1>1
<1> HIDE DEF r
<1>4. (k * BlockSize + r) \div BlockSize = k
  BY <1>1, <1>2, DivModUnique
<1> QED BY <1>3, <1>4 DEF CeilBlocks

\* Whole blocks compare as their bytes do.
LEMMA BlocksCompare ==
  ASSUME NEW a \in Int, NEW b \in Int
  PROVE  /\ a * BlockSize \in Int /\ b * BlockSize \in Int
         /\ (a + 1) * BlockSize = a * BlockSize + BlockSize
         /\ (a - 1) * BlockSize = a * BlockSize - BlockSize
         /\ (a - b) * BlockSize = a * BlockSize - b * BlockSize
         /\ (a + b) * BlockSize = a * BlockSize + b * BlockSize
         /\ a * BlockSize < b * BlockSize + BlockSize => a <= b
         /\ a * BlockSize <= b * BlockSize => a <= b
         /\ a <= b => a * BlockSize <= b * BlockSize
         /\ a < b => a * BlockSize + BlockSize <= b * BlockSize
<1>1. BlockSize \in Nat \ {0}
  BY FileIoAssumption
<1>2. a * BlockSize \in Int /\ b * BlockSize \in Int
  BY <1>1
<1>3. /\ (a + 1) * BlockSize = a * BlockSize + BlockSize
      /\ (a - 1) * BlockSize = a * BlockSize - BlockSize
      /\ (a - b) * BlockSize = a * BlockSize - b * BlockSize
      /\ (a + b) * BlockSize = a * BlockSize + b * BlockSize
      /\ (b + 1) * BlockSize = b * BlockSize + BlockSize
  BY <1>1
<1>4. a <= b => a * BlockSize <= b * BlockSize
  BY <1>1, TimesMono
<1>5. a < b => (a + 1) * BlockSize <= b * BlockSize
  BY <1>1, TimesMono
<1>6. b < a => (b + 1) * BlockSize <= a * BlockSize
  BY <1>1, TimesMono
<1> QED BY <1>1, <1>2, <1>3, <1>4, <1>5, <1>6

\* The whole blocks among the first e bytes.
LEMMA WholeBlocks ==
  ASSUME NEW e \in Nat, NEW i \in Nat
  PROVE  /\ e \div BlockSize \in Nat
         /\ i <= e \div BlockSize <=> i * BlockSize <= e
<1>1. BlockSize \in Nat \ {0}
  BY FileIoAssumption
<1> DEFINE l == e \div BlockSize
<1>2. l \in Nat /\ e % BlockSize \in 0 .. BlockSize - 1 /\ e = l * BlockSize + (e % BlockSize)
  BY <1>1, DivMod
<1> HIDE DEF l
<1>3. /\ i * BlockSize \in Int /\ l * BlockSize \in Int
      /\ i <= l => i * BlockSize <= l * BlockSize
      /\ i * BlockSize < l * BlockSize + BlockSize => i <= l
  <2>1. i \in Int /\ l \in Int
    BY <1>2
  <2> QED BY <2>1, BlocksCompare, Zenon
<1> QED BY <1>1, <1>2, <1>3 DEF l

\* A byte of block k is nobody else's.
LEMMA InBlock ==
  ASSUME NEW k \in Nat, NEW r \in 0 .. BlockSize - 1
  PROVE  /\ k * BlockSize + r \in Nat
         /\ (k * BlockSize + r) \div BlockSize = k /\ (k * BlockSize + r) % BlockSize = r
<1>1. BlockSize \in Nat \ {0}
  BY FileIoAssumption
<1>2. k * BlockSize \in Nat
  BY <1>1
<1> QED BY <1>1, <1>2, DivModUnique

\* The blocks of the device make up its bytes.
LEMMA OnDevice ==
  ASSUME NEW b \in 1 .. NBlocks - 1, NEW r \in 0 .. BlockSize - 1
  PROVE  b * BlockSize + r \in Bytes
<1>1. BlockSize \in Nat \ {0} /\ NBlocks \in Nat
  BY FileIoAssumption
<1>2. b * BlockSize + BlockSize <= NBlocks * BlockSize
  BY <1>1, BlocksCompare
<1>3. b * BlockSize \in Nat /\ NBlocks * BlockSize \in Nat
  BY <1>1
<1> QED BY <1>1, <1>2, <1>3 DEF Bytes

\* ext4_block_writebytes and ext4_block_readbytes reach the bytes from off on, in
\* order and without a gap, however the range lies across sectors.
LEMMA CutIs ==
  ASSUME NEW off \in Nat, NEW len \in Nat
  PROVE  /\ Cut(off, len) \in Seq(Nat) /\ Len(Cut(off, len)) = len
         /\ \A j \in 1 .. len : Cut(off, len)[j] = off + j - 1
<1>1. SectorSize \in Nat \ {0}
  BY FileIoAssumption
<1> DEFINE q == off \div SectorSize
           m == off % SectorSize
           head == HeadLen(off, len)
           first == q + (IF m = 0 THEN 0 ELSE 1)
           left == len - head
           whole == left \div SectorSize
           rest == left - whole * SectorSize
<1>2. q \in Nat /\ m \in 0 .. SectorSize - 1 /\ off = q * SectorSize + m
  BY <1>1, DivMod
<1>3. q * SectorSize \in Nat /\ (q + 1) * SectorSize = q * SectorSize + SectorSize
  BY <1>1, <1>2
<1>4. head = IF m = 0 THEN 0 ELSE IF SectorSize - m < len THEN SectorSize - m ELSE len
  BY DEF HeadLen, Smaller
<1> HIDE DEF head, q, m
<1>5. head \in 0 .. len /\ left \in Nat
  BY <1>1, <1>2, <1>4
<1> HIDE DEF left
<1>6. whole \in Nat /\ left % SectorSize \in 0 .. SectorSize - 1
      /\ left = whole * SectorSize + (left % SectorSize)
  BY <1>1, <1>5, DivMod
<1> HIDE DEF whole
<1> DEFINE w == whole * SectorSize
           f == first * SectorSize
<1>7. w \in Nat /\ left = w + (left % SectorSize)
  BY <1>1, <1>6
<1>8. rest \in Nat /\ left = w + rest /\ head + w + rest = len
  BY <1>1, <1>5, <1>6, <1>7 DEF left
<1> HIDE DEF rest
\* A second part is there only if the first sector was used up.
<1>9. first \in Nat /\ f \in Nat /\ (left > 0 => f = off + head)
  <2>1. CASE m = 0
    BY <1>1, <1>2, <1>3, <1>4, <2>1
  <2>2. CASE m # 0
    <3>1. first = q + 1
      BY <2>2
    <3>2. left > 0 => head = SectorSize - m
      BY <1>1, <1>2, <1>4, <1>5, <2>2 DEF left
    <3> QED BY <1>1, <1>2, <1>3, <1>5, <3>1, <3>2
  <2> QED BY <2>1, <2>2
<1> HIDE DEF first
<1>10. (first + whole) * SectorSize = f + w
  BY <1>1, <1>6, <1>9
<1> DEFINE s == [i \in 1 .. head |-> off + i - 1]
           t == [i \in 1 .. w |-> f + i - 1]
           u == [i \in 1 .. rest |-> f + w + i - 1]
<1>11. Cut(off, len) = s \o t \o u
  BY <1>10 DEF Cut, q, m, head, first, left, whole, rest
<1> HIDE DEF w, f
<1>12. /\ s \in Seq(Nat) /\ Len(s) = head
       /\ t \in Seq(Nat) /\ Len(t) = w
       /\ u \in Seq(Nat) /\ Len(u) = rest
  BY <1>5, <1>7, <1>8, <1>9
<1>13. /\ \A i \in 1 .. head : s[i] = off + i - 1
       /\ \A i \in 1 .. w : t[i] = f + i - 1
       /\ \A i \in 1 .. rest : u[i] = f + w + i - 1
  OBVIOUS
<1> HIDE DEF s, t, u
<1> DEFINE v == s \o t
<1>14. /\ v \in Seq(Nat) /\ Len(v) = head + w
       /\ \A i \in 1 .. head + w : v[i] = IF i <= head THEN s[i] ELSE t[i - head]
  BY <1>12, ConcatProperties
<1> HIDE DEF v
<1>15. Len(v) + Len(u) = len
  BY <1>5, <1>7, <1>8, <1>12, <1>14
<1>16. /\ v \o u \in Seq(Nat) /\ Len(v \o u) = len
       /\ \A i \in 1 .. len : (v \o u)[i] = IF i <= Len(v) THEN v[i] ELSE u[i - Len(v)]
  <2>1. /\ v \o u \in Seq(Nat) /\ Len(v \o u) = Len(v) + Len(u)
        /\ \A i \in 1 .. Len(v) + Len(u) : (v \o u)[i] = IF i <= Len(v) THEN v[i] ELSE u[i - Len(v)]
    <3>1. v \in Seq(Nat) /\ u \in Seq(Nat)
      BY <1>12, <1>14
    <3> QED BY <3>1, ConcatProperties, Zenon
  <2> QED BY <1>15, <2>1
<1>17. ASSUME NEW j \in 1 .. len PROVE (v \o u)[j] = off + j - 1
  <2>1. CASE j <= head
    <3>1. j \in 1 .. head /\ j <= Len(v) /\ j \in 1 .. head + w
      BY <1>5, <1>7, <1>14, <2>1
    <3> QED BY <1>13, <1>14, <1>16, <2>1, <3>1
  <2>2. CASE j > head /\ j <= head + w
    <3>1. /\ j - head \in 1 .. w /\ left > 0 /\ j <= Len(v) /\ ~(j <= head)
          /\ j \in 1 .. head + w
      BY <1>5, <1>7, <1>8, <1>14, <2>2
    <3>2. (v \o u)[j] = t[j - head]
      BY <1>14, <1>16, <3>1
    <3> QED BY <1>5, <1>9, <1>13, <3>1, <3>2
  <2>3. CASE j > head + w
    <3>1. j - Len(v) \in 1 .. rest /\ left > 0 /\ ~(j <= Len(v))
      BY <1>5, <1>7, <1>8, <1>14, <2>3
    <3>2. (v \o u)[j] = u[j - Len(v)]
      BY <1>16, <3>1
    <3>3. u[j - Len(v)] = f + w + (j - Len(v)) - 1
      BY <1>13, <3>1
    <3> QED BY <1>5, <1>7, <1>9, <1>14, <3>1, <3>2, <3>3
  <2>4. j <= head \/ (j > head /\ j <= head + w) \/ j > head + w
    BY <1>5, <1>7
  <2> QED BY <2>1, <2>2, <2>3, <2>4, Zenon
<1> QED BY <1>11, <1>16, <1>17 DEF v

\* Access to a run of blocks reaches its bytes in order.
LEMMA RunIs ==
  ASSUME NEW s \in Nat, NEW c \in Nat
  PROVE  /\ Run(s, c) \in Seq(Nat) /\ Len(Run(s, c)) = c * BlockSize
         /\ \A j \in 1 .. c * BlockSize : Run(s, c)[j] = s * BlockSize + j - 1
<1> DEFINE a == s * BlockSize
           n == c * BlockSize
<1>1. a \in Nat /\ n \in Nat
  BY FileIoAssumption
<1>2. Run(s, c) = [i \in 1 .. n |-> a + i - 1]
  BY DEF Run
<1> HIDE DEF a, n
<1>3. Run(s, c) \in Seq(Nat) /\ Len(Run(s, c)) = n /\ \A j \in 1 .. n : Run(s, c)[j] = a + j - 1
  BY <1>1, <1>2
<1> QED BY <1>3 DEF a, n

----------------------------------------------------------------------------
(* Where the bytes of the file are *)

\* A byte of the file lies in the block that the map gives for it.
LEMMA AtIs ==
  ASSUME NEW m, MapOK(m), NEW i \in Nat \ {0}, (i - 1) \div BlockSize < Len(m)
  PROVE  /\ At(m, i) \in Bytes
         /\ (i - 1) \div BlockSize \in Nat /\ (i - 1) \div BlockSize + 1 \in DOMAIN m
         /\ At(m, i) \div BlockSize = m[(i - 1) \div BlockSize + 1]
         /\ At(m, i) % BlockSize = (i - 1) % BlockSize
         /\ i - 1 = ((i - 1) \div BlockSize) * BlockSize + ((i - 1) % BlockSize)
<1> DEFINE k == (i - 1) \div BlockSize
           r == (i - 1) % BlockSize
<1>1. i - 1 \in Nat /\ BlockSize \in Nat \ {0}
  BY FileIoAssumption
<1>2. k \in Nat /\ r \in 0 .. BlockSize - 1 /\ i - 1 = k * BlockSize + r
  BY <1>1, DivMod
<1>3. At(m, i) = m[k + 1] * BlockSize + r /\ k < Len(m)
  BY DEF At
<1> HIDE DEF k, r
<1>4. k + 1 \in DOMAIN m /\ m[k + 1] \in 1 .. NBlocks - 1
  <2>1. \A n \in 1 .. Len(m) : n \in DOMAIN m /\ m[n] \in 1 .. NBlocks - 1
    BY FileIoAssumption DEF MapOK
  <2>2. k + 1 \in 1 .. Len(m)
    BY <1>2, <1>3 DEF MapOK
  <2> QED BY <2>1, <2>2
<1>5. m[k + 1] \in Nat /\ m[k + 1] * BlockSize + r \in Bytes
  BY <1>2, <1>4, OnDevice
<1>6. (m[k + 1] * BlockSize + r) \div BlockSize = m[k + 1] /\ (m[k + 1] * BlockSize + r) % BlockSize = r
  BY <1>2, <1>5, InBlock
<1>7. k \in Nat /\ k + 1 \in DOMAIN m /\ i - 1 = k * BlockSize + r
  BY <1>2, <1>4
<1> QED BY <1>3, <1>5, <1>6, <1>7 DEF k, r

\* Two bytes of the file are never the same byte of the device.
LEMMA AtOnce ==
  ASSUME NEW m, MapOK(m), NEW i \in Nat \ {0}, NEW j \in Nat \ {0},
         (i - 1) \div BlockSize < Len(m), (j - 1) \div BlockSize < Len(m), At(m, i) = At(m, j)
  PROVE  i = j
<1> DEFINE k(n) == (n - 1) \div BlockSize
           r(n) == (n - 1) % BlockSize
<1>1. /\ k(i) \in Nat /\ k(i) + 1 \in DOMAIN m /\ i - 1 = k(i) * BlockSize + r(i)
      /\ k(j) \in Nat /\ k(j) + 1 \in DOMAIN m /\ j - 1 = k(j) * BlockSize + r(j)
      /\ m[k(i) + 1] = m[k(j) + 1] /\ r(i) = r(j)
  BY AtIs
<1> HIDE DEF k, r
<1>2. k(i) = k(j)
  <2>1. k(i) + 1 = k(j) + 1
    BY <1>1 DEF MapOK
  <2> QED BY <1>1, <2>1
<1>3. i - 1 = j - 1
  BY <1>1, <1>2
<1> QED BY <1>3

\* The place of a byte given by its block and its offset there.
LEMMA AtBlock ==
  ASSUME NEW m, NEW k \in Nat, NEW r \in 0 .. BlockSize - 1
  PROVE  /\ ((k * BlockSize + r + 1) - 1) \div BlockSize = k
         /\ At(m, k * BlockSize + r + 1) = m[k + 1] * BlockSize + r
<1> DEFINE a == k * BlockSize + r
<1>1. a \in Nat /\ a \div BlockSize = k /\ a % BlockSize = r
  BY InBlock
<1> HIDE DEF a
<1>2. (a + 1) - 1 = a
  BY <1>1
<1>3. ((a + 1) - 1) \div BlockSize = k /\ At(m, a + 1) = m[k + 1] * BlockSize + r
  BY <1>1, <1>2 DEF At
<1> QED BY <1>3 DEF a

\* The places `where' are those of the bytes behind position p of the file.
Reaches(where, m, p) ==
  \A j \in DOMAIN where : ((p + j) - 1) \div BlockSize < Len(m) /\ where[j] = At(m, p + j)

\* The ends of a transfer lie within one block.
LEMMA CutReaches ==
  ASSUME NEW m, MapOK(m), NEW k \in Nat, k < Len(m), NEW r \in Nat, NEW n \in Nat, r + n <= BlockSize
  PROVE  Reaches(Cut(m[k + 1] * BlockSize + r, n), m, k * BlockSize + r)
<1>1. k + 1 \in DOMAIN m /\ m[k + 1] \in Nat /\ BlockSize \in Nat \ {0}
  BY FileIoAssumption DEF MapOK
<1> DEFINE b == m[k + 1] * BlockSize
           f == k * BlockSize
           where == Cut(b + r, n)
<1>2. b \in Nat /\ f \in Nat
  BY <1>1
<1> HIDE DEF b, f
<1>3. where \in Seq(Nat) /\ Len(where) = n /\ \A j \in 1 .. n : where[j] = (b + r) + j - 1
  <2>1. b + r \in Nat
    BY <1>2
  <2> QED BY <2>1, CutIs
<1> HIDE DEF where
<1>4. ASSUME NEW j \in 1 .. n
      PROVE  (((f + r) + j) - 1) \div BlockSize < Len(m) /\ where[j] = At(m, (f + r) + j)
  <2>1. r + j - 1 \in 0 .. BlockSize - 1
    BY <1>1
  <2>2. /\ ((f + (r + j - 1) + 1) - 1) \div BlockSize = k
        /\ At(m, f + (r + j - 1) + 1) = b + (r + j - 1)
    BY <2>1, AtBlock DEF b, f
  <2>3. f + (r + j - 1) + 1 = (f + r) + j /\ b + (r + j - 1) = (b + r) + j - 1
    BY <1>2
  <2> QED BY <1>3, <2>2, <2>3
<1> QED BY <1>3, <1>4 DEF Reaches, where, b, f

\* A transfer from the start of a block.
LEMMA BlockReaches ==
  ASSUME NEW m, MapOK(m), NEW k \in Nat, k < Len(m), NEW n \in Nat, n <= BlockSize
  PROVE  Reaches(Cut(m[k + 1] * BlockSize, n), m, k * BlockSize)
<1>1. 0 \in Nat /\ 0 + n <= BlockSize
  BY FileIoAssumption
<1>2. Reaches(Cut(m[k + 1] * BlockSize + 0, n), m, k * BlockSize + 0)
  BY <1>1, CutReaches, Zenon
<1>3. k * BlockSize \in Nat /\ k * BlockSize + 0 = k * BlockSize
  BY FileIoAssumption
<1>4. m[k + 1] * BlockSize + 0 = m[k + 1] * BlockSize
  <2>1. m[k + 1] \in Nat
    BY FileIoAssumption DEF MapOK
  <2>2. m[k + 1] * BlockSize \in Nat
    BY <2>1, FileIoAssumption
  <2> QED BY <2>2
<1> QED BY <1>2, <1>3, <1>4

\* A run of blocks that lie one behind the other on the device, too.
LEMMA RunReaches ==
  ASSUME NEW m, MapOK(m), NEW k \in Nat, NEW s \in Nat, NEW c \in Nat,
         \A j \in 0 .. c - 1 : k + j < Len(m) /\ m[k + j + 1] = s + j
  PROVE  Reaches(Run(s, c), m, k * BlockSize)
<1> DEFINE where == Run(s, c)
<1>1. /\ where \in Seq(Nat) /\ Len(where) = c * BlockSize
      /\ \A j \in 1 .. c * BlockSize : where[j] = s * BlockSize + j - 1
  BY RunIs
<1> HIDE DEF where
<1>2. BlockSize \in Nat \ {0} /\ k * BlockSize \in Nat /\ s * BlockSize \in Nat
  BY FileIoAssumption
<1>3. ASSUME NEW j \in DOMAIN where
      PROVE  ((k * BlockSize + j) - 1) \div BlockSize < Len(m) /\ where[j] = At(m, k * BlockSize + j)
  <2> DEFINE q == (j - 1) \div BlockSize
             r == (j - 1) % BlockSize
  <2>1. j \in Nat \ {0} /\ j <= c * BlockSize /\ where[j] = s * BlockSize + j - 1 /\ j - 1 \in Nat
    BY <1>1, <1>2
  <2>2. q \in Nat /\ r \in 0 .. BlockSize - 1 /\ j - 1 = q * BlockSize + r
    BY <1>2, <2>1, DivMod
  <2> HIDE DEF q, r
  <2>3. q < c
    <3>1. q * BlockSize < c * BlockSize
      BY <1>2, <2>1, <2>2
    <3>2. q >= c => c * BlockSize <= q * BlockSize
      BY <1>2, <2>2, TimesMono
    <3> QED BY <1>2, <2>2, <3>1, <3>2
  <2>4. k + q < Len(m) /\ m[k + q + 1] = s + q /\ k + q \in Nat
    BY <2>2, <2>3
  <2>5. /\ (((k + q) * BlockSize + r + 1) - 1) \div BlockSize = k + q
        /\ At(m, (k + q) * BlockSize + r + 1) = m[k + q + 1] * BlockSize + r
    BY <2>2, <2>4, AtBlock
  <2>6. /\ (k + q) * BlockSize = k * BlockSize + q * BlockSize
        /\ (s + q) * BlockSize = s * BlockSize + q * BlockSize
    BY <1>2, <2>2
  <2>7. (k + q) * BlockSize + r + 1 = k * BlockSize + j
    BY <1>2, <2>1, <2>2, <2>6
  <2>8. (s + q) * BlockSize + r = s * BlockSize + j - 1
    BY <1>2, <2>1, <2>2, <2>6
  <2>9. At(m, k * BlockSize + j) = where[j]
    BY <2>1, <2>4, <2>5, <2>7, <2>8, Zenon
  <2>10. ((k * BlockSize + j) - 1) \div BlockSize = k + q
    BY <2>5, <2>7, Zenon
  <2> QED BY <2>4, <2>9, <2>10
<1> QED BY <1>3 DEF Reaches, where

\* A file that grew holds what it held.
LEMMA HoldsAppended ==
  ASSUME NEW m, MapOK(m), NEW b, NEW d, NEW r, NEW n \in Nat, Holds(m, d, r, n)
  PROVE  Holds(Append(m, b), d, r, n)
<1> SUFFICES ASSUME NEW i \in 1 .. n
             PROVE  /\ (i - 1) \div BlockSize < Len(Append(m, b))
                    /\ d[At(Append(m, b), i)] = r[i]
  BY DEF Holds
<1>1. (i - 1) \div BlockSize < Len(m) /\ d[At(m, i)] = r[i] /\ i \in Nat \ {0}
  BY DEF Holds
<1>2. (i - 1) \div BlockSize \in Nat /\ (i - 1) \div BlockSize + 1 \in DOMAIN m
  BY <1>1, AtIs
<1> DEFINE k == (i - 1) \div BlockSize
<1>3. /\ Len(Append(m, b)) = Len(m) + 1 /\ Append(m, b)[k + 1] = m[k + 1]
      /\ k + 1 \in 1 .. Len(m) /\ Len(m) \in Nat
  <2> HIDE DEF k
  <2>1. \A l \in 1 .. Len(m) : Append(m, b)[l] = m[l]
    BY DEF MapOK
  <2>2. k + 1 \in 1 .. Len(m)
    BY <1>2 DEF MapOK, k
  <2> QED BY <2>1, <2>2 DEF MapOK
<1>4. At(Append(m, b), i) = At(m, i)
  BY <1>3 DEF At
<1> QED BY <1>1, <1>2, <1>3, <1>4

----------------------------------------------------------------------------
(* Transfers *)

\* What a transfer to or from the places behind the position of the handle does:
\* the device still holds the file, whose contents it extends or overwrites, and
\* nothing outside the blocks of the file.
LEMMA TransferKeeps ==
  ASSUME NEW m, MapOK(m), NEW where \in Seq(Nat), Typed, pc # "idle", Pos <= Len(ref),
         Reaches(where, m, Pos), Holds(m, disk, ref, Len(ref)), Transfer(where)
  PROVE  /\ disk' \in [Bytes -> Cells] /\ ref' \in Seq(Cells)
         /\ fpos' = [fpos EXCEPT ![op.h] = Pos + Len(where)] /\ fpos' \in [Handles -> Nat]
         /\ fpos'[op.h] = Pos + Len(where)
         /\ Holds(m, disk', ref', Len(ref'))
         /\ Len(ref') = IF op.kind = "write" THEN Larger(Len(ref), Pos + Len(where)) ELSE Len(ref)
         /\ op.kind # "write" => ref' = ref
         /\ \A x \in Bytes : disk'[x] # disk[x] => x \div BlockSize \in ToSet(m)
<1> DEFINE p == Pos
           n == Len(where)
           l == Len(ref)
<1>1. /\ disk \in [Bytes -> Cells] /\ op \in Locals /\ ref \in Seq(Cells) /\ op.h \in Handles
      /\ fpos \in [Handles -> Nat] /\ calls \in Nat
  BY DEF Typed, TypeOK
<1>2. p \in Nat /\ n \in Nat /\ l \in Nat /\ p <= l /\ DOMAIN where = 1 .. n /\ op.done \in Nat
  BY <1>1 DEF Pos, Locals
<1>3. /\ fpos' = [fpos EXCEPT ![op.h] = p + n] /\ fpos' \in [Handles -> Nat]
      /\ fpos'[op.h] = p + n
  BY <1>1, <1>2 DEF Transfer, Pos
<1>4. CASE op.kind # "write"
  <2>1. disk' = disk /\ ref' = ref
    BY <1>4 DEF Transfer
  <2> QED BY <1>1, <1>3, <1>4, <2>1
<1>5. CASE op.kind = "write"
  <2>1. disk' = Place(where) /\ ref' = Overlay(n)
    BY <1>5 DEF Transfer
  <2> HIDE DEF p, n, l
  <2> DEFINE e == IF l > p + n THEN l ELSE p + n
             New(i) == <<calls, op.done + i>>
  <2>2. e \in Nat /\ e = Larger(l, p + n)
    BY <1>2 DEF Larger
  <2>3. ref' = [i \in 1 .. e |-> IF i > p /\ i <= p + n THEN New(i - p) ELSE ref[i]]
    BY <2>1 DEF Overlay, p, l, Pos
  <2>4. \A i \in 1 .. n : New(i) \in Cells
    BY <1>1, <1>2 DEF Cells
  <2> HIDE DEF e, New
  <2>5. ASSUME NEW i \in 1 .. e, ~(i > p /\ i <= p + n) PROVE i \in 1 .. l
    BY <1>2, <2>2, <2>5 DEF Larger
  <2>6. ref' \in Seq(Cells) /\ Len(ref') = e
    <3>1. \A i \in 1 .. l : ref[i] \in Cells
      BY <1>1 DEF l
    <3>2. \A i \in 1 .. e : (IF i > p /\ i <= p + n THEN New(i - p) ELSE ref[i]) \in Cells
      <4> TAKE i \in 1 .. e
      <4>1. CASE i > p /\ i <= p + n
        <5>1. i - p \in 1 .. n
          BY <1>2, <2>2, <4>1
        <5> QED BY <2>4, <4>1, <5>1
      <4>2. CASE ~(i > p /\ i <= p + n)
        BY <2>5, <3>1, <4>2
      <4> QED BY <4>1, <4>2
    <3>3. ref' \in [1 .. e -> Cells]
      BY <2>3, <3>2
    <3> QED BY <2>2, <3>3
  <2>7. \A i \in 1 .. e : ref'[i] = IF i > p /\ i <= p + n THEN New(i - p) ELSE ref[i]
    BY <2>3
\* The places are those of the bytes p + 1 .. p + n of the file, each once.
  <2>8. ASSUME NEW j \in 1 .. n
        PROVE  /\ p + j \in Nat \ {0} /\ ((p + j) - 1) \div BlockSize < Len(m)
               /\ where[j] = At(m, p + j) /\ where[j] \in Bytes
               /\ where[j] \div BlockSize \in ToSet(m)
    <3>1. /\ p + j \in Nat \ {0} /\ ((p + j) - 1) \div BlockSize < Len(m)
          /\ where[j] = At(m, p + j)
      BY <1>2, SMTT(60) DEF Reaches, p
    <3>2. /\ where[j] \in Bytes /\ ((p + j) - 1) \div BlockSize + 1 \in DOMAIN m
          /\ where[j] \div BlockSize = m[((p + j) - 1) \div BlockSize + 1]
      BY <3>1, AtIs
    <3> QED BY <3>1, <3>2 DEF ToSet
  <2>9. ASSUME NEW i \in 1 .. n, NEW j \in 1 .. n, where[i] = where[j] PROVE i = j
    <3>1. p + i = p + j
      BY <2>8, <2>9, AtOnce
    <3> QED BY <1>2, <3>1
  <2>10. ASSUME NEW x \in Bytes
         PROVE  /\ \A j \in 1 .. n : where[j] = x => disk'[x] = New(j)
                /\ (\A j \in 1 .. n : where[j] # x) => disk'[x] = disk[x]
    <3>1. disk'[x] = IF Contains(where, x)
                     THEN New(CHOOSE i \in DOMAIN where : where[i] = x) ELSE disk[x]
      BY <2>1 DEF Place, New
    <3>2. Contains(where, x) <=> \E j \in 1 .. n : where[j] = x
      BY DEF Contains, n
    <3>3. ASSUME NEW j \in 1 .. n, where[j] = x
          PROVE  (CHOOSE i \in DOMAIN where : where[i] = x) = j
      BY <1>2, <2>9, <3>3
    <3> QED BY <3>1, <3>2, <3>3
  <2>11. disk' \in [Bytes -> Cells]
    <3>1. disk' = [x \in Bytes |-> disk'[x]]
      BY <2>1 DEF Place
    <3>2. \A x \in Bytes : disk'[x] \in Cells
      BY <1>1, <2>4, <2>10
    <3> QED BY <3>1, <3>2
  <2>12. \A x \in Bytes : disk'[x] # disk[x] => x \div BlockSize \in ToSet(m)
    BY <2>8, <2>10
  <2>13. Holds(m, disk', ref', e)
    <3> SUFFICES ASSUME NEW i \in 1 .. e
                 PROVE  (i - 1) \div BlockSize < Len(m) /\ disk'[At(m, i)] = ref'[i]
      BY DEF Holds
    <3>1. CASE i > p /\ i <= p + n
      <4>1. i - p \in 1 .. n /\ p + (i - p) = i
        BY <1>2, <2>2, <3>1
      <4> DEFINE j == i - p
      <4> HIDE DEF j
      <4>2. j \in 1 .. n /\ p + j = i
        BY <4>1 DEF j
      <4>3. (i - 1) \div BlockSize < Len(m) /\ where[j] = At(m, i) /\ where[j] \in Bytes
        BY <2>8, <4>2
      <4>4. disk'[At(m, i)] = New(j)
        BY <2>10, <4>2, <4>3
      <4> QED BY <2>7, <3>1, <4>3, <4>4 DEF j
    <3>2. CASE ~(i > p /\ i <= p + n)
      <4>1. i \in 1 .. l /\ i \in Nat \ {0}
        BY <1>2, <2>5, <3>2
      <4>2. (i - 1) \div BlockSize < Len(m) /\ disk[At(m, i)] = ref[i]
        BY <4>1 DEF Holds, l
      <4>3. At(m, i) \in Bytes
        BY <4>1, <4>2, AtIs
      <4>4. \A j \in 1 .. n : where[j] # At(m, i)
        <5> SUFFICES ASSUME NEW j \in 1 .. n, where[j] = At(m, i) PROVE FALSE
          OBVIOUS
        <5>1. p + j = i
          BY <2>8, <4>1, <4>2, AtOnce
        <5> QED BY <1>2, <3>2, <5>1
      <4> QED BY <2>7, <2>10, <3>2, <4>2, <4>3, <4>4
    <3> QED BY <3>1, <3>2
  <2> QED BY <1>3, <1>5, <2>2, <2>6, <2>11, <2>12, <2>13 DEF p, n, l
<1> QED BY <1>4, <1>5

\* The locals after a transfer of no more than what was asked for.
LEMMA MovedIs ==
  ASSUME Typed, NEW where \in Seq(Bytes), Len(where) <= op.left
  PROVE  /\ Moved(where) \in Locals
         /\ Moved(where).left = op.left - Len(where) /\ Moved(where).done = op.done + Len(where)
         /\ Moved(where).kind = op.kind /\ Moved(where).h = op.h
         /\ Moved(where).iblk = op.iblk /\ Moved(where).last = op.last
         /\ Moved(where).fblocks = op.fblocks /\ Moved(where).fblk = op.fblk
         /\ Moved(where).start = op.start /\ Moved(where).count = op.count
         /\ Moved(where).full = op.full /\ Moved(where).want = op.want
         /\ op.kind = "read" =>
              Moved(where).got = op.got \o [i \in DOMAIN where |-> disk[where[i]]]
         /\ DOMAIN Moved(where) = DOMAIN op
<1> DEFINE got == IF op.kind = "read" THEN op.got \o [i \in DOMAIN where |-> disk[where[i]]]
                  ELSE op.got
<1>1. op \in Locals /\ disk \in [Bytes -> Cells]
  BY DEF Typed
<1>2. /\ op.left - Len(where) \in Nat /\ op.done + Len(where) \in Nat
  BY <1>1 DEF Locals
<1>3. got \in Seq(Cells)
  <2>1. [i \in DOMAIN where |-> disk[where[i]]] \in Seq(Cells)
    BY <1>1
  <2>2. op.got \in Seq(Cells)
    BY <1>1 DEF Locals
  <2> QED BY <2>1, <2>2, ConcatProperties
<1> HIDE DEF got
<1>4. Moved(where) = [op EXCEPT !.left = op.left - Len(where), !.done = op.done + Len(where),
                                !.got = got]
  BY DEF Moved, got
<1>5. /\ Moved(where) \in Locals
      /\ Moved(where).left = op.left - Len(where) /\ Moved(where).done = op.done + Len(where)
      /\ Moved(where).kind = op.kind /\ Moved(where).h = op.h
      /\ Moved(where).iblk = op.iblk /\ Moved(where).last = op.last
      /\ Moved(where).fblocks = op.fblocks /\ Moved(where).fblk = op.fblk
      /\ Moved(where).start = op.start /\ Moved(where).count = op.count
      /\ Moved(where).full = op.full /\ Moved(where).want = op.want
      /\ Moved(where).got = got
      /\ DOMAIN Moved(where) = DOMAIN op
  BY <1>1, <1>2, <1>3, <1>4 DEF Locals
<1> QED BY <1>5 DEF got

\* The places of bytes of the file are bytes of the device.
LEMMA ReachesBytes ==
  ASSUME NEW m, MapOK(m), NEW p \in Nat, NEW where \in Seq(Nat), Reaches(where, m, p)
  PROVE  where \in Seq(Bytes)
<1>1. ASSUME NEW j \in 1 .. Len(where) PROVE where[j] \in Bytes
  <2>1. /\ p + j \in Nat \ {0} /\ ((p + j) - 1) \div BlockSize < Len(m)
        /\ where[j] = At(m, p + j)
    BY DEF Reaches
  <2> QED BY <2>1, AtIs
<1> QED BY <1>1

\* A step changes no byte outside the blocks of the file.
Inside == \A x \in Bytes : disk'[x] # disk[x] => x \div BlockSize \in ToSet(map')

\* A transfer of at most what is left delivers what a read asked for, puts what a
\* write was given, and takes the call and the file on by as much.
LEMMA MoveKeeps ==
  ASSUME IInv, pc \in {"head", "flush", "tail"},
         NEW where \in Seq(Nat), Len(where) <= op.left, Transfer(where),
         MapOK(map'), Holds(map', disk, ref, Len(ref)), Reaches(where, map', Pos),
         op' \in Locals, op'.kind = op.kind, op'.h = op.h, op'.want = op.want,
         op'.left = op.left - Len(where), op'.done = op.done + Len(where),
         op'.got = Moved(where).got, fsize' = fsize
  PROVE  /\ disk' \in [Bytes -> Cells] /\ ref' \in Seq(Cells) /\ fpos' \in [Handles -> Nat]
         /\ Holds(map', disk', ref', Len(ref'))
         /\ Pos \in Nat /\ Pos' = Pos + Len(where) /\ Began \in Nat /\ Began' = Began
         /\ op.left \in Nat /\ op'.left \in Nat
         /\ Len(ref) = Larger(Began, Pos) /\ Len(ref') = Larger(Began, Pos')
         /\ Answered' /\ Asked'
         /\ Inside
<1> DEFINE n == Len(where)
<1>1. /\ Typed /\ pc # "idle" /\ op \in Locals /\ ref \in Seq(Cells) /\ op.h \in Handles
      /\ fpos \in [Handles -> Nat] /\ fsize \in [Handles -> Nat] /\ disk \in [Bytes -> Cells]
  BY DEF IInv, Typed, TypeOK
<1>2. /\ Pos \in Nat /\ Began \in Nat /\ Began' = Began /\ n \in Nat /\ op.left \in Nat /\ op.done \in Nat
      /\ op.got \in Seq(Cells) /\ op.want \in Seq(Cells) /\ op'.left \in Nat
  <2>1. /\ op.left \in Nat /\ op.done \in Nat /\ op'.left \in Nat
        /\ op.got \in Seq(Cells) /\ op.want \in Seq(Cells)
    BY <1>1 DEF Locals
  <2>2. Pos \in Nat /\ Began \in Nat /\ Began' = Began
    BY <1>1 DEF Pos, Began
  <2> QED BY <2>1, <2>2
<1>3. Len(ref) = Larger(Began, Pos) /\ Pos <= Len(ref) /\ op.kind \in {"read", "write"}
  BY <1>1, <1>2 DEF IInv, AtHead, Growing, Larger
<1>4. /\ disk' \in [Bytes -> Cells] /\ ref' \in Seq(Cells)
      /\ fpos' \in [Handles -> Nat] /\ fpos'[op.h] = Pos + n
      /\ Holds(map', disk', ref', Len(ref'))
      /\ Len(ref') = IF op.kind = "write" THEN Larger(Len(ref), Pos + n) ELSE Len(ref)
      /\ op.kind # "write" => ref' = ref
      /\ \A x \in Bytes : disk'[x] # disk[x] => x \div BlockSize \in ToSet(map')
  BY <1>1, <1>3, TransferKeeps
<1>5. Pos' = Pos + n
  BY <1>4 DEF Pos
<1>6. Answered /\ Asked
  BY DEF IInv, Delivered
<1>7. Len(ref') = Larger(Began, Pos')
  <2>1. CASE op.kind = "write"
    BY <1>2, <1>3, <1>4, <1>5, <2>1 DEF Larger
  <2>2. CASE op.kind = "read"
    BY <1>2, <1>3, <1>4, <1>5, <1>6, <2>2 DEF Larger, Asked
  <2> QED BY <1>3, <2>1, <2>2
<1>8. where \in Seq(Bytes)
  BY <1>2, ReachesBytes
<1>9. Answered' /\ Asked'
  <2> SUFFICES ASSUME op.kind = "read" PROVE Answered' /\ Asked'
    BY DEF Answered, Asked
  <2>1. ref' = ref /\ op'.got = op.got \o [i \in DOMAIN where |-> disk[where[i]]]
    BY <1>1, <1>4, <1>8, MovedIs
  <2>2. /\ Len(op.got) = op.done /\ Len(op.want) = op.done + op.left
        /\ \A i \in 1 .. op.done : op.got[i] = op.want[i]
        /\ op.done <= Pos /\ Pos + op.left <= Began
        /\ \A i \in 1 .. op.done + op.left : op.want[i] = ref[Pos - op.done + i]
    BY <1>6 DEF Answered, Asked
  <2> DEFINE new == [i \in DOMAIN where |-> disk[where[i]]]
  <2>3. new \in Seq(Cells) /\ Len(new) = n /\ \A j \in 1 .. n : new[j] = disk[where[j]]
    BY <1>1, <1>8, SMTT(60)
  <2> HIDE DEF new
  <2>4. /\ Len(op'.got) = op.done + n
        /\ \A i \in 1 .. op.done + n : op'.got[i] = IF i <= op.done THEN op.got[i] ELSE new[i - op.done]
    <3>1. op'.got = op.got \o new
      BY <2>1 DEF new
    <3> DEFINE old == op.got
    <3>2. old \in Seq(Cells) /\ Len(old) = op.done
      BY <1>2, <2>2
    <3>3. op'.got = old \o new
      BY <3>1
    <3> HIDE DEF old
    <3>4. /\ Len(old \o new) = Len(old) + Len(new)
          /\ \A i \in 1 .. Len(old) + Len(new) :
               (old \o new)[i] = IF i <= Len(old) THEN old[i] ELSE new[i - Len(old)]
      BY <2>3, <3>2, ConcatProperties, SMTT(60)
    <3> QED BY <2>3, <3>2, <3>3, <3>4, Zenon DEF old
  <2>5. ASSUME NEW j \in 1 .. n PROVE new[j] = ref[Pos + j]
    <3>1. where[j] = At(map', Pos + j)
      BY DEF Reaches
    <3>2. Pos + j \in 1 .. Len(ref')
      <4>1. Pos + j <= Began /\ Pos + j \in Nat /\ Pos + j >= 1
        BY <1>2, <2>2
      <4>2. Len(ref') = Larger(Began, Pos)
        BY <1>3, <2>1
      <4> QED BY <1>2, <4>1, <4>2 DEF Larger
    <3>3. disk'[At(map', Pos + j)] = ref'[Pos + j]
      BY <1>4, <3>2 DEF Holds
    <3>4. disk' = disk
      BY DEF Transfer
    <3> QED BY <2>1, <2>3, <3>1, <3>3, <3>4
  <2>6. ASSUME NEW i \in 1 .. op.done + n PROVE op'.got[i] = op.want[i]
    <3>1. CASE i <= op.done
      BY <1>2, <2>2, <2>4, <3>1
    <3>2. CASE i > op.done
      <4>1. i - op.done \in 1 .. n /\ i \in 1 .. op.done + op.left
        BY <1>2, <3>2, SMTT(60)
      <4>2. op'.got[i] = ref[Pos + (i - op.done)]
        <5>1. op'.got[i] = new[i - op.done]
          BY <1>2, <2>4, <3>2
        <5> QED BY <2>5, <4>1, <5>1
      <4>3. op.want[i] = ref[Pos - op.done + i]
        BY <2>2, <4>1
      <4>4. Pos + (i - op.done) = Pos - op.done + i
        BY <1>2
      <4> QED BY <4>2, <4>3, <4>4
    <3> QED BY <1>2, <3>1, <3>2
  <2>7. op'.done + op'.left = op.done + op.left /\ Pos' - op'.done = Pos - op.done
    BY <1>2, <1>5
  <2>8. Answered'
    BY <1>2, <2>2, <2>4, <2>6, <2>7 DEF Answered
  <2>9. op'.done <= Pos' /\ Pos' + op'.left <= Began'
    BY <1>2, <1>5, <2>2, SMTT(60)
  <2>10. \A i \in 1 .. op'.done + op'.left : op'.want[i] = ref'[Pos' - op'.done + i]
    BY <2>1, <2>2, <2>7
  <2> QED BY <2>8, <2>9, <2>10 DEF Asked
<1> QED BY <1>2, <1>3, <1>4, <1>5, <1>7, <1>9 DEF Inside

----------------------------------------------------------------------------
(* The steps of a transfer *)

\* The end of the first block brings a call to a block boundary, or to its end.
LEMMA HeadBlockKeeps ==
  ASSUME IInv, HeadBlock
  PROVE  IInv' /\ Inside
<1> DEFINE unalg == Pos % BlockSize
           k == Pos \div BlockSize
           n == IF unalg = 0 THEN 0 ELSE Smaller(BlockSize - unalg, op.left)
           where == IF unalg = 0 THEN <<>> ELSE Cut(BlockOf(op.iblk) * BlockSize + unalg, n)
<1>1. /\ pc = "head" /\ pc' = "loop" /\ Typed /\ op \in Locals /\ op.h \in Handles
      /\ MapOK(map) /\ CeilBlocks(size) = Len(map) /\ ~failed
      /\ wb' = IF op.kind = "write" THEN wb + 1 ELSE wb
      /\ UNCHANGED <<map, size, fsize, calls, failed>>
  BY DEF IInv, Typed, Mapped, Modes, HeadBlock
<1>2. /\ op.kind \in {"read", "write"} /\ ~op.full /\ op.done = 0
      /\ op.count = 0 /\ op.start = 0
      /\ size = Began /\ size = Len(ref) /\ Pos <= size
      /\ op.fblocks = CeilBlocks(size)
      /\ op.iblk = k /\ op.last = (Pos + op.left) \div BlockSize
  BY <1>1 DEF IInv, AtHead
<1>3. BlockSize \in Nat \ {0} /\ Pos \in Nat /\ Began \in Nat /\ op.left \in Nat /\ size \in Nat
  <2>1. BlockSize \in Nat \ {0}
    BY FileIoAssumption
  <2>2. Pos \in Nat /\ Began \in Nat /\ size \in Nat
    BY <1>1 DEF Typed, TypeOK, Pos, Began
  <2>3. op.left \in Nat
    BY <1>1 DEF Locals
  <2> QED BY <2>1, <2>2, <2>3
<1>4. k \in Nat /\ unalg \in 0 .. BlockSize - 1 /\ Pos = k * BlockSize + unalg
  BY <1>3, DivMod
<1>5. /\ Transfer(where)
      /\ op' = [Moved(where) EXCEPT !.iblk = IF unalg = 0 THEN @ ELSE @ + 1]
  BY DEF HeadBlock, Pos
<1> HIDE DEF unalg, k
<1>6. n \in Nat /\ n <= op.left /\ (unalg # 0 => unalg + n <= BlockSize)
      /\ (unalg = 0 => n = 0)
  BY <1>3, <1>4 DEF Smaller
<1>7. unalg # 0 => k < Len(map)
  <2>1. Len(map) \in Nat /\ size <= Len(map) * BlockSize
    BY <1>1, <1>3, CeilIs
  <2>4. k * BlockSize \in Int /\ Len(map) * BlockSize \in Int
    BY <1>3, <1>4, <2>1
  <2>2. SUFFICES ASSUME unalg # 0, Len(map) <= k PROVE FALSE
    BY <1>4, <2>1
  <2>3. Len(map) * BlockSize <= k * BlockSize
    BY <1>4, <2>1, <2>2, BlocksCompare
  <2> QED BY <1>2, <1>3, <1>4, <2>1, <2>2, <2>3, <2>4, SMTT(60)
<1> HIDE DEF n, where
<1>8. where \in Seq(Nat) /\ Len(where) = n /\ Reaches(where, map, Pos)
  <2>1. CASE unalg = 0
    BY <1>6, <2>1 DEF Reaches, where
  <2>2. CASE unalg # 0
    <3>1. where = Cut(map[k + 1] * BlockSize + unalg, n)
      BY <1>2, <2>2 DEF BlockOf, where
    <3>2. Reaches(where, map, Pos)
      BY <1>1, <1>4, <1>6, <1>7, <2>2, <3>1, CutReaches
    <3>3. map[k + 1] * BlockSize + unalg \in Nat
      <4>1. k + 1 \in DOMAIN map /\ map[k + 1] \in Nat
        BY <1>1, <1>4, <1>7, <2>2, FileIoAssumption DEF MapOK
      <4>2. map[k + 1] * BlockSize \in Nat
        BY <1>3, <4>1
      <4> QED BY <1>4, <4>2
    <3> DEFINE b == map[k + 1] * BlockSize + unalg
    <3> HIDE DEF b
    <3>4. where = Cut(b, n) /\ b \in Nat
      BY <3>1, <3>3 DEF b
    <3>5. Cut(b, n) \in Seq(Nat) /\ Len(Cut(b, n)) = n
      BY <1>6, <3>4, CutIs
    <3> QED BY <3>2, <3>4, <3>5
  <2> QED BY <2>1, <2>2
<1>9. where \in Seq(Bytes)
  BY <1>1, <1>3, <1>8, ReachesBytes
<1> DEFINE i == IF unalg = 0 THEN k ELSE k + 1
<1>10. /\ op' \in Locals /\ op'.kind = op.kind /\ op'.h = op.h /\ op'.want = op.want
       /\ op'.left = op.left - n /\ op'.done = op.done + n /\ op'.got = Moved(where).got
       /\ op'.iblk = i /\ op'.last = op.last /\ op'.fblocks = op.fblocks
       /\ op'.start = op.start /\ op'.count = op.count /\ op'.full = op.full
  <2>1. /\ Moved(where) \in Locals
        /\ Moved(where).left = op.left - n /\ Moved(where).done = op.done + n
        /\ Moved(where).kind = op.kind /\ Moved(where).h = op.h
        /\ Moved(where).iblk = op.iblk /\ Moved(where).last = op.last
        /\ Moved(where).fblocks = op.fblocks /\ Moved(where).want = op.want
        /\ Moved(where).start = op.start /\ Moved(where).count = op.count
        /\ Moved(where).full = op.full
    BY <1>1, <1>6, <1>8, <1>9, MovedIs
  <2>2. op' = [Moved(where) EXCEPT !.iblk = i] /\ i \in Nat
    BY <1>2, <1>4, <1>5, <2>1
  <2> HIDE DEF i
  <2> QED BY <2>1, <2>2 DEF Locals
<1>11. Holds(map', disk, ref, Len(ref)) /\ MapOK(map') /\ map' = map
  BY <1>1 DEF IInv, Stored, Promised
<1>12. /\ disk' \in [Bytes -> Cells] /\ ref' \in Seq(Cells) /\ fpos' \in [Handles -> Nat]
       /\ Holds(map', disk', ref', Len(ref'))
       /\ Pos' = Pos + n /\ Began' = Began /\ op'.left \in Nat
       /\ Len(ref') = Larger(Began, Pos')
       /\ Answered' /\ Asked' /\ Inside
  BY <1>1, <1>5, <1>6, <1>8, <1>10, <1>11, MoveKeeps
<1>13. Typed'
  <2>1. wb' \in 0 .. 1
    BY <1>1 DEF IInv, Modes
  <2> QED BY <1>1, <1>10, <1>12, <2>1 DEF Typed, TypeOK
<1>14. Modes'
  BY <1>1, <1>10 DEF IInv, Modes
<1>15. Mapped' /\ Stored'
  BY <1>1, <1>11, <1>12 DEF Mapped, Stored
\* At the boundary behind position Pos', or at the end of the call.
<1>16. /\ i \in Nat /\ i = CeilBlocks(Pos) /\ i <= Len(map)
       /\ op.left - n > 0 => Pos + n = i * BlockSize
       /\ CeilBlocks(Pos + n) = i
  <2>1. i \in Nat /\ i * BlockSize = IF unalg = 0 THEN k * BlockSize ELSE k * BlockSize + BlockSize
    BY <1>3, <1>4
  <2>2. k * BlockSize \in Nat /\ i * BlockSize \in Nat
    BY <1>3, <1>4, <2>1
  <2>3. i = CeilBlocks(Pos)
    <3>1. Pos <= i * BlockSize /\ i * BlockSize < Pos + BlockSize
      BY <1>3, <1>4, <2>1, <2>2
    <3> QED BY <1>3, <2>1, <3>1, CeilUnique
  <2>4. CeilBlocks(Pos + n) = i
    <3>1. Pos + n <= i * BlockSize /\ i * BlockSize < Pos + n + BlockSize /\ Pos + n \in Nat
      BY <1>3, <1>4, <1>6, <2>1, <2>2
    <3> QED BY <2>1, <3>1, CeilUnique
  <2>5. op.left - n > 0 => Pos + n = i * BlockSize
    <3>1. unalg # 0 /\ op.left - n > 0 => n = BlockSize - unalg
      BY <1>3, <1>4 DEF n, Smaller
    <3> QED BY <1>3, <1>4, <1>6, <2>1, <2>2, <3>1
  <2>6. i <= Len(map)
    <3>1. unalg = 0 => k <= Len(map)
      <4>1. Len(map) \in Nat /\ size <= Len(map) * BlockSize
        BY <1>1, <1>3, CeilIs
      <4>2. k * BlockSize <= Len(map) * BlockSize
        BY <1>2, <1>3, <1>4, <2>2, <4>1
      <4> QED BY <1>4, <4>1, <4>2, BlocksCompare
    <3>2. Len(map) \in Nat
      BY <1>1 DEF MapOK
    <3> QED BY <1>4, <1>7, <3>1, <3>2
  <2> QED BY <2>1, <2>3, <2>4, <2>5, <2>6
<1> HIDE DEF i
<1>17. Growing'
  <2>1. Len(map) \in Nat /\ op.fblocks = Len(map)
    BY <1>1, <1>2 DEF MapOK
  <2>2. (Len(map) - op.fblocks) * BlockSize = 0 /\ Len(map) = Larger(op.fblocks, i)
    BY <1>3, <1>16, <2>1 DEF Larger
  <2>3. size = Began + (Len(map) - op.fblocks) * BlockSize
    BY <1>2, <1>3, <2>2
  <2> QED BY <1>1, <1>2, <1>10, <1>12, <1>16, <2>1, <2>2, <2>3 DEF Growing
<1>18. Gathering'
  <2> SUFFICES ASSUME op'.left >= BlockSize
               PROVE  /\ op'.last = (Pos' + op'.left) \div BlockSize
                      /\ i <= op.last /\ Pos' = (i - 0) * BlockSize
    BY <1>1, <1>2, <1>10, <1>16 DEF Gathering, RunAt
  <2>1. Pos' + op'.left = Pos + op.left
    BY <1>3, <1>6, <1>10, <1>12
  <2>2. Pos' = i * BlockSize
    BY <1>3, <1>6, <1>10, <1>12, <1>16
  <2>3. i <= op.last
    <3>1. Pos + op.left \in Nat
      BY <1>3
    <3>2. i * BlockSize <= Pos + op.left
      <4>1. i * BlockSize \in Int
        BY <1>3, <1>16
      <4> QED BY <1>3, <1>12, <2>1, <2>2, <4>1
    <3> QED BY <1>2, <1>16, <3>1, <3>2, WholeBlocks
  <2>4. i - 0 = i
    BY <1>16
  <2> QED BY <1>2, <1>10, <2>1, <2>2, <2>3, <2>4
<1>19. Ending'
  BY <1>1, <1>2, <1>3, <1>6, <1>10, <1>12, <1>16, SMTT(60) DEF Ending
<1>20. AtRest' /\ AtHead' /\ Flushing' /\ Correcting' /\ Truncating'
  BY <1>1 DEF AtRest, AtHead, Flushing, Correcting, Truncating
<1>21. Delivered'
  BY <1>1, <1>12 DEF Delivered
<1> QED BY <1>12, <1>13, <1>14, <1>15, <1>17, <1>18, <1>19, <1>20, <1>21 DEF IInv

\* The types of what a running call works with.
LEMMA Basics ==
  ASSUME Typed, pc # "idle"
  PROVE  /\ BlockSize \in Nat \ {0} /\ Pos \in Nat /\ Began \in Nat /\ size \in Nat
         /\ op.left \in Nat /\ op.iblk \in Nat /\ op.last \in Nat /\ op.fblocks \in Nat
         /\ op.fblk \in Nat /\ op.start \in Nat /\ op.count \in Nat /\ op.full \in BOOLEAN
         /\ Len(map) \in Nat /\ Len(ref) \in Nat
<1>1. BlockSize \in Nat \ {0}
  BY FileIoAssumption
<1>2. Pos \in Nat /\ Began \in Nat /\ size \in Nat
  BY DEF Typed, TypeOK, Pos, Began
<1>3. /\ op.left \in Nat /\ op.iblk \in Nat /\ op.last \in Nat /\ op.fblocks \in Nat
      /\ op.fblk \in Nat /\ op.start \in Nat /\ op.count \in Nat /\ op.full \in BOOLEAN
  BY DEF Typed, Locals
<1>4. Len(map) \in Nat /\ Len(ref) \in Nat
  BY DEF Typed, TypeOK
<1> QED BY <1>1, <1>2, <1>3, <1>4

\* The head of the loop only decides where to go.
LEMMA OuterLoopKeeps ==
  ASSUME IInv, OuterLoop
  PROVE  IInv'
<1>1. /\ pc = "loop" /\ Typed /\ ~failed /\ op \in Locals
      /\ UNCHANGED <<disk, map, size, fpos, fsize, op, calls, ref, failed>>
      /\ op.kind \in {"read", "write"} /\ op.left \in Nat /\ BlockSize \in Nat
      /\ wb = IF op.kind = "write" THEN 1 ELSE 0
  BY Basics DEF IInv, Typed, OuterLoop, Modes, Growing
<1>2. \/ pc' = "gather" /\ op.left >= BlockSize /\ wb' = wb
      \/ pc' = "tail" /\ op.left < BlockSize /\ wb' = IF op.kind = "write" THEN wb - 1 ELSE wb
  BY <1>1 DEF OuterLoop
<1>3. Pos' = Pos /\ Began' = Began
  BY <1>1 DEF Pos, Began
<1>4. Typed'
  <2>1. wb' \in 0 .. 1
    BY <1>1, <1>2
  <2> QED BY <1>1, <1>2, <2>1 DEF Typed, TypeOK
<1>5. Modes' /\ Mapped' /\ Stored'
  BY <1>1, <1>2 DEF IInv, Modes, Mapped, Stored, Promised
<1>6. Growing' /\ Gathering' /\ Ending'
  BY <1>1, <1>2, <1>3 DEF IInv, Growing, Gathering, Ending, RunAt
<1>7. AtRest' /\ AtHead' /\ Flushing' /\ Correcting' /\ Truncating'
  BY <1>2 DEF AtRest, AtHead, Flushing, Correcting, Truncating
<1>8. Delivered'
  BY <1>1, <1>2, <1>3 DEF IInv, Delivered, Answered, Asked
<1> QED BY <1>4, <1>5, <1>6, <1>7, <1>8 DEF IInv

\* Block b, found as block op.iblk of the file, joins the run or ends it.
LEMMA JoinsKeeps ==
  ASSUME IInv, pc = "gather", op.iblk < op.last,
         NEW b \in Nat \ {0}, NEW i, i = op.iblk, Joins(b, i),
         MapOK(map'), Len(map) <= Len(map'), \A j \in 1 .. Len(map) : map'[j] = map[j],
         i < Len(map'), map'[i + 1] = b,
         UNCHANGED <<fpos, fsize>>
  PROVE  /\ op' \in Locals /\ op'.kind = op.kind /\ op'.h = op.h /\ op'.left = op.left
         /\ op'.done = op.done /\ op'.last = op.last /\ op'.fblocks = op.fblocks
         /\ op'.got = op.got /\ op'.want = op.want /\ op'.iblk = i + 1
         /\ pc' \in {"gather", "flush"}
         /\ Gathering' /\ Flushing'
<1> DEFINE c == op.count
           k == op.iblk - op.count
           start == IF op.start = 0 THEN b ELSE op.start
<1>1. Typed /\ op \in Locals /\ Len(map') \in Nat
  BY DEF IInv, Typed, MapOK
<1>2. /\ BlockSize \in Nat \ {0} /\ Pos \in Nat /\ op.left \in Nat /\ op.iblk \in Nat
      /\ op.last \in Nat /\ op.start \in Nat /\ op.count \in Nat /\ Len(map) \in Nat
  BY <1>1, Basics
<1>3. /\ ~op.full /\ op.left >= BlockSize
      /\ op.last = (Pos + op.left) \div BlockSize
      /\ op.count <= op.iblk /\ Pos = k * BlockSize
      /\ op.count = 0 => op.start = 0
  BY DEF IInv, Gathering
<1>4. \A j \in 0 .. c - 1 : k + j < Len(map) /\ map[k + j + 1] = op.start + j
  BY DEF IInv, Gathering, RunAt
<1>5. \/ /\ start + op.count = b /\ pc' = "gather"
         /\ op' = [op EXCEPT !.fblk = b, !.iblk = i + 1, !.start = start, !.count = c + 1]
      \/ /\ start + op.count # b /\ pc' = "flush"
         /\ op' = [op EXCEPT !.fblk = b, !.iblk = i + 1, !.start = start]
  BY DEF Joins
<1>6. k \in Nat /\ c \in Nat /\ c = op.count /\ k + c = i /\ i \in Nat
  BY <1>2, <1>3, SMTT(60)
<1>7. op.count = c /\ op.iblk = k + c
  BY <1>2, <1>3
<1> HIDE DEF k, c
\* A run of no block starts where the block is.
<1>8. start \in Nat /\ (c > 0 => start = op.start) /\ (c = 0 => start = b)
  <2>1. c > 0 => op.start # 0
    <3> SUFFICES ASSUME c > 0, op.start = 0 PROVE FALSE
      OBVIOUS
    <3>1. 0 \in 0 .. c - 1
      BY <1>6
    <3>2. k + 0 < Len(map) /\ map[k + 0 + 1] = 0 + 0
      BY <1>4, <3>1
    <3>3. k + 1 \in 1 .. Len(map) /\ k + 0 + 1 = k + 1
      BY <1>2, <1>6, <3>2
    <3>4. \A l \in 1 .. Len(map) : map[l] \in 1 .. NBlocks - 1
      BY FileIoAssumption DEF IInv, Mapped, MapOK
    <3>5. map[k + 1] \in 1 .. NBlocks - 1
      BY <3>3, <3>4
    <3> QED BY <3>2, <3>3, <3>5
  <2> QED BY <1>2, <1>3, <1>6, <2>1
<1> HIDE DEF start
<1>9. \A j \in 0 .. c - 1 : k + j < Len(map') /\ map'[k + j + 1] = start + j
  <2> TAKE j \in 0 .. c - 1
  <2>1. k + j < Len(map) /\ map[k + j + 1] = op.start + j /\ c > 0
    BY <1>4, <1>6
  <2>2. k + j + 1 \in 1 .. Len(map)
    BY <1>2, <1>6, <2>1
  <2>3. map'[k + j + 1] = map[k + j + 1]
    BY <2>2
  <2>4. k + j < Len(map')
    BY <1>1, <1>2, <1>6, <2>1
  <2> QED BY <1>8, <2>1, <2>3, <2>4
<1>10. Pos' = Pos
  <2>1. op'.h = op.h
    BY <1>1, <1>5 DEF Locals
  <2> QED BY <2>1 DEF Pos
<1>11. CASE start + c = b
  <2>1. /\ pc' = "gather"
        /\ op' = [op EXCEPT !.fblk = b, !.iblk = i + 1, !.start = start, !.count = c + 1]
    BY <1>5, <1>6, <1>11
  <2>2. /\ op' \in Locals /\ op'.kind = op.kind /\ op'.h = op.h /\ op'.left = op.left
        /\ op'.done = op.done /\ op'.last = op.last /\ op'.fblocks = op.fblocks
        /\ op'.got = op.got /\ op'.want = op.want /\ op'.iblk = i + 1 /\ op'.full = op.full
        /\ op'.start = start /\ op'.count = c + 1
    <3>1. b \in Nat /\ i + 1 \in Nat /\ start \in Nat /\ c + 1 \in Nat
      BY <1>6, <1>8, SMTT(60)
    <3> QED BY <1>1, <2>1, <3>1 DEF Locals
  <2>3. op'.iblk - op'.count = k /\ op'.count > 0 /\ op'.count <= op'.iblk /\ op'.count - 1 = c
    BY <1>6, <2>2, SMTT(60)
  <2>4. ASSUME NEW j \in 0 .. c
        PROVE  k + j < Len(map') /\ map'[k + j + 1] = start + j
    <3>1. CASE j < c
      <4>1. j \in 0 .. c - 1
        BY <1>6, <3>1
      <4> QED BY <1>9, <4>1
    <3>2. CASE j = c
      <4>1. k + j = i /\ k + j + 1 = i + 1
        BY <1>6, <3>2
      <4> QED BY <1>11, <3>2, <4>1
    <3> QED BY <1>6, <3>1, <3>2
  <2>5. RunAt(op.iblk - op.count, op.count, op.start)'
    BY <2>2, <2>3, <2>4 DEF RunAt
  <2>6. Gathering'
    <3>1. ~op'.full /\ op'.left >= BlockSize /\ op'.last = (Pos' + op'.left) \div BlockSize
      BY <1>3, <1>10, <2>2
    <3>2. Pos' = (op'.iblk - op'.count) * BlockSize
      BY <1>3, <1>10, <2>3
    <3>3. op'.iblk <= op'.last /\ op'.count # 0
      BY <1>2, <1>6, <2>2, SMTT(60)
    <3> QED BY <2>3, <2>5, <3>1, <3>2, <3>3 DEF Gathering
  <2>7. Flushing'
    BY <2>1 DEF Flushing
  <2> QED BY <2>1, <2>2, <2>6, <2>7
<1>12. CASE start + c # b
  <2>1. pc' = "flush" /\ op' = [op EXCEPT !.fblk = b, !.iblk = i + 1, !.start = start]
    BY <1>5, <1>6, <1>12
  <2>2. /\ op' \in Locals /\ op'.kind = op.kind /\ op'.h = op.h /\ op'.left = op.left
        /\ op'.done = op.done /\ op'.last = op.last /\ op'.fblocks = op.fblocks
        /\ op'.got = op.got /\ op'.want = op.want /\ op'.iblk = i + 1 /\ op'.full = op.full
        /\ op'.start = start /\ op'.count = c /\ op'.fblk = b
    <3>1. b \in Nat /\ i + 1 \in Nat /\ start \in Nat
      BY <1>6, <1>8
    <3> QED BY <1>1, <1>6, <2>1, <3>1 DEF Locals
  <2>3. op'.iblk - 1 - op'.count = k /\ op'.count < op'.iblk
    BY <1>6, <2>2
  <2>4. RunAt(op.iblk - 1 - op.count, op.count, op.start)'
    BY <1>9, <2>2, <2>3 DEF RunAt
  <2>5. Flushing'
    <3>1. ~op'.full /\ op'.left >= BlockSize /\ op'.last = (Pos' + op'.left) \div BlockSize
      BY <1>3, <1>10, <2>2
    <3>2. Pos' = (op'.iblk - 1 - op'.count) * BlockSize
      BY <1>3, <1>10, <2>3
    <3>3. op'.iblk <= op'.last /\ op'.fblk = map'[op'.iblk]
      BY <1>2, <1>6, <2>2
    <3> QED BY <2>3, <2>4, <3>1, <3>2, <3>3 DEF Flushing
  <2>6. Gathering'
    BY <2>1 DEF Gathering
  <2> QED BY <2>1, <2>2, <2>5, <2>6
<1> QED BY <1>11, <1>12

\* The file grows by a whole block, and so does the need for blocks.
LEMMA CeilGrows ==
  ASSUME NEW n \in Nat
  PROVE  CeilBlocks(n + BlockSize) = CeilBlocks(n) + 1
<1> DEFINE k == CeilBlocks(n)
<1>1. /\ BlockSize \in Nat \ {0} /\ k \in Nat
      /\ n <= k * BlockSize /\ k * BlockSize < n + BlockSize
  BY CeilIs, FileIoAssumption
<1> HIDE DEF k
<1>2. (k + 1) * BlockSize = k * BlockSize + BlockSize /\ k * BlockSize \in Nat
  BY <1>1
<1>3. /\ n + BlockSize \in Nat /\ k + 1 \in Nat
      /\ n + BlockSize <= (k + 1) * BlockSize
      /\ (k + 1) * BlockSize < (n + BlockSize) + BlockSize
  BY <1>1, <1>2
<1>4. CeilBlocks(n + BlockSize) = k + 1
  BY <1>3, CeilUnique
<1> QED BY <1>4 DEF k

\* A longer range needs no fewer blocks.
LEMMA CeilMono ==
  ASSUME NEW a \in Nat, NEW b \in Nat, a <= b
  PROVE  CeilBlocks(a) <= CeilBlocks(b)
<1> DEFINE k == CeilBlocks(a)
           l == CeilBlocks(b)
<1>1. /\ BlockSize \in Nat \ {0} /\ k \in Nat /\ l \in Nat
      /\ k * BlockSize < a + BlockSize /\ b <= l * BlockSize
  BY CeilIs, FileIoAssumption
<1> HIDE DEF k, l
<1>2. k * BlockSize \in Int /\ l * BlockSize \in Int
  BY <1>1
<1>3. k * BlockSize < l * BlockSize + BlockSize => k <= l
  <2>1. k \in Int /\ l \in Int
    BY <1>1
  <2> QED BY <2>1, BlocksCompare, Zenon
<1>4. k <= l
  BY <1>1, <1>2, <1>3
<1> QED BY <1>4 DEF k, l

\* Whole blocks need as many blocks.
LEMMA CeilWhole ==
  ASSUME NEW k \in Nat
  PROVE  k * BlockSize \in Nat /\ CeilBlocks(k * BlockSize) = k
<1>1. BlockSize \in Nat \ {0} /\ k * BlockSize \in Nat
  BY FileIoAssumption
<1> QED BY <1>1, CeilUnique

\* A block that is not in the file yet may follow its last one.
LEMMA AppendIs ==
  ASSUME Typed, Mapped, NEW b \in Unused, Appended(b)
  PROVE  /\ map' = Append(map, b) /\ MapOK(map') /\ Len(map') = Len(map) + 1
         /\ \A j \in 1 .. Len(map) : map'[j] = map[j]
         /\ map'[Len(map) + 1] = b /\ b \in 1 .. NBlocks - 1 /\ b \in Nat \ {0}
         /\ size' = size + BlockSize /\ size' \in Nat
         /\ CeilBlocks(size') = Len(map')
<1>1. MapOK(map) /\ CeilBlocks(size) = Len(map) /\ size \in Nat /\ BlockSize \in Nat
      /\ NBlocks \in Nat
  BY FileIoAssumption DEF Typed, TypeOK, Mapped
<1>2. map' = Append(map, b) /\ size' = size + BlockSize
  BY DEF Appended
<1>3. map \in Seq(1 .. NBlocks - 1) /\ b \in 1 .. NBlocks - 1
  BY <1>1 DEF MapOK, Unused
<1>4. /\ map' \in Seq(1 .. NBlocks - 1) /\ Len(map') = Len(map) + 1
      /\ \A j \in 1 .. Len(map) : map'[j] = map[j]
      /\ map'[Len(map) + 1] = b
  BY <1>2, <1>3
<1>5. \A j \in 1 .. Len(map) : map[j] # b
  BY <1>3 DEF Unused, ToSet
<1>6. MapOK(map')
  <2>1. \A j, l \in 1 .. Len(map) : map[j] = map[l] => j = l
    BY <1>1 DEF MapOK
  <2> SUFFICES ASSUME NEW j \in 1 .. Len(map) + 1, NEW l \in 1 .. Len(map) + 1, map'[j] = map'[l]
               PROVE  j = l
    BY <1>4 DEF MapOK
  <2>2. j \in 1 .. Len(map) \/ j = Len(map) + 1
    BY <1>3
  <2>3. l \in 1 .. Len(map) \/ l = Len(map) + 1
    BY <1>3
  <2> QED BY <1>4, <1>5, <2>1, <2>2, <2>3
<1>7. CeilBlocks(size') = Len(map) + 1
  BY <1>1, <1>2, CeilGrows
<1> QED BY <1>1, <1>2, <1>3, <1>4, <1>6, <1>7

\* Gathering moves no byte: it may only add blocks to the file.
LEMMA GatherRest ==
  ASSUME IInv, pc = "gather", pc' \in {"gather", "flush"},
         op' \in Locals, op'.kind = op.kind, op'.h = op.h, op'.left = op.left,
         op'.done = op.done, op'.got = op.got, op'.want = op.want,
         UNCHANGED <<disk, fpos, fsize, wb, calls, ref, failed>>,
         MapOK(map'), size' \in Nat, CeilBlocks(size') = Len(map'),
         Holds(map', disk, ref, Len(ref))
  PROVE  /\ Typed' /\ Modes' /\ Mapped' /\ Stored' /\ Pos' = Pos /\ Began' = Began
         /\ AtRest' /\ AtHead' /\ Ending' /\ Correcting' /\ Truncating' /\ Delivered'
<1>1. Typed /\ op.h \in Handles
  BY DEF IInv, Typed
<1>2. Pos' = Pos /\ Began' = Began
  BY DEF Pos, Began
<1>3. Typed'
  BY <1>1 DEF Typed, TypeOK, MapOK
<1>4. Modes'
  BY DEF IInv, Modes
<1>5. Mapped' /\ Stored'
  BY DEF Mapped, Stored
<1>6. AtRest' /\ AtHead' /\ Ending' /\ Correcting' /\ Truncating'
  BY DEF AtRest, AtHead, Ending, Correcting, Truncating
<1>7. Answered' /\ Asked'
  <2>1. Answered /\ Asked
    BY DEF IInv, Delivered
  <2> QED BY <1>2, <2>1 DEF Answered, Asked
<1>8. Delivered'
  BY <1>7 DEF Delivered
<1> QED BY <1>2, <1>3, <1>4, <1>5, <1>6, <1>8

\* What IInv says while the loop gathers.
LEMMA GatherFacts ==
  ASSUME IInv, pc = "gather"
  PROVE  /\ Typed /\ Mapped /\ MapOK(map) /\ op \in Locals
         /\ Holds(map, disk, ref, Len(ref)) /\ CeilBlocks(size) = Len(map)
         /\ op.kind \in {"read", "write"} /\ op.fblocks = CeilBlocks(Began)
         /\ Len(map) = Larger(op.fblocks, op.iblk)
         /\ size = Began + (Len(map) - op.fblocks) * BlockSize
         /\ Len(ref) = Larger(Began, Pos)
         /\ op.kind = "read" => op.last <= op.fblocks
<1>1. /\ Typed /\ Mapped /\ MapOK(map) /\ op \in Locals /\ CeilBlocks(size) = Len(map) /\ ~failed
      /\ op.kind \in {"read", "write"} /\ op.fblocks = CeilBlocks(Began)
      /\ Len(map) = Larger(op.fblocks, op.iblk)
      /\ size = Began + (Len(map) - op.fblocks) * BlockSize
      /\ Len(ref) = Larger(Began, Pos)
  BY DEF IInv, Typed, Mapped, Modes, Growing
<1>2. Holds(map, disk, ref, Len(ref))
  BY <1>1 DEF IInv, Stored, Promised
<1>3. ASSUME op.kind = "read" PROVE op.last <= op.fblocks
  <2>1. /\ Pos + op.left <= Began /\ op.last = (Pos + op.left) \div BlockSize
        /\ Pos \in Nat /\ op.left \in Nat /\ Began \in Nat /\ op.fblocks \in Nat
    BY <1>1, <1>3, Basics DEF IInv, Delivered, Asked, Gathering
  <2>2. Pos + op.left \in Nat /\ op.last \in Nat
    BY <1>1, <2>1, Basics, SMTT(60)
  <2>3. op.last * BlockSize <= Pos + op.left
    BY <2>1, <2>2, WholeBlocks
  <2>4. Began <= op.fblocks * BlockSize
    BY <1>1, <2>1, CeilIs
  <2>5. op.last * BlockSize \in Int /\ op.fblocks * BlockSize \in Int
    BY <2>1, <2>2, FileIoAssumption
  <2>6. op.last * BlockSize <= op.fblocks * BlockSize
    BY <2>1, <2>3, <2>4, <2>5
  <2>7. op.last \in Int /\ op.fblocks \in Int
    BY <2>1, <2>2
  <2> QED BY <2>6, <2>7, BlocksCompare, Zenon
<1> QED BY <1>1, <1>2, <1>3

LEMMA GatherOldKeeps ==
  ASSUME IInv, GatherOld
  PROVE  IInv'
<1> DEFINE i == op.iblk
           b == BlockOf(i)
<1>1. /\ pc = "gather" /\ i < op.last /\ Joins(b, i)
      /\ op.kind = "read" \/ i < op.fblocks
      /\ UNCHANGED <<disk, map, size, fpos, fsize, wb, calls, ref, failed>>
  BY DEF GatherOld
<1>2. /\ Typed /\ MapOK(map) /\ Holds(map, disk, ref, Len(ref)) /\ CeilBlocks(size) = Len(map)
      /\ op.kind \in {"read", "write"} /\ op.fblocks = CeilBlocks(Began)
      /\ Len(map) = Larger(op.fblocks, i)
      /\ size = Began + (Len(map) - op.fblocks) * BlockSize
      /\ Len(ref) = Larger(Began, Pos)
      /\ op.kind = "read" => op.last <= op.fblocks
  BY <1>1, GatherFacts
<1>3. /\ size \in Nat /\ i \in Nat /\ op.last \in Nat /\ op.fblocks \in Nat /\ Len(map) \in Nat
  BY <1>1, <1>2, Basics
<1>4. i < op.fblocks /\ Len(map) = op.fblocks
  BY <1>1, <1>2, <1>3 DEF Larger
<1>5. i + 1 \in 1 .. Len(map)
  BY <1>3, <1>4
<1>6. b \in Nat \ {0} /\ map'[i + 1] = b
  <2>1. \A l \in 1 .. Len(map) : map[l] \in 1 .. NBlocks - 1
    BY <1>2, FileIoAssumption DEF MapOK
  <2>2. map[i + 1] \in 1 .. NBlocks - 1 /\ b = map[i + 1]
    BY <1>5, <2>1 DEF BlockOf
  <2> QED BY <1>1, <2>2
<1> HIDE DEF b
<1>7. map' = map /\ Len(map) <= Len(map') /\ i < Len(map') /\ \A j \in 1 .. Len(map) : map'[j] = map[j]
  BY <1>1, <1>3, <1>4
<1>8. /\ op' \in Locals /\ op'.kind = op.kind /\ op'.h = op.h /\ op'.left = op.left
      /\ op'.done = op.done /\ op'.last = op.last /\ op'.fblocks = op.fblocks
      /\ op'.got = op.got /\ op'.want = op.want /\ op'.iblk = i + 1
      /\ pc' \in {"gather", "flush"} /\ Gathering' /\ Flushing'
  <2>1. i = op.iblk /\ MapOK(map') /\ UNCHANGED <<fpos, fsize>>
    BY <1>1, <1>2
  <2> HIDE DEF i
  <2> QED BY <1>1, <1>6, <1>7, <2>1, JoinsKeeps
<1>9. /\ Typed' /\ Modes' /\ Mapped' /\ Stored' /\ Pos' = Pos /\ Began' = Began
      /\ AtRest' /\ AtHead' /\ Ending' /\ Correcting' /\ Truncating' /\ Delivered'
  BY <1>1, <1>2, <1>3, <1>8, GatherRest
<1>10. Growing'
  <2>1. Larger(op.fblocks, i + 1) = Len(map) /\ i + 1 <= op.fblocks
    BY <1>3, <1>4 DEF Larger
  <2> QED BY <1>1, <1>2, <1>8, <1>9, <2>1 DEF Growing
<1> QED BY <1>8, <1>9, <1>10 DEF IInv

LEMMA GatherNewKeeps ==
  ASSUME IInv, NEW b \in Unused, GatherNew(b)
  PROVE  IInv'
<1> DEFINE i == op.iblk
<1>1. /\ pc = "gather" /\ i < op.last /\ op.kind = "write" /\ i >= op.fblocks
      /\ Appended(b) /\ Joins(b, CeilBlocks(size))
      /\ UNCHANGED <<disk, fpos, fsize, wb, calls, ref, failed>>
  BY DEF GatherNew
<1>2. /\ Typed /\ Mapped /\ MapOK(map) /\ Holds(map, disk, ref, Len(ref)) /\ CeilBlocks(size) = Len(map)
      /\ op.fblocks = CeilBlocks(Began)
      /\ Len(map) = Larger(op.fblocks, i)
      /\ size = Began + (Len(map) - op.fblocks) * BlockSize
      /\ Len(ref) = Larger(Began, Pos)
  BY <1>1, GatherFacts
<1>3. /\ BlockSize \in Nat \ {0} /\ size \in Nat /\ i \in Nat /\ op.last \in Nat /\ op.fblocks \in Nat
      /\ Len(map) \in Nat /\ Len(ref) \in Nat /\ Began \in Nat
  BY <1>1, <1>2, Basics
<1>4. Len(map) = i
  BY <1>1, <1>2, <1>3 DEF Larger
<1>5. /\ map' = Append(map, b) /\ MapOK(map') /\ Len(map') = Len(map) + 1
      /\ \A j \in 1 .. Len(map) : map'[j] = map[j]
      /\ map'[Len(map) + 1] = b /\ b \in Nat \ {0}
      /\ size' = size + BlockSize /\ size' \in Nat
      /\ CeilBlocks(size') = Len(map')
  BY <1>1, <1>2, AppendIs
<1>6. Joins(b, i) /\ Len(map) <= Len(map') /\ i < Len(map') /\ map'[i + 1] = b
  BY <1>1, <1>2, <1>3, <1>4, <1>5, SMTT(60)
<1>7. /\ op' \in Locals /\ op'.kind = op.kind /\ op'.h = op.h /\ op'.left = op.left
      /\ op'.done = op.done /\ op'.last = op.last /\ op'.fblocks = op.fblocks
      /\ op'.got = op.got /\ op'.want = op.want /\ op'.iblk = i + 1
      /\ pc' \in {"gather", "flush"} /\ Gathering' /\ Flushing'
  <2>1. i = op.iblk /\ UNCHANGED <<fpos, fsize>>
    BY <1>1
  <2> HIDE DEF i
  <2> QED BY <1>1, <1>5, <1>6, <2>1, JoinsKeeps
<1>8. Holds(map', disk, ref, Len(ref))
  BY <1>2, <1>3, <1>5, HoldsAppended
<1>9. /\ Typed' /\ Modes' /\ Mapped' /\ Stored' /\ Pos' = Pos /\ Began' = Began
      /\ AtRest' /\ AtHead' /\ Ending' /\ Correcting' /\ Truncating' /\ Delivered'
  BY <1>1, <1>5, <1>7, <1>8, GatherRest
<1>10. Growing'
  <2>1. Larger(op.fblocks, i + 1) = Len(map')
    BY <1>1, <1>3, <1>4, <1>5 DEF Larger
  <2>2. size' = Began + (Len(map') - op.fblocks) * BlockSize
    <3> DEFINE x == i - op.fblocks
    <3>1. x \in Nat /\ Len(map') - op.fblocks = x + 1 /\ Len(map) - op.fblocks = x
      BY <1>1, <1>3, <1>4, <1>5
    <3> HIDE DEF x
    <3>2. size = Began + x * BlockSize
      BY <1>2, <3>1
    <3>3. (x + 1) * BlockSize = x * BlockSize + BlockSize /\ x * BlockSize \in Nat
      BY <1>3, <3>1
    <3>4. size' = Began + (x + 1) * BlockSize
      BY <1>3, <1>5, <3>2, <3>3
    <3> QED BY <3>1, <3>4
  <2> QED BY <1>1, <1>2, <1>7, <1>9, <2>1, <2>2 DEF Growing
<1> QED BY <1>7, <1>9, <1>10 DEF IInv

LEMMA GatherFullKeeps ==
  ASSUME IInv, GatherFull
  PROVE  IInv'
<1>1. /\ pc = "gather" /\ op.iblk < op.last /\ op.kind = "write" /\ op.iblk >= op.fblocks
      /\ op' = [op EXCEPT !.full = TRUE] /\ pc' = "flush"
      /\ UNCHANGED <<disk, map, size, fpos, fsize, wb, calls, ref, failed>>
  BY DEF GatherFull
<1>2. /\ Typed /\ MapOK(map) /\ op \in Locals /\ Holds(map, disk, ref, Len(ref)) /\ CeilBlocks(size) = Len(map)
      /\ size \in Nat
  BY <1>1, GatherFacts, Basics
<1>3. /\ op' \in Locals /\ op'.kind = op.kind /\ op'.h = op.h /\ op'.left = op.left
      /\ op'.done = op.done /\ op'.last = op.last /\ op'.fblocks = op.fblocks
      /\ op'.got = op.got /\ op'.want = op.want /\ op'.iblk = op.iblk
      /\ op'.start = op.start /\ op'.count = op.count /\ op'.full
  BY <1>1, <1>2 DEF Locals
<1>4. /\ Typed' /\ Modes' /\ Mapped' /\ Stored' /\ Pos' = Pos /\ Began' = Began
      /\ AtRest' /\ AtHead' /\ Ending' /\ Correcting' /\ Truncating' /\ Delivered'
  BY <1>1, <1>2, <1>3, GatherRest
<1>5. Growing'
  BY <1>1, <1>3, <1>4 DEF IInv, Growing
<1>6. Gathering' /\ Flushing'
  BY <1>1, <1>3, <1>4 DEF IInv, Gathering, Flushing, RunAt
<1> QED BY <1>4, <1>5, <1>6 DEF IInv

LEMMA GatherEndKeeps ==
  ASSUME IInv, GatherEnd
  PROVE  IInv'
<1>1. /\ pc = "gather" /\ op.iblk >= op.last /\ pc' = "flush"
      /\ UNCHANGED <<disk, map, size, fpos, fsize, wb, op, calls, ref, failed>>
  BY DEF GatherEnd
<1>2. /\ Typed /\ MapOK(map) /\ op \in Locals /\ Holds(map, disk, ref, Len(ref)) /\ CeilBlocks(size) = Len(map)
      /\ size \in Nat /\ op.iblk \in Nat /\ op.last \in Nat
  BY <1>1, GatherFacts, Basics
<1>3. /\ Typed' /\ Modes' /\ Mapped' /\ Stored' /\ Pos' = Pos /\ Began' = Began
      /\ AtRest' /\ AtHead' /\ Ending' /\ Correcting' /\ Truncating' /\ Delivered'
  BY <1>1, <1>2, GatherRest
<1>4. Growing'
  BY <1>1, <1>3 DEF IInv, Growing
<1>5. Gathering' /\ Flushing'
  BY <1>1, <1>2, <1>3 DEF IInv, Gathering, Flushing, RunAt
<1> QED BY <1>3, <1>4, <1>5 DEF IInv

\* What IInv says between the blocks of a transfer.
LEMMA TransferFacts ==
  ASSUME IInv, pc \in {"flush", "tail"}
  PROVE  /\ Typed /\ Mapped /\ MapOK(map) /\ op \in Locals /\ ~failed
         /\ Holds(map, disk, ref, Len(ref)) /\ CeilBlocks(size) = Len(map)
         /\ op.kind \in {"read", "write"} /\ op.fblocks = CeilBlocks(Began)
         /\ Len(map) = Larger(op.fblocks, op.iblk)
         /\ size = Began + (Len(map) - op.fblocks) * BlockSize
         /\ op.kind = "read" => op.iblk <= op.fblocks
         /\ wb = IF op.kind = "write" /\ pc = "flush" THEN 1 ELSE 0
<1>1. /\ Typed /\ Mapped /\ MapOK(map) /\ op \in Locals /\ CeilBlocks(size) = Len(map) /\ ~failed
      /\ op.kind \in {"read", "write"} /\ op.fblocks = CeilBlocks(Began)
      /\ Len(map) = Larger(op.fblocks, op.iblk)
      /\ size = Began + (Len(map) - op.fblocks) * BlockSize
      /\ op.kind = "read" => op.iblk <= op.fblocks
      /\ wb = IF op.kind = "write" /\ pc = "flush" THEN 1 ELSE 0
  BY DEF IInv, Typed, Mapped, Modes, Growing
<1>2. Holds(map, disk, ref, Len(ref))
  BY <1>1 DEF IInv, Stored, Promised
<1> QED BY <1>1, <1>2

\* A write that stops at position e in the file, with i blocks behind it, leaves
\* the size to out_fsize.
LEMMA LeavesSize ==
  ASSUME NEW e \in Nat, NEW began \in Nat, NEW i \in Nat, NEW l, NEW sz,
         CeilBlocks(e) = i, l = Larger(CeilBlocks(began), i),
         sz = began + (l - CeilBlocks(began)) * BlockSize
  PROVE  IF e > began THEN CeilBlocks(e) = l ELSE sz = began
<1> DEFINE b == CeilBlocks(began)
<1>1. b \in Nat /\ BlockSize \in Nat
  BY CeilIs, FileIoAssumption
<1>2. l = Larger(b, i) /\ sz = began + (l - b) * BlockSize
  OBVIOUS
<1>3. CASE e > began
  <2>1. b <= i
    BY <1>3, CeilMono
  <2> HIDE DEF b
  <2>2. Larger(b, i) = i
    BY <1>1, <2>1 DEF Larger
  <2> QED BY <1>2, <1>3, <2>2
<1>4. CASE ~(e > began)
  <2>1. i <= b
    BY <1>4, CeilMono
  <2> HIDE DEF b
  <2>2. l = b
    BY <1>1, <1>2, <2>1 DEF Larger
  <2>3. (l - b) * BlockSize = 0
    BY <1>1, <2>2
  <2> QED BY <1>2, <1>4, <2>3
<1> QED BY <1>3, <1>4

\* The run reaches the device or the caller; the call goes on behind it.
LEMMA FlushKeeps ==
  ASSUME IInv, Flush
  PROVE  IInv' /\ Inside
<1> DEFINE c == op.count
           where == Run(op.start, c)
           i == op.iblk
<1>1. /\ pc = "flush" /\ Transfer(where)
      /\ op' = [Moved(where) EXCEPT !.start = op.fblk, !.count = 1]
      /\ pc' = IF op.full THEN "fsize" ELSE "loop"
      /\ failed' = (failed \/ op.full)
      /\ UNCHANGED <<map, size, fsize, wb, calls>>
  BY DEF Flush
<1>2. /\ Typed /\ MapOK(map) /\ op \in Locals /\ ~failed
      /\ Holds(map, disk, ref, Len(ref)) /\ CeilBlocks(size) = Len(map)
      /\ op.kind \in {"read", "write"} /\ op.fblocks = CeilBlocks(Began)
      /\ Len(map) = Larger(op.fblocks, i)
      /\ size = Began + (Len(map) - op.fblocks) * BlockSize
      /\ op.kind = "read" => i <= op.fblocks
      /\ wb = IF op.kind = "write" THEN 1 ELSE 0
  BY <1>1, TransferFacts
<1>3. /\ BlockSize \in Nat \ {0} /\ Pos \in Nat /\ Began \in Nat /\ size \in Nat
      /\ op.left \in Nat /\ i \in Nat /\ op.last \in Nat /\ op.fblocks \in Nat
      /\ op.fblk \in Nat /\ op.start \in Nat /\ c \in Nat /\ op.full \in BOOLEAN
      /\ Len(map) \in Nat
  BY <1>1, <1>2, Basics
<1>4. op.left >= BlockSize /\ op.last = (Pos + op.left) \div BlockSize /\ i <= op.last
  BY <1>1 DEF IInv, Flushing
\* The run ends with block e - 1 of the file.
<1>5. PICK e \in Nat :
        /\ c <= e /\ Pos = (e - c) * BlockSize /\ RunAt(e - c, c, op.start)
        /\ \/ e = i /\ ~op.full /\ i = op.last
           \/ e = i /\ op.full /\ op.kind = "write" /\ i >= op.fblocks
           \/ e = i - 1 /\ e < i /\ ~op.full /\ op.fblk = map[i]
  <2>1. \/ /\ c <= i /\ Pos = (i - c) * BlockSize /\ RunAt(i - c, c, op.start)
           /\ \/ ~op.full /\ i = op.last
              \/ op.full /\ op.kind = "write" /\ i >= op.fblocks
        \/ /\ ~op.full /\ c < i /\ Pos = (i - 1 - c) * BlockSize
           /\ RunAt(i - 1 - c, c, op.start) /\ op.fblk = map[i]
    BY <1>1 DEF IInv, Flushing
  <2>2. CASE /\ c <= i /\ Pos = (i - c) * BlockSize /\ RunAt(i - c, c, op.start)
             /\ \/ ~op.full /\ i = op.last
                \/ op.full /\ op.kind = "write" /\ i >= op.fblocks
    BY <1>3, <2>2
  <2>3. CASE /\ ~op.full /\ c < i /\ Pos = (i - 1 - c) * BlockSize
             /\ RunAt(i - 1 - c, c, op.start) /\ op.fblk = map[i]
    <3>1. c < i
      BY <2>3
    <3> HIDE DEF c, i
    <3>2. i - 1 \in Nat /\ c <= i - 1 /\ i - 1 < i
      BY <1>3, <3>1
    <3> QED BY <2>3, <3>2
  <2> QED BY <2>1, <2>2, <2>3
<1> HIDE DEF c, i
<1>6. /\ e - c \in Nat /\ e <= i /\ e <= op.last
      /\ c * BlockSize \in Nat /\ (e - c) * BlockSize \in Nat /\ e * BlockSize \in Nat
      /\ Pos + c * BlockSize = e * BlockSize
  <2>1. e - c \in Nat /\ e <= i /\ e <= op.last
    BY <1>3, <1>4, <1>5
  <2>2. c * BlockSize \in Nat /\ (e - c) * BlockSize \in Nat /\ e * BlockSize \in Nat
    BY <1>3, <2>1
  <2>3. (e - c) * BlockSize = e * BlockSize - c * BlockSize
    BY <1>3
  <2> QED BY <1>3, <1>5, <2>1, <2>2, <2>3
<1>7. e * BlockSize <= Pos + op.left /\ Pos + op.left \in Nat
  <2>1. Pos + op.left \in Nat
    BY <1>3
  <2> QED BY <1>4, <1>6, <2>1, WholeBlocks
<1>8. /\ where \in Seq(Nat) /\ Len(where) = c * BlockSize
      /\ Reaches(where, map, Pos) /\ Len(where) <= op.left
  <2>1. where \in Seq(Nat) /\ Len(where) = c * BlockSize
    BY <1>3, RunIs
  <2>2. Reaches(where, map, (e - c) * BlockSize)
    <3>1. \A j \in 0 .. c - 1 : (e - c) + j < Len(map) /\ map[(e - c) + j + 1] = op.start + j
      BY <1>5 DEF RunAt
    <3> DEFINE k == e - c
    <3> HIDE DEF k
    <3>2. k \in Nat /\ \A j \in 0 .. c - 1 : k + j < Len(map) /\ map[k + j + 1] = op.start + j
      BY <1>6, <3>1 DEF k
    <3>3. Reaches(where, map, k * BlockSize)
      BY <1>2, <1>3, <3>2, RunReaches
    <3> QED BY <3>3 DEF k
  <2>3. Len(where) <= op.left
    BY <1>3, <1>6, <1>7, <2>1
  <2> QED BY <1>5, <2>1, <2>2, <2>3
<1> HIDE DEF where
<1>9. where \in Seq(Bytes)
  BY <1>2, <1>3, <1>8, ReachesBytes
<1>10. /\ op' \in Locals /\ op'.kind = op.kind /\ op'.h = op.h /\ op'.want = op.want
       /\ op'.left = op.left - Len(where) /\ op'.done = op.done + Len(where)
       /\ op'.got = Moved(where).got /\ op'.iblk = i /\ op'.last = op.last
       /\ op'.fblocks = op.fblocks /\ op'.start = op.fblk /\ op'.count = 1 /\ op'.full = op.full
  <2>1. /\ Moved(where) \in Locals
        /\ Moved(where).left = op.left - Len(where) /\ Moved(where).done = op.done + Len(where)
        /\ Moved(where).kind = op.kind /\ Moved(where).h = op.h
        /\ Moved(where).iblk = i /\ Moved(where).last = op.last
        /\ Moved(where).fblocks = op.fblocks /\ Moved(where).want = op.want
        /\ Moved(where).full = op.full
    BY <1>2, <1>8, <1>9, MovedIs DEF i
  <2> QED BY <1>1, <1>3, <2>1 DEF Locals
<1>11. Holds(map', disk, ref, Len(ref)) /\ MapOK(map') /\ map' = map
  BY <1>1, <1>2
<1>12. /\ disk' \in [Bytes -> Cells] /\ ref' \in Seq(Cells) /\ fpos' \in [Handles -> Nat]
       /\ Holds(map', disk', ref', Len(ref'))
       /\ Pos' = Pos + Len(where) /\ Began' = Began /\ op'.left \in Nat
       /\ Len(ref') = Larger(Began, Pos')
       /\ Answered' /\ Asked' /\ Inside
  <2>1. pc \in {"head", "flush", "tail"} /\ fsize' = fsize /\ Reaches(where, map', Pos) /\ Transfer(where)
    BY <1>1, <1>8, <1>11
  <2> QED BY <1>8, <1>10, <1>11, <2>1, MoveKeeps
<1>13. Pos' = e * BlockSize /\ Pos' + op'.left = Pos + op.left /\ CeilBlocks(Pos') = e
  <2>1. Pos' = e * BlockSize /\ Pos' + op'.left = Pos + op.left
    <3>1. Pos' = e * BlockSize
      BY <1>6, <1>8, <1>12
    <3>2. Pos' = Pos + Len(where) /\ op'.left = op.left - Len(where) /\ Len(where) \in Nat
      BY <1>8, <1>10, <1>12
    <3>3. Pos' + op'.left = Pos + op.left
      BY <1>3, <3>2
    <3> QED BY <3>1, <3>3
  <2> QED BY <2>1, CeilWhole
<1>14. Typed' /\ Mapped' /\ Stored'
  <2>1. Typed'
    BY <1>1, <1>2, <1>3, <1>10, <1>12 DEF Typed, TypeOK
  <2> QED BY <1>1, <1>2, <1>11, <1>12, <2>1 DEF Mapped, Stored
<1>15. AtRest' /\ AtHead' /\ Flushing' /\ Truncating' /\ Delivered'
  BY <1>1, <1>12 DEF AtRest, AtHead, Flushing, Truncating, Delivered
<1>16. Modes'
  BY <1>1, <1>2, <1>3, <1>10 DEF Modes
<1>17. CASE op.full
  <2>1. pc' = "fsize" /\ e = i /\ op.kind = "write"
    BY <1>1, <1>5, <1>17
  <2>2. Correcting'
    <3>1. Pos' \in Nat
      BY <1>6, <1>13
    <3>2. IF Pos' > Began THEN CeilBlocks(Pos') = Len(map) ELSE size = Began
      BY <1>2, <1>3, <1>13, <2>1, <3>1, LeavesSize, SMTT(60)
    <3> QED BY <1>1, <1>10, <1>12, <2>1, <3>2 DEF Correcting
  <2>3. Growing' /\ Gathering' /\ Ending'
    BY <2>1 DEF Growing, Gathering, Ending
  <2> QED BY <1>12, <1>14, <1>15, <1>16, <2>2, <2>3 DEF IInv
<1>18. CASE ~op.full
  <2>1. pc' = "loop" /\ Correcting'
    BY <1>1, <1>18 DEF Correcting
  <2>2. Growing'
    BY <1>1, <1>2, <1>10, <1>12, <2>1 DEF Growing
  <2>3. CASE e = i /\ i = op.last
    <3>1. op'.left < BlockSize
      <4>1. op.last + 1 \in Nat /\ ~(op.last + 1 <= op.last)
        BY <1>3
      <4>2. ~((op.last + 1) * BlockSize <= Pos + op.left)
        BY <1>4, <1>7, <4>1, WholeBlocks
      <4>3. (op.last + 1) * BlockSize = e * BlockSize + BlockSize
        BY <1>3, <2>3
      <4> QED BY <1>3, <1>6, <1>7, <1>12, <1>13, <4>2, <4>3, SMTT(60)
    <3>2. Ending'
      BY <1>10, <1>13, <1>18, <2>3, <3>1 DEF Ending
    <3>3. Gathering'
      BY <1>3, <1>12, <2>1, <3>1 DEF Gathering
    <3> QED BY <1>12, <1>14, <1>15, <1>16, <2>1, <2>2, <3>2, <3>3 DEF IInv
  <2>4. CASE e = i - 1 /\ e < i /\ op.fblk = map[i]
    <3>1. i * BlockSize = e * BlockSize + BlockSize
      BY <1>3, <2>4
    <3>2. i * BlockSize <= Pos + op.left
      BY <1>3, <1>4, <1>7, WholeBlocks
    <3>3. op'.left >= BlockSize
      <4>1. Pos' + BlockSize <= Pos' + op'.left
        BY <1>13, <3>1, <3>2
      <4>2. Pos' \in Nat /\ op'.left \in Nat
        BY <1>6, <1>12, <1>13
      <4> QED BY <1>3, <4>1, <4>2
    <3>4. Ending'
      BY <1>3, <1>12, <2>1, <3>3 DEF Ending
    <3>5. i <= Len(map) /\ 1 <= i
      BY <1>2, <1>3, <2>4 DEF Larger
    <3>6. RunAt(op.iblk - op.count, op.count, op.start)'
      <4>1. ASSUME NEW j \in 0 .. op'.count - 1
            PROVE  /\ (op'.iblk - op'.count) + j < Len(map')
                   /\ map'[(op'.iblk - op'.count) + j + 1] = op'.start + j
        <5>1. j = 0 /\ (op'.iblk - op'.count) + j = e /\ e + 1 = i
          BY <1>3, <1>10, <2>4
        <5> QED BY <1>3, <1>10, <1>11, <2>4, <3>5, <5>1
      <4> QED BY <4>1 DEF RunAt
    <3>7. Gathering'
      <4>1. /\ ~op'.full /\ op'.last = (Pos' + op'.left) \div BlockSize
            /\ op'.count <= op'.iblk /\ op'.iblk <= op'.last /\ op'.count # 0
        BY <1>3, <1>4, <1>10, <1>13, <1>18, <3>5
      <4>2. Pos' = (op'.iblk - op'.count) * BlockSize
        BY <1>10, <1>13, <2>4
      <4> QED BY <3>3, <3>6, <4>1, <4>2 DEF Gathering
    <3> QED BY <1>12, <1>14, <1>15, <1>16, <2>1, <2>2, <3>4, <3>7 DEF IInv
  <2> QED BY <1>5, <1>18, <2>3, <2>4
<1> QED BY <1>3, <1>17, <1>18

\* The end of a call that is not the end of a block.
LEMMA PartOfBlock ==
  ASSUME NEW k \in Nat, NEW n \in Nat, n > 0, n < BlockSize
  PROVE  /\ k * BlockSize + n \in Nat /\ CeilBlocks(k * BlockSize + n) = k + 1
<1>1. BlockSize \in Nat \ {0} /\ k * BlockSize \in Nat
  BY FileIoAssumption
<1>2. (k + 1) * BlockSize = k * BlockSize + BlockSize
  BY <1>1
<1>3. /\ k * BlockSize + n \in Nat /\ k + 1 \in Nat
      /\ k * BlockSize + n <= (k + 1) * BlockSize
      /\ (k + 1) * BlockSize < (k * BlockSize + n) + BlockSize
  BY <1>1, <1>2
<1> QED BY <1>3, CeilUnique

\* What is left when less than a block is: nothing, or the start of block iblk.
LEMMA TailFacts ==
  ASSUME IInv, pc = "tail"
  PROVE  /\ ~op.full /\ op.left < BlockSize /\ op.iblk = CeilBlocks(Pos)
         /\ op.left = 0 \/ Pos = op.iblk * BlockSize
         /\ op.left > 0 /\ op.kind = "read" => op.iblk < op.fblocks
<1>1. /\ ~op.full /\ op.left < BlockSize /\ op.iblk = CeilBlocks(Pos)
      /\ op.left = 0 \/ Pos = op.iblk * BlockSize
  BY DEF IInv, Ending
<1>2. ASSUME op.left > 0, op.kind = "read" PROVE op.iblk < op.fblocks
  <2>1. /\ Typed /\ op.fblocks = CeilBlocks(Began) /\ Pos + op.left <= Began
    BY <1>2, TransferFacts DEF IInv, Delivered, Asked
  <2>2. /\ BlockSize \in Nat \ {0} /\ Pos \in Nat /\ Began \in Nat /\ op.left \in Nat
        /\ op.iblk \in Nat /\ op.fblocks \in Nat
    BY <2>1, Basics
  <2>3. Began <= op.fblocks * BlockSize /\ op.fblocks * BlockSize \in Int
    BY <2>1, <2>2, CeilIs
  <2>4. op.iblk * BlockSize < op.fblocks * BlockSize
    BY <1>1, <1>2, <2>1, <2>2, <2>3
  <2>5. op.iblk >= op.fblocks => op.fblocks * BlockSize <= op.iblk * BlockSize
    BY <2>2, TimesMono
  <2>6. op.iblk * BlockSize \in Int
    BY <2>2
  <2> QED BY <2>2, <2>3, <2>4, <2>5, <2>6
<1> QED BY <1>1, <1>2

LEMMA TailOldKeeps ==
  ASSUME IInv, TailOld
  PROVE  IInv' /\ Inside
<1> DEFINE n == op.left
           i == op.iblk
           where == IF n = 0 THEN <<>> ELSE Cut(BlockOf(i) * BlockSize, n)
<1>1. /\ pc = "tail" /\ Transfer(where) /\ op' = Moved(where)
      /\ n = 0 \/ op.kind = "read" \/ i < op.fblocks
      /\ pc' = IF op.kind = "read" THEN "ret" ELSE "fsize"
      /\ UNCHANGED <<map, size, fsize, wb, calls, failed>>
  BY DEF TailOld
<1>2. /\ Typed /\ MapOK(map) /\ op \in Locals /\ ~failed
      /\ Holds(map, disk, ref, Len(ref)) /\ CeilBlocks(size) = Len(map)
      /\ op.kind \in {"read", "write"} /\ op.fblocks = CeilBlocks(Began)
      /\ Len(map) = Larger(op.fblocks, i)
      /\ size = Began + (Len(map) - op.fblocks) * BlockSize
      /\ op.kind = "read" => i <= op.fblocks
      /\ wb = 0
  BY <1>1, TransferFacts
<1>3. /\ BlockSize \in Nat \ {0} /\ Pos \in Nat /\ Began \in Nat /\ size \in Nat
      /\ n \in Nat /\ i \in Nat /\ op.fblocks \in Nat /\ Len(map) \in Nat
  BY <1>1, <1>2, Basics
<1>4. /\ n < BlockSize /\ i = CeilBlocks(Pos)
      /\ n = 0 \/ Pos = i * BlockSize
      /\ n > 0 => i < op.fblocks
  BY <1>1, <1>3, TailFacts
<1> HIDE DEF where, n, i
<1>5. where \in Seq(Nat) /\ Len(where) = n /\ Reaches(where, map, Pos)
  <2>1. CASE n = 0
    BY <2>1 DEF Reaches, where
  <2>2. CASE n # 0
    <3>1. i + 1 \in 1 .. Len(map) /\ i < Len(map)
      BY <1>2, <1>3, <1>4, <2>2 DEF Larger
    <3>2. map[i + 1] \in Nat
      BY <1>2, <3>1, FileIoAssumption DEF MapOK
    <3> DEFINE b == map[i + 1] * BlockSize
    <3>3. b \in Nat
      BY <1>3, <3>2
    <3>4. n <= BlockSize /\ i * BlockSize = Pos
      BY <1>3, <1>4, <2>2
    <3>5. where = Cut(b, n)
      BY <2>2 DEF where, BlockOf
    <3>6. Reaches(Cut(b, n), map, i * BlockSize)
      BY <1>2, <1>3, <3>1, <3>4, BlockReaches
    <3> HIDE DEF b
    <3>7. Cut(b, n) \in Seq(Nat) /\ Len(Cut(b, n)) = n
      BY <1>3, <3>3, CutIs
    <3> QED BY <3>4, <3>5, <3>6, <3>7
  <2> QED BY <2>1, <2>2
<1>6. where \in Seq(Bytes)
  BY <1>2, <1>3, <1>5, ReachesBytes
<1>7. /\ op' \in Locals /\ op'.kind = op.kind /\ op'.h = op.h /\ op'.want = op.want
      /\ op'.left = n - n /\ op'.done = op.done + n
      /\ op'.got = Moved(where).got /\ op'.fblocks = op.fblocks
  <2>1. n = op.left /\ Len(where) <= op.left
    BY <1>3, <1>5 DEF n
  <2>2. /\ Moved(where) \in Locals
        /\ Moved(where).left = op.left - Len(where) /\ Moved(where).done = op.done + Len(where)
        /\ Moved(where).kind = op.kind /\ Moved(where).h = op.h
        /\ Moved(where).fblocks = op.fblocks /\ Moved(where).want = op.want
    BY <1>2, <1>6, <2>1, MovedIs
  <2> QED BY <1>1, <1>5, <2>1, <2>2
<1>8. Holds(map', disk, ref, Len(ref)) /\ MapOK(map') /\ map' = map
  BY <1>1, <1>2
<1>9. /\ disk' \in [Bytes -> Cells] /\ ref' \in Seq(Cells) /\ fpos' \in [Handles -> Nat]
      /\ Holds(map', disk', ref', Len(ref'))
      /\ Pos' = Pos + n /\ Began' = Began /\ op'.left = 0
      /\ Len(ref') = Larger(Began, Pos')
      /\ Answered' /\ Asked' /\ Inside
  <2>1. pc \in {"head", "flush", "tail"} /\ fsize' = fsize /\ Reaches(where, map', Pos) /\ Transfer(where)
    BY <1>1, <1>5, <1>8
  <2>2. op'.left = 0 /\ op'.left = op.left - Len(where) /\ Len(where) <= op.left
    BY <1>3, <1>5, <1>7 DEF n
  <2> QED BY <1>5, <1>7, <1>8, <2>1, <2>2, MoveKeeps
<1>10. Typed' /\ Mapped' /\ Stored'
  <2>1. Typed'
    BY <1>1, <1>2, <1>3, <1>7, <1>9 DEF Typed, TypeOK
  <2> QED BY <1>1, <1>2, <1>8, <1>9, <2>1 DEF Mapped, Stored
<1>11. AtHead' /\ Growing' /\ Gathering' /\ Flushing' /\ Ending' /\ Truncating'
  BY <1>1 DEF AtHead, Growing, Gathering, Flushing, Ending, Truncating
<1>12. Delivered' /\ Modes'
  BY <1>1, <1>2, <1>7, <1>9 DEF Delivered, Modes
<1>13. CASE op.kind = "read"
  <2>1. pc' = "ret" /\ Len(map) = op.fblocks
    BY <1>1, <1>2, <1>3, <1>13 DEF Larger
  <2>2. size = Began
    BY <1>2, <1>3, <2>1
  <2>3. Pos' <= Began
    BY <1>3, <1>7, <1>9, <1>13 DEF Asked
  <2>4. Len(ref') = Began
    BY <1>3, <1>9, <2>3 DEF Larger
  <2> QED BY <1>1, <1>9, <1>10, <1>11, <1>12, <2>1, <2>2, <2>4 DEF IInv, AtRest, Correcting
<1>14. CASE op.kind = "write"
  <2>1. pc' = "fsize"
    BY <1>1, <1>14
  <2>2. Pos' \in Nat /\ \E j \in Nat : CeilBlocks(Pos') = j /\ Len(map) = Larger(op.fblocks, j)
    <3>1. CASE n = 0
      BY <1>2, <1>3, <1>4, <1>9, <3>1
    <3>2. CASE n # 0
      <4>1. Pos' = i * BlockSize + n
        BY <1>4, <1>9, <3>2
      <4>2. Pos' \in Nat /\ CeilBlocks(Pos') = i + 1
        BY <1>3, <1>4, <3>2, <4>1, PartOfBlock, SMTT(60)
      <4>3. Larger(op.fblocks, i + 1) = Len(map) /\ i + 1 \in Nat
        BY <1>2, <1>3, <1>4, <3>2 DEF Larger
      <4> QED BY <4>2, <4>3
    <3> QED BY <3>1, <3>2
  <2>3. IF Pos' > Began THEN CeilBlocks(Pos') = Len(map) ELSE size = Began
    BY <1>2, <1>3, <2>2, LeavesSize
  <2>4. Correcting' /\ AtRest'
    BY <1>1, <1>7, <1>9, <1>14, <2>1, <2>3 DEF Correcting, AtRest
  <2> QED BY <1>9, <1>10, <1>11, <1>12, <2>4 DEF IInv
<1> QED BY <1>2, <1>13, <1>14

LEMMA TailNewKeeps ==
  ASSUME IInv, NEW b \in Unused, TailNew(b)
  PROVE  IInv' /\ Inside
<1> DEFINE n == op.left
           i == op.iblk
           where == Cut(b * BlockSize, n)
<1>1. /\ pc = "tail" /\ n > 0 /\ op.kind = "write" /\ i >= op.fblocks
      /\ Appended(b) /\ Transfer(where) /\ op' = Moved(where) /\ pc' = "fsize"
      /\ UNCHANGED <<fsize, wb, calls, failed>>
  BY DEF TailNew
<1>2. /\ Typed /\ Mapped /\ MapOK(map) /\ op \in Locals /\ ~failed
      /\ Holds(map, disk, ref, Len(ref)) /\ op.fblocks = CeilBlocks(Began)
      /\ Len(map) = Larger(op.fblocks, i)
      /\ wb = 0
  BY <1>1, TransferFacts
<1>3. /\ BlockSize \in Nat \ {0} /\ Pos \in Nat /\ Began \in Nat
      /\ n \in Nat /\ i \in Nat /\ op.fblocks \in Nat /\ Len(map) \in Nat /\ Len(ref) \in Nat
  BY <1>1, <1>2, Basics
<1>4. n < BlockSize /\ Pos = i * BlockSize /\ Len(map) = i
  BY <1>1, <1>2, <1>3, TailFacts DEF Larger
<1>5. /\ map' = Append(map, b) /\ MapOK(map') /\ Len(map') = i + 1
      /\ map'[i + 1] = b /\ b \in Nat \ {0}
      /\ size' \in Nat /\ CeilBlocks(size') = Len(map')
  BY <1>1, <1>2, <1>4, AppendIs
<1> HIDE DEF where, n, i
<1>6. where \in Seq(Nat) /\ Len(where) = n /\ Reaches(where, map', Pos)
  <2> DEFINE a == b * BlockSize
             m == map'
  <2>1. a \in Nat /\ where = Cut(a, n) /\ a = m[i + 1] * BlockSize
    BY <1>3, <1>5 DEF where
  <2>2. MapOK(m) /\ i < Len(m) /\ i * BlockSize = Pos /\ n <= BlockSize
    BY <1>3, <1>4, <1>5
  <2> HIDE DEF a, m
  <2>3. Reaches(Cut(m[i + 1] * BlockSize, n), m, i * BlockSize)
    BY <1>3, <2>2, BlockReaches
  <2>4. Cut(a, n) \in Seq(Nat) /\ Len(Cut(a, n)) = n
    BY <1>3, <2>1, CutIs
  <2> QED BY <2>1, <2>2, <2>3, <2>4 DEF m
<1>7. where \in Seq(Bytes)
  BY <1>3, <1>5, <1>6, ReachesBytes
<1>8. /\ op' \in Locals /\ op'.kind = op.kind /\ op'.h = op.h /\ op'.want = op.want
      /\ op'.left = n - n /\ op'.done = op.done + n
      /\ op'.got = Moved(where).got /\ op'.fblocks = op.fblocks
  <2>1. n = op.left /\ Len(where) <= op.left
    BY <1>3, <1>6 DEF n
  <2>2. /\ Moved(where) \in Locals
        /\ Moved(where).left = op.left - Len(where) /\ Moved(where).done = op.done + Len(where)
        /\ Moved(where).kind = op.kind /\ Moved(where).h = op.h
        /\ Moved(where).fblocks = op.fblocks /\ Moved(where).want = op.want
    BY <1>2, <1>7, <2>1, MovedIs
  <2> QED BY <1>1, <1>6, <2>1, <2>2
<1>9. Holds(map', disk, ref, Len(ref))
  BY <1>2, <1>3, <1>5, HoldsAppended
<1>10. /\ disk' \in [Bytes -> Cells] /\ ref' \in Seq(Cells) /\ fpos' \in [Handles -> Nat]
       /\ Holds(map', disk', ref', Len(ref'))
       /\ Pos' = Pos + n /\ Began' = Began /\ op'.left = 0
       /\ Len(ref') = Larger(Began, Pos')
       /\ Answered' /\ Asked' /\ Inside
  <2>1. pc \in {"head", "flush", "tail"} /\ fsize' = fsize /\ Transfer(where)
    BY <1>1
  <2>2. op'.left = 0 /\ op'.left = op.left - Len(where) /\ Len(where) <= op.left
    BY <1>3, <1>6, <1>8 DEF n
  <2> QED BY <1>5, <1>6, <1>8, <1>9, <2>1, <2>2, MoveKeeps
<1>11. Typed' /\ Mapped' /\ Stored'
  <2>1. Typed'
    BY <1>1, <1>2, <1>5, <1>8, <1>10 DEF Typed, TypeOK, MapOK
  <2> QED BY <1>1, <1>5, <1>10, <2>1 DEF Mapped, Stored
<1>12. AtRest' /\ AtHead' /\ Growing' /\ Gathering' /\ Flushing' /\ Ending' /\ Truncating'
  BY <1>1 DEF AtRest, AtHead, Growing, Gathering, Flushing, Ending, Truncating
<1>13. Delivered' /\ Modes'
  BY <1>1, <1>2, <1>8, <1>10 DEF Delivered, Modes
<1>14. Correcting'
  <2>1. Pos' = i * BlockSize + n
    BY <1>4, <1>10
  <2>2. CeilBlocks(Pos') = Len(map')
    BY <1>1, <1>3, <1>4, <1>5, <2>1, PartOfBlock DEF n
  <2>3. Pos' > Began
    <3>1. op.fblocks * BlockSize <= i * BlockSize /\ Began <= op.fblocks * BlockSize
      <4>1. op.fblocks <= i
        BY <1>1, <1>3 DEF i
      <4>2. op.fblocks * BlockSize <= i * BlockSize
        BY <1>3, <4>1, TimesMono
      <4>3. Began <= op.fblocks * BlockSize
        BY <1>2, <1>3, CeilIs
      <4> QED BY <4>2, <4>3
    <3>2. op.fblocks * BlockSize \in Int /\ i * BlockSize \in Int
      BY <1>3
    <3>3. n > 0
      BY <1>1 DEF n
    <3> QED BY <1>3, <2>1, <3>1, <3>2, <3>3
  <2> QED BY <1>1, <1>8, <1>10, <2>2, <2>3 DEF Correcting
<1> QED BY <1>10, <1>11, <1>12, <1>13, <1>14 DEF IInv

\* No block is left for the end of a write: what was written stays.
LEMMA TailFullKeeps ==
  ASSUME IInv, TailFull
  PROVE  IInv'
<1>1. /\ pc = "tail" /\ op.left > 0 /\ op.kind = "write" /\ op.iblk >= op.fblocks
      /\ pc' = "fsize"
      /\ UNCHANGED <<disk, map, size, fpos, fsize, wb, op, calls, ref, failed>>
  BY DEF TailFull
<1>2. /\ Typed /\ ~failed /\ op.fblocks = CeilBlocks(Began)
      /\ Len(map) = Larger(op.fblocks, op.iblk)
      /\ size = Began + (Len(map) - op.fblocks) * BlockSize
      /\ wb = 0 /\ op.iblk = CeilBlocks(Pos) /\ Len(ref) = Larger(Began, Pos)
  BY <1>1, TransferFacts, TailFacts DEF IInv, Growing
<1>3. Pos \in Nat /\ Began \in Nat /\ op.iblk \in Nat
  BY <1>1, <1>2, Basics
<1>4. Pos' = Pos /\ Began' = Began
  BY <1>1 DEF Pos, Began
<1>5. IF Pos > Began THEN CeilBlocks(Pos) = Len(map) ELSE size = Began
  BY <1>2, <1>3, LeavesSize
<1>6. Typed' /\ Modes' /\ Mapped' /\ Stored'
  BY <1>1, <1>2 DEF IInv, Typed, TypeOK, Modes, Mapped, Stored, Promised
<1>7. Correcting'
  BY <1>1, <1>2, <1>4, <1>5 DEF Correcting
<1>8. AtRest' /\ AtHead' /\ Growing' /\ Gathering' /\ Flushing' /\ Ending' /\ Truncating'
  BY <1>1 DEF AtRest, AtHead, Growing, Gathering, Flushing, Ending, Truncating
<1>9. Delivered'
  BY <1>1 DEF Delivered, Answered, Asked
<1> QED BY <1>6, <1>7, <1>8, <1>9 DEF IInv

\* out_fsize gives the file the length of what it contains.
LEMMA FsizeKeeps ==
  ASSUME IInv, OutFsize
  PROVE  IInv'
<1>1. /\ pc = "fsize" /\ pc' = "ret"
      /\ UNCHANGED <<disk, map, fpos, wb, op, calls, ref, failed>>
      /\ \/ Pos > Began /\ size' = Pos /\ fsize' = [fsize EXCEPT ![op.h] = Pos]
         \/ ~(Pos > Began) /\ size' = size /\ fsize' = fsize
  <2>1. /\ pc = "fsize" /\ pc' = "ret"
        /\ UNCHANGED <<disk, map, fpos, wb, op, calls, ref, failed>>
        /\ IF Pos > Began THEN size' = Pos /\ fsize' = [fsize EXCEPT ![op.h] = Pos]
                          ELSE UNCHANGED <<size, fsize>>
    BY Zenon DEF OutFsize, Pos, Began
  <2> QED BY <2>1
<1>2. /\ Typed /\ op.kind = "write" /\ Len(ref) = Larger(Began, Pos)
      /\ IF Pos > Began THEN CeilBlocks(Pos) = Len(map) ELSE size = Began
      /\ MapOK(map) /\ CeilBlocks(size) = Len(map)
  BY <1>1 DEF IInv, Correcting, Mapped
<1>3. Pos \in Nat /\ Began \in Nat /\ size \in Nat
  BY <1>1, <1>2, Basics
<1>4. /\ size' \in Nat /\ fsize' \in [Handles -> Nat] /\ size' = Len(ref)
      /\ CeilBlocks(size') = Len(map)
  <2>1. CASE Pos > Began
    BY <1>1, <1>2, <1>3, <2>1 DEF Typed, TypeOK, Larger
  <2>2. CASE ~(Pos > Began)
    BY <1>1, <1>2, <1>3, <2>2 DEF Typed, TypeOK, Larger
  <2> QED BY <2>1, <2>2
<1>5. Typed' /\ Mapped'
  BY <1>1, <1>2, <1>4 DEF Typed, TypeOK, Mapped
<1>6. Modes' /\ Stored'
  BY <1>1 DEF IInv, Modes, Stored, Promised
<1>7. AtRest' /\ AtHead' /\ Growing' /\ Gathering' /\ Flushing' /\ Ending' /\ Correcting' /\ Truncating'
  BY <1>1, <1>4 DEF AtRest, AtHead, Growing, Gathering, Flushing, Ending, Correcting, Truncating
<1>8. Delivered'
  BY <1>1, <1>2 DEF Delivered, Answered, Asked
<1> QED BY <1>5, <1>6, <1>7, <1>8 DEF IInv

\* A read that fails has changed nothing; a write that fails promises nothing.
LEMMA TransferFailsKeeps ==
  ASSUME IInv, TransferFails
  PROVE  IInv'
<1>1. /\ \/ pc = "flush" /\ wb' = (IF op.kind = "write" THEN wb - 1 ELSE wb)
         \/ pc = "head" /\ wb' = wb
         \/ pc = "tail" /\ op.left > 0 /\ op.iblk < op.fblocks /\ wb' = wb
      /\ pc' = "ret" /\ op' = [op EXCEPT !.kind = "none"]
      /\ failed' = (failed \/ op.kind = "write")
      /\ UNCHANGED <<disk, map, size, fpos, fsize, calls, ref>>
  BY DEF TransferFails
<1>2. /\ Typed /\ op \in Locals /\ ~failed /\ MapOK(map) /\ CeilBlocks(size) = Len(map)
      /\ op.kind \in {"read", "write"} /\ op.h \in Handles
      /\ wb = IF op.kind = "write" /\ pc = "flush" THEN 1 ELSE 0
      /\ Holds(map, disk, ref, Len(ref))
  <2>1. op.h \in Handles
    BY <1>1 DEF IInv, Typed
  <2>2. CASE pc = "head"
    BY <2>1, <2>2 DEF IInv, Typed, Mapped, AtHead, Modes, Stored, Promised
  <2>3. CASE pc \in {"flush", "tail"}
    BY <2>1, <2>3, TransferFacts
  <2> QED BY <1>1, <2>2, <2>3
<1>3. /\ op' \in Locals /\ op'.kind = "none" /\ op'.h = op.h
  BY <1>1, <1>2 DEF Locals
<1>4. wb' = 0
  BY <1>1, <1>2
<1>5. Typed' /\ Modes' /\ Mapped'
  <2>1. failed' \in BOOLEAN
    BY <1>1, <1>2
  <2> QED BY <1>1, <1>2, <1>3, <1>4, <2>1 DEF Typed, TypeOK, Modes, Mapped
<1>6. ASSUME op.kind = "read" PROVE size = Len(ref)
  <2>1. CASE pc = "head"
    BY <2>1 DEF IInv, AtHead
  <2>2. CASE pc \in {"flush", "tail"}
    <3>1. /\ op.fblocks \in Nat /\ op.iblk \in Nat /\ Len(map) \in Nat /\ Pos \in Nat
          /\ Began \in Nat /\ op.left \in Nat /\ BlockSize \in Nat
      BY <1>2, <2>2, Basics
    <3>2. Len(map) = op.fblocks /\ size = Began + (Len(map) - op.fblocks) * BlockSize
      BY <1>6, <2>2, <3>1, TransferFacts DEF Larger
    <3>3. size = Began
      BY <3>1, <3>2
    <3>4. Pos <= Began /\ Len(ref) = Larger(Began, Pos)
      BY <1>6, <2>2, <3>1 DEF IInv, Delivered, Asked, Growing
    <3> QED BY <3>1, <3>3, <3>4 DEF Larger
  <2> QED BY <1>1, <2>1, <2>2
<1>7. Stored' /\ AtRest'
  BY <1>1, <1>2, <1>3, <1>6 DEF Stored, AtRest, Promised
<1>8. AtHead' /\ Growing' /\ Gathering' /\ Flushing' /\ Ending' /\ Correcting' /\ Truncating'
  BY <1>1 DEF AtHead, Growing, Gathering, Flushing, Ending, Correcting, Truncating
<1>9. Delivered'
  BY <1>1, <1>3 DEF Delivered, Answered, Asked
<1> QED BY <1>5, <1>7, <1>8, <1>9 DEF IInv

\* The block appended for the end of a write stays in the file.
LEMMA TailNewFailsKeeps ==
  ASSUME IInv, NEW b \in Unused, TailNewFails(b)
  PROVE  IInv'
<1>1. /\ pc = "tail" /\ Appended(b) /\ pc' = "ret" /\ failed' = TRUE
      /\ op' = [op EXCEPT !.kind = "none"]
      /\ UNCHANGED <<disk, fpos, fsize, wb, calls, ref>>
  BY DEF TailNewFails
<1>2. Typed /\ Mapped /\ op \in Locals /\ op.h \in Handles
  BY <1>1 DEF IInv, Typed
<1>3. MapOK(map') /\ size' \in Nat /\ CeilBlocks(size') = Len(map')
  BY <1>1, <1>2, AppendIs
<1>4. op' \in Locals /\ op'.kind = "none" /\ op'.h = op.h
  BY <1>1, <1>2 DEF Locals
<1>5. Typed' /\ Modes' /\ Mapped'
  BY <1>1, <1>2, <1>3, <1>4 DEF Typed, TypeOK, Modes, Mapped, MapOK
<1>6. Stored' /\ AtRest'
  BY <1>1, <1>4 DEF Stored, AtRest, Promised
<1>7. AtHead' /\ Growing' /\ Gathering' /\ Flushing' /\ Ending' /\ Correcting' /\ Truncating'
  BY <1>1 DEF AtHead, Growing, Gathering, Flushing, Ending, Correcting, Truncating
<1>8. Delivered'
  BY <1>1, <1>4 DEF Delivered, Answered, Asked
<1> QED BY <1>5, <1>6, <1>7, <1>8 DEF IInv

----------------------------------------------------------------------------
(* Calls begin and end *)

\* What IInv says between two calls.
LEMMA IdleFacts ==
  ASSUME IInv, pc = "idle", ~failed
  PROVE  /\ Typed /\ op \in Locals /\ op.kind = "none" /\ wb = 0
         /\ MapOK(map) /\ CeilBlocks(size) = Len(map) /\ size \in Nat
         /\ size = Len(ref) /\ Holds(map, disk, ref, Len(ref))
<1>1. /\ Typed /\ op \in Locals /\ op.kind = "none" /\ Promised
      /\ MapOK(map) /\ CeilBlocks(size) = Len(map) /\ size \in Nat /\ size = Len(ref)
  BY DEF IInv, Typed, TypeOK, AtRest, Mapped, Promised
<1>2. wb = 0
  BY <1>1 DEF IInv, Modes
<1>3. Holds(map, disk, ref, Len(ref))
  BY <1>1 DEF IInv, Stored
<1> QED BY <1>1, <1>2, <1>3

\* ext4_fseek moves the handle and nothing else.
LEMMA FseekKeeps ==
  ASSUME IInv, NEW h \in Handles, NEW to \in Offsets, Fseek(h, to)
  PROVE  IInv'
<1>1. /\ pc = "idle" /\ ~failed /\ fpos' = [fpos EXCEPT ![h] = to]
      /\ UNCHANGED <<disk, map, size, fsize, wb, pc, op, calls, ref, failed>>
      /\ to \in Nat
  BY FileIoAssumption DEF Fseek
<1>2. Typed /\ op.kind = "none"
  BY <1>1, IdleFacts
<1>3. Typed'
  <2>1. fpos' \in [Handles -> Nat]
    BY <1>1, <1>2 DEF Typed, TypeOK
  <2> QED BY <1>1, <1>2, <2>1 DEF Typed, TypeOK
<1>4. Modes' /\ Mapped' /\ Stored' /\ AtRest'
  BY <1>1 DEF IInv, Modes, Mapped, Stored, AtRest, Promised
<1>5. AtHead' /\ Growing' /\ Gathering' /\ Flushing' /\ Ending' /\ Correcting' /\ Truncating'
  BY <1>1 DEF AtHead, Growing, Gathering, Flushing, Ending, Correcting, Truncating
<1>6. Delivered'
  BY <1>1, <1>2 DEF Delivered, Answered, Asked
<1> QED BY <1>3, <1>4, <1>5, <1>6 DEF IInv

LEMMA NoOpIs == NoOp \in Locals /\ NoOp.kind = "none"
<1>1. Nobody \in Handles \cup {Nobody}
  OBVIOUS
<1>2. <<>> \in Seq(Cells)
  OBVIOUS
<1> QED BY <1>1, <1>2 DEF NoOp, Locals, Nobody

\* The locals of a call that begins.
LEMMA BeginIs ==
  ASSUME Typed, NEW h \in Handles, NEW n \in Nat, NEW kind \in {"read", "write"},
         kind = "read" => fpos[h] + n <= size, size = Len(ref), Begin(kind, h, n)
  PROVE  /\ op' \in Locals /\ op'.kind = kind /\ op'.h = h /\ op'.left = n /\ op'.done = 0
         /\ op'.iblk = fpos[h] \div BlockSize /\ op'.last = (fpos[h] + n) \div BlockSize
         /\ op'.fblocks = CeilBlocks(size) /\ op'.count = 0 /\ op'.start = 0 /\ ~op'.full
         /\ op'.got = <<>>
         /\ kind = "read" =>
              /\ Len(op'.want) = n
              /\ \A i \in 1 .. n : op'.want[i] = ref[fpos[h] + i]
<1> DEFINE p == fpos[h]
           i0 == p \div BlockSize
           l0 == (p + n) \div BlockSize
           f0 == CeilBlocks(size)
           w == IF kind = "read" THEN SubSeq(ref, p + 1, p + n) ELSE <<>>
<1>1. op' = [NoOp EXCEPT !.kind = kind, !.h = h, !.left = n, !.want = w,
                         !.iblk = i0, !.last = l0, !.fblocks = f0]
  BY DEF Begin
<1>2. p \in Nat /\ ref \in Seq(Cells) /\ size \in Nat /\ p + n \in Nat
  BY DEF Typed, TypeOK
<1> HIDE DEF p
<1>3. i0 \in Nat /\ l0 \in Nat /\ f0 \in Nat
  BY <1>2, WholeBlocks, CeilIs
<1>4. /\ w \in Seq(Cells)
      /\ kind = "read" => Len(w) = n /\ \A i \in 1 .. n : w[i] = ref[p + i]
  <2>1. CASE kind = "read"
    <3>1. p + n <= Len(ref)
      BY <2>1 DEF p
    <3>2. /\ w = SubSeq(ref, p + 1, p + n)
          /\ \A i \in p + 1 .. p + n : ref[i] \in Cells
      BY <1>2, <2>1, <3>1
    <3>3. /\ SubSeq(ref, p + 1, p + n) \in Seq(Cells)
          /\ Len(SubSeq(ref, p + 1, p + n)) = n
          /\ \A i \in 1 .. n : SubSeq(ref, p + 1, p + n)[i] = ref[p + i]
      BY <1>2, <3>1
    <3> QED BY <3>2, <3>3
  <2>2. CASE kind # "read"
    BY <2>2
  <2> QED BY <2>1, <2>2
<1> HIDE DEF i0, l0, f0, w
<1>5. /\ op' \in Locals /\ op'.kind = kind /\ op'.h = h /\ op'.left = n /\ op'.done = 0
      /\ op'.iblk = i0 /\ op'.last = l0 /\ op'.fblocks = f0
      /\ op'.count = 0 /\ op'.start = 0 /\ ~op'.full /\ op'.got = <<>> /\ op'.want = w
  BY <1>1, <1>3, <1>4, NoOpIs DEF NoOp, Locals
<1> QED BY <1>4, <1>5 DEF p, i0, l0, f0, w

\* A call starts at the position of its handle, in the file as it is.
LEMMA BeginKeeps ==
  ASSUME IInv, NEW h \in Handles, NEW n \in Nat, NEW kind \in {"read", "write"},
         kind = "read" => fpos[h] + n <= size, Begin(kind, h, n),
         calls' \in 0 .. MaxCalls
  PROVE  IInv'
<1>1. /\ pc = "idle" /\ ~failed /\ fpos[h] <= size /\ fsize' = [fsize EXCEPT ![h] = size]
      /\ pc' = "head" /\ UNCHANGED <<disk, map, size, fpos, wb, ref, failed>>
  BY DEF Begin, InFile
<1>2. /\ Typed /\ wb = 0 /\ MapOK(map) /\ CeilBlocks(size) = Len(map) /\ size \in Nat
      /\ size = Len(ref) /\ Holds(map, disk, ref, Len(ref))
  BY <1>1, IdleFacts
<1>3. /\ op' \in Locals /\ op'.kind = kind /\ op'.h = h /\ op'.left = n /\ op'.done = 0
      /\ op'.iblk = fpos[h] \div BlockSize /\ op'.last = (fpos[h] + n) \div BlockSize
      /\ op'.fblocks = CeilBlocks(size) /\ op'.count = 0 /\ op'.start = 0 /\ ~op'.full
      /\ op'.got = <<>>
      /\ kind = "read" =>
           /\ Len(op'.want) = n
           /\ \A i \in 1 .. n : op'.want[i] = ref[fpos[h] + i]
  BY <1>2, BeginIs
<1>4. Pos' = fpos[h] /\ Began' = size /\ fpos[h] \in Nat /\ fsize' \in [Handles -> Nat]
  BY <1>1, <1>2, <1>3 DEF Pos, Began, Typed, TypeOK
<1>5. Typed'
  BY <1>1, <1>2, <1>3, <1>4 DEF Typed, TypeOK
<1>6. Modes' /\ Mapped' /\ Stored' /\ AtRest'
  BY <1>1, <1>2 DEF Modes, Mapped, Stored, AtRest
<1>7. AtHead'
  BY <1>1, <1>2, <1>3, <1>4 DEF AtHead
<1>8. Growing' /\ Gathering' /\ Flushing' /\ Ending' /\ Correcting' /\ Truncating'
  BY <1>1 DEF Growing, Gathering, Flushing, Ending, Correcting, Truncating
<1>9. Delivered'
  <2>1. Answered'
    BY <1>3 DEF Answered
  <2>2. Asked'
    <3> SUFFICES ASSUME kind = "read" PROVE Asked'
      BY <1>3 DEF Asked
    <3>1. op'.done <= Pos' /\ Pos' + op'.left <= Began'
      BY <1>3, <1>4
    <3>2. \A i \in 1 .. op'.done + op'.left : op'.want[i] = ref'[Pos' - op'.done + i]
      BY <1>1, <1>3, <1>4
    <3> QED BY <3>1, <3>2 DEF Asked
  <2> QED BY <1>1, <2>1, <2>2 DEF Delivered
<1> QED BY <1>5, <1>6, <1>7, <1>8, <1>9 DEF IInv

LEMMA FreadKeeps ==
  ASSUME IInv, NEW h \in Handles, NEW n \in Sizes, Fread(h, n)
  PROVE  IInv'
<1> DEFINE l == Smaller(n, size - fpos[h])
<1>1. Begin("read", h, l) /\ calls' = calls /\ pc = "idle" /\ ~failed /\ fpos[h] <= size
  BY DEF Fread, Begin, InFile
<1>2. n \in Nat /\ size \in Nat /\ fpos[h] \in Nat /\ calls \in 0 .. MaxCalls
  BY FileIoAssumption DEF IInv, Typed, TypeOK
<1>3. l \in Nat /\ fpos[h] + l <= size
  BY <1>1, <1>2 DEF Smaller
<1> HIDE DEF l
<1> QED BY <1>1, <1>2, <1>3, BeginKeeps

LEMMA FwriteKeeps ==
  ASSUME IInv, NEW h \in Handles, NEW n \in Sizes, Fwrite(h, n)
  PROVE  IInv'
<1>1. Begin("write", h, n) /\ calls' = calls + 1 /\ calls < MaxCalls
  BY DEF Fwrite
<1>2. n \in Nat /\ calls \in 0 .. MaxCalls /\ MaxCalls \in Nat
  BY FileIoAssumption DEF IInv, Typed, TypeOK
<1>3. calls' \in 0 .. MaxCalls
  BY <1>1, <1>2
<1> QED BY <1>1, <1>2, <1>3, BeginKeeps

\* A call is over: a failed one is followed by nothing.
LEMMA ReturnKeeps ==
  ASSUME IInv, Return
  PROVE  IInv'
<1>1. /\ pc = "ret" /\ pc' = "idle" /\ op' = NoOp
      /\ UNCHANGED <<disk, map, size, fpos, fsize, wb, calls, ref, failed>>
  BY DEF Return
<1>2. op' \in Locals /\ op'.kind = "none"
  BY <1>1, NoOpIs
<1>3. Typed' /\ Modes' /\ Mapped'
  BY <1>1, <1>2 DEF IInv, Typed, TypeOK, Modes, Mapped
<1>4. Stored' /\ AtRest'
  BY <1>1, <1>2 DEF IInv, Stored, AtRest, Promised
<1>5. AtHead' /\ Growing' /\ Gathering' /\ Flushing' /\ Ending' /\ Correcting' /\ Truncating'
  BY <1>1 DEF AtHead, Growing, Gathering, Flushing, Ending, Correcting, Truncating
<1>6. Delivered'
  BY <1>1, <1>2 DEF Delivered, Answered, Asked
<1> QED BY <1>3, <1>4, <1>5, <1>6 DEF IInv

----------------------------------------------------------------------------
(* Truncations *)

LEMMA FtruncateKeeps ==
  ASSUME IInv, NEW h \in Handles, NEW n \in Offsets, Ftruncate(h, n)
  PROVE  IInv'
<1>1. /\ pc = "idle" /\ ~failed /\ calls < MaxCalls /\ calls' = calls + 1
      /\ fsize' = [fsize EXCEPT ![h] = size]
      /\ \/ /\ n < size /\ wb' = wb + 1 /\ pc' = "trunc"
            /\ op' = [NoOp EXCEPT !.kind = "trunc", !.h = h, !.left = n]
         \/ op' = op /\ wb' = wb /\ pc' = pc
      /\ UNCHANGED <<disk, map, size, fpos, ref, failed>>
  BY DEF Ftruncate
<1>2. /\ Typed /\ op \in Locals /\ op.kind = "none" /\ wb = 0 /\ MapOK(map) /\ CeilBlocks(size) = Len(map)
      /\ size \in Nat /\ size = Len(ref) /\ Holds(map, disk, ref, Len(ref))
  BY <1>1, IdleFacts
<1>3. n \in Nat /\ calls' \in 0 .. MaxCalls /\ fsize' \in [Handles -> Nat]
  BY <1>1, <1>2, FileIoAssumption DEF Typed, TypeOK
<1>4. CASE op' = op /\ wb' = wb /\ pc' = pc
  <2>1. Typed' /\ Modes' /\ Mapped'
    BY <1>1, <1>2, <1>3, <1>4 DEF Typed, TypeOK, Modes, Mapped
  <2>2. Stored' /\ AtRest'
    BY <1>1, <1>2, <1>4 DEF Stored, AtRest
  <2>3. AtHead' /\ Growing' /\ Gathering' /\ Flushing' /\ Ending' /\ Correcting' /\ Truncating'
    BY <1>1, <1>4 DEF AtHead, Growing, Gathering, Flushing, Ending, Correcting, Truncating
  <2>4. Delivered'
    BY <1>2, <1>4 DEF Delivered, Answered, Asked
  <2> QED BY <2>1, <2>2, <2>3, <2>4 DEF IInv
<1>5. CASE /\ n < size /\ wb' = wb + 1 /\ pc' = "trunc"
           /\ op' = [NoOp EXCEPT !.kind = "trunc", !.h = h, !.left = n]
  <2>1. op' \in Locals /\ op'.kind = "trunc" /\ op'.h = h /\ op'.left = n
    BY <1>3, <1>5, NoOpIs DEF NoOp, Locals
  <2>2. Typed' /\ Modes' /\ Mapped'
    BY <1>1, <1>2, <1>3, <1>5, <2>1 DEF Typed, TypeOK, Modes, Mapped
  <2>3. Stored' /\ AtRest' /\ Truncating'
    BY <1>1, <1>2, <1>3, <1>5, <2>1 DEF Stored, AtRest, Truncating
  <2>4. AtHead' /\ Growing' /\ Gathering' /\ Flushing' /\ Ending' /\ Correcting'
    BY <1>5 DEF AtHead, Growing, Gathering, Flushing, Ending, Correcting
  <2>5. Delivered'
    BY <1>5, <2>1 DEF Delivered, Answered, Asked
  <2> QED BY <2>2, <2>3, <2>4, <2>5 DEF IInv
<1> QED BY <1>1, <1>4, <1>5

\* A shorter file keeps the blocks of the bytes it keeps.
LEMMA ShrinkIs ==
  ASSUME Typed, Mapped, NEW n \in Nat, n <= size, Shrink(n), Holds(map, disk, ref, size)
  PROVE  /\ size' = n /\ MapOK(map') /\ CeilBlocks(n) = Len(map')
         /\ Holds(map', disk, ref, n)
<1> DEFINE k == CeilBlocks(n)
<1>1. /\ MapOK(map) /\ map \in Seq(1 .. NBlocks - 1) /\ size \in Nat /\ Len(map) \in Nat
      /\ CeilBlocks(size) = Len(map) /\ NBlocks \in Nat
  BY FileIoAssumption DEF Typed, TypeOK, Mapped, MapOK
<1>2. k \in Nat /\ k <= Len(map) /\ n <= k * BlockSize
  BY <1>1, CeilIs, CeilMono
<1>3. size' = n /\ map' = SubSeq(map, 1, k)
  BY DEF Shrink
<1> HIDE DEF k
<1>4. /\ map' \in Seq(1 .. NBlocks - 1) /\ Len(map') = k
      /\ \A j \in 1 .. k : map'[j] = map[j]
  BY <1>1, <1>2, <1>3
<1>5. MapOK(map')
  <2> SUFFICES ASSUME NEW i \in 1 .. k, NEW j \in 1 .. k, map'[i] = map'[j] PROVE i = j
    BY <1>4 DEF MapOK
  <2>1. i \in DOMAIN map /\ j \in DOMAIN map /\ map[i] = map[j]
    BY <1>1, <1>2, <1>4
  <2> QED BY <1>1, <2>1 DEF MapOK
<1>6. Holds(map', disk, ref, n)
  <2> SUFFICES ASSUME NEW i \in 1 .. n
               PROVE  (i - 1) \div BlockSize < Len(map') /\ disk[At(map', i)] = ref[i]
    BY DEF Holds
  <2>1. /\ i \in 1 .. size /\ i \in Nat \ {0} /\ BlockSize \in Nat \ {0}
        /\ i - 1 \in Nat /\ i - 1 < n
    BY <1>1, FileIoAssumption
  <2>2. (i - 1) \div BlockSize < Len(map) /\ disk[At(map, i)] = ref[i]
    BY <2>1 DEF Holds
  <2> DEFINE q == (i - 1) \div BlockSize
             r == (i - 1) % BlockSize
  <2>3. q \in Nat /\ r \in 0 .. BlockSize - 1 /\ i - 1 = q * BlockSize + r
    BY <2>1, DivMod
  <2>4. At(map, i) = map[q + 1] * BlockSize + r /\ At(map', i) = map'[q + 1] * BlockSize + r
    BY DEF At
  <2> HIDE DEF q, r
  <2>5. q < k
    <3>1. q * BlockSize < k * BlockSize /\ q * BlockSize \in Int /\ k * BlockSize \in Int
      BY <1>2, <2>1, <2>3
    <3>2. k <= q => k * BlockSize <= q * BlockSize
      BY <1>2, <2>1, <2>3, TimesMono
    <3> QED BY <1>2, <2>3, <3>1, <3>2
  <2>6. map'[q + 1] = map[q + 1]
    <3>1. q + 1 \in 1 .. k
      BY <1>2, <2>3, <2>5
    <3> QED BY <1>4, <3>1
  <2> QED BY <1>4, <2>2, <2>4, <2>5, <2>6 DEF q
<1> QED BY <1>3, <1>4, <1>5, <1>6 DEF k

\* What IInv says in a truncation.
LEMMA TruncFacts ==
  ASSUME IInv, pc = "trunc"
  PROVE  /\ Typed /\ op \in Locals /\ op.h \in Handles /\ ~failed /\ wb = 1 /\ Mapped
         /\ Holds(map, disk, ref, size) /\ op.kind = "trunc" /\ op.left \in Nat
         /\ op.left <= size /\ size \in Nat /\ size <= Len(ref) /\ ref \in Seq(Cells)
<1>1. /\ Typed /\ op \in Locals /\ op.h \in Handles /\ ~failed /\ wb = 1 /\ Mapped
      /\ op.kind = "trunc" /\ op.left <= size /\ size <= Len(ref)
      /\ size \in Nat /\ ref \in Seq(Cells)
  BY DEF IInv, Typed, TypeOK, Modes, Truncating
<1>2. Holds(map, disk, ref, size)
  BY <1>1 DEF IInv, Stored, Promised
<1>3. op.left \in Nat
  BY <1>1 DEF Locals
<1> QED BY <1>1, <1>2, <1>3

LEMMA TruncPieceKeeps ==
  ASSUME IInv, TruncPiece
  PROVE  IInv'
<1> DEFINE n == IF size > op.left + MaxTrunc THEN size - MaxTrunc ELSE op.left
<1>1. /\ pc = "trunc" /\ size > op.left /\ Shrink(n)
      /\ UNCHANGED <<disk, fpos, fsize, wb, pc, op, calls, ref, failed>>
  BY DEF TruncPiece
<1>2. /\ Typed /\ op \in Locals /\ op.h \in Handles /\ ~failed /\ wb = 1 /\ Mapped
      /\ Holds(map, disk, ref, size) /\ op.kind = "trunc" /\ op.left \in Nat
      /\ size \in Nat /\ size <= Len(ref) /\ ref \in Seq(Cells) /\ MaxTrunc \in Nat
  BY <1>1, TruncFacts, FileIoAssumption
<1>3. n \in Nat /\ n <= size /\ op.left <= n
  BY <1>1, <1>2
<1> HIDE DEF n
<1>4. /\ size' = n /\ MapOK(map') /\ CeilBlocks(n) = Len(map') /\ Holds(map', disk, ref, n)
  BY <1>1, <1>2, <1>3, ShrinkIs
<1>5. Typed' /\ Modes' /\ Mapped'
  BY <1>1, <1>2, <1>3, <1>4 DEF Typed, TypeOK, Modes, Mapped, MapOK
<1>6. Stored' /\ AtRest' /\ Truncating'
  <2>1. n <= Len(ref) /\ Len(ref) \in Nat
    BY <1>2, <1>3
  <2> QED BY <1>1, <1>2, <1>3, <1>4, <2>1 DEF Stored, AtRest, Truncating
<1>7. AtHead' /\ Growing' /\ Gathering' /\ Flushing' /\ Ending' /\ Correcting'
  BY <1>1 DEF AtHead, Growing, Gathering, Flushing, Ending, Correcting
<1>8. Delivered'
  BY <1>1, <1>2 DEF Delivered, Answered, Asked
<1> QED BY <1>5, <1>6, <1>7, <1>8 DEF IInv

LEMMA TruncEndKeeps ==
  ASSUME IInv, TruncEnd
  PROVE  IInv'
<1>1. /\ pc = "trunc" /\ size = op.left /\ pc' = "ret" /\ wb' = wb - 1
      /\ fsize' = [fsize EXCEPT ![op.h] = op.left]
      /\ fpos' = [fpos EXCEPT ![op.h] = Smaller(fpos[op.h], op.left)]
      /\ ref' = SubSeq(ref, 1, op.left)
      /\ UNCHANGED <<disk, map, size, op, calls, failed>>
  BY DEF TruncEnd
<1>2. /\ Typed /\ op \in Locals /\ op.h \in Handles /\ ~failed /\ wb = 1 /\ Mapped
      /\ Holds(map, disk, ref, size) /\ op.kind = "trunc" /\ op.left \in Nat
      /\ op.left <= size /\ size \in Nat /\ size <= Len(ref) /\ ref \in Seq(Cells)
  BY <1>1, TruncFacts
<1>3. fpos' \in [Handles -> Nat] /\ fsize' \in [Handles -> Nat]
  BY <1>1, <1>2 DEF Typed, TypeOK, Smaller
<1> DEFINE l == op.left
<1>4. l = size /\ l \in Nat /\ l <= Len(ref) /\ ref' = SubSeq(ref, 1, l)
  BY <1>1, <1>2
<1> HIDE DEF l
<1>5. /\ ref' \in Seq(Cells) /\ Len(ref') = l
      /\ \A i \in 1 .. l : ref'[i] = ref[i]
  BY <1>2, <1>4
<1>6. Holds(map, disk, ref', Len(ref'))
  BY <1>2, <1>4, <1>5 DEF Holds
<1>7. Typed' /\ Modes' /\ Mapped'
  BY <1>1, <1>2, <1>3, <1>5 DEF Typed, TypeOK, Modes, Mapped
<1>8. Stored' /\ AtRest'
  BY <1>1, <1>4, <1>5, <1>6 DEF Stored, AtRest
<1>9. AtHead' /\ Growing' /\ Gathering' /\ Flushing' /\ Ending' /\ Correcting' /\ Truncating'
  BY <1>1 DEF AtHead, Growing, Gathering, Flushing, Ending, Correcting, Truncating
<1>10. Delivered'
  BY <1>1, <1>2 DEF Delivered, Answered, Asked
<1> QED BY <1>7, <1>8, <1>9, <1>10 DEF IInv

LEMMA TruncFailsKeeps ==
  ASSUME IInv, TruncFails
  PROVE  IInv'
<1>1. /\ pc = "trunc" /\ pc' = "ret" /\ failed' = TRUE
      /\ op' = [op EXCEPT !.kind = "none"]
      /\ UNCHANGED <<disk, map, size, fpos, fsize, wb, calls, ref>>
  BY DEF TruncFails
<1>2. Typed /\ Mapped /\ op \in Locals /\ op.h \in Handles
  BY <1>1, TruncFacts
<1>3. op' \in Locals /\ op'.kind = "none" /\ op'.h = op.h
  BY <1>1, <1>2 DEF Locals
<1>4. Typed' /\ Modes' /\ Mapped'
  BY <1>1, <1>2, <1>3 DEF Typed, TypeOK, Modes, Mapped
<1>5. Stored' /\ AtRest'
  BY <1>1, <1>3 DEF Stored, AtRest, Promised
<1>6. AtHead' /\ Growing' /\ Gathering' /\ Flushing' /\ Ending' /\ Correcting' /\ Truncating'
  BY <1>1 DEF AtHead, Growing, Gathering, Flushing, Ending, Correcting, Truncating
<1>7. Delivered'
  BY <1>1, <1>3 DEF Delivered, Answered, Asked
<1> QED BY <1>4, <1>5, <1>6, <1>7 DEF IInv

----------------------------------------------------------------------------
(* The invariant *)

LEMMA InitEstablishes == Init => IInv
<1> SUFFICES ASSUME Init PROVE IInv
  OBVIOUS
<1>1. /\ disk = [x \in Bytes |-> Foreign] /\ map = <<>> /\ size = 0
      /\ fpos = [h \in Handles |-> 0] /\ fsize = [h \in Handles |-> 0]
      /\ wb = 0 /\ pc = "idle" /\ op = NoOp /\ calls = 0 /\ ref = <<>> /\ failed = FALSE
  BY DEF Init
<1>2. /\ op \in Locals /\ op.kind = "none" /\ Foreign \in Cells /\ MaxCalls \in Nat
  BY <1>1, NoOpIs, FileIoAssumption DEF Foreign, Cells
<1>3. Typed
  <2>1. DOMAIN disk = Bytes /\ disk \in [Bytes -> Cells]
    BY <1>1, <1>2
  <2>2. map \in Seq(1 .. NBlocks - 1) /\ ref \in Seq(Cells)
    BY <1>1
  <2>3. fpos \in [Handles -> Nat] /\ fsize \in [Handles -> Nat]
    BY <1>1
  <2>4. size \in Nat /\ wb \in 0 .. 1 /\ calls \in 0 .. MaxCalls /\ failed \in BOOLEAN
    <3>1. size = 0 /\ wb = 0 /\ calls = 0
      BY <1>1
    <3>2. failed \in BOOLEAN
      BY <1>1, Zenon
    <3> QED BY <1>2, <3>1, <3>2
  <2>5. /\ pc \in {"idle", "head", "loop", "gather", "flush", "tail", "fsize", "trunc", "ret"}
        /\ pc = "idle"
    BY <1>1
  <2>6. TypeOK
    BY <2>1, <2>2, <2>3, <2>4, <2>5 DEF TypeOK
  <2> QED BY <1>2, <2>1, <2>2, <2>5, <2>6 DEF Typed
<1>4. Mapped
  <2>1. CeilBlocks(0) = 0
    BY CeilWhole, FileIoAssumption, 0 * BlockSize = 0
  <2>2. MapOK(<<>>)
    BY DEF MapOK
  <2> QED BY <1>1, <2>1, <2>2 DEF Mapped
<1>5. Modes /\ AtRest
  BY <1>1, <1>2 DEF Modes, AtRest
<1>6. Stored
  BY <1>1 DEF Stored, Holds
<1>7. AtHead /\ Growing /\ Gathering /\ Flushing /\ Ending /\ Correcting /\ Truncating
  BY <1>1 DEF AtHead, Growing, Gathering, Flushing, Ending, Correcting, Truncating
<1>8. Delivered
  BY <1>1, <1>2 DEF Delivered, Answered, Asked
<1> QED BY <1>3, <1>4, <1>5, <1>6, <1>7, <1>8 DEF IInv

\* The device keeps all its bytes.
LEMMA QuietInside ==
  ASSUME disk' = disk
  PROVE  Inside
BY DEF Inside

\* Every step keeps the invariant, and the bytes that are not the file's.
LEMMA NextKeeps ==
  ASSUME IInv, [Next]_vars
  PROVE  IInv' /\ Inside
<1>1. ASSUME NEW h \in Handles, NEW n \in Sizes, Fread(h, n) PROVE IInv' /\ Inside
  <2>1. disk' = disk
    BY <1>1 DEF Fread, Begin
  <2> QED BY <1>1, <2>1, FreadKeeps, QuietInside
<1>2. ASSUME NEW h \in Handles, NEW n \in Sizes, Fwrite(h, n) PROVE IInv' /\ Inside
  <2>1. disk' = disk
    BY <1>2 DEF Fwrite, Begin
  <2> QED BY <1>2, <2>1, FwriteKeeps, QuietInside
<1>3. ASSUME NEW h \in Handles, NEW n \in Offsets, Fseek(h, n) PROVE IInv' /\ Inside
  <2>1. disk' = disk
    BY <1>3 DEF Fseek
  <2> QED BY <1>3, <2>1, FseekKeeps, QuietInside
<1>4. ASSUME NEW h \in Handles, NEW n \in Offsets, Ftruncate(h, n) PROVE IInv' /\ Inside
  <2>1. disk' = disk
    BY <1>4 DEF Ftruncate
  <2> QED BY <1>4, <2>1, FtruncateKeeps, QuietInside
<1>5. CASE HeadBlock
  BY <1>5, HeadBlockKeeps
<1>6. CASE OuterLoop
  <2>1. disk' = disk
    BY <1>6 DEF OuterLoop
  <2> QED BY <1>6, <2>1, OuterLoopKeeps, QuietInside
<1>7. CASE GatherOld
  <2>1. disk' = disk
    BY <1>7 DEF GatherOld
  <2> QED BY <1>7, <2>1, GatherOldKeeps, QuietInside
<1>8. ASSUME NEW b \in Unused, GatherNew(b) PROVE IInv' /\ Inside
  <2>1. disk' = disk
    BY <1>8 DEF GatherNew
  <2> QED BY <1>8, <2>1, GatherNewKeeps, QuietInside
<1>9. CASE GatherFull
  <2>1. disk' = disk
    BY <1>9 DEF GatherFull
  <2> QED BY <1>9, <2>1, GatherFullKeeps, QuietInside
<1>10. CASE GatherEnd
  <2>1. disk' = disk
    BY <1>10 DEF GatherEnd
  <2> QED BY <1>10, <2>1, GatherEndKeeps, QuietInside
<1>11. CASE Flush
  BY <1>11, FlushKeeps
<1>12. CASE TailOld
  BY <1>12, TailOldKeeps
<1>13. ASSUME NEW b \in Unused, TailNew(b) PROVE IInv' /\ Inside
  BY <1>13, TailNewKeeps
<1>14. CASE TailFull
  <2>1. disk' = disk
    BY <1>14 DEF TailFull
  <2> QED BY <1>14, <2>1, TailFullKeeps, QuietInside
<1>15. CASE OutFsize
  <2>1. disk' = disk
    BY <1>15 DEF OutFsize
  <2> QED BY <1>15, <2>1, FsizeKeeps, QuietInside
<1>16. CASE TransferFails
  <2>1. disk' = disk
    BY <1>16 DEF TransferFails
  <2> QED BY <1>16, <2>1, TransferFailsKeeps, QuietInside
<1>17. ASSUME NEW b \in Unused, TailNewFails(b) PROVE IInv' /\ Inside
  <2>1. disk' = disk
    BY <1>17 DEF TailNewFails
  <2> QED BY <1>17, <2>1, TailNewFailsKeeps, QuietInside
<1>18. CASE TruncPiece
  <2>1. disk' = disk
    BY <1>18 DEF TruncPiece
  <2> QED BY <1>18, <2>1, TruncPieceKeeps, QuietInside
<1>19. CASE TruncEnd
  <2>1. disk' = disk
    BY <1>19 DEF TruncEnd
  <2> QED BY <1>19, <2>1, TruncEndKeeps, QuietInside
<1>20. CASE TruncFails
  <2>1. disk' = disk
    BY <1>20 DEF TruncFails
  <2> QED BY <1>20, <2>1, TruncFailsKeeps, QuietInside
<1>21. CASE Return
  <2>1. disk' = disk
    BY <1>21 DEF Return
  <2> QED BY <1>21, <2>1, ReturnKeeps, QuietInside
<1>22. CASE UNCHANGED vars
  <2>1. /\ UNCHANGED <<disk, map, size, fpos, fsize, wb, pc, op, calls, ref, failed>>
        /\ Pos' = Pos /\ Began' = Began
    BY <1>22 DEF vars, Pos, Began
  <2>2. Typed' /\ Modes' /\ Mapped' /\ Stored' /\ AtRest' /\ AtHead' /\ Growing'
    BY <2>1 DEF IInv, Typed, TypeOK, Modes, Mapped, Stored, Promised, AtRest, AtHead, Growing
  <2>3. Gathering' /\ Flushing' /\ Ending' /\ Correcting' /\ Truncating'
    BY <2>1 DEF IInv, Gathering, Flushing, Ending, Correcting, Truncating, RunAt
  <2>4. Delivered'
    BY <2>1 DEF IInv, Delivered, Answered, Asked
  <2> QED BY <2>1, <2>2, <2>3, <2>4, QuietInside DEF IInv
<1>23. CASE Step
  BY <1>5, <1>6, <1>7, <1>8, <1>9, <1>10, <1>11, <1>12, <1>13, <1>14, <1>15, <1>16, <1>17,
     <1>18, <1>19, <1>20, <1>21, <1>23 DEF Step
<1> QED BY <1>1, <1>2, <1>3, <1>4, <1>22, <1>23 DEF Next

\* In every reachable state the bytes of the file are where its map says, and a
\* running call is where the loops of ext4_fread, ext4_fwrite and
\* ext4_trunc_inode should have it (ext4.c:1540-1945).
THEOREM FileInvariant == Spec => []IInv
<1>1. Init => IInv
  BY InitEstablishes
<1>2. IInv /\ [Next]_vars => IInv'
  BY NextKeeps
<1> QED BY <1>1, <1>2, PTL DEF Spec

----------------------------------------------------------------------------
(* What follows from it *)

\* The state keeps its type.
THEOREM FileTypes == Spec => []TypeOK
<1>1. IInv => TypeOK
  BY DEF IInv, Typed
<1> QED BY <1>1, FileInvariant, PTL

\* After every call the file holds what was written, byte for byte: over any mix of
\* aligned and unaligned reads, writes and truncations through any number of
\* handles, on a full device and behind failed reads (ext4_fread, ext4_fwrite,
\* ext4_ftruncate, ext4.c:1540-1945).
THEOREM FileHoldsWritten == Spec => []ContentRight
<1>1. IInv => ContentRight
  <2> SUFFICES ASSUME IInv, pc = "ret", failed => op.kind = "write"
               PROVE  /\ size = Len(ref) /\ CeilBlocks(size) = Len(map)
                      /\ \A i \in 1 .. size :
                           disk[BlockOf((i - 1) \div BlockSize) * BlockSize
                                + ((i - 1) % BlockSize)] = ref[i]
    BY DEF ContentRight
  <2>1. Promised
    BY DEF IInv, Typed, TypeOK, Promised
  <2>2. size = Len(ref) /\ CeilBlocks(size) = Len(map) /\ Holds(map, disk, ref, Len(ref))
    BY <2>1 DEF IInv, AtRest, Mapped, Stored
  <2> QED BY <2>2 DEF Holds, At, BlockOf
<1> QED BY <1>1, FileInvariant, PTL

\* What a read delivers is what the file holds from its position on, and in the end
\* it has delivered all of it (ext4_fread, ext4.c:1604-1759).
THEOREM FileReadsRight == Spec => []ReadRight
<1>1. IInv => ReadRight
  <2> SUFFICES ASSUME IInv, op.kind = "read"
               PROVE  /\ op.got = SubSeq(op.want, 1, Len(op.got))
                      /\ pc = "ret" => op.got = op.want
    BY DEF ReadRight
  <2> DEFINE got == op.got
             want == op.want
             done == op.done
  <2>1. /\ got \in Seq(Cells) /\ want \in Seq(Cells) /\ done \in Nat /\ op.left \in Nat
    BY DEF IInv, Typed, Locals
  <2>2. /\ Len(got) = done /\ Len(want) = done + op.left
        /\ \A i \in 1 .. done : got[i] = want[i]
        /\ pc = "ret" => op.left = 0
    BY DEF IInv, Delivered, Answered
  <2> HIDE DEF got, want, done
  <2>3. done <= Len(want)
    BY <2>1, <2>2
  <2>4. /\ SubSeq(want, 1, done) \in Seq(Cells) /\ Len(SubSeq(want, 1, done)) = done
        /\ \A i \in 1 .. done : SubSeq(want, 1, done)[i] = want[i]
    BY <2>1, <2>3
  <2>5. got = SubSeq(want, 1, done)
    BY <2>1, <2>2, <2>4, SeqEqual
  <2>6. ASSUME pc = "ret" PROVE got = want
    <3>1. Len(want) = done
      BY <2>1, <2>2, <2>6
    <3> QED BY <2>1, <2>2, <3>1, SeqEqual
  <2> QED BY <2>2, <2>5, <2>6 DEF got, want, done
<1> QED BY <1>1, FileInvariant, PTL

\* Write-back mode is off again after every call that did not fail
\* (ext4_block_cache_write_back in ext4_fwrite and ext4_trunc_inode).
THEOREM FileWriteBackEnds == Spec => []WriteBackEnds
<1>1. IInv => WriteBackEnds
  BY DEF IInv, Modes, WriteBackEnds
<1> QED BY <1>1, FileInvariant, PTL

\* No call touches a byte of the device outside the blocks of the file
\* (ext4_block_writebytes and ext4_blocks_set_direct as ext4_fwrite uses them).
THEOREM FileConfined == Spec => Confined
<1>1. IInv /\ [Next]_vars =>
        [\A x \in Bytes : disk'[x] # disk[x] => x \div BlockSize \in ToSet(map')]_vars
  BY NextKeeps DEF Inside
<1> QED BY <1>1, FileInvariant, PTL DEF Spec, Confined
=============================================================================
