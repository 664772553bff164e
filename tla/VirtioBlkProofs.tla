-------------------------- MODULE VirtioBlkProofs --------------------------
(***************************************************************************)
(* The virtio queue is sound and the driver with its device implements the *)
(* abstract block device, for every queue length, index width, disk and    *)
(* transfer size that satisfy QueueAssumption and DiskAssumption, whether  *)
(* or not the device fails requests or the compiler reloads the status.    *)
(***************************************************************************)
EXTENDS VirtioBlk, DataLemmas

\* A call holds its three descriptors.
Held == {"fill", "notify", "poll", "spin", "ack", "free"}

\* The request is on the ring and its status byte has not been seen.
Waiting == {"notify", "poll", "spin"}

\* The descriptors that are not free: all three until free_chain starts, then
\* those from nxt on.
Chain ==
  IF pc # "free" \/ nxt = idx[1] THEN {idx[1], idx[2], idx[3]}
  ELSE IF nxt = idx[2] THEN {idx[2], idx[3]}
  ELSE {idx[3]}

\* A call holds three different descriptors, and no other is in use.
Ownership ==
  /\ pc \in Held =>
       /\ idx[1] # idx[2] /\ idx[1] # idx[3] /\ idx[2] # idx[3]
       /\ \A d \in Desc : free[d] = (d \notin Chain)
       /\ \A d \in Desc : free[d] => desc[d] = Zero
  /\ pc = "free" => nxt \in {idx[1], idx[2], idx[3]}
  /\ pc \notin Held => \A d \in Desc : free[d] /\ desc[d] = Zero

\* A store that is not pending has reached memory, and nothing has overwritten
\* it while the device may read it.
Formatted ==
  /\ pc # "fill" => stores = {}
  /\ pc \in Held =>
       /\ "desc0" \notin stores /\ idx[1] \in Chain => desc[idx[1]] = Desc0
       /\ "desc1" \notin stores /\ idx[2] \in Chain => desc[idx[2]] = Desc1
       /\ "desc2" \notin stores => desc[idx[3]] = Desc2
  /\ pc \in {"fill"} \cup Waiting /\ "op" \notin stores =>
       ops[idx[1]] = [write |-> req.write, sector |-> req.sector]
  /\ pc = "fill" =>
       /\ "ring" \notin stores => avail.ring[avail.idx % QUEUE_NUM] = idx[1]
       /\ "status" \notin stores => status[idx[1]] = "pending"

\* The status byte tells the truth: after 0 every sector has crossed.
Answered ==
  \/ status[idx[1]] = "ok" /\ Agree
  \/ status[idx[1]] = "ioerr" /\ DeviceFails

\* At most one entry of the ring is unread, and it is that of the call.
Lockstep ==
  /\ dev.phase # "broken" /\ pc # "panic"
  /\ pc \notin Waiting => dev.last = avail.idx
  /\ dev.last # avail.idx =>
       /\ avail.idx = (dev.last + 1) % IdxModulus
       /\ avail.ring[dev.last % QUEUE_NUM] = idx[1]
       /\ dev.phase # "move" /\ status[idx[1]] = "pending"
  /\ pc \in Waiting /\ dev.last = avail.idx /\ dev.phase # "move" => Answered
  /\ pc \in {"ack", "free", "done"} => Answered

\* The sectors that have crossed agree.
Moving ==
  dev.phase = "move" =>
    /\ dev.moved <= dev.len
    /\ \A k \in Slots : k < dev.moved => buffer[k] = disk[req.sector + k]

\* The inductive invariant. DeviceSeesWholeChain needs Formatted, since what the
\* device reads are the driver's stores; Formatted needs Ownership, since a store
\* to one descriptor must leave the two others alone; and Lockstep says that the
\* device, however late, is never a request behind.
IInv ==
  /\ TypeOK
  /\ Ownership
  /\ Formatted
  /\ Lockstep
  /\ Moving
  /\ DeviceSeesWholeChain

----------------------------------------------------------------------------
(* Arithmetic and records *)

\* The next value of a counter that wraps: never the same one.
LEMMA Wraps ==
  ASSUME NEW x \in 0 .. (IdxModulus - 1)
  PROVE  /\ (x + 1) % IdxModulus \in 0 .. (IdxModulus - 1)
         /\ (x + 1) % IdxModulus # x
<1>1. IdxModulus \in Nat /\ IdxModulus > 1
  BY QueueAssumption
<1>2. CASE x = IdxModulus - 1
  <2>1. (x + 1) % IdxModulus = 0
    BY <1>1, <1>2
  <2> QED BY <1>1, <1>2, <2>1
<1>3. CASE x # IdxModulus - 1
  <2>1. x + 1 < IdxModulus /\ x + 1 \in Nat
    BY <1>1, <1>3
  <2>2. (x + 1) % IdxModulus = x + 1
    BY <1>1, <2>1
  <2> QED BY <1>1, <2>1, <2>2
<1> QED BY <1>2, <1>3

\* An index falls on an entry of the ring.
LEMMA OnRing ==
  ASSUME NEW x \in 0 .. (IdxModulus - 1)
  PROVE  x % QUEUE_NUM \in Desc
<1>1. QUEUE_NUM \in Nat /\ QUEUE_NUM > 0 /\ x \in Nat
  BY QueueAssumption
<1>2. x % QUEUE_NUM \in 0 .. (QUEUE_NUM - 1)
  BY <1>1
<1> QED BY <1>2 DEF Desc

\* What the driver stores in the table has the types of the table.
LEMMA Records ==
  ASSUME TypeOK
  PROVE  /\ 0 \in Desc
         /\ idx[1] \in Desc /\ idx[2] \in Desc /\ idx[3] \in Desc
         /\ req.write \in BOOLEAN /\ req.sector \in Sectors
         /\ req.count \in Nat /\ req.count \in 1 .. MaxCount
         /\ \A k \in 0 .. (req.count - 1) : req.sector + k \in Sectors /\ k \in Slots
         /\ \A r \in {Desc0, Desc1, Desc2, Zero} :
              r \in [addr : {"null", "op", "data", "status"}, of : Desc, len : 0 .. MaxCount,
                     WRITE : BOOLEAN, NEXT : BOOLEAN, next : Desc]
<1>1. 0 \in Desc
  BY QueueAssumption DEF Desc
<1>2. idx[1] \in Desc /\ idx[2] \in Desc /\ idx[3] \in Desc
  BY DEF TypeOK
<1>3. /\ req.write \in BOOLEAN /\ req.sector \in Sectors /\ req.count \in 1 .. MaxCount
      /\ req.sector + (req.count - 1) \in Sectors
  BY DEF TypeOK, Requests
<1>4. MaxCount \in Nat /\ MaxCount >= 1 /\ Sectors \subseteq Nat
  BY DiskAssumption
<1>5. ASSUME NEW k \in 0 .. (req.count - 1)
      PROVE  req.sector + k \in Sectors /\ k \in Slots
  <2>1. req.sector \in Nat
    BY <1>3, <1>4
  <2>2. req.count \in Nat
    BY <1>3, <1>4
  <2>3. k \in Nat /\ k <= req.count - 1
    BY <2>2
  <2>4. req.sector + k \in req.sector .. (req.sector + (req.count - 1))
    BY <2>1, <2>2, <2>3
  <2>5. req.sector .. (req.sector + (req.count - 1)) \subseteq Sectors
    BY <1>3, DiskAssumption
  <2> QED BY <1>3, <1>4, <2>2, <2>3, <2>4, <2>5 DEF Slots
<1>6. 0 \in 0 .. MaxCount /\ 1 \in 0 .. MaxCount /\ req.count \in 0 .. MaxCount
  BY <1>3, <1>4
<1>7. ASSUME NEW r \in {Desc0, Desc1, Desc2, Zero}
      PROVE  r \in [addr : {"null", "op", "data", "status"}, of : Desc, len : 0 .. MaxCount,
                     WRITE : BOOLEAN, NEXT : BOOLEAN, next : Desc]
  <2>1. CASE r = Desc0
    BY <1>1, <1>2, <1>3, <1>6, <2>1 DEF Desc0
  <2>2. CASE r = Desc1
    BY <1>1, <1>2, <1>3, <1>6, <2>2 DEF Desc1
  <2>3. CASE r = Desc2
    BY <1>1, <1>2, <1>3, <1>6, <2>3 DEF Desc2
  <2>4. CASE r = Zero
    BY <1>1, <1>2, <1>3, <1>6, <2>4 DEF Zero
  <2> QED BY <2>1, <2>2, <2>3, <2>4
<1> QED BY <1>1, <1>2, <1>3, <1>4, <1>5, <1>7

----------------------------------------------------------------------------
(* Each step keeps the invariant. *)

\* After the probe all descriptors are free and nothing is on the ring.
LEMMA InitEstablishes == Init => IInv
<1> SUFFICES ASSUME Init PROVE IInv
  OBVIOUS
<1>1. 0 \in Desc /\ 0 \in 0 .. MaxCount /\ 0 \in 0 .. (IdxModulus - 1)
  BY QueueAssumption, DiskAssumption DEF Desc
<1>2. TypeOK
  BY <1>1 DEF Init, TypeOK, Zero, NoOp, IdleDev, Stores
<1>3. Ownership /\ Formatted
  BY DEF Init, Ownership, Formatted, Held, Waiting
<1>4. Lockstep /\ Moving /\ DeviceSeesWholeChain
  BY DEF Init, Lockstep, Moving, DeviceSeesWholeChain, Waiting, IdleDev
<1> QED BY <1>2, <1>3, <1>4 DEF IInv

\* A call starts with its own buffer, which nobody else moves.
LEMMA CallKeeps == IInv /\ Call => IInv'
<1> SUFFICES ASSUME IInv, Call PROVE IInv'
  OBVIOUS
<1> USE DEF IInv, Call
<1>1. TypeOK'
  BY DEF TypeOK
<1>2. Ownership'
  BY DEF Ownership, Held
<1>3. Formatted'
  BY DEF Formatted, Held, Waiting
<1>4. dev.phase # "move"
  BY DEF DeviceSeesWholeChain
<1>5. Lockstep' /\ Moving' /\ DeviceSeesWholeChain'
  BY <1>4 DEF Lockstep, Moving, DeviceSeesWholeChain, Waiting
<1> QED BY <1>1, <1>2, <1>3, <1>5

\* alloc_desc returns a free descriptor if there is one.
LEMMA FirstFreeFree ==
  ASSUME NEW f \in [Desc -> BOOLEAN], NEW e \in Desc, f[e]
  PROVE  FirstFree(f) \in Desc /\ f[FirstFree(f)]
<1> DEFINE S == {d \in Desc : f[d]}
<1>1. S \subseteq Nat /\ S # {}
  BY QueueAssumption DEF Desc
<1>2. Min(S) \in S
  BY <1>1, MinNat
<1> QED BY <1>2 DEF FirstFree

\* Since all descriptors are free, alloc3_desc takes three different ones.
LEMMA Alloc3Keeps == IInv /\ Alloc3 => IInv'
<1> SUFFICES ASSUME IInv, Alloc3 PROVE IInv'
  OBVIOUS
<1> DEFINE d0 == FirstFree(free)
           f1 == [free EXCEPT ![d0] = FALSE]
           d1 == FirstFree(f1)
           f2 == [f1 EXCEPT ![d1] = FALSE]
           d2 == FirstFree(f2)
<1>1. /\ pc = "alloc" /\ pc' = "fill" /\ stores' = Stores
      /\ free' = [f2 EXCEPT ![d2] = FALSE] /\ idx' = <<d0, d1, d2>>
      /\ UNCHANGED <<desc, ops, status, avail, nxt, req, buffer, notified, isr, disk, dev>>
  BY DEF Alloc3
<1>2. 0 \in Desc /\ 1 \in Desc /\ 2 \in Desc
  BY QueueAssumption DEF Desc
<1>3. free \in [Desc -> BOOLEAN] /\ \A d \in Desc : free[d] /\ desc[d] = Zero
  BY <1>1 DEF IInv, TypeOK, Ownership, Held
<1>4. d0 \in Desc
  BY <1>2, <1>3, FirstFreeFree
<1>5. f1 \in [Desc -> BOOLEAN] /\ \A d \in Desc : f1[d] = (d # d0)
  BY <1>3, <1>4
<1> HIDE DEF d0, f1
<1>6. d1 \in Desc /\ d1 # d0
  <2>1. f1[0] \/ f1[1]
    BY <1>2, <1>5
  <2>2. d1 \in Desc /\ f1[d1]
    BY <1>2, <1>5, <2>1, FirstFreeFree
  <2> QED BY <1>5, <2>2
<1>7. f2 \in [Desc -> BOOLEAN] /\ \A d \in Desc : f2[d] = (d # d0 /\ d # d1)
  BY <1>5, <1>6
<1> HIDE DEF d1, f2
<1>8. d2 \in Desc /\ d2 # d0 /\ d2 # d1
  <2>1. f2[0] \/ f2[1] \/ f2[2]
    BY <1>2, <1>7
  <2>2. d2 \in Desc /\ f2[d2]
    BY <1>2, <1>7, <2>1, FirstFreeFree
  <2> QED BY <1>7, <2>2
<1> HIDE DEF d2
<1>9. free' \in [Desc -> BOOLEAN] /\ \A d \in Desc : free'[d] = (d # d0 /\ d # d1 /\ d # d2)
  BY <1>1, <1>7, <1>8
<1>10. idx'[1] = d0 /\ idx'[2] = d1 /\ idx'[3] = d2 /\ idx' \in Desc \X Desc \X Desc
  BY <1>1, <1>4, <1>6, <1>8
<1>11. TypeOK'
  BY <1>1, <1>9, <1>10 DEF IInv, TypeOK
<1>12. Ownership'
  BY <1>1, <1>3, <1>6, <1>8, <1>9, <1>10 DEF Ownership, Held, Chain
<1>13. Formatted'
  BY <1>1 DEF Formatted, Stores, Waiting
<1>14. dev.phase # "move" /\ dev.last = avail.idx
  BY <1>1 DEF IInv, DeviceSeesWholeChain, Lockstep, Waiting
<1>15. Lockstep' /\ Moving' /\ DeviceSeesWholeChain'
  BY <1>1, <1>14 DEF IInv, Lockstep, Moving, DeviceSeesWholeChain, Waiting
<1> QED BY <1>11, <1>12, <1>13, <1>15 DEF IInv

\* A store reaches its own place and no other, because the descriptors differ.
LEMMA StoreKeeps ==
  ASSUME IInv, NEW s \in Stores, Store(s)
  PROVE  IInv'
<1>1. /\ pc = "fill" /\ s \in stores /\ stores' = stores \ {s}
      /\ UNCHANGED <<free, pc, idx, nxt, req, buffer, notified, isr, disk, dev>>
  BY DEF Store
<1>2. /\ idx[1] \in Desc /\ idx[2] \in Desc /\ idx[3] \in Desc
      /\ Desc0' = Desc0 /\ Desc1' = Desc1 /\ Desc2' = Desc2 /\ Chain' = Chain
      /\ Chain = {idx[1], idx[2], idx[3]}
  BY <1>1, Records DEF IInv, Desc0, Desc1, Desc2, Chain
<1>3. idx[1] # idx[2] /\ idx[1] # idx[3] /\ idx[2] # idx[3]
  BY <1>1 DEF IInv, Ownership, Held
<1>4. avail.idx \in 0 .. (IdxModulus - 1) /\ avail.idx % QUEUE_NUM \in Desc
  BY OnRing DEF IInv, TypeOK
<1>5. /\ desc' \in [Desc -> [addr : {"null", "op", "data", "status"}, of : Desc,
                             len : 0 .. MaxCount, WRITE : BOOLEAN, NEXT : BOOLEAN, next : Desc]]
      /\ \A d \in Desc : d \notin Chain => desc'[d] = desc[d]
      /\ desc'[idx[1]] = IF s = "desc0" THEN Desc0 ELSE desc[idx[1]]
      /\ desc'[idx[2]] = IF s = "desc1" THEN Desc1 ELSE desc[idx[2]]
      /\ desc'[idx[3]] = IF s = "desc2" THEN Desc2 ELSE desc[idx[3]]
  <2>1. desc \in [Desc -> [addr : {"null", "op", "data", "status"}, of : Desc,
                           len : 0 .. MaxCount, WRITE : BOOLEAN, NEXT : BOOLEAN, next : Desc]]
    BY DEF IInv, TypeOK
  <2>2. \A r \in {Desc0, Desc1, Desc2} :
          r \in [addr : {"null", "op", "data", "status"}, of : Desc, len : 0 .. MaxCount,
                 WRITE : BOOLEAN, NEXT : BOOLEAN, next : Desc]
    BY Records DEF IInv
  <2>3. CASE s = "desc0"
    <3>1. desc' = [desc EXCEPT ![idx[1]] = Desc0]
      BY <2>3 DEF Store
    <3> QED BY <1>2, <1>3, <2>1, <2>2, <2>3, <3>1
  <2>4. CASE s = "desc1"
    <3>1. desc' = [desc EXCEPT ![idx[2]] = Desc1]
      BY <2>4 DEF Store
    <3> QED BY <1>2, <1>3, <2>1, <2>2, <2>4, <3>1
  <2>5. CASE s = "desc2"
    <3>1. desc' = [desc EXCEPT ![idx[3]] = Desc2]
      BY <2>5 DEF Store
    <3> QED BY <1>2, <1>3, <2>1, <2>2, <2>5, <3>1
  <2>6. CASE s \notin {"desc0", "desc1", "desc2"}
    <3>1. desc' = desc
      BY <2>6 DEF Store
    <3> QED BY <1>2, <2>1, <2>6, <3>1
  <2> QED BY <2>3, <2>4, <2>5, <2>6
<1>6. /\ ops' \in [Desc -> [write : BOOLEAN, sector : Sectors \cup {0}]]
      /\ ops'[idx[1]] = IF s = "op" THEN [write |-> req.write, sector |-> req.sector]
                                    ELSE ops[idx[1]]
  <2>1. /\ ops \in [Desc -> [write : BOOLEAN, sector : Sectors \cup {0}]]
        /\ [write |-> req.write, sector |-> req.sector] \in
             [write : BOOLEAN, sector : Sectors \cup {0}]
    BY Records DEF IInv, TypeOK
  <2>2. ops' = IF s = "op"
               THEN [ops EXCEPT ![idx[1]] = [write |-> req.write, sector |-> req.sector]]
               ELSE ops
    BY DEF Store
  <2> QED BY <1>2, <2>1, <2>2
<1>7. /\ status' \in [Desc -> {"pending", "ok", "ioerr"}]
      /\ status'[idx[1]] = IF s = "status" THEN "pending" ELSE status[idx[1]]
  BY <1>2 DEF Store, IInv, TypeOK
<1>8. /\ avail' \in [idx : 0 .. (IdxModulus - 1), ring : [Desc -> Desc]]
      /\ avail'.idx = avail.idx
      /\ avail'.ring[avail.idx % QUEUE_NUM] =
           IF s = "ring" THEN idx[1] ELSE avail.ring[avail.idx % QUEUE_NUM]
  <2>1. avail \in [idx : 0 .. (IdxModulus - 1), ring : [Desc -> Desc]]
    BY DEF IInv, TypeOK
  <2>2. avail' = IF s = "ring"
                 THEN [avail EXCEPT !.ring[avail.idx % QUEUE_NUM] = idx[1]]
                 ELSE avail
    BY DEF Store
  <2> HIDE DEF Desc
  <2> QED BY <1>2, <1>4, <2>1, <2>2
<1>9. TypeOK'
  BY <1>1, <1>5, <1>6, <1>7, <1>8 DEF IInv, TypeOK
<1>10. Ownership'
  BY <1>1, <1>2, <1>5 DEF IInv, Ownership, Held
<1>11. Formatted'
  BY <1>1, <1>2, <1>5, <1>6, <1>7, <1>8 DEF IInv, Formatted, Held, Waiting
<1>12. dev.phase # "move" /\ dev.last = avail.idx
  BY <1>1 DEF IInv, DeviceSeesWholeChain, Lockstep, Waiting
<1>13. Lockstep' /\ Moving' /\ DeviceSeesWholeChain'
  BY <1>1, <1>8, <1>12 DEF IInv, Lockstep, Moving, DeviceSeesWholeChain, Waiting
<1> QED BY <1>9, <1>10, <1>11, <1>13 DEF IInv

\* The index moves only when every store has reached memory.
LEMMA PublishKeeps == IInv /\ Publish => IInv'
<1> SUFFICES ASSUME IInv, Publish PROVE IInv'
  OBVIOUS
<1>1. /\ pc = "fill" /\ stores = {} /\ pc' = "notify"
      /\ UNCHANGED <<free, desc, ops, status, idx, stores, nxt, req, buffer, notified, isr,
                     disk, dev>>
  BY DEF Publish
<1>2. avail \in [idx : 0 .. (IdxModulus - 1), ring : [Desc -> Desc]]
  BY DEF IInv, TypeOK
<1>3. avail.idx \in 0 .. (IdxModulus - 1)
  BY <1>2
<1>4. avail'.idx = (avail.idx + 1) % IdxModulus /\ avail'.ring = avail.ring
  BY <1>2 DEF Publish
<1>5. avail'.idx \in 0 .. (IdxModulus - 1) /\ avail'.idx # avail.idx
  BY <1>3, <1>4, Wraps
<1>6. avail' \in [idx : 0 .. (IdxModulus - 1), ring : [Desc -> Desc]]
  BY <1>2, <1>4, <1>5 DEF Publish
<1>7. TypeOK'
  BY <1>1, <1>6 DEF IInv, TypeOK
<1>8. Ownership'
  BY <1>1 DEF IInv, Ownership, Held, Chain
<1>9. Formatted'
  BY <1>1 DEF IInv, Formatted, Held, Waiting, Chain, Desc0, Desc1, Desc2
<1>10. dev.phase # "move" /\ dev.last = avail.idx
  BY <1>1 DEF IInv, DeviceSeesWholeChain, Lockstep, Waiting
<1>11. avail.ring[avail.idx % QUEUE_NUM] = idx[1] /\ status[idx[1]] = "pending"
  BY <1>1 DEF IInv, Formatted
<1>12. Lockstep' /\ Moving' /\ DeviceSeesWholeChain'
  BY <1>1, <1>4, <1>5, <1>10, <1>11
  DEF IInv, Lockstep, Moving, DeviceSeesWholeChain, Waiting
<1> QED BY <1>7, <1>8, <1>9, <1>12 DEF IInv

\* Notify, the poll and the acknowledgement change no more than where the
\* driver is; the poll ends only at a status byte the device has written.
LEMMA NotifyKeeps == IInv /\ Notify => IInv'
<1> SUFFICES ASSUME IInv, Notify PROVE IInv'
  OBVIOUS
<1> USE DEF IInv, Notify
<1>1. TypeOK'
  BY DEF TypeOK
<1>2. Ownership'
  BY DEF Ownership, Held, Chain
<1>3. Formatted'
  BY DEF Formatted, Held, Waiting, Chain, Desc0, Desc1, Desc2
<1>4. Lockstep'
  BY DEF Lockstep, Waiting, Answered, Agree
<1>5. Moving' /\ DeviceSeesWholeChain'
  BY DEF Moving, DeviceSeesWholeChain
<1> QED BY <1>1, <1>2, <1>3, <1>4, <1>5

\* The poll goes on while the byte is pending, and ends at an answer.
LEMMA PollKeeps == IInv /\ (Poll \/ Spin) => IInv'
<1> SUFFICES ASSUME IInv, Poll \/ Spin PROVE IInv'
  OBVIOUS
<1>1. /\ pc \in {"poll", "spin"}
      /\ pc' = IF status[idx[1]] = "pending" THEN "spin" ELSE "ack"
      /\ UNCHANGED <<free, desc, ops, status, avail, idx, stores, nxt, req, buffer, notified,
                     isr, disk, dev>>
  BY DEF Poll, Spin
<1> USE DEF IInv
<1>2. TypeOK'
  BY <1>1 DEF TypeOK
<1>3. Ownership'
  BY <1>1 DEF Ownership, Held, Chain
<1>4. Formatted'
  BY <1>1 DEF Formatted, Held, Waiting, Chain, Desc0, Desc1, Desc2
<1>5. Lockstep'
  BY <1>1 DEF Lockstep, Waiting, Answered, Agree, DeviceSeesWholeChain
<1>6. Moving' /\ DeviceSeesWholeChain'
  BY <1>1 DEF Moving, DeviceSeesWholeChain
<1> QED BY <1>2, <1>3, <1>4, <1>5, <1>6

\* The acknowledgement leaves free_chain the head of the chain.
LEMMA AckKeeps == IInv /\ Ack => IInv'
<1> SUFFICES ASSUME IInv, Ack PROVE IInv'
  OBVIOUS
<1> USE DEF IInv, Ack
<1>1. TypeOK'
  BY Records DEF TypeOK
<1>2. Ownership'
  BY DEF Ownership, Held, Chain
<1>3. Formatted'
  BY DEF Formatted, Held, Waiting, Chain, Desc0, Desc1, Desc2
<1>4. Lockstep'
  BY DEF Lockstep, Waiting, Answered, Agree
<1>5. Moving' /\ DeviceSeesWholeChain'
  BY DEF Moving, DeviceSeesWholeChain
<1> QED BY <1>1, <1>2, <1>3, <1>4, <1>5

\* free_chain finds each of the three descriptors in use, follows the links the
\* driver stored, and stops behind the third.
LEMMA FreeChainKeeps == IInv /\ FreeChain => IInv'
<1> SUFFICES ASSUME IInv, FreeChain PROVE IInv'
  OBVIOUS
<1>1. /\ pc = "free" /\ stores = {}
      /\ UNCHANGED <<ops, status, avail, idx, stores, req, buffer, notified, isr, disk, dev>>
  BY DEF FreeChain, IInv, Formatted
<1>2. /\ idx[1] \in Desc /\ idx[2] \in Desc /\ idx[3] \in Desc
      /\ idx[1] # idx[2] /\ idx[1] # idx[3] /\ idx[2] # idx[3]
      /\ nxt \in {idx[1], idx[2], idx[3]} /\ nxt \in Desc /\ nxt \in Chain
      /\ 0 \in Desc
  BY <1>1, Records DEF IInv, Ownership, Held, Chain
<1>3. ~free[nxt]
  BY <1>1, <1>2 DEF IInv, Ownership, Held
<1>4. /\ desc' = [desc EXCEPT ![nxt] = Zero] /\ free' = [free EXCEPT ![nxt] = TRUE]
      /\ nxt' = desc[nxt].next
      /\ pc' = IF desc[nxt].NEXT THEN "free" ELSE "done"
  BY <1>3 DEF FreeChain
<1>5. /\ desc[idx[3]] = Desc2
      /\ nxt \in {idx[1], idx[2]} => desc[idx[2]] = Desc1
      /\ nxt = idx[1] => desc[idx[1]] = Desc0
  BY <1>1, <1>2 DEF IInv, Formatted, Held, Chain
<1>6. /\ nxt = idx[1] => nxt' = idx[2] /\ pc' = "free"
      /\ nxt = idx[2] => nxt' = idx[3] /\ pc' = "free"
      /\ nxt = idx[3] => nxt' = 0 /\ pc' = "done"
  BY <1>4, <1>5 DEF Desc0, Desc1, Desc2
<1>7. /\ free \in [Desc -> BOOLEAN]
      /\ desc \in [Desc -> [addr : {"null", "op", "data", "status"}, of : Desc,
                            len : 0 .. MaxCount, WRITE : BOOLEAN, NEXT : BOOLEAN, next : Desc]]
      /\ Zero \in [addr : {"null", "op", "data", "status"}, of : Desc,
                   len : 0 .. MaxCount, WRITE : BOOLEAN, NEXT : BOOLEAN, next : Desc]
  BY Records DEF IInv, TypeOK
<1>8. /\ free' \in [Desc -> BOOLEAN]
      /\ \A d \in Desc : free'[d] = (free[d] \/ d = nxt)
      /\ \A d \in Desc : desc'[d] = IF d = nxt THEN Zero ELSE desc[d]
      /\ desc' \in [Desc -> [addr : {"null", "op", "data", "status"}, of : Desc,
                             len : 0 .. MaxCount, WRITE : BOOLEAN, NEXT : BOOLEAN, next : Desc]]
  BY <1>2, <1>4, <1>7
<1>9. /\ \A d \in Desc : free[d] = (d \notin Chain)
      /\ \A d \in Desc : free[d] => desc[d] = Zero
  BY <1>1 DEF IInv, Ownership, Held
<1>10. TypeOK'
  BY <1>1, <1>2, <1>6, <1>8 DEF IInv, TypeOK
<1>11. Ownership'
  <2>1. CASE nxt = idx[1]
    BY <1>1, <1>2, <1>6, <1>8, <1>9, <2>1 DEF Ownership, Held, Chain
  <2>2. CASE nxt = idx[2]
    BY <1>1, <1>2, <1>6, <1>8, <1>9, <2>2 DEF Ownership, Held, Chain
  <2>3. CASE nxt = idx[3]
    BY <1>1, <1>2, <1>6, <1>8, <1>9, <2>3 DEF Ownership, Held, Chain
  <2> QED BY <1>2, <2>1, <2>2, <2>3
<1>12. Formatted'
  <2>1. Desc0' = Desc0 /\ Desc1' = Desc1 /\ Desc2' = Desc2
    BY <1>1 DEF Desc0, Desc1, Desc2
  <2> QED BY <1>1, <1>2, <1>5, <1>6, <1>8, <2>1 DEF Formatted, Held, Waiting, Chain
<1>13. Lockstep'
  BY <1>1, <1>2, <1>6 DEF IInv, Lockstep, Waiting, Answered, Agree
<1>14. Moving' /\ DeviceSeesWholeChain'
  BY <1>1 DEF IInv, Moving, DeviceSeesWholeChain
<1> QED BY <1>10, <1>11, <1>12, <1>13, <1>14 DEF IInv

\* The chain is free by then.
LEMMA ReturnKeeps == IInv /\ Return => IInv'
<1> SUFFICES ASSUME IInv, Return PROVE IInv'
  OBVIOUS
<1> USE DEF IInv, Return
<1>1. TypeOK'
  BY DEF TypeOK
<1>2. Ownership' /\ Formatted'
  BY DEF Ownership, Formatted, Held, Waiting
<1>3. Lockstep' /\ Moving' /\ DeviceSeesWholeChain'
  BY DEF Lockstep, Moving, DeviceSeesWholeChain, Waiting
<1> QED BY <1>1, <1>2, <1>3

\* The device finds the whole chain of the request behind the entry it reads.
LEMMA DevFetchKeeps == IInv /\ DevFetch => IInv'
<1> SUFFICES ASSUME IInv, DevFetch PROVE IInv'
  OBVIOUS
<1>1. /\ dev.phase = "idle" /\ dev.last # avail.idx
      /\ UNCHANGED <<driverVars, buffer, notified, isr, disk>>
  BY DEF DevFetch
<1>2. /\ pc \in Waiting /\ stores = {} /\ pc # "fill"
      /\ avail.idx = (dev.last + 1) % IdxModulus
      /\ avail.ring[dev.last % QUEUE_NUM] = idx[1] /\ status[idx[1]] = "pending"
  BY <1>1 DEF IInv, Lockstep, Formatted, Waiting
<1>3. /\ desc[idx[1]] = Desc0 /\ desc[idx[2]] = Desc1 /\ desc[idx[3]] = Desc2
      /\ ops[idx[1]] = [write |-> req.write, sector |-> req.sector]
  BY <1>2 DEF IInv, Formatted, Held, Waiting, Chain
<1>4. dev' = [dev EXCEPT !.phase = "move", !.op = ops[idx[1]], !.len = req.count,
                         !.in = ~req.write, !.stat = idx[1], !.moved = 0,
                         !.last = (dev.last + 1) % IdxModulus]
  <2>1. /\ Desc0.addr = "op" /\ Desc0.NEXT /\ Desc0.next = idx[2] /\ Desc0.of = idx[1]
        /\ Desc1.addr = "data" /\ Desc1.NEXT /\ Desc1.next = idx[3]
        /\ Desc1.len = req.count /\ Desc1.WRITE = ~req.write
        /\ Desc2.addr = "status" /\ ~Desc2.NEXT /\ Desc2.WRITE /\ Desc2.of = idx[1]
    BY DEF Desc0, Desc1, Desc2
  <2> DEFINE e0 == desc[avail.ring[dev.last % QUEUE_NUM]]
             e1 == desc[e0.next]
             e2 == desc[e1.next]
  <2>2. e0 = Desc0
    BY <1>2, <1>3
  <2>3. e1 = Desc1
    BY <1>3, <2>1, <2>2
  <2>4. e2 = Desc2
    BY <1>3, <2>1, <2>3
  <2>5. dev' = IF /\ e0.addr = "op" /\ e0.NEXT
                  /\ e1.addr = "data" /\ e1.NEXT
                  /\ e2.addr = "status" /\ ~e2.NEXT /\ e2.WRITE
               THEN [dev EXCEPT !.phase = "move", !.op = ops[e0.of], !.len = e1.len,
                                !.in = e1.WRITE, !.stat = e2.of, !.moved = 0,
                                !.last = (dev.last + 1) % IdxModulus]
               ELSE [dev EXCEPT !.phase = "broken"]
    BY DEF DevFetch
  <2> HIDE DEF e0, e1, e2
  <2>6. /\ e0.addr = "op" /\ e0.NEXT /\ e0.of = idx[1]
        /\ e1.addr = "data" /\ e1.NEXT /\ e1.len = req.count /\ e1.WRITE = ~req.write
        /\ e2.addr = "status" /\ ~e2.NEXT /\ e2.WRITE /\ e2.of = idx[1]
    BY <2>1, <2>2, <2>3, <2>4
  <2> QED BY <2>5, <2>6
<1>5. dev \in [phase : {"idle", "move", "used", "broken"}, last : 0 .. (IdxModulus - 1),
               op : [write : BOOLEAN, sector : Sectors \cup {0}], len : 0 .. MaxCount,
               in : BOOLEAN, stat : Desc, moved : 0 .. MaxCount]
  BY DEF IInv, TypeOK
<1>6. (dev.last + 1) % IdxModulus \in 0 .. (IdxModulus - 1)
  BY <1>5, Wraps
<1>7. /\ dev'.phase = "move" /\ dev'.last = avail.idx /\ dev'.moved = 0
      /\ dev'.op = [write |-> req.write, sector |-> req.sector] /\ dev'.len = req.count
      /\ dev'.in = ~req.write /\ dev'.stat = idx[1]
  BY <1>2, <1>3, <1>4, <1>5
<1>8. /\ ops[idx[1]] \in [write : BOOLEAN, sector : Sectors \cup {0}] /\ idx[1] \in Desc
      /\ req.count \in 0 .. MaxCount /\ 0 \in 0 .. MaxCount /\ (~req.write) \in BOOLEAN
      /\ req.count \in Nat
  <2>1. ops[idx[1]] \in [write : BOOLEAN, sector : Sectors \cup {0}] /\ idx[1] \in Desc
    BY Records DEF IInv, TypeOK
  <2>2. req.count \in 1 .. MaxCount /\ req.count \in Nat
    BY Records DEF IInv
  <2>3. 0 \in 0 .. MaxCount /\ req.count \in 0 .. MaxCount
    BY <2>2, DiskAssumption
  <2>4. (~req.write) \in BOOLEAN
    OBVIOUS
  <2> QED BY <2>1, <2>2, <2>3, <2>4
<1>9. TypeOK'
  <2>1. dev' \in [phase : {"idle", "move", "used", "broken"}, last : 0 .. (IdxModulus - 1),
                  op : [write : BOOLEAN, sector : Sectors \cup {0}], len : 0 .. MaxCount,
                  in : BOOLEAN, stat : Desc, moved : 0 .. MaxCount]
    BY <1>4, <1>5, <1>6, <1>8
  <2> QED BY <1>1, <2>1 DEF IInv, TypeOK, driverVars
<1>10. Ownership' /\ Formatted'
  BY <1>1 DEF IInv, Ownership, Formatted, Chain, Desc0, Desc1, Desc2, driverVars
<1>11. Lockstep'
  BY <1>1, <1>2, <1>7 DEF IInv, Lockstep, Waiting, driverVars
<1>12. Moving'
  BY <1>1, <1>7, <1>8 DEF Moving, driverVars, Slots
<1>13. DeviceSeesWholeChain'
  BY <1>1, <1>2, <1>7 DEF DeviceSeesWholeChain, Waiting, driverVars
<1> QED BY <1>9, <1>10, <1>11, <1>12, <1>13 DEF IInv

\* A notification with nothing behind it changes nothing.
LEMMA DevKickKeeps == IInv /\ DevKick => IInv'
<1> SUFFICES ASSUME IInv, DevKick PROVE IInv'
  OBVIOUS
<1>1. UNCHANGED <<driverVars, buffer, disk, isr, dev>> /\ notified' = FALSE
  BY DEF DevKick
<1> USE <1>1 DEF IInv, driverVars
<1>2. TypeOK'
  BY ZenonT(60) DEF TypeOK
<1>3. Ownership' /\ Formatted'
  BY DEF Ownership, Formatted, Chain, Desc0, Desc1, Desc2
<1>4. Lockstep' /\ Moving' /\ DeviceSeesWholeChain'
  BY DEF Lockstep, Moving, DeviceSeesWholeChain, Answered, Agree
<1> QED BY <1>2, <1>3, <1>4

\* One more sector agrees, and those that agreed still do.
LEMMA DevMoveKeeps == IInv /\ DevMove => IInv'
<1> SUFFICES ASSUME IInv, DevMove PROVE IInv'
  OBVIOUS
<1>1. /\ dev.phase = "move" /\ dev.moved < dev.len /\ dev' = [dev EXCEPT !.moved = @ + 1]
      /\ UNCHANGED <<driverVars, notified, isr>>
  BY DEF DevMove
<1>2. /\ pc \in Waiting /\ dev.op = [write |-> req.write, sector |-> req.sector]
      /\ dev.len = req.count /\ dev.in = ~req.write
      /\ dev.stat = idx[1] /\ status[idx[1]] = "pending"
  BY <1>1 DEF IInv, DeviceSeesWholeChain, Waiting
<1>3. dev \in [phase : {"idle", "move", "used", "broken"}, last : 0 .. (IdxModulus - 1),
               op : [write : BOOLEAN, sector : Sectors \cup {0}], len : 0 .. MaxCount,
               in : BOOLEAN, stat : Desc, moved : 0 .. MaxCount]
  BY DEF IInv, TypeOK
<1>4. /\ req.sector \in Nat /\ req.count \in Nat /\ MaxCount \in Nat /\ req.count <= MaxCount
      /\ \A k \in 0 .. (req.count - 1) : req.sector + k \in Sectors /\ k \in Slots
  <2>1. req.sector \in Nat
    BY Records, DiskAssumption DEF IInv
  <2>2. MaxCount \in Nat
    BY DiskAssumption
  <2>3. req.count \in 1 .. MaxCount
    BY Records DEF IInv
  <2>4. req.count \in Nat /\ req.count <= MaxCount
    BY <2>2, <2>3
  <2> QED BY <2>1, <2>2, <2>4, Records DEF IInv
<1>5. dev.moved \in Nat /\ dev.moved + 1 <= req.count /\ dev.moved \in 0 .. (req.count - 1)
  BY <1>1, <1>2, <1>3, <1>4
<1>6. req.sector + dev.moved \in Sectors /\ dev.moved \in Slots
  BY <1>4, <1>5
<1>7. /\ dev'.phase = "move" /\ dev'.moved = dev.moved + 1
      /\ dev'.last = dev.last /\ dev'.op = dev.op /\ dev'.len = dev.len /\ dev'.in = dev.in
      /\ dev'.stat = dev.stat
      /\ dev' \in [phase : {"idle", "move", "used", "broken"}, last : 0 .. (IdxModulus - 1),
                   op : [write : BOOLEAN, sector : Sectors \cup {0}], len : 0 .. MaxCount,
                   in : BOOLEAN, stat : Desc, moved : 0 .. MaxCount]
  <2>1. dev.moved + 1 \in 0 .. MaxCount
    BY <1>4, <1>5
  <2> QED BY <1>1, <1>3, <2>1
<1>8. buffer \in [Slots -> Values] /\ disk \in [Sectors -> Values]
  BY DEF IInv, TypeOK
<1>9. /\ buffer' \in [Slots -> Values] /\ disk' \in [Sectors -> Values]
      /\ buffer'[dev.moved] = disk'[req.sector + dev.moved]
      /\ \A k \in Slots : k < dev.moved =>
           buffer'[k] = buffer[k] /\ disk'[req.sector + k] = disk[req.sector + k]
  <2>1. \A k \in Slots : k < dev.moved =>
          req.sector + k # req.sector + dev.moved /\ req.sector + k \in Sectors
    <3>1. ASSUME NEW k \in Slots, k < dev.moved
          PROVE  k \in 0 .. (req.count - 1) /\ req.sector + k # req.sector + dev.moved
      BY <1>4, <1>5, <3>1 DEF Slots
    <3> QED BY <1>4, <3>1
  <2>2. CASE req.write
    <3>1. disk' = [disk EXCEPT ![req.sector + dev.moved] = buffer[dev.moved]] /\ buffer' = buffer
      BY <1>2, <2>2 DEF DevMove
    <3> QED BY <1>6, <1>8, <2>1, <3>1
  <2>3. CASE ~req.write
    <3>1. buffer' = [buffer EXCEPT ![dev.moved] = disk[req.sector + dev.moved]] /\ disk' = disk
      BY <1>2, <2>3 DEF DevMove
    <3>2. \A k \in Slots : k < dev.moved => k # dev.moved
      BY <1>5 DEF Slots
    <3> QED BY <1>6, <1>8, <3>1, <3>2
  <2> QED BY <2>2, <2>3
<1>10. TypeOK'
  BY <1>1, <1>7, <1>9 DEF IInv, TypeOK, driverVars
<1>11. Ownership' /\ Formatted'
  BY <1>1 DEF IInv, Ownership, Formatted, Chain, Desc0, Desc1, Desc2, driverVars
<1>12. Lockstep'
  BY <1>1, <1>2, <1>7 DEF IInv, Lockstep, Waiting, driverVars
<1>13. Moving'
  <2>1. ASSUME NEW k \in Slots, k < dev.moved + 1
        PROVE  buffer'[k] = disk'[req.sector + k]
    <3>1. CASE k = dev.moved
      BY <1>9, <3>1
    <3>2. CASE k < dev.moved
      BY <1>1, <1>9, <3>2 DEF IInv, Moving
    <3> QED BY <1>5, <2>1, <3>1, <3>2 DEF Slots
  <2> QED BY <1>1, <1>2, <1>5, <1>7, <2>1 DEF Moving, driverVars
<1>14. DeviceSeesWholeChain'
  BY <1>1, <1>2, <1>7 DEF DeviceSeesWholeChain, Waiting, driverVars
<1> QED BY <1>10, <1>11, <1>12, <1>13, <1>14 DEF IInv

\* The status byte goes to the request the driver waits for, and says 0 only
\* when every sector has crossed.
LEMMA DevStatusKeeps ==
  ASSUME IInv, NEW s \in {"ok", "ioerr"}, DevStatus(s)
  PROVE  IInv'
<1>1. /\ dev.phase = "move"
      /\ s = "ok" => dev.moved = dev.len
      /\ s = "ioerr" => DeviceFails
      /\ status' = [status EXCEPT ![dev.stat] = s]
      /\ dev' = [IdleDev(dev.last) EXCEPT !.phase = "used"]
      /\ UNCHANGED <<free, desc, ops, avail, pc, idx, stores, nxt, req, buffer, notified, isr,
                     disk>>
  BY DEF DevStatus
<1>2. /\ pc \in Waiting /\ dev.len = req.count /\ dev.stat = idx[1]
      /\ dev.last = avail.idx
  BY <1>1 DEF IInv, DeviceSeesWholeChain, Waiting, Lockstep
<1>3. idx[1] \in Desc /\ 0 \in Desc /\ 0 \in 0 .. MaxCount
  BY Records, DiskAssumption DEF IInv
<1>4. status' \in [Desc -> {"pending", "ok", "ioerr"}] /\ status'[idx[1]] = s
  BY <1>1, <1>2, <1>3 DEF IInv, TypeOK
<1>5. dev'.phase = "used" /\ dev'.last = dev.last
  BY <1>1 DEF IdleDev
<1>6. TypeOK'
  <2>1. dev' = [phase |-> "used", last |-> dev.last, op |-> NoOp, len |-> 0, in |-> FALSE,
                stat |-> 0, moved |-> 0]
    BY <1>1 DEF IdleDev
  <2>2. dev' \in [phase : {"idle", "move", "used", "broken"}, last : 0 .. (IdxModulus - 1),
                  op : [write : BOOLEAN, sector : Sectors \cup {0}], len : 0 .. MaxCount,
                  in : BOOLEAN, stat : Desc, moved : 0 .. MaxCount]
    BY <1>3, <2>1 DEF IInv, TypeOK, NoOp
  <2> QED BY <1>1, <1>4, <2>2 DEF IInv, TypeOK
<1>7. Ownership'
  BY <1>1 DEF IInv, Ownership, Chain
<1>8. Formatted'
  BY <1>1, <1>2 DEF IInv, Formatted, Chain, Desc0, Desc1, Desc2, Waiting
<1>9. s = "ok" => Agree
  <2> SUFFICES ASSUME s = "ok", NEW k \in 0 .. (req.count - 1)
               PROVE  buffer[k] = disk[req.sector + k]
    BY DEF Agree
  <2>1. k \in Slots
    BY Records DEF IInv
  <2>2. req.count \in Nat
    BY Records DEF IInv
  <2>3. k < dev.moved
    BY <1>1, <1>2, <2>2
  <2> QED BY <1>1, <2>1, <2>3 DEF IInv, Moving
<1>10. Answered'
  BY <1>1, <1>4, <1>9 DEF Answered, Agree
<1>11. Lockstep'
  BY <1>1, <1>2, <1>5, <1>10 DEF IInv, Lockstep, Waiting
<1>12. Moving' /\ DeviceSeesWholeChain'
  BY <1>5 DEF Moving, DeviceSeesWholeChain
<1> QED BY <1>6, <1>7, <1>8, <1>11, <1>12 DEF IInv

\* The used entry and the interrupt may come at any later time.
LEMMA DevUsedKeeps == IInv /\ DevUsed => IInv'
<1> SUFFICES ASSUME IInv, DevUsed PROVE IInv'
  OBVIOUS
<1>1. /\ dev.phase = "used" /\ dev' = IdleDev(dev.last) /\ isr' = TRUE
      /\ UNCHANGED <<driverVars, buffer, notified, disk>>
  BY DEF DevUsed
<1>2. 0 \in Desc /\ 0 \in 0 .. MaxCount
  BY Records, DiskAssumption DEF IInv
<1>3. dev'.phase = "idle" /\ dev'.last = dev.last
  BY <1>1 DEF IdleDev
<1>4. TypeOK'
  <2>1. dev' \in [phase : {"idle", "move", "used", "broken"}, last : 0 .. (IdxModulus - 1),
                  op : [write : BOOLEAN, sector : Sectors \cup {0}], len : 0 .. MaxCount,
                  in : BOOLEAN, stat : Desc, moved : 0 .. MaxCount]
    BY <1>1, <1>2 DEF IInv, TypeOK, IdleDev, NoOp
  <2> QED BY <1>1, <2>1 DEF IInv, TypeOK, driverVars
<1>5. Ownership' /\ Formatted'
  BY <1>1 DEF IInv, Ownership, Formatted, Chain, Desc0, Desc1, Desc2, driverVars
<1>6. Lockstep'
  BY <1>1, <1>3 DEF IInv, Lockstep, Answered, Agree, driverVars
<1>7. Moving' /\ DeviceSeesWholeChain'
  BY <1>3 DEF Moving, DeviceSeesWholeChain
<1> QED BY <1>4, <1>5, <1>6, <1>7 DEF IInv

\* The invariant reads no other state.
LEMMA StutterKeeps == IInv /\ UNCHANGED vars => IInv'
<1> SUFFICES ASSUME IInv, UNCHANGED vars PROVE IInv'
  OBVIOUS
<1> USE DEF IInv, vars, driverVars
<1>1. TypeOK'
  BY DEF TypeOK
<1>2. Ownership' /\ Formatted'
  BY DEF Ownership, Formatted, Chain, Desc0, Desc1, Desc2
<1>3. Lockstep' /\ Moving' /\ DeviceSeesWholeChain'
  BY DEF Lockstep, Moving, DeviceSeesWholeChain, Answered, Agree
<1> QED BY <1>1, <1>2, <1>3

\* Every step keeps the invariant, one case per action.
LEMMA NextKeeps == IInv /\ [Next]_vars => IInv'
<1> SUFFICES ASSUME IInv, [Next]_vars PROVE IInv'
  OBVIOUS
<1>1. CASE Call
  BY <1>1, CallKeeps
<1>2. CASE Alloc3
  BY <1>2, Alloc3Keeps
<1>3. CASE \E s \in Stores : Store(s)
  BY <1>3, StoreKeeps
<1>4. CASE Publish
  BY <1>4, PublishKeeps
<1>5. CASE Notify
  BY <1>5, NotifyKeeps
<1>6. CASE Poll \/ Spin
  BY <1>6, PollKeeps
<1>7. CASE Ack
  BY <1>7, AckKeeps
<1>8. CASE FreeChain
  BY <1>8, FreeChainKeeps
<1>9. CASE Return
  BY <1>9, ReturnKeeps
<1>10. CASE DevFetch
  BY <1>10, DevFetchKeeps
<1>11. CASE DevKick
  BY <1>11, DevKickKeeps
<1>12. CASE DevMove
  BY <1>12, DevMoveKeeps
<1>13. CASE DevUsed
  BY <1>13, DevUsedKeeps
<1>14. CASE \E s \in {"ok", "ioerr"} : DevStatus(s)
  BY <1>14, DevStatusKeeps
<1>15. CASE UNCHANGED vars
  BY <1>15, StutterKeeps
<1> QED
  BY <1>1, <1>2, <1>3, <1>4, <1>5, <1>6, <1>7, <1>8, <1>9, <1>10, <1>11, <1>12, <1>13, <1>14,
     <1>15
  DEF Next, Driver, Device

\* Along every behaviour the inductive invariant holds.
LEMMA Invariant == Spec => []IInv
BY InitEstablishes, NextKeeps, PTL DEF Spec

----------------------------------------------------------------------------
(* The theorems *)

\* Every index the driver computes stays inside the table and the ring, and
\* avail->idx inside its width.
THEOREM VirtioTyped == Spec => []TypeOK
<1>1. IInv => TypeOK
  BY DEF IInv
<1> QED BY <1>1, Invariant, PTL

\* For every queue length: whatever the device works on is the whole chain of the
\* request the driver is in, though its stores reach memory in any order
\* (virtio-blk.c:242-286).
THEOREM VirtioWholeChain == Spec => []DeviceSeesWholeChain
<1>1. IInv => DeviceSeesWholeChain
  BY DEF IInv
<1> QED BY <1>1, Invariant, PTL

\* For every queue length: between two calls all descriptors are free and clear
\* (free_chain, virtio-blk.c:201-212).
THEOREM VirtioNoneLost == Spec => []NoDescriptorLost
<1>1. IInv => NoDescriptorLost
  BY DEF IInv, Ownership, NoDescriptorLost, Held
<1> QED BY <1>1, Invariant, PTL

\* free_desc never finds a descriptor that is free already, so the panics of
\* virtio-blk.c:189-192 are unreachable, and alloc3_desc always finds three.
NeverPanics ==
  /\ pc # "panic"
  /\ pc = "alloc" => \A d \in {0, 1, 2} : d \in Desc /\ free[d]

\* For every queue length the panics of free_desc are unreachable and the loop
\* around alloc3_desc (virtio-blk.c:235-240) is left at once.
THEOREM VirtioNeverPanics == Spec => []NeverPanics
<1>1. IInv => NeverPanics
  <2> SUFFICES ASSUME IInv PROVE NeverPanics
    OBVIOUS
  <2>1. pc # "panic"
    BY DEF IInv, Lockstep
  <2>2. 0 \in Desc /\ 1 \in Desc /\ 2 \in Desc
    BY QueueAssumption DEF Desc
  <2> QED BY <2>1, <2>2 DEF IInv, Ownership, Held, NeverPanics
<1> QED BY <1>1, Invariant, PTL

\* A call that comes back with status 0 has moved all its sectors; ReturnMeansDone
\* fails only because virtio_disk_rw drops the byte (virtio-blk.c:295).
ReturnMeansAnswered ==
  pc = "done" => (status[idx[1]] = "ok" /\ Agree) \/ (status[idx[1]] = "ioerr" /\ DeviceFails)

\* The status byte tells the truth when virtio_disk_rw returns, whatever the
\* number of sectors and however the device orders its work.
THEOREM VirtioReturnsAnswered == Spec => []ReturnMeansAnswered
<1>1. IInv => ReturnMeansAnswered
  BY DEF IInv, Lockstep, Answered, ReturnMeansAnswered
<1> QED BY <1>1, Invariant, PTL

----------------------------------------------------------------------------
(* Refinement: the first state and each step, seen through Phase. *)

\* An idle driver is an idle device, whatever the disk holds.
LEMMA InitRefines == Init => Abstract!Init
BY DEF Init, Abstract!Init, Phase, Requests, Abstract!Requests, Slots, Abstract!Slots

\* Everything but the call, a sector, the end of the poll and the return leaves
\* what the caller can see alone.
LEMMA HiddenRefines ==
  ASSUME UNCHANGED <<req, buffer, disk>>, Phase' = Phase,
         Phase = "done" => UNCHANGED <<status, idx>>
  PROVE  UNCHANGED Abstract!vars
BY DEF Abstract!vars

\* Every step of driver or device is a step of the abstract device or is hidden.
LEMMA NextRefines == IInv /\ [Next]_vars => [Abstract!Next]_(Abstract!vars)
<1> SUFFICES ASSUME IInv, [Next]_vars PROVE [Abstract!Next]_(Abstract!vars)
  OBVIOUS
<1> USE DEF IInv
<1>1. CASE Call
  <2>1. Abstract!Call
    BY <1>1 DEF Call, Abstract!Call, Phase, Requests, Abstract!Requests, Slots, Abstract!Slots
  <2> QED BY <2>1 DEF Abstract!Next
<1>2. CASE Alloc3 \/ (\E s \in Stores : Store(s)) \/ Publish \/ Notify
  <2>1. UNCHANGED <<req, buffer, disk>> /\ Phase' = Phase /\ Phase # "done"
    BY <1>2 DEF Alloc3, Store, Publish, Notify, Phase
  <2> QED BY <2>1, HiddenRefines
<1>3. CASE Poll \/ Spin
  <2>1. /\ pc \in {"poll", "spin"}
        /\ pc' = IF status[idx[1]] = "pending" THEN "spin" ELSE "ack"
        /\ UNCHANGED <<req, buffer, disk, status, idx>>
    BY <1>3 DEF Poll, Spin
  <2>2. CASE status[idx[1]] = "pending"
    <3>1. Phase' = Phase
      BY <2>1, <2>2 DEF Phase
    <3> QED BY <2>1, <3>1, HiddenRefines
  <2>3. CASE status[idx[1]] # "pending"
    <3>1. Answered
      BY <2>1, <2>3 DEF Lockstep, Waiting, DeviceSeesWholeChain
    <3>2. Phase = "busy" /\ Phase' = "done"
      BY <2>1, <2>3 DEF Phase
    <3>3. Abstract!Complete
      BY <2>1, <3>1, <3>2 DEF Abstract!Complete, Abstract!Agree, Answered, Agree
    <3> QED BY <3>3 DEF Abstract!Next
  <2> QED BY <2>2, <2>3
<1>4. CASE Ack \/ FreeChain
  <2>1. pc' # "panic"
    BY <1>4, AckKeeps, FreeChainKeeps DEF Lockstep
  <2>2. UNCHANGED <<req, buffer, disk, status, idx>> /\ Phase' = Phase
    BY <1>4, <2>1 DEF Ack, FreeChain, Phase
  <2> QED BY <2>2, HiddenRefines
<1>5. CASE Return
  <2>1. Abstract!Return
    BY <1>5 DEF Return, Abstract!Return, Phase
  <2> QED BY <2>1 DEF Abstract!Next
<1>6. CASE DevFetch \/ DevKick \/ DevUsed
  <2>1. UNCHANGED <<req, buffer, disk, status, idx, pc>>
    BY <1>6 DEF DevFetch, DevKick, DevUsed, driverVars
  <2>2. Phase' = Phase
    BY <2>1 DEF Phase
  <2> QED BY <2>1, <2>2, HiddenRefines
<1>7. CASE DevMove
  <2>1. /\ dev.phase = "move" /\ dev.moved < dev.len /\ UNCHANGED <<req, status, idx, pc>>
    BY <1>7 DEF DevMove, driverVars
  <2>2. /\ pc \in {"notify", "poll", "spin"} /\ dev.len = req.count
        /\ dev.op = [write |-> req.write, sector |-> req.sector]
    BY <2>1 DEF DeviceSeesWholeChain
  <2>3. Phase = "busy" /\ Phase' = "busy"
    BY <2>1, <2>2 DEF Phase
  <2>4. dev.moved \in 0 .. (req.count - 1)
    <3>1. dev.moved \in Nat /\ req.count \in Nat
      BY Records DEF TypeOK
    <3> QED BY <2>1, <2>2, <3>1
  <2>5. IF req.write
        THEN disk' = [disk EXCEPT ![req.sector + dev.moved] = buffer[dev.moved]]
             /\ UNCHANGED buffer
        ELSE buffer' = [buffer EXCEPT ![dev.moved] = disk[req.sector + dev.moved]]
             /\ UNCHANGED disk
    BY <1>7, <2>2 DEF DevMove
  <2>6. Abstract!Move
    BY <2>1, <2>3, <2>4, <2>5 DEF Abstract!Move
  <2> QED BY <2>6 DEF Abstract!Next
<1>8. CASE \E s \in {"ok", "ioerr"} : DevStatus(s)
  <2>1. UNCHANGED <<req, buffer, disk, pc>> /\ dev.phase = "move"
    BY <1>8 DEF DevStatus
  <2>2. Phase' = Phase /\ Phase # "done"
    BY <2>1 DEF Phase, DeviceSeesWholeChain
  <2> QED BY <2>1, <2>2, HiddenRefines
<1>9. CASE UNCHANGED vars
  <2>1. UNCHANGED <<req, buffer, disk, status, idx, pc>>
    BY <1>9 DEF vars, driverVars
  <2>2. Phase' = Phase
    BY <2>1 DEF Phase
  <2> QED BY <2>1, <2>2, HiddenRefines
<1> QED
  BY <1>1, <1>2, <1>3, <1>4, <1>5, <1>6, <1>7, <1>8, <1>9 DEF Next, Driver, Device

\* The driver and the device implement the abstract block device, whatever the
\* order of stores, the delay of the device and its failures: a call completes
\* only when its sectors have moved or the device has failed it.
THEOREM VirtioImplementsBlockDev == Spec => ImplementsBlockDev
BY InitRefines, Invariant, NextRefines, PTL DEF Spec, ImplementsBlockDev, Abstract!Spec
=============================================================================
