----------------------------- MODULE VirtioBlk -----------------------------
(***************************************************************************)
(* virtio_disk_rw of drivers/block/virtio-blk.c, and the device it talks   *)
(* to through the descriptor table and the avail ring. One hart, no        *)
(* interrupts: the driver polls the status byte, so the device runs beside *)
(* the driver and nothing else does.                                       *)
(*                                                                         *)
(* Plain stores before a fence reach memory in any order (the set stores); *)
(* the fence waits for all of them. The device is external: it is what the *)
(* driver's use of the queue assumes of a virtio block device.             *)
(***************************************************************************)
EXTENDS Integers, FiniteSets, FiniteSetsExt

CONSTANTS
  QUEUE_NUM,    \* descriptors, and entries of the avail ring
  IdxModulus,   \* avail->idx is a uint16_t: 2^16 in the code
  Sectors, MaxCount, Values,
  DeviceFails,  \* the device may end a request with a status other than 0
  Reloads       \* the compiler reloads the status byte on each turn of the poll

VARIABLES
  free, desc, ops, status,   \* disk.free, disk.desc, disk.ops, disk.info[].status
  avail,                     \* disk.avail: [idx, ring]
  pc,                        \* where virtio_disk_rw is
  idx,                       \* its local idx[3]
  stores,                    \* its stores that have not reached memory yet
  nxt,                       \* free_chain's local i
  req, buffer,               \* its arguments
  notified, isr,             \* QueueNotify written; InterruptStatus
  disk,                      \* the device's storage
  dev                        \* the device: [phase, last, op, len, in, stat, moved]

driverVars == <<free, desc, ops, status, avail, pc, idx, stores, nxt, req>>
vars == <<driverVars, buffer, notified, isr, disk, dev>>

Desc == 0 .. (QUEUE_NUM - 1)
Slots == 0 .. (MaxCount - 1)

\* The index wraps onto the ring only if the ring divides the counter's range.
ASSUME QueueAssumption ==
  /\ QUEUE_NUM \in Nat /\ QUEUE_NUM >= 3
  /\ IdxModulus \in Nat /\ IdxModulus > 1 /\ IdxModulus % QUEUE_NUM = 0

\* The sectors of a disk are consecutive.
ASSUME DiskAssumption ==
  /\ Sectors \subseteq Nat /\ MaxCount \in Nat /\ MaxCount >= 1
  /\ \A a, b \in Sectors : a .. b \subseteq Sectors
  /\ Sectors # {} /\ Values # {}
  /\ DeviceFails \in BOOLEAN /\ Reloads \in BOOLEAN

Requests ==
  {r \in [write : BOOLEAN, sector : Sectors, count : 1 .. MaxCount] :
     r.sector + (r.count - 1) \in Sectors}

\* A descriptor: what addr points at (and the index in that array), len, and
\* the two flag bits. Zero is what free_desc leaves.
Zero == [addr |-> "null", of |-> 0, len |-> 0, WRITE |-> FALSE, NEXT |-> FALSE, next |-> 0]

NoOp == [write |-> FALSE, sector |-> 0]

\* A device that works on nothing.
IdleDev(last) ==
  [phase |-> "idle", last |-> last, op |-> NoOp, len |-> 0, in |-> FALSE, stat |-> 0, moved |-> 0]

Stores == {"op", "desc0", "desc1", "desc2", "status", "ring"}

----------------------------------------------------------------------------
(* After virtio_block_probe: the queue is ready and all descriptors free.   *)
(* The avail page is taken to be clear; see AvailPageClear of FrameAlloc.   *)

Init ==
  /\ free = [d \in Desc |-> TRUE]
  /\ desc = [d \in Desc |-> Zero]
  /\ ops = [d \in Desc |-> NoOp]
  /\ status = [d \in Desc |-> "ok"]
  /\ avail = [idx |-> 0, ring |-> [d \in Desc |-> 0]]
  /\ pc = "idle"
  /\ idx = <<0, 0, 0>>
  /\ stores = {}
  /\ nxt = 0
  /\ req \in Requests
  /\ buffer \in [Slots -> Values]
  /\ notified = FALSE /\ isr = FALSE
  /\ disk \in [Sectors -> Values]
  /\ dev = IdleDev(0)

\* A caller, file_dev_bread or the probe, enters with its own buffer.
Call ==
  /\ pc = "idle"
  /\ req' \in Requests
  /\ buffer' \in [Slots -> Values]
  /\ pc' = "alloc"
  /\ UNCHANGED <<free, desc, ops, status, avail, idx, stores, nxt, notified, isr, disk, dev>>

\* alloc_desc: the first free descriptor.
FirstFree(f) == Min({d \in Desc : f[d]})

\* alloc3_desc. With fewer than three free it frees what it took and the loop
\* of virtio_disk_rw turns for ever: the model is then deadlocked.
Alloc3 ==
  LET f0 == free
      d0 == FirstFree(f0)
      f1 == [f0 EXCEPT ![d0] = FALSE]
      d1 == FirstFree(f1)
      f2 == [f1 EXCEPT ![d1] = FALSE]
      d2 == FirstFree(f2)
  IN  /\ pc = "alloc"
      /\ Cardinality({d \in Desc : free[d]}) >= 3
      /\ free' = [f2 EXCEPT ![d2] = FALSE]
      /\ idx' = <<d0, d1, d2>>
      /\ stores' = Stores
      /\ pc' = "fill"
      /\ UNCHANGED <<desc, ops, status, avail, nxt, req, buffer, notified, isr, disk, dev>>

\* The three descriptors of virtio_disk_rw.
Desc0 == [addr |-> "op", of |-> idx[1], len |-> 1, WRITE |-> FALSE, NEXT |-> TRUE, next |-> idx[2]]

Desc1 == [addr |-> "data", of |-> 0, len |-> req.count, WRITE |-> ~req.write, NEXT |-> TRUE,
          next |-> idx[3]]
Desc2 == [addr |-> "status", of |-> idx[1], len |-> 1, WRITE |-> TRUE, NEXT |-> FALSE, next |-> 0]

\* One store of the formatting reaches memory.
Store(s) ==
  /\ pc = "fill" /\ s \in stores
  /\ stores' = stores \ {s}
  /\ ops' = IF s = "op"
            THEN [ops EXCEPT ![idx[1]] = [write |-> req.write, sector |-> req.sector]]
            ELSE ops
  /\ desc' = CASE s = "desc0" -> [desc EXCEPT ![idx[1]] = Desc0]
               [] s = "desc1" -> [desc EXCEPT ![idx[2]] = Desc1]
               [] s = "desc2" -> [desc EXCEPT ![idx[3]] = Desc2]
               [] OTHER -> desc
  /\ status' = IF s = "status" THEN [status EXCEPT ![idx[1]] = "pending"] ELSE status
  /\ avail' = IF s = "ring"
              THEN [avail EXCEPT !.ring[avail.idx % QUEUE_NUM] = idx[1]]
              ELSE avail
  /\ UNCHANGED <<free, pc, idx, nxt, req, buffer, notified, isr, disk, dev>>

\* A mutant: no fence between the entry and the index.
PublishNoFence ==
  /\ pc = "fill" /\ "ring" \notin stores
  /\ avail' = [avail EXCEPT !.idx = (avail.idx + 1) % IdxModulus]
  /\ pc' = "notify"
  /\ UNCHANGED <<free, desc, ops, status, idx, stores, nxt, req, buffer, notified, isr, disk, dev>>

\* __sync_synchronize(); avail->idx += 1; __sync_synchronize().
Publish ==
  /\ pc = "fill" /\ stores = {}
  /\ avail' = [avail EXCEPT !.idx = (avail.idx + 1) % IdxModulus]
  /\ pc' = "notify"
  /\ UNCHANGED <<free, desc, ops, status, idx, stores, nxt, req, buffer, notified, isr, disk, dev>>

\* A mutant: the write to QueueNotify is missing.
NotifyDropped ==
  /\ pc = "notify"
  /\ pc' = "poll"
  /\ UNCHANGED <<free, desc, ops, status, avail, idx, stores, nxt, req, buffer, notified, isr, disk, dev>>

\* QueueNotify = 0
Notify ==
  /\ pc = "notify"
  /\ notified' = TRUE
  /\ pc' = "poll"
  /\ UNCHANGED <<free, desc, ops, status, avail, idx, stores, nxt, req, buffer, isr, disk, dev>>

\* A mutant: the poll does not wait.
PollAny ==
  /\ pc = "poll"
  /\ pc' = "ack"
  /\ UNCHANGED <<free, desc, ops, status, avail, idx, stores, nxt, req, buffer, notified, isr, disk, dev>>

\* The first test of the poll loop.
Poll ==
  /\ pc = "poll"
  /\ pc' = IF status[idx[1]] = "pending" THEN "spin" ELSE "ack"
  /\ UNCHANGED <<free, desc, ops, status, avail, idx, stores, nxt, req, buffer, notified, isr, disk, dev>>

\* A later turn. The byte is not volatile and nop() does not clobber memory: a
\* compiler may keep testing the value of the first load.
Spin ==
  /\ pc = "spin" /\ Reloads
  /\ status[idx[1]] # "pending"
  /\ pc' = "ack"
  /\ UNCHANGED <<free, desc, ops, status, avail, idx, stores, nxt, req, buffer, notified, isr, disk, dev>>

\* InterruptACK = 1, and the bookkeeping of info[], which nothing reads.
Ack ==
  /\ pc = "ack"
  /\ isr' = FALSE
  /\ nxt' = idx[1]
  /\ pc' = "free"
  /\ UNCHANGED <<free, desc, ops, status, avail, idx, stores, req, buffer, notified, disk, dev>>

\* A mutant: free_desc clears the descriptor before free_chain looks at it.
FreeChainAfterClear ==
  /\ pc = "free"
  /\ desc' = [desc EXCEPT ![nxt] = Zero]
  /\ free' = [free EXCEPT ![nxt] = TRUE]
  /\ nxt' = 0
  /\ pc' = "done"
  /\ UNCHANGED <<ops, status, avail, idx, stores, req, buffer, notified, isr, disk, dev>>

\* One turn of free_chain: the link is read, then free_desc, which panics on a
\* descriptor that is already free.
FreeChain ==
  /\ pc = "free"
  /\ IF free[nxt]
     THEN /\ pc' = "panic"
          /\ UNCHANGED <<desc, free, nxt>>
     ELSE /\ desc' = [desc EXCEPT ![nxt] = Zero]
          /\ free' = [free EXCEPT ![nxt] = TRUE]
          /\ nxt' = desc[nxt].next
          /\ pc' = IF desc[nxt].NEXT THEN "free" ELSE "done"
  /\ UNCHANGED <<ops, status, avail, idx, stores, req, buffer, notified, isr, disk, dev>>

\* virtio_disk_rw returns nothing; file_dev_bread returns EOK.
Return ==
  /\ pc = "done"
  /\ pc' = "idle"
  /\ UNCHANGED <<free, desc, ops, status, avail, idx, stores, nxt, req, buffer, notified, isr, disk, dev>>

Driver ==
  \/ Alloc3 \/ (\E s \in Stores : Store(s)) \/ Publish \/ Notify
  \/ Poll \/ Spin \/ Ack \/ FreeChain \/ Return

----------------------------------------------------------------------------
(* The device (external) *)

\* The device takes the next chain, and reads all of it, at any time after the
\* index moved; it must do so once it is notified.
DevFetch ==
  LET head == avail.ring[dev.last % QUEUE_NUM]
      d0 == desc[head]
      d1 == desc[d0.next]
      d2 == desc[d1.next]
      whole == /\ d0.addr = "op" /\ d0.NEXT
               /\ d1.addr = "data" /\ d1.NEXT
               /\ d2.addr = "status" /\ ~d2.NEXT /\ d2.WRITE
  IN  /\ dev.phase = "idle" /\ dev.last # avail.idx
      /\ dev' = IF whole
                THEN [dev EXCEPT !.phase = "move", !.op = ops[d0.of], !.len = d1.len,
                                 !.in = d1.WRITE, !.stat = d2.of, !.moved = 0,
                                 !.last = (dev.last + 1) % IdxModulus]
                ELSE [dev EXCEPT !.phase = "broken"]
      /\ UNCHANGED <<driverVars, buffer, notified, isr, disk>>

\* A notification with nothing behind it.
DevKick ==
  /\ notified /\ dev.last = avail.idx
  /\ notified' = FALSE
  /\ UNCHANGED <<driverVars, buffer, isr, disk, dev>>

\* One sector crosses.
DevMove ==
  LET at == dev.op.sector + dev.moved
  IN  /\ dev.phase = "move" /\ dev.moved < dev.len
      /\ IF dev.op.write
         THEN disk' = [disk EXCEPT ![at] = buffer[dev.moved]] /\ UNCHANGED buffer
         ELSE buffer' = [buffer EXCEPT ![dev.moved] = disk[at]] /\ UNCHANGED disk
      /\ dev' = [dev EXCEPT !.moved = @ + 1]
      /\ UNCHANGED <<driverVars, notified, isr>>

\* The status byte: 0 after the last sector, an error at any time.
DevStatus(s) ==
  /\ dev.phase = "move"
  /\ IF s = "ok" THEN dev.moved = dev.len ELSE DeviceFails
  /\ status' = [status EXCEPT ![dev.stat] = s]
  /\ dev' = [IdleDev(dev.last) EXCEPT !.phase = "used"]
  /\ UNCHANGED <<free, desc, ops, avail, pc, idx, stores, nxt, req, buffer, notified, isr, disk>>

\* The used ring entry and the interrupt, which the driver does not look at:
\* both may come after the driver has returned and called again.
DevUsed ==
  /\ dev.phase = "used"
  /\ dev' = IdleDev(dev.last)
  /\ isr' = TRUE
  /\ UNCHANGED <<driverVars, buffer, notified, disk>>

Device == DevFetch \/ DevKick \/ DevMove \/ DevUsed \/ \E s \in {"ok", "ioerr"} : DevStatus(s)

Next == Call \/ Driver \/ Device

\* The hart does not stop inside a call, and a notified device makes progress.
\* The device is not obliged to look at the ring unless it was notified.
Fairness ==
  /\ WF_vars(Driver)
  /\ WF_vars(notified /\ DevFetch)
  /\ WF_vars(DevMove) /\ WF_vars(DevUsed)
  /\ WF_vars(\E s \in {"ok", "ioerr"} : DevStatus(s))

Spec == Init /\ [][Next]_vars

FairSpec == Spec /\ Fairness

----------------------------------------------------------------------------
(* Properties *)

\* The types of the state: every index the driver computes stays inside the
\* table, and avail->idx inside its 16 bits.
TypeOK ==
  /\ free \in [Desc -> BOOLEAN]
  /\ desc \in [Desc -> [addr : {"null", "op", "data", "status"}, of : Desc, len : 0 .. MaxCount,
                        WRITE : BOOLEAN, NEXT : BOOLEAN, next : Desc]]
  /\ ops \in [Desc -> [write : BOOLEAN, sector : Sectors \cup {0}]]
  /\ status \in [Desc -> {"pending", "ok", "ioerr"}]
  /\ avail \in [idx : 0 .. (IdxModulus - 1), ring : [Desc -> Desc]]
  /\ pc \in {"idle", "alloc", "fill", "notify", "poll", "spin", "ack", "free", "done", "panic"}
  /\ idx \in Desc \X Desc \X Desc
  /\ stores \subseteq Stores
  /\ nxt \in Desc
  /\ req \in Requests
  /\ buffer \in [Slots -> Values]
  /\ notified \in BOOLEAN /\ isr \in BOOLEAN
  /\ disk \in [Sectors -> Values]
  /\ dev \in [phase : {"idle", "move", "used", "broken"}, last : 0 .. (IdxModulus - 1),
              op : [write : BOOLEAN, sector : Sectors \cup {0}], len : 0 .. MaxCount,
              in : BOOLEAN, stat : Desc, moved : 0 .. MaxCount]

\* The device never sees a chain that is only partly written: whatever it works
\* on is the request the driver is in, with the driver's status byte, in spite
\* of stores that reach memory in any order (virtio-blk.c:242-286).
DeviceSeesWholeChain ==
  /\ dev.phase # "broken"
  /\ dev.phase = "move" =>
       /\ pc \in {"notify", "poll", "spin"}
       /\ dev.op = [write |-> req.write, sector |-> req.sector]
       /\ dev.len = req.count /\ dev.in = ~req.write
       /\ dev.stat = idx[1] /\ status[idx[1]] = "pending"

\* Between calls all descriptors are free and clear: no call loses one, however
\* late the device's used entry and interrupt are.
NoDescriptorLost ==
  pc \in {"idle", "alloc"} => \A d \in Desc : free[d] /\ desc[d] = Zero

Agree == \A k \in 0 .. (req.count - 1) : buffer[k] = disk[req.sector + k]

\* Not a property of this code: when a call comes back the buffer and the sectors
\* agree. "device writes 0 on success" (virtio-blk.c:268), and virtio_disk_rw has
\* no way but that byte to tell its caller of a failure.
ReturnMeansDone == pc = "done" => Agree

\* Every call comes back (virtio-blk.c:290, "Wait for virtio_disk_intr() to say
\* request has finished").
CallReturns == pc = "alloc" ~> pc = "idle"

\* The driver and the device together implement the abstract block device.
Phase ==
  CASE pc = "idle" -> "idle"
    [] pc \in {"ack", "free", "done"} -> "done"
    [] OTHER -> "busy"

Abstract ==
  INSTANCE BlockDev WITH
    phase <- Phase, Fails <- DeviceFails,
    answer <- IF Phase = "done" THEN status[idx[1]] ELSE "none"

\* Whatever the interleaving, a caller sees one request at a time whose sectors
\* move between disk and buffer before the call completes, unless the device
\* fails it, and nothing else.
ImplementsBlockDev == Abstract!Spec
=============================================================================
