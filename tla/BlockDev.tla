------------------------------ MODULE BlockDev ------------------------------
(***************************************************************************)
(* What a caller of virtio_disk_rw relies on: one request at a time on an  *)
(* array of sectors; when the call comes back after a request that the     *)
(* device did not fail, the sectors it names and the caller's buffer agree,*)
(* and nothing else was touched.                                           *)
(***************************************************************************)
EXTENDS Integers

CONSTANTS
  Sectors, MaxCount, Values,
  Fails     \* the device may fail a request

VARIABLES
  phase,   \* "idle", "busy" or "done"
  req,     \* the arguments of the call: [write, sector, count]
  buffer,  \* the caller's buffer, one value per sector
  disk,    \* contents of the disk
  answer   \* of a request that is done: "ok" or "ioerr"; otherwise "none"

vars == <<phase, req, buffer, disk, answer>>

Slots == 0 .. (MaxCount - 1)

Requests ==
  {r \in [write : BOOLEAN, sector : Sectors, count : 1 .. MaxCount] :
     r.sector + (r.count - 1) \in Sectors}

Init ==
  /\ phase = "idle" /\ answer = "none"
  /\ req \in Requests
  /\ buffer \in [Slots -> Values]
  /\ disk \in [Sectors -> Values]

\* The caller puts what it likes in the buffer and calls.
Call ==
  /\ phase = "idle"
  /\ req' \in Requests
  /\ buffer' \in [Slots -> Values]
  /\ phase' = "busy"
  /\ UNCHANGED <<disk, answer>>

\* One sector crosses, in the direction of the request.
Move ==
  /\ phase = "busy"
  /\ \E k \in 0 .. (req.count - 1) :
       IF req.write
       THEN disk' = [disk EXCEPT ![req.sector + k] = buffer[k]] /\ UNCHANGED buffer
       ELSE buffer' = [buffer EXCEPT ![k] = disk[req.sector + k]] /\ UNCHANGED disk
  /\ UNCHANGED <<phase, req, answer>>

Agree == \A k \in 0 .. (req.count - 1) : buffer[k] = disk[req.sector + k]

\* The request is done, and either every sector has crossed or the device said
\* that it failed.
Complete ==
  /\ phase = "busy"
  /\ \/ Agree /\ answer' = "ok"
     \/ Fails /\ answer' = "ioerr"
  /\ phase' = "done"
  /\ UNCHANGED <<req, buffer, disk>>

Return ==
  /\ phase = "done"
  /\ phase' = "idle" /\ answer' = "none"
  /\ UNCHANGED <<req, buffer, disk>>

Next == Call \/ Move \/ Complete \/ Return

Spec == Init /\ [][Next]_vars
=============================================================================
