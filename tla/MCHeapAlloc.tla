---------------------------- MODULE MCHeapAlloc ----------------------------
(***************************************************************************)
(* The heap allocator on a heap of about one kilobyte, with the real unit  *)
(* of 32 bytes and header of 16. HeapBase is not a multiple of the unit.   *)
(***************************************************************************)
EXTENDS HeapAlloc
=============================================================================
