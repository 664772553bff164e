---------------------------- MODULE MCVirtioBlk ----------------------------
(***************************************************************************)
(* Two sectors, transfers of up to two sectors, a queue of three entries   *)
(* with an index that wraps after six requests.                            *)
(***************************************************************************)
EXTENDS VirtioBlk
=============================================================================
