------------------------------ MODULE MCAlloc ------------------------------
(* Two groups of twelve blocks in words of six and bytes of three bits,    *)
(* with blocks of 1024 bytes: the last group has seven blocks and seems to *)
(* have eight, and is set up at its first use.                             *)
EXTENDS Alloc, TLC

MCMeta == 0 :> {0, 1, 2, 6, 7, 8, 9} @@ 1 :> {0, 1, 2, 6}
=============================================================================
