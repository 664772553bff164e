---------------------------- MODULE MCNamespace ----------------------------
(* Four inodes and two names: paths of up to three components, so that     *)
(* directories nest and files have names in two directories.               *)
EXTENDS Namespace

MCPaths == {<<x>> : x \in Names} \union (Names \X Names)
MCDeepPaths == MCPaths \union {<<"a", "a", "a">>, <<"a", "a", "b">>}
=============================================================================
