-------------------------------- MODULE Data --------------------------------
(***************************************************************************)
(* Two operations on data the models use where something is proved: they   *)
(* are recursive functions, whose facts DataLemmas proves.                 *)
(***************************************************************************)
EXTENDS Integers, Sequences

\* What is left of each prefix of s when the members of S are removed.
Filtered(s, S) ==
  LET w[i \in 0 .. Len(s)] ==
        IF i = 0 THEN <<>>
        ELSE IF s[i] \in S THEN w[i - 1]
        ELSE Append(w[i - 1], s[i])
  IN  w

\* The sequence s with the members of S removed.
Without(s, S) == Filtered(s, S)[Len(s)]

\* The sums of the first values of h, a function on 0 .. n - 1.
Sums(h, n) ==
  LET s[i \in 0 .. n] == IF i = 0 THEN 0 ELSE s[i - 1] + h[i - 1]
  IN  s

SumTo(h, n) == Sums(h, n)[n]
=============================================================================
