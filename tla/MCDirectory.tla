---------------------------- MODULE MCDirectory ----------------------------
(* Names of several lengths, two of them with the same hash and otherwise   *)
(* alike, in blocks that hold two names.                                    *)
EXTENDS Directory

CONSTANTS twinB, twinC   \* two names
Twins == Permutations({twinB, twinC})
MCNames == {Dot, DotDot, "a", twinB, twinC, "d"}
MCNameLen == [n \in MCNames |-> CASE n = Dot -> 1 [] n = DotDot -> 2 [] n = "d" -> 6 [] OTHER -> 3]
MCHash == [n \in MCNames |-> CASE n = "a" -> 2 [] n \in {twinB, twinC} -> 4 [] n = "d" -> 6 [] OTHER -> 0]

\* What lies outside the entries of a block is read again only by a stream that stands
\* there: states that differ in nothing else have the same behaviours.
From(blk, start) ==
  LET on[o \in 0 .. BlockSize] ==
        IF o = BlockSize \/ ~IsHeader(blk[o]) \/ o + blk[o].rec > BlockSize THEN {o}
        ELSE {o} \union on[o + blk[o].rec]
  IN  on[start]
Parked(k) == stream.at # Term /\ stream.at \div BlockSize + 1 = k
Shown(k) ==
  LET blk == dir[k]
      entries == ToSet(Chain(blk))
      walk == IF Parked(k) THEN From(blk, stream.at % BlockSize) ELSE {}
      name(x) == x .. x + CoreLen + NameLen[blk[x].name] - 1
      kept == entries \union walk \union UNION {name(x) : x \in {x \in entries : blk[x].live}}
  IN  [o \in Offsets |-> IF o \in kept THEN blk[o] ELSE Bytes]
View == <<[k \in DOMAIN dir |-> Shown(k)], dx, tail, names, stream, flawed>>
=============================================================================
