----------------------------- MODULE DataLemmas -----------------------------
(***************************************************************************)
(* Facts about numbers, sets and sequences that the proofs of several      *)
(* components share.                                                       *)
(***************************************************************************)
EXTENDS Data, FiniteSetsExt, SequencesExt, WellFoundedInduction, TLAPS

\* Every non-empty set of natural numbers has a least element.
LEMMA MinNat ==
  ASSUME NEW S, S \subseteq Nat, S # {}
  PROVE  Min(S) \in S /\ \A y \in S : Min(S) <= y
<1> DEFINE R == OpToRel(<, Nat)
<1>1. IsWellFoundedOn(R, Nat)
  BY NatLessThanWellFounded, Zenon
<1>2. R = {ss \in Nat \X Nat : ss[1] < ss[2]}
  BY Zenon DEF OpToRel
<1> HIDE DEF R
<1>3. PICK x \in S : \A y \in S : ~ (<<y, x>> \in R)
  BY <1>1, WFMin, Zenon
<1>4. ASSUME NEW y \in S PROVE x <= y
  <2>1. x \in Nat /\ y \in Nat
    OBVIOUS
  <2>2. ~(y < x)
    <3> SUFFICES ASSUME y < x PROVE FALSE
      OBVIOUS
    <3>1. <<y, x>> \in R
      BY <1>2, <2>1
    <3> QED BY <1>3, <3>1
  <2> QED BY <2>1, <2>2
<1> QED BY <1>4 DEF Min

\* Quotient and remainder.
LEMMA DivMod ==
  ASSUME NEW n \in Nat \ {0}, NEW a \in Nat
  PROVE  /\ a \div n \in Nat /\ a % n \in 0 .. n - 1
         /\ a = (a \div n) * n + (a % n)
OBVIOUS

\* Multiplication is monotone.
LEMMA TimesMono ==
  ASSUME NEW n \in Nat, NEW a \in Int, NEW b \in Int, a <= b
  PROVE  a * n <= b * n /\ a * n \in Int /\ b * n \in Int
OBVIOUS

\* There are no others.
LEMMA DivModUnique ==
  ASSUME NEW n \in Nat \ {0}, NEW q \in Nat, NEW r \in 0 .. n - 1
  PROVE  (q * n + r) \div n = q /\ (q * n + r) % n = r
<1> DEFINE a == q * n + r
           p == a \div n
           s == a % n
<1>1. a \in Nat
  OBVIOUS
<1>2. p \in Nat /\ s \in 0 .. n - 1 /\ a = p * n + s
  BY <1>1, DivMod
<1>3. q * n + r = p * n + s
  BY <1>2
<1> HIDE DEF p, s, a
<1>4. CASE p < q
  <2>1. (p + 1) * n <= q * n
    BY <1>2, <1>4, TimesMono
  <2>2. (p + 1) * n = p * n + n /\ p * n \in Int /\ q * n \in Int
    BY <1>2
  <2> QED BY <1>2, <1>3, <2>1, <2>2
<1>5. CASE q < p
  <2>1. (q + 1) * n <= p * n
    BY <1>2, <1>5, TimesMono
  <2>2. (q + 1) * n = q * n + n /\ p * n \in Int /\ q * n \in Int
    BY <1>2
  <2> QED BY <1>2, <1>3, <2>1, <2>2
<1>6. CASE q = p
  <2>1. s = r
    BY <1>2, <1>3, <1>6
  <2> QED BY <1>6, <2>1 DEF p, s, a
<1> QED BY <1>2, <1>4, <1>5, <1>6

----------------------------------------------------------------------------
(* Sequences with members removed *)

\* Filtered is the function its recursion describes.
LEMMA FilteredDef ==
  ASSUME NEW T, NEW s \in Seq(T), NEW S
  PROVE  LET w == Filtered(s, S)
             n == Len(s)
         IN  /\ w[0] = <<>>
             /\ \A i \in 1 .. n : w[i] = IF s[i] \in S THEN w[i - 1] ELSE Append(w[i - 1], s[i])
<1> DEFINE n == Len(s)
           Step(g, i) == IF i = 0 THEN <<>>
                         ELSE IF s[i] \in S THEN g[i - 1] ELSE Append(g[i - 1], s[i])
           Good(g, k) == \A i \in 0 .. k : g[i] = Step(g, i)
           Bad == {k \in 0 .. n : ~ \E g \in [0 .. k -> Seq(T)] : Good(g, k)}
<1>1. n \in Nat
  OBVIOUS
<1>2. Bad = {}
  <2> SUFFICES ASSUME Bad # {} PROVE FALSE
    OBVIOUS
  <2>1. Bad \subseteq Nat
    BY <1>1
  <2> DEFINE k == Min(Bad)
  <2> HIDE DEF Bad
  <2>2. k \in Bad /\ \A y \in Bad : k <= y
    BY <2>1, MinNat
  <2> HIDE DEF k
  <2>3. k \in 0 .. n /\ ~ \E g \in [0 .. k -> Seq(T)] : Good(g, k)
    BY <2>2 DEF Bad
  <2>4. CASE k = 0
    <3> DEFINE g == [i \in 0 .. 0 |-> <<>>]
    <3>1. g \in [0 .. 0 -> Seq(T)] /\ Good(g, 0)
      OBVIOUS
    <3> QED BY <2>3, <2>4, <3>1
  <2>5. CASE k > 0
    <3>1. k - 1 \in 0 .. n /\ k - 1 \notin Bad
      BY <1>1, <2>1, <2>2, <2>3, <2>5
    <3>2. PICK g \in [0 .. k - 1 -> Seq(T)] : Good(g, k - 1)
      BY <3>1 DEF Bad
    <3> DEFINE h == [i \in 0 .. k |-> IF i < k THEN g[i] ELSE Step(g, k)]
    <3>3. k \in 1 .. n /\ s[k] \in T /\ g[k - 1] \in Seq(T)
      BY <1>1, <2>3, <2>5, <3>2
    <3>4. Step(g, k) \in Seq(T)
      BY <3>3
    <3>5. h \in [0 .. k -> Seq(T)]
      BY <3>2, <3>4, <3>3 
    <3>6. \A i \in 0 .. k : h[i] = Step(h, i)
      <4> TAKE i \in 0 .. k
      <4>1. CASE i = k
        <5>1. h[k] = Step(g, k) /\ h[k - 1] = g[k - 1]
          BY <3>3
        <5> QED BY <4>1, <5>1, <3>3
      <4>2. CASE i < k
        <5>1. h[i] = g[i] /\ i \in 0 .. k - 1 
          BY <4>2, <3>3
        <5>2. g[i] = Step(g, i)
          BY <3>2, <5>1
        <5>3. i # 0 => h[i - 1] = g[i - 1]
          BY <4>2, <3>3
        <5> QED BY <5>1, <5>2, <5>3
      <4> QED BY <4>1, <4>2, <3>3
    <3> QED BY <2>3, <3>5, <3>6
  <2> QED BY <2>3, <2>4, <2>5, <1>1
<1>3. PICK g \in [0 .. n -> Seq(T)] : Good(g, n)
  <2>1. n \in 0 .. n
    BY <1>1
  <2>2. n \notin Bad
    BY <1>2, Zenon
  <2> QED BY <2>1, <2>2
<1>4. g = [i \in 0 .. n |-> Step(g, i)]
  BY <1>3
<1> DEFINE w == Filtered(s, S)
<1>5. w = CHOOSE f : f = [i \in 0 .. n |-> Step(f, i)]
  BY Zenon DEF Filtered
<1>6. w = [i \in 0 .. n |-> Step(w, i)]
  BY <1>4, <1>5, Zenon
<1> HIDE DEF w
<1>7. \A i \in 0 .. n : w[i] = Step(w, i)
  BY <1>6, Zenon
<1>8. w[0] = <<>>
  BY <1>1, <1>7
<1>9. \A i \in 1 .. n : w[i] = IF s[i] \in S THEN w[i - 1] ELSE Append(w[i - 1], s[i])
  <2> TAKE i \in 1 .. n
  <2>1. i \in 0 .. n /\ i # 0
    BY <1>1
  <2> QED BY <1>7, <2>1
<1> QED BY <1>8, <1>9 DEF w

\* What is left of a prefix: by induction, as the absence of a least exception.
LEMMA FilteredUpTo ==
  ASSUME NEW T, NEW s \in Seq(T), NEW S, NEW k \in 0 .. Len(s)
  PROVE  LET w == Filtered(s, S)
         IN  /\ w[k] \in Seq(T) /\ Len(w[k]) <= k
             /\ \A j \in 1 .. Len(w[k]) : \E i \in 1 .. k : s[i] = w[k][j] /\ s[i] \notin S
             /\ \A i \in 1 .. k : s[i] \in S \/ \E j \in 1 .. Len(w[k]) : w[k][j] = s[i]
             /\ (\E i \in 1 .. k : s[i] \in S) => Len(w[k]) < k
             /\ IsInjective(s) => IsInjective(w[k])
<1> DEFINE w == Filtered(s, S)
           n == Len(s)
           Q(m) == /\ w[m] \in Seq(T) /\ Len(w[m]) <= m
                   /\ \A j \in 1 .. Len(w[m]) : \E i \in 1 .. m : s[i] = w[m][j] /\ s[i] \notin S
                   /\ \A i \in 1 .. m : s[i] \in S \/ \E j \in 1 .. Len(w[m]) : w[m][j] = s[i]
                   /\ (\E i \in 1 .. m : s[i] \in S) => Len(w[m]) < m
                   /\ IsInjective(s) => IsInjective(w[m])
           Bad == {m \in 0 .. n : ~Q(m)}
<1>1. /\ n \in Nat /\ w[0] = <<>>
      /\ \A i \in 1 .. n : w[i] = IF s[i] \in S THEN w[i - 1] ELSE Append(w[i - 1], s[i])
  BY FilteredDef
<1>2. \A i \in 1 .. n : s[i] \in T
  OBVIOUS
<1> HIDE DEF w
<1>3. Q(0)
  BY <1>1 DEF IsInjective
<1>4. ASSUME NEW m \in 1 .. n, Q(m - 1) PROVE Q(m)
  <2>1. m \in Nat /\ m - 1 \in Nat /\ s[m] \in T /\ m - 1 < m /\ 1 .. m = (1 .. m - 1) \cup {m}
    BY <1>1, <1>2
  <2> DEFINE u == w[m - 1]
             v == w[m]
  <2>2. /\ u \in Seq(T) /\ Len(u) <= m - 1
        /\ \A j \in 1 .. Len(u) : \E i \in 1 .. m - 1 : s[i] = u[j] /\ s[i] \notin S
        /\ \A i \in 1 .. m - 1 : s[i] \in S \/ \E j \in 1 .. Len(u) : u[j] = s[i]
        /\ (\E i \in 1 .. m - 1 : s[i] \in S) => Len(u) < m - 1
        /\ IsInjective(s) => IsInjective(u)
    BY <1>4, Zenon
  <2>len. Len(u) \in Nat
    BY <2>2
  <2>3. v = IF s[m] \in S THEN u ELSE Append(u, s[m])
    BY <1>1
  <2> SUFFICES /\ v \in Seq(T) /\ Len(v) <= m
               /\ \A j \in 1 .. Len(v) : \E i \in 1 .. m : s[i] = v[j] /\ s[i] \notin S
               /\ \A i \in 1 .. m : s[i] \in S \/ \E j \in 1 .. Len(v) : v[j] = s[i]
               /\ (\E i \in 1 .. m : s[i] \in S) => Len(v) < m
               /\ IsInjective(s) => IsInjective(v)
    OBVIOUS
  <2> HIDE DEF u, v, Q
  <2>4. CASE s[m] \in S
    <3>1. v = u
      BY <2>3, <2>4
    <3> QED BY <2>1, <2>2, <2>len, <2>4, <3>1
  <2>5. CASE s[m] \notin S
    <3>1. /\ v \in Seq(T) /\ Len(v) = Len(u) + 1 /\ v[Len(u) + 1] = s[m]
          /\ \A j \in 1 .. Len(u) : v[j] = u[j]
          /\ 1 .. Len(v) = (1 .. Len(u)) \cup {Len(u) + 1}
          /\ DOMAIN v = 1 .. Len(v) /\ DOMAIN u = 1 .. Len(u)
      BY <2>1, <2>2, <2>len, <2>3, <2>5
    <3>2. Len(v) <= m
      BY <2>1, <2>2, <2>len, <3>1
    <3>3. \A j \in 1 .. Len(v) : \E i \in 1 .. m : s[i] = v[j] /\ s[i] \notin S
      <4> TAKE j \in 1 .. Len(v)
      <4>1. CASE j \in 1 .. Len(u)
        BY <2>1, <2>2, <3>1, <4>1, SMTT(60)
      <4>2. CASE j = Len(u) + 1
        BY <2>1, <2>5, <3>1, <4>2
      <4> QED BY <3>1, <4>1, <4>2
    <3>4. \A i \in 1 .. m : s[i] \in S \/ \E j \in 1 .. Len(v) : v[j] = s[i]
      BY <2>1, <2>2, <3>1
    <3>5. (\E i \in 1 .. m : s[i] \in S) => Len(v) < m
      <4> SUFFICES ASSUME NEW i \in 1 .. m, s[i] \in S PROVE Len(v) < m
        OBVIOUS
      <4>1. i \in 1 .. m - 1
        BY <2>1, <2>5
      <4>2. Len(u) < m - 1
        BY <2>2, <4>1
      <4> QED BY <2>1, <2>len, <3>1, <4>2
    <3>6. ASSUME IsInjective(s) PROVE IsInjective(v)
      <4>1. \A j \in 1 .. Len(u) : u[j] # s[m]
        <5> SUFFICES ASSUME NEW j \in 1 .. Len(u), u[j] = s[m] PROVE FALSE
          OBVIOUS
        <5>1. PICK i \in 1 .. m - 1 : s[i] = u[j]
          BY <2>2
        <5>2. i \in DOMAIN s /\ m \in DOMAIN s /\ i # m
          BY <1>1, <2>1
        <5> QED BY <3>6, <5>1, <5>2 DEF IsInjective
      <4>2. \A i, j \in 1 .. Len(u) : u[i] = u[j] => i = j
        BY <2>2, <3>1, <3>6 DEF IsInjective
      <4> QED BY <3>1, <4>1, <4>2 DEF IsInjective
    <3> QED BY <3>1, <3>2, <3>3, <3>4, <3>5, <3>6
  <2> QED BY <2>4, <2>5
<1> HIDE DEF Q
<1>5. Bad = {}
  <2> SUFFICES ASSUME Bad # {} PROVE FALSE
    OBVIOUS
  <2>1. Bad \subseteq Nat
    BY <1>1
  <2>2. PICK m \in Bad : \A y \in Bad : m <= y
    BY <2>1, MinNat
  <2>3. m \in 0 .. n /\ ~Q(m)
    OBVIOUS
  <2>4. m # 0
    BY <1>3, <2>3
  <2>5. m \in 1 .. n /\ m - 1 \in 0 .. n
    BY <1>1, <2>3, <2>4
  <2>6. Q(m - 1)
    <3> SUFFICES ASSUME ~Q(m - 1) PROVE FALSE
      OBVIOUS
    <3>1. m - 1 \in Bad
      BY <2>5
    <3> QED BY <2>2, <2>5, <3>1
  <2> QED BY <1>4, <2>3, <2>5, <2>6
<1>6. Q(k)
  BY <1>5
<1> QED BY <1>6 DEF Q, w

\* Removing members keeps the others, once each, and shortens the sequence if
\* there was one to remove.
LEMMA WithoutFacts ==
  ASSUME NEW T, NEW s \in Seq(T), NEW S
  PROVE  /\ Without(s, S) \in Seq(T)
         /\ ToSet(Without(s, S)) = ToSet(s) \ S
         /\ Len(Without(s, S)) <= Len(s)
         /\ ToSet(s) \cap S # {} => Len(Without(s, S)) < Len(s)
         /\ IsInjective(s) => IsInjective(Without(s, S))
<1> DEFINE n == Len(s)
           v == Without(s, S)
<1>1. n \in Nat /\ n \in 0 .. n
  OBVIOUS
<1>2. /\ v \in Seq(T) /\ Len(v) <= n
      /\ \A j \in 1 .. Len(v) : \E i \in 1 .. n : s[i] = v[j] /\ s[i] \notin S
      /\ \A i \in 1 .. n : s[i] \in S \/ \E j \in 1 .. Len(v) : v[j] = s[i]
      /\ (\E i \in 1 .. n : s[i] \in S) => Len(v) < n
      /\ IsInjective(s) => IsInjective(v)
  BY <1>1, FilteredUpTo, Zenon DEF Without
<1> HIDE DEF v
<1>3. DOMAIN s = 1 .. n /\ DOMAIN v = 1 .. Len(v)
  BY <1>2
<1>4. ToSet(v) = ToSet(s) \ S
  <2>1. ASSUME NEW x \in ToSet(v) PROVE x \in ToSet(s) \ S
    BY <1>2, <1>3 DEF ToSet
  <2>2. ASSUME NEW x \in ToSet(s), x \notin S PROVE x \in ToSet(v)
    <3>1. PICK i \in 1 .. n : x = s[i]
      BY <1>3 DEF ToSet
    <3>2. PICK j \in 1 .. Len(v) : v[j] = s[i]
      BY <1>2, <2>2, <3>1
    <3> QED BY <1>3, <3>1, <3>2 DEF ToSet
  <2> QED BY <2>1, <2>2
<1>5. ToSet(s) \cap S # {} => \E i \in 1 .. n : s[i] \in S
  BY <1>3 DEF ToSet
<1> QED BY <1>2, <1>4, <1>5 DEF v

----------------------------------------------------------------------------
(* Sums *)

\* Sums is the function its recursion describes.
LEMMA SumsDef ==
  ASSUME NEW n \in Nat, NEW h \in [0 .. n - 1 -> Int]
  PROVE  LET s == Sums(h, n)
         IN  s[0] = 0 /\ \A i \in 1 .. n : s[i] = s[i - 1] + h[i - 1]
<1> DEFINE Step(g, i) == IF i = 0 THEN 0 ELSE g[i - 1] + h[i - 1]
           Good(g, k) == \A i \in 0 .. k : g[i] = Step(g, i)
           Bad == {k \in 0 .. n : ~ \E g \in [0 .. k -> Int] : Good(g, k)}
<1>1. Bad = {}
  <2> SUFFICES ASSUME Bad # {} PROVE FALSE
    OBVIOUS
  <2>1. Bad \subseteq Nat
    OBVIOUS
  <2> HIDE DEF Bad
  <2>2. PICK k \in Bad : \A y \in Bad : k <= y
    BY <2>1, MinNat
  <2>3. k \in 0 .. n /\ ~ \E g \in [0 .. k -> Int] : Good(g, k)
    BY <2>2 DEF Bad
  <2>4. CASE k = 0
    <3> DEFINE g == [i \in 0 .. 0 |-> 0]
    <3>1. g \in [0 .. 0 -> Int] /\ Good(g, 0)
      OBVIOUS
    <3> QED BY <2>3, <2>4, <3>1
  <2>5. CASE k > 0
    <3>1. k - 1 \in 0 .. n /\ k - 1 \notin Bad
      BY <2>1, <2>2, <2>3, <2>5
    <3>2. PICK g \in [0 .. k - 1 -> Int] : Good(g, k - 1)
      BY <3>1 DEF Bad
    <3> DEFINE f == [i \in 0 .. k |-> IF i < k THEN g[i] ELSE Step(g, k)]
    <3>3. k \in 1 .. n /\ h[k - 1] \in Int /\ g[k - 1] \in Int
      BY <2>3, <2>5, <3>2
    <3>4. Step(g, k) \in Int
      BY <3>3
    <3>5. f \in [0 .. k -> Int]
      BY <3>2, <3>3, <3>4
    <3>6. \A i \in 0 .. k : f[i] = Step(f, i)
      <4> TAKE i \in 0 .. k
      <4>1. CASE i = k
        <5>1. f[k] = Step(g, k) /\ f[k - 1] = g[k - 1]
          BY <3>3
        <5> QED BY <3>3, <4>1, <5>1
      <4>2. CASE i < k
        <5>1. f[i] = g[i] /\ i \in 0 .. k - 1
          BY <3>3, <4>2
        <5>2. g[i] = Step(g, i)
          BY <3>2, <5>1
        <5>3. i # 0 => f[i - 1] = g[i - 1]
          BY <3>3, <4>2
        <5> QED BY <5>1, <5>2, <5>3
      <4> QED BY <3>3, <4>1, <4>2
    <3> QED BY <2>3, <3>5, <3>6
  <2> QED BY <2>3, <2>4, <2>5
<1>2. PICK g \in [0 .. n -> Int] : Good(g, n)
  <2>1. n \in 0 .. n
    OBVIOUS
  <2>2. n \notin Bad
    BY <1>1, Zenon
  <2> QED BY <2>1, <2>2
<1>3. g = [i \in 0 .. n |-> Step(g, i)]
  BY <1>2
<1> DEFINE s == Sums(h, n)
<1>4. s = CHOOSE f : f = [i \in 0 .. n |-> Step(f, i)]
  BY Zenon DEF Sums
<1>5. s = [i \in 0 .. n |-> Step(s, i)]
  BY <1>3, <1>4, Zenon
<1> HIDE DEF s
<1>6. \A i \in 0 .. n : s[i] = Step(s, i)
  BY <1>5, Zenon
<1>7. s[0] = 0
  BY <1>6
<1>8. \A i \in 1 .. n : s[i] = s[i - 1] + h[i - 1]
  <2> TAKE i \in 1 .. n
  <2>1. i \in 0 .. n /\ i # 0
    OBVIOUS
  <2> QED BY <1>6, <2>1
<1> QED BY <1>7, <1>8 DEF s

\* Two sums of functions that differ in one place differ by that difference.
LEMMA SumUpdate ==
  ASSUME NEW n \in Nat, NEW h \in [0 .. n - 1 -> Int], NEW g \in [0 .. n - 1 -> Int],
         NEW k \in 0 .. n - 1, \A i \in 0 .. n - 1 : i # k => g[i] = h[i]
  PROVE  SumTo(h, n) \in Int /\ SumTo(g, n) = SumTo(h, n) + (g[k] - h[k])
<1> DEFINE s == Sums(h, n)
           t == Sums(g, n)
           Q(m) == s[m] \in Int /\ t[m] = IF m <= k THEN s[m] ELSE s[m] + (g[k] - h[k])
           Bad == {m \in 0 .. n : ~Q(m)}
<1>1. /\ s[0] = 0 /\ \A i \in 1 .. n : s[i] = s[i - 1] + h[i - 1]
      /\ t[0] = 0 /\ \A i \in 1 .. n : t[i] = t[i - 1] + g[i - 1]
  BY SumsDef
<1> HIDE DEF s, t
<1>2. Q(0)
  BY <1>1
<1>3. ASSUME NEW m \in 1 .. n, Q(m - 1) PROVE Q(m)
  <2>1. /\ s[m] = s[m - 1] + h[m - 1] /\ t[m] = t[m - 1] + g[m - 1]
        /\ h[m - 1] \in Int /\ g[m - 1] \in Int /\ h[k] \in Int /\ g[k] \in Int
        /\ m - 1 # k => g[m - 1] = h[m - 1]
    BY <1>1
  <2>2. s[m - 1] \in Int /\ t[m - 1] = IF m - 1 <= k THEN s[m - 1] ELSE s[m - 1] + (g[k] - h[k])
    BY <1>3
  <2>3. CASE m <= k
    <3>1. m - 1 <= k /\ m - 1 # k
      BY <2>3
    <3> QED BY <2>1, <2>2, <2>3, <3>1
  <2>4. CASE m - 1 = k
    <3>1. m - 1 <= k /\ ~(m <= k)
      BY <2>4
    <3> QED BY <2>1, <2>2, <2>4, <3>1
  <2>5. CASE m - 1 > k
    <3>1. ~(m - 1 <= k) /\ ~(m <= k) /\ m - 1 # k
      BY <2>5
    <3> QED BY <2>1, <2>2, <3>1
  <2> QED BY <2>3, <2>4, <2>5
<1> HIDE DEF Q
<1>4. Bad = {}
  <2> SUFFICES ASSUME Bad # {} PROVE FALSE
    OBVIOUS
  <2>1. Bad \subseteq Nat
    OBVIOUS
  <2>2. PICK m \in Bad : \A y \in Bad : m <= y
    BY <2>1, MinNat
  <2>3. m \in 0 .. n /\ ~Q(m)
    OBVIOUS
  <2>4. m # 0
    BY <1>2, <2>3
  <2>5. m \in 1 .. n /\ m - 1 \in 0 .. n
    BY <2>3, <2>4
  <2>6. Q(m - 1)
    <3> SUFFICES ASSUME ~Q(m - 1) PROVE FALSE
      OBVIOUS
    <3>1. m - 1 \in Bad
      BY <2>5
    <3> QED BY <2>2, <2>5, <3>1
  <2> QED BY <1>3, <2>3, <2>5, <2>6
<1>5. Q(n) /\ n > k
  <2>1. n \in 0 .. n /\ n > k
    OBVIOUS
  <2> QED BY <1>4, <2>1
<1> QED BY <1>5 DEF Q, s, t, SumTo

\* The sum of zeros.
LEMMA SumZero ==
  ASSUME NEW n \in Nat, NEW h \in [0 .. n - 1 -> Int], \A i \in 0 .. n - 1 : h[i] = 0
  PROVE  SumTo(h, n) = 0
<1> DEFINE s == Sums(h, n)
           Bad == {m \in 0 .. n : s[m] # 0}
<1>1. s[0] = 0 /\ \A i \in 1 .. n : s[i] = s[i - 1] + h[i - 1]
  BY SumsDef
<1> HIDE DEF s
<1>2. Bad = {}
  <2> SUFFICES ASSUME Bad # {} PROVE FALSE
    OBVIOUS
  <2>1. Bad \subseteq Nat
    OBVIOUS
  <2>2. PICK m \in Bad : \A y \in Bad : m <= y
    BY <2>1, MinNat
  <2>3. m \in 0 .. n /\ s[m] # 0 /\ m # 0
    BY <1>1
  <2>4. m \in 1 .. n /\ m - 1 \in 0 .. n /\ m - 1 \notin Bad
    BY <2>2, <2>3
  <2>5. s[m - 1] = 0 /\ h[m - 1] = 0
    BY <2>4
  <2> QED BY <1>1, <2>3, <2>4, <2>5
<1> QED BY <1>2 DEF SumTo, s

\* The sum of differences.
LEMMA SumTelescope ==
  ASSUME NEW n \in Nat, NEW h \in [0 .. n - 1 -> Int], NEW F \in [0 .. n -> Int],
         F[0] = 0, \A i \in 0 .. n - 1 : h[i] = F[i + 1] - F[i]
  PROVE  SumTo(h, n) = F[n]
<1> DEFINE s == Sums(h, n)
           Bad == {m \in 0 .. n : s[m] # F[m]}
<1>1. s[0] = 0 /\ \A i \in 1 .. n : s[i] = s[i - 1] + h[i - 1]
  BY SumsDef
<1> HIDE DEF s
<1>2. Bad = {}
  <2> SUFFICES ASSUME Bad # {} PROVE FALSE
    OBVIOUS
  <2>1. Bad \subseteq Nat
    OBVIOUS
  <2>2. PICK m \in Bad : \A y \in Bad : m <= y
    BY <2>1, MinNat
  <2>3. m \in 0 .. n /\ s[m] # F[m] /\ m # 0
    BY <1>1
  <2>4. m \in 1 .. n /\ m - 1 \in 0 .. n - 1 /\ m - 1 \notin Bad
    BY <2>2, <2>3
  <2>5. s[m - 1] = F[m - 1] /\ h[m - 1] = F[(m - 1) + 1] - F[m - 1]
    BY <2>4
  <2>6. (m - 1) + 1 = m /\ F[m] \in Int /\ F[m - 1] \in Int
    BY <2>4
  <2> QED BY <1>1, <2>3, <2>4, <2>5, <2>6
<1> QED BY <1>2 DEF SumTo, s
=============================================================================
