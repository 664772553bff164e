-------------------------- MODULE NamespaceProofs --------------------------
(***************************************************************************)
(* Names and link counts agree after every call and every turn of          *)
(* ext4_dir_rm, for every set of inodes, names, paths and devices, with    *)
(* and without indexed directories and for every maximum of links.         *)
(***************************************************************************)
EXTENDS Namespace, DataLemmas, FiniteSetTheorems

\* The places <<directory, name>> that lead to inode i, and the names in directory
\* i that lead to a directory.
Places(E, i) == {p \in Inodes \X Names : E[p[1]][p[2]] = i}

DirNames(K, E, i) == {n \in Names : E[i][n] # None /\ K[E[i][n]] = "dir"}

Tables == [Inodes -> [Names -> Inodes \union {None}]]

Typed(K, L, E, U) ==
  /\ K \in [Inodes -> Kinds] /\ L \in [Inodes -> Nat]
  /\ E \in Tables /\ U \in [Inodes -> Inodes]

\* What an entry may lead to: an inode in use that is not the root; and only
\* directories have entries.
Entries(K, E) ==
  \A d \in Inodes, n \in Names : E[d][n] # None =>
    K[d] = "dir" /\ E[d][n] # Root /\ K[E[d][n]] # "free"

\* A directory has at most one name, in the directory its ".." leads to; only one
\* that stopped counting its links may have none.
OneName(K, L, E, U) ==
  \A i \in Inodes : K[i] = "dir" =>
    /\ \A d, e \in Inodes, n, m \in Names : E[d][n] = i /\ E[e][m] = i => d = e /\ n = m
    /\ \A d \in Inodes, n \in Names : E[d][n] = i => U[i] = d
    /\ i = Root \/ L[i] = 1 \/ \E d \in Inodes, n \in Names : E[d][n] = i

Counts(K, L, E) ==
  \A i \in Inodes :
    /\ K[i] = "free" => L[i] = 0
    /\ K[i] = "dir" => L[i] = 2 + Cardinality(DirNames(K, E, i)) \/ (indexed /\ L[i] = 1)
    /\ K[i] \notin {"free", "dir"} => L[i] >= 1 /\ L[i] = Cardinality(Places(E, i))

\* A tree without a torn name, by its four functions.
Good(K, L, E, U) ==
  /\ Typed(K, L, E, U)
  /\ K[Root] = "dir"
  /\ Entries(K, E)
  /\ OneName(K, L, E, U)
  /\ Counts(K, L, E)

FsType == [kind : [Inodes -> Kinds], links : [Inodes -> Nat], entry : Tables,
           up : [Inodes -> Inodes]]

GoodTree(f) == f \in FsType /\ Good(f.kind, f.links, f.entry, f.up)

\* The directories from the one ext4_dir_rm was called for down to the one whose
\* entries it removes: each has a name in the one before it, so that ".." leads
\* back up, and the first has the name the caller gave.
Descent(s) ==
  /\ s \in [1 .. rm.depth -> Inodes]
  /\ s[rm.depth] = rm.cur
  /\ \A k \in 1 .. rm.depth : fs.kind[s[k]] = "dir"
  /\ \A k \in 1 .. rm.depth - 1 : \E n \in Names : fs.entry[s[k]][n] = s[k + 1]
  /\ \E d \in Inodes : fs.entry[d][rm.name] = s[1]

RmInv ==
  /\ rm.depth \in Nat /\ rm.cur \in Inodes /\ rm.name \in Names
  /\ rm = [depth |-> rm.depth, cur |-> rm.cur, name |-> rm.name]
  /\ rm.depth > 0 => \E s \in [1 .. rm.depth -> Inodes] : Descent(s)

\* The inductive invariant. The counts and the names of the properties are not enough:
\* a removal takes an inode out of its directory by the name it was found under, and
\* ext4_dir_rm goes back up by "..", so that the links of the right directory are
\* counted down only because each directory is named where its ".." leads to.
IInv ==
  /\ intact \in BOOLEAN
  /\ intact => GoodTree(fs) /\ RmInv
----------------------------------------------------------------------------
(* One entry written *)

\* F is E with c under the name n of directory d.
Changed(E, F, d, n, c) ==
  /\ F \in Tables
  /\ F[d][n] = c
  /\ \A e \in Inodes, m \in Names : e # d \/ m # n => F[e][m] = E[e][m]

\* What NamespaceAssumption says, as the proofs use it.
LEMMA Numbers ==
  /\ None \notin Inodes /\ Root \in Inodes /\ IsFiniteSet(Inodes) /\ IsFiniteSet(Names)
  /\ Inodes \subseteq Nat
  /\ "free" \in Kinds /\ "dir" \in Kinds /\ "file" \in Kinds /\ "symlink" \in Kinds
  /\ "any" \notin Kinds /\ Devices \subseteq Kinds
BY NamespaceAssumption DEF None, Kinds

\* Places and names are finitely many.
LEMMA FiniteTables ==
  ASSUME NEW K, NEW E, NEW i
  PROVE  /\ IsFiniteSet(Places(E, i)) /\ Cardinality(Places(E, i)) \in Nat
         /\ Cardinality(Places(E, i)) = 0 <=> Places(E, i) = {}
         /\ IsFiniteSet(DirNames(K, E, i)) /\ Cardinality(DirNames(K, E, i)) \in Nat
<1>1. IsFiniteSet(Inodes \X Names)
  BY Numbers, FS_Product
<1>2. Places(E, i) \subseteq Inodes \X Names /\ DirNames(K, E, i) \subseteq Names
  BY DEF Places, DirNames
<1> DEFINE P == Places(E, i)
           D == DirNames(K, E, i)
<1> HIDE DEF P, D
<1>3. IsFiniteSet(P)
  BY <1>1, <1>2, FS_Subset DEF P
<1>4. IsFiniteSet(D)
  BY <1>2, Numbers, FS_Subset DEF D
<1>5. Cardinality(P) = 0 <=> P = {}
  BY <1>3, FS_EmptySet
<1> QED BY <1>3, <1>4, <1>5, FS_CardinalityType DEF P, D

\* Membership in Places.
LEMMA PlacesAre ==
  ASSUME NEW E, NEW i, NEW d \in Inodes, NEW n \in Names
  PROVE  <<d, n>> \in Places(E, i) <=> E[d][n] = i
BY DEF Places

\* A free place is given to c.
LEMMA PlaceSet ==
  ASSUME NEW E \in Tables, NEW F, NEW d \in Inodes, NEW n \in Names, NEW c \in Inodes,
         E[d][n] = None, Changed(E, F, d, n, c)
  PROVE  /\ Cardinality(Places(F, c)) = Cardinality(Places(E, c)) + 1
         /\ \A i \in Inodes : i # c => Places(F, i) = Places(E, i)
<1>1. None # c /\ None \notin Inodes
  BY Numbers
<1>2. <<d, n>> \notin Places(E, c)
  <2>1. <<d, n>> \in Places(E, c) <=> E[d][n] = c
    BY DEF Places
  <2> QED BY <1>1, <2>1, Zenon
<1>3. Places(F, c) = Places(E, c) \union {<<d, n>>}
  BY <1>1 DEF Changed, Places
<1>4. ASSUME NEW i \in Inodes, i # c PROVE Places(F, i) = Places(E, i)
  BY <1>1, <1>4 DEF Changed, Places
<1> QED BY <1>2, <1>3, <1>4, FiniteTables, FS_AddElement

\* The place of c is cleared.
LEMMA PlaceCleared ==
  ASSUME NEW E \in Tables, NEW F, NEW d \in Inodes, NEW n \in Names, NEW c \in Inodes,
         E[d][n] = c, Changed(E, F, d, n, None)
  PROVE  /\ Cardinality(Places(F, c)) = Cardinality(Places(E, c)) - 1
         /\ \A i \in Inodes : i # c => Places(F, i) = Places(E, i)
<1>1. None # c /\ None \notin Inodes
  BY Numbers
<1>2. <<d, n>> \in Places(E, c)
  BY PlacesAre
<1>3. Places(F, c) = Places(E, c) \ {<<d, n>>}
  BY <1>1 DEF Changed, Places
<1>4. ASSUME NEW i \in Inodes, i # c PROVE Places(F, i) = Places(E, i)
  BY <1>1, <1>4 DEF Changed, Places
<1> QED BY <1>2, <1>3, <1>4, FiniteTables, FS_RemoveElement

\* The names of directories after a free place is given to c.
LEMMA DirNamesSet ==
  ASSUME NEW K, NEW E \in Tables, NEW F, NEW d \in Inodes, NEW n \in Names,
         NEW c \in Inodes, E[d][n] = None, Changed(E, F, d, n, c)
  PROVE  /\ Cardinality(DirNames(K, F, d)) =
              Cardinality(DirNames(K, E, d)) + (IF K[c] = "dir" THEN 1 ELSE 0)
         /\ \A i \in Inodes : i # d => DirNames(K, F, i) = DirNames(K, E, i)
<1>1. None # c /\ None \notin Inodes
  BY Numbers
<1>2. n \notin DirNames(K, E, d)
  BY DEF DirNames
<1>0. ASSUME NEW i \in Inodes, i # d PROVE DirNames(K, F, i) = DirNames(K, E, i)
  BY <1>0 DEF Changed, DirNames
<1>3. CASE K[c] = "dir"
  <2>1. DirNames(K, F, d) = DirNames(K, E, d) \union {n}
    BY <1>1, <1>3 DEF Changed, DirNames
  <2>2. Cardinality(DirNames(K, F, d)) = Cardinality(DirNames(K, E, d)) + 1
    BY <1>2, <2>1, FiniteTables, FS_AddElement
  <2> QED BY <1>3, <1>0, <2>2
<1>4. CASE K[c] # "dir"
  <2>1. DirNames(K, F, d) = DirNames(K, E, d)
    BY <1>1, <1>4 DEF Changed, DirNames
  <2>2. Cardinality(DirNames(K, E, d)) \in Nat
    BY FiniteTables
  <2> QED BY <1>4, <1>0, <2>1, <2>2
<1> QED BY <1>3, <1>4

\* The names of directories after the place of c is cleared.
LEMMA DirNamesCleared ==
  ASSUME NEW K, NEW E \in Tables, NEW F, NEW d \in Inodes, NEW n \in Names,
         NEW c \in Inodes, E[d][n] = c, Changed(E, F, d, n, None)
  PROVE  /\ Cardinality(DirNames(K, F, d)) =
              Cardinality(DirNames(K, E, d)) - (IF K[c] = "dir" THEN 1 ELSE 0)
         /\ \A i \in Inodes : i # d => DirNames(K, F, i) = DirNames(K, E, i)
<1>1. None # c /\ None \notin Inodes
  BY Numbers
<1>2. n \in DirNames(K, E, d) <=> K[c] = "dir"
  BY <1>1 DEF DirNames
<1>0. ASSUME NEW i \in Inodes, i # d PROVE DirNames(K, F, i) = DirNames(K, E, i)
  BY <1>0 DEF Changed, DirNames
<1>3. CASE K[c] = "dir"
  <2>1. DirNames(K, F, d) = DirNames(K, E, d) \ {n}
    BY <1>1, <1>3 DEF Changed, DirNames
  <2> DEFINE D == DirNames(K, E, d)
  <2> HIDE DEF D
  <2>2. IsFiniteSet(D) /\ n \in D
    BY <1>2, <1>3, FiniteTables DEF D
  <2>3. Cardinality(D \ {n}) = Cardinality(D) - 1
    BY <2>2, FS_RemoveElement
  <2> QED BY <1>3, <1>0, <2>1, <2>3 DEF D
<1>4. CASE K[c] # "dir"
  <2>1. DirNames(K, F, d) = DirNames(K, E, d)
    BY <1>1, <1>4 DEF Changed, DirNames
  <2>2. Cardinality(DirNames(K, E, d)) \in Nat
    BY FiniteTables
  <2> QED BY <1>4, <1>0, <2>1, <2>2
<1> QED BY <1>3, <1>4

----------------------------------------------------------------------------
(* What the operations do to the four functions *)

\* In a good tree an inode that is not in use has no name.
LEMMA UnusedUnnamed ==
  ASSUME NEW K, NEW L, NEW E, NEW U, Good(K, L, E, U), NEW c \in Inodes, K[c] = "free"
  PROVE  \A d \in Inodes, n \in Names : E[d][n] # c
BY Numbers DEF Good, Entries

\* An inode with no children: no entry of it leads anywhere.
Childless(E, c) == \A n \in Names : E[c][n] = None

\* A name more for an inode that is not a directory: one in use, or a new one.
LEMMA AddFile ==
  ASSUME NEW K, NEW L, NEW E, NEW U, Good(K, L, E, U),
         NEW d \in Inodes, NEW n \in Names, NEW c \in Inodes, NEW F, NEW K2, NEW L2,
         K[d] = "dir", E[d][n] = None, Changed(E, F, d, n, c),
         K[c] # "dir", K2 \in [Inodes -> Kinds], K2[c] \notin {"free", "dir"},
         K[c] = "free" \/ K2[c] = K[c],
         \A i \in Inodes : i # c => K2[i] = K[i],
         L2 \in [Inodes -> Nat], L2[c] = L[c] + 1,
         \A i \in Inodes : i # c => L2[i] = L[i]
  PROVE  Good(K2, L2, F, U)
<1>1. /\ Typed(K, L, E, U) /\ K[Root] = "dir" /\ Entries(K, E)
      /\ OneName(K, L, E, U) /\ Counts(K, L, E) /\ E \in Tables
  BY DEF Good, Typed
<1>2. /\ None \notin Inodes /\ None # c /\ Root \in Inodes /\ c # Root /\ c # d
  BY <1>1, Numbers
<1>3. Typed(K2, L2, F, U) /\ K2[Root] = "dir"
  BY <1>1, <1>2 DEF Typed, Changed
<1>4. Entries(K2, F)
  <2> SUFFICES ASSUME NEW a \in Inodes, NEW m \in Names, F[a][m] # None
               PROVE  K2[a] = "dir" /\ F[a][m] # Root /\ K2[F[a][m]] # "free"
    BY DEF Entries
  <2>1. CASE a = d /\ m = n
    BY <1>2, <2>1 DEF Changed
  <2>2. CASE ~(a = d /\ m = n)
    <3>1. F[a][m] = E[a][m] /\ E[a][m] \in Inodes
      BY <1>1, <2>2 DEF Changed, Tables
    <3>2. K[a] = "dir" /\ E[a][m] # Root /\ K[E[a][m]] # "free"
      BY <1>1, <3>1 DEF Entries
    <3>3. K2[a] = "dir"
      BY <3>2
    <3>4. K2[E[a][m]] # "free"
      BY <3>1, <3>2
    <3> QED BY <3>1, <3>2, <3>3, <3>4
  <2> QED BY <2>1, <2>2
<1>5. OneName(K2, L2, F, U)
  <2> SUFFICES ASSUME NEW i \in Inodes, K2[i] = "dir"
               PROVE  /\ \A a, e \in Inodes, p, m \in Names :
                           F[a][p] = i /\ F[e][m] = i => a = e /\ p = m
                      /\ \A a \in Inodes, p \in Names : F[a][p] = i => U[i] = a
                      /\ i = Root \/ L2[i] = 1 \/ \E a \in Inodes, p \in Names : F[a][p] = i
    BY DEF OneName
  <2>1. i # c /\ K[i] = "dir" /\ L2[i] = L[i]
    OBVIOUS
  <2>2. \A a \in Inodes, p \in Names : F[a][p] = i <=> E[a][p] = i
    BY <1>2, <2>1 DEF Changed
  <2> QED BY <1>1, <2>1, <2>2 DEF OneName
<1>6. ASSUME NEW i \in Inodes PROVE DirNames(K2, F, i) = DirNames(K, E, i)
  <2>1. DirNames(K, F, i) = DirNames(K, E, i)
    BY <1>2 DEF DirNames, Changed
  <2>2. DirNames(K2, F, i) = DirNames(K, F, i)
    BY <1>2 DEF DirNames, Changed, Tables
  <2> QED BY <2>1, <2>2
<1>7. /\ Cardinality(Places(F, c)) = Cardinality(Places(E, c)) + 1
      /\ \A i \in Inodes : i # c => Places(F, i) = Places(E, i)
  BY <1>1, PlaceSet
<1>8. L[c] = Cardinality(Places(E, c))
  <2>1. CASE K[c] = "free"
    <3>1. Places(E, c) = {}
      BY <2>1, UnusedUnnamed DEF Places
    <3> QED BY <1>1, <2>1, <3>1, FiniteTables DEF Counts
  <2>2. CASE K[c] # "free"
    BY <1>1, <2>2 DEF Counts
  <2> QED BY <2>1, <2>2
<1>9. Counts(K2, L2, F)
  <2> SUFFICES ASSUME NEW i \in Inodes
               PROVE  /\ K2[i] = "free" => L2[i] = 0
                      /\ K2[i] = "dir" => L2[i] = 2 + Cardinality(DirNames(K2, F, i))
                                            \/ (indexed /\ L2[i] = 1)
                      /\ K2[i] \notin {"free", "dir"} =>
                           L2[i] >= 1 /\ L2[i] = Cardinality(Places(F, i))
    BY DEF Counts
  <2>1. CASE i = c
    BY <1>1, <1>7, <1>8, <2>1 DEF Typed
  <2>2. CASE i # c
    BY <1>1, <1>6, <1>7, <2>2 DEF Counts
  <2> QED BY <2>1, <2>2
<1> QED BY <1>3, <1>4, <1>5, <1>9 DEF Good

\* A name less for a file that has more than one.
LEMMA DropName ==
  ASSUME NEW K, NEW L, NEW E, NEW U, Good(K, L, E, U),
         NEW d \in Inodes, NEW n \in Names, NEW c \in Inodes, NEW F, NEW L2,
         E[d][n] = c, Changed(E, F, d, n, None), K[c] # "dir",
         L2 \in [Inodes -> Nat], L2[c] = L[c] - 1, L2[c] # 0,
         \A i \in Inodes : i # c => L2[i] = L[i]
  PROVE  Good(K, L2, F, U)
<1>1. /\ Typed(K, L, E, U) /\ K[Root] = "dir" /\ Entries(K, E)
      /\ OneName(K, L, E, U) /\ Counts(K, L, E) /\ E \in Tables
  BY DEF Good, Typed
<1>2. /\ None \notin Inodes /\ None # c /\ K[c] \notin {"free", "dir"}
  BY <1>1, Numbers DEF Entries
<1>3. Typed(K, L2, F, U) /\ Entries(K, F)
  BY <1>1, <1>2 DEF Typed, Entries, Changed
<1>4. OneName(K, L2, F, U)
  <2> SUFFICES ASSUME NEW i \in Inodes, K[i] = "dir"
               PROVE  /\ \A a, e \in Inodes, p, m \in Names :
                           F[a][p] = i /\ F[e][m] = i => a = e /\ p = m
                      /\ \A a \in Inodes, p \in Names : F[a][p] = i => U[i] = a
                      /\ i = Root \/ L2[i] = 1 \/ \E a \in Inodes, p \in Names : F[a][p] = i
    BY DEF OneName
  <2>1. i # c /\ L2[i] = L[i] /\ i # None
    BY <1>2
  <2>2. \A a \in Inodes, p \in Names : F[a][p] = i <=> E[a][p] = i
    BY <2>1 DEF Changed
  <2> QED BY <1>1, <2>1, <2>2 DEF OneName
<1>5. ASSUME NEW i \in Inodes PROVE DirNames(K, F, i) = DirNames(K, E, i)
  BY <1>2 DEF DirNames, Changed
<1>6. /\ Cardinality(Places(F, c)) = Cardinality(Places(E, c)) - 1
      /\ \A i \in Inodes : i # c => Places(F, i) = Places(E, i)
  BY <1>1, PlaceCleared
<1>7. Counts(K, L2, F)
  <2> SUFFICES ASSUME NEW i \in Inodes
               PROVE  /\ K[i] = "free" => L2[i] = 0
                      /\ K[i] = "dir" => L2[i] = 2 + Cardinality(DirNames(K, F, i))
                                            \/ (indexed /\ L2[i] = 1)
                      /\ K[i] \notin {"free", "dir"} =>
                           L2[i] >= 1 /\ L2[i] = Cardinality(Places(F, i))
    BY DEF Counts
  <2>1. CASE i = c
    <3>1. L2[c] \in Nat /\ L[c] = Cardinality(Places(E, c))
      BY <1>1, <1>2 DEF Counts
    <3>2. L2[c] >= 1 /\ L2[c] = Cardinality(Places(F, c))
      <4>1. Cardinality(Places(E, c)) \in Nat
        BY FiniteTables
      <4> QED BY <1>6, <3>1, <4>1
    <3> QED BY <1>2, <2>1, <3>2
  <2>2. CASE i # c
    BY <1>1, <1>5, <1>6, <2>2 DEF Counts
  <2> QED BY <2>1, <2>2
<1> QED BY <1>1, <1>3, <1>4, <1>7 DEF Good

\* A file loses its only name and is freed.
LEMMA FreeFile ==
  ASSUME NEW K, NEW L, NEW E, NEW U, Good(K, L, E, U),
         NEW d \in Inodes, NEW n \in Names, NEW c \in Inodes, NEW F, NEW K2, NEW L2, NEW U2,
         E[d][n] = c, Changed(E, F, d, n, None), K[c] # "dir",
         \A a \in Inodes, m \in Names : F[a][m] # c,
         K2 \in [Inodes -> Kinds], K2[c] = "free", \A i \in Inodes : i # c => K2[i] = K[i],
         L2 \in [Inodes -> Nat], L2[c] = 0, \A i \in Inodes : i # c => L2[i] = L[i],
         U2 \in [Inodes -> Inodes], \A i \in Inodes : i # c => U2[i] = U[i]
  PROVE  Good(K2, L2, F, U2)
<1>1. /\ Typed(K, L, E, U) /\ K[Root] = "dir" /\ Entries(K, E)
      /\ OneName(K, L, E, U) /\ Counts(K, L, E) /\ E \in Tables
  BY DEF Good, Typed
<1>2. /\ None \notin Inodes /\ None # c /\ K[c] \notin {"free", "dir"}
      /\ c # Root /\ Root \in Inodes /\ F \in Tables
  BY <1>1, Numbers DEF Entries, Changed
<1>3. Typed(K2, L2, F, U2) /\ K2[Root] = "dir"
  BY <1>1, <1>2 DEF Typed
<1>4. Entries(K2, F)
  <2> SUFFICES ASSUME NEW a \in Inodes, NEW m \in Names, F[a][m] # None
               PROVE  K2[a] = "dir" /\ F[a][m] # Root /\ K2[F[a][m]] # "free"
    BY DEF Entries
  <2>1. F[a][m] = E[a][m] /\ F[a][m] # c /\ F[a][m] \in Inodes
    BY <1>2 DEF Changed, Tables
  <2>2. K[a] = "dir" /\ F[a][m] # Root /\ K[F[a][m]] # "free"
    BY <1>1, <2>1 DEF Entries
  <2> QED BY <2>1, <2>2
<1>5. OneName(K2, L2, F, U2)
  <2> SUFFICES ASSUME NEW i \in Inodes, K2[i] = "dir"
               PROVE  /\ \A a, e \in Inodes, p, m \in Names :
                           F[a][p] = i /\ F[e][m] = i => a = e /\ p = m
                      /\ \A a \in Inodes, p \in Names : F[a][p] = i => U2[i] = a
                      /\ i = Root \/ L2[i] = 1 \/ \E a \in Inodes, p \in Names : F[a][p] = i
    BY DEF OneName
  <2>1. i # c /\ L2[i] = L[i] /\ U2[i] = U[i] /\ K[i] = "dir" /\ i # None
    BY <1>2
  <2>2. \A a \in Inodes, p \in Names : F[a][p] = i <=> E[a][p] = i
    BY <2>1 DEF Changed
  <2> QED BY <1>1, <2>1, <2>2 DEF OneName
<1>6. ASSUME NEW i \in Inodes PROVE DirNames(K2, F, i) = DirNames(K, E, i)
  <2>1. DirNames(K, F, i) = DirNames(K, E, i)
    BY <1>2 DEF DirNames, Changed
  <2>2. \A m \in Names : F[i][m] # c
    OBVIOUS
  <2>3. DirNames(K2, F, i) = DirNames(K, F, i)
    BY <1>2, <2>2 DEF DirNames, Tables
  <2> QED BY <2>1, <2>3
<1>7. \A i \in Inodes : i # c => Places(F, i) = Places(E, i)
  BY <1>1, PlaceCleared
<1>8. Counts(K2, L2, F)
  <2> SUFFICES ASSUME NEW i \in Inodes
               PROVE  /\ K2[i] = "free" => L2[i] = 0
                      /\ K2[i] = "dir" => L2[i] = 2 + Cardinality(DirNames(K2, F, i))
                                            \/ (indexed /\ L2[i] = 1)
                      /\ K2[i] \notin {"free", "dir"} =>
                           L2[i] >= 1 /\ L2[i] = Cardinality(Places(F, i))
    BY DEF Counts
  <2>1. CASE i = c
    BY <2>1
  <2>2. CASE i # c
    BY <1>1, <1>6, <1>7, <2>2 DEF Counts
  <2> QED BY <2>1, <2>2
<1> QED BY <1>3, <1>4, <1>5, <1>8 DEF Good
\* The links of a directory with one subdirectory more, and with one less.
More(l, m) == (m = l + 1 /\ l # 1) \/ (indexed /\ m = 1)

Less(l, m) == m = IF l > 2 THEN l - 1 ELSE l

\* A new directory.
LEMMA AddDir ==
  ASSUME NEW K, NEW L, NEW E, NEW U, Good(K, L, E, U),
         NEW d \in Inodes, NEW n \in Names, NEW c \in Inodes, NEW F, NEW K2, NEW L2, NEW U2,
         K[d] = "dir", E[d][n] = None, Changed(E, F, d, n, c), K[c] = "free",
         K2 \in [Inodes -> Kinds], K2[c] = "dir", \A i \in Inodes : i # c => K2[i] = K[i],
         L2 \in [Inodes -> Nat], L2[c] = 2, More(L[d], L2[d]),
         \A i \in Inodes : i # c /\ i # d => L2[i] = L[i],
         U2 \in [Inodes -> Inodes], U2[c] = d, \A i \in Inodes : i # c => U2[i] = U[i]
  PROVE  Good(K2, L2, F, U2)
<1>1. /\ Typed(K, L, E, U) /\ K[Root] = "dir" /\ Entries(K, E)
      /\ OneName(K, L, E, U) /\ Counts(K, L, E) /\ E \in Tables
  BY DEF Good, Typed
<1>2. /\ None \notin Inodes /\ None # c /\ Root \in Inodes /\ c # Root /\ c # d
      /\ F \in Tables
  BY <1>1, Numbers DEF Changed
<1>3. \A a \in Inodes, m \in Names : E[a][m] # c
  BY UnusedUnnamed
<1>4. Typed(K2, L2, F, U2) /\ K2[Root] = "dir"
  BY <1>1, <1>2 DEF Typed
<1>5. Entries(K2, F)
  <2> SUFFICES ASSUME NEW a \in Inodes, NEW m \in Names, F[a][m] # None
               PROVE  K2[a] = "dir" /\ F[a][m] # Root /\ K2[F[a][m]] # "free"
    BY DEF Entries
  <2>1. CASE a = d /\ m = n
    BY <1>2, <2>1 DEF Changed
  <2>2. CASE ~(a = d /\ m = n)
    <3>1. F[a][m] = E[a][m] /\ E[a][m] \in Inodes /\ E[a][m] # c
      BY <1>1, <1>3, <2>2 DEF Changed, Tables
    <3>2. K[a] = "dir" /\ E[a][m] # Root /\ K[E[a][m]] # "free"
      BY <1>1, <3>1 DEF Entries
    <3>3. K2[a] = "dir" /\ K2[E[a][m]] # "free"
      BY <3>1, <3>2
    <3> QED BY <3>1, <3>2, <3>3
  <2> QED BY <2>1, <2>2
<1>6. OneName(K2, L2, F, U2)
  <2> SUFFICES ASSUME NEW i \in Inodes, K2[i] = "dir"
               PROVE  /\ \A a, e \in Inodes, p, m \in Names :
                           F[a][p] = i /\ F[e][m] = i => a = e /\ p = m
                      /\ \A a \in Inodes, p \in Names : F[a][p] = i => U2[i] = a
                      /\ i = Root \/ L2[i] = 1 \/ \E a \in Inodes, p \in Names : F[a][p] = i
    BY DEF OneName
  <2>1. CASE i = c
    <3>1. \A a \in Inodes, m \in Names : F[a][m] = c => a = d /\ m = n
      BY <1>3 DEF Changed
    <3>2. F[d][n] = c
      BY DEF Changed
    <3> QED BY <2>1, <3>1, <3>2
  <2>2. CASE i # c
    <3>1. \A a \in Inodes, p \in Names : F[a][p] = i <=> E[a][p] = i
      BY <1>2, <2>2 DEF Changed
    <3>2. /\ \A a, e \in Inodes, p, m \in Names :
               E[a][p] = i /\ E[e][m] = i => a = e /\ p = m
          /\ \A a \in Inodes, p \in Names : E[a][p] = i => U[i] = a
          /\ i = Root \/ L[i] = 1 \/ \E a \in Inodes, p \in Names : E[a][p] = i
      BY <1>1, <2>2 DEF OneName
    <3>3. L[i] = 1 => L2[i] = 1
      BY <2>2 DEF More
    <3> QED BY <2>2, <3>1, <3>2, <3>3
  <2> QED BY <2>1, <2>2
<1>7. \A i \in Inodes : DirNames(K2, E, i) = DirNames(K, E, i)
  BY <1>1, <1>3 DEF DirNames, Tables
<1>8. /\ Cardinality(DirNames(K2, F, d)) = Cardinality(DirNames(K, E, d)) + 1
      /\ \A i \in Inodes : i # d => DirNames(K2, F, i) = DirNames(K, E, i)
  <2>1. /\ Cardinality(DirNames(K2, F, d)) = Cardinality(DirNames(K2, E, d)) + 1
        /\ \A i \in Inodes : i # d => DirNames(K2, F, i) = DirNames(K2, E, i)
    BY <1>1, DirNamesSet
  <2> QED BY <1>7, <2>1
<1>9. \A i \in Inodes : i # c => Places(F, i) = Places(E, i)
  BY <1>1, PlaceSet
<1>10. DirNames(K, E, c) = {}
  BY <1>1 DEF Entries, DirNames
<1>11. Counts(K2, L2, F)
  <2> SUFFICES ASSUME NEW i \in Inodes
               PROVE  /\ K2[i] = "free" => L2[i] = 0
                      /\ K2[i] = "dir" => L2[i] = 2 + Cardinality(DirNames(K2, F, i))
                                            \/ (indexed /\ L2[i] = 1)
                      /\ K2[i] \notin {"free", "dir"} =>
                           L2[i] >= 1 /\ L2[i] = Cardinality(Places(F, i))
    BY DEF Counts
  <2>1. CASE i = c
    <3>1. Cardinality(DirNames(K2, F, c)) = 0
      BY <1>2, <1>8, <1>10, FS_EmptySet
    <3> QED BY <2>1, <3>1
  <2>2. CASE i = d
    <3>1. L[d] = 2 + Cardinality(DirNames(K, E, d)) \/ (indexed /\ L[d] = 1)
      BY <1>1 DEF Counts
    <3>2. Cardinality(DirNames(K, E, d)) \in Nat
      BY FiniteTables
    <3>3. L2[d] = 2 + Cardinality(DirNames(K2, F, d)) \/ (indexed /\ L2[d] = 1)
      BY <1>8, <3>1, <3>2 DEF More
    <3> QED BY <1>2, <2>2, <3>3
  <2>3. CASE i # c /\ i # d
    BY <1>1, <1>8, <1>9, <2>3 DEF Counts
  <2> QED BY <2>1, <2>2, <2>3
<1> QED BY <1>4, <1>5, <1>6, <1>11 DEF Good

\* Kinds, links and ".." when directory c, in d, loses its name.
Dropped(K, K2, L, L2, U, U2, d, c) ==
  /\ K2 \in [Inodes -> Kinds] /\ \A i \in Inodes : i # c => K2[i] = K[i]
  /\ L2 \in [Inodes -> Nat] /\ Less(L[d], L2[d])
  /\ \A i \in Inodes : i # c /\ i # d => L2[i] = L[i]
  /\ U2 \in [Inodes -> Inodes] /\ \A i \in Inodes : i # c => U2[i] = U[i]
  /\ \/ K2[c] = "free" /\ L2[c] = 0
     \/ K2[c] = "dir" /\ L2[c] = 1 /\ L[c] = 1 /\ U2[c] = U[c]

\* A directory without entries loses its name: it is freed, or it is lost when it had
\* stopped counting its links.
LEMMA RemoveDir ==
  ASSUME NEW K, NEW L, NEW E, NEW U, Good(K, L, E, U),
         NEW d \in Inodes, NEW n \in Names, NEW c \in Inodes, NEW F, NEW K2, NEW L2, NEW U2,
         E[d][n] = c, Changed(E, F, d, n, None), K[c] = "dir", Childless(E, c),
         Dropped(K, K2, L, L2, U, U2, d, c)
  PROVE  Good(K2, L2, F, U2)
<1>0. /\ K2 \in [Inodes -> Kinds] /\ \A i \in Inodes : i # c => K2[i] = K[i]
      /\ L2 \in [Inodes -> Nat] /\ Less(L[d], L2[d])
      /\ \A i \in Inodes : i # c /\ i # d => L2[i] = L[i]
      /\ U2 \in [Inodes -> Inodes] /\ \A i \in Inodes : i # c => U2[i] = U[i]
      /\ \/ K2[c] = "free" /\ L2[c] = 0
         \/ K2[c] = "dir" /\ L2[c] = 1 /\ L[c] = 1 /\ U2[c] = U[c]
  BY Zenon DEF Dropped
<1>1. /\ Typed(K, L, E, U) /\ K[Root] = "dir" /\ Entries(K, E)
      /\ OneName(K, L, E, U) /\ Counts(K, L, E) /\ E \in Tables
  BY <1>0 DEF Good, Typed
<1>2. /\ None \notin Inodes /\ None # c /\ Root \in Inodes /\ c # Root /\ c # d
      /\ F \in Tables /\ K[d] = "dir"
  BY <1>0, <1>1, Numbers DEF Changed, Childless, Entries
<1>3. \A a \in Inodes, m \in Names : F[a][m] # c
  BY <1>0, <1>1, <1>2, SMTT(60) DEF OneName, Changed
<1>4. Typed(K2, L2, F, U2) /\ K2[Root] = "dir"
  BY <1>0, <1>1, <1>2 DEF Typed
<1>5. Entries(K2, F)
  <2> SUFFICES ASSUME NEW a \in Inodes, NEW m \in Names, F[a][m] # None
               PROVE  K2[a] = "dir" /\ F[a][m] # Root /\ K2[F[a][m]] # "free"
    BY <1>0 DEF Entries
  <2>1. F[a][m] = E[a][m] /\ F[a][m] # c /\ F[a][m] \in Inodes
    BY <1>0, <1>2, <1>3 DEF Changed, Tables
  <2>2. a # c
    BY <1>0, <2>1 DEF Childless
  <2>3. K[a] = "dir" /\ F[a][m] # Root /\ K[F[a][m]] # "free"
    BY <1>0, <1>1, <2>1 DEF Entries
  <2> QED BY <1>0, <2>1, <2>2, <2>3
<1>6. OneName(K2, L2, F, U2)
  <2> SUFFICES ASSUME NEW i \in Inodes, K2[i] = "dir"
               PROVE  /\ \A a, e \in Inodes, p, m \in Names :
                           F[a][p] = i /\ F[e][m] = i => a = e /\ p = m
                      /\ \A a \in Inodes, p \in Names : F[a][p] = i => U2[i] = a
                      /\ i = Root \/ L2[i] = 1 \/ \E a \in Inodes, p \in Names : F[a][p] = i
    BY <1>0 DEF OneName
  <2>1. CASE i = c
    BY <1>0, <1>3, <2>1
  <2>2. CASE i # c
    <3>1. \A a \in Inodes, p \in Names : F[a][p] = i <=> E[a][p] = i
      BY <1>0, <1>2, <2>2 DEF Changed
    <3>2. /\ \A a, e \in Inodes, p, m \in Names :
               E[a][p] = i /\ E[e][m] = i => a = e /\ p = m
          /\ \A a \in Inodes, p \in Names : E[a][p] = i => U[i] = a
          /\ i = Root \/ L[i] = 1 \/ \E a \in Inodes, p \in Names : E[a][p] = i
      BY <1>0, <1>1, <2>2 DEF OneName
    <3>3. L[i] = 1 => L2[i] = 1
      BY <1>0, <2>2 DEF Less
    <3> QED BY <1>0, <2>2, <3>1, <3>2, <3>3
  <2> QED BY <1>0, <2>1, <2>2
<1>7. \A i \in Inodes : DirNames(K2, F, i) = DirNames(K, F, i)
  BY <1>0, <1>2, <1>3 DEF DirNames, Tables
<1>8. /\ Cardinality(DirNames(K2, F, d)) = Cardinality(DirNames(K, E, d)) - 1
      /\ \A i \in Inodes : i # d => DirNames(K2, F, i) = DirNames(K, E, i)
  BY <1>0, <1>1, <1>7, DirNamesCleared
<1>9. \A i \in Inodes : i # c => Places(F, i) = Places(E, i)
  BY <1>0, <1>1, PlaceCleared
<1>10. Counts(K2, L2, F)
  <2> SUFFICES ASSUME NEW i \in Inodes
               PROVE  /\ K2[i] = "free" => L2[i] = 0
                      /\ K2[i] = "dir" => L2[i] = 2 + Cardinality(DirNames(K2, F, i))
                                            \/ (indexed /\ L2[i] = 1)
                      /\ K2[i] \notin {"free", "dir"} =>
                           L2[i] >= 1 /\ L2[i] = Cardinality(Places(F, i))
    BY <1>0 DEF Counts
  <2>1. CASE i = c
    <3>1. Cardinality(DirNames(K, E, c)) \in Nat
      BY FiniteTables
    <3>2. L[c] = 1 => indexed
      BY <1>0, <1>1, <3>1 DEF Counts
    <3> QED BY <1>0, <2>1, <3>2
  <2>2. CASE i = d
    <3>1. L[d] = 2 + Cardinality(DirNames(K, E, d)) \/ (indexed /\ L[d] = 1)
      BY <1>0, <1>1, <1>2 DEF Counts
    <3>2. Cardinality(DirNames(K, E, d)) \in Nat /\ Cardinality(DirNames(K2, F, d)) \in Nat
      BY FiniteTables
    <3>3. L2[d] = 2 + Cardinality(DirNames(K2, F, d)) \/ (indexed /\ L2[d] = 1)
      BY <1>0, <1>8, <3>1, <3>2 DEF Less
    <3> QED BY <1>0, <1>2, <2>2, <3>3
  <2>3. CASE i # c /\ i # d
    BY <1>0, <1>1, <1>8, <1>9, <2>3 DEF Counts
  <2> QED BY <1>0, <2>1, <2>2, <2>3
<1> QED BY <1>0, <1>4, <1>5, <1>6, <1>10 DEF Good

\* The entries when directory c is given the name n in d and then loses its old name.
Renamed(K, E, F, G, d, n, o, q, c) ==
  /\ K[d] = "dir" /\ E[d][n] = None /\ E[o][q] = c /\ K[c] = "dir"
  /\ Changed(E, F, d, n, c) /\ Changed(F, G, o, q, None)

\* The links and ".." meanwhile.
Recounted(L, L1, L2, U, U2, d, o, c) ==
  /\ L1 \in [Inodes -> Nat] /\ More(L[d], L1[d]) /\ \A i \in Inodes : i # d => L1[i] = L[i]
  /\ L2 \in [Inodes -> Nat] /\ Less(L1[o], L2[o]) /\ \A i \in Inodes : i # o => L2[i] = L1[i]
  /\ U2 \in [Inodes -> Inodes] /\ U2[c] = d /\ \A i \in Inodes : i # c => U2[i] = U[i]

\* A directory is given a new name, perhaps in another directory, and loses the old one.
LEMMA MoveDir ==
  ASSUME NEW K, NEW L, NEW E, NEW U, Good(K, L, E, U),
         NEW d \in Inodes, NEW n \in Names, NEW o \in Inodes, NEW q \in Names,
         NEW c \in Inodes, NEW F, NEW G, NEW L1, NEW L2, NEW U2,
         Renamed(K, E, F, G, d, n, o, q, c), Recounted(L, L1, L2, U, U2, d, o, c)
  PROVE  Good(K, L2, G, U2)
<1>0. /\ K[d] = "dir" /\ E[d][n] = None /\ E[o][q] = c /\ K[c] = "dir"
      /\ Changed(E, F, d, n, c) /\ Changed(F, G, o, q, None)
      /\ L1 \in [Inodes -> Nat] /\ More(L[d], L1[d]) /\ \A i \in Inodes : i # d => L1[i] = L[i]
      /\ L2 \in [Inodes -> Nat] /\ Less(L1[o], L2[o]) /\ \A i \in Inodes : i # o => L2[i] = L1[i]
      /\ U2 \in [Inodes -> Inodes] /\ U2[c] = d /\ \A i \in Inodes : i # c => U2[i] = U[i]
  BY Zenon DEF Renamed, Recounted
<1>1. /\ Typed(K, L, E, U) /\ K[Root] = "dir" /\ Entries(K, E)
      /\ OneName(K, L, E, U) /\ Counts(K, L, E) /\ E \in Tables
  BY <1>0 DEF Good, Typed
<1>2. /\ None \notin Inodes /\ None # c /\ Root \in Inodes /\ c # Root
      /\ F \in Tables /\ G \in Tables /\ K[o] = "dir"
      /\ F[o][q] = c /\ ~(o = d /\ q = n)
  BY <1>0, <1>1, Numbers DEF Changed, Entries
<1>3. Typed(K, L2, G, U2)
  BY <1>0, <1>1, <1>2 DEF Typed
<1>4. /\ G[d][n] = c /\ G[o][q] = None
      /\ \A a \in Inodes, m \in Names :
           ~(a = d /\ m = n) /\ ~(a = o /\ m = q) => G[a][m] = E[a][m]
  BY <1>0, <1>2 DEF Changed
<1>5. Entries(K, G)
  BY <1>0, <1>1, <1>2, <1>4 DEF Entries
<1>6. OneName(K, L2, G, U2)
  <2> SUFFICES ASSUME NEW i \in Inodes, K[i] = "dir"
               PROVE  /\ \A a, e \in Inodes, p, m \in Names :
                           G[a][p] = i /\ G[e][m] = i => a = e /\ p = m
                      /\ \A a \in Inodes, p \in Names : G[a][p] = i => U2[i] = a
                      /\ i = Root \/ L2[i] = 1 \/ \E a \in Inodes, p \in Names : G[a][p] = i
    BY <1>0 DEF OneName
  <2>1. CASE i = c
    <3>1. \A a \in Inodes, m \in Names : E[a][m] = c => a = o /\ m = q
      BY <1>0, <1>1 DEF OneName
    <3>2. \A a \in Inodes, m \in Names : G[a][m] = c => a = d /\ m = n
      BY <1>0, <1>2, <1>4, <3>1
    <3> QED BY <1>0, <1>4, <2>1, <3>2
  <2>2. CASE i # c
    <3>1. \A a \in Inodes, p \in Names : G[a][p] = i <=> E[a][p] = i
      BY <1>0, <1>2, <1>4, <2>2
    <3>2. /\ \A a, e \in Inodes, p, m \in Names :
               E[a][p] = i /\ E[e][m] = i => a = e /\ p = m
          /\ \A a \in Inodes, p \in Names : E[a][p] = i => U[i] = a
          /\ i = Root \/ L[i] = 1 \/ \E a \in Inodes, p \in Names : E[a][p] = i
      BY <1>0, <1>1, <2>2 DEF OneName
    <3>3. L[i] = 1 => L2[i] = 1
      <4>1. L[i] = 1 => L1[i] = 1
        BY <1>0 DEF More
      <4> QED BY <1>0, <4>1 DEF Less
    <3> QED BY <1>0, <2>2, <3>1, <3>2, <3>3
  <2> QED BY <1>0, <2>1, <2>2
<1> DEFINE C(i) == Cardinality(DirNames(K, E, i))
           CF(i) == Cardinality(DirNames(K, F, i))
           CG(i) == Cardinality(DirNames(K, G, i))
<1>7. CF(d) = C(d) + 1 /\ \A i \in Inodes : i # d => CF(i) = C(i)
  BY <1>0, <1>1, DirNamesSet
<1>8. CG(o) = CF(o) - 1 /\ \A i \in Inodes : i # o => CG(i) = CF(i)
  BY <1>0, <1>2, DirNamesCleared, SMTT(60)
<1>9. \A i \in Inodes : C(i) \in Nat /\ CF(i) \in Nat /\ CG(i) \in Nat
  BY FiniteTables
<1>10. \A i \in Inodes : i # c => Places(G, i) = Places(E, i)
  <2>1. \A i \in Inodes : i # c => Places(F, i) = Places(E, i)
    BY <1>0, <1>1, PlaceSet
  <2>2. \A i \in Inodes : i # c => Places(G, i) = Places(F, i)
    BY <1>0, <1>2, PlaceCleared
  <2> QED BY <1>0, <2>1, <2>2
<1>11. \A i \in Inodes : K[i] = "dir" => L[i] = 2 + C(i) \/ (indexed /\ L[i] = 1)
  BY <1>0, <1>1 DEF Counts
<1> HIDE DEF C, CF, CG
<1>12. ASSUME NEW i \in Inodes, K[i] = "dir"
       PROVE  L2[i] = 2 + CG(i) \/ (indexed /\ L2[i] = 1)
  <2>1. L1[i] = 2 + CF(i) \/ (indexed /\ L1[i] = 1)
    <3>1. CASE i = d
      BY <1>0, <1>7, <1>9, <1>11, <1>12, <3>1 DEF More
    <3>2. CASE i # d
      BY <1>0, <1>7, <1>11, <1>12, <3>2
    <3> QED BY <1>0, <3>1, <3>2
  <2>2. CASE i = o
    BY <1>0, <1>8, <1>9, <2>1, <2>2 DEF Less
  <2>3. CASE i # o
    BY <1>0, <1>8, <2>1, <2>3
  <2> QED BY <1>0, <2>2, <2>3
<1>13. Counts(K, L2, G)
  <2> SUFFICES ASSUME NEW i \in Inodes
               PROVE  /\ K[i] = "free" => L2[i] = 0
                      /\ K[i] = "dir" => L2[i] = 2 + Cardinality(DirNames(K, G, i))
                                            \/ (indexed /\ L2[i] = 1)
                      /\ K[i] \notin {"free", "dir"} =>
                           L2[i] >= 1 /\ L2[i] = Cardinality(Places(G, i))
    BY <1>0 DEF Counts
  <2>1. K[i] = "dir" => L2[i] = 2 + Cardinality(DirNames(K, G, i)) \/ (indexed /\ L2[i] = 1)
    BY <1>0, <1>12 DEF CG
  <2>2. K[i] # "dir" => L2[i] = L[i] /\ Places(G, i) = Places(E, i)
    BY <1>0, <1>2, <1>10
  <2>3. K[i] = "free" => L[i] = 0
    BY <1>0, <1>1 DEF Counts
  <2>4. K[i] \notin {"free", "dir"} => L[i] >= 1 /\ L[i] = Cardinality(Places(E, i))
    BY <1>0, <1>1 DEF Counts
  <2> QED BY <1>0, <2>1, <2>2, <2>3, <2>4
<1> QED BY <1>0, <1>1, <1>3, <1>5, <1>6, <1>13 DEF Good
----------------------------------------------------------------------------
(* The parts of the calls, on the record of the four functions *)

\* The type of a good tree, and of its parts.
LEMMA TreeTyped ==
  ASSUME NEW f \in FsType
  PROVE  /\ f.kind \in [Inodes -> Kinds] /\ f.links \in [Inodes -> Nat]
         /\ f.entry \in Tables /\ f.up \in [Inodes -> Inodes]
         /\ \A d \in Inodes, n \in Names : f.entry[d][n] \in Inodes \union {None}
BY DEF FsType, Tables

Written(f, d, n, c) == [f EXCEPT !.entry[d][n] = c]

\* An entry is written.
LEMMA WrittenIs ==
  ASSUME NEW f \in FsType, NEW d \in Inodes, NEW n \in Names, NEW c \in Inodes \union {None}
  PROVE  LET g == Written(f, d, n, c)
         IN  /\ g \in FsType /\ g.kind = f.kind /\ g.links = f.links /\ g.up = f.up
             /\ Changed(f.entry, g.entry, d, n, c)
<1> DEFINE g == Written(f, d, n, c)
           G == [f.entry EXCEPT ![d] = [f.entry[d] EXCEPT ![n] = c]]
<1>1. f.entry \in Tables
  BY TreeTyped
<1>2. g = [f EXCEPT !.entry = G]
  BY Zenon DEF Written
<1>3. f.entry[d] \in [Names -> Inodes \union {None}]
  BY <1>1 DEF Tables
<1>4. [f.entry[d] EXCEPT ![n] = c] \in [Names -> Inodes \union {None}]
  BY <1>3
<1>5. G \in Tables
  BY <1>1, <1>4 DEF Tables
<1>6. Changed(f.entry, G, d, n, c)
  BY <1>1, <1>3, <1>5 DEF Changed, Tables
<1> HIDE DEF G
<1>7. g \in FsType /\ g.kind = f.kind /\ g.links = f.links /\ g.up = f.up /\ g.entry = G
  BY <1>2, <1>5 DEF FsType
<1> QED BY <1>6, <1>7

\* A link is counted.
LEMMA IncIs ==
  ASSUME NEW f \in FsType, NEW i \in Inodes
  PROVE  /\ Inc(f, i) \in FsType
         /\ Inc(f, i).kind = f.kind /\ Inc(f, i).entry = f.entry /\ Inc(f, i).up = f.up
         /\ \A j \in Inodes : j # i => Inc(f, i).links[j] = f.links[j]
         /\ f.kind[i] # "dir" => Inc(f, i).links[i] = f.links[i] + 1
         /\ f.kind[i] = "dir" /\ (f.links[i] = 1 => indexed) =>
              More(f.links[i], Inc(f, i).links[i])
<1> DEFINE link == f.links[i] + 1
           many == f.kind[i] = "dir" /\ indexed /\ link > 1 /\ (link >= LinkMax \/ link = 2)
           v == IF many THEN 1 ELSE link
<1>1. Inc(f, i) = [f EXCEPT !.links[i] = v]
  BY DEF Inc
<1>2. f.links \in [Inodes -> Nat]
  BY TreeTyped
<1>3. v \in Nat
  BY <1>2
<1>4. f.kind[i] # "dir" => v = f.links[i] + 1
  OBVIOUS
<1>5. f.kind[i] = "dir" /\ (f.links[i] = 1 => indexed) => More(f.links[i], v)
  BY <1>2 DEF More
<1> HIDE DEF v
<1>6. /\ Inc(f, i) \in FsType
      /\ Inc(f, i).kind = f.kind /\ Inc(f, i).entry = f.entry /\ Inc(f, i).up = f.up
      /\ Inc(f, i).links = [f.links EXCEPT ![i] = v]
  BY <1>1, <1>2, <1>3 DEF FsType
<1> QED BY <1>2, <1>4, <1>5, <1>6

\* A link is no longer counted.
LEMMA DecIs ==
  ASSUME NEW f \in FsType, NEW i \in Inodes
  PROVE  /\ Dec(f, i) \in FsType
         /\ Dec(f, i).kind = f.kind /\ Dec(f, i).entry = f.entry /\ Dec(f, i).up = f.up
         /\ \A j \in Inodes : j # i => Dec(f, i).links[j] = f.links[j]
         /\ f.kind[i] # "dir" => Dec(f, i).links[i] = IF f.links[i] > 0 THEN f.links[i] - 1 ELSE 0
         /\ f.kind[i] = "dir" => Less(f.links[i], Dec(f, i).links[i])
<1> DEFINE v == IF f.links[i] > (IF f.kind[i] = "dir" THEN 2 ELSE 0)
                THEN f.links[i] - 1 ELSE f.links[i]
<1>1. Dec(f, i) = [f EXCEPT !.links[i] = v]
  BY DEF Dec
<1>2. f.links \in [Inodes -> Nat]
  BY TreeTyped
<1>3. v \in Nat
  BY <1>2
<1>4. f.kind[i] # "dir" => v = IF f.links[i] > 0 THEN f.links[i] - 1 ELSE 0
  BY <1>2
<1>5. f.kind[i] = "dir" => Less(f.links[i], v)
  BY <1>2 DEF Less
<1> HIDE DEF v
<1>6. /\ Dec(f, i) \in FsType
      /\ Dec(f, i).kind = f.kind /\ Dec(f, i).entry = f.entry /\ Dec(f, i).up = f.up
      /\ Dec(f, i).links = [f.links EXCEPT ![i] = v]
  BY <1>1, <1>2, <1>3 DEF FsType
<1> QED BY <1>2, <1>4, <1>5, <1>6

\* An inode is freed.
LEMMA FreeIs ==
  ASSUME NEW f \in FsType, NEW i \in Inodes
  PROVE  /\ FreeInode(f, i) \in FsType
         /\ FreeInode(f, i).kind[i] = "free" /\ FreeInode(f, i).links[i] = 0
         /\ \A j \in Inodes : j # i =>
              /\ FreeInode(f, i).kind[j] = f.kind[j] /\ FreeInode(f, i).links[j] = f.links[j]
              /\ FreeInode(f, i).entry[j] = f.entry[j] /\ FreeInode(f, i).up[j] = f.up[j]
         /\ Childless(FreeInode(f, i).entry, i)
         /\ Childless(f.entry, i) => FreeInode(f, i).entry = f.entry
<1> DEFINE g == FreeInode(f, i)
           K == [f.kind EXCEPT ![i] = "free"]
           L == [f.links EXCEPT ![i] = 0]
           E == [f.entry EXCEPT ![i] = NoEntries]
           U == [f.up EXCEPT ![i] = Root]
<1>1. /\ f.kind \in [Inodes -> Kinds] /\ f.links \in [Inodes -> Nat]
      /\ f.entry \in Tables /\ f.up \in [Inodes -> Inodes]
      /\ "free" \in Kinds /\ Root \in Inodes
  BY TreeTyped, Numbers
<1>2. NoEntries \in [Names -> Inodes \union {None}] /\ \A n \in Names : NoEntries[n] = None
  BY DEF NoEntries
<1>10. g = [f EXCEPT !.kind = K, !.links = L, !.entry = E, !.up = U]
  BY DEF FreeInode, FsType
<1> HIDE DEF g, K, L, E, U
<1>11. /\ g.kind = K /\ g.links = L /\ g.entry = E /\ g.up = U
       /\ g = [kind |-> K, links |-> L, entry |-> E, up |-> U]
  BY <1>10 DEF FsType
<1>3. /\ g.kind = [f.kind EXCEPT ![i] = "free"] /\ g.links = [f.links EXCEPT ![i] = 0]
      /\ g.entry = [f.entry EXCEPT ![i] = NoEntries] /\ g.up = [f.up EXCEPT ![i] = Root]
      /\ g = [kind |-> g.kind, links |-> g.links, entry |-> g.entry, up |-> g.up]
  BY <1>11 DEF K, L, E, U
<1>4. g.kind \in [Inodes -> Kinds] /\ g.links \in [Inodes -> Nat] /\ g.up \in [Inodes -> Inodes]
  BY <1>1, <1>3
<1>5. g.entry \in Tables
  BY <1>1, <1>2, <1>3 DEF Tables
<1>6. g \in FsType
  BY <1>3, <1>4, <1>5 DEF FsType
<1>7. /\ g.kind[i] = "free" /\ g.links[i] = 0 /\ g.entry[i] = NoEntries
      /\ \A j \in Inodes : j # i =>
           /\ g.kind[j] = f.kind[j] /\ g.links[j] = f.links[j]
           /\ g.entry[j] = f.entry[j] /\ g.up[j] = f.up[j]
  BY <1>1, <1>3 DEF Tables
<1>8. Childless(g.entry, i)
  BY <1>2, <1>7 DEF Childless
<1>9. ASSUME Childless(f.entry, i) PROVE g.entry = f.entry
  <2>1. f.entry[i] \in [Names -> Inodes \union {None}]
    BY <1>1 DEF Tables
  <2>2. f.entry[i] = NoEntries
    BY <1>9, <2>1 DEF Childless, NoEntries
  <2> QED BY <1>1, <1>3, <2>2 DEF Tables
<1> QED BY <1>6, <1>7, <1>8, <1>9 DEF g

\* The kind of an inode is set.
LEMMA KindIs ==
  ASSUME NEW f \in FsType, NEW i \in Inodes, NEW k \in Kinds
  PROVE  LET g == [f EXCEPT !.kind[i] = k]
         IN  /\ g \in FsType /\ g.links = f.links /\ g.up = f.up /\ g.entry = f.entry
             /\ g.kind[i] = k /\ \A j \in Inodes : j # i => g.kind[j] = f.kind[j]
<1> DEFINE K == [f.kind EXCEPT ![i] = k]
<1>1. f.kind \in [Inodes -> Kinds]
  BY TreeTyped
<1>2. K \in [Inodes -> Kinds] /\ K[i] = k /\ \A j \in Inodes : j # i => K[j] = f.kind[j]
  BY <1>1
<1> HIDE DEF K
<1>3. [f EXCEPT !.kind[i] = k] = [f EXCEPT !.kind = K]
  BY Zenon DEF K
<1> QED BY <1>2, <1>3 DEF FsType

Dotted(f, i, d) == [f EXCEPT !.up[i] = d]

Begun(f, i, d) == [f EXCEPT !.up[i] = d, !.links[i] = 2]

\* ".." of a directory that is moved is set.
LEMMA DottedIs ==
  ASSUME NEW f \in FsType, NEW i \in Inodes, NEW d \in Inodes
  PROVE  LET g == Dotted(f, i, d)
         IN  /\ g \in FsType /\ g.links = f.links /\ g.kind = f.kind /\ g.entry = f.entry
             /\ g.up[i] = d /\ \A j \in Inodes : j # i => g.up[j] = f.up[j]
<1> DEFINE U == [f.up EXCEPT ![i] = d]
<1>1. f.up \in [Inodes -> Inodes]
  BY TreeTyped
<1>2. U \in [Inodes -> Inodes] /\ U[i] = d /\ \A j \in Inodes : j # i => U[j] = f.up[j]
  BY <1>1
<1> HIDE DEF U
<1>3. Dotted(f, i, d) = [f EXCEPT !.up = U]
  BY Zenon DEF U, Dotted
<1> QED BY <1>2, <1>3 DEF FsType

\* ".." and the links of a new directory are set.
LEMMA BegunIs ==
  ASSUME NEW f \in FsType, NEW i \in Inodes, NEW d \in Inodes
  PROVE  LET g == Begun(f, i, d)
         IN  /\ g \in FsType /\ g.kind = f.kind /\ g.entry = f.entry
             /\ g.up[i] = d /\ \A j \in Inodes : j # i => g.up[j] = f.up[j]
             /\ g.links[i] = 2 /\ \A j \in Inodes : j # i => g.links[j] = f.links[j]
<1> DEFINE U == [f.up EXCEPT ![i] = d]
           L == [f.links EXCEPT ![i] = 2]
<1>1. f.up \in [Inodes -> Inodes] /\ f.links \in [Inodes -> Nat]
  BY TreeTyped
<1>2. /\ U \in [Inodes -> Inodes] /\ U[i] = d /\ \A j \in Inodes : j # i => U[j] = f.up[j]
      /\ L \in [Inodes -> Nat] /\ L[i] = 2 /\ \A j \in Inodes : j # i => L[j] = f.links[j]
  BY <1>1
<1> HIDE DEF U, L
<1>3. Begun(f, i, d) = [f EXCEPT !.up = U, !.links = L]
  BY DEF U, L, FsType, Begun
<1> QED BY <1>2, <1>3 DEF FsType

----------------------------------------------------------------------------
(* ext4_link, ext4_fs_alloc_inode and the walk along a path *)

\* The links of a directory of a good tree: one link means the tree is indexed.
LEMMA OneLink ==
  ASSUME NEW f, GoodTree(f), NEW i \in Inodes, f.kind[i] = "dir", f.links[i] = 1
  PROVE  indexed
<1>1. Cardinality(DirNames(f.kind, f.entry, i)) \in Nat
  BY FiniteTables
<1> QED BY <1>1 DEF GoodTree, Good, Counts

\* The ".." of an inode that is not in use does not matter.
LEMMA UnusedUp ==
  ASSUME NEW K, NEW L, NEW E, NEW U, Good(K, L, E, U), NEW c \in Inodes, K[c] = "free",
         NEW V \in [Inodes -> Inodes], \A i \in Inodes : i # c => V[i] = U[i]
  PROVE  Good(K, L, E, V)
<1>1. Typed(K, L, E, V)
  BY DEF Good, Typed
<1>2. OneName(K, L, E, V)
  BY DEF Good, OneName
<1> QED BY <1>1, <1>2 DEF Good

\* The link of a new inode: a good tree with the name, or, when there is no room, no
\* entry is left behind and the inode is freed again, the tree as it was.
LEMMA LinkNew ==
  ASSUME NEW f, GoodTree(f), NEW d \in Inodes, f.kind[d] = "dir", NEW n \in Names,
         f.entry[d][n] = None, NEW c \in Inodes, f.kind[c] = "free",
         NEW kind \in Kinds, kind # "free", NEW last, NEW room
  PROVE  LET new == [f EXCEPT !.kind[c] = kind]
             lnk == Link(new, d, c, n, last, FALSE, room)
         IN  /\ lnk.r = "EOK" => GoodTree(lnk.fs) /\ lnk.fs.entry[d][n] = c
             /\ lnk.r \notin {"EOK", "LEFT"} => GoodTree(FreeInode(lnk.fs, c))
<1> DEFINE new == [f EXCEPT !.kind[c] = kind]
           added == Written(new, d, n, c)
           lnk == Link(new, d, c, n, last, FALSE, room)
           dotted == Begun(added, c, d)
<1>1. f \in FsType /\ Good(f.kind, f.links, f.entry, f.up) /\ c # d /\ c # None
  BY Numbers DEF GoodTree
<1>2. /\ new \in FsType /\ new.links = f.links /\ new.up = f.up /\ new.entry = f.entry
      /\ new.kind[c] = kind /\ \A j \in Inodes : j # c => new.kind[j] = f.kind[j]
  BY <1>1, KindIs
<1> HIDE DEF new
<1>3. /\ added \in FsType /\ added.kind = new.kind /\ added.links = new.links
      /\ added.up = new.up /\ Changed(new.entry, added.entry, d, n, c)
  BY <1>2, WrittenIs
<1> HIDE DEF added
<1>4. /\ dotted \in FsType /\ dotted.kind = added.kind /\ dotted.entry = added.entry
      /\ dotted.up[c] = d /\ \A j \in Inodes : j # c => dotted.up[j] = added.up[j]
      /\ dotted.links[c] = 2 /\ \A j \in Inodes : j # c => dotted.links[j] = added.links[j]
  BY <1>3, BegunIs, ZenonT(60)
<1>5. /\ room = "add" => lnk = Answer(new, "ENOSPC")
      /\ room # "add" /\ kind = "dir" /\ room # "enough" =>
           lnk = IF ~indexed /\ last THEN Answer(new, "ENOSPC") ELSE Answer(added, "LEFT")
      /\ room = "enough" /\ kind = "dir" => lnk = Answer(Inc(dotted, d), "EOK")
      /\ room # "add" /\ kind # "dir" => lnk = Answer(Inc(added, c), "EOK")
  BY <1>2, Zenon DEF Link, added, Written, Begun
<1> HIDE DEF dotted, lnk
<1>6. \A g, r : Answer(g, r).fs = g /\ Answer(g, r).r = r
  BY DEF Answer
<1>7. f.links[c] = 0 /\ Childless(f.entry, c)
  BY <1>1 DEF Good, Counts, Entries, Childless
<1>8. GoodTree(FreeInode(new, c))
  <2> DEFINE g == FreeInode(new, c)
  <2>1. /\ g \in FsType /\ g.kind[c] = "free" /\ g.links[c] = 0
        /\ \A j \in Inodes : j # c =>
             g.kind[j] = new.kind[j] /\ g.links[j] = new.links[j] /\ g.up[j] = new.up[j]
        /\ g.entry = f.entry
    BY <1>2, <1>7, FreeIs
  <2> HIDE DEF g
  <2>2. g.kind = f.kind
    BY <1>1, <1>2, <2>1, TreeTyped
  <2>3. g.links = f.links
    BY <1>1, <1>2, <1>7, <2>1, TreeTyped
  <2>4. Good(f.kind, f.links, f.entry, g.up)
    BY <1>1, <1>2, <2>1, TreeTyped, UnusedUp
  <2> QED BY <2>1, <2>2, <2>3, <2>4 DEF GoodTree, g
<1>10. ASSUME lnk.r \notin {"EOK", "LEFT"} PROVE GoodTree(FreeInode(lnk.fs, c))
  <2>1. lnk.fs = new
    BY <1>5, <1>6, <1>10
  <2> QED BY <1>8, <2>1
<1>11. ASSUME room = "enough", kind = "dir"
       PROVE  GoodTree(Inc(dotted, d)) /\ Inc(dotted, d).entry[d][n] = c
  <2> DEFINE g == Inc(dotted, d)
  <2>1. dotted.links[d] = f.links[d] /\ dotted.kind[d] = "dir"
    BY <1>1, <1>2, <1>3, <1>4
  <2>2. f.links[d] = 1 => indexed
    BY OneLink
  <2>3. /\ g \in FsType /\ g.kind = dotted.kind /\ g.entry = dotted.entry /\ g.up = dotted.up
        /\ \A j \in Inodes : j # d => g.links[j] = dotted.links[j]
        /\ More(dotted.links[d], g.links[d])
    BY <1>4, <2>1, <2>2, IncIs
  <2> HIDE DEF g
  <2>4. /\ Changed(f.entry, g.entry, d, n, c) /\ g.kind[c] = "dir"
        /\ \A j \in Inodes : j # c => g.kind[j] = f.kind[j]
    BY <1>2, <1>3, <1>4, <1>11, <2>3
  <2>5. /\ g.links[c] = 2 /\ More(f.links[d], g.links[d])
        /\ \A j \in Inodes : j # c /\ j # d => g.links[j] = f.links[j]
    BY <1>1, <1>2, <1>3, <1>4, <2>1, <2>3
  <2>6. g.up[c] = d /\ \A j \in Inodes : j # c => g.up[j] = f.up[j]
    BY <1>2, <1>3, <1>4, <2>3
  <2>7. /\ g.kind \in [Inodes -> Kinds] /\ g.links \in [Inodes -> Nat]
        /\ g.up \in [Inodes -> Inodes]
    BY <2>3, TreeTyped
  <2>8. Good(g.kind, g.links, g.entry, g.up)
    BY <1>1, <2>4, <2>5, <2>6, <2>7, AddDir
  <2>9. g.entry[d][n] = c
    BY <2>4 DEF Changed
  <2> QED BY <2>3, <2>8, <2>9 DEF GoodTree, g
<1>12. ASSUME kind # "dir"
       PROVE  GoodTree(Inc(added, c)) /\ Inc(added, c).entry[d][n] = c
  <2> DEFINE g == Inc(added, c)
  <2>1. added.kind[c] # "dir"
    BY <1>2, <1>3, <1>12
  <2>2. /\ g \in FsType /\ g.kind = added.kind /\ g.entry = added.entry /\ g.up = added.up
        /\ \A j \in Inodes : j # c => g.links[j] = added.links[j]
        /\ g.links[c] = added.links[c] + 1
    BY <1>3, <2>1, IncIs
  <2> HIDE DEF g
  <2>3. /\ Changed(f.entry, g.entry, d, n, c) /\ g.kind[c] \notin {"free", "dir"}
        /\ \A j \in Inodes : j # c => g.kind[j] = f.kind[j]
        /\ g.up = f.up /\ g.links[c] = f.links[c] + 1
        /\ \A j \in Inodes : j # c => g.links[j] = f.links[j]
    BY <1>2, <1>3, <1>12, <2>2
  <2>4. g.kind \in [Inodes -> Kinds] /\ g.links \in [Inodes -> Nat]
    BY <2>2, TreeTyped
  <2>5. f.kind[c] # "dir"
    OBVIOUS
  <2>6. Good(g.kind, g.links, g.entry, f.up)
    BY <1>1, <2>3, <2>4, <2>5, AddFile
  <2>7. g.entry[d][n] = c
    BY <2>3 DEF Changed
  <2> QED BY <2>2, <2>3, <2>6, <2>7 DEF GoodTree, g
<1>13. ASSUME lnk.r = "EOK" PROVE GoodTree(lnk.fs) /\ lnk.fs.entry[d][n] = c
  <2>1. \/ room = "enough" /\ kind = "dir" /\ lnk.fs = Inc(dotted, d)
        \/ kind # "dir" /\ lnk.fs = Inc(added, c)
    BY <1>5, <1>6, <1>13
  <2> QED BY <1>11, <1>12, <2>1
<1> QED BY <1>10, <1>13 DEF lnk, new
\* ext4_fs_alloc_inode and the link: what a component that is missing becomes.
LEMMA CreateStep ==
  ASSUME NEW f, GoodTree(f), NEW d \in Inodes, f.kind[d] = "dir", NEW n \in Names,
         f.entry[d][n] = None, NEW kind \in Kinds, kind # "free", NEW last, NEW room
  PROVE  LET made == Create(f, d, n, kind, last, room)
         IN  /\ made.r = "EOK" => GoodTree(made.fs) /\ made.fs.entry[d][n] \in Inodes
             /\ made.r \notin {"EOK", "LEFT"} => GoodTree(made.fs)
<1> DEFINE made == Create(f, d, n, kind, last, room)
           c == Min(Unused(f))
           lnk == Link([f EXCEPT !.kind[c] = kind], d, c, n, last, FALSE, room)
<1>0. "EOK" # "ENOSPC" /\ \A g, r : Answer(g, r).fs = g /\ Answer(g, r).r = r
  BY DEF Answer
<1>1. CASE Unused(f) = {}
  <2>1. made = Answer(f, "ENOSPC")
    BY <1>1 DEF Create
  <2> QED BY <1>0, <2>1
<1>2. CASE Unused(f) # {}
  <2>1. Unused(f) \subseteq Nat
    BY Numbers DEF Unused
  <2>2. c \in Unused(f)
    BY <1>2, <2>1, MinNat
  <2>3. c \in Inodes /\ f.kind[c] = "free"
    BY <2>2 DEF Unused
  <2>4. made = IF lnk.r = "EOK" THEN lnk ELSE Answer(FreeInode(lnk.fs, c), lnk.r)
    BY <1>2, Zenon DEF Create
  <2> HIDE DEF c, made
  <2>5. /\ lnk.r = "EOK" => GoodTree(lnk.fs) /\ lnk.fs.entry[d][n] = c
        /\ lnk.r \notin {"EOK", "LEFT"} => GoodTree(FreeInode(lnk.fs, c))
    BY <2>3, LinkNew, Zenon
  <2> HIDE DEF lnk
  <2>6. /\ made.r = "EOK" => GoodTree(made.fs) /\ made.fs.entry[d][n] \in Inodes
        /\ made.r \notin {"EOK", "LEFT"} => GoodTree(made.fs)
    BY <1>0, <2>3, <2>4, <2>5
  <2> QED BY <2>6 DEF made
<1> QED BY <1>1, <1>2

\* What the walk has reached after k components of a path.
Reached(w, k, path, kind, create) ==
  /\ w = [fs |-> w.fs, node |-> w.node, parent |-> w.parent, r |-> w.r]
  /\ ~create => w.fs = fs
  /\ w.r \notin {"EOK", "LEFT"} => GoodTree(w.fs)
  /\ w.r = "EOK" =>
       /\ GoodTree(w.fs) /\ w.node \in Inodes /\ w.parent \in Inodes
       /\ k > 0 => w.fs.entry[w.parent][path[k]] = w.node
       /\ k < Len(path) \/ kind = "dir" => w.fs.kind[w.node] = "dir"

\* A component more.
LEMMA TurnStep ==
  ASSUME NEW path \in Seq(Names), NEW kind, NEW create \in BOOLEAN, NEW full, NEW w,
         NEW k \in 1 .. Len(path), create => kind \in Kinds \ {"free"},
         Reached(w, k - 1, path, kind, create)
  PROVE  Reached(Turn(path, kind, create, full, w, k), k, path, kind, create)
<1> DEFINE last == k = Len(path)
           room == IF full.at = k THEN full.room ELSE "enough"
           want == IF last THEN kind ELSE "dir"
           missing == w.fs.entry[w.node][path[k]] = None
           made == IF missing /\ create
                   THEN Create(w.fs, w.node, path[k], want, last, room)
                   ELSE Answer(w.fs, "EOK")
           next == made.fs.entry[w.node][path[k]]
           t == Turn(path, kind, create, full, w, k)
<1>1. t = IF w.r # "EOK" THEN w
          ELSE IF made.r # "EOK" THEN [w EXCEPT !.fs = made.fs, !.r = made.r]
          ELSE IF next = None THEN [w EXCEPT !.r = "ENOENT"]
          ELSE IF want # "any" /\ made.fs.kind[next] # want
          THEN [w EXCEPT !.fs = made.fs, !.r = "ENOENT"]
          ELSE [fs |-> made.fs, node |-> next, parent |-> w.node, r |-> "EOK"]
  BY Zenon DEF Turn
<1>2. path[k] \in Names /\ Len(path) \in Nat /\ k \in Nat /\ k - 1 < Len(path) /\ k > 0
  OBVIOUS
<1>3. CASE w.r # "EOK"
  <2>1. t = w
    BY <1>1, <1>3
  <2> QED BY <1>3, <2>1 DEF Reached
<1>4. CASE w.r = "EOK"
  <2>1. /\ GoodTree(w.fs) /\ w.node \in Inodes /\ w.parent \in Inodes
        /\ w.fs.kind[w.node] = "dir"
        /\ ~create => w.fs = fs
        /\ w = [fs |-> w.fs, node |-> w.node, parent |-> w.parent, r |-> w.r]
    BY <1>2, <1>4 DEF Reached
  <2>2. /\ made.r = "EOK" => GoodTree(made.fs)
        /\ made.r \notin {"EOK", "LEFT"} => GoodTree(made.fs)
        /\ ~create => made.fs = fs
        /\ ~create \/ ~missing => made.fs = w.fs
        /\ create /\ made.r = "EOK" => next # None
    <3>1. CASE missing /\ create
      <4>1. want \in Kinds /\ want # "free"
        BY <3>1, Numbers
      <4> DEFINE m == Create(w.fs, w.node, path[k], want, last, room)
      <4> HIDE DEF want, last, room
      <4>2. w.fs.entry[w.node][path[k]] = None
        BY <3>1
      <4>3. /\ m.r = "EOK" => GoodTree(m.fs) /\ m.fs.entry[w.node][path[k]] \in Inodes
            /\ m.r \notin {"EOK", "LEFT"} => GoodTree(m.fs)
        BY <1>2, <2>1, <4>1, <4>2, CreateStep
      <4>4. made = m
        BY <3>1
      <4> QED BY <3>1, <4>3, <4>4, Numbers
    <3>2. CASE ~(missing /\ create)
      <4>1. made = Answer(w.fs, "EOK")
        BY <3>2
      <4>2. made.fs = w.fs /\ made.r = "EOK"
        BY <4>1 DEF Answer
      <4> HIDE DEF made
      <4>3. create => next # None
        BY <3>2, <4>2
      <4> QED BY <2>1, <4>2, <4>3
    <3> QED BY <3>1, <3>2
  <2> HIDE DEF made, t, want
  <2>3. CASE made.r # "EOK"
    <3>1. t.fs = made.fs /\ t.r = made.r /\ t = [fs |-> t.fs, node |-> t.node, parent |-> t.parent, r |-> t.r]
      BY <1>1, <1>4, <2>1, <2>3
    <3> QED BY <2>2, <2>3, <3>1 DEF Reached, t
  <2>4. CASE made.r = "EOK" /\ next = None
    <3>1. ~create
      BY <2>2, <2>4
    <3>2. t.fs = w.fs /\ t.r = "ENOENT" /\ t = [fs |-> t.fs, node |-> t.node, parent |-> t.parent, r |-> t.r]
      BY <1>1, <1>4, <2>1, <2>4
    <3> QED BY <2>1, <3>1, <3>2 DEF Reached, t
  <2>5. CASE made.r = "EOK" /\ next # None /\ want # "any" /\ made.fs.kind[next] # want
    <3>1. t.fs = made.fs /\ t.r = "ENOENT" /\ t = [fs |-> t.fs, node |-> t.node, parent |-> t.parent, r |-> t.r]
      BY <1>1, <1>4, <2>1, <2>5
    <3> QED BY <2>2, <2>5, <3>1 DEF Reached, t
  <2>6. CASE made.r = "EOK" /\ next # None /\ (want = "any" \/ made.fs.kind[next] = want)
    <3>1. t = [fs |-> made.fs, node |-> next, parent |-> w.node, r |-> "EOK"]
      BY <1>1, <1>4, <2>6
    <3>2. next \in Inodes
      BY <1>2, <2>1, <2>2, <2>6, TreeTyped DEF GoodTree
    <3>3. k < Len(path) \/ kind = "dir" => want = "dir"
      BY <1>2 DEF want
    <3>4. k < Len(path) \/ kind = "dir" => made.fs.kind[next] = "dir"
      BY <2>6, <3>3
    <3> HIDE DEF next
    <3>5. /\ t.fs = made.fs /\ t.node = next /\ t.parent = w.node /\ t.r = "EOK"
          /\ t = [fs |-> t.fs, node |-> t.node, parent |-> t.parent, r |-> t.r]
      BY <3>1
    <3>6. t.fs.entry[t.parent][path[k]] = t.node
      BY <3>5 DEF next
    <3> QED BY <2>1, <2>2, <2>6, <3>2, <3>4, <3>5, <3>6 DEF Reached, t
  <2> QED BY <2>3, <2>4, <2>5, <2>6
<1> QED BY <1>3, <1>4

\* Walk is the function its recursion describes.
LEMMA WalkDef ==
  ASSUME NEW path \in Seq(Names), NEW kind, NEW create, NEW full
  PROVE  LET w == Walk(path, kind, create, full)
         IN  /\ w[0] = [fs |-> fs, node |-> Root, parent |-> Root, r |-> "EOK"]
             /\ \A k \in 1 .. Len(path) : w[k] = Turn(path, kind, create, full, w[k - 1], k)
<1> DEFINE n == Len(path)
           start == [fs |-> fs, node |-> Root, parent |-> Root, r |-> "EOK"]
           T(v, k) == Turn(path, kind, create, full, v, k)
           Step(g, k) == IF k = 0 THEN start ELSE T(g[k - 1], k)
           Good1(g, k) == g = [i \in 0 .. k |-> Step(g, i)]
           Bad == {k \in 0 .. n : ~ \E g : Good1(g, k)}
<1>0. n \in Nat
  OBVIOUS
<1> HIDE DEF n, T, start
<1>1. Bad = {}
  <2> SUFFICES ASSUME Bad # {} PROVE FALSE
    OBVIOUS
  <2>1. Bad \subseteq Nat
    OBVIOUS
  <2> HIDE DEF Bad
  <2>2. PICK k \in Bad : \A y \in Bad : k <= y
    BY <2>1, MinNat
  <2>3. k \in 0 .. n /\ ~ \E g : Good1(g, k)
    BY <2>2 DEF Bad
  <2>4. CASE k = 0
    <3> DEFINE g == [i \in 0 .. 0 |-> start]
    <3>1. Good1(g, 0)
      OBVIOUS
    <3> QED BY <2>3, <2>4, <3>1
  <2>5. CASE k > 0
    <3>1. k - 1 \in 0 .. n /\ k - 1 \notin Bad
      BY <1>0, <2>1, <2>2, <2>3, <2>5
    <3>2. PICK g : Good1(g, k - 1)
      BY <3>1 DEF Bad
    <3> DEFINE f == [i \in 0 .. k |-> IF i < k THEN g[i] ELSE Step(g, k)]
    <3>3. k \in 1 .. n
      BY <1>0, <2>3, <2>5
    <3>4. \A i \in 0 .. k : f[i] = Step(f, i)
      <4> TAKE i \in 0 .. k
      <4>1. CASE i = k
        <5>1. f[k] = Step(g, k) /\ f[k - 1] = g[k - 1]
          BY <3>3
        <5> QED BY <3>3, <4>1, <5>1
      <4>2. CASE i < k
        <5>1. f[i] = g[i] /\ i \in 0 .. k - 1
          BY <3>3, <4>2
        <5>2. g[i] = Step(g, i)
          BY <3>2, <5>1
        <5>3. i # 0 => f[i - 1] = g[i - 1]
          BY <3>3, <4>2
        <5> QED BY <5>1, <5>2, <5>3
      <4> QED BY <3>3, <4>1, <4>2
    <3>5. Good1(f, k)
      BY <3>4
    <3> QED BY <2>3, <3>5
  <2> QED BY <1>0, <2>3, <2>4, <2>5
<1>2. PICK g : Good1(g, n)
  <2>1. n \in 0 .. n
    BY <1>0
  <2>2. n \notin Bad
    BY <1>1, Zenon
  <2> QED BY <2>1, <2>2
<1> DEFINE w == Walk(path, kind, create, full)
<1>3. w = CHOOSE f : f = [i \in 0 .. n |-> Step(f, i)]
  BY Zenon DEF Walk, n, T, start
<1>4. w = [i \in 0 .. n |-> Step(w, i)]
  BY <1>2, <1>3, Zenon
<1> HIDE DEF w
<1>5. \A i \in 0 .. n : w[i] = Step(w, i)
  BY <1>4, Zenon
<1>6. w[0] = start
  BY <1>0, <1>5
<1>7. \A k \in 1 .. n : w[k] = T(w[k - 1], k)
  <2> TAKE k \in 1 .. n
  <2>1. k \in 0 .. n /\ k # 0
    BY <1>0
  <2> QED BY <1>5, <2>1
<1> QED BY <1>6, <1>7 DEF w, start, T, n

\* Where the walk ends.
LEMMA WalkEnds ==
  ASSUME GoodTree(fs), NEW path \in Seq(Names), NEW kind, NEW create \in BOOLEAN, NEW full,
         create => kind \in Kinds \ {"free"}
  PROVE  Reached(Open2(path, kind, create, full), Len(path), path, kind, create)
<1> DEFINE w == Walk(path, kind, create, full)
           n == Len(path)
           P(k) == Reached(w[k], k, path, kind, create)
           Bad == {k \in 0 .. n : ~P(k)}
<1>1. /\ w[0] = [fs |-> fs, node |-> Root, parent |-> Root, r |-> "EOK"]
      /\ \A k \in 1 .. n : w[k] = Turn(path, kind, create, full, w[k - 1], k)
  BY WalkDef
<1>2. n \in Nat
  OBVIOUS
<1> HIDE DEF w
<1>3. P(0)
  <2>1. Root \in Inodes /\ fs.kind[Root] = "dir"
    BY Numbers DEF GoodTree, Good
  <2> QED BY <1>1, <2>1 DEF Reached
<1>4. ASSUME NEW k \in 1 .. n, P(k - 1) PROVE P(k)
  BY <1>1, <1>4, TurnStep
<1> HIDE DEF P, n
<1>5. Bad = {}
  <2> SUFFICES ASSUME Bad # {} PROVE FALSE
    OBVIOUS
  <2>1. Bad \subseteq Nat
    OBVIOUS
  <2>2. PICK k \in Bad : \A y \in Bad : k <= y
    BY <2>1, MinNat
  <2>3. k \in 0 .. n /\ ~P(k) /\ k # 0
    BY <1>3
  <2>4. k \in 1 .. n /\ k - 1 \in 0 .. n /\ k - 1 \notin Bad
    BY <1>2, <2>2, <2>3
  <2> QED BY <1>4, <2>3, <2>4
<1>6. P(n)
  BY <1>2, <1>5
<1> QED BY <1>6 DEF P, n, w, Open2
----------------------------------------------------------------------------
(* The calls *)

\* A tree stays good while the kind of the file system does not change.
LEMMA StaysGood ==
  ASSUME NEW f, GoodTree(f), fs' = f, indexed' = indexed
  PROVE  GoodTree(fs)'
BY DEF GoodTree, Good, Counts

\* A call that is one step: what it leaves is a good tree, or it says that it is torn.
LEMMA Becoming ==
  ASSUME IInv, Idle, NEW f, NEW whole \in BOOLEAN, whole => GoodTree(f), Becomes(f, whole),
         UNCHANGED rm
  PROVE  IInv'
<1>1. fs' = f /\ intact' = whole /\ rm' = rm /\ indexed' = indexed
  BY Zenon DEF Becomes
<1>2. rm.depth = 0 /\ RmInv
  BY DEF Idle, IInv
<1>3. RmInv'
  BY <1>1, <1>2 DEF RmInv
<1>4. intact' => GoodTree(fs)'
  BY <1>1, StaysGood
<1> QED BY <1>1, <1>3, <1>4 DEF IInv

\* fopen, fsymlink, mknod and dir_mk.
LEMMA OpenStep ==
  ASSUME IInv, NEW path \in Paths, NEW kind, kind # "free", NEW full, Open(path, kind, full)
  PROVE  IInv'
<1>1. /\ Idle /\ UNCHANGED rm /\ kind \in Kinds
      /\ Becomes(Open2(path, kind, TRUE, full).fs,
                 Open2(path, kind, TRUE, full).r # "LEFT")
      /\ path \in Seq(Names)
  BY NamespaceAssumption DEF Open
<1>2. GoodTree(fs)
  BY <1>1 DEF IInv, Idle
<1> DEFINE w == Open2(path, kind, TRUE, full)
<1>3. Reached(w, Len(path), path, kind, TRUE)
  BY <1>1, <1>2, WalkEnds
<1> HIDE DEF w
<1>4. w.r # "LEFT" => GoodTree(w.fs)
  BY <1>3 DEF Reached
<1> QED BY <1>1, <1>4, Becoming DEF w

\* What an existing path leads to.
LEMMA Found ==
  ASSUME GoodTree(fs), NEW path \in Paths, NEW kind,
         Open2(path, kind, FALSE, NoFull).r = "EOK"
  PROVE  LET src == Open2(path, kind, FALSE, NoFull)
         IN  /\ src.node \in Inodes /\ src.parent \in Inodes /\ Last(path) \in Names
             /\ fs.entry[src.parent][Last(path)] = src.node
             /\ src.node # Root /\ fs.kind[src.node] # "free" /\ fs.kind[src.parent] = "dir"
             /\ kind = "dir" => fs.kind[src.node] = "dir"
<1> DEFINE src == Open2(path, kind, FALSE, NoFull)
<1>1. path \in Seq(Names) /\ path # <<>>
  BY NamespaceAssumption
<1>2. Len(path) \in Nat /\ Len(path) > 0 /\ Last(path) = path[Len(path)] /\ Last(path) \in Names
  BY <1>1 DEF Last
<1>3. Reached(src, Len(path), path, kind, FALSE)
  BY <1>1, WalkEnds
<1> HIDE DEF src
<1>4. /\ src.node \in Inodes /\ src.parent \in Inodes /\ src.fs = fs
      /\ fs.entry[src.parent][Last(path)] = src.node
      /\ kind = "dir" => fs.kind[src.node] = "dir"
  BY <1>2, <1>3 DEF Reached, src
<1>5. src.node # Root /\ fs.kind[src.node] # "free" /\ fs.kind[src.parent] = "dir"
  BY <1>2, <1>4, Numbers DEF GoodTree, Good, Entries
<1> QED BY <1>2, <1>4, <1>5 DEF src

\* The answer of ext4_create_hardlink is that of a link under a name that is not taken.
Linked(lnk, c, rename, room) ==
  \/ lnk = Answer(fs, "EEXIST")
  \/ \E d \in Inodes, n \in Names :
       /\ fs.kind[d] = "dir" /\ fs.entry[d][n] = None
       /\ lnk = Link(fs, d, c, n, TRUE, rename, room)

\* What ext4_create_hardlink finds before it links, when it does.
LEMMA Hardlink ==
  ASSUME GoodTree(fs), NEW path \in Paths, NEW c, NEW rename, NEW room
  PROVE  Linked(CreateHardlink(path, c, rename, room), c, rename, room)
<1> DEFINE lnk == CreateHardlink(path, c, rename, room)
           dir == Open2(Front(path), "dir", FALSE, NoFull)
<1>1. path \in Seq(Names) /\ path # <<>>
  BY NamespaceAssumption
<1>2. Last(path) \in Names /\ Front(path) \in Seq(Names)
  BY <1>1 DEF Last, Front
<1>3. Reached(dir, Len(Front(path)), Front(path), "dir", FALSE)
  BY <1>2, WalkEnds
<1>4. lnk = IF dir.r # "EOK" \/ dir.fs.entry[dir.node][Last(path)] # None
            THEN Answer(fs, "EEXIST")
            ELSE Link(fs, dir.node, c, Last(path), TRUE, rename, room)
  BY Zenon DEF CreateHardlink
<1> HIDE DEF dir, lnk
<1>5. /\ dir.fs = fs
      /\ dir.r = "EOK" => dir.node \in Inodes /\ fs.kind[dir.node] = "dir"
  BY <1>3 DEF Reached
<1>6. CASE dir.r # "EOK" \/ dir.fs.entry[dir.node][Last(path)] # None
  <2>1. Linked(lnk, c, rename, room)
    BY <1>4, <1>6 DEF Linked
  <2> QED BY <2>1 DEF lnk
<1>7. CASE dir.r = "EOK" /\ dir.fs.entry[dir.node][Last(path)] = None
  <2>1. Linked(lnk, c, rename, room)
    BY <1>2, <1>4, <1>5, <1>7 DEF Linked
  <2> QED BY <2>1 DEF lnk
<1> QED BY <1>6, <1>7

\* ext4_flink.
LEMMA FlinkStep ==
  ASSUME IInv, NEW path \in Paths, NEW new \in Paths, NEW room, Flink(path, new, room)
  PROVE  IInv'
<1> DEFINE src == Lookup(path)
           c == src.node
           lnk == CreateHardlink(new, c, FALSE, room)
<1>1. /\ Idle /\ UNCHANGED rm /\ src.r = "EOK" /\ fs.kind[c] # "dir" /\ Becomes(lnk.fs, TRUE)
  BY DEF Flink
<1>2. GoodTree(fs)
  BY <1>1 DEF IInv, Idle
<1>3. c \in Inodes /\ fs.kind[c] # "free"
  BY <1>1, <1>2, Found DEF Lookup
<1> HIDE DEF c, src
<1>6. Linked(lnk, c, FALSE, room)
  BY <1>2, Hardlink, Zenon
<1> HIDE DEF lnk
<1>5. \/ lnk = Answer(fs, "EEXIST")
      \/ \E d \in Inodes, n \in Names :
           /\ fs.kind[d] = "dir" /\ fs.entry[d][n] = None
           /\ lnk = Link(fs, d, c, n, TRUE, FALSE, room)
  BY <1>6, Zenon DEF Linked
<1>4. GoodTree(lnk.fs)
  <2>1. CASE lnk = Answer(fs, "EEXIST")
    BY <1>2, <2>1 DEF Answer
  <2>2. ASSUME NEW d \in Inodes, NEW n \in Names, fs.kind[d] = "dir", fs.entry[d][n] = None,
               lnk = Link(fs, d, c, n, TRUE, FALSE, room)
        PROVE  GoodTree(lnk.fs)
    <3> DEFINE g == Written(fs, d, n, c)
               h == Inc(g, c)
    <3>1. lnk = IF room = "add" THEN Answer(fs, "ENOSPC") ELSE Answer(h, "EOK")
      BY <1>1, <2>2, Zenon DEF Link, Written
    <3>2. fs \in FsType /\ Good(fs.kind, fs.links, fs.entry, fs.up)
      BY <1>2 DEF GoodTree
    <3>3. /\ g \in FsType /\ g.kind = fs.kind /\ g.links = fs.links /\ g.up = fs.up
          /\ Changed(fs.entry, g.entry, d, n, c)
      BY <1>3, <3>2, WrittenIs
    <3> HIDE DEF g
    <3>4. /\ h \in FsType /\ h.kind = fs.kind /\ h.up = fs.up
          /\ Changed(fs.entry, h.entry, d, n, c)
          /\ h.links[c] = fs.links[c] + 1
          /\ \A j \in Inodes : j # c => h.links[j] = fs.links[j]
      BY <1>1, <1>3, <3>3, IncIs, SMTT(60)
    <3> HIDE DEF h
    <3>5. fs.kind \in [Inodes -> Kinds] /\ h.links \in [Inodes -> Nat]
      BY <3>2, <3>4, TreeTyped
    <3>6. Good(fs.kind, h.links, h.entry, fs.up)
      BY <1>1, <1>3, <2>2, <3>2, <3>4, <3>5, AddFile
    <3>7. GoodTree(h)
      BY <3>4, <3>6 DEF GoodTree
    <3> QED BY <1>2, <3>1, <3>7 DEF Answer
  <2> QED BY <1>5, <2>1, <2>2
<1> QED BY <1>1, <1>4, Becoming

\* A rename, once the new name is linked.
LEMMA MoveStep ==
  ASSUME GoodTree(fs), NEW o \in Inodes, NEW q \in Names, NEW c \in Inodes,
         fs.entry[o][q] = c, NEW d \in Inodes, NEW n \in Names, NEW room,
         fs.kind[d] = "dir", fs.entry[d][n] = None,
         Link(fs, d, c, n, TRUE, TRUE, room).r = "EOK"
  PROVE  GoodTree(RemoveOrig(Link(fs, d, c, n, TRUE, TRUE, room).fs, o, c, q))
<1> DEFINE lnk == Link(fs, d, c, n, TRUE, TRUE, room)
           g == Written(fs, d, n, c)
           e == Dotted(g, c, d)
           h == Inc(e, d)
<1>1. fs \in FsType /\ Good(fs.kind, fs.links, fs.entry, fs.up) /\ None # c
  BY Numbers DEF GoodTree
<1>2. /\ g \in FsType /\ g.kind = fs.kind /\ g.links = fs.links /\ g.up = fs.up
      /\ Changed(fs.entry, g.entry, d, n, c)
  BY <1>1, WrittenIs
<1>3. lnk.fs = IF fs.kind[c] = "dir" THEN h ELSE g
  <2>1. lnk = IF room = "add" THEN Answer(fs, "ENOSPC")
              ELSE Answer(IF fs.kind[c] = "dir" THEN h ELSE g, "EOK")
    BY SMT DEF Link, Written, Dotted
  <2> HIDE DEF lnk, g, h, e
  <2>2. lnk.r = "EOK"
    BY DEF lnk
  <2> QED BY <2>1, <2>2 DEF Answer
<1>4. CASE fs.kind[c] = "dir"
  <2> DEFINE x == Written(h, o, q, None)
             y == Dec(x, o)
  <2> HIDE DEF g
  <2>1. /\ e \in FsType /\ e.links = fs.links /\ e.kind = fs.kind /\ e.entry = g.entry
        /\ e.up[c] = d /\ \A j \in Inodes : j # c => e.up[j] = fs.up[j]
    <3>1. /\ e \in FsType /\ e.links = g.links /\ e.kind = g.kind /\ e.entry = g.entry
          /\ e.up[c] = d /\ \A j \in Inodes : j # c => e.up[j] = g.up[j]
      BY <1>2, DottedIs, ZenonT(120)
    <3> HIDE DEF e
    <3> QED BY <1>2, <3>1
  <2> HIDE DEF e
  <2>2. fs.links[d] = 1 => indexed
    BY OneLink
  <2>3. /\ h \in FsType /\ h.kind = fs.kind /\ h.entry = g.entry
        /\ h.up[c] = d /\ \A j \in Inodes : j # c => h.up[j] = fs.up[j]
        /\ \A j \in Inodes : j # d => h.links[j] = fs.links[j]
        /\ More(fs.links[d], h.links[d])
    <3>1. e.kind[d] = "dir" /\ (e.links[d] = 1 => indexed)
      BY <2>1, <2>2
    <3>2. /\ h \in FsType /\ h.kind = e.kind /\ h.entry = e.entry /\ h.up = e.up
          /\ \A j \in Inodes : j # d => h.links[j] = e.links[j]
          /\ More(e.links[d], h.links[d])
      BY <2>1, <3>1, IncIs, ZenonT(60)
    <3> HIDE DEF h
    <3> QED BY <2>1, <3>2
  <2> HIDE DEF h
  <2>4. /\ x \in FsType /\ x.kind = h.kind /\ x.links = h.links /\ x.up = h.up
        /\ Changed(h.entry, x.entry, o, q, None)
    BY <2>3, WrittenIs, SMTT(60)
  <2>5. fs.kind[o] = "dir"
    BY <1>1 DEF Good, Entries
  <2>6. RemoveOrig(lnk.fs, o, c, q) = y
    BY <1>3, <1>4, <2>3, ZenonT(120) DEF RemoveOrig, Written
  <2> HIDE DEF x, lnk
  <2>7. /\ y \in FsType /\ y.kind = fs.kind /\ y.entry = x.entry /\ y.up = h.up
        /\ \A j \in Inodes : j # o => y.links[j] = h.links[j]
        /\ Less(h.links[o], y.links[o])
    <3>1. x \in FsType /\ x.kind[o] = "dir"
      BY <2>3, <2>4, <2>5
    <3>2. /\ y \in FsType /\ y.kind = x.kind /\ y.entry = x.entry /\ y.up = x.up
          /\ \A j \in Inodes : j # o => y.links[j] = x.links[j]
          /\ Less(x.links[o], y.links[o])
      BY <3>1, DecIs
    <3> HIDE DEF y
    <3> QED BY <2>3, <2>4, <3>2
  <2> HIDE DEF y
  <2>8. /\ h.links \in [Inodes -> Nat] /\ y.links \in [Inodes -> Nat]
        /\ y.up \in [Inodes -> Inodes]
    BY <2>3, <2>7, TreeTyped
  <2>9. Changed(fs.entry, h.entry, d, n, c) /\ Changed(h.entry, y.entry, o, q, None)
    BY <1>2, <2>3, <2>4, <2>7
  <2>10. y.up[c] = d /\ \A j \in Inodes : j # c => y.up[j] = fs.up[j]
    BY <2>3, <2>7
  <2>11. Good(fs.kind, y.links, y.entry, y.up)
    <3>1. Renamed(fs.kind, fs.entry, h.entry, y.entry, d, n, o, q, c)
      BY <1>4, <2>9, Zenon DEF Renamed
    <3>2. Recounted(fs.links, h.links, y.links, fs.up, y.up, d, o, c)
      BY <2>3, <2>7, <2>8, <2>10, Zenon DEF Recounted
    <3> QED BY <1>1, <3>1, <3>2, MoveDir, Zenon
  <2> QED BY <2>6, <2>7, <2>11 DEF GoodTree, lnk
<1>5. CASE fs.kind[c] # "dir"
  <2> DEFINE x == Written(g, o, q, None)
             L1 == [fs.links EXCEPT ![c] = @ + 1]
  <2>1. /\ x \in FsType /\ x.kind = g.kind /\ x.links = g.links /\ x.up = g.up
        /\ Changed(g.entry, x.entry, o, q, None)
    BY <1>2, WrittenIs, SMTT(60)
  <2>2. RemoveOrig(lnk.fs, o, c, q) = x
    BY <1>2, <1>3, <1>5, Zenon DEF RemoveOrig, Written
  <2> HIDE DEF g, x, lnk
  <2>3. fs.kind \in [Inodes -> Kinds] /\ fs.links \in [Inodes -> Nat]
    BY <1>1, TreeTyped
  <2>4. /\ L1 \in [Inodes -> Nat] /\ L1[c] = fs.links[c] + 1
        /\ \A j \in Inodes : j # c => L1[j] = fs.links[j]
    BY <2>3
  <2> HIDE DEF L1
  <2>5. fs.kind[c] # "free" /\ fs.links[c] \in Nat /\ fs.links[c] >= 1
    BY <1>1, <1>5, <2>3 DEF Good, Entries, Counts
  <2>6. Good(fs.kind, L1, g.entry, fs.up)
    BY <1>1, <1>2, <1>5, <2>3, <2>4, <2>5, AddFile
  <2>7. g.entry[o][q] = c
    BY <1>1, <1>2 DEF Changed
  <2>8. /\ fs.links[c] = L1[c] - 1 /\ fs.links[c] # 0
        /\ \A j \in Inodes : j # c => fs.links[j] = L1[j]
    BY <2>4, <2>5
  <2>9. Good(fs.kind, fs.links, x.entry, fs.up)
    <3> DEFINE E == g.entry
               F == x.entry
               K == fs.kind
               L == fs.links
               U == fs.up
    <3>1. /\ Good(K, L1, E, U) /\ E[o][q] = c /\ Changed(E, F, o, q, None) /\ K[c] # "dir"
          /\ L \in [Inodes -> Nat] /\ L[c] = L1[c] - 1 /\ L[c] # 0
          /\ \A j \in Inodes : j # c => L[j] = L1[j]
      BY <1>5, <2>1, <2>3, <2>6, <2>7, <2>8
    <3> HIDE DEF E, F, K, L, U
    <3>2. Good(K, L, F, U)
      BY <3>1, DropName
    <3> QED BY <3>2 DEF F, K, L, U
  <2> QED BY <1>2, <2>1, <2>2, <2>9 DEF GoodTree, lnk
<1> QED BY <1>4, <1>5

\* ext4_frename and ext4_dir_mv.
LEMMA FrenameStep ==
  ASSUME IInv, NEW path \in Paths, NEW new \in Paths, NEW room, Frename(path, new, room)
  PROVE  IInv'
<1> DEFINE src == Lookup(path)
           c == src.node
           lnk == CreateHardlink(new, c, TRUE, room)
           f == RemoveOrig(lnk.fs, src.parent, c, Last(path))
<1>1. /\ Idle /\ UNCHANGED rm /\ src.r = "EOK" /\ lnk.r = "EOK" /\ Becomes(f, TRUE)
  BY DEF Frename
<1>2. GoodTree(fs)
  BY <1>1 DEF IInv, Idle
<1>3. /\ c \in Inodes /\ src.parent \in Inodes /\ Last(path) \in Names
      /\ fs.entry[src.parent][Last(path)] = c
  BY <1>1, <1>2, Found DEF Lookup
<1> HIDE DEF c, src
<1>7. Linked(lnk, c, TRUE, room)
  BY <1>2, Hardlink, Zenon
<1> HIDE DEF lnk
<1>4. \/ lnk = Answer(fs, "EEXIST")
      \/ \E d \in Inodes, n \in Names :
           /\ fs.kind[d] = "dir" /\ fs.entry[d][n] = None
           /\ lnk = Link(fs, d, c, n, TRUE, TRUE, room)
  BY <1>7, Zenon DEF Linked
<1>5. \E d \in Inodes, n \in Names :
        /\ fs.kind[d] = "dir" /\ fs.entry[d][n] = None
        /\ lnk = Link(fs, d, c, n, TRUE, TRUE, room)
  <2>1. lnk # Answer(fs, "EEXIST")
    BY <1>1 DEF Answer
  <2> QED BY <1>4, <2>1
<1>6. GoodTree(f)
  BY <1>1, <1>2, <1>3, <1>5, MoveStep, ZenonT(60)
<1> QED BY <1>1, <1>6, Becoming

\* ext4_unlink of a file: the tree is good if a link is left, and without one once the
\* inode is freed.
LEMMA FileGone ==
  ASSUME NEW f, GoodTree(f), NEW d \in Inodes, NEW n \in Names, NEW c \in Inodes,
         f.entry[d][n] = c, f.kind[c] # "dir"
  PROVE  /\ Unlink(f, d, c, n).links[c] # 0 => GoodTree(Unlink(f, d, c, n))
         /\ Unlink(f, d, c, n).links[c] = 0 => GoodTree(FreeInode(Unlink(f, d, c, n), c))
         /\ Changed(f.entry, FreeInode(Unlink(f, d, c, n), c).entry, d, n, None)
<1> DEFINE x == Written(f, d, n, None)
           y == Dec(x, c)
           z == FreeInode(y, c)
           K == f.kind
           L == f.links
           E == f.entry
           F == x.entry
           U == f.up
<1>0. Unlink(f, d, c, n) = y
  BY Zenon DEF Unlink, Written
<1>1. /\ f \in FsType /\ Good(K, L, E, U) /\ None # c /\ K[c] # "free"
      /\ Childless(E, c) /\ L[c] \in Nat /\ L[c] = Cardinality(Places(E, c)) /\ L[c] >= 1
  <2>1. f \in FsType /\ Good(K, L, E, U) /\ None # c
    BY Numbers DEF GoodTree
  <2>2. K[c] # "free" /\ Childless(E, c)
    BY <2>1 DEF Good, Entries, Childless
  <2>3. L[c] = Cardinality(Places(E, c)) /\ L[c] >= 1
    BY <2>1, <2>2 DEF Good, Counts
  <2> QED BY <2>1, <2>2, <2>3, FiniteTables
<1>2. /\ x \in FsType /\ x.kind = K /\ x.links = L /\ x.up = U
      /\ Changed(E, F, d, n, None)
  BY <1>1, WrittenIs
<1> HIDE DEF x
<1>3. /\ y \in FsType /\ y.kind = K /\ y.entry = F /\ y.up = U
      /\ y.links[c] = L[c] - 1 /\ \A j \in Inodes : j # c => y.links[j] = L[j]
  <2>1. /\ y \in FsType /\ y.kind = x.kind /\ y.entry = x.entry /\ y.up = x.up
        /\ \A j \in Inodes : j # c => y.links[j] = x.links[j]
        /\ y.links[c] = IF x.links[c] > 0 THEN x.links[c] - 1 ELSE 0
    BY <1>2, DecIs, SMTT(60)
  <2> HIDE DEF y
  <2> QED BY <1>1, <1>2, <2>1
<1> HIDE DEF y
<1>4. Childless(F, c)
  BY <1>1, <1>2 DEF Childless, Changed
<1>5. /\ z \in FsType /\ z.entry = F /\ z.kind[c] = "free" /\ z.links[c] = 0
      /\ \A j \in Inodes : j # c =>
           z.kind[j] = K[j] /\ z.links[j] = L[j] /\ z.up[j] = U[j]
  <2>1. Childless(y.entry, c)
    BY <1>3, <1>4
  <2>2. /\ z \in FsType /\ z.entry = y.entry /\ z.kind[c] = "free" /\ z.links[c] = 0
        /\ \A j \in Inodes : j # c =>
             z.kind[j] = y.kind[j] /\ z.links[j] = y.links[j] /\ z.up[j] = y.up[j]
    BY <1>3, <2>1, FreeIs
  <2> HIDE DEF z
  <2> QED BY <1>3, <2>2
<1> HIDE DEF z, K, L, E, F, U
<1>6. E[d][n] = c /\ K[c] # "dir" /\ y.links \in [Inodes -> Nat]
  BY <1>3, TreeTyped DEF E, K
<1>7. ASSUME y.links[c] # 0 PROVE GoodTree(y)
  <2> DEFINE M == y.links
  <2>1. /\ M \in [Inodes -> Nat] /\ M[c] = L[c] - 1 /\ M[c] # 0
        /\ \A j \in Inodes : j # c => M[j] = L[j]
    BY <1>3, <1>6, <1>7
  <2> HIDE DEF M
  <2>2. Good(K, M, F, U)
    BY <1>1, <1>2, <1>6, <2>1, DropName
  <2> QED BY <1>3, <2>2 DEF GoodTree, M
<1>8. ASSUME \A a \in Inodes, m \in Names : F[a][m] # c
      PROVE  GoodTree(z)
  <2> DEFINE K2 == z.kind
             L2 == z.links
             U2 == z.up
  <2>1. /\ K2 \in [Inodes -> Kinds] /\ L2 \in [Inodes -> Nat] /\ U2 \in [Inodes -> Inodes]
        /\ K2[c] = "free" /\ L2[c] = 0
        /\ \A j \in Inodes : j # c => K2[j] = K[j]
        /\ \A j \in Inodes : j # c => L2[j] = L[j]
        /\ \A j \in Inodes : j # c => U2[j] = U[j]
    BY <1>5, TreeTyped
  <2> HIDE DEF K2, L2, U2
  <2>2. Good(K2, L2, F, U2)
    BY <1>1, <1>2, <1>6, <1>8, <2>1, FreeFile, SMTT(60)
  <2> QED BY <1>5, <2>2 DEF GoodTree, K2, L2, U2
<1>10. ASSUME y.links[c] = 0 PROVE \A a \in Inodes, m \in Names : F[a][m] # c
  <2>1. Cardinality(Places(F, c)) = Cardinality(Places(E, c)) - 1
    BY <1>1, <1>2, <1>6, PlaceCleared DEF Good, Typed
  <2>2. Cardinality(Places(F, c)) = 0
    BY <1>1, <1>3, <1>10, <2>1
  <2>3. Places(F, c) = {}
    BY <2>2, FiniteTables
  <2> QED BY <2>3, PlacesAre
<1>11. Changed(E, z.entry, d, n, None)
  BY <1>2, <1>5
<1>12. /\ y.links[c] # 0 => GoodTree(y)
       /\ y.links[c] = 0 => GoodTree(z)
  BY <1>7, <1>8, <1>10
<1> QED BY <1>0, <1>11, <1>12 DEF z, E

\* ext4_fremove.
LEMMA FremoveStep ==
  ASSUME IInv, NEW path \in Paths, Fremove(path)
  PROVE  IInv'
<1> DEFINE src == Lookup(path)
           c == src.node
           n == Last(path)
           unl == Unlink(fs, src.parent, c, n)
           f == IF unl.links[c] = 0 THEN FreeInode(unl, c) ELSE unl
<1>1. Idle /\ UNCHANGED rm /\ src.r = "EOK" /\ fs.kind[c] # "dir" /\ Becomes(f, TRUE)
  BY DEF Fremove
<1>2. GoodTree(fs)
  BY <1>1 DEF IInv, Idle
<1>3. c \in Inodes /\ src.parent \in Inodes /\ n \in Names /\ fs.entry[src.parent][n] = c
  BY <1>1, <1>2, Found DEF Lookup
<1> HIDE DEF c, src, n
<1>4. /\ unl.links[c] # 0 => GoodTree(unl)
      /\ unl.links[c] = 0 => GoodTree(FreeInode(unl, c))
  BY <1>1, <1>2, <1>3, FileGone
<1> HIDE DEF unl
<1>5. GoodTree(f)
  BY <1>4
<1> QED BY <1>1, <1>5, Becoming

\* ext4_unlink of a directory without entries: it is freed, or it had stopped counting
\* its links and may stay without a name.
LEMMA DirGone ==
  ASSUME NEW f, GoodTree(f), NEW d \in Inodes, NEW n \in Names, NEW c \in Inodes,
         f.entry[d][n] = c, f.kind[c] = "dir", Childless(f.entry, c)
  PROVE  /\ GoodTree(FreeInode(Unlink(f, d, c, n), c))
         /\ Unlink(f, d, c, n).links[c] # 2 => GoodTree(Unlink(f, d, c, n))
         /\ Changed(f.entry, FreeInode(Unlink(f, d, c, n), c).entry, d, n, None)
<1> DEFINE x == Written(f, d, n, None)
           w == Dec(x, d)
           y == Dec(w, c)
           z == FreeInode(y, c)
           K == f.kind
           L == f.links
           E == f.entry
           F == x.entry
           U == f.up
<1>0. Unlink(f, d, c, n) = y
  BY Zenon DEF Unlink, Written
<1>1. f \in FsType /\ Good(K, L, E, U) /\ None # c
  BY Numbers DEF GoodTree
<1>2. K[d] = "dir" /\ d # c
  BY <1>1 DEF Good, Entries, Childless
<1>3. L[c] = 2 \/ L[c] = 1
  <2>1. DirNames(K, E, c) = {}
    BY DEF Childless, DirNames
  <2>2. Cardinality(DirNames(K, E, c)) = 0
    BY <2>1, FS_EmptySet
  <2> QED BY <1>1, <2>2 DEF Good, Counts
<1>4. /\ x \in FsType /\ x.kind = K /\ x.links = L /\ x.up = U
      /\ Changed(E, F, d, n, None)
  BY <1>1, WrittenIs
<1> HIDE DEF x
<1>5. /\ w \in FsType /\ w.kind = K /\ w.entry = F /\ w.up = U
      /\ Less(L[d], w.links[d]) /\ \A j \in Inodes : j # d => w.links[j] = L[j]
  <2>1. x.kind[d] = "dir"
    BY <1>2, <1>4
  <2>2. /\ w \in FsType /\ w.kind = x.kind /\ w.entry = x.entry /\ w.up = x.up
        /\ \A j \in Inodes : j # d => w.links[j] = x.links[j]
        /\ Less(x.links[d], w.links[d])
    BY <1>4, <2>1, DecIs
  <2> HIDE DEF w
  <2> QED BY <1>4, <2>2
<1> HIDE DEF w
<1>6. /\ y \in FsType /\ y.kind = K /\ y.entry = F /\ y.up = U
      /\ Less(L[d], y.links[d]) /\ y.links[c] = L[c]
      /\ \A j \in Inodes : j # d => y.links[j] = L[j]
  <2>1. w.kind[c] = "dir"
    BY <1>5
  <2>2. /\ y \in FsType /\ y.kind = w.kind /\ y.entry = w.entry /\ y.up = w.up
        /\ \A j \in Inodes : j # c => y.links[j] = w.links[j]
        /\ Less(w.links[c], y.links[c])
    BY <1>5, <2>1, DecIs
  <2> HIDE DEF y
  <2>3. w.links[c] = L[c] /\ y.links[d] = w.links[d]
    BY <1>2, <1>5, <2>2
  <2>4. y.links[c] = L[c]
    BY <1>3, <2>2, <2>3 DEF Less
  <2> QED BY <1>5, <2>2, <2>3, <2>4
<1> HIDE DEF y
<1>7. Childless(F, c)
  BY <1>1, <1>4 DEF Childless, Changed
<1>8. /\ z \in FsType /\ z.entry = F /\ z.kind[c] = "free" /\ z.links[c] = 0
      /\ \A j \in Inodes : j # c =>
           z.kind[j] = K[j] /\ z.links[j] = y.links[j] /\ z.up[j] = U[j]
  <2>1. Childless(y.entry, c)
    BY <1>6, <1>7
  <2>2. /\ z \in FsType /\ z.entry = y.entry /\ z.kind[c] = "free" /\ z.links[c] = 0
        /\ \A j \in Inodes : j # c =>
             z.kind[j] = y.kind[j] /\ z.links[j] = y.links[j] /\ z.up[j] = y.up[j]
    BY <1>6, <2>1, FreeIs, SMTT(60)
  <2> HIDE DEF z
  <2> QED BY <1>6, <2>2
<1> HIDE DEF z, K, L, E, F, U
<1>9. E[d][n] = c /\ K[c] = "dir" /\ Childless(E, c)
  BY DEF E, K
<1>10. GoodTree(z)
  <2>1. /\ z.kind \in [Inodes -> Kinds] /\ z.links \in [Inodes -> Nat]
        /\ z.up \in [Inodes -> Inodes]
    BY <1>8, TreeTyped
  <2>2. Dropped(K, z.kind, L, z.links, U, z.up, d, c)
    BY <1>2, <1>6, <1>8, <2>1 DEF Dropped
  <2>3. Good(z.kind, z.links, F, z.up)
    BY <1>1, <1>4, <1>9, <2>2, RemoveDir
  <2> QED BY <1>8, <2>3 DEF GoodTree
<1>11. ASSUME y.links[c] # 2 PROVE GoodTree(y)
  <2>1. K \in [Inodes -> Kinds] /\ y.links \in [Inodes -> Nat] /\ U \in [Inodes -> Inodes]
    BY <1>1, <1>6, TreeTyped DEF K, U
  <2>2. Dropped(K, K, L, y.links, U, U, d, c)
    BY <1>3, <1>6, <1>9, <1>11, <2>1 DEF Dropped
  <2>3. Good(K, y.links, F, U)
    BY <1>1, <1>4, <1>9, <2>2, RemoveDir
  <2> QED BY <1>6, <2>3 DEF GoodTree
<1>12. Changed(E, z.entry, d, n, None)
  BY <1>4, <1>8
<1> QED BY <1>0, <1>10, <1>11, <1>12 DEF z, E

----------------------------------------------------------------------------
(* The turns of ext4_dir_rm *)

\* What Idle leaves open: the removal that is running.
LEMMA RunningIs ==
  ASSUME IInv, intact, rm.depth > 0
  PROVE  /\ GoodTree(fs) /\ rm.depth \in Nat /\ rm.cur \in Inodes /\ rm.name \in Names
         /\ rm = [depth |-> rm.depth, cur |-> rm.cur, name |-> rm.name]
         /\ fs.kind[rm.cur] = "dir"
         /\ \E s \in [1 .. rm.depth -> Inodes] : Descent(s)
BY DEF IInv, RmInv, Descent

\* ext4_dir_rm finds its directory: the way down has one directory.
LEMMA RmStartStep ==
  ASSUME IInv, NEW path \in Paths, RmStart(path)
  PROVE  IInv'
<1> DEFINE src == Open2(path, "dir", FALSE, NoFull)
<1>1. /\ Idle /\ src.r = "EOK" /\ UNCHANGED <<indexed, fs, intact>>
      /\ rm' = [depth |-> 1, cur |-> src.node, name |-> Last(path)]
  BY DEF RmStart
<1>2. GoodTree(fs) /\ intact
  BY <1>1 DEF IInv, Idle
<1>3. /\ src.node \in Inodes /\ src.parent \in Inodes /\ Last(path) \in Names
      /\ fs.entry[src.parent][Last(path)] = src.node /\ fs.kind[src.node] = "dir"
  BY <1>1, <1>2, Found
<1> HIDE DEF src
<1>6. /\ rm'.depth = 1 /\ rm'.cur = src.node /\ rm'.name = Last(path) /\ fs' = fs
      /\ rm' = [depth |-> rm'.depth, cur |-> rm'.cur, name |-> rm'.name]
  BY <1>1
<1>4. PICK s \in [1 .. 1 -> Inodes] : s[1] = src.node
  <2>1. [k \in 1 .. 1 |-> src.node] \in [1 .. 1 -> Inodes]
    BY <1>3
  <2>2. [k \in 1 .. 1 |-> src.node][1] = src.node
    OBVIOUS
  <2> QED BY <2>1, <2>2
<1>7. Descent(s)'
  <2>1. /\ \A k \in 1 .. 1 : fs.kind[s[k]] = "dir"
        /\ \A k \in 1 .. 1 - 1 : \E n \in Names : fs.entry[s[k]][n] = s[k + 1]
        /\ \E d \in Inodes : fs.entry[d][Last(path)] = s[1]
    BY <1>3, <1>4
  <2> QED BY <1>4, <1>6, <2>1 DEF Descent
<1>5. RmInv'
  <2>1. rm'.depth \in Nat /\ rm'.cur \in Inodes /\ rm'.name \in Names
    BY <1>3, <1>6
  <2>2. s \in [1 .. rm'.depth -> Inodes]
    BY <1>4, <1>6
  <2>3. \E v \in [1 .. rm'.depth -> Inodes] : Descent(v)'
    BY <1>7, <2>2
  <2> QED BY <1>6, <2>1, <2>3, Zenon DEF RmInv
<1> QED BY <1>1, <1>2, <1>5, StaysGood DEF IInv

\* ext4_dir_rm goes down: the way gets one directory longer.
LEMMA RmDescendStep ==
  ASSUME IInv, NEW n \in Names, RmDescend(n)
  PROVE  IInv'
<1> DEFINE c == fs.entry[rm.cur][n]
<1>1. /\ rm.depth > 0 /\ intact /\ c # None /\ fs.kind[c] = "dir"
      /\ rm' = [rm EXCEPT !.depth = @ + 1, !.cur = c]
      /\ UNCHANGED <<indexed, fs, intact>>
  BY DEF RmDescend, HasChildren
<1>2. /\ GoodTree(fs) /\ rm.depth \in Nat /\ rm.cur \in Inodes /\ rm.name \in Names
      /\ rm = [depth |-> rm.depth, cur |-> rm.cur, name |-> rm.name]
  BY <1>1, RunningIs
<1>3. PICK s \in [1 .. rm.depth -> Inodes] : Descent(s)
  BY <1>1, RunningIs
<1>4. c \in Inodes
  BY <1>1, <1>2, TreeTyped DEF GoodTree
<1> HIDE DEF c
<1>5. /\ rm'.depth = rm.depth + 1 /\ rm'.cur = c /\ rm'.name = rm.name
      /\ rm' = [depth |-> rm'.depth, cur |-> rm'.cur, name |-> rm'.name]
  BY <1>1, <1>2
<1>6. PICK t \in [1 .. rm'.depth -> Inodes] :
        t[rm.depth + 1] = c /\ \A k \in 1 .. rm.depth : t[k] = s[k]
  <2> DEFINE v == [k \in 1 .. rm.depth + 1 |-> IF k = rm.depth + 1 THEN c ELSE s[k]]
  <2>1. v \in [1 .. rm'.depth -> Inodes]
    BY <1>2, <1>4, <1>5
  <2>2. v[rm.depth + 1] = c /\ \A k \in 1 .. rm.depth : v[k] = s[k]
    BY <1>2
  <2> QED BY <2>1, <2>2
<1>7. Descent(t)'
  <2>1. \A k \in 1 .. rm.depth : t[k] = s[k] /\ fs.kind[s[k]] = "dir"
    BY <1>2, <1>3, <1>6 DEF Descent
  <2>2. t[rm.depth + 1] = c /\ t[rm.depth] = rm.cur /\ t[1] = s[1]
    BY <1>1, <1>2, <1>3, <1>6 DEF Descent
  <2>3. \A k \in 1 .. rm.depth + 1 : fs.kind[t[k]] = "dir"
    BY <1>1, <1>2, <2>1, <2>2
  <2>4. \A k \in 1 .. rm.depth : \E m \in Names : fs.entry[t[k]][m] = t[k + 1]
    <3> TAKE k \in 1 .. rm.depth
    <3>1. CASE k = rm.depth
      BY <2>2, <3>1 DEF c
    <3>2. CASE k # rm.depth
      <4>1. k \in 1 .. rm.depth - 1 /\ k + 1 \in 1 .. rm.depth
        BY <1>2, <3>2
      <4> QED BY <1>3, <2>1, <4>1 DEF Descent
    <3> QED BY <3>1, <3>2
  <2>5. \E d \in Inodes : fs.entry[d][rm.name] = t[1]
    BY <1>3, <2>2 DEF Descent
  <2>6. rm'.depth = rm.depth + 1 /\ rm'.depth - 1 = rm.depth /\ rm'.cur = c
        /\ rm'.name = rm.name /\ fs' = fs
    BY <1>1, <1>2, <1>5
  <2> QED BY <1>6, <2>2, <2>3, <2>4, <2>5, <2>6 DEF Descent
<1>8. RmInv'
  <2>1. rm'.depth \in Nat /\ rm'.cur \in Inodes /\ rm'.name \in Names
    BY <1>2, <1>4, <1>5
  <2>2. \E v \in [1 .. rm'.depth -> Inodes] : Descent(v)'
    BY <1>6, <1>7
  <2> QED BY <1>5, <2>1, <2>2, Zenon DEF RmInv
<1> QED BY <1>1, <1>2, <1>8, StaysGood DEF IInv

\* The way down stays when an inode that is not on it, a file or a directory without
\* entries, loses its name and is freed.
LEMMA RmEntryStep ==
  ASSUME IInv, NEW n \in Names, RmEntry(n)
  PROVE  IInv'
<1> DEFINE d == rm.cur
           c == fs.entry[d][n]
           unl == Unlink(fs, d, c, n)
           f == FreeInode(unl, c)
<1>1. /\ rm.depth > 0 /\ intact /\ c # None /\ ~HasChildren(fs, c)
      /\ Becomes(f, fs.kind[c] = "dir" \/ unl.links[c] = 0) /\ rm' = rm
  BY DEF RmEntry
<1>2. /\ GoodTree(fs) /\ rm.depth \in Nat /\ d \in Inodes /\ rm.name \in Names
      /\ rm = [depth |-> rm.depth, cur |-> rm.cur, name |-> rm.name]
      /\ fs.kind[d] = "dir"
  BY <1>1, RunningIs
<1>3. PICK s \in [1 .. rm.depth -> Inodes] : Descent(s)
  BY <1>1, RunningIs
<1>4. c \in Inodes /\ fs.entry[d][n] = c
  BY <1>1, <1>2, TreeTyped DEF GoodTree
<1>5. fs.kind[c] = "dir" => Childless(fs.entry, c)
  BY <1>1 DEF HasChildren, Childless
<1>6. fs' = f /\ indexed' = indexed /\ intact' = (fs.kind[c] = "dir" \/ unl.links[c] = 0)
  BY <1>1, Zenon DEF Becomes
<1>20. s[rm.depth] = d
  BY <1>3 DEF Descent
<1> HIDE DEF c, d
<1>7. /\ fs.kind[c] = "dir" \/ unl.links[c] = 0 => GoodTree(f)
      /\ Changed(fs.entry, f.entry, d, n, None)
  <2>1. CASE fs.kind[c] = "dir"
    BY <1>2, <1>4, <1>5, <2>1, DirGone
  <2>2. CASE fs.kind[c] # "dir"
    BY <1>2, <1>4, <2>2, FileGone
  <2> QED BY <2>1, <2>2
<1>8. \A j \in Inodes : j # c => f.kind[j] = fs.kind[j]
  <2> DEFINE u == Unlink(fs, d, c, n)
             x == Written(fs, d, n, None)
  <2>1. u = Dec(IF fs.kind[c] = "dir" THEN Dec(x, d) ELSE x, c)
    BY Zenon DEF Unlink, Written
  <2>2. x \in FsType /\ x.kind = fs.kind
    BY <1>2, WrittenIs DEF GoodTree
  <2> HIDE DEF x
  <2> DEFINE v == IF fs.kind[c] = "dir" THEN Dec(x, d) ELSE x
  <2>3. v \in FsType /\ v.kind = fs.kind
    BY <1>2, <2>2, DecIs
  <2> HIDE DEF v
  <2>4. u = Dec(v, c)
    BY <2>1 DEF v
  <2>5. Dec(v, c) \in FsType /\ Dec(v, c).kind = fs.kind
    BY <1>4, <2>3, DecIs
  <2> HIDE DEF u
  <2>6. u \in FsType /\ u.kind = fs.kind
    BY <2>4, <2>5
  <2>7. \A j \in Inodes : j # c => FreeInode(u, c).kind[j] = u.kind[j]
    BY <1>4, <2>6, FreeIs
  <2> QED BY <2>6, <2>7 DEF u
<1> HIDE DEF f, unl
<1>9. \A k \in 1 .. rm.depth : s[k] \in Inodes /\ fs.kind[s[k]] = "dir" /\ s[k] # c
  <2> TAKE k \in 1 .. rm.depth
  <2>1. s[k] \in Inodes /\ fs.kind[s[k]] = "dir"
    BY <1>3 DEF Descent
  <2>2. \E m \in Names : fs.entry[s[k]][m] # None
    <3>1. CASE k = rm.depth
      BY <1>4, <1>20, <3>1, Numbers
    <3>2. CASE k # rm.depth
      <4>1. k \in 1 .. rm.depth - 1 /\ k + 1 \in 1 .. rm.depth
        BY <1>2, <3>2
      <4>2. \E m \in Names : fs.entry[s[k]][m] = s[k + 1]
        BY <1>3, <4>1 DEF Descent
      <4>3. s[k + 1] # None
        BY <4>1, Numbers
      <4> QED BY <4>2, <4>3
    <3> QED BY <3>1, <3>2
  <2> QED BY <1>5, <2>1, <2>2 DEF Childless
<1>10. Descent(s)'
  <2>1. \A k \in 1 .. rm.depth : f.kind[s[k]] = "dir"
    BY <1>8, <1>9
  <2>2. \A a \in Inodes, m \in Names : fs.entry[a][m] # c => f.entry[a][m] = fs.entry[a][m]
    BY <1>4, <1>7 DEF Changed
  <2>3. \A k \in 1 .. rm.depth - 1 : \E m \in Names : f.entry[s[k]][m] = s[k + 1]
    <3> TAKE k \in 1 .. rm.depth - 1
    <3>1. k \in 1 .. rm.depth /\ k + 1 \in 1 .. rm.depth
      BY <1>2
    <3>2. PICK m \in Names : fs.entry[s[k]][m] = s[k + 1]
      BY <1>3 DEF Descent
    <3>3. s[k] \in Inodes /\ s[k + 1] # c
      BY <1>9, <3>1
    <3> QED BY <2>2, <3>2, <3>3
  <2>4. \E a \in Inodes : f.entry[a][rm.name] = s[1]
    <3>1. PICK a \in Inodes : fs.entry[a][rm.name] = s[1]
      BY <1>3 DEF Descent
    <3>2. s[1] # c
      BY <1>1, <1>2, <1>9
    <3> QED BY <1>2, <2>2, <3>1, <3>2
  <2> QED BY <1>1, <1>3, <1>6, <1>20, <2>1, <2>3, <2>4 DEF Descent, d
<1>11. RmInv'
  <2>1. \E v \in [1 .. rm'.depth -> Inodes] : Descent(v)'
    BY <1>1, <1>10
  <2>2. rm'.cur \in Inodes
    BY <1>1, <1>2 DEF d
  <2> QED BY <1>1, <1>2, <2>1, <2>2 DEF RmInv
<1>12. intact' \in BOOLEAN /\ (intact' => GoodTree(fs)')
  BY <1>6, <1>7, StaysGood
<1> QED BY <1>11, <1>12 DEF IInv

\* ext4_dir_rm goes up by "..": that is the directory before on the way down.
LEMMA RmUpStep ==
  ASSUME IInv, RmUp
  PROVE  IInv'
<1>1. /\ rm.depth > 1 /\ intact /\ UNCHANGED <<indexed, fs, intact>>
      /\ rm' = [rm EXCEPT !.depth = @ - 1, !.cur = fs.up[rm.cur]]
  BY DEF RmUp, Emptied
<1>0. rm.depth > 0 /\ intact
  BY <1>1 DEF IInv, RmInv
<1>2. /\ GoodTree(fs) /\ rm.depth \in Nat /\ rm.cur \in Inodes /\ rm.name \in Names
      /\ rm = [depth |-> rm.depth, cur |-> rm.cur, name |-> rm.name]
      /\ fs.kind[rm.cur] = "dir"
  BY <1>0, RunningIs
<1>3. PICK s \in [1 .. rm.depth -> Inodes] : Descent(s)
  BY <1>0, RunningIs
<1>4. s[rm.depth - 1] \in Inodes /\ fs.up[rm.cur] = s[rm.depth - 1]
  <2>1. rm.depth - 1 \in 1 .. rm.depth - 1 /\ rm.depth - 1 \in 1 .. rm.depth
        /\ rm.depth - 1 + 1 = rm.depth
    BY <1>1, <1>2
  <2>2. PICK m \in Names : fs.entry[s[rm.depth - 1]][m] = rm.cur
    BY <1>3, <2>1 DEF Descent
  <2>3. s[rm.depth - 1] \in Inodes
    BY <2>1
  <2> QED BY <1>2, <2>2, <2>3 DEF GoodTree, Good, OneName
<1>5. /\ rm'.depth = rm.depth - 1 /\ rm'.cur = s[rm.depth - 1] /\ rm'.name = rm.name
      /\ rm' = [depth |-> rm'.depth, cur |-> rm'.cur, name |-> rm'.name]
      /\ fs' = fs
  BY <1>1, <1>2, <1>4
<1>6. PICK t \in [1 .. rm'.depth -> Inodes] : \A k \in 1 .. rm'.depth : t[k] = s[k]
  <2> DEFINE v == [k \in 1 .. rm'.depth |-> s[k]]
  <2>1. v \in [1 .. rm'.depth -> Inodes]
    BY <1>1, <1>2, <1>5
  <2> QED BY <2>1
<1>7. Descent(t)'
  <2> DEFINE e == rm'.depth
  <2>1. e = rm.depth - 1 /\ e \in Nat /\ e >= 1 /\ e \in 1 .. e /\ 1 \in 1 .. e
    BY <1>1, <1>2, <1>5
  <2>2. \A k \in 1 .. e : k \in 1 .. rm.depth
    BY <1>2, <2>1
  <2>3. \A k \in 1 .. e - 1 : k \in 1 .. rm.depth - 1 /\ k \in 1 .. e /\ k + 1 \in 1 .. e
    BY <1>2, <2>1
  <2> HIDE DEF e
  <2>4. \A k \in 1 .. e : t[k] = s[k]
    BY <1>6 DEF e
  <2>5. \A k \in 1 .. e : fs.kind[t[k]] = "dir"
    BY <1>3, <2>2, <2>4 DEF Descent
  <2>6. \A k \in 1 .. e - 1 : \E m \in Names : fs.entry[t[k]][m] = t[k + 1]
    BY <1>3, <2>3, <2>4 DEF Descent
  <2>7. \E a \in Inodes : fs.entry[a][rm.name] = t[1]
    BY <1>3, <2>1, <2>4 DEF Descent
  <2>8. t[e] = rm'.cur
    BY <1>5, <2>1, <2>4
  <2> QED BY <1>5, <1>6, <2>5, <2>6, <2>7, <2>8 DEF Descent, e
<1>8. RmInv'
  <2>1. rm'.depth \in Nat /\ rm'.cur \in Inodes /\ rm'.name \in Names
    BY <1>1, <1>2, <1>4, <1>5
  <2>2. \E v \in [1 .. rm'.depth -> Inodes] : Descent(v)'
    BY <1>6, <1>7
  <2> QED BY <1>5, <2>1, <2>2, Zenon DEF RmInv
<1> QED BY <1>1, <1>2, <1>8, StaysGood DEF IInv

\* An idle removal keeps no way down.
LEMMA AtRest ==
  /\ NotRemoving.depth = 0 /\ NotRemoving.cur \in Inodes /\ NotRemoving.name \in Names
  /\ NotRemoving = [depth |-> NotRemoving.depth, cur |-> NotRemoving.cur,
                    name |-> NotRemoving.name]
<1>1. (CHOOSE n \in Names : TRUE) \in Names
  BY NamespaceAssumption
<1> QED BY <1>1, Numbers DEF NotRemoving

\* The directory ext4_dir_rm was called for loses its name.
LEMMA RmLastStep ==
  ASSUME IInv, RmLast
  PROVE  IInv'
<1> DEFINE c == rm.cur
           d == fs.up[c]
           n == rm.name
           unl == Unlink(fs, d, c, n)
           f == IF unl.links[c] = 2 THEN FreeInode(unl, c) ELSE unl
<1>1. /\ rm.depth = 1 /\ intact /\ ~HasChildren(fs, c) /\ Becomes(f, TRUE)
      /\ rm' = NotRemoving
  BY DEF RmLast, Emptied
<1>0. rm.depth > 0 /\ intact
  BY <1>1
<1>2. GoodTree(fs) /\ c \in Inodes /\ n \in Names /\ fs.kind[c] = "dir"
  BY <1>0, RunningIs
<1>3. PICK s \in [1 .. rm.depth -> Inodes] : Descent(s)
  BY <1>0, RunningIs
<1>4. PICK a \in Inodes : fs.entry[a][n] = c
  BY <1>1, <1>3 DEF Descent
<1>5. d = a
  BY <1>2, <1>4 DEF GoodTree, Good, OneName
<1>6. Childless(fs.entry, c)
  BY <1>1, <1>2 DEF HasChildren, Childless
<1>7. d \in Inodes /\ fs.entry[d][n] = c
  BY <1>4, <1>5
<1>8. fs' = f /\ indexed' = indexed /\ intact' = TRUE
  BY <1>1, Zenon DEF Becomes
<1> HIDE DEF c, d, n
<1>9. /\ GoodTree(FreeInode(unl, c))
      /\ unl.links[c] # 2 => GoodTree(unl)
  BY <1>2, <1>6, <1>7, DirGone
<1> HIDE DEF unl
<1>10. GoodTree(f)
  BY <1>9
<1> HIDE DEF f
<1>11. RmInv'
  BY <1>1, AtRest DEF RmInv
<1>12. GoodTree(fs)'
  BY <1>8, <1>10, StaysGood
<1> QED BY <1>8, <1>11, <1>12 DEF IInv

----------------------------------------------------------------------------
(* The invariant, and the properties *)

\* The new file system: the root, and nothing in it.
LEMMA InitEstablishes ==
  ASSUME Init
  PROVE  IInv
<1> DEFINE K == fs.kind
           L == fs.links
           E == fs.entry
           U == fs.up
<1>1. /\ fs = [kind  |-> [i \in Inodes |-> IF i = Root THEN "dir" ELSE "free"],
               links |-> [i \in Inodes |-> IF i = Root THEN 2 ELSE 0],
               entry |-> [i \in Inodes |-> NoEntries],
               up    |-> [i \in Inodes |-> Root]]
      /\ rm = NotRemoving /\ intact = TRUE
  BY DEF Init
<1>2. /\ K = [i \in Inodes |-> IF i = Root THEN "dir" ELSE "free"]
      /\ L = [i \in Inodes |-> IF i = Root THEN 2 ELSE 0]
      /\ E = [i \in Inodes |-> NoEntries]
      /\ U = [i \in Inodes |-> Root]
  BY <1>1
<1>3. NoEntries \in [Names -> Inodes \union {None}] /\ \A n \in Names : NoEntries[n] = None
  BY DEF NoEntries
<1>4. fs = [kind |-> K, links |-> L, entry |-> E, up |-> U]
  BY <1>1
<1> HIDE DEF K, L, E, U
<1>5. /\ \A i \in Inodes : K[i] = IF i = Root THEN "dir" ELSE "free"
      /\ \A i \in Inodes : L[i] = IF i = Root THEN 2 ELSE 0
      /\ \A i \in Inodes, n \in Names : E[i][n] = None
      /\ K[Root] = "dir"
  BY <1>2, <1>3, Numbers
<1>6. Typed(K, L, E, U)
  BY <1>2, <1>3, Numbers DEF Typed, Tables
<1>7. Entries(K, E)
  BY <1>5 DEF Entries
<1>8. OneName(K, L, E, U)
  BY <1>5, Numbers DEF OneName
<1>9. Counts(K, L, E)
  <2>1. \A i \in Inodes : DirNames(K, E, i) = {}
    BY <1>5 DEF DirNames
  <2>2. Cardinality({}) = 0
    BY FS_EmptySet
  <2> QED BY <1>5, <2>1, <2>2 DEF Counts
<1>10. Good(K, L, E, U)
  BY <1>5, <1>6, <1>7, <1>8, <1>9 DEF Good
<1>11. fs \in FsType
  BY <1>4, <1>6 DEF FsType, Typed
<1>12. GoodTree(fs)
  BY <1>10, <1>11 DEF GoodTree, K, L, E, U
<1>13. RmInv
  BY <1>1, AtRest DEF RmInv
<1> QED BY <1>1, <1>12, <1>13 DEF IInv

\* Every call and every turn of a removal keeps the invariant.
LEMMA NextKeeps ==
  ASSUME IInv, [Next]_vars
  PROVE  IInv'
<1>1. CASE UNCHANGED vars
  BY <1>1, StaysGood DEF vars, IInv, RmInv, Descent
<1>2. ASSUME NEW p \in Paths, NEW full, Fopen(p, full) PROVE IInv'
  BY <1>2, OpenStep DEF Fopen
<1>3. ASSUME NEW p \in Paths, NEW full, Fsymlink(p, full) PROVE IInv'
  BY <1>3, OpenStep DEF Fsymlink
<1>4. ASSUME NEW p \in Paths, NEW full, Mknod(p, full) PROVE IInv'
  <2>1. PICK kind \in Devices : Open(p, kind, full)
    BY <1>4 DEF Mknod
  <2>2. kind # "free"
    BY NamespaceAssumption
  <2> QED BY <2>1, <2>2, OpenStep
<1>5. ASSUME NEW p \in Paths, NEW full, DirMk(p, full) PROVE IInv'
  BY <1>5, OpenStep DEF DirMk
<1>6. ASSUME NEW p \in Paths, NEW q \in Paths, NEW room, Flink(p, q, room) PROVE IInv'
  BY <1>6, FlinkStep
<1>7. ASSUME NEW p \in Paths, NEW q \in Paths, NEW room, Frename(p, q, room) PROVE IInv'
  BY <1>7, FrenameStep
<1>8. ASSUME NEW p \in Paths, Fremove(p) PROVE IInv'
  BY <1>8, FremoveStep
<1>9. ASSUME NEW p \in Paths, RmStart(p) PROVE IInv'
  BY <1>9, RmStartStep
<1>10. CASE RmStep
  BY <1>10, RmUpStep, RmLastStep, RmDescendStep, RmEntryStep DEF RmStep
<1> QED
  BY <1>1, <1>2, <1>3, <1>4, <1>5, <1>6, <1>7, <1>8, <1>9, <1>10, Zenon DEF Next

\* The invariant holds in every state.
LEMMA TreeStaysGood == Spec => []IInv
<1>1. Init => IInv
  BY InitEstablishes
<1>2. IInv /\ [Next]_vars => IInv'
  BY NextKeeps
<1> QED BY <1>1, <1>2, PTL DEF Spec

\* The counts of the invariant are those of the property, whatever is created, linked,
\* renamed and removed, and whichever entry finds no room, until a failed mkdir leaves
\* its name behind or ext4_dir_rm frees a file that has another name.
THEOREM NamespaceLinksMatch == Spec => []LinksMatch
<1>1. IInv => LinksMatch
  <2> SUFFICES ASSUME IInv, intact, NEW i \in Inodes
               PROVE  CASE fs.kind[i] = "free" -> TRUE
                        [] fs.kind[i] = "dir" ->
                             \/ fs.links[i] = 2 + Cardinality(Subdirs(i))
                             \/ indexed /\ fs.links[i] = 1
                        [] OTHER -> fs.links[i] = Cardinality(EntriesFor(i))
    BY Zenon DEF LinksMatch
  <2>1. Counts(fs.kind, fs.links, fs.entry)
    BY DEF IInv, GoodTree, Good
  <2>2. Subdirs(i) = DirNames(fs.kind, fs.entry, i)
    BY DEF Subdirs, DirNames
  <2>3. EntriesFor(i) = Places(fs.entry, i)
    BY DEF EntriesFor, Places
  <2> QED BY <2>1, <2>2, <2>3 DEF Counts
<1> QED BY <1>1, TreeStaysGood, PTL

\* An inode is in use exactly when a name leads to it and a directory has its one name
\* where its ".." leads to, unless it had stopped counting its links; until a failed
\* mkdir leaves its name behind or ext4_dir_rm frees a file that has another name.
THEOREM NamespaceNamedOnce == Spec => []NamedOnce
<1>1. IInv => NamedOnce
  <2> SUFFICES ASSUME IInv, intact, NEW i \in Inodes \ {Root}
               PROVE  /\ fs.kind[i] = "free" => EntriesFor(i) = {}
                      /\ fs.kind[i] \notin {"free", "dir"} => EntriesFor(i) # {}
                      /\ fs.kind[i] = "dir" =>
                           \/ \E n \in Names : EntriesFor(i) = {<<fs.up[i], n>>}
                           \/ EntriesFor(i) = {} /\ fs.links[i] = 1
    BY Zenon DEF NamedOnce
  <2>1. /\ Good(fs.kind, fs.links, fs.entry, fs.up)
        /\ Counts(fs.kind, fs.links, fs.entry)
        /\ OneName(fs.kind, fs.links, fs.entry, fs.up)
    BY DEF IInv, GoodTree, Good
  <2>2. EntriesFor(i) = Places(fs.entry, i)
    BY DEF EntriesFor, Places
  <2>3. ASSUME fs.kind[i] = "free" PROVE EntriesFor(i) = {}
    BY <2>1, <2>3, UnusedUnnamed DEF EntriesFor
  <2>4. ASSUME fs.kind[i] \notin {"free", "dir"} PROVE EntriesFor(i) # {}
    <3>1. Cardinality(Places(fs.entry, i)) # 0
      BY <2>1, <2>4 DEF Counts
    <3> QED BY <2>2, <3>1, FiniteTables
  <2>5. ASSUME fs.kind[i] = "dir"
        PROVE  \/ \E n \in Names : EntriesFor(i) = {<<fs.up[i], n>>}
               \/ EntriesFor(i) = {} /\ fs.links[i] = 1
    <3>1. CASE \E d \in Inodes, n \in Names : fs.entry[d][n] = i
      <4>1. PICK d \in Inodes, n \in Names : fs.entry[d][n] = i
        BY <3>1
      <4>2. fs.up[i] = d
        BY <2>1, <2>5, <4>1 DEF OneName
      <4>3. \A e \in Inodes, m \in Names : fs.entry[e][m] = i => e = d /\ m = n
        BY <2>1, <2>5, <4>1 DEF OneName
      <4>4. EntriesFor(i) = {<<d, n>>}
        BY <4>1, <4>3 DEF EntriesFor
      <4> QED BY <4>2, <4>4
    <3>2. CASE ~ \E d \in Inodes, n \in Names : fs.entry[d][n] = i
      <4>1. fs.links[i] = 1
        BY <2>1, <2>5, <3>2 DEF OneName
      <4>2. EntriesFor(i) = {}
        BY <3>2 DEF EntriesFor
      <4> QED BY <4>1, <4>2
    <3> QED BY <3>1, <3>2
  <2> QED BY <2>3, <2>4, <2>5
<1> QED BY <1>1, TreeStaysGood, PTL
=============================================================================
