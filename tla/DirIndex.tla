------------------------------ MODULE DirIndex ------------------------------
(***************************************************************************)
(* The index of a directory (ext4_dir_idx.c), a tree of one or two levels  *)
(* over the hashes of the names, as operators on the directory's blocks    *)
(* and its index. The index lives in blocks of the directory: block 0 is   *)
(* the root, which a linear reader sees as the entries "." and "..", and a *)
(* node is a block it sees as one dead entry.                              *)
(*                                                                         *)
(* The entry in front of every node has no hash (its place holds limit and *)
(* count), and an odd hash says that its block goes on with the names of   *)
(* the block before that have the hash below it.                           *)
(***************************************************************************)
EXTENDS DirBlock, TLC, FiniteSetsExt

CONSTANTS
  Hash,        \* ext2_htree_hash of the names: even
  RootLimit,   \* entries of the root, without checksums: one less with them
  NodeLimit    \* entries of a node, likewise

ASSUME DirIndexAssumption ==
  /\ \A n \in Names : Hash[n] \in Nat /\ Hash[n] % 2 = 0
  /\ RootLimit \in Nat \ {0, 1} /\ NodeLimit \in Nat /\ NodeLimit > RootLimit

IndexEntry(hash, block) == [hash |-> hash, block |-> block]
NoIndex == [on |-> FALSE, level |-> 0, node |-> <<>>]

\* The limits ext4_dir_dx_init and ext4_dir_dx_get_leaf compute, and the one that
\* ext4_dir_dx_split_index writes into a node: there the checksum is subtracted from
\* entry_space after node_limit was taken from it.
Limit(max, tail) == IF tail = 0 THEN max ELSE max - 1
WrittenLimit == NodeLimit

\* ext4_dir_dx_init: the root and one empty leaf.
RootBlock == WriteEntry(WriteEntry(ZeroBlock, 0, Required(Dot), Dot),
                        Required(Dot), BlockSize - Required(Dot), DotDot)
NodeBlock == [ZeroBlock EXCEPT ![0] = Header(FALSE, BlockSize, "node")]
EmptyLeaf(tail) == Tailed([ZeroBlock EXCEPT ![0] = Header(FALSE, BlockSize - tail, "leaf")], tail)
InitBlocks(tail) == <<RootBlock, EmptyLeaf(tail)>>
InitIndex == [on |-> TRUE, level |-> 0, node |-> 0 :> <<IndexEntry(0, 1)>>]

----------------------------------------------------------------------------
(* Searching *)

\* ext4_dir_hinfo_init and ext4_dir_dx_get_leaf: EXT4_ERR_BAD_DX_DIR.
BadDx(x, tail) == x.on /\ x.level = 1 /\ WrittenLimit # Limit(NodeLimit, tail)

\* The binary search in a node: the last entry not above the hash, else the first.
Position(s, h) == Max({1} \union {i \in 2 .. Len(s) : s[i].hash <= h})

\* The path from the root to the entry of the leaf.
GetLeaf(x, h) ==
  LET p == Position(x.node[0], h)
      n == x.node[0][p].block
      root == [n |-> 0, pos |-> p]
  IN  IF x.level = 0 THEN <<root>>
      ELSE <<root, [n |-> n, pos |-> Position(x.node[n], h)]>>

EntryOf(x, path) == x.node[Last(path).n][Last(path).pos]

\* The leaves in order, each with the hash ext4_dir_dx_next_block looks at.
Leaves(x) ==
  LET below(e) == [x.node[e.block] EXCEPT ![1].hash = e.hash]
      root == x.node[0]
  IN  IF x.level = 0 THEN root
      ELSE FlattenSeq([i \in DOMAIN root |-> below(root[i])])

\* The leaves ext4_dir_dx_find_entry looks into: the first one, and those behind it for
\* as long as the hash goes on.
Candidates(x, h) ==
  LET f == Leaves(x)
      first == SelectInSeq(f, LAMBDA e : e.block = EntryOf(x, GetLeaf(x, h)).block)
      stops == {i \in first + 1 .. Len(f) : f[i].hash - (f[i].hash % 2) # h}
      last == IF stops = {} THEN Len(f) ELSE Min(stops) - 1
  IN  [i \in 1 .. last - first + 1 |-> f[first + i - 1].block]

\* The number in the sequence of the block that holds the name, 0 if none is found.
FindDx(d, x, n) ==
  LET c == Candidates(x, Hash[n])
      k == SelectInSeq(c, LAMBDA b : FindInBlock(d[b + 1], n) # NoSlot)
  IN  IF k = 0 THEN 0 ELSE c[k] + 1

----------------------------------------------------------------------------
(* Adding: ext4_dir_dx_add_entry *)

InsertEntry(x, at, e) == [x EXCEPT !.node[at.n] = InsertAt(@, at.pos + 1, e)]

Outcome(d, x, ok, moved, flaws) ==
  [d |-> d, x |-> x, ok |-> ok, moved |-> moved, flaws |-> flaws]

\* ext4_dir_dx_split_index: is the node at the end of the path full?
MustSplit(x, path, tail) ==
  Len(x.node[Last(path).n]) = IF x.level = 0 THEN Limit(RootLimit, tail) ELSE WrittenLimit

\* No second level of nodes, and no block left.
CannotSplit(d, x, tail) ==
  \/ x.level = 1 /\ Len(x.node[0]) = Limit(RootLimit, tail)
  \/ Len(d) = MaxBlocks

\* The root moves to a new node below it, or the second half of a node to a new one.
SplitIndex(d, x, path) ==
  LET nb == Len(d)
      at == Last(path)
      s == x.node[at.n]
      left == Len(s) \div 2
      grown == [x EXCEPT !.level = 1,
                         !.node = nb :> s @@ 0 :> <<IndexEntry(0, nb)>>]
      halved == [x EXCEPT !.node = nb :> SubSeq(s, left + 1, Len(s))
                                   @@ at.n :> SubSeq(s, 1, left) @@ @]
  IN  IF x.level = 0
      THEN [d |-> Append(d, NodeBlock), x |-> grown, path |-> <<path[1], [n |-> nb, pos |-> at.pos]>>]
      ELSE [d |-> Append(d, NodeBlock),
            x |-> InsertEntry(halved, path[1], IndexEntry(s[left + 1].hash, nb)),
            path |-> IF at.pos > left THEN <<path[1], [n |-> nb, pos |-> at.pos - left]>> ELSE path]

\* The names of a leaf in the order of their hashes.
Sorted(b) ==
  LET live == {o \in ToSet(Chain(b)) : b[o].live}
      ord(o, p) == Hash[b[o].name] < Hash[b[p].name] \/ (Hash[b[o].name] = Hash[b[p].name] /\ o < p)
      s == SetToSortSeq(live, ord)
  IN  [i \in DOMAIN s |-> b[s[i]].name]

Lengths(s, k) == FoldLeft(LAMBDA sum, n : sum + Required(n), 0, SubSeq(s, 1, k))

\* mid: as many names as fit into half a block, and 0 when all of them do.
Middle(s) ==
  LET over == {i \in DOMAIN s : Lengths(s, i) > BlockSize \div 2}
  IN  IF over = {} THEN 0 ELSE Min(over) - 1

\* The names one behind the other, the last one with the room that is left.
Pack(b, s, tail) ==
  LET rec(i) == IF i < Len(s) THEN Required(s[i]) ELSE BlockSize - tail - Lengths(s, i - 1)
      put[i \in 0 .. Len(s)] ==
        IF i = 0 THEN b ELSE WriteEntry(put[i - 1], Lengths(s, i - 1), rec(i), s[i])
  IN  Tailed(put[Len(s)], tail)

\* A mutant: the index does not say that a hash goes on.
SplitHashPlain(s) == IF Middle(s) = 0 THEN 0 ELSE Hash[s[Middle(s) + 1]]

\* The hash of the new leaf, odd if the old one ends with it.
SplitHash(s) ==
  IF Middle(s) = 0 THEN 0
  ELSE LET h == Hash[s[Middle(s) + 1]]
       IN  IF h = Hash[s[Middle(s)]] THEN h + 1 ELSE h

\* ext4_dir_dx_split_data, and the insertion behind it, whose result is not looked at.
SplitData(d, x, path, n, tail) ==
  LET old == EntryOf(x, path).block + 1
      s == Sorted(d[old])
      mid == Middle(s)
      left == IF mid = 0 THEN Tailed(d[old], tail) ELSE Pack(d[old], SubSeq(s, 1, mid), tail)
      right == Pack(ZeroBlock, SubSeq(s, mid + 1, Len(s)), tail)
      split == Append([d EXCEPT ![old] = left], right)
      into == IF Hash[n] >= SplitHash(s) THEN Len(split) ELSE old
  IN  Outcome([split EXCEPT ![into] = TryInsert(@, n)],
              InsertEntry(x, Last(path), IndexEntry(SplitHash(s), Len(d))), TRUE, TRUE,
              (IF mid = 0 THEN {"whole"} ELSE {})
              \union (IF TryInsert(split[into], n) = split[into] THEN {"lost"} ELSE {}))

\* The leaf is chosen before the index is split. Without a block for the index the
\* call goes on to release a block it has never got.
AddDx(d, x, n, tail) ==
  LET path == GetLeaf(x, Hash[n])
      leaf == EntryOf(x, path).block + 1
      must == MustSplit(x, path, tail)
      g == IF must THEN SplitIndex(d, x, path) ELSE [d |-> d, x |-> x, path |-> path]
  IN  IF must /\ CannotSplit(d, x, tail) THEN Outcome(d, x, FALSE, FALSE, {"release"})
      ELSE IF TryInsert(d[leaf], n) # d[leaf]
      THEN Outcome([g.d EXCEPT ![leaf] = TryInsert(@, n)], g.x, TRUE, FALSE, {})
      ELSE IF Len(g.d) = MaxBlocks THEN Outcome(g.d, g.x, FALSE, FALSE, {})
      ELSE SplitData(g.d, g.x, g.path, n, tail)

=============================================================================
