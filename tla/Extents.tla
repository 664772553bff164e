------------------------------ MODULE Extents ------------------------------
(***************************************************************************)
(* The extent tree of one file (ext4_extent.c): lookups, appended blocks,  *)
(* blocks written inside the file (holes and preallocated blocks of a file *)
(* that another system wrote), and truncation, which walks the tree leaf   *)
(* by leaf. A block of the device that the allocator can give away is a    *)
(* member of Blocks; node 0 is the root kept in the inode.                 *)
(***************************************************************************)
EXTENDS Integers, Sequences, SequencesExt, FiniteSets, FiniteSetsExt, TLC

CONSTANTS
  NBlocks,    \* blocks the allocator manages
  MaxSize,    \* bound: blocks of the file
  RootMax,    \* entries the root holds
  NodeMax,    \* entries a tree block holds
  Explored    \* the flaws of `flawed' behind which behaviours go on

ASSUME ExtentsAssumption ==
  /\ NBlocks \in Nat \ 0 .. 5 /\ MaxSize \in Nat \ 0 .. 4
  /\ RootMax \in Nat \ {0} /\ NodeMax \in Nat /\ NodeMax > RootMax
  /\ Explored \subseteq {"prepend", "mixed", "third", "restore", "nospace", "hole"}

VARIABLES
  tree,     \* the tree and the allocated blocks: [depth, node, used]
  size,     \* blocks of the file
  pc,       \* "idle", or "remove" inside ext4_extent_remove_space
  path,     \* its path
  level,    \* the level of the tree it works on
  from,     \* the first block it removes
  ref,      \* history: the block and the state each logical block should have
  flawed    \* history: the flaws of the code, described in the README, that came up

vars == <<tree, size, pc, path, level, from, ref, flawed>>

Blocks == 1 .. NBlocks
Root == 0
Lblks == 0 .. MaxSize - 1
Nothing == [p |-> 0, uw |-> FALSE]

\* struct ext4_extent, and struct ext4_extent_index as an entry of length 0.
Extent(first, len, start, uw) == [first |-> first, len |-> len, start |-> start, uw |-> uw]
Index(first, child) == Extent(first, 0, child, FALSE)

\* Files that other systems leave behind: preallocated blocks, and holes.
StartFiles ==
  { <<0, <<>>>>, <<5, <<Extent(0, 5, 2, TRUE)>>>>, <<0, <<Extent(0, 2, 1, TRUE)>>>>,
    <<3, <<Extent(1, 1, 2, FALSE)>>>> }

Covers(e, b) == e.first <= b /\ b < e.first + e.len
BlocksOf(e) == e.start .. e.start + e.len - 1
MappedBy(entries, b) ==
  LET hit == {i \in DOMAIN entries : Covers(entries[i], b)} IN
  IF hit = {} THEN Nothing
  ELSE LET e == entries[Min(hit)] IN [p |-> e.start + b - e.first, uw |-> e.uw]

Init ==
  \E f \in StartFiles :
    /\ size = f[1]
    /\ tree = [depth |-> 0, node |-> [n \in Blocks \cup {Root} |-> IF n = Root THEN f[2] ELSE <<>>],
               used |-> UNION {BlocksOf(f[2][i]) : i \in DOMAIN f[2]}]
    /\ ref = [b \in Lblks |-> MappedBy(f[2], b)]
    /\ pc = "idle" /\ path = <<>> /\ level = 0 /\ from = 0 /\ flawed = {}

----------------------------------------------------------------------------
(* Finding: ext4_find_extent *)

EntriesMax(n) == IF n = Root THEN RootMax ELSE NodeMax
Full(t, n) == Len(t.node[n]) = EntriesMax(n)
FreeIn(t) == Blocks \ t.used

\* Mutant: an entry that starts at b is passed over.
BinSearchStrict(s, b) ==
  LET lt == {i \in DOMAIN s : s[i].first < b} IN
  IF lt = {} THEN Min({1, Len(s)}) ELSE Max(lt)

\* The binary search: the last entry that does not start behind b, else the first.
BinSearch(s, b) ==
  LET le == {i \in DOMAIN s : s[i].first <= b} IN
  IF le = {} THEN Min({1, Len(s)}) ELSE Max(le)

FindExtent(t, b) ==
  LET p[k \in 0 .. t.depth] ==
        LET n == IF k = 0 THEN Root ELSE t.node[p[k-1].n][p[k-1].pos].start
        IN  [n |-> n, pos |-> BinSearch(t.node[n], b)]
  IN  p

EntryAt(t, p) == t.node[p[t.depth].n][p[t.depth].pos]

\* ext4_extent_get_blocks without create.
Lookup(t, b) ==
  LET p == FindExtent(t, b) IN
  IF p[t.depth].pos = 0 \/ ~Covers(EntryAt(t, p), b) THEN Nothing
  ELSE LET e == EntryAt(t, p) IN [p |-> e.start + b - e.first, uw |-> e.uw]

----------------------------------------------------------------------------
(* Inserting: ext4_ext_insert_extent *)

\* Mutant: the keys above are left as they are.
CorrectNoIndexes(t, p) == t

\* ext4_ext_correct_indexes: the keys above a leaf whose first extent changed.
CorrectIndexes(t, p) ==
  LET first == t.node[p[t.depth].n][1].first
      up == {k \in 0 .. t.depth - 1 : \A i \in k + 1 .. t.depth : p[i].pos = 1}
  IN  [t EXCEPT !.node = [n \in DOMAIN t.node |->
         LET at == {k \in up : p[k].n = n} IN
         IF at = {} THEN t.node[n]
         ELSE [t.node[n] EXCEPT ![p[Min(at)].pos].first = first]]]

Adjoins(e1, e2) == e1.start + e1.len = e2.start /\ e1.first + e1.len = e2.first
CanAppend(s, pos, new) == pos > 0 /\ Adjoins(s[pos], new)
CanPrepend(s, pos, new) == pos > 0 /\ Adjoins(new, s[pos])
Merges(t, p, new) ==
  LET q == p[t.depth] IN CanAppend(t.node[q.n], q.pos, new) \/ CanPrepend(t.node[q.n], q.pos, new)

\* The outcome of a call: the tree, the path it leaves, and the flaws it ran into.
Success(t, p, flaws) == [ok |-> TRUE, t |-> t, p |-> p, flaws |-> flaws]
Failure(t, p, flaws) == [ok |-> FALSE, t |-> t, p |-> p, flaws |-> flaws]

\* ext4_ext_insert_leaf, with the position it leaves in the path. Merging in front
\* moves the first logical block and leaves the first physical one.
InsertLeaf(g, new, combine) ==
  LET t == g.t
      p == g.p
      n == p[t.depth].n
      pos == p[t.depth].pos
      s == t.node[n]
      ix == IF pos > 0 /\ new.first > s[pos].first THEN pos + 1 ELSE Max({1, pos})
  IN  IF combine /\ CanAppend(s, pos, new)
      THEN Success([t EXCEPT !.node[n][pos].len = @ + new.len], p,
                   IF s[pos].uw THEN {"mixed"} ELSE {})
      ELSE IF combine /\ CanPrepend(s, pos, new)
      THEN Success([t EXCEPT !.node[n][pos].len = @ + new.len,
                             !.node[n][pos].first = new.first], p, {"prepend"})
      ELSE Success(CorrectIndexes([t EXCEPT !.node[n] = InsertAt(s, ix, new)],
                                  [p EXCEPT ![t.depth].pos = Max({1, pos})]),
                   [p EXCEPT ![t.depth].pos = ix], {})

\* ext4_ext_grow_indepth: the root moves to a new block and points to it; the path is
\* found again.
GrowInDepth(t, b) ==
  LET nb == Min(FreeIn(t))
      g == [depth |-> t.depth + 1, used |-> t.used \cup {nb},
            node |-> [t.node EXCEPT ![nb] = t.node[Root],
                                    ![Root] = <<Index(t.node[Root][1].first, nb)>>]]
  IN  [t |-> g, p |-> FindExtent(g, b)]

\* ext4_ext_split_node from level `at' down to the leaf: what stands behind the path
\* moves to new blocks, one for each level, and level at - 1 gets their index.
SplitNode(g, at, new) ==
  LET t == g.t
      p == g.p
      cut == at .. t.depth
      s == t.node[p[t.depth].n]
      key == IF p[t.depth].pos < Len(s) THEN s[p[t.depth].pos + 1].first ELSE new.first
      nb == [k \in cut |-> SetToSortSeq(FreeIn(t), <)[t.depth - k + 1]]
      moved == [k \in cut |-> (IF k = t.depth THEN <<>> ELSE <<Index(key, nb[k+1])>>)
                              \o SubSeq(t.node[p[k].n], p[k].pos + 1, Len(t.node[p[k].n]))]
      kept == [k \in cut |-> SubSeq(t.node[p[k].n], 1, p[k].pos)]
      above == InsertAt(t.node[p[at-1].n], p[at-1].pos + 1, Index(key, nb[at]))
      right == [k \in 0 .. t.depth |->
                  IF k \in cut THEN [n |-> nb[k], pos |-> Min({1, Len(moved[k])})]
                  ELSE IF k = at - 1 THEN [p[k] EXCEPT !.pos = @ + 1] ELSE p[k]]
  IN  [t |-> [t EXCEPT !.used = @ \cup Range(nb),
                       !.node = [k \in {nb[k] : k \in cut} |-> moved[CHOOSE i \in cut : nb[i] = k]]
                                @@ [k \in {p[k].n : k \in cut} |-> kept[CHOOSE i \in cut : p[i].n = k]]
                                @@ (p[at-1].n :> above) @@ t.node],
       p |-> IF new.first >= key THEN right ELSE p]

\* The same when the blocks run out on the way: the levels already cut stay cut.
SplitFails(t, p) ==
  LET cut == t.depth - Cardinality(FreeIn(t)) + 1 .. t.depth
      short == {k \in cut : p[k].pos < Len(t.node[p[k].n])}
  IN  Failure([t EXCEPT !.node = [n \in DOMAIN t.node |->
                 IF \E k \in cut : p[k].n = n
                 THEN SubSeq(t.node[n], 1, p[CHOOSE k \in cut : p[k].n = n].pos)
                 ELSE t.node[n]]], p, IF short = {} THEN {} ELSE {"nospace"})

InsertExtent(t, p, new, combine) ==
  LET fits == ~Full(t, p[t.depth].n) \/ (combine /\ Merges(t, p, new))
      grow == \A k \in 0 .. t.depth : Full(t, p[k].n)
      at == IF grow THEN 2 ELSE Max({k \in 0 .. t.depth : ~Full(t, p[k].n)}) + 1
      g == IF grow THEN GrowInDepth(t, new.first) ELSE [t |-> t, p |-> p]
      room == IF fits THEN [t |-> t, p |-> p]
              ELSE IF at > g.t.depth THEN g ELSE SplitNode(g, at, new)
  IN  IF ~fits /\ grow /\ FreeIn(t) = {} THEN Failure(t, p, {})
      ELSE IF ~fits /\ Cardinality(FreeIn(g.t)) < g.t.depth - at + 1 THEN SplitFails(g.t, g.p)
      ELSE InsertLeaf(room, new, combine)

----------------------------------------------------------------------------
(* Blocks for writing: ext4_extent_get_blocks with create *)

\* ext4_ext_split_extent_at. A failed insertion restores the length of the extent and
\* not its mark, and is not reported; the length is a 16-bit field.
SplitExtentAt(t, p, split, uw1, uw2) ==
  LET n == p[t.depth].n
      pos == p[t.depth].pos
      e == t.node[n][pos]
      new == Extent(split, e.len - (split - e.first), e.start + split - e.first, uw2)
      r == InsertExtent([t EXCEPT !.node[n][pos].len = (split - e.first) % 32768,
                                  !.node[n][pos].uw = uw1], p, new, FALSE)
  IN  IF split = e.first
      THEN Success([t EXCEPT !.node[n][pos].uw = uw2], p, {})
      ELSE IF r.ok THEN r
      ELSE [r EXCEPT !.ok = TRUE, !.flaws = @ \cup {"restore"},
                     !.t.node[n] = IF pos \in DOMAIN @
                                   THEN [@ EXCEPT ![pos].len = e.len, ![pos].uw = FALSE] ELSE @]

\* ext4_ext_convert_to_initialized for one block.
ConvertToInitialized(t, p, b) ==
  LET e == EntryAt(t, p)
      last == b + 1 = e.first + e.len
      r == SplitExtentAt(t, p, IF last THEN b ELSE b + 1, last \/ b # e.first, ~last)
      r2 == SplitExtentAt(r.t, r.p, b, TRUE, FALSE)
  IN  IF last \/ b = e.first THEN r ELSE [r2 EXCEPT !.flaws = @ \cup r.flaws \cup {"third"}]

\* The block that the allocator finds: the goal of ext4_ext_find_goal, or, when others
\* hold it, some other one. Bound: the lowest other one.
Goal(t, p, b) == IF p[t.depth].pos = 0 THEN 0 ELSE EntryAt(t, p).start + b - EntryAt(t, p).first
Candidates(t, p, b) ==
  LET goal == FreeIn(t) \cap {Goal(t, p, b)}
      others == FreeIn(t) \ goal
  IN  goal \cup (IF others = {} THEN {} ELSE {Min(others)})

\* ext4_extent_get_blocks for block b, when the allocator finds nb for a hole.
GetBlocks(t, b, nb) ==
  LET p == FindExtent(t, b)
      r == InsertExtent([t EXCEPT !.used = @ \cup {nb}], p, Extent(b, 1, nb, FALSE), TRUE)
  IN  IF Lookup(t, b) = Nothing THEN (IF r.ok THEN r ELSE [r EXCEPT !.t.used = @ \ {nb}])
      ELSE IF Lookup(t, b).uw THEN ConvertToInitialized(t, p, b)
      ELSE Success(t, p, {})

Runs == flawed \subseteq Explored /\ pc = "idle"

\* ext4_fs_init_inode_dblk_idx inside the file, ext4_fs_append_inode_dblk behind it.
Obtain(b) ==
  /\ Runs /\ b <= size
  /\ \E nb \in IF Lookup(tree, b) = Nothing THEN Candidates(tree, FindExtent(tree, b), b)
               ELSE {Lookup(tree, b).p} :
       LET r == GetBlocks(tree, b, nb) IN
       /\ tree' = r.t
       /\ flawed' = flawed \cup r.flaws
       /\ ref' = IF r.ok THEN [ref EXCEPT ![b] = [p |-> nb, uw |-> FALSE]] ELSE ref
       /\ size' = IF r.ok /\ b = size THEN size + 1 ELSE size
  /\ UNCHANGED <<pc, path, level, from>>

----------------------------------------------------------------------------
(* Truncation: ext4_extent_remove_space to the end of the file *)

\* Nothing is removed when the first block to go lies in a hole.
RemoveStart(b) ==
  /\ Runs /\ b < size
  /\ LET p == FindExtent(tree, b) IN
     IF p[tree.depth].pos = 0 \/ ~Covers(EntryAt(tree, p), b)
     THEN /\ flawed' = IF \E l \in Lblks : l > b /\ ref[l] # Nothing
                       THEN flawed \cup {"hole"} ELSE flawed
          /\ UNCHANGED <<pc, path, level>>
     ELSE /\ pc' = "remove" /\ path' = p /\ level' = tree.depth
          /\ UNCHANGED flawed
  /\ from' = b /\ size' = b
  /\ ref' = [l \in Lblks |-> IF l >= b THEN Nothing ELSE ref[l]]
  /\ UNCHANGED tree

\* Mutant: the entry goes and its block is not freed.
RemoveIdxOnly(t, p, k) ==
  [t EXCEPT !.node[p[k].n] = RemoveAt(@, p[k].pos)]

\* ext4_ext_remove_idx: the entry at level k goes, and the node it points to; the keys
\* above are corrected, for as long as the entry is the first of its node.
RemoveIdx(t, p, k) ==
  LET gone == t.node[p[k].n][p[k].pos]
      s == RemoveAt(t.node[p[k].n], p[k].pos)
      key == IF p[k].pos <= Len(s) THEN s[p[k].pos].first ELSE gone.first
      up == {i \in 0 .. k - 1 : \A h \in i + 1 .. k : p[h].pos = 1}
  IN  [t EXCEPT !.used = @ \ {gone.start},
                !.node = [n \in DOMAIN t.node |->
                   IF n = p[k].n THEN s
                   ELSE IF n = gone.start THEN <<>>
                   ELSE LET at == {i \in up : p[i].n = n} IN
                        IF at = {} THEN t.node[n]
                        ELSE [t.node[n] EXCEPT ![p[Min(at)].pos].first = key]]]

\* ext4_ext_remove_leaf: the extents from the path's one on, the first one in part.
RemoveLeaf ==
  /\ pc = "remove" /\ level = tree.depth
  /\ LET q == path[level]
         s == tree.node[q.n]
         e == s[q.pos]
         cut == IF e.first < from THEN <<[e EXCEPT !.len = from - e.first]>> ELSE <<>>
         rest == SubSeq(s, 1, q.pos - 1) \o cut
         gone == UNION {BlocksOf(s[i]) : i \in q.pos .. Len(s)}
                 \ (IF cut = <<>> THEN {} ELSE BlocksOf(cut[1]))
         t == [tree EXCEPT !.node[q.n] = rest, !.used = @ \ gone]
     IN  IF level = 0 THEN tree' = t /\ path' = path
         ELSE IF rest = <<>> THEN tree' = RemoveIdx(t, path, level - 1) /\ path' = path
         ELSE tree' = t /\ path' = [path EXCEPT ![level - 1].pos = @ + 1]
  /\ level' = level - 1
  /\ UNCHANGED <<size, pc, from, ref, flawed>>

MoreToRemove == path[level].pos <= Len(tree.node[path[level].n])

RemoveDown ==
  /\ pc = "remove" /\ 0 <= level /\ level < tree.depth /\ MoreToRemove
  /\ path' = [path EXCEPT ![level + 1] =
                [n |-> tree.node[path[level].n][path[level].pos].start, pos |-> 1]]
  /\ level' = level + 1
  /\ UNCHANGED <<tree, size, pc, from, ref, flawed>>

\* Mutant: the level above goes on with the same entry.
RemoveUpAgain ==
  /\ pc = "remove" /\ 0 <= level /\ level < tree.depth /\ ~MoreToRemove
  /\ level' = level - 1
  /\ UNCHANGED <<tree, path, size, pc, from, ref, flawed>>

RemoveUp ==
  /\ pc = "remove" /\ 0 <= level /\ level < tree.depth /\ ~MoreToRemove
  /\ LET empty == tree.node[path[level].n] = <<>> IN
     /\ tree' = IF level > 0 /\ empty THEN RemoveIdx(tree, path, level - 1) ELSE tree
     /\ path' = IF level > 0 /\ ~empty THEN [path EXCEPT ![level - 1].pos = @ + 1] ELSE path
  /\ level' = level - 1
  /\ UNCHANGED <<size, pc, from, ref, flawed>>

\* An empty root is a leaf again.
RemoveEnd ==
  /\ pc = "remove" /\ level < 0
  /\ tree' = IF tree.node[Root] = <<>> THEN [tree EXCEPT !.depth = 0] ELSE tree
  /\ pc' = "idle" /\ path' = <<>> /\ level' = 0 /\ from' = 0
  /\ UNCHANGED <<size, ref, flawed>>

Removal == RemoveLeaf \/ RemoveDown \/ RemoveUp \/ RemoveEnd

Next == (\E b \in Lblks : Obtain(b) \/ RemoveStart(b)) \/ Removal

\* The calls run to their end.
Spec == Init /\ [][Next]_vars /\ WF_vars(Removal)

----------------------------------------------------------------------------
(* Properties *)

Settled == pc = "idle" /\ flawed \subseteq Explored

\* Every block of the file is found where it was put, written or not, and no block is
\* found where there is none, whatever splits, growth and removals the tree went through.
MapsRight == Settled => \A b \in Lblks : Lookup(tree, b) = ref[b]

\* The nodes of the tree by level.
NodesAt(t) ==
  LET at[k \in 0 .. t.depth] ==
        IF k = 0 THEN {Root}
        ELSE UNION {{t.node[n][i].start : i \in DOMAIN t.node[n]} : n \in at[k-1]}
  IN  at
Nodes(t) == UNION {NodesAt(t)[k] : k \in 0 .. t.depth}

\* What the allocator has given away is the blocks of the file and the nodes of the tree,
\* each for one purpose: nothing is lost by a truncation or a failed split, and no node
\* is still used when its block is free.
Accounted ==
  Settled =>
    LET data == {ref[b].p : b \in Lblks} \ {0}
        nodes == Nodes(tree) \ {Root}
    IN  tree.used = data \cup nodes /\ data \cap nodes = {}

\* The shape the searches and the insertions rely on: a node's entries ascend and fit in
\* it, an index is the first block below it, and no node is empty but the root.
Ordered ==
  Settled =>
    \A k \in 0 .. tree.depth : \A n \in NodesAt(tree)[k] :
      LET s == tree.node[n] IN
      /\ \A i \in 2 .. Len(s) : s[i-1].first + s[i-1].len <= s[i].first /\ s[i-1].first < s[i].first
      /\ Len(s) <= EntriesMax(n) /\ (n # Root => s # <<>>)
      /\ k < tree.depth => \A i \in DOMAIN s : s[i].first = tree.node[s[i].start][1].first

\* A truncation comes to its end.
RemovalEnds == pc = "remove" ~> pc = "idle"

----------------------------------------------------------------------------
============================================================================
