----------------------------- MODULE Directory -----------------------------
(***************************************************************************)
(* A directory of lwext4, with or without an index (ext4_dir.c,            *)
(* ext4_dir_idx.c), and the directory stream of the file API               *)
(* (ext4_dir_open, ext4_dir_entry_next), which reads all blocks in order   *)
(* and only keeps an offset between two calls: it may land on anything.    *)
(*                                                                         *)
(* Calls hold the lock of the mount point, so each is one step.            *)
(***************************************************************************)
EXTENDS DirIndex

CONSTANT Explored   \* the flaws of `flawed' behind which behaviours go on

VARIABLES
  dir,      \* the blocks
  dx,       \* the index, and whether EXT4_INODE_FLAG_INDEX is set
  tail,     \* the length of the checksum entry: a feature of the file system
  names,    \* history: the names added and not removed
  stream,   \* an open stream: its offset, and history: the names it has still to
            \* return, has returned, and has returned twice, of those that were in
            \* the directory since it was opened
  flawed    \* history: the flaws of the code, described in the README, that came up

vars == <<dir, dx, tail, names, stream, flawed>>

Term == -1      \* EXT4_DIR_ENTRY_OFFSET_TERM
Closed == [open |-> FALSE, at |-> Term, due |-> {}, seen |-> {}, twice |-> {}]

\* What a stream returns from now on is anyone's guess: nothing is expected of it.
Lost(s) == IF s.open THEN [Closed EXCEPT !.open = TRUE] ELSE s

\* ext4_link fills a new directory, with an index if the file system has
\* EXT4_FCOM_DIR_INDEX.
Init ==
  /\ tail \in {0, TailLen}
  /\ \/ dir = InitBlocks(tail) /\ dx = InitIndex
     \/ dir = AddLinear(AddLinear(<<>>, Dot, tail), DotDot, tail) /\ dx = NoIndex
  /\ names = {Dot, DotDot} /\ stream = Closed /\ flawed = {}

----------------------------------------------------------------------------
(* ext4_dir_find_entry, ext4_dir_add_entry, ext4_dir_remove_entry *)

Runs == flawed \subseteq Explored

\* A lookup that finds the index bad clears the flag, and all is linear from then on.
Index == IF BadDx(dx, tail) THEN NoIndex ELSE dx
BlockOf(n) == IF Index.on THEN FindDx(dir, Index, n) ELSE FindLinear(dir, n)
Finds(n) == BlockOf(n) # 0

FindEntry ==
  /\ Runs /\ dx' = Index
  /\ UNCHANGED <<dir, tail, names, stream, flawed>>

\* Callers have looked the name up before.
AddEntry(n) ==
  /\ Runs /\ n \notin {Dot, DotDot} /\ ~Finds(n)
  /\ LET r == IF Index.on THEN AddDx(dir, Index, n, tail)
              ELSE LET d == AddLinear(dir, n, tail)
                   IN  Outcome(d, NoIndex, d # dir, FALSE, {})
     IN  /\ dir' = r.d /\ dx' = r.x
         /\ names' = IF r.ok THEN names \union {n} ELSE names
         /\ stream' = IF r.moved THEN Lost(stream) ELSE stream
         /\ flawed' = flawed \union r.flaws
  /\ UNCHANGED tail

\* No caller removes "." or "..".
RemoveEntry(n) ==
  /\ Runs /\ n \notin {Dot, DotDot} /\ Finds(n)
  /\ LET k == BlockOf(n)
     IN  dir' = [dir EXCEPT ![k] = RemoveInBlock(@, FindInBlock(@, n))]
  /\ dx' = Index
  /\ names' = names \ {n}
  /\ stream' = [stream EXCEPT !.due = @ \ {n}, !.seen = @ \ {n}, !.twice = @ \ {n}]
  /\ UNCHANGED <<tail, flawed>>

----------------------------------------------------------------------------
(* The stream *)

At(pos) == dir[pos \div BlockSize + 1][pos % BlockSize]
DirSize == Len(dir) * BlockSize

\* ext4_dir_iterator_set: the entry may be published.
Valid(pos) ==
  LET o == pos % BlockSize
      c == At(pos)
      nameLen == IF c.name \in Names THEN NameLen[c.name] ELSE 0
  IN  o <= BlockSize - 8 /\ o + c.rec <= BlockSize /\ nameLen <= c.rec - 8

Stray == -2   \* bytes that are no header are taken for one

\* A mutant: the search for the next entry stops at the end of the block.
NextLiveInBlock(pos) ==
  IF (pos + At(pos).rec) % BlockSize = 0 THEN Term ELSE pos + At(pos).rec

\* ext4_dir_iterator_next: the next entry alive, in this block or a later one.
NextLive(pos) ==
  LET from[p \in 0 .. DirSize + BlockSize] ==
        IF p >= DirSize THEN Term
        ELSE IF ~IsHeader(At(p)) THEN Stray
        ELSE IF ~Valid(p) THEN Term
        ELSE IF At(p).live THEN p
        ELSE from[p + At(p).rec]
  IN  from[pos + At(pos).rec]

\* ext4_dir_open, ext4_dir_entry_rewind
OpenDir ==
  /\ Runs
  /\ stream' = [Closed EXCEPT !.open = TRUE, !.at = 0, !.due = names]
  /\ UNCHANGED <<dir, dx, tail, names, flawed>>

\* ext4_dir_entry_next: the entry at the offset the last call has left, alive
\* or not. Where bytes of a name lie there by now the answer is anything.
EntryNext ==
  /\ Runs /\ stream.open /\ stream.at # Term
  /\ LET at   == stream.at
         bad  == ~IsHeader(At(at))
         next == IF bad THEN Stray ELSE NextLive(at)
         now  == IF ~bad /\ At(at).live THEN {At(at).name} ELSE {}
     IN  stream' = IF next = Stray THEN Lost(stream)
                   ELSE [stream EXCEPT !.at = next,
                                       !.due = @ \ now,
                                       !.seen = @ \union (now \cap stream.due),
                                       !.twice = @ \union (now \cap stream.seen)]
  /\ UNCHANGED <<dir, dx, tail, names, flawed>>

\* ext4_dir_close
CloseDir ==
  /\ Runs /\ stream.open
  /\ stream' = Closed
  /\ UNCHANGED <<dir, dx, tail, names, flawed>>

Next ==
  \/ \E n \in Names : AddEntry(n) \/ RemoveEntry(n)
  \/ FindEntry \/ OpenDir \/ EntryNext \/ CloseDir

Spec == Init /\ [][Next]_vars

----------------------------------------------------------------------------
(* Properties *)

\* After any sequence of insertions, removals and splits the entries lie end to end
\* and fill their block exactly, the checksum entry (if any) is the last, no dead
\* entry is left but at the start of a block, and a living one holds its name.
Tiled ==
  Runs =>
  \A k \in DOMAIN dir :
    LET b == dir[k]
        c == Chain(b)
    IN  /\ c # <<>> /\ c[Len(c)] + b[c[Len(c)]].rec = BlockSize
        /\ \A i \in DOMAIN c :
             /\ b[c[i]].name = CsumTail => i = Len(c) /\ b[c[i]].rec = tail
             /\ ~b[c[i]].live => i = 1 \/ b[c[i]].name = CsumTail
             /\ b[c[i]].live =>
                  /\ b[c[i]].rec >= Required(b[c[i]].name)
                  /\ \A x \in Offsets \cap (c[i] + 1 .. c[i] + CoreLen + NameLen[b[c[i]].name] - 1) :
                       b[x] = Bytes

\* A lookup finds a name if and only if it was added and not removed since, through
\* the index or without it, with equal hashes, while leaves and nodes split, and after
\* the index was given up; and there is one entry for it. The index does not know "."
\* and "..".
FindsNames ==
  LET entries == UNION {{k} \X {o \in ToSet(Chain(dir[k])) : dir[k][o].live} : k \in DOMAIN dir}
      entriesOf(n) == {e \in entries : dir[e[1]][e[2]].name = n}
  IN  Runs =>
        \A n \in Names :
          /\ (n \in {Dot, DotDot} /\ Index.on) \/ (Finds(n) <=> n \in names)
          /\ Cardinality(entriesOf(n)) = IF n \in names THEN 1 ELSE 0

\* A listing that has run to its end without straying has returned every name
\* that was in the directory all the time, and none of them twice, whatever was
\* added and removed between its calls, unless a leaf was split meanwhile.
ListsAll == Runs => stream.twice = {} /\ (stream.open /\ stream.at = Term => stream.due = {})

=============================================================================
