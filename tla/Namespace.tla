----------------------------- MODULE Namespace -----------------------------
(***************************************************************************)
(* Names, directories and link counts under the file API of lwext4         *)
(* (ext4.c) on a mounted file system without a running journal, which is   *)
(* how the kernel uses it: transactions do nothing, and what a failing     *)
(* call has changed stays changed.                                         *)
(*                                                                         *)
(* A directory is a function from names to inodes (the on-disk form is the *)
(* module DirBlock) and its ".." entry. A path is a sequence of names. A   *)
(* call is one step, except the recursive removal ext4_dir_rm, which takes *)
(* one step per turn of its loops. Directory blocks may run out whenever   *)
(* an entry is added, inodes run out when all are taken.                   *)
(***************************************************************************)
EXTENDS Integers, Sequences, SequencesExt, FiniteSets, FiniteSetsExt

CONSTANTS
  Inodes,     \* inode numbers
  Root,       \* EXT4_INODE_ROOT_INDEX
  Names,
  Paths,      \* the paths the callers use: sequences of names
  Devices,    \* the kinds of inode ext4_mknod makes
  LinkMax     \* EXT4_LINK_MAX

None == 0   \* no inode

ASSUME NamespaceAssumption ==
  /\ Inodes \subseteq Nat \ {0} /\ IsFiniteSet(Inodes) /\ Root \in Inodes
  /\ Names # {} /\ IsFiniteSet(Names)
  /\ Paths \subseteq Seq(Names) \ {<<>>}
  /\ {"free", "dir", "any", "file", "symlink"} \cap Devices = {}
  /\ LinkMax \in Nat

VARIABLES
  indexed, \* the file system has the feature EXT4_FCOM_DIR_INDEX
  fs,      \* kind and links of the inodes, entries and ".." of the directories
  rm,      \* the locals of a running ext4_dir_rm
  intact   \* history: no failed mkdir has left its name behind, and ext4_dir_rm has
           \* freed no file that still had links

vars == <<indexed, fs, rm, intact>>

Kinds == Devices \union {"free", "dir", "file", "symlink"}
NoEntries == [n \in Names |-> None]
NotRemoving == [depth |-> 0, cur |-> Root, name |-> CHOOSE n \in Names : TRUE]

Init ==
  /\ indexed \in BOOLEAN
  /\ fs = [kind  |-> [i \in Inodes |-> IF i = Root THEN "dir" ELSE "free"],
           links |-> [i \in Inodes |-> IF i = Root THEN 2 ELSE 0],
           entry |-> [i \in Inodes |-> NoEntries],
           up    |-> [i \in Inodes |-> Root]]
  /\ rm = NotRemoving
  /\ intact = TRUE

----------------------------------------------------------------------------
(* Link counts (ext4_fs.c) *)

\* ext4_fs_inode_links_count_inc: an indexed directory stops counting at the maximum.
Inc(f, i) ==
  LET link == f.links[i] + 1
      many == f.kind[i] = "dir" /\ indexed /\ link > 1 /\ (link >= LinkMax \/ link = 2)
  IN  [f EXCEPT !.links[i] = IF many THEN 1 ELSE link]

\* A mutant: directories count down like files.
DecAll(f, i) == [f EXCEPT !.links[i] = IF @ > 0 THEN @ - 1 ELSE @]

\* ext4_fs_inode_links_count_dec: an empty directory keeps its two links.
Dec(f, i) ==
  [f EXCEPT !.links[i] = IF @ > (IF f.kind[i] = "dir" THEN 2 ELSE 0) THEN @ - 1 ELSE @]

HasChildren(f, i) == f.kind[i] = "dir" /\ \E n \in Names : f.entry[i][n] # None

\* ext4_fs_free_inode, and the bit ext4_ialloc_free_inode clears.
FreeInode(f, i) ==
  [f EXCEPT !.kind[i] = "free", !.links[i] = 0, !.entry[i] = NoEntries, !.up[i] = Root]

----------------------------------------------------------------------------
(* ext4_link and ext4_unlink *)

\* Which of the entries an ext4_link adds finds no room.
Rooms == {"enough", "add", "dot", "dotdot"}

Answer(f, r) == [fs |-> f, r |-> r]

\* A new entry `n' of directory d for inode c. On an indexed file system the
\* entry is left behind when the blocks of a new directory cannot be had; else it
\* is removed again, but under the rest of the path (strlen(n)) and not under the
\* component, so that it stays unless the component is the last one. "LEFT" is an
\* ENOSPC with the entry left behind.
Link(f, d, c, n, last, rename, room) ==
  LET added == [f EXCEPT !.entry[d][n] = c]
      isDir == f.kind[c] = "dir"
  IN  IF room = "add" THEN Answer(f, "ENOSPC")
      ELSE IF isDir /\ ~rename
      THEN IF room # "enough"
           THEN IF ~indexed /\ last THEN Answer(f, "ENOSPC") ELSE Answer(added, "LEFT")
           ELSE Answer(Inc([added EXCEPT !.up[c] = d, !.links[c] = 2], d), "EOK")
      ELSE IF isDir THEN Answer(Inc([added EXCEPT !.up[c] = d], d), "EOK")
      ELSE Answer(IF rename THEN added ELSE Inc(added, c), "EOK")

\* The caller has seen that the inode has no children.
Unlink(f, d, c, n) ==
  LET gone == [f EXCEPT !.entry[d][n] = None]
  IN  Dec(IF f.kind[c] = "dir" THEN Dec(gone, d) ELSE gone, c)

----------------------------------------------------------------------------
(* ext4_generic_open2: the walk along a path, which creates what is missing. *)

Unused(f) == {i \in Inodes : f.kind[i] = "free"}

\* A mutant: the new inode is not freed when it finds no room for its entry.
CreateLeaks(f, d, n, kind, last, room) ==
  IF Unused(f) = {} THEN Answer(f, "ENOSPC")
  ELSE LET c == Min(Unused(f))
       IN  Link([f EXCEPT !.kind[c] = kind], d, c, n, last, FALSE, room)

\* ext4_fs_alloc_inode takes the first free number; the new inode has no links.
Create(f, d, n, kind, last, room) ==
  IF Unused(f) = {} THEN Answer(f, "ENOSPC")
  ELSE LET c   == Min(Unused(f))
           new == [f EXCEPT !.kind[c] = kind]
           lnk == Link(new, d, c, n, last, FALSE, room)
       IN  IF lnk.r = "EOK" THEN lnk ELSE Answer(FreeInode(lnk.fs, c), lnk.r)

\* One turn of the loop, for component k. O_CREAT: `create' is TRUE.
Turn(path, kind, create, full, w, k) ==
  LET last  == k = Len(path)
      room  == IF full.at = k THEN full.room ELSE "enough"
      want  == IF last THEN kind ELSE "dir"
      made  == IF w.fs.entry[w.node][path[k]] = None /\ create
               THEN Create(w.fs, w.node, path[k], want, last, room)
               ELSE Answer(w.fs, "EOK")
      next  == made.fs.entry[w.node][path[k]]
  IN  IF w.r # "EOK" THEN w
      ELSE IF made.r # "EOK" THEN [w EXCEPT !.fs = made.fs, !.r = made.r]
      ELSE IF next = None THEN [w EXCEPT !.r = "ENOENT"]
      ELSE IF want # "any" /\ made.fs.kind[next] # want
      THEN [w EXCEPT !.fs = made.fs, !.r = "ENOENT"]
      ELSE [fs |-> made.fs, node |-> next, parent |-> w.node, r |-> "EOK"]

NoFull == [at |-> 0, room |-> "enough"]

\* ext4_fs_get_inode_ref of the root, and one turn for each component.
Walk(path, kind, create, full) ==
  LET w[k \in 0 .. Len(path)] ==
        IF k = 0 THEN [fs |-> fs, node |-> Root, parent |-> Root, r |-> "EOK"]
        ELSE Turn(path, kind, create, full, w[k - 1], k)
  IN  w

Open2(path, kind, create, full) == Walk(path, kind, create, full)[Len(path)]

\* What an existing path leads to, of any kind (EXT4_DE_UNKNOWN).
Lookup(path) == Open2(path, "any", FALSE, NoFull)

\* A new state of the tree, and whether the call has left it whole.
Becomes(f, whole) == fs' = f /\ intact' = whole /\ UNCHANGED indexed

Idle == rm.depth = 0 /\ intact

\* ext4_generic_open2 with O_CREAT; its callers differ in the kind of inode the
\* path shall lead to. What they write to the inode itself is not modelled here.
Open(path, kind, full) ==
  /\ Idle
  /\ kind \in Kinds /\ full.at <= Len(path)
  /\ LET w == Open2(path, kind, TRUE, full) IN Becomes(w.fs, w.r # "LEFT")
  /\ UNCHANGED rm

Fopen(path, full) == Open(path, "file", full)
Fsymlink(path, full) == Open(path, "symlink", full)
Mknod(path, full) == \E kind \in Devices : Open(path, kind, full)
DirMk(path, full) == Open(path, "dir", full)

----------------------------------------------------------------------------
(* ext4_flink, ext4_frename, ext4_fremove *)

\* ext4_create_hardlink: all but the last component exist, the last one does not.
CreateHardlink(path, c, rename, room) ==
  LET dir == Open2(Front(path), "dir", FALSE, NoFull)
  IN  IF dir.r # "EOK" \/ dir.fs.entry[dir.node][Last(path)] # None
      THEN Answer(fs, "EEXIST")
      ELSE Link(fs, dir.node, c, Last(path), TRUE, rename, room)

Flink(path, new, room) ==
  /\ Idle
  /\ LET src == Lookup(path) IN
     /\ src.r = "EOK" /\ fs.kind[src.node] # "dir"
     /\ Becomes(CreateHardlink(new, src.node, FALSE, room).fs, TRUE)
  /\ UNCHANGED rm

RemoveOrig(f, d, c, n) ==
  LET gone == [f EXCEPT !.entry[d][n] = None]
  IN  IF f.kind[c] = "dir" THEN Dec(gone, d) ELSE gone

\* ext4_frename and ext4_dir_mv. Nothing stops a caller from moving a directory
\* below itself; `Inside' is the precondition its callers have to meet.
Inside(path, new) == Len(new) > Len(path) /\ SubSeq(new, 1, Len(path)) = path

Frename(path, new, room) ==
  /\ Idle /\ ~Inside(path, new)
  /\ LET src == Lookup(path)
         lnk == CreateHardlink(new, src.node, TRUE, room)
     IN  /\ src.r = "EOK" /\ lnk.r = "EOK"
         /\ Becomes(RemoveOrig(lnk.fs, src.parent, src.node, Last(path)), TRUE)
  /\ UNCHANGED rm

\* The inode goes with its last link. Of a directory nothing is removed.
Fremove(path) ==
  /\ Idle
  /\ LET src == Lookup(path)
         unl == Unlink(fs, src.parent, src.node, Last(path))
     IN  /\ src.r = "EOK" /\ fs.kind[src.node] # "dir"
         /\ Becomes(IF unl.links[src.node] = 0 THEN FreeInode(unl, src.node) ELSE unl, TRUE)
  /\ UNCHANGED rm

----------------------------------------------------------------------------
(* ext4_dir_rm *)

RmStart(path) ==
  /\ Idle
  /\ LET src == Open2(path, "dir", FALSE, NoFull) IN
     /\ src.r = "EOK"
     /\ rm' = [depth |-> 1, cur |-> src.node, name |-> Last(path)]
  /\ UNCHANGED <<indexed, fs, intact>>

\* An entry whose inode has children: go down.
RmDescend(n) ==
  /\ rm.depth > 0 /\ intact
  /\ fs.entry[rm.cur][n] # None
  /\ HasChildren(fs, fs.entry[rm.cur][n])
  /\ rm' = [rm EXCEPT !.depth = @ + 1, !.cur = fs.entry[rm.cur][n]]
  /\ UNCHANGED <<indexed, fs, intact>>

\* Any other entry: it is unlinked and its inode is freed, whatever its link count.
RmEntry(n) ==
  /\ rm.depth > 0 /\ intact
  /\ fs.entry[rm.cur][n] # None
  /\ ~HasChildren(fs, fs.entry[rm.cur][n])
  /\ LET c   == fs.entry[rm.cur][n]
         unl == Unlink(fs, rm.cur, c, n)
     IN  Becomes(FreeInode(unl, c), fs.kind[c] = "dir" \/ unl.links[c] = 0)
  /\ UNCHANGED rm

Emptied == rm.depth > 0 /\ intact /\ ~HasChildren(fs, rm.cur)

\* A mutant: the walk goes on from the same directory.
RmUpStays ==
  /\ Emptied /\ rm.depth > 1
  /\ UNCHANGED vars

\* dir_end: back to the directory ".." names.
RmUp ==
  /\ Emptied /\ rm.depth > 1
  /\ rm' = [rm EXCEPT !.depth = @ - 1, !.cur = fs.up[rm.cur]]
  /\ UNCHANGED <<indexed, fs, intact>>

\* The last unlink; a directory that stopped counting its links is not freed.
RmLast ==
  /\ Emptied /\ rm.depth = 1
  /\ LET unl == Unlink(fs, fs.up[rm.cur], rm.cur, rm.name)
     IN  Becomes(IF unl.links[rm.cur] = 2 THEN FreeInode(unl, rm.cur) ELSE unl, TRUE)
  /\ rm' = NotRemoving

RmStep == RmUp \/ RmLast \/ \E n \in Names : RmDescend(n) \/ RmEntry(n)

Fulls == {NoFull} \union [at : 1 .. Max({Len(p) : p \in Paths}), room : Rooms \ {"enough"}]

Next ==
  \/ \E p \in Paths :
       \/ \E full \in Fulls : \/ Fopen(p, full) \/ Fsymlink(p, full)
                                \/ Mknod(p, full) \/ DirMk(p, full)
       \/ \E q \in Paths, room \in Rooms : Flink(p, q, room) \/ Frename(p, q, room)
       \/ Fremove(p)
       \/ RmStart(p)
  \/ RmStep

Spec == Init /\ [][Next]_vars

\* One hart runs the removal and nothing interrupts it.
FairSpec == Spec /\ WF_vars(RmStep)

----------------------------------------------------------------------------
(* Properties *)

\* Type of the state.
TypeOK ==
  /\ indexed \in BOOLEAN
  /\ fs \in [kind : [Inodes -> Kinds], links : [Inodes -> Nat],
             entry : [Inodes -> [Names -> Inodes \union {None}]], up : [Inodes -> Inodes]]
  /\ rm \in [depth : 0 .. Cardinality(Inodes), cur : Inodes, name : Names]
  /\ intact \in BOOLEAN

EntriesFor(i) == {p \in Inodes \X Names : fs.entry[p[1]][p[2]] = i}
Subdirs(d) == {n \in Names : fs.entry[d][n] # None /\ fs.kind[fs.entry[d][n]] = "dir"}

\* The link count of a file is the number of its names, that of a directory two
\* and one for each subdirectory, unless it stopped counting: after every call and
\* every turn of ext4_dir_rm, also when entries find no room (ext4.c:210-349).
LinksMatch ==
  intact => \A i \in Inodes :
    CASE fs.kind[i] = "free" -> TRUE
      [] fs.kind[i] = "dir" ->
           \/ fs.links[i] = 2 + Cardinality(Subdirs(i))
           \/ indexed /\ fs.links[i] = 1
      [] OTHER -> fs.links[i] = Cardinality(EntriesFor(i))

\* An inode is taken exactly when a name leads to it, and a directory has one name,
\* in the directory its ".." entry leads to: an inode is freed with its last name and
\* not before, and a rename or a failed creation loses none. Only a directory that
\* stopped counting may be lost. Two calls break this and are excluded: a mkdir that
\* fails and leaves its name (ext4.c:233-235), and an ext4_dir_rm that frees a file
\* with another name (ext4.c:2897-2901).
NamedOnce ==
  intact => \A i \in Inodes \ {Root} :
    /\ fs.kind[i] = "free" => EntriesFor(i) = {}
    /\ fs.kind[i] \notin {"free", "dir"} => EntriesFor(i) # {}
    /\ fs.kind[i] = "dir" =>
         \/ \E n \in Names : EntriesFor(i) = {<<fs.up[i], n>>}
         \/ EntriesFor(i) = {} /\ fs.links[i] = 1

\* No entry leads to a free inode. The code does not keep this (ext4.c:233-235 and
\* 2897-2901).
NoDangling == \A d \in Inodes, n \in Names :
  fs.entry[d][n] # None => fs.kind[fs.entry[d][n]] # "free"

\* ext4_dir_rm comes to an end, from every tree (unless it tore it).
RemovalEnds == rm.depth > 0 ~> (rm.depth = 0 \/ ~intact)

=============================================================================
