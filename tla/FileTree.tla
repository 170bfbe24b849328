------------------------------- MODULE FileTree -------------------------------
(***************************************************************************)
(* The file system behind the adapter, as far as the calls that src/ makes *)
(* on the Filesystem trait tell states apart: what each directory names,   *)
(* the generation and the attributes of every inode number, and the        *)
(* lookup count that lookup, create and mkdir raise and forget lowers.     *)
(* It is external to the adapter and answers as a file system should.      *)
(***************************************************************************)
EXTENDS ResolverState

CONSTANTS
  RootIno,  \* INodeNo::ROOT
  Dirs,     \* the inode numbers given to directories
  NoInode   \* inode 0, "none"

ASSUME FileTreeAssumption ==
  /\ Dirs \subseteq Inodes /\ RootIno \in Dirs /\ NoInode \notin Inodes

FileSystems ==
  [tree : [Dirs \X Names -> Inodes \cup {NoInode}],
   gen : [Inodes -> Generations], attr : [Inodes -> Attrs],
   nlookup : [Inodes -> Int]]

\* There are no hard links and, the tree being two levels deep, a directory is
\* in the root; the root has the generation that every walk starts with.
IsTree(f) ==
  /\ \A c, d \in Dirs, m, n \in Names :
       f.tree[<<c, m>>] = f.tree[<<d, n>>] /\ f.tree[<<c, m>>] # NoInode =>
         c = d /\ m = n
  /\ \A d \in Dirs, n \in Names :
       f.tree[<<d, n>>] \in Dirs => d = RootIno /\ f.tree[<<d, n>>] # RootIno
  /\ f.gen[RootIno] = 0

Named(f, i) == {at \in DOMAIN f.tree : f.tree[at] = i}
Linked(f, i) == i = RootIno \/ Named(f, i) # {}
IsEmptyDir(f, i) == i \in Dirs => \A n \in Names : f.tree[<<i, n>>] = NoInode

\* The inode a path leads to, NoInode when it leads nowhere.
InodeAt(f, k) ==
  LET step[n \in 0 .. Len(k)] ==
        IF n = 0 THEN RootIno
        ELSE IF step[n - 1] \in Dirs THEN f.tree[<<step[n - 1], k[n]>>]
                                     ELSE NoInode
  IN step[Len(k)]

\* Something about the inodes of S changed: their attributes differ from now on.
Changed(f, S) ==
  [f EXCEPT !.attr = [i \in Inodes |->
     IF i \in S /\ Attrs # {f.attr[i]}
       THEN CHOOSE a \in Attrs : a # f.attr[i] ELSE f.attr[i]]]

Granted(f, i) == [f EXCEPT !.nlookup[i] = @ + 1]
Forgot(f, forgets) ==
  [f EXCEPT !.nlookup = [i \in Inodes |-> @[i] - forgets[i]]]

\* A number may be given to a new file once nothing names it or counts on it,
\* and then it comes with another generation.
Unused(f, i) ==
  ~Linked(f, i) /\ f.nlookup[i] = 0 /\ f.gen[i] + 1 \in Generations

Made(f, dir, name, i) ==
  Changed([f EXCEPT !.tree[<<dir, name>>] = i, !.gen[i] = @ + 1], {dir, i})

Unlinked(f, dir, name) ==
  Changed([f EXCEPT !.tree[<<dir, name>>] = NoInode], {dir, f.tree[<<dir, name>>]})

\* The same with everything below the name.
Removed(f, dir, name) ==
  LET i == f.tree[<<dir, name>>]
      gone == {<<dir, name>>} \cup {at \in DOMAIN f.tree : at[1] = i} IN
  Changed([f EXCEPT !.tree = [at \in DOMAIN @ |->
             IF at \in gone THEN NoInode ELSE @[at]]],
          {dir} \cup {f.tree[at] : at \in gone})

Renamed(f, dir, name, newDir, newName) ==
  Changed([f EXCEPT !.tree = [@ EXCEPT ![<<dir, name>>] = NoInode,
                       ![<<newDir, newName>>] = f.tree[<<dir, name>>]]],
          {dir, newDir, f.tree[<<dir, name>>], f.tree[<<newDir, newName>>]})

\* rename may replace a file by a file and an empty directory by a directory.
\* Directories live in the root: the tree is at most two levels deep.
CanRename(f, dir, name, newDir, newName) ==
  LET i == f.tree[<<dir, name>>]
      j == f.tree[<<newDir, newName>>]
  IN /\ i # NoInode /\ i # j
     /\ j # NoInode => ((i \in Dirs) <=> (j \in Dirs)) /\ IsEmptyDir(f, j)
     /\ i \in Dirs => newDir = RootIno
=============================================================================
