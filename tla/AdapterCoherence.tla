---------------------------- MODULE AdapterCoherence ----------------------------
(***************************************************************************)
(* The inductive invariants behind what DokanAdapter promises about its    *)
(* cache: NamesCoherent, AnswersAgree, AttributesCoherent and WalksArrive. *)
(* They add to IInv how the entries of the cache, the walk and the reply   *)
(* of the handler sit in the tree of the file system.  TLC checks them on  *)
(* the instances of MCDokanAdapter.                                        *)
(***************************************************************************)
EXTENDS AdapterInvariant

-----------------------------------------------------------------------------
(* Places.  A directory stays at its key for as long as its number has the *)
(* same generation, unless the adapter itself moves it.                    *)

\* A directory number of generation gen fits key k: a directory is in the root.
Fits(f, k, i, gen) ==
  i \in Dirs =>
    /\ gen <= f.gen[i]
    /\ IF i = RootIno THEN k = Root ELSE Len(k) = 1

\* The directory of that generation is, if it is anywhere, at key k.
Placed(f, k, i, gen) ==
  i \in Dirs \ {RootIno} /\ Linked(f, i) /\ gen = f.gen[i] =>
    f.tree[<<RootIno, k[1]>>] = i

\* A directory of the number, as it is now.
Current(f, i, gen) == i \in Dirs /\ Linked(f, i) /\ gen = f.gen[i]

\* What the file system says of a name in a directory.
Says(f, dir, gen, name, i) == Current(f, dir, gen) => f.tree[<<dir, name>>] = i

-----------------------------------------------------------------------------
(* Entries *)

EntryFits(f, k, e) ==
  /\ k # Root /\ e.name = Leaf(k) /\ Fits(f, Parent(k), e.parent, e.parentGen)
  /\ IsPositive(e) =>
       e.parent \in Dirs /\ Fits(f, k, e.ino, e.gen) /\ e.gen = f.gen[e.ino]

EntryPlaced(f, k, e) ==
  /\ Placed(f, Parent(k), e.parent, e.parentGen)
  /\ IsPositive(e) => Placed(f, k, e.ino, e.gen)

Answer(e) == IF IsPositive(e) THEN e.ino ELSE NoInode

\* After rename, and until the old path is invalidated, what the directory that
\* moved took along is cached where it was.
AfterRename(o) == o.kind = "move" /\ {o.pc, o.next} \cap {"renamed", "forgetPath"} # {}
LeftBehind(o) == IF AfterRename(o) THEN Subtree(o.path) ELSE {}

\* The paths whose names the handler changed and has not invalidated yet.
ChangedPaths(o) ==
  CASE AfterRename(o) -> {o.path, o.dest}
    [] o.kind = "move" /\ o.pc = "forgetDest" -> {o.dest}
    [] o.kind = "delete" /\ "forgetPath" \in {o.pc, o.next} -> {o.path}
    [] o.kind = "create" /\ "created" \in {o.pc, o.next} -> {o.path}
    [] OTHER -> {}

EntriesInv(r, f, o) ==
  \A k \in Keys :
    LET e == r.paths[k] IN
    IsPresent(e) => EntryFits(f, k, e) /\ (k \notin LeftBehind(o) => EntryPlaced(f, k, e))

\* What a cached entry says, the directory says, or will say it changed.
EntriesAgree(r, f, o, over, due) ==
  \A k \in Keys \ (over \cup ChangedPaths(o)) :
    LET e == r.paths[k] IN
    IsPresent(e) /\ e.live =>
      \/ Says(f, e.parent, e.parentGen, e.name, Answer(e))
      \/ Announced(due, e.parent, e.name)

\* The table does not run ahead of the file system.
TableFits(r, f) == \A i \in Inodes : r.inodes[i].gen <= f.gen[i]

-----------------------------------------------------------------------------
(* The handler *)

\* How far a walk has come, and what comes next.
Reached(o) == SubSeq(o.walk.key, 1, o.walk.at)
NextKey(o) == SubSeq(o.walk.key, 1, o.walk.at + 1)

WalkPlaced(f, o) ==
  o.pc \in WalkPCs =>
    /\ Fits(f, Reached(o), o.walk.ino, o.walk.gen)
    /\ Placed(f, Reached(o), o.walk.ino, o.walk.gen)

\* The path a purpose stands for.
WalkKey(o) ==
  o.pc \in WalkPCs =>
    /\ o.walk.into = "parent" => o.walk.key = Parent(o.path)
    /\ o.walk.into = "destParent" => o.walk.key = Parent(o.dest)
    /\ o.kind = "move" /\ o.walk.into = "target" => o.walk.key = o.path
    /\ o.walk.into = "clash" => o.walk.key = o.dest

\* A reply that is to become the entry at k agrees with the file system, or the
\* change is or was announced.
ReplyAgrees(f, o, k, dir, gen, i, due) ==
  o.late \/ Says(f, dir, gen, Leaf(k), i) \/ Announced(due, dir, Leaf(k))

ReplyOf(f, o, k) ==
  /\ o.reply.gen = f.gen[o.reply.ino] /\ Fits(f, k, o.reply.ino, o.reply.gen)
  /\ Placed(f, k, o.reply.ino, o.reply.gen)

RepliesInv(r, f, o, due) ==
  /\ o.pc = "remember" =>
       /\ o.walk.ino \in Dirs /\ ReplyOf(f, o, NextKey(o))
       /\ ReplyAgrees(f, o, NextKey(o), o.walk.ino, o.walk.gen, o.reply.ino, due)
  /\ o.pc = "rememberMissing" =>
       ReplyAgrees(f, o, NextKey(o), o.walk.ino, o.walk.gen, NoInode, due)
  /\ "created" \in {o.pc, o.next} =>
       LET dir == o.ino["parent"]
           gen == GenerationFor(r, dir) IN
       /\ dir \in Dirs /\ ReplyOf(f, o, o.path)
       /\ Fits(f, Parent(o.path), dir, gen) /\ Placed(f, Parent(o.path), dir, gen)
       /\ ReplyAgrees(f, o, o.path, dir, gen, o.reply.ino, due)

\* The parent a new or a removed name is in is where the path says.
ParentInv(f, o) ==
  o.pc = "parentKnown" /\ o.kind \in {"create", "delete"} =>
    LET dir == o.ino["parent"] IN
    Fits(f, Parent(o.path), dir, f.gen[dir]) /\ Placed(f, Parent(o.path), dir, f.gen[dir])

\* A move may find its parents reused: then what is cached of them is what the
\* move itself walked over.
OwnKeys(o) ==
  {k \in Keys : \E c \in {o.path, o.dest} : Len(k) <= Len(c) /\ SubSeq(c, 1, Len(k)) = k}

OnlyAt(r, f, o, dir, key) ==
  /\ Fits(f, key, dir, f.gen[dir])
  /\ \A k \in Keys \ OwnKeys(o) :
       LET e == r.paths[k] IN
       IsPresent(e) /\ e.parent = dir /\ Current(f, dir, e.parentGen) => Parent(k) = key

MovePCs == WalkPCs \cup {"parentKnown", "destParentKnown", "targetKnown", "clashKnown", "call"}

MoveInv(r, f, o) ==
  o.kind = "move" /\ o.pc \in MovePCs /\ ~Resolving(o, "parent") =>
    /\ OnlyAt(r, f, o, o.ino["parent"], Parent(o.path))
    /\ o.pc # "parentKnown" /\ ~Resolving(o, "destParent") =>
         OnlyAt(r, f, o, o.ino["destParent"], Parent(o.dest))

\* At every step, also in the middle of a request: cached entries, the inodes a
\* walk has resolved, the replies that are still to be cached and the parents
\* that a change was asked for under sit in the tree of the file system as their
\* keys say, or their directory was given to another one since, or the handler
\* has yet to drop them (path_routes.rs:27-112, create_routes.rs:327-343,
\* routes.rs:53-57, dispatch.rs:75-85).
NamesInv ==
  /\ IsTree(fs)
  /\ TableFits(resolver, fs)
  /\ EntriesInv(resolver, fs, op)
  /\ EntriesAgree(resolver, fs, op, overtaken, notices)
  /\ WalkPlaced(fs, op) /\ WalkKey(op)
  /\ RepliesInv(resolver, fs, op, notices)
  /\ ParentInv(fs, op)
  /\ MoveInv(resolver, fs, op)

-----------------------------------------------------------------------------
(* Attributes *)

\* The inodes that the handler changed and whose attributes it has yet to drop.
ChangedInodes(o) ==
  CASE o.kind \in {"setattr", "setxattr"} /\ "mutated" \in {o.pc, o.next} ->
         {o.ino["target"]}
    [] o.kind = "create" /\ "created" \in {o.pc, o.next} ->
         {o.ino["parent"], o.reply.ino}
    [] o.kind = "delete" /\ {"forgetPath", "touched"} \cap {o.pc, o.next} # {} ->
         {o.ino["parent"]}
    [] o.kind = "move" /\ {"renamed"} \cap {o.pc, o.next} # {} ->
         {o.ino["parent"], o.ino["destParent"], o.ino["target"]}
    [] o.kind = "move" /\ o.pc \in {"forgetPath", "forgetDest", "touched"} ->
         {o.ino["parent"], o.ino["destParent"]}
    [] OTHER -> {}

\* At every step: cached attributes, and those in a reply that is still to be
\* cached, are those of the file system, or the change is still to be announced,
\* or the handler made it and has yet to drop them
\* (metadata_io.rs:297-305, path_routes.rs:191-197, dispatch.rs:75-85).
AttributesInv ==
  /\ IsTree(fs)
  /\ \A i \in Inodes \ (overtaken \cup ChangedInodes(op)) :
       resolver.inodes[i].attr \in Attrs /\ Linked(fs, i) =>
         resolver.inodes[i].attr = fs.attr[i] \/ AnnouncedAttr(notices, i)
  /\ "store" \in {op.pc, op.next} =>
       \/ op.late \/ op.reply.attr = fs.attr[op.ino["target"]]
       \/ AnnouncedAttr(notices, op.ino["target"])

-----------------------------------------------------------------------------
(* Walks, while only the adapter changes the file system *)

\* As long as nothing but the adapter changes the file system, no reply is late
\* and nothing is left to announce, and a walk, and what it is to cache next, is
\* where the path leads (path_routes.rs:27-112).
ArrivalInv ==
  MaxChanges = 0 =>
    /\ changes = 0 /\ notices = {} /\ ~op.late /\ overtaken \cap Keys = {}
    /\ op.pc \in WalkPCs =>
         /\ InodeAt(fs, Reached(op)) = op.walk.ino /\ op.walk.gen = fs.gen[op.walk.ino]
         /\ op.pc = "remember" => InodeAt(fs, NextKey(op)) = op.reply.ino
         /\ op.pc = "rememberMissing" => InodeAt(fs, NextKey(op)) = NoInode
         /\ op.pc = "unresolved" /\ op.reply.status = "ENOENT" =>
              InodeAt(fs, NextKey(op)) = NoInode

=============================================================================
