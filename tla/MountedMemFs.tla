---------------------------- MODULE MountedMemFs ----------------------------
(***************************************************************************)
(* memfs behind the adapter: open handles, the two tables the adapter      *)
(* keeps by path (handles and dir_offsets), directory listings, renames,   *)
(* delete on close, reads and writes.                                      *)
(*                                                                         *)
(* A path is resolved by walking the store: DokanAdapter shows that the    *)
(* cached walk arrives at the same place.  Paths are sequences of names.   *)
(*                                                                         *)
(* A handler holds the fs mutex from its first line to its last, so it is  *)
(* one step; only close_file gives the mutex up and then locks each table  *)
(* by itself.  Dokan copies the file name when a request is sent, so a     *)
(* rename of the same file may run before the handler does: find, cleanup, *)
(* close and move, which go by that name, are sent in one step and handled *)
(* in another.                                                             *)
(*                                                                         *)
(* Outside of the repository, as Dokan does it: after a move through a     *)
(* handle, the handles at and below its file have the new name, whatever   *)
(* the handler renamed; a handle is closed once, after its cleanup; one    *)
(* search expression for each handle; only handles opened as directories   *)
(* are listed and only the others read and written.                        *)
(***************************************************************************)
EXTENDS MemFs, IoPlan, MountConfig, SequencesExt

CONSTANTS
  Handles,    \* the handles Windows has at most
  MaxDepth,   \* bound: the components of a path
  MaxIno,     \* bound: the last inode number given out
  MaxSize,    \* bound: the bytes of a file
  Contents,   \* the buffers that are written
  Sizes,      \* the offsets and sizes that are asked for, negative ones too
  Scenarios   \* initial stores, configurations and the requests sent; a pattern
              \* is the set of the names it matches

VARIABLES
  store,       \* MemFs
  handles,     \* paths with an entry in DokanAdapter.handles
  dirOffsets,  \* DokanAdapter.dir_offsets: path -> offset
  open,        \* per handle: NotOpen, or the context and what is being done
  config,      \* Config of the session
  requests,    \* bound: the kinds of request of this behaviour, with the
               \* dispositions, paths, targets and patterns in them, and
               \* how many moves
  moves,       \* bound: the renames that have been
  overtaken    \* ghost: a request ran under a name its file no longer had

vars == <<store, handles, dirOffsets, open, config, requests, moves, overtaken>>

Paths == UNION {[1 .. n -> Names] : n \in 0 .. MaxDepth}

ASSUME ScenariosAssumption ==
  /\ MaxDepth \in Nat
  /\ \A s \in Scenarios :
       Sound(s.store) /\ Held(s.store) /\ s.requests.paths \cup s.requests.targets \subseteq Paths

\* A buffer's length has its 32 bits, an offset or a size its 64.
ASSUME BuffersAssumption ==
  /\ \A bytes \in Contents : bytes \in Seq(Byte) /\ Len(bytes) <= U32Max
  /\ Sizes \subseteq Offsets

Parent(path) == SubSeq(path, 1, Len(path) - 1)
Leaf(path) == IF path = << >> THEN NoName ELSE path[Len(path)]

NoIno == 0
NotOpen == [at |-> "none"]

\* A context with the path Dokan has for it, and ghosts: the names already
\* delivered, whether one came twice, whether the listing is undisturbed
\* (exact), and whether the file lost its place to another or was mistaken for
\* another by a late move (displaced).
\* target and replace are those of a move under way.
Opened(path, i, isDir, pattern) ==
  [at |-> "idle", path |-> path, name |-> path, target |-> << >>, replace |-> FALSE,
   ino |-> i, isDir |-> isDir, delete |-> FALSE, pattern |-> pattern, seen |-> {}, twice |-> FALSE,
   exact |-> path \notin DOMAIN dirOffsets, displaced |-> FALSE]

Live(o) == {h \in Handles : o[h].at # "none"}

\* Handles that use the same key of the tables disturb each other's listing.
Alone(o) ==
  [h \in Handles |->
     IF h \in Live(o) /\ \E g \in Live(o) \ {h} : o[h].path \in {o[g].path, o[g].name}
       THEN [o[h] EXCEPT !.exact = FALSE] ELSE o[h]]

\* So does a change of the directory, other than a new entry at its end.
Undisturbed(s, t, i) ==
  /\ \A key \in EntriesOf(s, i) : HasEntry(t, key[1], key[2]) /\ t.children[key] = s.children[key]
  /\ \A key \in EntriesOf(t, i) \ EntriesOf(s, i) : ~Exists(s, t.children[key])

Disturbed(o, s, t) ==
  [h \in Handles |->
     IF h \in Live(o) /\ ~Undisturbed(s, t, o[h].ino)
       THEN [o[h] EXCEPT !.exact = FALSE] ELSE o[h]]

\* resolve_path_ino: NoIno when a component is missing.
Resolve(s, path) ==
  LET walk[n \in 0 .. Len(path)] ==
        IF n = 0 THEN RootIno
        ELSE LET r == Lookup(s, walk[n - 1], path[n]) IN
             IF r.status = "ok" THEN r.ino ELSE NoIno
  IN walk[Len(path)]

AtOrBelow(root, path) == IsPrefix(root, path)
Rebased(old, new, path) == new \o SubSeq(path, Len(old) + 1, Len(path))
NewPath(old, new, path) == IF AtOrBelow(old, path) THEN Rebased(old, new, path) ELSE path

\* Mutant: only the entry of the renamed path itself moves.
RemapExact(table, old, new) ==
  IF old \in DOMAIN table THEN With(Removed(table, old), new, table[old]) ELSE table

\* remap_descendant_keys: what is moved wins over what is there.
Remap(table, old, new) ==
  LET moved == {key \in DOMAIN table : AtOrBelow(old, key)}
      from(key) == {k \in moved : Rebased(old, new, k) = key} IN
  [key \in {NewPath(old, new, k) : k \in DOMAIN table} |->
     IF from(key) = {} THEN table[key] ELSE table[CHOOSE k \in from(key) : TRUE]]

Offset(table, path) == IF path \in DOMAIN table THEN table[path] ELSE 0

\* With one thread a request is not handled between two steps of close_file.
MayRun(h) ==
  Volume(config).singleThread => \A g \in Handles \ {h} : open[g].at # "unlisted"

-----------------------------------------------------------------------------
(* create_file *)

Creates(disposition) == disposition \in {"create", "supersede", "open_if", "overwrite_if"}
OpensAfterCollision(disposition) == Creates(disposition) /\ disposition # "create"

\* A context is made, and remembered in the table of handles.
OpensAs(h, path, i, isDir, s) ==
  \E pattern \in IF isDir THEN requests.patterns ELSE {{}} :
    /\ open' = Alone(Disturbed([open EXCEPT ![h] = Opened(path, i, isDir, pattern)], store, s))
    /\ handles' = handles \cup {path}
    /\ store' = s

\* open_resolved_path
OpenExisting(h, path, i, asDir) ==
  /\ i # NoIno
  /\ (IF asDir THEN OpenDir(store, i) ELSE Open(store, i)) = "ok"
  /\ OpensAs(h, path, i, asDir, store)

\* create_file_impl.  A directory is only made, a file may be opened instead.
\* What fails changes nothing.
CreateFile(h, path, disposition, asDir) ==
  LET dir == Resolve(store, Parent(path))
      made == InsertNode(store, dir, Leaf(path), IF asDir THEN "dir" ELSE "file") IN
  /\ open[h] = NotOpen /\ MayRun(h)
  /\ dir # NoIno
  /\ \/ path = << >> /\ OpensAs(h, path, RootIno, TRUE, store)
     \/ path # << >> /\ ~Creates(disposition)
        /\ OpenExisting(h, path, Resolve(store, path), asDir)
     \/ path # << >> /\ Creates(disposition) /\ made.status = "ok"
        /\ store.next <= MaxIno
        /\ OpensAs(h, path, store.next, asDir, made.store)
     \/ path # << >> /\ OpensAfterCollision(disposition) /\ ~asDir
        /\ made.status = "EEXIST"
        /\ OpenExisting(h, path, Resolve(store, path), FALSE)
  /\ UNCHANGED <<dirOffsets, config, requests, moves, overtaken>>

-----------------------------------------------------------------------------
(* Listing, cleanup and close: sent with the name of that moment *)

Send(h, request, from) ==
  /\ open[h].at = from
  /\ open' = Alone([open EXCEPT ![h].at = request, ![h].name = open[h].path])
  /\ UNCHANGED <<store, handles, dirOffsets, config, requests, moves, overtaken>>

Overtakes(h) == overtaken' = (overtaken \/ open[h].name # open[h].path)

\* Mutant: the offset that is kept is that of the last entry of the reply.
NextOffsetOfReply(entries, sent, from) ==
  IF entries = {} THEN from ELSE Max({e.offset : e \in entries})

\* advance_offset_on_emitted: that of the last entry Dokan took.
NextOffset(entries, sent, from) ==
  IF sent = {} THEN from ELSE Max({e.offset : e \in sent})

\* find_files_with_pattern: memfs has no readdirplus, so readdir is called.
\* find_files is the same with a pattern that matches everything.  Dokan may
\* refuse an entry, and the rest is left for another call.
Find(h) ==
  LET o == open[h]
      from == Offset(dirOffsets, o.name)
      reply == ReadDir(store, o.ino, from)
      matching == {e \in reply.entries : e.name \in o.pattern} IN
  /\ o.at = "find" /\ MayRun(h)
  /\ \E until \in {0} \cup {e.offset : e \in matching} :
       LET sent == {e \in matching : e.offset <= until}
           names == {e.name : e \in sent} IN
       /\ dirOffsets' = With(dirOffsets, o.name, NextOffset(reply.entries, sent, from))
       /\ open' = [open EXCEPT ![h].at = "idle", ![h].seen = @ \cup names,
                     ![h].twice = @ \/ names \cap o.seen # {},
                     ![h].exact = @ /\ o.name = o.path]
  /\ Overtakes(h)
  /\ UNCHANGED <<store, handles, config, requests, moves>>

\* cleanup, with delete_on_close: cleanup_delete_on_close.  It goes by path.
Cleanup(h) ==
  LET o == open[h]
      dir == Resolve(store, Parent(o.name))
      r == IF o.isDir THEN Rmdir(store, dir, Leaf(o.name)) ELSE Unlink(store, dir, Leaf(o.name))
      s == IF o.delete /\ dir # NoIno THEN r.store ELSE store
      gone == DOMAIN store.nodes \ DOMAIN s.nodes IN
  /\ o.at = "cleanup" /\ MayRun(h)
  /\ store' = s
  /\ open' = LET d == Disturbed([open EXCEPT ![h].at = "cleaned"], store, s) IN
             [g \in Handles |-> IF g \in Live(d) /\ gone # {} /\ AtOrBelow(o.name, d[g].path)
                                  THEN [d[g] EXCEPT !.displaced = TRUE] ELSE d[g]]
  /\ Overtakes(h)
  /\ UNCHANGED <<handles, dirOffsets, config, requests, moves>>

\* close_file: release, which memfs ignores, and the table of handles.
CloseFile(h) ==
  /\ open[h].at = "close" /\ MayRun(h)
  /\ handles' = handles \ {open[h].name}
  /\ open' = [open EXCEPT ![h].at = "unlisted"]
  /\ Overtakes(h)
  /\ UNCHANGED <<store, dirOffsets, config, requests, moves>>

\* close_file: the offsets.
CloseFileOffset(h) ==
  /\ open[h].at = "unlisted"
  /\ dirOffsets' = Removed(dirOffsets, open[h].name)
  /\ open' = [open EXCEPT ![h] = NotOpen]
  /\ Overtakes(h)
  /\ UNCHANGED <<store, handles, config, requests, moves>>

-----------------------------------------------------------------------------
(* delete and move *)

\* delete_file, delete_directory: the precheck, by inode.  access is ENOSYS.
DeletePrecheck(h) ==
  LET o == open[h] IN
  IF o.isDir
    THEN /\ IsDir(store, o.ino)
         /\ \A e \in ReadDir(store, o.ino, 0).entries : e.name \in {".", ".."}
    ELSE Exists(store, o.ino) /\ ~IsDir(store, o.ino)

Delete(h) ==
  /\ open[h].at = "idle"
  /\ open[h].path # << >>
  /\ DeletePrecheck(h)
  /\ MayRun(h)
  /\ open' = [open EXCEPT ![h].delete = TRUE]
  /\ UNCHANGED <<store, handles, dirOffsets, config, requests, moves, overtaken>>

\* Both names of a move are those of the moment it is sent.
SendMove(h, new, replace) ==
  /\ open[h].at = "idle" /\ open[h].path # << >> /\ new # << >>
  /\ open' = Alone([open EXCEPT ![h].at = "move", ![h].name = open[h].path,
                                ![h].target = new, ![h].replace = replace])
  /\ moves < requests.moves /\ moves' = moves + 1
  /\ UNCHANGED <<store, handles, dirOffsets, config, requests, overtaken>>

\* Who loses the place its path names: what the new name replaces, with
\* everything below it, and a directory moved below itself.
Displaces(old, new, path) ==
  \/ Resolve(store, new) # NoIno /\ AtOrBelow(new, path) /\ ~AtOrBelow(old, path)
  \/ old # new /\ AtOrBelow(old, new) /\ AtOrBelow(old, path)

\* Who else does when the move is late: the handler renames what has the old
\* name now, and Dokan gives the new one to the handles of the file that left it.
Mistakes(old, current, path) ==
  old # current /\ (AtOrBelow(old, path) \/ AtOrBelow(current, path))

\* Mutant: the new name is looked for in the root.
FreeInRoot(new) == Lookup(store, RootIno, Leaf(new)).status # "ok"

\* What must hold of the new name when nothing may be replaced.
TargetFree(new) == Resolve(store, new) = NoIno

\* What move_file asks of the file system.
Renamed(o) ==
  LET dir == Resolve(store, Parent(o.name))
      newDir == Resolve(store, Parent(o.target)) IN
  IF dir # NoIno /\ newDir # NoIno /\ (o.replace \/ TargetFree(o.target))
    THEN Rename(store, dir, Leaf(o.name), newDir, Leaf(o.target))
    ELSE Fails("refused", store)

\* The handles after it: their paths, and what that does to the ghosts.
AfterMove(o, old, current, new) ==
  [g \in Handles |-> IF g \in Live(o)
     THEN LET p == NewPath(current, new, o[g].path) IN
          [o[g] EXCEPT !.path = p,
             !.exact = @ /\ (p # o[g].path => p \notin DOMAIN dirOffsets),
             !.displaced = @ \/ Displaces(old, new, o[g].path) \/ Mistakes(old, current, o[g].path)]
     ELSE o[g]]

\* move_file.  The file system and the tables go by the name of the request.
MoveFile(h) ==
  LET o == open[h]
      r == Renamed(o) IN
  /\ o.at = "move" /\ MayRun(h)
  /\ r.status = "ok"
  /\ \A p \in handles \cup DOMAIN dirOffsets : Len(NewPath(o.name, o.target, p)) <= MaxDepth
  /\ \A g \in Live(open) : Len(NewPath(o.path, o.target, open[g].path)) <= MaxDepth
  /\ store' = r.store
  /\ handles' = {NewPath(o.name, o.target, p) : p \in handles}
  /\ dirOffsets' = Remap(dirOffsets, o.name, o.target)
  /\ open' = Alone(AfterMove(Disturbed([open EXCEPT ![h].at = "idle"], store, r.store),
                             o.name, o.path, o.target))
  /\ Overtakes(h)
  /\ UNCHANGED <<config, requests, moves>>

\* What fails changes nothing.
MoveFails(h) ==
  /\ open[h].at = "move" /\ MayRun(h)
  /\ Renamed(open[h]).status # "ok"
  /\ open' = [open EXCEPT ![h].at = "idle"]
  /\ UNCHANGED <<store, handles, dirOffsets, config, requests, moves, overtaken>>

-----------------------------------------------------------------------------
(* read, write and sizes *)

\* write_file.  The size is asked for only when the plan needs it.
WriteFile(h, offset, bytes, toEof, paging) ==
  LET attr == GetAttr(store, open[h].ino)
      plan == WritePlan(IF attr.status = "ok" THEN attr.size ELSE 0,
                        offset, Len(bytes), toEof, paging) IN
  /\ open[h].at = "idle" /\ ~open[h].isDir
  /\ MayRun(h)
  /\ plan.ok /\ (toEof \/ paging => attr.status = "ok")
  /\ store' = Write(store, open[h].ino, plan.start, SubSeq(bytes, 1, plan.length)).store
  /\ UNCHANGED <<handles, dirOffsets, open, config, requests, moves, overtaken>>

\* set_end_of_file.  set_allocation_size does nothing: fallocate is ENOSYS.
SetEndOfFile(h, size) ==
  /\ open[h].at = "idle" /\ ~open[h].isDir
  /\ MayRun(h)
  /\ Nonnegative(size).ok
  /\ store' = SetSize(store, open[h].ino, size).store
  /\ UNCHANGED <<handles, dirOffsets, open, config, requests, moves, overtaken>>

\* read_file: no more than the buffer holds.
ReadFile(s, i, offset, size) ==
  IF ~Nonnegative(offset).ok \/ ~CheckedLen(size).ok THEN << >>
  ELSE LET data == Read(s, i, offset, size).data IN
       SubSeq(data, 1, Least(Len(data), size))

-----------------------------------------------------------------------------

Init ==
  \E s \in Scenarios :
    /\ store = s.store
    /\ config \in s.configs /\ Accepted(config)
    /\ requests = s.requests
    /\ handles = {}
    /\ dirOffsets = << >>
    /\ open = [h \in Handles |-> NotOpen]
    /\ moves = 0
    /\ overtaken = FALSE

Opening ==
  \E h \in Handles, path \in requests.paths, asDir \in requests.asDir,
     disposition \in requests.dispositions : CreateFile(h, path, disposition, asDir)
Listing ==
  "find" \in requests.kinds /\ \E h \in Handles : open[h].at = "idle" /\ open[h].isDir /\ Send(h, "find", "idle")
Cleaning == \E h \in Handles : Send(h, "cleanup", "idle")
Closing == \E h \in Handles : Send(h, "close", "cleaned")
Deleting == "delete" \in requests.kinds /\ \E h \in Handles : Delete(h)
Moving ==
  "move" \in requests.kinds
  /\ \E h \in Handles, new \in requests.targets, replace \in BOOLEAN : SendMove(h, new, replace)
Writing ==
  "write" \in requests.kinds
  /\ \E h \in Handles, offset \in Sizes, bytes \in Contents, toEof, paging \in BOOLEAN :
       /\ WriteFile(h, offset, bytes, toEof, paging)
       /\ \A i \in DOMAIN store'.nodes : Len(store'.nodes[i].data) <= MaxSize
Resizing ==
  "write" \in requests.kinds /\ \E h \in Handles, size \in Sizes : SetEndOfFile(h, size)

Next ==
  \/ Opening \/ Listing \/ Cleaning \/ Closing
  \/ \E h \in Handles :
       \/ Find(h) \/ Cleanup(h) \/ CloseFile(h) \/ CloseFileOffset(h)
       \/ MoveFile(h) \/ MoveFails(h)
  \/ Deleting \/ Moving \/ Writing \/ Resizing

Spec == Init /\ [][Next]_vars

-----------------------------------------------------------------------------
(* Correctness *)

\* The state keeps its shape: offsets are counted from 0, tables are keyed by
\* paths, an inode number is given out once.
TypeOK ==
  /\ IsStore(store) /\ RootIno \in DOMAIN store.nodes
  /\ \A i \in DOMAIN store.nodes :
       store.nodes[i].kind \in {"dir", "file"} /\ store.nodes[i].nlink \in Nat
  /\ DOMAIN store.children \subseteq (RootIno .. store.next - 1) \X Names
  /\ handles \subseteq Paths
  /\ DOMAIN dirOffsets \subseteq Paths /\ \A p \in DOMAIN dirOffsets : dirOffsets[p] \in Nat
  /\ \A h \in Live(open) :
       /\ {open[h].path, open[h].name, open[h].target} \subseteq Paths
       /\ open[h].ino \in RootIno .. store.next - 1

\* The two maps of memfs agree: what a directory names exists, and knows that
\* it is there under that name.  readdir sends the name in the node, lookup
\* finds the name in the map (main.rs:99, :238).
EntriesMatchNodes == MapsAgree(store)

\* The path Dokan has for an open file leads to the inode in its context,
\* through any renames of it or above it, until something else takes its
\* place or it is deleted (also with a file it was put below: memfs does not
\* mind), or a late move renames another file in place of this one
\* (dispatch.rs:69).  cleanup deletes by that path (routes.rs:39).
HandlesArrive ==
  \A h \in Live(open) :
    ~open[h].displaced => Resolve(store, open[h].path) = open[h].ino

\* A listing in several calls, each going on from the offset kept for the path
\* (dispatch.rs:140), delivers no entry twice, and all that match up to there,
\* also when the directory or one above it is renamed in between.  Not when
\* entries of it are removed or renamed, when another handle has had the same
\* path, or when the path already had an offset (of a request that came late).
ListingExact ==
  \A h \in Live(open) :
    LET o == open[h]
        reached == Offset(dirOffsets, o.path) IN
    o.exact /\ ~o.displaced =>
      /\ ~o.twice
      /\ \A e \in ReadDir(store, o.ino, 0).entries :
           (e.name \in o.pattern /\ e.offset <= reached) <=> e.name \in o.seen

\* The tables have entries only for paths of open handles, so that a listing
\* starts at its beginning (dispatch.rs:213), unless a request ran late, under
\* a name its file no longer had.
TablesHaveHandles ==
  ~overtaken =>
    handles \cup DOMAIN dirOffsets \subseteq {open[h].path : h \in Live(open)}

\* Closing a deleted file removes that file, and no directory that has
\* entries, whatever was renamed since it was opened (routes.rs:45).  Not when
\* something else has taken its place, when a late move renamed something else
\* in its stead, or when the cleanup came late.
DeletesOwnFile ==
  [][\A h \in Handles :
       Cleanup(h) /\ ~open[h].displaced /\ open[h].name = open[h].path =>
         \A i \in DOMAIN store.nodes \ DOMAIN store'.nodes :
           /\ open[h].delete /\ i = open[h].ino
           /\ IsDir(store, i) => EntriesOf(store', i) = {}]_vars

\* What is in every set that has the root and the entries of its members.
Closed(s, W) == RootIno \in W /\ \A key \in DOMAIN s.children : key[1] \in W => s.children[key] \in W
Reached(s) ==
  {i \in DOMAIN s.nodes : \A W \in SUBSET DOMAIN s.nodes : Closed(s, W) => i \in W}

\* A move that must not replace anything leaves every file within reach, a
\* directory moved below itself apart (dispatch.rs:50).
MovesKeepFiles ==
  [][\A h \in Handles :
       store' # store /\ MoveFile(h) /\ ~open[h].replace /\ ~AtOrBelow(open[h].name, open[h].target) =>
         Reached(store) \subseteq Reached(store')]_vars

\* The contents after a write or a change of the size, at a place and of the
\* length asked for.  What was cut off reads as zero when the file grows.
Rewritten(old, new, at, bytes, length) ==
  /\ Len(new) = length
  /\ \A k \in 1 .. length :
       new[k] = IF k - at \in 1 .. Len(bytes) THEN bytes[k - at]
                ELSE IF k <= Len(old) THEN old[k] ELSE 0

\* A write lands where it was asked to, paging never moves the end of the file
\* (operations.rs:179), what was written is read back, and nothing else
\* changes.  Not a paging write, or one of nothing, that starts beyond the end
\* of the file: it is sent on as an empty write, and memfs grows the file.
ContentsFollow ==
  [][\A h \in Handles : "write" \in requests.kinds /\ open[h].at = "idle" /\ FileStatus(store, open[h].ino) = "ok" =>
       LET i == open[h].ino
           old == store.nodes[i].data
           new == store'.nodes[i].data IN
       /\ \A size \in Sizes :
            SetEndOfFile(h, size) =>
              Rewritten(SubSeq(old, 1, Least(size, Len(old))), new, 0, << >>, size)
       /\ \A offset \in Sizes, bytes \in Contents, toEof, paging \in BOOLEAN :
            LET at == IF toEof THEN Len(old) ELSE offset
                end == at + Len(bytes) IN
            WriteFile(h, offset, bytes, toEof, paging)
            /\ (at <= Len(old) \/ (~paging /\ bytes # << >>)) =>
              /\ Rewritten(old, new, at, bytes,
                           IF paging \/ end < Len(old) THEN Len(old) ELSE end)
              /\ ~paging => ReadFile(store', i, at, Len(bytes)) = bytes
              /\ \A j \in DOMAIN store.nodes \ {i} : store'.nodes[j] = store.nodes[j]]_vars

\* The driver is told of named streams exactly when the volume reports them,
\* whichever of the options ask for it: the two have a list of spellings each
\* (mount_options.rs:214, operations.rs:224).
StreamsAgree ==
  "ALT_STREAM" \in Volume(config).flags <=> "FILE_NAMED_STREAMS" \in Volume(config).fsFlags

=============================================================================
