----------------------------- MODULE DokanAdapter -----------------------------
(***************************************************************************)
(* The request handlers of the Dokan adapter over the path resolver and a  *)
(* file system (src/dokan_impl/adapter).                                   *)
(*                                                                         *)
(* A handler holds the fs mutex from its first statement to its last, so   *)
(* one handler is active at a time: op.  Its steps are the critical        *)
(* sections of the resolver mutex and the callbacks of the Filesystem      *)
(* trait.  Between two of them time passes, the file system may change     *)
(* for reasons of its own, and its Notifier, which takes the resolver      *)
(* mutex only, may drop cache entries.                                     *)
(*                                                                         *)
(* Abstractions.  Handlers with the same steps are one request kind:       *)
(*   getattr  get_file_information                                         *)
(*   setattr  set_end_of_file, set_allocation_size, set_file_attributes,   *)
(*            set_file_time, write_file                                    *)
(*   setxattr set_file_security                                            *)
(*   access   read_file, flush_file_buffers, delete_file, delete_directory,*)
(*            lock_file, unlock_file                                       *)
(*   probe    get_file_security, find_streams                              *)
(*   create   create_file;   delete  cleanup with delete_on_close          *)
(*   move     move_file                                                    *)
(* EIO stands for every error that is neither ENOENT nor EEXIST, a missing *)
(* reply included.  Answers to Windows are not represented.                *)
(***************************************************************************)
EXTENDS FileTree

CONSTANTS
  Kinds,       \* the request kinds that are made
  Cacheable,   \* may an entry reply have a ttl: a subset of BOOLEAN
  Faulty,      \* may a callback fail for no visible reason
  Expiring,    \* may entries and attributes expire
  Trees,       \* the file systems to start from
  MaxRequests, \* bound on the requests made
  MaxChanges   \* bound on the changes the file system makes by itself

RequestKinds == {"getattr", "setattr", "setxattr", "access", "probe", "create",
                 "delete", "move"}

ASSUME AdapterAssumption ==
  /\ \A k \in Keys : \A n \in 1 .. Len(k) : SubSeq(k, 1, n) \in Keys
  /\ Kinds \subseteq RequestKinds /\ Cacheable \subseteq BOOLEAN
  /\ \A f \in Trees : f \in FileSystems /\ f.nlookup = NoForgets /\ IsTree(f)
  /\ Keys \cap Inodes = {}
  /\ MaxRequests \in Nat /\ MaxChanges \in Nat

VARIABLES
  resolver,  \* the PathResolver
  fs,        \* the file system
  op,        \* the active request handler
  notices,   \* notifications the file system has yet to send
  lost,      \* lookups dropped by the notifier, per inode
  overtaken, \* keys and inodes cached from a reply older than a notification,
             \* or than a rename that moved another inode than it knew
  requests,  \* requests still to be made
  changes    \* changes of its own the file system may still make

vars == <<resolver, fs, op, notices, lost, overtaken, requests, changes>>
environment == <<notices, lost, overtaken, requests, changes>>

Parent(k) == SubSeq(k, 1, Len(k) - 1)
Leaf(k) == k[Len(k)]

-----------------------------------------------------------------------------
(* The active handler *)

\* What a handler resolves paths for.
Purposes == {"parent", "destParent", "target", "clash", "mtime"}

PCs == {"idle", "reap", "cached", "lookup", "remember",
        "rememberMissing", "unresolved", "parentKnown", "destParentKnown",
        "targetKnown", "clashKnown", "mtimeKnown", "call", "drain", "store",
        "mutated", "created", "collided", "renamed", "forgetPath", "forgetDest",
        "touched"}

NoReply == [status |-> "none"]
Error(status) == [status |-> status]
Entry(i, gen, cacheable) ==
  [status |-> "ok", ino |-> i, gen |-> gen, cacheable |-> cacheable]

NoWalk == [key |-> Root, at |-> 0, ino |-> RootIno, gen |-> 0, into |-> "target"]

IdleOp(outcome) ==
  [kind |-> "none", path |-> Root, dest |-> Root, ctx |-> NoInode,
   isDir |-> FALSE, plan |-> "open", replace |-> FALSE,
   pc |-> "idle", next |-> "idle", walk |-> NoWalk, reply |-> NoReply,
   ino |-> [p \in Purposes |-> NoInode], late |-> FALSE, outcome |-> outcome]

At(pc) == op.pc = pc
Is(kind) == op.kind = kind
Goto(o, pc) == [o EXCEPT !.pc = pc]

\* The pending forgets are taken and delivered, then the handler goes on.
DrainTo(o, next) == [o EXCEPT !.pc = "drain", !.next = next]
Ended == "ended"

Known(purpose) ==
  CASE purpose = "parent" -> "parentKnown"
    [] purpose = "destParent" -> "destParentKnown"
    [] purpose = "target" -> "targetKnown"
    [] purpose = "clash" -> "clashKnown"
    [] purpose = "mtime" -> "mtimeKnown"

\* resolve_path_ino begins: "\" needs no lookup, any other path starts at ROOT.
Resolve(o, key, purpose) ==
  IF key = Root
    THEN [o EXCEPT !.pc = Known(purpose), !.ino[purpose] = RootIno]
    ELSE [o EXCEPT !.pc = "reap",
                   !.walk = [NoWalk EXCEPT !.key = key, !.into = purpose]]

\* resolve_context_or_path: the inode of the handle, when it has one.
ResolveContextOrPath(o, key) ==
  IF o.ctx # NoInode
    THEN [o EXCEPT !.pc = "targetKnown", !.ino["target"] = o.ctx]
    ELSE Resolve(o, key, "target")

\* One more component of the walk is resolved.
Advance(o, ino, gen) ==
  LET w == [o.walk EXCEPT !.at = @ + 1, !.ino = ino, !.gen = gen] IN
  IF w.at = Len(w.key)
    THEN [o EXCEPT !.walk = NoWalk, !.reply = NoReply, !.late = FALSE,
                   !.pc = Known(w.into), !.ino[w.into] = ino]
    ELSE [o EXCEPT !.walk = w, !.reply = NoReply, !.late = FALSE, !.pc = "cached"]

Component == SubSeq(op.walk.key, 1, op.walk.at + 1)

Statuses(possible) == possible \cup (IF Faulty THEN {"EIO"} ELSE {})

-----------------------------------------------------------------------------
(* Resolver steps every handler shares *)

\* Mutant: the forgets are taken and not delivered.
TakeOnly(r, f) == resolver' = Taken(r) /\ fs' = f

Deliver(r, f) == /\ resolver' = Taken(r)
                 /\ fs' = Forgot(f, r.pending)

\* drain_expired_resolver_forgets
Reap ==
  /\ At("reap")
  /\ Deliver(ReapExpired(resolver), fs)
  /\ op' = Goto(op, "cached")
  /\ UNCHANGED environment

\* cached_path_component
CachedComponent ==
  LET w == op.walk
      answer == CachedAnswer(resolver, Component, w.ino, w.gen) IN
  /\ At("cached")
  /\ resolver' = Cached(resolver, Component, w.ino, w.gen)
  /\ \/ /\ answer.found = "hit"
        /\ op' = Advance(op, answer.ino, answer.gen)
     \/ /\ answer.found = "ENOENT"
        /\ op' = [op EXCEPT !.pc = "unresolved", !.reply = Error("ENOENT")]
     \/ /\ answer.found = "miss"
        /\ op' = Goto(op, "lookup")
  /\ UNCHANGED <<fs, environment>>

\* lookup_path_component: fs.lookup, whose reply is not remembered yet.
LookupComponent ==
  LET found == IF op.walk.ino \in Dirs
                 THEN fs.tree[<<op.walk.ino, Leaf(Component)>>] ELSE NoInode
      missing == IF found = NoInode THEN {"ENOENT"} ELSE {} IN
  /\ At("lookup")
  /\ \/ /\ found # NoInode
        /\ fs' = Granted(fs, found)
        /\ \E cacheable \in Cacheable :
             op' = [op EXCEPT !.pc = "remember",
                              !.reply = Entry(found, fs.gen[found], cacheable)]
     \/ /\ fs' = fs
        /\ \E status \in Statuses(missing) :
             op' = [op EXCEPT !.pc = IF status = "ENOENT" THEN "rememberMissing"
                                                          ELSE "unresolved",
                              !.reply = Error(status)]
  /\ UNCHANGED <<resolver, environment>>

\* The entry at k now comes from op's reply: was the reply overtaken?
Record(k) ==
  /\ overtaken' = IF op.late THEN overtaken \cup {k} ELSE overtaken \ {k}
  /\ UNCHANGED <<notices, lost, requests, changes>>

\* Mutant: the forgets are delivered after every component.
RememberComponentAndDrain ==
  LET w == op.walk IN
  /\ At("remember")
  /\ Deliver(RememberPositive(resolver, Component, w.ino, w.gen, Leaf(Component),
                op.reply.ino, op.reply.gen, op.reply.cacheable), fs)
  /\ op' = Advance(op, op.reply.ino, op.reply.gen)
  /\ Record(Component)

RememberComponent ==
  LET w == op.walk IN
  /\ At("remember")
  /\ resolver' = RememberPositive(resolver, Component, w.ino, w.gen,
                     Leaf(Component), op.reply.ino, op.reply.gen, op.reply.cacheable)
  /\ op' = Advance(op, op.reply.ino, op.reply.gen)
  /\ Record(Component)
  /\ UNCHANGED fs

RememberMissingComponent ==
  LET w == op.walk IN
  /\ At("rememberMissing")
  /\ resolver' = RememberNegative(resolver, Component, w.ino, w.gen, Leaf(Component))
  /\ op' = [op EXCEPT !.pc = "unresolved", !.late = FALSE]
  /\ Record(Component)
  /\ UNCHANGED fs

\* A walk that fails drains the forgets; what the error means to the handler.
\* create, cleanup and move drain a second time, with nothing to drain.
WhenUnresolved(o) ==
  CASE o.kind = "setattr" /\ o.walk.into = "mtime" -> Goto(o, "forgetPath")
    [] o.kind = "move" /\ o.walk.into = "target" -> Goto(o, "targetKnown")
    [] o.kind = "move" /\ o.walk.into = "clash" /\ o.reply.status = "ENOENT" ->
         Goto(o, "call")
    [] OTHER -> IdleOp("drained")

\* Mutant: the drain is left to the next request.
UnresolvedUndrained ==
  /\ At("unresolved")
  /\ op' = [WhenUnresolved(op) EXCEPT !.walk = NoWalk, !.reply = NoReply]
  /\ UNCHANGED <<resolver, fs, environment>>

\* Mutant: a walk that failed with EIO is tried again.
UnresolvedRetried ==
  LET again == [NoWalk EXCEPT !.key = op.walk.key, !.into = op.walk.into] IN
  /\ At("unresolved")
  /\ Deliver(resolver, fs)
  /\ op' = IF op.reply.status = "EIO"
             THEN [op EXCEPT !.pc = "reap", !.walk = again, !.reply = NoReply]
             ELSE IdleOp("drained")
  /\ UNCHANGED environment

Unresolved ==
  LET o == WhenUnresolved(op) IN
  /\ At("unresolved")
  /\ Deliver(resolver, fs)
  /\ op' = [o EXCEPT !.walk = NoWalk, !.reply = NoReply]
  /\ UNCHANGED environment

\* drain_resolver_forgets
Drain ==
  /\ At("drain")
  /\ Deliver(resolver, fs)
  /\ op' = IF op.next = Ended THEN IdleOp("drained")
                              ELSE [op EXCEPT !.pc = op.next, !.next = "idle"]
  /\ UNCHANGED environment

\* invalidate_path_cache
InvalidatePathCache(k, o) ==
  /\ Deliver(InvalidateSubtree(resolver, k), fs)
  /\ op' = o
  /\ UNCHANGED environment

-----------------------------------------------------------------------------
(* The requests.  A handle of a request is the inode its path names when   *)
(* the request is made; a request without one has context inode 0.         *)

Handles(k) == {NoInode, InodeAt(fs, k)}

Begin(kind, o) ==
  /\ At("idle") /\ requests > 0 /\ kind \in Kinds
  /\ requests' = requests - 1
  /\ op' = o
  /\ UNCHANGED <<resolver, fs, notices, lost, overtaken, changes>>

Request(kind, path) ==
  [IdleOp("drained") EXCEPT !.kind = kind, !.path = path]

\* The handlers that act on one file, named by its handle or by the path.
RequestOnFile(kind, path) ==
  /\ kind \in {"getattr", "setattr", "setxattr", "access", "probe"}
  /\ \E ctx \in Handles(path) :
       Begin(kind, ResolveContextOrPath([Request(kind, path) EXCEPT !.ctx = ctx], path))

\* create_file_impl
CreateFile(path) ==
  /\ At("idle")
  /\ \E plan \in {"open", "createNew", "createOrOpen"}, isDir \in BOOLEAN :
       Begin("create",
         Resolve([Request("create", path) EXCEPT !.plan = plan, !.isDir = isDir],
                 IF path = Root THEN Root ELSE Parent(path), "parent"))

\* cleanup_delete_on_close; the handle remembers whether it is a directory.
CleanupDelete(path) ==
  /\ path # Root
  /\ \E ctx \in Handles(path), isDir \in BOOLEAN :
       Begin("delete",
         Resolve([Request("delete", path) EXCEPT !.ctx = ctx, !.isDir = isDir],
                 Parent(path), "parent"))

\* move_file
MoveFile(path, dest) ==
  /\ path # Root /\ dest \notin {Root, path}
  /\ \E ctx \in Handles(path), replace \in BOOLEAN :
       Begin("move",
         Resolve([Request("move", path) EXCEPT !.ctx = ctx, !.dest = dest,
                                               !.replace = replace],
                 Parent(path), "parent"))

-----------------------------------------------------------------------------
(* getattr, setattr, setxattr, access, probe *)

\* get_file_information: the attribute cache is asked first.
CachedAttributes ==
  /\ At("targetKnown") /\ Is("getattr")
  /\ resolver' = CachedAttr(resolver, op.ino["target"])
  /\ op' = IF CachedAttrAnswer(resolver, op.ino["target"]) # NoAttr
             THEN DrainTo(op, Ended) ELSE Goto(op, "call")
  /\ UNCHANGED <<fs, environment>>

GetAttributes ==
  /\ At("call") /\ Is("getattr")
  /\ \/ op' = [DrainTo(op, "store") EXCEPT !.reply =
                 [status |-> "ok", attr |-> fs.attr[op.ino["target"]]]]
     \/ Faulty /\ op' = DrainTo(op, Ended)
  /\ UNCHANGED <<resolver, fs, environment>>

StoreAttributes ==
  LET i == op.ino["target"] IN
  /\ At("store")
  /\ \/ resolver' = RememberAttr(resolver, i, op.reply.attr)
     \/ resolver' = ForgetAttr(resolver, i)
  /\ op' = IdleOp("drained")
  /\ overtaken' = IF op.late THEN overtaken \cup {i} ELSE overtaken \ {i}
  /\ UNCHANGED <<fs, notices, lost, requests, changes>>

\* The callback that changes the file: setattr, write, fallocate or setxattr.
\* An offset or a length that does not fit returns before it, without a drain.
SetAttributes ==
  /\ At("targetKnown") /\ op.kind \in {"setattr", "setxattr"}
  /\ \/ /\ fs' = Changed(fs, {op.ino["target"]})
        /\ op' = DrainTo(op, "mutated")
     \/ /\ fs' = fs
        /\ op' \in {IdleOp("undrained")}
                    \cup (IF Faulty THEN {DrainTo(op, Ended)} ELSE {})
  /\ UNCHANGED <<resolver, environment>>

\* finish_metadata_mutation: this inode, the parent, the path and below.
FinishMutation ==
  /\ At("mutated") /\ Is("setattr")
  /\ resolver' = InvalidateInodeAttr(resolver, op.ino["target"])
  /\ op' = IF op.path = Root THEN Resolve(op, Root, "mtime")
                             ELSE Resolve(op, Parent(op.path), "mtime")
  /\ UNCHANGED <<fs, environment>>

InvalidateParentAttr ==
  /\ At("mtimeKnown")
  /\ resolver' = InvalidateInodeAttr(resolver, op.ino["mtime"])
  /\ op' = Goto(op, "forgetPath")
  /\ UNCHANGED <<fs, environment>>

InvalidateMutatedPath ==
  At("forgetPath") /\ Is("setattr") /\ InvalidatePathCache(op.path, IdleOp("drained"))

\* set_file_security drops the attributes of the inode and nothing else.
FinishSetXattr ==
  /\ At("mutated") /\ Is("setxattr")
  /\ resolver' = InvalidateInodeAttr(resolver, op.ino["target"])
  /\ op' = IdleOp("drained")
  /\ UNCHANGED <<fs, environment>>

\* Any callback on the inode; some handlers return between it and the drain.
Access ==
  /\ At("targetKnown") /\ Is("access")
  /\ op' \in {DrainTo(op, Ended), IdleOp("undrained")}
  /\ UNCHANGED <<resolver, fs, environment>>

\* getxattr or listxattr; its answer may call for another callback.
Probe ==
  /\ At("targetKnown") /\ Is("probe")
  /\ op' \in {DrainTo(op, Ended), DrainTo(op, "call"), IdleOp("undrained")}
  /\ UNCHANGED <<resolver, fs, environment>>

\* getxattr with the size found, getattr to make up a security descriptor, or
\* the value of each stream: the forgets are drained, and not once more.
ProbeAgain ==
  /\ At("call") /\ Is("probe")
  /\ op' = IdleOp("drained")
  /\ UNCHANGED <<resolver, fs, environment>>

-----------------------------------------------------------------------------
(* create *)

\* create_root_context returns at once, open_existing_entry resolves the path.
OpenExisting ==
  /\ At("parentKnown") /\ Is("create") /\ (op.path = Root \/ op.plan = "open")
  /\ op' = IF op.path = Root THEN IdleOp("undrained")
                             ELSE Resolve(op, op.path, "target")
  /\ UNCHANGED <<resolver, fs, environment>>

\* fs.create or fs.mkdir.  A file is given what the kind calls for; only
\* create_file_entry_or_open_existing opens what is there already.
MakeEntry ==
  LET dir == op.ino["parent"]
      name == Leaf(op.path)
      free == dir \in Dirs /\ Linked(fs, dir) /\ fs.tree[<<dir, name>>] = NoInode
      taken == dir \in Dirs /\ fs.tree[<<dir, name>>] # NoInode
      makes == {i \in Inodes : Unused(fs, i) /\ (i \in Dirs <=> op.isDir)}
      opens == op.plan = "createOrOpen" /\ ~op.isDir IN
  /\ At("parentKnown") /\ Is("create") /\ op.path # Root /\ op.plan # "open"
  /\ \/ \E i \in makes, cacheable \in Cacheable :
          /\ free /\ (op.isDir => dir = RootIno)
          /\ fs' = Granted(Made(fs, dir, name, i), i)
          /\ op' = [DrainTo(op, "created") EXCEPT
                      !.reply = Entry(i, fs.gen[i] + 1, cacheable)]
     \/ /\ taken /\ fs' = fs
        /\ op' = DrainTo(op, IF opens THEN "collided" ELSE Ended)
     \/ /\ Faulty \/ ~(free \/ taken) \/ (free /\ makes = {})
           \/ (free /\ op.isDir /\ dir # RootIno)
        /\ fs' = fs
        /\ op' = DrainTo(op, Ended)
  /\ UNCHANGED <<resolver, environment>>

\* finish_created_entry
FinishCreated ==
  LET dir == op.ino["parent"]
      r == InvalidateInodeAttr(InvalidateInodeAttr(resolver, dir), op.reply.ino) IN
  /\ At("created")
  /\ resolver' = RememberPositive(r, op.path, dir, GenerationFor(r, dir),
                   Leaf(op.path), op.reply.ino, op.reply.gen, op.reply.cacheable)
  /\ op' = [DrainTo(op, Ended) EXCEPT !.reply = NoReply, !.late = FALSE]
  /\ Record(op.path)
  /\ UNCHANGED fs

\* open_collision_entry
OpenCollision ==
  At("collided") /\ InvalidatePathCache(op.path, Resolve(op, op.path, "target"))

\* open_resolved_path: fs.open or fs.opendir, granted or not.
OpenResolved ==
  /\ At("targetKnown") /\ Is("create")
  /\ op' = DrainTo(op, Ended)
  /\ UNCHANGED <<resolver, fs, environment>>

-----------------------------------------------------------------------------
(* cleanup with delete_on_close *)

RemoveEntry ==
  LET dir == op.ino["parent"]
      i == IF dir \in Dirs THEN fs.tree[<<dir, Leaf(op.path)>>] ELSE NoInode
      may == i # NoInode /\ (i \in Dirs <=> op.isDir) /\ IsEmptyDir(fs, i) IN
  /\ At("parentKnown") /\ Is("delete")
  /\ \/ /\ may
        /\ fs' = Unlinked(fs, dir, Leaf(op.path))
        /\ op' = DrainTo(op, "forgetPath")
     \/ /\ Faulty \/ ~may
        /\ fs' = fs
        /\ op' = DrainTo(op, Ended)
  /\ UNCHANGED <<resolver, environment>>

\* Mutant: the removed path stays in the cache.
KeepRemovedPath ==
  /\ At("forgetPath") /\ Is("delete") /\ op' = Goto(op, "touched")
  /\ UNCHANGED <<resolver, fs, environment>>

InvalidateRemovedPath ==
  At("forgetPath") /\ Is("delete") /\ InvalidatePathCache(op.path, Goto(op, "touched"))

\* The attributes of the handle's inode, when there is a handle, and the parent.
FinishRemoved ==
  LET r == IF op.ctx = NoInode THEN resolver
                               ELSE InvalidateInodeAttr(resolver, op.ctx) IN
  /\ At("touched") /\ Is("delete")
  /\ resolver' = InvalidateInodeAttr(r, op.ino["parent"])
  /\ op' = IdleOp("drained")
  /\ UNCHANGED <<fs, environment>>

-----------------------------------------------------------------------------
(* move *)

ResolveNewParent ==
  /\ At("parentKnown") /\ Is("move")
  /\ op' = Resolve(op, Parent(op.dest), "destParent")
  /\ UNCHANGED <<resolver, fs, environment>>

\* The inode that moves; when it cannot be resolved the move goes on without.
ResolveMoved ==
  /\ At("destParentKnown")
  /\ op' = ResolveContextOrPath(op, op.path)
  /\ UNCHANGED <<resolver, fs, environment>>

\* Without replace_if_existing the new path must not resolve.
CheckClash ==
  /\ At("targetKnown") /\ Is("move")
  /\ op' = IF op.replace THEN Goto(op, "call") ELSE Resolve(op, op.dest, "clash")
  /\ UNCHANGED <<resolver, fs, environment>>

Clash ==
  /\ At("clashKnown")
  /\ op' = DrainTo(op, Ended)
  /\ UNCHANGED <<resolver, fs, environment>>

Rename ==
  LET dir == op.ino["parent"]
      newDir == op.ino["destParent"]
      may == /\ dir \in Dirs /\ newDir \in Dirs /\ Linked(fs, newDir)
             /\ CanRename(fs, dir, Leaf(op.path), newDir, Leaf(op.dest)) IN
  /\ At("call") /\ Is("move")
  /\ \/ /\ may
        /\ fs' = Renamed(fs, dir, Leaf(op.path), newDir, Leaf(op.dest))
        /\ op' = DrainTo(op, "renamed")
        /\ overtaken' = overtaken \cup ({fs.tree[<<dir, Leaf(op.path)>>]} \ {op.ino["target"]})
     \/ /\ Faulty \/ ~may
        /\ fs' = fs
        /\ op' = DrainTo(op, Ended)
        /\ overtaken' = overtaken
  /\ UNCHANGED <<resolver, notices, lost, requests, changes>>

InvalidateMoved ==
  /\ At("renamed")
  /\ resolver' = IF op.ino["target"] = NoInode THEN resolver
                   ELSE InvalidateInodeAttr(resolver, op.ino["target"])
  /\ op' = Goto(op, "forgetPath")
  /\ UNCHANGED <<fs, environment>>

InvalidateOldPath ==
  At("forgetPath") /\ Is("move") /\ InvalidatePathCache(op.path, Goto(op, "forgetDest"))

\* Mutant: only the old path is invalidated.
KeepNewPath ==
  /\ At("forgetDest") /\ op' = Goto(op, "touched")
  /\ UNCHANGED <<resolver, fs, environment>>

InvalidateNewPath ==
  At("forgetDest") /\ InvalidatePathCache(op.dest, Goto(op, "touched"))

\* Mutant: the attributes of the new parent are kept.
FinishMovedFromOldParent ==
  /\ At("touched") /\ Is("move")
  /\ resolver' = InvalidateInodeAttr(resolver, op.ino["parent"])
  /\ op' = IdleOp("drained")
  /\ UNCHANGED <<fs, environment>>

FinishMoved ==
  /\ At("touched") /\ Is("move")
  /\ resolver' = InvalidateInodeAttr(
                   InvalidateInodeAttr(resolver, op.ino["parent"]), op.ino["destParent"])
  /\ op' = IdleOp("drained")
  /\ UNCHANGED <<fs, environment>>

-----------------------------------------------------------------------------
(* The file system by itself, and its notifications                        *)

EntryNotice(dir, name) == [about |-> "entry", dir |-> dir, name |-> name]
DeleteNotice(dir, name, i) ==
  [about |-> "delete", dir |-> dir, name |-> name, child |-> i]
InodeNotices(S) == {[about |-> "inode", ino |-> i] : i \in S}

\* A file system changes, and owes its users a notification of each change.
Change(f, due) ==
  /\ changes > 0
  /\ changes' = changes - 1
  /\ fs' = f
  /\ notices' = notices \cup due
                  \cup InodeNotices({i \in Inodes : f.attr[i] # fs.attr[i]})
  /\ UNCHANGED <<resolver, op, lost, overtaken, requests>>

FsTouches(i) ==
  /\ Linked(fs, i) /\ Changed(fs, {i}) # fs
  /\ Change(Changed(fs, {i}), {})

FsMakes(dir, name, i) ==
  /\ Linked(fs, dir) /\ fs.tree[<<dir, name>>] = NoInode /\ Unused(fs, i)
  /\ i \in Dirs => dir = RootIno
  /\ Change(Made(fs, dir, name, i), {EntryNotice(dir, name)})

\* A directory goes with all that is in it; only its own name is announced.
FsRemoves(dir, name) ==
  LET i == fs.tree[<<dir, name>>] IN
  /\ i # NoInode
  /\ Change(Removed(fs, dir, name), {DeleteNotice(dir, name, i)})

\* Files only: see the README on directories that move by themselves.
FsMoves(dir, name, newDir, newName) ==
  /\ fs.tree[<<dir, name>>] \notin Dirs /\ Linked(fs, newDir)
  /\ CanRename(fs, dir, name, newDir, newName)
  /\ Change(Renamed(fs, dir, name, newDir, newName),
            {EntryNotice(dir, name), EntryNotice(newDir, newName)})

\* The reply the handler holds and has not put in the cache yet.
HoldsReplyAbout(dir, name) ==
  \/ /\ op.pc \in {"remember", "rememberMissing"}
     /\ op.walk.ino = dir /\ Leaf(Component) = name
  \/ /\ "created" \in {op.pc, op.next}
     /\ op.ino["parent"] = dir /\ Leaf(op.path) = name
HoldsAttributesOf(i) == "store" \in {op.pc, op.next} /\ op.ino["target"] = i

\* Mutant: only an inode with lookups has attributes worth dropping.
InvalInodeIfHeld(n) ==
  /\ n.about = "inode"
  /\ resolver' = IF resolver.inodes[n.ino].refcount = 0 THEN resolver
                   ELSE InvalidateInodeAttr(resolver, n.ino)
  /\ op' = [op EXCEPT !.late = @ \/ HoldsAttributesOf(n.ino)]
  /\ UNCHANGED lost

\* inval_inode
InvalInode(n) ==
  /\ n.about = "inode"
  /\ resolver' = InvalidateInodeAttr(resolver, n.ino)
  /\ op' = [op EXCEPT !.late = @ \/ HoldsAttributesOf(n.ino)]
  /\ UNCHANGED lost

\* inval_entry, and delete, which drops the attributes of the child as well.
\* The forgets that the invalidation hands back are thrown away.
InvalEntry(n) ==
  LET r == InvalidateEntry(resolver, n.dir, n.name) IN
  /\ n.about \in {"entry", "delete"}
  /\ resolver' = IF n.about = "delete" THEN InvalidateInodeAttr(Taken(r), n.child)
                                       ELSE Taken(r)
  /\ lost' = [i \in Inodes |-> lost[i] + r.pending[i]]
  /\ op' = [op EXCEPT !.late = \/ @ \/ HoldsReplyAbout(n.dir, n.name)
                               \/ n.about = "delete" /\ HoldsAttributesOf(n.child)]

Notify(n) ==
  /\ InvalInode(n) \/ InvalEntry(n)
  /\ notices' = notices \ {n}
  /\ UNCHANGED <<fs, overtaken, requests, changes>>

-----------------------------------------------------------------------------
(* Time *)

EntryExpires(k) ==
  /\ Expiring /\ IsPresent(resolver.paths[k]) /\ resolver.paths[k].live
  /\ resolver' = ExpireEntry(resolver, k)
  /\ UNCHANGED <<fs, op, environment>>

AttrExpires(i) ==
  /\ Expiring /\ resolver.inodes[i].attr \in Attrs
  /\ resolver' = ExpireAttr(resolver, i)
  /\ UNCHANGED <<fs, op, environment>>

-----------------------------------------------------------------------------
Init ==
  /\ \E negativeTtl \in BOOLEAN : resolver = EmptyResolver(negativeTtl)
  /\ fs \in Trees
  /\ op = IdleOp("drained")
  /\ notices = {} /\ overtaken = {}
  /\ lost = NoForgets
  /\ requests = MaxRequests /\ changes = MaxChanges

Arrival ==
  \E path \in Keys :
    \/ \E kind \in Kinds : RequestOnFile(kind, path)
    \/ CreateFile(path)
    \/ CleanupDelete(path)
    \/ \E dest \in Keys : MoveFile(path, dest)

HandlerStep ==
  \/ Reap \/ CachedComponent \/ LookupComponent
  \/ RememberComponent \/ RememberMissingComponent \/ Unresolved \/ Drain
  \/ CachedAttributes \/ GetAttributes \/ StoreAttributes
  \/ SetAttributes \/ FinishMutation \/ InvalidateParentAttr \/ InvalidateMutatedPath
  \/ FinishSetXattr \/ Access \/ Probe \/ ProbeAgain
  \/ OpenExisting \/ MakeEntry \/ FinishCreated \/ OpenCollision \/ OpenResolved
  \/ RemoveEntry \/ InvalidateRemovedPath \/ FinishRemoved
  \/ ResolveNewParent \/ ResolveMoved \/ CheckClash \/ Clash \/ Rename
  \/ InvalidateMoved \/ InvalidateOldPath \/ InvalidateNewPath \/ FinishMoved

FsStep ==
  \/ \E i \in Inodes : FsTouches(i)
  \/ \E dir \in Dirs, name \in Names :
       \/ \E i \in Inodes : FsMakes(dir, name, i)
       \/ FsRemoves(dir, name)
       \/ \E newDir \in Dirs, newName \in Names : FsMoves(dir, name, newDir, newName)

Notifier == \E n \in notices : Notify(n)

Time == \/ \E k \in Keys : EntryExpires(k)
        \/ \E i \in Inodes : AttrExpires(i)

Next == Arrival \/ HandlerStep \/ FsStep \/ Notifier \/ Time

Spec == Init /\ [][Next]_vars

\* A thread of the Dokan pool that holds the fs mutex runs to the end.
FairSpec == Spec /\ WF_vars(HandlerStep)

-----------------------------------------------------------------------------
(* Properties *)

TypeOK ==
  /\ resolver \in Resolver /\ fs \in FileSystems
  /\ op.pc \in PCs /\ op.kind \in Kinds \cup {"none"}
  /\ op.path \in Keys \cup {Root} /\ op.ctx \in Inodes \cup {NoInode}
  /\ op.ino \in [Purposes -> Inodes \cup {NoInode}]
  /\ lost \in [Inodes -> Nat] /\ overtaken \subseteq Keys \cup Inodes
  /\ requests \in 0 .. MaxRequests /\ changes \in 0 .. MaxChanges

AtRest == At("idle")

\* A name the file system changed by itself without having said so yet.
Announced(due, dir, name) ==
  \E n \in due : n.about \in {"entry", "delete"} /\ n.dir = dir /\ n.name = name
AnnouncedAttr(due, i) ==
  \E n \in due : \/ n.about = "inode" /\ n.ino = i
                 \/ n.about = "delete" /\ n.child = i
Unannounced(dir, name) == Announced(notices, dir, name)
UnannouncedAttr(i) == AnnouncedAttr(notices, i)

\* What the cache says of a name is what the directory says, as long as that
\* directory is there and its number was not given to another one.
Agrees(f, e) ==
  Linked(f, e.parent) /\ f.gen[e.parent] = e.parentGen =>
    LET i == f.tree[<<e.parent, e.name>>] IN
    IF IsPositive(e) THEN i = e.ino /\ f.gen[i] = e.gen ELSE i = NoInode

\* Between two requests every entry that would still be answered from the
\* cache agrees with the file system, whatever was created, deleted or moved,
\* in whatever order, through the adapter or behind its back.  Two excuses
\* exist: the change has not been announced yet, or the entry was made from a
\* reply that the announcement overtook (create_routes.rs:327-343,
\* routes.rs:53-57, dispatch.rs:75-85, path_routes.rs:84-112).
NamesCoherent ==
  AtRest =>
    \A k \in Keys :
      LET e == resolver.paths[k] IN
      IsPresent(e) /\ e.live /\ e.parent \in Dirs /\ k \notin overtaken =>
        Agrees(fs, e) \/ Unannounced(e.parent, e.name)

\* The same for cached attributes, of every inode that a name leads to; not of
\* a file that move_file renamed without knowing its inode, because the walk
\* failed for a moment or got an older inode from the cache: its attributes stay
\* (dispatch.rs:50)
\* (metadata_io.rs:297-305, path_routes.rs:191-197, create_routes.rs:327-331).
AttributesCoherent ==
  AtRest =>
    \A i \in Inodes \ overtaken :
      resolver.inodes[i].attr \in Attrs /\ Linked(fs, i) =>
        resolver.inodes[i].attr = fs.attr[i] \/ UnannouncedAttr(i)

\* While only the adapter changes the file system, each component a walk has
\* resolved, from the cache or not, is the inode its prefix names, and a walk
\* fails with ENOENT only at a prefix that names nothing (path_routes.rs:27-64).
WalksArrive ==
  MaxChanges = 0 /\ ~AtRest =>
    /\ InodeAt(fs, SubSeq(op.walk.key, 1, op.walk.at)) = op.walk.ino
    /\ At("unresolved") /\ op.reply.status = "ENOENT" =>
         InodeAt(fs, Component) = NoInode

\* Whoever changes the file system: an answer that a walk gets from the cache
\* about the directory it is in is the answer of the file system, with the two
\* excuses of NamesCoherent.  A directory that took over the inode number of
\* another one never gets an answer about that one, although what was in the
\* other one is still cached under the same path (state.rs:142-162).
AnswersAgree ==
  LET w == op.walk
      answer == CachedAnswer(resolver, Component, w.ino, w.gen)
      i == fs.tree[<<w.ino, Leaf(Component)>>] IN
  /\ At("cached") /\ w.ino \in Dirs /\ Linked(fs, w.ino) /\ w.gen = fs.gen[w.ino]
  /\ answer.found # "miss" /\ Component \notin overtaken
  /\ ~Unannounced(w.ino, Leaf(Component))
  => i = IF answer.found = "hit" THEN answer.ino ELSE NoInode

\* An inode number obtained by resolving a path is still looked up when it is
\* passed to a callback: no forget was delivered in between.  Not for the inode
\* of a handle, and for rename and the second callback of a probe see below.
Live(i) == i = RootIno \/ i = NoInode \/ fs.nlookup[i] > 0
CallbackInodes ==
  CASE At("lookup") -> {op.walk.ino}
    [] At("targetKnown") /\ op.kind \notin {"getattr", "move"} ->
         {op.ino["target"]} \ {op.ctx}
    [] At("call") /\ Is("getattr") -> {op.ino["target"]} \ {op.ctx}
    [] At("parentKnown") /\ op.kind \in {"create", "delete"} /\ op.path # Root ->
         {op.ino["parent"]}
    [] OTHER -> {}
ResolvedInodesAreLive == \A i \in CallbackInodes : Live(i)

\* move resolves up to four paths before it calls rename with the two parents.
MoveUsesLiveInodes ==
  At("call") /\ Is("move") => Live(op.ino["parent"]) /\ Live(op.ino["destParent"])

\* get_file_security and find_streams call the file system about the inode
\* again after they drained the forgets of the walk that resolved it.
ProbeUsesLiveInode ==
  At("call") /\ Is("probe") /\ op.ctx = NoInode => Live(op.ino["target"])

\* The lookups the file system counts are those the cache holds, those queued,
\* the one in the reply not remembered yet, and those the notifier dropped.
InReply(i) ==
  IF op.pc \in {"remember", "created"} \/ op.next = "created"
    THEN IF op.reply.ino = i THEN 1 ELSE 0 ELSE 0
LookupsBalance ==
  \A i \in Inodes :
    fs.nlookup[i] = Cardinality(Refs(resolver, i)) + resolver.pending[i]
                      + InReply(i) + lost[i]

\* What the adapter can still return is a ledger of the lookups: whatever the
\* interleaving, a step grants one, returns some, or discards some, and none is
\* returned that was not granted or was returned before (path_routes.rs:66-112,
\* state.rs:164-236, 382-394).
Ledger == INSTANCE LookupLedger WITH
  owed <- fs.nlookup,
  held <- [i \in Inodes |-> Cardinality(Refs(resolver, i)) + resolver.pending[i]
                               + InReply(i)]
AdapterKeepsLedger == Ledger!Spec

\* Only a notification discards lookups: the steps of the handlers, of time and
\* of the file system itself return what they give up, also when a walk fails
\* or a request is refused (path_routes.rs:27-64, create_routes.rs:327-343;
\* the notifier is state.rs:78-80).
OnlyNotifierDiscards ==
  [][Notifier \/ (\E i \in Inodes : Ledger!Grant(i)) \/ Ledger!Return]_<<
       fs.nlookup, [i \in Inodes |-> Cardinality(Refs(resolver, i))
                                       + resolver.pending[i] + InReply(i)]>>

\* A request leaves no forget queued behind it, unless it returned early
\* (metadata_io.rs:244, create_routes.rs:72-74, security_locks_streams.rs:125).
DrainedAtRest ==
  AtRest /\ op.outcome = "drained" => resolver.pending = NoForgets

\* A request that is started ends: no notification, change or expiry between
\* its steps sends it round a loop.
RequestsEnd == ~AtRest ~> AtRest

=============================================================================
