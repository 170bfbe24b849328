---------------------------- MODULE AdapterInvariant ----------------------------
(***************************************************************************)
(* The inductive invariant behind the safety properties of DokanAdapter:   *)
(* what a handler knows at each of its steps, and how the lookup counts of *)
(* the file system, the cache and the handler add up.  TLC checks it on    *)
(* the instances of MCDokanAdapter, DokanAdapter_proofs proves it.         *)
(***************************************************************************)
EXTENDS DokanAdapter

-----------------------------------------------------------------------------
(* Types *)

EntryReplies == [status : {"ok"}, ino : Inodes, gen : Generations, cacheable : BOOLEAN]
AttrReplies == [status : {"ok"}, attr : Attrs]
ReplyTypes ==
  [status : {"none", "ENOENT", "EIO"}] \cup EntryReplies \cup AttrReplies

WalkTypes ==
  [key : Keys \cup {Root}, at : Nat, ino : Inodes, gen : Generations, into : Purposes]

Ops ==
  [kind : Kinds \cup {"none"}, path : Keys \cup {Root}, dest : Keys \cup {Root},
   ctx : Inodes \cup {NoInode}, isDir : BOOLEAN,
   plan : {"open", "createNew", "createOrOpen"}, replace : BOOLEAN,
   pc : PCs, next : PCs \cup {Ended}, walk : WalkTypes, reply : ReplyTypes,
   ino : [Purposes -> Inodes \cup {NoInode}], late : BOOLEAN,
   outcome : {"drained", "undrained"}]

NoticeTypes ==
  [about : {"entry"}, dir : Dirs, name : Names]
    \cup [about : {"delete"}, dir : Dirs, name : Names, child : Inodes]
    \cup [about : {"inode"}, ino : Inodes]

-----------------------------------------------------------------------------
(* The steps of a request.  Every kind walks paths and drains forgets; its *)
(* other steps, what it does after a drain, and what it resolves paths for *)
(* are its own.                                                            *)

WalkPCs == {"reap", "cached", "lookup", "remember", "rememberMissing", "unresolved"}

StepsOf(kind) ==
  CASE kind = "getattr" -> {"targetKnown", "call", "store"}
    [] kind = "setattr" -> {"targetKnown", "mutated", "mtimeKnown", "forgetPath"}
    [] kind = "setxattr" -> {"targetKnown", "mutated"}
    [] kind = "access" -> {"targetKnown"}
    [] kind = "probe" -> {"targetKnown", "call"}
    [] kind = "create" -> {"parentKnown", "targetKnown", "created", "collided"}
    [] kind = "delete" -> {"parentKnown", "forgetPath", "touched"}
    [] kind = "move" -> {"parentKnown", "destParentKnown", "targetKnown", "clashKnown",
                         "call", "renamed", "forgetPath", "forgetDest", "touched"}
    [] kind = "none" -> {"idle"}

AfterDrain(kind) ==
  CASE kind = "getattr" -> {"store", Ended}
    [] kind \in {"setattr", "setxattr"} -> {"mutated", Ended}
    [] kind = "probe" -> {"call", Ended}
    [] kind = "create" -> {"created", "collided", Ended}
    [] kind = "delete" -> {"forgetPath", Ended}
    [] kind = "move" -> {"renamed", Ended}
    [] kind = "access" -> {Ended}
    [] kind = "none" -> {}

PurposesOf(kind) ==
  CASE kind = "setattr" -> {"target", "mtime"}
    [] kind = "create" -> {"parent", "target"}
    [] kind = "delete" -> {"parent"}
    [] kind = "move" -> {"parent", "destParent", "target", "clash"}
    [] kind \in {"getattr", "setxattr", "access", "probe"} -> {"target"}
    [] kind = "none" -> {}

OnFile(kind) == kind \in {"getattr", "setattr", "setxattr", "access", "probe"}

-----------------------------------------------------------------------------
(* What a handler knows *)

InOrder(o) ==
  /\ o.pc \in WalkPCs => o.kind # "none"
  /\ o.pc = "drain" => o.next \in AfterDrain(o.kind)
  /\ o.pc # "drain" => o.next = "idle"
  /\ o.pc \notin WalkPCs \cup {"drain"} => o.pc \in StepsOf(o.kind)

\* A walk has components left; a handler that does not walk has no walk.
WalkFits(o) ==
  IF o.pc \in WalkPCs
    THEN /\ o.walk.key # Root /\ o.walk.at < Len(o.walk.key)
         /\ o.walk.into \in PurposesOf(o.kind)
         /\ o.pc = "reap" => o.walk.at = 0 /\ o.walk.ino = RootIno
    ELSE o.walk = NoWalk

\* The reply a handler holds is the one its next step takes apart.
HoldsEntry(o) == o.pc \in {"remember", "created"} \/ o.next = "created"
ReplyFits(o) ==
  /\ HoldsEntry(o) => o.reply \in EntryReplies
  /\ "store" \in {o.pc, o.next} => o.reply \in AttrReplies

\* The inodes a handler passes on were resolved.
Resolving(o, purpose) == o.pc \in WalkPCs /\ o.walk.into = purpose
InodesKnown(o) ==
  /\ OnFile(o.kind) /\ ~Resolving(o, "target") => o.ino["target"] \in Inodes
  /\ o.kind \in {"create", "delete", "move"} /\ ~Resolving(o, "parent") =>
       o.ino["parent"] \in Inodes
  /\ /\ o.kind = "move" /\ o.pc # "parentKnown"
     /\ ~Resolving(o, "parent") /\ ~Resolving(o, "destParent")
     => o.ino["destParent"] \in Inodes
  /\ o.pc = "mtimeKnown" => o.ino["mtime"] \in Inodes

\* The requests that change the tree have names to change.
PathsFit(o) ==
  /\ o.kind \in {"delete", "move"} => o.path # Root
  /\ o.kind = "move" => o.dest # Root
  /\ {"created", "collided"} \cap {o.pc, o.next} # {} => o.path # Root

OpInv(o) ==
  /\ o \in Ops
  /\ InOrder(o) /\ WalkFits(o) /\ ReplyFits(o) /\ InodesKnown(o) /\ PathsFit(o)

\* An inode number that no forget can have taken away from the handler.
LiveIn(f, i) == i = RootIno \/ f.nlookup[i] > 0
LiveInv(o, f) ==
  /\ o.pc \in {"cached", "lookup"} => LiveIn(f, o.walk.ino)
  /\ \/ o.pc = "targetKnown" /\ o.kind # "move"
     \/ o.pc = "call" /\ o.kind = "getattr"
     => o.ino["target"] = o.ctx \/ LiveIn(f, o.ino["target"])
  /\ o.pc = "parentKnown" /\ o.kind \in {"create", "delete"} =>
       LiveIn(f, o.ino["parent"])

\* The steps before which the forgets were drained and nothing was released.
Drained(o) ==
  \/ o.pc \in {"store", "mutated", "touched"}
  \/ o.pc = "call" /\ o.kind = "probe"
  \/ o.pc = "idle" /\ o.outcome = "drained"
DrainedInv(o, r) == Drained(o) => r.pending = NoForgets

Typed ==
  /\ ResolverInv(resolver) /\ fs \in FileSystems /\ OpInv(op)
  /\ notices \subseteq NoticeTypes
  /\ lost \in [Inodes -> Nat] /\ overtaken \subseteq Keys \cup Inodes
  /\ requests \in 0 .. MaxRequests /\ changes \in 0 .. MaxChanges

IInv ==
  /\ Typed
  /\ LookupsBalance
  /\ DrainedInv(op, resolver)
  /\ LiveInv(op, fs)

-----------------------------------------------------------------------------
(* How far a request is from its end: first the steps that are left, of    *)
(* which a walk and a drain are the last before the one they lead to, then *)
(* the components that are left in a walk.                                 *)

StepsLeft(pc) ==
  CASE pc = "parentKnown" -> 11
    [] pc = "destParentKnown" -> 10
    [] pc = "collided" -> 9
    [] pc = "targetKnown" -> 8
    [] pc = "clashKnown" -> 7
    [] pc = "call" -> 6
    [] pc \in {"store", "mutated", "created", "renamed"} -> 5
    [] pc = "mtimeKnown" -> 4
    [] pc = "forgetPath" -> 3
    [] pc = "forgetDest" -> 2
    [] pc = "touched" -> 1
    [] OTHER -> 0

\* The step a handler is at, or on its way to.
Heading(o) ==
  CASE o.pc \in WalkPCs -> Known(o.walk.into)
    [] o.pc = "drain" -> o.next
    [] OTHER -> o.pc

Stage(o) ==
  2 * StepsLeft(Heading(o)) + IF o.pc \in WalkPCs \cup {"drain"} THEN 1 ELSE 0

\* The steps of one component, of which a failed walk is the last.
ComponentStepsLeft(pc) ==
  CASE pc = "reap" -> 4
    [] pc = "cached" -> 3
    [] pc = "lookup" -> 2
    [] pc \in {"remember", "rememberMissing"} -> 1
    [] pc = "unresolved" -> 0

WalkLeft(o) ==
  IF o.pc \in WalkPCs
    THEN 4 * (Len(o.walk.key) - o.walk.at - 1) + ComponentStepsLeft(o.pc)
    ELSE 0

Nearer(p, o) ==
  \/ Stage(p) < Stage(o)
  \/ Stage(p) = Stage(o) /\ WalkLeft(p) < WalkLeft(o)

\* What RequestsEnd rests on: every step of a handler brings the end of its
\* request nearer, and no notification, change of the file system or expiry
\* between two steps takes it further away (path_routes.rs:27-64,
\* dispatch.rs:31-91, create_routes.rs:48-325).
RequestsShorten ==
  [][/\ HandlerStep => Nearer(op', op)
     /\ ~HandlerStep /\ ~AtRest =>
          Stage(op') = Stage(op) /\ WalkLeft(op') = WalkLeft(op)]_vars

\* The distance is a pair of naturals, from which only finitely many steps lead
\* down: resolve_path_ino visits the components of a path once, in order
\* (path_routes.rs:38).
DistanceFinite == Stage(op) \in 0 .. 23 /\ WalkLeft(op) \in Nat

=============================================================================
