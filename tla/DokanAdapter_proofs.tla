-------------------------- MODULE DokanAdapter_proofs --------------------------
(***************************************************************************)
(* Proofs about the request handlers.  The first part says what the few    *)
(* ways of moving a handler on (Resolve, Advance, DrainTo, Goto) make of   *)
(* what it knows; the second takes the actions one by one; the third       *)
(* draws the theorems from the inductive invariant IInv.                   *)
(***************************************************************************)
EXTENDS AdapterInvariant, ResolverState_proofs, FileTree_proofs

-----------------------------------------------------------------------------
(* Paths *)

\* The part of a path that a walk has reached is itself a path of the cache.
LEMMA WalkPaths ==
  ASSUME NEW k \in Keys \cup {Root}, k # Root
  PROVE  /\ k \in Keys /\ k \in Seq(Names) /\ Len(k) \in Nat /\ Len(k) > 0
         /\ Leaf(k) \in Names
         /\ Parent(k) \in Keys \cup {Root}
         /\ \A n \in 1 .. Len(k) : /\ SubSeq(k, 1, n) \in Keys
                                   /\ SubSeq(k, 1, n) # Root
                                   /\ Leaf(SubSeq(k, 1, n)) = k[n]
                                   /\ k[n] \in Names
<1>1. k \in Keys /\ k \in Seq(Names) /\ Len(k) \in Nat
  BY ConstantsAssumption
<1>2. Len(k) > 0 /\ Leaf(k) \in Names
  BY <1>1, Prefixes DEF Leaf
<1>3. ASSUME NEW n \in 1 .. Len(k)
      PROVE  /\ SubSeq(k, 1, n) \in Keys /\ SubSeq(k, 1, n) # Root
             /\ Leaf(SubSeq(k, 1, n)) = k[n] /\ k[n] \in Names
  <2>1. SubSeq(k, 1, n) \in Keys
    BY <1>1, AdapterAssumption
  <2>2. n \in 0 .. Len(k) /\ n \in 1 .. n
    OBVIOUS
  <2>3. Len(SubSeq(k, 1, n)) = n /\ SubSeq(k, 1, n)[n] = k[n]
    BY <1>1, <2>2, Prefixes
  <2>4. Len(Root) = 0
    BY DEF Root
  <2>5. k[n] \in Names
    BY <1>1
  <2>6. QED BY <2>1, <2>3, <2>4, <2>5 DEF Leaf
<1>4. Parent(k) \in Keys \cup {Root}
  <2>1. CASE Len(k) = 1
    BY <1>1, <2>1 DEF Parent, Root
  <2>2. CASE Len(k) # 1
    <3>1. Len(k) - 1 \in 1 .. Len(k)
      BY <1>1, <1>2, <2>2
    <3>2. QED BY <1>3, <3>1 DEF Parent
  <2>3. QED BY <2>1, <2>2
<1>5. QED BY <1>1, <1>2, <1>3, <1>4

\* The component a walk is at.
LEMMA ComponentFits ==
  ASSUME OpInv(op), op.pc \in WalkPCs
  PROVE  /\ Component \in Keys /\ Component # Root
         /\ Leaf(Component) \in Names
         /\ op.walk \in WalkTypes /\ op.walk.key \in Keys
         /\ op.walk.at + 1 \in 1 .. Len(op.walk.key)
<1>1. op.walk \in WalkTypes /\ op.walk.key # Root /\ op.walk.at < Len(op.walk.key)
  BY DEF OpInv, Ops, WalkFits
<1>2. op.walk.key \in Keys \cup {Root} /\ op.walk.at \in Nat
  BY <1>1 DEF WalkTypes
<1>3. op.walk.at + 1 \in 1 .. Len(op.walk.key)
  BY <1>1, <1>2, WalkPaths
<1>4. QED BY <1>1, <1>2, <1>3, WalkPaths DEF Component

-----------------------------------------------------------------------------
(* Handlers on the move *)

\* The kinds of requests a handler can be of.
LEMMA KindsKnown == Kinds \subseteq RequestKinds
BY AdapterAssumption

\* What the moves leave alone.
SameRequest(q, o) ==
  /\ q.kind = o.kind /\ q.path = o.path /\ q.dest = o.dest /\ q.ctx = o.ctx
  /\ q.plan = o.plan /\ q.isDir = o.isDir /\ q.replace = o.replace

\* A handler at rest knows nothing and holds nothing.
LEMMA IdleOpInv ==
  ASSUME NEW outcome \in {"drained", "undrained"}
  PROVE  /\ OpInv(IdleOp(outcome)) /\ ~HoldsEntry(IdleOp(outcome))
         /\ \A f : LiveInv(IdleOp(outcome), f)
         /\ Drained(IdleOp(outcome)) <=> outcome = "drained"
         /\ IdleOp(outcome).pc = "idle" /\ IdleOp(outcome).next = "idle"
         /\ IdleOp(outcome).late = FALSE
<1> DEFINE q == IdleOp(outcome)
<1>1. NoWalk \in WalkTypes /\ NoReply \in ReplyTypes
  BY ConstantsAssumption, FileTreeAssumption
     DEF NoWalk, WalkTypes, NoReply, ReplyTypes, Purposes
<1>2. q \in Ops
  BY <1>1 DEF IdleOp, Ops, PCs
<1>3. /\ q.kind = "none" /\ q.pc = "idle" /\ q.next = "idle" /\ q.walk = NoWalk
      /\ q.outcome = outcome /\ q.late = FALSE
  BY DEF IdleOp
<1> HIDE DEF q
<1>4. OpInv(q)
  BY <1>2, <1>3 DEF OpInv, InOrder, WalkFits, ReplyFits, InodesKnown, PathsFit, HoldsEntry,
     Resolving, OnFile, WalkPCs, StepsOf
<1>5. ~HoldsEntry(q) /\ (\A f : LiveInv(q, f)) /\ (Drained(q) <=> outcome = "drained")
  BY <1>3 DEF HoldsEntry, LiveInv, Drained
<1>6. QED BY <1>3, <1>4, <1>5 DEF q

\* resolve_path_ino begins, or has nothing to do.
LEMMA ResolveInv ==
  ASSUME NEW o \in Ops, NEW key \in Keys \cup {Root}, NEW p \in PurposesOf(o.kind),
         o.kind # "none", o.next = "idle", o.walk = NoWalk,
         OnFile(o.kind) /\ p # "target" => o.ino["target"] \in Inodes,
         o.kind \in {"create", "delete", "move"} /\ p # "parent" =>
           o.ino["parent"] \in Inodes,
         o.kind = "move" /\ p \notin {"parent", "destParent"} =>
           o.ino["destParent"] \in Inodes,
         o.kind \in {"delete", "move"} => o.path # Root,
         o.kind = "move" => o.dest # Root
  PROVE  LET q == Resolve(o, key, p) IN
         /\ OpInv(q) /\ ~HoldsEntry(q) /\ ~Drained(q) /\ SameRequest(q, o)
         /\ q.pc \in {Known(p), "reap"} /\ q.next = "idle" /\ q.late = o.late
         /\ \A f : LiveInv(q, f)
<1> DEFINE q == Resolve(o, key, p)
<1>1. p \in Purposes
  BY KindsKnown DEF PurposesOf, Ops, RequestKinds, Purposes
<1>2. CASE key = Root
  <2> DEFINE inos == [o.ino EXCEPT ![p] = RootIno]
  <2>0. /\ Known(p) \in PCs /\ inos \in [Purposes -> Inodes \cup {NoInode}]
        /\ inos[p] = RootIno /\ \A r \in Purposes \ {p} : inos[r] = o.ino[r]
    BY <1>1, FileTreeAssumption DEF Known, PCs, Purposes, Ops
  <2>1. q = [o EXCEPT !.pc = Known(p), !.ino = inos]
    BY <1>2 DEF Resolve
  <2> HIDE DEF inos
  <2>2. /\ q \in Ops /\ SameRequest(q, o) /\ q.pc = Known(p) /\ q.next = "idle"
        /\ q.walk = NoWalk /\ q.ino[p] = RootIno /\ q.late = o.late
        /\ \A r \in Purposes \ {p} : q.ino[r] = o.ino[r]
    BY <2>0, <2>1 DEF Ops, SameRequest
  <2> HIDE DEF q
  <2>3. OpInv(q)
    <3>1. q.pc \notin WalkPCs /\ q.pc \notin {"drain", "store", "created", "remember",
                                             "collided", "idle"}
      BY <1>1, <2>2 DEF Known, WalkPCs, Purposes
    <3>2. Known(p) \in StepsOf(o.kind)
      BY <1>1, KindsKnown DEF Known, StepsOf, PurposesOf, Ops, RequestKinds, Purposes
    <3>3. InOrder(q) /\ WalkFits(q) /\ ReplyFits(q) /\ PathsFit(q)
      BY <2>2, <3>1, <3>2
         DEF InOrder, WalkFits, ReplyFits, PathsFit, HoldsEntry, SameRequest
    <3>4. \A r : ~Resolving(q, r)
      BY <3>1 DEF Resolving
    <3>5. q.pc = "mtimeKnown" => p = "mtime"
      BY <1>1, <2>2 DEF Known, Purposes
    <3>6. InodesKnown(q)
      <4>1. OnFile(q.kind) => q.ino["target"] \in Inodes
        BY <2>2, FileTreeAssumption DEF SameRequest, Purposes
      <4>2. q.kind \in {"create", "delete", "move"} => q.ino["parent"] \in Inodes
        BY <2>2, FileTreeAssumption DEF SameRequest, Purposes
      <4>3. q.kind = "move" /\ q.pc # "parentKnown" => q.ino["destParent"] \in Inodes
        BY <1>1, <2>2, FileTreeAssumption DEF SameRequest, Purposes, Known
      <4>4. q.pc = "mtimeKnown" => q.ino["mtime"] \in Inodes
        BY <2>2, <3>5, FileTreeAssumption
      <4>5. QED BY <4>1, <4>2, <4>3, <4>4 DEF InodesKnown
    <3>7. QED BY <2>2, <3>3, <3>6 DEF OpInv
  <2>4. ~HoldsEntry(q) /\ ~Drained(q) /\ \A f : LiveInv(q, f)
    BY <1>1, <2>2 DEF HoldsEntry, Drained, Known, LiveInv, LiveIn, Purposes
  <2>5. QED BY <2>2, <2>3, <2>4 DEF q
<1>3. CASE key # Root
  <2> DEFINE w == [NoWalk EXCEPT !.key = key, !.into = p]
  <2>1. q = [o EXCEPT !.pc = "reap", !.walk = w]
    BY <1>3 DEF Resolve
  <2>2. /\ w \in WalkTypes /\ w.key = key /\ w.into = p /\ w.at = 0
        /\ w.ino = RootIno
    BY <1>1, ConstantsAssumption, FileTreeAssumption DEF NoWalk, WalkTypes
  <2> HIDE DEF w
  <2>3. /\ q \in Ops /\ SameRequest(q, o) /\ q.pc = "reap" /\ q.next = "idle"
        /\ q.walk = w /\ q.ino = o.ino /\ q.late = o.late
    BY <2>1, <2>2, ZenonT(60) DEF Ops, SameRequest, PCs
  <2> HIDE DEF q
  <2>4. Len(key) \in Nat /\ Len(key) > 0
    BY <1>3, WalkPaths
  <2>5. OpInv(q)
    BY <1>1, <1>3, <2>2, <2>3, <2>4, KindsKnown
       DEF OpInv, InOrder, WalkFits, ReplyFits, InodesKnown, PathsFit, HoldsEntry,
           Resolving, OnFile, WalkPCs, StepsOf, PurposesOf, SameRequest, Ops,
           RequestKinds, Purposes
  <2>6. ~HoldsEntry(q) /\ ~Drained(q) /\ \A f : LiveInv(q, f)
    BY <2>3 DEF HoldsEntry, Drained, LiveInv
  <2>7. QED BY <2>3, <2>5, <2>6 DEF q
<1>4. QED BY <1>2, <1>3

\* One more component of a walk: the next one, or the end of the walk.
LEMMA AdvanceInv ==
  ASSUME NEW o, OpInv(o), o.pc \in {"cached", "remember"},
         NEW i \in Inodes, NEW gen \in Generations
  PROVE  LET q == Advance(o, i, gen) IN
         /\ OpInv(q) /\ ~HoldsEntry(q) /\ ~Drained(q) /\ SameRequest(q, o)
         /\ q.pc \in {Known(o.walk.into), "cached"} /\ q.next = "idle"
         /\ q.late = FALSE
         /\ \A f : LiveIn(f, i) => LiveInv(q, f)
<1> DEFINE q == Advance(o, i, gen)
           w == [o.walk EXCEPT !.at = @ + 1, !.ino = i, !.gen = gen]
           p == o.walk.into
<1>1. /\ o \in Ops /\ o.next = "idle" /\ o.walk \in WalkTypes /\ o.kind # "none"
      /\ o.walk.key # Root /\ o.walk.at < Len(o.walk.key)
      /\ p \in PurposesOf(o.kind) /\ o.pc \in WalkPCs
  BY DEF OpInv, InOrder, WalkFits, WalkPCs, Ops
<1>2. /\ p \in Purposes /\ Known(p) \in StepsOf(o.kind) /\ Known(p) \notin WalkPCs
      /\ Known(p) \in PCs
      /\ Known(p) \notin {"drain", "store", "created", "remember", "collided", "idle"}
  BY <1>1, KindsKnown DEF PurposesOf, Ops, RequestKinds, Purposes, Known, WalkPCs, StepsOf, PCs
<1>3. /\ w \in WalkTypes /\ w.key = o.walk.key /\ w.into = p /\ w.ino = i
      /\ w.at = o.walk.at + 1
  <2> DEFINE n == o.walk.at + 1
  <2>0. o.walk \in WalkTypes
    BY <1>1
  <2>1. o.walk \in WalkTypes /\ n \in Nat
    BY <2>0 DEF WalkTypes
  <2>2. w = [o.walk EXCEPT !.at = n, !.ino = i, !.gen = gen]
    BY Zenon
  <2> HIDE DEF w, n
  <2>3. /\ w \in WalkTypes /\ w.key = o.walk.key /\ w.into = p /\ w.ino = i
        /\ w.at = n
    BY <2>1, <2>2 DEF WalkTypes
  <2>4. QED BY <2>3 DEF n
<1> DEFINE inos == [o.ino EXCEPT ![p] = i]
<1>7. /\ inos \in [Purposes -> Inodes \cup {NoInode}] /\ inos[p] = i
      /\ \A r \in Purposes \ {p} : inos[r] = o.ino[r]
  BY <1>1, <1>2 DEF Ops
<1>8. q = IF w.at = Len(w.key)
            THEN [o EXCEPT !.walk = NoWalk, !.reply = NoReply, !.late = FALSE,
                           !.pc = Known(w.into), !.ino[w.into] = i]
            ELSE [o EXCEPT !.walk = w, !.reply = NoReply, !.late = FALSE,
                           !.pc = "cached"]
  BY DEF Advance
<1> HIDE DEF w
<1>4. CASE w.at = Len(w.key)
  <2>1. q = [o EXCEPT !.walk = NoWalk, !.reply = NoReply, !.late = FALSE,
                      !.pc = Known(p), !.ino = inos]
    BY <1>3, <1>4, <1>8
  <2> HIDE DEF inos
  <2>2. NoWalk \in WalkTypes /\ NoReply \in ReplyTypes
    BY ConstantsAssumption, FileTreeAssumption
       DEF NoWalk, WalkTypes, NoReply, ReplyTypes, Purposes
  <2>3. /\ q \in Ops /\ SameRequest(q, o) /\ q.pc = Known(p) /\ q.next = "idle"
        /\ q.walk = NoWalk /\ q.ino[p] = i /\ q.late = FALSE
        /\ \A r \in Purposes \ {p} : q.ino[r] = o.ino[r]
    <3>1. o \in Ops /\ o.next = "idle" /\ Known(p) \in PCs
      BY <1>1, <1>2
    <3>2. inos \in [Purposes -> Inodes \cup {NoInode}]
      BY <1>7
    <3>3. /\ q \in Ops /\ SameRequest(q, o) /\ q.pc = Known(p) /\ q.next = "idle"
          /\ q.walk = NoWalk /\ q.ino = inos /\ q.late = FALSE
      BY <2>1, <2>2, <3>1, <3>2, ZenonT(60) DEF Ops, SameRequest
    <3>4. QED BY <1>7, <3>3
  <2> HIDE DEF q
  <2>4. InOrder(q) /\ WalkFits(q) /\ ReplyFits(q)
    BY <1>2, <2>3 DEF InOrder, WalkFits, ReplyFits, HoldsEntry, SameRequest
  <2>5. PathsFit(q)
    BY <1>2, <2>3 DEF PathsFit, SameRequest, OpInv
  <2>6. \A r : ~Resolving(q, r) /\ (Resolving(o, r) => r = p)
    BY <1>2, <2>3 DEF Resolving
  <2>7. InodesKnown(q)
    <3>0. InodesKnown(o)
      BY DEF OpInv
    <3>1. OnFile(q.kind) => q.ino["target"] \in Inodes
      BY <2>3, <2>6, <3>0 DEF SameRequest, Purposes, InodesKnown
    <3>2. q.kind \in {"create", "delete", "move"} => q.ino["parent"] \in Inodes
      BY <2>3, <2>6, <3>0 DEF SameRequest, Purposes, InodesKnown
    <3>3. q.kind = "move" /\ q.pc # "parentKnown" => q.ino["destParent"] \in Inodes
      <4>1. p = "parent" => q.pc = "parentKnown"
        BY <2>3 DEF Known
      <4>2. o.pc # "parentKnown"
        BY <1>1 DEF WalkPCs
      <4>3. QED BY <2>3, <2>6, <3>0, <4>1, <4>2 DEF SameRequest, Purposes, InodesKnown
    <3>4. q.pc = "mtimeKnown" => q.ino["mtime"] \in Inodes
      BY <1>2, <2>3 DEF Known, Purposes
    <3>5. QED BY <3>1, <3>2, <3>3, <3>4 DEF InodesKnown
  <2>8. ~HoldsEntry(q) /\ ~Drained(q)
    BY <1>2, <2>3 DEF HoldsEntry, Drained, Known, Purposes
  <2>9. ASSUME NEW f, LiveIn(f, i) PROVE LiveInv(q, f)
    BY <1>2, <2>3, <2>9 DEF LiveInv, Known, Purposes
  <2>10. QED BY <2>3, <2>4, <2>5, <2>7, <2>8, <2>9 DEF OpInv, q
<1>5. CASE w.at # Len(w.key)
  <2>1. q = [o EXCEPT !.walk = w, !.reply = NoReply, !.late = FALSE, !.pc = "cached"]
    BY <1>5, <1>8
  <2>2. NoReply \in ReplyTypes
    BY DEF NoReply, ReplyTypes
  <2> HIDE DEF w
  <2>3. /\ q \in Ops /\ SameRequest(q, o) /\ q.pc = "cached" /\ q.next = "idle"
        /\ q.walk = w /\ q.ino = o.ino /\ q.late = FALSE
    BY <1>1, <1>3, <2>1, <2>2, ZenonT(60) DEF Ops, SameRequest, PCs
  <2> HIDE DEF q
  <2>4. w.at < Len(w.key)
    <3>1. o.walk.at \in Nat /\ o.walk.key \in Keys \cup {Root}
      BY <1>1 DEF WalkTypes
    <3>2. Len(o.walk.key) \in Nat
      BY <1>1, <3>1, WalkPaths
    <3>3. QED BY <1>1, <1>3, <1>5, <3>1, <3>2
  <2>5. InOrder(q) /\ WalkFits(q) /\ ReplyFits(q)
    BY <1>1, <1>3, <2>3, <2>4
       DEF InOrder, WalkFits, ReplyFits, HoldsEntry, SameRequest, WalkPCs
  <2>6. PathsFit(q)
    BY <2>3 DEF PathsFit, SameRequest, OpInv
  <2>7. \A r : Resolving(q, r) <=> Resolving(o, r)
    BY <1>1, <1>3, <2>3 DEF Resolving, WalkPCs
  <2>8. InodesKnown(q)
    <3>1. o.pc # "parentKnown"
      BY <1>1 DEF WalkPCs
    <3>2. QED BY <2>3, <2>7, <3>1 DEF InodesKnown, SameRequest, OpInv
  <2>9. ~HoldsEntry(q) /\ ~Drained(q) /\ \A f : LiveIn(f, i) => LiveInv(q, f)
    BY <1>3, <2>3 DEF HoldsEntry, Drained, LiveInv
  <2>10. QED BY <2>3, <2>5, <2>6, <2>8, <2>9 DEF OpInv, q
<1>6. QED BY <1>4, <1>5

\* The handler goes from one of its steps to another one, after a drain or not.
SteppedOn(o, pc, next) == [o EXCEPT !.pc = pc, !.next = next]

LEMMA StepOnInv ==
  ASSUME NEW o, OpInv(o), o.pc \notin WalkPCs \cup {"idle"},
         NEW pc, NEW next,
         \/ /\ pc \in StepsOf(o.kind) /\ next = "idle"
            /\ pc \notin {"idle", "store", "created", "mtimeKnown", "parentKnown"}
            /\ o.pc = "parentKnown" => o.kind # "move"
            /\ pc = "collided" => o.path # Root
         \/ /\ pc = "drain" /\ next \in AfterDrain(o.kind)
            /\ next \notin {"store", "created"}
            /\ o.pc = "parentKnown" => o.kind # "move"
            /\ next = "collided" => o.path # Root
  PROVE  LET q == SteppedOn(o, pc, next) IN
         /\ OpInv(q) /\ ~HoldsEntry(q) /\ SameRequest(q, o)
         /\ q.pc = pc /\ q.next = next /\ q.late = o.late /\ q.ino = o.ino
         /\ q.walk = NoWalk
<1> DEFINE q == SteppedOn(o, pc, next)
<1>1. o \in Ops /\ o.walk = NoWalk /\ o.kind # "none"
  BY DEF OpInv, WalkFits, InOrder, StepsOf, WalkPCs, AfterDrain
<1>2. pc \in PCs /\ next \in PCs \cup {Ended} /\ pc \notin WalkPCs
  BY <1>1, KindsKnown DEF StepsOf, AfterDrain, PCs, Ops, RequestKinds, WalkPCs
<1>3. /\ q \in Ops /\ SameRequest(q, o) /\ q.pc = pc /\ q.next = next
      /\ q.walk = NoWalk /\ q.ino = o.ino /\ q.late = o.late /\ q.reply = o.reply
  BY <1>1, <1>2 DEF Ops, SameRequest, SteppedOn
<1> HIDE DEF q
<1>4. InOrder(q) /\ WalkFits(q)
  <2>1. "drain" \notin StepsOf(o.kind)
    BY <1>1, KindsKnown DEF StepsOf, Ops, RequestKinds
  <2>2. InOrder(q)
    BY <1>2, <1>3, <2>1 DEF InOrder, SameRequest
  <2>3. QED BY <1>2, <1>3, <2>2 DEF WalkFits
<1>5. ~HoldsEntry(q) /\ ReplyFits(q)
  BY <1>2, <1>3 DEF HoldsEntry, ReplyFits, WalkPCs
<1>6. PathsFit(q)
  BY <1>3 DEF PathsFit, OpInv, SameRequest
<1>7. \A r : ~Resolving(q, r) /\ ~Resolving(o, r)
  BY <1>2, <1>3 DEF Resolving
<1>8. InodesKnown(q)
  BY <1>3, <1>7 DEF InodesKnown, OpInv, SameRequest
<1>9. QED BY <1>3, <1>4, <1>5, <1>6, <1>8 DEF OpInv, q

\* The handler stays on its walk.
LEMMA WalkStepInv ==
  ASSUME NEW o, OpInv(o), o.pc \in WalkPCs,
         NEW q, q \in Ops, SameRequest(q, o), q.ino = o.ino, q.walk = o.walk,
         q.next = o.next, q.pc \in WalkPCs \ {"reap"},
         q.pc = "remember" => q.reply \in EntryReplies
  PROVE  /\ OpInv(q) /\ ~Drained(q)
         /\ HoldsEntry(q) <=> q.pc = "remember"
<1>1. o.next = "idle" /\ q.next = "idle" /\ o.kind # "none" /\ o.pc # "parentKnown"
  BY DEF OpInv, InOrder, WalkPCs
<1>2. q.pc \notin {"drain", "store", "mutated", "touched", "call", "idle", "created",
                  "collided", "mtimeKnown", "parentKnown", "reap"}
  BY DEF WalkPCs
<1>3. InOrder(q) /\ WalkFits(q) /\ ReplyFits(q)
  BY <1>1, <1>2 DEF OpInv, InOrder, WalkFits, ReplyFits, HoldsEntry, SameRequest
<1>4. \A r : Resolving(q, r) <=> Resolving(o, r)
  BY DEF Resolving
<1>5. InodesKnown(q)
  BY <1>1, <1>2, <1>4 DEF OpInv, InodesKnown, SameRequest
<1>6. PathsFit(q)
  BY <1>1, <1>2 DEF OpInv, PathsFit, SameRequest
<1>7. ~Drained(q) /\ (HoldsEntry(q) <=> q.pc = "remember")
  BY <1>1, <1>2 DEF Drained, HoldsEntry
<1>8. QED BY <1>3, <1>5, <1>6, <1>7 DEF OpInv

\* Whether a notification overtook the reply of a handler is all that a
\* notification changes about it.
WithLate(o, late) == [o EXCEPT !.late = late]

LEMMA LateInv ==
  ASSUME NEW o, OpInv(o), NEW late \in BOOLEAN
  PROVE  LET q == WithLate(o, late) IN
         /\ OpInv(q) /\ SameRequest(q, o)
         /\ q.pc = o.pc /\ q.next = o.next /\ q.walk = o.walk /\ q.reply = o.reply
         /\ q.ino = o.ino /\ q.outcome = o.outcome
         /\ q.late = late
         /\ Drained(q) <=> Drained(o)
         /\ \A f : LiveInv(q, f) <=> LiveInv(o, f)
<1> DEFINE q == WithLate(o, late)
<1>1. /\ q \in Ops /\ SameRequest(q, o) /\ q.late = late
      /\ q.pc = o.pc /\ q.next = o.next /\ q.walk = o.walk /\ q.reply = o.reply
      /\ q.ino = o.ino /\ q.outcome = o.outcome
  BY DEF OpInv, Ops, SameRequest, WithLate
<1> HIDE DEF q
<1>2. OpInv(q)
  BY <1>1 DEF OpInv, InOrder, WalkFits, ReplyFits, InodesKnown, PathsFit, HoldsEntry,
              Resolving, SameRequest
<1>3. Drained(q) <=> Drained(o)
  BY <1>1 DEF Drained, SameRequest
<1>4. \A f : LiveInv(q, f) <=> LiveInv(o, f)
  BY <1>1 DEF LiveInv, SameRequest
<1>5. QED BY <1>1, <1>2, <1>3, <1>4 DEF q

-----------------------------------------------------------------------------
(* The books *)

\* What the adapter can still return: of the cache, and of the handler.
Has(i) == Owed(resolver, i) + InReply(i)

\* The steps of the adapter, by what they do to the lookups.
Quiet ==
  /\ \A i \in Inodes : Has(i)' = Has(i)
  /\ fs'.nlookup = fs.nlookup /\ lost' = lost
Granting ==
  \E j \in Inodes :
    /\ Has(j)' = Has(j) + 1
    /\ \A i \in Inodes \ {j} : Has(i)' = Has(i)
    /\ fs'.nlookup = [fs.nlookup EXCEPT ![j] = @ + 1] /\ lost' = lost
Returning ==
  \E g \in [Inodes -> Nat] :
    /\ \A i \in Inodes : Has(i)' = Has(i) - g[i]
    /\ fs'.nlookup = [i \in Inodes |-> fs.nlookup[i] - g[i]] /\ lost' = lost
Discarding ==
  \E g \in [Inodes -> Nat] :
    /\ \A i \in Inodes : Has(i)' = Has(i) - g[i]
    /\ fs'.nlookup = fs.nlookup /\ lost' = [i \in Inodes |-> lost[i] + g[i]]

\* The state after a step is sound, but for the balance of its books.
Sound ==
  /\ Typed' /\ DrainedInv(op, resolver)' /\ LiveInv(op, fs)'
  /\ Quiet \/ Granting \/ Returning \/ Discarding

\* What a handler holds is nothing, or one lookup.
LEMMA HasType ==
  ASSUME Typed, NEW i \in Inodes
  PROVE  /\ InReply(i) \in {0, 1} /\ Owed(resolver, i) \in Nat /\ Has(i) \in Nat
         /\ ~HoldsEntry(op) => InReply(i) = 0 /\ Has(i) = Owed(resolver, i)
         /\ Cardinality(Refs(resolver, i)) \in Nat /\ resolver.pending[i] \in Nat
<1>1. InReply(i) \in {0, 1} /\ (~HoldsEntry(op) => InReply(i) = 0)
  BY DEF InReply, HoldsEntry
<1>2. /\ Owed(resolver, i) \in Nat /\ Cardinality(Refs(resolver, i)) \in Nat
      /\ resolver.pending[i] \in Nat
  BY OwedType DEF Typed
<1>3. QED BY <1>1, <1>2 DEF Has

\* The same after a step.
LEMMA HasTypeNext ==
  ASSUME Typed', NEW i \in Inodes
  PROVE  /\ InReply(i)' \in {0, 1} /\ Owed(resolver', i) \in Nat /\ Has(i)' \in Nat
         /\ ~HoldsEntry(op') => InReply(i)' = 0 /\ Has(i)' = Owed(resolver', i)
         /\ Cardinality(Refs(resolver', i)) \in Nat /\ resolver'.pending[i] \in Nat
<1>1. InReply(i)' \in {0, 1} /\ (~HoldsEntry(op') => InReply(i)' = 0)
  BY DEF InReply, HoldsEntry
<1>2. /\ Owed(resolver', i) \in Nat /\ Cardinality(Refs(resolver', i)) \in Nat
      /\ resolver'.pending[i] \in Nat
  BY OwedType DEF Typed
<1>3. QED BY <1>1, <1>2 DEF Has

\* LookupsBalance in terms of what the adapter has.
LEMMA Balance ==
  ASSUME Typed
  PROVE  LookupsBalance <=> \A i \in Inodes : fs.nlookup[i] = Has(i) + lost[i]
BY HasType DEF LookupsBalance, Has, Owed

\* The same after a step.
LEMMA BalanceNext ==
  ASSUME Typed'
  PROVE  LookupsBalance' <=> \A i \in Inodes : fs'.nlookup[i] = Has(i)' + lost'[i]
BY HasTypeNext DEF LookupsBalance, Has, Owed

\* A sound step keeps the books balanced.
LEMMA SoundStep ==
  ASSUME IInv, Sound
  PROVE  IInv'
<1>1. /\ Typed /\ Typed' /\ \A i \in Inodes : fs.nlookup[i] = Has(i) + lost[i]
      /\ fs.nlookup \in [Inodes -> Int] /\ lost \in [Inodes -> Nat]
  BY Balance DEF IInv, Sound, Typed, FileSystems
<1>2. \A i \in Inodes : Has(i) \in Nat /\ Has(i)' \in Nat
  BY <1>1, HasType, HasTypeNext
<1>3. \A i \in Inodes : fs'.nlookup[i] = Has(i)' + lost'[i]
  <2>1. CASE Quiet
    BY <1>1, <2>1 DEF Quiet
  <2>2. CASE Granting
    <3>1. PICK j \in Inodes :
            /\ Has(j)' = Has(j) + 1
            /\ \A i \in Inodes \ {j} : Has(i)' = Has(i)
            /\ fs'.nlookup = [fs.nlookup EXCEPT ![j] = @ + 1] /\ lost' = lost
      BY <2>2 DEF Granting
    <3>2. fs'.nlookup[j] = Has(j)' + lost'[j]
      BY <1>1, <1>2, <3>1
    <3>3. \A i \in Inodes \ {j} : fs'.nlookup[i] = Has(i)' + lost'[i]
      BY <1>1, <3>1
    <3>4. QED BY <3>2, <3>3
  <2>3. CASE Returning
    BY <1>1, <1>2, <2>3 DEF Returning
  <2>4. CASE Discarding
    BY <1>1, <1>2, <2>4 DEF Discarding
  <2>5. QED BY <2>1, <2>2, <2>3, <2>4 DEF Sound
<1>4. LookupsBalance'
  BY <1>1, <1>3, BalanceNext
<1>5. QED BY <1>4 DEF Sound, IInv

-----------------------------------------------------------------------------
(* Steps of any handler *)

\* The lookups stay where they are.
LEMMA QuietStep ==
  ASSUME IInv, ResolverInv(resolver'),
         \A i \in Inodes : Owed(resolver', i) = Owed(resolver, i),
         fs' \in FileSystems, fs'.nlookup = fs.nlookup, OpInv(op'),
         HoldsEntry(op') <=> HoldsEntry(op),
         HoldsEntry(op) => op'.reply.ino = op.reply.ino,
         lost' = lost, notices' \subseteq NoticeTypes,
         overtaken' \subseteq Keys \cup Inodes,
         requests' \in 0 .. MaxRequests, changes' \in 0 .. MaxChanges,
         DrainedInv(op', resolver'), LiveInv(op', fs')
  PROVE  Sound
<1>1. Typed'
  BY DEF Typed, IInv
<1>2. \A i \in Inodes : InReply(i)' = InReply(i)
  BY DEF InReply, HoldsEntry
<1>3. Quiet
  BY <1>2 DEF Quiet, Has
<1>4. QED BY <1>1, <1>3 DEF Sound

\* Only the handler moves on.
LEMMA HandlerStepSound ==
  ASSUME IInv, OpInv(op'), ~HoldsEntry(op), ~HoldsEntry(op'),
         Drained(op') => Drained(op), LiveInv(op', fs),
         UNCHANGED <<resolver, fs, environment>>
  PROVE  Sound
<1>1. /\ resolver' = resolver /\ fs' = fs /\ lost' = lost /\ notices' = notices
      /\ overtaken' = overtaken /\ requests' = requests /\ changes' = changes
  BY DEF environment
<1>2. /\ ResolverInv(resolver) /\ fs \in FileSystems
      /\ notices \subseteq NoticeTypes /\ overtaken \subseteq Keys \cup Inodes
      /\ requests \in 0 .. MaxRequests /\ changes \in 0 .. MaxChanges
      /\ DrainedInv(op, resolver)
  BY DEF IInv, Typed
<1>3. DrainedInv(op', resolver')
  BY <1>1, <1>2 DEF DrainedInv
<1>4. QED BY <1>1, <1>2, <1>3, QuietStep

\* Attributes in the cache change, and the handler moves on.
LEMMA AttrStepSound ==
  ASSUME IInv, ResolverInv(resolver'),
         \A i \in Inodes : Owed(resolver', i) = Owed(resolver, i),
         resolver'.pending = resolver.pending,
         OpInv(op'), ~HoldsEntry(op), ~HoldsEntry(op'),
         Drained(op') => Drained(op), LiveInv(op', fs),
         fs' = fs, UNCHANGED environment
  PROVE  Sound
<1>1. /\ lost' = lost /\ notices' = notices
      /\ overtaken' = overtaken /\ requests' = requests /\ changes' = changes
  BY DEF environment
<1>2. /\ fs \in FileSystems
      /\ notices \subseteq NoticeTypes /\ overtaken \subseteq Keys \cup Inodes
      /\ requests \in 0 .. MaxRequests /\ changes \in 0 .. MaxChanges
      /\ DrainedInv(op, resolver)
  BY DEF IInv, Typed
<1>3. DrainedInv(op', resolver')
  BY <1>2 DEF DrainedInv
<1>4. QED BY <1>1, <1>2, <1>3, QuietStep

\* Forgets are delivered: what is queued leaves the adapter and the file system.
LEMMA DeliverStep ==
  ASSUME IInv, NEW r, ResolverInv(r),
         \A i \in Inodes : Owed(r, i) = Owed(resolver, i),
         Deliver(r, fs), UNCHANGED environment, OpInv(op'),
         HoldsEntry(op') <=> HoldsEntry(op),
         HoldsEntry(op) => op'.reply.ino = op.reply.ino,
         LiveInv(op', fs')
  PROVE  /\ Sound
         /\ fs'.tree = fs.tree /\ fs'.gen = fs.gen /\ fs'.attr = fs.attr
<1>1. /\ lost' = lost /\ notices' = notices
      /\ overtaken' = overtaken /\ requests' = requests /\ changes' = changes
  BY DEF environment
<1>2. /\ fs \in FileSystems /\ Inodes # {}
      /\ notices \subseteq NoticeTypes /\ overtaken \subseteq Keys \cup Inodes
      /\ requests \in 0 .. MaxRequests /\ changes \in 0 .. MaxChanges
      /\ lost \in [Inodes -> Nat]
  BY FileTreeAssumption DEF IInv, Typed
<1>3. resolver' = Taken(r) /\ fs' = Forgot(fs, r.pending)
  BY DEF Deliver
<1>4. r.pending \in [Inodes -> Nat]
  BY DEF ResolverInv, Resolver
<1>5. /\ fs' \in FileSystems
      /\ fs'.nlookup = [i \in Inodes |-> fs.nlookup[i] - r.pending[i]]
      /\ fs'.tree = fs.tree /\ fs'.gen = fs.gen /\ fs'.attr = fs.attr
  BY <1>2, <1>3, <1>4, LookupFields
<1>6. /\ ResolverInv(resolver')
      /\ \A i \in Inodes : Owed(resolver', i) = Owed(resolver, i) - r.pending[i]
      /\ resolver'.pending = NoForgets
  BY <1>3, TakenInv
<1>7. Typed'
  BY <1>1, <1>2, <1>5, <1>6 DEF Typed
<1>8. \A i \in Inodes : InReply(i)' = InReply(i)
  BY DEF InReply, HoldsEntry
<1>9. Returning
  <2>1. ASSUME NEW i \in Inodes PROVE Has(i)' = Has(i) - r.pending[i]
    <3>1. Owed(resolver, i) \in Nat /\ InReply(i) \in {0, 1} /\ r.pending[i] \in Nat
      BY <1>4, HasType DEF IInv
    <3>2. Has(i)' = (Owed(resolver, i) - r.pending[i]) + InReply(i)
      BY <1>6, <1>8 DEF Has
    <3>3. QED BY <3>1, <3>2 DEF Has
  <2>2. QED BY <1>1, <1>4, <1>5, <2>1 DEF Returning
<1>10. DrainedInv(op', resolver')
  BY <1>6 DEF DrainedInv
<1>11. QED BY <1>5, <1>7, <1>9, <1>10 DEF Sound

-----------------------------------------------------------------------------
(* The walk *)

\* drain_expired_resolver_forgets
LEMMA ReapSound == ASSUME IInv, Reap PROVE Sound
<1>1. /\ OpInv(op) /\ ResolverInv(resolver) /\ op \in Ops /\ op.pc = "reap"
      /\ op.next = "idle"
  BY DEF IInv, Typed, OpInv, Reap, At, InOrder
<1>2. op' = [op EXCEPT !.pc = "cached"]
  BY DEF Reap, Goto
<1>3. /\ op' \in Ops /\ SameRequest(op', op) /\ op'.ino = op.ino /\ op'.walk = op.walk
      /\ op'.next = op.next /\ op'.pc = "cached"
  BY <1>1, <1>2 DEF Ops, PCs, SameRequest
<1>4. OpInv(op') /\ ~HoldsEntry(op')
  BY <1>1, <1>3, WalkStepInv DEF WalkPCs
<1>5. ~HoldsEntry(op)
  BY <1>1 DEF HoldsEntry
<1>6. op.walk.ino = RootIno
  BY <1>1 DEF OpInv, WalkFits, WalkPCs
<1>7. LiveInv(op', fs')
  BY <1>3, <1>6 DEF LiveInv, LiveIn
<1>8. ResolverInv(ReapExpired(resolver))
      /\ \A i \in Inodes : Owed(ReapExpired(resolver), i) = Owed(resolver, i)
  BY <1>1, ReapExpiredInv
<1>9. QED BY <1>4, <1>5, <1>7, <1>8, DeliverStep DEF Reap

\* cached_path_component
LEMMA CachedComponentSound == ASSUME IInv, CachedComponent PROVE Sound
<1> DEFINE w == op.walk
           answer == CachedAnswer(resolver, Component, w.ino, w.gen)
<1>1. /\ OpInv(op) /\ ResolverInv(resolver) /\ op \in Ops /\ op.pc = "cached"
      /\ op.next = "idle" /\ LiveInv(op, fs) /\ fs \in FileSystems
  BY DEF IInv, Typed, OpInv, CachedComponent, At, InOrder
<1>2. Component \in Keys
  BY <1>1, ComponentFits DEF WalkPCs
<1>3. /\ ResolverInv(resolver')
      /\ \A i \in Inodes : Owed(resolver', i) = Owed(resolver, i)
  BY <1>1, <1>2, CachedInv DEF CachedComponent
<1>4. /\ lost' = lost /\ notices' = notices /\ fs' = fs
      /\ overtaken' = overtaken /\ requests' = requests /\ changes' = changes
  BY DEF CachedComponent, environment
<1>5. ~HoldsEntry(op)
  BY <1>1 DEF HoldsEntry
<1>6. /\ OpInv(op') /\ ~HoldsEntry(op') /\ ~Drained(op') /\ LiveInv(op', fs)
  <2>1. CASE answer.found = "hit" /\ op' = Advance(op, answer.ino, answer.gen)
    <3>1. /\ answer.ino \in Inodes /\ answer.gen \in Generations
          /\ Owed(resolver, answer.ino) > 0
      BY <1>1, <1>2, <2>1, HitHeld
    <3> HIDE DEF answer
    <3>2. fs.nlookup[answer.ino] > 0
      <4>1. /\ Has(answer.ino) = Owed(resolver, answer.ino)
            /\ Owed(resolver, answer.ino) \in Nat
        BY <1>5, <3>1, HasType DEF IInv
      <4>2. fs.nlookup[answer.ino] = Has(answer.ino) + lost[answer.ino]
        BY <3>1, Balance DEF IInv
      <4>3. lost[answer.ino] \in Nat
        BY <3>1 DEF IInv, Typed
      <4>4. QED BY <3>1, <4>1, <4>2, <4>3
    <3>3. LiveIn(fs, answer.ino)
      BY <3>2 DEF LiveIn
    <3>4. QED BY <1>1, <2>1, <3>1, <3>3, AdvanceInv
  <2>2. CASE op' = [op EXCEPT !.pc = "unresolved", !.reply = Error("ENOENT")]
    <3>1. Error("ENOENT") \in ReplyTypes
      BY DEF Error, ReplyTypes
    <3>2. /\ op' \in Ops /\ SameRequest(op', op) /\ op'.ino = op.ino
          /\ op'.walk = op.walk /\ op'.next = op.next /\ op'.pc = "unresolved"
      BY <1>1, <2>2, <3>1 DEF Ops, PCs, SameRequest
    <3>3. LiveInv(op', fs)
      BY <3>2 DEF LiveInv
    <3>4. QED BY <1>1, <3>2, <3>3, WalkStepInv DEF WalkPCs
  <2>3. CASE op' = Goto(op, "lookup")
    <3>1. /\ op' \in Ops /\ SameRequest(op', op) /\ op'.ino = op.ino
          /\ op'.walk = op.walk /\ op'.next = op.next /\ op'.pc = "lookup"
      BY <1>1, <2>3 DEF Ops, PCs, SameRequest, Goto
    <3>2. LiveInv(op', fs)
      BY <1>1, <3>1 DEF LiveInv
    <3>3. QED BY <1>1, <3>1, <3>2, WalkStepInv DEF WalkPCs
  <2>4. QED BY <2>1, <2>2, <2>3 DEF CachedComponent
<1>7. DrainedInv(op', resolver')
  BY <1>6 DEF DrainedInv
<1>8. QED BY <1>3, <1>4, <1>5, <1>6, <1>7, QuietStep DEF IInv, Typed

\* What fs.lookup finds is an inode, and finding it counts a lookup.
LEMMA LookupComponentSound == ASSUME IInv, LookupComponent PROVE Sound
<1> DEFINE found == IF op.walk.ino \in Dirs
                      THEN fs.tree[<<op.walk.ino, Leaf(Component)>>] ELSE NoInode
           missing == IF found = NoInode THEN {"ENOENT"} ELSE {}
<1>1. /\ OpInv(op) /\ ResolverInv(resolver) /\ op \in Ops /\ op.pc = "lookup"
      /\ op.next = "idle" /\ fs \in FileSystems
  BY DEF IInv, Typed, OpInv, LookupComponent, At, InOrder
<1>2. Leaf(Component) \in Names
  BY <1>1, ComponentFits DEF WalkPCs
<1>3. found \in Inodes \cup {NoInode}
  BY <1>1, <1>2 DEF FileSystems
<1>4. /\ resolver' = resolver /\ lost' = lost /\ notices' = notices
      /\ overtaken' = overtaken /\ requests' = requests /\ changes' = changes
  BY DEF LookupComponent, environment
<1>5. ~HoldsEntry(op)
  BY <1>1 DEF HoldsEntry
<1>6. \/ /\ found # NoInode /\ fs' = Granted(fs, found)
         /\ \E cacheable \in Cacheable :
               op' = [op EXCEPT !.pc = "remember",
                                !.reply = Entry(found, fs.gen[found], cacheable)]
      \/ /\ fs' = fs
         /\ \E status \in Statuses(missing) :
               op' = [op EXCEPT !.pc = IF status = "ENOENT" THEN "rememberMissing"
                                                            ELSE "unresolved",
                                !.reply = Error(status)]
  BY DEF LookupComponent
<1> HIDE DEF found
<1>7. ASSUME found # NoInode, fs' = Granted(fs, found), NEW cacheable \in Cacheable,
             op' = [op EXCEPT !.pc = "remember",
                              !.reply = Entry(found, fs.gen[found], cacheable)]
      PROVE  Sound
  <2> DEFINE reply == Entry(found, fs.gen[found], cacheable)
  <2>1. found \in Inodes /\ fs.gen[found] \in Generations /\ cacheable \in BOOLEAN
    BY <1>1, <1>3, <1>7, AdapterAssumption DEF FileSystems
  <2>2. reply \in EntryReplies /\ reply \in ReplyTypes /\ reply.ino = found
    BY <2>1 DEF Entry, EntryReplies, ReplyTypes
  <2> HIDE DEF reply
  <2>3. /\ op' \in Ops /\ SameRequest(op', op) /\ op'.ino = op.ino
        /\ op'.walk = op.walk /\ op'.next = op.next /\ op'.pc = "remember"
        /\ op'.reply = reply
    BY <1>1, <1>7, <2>2 DEF Ops, PCs, SameRequest, reply
  <2>4. OpInv(op') /\ HoldsEntry(op') /\ ~Drained(op')
    BY <1>1, <2>2, <2>3, WalkStepInv DEF WalkPCs
  <2>5. /\ fs' \in FileSystems
        /\ fs'.nlookup = [fs.nlookup EXCEPT ![found] = @ + 1]
    <3>1. NoForgets \in [Inodes -> Nat]
      BY DEF NoForgets
    <3>2. QED BY <1>1, <1>7, <2>1, <3>1, LookupFields
  <2>6. Typed'
    BY <1>4, <2>4, <2>5 DEF IInv, Typed
  <2>11. PICK j \in Inodes : j = found
    BY <2>1
  <2>7. \A i \in Inodes : InReply(i) = 0 /\ InReply(i)' = IF i = j THEN 1 ELSE 0
    BY <1>5, <2>2, <2>3, <2>4, <2>11 DEF InReply, HoldsEntry
  <2>8. Granting
    <3>1. \A i \in Inodes : Owed(resolver, i) \in Nat
      BY HasType DEF IInv
    <3>2. Has(j)' = Has(j) + 1
      BY <1>4, <2>7, <3>1 DEF Has
    <3>3. \A i \in Inodes \ {j} : Has(i)' = Has(i)
      BY <1>4, <2>7, <3>1 DEF Has
    <3>4. fs'.nlookup = [fs.nlookup EXCEPT ![j] = @ + 1]
      BY <2>5, <2>11
    <3>5. QED BY <1>4, <3>2, <3>3, <3>4 DEF Granting
  <2>9. DrainedInv(op', resolver') /\ LiveInv(op', fs')
    BY <2>3, <2>4 DEF DrainedInv, LiveInv
  <2>10. QED BY <2>6, <2>8, <2>9 DEF Sound
<1>8. ASSUME fs' = fs, NEW status \in Statuses(missing),
             op' = [op EXCEPT !.pc = IF status = "ENOENT" THEN "rememberMissing"
                                                          ELSE "unresolved",
                              !.reply = Error(status)]
      PROVE  Sound
  <2> DEFINE pc == IF status = "ENOENT" THEN "rememberMissing" ELSE "unresolved"
  <2>1. status \in {"ENOENT", "EIO"}
    BY DEF Statuses
  <2>2. Error(status) \in ReplyTypes
    BY <2>1 DEF Error, ReplyTypes
  <2>3. pc \in {"rememberMissing", "unresolved"}
    OBVIOUS
  <2>4. op' = [op EXCEPT !.pc = pc, !.reply = Error(status)]
    BY <1>8
  <2> HIDE DEF pc
  <2>5. /\ op' \in Ops /\ SameRequest(op', op) /\ op'.ino = op.ino
        /\ op'.walk = op.walk /\ op'.next = op.next /\ op'.pc = pc
    BY <1>1, <2>2, <2>3, <2>4 DEF Ops, PCs, SameRequest
  <2>6. OpInv(op') /\ ~HoldsEntry(op') /\ ~Drained(op')
    BY <1>1, <2>3, <2>5, WalkStepInv DEF WalkPCs
  <2>7. LiveInv(op', fs)
    BY <2>3, <2>5 DEF LiveInv
  <2>8. UNCHANGED <<resolver, fs, environment>>
    BY <1>8 DEF LookupComponent
  <2>9. QED BY <1>5, <2>6, <2>7, <2>8, HandlerStepSound
<1>9. QED BY <1>6, <1>7, <1>8

\* The lookup in a reply moves into the cache.
LEMMA RememberComponentSound == ASSUME IInv, RememberComponent PROVE Sound
<1>1. /\ OpInv(op) /\ ResolverInv(resolver) /\ op \in Ops /\ op.pc = "remember"
      /\ op.next = "idle" /\ fs \in FileSystems /\ op.late \in BOOLEAN
  BY DEF IInv, Typed, OpInv, RememberComponent, At, InOrder, Ops
<1>2. /\ Component \in Keys /\ Leaf(Component) \in Names /\ op.walk \in WalkTypes
  BY <1>1, ComponentFits DEF WalkPCs
<1>3. HoldsEntry(op) /\ op.reply \in EntryReplies
  BY <1>1 DEF HoldsEntry, OpInv, ReplyFits
<1>4. PICK j \in Inodes : j = op.reply.ino
  BY <1>3 DEF EntryReplies
<1>5. PICK gen \in Generations, cacheable \in BOOLEAN :
        gen = op.reply.gen /\ cacheable = op.reply.cacheable
  BY <1>3 DEF EntryReplies
<1>6. /\ resolver' = RememberPositive(resolver, Component, op.walk.ino, op.walk.gen,
                         Leaf(Component), j, gen, cacheable)
      /\ op' = Advance(op, j, gen) /\ fs' = fs
  BY <1>4, <1>5 DEF RememberComponent
<1>7. op.walk.ino \in Inodes /\ op.walk.gen \in Generations
  BY <1>2 DEF WalkTypes
<1>8. /\ ResolverInv(resolver')
      /\ Owed(resolver', j) = Owed(resolver, j) + 1
      /\ \A i \in Inodes \ {j} : Owed(resolver', i) = Owed(resolver, i)
  BY <1>1, <1>2, <1>6, <1>7, RememberPositiveInv
<1>9. \A i \in Inodes : /\ Owed(resolver, i) \in Nat /\ lost[i] \in Nat
                        /\ InReply(i) = IF i = j THEN 1 ELSE 0
                        /\ fs.nlookup[i] = Has(i) + lost[i]
  BY <1>3, <1>4, HasType, Balance DEF IInv, Typed, InReply, HoldsEntry
<1>10. LiveIn(fs, j)
  <2>1. fs.nlookup[j] > 0
    BY <1>9 DEF Has
  <2>2. QED BY <2>1 DEF LiveIn
<1>11. /\ OpInv(op') /\ ~HoldsEntry(op') /\ ~Drained(op') /\ LiveInv(op', fs')
  BY <1>1, <1>6, <1>10, AdvanceInv
<1>12. \A i \in Inodes : InReply(i)' = 0
  BY <1>11 DEF InReply, HoldsEntry
<1>13. /\ lost' = lost /\ notices' = notices /\ requests' = requests
       /\ changes' = changes /\ overtaken' \subseteq Keys \cup Inodes
  BY <1>2 DEF RememberComponent, Record, IInv, Typed
<1>14. Typed'
  BY <1>1, <1>6, <1>8, <1>11, <1>13 DEF IInv, Typed
<1>15. Quiet
  <2>1. \A i \in Inodes : Has(i)' = Has(i)
    BY <1>8, <1>9, <1>12 DEF Has
  <2>2. QED BY <1>6, <1>13, <2>1 DEF Quiet
<1>16. DrainedInv(op', resolver')
  BY <1>11 DEF DrainedInv
<1>17. QED BY <1>11, <1>14, <1>15, <1>16 DEF Sound

\* That a component is missing is remembered.
LEMMA RememberMissingSound == ASSUME IInv, RememberMissingComponent PROVE Sound
<1>1. /\ OpInv(op) /\ ResolverInv(resolver) /\ op \in Ops /\ op.pc = "rememberMissing"
      /\ op.next = "idle" /\ fs \in FileSystems /\ op.late \in BOOLEAN
  BY DEF IInv, Typed, OpInv, RememberMissingComponent, At, InOrder, Ops
<1>2. /\ Component \in Keys /\ Leaf(Component) \in Names /\ op.walk \in WalkTypes
  BY <1>1, ComponentFits DEF WalkPCs
<1>3. op.walk.ino \in Inodes /\ op.walk.gen \in Generations
  BY <1>2 DEF WalkTypes
<1>4. /\ ResolverInv(resolver')
      /\ \A i \in Inodes : Owed(resolver', i) = Owed(resolver, i)
  BY <1>1, <1>2, <1>3, RememberNegativeInv DEF RememberMissingComponent
<1>5. op' = [op EXCEPT !.pc = "unresolved", !.late = FALSE] /\ fs' = fs
  BY DEF RememberMissingComponent
<1>6. /\ op' \in Ops /\ SameRequest(op', op) /\ op'.ino = op.ino
      /\ op'.walk = op.walk /\ op'.next = op.next /\ op'.pc = "unresolved"
  BY <1>1, <1>5 DEF Ops, PCs, SameRequest
<1>7. OpInv(op') /\ ~HoldsEntry(op') /\ ~Drained(op') /\ ~HoldsEntry(op)
  BY <1>1, <1>6, WalkStepInv DEF WalkPCs, HoldsEntry
<1>8. LiveInv(op', fs') /\ DrainedInv(op', resolver')
  BY <1>6, <1>7 DEF LiveInv, DrainedInv
<1>9. /\ lost' = lost /\ notices' = notices /\ requests' = requests
      /\ changes' = changes /\ overtaken' \subseteq Keys \cup Inodes
  BY <1>2 DEF RememberMissingComponent, Record, IInv, Typed
<1>10. /\ notices' \subseteq NoticeTypes
       /\ requests' \in 0 .. MaxRequests /\ changes' \in 0 .. MaxChanges
  BY <1>9 DEF IInv, Typed
<1>11. QED BY <1>1, <1>4, <1>5, <1>7, <1>8, <1>9, <1>10, QuietStep

\* A walk that failed: the request ends, or goes on without what it looked for.
LEMMA UnresolvedSound == ASSUME IInv, Unresolved PROVE Sound
<1>1. /\ OpInv(op) /\ ResolverInv(resolver) /\ op \in Ops /\ op.pc = "unresolved"
      /\ op.next = "idle" /\ ~HoldsEntry(op) /\ op.kind # "none"
  BY DEF IInv, Typed, OpInv, Unresolved, At, InOrder, WalkPCs, HoldsEntry
<1>2. Deliver(resolver, fs) /\ UNCHANGED environment
  BY DEF Unresolved
<1>3. NoWalk \in WalkTypes /\ NoReply \in ReplyTypes
  BY ConstantsAssumption, FileTreeAssumption
     DEF NoWalk, WalkTypes, NoReply, ReplyTypes, Purposes
<1>4. OpInv(op') /\ ~HoldsEntry(op') /\ LiveInv(op', fs')
  <2>1. CASE WhenUnresolved(op) = IdleOp("drained")
    <3>1. op' = [IdleOp("drained") EXCEPT !.walk = NoWalk, !.reply = NoReply]
      BY <2>1 DEF Unresolved
    <3>2. op' = IdleOp("drained")
      BY <3>1 DEF IdleOp
    <3>3. QED BY <3>2, IdleOpInv
  <2>2. ASSUME NEW pc, WhenUnresolved(op) = [op EXCEPT !.pc = pc],
               \/ op.kind = "setattr" /\ op.walk.into = "mtime" /\ pc = "forgetPath"
               \/ op.kind = "move" /\ op.walk.into = "target" /\ pc = "targetKnown"
               \/ op.kind = "move" /\ op.walk.into = "clash" /\ pc = "call"
        PROVE  OpInv(op') /\ ~HoldsEntry(op') /\ LiveInv(op', fs')
    <3>1. op' = [[op EXCEPT !.pc = pc] EXCEPT !.walk = NoWalk, !.reply = NoReply]
      BY <2>2 DEF Unresolved
    <3>2. pc \in {"forgetPath", "targetKnown", "call"} /\ pc \in PCs
      BY <2>2 DEF PCs
    <3>3. /\ op' \in Ops /\ SameRequest(op', op) /\ op'.pc = pc /\ op'.next = "idle"
          /\ op'.walk = NoWalk /\ op'.ino = op.ino
      BY <1>1, <1>3, <3>1, <3>2 DEF Ops, SameRequest
    <3>4. pc \in StepsOf(op.kind)
      BY <2>2 DEF StepsOf
    <3>5. InOrder(op') /\ WalkFits(op') /\ ReplyFits(op') /\ ~HoldsEntry(op')
      BY <3>2, <3>3, <3>4
         DEF InOrder, WalkFits, ReplyFits, HoldsEntry, SameRequest, WalkPCs
    <3>6. PathsFit(op')
      BY <1>1, <3>2, <3>3 DEF OpInv, PathsFit, SameRequest
    <3>7. /\ \A r : ~Resolving(op', r)
          /\ \A r : Resolving(op, r) => r = op.walk.into
      BY <3>2, <3>3 DEF Resolving, WalkPCs
    <3>8. InodesKnown(op')
      BY <1>1, <2>2, <3>2, <3>3, <3>7 DEF OpInv, InodesKnown, SameRequest, OnFile
    <3>9. LiveInv(op', fs')
      BY <2>2, <3>2, <3>3 DEF LiveInv, SameRequest
    <3>10. QED BY <3>3, <3>5, <3>6, <3>8, <3>9 DEF OpInv
  <2>3. \/ WhenUnresolved(op) = IdleOp("drained")
        \/ \E pc :
             /\ WhenUnresolved(op) = [op EXCEPT !.pc = pc]
             /\ \/ op.kind = "setattr" /\ op.walk.into = "mtime" /\ pc = "forgetPath"
                \/ op.kind = "move" /\ op.walk.into = "target" /\ pc = "targetKnown"
                \/ op.kind = "move" /\ op.walk.into = "clash" /\ pc = "call"
    BY DEF WhenUnresolved, Goto
  <2>4. QED BY <2>1, <2>2, <2>3
<1>5. QED BY <1>1, <1>2, <1>4, DeliverStep

\* drain_resolver_forgets
LEMMA DrainSound == ASSUME IInv, Drain PROVE Sound
<1>1. /\ OpInv(op) /\ ResolverInv(resolver) /\ op \in Ops /\ op.pc = "drain"
      /\ op.next \in AfterDrain(op.kind) /\ op.walk = NoWalk
  BY DEF IInv, Typed, OpInv, Drain, At, InOrder, WalkFits, WalkPCs
<1>2. Deliver(resolver, fs) /\ UNCHANGED environment
  BY DEF Drain
<1>3. /\ OpInv(op') /\ (HoldsEntry(op') <=> HoldsEntry(op)) /\ LiveInv(op', fs')
      /\ HoldsEntry(op) => op'.reply.ino = op.reply.ino
  <2>1. CASE op.next = Ended
    <3>1. op' = IdleOp("drained") /\ ~HoldsEntry(op)
      BY <1>1, <2>1 DEF Drain, HoldsEntry, Ended
    <3>2. QED BY <3>1, IdleOpInv
  <2>2. CASE op.next # Ended
    <3>1. op' = [op EXCEPT !.pc = op.next, !.next = "idle"]
      BY <2>2 DEF Drain
    <3>2. /\ op.next \in {"store", "mutated", "call", "created", "collided",
                          "forgetPath", "renamed"}
          /\ op.next \in StepsOf(op.kind)
          /\ op.next = "call" => op.kind # "getattr"
      BY <1>1, <2>2, KindsKnown DEF AfterDrain, StepsOf, Ops, RequestKinds
    <3>3. op.next \in PCs
      BY <3>2 DEF PCs
    <3>4. /\ op' \in Ops /\ SameRequest(op', op) /\ op'.pc = op.next
          /\ op'.next = "idle" /\ op'.walk = NoWalk /\ op'.ino = op.ino
          /\ op'.reply = op.reply
      BY <1>1, <3>1, <3>3 DEF Ops, SameRequest, PCs
    <3>5. HoldsEntry(op') <=> HoldsEntry(op)
      BY <1>1, <3>2, <3>4 DEF HoldsEntry
    <3>6. InOrder(op') /\ WalkFits(op') /\ ReplyFits(op')
      <4>1. ReplyFits(op)
        BY <1>1 DEF OpInv
      <4>2. QED
        BY <1>1, <3>2, <3>4, <3>5, <4>1
           DEF InOrder, WalkFits, ReplyFits, SameRequest, WalkPCs
    <3>7. PathsFit(op')
      BY <1>1, <3>2, <3>4 DEF OpInv, PathsFit, SameRequest
    <3>8. \A r : ~Resolving(op', r) /\ ~Resolving(op, r)
      BY <1>1, <3>2, <3>4 DEF Resolving, WalkPCs
    <3>9. InodesKnown(op')
      BY <1>1, <3>2, <3>4, <3>8 DEF OpInv, InodesKnown, SameRequest
    <3>10. LiveInv(op', fs')
      BY <3>2, <3>4 DEF LiveInv, SameRequest
    <3>11. QED BY <3>4, <3>5, <3>6, <3>7, <3>9, <3>10 DEF OpInv
  <2>3. QED BY <2>1, <2>2
<1>4. QED BY <1>1, <1>2, <1>3, DeliverStep

-----------------------------------------------------------------------------
(* The steps after the walks *)

\* What holds at a step that is neither part of a walk nor a drain.
LEMMA AtStep ==
  ASSUME IInv, op.pc \notin WalkPCs \cup {"idle", "drain"}
  PROVE  /\ OpInv(op) /\ op \in Ops /\ ResolverInv(resolver) /\ resolver \in Resolver
         /\ fs \in FileSystems
         /\ op.next = "idle" /\ op.walk = NoWalk /\ op.kind # "none"
         /\ op.pc \in StepsOf(op.kind)
         /\ op.pc # "created" => ~HoldsEntry(op)
         /\ DrainedInv(op, resolver) /\ LiveInv(op, fs)
         /\ PathsFit(op)
         /\ OnFile(op.kind) => op.ino["target"] \in Inodes
         /\ op.kind \in {"create", "delete", "move"} => op.ino["parent"] \in Inodes
         /\ op.kind = "move" /\ op.pc # "parentKnown" => op.ino["destParent"] \in Inodes
         /\ op.pc = "mtimeKnown" => op.ino["mtime"] \in Inodes
<1>1. OpInv(op) /\ op \in Ops /\ ResolverInv(resolver) /\ resolver \in Resolver
      /\ fs \in FileSystems /\ DrainedInv(op, resolver) /\ LiveInv(op, fs)
  BY DEF IInv, Typed, OpInv, ResolverInv
<1>2. InOrder(op) /\ WalkFits(op) /\ InodesKnown(op) /\ PathsFit(op)
  BY <1>1 DEF OpInv
<1>3. op.next = "idle" /\ op.walk = NoWalk /\ op.pc \in StepsOf(op.kind)
  BY <1>2 DEF InOrder, WalkFits
<1>4. op.kind # "none"
  BY <1>3 DEF StepsOf
<1>5. op.pc # "created" => ~HoldsEntry(op)
  BY <1>3 DEF HoldsEntry, WalkPCs
<1>6. \A p : ~Resolving(op, p)
  BY DEF Resolving
<1>7. QED BY <1>1, <1>2, <1>3, <1>4, <1>5, <1>6 DEF InodesKnown

\* Then the handler goes to a drain ...
LEMMA DrainMove ==
  ASSUME IInv, op.pc \notin WalkPCs \cup {"idle", "drain"},
         NEW next \in AfterDrain(op.kind), next \notin {"store", "created"},
         op.pc = "parentKnown" => op.kind # "move",
         next = "collided" => op.path # Root
  PROVE  LET q == DrainTo(op, next) IN
         /\ OpInv(q) /\ ~HoldsEntry(q) /\ ~Drained(q) /\ \A f : LiveInv(q, f)
<1> DEFINE q == DrainTo(op, next)
<1>1. q = SteppedOn(op, "drain", next)
  BY DEF DrainTo, SteppedOn
<1>2. OpInv(op)
  BY AtStep
<1>3. OpInv(q) /\ ~HoldsEntry(q) /\ q.pc = "drain"
  BY <1>1, <1>2, StepOnInv
<1> HIDE DEF q
<1>4. ~Drained(q) /\ \A f : LiveInv(q, f)
  BY <1>3 DEF Drained, LiveInv
<1>5. QED BY <1>3, <1>4 DEF q

\* ... or to another step.
LEMMA GoMove ==
  ASSUME IInv, op.pc \notin WalkPCs \cup {"idle", "drain"},
         NEW pc \in StepsOf(op.kind),
         pc \notin {"idle", "store", "created", "collided", "mtimeKnown", "parentKnown"},
         op.pc = "parentKnown" => op.kind # "move"
  PROVE  LET q == Goto(op, pc) IN
         /\ OpInv(q) /\ ~HoldsEntry(q) /\ q.pc = pc /\ SameRequest(q, op)
         /\ q.ino = op.ino
<1> DEFINE q == Goto(op, pc)
<1>1. OpInv(op) /\ op \in Ops /\ op.next = "idle"
  BY AtStep
<1>2. q = SteppedOn(op, pc, "idle")
  BY <1>1 DEF Goto, Ops, SteppedOn
<1>3. QED BY <1>1, <1>2, StepOnInv

-----------------------------------------------------------------------------
(* getattr, setattr, setxattr, access, probe *)

\* get_file_information asks the attribute cache.
LEMMA CachedAttributesSound == ASSUME IInv, CachedAttributes PROVE Sound
<1>1. op.pc = "targetKnown" /\ op.kind = "getattr"
  BY DEF CachedAttributes, At, Is
<1>2. /\ OpInv(op) /\ ResolverInv(resolver) /\ resolver \in Resolver /\ ~HoldsEntry(op)
      /\ LiveInv(op, fs) /\ op.ino["target"] \in Inodes
  BY <1>1, AtStep DEF WalkPCs, OnFile
<1>3. /\ resolver' = CachedAttr(resolver, op.ino["target"]) /\ fs' = fs
      /\ UNCHANGED environment
  BY DEF CachedAttributes
<1>4. /\ ResolverInv(resolver') /\ resolver'.pending = resolver.pending
      /\ \A i \in Inodes : Owed(resolver', i) = Owed(resolver, i)
  BY <1>2, <1>3, ForgetAttrInv, AttrFields
<1>5. OpInv(op') /\ ~HoldsEntry(op') /\ ~Drained(op') /\ LiveInv(op', fs)
  <2>1. CASE op' = DrainTo(op, Ended)
    <3>1. Ended \in AfterDrain(op.kind) /\ Ended \notin {"store", "created", "collided"}
      BY <1>1 DEF AfterDrain, Ended
    <3>2. QED BY <1>1, <2>1, <3>1, DrainMove DEF WalkPCs
  <2>2. CASE op' = Goto(op, "call")
    <3>1. "call" \in StepsOf(op.kind)
      BY <1>1 DEF StepsOf
    <3>2. /\ OpInv(op') /\ ~HoldsEntry(op') /\ op'.pc = "call" /\ SameRequest(op', op)
          /\ op'.ino = op.ino
      BY <1>1, <2>2, <3>1, GoMove DEF WalkPCs
    <3>3. QED BY <1>1, <1>2, <3>2 DEF SameRequest, Drained, LiveInv
  <2>3. QED BY <2>1, <2>2 DEF CachedAttributes
<1>6. QED BY <1>2, <1>3, <1>4, <1>5, AttrStepSound

\* fs.getattr
LEMMA GetAttributesSound == ASSUME IInv, GetAttributes PROVE Sound
<1>1. op.pc = "call" /\ op.kind = "getattr"
  BY DEF GetAttributes, At, Is
<1>2. /\ OpInv(op) /\ op \in Ops /\ ~HoldsEntry(op) /\ fs \in FileSystems
      /\ op.ino["target"] \in Inodes /\ op.walk = NoWalk
  BY <1>1, AtStep DEF WalkPCs, OnFile
<1>3. OpInv(op') /\ ~HoldsEntry(op') /\ ~Drained(op') /\ LiveInv(op', fs)
  <2>1. CASE op' = DrainTo(op, Ended)
    <3>1. Ended \in AfterDrain(op.kind) /\ Ended \notin {"store", "created", "collided"}
      BY <1>1 DEF AfterDrain, Ended
    <3>2. QED BY <1>1, <2>1, <3>1, DrainMove DEF WalkPCs
  <2>2. CASE op' = [DrainTo(op, "store") EXCEPT !.reply =
                      [status |-> "ok", attr |-> fs.attr[op.ino["target"]]]]
    <3> DEFINE reply == [status |-> "ok", attr |-> fs.attr[op.ino["target"]]]
    <3>1. fs.attr[op.ino["target"]] \in Attrs
      BY <1>2 DEF FileSystems
    <3>2. reply \in AttrReplies /\ reply \in ReplyTypes
      BY <3>1 DEF AttrReplies, ReplyTypes
    <3> HIDE DEF reply
    <3>3. op' = [op EXCEPT !.pc = "drain", !.next = "store", !.reply = reply]
      BY <1>2, <2>2 DEF DrainTo, Ops, reply
    <3>4. /\ op' \in Ops /\ SameRequest(op', op) /\ op'.pc = "drain"
          /\ op'.next = "store" /\ op'.reply = reply /\ op'.ino = op.ino
          /\ op'.walk = NoWalk
      BY <1>2, <3>2, <3>3 DEF Ops, SameRequest, PCs
    <3>5. InOrder(op') /\ WalkFits(op') /\ ReplyFits(op') /\ ~HoldsEntry(op')
      BY <1>1, <3>2, <3>4 DEF InOrder, WalkFits, ReplyFits, HoldsEntry, SameRequest,
         AfterDrain, WalkPCs
    <3>6. InodesKnown(op') /\ PathsFit(op')
      BY <1>1, <1>2, <3>4 DEF InodesKnown, PathsFit, SameRequest, OnFile
    <3>7. OpInv(op')
      BY <3>4, <3>5, <3>6 DEF OpInv
    <3>8. ~Drained(op') /\ LiveInv(op', fs)
      BY <3>4 DEF Drained, LiveInv
    <3>9. QED BY <3>5, <3>7, <3>8
  <2>3. QED BY <2>1, <2>2 DEF GetAttributes
<1>4. QED BY <1>2, <1>3, HandlerStepSound DEF GetAttributes

\* The attributes in a reply go to the cache, or are not to be cached.
LEMMA StoreAttributesSound == ASSUME IInv, StoreAttributes PROVE Sound
<1>1. op.pc = "store"
  BY DEF StoreAttributes, At
<1>2. /\ OpInv(op) /\ op \in Ops /\ ~HoldsEntry(op) /\ fs \in FileSystems
      /\ ResolverInv(resolver) /\ resolver \in Resolver /\ op.kind = "getattr"
      /\ DrainedInv(op, resolver) /\ op.ino["target"] \in Inodes
  BY <1>1, AtStep, KindsKnown DEF WalkPCs, OnFile, StepsOf, Ops, RequestKinds
<1>3. op.reply.attr \in Attrs
  BY <1>1, <1>2 DEF OpInv, ReplyFits, AttrReplies
<1>4. /\ ResolverInv(resolver') /\ resolver'.pending = resolver.pending
      /\ \A i \in Inodes : Owed(resolver', i) = Owed(resolver, i)
  <2> DEFINE target == op.ino["target"]
             attr == op.reply.attr
  <2>1. resolver' = RememberAttr(resolver, target, attr) \/ resolver' = ForgetAttr(resolver, target)
    BY DEF StoreAttributes
  <2>2. target \in Inodes /\ attr \in Attrs
    BY <1>2, <1>3
  <2> HIDE DEF target, attr
  <2>3. CASE resolver' = RememberAttr(resolver, target, attr)
    BY <1>2, <2>2, <2>3, RememberAttrInv, AttrFields
  <2>4. CASE resolver' = ForgetAttr(resolver, target)
    BY <1>2, <2>2, <2>4, ForgetAttrInv, AttrFields
  <2>5. QED BY <2>1, <2>3, <2>4
<1>5. op' = IdleOp("drained") /\ fs' = fs
  BY DEF StoreAttributes
<1>6. OpInv(op') /\ ~HoldsEntry(op') /\ LiveInv(op', fs')
  BY <1>5, IdleOpInv
<1>7. resolver'.pending = NoForgets
  BY <1>1, <1>2, <1>4 DEF DrainedInv, Drained
<1>8. /\ lost' = lost /\ notices' = notices /\ requests' = requests
      /\ changes' = changes /\ overtaken' \subseteq Keys \cup Inodes
  BY <1>2 DEF StoreAttributes, IInv, Typed
<1>9. /\ notices' \subseteq NoticeTypes
      /\ requests' \in 0 .. MaxRequests /\ changes' \in 0 .. MaxChanges
  BY <1>8 DEF IInv, Typed
<1>10. DrainedInv(op', resolver')
  BY <1>7 DEF DrainedInv
<1>11. QED BY <1>2, <1>4, <1>5, <1>6, <1>8, <1>9, <1>10, QuietStep

\* The callback that changes the file; the attributes of the inode differ now.
LEMMA SetAttributesSound == ASSUME IInv, SetAttributes PROVE Sound
<1>1. op.pc = "targetKnown" /\ op.kind \in {"setattr", "setxattr"}
  BY DEF SetAttributes, At
<1>2. ~HoldsEntry(op) /\ fs \in FileSystems /\ ResolverInv(resolver)
  BY <1>1, AtStep DEF WalkPCs
<1>3. /\ {"mutated", Ended} \subseteq AfterDrain(op.kind)
      /\ {"mutated", Ended} \cap {"store", "created", "collided"} = {}
  BY <1>1 DEF AfterDrain, Ended
<1>4. /\ resolver' = resolver /\ lost' = lost /\ notices' = notices
      /\ overtaken' = overtaken /\ requests' = requests /\ changes' = changes
  BY DEF SetAttributes, environment
<1>5. /\ OpInv(op') /\ ~HoldsEntry(op') /\ ~Drained(op')
      /\ \A f : LiveInv(op', f)
  <2>1. CASE op' = DrainTo(op, "mutated")
    BY <1>1, <1>3, <2>1, DrainMove DEF WalkPCs
  <2>2. CASE op' = DrainTo(op, Ended)
    BY <1>1, <1>3, <2>2, DrainMove DEF WalkPCs
  <2>3. CASE op' = IdleOp("undrained")
    BY <2>3, IdleOpInv
  <2>4. QED BY <2>1, <2>2, <2>3 DEF SetAttributes
<1>6. fs' \in FileSystems /\ fs'.nlookup = fs.nlookup
  BY <1>2, ChangedFields DEF SetAttributes
<1>7. /\ notices \subseteq NoticeTypes /\ overtaken \subseteq Keys \cup Inodes
      /\ requests \in 0 .. MaxRequests /\ changes \in 0 .. MaxChanges
  BY DEF IInv, Typed
<1>8. DrainedInv(op', resolver')
  BY <1>5 DEF DrainedInv
<1>9. QED BY <1>2, <1>4, <1>5, <1>6, <1>7, <1>8, QuietStep

\* At its steps a handler can resolve a path for any of its purposes.
LEMMA ResolveMove ==
  ASSUME IInv, op.pc \notin WalkPCs \cup {"idle", "drain"},
         NEW key \in Keys \cup {Root}, NEW p \in PurposesOf(op.kind),
         op.kind = "move" /\ p \notin {"parent", "destParent"} => op.pc # "parentKnown"
  PROVE  LET q == Resolve(op, key, p) IN
         /\ OpInv(q) /\ ~HoldsEntry(q) /\ ~Drained(q) /\ \A f : LiveInv(q, f)
<1>1. /\ op \in Ops /\ op.next = "idle" /\ op.walk = NoWalk /\ op.kind # "none"
      /\ OnFile(op.kind) => op.ino["target"] \in Inodes
      /\ op.kind \in {"create", "delete", "move"} => op.ino["parent"] \in Inodes
      /\ op.kind = "move" /\ op.pc # "parentKnown" => op.ino["destParent"] \in Inodes
      /\ op.kind \in {"delete", "move"} => op.path # Root
      /\ op.kind = "move" => op.dest # Root
  BY AtStep DEF PathsFit
<1>2. QED BY <1>1, ResolveInv

\* finish_metadata_mutation
LEMMA FinishMutationSound == ASSUME IInv, FinishMutation PROVE Sound
<1>1. op.pc = "mutated" /\ op.kind = "setattr"
  BY DEF FinishMutation, At, Is
<1>2. /\ ~HoldsEntry(op) /\ ResolverInv(resolver) /\ resolver \in Resolver
      /\ op \in Ops /\ op.ino["target"] \in Inodes
  BY <1>1, AtStep DEF WalkPCs, OnFile
<1>3. /\ resolver' = InvalidateInodeAttr(resolver, op.ino["target"]) /\ fs' = fs
      /\ UNCHANGED environment
  BY DEF FinishMutation
<1>4. /\ ResolverInv(resolver') /\ resolver'.pending = resolver.pending
      /\ \A i \in Inodes : Owed(resolver', i) = Owed(resolver, i)
  BY <1>2, <1>3, ForgetAttrInv, AttrFields
<1>5. PICK key \in Keys \cup {Root} : op' = Resolve(op, key, "mtime")
  <2>1. op.path \in Keys \cup {Root}
    BY <1>2 DEF Ops
  <2>2. QED BY <2>1, WalkPaths DEF FinishMutation
<1>6. "mtime" \in PurposesOf(op.kind)
  BY <1>1 DEF PurposesOf
<1>7. OpInv(op') /\ ~HoldsEntry(op') /\ ~Drained(op') /\ LiveInv(op', fs)
  BY <1>1, <1>5, <1>6, ResolveMove DEF WalkPCs
<1>8. QED BY <1>2, <1>3, <1>4, <1>7, AttrStepSound

\* The attributes of the parent go.
LEMMA InvalidateParentAttrSound == ASSUME IInv, InvalidateParentAttr PROVE Sound
<1>1. op.pc = "mtimeKnown"
  BY DEF InvalidateParentAttr, At
<1>2. /\ ~HoldsEntry(op) /\ ResolverInv(resolver) /\ resolver \in Resolver
      /\ op \in Ops /\ op.ino["mtime"] \in Inodes /\ op.kind = "setattr"
  BY <1>1, AtStep, KindsKnown DEF WalkPCs, StepsOf, Ops, RequestKinds
<1>3. /\ resolver' = InvalidateInodeAttr(resolver, op.ino["mtime"]) /\ fs' = fs
      /\ UNCHANGED environment
  BY DEF InvalidateParentAttr
<1>4. /\ ResolverInv(resolver') /\ resolver'.pending = resolver.pending
      /\ \A i \in Inodes : Owed(resolver', i) = Owed(resolver, i)
  BY <1>2, <1>3, ForgetAttrInv, AttrFields
<1>5. "forgetPath" \in StepsOf(op.kind)
  BY <1>2 DEF StepsOf
<1>6. OpInv(op') /\ ~HoldsEntry(op') /\ op'.pc = "forgetPath"
  BY <1>1, <1>5, GoMove DEF WalkPCs, InvalidateParentAttr
<1>7. ~Drained(op') /\ LiveInv(op', fs)
  BY <1>6 DEF Drained, LiveInv
<1>8. QED BY <1>2, <1>3, <1>4, <1>6, <1>7, AttrStepSound

\* invalidate_path_cache
LEMMA InvalidatePathSound ==
  ASSUME IInv, NEW k, NEW o, InvalidatePathCache(k, o),
         OpInv(o), ~HoldsEntry(o), \A f : LiveInv(o, f), ~HoldsEntry(op)
  PROVE  Sound
<1>1. /\ Deliver(InvalidateSubtree(resolver, k), fs) /\ op' = o
      /\ UNCHANGED environment
  BY DEF InvalidatePathCache
<1>2. ResolverInv(resolver) /\ Subtree(k) \in SUBSET Keys
  BY DEF IInv, Typed, Subtree
<1>3. /\ ResolverInv(InvalidateSubtree(resolver, k))
      /\ \A i \in Inodes : Owed(InvalidateSubtree(resolver, k), i) = Owed(resolver, i)
  BY <1>2, InvalidateInv DEF InvalidateSubtree
<1>4. OpInv(op') /\ ~HoldsEntry(op') /\ LiveInv(op', fs')
  BY <1>1
<1>5. QED BY <1>1, <1>3, <1>4, DeliverStep

\* The path of the changed file goes, and all below it.
LEMMA InvalidateMutatedPathSound == ASSUME IInv, InvalidateMutatedPath PROVE Sound
<1>1. op.pc = "forgetPath"
  BY DEF InvalidateMutatedPath, At
<1>2. ~HoldsEntry(op)
  BY <1>1, AtStep DEF WalkPCs
<1>3. QED BY <1>2, IdleOpInv, InvalidatePathSound DEF InvalidateMutatedPath

\* set_file_security ends.
LEMMA FinishSetXattrSound == ASSUME IInv, FinishSetXattr PROVE Sound
<1>1. op.pc = "mutated" /\ op.kind = "setxattr"
  BY DEF FinishSetXattr, At, Is
<1>2. /\ ~HoldsEntry(op) /\ ResolverInv(resolver) /\ resolver \in Resolver
      /\ op.ino["target"] \in Inodes
  BY <1>1, AtStep DEF WalkPCs, OnFile
<1>3. /\ resolver' = InvalidateInodeAttr(resolver, op.ino["target"]) /\ fs' = fs
      /\ op' = IdleOp("drained") /\ UNCHANGED environment
  BY DEF FinishSetXattr
<1>4. /\ ResolverInv(resolver') /\ resolver'.pending = resolver.pending
      /\ \A i \in Inodes : Owed(resolver', i) = Owed(resolver, i)
  BY <1>2, <1>3, ForgetAttrInv, AttrFields
<1>5. OpInv(op') /\ ~HoldsEntry(op') /\ LiveInv(op', fs) /\ Drained(op)
  BY <1>1, <1>3, IdleOpInv DEF Drained
<1>6. QED BY <1>2, <1>3, <1>4, <1>5, AttrStepSound

\* A callback on the inode, and the end, drained or not; or a second callback.
LEMMA AccessSound == ASSUME IInv, Access \/ Probe PROVE Sound
<1>1. op.pc = "targetKnown" /\ op.kind \in {"access", "probe"}
  BY DEF Access, Probe, At, Is
<1>2. ~HoldsEntry(op)
  BY <1>1, AtStep DEF WalkPCs
<1>3. /\ Ended \in AfterDrain(op.kind)
      /\ Ended \notin {"store", "created", "collided"}
      /\ op.kind = "probe" => "call" \in AfterDrain(op.kind)
  BY <1>1 DEF AfterDrain, Ended
<1>4. OpInv(op') /\ ~HoldsEntry(op') /\ ~Drained(op') /\ LiveInv(op', fs)
  <2>1. CASE op' = DrainTo(op, Ended)
    BY <1>1, <1>3, <2>1, DrainMove DEF WalkPCs
  <2>2. CASE op.kind = "probe" /\ op' = DrainTo(op, "call")
    BY <1>1, <1>3, <2>2, DrainMove DEF WalkPCs
  <2>3. CASE op' = IdleOp("undrained")
    BY <2>3, IdleOpInv
  <2>4. QED BY <2>1, <2>2, <2>3 DEF Access, Probe, Is
<1>5. UNCHANGED <<resolver, fs, environment>>
  BY DEF Access, Probe
<1>6. QED BY <1>2, <1>4, <1>5, HandlerStepSound

\* The second callback of a probe.
LEMMA ProbeAgainSound == ASSUME IInv, ProbeAgain PROVE Sound
<1>1. op.pc = "call" /\ op.kind = "probe"
  BY DEF ProbeAgain, At, Is
<1>2. ~HoldsEntry(op) /\ Drained(op)
  BY <1>1, AtStep DEF WalkPCs, Drained
<1>3. op' = IdleOp("drained") /\ UNCHANGED <<resolver, fs, environment>>
  BY DEF ProbeAgain
<1>4. QED BY <1>2, <1>3, IdleOpInv, HandlerStepSound

-----------------------------------------------------------------------------
(* create *)

\* "\" is open at once, an existing entry is resolved.
LEMMA OpenExistingSound == ASSUME IInv, OpenExisting PROVE Sound
<1>1. op.pc = "parentKnown" /\ op.kind = "create"
  BY DEF OpenExisting, At, Is
<1>2. ~HoldsEntry(op) /\ op.path \in Keys \cup {Root}
  BY <1>1, AtStep DEF WalkPCs, Ops
<1>3. "target" \in PurposesOf(op.kind)
  BY <1>1 DEF PurposesOf
<1>4. OpInv(op') /\ ~HoldsEntry(op') /\ ~Drained(op') /\ LiveInv(op', fs)
  <2>1. CASE op' = IdleOp("undrained")
    BY <2>1, IdleOpInv
  <2>2. CASE op' = Resolve(op, op.path, "target")
    BY <1>1, <1>2, <1>3, <2>2, ResolveMove DEF WalkPCs
  <2>3. QED BY <2>1, <2>2 DEF OpenExisting
<1>5. UNCHANGED <<resolver, fs, environment>>
  BY DEF OpenExisting
<1>6. QED BY <1>2, <1>4, <1>5, HandlerStepSound

\* A new entry comes with one lookup, which the handler holds in the reply.
LEMMA MakeEntrySound == ASSUME IInv, MakeEntry PROVE Sound
<1> DEFINE dir == op.ino["parent"]
           name == Leaf(op.path)
<1>1. /\ op.pc = "parentKnown" /\ op.kind = "create" /\ op.path # Root
      /\ UNCHANGED <<resolver, environment>>
  BY DEF MakeEntry, At, Is
<1>2. /\ OpInv(op) /\ op \in Ops /\ ~HoldsEntry(op) /\ fs \in FileSystems
      /\ op.walk = NoWalk /\ ResolverInv(resolver) /\ dir \in Inodes
  BY <1>1, AtStep DEF WalkPCs
<1>3. name \in Names
  BY <1>1, <1>2, WalkPaths DEF Ops
<1>4. /\ {Ended, "collided", "created"} \subseteq AfterDrain(op.kind)
      /\ {Ended, "collided"} \cap {"store", "created"} = {}
  BY <1>1 DEF AfterDrain, Ended
<1>5. \/ \E i \in Inodes, cacheable \in Cacheable :
           /\ dir \in Dirs /\ Unused(fs, i)
           /\ fs' = Granted(Made(fs, dir, name, i), i)
           /\ op' = [DrainTo(op, "created") EXCEPT
                       !.reply = Entry(i, fs.gen[i] + 1, cacheable)]
      \/ fs' = fs /\ op' \in {DrainTo(op, "collided"), DrainTo(op, Ended)}
  BY DEF MakeEntry
<1>6. CASE fs' = fs /\ op' \in {DrainTo(op, "collided"), DrainTo(op, Ended)}
  <2>1. OpInv(op') /\ ~HoldsEntry(op') /\ ~Drained(op') /\ LiveInv(op', fs)
    <3>1. CASE op' = DrainTo(op, "collided")
      BY <1>1, <1>4, <3>1, DrainMove DEF WalkPCs
    <3>2. CASE op' = DrainTo(op, Ended)
      BY <1>1, <1>4, <3>2, DrainMove DEF WalkPCs, Ended
    <3>3. QED BY <1>6, <3>1, <3>2
  <2>2. UNCHANGED <<resolver, fs, environment>>
    BY <1>1, <1>6
  <2>3. QED BY <1>2, <2>1, <2>2, HandlerStepSound
<1>7. ASSUME NEW i \in Inodes, NEW cacheable \in Cacheable,
             dir \in Dirs, Unused(fs, i),
             fs' = Granted(Made(fs, dir, name, i), i),
             op' = [DrainTo(op, "created") EXCEPT
                      !.reply = Entry(i, fs.gen[i] + 1, cacheable)]
      PROVE  Sound
  <2> DEFINE reply == Entry(i, fs.gen[i] + 1, cacheable)
  <2>1. fs.gen[i] + 1 \in Generations /\ cacheable \in BOOLEAN
    BY <1>7, AdapterAssumption DEF Unused
  <2>2. PICK d \in Dirs, n \in Names : d = dir /\ n = name
    BY <1>3, <1>7
  <2>3. /\ fs' \in FileSystems
        /\ fs'.nlookup = [fs.nlookup EXCEPT ![i] = @ + 1]
    <3>1. fs' = Granted(Made(fs, d, n, i), i)
      BY <1>7, <2>2
    <3>2. fs \in FileSystems /\ fs.gen[i] + 1 \in Generations
      BY <1>2, <2>1
    <3>3. Granted(Made(fs, d, n, i), i) \in FileSystems
      BY <3>2, MadeGrantedFields
    <3>4. Granted(Made(fs, d, n, i), i).nlookup = Granted(fs, i).nlookup
      BY <3>2, MadeGrantedFields
    <3>5. NoForgets \in [Inodes -> Nat]
      BY DEF NoForgets
    <3>6. Granted(fs, i).nlookup = [fs.nlookup EXCEPT ![i] = @ + 1]
      BY <3>2, <3>5, LookupFields
    <3>7. QED BY <3>1, <3>3, <3>4, <3>6
  <2>4. reply \in EntryReplies /\ reply \in ReplyTypes /\ reply.ino = i
    BY <2>1 DEF Entry, EntryReplies, ReplyTypes
  <2> HIDE DEF reply
  <2>5. op' = [op EXCEPT !.pc = "drain", !.next = "created", !.reply = reply]
    BY <1>2, <1>7 DEF DrainTo, Ops, reply
  <2>6. /\ op' \in Ops /\ SameRequest(op', op) /\ op'.pc = "drain"
        /\ op'.next = "created" /\ op'.reply = reply /\ op'.ino = op.ino
        /\ op'.walk = NoWalk
    BY <1>2, <2>4, <2>5 DEF Ops, SameRequest, PCs
  <2>7. OpInv(op') /\ HoldsEntry(op')
    <3>1. InOrder(op') /\ WalkFits(op') /\ ReplyFits(op') /\ HoldsEntry(op')
      BY <1>1, <1>4, <2>4, <2>6
         DEF InOrder, WalkFits, ReplyFits, HoldsEntry, SameRequest, WalkPCs
    <3>2. InodesKnown(op') /\ PathsFit(op')
      BY <1>1, <1>2, <2>6 DEF InodesKnown, PathsFit, SameRequest, OnFile
    <3>3. QED BY <2>6, <3>1, <3>2 DEF OpInv
  <2>8. DrainedInv(op', resolver') /\ LiveInv(op', fs')
    BY <2>6 DEF DrainedInv, Drained, LiveInv
  <2>9. /\ resolver' = resolver /\ lost' = lost /\ notices' = notices
        /\ overtaken' = overtaken /\ requests' = requests /\ changes' = changes
    BY <1>1 DEF environment
  <2>10. Typed'
    BY <2>3, <2>7, <2>9 DEF IInv, Typed
  <2>11. \A j \in Inodes : InReply(j) = 0 /\ InReply(j)' = IF j = i THEN 1 ELSE 0
    BY <1>2, <2>4, <2>6, <2>7 DEF InReply, HoldsEntry
  <2>12. Granting
    <3>1. \A j \in Inodes : Owed(resolver, j) \in Nat
      BY HasType DEF IInv
    <3>2. Has(i)' = Has(i) + 1
      BY <2>9, <2>11, <3>1 DEF Has
    <3>3. \A j \in Inodes \ {i} : Has(j)' = Has(j)
      BY <2>9, <2>11, <3>1 DEF Has
    <3>4. QED BY <2>3, <2>9, <3>2, <3>3 DEF Granting
  <2>13. QED BY <2>8, <2>10, <2>12 DEF Sound
<1>8. QED BY <1>5, <1>6, <1>7

\* The lookup of the new entry moves into the cache.
LEMMA FinishCreatedSound == ASSUME IInv, FinishCreated PROVE Sound
<1> DEFINE dir == op.ino["parent"]
           r == InvalidateInodeAttr(InvalidateInodeAttr(resolver, dir), op.reply.ino)
<1>1. op.pc = "created"
  BY DEF FinishCreated, At
<1>2. /\ OpInv(op) /\ op \in Ops /\ ResolverInv(resolver) /\ fs \in FileSystems
      /\ op.kind = "create" /\ op.walk = NoWalk /\ dir \in Inodes /\ op.path # Root
      /\ op.late \in BOOLEAN
  BY <1>1, AtStep, KindsKnown DEF WalkPCs, StepsOf, Ops, RequestKinds, PathsFit
<1>3. op.path \in Keys /\ Leaf(op.path) \in Names
  BY <1>2, WalkPaths DEF Ops
<1>4. HoldsEntry(op) /\ op.reply \in EntryReplies
  BY <1>1, <1>2 DEF HoldsEntry, OpInv, ReplyFits
<1>5. PICK j \in Inodes : j = op.reply.ino
  BY <1>4 DEF EntryReplies
<1>6. PICK gen \in Generations, cacheable \in BOOLEAN :
        gen = op.reply.gen /\ cacheable = op.reply.cacheable
  BY <1>4 DEF EntryReplies
<1>7. ResolverInv(r) /\ \A i \in Inodes : Owed(r, i) = Owed(resolver, i)
  <2>1. /\ ResolverInv(InvalidateInodeAttr(resolver, dir))
        /\ \A i \in Inodes :
             Owed(InvalidateInodeAttr(resolver, dir), i) = Owed(resolver, i)
    BY <1>2, ForgetAttrInv
  <2>2. QED BY <1>5, <2>1, ForgetAttrInv
<1>8. /\ resolver' = RememberPositive(r, op.path, dir, GenerationFor(r, dir),
                                      Leaf(op.path), j, gen, cacheable)
      /\ op' = [DrainTo(op, Ended) EXCEPT !.reply = NoReply, !.late = FALSE]
      /\ fs' = fs
  BY <1>5, <1>6 DEF FinishCreated
<1> HIDE DEF r
<1>9. GenerationFor(r, dir) \in Generations
  <2>1. r.inodes \in [Inodes -> InodeState]
    BY <1>7 DEF ResolverInv, Resolver
  <2>2. r.inodes[dir] \in InodeState
    BY <1>2, <2>1
  <2>3. QED BY <2>2 DEF GenerationFor, InodeState
<1>10. /\ ResolverInv(resolver')
       /\ Owed(resolver', j) = Owed(r, j) + 1
       /\ \A i \in Inodes \ {j} : Owed(resolver', i) = Owed(r, i)
  BY <1>2, <1>3, <1>7, <1>8, <1>9, RememberPositiveInv
<1>11. OpInv(op') /\ ~HoldsEntry(op') /\ ~Drained(op') /\ LiveInv(op', fs')
  <2>1. NoReply \in ReplyTypes
    BY DEF NoReply, ReplyTypes
  <2>2. op' = [op EXCEPT !.pc = "drain", !.next = Ended, !.reply = NoReply,
                         !.late = FALSE]
    BY <1>2, <1>8 DEF DrainTo, Ops
  <2>3. /\ op' \in Ops /\ SameRequest(op', op) /\ op'.pc = "drain"
        /\ op'.next = Ended /\ op'.ino = op.ino /\ op'.walk = NoWalk
    BY <1>2, <2>1, <2>2 DEF Ops, SameRequest, PCs
  <2>4. InOrder(op') /\ WalkFits(op') /\ ReplyFits(op') /\ ~HoldsEntry(op')
    BY <1>2, <2>3 DEF InOrder, WalkFits, ReplyFits, HoldsEntry, SameRequest,
       AfterDrain, WalkPCs, Ended
  <2>5. InodesKnown(op') /\ PathsFit(op')
    BY <1>2, <2>3 DEF InodesKnown, PathsFit, SameRequest, OnFile
  <2>6. ~Drained(op') /\ LiveInv(op', fs')
    BY <2>3 DEF Drained, LiveInv
  <2>7. QED BY <2>3, <2>4, <2>5, <2>6 DEF OpInv
<1>12. /\ lost' = lost /\ notices' = notices /\ requests' = requests
       /\ changes' = changes /\ overtaken' \subseteq Keys \cup Inodes
  BY <1>3 DEF FinishCreated, Record, IInv, Typed
<1>13. Typed'
  BY <1>2, <1>8, <1>10, <1>11, <1>12 DEF IInv, Typed
<1>14. \A i \in Inodes : /\ Owed(resolver, i) \in Nat /\ InReply(i)' = 0
                         /\ InReply(i) = IF i = j THEN 1 ELSE 0
  BY <1>4, <1>5, <1>11, HasType DEF IInv, InReply, HoldsEntry
<1>15. Quiet
  <2>1. \A i \in Inodes : Has(i)' = Has(i)
    BY <1>7, <1>10, <1>14 DEF Has
  <2>2. QED BY <1>8, <1>12, <2>1 DEF Quiet
<1>16. DrainedInv(op', resolver')
  BY <1>11 DEF DrainedInv
<1>17. QED BY <1>11, <1>13, <1>15, <1>16 DEF Sound

\* open_collision_entry
LEMMA OpenCollisionSound == ASSUME IInv, OpenCollision PROVE Sound
<1>1. op.pc = "collided"
  BY DEF OpenCollision, At
<1>2. ~HoldsEntry(op) /\ op.path \in Keys \cup {Root} /\ op.kind = "create"
  BY <1>1, AtStep, KindsKnown DEF WalkPCs, Ops, StepsOf, RequestKinds
<1>3. "target" \in PurposesOf(op.kind)
  BY <1>2 DEF PurposesOf
<1> DEFINE o == Resolve(op, op.path, "target")
<1>4. OpInv(o) /\ ~HoldsEntry(o) /\ \A f : LiveInv(o, f)
  BY <1>1, <1>2, <1>3, ResolveMove DEF WalkPCs
<1>5. InvalidatePathCache(op.path, o)
  BY DEF OpenCollision
<1> HIDE DEF o
<1>6. QED BY <1>2, <1>4, <1>5, InvalidatePathSound

\* open_resolved_path
LEMMA OpenResolvedSound == ASSUME IInv, OpenResolved PROVE Sound
<1>1. op.pc = "targetKnown" /\ op.kind = "create"
  BY DEF OpenResolved, At, Is
<1>2. ~HoldsEntry(op)
  BY <1>1, AtStep DEF WalkPCs
<1>3. Ended \in AfterDrain(op.kind) /\ Ended \notin {"store", "created", "collided"}
  BY <1>1 DEF AfterDrain, Ended
<1>4. OpInv(op') /\ ~HoldsEntry(op') /\ ~Drained(op') /\ LiveInv(op', fs)
  BY <1>1, <1>3, DrainMove DEF WalkPCs, OpenResolved
<1>5. QED BY <1>2, <1>4, HandlerStepSound DEF OpenResolved

-----------------------------------------------------------------------------
(* cleanup with delete_on_close *)

\* fs.unlink or fs.rmdir
LEMMA RemoveEntrySound == ASSUME IInv, RemoveEntry PROVE Sound
<1> DEFINE dir == op.ino["parent"]
           name == Leaf(op.path)
<1>1. /\ op.pc = "parentKnown" /\ op.kind = "delete"
      /\ UNCHANGED <<resolver, environment>>
  BY DEF RemoveEntry, At, Is
<1>2. /\ op \in Ops /\ ~HoldsEntry(op) /\ fs \in FileSystems
      /\ ResolverInv(resolver) /\ op.path # Root
  BY <1>1, AtStep DEF WalkPCs, PathsFit
<1>3. name \in Names
  BY <1>2, WalkPaths DEF Ops
<1>4. /\ {Ended, "forgetPath"} \subseteq AfterDrain(op.kind)
      /\ {Ended, "forgetPath"} \cap {"store", "created", "collided"} = {}
  BY <1>1 DEF AfterDrain, Ended
<1>5. \/ dir \in Dirs /\ fs' = Unlinked(fs, dir, name) /\ op' = DrainTo(op, "forgetPath")
      \/ fs' = fs /\ op' = DrainTo(op, Ended)
  BY DEF RemoveEntry
<1>6. /\ OpInv(op') /\ ~HoldsEntry(op') /\ ~Drained(op')
      /\ \A f : LiveInv(op', f)
  <2>1. PICK next \in {Ended, "forgetPath"} : op' = DrainTo(op, next)
    BY <1>5
  <2>2. /\ next \in AfterDrain(op.kind) /\ next \notin {"store", "created"}
        /\ next # "collided"
    BY <1>4
  <2>3. QED BY <1>1, <2>1, <2>2, DrainMove DEF WalkPCs
<1>7. fs' \in FileSystems /\ fs'.nlookup = fs.nlookup
  <2>1. CASE fs' = fs
    BY <1>2, <2>1
  <2>2. CASE dir \in Dirs /\ fs' = Unlinked(fs, dir, name)
    BY <1>2, <1>3, <2>2, UnlinkedFields
  <2>3. QED BY <1>5, <2>1, <2>2
<1>8. /\ resolver' = resolver /\ lost' = lost /\ notices' = notices
      /\ overtaken' = overtaken /\ requests' = requests /\ changes' = changes
  BY <1>1 DEF environment
<1>9. /\ notices \subseteq NoticeTypes /\ overtaken \subseteq Keys \cup Inodes
      /\ requests \in 0 .. MaxRequests /\ changes \in 0 .. MaxChanges
  BY DEF IInv, Typed
<1>10. DrainedInv(op', resolver')
  BY <1>6 DEF DrainedInv
<1>11. QED BY <1>2, <1>6, <1>7, <1>8, <1>9, <1>10, QuietStep

\* The removed path goes from the cache.
LEMMA InvalidateRemovedPathSound == ASSUME IInv, InvalidateRemovedPath PROVE Sound
<1>1. op.pc = "forgetPath" /\ op.kind = "delete"
  BY DEF InvalidateRemovedPath, At, Is
<1>2. ~HoldsEntry(op)
  BY <1>1, AtStep DEF WalkPCs
<1>3. "touched" \in StepsOf(op.kind)
  BY <1>1 DEF StepsOf
<1> DEFINE o == Goto(op, "touched")
<1>4. OpInv(o) /\ ~HoldsEntry(o) /\ o.pc = "touched"
  BY <1>1, <1>3, GoMove DEF WalkPCs
<1>5. InvalidatePathCache(op.path, o)
  BY DEF InvalidateRemovedPath
<1> HIDE DEF o
<1>6. \A f : LiveInv(o, f)
  BY <1>4 DEF LiveInv
<1>7. QED BY <1>2, <1>4, <1>5, <1>6, InvalidatePathSound

\* The attributes of the removed inode go, and those of its parent.
LEMMA FinishRemovedSound == ASSUME IInv, FinishRemoved PROVE Sound
<1> DEFINE r == IF op.ctx = NoInode THEN resolver
                                    ELSE InvalidateInodeAttr(resolver, op.ctx)
<1>1. op.pc = "touched" /\ op.kind = "delete"
  BY DEF FinishRemoved, At, Is
<1>2. /\ ~HoldsEntry(op) /\ ResolverInv(resolver) /\ resolver \in Resolver
      /\ op.ino["parent"] \in Inodes /\ op.ctx \in Inodes \cup {NoInode}
  BY <1>1, AtStep DEF WalkPCs, Ops
<1>3. /\ resolver' = InvalidateInodeAttr(r, op.ino["parent"]) /\ fs' = fs
      /\ op' = IdleOp("drained") /\ UNCHANGED environment
  BY DEF FinishRemoved
<1>4. /\ ResolverInv(r) /\ r.pending = resolver.pending
      /\ \A i \in Inodes : Owed(r, i) = Owed(resolver, i)
  BY <1>2, ForgetAttrInv, AttrFields
<1> HIDE DEF r
<1>5. r \in Resolver
  BY <1>4 DEF ResolverInv
<1>6. /\ ResolverInv(resolver') /\ resolver'.pending = resolver.pending
      /\ \A i \in Inodes : Owed(resolver', i) = Owed(resolver, i)
  BY <1>2, <1>3, <1>4, <1>5, ForgetAttrInv, AttrFields
<1>7. OpInv(op') /\ ~HoldsEntry(op') /\ LiveInv(op', fs) /\ Drained(op)
  BY <1>1, <1>3, IdleOpInv DEF Drained
<1>8. QED BY <1>2, <1>3, <1>6, <1>7, AttrStepSound

-----------------------------------------------------------------------------
(* move *)

\* The walks of a move: the new parent, the inode that moves, the new path.
LEMMA MoveWalksSound ==
  ASSUME IInv, ResolveNewParent \/ ResolveMoved \/ CheckClash
  PROVE  Sound
<1>1. /\ op.pc \in {"parentKnown", "destParentKnown", "targetKnown"}
      /\ op.pc = "parentKnown" => ResolveNewParent
  BY DEF ResolveNewParent, ResolveMoved, CheckClash, At, Is
<1>2. ~HoldsEntry(op) /\ op \in Ops /\ op.pc \in StepsOf(op.kind) /\ PathsFit(op)
  BY <1>1, AtStep DEF WalkPCs
<1>3. op.kind = "move"
  BY <1>2, KindsKnown DEF ResolveNewParent, ResolveMoved, CheckClash, At, Is, StepsOf, Ops,
              RequestKinds
<1>4. UNCHANGED <<resolver, fs, environment>>
  BY DEF ResolveNewParent, ResolveMoved, CheckClash
<1>5. /\ {"destParent", "target", "clash"} \subseteq PurposesOf(op.kind)
      /\ {"targetKnown", "call"} \subseteq StepsOf(op.kind)
      /\ op.path \in Keys /\ op.dest \in Keys /\ Parent(op.dest) \in Keys \cup {Root}
  BY <1>2, <1>3, WalkPaths DEF PurposesOf, StepsOf, Ops, PathsFit
<1>6. OpInv(op') /\ ~HoldsEntry(op') /\ ~Drained(op') /\ LiveInv(op', fs)
  <2>1. ASSUME NEW key \in Keys \cup {Root}, NEW p \in {"destParent", "target", "clash"},
               op' = Resolve(op, key, p),
               op.pc = "parentKnown" => p = "destParent"
        PROVE  OpInv(op') /\ ~HoldsEntry(op') /\ ~Drained(op') /\ LiveInv(op', fs)
    BY <1>1, <1>5, <2>1, ResolveMove DEF WalkPCs
  <2>2. CASE op' = Goto(op, "call") /\ op.pc = "targetKnown"
    <3>1. /\ OpInv(op') /\ ~HoldsEntry(op') /\ op'.pc = "call" /\ SameRequest(op', op)
      BY <1>5, <2>2, GoMove DEF WalkPCs
    <3>2. QED BY <1>3, <3>1 DEF Drained, LiveInv, SameRequest
  <2>3. CASE /\ op' = [op EXCEPT !.pc = "targetKnown", !.ino["target"] = op.ctx]
             /\ op.pc = "destParentKnown" /\ op.ctx # NoInode
    <3> DEFINE inos == [op.ino EXCEPT !["target"] = op.ctx]
    <3>1. /\ inos \in [Purposes -> Inodes \cup {NoInode}]
          /\ inos["parent"] = op.ino["parent"] /\ inos["destParent"] = op.ino["destParent"]
      BY <1>2 DEF Ops, Purposes
    <3>2. op' = [op EXCEPT !.pc = "targetKnown", !.ino = inos]
      BY <2>3
    <3> HIDE DEF inos
    <3>3. /\ op' \in Ops /\ SameRequest(op', op) /\ op'.pc = "targetKnown"
          /\ op'.next = op.next /\ op'.walk = op.walk /\ op'.ino = inos
      BY <1>2, <3>1, <3>2 DEF Ops, SameRequest, PCs
    <3>4. /\ op.next = "idle" /\ op.walk = NoWalk /\ op.ino["parent"] \in Inodes
          /\ op.ino["destParent"] \in Inodes
      BY <1>3, <2>3, AtStep DEF WalkPCs
    <3>5. InOrder(op') /\ WalkFits(op') /\ ReplyFits(op') /\ ~HoldsEntry(op')
      BY <1>3, <1>5, <3>3, <3>4
         DEF InOrder, WalkFits, ReplyFits, HoldsEntry, SameRequest, WalkPCs
    <3>6. PathsFit(op')
      BY <1>2, <1>3, <3>3, <3>4 DEF PathsFit, SameRequest
    <3>7. InodesKnown(op')
      BY <1>3, <3>1, <3>3, <3>4 DEF InodesKnown, SameRequest, OnFile
    <3>8. ~Drained(op') /\ LiveInv(op', fs)
      BY <1>3, <3>3 DEF Drained, LiveInv, SameRequest
    <3>9. QED BY <3>3, <3>5, <3>6, <3>7, <3>8 DEF OpInv
  <2>4. CASE ResolveNewParent
    BY <1>5, <2>1, <2>4 DEF ResolveNewParent
  <2>5. CASE ResolveMoved
    <3>1. op.pc = "destParentKnown"
      BY <2>5 DEF ResolveMoved, At
    <3>2. \/ op' = Resolve(op, op.path, "target")
          \/ /\ op' = [op EXCEPT !.pc = "targetKnown", !.ino["target"] = op.ctx]
             /\ op.ctx # NoInode
      BY <2>5 DEF ResolveMoved, ResolveContextOrPath
    <3>3. QED BY <1>5, <2>1, <2>3, <3>1, <3>2
  <2>6. CASE CheckClash
    <3>1. op.pc = "targetKnown"
      BY <2>6 DEF CheckClash, At
    <3>2. op' = Goto(op, "call") \/ op' = Resolve(op, op.dest, "clash")
      BY <2>6 DEF CheckClash
    <3>3. QED BY <1>5, <2>1, <2>2, <3>1, <3>2
  <2>7. QED BY <2>4, <2>5, <2>6
<1>7. QED BY <1>2, <1>4, <1>6, HandlerStepSound

\* The new path resolves: the move ends.
LEMMA ClashSound == ASSUME IInv, Clash PROVE Sound
<1>1. op.pc = "clashKnown"
  BY DEF Clash, At
<1>2. ~HoldsEntry(op) /\ op.kind = "move"
  BY <1>1, AtStep, KindsKnown DEF WalkPCs, StepsOf, Ops, RequestKinds
<1>3. Ended \in AfterDrain(op.kind) /\ Ended \notin {"store", "created", "collided"}
  BY <1>2 DEF AfterDrain, Ended
<1>4. OpInv(op') /\ ~HoldsEntry(op') /\ ~Drained(op') /\ LiveInv(op', fs)
  BY <1>1, <1>3, DrainMove DEF WalkPCs, Clash
<1>5. QED BY <1>2, <1>4, HandlerStepSound DEF Clash

\* fs.rename
LEMMA RenameSound == ASSUME IInv, Rename PROVE Sound
<1> DEFINE dir == op.ino["parent"]
           name == Leaf(op.path)
           newDir == op.ino["destParent"]
           newName == Leaf(op.dest)
<1>1. /\ op.pc = "call" /\ op.kind = "move"
      /\ UNCHANGED <<resolver, notices, lost, requests, changes>>
  BY DEF Rename, At, Is
<1>2. /\ op \in Ops /\ ~HoldsEntry(op) /\ fs \in FileSystems
      /\ ResolverInv(resolver) /\ op.path # Root /\ op.dest # Root
  BY <1>1, AtStep DEF WalkPCs, PathsFit
<1>3. name \in Names /\ newName \in Names
  BY <1>2, WalkPaths DEF Ops
<1>4. /\ {Ended, "renamed"} \subseteq AfterDrain(op.kind)
      /\ {Ended, "renamed"} \cap {"store", "created", "collided"} = {}
  BY <1>1 DEF AfterDrain, Ended
<1>5. \/ /\ dir \in Dirs /\ newDir \in Dirs /\ fs.tree[<<dir, name>>] # NoInode
         /\ fs' = Renamed(fs, dir, name, newDir, newName)
         /\ op' = DrainTo(op, "renamed")
         /\ overtaken' \in {overtaken, overtaken \cup {fs.tree[<<dir, name>>]}}
      \/ fs' = fs /\ op' = DrainTo(op, Ended) /\ overtaken' = overtaken
  BY DEF Rename, CanRename
<1>6. /\ OpInv(op') /\ ~HoldsEntry(op') /\ ~Drained(op')
      /\ \A f : LiveInv(op', f)
  <2>1. PICK next \in {Ended, "renamed"} : op' = DrainTo(op, next)
    BY <1>5
  <2>2. /\ next \in AfterDrain(op.kind) /\ next \notin {"store", "created"}
        /\ next # "collided"
    BY <1>4
  <2>3. QED BY <1>1, <2>1, <2>2, DrainMove DEF WalkPCs
<1>7. /\ notices \subseteq NoticeTypes /\ overtaken \subseteq Keys \cup Inodes
      /\ requests \in 0 .. MaxRequests /\ changes \in 0 .. MaxChanges
  BY DEF IInv, Typed
<1>8. /\ fs' \in FileSystems /\ fs'.nlookup = fs.nlookup
      /\ overtaken' \subseteq Keys \cup Inodes
  <2>1. CASE fs' = fs /\ overtaken' = overtaken
    BY <1>2, <1>7, <2>1
  <2>2. CASE /\ dir \in Dirs /\ newDir \in Dirs /\ fs.tree[<<dir, name>>] # NoInode
             /\ fs' = Renamed(fs, dir, name, newDir, newName)
             /\ overtaken' \in {overtaken, overtaken \cup {fs.tree[<<dir, name>>]}}
    <3>1. fs' \in FileSystems /\ fs'.nlookup = fs.nlookup
      <4>1. /\ Renamed(fs, dir, name, newDir, newName) \in FileSystems
            /\ Renamed(fs, dir, name, newDir, newName).nlookup = fs.nlookup
        BY <1>2, <1>3, <2>2, RenamedKeeps
      <4>2. QED BY <2>2, <4>1
    <3>2. fs.tree[<<dir, name>>] \in Inodes
      BY <1>2, <1>3, <2>2 DEF FileSystems
    <3>3. QED BY <1>7, <2>2, <3>1, <3>2
  <2>3. QED BY <1>5, <2>1, <2>2
<1>9. DrainedInv(op', resolver')
  BY <1>6 DEF DrainedInv
<1>10. QED BY <1>1, <1>2, <1>6, <1>7, <1>8, <1>9, QuietStep

\* The attributes of the inode that moved go, when the move knows it.
LEMMA InvalidateMovedSound == ASSUME IInv, InvalidateMoved PROVE Sound
<1>1. op.pc = "renamed"
  BY DEF InvalidateMoved, At
<1>2. /\ ~HoldsEntry(op) /\ ResolverInv(resolver) /\ resolver \in Resolver
      /\ op.kind = "move" /\ op \in Ops
  BY <1>1, AtStep, KindsKnown DEF WalkPCs, StepsOf, Ops, RequestKinds
<1>3. /\ fs' = fs /\ op' = Goto(op, "forgetPath") /\ UNCHANGED environment
      /\ resolver' = IF op.ino["target"] = NoInode THEN resolver
                       ELSE InvalidateInodeAttr(resolver, op.ino["target"])
  BY DEF InvalidateMoved
<1>4. op.ino["target"] \in Inodes \cup {NoInode}
  BY <1>2 DEF Ops, Purposes
<1>5. /\ ResolverInv(resolver') /\ resolver'.pending = resolver.pending
      /\ \A i \in Inodes : Owed(resolver', i) = Owed(resolver, i)
  BY <1>2, <1>3, <1>4, ForgetAttrInv, AttrFields
<1>6. "forgetPath" \in StepsOf(op.kind)
  BY <1>2 DEF StepsOf
<1>7. OpInv(op') /\ ~HoldsEntry(op') /\ op'.pc = "forgetPath"
  BY <1>1, <1>3, <1>6, GoMove DEF WalkPCs
<1>8. ~Drained(op') /\ LiveInv(op', fs)
  BY <1>7 DEF Drained, LiveInv
<1>9. QED BY <1>2, <1>3, <1>5, <1>7, <1>8, AttrStepSound

\* The old path goes from the cache, then the new one.
LEMMA InvalidateMovedPathsSound ==
  ASSUME IInv, InvalidateOldPath \/ InvalidateNewPath
  PROVE  Sound
<1>1. op.pc \in {"forgetPath", "forgetDest"}
  BY DEF InvalidateOldPath, InvalidateNewPath, At
<1>2. ~HoldsEntry(op) /\ op.kind = "move"
  BY <1>1, AtStep, KindsKnown
     DEF WalkPCs, StepsOf, Ops, RequestKinds, InvalidateOldPath, InvalidateNewPath, At, Is
<1>3. {"touched", "forgetDest"} \subseteq StepsOf(op.kind)
  BY <1>2 DEF StepsOf
<1>4. PICK k \in {op.path, op.dest}, pc \in {"touched", "forgetDest"} :
        InvalidatePathCache(k, Goto(op, pc))
  BY DEF InvalidateOldPath, InvalidateNewPath
<1> DEFINE o == Goto(op, pc)
<1>5. OpInv(o) /\ ~HoldsEntry(o) /\ o.pc = pc
  BY <1>1, <1>3, GoMove DEF WalkPCs
<1>6. InvalidatePathCache(k, o)
  BY <1>4
<1> HIDE DEF o
<1>7. \A f : LiveInv(o, f)
  BY <1>5 DEF LiveInv
<1>8. QED BY <1>2, <1>5, <1>6, <1>7, InvalidatePathSound

\* The attributes of both parents go.
LEMMA FinishMovedSound == ASSUME IInv, FinishMoved PROVE Sound
<1> DEFINE r == InvalidateInodeAttr(resolver, op.ino["parent"])
<1>1. op.pc = "touched" /\ op.kind = "move"
  BY DEF FinishMoved, At, Is
<1>2. /\ ~HoldsEntry(op) /\ ResolverInv(resolver) /\ resolver \in Resolver
      /\ op.ino["parent"] \in Inodes /\ op.ino["destParent"] \in Inodes
  BY <1>1, AtStep DEF WalkPCs
<1>3. /\ resolver' = InvalidateInodeAttr(r, op.ino["destParent"]) /\ fs' = fs
      /\ op' = IdleOp("drained") /\ UNCHANGED environment
  BY DEF FinishMoved
<1>4. /\ ResolverInv(r) /\ r.pending = resolver.pending
      /\ \A i \in Inodes : Owed(r, i) = Owed(resolver, i)
  BY <1>2, ForgetAttrInv, AttrFields
<1> HIDE DEF r
<1>5. r \in Resolver
  BY <1>4 DEF ResolverInv
<1>6. /\ ResolverInv(resolver') /\ resolver'.pending = resolver.pending
      /\ \A i \in Inodes : Owed(resolver', i) = Owed(resolver, i)
  BY <1>2, <1>3, <1>4, <1>5, ForgetAttrInv, AttrFields
<1>7. OpInv(op') /\ ~HoldsEntry(op') /\ LiveInv(op', fs) /\ Drained(op)
  BY <1>1, <1>3, IdleOpInv DEF Drained
<1>8. QED BY <1>2, <1>3, <1>6, <1>7, AttrStepSound

-----------------------------------------------------------------------------
(* The file system by itself, its notifications, and time *)

\* A change by the file system itself moves no lookup.
LEMMA ChangeSound ==
  ASSUME IInv, NEW f \in FileSystems, f.nlookup = fs.nlookup,
         NEW due \in SUBSET NoticeTypes, Change(f, due)
  PROVE  Sound
<1>1. /\ fs' = f /\ resolver' = resolver /\ op' = op /\ lost' = lost
      /\ overtaken' = overtaken /\ requests' = requests
      /\ changes > 0 /\ changes' = changes - 1
      /\ notices' = notices \cup due
                     \cup InodeNotices({i \in Inodes : f.attr[i] # fs.attr[i]})
  BY DEF Change
<1>2. /\ ResolverInv(resolver) /\ OpInv(op) /\ notices \subseteq NoticeTypes
      /\ overtaken \subseteq Keys \cup Inodes
      /\ requests \in 0 .. MaxRequests /\ changes \in 0 .. MaxChanges
      /\ DrainedInv(op, resolver) /\ LiveInv(op, fs)
  BY DEF IInv, Typed
<1>3. changes' \in 0 .. MaxChanges
  BY <1>1, <1>2, AdapterAssumption
<1>4. notices' \subseteq NoticeTypes
  <2>1. InodeNotices({i \in Inodes : f.attr[i] # fs.attr[i]}) \subseteq NoticeTypes
    BY DEF InodeNotices, NoticeTypes
  <2>2. QED BY <1>1, <1>2, <2>1
<1>5. LiveInv(op', fs')
  BY <1>1, <1>2 DEF LiveInv, LiveIn
<1>6. QED BY <1>1, <1>2, <1>3, <1>4, <1>5, QuietStep

\* Each kind of change announces names and inodes that exist.
LEMMA FsStepSound == ASSUME IInv, FsStep PROVE Sound
<1>1. fs \in FileSystems
  BY DEF IInv, Typed
<1>2. ASSUME NEW i \in Inodes, FsTouches(i) PROVE Sound
  <2>1. Changed(fs, {i}) \in FileSystems /\ Changed(fs, {i}).nlookup = fs.nlookup
    BY <1>1, ChangedFields
  <2>2. Change(Changed(fs, {i}), {}) /\ {} \in SUBSET NoticeTypes
    BY <1>2 DEF FsTouches
  <2>3. QED BY <2>1, <2>2, ChangeSound
<1>3. ASSUME NEW dir \in Dirs, NEW name \in Names, NEW i \in Inodes,
             FsMakes(dir, name, i)
      PROVE  Sound
  <2>0. fs.gen[i] + 1 \in Generations
    BY <1>3 DEF FsMakes, Unused
  <2>1. /\ Made(fs, dir, name, i) \in FileSystems
        /\ Made(fs, dir, name, i).nlookup = fs.nlookup
    BY <1>1, <2>0, MadeFields
  <2>2. {EntryNotice(dir, name)} \in SUBSET NoticeTypes
    BY DEF EntryNotice, NoticeTypes
  <2>3. QED BY <1>3, <2>1, <2>2, ChangeSound DEF FsMakes
<1>4. ASSUME NEW dir \in Dirs, NEW name \in Names, FsRemoves(dir, name) PROVE Sound
  <2>1. /\ Removed(fs, dir, name) \in FileSystems
        /\ Removed(fs, dir, name).nlookup = fs.nlookup
    BY <1>1, RemovedFields
  <2>2. fs.tree[<<dir, name>>] \in Inodes
    BY <1>1, <1>4 DEF FsRemoves, FileSystems
  <2>3. {DeleteNotice(dir, name, fs.tree[<<dir, name>>])} \in SUBSET NoticeTypes
    BY <2>2 DEF DeleteNotice, NoticeTypes
  <2>4. QED BY <1>4, <2>1, <2>3, ChangeSound DEF FsRemoves
<1>5. ASSUME NEW dir \in Dirs, NEW name \in Names, NEW newDir \in Dirs,
             NEW newName \in Names, FsMoves(dir, name, newDir, newName)
      PROVE  Sound
  <2>0. Renamed(fs, dir, name, newDir, newName) \in FileSystems
    BY <1>1, RenamedKeeps
  <2>1. Renamed(fs, dir, name, newDir, newName).nlookup = fs.nlookup
    BY <1>1, RenamedKeeps
  <2>2. {EntryNotice(dir, name), EntryNotice(newDir, newName)} \in SUBSET NoticeTypes
    BY DEF EntryNotice, NoticeTypes
  <2>3. QED BY <1>5, <2>0, <2>1, <2>2, ChangeSound DEF FsMoves
<1>6. QED BY <1>2, <1>3, <1>4, <1>5 DEF FsStep

\* A notification about an inode drops its attributes.
LEMMA InvalInodeSound ==
  ASSUME IInv, NEW n \in notices, InvalInode(n), Notify(n)
  PROVE  Sound
<1>1. /\ ResolverInv(resolver) /\ resolver \in Resolver /\ OpInv(op) /\ op \in Ops
      /\ n \in NoticeTypes /\ fs \in FileSystems
      /\ notices \subseteq NoticeTypes /\ overtaken \subseteq Keys \cup Inodes
      /\ requests \in 0 .. MaxRequests /\ changes \in 0 .. MaxChanges
      /\ DrainedInv(op, resolver) /\ LiveInv(op, fs)
  BY DEF IInv, Typed, OpInv, ResolverInv
<1>2. /\ n.about = "inode" /\ resolver' = InvalidateInodeAttr(resolver, n.ino)
      /\ op' = [op EXCEPT !.late = @ \/ HoldsAttributesOf(n.ino)]
      /\ lost' = lost /\ notices' = notices \ {n} /\ fs' = fs
      /\ overtaken' = overtaken /\ requests' = requests /\ changes' = changes
  BY DEF InvalInode, Notify
<1>3. n.ino \in Inodes
  BY <1>1, <1>2 DEF NoticeTypes
<1>4. /\ ResolverInv(resolver') /\ resolver'.pending = resolver.pending
      /\ \A i \in Inodes : Owed(resolver', i) = Owed(resolver, i)
  BY <1>1, <1>2, <1>3, ForgetAttrInv, AttrFields
<1>5. PICK late \in BOOLEAN : op' = WithLate(op, late)
  BY <1>1, <1>2 DEF WithLate, Ops, HoldsAttributesOf
<1>6. /\ OpInv(op') /\ op'.pc = op.pc /\ op'.next = op.next /\ op'.reply = op.reply
      /\ Drained(op') <=> Drained(op)
      /\ LiveInv(op', fs)
  BY <1>1, <1>5, LateInv
<1>7. HoldsEntry(op') <=> HoldsEntry(op)
  BY <1>6 DEF HoldsEntry
<1>8. DrainedInv(op', resolver')
  BY <1>1, <1>4, <1>6 DEF DrainedInv
<1>9. QED BY <1>1, <1>2, <1>4, <1>6, <1>7, <1>8, QuietStep

\* A notification about an entry: the forgets that the invalidation hands back,
\* those queued before it included, are dropped.
LEMMA InvalEntrySound ==
  ASSUME IInv, NEW n \in notices, InvalEntry(n), Notify(n)
  PROVE  Sound
<1> DEFINE r == InvalidateEntry(resolver, n.dir, n.name)
<1>1. /\ ResolverInv(resolver) /\ resolver \in Resolver /\ OpInv(op) /\ op \in Ops
      /\ n \in NoticeTypes /\ fs \in FileSystems /\ lost \in [Inodes -> Nat]
      /\ notices \subseteq NoticeTypes /\ overtaken \subseteq Keys \cup Inodes
      /\ requests \in 0 .. MaxRequests /\ changes \in 0 .. MaxChanges
      /\ LiveInv(op, fs)
  BY DEF IInv, Typed, OpInv, ResolverInv
<1>2. /\ n.about \in {"entry", "delete"}
      /\ resolver' = IF n.about = "delete" THEN InvalidateInodeAttr(Taken(r), n.child)
                                           ELSE Taken(r)
      /\ lost' = [i \in Inodes |-> lost[i] + r.pending[i]]
      /\ notices' = notices \ {n} /\ fs' = fs
      /\ overtaken' = overtaken /\ requests' = requests /\ changes' = changes
  BY DEF InvalEntry, Notify
<1>3. ResolverInv(r) /\ \A i \in Inodes : Owed(r, i) = Owed(resolver, i)
  <2>1. EntriesNamed(resolver, n.dir, n.name) \in SUBSET Keys
    BY DEF EntriesNamed
  <2>2. QED BY <1>1, <2>1, InvalidateInv DEF InvalidateEntry
<1>4. PICK late \in BOOLEAN : op' = WithLate(op, late)
  BY <1>1 DEF WithLate, Ops, HoldsAttributesOf, HoldsReplyAbout, InvalEntry
<1> HIDE DEF r
<1>5. r.pending \in [Inodes -> Nat]
  BY <1>3 DEF ResolverInv, Resolver
<1>6. /\ ResolverInv(Taken(r)) /\ Taken(r).pending = NoForgets /\ Taken(r) \in Resolver
      /\ \A i \in Inodes : Owed(Taken(r), i) = Owed(resolver, i) - r.pending[i]
  BY <1>3, TakenInv DEF ResolverInv
<1>7. /\ ResolverInv(resolver') /\ resolver'.pending = NoForgets
      /\ \A i \in Inodes : Owed(resolver', i) = Owed(resolver, i) - r.pending[i]
  <2>1. CASE n.about = "delete"
    <3>1. n.child \in Inodes
      BY <1>1, <2>1 DEF NoticeTypes
    <3>2. QED BY <1>2, <1>6, <2>1, <3>1, ForgetAttrInv, AttrFields
  <2>2. CASE n.about # "delete"
    BY <1>2, <1>6, <2>2
  <2>3. QED BY <2>1, <2>2
<1>8. /\ OpInv(op') /\ op'.pc = op.pc /\ op'.next = op.next /\ op'.reply = op.reply
      /\ LiveInv(op', fs)
  BY <1>1, <1>4, LateInv
<1>9. \A i \in Inodes : InReply(i)' = InReply(i)
  BY <1>8 DEF InReply
<1>10. lost' \in [Inodes -> Nat] /\ notices' \subseteq NoticeTypes
  BY <1>1, <1>2, <1>5
<1>11. Typed'
  BY <1>1, <1>2, <1>7, <1>8, <1>10 DEF Typed
<1>12. Discarding
  <2>1. ASSUME NEW i \in Inodes PROVE Has(i)' = Has(i) - r.pending[i]
    <3>1. Owed(resolver, i) \in Nat /\ InReply(i) \in {0, 1} /\ r.pending[i] \in Nat
      BY <1>5, HasType DEF IInv
    <3>2. Has(i)' = (Owed(resolver, i) - r.pending[i]) + InReply(i)
      BY <1>7, <1>9 DEF Has
    <3>3. QED BY <3>1, <3>2 DEF Has
  <2>2. QED BY <1>2, <1>5, <2>1 DEF Discarding
<1>13. DrainedInv(op', resolver') /\ LiveInv(op', fs')
  BY <1>2, <1>7, <1>8 DEF DrainedInv
<1>14. QED BY <1>11, <1>12, <1>13 DEF Sound

\* Entries and attributes expire in place.
LEMMA TimeSound == ASSUME IInv, Time PROVE Sound
<1>1. /\ ResolverInv(resolver) /\ resolver \in Resolver /\ OpInv(op)
      /\ LiveInv(op, fs) /\ fs \in FileSystems
      /\ notices \subseteq NoticeTypes /\ overtaken \subseteq Keys \cup Inodes
      /\ requests \in 0 .. MaxRequests /\ changes \in 0 .. MaxChanges
      /\ DrainedInv(op, resolver)
  BY DEF IInv, Typed, ResolverInv
<1>2. /\ fs' = fs /\ op' = op /\ lost' = lost /\ notices' = notices
      /\ overtaken' = overtaken /\ requests' = requests /\ changes' = changes
  BY DEF Time, EntryExpires, AttrExpires, environment
<1>3. /\ ResolverInv(resolver') /\ resolver'.pending = resolver.pending
      /\ \A i \in Inodes : Owed(resolver', i) = Owed(resolver, i)
  <2>1. ASSUME NEW k \in Keys, EntryExpires(k)
        PROVE  /\ ResolverInv(resolver') /\ resolver'.pending = resolver.pending
               /\ \A i \in Inodes : Owed(resolver', i) = Owed(resolver, i)
    <3>1. IsPresent(resolver.paths[k]) /\ resolver' = ExpireEntry(resolver, k)
      BY <2>1 DEF EntryExpires
    <3>2. resolver'.pending = resolver.pending
      BY <1>1, <3>1 DEF ExpireEntry, Resolver
    <3>3. QED BY <1>1, <3>1, <3>2, ExpireEntryInv
  <2>2. ASSUME NEW i \in Inodes, AttrExpires(i)
        PROVE  /\ ResolverInv(resolver') /\ resolver'.pending = resolver.pending
               /\ \A j \in Inodes : Owed(resolver', j) = Owed(resolver, j)
    BY <1>1, <2>2, ForgetAttrInv, AttrFields DEF AttrExpires
  <2>3. QED BY <2>1, <2>2 DEF Time
<1>4. DrainedInv(op', resolver') /\ LiveInv(op', fs')
  BY <1>1, <1>2, <1>3 DEF DrainedInv
<1>5. QED BY <1>1, <1>2, <1>3, <1>4, QuietStep

-----------------------------------------------------------------------------
(* Requests *)

\* A request that was just made has resolved nothing.
LEMMA RequestType ==
  ASSUME NEW kind \in Kinds, NEW path \in Keys
  PROVE  LET o == Request(kind, path) IN
         /\ o \in Ops /\ o.kind = kind /\ o.path = path /\ o.next = "idle"
         /\ o.walk = NoWalk /\ o.late = FALSE
<1> DEFINE idle == IdleOp("drained")
<1>1. idle \in Ops /\ idle.next = "idle" /\ idle.walk = NoWalk /\ idle.late = FALSE
  BY IdleOpInv DEF OpInv, WalkFits, WalkPCs
<1>2. Request(kind, path) = [idle EXCEPT !.kind = kind, !.path = path]
  BY DEF Request
<1> HIDE DEF idle
<1>3. QED BY <1>1, <1>2 DEF Ops

LEMMA RequestStarts ==
  ASSUME NEW kind \in Kinds, NEW path \in Keys
  PROVE  /\ Request(kind, path) \in Ops /\ Request(kind, path).kind = kind
         /\ Request(kind, path).path = path
         /\ Request(kind, path).next = "idle" /\ Request(kind, path).walk = NoWalk
BY RequestType, Zenon

\* The inode of a handle exists.
LEMMA HandlesType ==
  ASSUME IInv, NEW path \in Keys, NEW ctx \in Handles(path)
  PROVE  ctx \in Inodes \cup {NoInode}
<1>1. fs \in FileSystems /\ path \in Seq(Names)
  BY ConstantsAssumption DEF IInv, Typed
<1>2. QED BY <1>1, InodeAtType DEF Handles

\* A request begins: what it starts with is all that there is to know about it.
LEMMA BeginSound ==
  ASSUME IInv, NEW kind, NEW o, Begin(kind, o),
         OpInv(o), ~HoldsEntry(o), ~Drained(o), \A f : LiveInv(o, f)
  PROVE  Sound
<1>1. /\ op.pc = "idle" /\ op' = o /\ requests > 0 /\ requests' = requests - 1
      /\ resolver' = resolver /\ fs' = fs /\ lost' = lost /\ notices' = notices
      /\ overtaken' = overtaken /\ changes' = changes
  BY DEF Begin, At
<1>2. /\ ResolverInv(resolver) /\ fs \in FileSystems /\ OpInv(op)
      /\ notices \subseteq NoticeTypes /\ overtaken \subseteq Keys \cup Inodes
      /\ requests \in 0 .. MaxRequests /\ changes \in 0 .. MaxChanges
  BY DEF IInv, Typed
<1>3. ~HoldsEntry(op)
  BY <1>1, <1>2 DEF HoldsEntry, OpInv, InOrder
<1>4. requests' \in 0 .. MaxRequests
  BY <1>1, <1>2, AdapterAssumption
<1>5. DrainedInv(op', resolver') /\ LiveInv(op', fs')
  BY <1>1 DEF DrainedInv
<1>6. QED BY <1>1, <1>2, <1>3, <1>4, <1>5, QuietStep

\* The handlers that act on one file.
LEMMA RequestOnFileSound ==
  ASSUME IInv, NEW kind, NEW path \in Keys, RequestOnFile(kind, path)
  PROVE  Sound
<1>1. kind \in Kinds /\ OnFile(kind)
  BY DEF RequestOnFile, Begin, OnFile
<1>2. PICK ctx \in Handles(path) :
        Begin(kind, ResolveContextOrPath([Request(kind, path) EXCEPT !.ctx = ctx], path))
  BY DEF RequestOnFile
<1> DEFINE o == [Request(kind, path) EXCEPT !.ctx = ctx]
           q == ResolveContextOrPath(o, path)
<1>3. /\ o \in Ops /\ o.kind = kind /\ o.path = path /\ o.next = "idle"
      /\ o.walk = NoWalk /\ o.ctx = ctx /\ ctx \in Inodes \cup {NoInode}
  <2>1. ctx \in Inodes \cup {NoInode}
    BY HandlesType
  <2> DEFINE b == Request(kind, path)
  <2>2. /\ b \in Ops /\ b.kind = kind /\ b.path = path /\ b.next = "idle"
        /\ b.walk = NoWalk
    BY <1>1, RequestType
  <2>3. o = [b EXCEPT !.ctx = ctx]
    OBVIOUS
  <2> HIDE DEF b
  <2>4. QED BY <2>1, <2>2, <2>3 DEF Ops
<1>4. Begin(kind, q)
  BY <1>2
<1> HIDE DEF o
<1>5. /\ "target" \in PurposesOf(o.kind) /\ "targetKnown" \in StepsOf(o.kind)
      /\ o.kind # "none" /\ o.kind \notin {"create", "delete", "move"}
  BY <1>1, <1>3 DEF PurposesOf, StepsOf, OnFile
<1>6. OpInv(q) /\ ~HoldsEntry(q) /\ ~Drained(q) /\ \A f : LiveInv(q, f)
  <2>1. CASE o.ctx = NoInode
    <3>1. q = Resolve(o, path, "target")
      BY <2>1 DEF ResolveContextOrPath
    <3> HIDE DEF q
    <3>2. QED BY <1>3, <1>5, <3>1, ResolveInv
  <2>2. CASE o.ctx # NoInode
    <3> DEFINE inos == [o.ino EXCEPT !["target"] = o.ctx]
    <3>1. /\ inos \in [Purposes -> Inodes \cup {NoInode}]
          /\ inos["target"] = o.ctx /\ o.ctx \in Inodes
      BY <1>3, <2>2 DEF Ops, Purposes
    <3>2. q = [o EXCEPT !.pc = "targetKnown", !.ino = inos]
      BY <2>2 DEF ResolveContextOrPath
    <3> HIDE DEF inos, q
    <3>3. /\ q \in Ops /\ SameRequest(q, o) /\ q.pc = "targetKnown"
          /\ q.next = "idle" /\ q.walk = NoWalk /\ q.ino = inos
      BY <1>3, <3>1, <3>2 DEF Ops, SameRequest, PCs
    <3>4. InOrder(q) /\ WalkFits(q) /\ ReplyFits(q) /\ ~HoldsEntry(q)
      BY <1>5, <3>3 DEF InOrder, WalkFits, ReplyFits, HoldsEntry, SameRequest, WalkPCs
    <3>5. PathsFit(q) /\ InodesKnown(q)
      BY <1>5, <3>1, <3>3 DEF PathsFit, InodesKnown, SameRequest
    <3>6. ~Drained(q) /\ \A f : LiveInv(q, f)
      BY <1>5, <3>1, <3>3 DEF Drained, LiveInv, SameRequest
    <3>7. QED BY <3>3, <3>4, <3>5, <3>6 DEF OpInv
  <2>3. QED BY <2>1, <2>2
<1> HIDE DEF q
<1>7. QED BY <1>4, <1>6, BeginSound

\* create, delete and move resolve the parent of their path first.
LEMMA ResolveParentSound ==
  ASSUME IInv, NEW kind \in {"create", "delete", "move"}, NEW o \in Ops,
         o.kind = kind, o.next = "idle", o.walk = NoWalk,
         o.path # Root \/ kind = "create", o.dest # Root \/ kind # "move",
         NEW key \in Keys \cup {Root}, Begin(kind, Resolve(o, key, "parent"))
  PROVE  Sound
<1>1. /\ "parent" \in PurposesOf(o.kind) /\ ~OnFile(o.kind) /\ o.kind # "none"
      /\ o.kind \in {"delete", "move"} => o.path # Root
      /\ o.kind = "move" => o.dest # Root
  BY DEF PurposesOf, OnFile
<1> DEFINE q == Resolve(o, key, "parent")
<1>2. OpInv(q) /\ ~HoldsEntry(q) /\ ~Drained(q) /\ \A f : LiveInv(q, f)
  BY <1>1, ResolveInv
<1>3. Begin(kind, q)
  OBVIOUS
<1> HIDE DEF q
<1>4. QED BY <1>2, <1>3, BeginSound

\* The arrival of any request.
LEMMA ArrivalSound == ASSUME IInv, Arrival PROVE Sound
<1>1. ASSUME NEW path \in Keys, NEW kind \in Kinds, RequestOnFile(kind, path)
      PROVE  Sound
  BY <1>1, RequestOnFileSound
<1>2. ASSUME NEW path \in Keys, CreateFile(path) PROVE Sound
  <2>1. PICK plan \in {"open", "createNew", "createOrOpen"}, isDir \in BOOLEAN,
             key \in {Root, Parent(path)} :
          /\ Begin("create", Resolve([Request("create", path) EXCEPT
                                         !.plan = plan, !.isDir = isDir], key, "parent"))
          /\ path = Root => key = Root
    BY <1>2 DEF CreateFile
  <2> DEFINE b == Request("create", path)
             o == [b EXCEPT !.plan = plan, !.isDir = isDir]
  <2>2. b \in Ops /\ b.kind = "create" /\ b.next = "idle" /\ b.walk = NoWalk
    <3>1. "create" \in Kinds
      BY <2>1 DEF Begin
    <3>2. QED BY <3>1, RequestStarts
  <2>3. Begin("create", Resolve(o, key, "parent"))
    BY <2>1
  <2> HIDE DEF b
  <2>4. o \in Ops /\ o.kind = "create" /\ o.next = "idle" /\ o.walk = NoWalk
    BY <2>2 DEF Ops
  <2>5. key \in Keys \cup {Root}
    BY <2>1, WalkPaths
  <2> HIDE DEF o
  <2>6. QED BY <2>3, <2>4, <2>5, ResolveParentSound
<1>3. ASSUME NEW path \in Keys, CleanupDelete(path) PROVE Sound
  <2>1. PICK ctx \in Handles(path), isDir \in BOOLEAN :
          Begin("delete", Resolve([Request("delete", path) EXCEPT
                                      !.ctx = ctx, !.isDir = isDir],
                                  Parent(path), "parent"))
    BY <1>3 DEF CleanupDelete
  <2> DEFINE b == Request("delete", path)
             o == [b EXCEPT !.ctx = ctx, !.isDir = isDir]
  <2>2. /\ b \in Ops /\ b.kind = "delete" /\ b.next = "idle" /\ b.walk = NoWalk
        /\ b.path = path
    BY <2>1, RequestType DEF Begin
  <2>3. Begin("delete", Resolve(o, Parent(path), "parent"))
    BY <2>1
  <2> HIDE DEF b
  <2>4. /\ o \in Ops /\ o.kind = "delete" /\ o.next = "idle" /\ o.walk = NoWalk
        /\ o.path = path
    <3>1. ctx \in Inodes \cup {NoInode}
      BY HandlesType
    <3>2. QED BY <2>2, <3>1 DEF Ops
  <2>5. path # Root /\ Parent(path) \in Keys \cup {Root}
    BY <1>3, WalkPaths DEF CleanupDelete
  <2> HIDE DEF o
  <2>6. QED BY <2>3, <2>4, <2>5, ResolveParentSound
<1>4. ASSUME NEW path \in Keys, NEW dest \in Keys, MoveFile(path, dest) PROVE Sound
  <2>1. PICK ctx \in Handles(path), replace \in BOOLEAN :
          Begin("move", Resolve([Request("move", path) EXCEPT
                                    !.ctx = ctx, !.dest = dest, !.replace = replace],
                                Parent(path), "parent"))
    BY <1>4 DEF MoveFile
  <2> DEFINE b == Request("move", path)
             o == [b EXCEPT !.ctx = ctx, !.dest = dest, !.replace = replace]
  <2>2. /\ b \in Ops /\ b.kind = "move" /\ b.next = "idle" /\ b.walk = NoWalk
        /\ b.path = path
    BY <2>1, RequestType DEF Begin
  <2>3. Begin("move", Resolve(o, Parent(path), "parent"))
    BY <2>1
  <2> HIDE DEF b
  <2>4. /\ o \in Ops /\ o.kind = "move" /\ o.next = "idle" /\ o.walk = NoWalk
        /\ o.path = path /\ o.dest = dest
    <3>1. ctx \in Inodes \cup {NoInode}
      BY HandlesType
    <3>2. QED BY <2>2, <3>1 DEF Ops
  <2>5. path # Root /\ dest # Root /\ Parent(path) \in Keys \cup {Root}
    BY <1>4, WalkPaths DEF MoveFile
  <2> HIDE DEF o
  <2>6. QED BY <2>3, <2>4, <2>5, ResolveParentSound
<1>5. QED BY <1>1, <1>2, <1>3, <1>4 DEF Arrival

-----------------------------------------------------------------------------
(* The invariant *)

\* At the start nothing is cached, owed or held.
LEMMA InitInv == Init => IInv
<1> SUFFICES ASSUME Init PROVE IInv
  OBVIOUS
<1>1. PICK negativeTtl \in BOOLEAN : resolver = EmptyResolver(negativeTtl)
  BY DEF Init
<1>2. /\ ResolverInv(resolver) /\ resolver.pending = NoForgets
      /\ \A i \in Inodes : Refs(resolver, i) = {} /\ resolver.pending[i] = 0
  BY <1>1, EmptyResolverInv
<1>3. /\ fs \in FileSystems /\ fs.nlookup = NoForgets /\ op = IdleOp("drained")
      /\ notices = {} /\ overtaken = {} /\ lost = NoForgets
      /\ requests = MaxRequests /\ changes = MaxChanges
  BY AdapterAssumption DEF Init
<1>4. OpInv(op) /\ ~HoldsEntry(op) /\ LiveInv(op, fs)
  BY <1>3, IdleOpInv
<1>5. lost \in [Inodes -> Nat] /\ requests \in 0 .. MaxRequests /\ changes \in 0 .. MaxChanges
  BY <1>3, AdapterAssumption DEF NoForgets
<1>6. Typed
  BY <1>2, <1>3, <1>4, <1>5 DEF Typed
<1>7. LookupsBalance
  <2>1. ASSUME NEW i \in Inodes
        PROVE  fs.nlookup[i] = Cardinality(Refs(resolver, i)) + resolver.pending[i]
                                 + InReply(i) + lost[i]
    <3>1. fs.nlookup[i] = 0 /\ lost[i] = 0
      BY <1>3 DEF NoForgets
    <3>2. Cardinality(Refs(resolver, i)) = 0 /\ resolver.pending[i] = 0
      BY <1>2, FS_EmptySet
    <3>3. InReply(i) = 0
      BY <1>4 DEF InReply, HoldsEntry
    <3>4. QED BY <3>1, <3>2, <3>3
  <2>2. QED BY <2>1 DEF LookupsBalance
<1>8. DrainedInv(op, resolver)
  BY <1>2 DEF DrainedInv
<1>9. QED BY <1>4, <1>6, <1>7, <1>8 DEF IInv

\* Every step of a handler is sound.
LEMMA HandlerStepsSound == ASSUME IInv, HandlerStep PROVE Sound
<1>1. CASE \/ Reap \/ CachedComponent \/ LookupComponent
           \/ RememberComponent \/ RememberMissingComponent \/ Unresolved \/ Drain
  BY <1>1, ReapSound, CachedComponentSound, LookupComponentSound,
     RememberComponentSound, RememberMissingSound, UnresolvedSound, DrainSound
<1>2. CASE \/ CachedAttributes \/ GetAttributes \/ StoreAttributes
           \/ SetAttributes \/ FinishMutation \/ InvalidateParentAttr
           \/ InvalidateMutatedPath \/ FinishSetXattr \/ Access \/ Probe \/ ProbeAgain
  BY <1>2, CachedAttributesSound, GetAttributesSound, StoreAttributesSound,
     SetAttributesSound, FinishMutationSound, InvalidateParentAttrSound,
     InvalidateMutatedPathSound, FinishSetXattrSound, AccessSound, ProbeAgainSound
<1>3. CASE \/ OpenExisting \/ MakeEntry \/ FinishCreated \/ OpenCollision \/ OpenResolved
           \/ RemoveEntry \/ InvalidateRemovedPath \/ FinishRemoved
  BY <1>3, OpenExistingSound, MakeEntrySound, FinishCreatedSound, OpenCollisionSound,
     OpenResolvedSound, RemoveEntrySound, InvalidateRemovedPathSound, FinishRemovedSound
<1>4. CASE \/ ResolveNewParent \/ ResolveMoved \/ CheckClash \/ Clash \/ Rename
           \/ InvalidateMoved \/ InvalidateOldPath \/ InvalidateNewPath \/ FinishMoved
  BY <1>4, MoveWalksSound, ClashSound, RenameSound, InvalidateMovedSound,
     InvalidateMovedPathsSound, FinishMovedSound
<1>5. QED BY <1>1, <1>2, <1>3, <1>4 DEF HandlerStep

\* So is every step.
LEMMA NextSound == ASSUME IInv, Next PROVE Sound
<1>1. CASE Notifier
  <2>1. PICK n \in notices : Notify(n)
    BY <1>1 DEF Notifier
  <2>2. QED BY <2>1, InvalInodeSound, InvalEntrySound DEF Notify
<1>2. QED BY <1>1, ArrivalSound, HandlerStepsSound, FsStepSound, TimeSound DEF Next

\* A step that changes nothing.
LEMMA StutterInv == ASSUME IInv, UNCHANGED vars PROVE IInv'
<1>1. /\ resolver' = resolver /\ fs' = fs /\ op' = op /\ notices' = notices
      /\ lost' = lost /\ overtaken' = overtaken /\ requests' = requests
      /\ changes' = changes
  BY DEF vars
<1>2. Typed' /\ DrainedInv(op, resolver)' /\ LiveInv(op, fs)'
  BY <1>1 DEF IInv, Typed
<1>3. Quiet
  BY <1>1 DEF Quiet, Has, InReply
<1>4. QED BY <1>2, <1>3, SoundStep DEF Sound

\* IInv is an inductive invariant of the adapter.
THEOREM Invariance == Spec => []IInv
<1>1. IInv /\ [Next]_vars => IInv'
  BY NextSound, SoundStep, StutterInv
<1>2. QED BY InitInv, <1>1, PTL DEF Spec

-----------------------------------------------------------------------------
(* What follows *)

\* The lookups the file system counts are those the cache holds, those queued,
\* the one in the reply not remembered yet, and those the notifier dropped:
\* LookupsBalance, after every step of every interleaving of the handlers with
\* the notifier and with time (path_routes.rs:27-112, state.rs:164-236).
THEOREM BooksBalance == Spec => []LookupsBalance
<1>1. IInv => LookupsBalance
  BY DEF IInv
<1>2. QED BY Invariance, <1>1, PTL

\* A request that ends drained leaves no forget queued behind it: DrainedAtRest.
THEOREM RestIsDrained == Spec => []DrainedAtRest
<1>1. IInv => DrainedAtRest
  BY DEF IInv, DrainedInv, Drained, DrainedAtRest, AtRest, At
<1>2. QED BY Invariance, <1>1, PTL

\* An inode number that a walk resolved is still looked up when it is passed to
\* the callback after the walk: ResolvedInodesAreLive.
THEOREM ResolvedStayLive == Spec => []ResolvedInodesAreLive
<1>1. ASSUME IInv PROVE ResolvedInodesAreLive
  <2>1. LiveInv(op, fs)
    BY <1>1 DEF IInv
  <2>2. ASSUME NEW i, LiveIn(fs, i) PROVE Live(i)
    BY <2>2 DEF LiveIn, Live
  <2>3. CASE At("lookup")
    BY <2>1, <2>2, <2>3 DEF LiveInv, ResolvedInodesAreLive, CallbackInodes, At
  <2>4. CASE At("targetKnown") /\ op.kind \notin {"getattr", "move"}
    <3>1. op.ino["target"] = op.ctx \/ LiveIn(fs, op.ino["target"])
      BY <2>1, <2>4 DEF LiveInv, At
    <3>2. CallbackInodes = {op.ino["target"]} \ {op.ctx}
      BY <2>4 DEF CallbackInodes, At
    <3>3. QED BY <2>2, <3>1, <3>2 DEF ResolvedInodesAreLive
  <2>5. CASE At("call") /\ Is("getattr")
    <3>1. op.ino["target"] = op.ctx \/ LiveIn(fs, op.ino["target"])
      BY <2>1, <2>5 DEF LiveInv, At, Is
    <3>2. CallbackInodes = {op.ino["target"]} \ {op.ctx}
      BY <2>5 DEF CallbackInodes, At
    <3>3. QED BY <2>2, <3>1, <3>2 DEF ResolvedInodesAreLive
  <2>6. CASE At("parentKnown") /\ op.kind \in {"create", "delete"} /\ op.path # Root
    BY <2>1, <2>2, <2>6 DEF LiveInv, ResolvedInodesAreLive, CallbackInodes, At
  <2>7. CASE /\ ~At("lookup")
             /\ ~(At("targetKnown") /\ op.kind \notin {"getattr", "move"})
             /\ ~(At("call") /\ Is("getattr"))
             /\ ~(At("parentKnown") /\ op.kind \in {"create", "delete"} /\ op.path # Root)
    <3>1. CallbackInodes = {}
      BY <2>7 DEF CallbackInodes
    <3>2. QED BY <3>1 DEF ResolvedInodesAreLive
  <2>8. QED BY <2>3, <2>4, <2>5, <2>6, <2>7
<1>2. QED BY Invariance, <1>1, PTL

\* The variables stay in their types: TypeOK.
THEOREM TypeCorrect == Spec => []TypeOK
<1>1. IInv => TypeOK
  <2> SUFFICES ASSUME IInv PROVE TypeOK
    OBVIOUS
  <2>1. Typed /\ op \in Ops
    BY DEF IInv, Typed, OpInv
  <2>2. /\ op.pc \in PCs /\ op.kind \in Kinds \cup {"none"}
        /\ op.path \in Keys \cup {Root} /\ op.ctx \in Inodes \cup {NoInode}
        /\ op.ino \in [Purposes -> Inodes \cup {NoInode}]
    BY <2>1 DEF Ops
  <2>3. QED BY <2>1, <2>2 DEF TypeOK, Typed, ResolverInv
<1>2. QED BY Invariance, <1>1, PTL

-----------------------------------------------------------------------------
(* The ledger *)

\* What the ledger counts as held is what the adapter has.
HeldMap ==
  [i \in Inodes |-> Cardinality(Refs(resolver, i)) + resolver.pending[i] + InReply(i)]

LEMMA HeldIsHas ==
  /\ HeldMap = [i \in Inodes |-> Has(i)]
  /\ HeldMap' = [i \in Inodes |-> Has(i)']
<1>1. \A i \in Inodes :
         Cardinality(Refs(resolver, i)) + resolver.pending[i] + InReply(i) = Has(i)
  BY DEF Has, Owed
<1>2. \A i \in Inodes :
         Cardinality(Refs(resolver', i)) + resolver'.pending[i] + InReply(i)' = Has(i)'
  BY DEF Has, Owed
<1>3. QED BY <1>1, <1>2 DEF HeldMap

\* A step of the adapter is a step of the ledger or changes nothing of it, and
\* without the notifier's discarding it grants or returns.
LEMMA LedgerMoves ==
  ASSUME IInv, IInv', Sound
  PROVE  /\ [Ledger!Next]_<<fs.nlookup, HeldMap>>
         /\ lost' = lost =>
              [(\E i \in Inodes : Ledger!Grant(i)) \/ Ledger!Return]_<<fs.nlookup, HeldMap>>
<1>1. /\ HeldMap = [i \in Inodes |-> Has(i)] /\ HeldMap' = [i \in Inodes |-> Has(i)']
      /\ \A i \in Inodes : Has(i) \in Nat /\ Has(i)' \in Nat
      /\ fs.nlookup \in [Inodes -> Int] /\ lost \in [Inodes -> Nat]
  BY HeldIsHas, HasType, HasTypeNext DEF IInv, Typed, FileSystems
<1> DEFINE strict == (\E i \in Inodes : Ledger!Grant(i)) \/ Ledger!Return
<1>2. CASE Quiet
  BY <1>1, <1>2 DEF Quiet
<1>3. CASE Granting
  <2>1. PICK j \in Inodes :
          /\ Has(j)' = Has(j) + 1
          /\ \A i \in Inodes \ {j} : Has(i)' = Has(i)
          /\ fs'.nlookup = [fs.nlookup EXCEPT ![j] = @ + 1]
    BY <1>3 DEF Granting
  <2>2. HeldMap' = [HeldMap EXCEPT ![j] = @ + 1]
    BY <1>1, <2>1
  <2>3. Ledger!Grant(j)
    BY <2>1, <2>2 DEF Ledger!Grant, HeldMap
  <2>4. QED BY <2>3 DEF Ledger!Next
<1>4. CASE Returning
  <2>1. PICK g \in [Inodes -> Nat] :
          /\ \A i \in Inodes : Has(i)' = Has(i) - g[i]
          /\ fs'.nlookup = [i \in Inodes |-> fs.nlookup[i] - g[i]]
    BY <1>4 DEF Returning
  <2>2. \A i \in Inodes : /\ HeldMap'[i] \in Int /\ 0 <= HeldMap'[i]
                          /\ HeldMap'[i] <= HeldMap[i]
                          /\ HeldMap[i] - HeldMap'[i] = g[i]
    BY <1>1, <2>1
  <2>3. HeldMap' = [i \in Inodes |-> HeldMap'[i]]
    BY <1>1
  <2>4. fs'.nlookup = [i \in Inodes |-> fs.nlookup[i] - (HeldMap[i] - HeldMap'[i])]
    BY <2>1, <2>2
  <2>5. Ledger!Return
    BY <2>2, <2>3, <2>4 DEF Ledger!Return, Ledger!GiveUp, HeldMap
  <2>6. QED BY <2>5 DEF Ledger!Next
<1>5. CASE Discarding
  <2>1. PICK g \in [Inodes -> Nat] :
          /\ \A i \in Inodes : Has(i)' = Has(i) - g[i]
          /\ fs'.nlookup = fs.nlookup /\ lost' = [i \in Inodes |-> lost[i] + g[i]]
    BY <1>5 DEF Discarding
  <2>2. \A i \in Inodes : /\ HeldMap'[i] \in Int /\ 0 <= HeldMap'[i]
                          /\ HeldMap'[i] <= HeldMap[i]
    BY <1>1, <2>1
  <2>3. HeldMap' = [i \in Inodes |-> HeldMap'[i]]
    BY <1>1
  <2>4. Ledger!Discard
    BY <2>1, <2>2, <2>3 DEF Ledger!Discard, Ledger!GiveUp, HeldMap
  <2>5. ASSUME lost' = lost PROVE UNCHANGED <<fs.nlookup, HeldMap>>
    <3>1. \A i \in Inodes : g[i] = 0
      BY <1>1, <2>1, <2>5
    <3>2. \A i \in Inodes : Has(i)' = Has(i)
      BY <1>1, <2>1, <3>1
    <3>3. QED BY <1>1, <2>1, <3>2
  <2>6. QED BY <2>4, <2>5 DEF Ledger!Next
<1>6. QED BY <1>2, <1>3, <1>4, <1>5 DEF Sound

\* The adapter implements the ledger of lookups: AdapterKeepsLedger.
THEOREM AdapterImplementsLedger == Spec => AdapterKeepsLedger
<1>1. Init => Ledger!Init
  <2> SUFFICES ASSUME Init PROVE Ledger!Init
    OBVIOUS
  <2>1. IInv
    BY InitInv
  <2>2. fs.nlookup = NoForgets /\ lost = NoForgets
    BY AdapterAssumption DEF Init
  <2>3. \A i \in Inodes : Has(i) = 0
    <3>1. Typed /\ \A i \in Inodes : fs.nlookup[i] = Has(i) + lost[i] /\ Has(i) \in Nat
      BY <2>1, Balance, HasType DEF IInv
    <3>2. QED BY <2>2, <3>1 DEF NoForgets
  <2>4. HeldMap = [i \in Inodes |-> 0]
    BY <2>3, HeldIsHas
  <2>5. QED BY <2>2, <2>4 DEF Ledger!Init, NoForgets, HeldMap
<1>2. IInv /\ IInv' /\ [Next]_vars => [Ledger!Next]_<<fs.nlookup, HeldMap>>
  <2> SUFFICES ASSUME IInv, IInv', [Next]_vars
               PROVE  [Ledger!Next]_<<fs.nlookup, HeldMap>>
    OBVIOUS
  <2>1. CASE Next
    BY <2>1, NextSound, LedgerMoves
  <2>2. CASE UNCHANGED vars
    <3>1. resolver' = resolver /\ fs' = fs /\ op' = op
      BY <2>2 DEF vars
    <3>2. QED BY <3>1 DEF HeldMap, InReply
  <2>3. QED BY <2>1, <2>2
<1>3. QED BY <1>1, <1>2, Invariance, PTL
          DEF Spec, AdapterKeepsLedger, Ledger!Spec, HeldMap

-----------------------------------------------------------------------------
(* Who discards *)

\* The steps that are not the notifier's drop no lookup.
LEMMA OthersLoseNothing ==
  ASSUME Next, ~Notifier
  PROVE  lost' = lost
<1>1. CASE Arrival
  BY <1>1 DEF Arrival, RequestOnFile, CreateFile, CleanupDelete, MoveFile, Begin
<1>2. CASE \/ Reap \/ CachedComponent \/ LookupComponent
           \/ RememberComponent \/ RememberMissingComponent \/ Unresolved \/ Drain
  BY <1>2 DEF Reap, CachedComponent, LookupComponent, RememberComponent,
     RememberMissingComponent, Unresolved, Drain, Record, environment
<1>3. CASE \/ CachedAttributes \/ GetAttributes \/ StoreAttributes
           \/ SetAttributes \/ FinishMutation \/ InvalidateParentAttr
           \/ InvalidateMutatedPath \/ FinishSetXattr \/ Access \/ Probe \/ ProbeAgain
  BY <1>3 DEF CachedAttributes, GetAttributes, StoreAttributes, SetAttributes,
     FinishMutation, InvalidateParentAttr, InvalidateMutatedPath, FinishSetXattr,
     Access, Probe, ProbeAgain, InvalidatePathCache, environment
<1>4. CASE \/ OpenExisting \/ MakeEntry \/ FinishCreated \/ OpenCollision \/ OpenResolved
           \/ RemoveEntry \/ InvalidateRemovedPath \/ FinishRemoved
  BY <1>4 DEF OpenExisting, MakeEntry, FinishCreated, OpenCollision, OpenResolved,
     RemoveEntry, InvalidateRemovedPath, FinishRemoved, InvalidatePathCache,
     Record, environment
<1>5. CASE \/ ResolveNewParent \/ ResolveMoved \/ CheckClash \/ Clash \/ Rename
           \/ InvalidateMoved \/ InvalidateOldPath \/ InvalidateNewPath \/ FinishMoved
  BY <1>5 DEF ResolveNewParent, ResolveMoved, CheckClash, Clash, Rename,
     InvalidateMoved, InvalidateOldPath, InvalidateNewPath, FinishMoved,
     InvalidatePathCache, environment
<1>6. CASE FsStep
  <2>1. ASSUME NEW f, NEW due, Change(f, due) PROVE lost' = lost
    BY <2>1 DEF Change
  <2>2. ASSUME NEW i, FsTouches(i) PROVE lost' = lost
    BY <2>1, <2>2 DEF FsTouches
  <2>3. ASSUME NEW dir, NEW name, NEW i, FsMakes(dir, name, i) PROVE lost' = lost
    BY <2>1, <2>3 DEF FsMakes
  <2>4. ASSUME NEW dir, NEW name, FsRemoves(dir, name) PROVE lost' = lost
    BY <2>1, <2>4 DEF FsRemoves
  <2>5. ASSUME NEW dir, NEW name, NEW newDir, NEW newName, FsMoves(dir, name, newDir, newName)
        PROVE  lost' = lost
    BY <2>1, <2>5 DEF FsMoves
  <2>6. QED BY <1>6, <2>2, <2>3, <2>4, <2>5 DEF FsStep
<1>7. CASE Time
  BY <1>7 DEF Time, EntryExpires, AttrExpires, environment
<1>8. QED BY <1>1, <1>2, <1>3, <1>4, <1>5, <1>6, <1>7 DEF Next, HandlerStep

\* Only a notification discards lookups: OnlyNotifierDiscards.
THEOREM HandlersDiscardNothing == Spec => OnlyNotifierDiscards
<1>1. IInv /\ IInv' /\ [Next]_vars =>
        [Notifier \/ (\E i \in Inodes : Ledger!Grant(i)) \/ Ledger!Return]_<<
           fs.nlookup, HeldMap>>
  <2> SUFFICES ASSUME IInv, IInv', [Next]_vars, ~Notifier
               PROVE  [(\E i \in Inodes : Ledger!Grant(i)) \/ Ledger!Return]_<<
                         fs.nlookup, HeldMap>>
    OBVIOUS
  <2>1. CASE Next
    BY <2>1, NextSound, LedgerMoves, OthersLoseNothing
  <2>2. CASE UNCHANGED vars
    <3>1. resolver' = resolver /\ fs' = fs /\ op' = op
      BY <2>2 DEF vars
    <3>2. QED BY <3>1 DEF HeldMap, InReply
  <2>3. QED BY <2>1, <2>2
<1>2. QED BY <1>1, Invariance, PTL DEF Spec, OnlyNotifierDiscards, HeldMap

=============================================================================
