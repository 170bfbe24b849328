------------------------ MODULE AdapterCoherence_proofs ------------------------
(***************************************************************************)
(* Proofs that what the adapter caches is coherent: AttributesInv and      *)
(* NamesInv are inductive under IInv, which DokanAdapter_proofs proves,    *)
(* and ArrivalInv under both, as long as only the adapter changes files.   *)
(*                                                                         *)
(* For the names: how an entry survives a step (EntryStays), how what the  *)
(* handler knows does (HandlerLater), then one lemma per action.  Most     *)
(* actions are one of four: they only take from the cache, they end a      *)
(* walk, they change the file system, or they wait while others act.       *)
(* The last part, that requests come to an end, is about DokanAdapter and  *)
(* stands here because it uses the lemmas about the fields of a handler.   *)
(***************************************************************************)
EXTENDS AdapterCoherence, DokanAdapter_proofs

-----------------------------------------------------------------------------
(* The fields of a handler that moves on *)

LEMMA KnownPCs ==
  ASSUME NEW p \in Purposes
  PROVE  /\ Known(p) \in {"parentKnown", "destParentKnown", "targetKnown", "clashKnown",
                          "mtimeKnown"}
         /\ Known(p) \notin WalkPCs
BY DEF Purposes, Known, WalkPCs

LEMMA ResolveFields ==
  ASSUME NEW o \in Ops, NEW key, NEW p \in Purposes
  PROVE  LET q == Resolve(o, key, p) IN
         /\ SameRequest(q, o) /\ q.next = o.next /\ q.reply = o.reply /\ q.late = o.late
         /\ key = Root =>
              /\ q.pc = Known(p) /\ q.walk = o.walk /\ q.ino[p] = RootIno
              /\ \A s \in Purposes \ {p} : q.ino[s] = o.ino[s]
         /\ key # Root =>
              /\ q.pc = "reap" /\ q.ino = o.ino /\ q.walk.key = key /\ q.walk.at = 0
              /\ q.walk.ino = RootIno /\ q.walk.gen = 0 /\ q.walk.into = p
<1> DEFINE q == Resolve(o, key, p)
<1>1. CASE key = Root
  <2> DEFINE inos == [o.ino EXCEPT ![p] = RootIno]
  <2>1. q = [o EXCEPT !.pc = Known(p), !.ino = inos]
    BY <1>1 DEF Resolve
  <2>2. inos[p] = RootIno /\ \A s \in Purposes \ {p} : inos[s] = o.ino[s]
    BY DEF Ops
  <2> HIDE DEF inos
  <2>3. /\ SameRequest(q, o) /\ q.next = o.next /\ q.reply = o.reply /\ q.late = o.late
        /\ q.pc = Known(p) /\ q.walk = o.walk /\ q.ino = inos
    BY <2>1 DEF Ops, SameRequest
  <2>4. QED BY <1>1, <2>2, <2>3
<1>2. CASE key # Root
  <2> DEFINE w == [NoWalk EXCEPT !.key = key, !.into = p]
  <2>1. q = [o EXCEPT !.pc = "reap", !.walk = w]
    BY <1>2 DEF Resolve
  <2>2. w.key = key /\ w.at = 0 /\ w.ino = RootIno /\ w.gen = 0 /\ w.into = p
    BY DEF NoWalk
  <2> HIDE DEF w
  <2>3. /\ SameRequest(q, o) /\ q.next = o.next /\ q.reply = o.reply /\ q.late = o.late
        /\ q.pc = "reap" /\ q.walk = w /\ q.ino = o.ino
    BY <2>1 DEF Ops, SameRequest
  <2>4. QED BY <1>2, <2>2, <2>3
<1>3. QED BY <1>1, <1>2

\* The last component of a walk ...
LEMMA AdvanceEnds ==
  ASSUME NEW o \in Ops, NEW i, NEW gen, o.walk.at + 1 = Len(o.walk.key)
  PROVE  LET q == Advance(o, i, gen)
             p == o.walk.into IN
         /\ SameRequest(q, o) /\ q.next = o.next /\ q.late = FALSE
         /\ q.pc = Known(p) /\ q.walk = NoWalk /\ q.ino[p] = i
         /\ \A s \in Purposes \ {p} : q.ino[s] = o.ino[s]
<1> DEFINE q == Advance(o, i, gen)
           p == o.walk.into
           w == [o.walk EXCEPT !.at = @ + 1, !.ino = i, !.gen = gen]
           inos == [o.ino EXCEPT ![p] = i]
<1>1. o.walk \in WalkTypes /\ p \in Purposes
  BY DEF Ops, WalkTypes
<1>2. w.key = o.walk.key /\ w.at = Len(w.key) /\ w.into = p
  BY <1>1 DEF WalkTypes
<1>3. q = IF w.at = Len(w.key)
            THEN [o EXCEPT !.walk = NoWalk, !.reply = NoReply, !.late = FALSE,
                           !.pc = Known(w.into), !.ino[w.into] = i]
            ELSE [o EXCEPT !.walk = w, !.reply = NoReply, !.late = FALSE,
                           !.pc = "cached"]
  BY DEF Advance
<1>4. inos[p] = i /\ \A s \in Purposes \ {p} : inos[s] = o.ino[s]
  BY <1>1 DEF Ops
<1> HIDE DEF w
<1>5. q = [o EXCEPT !.walk = NoWalk, !.reply = NoReply, !.late = FALSE,
                    !.pc = Known(p), !.ino = inos]
  BY <1>2, <1>3
<1> HIDE DEF inos
<1>6. /\ SameRequest(q, o) /\ q.next = o.next /\ q.late = FALSE
      /\ q.pc = Known(p) /\ q.walk = NoWalk /\ q.ino = inos
  BY <1>5 DEF Ops, SameRequest
<1>7. QED BY <1>4, <1>6

\* ... and any other one.
LEMMA AdvanceGoesOn ==
  ASSUME NEW o \in Ops, NEW i, NEW gen, o.walk.at + 1 # Len(o.walk.key)
  PROVE  LET q == Advance(o, i, gen) IN
         /\ SameRequest(q, o) /\ q.next = o.next /\ q.late = FALSE
         /\ q.pc = "cached" /\ q.ino = o.ino /\ q.walk.key = o.walk.key
         /\ q.walk.at = o.walk.at + 1 /\ q.walk.ino = i /\ q.walk.gen = gen
         /\ q.walk.into = o.walk.into
<1> DEFINE q == Advance(o, i, gen)
           w == [o.walk EXCEPT !.at = @ + 1, !.ino = i, !.gen = gen]
<1>1. o.walk \in WalkTypes
  BY DEF Ops
<1>2. /\ w.key = o.walk.key /\ w.at = o.walk.at + 1 /\ w.ino = i /\ w.gen = gen
      /\ w.into = o.walk.into
  BY <1>1 DEF WalkTypes
<1>3. q = IF w.at = Len(w.key)
            THEN [o EXCEPT !.walk = NoWalk, !.reply = NoReply, !.late = FALSE,
                           !.pc = Known(w.into), !.ino[w.into] = i]
            ELSE [o EXCEPT !.walk = w, !.reply = NoReply, !.late = FALSE,
                           !.pc = "cached"]
  BY DEF Advance
<1>4. w.at # Len(w.key)
  BY <1>2
<1> HIDE DEF w
<1>5. q = [o EXCEPT !.walk = w, !.reply = NoReply, !.late = FALSE, !.pc = "cached"]
  BY <1>3, <1>4
<1>6. /\ SameRequest(q, o) /\ q.next = o.next /\ q.late = FALSE
      /\ q.pc = "cached" /\ q.walk = w /\ q.ino = o.ino
  BY <1>5 DEF Ops, SameRequest
<1>7. QED BY <1>2, <1>6

\* A walk that failed.
LEMMA UnresolvedFields ==
  ASSUME OpInv(op), Unresolved
  PROVE  \/ op' = IdleOp("drained")
         \/ /\ SameRequest(op', op) /\ op'.ino = op.ino /\ op'.late = op.late
            /\ op'.next = "idle" /\ op'.walk = NoWalk
            /\ \/ op.kind = "setattr" /\ op.walk.into = "mtime" /\ op'.pc = "forgetPath"
               \/ op.kind = "move" /\ op.walk.into = "target" /\ op'.pc = "targetKnown"
               \/ op.kind = "move" /\ op.walk.into = "clash" /\ op'.pc = "call"
<1>1. op.pc = "unresolved" /\ op.next = "idle" /\ op \in Ops
  BY DEF Unresolved, At, OpInv, InOrder
<1>2. \/ WhenUnresolved(op) = IdleOp("drained")
      \/ \E pc :
           /\ WhenUnresolved(op) = [op EXCEPT !.pc = pc]
           /\ \/ op.kind = "setattr" /\ op.walk.into = "mtime" /\ pc = "forgetPath"
              \/ op.kind = "move" /\ op.walk.into = "target" /\ pc = "targetKnown"
              \/ op.kind = "move" /\ op.walk.into = "clash" /\ pc = "call"
  BY DEF WhenUnresolved, Goto
<1>3. CASE WhenUnresolved(op) = IdleOp("drained")
  <2>1. op' = [IdleOp("drained") EXCEPT !.walk = NoWalk, !.reply = NoReply]
    BY <1>3 DEF Unresolved
  <2>2. QED BY <2>1 DEF IdleOp
<1>4. ASSUME NEW pc, WhenUnresolved(op) = [op EXCEPT !.pc = pc]
      PROVE  /\ SameRequest(op', op) /\ op'.ino = op.ino /\ op'.late = op.late
             /\ op'.next = "idle" /\ op'.walk = NoWalk /\ op'.pc = pc
  <2>1. op' = [[op EXCEPT !.pc = pc] EXCEPT !.walk = NoWalk, !.reply = NoReply]
    BY <1>4 DEF Unresolved
  <2>2. QED BY <1>1, <2>1 DEF Ops, SameRequest
<1>5. QED BY <1>2, <1>3, <1>4

\* A handler that goes to another step, or that drains first.
LEMMA GotoFields ==
  ASSUME NEW o \in Ops, NEW pc, NEW next
  PROVE  /\ LET q == Goto(o, pc) IN
            /\ SameRequest(q, o) /\ q.ino = o.ino /\ q.late = o.late /\ q.next = o.next
            /\ q.walk = o.walk /\ q.reply = o.reply /\ q.pc = pc
         /\ LET q == DrainTo(o, next) IN
            /\ SameRequest(q, o) /\ q.ino = o.ino /\ q.late = o.late /\ q.next = next
            /\ q.walk = o.walk /\ q.reply = o.reply /\ q.pc = "drain"
BY DEF Goto, DrainTo, Ops, SameRequest

-----------------------------------------------------------------------------
(* Attributes.  A step loses attributes, or changes those of inodes that   *)
(* the handler answers for or that the file system announces.              *)

AttrsFewer(q, r) ==
  \A i \in Inodes : q.inodes[i].attr \in Attrs => q.inodes[i].attr = r.inodes[i].attr
SameFiles(g, f) == g.tree = f.tree /\ g.gen = f.gen /\ g.attr = f.attr
Storing(o) == "store" \in {o.pc, o.next}

LEMMA FewerAttrs ==
  ASSUME NEW q, NEW r, Fewer(q, r)
  PROVE  AttrsFewer(q, r)
BY DEF Fewer, TableFewer, AttrsFewer

\* The shape of the tree depends on the names and on the root's generation.
LEMMA SameFilesTree ==
  ASSUME NEW f, NEW g, SameFiles(g, f)
  PROVE  /\ IsTree(g) <=> IsTree(f)
         /\ \A i : Linked(g, i) <=> Linked(f, i)
BY DEF SameFiles, IsTree, Linked, Named

\* The steps that change no file: what the handler answered for, it still does,
\* or the attributes are gone.
LEMMA AttrStep ==
  ASSUME AttributesInv, AttrsFewer(resolver', resolver), SameFiles(fs', fs),
         notices' = notices, \A i \in Inodes : i \in overtaken => i \in overtaken',
         \A i \in ChangedInodes(op) \cap Inodes :
           i \in ChangedInodes(op') \/ resolver'.inodes[i].attr \notin Attrs,
         Storing(op') => /\ Storing(op) /\ op'.late = op.late
                         /\ op'.reply = op.reply /\ op'.ino = op.ino
  PROVE  AttributesInv'
<1>1. IsTree(fs') /\ \A i : Linked(fs', i) <=> Linked(fs, i)
  BY SameFilesTree DEF AttributesInv
<1>2. fs'.attr = fs.attr
  BY DEF SameFiles
<1>3. ASSUME NEW i \in Inodes, i \notin overtaken' \cup ChangedInodes(op'),
             resolver'.inodes[i].attr \in Attrs, Linked(fs', i)
      PROVE  resolver'.inodes[i].attr = fs'.attr[i] \/ AnnouncedAttr(notices', i)
  <2>1. i \notin overtaken \cup ChangedInodes(op)
    BY <1>3
  <2>2. resolver.inodes[i].attr \in Attrs /\ resolver'.inodes[i].attr = resolver.inodes[i].attr
    BY <1>3 DEF AttrsFewer
  <2>3. resolver.inodes[i].attr = fs.attr[i] \/ AnnouncedAttr(notices, i)
    BY <1>1, <1>3, <2>1, <2>2 DEF AttributesInv
  <2>4. QED BY <1>2, <2>2, <2>3
<1>4. ASSUME Storing(op')
      PROVE  \/ op'.late \/ op'.reply.attr = fs'.attr[op'.ino["target"]]
             \/ AnnouncedAttr(notices', op'.ino["target"])
  BY <1>2, <1>4 DEF AttributesInv, Storing
<1>5. QED BY <1>1, <1>3, <1>4 DEF AttributesInv, Storing

\* A handler that has changed nothing yet, or has dropped what it changed.
Settled(o) ==
  {o.pc, o.next} \cap {"mutated", "created", "forgetPath", "touched", "renamed",
                       "forgetDest"} = {}

LEMMA SettledChangedNothing ==
  ASSUME NEW o, Settled(o) \/ o.kind \notin {"setattr", "setxattr", "create", "delete", "move"}
  PROVE  ChangedInodes(o) = {}
BY DEF Settled, ChangedInodes

LEMMA WalkSettled ==
  ASSUME OpInv(op), op.pc \in WalkPCs
  PROVE  Settled(op) /\ ~Storing(op) /\ op.next = "idle" /\ op \in Ops
BY DEF OpInv, InOrder, WalkPCs, Settled, Storing

LEMMA DeliverFields ==
  ASSUME ResolverInv(resolver), fs \in FileSystems, NEW r, ResolverInv(r), Fewer(r, resolver),
         Deliver(r, fs)
  PROVE  Fewer(resolver', resolver) /\ SameFiles(fs', fs) /\ resolver'.paths = r.paths
         /\ resolver'.inodes = r.inodes
<1>1. /\ Taken(r).paths = r.paths /\ Taken(r).inodes = r.inodes
      /\ r.pending \in [Inodes -> Nat]
  BY DEF ResolverInv, Resolver, Taken
<1>2. RootIno \in Inodes
  BY FileTreeAssumption
<1>3. SameFiles(Forgot(fs, r.pending), fs)
  BY <1>1, <1>2, LookupFields DEF SameFiles
<1>4. Fewer(Taken(r), r)
  BY <1>1, FewerSame
<1>5. QED BY <1>1, <1>3, <1>4, FewerTrans DEF Deliver

\* An idle handler.
LEMMA IdleSettled ==
  ASSUME NEW outcome
  PROVE  LET q == IdleOp(outcome) IN
         Settled(q) /\ ~Storing(q) /\ q.pc = "idle" /\ q.next = "idle" /\ q.late = FALSE
BY DEF IdleOp, Settled, Storing

\* What an answer from the cache says is what the entry it comes from says.
LEMMA AnswerIs ==
  ASSUME NEW r, NEW k, NEW d, NEW gen, k # Root,
         NEW e \in PathEntry, e = r.paths[k],
         NEW answer, answer = CachedAnswer(r, k, d, gen), answer.found # "miss"
  PROVE  /\ IsPresent(e) /\ e.live /\ e.parent = d /\ e.parentGen = gen
         /\ IF answer.found = "hit"
              THEN IsPositive(e) /\ answer.ino = e.ino /\ answer.gen = e.gen
              ELSE ~IsPositive(e)
<1> DEFINE tracked == r.inodes[e.ino].tracked
<1>1. CASE e.kind = "positive"
  <2>1. IsPresent(e) /\ IsPositive(e)
    BY <1>1 DEF IsPresent, IsPositive
  <2>2. answer = IF e.live /\ Matches(e, d, gen) /\ tracked
                   THEN [found |-> "hit", ino |-> e.ino, gen |-> e.gen]
                   ELSE [found |-> "miss"]
    BY <1>1, <2>1 DEF CachedAnswer
  <2> HIDE DEF tracked
  <2>3. e.live /\ Matches(e, d, gen) /\ answer = [found |-> "hit", ino |-> e.ino, gen |-> e.gen]
    BY <2>2
  <2>4. answer.found = "hit" /\ answer.ino = e.ino /\ answer.gen = e.gen
    BY <2>3
  <2>5. QED BY <2>1, <2>3, <2>4 DEF Matches
<1>2. CASE e.kind = "negative"
  <2>1. IsPresent(e) /\ ~IsPositive(e)
    BY <1>2 DEF IsPresent, IsPositive
  <2>2. answer = IF e.live /\ Matches(e, d, gen) THEN [found |-> "ENOENT"]
                                                ELSE [found |-> "miss"]
    BY <1>2, <2>1 DEF CachedAnswer
  <2>3. e.live /\ Matches(e, d, gen) /\ answer.found = "ENOENT"
    BY <2>2
  <2>4. QED BY <2>1, <2>3 DEF Matches
<1>3. CASE ~IsPresent(e)
  <2>1. answer = [found |-> "miss"]
    BY <1>3 DEF CachedAnswer, IsPresent
  <2>2. QED BY <2>1
<1>4. e.kind \in {"positive", "negative", "absent"}
  BY DEF PathEntry, PositiveEntry, NegativeEntry, Absent
<1>5. QED BY <1>1, <1>2, <1>3, <1>4 DEF IsPresent

LEMMA AdvancePcs ==
  ASSUME NEW o \in Ops, NEW i, NEW gen
  PROVE  LET q == Advance(o, i, gen) IN
         /\ q.pc \in {Known(o.walk.into), "cached"} /\ q.next = o.next /\ q.late = FALSE
         /\ q.kind = o.kind
<1> DEFINE w == [o.walk EXCEPT !.at = @ + 1, !.ino = i, !.gen = gen]
           inos == [o.ino EXCEPT ![o.walk.into] = i]
<1>1. w.into = o.walk.into
  BY DEF Ops, WalkTypes
<1>2. Advance(o, i, gen) =
        IF w.at = Len(w.key)
            THEN [o EXCEPT !.walk = NoWalk, !.reply = NoReply, !.late = FALSE,
                           !.pc = Known(w.into), !.ino[w.into] = i]
            ELSE [o EXCEPT !.walk = w, !.reply = NoReply, !.late = FALSE,
                           !.pc = "cached"]
  BY DEF Advance
<1> HIDE DEF w
<1>3. Advance(o, i, gen) =
        IF w.at = Len(w.key)
            THEN [o EXCEPT !.walk = NoWalk, !.reply = NoReply, !.late = FALSE,
                           !.pc = Known(o.walk.into), !.ino = inos]
            ELSE [o EXCEPT !.walk = w, !.reply = NoReply, !.late = FALSE,
                           !.pc = "cached"]
  BY <1>1, <1>2
<1> HIDE DEF inos
<1>4. QED BY <1>3 DEF Ops

LEMMA AdvanceStores ==
  ASSUME NEW o \in Ops, o.next = "idle", NEW i, NEW gen
  PROVE  ~Storing(Advance(o, i, gen))
<1>1. o.walk.into \in Purposes
  BY DEF Ops, WalkTypes
<1>2. Known(o.walk.into) # "store"
  BY <1>1, KnownPCs
<1>3. QED BY <1>2, AdvancePcs DEF Storing

\* The walks.
LEMMA WalkAttributes ==
  ASSUME IInv, AttributesInv,
         \/ Reap \/ CachedComponent \/ LookupComponent
         \/ RememberComponent \/ RememberMissingComponent \/ Unresolved
  PROVE  AttributesInv'
<1>1. /\ OpInv(op) /\ ResolverInv(resolver) /\ resolver \in Resolver /\ fs \in FileSystems
      /\ op.pc \in WalkPCs
  BY DEF IInv, Typed, ResolverInv, Reap, CachedComponent, LookupComponent,
         RememberComponent, RememberMissingComponent, Unresolved, At, WalkPCs
<1>2. /\ ChangedInodes(op) = {} /\ op \in Ops /\ op.next = "idle"
      /\ Component \in Keys /\ op.walk.into \in Purposes
  <2>1. op.walk.into \in Purposes
    BY <1>1 DEF OpInv, Ops, WalkTypes
  <2>2. QED BY <1>1, <2>1, WalkSettled, SettledChangedNothing, ComponentFits
<1>3. Keys \cap Inodes = {}
  BY AdapterAssumption
<1> DEFINE Step == /\ AttrsFewer(resolver', resolver) /\ SameFiles(fs', fs)
                   /\ notices' = notices /\ \A i \in Inodes : i \in overtaken => i \in overtaken'
                   /\ ~Storing(op')
<1>4. ASSUME Step PROVE AttributesInv'
  BY <1>2, <1>4, AttrStep
<1> HIDE DEF Step
<1>5. CASE Reap
  <2>1. ResolverInv(ReapExpired(resolver)) /\ Fewer(ReapExpired(resolver), resolver)
    <3>1. \E k : k \in Keys
      BY <1>2
    <3>2. QED BY <1>1, <1>2, ReapExpiredInv, LookFewer
  <2>2. Fewer(resolver', resolver) /\ SameFiles(fs', fs)
    BY <1>1, <1>5, <2>1, DeliverFields DEF Reap
  <2>3. ~Storing(op')
    BY <1>2, <1>5, GotoFields DEF Reap, Storing
  <2>4. QED BY <1>4, <1>5, <2>2, <2>3, FewerAttrs DEF Reap, environment, Step
<1>6. CASE CachedComponent
  <2>1. Fewer(resolver', resolver)
    BY <1>1, <1>2, <1>6, LookFewer DEF CachedComponent
  <2>2. ~Storing(op')
    <3>1. CASE \E i, gen : op' = Advance(op, i, gen)
      BY <1>2, <3>1, AdvanceStores
    <3>2. CASE op' = Goto(op, "lookup")
      BY <1>2, <3>2, GotoFields DEF Storing
    <3>3. CASE op' = [op EXCEPT !.pc = "unresolved", !.reply = Error("ENOENT")]
      BY <1>2, <3>3 DEF Storing, Ops
    <3>4. QED BY <1>6, <3>1, <3>2, <3>3 DEF CachedComponent
  <2>3. SameFiles(fs', fs)
    BY <1>6 DEF CachedComponent, SameFiles
  <2>4. QED BY <1>4, <1>6, <2>1, <2>2, <2>3, FewerAttrs DEF CachedComponent, environment, Step
<1>7. CASE LookupComponent
  <2>1. AttrsFewer(resolver', resolver)
    BY <1>7 DEF LookupComponent, AttrsFewer
  <2>2. ~Storing(op')
    BY <1>2, <1>7 DEF LookupComponent, Storing, Ops
  <2>3. SameFiles(fs', fs)
    <3>1. CASE fs' = fs
      BY <3>1 DEF SameFiles
    <3>2. CASE \E i : i # NoInode /\ i \in Inodes \cup {NoInode} /\ fs' = Granted(fs, i)
      <4>1. NoForgets \in [Inodes -> Nat]
        BY DEF NoForgets
      <4>2. PICK i \in Inodes : fs' = Granted(fs, i)
        BY <3>2
      <4>3. QED BY <1>1, <4>1, <4>2, LookupFields DEF SameFiles
    <3>3. QED
      <4>1. Leaf(Component) \in Names
        BY <1>1, ComponentFits
      <4>2. \A d \in Dirs : fs.tree[<<d, Leaf(Component)>>] \in Inodes \cup {NoInode}
        BY <1>1, <4>1 DEF FileSystems
      <4>3. QED BY <1>7, <3>1, <3>2, <4>2 DEF LookupComponent
  <2>4. QED BY <1>4, <1>7, <2>1, <2>2, <2>3 DEF LookupComponent, environment, Step
<1>8. CASE RememberComponent
  <2>1. op.reply.ino \in Inodes /\ op.reply.cacheable \in BOOLEAN
    BY <1>1, <1>8 DEF RememberComponent, At, OpInv, ReplyFits, HoldsEntry, EntryReplies
  <2>2. AttrsFewer(resolver', resolver)
    <3>1. PICK j \in Inodes, cacheable \in BOOLEAN, k \in Keys :
            j = op.reply.ino /\ cacheable = op.reply.cacheable /\ k = Component
      BY <1>2, <2>1
    <3>2. PICK parent, parentGen, name, gen :
            resolver' = RememberPositive(resolver, k, parent, parentGen, name, j, gen, cacheable)
      BY <1>8, <3>1 DEF RememberComponent
    <3>3. QED BY <1>1, <3>2, RememberPositiveFields DEF AttrsFewer
  <2>3. ~Storing(op')
    BY <1>2, <1>8, AdvanceStores DEF RememberComponent
  <2>4. SameFiles(fs', fs) /\ notices' = notices
        /\ overtaken' \in {overtaken \cup {Component}, overtaken \ {Component}}
    BY <1>8 DEF RememberComponent, SameFiles, Record
  <2>5. QED BY <1>2, <1>3, <1>4, <2>2, <2>3, <2>4 DEF Step
<1>9. CASE RememberMissingComponent
  <2>1. AttrsFewer(resolver', resolver)
    BY <1>1, <1>2, <1>9, RememberNegativeFields DEF RememberMissingComponent, AttrsFewer, TableFewer
  <2>2. ~Storing(op')
    BY <1>2, <1>9 DEF RememberMissingComponent, Storing, Ops
  <2>3. SameFiles(fs', fs) /\ notices' = notices
        /\ overtaken' \in {overtaken \cup {Component}, overtaken \ {Component}}
    BY <1>9 DEF RememberMissingComponent, SameFiles, Record
  <2>4. QED BY <1>2, <1>3, <1>4, <2>1, <2>2, <2>3 DEF Step
<1>10. CASE Unresolved
  <2>1. Fewer(resolver', resolver) /\ SameFiles(fs', fs)
    BY <1>1, <1>10, FewerSame, DeliverFields DEF Unresolved
  <2>2. ~Storing(op')
    BY <1>1, <1>10, UnresolvedFields, IdleSettled DEF Storing
  <2>3. QED BY <1>4, <1>10, <2>1, <2>2, FewerAttrs DEF Unresolved, environment, Step
<1>11. QED BY <1>5, <1>6, <1>7, <1>8, <1>9, <1>10

\* An invalidation of a path loses entries and the attributes of their inodes.
LEMMA InvalidatePathFewer ==
  ASSUME resolver \in Resolver, ResolverInv(resolver), fs \in FileSystems,
         NEW k, NEW o, InvalidatePathCache(k, o)
  PROVE  /\ Fewer(resolver', resolver) /\ SameFiles(fs', fs)
         /\ \A c \in Subtree(k) : resolver'.paths[c] = Absent
         /\ op' = o /\ UNCHANGED environment
<1>1. Subtree(k) \in SUBSET Keys
  BY DEF Subtree
<1> DEFINE r == InvalidateSubtree(resolver, k)
<1>2. /\ ResolverInv(r) /\ Fewer(r, resolver)
      /\ \A c \in Subtree(k) : r.paths[c] = Absent
  BY <1>1, InvalidateInv, InvalidateFewer DEF InvalidateSubtree
<1>3. Deliver(r, fs) /\ op' = o /\ UNCHANGED environment
  BY DEF InvalidatePathCache
<1> HIDE DEF r
<1>4. QED BY <1>2, <1>3, DeliverFields

\* Where a handler goes that does not hold attributes to store.
LEMMA NotStoring ==
  ASSUME NEW o \in Ops, o.next # "store", NEW key, NEW p \in Purposes,
         NEW pc \in {"cached", "lookup", "call", "forgetPath", "forgetDest", "touched",
                     "mutated", "created", "collided", "renamed", Ended},
         NEW outcome
  PROVE  /\ ~Storing(Goto(o, pc)) /\ ~Storing(DrainTo(o, pc)) /\ ~Storing(IdleOp(outcome))
         /\ ~Storing(Resolve(o, key, p)) /\ ~Storing(ResolveContextOrPath(o, key))
<1>1. ~Storing(Goto(o, pc)) /\ ~Storing(DrainTo(o, pc))
  BY GotoFields DEF Storing, Ended
<1>2. ~Storing(IdleOp(outcome))
  BY IdleSettled
<1>3. ASSUME NEW s \in Purposes PROVE ~Storing(Resolve(o, key, s))
  <2>1. /\ Resolve(o, key, s).next = o.next
        /\ Resolve(o, key, s).pc \in {"reap", Known(s)}
    BY ResolveFields
  <2>2. Known(s) # "store"
    BY KnownPCs
  <2>3. QED BY <2>1, <2>2 DEF Storing
<1>4. ~Storing(ResolveContextOrPath(o, key))
  <2>1. CASE o.ctx # NoInode
    BY <2>1 DEF ResolveContextOrPath, Storing, Ops
  <2>2. CASE o.ctx = NoInode
    BY <1>3, <2>2 DEF ResolveContextOrPath, Purposes
  <2>3. QED BY <2>1, <2>2
<1>5. QED BY <1>1, <1>2, <1>3, <1>4

\* A step that changes no file, of a handler that answers for none.
LEMMA QuietAttributes ==
  ASSUME AttributesInv, AttrsFewer(resolver', resolver), SameFiles(fs', fs),
         notices' = notices, overtaken' = overtaken,
         ChangedInodes(op) = {}, ~Storing(op')
  PROVE  AttributesInv'
BY AttrStep

LEMMA AtAttributes ==
  ASSUME IInv,
         op.pc \in {"parentKnown", "destParentKnown", "targetKnown", "clashKnown",
                    "mtimeKnown", "call", "collided", "forgetPath"},
         op.pc = "forgetPath" => op.kind = "setattr"
  PROVE  /\ op \in Ops /\ op.next = "idle" /\ op.next # "store" /\ ChangedInodes(op) = {}
         /\ resolver \in Resolver /\ ResolverInv(resolver) /\ fs \in FileSystems
<1>1. op \in Ops /\ op.next = "idle" /\ resolver \in Resolver
      /\ ResolverInv(resolver) /\ fs \in FileSystems
  BY AtStep DEF WalkPCs
<1>2. QED BY <1>1 DEF ChangedInodes

\* The steps that touch neither the cache nor a file.
LEMMA PlainAttributes ==
  ASSUME IInv, AttributesInv,
         \/ Access \/ Probe \/ ProbeAgain \/ OpenExisting \/ OpenResolved
         \/ ResolveNewParent \/ ResolveMoved \/ CheckClash \/ Clash
  PROVE  AttributesInv'
<1>1. op.pc \in {"parentKnown", "destParentKnown", "targetKnown", "clashKnown", "call"}
  BY DEF Access, Probe, ProbeAgain, OpenExisting, OpenResolved, ResolveNewParent,
         ResolveMoved, CheckClash, Clash, At
<1>2. op \in Ops /\ op.next # "store" /\ ChangedInodes(op) = {}
  BY <1>1, AtAttributes
<1>3. /\ resolver' = resolver /\ fs' = fs /\ notices' = notices /\ overtaken' = overtaken
  BY DEF Access, Probe, ProbeAgain, OpenExisting, OpenResolved, ResolveNewParent,
         ResolveMoved, CheckClash, Clash, environment
<1>4. ~Storing(op')
  <2>1. \/ \E pc \in {"call", Ended} : op' \in {Goto(op, pc), DrainTo(op, pc)}
        \/ \E outcome : op' = IdleOp(outcome)
        \/ \E key : \E p \in Purposes : op' = Resolve(op, key, p)
        \/ \E key : op' = ResolveContextOrPath(op, key)
    <3>1. CASE Access \/ Probe \/ ProbeAgain
      BY <3>1 DEF Access, Probe, ProbeAgain
    <3>2. CASE OpenExisting \/ OpenResolved
      BY <3>2 DEF OpenExisting, OpenResolved, Purposes
    <3>3. CASE ResolveNewParent \/ ResolveMoved \/ CheckClash \/ Clash
      BY <3>3 DEF ResolveNewParent, ResolveMoved, CheckClash, Clash, Purposes
    <3>4. QED BY <3>1, <3>2, <3>3
  <2>2. "target" \in Purposes
    BY DEF Purposes
  <2>3. QED BY <1>2, <2>1, <2>2, NotStoring
<1>5. AttrsFewer(resolver', resolver) /\ SameFiles(fs', fs)
  BY <1>3 DEF AttrsFewer, SameFiles
<1>6. QED BY <1>2, <1>3, <1>4, <1>5, QuietAttributes

\* The steps that look into the cache or drop something from it, after nothing
\* was changed or after all that the handler answers for is dropped.
LEMMA DropAttributes ==
  ASSUME IInv, AttributesInv,
         CachedAttributes \/ InvalidateParentAttr \/ InvalidateMutatedPath \/ OpenCollision
  PROVE  AttributesInv'
<1>1. /\ op.pc \in {"targetKnown", "mtimeKnown", "collided", "forgetPath"}
      /\ op.pc = "forgetPath" => op.kind = "setattr"
  BY DEF CachedAttributes, InvalidateParentAttr, InvalidateMutatedPath, OpenCollision, At, Is
<1>2. /\ op \in Ops /\ op.next # "store" /\ ChangedInodes(op) = {}
      /\ resolver \in Resolver /\ ResolverInv(resolver) /\ fs \in FileSystems
  BY <1>1, AtAttributes
<1>3. notices' = notices /\ overtaken' = overtaken
  BY DEF CachedAttributes, InvalidateParentAttr, InvalidateMutatedPath, OpenCollision,
         InvalidatePathCache, environment
<1>4. "target" \in Purposes
  BY DEF Purposes
<1>5. ~Storing(op')
  BY <1>2, <1>4, NotStoring DEF CachedAttributes, InvalidateParentAttr,
     InvalidateMutatedPath, OpenCollision, InvalidatePathCache
<1>6. Fewer(resolver', resolver) /\ SameFiles(fs', fs)
  <2>1. CASE CachedAttributes \/ InvalidateParentAttr
    <3>1. CASE CachedAttributes
      <4>1. op.ino["target"] \in Inodes
        BY <3>1, AtStep DEF CachedAttributes, At, Is, WalkPCs, OnFile
      <4>2. QED BY <1>2, <3>1, <4>1, AttrFewer DEF CachedAttributes, SameFiles
    <3>2. CASE InvalidateParentAttr
      <4>1. op.ino["mtime"] \in Inodes
        BY <3>2, AtStep DEF InvalidateParentAttr, At, WalkPCs
      <4>2. QED BY <1>2, <3>2, <4>1, AttrFewer DEF InvalidateParentAttr, SameFiles
    <3>3. QED BY <2>1, <3>1, <3>2
  <2>2. CASE InvalidateMutatedPath \/ OpenCollision
    <3>1. PICK o : InvalidatePathCache(op.path, o)
      BY <2>2 DEF InvalidateMutatedPath, OpenCollision
    <3>2. QED BY <1>2, <3>1, InvalidatePathFewer
  <2>3. QED BY <2>1, <2>2
<1>7. QED BY <1>2, <1>3, <1>5, <1>6, FewerAttrs, QuietAttributes

\* A handler that drains answers for what it answered for.
LEMMA DrainAttributes == ASSUME IInv, AttributesInv, Drain PROVE AttributesInv'
<1>1. /\ op.pc = "drain" /\ Deliver(resolver, fs) /\ notices' = notices
      /\ overtaken' = overtaken
      /\ op' = IF op.next = Ended THEN IdleOp("drained")
                                  ELSE [op EXCEPT !.pc = op.next, !.next = "idle"]
  BY DEF Drain, At, environment
<1>2. /\ op \in Ops /\ ResolverInv(resolver) /\ resolver \in Resolver /\ fs \in FileSystems
      /\ op.next \in AfterDrain(op.kind)
  BY <1>1 DEF IInv, Typed, OpInv, InOrder, ResolverInv
<1>3. Fewer(resolver', resolver) /\ SameFiles(fs', fs)
  BY <1>1, <1>2, FewerSame, DeliverFields
<1>4. CASE op.next = Ended
  <2>1. op' = IdleOp("drained")
    BY <1>1, <1>4
  <2>2. ~Storing(op')
    BY <2>1, IdleSettled
  <2>3. ChangedInodes(op) = {}
    BY <1>1, <1>4 DEF ChangedInodes, Ended
  <2>4. QED BY <1>1, <1>3, <2>2, <2>3, FewerAttrs, QuietAttributes
<1>5. CASE op.next # Ended
  <2>1. op' = [op EXCEPT !.pc = op.next, !.next = "idle"]
    BY <1>1, <1>5
  <2>2. /\ op'.pc = op.next /\ op'.next = "idle" /\ op'.late = op.late
        /\ op'.reply = op.reply /\ op'.ino = op.ino /\ op'.kind = op.kind
    BY <1>2, <2>1 DEF Ops
  <2>3. Storing(op') => Storing(op)
    BY <2>2 DEF Storing
  <2>4. ChangedInodes(op') = ChangedInodes(op)
    BY <1>1, <1>2, <2>2 DEF ChangedInodes, AfterDrain, Ended
  <2>5. QED BY <1>1, <1>3, <2>2, <2>3, <2>4, FewerAttrs, AttrStep
<1>6. QED BY <1>4, <1>5

\* A step that changes files and leaves the cache alone.
LEMMA FileStep ==
  ASSUME AttributesInv, resolver' = resolver, notices \subseteq notices',
         IsTree(fs'), ~Storing(op'),
         \A i \in Inodes :
           Linked(fs', i) /\ i \notin overtaken' \cup ChangedInodes(op') =>
             /\ Linked(fs, i) /\ i \notin overtaken \cup ChangedInodes(op)
             /\ fs'.attr[i] = fs.attr[i]
  PROVE  AttributesInv'
<1>1. \A i : AnnouncedAttr(notices, i) => AnnouncedAttr(notices', i)
  BY DEF AnnouncedAttr
<1>2. ASSUME NEW i \in Inodes, i \notin overtaken' \cup ChangedInodes(op'),
             resolver'.inodes[i].attr \in Attrs, Linked(fs', i)
      PROVE  resolver'.inodes[i].attr = fs'.attr[i] \/ AnnouncedAttr(notices', i)
  <2>1. /\ Linked(fs, i) /\ i \notin overtaken \cup ChangedInodes(op)
        /\ fs'.attr[i] = fs.attr[i]
    BY <1>2
  <2>2. resolver.inodes[i].attr = fs.attr[i] \/ AnnouncedAttr(notices, i)
    BY <1>2, <2>1 DEF AttributesInv
  <2>3. QED BY <1>1, <2>1, <2>2
<1>3. QED BY <1>2 DEF AttributesInv, Storing

\* The attributes that getattr got, on their way to the cache.
LEMMA GetAttributesAttributes == ASSUME IInv, AttributesInv, GetAttributes PROVE AttributesInv'
<1>1. /\ op.pc = "call" /\ op.kind = "getattr" /\ resolver' = resolver /\ fs' = fs
      /\ notices' = notices /\ overtaken' = overtaken
  BY DEF GetAttributes, At, Is, environment
<1>2. op \in Ops /\ op.next # "store" /\ ChangedInodes(op) = {} /\ "target" \in Purposes
  BY <1>1, AtAttributes DEF Purposes
<1>3. CASE op' = DrainTo(op, Ended)
  <2>1. ~Storing(op')
    BY <1>2, <1>3, NotStoring
  <2>2. AttrsFewer(resolver', resolver) /\ SameFiles(fs', fs)
    BY <1>1 DEF AttrsFewer, SameFiles
  <2>3. QED BY <1>1, <1>2, <2>1, <2>2, QuietAttributes
<1>4. CASE op' = [DrainTo(op, "store") EXCEPT !.reply =
                    [status |-> "ok", attr |-> fs.attr[op.ino["target"]]]]
  <2>1. PICK a : a = fs.attr[op.ino["target"]]
    OBVIOUS
  <2>2. op'.ino = op.ino /\ op'.reply = [status |-> "ok", attr |-> a]
    BY <1>2, <1>4, <2>1 DEF DrainTo, Ops
  <2>3. op'.reply.attr = fs'.attr[op'.ino["target"]]
    BY <1>1, <2>1, <2>2
  <2>4. \A i \in Inodes \ (overtaken' \cup ChangedInodes(op')) :
          resolver'.inodes[i].attr \in Attrs /\ Linked(fs', i) =>
            resolver'.inodes[i].attr = fs'.attr[i] \/ AnnouncedAttr(notices', i)
    BY <1>1, <1>2 DEF AttributesInv
  <2>5. IsTree(fs')
    BY <1>1 DEF AttributesInv
  <2>6. QED BY <2>3, <2>4, <2>5 DEF AttributesInv
<1>5. QED BY <1>3, <1>4 DEF GetAttributes

\* remember_attr: what is cached is the reply, or nothing.
LEMMA StoreAttributesAttributes ==
  ASSUME IInv, AttributesInv, StoreAttributes
  PROVE  AttributesInv'
<1>1. PICK t : t = op.ino["target"]
  OBVIOUS
<1>2. /\ op.pc = "store" /\ op' = IdleOp("drained") /\ fs' = fs /\ notices' = notices
      /\ \/ resolver' = RememberAttr(resolver, t, op.reply.attr)
         \/ resolver' = ForgetAttr(resolver, t)
      /\ overtaken' = IF op.late THEN overtaken \cup {t} ELSE overtaken \ {t}
  BY <1>1 DEF StoreAttributes, At
<1>3. /\ op \in Ops /\ resolver \in Resolver /\ op.kind = "getattr" /\ t \in Inodes
      /\ op.next = "idle"
  BY <1>1, <1>2, AtStep, KindsKnown DEF WalkPCs, StepsOf, OnFile, Ops, RequestKinds
<1>4. ChangedInodes(op) = {}
  BY <1>3 DEF ChangedInodes
<1>5. ~Storing(op')
  BY <1>2, IdleSettled
<1>6. \A i \in Inodes \ {t} : resolver'.inodes[i].attr \in Attrs =>
                                resolver'.inodes[i].attr = resolver.inodes[i].attr
  <2>1. CASE resolver' = ForgetAttr(resolver, t)
    <3>1. AttrsFewer(resolver', resolver)
      BY <1>3, <2>1, AttrFewer, FewerAttrs
    <3>2. QED BY <3>1 DEF AttrsFewer
  <2>2. CASE resolver' = RememberAttr(resolver, t, op.reply.attr)
    <3>1. PICK a : a = op.reply.attr
      OBVIOUS
    <3>2. resolver' = RememberAttr(resolver, t, a)
      BY <2>2, <3>1
    <3>3. QED BY <1>3, <3>2, RememberAttrFields
  <2>3. QED BY <1>2, <2>1, <2>2
<1>7. resolver'.inodes[t].attr \in Attrs => resolver'.inodes[t].attr = op.reply.attr
  <2>1. CASE resolver' = ForgetAttr(resolver, t)
    BY <1>3, <2>1, AttrFewer
  <2>2. CASE resolver' = RememberAttr(resolver, t, op.reply.attr)
    <3>1. PICK a : a = op.reply.attr
      OBVIOUS
    <3>2. resolver' = RememberAttr(resolver, t, a)
      BY <2>2, <3>1
    <3>3. QED BY <1>3, <3>1, <3>2, RememberAttrFields
  <2>3. QED BY <1>2, <2>1, <2>2
<1>8. op.late \/ op.reply.attr = fs.attr[t] \/ AnnouncedAttr(notices, t)
  BY <1>1, <1>2 DEF AttributesInv
<1>9. ASSUME NEW i \in Inodes, i \notin overtaken' \cup ChangedInodes(op'),
             resolver'.inodes[i].attr \in Attrs, Linked(fs', i)
      PROVE  resolver'.inodes[i].attr = fs'.attr[i] \/ AnnouncedAttr(notices', i)
  <2>1. CASE i = t
    <3>1. ~op.late
      BY <1>2, <1>9, <2>1
    <3>2. QED BY <1>2, <1>7, <1>8, <1>9, <2>1, <3>1
  <2>2. CASE i # t
    <3>1. i \notin overtaken \cup ChangedInodes(op)
      BY <1>2, <1>4, <1>9, <2>2
    <3>2. resolver.inodes[i].attr \in Attrs
          /\ resolver'.inodes[i].attr = resolver.inodes[i].attr
      BY <1>6, <1>9, <2>2
    <3>3. QED BY <1>2, <1>9, <3>1, <3>2 DEF AttributesInv
  <2>3. QED BY <2>1, <2>2
<1>10. IsTree(fs')
  BY <1>2 DEF AttributesInv
<1>11. QED BY <1>5, <1>9, <1>10 DEF AttributesInv, Storing

\* The callback that changes the attributes: the handler answers for the inode.
LEMMA SetAttributesAttributes == ASSUME IInv, AttributesInv, SetAttributes PROVE AttributesInv'
<1>1. PICK t : t = op.ino["target"]
  OBVIOUS
<1>2. /\ op.pc = "targetKnown" /\ op.kind \in {"setattr", "setxattr"}
      /\ resolver' = resolver /\ notices' = notices /\ overtaken' = overtaken
      /\ \/ fs' = Changed(fs, {t}) /\ op' = DrainTo(op, "mutated")
         \/ fs' = fs /\ op' \in {IdleOp("undrained"), DrainTo(op, Ended)}
  BY <1>1 DEF SetAttributes, At, environment
<1>3. /\ op \in Ops /\ op.next # "store" /\ ChangedInodes(op) = {} /\ "target" \in Purposes
      /\ fs \in FileSystems
  BY <1>2, AtAttributes DEF Purposes
<1>4. ~Storing(op')
  BY <1>2, <1>3, NotStoring
<1>5. CASE fs' = fs
  <2>1. AttrsFewer(resolver', resolver) /\ SameFiles(fs', fs)
    BY <1>2, <1>5 DEF AttrsFewer, SameFiles
  <2>2. QED BY <1>2, <1>3, <1>4, <2>1, QuietAttributes
<1>6. CASE fs' = Changed(fs, {t}) /\ op' = DrainTo(op, "mutated")
  <2>1. op'.ino["target"] = t /\ op'.next = "mutated" /\ op'.kind = op.kind
    BY <1>1, <1>3, <1>6, GotoFields DEF SameRequest
  <2>2. ChangedInodes(op') = {t}
    BY <1>2, <2>1 DEF ChangedInodes
  <2>3. /\ fs'.tree = fs.tree /\ fs'.gen = fs.gen
        /\ \A i \in Inodes \ {t} : fs'.attr[i] = fs.attr[i]
    BY <1>3, <1>6, ChangedFields
  <2>4. IsTree(fs') /\ \A i \in Inodes : Linked(fs', i) <=> Linked(fs, i)
    BY <2>3 DEF AttributesInv, IsTree, Linked, Named
  <2>5. QED BY <1>2, <1>3, <1>4, <2>2, <2>3, <2>4, FileStep
<1>7. QED BY <1>2, <1>5, <1>6

\* A step of a handler that drops the attributes it answered for.
LEMMA AnsweredFor ==
  ASSUME AttributesInv, AttrsFewer(resolver', resolver), fs' = fs, notices' = notices,
         \A i \in Inodes : i \in overtaken => i \in overtaken',
         \A i \in ChangedInodes(op) \cap Inodes :
           i \in ChangedInodes(op') \/ resolver'.inodes[i].attr \notin Attrs,
         ~Storing(op')
  PROVE  AttributesInv'
<1>1. SameFiles(fs', fs)
  BY DEF SameFiles
<1>2. QED BY <1>1, AttrStep

LEMMA FinishMutationAttributes ==
  ASSUME IInv, AttributesInv, FinishMutation \/ FinishSetXattr
  PROVE  AttributesInv'
<1>1. PICK t : t = op.ino["target"]
  OBVIOUS
<1>2. /\ op.pc = "mutated" /\ op.kind \in {"setattr", "setxattr"}
      /\ resolver' = InvalidateInodeAttr(resolver, t) /\ fs' = fs
      /\ notices' = notices /\ overtaken' = overtaken
  BY <1>1 DEF FinishMutation, FinishSetXattr, At, Is, environment
<1>3. /\ op \in Ops /\ op.next # "store" /\ resolver \in Resolver /\ t \in Inodes
      /\ "mtime" \in Purposes
  BY <1>1, <1>2, AtStep DEF WalkPCs, OnFile, Purposes
<1>4. ~Storing(op')
  <2>1. CASE FinishMutation
    BY <1>3, <2>1, NotStoring DEF FinishMutation
  <2>2. CASE FinishSetXattr
    BY <1>3, <2>2, NotStoring DEF FinishSetXattr
  <2>3. QED BY <2>1, <2>2
<1>5. ChangedInodes(op) = {t}
  BY <1>1, <1>2 DEF ChangedInodes
<1>6. AttrsFewer(resolver', resolver) /\ resolver'.inodes[t].attr \notin Attrs
  BY <1>2, <1>3, AttrFewer, FewerAttrs
<1>7. QED BY <1>2, <1>4, <1>5, <1>6, AnsweredFor

\* Two inodes lose their attributes.
LEMMA TwoDropped ==
  ASSUME NEW r \in Resolver, ResolverInv(r), NEW i \in Inodes, NEW j \in Inodes
  PROVE  LET q == InvalidateInodeAttr(InvalidateInodeAttr(r, i), j) IN
         /\ q \in Resolver /\ ResolverInv(q) /\ Fewer(q, r)
         /\ q.inodes[i].attr \notin Attrs /\ q.inodes[j].attr \notin Attrs
         /\ q.paths = r.paths
<1> DEFINE p == InvalidateInodeAttr(r, i)
           q == InvalidateInodeAttr(p, j)
<1>1. /\ ResolverInv(p) /\ p \in Resolver /\ Fewer(p, r) /\ p.inodes[i].attr \notin Attrs
      /\ p.paths = r.paths
  BY ForgetAttrInv, AttrFewer DEF ResolverInv
<1> HIDE DEF p
<1>2. ResolverInv(q) /\ Fewer(q, p) /\ q.inodes[j].attr \notin Attrs /\ q.paths = p.paths
  BY <1>1, ForgetAttrInv, AttrFewer
<1> HIDE DEF q
<1>3. AttrsFewer(q, p) /\ Fewer(q, r) /\ q \in Resolver
  BY <1>1, <1>2, FewerAttrs, FewerTrans DEF ResolverInv
<1>4. q.inodes[i].attr \notin Attrs
  BY <1>1, <1>3 DEF AttrsFewer
<1>5. QED BY <1>1, <1>2, <1>3, <1>4 DEF q, p

\* A file system with one more file.
MadeTree(g, f, dir, name, i) ==
  /\ g \in FileSystems /\ IsTree(g)
  /\ \A j \in Inodes \ {i} : Linked(g, j) => Linked(f, j)
  /\ \A j \in Inodes \ {dir, i} : g.attr[j] = f.attr[j]
  /\ \A j \in Inodes \ {i} : g.gen[j] = f.gen[j]
  /\ g.gen[i] = f.gen[i] + 1
  /\ g.tree[<<dir, name>>] = i
  /\ \A d \in Dirs, n \in Names :
       <<d, n>> # <<dir, name>> => g.tree[<<d, n>>] = f.tree[<<d, n>>]

LEMMA MadeTreeFields ==
  ASSUME NEW f \in FileSystems, IsTree(f), NEW dir \in Dirs, NEW name \in Names,
         NEW i \in Inodes, ~Linked(f, i), i \in Dirs => dir = RootIno,
         f.gen[i] + 1 \in Generations
  PROVE  /\ MadeTree(Made(f, dir, name, i), f, dir, name, i)
         /\ MadeTree(Granted(Made(f, dir, name, i), i), f, dir, name, i)
<1> DEFINE m == Made(f, dir, name, i)
           g == Granted(m, i)
<1>1. /\ m \in FileSystems /\ m.tree = Put(f.tree, <<dir, name>>, i)
      /\ m.gen = Put(f.gen, i, f.gen[i] + 1)
      /\ \A j \in Inodes \ {dir, i} : m.attr[j] = f.attr[j]
  BY MadeFields, MadeAttrs
<1> HIDE DEF m
<1>2. NoForgets \in [Inodes -> Nat]
  BY DEF NoForgets
<1>3. g \in FileSystems /\ g.tree = m.tree /\ g.gen = m.gen /\ g.attr = m.attr
  BY <1>1, <1>2, LookupFields
<1> HIDE DEF g
<1>4. i # RootIno /\ f.tree \in [Dirs \X Names -> Inodes \cup {NoInode}]
      /\ f.gen \in [Inodes -> Generations] /\ RootIno \in Inodes
  BY FileTreeAssumption DEF Linked, FileSystems
<1>5. ASSUME NEW h \in FileSystems, h.tree = m.tree, h.gen = m.gen, h.attr = m.attr
      PROVE  MadeTree(h, f, dir, name, i)
  <2>1. /\ h.tree[<<dir, name>>] = i
        /\ \A d \in Dirs, n \in Names :
             <<d, n>> # <<dir, name>> => h.tree[<<d, n>>] = f.tree[<<d, n>>]
    BY <1>1, <1>4, <1>5 DEF Put
  <2>2. h.gen[i] = f.gen[i] + 1 /\ \A j \in Inodes \ {i} : h.gen[j] = f.gen[j]
    BY <1>1, <1>4, <1>5 DEF Put
  <2>3. IsTree(h) /\ \A j \in Inodes \ {i} : Linked(h, j) => Linked(f, j)
    BY <1>4, <2>1, <2>2, TreeGrows
  <2>4. QED BY <1>1, <1>5, <2>1, <2>2, <2>3 DEF MadeTree
<1>6. QED BY <1>1, <1>3, <1>5 DEF g, m

\* The answers of create and mkdir.
LEMMA MakeEntryMakes ==
  ASSUME IInv, MakeEntry, fs' # fs
  PROVE  \E dir \in Dirs, name \in Names, i \in Inodes, cacheable \in BOOLEAN :
           /\ dir = op.ino["parent"] /\ name = Leaf(op.path) /\ op.path # Root
           /\ fs.tree[<<dir, name>>] = NoInode /\ ~Linked(fs, i)
           /\ Linked(fs, dir) /\ (i \in Dirs => dir = RootIno)
           /\ fs.nlookup[i] = 0 /\ fs.gen[i] + 1 \in Generations
           /\ fs' = Granted(Made(fs, dir, name, i), i)
           /\ op'.reply.ino = i /\ op'.reply.gen = fs.gen[i] + 1
           /\ op'.next = "created" /\ op'.pc = "drain" /\ op'.ino = op.ino
           /\ op'.late = op.late /\ op'.walk = NoWalk /\ SameRequest(op', op)
<1>1. /\ op.pc = "parentKnown" /\ op.kind = "create" /\ op.path # Root
  BY DEF MakeEntry, At, Is
<1>2. op \in Ops /\ fs \in FileSystems /\ op.walk = NoWalk
  BY <1>1, AtStep DEF WalkPCs
<1>3. Leaf(op.path) \in Names
  BY <1>1, <1>2, WalkPaths DEF Ops
<1>4. PICK dir, name : dir = op.ino["parent"] /\ name = Leaf(op.path)
  OBVIOUS
<1>5. PICK i \in Inodes, cacheable \in Cacheable :
        /\ dir \in Dirs /\ Linked(fs, dir) /\ fs.tree[<<dir, name>>] = NoInode
        /\ Unused(fs, i) /\ (i \in Dirs <=> op.isDir)
        /\ op.isDir => dir = RootIno
        /\ fs' = Granted(Made(fs, dir, name, i), i)
        /\ op' = [DrainTo(op, "created") EXCEPT
                    !.reply = Entry(i, fs.gen[i] + 1, cacheable)]
  BY <1>4 DEF MakeEntry
<1>6. PICK g : g = fs.gen[i] + 1
  OBVIOUS
<1>7. /\ op'.reply = Entry(i, g, cacheable) /\ op'.next = "created" /\ op'.pc = "drain"
      /\ op'.ino = op.ino /\ op'.late = op.late /\ op'.walk = NoWalk
      /\ SameRequest(op', op)
  BY <1>2, <1>5, <1>6 DEF DrainTo, Ops, SameRequest
<1>8. op'.reply.ino = i /\ op'.reply.gen = g
  BY <1>7 DEF Entry
<1>9. cacheable \in BOOLEAN
  BY AdapterAssumption
<1>10. ~Linked(fs, i) /\ fs.nlookup[i] = 0 /\ fs.gen[i] + 1 \in Generations
  BY <1>5 DEF Unused
<1>11. QED BY <1>1, <1>3, <1>4, <1>5, <1>6, <1>7, <1>8, <1>9, <1>10

\* A new file: the handler answers for it and for its directory.
LEMMA MakeEntryAttributes == ASSUME IInv, AttributesInv, MakeEntry PROVE AttributesInv'
<1>1. /\ op.pc = "parentKnown" /\ op.kind = "create" /\ resolver' = resolver
      /\ notices' = notices /\ overtaken' = overtaken
  BY DEF MakeEntry, At, Is, environment
<1>2. /\ op \in Ops /\ op.next # "store" /\ ChangedInodes(op) = {} /\ "target" \in Purposes
      /\ fs \in FileSystems
  BY <1>1, AtAttributes DEF Purposes
<1>3. CASE fs' = fs
  <2>1. \E pc \in {"collided", "created", Ended} : op'.pc = "drain" /\ op'.next = pc
    <3>1. \/ op' \in {DrainTo(op, "collided"), DrainTo(op, Ended)}
          \/ \E reply : op' = [DrainTo(op, "created") EXCEPT !.reply = reply]
      BY DEF MakeEntry
    <3>2. ASSUME NEW reply, op' = [DrainTo(op, "created") EXCEPT !.reply = reply]
          PROVE  op'.pc = "drain" /\ op'.next = "created"
      BY <1>2, <3>2 DEF DrainTo, Ops
    <3>3. QED BY <1>2, <3>1, <3>2, GotoFields
  <2>2. ~Storing(op')
    BY <2>1 DEF Storing, Ended
  <2>3. QED BY <1>1, <1>2, <1>3, <2>2, AnsweredFor DEF AttrsFewer
<1>4. CASE fs' # fs
  <2>1. PICK dir \in Dirs, name \in Names, i \in Inodes :
          /\ dir = op.ino["parent"] /\ fs.tree[<<dir, name>>] = NoInode /\ ~Linked(fs, i)
          /\ i \in Dirs => dir = RootIno
          /\ fs.gen[i] + 1 \in Generations
          /\ fs' = Granted(Made(fs, dir, name, i), i)
          /\ op'.reply.ino = i /\ op'.next = "created" /\ op'.pc = "drain"
          /\ op'.ino = op.ino /\ SameRequest(op', op)
    BY <1>4, MakeEntryMakes
  <2>2. ~Storing(op')
    BY <2>1 DEF Storing
  <2>3. ChangedInodes(op') = {dir, i}
    BY <1>1, <2>1 DEF ChangedInodes, SameRequest
  <2>4. MadeTree(fs', fs, dir, name, i)
    BY <1>2, <2>1, MadeTreeFields DEF AttributesInv
  <2>5. ASSUME NEW j \in Inodes, Linked(fs', j), j \notin overtaken' \cup ChangedInodes(op')
        PROVE  /\ Linked(fs, j) /\ j \notin overtaken \cup ChangedInodes(op)
               /\ fs'.attr[j] = fs.attr[j]
    BY <1>1, <1>2, <2>3, <2>4, <2>5 DEF MadeTree
  <2>6. IsTree(fs') /\ notices \subseteq notices'
    BY <1>1, <2>4 DEF MadeTree
  <2>7. QED BY <1>1, <2>2, <2>5, <2>6, FileStep
<1>5. QED BY <1>3, <1>4

\* finish_created_entry: two inodes lose their attributes, then the entry is made.
LEMMA CreatedIsRemembered ==
  ASSUME IInv, FinishCreated
  PROVE  /\ op \in Ops /\ op.pc = "created" /\ op.next = "idle" /\ op.kind = "create"
         /\ op.path \in Keys \ {Root}
         /\ fs' = fs /\ notices' = notices
         /\ overtaken' = IF op.late THEN overtaken \cup {op.path} ELSE overtaken \ {op.path}
         /\ op'.pc = "drain" /\ op'.next = Ended /\ op'.late = FALSE
         /\ op'.kind = op.kind /\ op'.walk = NoWalk
         /\ \E dir \in Inodes, i \in Inodes, gen \in Generations, cacheable \in BOOLEAN,
               r \in Resolver :
              /\ dir = op.ino["parent"] /\ i = op.reply.ino /\ gen = op.reply.gen
              /\ ResolverInv(r) /\ Fewer(r, resolver) /\ r.paths = resolver.paths
              /\ r.inodes[dir].attr \notin Attrs /\ r.inodes[i].attr \notin Attrs
              /\ resolver' = RememberPositive(r, op.path, dir, GenerationFor(r, dir),
                                              Leaf(op.path), i, gen, cacheable)
<1>1. op.pc = "created"
  BY DEF FinishCreated, At
<1>2. /\ OpInv(op) /\ op \in Ops /\ ResolverInv(resolver) /\ resolver \in Resolver
      /\ op.kind = "create" /\ op.walk = NoWalk /\ op.path # Root /\ op.next = "idle"
  BY <1>1, AtStep, KindsKnown DEF WalkPCs, StepsOf, Ops, RequestKinds, PathsFit
<1>3. op.path \in Keys \ {Root}
  BY <1>2 DEF Ops
<1>4. HoldsEntry(op) /\ op.reply \in EntryReplies
  BY <1>1, <1>2 DEF HoldsEntry, OpInv, ReplyFits
<1>5. PICK dir \in Inodes : dir = op.ino["parent"]
  BY <1>1, <1>2, AtStep DEF WalkPCs
<1>6. PICK i \in Inodes, gen \in Generations, cacheable \in BOOLEAN :
        i = op.reply.ino /\ gen = op.reply.gen /\ cacheable = op.reply.cacheable
  BY <1>4 DEF EntryReplies
<1>7. PICK r : r = InvalidateInodeAttr(InvalidateInodeAttr(resolver, dir), i)
  OBVIOUS
<1>8. /\ r \in Resolver /\ ResolverInv(r) /\ Fewer(r, resolver) /\ r.paths = resolver.paths
      /\ r.inodes[dir].attr \notin Attrs /\ r.inodes[i].attr \notin Attrs
  BY <1>2, <1>7, TwoDropped
<1>9. /\ resolver' = RememberPositive(r, op.path, dir, GenerationFor(r, dir),
                                      Leaf(op.path), i, gen, cacheable)
      /\ op' = [DrainTo(op, Ended) EXCEPT !.reply = NoReply, !.late = FALSE]
      /\ fs' = fs /\ notices' = notices
      /\ overtaken' = IF op.late THEN overtaken \cup {op.path} ELSE overtaken \ {op.path}
  BY <1>5, <1>6, <1>7 DEF FinishCreated, Record
<1>10. /\ op'.pc = "drain" /\ op'.next = Ended /\ op'.late = FALSE /\ op'.kind = op.kind
       /\ op'.walk = NoWalk
  BY <1>2, <1>9 DEF DrainTo, Ops
<1>11. QED BY <1>1, <1>2, <1>3, <1>5, <1>6, <1>8, <1>9, <1>10

LEMMA FinishCreatedAttributes == ASSUME IInv, AttributesInv, FinishCreated PROVE AttributesInv'
<1>1. /\ op.pc = "created" /\ op.next = "idle" /\ op.kind = "create" /\ op.path \in Keys
      /\ fs' = fs /\ notices' = notices
      /\ overtaken' = IF op.late THEN overtaken \cup {op.path} ELSE overtaken \ {op.path}
      /\ op'.pc = "drain" /\ op'.next = Ended
  BY CreatedIsRemembered
<1>2. PICK dir \in Inodes, i \in Inodes, gen \in Generations, cacheable \in BOOLEAN,
           r \in Resolver :
        /\ dir = op.ino["parent"] /\ i = op.reply.ino
        /\ Fewer(r, resolver)
        /\ r.inodes[dir].attr \notin Attrs /\ r.inodes[i].attr \notin Attrs
        /\ resolver' = RememberPositive(r, op.path, dir, GenerationFor(r, dir),
                                        Leaf(op.path), i, gen, cacheable)
  BY CreatedIsRemembered
<1>3. ChangedInodes(op) = {dir, i}
  BY <1>1, <1>2 DEF ChangedInodes
<1>4. AttrsFewer(resolver', r)
  <2>1. PICK parentGen, name : parentGen = GenerationFor(r, dir) /\ name = Leaf(op.path)
    OBVIOUS
  <2>2. PICK k \in Keys : k = op.path
    BY <1>1
  <2>3. resolver' = RememberPositive(r, k, dir, parentGen, name, i, gen, cacheable)
    BY <1>2, <2>1, <2>2
  <2>4. QED BY <2>3, RememberPositiveFields DEF AttrsFewer
<1>5. AttrsFewer(r, resolver)
  BY <1>2, FewerAttrs
<1>6. AttrsFewer(resolver', resolver) /\ resolver'.inodes[dir].attr \notin Attrs
      /\ resolver'.inodes[i].attr \notin Attrs
  BY <1>2, <1>4, <1>5 DEF AttrsFewer
<1>7. ~Storing(op')
  BY <1>1 DEF Storing, Ended
<1>8. \A j \in Inodes : j \in overtaken => j \in overtaken'
  BY <1>1, AdapterAssumption
<1>9. QED BY <1>1, <1>3, <1>6, <1>7, <1>8, AnsweredFor

\* A file system with a name less.
CutTree(g, f, dir, name) ==
  /\ g \in FileSystems /\ IsTree(g) /\ g.gen = f.gen
  /\ \A i \in Inodes : Linked(g, i) => Linked(f, i)
  /\ ~Linked(g, f.tree[<<dir, name>>])
  /\ \A i \in Inodes \ {dir, f.tree[<<dir, name>>]} : g.attr[i] = f.attr[i]
  /\ g.tree[<<dir, name>>] = NoInode
  /\ \A d \in Dirs, n \in Names :
       <<d, n>> # <<dir, name>> => g.tree[<<d, n>>] = f.tree[<<d, n>>]

LEMMA CutTreeFields ==
  ASSUME NEW f \in FileSystems, IsTree(f), NEW dir \in Dirs, NEW name \in Names,
         f.tree[<<dir, name>>] # NoInode
  PROVE  CutTree(Unlinked(f, dir, name), f, dir, name)
<1> DEFINE g == Unlinked(f, dir, name)
           i == f.tree[<<dir, name>>]
<1>1. /\ g \in FileSystems /\ g.tree = Put(f.tree, <<dir, name>>, NoInode) /\ g.gen = f.gen
      /\ \A j \in Inodes \ {dir, i} : g.attr[j] = f.attr[j]
  BY UnlinkedFields, UnlinkedAttrs
<1> HIDE DEF g
<1>2. f.tree \in [Dirs \X Names -> Inodes \cup {NoInode}]
  BY DEF FileSystems
<1>3. /\ g.tree[<<dir, name>>] = NoInode
      /\ \A d \in Dirs, n \in Names :
           <<d, n>> # <<dir, name>> => g.tree[<<d, n>>] = f.tree[<<d, n>>]
  BY <1>1, <1>2 DEF Put
<1>4. IsTree(g) /\ \A j \in Inodes : Linked(g, j) => Linked(f, j)
  <2>1. \A d \in Dirs, n \in Names : g.tree[<<d, n>>] \in {f.tree[<<d, n>>], NoInode}
    BY <1>3
  <2>2. QED BY <1>1, <2>1, TreeShrinks
<1>5. i # RootIno
  BY FileTreeAssumption DEF IsTree
<1>6. ~Linked(g, i)
  <2>1. ASSUME NEW d \in Dirs, NEW n \in Names PROVE g.tree[<<d, n>>] # i
    <3>1. CASE <<d, n>> = <<dir, name>>
      BY <1>3, <3>1
    <3>2. CASE <<d, n>> # <<dir, name>>
      <4>1. f.tree[<<d, n>>] # i
        BY <3>2 DEF IsTree
      <4>2. QED BY <1>3, <3>2, <4>1
    <3>3. QED BY <3>1, <3>2
  <2>2. QED BY <1>1, <1>5, <2>1, LinkedMeans
<1>7. QED BY <1>1, <1>3, <1>4, <1>6 DEF CutTree, g

\* unlink and rmdir.
LEMMA RemoveEntryRemoves ==
  ASSUME IInv, RemoveEntry, IsTree(fs)
  PROVE  /\ op.pc = "parentKnown" /\ op.kind = "delete" /\ resolver' = resolver
         /\ notices' = notices /\ overtaken' = overtaken
         /\ \/ fs' = fs /\ op' = DrainTo(op, Ended)
            \/ /\ op' = DrainTo(op, "forgetPath")
               /\ \E dir \in Dirs, name \in Names :
                    /\ dir = op.ino["parent"] /\ name = Leaf(op.path)
                    /\ fs.tree[<<dir, name>>] # NoInode
                    /\ CutTree(fs', fs, dir, name)
<1>1. /\ op.pc = "parentKnown" /\ op.kind = "delete" /\ resolver' = resolver
      /\ notices' = notices /\ overtaken' = overtaken
  BY DEF RemoveEntry, At, Is, environment
<1>2. op \in Ops /\ fs \in FileSystems /\ op.path # Root
  BY <1>1, AtStep DEF WalkPCs, PathsFit
<1>3. Leaf(op.path) \in Names
  BY <1>2, WalkPaths DEF Ops
<1>4. PICK dir, name : dir = op.ino["parent"] /\ name = Leaf(op.path)
  OBVIOUS
<1>5. \/ fs' = fs /\ op' = DrainTo(op, Ended)
      \/ /\ dir \in Dirs /\ fs.tree[<<dir, name>>] # NoInode
         /\ fs' = Unlinked(fs, dir, name) /\ op' = DrainTo(op, "forgetPath")
  BY <1>4 DEF RemoveEntry
<1>6. CASE /\ dir \in Dirs /\ fs.tree[<<dir, name>>] # NoInode
           /\ fs' = Unlinked(fs, dir, name) /\ op' = DrainTo(op, "forgetPath")
  <2>1. CutTree(fs', fs, dir, name)
    BY <1>2, <1>3, <1>4, <1>6, CutTreeFields
  <2>2. QED BY <1>1, <1>3, <1>4, <1>6, <2>1
<1>7. QED BY <1>1, <1>5, <1>6

LEMMA RemoveEntryAttributes == ASSUME IInv, AttributesInv, RemoveEntry PROVE AttributesInv'
<1>1. /\ op.pc = "parentKnown" /\ op.kind = "delete" /\ resolver' = resolver
      /\ notices' = notices /\ overtaken' = overtaken
      /\ (fs' = fs /\ op' = DrainTo(op, Ended)) \/ op' = DrainTo(op, "forgetPath")
  BY RemoveEntryRemoves DEF AttributesInv
<1>2. /\ op \in Ops /\ op.next # "store" /\ ChangedInodes(op) = {} /\ "target" \in Purposes
  BY <1>1, AtAttributes DEF Purposes
<1>3. ~Storing(op')
  BY <1>1, <1>2, NotStoring
<1>4. CASE fs' = fs
  BY <1>1, <1>2, <1>3, <1>4, AnsweredFor DEF AttrsFewer
<1>5. ASSUME NEW dir \in Dirs, NEW name \in Names, dir = op.ino["parent"],
             op' = DrainTo(op, "forgetPath"), CutTree(fs', fs, dir, name)
      PROVE  AttributesInv'
  <2>1. op'.ino["parent"] = dir /\ op'.next = "forgetPath" /\ op'.kind = op.kind
    BY <1>2, <1>5, GotoFields DEF SameRequest
  <2>2. ChangedInodes(op') = {dir}
    BY <1>1, <2>1 DEF ChangedInodes
  <2>3. \A i \in Inodes : Linked(fs', i) /\ i # dir => Linked(fs, i) /\ fs'.attr[i] = fs.attr[i]
    <3>1. ASSUME NEW i \in Inodes, Linked(fs', i), i # dir
          PROVE  Linked(fs, i) /\ fs'.attr[i] = fs.attr[i]
      BY <1>5, <3>1 DEF CutTree
    <3>2. QED BY <3>1
  <2>4. IsTree(fs') /\ notices \subseteq notices'
    BY <1>1, <1>5 DEF CutTree
  <2>5. QED BY <1>1, <1>2, <1>3, <2>2, <2>3, <2>4, FileStep
<1>6. QED BY <1>4, <1>5, RemoveEntryRemoves DEF AttributesInv

\* The removed path goes, then the attributes of its directory.
LEMMA FinishRemovedAttributes ==
  ASSUME IInv, AttributesInv, InvalidateRemovedPath \/ FinishRemoved
  PROVE  AttributesInv'
<1>1. op.pc \in {"forgetPath", "touched"} /\ op.kind = "delete"
  BY DEF InvalidateRemovedPath, FinishRemoved, At, Is
<1>2. /\ op \in Ops /\ op.next = "idle" /\ resolver \in Resolver /\ ResolverInv(resolver)
      /\ fs \in FileSystems
  BY <1>1, AtStep DEF WalkPCs
<1>3. PICK dir \in Inodes : dir = op.ino["parent"]
  BY <1>1, AtStep DEF WalkPCs
<1>4. ChangedInodes(op) = {dir}
  BY <1>1, <1>3 DEF ChangedInodes
<1>5. CASE InvalidateRemovedPath
  <2>1. InvalidatePathCache(op.path, Goto(op, "touched"))
    BY <1>5 DEF InvalidateRemovedPath
  <2>2. /\ Fewer(resolver', resolver) /\ SameFiles(fs', fs) /\ op' = Goto(op, "touched")
        /\ notices' = notices /\ overtaken' = overtaken
    BY <1>2, <2>1, InvalidatePathFewer DEF environment
  <2>3. op'.ino = op.ino /\ op'.pc = "touched" /\ op'.next = "idle" /\ op'.kind = op.kind
    BY <1>2, <2>2, GotoFields DEF SameRequest
  <2>4. ChangedInodes(op') = {dir} /\ ~Storing(op')
    BY <1>1, <1>3, <2>3 DEF ChangedInodes, Storing
  <2>5. QED BY <1>4, <2>2, <2>4, FewerAttrs, AttrStep
<1>6. CASE FinishRemoved
  <2>1. PICK r : r = IF op.ctx = NoInode THEN resolver
                                         ELSE InvalidateInodeAttr(resolver, op.ctx)
    OBVIOUS
  <2>2. /\ resolver' = InvalidateInodeAttr(r, dir) /\ fs' = fs /\ notices' = notices
        /\ overtaken' = overtaken /\ op' = IdleOp("drained")
    BY <1>3, <1>6, <2>1 DEF FinishRemoved, environment
  <2>3. r \in Resolver /\ AttrsFewer(r, resolver)
    <3>1. CASE op.ctx = NoInode
      BY <1>2, <2>1, <3>1 DEF AttrsFewer
    <3>2. CASE op.ctx # NoInode
      <4>1. op.ctx \in Inodes
        BY <1>2, <3>2 DEF Ops
      <4>2. r = InvalidateInodeAttr(resolver, op.ctx)
        BY <2>1, <3>2
      <4>3. ResolverInv(r) /\ Fewer(r, resolver)
        BY <1>2, <4>1, <4>2, ForgetAttrInv, AttrFewer
      <4>4. QED BY <4>3, FewerAttrs DEF ResolverInv
    <3>3. QED BY <3>1, <3>2
  <2>4. AttrsFewer(resolver', r) /\ resolver'.inodes[dir].attr \notin Attrs
    BY <2>2, <2>3, AttrFewer, FewerAttrs
  <2>5. AttrsFewer(resolver', resolver)
    BY <2>3, <2>4 DEF AttrsFewer
  <2>6. ~Storing(op')
    BY <2>2, IdleSettled
  <2>7. QED BY <1>4, <2>2, <2>4, <2>5, <2>6, AnsweredFor
<1>7. QED BY <1>5, <1>6

\* A file system with a name in another place.
MovedTree(g, f, dir, name, newDir, newName) ==
  /\ g \in FileSystems /\ IsTree(g) /\ g.gen = f.gen
  /\ \A i \in Inodes : Linked(g, i) => Linked(f, i)
  /\ f.tree[<<newDir, newName>>] # NoInode => ~Linked(g, f.tree[<<newDir, newName>>])
  /\ \A i \in Inodes \ {dir, newDir, f.tree[<<dir, name>>], f.tree[<<newDir, newName>>]} :
       g.attr[i] = f.attr[i]
  /\ <<dir, name>> # <<newDir, newName>>
  /\ g.tree[<<dir, name>>] = NoInode
  /\ g.tree[<<newDir, newName>>] = f.tree[<<dir, name>>]
  /\ \A d \in Dirs, n \in Names :
       <<d, n>> \notin {<<dir, name>>, <<newDir, newName>>} =>
         g.tree[<<d, n>>] = f.tree[<<d, n>>]

LEMMA MovedTreeFields ==
  ASSUME NEW f \in FileSystems, IsTree(f), NEW dir \in Dirs, NEW name \in Names,
         NEW newDir \in Dirs, NEW newName \in Names,
         CanRename(f, dir, name, newDir, newName)
  PROVE  MovedTree(Renamed(f, dir, name, newDir, newName), f, dir, name, newDir, newName)
<1> DEFINE g == Renamed(f, dir, name, newDir, newName)
<1>1. /\ g \in FileSystems /\ g.gen = f.gen
      /\ g.tree = Put(Put(f.tree, <<dir, name>>, NoInode),
                      <<newDir, newName>>, f.tree[<<dir, name>>])
      /\ \A i \in Inodes \ {dir, newDir, f.tree[<<dir, name>>], f.tree[<<newDir, newName>>]} :
           g.attr[i] = f.attr[i]
  BY RenamedFields, RenamedAttrs
<1> HIDE DEF g
<1>2. /\ <<dir, name>> # <<newDir, newName>>
      /\ g.tree[<<dir, name>>] = NoInode
      /\ g.tree[<<newDir, newName>>] = f.tree[<<dir, name>>]
      /\ \A d \in Dirs, n \in Names :
           <<d, n>> \notin {<<dir, name>>, <<newDir, newName>>} =>
             g.tree[<<d, n>>] = f.tree[<<d, n>>]
      /\ IsTree(g)
      /\ \A i \in Inodes : Linked(g, i) => Linked(f, i)
      /\ f.tree[<<newDir, newName>>] # NoInode => ~Linked(g, f.tree[<<newDir, newName>>])
  BY <1>1, TreeMoves
<1>3. QED BY <1>1, <1>2 DEF MovedTree, g

\* rename.  What moves is not always what the move resolved.
LEMMA RenameMoves ==
  ASSUME IInv, Rename, IsTree(fs)
  PROVE  /\ op.pc = "call" /\ op.kind = "move" /\ resolver' = resolver /\ notices' = notices
         /\ \/ fs' = fs /\ op' = DrainTo(op, Ended) /\ overtaken' = overtaken
            \/ /\ op' = DrainTo(op, "renamed")
               /\ \E dir \in Dirs, name \in Names, newDir \in Dirs, newName \in Names,
                     i \in Inodes :
                    /\ dir = op.ino["parent"] /\ name = Leaf(op.path)
                    /\ newDir = op.ino["destParent"] /\ newName = Leaf(op.dest)
                    /\ i = fs.tree[<<dir, name>>] /\ Linked(fs, newDir)
                    /\ i \in Dirs => newDir = RootIno
                    /\ MovedTree(fs', fs, dir, name, newDir, newName)
                    /\ overtaken' = overtaken \cup ({i} \ {op.ino["target"]})
<1>1. /\ op.pc = "call" /\ op.kind = "move" /\ resolver' = resolver /\ notices' = notices
  BY DEF Rename, At, Is
<1>2. op \in Ops /\ fs \in FileSystems /\ op.path # Root /\ op.dest # Root
  BY <1>1, AtStep DEF WalkPCs, PathsFit
<1>3. Leaf(op.path) \in Names /\ Leaf(op.dest) \in Names
  BY <1>2, WalkPaths DEF Ops
<1>4. PICK dir, name, newDir, newName :
        /\ dir = op.ino["parent"] /\ name = Leaf(op.path)
        /\ newDir = op.ino["destParent"] /\ newName = Leaf(op.dest)
  OBVIOUS
<1>5. \/ fs' = fs /\ op' = DrainTo(op, Ended) /\ overtaken' = overtaken
      \/ /\ dir \in Dirs /\ newDir \in Dirs /\ Linked(fs, newDir)
         /\ CanRename(fs, dir, name, newDir, newName)
         /\ fs' = Renamed(fs, dir, name, newDir, newName) /\ op' = DrainTo(op, "renamed")
         /\ overtaken' = overtaken \cup ({fs.tree[<<dir, name>>]} \ {op.ino["target"]})
  BY <1>4 DEF Rename
<1>6. CASE /\ dir \in Dirs /\ newDir \in Dirs /\ Linked(fs, newDir)
           /\ CanRename(fs, dir, name, newDir, newName)
           /\ fs' = Renamed(fs, dir, name, newDir, newName) /\ op' = DrainTo(op, "renamed")
           /\ overtaken' = overtaken \cup ({fs.tree[<<dir, name>>]} \ {op.ino["target"]})
  <2>1. MovedTree(fs', fs, dir, name, newDir, newName)
    BY <1>2, <1>3, <1>4, <1>6, MovedTreeFields
  <2>2. PICK i \in Inodes : i = fs.tree[<<dir, name>>]
    BY <1>2, <1>3, <1>4, <1>6 DEF FileSystems, CanRename
  <2>3. i \in Dirs => newDir = RootIno
    BY <1>6, <2>2 DEF CanRename
  <2>4. QED BY <1>1, <1>3, <1>4, <1>6, <2>1, <2>2, <2>3
<1>7. QED BY <1>1, <1>5, <1>6

LEMMA RenameAttributes == ASSUME IInv, AttributesInv, Rename PROVE AttributesInv'
<1>1. /\ op.pc = "call" /\ op.kind = "move" /\ resolver' = resolver
      /\ notices' = notices
      /\ (fs' = fs /\ op' = DrainTo(op, Ended)) \/ op' = DrainTo(op, "renamed")
  BY RenameMoves DEF AttributesInv
<1>2. /\ op \in Ops /\ op.next # "store" /\ ChangedInodes(op) = {} /\ "target" \in Purposes
      /\ fs \in FileSystems
  BY <1>1, AtAttributes DEF Purposes
<1>3. ~Storing(op')
  BY <1>1, <1>2, NotStoring
<1>4. CASE fs' = fs /\ overtaken' = overtaken
  BY <1>1, <1>2, <1>3, <1>4, AnsweredFor DEF AttrsFewer
<1>5. ASSUME NEW dir \in Dirs, NEW name \in Names, NEW newDir \in Dirs, NEW newName \in Names,
             NEW i \in Inodes, dir = op.ino["parent"], newDir = op.ino["destParent"],
             i = fs.tree[<<dir, name>>], op' = DrainTo(op, "renamed"),
             MovedTree(fs', fs, dir, name, newDir, newName),
             overtaken' = overtaken \cup ({i} \ {op.ino["target"]})
      PROVE  AttributesInv'
  <2>1. op'.ino = op.ino /\ op'.next = "renamed" /\ op'.pc = "drain" /\ op'.kind = op.kind
    BY <1>2, <1>5, GotoFields DEF SameRequest
  <2>2. PICK t : t = op.ino["target"]
    OBVIOUS
  <2>3. ChangedInodes(op') = {dir, newDir, t}
    <3>1. op'.ino["parent"] = dir /\ op'.ino["destParent"] = newDir /\ op'.ino["target"] = t
      BY <1>5, <2>1, <2>2
    <3>2. op'.kind = "move" /\ op'.next = "renamed" /\ op'.pc = "drain"
      BY <1>1, <2>1
    <3>3. QED BY <3>1, <3>2 DEF ChangedInodes
  <2>4. fs.tree[<<newDir, newName>>] \in Inodes \cup {NoInode}
    BY <1>2 DEF FileSystems
  <2>5. ASSUME NEW j \in Inodes, Linked(fs', j), j \notin {dir, newDir, i}
        PROVE  Linked(fs, j) /\ fs'.attr[j] = fs.attr[j]
    <3>1. Linked(fs, j)
      BY <1>5, <2>5 DEF MovedTree
    <3>2. j # fs.tree[<<newDir, newName>>]
      <4>1. j # NoInode
        BY FileTreeAssumption
      <4>2. QED BY <1>5, <2>5, <4>1 DEF MovedTree
    <3>3. QED BY <1>5, <2>5, <3>1, <3>2 DEF MovedTree
  <2>6. \A j \in Inodes :
          Linked(fs', j) /\ j \notin overtaken' \cup ChangedInodes(op') =>
            /\ Linked(fs, j) /\ j \notin overtaken \cup ChangedInodes(op)
            /\ fs'.attr[j] = fs.attr[j]
    BY <1>2, <1>5, <2>2, <2>3, <2>5
  <2>7. IsTree(fs') /\ notices \subseteq notices'
    BY <1>1, <1>5 DEF MovedTree
  <2>8. QED BY <1>1, <1>3, <2>6, <2>7, FileStep
<1>6. QED BY <1>4, <1>5, RenameMoves DEF AttributesInv

\* After a rename: the attributes of what moved, the paths, the two directories.
LEMMA FinishMovedAttributes ==
  ASSUME IInv, AttributesInv,
         InvalidateMoved \/ InvalidateOldPath \/ InvalidateNewPath \/ FinishMoved
  PROVE  AttributesInv'
<1>1. /\ op.pc \in {"renamed", "forgetPath", "forgetDest", "touched"}
      /\ op.pc \in {"forgetPath", "touched"} => op.kind = "move"
  BY DEF InvalidateMoved, InvalidateOldPath, InvalidateNewPath, FinishMoved, At, Is
<1>2. /\ op \in Ops /\ op.next = "idle" /\ resolver \in Resolver /\ ResolverInv(resolver)
      /\ fs \in FileSystems /\ op.kind = "move"
  BY <1>1, AtStep, KindsKnown DEF WalkPCs, StepsOf, Ops, RequestKinds
<1>3. PICK dir \in Inodes, newDir \in Inodes, t \in Inodes \cup {NoInode} :
        dir = op.ino["parent"] /\ newDir = op.ino["destParent"] /\ t = op.ino["target"]
  <2>1. op.ino["parent"] \in Inodes /\ op.ino["destParent"] \in Inodes
    BY <1>1, <1>2, AtStep DEF WalkPCs
  <2>2. op.ino["target"] \in Inodes \cup {NoInode}
    BY <1>2 DEF Ops, Purposes
  <2>3. QED BY <2>1, <2>2
<1>4. CASE InvalidateMoved
  <2>1. /\ resolver' = (IF t = NoInode THEN resolver ELSE InvalidateInodeAttr(resolver, t))
        /\ op.pc = "renamed" /\ op' = Goto(op, "forgetPath") /\ fs' = fs /\ notices' = notices
        /\ overtaken' = overtaken
    BY <1>3, <1>4 DEF InvalidateMoved, environment, At
  <2>2. op'.ino = op.ino /\ op'.pc = "forgetPath" /\ op'.next = "idle" /\ op'.kind = op.kind
    BY <1>2, <2>1, GotoFields DEF SameRequest
  <2>3. ChangedInodes(op) = {dir, newDir, t} /\ ChangedInodes(op') = {dir, newDir}
        /\ ~Storing(op')
    BY <1>2, <1>3, <2>1, <2>2 DEF ChangedInodes, Storing
  <2>4. AttrsFewer(resolver', resolver) /\ (t \in Inodes => resolver'.inodes[t].attr \notin Attrs)
    <3>1. CASE t = NoInode
      BY <2>1, <3>1, FileTreeAssumption DEF AttrsFewer
    <3>2. CASE t # NoInode
      <4>1. t \in Inodes /\ resolver' = InvalidateInodeAttr(resolver, t)
        BY <2>1, <3>2
      <4>2. QED BY <1>2, <4>1, AttrFewer, FewerAttrs
    <3>3. QED BY <3>1, <3>2
  <2>5. QED BY <2>1, <2>3, <2>4, AnsweredFor
<1>5. CASE InvalidateOldPath \/ InvalidateNewPath
  <2>1. PICK k \in {op.path, op.dest}, pc \in {"forgetDest", "touched"} :
          InvalidatePathCache(k, Goto(op, pc))
    BY <1>5 DEF InvalidateOldPath, InvalidateNewPath
  <2>2. /\ Fewer(resolver', resolver) /\ SameFiles(fs', fs) /\ op' = Goto(op, pc)
        /\ notices' = notices /\ overtaken' = overtaken
    BY <1>2, <2>1, InvalidatePathFewer DEF environment
  <2>3. op'.ino = op.ino /\ op'.pc = pc /\ op'.next = "idle" /\ op'.kind = op.kind
    BY <1>2, <2>2, GotoFields DEF SameRequest
  <2>4. op.pc \in {"forgetPath", "forgetDest"}
    BY <1>5 DEF InvalidateOldPath, InvalidateNewPath, At
  <2>5. ChangedInodes(op) = {dir, newDir} /\ ChangedInodes(op') = {dir, newDir} /\ ~Storing(op')
    BY <1>2, <1>3, <2>3, <2>4 DEF ChangedInodes, Storing
  <2>6. QED BY <2>2, <2>5, FewerAttrs, AttrStep
<1>6. CASE FinishMoved
  <2>1. /\ resolver' = InvalidateInodeAttr(InvalidateInodeAttr(resolver, dir), newDir)
        /\ op.pc = "touched" /\ op' = IdleOp("drained") /\ fs' = fs /\ notices' = notices
        /\ overtaken' = overtaken
    BY <1>3, <1>6 DEF FinishMoved, environment, At
  <2>2. ChangedInodes(op) = {dir, newDir}
    BY <1>2, <1>3, <2>1 DEF ChangedInodes
  <2>3. /\ AttrsFewer(resolver', resolver) /\ resolver'.inodes[dir].attr \notin Attrs
        /\ resolver'.inodes[newDir].attr \notin Attrs
    BY <1>2, <2>1, TwoDropped, FewerAttrs
  <2>4. ~Storing(op')
    BY <2>1, IdleSettled
  <2>5. QED BY <2>1, <2>2, <2>3, <2>4, AnsweredFor
<1>7. QED BY <1>4, <1>5, <1>6

\* A request begins with a walk to its file, or to the directory of its path.
Fresh(o) == o \in Ops /\ o.next = "idle" /\ o.walk = NoWalk /\ o.late = FALSE

OnFileRequest(kind, path, ctx) == [Request(kind, path) EXCEPT !.ctx = ctx]
CreateRequest(path, plan, isDir) ==
  [Request("create", path) EXCEPT !.plan = plan, !.isDir = isDir]
DeleteRequest(path, ctx, isDir) ==
  [Request("delete", path) EXCEPT !.ctx = ctx, !.isDir = isDir]
MoveRequest(path, ctx, dest, replace) ==
  [Request("move", path) EXCEPT !.ctx = ctx, !.dest = dest, !.replace = replace]

LEMMA FreshOnFile ==
  ASSUME NEW kind \in Kinds, NEW path \in Keys,
         NEW ctx \in Inodes \cup {NoInode},
         NEW o, o = OnFileRequest(kind, path, ctx)
  PROVE  Fresh(o) /\ o.kind = kind /\ o.path = path
<1>1. PICK b : b = Request(kind, path)
  OBVIOUS
<1>2. /\ b \in Ops /\ b.kind = kind /\ b.path = path /\ b.next = "idle"
      /\ b.walk = NoWalk /\ b.late = FALSE
  <2>1. b.late = FALSE
    BY <1>1 DEF Request, IdleOp
  <2>2. QED BY <1>1, <2>1, RequestStarts
<1>3. o = [b EXCEPT !.ctx = ctx]
  BY <1>1 DEF OnFileRequest
<1>4. QED BY <1>2, <1>3 DEF Fresh, Ops

LEMMA FreshCreate ==
  ASSUME "create" \in Kinds, NEW path \in Keys,
         NEW isDir \in BOOLEAN, NEW plan \in {"open", "createNew", "createOrOpen"},
         NEW o, o = CreateRequest(path, plan, isDir)
  PROVE  Fresh(o) /\ o.kind = "create" /\ o.path = path
<1>1. PICK b : b = Request("create", path)
  OBVIOUS
<1>2. /\ b \in Ops /\ b.kind = "create" /\ b.path = path /\ b.next = "idle"
      /\ b.walk = NoWalk /\ b.late = FALSE
  <2>1. b.late = FALSE
    BY <1>1 DEF Request, IdleOp
  <2>2. QED BY <1>1, <2>1, RequestStarts
<1>3. o = [b EXCEPT !.plan = plan, !.isDir = isDir]
  BY <1>1 DEF CreateRequest
<1>4. QED BY <1>2, <1>3 DEF Fresh, Ops

LEMMA FreshDelete ==
  ASSUME "delete" \in Kinds, NEW path \in Keys,
         NEW ctx \in Inodes \cup {NoInode}, NEW isDir \in BOOLEAN,
         NEW o, o = DeleteRequest(path, ctx, isDir)
  PROVE  Fresh(o) /\ o.kind = "delete" /\ o.path = path
<1>1. PICK b : b = Request("delete", path)
  OBVIOUS
<1>2. /\ b \in Ops /\ b.kind = "delete" /\ b.path = path /\ b.next = "idle"
      /\ b.walk = NoWalk /\ b.late = FALSE
  <2>1. b.late = FALSE
    BY <1>1 DEF Request, IdleOp
  <2>2. QED BY <1>1, <2>1, RequestStarts
<1>3. o = [b EXCEPT !.ctx = ctx, !.isDir = isDir]
  BY <1>1 DEF DeleteRequest
<1>4. QED BY <1>2, <1>3 DEF Fresh, Ops

LEMMA FreshMove ==
  ASSUME "move" \in Kinds, NEW path \in Keys,
         NEW dest \in Keys,
         NEW ctx \in Inodes \cup {NoInode}, NEW replace \in BOOLEAN,
         NEW o, o = MoveRequest(path, ctx, dest, replace)
  PROVE  Fresh(o) /\ o.kind = "move" /\ o.path = path
<1>1. PICK b : b = Request("move", path)
  OBVIOUS
<1>2. /\ b \in Ops /\ b.kind = "move" /\ b.path = path /\ b.next = "idle"
      /\ b.walk = NoWalk /\ b.late = FALSE
  <2>1. b.late = FALSE
    BY <1>1 DEF Request, IdleOp
  <2>2. QED BY <1>1, <2>1, RequestStarts
<1>3. o = [b EXCEPT !.ctx = ctx, !.dest = dest, !.replace = replace]
  BY <1>1 DEF MoveRequest
<1>4. QED BY <1>2, <1>3 DEF Fresh, Ops

LEMMA ArrivalStarts ==
  ASSUME IInv, Arrival
  PROVE  /\ op \in Ops /\ op.pc = "idle" /\ op.next = "idle"
         /\ resolver' = resolver /\ fs' = fs /\ notices' = notices
         /\ overtaken' = overtaken /\ changes' = changes
         /\ \E o : /\ Fresh(o) /\ o.path \in Keys
                   /\ \/ OnFile(o.kind) /\ op' = ResolveContextOrPath(o, o.path)
                      \/ /\ o.kind \in {"create", "delete", "move"}
                         /\ op' = Resolve(o, IF o.path = Root THEN Root ELSE Parent(o.path),
                                          "parent")
<1> DEFINE Starts(o) ==
      /\ Fresh(o) /\ o.path \in Keys
      /\ \/ OnFile(o.kind) /\ op' = ResolveContextOrPath(o, o.path)
         \/ /\ o.kind \in {"create", "delete", "move"}
            /\ op' = Resolve(o, IF o.path = Root THEN Root ELSE Parent(o.path), "parent")
<1>1. \E kind, o : Begin(kind, o)
  BY DEF Arrival, RequestOnFile, CreateFile, CleanupDelete, MoveFile
<1>2. /\ op.pc = "idle" /\ resolver' = resolver /\ fs' = fs /\ notices' = notices
      /\ overtaken' = overtaken /\ changes' = changes
  BY <1>1 DEF Begin, At
<1>3. op \in Ops /\ op.next = "idle"
  BY <1>2 DEF IInv, Typed, OpInv, InOrder
<1>4. ASSUME NEW path \in Keys, NEW kind \in Kinds, RequestOnFile(kind, path)
      PROVE  \E o : Starts(o)
  <2>1. PICK ctx \in Handles(path) :
          Begin(kind, ResolveContextOrPath([Request(kind, path) EXCEPT !.ctx = ctx], path))
    BY <1>4 DEF RequestOnFile
  <2>2. PICK o : o = OnFileRequest(kind, path, ctx)
    OBVIOUS
  <2>3. Fresh(o) /\ o.kind = kind /\ o.path = path
    BY <2>2, HandlesType, FreshOnFile
  <2>4. op' = ResolveContextOrPath(o, path)
    BY <2>1, <2>2 DEF Begin, OnFileRequest
  <2>5. OnFile(o.kind)
    BY <1>4, <2>3 DEF RequestOnFile, OnFile
  <2>6. QED BY <2>3, <2>4, <2>5
<1>5. ASSUME NEW path \in Keys, CreateFile(path) PROVE \E o : Starts(o)
  <2>1. PICK plan \in {"open", "createNew", "createOrOpen"}, isDir \in BOOLEAN :
          Begin("create",
            Resolve([Request("create", path) EXCEPT !.plan = plan, !.isDir = isDir],
                    IF path = Root THEN Root ELSE Parent(path), "parent"))
    BY <1>5 DEF CreateFile
  <2>2. PICK o : o = CreateRequest(path, plan, isDir)
    OBVIOUS
  <2>3. Fresh(o) /\ o.kind = "create" /\ o.path = path
    BY <2>1, <2>2, FreshCreate DEF Begin
  <2>4. op' = Resolve(o, IF path = Root THEN Root ELSE Parent(path), "parent")
    BY <2>1, <2>2 DEF Begin, CreateRequest
  <2>5. QED BY <2>3, <2>4
<1>6. ASSUME NEW path \in Keys, CleanupDelete(path) PROVE \E o : Starts(o)
  <2>1. PICK ctx \in Handles(path), isDir \in BOOLEAN :
          /\ path # Root
          /\ Begin("delete",
               Resolve([Request("delete", path) EXCEPT !.ctx = ctx, !.isDir = isDir],
                       Parent(path), "parent"))
    BY <1>6 DEF CleanupDelete
  <2>2. PICK o : o = DeleteRequest(path, ctx, isDir)
    OBVIOUS
  <2>3. Fresh(o) /\ o.kind = "delete" /\ o.path = path
    BY <2>1, <2>2, HandlesType, FreshDelete DEF Begin
  <2>4. op' = Resolve(o, IF path = Root THEN Root ELSE Parent(path), "parent")
    BY <2>1, <2>2 DEF Begin, DeleteRequest
  <2>5. QED BY <2>3, <2>4
<1>7. ASSUME NEW path \in Keys, NEW dest \in Keys, MoveFile(path, dest) PROVE \E o : Starts(o)
  <2>1. PICK ctx \in Handles(path), replace \in BOOLEAN :
          /\ path # Root
          /\ Begin("move",
               Resolve([Request("move", path) EXCEPT !.ctx = ctx, !.dest = dest,
                                                     !.replace = replace],
                       Parent(path), "parent"))
    BY <1>7 DEF MoveFile
  <2>2. PICK o : o = MoveRequest(path, ctx, dest, replace)
    OBVIOUS
  <2>3. Fresh(o) /\ o.kind = "move" /\ o.path = path
    BY <2>1, <2>2, HandlesType, FreshMove DEF Begin
  <2>4. op' = Resolve(o, IF path = Root THEN Root ELSE Parent(path), "parent")
    BY <2>1, <2>2 DEF Begin, MoveRequest
  <2>5. QED BY <2>3, <2>4
<1>8. \E o : Starts(o)
  BY <1>4, <1>5, <1>6, <1>7 DEF Arrival
<1>9. QED BY <1>2, <1>3, <1>8

LEMMA ArrivalAttributes == ASSUME IInv, AttributesInv, Arrival PROVE AttributesInv'
<1>1. /\ op \in Ops /\ op.pc = "idle" /\ op.next = "idle"
      /\ resolver' = resolver /\ fs' = fs /\ notices' = notices /\ overtaken' = overtaken
  BY ArrivalStarts
<1>2. PICK o : /\ Fresh(o)
               /\ \E key : \E p \in Purposes :
                    op' \in {ResolveContextOrPath(o, o.path), Resolve(o, key, p)}
  <2>1. "parent" \in Purposes
    BY DEF Purposes
  <2>2. QED BY <2>1, ArrivalStarts
<1>3. ~Storing(op')
  BY <1>2, NotStoring DEF Fresh
<1>4. ChangedInodes(op) = {}
  BY <1>1 DEF ChangedInodes
<1>5. QED BY <1>1, <1>3, <1>4, AnsweredFor DEF AttrsFewer

\* The attributes on their way to the cache are those of an inode.
LEMMA StoringTarget ==
  ASSUME IInv, Storing(op)
  PROVE  op.ino["target"] \in Inodes /\ op.kind = "getattr"
<1>1. OpInv(op)
  BY DEF IInv, Typed
<1>2. op.kind \in RequestKinds \cup {"none"}
  BY <1>1, KindsKnown DEF OpInv, Ops
<1>3. op.pc \notin WalkPCs /\ op.kind = "getattr"
  BY <1>1, <1>2 DEF OpInv, InOrder, Storing, AfterDrain, StepsOf, WalkPCs, RequestKinds, Ended
<1>4. QED BY <1>1, <1>3 DEF OpInv, InodesKnown, OnFile, Resolving

\* The file system announces every attribute it changes.
LEMMA ChangeAttributes ==
  ASSUME IInv, AttributesInv, NEW f \in FileSystems, IsTree(f), NEW due, Change(f, due),
         \A i \in Inodes : Linked(f, i) =>
           Linked(fs, i) \/ f.attr[i] # fs.attr[i] \/ Attrs = {fs.attr[i]}
  PROVE  AttributesInv'
<1>1. /\ fs' = f /\ resolver' = resolver /\ op' = op /\ overtaken' = overtaken
      /\ notices \subseteq notices'
      /\ InodeNotices({i \in Inodes : f.attr[i] # fs.attr[i]}) \subseteq notices'
  BY DEF Change
<1>2. \A i : AnnouncedAttr(notices, i) => AnnouncedAttr(notices', i)
  BY <1>1 DEF AnnouncedAttr
<1>3. \A i \in Inodes : f.attr[i] = fs.attr[i] \/ AnnouncedAttr(notices', i)
  <2>1. ASSUME NEW i \in Inodes, f.attr[i] # fs.attr[i] PROVE AnnouncedAttr(notices', i)
    <3>1. [about |-> "inode", ino |-> i] \in notices'
      BY <1>1, <2>1 DEF InodeNotices
    <3>2. QED BY <3>1 DEF AnnouncedAttr
  <2>2. QED BY <2>1
<1>4. ASSUME NEW i \in Inodes, i \notin overtaken' \cup ChangedInodes(op'),
             resolver'.inodes[i].attr \in Attrs, Linked(fs', i)
      PROVE  resolver'.inodes[i].attr = fs'.attr[i] \/ AnnouncedAttr(notices', i)
  <2>1. i \notin overtaken \cup ChangedInodes(op) /\ resolver.inodes[i].attr \in Attrs
    BY <1>1, <1>4
  <2>2. Linked(fs, i) \/ f.attr[i] # fs.attr[i] \/ Attrs = {fs.attr[i]}
    BY <1>1, <1>4
  <2>3. CASE Linked(fs, i)
    BY <1>1, <1>2, <1>3, <2>1, <2>3 DEF AttributesInv
  <2>4. CASE f.attr[i] # fs.attr[i]
    BY <1>3, <2>4
  <2>5. CASE Attrs = {fs.attr[i]}
    BY <1>1, <1>3, <2>1, <2>5
  <2>6. QED BY <2>2, <2>3, <2>4, <2>5
<1>5. ASSUME Storing(op')
      PROVE  \/ op'.late \/ op'.reply.attr = fs'.attr[op'.ino["target"]]
             \/ AnnouncedAttr(notices', op'.ino["target"])
  <2>1. Storing(op)
    BY <1>1, <1>5
  <2>2. PICK t \in Inodes : t = op.ino["target"]
    BY <2>1, StoringTarget
  <2>3. op.late \/ op.reply.attr = fs.attr[t] \/ AnnouncedAttr(notices, t)
    BY <2>1, <2>2 DEF AttributesInv, Storing
  <2>4. QED BY <1>1, <1>2, <1>3, <2>2, <2>3
<1>6. QED BY <1>1, <1>4, <1>5 DEF AttributesInv, Storing

LEMMA RemovedTree ==
  ASSUME NEW f \in FileSystems, IsTree(f), NEW dir \in Dirs, NEW name \in Names
  PROVE  LET g == Removed(f, dir, name) IN
         /\ g \in FileSystems /\ IsTree(g) /\ g.gen = f.gen
         /\ \A i \in Inodes : Linked(g, i) => Linked(f, i)
         /\ \A d \in Dirs, n \in Names :
              g.tree[<<d, n>>] = IF <<d, n>> = <<dir, name>> \/ d = f.tree[<<dir, name>>]
                                   THEN NoInode ELSE f.tree[<<d, n>>]
<1> DEFINE g == Removed(f, dir, name)
<1>1. /\ g \in FileSystems /\ g.gen = f.gen
      /\ g.tree = [at \in Dirs \X Names |->
                     IF at = <<dir, name>> \/ at[1] = f.tree[<<dir, name>>]
                       THEN NoInode ELSE f.tree[at]]
  BY RemovedFields
<1> HIDE DEF g
<1>2. \A d \in Dirs, n \in Names :
        g.tree[<<d, n>>] = IF <<d, n>> = <<dir, name>> \/ d = f.tree[<<dir, name>>]
                             THEN NoInode ELSE f.tree[<<d, n>>]
  BY <1>1
<1>3. \A d \in Dirs, n \in Names : g.tree[<<d, n>>] \in {f.tree[<<d, n>>], NoInode}
  BY <1>2
<1>4. IsTree(g) /\ \A i \in Inodes : Linked(g, i) => Linked(f, i)
  BY <1>1, <1>3, TreeShrinks
<1>5. QED BY <1>1, <1>2, <1>4 DEF g

LEMMA FsStepAttributes == ASSUME IInv, AttributesInv, FsStep PROVE AttributesInv'
<1>1. fs \in FileSystems /\ IsTree(fs)
  BY DEF IInv, Typed, AttributesInv
<1>2. ASSUME NEW i \in Inodes, FsTouches(i) PROVE AttributesInv'
  <2>1. PICK g : g = Changed(fs, {i})
    OBVIOUS
  <2>2. g \in FileSystems /\ g.tree = fs.tree /\ g.gen = fs.gen
    BY <1>1, <2>1, ChangedFields
  <2>3. IsTree(g) /\ \A j \in Inodes : Linked(g, j) <=> Linked(fs, j)
    BY <1>1, <2>2 DEF IsTree, Linked, Named
  <2>4. Change(g, {})
    BY <1>2, <2>1 DEF FsTouches
  <2>5. QED BY <2>2, <2>3, <2>4, ChangeAttributes
<1>3. ASSUME NEW dir \in Dirs, NEW name \in Names, NEW i \in Inodes,
             FsMakes(dir, name, i)
      PROVE  AttributesInv'
  <2>1. ~Linked(fs, i) /\ fs.gen[i] + 1 \in Generations /\ (i \in Dirs => dir = RootIno)
    BY <1>3 DEF FsMakes, Unused
  <2>2. PICK g : g = Made(fs, dir, name, i)
    OBVIOUS
  <2>3. MadeTree(g, fs, dir, name, i)
    BY <1>1, <2>1, <2>2, MadeTreeFields
  <2>4. g.attr[i] # fs.attr[i] \/ Attrs = {fs.attr[i]}
    BY <1>1, <2>1, <2>2, MadeAttrs
  <2>5. \A j \in Inodes : Linked(g, j) =>
          Linked(fs, j) \/ g.attr[j] # fs.attr[j] \/ Attrs = {fs.attr[j]}
    BY <2>3, <2>4 DEF MadeTree
  <2>6. Change(g, {EntryNotice(dir, name)})
    BY <1>3, <2>2 DEF FsMakes
  <2>7. QED BY <2>3, <2>5, <2>6, ChangeAttributes DEF MadeTree
<1>4. ASSUME NEW dir \in Dirs, NEW name \in Names, FsRemoves(dir, name)
      PROVE  AttributesInv'
  <2>1. PICK g : g = Removed(fs, dir, name)
    OBVIOUS
  <2>2. g \in FileSystems /\ IsTree(g) /\ \A j \in Inodes : Linked(g, j) => Linked(fs, j)
    BY <1>1, <2>1, RemovedTree
  <2>3. \E due : Change(g, due)
    BY <1>4, <2>1 DEF FsRemoves
  <2>4. QED BY <2>2, <2>3, ChangeAttributes
<1>5. ASSUME NEW dir \in Dirs, NEW name \in Names, NEW newDir \in Dirs,
             NEW newName \in Names, FsMoves(dir, name, newDir, newName)
      PROVE  AttributesInv'
  <2>1. PICK g : g = Renamed(fs, dir, name, newDir, newName)
    OBVIOUS
  <2>2. MovedTree(g, fs, dir, name, newDir, newName)
    BY <1>1, <1>5, <2>1, MovedTreeFields DEF FsMoves
  <2>3. \E due : Change(g, due)
    BY <1>5, <2>1 DEF FsMoves
  <2>4. QED BY <2>2, <2>3, ChangeAttributes DEF MovedTree
<1>6. QED BY <1>2, <1>3, <1>4, <1>5 DEF FsStep

\* What a notification is about is dropped, or overtakes what the handler holds.
LEMMA NotifyAttributes ==
  ASSUME AttributesInv, op \in Ops, NEW n \in notices, notices' = notices \ {n}, fs' = fs,
         overtaken' = overtaken, AttrsFewer(resolver', resolver),
         NEW late \in BOOLEAN, op' = WithLate(op, late), op.late => late,
         \A i : AnnouncedAttr({n}, i) =>
           /\ i \in Inodes => resolver'.inodes[i].attr \notin Attrs
           /\ Storing(op) /\ op.ino["target"] = i => late
  PROVE  AttributesInv'
<1>1. /\ op'.pc = op.pc /\ op'.next = op.next /\ op'.late = late /\ op'.reply = op.reply
      /\ op'.ino = op.ino /\ op'.kind = op.kind
  BY DEF Ops, WithLate
<1>2. \A i : AnnouncedAttr(notices, i) => AnnouncedAttr(notices', i) \/ AnnouncedAttr({n}, i)
  BY DEF AnnouncedAttr
<1>3. ChangedInodes(op') = ChangedInodes(op)
  BY <1>1 DEF ChangedInodes
<1>4. ASSUME NEW i \in Inodes, i \notin overtaken' \cup ChangedInodes(op'),
             resolver'.inodes[i].attr \in Attrs, Linked(fs', i)
      PROVE  resolver'.inodes[i].attr = fs'.attr[i] \/ AnnouncedAttr(notices', i)
  <2>1. resolver'.inodes[i].attr = resolver.inodes[i].attr
    BY <1>4 DEF AttrsFewer
  <2>2. resolver.inodes[i].attr = fs.attr[i] \/ AnnouncedAttr(notices, i)
    BY <1>3, <1>4, <2>1 DEF AttributesInv
  <2>3. ~AnnouncedAttr({n}, i)
    BY <1>4
  <2>4. QED BY <1>2, <2>1, <2>2, <2>3
<1>5. ASSUME Storing(op')
      PROVE  \/ op'.late \/ op'.reply.attr = fs'.attr[op'.ino["target"]]
             \/ AnnouncedAttr(notices', op'.ino["target"])
  <2>1. PICK t : t = op.ino["target"]
    OBVIOUS
  <2>2. Storing(op)
    BY <1>1, <1>5 DEF Storing
  <2>3. op.late \/ op.reply.attr = fs.attr[t] \/ AnnouncedAttr(notices, t)
    BY <2>1, <2>2 DEF AttributesInv, Storing
  <2>4. AnnouncedAttr({n}, t) => late
    BY <2>1, <2>2
  <2>5. QED BY <1>1, <1>2, <2>1, <2>3, <2>4
<1>6. QED BY <1>4, <1>5 DEF AttributesInv, Storing

LEMMA NotifierAttributes == ASSUME IInv, AttributesInv, Notifier PROVE AttributesInv'
<1>1. PICK n \in notices : Notify(n)
  BY DEF Notifier
<1>2. /\ ResolverInv(resolver) /\ resolver \in Resolver /\ op \in Ops
      /\ n \in NoticeTypes /\ op.late \in BOOLEAN
  BY DEF IInv, Typed, OpInv, ResolverInv, Ops
<1>3. notices' = notices \ {n} /\ fs' = fs /\ overtaken' = overtaken
  BY <1>1 DEF Notify
<1>4. CASE InvalInode(n)
  <2>1. /\ n.about = "inode" /\ resolver' = InvalidateInodeAttr(resolver, n.ino)
        /\ op' = [op EXCEPT !.late = @ \/ HoldsAttributesOf(n.ino)]
    BY <1>4 DEF InvalInode
  <2>2. PICK i \in Inodes : i = n.ino
    BY <1>2, <2>1 DEF NoticeTypes
  <2>3. PICK late \in BOOLEAN : late = (op.late \/ HoldsAttributesOf(i))
    BY <1>2 DEF HoldsAttributesOf
  <2>4. op' = WithLate(op, late)
    BY <1>2, <2>1, <2>2, <2>3 DEF WithLate, Ops
  <2>5. \A j : AnnouncedAttr({n}, j) => j = i
    BY <2>1, <2>2 DEF AnnouncedAttr
  <2>6. AttrsFewer(resolver', resolver) /\ resolver'.inodes[i].attr \notin Attrs
    BY <1>2, <2>1, <2>2, AttrFewer, FewerAttrs
  <2>7. Storing(op) /\ op.ino["target"] = i => late
    BY <2>3 DEF HoldsAttributesOf, Storing
  <2>8. QED BY <1>2, <1>3, <2>3, <2>4, <2>5, <2>6, <2>7, NotifyAttributes
<1>5. CASE InvalEntry(n)
  <2>1. PICK r : r = InvalidateEntry(resolver, n.dir, n.name)
    OBVIOUS
  <2>2. /\ n.about \in {"entry", "delete"}
        /\ resolver' = IF n.about = "delete" THEN InvalidateInodeAttr(Taken(r), n.child)
                                             ELSE Taken(r)
        /\ op' = [op EXCEPT !.late = op.late \/ HoldsReplyAbout(n.dir, n.name)
                               \/ (n.about = "delete" /\ HoldsAttributesOf(n.child))]
    <3>1. n.about \in {"entry", "delete"}
      BY <1>5 DEF InvalEntry
    <3>2. resolver' = IF n.about = "delete" THEN InvalidateInodeAttr(Taken(r), n.child)
                                            ELSE Taken(r)
      BY <1>5, <2>1 DEF InvalEntry
    <3>3. op' = [op EXCEPT !.late = op.late \/ HoldsReplyAbout(n.dir, n.name)
                               \/ (n.about = "delete" /\ HoldsAttributesOf(n.child))]
      BY <1>2, <1>5 DEF InvalEntry, Ops
    <3>4. QED BY <3>1, <3>2, <3>3
  <2>3. ResolverInv(r) /\ Fewer(r, resolver)
    <3>1. EntriesNamed(resolver, n.dir, n.name) \in SUBSET Keys
      BY DEF EntriesNamed
    <3>2. QED BY <1>2, <2>1, <3>1, InvalidateInv, InvalidateFewer DEF InvalidateEntry
  <2>4. ResolverInv(Taken(r)) /\ Fewer(Taken(r), resolver)
    <3>1. Taken(r).paths = r.paths /\ Taken(r).inodes = r.inodes /\ ResolverInv(Taken(r))
      BY <2>3, TakenInv
    <3>2. QED BY <2>3, <3>1, FewerSame, FewerTrans
  <2>5. PICK held \in BOOLEAN : held = HoldsReplyAbout(n.dir, n.name)
    BY DEF HoldsReplyAbout
  <2>6. CASE n.about = "entry"
    <3>1. PICK late \in BOOLEAN : late = (op.late \/ held)
      BY <1>2
    <3>2. op' = WithLate(op, late)
      BY <1>2, <2>2, <2>5, <2>6, <3>1 DEF WithLate, Ops
    <3>3. \A j : ~AnnouncedAttr({n}, j)
      BY <2>6 DEF AnnouncedAttr
    <3>4. AttrsFewer(resolver', resolver)
      BY <2>2, <2>4, <2>6, FewerAttrs
    <3>5. QED BY <1>2, <1>3, <3>1, <3>2, <3>3, <3>4, NotifyAttributes
  <2>7. CASE n.about = "delete"
    <3>1. PICK i \in Inodes : i = n.child
      BY <1>2, <2>7 DEF NoticeTypes
    <3>2. PICK late \in BOOLEAN : late = (op.late \/ held \/ HoldsAttributesOf(i))
      BY <1>2 DEF HoldsAttributesOf
    <3>3. op' = WithLate(op, late)
      BY <1>2, <2>2, <2>5, <2>7, <3>1, <3>2 DEF WithLate, Ops
    <3>4. \A j : AnnouncedAttr({n}, j) => j = i
      BY <2>7, <3>1 DEF AnnouncedAttr
    <3>5. resolver' = InvalidateInodeAttr(Taken(r), i)
      BY <2>2, <2>7, <3>1
    <3>6. Fewer(resolver', Taken(r)) /\ resolver'.inodes[i].attr \notin Attrs
      BY <2>4, <3>5, AttrFewer DEF ResolverInv
    <3>7. AttrsFewer(resolver', resolver)
      BY <2>4, <3>6, FewerTrans, FewerAttrs
    <3>8. Storing(op) /\ op.ino["target"] = i => late
      BY <3>2 DEF HoldsAttributesOf, Storing
    <3>9. QED BY <1>2, <1>3, <3>2, <3>3, <3>4, <3>6, <3>7, <3>8, NotifyAttributes
  <2>8. QED BY <2>2, <2>6, <2>7
<1>6. QED BY <1>1, <1>4, <1>5 DEF Notify

LEMMA TimeAttributes == ASSUME IInv, AttributesInv, Time PROVE AttributesInv'
<1>1. /\ fs' = fs /\ op' = op /\ notices' = notices /\ overtaken' = overtaken
  BY DEF Time, EntryExpires, AttrExpires, environment
<1>2. resolver \in Resolver
  BY DEF IInv, Typed, ResolverInv
<1>3. AttrsFewer(resolver', resolver)
  <2>1. ASSUME NEW k \in Keys, EntryExpires(k) PROVE AttrsFewer(resolver', resolver)
    <3>1. IsPresent(resolver.paths[k]) /\ resolver' = ExpireEntry(resolver, k)
      BY <2>1 DEF EntryExpires
    <3>2. resolver'.inodes = resolver.inodes
      BY <1>2, <3>1, ExpireEntryFields
    <3>3. QED BY <3>2 DEF AttrsFewer
  <2>2. ASSUME NEW i \in Inodes, AttrExpires(i) PROVE AttrsFewer(resolver', resolver)
    BY <1>2, <2>2, AttrFewer, FewerAttrs DEF AttrExpires
  <2>3. QED BY <2>1, <2>2 DEF Time
<1>4. SameFiles(fs', fs)
  BY <1>1 DEF SameFiles
<1>5. QED BY <1>1, <1>3, <1>4, AttrStep

LEMMA NextAttributes == ASSUME IInv, AttributesInv, Next PROVE AttributesInv'
<1>1. ASSUME HandlerStep PROVE AttributesInv'
  <2>1. CASE \/ Reap \/ CachedComponent \/ LookupComponent
             \/ RememberComponent \/ RememberMissingComponent \/ Unresolved \/ Drain
    BY <2>1, WalkAttributes, DrainAttributes
  <2>2. CASE \/ CachedAttributes \/ GetAttributes \/ StoreAttributes
             \/ SetAttributes \/ FinishMutation \/ InvalidateParentAttr
             \/ InvalidateMutatedPath \/ FinishSetXattr \/ Access \/ Probe \/ ProbeAgain
    BY <2>2, DropAttributes, GetAttributesAttributes, StoreAttributesAttributes,
       SetAttributesAttributes, FinishMutationAttributes, PlainAttributes
  <2>3. CASE \/ OpenExisting \/ MakeEntry \/ FinishCreated \/ OpenCollision \/ OpenResolved
             \/ RemoveEntry \/ InvalidateRemovedPath \/ FinishRemoved
    BY <2>3, PlainAttributes, MakeEntryAttributes, FinishCreatedAttributes, DropAttributes,
       RemoveEntryAttributes, FinishRemovedAttributes
  <2>4. CASE \/ ResolveNewParent \/ ResolveMoved \/ CheckClash \/ Clash \/ Rename
             \/ InvalidateMoved \/ InvalidateOldPath \/ InvalidateNewPath \/ FinishMoved
    BY <2>4, PlainAttributes, RenameAttributes, FinishMovedAttributes
  <2>5. QED BY <1>1, <2>1, <2>2, <2>3, <2>4 DEF HandlerStep
<1>2. QED BY <1>1, ArrivalAttributes, FsStepAttributes, NotifierAttributes, TimeAttributes
          DEF Next

LEMMA InitAttributes == Init => AttributesInv
<1> SUFFICES ASSUME Init PROVE AttributesInv
  OBVIOUS
<1>1. PICK negativeTtl \in BOOLEAN : resolver = EmptyResolver(negativeTtl)
  BY DEF Init
<1>2. \A i \in Inodes : resolver.inodes[i].attr = NoAttr
  BY <1>1 DEF EmptyResolver, Untracked
<1>3. NoAttr \notin Attrs
  BY ConstantsAssumption
<1>4. IsTree(fs)
  BY AdapterAssumption DEF Init
<1>5. ~Storing(op)
  BY IdleSettled DEF Init
<1>6. QED BY <1>2, <1>3, <1>4, <1>5 DEF AttributesInv, Storing

\* Cached attributes agree with the file system after every step: those of the
\* inodes a handler changed once it dropped them, and those the file system
\* changed by itself once it said so (metadata_io.rs:297-305, state.rs:265-290).
THEOREM AttributesInvariance == Spec => []AttributesInv
<1>1. IInv /\ AttributesInv /\ [Next]_vars => AttributesInv'
  <2>1. ASSUME IInv, AttributesInv, UNCHANGED vars PROVE AttributesInv'
    <3>1. /\ resolver' = resolver /\ fs' = fs /\ op' = op /\ notices' = notices
          /\ overtaken' = overtaken
      BY <2>1 DEF vars
    <3>2. AttrsFewer(resolver', resolver) /\ SameFiles(fs', fs)
      BY <3>1 DEF AttrsFewer, SameFiles
    <3>3. QED BY <2>1, <3>1, <3>2, AttrStep
  <2>2. QED BY <2>1, NextAttributes
<1>2. QED BY InitAttributes, Invariance, <1>1, PTL DEF Spec

\* Between two requests the attributes that would be answered from the cache
\* are those of the file system, but for the excuses that AttributesCoherent
\* names (metadata_io.rs:297-305, path_routes.rs:191-197, create_routes.rs:327-331).
THEOREM AttributesStayCoherent == Spec => []AttributesCoherent
<1>1. IInv /\ AttributesInv => AttributesCoherent
  <2> SUFFICES ASSUME IInv, AttributesInv, AtRest PROVE AttributesCoherent
    BY DEF AttributesCoherent
  <2>1. op.pc = "idle" /\ op.next = "idle"
    BY DEF AtRest, At, IInv, Typed, OpInv, InOrder
  <2>2. ChangedInodes(op) = {}
    BY <2>1 DEF ChangedInodes
  <2>3. QED BY <2>2 DEF AttributesInv, AttributesCoherent, UnannouncedAttr
<1>2. QED BY AttributesInvariance, Invariance, <1>1, PTL

-----------------------------------------------------------------------------
(* Places *)

\* Paths of one and of two names.
LEMMA PathShape ==
  ASSUME NEW k \in Keys, k # Root
  PROVE  /\ k \in Seq(Names) /\ Len(k) \in Nat /\ Len(k) > 0 /\ Leaf(k) \in Names
         /\ Parent(k) \in Seq(Names) /\ Len(Parent(k)) = Len(k) - 1
         /\ Len(k) = 1 <=> Parent(k) = Root
         /\ Len(k) = 1 => k = <<Leaf(k)>> /\ k[1] = Leaf(k)
         /\ Len(Parent(k)) = 1 =>
              /\ Parent(k) = <<k[1]>> /\ Parent(k)[1] = k[1] /\ k[1] \in Names
<1>1. k \in Seq(Names) /\ Len(k) \in Nat /\ Len(k) > 0 /\ Leaf(k) \in Names
  BY WalkPaths
<1>2. Len(k) - 1 \in 0 .. Len(k)
  BY <1>1
<1>3. /\ Parent(k) \in Seq(Names) /\ Len(Parent(k)) = Len(k) - 1
      /\ \A j \in 1 .. Len(k) - 1 : Parent(k)[j] = k[j]
  BY <1>1, <1>2, Prefixes DEF Parent
<1>4. Len(k) = 1 <=> Parent(k) = Root
  <2>1. Len(Root) = 0 /\ \A s \in Seq(Names) : Len(s) = 0 => s = Root
    BY DEF Root
  <2>2. QED BY <1>1, <1>3, <2>1
<1>5. ASSUME Len(k) = 1 PROVE k = <<Leaf(k)>> /\ k[1] = Leaf(k)
  BY <1>1, <1>5 DEF Leaf
<1>6. ASSUME Len(Parent(k)) = 1
      PROVE  Parent(k) = <<k[1]>> /\ Parent(k)[1] = k[1] /\ k[1] \in Names
  <2>a. Len(Parent(k)) = Len(k) - 1
    BY <1>3
  <2>b. PICK n \in Nat : n = Len(k)
    BY <1>1
  <2>c. n - 1 = 1
    BY <2>a, <2>b, <1>6
  <2>d. n = 2
    BY <2>b, <2>c
  <2>1. Len(k) = 2
    BY <2>b, <2>d
  <2>2. k[1] \in Names
    <3>1. \A j \in 1 .. Len(k) : k[j] \in Names
      BY <1>1
    <3>2. 1 \in 1 .. Len(k)
      BY <2>1
    <3>3. QED BY <3>1, <3>2
  <2>3. Parent(k)[1] = k[1] /\ Parent(k) = <<Parent(k)[1]>>
    BY <1>1, <1>3, <1>6, <2>1
  <2>4. QED BY <2>2, <2>3
<1>7. QED BY <1>1, <1>3, <1>4, <1>5, <1>6

\* A directory that is somewhere is at one path.
LEMMA OnePlace ==
  ASSUME NEW f \in FileSystems, IsTree(f), NEW d \in Dirs, NEW gen,
         Current(f, d, gen),
         NEW k \in Seq(Names), Fits(f, k, d, gen), Placed(f, k, d, gen),
         NEW c \in Seq(Names), Fits(f, c, d, gen), Placed(f, c, d, gen)
  PROVE  k = c
<1>1. CASE d = RootIno
  BY <1>1 DEF Fits
<1>2. CASE d # RootIno
  <2>1. /\ Len(k) = 1 /\ f.tree[<<RootIno, k[1]>>] = d
        /\ Len(c) = 1 /\ f.tree[<<RootIno, c[1]>>] = d
    BY <1>2 DEF Fits, Placed, Current
  <2>2. k[1] \in Names /\ k = <<k[1]>>
    BY <2>1
  <2>a. c[1] \in Names /\ c = <<c[1]>>
    BY <2>1
  <2>3. RootIno \in Dirs /\ d # NoInode
    BY FileTreeAssumption
  <2>4. k[1] = c[1]
    BY <2>1, <2>2, <2>a, <2>3 DEF IsTree
  <2>5. QED BY <2>2, <2>a, <2>4
<1>3. QED BY <1>1, <1>2

\* The names of one directory are at paths that differ in their last name.
LEMMA OneName ==
  ASSUME NEW k \in Keys, k # Root, NEW c \in Keys, c # Root,
         Parent(k) = Parent(c), Leaf(k) = Leaf(c)
  PROVE  k = c
<1>1. /\ k \in Seq(Names) /\ c \in Seq(Names) /\ Len(k) = Len(c) /\ Len(k) \in Nat /\ Len(k) > 0
  <2>1. Len(k) - 1 = Len(c) - 1
    BY PathShape
  <2>2. QED BY <2>1, PathShape
<1>2. Len(k) - 1 \in 0 .. Len(k)
  BY <1>1
<1>3. \A j \in 1 .. Len(k) - 1 : k[j] = c[j]
  BY <1>1, <1>2, Prefixes DEF Parent
<1>4. k[Len(k)] = c[Len(c)]
  BY DEF Leaf
<1>5. \A j \in 1 .. Len(k) : k[j] = c[j]
  BY <1>1, <1>3, <1>4
<1>6. QED BY <1>1, <1>5

-----------------------------------------------------------------------------
(* How a file system goes on: numbers are reused with later generations    *)
(* only, and directories other than m stay where they are.                 *)

Evolves(g, f, m) ==
  /\ f \in FileSystems /\ g \in FileSystems /\ IsTree(f) /\ IsTree(g)
  /\ \A i \in Inodes : f.gen[i] <= g.gen[i]
  /\ \A i \in Inodes : Linked(g, i) /\ g.gen[i] = f.gen[i] => Linked(f, i)
  /\ \A i \in Dirs \ {RootIno, m}, n \in Names :
       Linked(g, i) /\ g.gen[i] = f.gen[i] /\ f.tree[<<RootIno, n>>] = i =>
         g.tree[<<RootIno, n>>] = i

LEMMA EvolvesSame ==
  ASSUME NEW f \in FileSystems, NEW g \in FileSystems, IsTree(f),
         g.tree = f.tree, g.gen = f.gen
  PROVE  Evolves(g, f, NoInode)
<1>1. IsTree(g) /\ \A i : Linked(g, i) <=> Linked(f, i)
  BY DEF IsTree, Linked, Named
<1>2. \A i \in Inodes : f.gen[i] \in Nat
  BY ConstantsAssumption DEF FileSystems
<1>3. QED BY <1>1, <1>2 DEF Evolves

LEMMA FileTypes ==
  ASSUME NEW f \in FileSystems
  PROVE  /\ \A i \in Inodes : f.gen[i] \in Nat
         /\ \A d \in Dirs, n \in Names : f.tree[<<d, n>>] \in Inodes \cup {NoInode}
         /\ Dirs \subseteq Inodes /\ RootIno \in Dirs /\ NoInode \notin Inodes
         /\ Generations \subseteq Nat /\ 0 \in Generations
<1>1. \A i \in Inodes : f.gen[i] \in Nat
  BY ConstantsAssumption DEF FileSystems
<1>2. \A d \in Dirs, n \in Names : f.tree[<<d, n>>] \in Inodes \cup {NoInode}
  BY DEF FileSystems
<1>3. QED BY <1>1, <1>2, FileTreeAssumption, ConstantsAssumption

\* Directories other than the one that moved are where they were, when each
\* name leads where it led, to nothing, or to the one that moved.
LEMMA DirsStay ==
  ASSUME NEW f \in FileSystems, NEW g \in FileSystems, IsTree(f), IsTree(g), NEW m,
         \A i \in Inodes : f.gen[i] <= g.gen[i],
         \A i \in Inodes : Linked(g, i) /\ g.gen[i] = f.gen[i] => Linked(f, i),
         \A d \in Dirs, n \in Names : g.tree[<<d, n>>] \in {f.tree[<<d, n>>], NoInode, m}
  PROVE  Evolves(g, f, m)
<1>1. ASSUME NEW i \in Dirs \ {RootIno, m}, NEW n \in Names, Linked(g, i),
             f.tree[<<RootIno, n>>] = i
      PROVE  g.tree[<<RootIno, n>>] = i
  <2>1. i # NoInode /\ RootIno \in Dirs
    BY FileTreeAssumption
  <2>2. PICK d \in Dirs, c \in Names : g.tree[<<d, c>>] = i
    BY <1>1, LinkedMeans
  <2>3. f.tree[<<d, c>>] = i
    BY <1>1, <2>1, <2>2
  <2>4. d = RootIno /\ c = n
    BY <1>1, <2>1, <2>3 DEF IsTree
  <2>5. QED BY <2>2, <2>4
<1>2. QED BY <1>1 DEF Evolves

\* What is known of a place stays true ...
LEMMA PlaceLater ==
  ASSUME NEW f, NEW g, NEW m, Evolves(g, f, m), NEW k \in Seq(Names), NEW i \in Inodes,
         NEW gen \in Nat, Fits(f, k, i, gen)
  PROVE  /\ Fits(g, k, i, gen)
         /\ Placed(f, k, i, gen) /\ i # m => Placed(g, k, i, gen)
<1>1. f.gen[i] \in Nat /\ g.gen[i] \in Nat /\ f.gen[i] <= g.gen[i]
  BY FileTypes DEF Evolves
<1>2. Fits(g, k, i, gen)
  BY <1>1 DEF Fits
<1>3. ASSUME Placed(f, k, i, gen), i # m PROVE Placed(g, k, i, gen)
  <2> SUFFICES ASSUME i \in Dirs \ {RootIno}, Linked(g, i), gen = g.gen[i]
               PROVE  g.tree[<<RootIno, k[1]>>] = i
    BY DEF Placed
  <2>1. gen <= f.gen[i] /\ Len(k) = 1
    BY DEF Fits
  <2>2. f.gen[i] = g.gen[i] /\ k[1] \in Names
    BY <1>1, <2>1
  <2>3. Linked(f, i)
    BY <2>2 DEF Evolves
  <2>4. f.tree[<<RootIno, k[1]>>] = i
    BY <1>3, <2>2, <2>3 DEF Placed
  <2>5. QED BY <1>3, <2>2, <2>4 DEF Evolves
<1>4. QED BY <1>2, <1>3

\* ... and of a name, when it still leads where it led.
LEMMA SaysLater ==
  ASSUME NEW f, NEW g, NEW m, Evolves(g, f, m), NEW k, NEW d \in Inodes, NEW gen \in Nat,
         Fits(f, k, d, gen), NEW n, NEW i
  PROVE  /\ Current(g, d, gen) => Current(f, d, gen)
         /\ Says(f, d, gen, n, i) /\ (Current(g, d, gen) => g.tree[<<d, n>>] = f.tree[<<d, n>>])
              => Says(g, d, gen, n, i)
<1>1. f.gen[d] \in Nat /\ g.gen[d] \in Nat /\ f.gen[d] <= g.gen[d]
  BY FileTypes DEF Evolves
<1>2. ASSUME Current(g, d, gen) PROVE Current(f, d, gen)
  <2>1. d \in Dirs /\ gen = g.gen[d] /\ gen <= f.gen[d] /\ Linked(g, d)
    BY <1>2 DEF Current, Fits
  <2>2. gen = f.gen[d]
    BY <1>1, <2>1
  <2>3. QED BY <2>1, <2>2 DEF Current, Evolves
<1>3. QED BY <1>2 DEF Says

-----------------------------------------------------------------------------
(* Entries *)

\* What the invariant says of one entry.
EntryHolds(f, o, over, due, k, e) ==
  IsPresent(e) =>
    /\ EntryFits(f, k, e)
    /\ k \notin LeftBehind(o) => EntryPlaced(f, k, e)
    /\ e.live /\ k \notin over \cup ChangedPaths(o) =>
         \/ Says(f, e.parent, e.parentGen, e.name, Answer(e))
         \/ Announced(due, e.parent, e.name)

CacheHolds(r, f, o, over, due) ==
  TableFits(r, f) /\ \A k \in Keys : EntryHolds(f, o, over, due, k, r.paths[k])

LEMMA CacheParts ==
  ASSUME NEW r, NEW f, NEW o, NEW over, NEW due
  PROVE  CacheHolds(r, f, o, over, due)
           <=> TableFits(r, f) /\ EntriesInv(r, f, o) /\ EntriesAgree(r, f, o, over, due)
BY DEF CacheHolds, EntryHolds, EntriesInv, EntriesAgree

\* The fields of an entry.
LEMMA EntryTypes ==
  ASSUME NEW r \in Resolver, NEW k \in Keys, IsPresent(r.paths[k])
  PROVE  LET e == r.paths[k] IN
         /\ e.parent \in Inodes /\ e.parentGen \in Nat /\ e.name \in Names
         /\ IsPositive(e) => e.ino \in Inodes /\ e.gen \in Nat
         /\ Answer(e) \in Inodes \cup {NoInode}
<1> DEFINE e == r.paths[k]
<1>1. e \in PathEntry
  BY DEF Resolver
<1>2. /\ e \in PositiveEntry \/ e \in NegativeEntry
      /\ IsPositive(e) => e \in PositiveEntry
  BY <1>1, EntryKinds DEF IsPresent, PathEntry, Absent
<1> HIDE DEF e
<1>3. /\ e.parent \in Inodes /\ e.parentGen \in Generations /\ e.name \in Names
      /\ IsPositive(e) => e.ino \in Inodes /\ e.gen \in Generations
  BY <1>2 DEF PositiveEntry, NegativeEntry
<1>4. QED BY <1>3, ConstantsAssumption DEF e, Answer

\* An entry that is gone, or that says what another one said.
Weaker(e, d) ==
  IsPresent(e) =>
    /\ IsPresent(d) /\ (e.live => d.live) /\ e.parent = d.parent
    /\ e.parentGen = d.parentGen /\ e.name = d.name /\ (IsPositive(e) <=> IsPositive(d))
    /\ IsPositive(e) => e.ino = d.ino /\ e.gen = d.gen
Weakens(q, r) ==
  /\ \A k \in Keys : Weaker(q.paths[k], r.paths[k])
  /\ \A i \in Inodes : q.inodes[i].gen \in {0, r.inodes[i].gen}

LEMMA FewerWeakens ==
  ASSUME NEW q, NEW r, Fewer(q, r)
  PROVE  Weakens(q, r)
<1>1. \A k \in Keys : q.paths[k] \in {Absent, r.paths[k]}
  BY DEF Fewer, EntriesFewer
<1>2. ~IsPresent(Absent)
  BY DEF IsPresent, Absent
<1>3. \A k \in Keys : Weaker(q.paths[k], r.paths[k])
  BY <1>1, <1>2 DEF Weaker
<1>4. QED BY <1>3 DEF Fewer, TableFewer, Weakens

LEMMA ExpiredWeakens ==
  ASSUME NEW r \in Resolver, NEW k \in Keys, IsPresent(r.paths[k])
  PROVE  Weakens(ExpireEntry(r, k), r)
<1>1. PICK q : q = ExpireEntry(r, k)
  OBVIOUS
<1>2. /\ q.inodes = r.inodes /\ \A c \in Keys \ {k} : q.paths[c] = r.paths[c]
      /\ Weaker(q.paths[k], r.paths[k])
  BY <1>1, ExpireEntryFields DEF Weaker
<1>3. \A c \in Keys : Weaker(q.paths[c], r.paths[c])
  BY <1>2 DEF Weaker
<1>4. QED BY <1>1, <1>2, <1>3 DEF Weakens

\* When an entry stays true, while the file system goes on from f to g and
\* the handler from o to p.
Stays(f, g, m, o, p, over, over2, due, due2, k, e) ==
  IsPresent(e) =>
    /\ k \in LeftBehind(o) => k \in LeftBehind(p)
    /\ k \in over \cup ChangedPaths(o) => k \in over2 \cup ChangedPaths(p)
    /\ IsPositive(e) => g.gen[e.ino] = f.gen[e.ino]
    /\ k \notin LeftBehind(p) => /\ e.parent # m \/ e.parentGen # g.gen[e.parent]
                                 /\ IsPositive(e) => e.ino # m
    /\ e.live /\ k \notin over2 \cup ChangedPaths(p) =>
         /\ Announced(due, e.parent, e.name) => Announced(due2, e.parent, e.name)
         /\ Current(g, e.parent, e.parentGen) =>
              \/ g.tree[<<e.parent, e.name>>] = f.tree[<<e.parent, e.name>>]
              \/ Announced(due2, e.parent, e.name)

LEMMA EntryStays ==
  ASSUME NEW f, NEW g, NEW m, Evolves(g, f, m), NEW o, NEW p, NEW over, NEW over2,
         NEW due, NEW due2, NEW r \in Resolver, NEW k \in Keys, NEW e,
         Weaker(e, r.paths[k]), EntryHolds(f, o, over, due, k, r.paths[k]),
         Stays(f, g, m, o, p, over, over2, due, due2, k, e)
  PROVE  EntryHolds(g, p, over2, due2, k, e)
<1> SUFFICES ASSUME IsPresent(e)
             PROVE  /\ EntryFits(g, k, e)
                    /\ k \notin LeftBehind(p) => EntryPlaced(g, k, e)
                    /\ e.live /\ k \notin over2 \cup ChangedPaths(p) =>
                         \/ Says(g, e.parent, e.parentGen, e.name, Answer(e))
                         \/ Announced(due2, e.parent, e.name)
  BY DEF EntryHolds
<1> DEFINE d == r.paths[k]
<1>1. IsPresent(d)
  BY DEF Weaker
<1>2. /\ e.parent \in Inodes /\ e.parentGen \in Nat /\ e.name \in Names
      /\ IsPositive(e) => e.ino \in Inodes /\ e.gen \in Nat
      /\ Answer(e) = Answer(d)
  BY <1>1, EntryTypes DEF Weaker, Answer
<1>3. /\ EntryFits(f, k, e)
      /\ k \notin LeftBehind(o) => EntryPlaced(f, k, e)
      /\ e.live /\ k \notin over \cup ChangedPaths(o) =>
           \/ Says(f, e.parent, e.parentGen, e.name, Answer(e))
           \/ Announced(due, e.parent, e.name)
  <2>1. /\ EntryFits(f, k, d) /\ (k \notin LeftBehind(o) => EntryPlaced(f, k, d))
        /\ d.live /\ k \notin over \cup ChangedPaths(o) =>
             \/ Says(f, d.parent, d.parentGen, d.name, Answer(d))
             \/ Announced(due, d.parent, d.name)
    BY <1>1 DEF EntryHolds
  <2>2. /\ (e.live => d.live) /\ e.parent = d.parent
        /\ e.parentGen = d.parentGen /\ e.name = d.name /\ (IsPositive(e) <=> IsPositive(d))
        /\ IsPositive(e) => e.ino = d.ino /\ e.gen = d.gen
    BY DEF Weaker
  <2> HIDE DEF d
  <2>3. EntryFits(f, k, e)
    BY <2>1, <2>2 DEF EntryFits
  <2>4. k \notin LeftBehind(o) => EntryPlaced(f, k, e)
    BY <2>1, <2>2 DEF EntryPlaced
  <2>5. QED BY <2>1, <2>2, <2>3, <2>4, <1>2 DEF d
<1> HIDE DEF d
<1>4. k \in Seq(Names) /\ k # Root /\ Parent(k) \in Seq(Names)
  BY <1>3, PathShape DEF EntryFits
<1>5. /\ k \in LeftBehind(o) => k \in LeftBehind(p)
      /\ k \in over \cup ChangedPaths(o) => k \in over2 \cup ChangedPaths(p)
      /\ IsPositive(e) => g.gen[e.ino] = f.gen[e.ino]
      /\ k \notin LeftBehind(p) => /\ e.parent # m \/ e.parentGen # g.gen[e.parent]
                                   /\ IsPositive(e) => e.ino # m
      /\ e.live /\ k \notin over2 \cup ChangedPaths(p) =>
           /\ Announced(due, e.parent, e.name) => Announced(due2, e.parent, e.name)
           /\ Current(g, e.parent, e.parentGen) =>
                \/ g.tree[<<e.parent, e.name>>] = f.tree[<<e.parent, e.name>>]
                \/ Announced(due2, e.parent, e.name)
  BY DEF Stays
<1>6. /\ Fits(f, Parent(k), e.parent, e.parentGen)
      /\ IsPositive(e) => e.parent \in Dirs /\ Fits(f, k, e.ino, e.gen) /\ e.gen = f.gen[e.ino]
  BY <1>3 DEF EntryFits
<1>7. EntryFits(g, k, e)
  <2>1. Fits(g, Parent(k), e.parent, e.parentGen)
    BY <1>2, <1>4, <1>6, PlaceLater
  <2>2. IsPositive(e) => e.parent \in Dirs /\ Fits(g, k, e.ino, e.gen) /\ e.gen = g.gen[e.ino]
    BY <1>2, <1>4, <1>5, <1>6, PlaceLater
  <2>3. QED BY <1>3, <2>1, <2>2 DEF EntryFits
<1>8. ASSUME k \notin LeftBehind(p) PROVE EntryPlaced(g, k, e)
  <2>1. Placed(f, Parent(k), e.parent, e.parentGen) /\ (IsPositive(e) => Placed(f, k, e.ino, e.gen))
    BY <1>3, <1>5, <1>8 DEF EntryPlaced
  <2>2. Placed(g, Parent(k), e.parent, e.parentGen)
    <3>1. e.parentGen # g.gen[e.parent] => Placed(g, Parent(k), e.parent, e.parentGen)
      BY DEF Placed
    <3>2. e.parent # m => Placed(g, Parent(k), e.parent, e.parentGen)
      BY <1>2, <1>4, <1>6, <2>1, PlaceLater
    <3>3. QED BY <1>5, <1>8, <3>1, <3>2
  <2>3. IsPositive(e) => Placed(g, k, e.ino, e.gen)
    <3>1. IsPositive(e) => e.ino # m
      BY <1>5, <1>8
    <3>2. QED BY <1>2, <1>4, <1>6, <2>1, <3>1, PlaceLater
  <2>4. QED BY <2>2, <2>3 DEF EntryPlaced
<1>9. ASSUME e.live, k \notin over2 \cup ChangedPaths(p)
      PROVE  \/ Says(g, e.parent, e.parentGen, e.name, Answer(e))
             \/ Announced(due2, e.parent, e.name)
  <2>1. \/ Says(f, e.parent, e.parentGen, e.name, Answer(e))
        \/ Announced(due, e.parent, e.name)
    BY <1>3, <1>5, <1>9
  <2>2. \/ Announced(due2, e.parent, e.name)
        \/ /\ Says(f, e.parent, e.parentGen, e.name, Answer(e))
           /\ Current(g, e.parent, e.parentGen) =>
                g.tree[<<e.parent, e.name>>] = f.tree[<<e.parent, e.name>>]
    BY <1>5, <1>9, <2>1
  <2>3. QED BY <1>2, <1>6, <2>2, SaysLater
<1>10. QED BY <1>7, <1>8, <1>9

LEMMA TableStays ==
  ASSUME NEW f, NEW g, NEW m, Evolves(g, f, m), NEW r \in Resolver, NEW q, TableFits(r, f),
         \A i \in Inodes : \/ q.inodes[i].gen \in {0, r.inodes[i].gen}
                           \/ q.inodes[i].gen = g.gen[i]
  PROVE  TableFits(q, g)
<1> SUFFICES ASSUME NEW i \in Inodes PROVE q.inodes[i].gen <= g.gen[i]
  BY DEF TableFits
<1>1. f.gen[i] \in Nat /\ g.gen[i] \in Nat /\ f.gen[i] <= g.gen[i]
  BY FileTypes DEF Evolves
<1>2. r.inodes[i].gen <= f.gen[i] /\ r.inodes[i].gen \in Nat
  BY ConstantsAssumption DEF TableFits, Resolver, InodeState
<1>3. q.inodes[i].gen \in {0, r.inodes[i].gen, g.gen[i]}
  OBVIOUS
<1>4. QED BY <1>1, <1>2, <1>3

\* The steps that change no name: entries go or expire, and what the handler
\* answered for it still does, or is gone.
LEMMA CacheQuiet ==
  ASSUME NEW f \in FileSystems, NEW g \in FileSystems, IsTree(f), g.tree = f.tree,
         g.gen = f.gen, NEW o, NEW p, NEW over, NEW over2, NEW due,
         NEW r \in Resolver, NEW q, Weakens(q, r), CacheHolds(r, f, o, over, due),
         \A k \in Keys : IsPresent(q.paths[k]) =>
           /\ k \in LeftBehind(o) => k \in LeftBehind(p)
           /\ k \in over \cup ChangedPaths(o) => k \in over2 \cup ChangedPaths(p)
  PROVE  CacheHolds(q, g, p, over2, due)
<1>1. Evolves(g, f, NoInode)
  BY EvolvesSame
<1>2. ASSUME NEW k \in Keys PROVE EntryHolds(g, p, over2, due, k, q.paths[k])
  <2>1. PICK e : e = q.paths[k]
    OBVIOUS
  <2>2. Weaker(e, r.paths[k]) /\ EntryHolds(f, o, over, due, k, r.paths[k])
    BY <2>1 DEF Weakens, CacheHolds
  <2>3. ASSUME IsPresent(e)
        PROVE  e.parent # NoInode /\ (IsPositive(e) => e.ino # NoInode)
    <3>1. IsPresent(r.paths[k]) /\ e.parent = r.paths[k].parent
          /\ (IsPositive(e) => IsPositive(r.paths[k]) /\ e.ino = r.paths[k].ino)
      BY <2>2, <2>3 DEF Weaker
    <3>2. QED BY <3>1, EntryTypes, FileTreeAssumption
  <2>4. Stays(f, g, NoInode, o, p, over, over2, due, due, k, e)
    BY <2>1, <2>3 DEF Stays
  <2>5. QED BY <1>1, <2>1, <2>2, <2>4, EntryStays
<1>3. TableFits(q, g)
  BY <1>1, TableStays DEF Weakens, CacheHolds
<1>4. QED BY <1>2, <1>3 DEF CacheHolds

-----------------------------------------------------------------------------
(* The handler *)

HandlerHolds(r, f, o, due) ==
  /\ WalkPlaced(f, o) /\ WalkKey(o) /\ RepliesInv(r, f, o, due)
  /\ ParentInv(f, o) /\ MoveInv(r, f, o)

LEMMA NamesParts ==
  NamesInv <=> /\ IsTree(fs) /\ CacheHolds(resolver, fs, op, overtaken, notices)
               /\ HandlerHolds(resolver, fs, op, notices)
BY CacheParts DEF NamesInv, HandlerHolds

\* The same after a step.
LEMMA NamesNext ==
  ASSUME IsTree(fs'), CacheHolds(resolver', fs', op', overtaken', notices'),
         HandlerHolds(resolver', fs', op', notices')
  PROVE  NamesInv'
<1>1. /\ TableFits(resolver', fs') /\ EntriesInv(resolver', fs', op')
      /\ EntriesAgree(resolver', fs', op', overtaken', notices')
  BY CacheParts
<1>2. QED BY <1>1 DEF NamesInv, HandlerHolds

\* A handler that is not walking, has resolved nothing it still needs in its
\* place, and made nothing.
Free(o) ==
  /\ o.pc \notin WalkPCs \cup {"parentKnown"} /\ "created" \notin {o.pc, o.next}
  /\ o.kind = "move" => o.pc \notin MovePCs

LEMMA FreeHolds ==
  ASSUME NEW r, NEW f, NEW o, NEW due, Free(o)
  PROVE  HandlerHolds(r, f, o, due)
BY DEF Free, HandlerHolds, WalkPlaced, WalkKey, RepliesInv, ParentInv, MoveInv, WalkPCs

\* The parents of a move.
LEMMA OnlyAtLater ==
  ASSUME NEW f, NEW g, NEW m, Evolves(g, f, m), NEW r \in Resolver, NEW q, NEW o, NEW p,
         OwnKeys(p) = OwnKeys(o),
         \A k \in Keys \ OwnKeys(o) : Weaker(q.paths[k], r.paths[k]),
         \A k \in Keys : IsPresent(r.paths[k]) => EntryFits(f, k, r.paths[k]),
         NEW dir \in Inodes, NEW key, OnlyAt(r, f, o, dir, key)
  PROVE  OnlyAt(q, g, p, dir, key)
<1>1. f.gen[dir] \in Nat /\ g.gen[dir] \in Nat
  BY FileTypes DEF Evolves
<1>2. Fits(g, key, dir, g.gen[dir])
  BY <1>1 DEF OnlyAt, Fits
<1>3. ASSUME NEW k \in Keys \ OwnKeys(p), IsPresent(q.paths[k]), q.paths[k].parent = dir,
             Current(g, dir, q.paths[k].parentGen)
      PROVE  Parent(k) = key
  <2>1. PICK d : d = r.paths[k]
    OBVIOUS
  <2>2. IsPresent(d) /\ d.parent = dir /\ d.parentGen = q.paths[k].parentGen
    BY <1>3, <2>1 DEF Weaker
  <2>3. d.parentGen \in Nat /\ Fits(f, Parent(k), dir, d.parentGen)
    BY <1>3, <2>1, <2>2, EntryTypes DEF EntryFits
  <2>4. Current(f, dir, d.parentGen)
    BY <1>3, <2>2, <2>3, SaysLater
  <2>5. QED BY <1>3, <2>1, <2>2, <2>4 DEF OnlyAt
<1>4. QED BY <1>2, <1>3 DEF OnlyAt

\* The table forgets generations: what is said of a directory with the one it
\* knows stays true.
LEMMA OlderTable ==
  ASSUME NEW f, NEW d, NEW gen \in Nat, f.gen[d] \in Nat, gen <= f.gen[d],
         NEW old \in {0, gen}, NEW k, NEW n, NEW i
  PROVE  /\ Fits(f, k, d, gen) => Fits(f, k, d, old)
         /\ Placed(f, k, d, gen) => Placed(f, k, d, old)
         /\ Says(f, d, gen, n, i) => Says(f, d, old, n, i)
<1>1. old \in Nat /\ old <= gen /\ (old = f.gen[d] => old = gen)
  OBVIOUS
<1>2. Fits(f, k, d, gen) => Fits(f, k, d, old)
  BY <1>1 DEF Fits
<1>3. Placed(f, k, d, gen) => Placed(f, k, d, old)
  BY <1>1 DEF Placed
<1>4. Says(f, d, gen, n, i) => Says(f, d, old, n, i)
  BY <1>1 DEF Says, Current
<1>5. QED BY <1>2, <1>3, <1>4

\* A name leads where it led, or the file system will say so.
NameStays(f, g, due, due2, d, n) ==
  /\ Announced(due, d, n) => Announced(due2, d, n)
  /\ d \in Dirs /\ Linked(g, d) =>
       g.tree[<<d, n>>] = f.tree[<<d, n>>] \/ Announced(due2, d, n)

LEMMA AgreesLater ==
  ASSUME NEW f, NEW g, NEW m, Evolves(g, f, m), NEW o, NEW p, o.late => p.late,
         NEW due, NEW due2, NEW k, NEW dir \in Inodes, NEW gen \in Nat, NEW i,
         NEW key, Fits(f, key, dir, gen),
         p.late \/ NameStays(f, g, due, due2, dir, Leaf(k)),
         ReplyAgrees(f, o, k, dir, gen, i, due)
  PROVE  ReplyAgrees(g, p, k, dir, gen, i, due2)
<1> SUFFICES ASSUME ~p.late PROVE Says(g, dir, gen, Leaf(k), i) \/ Announced(due2, dir, Leaf(k))
  BY DEF ReplyAgrees
<1>1. Says(f, dir, gen, Leaf(k), i) \/ Announced(due, dir, Leaf(k))
  BY DEF ReplyAgrees
<1>2. CASE Announced(due, dir, Leaf(k))
  BY <1>2 DEF NameStays
<1>3. CASE Says(f, dir, gen, Leaf(k), i)
  <2>1. \/ Announced(due2, dir, Leaf(k))
        \/ Current(g, dir, gen) => g.tree[<<dir, Leaf(k)>>] = f.tree[<<dir, Leaf(k)>>]
    BY DEF NameStays, Current
  <2>2. QED BY <1>3, <2>1, SaysLater
<1>4. QED BY <1>1, <1>2, <1>3

\* What a handler made is true of its reply and of its directory.
CreatedHolds(r, f, o, due) ==
  LET dir == o.ino["parent"]
      gen == GenerationFor(r, dir) IN
  /\ dir \in Dirs /\ ReplyOf(f, o, o.path)
  /\ Fits(f, Parent(o.path), dir, gen) /\ Placed(f, Parent(o.path), dir, gen)
  /\ ReplyAgrees(f, o, o.path, dir, gen, o.reply.ino, due)

LEMMA CreatedLater ==
  ASSUME NEW f, NEW g, Evolves(g, f, NoInode), NEW r \in Resolver, NEW q, Weakens(q, r),
         TableFits(r, f), NEW o, NEW p, o.late => p.late, p.ino = o.ino, p.reply = o.reply,
         p.path = o.path, NEW due, NEW due2, o.path \in Keys \ {Root},
         o.reply \in EntryReplies, CreatedHolds(r, f, o, due),
         g.gen[o.reply.ino] = f.gen[o.reply.ino],
         p.late \/ NameStays(f, g, due, due2, o.ino["parent"], Leaf(o.path))
  PROVE  CreatedHolds(q, g, p, due2)
<1>1. PICK dir : dir = o.ino["parent"]
  OBVIOUS
<1>2. PICK i \in Inodes, gen \in Nat : i = o.reply.ino /\ gen = o.reply.gen
  BY ConstantsAssumption DEF EntryReplies
<1>3. PICK k \in Keys : k = o.path /\ k # Root /\ k \in Seq(Names) /\ Parent(k) \in Seq(Names)
  BY PathShape
<1>4. dir \in Dirs /\ dir \in Inodes /\ i # NoInode /\ dir # NoInode /\ f.gen[dir] \in Nat
      /\ f \in FileSystems
  BY <1>1, <1>2, FileTypes, FileTreeAssumption DEF CreatedHolds, Evolves
<1>5. PICK had \in Nat : had = GenerationFor(r, dir) /\ had <= f.gen[dir]
  BY <1>4, ConstantsAssumption DEF GenerationFor, TableFits, Resolver, InodeState
<1>6. PICK has \in {0, had} : has = GenerationFor(q, dir)
  BY <1>4, <1>5 DEF GenerationFor, Weakens
<1>7. /\ Fits(f, Parent(k), dir, had) /\ Placed(f, Parent(k), dir, had)
      /\ o.late \/ Says(f, dir, had, Leaf(k), i) \/ Announced(due, dir, Leaf(k))
      /\ gen = f.gen[i] /\ Fits(f, k, i, gen) /\ Placed(f, k, i, gen)
  BY <1>1, <1>2, <1>3, <1>5 DEF CreatedHolds, ReplyOf, ReplyAgrees
<1>8. /\ Fits(f, Parent(k), dir, has) /\ Placed(f, Parent(k), dir, has) /\ has \in Nat
      /\ ReplyAgrees(f, o, k, dir, has, i, due)
  BY <1>4, <1>5, <1>6, <1>7, OlderTable DEF ReplyAgrees
<1>9. /\ Fits(g, Parent(k), dir, has) /\ Placed(g, Parent(k), dir, has)
      /\ Fits(g, k, i, gen) /\ Placed(g, k, i, gen) /\ gen = g.gen[i]
  BY <1>2, <1>3, <1>4, <1>7, <1>8, PlaceLater
<1>10. ReplyAgrees(g, p, k, dir, has, i, due2)
  <2>1. p.late \/ NameStays(f, g, due, due2, dir, Leaf(k))
    BY <1>1, <1>3
  <2>2. PICK key : Fits(f, key, dir, has)
    BY <1>8
  <2>3. has \in Nat /\ dir \in Inodes /\ ReplyAgrees(f, o, k, dir, has, i, due)
    BY <1>4, <1>8
  <2>4. QED BY <2>1, <2>2, <2>3, AgreesLater
<1>11. QED BY <1>1, <1>2, <1>3, <1>4, <1>6, <1>9, <1>10 DEF CreatedHolds, ReplyOf

LEMMA RepliesParts ==
  ASSUME NEW r, NEW f, NEW o, NEW due
  PROVE  RepliesInv(r, f, o, due) <=>
           /\ o.pc = "remember" =>
                /\ o.walk.ino \in Dirs /\ ReplyOf(f, o, NextKey(o))
                /\ ReplyAgrees(f, o, NextKey(o), o.walk.ino, o.walk.gen, o.reply.ino, due)
           /\ o.pc = "rememberMissing" =>
                ReplyAgrees(f, o, NextKey(o), o.walk.ino, o.walk.gen, NoInode, due)
           /\ "created" \in {o.pc, o.next} => CreatedHolds(r, f, o, due)
BY DEF RepliesInv, CreatedHolds

\* The paths of a walk.
LEMMA WalkReach ==
  ASSUME NEW o, OpInv(o), o.pc \in WalkPCs
  PROVE  /\ NextKey(o) \in Keys /\ NextKey(o) # Root /\ Leaf(NextKey(o)) \in Names
         /\ Reached(o) \in Seq(Names) /\ Parent(NextKey(o)) = Reached(o)
         /\ Len(Reached(o)) = o.walk.at
         /\ o.walk \in WalkTypes /\ o.walk.at \in Nat
         /\ o.walk.ino \in Inodes /\ o.walk.gen \in Nat
         /\ o.walk.key \in Keys /\ o.walk.key \in Seq(Names) /\ Len(o.walk.key) \in Nat
         /\ o.walk.at < Len(o.walk.key)
<1>1. o.walk \in WalkTypes /\ o.walk.key # Root /\ o.walk.at < Len(o.walk.key)
  BY DEF OpInv, Ops, WalkFits
<1>2. PICK key \in Keys, at \in Nat : key = o.walk.key /\ at = o.walk.at
  BY <1>1 DEF WalkTypes
<1>3. key \in Seq(Names) /\ Len(key) \in Nat /\ at < Len(key)
  BY <1>1, <1>2, WalkPaths
<1>4. at \in 0 .. Len(key) /\ at + 1 \in 0 .. Len(key) /\ at + 1 \in 1 .. Len(key)
  BY <1>2, <1>3
<1>5. PICK c : c = SubSeq(key, 1, at + 1)
  OBVIOUS
<1>6. PICK d : d = SubSeq(key, 1, at)
  OBVIOUS
<1>7. /\ d \in Seq(Names) /\ Len(d) = at /\ \A j \in 1 .. at : d[j] = key[j]
      /\ c \in Seq(Names) /\ Len(c) = at + 1 /\ \A j \in 1 .. at + 1 : c[j] = key[j]
  BY <1>3, <1>4, <1>5, <1>6, Prefixes
<1>8. c \in Keys /\ c # Root /\ Leaf(c) \in Names
  BY <1>1, <1>2, <1>4, <1>5, WalkPaths
<1>9. Parent(c) = d
  <2>1. PICK m \in Nat : m = Len(c)
    BY <1>7
  <2>2. m = at + 1
    BY <1>7, <2>1
  <2>3. m - 1 = at /\ at \in 0 .. m
    BY <1>2, <2>2
  <2>4. Parent(c) = SubSeq(c, 1, at) /\ at \in 0 .. Len(c)
    BY <2>1, <2>3 DEF Parent
  <2>5. PICK e : e = SubSeq(c, 1, at)
    OBVIOUS
  <2>6. e \in Seq(Names) /\ Len(e) = at /\ \A j \in 1 .. at : e[j] = c[j]
    BY <1>7, <2>4, <2>5, Prefixes
  <2>7. \A j \in 1 .. at : e[j] = d[j]
    BY <1>2, <1>7, <2>6
  <2>8. e = d
    BY <1>7, <2>6, <2>7
  <2>9. QED BY <2>4, <2>5, <2>8
<1>10. o.walk.ino \in Inodes /\ o.walk.gen \in Nat
  BY <1>1, ConstantsAssumption DEF WalkTypes
<1>11. QED BY <1>1, <1>2, <1>3, <1>5, <1>6, <1>7, <1>8, <1>9, <1>10 DEF NextKey, Reached

\* The inodes that a move has resolved.
LEMMA MoveInodes ==
  ASSUME NEW o, OpInv(o), o.kind = "move", o.pc \in MovePCs, ~Resolving(o, "parent")
  PROVE  /\ o.ino["parent"] \in Inodes
         /\ o.pc # "parentKnown" /\ ~Resolving(o, "destParent") =>
              o.ino["destParent"] \in Inodes
BY DEF OpInv, InodesKnown, Resolving

\* A handler that does nothing while the file system goes on, or the notifier
\* or time drops something from the cache.
Waits(p, o) ==
  /\ p.kind = o.kind /\ p.path = o.path /\ p.dest = o.dest /\ p.pc = o.pc
  /\ p.next = o.next /\ p.walk = o.walk /\ p.ino = o.ino /\ p.reply = o.reply
  /\ o.late => p.late

LEMMA HandlerLater ==
  ASSUME NEW f, NEW g, Evolves(g, f, NoInode), NEW r \in Resolver, NEW q, Weakens(q, r),
         TableFits(r, f), \A k \in Keys : IsPresent(r.paths[k]) => EntryFits(f, k, r.paths[k]),
         NEW o, OpInv(o), NEW p, Waits(p, o), NEW due, NEW due2,
         HandlerHolds(r, f, o, due),
         HoldsEntry(o) => g.gen[o.reply.ino] = f.gen[o.reply.ino],
         o.pc = "parentKnown" /\ o.kind \in {"create", "delete"} =>
           g.gen[o.ino["parent"]] = f.gen[o.ino["parent"]],
         o.pc \in {"remember", "rememberMissing"} =>
           p.late \/ NameStays(f, g, due, due2, o.walk.ino, Leaf(NextKey(o))),
         "created" \in {o.pc, o.next} =>
           p.late \/ NameStays(f, g, due, due2, o.ino["parent"], Leaf(o.path))
  PROVE  HandlerHolds(q, g, p, due2)
<1>1. /\ p.kind = o.kind /\ p.path = o.path /\ p.dest = o.dest /\ p.pc = o.pc
      /\ p.next = o.next /\ p.walk = o.walk /\ p.ino = o.ino /\ p.reply = o.reply
      /\ o.late => p.late
  BY DEF Waits
<1>2. Reached(p) = Reached(o) /\ NextKey(p) = NextKey(o) /\ OwnKeys(p) = OwnKeys(o)
      /\ \A s : Resolving(p, s) <=> Resolving(o, s)
  BY <1>1 DEF Reached, NextKey, OwnKeys, Resolving
<1>3. /\ WalkPlaced(f, o) /\ WalkKey(o) /\ RepliesInv(r, f, o, due)
      /\ ParentInv(f, o) /\ MoveInv(r, f, o)
  BY DEF HandlerHolds
<1>4. NoInode \notin Inodes
  BY FileTreeAssumption
<1>5. WalkPlaced(g, p)
  <2> SUFFICES ASSUME o.pc \in WalkPCs
               PROVE  /\ Fits(g, Reached(o), o.walk.ino, o.walk.gen)
                      /\ Placed(g, Reached(o), o.walk.ino, o.walk.gen)
    BY <1>1, <1>2 DEF WalkPlaced
  <2>1. Reached(o) \in Seq(Names) /\ o.walk.ino \in Inodes /\ o.walk.gen \in Nat
    BY WalkReach
  <2>2. /\ Fits(f, Reached(o), o.walk.ino, o.walk.gen)
        /\ Placed(f, Reached(o), o.walk.ino, o.walk.gen)
    BY <1>3 DEF WalkPlaced
  <2>3. QED BY <1>4, <2>1, <2>2, PlaceLater
<1>6. WalkKey(p)
  BY <1>1, <1>3 DEF WalkKey
<1>7. RepliesInv(q, g, p, due2)
  <2>1. ASSUME o.pc = "remember"
        PROVE  /\ o.walk.ino \in Dirs /\ ReplyOf(g, p, NextKey(o))
               /\ ReplyAgrees(g, p, NextKey(o), o.walk.ino, o.walk.gen, o.reply.ino, due2)
    <3>1. o.pc \in WalkPCs /\ HoldsEntry(o) /\ o.reply \in EntryReplies
      BY <2>1 DEF WalkPCs, HoldsEntry, OpInv, ReplyFits
    <3>2. PICK i \in Inodes, gen \in Nat : i = o.reply.ino /\ gen = o.reply.gen
      BY <3>1, ConstantsAssumption DEF EntryReplies
    <3>3. PICK k \in Seq(Names) : k = NextKey(o)
      BY <3>1, WalkReach, ConstantsAssumption
    <3>4. /\ o.walk.ino \in Dirs /\ gen = f.gen[i] /\ Fits(f, k, i, gen) /\ Placed(f, k, i, gen)
          /\ ReplyAgrees(f, o, k, o.walk.ino, o.walk.gen, i, due)
      BY <1>3, <2>1, <3>2, <3>3, RepliesParts DEF ReplyOf
    <3>5. Fits(g, k, i, gen) /\ Placed(g, k, i, gen) /\ gen = g.gen[i]
      BY <1>4, <3>1, <3>2, <3>4, PlaceLater
    <3>6. ReplyAgrees(g, p, k, o.walk.ino, o.walk.gen, i, due2)
      <4>1. PICK dir \in Inodes, had \in Nat : dir = o.walk.ino /\ had = o.walk.gen
        BY <3>1, WalkReach
      <4>2. PICK key : Fits(f, key, dir, had)
        BY <1>3, <3>1, <4>1 DEF WalkPlaced
      <4>3. p.late \/ NameStays(f, g, due, due2, dir, Leaf(k))
        BY <2>1, <3>3, <4>1
      <4>4. ReplyAgrees(f, o, k, dir, had, i, due) /\ (o.late => p.late)
        BY <1>1, <3>4, <4>1
      <4>5. ReplyAgrees(g, p, k, dir, had, i, due2)
        BY <4>2, <4>3, <4>4, AgreesLater
      <4>6. QED BY <4>1, <4>5
    <3>7. QED BY <1>1, <3>2, <3>3, <3>4, <3>5, <3>6 DEF ReplyOf
  <2>2. ASSUME o.pc = "rememberMissing"
        PROVE  ReplyAgrees(g, p, NextKey(o), o.walk.ino, o.walk.gen, NoInode, due2)
    <3>1. o.pc \in WalkPCs
      BY <2>2 DEF WalkPCs
    <3>2. PICK k : k = NextKey(o)
      OBVIOUS
    <3>3. ReplyAgrees(f, o, k, o.walk.ino, o.walk.gen, NoInode, due)
      BY <1>3, <2>2, <3>2, RepliesParts
    <3>4. PICK dir \in Inodes, had \in Nat : dir = o.walk.ino /\ had = o.walk.gen
      BY <3>1, WalkReach
    <3>5. PICK key : Fits(f, key, dir, had)
      BY <1>3, <3>1, <3>4 DEF WalkPlaced
    <3>6. p.late \/ NameStays(f, g, due, due2, dir, Leaf(k))
      BY <2>2, <3>2, <3>4
    <3>7. ReplyAgrees(f, o, k, dir, had, NoInode, due) /\ (o.late => p.late)
      BY <1>1, <3>3, <3>4
    <3>8. ReplyAgrees(g, p, k, dir, had, NoInode, due2)
      BY <3>5, <3>6, <3>7, AgreesLater
    <3>9. QED BY <3>2, <3>4, <3>8
  <2>3. ASSUME "created" \in {o.pc, o.next} PROVE CreatedHolds(q, g, p, due2)
    <3>1. HoldsEntry(o) /\ o.reply \in EntryReplies /\ o.path \in Keys \ {Root}
      BY <2>3 DEF HoldsEntry, OpInv, ReplyFits, PathsFit, Ops
    <3>2. CreatedHolds(r, f, o, due)
      BY <1>3, <2>3, RepliesParts
    <3>3. /\ g.gen[o.reply.ino] = f.gen[o.reply.ino]
          /\ p.late \/ NameStays(f, g, due, due2, o.ino["parent"], Leaf(o.path))
      BY <2>3, <3>1
    <3>4. QED BY <1>1, <3>1, <3>2, <3>3, CreatedLater
  <2>4. QED BY <1>1, <1>2, <2>1, <2>2, <2>3, RepliesParts
<1>8. ParentInv(g, p)
  <2> SUFFICES ASSUME o.pc = "parentKnown", o.kind \in {"create", "delete"},
                      NEW dir, dir = o.ino["parent"]
               PROVE  /\ Fits(g, Parent(o.path), dir, g.gen[dir])
                      /\ Placed(g, Parent(o.path), dir, g.gen[dir])
    BY <1>1 DEF ParentInv
  <2>1. dir \in Inodes /\ g.gen[dir] = f.gen[dir]
    BY DEF OpInv, InodesKnown, Resolving, WalkPCs
  <2>2. PICK k \in Seq(Names) : k = Parent(o.path)
    <3>1. o.path \in Keys \cup {Root}
      BY DEF OpInv, Ops
    <3>2. Parent(Root) = Root /\ Root \in Seq(Names)
      BY DEF Parent, Root
    <3>3. QED BY <3>1, <3>2, PathShape
  <2>3. Fits(f, k, dir, f.gen[dir]) /\ Placed(f, k, dir, f.gen[dir]) /\ f.gen[dir] \in Nat
    BY <1>3, <2>1, <2>2, FileTypes DEF ParentInv, Evolves
  <2>4. QED BY <1>4, <2>1, <2>2, <2>3, PlaceLater
<1>9. MoveInv(q, g, p)
  <2> SUFFICES ASSUME o.kind = "move", o.pc \in MovePCs, ~Resolving(o, "parent")
               PROVE  /\ OnlyAt(q, g, p, o.ino["parent"], Parent(o.path))
                      /\ o.pc # "parentKnown" /\ ~Resolving(o, "destParent") =>
                           OnlyAt(q, g, p, o.ino["destParent"], Parent(o.dest))
    BY <1>1, <1>2 DEF MoveInv
  <2>1. /\ o.ino["parent"] \in Inodes
        /\ o.pc # "parentKnown" /\ ~Resolving(o, "destParent") =>
             o.ino["destParent"] \in Inodes
    BY MoveInodes
  <2>2. /\ OnlyAt(r, f, o, o.ino["parent"], Parent(o.path))
        /\ o.pc # "parentKnown" /\ ~Resolving(o, "destParent") =>
             OnlyAt(r, f, o, o.ino["destParent"], Parent(o.dest))
    BY <1>3 DEF MoveInv
  <2>3. \A k \in Keys \ OwnKeys(o) : Weaker(q.paths[k], r.paths[k])
    BY DEF Weakens
  <2>4. QED BY <1>2, <2>1, <2>2, <2>3, OnlyAtLater
<1>10. QED BY <1>5, <1>6, <1>7, <1>8, <1>9 DEF HandlerHolds

-----------------------------------------------------------------------------
(* Walks *)

\* A handler that is not about to say that a name changed.
Unmoved(o) == {o.pc, o.next} \cap {"created", "renamed", "forgetPath", "forgetDest"} = {}

LEMMA UnmovedPaths ==
  ASSUME NEW o, Unmoved(o) \/ o.kind \notin {"create", "delete", "move"}
  PROVE  LeftBehind(o) = {} /\ ChangedPaths(o) = {}
BY DEF Unmoved, LeftBehind, ChangedPaths, AfterRename

LEMMA WalkUnmoved ==
  ASSUME NEW o, OpInv(o),
         o.pc \in WalkPCs \cup {"parentKnown", "destParentKnown", "targetKnown",
                                "clashKnown", "mtimeKnown", "call", "collided"}
  PROVE  Unmoved(o) /\ o.next = "idle" /\ o \in Ops
BY DEF OpInv, InOrder, Unmoved, WalkPCs

\* A handler that walks, or has walked.
LEMMA WalkingHolds ==
  ASSUME NEW q, NEW g, NEW p, NEW due, p.pc \in {"reap", "cached", "lookup", "unresolved"},
         p.next = "idle",
         Fits(g, Reached(p), p.walk.ino, p.walk.gen),
         Placed(g, Reached(p), p.walk.ino, p.walk.gen), WalkKey(p), MoveInv(q, g, p)
  PROVE  HandlerHolds(q, g, p, due)
BY DEF HandlerHolds, WalkPlaced, RepliesInv, ParentInv

LEMMA KnownHolds ==
  ASSUME NEW q, NEW g, NEW p, NEW due, p.pc \notin WalkPCs, "created" \notin {p.pc, p.next},
         ParentInv(g, p), MoveInv(q, g, p)
  PROVE  HandlerHolds(q, g, p, due)
BY DEF HandlerHolds, WalkPlaced, WalkKey, RepliesInv, WalkPCs

\* An inode that was resolved at key is at no other one.
LEMMA OnlyThere ==
  ASSUME NEW r \in Resolver, NEW f \in FileSystems, IsTree(f), NEW o, NEW over, NEW due,
         CacheHolds(r, f, o, over, due), LeftBehind(o) = {},
         NEW p, NEW dir \in Inodes, NEW key \in Seq(Names),
         Fits(f, key, dir, f.gen[dir]), Placed(f, key, dir, f.gen[dir])
  PROVE  OnlyAt(r, f, p, dir, key)
<1>1. ASSUME NEW k \in Keys, IsPresent(r.paths[k]), r.paths[k].parent = dir,
             Current(f, dir, r.paths[k].parentGen)
      PROVE  Parent(k) = key
  <2>1. PICK e : e = r.paths[k]
    OBVIOUS
  <2>2. EntryFits(f, k, e) /\ EntryPlaced(f, k, e)
    BY <1>1, <2>1 DEF CacheHolds, EntryHolds
  <2>3. PICK gen : gen = e.parentGen /\ gen = f.gen[dir] /\ dir \in Dirs
    BY <1>1, <2>1 DEF Current
  <2>4. k # Root /\ Fits(f, Parent(k), dir, gen) /\ Placed(f, Parent(k), dir, gen)
        /\ Current(f, dir, gen)
    BY <1>1, <2>1, <2>2, <2>3 DEF EntryFits, EntryPlaced
  <2>5. Parent(k) \in Seq(Names)
    BY <2>4, PathShape
  <2>6. QED BY <2>3, <2>4, <2>5, OnePlace
<1>2. QED BY <1>1 DEF OnlyAt

\* Which of its parents a move has resolved.
KnowsParent(o) == o.kind = "move" /\ o.pc \in MovePCs /\ ~Resolving(o, "parent")
KnowsDest(o) == KnowsParent(o) /\ o.pc # "parentKnown" /\ ~Resolving(o, "destParent")

LEMMA MoveParts ==
  ASSUME NEW r, NEW f, NEW o
  PROVE  MoveInv(r, f, o) <=>
           /\ KnowsParent(o) => OnlyAt(r, f, o, o.ino["parent"], Parent(o.path))
           /\ KnowsDest(o) => OnlyAt(r, f, o, o.ino["destParent"], Parent(o.dest))
BY DEF MoveInv, KnowsParent, KnowsDest

LEMMA KnownInodes ==
  ASSUME NEW o, OpInv(o)
  PROVE  /\ KnowsParent(o) => o.ino["parent"] \in Inodes
         /\ KnowsDest(o) => o.ino["destParent"] \in Inodes
BY MoveInodes DEF KnowsParent, KnowsDest

\* A move that goes on still knows where its parents are.
SameNames(p, o) == p.kind = o.kind /\ p.path = o.path /\ p.dest = o.dest
KeepsParent(p, o) ==
  KnowsParent(p) => KnowsParent(o) /\ p.ino["parent"] = o.ino["parent"]
KeepsDest(p, o) ==
  KnowsDest(p) => KnowsDest(o) /\ p.ino["destParent"] = o.ino["destParent"]

LEMMA MoveGoesOn ==
  ASSUME NEW f, NEW g, Evolves(g, f, NoInode), NEW r \in Resolver, NEW q,
         NEW o, OpInv(o), NEW p, SameNames(p, o),
         \A k \in Keys \ OwnKeys(o) : Weaker(q.paths[k], r.paths[k]),
         \A k \in Keys : IsPresent(r.paths[k]) => EntryFits(f, k, r.paths[k]),
         MoveInv(r, f, o),
         KeepsParent(p, o) \/ OnlyAt(q, g, p, p.ino["parent"], Parent(p.path)),
         KeepsDest(p, o) \/ OnlyAt(q, g, p, p.ino["destParent"], Parent(p.dest))
  PROVE  MoveInv(q, g, p)
<1>1. OwnKeys(p) = OwnKeys(o) /\ p.path = o.path /\ p.dest = o.dest
  BY DEF OwnKeys, SameNames
<1>2. ASSUME KnowsParent(p), KeepsParent(p, o)
      PROVE  OnlyAt(q, g, p, p.ino["parent"], Parent(p.path))
  <2>1. KnowsParent(o) /\ p.ino["parent"] = o.ino["parent"]
    BY <1>2 DEF KeepsParent
  <2>2. PICK dir \in Inodes : dir = o.ino["parent"]
    BY <2>1, KnownInodes
  <2>3. OnlyAt(r, f, o, dir, Parent(p.path))
    BY <1>1, <2>1, <2>2, MoveParts
  <2>4. OnlyAt(q, g, p, dir, Parent(p.path))
    BY <1>1, <2>3, OnlyAtLater
  <2>5. QED BY <2>1, <2>2, <2>4
<1>3. ASSUME KnowsDest(p), KeepsDest(p, o)
      PROVE  OnlyAt(q, g, p, p.ino["destParent"], Parent(p.dest))
  <2>1. KnowsDest(o) /\ p.ino["destParent"] = o.ino["destParent"]
    BY <1>3 DEF KeepsDest
  <2>2. PICK dir \in Inodes : dir = o.ino["destParent"]
    BY <2>1, KnownInodes
  <2>3. OnlyAt(r, f, o, dir, Parent(p.dest))
    BY <1>1, <2>1, <2>2, MoveParts
  <2>4. OnlyAt(q, g, p, dir, Parent(p.dest))
    BY <1>1, <2>3, OnlyAtLater
  <2>5. QED BY <2>1, <2>2, <2>4
<1>4. QED BY <1>2, <1>3, MoveParts

\* A walk begins at the root.
LEMMA RootPlace ==
  ASSUME NEW f \in FileSystems, IsTree(f), NEW gen \in {0, f.gen[RootIno]}
  PROVE  Fits(f, Root, RootIno, gen) /\ Placed(f, Root, RootIno, gen)
BY FileTypes DEF Fits, Placed, IsTree

LEMMA BeginReach ==
  ASSUME NEW o, o.walk.key \in Seq(Names), o.walk.at = 0
  PROVE  Reached(o) = Root
BY DEF Reached, Root

\* A step of a walk: the path is the walk's own.
LEMMA WalkOwns ==
  ASSUME NEW o, OpInv(o), o.pc \in WalkPCs, o.kind = "move", WalkKey(o)
  PROVE  NextKey(o) \in OwnKeys(o)
<1>1. /\ NextKey(o) \in Keys /\ o.walk.key \in Keys /\ o.walk.key \in Seq(Names)
      /\ Len(o.walk.key) \in Nat /\ o.walk.at \in Nat /\ o.walk.at < Len(o.walk.key)
  BY WalkReach
<1>2. o.walk.into \in {"parent", "destParent", "target", "clash"}
  BY DEF OpInv, WalkFits, PurposesOf
<1>3. o.path \in Keys \ {Root} /\ o.dest \in Keys \ {Root}
  BY DEF OpInv, Ops, PathsFit
<1>4. PICK c \in {o.path, o.dest} : o.walk.key = c \/ o.walk.key = Parent(c)
  BY <1>2 DEF WalkKey
<1>5. c \in Seq(Names) /\ Len(c) \in Nat /\ Len(c) > 0 /\ Len(Parent(c)) = Len(c) - 1
  BY <1>3, PathShape
<1>6. PICK m \in Nat : m = o.walk.at + 1
  BY <1>1
<1>7. PICK n \in Nat : n = Len(c) /\ n > 0
  BY <1>5
<1>8. m <= n /\ m \in 0 .. n
  <2>1. CASE o.walk.key = c
    BY <1>1, <1>6, <1>7, <2>1
  <2>2. CASE o.walk.key = Parent(c)
    <3>1. o.walk.at < n - 1
      BY <1>1, <1>5, <1>7, <2>2
    <3>2. QED BY <1>1, <1>6, <3>1
  <2>3. QED BY <1>4, <2>1, <2>2
<1>9. NextKey(o) = SubSeq(c, 1, m)
  <2>1. CASE o.walk.key = c
    BY <1>6, <2>1 DEF NextKey
  <2>2. CASE o.walk.key = Parent(c)
    <3>1. PICK d : d = Parent(c)
      OBVIOUS
    <3>2. n - 1 \in 0 .. n /\ d = SubSeq(c, 1, n - 1)
      BY <1>7, <3>1 DEF Parent
    <3>3. d \in Seq(Names) /\ Len(d) = n - 1 /\ \A j \in 1 .. n - 1 : d[j] = c[j]
      BY <1>5, <1>7, <3>2, Prefixes
    <3>4. m <= n - 1 /\ m \in 0 .. n - 1
      BY <1>1, <1>6, <2>2, <3>1, <3>3
    <3>5. PICK a : a = SubSeq(d, 1, m)
      OBVIOUS
    <3>6. PICK b : b = SubSeq(c, 1, m)
      OBVIOUS
    <3>7. a \in Seq(Names) /\ Len(a) = m /\ \A j \in 1 .. m : a[j] = d[j]
      BY <3>3, <3>4, <3>5, Prefixes
    <3>8. b \in Seq(Names) /\ Len(b) = m /\ \A j \in 1 .. m : b[j] = c[j]
      BY <1>5, <1>7, <1>8, <3>6, Prefixes
    <3>9. \A j \in 1 .. m : a[j] = b[j]
      BY <3>3, <3>4, <3>7, <3>8
    <3>10. a = b
      BY <3>7, <3>8, <3>9
    <3>11. QED BY <1>6, <2>2, <3>1, <3>5, <3>6, <3>10 DEF NextKey
  <2>3. QED BY <1>4, <2>1, <2>2
<1>10. PICK k \in Keys : k = NextKey(o)
  BY <1>1
<1>11. Len(k) = m /\ k = SubSeq(c, 1, m)
  BY <1>5, <1>7, <1>8, <1>9, <1>10, Prefixes
<1>12. QED BY <1>4, <1>7, <1>8, <1>10, <1>11 DEF OwnKeys

\* Where an advance leads: on, or to what the walk was for.
GoesOn(p, o, i, gen) ==
  /\ SameRequest(p, o) /\ p.next = o.next
  /\ p.pc = "cached" /\ p.ino = o.ino /\ p.walk.key = o.walk.key
  /\ p.walk.at = o.walk.at + 1 /\ p.walk.ino = i /\ p.walk.gen = gen
  /\ p.walk.into = o.walk.into
Arrives(p, o, i) ==
  /\ SameRequest(p, o) /\ p.next = o.next
  /\ p.pc = Known(o.walk.into) /\ p.ino[o.walk.into] = i
  /\ \A s \in Purposes \ {o.walk.into} : p.ino[s] = o.ino[s]

LEMMA AdvanceSplit ==
  ASSUME NEW o \in Ops, NEW i, NEW gen, NEW p, p = Advance(o, i, gen)
  PROVE  /\ o.walk.at + 1 # Len(o.walk.key) => GoesOn(p, o, i, gen)
         /\ o.walk.at + 1 = Len(o.walk.key) => Arrives(p, o, i)
<1>1. \A h \in Ops : \A j, n : h.walk.at + 1 # Len(h.walk.key) =>
        LET q == Advance(h, j, n) IN
        /\ SameRequest(q, h) /\ q.next = h.next /\ q.late = FALSE
        /\ q.pc = "cached" /\ q.ino = h.ino /\ q.walk.key = h.walk.key
        /\ q.walk.at = h.walk.at + 1 /\ q.walk.ino = j /\ q.walk.gen = n
        /\ q.walk.into = h.walk.into
  BY AdvanceGoesOn
<1>2. \A h \in Ops : \A j, n : h.walk.at + 1 = Len(h.walk.key) =>
        LET q == Advance(h, j, n)
            s == h.walk.into IN
        /\ SameRequest(q, h) /\ q.next = h.next /\ q.late = FALSE
        /\ q.pc = Known(s) /\ q.walk = NoWalk /\ q.ino[s] = j
        /\ \A t \in Purposes \ {s} : q.ino[t] = h.ino[t]
  BY AdvanceEnds
<1>3. QED BY <1>1, <1>2 DEF GoesOn, Arrives

\* One more component resolved, at the place its directory is.
LEMMA AdvanceHolds ==
  ASSUME NEW f \in FileSystems, IsTree(f), NEW r \in Resolver, NEW q \in Resolver,
         NEW over, NEW due, NEW over0, NEW o, OpInv(o), o.pc \in WalkPCs,
         HandlerHolds(r, f, o, due), CacheHolds(r, f, o, over0, due),
         NEW i \in Inodes, NEW gen, gen = f.gen[i], Fits(f, NextKey(o), i, gen),
         Placed(f, NextKey(o), i, gen), NEW p, p = Advance(o, i, gen),
         CacheHolds(q, f, p, over, due),
         \A k \in Keys \ OwnKeys(o) : o.kind = "move" => Weaker(q.paths[k], r.paths[k])
  PROVE  HandlerHolds(q, f, p, due)
<1>1. /\ o \in Ops /\ o.next = "idle" /\ o.walk.into \in Purposes
      /\ o.walk.into \in PurposesOf(o.kind)
      /\ o.walk.at \in Nat /\ o.walk.key \in Seq(Names) /\ Len(o.walk.key) \in Nat
      /\ o.walk.at < Len(o.walk.key) /\ NextKey(o) \in Seq(Names)
  <2>1. o.walk \in WalkTypes /\ o \in Ops /\ o.next = "idle"
        /\ o.walk.into \in PurposesOf(o.kind)
    BY WalkReach, WalkUnmoved DEF OpInv, WalkFits
  <2>2. QED BY <2>1, WalkReach, ConstantsAssumption DEF WalkTypes
<1>2. WalkKey(o) /\ MoveInv(r, f, o)
  BY DEF HandlerHolds
<1>3. Evolves(f, f, NoInode)
  BY EvolvesSame
<1>4. \A k \in Keys : IsPresent(r.paths[k]) => EntryFits(f, k, r.paths[k])
  BY DEF CacheHolds, EntryHolds
<1>a. ASSUME SameNames(p, o),
             KeepsParent(p, o) \/ OnlyAt(q, f, p, p.ino["parent"], Parent(p.path)),
             KeepsDest(p, o) \/ OnlyAt(q, f, p, p.ino["destParent"], Parent(p.dest))
      PROVE  MoveInv(q, f, p)
  <2>1. CASE o.kind # "move"
    BY <1>a, <2>1 DEF MoveInv, SameNames
  <2>2. CASE o.kind = "move"
    <3>1. \A k \in Keys \ OwnKeys(o) : Weaker(q.paths[k], r.paths[k])
      BY <2>2
    <3>2. QED BY <1>2, <1>3, <1>4, <1>a, <3>1, MoveGoesOn
  <2>3. QED BY <2>1, <2>2
<1>b. o.kind = "move" => /\ o.pc \in MovePCs /\ o.pc # "parentKnown"
                        /\ o.walk.into \in {"parent", "destParent", "target", "clash"}
  BY <1>1 DEF MovePCs, WalkPCs, PurposesOf
<1>5. CASE o.walk.at + 1 # Len(o.walk.key)
  <2>1. /\ SameRequest(p, o) /\ p.next = "idle"
        /\ p.pc = "cached" /\ p.ino = o.ino /\ p.walk.key = o.walk.key
        /\ p.walk.at = o.walk.at + 1 /\ p.walk.ino = i /\ p.walk.gen = gen
        /\ p.walk.into = o.walk.into
    <3>1. o \in Ops /\ o.next = "idle"
      BY <1>1
    <3>2. QED BY <1>5, <3>1, AdvanceSplit DEF GoesOn
  <2>2. Reached(p) = NextKey(o)
    BY <2>1 DEF Reached, NextKey
  <2>3. WalkKey(p) /\ SameNames(p, o)
    BY <1>2, <2>1 DEF WalkKey, SameRequest, SameNames
  <2>4. KeepsParent(p, o) /\ KeepsDest(p, o)
    BY <1>b, <2>1, <2>3 DEF KeepsParent, KeepsDest, KnowsParent, KnowsDest, Resolving,
                            WalkPCs, SameNames
  <2>5. MoveInv(q, f, p)
    BY <1>a, <2>3, <2>4
  <2>6. QED BY <2>1, <2>2, <2>3, <2>5, WalkingHolds
<1>6. CASE o.walk.at + 1 = Len(o.walk.key)
  <2>1. PICK into \in Purposes : into = o.walk.into
    BY <1>1
  <2>2. /\ SameRequest(p, o) /\ p.next = "idle"
        /\ p.pc = Known(into) /\ p.ino[into] = i
        /\ \A s \in Purposes \ {into} : p.ino[s] = o.ino[s]
    <3>1. o \in Ops /\ o.next = "idle"
      BY <1>1
    <3>2. QED BY <1>6, <2>1, <3>1, AdvanceSplit DEF Arrives
  <2>a. SameNames(p, o)
    BY <2>2 DEF SameNames, SameRequest
  <2>3. PICK key \in Seq(Names) : key = o.walk.key /\ key = NextKey(o)
    <3>1. PICK n \in Nat : n = Len(o.walk.key) /\ n = o.walk.at + 1
      BY <1>1, <1>6
    <3>2. PICK c : c = SubSeq(o.walk.key, 1, n)
      OBVIOUS
    <3>3. n \in 0 .. Len(o.walk.key)
      BY <1>1, <3>1
    <3>4. c \in Seq(Names) /\ Len(c) = n /\ \A j \in 1 .. n : c[j] = o.walk.key[j]
      BY <1>1, <3>2, <3>3, Prefixes
    <3>5. PICK w \in Seq(Names) : w = o.walk.key
      BY <1>1
    <3>6. Len(c) = Len(w) /\ \A j \in 1 .. Len(w) : c[j] = w[j]
      BY <3>1, <3>4, <3>5
    <3>7. c = w
      BY <3>4, <3>5, <3>6
    <3>8. QED BY <1>1, <3>1, <3>2, <3>5, <3>7 DEF NextKey
  <2>4. Fits(f, key, i, f.gen[i]) /\ Placed(f, key, i, f.gen[i])
    BY <2>3
  <2>5. /\ into = "parent" => key = Parent(o.path)
        /\ into = "destParent" => key = Parent(o.dest)
    BY <1>2, <2>1, <2>3 DEF WalkKey
  <2>6. /\ p.pc = "parentKnown" <=> into = "parent"
        /\ p.pc \notin WalkPCs /\ p.pc # "created"
    BY <2>2, KnownPCs DEF Known, Purposes
  <2>7. ParentInv(f, p)
    BY <2>2, <2>4, <2>5, <2>6, <2>a DEF ParentInv, SameNames
  <2>8. MoveInv(q, f, p)
    <3>1. CASE o.kind # "move"
      BY <2>a, <3>1 DEF MoveInv, SameNames
    <3>2. CASE o.kind = "move"
      <4>1. LeftBehind(p) = {}
        <5>1. Unmoved(p)
          BY <2>2, KnownPCs DEF Unmoved
        <5>2. QED BY <5>1, UnmovedPaths
      <4>2. OnlyAt(q, f, p, i, key)
        BY <2>4, <4>1, OnlyThere
      <4>3. \A s : Resolving(o, s) <=> s = into
        BY <2>1 DEF Resolving
      <4>4. into \in {"parent", "destParent", "target", "clash"}
        BY <1>b, <2>1, <3>2
      <4>5. ~Resolving(p, "parent") /\ ~Resolving(p, "destParent")
        BY <2>6 DEF Resolving
      <4>6. CASE into = "parent"
        <5>1. OnlyAt(q, f, p, p.ino["parent"], Parent(p.path))
          BY <2>2, <2>5, <2>a, <4>2, <4>6 DEF SameNames
        <5>2. KeepsDest(p, o)
          BY <2>6, <4>6 DEF KeepsDest, KnowsDest
        <5>3. QED BY <1>a, <2>a, <5>1, <5>2
      <4>7. CASE into = "destParent"
        <5>1. OnlyAt(q, f, p, p.ino["destParent"], Parent(p.dest))
          BY <2>2, <2>5, <2>a, <4>2, <4>7 DEF SameNames
        <5>2. p.ino["parent"] = o.ino["parent"] /\ ~Resolving(o, "parent")
          BY <2>2, <4>3, <4>7 DEF Purposes
        <5>3. KeepsParent(p, o)
          BY <1>b, <3>2, <5>2 DEF KeepsParent, KnowsParent
        <5>4. QED BY <1>a, <2>a, <5>1, <5>3
      <4>8. CASE into \in {"target", "clash"}
        <5>1. p.ino["parent"] = o.ino["parent"] /\ p.ino["destParent"] = o.ino["destParent"]
          BY <2>2, <4>8 DEF Purposes
        <5>2. ~Resolving(o, "parent") /\ ~Resolving(o, "destParent")
          BY <4>3, <4>8
        <5>3. KeepsParent(p, o) /\ KeepsDest(p, o)
          BY <1>b, <3>2, <5>1, <5>2 DEF KeepsParent, KnowsParent, KeepsDest, KnowsDest
        <5>4. QED BY <1>a, <2>a, <5>3
      <4>9. QED BY <4>4, <4>6, <4>7, <4>8
    <3>3. QED BY <3>1, <3>2
  <2>9. QED BY <2>2, <2>6, <2>7, <2>8, KnownHolds
<1>7. QED BY <1>5, <1>6

\* What is known of a walk.
LEMMA WalkFacts ==
  ASSUME IInv, NamesInv, op.pc \in WalkPCs
  PROVE  /\ OpInv(op) /\ op \in Ops /\ op.next = "idle" /\ Unmoved(op)
         /\ LeftBehind(op) = {} /\ ChangedPaths(op) = {}
         /\ ResolverInv(resolver) /\ resolver \in Resolver /\ fs \in FileSystems /\ IsTree(fs)
         /\ Component = NextKey(op) /\ Component \in Keys /\ Component # Root
         /\ Leaf(Component) \in Names /\ Parent(Component) = Reached(op)
         /\ op.walk.ino \in Inodes /\ op.walk.gen \in Nat
         /\ Fits(fs, Reached(op), op.walk.ino, op.walk.gen)
         /\ Placed(fs, Reached(op), op.walk.ino, op.walk.gen)
         /\ WalkKey(op) /\ MoveInv(resolver, fs, op)
         /\ CacheHolds(resolver, fs, op, overtaken, notices)
         /\ HandlerHolds(resolver, fs, op, notices) /\ Evolves(fs, fs, NoInode)
         /\ \A k \in Keys : IsPresent(resolver.paths[k]) => EntryFits(fs, k, resolver.paths[k])
<1>1. OpInv(op) /\ ResolverInv(resolver) /\ resolver \in Resolver /\ fs \in FileSystems
  BY DEF IInv, Typed, ResolverInv
<1>2. /\ IsTree(fs) /\ CacheHolds(resolver, fs, op, overtaken, notices)
      /\ HandlerHolds(resolver, fs, op, notices)
  BY NamesParts
<1>3. op \in Ops /\ op.next = "idle" /\ Unmoved(op) /\ LeftBehind(op) = {} /\ ChangedPaths(op) = {}
  BY <1>1, WalkUnmoved, UnmovedPaths
<1>4. Component = NextKey(op) /\ Component \in Keys /\ Component # Root
      /\ Leaf(Component) \in Names /\ Parent(Component) = Reached(op)
      /\ op.walk.ino \in Inodes /\ op.walk.gen \in Nat
  BY <1>1, WalkReach DEF Component, NextKey
<1>5. /\ Fits(fs, Reached(op), op.walk.ino, op.walk.gen)
      /\ Placed(fs, Reached(op), op.walk.ino, op.walk.gen)
      /\ WalkKey(op) /\ MoveInv(resolver, fs, op)
  BY <1>2 DEF HandlerHolds, WalkPlaced
<1>6. Evolves(fs, fs, NoInode)
  BY <1>1, <1>2, EvolvesSame
<1>7. \A k \in Keys : IsPresent(resolver.paths[k]) => EntryFits(fs, k, resolver.paths[k])
  BY <1>2 DEF CacheHolds, EntryHolds
<1>8. QED BY <1>1, <1>2, <1>3, <1>4, <1>5, <1>6, <1>7

\* A step that changes no name.
LEMMA QuietNames ==
  ASSUME IInv, NamesInv, fs' \in FileSystems, fs'.tree = fs.tree, fs'.gen = fs.gen,
         Weakens(resolver', resolver), notices' = notices,
         \A k \in Keys : IsPresent(resolver'.paths[k]) =>
           /\ k \in LeftBehind(op) => k \in LeftBehind(op')
           /\ k \in overtaken \cup ChangedPaths(op) => k \in overtaken' \cup ChangedPaths(op'),
         HandlerHolds(resolver', fs', op', notices')
  PROVE  NamesInv'
<1>1. IsTree(fs) /\ CacheHolds(resolver, fs, op, overtaken, notices)
  BY NamesParts
<1>2. resolver \in Resolver /\ fs \in FileSystems
  BY DEF IInv, Typed, ResolverInv
<1>3. CacheHolds(resolver', fs', op', overtaken', notices')
  BY <1>1, <1>2, CacheQuiet
<1>4. IsTree(fs')
  BY <1>1, <1>2, EvolvesSame DEF Evolves
<1>5. QED BY <1>3, <1>4, NamesNext

\* A step of a walk that stays where it is.
LEMMA StayingWalk ==
  ASSUME IInv, NamesInv, op.pc \in WalkPCs,
         op'.pc \in {"reap", "cached", "lookup", "unresolved"}, op'.next = "idle",
         SameNames(op', op), op'.walk = op.walk, op'.ino = op.ino,
         fs' \in FileSystems, fs'.tree = fs.tree, fs'.gen = fs.gen,
         \A k \in Keys \ OwnKeys(op) :
           op.kind = "move" => Weaker(resolver'.paths[k], resolver.paths[k])
  PROVE  HandlerHolds(resolver', fs', op', notices')
<1>1. /\ OpInv(op) /\ ChangedPaths(op) = {} /\ LeftBehind(op) = {}
      /\ Fits(fs, Reached(op), op.walk.ino, op.walk.gen)
      /\ Placed(fs, Reached(op), op.walk.ino, op.walk.gen)
      /\ WalkKey(op) /\ MoveInv(resolver, fs, op) /\ resolver \in Resolver
      /\ fs \in FileSystems /\ IsTree(fs)
      /\ \A k \in Keys : IsPresent(resolver.paths[k]) => EntryFits(fs, k, resolver.paths[k])
  BY WalkFacts
<1>2. Evolves(fs', fs, NoInode)
  BY <1>1, EvolvesSame
<1>3. op'.pc \in WalkPCs
  BY DEF WalkPCs
<1>4. Reached(op') = Reached(op) /\ \A s : Resolving(op', s) <=> Resolving(op, s)
  BY <1>3 DEF Reached, Resolving
<1>5. /\ Fits(fs', Reached(op'), op'.walk.ino, op'.walk.gen)
      /\ Placed(fs', Reached(op'), op'.walk.ino, op'.walk.gen)
  <2>1. PICK k \in Seq(Names), i \in Inodes, gen \in Nat :
          k = Reached(op) /\ i = op.walk.ino /\ gen = op.walk.gen
    BY <1>1, WalkReach
  <2>2. Fits(fs, k, i, gen) /\ Placed(fs, k, i, gen) /\ i # NoInode
    BY <1>1, <2>1, FileTreeAssumption
  <2>3. Fits(fs', k, i, gen) /\ Placed(fs', k, i, gen)
    BY <1>2, <2>2, PlaceLater
  <2>4. QED BY <1>4, <2>1, <2>3
<1>6. WalkKey(op')
  BY <1>1, <1>3 DEF WalkKey, SameNames
<1>7. KeepsParent(op', op) /\ KeepsDest(op', op)
  <2>1. op'.kind = op.kind /\ op.pc \in MovePCs /\ op'.pc # "parentKnown" /\ op.pc # "parentKnown"
    BY DEF SameNames, MovePCs, WalkPCs
  <2>2. QED BY <1>4, <2>1 DEF KeepsParent, KeepsDest, KnowsParent, KnowsDest
<1>8. MoveInv(resolver', fs', op')
  <2>1. CASE op.kind # "move"
    BY <2>1 DEF MoveInv, SameNames
  <2>2. CASE op.kind = "move"
    <3>1. \A k \in Keys \ OwnKeys(op) : Weaker(resolver'.paths[k], resolver.paths[k])
      BY <2>2
    <3>2. QED BY <1>1, <1>2, <1>7, <3>1, MoveGoesOn
  <2>3. QED BY <2>1, <2>2
<1>9. QED BY <1>5, <1>6, <1>8, WalkingHolds

LEMMA SameWalk ==
  ASSUME IInv, NamesInv, op.pc \in WalkPCs,
         op'.pc \in {"reap", "cached", "lookup", "unresolved"}, op'.next = "idle",
         SameNames(op', op), op'.walk = op.walk, op'.ino = op.ino,
         fs' \in FileSystems, fs'.tree = fs.tree, fs'.gen = fs.gen,
         Weakens(resolver', resolver), notices' = notices, overtaken' = overtaken
  PROVE  NamesInv'
<1>1. ChangedPaths(op) = {} /\ LeftBehind(op) = {}
  BY WalkFacts
<1>2. \A k \in Keys \ OwnKeys(op) : op.kind = "move" => Weaker(resolver'.paths[k], resolver.paths[k])
  BY DEF Weakens
<1>3. HandlerHolds(resolver', fs', op', notices')
  BY <1>2, StayingWalk
<1>4. QED BY <1>1, <1>3, QuietNames

LEMMA ReapNames == ASSUME IInv, IInv', NamesInv, Reap PROVE NamesInv'
<1>1. op.pc = "reap" /\ op.pc \in WalkPCs
  BY DEF Reap, At, WalkPCs
<1>2. /\ OpInv(op) /\ op \in Ops /\ op.next = "idle" /\ ResolverInv(resolver)
      /\ resolver \in Resolver /\ fs \in FileSystems
  BY <1>1, WalkFacts
<1>3. op' = Goto(op, "cached") /\ notices' = notices /\ overtaken' = overtaken
  BY DEF Reap, environment
<1>4. PICK r : r = ReapExpired(resolver)
  OBVIOUS
<1>5. ResolverInv(r) /\ Fewer(r, resolver) /\ Deliver(r, fs)
  BY <1>2, <1>4, ReapExpiredInv, LookFewer, ConstantsAssumption, <1>1, WalkFacts DEF Reap
<1>6. Fewer(resolver', resolver) /\ SameFiles(fs', fs)
  BY <1>2, <1>5, DeliverFields
<1>7. fs' \in FileSystems
  BY DEF IInv, Typed
<1>8. /\ op'.pc = "cached" /\ op'.next = "idle" /\ SameNames(op', op)
      /\ op'.walk = op.walk /\ op'.ino = op.ino
  BY <1>2, <1>3, GotoFields DEF SameRequest, SameNames
<1>9. Weakens(resolver', resolver)
  BY <1>6, FewerWeakens
<1>10. QED BY <1>1, <1>3, <1>6, <1>7, <1>8, <1>9, SameWalk DEF SameFiles

\* A live answer from the cache leads one component further.
LEMMA CachedNames == ASSUME IInv, IInv', NamesInv, CachedComponent PROVE NamesInv'
<1>1. op.pc = "cached" /\ op.pc \in WalkPCs
  BY DEF CachedComponent, At, WalkPCs
<1>2. /\ OpInv(op) /\ op \in Ops /\ op.next = "idle" /\ ResolverInv(resolver)
      /\ resolver \in Resolver /\ fs \in FileSystems /\ IsTree(fs)
      /\ Component = NextKey(op) /\ Component \in Keys
      /\ CacheHolds(resolver, fs, op, overtaken, notices)
      /\ HandlerHolds(resolver, fs, op, notices) /\ LeftBehind(op) = {} /\ ChangedPaths(op) = {}
  BY <1>1, WalkFacts
<1>3. fs' = fs /\ notices' = notices /\ overtaken' = overtaken
  BY DEF CachedComponent, environment
<1>4. Fewer(resolver', resolver)
  BY <1>2, LookFewer DEF CachedComponent
<1>5. Weakens(resolver', resolver)
  BY <1>4, FewerWeakens
<1>6. PICK answer : answer = CachedAnswer(resolver, Component, op.walk.ino, op.walk.gen)
  OBVIOUS
<1>7. \/ answer.found = "hit" /\ op' = Advance(op, answer.ino, answer.gen)
      \/ answer.found = "ENOENT" /\ op' = [op EXCEPT !.pc = "unresolved", !.reply = Error("ENOENT")]
      \/ answer.found = "miss" /\ op' = Goto(op, "lookup")
  BY <1>6 DEF CachedComponent
<1>8. CASE answer.found # "hit"
  <2>1. /\ op'.pc \in {"lookup", "unresolved"} /\ op'.next = "idle" /\ SameNames(op', op)
        /\ op'.walk = op.walk /\ op'.ino = op.ino
    BY <1>2, <1>7, <1>8 DEF Goto, Ops, SameNames
  <2>2. QED BY <1>1, <1>2, <1>3, <1>5, <2>1, SameWalk
<1>9. CASE answer.found = "hit"
  <2>1. /\ IsPositive(resolver.paths[Component]) /\ answer.ino \in Inodes
        /\ answer.ino = resolver.paths[Component].ino
        /\ answer.gen = resolver.paths[Component].gen
    BY <1>2, <1>6, <1>9, HitHeld
  <2>a. PICK i \in Inodes : i = answer.ino
    BY <2>1
  <2>2. PICK e, gen : /\ e = resolver.paths[Component] /\ i = answer.ino
                     /\ gen = answer.gen /\ e.ino = i /\ e.gen = gen
    BY <2>1, <2>a
  <2>3. IsPositive(e) /\ IsPresent(e)
    BY <2>1, <2>2 DEF IsPositive, IsPresent
  <2>4. EntryHolds(fs, op, overtaken, notices, Component, e)
    BY <1>2, <2>2 DEF CacheHolds
  <2>5. EntryFits(fs, Component, e) /\ EntryPlaced(fs, Component, e)
    BY <1>2, <2>3, <2>4 DEF EntryHolds
  <2>6. gen = fs.gen[i] /\ Fits(fs, NextKey(op), i, gen) /\ Placed(fs, NextKey(op), i, gen)
    BY <1>2, <2>2, <2>3, <2>5 DEF EntryFits, EntryPlaced
  <2>7. op' = Advance(op, i, gen)
    BY <1>7, <1>9, <2>2
  <2>8. CacheHolds(resolver', fs, op', overtaken, notices)
    BY <1>2, <1>5, CacheQuiet
  <2>9. \A k \in Keys \ OwnKeys(op) : op.kind = "move" => Weaker(resolver'.paths[k], resolver.paths[k])
    BY <1>5 DEF Weakens
  <2>10. resolver' \in Resolver
    BY DEF IInv, Typed, ResolverInv
  <2>11. HandlerHolds(resolver', fs, op', notices)
    BY <1>1, <1>2, <2>6, <2>7, <2>8, <2>9, <2>10, AdvanceHolds
  <2>12. QED BY <1>2, <1>3, <2>8, <2>11, NamesNext
<1>10. QED BY <1>8, <1>9

\* A file system that looked a name up, or counts forgets, names what it named.
LEMMA LookupNames == ASSUME IInv, IInv', NamesInv, LookupComponent PROVE NamesInv'
<1>1. op.pc = "lookup" /\ op.pc \in WalkPCs
  BY DEF LookupComponent, At, WalkPCs
<1>2. /\ OpInv(op) /\ op \in Ops /\ op.next = "idle" /\ ResolverInv(resolver)
      /\ resolver \in Resolver /\ fs \in FileSystems /\ IsTree(fs)
      /\ Component = NextKey(op) /\ Component \in Keys /\ Leaf(Component) \in Names
      /\ Parent(Component) = Reached(op) /\ Component # Root
      /\ op.walk.ino \in Inodes /\ LeftBehind(op) = {} /\ ChangedPaths(op) = {}
      /\ Fits(fs, Reached(op), op.walk.ino, op.walk.gen)
      /\ Placed(fs, Reached(op), op.walk.ino, op.walk.gen)
      /\ WalkKey(op) /\ MoveInv(resolver, fs, op)
      /\ \A k \in Keys : IsPresent(resolver.paths[k]) => EntryFits(fs, k, resolver.paths[k])
  BY <1>1, WalkFacts
<1>3. resolver' = resolver /\ notices' = notices /\ overtaken' = overtaken
  BY DEF LookupComponent, environment
<1>4. PICK found : found = IF op.walk.ino \in Dirs
                             THEN fs.tree[<<op.walk.ino, Leaf(Component)>>] ELSE NoInode
  OBVIOUS
<1>5. found \in Inodes \cup {NoInode}
  BY <1>2, <1>4, FileTypes
<1>6. \/ /\ found # NoInode /\ fs' = Granted(fs, found)
         /\ \E cacheable \in Cacheable :
              op' = [op EXCEPT !.pc = "remember",
                               !.reply = Entry(found, fs.gen[found], cacheable)]
      \/ /\ fs' = fs
         /\ \E status \in Statuses(IF found = NoInode THEN {"ENOENT"} ELSE {}) :
              op' = [op EXCEPT !.pc = IF status = "ENOENT" THEN "rememberMissing"
                                                           ELSE "unresolved",
                               !.reply = Error(status)]
  BY <1>4 DEF LookupComponent
<1>7. fs' \in FileSystems /\ fs'.tree = fs.tree /\ fs'.gen = fs.gen
  BY <1>2, <1>6 DEF Granted, FileSystems, IInv, Typed
<1>8. /\ op'.pc \in {"remember", "rememberMissing", "unresolved"} /\ op'.next = "idle"
      /\ SameNames(op', op) /\ op'.walk = op.walk /\ op'.ino = op.ino
  <2>1. op \in Ops /\ op.next = "idle"
    BY <1>2
  <2>2. ASSUME NEW cacheable, op' = [op EXCEPT !.pc = "remember",
                                       !.reply = Entry(found, fs.gen[found], cacheable)]
        PROVE  /\ op'.pc = "remember" /\ op'.next = "idle"
               /\ SameNames(op', op) /\ op'.walk = op.walk /\ op'.ino = op.ino
    BY <2>1, <2>2 DEF Ops, SameNames
  <2>3. ASSUME NEW pc, NEW status, op' = [op EXCEPT !.pc = pc, !.reply = Error(status)]
        PROVE  /\ op'.pc = pc /\ op'.next = "idle"
               /\ SameNames(op', op) /\ op'.walk = op.walk /\ op'.ino = op.ino
    BY <2>1, <2>3 DEF Ops, SameNames
  <2>4. CASE \E cacheable \in Cacheable :
               op' = [op EXCEPT !.pc = "remember",
                                !.reply = Entry(found, fs.gen[found], cacheable)]
    BY <2>2, <2>4
  <2>5. ASSUME NEW status,
               op' = [op EXCEPT !.pc = IF status = "ENOENT" THEN "rememberMissing"
                                                           ELSE "unresolved",
                                !.reply = Error(status)]
        PROVE  /\ op'.pc \in {"rememberMissing", "unresolved"} /\ op'.next = "idle"
               /\ SameNames(op', op) /\ op'.walk = op.walk /\ op'.ino = op.ino
    <3>1. PICK pc \in {"rememberMissing", "unresolved"} :
            pc = IF status = "ENOENT" THEN "rememberMissing" ELSE "unresolved"
      OBVIOUS
    <3>2. op' = [op EXCEPT !.pc = pc, !.reply = Error(status)]
      BY <2>5, <3>1
    <3>3. QED BY <2>3, <3>1, <3>2
  <2>6. QED BY <1>6, <2>4, <2>5
<1>9. Weakens(resolver', resolver)
  BY <1>3, FewerSame, FewerWeakens
<1>10. CASE op'.pc = "unresolved"
  BY <1>1, <1>3, <1>7, <1>8, <1>9, <1>10, SameWalk
<1>11. CASE op'.pc \in {"remember", "rememberMissing"}
  <2>1. Evolves(fs', fs, NoInode)
    BY <1>2, <1>7, EvolvesSame
  <2>2. /\ Reached(op') = Reached(op) /\ NextKey(op') = NextKey(op)
        /\ \A s : Resolving(op', s) <=> Resolving(op, s)
    BY <1>1, <1>8, <1>11 DEF Reached, NextKey, Resolving, WalkPCs
  <2>3. PICK k \in Seq(Names), i \in Inodes, gen \in Nat :
          k = Reached(op) /\ i = op.walk.ino /\ gen = op.walk.gen
    BY <1>1, <1>2, WalkReach
  <2>4. Fits(fs', k, i, gen) /\ Placed(fs', k, i, gen)
    <3>1. Fits(fs, k, i, gen) /\ Placed(fs, k, i, gen) /\ i # NoInode
      BY <1>2, <2>3, FileTreeAssumption
    <3>2. QED BY <2>1, <3>1, PlaceLater
  <2>5. WalkPlaced(fs', op')
    BY <1>8, <2>2, <2>3, <2>4 DEF WalkPlaced
  <2>6. WalkKey(op')
    BY <1>1, <1>2, <1>8 DEF WalkKey, SameNames
  <2>7. MoveInv(resolver', fs', op')
    <3>1. op'.kind = op.kind /\ op.pc \in MovePCs /\ op'.pc # "parentKnown" /\ op.pc # "parentKnown"
      BY <1>1, <1>8 DEF SameNames, MovePCs, WalkPCs
    <3>2. KeepsParent(op', op) /\ KeepsDest(op', op)
      BY <1>8, <2>2, <3>1 DEF KeepsParent, KeepsDest, KnowsParent, KnowsDest
    <3>3. \A c \in Keys \ OwnKeys(op) : Weaker(resolver'.paths[c], resolver.paths[c])
      BY <1>9 DEF Weakens
    <3>4. QED BY <1>2, <1>8, <2>1, <3>2, <3>3, MoveGoesOn
  <2>8. ParentInv(fs', op')
    BY <1>11 DEF ParentInv
  <2>9. "created" \notin {op'.pc, op'.next}
    BY <1>8
  <2>10. ASSUME op'.pc = "rememberMissing"
         PROVE  ReplyAgrees(fs', op', NextKey(op'), op'.walk.ino, op'.walk.gen, NoInode, notices')
    <3>1. found = NoInode
      <4>1. PICK status \in Statuses(IF found = NoInode THEN {"ENOENT"} ELSE {}) :
              op' = [op EXCEPT !.pc = IF status = "ENOENT" THEN "rememberMissing"
                                                           ELSE "unresolved",
                               !.reply = Error(status)]
        BY <1>2, <1>6, <2>10 DEF Ops
      <4>2. status = "ENOENT"
        BY <1>2, <2>10, <4>1 DEF Ops
      <4>3. QED BY <4>2 DEF Statuses
    <3>2. Says(fs', i, gen, Leaf(Component), NoInode)
      BY <1>4, <1>7, <2>3, <3>1 DEF Says, Current
    <3>3. QED BY <1>2, <1>8, <2>2, <2>3, <3>2 DEF ReplyAgrees
  <2>11. ASSUME op'.pc = "remember"
         PROVE  /\ op'.walk.ino \in Dirs /\ ReplyOf(fs', op', NextKey(op'))
                /\ ReplyAgrees(fs', op', NextKey(op'), op'.walk.ino, op'.walk.gen,
                               op'.reply.ino, notices')
    <3>1. PICK cacheable \in Cacheable :
            op' = [op EXCEPT !.pc = "remember",
                             !.reply = Entry(found, fs.gen[found], cacheable)]
      BY <1>2, <1>6, <2>11 DEF Ops
    <3>2. found # NoInode /\ found \in Inodes
      BY <1>2, <1>5, <1>6, <2>11 DEF Ops
    <3>3. op'.reply.ino = found /\ op'.reply.gen = fs.gen[found]
      BY <1>2, <3>1 DEF Ops, Entry
    <3>4. i \in Dirs /\ fs.tree[<<i, Leaf(Component)>>] = found
      BY <1>4, <2>3, <3>2
    <3>5. /\ Fits(fs, Component, found, fs.gen[found])
          /\ Placed(fs, Component, found, fs.gen[found])
      <4> SUFFICES ASSUME found \in Dirs
                   PROVE  /\ Len(Component) = 1 /\ found # RootIno /\ fs.gen[found] \in Nat
                          /\ fs.tree[<<RootIno, Component[1]>>] = found
        BY <1>2 DEF Fits, Placed
      <4>1. i = RootIno /\ found # RootIno
        BY <1>2, <3>4 DEF IsTree
      <4>2. k = Root
        BY <1>2, <2>3, <4>1, FileTreeAssumption DEF Fits
      <4>3. Len(Component) = 1 /\ Component[1] = Leaf(Component)
        BY <1>2, <2>3, <4>2, PathShape
      <4>4. QED BY <1>2, <3>2, <3>4, <4>1, <4>3, FileTypes
    <3>6. Fits(fs', Component, found, fs'.gen[found]) /\ Placed(fs', Component, found, fs'.gen[found])
      BY <1>7, <3>5 DEF Fits, Placed, Linked, Named
    <3>7. ReplyOf(fs', op', Component)
      BY <1>7, <3>3, <3>6 DEF ReplyOf
    <3>8. Says(fs', i, gen, Leaf(Component), found)
      BY <1>7, <3>4 DEF Says
    <3>9. QED BY <1>2, <1>8, <2>2, <2>3, <3>3, <3>4, <3>7, <3>8 DEF ReplyAgrees
  <2>12. RepliesInv(resolver', fs', op', notices')
    BY <2>9, <2>10, <2>11, RepliesParts
  <2>13. HandlerHolds(resolver', fs', op', notices')
    BY <2>5, <2>6, <2>7, <2>8, <2>12 DEF HandlerHolds
  <2>14. QED BY <1>2, <1>3, <1>7, <1>9, <2>13, QuietNames
<1>12. QED BY <1>8, <1>10, <1>11

-----------------------------------------------------------------------------
(* A new entry *)

\* What a new entry has to be: true, unless its reply was overtaken.
NewHolds(f, o, due, k, e) ==
  IsPresent(e) =>
    /\ EntryFits(f, k, e) /\ EntryPlaced(f, k, e)
    /\ \/ o.late \/ Says(f, e.parent, e.parentGen, e.name, Answer(e))
       \/ Announced(due, e.parent, e.name)

Overtakes(o, k, over) == IF o.late THEN over \cup {k} ELSE over \ {k}

LEMMA RememberedHolds ==
  ASSUME NEW f \in FileSystems, IsTree(f), NEW r \in Resolver, NEW q, NEW o, NEW p,
         NEW over, NEW due, CacheHolds(r, f, o, over, due), LeftBehind(o) = {},
         NEW k \in Keys, ChangedPaths(o) \subseteq {k},
         \A c \in Keys \ {k} : Weaker(q.paths[c], r.paths[c]), TableFits(q, f),
         NewHolds(f, o, due, k, q.paths[k]),
         NEW over2, over2 = Overtakes(o, k, over)
  PROVE  CacheHolds(q, f, p, over2, due)
<1>1. Evolves(f, f, NoInode)
  BY EvolvesSame
<1>2. EntryHolds(f, p, over2, due, k, q.paths[k])
  <2>1. o.late => k \in over2
    BY DEF Overtakes
  <2>2. QED BY <2>1 DEF EntryHolds, NewHolds
<1>3. ASSUME NEW c \in Keys \ {k} PROVE EntryHolds(f, p, over2, due, c, q.paths[c])
  <2>1. PICK e : e = q.paths[c]
    OBVIOUS
  <2>2. Weaker(e, r.paths[c]) /\ EntryHolds(f, o, over, due, c, r.paths[c])
    BY <2>1 DEF CacheHolds
  <2>3. ASSUME IsPresent(e)
        PROVE  e.parent # NoInode /\ (IsPositive(e) => e.ino # NoInode)
    <3>1. IsPresent(r.paths[c]) /\ e.parent = r.paths[c].parent
          /\ (IsPositive(e) => IsPositive(r.paths[c]) /\ e.ino = r.paths[c].ino)
      BY <2>2, <2>3 DEF Weaker
    <3>2. QED BY <3>1, EntryTypes, FileTreeAssumption
  <2>4. c \in over \cup ChangedPaths(o) => c \in over2 \cup ChangedPaths(p)
    BY DEF Overtakes
  <2>5. Stays(f, f, NoInode, o, p, over, over2, due, due, c, e)
    BY <2>3, <2>4 DEF Stays
  <2>6. c \in Keys
    OBVIOUS
  <2>7. QED BY <1>1, <2>1, <2>2, <2>5, <2>6, EntryStays
<1>4. QED BY <1>2, <1>3 DEF CacheHolds

LEMMA RememberNames == ASSUME IInv, IInv', NamesInv, RememberComponent PROVE NamesInv'
<1>1. op.pc = "remember" /\ op.pc \in WalkPCs
  BY DEF RememberComponent, At, WalkPCs
<1>2. /\ OpInv(op) /\ op \in Ops /\ op.next = "idle" /\ resolver \in Resolver
      /\ fs \in FileSystems /\ IsTree(fs)
      /\ Component = NextKey(op) /\ Component \in Keys /\ Component # Root
      /\ Leaf(Component) \in Names /\ Parent(Component) = Reached(op)
      /\ op.walk.ino \in Inodes /\ op.walk.gen \in Nat
      /\ Fits(fs, Reached(op), op.walk.ino, op.walk.gen)
      /\ Placed(fs, Reached(op), op.walk.ino, op.walk.gen) /\ WalkKey(op)
      /\ CacheHolds(resolver, fs, op, overtaken, notices) /\ Evolves(fs, fs, NoInode)
      /\ HandlerHolds(resolver, fs, op, notices) /\ LeftBehind(op) = {} /\ ChangedPaths(op) = {}
  BY <1>1, WalkFacts
<1>3. op.reply \in EntryReplies
  BY <1>1, <1>2 DEF OpInv, ReplyFits, HoldsEntry
<1>4. PICK i \in Inodes, gen \in Nat, cacheable \in BOOLEAN :
        i = op.reply.ino /\ gen = op.reply.gen /\ cacheable = op.reply.cacheable
  BY <1>3, ConstantsAssumption DEF EntryReplies
<1>5. PICK k \in Keys : k = Component
  BY <1>2
<1>6. PICK dir \in Inodes, had \in Nat : dir = op.walk.ino /\ had = op.walk.gen
  BY <1>2
<1>7. PICK q : q = resolver'
  OBVIOUS
<1>8. /\ q = RememberPositive(resolver, k, dir, had, Leaf(k), i, gen, cacheable)
      /\ op' = Advance(op, i, gen) /\ fs' = fs /\ notices' = notices
      /\ overtaken' = Overtakes(op, k, overtaken)
  BY <1>4, <1>5, <1>6, <1>7 DEF RememberComponent, Record, Overtakes
<1>9. /\ op.walk.ino \in Dirs /\ ReplyOf(fs, op, NextKey(op))
      /\ ReplyAgrees(fs, op, NextKey(op), op.walk.ino, op.walk.gen, op.reply.ino, notices)
  BY <1>1, <1>2, RepliesParts DEF HandlerHolds
<1>10. /\ dir \in Dirs /\ gen = fs.gen[i] /\ Fits(fs, k, i, gen) /\ Placed(fs, k, i, gen)
       /\ op.late \/ Says(fs, dir, had, Leaf(k), i) \/ Announced(notices, dir, Leaf(k))
       /\ Fits(fs, Parent(k), dir, had) /\ Placed(fs, Parent(k), dir, had) /\ k # Root
  BY <1>2, <1>4, <1>5, <1>6, <1>9 DEF ReplyOf, ReplyAgrees
<1>11. /\ \/ q.paths[k] = Absent
          \/ /\ IsPositive(q.paths[k]) /\ IsPresent(q.paths[k]) /\ q.paths[k].parent = dir
             /\ q.paths[k].parentGen = had /\ q.paths[k].name = Leaf(k)
             /\ q.paths[k].ino = i /\ q.paths[k].gen = gen
       /\ \A c \in Keys \ {k} : q.paths[c] \in {Absent, resolver.paths[c]}
       /\ \A j \in Inodes : \/ q.inodes[j].gen \in {0, resolver.inodes[j].gen}
                            \/ j = i /\ q.inodes[j].gen = gen
  BY <1>2, <1>8, RememberPositiveFields
<1>12. ~IsPresent(Absent)
  BY DEF IsPresent, Absent
<1>13. \A c \in Keys \ {k} : Weaker(q.paths[c], resolver.paths[c])
  BY <1>11, <1>12 DEF Weaker
<1>14. TableFits(q, fs)
  BY <1>2, <1>10, <1>11, TableStays DEF CacheHolds
<1>15. NewHolds(fs, op, notices, k, q.paths[k])
  <2>1. PICK e : e = q.paths[k]
    OBVIOUS
  <2>2. SUFFICES ASSUME IsPresent(e)
                 PROVE  /\ EntryFits(fs, k, e) /\ EntryPlaced(fs, k, e)
                        /\ \/ op.late \/ Says(fs, e.parent, e.parentGen, e.name, Answer(e))
                           \/ Announced(notices, e.parent, e.name)
    BY <2>1 DEF NewHolds
  <2>3. /\ IsPositive(e) /\ e.parent = dir /\ e.parentGen = had /\ e.name = Leaf(k)
        /\ e.ino = i /\ e.gen = gen
    BY <1>11, <1>12, <2>1, <2>2
  <2>4. QED BY <1>10, <2>3 DEF EntryFits, EntryPlaced, Answer
<1>16. CacheHolds(q, fs, op', overtaken', notices)
  BY <1>2, <1>8, <1>13, <1>14, <1>15, RememberedHolds
<1>17. \A c \in Keys \ OwnKeys(op) : op.kind = "move" => Weaker(q.paths[c], resolver.paths[c])
  BY <1>1, <1>2, <1>5, <1>13, WalkOwns
<1>18. q \in Resolver
  BY <1>7 DEF IInv, Typed, ResolverInv
<1>19. Fits(fs, NextKey(op), i, gen) /\ Placed(fs, NextKey(op), i, gen)
  BY <1>2, <1>5, <1>10
<1>20. HandlerHolds(q, fs, op', notices)
  BY <1>1, <1>2, <1>8, <1>10, <1>16, <1>17, <1>18, <1>19, AdvanceHolds
<1>21. QED BY <1>2, <1>7, <1>8, <1>16, <1>20, NamesNext

LEMMA RememberMissingNames ==
  ASSUME IInv, IInv', NamesInv, RememberMissingComponent
  PROVE  NamesInv'
<1>1. op.pc = "rememberMissing" /\ op.pc \in WalkPCs
  BY DEF RememberMissingComponent, At, WalkPCs
<1>2. /\ OpInv(op) /\ op \in Ops /\ op.next = "idle" /\ resolver \in Resolver
      /\ fs \in FileSystems /\ IsTree(fs)
      /\ Component = NextKey(op) /\ Component \in Keys /\ Component # Root
      /\ Leaf(Component) \in Names /\ Parent(Component) = Reached(op)
      /\ op.walk.ino \in Inodes /\ op.walk.gen \in Nat
      /\ Fits(fs, Reached(op), op.walk.ino, op.walk.gen)
      /\ Placed(fs, Reached(op), op.walk.ino, op.walk.gen) /\ WalkKey(op)
      /\ CacheHolds(resolver, fs, op, overtaken, notices) /\ Evolves(fs, fs, NoInode)
      /\ HandlerHolds(resolver, fs, op, notices) /\ LeftBehind(op) = {} /\ ChangedPaths(op) = {}
  BY <1>1, WalkFacts
<1>3. PICK k \in Keys : k = Component
  BY <1>2
<1>4. PICK dir \in Inodes, had \in Nat : dir = op.walk.ino /\ had = op.walk.gen
  BY <1>2
<1>5. PICK q : q = resolver'
  OBVIOUS
<1>6. /\ q = RememberNegative(resolver, k, dir, had, Leaf(k))
      /\ op' = [op EXCEPT !.pc = "unresolved", !.late = FALSE] /\ fs' = fs /\ notices' = notices
      /\ overtaken' = Overtakes(op, k, overtaken)
  BY <1>3, <1>4, <1>5 DEF RememberMissingComponent, Record, Overtakes
<1>7. /\ op'.pc = "unresolved" /\ op'.next = "idle" /\ SameNames(op', op)
      /\ op'.walk = op.walk /\ op'.ino = op.ino
  BY <1>2, <1>6 DEF Ops, SameNames
<1>8. /\ op.late \/ Says(fs, dir, had, Leaf(k), NoInode) \/ Announced(notices, dir, Leaf(k))
      /\ Fits(fs, Parent(k), dir, had) /\ Placed(fs, Parent(k), dir, had) /\ k # Root
  BY <1>1, <1>2, <1>3, <1>4, RepliesParts DEF HandlerHolds, ReplyAgrees
<1>9. PICK new : new = [kind |-> "negative", parent |-> dir, parentGen |-> had,
                        name |-> Leaf(k), live |-> TRUE]
  OBVIOUS
<1>10. /\ q.paths[k] \in {Absent, new}
       /\ \A c \in Keys \ {k} : q.paths[c] \in {Absent, resolver.paths[c]}
       /\ TableFewer(q, resolver)
  BY <1>2, <1>6, <1>9, RememberNegativeFields
<1>11. ~IsPresent(Absent)
  BY DEF IsPresent, Absent
<1>12. \A c \in Keys \ {k} : Weaker(q.paths[c], resolver.paths[c])
  BY <1>10, <1>11 DEF Weaker
<1>13. TableFits(q, fs)
  <2>1. \A j \in Inodes : q.inodes[j].gen \in {0, resolver.inodes[j].gen}
    BY <1>10 DEF TableFewer
  <2>2. QED BY <1>2, <2>1, TableStays DEF CacheHolds
<1>14. NewHolds(fs, op, notices, k, q.paths[k])
  <2>1. CASE q.paths[k] = Absent
    BY <1>11, <2>1 DEF NewHolds
  <2>2. CASE q.paths[k] = new
    <3>1. ~IsPositive(new) /\ new.parent = dir /\ new.parentGen = had /\ new.name = Leaf(k)
      BY <1>9 DEF IsPositive
    <3>2. QED BY <1>8, <2>2, <3>1 DEF NewHolds, EntryFits, EntryPlaced, Answer
  <2>3. QED BY <1>10, <2>1, <2>2
<1>15. CacheHolds(q, fs, op', overtaken', notices)
  BY <1>2, <1>6, <1>12, <1>13, <1>14, RememberedHolds
<1>16. \A c \in Keys \ OwnKeys(op) : op.kind = "move" => Weaker(q.paths[c], resolver.paths[c])
  BY <1>1, <1>2, <1>3, <1>12, WalkOwns
<1>17. HandlerHolds(resolver', fs', op', notices')
  BY <1>1, <1>2, <1>5, <1>6, <1>7, <1>16, StayingWalk
<1>18. QED BY <1>2, <1>5, <1>6, <1>15, <1>17, NamesNext

-----------------------------------------------------------------------------
(* Between the walks *)

\* A step after which the handler relies on nothing it found before.
LEMMA FreeNames ==
  ASSUME IInv, IInv', NamesInv, fs'.tree = fs.tree, fs'.gen = fs.gen,
         Weakens(resolver', resolver), notices' = notices, Free(op'),
         \A k \in Keys : IsPresent(resolver'.paths[k]) =>
           /\ k \in LeftBehind(op) => k \in LeftBehind(op')
           /\ k \in overtaken \cup ChangedPaths(op) => k \in overtaken' \cup ChangedPaths(op')
  PROVE  NamesInv'
<1>1. fs' \in FileSystems
  BY DEF IInv, Typed
<1>2. HandlerHolds(resolver', fs', op', notices')
  BY FreeHolds
<1>3. QED BY <1>1, <1>2, QuietNames

\* A step after which a move relies on no other inode than before.
LEMMA KnownNames ==
  ASSUME IInv, IInv', NamesInv, fs'.tree = fs.tree, fs'.gen = fs.gen,
         Weakens(resolver', resolver), notices' = notices, overtaken' = overtaken,
         LeftBehind(op) = {}, ChangedPaths(op) = {}, SameNames(op', op), op.kind = "move",
         op'.pc \notin WalkPCs, "created" \notin {op'.pc, op'.next},
         KeepsParent(op', op), KeepsDest(op', op)
  PROVE  NamesInv'
<1>1. /\ OpInv(op) /\ resolver \in Resolver /\ fs \in FileSystems /\ fs' \in FileSystems
  BY DEF IInv, Typed, ResolverInv
<1>2. /\ IsTree(fs) /\ CacheHolds(resolver, fs, op, overtaken, notices)
      /\ HandlerHolds(resolver, fs, op, notices)
  BY NamesParts
<1>3. /\ \A k \in Keys : IsPresent(resolver.paths[k]) => EntryFits(fs, k, resolver.paths[k])
      /\ MoveInv(resolver, fs, op)
  BY <1>2 DEF CacheHolds, EntryHolds, HandlerHolds
<1>4. Evolves(fs', fs, NoInode)
  BY <1>1, <1>2, EvolvesSame
<1>5. \A k \in Keys \ OwnKeys(op) : Weaker(resolver'.paths[k], resolver.paths[k])
  BY DEF Weakens
<1>6. MoveInv(resolver', fs', op')
  BY <1>1, <1>3, <1>4, <1>5, MoveGoesOn
<1>7. ParentInv(fs', op')
  BY DEF ParentInv, SameNames
<1>8. HandlerHolds(resolver', fs', op', notices')
  BY <1>6, <1>7, KnownHolds
<1>9. QED BY <1>1, <1>8, QuietNames

LEMMA IdleFree ==
  ASSUME NEW outcome
  PROVE  Free(IdleOp(outcome)) /\ LeftBehind(IdleOp(outcome)) = {}
         /\ ChangedPaths(IdleOp(outcome)) = {}
<1>1. IdleOp(outcome).pc = "idle" /\ IdleOp(outcome).next = "idle"
      /\ IdleOp(outcome).kind = "none"
  BY DEF IdleOp
<1>2. QED BY <1>1, UnmovedPaths DEF Free, WalkPCs

LEMMA UnresolvedNames == ASSUME IInv, IInv', NamesInv, Unresolved PROVE NamesInv'
<1>1. op.pc = "unresolved" /\ op.pc \in WalkPCs
  BY DEF Unresolved, At, WalkPCs
<1>2. /\ OpInv(op) /\ op \in Ops /\ ResolverInv(resolver) /\ fs \in FileSystems
      /\ LeftBehind(op) = {} /\ ChangedPaths(op) = {} /\ resolver \in Resolver
  BY <1>1, WalkFacts
<1>3. Deliver(resolver, fs) /\ notices' = notices /\ overtaken' = overtaken
  BY DEF Unresolved, environment
<1>4. Fewer(resolver, resolver)
  BY FewerSame
<1>5. Fewer(resolver', resolver) /\ SameFiles(fs', fs)
  BY <1>2, <1>3, <1>4, DeliverFields
<1>6. Weakens(resolver', resolver) /\ fs'.tree = fs.tree /\ fs'.gen = fs.gen
  BY <1>5, FewerWeakens DEF SameFiles
<1>7. \/ op' = IdleOp("drained")
      \/ /\ SameRequest(op', op) /\ op'.ino = op.ino /\ op'.late = op.late
         /\ op'.next = "idle" /\ op'.walk = NoWalk
         /\ \/ op.kind = "setattr" /\ op.walk.into = "mtime" /\ op'.pc = "forgetPath"
            \/ op.kind = "move" /\ op.walk.into = "target" /\ op'.pc = "targetKnown"
            \/ op.kind = "move" /\ op.walk.into = "clash" /\ op'.pc = "call"
  BY <1>2, UnresolvedFields
<1>8. CASE op' = IdleOp("drained")
  <2>1. Free(op')
    BY <1>8, IdleFree
  <2>2. QED BY <1>2, <1>3, <1>6, <2>1, FreeNames
<1>9. CASE op'.pc = "forgetPath" /\ op'.kind = "setattr" /\ op'.next = "idle"
  <2>1. Free(op')
    BY <1>9 DEF Free, WalkPCs
  <2>2. QED BY <1>2, <1>3, <1>6, <2>1, FreeNames
<1>10. CASE /\ op.kind = "move" /\ op.walk.into \in {"target", "clash"} /\ SameRequest(op', op)
            /\ op'.ino = op.ino /\ op'.next = "idle" /\ op'.pc \in {"targetKnown", "call"}
  <2>1. SameNames(op', op) /\ op'.pc \notin WalkPCs /\ "created" \notin {op'.pc, op'.next}
    BY <1>10 DEF SameNames, SameRequest, WalkPCs
  <2>2. op.pc \in MovePCs /\ op.pc # "parentKnown" /\ ~Resolving(op, "parent") /\ ~Resolving(op, "destParent")
    BY <1>1, <1>10 DEF MovePCs, Resolving
  <2>3. KeepsParent(op', op) /\ KeepsDest(op', op)
    BY <1>10, <2>2 DEF KeepsParent, KeepsDest, KnowsParent, KnowsDest
  <2>4. QED BY <1>2, <1>3, <1>6, <1>10, <2>1, <2>3, KnownNames
<1>11. QED BY <1>7, <1>8, <1>9, <1>10 DEF SameRequest

LEMMA DrainNames == ASSUME IInv, IInv', NamesInv, Drain PROVE NamesInv'
<1>1. op.pc = "drain"
  BY DEF Drain, At
<1>2. /\ OpInv(op) /\ op \in Ops /\ ResolverInv(resolver) /\ resolver \in Resolver
      /\ fs \in FileSystems /\ fs' \in FileSystems /\ op.next \in AfterDrain(op.kind)
  BY <1>1 DEF IInv, Typed, ResolverInv, OpInv, InOrder
<1>3. Deliver(resolver, fs) /\ notices' = notices /\ overtaken' = overtaken
  BY DEF Drain, environment
<1>4. Fewer(resolver, resolver)
  BY FewerSame
<1>5. Fewer(resolver', resolver) /\ SameFiles(fs', fs)
  BY <1>2, <1>3, <1>4, DeliverFields
<1>6. Weakens(resolver', resolver) /\ fs'.tree = fs.tree /\ fs'.gen = fs.gen
  BY <1>5, FewerWeakens DEF SameFiles
<1>7. CASE op.next = Ended
  <2>1. op' = IdleOp("drained")
    BY <1>7 DEF Drain
  <2>2. Unmoved(op)
    BY <1>1, <1>7 DEF Unmoved, Ended
  <2>3. QED BY <1>3, <1>6, <2>1, <2>2, UnmovedPaths, IdleFree, FreeNames
<1>8. CASE op.next # Ended
  <2>1. /\ op'.pc = op.next /\ op'.next = "idle" /\ SameRequest(op', op) /\ op'.ino = op.ino
        /\ op'.reply = op.reply /\ op'.late = op.late
    BY <1>2, <1>8 DEF Drain, Ops, SameRequest
  <2>2. op.kind \in RequestKinds \cup {"none"}
    BY <1>2, KindsKnown DEF Ops
  <2>3. LeftBehind(op') = LeftBehind(op) /\ ChangedPaths(op') = ChangedPaths(op)
    <3>1. op.kind = "move" => op.next = "renamed"
      BY <1>2, <1>8 DEF AfterDrain
    <3>2. AfterRename(op') <=> AfterRename(op)
      BY <1>1, <2>1 DEF AfterRename, SameRequest
    <3>3. QED BY <1>1, <2>1, <3>1, <3>2 DEF LeftBehind, ChangedPaths, SameRequest
  <2>4. CASE op.next # "created"
    <3>1. op.next \in {"store", "mutated", "call", "collided", "forgetPath", "renamed"}
      BY <1>2, <1>8, <2>2, <2>4 DEF AfterDrain, RequestKinds
    <3>2. op.kind = "move" => op.next = "renamed"
      BY <1>2, <1>8 DEF AfterDrain
    <3>3. Free(op')
      BY <2>1, <3>1, <3>2 DEF Free, WalkPCs, MovePCs, SameRequest
    <3>4. QED BY <1>3, <1>6, <2>3, <3>3, FreeNames
  <2>5. CASE op.next = "created"
    <3>1. op.kind = "create"
      BY <1>2, <2>2, <2>5 DEF AfterDrain, RequestKinds, Ended
    <3>2. /\ op.reply \in EntryReplies /\ op.path \in Keys \ {Root}
      BY <1>2, <2>5 DEF OpInv, ReplyFits, HoldsEntry, PathsFit, Ops
    <3>3. /\ IsTree(fs) /\ CacheHolds(resolver, fs, op, overtaken, notices)
          /\ HandlerHolds(resolver, fs, op, notices)
      BY NamesParts
    <3>4. CreatedHolds(resolver, fs, op, notices)
      BY <2>5, <3>3, RepliesParts DEF HandlerHolds
    <3>5. Evolves(fs', fs, NoInode) /\ TableFits(resolver, fs)
      BY <1>2, <1>6, <3>3, EvolvesSame DEF CacheHolds
    <3>6. NameStays(fs, fs', notices, notices', op.ino["parent"], Leaf(op.path))
      BY <1>3, <1>6 DEF NameStays
    <3>7. op'.path = op.path /\ fs'.gen[op.reply.ino] = fs.gen[op.reply.ino]
      BY <1>6, <2>1 DEF SameRequest
    <3>8. CreatedHolds(resolver', fs', op', notices')
      BY <1>2, <1>6, <2>1, <3>2, <3>4, <3>5, <3>6, <3>7, CreatedLater
    <3>9. RepliesInv(resolver', fs', op', notices')
      BY <2>1, <2>5, <3>8, RepliesParts
    <3>10. HandlerHolds(resolver', fs', op', notices')
      BY <2>1, <2>5, <3>1, <3>9
         DEF HandlerHolds, WalkPlaced, WalkKey, ParentInv, MoveInv, WalkPCs, SameRequest
    <3>11. QED BY <1>2, <1>3, <1>6, <2>3, <3>10, QuietNames
  <2>6. QED BY <2>4, <2>5
<1>9. QED BY <1>7, <1>8

-----------------------------------------------------------------------------
(* Walks that begin *)

\* Where a purpose makes a walk go.
KeyFor(o, key, purpose) ==
  /\ purpose = "parent" => key = Parent(o.path)
  /\ purpose = "destParent" => key = Parent(o.dest)
  /\ o.kind = "move" /\ purpose = "target" => key = o.path
  /\ purpose = "clash" => key = o.dest

\* The fields of a handler that begins to resolve a path.
Begins(p, o, key, purpose) ==
  /\ SameNames(p, o) /\ p.next = "idle"
  /\ key = Root =>
       /\ p.pc = Known(purpose) /\ p.ino[purpose] = RootIno
       /\ \A s \in Purposes \ {purpose} : p.ino[s] = o.ino[s]
  /\ key # Root =>
       /\ p.pc = "reap" /\ p.ino = o.ino /\ p.walk.key = key /\ p.walk.at = 0
       /\ p.walk.ino = RootIno /\ p.walk.gen = 0 /\ p.walk.into = purpose

LEMMA ResolveBegins ==
  ASSUME NEW o \in Ops, o.next = "idle", NEW key, NEW purpose \in Purposes,
         NEW p, p = Resolve(o, key, purpose)
  PROVE  Begins(p, o, key, purpose)
<1>1. Begins(Resolve(o, key, purpose), o, key, purpose)
  <2>1. LET q == Resolve(o, key, purpose) IN
        /\ SameRequest(q, o) /\ q.next = o.next /\ q.reply = o.reply /\ q.late = o.late
        /\ key = Root =>
             /\ q.pc = Known(purpose) /\ q.walk = o.walk /\ q.ino[purpose] = RootIno
             /\ \A s \in Purposes \ {purpose} : q.ino[s] = o.ino[s]
        /\ key # Root =>
             /\ q.pc = "reap" /\ q.ino = o.ino /\ q.walk.key = key /\ q.walk.at = 0
             /\ q.walk.ino = RootIno /\ q.walk.gen = 0 /\ q.walk.into = purpose
    BY ResolveFields
  <2>2. QED BY <2>1 DEF Begins, SameNames, SameRequest
<1>2. QED BY <1>1

LEMMA BeginHolds ==
  ASSUME NEW f \in FileSystems, IsTree(f), NEW q, NEW o, NEW p, NEW key \in Keys \cup {Root},
         NEW purpose \in Purposes, Begins(p, o, key, purpose), KeyFor(o, key, purpose),
         MoveInv(q, f, p), NEW due
  PROVE  HandlerHolds(q, f, p, due)
<1>1. p.next = "idle" /\ SameNames(p, o)
  BY DEF Begins
<1>2. CASE key = Root
  <2>1. p.pc = Known(purpose) /\ p.ino[purpose] = RootIno
    BY <1>2 DEF Begins
  <2>2. p.pc \notin WalkPCs /\ p.pc # "created" /\ (p.pc = "parentKnown" <=> purpose = "parent")
    BY <2>1, KnownPCs DEF Known, Purposes
  <2>3. ParentInv(f, p)
    <3> SUFFICES ASSUME purpose = "parent"
                 PROVE  /\ Fits(f, Parent(p.path), RootIno, f.gen[RootIno])
                        /\ Placed(f, Parent(p.path), RootIno, f.gen[RootIno])
      BY <2>1, <2>2 DEF ParentInv
    <3>1. Parent(p.path) = Root
      BY <1>1, <1>2 DEF KeyFor, SameNames
    <3>2. QED BY <3>1, RootPlace
  <2>4. QED BY <1>1, <2>2, <2>3, KnownHolds
<1>3. CASE key # Root
  <2>1. /\ p.pc = "reap" /\ p.walk.key = key /\ p.walk.at = 0
        /\ p.walk.ino = RootIno /\ p.walk.gen = 0 /\ p.walk.into = purpose
    BY <1>3 DEF Begins
  <2>2. p.walk.key \in Seq(Names)
    BY <1>3, <2>1, ConstantsAssumption
  <2>3. Reached(p) = Root
    BY <2>1, <2>2, BeginReach
  <2>4. /\ Fits(f, Reached(p), p.walk.ino, p.walk.gen)
        /\ Placed(f, Reached(p), p.walk.ino, p.walk.gen)
    BY <2>1, <2>3, RootPlace
  <2>5. WalkKey(p)
    BY <1>1, <2>1 DEF WalkKey, KeyFor, SameNames
  <2>6. QED BY <1>1, <2>1, <2>4, <2>5, WalkingHolds
<1>4. QED BY <1>2, <1>3

\* A handler between two walks that begins the next one, or ends.
LEMMA BeginNames ==
  ASSUME IInv, IInv', NamesInv, fs'.tree = fs.tree, fs'.gen = fs.gen,
         Weakens(resolver', resolver), notices' = notices, overtaken' = overtaken,
         LeftBehind(op) = {}, ChangedPaths(op) = {},
         NEW o, NEW key \in Keys \cup {Root}, NEW purpose \in Purposes,
         Begins(op', o, key, purpose), KeyFor(o, key, purpose),
         MoveInv(resolver', fs', op')
  PROVE  NamesInv'
<1>1. fs' \in FileSystems /\ fs \in FileSystems /\ IsTree(fs)
  BY NamesParts DEF IInv, Typed
<1>2. IsTree(fs')
  BY <1>1, EvolvesSame DEF Evolves
<1>3. HandlerHolds(resolver', fs', op', notices')
  BY <1>1, <1>2, BeginHolds
<1>4. QED BY <1>1, <1>3, QuietNames

\* The root is the parent of names in the root only.
LEMMA RootOnlyAt ==
  ASSUME IInv, NamesInv, LeftBehind(op) = {}, NEW p
  PROVE  OnlyAt(resolver, fs, p, RootIno, Root)
<1>1. /\ resolver \in Resolver /\ fs \in FileSystems /\ IsTree(fs)
      /\ CacheHolds(resolver, fs, op, overtaken, notices)
  BY NamesParts DEF IInv, Typed, ResolverInv
<1>2. RootIno \in Inodes /\ Root \in Seq(Names)
  BY FileTreeAssumption DEF Root
<1>3. Fits(fs, Root, RootIno, fs.gen[RootIno]) /\ Placed(fs, Root, RootIno, fs.gen[RootIno])
  BY <1>1, RootPlace
<1>4. QED BY <1>1, <1>2, <1>3, OnlyThere

\* What a move knows when it begins its next walk.
NextPurpose(o, purpose) ==
  \/ o.pc = "parentKnown" /\ purpose = "destParent"
  \/ o.pc \in {"destParentKnown", "targetKnown"} /\ purpose \in {"target", "clash"}

LEMMA MoveBegins ==
  ASSUME IInv, NamesInv, op.kind = "move", LeftBehind(op) = {},
         NEW purpose, NextPurpose(op, purpose), NEW key, Begins(op', op, key, purpose), KeyFor(op, key, purpose),
         resolver' = resolver, fs' = fs
  PROVE  MoveInv(resolver', fs', op')
<1>1. /\ OpInv(op) /\ resolver \in Resolver /\ fs \in FileSystems
  BY DEF IInv, Typed, ResolverInv
<1>2. /\ IsTree(fs) /\ CacheHolds(resolver, fs, op, overtaken, notices)
      /\ HandlerHolds(resolver, fs, op, notices)
  BY NamesParts
<1>3. /\ \A k \in Keys : IsPresent(resolver.paths[k]) => EntryFits(fs, k, resolver.paths[k])
      /\ MoveInv(resolver, fs, op)
  BY <1>2 DEF CacheHolds, EntryHolds, HandlerHolds
<1>4. Evolves(fs, fs, NoInode)
  BY <1>1, <1>2, EvolvesSame
<1>5. \A k \in Keys \ OwnKeys(op) : Weaker(resolver.paths[k], resolver.paths[k])
  BY DEF Weaker
<1>6. SameNames(op', op) /\ purpose \in Purposes
  BY DEF Begins, Purposes, NextPurpose
<1>7. KnowsParent(op) /\ ~Resolving(op, "parent") /\ ~Resolving(op, "destParent")
      /\ (op.pc # "parentKnown" => KnowsDest(op))
  BY DEF KnowsParent, KnowsDest, MovePCs, Resolving, WalkPCs, NextPurpose
<1>8. /\ op'.ino["parent"] = op.ino["parent"]
      /\ purpose # "destParent" => op'.ino["destParent"] = op.ino["destParent"]
  BY <1>6 DEF Begins, Purposes, NextPurpose
<1>9. KeepsParent(op', op)
  BY <1>7, <1>8 DEF KeepsParent
<1>10. KeepsDest(op', op) \/ OnlyAt(resolver, fs, op', op'.ino["destParent"], Parent(op'.dest))
  <2>1. CASE purpose # "destParent"
    BY <1>7, <1>8, <2>1 DEF KeepsDest, NextPurpose
  <2>2. CASE purpose = "destParent" /\ key # Root
    <3>1. Resolving(op', "destParent")
      BY <2>2 DEF Begins, Resolving, WalkPCs
    <3>2. QED BY <3>1 DEF KeepsDest, KnowsDest
  <2>3. CASE purpose = "destParent" /\ key = Root
    <3>1. op'.ino["destParent"] = RootIno /\ Parent(op'.dest) = Root
      BY <1>6, <2>3 DEF Begins, KeyFor, SameNames
    <3>2. QED BY <3>1, RootOnlyAt
  <2>4. QED BY <2>1, <2>2, <2>3
<1>11. MoveInv(resolver, fs, op')
  BY <1>1, <1>3, <1>4, <1>5, <1>6, <1>9, <1>10, MoveGoesOn
<1>12. QED BY <1>11

\* What the steps between two walks have in common.
LEMMA BetweenWalks ==
  ASSUME IInv, op.pc \in {"parentKnown", "destParentKnown", "targetKnown", "clashKnown",
                          "mtimeKnown", "call", "collided"}
  PROVE  /\ OpInv(op) /\ op \in Ops /\ op.next = "idle" /\ op.walk = NoWalk
         /\ LeftBehind(op) = {} /\ ChangedPaths(op) = {}
         /\ ResolverInv(resolver) /\ resolver \in Resolver /\ fs \in FileSystems
         /\ op.path \in Keys \cup {Root} /\ op.dest \in Keys \cup {Root}
         /\ op.pc \in StepsOf(op.kind) /\ op.kind \in RequestKinds
         /\ Parent(op.path) \in Keys \cup {Root} /\ Parent(op.dest) \in Keys \cup {Root}
<1>1. op.pc \notin WalkPCs \cup {"idle", "drain"}
  BY DEF WalkPCs
<1>2. /\ OpInv(op) /\ op \in Ops /\ op.next = "idle" /\ op.walk = NoWalk
      /\ ResolverInv(resolver) /\ resolver \in Resolver /\ fs \in FileSystems
      /\ op.pc \in StepsOf(op.kind) /\ op.kind # "none"
  BY <1>1, AtStep
<1>3. LeftBehind(op) = {} /\ ChangedPaths(op) = {}
  BY <1>2, WalkUnmoved, UnmovedPaths
<1>4. op.path \in Keys \cup {Root} /\ op.dest \in Keys \cup {Root} /\ op.kind \in RequestKinds
  BY <1>2, KindsKnown DEF Ops
<1>5. Parent(Root) = Root
  BY DEF Parent, Root
<1>6. QED BY <1>2, <1>3, <1>4, <1>5, WalkPaths

LEMMA ResolveNewParentNames ==
  ASSUME IInv, IInv', NamesInv, ResolveNewParent
  PROVE  NamesInv'
<1>1. op.pc = "parentKnown" /\ op.kind = "move" /\ op' = Resolve(op, Parent(op.dest), "destParent")
      /\ resolver' = resolver /\ fs' = fs /\ notices' = notices /\ overtaken' = overtaken
  BY DEF ResolveNewParent, At, Is, environment
<1>2. /\ op \in Ops /\ op.next = "idle" /\ LeftBehind(op) = {} /\ ChangedPaths(op) = {}
      /\ Parent(op.dest) \in Keys \cup {Root}
  BY <1>1, BetweenWalks
<1>3. PICK key \in Keys \cup {Root} : key = Parent(op.dest)
  BY <1>2
<1>4. Begins(op', op, key, "destParent") /\ KeyFor(op, key, "destParent")
  BY <1>1, <1>2, <1>3, ResolveBegins DEF KeyFor, Purposes
<1>5. MoveInv(resolver', fs', op')
  <2>1. NextPurpose(op, "destParent")
    BY <1>1 DEF NextPurpose
  <2>2. QED BY <1>1, <1>2, <1>4, <2>1, MoveBegins
<1>6. Weakens(resolver', resolver) /\ "destParent" \in Purposes
  BY <1>1, FewerSame, FewerWeakens DEF Purposes
<1>7. QED BY <1>1, <1>2, <1>4, <1>5, <1>6, BeginNames

\* The inode of the handle, or a walk.
LEMMA ResolveMovedNames == ASSUME IInv, IInv', NamesInv, ResolveMoved PROVE NamesInv'
<1>1. op.pc = "destParentKnown" /\ op' = ResolveContextOrPath(op, op.path)
      /\ resolver' = resolver /\ fs' = fs /\ notices' = notices /\ overtaken' = overtaken
  BY DEF ResolveMoved, At, environment
<1>2. /\ op \in Ops /\ op.next = "idle" /\ LeftBehind(op) = {} /\ ChangedPaths(op) = {}
      /\ op.path \in Keys \cup {Root} /\ op.pc \in StepsOf(op.kind) /\ op.kind \in RequestKinds
  BY <1>1, BetweenWalks
<1>3. op.kind = "move"
  BY <1>1, <1>2 DEF StepsOf, RequestKinds
<1>4. Weakens(resolver', resolver) /\ "target" \in Purposes
  BY <1>1, FewerSame, FewerWeakens DEF Purposes
<1>5. CASE op.ctx = NoInode
  <2>1. PICK key \in Keys \cup {Root} : key = op.path
    BY <1>2
  <2>2. op' = Resolve(op, key, "target")
    BY <1>1, <1>5, <2>1 DEF ResolveContextOrPath
  <2>3. Begins(op', op, key, "target") /\ KeyFor(op, key, "target")
    BY <1>2, <1>4, <2>1, <2>2, ResolveBegins DEF KeyFor
  <2>4. MoveInv(resolver', fs', op')
    <3>1. NextPurpose(op, "target")
      BY <1>1 DEF NextPurpose
    <3>2. QED BY <1>1, <1>2, <1>3, <2>3, <3>1, MoveBegins
  <2>5. QED BY <1>1, <1>2, <1>4, <2>3, <2>4, BeginNames
<1>6. CASE op.ctx # NoInode
  <2>1. op' = [op EXCEPT !.pc = "targetKnown", !.ino = [op.ino EXCEPT !["target"] = op.ctx]]
    BY <1>1, <1>6 DEF ResolveContextOrPath
  <2>2. PICK inos : inos = [op.ino EXCEPT !["target"] = op.ctx]
    OBVIOUS
  <2>3. inos["parent"] = op.ino["parent"] /\ inos["destParent"] = op.ino["destParent"]
    BY <1>2, <2>2 DEF Ops, Purposes
  <2>4. op' = [op EXCEPT !.pc = "targetKnown", !.ino = inos]
    BY <2>1, <2>2
  <2>5. op'.pc = "targetKnown" /\ op'.next = "idle" /\ SameNames(op', op) /\ op'.ino = inos
    BY <1>2, <2>4 DEF Ops, SameNames
  <2>6. KeepsParent(op', op) /\ KeepsDest(op', op)
    <3>1. KnowsParent(op) /\ KnowsDest(op)
      BY <1>1, <1>3 DEF KnowsParent, KnowsDest, MovePCs, Resolving, WalkPCs
    <3>2. QED BY <2>3, <2>5, <3>1 DEF KeepsParent, KeepsDest
  <2>7. op'.pc \notin WalkPCs
    BY <2>5 DEF WalkPCs
  <2>8. QED BY <1>1, <1>2, <1>3, <1>4, <2>5, <2>6, <2>7, KnownNames
<1>7. QED BY <1>5, <1>6

LEMMA CheckClashNames == ASSUME IInv, IInv', NamesInv, CheckClash PROVE NamesInv'
<1>1. op.pc = "targetKnown" /\ op.kind = "move"
      /\ resolver' = resolver /\ fs' = fs /\ notices' = notices /\ overtaken' = overtaken
      /\ op' = (IF op.replace THEN Goto(op, "call") ELSE Resolve(op, op.dest, "clash"))
  BY DEF CheckClash, At, Is, environment
<1>2. /\ op \in Ops /\ op.next = "idle" /\ LeftBehind(op) = {} /\ ChangedPaths(op) = {}
      /\ op.dest \in Keys \cup {Root}
  BY <1>1, BetweenWalks
<1>3. Weakens(resolver', resolver) /\ "clash" \in Purposes
  BY <1>1, FewerSame, FewerWeakens DEF Purposes
<1>4. CASE op' = Goto(op, "call")
  <2>1. op'.pc = "call" /\ op'.next = "idle" /\ SameNames(op', op) /\ op'.ino = op.ino
    BY <1>2, <1>4 DEF Goto, Ops, SameNames
  <2>2. KeepsParent(op', op) /\ KeepsDest(op', op)
    <3>1. KnowsParent(op) /\ KnowsDest(op)
      BY <1>1 DEF KnowsParent, KnowsDest, MovePCs, Resolving, WalkPCs
    <3>2. QED BY <2>1, <3>1 DEF KeepsParent, KeepsDest
  <2>3. op'.pc \notin WalkPCs
    BY <2>1 DEF WalkPCs
  <2>4. QED BY <1>1, <1>2, <1>3, <2>1, <2>2, <2>3, KnownNames
<1>5. CASE op' = Resolve(op, op.dest, "clash")
  <2>1. PICK key \in Keys \cup {Root} : key = op.dest
    BY <1>2
  <2>2. Begins(op', op, key, "clash") /\ KeyFor(op, key, "clash")
    BY <1>2, <1>3, <1>5, <2>1, ResolveBegins DEF KeyFor
  <2>3. MoveInv(resolver', fs', op')
    <3>1. NextPurpose(op, "clash")
      BY <1>1 DEF NextPurpose
    <3>2. QED BY <1>1, <1>2, <2>2, <3>1, MoveBegins
  <2>4. QED BY <1>1, <1>2, <1>3, <2>2, <2>3, BeginNames
<1>6. QED BY <1>1, <1>4, <1>5

LEMMA FinishMutationNames == ASSUME IInv, IInv', NamesInv, FinishMutation PROVE NamesInv'
<1>1. /\ op.pc = "mutated" /\ op.kind = "setattr"
      /\ resolver' = InvalidateInodeAttr(resolver, op.ino["target"])
      /\ op' = (IF op.path = Root THEN Resolve(op, Root, "mtime")
                                  ELSE Resolve(op, Parent(op.path), "mtime"))
      /\ fs' = fs /\ notices' = notices /\ overtaken' = overtaken
  BY DEF FinishMutation, At, Is, environment
<1>2. op.pc \notin WalkPCs \cup {"idle", "drain"}
  BY <1>1 DEF WalkPCs
<1>3. op \in Ops /\ op.next = "idle" /\ resolver \in Resolver /\ op.ino["target"] \in Inodes
  BY <1>1, <1>2, AtStep DEF OnFile
<1>4. LeftBehind(op) = {} /\ ChangedPaths(op) = {}
  BY <1>1, UnmovedPaths
<1>5. Weakens(resolver', resolver)
  BY <1>1, <1>3, AttrFewer, FewerWeakens
<1>6. op.path \in Keys \cup {Root}
  BY <1>3 DEF Ops
<1>7. PICK key \in Keys \cup {Root} : key = IF op.path = Root THEN Root ELSE Parent(op.path)
  BY <1>6, WalkPaths
<1>8. op' = Resolve(op, key, "mtime")
  BY <1>1, <1>7
<1>9. "mtime" \in Purposes
  BY DEF Purposes
<1>10. Begins(op', op, key, "mtime") /\ KeyFor(op, key, "mtime")
  BY <1>3, <1>8, <1>9, ResolveBegins DEF KeyFor
<1>11. MoveInv(resolver', fs', op')
  BY <1>1, <1>10 DEF MoveInv, Begins, SameNames
<1>12. QED BY <1>1, <1>4, <1>5, <1>9, <1>10, <1>11, BeginNames

LEMMA OpenExistingNames == ASSUME IInv, IInv', NamesInv, OpenExisting PROVE NamesInv'
<1>1. /\ op.pc = "parentKnown" /\ op.kind = "create"
      /\ op' = (IF op.path = Root THEN IdleOp("undrained") ELSE Resolve(op, op.path, "target"))
      /\ resolver' = resolver /\ fs' = fs /\ notices' = notices /\ overtaken' = overtaken
  BY DEF OpenExisting, At, Is, environment
<1>2. /\ op \in Ops /\ op.next = "idle" /\ LeftBehind(op) = {} /\ ChangedPaths(op) = {}
      /\ op.path \in Keys \cup {Root}
  BY <1>1, BetweenWalks
<1>3. Weakens(resolver', resolver) /\ "target" \in Purposes
  BY <1>1, FewerSame, FewerWeakens DEF Purposes
<1>4. CASE op' = IdleOp("undrained")
  BY <1>1, <1>2, <1>3, <1>4, IdleFree, FreeNames
<1>5. CASE op' = Resolve(op, op.path, "target")
  <2>1. PICK key \in Keys \cup {Root} : key = op.path
    BY <1>2
  <2>2. Begins(op', op, key, "target") /\ KeyFor(op, key, "target")
    BY <1>1, <1>2, <1>3, <1>5, <2>1, ResolveBegins DEF KeyFor
  <2>3. MoveInv(resolver', fs', op')
    BY <1>1, <2>2 DEF MoveInv, Begins, SameNames
  <2>4. QED BY <1>1, <1>2, <1>3, <2>2, <2>3, BeginNames
<1>6. QED BY <1>1, <1>4, <1>5

LEMMA OpenCollisionNames == ASSUME IInv, IInv', NamesInv, OpenCollision PROVE NamesInv'
<1>1. /\ op.pc = "collided" /\ InvalidatePathCache(op.path, Resolve(op, op.path, "target"))
  BY DEF OpenCollision, At
<1>2. /\ op \in Ops /\ op.next = "idle" /\ LeftBehind(op) = {} /\ ChangedPaths(op) = {}
      /\ op.path \in Keys \cup {Root} /\ ResolverInv(resolver) /\ resolver \in Resolver
      /\ fs \in FileSystems /\ op.pc \in StepsOf(op.kind) /\ op.kind \in RequestKinds
  BY <1>1, BetweenWalks
<1>3. op.kind = "create"
  BY <1>1, <1>2 DEF StepsOf, RequestKinds
<1>4. /\ Fewer(resolver', resolver) /\ SameFiles(fs', fs)
      /\ op' = Resolve(op, op.path, "target") /\ UNCHANGED environment
  BY <1>1, <1>2, InvalidatePathFewer
<1>5. /\ Weakens(resolver', resolver) /\ fs'.tree = fs.tree /\ fs'.gen = fs.gen
      /\ notices' = notices /\ overtaken' = overtaken /\ "target" \in Purposes
  BY <1>4, FewerWeakens DEF SameFiles, environment, Purposes
<1>6. PICK key \in Keys \cup {Root} : key = op.path
  BY <1>2
<1>7. Begins(op', op, key, "target") /\ KeyFor(op, key, "target")
  BY <1>2, <1>3, <1>4, <1>5, <1>6, ResolveBegins DEF KeyFor
<1>8. MoveInv(resolver', fs', op')
  BY <1>3, <1>7 DEF MoveInv, Begins, SameNames
<1>9. QED BY <1>2, <1>5, <1>7, <1>8, BeginNames

LEMMA ArrivalNames == ASSUME IInv, IInv', NamesInv, Arrival PROVE NamesInv'
<1>1. /\ op \in Ops /\ op.pc = "idle" /\ op.next = "idle"
      /\ resolver' = resolver /\ fs' = fs /\ notices' = notices /\ overtaken' = overtaken
  BY ArrivalStarts
<1>2. PICK o : /\ Fresh(o) /\ o.path \in Keys
               /\ \/ OnFile(o.kind) /\ op' = ResolveContextOrPath(o, o.path)
                  \/ /\ o.kind \in {"create", "delete", "move"}
                     /\ op' = Resolve(o, IF o.path = Root THEN Root ELSE Parent(o.path), "parent")
  BY ArrivalStarts
<1>3. LeftBehind(op) = {} /\ ChangedPaths(op) = {}
  BY <1>1, UnmovedPaths DEF Unmoved
<1>4. Weakens(resolver', resolver) /\ "target" \in Purposes /\ "parent" \in Purposes
  BY <1>1, FewerSame, FewerWeakens DEF Purposes
<1>5. o \in Ops /\ o.next = "idle"
  BY <1>2 DEF Fresh
<1>6. CASE OnFile(o.kind) /\ op' = ResolveContextOrPath(o, o.path)
  <2>1. o.kind \notin {"create", "delete", "move"}
    BY <1>6 DEF OnFile
  <2>2. CASE o.ctx # NoInode
    <3>1. op' = [o EXCEPT !.pc = "targetKnown", !.ino = [o.ino EXCEPT !["target"] = o.ctx]]
      BY <1>6, <2>2 DEF ResolveContextOrPath
    <3>2. op'.pc = "targetKnown" /\ op'.next = "idle" /\ op'.kind = o.kind
      BY <1>5, <3>1 DEF Ops
    <3>3. Free(op')
      BY <2>1, <3>2 DEF Free, WalkPCs
    <3>4. QED BY <1>1, <1>3, <1>4, <3>3, FreeNames
  <2>3. CASE o.ctx = NoInode
    <3>1. PICK key \in Keys \cup {Root} : key = o.path
      BY <1>2
    <3>2. op' = Resolve(o, key, "target")
      BY <1>6, <2>3, <3>1 DEF ResolveContextOrPath
    <3>3. Begins(op', o, key, "target") /\ KeyFor(o, key, "target")
      BY <1>4, <1>5, <2>1, <3>2, ResolveBegins DEF KeyFor
    <3>4. MoveInv(resolver', fs', op')
      BY <2>1, <3>3 DEF MoveInv, Begins, SameNames
    <3>5. QED BY <1>1, <1>3, <1>4, <3>3, <3>4, BeginNames
  <2>4. QED BY <2>2, <2>3
<1>7. CASE op' = Resolve(o, IF o.path = Root THEN Root ELSE Parent(o.path), "parent")
  <2>1. Parent(Root) = Root
    BY DEF Parent, Root
  <2>2. PICK key \in Keys \cup {Root} :
          key = (IF o.path = Root THEN Root ELSE Parent(o.path)) /\ key = Parent(o.path)
    BY <1>2, <2>1, WalkPaths
  <2>3. op' = Resolve(o, key, "parent")
    BY <1>7, <2>2
  <2>4. Begins(op', o, key, "parent") /\ KeyFor(o, key, "parent")
    BY <1>4, <1>5, <2>2, <2>3, ResolveBegins DEF KeyFor
  <2>5. MoveInv(resolver', fs', op')
    <3>1. CASE key # Root
      <4>1. Resolving(op', "parent")
        BY <2>4, <3>1 DEF Begins, Resolving, WalkPCs
      <4>2. QED BY <4>1 DEF MoveInv
    <3>2. CASE key = Root
      <4>1. op'.ino["parent"] = RootIno /\ op'.pc = "parentKnown" /\ Parent(op'.path) = Root
        BY <2>2, <2>4, <3>2 DEF Begins, Known, SameNames
      <4>2. OnlyAt(resolver', fs', op', op'.ino["parent"], Parent(op'.path))
        BY <1>1, <1>3, <4>1, RootOnlyAt
      <4>3. ~KnowsDest(op')
        BY <4>1 DEF KnowsDest
      <4>4. QED BY <4>2, <4>3, MoveParts
    <3>3. QED BY <3>1, <3>2
  <2>6. QED BY <1>1, <1>3, <1>4, <2>4, <2>5, BeginNames
<1>8. QED BY <1>2, <1>6, <1>7

-----------------------------------------------------------------------------
(* Steps after which the handler relies on nothing it found                *)

LEMMA DrainFree ==
  ASSUME NEW o \in Ops, NEW next, next # "created"
  PROVE  Free(DrainTo(o, next))
<1>1. DrainTo(o, next).pc = "drain" /\ DrainTo(o, next).next = next
  BY GotoFields
<1>2. QED BY <1>1 DEF Free, WalkPCs, MovePCs

LEMMA GotoFree ==
  ASSUME NEW o \in Ops, o.next = "idle",
         NEW pc, \/ pc \in {"forgetPath", "forgetDest", "touched"}
                 \/ pc = "call" /\ o.kind # "move"
  PROVE  Free(Goto(o, pc))
<1>1. Goto(o, pc).pc = pc /\ Goto(o, pc).next = "idle" /\ Goto(o, pc).kind = o.kind
  BY GotoFields DEF SameRequest
<1>2. QED BY <1>1 DEF Free, WalkPCs, MovePCs

\* The handler changed no name and goes on with what it was asked for.
LEMMA RestNames ==
  ASSUME IInv, IInv', NamesInv,
         op.pc \in {"parentKnown", "destParentKnown", "targetKnown", "clashKnown",
                    "mtimeKnown", "call", "collided"},
         fs'.tree = fs.tree, fs'.gen = fs.gen, Weakens(resolver', resolver),
         notices' = notices, overtaken' = overtaken, Free(op')
  PROVE  NamesInv'
BY BetweenWalks, FreeNames

LEMMA SameWeakens == \A q, r : q = r => Weakens(q, r)
BY FewerSame, FewerWeakens

LEMMA GetattrNames ==
  ASSUME IInv, IInv', NamesInv, CachedAttributes \/ GetAttributes
  PROVE  NamesInv'
<1>1. op.pc \in {"targetKnown", "call"} /\ op.kind = "getattr" /\ fs' = fs
      /\ notices' = notices /\ overtaken' = overtaken
  BY DEF CachedAttributes, GetAttributes, At, Is, environment
<1>2. op \in Ops /\ op.next = "idle" /\ resolver \in Resolver
  BY <1>1, BetweenWalks
<1>3. CASE CachedAttributes
  <2>1. op.ino["target"] \in Inodes
    BY <1>1, <1>3, AtStep DEF OnFile, WalkPCs, CachedAttributes, At
  <2>2. Weakens(resolver', resolver)
    BY <1>2, <1>3, <2>1, AttrFewer, FewerWeakens DEF CachedAttributes
  <2>3. op' = DrainTo(op, Ended) \/ op' = Goto(op, "call")
    BY <1>3 DEF CachedAttributes
  <2>4. Free(op')
    BY <1>1, <1>2, <2>3, DrainFree, GotoFree DEF Ended
  <2>5. QED BY <1>1, <2>2, <2>4, RestNames
<1>4. CASE GetAttributes
  <2>1. op'.pc = "drain" /\ op'.next # "created" /\ resolver' = resolver
    <3>1. PICK reply : op' = [DrainTo(op, "store") EXCEPT !.reply = reply]
                       \/ op' = DrainTo(op, Ended)
      BY <1>4 DEF GetAttributes
    <3>2. CASE op' = DrainTo(op, Ended)
      <4>1. DrainTo(op, Ended).pc = "drain" /\ DrainTo(op, Ended).next = Ended
        BY <1>2 DEF DrainTo, Ops
      <4>2. resolver' = resolver
        BY <1>4 DEF GetAttributes
      <4>3. Ended # "created"
        BY DEF Ended
      <4>4. QED BY <3>2, <4>1, <4>2, <4>3
    <3>3. CASE op' = [DrainTo(op, "store") EXCEPT !.reply = reply]
      BY <1>2, <1>4, <3>3 DEF GetAttributes, DrainTo, Ops
    <3>4. QED BY <3>1, <3>2, <3>3
  <2>2. Free(op')
    BY <2>1 DEF Free, WalkPCs, MovePCs
  <2>3. QED BY <1>1, <2>1, <2>2, SameWeakens, RestNames
<1>5. QED BY <1>3, <1>4

LEMMA StoreNames == ASSUME IInv, IInv', NamesInv, StoreAttributes PROVE NamesInv'
<1>1. /\ op.pc = "store" /\ op' = IdleOp("drained") /\ fs' = fs /\ notices' = notices
      /\ overtaken' = (IF op.late THEN overtaken \cup {op.ino["target"]}
                                  ELSE overtaken \ {op.ino["target"]})
      /\ \/ resolver' = RememberAttr(resolver, op.ino["target"], op.reply.attr)
         \/ resolver' = ForgetAttr(resolver, op.ino["target"])
  BY DEF StoreAttributes, At
<1>2. op.pc \notin WalkPCs \cup {"idle", "drain"}
  BY <1>1 DEF WalkPCs
<1>3. op \in Ops /\ op.next = "idle" /\ resolver \in Resolver
  BY <1>1, <1>2, AtStep
<1>4. op.ino["target"] \in Inodes
  BY <1>1, StoringTarget DEF Storing
<1>5. PICK i \in Inodes : i = op.ino["target"]
  BY <1>4
<1>6. Weakens(resolver', resolver)
  <2>1. CASE resolver' = ForgetAttr(resolver, i)
    BY <1>3, <2>1, AttrFewer, FewerWeakens
  <2>2. CASE resolver' = RememberAttr(resolver, i, op.reply.attr)
    <3>1. /\ resolver'.paths = resolver.paths
          /\ \A j \in Inodes : resolver'.inodes[j].gen = resolver.inodes[j].gen
      BY <1>3, <2>2, RememberAttrFields
    <3>2. QED BY <3>1 DEF Weakens, Weaker
  <2>3. QED BY <1>1, <1>5, <2>1, <2>2
<1>7. \A k \in Keys : k \in overtaken <=> k \in overtaken'
  BY <1>1, <1>4, AdapterAssumption
<1>8. LeftBehind(op) = {} /\ ChangedPaths(op) = {}
  BY <1>1, <1>3, UnmovedPaths DEF Unmoved
<1>9. QED BY <1>1, <1>6, <1>7, <1>8, IdleFree, FreeNames

LEMMA SetAttributesNames == ASSUME IInv, IInv', NamesInv, SetAttributes PROVE NamesInv'
<1>1. /\ op.pc = "targetKnown" /\ resolver' = resolver
      /\ notices' = notices /\ overtaken' = overtaken
      /\ fs' = fs \/ fs' = Changed(fs, {op.ino["target"]})
      /\ op' \in {IdleOp("undrained"), DrainTo(op, Ended), DrainTo(op, "mutated")}
  BY DEF SetAttributes, At, environment
<1>2. op \in Ops /\ fs \in FileSystems
  BY <1>1, BetweenWalks
<1>3. fs'.tree = fs.tree /\ fs'.gen = fs.gen
  BY <1>1, <1>2, ChangedFields
<1>4. Free(op')
  BY <1>1, <1>2, IdleFree, DrainFree DEF Ended
<1>5. QED BY <1>1, <1>3, <1>4, SameWeakens, RestNames

LEMMA MtimeNames ==
  ASSUME IInv, IInv', NamesInv, InvalidateParentAttr
  PROVE  NamesInv'
<1>1. /\ op.pc = "mtimeKnown" /\ resolver' = InvalidateInodeAttr(resolver, op.ino["mtime"])
      /\ op' = Goto(op, "forgetPath") /\ fs' = fs
      /\ notices' = notices /\ overtaken' = overtaken
  BY DEF InvalidateParentAttr, At, environment
<1>2. op \in Ops /\ op.next = "idle" /\ resolver \in Resolver /\ OpInv(op)
  BY <1>1, BetweenWalks
<1>3. op.ino["mtime"] \in Inodes
  BY <1>1, <1>2 DEF OpInv, InodesKnown
<1>4. Weakens(resolver', resolver)
  BY <1>1, <1>2, <1>3, AttrFewer, FewerWeakens
<1>5. Free(op')
  BY <1>1, <1>2, GotoFree
<1>6. QED BY <1>1, <1>4, <1>5, RestNames

LEMMA PlainNames ==
  ASSUME IInv, IInv', NamesInv, Access \/ Probe \/ ProbeAgain \/ OpenResolved \/ Clash
  PROVE  NamesInv'
<1>1. /\ op.pc \in {"targetKnown", "call", "clashKnown"} /\ resolver' = resolver /\ fs' = fs
      /\ notices' = notices /\ overtaken' = overtaken
      /\ op' \in {IdleOp("drained"), IdleOp("undrained"), DrainTo(op, Ended),
                  DrainTo(op, "call")}
  BY DEF Access, Probe, ProbeAgain, OpenResolved, Clash, At, environment
<1>2. op \in Ops
  BY <1>1, BetweenWalks
<1>3. Free(op')
  BY <1>1, <1>2, IdleFree, DrainFree DEF Ended
<1>4. QED BY <1>1, <1>3, SameWeakens, RestNames

LEMMA SetxattrNames == ASSUME IInv, IInv', NamesInv, FinishSetXattr PROVE NamesInv'
<1>1. /\ op.pc = "mutated" /\ op.kind = "setxattr"
      /\ resolver' = InvalidateInodeAttr(resolver, op.ino["target"])
      /\ op' = IdleOp("drained") /\ fs' = fs /\ notices' = notices /\ overtaken' = overtaken
  BY DEF FinishSetXattr, At, Is, environment
<1>2. op.pc \notin WalkPCs \cup {"idle", "drain"}
  BY <1>1 DEF WalkPCs
<1>3. op \in Ops /\ op.next = "idle" /\ resolver \in Resolver /\ op.ino["target"] \in Inodes
  BY <1>1, <1>2, AtStep DEF OnFile
<1>4. LeftBehind(op) = {} /\ ChangedPaths(op) = {}
  BY <1>1, UnmovedPaths
<1>5. Weakens(resolver', resolver)
  BY <1>1, <1>3, AttrFewer, FewerWeakens
<1>6. QED BY <1>1, <1>4, <1>5, IdleFree, FreeNames

-----------------------------------------------------------------------------
(* The paths a handler invalidates are those whose names it changed        *)

LEMMA SelfSubtree ==
  ASSUME NEW k \in Keys
  PROVE  k \in Subtree(k)
<1>1. k \in Seq(Names)
  BY ConstantsAssumption
<1>2. SubSeq(k, 1, Len(k)) = k
  BY <1>1
<1>3. Len(k) \in Nat
  BY <1>1
<1>4. QED BY <1>2, <1>3 DEF Subtree

LEMMA InvalidatedNames ==
  ASSUME IInv, IInv', NamesInv, NEW path, NEW o, InvalidatePathCache(path, o), Free(o),
         LeftBehind(op) \subseteq Subtree(path) \cup LeftBehind(o),
         ChangedPaths(op) \subseteq Subtree(path) \cup ChangedPaths(o)
  PROVE  NamesInv'
<1>1. resolver \in Resolver /\ ResolverInv(resolver) /\ fs \in FileSystems
  BY DEF IInv, Typed, ResolverInv
<1>2. /\ Fewer(resolver', resolver) /\ SameFiles(fs', fs)
      /\ \A c \in Subtree(path) : resolver'.paths[c] = Absent
      /\ op' = o /\ notices' = notices /\ overtaken' = overtaken
  BY <1>1, InvalidatePathFewer DEF environment
<1>3. Weakens(resolver', resolver) /\ fs'.tree = fs.tree /\ fs'.gen = fs.gen
  BY <1>2, FewerWeakens DEF SameFiles
<1>4. ~IsPresent(Absent)
  BY DEF IsPresent, Absent
<1>5. \A k \in Keys : IsPresent(resolver'.paths[k]) => k \notin Subtree(path)
  BY <1>2, <1>4
<1>6. QED BY <1>2, <1>3, <1>5, FreeNames

LEMMA MutatedPathNames ==
  ASSUME IInv, IInv', NamesInv, InvalidateMutatedPath
  PROVE  NamesInv'
<1>1. op.kind = "setattr" /\ InvalidatePathCache(op.path, IdleOp("drained"))
  BY DEF InvalidateMutatedPath, Is
<1>2. LeftBehind(op) = {} /\ ChangedPaths(op) = {}
  BY <1>1, UnmovedPaths
<1>3. QED BY <1>1, <1>2, IdleFree, InvalidatedNames

\* What a handler knows of its paths when it invalidates them.
LEMMA Invalidating ==
  ASSUME IInv, op.kind \in {"delete", "move"},
         op.pc \in {"forgetPath", "forgetDest", "touched", "renamed"}
  PROVE  /\ op \in Ops /\ op.next = "idle" /\ OpInv(op) /\ resolver \in Resolver
         /\ op.path \in Keys /\ op.path \in Subtree(op.path)
         /\ op.kind = "move" => op.dest \in Keys /\ op.dest \in Subtree(op.dest)
         /\ op.ino["parent"] \in Inodes
         /\ op.kind = "move" => op.ino["destParent"] \in Inodes
         /\ op.ino \in [Purposes -> Inodes \cup {NoInode}] /\ op.ctx \in Inodes \cup {NoInode}
<1>1. op \in Ops /\ OpInv(op) /\ resolver \in Resolver /\ op.next = "idle"
  BY DEF IInv, Typed, OpInv, InOrder, ResolverInv
<1>2. op.path \in Keys /\ (op.kind = "move" => op.dest \in Keys)
  BY <1>1 DEF OpInv, PathsFit, Ops
<1>3. ~Resolving(op, "parent") /\ ~Resolving(op, "destParent") /\ op.pc # "parentKnown"
  BY DEF Resolving, WalkPCs
<1>4. op.ino["parent"] \in Inodes /\ (op.kind = "move" => op.ino["destParent"] \in Inodes)
  BY <1>1, <1>3 DEF OpInv, InodesKnown
<1>5. op.ino \in [Purposes -> Inodes \cup {NoInode}] /\ op.ctx \in Inodes \cup {NoInode}
  BY <1>1 DEF Ops
<1>6. QED BY <1>1, <1>2, <1>4, <1>5, SelfSubtree

LEMMA RemovedNames ==
  ASSUME IInv, IInv', NamesInv, InvalidateRemovedPath \/ FinishRemoved
  PROVE  NamesInv'
<1>1. op.kind = "delete" /\ op.pc \in {"forgetPath", "touched"}
  BY DEF InvalidateRemovedPath, FinishRemoved, At, Is
<1>2. /\ op \in Ops /\ op.next = "idle" /\ resolver \in Resolver /\ op.path \in Subtree(op.path)
      /\ op.ino["parent"] \in Inodes /\ op.ctx \in Inodes \cup {NoInode}
  BY <1>1, Invalidating
<1>3. LeftBehind(op) = {}
  BY <1>1 DEF LeftBehind, AfterRename
<1>4. CASE InvalidateRemovedPath
  <2>1. op.pc = "forgetPath" /\ InvalidatePathCache(op.path, Goto(op, "touched"))
    BY <1>4 DEF InvalidateRemovedPath, At
  <2>2. ChangedPaths(op) = {op.path}
    BY <1>1, <2>1 DEF ChangedPaths, AfterRename
  <2>3. Free(Goto(op, "touched"))
    BY <1>2, GotoFree
  <2>4. QED BY <1>2, <1>3, <2>1, <2>2, <2>3, InvalidatedNames
<1>5. CASE FinishRemoved
  <2>1. /\ op.pc = "touched" /\ op' = IdleOp("drained") /\ fs' = fs /\ notices' = notices
        /\ overtaken' = overtaken
    BY <1>5 DEF FinishRemoved, At, environment
  <2>2. ChangedPaths(op) = {}
    BY <1>1, <1>2, <2>1 DEF ChangedPaths, AfterRename
  <2>3. PICK dir \in Inodes : dir = op.ino["parent"]
    BY <1>2
  <2>4. ResolverInv(resolver)
    BY DEF IInv, Typed
  <2>5. CASE op.ctx = NoInode
    <3>1. resolver' = InvalidateInodeAttr(resolver, op.ino["parent"])
      BY <1>5, <2>5 DEF FinishRemoved
    <3>2. Fewer(resolver', resolver)
      BY <1>2, <2>3, <3>1, AttrFewer
    <3>3. QED BY <1>3, <2>1, <2>2, <3>2, FewerWeakens, IdleFree, FreeNames
  <2>6. CASE op.ctx # NoInode
    <3>1. PICK i \in Inodes : i = op.ctx
      BY <1>2, <2>6
    <3>2. resolver' = InvalidateInodeAttr(InvalidateInodeAttr(resolver, i), dir)
      BY <1>5, <2>3, <2>6, <3>1 DEF FinishRemoved
    <3>3. Fewer(resolver', resolver)
      BY <1>2, <2>4, <3>2, TwoDropped
    <3>4. QED BY <1>3, <2>1, <2>2, <3>3, FewerWeakens, IdleFree, FreeNames
  <2>7. QED BY <2>5, <2>6
<1>6. QED BY <1>4, <1>5

LEMMA MovedNames ==
  ASSUME IInv, IInv', NamesInv,
         InvalidateMoved \/ InvalidateOldPath \/ InvalidateNewPath \/ FinishMoved
  PROVE  NamesInv'
<1>1. op.kind = "move" /\ op.pc \in {"renamed", "forgetPath", "forgetDest", "touched"}
  <2>1. op.pc = "renamed" => op.kind = "move"
    <3>1. SUFFICES ASSUME op.pc = "renamed" PROVE op.kind = "move"
      OBVIOUS
    <3>2. op.pc \notin WalkPCs \cup {"idle", "drain"}
      BY <3>1 DEF WalkPCs
    <3>3. op.pc \in StepsOf(op.kind) /\ op \in Ops /\ op.kind # "none"
      BY <3>2, AtStep
    <3>4. op.kind \in RequestKinds
      BY <3>3, KindsKnown DEF Ops
    <3>5. PICK kind \in RequestKinds : kind = op.kind /\ "renamed" \in StepsOf(kind)
      BY <3>1, <3>3, <3>4
    <3>6. kind = "move"
      BY <3>5 DEF StepsOf, RequestKinds
    <3>7. QED BY <3>5, <3>6
  <2>2. InvalidateMoved => op.pc = "renamed"
    BY DEF InvalidateMoved, At
  <2>3. InvalidateOldPath => op.pc = "forgetPath" /\ op.kind = "move"
    BY DEF InvalidateOldPath, At, Is
  <2>4. InvalidateNewPath => op.pc = "forgetDest"
    BY DEF InvalidateNewPath, At
  <2>5. FinishMoved => op.pc = "touched" /\ op.kind = "move"
    BY DEF FinishMoved, At, Is
  <2>6. ASSUME op.pc = "forgetDest" PROVE op.kind = "move"
    <3>1. op.pc \notin WalkPCs \cup {"idle", "drain"}
      BY <2>6 DEF WalkPCs
    <3>2. op.pc \in StepsOf(op.kind) /\ op \in Ops /\ op.kind # "none"
      BY <3>1, AtStep
    <3>3. op.kind \in RequestKinds
      BY <3>2, KindsKnown DEF Ops
    <3>4. PICK kind \in RequestKinds : kind = op.kind /\ "forgetDest" \in StepsOf(kind)
      BY <2>6, <3>2, <3>3
    <3>5. kind = "move"
      BY <3>4 DEF StepsOf, RequestKinds
    <3>6. QED BY <3>4, <3>5
  <2>7. QED BY <2>1, <2>2, <2>3, <2>4, <2>5, <2>6
<1>2. /\ op \in Ops /\ op.next = "idle" /\ resolver \in Resolver
      /\ op.path \in Subtree(op.path) /\ op.dest \in Subtree(op.dest)
      /\ op.ino["parent"] \in Inodes /\ op.ino["destParent"] \in Inodes
      /\ op.ino \in [Purposes -> Inodes \cup {NoInode}]
  BY <1>1, Invalidating
<1>3. CASE InvalidateMoved
  <2>1. /\ op.pc = "renamed" /\ op' = Goto(op, "forgetPath") /\ fs' = fs /\ notices' = notices
        /\ overtaken' = overtaken
    BY <1>3 DEF InvalidateMoved, At, environment
  <2>2. Weakens(resolver', resolver)
    <3>1. CASE op.ino["target"] = NoInode
      BY <1>3, <3>1, SameWeakens DEF InvalidateMoved
    <3>2. CASE op.ino["target"] # NoInode
      <4>1. PICK i \in Inodes : i = op.ino["target"]
        BY <1>2, <3>2 DEF Purposes
      <4>2. resolver' = InvalidateInodeAttr(resolver, i)
        BY <1>3, <3>2, <4>1 DEF InvalidateMoved
      <4>3. QED BY <1>2, <4>2, AttrFewer, FewerWeakens
    <3>3. QED BY <3>1, <3>2
  <2>3. Free(op')
    BY <1>2, <2>1, GotoFree
  <2>4. /\ op'.kind = op.kind /\ op'.path = op.path /\ op'.dest = op.dest
        /\ op'.pc = "forgetPath" /\ op'.next = "idle"
    BY <1>2, <2>1, GotoFields DEF SameRequest
  <2>5. AfterRename(op) /\ AfterRename(op')
    BY <1>1, <2>1, <2>4 DEF AfterRename
  <2>6. LeftBehind(op') = LeftBehind(op) /\ ChangedPaths(op') = ChangedPaths(op)
    BY <2>4, <2>5 DEF LeftBehind, ChangedPaths
  <2>7. QED BY <2>1, <2>2, <2>3, <2>6, FreeNames
<1>4. CASE InvalidateOldPath
  <2>1. op.pc = "forgetPath" /\ InvalidatePathCache(op.path, Goto(op, "forgetDest"))
    BY <1>4 DEF InvalidateOldPath, At
  <2>2. PICK o : o = Goto(op, "forgetDest")
    OBVIOUS
  <2>3. o.kind = op.kind /\ o.dest = op.dest /\ o.pc = "forgetDest" /\ o.next = "idle"
    BY <1>2, <2>2, GotoFields DEF SameRequest
  <2>4. AfterRename(op) /\ ~AfterRename(o)
    BY <1>1, <2>1, <2>3 DEF AfterRename
  <2>5. /\ LeftBehind(op) = Subtree(op.path) /\ ChangedPaths(op) = {op.path, op.dest}
        /\ ChangedPaths(o) = {op.dest}
    <3>1. LeftBehind(op) = Subtree(op.path)
      BY <2>4 DEF LeftBehind
    <3>2. ChangedPaths(op) = {op.path, op.dest}
      BY <1>1, <2>1, <2>4 DEF ChangedPaths
    <3>3. o.kind = "move"
      BY <1>1, <2>3
    <3>4. ChangedPaths(o) = {op.dest}
      BY <2>3, <2>4, <3>3 DEF ChangedPaths
    <3>5. QED BY <3>1, <3>2, <3>4
  <2>6. Free(o)
    BY <1>2, <2>2, GotoFree
  <2>7. QED BY <1>2, <2>1, <2>2, <2>5, <2>6, InvalidatedNames
<1>5. CASE InvalidateNewPath
  <2>1. op.pc = "forgetDest" /\ InvalidatePathCache(op.dest, Goto(op, "touched"))
    BY <1>5 DEF InvalidateNewPath, At
  <2>2. ~AfterRename(op)
    BY <1>2, <2>1 DEF AfterRename
  <2>3. LeftBehind(op) = {} /\ ChangedPaths(op) = {op.dest}
    BY <1>1, <2>1, <2>2 DEF LeftBehind, ChangedPaths
  <2>4. Free(Goto(op, "touched"))
    BY <1>2, GotoFree
  <2>5. QED BY <1>2, <2>1, <2>3, <2>4, InvalidatedNames
<1>6. CASE FinishMoved
  <2>1. /\ op.pc = "touched" /\ op' = IdleOp("drained") /\ fs' = fs /\ notices' = notices
        /\ overtaken' = overtaken
    BY <1>6 DEF FinishMoved, At, environment
  <2>2. LeftBehind(op) = {} /\ ChangedPaths(op) = {}
    BY <1>1, <1>2, <2>1 DEF LeftBehind, ChangedPaths, AfterRename
  <2>3. PICK dir \in Inodes, newDir \in Inodes :
          dir = op.ino["parent"] /\ newDir = op.ino["destParent"]
    BY <1>2
  <2>4. resolver' = InvalidateInodeAttr(InvalidateInodeAttr(resolver, dir), newDir)
    BY <1>6, <2>3 DEF FinishMoved
  <2>5. ResolverInv(resolver)
    BY DEF IInv, Typed
  <2>6. Weakens(resolver', resolver)
    BY <1>2, <2>4, <2>5, TwoDropped, FewerWeakens
  <2>7. QED BY <2>1, <2>2, <2>6, IdleFree, FreeNames
<1>7. QED BY <1>3, <1>4, <1>5, <1>6

-----------------------------------------------------------------------------
(* create: the new name and its entry                                      *)

LEMMA FinishCreatedNames == ASSUME IInv, IInv', NamesInv, FinishCreated PROVE NamesInv'
<1>1. /\ op \in Ops /\ op.pc = "created" /\ op.next = "idle" /\ op.kind = "create"
      /\ op.path \in Keys \ {Root} /\ fs' = fs /\ notices' = notices
      /\ overtaken' = Overtakes(op, op.path, overtaken)
      /\ op'.pc = "drain" /\ op'.next = Ended
  BY CreatedIsRemembered DEF Overtakes
<1>2. /\ resolver \in Resolver /\ fs \in FileSystems /\ IsTree(fs) /\ OpInv(op)
      /\ CacheHolds(resolver, fs, op, overtaken, notices)
      /\ HandlerHolds(resolver, fs, op, notices)
  BY NamesParts DEF IInv, Typed, ResolverInv
<1>3. PICK dir \in Inodes, i \in Inodes, gen \in Generations, cacheable \in BOOLEAN,
           r \in Resolver :
        /\ dir = op.ino["parent"] /\ i = op.reply.ino /\ gen = op.reply.gen
        /\ ResolverInv(r) /\ Fewer(r, resolver) /\ r.paths = resolver.paths
        /\ resolver' = RememberPositive(r, op.path, dir, GenerationFor(r, dir),
                                        Leaf(op.path), i, gen, cacheable)
  BY CreatedIsRemembered
<1>4. /\ Evolves(fs, fs, NoInode) /\ Weakens(r, resolver) /\ TableFits(resolver, fs)
  BY <1>2, <1>3, EvolvesSame, FewerWeakens DEF CacheHolds
<1>5. op.reply \in EntryReplies /\ CreatedHolds(resolver, fs, op, notices)
  <2>1. HoldsEntry(op) /\ "created" \in {op.pc, op.next}
    BY <1>1 DEF HoldsEntry
  <2>2. QED BY <1>2, <2>1, RepliesParts DEF HandlerHolds, OpInv, ReplyFits
<1>6. NameStays(fs, fs, notices, notices, op.ino["parent"], Leaf(op.path))
  BY DEF NameStays
<1>7. CreatedHolds(r, fs, op, notices)
  BY <1>1, <1>2, <1>4, <1>5, <1>6, CreatedLater
<1>8. PICK k \in Keys : k = op.path
  BY <1>1
<1>9. PICK had \in Nat : had = GenerationFor(r, dir)
  <2>1. r.inodes[dir].gen \in Generations
    BY <1>3 DEF Resolver, InodeState
  <2>2. QED BY <2>1, ConstantsAssumption DEF GenerationFor
<1>10. /\ dir \in Dirs /\ gen = fs.gen[i] /\ Fits(fs, k, i, gen) /\ Placed(fs, k, i, gen)
       /\ Fits(fs, Parent(k), dir, had) /\ Placed(fs, Parent(k), dir, had)
       /\ op.late \/ Says(fs, dir, had, Leaf(k), i) \/ Announced(notices, dir, Leaf(k))
  BY <1>3, <1>7, <1>8, <1>9 DEF CreatedHolds, ReplyOf, ReplyAgrees
<1>11. PICK q : q = resolver'
  OBVIOUS
<1>12. q = RememberPositive(r, k, dir, had, Leaf(k), i, gen, cacheable)
  BY <1>3, <1>8, <1>9, <1>11
<1>13. /\ \/ q.paths[k] = Absent
          \/ /\ IsPositive(q.paths[k]) /\ IsPresent(q.paths[k]) /\ q.paths[k].parent = dir
             /\ q.paths[k].parentGen = had /\ q.paths[k].name = Leaf(k)
             /\ q.paths[k].ino = i /\ q.paths[k].gen = gen
       /\ \A c \in Keys \ {k} : q.paths[c] \in {Absent, r.paths[c]}
       /\ \A j \in Inodes : \/ q.inodes[j].gen \in {0, r.inodes[j].gen}
                            \/ j = i /\ q.inodes[j].gen = gen
  BY <1>12, RememberPositiveFields
<1>14. ~IsPresent(Absent)
  BY DEF IsPresent, Absent
<1>15. \A c \in Keys \ {k} : Weaker(q.paths[c], resolver.paths[c])
  BY <1>3, <1>13, <1>14 DEF Weaker
<1>16. TableFits(q, fs)
  <2>1. \A j \in Inodes : \/ q.inodes[j].gen \in {0, resolver.inodes[j].gen}
                          \/ q.inodes[j].gen = fs.gen[j]
    BY <1>4, <1>10, <1>13 DEF Weakens
  <2>2. QED BY <1>2, <1>4, <2>1, TableStays
<1>17. NewHolds(fs, op, notices, k, q.paths[k])
  <2>1. PICK e : e = q.paths[k]
    OBVIOUS
  <2>2. SUFFICES ASSUME IsPresent(e)
                 PROVE  /\ EntryFits(fs, k, e) /\ EntryPlaced(fs, k, e)
                        /\ \/ op.late \/ Says(fs, e.parent, e.parentGen, e.name, Answer(e))
                           \/ Announced(notices, e.parent, e.name)
    BY <2>1 DEF NewHolds
  <2>3. /\ IsPositive(e) /\ e.parent = dir /\ e.parentGen = had /\ e.name = Leaf(k)
        /\ e.ino = i /\ e.gen = gen
    BY <1>13, <1>14, <2>1, <2>2
  <2>4. QED BY <1>1, <1>8, <1>10, <2>3 DEF EntryFits, EntryPlaced, Answer
<1>18. LeftBehind(op) = {} /\ ChangedPaths(op) \subseteq {k}
  BY <1>1, <1>8 DEF LeftBehind, ChangedPaths, AfterRename
<1>19. CacheHolds(q, fs, op', overtaken', notices)
  BY <1>1, <1>2, <1>8, <1>15, <1>16, <1>17, <1>18, RememberedHolds
<1>20. Free(op')
  <2>1. op'.kind = "create"
    BY <1>1, CreatedIsRemembered
  <2>2. QED BY <1>1, <2>1 DEF Free, WalkPCs, MovePCs, Ended
<1>21. QED BY <1>1, <1>2, <1>11, <1>19, <1>20, FreeHolds, NamesNext

\* The number an entry names is not given to another file.
LEMMA EntryLive ==
  ASSUME IInv, NEW k \in Keys, IsPositive(resolver.paths[k])
  PROVE  resolver.paths[k].ino \in Inodes /\ fs.nlookup[resolver.paths[k].ino] > 0
<1> DEFINE e == resolver.paths[k]
<1>1. Typed /\ LookupsBalance /\ ResolverInv(resolver)
  BY DEF IInv, Typed
<1>2. e \in PathEntry
  BY <1>1 DEF ResolverInv, Resolver
<1>3. e \in PositiveEntry
  BY <1>2, EntryKinds
<1>4. e.ino \in Inodes /\ e.outstanding[e.ino] \in Nat
  BY <1>3 DEF PositiveEntry
<1>5. k \in PositiveKeys(resolver)
  BY DEF PositiveKeys
<1>6. e.outstanding[e.ino] > 0
  BY <1>1, <1>4, <1>5 DEF ResolverInv
<1>7. <<k, 1>> \in Refs(resolver, e.ino)
  <2>1. 1 \in 1 .. e.outstanding[e.ino]
    BY <1>4, <1>6
  <2>2. QED BY <1>5, <2>1, RefsElements
<1>8. PICK i \in Inodes : i = e.ino
  BY <1>4
<1>9. /\ Cardinality(Refs(resolver, i)) \in Nat /\ resolver.pending[i] \in Nat
      /\ InReply(i) \in {0, 1}
  BY <1>1, <1>8, HasType
<1>10. IsFiniteSet(Refs(resolver, i)) /\ <<k, 1>> \in Refs(resolver, i)
  BY <1>1, <1>7, <1>8 DEF ResolverInv
<1>11. Cardinality(Refs(resolver, i)) > 0
  BY <1>9, <1>10, FS_EmptySet
<1>12. fs.nlookup[i] = Cardinality(Refs(resolver, i)) + resolver.pending[i]
                         + InReply(i) + lost[i]
  BY <1>1 DEF LookupsBalance
<1>13. lost[i] \in Nat
  BY <1>1 DEF Typed
<1>14. fs.nlookup[i] > 0
  BY <1>9, <1>11, <1>12, <1>13
<1>15. QED BY <1>8, <1>14

\* Of the entries of the directory that holds the last name of a path, only
\* the one at the path has that name.
LEMMA OnlyEntry ==
  ASSUME NEW f \in FileSystems, IsTree(f), NEW k \in Keys, k # Root, NEW dir \in Dirs,
         Fits(f, Parent(k), dir, f.gen[dir]), Placed(f, Parent(k), dir, f.gen[dir]),
         NEW c \in Keys, NEW e, EntryFits(f, c, e), EntryPlaced(f, c, e),
         e.parent = dir, e.name = Leaf(k), Current(f, dir, e.parentGen)
  PROVE  c = k
<1>1. /\ c # Root /\ e.name = Leaf(c) /\ Fits(f, Parent(c), dir, e.parentGen)
      /\ Placed(f, Parent(c), dir, e.parentGen)
  BY DEF EntryFits, EntryPlaced
<1>2. PICK gen : gen = e.parentGen /\ gen = f.gen[dir]
  BY DEF Current
<1>3. Parent(c) \in Seq(Names) /\ Parent(k) \in Seq(Names)
  BY <1>1, PathShape
<1>4. Parent(c) = Parent(k)
  BY <1>1, <1>2, <1>3, OnePlace
<1>5. QED BY <1>1, <1>4, OneName

\* The same entry after a step of the file system.
LEMMA WeakerSame == \A e : Weaker(e, e)
BY DEF Weaker

\* A step of the file system, with the entries as they are.
LEMMA FilesCache ==
  ASSUME IInv, NamesInv, NEW g, NEW m, Evolves(g, fs, m), NEW p, NEW over2, NEW due2,
         \A k \in Keys : Stays(fs, g, m, op, p, overtaken, over2, notices, due2, k,
                               resolver.paths[k])
  PROVE  CacheHolds(resolver, g, p, over2, due2)
<1>1. /\ resolver \in Resolver /\ CacheHolds(resolver, fs, op, overtaken, notices)
  BY NamesParts DEF IInv, Typed, ResolverInv
<1>2. TableFits(resolver, g)
  BY <1>1, TableStays DEF CacheHolds
<1>3. ASSUME NEW k \in Keys
      PROVE  EntryHolds(g, p, over2, due2, k, resolver.paths[k])
  <2>1. /\ Weaker(resolver.paths[k], resolver.paths[k])
        /\ EntryHolds(fs, op, overtaken, notices, k, resolver.paths[k])
        /\ Stays(fs, g, m, op, p, overtaken, over2, notices, due2, k, resolver.paths[k])
    BY <1>1, WeakerSame DEF CacheHolds
  <2>2. QED BY <1>1, <2>1, EntryStays
<1>4. QED BY <1>2, <1>3 DEF CacheHolds

\* What an entry is, when the handler left nothing behind.
LEMMA EntryFacts ==
  ASSUME IInv, NamesInv, NEW k \in Keys, IsPresent(resolver.paths[k])
  PROVE  LET e == resolver.paths[k] IN
         /\ e.parent \in Inodes /\ e.parentGen \in Nat /\ e.name \in Names
         /\ e.parent # NoInode
         /\ IsPositive(e) => e.ino \in Inodes /\ e.ino # NoInode /\ fs.nlookup[e.ino] > 0
         /\ EntryFits(fs, k, e) /\ Fits(fs, Parent(k), e.parent, e.parentGen)
         /\ k \notin LeftBehind(op) => EntryPlaced(fs, k, e)
<1>1. resolver \in Resolver /\ CacheHolds(resolver, fs, op, overtaken, notices)
  BY NamesParts DEF IInv, Typed, ResolverInv
<1>2. PICK e : e = resolver.paths[k]
  OBVIOUS
<1>3. /\ EntryFits(fs, k, e) /\ (k \notin LeftBehind(op) => EntryPlaced(fs, k, e))
  BY <1>1, <1>2 DEF CacheHolds, EntryHolds
<1>4. /\ e.parent \in Inodes /\ e.parentGen \in Nat /\ e.name \in Names
      /\ IsPositive(e) => e.ino \in Inodes
  BY <1>1, <1>2, EntryTypes
<1>5. IsPositive(e) => fs.nlookup[e.ino] > 0
  BY <1>2, EntryLive
<1>6. QED BY <1>2, <1>3, <1>4, <1>5, FileTreeAssumption DEF EntryFits

\* The directory that a new or a removed name is in.
LEMMA ParentPlace ==
  ASSUME IInv, NamesInv, op.pc = "parentKnown", op.kind \in {"create", "delete"}
  PROVE  LET dir == op.ino["parent"] IN
         /\ dir \in Inodes /\ Fits(fs, Parent(op.path), dir, fs.gen[dir])
         /\ Placed(fs, Parent(op.path), dir, fs.gen[dir])
<1>1. ParentInv(fs, op)
  BY DEF NamesInv
<1>2. op.ino["parent"] \in Inodes
  BY AtStep DEF WalkPCs
<1>3. QED BY <1>1, <1>2 DEF ParentInv

\* A file system with one more file goes on from the one without it.
LEMMA MadeEvolves ==
  ASSUME NEW f \in FileSystems, NEW g, IsTree(f), NEW dir \in Dirs, NEW name \in Names,
         NEW i \in Inodes, MadeTree(g, f, dir, name, i)
  PROVE  Evolves(g, f, NoInode)
<1>1. /\ g \in FileSystems /\ IsTree(g) /\ \A j \in Inodes \ {i} : g.gen[j] = f.gen[j]
      /\ g.gen[i] = f.gen[i] + 1 /\ \A j \in Inodes : f.gen[j] \in Nat
  BY FileTypes DEF MadeTree
<1>2. \A j \in Inodes : f.gen[j] <= g.gen[j]
  BY <1>1
<1>3. g.gen[i] # f.gen[i]
  BY <1>1
<1>4. \A j \in Inodes : Linked(g, j) /\ g.gen[j] = f.gen[j] => Linked(f, j)
  BY <1>3 DEF MadeTree
<1>5. \A d \in Dirs, n \in Names : g.tree[<<d, n>>] \in {f.tree[<<d, n>>], NoInode, i}
  BY DEF MadeTree
<1>6. Evolves(g, f, i)
  BY <1>1, <1>2, <1>4, <1>5, DirsStay
<1>7. QED BY <1>3, <1>6 DEF Evolves

LEMMA MakeChoices ==
  ASSUME IInv, MakeEntry
  PROVE  fs' # fs \/ op' \in {DrainTo(op, "collided"), DrainTo(op, Ended)}
<1>1. fs \in FileSystems
  BY DEF IInv, Typed
<1>2. \/ op' \in {DrainTo(op, "collided"), DrainTo(op, Ended)}
      \/ \E i \in Inodes :
           /\ fs' = Granted(Made(fs, op.ino["parent"], Leaf(op.path), i), i)
           /\ op.ino["parent"] \in Dirs /\ fs.gen[i] + 1 \in Generations
  BY DEF MakeEntry, Unused
<1>3. ASSUME NEW i \in Inodes, op.ino["parent"] \in Dirs, fs.gen[i] + 1 \in Generations,
             fs' = Granted(Made(fs, op.ino["parent"], Leaf(op.path), i), i)
      PROVE  fs' # fs
  <2>1. op.pc = "parentKnown" /\ op.path # Root
    BY DEF MakeEntry, At
  <2>2. PICK dir \in Dirs, name \in Names : dir = op.ino["parent"] /\ name = Leaf(op.path)
    BY <1>3, <2>1, BetweenWalks, WalkPaths
  <2>3. fs'.nlookup = Granted(fs, i).nlookup
    BY <1>1, <1>3, <2>2, MadeGrantedFields
  <2>4. NoForgets \in [Inodes -> Nat]
    BY DEF NoForgets
  <2>5. fs'.nlookup = [fs.nlookup EXCEPT ![i] = @ + 1]
    BY <1>1, <2>3, <2>4, LookupFields
  <2>6. fs.nlookup \in [Inodes -> Int]
    BY <1>1 DEF FileSystems
  <2>7. fs'.nlookup[i] = fs.nlookup[i] + 1 /\ fs.nlookup[i] \in Int
    BY <2>5, <2>6
  <2>8. QED BY <2>7
<1>4. QED BY <1>2, <1>3

LEMMA MakeEntryNames == ASSUME IInv, IInv', NamesInv, MakeEntry PROVE NamesInv'
<1>1. /\ op.pc = "parentKnown" /\ op.kind = "create" /\ resolver' = resolver
      /\ notices' = notices /\ overtaken' = overtaken
  BY DEF MakeEntry, At, Is, environment
<1>2. /\ op \in Ops /\ op.next = "idle" /\ fs \in FileSystems /\ resolver \in Resolver
      /\ LeftBehind(op) = {} /\ ChangedPaths(op) = {} /\ IsTree(fs)
      /\ TableFits(resolver, fs)
  BY <1>1, BetweenWalks DEF NamesInv
<1>3. CASE fs' = fs
  <2>1. op' \in {DrainTo(op, "collided"), DrainTo(op, Ended)}
    BY <1>3, MakeChoices
  <2>2. Free(op')
    BY <1>2, <2>1, DrainFree DEF Ended
  <2>3. QED BY <1>1, <1>3, <2>2, SameWeakens, RestNames
<1>4. CASE fs' # fs
  <2>1. PICK dir \in Dirs, name \in Names, i \in Inodes, cacheable \in BOOLEAN :
          /\ dir = op.ino["parent"] /\ name = Leaf(op.path) /\ op.path # Root
          /\ fs.tree[<<dir, name>>] = NoInode /\ ~Linked(fs, i)
          /\ Linked(fs, dir) /\ (i \in Dirs => dir = RootIno)
          /\ fs.nlookup[i] = 0 /\ fs.gen[i] + 1 \in Generations
          /\ fs' = Granted(Made(fs, dir, name, i), i)
          /\ op'.reply.ino = i /\ op'.reply.gen = fs.gen[i] + 1
          /\ op'.next = "created" /\ op'.pc = "drain" /\ op'.ino = op.ino
          /\ op'.late = op.late /\ op'.walk = NoWalk /\ SameRequest(op', op)
    BY <1>4, MakeEntryMakes
  <2>2. PICK g : g = fs'
    OBVIOUS
  <2>3. MadeTree(g, fs, dir, name, i)
    BY <1>2, <2>1, <2>2, MadeTreeFields
  <2>4. Evolves(g, fs, NoInode)
    BY <1>2, <2>3, MadeEvolves
  <2>5. /\ g \in FileSystems /\ IsTree(g) /\ g.gen[i] = fs.gen[i] + 1
        /\ \A j \in Inodes \ {i} : g.gen[j] = fs.gen[j]
        /\ g.tree[<<dir, name>>] = i
        /\ \A d \in Dirs, n \in Names :
             <<d, n>> # <<dir, name>> => g.tree[<<d, n>>] = fs.tree[<<d, n>>]
    BY <2>3 DEF MadeTree
  <2>6. PICK k \in Keys : k = op.path /\ k # Root
    BY <1>2, <2>1 DEF Ops
  <2>7. Fits(fs, Parent(k), dir, fs.gen[dir]) /\ Placed(fs, Parent(k), dir, fs.gen[dir])
    BY <1>1, <2>1, <2>6, ParentPlace
  <2>8. op'.kind = "create" /\ op'.path = op.path
    BY <1>1, <2>1 DEF SameRequest
  <2>9. LeftBehind(op') = {} /\ ChangedPaths(op') = {k}
    BY <2>1, <2>6, <2>8 DEF LeftBehind, ChangedPaths, AfterRename
  <2>10. ASSUME NEW c \in Keys
         PROVE  Stays(fs, g, NoInode, op, op', overtaken, overtaken', notices, notices', c,
                      resolver.paths[c])
    <3>1. PICK e : e = resolver.paths[c]
      OBVIOUS
    <3>2. SUFFICES ASSUME IsPresent(e)
                   PROVE  Stays(fs, g, NoInode, op, op', overtaken, overtaken', notices,
                                notices', c, e)
      BY <3>1 DEF Stays
    <3>3. /\ e.parent \in Inodes /\ e.parentGen \in Nat /\ e.name \in Names
          /\ e.parent # NoInode
          /\ IsPositive(e) => e.ino \in Inodes /\ e.ino # NoInode /\ fs.nlookup[e.ino] > 0
          /\ EntryFits(fs, c, e) /\ Fits(fs, Parent(c), e.parent, e.parentGen)
          /\ EntryPlaced(fs, c, e)
      BY <1>2, <3>1, <3>2, EntryFacts
    <3>4. IsPositive(e) => g.gen[e.ino] = fs.gen[e.ino]
      BY <2>1, <2>5, <3>3
    <3>5. ASSUME Current(g, e.parent, e.parentGen), c # k
          PROVE  g.tree[<<e.parent, e.name>>] = fs.tree[<<e.parent, e.name>>]
      <4>1. e.parent \in Dirs
        BY <3>5 DEF Current
      <4>2. CASE <<e.parent, e.name>> # <<dir, name>>
        BY <2>5, <3>3, <4>1, <4>2
      <4>3. CASE e.parent = dir /\ e.name = name
        <5>1. Current(fs, e.parent, e.parentGen)
          BY <2>4, <3>3, <3>5, SaysLater
        <5>2. Current(fs, dir, e.parentGen) /\ e.name = Leaf(k)
          BY <2>1, <2>6, <4>3, <5>1
        <5>3. c = k
          BY <1>2, <2>6, <2>7, <3>3, <4>3, <5>2, OnlyEntry
        <5>4. QED BY <3>5, <5>3
      <4>4. QED BY <4>2, <4>3
    <3>6. QED BY <1>1, <1>2, <2>9, <3>3, <3>4, <3>5 DEF Stays
  <2>11. CacheHolds(resolver, g, op', overtaken', notices')
    BY <2>4, <2>10, FilesCache
  <2>12. CreatedHolds(resolver, g, op', notices')
    <3>1. PICK gen : gen = GenerationFor(resolver, dir)
      OBVIOUS
    <3>2. gen \in Nat /\ gen <= fs.gen[dir] /\ fs.gen[dir] \in Nat /\ dir \in Inodes
      <4>1. dir \in Inodes
        BY FileTreeAssumption
      <4>2. resolver.inodes[dir].gen \in Generations
        BY <1>2, <4>1 DEF Resolver, InodeState
      <4>3. QED BY <1>2, <3>1, <4>1, <4>2, FileTypes DEF GenerationFor, TableFits
    <3>3. Fits(fs, Parent(k), dir, gen) /\ Placed(fs, Parent(k), dir, gen)
      BY <2>7, <3>2 DEF Fits, Placed
    <3>4. /\ Parent(k) \in Seq(Names) /\ Leaf(k) \in Names
          /\ (Len(k) = 1 <=> Parent(k) = Root) /\ (Len(k) = 1 => k[1] = Leaf(k))
      BY <2>6, PathShape
    <3>5. dir # NoInode
      BY <3>2, FileTreeAssumption
    <3>6. Fits(g, Parent(k), dir, gen) /\ Placed(g, Parent(k), dir, gen)
      BY <2>4, <3>2, <3>3, <3>4, <3>5, PlaceLater
    <3>7. g.gen[i] \in Nat /\ i # RootIno
      BY <2>1, <2>5, FileTypes DEF Linked
    <3>8. i \in Dirs => Len(k) = 1 /\ g.tree[<<RootIno, k[1]>>] = i
      BY <2>1, <2>5, <2>6, <2>7, <3>4 DEF Fits
    <3>9. Fits(g, k, i, g.gen[i]) /\ Placed(g, k, i, g.gen[i])
      BY <3>7, <3>8 DEF Fits, Placed
    <3>10. ReplyOf(g, op', k)
      BY <2>1, <2>5, <3>9 DEF ReplyOf
    <3>11. Says(g, dir, gen, Leaf(k), i)
      BY <2>1, <2>5, <2>6 DEF Says
    <3>12. QED BY <2>1, <2>6, <2>8, <3>1, <3>6, <3>10, <3>11
              DEF CreatedHolds, ReplyAgrees
  <2>13. RepliesInv(resolver, g, op', notices')
    BY <2>1, <2>12, RepliesParts
  <2>14. HandlerHolds(resolver, g, op', notices')
    BY <2>1, <2>8, <2>13
       DEF HandlerHolds, WalkPlaced, WalkKey, ParentInv, MoveInv, WalkPCs
  <2>15. QED BY <1>1, <2>2, <2>5, <2>11, <2>14, NamesNext
<1>5. QED BY <1>3, <1>4

-----------------------------------------------------------------------------
(* delete: the name that goes                                              *)

LEMMA RemoveEntryNames == ASSUME IInv, IInv', NamesInv, RemoveEntry PROVE NamesInv'
<1>1. IsTree(fs)
  BY DEF NamesInv
<1>2. /\ op.pc = "parentKnown" /\ op.kind = "delete" /\ resolver' = resolver
      /\ notices' = notices /\ overtaken' = overtaken
  BY <1>1, RemoveEntryRemoves
<1>3. /\ op \in Ops /\ OpInv(op) /\ op.next = "idle" /\ fs \in FileSystems
      /\ LeftBehind(op) = {} /\ ChangedPaths(op) = {}
  BY <1>2, BetweenWalks
<1>4. CASE fs' = fs /\ op' = DrainTo(op, Ended)
  <2>1. Free(op')
    BY <1>3, <1>4, DrainFree DEF Ended
  <2>2. QED BY <1>2, <1>4, <2>1, SameWeakens, RestNames
<1>5. CASE /\ op' = DrainTo(op, "forgetPath")
           /\ \E dir \in Dirs, name \in Names :
                /\ dir = op.ino["parent"] /\ name = Leaf(op.path)
                /\ fs.tree[<<dir, name>>] # NoInode
                /\ CutTree(fs', fs, dir, name)
  <2>1. PICK dir \in Dirs, name \in Names :
          /\ dir = op.ino["parent"] /\ name = Leaf(op.path)
          /\ fs.tree[<<dir, name>>] # NoInode
          /\ CutTree(fs', fs, dir, name)
    BY <1>5
  <2>2. PICK g : g = fs'
    OBVIOUS
  <2>3. /\ g \in FileSystems /\ IsTree(g) /\ g.gen = fs.gen
        /\ \A i \in Inodes : Linked(g, i) => Linked(fs, i)
        /\ g.tree[<<dir, name>>] = NoInode
        /\ \A d \in Dirs, n \in Names :
             <<d, n>> # <<dir, name>> => g.tree[<<d, n>>] = fs.tree[<<d, n>>]
    BY <2>1, <2>2 DEF CutTree
  <2>4. Evolves(g, fs, NoInode)
    <3>1. \A d \in Dirs, n \in Names : g.tree[<<d, n>>] \in {fs.tree[<<d, n>>], NoInode}
      BY <2>3
    <3>2. \A i \in Inodes : fs.gen[i] <= g.gen[i]
      BY <1>3, <2>3, FileTypes
    <3>3. QED BY <1>1, <1>3, <2>3, <3>1, <3>2, DirsStay
  <2>5. PICK k \in Keys : k = op.path /\ k # Root
    BY <1>2, <1>3 DEF OpInv, PathsFit, Ops
  <2>6. Fits(fs, Parent(k), dir, fs.gen[dir]) /\ Placed(fs, Parent(k), dir, fs.gen[dir])
    BY <1>2, <2>1, <2>5, ParentPlace
  <2>7. op'.kind = "delete" /\ op'.path = op.path /\ op'.pc = "drain" /\ op'.next = "forgetPath"
    BY <1>2, <1>3, <1>5 DEF DrainTo, Ops
  <2>8. LeftBehind(op') = {} /\ ChangedPaths(op') = {k}
    BY <2>5, <2>7 DEF LeftBehind, ChangedPaths, AfterRename
  <2>9. ASSUME NEW c \in Keys
        PROVE  Stays(fs, g, NoInode, op, op', overtaken, overtaken', notices, notices', c,
                     resolver.paths[c])
    <3>1. PICK e : e = resolver.paths[c]
      OBVIOUS
    <3>2. SUFFICES ASSUME IsPresent(e)
                   PROVE  Stays(fs, g, NoInode, op, op', overtaken, overtaken', notices,
                                notices', c, e)
      BY <3>1 DEF Stays
    <3>3. /\ e.parent \in Inodes /\ e.parentGen \in Nat /\ e.name \in Names
          /\ e.parent # NoInode
          /\ IsPositive(e) => e.ino \in Inodes /\ e.ino # NoInode
          /\ EntryFits(fs, c, e) /\ Fits(fs, Parent(c), e.parent, e.parentGen)
          /\ EntryPlaced(fs, c, e)
      BY <1>3, <3>1, <3>2, EntryFacts
    <3>4. ASSUME Current(g, e.parent, e.parentGen), c # k
          PROVE  g.tree[<<e.parent, e.name>>] = fs.tree[<<e.parent, e.name>>]
      <4>1. e.parent \in Dirs
        BY <3>4 DEF Current
      <4>2. CASE <<e.parent, e.name>> # <<dir, name>>
        BY <2>3, <3>3, <4>1, <4>2
      <4>3. CASE e.parent = dir /\ e.name = name
        <5>1. Current(fs, e.parent, e.parentGen)
          BY <2>4, <3>3, <3>4, SaysLater
        <5>2. Current(fs, dir, e.parentGen) /\ e.name = Leaf(k)
          BY <2>1, <2>5, <4>3, <5>1
        <5>3. c = k
          BY <1>1, <1>3, <2>5, <2>6, <3>3, <4>3, <5>2, OnlyEntry
        <5>4. QED BY <3>4, <5>3
      <4>4. QED BY <4>2, <4>3
    <3>5. QED BY <1>2, <1>3, <2>3, <2>8, <3>3, <3>4 DEF Stays
  <2>10. CacheHolds(resolver, g, op', overtaken', notices')
    BY <2>4, <2>9, FilesCache
  <2>11. Free(op')
    BY <2>7 DEF Free, WalkPCs, MovePCs
  <2>12. QED BY <1>2, <2>2, <2>3, <2>10, <2>11, FreeHolds, NamesNext
<1>6. QED BY <1>1, <1>4, <1>5, RemoveEntryRemoves

-----------------------------------------------------------------------------
(* move: the names that change places                                      *)

\* The names that rename changes are cached at the two paths of the move only.
LEMMA MovedEntry ==
  ASSUME NEW r, NEW f \in FileSystems, NEW o, NEW d \in Dirs,
         o.path \in Keys \ {Root}, o.dest \in Keys \ {Root},
         Len(Parent(o.path)) <= 1, Len(Parent(o.dest)) <= 1,
         NEW p \in {o.path, o.dest}, OnlyAt(r, f, o, d, Parent(p)),
         NEW k \in Keys, NEW e, e = r.paths[k], IsPresent(e), EntryFits(f, k, e),
         e.parent = d, e.name = Leaf(p), Current(f, d, e.parentGen)
  PROVE  k \in {o.path, o.dest}
<1>1. /\ k # Root /\ e.name = Leaf(k) /\ Fits(f, Parent(k), d, e.parentGen)
      /\ Fits(f, Parent(p), d, f.gen[d])
      /\ k \in Keys \ OwnKeys(o) => Parent(k) = Parent(p)
  BY DEF EntryFits, OnlyAt
<1>2. p \in Keys /\ p # Root /\ Leaf(k) = Leaf(p)
  BY <1>1
<1>3. ASSUME Parent(k) = Parent(p) PROVE k = p
  BY <1>1, <1>2, <1>3, OneName
<1>4. ASSUME k \in OwnKeys(o), Parent(k) # Parent(p) PROVE k \in {o.path, o.dest}
  <2>1. d # RootIno
    BY <1>1, <1>4 DEF Fits
  <2>2. Len(Parent(k)) = 1 /\ Len(Parent(p)) = 1
    BY <1>1, <2>1 DEF Fits
  <2>3. PICK c \in {o.path, o.dest} : Len(k) <= Len(c) /\ SubSeq(c, 1, Len(k)) = k
    BY <1>4 DEF OwnKeys
  <2>4. c \in Keys /\ c # Root /\ Len(Parent(c)) <= 1
    BY <2>3
  <2>5. /\ c \in Seq(Names) /\ Len(c) \in Nat /\ Len(Parent(c)) = Len(c) - 1
        /\ Len(k) \in Nat /\ Len(Parent(k)) = Len(k) - 1
    BY <1>1, <2>4, PathShape
  <2>6. Len(k) = Len(c)
    <3>1. PICK m \in Nat, n \in Nat : m = Len(k) /\ n = Len(c)
      BY <2>5
    <3>2. m - 1 = 1 /\ n - 1 <= 1 /\ m <= n
      BY <2>2, <2>3, <2>4, <2>5, <3>1
    <3>3. m = n
      BY <3>2
    <3>4. QED BY <3>1, <3>3
  <2>7. SubSeq(c, 1, Len(c)) = c
    BY <2>5
  <2>8. QED BY <2>3, <2>6, <2>7
<1>5. QED BY <1>1, <1>3, <1>4

\* What a move knows when it renames.
LEMMA RenameFacts ==
  ASSUME IInv, NamesInv, op.pc = "call", op.kind = "move",
         op.ino["parent"] \in Dirs, op.ino["destParent"] \in Dirs
  PROVE  /\ OnlyAt(resolver, fs, op, op.ino["parent"], Parent(op.path))
         /\ OnlyAt(resolver, fs, op, op.ino["destParent"], Parent(op.dest))
         /\ op.path \in Keys \ {Root} /\ op.dest \in Keys \ {Root}
         /\ Len(Parent(op.path)) <= 1 /\ Len(Parent(op.dest)) <= 1
<1>1. MoveInv(resolver, fs, op) /\ OpInv(op) /\ op \in Ops
  BY BetweenWalks DEF NamesInv
<1>2. KnowsDest(op)
  BY DEF KnowsDest, KnowsParent, MovePCs, Resolving, WalkPCs
<1>3. /\ OnlyAt(resolver, fs, op, op.ino["parent"], Parent(op.path))
      /\ OnlyAt(resolver, fs, op, op.ino["destParent"], Parent(op.dest))
  BY <1>1, <1>2, MoveParts DEF KnowsDest
<1>4. op.path \in Keys \ {Root} /\ op.dest \in Keys \ {Root}
  BY <1>1 DEF OpInv, PathsFit, Ops
<1>5. \A d \in Dirs : \A k : Fits(fs, k, d, fs.gen[d]) => k = Root \/ Len(k) = 1
  BY DEF Fits
<1>6. Len(Root) = 0
  BY DEF Root
<1>7. Len(Parent(op.path)) <= 1 /\ Len(Parent(op.dest)) <= 1
  <2>1. /\ Fits(fs, Parent(op.path), op.ino["parent"], fs.gen[op.ino["parent"]])
        /\ Fits(fs, Parent(op.dest), op.ino["destParent"], fs.gen[op.ino["destParent"]])
    BY <1>3 DEF OnlyAt
  <2>2. /\ Parent(op.path) = Root \/ Len(Parent(op.path)) = 1
        /\ Parent(op.dest) = Root \/ Len(Parent(op.dest)) = 1
    BY <1>5, <2>1
  <2>3. ASSUME NEW k, k = Root \/ Len(k) = 1 PROVE Len(k) <= 1
    <3>1. PICK n : n = Len(k)
      OBVIOUS
    <3>2. n = 0 \/ n = 1
      BY <1>6, <2>3, <3>1
    <3>3. n <= 1
      BY <3>2
    <3>4. QED BY <3>1, <3>3
  <2>4. QED BY <2>2, <2>3
<1>8. QED BY <1>3, <1>4, <1>7

\* What was cached of a directory is at and below the path it is moved from.
LEMMA MovedDirectory ==
  ASSUME NEW f \in FileSystems, IsTree(f), NEW k \in Keys, k # Root, NEW dir \in Dirs,
         Fits(f, Parent(k), dir, f.gen[dir]), NEW i \in Dirs, f.tree[<<dir, Leaf(k)>>] = i,
         NEW c \in Seq(Names), NEW gen, gen = f.gen[i],
         Fits(f, c, i, gen), Placed(f, c, i, gen)
  PROVE  c = k
<1>1. /\ k \in Seq(Names) /\ Leaf(k) \in Names
      /\ (Len(k) = 1 <=> Parent(k) = Root) /\ (Len(k) = 1 => k = <<Leaf(k)>> /\ k[1] = Leaf(k))
  BY PathShape
<1>2. dir = RootIno /\ i # RootIno /\ RootIno \in Dirs /\ i # NoInode
  BY <1>1, FileTreeAssumption DEF IsTree
<1>3. Len(k) = 1
  BY <1>1, <1>2 DEF Fits
<1>4. Linked(f, i)
  BY <1>1, LinkedMeans
<1>5. Current(f, i, gen)
  BY <1>4 DEF Current
<1>6. Fits(f, k, i, gen)
  BY <1>2, <1>3, FileTypes DEF Fits
<1>7. Placed(f, k, i, gen)
  BY <1>1, <1>2, <1>3 DEF Placed
<1>8. QED BY <1>1, <1>5, <1>6, <1>7, OnePlace

-----------------------------------------------------------------------------
(* rename: a file, or a directory with what is in it                       *)

LEMMA BelowParent ==
  ASSUME NEW k \in Keys, k # Root
  PROVE  Parent(k) \in Keys => k \in Subtree(Parent(k))
<1>1. k \in Seq(Names) /\ Len(k) \in Nat /\ Len(Parent(k)) = Len(k) - 1
  BY PathShape
<1>2. PICK n \in Nat : n = Len(k)
  BY <1>1
<1>3. Len(Parent(k)) <= Len(k)
  BY <1>1, <1>2
<1>4. SubSeq(k, 1, Len(Parent(k))) = Parent(k)
  BY <1>1 DEF Parent
<1>5. QED BY <1>3, <1>4 DEF Subtree

LEMMA MovedEvolves ==
  ASSUME NEW f \in FileSystems, NEW g, IsTree(f), NEW dir \in Dirs, NEW name \in Names,
         NEW newDir \in Dirs, NEW newName \in Names,
         MovedTree(g, f, dir, name, newDir, newName),
         NEW m, m = IF f.tree[<<dir, name>>] \in Dirs THEN f.tree[<<dir, name>>] ELSE NoInode
  PROVE  Evolves(g, f, m)
<1>1. /\ g \in FileSystems /\ IsTree(g) /\ g.gen = f.gen
      /\ \A j \in Inodes : Linked(g, j) => Linked(f, j)
      /\ g.tree[<<dir, name>>] = NoInode
      /\ g.tree[<<newDir, newName>>] = f.tree[<<dir, name>>]
      /\ \A d \in Dirs, n \in Names :
           <<d, n>> \notin {<<dir, name>>, <<newDir, newName>>} =>
             g.tree[<<d, n>>] = f.tree[<<d, n>>]
  BY DEF MovedTree
<1>2. PICK i : i = f.tree[<<dir, name>>]
  OBVIOUS
<1>3. \A j \in Inodes : f.gen[j] <= g.gen[j]
  BY <1>1, FileTypes
<1>4. \A d \in Dirs, n \in Names : g.tree[<<d, n>>] \in {f.tree[<<d, n>>], NoInode, i}
  <2>1. SUFFICES ASSUME NEW d \in Dirs, NEW n \in Names
                 PROVE  g.tree[<<d, n>>] \in {f.tree[<<d, n>>], NoInode, i}
    OBVIOUS
  <2>2. CASE <<d, n>> = <<dir, name>>
    BY <1>1, <2>2
  <2>3. CASE <<d, n>> = <<newDir, newName>>
    BY <1>1, <1>2, <2>3
  <2>4. QED BY <1>1, <2>2, <2>3
<1>5. Evolves(g, f, i)
  BY <1>1, <1>3, <1>4, DirsStay
<1>6. CASE i \in Dirs
  BY <1>2, <1>5, <1>6
<1>7. CASE i \notin Dirs
  <2>1. Evolves(g, f, m)
    BY <1>5, <1>7 DEF Evolves
  <2>2. QED BY <2>1
<1>8. QED BY <1>6, <1>7

LEMMA RenameNames == ASSUME IInv, IInv', NamesInv, Rename PROVE NamesInv'
<1>1. IsTree(fs)
  BY DEF NamesInv
<1>2. /\ op.pc = "call" /\ op.kind = "move" /\ resolver' = resolver /\ notices' = notices
  BY <1>1, RenameMoves
<1>3. /\ op \in Ops /\ OpInv(op) /\ op.next = "idle" /\ fs \in FileSystems
      /\ LeftBehind(op) = {} /\ ChangedPaths(op) = {}
  BY <1>2, BetweenWalks
<1>4. CASE fs' = fs /\ op' = DrainTo(op, Ended) /\ overtaken' = overtaken
  <2>1. Free(op')
    BY <1>3, <1>4, DrainFree DEF Ended
  <2>2. QED BY <1>2, <1>4, <2>1, SameWeakens, RestNames
<1>5. CASE /\ op' = DrainTo(op, "renamed")
           /\ \E dir \in Dirs, name \in Names, newDir \in Dirs, newName \in Names,
                 i \in Inodes :
                /\ dir = op.ino["parent"] /\ name = Leaf(op.path)
                /\ newDir = op.ino["destParent"] /\ newName = Leaf(op.dest)
                /\ i = fs.tree[<<dir, name>>] /\ Linked(fs, newDir)
                /\ i \in Dirs => newDir = RootIno
                /\ MovedTree(fs', fs, dir, name, newDir, newName)
                /\ overtaken' = overtaken \cup ({i} \ {op.ino["target"]})
  <2>1. PICK dir \in Dirs, name \in Names, newDir \in Dirs, newName \in Names,
             i \in Inodes :
          /\ dir = op.ino["parent"] /\ name = Leaf(op.path)
          /\ newDir = op.ino["destParent"] /\ newName = Leaf(op.dest)
          /\ i = fs.tree[<<dir, name>>]
          /\ MovedTree(fs', fs, dir, name, newDir, newName)
          /\ overtaken \subseteq overtaken'
    BY <1>5
  <2>2. PICK g, m : g = fs' /\ m = IF i \in Dirs THEN i ELSE NoInode
    OBVIOUS
  <2>3. /\ g \in FileSystems /\ IsTree(g) /\ g.gen = fs.gen
        /\ \A d \in Dirs, n \in Names :
             <<d, n>> \notin {<<dir, name>>, <<newDir, newName>>} =>
               g.tree[<<d, n>>] = fs.tree[<<d, n>>]
    BY <2>1, <2>2 DEF MovedTree
  <2>4. Evolves(g, fs, m)
    BY <1>1, <1>3, <2>1, <2>2, MovedEvolves
  <2>5. /\ OnlyAt(resolver, fs, op, dir, Parent(op.path))
        /\ OnlyAt(resolver, fs, op, newDir, Parent(op.dest))
        /\ op.path \in Keys \ {Root} /\ op.dest \in Keys \ {Root}
        /\ Len(Parent(op.path)) <= 1 /\ Len(Parent(op.dest)) <= 1
    BY <1>2, <2>1, RenameFacts
  <2>6. Fits(fs, Parent(op.path), dir, fs.gen[dir])
    BY <2>5 DEF OnlyAt
  <2>7. /\ op'.kind = "move" /\ op'.path = op.path /\ op'.dest = op.dest
        /\ op'.pc = "drain" /\ op'.next = "renamed"
    BY <1>2, <1>3, <1>5 DEF DrainTo, Ops
  <2>8. LeftBehind(op') = Subtree(op.path) /\ ChangedPaths(op') = {op.path, op.dest}
    BY <2>7 DEF LeftBehind, ChangedPaths, AfterRename
  <2>9. ASSUME NEW c \in Keys
        PROVE  Stays(fs, g, m, op, op', overtaken, overtaken', notices, notices', c,
                     resolver.paths[c])
    <3>1. PICK e : e = resolver.paths[c]
      OBVIOUS
    <3>2. SUFFICES ASSUME IsPresent(e)
                   PROVE  Stays(fs, g, m, op, op', overtaken, overtaken', notices,
                                notices', c, e)
      BY <3>1 DEF Stays
    <3>3. /\ e.parent \in Inodes /\ e.parentGen \in Nat /\ e.name \in Names
          /\ e.parent # NoInode
          /\ IsPositive(e) => e.ino \in Inodes /\ e.ino # NoInode
          /\ EntryFits(fs, c, e) /\ Fits(fs, Parent(c), e.parent, e.parentGen)
          /\ EntryPlaced(fs, c, e)
      BY <1>3, <3>1, <3>2, EntryFacts
    <3>4. c # Root /\ c \in Seq(Names) /\ Parent(c) \in Seq(Names)
      BY <3>3, PathShape DEF EntryFits
    <3>5. ASSUME Current(g, e.parent, e.parentGen), c \notin {op.path, op.dest}
          PROVE  g.tree[<<e.parent, e.name>>] = fs.tree[<<e.parent, e.name>>]
      <4>1. e.parent \in Dirs
        BY <3>5 DEF Current
      <4>2. Current(fs, e.parent, e.parentGen)
        BY <2>4, <3>3, <3>5, SaysLater
      <4>3. CASE e.parent = dir /\ e.name = name
        <5>1. Current(fs, dir, e.parentGen) /\ e.name = Leaf(op.path)
          BY <2>1, <4>2, <4>3
        <5>2. c \in {op.path, op.dest}
          BY <1>3, <2>5, <3>1, <3>2, <3>3, <4>3, <5>1, MovedEntry
        <5>3. QED BY <3>5, <5>2
      <4>4. CASE e.parent = newDir /\ e.name = newName
        <5>1. Current(fs, newDir, e.parentGen) /\ e.name = Leaf(op.dest)
          BY <2>1, <4>2, <4>4
        <5>2. c \in {op.path, op.dest}
          BY <1>3, <2>5, <3>1, <3>2, <3>3, <4>4, <5>1, MovedEntry
        <5>3. QED BY <3>5, <5>2
      <4>5. QED BY <2>3, <3>3, <4>1, <4>3, <4>4
    <3>6. ASSUME c \notin Subtree(op.path)
          PROVE  /\ e.parent # m \/ e.parentGen # g.gen[e.parent]
                 /\ IsPositive(e) => e.ino # m
      <4>1. CASE i \notin Dirs
        BY <2>2, <3>3, <4>1
      <4>2. CASE i \in Dirs
        <5>1. m = i /\ fs.tree[<<dir, Leaf(op.path)>>] = i
          BY <2>1, <2>2, <4>2
        <5>2. ASSUME e.parent = m, e.parentGen = g.gen[e.parent]
              PROVE  FALSE
          <6>1. e.parent = i /\ e.parentGen = fs.gen[i]
            BY <2>3, <5>1, <5>2
          <6>2. Fits(fs, Parent(c), i, e.parentGen) /\ Placed(fs, Parent(c), i, e.parentGen)
            BY <3>3, <6>1 DEF EntryPlaced
          <6>3. Parent(c) = op.path
            BY <1>1, <1>3, <2>5, <2>6, <3>4, <4>2, <5>1, <6>1, <6>2, MovedDirectory
          <6>4. QED BY <2>5, <3>4, <3>6, <6>3, BelowParent
        <5>3. ASSUME IsPositive(e), e.ino = m
              PROVE  FALSE
          <6>1. e.ino = i /\ e.gen = fs.gen[i]
            BY <3>3, <5>1, <5>3 DEF EntryFits
          <6>2. Fits(fs, c, i, e.gen) /\ Placed(fs, c, i, e.gen)
            BY <3>3, <5>3, <6>1 DEF EntryFits, EntryPlaced
          <6>3. c = op.path
            BY <1>1, <1>3, <2>5, <2>6, <3>4, <4>2, <5>1, <6>1, <6>2, MovedDirectory
          <6>4. QED BY <3>6, <6>3, SelfSubtree
        <5>4. QED BY <5>2, <5>3
      <4>3. QED BY <4>1, <4>2
    <3>7. QED BY <1>2, <1>3, <2>1, <2>3, <2>8, <3>3, <3>5, <3>6 DEF Stays
  <2>10. CacheHolds(resolver, g, op', overtaken', notices')
    BY <2>4, <2>9, FilesCache
  <2>11. Free(op')
    BY <2>7 DEF Free, WalkPCs, MovePCs
  <2>12. QED BY <1>2, <2>2, <2>3, <2>10, <2>11, FreeHolds, NamesNext
<1>6. QED BY <1>1, <1>4, <1>5, RenameMoves

-----------------------------------------------------------------------------
(* The file system by itself                                               *)

\* It goes on to g, and due is what it has announced or is to announce then.
\* A number that is counted on is not reused.
ByItself(g, due) ==
  /\ Evolves(g, fs, NoInode) /\ notices \subseteq due
  /\ \A i \in Inodes : i = RootIno \/ fs.nlookup[i] > 0 => g.gen[i] = fs.gen[i]
  /\ \A d \in Dirs, n \in Names :
       Linked(g, d) => g.tree[<<d, n>>] = fs.tree[<<d, n>>] \/ Announced(due, d, n)

\* The inode in a reply that is held is looked up.
LEMMA ReplyLive ==
  ASSUME IInv, HoldsEntry(op)
  PROVE  op.reply.ino \in Inodes /\ fs.nlookup[op.reply.ino] > 0
<1>1. op.reply \in EntryReplies
  BY DEF IInv, Typed, OpInv, ReplyFits
<1>2. PICK i \in Inodes : i = op.reply.ino
  BY <1>1 DEF EntryReplies
<1>3. fs.nlookup[i] = Has(i) + lost[i]
  BY Balance DEF IInv
<1>4. Owed(resolver, i) \in Nat /\ lost[i] \in Nat
  BY HasType DEF IInv, Typed
<1>5. InReply(i) = 1
  BY <1>2 DEF InReply, HoldsEntry
<1>6. QED BY <1>2, <1>3, <1>4, <1>5 DEF Has

LEMMA ByItselfNames ==
  ASSUME IInv, IInv', NamesInv, ByItself(fs', notices'),
         resolver' = resolver, op' = op, overtaken' = overtaken
  PROVE  NamesInv'
<1>1. PICK g, due : g = fs' /\ due = notices'
  OBVIOUS
<1>2. /\ Evolves(g, fs, NoInode) /\ IsTree(g)
      /\ \A d, n : Announced(notices, d, n) => Announced(due, d, n)
      /\ \A i \in Inodes : i = RootIno \/ fs.nlookup[i] > 0 => g.gen[i] = fs.gen[i]
      /\ \A d \in Dirs, n \in Names : NameStays(fs, g, notices, due, d, n)
  BY <1>1 DEF ByItself, Evolves, NameStays, Announced
<1>3. /\ resolver \in Resolver /\ OpInv(op) /\ op \in Ops /\ TableFits(resolver, fs)
      /\ HandlerHolds(resolver, fs, op, notices)
  BY NamesParts DEF IInv, Typed, ResolverInv, OpInv, NamesInv
<1>4. \A c \in Keys : IsPresent(resolver.paths[c]) => EntryFits(fs, c, resolver.paths[c])
  BY DEF NamesInv, EntriesInv
<1>5. ASSUME NEW c \in Keys
      PROVE  Stays(fs, g, NoInode, op, op, overtaken, overtaken, notices, due, c,
                   resolver.paths[c])
  <2>1. PICK e : e = resolver.paths[c]
    OBVIOUS
  <2>2. SUFFICES ASSUME IsPresent(e)
                 PROVE  Stays(fs, g, NoInode, op, op, overtaken, overtaken, notices, due, c, e)
    BY <2>1 DEF Stays
  <2>3. /\ e.parent \in Inodes /\ e.name \in Names /\ e.parent # NoInode
        /\ IsPositive(e) => e.ino \in Inodes /\ e.ino # NoInode /\ fs.nlookup[e.ino] > 0
    BY <2>1, <2>2, EntryFacts
  <2>4. IsPositive(e) => g.gen[e.ino] = fs.gen[e.ino]
    BY <1>2, <2>3
  <2>5. Announced(notices, e.parent, e.name) => Announced(due, e.parent, e.name)
    BY <1>2
  <2>6. Current(g, e.parent, e.parentGen) =>
          \/ g.tree[<<e.parent, e.name>>] = fs.tree[<<e.parent, e.name>>]
          \/ Announced(due, e.parent, e.name)
    BY <1>2, <2>3 DEF Current, NameStays
  <2>7. QED BY <2>3, <2>4, <2>5, <2>6 DEF Stays
<1>6. CacheHolds(resolver, g, op, overtaken, due)
  BY <1>2, <1>5, FilesCache
<1>7. HoldsEntry(op) => g.gen[op.reply.ino] = fs.gen[op.reply.ino]
  BY <1>2, ReplyLive
<1>8. op.pc = "parentKnown" /\ op.kind \in {"create", "delete"} =>
        g.gen[op.ino["parent"]] = fs.gen[op.ino["parent"]]
  <2>1. SUFFICES ASSUME op.pc = "parentKnown", op.kind \in {"create", "delete"}
                 PROVE  g.gen[op.ino["parent"]] = fs.gen[op.ino["parent"]]
    OBVIOUS
  <2>2. LiveIn(fs, op.ino["parent"])
    BY <2>1 DEF IInv, LiveInv
  <2>3. op.ino["parent"] \in Inodes
    BY <2>1, ParentPlace
  <2>4. QED BY <1>2, <2>2, <2>3 DEF LiveIn
<1>9. op.pc \in {"remember", "rememberMissing"} =>
        NameStays(fs, g, notices, due, op.walk.ino, Leaf(NextKey(op)))
  <2>1. SUFFICES ASSUME op.pc \in {"remember", "rememberMissing"}
                 PROVE  NameStays(fs, g, notices, due, op.walk.ino, Leaf(NextKey(op)))
    OBVIOUS
  <2>2. PICK n \in Names : n = Leaf(NextKey(op))
    BY <1>3, <2>1, WalkReach DEF WalkPCs
  <2>3. QED BY <1>2, <2>2 DEF NameStays
<1>10. "created" \in {op.pc, op.next} =>
         NameStays(fs, g, notices, due, op.ino["parent"], Leaf(op.path))
  <2>1. SUFFICES ASSUME "created" \in {op.pc, op.next}
                 PROVE  NameStays(fs, g, notices, due, op.ino["parent"], Leaf(op.path))
    OBVIOUS
  <2>2. op.path # Root /\ op.path \in Keys \cup {Root}
    BY <1>3, <2>1 DEF OpInv, PathsFit, Ops
  <2>3. PICK n \in Names : n = Leaf(op.path)
    BY <2>2, PathShape
  <2>4. QED BY <1>2, <2>3 DEF NameStays
<1>11. Weakens(resolver, resolver) /\ Waits(op, op)
  BY SameWeakens DEF Waits
<1>12. HandlerHolds(resolver, g, op, due)
  BY <1>2, <1>3, <1>4, <1>7, <1>8, <1>9, <1>10, <1>11, HandlerLater
<1>13. QED BY <1>1, <1>2, <1>6, <1>12, NamesNext

\* What goes with a name that is removed is not found any more.
LEMMA RemovedEvolves ==
  ASSUME NEW f \in FileSystems, IsTree(f), NEW dir \in Dirs, NEW name \in Names,
         NEW g, g = Removed(f, dir, name), f.tree[<<dir, name>>] # NoInode
  PROVE  /\ Evolves(g, f, NoInode) /\ g.gen = f.gen
         /\ \A d \in Dirs, n \in Names :
              Linked(g, d) /\ <<d, n>> # <<dir, name>> => g.tree[<<d, n>>] = f.tree[<<d, n>>]
<1> DEFINE i == f.tree[<<dir, name>>]
<1>2. /\ g \in FileSystems /\ g.gen = f.gen
      /\ g.tree = [at \in Dirs \X Names |->
                     IF at = <<dir, name>> \/ at[1] = i THEN NoInode ELSE f.tree[at]]
  BY RemovedFields
<1> HIDE DEF i
<1>3. \A d \in Dirs, n \in Names :
        g.tree[<<d, n>>] =
          IF <<d, n>> = <<dir, name>> \/ d = i THEN NoInode ELSE f.tree[<<d, n>>]
  BY <1>2
<1>4. \A d \in Dirs, n \in Names : g.tree[<<d, n>>] \in {f.tree[<<d, n>>], NoInode}
  BY <1>3
<1>5. IsTree(g) /\ \A j \in Inodes : Linked(g, j) => Linked(f, j)
  BY <1>2, <1>4, TreeShrinks
<1>6. \A j \in Inodes : f.gen[j] <= g.gen[j]
  BY <1>2, FileTypes
<1>7. Evolves(g, f, NoInode)
  BY <1>2, <1>4, <1>5, <1>6, DirsStay
<1>8. ~Linked(g, i)
  <2>1. i # NoInode /\ i # RootIno
    <3>1. i = RootIno => RootIno \in Dirs
      BY FileTreeAssumption
    <3>2. QED BY <3>1 DEF IsTree, i
  <2>2. ASSUME NEW d \in Dirs, NEW n \in Names, g.tree[<<d, n>>] = i
        PROVE  FALSE
    <3>1. f.tree[<<d, n>>] = i /\ <<d, n>> # <<dir, name>>
      BY <1>3, <2>1, <2>2
    <3>2. d = dir /\ n = name
      BY <2>1, <3>1 DEF IsTree, i
    <3>3. QED BY <3>1, <3>2
  <2>3. Linked(g, i) <=> \/ i = RootIno
                         \/ \E d \in Dirs, n \in Names : g.tree[<<d, n>>] = i
    BY <1>2, LinkedMeans
  <2>4. QED BY <2>1, <2>2, <2>3
<1>9. QED BY <1>2, <1>3, <1>7, <1>8

LEMMA FsStepNames == ASSUME IInv, IInv', NamesInv, FsStep PROVE NamesInv'
<1>1. fs \in FileSystems /\ IsTree(fs)
  BY DEF IInv, Typed, NamesInv
<1>2. ASSUME NEW f, NEW due, Change(f, due), ByItself(f, notices')
      PROVE  NamesInv'
  BY <1>2, ByItselfNames DEF Change
<1>3. ASSUME NEW f, NEW due, Change(f, due)
      PROVE  /\ notices \subseteq notices'
             /\ \A n \in due : n \in notices'
  BY <1>3 DEF Change
<1>4. ASSUME NEW i \in Inodes, FsTouches(i)
      PROVE  NamesInv'
  <2>1. PICK g : g = Changed(fs, {i})
    OBVIOUS
  <2>2. Change(g, {})
    BY <1>4, <2>1 DEF FsTouches
  <2>3. g \in FileSystems /\ g.tree = fs.tree /\ g.gen = fs.gen
    BY <1>1, <2>1, ChangedFields
  <2>4. Evolves(g, fs, NoInode)
    BY <1>1, <2>3, EvolvesSame
  <2>5. notices \subseteq notices'
    BY <1>3, <2>2
  <2>6. ByItself(g, notices')
    BY <2>3, <2>4, <2>5 DEF ByItself
  <2>7. QED BY <1>2, <2>2, <2>6
<1>5. ASSUME NEW dir \in Dirs, NEW name \in Names, NEW i \in Inodes, FsMakes(dir, name, i)
      PROVE  NamesInv'
  <2>1. PICK g, n : g = Made(fs, dir, name, i) /\ n = EntryNotice(dir, name)
    OBVIOUS
  <2>2. /\ Change(g, {n}) /\ ~Linked(fs, i) /\ fs.nlookup[i] = 0
        /\ fs.gen[i] + 1 \in Generations /\ (i \in Dirs => dir = RootIno)
    BY <1>5, <2>1 DEF FsMakes, Unused
  <2>3. MadeTree(g, fs, dir, name, i)
    BY <1>1, <2>1, <2>2, MadeTreeFields
  <2>4. /\ \A j \in Inodes \ {i} : g.gen[j] = fs.gen[j]
        /\ \A d \in Dirs, m \in Names :
             <<d, m>> # <<dir, name>> => g.tree[<<d, m>>] = fs.tree[<<d, m>>]
    BY <2>3 DEF MadeTree
  <2>5. Evolves(g, fs, NoInode)
    BY <1>1, <2>3, MadeEvolves
  <2>6. notices \subseteq notices' /\ n \in notices'
    BY <1>3, <2>2
  <2>7. Announced(notices', dir, name)
    BY <2>1, <2>6 DEF Announced, EntryNotice
  <2>8. i # RootIno
    BY <2>2 DEF Linked
  <2>9. \A j \in Inodes : j = RootIno \/ fs.nlookup[j] > 0 => g.gen[j] = fs.gen[j]
    BY <2>2, <2>4, <2>8
  <2>10. \A d \in Dirs, m \in Names :
           g.tree[<<d, m>>] = fs.tree[<<d, m>>] \/ Announced(notices', d, m)
    BY <2>4, <2>7
  <2>11. ByItself(g, notices')
    BY <2>5, <2>6, <2>9, <2>10 DEF ByItself
  <2>12. QED BY <1>2, <2>2, <2>11
<1>6. ASSUME NEW dir \in Dirs, NEW name \in Names, FsRemoves(dir, name)
      PROVE  NamesInv'
  <2>1. PICK g, n : /\ g = Removed(fs, dir, name)
                    /\ n = DeleteNotice(dir, name, fs.tree[<<dir, name>>])
    OBVIOUS
  <2>2. Change(g, {n}) /\ fs.tree[<<dir, name>>] # NoInode
    BY <1>6, <2>1 DEF FsRemoves
  <2>3. /\ Evolves(g, fs, NoInode) /\ g.gen = fs.gen
        /\ \A d \in Dirs, m \in Names :
             Linked(g, d) /\ <<d, m>> # <<dir, name>> => g.tree[<<d, m>>] = fs.tree[<<d, m>>]
    BY <1>1, <2>1, <2>2, RemovedEvolves
  <2>4. notices \subseteq notices' /\ n \in notices'
    BY <1>3, <2>2
  <2>5. Announced(notices', dir, name)
    BY <2>1, <2>4 DEF Announced, DeleteNotice
  <2>6. \A d \in Dirs, m \in Names :
          Linked(g, d) => g.tree[<<d, m>>] = fs.tree[<<d, m>>] \/ Announced(notices', d, m)
    BY <2>3, <2>5
  <2>7. ByItself(g, notices')
    BY <2>3, <2>4, <2>6 DEF ByItself
  <2>8. QED BY <1>2, <2>2, <2>7
<1>7. ASSUME NEW dir \in Dirs, NEW name \in Names, NEW newDir \in Dirs,
             NEW newName \in Names, FsMoves(dir, name, newDir, newName)
      PROVE  NamesInv'
  <2>1. PICK g, n, m : /\ g = Renamed(fs, dir, name, newDir, newName)
                       /\ n = EntryNotice(dir, name) /\ m = EntryNotice(newDir, newName)
    OBVIOUS
  <2>2. Change(g, {n, m}) /\ fs.tree[<<dir, name>>] \notin Dirs
    BY <1>7, <2>1 DEF FsMoves
  <2>3. MovedTree(g, fs, dir, name, newDir, newName)
    BY <1>1, <1>7, <2>1, MovedTreeFields DEF FsMoves
  <2>4. /\ g.gen = fs.gen
        /\ \A d \in Dirs, c \in Names :
             <<d, c>> \notin {<<dir, name>>, <<newDir, newName>>} =>
               g.tree[<<d, c>>] = fs.tree[<<d, c>>]
    BY <2>3 DEF MovedTree
  <2>5. Evolves(g, fs, NoInode)
    BY <1>1, <2>2, <2>3, MovedEvolves
  <2>6. notices \subseteq notices' /\ n \in notices' /\ m \in notices'
    BY <1>3, <2>2
  <2>7. Announced(notices', dir, name) /\ Announced(notices', newDir, newName)
    BY <2>1, <2>6 DEF Announced, EntryNotice
  <2>8. \A d \in Dirs, c \in Names :
          g.tree[<<d, c>>] = fs.tree[<<d, c>>] \/ Announced(notices', d, c)
    BY <2>4, <2>7
  <2>9. ByItself(g, notices')
    BY <2>4, <2>5, <2>6, <2>8 DEF ByItself
  <2>10. QED BY <1>2, <2>2, <2>9
<1>8. QED BY <1>4, <1>5, <1>6, <1>7 DEF FsStep

-----------------------------------------------------------------------------
(* Notifications and time                                                  *)

\* What was announced of a name still is.
Pends(d, n) == Announced(notices, d, n) => Announced(notices', d, n)

LEMMA WaitNames ==
  ASSUME IInv, IInv', NamesInv, fs' = fs, overtaken' = overtaken,
         Weakens(resolver', resolver), Waits(op', op),
         \A c \in Keys : IsPresent(resolver'.paths[c]) =>
           Pends(resolver'.paths[c].parent, resolver'.paths[c].name),
         op.pc \in {"remember", "rememberMissing"} =>
           op'.late \/ Pends(op.walk.ino, Leaf(NextKey(op))),
         "created" \in {op.pc, op.next} =>
           op'.late \/ Pends(op.ino["parent"], Leaf(op.path))
  PROVE  NamesInv'
<1>1. PICK q, due : q = resolver' /\ due = notices'
  OBVIOUS
<1>2. /\ resolver \in Resolver /\ OpInv(op) /\ fs \in FileSystems /\ IsTree(fs)
      /\ HandlerHolds(resolver, fs, op, notices) /\ TableFits(resolver, fs)
      /\ CacheHolds(resolver, fs, op, overtaken, notices)
  BY NamesParts DEF IInv, Typed, ResolverInv, NamesInv
<1>3. Evolves(fs, fs, NoInode)
  BY <1>2, EvolvesSame
<1>4. /\ Weakens(q, resolver)
      /\ \A c \in Keys : IsPresent(q.paths[c]) =>
           (Announced(notices, q.paths[c].parent, q.paths[c].name)
              => Announced(due, q.paths[c].parent, q.paths[c].name))
  BY <1>1 DEF Pends
<1>5. LeftBehind(op') = LeftBehind(op) /\ ChangedPaths(op') = ChangedPaths(op)
  BY DEF Waits, LeftBehind, ChangedPaths, AfterRename
<1>6. ASSUME NEW c \in Keys
      PROVE  EntryHolds(fs, op', overtaken, due, c, q.paths[c])
  <2>1. PICK e : e = q.paths[c]
    OBVIOUS
  <2>2. /\ Weaker(e, resolver.paths[c])
        /\ EntryHolds(fs, op, overtaken, notices, c, resolver.paths[c])
    BY <1>2, <1>4, <2>1 DEF Weakens, CacheHolds
  <2>3. ASSUME IsPresent(e)
        PROVE  /\ e.parent # NoInode /\ (IsPositive(e) => e.ino # NoInode)
               /\ Announced(notices, e.parent, e.name) => Announced(due, e.parent, e.name)
    <3>1. IsPresent(resolver.paths[c]) /\ e.parent = resolver.paths[c].parent
          /\ (IsPositive(e) => IsPositive(resolver.paths[c])
                               /\ e.ino = resolver.paths[c].ino)
      BY <2>2, <2>3 DEF Weaker
    <3>2. e.parent # NoInode /\ (IsPositive(e) => e.ino # NoInode)
      BY <1>2, <3>1, EntryTypes, FileTreeAssumption
    <3>3. QED BY <1>4, <2>1, <2>3, <3>2
  <2>4. Stays(fs, fs, NoInode, op, op', overtaken, overtaken, notices, due, c, e)
    BY <1>5, <2>3 DEF Stays
  <2>5. QED BY <1>2, <1>3, <2>1, <2>2, <2>4, EntryStays
<1>7. TableFits(q, fs)
  BY <1>2, <1>3, <1>4, TableStays DEF Weakens
<1>8. CacheHolds(q, fs, op', overtaken, due)
  BY <1>6, <1>7 DEF CacheHolds
<1>9. \A c \in Keys : IsPresent(resolver.paths[c]) => EntryFits(fs, c, resolver.paths[c])
  BY DEF NamesInv, EntriesInv
<1>10. op.pc \in {"remember", "rememberMissing"} =>
         op'.late \/ NameStays(fs, fs, notices, due, op.walk.ino, Leaf(NextKey(op)))
  BY <1>1 DEF Pends, NameStays
<1>11. "created" \in {op.pc, op.next} =>
         op'.late \/ NameStays(fs, fs, notices, due, op.ino["parent"], Leaf(op.path))
  BY <1>1 DEF Pends, NameStays
<1>12. HandlerHolds(q, fs, op', due)
  BY <1>2, <1>3, <1>4, <1>9, <1>10, <1>11, HandlerLater
<1>13. QED BY <1>1, <1>2, <1>8, <1>12, NamesNext

LEMMA LateWaits ==
  ASSUME NEW o \in Ops, NEW late \in BOOLEAN, o.late => late
  PROVE  Waits(WithLate(o, late), o) /\ WithLate(o, late).late = late
BY DEF Waits, WithLate, Ops

LEMMA NotifierNames == ASSUME IInv, IInv', NamesInv, Notifier PROVE NamesInv'
<1>1. PICK n \in notices : Notify(n)
  BY DEF Notifier
<1>2. /\ ResolverInv(resolver) /\ resolver \in Resolver /\ op \in Ops /\ OpInv(op)
      /\ n \in NoticeTypes /\ op.late \in BOOLEAN
  BY DEF IInv, Typed, OpInv, ResolverInv, Ops
<1>3. notices' = notices \ {n} /\ fs' = fs /\ overtaken' = overtaken
  BY <1>1 DEF Notify
<1>4. \A d, m : Announced({n}, d, m) \/ Pends(d, m)
  BY <1>3 DEF Pends, Announced
<1>5. CASE InvalInode(n)
  <2>1. /\ n.about = "inode" /\ resolver' = InvalidateInodeAttr(resolver, n.ino)
        /\ op' = [op EXCEPT !.late = @ \/ HoldsAttributesOf(n.ino)]
    BY <1>5 DEF InvalInode
  <2>2. PICK i \in Inodes : i = n.ino
    BY <1>2, <2>1 DEF NoticeTypes
  <2>3. PICK late \in BOOLEAN : late = (op.late \/ HoldsAttributesOf(i))
    BY <1>2 DEF HoldsAttributesOf
  <2>4. op' = WithLate(op, late)
    BY <1>2, <2>1, <2>2, <2>3 DEF WithLate, Ops
  <2>5. Waits(op', op)
    BY <1>2, <2>3, <2>4, LateWaits
  <2>6. Weakens(resolver', resolver)
    BY <1>2, <2>1, <2>2, AttrFewer, FewerWeakens
  <2>7. \A d, m : Pends(d, m)
    BY <1>4, <2>1 DEF Announced
  <2>8. QED BY <1>3, <2>5, <2>6, <2>7, WaitNames
<1>6. CASE InvalEntry(n)
  <2>1. PICK r : r = InvalidateEntry(resolver, n.dir, n.name)
    OBVIOUS
  <2>2. /\ n.about \in {"entry", "delete"}
        /\ resolver' = IF n.about = "delete" THEN InvalidateInodeAttr(Taken(r), n.child)
                                             ELSE Taken(r)
        /\ op' = [op EXCEPT !.late = op.late \/ HoldsReplyAbout(n.dir, n.name)
                               \/ (n.about = "delete" /\ HoldsAttributesOf(n.child))]
    <3>1. n.about \in {"entry", "delete"}
      BY <1>6 DEF InvalEntry
    <3>2. resolver' = IF n.about = "delete" THEN InvalidateInodeAttr(Taken(r), n.child)
                                            ELSE Taken(r)
      BY <1>6, <2>1 DEF InvalEntry
    <3>3. QED BY <1>6, <3>1, <3>2 DEF InvalEntry
  <2>3. PICK late \in BOOLEAN :
          late = (op.late \/ HoldsReplyAbout(n.dir, n.name)
                    \/ (n.about = "delete" /\ HoldsAttributesOf(n.child)))
    BY <1>2 DEF HoldsReplyAbout, HoldsAttributesOf
  <2>4. op' = WithLate(op, late)
    BY <1>2, <2>2, <2>3 DEF WithLate, Ops
  <2>5. Waits(op', op) /\ op'.late = late
    BY <1>2, <2>3, <2>4, LateWaits
  <2>6. PICK K \in SUBSET Keys : /\ K = EntriesNamed(resolver, n.dir, n.name)
                                 /\ r = InvalidateKeys(resolver, K)
    BY <2>1 DEF EntriesNamed, InvalidateEntry
  <2>7. ResolverInv(r) /\ r \in Resolver /\ Fewer(r, resolver) /\ \A c \in K : r.paths[c] = Absent
    <3>1. ResolverInv(r)
      BY <1>2, <2>6, InvalidateInv
    <3>2. Fewer(r, resolver) /\ \A c \in K : r.paths[c] = Absent
      BY <1>2, <2>6, InvalidateFewer
    <3>3. QED BY <3>1, <3>2 DEF ResolverInv
  <2>8. /\ Taken(r) \in Resolver /\ Fewer(Taken(r), r) /\ Taken(r).paths = r.paths
    <3>1. ResolverInv(Taken(r)) /\ Taken(r).paths = r.paths /\ Taken(r).inodes = r.inodes
      BY <2>7, TakenInv
    <3>2. QED BY <3>1, FewerSame DEF ResolverInv
  <2>9. Fewer(resolver', r) /\ resolver'.paths = r.paths
    <3>1. CASE n.about = "delete"
      <4>1. PICK j \in Inodes : j = n.child
        BY <1>2, <3>1 DEF NoticeTypes
      <4>2. PICK t : t = Taken(r)
        OBVIOUS
      <4>3. resolver' = InvalidateInodeAttr(t, j)
        BY <2>2, <3>1, <4>1, <4>2
      <4>4. Fewer(resolver', t) /\ resolver'.paths = t.paths
        BY <2>8, <4>2, <4>3, AttrFewer
      <4>5. QED BY <2>8, <4>2, <4>4, FewerTrans
    <3>2. CASE n.about # "delete"
      BY <2>2, <2>8, <3>2
    <3>3. QED BY <3>1, <3>2
  <2>10. Weakens(resolver', resolver)
    BY <2>7, <2>9, FewerTrans, FewerWeakens
  <2>11. ASSUME NEW c \in Keys, IsPresent(resolver'.paths[c])
         PROVE  Pends(resolver'.paths[c].parent, resolver'.paths[c].name)
    <3>1. PICK e : e = resolver'.paths[c]
      OBVIOUS
    <3>2. e = r.paths[c] /\ IsPresent(e)
      BY <2>9, <2>11, <3>1
    <3>3. ~IsPresent(Absent)
      BY DEF IsPresent, Absent
    <3>4. e = resolver.paths[c] /\ c \notin K
      BY <2>7, <3>2, <3>3 DEF Fewer, EntriesFewer
    <3>5. e.parent # n.dir \/ e.name # n.name
      BY <2>6, <3>2, <3>4 DEF EntriesNamed
    <3>6. ~Announced({n}, e.parent, e.name)
      BY <3>5 DEF Announced
    <3>7. QED BY <1>4, <3>1, <3>6
  <2>12. ASSUME op.pc \in {"remember", "rememberMissing"}
         PROVE  op'.late \/ Pends(op.walk.ino, Leaf(NextKey(op)))
    <3>1. Announced({n}, op.walk.ino, Leaf(NextKey(op))) => HoldsReplyAbout(n.dir, n.name)
      BY <2>12 DEF Announced, HoldsReplyAbout, NextKey, Component
    <3>2. QED BY <1>4, <2>3, <2>5, <3>1
  <2>13. ASSUME "created" \in {op.pc, op.next}
         PROVE  op'.late \/ Pends(op.ino["parent"], Leaf(op.path))
    <3>1. Announced({n}, op.ino["parent"], Leaf(op.path)) => HoldsReplyAbout(n.dir, n.name)
      BY <2>13 DEF Announced, HoldsReplyAbout
    <3>2. QED BY <1>4, <2>3, <2>5, <3>1
  <2>14. QED BY <1>3, <2>5, <2>10, <2>11, <2>12, <2>13, WaitNames
<1>7. QED BY <1>1, <1>5, <1>6 DEF Notify

LEMMA TimeNames == ASSUME IInv, IInv', NamesInv, Time PROVE NamesInv'
<1>1. /\ fs' = fs /\ op' = op /\ notices' = notices /\ overtaken' = overtaken
  BY DEF Time, EntryExpires, AttrExpires, environment
<1>2. resolver \in Resolver
  BY DEF IInv, Typed, ResolverInv
<1>3. Weakens(resolver', resolver)
  <2>1. ASSUME NEW k \in Keys, EntryExpires(k)
        PROVE  Weakens(resolver', resolver)
    BY <1>2, <2>1, ExpiredWeakens DEF EntryExpires
  <2>2. ASSUME NEW i \in Inodes, AttrExpires(i)
        PROVE  Weakens(resolver', resolver)
    BY <1>2, <2>2, AttrFewer, FewerWeakens DEF AttrExpires
  <2>3. QED BY <2>1, <2>2 DEF Time
<1>4. Waits(op', op) /\ \A d, n : Pends(d, n)
  BY <1>1 DEF Waits, Pends
<1>5. QED BY <1>1, <1>3, <1>4, WaitNames

-----------------------------------------------------------------------------
(* Every step                                                              *)

LEMMA NextNames == ASSUME IInv, IInv', NamesInv, Next PROVE NamesInv'
<1>1. ASSUME HandlerStep PROVE NamesInv'
  <2>1. CASE \/ Reap \/ CachedComponent \/ LookupComponent
             \/ RememberComponent \/ RememberMissingComponent \/ Unresolved \/ Drain
    BY <2>1, ReapNames, CachedNames, LookupNames, RememberNames, RememberMissingNames,
       UnresolvedNames, DrainNames
  <2>2. CASE \/ CachedAttributes \/ GetAttributes \/ StoreAttributes
             \/ SetAttributes \/ FinishMutation \/ InvalidateParentAttr
             \/ InvalidateMutatedPath \/ FinishSetXattr \/ Access \/ Probe \/ ProbeAgain
    BY <2>2, GetattrNames, StoreNames, SetAttributesNames, FinishMutationNames, MtimeNames,
       MutatedPathNames, SetxattrNames, PlainNames
  <2>3. CASE \/ OpenExisting \/ MakeEntry \/ FinishCreated \/ OpenCollision \/ OpenResolved
             \/ RemoveEntry \/ InvalidateRemovedPath \/ FinishRemoved
    BY <2>3, OpenExistingNames, MakeEntryNames, FinishCreatedNames, OpenCollisionNames,
       PlainNames, RemoveEntryNames, RemovedNames
  <2>4. CASE \/ ResolveNewParent \/ ResolveMoved \/ CheckClash \/ Clash \/ Rename
             \/ InvalidateMoved \/ InvalidateOldPath \/ InvalidateNewPath \/ FinishMoved
    BY <2>4, ResolveNewParentNames, ResolveMovedNames, CheckClashNames, PlainNames,
       RenameNames, MovedNames
  <2>5. QED BY <1>1, <2>1, <2>2, <2>3, <2>4 DEF HandlerStep
<1>2. QED BY <1>1, ArrivalNames, FsStepNames, NotifierNames, TimeNames DEF Next

LEMMA InitNames == Init => NamesInv
<1> SUFFICES ASSUME Init PROVE NamesInv
  OBVIOUS
<1>1. PICK negativeTtl \in BOOLEAN : resolver = EmptyResolver(negativeTtl)
  BY DEF Init
<1>2. /\ \A k \in Keys : ~IsPresent(resolver.paths[k])
      /\ \A i \in Inodes : resolver.inodes[i].gen = 0
  BY <1>1 DEF EmptyResolver, Untracked, IsPresent, Absent
<1>3. IsTree(fs) /\ fs \in FileSystems /\ op = IdleOp("drained")
  BY AdapterAssumption DEF Init
<1>4. TableFits(resolver, fs)
  BY <1>2, <1>3, FileTypes DEF TableFits
<1>5. CacheHolds(resolver, fs, op, overtaken, notices)
  BY <1>2, <1>4 DEF CacheHolds, EntryHolds
<1>6. HandlerHolds(resolver, fs, op, notices)
  BY <1>3, IdleFree, FreeHolds
<1>7. QED BY <1>3, <1>5, <1>6, NamesParts

\* What the cache says of names, where in the tree the inodes are that it and
\* the handlers hold, and what a handler changed and has yet to invalidate fit
\* the file system after every step, whoever changes it, and whatever the
\* notifier and time take out of the cache (path_routes.rs:27-112,
\* state.rs:142-162, 380-414, create_routes.rs:327-343, routes.rs:53-57,
\* dispatch.rs:50-85).
THEOREM NamesInvariance == Spec => []NamesInv
<1>1. IInv /\ IInv' /\ NamesInv /\ [Next]_vars => NamesInv'
  <2>1. ASSUME IInv, IInv', NamesInv, UNCHANGED vars PROVE NamesInv'
    <3>1. /\ resolver' = resolver /\ fs' = fs /\ op' = op /\ notices' = notices
          /\ overtaken' = overtaken
      BY <2>1 DEF vars
    <3>2. Weakens(resolver', resolver) /\ Waits(op', op) /\ \A d, n : Pends(d, n)
      BY <3>1, SameWeakens DEF Waits, Pends
    <3>3. QED BY <2>1, <3>1, <3>2, WaitNames
  <2>2. QED BY <2>1, NextNames
<1>2. QED BY InitNames, Invariance, <1>1, PTL DEF Spec

\* What a present entry says, but for the excuses.
LEMMA EntrySays ==
  ASSUME IInv, NamesInv, NEW k \in Keys, k \notin overtaken \cup ChangedPaths(op),
         NEW e, e = resolver.paths[k], IsPresent(e), e.live,
         Current(fs, e.parent, e.parentGen)
  PROVE  /\ e.name = Leaf(k)
         /\ \/ fs.tree[<<e.parent, e.name>>] = Answer(e)
            \/ Unannounced(e.parent, e.name)
BY DEF NamesInv, EntriesInv, EntriesAgree, EntryFits, Says, Unannounced

\* Between two requests every name that would be answered from the cache is
\* answered as the file system would, but for the two excuses of NamesCoherent
\* (create_routes.rs:327-343, routes.rs:53-57, dispatch.rs:75-85,
\* path_routes.rs:84-112).
THEOREM NamesStayCoherent == Spec => []NamesCoherent
<1>1. IInv /\ NamesInv => NamesCoherent
  <2> SUFFICES ASSUME IInv, NamesInv, AtRest PROVE NamesCoherent
    BY DEF NamesCoherent
  <2>1. op.pc = "idle" /\ op.next = "idle"
    BY DEF AtRest, At, IInv, Typed, OpInv, InOrder
  <2>2. ChangedPaths(op) = {}
    BY <2>1, UnmovedPaths DEF Unmoved
  <2>3. ASSUME NEW k \in Keys, NEW e, e = resolver.paths[k], IsPresent(e), e.live,
               e.parent \in Dirs, k \notin overtaken
        PROVE  Agrees(fs, e) \/ Unannounced(e.parent, e.name)
    <3>1. SUFFICES ASSUME Linked(fs, e.parent), fs.gen[e.parent] = e.parentGen,
                          ~Unannounced(e.parent, e.name)
                   PROVE  LET i == fs.tree[<<e.parent, e.name>>] IN
                          IF IsPositive(e) THEN i = e.ino /\ fs.gen[i] = e.gen
                                           ELSE i = NoInode
      BY DEF Agrees
    <3>2. Current(fs, e.parent, e.parentGen)
      BY <2>3, <3>1 DEF Current
    <3>3. fs.tree[<<e.parent, e.name>>] = Answer(e)
      BY <2>2, <2>3, <3>1, <3>2, EntrySays
    <3>4. IsPositive(e) => e.gen = fs.gen[e.ino]
      BY <2>3 DEF NamesInv, EntriesInv, EntryFits
    <3>5. QED BY <3>3, <3>4 DEF Answer
  <2>4. QED BY <2>3 DEF NamesCoherent
<1>2. QED BY NamesInvariance, Invariance, <1>1, PTL

\* What a walk gets from the cache about the directory it is in is what that
\* directory says, with the same excuses, also when directories come and go
\* behind the adapter's back and their numbers are reused (state.rs:142-162).
THEOREM AnswersStayTrue == Spec => []AnswersAgree
<1>1. IInv /\ NamesInv => AnswersAgree
  <2> SUFFICES ASSUME IInv, NamesInv PROVE AnswersAgree
    OBVIOUS
  <2>1. PICK k, d, gen, answer :
          /\ k = Component /\ d = op.walk.ino /\ gen = op.walk.gen
          /\ answer = CachedAnswer(resolver, k, d, gen)
    OBVIOUS
  <2>2. SUFFICES ASSUME op.pc = "cached", d \in Dirs, Linked(fs, d), gen = fs.gen[d],
                        answer.found # "miss", k \notin overtaken,
                        ~Unannounced(d, Leaf(k))
                 PROVE  fs.tree[<<d, Leaf(k)>>]
                          = IF answer.found = "hit" THEN answer.ino ELSE NoInode
    BY <2>1 DEF AnswersAgree, At
  <2>3. OpInv(op) /\ op.pc \in WalkPCs /\ ResolverInv(resolver) /\ resolver \in Resolver
    BY <2>2 DEF IInv, Typed, WalkPCs, ResolverInv
  <2>4. k \in Keys /\ k # Root
    BY <2>1, <2>3, ComponentFits
  <2>5. ChangedPaths(op) = {}
    BY <2>3, WalkUnmoved, UnmovedPaths
  <2>6. PICK e : e = resolver.paths[k]
    OBVIOUS
  <2>7. e \in PathEntry
    BY <2>3, <2>4, <2>6 DEF Resolver
  <2>8. /\ IsPresent(e) /\ e.live /\ e.parent = d /\ e.parentGen = gen
        /\ IF answer.found = "hit" THEN IsPositive(e) /\ answer.ino = e.ino
                                   ELSE ~IsPositive(e)
    BY <2>1, <2>2, <2>4, <2>6, <2>7, AnswerIs
  <2>9. Current(fs, e.parent, e.parentGen)
    BY <2>2, <2>8 DEF Current
  <2>10. e.name = Leaf(k) /\ fs.tree[<<e.parent, e.name>>] = Answer(e)
    BY <2>2, <2>4, <2>5, <2>6, <2>8, <2>9, EntrySays
  <2>11. QED BY <2>8, <2>10 DEF Answer
<1>2. QED BY NamesInvariance, Invariance, <1>1, PTL

-----------------------------------------------------------------------------
(* Walks, while only the adapter changes the file system                   *)

\* A walk, and what it is to cache next, is where the path leads.
Arrived(f, o) ==
  /\ InodeAt(f, Reached(o)) = o.walk.ino /\ o.walk.gen = f.gen[o.walk.ino]
  /\ o.pc = "remember" => InodeAt(f, NextKey(o)) = o.reply.ino
  /\ o.pc = "rememberMissing" => InodeAt(f, NextKey(o)) = NoInode
  /\ o.pc = "unresolved" /\ o.reply.status = "ENOENT" => InodeAt(f, NextKey(o)) = NoInode

\* Nothing came from outside.
Calm == changes = 0 /\ notices = {} /\ ~op.late /\ overtaken \cap Keys = {}

LEMMA ArrivalParts ==
  ArrivalInv <=> (MaxChanges = 0 => Calm /\ (op.pc \in WalkPCs => Arrived(fs, op)))
BY DEF ArrivalInv, Calm, Arrived

LEMMA ArrivalPartsNext ==
  ArrivalInv' <=> (MaxChanges = 0 => Calm' /\ (op'.pc \in WalkPCs => Arrived(fs', op')))
BY DEF ArrivalInv, Calm, Arrived, Reached, NextKey

\* A walk that has just begun is at the root.
LEMMA StartArrives ==
  ASSUME NEW o, OpInv(o), NEW f, IsTree(f), WalkPlaced(f, o), o.pc = "reap"
  PROVE  Arrived(f, o)
<1>1. o.pc \in WalkPCs /\ o.walk.at = 0 /\ o.walk.ino = RootIno
  BY DEF WalkPCs, OpInv, WalkFits
<1>2. PICK k \in Seq(Names), gen \in Nat : k = Reached(o) /\ gen = o.walk.gen /\ Len(k) = 0
  BY <1>1, WalkReach
<1>3. k = Root
  BY <1>2 DEF Root
<1>4. Fits(f, k, RootIno, gen)
  BY <1>1, <1>2 DEF WalkPlaced
<1>5. gen = f.gen[RootIno]
  BY <1>2, <1>4, FileTreeAssumption DEF Fits, IsTree
<1>6. QED BY <1>1, <1>2, <1>3, <1>5, InodeAtRoot DEF Arrived

\* The steps that are none of a walk, or begin one.
Rests(q, o) ==
  /\ q.pc \notin {"cached", "lookup", "remember", "rememberMissing", "unresolved"}
  /\ q.late => o.late

LEMMA RestArrival ==
  ASSUME IInv', NamesInv', ArrivalInv, changes' = changes, notices' = notices,
         overtaken' \cap Keys \subseteq overtaken, Rests(op', op)
  PROVE  ArrivalInv'
<1> SUFFICES ASSUME MaxChanges = 0
             PROVE  Calm' /\ (op'.pc \in WalkPCs => Arrived(fs', op'))
  BY ArrivalPartsNext
<1>1. Calm
  BY ArrivalParts
<1>2. Calm'
  BY <1>1 DEF Calm, Rests
<1>3. ASSUME op'.pc \in WalkPCs PROVE Arrived(fs', op')
  <2>1. op'.pc = "reap"
    BY <1>3 DEF Rests, WalkPCs
  <2>2. OpInv(op') /\ IsTree(fs') /\ WalkPlaced(fs', op')
    BY DEF IInv, Typed, NamesInv
  <2>3. QED BY <2>1, <2>2, StartArrives
<1>4. QED BY <1>2, <1>3

LEMMA RestingSteps ==
  ASSUME NEW o \in Ops, NEW key, NEW p \in Purposes,
         NEW pc \in {"call", "forgetPath", "forgetDest", "touched"}, NEW next, NEW outcome
  PROVE  /\ Rests(Goto(o, pc), o) /\ Rests(DrainTo(o, next), o) /\ Rests(IdleOp(outcome), o)
         /\ Rests(Resolve(o, key, p), o) /\ Rests(ResolveContextOrPath(o, key), o)
<1>1. Rests(Goto(o, pc), o) /\ Rests(DrainTo(o, next), o)
  BY GotoFields DEF Rests
<1>2. Rests(IdleOp(outcome), o)
  BY IdleSettled DEF Rests
<1>3. \A s \in Purposes : Rests(Resolve(o, key, s), o)
  <2> TAKE s \in Purposes
  <2>1. Resolve(o, key, s).late = o.late
    BY ResolveFields
  <2>2. Resolve(o, key, s).pc \in {Known(s), "reap"}
    BY ResolveFields
  <2>3. QED BY <2>1, <2>2, KnownPCs DEF Rests
<1>4. Rests(ResolveContextOrPath(o, key), o)
  <2>1. CASE o.ctx # NoInode
    BY <2>1 DEF ResolveContextOrPath, Rests, Ops
  <2>2. CASE o.ctx = NoInode
    BY <1>3, <2>2 DEF ResolveContextOrPath, Purposes
  <2>3. QED BY <2>1, <2>2
<1>5. QED BY <1>1, <1>2, <1>3, <1>4

\* Most steps of the handlers.
LEMMA PlainArrival ==
  ASSUME IInv, IInv', NamesInv', ArrivalInv,
         \/ Access \/ Probe \/ ProbeAgain \/ OpenExisting \/ OpenResolved
         \/ ResolveNewParent \/ ResolveMoved \/ CheckClash \/ Clash
         \/ CachedAttributes \/ SetAttributes \/ FinishMutation \/ InvalidateParentAttr
         \/ InvalidateMutatedPath \/ FinishSetXattr \/ OpenCollision
         \/ RemoveEntry \/ InvalidateRemovedPath \/ FinishRemoved
         \/ InvalidateMoved \/ InvalidateOldPath \/ InvalidateNewPath \/ FinishMoved
  PROVE  ArrivalInv'
<1>1. op \in Ops
  BY DEF IInv, Typed, OpInv
<1>2. UNCHANGED environment
  BY DEF Access, Probe, ProbeAgain, OpenExisting, OpenResolved, ResolveNewParent,
         ResolveMoved, CheckClash, Clash, CachedAttributes, SetAttributes, FinishMutation,
         InvalidateParentAttr, InvalidateMutatedPath, FinishSetXattr, OpenCollision,
         RemoveEntry, InvalidateRemovedPath, FinishRemoved, InvalidateMoved,
         InvalidateOldPath, InvalidateNewPath, FinishMoved, InvalidatePathCache
<1>3. \E key, next, outcome :
        \E p \in Purposes, pc \in {"call", "forgetPath", "forgetDest", "touched"} :
        op' \in {Goto(op, pc), DrainTo(op, next), IdleOp(outcome), Resolve(op, key, p),
                 ResolveContextOrPath(op, key)}
  <2>1. CASE \/ Access \/ Probe \/ ProbeAgain \/ OpenResolved \/ Clash \/ CachedAttributes
             \/ SetAttributes \/ RemoveEntry
    BY <2>1 DEF Access, Probe, ProbeAgain, OpenResolved, Clash, CachedAttributes,
                SetAttributes, RemoveEntry, Purposes
  <2>2. CASE \/ OpenExisting \/ ResolveNewParent \/ ResolveMoved \/ CheckClash
             \/ FinishMutation \/ OpenCollision
    BY <2>2 DEF OpenExisting, ResolveNewParent, ResolveMoved, CheckClash, FinishMutation,
                OpenCollision, InvalidatePathCache, Purposes
  <2>3. CASE \/ InvalidateParentAttr \/ InvalidateMutatedPath \/ FinishSetXattr
             \/ InvalidateRemovedPath \/ FinishRemoved
    BY <2>3 DEF InvalidateParentAttr, InvalidateMutatedPath, FinishSetXattr,
                InvalidateRemovedPath, FinishRemoved, InvalidatePathCache, Purposes
  <2>4. CASE InvalidateMoved \/ InvalidateOldPath \/ InvalidateNewPath \/ FinishMoved
    BY <2>4 DEF InvalidateMoved, InvalidateOldPath, InvalidateNewPath, FinishMoved,
                InvalidatePathCache, Purposes
  <2>5. QED BY <2>1, <2>2, <2>3, <2>4
<1>4. Rests(op', op)
  BY <1>1, <1>3, RestingSteps
<1>5. QED BY <1>2, <1>4, RestArrival DEF environment

LEMMA DrainArrival == ASSUME IInv, IInv', NamesInv', ArrivalInv, Drain PROVE ArrivalInv'
<1>1. op \in Ops /\ op.pc = "drain" /\ op.next \in AfterDrain(op.kind)
  BY DEF IInv, Typed, OpInv, InOrder, Drain, At
<1>2. op.next \notin {"cached", "lookup", "remember", "rememberMissing", "unresolved"}
  BY <1>1, AdapterAssumption DEF AfterDrain, Ended, Ops, RequestKinds
<1>3. Rests(op', op)
  <2>1. CASE op.next = Ended
    BY <2>1, IdleSettled DEF Drain, Rests
  <2>2. CASE op.next # Ended
    BY <1>1, <1>2, <2>2 DEF Drain, Rests, Ops
  <2>3. QED BY <2>1, <2>2
<1>4. QED BY <1>3, RestArrival DEF Drain, environment

LEMMA UnresolvedArrival ==
  ASSUME IInv, IInv', NamesInv', ArrivalInv, Unresolved
  PROVE  ArrivalInv'
<1>1. OpInv(op)
  BY DEF IInv, Typed
<1>2. Rests(op', op)
  BY <1>1, UnresolvedFields, IdleSettled DEF Rests
<1>3. QED BY <1>2, RestArrival DEF Unresolved, environment

LEMMA GetAttributesArrival ==
  ASSUME IInv, IInv', NamesInv', ArrivalInv, GetAttributes
  PROVE  ArrivalInv'
<1>1. op \in Ops
  BY DEF IInv, Typed, OpInv
<1>2. Rests(op', op)
  BY <1>1 DEF GetAttributes, Rests, DrainTo, Ops
<1>3. QED BY <1>2, RestArrival DEF GetAttributes, environment

\* An inode is no path: what a handler records of one overtakes no name.
LEMMA StoreArrival ==
  ASSUME IInv, IInv', NamesInv', ArrivalInv, StoreAttributes
  PROVE  ArrivalInv'
<1>1. OpInv(op) /\ op.pc = "store"
  BY DEF IInv, Typed, StoreAttributes, At
<1>2. op.kind = "getattr"
  BY <1>1, AdapterAssumption DEF OpInv, InOrder, StepsOf, Ops, WalkPCs, RequestKinds
<1>3. op.ino["target"] \in Inodes
  BY <1>1, <1>2 DEF OpInv, InodesKnown, OnFile, Resolving, WalkPCs
<1>4. overtaken' \cap Keys \subseteq overtaken
  BY <1>3, AdapterAssumption DEF StoreAttributes
<1>5. Rests(op', op)
  BY IdleSettled DEF StoreAttributes, Rests
<1>6. QED BY <1>4, <1>5, RestArrival DEF StoreAttributes

LEMMA RenameArrival ==
  ASSUME IInv, IInv', NamesInv, NamesInv', ArrivalInv, Rename
  PROVE  ArrivalInv'
<1>1. op \in Ops /\ IsTree(fs)
  BY DEF IInv, Typed, OpInv, NamesInv
<1>2. /\ op' \in {DrainTo(op, Ended), DrainTo(op, "renamed")}
      /\ overtaken' = overtaken \/ \E i \in Inodes : overtaken' \subseteq overtaken \cup {i}
  BY <1>1, RenameMoves
<1>3. overtaken' \cap Keys \subseteq overtaken
  BY <1>2, AdapterAssumption
<1>4. Rests(op', op)
  BY <1>1, <1>2, GotoFields DEF Rests
<1>5. QED BY <1>3, <1>4, RestArrival DEF Rename

LEMMA MakeEntryArrival ==
  ASSUME IInv, IInv', NamesInv', ArrivalInv, MakeEntry
  PROVE  ArrivalInv'
<1>1. op \in Ops
  BY DEF IInv, Typed, OpInv
<1>2. CASE fs' # fs
  BY <1>2, MakeEntryMakes, RestArrival DEF Rests, MakeEntry, environment
<1>3. CASE fs' = fs
  <2>1. Rests(op', op)
    BY <1>1, <1>3, MakeChoices, GotoFields DEF Rests
  <2>2. QED BY <2>1, RestArrival DEF MakeEntry, environment
<1>4. QED BY <1>2, <1>3

LEMMA CreatedArrival ==
  ASSUME IInv, IInv', NamesInv', ArrivalInv, FinishCreated
  PROVE  ArrivalInv'
<1>1. /\ op'.pc = "drain" /\ op'.late = FALSE
      /\ overtaken' = IF op.late THEN overtaken \cup {op.path} ELSE overtaken \ {op.path}
  BY CreatedIsRemembered
<1>2. /\ notices' = notices /\ changes' = changes
  BY DEF FinishCreated, Record
<1>3. MaxChanges = 0 => ~op.late
  BY ArrivalParts DEF Calm
<1>4. ASSUME MaxChanges = 0 PROVE ArrivalInv'
  <2>1. overtaken' \cap Keys \subseteq overtaken
    BY <1>1, <1>3, <1>4
  <2>2. QED BY <1>1, <1>2, <2>1, RestArrival DEF Rests
<1>5. QED BY <1>4, ArrivalPartsNext

LEMMA BeginArrival == ASSUME IInv, IInv', NamesInv', ArrivalInv, Arrival PROVE ArrivalInv'
<1>1. /\ notices' = notices /\ overtaken' = overtaken /\ changes' = changes
      /\ \E o : /\ Fresh(o)
               /\ \/ op' = ResolveContextOrPath(o, o.path)
                  \/ \E key : op' = Resolve(o, key, "parent")
  BY ArrivalStarts
<1>2. PICK o, key : /\ Fresh(o)
                    /\ op' \in {ResolveContextOrPath(o, o.path), Resolve(o, key, "parent")}
  BY <1>1
<1>3. o \in Ops /\ ~o.late /\ "parent" \in Purposes
  BY <1>2 DEF Fresh, Purposes
<1>4. Rests(op', o)
  BY <1>2, <1>3, RestingSteps
<1>5. QED BY <1>1, <1>3, <1>4, RestArrival DEF Rests

\* Where a path leads depends on the names alone.
LEMMA InodeAtSame ==
  ASSUME NEW f, NEW g, f.tree = g.tree, NEW k \in Seq(Names)
  PROVE  InodeAt(f, k) = InodeAt(g, k)
<1>1. PICK m \in Nat : m = Len(k)
  OBVIOUS
<1>2. PICK st : IsSteps(st, f, k, m) /\ InodeAt(f, k) = st[m]
  BY <1>1, InodeAtIsLast
<1>3. PICK su : IsSteps(su, g, k, m) /\ InodeAt(g, k) = su[m]
  BY <1>1, InodeAtIsLast
<1>4. IsSteps(su, f, k, m)
  BY <1>3 DEF IsSteps
<1>5. st[m] = su[m]
  BY <1>2, <1>4, StepsAgree
<1>6. QED BY <1>2, <1>3, <1>5

\* What the next component of a walk leads to.
LEMMA NextInode ==
  ASSUME NEW o, OpInv(o), o.pc \in WalkPCs, NEW f, InodeAt(f, Reached(o)) = o.walk.ino
  PROVE  InodeAt(f, NextKey(o)) =
           IF o.walk.ino \in Dirs THEN f.tree[<<o.walk.ino, Leaf(NextKey(o))>>] ELSE NoInode
<1>1. PICK k \in Keys : k = NextKey(o)
  BY WalkReach
<1>2. k # Root /\ k \in Seq(Names) /\ Parent(k) = Reached(o)
  BY <1>1, WalkReach, WalkPaths
<1>3. InodeAt(f, k) = StepFrom(f, InodeAt(f, SubSeq(k, 1, Len(k) - 1)), k[Len(k)])
  BY <1>2, InodeAtChild
<1>4. QED BY <1>1, <1>2, <1>3 DEF Parent, Leaf, StepFrom

\* What a path leads to has a name.
LEMMA ReachedLinked ==
  ASSUME NEW f \in FileSystems, NEW k \in Seq(Names), Len(k) > 0 => k[Len(k)] \in Names,
         InodeAt(f, k) # NoInode
  PROVE  Linked(f, InodeAt(f, k))
<1>1. CASE k = Root
  BY <1>1, InodeAtRoot DEF Linked
<1>2. CASE k # Root
  <2>1. PICK d, n : /\ d = InodeAt(f, SubSeq(k, 1, Len(k) - 1)) /\ n = k[Len(k)]
                    /\ InodeAt(f, k) = StepFrom(f, d, n)
    BY <1>2, InodeAtChild
  <2>2. Len(k) > 0
    BY <1>2 DEF Root
  <2>3. d \in Dirs /\ n \in Names /\ f.tree[<<d, n>>] = InodeAt(f, k)
    BY <2>1, <2>2 DEF StepFrom
  <2>4. <<d, n>> \in DOMAIN f.tree
    BY <2>3 DEF FileSystems
  <2>5. QED BY <2>3, <2>4 DEF Linked, Named
<1>3. QED BY <1>1, <1>2

\* The steps of a walk that stay where they are.
LEMMA StayArrival ==
  ASSUME IInv, IInv', NamesInv, ArrivalInv, op.pc \in WalkPCs, op'.walk = op.walk,
         op'.pc \in WalkPCs, op'.late => op.late,
         fs'.tree = fs.tree, fs'.gen = fs.gen, changes' = changes, notices' = notices,
         overtaken' \cap Keys \subseteq overtaken,
         MaxChanges = 0 /\ op'.pc = "remember" => InodeAt(fs, NextKey(op)) = op'.reply.ino,
         /\ MaxChanges = 0
         /\ \/ op'.pc = "rememberMissing"
            \/ op'.pc = "unresolved" /\ op'.reply.status = "ENOENT"
         => InodeAt(fs, NextKey(op)) = NoInode
  PROVE  ArrivalInv'
<1> SUFFICES ASSUME MaxChanges = 0 PROVE Calm' /\ Arrived(fs', op')
  BY ArrivalPartsNext
<1>1. Calm /\ Arrived(fs, op)
  BY ArrivalParts
<1>2. Calm'
  BY <1>1 DEF Calm
<1>3. Reached(op') = Reached(op) /\ NextKey(op') = NextKey(op)
  BY DEF Reached, NextKey
<1>4. OpInv(op)
  BY DEF IInv, Typed
<1>5. PICK c \in Seq(Names), k \in Seq(Names) : c = Reached(op) /\ k = NextKey(op)
  BY <1>4, WalkReach, WalkPaths
<1>6. InodeAt(fs', c) = InodeAt(fs, c) /\ InodeAt(fs', k) = InodeAt(fs, k)
  BY InodeAtSame
<1>7. QED BY <1>1, <1>2, <1>3, <1>5, <1>6 DEF Arrived

\* A component is resolved.
LEMMA AdvanceArrival ==
  ASSUME IInv, IInv', NamesInv, ArrivalInv, op.pc \in WalkPCs,
         NEW i, NEW gen, op' = Advance(op, i, gen), fs' = fs,
         changes' = changes, notices' = notices,
         MaxChanges = 0 => /\ overtaken' \cap Keys \subseteq overtaken
                           /\ InodeAt(fs, NextKey(op)) = i /\ gen = fs.gen[i]
  PROVE  ArrivalInv'
<1> SUFFICES ASSUME MaxChanges = 0
             PROVE  Calm' /\ (op'.pc \in WalkPCs => Arrived(fs', op'))
  BY ArrivalPartsNext
<1>1. Calm /\ OpInv(op) /\ op \in Ops /\ op.walk.into \in Purposes
  <2>1. OpInv(op)
    BY DEF IInv, Typed
  <2>2. op.walk.into \in Purposes
    BY <2>1, WalkReach DEF WalkTypes
  <2>3. QED BY <2>1, <2>2, ArrivalParts DEF OpInv
<1>2. op'.late = FALSE /\ op'.pc \in {Known(op.walk.into), "cached"}
  <2>1. PICK q : q = Advance(op, i, gen)
    OBVIOUS
  <2>2. q.pc \in {Known(op.walk.into), "cached"} /\ q.late = FALSE
    BY <1>1, <2>1, AdvancePcs, ZenonT(60)
  <2>3. op' = q
    BY <2>1
  <2>4. QED BY <2>2, <2>3, Zenon
<1>3. Calm'
  BY <1>1, <1>2 DEF Calm
<1>4. ASSUME op'.pc \in WalkPCs PROVE Arrived(fs', op')
  <2>1. op'.pc = "cached" /\ op'.pc # Known(op.walk.into)
    BY <1>1, <1>2, <1>4, KnownPCs
  <2>2. GoesOn(op', op, i, gen)
    BY <1>1, <2>1, AdvanceSplit DEF Arrives
  <2>3. /\ op'.walk.key = op.walk.key /\ op'.walk.at = op.walk.at + 1
        /\ op'.walk.ino = i /\ op'.walk.gen = gen
    BY <2>2 DEF GoesOn
  <2>4. Reached(op') = NextKey(op)
    BY <2>3 DEF Reached, NextKey
  <2>5. QED BY <2>1, <2>3, <2>4 DEF Arrived
<1>5. QED BY <1>3, <1>4

LEMMA ReapArrival == ASSUME IInv, IInv', NamesInv, ArrivalInv, Reap PROVE ArrivalInv'
<1>1. op.pc = "reap" /\ op.pc \in WalkPCs /\ op \in Ops /\ fs \in FileSystems
  BY DEF Reap, At, WalkPCs, IInv, Typed, OpInv
<1>2. op' = Goto(op, "cached") /\ UNCHANGED <<notices, overtaken, changes>>
  BY DEF Reap, environment
<1>3. op'.pc = "cached" /\ op'.walk = op.walk /\ op'.late = op.late
  BY <1>1, <1>2, GotoFields
<1>4. fs'.tree = fs.tree /\ fs'.gen = fs.gen
  BY <1>1 DEF Reap, Deliver, Forgot, FileSystems
<1>5. QED BY <1>1, <1>2, <1>3, <1>4, StayArrival DEF WalkPCs

\* An answer from the cache is where the file system would lead.
LEMMA CachedArrival ==
  ASSUME IInv, IInv', NamesInv, ArrivalInv, CachedComponent
  PROVE  ArrivalInv'
<1>1. op.pc = "cached" /\ op.pc \in WalkPCs
  BY DEF CachedComponent, At, WalkPCs
<1>2. /\ OpInv(op) /\ op \in Ops /\ ResolverInv(resolver) /\ resolver \in Resolver
      /\ fs \in FileSystems /\ Component = NextKey(op) /\ Component \in Keys
      /\ Component # Root /\ Leaf(Component) \in Names /\ ChangedPaths(op) = {}
      /\ op.walk.ino \in Inodes
  BY <1>1, WalkFacts
<1>3. fs' = fs /\ notices' = notices /\ overtaken' = overtaken /\ changes' = changes
  BY DEF CachedComponent, environment
<1>a. PICK k \in Keys, d \in Inodes : k = Component /\ d = op.walk.ino
  BY <1>2
<1>4. PICK gen, answer : /\ k = Component /\ d = op.walk.ino /\ gen = op.walk.gen
                         /\ answer = CachedAnswer(resolver, k, d, gen)
  BY <1>a
<1>5. \/ answer.found = "hit" /\ op' = Advance(op, answer.ino, answer.gen)
      \/ answer.found = "ENOENT" /\ op' = [op EXCEPT !.pc = "unresolved", !.reply = Error("ENOENT")]
      \/ answer.found = "miss" /\ op' = Goto(op, "lookup")
  BY <1>4 DEF CachedComponent
<1>6. PICK e : e = resolver.paths[k]
  OBVIOUS
<1>7. e \in PathEntry
  BY <1>2, <1>6 DEF Resolver
<1>8. ASSUME MaxChanges = 0, answer.found # "miss"
      PROVE  /\ InodeAt(fs, k) = IF answer.found = "hit" THEN answer.ino ELSE NoInode
             /\ answer.found = "hit" => answer.gen = fs.gen[answer.ino]
  <2>1. Calm /\ InodeAt(fs, Reached(op)) = d /\ gen = fs.gen[d]
    BY <1>1, <1>4, <1>8, ArrivalParts DEF Arrived
  <2>2. /\ IsPresent(e) /\ e.live /\ e.parent = d /\ e.parentGen = gen
        /\ IF answer.found = "hit"
             THEN IsPositive(e) /\ answer.ino = e.ino /\ answer.gen = e.gen
             ELSE ~IsPositive(e)
    BY <1>2, <1>4, <1>6, <1>7, <1>8, AnswerIs
  <2>3. InodeAt(fs, k) = IF d \in Dirs THEN fs.tree[<<d, Leaf(k)>>] ELSE NoInode
    BY <1>1, <1>2, <1>4, <2>1, NextInode
  <2>4. EntryFits(fs, k, e)
    BY <1>6, <2>2 DEF NamesInv, EntriesInv
  <2>5. Linked(fs, d)
    <3>1. PICK c \in Seq(Names) : c = Reached(op) /\ (Len(c) > 0 => c[Len(c)] \in Names)
      <4>1. PICK c \in Seq(Names) : c = Reached(op)
        BY <1>1, <1>2, WalkReach
      <4>2. Len(c) > 0 => c[Len(c)] \in Names
        OBVIOUS
      <4>3. QED BY <4>1, <4>2
    <3>2. d # NoInode
      BY FileTreeAssumption
    <3>3. QED BY <1>2, <2>1, <3>1, <3>2, ReachedLinked
  <2>6. ~Unannounced(e.parent, e.name) /\ k \notin overtaken
    BY <2>1 DEF Calm, Unannounced, Announced
  <2>7. d \in Dirs => fs.tree[<<d, Leaf(k)>>] = Answer(e)
    <3>1. SUFFICES ASSUME d \in Dirs PROVE fs.tree[<<d, Leaf(k)>>] = Answer(e)
      OBVIOUS
    <3>2. Current(fs, e.parent, e.parentGen)
      BY <2>1, <2>2, <2>5, <3>1 DEF Current
    <3>3. e.name = Leaf(k) /\ fs.tree[<<e.parent, e.name>>] = Answer(e)
      BY <1>2, <1>6, <2>2, <2>6, <3>2, EntrySays
    <3>4. QED BY <2>2, <3>3
  <2>8. IsPositive(e) => d \in Dirs /\ e.gen = fs.gen[e.ino]
    BY <2>2, <2>4 DEF EntryFits
  <2>9. QED BY <2>2, <2>3, <2>7, <2>8 DEF Answer
<1>9. CASE answer.found = "hit"
  <2>1. PICK i, g : i = answer.ino /\ g = answer.gen
    OBVIOUS
  <2>2. op' = Advance(op, i, g)
    BY <1>5, <1>9, <2>1
  <2>3. MaxChanges = 0 => InodeAt(fs, NextKey(op)) = i /\ g = fs.gen[i]
    BY <1>2, <1>4, <1>8, <1>9, <2>1
  <2>4. QED BY <1>1, <1>3, <2>2, <2>3, AdvanceArrival
<1>10. CASE answer.found # "hit"
  <2>1. /\ op'.pc \in {"lookup", "unresolved"} /\ op'.walk = op.walk /\ op'.late = op.late
        /\ op'.pc = "unresolved" => answer.found = "ENOENT"
    BY <1>2, <1>5, <1>10 DEF Goto, Ops
  <2>2. MaxChanges = 0 /\ op'.pc = "unresolved" => InodeAt(fs, NextKey(op)) = NoInode
    BY <1>2, <1>4, <1>8, <2>1
  <2>3. QED BY <1>1, <1>3, <2>1, <2>2, StayArrival DEF WalkPCs
<1>11. QED BY <1>9, <1>10

\* The file system answers what is there.
LEMMA LookupArrival ==
  ASSUME IInv, IInv', NamesInv, ArrivalInv, LookupComponent
  PROVE  ArrivalInv'
<1>1. op.pc = "lookup" /\ op.pc \in WalkPCs
  BY DEF LookupComponent, At, WalkPCs
<1>2. /\ OpInv(op) /\ op \in Ops /\ fs \in FileSystems /\ Component = NextKey(op)
      /\ op.walk.ino \in Inodes
  BY <1>1, WalkFacts
<1>3. resolver' = resolver /\ notices' = notices /\ overtaken' = overtaken /\ changes' = changes
  BY DEF LookupComponent, environment
<1>4. PICK found : found = IF op.walk.ino \in Dirs
                             THEN fs.tree[<<op.walk.ino, Leaf(Component)>>] ELSE NoInode
  OBVIOUS
<1>5. \/ /\ found # NoInode /\ fs' = Granted(fs, found)
         /\ \E cacheable \in Cacheable :
              op' = [op EXCEPT !.pc = "remember",
                               !.reply = Entry(found, fs.gen[found], cacheable)]
      \/ /\ fs' = fs
         /\ \E status \in Statuses(IF found = NoInode THEN {"ENOENT"} ELSE {}) :
              op' = [op EXCEPT !.pc = IF status = "ENOENT" THEN "rememberMissing"
                                                           ELSE "unresolved",
                               !.reply = Error(status)]
  BY <1>4 DEF LookupComponent
<1>6. MaxChanges = 0 => InodeAt(fs, NextKey(op)) = found
  <2>1. MaxChanges = 0 => InodeAt(fs, Reached(op)) = op.walk.ino
    BY <1>1, ArrivalParts DEF Arrived
  <2>2. QED BY <1>1, <1>2, <1>4, <2>1, NextInode
<1>7. fs'.tree = fs.tree /\ fs'.gen = fs.gen
  BY <1>2, <1>5 DEF Granted, FileSystems
<1>8. CASE \E cacheable \in Cacheable :
             op' = [op EXCEPT !.pc = "remember",
                              !.reply = Entry(found, fs.gen[found], cacheable)]
  <2>1. op'.pc = "remember" /\ op'.walk = op.walk /\ op'.late = op.late /\ op'.reply.ino = found
    BY <1>2, <1>8 DEF Ops, Entry
  <2>2. QED BY <1>1, <1>3, <1>6, <1>7, <2>1, StayArrival DEF WalkPCs
<1>9. CASE \E status \in Statuses(IF found = NoInode THEN {"ENOENT"} ELSE {}) :
             op' = [op EXCEPT !.pc = IF status = "ENOENT" THEN "rememberMissing"
                                                          ELSE "unresolved",
                              !.reply = Error(status)]
  <2>1. PICK status \in Statuses(IF found = NoInode THEN {"ENOENT"} ELSE {}) :
          op' = [op EXCEPT !.pc = IF status = "ENOENT" THEN "rememberMissing"
                                                       ELSE "unresolved",
                           !.reply = Error(status)]
    BY <1>9
  <2>2. status = "ENOENT" => found = NoInode
    BY <2>1 DEF Statuses
  <2>3. /\ op'.pc = IF status = "ENOENT" THEN "rememberMissing" ELSE "unresolved"
        /\ op'.walk = op.walk /\ op'.late = op.late /\ op'.reply.status = status
    BY <1>2, <2>1 DEF Ops, Error
  <2>4. QED BY <1>1, <1>3, <1>6, <1>7, <2>2, <2>3, StayArrival DEF WalkPCs
<1>10. QED BY <1>5, <1>8, <1>9

\* Nothing is late, so what is recorded is not marked as overtaken.
LEMMA RecordArrival ==
  ASSUME ArrivalInv, MaxChanges = 0, NEW k, Record(k)
  PROVE  /\ notices' = notices /\ changes' = changes
         /\ overtaken' \cap Keys \subseteq overtaken
BY ArrivalParts DEF Calm, Record

LEMMA RememberArrival ==
  ASSUME IInv, IInv', NamesInv, ArrivalInv, RememberComponent
  PROVE  ArrivalInv'
<1>1. op.pc = "remember" /\ op.pc \in WalkPCs
  BY DEF RememberComponent, At, WalkPCs
<1>2. fs' = fs /\ notices' = notices /\ changes' = changes /\ Record(Component)
  BY DEF RememberComponent, Record
<1>3. PICK i, gen : i = op.reply.ino /\ gen = op.reply.gen
  OBVIOUS
<1>4. op' = Advance(op, i, gen)
  BY <1>3 DEF RememberComponent
<1>5. gen = fs.gen[i]
  BY <1>1, <1>3 DEF NamesInv, RepliesInv, ReplyOf
<1>6. MaxChanges = 0 => overtaken' \cap Keys \subseteq overtaken /\ InodeAt(fs, NextKey(op)) = i
  BY <1>1, <1>2, <1>3, RecordArrival, ArrivalParts DEF Arrived
<1>7. QED BY <1>1, <1>2, <1>4, <1>5, <1>6, AdvanceArrival

LEMMA RememberMissingArrival ==
  ASSUME IInv, IInv', NamesInv, ArrivalInv, RememberMissingComponent
  PROVE  ArrivalInv'
<1>1. op.pc = "rememberMissing" /\ op.pc \in WalkPCs /\ op \in Ops
  BY DEF RememberMissingComponent, At, WalkPCs, IInv, Typed, OpInv
<1>2. fs' = fs /\ notices' = notices /\ changes' = changes /\ Record(Component)
  BY DEF RememberMissingComponent, Record
<1>3. op'.pc = "unresolved" /\ op'.walk = op.walk /\ op'.late = FALSE
  BY <1>1 DEF RememberMissingComponent, Ops
<1>4. SUFFICES ASSUME MaxChanges = 0 PROVE ArrivalInv'
  BY ArrivalPartsNext
<1>5. InodeAt(fs, NextKey(op)) = NoInode /\ overtaken' \cap Keys \subseteq overtaken
  BY <1>1, <1>2, <1>4, RecordArrival, ArrivalParts DEF Arrived
<1>6. QED BY <1>1, <1>2, <1>3, <1>5, StayArrival DEF WalkPCs

\* Time takes answers away and leaves everything else.
LEMMA StillArrival ==
  ASSUME ArrivalInv, fs' = fs, op' = op, UNCHANGED environment
  PROVE  ArrivalInv'
BY ArrivalParts, ArrivalPartsNext DEF Calm, environment

\* As long as nothing changes by itself there is nothing to announce.
LEMMA OutsideArrival ==
  ASSUME IInv, ArrivalInv, FsStep \/ Notifier
  PROVE  ArrivalInv'
<1>1. SUFFICES ASSUME MaxChanges = 0 PROVE FALSE
  BY ArrivalPartsNext
<1>2. changes = 0 /\ notices = {}
  BY <1>1, ArrivalParts DEF Calm
<1>3. ~Notifier
  BY <1>2 DEF Notifier
<1>4. ~\E f, due : Change(f, due)
  BY <1>2 DEF Change
<1>5. ~FsStep
  BY <1>4 DEF FsStep, FsTouches, FsMakes, FsRemoves, FsMoves
<1>6. QED BY <1>3, <1>5

LEMMA NextArrival ==
  ASSUME IInv, IInv', NamesInv, NamesInv', ArrivalInv, Next
  PROVE  ArrivalInv'
<1>1. ASSUME HandlerStep PROVE ArrivalInv'
  <2>1. CASE \/ Reap \/ CachedComponent \/ LookupComponent
             \/ RememberComponent \/ RememberMissingComponent \/ Unresolved \/ Drain
    BY <2>1, ReapArrival, CachedArrival, LookupArrival, RememberArrival,
       RememberMissingArrival, UnresolvedArrival, DrainArrival
  <2>2. CASE \/ CachedAttributes \/ GetAttributes \/ StoreAttributes
             \/ SetAttributes \/ FinishMutation \/ InvalidateParentAttr
             \/ InvalidateMutatedPath \/ FinishSetXattr \/ Access \/ Probe \/ ProbeAgain
    BY <2>2, GetAttributesArrival, StoreArrival, PlainArrival
  <2>3. CASE \/ OpenExisting \/ MakeEntry \/ FinishCreated \/ OpenCollision \/ OpenResolved
             \/ RemoveEntry \/ InvalidateRemovedPath \/ FinishRemoved
    BY <2>3, MakeEntryArrival, CreatedArrival, PlainArrival
  <2>4. CASE \/ ResolveNewParent \/ ResolveMoved \/ CheckClash \/ Clash \/ Rename
             \/ InvalidateMoved \/ InvalidateOldPath \/ InvalidateNewPath \/ FinishMoved
    BY <2>4, RenameArrival, PlainArrival
  <2>5. QED BY <1>1, <2>1, <2>2, <2>3, <2>4 DEF HandlerStep
<1>2. ASSUME Time PROVE ArrivalInv'
  BY <1>2, StillArrival DEF Time, EntryExpires, AttrExpires
<1>3. QED BY <1>1, <1>2, BeginArrival, OutsideArrival DEF Next

LEMMA InitArrival == Init => ArrivalInv
<1> SUFFICES ASSUME Init, MaxChanges = 0
             PROVE  Calm /\ (op.pc \in WalkPCs => Arrived(fs, op))
  BY ArrivalParts
<1>1. op = IdleOp("drained") /\ op.pc = "idle" /\ op.late = FALSE
  BY IdleSettled DEF Init
<1>2. QED BY <1>1 DEF Init, Calm, WalkPCs

\* While only the adapter changes the file system, no reply is late, nothing is
\* left to announce, and a walk and what it is to cache next are where the path
\* leads (path_routes.rs:27-112).
THEOREM ArrivalInvariance == Spec => []ArrivalInv
<1>1. IInv /\ IInv' /\ NamesInv /\ NamesInv' /\ ArrivalInv /\ [Next]_vars => ArrivalInv'
  <2>1. ASSUME ArrivalInv, UNCHANGED vars PROVE ArrivalInv'
    BY <2>1, StillArrival DEF vars, environment
  <2>2. QED BY <2>1, NextArrival
<1>2. QED BY InitArrival, Invariance, NamesInvariance, <1>1, PTL DEF Spec

\* While only the adapter changes the file system, each component that a walk
\* has resolved, from the cache or not, is the inode its prefix names, and a
\* walk fails with ENOENT only at a prefix that names nothing
\* (path_routes.rs:27-64).
THEOREM WalksStayOnPath == Spec => []WalksArrive
<1>1. IInv /\ ArrivalInv => WalksArrive
  <2> SUFFICES ASSUME IInv, ArrivalInv, MaxChanges = 0
               PROVE  /\ InodeAt(fs, Reached(op)) = op.walk.ino
                      /\ op.pc = "unresolved" /\ op.reply.status = "ENOENT" =>
                           InodeAt(fs, NextKey(op)) = NoInode
    BY DEF WalksArrive, At, Reached, NextKey, Component
  <2>1. CASE op.pc \in WalkPCs
    BY <2>1, ArrivalParts DEF Arrived
  <2>2. CASE op.pc \notin WalkPCs
    <3>1. op.walk = NoWalk
      BY <2>2 DEF IInv, Typed, OpInv, WalkFits
    <3>2. Reached(op) = Root /\ op.walk.ino = RootIno
      BY <3>1 DEF Reached, NoWalk, Root
    <3>3. QED BY <2>2, <3>2, InodeAtRoot DEF WalkPCs
  <2>3. QED BY <2>1, <2>2
<1>2. QED BY ArrivalInvariance, Invariance, <1>1, PTL

-----------------------------------------------------------------------------
(* Every step of a handler brings the end of its request nearer.           *)

Under(o) == o.pc \in WalkPCs \cup {"drain"}

LEMMA StepsLeftRange ==
  ASSUME NEW pc
  PROVE  StepsLeft(pc) \in 0 .. 11
BY DEF StepsLeft

LEMMA DistanceRange ==
  ASSUME NEW o, OpInv(o)
  PROVE  Stage(o) \in 0 .. 23 /\ WalkLeft(o) \in Nat
<1>1. Stage(o) \in 0 .. 23
  <2>1. PICK n \in 0 .. 11 : n = StepsLeft(Heading(o))
    BY StepsLeftRange
  <2>2. Stage(o) \in {2 * n, 2 * n + 1}
    BY <2>1 DEF Stage
  <2>3. QED BY <2>2
<1>2. WalkLeft(o) \in Nat
  <2>1. CASE o.pc \in WalkPCs
    <3>1. o.walk \in WalkTypes /\ o.walk.at < Len(o.walk.key)
      BY <2>1 DEF OpInv, Ops, WalkFits
    <3>2. o.walk.at \in Nat /\ o.walk.key \in Seq(Names)
      BY <3>1, ConstantsAssumption DEF WalkTypes, Root
    <3>3. Len(o.walk.key) \in Nat
      BY <3>2
    <3>4. ComponentStepsLeft(o.pc) \in 0 .. 4
      BY <2>1 DEF ComponentStepsLeft, WalkPCs
    <3>5. PICK n \in Nat : n = Len(o.walk.key) - o.walk.at - 1
      BY <3>1, <3>2, <3>3
    <3>6. WalkLeft(o) = 4 * n + ComponentStepsLeft(o.pc)
      BY <2>1, <3>5 DEF WalkLeft
    <3>7. QED BY <3>4, <3>5, <3>6
  <2>2. CASE o.pc \notin WalkPCs
    BY <2>2 DEF WalkLeft
  <2>3. QED BY <2>1, <2>2
<1>3. QED BY <1>1, <1>2

\* What the distance depends on.
LEMMA SameDistance ==
  ASSUME NEW p, NEW o, p.pc = o.pc, p.next = o.next, p.walk = o.walk
  PROVE  Heading(p) = Heading(o) /\ Stage(p) = Stage(o) /\ WalkLeft(p) = WalkLeft(o)
<1>1. Heading(p) = Heading(o)
  BY DEF Heading
<1>2. QED BY <1>1 DEF Stage, WalkLeft

\* From a step, the handler heads for a later one.
LEMMA HeadsOn ==
  ASSUME NEW p, NEW o, ~Under(o), StepsLeft(Heading(p)) < StepsLeft(o.pc)
  PROVE  Nearer(p, o)
<1>1. PICK m \in 0 .. 11 : m = StepsLeft(Heading(p))
  BY StepsLeftRange
<1>2. PICK n \in 0 .. 11 : n = StepsLeft(o.pc)
  BY StepsLeftRange
<1>3. Heading(o) = o.pc
  BY DEF Under, Heading
<1>4. Stage(p) \in {2 * m, 2 * m + 1} /\ Stage(o) = 2 * n
  BY <1>1, <1>2, <1>3 DEF Stage, Under
<1>5. m < n
  BY <1>1, <1>2
<1>6. Stage(p) < Stage(o)
  BY <1>4, <1>5
<1>7. QED BY <1>6 DEF Nearer

\* A walk or a drain comes to the step it was for, or to a later one.
LEMMA ComesTo ==
  ASSUME NEW p, NEW o, Under(o), ~Under(p), StepsLeft(p.pc) <= StepsLeft(Heading(o))
  PROVE  Nearer(p, o)
<1>1. PICK m \in 0 .. 11 : m = StepsLeft(p.pc)
  BY StepsLeftRange
<1>2. PICK n \in 0 .. 11 : n = StepsLeft(Heading(o))
  BY StepsLeftRange
<1>3. Heading(p) = p.pc
  BY DEF Under, Heading
<1>4. Stage(p) = 2 * m /\ Stage(o) = 2 * n + 1
  BY <1>1, <1>2, <1>3 DEF Stage, Under
<1>5. m <= n
  BY <1>1, <1>2
<1>6. Stage(p) < Stage(o)
  BY <1>4, <1>5
<1>7. QED BY <1>6 DEF Nearer

\* A walk goes on.
LEMMA WalksOn ==
  ASSUME NEW p, NEW o, o.pc \in WalkPCs, p.pc \in WalkPCs,
         p.walk.into = o.walk.into, WalkLeft(p) < WalkLeft(o)
  PROVE  Nearer(p, o)
<1>1. Heading(p) = Heading(o)
  BY DEF Heading, WalkPCs
<1>2. Stage(p) = Stage(o)
  BY <1>1 DEF Stage
<1>3. QED BY <1>2 DEF Nearer

LEMMA Headings ==
  ASSUME NEW o \in Ops
  PROVE  /\ \A next : Heading(DrainTo(o, next)) = next
         /\ \A pc : pc \notin WalkPCs \cup {"drain"} => Heading(Goto(o, pc)) = pc
         /\ \A key : \A p \in Purposes : Heading(Resolve(o, key, p)) = Known(p)
         /\ \A key : Heading(ResolveContextOrPath(o, key)) = "targetKnown"
<1>1. \A next : Heading(DrainTo(o, next)) = next
  <2> TAKE next
  <2>1. DrainTo(o, next).pc = "drain" /\ DrainTo(o, next).next = next
    BY GotoFields
  <2>2. QED BY <2>1 DEF Heading, WalkPCs
<1>2. ASSUME NEW pc, pc \notin WalkPCs \cup {"drain"}
      PROVE  Heading(Goto(o, pc)) = pc
  <2>1. Goto(o, pc).pc = pc
    BY GotoFields
  <2>2. QED BY <1>2, <2>1 DEF Heading
<1>3. ASSUME NEW key, NEW p \in Purposes
      PROVE  Heading(Resolve(o, key, p)) = Known(p)
  <2>1. CASE key = Root
    <3>1. Resolve(o, key, p).pc = Known(p)
      BY <2>1, ResolveFields
    <3>2. Known(p) \notin WalkPCs \cup {"drain"}
      BY KnownPCs
    <3>3. QED BY <3>1, <3>2 DEF Heading
  <2>2. CASE key # Root
    <3>1. Resolve(o, key, p).pc = "reap" /\ Resolve(o, key, p).walk.into = p
      BY <2>2, ResolveFields
    <3>2. QED BY <3>1 DEF Heading, WalkPCs
  <2>3. QED BY <2>1, <2>2
<1>4. ASSUME NEW key
      PROVE  Heading(ResolveContextOrPath(o, key)) = "targetKnown"
  <2>1. CASE o.ctx # NoInode
    <3> DEFINE inos == [o.ino EXCEPT !["target"] = o.ctx]
    <3>1. ResolveContextOrPath(o, key) = [o EXCEPT !.pc = "targetKnown", !.ino = inos]
      BY <2>1 DEF ResolveContextOrPath
    <3> HIDE DEF inos
    <3>2. ResolveContextOrPath(o, key).pc = "targetKnown"
      BY <3>1 DEF Ops
    <3>3. QED BY <3>2 DEF Heading, WalkPCs
  <2>2. CASE o.ctx = NoInode
    <3>1. ResolveContextOrPath(o, key) = Resolve(o, key, "target")
      BY <2>2 DEF ResolveContextOrPath
    <3>2. "target" \in Purposes /\ Known("target") = "targetKnown"
      BY DEF Purposes, Known
    <3>3. QED BY <1>3, <3>1, <3>2
  <2>3. QED BY <2>1, <2>2
<1>5. QED BY <1>1, <1>2, <1>3, <1>4

LEMMA HeadingIdle ==
  ASSUME NEW outcome
  PROVE  Heading(IdleOp(outcome)) = "idle" /\ ~Under(IdleOp(outcome))
<1>1. IdleOp(outcome).pc = "idle"
  BY IdleSettled
<1>2. QED BY <1>1 DEF Heading, Under, WalkPCs


LEMMA InWalk ==
  ASSUME OpInv(op), op.pc \in WalkPCs
  PROVE  /\ op \in Ops /\ op.next = "idle" /\ op.walk.into \in Purposes
         /\ op.walk.at \in Nat /\ Len(op.walk.key) \in Nat /\ op.walk.at < Len(op.walk.key)
<1>1. op \in Ops /\ op.walk \in WalkTypes /\ op.walk.at < Len(op.walk.key)
  BY DEF OpInv, Ops, WalkFits
<1>2. op.walk.at \in Nat /\ op.walk.key \in Seq(Names) /\ op.walk.into \in Purposes
  BY <1>1, ConstantsAssumption DEF WalkTypes, Root
<1>3. Len(op.walk.key) \in Nat
  BY <1>2
<1>4. op.next = "idle"
  BY DEF OpInv, InOrder, WalkPCs
<1>5. QED BY <1>1, <1>2, <1>3, <1>4

\* The next step of a component.
LEMMA ComponentNearer ==
  ASSUME OpInv(op), op.pc \in WalkPCs, NEW p, p.pc \in WalkPCs, p.walk = op.walk,
         ComponentStepsLeft(p.pc) < ComponentStepsLeft(op.pc)
  PROVE  Nearer(p, op)
<1>1. PICK n \in Nat : n = Len(op.walk.key) - op.walk.at - 1
  BY InWalk
<1>2. ComponentStepsLeft(op.pc) \in Nat /\ ComponentStepsLeft(p.pc) \in Nat
  BY DEF ComponentStepsLeft, WalkPCs
<1>3. PICK a \in Nat : a = ComponentStepsLeft(op.pc)
  BY <1>2
<1>4. PICK b \in Nat : b = ComponentStepsLeft(p.pc)
  BY <1>2
<1>5. WalkLeft(op) = 4 * n + a /\ WalkLeft(p) = 4 * n + b
  BY <1>1, <1>3, <1>4 DEF WalkLeft
<1>6. WalkLeft(p) < WalkLeft(op)
  BY <1>3, <1>4, <1>5
<1>7. QED BY <1>6, WalksOn

LEMMA AdvanceNearer ==
  ASSUME OpInv(op), op.pc \in WalkPCs \ {"unresolved"}, NEW i, NEW gen
  PROVE  Nearer(Advance(op, i, gen), op)
<1>p. PICK p : p = Advance(op, i, gen)
  OBVIOUS
<1>1. /\ op \in Ops /\ op.walk.into \in Purposes
      /\ op.walk.at \in Nat /\ Len(op.walk.key) \in Nat /\ op.walk.at < Len(op.walk.key)
  BY InWalk
<1>2. CASE op.walk.at + 1 = Len(op.walk.key)
  <2>1. p.pc = Known(op.walk.into)
    BY <1>p, <1>1, <1>2, AdvanceSplit DEF Arrives
  <2>2. ~Under(p)
    BY <1>1, <2>1, KnownPCs DEF Under
  <2>3. Heading(op) = Known(op.walk.into)
    BY DEF Heading, WalkPCs
  <2>4. StepsLeft(p.pc) <= StepsLeft(Heading(op))
    BY <2>1, <2>3, StepsLeftRange
  <2>5. QED BY <1>p, <2>2, <2>4, ComesTo DEF Under
<1>3. CASE op.walk.at + 1 # Len(op.walk.key)
  <2>1. /\ p.pc = "cached" /\ p.walk.key = op.walk.key /\ p.walk.at = op.walk.at + 1
        /\ p.walk.into = op.walk.into
    BY <1>p, <1>1, <1>3, AdvanceSplit DEF GoesOn
  <2>2. PICK n \in Nat : n = Len(op.walk.key) - op.walk.at - 2
    BY <1>1, <1>3
  <2>3. PICK a \in 1 .. 4 : a = ComponentStepsLeft(op.pc)
    BY DEF ComponentStepsLeft, WalkPCs
  <2>4. WalkLeft(op) = 4 * (n + 1) + a
    BY <1>1, <2>2, <2>3 DEF WalkLeft
  <2>5. p.pc \in WalkPCs /\ ComponentStepsLeft(p.pc) = 3
    BY <2>1 DEF WalkPCs, ComponentStepsLeft
  <2>6. WalkLeft(p) = 4 * n + 3
    <3>1. WalkLeft(p) = 4 * (Len(op.walk.key) - (op.walk.at + 1) - 1) + 3
      BY <2>1, <2>5 DEF WalkLeft
    <3>2. Len(op.walk.key) - (op.walk.at + 1) - 1 = n
      BY <1>1, <2>2
    <3>3. QED BY <3>1, <3>2
  <2>7. WalkLeft(p) < WalkLeft(op)
    BY <2>3, <2>4, <2>6
  <2>8. QED BY <1>p, <2>1, <2>5, <2>7, WalksOn
<1>4. QED BY <1>p, <1>2, <1>3

LEMMA WalkNearer ==
  ASSUME OpInv(op),
         \/ Reap \/ CachedComponent \/ LookupComponent
         \/ RememberComponent \/ RememberMissingComponent \/ Unresolved
  PROVE  Nearer(op', op)
<1>1. CASE Reap
  <2>1. op.pc = "reap" /\ op' = Goto(op, "cached") /\ op \in Ops
    BY <1>1 DEF Reap, At, OpInv
  <2>2. op'.pc = "cached" /\ op'.walk = op.walk
    BY <2>1, GotoFields
  <2>3. QED BY <2>1, <2>2, ComponentNearer DEF WalkPCs, ComponentStepsLeft
<1>2. CASE CachedComponent
  <2>1. op.pc = "cached" /\ op \in Ops
    BY <1>2 DEF CachedComponent, At, OpInv
  <2>2. \/ \E i, gen : op' = Advance(op, i, gen)
        \/ op' = [op EXCEPT !.pc = "unresolved", !.reply = Error("ENOENT")]
        \/ op' = Goto(op, "lookup")
    BY <1>2, Zenon DEF CachedComponent
  <2>3. CASE \E i, gen : op' = Advance(op, i, gen)
    BY <2>1, <2>3, AdvanceNearer DEF WalkPCs
  <2>4. CASE op' = [op EXCEPT !.pc = "unresolved", !.reply = Error("ENOENT")]
    <3>1. op'.pc = "unresolved" /\ op'.walk = op.walk
      BY <2>1, <2>4 DEF Ops
    <3>2. QED BY <2>1, <3>1, ComponentNearer DEF WalkPCs, ComponentStepsLeft
  <2>5. CASE op' = Goto(op, "lookup")
    <3>1. op'.pc = "lookup" /\ op'.walk = op.walk
      BY <2>1, <2>5, GotoFields
    <3>2. QED BY <2>1, <3>1, ComponentNearer DEF WalkPCs, ComponentStepsLeft
  <2>6. QED BY <2>2, <2>3, <2>4, <2>5
<1>3. CASE LookupComponent
  <2>1. op.pc = "lookup" /\ op \in Ops
    BY <1>3 DEF LookupComponent, At, OpInv
  <2>2. \E pc \in {"remember", "rememberMissing", "unresolved"} : \E reply :
          op' = [op EXCEPT !.pc = pc, !.reply = reply]
    BY <1>3, Zenon DEF LookupComponent
  <2>3. PICK pc \in {"remember", "rememberMissing", "unresolved"} : \E reply :
          op' = [op EXCEPT !.pc = pc, !.reply = reply]
    BY <2>2
  <2>4. op'.pc = pc /\ op'.walk = op.walk
    BY <2>1, <2>3 DEF Ops
  <2>5. QED BY <2>1, <2>4, ComponentNearer DEF WalkPCs, ComponentStepsLeft
<1>4. CASE RememberComponent
  BY <1>4, AdvanceNearer DEF RememberComponent, At, WalkPCs
<1>5. CASE RememberMissingComponent
  <2>1. op.pc = "rememberMissing" /\ op \in Ops
        /\ op' = [op EXCEPT !.pc = "unresolved", !.late = FALSE]
    BY <1>5 DEF RememberMissingComponent, At, OpInv
  <2>2. op'.pc = "unresolved" /\ op'.walk = op.walk
    BY <2>1 DEF Ops
  <2>3. op.pc \in WalkPCs /\ op'.pc \in WalkPCs
    BY <2>1, <2>2 DEF WalkPCs
  <2>4. ComponentStepsLeft(op'.pc) < ComponentStepsLeft(op.pc)
    BY <2>1, <2>2 DEF ComponentStepsLeft
  <2>5. QED BY <2>2, <2>3, <2>4, ComponentNearer
<1>6. CASE Unresolved
  <2>1. op.pc = "unresolved"
    BY <1>6 DEF Unresolved, At
  <2>2. Under(op) /\ Heading(op) = Known(op.walk.into)
    BY <2>1 DEF Under, Heading, WalkPCs
  <2>3. CASE op' = IdleOp("drained")
    <3>1. op'.pc = "idle" /\ StepsLeft("idle") = 0
      BY <2>3, IdleSettled DEF StepsLeft
    <3>2. ~Under(op')
      BY <3>1 DEF Under, WalkPCs
    <3>3. QED BY <2>2, <3>1, <3>2, ComesTo, StepsLeftRange
  <2>4. CASE \/ op.walk.into = "mtime" /\ op'.pc = "forgetPath"
             \/ op.walk.into = "target" /\ op'.pc = "targetKnown"
             \/ op.walk.into = "clash" /\ op'.pc = "call"
    <3>1. ~Under(op')
      BY <2>4 DEF Under, WalkPCs
    <3>2. StepsLeft(op'.pc) <= StepsLeft(Heading(op))
      BY <2>2, <2>4 DEF Known, StepsLeft
    <3>3. QED BY <2>2, <3>1, <3>2, ComesTo
  <2>5. QED BY <1>6, <2>3, <2>4, UnresolvedFields
<1>7. QED BY <1>1, <1>2, <1>3, <1>4, <1>5, <1>6


LEMMA StepsLeftIs ==
  /\ StepsLeft("parentKnown") = 11 /\ StepsLeft("destParentKnown") = 10
  /\ StepsLeft("collided") = 9 /\ StepsLeft("targetKnown") = 8
  /\ StepsLeft("clashKnown") = 7 /\ StepsLeft("call") = 6
  /\ StepsLeft("store") = 5 /\ StepsLeft("mutated") = 5
  /\ StepsLeft("created") = 5 /\ StepsLeft("renamed") = 5
  /\ StepsLeft("mtimeKnown") = 4 /\ StepsLeft("forgetPath") = 3
  /\ StepsLeft("forgetDest") = 2 /\ StepsLeft("touched") = 1
  /\ StepsLeft("idle") = 0 /\ StepsLeft(Ended) = 0
BY DEF StepsLeft, Ended

LEMMA HeadingInDrain ==
  ASSUME NEW p, p.pc = "drain"
  PROVE  Heading(p) = p.next
BY DEF Heading, WalkPCs

\* The handlers that act on one file.
LEMMA OnFileNearer ==
  ASSUME op \in Ops,
         \/ CachedAttributes \/ GetAttributes \/ StoreAttributes
         \/ SetAttributes \/ FinishMutation \/ InvalidateParentAttr \/ InvalidateMutatedPath
         \/ FinishSetXattr \/ Access \/ Probe \/ ProbeAgain
  PROVE  Nearer(op', op)
<1>1. CASE CachedAttributes
  <2>1. op.pc = "targetKnown" /\ op' \in {DrainTo(op, Ended), Goto(op, "call")}
    BY <1>1 DEF CachedAttributes, At, Is
  <2>2. Heading(op') \in {Ended, "call"}
    BY <2>1, Headings, HeadingIdle DEF WalkPCs
  <2>3. QED BY <2>1, <2>2, HeadsOn, StepsLeftIs DEF Under, WalkPCs
<1>2. CASE GetAttributes
  <2>1. op.pc = "call"
    BY <1>2 DEF GetAttributes, At
  <2>2. \/ op' = DrainTo(op, Ended)
        \/ \E reply : op' = [DrainTo(op, "store") EXCEPT !.reply = reply]
    BY <1>2 DEF GetAttributes
  <2>3. ASSUME NEW reply, op' = [DrainTo(op, "store") EXCEPT !.reply = reply]
        PROVE  Heading(op') = "store"
    <3>1. op'.pc = "drain" /\ op'.next = "store"
      BY <2>3 DEF DrainTo, Ops
    <3>2. QED BY <3>1, HeadingInDrain
  <2>4. Heading(op') \in {Ended, "store"}
    BY <2>2, <2>3, Headings
  <2>5. QED BY <2>1, <2>4, HeadsOn, StepsLeftIs DEF Under, WalkPCs
<1>3. CASE StoreAttributes
  <2>1. op.pc = "store" /\ op' = IdleOp("drained")
    BY <1>3 DEF StoreAttributes, At, Is
  <2>2. Heading(op') = "idle"
    BY <2>1, Headings, HeadingIdle
  <2>3. QED BY <2>1, <2>2, HeadsOn, StepsLeftIs DEF Under, WalkPCs
<1>4. CASE SetAttributes
  <2>1. op.pc = "targetKnown" /\ op' \in {DrainTo(op, "mutated"), DrainTo(op, Ended), IdleOp("undrained")}
    BY <1>4 DEF SetAttributes, At, Is
  <2>2. Heading(op') \in {"mutated", Ended, "idle"}
    BY <2>1, Headings, HeadingIdle
  <2>3. QED BY <2>1, <2>2, HeadsOn, StepsLeftIs DEF Under, WalkPCs
<1>5. CASE FinishMutation
  <2>1. op.pc = "mutated" /\ \E key : op' = Resolve(op, key, "mtime")
    BY <1>5 DEF FinishMutation, At, Is
  <2>2. Heading(op') = "mtimeKnown"
    BY <2>1, Headings, HeadingIdle DEF Purposes, Known
  <2>3. QED BY <2>1, <2>2, HeadsOn, StepsLeftIs DEF Under, WalkPCs
<1>6. CASE InvalidateParentAttr
  <2>1. op.pc = "mtimeKnown" /\ op' = Goto(op, "forgetPath")
    BY <1>6 DEF InvalidateParentAttr, At, Is
  <2>2. Heading(op') = "forgetPath"
    BY <2>1, Headings, HeadingIdle DEF WalkPCs
  <2>3. QED BY <2>1, <2>2, HeadsOn, StepsLeftIs DEF Under, WalkPCs
<1>7. CASE InvalidateMutatedPath
  <2>1. op.pc = "forgetPath" /\ op' = IdleOp("drained")
    BY <1>7 DEF InvalidateMutatedPath, At, Is, InvalidatePathCache
  <2>2. Heading(op') = "idle"
    BY <2>1, Headings, HeadingIdle
  <2>3. QED BY <2>1, <2>2, HeadsOn, StepsLeftIs DEF Under, WalkPCs
<1>8. CASE FinishSetXattr
  <2>1. op.pc = "mutated" /\ op' = IdleOp("drained")
    BY <1>8 DEF FinishSetXattr, At, Is
  <2>2. Heading(op') = "idle"
    BY <2>1, Headings, HeadingIdle
  <2>3. QED BY <2>1, <2>2, HeadsOn, StepsLeftIs DEF Under, WalkPCs
<1>9. CASE Access
  <2>1. op.pc = "targetKnown" /\ op' \in {DrainTo(op, Ended), IdleOp("undrained")}
    BY <1>9 DEF Access, At, Is
  <2>2. Heading(op') \in {Ended, "idle"}
    BY <2>1, Headings, HeadingIdle
  <2>3. QED BY <2>1, <2>2, HeadsOn, StepsLeftIs DEF Under, WalkPCs
<1>10. CASE Probe
  <2>1. op.pc = "targetKnown" /\ op' \in {DrainTo(op, Ended), DrainTo(op, "call"), IdleOp("undrained")}
    BY <1>10 DEF Probe, At, Is
  <2>2. Heading(op') \in {Ended, "call", "idle"}
    BY <2>1, Headings, HeadingIdle
  <2>3. QED BY <2>1, <2>2, HeadsOn, StepsLeftIs DEF Under, WalkPCs
<1>11. CASE ProbeAgain
  <2>1. op.pc = "call" /\ op' = IdleOp("drained")
    BY <1>11 DEF ProbeAgain, At, Is
  <2>2. Heading(op') = "idle"
    BY <2>1, Headings, HeadingIdle
  <2>3. QED BY <2>1, <2>2, HeadsOn, StepsLeftIs DEF Under, WalkPCs
<1>12. QED BY <1>1, <1>2, <1>3, <1>4, <1>5, <1>6, <1>7, <1>8, <1>9, <1>10, <1>11

\* create_file and cleanup.
LEMMA EntriesNearer ==
  ASSUME op \in Ops,
         \/ OpenExisting \/ MakeEntry \/ FinishCreated \/ OpenCollision \/ OpenResolved
         \/ RemoveEntry \/ InvalidateRemovedPath \/ FinishRemoved
  PROVE  Nearer(op', op)
<1>1. CASE OpenExisting
  <2>1. op.pc = "parentKnown" /\ op' \in {IdleOp("undrained"), Resolve(op, op.path, "target")}
    BY <1>1 DEF OpenExisting, At, Is
  <2>2. Heading(op') \in {"idle", "targetKnown"}
    BY <2>1, Headings, HeadingIdle DEF Purposes, Known
  <2>3. QED BY <2>1, <2>2, HeadsOn, StepsLeftIs DEF Under, WalkPCs
<1>2. CASE MakeEntry
  <2>1. op.pc = "parentKnown"
    BY <1>2 DEF MakeEntry, At
  <2>2. \/ op' \in {DrainTo(op, "collided"), DrainTo(op, Ended)}
        \/ \E reply : op' = [DrainTo(op, "created") EXCEPT !.reply = reply]
    BY <1>2, Zenon DEF MakeEntry
  <2>3. ASSUME NEW reply, op' = [DrainTo(op, "created") EXCEPT !.reply = reply]
        PROVE  Heading(op') = "created"
    <3>1. op'.pc = "drain" /\ op'.next = "created"
      BY <2>3 DEF DrainTo, Ops
    <3>2. QED BY <3>1, HeadingInDrain
  <2>4. Heading(op') \in {"created", "collided", Ended}
    BY <2>2, <2>3, Headings
  <2>5. QED BY <2>1, <2>4, HeadsOn, StepsLeftIs DEF Under, WalkPCs
<1>3. CASE FinishCreated
  <2>1. op.pc = "created" /\ op' = [DrainTo(op, Ended) EXCEPT !.reply = NoReply, !.late = FALSE]
    BY <1>3 DEF FinishCreated, At, Is
  <2>2. op'.pc = "drain" /\ op'.next = Ended
    BY <2>1 DEF DrainTo, Ops
  <2>3. Heading(op') = Ended
    BY <2>2, HeadingInDrain
  <2>4. QED BY <2>1, <2>3, HeadsOn, StepsLeftIs DEF Under, WalkPCs
<1>4. CASE OpenCollision
  <2>1. op.pc = "collided" /\ op' = Resolve(op, op.path, "target")
    BY <1>4 DEF OpenCollision, At, Is, InvalidatePathCache
  <2>2. Heading(op') = "targetKnown"
    BY <2>1, Headings, HeadingIdle DEF Purposes, Known
  <2>3. QED BY <2>1, <2>2, HeadsOn, StepsLeftIs DEF Under, WalkPCs
<1>5. CASE OpenResolved
  <2>1. op.pc = "targetKnown" /\ op' = DrainTo(op, Ended)
    BY <1>5 DEF OpenResolved, At, Is
  <2>2. Heading(op') = Ended
    BY <2>1, Headings, HeadingIdle
  <2>3. QED BY <2>1, <2>2, HeadsOn, StepsLeftIs DEF Under, WalkPCs
<1>6. CASE RemoveEntry
  <2>1. op.pc = "parentKnown" /\ op' \in {DrainTo(op, "forgetPath"), DrainTo(op, Ended)}
    BY <1>6 DEF RemoveEntry, At, Is
  <2>2. Heading(op') \in {"forgetPath", Ended}
    BY <2>1, Headings, HeadingIdle
  <2>3. QED BY <2>1, <2>2, HeadsOn, StepsLeftIs DEF Under, WalkPCs
<1>7. CASE InvalidateRemovedPath
  <2>1. op.pc = "forgetPath" /\ op' = Goto(op, "touched")
    BY <1>7 DEF InvalidateRemovedPath, At, Is, InvalidatePathCache
  <2>2. Heading(op') = "touched"
    BY <2>1, Headings, HeadingIdle DEF WalkPCs
  <2>3. QED BY <2>1, <2>2, HeadsOn, StepsLeftIs DEF Under, WalkPCs
<1>8. CASE FinishRemoved
  <2>1. op.pc = "touched" /\ op' = IdleOp("drained")
    BY <1>8 DEF FinishRemoved, At, Is
  <2>2. Heading(op') = "idle"
    BY <2>1, Headings, HeadingIdle
  <2>3. QED BY <2>1, <2>2, HeadsOn, StepsLeftIs DEF Under, WalkPCs
<1>9. QED BY <1>1, <1>2, <1>3, <1>4, <1>5, <1>6, <1>7, <1>8

\* move_file.
LEMMA MoveNearer ==
  ASSUME op \in Ops,
         \/ ResolveNewParent \/ ResolveMoved \/ CheckClash \/ Clash \/ Rename
         \/ InvalidateMoved \/ InvalidateOldPath \/ InvalidateNewPath \/ FinishMoved
  PROVE  Nearer(op', op)
<1>1. CASE ResolveNewParent
  <2>1. op.pc = "parentKnown" /\ op' = Resolve(op, Parent(op.dest), "destParent")
    BY <1>1 DEF ResolveNewParent, At, Is
  <2>2. Heading(op') = "destParentKnown"
    BY <2>1, Headings, HeadingIdle DEF Purposes, Known
  <2>3. QED BY <2>1, <2>2, HeadsOn, StepsLeftIs DEF Under, WalkPCs
<1>2. CASE ResolveMoved
  <2>1. op.pc = "destParentKnown" /\ op' = ResolveContextOrPath(op, op.path)
    BY <1>2 DEF ResolveMoved, At, Is
  <2>2. Heading(op') = "targetKnown"
    BY <2>1, Headings, HeadingIdle
  <2>3. QED BY <2>1, <2>2, HeadsOn, StepsLeftIs DEF Under, WalkPCs
<1>3. CASE CheckClash
  <2>1. op.pc = "targetKnown" /\ op' \in {Goto(op, "call"), Resolve(op, op.dest, "clash")}
    BY <1>3 DEF CheckClash, At, Is
  <2>2. Heading(op') \in {"call", "clashKnown"}
    BY <2>1, Headings, HeadingIdle DEF Purposes, Known, WalkPCs
  <2>3. QED BY <2>1, <2>2, HeadsOn, StepsLeftIs DEF Under, WalkPCs
<1>4. CASE Clash
  <2>1. op.pc = "clashKnown" /\ op' = DrainTo(op, Ended)
    BY <1>4 DEF Clash, At, Is
  <2>2. Heading(op') = Ended
    BY <2>1, Headings, HeadingIdle
  <2>3. QED BY <2>1, <2>2, HeadsOn, StepsLeftIs DEF Under, WalkPCs
<1>5. CASE Rename
  <2>1. op.pc = "call" /\ op' \in {DrainTo(op, "renamed"), DrainTo(op, Ended)}
    BY <1>5 DEF Rename, At, Is
  <2>2. Heading(op') \in {"renamed", Ended}
    BY <2>1, Headings, HeadingIdle
  <2>3. QED BY <2>1, <2>2, HeadsOn, StepsLeftIs DEF Under, WalkPCs
<1>6. CASE InvalidateMoved
  <2>1. op.pc = "renamed" /\ op' = Goto(op, "forgetPath")
    BY <1>6 DEF InvalidateMoved, At, Is
  <2>2. Heading(op') = "forgetPath"
    BY <2>1, Headings, HeadingIdle DEF WalkPCs
  <2>3. QED BY <2>1, <2>2, HeadsOn, StepsLeftIs DEF Under, WalkPCs
<1>7. CASE InvalidateOldPath
  <2>1. op.pc = "forgetPath" /\ op' = Goto(op, "forgetDest")
    BY <1>7 DEF InvalidateOldPath, At, Is, InvalidatePathCache
  <2>2. Heading(op') = "forgetDest"
    BY <2>1, Headings, HeadingIdle DEF WalkPCs
  <2>3. QED BY <2>1, <2>2, HeadsOn, StepsLeftIs DEF Under, WalkPCs
<1>8. CASE InvalidateNewPath
  <2>1. op.pc = "forgetDest" /\ op' = Goto(op, "touched")
    BY <1>8 DEF InvalidateNewPath, At, Is, InvalidatePathCache
  <2>2. Heading(op') = "touched"
    BY <2>1, Headings, HeadingIdle DEF WalkPCs
  <2>3. QED BY <2>1, <2>2, HeadsOn, StepsLeftIs DEF Under, WalkPCs
<1>9. CASE FinishMoved
  <2>1. op.pc = "touched" /\ op' = IdleOp("drained")
    BY <1>9 DEF FinishMoved, At, Is
  <2>2. Heading(op') = "idle"
    BY <2>1, Headings, HeadingIdle
  <2>3. QED BY <2>1, <2>2, HeadsOn, StepsLeftIs DEF Under, WalkPCs
<1>10. QED BY <1>1, <1>2, <1>3, <1>4, <1>5, <1>6, <1>7, <1>8, <1>9

\* The step after a drain.
LEMMA DrainNearer ==
  ASSUME OpInv(op), Drain
  PROVE  Nearer(op', op)
<1>1. op.pc = "drain" /\ op \in Ops /\ op.next \in AfterDrain(op.kind)
  BY DEF Drain, At, OpInv, InOrder
<1>2. Under(op) /\ Heading(op) = op.next
  BY <1>1 DEF Under, Heading, WalkPCs
<1>3. op.next \notin WalkPCs \cup {"drain"}
  <2>1. op.kind \in RequestKinds \cup {"none"}
    BY <1>1, KindsKnown DEF Ops
  <2>2. QED BY <1>1, <2>1 DEF AfterDrain, WalkPCs, Ended, RequestKinds
<1>4. CASE op.next = Ended
  <2>1. op' = IdleOp("drained")
    BY <1>4 DEF Drain
  <2>2. ~Under(op') /\ op'.pc = "idle"
    BY <2>1, HeadingIdle, IdleSettled
  <2>3. QED BY <1>2, <1>4, <2>2, ComesTo, StepsLeftIs
<1>5. CASE op.next # Ended
  <2>1. op' = [op EXCEPT !.pc = op.next, !.next = "idle"]
    BY <1>5 DEF Drain
  <2>2. op'.pc = op.next
    BY <1>1, <2>1 DEF Ops
  <2>3. ~Under(op')
    BY <1>3, <2>2 DEF Under
  <2>4. StepsLeft(op'.pc) <= StepsLeft(Heading(op))
    BY <1>2, <2>2, StepsLeftRange
  <2>5. QED BY <1>2, <2>3, <2>4, ComesTo
<1>6. QED BY <1>4, <1>5

\* Whatever happens between two steps leaves the handler where it is.
LEMMA OthersKeepDistance ==
  ASSUME op \in Ops, FsStep \/ Notifier \/ Time
  PROVE  Stage(op') = Stage(op) /\ WalkLeft(op') = WalkLeft(op)
<1>1. op' = op \/ \E late : op' = [op EXCEPT !.late = late]
  <2>1. CASE FsStep
    <3>1. \E f, due : Change(f, due)
      BY <2>1, Zenon DEF FsStep, FsTouches, FsMakes, FsRemoves, FsMoves
    <3>2. QED BY <3>1 DEF Change
  <2>2. CASE Notifier
    BY <2>2, Zenon DEF Notifier, Notify, InvalInode, InvalEntry
  <2>3. CASE Time
    BY <2>3 DEF Time, EntryExpires, AttrExpires
  <2>4. QED BY <2>1, <2>2, <2>3
<1>2. op'.pc = op.pc /\ op'.next = op.next /\ op'.walk = op.walk
  <2>1. CASE op' = op
    BY <2>1
  <2>2. ASSUME NEW late, op' = [op EXCEPT !.late = late]
        PROVE  op'.pc = op.pc /\ op'.next = op.next /\ op'.walk = op.walk
    BY <2>2 DEF Ops
  <2>3. QED BY <1>1, <2>1, <2>2
<1>3. QED BY <1>2, SameDistance

\* Every step of a handler brings the end of its request nearer, by a distance
\* that cannot fall for ever, and nothing that happens in between takes the end
\* further away: so a request ends after finitely many steps of its handler,
\* whatever the file system answers and announces, and however long the paths.
THEOREM RequestsComeToAnEnd == Spec => []DistanceFinite /\ RequestsShorten
<1>1. IInv => DistanceFinite
  BY DistanceRange DEF IInv, Typed, DistanceFinite
<1>2. ASSUME IInv, [Next]_vars
      PROVE  [/\ HandlerStep => Nearer(op', op)
              /\ ~HandlerStep /\ ~AtRest =>
                   Stage(op') = Stage(op) /\ WalkLeft(op') = WalkLeft(op)]_vars
  <2>1. OpInv(op) /\ op \in Ops
    BY <1>2 DEF IInv, Typed, OpInv
  <2>2. ASSUME HandlerStep
        PROVE  Nearer(op', op)
    BY <2>1, <2>2, WalkNearer, DrainNearer, OnFileNearer, EntriesNearer, MoveNearer
    DEF HandlerStep
  <2>3. ASSUME ~HandlerStep, ~AtRest, Next
        PROVE  Stage(op') = Stage(op) /\ WalkLeft(op') = WalkLeft(op)
    <3>1. ~Arrival
      BY <2>3 DEF AtRest, At, Arrival, RequestOnFile, CreateFile, CleanupDelete,
                  MoveFile, Begin
    <3>2. QED BY <2>1, <2>3, <3>1, OthersKeepDistance DEF Next
  <2>4. QED BY <1>2, <2>2, <2>3
<1>3. QED BY <1>1, <1>2, Invariance, PTL DEF Spec, RequestsShorten

=============================================================================
