---------------------------- MODULE ResolverState ----------------------------
(***************************************************************************)
(* The PathResolver of src/dokan_impl/adapter/state.rs as operators on its *)
(* state: the cache from Windows paths to inodes, the table of inodes with *)
(* the lookups the adapter holds on them, and the queue of forgets that    *)
(* still have to be delivered to the file system.                          *)
(*                                                                         *)
(* Every method of the Rust type runs under the resolver mutex, so a       *)
(* method is one operator from a resolver record to a resolver record.     *)
(*                                                                         *)
(* Abstractions.  A path is already normalised: it is a key, the sequence  *)
(* of its case-folded names, <<>> being "\".  Time is a flag: an entry or  *)
(* an attribute is live until an Expire step says that its instant has     *)
(* passed.  The attribute kept beside attr_expires = None is never read    *)
(* and is not represented.  pending_forgets is a bag.                      *)
(***************************************************************************)
EXTENDS Integers, Sequences, FiniteSets

CONSTANTS
  Keys,         \* the normalised paths, a finite set of sequences of names
  Names,        \* case-folded path components
  Inodes,       \* inode numbers
  Generations,  \* generations of an inode number; 0 is the default one
  Attrs         \* what the file system may report as attributes

Root == << >>        \* the key "\"
NoAttr == "none"     \* attr_expires = None
StaleAttr == "stale" \* attr_expires is Some instant that has passed

ASSUME ConstantsAssumption ==
  /\ Keys \subseteq Seq(Names)
  /\ Generations \subseteq Nat /\ 0 \in Generations
  /\ Attrs \cap {NoAttr, StaleAttr} = {}

-----------------------------------------------------------------------------
(* State *)

Absent == [kind |-> "absent"]

PositiveEntry ==
  [kind : {"positive"}, parent : Inodes, parentGen : Generations, name : Names,
   ino : Inodes, gen : Generations, live : BOOLEAN, outstanding : [Inodes -> Nat]]

NegativeEntry ==
  [kind : {"negative"}, parent : Inodes, parentGen : Generations, name : Names,
   live : BOOLEAN]

PathEntry == PositiveEntry \cup NegativeEntry \cup {Absent}

InodeState ==
  [tracked : BOOLEAN, attr : Attrs \cup {NoAttr, StaleAttr}, gen : Generations,
   refcount : Nat]

Untracked == [tracked |-> FALSE, attr |-> NoAttr, gen |-> 0, refcount |-> 0]

Resolver ==
  [paths : [Keys -> PathEntry], inodes : [Inodes -> InodeState],
   pending : [Inodes -> Nat], negativeTtl : BOOLEAN]

EmptyResolver(negativeTtl) ==
  [paths |-> [k \in Keys |-> Absent], inodes |-> [i \in Inodes |-> Untracked],
   pending |-> [i \in Inodes |-> 0], negativeTtl |-> negativeTtl]

NoForgets == [i \in Inodes |-> 0]

IsPositive(e) == e.kind = "positive"
IsPresent(e) == e.kind # "absent"
PositiveKeys(r) == {k \in Keys : IsPositive(r.paths[k])}

(* The lookups on i that the entries of K hold, one token for each.  A     *)
(* count over several entries is the cardinality of such a set.            *)
RefsIn(r, K, i) ==
  UNION {{k} \X (1 .. r.paths[k].outstanding[i]) : k \in K \cap PositiveKeys(r)}
Refs(r, i) == RefsIn(r, Keys, i)

-----------------------------------------------------------------------------
(* Helpers private to the type *)

\* retain_live_inodes: only inodes with a lookup or a live attribute stay.
Retain(r) ==
  [r EXCEPT !.inodes = [i \in Inodes |->
     IF r.inodes[i].refcount > 0 \/ r.inodes[i].attr \in Attrs
       THEN r.inodes[i] ELSE Untracked]]

Remove(r, K) ==
  [r EXCEPT !.paths = [k \in Keys |-> IF k \in K THEN Absent ELSE r.paths[k]]]

Lesser(m, n) == IF m <= n THEN m ELSE n

\* What release_outstanding takes off the refcount of i for the entries K.
Released(r, K, i) ==
  Lesser(r.inodes[i].refcount, Cardinality(RefsIn(r, K, i)))

\* Mutant: the refcount is lowered once by the caller and once more here.
ReleaseTwice(r, K) ==
  [paths |-> Remove(r, K).paths,
   inodes |-> [i \in Inodes |->
      [r.inodes[i] EXCEPT !.refcount = @ - 2 * Released(r, K, i)]],
   pending |-> [i \in Inodes |-> r.pending[i] + Released(r, K, i)],
   negativeTtl |-> r.negativeTtl]

\* Take the entries K out of the cache and give up the lookups they hold
\* (paths.remove followed by release_outstanding).
Release(r, K) ==
  Retain([paths |-> Remove(r, K).paths,
          inodes |-> [i \in Inodes |->
             [r.inodes[i] EXCEPT !.refcount = @ - Released(r, K, i)]],
          pending |-> [i \in Inodes |-> r.pending[i] + Released(r, K, i)],
          negativeTtl |-> r.negativeTtl])

\* attr_expires = None for every inode that an entry of K holds lookups on.
DropAttrsOf(r, K) ==
  [r EXCEPT !.inodes = [i \in Inodes |->
     IF RefsIn(r, K, i) # {} THEN [r.inodes[i] EXCEPT !.attr = NoAttr]
                             ELSE r.inodes[i]]]

\* invalidate_matching.  The forgets it hands back are r'.pending: see Taken.
InvalidateKeys(r, K) == Release(DropAttrsOf(r, K), K)

\* Mutant: the queue is copied, not taken.
TakenByCopy(r) == r

\* take_pending_forgets: the caller gets r.pending, the queue is left empty.
Taken(r) == [r EXCEPT !.pending = NoForgets]

-----------------------------------------------------------------------------
(* Methods *)

\* Mutant: the generation of the parent is not compared.
MatchesNumber(e, parent, parentGen) == e.parent = parent
Matches(e, parent, parentGen) == e.parent = parent /\ e.parentGen = parentGen

\* cached: the answer.  A live positive entry of an inode that is not in the
\* table is a miss, and stays.
CachedAnswer(r, k, parent, parentGen) ==
  LET e == r.paths[k] IN
  CASE \/ k = Root \/ ~IsPresent(e)       -> [found |-> "miss"]
    [] k # Root /\ e.kind = "positive"    ->
         IF e.live /\ Matches(e, parent, parentGen) /\ r.inodes[e.ino].tracked
           THEN [found |-> "hit", ino |-> e.ino, gen |-> e.gen]
           ELSE [found |-> "miss"]
    [] k # Root /\ e.kind = "negative"    ->
         IF e.live /\ Matches(e, parent, parentGen)
           THEN [found |-> "ENOENT"] ELSE [found |-> "miss"]

\* cached: an entry that has expired, or was made under another parent, goes.
Cached(r, k, parent, parentGen) ==
  LET e == r.paths[k] IN
  IF k = Root \/ ~IsPresent(e) \/ (e.live /\ Matches(e, parent, parentGen))
    THEN r
    ELSE IF IsPositive(e) THEN Release(r, {k}) ELSE Remove(r, {k})

\* Mutant of the test: any positive entry hands its lookups on.
ReusableByAny(r, k, ino, cacheable) == IsPositive(r.paths[k]) /\ cacheable

\* Mutant: the lookups of the entry that goes are not released.
TakeUnreleased(r, k, ino, cacheable) == Remove(r, {k})

\* take_reusable_outstanding: the entry k goes; its lookups are kept for the
\* new entry when that one names the same inode and will be cached.
Reusable(r, k, ino, cacheable) ==
  IsPositive(r.paths[k]) /\ r.paths[k].ino = ino /\ cacheable

ReusedLookups(r, k, ino, cacheable) ==
  IF Reusable(r, k, ino, cacheable) THEN r.paths[k].outstanding ELSE NoForgets

TakeReusable(r, k, ino, cacheable) ==
  IF IsPositive(r.paths[k]) /\ ~Reusable(r, k, ino, cacheable)
    THEN Release(r, {k}) ELSE Remove(r, {k})

\* remember_positive for an entry the file system granted one lookup on.
\* cacheable is "the ttl is not zero"; without it the lookup is owed at once.
RememberPositive(r, k, parent, parentGen, name, ino, gen, cacheable) ==
  LET kept  == ReusedLookups(r, k, ino, cacheable)
      taken == TakeReusable(r, k, ino, cacheable)
  IN IF cacheable
     THEN [paths |-> [taken.paths EXCEPT ![k] =
             [kind |-> "positive", parent |-> parent, parentGen |-> parentGen,
              name |-> name, ino |-> ino, gen |-> gen, live |-> TRUE,
              outstanding |-> [kept EXCEPT ![ino] = @ + 1]]],
           inodes |-> [taken.inodes EXCEPT ![ino] =
             [tracked |-> TRUE, attr |-> taken.inodes[ino].attr, gen |-> gen,
              refcount |-> taken.inodes[ino].refcount + 1]],
           pending |-> taken.pending,
           negativeTtl |-> taken.negativeTtl]
     ELSE Retain([taken EXCEPT !.pending[ino] = @ + 1])

\* remember_negative: a positive entry at k gives up its lookups and the
\* attributes of the inode they are on.
RememberNegative(r, k, parent, parentGen, name) ==
  LET gone == IF IsPositive(r.paths[k]) THEN InvalidateKeys(r, {k})
                                        ELSE Remove(r, {k})
  IN IF r.negativeTtl
     THEN [gone EXCEPT !.paths[k] = [kind |-> "negative", parent |-> parent,
                          parentGen |-> parentGen, name |-> name, live |-> TRUE]]
     ELSE gone

\* remember_attr, for a reply whose ttl is zero and for one whose is not.
ForgetAttr(r, ino) == [r EXCEPT !.inodes[ino] = [@ EXCEPT !.attr = NoAttr]]
RememberAttr(r, ino, attr) ==
  [r EXCEPT !.inodes[ino] = [@ EXCEPT !.tracked = TRUE, !.attr = attr]]

\* cached_attr: the answer, NoAttr for a miss, and what a miss leaves behind.
CachedAttrAnswer(r, ino) ==
  IF r.inodes[ino].attr \in Attrs THEN r.inodes[ino].attr ELSE NoAttr
CachedAttr(r, ino) ==
  IF ~r.inodes[ino].tracked \/ r.inodes[ino].attr \in Attrs
    THEN r ELSE Retain(ForgetAttr(r, ino))

InvalidateInodeAttr(r, ino) == Retain(ForgetAttr(r, ino))

\* invalidate_subtree: the entries at and below a path.
Subtree(k) == {c \in Keys : Len(k) <= Len(c) /\ SubSeq(c, 1, Len(k)) = k}
InvalidateSubtree(r, k) == InvalidateKeys(r, Subtree(k))

\* Mutant of the selection: positive entries only.
PositiveEntriesNamed(r, parent, name) ==
  {k \in PositiveKeys(r) : r.paths[k].parent = parent /\ r.paths[k].name = name}

\* invalidate_entry_from_notify and invalidate_entry: the entries, positive
\* and negative, recorded under this parent and name.
EntriesNamed(r, parent, name) ==
  {k \in Keys : /\ IsPresent(r.paths[k])
                /\ r.paths[k].parent = parent /\ r.paths[k].name = name}
InvalidateEntry(r, parent, name) ==
  InvalidateKeys(r, EntriesNamed(r, parent, name))

\* reap_expired; the forgets handed back are again the pending ones.
ExpiredKeys(r) == {k \in Keys : IsPresent(r.paths[k]) /\ ~r.paths[k].live}
\* Mutant: expired entries are dropped without a release.
ReapUnreleased(r) == Remove(r, ExpiredKeys(r))

ReapExpired(r) ==
  IF \E k \in ExpiredKeys(r) : IsPositive(r.paths[k])
    THEN Release(r, ExpiredKeys(r)) ELSE Remove(r, ExpiredKeys(r))

GenerationFor(r, ino) == r.inodes[ino].gen

-----------------------------------------------------------------------------
(* The passing of time *)

ExpireEntry(r, k) == [r EXCEPT !.paths[k].live = FALSE]
ExpireAttr(r, ino) == [r EXCEPT !.inodes[ino] = [@ EXCEPT !.attr = StaleAttr]]

-----------------------------------------------------------------------------
(* The invariant of the record.  It relates the three parts of a resolver  *)
(* to each other and is kept by every method.  Without its last conjunct a *)
(* release of an entry could take lookups off an inode the entry does not  *)
(* name, and without the one before a release could find no inode to take  *)
(* them off.                                                               *)
ResolverInv(r) ==
  /\ r \in Resolver
  /\ \A i \in Inodes : IsFiniteSet(Refs(r, i))
  /\ \A i \in Inodes : r.inodes[i].refcount = Cardinality(Refs(r, i))
  /\ \A i \in Inodes : r.inodes[i].refcount > 0 => r.inodes[i].tracked
  /\ \A k \in PositiveKeys(r) : \A i \in Inodes :
       (r.paths[k].outstanding[i] > 0) <=> (r.paths[k].ino = i)

=============================================================================
