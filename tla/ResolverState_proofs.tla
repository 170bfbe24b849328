-------------------------- MODULE ResolverState_proofs --------------------------
(***************************************************************************)
(* Lemmas about the resolver record that hold for any of its users.  Owed  *)
(* is what the adapter can still return to the file system for an inode:   *)
(* the lookups its cache holds and those queued to be forgotten.  Every    *)
(* method keeps ResolverInv and moves lookups between these two; a grant   *)
(* adds one to Owed, a queue that is taken takes off what was in it.       *)
(***************************************************************************)
EXTENDS ResolverState, FiniteSetTheorems, TLAPS

Owed(r, i) == Cardinality(Refs(r, i)) + r.pending[i]

\* An entry is positive, negative or absent, by its kind.
LEMMA EntryKinds ==
  ASSUME NEW e \in PathEntry
  PROVE  /\ IsPositive(e) => e \in PositiveEntry
         /\ e.kind = "negative" => e \in NegativeEntry
         /\ ~IsPresent(e) => e = Absent
BY DEF PathEntry, PositiveEntry, NegativeEntry, Absent, IsPositive, IsPresent

\* The tokens of RefsIn, one for each lookup an entry of K holds on i.
LEMMA RefsInElements ==
  ASSUME NEW r, NEW K, NEW i, NEW t
  PROVE  t \in RefsIn(r, K, i) <=>
           \E k \in K \cap PositiveKeys(r) :
             \E n \in 1 .. r.paths[k].outstanding[i] : t = <<k, n>>
BY DEF RefsIn

\* The same for the whole cache.
LEMMA RefsElements ==
  ASSUME NEW r, NEW i, NEW t
  PROVE  t \in Refs(r, i) <=>
           \E k \in PositiveKeys(r) :
             \E n \in 1 .. r.paths[k].outstanding[i] : t = <<k, n>>
BY RefsInElements DEF Refs, PositiveKeys

\* The lookups some entries hold are among those the cache holds.
LEMMA RefsSplit ==
  ASSUME NEW r, NEW K \in SUBSET Keys, NEW i
  PROVE  RefsIn(r, K, i) \subseteq Refs(r, i)
BY DEF RefsIn, Refs

\* Removing entries from the cache removes their tokens and no others.
LEMMA RefsAfterRemoval ==
  ASSUME NEW r, NEW q, NEW K \in SUBSET Keys, NEW i,
         q.paths = [k \in Keys |-> IF k \in K THEN Absent ELSE r.paths[k]]
  PROVE  Refs(q, i) = Refs(r, i) \ RefsIn(r, K, i)
<1>1. PositiveKeys(q) = PositiveKeys(r) \ K
  BY DEF PositiveKeys, IsPositive, Absent
<1>2. \A k \in Keys \ K : q.paths[k] = r.paths[k]
  OBVIOUS
<1>3. ASSUME NEW t PROVE t \in Refs(q, i) <=> t \in Refs(r, i) \ RefsIn(r, K, i)
  <2>1. t \in Refs(q, i) <=> \E k \in PositiveKeys(r) \ K :
             \E n \in 1 .. r.paths[k].outstanding[i] : t = <<k, n>>
    BY <1>1, <1>2, RefsInElements DEF Refs, PositiveKeys
  <2>2. t \in Refs(r, i) <=> \E k \in PositiveKeys(r) :
             \E n \in 1 .. r.paths[k].outstanding[i] : t = <<k, n>>
    BY RefsInElements DEF Refs, PositiveKeys
  <2>3. t \in RefsIn(r, K, i) <=> \E k \in PositiveKeys(r) \cap K :
             \E n \in 1 .. r.paths[k].outstanding[i] : t = <<k, n>>
    BY RefsInElements DEF PositiveKeys
  <2>4. QED BY <2>1, <2>2, <2>3
<1>4. QED BY <1>3

\* The tokens depend on the entries only.
LEMMA SamePathsSameRefs ==
  ASSUME NEW r, NEW q, q.paths = r.paths
  PROVE  \A K, i : RefsIn(q, K, i) = RefsIn(r, K, i) /\ Refs(q, i) = Refs(r, i)
BY DEF RefsIn, Refs, PositiveKeys

\* A method that touches neither the entries nor a refcount, and keeps the
\* inodes that are held in the table, keeps the invariant.
LEMMA InodesOnly ==
  ASSUME NEW r, ResolverInv(r), NEW q, q \in Resolver,
         q.paths = r.paths, q.negativeTtl = r.negativeTtl,
         \A i \in Inodes : q.inodes[i].refcount = r.inodes[i].refcount,
         \A i \in Inodes : q.inodes[i].refcount > 0 => q.inodes[i].tracked
  PROVE  /\ ResolverInv(q)
         /\ \A i \in Inodes : Refs(q, i) = Refs(r, i)
BY SamePathsSameRefs DEF ResolverInv, PositiveKeys

\* retain_live_inodes drops no inode that an entry holds a lookup on.
LEMMA RetainInv ==
  ASSUME NEW r, ResolverInv(r)
  PROVE  /\ ResolverInv(Retain(r))
         /\ Retain(r).paths = r.paths
         /\ Retain(r).pending = r.pending
         /\ Retain(r).negativeTtl = r.negativeTtl
         /\ \A i \in Inodes : Refs(Retain(r), i) = Refs(r, i)
<1> DEFINE q == Retain(r)
<1>1. /\ q.paths = r.paths /\ q.pending = r.pending
      /\ q.negativeTtl = r.negativeTtl
      /\ q.inodes = [i \in Inodes |->
           IF r.inodes[i].refcount > 0 \/ r.inodes[i].attr \in Attrs
             THEN r.inodes[i] ELSE Untracked]
  BY DEF Retain, ResolverInv, Resolver
<1>2. Untracked \in InodeState
  BY ConstantsAssumption DEF Untracked, InodeState
<1>3. q \in Resolver
  BY <1>1, <1>2 DEF ResolverInv, Resolver, Retain
<1>4. \A i \in Inodes : /\ q.inodes[i].refcount = r.inodes[i].refcount
                        /\ q.inodes[i].refcount > 0 => q.inodes[i].tracked
  BY <1>1 DEF ResolverInv, Resolver, InodeState, Untracked
<1>5. QED BY <1>1, <1>3, <1>4, InodesOnly

\* release_outstanding can take off a refcount all that the entries held: the
\* minimum it computes is never the refcount itself unless the two are equal.
LEMMA ReleasedCount ==
  ASSUME NEW r, ResolverInv(r), NEW K \in SUBSET Keys, NEW i \in Inodes
  PROVE  /\ IsFiniteSet(RefsIn(r, K, i))
         /\ Cardinality(RefsIn(r, K, i)) \in Nat
         /\ Released(r, K, i) = Cardinality(RefsIn(r, K, i))
         /\ IsFiniteSet(Refs(r, i) \ RefsIn(r, K, i))
         /\ Cardinality(Refs(r, i)) \in Nat
         /\ Cardinality(Refs(r, i) \ RefsIn(r, K, i))
              = Cardinality(Refs(r, i)) - Cardinality(RefsIn(r, K, i))
         /\ Cardinality(RefsIn(r, K, i)) <= Cardinality(Refs(r, i))
<1>1. IsFiniteSet(Refs(r, i)) /\ r.inodes[i].refcount = Cardinality(Refs(r, i))
  BY DEF ResolverInv
<1>2. RefsIn(r, K, i) \in SUBSET Refs(r, i)
  BY RefsSplit
<1>3. /\ IsFiniteSet(RefsIn(r, K, i))
      /\ Cardinality(RefsIn(r, K, i)) <= Cardinality(Refs(r, i))
  BY <1>1, <1>2, FS_Subset
<1>4. Cardinality(RefsIn(r, K, i)) \in Nat /\ Cardinality(Refs(r, i)) \in Nat
  BY <1>1, <1>3, FS_CardinalityType
<1>5. /\ IsFiniteSet(Refs(r, i) \ RefsIn(r, K, i))
      /\ Cardinality(Refs(r, i) \ RefsIn(r, K, i))
           = Cardinality(Refs(r, i)) - Cardinality(Refs(r, i) \cap RefsIn(r, K, i))
  BY <1>1, FS_Difference
<1>6. Refs(r, i) \cap RefsIn(r, K, i) = RefsIn(r, K, i)
  BY <1>2
<1>7. Released(r, K, i) = Cardinality(RefsIn(r, K, i))
  <2> DEFINE n == Cardinality(RefsIn(r, K, i))
             m == Cardinality(Refs(r, i))
  <2>1. Released(r, K, i) = Lesser(m, n)
    BY <1>1 DEF Released
  <2>2. n <= m
    BY <1>3
  <2>3. Lesser(m, n) = n
    <3> HIDE DEF n, m
    <3>1. m \in Nat /\ n \in Nat
      BY <1>4 DEF m, n
    <3>2. QED BY <2>2, <3>1 DEF Lesser
  <2>4. QED BY <2>1, <2>3
<1>8. QED BY <1>3, <1>4, <1>5, <1>6, <1>7

\* Giving up the lookups of some entries moves them from the cache to the
\* queue of forgets: the sum of the two does not change.
LEMMA ReleaseInv ==
  ASSUME NEW r, ResolverInv(r), NEW K \in SUBSET Keys
  PROVE  /\ ResolverInv(Release(r, K))
         /\ Release(r, K).paths =
              [k \in Keys |-> IF k \in K THEN Absent ELSE r.paths[k]]
         /\ Release(r, K).negativeTtl = r.negativeTtl
         /\ \A i \in Inodes : Owed(Release(r, K), i) = Owed(r, i)
<1> DEFINE q ==
      [paths |-> Remove(r, K).paths,
       inodes |-> [i \in Inodes |->
          [r.inodes[i] EXCEPT !.refcount = @ - Released(r, K, i)]],
       pending |-> [i \in Inodes |-> r.pending[i] + Released(r, K, i)],
       negativeTtl |-> r.negativeTtl]
<1>0. r \in Resolver /\ r.paths \in [Keys -> PathEntry]
  BY DEF ResolverInv, Resolver
<1>1. /\ q.paths = [k \in Keys |-> IF k \in K THEN Absent ELSE r.paths[k]]
      /\ q.inodes = [i \in Inodes |->
           [r.inodes[i] EXCEPT !.refcount = @ - Released(r, K, i)]]
      /\ q.pending = [i \in Inodes |-> r.pending[i] + Released(r, K, i)]
      /\ q.negativeTtl = r.negativeTtl
      /\ q = [paths |-> q.paths, inodes |-> q.inodes, pending |-> q.pending,
              negativeTtl |-> q.negativeTtl]
  BY <1>0 DEF Remove, Resolver
<1>9. Release(r, K) = Retain(q)
  BY DEF Release
<1> HIDE DEF q
<1>2. ASSUME NEW i \in Inodes
      PROVE  Refs(q, i) = Refs(r, i) \ RefsIn(r, K, i)
  BY <1>1, RefsAfterRemoval
<1>3. ASSUME NEW i \in Inodes
      PROVE  /\ IsFiniteSet(Refs(q, i))
             /\ q.inodes[i].refcount = Cardinality(Refs(q, i))
             /\ q.inodes[i] \in InodeState
             /\ q.inodes[i].refcount > 0 => q.inodes[i].tracked
             /\ q.pending[i] \in Nat
             /\ Owed(q, i) = Owed(r, i)
  <2>1. r.inodes[i] \in InodeState /\ r.pending[i] \in Nat
    BY <1>0 DEF Resolver
  <2>2. /\ q.inodes[i] = [r.inodes[i] EXCEPT !.refcount = @ - Released(r, K, i)]
        /\ q.pending[i] = r.pending[i] + Released(r, K, i)
    BY <1>1
  <2>3. r.inodes[i].refcount > 0 => r.inodes[i].tracked
    BY DEF ResolverInv
  <2>4. r.inodes[i].refcount = Cardinality(Refs(r, i))
    BY DEF ResolverInv
  <2>5. /\ q.inodes[i].refcount = r.inodes[i].refcount - Released(r, K, i)
        /\ q.inodes[i].tracked = r.inodes[i].tracked
        /\ q.inodes[i] = [tracked |-> q.inodes[i].tracked, attr |-> r.inodes[i].attr,
             gen |-> r.inodes[i].gen, refcount |-> q.inodes[i].refcount]
    BY <2>1, <2>2 DEF InodeState
  <2> DEFINE m == Cardinality(Refs(r, i))
             n == Cardinality(RefsIn(r, K, i))
  <2>6. /\ m \in Nat /\ n \in Nat /\ n <= m
        /\ Released(r, K, i) = n
        /\ IsFiniteSet(Refs(r, i) \ RefsIn(r, K, i))
        /\ Cardinality(Refs(r, i) \ RefsIn(r, K, i)) = m - n
    BY ReleasedCount
  <2>7. /\ IsFiniteSet(Refs(q, i)) /\ Cardinality(Refs(q, i)) = m - n
        /\ q.inodes[i].refcount = m - n
        /\ q.pending[i] = r.pending[i] + n
    BY <1>2, <2>2, <2>4, <2>5, <2>6
  <2> HIDE DEF m, n
  <2>8. q.inodes[i].refcount \in Nat /\ q.pending[i] \in Nat
    BY <2>1, <2>6, <2>7
  <2>9. q.inodes[i] \in InodeState
    BY <2>1, <2>5, <2>8 DEF InodeState
  <2>10. q.inodes[i].refcount > 0 => q.inodes[i].tracked
    BY <2>3, <2>4, <2>5, <2>6, <2>7 DEF m
  <2>11. Owed(q, i) = Owed(r, i)
    BY <2>1, <2>6, <2>7 DEF Owed, m
  <2>12. QED
    BY <2>7, <2>8, <2>9, <2>10, <2>11
<1>4. q.paths \in [Keys -> PathEntry]
  BY <1>0, <1>1 DEF PathEntry
<1>5. q \in Resolver
  <2>1. q.inodes \in [Inodes -> InodeState] /\ q.pending \in [Inodes -> Nat]
    BY <1>1, <1>3
  <2>2. r.negativeTtl \in BOOLEAN
    BY <1>0 DEF Resolver
  <2>3. QED BY <1>1, <1>4, <2>1, <2>2 DEF Resolver
<1>6. \A k \in PositiveKeys(q) : \A i \in Inodes :
        (q.paths[k].outstanding[i] > 0) <=> (q.paths[k].ino = i)
  BY <1>1 DEF ResolverInv, PositiveKeys, IsPositive, Absent
<1>8. ResolverInv(q)
  BY <1>3, <1>5, <1>6 DEF ResolverInv
<1>10. QED BY <1>1, <1>3, <1>8, <1>9, RetainInv DEF Owed

-----------------------------------------------------------------------------
(* Helpers: entries that hold no lookup, and attributes *)

\* Negative and absent entries hold no lookups.
LEMMA NonPositiveHoldNothing ==
  ASSUME NEW r, NEW K, K \cap PositiveKeys(r) = {}, NEW i
  PROVE  RefsIn(r, K, i) = {}
BY DEF RefsIn

\* Replacing entries that are not positive by entries that are not positive
\* leaves every count alone.
LEMMA RewriteNonPositive ==
  ASSUME NEW r, ResolverInv(r), NEW q, q \in Resolver,
         q.inodes = r.inodes, q.pending = r.pending, q.negativeTtl = r.negativeTtl,
         \A k \in Keys : \/ q.paths[k] = r.paths[k]
                         \/ ~IsPositive(q.paths[k]) /\ ~IsPositive(r.paths[k])
  PROVE  /\ ResolverInv(q)
         /\ \A i \in Inodes : Owed(q, i) = Owed(r, i)
<1>1. PositiveKeys(q) = PositiveKeys(r)
  BY DEF PositiveKeys
<1>2. \A k \in PositiveKeys(r) : q.paths[k] = r.paths[k]
  BY DEF PositiveKeys
<1>3. ASSUME NEW i PROVE Refs(q, i) = Refs(r, i)
  <2>1. \A t : t \in Refs(q, i) <=> t \in Refs(r, i)
    BY <1>1, <1>2, RefsInElements DEF Refs
  <2>2. QED BY <2>1
<1>4. QED BY <1>1, <1>2, <1>3 DEF ResolverInv, Owed

\* Removing entries writes the paths and nothing else.
LEMMA RemoveFields ==
  ASSUME NEW r, r \in Resolver, NEW K \in SUBSET Keys
  PROVE  /\ Remove(r, K) \in Resolver
         /\ Remove(r, K).paths =
              [k \in Keys |-> IF k \in K THEN Absent ELSE r.paths[k]]
         /\ Remove(r, K).inodes = r.inodes
         /\ Remove(r, K).pending = r.pending
         /\ Remove(r, K).negativeTtl = r.negativeTtl
BY DEF Remove, Resolver, PathEntry

\* Entries without lookups can be removed without a release.
LEMMA RemoveInv ==
  ASSUME NEW r, ResolverInv(r), NEW K \in SUBSET Keys, K \cap PositiveKeys(r) = {}
  PROVE  /\ ResolverInv(Remove(r, K))
         /\ \A i \in Inodes : Owed(Remove(r, K), i) = Owed(r, i)
<1> DEFINE q == Remove(r, K)
<1>1. r \in Resolver
  BY DEF ResolverInv
<1>2. /\ q \in Resolver /\ q.inodes = r.inodes /\ q.pending = r.pending
      /\ q.negativeTtl = r.negativeTtl
      /\ q.paths = [k \in Keys |-> IF k \in K THEN Absent ELSE r.paths[k]]
  BY <1>1, RemoveFields
<1> HIDE DEF q
<1>3. \A k \in Keys : \/ q.paths[k] = r.paths[k]
                      \/ ~IsPositive(q.paths[k]) /\ ~IsPositive(r.paths[k])
  BY <1>2 DEF PositiveKeys, IsPositive, Absent
<1>5. ResolverInv(q) /\ \A i \in Inodes : Owed(q, i) = Owed(r, i)
  BY <1>2, <1>3, RewriteNonPositive
<1>6. QED BY <1>5 DEF q

\* Writing the attribute part of the inode table.
LEMMA AttrWriteInv ==
  ASSUME NEW r, ResolverInv(r), NEW q,
         q.paths = r.paths, q.pending = r.pending, q.negativeTtl = r.negativeTtl,
         q = [paths |-> q.paths, inodes |-> q.inodes, pending |-> q.pending,
              negativeTtl |-> q.negativeTtl],
         q.inodes \in [Inodes -> InodeState],
         \A i \in Inodes : q.inodes[i].refcount = r.inodes[i].refcount,
         \A i \in Inodes : r.inodes[i].tracked => q.inodes[i].tracked
  PROVE  /\ ResolverInv(q)
         /\ \A i \in Inodes : Owed(q, i) = Owed(r, i) /\ Refs(q, i) = Refs(r, i)
<1>1. q \in Resolver
  BY DEF ResolverInv, Resolver
<1>2. \A i \in Inodes : q.inodes[i].refcount > 0 => q.inodes[i].tracked
  BY DEF ResolverInv
<1>3. QED BY <1>1, <1>2, InodesOnly DEF Owed

\* Dropping the attributes of the inodes of some entries counts nothing.
LEMMA DropAttrsInv ==
  ASSUME NEW r, ResolverInv(r), NEW K
  PROVE  /\ ResolverInv(DropAttrsOf(r, K))
         /\ DropAttrsOf(r, K).paths = r.paths
         /\ DropAttrsOf(r, K).negativeTtl = r.negativeTtl
         /\ \A i \in Inodes : Owed(DropAttrsOf(r, K), i) = Owed(r, i)
<1> DEFINE q == DropAttrsOf(r, K)
<1>1. r \in Resolver /\ r.inodes \in [Inodes -> InodeState]
  BY DEF ResolverInv, Resolver
<1>2. /\ q.paths = r.paths /\ q.pending = r.pending
      /\ q.negativeTtl = r.negativeTtl
      /\ q.inodes = [i \in Inodes |->
           IF RefsIn(r, K, i) # {} THEN [r.inodes[i] EXCEPT !.attr = NoAttr]
                                   ELSE r.inodes[i]]
      /\ q = [paths |-> q.paths, inodes |-> q.inodes, pending |-> q.pending,
              negativeTtl |-> q.negativeTtl]
  BY <1>1 DEF DropAttrsOf, Resolver
<1> HIDE DEF q
<1>3. ASSUME NEW i \in Inodes
      PROVE  /\ q.inodes[i] \in InodeState
             /\ q.inodes[i].refcount = r.inodes[i].refcount
             /\ q.inodes[i].tracked = r.inodes[i].tracked
  <2>1. r.inodes[i] \in InodeState
    BY <1>1
  <2>2. [r.inodes[i] EXCEPT !.attr = NoAttr] \in InodeState
    BY <2>1 DEF InodeState
  <2>3. /\ [r.inodes[i] EXCEPT !.attr = NoAttr].refcount = r.inodes[i].refcount
        /\ [r.inodes[i] EXCEPT !.attr = NoAttr].tracked = r.inodes[i].tracked
    BY <2>1 DEF InodeState
  <2>4. QED BY <1>2, <2>1, <2>2, <2>3
<1>4. q.inodes \in [Inodes -> InodeState]
  BY <1>2, <1>3
<1>5. ResolverInv(q) /\ \A i \in Inodes : Owed(q, i) = Owed(r, i)
  BY <1>2, <1>3, <1>4, AttrWriteInv
<1>6. QED BY <1>2, <1>5 DEF q

\* invalidate_matching, for any set of entries, only moves lookups to the queue.
LEMMA InvalidateInv ==
  ASSUME NEW r, ResolverInv(r), NEW K \in SUBSET Keys
  PROVE  /\ ResolverInv(InvalidateKeys(r, K))
         /\ InvalidateKeys(r, K).paths =
              [k \in Keys |-> IF k \in K THEN Absent ELSE r.paths[k]]
         /\ InvalidateKeys(r, K).negativeTtl = r.negativeTtl
         /\ \A i \in Inodes : Owed(InvalidateKeys(r, K), i) = Owed(r, i)
<1> DEFINE d == DropAttrsOf(r, K)
<1>1. /\ ResolverInv(d) /\ d.paths = r.paths /\ d.negativeTtl = r.negativeTtl
      /\ \A i \in Inodes : Owed(d, i) = Owed(r, i)
  BY DropAttrsInv
<1> HIDE DEF d
<1>2. /\ ResolverInv(Release(d, K))
      /\ Release(d, K).paths =
              [k \in Keys |-> IF k \in K THEN Absent ELSE d.paths[k]]
      /\ Release(d, K).negativeTtl = d.negativeTtl
      /\ \A i \in Inodes : Owed(Release(d, K), i) = Owed(d, i)
  BY <1>1, ReleaseInv
<1>3. InvalidateKeys(r, K) = Release(d, K)
  BY DEF InvalidateKeys, d
<1>4. QED BY <1>1, <1>2, <1>3

-----------------------------------------------------------------------------
(* Methods *)

\* cached: an entry that is evicted on the way gives its lookups to the queue.
LEMMA CachedInv ==
  ASSUME NEW r, ResolverInv(r), NEW k \in Keys, NEW parent, NEW parentGen
  PROVE  /\ ResolverInv(Cached(r, k, parent, parentGen))
         /\ \A i \in Inodes : Owed(Cached(r, k, parent, parentGen), i) = Owed(r, i)
<1>1. CASE IsPositive(r.paths[k])
  BY <1>1, ReleaseInv DEF Cached
<1>2. CASE ~IsPositive(r.paths[k])
  <2>1. {k} \in SUBSET Keys /\ {k} \cap PositiveKeys(r) = {}
    BY <1>2 DEF PositiveKeys
  <2>2. /\ ResolverInv(Remove(r, {k}))
        /\ \A i \in Inodes : Owed(Remove(r, {k}), i) = Owed(r, i)
    BY <2>1, RemoveInv
  <2>3. QED BY <1>2, <2>2 DEF Cached
<1>3. QED BY <1>1, <1>2

\* Adding one lookup on ino to the entry k: the set of tokens grows by one.
LEMMA AddLookup ==
  ASSUME NEW b, ResolverInv(b), NEW k \in Keys, NEW ino \in Inodes,
         IsPositive(b.paths[k]) => b.paths[k].ino = ino,
         NEW e \in PositiveEntry, e.ino = ino,
         NEW h, h = IF IsPositive(b.paths[k]) THEN b.paths[k].outstanding
                                              ELSE NoForgets,
         e.outstanding = [h EXCEPT ![ino] = @ + 1],
         NEW q, q \in Resolver, q.paths = [b.paths EXCEPT ![k] = e],
         q.negativeTtl = b.negativeTtl, q.pending = b.pending,
         q.inodes[ino].tracked,
         q.inodes[ino].refcount = b.inodes[ino].refcount + 1,
         \A i \in Inodes \ {ino} : q.inodes[i] = b.inodes[i]
  PROVE  /\ ResolverInv(q)
         /\ Owed(q, ino) = Owed(b, ino) + 1
         /\ \A i \in Inodes \ {ino} : Owed(q, i) = Owed(b, i)
<1>1. /\ b \in Resolver /\ b.paths \in [Keys -> PathEntry]
      /\ b.pending \in [Inodes -> Nat]
  BY DEF ResolverInv, Resolver
<1>2. IsPositive(b.paths[k]) => b.paths[k] \in PositiveEntry
  BY <1>1, EntryKinds
<1>3. h \in [Inodes -> Nat]
  BY <1>2 DEF PositiveEntry, NoForgets
<1>4. \A i \in Inodes : (h[i] > 0) => i = ino
  BY <1>2 DEF ResolverInv, PositiveKeys, NoForgets
<1>5. /\ e.outstanding[ino] = h[ino] + 1
      /\ \A i \in Inodes \ {ino} : e.outstanding[i] = h[i] /\ h[i] = 0
  BY <1>3, <1>4
<1>6. IsPositive(e)
  BY DEF PositiveEntry, IsPositive
<1>7. PositiveKeys(q) = PositiveKeys(b) \cup {k}
  BY <1>1, <1>6 DEF PositiveKeys
<1>8. /\ q.paths[k] = e
      /\ \A c \in Keys \ {k} : q.paths[c] = b.paths[c]
  BY <1>1
<1>9. \A t, i : t \in Refs(b, i) <=>
        \E c \in PositiveKeys(b) : \E n \in 1 .. b.paths[c].outstanding[i] :
          t = <<c, n>>
  BY ONLY RefsElements
<1>10. \A t, i : t \in Refs(q, i) <=>
        \E c \in PositiveKeys(q) : \E n \in 1 .. q.paths[c].outstanding[i] :
          t = <<c, n>>
  BY ONLY RefsElements
<1> DEFINE new == <<k, h[ino] + 1>>
<1>11. Refs(q, ino) = Refs(b, ino) \cup {new}
  <2>1. \A n : n \in 1 .. h[ino] + 1 <=> n \in 1 .. h[ino] \/ n = h[ino] + 1
    BY <1>3
  <2>2. ASSUME NEW t PROVE t \in Refs(q, ino) <=> t \in Refs(b, ino) \/ t = new
    <3>1. t \in Refs(q, ino) <=>
            \/ \E c \in PositiveKeys(b) \ {k} :
                 \E n \in 1 .. b.paths[c].outstanding[ino] : t = <<c, n>>
            \/ \E n \in 1 .. h[ino] + 1 : t = <<k, n>>
      <4>1. \A c \in PositiveKeys(b) \ {k} :
              q.paths[c].outstanding[ino] = b.paths[c].outstanding[ino]
        BY <1>8 DEF PositiveKeys
      <4>2. q.paths[k].outstanding[ino] = h[ino] + 1
        BY <1>5, <1>8
      <4>3. QED BY <1>7, <1>10, <4>1, <4>2
    <3>2. k \in PositiveKeys(b) => b.paths[k].outstanding = h
      BY DEF PositiveKeys
    <3>3. k \notin PositiveKeys(b) => 1 .. h[ino] = {}
      BY DEF PositiveKeys, NoForgets
    <3>4. t \in Refs(b, ino) <=>
            \/ \E c \in PositiveKeys(b) \ {k} :
                 \E n \in 1 .. b.paths[c].outstanding[ino] : t = <<c, n>>
            \/ \E n \in 1 .. h[ino] : t = <<k, n>>
      BY <1>9, <3>2, <3>3
    <3>5. QED BY <2>1, <3>1, <3>4
  <2>3. QED BY <2>2
<1>12. new \notin Refs(b, ino)
  <2>1. SUFFICES ASSUME new \in Refs(b, ino) PROVE FALSE
    OBVIOUS
  <2>2. k \in PositiveKeys(b) /\ h[ino] + 1 \in 1 .. b.paths[k].outstanding[ino]
    BY <1>9, <2>1
  <2>3. h[ino] + 1 \in 1 .. h[ino]
    BY <2>2 DEF PositiveKeys
  <2>4. QED BY <1>3, <2>3
<1>13. ASSUME NEW i \in Inodes \ {ino} PROVE Refs(q, i) = Refs(b, i)
  <2>1. 1 .. e.outstanding[i] = {}
    BY <1>5
  <2>2. k \in PositiveKeys(b) => 1 .. b.paths[k].outstanding[i] = {}
    BY <1>5 DEF PositiveKeys
  <2>3. \A c \in PositiveKeys(b) \ {k} :
          q.paths[c].outstanding[i] = b.paths[c].outstanding[i]
    BY <1>8 DEF PositiveKeys
  <2>4. 1 .. q.paths[k].outstanding[i] = {}
    BY <1>8, <2>1
  <2>5. ASSUME NEW t PROVE t \in Refs(q, i) <=> t \in Refs(b, i)
    BY <1>7, <1>9, <1>10, <2>2, <2>3, <2>4
  <2>6. QED BY <2>5
<1>14. /\ IsFiniteSet(Refs(q, ino))
       /\ Cardinality(Refs(q, ino)) = Cardinality(Refs(b, ino)) + 1
       /\ Cardinality(Refs(b, ino)) \in Nat
  <2>1. IsFiniteSet(Refs(b, ino))
    BY DEF ResolverInv
  <2>2. QED BY <2>1, <1>11, <1>12, FS_AddElement, FS_CardinalityType
<1>15. \A i \in Inodes : /\ IsFiniteSet(Refs(q, i))
                         /\ q.inodes[i].refcount = Cardinality(Refs(q, i))
                         /\ q.inodes[i].refcount > 0 => q.inodes[i].tracked
  BY <1>13, <1>14 DEF ResolverInv
<1>16. \A c \in PositiveKeys(q) : \A i \in Inodes :
         (q.paths[c].outstanding[i] > 0) <=> (q.paths[c].ino = i)
  <2>1. \A i \in Inodes : (e.outstanding[i] > 0) <=> (e.ino = i)
    BY <1>3, <1>5
  <2>2. \A c \in PositiveKeys(b) \ {k} : q.paths[c] = b.paths[c]
    BY <1>8 DEF PositiveKeys
  <2>3. \A c \in PositiveKeys(b) : \A i \in Inodes :
          (b.paths[c].outstanding[i] > 0) <=> (b.paths[c].ino = i)
    BY DEF ResolverInv
  <2>4. ASSUME NEW c \in PositiveKeys(b), c # k, NEW i \in Inodes
        PROVE  (q.paths[c].outstanding[i] > 0) <=> (q.paths[c].ino = i)
    <3>1. q.paths[c] = b.paths[c]
      BY ONLY <2>2, <2>4
    <3>2. (b.paths[c].outstanding[i] > 0) <=> (b.paths[c].ino = i)
      BY ONLY <2>3, <2>4
    <3>3. QED BY ONLY <3>1, <3>2
  <2>5. \A i \in Inodes :
          (q.paths[k].outstanding[i] > 0) <=> (q.paths[k].ino = i)
    BY ONLY <1>8, <2>1
  <2>6. QED BY ONLY <1>7, <2>4, <2>5
<1>18. ResolverInv(q)
  BY <1>15, <1>16 DEF ResolverInv
<1>19. QED BY <1>1, <1>13, <1>14, <1>18 DEF Owed

\* remember_positive: the lookup just granted is now owed, whatever the entry
\* held before and whether or not the reply may be cached.
LEMMA RememberPositiveInv ==
  ASSUME NEW r, ResolverInv(r), NEW k \in Keys, NEW parent \in Inodes,
         NEW parentGen \in Generations, NEW name \in Names, NEW ino \in Inodes,
         NEW gen \in Generations, NEW cacheable \in BOOLEAN
  PROVE  LET q == RememberPositive(r, k, parent, parentGen, name, ino, gen, cacheable)
         IN  /\ ResolverInv(q)
             /\ Owed(q, ino) = Owed(r, ino) + 1
             /\ \A i \in Inodes \ {ino} : Owed(q, i) = Owed(r, i)
<1> DEFINE q == RememberPositive(r, k, parent, parentGen, name, ino, gen, cacheable)
           taken == TakeReusable(r, k, ino, cacheable)
           kept == ReusedLookups(r, k, ino, cacheable)
<1>0. r \in Resolver /\ r.paths \in [Keys -> PathEntry]
  BY DEF ResolverInv, Resolver
<1>1. /\ taken.paths = [c \in Keys |-> IF c \in {k} THEN Absent ELSE r.paths[c]]
      /\ taken.negativeTtl = r.negativeTtl
      /\ taken \in Resolver
  BY <1>0, ReleaseInv, RemoveFields DEF TakeReusable, ResolverInv
<1>2. ~Reusable(r, k, ino, cacheable) =>
        /\ ResolverInv(taken)
        /\ \A i \in Inodes : Owed(taken, i) = Owed(r, i)
        /\ kept = NoForgets
  <2>1. CASE IsPositive(r.paths[k])
    <3>1. ResolverInv(Release(r, {k})) /\ \A i \in Inodes : Owed(Release(r, {k}), i) = Owed(r, i)
      BY ReleaseInv
    <3>2. QED BY <2>1, <3>1 DEF TakeReusable, ReusedLookups
  <2>2. CASE ~IsPositive(r.paths[k])
    <3>1. {k} \in SUBSET Keys /\ {k} \cap PositiveKeys(r) = {}
      BY <2>2 DEF PositiveKeys
    <3>2. ResolverInv(Remove(r, {k})) /\ \A i \in Inodes : Owed(Remove(r, {k}), i) = Owed(r, i)
      BY <3>1, RemoveInv
    <3>3. QED BY <2>2, <3>2 DEF TakeReusable, ReusedLookups
  <2>3. QED BY <2>1, <2>2
<1>3. Reusable(r, k, ino, cacheable) =>
        /\ taken.inodes = r.inodes /\ taken.pending = r.pending
        /\ kept = r.paths[k].outstanding
        /\ r.paths[k] \in PositiveEntry /\ r.paths[k].ino = ino
        /\ IsPositive(r.paths[k])
  <2> SUFFICES ASSUME Reusable(r, k, ino, cacheable)
               PROVE  /\ taken.inodes = r.inodes /\ taken.pending = r.pending
                      /\ kept = r.paths[k].outstanding
                      /\ r.paths[k] \in PositiveEntry /\ r.paths[k].ino = ino
                      /\ IsPositive(r.paths[k])
    OBVIOUS
  <2>1. IsPositive(r.paths[k]) /\ r.paths[k].ino = ino
    BY DEF Reusable
  <2>2. r.paths[k] \in PositiveEntry
    BY <1>0, <2>1, EntryKinds
  <2>3. taken = Remove(r, {k}) /\ kept = r.paths[k].outstanding
    BY DEF TakeReusable, ReusedLookups
  <2>4. Remove(r, {k}).inodes = r.inodes /\ Remove(r, {k}).pending = r.pending
    BY <1>0, RemoveFields
  <2>5. QED BY <2>1, <2>2, <2>3, <2>4
<1>4. kept \in [Inodes -> Nat]
  BY <1>2, <1>3 DEF PositiveEntry, NoForgets
<1>5. CASE cacheable
  <2> DEFINE e == [kind |-> "positive", parent |-> parent, parentGen |-> parentGen,
                   name |-> name, ino |-> ino, gen |-> gen, live |-> TRUE,
                   outstanding |-> [kept EXCEPT ![ino] = @ + 1]]
             s == [tracked |-> TRUE, attr |-> taken.inodes[ino].attr, gen |-> gen,
                   refcount |-> taken.inodes[ino].refcount + 1]
  <2>1. q = [paths |-> [taken.paths EXCEPT ![k] = e],
             inodes |-> [taken.inodes EXCEPT ![ino] = s],
             pending |-> taken.pending, negativeTtl |-> taken.negativeTtl]
    BY <1>5 DEF RememberPositive
  <2>2. e \in PositiveEntry /\ e.ino = ino /\ e.outstanding = [kept EXCEPT ![ino] = @ + 1]
    BY <1>4 DEF PositiveEntry
  <2>3. /\ taken.inodes \in [Inodes -> InodeState] /\ taken.pending \in [Inodes -> Nat]
        /\ taken.paths \in [Keys -> PathEntry] /\ taken.negativeTtl \in BOOLEAN
    BY <1>1 DEF Resolver
  <2>4. s \in InodeState
    BY <2>3 DEF InodeState
  <2> HIDE DEF taken, kept, e
  <2>5. q \in Resolver
    BY <2>1, <2>2, <2>3, <2>4 DEF Resolver, PathEntry
  <2>6. /\ q.negativeTtl = r.negativeTtl /\ q.pending = taken.pending
        /\ q.inodes[ino].tracked
        /\ q.inodes[ino].refcount = taken.inodes[ino].refcount + 1
        /\ \A i \in Inodes \ {ino} : q.inodes[i] = taken.inodes[i]
    BY <1>1, <2>1, <2>3
  <2>7. q.paths = [r.paths EXCEPT ![k] = e] /\ q.paths = [taken.paths EXCEPT ![k] = e]
    BY <1>0, <1>1, <2>1
  <2> HIDE DEF q
  <2>8. ASSUME Reusable(r, k, ino, cacheable)
        PROVE  /\ ResolverInv(q)
               /\ Owed(q, ino) = Owed(r, ino) + 1
               /\ \A i \in Inodes \ {ino} : Owed(q, i) = Owed(r, i)
    BY <1>3, <2>2, <2>5, <2>6, <2>7, <2>8, AddLookup
  <2>9. ASSUME ~Reusable(r, k, ino, cacheable)
        PROVE  /\ ResolverInv(q)
               /\ Owed(q, ino) = Owed(r, ino) + 1
               /\ \A i \in Inodes \ {ino} : Owed(q, i) = Owed(r, i)
    <3>1. ~IsPositive(taken.paths[k])
      BY <1>0, <1>1 DEF IsPositive, Absent
    <3>2. /\ ResolverInv(q)
          /\ Owed(q, ino) = Owed(taken, ino) + 1
          /\ \A i \in Inodes \ {ino} : Owed(q, i) = Owed(taken, i)
      BY <1>1, <1>2, <2>2, <2>5, <2>6, <2>7, <2>9, <3>1, AddLookup
    <3>3. QED BY <1>2, <2>9, <3>2
  <2>10. QED BY <2>8, <2>9 DEF q
<1>6. CASE ~cacheable
  <2> DEFINE p == [taken EXCEPT !.pending[ino] = @ + 1]
  <2>1. q = Retain(p)
    BY <1>6 DEF RememberPositive
  <2>2. ResolverInv(taken) /\ \A i \in Inodes : Owed(taken, i) = Owed(r, i)
    BY <1>2, <1>6 DEF Reusable
  <2>3. /\ p \in Resolver /\ p.paths = taken.paths /\ p.inodes = taken.inodes
        /\ p.negativeTtl = taken.negativeTtl
        /\ p.pending = [taken.pending EXCEPT ![ino] = @ + 1]
        /\ taken.pending \in [Inodes -> Nat]
    <3>1. taken \in Resolver
      BY <1>1
    <3> HIDE DEF taken
    <3>2. QED BY <3>1 DEF Resolver
  <2> HIDE DEF p, taken, q
  <2>4. ResolverInv(p) /\ \A i \in Inodes : Refs(p, i) = Refs(taken, i)
    BY <2>2, <2>3, InodesOnly DEF ResolverInv
  <2>5. /\ p.pending[ino] = taken.pending[ino] + 1
        /\ \A i \in Inodes \ {ino} : p.pending[i] = taken.pending[i]
    BY <2>3
  <2>6. /\ ResolverInv(q) /\ q.pending = p.pending
        /\ \A i \in Inodes : Refs(q, i) = Refs(p, i)
    BY <2>1, <2>4, RetainInv
  <2>7. Cardinality(Refs(taken, ino)) \in Nat /\ taken.pending[ino] \in Nat
    BY <2>2, <2>3, FS_CardinalityType DEF ResolverInv
  <2>8. Owed(q, ino) = Owed(taken, ino) + 1
    BY <2>4, <2>5, <2>6, <2>7 DEF Owed
  <2>9. \A i \in Inodes \ {ino} : Owed(q, i) = Owed(taken, i)
    BY <2>4, <2>5, <2>6 DEF Owed
  <2>10. QED BY <2>2, <2>6, <2>8, <2>9 DEF q
<1>7. QED BY <1>5, <1>6

\* remember_negative: the lookups of the positive entry that goes are queued.
LEMMA RememberNegativeInv ==
  ASSUME NEW r, ResolverInv(r), NEW k \in Keys, NEW parent \in Inodes,
         NEW parentGen \in Generations, NEW name \in Names
  PROVE  LET q == RememberNegative(r, k, parent, parentGen, name)
         IN  ResolverInv(q) /\ \A i \in Inodes : Owed(q, i) = Owed(r, i)
<1> DEFINE q == RememberNegative(r, k, parent, parentGen, name)
           gone == IF IsPositive(r.paths[k]) THEN InvalidateKeys(r, {k})
                                             ELSE Remove(r, {k})
           e == [kind |-> "negative", parent |-> parent,
                 parentGen |-> parentGen, name |-> name, live |-> TRUE]
<1>1. /\ ResolverInv(gone) /\ gone.negativeTtl = r.negativeTtl
      /\ gone.paths = [c \in Keys |-> IF c \in {k} THEN Absent ELSE r.paths[c]]
      /\ \A i \in Inodes : Owed(gone, i) = Owed(r, i)
  <2>1. CASE IsPositive(r.paths[k])
    BY <2>1, InvalidateInv
  <2>2. CASE ~IsPositive(r.paths[k])
    <3>1. {k} \in SUBSET Keys /\ {k} \cap PositiveKeys(r) = {} /\ r \in Resolver
      BY <2>2 DEF PositiveKeys, ResolverInv
    <3>2. QED BY <2>2, <3>1, RemoveInv, RemoveFields
  <2>3. QED BY <2>1, <2>2
<1>2. q = IF r.negativeTtl THEN [gone EXCEPT !.paths[k] = e] ELSE gone
  BY DEF RememberNegative
<1> HIDE DEF gone, q
<1>3. ASSUME r.negativeTtl
      PROVE  ResolverInv(q) /\ \A i \in Inodes : Owed(q, i) = Owed(gone, i)
  <2>1. gone \in Resolver /\ q = [gone EXCEPT !.paths[k] = e]
    BY <1>1, <1>2, <1>3 DEF ResolverInv
  <2>2. e \in PathEntry
    BY DEF PathEntry, NegativeEntry
  <2>3. e.kind = "negative"
    OBVIOUS
  <2> HIDE DEF e
  <2>4. /\ q \in Resolver /\ q.inodes = gone.inodes /\ q.pending = gone.pending
        /\ q.negativeTtl = gone.negativeTtl
        /\ q.paths = [gone.paths EXCEPT ![k] = e]
        /\ gone.paths \in [Keys -> PathEntry]
    BY <2>1, <2>2 DEF Resolver
  <2>5. gone.paths[k] = Absent
    BY <1>1
  <2>6. /\ q.paths[k] = e
        /\ \A c \in Keys \ {k} : q.paths[c] = gone.paths[c]
    BY <2>4
  <2>7. ~IsPositive(q.paths[k]) /\ ~IsPositive(gone.paths[k])
    BY <2>3, <2>5, <2>6 DEF IsPositive, Absent
  <2>8. QED BY <1>1, <2>4, <2>6, <2>7, RewriteNonPositive
<1>4. ResolverInv(q) /\ \A i \in Inodes : Owed(q, i) = Owed(r, i)
  BY <1>1, <1>2, <1>3
<1>5. QED BY <1>4 DEF q

\* Writing one inode's state without changing its refcount counts nothing.
LEMMA WriteAttrField ==
  ASSUME NEW r, ResolverInv(r), NEW ino \in Inodes, NEW s \in InodeState,
         s.refcount = r.inodes[ino].refcount,
         r.inodes[ino].tracked => s.tracked
  PROVE  LET q == [r EXCEPT !.inodes[ino] = s]
         IN  ResolverInv(q) /\ \A i \in Inodes : Owed(q, i) = Owed(r, i)
<1> DEFINE q == [r EXCEPT !.inodes[ino] = s]
<1>1. r \in Resolver /\ r.inodes \in [Inodes -> InodeState]
  BY DEF ResolverInv, Resolver
<1>2. /\ q.paths = r.paths /\ q.pending = r.pending /\ q.negativeTtl = r.negativeTtl
      /\ q.inodes = [r.inodes EXCEPT ![ino] = s]
      /\ q = [paths |-> q.paths, inodes |-> q.inodes, pending |-> q.pending,
              negativeTtl |-> q.negativeTtl]
  BY <1>1 DEF Resolver
<1> HIDE DEF q
<1>3. q.inodes \in [Inodes -> InodeState]
  BY <1>1, <1>2
<1>4. \A i \in Inodes : /\ q.inodes[i].refcount = r.inodes[i].refcount
                        /\ r.inodes[i].tracked => q.inodes[i].tracked
  BY <1>1, <1>2
<1>5. ResolverInv(q) /\ \A i \in Inodes : Owed(q, i) = Owed(r, i)
  BY <1>2, <1>3, <1>4, AttrWriteInv
<1>6. QED BY <1>5 DEF q

\* The two ways the methods write attributes, as states of an inode.
LEMMA WithAttr ==
  ASSUME NEW t \in InodeState, NEW attr \in Attrs \cup {NoAttr, StaleAttr}
  PROVE  /\ [t EXCEPT !.attr = attr] \in InodeState
         /\ [t EXCEPT !.attr = attr].refcount = t.refcount
         /\ [t EXCEPT !.attr = attr].tracked = t.tracked
         /\ [t EXCEPT !.tracked = TRUE, !.attr = attr] \in InodeState
         /\ [t EXCEPT !.tracked = TRUE, !.attr = attr].refcount = t.refcount
         /\ [t EXCEPT !.tracked = TRUE, !.attr = attr].tracked = TRUE
BY DEF InodeState

\* The methods that drop attributes, from the cache or by expiry.
LEMMA ForgetAttrInv ==
  ASSUME NEW r, ResolverInv(r), NEW ino \in Inodes
  PROVE  /\ ResolverInv(ForgetAttr(r, ino))
         /\ ResolverInv(ExpireAttr(r, ino))
         /\ ResolverInv(InvalidateInodeAttr(r, ino))
         /\ ResolverInv(CachedAttr(r, ino))
         /\ \A i \in Inodes :
              /\ Owed(ForgetAttr(r, ino), i) = Owed(r, i)
              /\ Owed(ExpireAttr(r, ino), i) = Owed(r, i)
              /\ Owed(InvalidateInodeAttr(r, ino), i) = Owed(r, i)
              /\ Owed(CachedAttr(r, ino), i) = Owed(r, i)
<1>1. r.inodes[ino] \in InodeState
  BY DEF ResolverInv, Resolver
<1> DEFINE none == [r.inodes[ino] EXCEPT !.attr = NoAttr]
           stale == [r.inodes[ino] EXCEPT !.attr = StaleAttr]
<1>2. /\ ForgetAttr(r, ino) = [r EXCEPT !.inodes[ino] = none]
      /\ ExpireAttr(r, ino) = [r EXCEPT !.inodes[ino] = stale]
  BY DEF ForgetAttr, ExpireAttr
<1>3. /\ none \in InodeState /\ none.refcount = r.inodes[ino].refcount
      /\ none.tracked = r.inodes[ino].tracked
      /\ stale \in InodeState /\ stale.refcount = r.inodes[ino].refcount
      /\ stale.tracked = r.inodes[ino].tracked
  BY <1>1, WithAttr
<1> HIDE DEF none, stale
<1>4. /\ ResolverInv(ForgetAttr(r, ino))
      /\ \A i \in Inodes : Owed(ForgetAttr(r, ino), i) = Owed(r, i)
  BY <1>2, <1>3, WriteAttrField
<1>5. /\ ResolverInv(ExpireAttr(r, ino))
      /\ \A i \in Inodes : Owed(ExpireAttr(r, ino), i) = Owed(r, i)
  BY <1>2, <1>3, WriteAttrField
<1>6. /\ ResolverInv(Retain(ForgetAttr(r, ino)))
      /\ \A i \in Inodes : Owed(Retain(ForgetAttr(r, ino)), i) = Owed(r, i)
  BY <1>4, RetainInv DEF Owed
<1>7. QED BY <1>4, <1>5, <1>6 DEF InvalidateInodeAttr, CachedAttr

\* remember_attr puts an inode in the table that holds no lookup.
LEMMA RememberAttrInv ==
  ASSUME NEW r, ResolverInv(r), NEW ino \in Inodes, NEW attr \in Attrs
  PROVE  /\ ResolverInv(RememberAttr(r, ino, attr))
         /\ \A i \in Inodes : Owed(RememberAttr(r, ino, attr), i) = Owed(r, i)
<1>1. r.inodes[ino] \in InodeState
  BY DEF ResolverInv, Resolver
<1> DEFINE s == [r.inodes[ino] EXCEPT !.tracked = TRUE, !.attr = attr]
<1>2. RememberAttr(r, ino, attr) = [r EXCEPT !.inodes[ino] = s]
  BY DEF RememberAttr
<1>3. s \in InodeState /\ s.refcount = r.inodes[ino].refcount /\ s.tracked
  BY <1>1, WithAttr
<1> HIDE DEF s
<1>4. QED BY <1>2, <1>3, WriteAttrField

\* Handing the pending forgets to the caller leaves only the cached lookups.
LEMMA TakenInv ==
  ASSUME NEW r, ResolverInv(r)
  PROVE  /\ ResolverInv(Taken(r))
         /\ Taken(r).pending = NoForgets
         /\ Taken(r).paths = r.paths /\ Taken(r).inodes = r.inodes
         /\ \A i \in Inodes : Owed(Taken(r), i) = Owed(r, i) - r.pending[i]
<1> DEFINE q == Taken(r)
<1>1. r \in Resolver /\ r.pending \in [Inodes -> Nat]
  BY DEF ResolverInv, Resolver
<1>2. /\ q \in Resolver /\ q.paths = r.paths /\ q.inodes = r.inodes
      /\ q.negativeTtl = r.negativeTtl /\ q.pending = NoForgets
  BY <1>1 DEF Taken, Resolver, NoForgets
<1> HIDE DEF q
<1>3. ResolverInv(q) /\ \A i \in Inodes : Refs(q, i) = Refs(r, i)
  BY <1>2, InodesOnly DEF ResolverInv
<1>4. \A i \in Inodes : Cardinality(Refs(r, i)) \in Nat
  BY FS_CardinalityType DEF ResolverInv
<1>5. \A i \in Inodes : Owed(q, i) = Owed(r, i) - r.pending[i]
  BY <1>1, <1>2, <1>3, <1>4 DEF Owed, NoForgets
<1>6. QED BY <1>2, <1>3, <1>5 DEF q

\* reap_expired queues the lookups of every expired entry.
LEMMA ReapExpiredInv ==
  ASSUME NEW r, ResolverInv(r)
  PROVE  /\ ResolverInv(ReapExpired(r))
         /\ \A i \in Inodes : Owed(ReapExpired(r), i) = Owed(r, i)
<1>1. ExpiredKeys(r) \in SUBSET Keys
  BY DEF ExpiredKeys
<1>2. CASE \E k \in ExpiredKeys(r) : IsPositive(r.paths[k])
  BY <1>1, <1>2, ReleaseInv DEF ReapExpired
<1>3. CASE ~\E k \in ExpiredKeys(r) : IsPositive(r.paths[k])
  <2>1. ExpiredKeys(r) \cap PositiveKeys(r) = {}
    BY <1>3 DEF PositiveKeys
  <2>2. QED BY <1>1, <1>3, <2>1, RemoveInv DEF ReapExpired
<1>4. QED BY <1>2, <1>3

\* An entry that expires keeps its lookups until it is evicted.
LEMMA ExpireEntryInv ==
  ASSUME NEW r, ResolverInv(r), NEW k \in Keys, IsPresent(r.paths[k])
  PROVE  /\ ResolverInv(ExpireEntry(r, k))
         /\ \A i \in Inodes : Owed(ExpireEntry(r, k), i) = Owed(r, i)
<1> DEFINE q == ExpireEntry(r, k)
           e == r.paths[k]
           old == [e EXCEPT !.live = FALSE]
<1>1. r \in Resolver /\ r.paths \in [Keys -> PathEntry] /\ e \in PathEntry
  BY DEF ResolverInv, Resolver
<1>2. /\ q.paths = [r.paths EXCEPT ![k] = old]
      /\ q.inodes = r.inodes /\ q.pending = r.pending
      /\ q.negativeTtl = r.negativeTtl
      /\ q = [paths |-> q.paths, inodes |-> q.inodes, pending |-> q.pending,
              negativeTtl |-> q.negativeTtl]
  <2>1. q = [r EXCEPT !.paths[k] = old]
    BY DEF ExpireEntry
  <2> HIDE DEF old, q
  <2>2. QED BY <1>1, <2>1 DEF Resolver
<1>3. /\ old \in PathEntry /\ old.kind = e.kind
      /\ IsPositive(e) => old.outstanding = e.outstanding /\ old.ino = e.ino
  <2>1. e \in PositiveEntry \/ e \in NegativeEntry
    BY <1>1 DEF PathEntry, IsPresent, Absent
  <2>2. CASE e \in PositiveEntry
    BY <2>2 DEF PositiveEntry, PathEntry
  <2>3. CASE e \in NegativeEntry
    BY <2>3 DEF NegativeEntry, PathEntry, IsPositive
  <2>4. QED BY <2>1, <2>2, <2>3
<1> HIDE DEF q, old
<1>4. /\ q.paths[k] = old
      /\ \A c \in Keys \ {k} : q.paths[c] = r.paths[c]
  BY <1>1, <1>2
<1>5. q \in Resolver
  BY <1>1, <1>2, <1>3 DEF Resolver
<1>6. PositiveKeys(q) = PositiveKeys(r)
  BY <1>3, <1>4 DEF PositiveKeys, IsPositive
<1>7. \A c \in PositiveKeys(r) : /\ q.paths[c].outstanding = r.paths[c].outstanding
                                 /\ q.paths[c].ino = r.paths[c].ino
  BY <1>3, <1>4 DEF PositiveKeys
<1>8. ASSUME NEW i PROVE Refs(q, i) = Refs(r, i)
  <2>1. \A t : t \in Refs(q, i) <=> t \in Refs(r, i)
    BY <1>6, <1>7, RefsElements
  <2>2. QED BY <2>1
<1>10. ResolverInv(q)
  BY <1>2, <1>5, <1>6, <1>7, <1>8 DEF ResolverInv
<1>11. QED BY <1>2, <1>8, <1>10 DEF Owed, q

\* What the adapter still owes for an inode is a number.
LEMMA OwedType ==
  ASSUME NEW r, ResolverInv(r), NEW i \in Inodes
  PROVE  /\ Cardinality(Refs(r, i)) \in Nat /\ r.pending[i] \in Nat
         /\ Owed(r, i) \in Nat
BY FS_CardinalityType DEF ResolverInv, Resolver, Owed

\* A resolver that was just made holds and owes nothing.
LEMMA EmptyResolverInv ==
  ASSUME NEW negativeTtl \in BOOLEAN, NEW r, r = EmptyResolver(negativeTtl)
  PROVE  /\ ResolverInv(r)
         /\ \A i \in Inodes : Refs(r, i) = {} /\ r.pending[i] = 0
         /\ r.pending = NoForgets
<1>2. r \in Resolver
  <2>1. Untracked \in InodeState
    BY ConstantsAssumption DEF InodeState, Untracked
  <2>2. Absent \in PathEntry
    BY DEF PathEntry
  <2> HIDE DEF Absent, Untracked
  <2>3. QED BY <2>1, <2>2 DEF EmptyResolver, Resolver
<1>3. /\ \A k \in Keys : r.paths[k] = Absent
      /\ \A i \in Inodes : r.inodes[i] = Untracked /\ r.pending[i] = 0
      /\ r.pending = NoForgets
  BY DEF EmptyResolver, NoForgets
<1>4. PositiveKeys(r) = {}
  BY <1>3 DEF PositiveKeys, IsPositive, Absent
<1>5. \A i \in Inodes : Refs(r, i) = {}
  BY <1>4 DEF Refs, RefsIn
<1>6. \A i \in Inodes : /\ IsFiniteSet(Refs(r, i))
                        /\ Cardinality(Refs(r, i)) = 0
                        /\ r.inodes[i].refcount = 0
  BY <1>3, <1>5, FS_EmptySet DEF Untracked
<1>7. QED BY <1>2, <1>3, <1>4, <1>5, <1>6 DEF ResolverInv

\* The methods about attributes write the inode table only.
LEMMA AttrFields ==
  ASSUME NEW r \in Resolver, NEW ino, NEW attr
  PROVE  /\ \A q \in {ForgetAttr(r, ino), ExpireAttr(r, ino), CachedAttr(r, ino),
                      InvalidateInodeAttr(r, ino), RememberAttr(r, ino, attr)} :
              q.paths = r.paths /\ q.pending = r.pending
<1> DEFINE none == [r.inodes[ino] EXCEPT !.attr = NoAttr]
           stale == [r.inodes[ino] EXCEPT !.attr = StaleAttr]
           new == [r.inodes[ino] EXCEPT !.tracked = TRUE, !.attr = attr]
<1>1. /\ ForgetAttr(r, ino) = [r EXCEPT !.inodes[ino] = none]
      /\ ExpireAttr(r, ino) = [r EXCEPT !.inodes[ino] = stale]
      /\ RememberAttr(r, ino, attr) = [r EXCEPT !.inodes[ino] = new]
  BY DEF ForgetAttr, ExpireAttr, RememberAttr
<1> HIDE DEF none, stale, new
<1>2. \A s : /\ [r EXCEPT !.inodes[ino] = s].paths = r.paths
             /\ [r EXCEPT !.inodes[ino] = s].pending = r.pending
  BY DEF Resolver
<1>3. /\ ForgetAttr(r, ino).paths = r.paths /\ ForgetAttr(r, ino).pending = r.pending
      /\ ExpireAttr(r, ino).paths = r.paths /\ ExpireAttr(r, ino).pending = r.pending
      /\ RememberAttr(r, ino, attr).paths = r.paths
      /\ RememberAttr(r, ino, attr).pending = r.pending
  BY <1>1, <1>2
<1>4. /\ Retain(ForgetAttr(r, ino)).paths = ForgetAttr(r, ino).paths
      /\ Retain(ForgetAttr(r, ino)).pending = ForgetAttr(r, ino).pending
  <2>1. ForgetAttr(r, ino) = [r EXCEPT !.inodes[ino] = none]
    BY <1>1
  <2>2. QED BY <2>1 DEF Retain, Resolver
<1>5. QED BY <1>3, <1>4 DEF CachedAttr, InvalidateInodeAttr

\* A hit of the cache names an inode that the cache holds a lookup on.
LEMMA HitHeld ==
  ASSUME NEW r, ResolverInv(r), NEW k \in Keys, NEW parent, NEW parentGen,
         CachedAnswer(r, k, parent, parentGen).found = "hit"
  PROVE  LET a == CachedAnswer(r, k, parent, parentGen) IN
         /\ a.ino \in Inodes /\ a.gen \in Generations
         /\ IsPositive(r.paths[k]) /\ r.paths[k].live
         /\ Matches(r.paths[k], parent, parentGen)
         /\ a.ino = r.paths[k].ino /\ a.gen = r.paths[k].gen
         /\ Cached(r, k, parent, parentGen) = r
         /\ Cardinality(Refs(r, a.ino)) > 0 /\ Owed(r, a.ino) > 0
<1> DEFINE e == r.paths[k]
<1>1. e \in PathEntry
  BY DEF ResolverInv, Resolver
<1>2. /\ IsPositive(e) /\ e.live /\ Matches(e, parent, parentGen)
      /\ CachedAnswer(r, k, parent, parentGen)
           = [found |-> "hit", ino |-> e.ino, gen |-> e.gen]
  BY <1>1 DEF CachedAnswer, PathEntry, PositiveEntry, NegativeEntry, Absent, IsPresent,
              IsPositive
<1>3. e \in PositiveEntry
  BY <1>1, <1>2, EntryKinds
<1>4. e.ino \in Inodes /\ e.gen \in Generations /\ e.outstanding[e.ino] \in Nat
  BY <1>3 DEF PositiveEntry
<1>5. k \in PositiveKeys(r)
  BY <1>2 DEF PositiveKeys
<1>6. e.outstanding[e.ino] > 0
  BY <1>4, <1>5 DEF ResolverInv
<1>7. <<k, 1>> \in Refs(r, e.ino)
  <2>1. 1 \in 1 .. e.outstanding[e.ino]
    BY <1>4, <1>6
  <2>2. QED BY <1>5, <2>1, RefsElements
<1>8. /\ IsFiniteSet(Refs(r, e.ino)) /\ Cardinality(Refs(r, e.ino)) \in Nat
      /\ r.pending[e.ino] \in Nat
  BY <1>4, OwedType DEF ResolverInv
<1>9. Cardinality(Refs(r, e.ino)) > 0
  BY <1>7, <1>8, FS_EmptySet
<1>10. Owed(r, e.ino) > 0
  BY <1>8, <1>9 DEF Owed
<1>11. Cached(r, k, parent, parentGen) = r
  BY <1>2 DEF Cached
<1>12. QED BY <1>2, <1>4, <1>9, <1>10, <1>11

-----------------------------------------------------------------------------
(* What the methods leave of the entries and the inode table *)

\* Entries may go and inodes may leave the table; nothing else changes but
\* refcounts and attributes that are dropped.
EntriesFewer(q, r) == \A k \in Keys : q.paths[k] \in {Absent, r.paths[k]}
TableFewer(q, r) ==
  \A i \in Inodes : /\ q.inodes[i].gen \in {0, r.inodes[i].gen}
                    /\ q.inodes[i].attr \in Attrs => q.inodes[i].attr = r.inodes[i].attr
Fewer(q, r) == EntriesFewer(q, r) /\ TableFewer(q, r)

LEMMA FewerTrans ==
  ASSUME NEW p, NEW q, NEW r, Fewer(p, q), Fewer(q, r)
  PROVE  Fewer(p, r)
<1>1. EntriesFewer(p, r)
  BY DEF Fewer, EntriesFewer
<1>2. TableFewer(p, r)
  BY DEF Fewer, TableFewer
<1>3. QED BY <1>1, <1>2 DEF Fewer

LEMMA FewerSame ==
  ASSUME NEW q, NEW r, q.paths = r.paths, q.inodes = r.inodes
  PROVE  Fewer(q, r)
BY DEF Fewer, EntriesFewer, TableFewer

\* retain_live_inodes, of any record of the fields of a resolver.
LEMMA RetainFewer ==
  ASSUME NEW r, r = [paths |-> r.paths, inodes |-> r.inodes, pending |-> r.pending,
                     negativeTtl |-> r.negativeTtl],
         r.inodes = [i \in Inodes |-> r.inodes[i]]
  PROVE  Fewer(Retain(r), r)
<1>1. /\ Retain(r).paths = r.paths
      /\ Retain(r).inodes = [i \in Inodes |->
           IF r.inodes[i].refcount > 0 \/ r.inodes[i].attr \in Attrs
             THEN r.inodes[i] ELSE Untracked]
  BY DEF Retain
<1>2. Untracked.gen = 0 /\ Untracked.attr \notin Attrs
  BY ConstantsAssumption DEF Untracked
<1>3. QED BY <1>1, <1>2 DEF Fewer, EntriesFewer, TableFewer

\* release_outstanding and remove.
LEMMA ReleaseFewer ==
  ASSUME NEW r \in Resolver, NEW K \in SUBSET Keys
  PROVE  /\ Fewer(Release(r, K), r) /\ \A k \in K : Release(r, K).paths[k] = Absent
         /\ Fewer(Remove(r, K), r) /\ \A k \in K : Remove(r, K).paths[k] = Absent
<1> DEFINE q ==
      [paths |-> Remove(r, K).paths,
       inodes |-> [i \in Inodes |->
          [r.inodes[i] EXCEPT !.refcount = @ - Released(r, K, i)]],
       pending |-> [i \in Inodes |-> r.pending[i] + Released(r, K, i)],
       negativeTtl |-> r.negativeTtl]
<1>1. /\ Remove(r, K).paths = [k \in Keys |-> IF k \in K THEN Absent ELSE r.paths[k]]
      /\ Remove(r, K).inodes = r.inodes
  BY RemoveFields
<1>2. Fewer(Remove(r, K), r)
  BY <1>1 DEF Fewer, EntriesFewer, TableFewer
<1>3. /\ q.paths = Remove(r, K).paths
      /\ q = [paths |-> q.paths, inodes |-> q.inodes, pending |-> q.pending,
              negativeTtl |-> q.negativeTtl]
      /\ q.inodes = [i \in Inodes |-> q.inodes[i]]
  OBVIOUS
<1>4. \A i \in Inodes : /\ q.inodes[i].gen = r.inodes[i].gen
                        /\ q.inodes[i].attr = r.inodes[i].attr
  BY DEF Resolver, InodeState
<1>5. Release(r, K) = Retain(q)
  BY DEF Release
<1> HIDE DEF q
<1>6. Fewer(q, r)
  BY <1>1, <1>3, <1>4 DEF Fewer, EntriesFewer, TableFewer
<1>7. Fewer(Retain(q), q) /\ Retain(q).paths = q.paths
  <2>1. Fewer(Retain(q), q)
    BY <1>3, RetainFewer
  <2>2. Retain(q).paths = q.paths
    BY <1>3 DEF Retain
  <2>3. QED BY <2>1, <2>2
<1>8. QED BY <1>1, <1>2, <1>3, <1>5, <1>6, <1>7, FewerTrans

\* invalidate_matching
LEMMA InvalidateFewer ==
  ASSUME NEW r \in Resolver, NEW K \in SUBSET Keys
  PROVE  /\ Fewer(InvalidateKeys(r, K), r)
         /\ \A k \in K : InvalidateKeys(r, K).paths[k] = Absent
<1> DEFINE d == DropAttrsOf(r, K)
<1>1. /\ d \in Resolver /\ d.paths = r.paths
      /\ d.inodes = [i \in Inodes |->
           IF RefsIn(r, K, i) # {} THEN [r.inodes[i] EXCEPT !.attr = NoAttr]
                                   ELSE r.inodes[i]]
  BY DEF DropAttrsOf, Resolver, InodeState
<1>2. \A i \in Inodes : /\ d.inodes[i].gen = r.inodes[i].gen
                        /\ d.inodes[i].attr \in {NoAttr, r.inodes[i].attr}
  BY <1>1 DEF Resolver, InodeState
<1> HIDE DEF d
<1>3. Fewer(d, r)
  BY <1>1, <1>2, ConstantsAssumption DEF Fewer, EntriesFewer, TableFewer
<1>4. Fewer(Release(d, K), d) /\ \A k \in K : Release(d, K).paths[k] = Absent
  BY <1>1, ReleaseFewer
<1>5. QED BY <1>3, <1>4, FewerTrans DEF InvalidateKeys, d

\* The methods about attributes of one inode.
LEMMA AttrFewer ==
  ASSUME NEW r \in Resolver, NEW ino \in Inodes
  PROVE  /\ Fewer(ForgetAttr(r, ino), r) /\ Fewer(ExpireAttr(r, ino), r)
         /\ Fewer(InvalidateInodeAttr(r, ino), r) /\ Fewer(CachedAttr(r, ino), r)
         /\ InvalidateInodeAttr(r, ino).inodes[ino].attr \notin Attrs
         /\ ForgetAttr(r, ino).inodes[ino].attr \notin Attrs
         /\ InvalidateInodeAttr(r, ino).paths = r.paths
<1> DEFINE none == [r.inodes[ino] EXCEPT !.attr = NoAttr]
           stale == [r.inodes[ino] EXCEPT !.attr = StaleAttr]
<1>1. /\ ForgetAttr(r, ino) = [r EXCEPT !.inodes[ino] = none]
      /\ ExpireAttr(r, ino) = [r EXCEPT !.inodes[ino] = stale]
  BY DEF ForgetAttr, ExpireAttr
<1>2. /\ none \in InodeState /\ none.gen = r.inodes[ino].gen /\ none.attr = NoAttr
      /\ stale \in InodeState /\ stale.gen = r.inodes[ino].gen /\ stale.attr = StaleAttr
  BY DEF Resolver, InodeState
<1> HIDE DEF none, stale
<1>3. ASSUME NEW s \in InodeState
      PROVE  LET q == [r EXCEPT !.inodes[ino] = s] IN
             /\ q \in Resolver /\ q.paths = r.paths /\ q.inodes[ino] = s
             /\ \A i \in Inodes \ {ino} : q.inodes[i] = r.inodes[i]
             /\ q.inodes \in [Inodes -> InodeState]
             /\ q = [paths |-> q.paths, inodes |-> q.inodes, pending |-> q.pending,
                     negativeTtl |-> q.negativeTtl]
  BY DEF Resolver
<1>a. ASSUME NEW s \in InodeState, s.gen = r.inodes[ino].gen, s.attr \notin Attrs
      PROVE  Fewer([r EXCEPT !.inodes[ino] = s], r)
  <2> DEFINE q == [r EXCEPT !.inodes[ino] = s]
  <2>1. /\ q.paths = r.paths /\ q.inodes[ino] = s
        /\ \A i \in Inodes \ {ino} : q.inodes[i] = r.inodes[i]
    BY <1>3
  <2> HIDE DEF q
  <2>2. EntriesFewer(q, r)
    BY <2>1 DEF EntriesFewer
  <2>3. TableFewer(q, r)
    BY <1>a, <2>1 DEF TableFewer
  <2>4. QED BY <2>2, <2>3 DEF Fewer, q
<1>b. none.attr \notin Attrs /\ stale.attr \notin Attrs
  BY <1>2, ConstantsAssumption
<1>4. /\ ForgetAttr(r, ino).inodes[ino].attr \notin Attrs
      /\ ForgetAttr(r, ino) \in Resolver
      /\ Fewer(ForgetAttr(r, ino), r) /\ Fewer(ExpireAttr(r, ino), r)
      /\ ForgetAttr(r, ino).paths = r.paths
  <2>1. Fewer(ForgetAttr(r, ino), r) /\ Fewer(ExpireAttr(r, ino), r)
    <3>1. Fewer([r EXCEPT !.inodes[ino] = none], r)
      BY <1>2, <1>a, <1>b
    <3>2. Fewer([r EXCEPT !.inodes[ino] = stale], r)
      BY <1>2, <1>a, <1>b
    <3>3. QED BY <1>1, <3>1, <3>2
  <2>2. /\ ForgetAttr(r, ino).inodes[ino] = none /\ ForgetAttr(r, ino) \in Resolver
        /\ ForgetAttr(r, ino).paths = r.paths
    <3>1. LET s == [r EXCEPT !.inodes[ino] = none] IN
          s.inodes[ino] = none /\ s \in Resolver /\ s.paths = r.paths
      BY <1>2, <1>3
    <3>2. QED BY <1>1, <3>1
  <2>3. QED BY <2>1, <2>2, <1>b
<1> DEFINE q == ForgetAttr(r, ino)
<1>5. /\ q = [paths |-> q.paths, inodes |-> q.inodes, pending |-> q.pending,
              negativeTtl |-> q.negativeTtl]
      /\ q.inodes = [i \in Inodes |-> q.inodes[i]]
  BY <1>1, <1>2, <1>3
<1> HIDE DEF q
<1>6. Fewer(Retain(q), q) /\ Retain(q).paths = q.paths
  <2>1. Fewer(Retain(q), q)
    BY <1>5, RetainFewer
  <2>2. Retain(q).paths = q.paths
    BY <1>5 DEF Retain
  <2>3. QED BY <2>1, <2>2
<1>7. Fewer(Retain(q), r)
  BY <1>4, <1>6, FewerTrans DEF q
<1>8. Retain(q).inodes[ino].attr \notin Attrs
  BY <1>4, <1>6 DEF q, Fewer, TableFewer
<1>9. Fewer(CachedAttr(r, ino), r)
  BY <1>7, FewerSame DEF CachedAttr, q
<1>10. QED BY <1>4, <1>6, <1>7, <1>8, <1>9 DEF InvalidateInodeAttr, q

\* cached, reap_expired and take_pending_forgets.
LEMMA LookFewer ==
  ASSUME NEW r \in Resolver, NEW k \in Keys, NEW parent, NEW parentGen
  PROVE  /\ Fewer(Cached(r, k, parent, parentGen), r)
         /\ Fewer(ReapExpired(r), r)
         /\ Fewer(Taken(r), r) /\ Taken(r).paths = r.paths /\ Taken(r).inodes = r.inodes
<1>1. Fewer(r, r)
  BY FewerSame
<1>2. /\ Fewer(Release(r, {k}), r) /\ Fewer(Remove(r, {k}), r)
      /\ Fewer(Release(r, ExpiredKeys(r)), r) /\ Fewer(Remove(r, ExpiredKeys(r)), r)
  <2>1. {k} \in SUBSET Keys /\ ExpiredKeys(r) \in SUBSET Keys
    BY DEF ExpiredKeys
  <2>2. QED BY <2>1, ReleaseFewer
<1>3. Taken(r).paths = r.paths /\ Taken(r).inodes = r.inodes
  BY DEF Taken, Resolver
<1>4. Fewer(Taken(r), r)
  BY <1>3, FewerSame
<1>5. QED BY <1>1, <1>2, <1>3, <1>4 DEF Cached, ReapExpired

\* remember_attr
LEMMA RememberAttrFields ==
  ASSUME NEW r \in Resolver, NEW ino \in Inodes, NEW attr
  PROVE  LET q == RememberAttr(r, ino, attr) IN
         /\ q.paths = r.paths /\ q.inodes[ino].attr = attr
         /\ \A i \in Inodes : q.inodes[i].gen = r.inodes[i].gen
         /\ \A i \in Inodes \ {ino} : q.inodes[i] = r.inodes[i]
<1> DEFINE s == [r.inodes[ino] EXCEPT !.tracked = TRUE, !.attr = attr]
           q == RememberAttr(r, ino, attr)
<1>1. q = [r EXCEPT !.inodes[ino] = s]
  BY DEF RememberAttr
<1>2. s.attr = attr /\ s.gen = r.inodes[ino].gen
  BY DEF Resolver, InodeState
<1> HIDE DEF s
<1>3. q.paths = r.paths /\ q.inodes[ino] = s /\ \A i \in Inodes \ {ino} : q.inodes[i] = r.inodes[i]
  BY <1>1 DEF Resolver
<1>4. QED BY <1>2, <1>3

\* An entry that expires changes in nothing else.
LEMMA ExpireEntryFields ==
  ASSUME NEW r \in Resolver, NEW k \in Keys, IsPresent(r.paths[k])
  PROVE  LET q == ExpireEntry(r, k)
             e == q.paths[k]
             was == r.paths[k] IN
         /\ q.inodes = r.inodes /\ \A c \in Keys \ {k} : q.paths[c] = r.paths[c]
         /\ ~e.live /\ IsPresent(e) /\ e.parent = was.parent
         /\ e.parentGen = was.parentGen /\ e.name = was.name
         /\ IsPositive(e) <=> IsPositive(was)
         /\ IsPositive(e) => e.ino = was.ino /\ e.gen = was.gen
<1> DEFINE was == r.paths[k]
           old == [was EXCEPT !.live = FALSE]
           q == ExpireEntry(r, k)
<1>1. was \in PositiveEntry \cup NegativeEntry
  BY EntryKinds DEF Resolver, IsPresent, PathEntry, Absent
<1>2. /\ ~old.live /\ old.kind = was.kind /\ old.parent = was.parent
      /\ old.parentGen = was.parentGen /\ old.name = was.name
      /\ IsPositive(was) => old.ino = was.ino /\ old.gen = was.gen
  BY <1>1 DEF PositiveEntry, NegativeEntry, IsPositive
<1>3. q = [r EXCEPT !.paths[k] = old]
  BY DEF ExpireEntry
<1> HIDE DEF old
<1>4. q.inodes = r.inodes /\ q.paths[k] = old /\ \A c \in Keys \ {k} : q.paths[c] = r.paths[c]
  BY <1>3 DEF Resolver
<1> HIDE DEF q
<1>5. QED BY <1>2, <1>4 DEF IsPresent, IsPositive, q

\* remember_negative: at k there is nothing or the new entry.
LEMMA RememberNegativeFields ==
  ASSUME NEW r \in Resolver, NEW k \in Keys, NEW parent, NEW parentGen, NEW name
  PROVE  LET q == RememberNegative(r, k, parent, parentGen, name)
             e == [kind |-> "negative", parent |-> parent, parentGen |-> parentGen,
                   name |-> name, live |-> TRUE] IN
         /\ q.paths[k] \in {Absent, e}
         /\ \A c \in Keys \ {k} : q.paths[c] \in {Absent, r.paths[c]}
         /\ TableFewer(q, r)
<1> DEFINE gone == IF IsPositive(r.paths[k]) THEN InvalidateKeys(r, {k})
                                             ELSE Remove(r, {k})
           e == [kind |-> "negative", parent |-> parent, parentGen |-> parentGen,
                 name |-> name, live |-> TRUE]
           q == RememberNegative(r, k, parent, parentGen, name)
<1>1. Fewer(gone, r) /\ gone.paths[k] = Absent
  <2>1. {k} \in SUBSET Keys
    OBVIOUS
  <2>2. QED BY <2>1, InvalidateFewer, ReleaseFewer
<1>2. q = IF r.negativeTtl THEN [gone EXCEPT !.paths[k] = e] ELSE gone
  BY DEF RememberNegative
<1>3. /\ gone = [paths |-> gone.paths, inodes |-> gone.inodes, pending |-> gone.pending,
                 negativeTtl |-> gone.negativeTtl]
      /\ gone.paths = [c \in Keys |-> gone.paths[c]]
  <2>1. CASE IsPositive(r.paths[k])
    <3>1. gone = Release(DropAttrsOf(r, {k}), {k})
      BY <2>1 DEF InvalidateKeys
    <3>2. QED BY <3>1 DEF Release, Retain, Remove, DropAttrsOf, Resolver
  <2>2. CASE ~IsPositive(r.paths[k])
    <3>1. gone = Remove(r, {k})
      BY <2>2
    <3>2. QED BY <3>1 DEF Remove, Resolver
  <2>3. QED BY <2>1, <2>2
<1> HIDE DEF gone, e, q
<1>4. /\ q.inodes = gone.inodes /\ q.paths[k] \in {Absent, e}
      /\ \A c \in Keys \ {k} : q.paths[c] = gone.paths[c]
  BY <1>1, <1>2, <1>3
<1>5. /\ \A c \in Keys \ {k} : q.paths[c] \in {Absent, r.paths[c]}
      /\ TableFewer(q, r)
  BY <1>1, <1>4 DEF Fewer, EntriesFewer, TableFewer
<1>6. QED BY <1>4, <1>5 DEF e, q

\* remember_positive: at k there is nothing or the new entry, and the table
\* knows the generation of its inode.
LEMMA RememberPositiveFields ==
  ASSUME NEW r \in Resolver, NEW k \in Keys, NEW parent, NEW parentGen, NEW name,
         NEW ino \in Inodes, NEW gen, NEW cacheable \in BOOLEAN
  PROVE  LET q == RememberPositive(r, k, parent, parentGen, name, ino, gen, cacheable)
             e == q.paths[k] IN
         /\ \/ e = Absent
            \/ /\ IsPositive(e) /\ IsPresent(e) /\ e.parent = parent
               /\ e.parentGen = parentGen /\ e.name = name /\ e.ino = ino /\ e.gen = gen
         /\ \A c \in Keys \ {k} : q.paths[c] \in {Absent, r.paths[c]}
         /\ \A i \in Inodes :
              /\ \/ q.inodes[i].gen \in {0, r.inodes[i].gen}
                 \/ i = ino /\ q.inodes[i].gen = gen
              /\ q.inodes[i].attr \in Attrs => q.inodes[i].attr = r.inodes[i].attr
<1> DEFINE taken == TakeReusable(r, k, ino, cacheable)
           kept == ReusedLookups(r, k, ino, cacheable)
           q == RememberPositive(r, k, parent, parentGen, name, ino, gen, cacheable)
<1>1. Fewer(taken, r) /\ taken.paths[k] = Absent
  <2>1. {k} \in SUBSET Keys
    OBVIOUS
  <2>2. QED BY <2>1, ReleaseFewer DEF TakeReusable
<1>2. /\ taken = [paths |-> taken.paths, inodes |-> taken.inodes,
                  pending |-> taken.pending, negativeTtl |-> taken.negativeTtl]
      /\ taken.paths = [c \in Keys |-> taken.paths[c]]
      /\ taken.inodes = [i \in Inodes |-> taken.inodes[i]]
  <2>1. Release(r, {k}) = Retain(
           [paths |-> Remove(r, {k}).paths,
            inodes |-> [i \in Inodes |->
              [r.inodes[i] EXCEPT !.refcount = @ - Released(r, {k}, i)]],
            pending |-> [i \in Inodes |-> r.pending[i] + Released(r, {k}, i)],
            negativeTtl |-> r.negativeTtl])
    BY DEF Release
  <2>2. CASE taken = Release(r, {k})
    <3> DEFINE b == [paths |-> Remove(r, {k}).paths,
            inodes |-> [i \in Inodes |->
              [r.inodes[i] EXCEPT !.refcount = @ - Released(r, {k}, i)]],
            pending |-> [i \in Inodes |-> r.pending[i] + Released(r, {k}, i)],
            negativeTtl |-> r.negativeTtl]
    <3>1. /\ b = [paths |-> b.paths, inodes |-> b.inodes, pending |-> b.pending,
                  negativeTtl |-> b.negativeTtl]
          /\ b.paths = Remove(r, {k}).paths
      OBVIOUS
    <3>2. b.paths = [c \in Keys |-> b.paths[c]]
      BY <3>1 DEF Remove, Resolver
    <3>3. taken = Retain(b)
      BY <2>1, <2>2
    <3> HIDE DEF b
    <3>4. taken = [paths |-> b.paths, inodes |-> [i \in Inodes |->
             IF b.inodes[i].refcount > 0 \/ b.inodes[i].attr \in Attrs
               THEN b.inodes[i] ELSE Untracked],
             pending |-> b.pending, negativeTtl |-> b.negativeTtl]
      BY <3>1, <3>3 DEF Retain
    <3>5. QED BY <3>2, <3>4
  <2>3. CASE taken = Remove(r, {k})
    BY <2>3 DEF Remove, Resolver
  <2>4. QED BY <2>2, <2>3 DEF TakeReusable
<1> HIDE DEF taken, kept
<1>3. CASE cacheable
  <2> DEFINE e == [kind |-> "positive", parent |-> parent, parentGen |-> parentGen,
                   name |-> name, ino |-> ino, gen |-> gen, live |-> TRUE,
                   outstanding |-> [kept EXCEPT ![ino] = @ + 1]]
             s == [tracked |-> TRUE, attr |-> taken.inodes[ino].attr, gen |-> gen,
                   refcount |-> taken.inodes[ino].refcount + 1]
  <2>1. /\ q.paths = [taken.paths EXCEPT ![k] = e]
        /\ q.inodes = [taken.inodes EXCEPT ![ino] = s]
    BY <1>3 DEF RememberPositive, taken, kept
  <2>2. /\ IsPositive(e) /\ IsPresent(e) /\ e.parent = parent
        /\ e.parentGen = parentGen /\ e.name = name /\ e.ino = ino /\ e.gen = gen
        /\ s.gen = gen /\ s.attr = taken.inodes[ino].attr
    BY DEF IsPositive, IsPresent
  <2> HIDE DEF e, s, q
  <2>3. /\ q.paths[k] = e /\ \A c \in Keys \ {k} : q.paths[c] = taken.paths[c]
        /\ q.inodes[ino] = s /\ \A i \in Inodes \ {ino} : q.inodes[i] = taken.inodes[i]
    BY <1>2, <2>1
  <2>4. /\ \A c \in Keys \ {k} : q.paths[c] \in {Absent, r.paths[c]}
        /\ \A i \in Inodes :
              /\ \/ q.inodes[i].gen \in {0, r.inodes[i].gen}
                 \/ i = ino /\ q.inodes[i].gen = gen
              /\ q.inodes[i].attr \in Attrs => q.inodes[i].attr = r.inodes[i].attr
    BY <1>1, <2>2, <2>3 DEF Fewer, EntriesFewer, TableFewer
  <2>5. QED BY <2>2, <2>3, <2>4 DEF q
<1>4. CASE ~cacheable
  <2> DEFINE b == [taken EXCEPT !.pending[ino] = @ + 1]
  <2>1. q = Retain(b)
    BY <1>4 DEF RememberPositive, taken, kept
  <2>2. /\ b.paths = taken.paths /\ b.inodes = taken.inodes
        /\ b = [paths |-> b.paths, inodes |-> b.inodes, pending |-> b.pending,
                negativeTtl |-> b.negativeTtl]
    BY <1>2
  <2> HIDE DEF b
  <2>3. Fewer(Retain(b), b)
    BY <1>2, <2>2, RetainFewer
  <2>4. Fewer(b, taken)
    BY <2>2, FewerSame
  <2>5. Fewer(Retain(b), r)
    BY <1>1, <2>3, <2>4, FewerTrans
  <2>6. Retain(b).paths[k] = Absent
    BY <1>1, <2>2 DEF Retain
  <2> HIDE DEF q
  <2>7. QED BY <2>1, <2>5, <2>6 DEF Fewer, EntriesFewer, TableFewer, q
<1>5. QED BY <1>3, <1>4

=============================================================================
