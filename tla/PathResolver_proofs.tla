-------------------------- MODULE PathResolver_proofs --------------------------
(***************************************************************************)
(* Proofs about the path resolver under the most general client.  A step   *)
(* leaves what is owed to the file system alone, or grants a lookup, or    *)
(* returns some, or drops some: see StepKinds.                             *)
(***************************************************************************)
EXTENDS PathResolver, ResolverState_proofs

(* The specification *)

(* The inductive invariant.  LookupsAccountedFor is not inductive by       *)
(* itself: that release_outstanding gives up as many lookups as the entry  *)
(* held needs the refcounts to be exact, and these need every inode that   *)
(* is held to be in the table and every entry to hold lookups on its own   *)
(* inode only.                                                             *)

\* LookupsAccountedFor in terms of Owed.
LEMMA Accounting ==
  ASSUME ResolverInv(resolver), lost \in [Inodes -> Nat]
  PROVE  LookupsAccountedFor <=>
           \A i \in Inodes : nlookup[i] = Owed(resolver, i) + lost[i]
BY OwedType DEF LookupsAccountedFor, Held, Owed

\* LookupsAccountedFor after a step, in terms of Owed.
LEMMA AccountingNext ==
  ASSUME ResolverInv(resolver'), lost' \in [Inodes -> Nat]
  PROVE  LookupsAccountedFor' <=>
           \A i \in Inodes : nlookup'[i] = Owed(resolver', i) + lost'[i]
BY OwedType DEF LookupsAccountedFor, Held, Owed

\* How each kind of step moves the three books.
Quiet ==
  /\ ResolverInv(resolver')
  /\ \A i \in Inodes : Owed(resolver', i) = Owed(resolver, i)
  /\ UNCHANGED <<nlookup, lost>>
Granted ==
  \E ino \in Inodes :
    /\ ResolverInv(resolver')
    /\ Owed(resolver', ino) = Owed(resolver, ino) + 1
    /\ \A i \in Inodes \ {ino} : Owed(resolver', i) = Owed(resolver, i)
    /\ nlookup' = [nlookup EXCEPT ![ino] = @ + 1]
    /\ UNCHANGED lost
Returned ==
  \E f \in [Inodes -> Nat] :
    /\ ResolverInv(resolver')
    /\ \A i \in Inodes : Owed(resolver', i) = Owed(resolver, i) - f[i]
    /\ nlookup' = [i \in Inodes |-> nlookup[i] - f[i]]
    /\ UNCHANGED lost
Discarded ==
  \E f \in [Inodes -> Nat] :
    /\ ResolverInv(resolver')
    /\ \A i \in Inodes : Owed(resolver', i) = Owed(resolver, i) - f[i]
    /\ lost' = [i \in Inodes |-> lost[i] + f[i]]
    /\ UNCHANGED nlookup

\* The inductive invariant holds at first: nothing is cached, owed or lost.
LEMMA InitInv == Init => IInv
<1> SUFFICES ASSUME Init PROVE IInv
  OBVIOUS
<1>1. PICK negativeTtl \in BOOLEAN : resolver = EmptyResolver(negativeTtl)
  BY DEF Init
<1>2. /\ ResolverInv(resolver)
      /\ \A i \in Inodes : Refs(resolver, i) = {} /\ resolver.pending[i] = 0
  BY <1>1, EmptyResolverInv
<1>3. LookupsAccountedFor
  BY <1>2, FS_EmptySet DEF Init, LookupsAccountedFor, Held
<1>4. QED BY <1>2, <1>3 DEF Init, IInv

\* Every step of the specification is one of the four.
LEMMA StepKinds ==
  ASSUME IInv, Next
  PROVE  Quiet \/ Granted \/ Returned \/ Discarded
<1>0. ResolverInv(resolver) /\ resolver.pending \in [Inodes -> Nat]
  BY DEF IInv, ResolverInv, Resolver
<1>1. ASSUME NEW k \in Keys, NEW parent \in Inodes, NEW parentGen \in Generations,
             QueryCached(k, parent, parentGen)
      PROVE  Quiet
  BY <1>0, <1>1, CachedInv DEF QueryCached, Quiet
<1>2. ASSUME NEW k \in Keys, NEW parent \in Inodes, NEW parentGen \in Generations,
             NEW name \in Names, RememberMissing(k, parent, parentGen, name)
      PROVE  Quiet
  BY <1>0, <1>2, RememberNegativeInv DEF RememberMissing, Quiet
<1>3. ASSUME NEW k \in Keys, NEW parent \in Inodes, NEW parentGen \in Generations,
             NEW name \in Names, NEW ino \in Inodes, NEW gen \in Generations,
             NEW cacheable \in BOOLEAN,
             GrantLookup(k, parent, parentGen, name, ino, gen, cacheable)
      PROVE  Granted
  <2>1. /\ ResolverInv(resolver')
        /\ Owed(resolver', ino) = Owed(resolver, ino) + 1
        /\ \A i \in Inodes \ {ino} : Owed(resolver', i) = Owed(resolver, i)
    BY <1>0, <1>3, RememberPositiveInv DEF GrantLookup
  <2>2. QED BY <1>3, <2>1 DEF GrantLookup, Granted
<1>4. ASSUME NEW ino \in Inodes,
             \/ \E attr \in Attrs : RememberAttributes(ino, attr)
             \/ RememberUncacheableAttributes(ino) \/ QueryAttributes(ino)
             \/ InvalidateAttributes(ino) \/ AttrExpires(ino)
      PROVE  Quiet
  <2>1. UNCHANGED <<nlookup, lost>>
    BY <1>4 DEF RememberAttributes, RememberUncacheableAttributes,
                QueryAttributes, InvalidateAttributes, AttrExpires
  <2>2. \/ \E attr \in Attrs : resolver' = RememberAttr(resolver, ino, attr)
        \/ resolver' = ForgetAttr(resolver, ino)
        \/ resolver' = CachedAttr(resolver, ino)
        \/ resolver' = InvalidateInodeAttr(resolver, ino)
        \/ resolver' = ExpireAttr(resolver, ino)
    BY <1>4 DEF RememberAttributes, RememberUncacheableAttributes,
                QueryAttributes, InvalidateAttributes, AttrExpires
  <2>3. /\ ResolverInv(resolver')
        /\ \A i \in Inodes : Owed(resolver', i) = Owed(resolver, i)
    <3>1. CASE \E attr \in Attrs : resolver' = RememberAttr(resolver, ino, attr)
      BY <1>0, <3>1, RememberAttrInv
    <3>2. CASE resolver' = ForgetAttr(resolver, ino)
      BY <1>0, <3>2, ForgetAttrInv
    <3>3. CASE resolver' = CachedAttr(resolver, ino)
      BY <1>0, <3>3, ForgetAttrInv
    <3>4. CASE resolver' = InvalidateInodeAttr(resolver, ino)
      BY <1>0, <3>4, ForgetAttrInv
    <3>5. CASE resolver' = ExpireAttr(resolver, ino)
      BY <1>0, <3>5, ForgetAttrInv
    <3>6. QED BY <2>2, <3>1, <3>2, <3>3, <3>4, <3>5
  <2>4. QED BY <2>1, <2>3 DEF Quiet
<1>5. ASSUME NEW r, ResolverInv(r), \A i \in Inodes : Owed(r, i) = Owed(resolver, i),
             Forget(r), resolver' = Taken(r), UNCHANGED lost
      PROVE  Returned
  <2>1. r.pending \in [Inodes -> Nat]
    BY <1>5 DEF ResolverInv, Resolver
  <2>2. /\ ResolverInv(resolver')
        /\ \A i \in Inodes : Owed(resolver', i) = Owed(resolver, i) - r.pending[i]
    BY <1>5, TakenInv
  <2>3. QED BY <1>5, <2>1, <2>2 DEF Forget, Returned
<1>6. ASSUME NEW k \in Keys, InvalidatePath(k)
      PROVE  Returned
  <2>1. Subtree(k) \in SUBSET Keys
    BY DEF Subtree
  <2>2. QED BY <1>0, <1>5, <1>6, <2>1, InvalidateInv
            DEF InvalidatePath, InvalidateSubtree
<1>7. ASSUME Drain PROVE Returned
  BY <1>0, <1>5, <1>7 DEF Drain
<1>8. ASSUME DrainExpired PROVE Returned
  BY <1>0, <1>5, <1>8, ReapExpiredInv DEF DrainExpired
<1>9. ASSUME NEW parent \in Inodes, NEW name \in Names, NotifyEntry(parent, name)
      PROVE  Discarded
  <2> DEFINE r == InvalidateEntry(resolver, parent, name)
  <2>1. EntriesNamed(resolver, parent, name) \in SUBSET Keys
    BY DEF EntriesNamed
  <2>2. ResolverInv(r) /\ \A i \in Inodes : Owed(r, i) = Owed(resolver, i)
    BY <1>0, <2>1, InvalidateInv DEF InvalidateEntry
  <2>3. /\ resolver' = Taken(r) /\ UNCHANGED nlookup
        /\ lost' = [i \in Inodes |-> lost[i] + r.pending[i]]
    BY <1>9 DEF NotifyEntry
  <2> HIDE DEF r
  <2>4. r.pending \in [Inodes -> Nat]
    BY <2>2 DEF ResolverInv, Resolver
  <2>5. /\ ResolverInv(resolver')
        /\ \A i \in Inodes : Owed(resolver', i) = Owed(resolver, i) - r.pending[i]
    BY <2>2, <2>3, TakenInv
  <2>6. QED BY <2>3, <2>4, <2>5 DEF Discarded
<1>10. ASSUME NEW k \in Keys, EntryExpires(k)
       PROVE  Quiet
  BY <1>0, <1>10, ExpireEntryInv DEF EntryExpires, Quiet
<1>11. QED
  BY <1>1, <1>2, <1>3, <1>4, <1>6, <1>7, <1>8, <1>9, <1>10
     DEF Next, Handler, Notifier, Time

\* Every step, of a handler, of the notifier or of time, preserves it.
LEMMA NextInv == IInv /\ [Next]_vars => IInv'
<1>1. ASSUME IInv, Next PROVE IInv'
  <2>0. /\ nlookup \in [Inodes -> Int] /\ lost \in [Inodes -> Nat]
        /\ \A i \in Inodes : nlookup[i] = Owed(resolver, i) + lost[i]
        /\ \A i \in Inodes : Owed(resolver, i) \in Nat
    BY <1>1, Accounting, OwedType DEF IInv
  <2>1. /\ ResolverInv(resolver') /\ lost' \in [Inodes -> Nat]
        /\ nlookup' \in [Inodes -> Int]
        /\ \A i \in Inodes : nlookup'[i] = Owed(resolver', i) + lost'[i]
    <3>1. CASE Quiet
      BY <2>0, <3>1 DEF Quiet
    <3>2. CASE Granted
      <4>1. PICK ino \in Inodes :
              /\ ResolverInv(resolver')
              /\ Owed(resolver', ino) = Owed(resolver, ino) + 1
              /\ \A i \in Inodes \ {ino} : Owed(resolver', i) = Owed(resolver, i)
              /\ nlookup' = [nlookup EXCEPT ![ino] = @ + 1]
              /\ UNCHANGED lost
        BY <3>2 DEF Granted
      <4>2. nlookup'[ino] = Owed(resolver', ino) + lost'[ino]
        BY <2>0, <4>1
      <4>3. \A i \in Inodes \ {ino} : nlookup'[i] = Owed(resolver', i) + lost'[i]
        BY <2>0, <4>1
      <4>4. nlookup' \in [Inodes -> Int]
        BY <2>0, <4>1
      <4>5. QED BY <2>0, <4>1, <4>2, <4>3, <4>4
    <3>3. CASE Returned
      BY <2>0, <3>3 DEF Returned
    <3>4. CASE Discarded
      BY <2>0, <3>4 DEF Discarded
    <3>5. QED BY <1>1, <3>1, <3>2, <3>3, <3>4, StepKinds
  <2>2. QED BY <2>1, AccountingNext DEF IInv
<1>2. ASSUME IInv, UNCHANGED vars PROVE IInv'
  <2>1. resolver' = resolver /\ nlookup' = nlookup /\ lost' = lost
    BY <1>2 DEF vars
  <2>2. ResolverInv(resolver')
    BY <1>2, <2>1 DEF IInv
  <2>3. lost' \in [Inodes -> Nat] /\ nlookup' \in [Inodes -> Int]
    BY <1>2, <2>1 DEF IInv
  <2>4. \A i \in Inodes : nlookup'[i] = Owed(resolver', i) + lost'[i]
    BY <1>2, <2>1, Accounting DEF IInv
  <2>5. QED BY <2>2, <2>3, <2>4, AccountingNext DEF IInv
<1>3. QED BY <1>1, <1>2

\* The inductive invariant holds in every reachable state, for any set of
\* paths, names, inodes and generations and any bound on the lookups.
THEOREM Invariance == Spec => []IInv
BY InitInv, NextInv, PTL DEF Spec

\* The resolver, the file system's counts and the discarded lookups have their
\* types in every reachable state.
THEOREM TypeCorrect == Spec => []TypeOK
<1>1. IInv => TypeOK
  BY DEF IInv, ResolverInv, TypeOK
<1>2. QED BY <1>1, Invariance, PTL

\* lookup_refcount is the number of lookups the cached entries hold.
THEOREM RefcountsExact == Spec => []RefcountMatches
<1>1. IInv => RefcountMatches
  BY DEF IInv, ResolverInv, RefcountMatches, Held
<1>2. QED BY <1>1, Invariance, PTL

\* The file system's lookup count of an inode is exactly what cached entries
\* hold, what is queued to be forgotten and what the notifier dropped.
THEOREM AccountingHolds == Spec => []LookupsAccountedFor
<1>1. IInv => LookupsAccountedFor
  BY DEF IInv
<1>2. QED BY <1>1, Invariance, PTL

\* No sequence of calls forgets a lookup that was not granted.
THEOREM OverForgetImpossible == Spec => []NeverOverForgotten
<1>1. IInv => NeverOverForgotten
  BY Accounting, OwedType DEF IInv, NeverOverForgotten
<1>2. QED BY <1>1, Invariance, PTL

\* A cached entry holds lookups on the inode it answers with, and no other.
THEOREM CachedInodesPinned == Spec => []EntriesPinTheirInode
<1>1. IInv => EntriesPinTheirInode
  BY DEF IInv, ResolverInv, EntriesPinTheirInode
<1>2. QED BY <1>1, Invariance, PTL

\* Any inode a cached entry holds a lookup on is in the inode table.
THEOREM HeldInodesInTable == Spec => []HeldInodesTracked
<1>1. IInv => HeldInodesTracked
  <2> SUFFICES ASSUME IInv, NEW i \in Inodes, Refs(resolver, i) # {}
               PROVE  resolver.inodes[i].tracked
    BY DEF HeldInodesTracked
  <2>1. ResolverInv(resolver)
    BY DEF IInv
  <2>2. IsFiniteSet(Refs(resolver, i)) /\ Cardinality(Refs(resolver, i)) \in Nat
    BY <2>1, OwedType DEF ResolverInv
  <2>3. Cardinality(Refs(resolver, i)) # 0
    BY <2>2, FS_EmptySet
  <2>4. resolver.inodes[i].refcount > 0
    BY <2>1, <2>2, <2>3 DEF ResolverInv
  <2>5. QED BY <2>1, <2>4 DEF ResolverInv
<1>2. QED BY <1>1, Invariance, PTL

-----------------------------------------------------------------------------
(* The ledger *)

\* Every step of the resolver is a step of the ledger, or leaves it unchanged.
LEMMA LedgerStep ==
  ASSUME IInv, IInv', [Next]_vars
  PROVE  [Ledger!Next]_<<nlookup, [i \in Inodes |-> Held(i) + resolver.pending[i]]>>
<1> DEFINE held == [i \in Inodes |-> Held(i) + resolver.pending[i]]
<1>1. /\ held = [i \in Inodes |-> Owed(resolver, i)]
      /\ held' = [i \in Inodes |-> Owed(resolver', i)]
  BY DEF Held, Owed
<1>2. /\ \A i \in Inodes : Owed(resolver, i) \in Nat
      /\ \A i \in Inodes : Owed(resolver', i) \in Nat
      /\ nlookup \in [Inodes -> Int]
  BY OwedType DEF IInv
<1> HIDE DEF held
<1>3. CASE Quiet
  BY <1>1, <1>3 DEF Quiet, held
<1>4. CASE Granted
  <2>1. PICK ino \in Inodes :
          /\ Owed(resolver', ino) = Owed(resolver, ino) + 1
          /\ \A i \in Inodes \ {ino} : Owed(resolver', i) = Owed(resolver, i)
          /\ nlookup' = [nlookup EXCEPT ![ino] = @ + 1]
    BY <1>4 DEF Granted
  <2>2. held' = [held EXCEPT ![ino] = @ + 1]
    BY <1>1, <2>1
  <2>3. Ledger!Grant(ino)
    BY <2>1, <2>2 DEF Ledger!Grant, held
  <2>4. QED BY <2>3 DEF Ledger!Next
<1>5. CASE Returned
  <2>1. PICK f \in [Inodes -> Nat] :
          /\ \A i \in Inodes : Owed(resolver', i) = Owed(resolver, i) - f[i]
          /\ nlookup' = [i \in Inodes |-> nlookup[i] - f[i]]
    BY <1>5 DEF Returned
  <2>2. \A i \in Inodes : /\ held'[i] \in Int /\ 0 <= held'[i]
                          /\ held'[i] <= held[i] /\ held[i] - held'[i] = f[i]
    BY <1>1, <1>2, <2>1
  <2>3. held' = [i \in Inodes |-> held'[i]]
    BY <1>1
  <2>4. nlookup' = [i \in Inodes |-> nlookup[i] - (held[i] - held'[i])]
    BY <2>1, <2>2
  <2>5. Ledger!Return
    BY <2>2, <2>3, <2>4 DEF Ledger!Return, Ledger!GiveUp, held
  <2>6. QED BY <2>5 DEF Ledger!Next
<1>6. CASE Discarded
  <2>1. PICK f \in [Inodes -> Nat] :
          /\ \A i \in Inodes : Owed(resolver', i) = Owed(resolver, i) - f[i]
          /\ UNCHANGED nlookup
    BY <1>6 DEF Discarded
  <2>2. \A i \in Inodes : /\ held'[i] \in Int /\ 0 <= held'[i]
                          /\ held'[i] <= held[i]
    BY <1>1, <1>2, <2>1
  <2>3. held' = [i \in Inodes |-> held'[i]]
    BY <1>1
  <2>4. Ledger!Discard
    BY <2>1, <2>2, <2>3 DEF Ledger!Discard, Ledger!GiveUp, held
  <2>5. QED BY <2>4 DEF Ledger!Next
<1>7. CASE UNCHANGED vars
  BY <1>7 DEF vars, Held
<1>8. QED BY <1>3, <1>4, <1>5, <1>6, <1>7, StepKinds

\* The resolver implements the ledger of lookups.
THEOREM ResolverKeepsLedger == Spec => KeepsLedger
<1>1. Init => Ledger!Init
  <2> SUFFICES ASSUME Init PROVE Ledger!Init
    OBVIOUS
  <2>1. IInv
    BY InitInv
  <2>2. nlookup = [i \in Inodes |-> 0] /\ lost = [i \in Inodes |-> 0]
    BY DEF Init
  <2>3. \A i \in Inodes : Owed(resolver, i) = 0
    BY <2>1, <2>2, Accounting, OwedType DEF IInv
  <2>4. QED BY <2>2, <2>3 DEF Ledger!Init, Held, Owed
<1>2. IInv /\ IInv' /\ [Next]_vars =>
        [Ledger!Next]_<<nlookup, [i \in Inodes |-> Held(i) + resolver.pending[i]]>>
  BY LedgerStep
<1>3. QED BY <1>1, <1>2, Invariance, PTL DEF Spec, KeepsLedger, Ledger!Spec
=============================================================================
