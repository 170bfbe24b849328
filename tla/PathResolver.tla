----------------------------- MODULE PathResolver -----------------------------
(***************************************************************************)
(* The path resolver under the most general client: every method of        *)
(* src/dokan_impl/adapter/state.rs, called in any order with any           *)
(* arguments, by request handlers and by the notification thread, and time *)
(* passing between any two calls.                                          *)
(*                                                                         *)
(* Beside the resolver the module keeps the file system's side of the      *)
(* lookup protocol: every entry reply it gives adds one to the lookup      *)
(* count of the inode, every forget it receives takes its nlookup off.     *)
(* The count is external to src/ and is modelled from the calls src/       *)
(* makes: fs.lookup and fs.create on one side, fs.forget on the other.     *)
(***************************************************************************)
EXTENDS ResolverState

CONSTANT MaxLookups  \* bound on the lookups one inode is granted at a time

ASSUME MaxLookupsAssumption == MaxLookups \in Nat

VARIABLES
  resolver,  \* the PathResolver
  nlookup,   \* nlookup[i]: the file system's lookup count of inode i
  lost       \* lost[i]: lookups on i whose forget was handed back and dropped

vars == <<resolver, nlookup, lost>>

TypeOK ==
  /\ resolver \in Resolver
  /\ nlookup \in [Inodes -> Int]
  /\ lost \in [Inodes -> Nat]

Init ==
  /\ \E negativeTtl \in BOOLEAN : resolver = EmptyResolver(negativeTtl)
  /\ nlookup = [i \in Inodes |-> 0]
  /\ lost = [i \in Inodes |-> 0]

\* fs.forget for every pair that a method handed back: r.pending.
Forget(r) == nlookup' = [i \in Inodes |-> nlookup[i] - r.pending[i]]

-----------------------------------------------------------------------------
(* Calls of the request handlers *)

QueryCached(k, parent, parentGen) ==
  /\ resolver' = Cached(resolver, k, parent, parentGen)
  /\ UNCHANGED <<nlookup, lost>>

\* The file system replied with an entry; remember_lookup / remember_positive.
GrantLookup(k, parent, parentGen, name, ino, gen, cacheable) ==
  /\ nlookup[ino] < MaxLookups
  /\ nlookup' = [nlookup EXCEPT ![ino] = @ + 1]
  /\ resolver' = RememberPositive(resolver, k, parent, parentGen, name, ino, gen,
                                  cacheable)
  /\ UNCHANGED lost

RememberMissing(k, parent, parentGen, name) ==
  /\ resolver' = RememberNegative(resolver, k, parent, parentGen, name)
  /\ UNCHANGED <<nlookup, lost>>

RememberAttributes(ino, attr) ==
  /\ resolver' = RememberAttr(resolver, ino, attr)
  /\ UNCHANGED <<nlookup, lost>>

RememberUncacheableAttributes(ino) ==
  /\ resolver' = ForgetAttr(resolver, ino)
  /\ UNCHANGED <<nlookup, lost>>

QueryAttributes(ino) ==
  /\ resolver' = CachedAttr(resolver, ino)
  /\ UNCHANGED <<nlookup, lost>>

InvalidateAttributes(ino) ==
  /\ resolver' = InvalidateInodeAttr(resolver, ino)
  /\ UNCHANGED <<nlookup, lost>>

InvalidatePath(k) ==
  LET r == InvalidateSubtree(resolver, k) IN
  /\ Forget(r)
  /\ resolver' = Taken(r)
  /\ UNCHANGED lost

Drain ==
  /\ Forget(resolver)
  /\ resolver' = Taken(resolver)
  /\ UNCHANGED lost

DrainExpired ==
  LET r == ReapExpired(resolver) IN
  /\ Forget(r)
  /\ resolver' = Taken(r)
  /\ UNCHANGED lost

-----------------------------------------------------------------------------
(* Calls of the notification thread *)

\* invalidate_entry_from_notify throws away what invalidate_matching returns.
NotifyEntry(parent, name) ==
  LET r == InvalidateEntry(resolver, parent, name) IN
  /\ lost' = [i \in Inodes |-> lost[i] + r.pending[i]]
  /\ resolver' = Taken(r)
  /\ UNCHANGED nlookup

-----------------------------------------------------------------------------
(* Time *)

EntryExpires(k) ==
  /\ IsPresent(resolver.paths[k]) /\ resolver.paths[k].live
  /\ resolver' = ExpireEntry(resolver, k)
  /\ UNCHANGED <<nlookup, lost>>

AttrExpires(ino) ==
  /\ resolver.inodes[ino].attr \in Attrs
  /\ resolver' = ExpireAttr(resolver, ino)
  /\ UNCHANGED <<nlookup, lost>>

-----------------------------------------------------------------------------
Handler ==
  \/ \E k \in Keys, parent \in Inodes, parentGen \in Generations :
       \/ QueryCached(k, parent, parentGen)
       \/ \E name \in Names :
            \/ RememberMissing(k, parent, parentGen, name)
            \/ \E ino \in Inodes, gen \in Generations, cacheable \in BOOLEAN :
                 GrantLookup(k, parent, parentGen, name, ino, gen, cacheable)
  \/ \E ino \in Inodes :
       \/ \E attr \in Attrs : RememberAttributes(ino, attr)
       \/ RememberUncacheableAttributes(ino)
       \/ QueryAttributes(ino)
       \/ InvalidateAttributes(ino)
  \/ \E k \in Keys : InvalidatePath(k)
  \/ Drain
  \/ DrainExpired

Notifier == \E parent \in Inodes, name \in Names : NotifyEntry(parent, name)

Time == \/ \E k \in Keys : EntryExpires(k)
        \/ \E ino \in Inodes : AttrExpires(ino)

Next == Handler \/ Notifier \/ Time

Spec == Init /\ [][Next]_vars

-----------------------------------------------------------------------------
(* Properties *)

Held(i) == Cardinality(Refs(resolver, i))

\* The refcount of an inode is the number of lookups the cached entries hold
\* on it: no call sequence of remember_positive, release_outstanding and the
\* invalidations may let the two drift (state.rs:247-263, 382-393).
RefcountMatches == \A i \in Inodes : resolver.inodes[i].refcount = Held(i)

\* Every lookup the file system counts is held by a cache entry, is queued to
\* be forgotten, or was dropped by the notifier; the adapter forgets nothing
\* twice and nothing it was not granted (remember_positive, reap_expired).
LookupsAccountedFor ==
  \A i \in Inodes : nlookup[i] = Held(i) + resolver.pending[i] + lost[i]

\* No forget takes a lookup count of the file system below zero.
NeverOverForgotten == \A i \in Inodes : nlookup[i] >= 0

\* An entry holds lookups only on the inode it names, and at least one: the
\* answer of cached always names an inode the file system still knows
\* (take_reusable_outstanding, state.rs:213-228).
EntriesPinTheirInode ==
  \A k \in PositiveKeys(resolver) : \A i \in Inodes :
    (resolver.paths[k].outstanding[i] > 0) <=> (resolver.paths[k].ino = i)

\* An inode leaves the table only when nothing holds a lookup on it, so the
\* early return self.inodes.get(&ino)? in cached is never taken, and a lookup
\* that release_outstanding gives up is always queued (state.rs:148, 384).
HeldInodesTracked ==
  \A i \in Inodes : Refs(resolver, i) # {} => resolver.inodes[i].tracked

\* The resolver keeps the ledger of lookups: a step grants one, returns some
\* by forgetting them, or (the notifier) discards some.
Ledger == INSTANCE LookupLedger WITH
  owed <- nlookup, held <- [i \in Inodes |-> Held(i) + resolver.pending[i]]
KeepsLedger == Ledger!Spec

\* The inductive invariant: the books of the resolver (ResolverInv) and those of
\* the file system's side balance.
IInv ==
  /\ ResolverInv(resolver)
  /\ nlookup \in [Inodes -> Int] /\ lost \in [Inodes -> Nat]
  /\ LookupsAccountedFor

\* What the repository's tests say of lookups that leave the cache: their
\* forgets are delivered, none is lost.
NothingLost == \A i \in Inodes : lost[i] = 0

=============================================================================
