# confuse: a verification project for the Dokan adapter

`confuse` gives Windows programs a fuser-style `Filesystem` trait and mounts it
through Dokan. Windows names files by path and counts nothing; the trait names
them by inode number and counts the *lookups* the caller holds on each number.
Translating between the two, with caches and with notifications from the file
system in between, is where the program's difficulty lies, and what this
project models, checks and proves.

All paths below are relative to `src/` of the checkout (the crate's own code is
in `src/src`, `adapter/` is `src/src/dokan_impl/adapter/`).

## The system

| Component | State | Operations | Interacts with |
|---|---|---|---|
| Path resolver (`adapter/state.rs`) | path cache, inode table with refcounts and cached attributes, queue of forgets | `cached`, `remember_*`, `invalidate_*`, `reap_expired`, `take_pending_forgets` | called under its own mutex by handlers and by the notifier |
| Path walks (`adapter/path_routes.rs`) | none of its own | `resolve_path_ino`, the drains, `finish_metadata_mutation`, `remember_created_path` | resolver, `Filesystem::lookup` and `forget` |
| Handlers (`adapter/handler_methods`, `create_routes.rs`, `routes.rs`) | a context per handle | the Dokan callbacks | hold the `fs` mutex from first to last statement |
| Handle tables (`adapter_state.rs`: `handles`, `dir_offsets`) | maps keyed by path | remembered on open, remapped on rename, dropped on close | handlers |
| Directory enumeration (`directory_routes.rs`) | offset per path | `find_files`, `find_files_with_pattern` | resolver (readdirplus grants lookups) |
| Notifier (`src/src/fuser_facade/notifier.rs`) | none | `inval_inode`, `inval_entry`, `delete`, `store`, `poll` | resolver mutex only, from any thread |
| Session (`src/src/fuser_facade/session.rs`) | `mount_state`, `destroyed`, the mount thread | mount, unmount, join, drop | Dokan |
| Reply cells (`src/src/fuser_facade/reply`) | one cell per callback | captured, written by the file system, read when the callback returns | handlers, `TokioAdapter` |
| Asynchronous adapter (`experimental.rs`) | tokio runtime | callbacks answered by a task | reply cells |
| Mount options (`mount_options.rs`), helpers, security descriptors | none | pure functions | session, handlers |
| memfs example (`examples/memfs`) | inodes by number, children by parent and name | the `Filesystem` methods | called by handlers |
| request and type definitions, non-Windows re-export | - | - | - |

What makes it hard:

* **Two locks.** A handler holds the `fs` mutex throughout and takes the
  resolver mutex for one method at a time. The notifier takes only the resolver
  mutex. Every critical section of the resolver is therefore a point where a
  notification, an expiry or a change of the file system itself can come between
  a reply and its use, or between a decision and its effect.
* **Lookups must balance.** Each entry reply adds one to a count in the file
  system, and the adapter has to return exactly what it was given, through
  replacement, expiry, eviction, invalidation, ttl 0 replies and errors.
* **An inode number must not be used after it was forgotten**, although ttl 0
  lookups are owed back at once and walks hold numbers across several calls.
* **Tables keyed by path** hold what belongs to open handles. A path is only the
  name a file had when the request was sent: renames move whole subtrees of keys,
  several handles share a key, and `close_file` takes its keys out in two steps
  after it gave up the `fs` mutex.
* **Answers have parts, and may be late.** Entries and status of a listing are
  read one after the other; behind `TokioAdapter` a task may still be writing
  them, or begin after the handler has left.
* **A cache of positive and negative names** must not survive create, delete and
  rename, of files and of whole subtrees, nor the reuse of a directory's number.

The full list, at the lines where it bites, is under `hazards` in
`PROJECT.json`, with the property that covers each or the reason none does yet.

## The modules

| Module | Models | Source |
|---|---|---|
| `ResolverState` | the `PathResolver` and each method as an operator from state to state | `adapter/state.rs` |
| `PathResolver` | those methods called in any order with any arguments, beside the file system's lookup counts | `state.rs`, its callers in `path_routes.rs` |
| `LookupLedger` | the abstract specification: lookups are granted, returned, or discarded | what `lookup`, `create` and `forget` promise |
| `FileTree` | the file system behind the trait: names, generations, attributes, counts | external |
| `DokanAdapter` | the request handlers step by step, over resolver and file system, with the notifier, time and changes of the file system itself | `path_routes.rs`, `create_routes.rs`, `routes.rs`, `handler_methods/*`, `notifier.rs` |
| `SessionLifecycle` | sessions from `Session::new` to the last drop: owner, unmounter, mount thread, Dokan's threads | `session.rs`, `mounted` and `unmounted` in `handler_methods/dispatch.rs` |
| `MemFs` | the example file system: its two maps and every method that reads or changes them | `examples/memfs/main.rs`, `inode.rs`, `storage.rs` |
| `IoPlan` | the arithmetic on offsets and lengths | `helpers.rs`, `helpers/operations.rs`, `helpers/security.rs` |
| `MountConfig` | which configurations are accepted, and the options of the mount that come of them | `mount_options.rs`, `session.rs`, `operations.rs` |
| `MountedMemFs` | the three put together: open handles, the tables, listings, renames, delete on close, reads and writes of memfs behind the adapter | `handler_methods/*`, `create_routes.rs`, `routes.rs`, `directory_routes.rs`, `adapter_state.rs` |
| `Replies` | reply cells, and who writes and reads them when: lookups, listings, security descriptors, with and without `TokioAdapter` | `reply/api.rs`, `experimental.rs`, `directory_routes.rs`, `security_locks_streams.rs` |
| `AdapterInvariant`, `AdapterCoherence` | the inductive invariants of `DokanAdapter`: what a handler knows at each step and how the lookups add up; how entries, walks and replies sit in the tree of the file system | |
| `PathResolver_proofs`, `DokanAdapter_proofs`, `AdapterCoherence_proofs`, `SessionLifecycle_proofs`, `MountedMemFs_proofs`, `Replies_proofs` | theorems about these modules; that about `IoPlan` are in `MountedMemFs_proofs` | |
| `ResolverState_proofs`, `FileTree_proofs` | lemmas about the operators of the two, for the proofs of `PathResolver` and `DokanAdapter` | |
| `MCPathResolver`, `MCDokanAdapter`, `MCSessionLifecycle`, `MCMountedMemFs`, `MCReplies` | the instances TLC checks | |

### State and actions against the code

`ResolverState`. A resolver is the record of its four fields. `paths` maps a key
to an entry or `Absent`; `inodes` maps a number to its state, `tracked` saying
that it is in the table; `pending` is the queue of forgets as a bag: the code
appends pairs and delivers them all, so only the sums matter. `outstanding`, a
vector of pairs in the code, is a function for the same reason. Time is the flag
`live`, lowered by `ExpireEntry`; for attributes the value `StaleAttr` says that
`attr_expires` lies in the past. A method that hands forgets back returns them in
`pending`; its caller delivers and empties them (`Taken`). Keys are sequences of
case-folded names: normalisation happened before.

`PathResolver`. One action per method and caller. `NotifyEntry` puts the forgets
the notifier throws away into `lost`, so that the books still balance and the
loss is visible. `nlookup` is the file system's side.

`DokanAdapter`. `op` is the one active handler (the `fs` mutex admits one):
`pc` is its next step, `walk` the path it is resolving, `ino` what it resolved so
far for each purpose, `ctx` the inode of its handle, `next` where it continues
after a drain. A step is one critical section of the resolver or one callback.
Handlers that perform the same steps share a request kind; the header of the
module lists them. Consecutive critical sections are merged only where nothing
can be told apart in between: dropping the attributes of two inodes, which
commute with everything the notifier does, and the delivery of forgets with the
taking of them, which no other thread can observe because the handler holds the
`fs` mutex. A drain directly after a drain has nothing to deliver unless the
notifier ran in between, and the notifier empties the queue as well, so the
second drains of `create`, `cleanup` and `move` after a failed walk are left
out. `delete` on the notifier calls the resolver twice under one lock and is one
step.

A handle is the inode its path names when the request is made, or none. Names in
entries are case-folded on both sides of the notifier's comparison.

`FileTree` answers as a file system should: `lookup` finds what is there,
`create` fails on what exists, a number is reused only after nothing names it and
its count is zero, and then with the next generation. With `Faulty` any callback
may fail for no visible reason, a missing reply included. The tree has two
levels: directories live in the root.

By itself the file system touches, makes, removes and renames files, makes
directories and removes them with all that is in them, and owes a notification
for each change (`notices`), which it sends at any later time in any order. Of a
directory that goes it announces only the directory: what was cached below stays,
and only the generation keeps it from being answered once the number is reused. It does not rename
directories by itself: the notifications of the trait name only the two entries,
and the adapter keeps the entries below the old path, which are keyed by path
(see the hazard at `state.rs:402`).

`SessionLifecycle`. It shares no state with the other modules: the resolver is
only handed through, and of the callbacks it matters that they hold the `fs`
mutex, not what they do. So `Request` is any callback, `mounted` included, and
`holder` is the one inside the mutex. `thr` runs through `Session::run` and the
drop of the `Session` behind it, on the thread of `mount2` or the spawned one;
`owner` is where the user of the `Session` or `BackgroundSession` is, with the
pending drop of the mount guard as `join` and `drop`. The `mount_state` mutex is
held over the call of Dokan, so `UnmountOnce` is one step; `facade_unmounted_with`
is two, `destroy` and then the flag, because the drop of the session swaps the
flag without the `fs` mutex. A panic of the `Filesystem` poisons the mutex, and
every later lock of it gives up. Of Dokan the module assumes what `run` relies
on: a file system is closed only when its volume and its callbacks are gone.
`unmounted` may never come. `taken` and `refused` record what the unmounts did.
After a `shutdown` under another session the model goes on as if nothing had
happened; only the step itself is judged.

`MemFs` is the state of memfs as a record: `nodes` by inode number, `children`
by parent and name, `next`, the number given out next. Each method is an operator
that answers a status and, if it changes anything, the store after it. It is as
lax as the code: `rename` replaces whatever is there without looking, also a
directory with entries, and moves a directory below itself.

`MountedMemFs`. A handler holds the `fs` mutex from its first line to its last
and is one step. Paths are resolved by walking the store, because `DokanAdapter`
shows that the cached walk arrives at the same place. `handles` and `dirOffsets`
are the two tables of `DokanAdapter`, keyed by path; of `handles` only the keys
matter, because memfs gives out no `fh`. `open` is Windows' side and the context:
`path` is the name Dokan has for the handle, `name` the one that was copied when
the request in progress was sent. Listing, cleanup, close and move, which go by that
name, are sent in one step and handled in another, so a rename can come between
(`SendMove`, then `MoveFile` or `MoveFails`). The others are handled when sent: they go
by the inode of the context, or, opening a file, have no handle yet that could be
renamed. A move that comes late renames what has the old name by then and remaps the
tables for it, while Dokan gives the new name to the handles of the file that was moved
away: `AfterMove` does the latter, from the path the handle has, `MoveFile` the former,
from the name in the request. A listing reads and keeps its offset in one step. In the
code another handle's `close_file`, which takes its key out without the `fs` mutex, may
fall between the two; the two handles have the same key then, and the listing is no
longer `exact` with or without that step. `close_file` is two steps, and with one thread
(`n_threads = 1`) nothing else runs between them. `MountConfig` is part of it because
`run` decides by the configuration how many threads there are; the flags of the volume
are computed beside it.

Four ghosts say when a property lets a handle go: `displaced` (its place was taken
by something that replaced it, it was deleted, it was moved below itself, or a late
move mixed it up with another: it was at or below the name of the request, or at or
below the path of the handle that sent it),
`overtaken` (a request ran under a name its file no longer had), `exact` (false
when another handle used the same key, when entries of the directory were removed
or renamed, or when the path had an offset already) and `twice`.

`IoPlan` has the width of the integers as constants: `I64Max` and `U32Max` are
small in the instance and anything in the proofs. A record with `ok` false is
`STATUS_INVALID_PARAMETER`.

`MountConfig`. An option is its name, a `CUSTOM` option its value folded in case.
The number of threads overrides what the options say of `single_thread`
(`session.rs:190`), as the code has it: the option, which `to_dokan_mount_options` turns
into a flag (`basic.rs:366` tests that), has no effect on a mount. The options that ask
for named streams are two lists, `DriverStreams` and `VolumeStreams`, because the code
has two.

`Replies`. `reply` is the reply the current handler looks at: a number and its
cells. `capture` makes new cells, so a task that still holds the old ones writes
into nothing; `tasks` is what is still to be written, one cell at a time. Without
`TokioAdapter` a callback does all its writing before it returns (`Returned`);
with it the handler may look at any time. A callback may leave its reply
unanswered. `granted` is the file system's count of lookups of each child, `known`
the resolver's. `find_files_with_pattern` falls back on `readdir` when
`readdirplus` is `ENOSYS`, which is always so behind `TokioAdapter`: it forwards
neither `readdirplus` nor `getxattr`. A stored security descriptor is its length,
which `Change` may alter while a request is between probe and fetch.

## What is checked

`tlc -workers 2 -config <cfg> <module>`; times are for two workers.

| Run | Instance | Properties | States |
|---|---|---|---|
| `path_resolver` | two nested keys, two interchangeable inodes, up to 2 lookups per inode | `TypeOK`, `RefcountMatches`, `LookupsAccountedFor`, `NeverOverForgotten`, `IInv`, `KeepsLedger` | 97 k, 80 s |
| `names` | 5 paths, root, a directory, two files, 3 requests of walking kinds, expiry | `TypeOK`, `NamesCoherent`, `WalksArrive` | 770 k, 80 s |
| `lifetimes` | 2 requests of any kind over 5 paths, ttl 0 or not, two attribute values, failing callbacks, expiry | `ResolvedInodesAreLive`, `LookupsBalance`, `DrainedAtRest`, `AttributesCoherent` | 521 k, 57 s |
| `notified` | 2 walks, 3 changes of the file system at any point, reused numbers | `AnswersAgree`, `NamesInv`, `AdapterKeepsLedger` | 707 k, 150 s |
| `interference` | 1 request of any kind, failing callbacks, 1 change at any point, fairness | `AttributesInv`, `RequestsEnd`, `OnlyNotifierDiscards` | 360 k, 65 s |
| `sessions` | two sessions at one mount point in two processes; one of them may panic, be refused and hand out an unmounter; outside unmounts, fairness | `IInv`, `DestroyedOnce`, `TakesOneVolume`, `ShutdownWhenQuiet`, `JoinEnds` | 394 k, 60 s |
| `mounted` | two interchangeable handles on memfs, paths of up to three components; eight scenarios, each with its own requests: a directory listed while it or the one above is renamed, patterns with one thread and many, listing while entries are made and deleted, deleting and moving in a tree, a file moved by two requests under one name with another made in between, opening with every disposition, writing, mount options | `TypeOK`, `EntriesMatchNodes`, `HandlesArrive`, `ListingExact`, `TablesHaveHandles`, `StreamsAgree`, `DeletesOwnFile`, `MovesKeepFiles`, `ContentsFollow` | 2.0 M, 90 s |
| `replies` | a directory of three entries, descriptors of lengths 1 to 3 and buffers of 0, 2 and 3, 3 requests, with and without `TokioAdapter` | `TypeOK`, `OwnAnswers`, `ListingsComplete`, `DeliveredInOrder`, `LookupsKept`, `CopyFits`, `DescriptorWhole` | 1.6 M, 36 s |
| `nothing_lost` | as `path_resolver` | `NothingLost`: **violated** | |
| `move_parents` | 1 move, ttl 0 or not | `MoveUsesLiveInodes`: **violated** | |
| `probe_twice` | 1 probe, ttl 0 or not | `ProbeUsesLiveInode`: **violated** | |
| `shared_process` | two sessions in one process at two mount points | `ShutdownWhenQuiet`: **violated** | |

**Why the bounds are enough to be interesting.** Two nested keys are the least
that tell an entry, the subtree below it and a sibling apart; two inodes let an
entry change its inode under the same key and let an inode have two entries; two
lookups let a replacement reuse what was held. Three requests are the least in
which one fills the cache, one changes the tree and one asks again; the
invariants are judged between requests, so the state after the third is judged
as well. Two generations let one number be reused once. Three changes let a file
be moved away, replaced, and touched during one walk. `MaxRequests` and
`MaxChanges` are the only bounds of `DokanAdapter`, `MaxLookups` the only one of
`PathResolver`. Two sessions are the least of which one can take what the other
mounted; `SessionLifecycle` has no counters to bound, `Faulty` and `Unmounters`
only spare the second session what the first already shows.

In `mounted` a listing needs two entries besides the dots to be cut between them,
a rename of the directory above needs three components, and what one handle does to
another needs two; two renames let a handle be carried along and the free place be
taken, and let one of them come late, after the other and a new file under the old name. `MaxIno` bounds the files made, `MaxSize` the length of a file (an offset
beyond the end included), `MaxDepth` the paths, `moves` the renames. Widths are 7
for offsets and 3 for lengths, so that negative and too large values are among the
inputs. What a request may be is bounded by scenario, because the product of all
of them says nothing about a pair of requests that touch different things.
In `replies` three requests let a task answer while the next request is under way
and after the one that follows, and let a listing be cut short, resumed and
started anew; a listing and a lookup share no cells with a descriptor, so the two
kinds of request are in different behaviours (`Mixes`).

The system stops when the requests are used up, when every session is dropped, and
when nothing is left to open or to list within the bounds, so these configurations
switch deadlock checking off; `path_resolver` does not.

**What the properties excuse.** `NamesCoherent`, `AttributesCoherent` and
`AnswersAgree` allow a cached fact to be wrong in exactly two situations: the
change is still to be announced (`notices`), or the fact was cached from a reply
that its announcement overtook (`overtaken`): `lookup` and `getattr` replies are
put in the cache after the resolver lock was free. The second is a real race of
the code, bounded by the ttl; the properties confine it to the entry concerned.
Entries of a directory that is gone, or whose number was given to another one,
do not agree, and need not: no walk gets an answer from them (`AnswersAgree`).

Of an inode that `move_file` could not resolve, because the walk to it failed for
another reason than `ENOENT`, the attributes stay cached
(`handler_methods/dispatch.rs:50`); so do those of an inode it took for another one,
when the walk was answered from an entry that is older than a change of the file
system's own. `AttributesCoherent` excuses this one inode: the one that the rename
moved, if it is not the one the handler knows. The second case was found by the
proof: a walk caches that `a` is file 1; the file system moves file 2 from `b` to
`a`; a request by handle caches the attributes of file 2; a move of `a` without a
handle then takes file 1 from the cache for the moved one, and the attributes of
file 2, which the rename changed, stay.
In `names` and `lifetimes` the file system does not change by itself; the races between a
reply and a notification are in `notified` and `interference`, and in the proofs.

The ghosts of `MountedMemFs` excuse a handle that lost its place, a listing that
others disturbed, and requests that were late. After a late move the path of a handle
may lead to another file, and a deletion through it removes that one: the code does
this, because `move_file` and `cleanup_delete_on_close` go by names. `HandlesArrive` and
`DeletesOwnFile` let go exactly the handles at or below the two paths that such a move
mixes up (`Mistakes`), and hold for all others, also afterwards. `MovesKeepFiles` excuses
no move for being late. `TablesHaveHandles` says no more once
a request was late, and it bounds the tables from above only, so an offset that is lost to
an open between the two removals of `close_file` is not its matter: a `close_file` under an old name leaves its own keys behind
and takes those of the file that has the name now, and the next listing of such a
path starts at a stale offset. `LookupsKept` excuses the
entries after one that Dokan refused (their lookups are never forgotten,
`directory_routes.rs:157`) and answers that came after the handler had left.
`ListingsComplete` is stated without `TokioAdapter`: behind it a handler that reads
the entries too early and the status late takes a part of a directory for the
whole. `DeliveredInOrder` holds there too. `DescriptorWhole` excuses a descriptor
that was replaced between the two questions: the length reported is the old one.
`TakesOneVolume` does not say whose volume it is: after an outside unmount `mount_state`
is still true, and the first call takes what has the mount point by then.

**Fairness.** `RequestsEnd` needs weak fairness of the steps of a
handler, because a thread of the Dokan pool that holds the `fs` mutex is waited
for by nobody but the scheduler, and the resolver mutex is held for one method at
a time. Nothing is assumed of the file system's changes, of time, or of the
notifier. `JoinEnds` needs weak fairness of the mount thread and of an owner
inside a call, which only the scheduler holds up; that a callback which has the
`fs` mutex ends, which is a matter of the `Filesystem`; and that Dokan closes a
file system whose volume is gone although requests may still come in (strong
fairness of `Close`, because each request disables it for a while). Without the
last two nobody could promise that `join` returns. What the owner calls, and
what outsiders do, is under no fairness.

### Disagreements found

* `nothing_lost`: `invalidate_entry_from_notify` discards the forgets it gets
  back (`state.rs:80`), of the entries it drops and of whatever was queued. In the
  shortest behaviour nothing is cached: a lookup with ttl 0 has its forget queued, and a
  notification that matches no entry throws it away.
* `move_parents`: `move_file` may pass a forgotten parent to `rename`
  (`handler_methods/dispatch.rs:69`).
* `probe_twice`: `get_file_security` and `find_streams` use the inode again
  after the drain that may have forgotten it
  (`handler_methods/security_locks_streams.rs:27`, `:220`).
* `shared_process`: `run` shuts Dokan down for the process when its own session
  ends, while another one may be serving (`session.rs:102`).

Each is quoted with the test or comment it contradicts in `PROJECT.json`. Apart from
rename and the second callback of a probe, `ResolvedInodesAreLive` shows that no
handler does this.

## What is proved

`tlapm <module>`; the constants are arbitrary throughout, within the named
assumptions. Induction over the naturals and over finite sets goes by sets (`SetInduction`
in `FileTree_proofs` and in `MountedMemFs_proofs`: a property as the set of what has it),
because the library's induction theorems take an operator as a parameter and no installed
prover can instantiate that. Every safety property that a passing
run checks is proved, except `StreamsAgree`, which compares two finite lists: TLC goes
through them.

### The resolver

`PathResolver_proofs` proves, for every set of paths, names and inodes, every
set of generations and attributes and any bound on lookups (the assumptions
`ConstantsAssumption` and `MaxLookupsAssumption`, no finiteness):

| Theorem | Statement |
|---|---|
| `Invariance` | `Spec => []IInv` |
| `TypeCorrect`, `RefcountsExact`, `AccountingHolds`, `OverForgetImpossible`, `CachedInodesPinned`, `HeldInodesInTable` | `Spec => []P` for `TypeOK`, `RefcountMatches`, `LookupsAccountedFor`, `NeverOverForgotten`, `EntriesPinTheirInode`, `HeldInodesTracked` |
| `ResolverKeepsLedger` | `PathResolver` implements `LookupLedger` under the refinement `owed <- nlookup`, `held <-` what is cached plus what is queued |

The argument. `LookupsAccountedFor` is not inductive: that giving up an entry
moves exactly its lookups to the queue needs `release_outstanding` to find an
inode with a refcount at least as large. So the invariant `IInv` adds
`ResolverInv`: refcounts equal the lookups the entries hold, inodes
with a refcount are in the table, an entry holds lookups on its own inode
only, and each inode's set of held lookups is finite. `Held(i)` is the
cardinality of the set of tokens `<<key, n>>`, `n` up to the entry's count, so
sums over the cache become cardinalities and need no induction over a fold.
`ResolverState_proofs` shows of every method that it keeps `ResolverInv` and leaves
`Owed`, held plus queued, as it was, apart from a grant, which adds one, and the
delivery of the queue. `StepKinds` sorts the actions of `PathResolver` into these
cases; the theorems follow from it. TLC checks `IInv` in `path_resolver`.

### The adapter

`DokanAdapter_proofs` proves of the handlers, over any paths closed under prefixes, any
inodes, directories, names, generations and attributes, any initial trees and any number
of requests and changes (`ConstantsAssumption`, `FileTreeAssumption`,
`AdapterAssumption`: the trees have no hard links and their directories in the root, and a
path is not an inode number):

| Theorem | Statement |
|---|---|
| `Invariance` | `Spec => []IInv` |
| `TypeCorrect`, `BooksBalance`, `RestIsDrained`, `ResolvedStayLive` | `Spec => []P` for `TypeOK`, `LookupsBalance`, `DrainedAtRest`, `ResolvedInodesAreLive` |
| `AdapterImplementsLedger` | `Spec => AdapterKeepsLedger`: the adapter implements `LookupLedger`, with what is cached, queued or in the reply at hand as what is held |
| `HandlersDiscardNothing` | `Spec => OnlyNotifierDiscards`: only a step of the notifier gives up a lookup it does not return |

The argument. Of these only `LookupsBalance` comes close to being inductive. `IInv` adds
what a handler knows at each of its steps: which steps a kind of request has, what it does
after a drain, which inodes are resolved, that a walk has components left and that
`reply` is what the next step takes apart (`OpInv`); that forgets are delivered by then
(`DrainedInv`); and that the inode of the directory a walk is in is still looked up
(`LiveInv`), which is the reason why `resolve_path_ino` may drain only before its first
component and after its last. Each action is shown to be one of the kinds of a ledger's
step (`Sound`), and to keep the rest of `IInv`, with one lemma per action.

`AdapterCoherence_proofs` proves `AttributesInvariance` (`Spec => []AttributesInv`) and
`AttributesStayCoherent` (`Spec => []AttributesCoherent`). `AttributesCoherent` speaks of
the time between two requests; `AttributesInv` says what is true within one: an inode
whose attributes the handler changed is among `ChangedInodes` until they are dropped,
whatever the kind of request; attributes in a reply that is still to be cached are right,
announced or `late`; and the tree stays a tree (`IsTree`), or a rename would change the
attributes of an inode that another name leads to. The first attempt failed at `move_file`,
for a good reason, see above. TLC checks `AttributesInv` in
`interference`.

It also proves what the cache says of names:

| Theorem | Statement |
|---|---|
| `NamesInvariance` | `Spec => []NamesInv` |
| `NamesStayCoherent`, `AnswersStayTrue` | `Spec => []P` for `NamesCoherent`, `AnswersAgree` |
| `ArrivalInvariance`, `WalksStayOnPath` | `Spec => []P` for `ArrivalInv`, `WalksArrive` |

`NamesCoherent` speaks of the entries between two requests. `NamesInv` is what is true in
the middle of one: an entry is right, or announced, or overtaken, or of a path that the
handler changed and has yet to invalidate (`ChangedPaths`, and what a directory that moved
left behind); the inode a walk has reached, and the one in its reply, are or were where the
walk believes them to be (`WalkPlaced`, `RepliesInv`); the same of the parents that create,
delete and move hold over several steps (`ParentInv`, `MoveInv`). What ties these together
is that the place of a directory is fixed for a generation of its number: it lives in the
root under one name until it is moved by a handler or is gone, and a number that is given
out again has another generation. The steps of the adapter go by one lemma each, those of
the file system by its operations. `ArrivalInv` says the rest for the case that only the
adapter changes the file system (`MaxChanges = 0`): then no reply is late and nothing is to
be announced, so a walk is where its path leads. TLC checks `NamesInv` in `notified`.

`RequestsComeToAnEnd` (`Spec => []DistanceFinite /\ RequestsShorten`) is what can be proved
of `RequestsEnd`. The distance of a handler from its end is a pair: `Stage`, the steps left
after the one it is at or heading for, counted double because a walk or a drain comes
before it, and `WalkLeft`, the components left in a walk, four steps each. Every step of a
handler lowers the pair in lexicographic order (`HeadsOn` for a step that starts a walk or
a drain or ends the request, `ComesTo` for one that ends a walk or a drain, `WalksOn`
within a walk); changes of the file system, the notifier and time leave it alone, which is
to say that nothing sends a handler back, as a retry of a failed lookup would. It needs
`IInv`: that a walk has components left, and which steps follow a drain. Paths may have any
length. `interference` also passes with `RequestsShorten` among its properties.

### The other components

`SessionLifecycle_proofs` proves for any set of sessions, mount points and
processes (`SessionsAssumption`): `Invariance` (`Spec => []IInv`),
`DestroyCalledOnce` and `OneVolumeTaken` (`Spec => []P`), and `QuietAtShutdown`
(`Spec => ShutdownWhenQuiet`) under the assumption that no two sessions share a
process, which `shared_process` shows to be needed. `DestroyedOnce` is not
inductive: between the call of `destroy` in `unmounted` and the flag, and after a
panic, the flag alone does not say whether `destroy` ran. `SessionInv` adds where
each of the two is, that Dokan's instance is gone before the session is dropped,
and that `mount_state` says whether anything was taken. No action touches two
sessions, so each step is judged for the session that takes it
(`OneSessionMoves`).

`JoinsComeToAnEnd` (`Spec => JoinsShorten`) is the same for `JoinEnds`. A join that begins
while the volume is mounted finds it due (`VolumeDue`) until it is gone (`VolumeGone`) or
Dokan refused; gone it stays, because a session mounts once (`VolumesComeByMount`) and only
an open file system is mounted (`MountedOpen`), even if another session takes the mount
point and is unmounted in its place. From then on `JoinLeft`, a sum over the owner, the
thread and the state of the file system, falls with each of their steps and never rises.
`sessions` also passes with `JoinsShorten` among its properties.

`MountedMemFs_proofs` proves every property of the run `mounted` but `StreamsAgree`, for any names, handles,
contents, depths and scenarios. The assumptions: a component of a path is neither empty nor
`.` or `..`, which `normalized_components` never yields (`NamesAssumption`); the initial
stores are sound, hold bytes, and what is asked for is within the depth
(`ScenariosAssumption`); buffers and offsets have the widths Dokan gives them
(`BuffersAssumption`).

| Theorem | Statement |
|---|---|
| `MountedTypeCorrect`, `MountedEntriesMatchNodes`, `MountedHandlesArrive`, `MountedListingExact`, `MountedTablesHaveHandles` | `Spec => []P` for the property named after `Mounted` (`TypeOK` for the first) |
| `MountedDeletesOwnFile`, `MountedMovesKeepFiles`, `MountedContentsFollow` | `Spec => P` |
| `PlanStaysWithin`, `PagingKeepsSize` | about `IoPlan`, and about `IoPlan` with memfs' `write` |

* *Maps.* Each method of memfs keeps `Good`, that a store has its shape and its maps agree:
  `rename` needs that no other key leads to the node it moves, which is what the agreement says.
* *Tables.* `TablesInv` knows of a handle between the two halves of `close_file` that its
  path may be in `dirOffsets` and no longer in `handles`. A rename maps keys and the paths of
  handles by the same function, so what covered a key before covers its image.
* *Paths.* `ArriveInv`: the store is `Sound`, and of every handle that nothing displaced the
  path leads to its inode, which is a directory if it was opened as one and not otherwise.
  The lemmas about `Resolve` are inductions over the path:
  two paths that lead to one inode are equal, since a node knows its place
  (`ResolveUnique`); a path continues as its beginning did when none of the entries it
  passes through changed (`Carried`). Each method of memfs that changes the tree is one of
  four relations between two stores (`SameTree`, `Inserts`, `Removes`, `Renames`); of each
  it is shown which paths keep leading where they did, or lead there under their new name.
  A late move renames at one name and changes the paths of handles from another: a handle
  at or below neither keeps its path, and is outside of what was renamed, so its path leads
  where it did; a move in time has one name, and the two functions agree.
  `MountedDeletesOwnFile` follows, and `MountedMovesKeepFiles` with one more induction: the
  directory that receives what moved is reached by entries that stay.
* *Listings.* `ListInv` adds that the handle of an exact listing has its key for itself
  (`Apart`), that the names seen are the matching entries up to the kept offset, and that
  this offset is not beyond the last entry (`ListedTo`): so an entry made while the listing
  goes on comes after what was delivered, because numbers only grow. `Rebased` maps
  different keys to different ones, so a rename neither loses nor mixes up offsets.
* *Contents.* That every file holds bytes (`Held`), and of `Resized` and `Overwritten` what
  is at each place. The proof found the property ambiguous where the bytes written and the
  old ones overlap (both cases of a `CASE` applied); it now says which.

`LockRangeFits` is a lemma: no state depends on it.

`Replies_proofs` proves every property of the run `replies`, for any directory without
repeated names (`DirectoryAssumption`), any lengths and buffers, and any number of requests
(`MaxCallsAssumption` only says that the bound is a number):

| Theorem | Statement, and the invariant it rests on |
|---|---|
| `RepliesTypeCorrect`, `RepliesOwnAnswers`, `RepliesCopyFits` | `Kinds`: what may be in the cells, and that every task writes to a reply of its own that was captured before. `Own`: what is in the cells of a lookup, and what its task has still to write, is about the name it asked for |
| `RepliesDeliveredInOrder` | `InOrder`: the entries in the cells, followed by those still to be written, are the directory from the kept offset on |
| `RepliesListingsComplete` | `Whole`: without `TokioAdapter` success is the last thing written, after all entries, so a handler that reads it has them all |
| `RepliesLookupsKept` | `Kept`: a balance for each name. What was granted is what the resolver knows, what the reply at hand has yet to hand over, and what was lost to a refused entry or a late answer |
| `RepliesDescriptorWhole` | `Told`: the answer to the probe is the length of the descriptor, that to the fetch the descriptor of that length, unless it was replaced in between |

### Only model-checked

`StreamsAgree`, see above. The two liveness properties, `RequestsEnd` and `JoinEnds`:
the prover has neither `ENABLED` nor fairness. `RequestsComeToAnEnd` and
`JoinsComeToAnEnd` prove that the steps that fairness speaks of lead to the end; that one
of them can be taken until then is what TLC adds. `ShutdownWhenQuiet` is proved where it holds, with one session in each process.

## Not modelled

* The bytes of notifications and security descriptors, lock tables (`lock_owner` is
  never set, so every lock is taken as owner 0), stream names, statfs and volume
  information, symbolic and hard links.
* The `fh` of a context: memfs gives out none, so which `fh` is released how often
  depends on a file system that is not in the repository.
* The answers given to Windows, beyond success, a missing reply and what a listing
  or a descriptor delivers: the properties are about caches, tables and contents.
* Poisoned mutexes in the handlers (every handler then fails at once; the sessions
  do model them).
* Names that differ only in case: the cache folds them, the handle tables do not.
* The parser of option strings, which only tests call; `from_fd`; conversions of
  times, attributes and error codes.
* Of `TokioAdapter` the methods other than `lookup` and `readdir`, which are spawned
  in the same way.

## Plan

1. Done: all modules of the table above, and the proofs of the safety properties and action
   properties that the runs check, `StreamsAgree` apart, and of the refinement of `LookupLedger` by the resolver
   and by the adapter.
2. Done: the measures behind `RequestsEnd` and `JoinEnds`.
3. The model could grow by the `fh` of a context with a file system that gives them out, by
   the locks, and by directories that the file system renames itself (`state.rs:402`).
