--------------------------- MODULE SessionLifecycle ---------------------------
(***************************************************************************)
(* Sessions from Session::new to the last drop, src/fuser_facade/session.rs: *)
(* the owner of a Session or BackgroundSession, the SessionUnmounter it    *)
(* may have handed to another thread, the thread in Session::run, and the  *)
(* callbacks of Dokan, mounted and unmounted among them.                   *)
(*                                                                         *)
(* Dokan itself is not in src/.  What run relies on is what its comment    *)
(* says: dropping the mounted file system waits until it is closed, and    *)
(* once it is closed no callback of it runs.  dokan::unmount removes       *)
(* whatever is mounted at a path; anybody can call it.                     *)
(***************************************************************************)
EXTENDS Integers, FiniteSets

CONSTANTS
  Sessions,
  Points,      \* mount points
  NoSession,   \* what an empty mount point holds
  Point,       \* Point[s]: where s mounts
  Process,     \* Process[s]: the process s lives in
  Unmounters,  \* the sessions whose owner may hand out a SessionUnmounter
  Faulty       \* the sessions whose Filesystem panics and whose unmount Dokan may refuse

ASSUME SessionsAssumption ==
  /\ NoSession \notin Sessions
  /\ Point \in [Sessions -> Points]
  /\ Unmounters \subseteq Sessions /\ Faulty \subseteq Sessions

VARIABLES
  owner,      \* owner[s]: where the owner of the Session is
  unmounter,  \* unmounter[s]: a SessionUnmounter was handed out
  mountState, \* mountState[s]: mount_state
  thr,        \* thr[s]: the next step of run and of the drop that follows it
  phase,      \* phase[s]: Dokan's instance of s
  volume,     \* volume[p]: the session mounted at p
  holder,     \* holder[s]: the callback that holds the fs mutex
  poisoned,   \* poisoned[s]: the fs mutex is poisoned
  destroyed,  \* destroyed[s]: the flag
  destroys,   \* destroys[s]: how often Filesystem::destroy was called
  taken,      \* taken[s]: the sessions whose volumes unmount_once of s removed
  refused     \* refused[s]: Dokan refused to unmount s while it was mounted

handles == <<owner, unmounter>>
mounts == <<mountState, volume, taken, refused>>
serving == <<holder, poisoned, destroyed, destroys>>
vars == <<handles, mounts, thr, phase, serving>>

Owners == {"session", "foreground", "background", "waiting", "join", "joining",
           "drop", "gone"}
Steps == {"new", "run", "wait", "shutdown", "drop", "destroy", "done"}

TypeOK ==
  /\ owner \in [Sessions -> Owners]
  /\ unmounter \in [Sessions -> BOOLEAN]
  /\ mountState \in [Sessions -> BOOLEAN]
  /\ thr \in [Sessions -> Steps]
  /\ phase \in [Sessions -> {"none", "open", "unmounted", "closed"}]
  /\ volume \in [Points -> Sessions \union {NoSession}]
  /\ holder \in [Sessions -> {"none", "request", "unmounted"}]
  /\ poisoned \in [Sessions -> BOOLEAN]
  /\ destroyed \in [Sessions -> BOOLEAN]
  /\ destroys \in [Sessions -> Nat]
  /\ taken \in [Sessions -> SUBSET Sessions]
  /\ refused \in [Sessions -> BOOLEAN]

\* Session::new; mount_state says mounted from the start.
Init ==
  /\ owner = [s \in Sessions |-> "session"]
  /\ unmounter = [s \in Sessions |-> FALSE]
  /\ mountState = [s \in Sessions |-> TRUE]
  /\ thr = [s \in Sessions |-> "new"]
  /\ phase = [s \in Sessions |-> "none"]
  /\ volume = [p \in Points |-> NoSession]
  /\ holder = [s \in Sessions |-> "none"]
  /\ poisoned = [s \in Sessions |-> FALSE]
  /\ destroyed = [s \in Sessions |-> FALSE]
  /\ destroys = [s \in Sessions |-> 0]
  /\ taken = [s \in Sessions |-> {}]
  /\ refused = [s \in Sessions |-> FALSE]

Mounted(s) == volume[Point[s]] = s

-----------------------------------------------------------------------------
(* Unmounting.  The mount_state mutex is held across the call to Dokan.      *)

UnmountAgain(s) == ~mountState[s] /\ UNCHANGED mounts

\* Mutant: mount_state stays as it was.
UnmountForgets(s) ==
  LET p == Point[s] IN
  /\ mountState[s]
  /\ volume[p] # NoSession
  /\ volume' = [volume EXCEPT ![p] = NoSession]
  /\ taken' = [taken EXCEPT ![s] = @ \union {volume[p]}]
  /\ UNCHANGED <<mountState, refused>>

UnmountTakes(s) ==
  LET p == Point[s] IN
  /\ mountState[s]
  /\ volume[p] # NoSession
  /\ volume' = [volume EXCEPT ![p] = NoSession]
  /\ taken' = [taken EXCEPT ![s] = @ \union {volume[p]}]
  /\ mountState' = [mountState EXCEPT ![s] = FALSE]
  /\ UNCHANGED refused

UnmountFails(s) ==
  /\ mountState[s]
  /\ volume[Point[s]] = NoSession \/ s \in Faulty
  /\ refused' = [refused EXCEPT ![s] = @ \/ Mounted(s)]
  /\ UNCHANGED <<mountState, volume, taken>>

UnmountSucceeds(s) == UnmountAgain(s) \/ UnmountTakes(s)
UnmountOnce(s) == UnmountSucceeds(s) \/ UnmountFails(s)

\* Somebody else unmounts the path: a tool, or a console control handler.
OutsiderUnmounts(p) ==
  /\ volume[p] # NoSession
  /\ volume' = [volume EXCEPT ![p] = NoSession]
  /\ UNCHANGED <<handles, mountState, taken, refused, thr, phase, serving>>

-----------------------------------------------------------------------------
(* The owner.                                                              *)

GoesTo(s, from, to) == owner[s] = from /\ owner' = [owner EXCEPT ![s] = to]

UnmountCallable(s) ==
  /\ s \in Unmounters
  /\ owner[s] = "session"
  /\ unmounter' = [unmounter EXCEPT ![s] = TRUE]
  /\ UNCHANGED <<owner, mounts, thr, phase, serving>>

\* SessionUnmounter::unmount, and Session::unmount before the session is spawned.
Unmount(s) ==
  /\ unmounter[s] \/ owner[s] = "session"
  /\ UnmountOnce(s)
  /\ UNCHANGED <<handles, thr, phase, serving>>

\* mount2, which keeps the Session to itself: run on the caller's thread.
Mount2(s) ==
  /\ GoesTo(s, "session", "foreground")
  /\ ~unmounter[s] /\ mountState[s]
  /\ thr' = [thr EXCEPT ![s] = "run"]
  /\ UNCHANGED <<unmounter, mounts, phase, serving>>

Spawn(s) ==
  /\ GoesTo(s, "session", "background")
  /\ thr' = [thr EXCEPT ![s] = "run"]
  /\ UNCHANGED <<unmounter, mounts, phase, serving>>

DropSession(s) ==
  /\ GoesTo(s, "session", "gone")
  /\ thr' = [thr EXCEPT ![s] = "drop"]
  /\ UNCHANGED <<unmounter, mounts, phase, serving>>

\* Calls of join and of drop, and of join on the public field guard.
Join(s) ==
  /\ \E to \in {"join", "drop", "waiting"} : GoesTo(s, "background", to)
  /\ UNCHANGED <<unmounter, mounts, thr, phase, serving>>

\* umount_and_join; when the unmount fails the session is dropped.
UmountAndJoin(s) ==
  /\ \/ GoesTo(s, "background", "join") /\ UnmountSucceeds(s)
     \/ GoesTo(s, "background", "drop") /\ UnmountFails(s)
  /\ UNCHANGED <<unmounter, thr, phase, serving>>

\* Mutant: dropping the guard unmounts nothing.
GuardLeaves(s) ==
  /\ GoesTo(s, "join", "joining") \/ GoesTo(s, "drop", "gone")
  /\ UNCHANGED <<unmounter, mounts, thr, phase, serving>>

\* The mount guard is dropped and an error of its unmount ignored: by join, which
\* then waits, or with the BackgroundSession, whose thread is detached.
GuardUnmounts(s) ==
  /\ GoesTo(s, "join", "joining") \/ GoesTo(s, "drop", "gone")
  /\ UnmountOnce(s)
  /\ UNCHANGED <<unmounter, thr, phase, serving>>

\* The thread has ended.  After guard.join() the BackgroundSession is still
\* there, without its thread, and is dropped.
ThreadJoined(s) ==
  /\ thr[s] = "done"
  /\ \/ GoesTo(s, "foreground", "gone") \/ GoesTo(s, "joining", "gone")
     \/ GoesTo(s, "waiting", "drop")
  /\ UNCHANGED <<unmounter, mounts, thr, phase, serving>>

-----------------------------------------------------------------------------
(* Session::run, then the drop of the Session at the end of its thread.    *)

Proceeds(s, from, to) == thr[s] = from /\ thr' = [thr EXCEPT ![s] = to]

Mount(s) ==
  /\ Proceeds(s, "run", "wait")
  /\ volume[Point[s]] = NoSession
  /\ volume' = [volume EXCEPT ![Point[s]] = s]
  /\ phase' = [phase EXCEPT ![s] = "open"]
  /\ UNCHANGED <<handles, mountState, taken, refused, serving>>

\* The early return of run: no shutdown.
MountFails(s) ==
  /\ Proceeds(s, "run", "drop")
  /\ UNCHANGED <<handles, mounts, phase, serving>>

\* Mutant: shutdown comes before the drop that waits.
ShutsDownAtOnce(s) ==
  /\ Proceeds(s, "wait", "shutdown")
  /\ UNCHANGED <<handles, mounts, phase, serving>>

\* drop(file_system)
WaitForClose(s) ==
  /\ phase[s] = "closed"
  /\ Proceeds(s, "wait", "shutdown")
  /\ UNCHANGED <<handles, mounts, phase, serving>>

Shutdown(s) ==
  /\ Proceeds(s, "shutdown", "drop")
  /\ UNCHANGED <<handles, mounts, phase, serving>>

\* Mutant: the flag is read and not set.
DropLooks(s) ==
  /\ Proceeds(s, "drop", IF destroyed[s] THEN "done" ELSE "destroy")
  /\ UNCHANGED <<handles, mounts, phase, serving>>

\* Session::drop: the flag is swapped first, then the mutex is locked.
DropSwaps(s) ==
  /\ Proceeds(s, "drop", IF destroyed[s] THEN "done" ELSE "destroy")
  /\ destroyed' = [destroyed EXCEPT ![s] = TRUE]
  /\ UNCHANGED <<handles, mounts, phase, holder, poisoned, destroys>>

DropDestroys(s) ==
  /\ Proceeds(s, "destroy", "done")
  /\ holder[s] = "none"
  /\ destroys' = [destroys EXCEPT ![s] = IF poisoned[s] THEN @ ELSE @ + 1]
  /\ UNCHANGED <<handles, mounts, phase, holder, poisoned, destroyed>>

-----------------------------------------------------------------------------
(* Dokan's threads.  A callback that finds the mutex poisoned returns.     *)

Locks(s, callback) ==
  /\ phase[s] \in {"open", "unmounted"}
  /\ holder[s] = "none" /\ ~poisoned[s]
  /\ holder' = [holder EXCEPT ![s] = callback]

Request(s) ==
  /\ Locks(s, "request")
  /\ UNCHANGED <<handles, mounts, thr, phase, poisoned, destroyed, destroys>>

\* unmounted: at most once, after the volume is gone; Dokan may not get to it.
Unmounted(s) ==
  /\ phase[s] = "open" /\ ~Mounted(s)
  /\ phase' = [phase EXCEPT ![s] = "unmounted"]
  /\ \/ poisoned[s] /\ UNCHANGED serving
     \/ /\ Locks(s, "unmounted")
        /\ destroys' = [destroys EXCEPT ![s] = @ + 1]
        /\ UNCHANGED <<poisoned, destroyed>>
  /\ UNCHANGED <<handles, mounts, thr>>

\* Mutant: unmounted leaves the flag alone.
ReturnsUnstored(s) ==
  /\ holder[s] # "none"
  /\ holder' = [holder EXCEPT ![s] = "none"]
  /\ UNCHANGED <<handles, mounts, thr, phase, poisoned, destroyed, destroys>>

\* The callback returns; unmounted stores the flag before it unlocks.
Returns(s) ==
  /\ holder[s] # "none"
  /\ holder' = [holder EXCEPT ![s] = "none"]
  /\ destroyed' = [destroyed EXCEPT ![s] = IF holder[s] = "unmounted" THEN TRUE ELSE @]
  /\ UNCHANGED <<handles, mounts, thr, phase, poisoned, destroys>>

\* The Filesystem panics with the mutex held.
Panics(s) ==
  /\ s \in Faulty
  /\ holder[s] # "none"
  /\ holder' = [holder EXCEPT ![s] = "none"]
  /\ poisoned' = [poisoned EXCEPT ![s] = TRUE]
  /\ UNCHANGED <<handles, mounts, thr, phase, destroyed, destroys>>

\* The file system is closed when its volume and its callbacks are gone.
Close(s) ==
  /\ phase[s] \in {"open", "unmounted"}
  /\ ~Mounted(s) /\ holder[s] = "none"
  /\ phase' = [phase EXCEPT ![s] = "closed"]
  /\ UNCHANGED <<handles, mounts, thr, serving>>

-----------------------------------------------------------------------------
OwnerCalls(s) ==
  \/ UnmountCallable(s) \/ Unmount(s) \/ Mount2(s) \/ Spawn(s) \/ DropSession(s)
  \/ Join(s) \/ UmountAndJoin(s)

\* The steps a thread takes that is inside one of the calls above.
OwnerProceeds(s) == GuardUnmounts(s) \/ ThreadJoined(s)

ThreadProceeds(s) ==
  \/ Mount(s) \/ MountFails(s) \/ WaitForClose(s) \/ Shutdown(s)
  \/ DropSwaps(s) \/ DropDestroys(s)

CallbackEnds(s) == Returns(s) \/ Panics(s)

Next ==
  \/ \E p \in Points : OutsiderUnmounts(p)
  \/ \E s \in Sessions :
       \/ OwnerCalls(s) \/ OwnerProceeds(s) \/ ThreadProceeds(s)
       \/ Request(s) \/ Unmounted(s) \/ CallbackEnds(s) \/ Close(s)

Spec == Init /\ [][Next]_vars

\* Threads inside a call run on, callbacks end, and Dokan closes in the end a
\* file system that stays unmounted, however many requests come in between.
FairSpec ==
  /\ Spec
  /\ \A s \in Sessions :
       /\ WF_vars(OwnerProceeds(s)) /\ WF_vars(ThreadProceeds(s))
       /\ WF_vars(CallbackEnds(s)) /\ SF_vars(Close(s))

-----------------------------------------------------------------------------
\* One session: who is inside it, and whether destroy is done, under way, due or
\* given up (panicked with the mutex held, which nobody can lock after that).
SessionInv(s) ==
  LET ended == thr[s] \in {"destroy", "done"} IN
  /\ (owner[s] = "session") = (thr[s] = "new")
  /\ thr[s] \in {"new", "run"} => phase[s] = "none"
  /\ thr[s] = "wait" => phase[s] # "none"
  /\ thr[s] \notin {"new", "run", "wait"} => phase[s] \in {"none", "closed"}
  /\ phase[s] \in {"none", "closed"} => holder[s] = "none"
  /\ phase[s] \in {"none", "open"} /\ ~ended => destroys[s] = 0
  /\ holder[s] = "unmounted" => destroys[s] = 1 /\ ~destroyed[s]
  /\ destroyed[s] /\ ~ended => destroys[s] = 1
  /\ ended => destroyed[s]
  /\ destroys[s] <= 1
  /\ destroys[s] = 1 => destroyed[s] \/ poisoned[s] \/ holder[s] = "unmounted"
  /\ thr[s] = "destroy" => destroys[s] = 0 \/ poisoned[s]
  /\ thr[s] = "done" => destroys[s] = 1 \/ poisoned[s]
  /\ IF mountState[s] THEN taken[s] = {} ELSE \E t \in Sessions : taken[s] = {t}

\* The inductive invariant: everything that keeps the theorems of
\* SessionLifecycle_proofs true from one step to the next (session.rs:30).
IInv == TypeOK /\ \A s \in Sessions : SessionInv(s)

\* Filesystem::destroy is called once although unmounted and the drop of the
\* Session both mean to: never twice, and by the end of the session once, unless
\* the Filesystem panicked (session.rs:282, operations.rs:198).
DestroyedOnce ==
  \A s \in Sessions :
    /\ destroys[s] <= 1
    /\ thr[s] = "done" => destroys[s] = 1 \/ poisoned[s]

\* However often and from whichever threads a session is unmounted, joined and
\* dropped, these calls remove one volume between them (session.rs:157).  That
\* need not be its own: mount_state is true from the start, and still after
\* somebody else unmounted the path, so the first call removes whatever is
\* mounted there by then.
TakesOneVolume == \A s \in Sessions : Cardinality(taken[s]) <= 1

\* dokan::shutdown is not called while a callback runs in the process
\* (session.rs:98).
ShutdownWhenQuiet ==
  [][\A s \in Sessions : Shutdown(s) =>
       \A t \in Sessions : Process[t] = Process[s] => holder[t] = "none"]_vars

\* A join begun while the session is mounted and not unmounted yet returns,
\* unless Dokan refused the unmount, whose error join ignores (session.rs:248).
JoinEnds ==
  \A s \in Sessions :
    (owner[s] = "join" /\ Mounted(s) /\ mountState[s]) ~> (owner[s] = "gone" \/ refused[s])

\* The way of such a join: first it has its volume to unmount, then its volume is
\* gone for good.
InJoin(s) == owner[s] \in {"join", "joining"}
VolumeDue(s) == owner[s] = "join" /\ Mounted(s) /\ mountState[s]
VolumeGone(s) == InJoin(s) /\ phase[s] # "none" /\ ~Mounted(s)

\* What is left of it then: steps of the owner, of the thread and of Dokan.
OwnerLeft(o) == CASE o = "join" -> 2 [] o = "joining" -> 1 [] OTHER -> 0
ThreadLeft(t) ==
  CASE t = "new" -> 6 [] t = "run" -> 5 [] t = "wait" -> 4 [] t = "shutdown" -> 3
    [] t = "drop" -> 2 [] t = "destroy" -> 1 [] t = "done" -> 0
CloseLeft(ph) ==
  CASE ph \in {"none", "open"} -> 2 [] ph = "unmounted" -> 1 [] ph = "closed" -> 0
JoinLeft(s) == OwnerLeft(owner[s]) + ThreadLeft(thr[s]) + CloseLeft(phase[s])

\* What JoinEnds rests on: whoever unmounts the volume, it does not come back, a
\* join does not give up, and from then on every step inside the join, in the
\* thread or of Dokan closing the file system brings its end nearer and no step
\* takes it further away (session.rs:248-260, 77-105, 292-296).
JoinsShorten ==
  [][\A s \in Sessions :
       /\ VolumeDue(s) => VolumeDue(s)' \/ VolumeGone(s)' \/ refused'[s]
       /\ VolumeGone(s) =>
            /\ VolumeGone(s)' \/ owner'[s] = "gone"
            /\ JoinLeft(s)' <= JoinLeft(s)
            /\ OwnerProceeds(s) \/ ThreadProceeds(s) \/ Close(s) =>
                 JoinLeft(s)' < JoinLeft(s)]_vars

=============================================================================
