----------------------- MODULE SessionLifecycle_proofs -----------------------
(***************************************************************************)
(* Proofs about the session lifecycle, for any number of sessions in any   *)
(* processes at any mount points.                                          *)
(***************************************************************************)
EXTENDS SessionLifecycle, FiniteSetTheorems, TLAPS

\* The initial state satisfies the inductive invariant.
LEMMA InitInv == Init => IInv
<1> SUFFICES ASSUME Init PROVE IInv
  OBVIOUS
<1>1. TypeOK
  BY SessionsAssumption DEF Init, TypeOK, Owners, Steps
<1>2. ASSUME NEW s \in Sessions PROVE SessionInv(s)
  BY DEF Init, SessionInv
<1>3. QED BY <1>1, <1>2 DEF IInv

\* unmount_once keeps the books about what the session unmounted.
LEMMA UnmountKeeps ==
  ASSUME TypeOK, NEW s \in Sessions, SessionInv(s), UnmountOnce(s)
  PROVE  /\ mountState' \in [Sessions -> BOOLEAN]
         /\ volume' \in [Points -> Sessions \union {NoSession}]
         /\ taken' \in [Sessions -> SUBSET Sessions]
         /\ refused' \in [Sessions -> BOOLEAN]
         /\ IF mountState'[s] THEN taken'[s] = {}
                              ELSE \E t \in Sessions : taken'[s] = {t}
         /\ \A t \in Sessions \ {s} :
              mountState'[t] = mountState[t] /\ taken'[t] = taken[t]
<1>1. CASE UnmountAgain(s)
  BY <1>1 DEF UnmountAgain, mounts, TypeOK, SessionInv
<1>2. CASE UnmountTakes(s)
  <2>1. volume[Point[s]] \in Sessions
    BY <1>2, SessionsAssumption DEF UnmountTakes, TypeOK
  <2>2. taken'[s] = {volume[Point[s]]} /\ mountState'[s] = FALSE
    BY <1>2 DEF UnmountTakes, TypeOK, SessionInv
  <2>3. QED BY <1>2, <2>1, <2>2 DEF UnmountTakes, TypeOK
<1>3. CASE UnmountFails(s)
  BY <1>3 DEF UnmountFails, TypeOK, SessionInv, Mounted
<1>4. QED BY <1>1, <1>2, <1>3 DEF UnmountOnce, UnmountSucceeds

\* The step leaves every other session as it is.
OthersStay(s) ==
  \A t \in Sessions \ {s} :
    /\ owner'[t] = owner[t] /\ thr'[t] = thr[t] /\ phase'[t] = phase[t]
    /\ holder'[t] = holder[t] /\ poisoned'[t] = poisoned[t]
    /\ destroyed'[t] = destroyed[t] /\ destroys'[t] = destroys[t]
    /\ mountState'[t] = mountState[t] /\ taken'[t] = taken[t]

\* So a step of s has to keep the invariant of s only.
LEMMA OneSessionMoves ==
  ASSUME IInv, NEW s \in Sessions, TypeOK', SessionInv(s)', OthersStay(s)
  PROVE  IInv'
<1>1. ASSUME NEW t \in Sessions \ {s} PROVE SessionInv(t)'
  BY <1>1 DEF IInv, OthersStay, SessionInv
<1>2. QED BY <1>1 DEF IInv

\* The calls of the owner that unmount nothing keep the invariant.
LEMMA CallsKeepInv ==
  ASSUME IInv, NEW s \in Sessions,
         UnmountCallable(s) \/ Mount2(s) \/ Spawn(s) \/ DropSession(s) \/ Join(s)
           \/ ThreadJoined(s)
  PROVE  IInv'
<1> USE DEF GoesTo, handles, mounts, serving
<1>0. TypeOK /\ SessionInv(s)
  BY DEF IInv
<1>1. CASE UnmountCallable(s)
  <2>1. TypeOK'
    BY <1>0, <1>1 DEF UnmountCallable, TypeOK, Owners, Steps
  <2>2. SessionInv(s)' /\ OthersStay(s)
    BY <1>0, <1>1 DEF UnmountCallable, TypeOK, SessionInv, OthersStay
  <2>3. QED BY <2>1, <2>2, OneSessionMoves
<1>2. CASE Mount2(s)
  <2>1. TypeOK'
    BY <1>0, <1>2 DEF Mount2, TypeOK, Owners, Steps
  <2>2. SessionInv(s)' /\ OthersStay(s)
    BY <1>0, <1>2 DEF Mount2, TypeOK, SessionInv, OthersStay
  <2>3. QED BY <2>1, <2>2, OneSessionMoves
<1>3. CASE Spawn(s)
  <2>1. TypeOK'
    BY <1>0, <1>3 DEF Spawn, TypeOK, Owners, Steps
  <2>2. SessionInv(s)' /\ OthersStay(s)
    BY <1>0, <1>3 DEF Spawn, TypeOK, SessionInv, OthersStay
  <2>3. QED BY <2>1, <2>2, OneSessionMoves
<1>4. CASE DropSession(s)
  <2>1. TypeOK'
    BY <1>0, <1>4 DEF DropSession, TypeOK, Owners, Steps
  <2>2. SessionInv(s)' /\ OthersStay(s)
    BY <1>0, <1>4 DEF DropSession, TypeOK, SessionInv, OthersStay
  <2>3. QED BY <2>1, <2>2, OneSessionMoves
<1>5. CASE Join(s)
  <2>1. TypeOK'
    BY <1>0, <1>5 DEF Join, TypeOK, Owners, Steps
  <2>2. SessionInv(s)' /\ OthersStay(s)
    BY <1>0, <1>5 DEF Join, TypeOK, SessionInv, OthersStay
  <2>3. QED BY <2>1, <2>2, OneSessionMoves
<1>6. CASE ThreadJoined(s)
  <2>1. TypeOK'
    BY <1>0, <1>6 DEF ThreadJoined, TypeOK, Owners, Steps
  <2>2. SessionInv(s)' /\ OthersStay(s)
    BY <1>0, <1>6 DEF ThreadJoined, TypeOK, SessionInv, OthersStay
  <2>3. QED BY <2>1, <2>2, OneSessionMoves
<1>7. QED BY <1>1, <1>2, <1>3, <1>4, <1>5, <1>6

\* The calls that unmount keep it.
LEMMA UnmountsKeepInv ==
  ASSUME IInv, NEW s \in Sessions,
         Unmount(s) \/ UmountAndJoin(s) \/ GuardUnmounts(s)
  PROVE  IInv'
<1> USE DEF GoesTo, handles, serving
<1>0. TypeOK /\ SessionInv(s)
  BY DEF IInv
<1>1. CASE Unmount(s)
  <2>1. UnmountOnce(s)
    BY <1>1 DEF Unmount, UnmountOnce
  <2>2. TypeOK'
    BY <1>0, <1>1, <2>1, UnmountKeeps DEF Unmount, TypeOK, Owners
  <2>3. SessionInv(s)' /\ OthersStay(s)
    BY <1>0, <1>1, <2>1, UnmountKeeps
    DEF Unmount, TypeOK, SessionInv, OthersStay
  <2>4. QED BY <2>2, <2>3, OneSessionMoves
<1>2. CASE UmountAndJoin(s)
  <2>1. UnmountOnce(s)
    BY <1>2 DEF UmountAndJoin, UnmountOnce
  <2>2. TypeOK'
    BY <1>0, <1>2, <2>1, UnmountKeeps DEF UmountAndJoin, TypeOK, Owners
  <2>3. SessionInv(s)' /\ OthersStay(s)
    BY <1>0, <1>2, <2>1, UnmountKeeps
    DEF UmountAndJoin, TypeOK, SessionInv, OthersStay
  <2>4. QED BY <2>2, <2>3, OneSessionMoves
<1>3. CASE GuardUnmounts(s)
  <2>1. UnmountOnce(s)
    BY <1>3 DEF GuardUnmounts, UnmountOnce
  <2>2. TypeOK'
    BY <1>0, <1>3, <2>1, UnmountKeeps DEF GuardUnmounts, TypeOK, Owners
  <2>3. SessionInv(s)' /\ OthersStay(s)
    BY <1>0, <1>3, <2>1, UnmountKeeps
    DEF GuardUnmounts, TypeOK, SessionInv, OthersStay
  <2>4. QED BY <2>2, <2>3, OneSessionMoves
<1>4. QED BY <1>1, <1>2, <1>3

\* The thread of the session keeps it: destroy is not called again.
LEMMA ThreadKeepsInv ==
  ASSUME IInv, NEW s \in Sessions,
         Mount(s) \/ MountFails(s) \/ WaitForClose(s)
           \/ Shutdown(s) \/ DropSwaps(s) \/ DropDestroys(s)
  PROVE  IInv'
<1> USE DEF Proceeds, handles, mounts, serving
<1>0. TypeOK /\ SessionInv(s)
  BY DEF IInv
<1>1. CASE Mount(s)
  <2>1. TypeOK'
    BY <1>0, <1>1, SessionsAssumption DEF Mount, TypeOK, Owners, Steps
  <2>2. SessionInv(s)' /\ OthersStay(s)
    BY <1>0, <1>1 DEF Mount, TypeOK, SessionInv, OthersStay
  <2>3. QED BY <2>1, <2>2, OneSessionMoves
<1>2. CASE MountFails(s)
  <2>1. TypeOK'
    BY <1>0, <1>2 DEF MountFails, TypeOK, Owners, Steps
  <2>2. SessionInv(s)' /\ OthersStay(s)
    BY <1>0, <1>2 DEF MountFails, TypeOK, SessionInv, OthersStay
  <2>3. QED BY <2>1, <2>2, OneSessionMoves
<1>3. CASE WaitForClose(s)
  <2>1. TypeOK'
    BY <1>0, <1>3 DEF WaitForClose, TypeOK, Owners, Steps
  <2>2. SessionInv(s)' /\ OthersStay(s)
    BY <1>0, <1>3 DEF WaitForClose, TypeOK, SessionInv, OthersStay
  <2>3. QED BY <2>1, <2>2, OneSessionMoves
<1>4. CASE Shutdown(s)
  <2>1. TypeOK'
    BY <1>0, <1>4 DEF Shutdown, TypeOK, Owners, Steps
  <2>2. SessionInv(s)' /\ OthersStay(s)
    BY <1>0, <1>4 DEF Shutdown, TypeOK, SessionInv, OthersStay
  <2>3. QED BY <2>1, <2>2, OneSessionMoves
<1>5. CASE DropSwaps(s)
  <2>1. TypeOK'
    BY <1>0, <1>5 DEF DropSwaps, TypeOK, Owners, Steps
  <2>2. SessionInv(s)' /\ OthersStay(s)
    BY <1>0, <1>5 DEF DropSwaps, TypeOK, SessionInv, OthersStay
  <2>3. QED BY <2>1, <2>2, OneSessionMoves
<1>6. CASE DropDestroys(s)
  <2>1. TypeOK'
    BY <1>0, <1>6 DEF DropDestroys, TypeOK, Owners, Steps
  <2>2. SessionInv(s)' /\ OthersStay(s)
    BY <1>0, <1>6 DEF DropDestroys, TypeOK, SessionInv, OthersStay
  <2>3. QED BY <2>1, <2>2, OneSessionMoves
<1>7. QED BY <1>1, <1>2, <1>3, <1>4, <1>5, <1>6

\* The callbacks keep it.
LEMMA CallbacksKeepInv ==
  ASSUME IInv, NEW s \in Sessions,
         Request(s) \/ Unmounted(s)
           \/ Returns(s) \/ Panics(s) \/ Close(s)
  PROVE  IInv'
<1> USE DEF Locks, handles, mounts, serving
<1>0. TypeOK /\ SessionInv(s)
  BY DEF IInv
<1>1. CASE Request(s)
  <2>1. TypeOK'
    BY <1>0, <1>1 DEF Request, TypeOK, Owners, Steps
  <2>2. SessionInv(s)' /\ OthersStay(s)
    BY <1>0, <1>1 DEF Request, TypeOK, SessionInv, OthersStay
  <2>3. QED BY <2>1, <2>2, OneSessionMoves
<1>2. CASE Unmounted(s)
  <2>1. TypeOK'
    BY <1>0, <1>2 DEF Unmounted, TypeOK, Owners, Steps
  <2>2. SessionInv(s)' /\ OthersStay(s)
    BY <1>0, <1>2 DEF Unmounted, TypeOK, SessionInv, OthersStay
  <2>3. QED BY <2>1, <2>2, OneSessionMoves
<1>3. CASE Returns(s)
  <2>1. TypeOK'
    BY <1>0, <1>3 DEF Returns, TypeOK, Owners, Steps
  <2>2. SessionInv(s)' /\ OthersStay(s)
    BY <1>0, <1>3 DEF Returns, TypeOK, SessionInv, OthersStay
  <2>3. QED BY <2>1, <2>2, OneSessionMoves
<1>4. CASE Panics(s)
  <2>1. TypeOK'
    BY <1>0, <1>4 DEF Panics, TypeOK, Owners, Steps
  <2>2. SessionInv(s)' /\ OthersStay(s)
    BY <1>0, <1>4 DEF Panics, TypeOK, SessionInv, OthersStay
  <2>3. QED BY <2>1, <2>2, OneSessionMoves
<1>5. CASE Close(s)
  <2>1. TypeOK'
    BY <1>0, <1>5 DEF Close, TypeOK, Owners, Steps
  <2>2. SessionInv(s)' /\ OthersStay(s)
    BY <1>0, <1>5 DEF Close, TypeOK, SessionInv, OthersStay
  <2>3. QED BY <2>1, <2>2, OneSessionMoves
<1>6. QED BY <1>1, <1>2, <1>3, <1>4, <1>5

\* Every step keeps the invariant.
LEMMA StepInv == IInv /\ [Next]_vars => IInv'
<1> SUFFICES ASSUME IInv, [Next]_vars PROVE IInv'
  OBVIOUS
<1>1. ASSUME NEW p \in Points, OutsiderUnmounts(p) PROVE IInv'
  <2>1. TypeOK'
    BY <1>1 DEF IInv, OutsiderUnmounts, TypeOK, handles, serving
  <2>2. \A s \in Sessions : SessionInv(s)'
    BY <1>1 DEF IInv, OutsiderUnmounts, SessionInv, handles, serving
  <2>3. QED BY <2>1, <2>2 DEF IInv
<1>2. ASSUME NEW s \in Sessions, OwnerCalls(s) \/ OwnerProceeds(s) PROVE IInv'
  BY <1>2, CallsKeepInv, UnmountsKeepInv DEF OwnerCalls, OwnerProceeds
<1>3. ASSUME NEW s \in Sessions, ThreadProceeds(s) PROVE IInv'
  BY <1>3, ThreadKeepsInv DEF ThreadProceeds
<1>4. ASSUME NEW s \in Sessions,
             Request(s) \/ Unmounted(s) \/ CallbackEnds(s) \/ Close(s)
      PROVE  IInv'
  BY <1>4, CallbacksKeepInv DEF CallbackEnds
<1>5. CASE UNCHANGED vars
  <2>1. TypeOK'
    BY <1>5 DEF IInv, TypeOK, vars, handles, mounts, serving
  <2>2. \A s \in Sessions : SessionInv(s)'
    BY <1>5 DEF IInv, SessionInv, vars, handles, mounts, serving
  <2>3. QED BY <2>1, <2>2 DEF IInv
<1>6. QED BY <1>1, <1>2, <1>3, <1>4, <1>5 DEF Next

\* The inductive invariant holds throughout: who is inside a session, how far
\* its mount is, and what became of destroy agree (session.rs:30).
THEOREM Invariance == Spec => []IInv
BY InitInv, StepInv, PTL DEF Spec

\* destroy is called at most once, and exactly once by the end of a session
\* whose Filesystem did not panic (session.rs:282, operations.rs:198).
THEOREM DestroyCalledOnce == Spec => []DestroyedOnce
<1>1. IInv => DestroyedOnce
  BY DEF IInv, SessionInv, DestroyedOnce
<1>2. QED BY <1>1, Invariance, PTL

\* The calls of a session remove at most one volume between them, its own or the
\* one that is mounted there by then, however it is unmounted, joined and
\* dropped (session.rs:157).
THEOREM OneVolumeTaken == Spec => []TakesOneVolume
<1>1. IInv => TakesOneVolume
  <2> SUFFICES ASSUME IInv, NEW s \in Sessions PROVE Cardinality(taken[s]) <= 1
    BY DEF TakesOneVolume
  <2>1. CASE taken[s] = {}
    BY <2>1, FS_EmptySet
  <2>2. ASSUME NEW t, taken[s] = {t} PROVE Cardinality(taken[s]) <= 1
    <3>1. Cardinality({t}) = 1
      BY FS_Singleton
    <3>2. QED BY <2>2, <3>1
  <2>3. QED BY <2>1, <2>2 DEF IInv, SessionInv
<1>2. QED BY <1>1, Invariance, PTL

\* With one session in each process no callback runs when dokan::shutdown is
\* called (session.rs:98).  The assumption is needed: the run shared_process
\* shows what two sessions in one process do.
THEOREM QuietAtShutdown ==
  ASSUME \A s, t \in Sessions : Process[s] = Process[t] => s = t
  PROVE  Spec => ShutdownWhenQuiet
<1>1. IInv /\ [Next]_vars =>
        [\A s \in Sessions : Shutdown(s) =>
           \A t \in Sessions : Process[t] = Process[s] => holder[t] = "none"]_vars
  BY DEF IInv, SessionInv, Shutdown, Proceeds, TypeOK
<1>2. QED BY <1>1, Invariance, PTL DEF Spec, ShutdownWhenQuiet

-----------------------------------------------------------------------------
(* Joins come to an end.                                                   *)

\* What a step does to the session it is of, and to the volume of any session.
SessionStep(s) ==
  \/ OwnerCalls(s) \/ OwnerProceeds(s) \/ ThreadProceeds(s)
  \/ Request(s) \/ Unmounted(s) \/ CallbackEnds(s) \/ Close(s)
Alone(s) ==
  /\ owner'[s] = owner[s] /\ thr'[s] = thr[s] /\ phase'[s] = phase[s]
  /\ mountState'[s] = mountState[s]

LEMMA StepIsOf ==
  ASSUME TypeOK, NEW s \in Sessions, Next
  PROVE  Alone(s) \/ SessionStep(s)
<1> USE DEF handles, mounts, serving
<1>1. CASE \E p \in Points : OutsiderUnmounts(p)
  BY <1>1 DEF OutsiderUnmounts, Alone
<1>2. ASSUME NEW t \in Sessions, t # s, SessionStep(t)
      PROVE  Alone(s)
  <2>1. CASE OwnerCalls(t)
    BY <1>2, <2>1 DEF OwnerCalls, UnmountCallable, Unmount, Mount2, Spawn, DropSession,
      Join, UmountAndJoin, GoesTo, UnmountOnce, UnmountSucceeds, UnmountAgain,
      UnmountTakes, UnmountFails, TypeOK, Alone
  <2>2. CASE OwnerProceeds(t)
    BY <1>2, <2>2 DEF OwnerProceeds, GuardUnmounts, ThreadJoined, GoesTo, UnmountOnce,
      UnmountSucceeds, UnmountAgain, UnmountTakes, UnmountFails, TypeOK, Alone
  <2>3. CASE ThreadProceeds(t)
    BY <1>2, <2>3 DEF ThreadProceeds, Mount, MountFails, WaitForClose, Shutdown,
      DropSwaps, DropDestroys, Proceeds, TypeOK, Alone
  <2>4. CASE Request(t) \/ Unmounted(t) \/ CallbackEnds(t) \/ Close(t)
    BY <1>2, <2>4 DEF Request, Unmounted, CallbackEnds, Returns, Panics, Close, Locks,
      TypeOK, Alone
  <2>5. QED BY <1>2, <2>1, <2>2, <2>3, <2>4 DEF SessionStep
<1>3. QED BY <1>1, <1>2 DEF Next, SessionStep

\* A volume comes to its mount point in no way but Mount.
LEMMA VolumesComeByMount ==
  ASSUME TypeOK, NEW s \in Sessions, Next, Mounted(s)'
  PROVE  Mounted(s) \/ Mount(s)
<1> USE DEF handles, mounts, serving
<1>p. PICK p \in Points : p = Point[s]
  BY SessionsAssumption
<1>1. volume'[p] = s /\ s # NoSession
  BY <1>p, SessionsAssumption DEF Mounted
<1>2. CASE \E q \in Points : OutsiderUnmounts(q)
  BY <1>p, <1>1, <1>2 DEF OutsiderUnmounts, TypeOK, Mounted
<1>3. ASSUME NEW t \in Sessions, UnmountOnce(t)
      PROVE  Mounted(s)
  BY <1>p, <1>1, <1>3 DEF UnmountOnce, UnmountSucceeds, UnmountAgain, UnmountTakes,
    UnmountFails, TypeOK, Mounted
<1>4. ASSUME NEW t \in Sessions, Mount(t)
      PROVE  Mounted(s) \/ Mount(s)
  BY <1>p, <1>1, <1>4 DEF Mount, TypeOK, Mounted
<1>5. ASSUME volume' = volume
      PROVE  Mounted(s)
  BY <1>p, <1>1, <1>5 DEF Mounted
<1>6. ASSUME NEW t \in Sessions, SessionStep(t)
      PROVE  UnmountOnce(t) \/ Mount(t) \/ volume' = volume
  <2>1. CASE OwnerCalls(t)
    BY <2>1 DEF OwnerCalls, UnmountCallable, Unmount, Mount2, Spawn, DropSession, Join,
      UmountAndJoin, UnmountOnce
  <2>2. CASE OwnerProceeds(t)
    BY <2>2 DEF OwnerProceeds, GuardUnmounts, ThreadJoined
  <2>3. CASE ThreadProceeds(t)
    BY <2>3 DEF ThreadProceeds, MountFails, WaitForClose, Shutdown, DropSwaps,
      DropDestroys
  <2>4. CASE Request(t) \/ Unmounted(t) \/ CallbackEnds(t) \/ Close(t)
    BY <2>4 DEF Request, Unmounted, CallbackEnds, Returns, Panics, Close, Locks
  <2>5. QED BY <1>6, <2>1, <2>2, <2>3, <2>4 DEF SessionStep
<1>7. QED BY <1>2, <1>3, <1>4, <1>5, <1>6 DEF Next, SessionStep

\* Only a file system that is open is mounted.
MountedOpen == \A s \in Sessions : Mounted(s) => phase[s] = "open"

LEMMA MountedStaysOpen ==
  ASSUME IInv, MountedOpen, [Next]_vars
  PROVE  MountedOpen'
<1>1. ASSUME NEW s \in Sessions, Mounted(s)'
      PROVE  phase'[s] = "open"
  <2>0. TypeOK
    BY DEF IInv
  <2>1. CASE UNCHANGED vars
    BY <1>1, <2>1 DEF MountedOpen, Mounted, vars, mounts
  <2>2. CASE Mount(s)
    BY <2>0, <2>2 DEF Mount, TypeOK
  <2>3. CASE Next /\ ~Mount(s)
    <3>1. Mounted(s) /\ phase[s] = "open"
      BY <1>1, <2>0, <2>3, VolumesComeByMount DEF MountedOpen
    <3>2. CASE Alone(s)
      BY <3>1, <3>2 DEF Alone
    <3>3. CASE SessionStep(s)
      <4>1. ~Unmounted(s) /\ ~Close(s)
        BY <3>1 DEF Unmounted, Close
      <4>2. phase' = phase
        BY <2>3, <3>3, <4>1 DEF SessionStep, OwnerCalls, UnmountCallable, Unmount,
          Mount2, Spawn, DropSession, Join, UmountAndJoin, OwnerProceeds, GuardUnmounts,
          ThreadJoined, ThreadProceeds, MountFails, WaitForClose, Shutdown, DropSwaps,
          DropDestroys, Request, CallbackEnds, Returns, Panics
      <4>3. QED BY <3>1, <4>2
    <3>4. QED BY <2>0, <2>3, <3>2, <3>3, StepIsOf
  <2>4. QED BY <2>1, <2>2, <2>3
<1>2. QED BY <1>1 DEF MountedOpen

\* What Dokan may do to a volume that the join has yet to unmount.
LEMMA DueStays ==
  ASSUME IInv, MountedOpen, Next, NEW s \in Sessions, VolumeDue(s)
  PROVE  VolumeDue(s)' \/ VolumeGone(s)' \/ refused'[s]
<1>0. TypeOK /\ owner[s] = "join" /\ Mounted(s) /\ mountState[s] /\ phase[s] = "open"
  BY DEF IInv, MountedOpen, VolumeDue
<1>1. CASE Alone(s)
  BY <1>0, <1>1 DEF Alone, VolumeDue, VolumeGone, InJoin
<1>2. CASE SessionStep(s)
  <2>1. CASE GuardUnmounts(s)
    <3>1. owner'[s] = "joining" /\ phase' = phase /\ UnmountOnce(s)
      BY <1>0, <2>1 DEF GuardUnmounts, GoesTo, TypeOK
    <3>2. CASE UnmountTakes(s)
      <4>1. volume'[Point[s]] = NoSession
        BY <1>0, <3>2, SessionsAssumption DEF UnmountTakes, TypeOK
      <4>2. ~Mounted(s)'
        BY <4>1, SessionsAssumption DEF Mounted
      <4>3. QED BY <1>0, <3>1, <4>2 DEF VolumeGone, InJoin
    <3>3. CASE UnmountFails(s)
      BY <1>0, <3>3 DEF UnmountFails, TypeOK
    <3>4. QED BY <1>0, <3>1, <3>2, <3>3 DEF UnmountOnce, UnmountSucceeds, UnmountAgain
  <2>2. CASE Unmount(s)
    <3>1. owner' = owner /\ phase' = phase /\ UnmountOnce(s)
      BY <2>2 DEF Unmount, handles
    <3>2. CASE UnmountTakes(s)
      <4>1. volume'[Point[s]] = NoSession
        BY <1>0, <3>2, SessionsAssumption DEF UnmountTakes, TypeOK
      <4>2. ~Mounted(s)'
        BY <4>1, SessionsAssumption DEF Mounted
      <4>3. QED BY <1>0, <3>1, <4>2 DEF VolumeGone, InJoin
    <3>3. CASE UnmountFails(s)
      BY <1>0, <3>3 DEF UnmountFails, TypeOK
    <3>4. QED BY <1>0, <3>1, <3>2, <3>3 DEF UnmountOnce, UnmountSucceeds, UnmountAgain
  <2>3. CASE UnmountCallable(s) \/ Mount2(s) \/ Spawn(s) \/ DropSession(s) \/ Join(s)
             \/ UmountAndJoin(s) \/ ThreadJoined(s)
    BY <1>0, <2>3 DEF UnmountCallable, Mount2, Spawn, DropSession, Join, UmountAndJoin,
      ThreadJoined, GoesTo
  <2>4. CASE Mount(s)
    BY <1>0, <2>4, SessionsAssumption DEF Mount, Mounted
  <2>5. CASE MountFails(s) \/ WaitForClose(s) \/ Shutdown(s) \/ DropSwaps(s)
             \/ DropDestroys(s) \/ Request(s) \/ CallbackEnds(s)
    <3>1. owner' = owner /\ volume' = volume /\ mountState' = mountState
      BY <2>5 DEF MountFails, WaitForClose, Shutdown, DropSwaps, DropDestroys, Request,
        CallbackEnds, Returns, Panics, handles, mounts
    <3>2. QED BY <1>0, <3>1 DEF VolumeDue, Mounted
  <2>6. CASE Unmounted(s) \/ Close(s)
    BY <1>0, <2>6 DEF Unmounted, Close
  <2>7. QED BY <1>2, <2>1, <2>2, <2>3, <2>4, <2>5, <2>6
        DEF SessionStep, OwnerCalls, OwnerProceeds, ThreadProceeds
<1>3. QED BY <1>0, <1>1, <1>2, StepIsOf

\* The steps that are left, from those of the owner, the thread and Dokan.
LEMMA LeftRanges ==
  ASSUME TypeOK, NEW s \in Sessions
  PROVE  /\ OwnerLeft(owner[s]) \in 0 .. 2 /\ ThreadLeft(thr[s]) \in 0 .. 6
         /\ CloseLeft(phase[s]) \in 0 .. 2
<1>1. thr[s] \in Steps /\ phase[s] \in {"none", "open", "unmounted", "closed"}
  BY DEF TypeOK
<1>2. OwnerLeft(owner[s]) \in 0 .. 2
  BY DEF OwnerLeft
<1>3. ThreadLeft(thr[s]) \in 0 .. 6
  BY <1>1 DEF ThreadLeft, Steps
<1>4. CloseLeft(phase[s]) \in 0 .. 2
  BY <1>1 DEF CloseLeft
<1>5. QED BY <1>2, <1>3, <1>4

LEMMA FewerLeft ==
  ASSUME TypeOK, TypeOK', NEW s \in Sessions,
         OwnerLeft(owner'[s]) = OwnerLeft(owner[s]) \/ OwnerLeft(owner'[s]) < OwnerLeft(owner[s]),
         ThreadLeft(thr'[s]) = ThreadLeft(thr[s]) \/ ThreadLeft(thr'[s]) < ThreadLeft(thr[s]),
         CloseLeft(phase'[s]) = CloseLeft(phase[s]) \/ CloseLeft(phase'[s]) < CloseLeft(phase[s])
  PROVE  /\ JoinLeft(s)' <= JoinLeft(s)
         /\ \/ OwnerLeft(owner'[s]) < OwnerLeft(owner[s])
            \/ ThreadLeft(thr'[s]) < ThreadLeft(thr[s])
            \/ CloseLeft(phase'[s]) < CloseLeft(phase[s])
            => JoinLeft(s)' < JoinLeft(s)
<1>1. /\ OwnerLeft(owner[s]) \in 0 .. 2 /\ ThreadLeft(thr[s]) \in 0 .. 6
      /\ CloseLeft(phase[s]) \in 0 .. 2
  BY LeftRanges
<1>2. /\ OwnerLeft(owner'[s]) \in 0 .. 2 /\ ThreadLeft(thr'[s]) \in 0 .. 6
      /\ CloseLeft(phase'[s]) \in 0 .. 2
  <2>1. thr'[s] \in Steps /\ phase'[s] \in {"none", "open", "unmounted", "closed"}
    BY DEF TypeOK
  <2>2. OwnerLeft(owner'[s]) \in 0 .. 2
    BY DEF OwnerLeft
  <2>3. ThreadLeft(thr'[s]) \in 0 .. 6
    BY <2>1 DEF ThreadLeft, Steps
  <2>4. CloseLeft(phase'[s]) \in 0 .. 2
    BY <2>1 DEF CloseLeft
  <2>5. QED BY <2>2, <2>3, <2>4
<1>3. /\ JoinLeft(s) = OwnerLeft(owner[s]) + ThreadLeft(thr[s]) + CloseLeft(phase[s])
      /\ JoinLeft(s)' = OwnerLeft(owner'[s]) + ThreadLeft(thr'[s]) + CloseLeft(phase'[s])
  BY DEF JoinLeft
<1>4. QED BY <1>1, <1>2, <1>3

\* Once the volume is gone the join is on its way to the end.
LEMMA GoneStays ==
  ASSUME IInv, IInv', Next, NEW s \in Sessions, VolumeGone(s)
  PROVE  /\ VolumeGone(s)' \/ owner'[s] = "gone"
         /\ JoinLeft(s)' <= JoinLeft(s)
         /\ OwnerProceeds(s) \/ ThreadProceeds(s) \/ Close(s) => JoinLeft(s)' < JoinLeft(s)
<1> USE DEF handles, mounts, serving
<1>0. /\ TypeOK /\ TypeOK' /\ owner[s] \in {"join", "joining"} /\ phase[s] # "none"
      /\ thr[s] \in Steps \ {"new", "run"} /\ phase[s] \in {"open", "unmounted", "closed"}
  BY DEF IInv, SessionInv, TypeOK, VolumeGone, InJoin
<1>1. ~Mounted(s)'
  BY <1>0, VolumesComeByMount DEF VolumeGone, Mount, Proceeds
<1>2. CASE OwnerProceeds(s)
  <2>1. thr' = thr /\ phase' = phase
    BY <1>2 DEF OwnerProceeds, GuardUnmounts, ThreadJoined
  <2>2. \/ owner[s] = "join" /\ owner'[s] = "joining"
        \/ owner[s] = "joining" /\ owner'[s] = "gone"
    BY <1>0, <1>2 DEF OwnerProceeds, GuardUnmounts, ThreadJoined, GoesTo, TypeOK
  <2>3. OwnerLeft(owner'[s]) < OwnerLeft(owner[s])
    BY <2>2 DEF OwnerLeft
  <2>4. /\ OwnerLeft(owner'[s]) = OwnerLeft(owner[s]) \/ OwnerLeft(owner'[s]) < OwnerLeft(owner[s])
        /\ ThreadLeft(thr'[s]) = ThreadLeft(thr[s]) \/ ThreadLeft(thr'[s]) < ThreadLeft(thr[s])
        /\ CloseLeft(phase'[s]) = CloseLeft(phase[s]) \/ CloseLeft(phase'[s]) < CloseLeft(phase[s])
    BY <2>1, <2>3
  <2>5. JoinLeft(s)' < JoinLeft(s) /\ JoinLeft(s)' <= JoinLeft(s)
    BY <1>0, <2>3, <2>4, FewerLeft
  <2>6. VolumeGone(s)' \/ owner'[s] = "gone"
    BY <1>0, <1>1, <2>1, <2>2 DEF VolumeGone, InJoin
  <2>7. QED BY <2>5, <2>6
<1>3. CASE ThreadProceeds(s)
  <2>1. owner' = owner /\ phase' = phase
    BY <1>0, <1>3 DEF ThreadProceeds, Mount, MountFails, WaitForClose, Shutdown,
      DropSwaps, DropDestroys, Proceeds
  <2>2. \/ thr[s] = "wait" /\ thr'[s] = "shutdown"
        \/ thr[s] = "shutdown" /\ thr'[s] = "drop"
        \/ thr[s] = "drop" /\ thr'[s] \in {"done", "destroy"}
        \/ thr[s] = "destroy" /\ thr'[s] = "done"
    BY <1>0, <1>3 DEF ThreadProceeds, Mount, MountFails, WaitForClose, Shutdown,
      DropSwaps, DropDestroys, Proceeds, TypeOK
  <2>3. ThreadLeft(thr'[s]) < ThreadLeft(thr[s])
    BY <2>2 DEF ThreadLeft
  <2>4. /\ OwnerLeft(owner'[s]) = OwnerLeft(owner[s]) \/ OwnerLeft(owner'[s]) < OwnerLeft(owner[s])
        /\ ThreadLeft(thr'[s]) = ThreadLeft(thr[s]) \/ ThreadLeft(thr'[s]) < ThreadLeft(thr[s])
        /\ CloseLeft(phase'[s]) = CloseLeft(phase[s]) \/ CloseLeft(phase'[s]) < CloseLeft(phase[s])
    BY <2>1, <2>3
  <2>5. JoinLeft(s)' < JoinLeft(s) /\ JoinLeft(s)' <= JoinLeft(s)
    BY <1>0, <2>3, <2>4, FewerLeft
  <2>6. VolumeGone(s)'
    BY <1>0, <1>1, <2>1 DEF VolumeGone, InJoin
  <2>7. QED BY <2>5, <2>6
<1>4. CASE Close(s)
  <2>1. owner' = owner /\ thr' = thr
    BY <1>4 DEF Close
  <2>2. phase[s] \in {"open", "unmounted"} /\ phase'[s] = "closed"
    BY <1>0, <1>4 DEF Close, TypeOK
  <2>3. CloseLeft(phase'[s]) < CloseLeft(phase[s])
    BY <2>2 DEF CloseLeft
  <2>4. /\ OwnerLeft(owner'[s]) = OwnerLeft(owner[s]) \/ OwnerLeft(owner'[s]) < OwnerLeft(owner[s])
        /\ ThreadLeft(thr'[s]) = ThreadLeft(thr[s]) \/ ThreadLeft(thr'[s]) < ThreadLeft(thr[s])
        /\ CloseLeft(phase'[s]) = CloseLeft(phase[s]) \/ CloseLeft(phase'[s]) < CloseLeft(phase[s])
    BY <2>1, <2>3
  <2>5. JoinLeft(s)' < JoinLeft(s) /\ JoinLeft(s)' <= JoinLeft(s)
    BY <1>0, <2>3, <2>4, FewerLeft
  <2>6. VolumeGone(s)'
    BY <1>0, <1>1, <2>1, <2>2 DEF VolumeGone, InJoin
  <2>7. QED BY <2>5, <2>6
<1>5. CASE ~OwnerProceeds(s) /\ ~ThreadProceeds(s) /\ ~Close(s)
  <2>1. owner'[s] = owner[s] /\ thr'[s] = thr[s]
    <3>1. CASE Alone(s)
      BY <3>1 DEF Alone
    <3>2. CASE OwnerCalls(s)
      BY <1>0, <3>2 DEF OwnerCalls, UnmountCallable, Unmount, Mount2, Spawn, DropSession,
        Join, UmountAndJoin, GoesTo
    <3>3. CASE Request(s) \/ Unmounted(s) \/ CallbackEnds(s)
      BY <3>3 DEF Request, Unmounted, CallbackEnds, Returns, Panics
    <3>4. QED BY <1>0, <1>5, <3>1, <3>2, <3>3, StepIsOf DEF SessionStep
  <2>2. \/ phase'[s] = phase[s]
        \/ phase[s] = "open" /\ phase'[s] = "unmounted"
    <3>1. CASE Alone(s)
      BY <3>1 DEF Alone
    <3>2. CASE OwnerCalls(s)
      BY <3>2 DEF OwnerCalls, UnmountCallable, Unmount, Mount2, Spawn, DropSession,
        Join, UmountAndJoin
    <3>3. CASE Unmounted(s)
      BY <1>0, <3>3 DEF Unmounted, TypeOK
    <3>4. CASE Request(s) \/ CallbackEnds(s)
      BY <3>4 DEF Request, CallbackEnds, Returns, Panics
    <3>5. QED BY <1>0, <1>5, <3>1, <3>2, <3>3, <3>4, StepIsOf DEF SessionStep
  <2>3. CloseLeft(phase'[s]) = CloseLeft(phase[s]) \/ CloseLeft(phase'[s]) < CloseLeft(phase[s])
    <3>1. CASE phase'[s] = phase[s]
      BY <3>1
    <3>2. CASE phase[s] = "open" /\ phase'[s] = "unmounted"
      BY <3>2 DEF CloseLeft
    <3>3. QED BY <2>2, <3>1, <3>2
  <2>4. JoinLeft(s)' <= JoinLeft(s)
    BY <1>0, <2>1, <2>3, FewerLeft
  <2>5. VolumeGone(s)'
    BY <1>0, <1>1, <2>1, <2>2 DEF VolumeGone, InJoin
  <2>6. QED BY <1>5, <2>4, <2>5
<1>6. QED BY <1>2, <1>3, <1>4, <1>5

\* The volume of a join that begins while the session is mounted is unmounted, unless
\* Dokan refuses, and never mounted again, by whatever else happens at the mount
\* point; from then on the join, the thread and Dokan have at most JoinLeft steps
\* left, whatever the owners of other sessions and outsiders do in between
\* (session.rs:248-260).
THEOREM JoinsComeToAnEnd == Spec => JoinsShorten
<1>1. Init => MountedOpen
  BY SessionsAssumption DEF Init, MountedOpen, Mounted
<1>2. IInv /\ MountedOpen /\ [Next]_vars => MountedOpen'
  BY MountedStaysOpen
<1>3. ASSUME IInv, MountedOpen, IInv', [Next]_vars
      PROVE  [\A s \in Sessions :
                /\ VolumeDue(s) => VolumeDue(s)' \/ VolumeGone(s)' \/ refused'[s]
                /\ VolumeGone(s) =>
                     /\ VolumeGone(s)' \/ owner'[s] = "gone"
                     /\ JoinLeft(s)' <= JoinLeft(s)
                     /\ OwnerProceeds(s) \/ ThreadProceeds(s) \/ Close(s) =>
                          JoinLeft(s)' < JoinLeft(s)]_vars
  BY <1>3, DueStays, GoneStays
<1>4. QED BY <1>1, <1>2, <1>3, Invariance, PTL DEF Spec, JoinsShorten

=============================================================================
