-------------------------- MODULE RedisLocks_proofs --------------------------
(* The locks keep two tasks apart for every set of processes, tasks and ids. *)
(* ReleaseSucceeds is the inductive core: Redis stores ONE task per id, and   *)
(* a task that holds an id is the one stored there.                           *)
EXTENDS RedisLocks, TLAPS

LEMMA InitEstablishes == LockInit => LockIInv
BY LockAssumption, DeploymentAssumption DEF LockInit, LockIInv, LockTypeOK, ReleaseSucceeds

LEMMA AcquirePreserves ==
  ASSUME LockIInv, NEW t \in Task, NEW i \in Id, AcquireOk(t, i)
  PROVE  LockIInv'
<1>1. LockTypeOK'
  BY LockAssumption, DeploymentAssumption DEF LockIInv, LockTypeOK, AcquireOk
<1>2. ASSUME NEW u \in Task, holding'[u] # None
      PROVE  redis'[holding'[u]] = u /\ locks'[ProcOf[u]][holding'[u]] = u
  <2>1. CASE u = t
    BY <2>1, LockAssumption, DeploymentAssumption DEF LockIInv, LockTypeOK, AcquireOk
  <2>2. CASE u # t
    <3>1. holding'[u] = holding[u] /\ holding[u] \in Id
      BY <1>2, <2>2 DEF LockIInv, LockTypeOK, AcquireOk
    <3>2. redis[holding[u]] = u /\ locks[ProcOf[u]][holding[u]] = u
      BY <1>2, <3>1 DEF LockIInv, ReleaseSucceeds
    <3>3. holding[u] # i
      BY <3>2, LockAssumption, DeploymentAssumption DEF AcquireOk
    <3>4. redis'[holding[u]] = u /\ locks'[ProcOf[u]][holding[u]] = u
      BY <3>1, <3>2, <3>3, LockAssumption, DeploymentAssumption DEF LockIInv, LockTypeOK, AcquireOk
    <3> QED BY <3>1, <3>4
  <2> QED BY <2>1, <2>2
<1> QED BY <1>1, <1>2 DEF LockIInv, ReleaseSucceeds

LEMMA ReleasePreserves ==
  ASSUME LockIInv, NEW t \in Task, ReleaseOk(t)
  PROVE  LockIInv'
<1>1. holding[t] \in Id /\ redis[holding[t]] = t
  BY DEF LockIInv, LockTypeOK, ReleaseSucceeds, ReleaseOk
<1>2. LockTypeOK'
  BY <1>1, LockAssumption, DeploymentAssumption DEF LockIInv, LockTypeOK, ReleaseOk
<1>3. ASSUME NEW u \in Task, holding'[u] # None
      PROVE  redis'[holding'[u]] = u /\ locks'[ProcOf[u]][holding'[u]] = u
  <2>1. u # t /\ holding'[u] = holding[u]
    BY <1>3 DEF LockIInv, LockTypeOK, ReleaseOk
  <2>2. redis[holding[u]] = u /\ locks[ProcOf[u]][holding[u]] = u /\ holding[u] \in Id
    BY <1>3, <2>1 DEF LockIInv, LockTypeOK, ReleaseSucceeds
  <2>3. holding[u] # holding[t]
    BY <1>1, <2>1, <2>2
  <2> QED BY <2>1, <2>2, <2>3 DEF LockIInv, LockTypeOK, ReleaseOk
<1> QED BY <1>2, <1>3 DEF LockIInv, ReleaseSucceeds

LEMMA NoRejection ==
  ASSUME LockIInv, NEW t \in Task
  PROVE  ~ReleaseRejected(t)
BY DEF LockIInv, ReleaseSucceeds, ReleaseRejected

LEMMA ExpirePreserves ==
  ASSUME Overrun = FALSE, LockIInv, NEW i \in Id, Expire(i)
  PROVE  LockIInv'
<1>1. LockTypeOK'
  BY LockAssumption, DeploymentAssumption DEF LockIInv, LockTypeOK, Expire
<1>2. ASSUME NEW u \in Task, holding[u] # None
      PROVE  redis'[holding[u]] = u
  <2>1. redis[holding[u]] = u /\ holding[u] \in Id
    BY <1>2 DEF LockIInv, LockTypeOK, ReleaseSucceeds
  <2>2. holding[u] # i
    BY <2>1 DEF Expire, Claimed
  <2> QED BY <2>1, <2>2 DEF LockIInv, LockTypeOK, Expire
<1> QED BY <1>1, <1>2 DEF LockIInv, ReleaseSucceeds, Expire

LEMMA LostPreserves ==
  ASSUME LockIInv, NEW t \in Task, NEW i \in Id, AcquireLost(t, i)
  PROVE  LockIInv'
<1>1. LockTypeOK'
  BY DEF LockIInv, LockTypeOK, AcquireLost
<1>2. ASSUME NEW u \in Task, holding[u] # None
      PROVE  redis'[holding[u]] = u
  <2>1. redis[holding[u]] = u /\ holding[u] \in Id
    BY <1>2 DEF LockIInv, LockTypeOK, ReleaseSucceeds
  <2>2. holding[u] # i
    BY <2>1, LockAssumption DEF AcquireLost
  <2> QED BY <2>1, <2>2 DEF LockIInv, LockTypeOK, AcquireLost
<1> QED BY <1>1, <1>2 DEF LockIInv, ReleaseSucceeds, AcquireLost

\* A process that ends takes with it the only task that a key it frees can be of.
LEMMA ForgetsPreserves ==
  ASSUME LockIInv, NEW p \in Proc, Forgets(p),
         redis' \in [Id -> Task \cup {None, Orphan}],
         \A i \in Id : redis'[i] = redis[i] \/ (redis[i] \in Task /\ ProcOf[redis[i]] = p)
  PROVE  LockIInv'
<1>1. LockTypeOK'
  BY LockAssumption, DeploymentAssumption DEF LockIInv, LockTypeOK, Forgets
<1>2. ASSUME NEW u \in Task, holding'[u] # None
      PROVE  redis'[holding'[u]] = u /\ locks'[ProcOf[u]][holding'[u]] = u
  <2>1. ProcOf[u] # p /\ ProcOf[u] \in Proc /\ holding'[u] = holding[u] /\ holding[u] \in Id
    BY <1>2, LockAssumption, DeploymentAssumption DEF LockIInv, LockTypeOK, Forgets
  <2>2. redis[holding[u]] = u /\ locks[ProcOf[u]][holding[u]] = u
    BY <1>2, <2>1 DEF LockIInv, ReleaseSucceeds
  <2>3. redis'[holding[u]] = redis[holding[u]]
    BY <2>1, <2>2
  <2> QED BY <2>1, <2>2, <2>3 DEF LockIInv, LockTypeOK, Forgets
<1> QED BY <1>1, <1>2 DEF LockIInv, ReleaseSucceeds

LEMMA ExitPreserves ==
  ASSUME LockIInv, NEW p \in Proc, Exit(p)
  PROVE  LockIInv'
<1>1. redis' = redis /\ redis \in [Id -> Task \cup {None, Orphan}]
  BY DEF Exit, LockIInv, LockTypeOK
<1> QED BY <1>1, ForgetsPreserves DEF Exit

LEMMA UnansweredPreserves ==
  ASSUME LockIInv, NEW t \in Task, ReleaseUnanswered(t), Forgets(ProcOf[t])
  PROVE  LockIInv'
<1>1. holding[t] \in Id /\ redis[holding[t]] = t /\ ProcOf[t] \in Proc
  BY LockAssumption DEF LockIInv, LockTypeOK, ReleaseSucceeds, ReleaseUnanswered
<1>2. /\ redis' \in [Id -> Task \cup {None, Orphan}]
      /\ \A i \in Id : i # holding[t] => redis'[i] = redis[i]
  BY <1>1 DEF LockIInv, LockTypeOK, ReleaseUnanswered
<1> QED BY <1>1, <1>2, ForgetsPreserves

LEMMA FatalPreserves ==
  ASSUME LockIInv, NEW t \in Task, ReleaseFatal(t)
  PROVE  LockIInv'
BY NoRejection, UnansweredPreserves DEF ReleaseFatal

LEMMA LockStep ==
  ASSUME Overrun = FALSE, LockIInv, [LockNext]_lockVars
  PROVE  LockIInv'
<1>1. ASSUME NEW t \in Task, NEW i \in Id, AcquireOk(t, i) PROVE LockIInv'
  BY <1>1, AcquirePreserves
<1>2. ASSUME NEW t \in Task, ReleaseOk(t) PROVE LockIInv'
  BY <1>2, ReleasePreserves
<1>3. ASSUME NEW i \in Id, Expire(i) PROVE LockIInv'
  BY <1>3, ExpirePreserves
<1>4. ASSUME NEW p \in Proc, Exit(p) PROVE LockIInv'
  BY <1>4, ExitPreserves
<1>5. ASSUME NEW t \in Task, NEW i \in Id, AcquireLost(t, i) PROVE LockIInv'
  BY <1>5, LostPreserves
<1>6. ASSUME NEW t \in Task, ReleaseFatal(t) PROVE LockIInv'
  BY <1>6, FatalPreserves
<1>7. CASE UNCHANGED lockVars
  BY <1>7 DEF lockVars, LockIInv, LockTypeOK, ReleaseSucceeds
<1> QED BY <1>1, <1>2, <1>3, <1>4, <1>5, <1>6, <1>7 DEF LockNext, AcquireRefused

\* acquire(), release(), expiry and exits keep the types, whatever the durations.
THEOREM LocksKeepTypes == LockSpec => []LockTypeOK
<1>1. LockInit => LockTypeOK
  BY DEF LockInit, LockTypeOK
<1>2. LockTypeOK /\ [LockNext]_lockVars => LockTypeOK'
  <2> SUFFICES ASSUME LockTypeOK, [LockNext]_lockVars PROVE LockTypeOK'
    OBVIOUS
  <2>1. ASSUME NEW t \in Task, NEW i \in Id, AcquireOk(t, i) PROVE LockTypeOK'
    BY <2>1, LockAssumption, DeploymentAssumption DEF AcquireOk, LockTypeOK
  <2>2. ASSUME NEW t \in Task, ReleaseOk(t) PROVE LockTypeOK'
    BY <2>2 DEF ReleaseOk, LockTypeOK
  <2>3. ASSUME NEW i \in Id, Expire(i) PROVE LockTypeOK'
    BY <2>3 DEF Expire, LockTypeOK
  <2>4. ASSUME NEW p \in Proc, Exit(p) PROVE LockTypeOK'
    BY <2>4 DEF Exit, Forgets, LockTypeOK
  <2>5. ASSUME NEW t \in Task, NEW i \in Id, AcquireLost(t, i) PROVE LockTypeOK'
    BY <2>5 DEF AcquireLost, LockTypeOK
  <2>6. ASSUME NEW t \in Task, ReleaseFatal(t) PROVE LockTypeOK'
    BY <2>6 DEF ReleaseFatal, ReleaseUnanswered, Forgets, LockTypeOK
  <2>7. CASE UNCHANGED lockVars
    BY <2>7 DEF lockVars, LockTypeOK
  <2> QED BY <2>1, <2>2, <2>3, <2>4, <2>5, <2>6, <2>7 DEF LockNext, AcquireRefused
<1> QED BY <1>1, <1>2, PTL DEF LockSpec

\* While tasks respect the bound on their duration, the finally block of
\* runReminderTask always finds its own lock, and Redis never rejects release().
THEOREM ReleaseAlwaysSucceeds ==
  ASSUME Overrun = FALSE PROVE LockSpec => [](LockTypeOK /\ ReleaseSucceeds)
<1>1. LockInit => LockIInv
  BY InitEstablishes
<1>2. LockIInv /\ [LockNext]_lockVars => LockIInv'
  BY LockStep
<1>3. LockSpec => []LockIInv
  BY <1>1, <1>2, PTL DEF LockSpec
<1> QED BY <1>3, PTL DEF LockIInv

LEMMA OneTaskPerId == LockIInv => MutualExclusion
BY DEF LockIInv, LockTypeOK, ReleaseSucceeds, MutualExclusion

\* While tasks respect the bound on their duration, no two tasks of any number
\* of processes work on one reminder id at the same time.
THEOREM TasksExclude ==
  ASSUME Overrun = FALSE PROVE LockSpec => []MutualExclusion
<1>1. LockSpec => []LockIInv
  BY ReleaseAlwaysSucceeds, PTL DEF LockIInv
<1> QED BY <1>1, OneTaskPerId, PTL

LEMMA StepRefines ==
  ASSUME Overrun = FALSE, LockIInv, [LockNext]_lockVars
  PROVE  [Mutex!MutexNext]_holding
<1>1. ASSUME NEW t \in Task, NEW i \in Id, AcquireOk(t, i) PROVE Mutex!Take(t, i)
  <2>1. \A u \in Task : holding[u] # i
    BY <1>1, LockAssumption, DeploymentAssumption DEF LockIInv, ReleaseSucceeds, AcquireOk
  <2> QED BY <1>1, <2>1 DEF AcquireOk, Mutex!Take
<1>2. ASSUME NEW t \in Task, ReleaseOk(t) PROVE Mutex!Give(t)
  BY <1>2 DEF ReleaseOk, Mutex!Give
<1>3. ASSUME NEW i \in Id, Expire(i) PROVE UNCHANGED holding
  BY <1>3 DEF Expire
<1>4. ASSUME NEW p \in Proc, Exit(p) PROVE Mutex!Drop(p)
  BY <1>4 DEF Exit, Forgets, Mutex!Drop
<1>5. ASSUME NEW t \in Task, NEW i \in Id, AcquireLost(t, i) PROVE UNCHANGED holding
  BY <1>5 DEF AcquireLost
<1>6. ASSUME NEW t \in Task, ReleaseFatal(t) PROVE ProcOf[t] \in Proc /\ Mutex!Drop(ProcOf[t])
  BY <1>6, LockAssumption DEF ReleaseFatal, Forgets, Mutex!Drop
<1>7. CASE UNCHANGED lockVars
  BY <1>7 DEF lockVars
<1> QED
  BY <1>1, <1>2, <1>3, <1>4, <1>5, <1>6, <1>7
  DEF LockNext, AcquireRefused, lockVars, Mutex!MutexNext

\* The Redis locks with their per-process Map implement the abstract mutual
\* exclusion, whatever the processes, tasks and reminder ids.
THEOREM LocksImplementMutex ==
  ASSUME Overrun = FALSE PROVE LockSpec => ImplementsMutex
<1>1. LockInit => Mutex!MutexInit
  BY DEF LockInit, Mutex!MutexInit
<1>2. LockIInv /\ [LockNext]_lockVars => [Mutex!MutexNext]_holding
  BY StepRefines
<1>3. LockSpec => []LockIInv
  BY ReleaseAlwaysSucceeds, PTL DEF LockIInv
<1> QED BY <1>1, <1>2, <1>3, PTL DEF LockSpec, ImplementsMutex, Mutex!MutexSpec

----------------------------------------------------------------------------
\* A process keeps in its Map only locks that its own tasks obtained.
OwnLocks ==
  \A p \in Proc, i \in Id : locks[p][i] # None => ProcOf[locks[p][i]] = p

LEMMA OwnLocksStep ==
  ASSUME LockTypeOK, OwnLocks, [LockNext]_lockVars
  PROVE  LockTypeOK' /\ OwnLocks'
<1>1. ASSUME NEW t \in Task, NEW i \in Id, AcquireOk(t, i)
      PROVE  LockTypeOK' /\ OwnLocks'
  BY <1>1, LockAssumption, DeploymentAssumption DEF AcquireOk, LockTypeOK, OwnLocks
<1>2. ASSUME NEW t \in Task, ReleaseOk(t) PROVE LockTypeOK' /\ OwnLocks'
  BY <1>2 DEF ReleaseOk, LockTypeOK, OwnLocks
<1>3. ASSUME NEW p \in Proc, Exit(p) PROVE LockTypeOK' /\ OwnLocks'
  BY <1>3 DEF Exit, Forgets, LockTypeOK, OwnLocks
<1>4. ASSUME NEW i \in Id, Expire(i) PROVE LockTypeOK' /\ OwnLocks'
  BY <1>4 DEF Expire, LockTypeOK, OwnLocks
<1>5. ASSUME NEW t \in Task, NEW i \in Id, AcquireLost(t, i)
      PROVE  LockTypeOK' /\ OwnLocks'
  BY <1>5 DEF AcquireLost, LockTypeOK, OwnLocks
<1>6. ASSUME NEW t \in Task, ReleaseFatal(t) PROVE LockTypeOK' /\ OwnLocks'
  <2>1. LockTypeOK'
    BY <1>6 DEF ReleaseFatal, ReleaseUnanswered, Forgets, LockTypeOK
  <2>2. OwnLocks'
    BY <1>6, LockAssumption DEF ReleaseFatal, Forgets, LockTypeOK, OwnLocks
  <2> QED BY <2>1, <2>2
<1>7. CASE UNCHANGED lockVars
  BY <1>7 DEF lockVars, LockTypeOK, OwnLocks
<1> QED
  BY <1>1, <1>2, <1>3, <1>4, <1>5, <1>6, <1>7, LockAssumption, DeploymentAssumption
  DEF LockNext, AcquireRefused

LEMMA FreedAtHomeStep ==
  ASSUME LockTypeOK, OwnLocks, LockNext
  PROVE  FreedAtHome
<1> SUFFICES ASSUME NEW t \in Task, NEW u \in Task, NEW i \in Id,
                    redis[i] = t, redis'[i] = None, holding[u] = i, holding'[u] = None
             PROVE  ProcOf[u] = ProcOf[t]
  BY DEF FreedAtHome
<1>1. t # None /\ i # None
  BY LockAssumption, DeploymentAssumption
<1>2. ASSUME NEW v \in Task, ReleaseOk(v) PROVE ProcOf[u] = ProcOf[t]
  <2>1. v = u
    BY <1>1, <1>2 DEF ReleaseOk, LockTypeOK
  <2>2. redis[i] = locks[ProcOf[u]][i] /\ ProcOf[u] \in Proc
    BY <1>2, <2>1, LockAssumption, DeploymentAssumption DEF ReleaseOk
  <2> QED BY <1>1, <2>2 DEF OwnLocks
<1>3. ASSUME NEW v \in Task, NEW j \in Id, AcquireOk(v, j) PROVE FALSE
  BY <1>1, <1>3, LockAssumption, DeploymentAssumption DEF AcquireOk, LockTypeOK
<1>4. ASSUME NEW j \in Id, Expire(j) PROVE FALSE
  BY <1>1, <1>4 DEF Expire
<1>5. ASSUME UNCHANGED redis PROVE FALSE
  BY <1>1, <1>5
<1>6. ASSUME NEW v \in Task, NEW j \in Id, AcquireLost(v, j) PROVE FALSE
  BY <1>1, <1>6, LockAssumption DEF AcquireLost, LockTypeOK
<1>7. ASSUME NEW v \in Task, ReleaseFatal(v) PROVE ProcOf[u] = ProcOf[t]
  <2>1. ReleaseUnanswered(v) /\ Forgets(ProcOf[v]) /\ ~UNCHANGED redis
    BY <1>5, <1>7 DEF ReleaseFatal
  <2>2. /\ redis[holding[v]] = locks[ProcOf[v]][holding[v]]
        /\ redis' = [redis EXCEPT ![holding[v]] = None]
        /\ locks[ProcOf[v]][holding[v]] # None /\ holding[v] \in Id
    BY <2>1 DEF ReleaseUnanswered, LockTypeOK
  <2>3. holding[v] = i
    BY <1>1, <2>2 DEF LockTypeOK
  <2>4. ProcOf[v] = ProcOf[t] /\ ProcOf[v] \in Proc
    BY <2>2, <2>3, LockAssumption DEF OwnLocks
  <2>5. ProcOf[u] = ProcOf[v]
    BY <1>1, <2>1 DEF Forgets, LockTypeOK
  <2> QED BY <2>4, <2>5
<1> QED
  BY <1>2, <1>3, <1>4, <1>5, <1>6, <1>7
  DEF LockNext, AcquireRefused, Exit, lockVars

\* Whether or not tasks outlive their locks, a process never releases a key that
\* another process has taken: redlock's comparison of values suffices across
\* processes (within one process, the shared Map defeats it).
THEOREM ReleasesStayHome == LockSpec => ForeignLockKept
<1>1. LockInit => LockTypeOK /\ OwnLocks
  BY LockAssumption, DeploymentAssumption DEF LockInit, LockTypeOK, OwnLocks
<1>2. LockTypeOK /\ OwnLocks /\ [LockNext]_lockVars => (LockTypeOK /\ OwnLocks)'
  BY OwnLocksStep
<1>3. LockTypeOK /\ OwnLocks /\ [LockNext]_lockVars => [FreedAtHome]_lockVars
  BY FreedAtHomeStep
<1> QED BY <1>1, <1>2, <1>3, PTL DEF LockSpec, ForeignLockKept
=============================================================================
