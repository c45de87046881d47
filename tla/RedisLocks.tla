---------------------------- MODULE RedisLocks ----------------------------
(* The distributed lock of the scheduling processes: one Redis key per       *)
(* reminder id (redlock), and in each process the Map `locks` that remembers *)
(* only the last Lock obtained for an id (redis_locks.ts).  A Lock object is *)
(* identified with the task that obtained it: a task acquires once per run.  *)
EXTENDS Deployment

CONSTANTS
  Task,       \* runs of runReminderTask that can be in flight
  ProcOf,     \* ProcOf[t]: the process task t runs in
  Overrun,    \* TRUE: a task may outlive the lock's time to live
  Orphan      \* the value of a lock whose acquire() never learnt that it has it

ASSUME LockAssumption ==
  /\ ProcOf \in [Task -> Proc]
  /\ None \notin Task /\ Orphan \notin Task \cup {None}
  /\ Overrun \in BOOLEAN

VARIABLES
  redis,      \* redis[i]: whose lock's value Redis stores under i
  locks,      \* locks[p][i]: the Lock in p's Map; entries are never removed
  holding     \* holding[t]: the id t has acquired and not yet released

lockVars == <<redis, locks, holding>>

LockTypeOK ==
  /\ redis \in [Id -> Task \cup {None, Orphan}]
  /\ locks \in [Proc -> [Id -> Task \cup {None}]]
  /\ holding \in [Task -> Id \cup {None}]

LockInit ==
  /\ redis = [i \in Id |-> None]
  /\ locks = [p \in Proc |-> [i \in Id |-> None]]
  /\ holding = [t \in Task |-> None]

----------------------------------------------------------------------------
\* The task whose lock Redis stores under i is still at work on it.
Claimed(i) == redis[i] \in Task /\ holding[redis[i]] = i

(* Faulty variants of the operations below, which the properties must reject. *)

\* redlock without a key per id: acquire ignores what Redis stores.
AcquireBlindly(t, i) ==
  /\ holding[t] = None
  /\ redis' = [redis EXCEPT ![i] = t]
  /\ locks' = [locks EXCEPT ![ProcOf[t]][i] = t]
  /\ holding' = [holding EXCEPT ![t] = i]

\* acquire() keeps the first Lock it ever stored for the id.
AcquireKeepsOldLock(t, i) ==
  LET p == ProcOf[t] IN
  /\ holding[t] = None
  /\ redis[i] = None
  /\ redis' = [redis EXCEPT ![i] = t]
  /\ locks' = IF locks[p][i] = None THEN [locks EXCEPT ![p][i] = t] ELSE locks
  /\ holding' = [holding EXCEPT ![t] = i]

\* locks.set() with its two arguments swapped.
AcquireSwapsArguments(t, i) ==
  /\ holding[t] = None
  /\ redis[i] = None
  /\ redis' = [redis EXCEPT ![i] = t]
  /\ locks' = [locks EXCEPT ![ProcOf[t]][i] = i]
  /\ holding' = [holding EXCEPT ![t] = i]

\* Keys without time to live.
ExpireNever(i) ==
  /\ FALSE
  /\ Overrun \/ ~Claimed(i)
  /\ redis' = [redis EXCEPT ![i] = None]
  /\ UNCHANGED <<locks, holding>>

\* release() deletes the key without comparing values.
ReleaseBlindly(t) ==
  /\ holding[t] # None
  /\ redis' = [redis EXCEPT ![holding[t]] = None]
  /\ holding' = [holding EXCEPT ![t] = None]
  /\ UNCHANGED locks

----------------------------------------------------------------------------
(* acquire(): redlock stores the key if it is absent, then locks.set().  The *)
(* two are one step: a release in between can only be one that Redis         *)
(* rejects, and it is rejected as well before the key was taken.             *)
AcquireOk(t, i) ==
  /\ holding[t] = None
  /\ redis[i] = None
  /\ redis' = [redis EXCEPT ![i] = t]
  /\ locks' = [locks EXCEPT ![ProcOf[t]][i] = t]
  /\ holding' = [holding EXCEPT ![t] = i]

\* acquire() returns false: the key stayed taken for every retry (at least one
\* attempt found it taken).
AcquireRefused(t, i) ==
  /\ holding[t] = None
  /\ redis[i] # None
  /\ UNCHANGED lockVars

\* acquire() returns false because Redis does not answer, and neither does it answer
\* redlock's attempt to undo what it has done; the key is set until it expires.
AcquireLost(t, i) ==
  /\ holding[t] = None
  /\ redis[i] = None
  /\ redis' = [redis EXCEPT ![i] = Orphan]
  /\ UNCHANGED <<locks, holding>>

\* release(): the lock that the Map holds NOW for the id is released, and Redis
\* deletes the key only if it still stores that lock's value.
ReleaseOk(t) ==
  LET i == holding[t] IN
  /\ i # None
  /\ locks[ProcOf[t]][i] # None
  /\ redis[i] = locks[ProcOf[t]][i]
  /\ redis' = [redis EXCEPT ![i] = None]
  /\ holding' = [holding EXCEPT ![t] = None]
  /\ UNCHANGED locks

\* lock.release() throws: Redis no longer stores the value of that lock.
ReleaseRejected(t) ==
  LET i == holding[t] IN
  /\ i # None
  /\ locks[ProcOf[t]][i] # None
  /\ redis[i] # locks[ProcOf[t]][i]

\* lock.release() throws because Redis does not answer; the key may be deleted.
ReleaseUnanswered(t) ==
  LET i == holding[t] IN
  /\ i # None
  /\ locks[ProcOf[t]][i] # None
  /\ \/ UNCHANGED redis
     \/ /\ redis[i] = locks[ProcOf[t]][i]
        /\ redis' = [redis EXCEPT ![i] = None]

\* The key's time to live ends.  With Overrun = FALSE the documented bound on a
\* task's duration holds: only a key that no task claims can expire.
Expire(i) ==
  /\ redis[i] # None
  /\ Overrun \/ ~Claimed(i)
  /\ redis' = [redis EXCEPT ![i] = None]
  /\ UNCHANGED <<locks, holding>>

\* Process p ends: its Map and its tasks are gone, what Redis stores is not.
Forgets(p) ==
  /\ locks' = [locks EXCEPT ![p] = [i \in Id |-> None]]
  /\ holding' = [t \in Task |-> IF ProcOf[t] = p THEN None ELSE holding[t]]

Exit(p) == Forgets(p) /\ UNCHANGED redis

\* A release that throws leaves an async function nobody awaits: the process ends.
ReleaseFatal(t) ==
  /\ (ReleaseRejected(t) /\ UNCHANGED redis) \/ ReleaseUnanswered(t)
  /\ Forgets(ProcOf[t])

LockNext ==
  \/ \E t \in Task, i \in Id : AcquireOk(t, i)
  \/ \E t \in Task, i \in Id : AcquireRefused(t, i)
  \/ \E t \in Task, i \in Id : AcquireLost(t, i)
  \/ \E t \in Task : ReleaseOk(t)
  \/ \E t \in Task : ReleaseFatal(t)
  \/ \E i \in Id : Expire(i)
  \/ \E p \in Proc : Exit(p)

LockSpec == LockInit /\ [][LockNext]_lockVars

\* Every task reaches its finally block, and a key's time to live ends.
LockFairness ==
  /\ \A t \in Task : WF_lockVars(ReleaseOk(t) \/ ReleaseFatal(t))
  /\ \A i \in Id : WF_lockVars(Expire(i))

LockFairSpec == LockSpec /\ LockFairness

----------------------------------------------------------------------------
\* Two tasks never work on the same reminder id at once, in one process or in
\* two: what runReminderTask relies on from acquire() to release().
MutualExclusion ==
  \A t, u \in Task : holding[t] = holding[u] /\ holding[t] # None => t = u

\* A task that is about to release finds its own lock in the Map and its own
\* value in Redis: Redis has no reason to reject the release in the finally block
\* of runReminderTask (an exception there ends the process).  What is left is that
\* Redis does not answer.
ReleaseSucceeds ==
  \A t \in Task : holding[t] # None =>
    /\ redis[holding[t]] = t
    /\ locks[ProcOf[t]][holding[t]] = t

LockIInv == LockTypeOK /\ ReleaseSucceeds

\* Even when tasks outlive their locks, a release never frees a key that a task
\* of another process has taken since: Redis compares the lock's value.
FreedAtHome ==
  \A t, u \in Task, i \in Id :
    /\ redis[i] = t /\ redis'[i] = None
    /\ holding[u] = i /\ holding'[u] = None
    => ProcOf[u] = ProcOf[t]

ForeignLockKept == [][FreedAtHome]_lockVars

\* Every key is freed in the end: a holder that has died, or an acquire() whose
\* reply was lost, blocks a reminder id no longer than the lock's time to live.
LocksFreed == \A i \in Id : redis[i] # None ~> redis[i] = None

\* The locks implement the abstract mutual exclusion (with Overrun = FALSE).
Mutex == INSTANCE ReminderMutex
ImplementsMutex == Mutex!MutexSpec

=============================================================================
