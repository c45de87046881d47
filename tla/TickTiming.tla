----------------------------- MODULE TickTiming -----------------------------
(* The lock of one reminder in real time: at every tick each process starts a *)
(* run of runReminderTask, the runs compete for the key, losers retry, and    *)
(* the winner stays at least a minimal time.  Here the time to live of the    *)
(* key, the retries, the work and the minimal duration are numbers, where     *)
(* RedisLocks only assumes how they compare (Overrun = FALSE).                *)
EXTENDS RedisLocks, Integers

CONSTANTS
  Rid,        \* the reminder
  TickAt,     \* TickAt[t]: the time of the tick that starts run t
  Skew,       \* how late a timer fires: clocks, and a busy event loop
  MaxSpins,   \* how often redlock retries
  MaxDelay,   \* the longest delay before a retry
  MaxWork,    \* the longest time from the grant of the lock to the end of the send
  MinTask,    \* the minimal duration of a run
  Slack,      \* how late the timer of the rest fires, and release() reaches Redis
  Ttl,        \* the time to live of the key
  Mortal      \* the processes that may be killed

(* "Duration of getReminder() + duration of httpPost()/event() <=             *)
(* TIMEOUT_MS_LOCK_ACQUIRED" (aggregate.ts:216), which nothing in the code    *)
(* enforces.  A run that ends at the very moment its key expires is too late, *)
(* so less; and what comes after the send takes time too.  Calls to Redis do  *)
(* not fail here.                                                             *)
ASSUME TimingAssumption ==
  /\ Rid \in Id
  /\ TickAt \in [Task -> Nat]
  /\ Skew \in Nat /\ MaxSpins \in Nat /\ MaxDelay \in Nat /\ MaxWork \in Nat
  /\ MinTask \in Nat /\ Slack \in Nat /\ Ttl \in Nat
  /\ MaxWork + Slack < Ttl /\ MinTask + Slack < Ttl

\* Nothing but time itself keeps a key from expiring under its task.
ASSUME ExpiryAssumption == Overrun = TRUE

VARIABLES
  now,        \* the time
  at,         \* at[t]: how far run t is, or how it ended
  start,      \* start[t]: startTime of run t
  next,       \* next[t]: when t must go on at the latest; when it gave up the lock
  tries,      \* tries[t]: how many attempts of t's acquire() found the key taken
  bad,        \* the runs that have thrown
  expiry      \* when the key expires, if it is set

clocks == <<now, at, start, next, tries, bad, expiry>>
tickVars == <<lockVars, clocks>>

\* lost: its process ended while it had the lock; dead: while it had not.
Ended == {"done", "refused", "lost", "dead"}

TickTypeOK ==
  /\ LockTypeOK
  /\ now \in Nat /\ expiry \in Nat
  /\ at \in [Task -> {"waiting", "trying", "working", "resting"} \cup Ended]
  /\ start \in [Task -> Nat] /\ next \in [Task -> Nat]
  /\ tries \in [Task -> 0..MaxSpins]
  /\ bad \subseteq Task

TickInit ==
  /\ LockInit
  /\ now = 0 /\ expiry = 0
  /\ at = [t \in Task |-> "waiting"]
  /\ start = [t \in Task |-> 0]
  /\ next = [t \in Task |-> TickAt[t] + Skew]
  /\ tries = [t \in Task |-> 0]
  /\ bad = {}

Goes(t, state, when) ==
  /\ at' = [at EXCEPT ![t] = state]
  /\ next' = [next EXCEPT ![t] = when]

----------------------------------------------------------------------------
(* Faulty variants of the operations below, which the properties must reject. *)

\* The minimal duration is waited for after the work, whatever the work took.
RestInFull(t) == now + MinTask

\* The minimal duration is not waited for.
RestNever(t) == now

\* The loop of retries has no end.
RefusedForEver(t) ==
  /\ at[t] = "trying"
  /\ AcquireRefused(t, Rid)
  /\ Goes(t, "trying", now + MaxDelay)
  /\ tries' = [tries EXCEPT ![t] = @ + 1]
  /\ UNCHANGED <<now, start, bad, expiry>>

\* release() is not awaited, and does not reach Redis.
ReleaseForgotten(t) ==
  /\ at[t] = "resting" /\ next[t] <= now + Slack
  /\ holding' = [holding EXCEPT ![t] = None]
  /\ Goes(t, "done", now)
  /\ UNCHANGED <<redis, locks, now, start, tries, bad, expiry>>

----------------------------------------------------------------------------
\* The timer fires, and startTime is taken.
TimerFires(t) ==
  /\ at[t] = "waiting"
  /\ TickAt[t] <= now
  /\ Goes(t, "trying", now)
  /\ start' = [start EXCEPT ![t] = now]
  /\ UNCHANGED <<lockVars, now, tries, bad, expiry>>

\* An attempt of redlock finds the key free.
Granted(t) ==
  /\ at[t] = "trying"
  /\ AcquireOk(t, Rid)
  /\ Goes(t, "working", now + MaxWork)
  /\ expiry' = now + Ttl
  /\ tries' = [tries EXCEPT ![t] = 0]
  /\ UNCHANGED <<now, start, bad>>

\* An attempt finds the key taken; the next comes after a random delay.
Refused(t) ==
  /\ at[t] = "trying"
  /\ tries[t] < MaxSpins
  /\ AcquireRefused(t, Rid)
  /\ Goes(t, "trying", now + MaxDelay)
  /\ tries' = [tries EXCEPT ![t] = @ + 1]
  /\ UNCHANGED <<now, start, bad, expiry>>

\* The last attempt finds the key taken: acquire() returns false, and nothing of
\* the run matters any more.
GivesUp(t) ==
  /\ at[t] = "trying"
  /\ tries[t] = MaxSpins
  /\ AcquireRefused(t, Rid)
  /\ Goes(t, "refused", 0)
  /\ tries' = [tries EXCEPT ![t] = 0]
  /\ start' = [start EXCEPT ![t] = 0]
  /\ UNCHANGED <<now, bad, expiry>>

\* When the finally block is reached after a send: elapsedTime counts from
\* startTime, so that the time spent in acquire() counts too.
RestUntil(t) ==
  IF now - start[t] < MinTask THEN now + (MinTask - (now - start[t])) ELSE now

\* The notification has been sent.
WorkDone(t) ==
  /\ at[t] = "working"
  /\ Goes(t, "resting", RestUntil(t) + Slack)
  /\ UNCHANGED <<lockVars, now, start, tries, bad, expiry>>

\* Reading or sending throws: to the finally block without a rest.
WorkFails(t) ==
  /\ at[t] = "working"
  /\ Goes(t, "resting", now + Slack)
  /\ bad' = bad \cup {t}
  /\ UNCHANGED <<lockVars, now, start, tries, expiry>>

\* Process p ends, with all its runs.  The key of one that has it stays until it
\* expires.
ProcessEnds(p) ==
  LET lost == {u \in Task : ProcOf[u] = p /\ at[u] \notin Ended}
  IN
  /\ Exit(p)
  /\ at' = [u \in Task |-> IF u \notin lost THEN at[u]
                           ELSE IF holding[u] = Rid THEN "lost" ELSE "dead"]
  /\ next' = [u \in Task |-> IF u \in lost /\ holding[u] = Rid THEN expiry ELSE next[u]]
  /\ UNCHANGED <<now, start, tries, bad, expiry>>

\* The finally block, at the end of the rest or up to Slack later.  If release()
\* throws, the process ends.
Release(t) ==
  /\ at[t] = "resting" /\ next[t] <= now + Slack
  /\ IF ReleaseRejected(t)
     THEN ProcessEnds(ProcOf[t])
     ELSE /\ ReleaseOk(t)
          /\ Goes(t, "done", now)
          /\ UNCHANGED <<now, start, tries, bad, expiry>>

\* Process p is killed in the middle of a run.
Dies(p) ==
  /\ p \in Mortal
  /\ \E t \in Task : ProcOf[t] = p /\ at[t] \in {"trying", "working", "resting"}
  /\ ProcessEnds(p)

KeyExpires ==
  /\ expiry <= now
  /\ Expire(Rid)
  /\ UNCHANGED clocks

\* Nobody lets a deadline pass.  Time stops mattering when all has ended.
TimePasses ==
  /\ \A t \in Task : at[t] \notin Ended => now < next[t]
  /\ redis[Rid] # None => now < expiry
  /\ redis[Rid] # None \/ \E t \in Task : at[t] \notin Ended
  /\ now' = now + 1
  /\ UNCHANGED <<lockVars, at, start, next, tries, bad, expiry>>

TickNext ==
  \/ \E t \in Task : TimerFires(t) \/ Granted(t) \/ Refused(t) \/ GivesUp(t)
  \/ \E t \in Task : WorkDone(t) \/ WorkFails(t) \/ Release(t)
  \/ \E p \in Proc : Dies(p)
  \/ KeyExpires
  \/ TimePasses

TickSpec == TickInit /\ [][TickNext]_tickVars

----------------------------------------------------------------------------
\* With the durations as the code has them, the timed runs are runs of RedisLocks
\* in which no task outlives its lock.
Bounded == INSTANCE RedisLocks WITH Overrun <- FALSE
DurationsBoundTasks == Bounded!LockSpec

\* The run has sent its notification and released the lock.
Succeeded(t) == at[t] = "done" /\ t \notin bad

\* Whoever is granted the lock after a run that succeeded comes at least the
\* minimal duration after that run took its startTime: a process whose timer fired
\* with it, and whose retries end sooner, does not send the same tick again.
RunsApart ==
  [][\A t, u \in Task : Succeeded(t) /\ holding[u] = None /\ holding'[u] = Rid
       => now >= start[t] + MinTask]_tickVars

\* Nobody serves a tick late: a run that is granted the lock is within the time
\* that its timer and its retries can take.
GrantsInTime ==
  [][\A t \in Task : holding[t] = None /\ holding'[t] = Rid
       => now <= TickAt[t] + Skew + MaxSpins * MaxDelay]_tickVars

\* No tick gets lost: if no process got the lock for a tick and one was refused,
\* then a run of an earlier tick was still holding the lock when the tick came, or
\* a key was left by one.
SkippedTickWasBusy ==
  \A t \in Task :
    /\ at[t] = "refused"
    /\ \A u \in Task : TickAt[u] = TickAt[t] => at[u] \in {"refused", "dead"}
    => \E u \in Task : /\ TickAt[u] < TickAt[t] /\ next[u] >= TickAt[t]
                       /\ at[u] \in {"working", "resting", "done", "lost"}

=============================================================================
