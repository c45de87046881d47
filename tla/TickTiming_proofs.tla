-------------------------- MODULE TickTiming_proofs --------------------------
(* The durations that the code configures bound its runs: for any processes,   *)
(* ticks, retries and delays, no key expires under a run that works.  The core *)
(* of the invariant is that whoever holds the lock has a deadline that the     *)
(* time has not passed and that comes before the key expires.                  *)
EXTENDS TickTiming, TLAPS

Holding(t) == at[t] \in {"working", "resting"}

\* A run has the lock exactly from the grant to the finally block.
HoldersHold == \A t \in Task : holding[t] = IF Holding(t) THEN Rid ELSE None

\* Its deadline is ahead and comes before its key expires.
InTime ==
  \A t \in Task :
    /\ Holding(t) => now <= next[t] /\ next[t] < expiry
    /\ at[t] = "working" => start[t] + Ttl <= expiry /\ next[t] + Slack < expiry
    /\ at[t] \in {"trying", "working", "resting"} => start[t] <= now

\* A run that does not throw stays for the minimal duration.
LongEnough ==
  \A t \in Task : t \notin bad =>
    /\ at[t] = "resting" => next[t] >= start[t] + MinTask + Slack
    /\ at[t] = "done" => now >= start[t] + MinTask

TickIInv == TickTypeOK /\ HoldersHold /\ ReleaseSucceeds /\ InTime /\ LongEnough

USE TimingAssumption, ExpiryAssumption, LockAssumption, DeploymentAssumption
USE DEF Holding

LEMMA TickInitEstablishes == TickInit => TickIInv
BY DEF TickInit, LockInit, TickIInv, TickTypeOK, LockTypeOK, HoldersHold, ReleaseSucceeds,
       InTime, LongEnough, Ended

LEMMA TimerFiresPreserves ==
  ASSUME TickIInv, NEW t \in Task, TimerFires(t) PROVE TickIInv'
<1> USE DEF TimerFires, Goes, lockVars
<1>1. TickTypeOK'
  BY DEF TickIInv, TickTypeOK, LockTypeOK
<1>2. HoldersHold'
  BY DEF TickIInv, TickTypeOK, HoldersHold
<1>3. ReleaseSucceeds'
  BY DEF TickIInv, ReleaseSucceeds
<1>4. InTime'
  BY DEF TickIInv, TickTypeOK, InTime
<1>5. LongEnough'
  BY DEF TickIInv, TickTypeOK, LongEnough
<1> QED BY <1>1, <1>2, <1>3, <1>4, <1>5 DEF TickIInv

LEMMA GrantedPreserves ==
  ASSUME TickIInv, NEW t \in Task, Granted(t) PROVE TickIInv'
<1> USE DEF Granted, AcquireOk, Goes
<1>1. TickTypeOK'
  BY DEF TickIInv, TickTypeOK, LockTypeOK
<1>2. HoldersHold'
  BY DEF TickIInv, TickTypeOK, LockTypeOK, HoldersHold
<1>3. ASSUME NEW u \in Task, u # t PROVE ~Holding(u)
  BY DEF TickIInv, HoldersHold, ReleaseSucceeds
<1>4. ReleaseSucceeds'
  <2> SUFFICES ASSUME NEW u \in Task, holding'[u] # None
               PROVE  redis'[holding'[u]] = u /\ locks'[ProcOf[u]][holding'[u]] = u
    BY DEF ReleaseSucceeds
  <2>1. u = t
    BY <1>3 DEF TickIInv, TickTypeOK, LockTypeOK, HoldersHold
  <2> QED BY <2>1 DEF TickIInv, TickTypeOK, LockTypeOK
<1>5. InTime'
  <2> SUFFICES ASSUME NEW u \in Task
               PROVE  /\ Holding(u)' => now' <= next'[u] /\ next'[u] < expiry'
                      /\ at'[u] = "working" => start'[u] + Ttl <= expiry' /\ next'[u] + Slack < expiry'
                      /\ at'[u] \in {"trying", "working", "resting"} => start'[u] <= now'
    BY DEF InTime
  <2>1. CASE u = t
    BY <2>1 DEF TickIInv, TickTypeOK, InTime
  <2>2. CASE u # t
    BY <2>2, <1>3 DEF TickIInv, TickTypeOK, InTime
  <2> QED BY <2>1, <2>2
<1>6. LongEnough'
  BY DEF TickIInv, TickTypeOK, LongEnough
<1> QED BY <1>1, <1>2, <1>4, <1>5, <1>6 DEF TickIInv

LEMMA RefusedPreserves ==
  ASSUME TickIInv, NEW t \in Task, Refused(t) \/ GivesUp(t) PROVE TickIInv'
<1> USE DEF Refused, GivesUp, AcquireRefused, Goes, lockVars
<1>1. TickTypeOK'
  <2>1. CASE Refused(t)
    <3>1. tries' \in [Task -> 0..MaxSpins]
      BY <2>1 DEF TickIInv, TickTypeOK
    <3> QED BY <2>1, <3>1 DEF TickIInv, TickTypeOK, LockTypeOK
  <2>2. CASE GivesUp(t)
    <3>1. tries' \in [Task -> 0..MaxSpins]
      BY <2>2 DEF TickIInv, TickTypeOK
    <3> QED BY <2>2, <3>1 DEF TickIInv, TickTypeOK, LockTypeOK, Ended
  <2> QED BY <2>1, <2>2
<1>2. HoldersHold'
  BY DEF TickIInv, TickTypeOK, HoldersHold
<1>3. ReleaseSucceeds'
  BY DEF TickIInv, ReleaseSucceeds
<1>4. InTime'
  BY DEF TickIInv, TickTypeOK, InTime
<1>5. LongEnough'
  BY DEF TickIInv, TickTypeOK, LongEnough
<1> QED BY <1>1, <1>2, <1>3, <1>4, <1>5 DEF TickIInv

LEMMA WorkPreserves ==
  ASSUME TickIInv, NEW t \in Task, WorkDone(t) \/ WorkFails(t) PROVE TickIInv'
<1> USE DEF WorkDone, WorkFails, RestUntil, Goes, lockVars
<1>1. start[t] \in Nat /\ next[t] \in Nat /\ now \in Nat /\ expiry \in Nat
  BY DEF TickIInv, TickTypeOK
<1>2. at[t] = "working" /\ start[t] <= now /\ now <= next[t] /\ next[t] + Slack < expiry
      /\ start[t] + Ttl <= expiry
  BY DEF TickIInv, InTime
<1>3. RestUntil(t) \in Nat /\ now <= RestUntil(t) /\ RestUntil(t) + Slack < expiry
      /\ RestUntil(t) >= start[t] + MinTask
  BY <1>1, <1>2
<1>4. next' \in [Task -> Nat] /\ now <= next'[t] /\ next'[t] < expiry
      /\ (t \notin bad' => next'[t] >= start[t] + MinTask + Slack)
  <2>1. CASE WorkDone(t)
    BY <2>1, <1>3 DEF TickIInv, TickTypeOK
  <2>2. CASE WorkFails(t)
    BY <2>2, <1>1, <1>2 DEF TickIInv, TickTypeOK
  <2> QED BY <2>1, <2>2
<1>5. /\ at' = [at EXCEPT ![t] = "resting"]
      /\ \A u \in Task : u # t => next'[u] = next[u]
      /\ UNCHANGED <<redis, locks, holding, now, start, tries, expiry>>
      /\ bad \subseteq bad' /\ bad' \subseteq Task
  BY DEF TickIInv, TickTypeOK
<1> HIDE DEF WorkDone, WorkFails, RestUntil, Goes
<1>6. TickTypeOK'
  BY <1>4, <1>5 DEF TickIInv, TickTypeOK, LockTypeOK
<1>7. HoldersHold'
  BY <1>2, <1>5 DEF TickIInv, TickTypeOK, HoldersHold
<1>8. ReleaseSucceeds'
  BY <1>5 DEF TickIInv, ReleaseSucceeds
<1>9. InTime'
  BY <1>2, <1>4, <1>5 DEF TickIInv, TickTypeOK, InTime
<1>10. LongEnough'
  BY <1>4, <1>5 DEF TickIInv, TickTypeOK, LongEnough
<1> QED BY <1>6, <1>7, <1>8, <1>9, <1>10 DEF TickIInv


LEMMA ProcessEndsPreserves ==
  ASSUME TickIInv, NEW p \in Proc, ProcessEnds(p) PROVE TickIInv'
<1> USE DEF ProcessEnds, Exit, Forgets, Ended
<1>1. \A u \in Task : /\ next'[u] \in Nat
                      /\ ProcOf[u] = p => holding'[u] = None /\ ~Holding(u)'
                      /\ ProcOf[u] # p => /\ at'[u] = at[u] /\ next'[u] = next[u]
                                          /\ holding'[u] = holding[u]
                      /\ at'[u] \in {at[u], "lost", "dead"}
                      /\ at[u] = "done" => at'[u] = "done"
  BY DEF TickIInv, TickTypeOK
<1>2. TickTypeOK'
  <2>1. LockTypeOK'
    BY DEF TickIInv, TickTypeOK, LockTypeOK
  <2> QED BY <1>1, <2>1 DEF TickIInv, TickTypeOK
<1>3. HoldersHold'
  BY <1>1 DEF TickIInv, HoldersHold
<1>4. ReleaseSucceeds'
  <2> SUFFICES ASSUME NEW u \in Task, holding'[u] # None
               PROVE  redis'[holding'[u]] = u /\ locks'[ProcOf[u]][holding'[u]] = u
    BY DEF ReleaseSucceeds
  <2>1. ProcOf[u] # p /\ ProcOf[u] \in Proc /\ holding'[u] = holding[u]
    BY <1>1
  <2> QED BY <2>1 DEF TickIInv, TickTypeOK, LockTypeOK, ReleaseSucceeds
<1>5. InTime'
  BY <1>1 DEF TickIInv, InTime
<1>6. LongEnough'
  BY <1>1 DEF TickIInv, LongEnough
<1> QED BY <1>2, <1>3, <1>4, <1>5, <1>6 DEF TickIInv

LEMMA ReleasePreserves ==
  ASSUME TickIInv, NEW t \in Task, Release(t) PROVE TickIInv'
<1>1. ~ReleaseRejected(t)
  BY DEF TickIInv, ReleaseSucceeds, ReleaseRejected
<1>2. /\ at[t] = "resting" /\ next[t] <= now + Slack /\ holding[t] = Rid /\ redis[Rid] = t
      /\ ReleaseOk(t) /\ Goes(t, "done", now)
      /\ UNCHANGED <<now, start, tries, bad, expiry>>
  BY <1>1 DEF Release, TickIInv, HoldersHold, ReleaseSucceeds
<1> USE DEF ReleaseOk, Goes
<1>3. TickTypeOK'
  BY <1>2 DEF TickIInv, TickTypeOK, LockTypeOK, Ended
<1>4. HoldersHold'
  BY <1>2 DEF TickIInv, TickTypeOK, LockTypeOK, HoldersHold
<1>5. ReleaseSucceeds'
  <2> SUFFICES ASSUME NEW u \in Task, holding'[u] # None
               PROVE  redis'[holding'[u]] = u /\ locks'[ProcOf[u]][holding'[u]] = u
    BY DEF ReleaseSucceeds
  <2>1. u # t /\ holding'[u] = holding[u]
    BY <1>2 DEF TickIInv, TickTypeOK, LockTypeOK
  <2>2. holding[u] = Rid /\ redis[Rid] = u
    BY <2>1 DEF TickIInv, HoldersHold, ReleaseSucceeds
  <2> QED BY <1>2, <2>1, <2>2
<1>6. InTime'
  BY <1>2 DEF TickIInv, TickTypeOK, InTime
<1>7. LongEnough'
  BY <1>2 DEF TickIInv, TickTypeOK, LongEnough
<1> QED BY <1>3, <1>4, <1>5, <1>6, <1>7 DEF TickIInv

\* No key expires under a run that holds it.
LEMMA HeldKeysLast ==
  ASSUME TickIInv, KeyExpires PROVE ~Claimed(Rid)
<1> SUFFICES ASSUME Claimed(Rid) PROVE FALSE
  OBVIOUS
<1>1. redis[Rid] \in Task /\ holding[redis[Rid]] = Rid
  BY DEF Claimed
<1>2. now <= next[redis[Rid]] /\ next[redis[Rid]] < expiry
  BY <1>1 DEF TickIInv, HoldersHold, InTime
<1> QED BY <1>1, <1>2 DEF TickIInv, TickTypeOK, KeyExpires

LEMMA KeyExpiresPreserves ==
  ASSUME TickIInv, KeyExpires PROVE TickIInv'
<1>1. ~Claimed(Rid)
  BY HeldKeysLast
<1> USE DEF KeyExpires, Expire, clocks
<1>2. TickTypeOK'
  BY DEF TickIInv, TickTypeOK, LockTypeOK
<1>3. ReleaseSucceeds'
  <2> SUFFICES ASSUME NEW u \in Task, holding[u] # None
               PROVE  redis'[holding[u]] = u /\ locks'[ProcOf[u]][holding[u]] = u
    BY DEF ReleaseSucceeds
  <2>1. holding[u] = Rid /\ redis[Rid] = u
    BY DEF TickIInv, HoldersHold, ReleaseSucceeds
  <2> QED BY <1>1, <2>1 DEF Claimed
<1>4. HoldersHold' /\ InTime' /\ LongEnough'
  BY DEF TickIInv, HoldersHold, InTime, LongEnough
<1> QED BY <1>2, <1>3, <1>4 DEF TickIInv

LEMMA TimePreserves ==
  ASSUME TickIInv, TimePasses PROVE TickIInv'
<1> USE DEF TimePasses, lockVars
<1>1. TickTypeOK'
  BY DEF TickIInv, TickTypeOK, LockTypeOK
<1>2. InTime'
  <2> SUFFICES ASSUME NEW u \in Task
               PROVE  /\ Holding(u) => now + 1 <= next[u] /\ next[u] < expiry
                      /\ at[u] = "working" => start[u] + Ttl <= expiry /\ next[u] + Slack < expiry
                      /\ at[u] \in {"trying", "working", "resting"} => start[u] <= now + 1
    BY DEF InTime
  <2>1. now \in Nat /\ next[u] \in Nat /\ start[u] \in Nat
    BY DEF TickIInv, TickTypeOK
  <2> QED BY <2>1 DEF TickIInv, InTime, Ended
<1>3. LongEnough'
  BY DEF TickIInv, TickTypeOK, LongEnough
<1>4. HoldersHold' /\ ReleaseSucceeds'
  BY DEF TickIInv, HoldersHold, ReleaseSucceeds
<1> QED BY <1>1, <1>2, <1>3, <1>4 DEF TickIInv

LEMMA TickStep == TickIInv /\ [TickNext]_tickVars => TickIInv'
<1> SUFFICES ASSUME TickIInv, [TickNext]_tickVars PROVE TickIInv'
  OBVIOUS
<1>1. ASSUME NEW t \in Task, TimerFires(t) PROVE TickIInv'
  BY <1>1, TimerFiresPreserves
<1>2. ASSUME NEW t \in Task, Granted(t) PROVE TickIInv'
  BY <1>2, GrantedPreserves
<1>3. ASSUME NEW t \in Task, Refused(t) \/ GivesUp(t) PROVE TickIInv'
  BY <1>3, RefusedPreserves
<1>4. ASSUME NEW t \in Task, WorkDone(t) \/ WorkFails(t) PROVE TickIInv'
  BY <1>4, WorkPreserves
<1>5. ASSUME NEW t \in Task, Release(t) PROVE TickIInv'
  BY <1>5, ReleasePreserves
<1>6. ASSUME NEW p \in Proc, Dies(p) PROVE TickIInv'
  BY <1>6, ProcessEndsPreserves DEF Dies
<1>7. CASE KeyExpires
  BY <1>7, KeyExpiresPreserves
<1>8. CASE TimePasses
  BY <1>8, TimePreserves
<1>9. CASE UNCHANGED tickVars
  BY <1>9 DEF tickVars, lockVars, clocks, TickIInv, TickTypeOK, LockTypeOK, HoldersHold,
              ReleaseSucceeds, InTime, LongEnough
<1> QED BY <1>1, <1>2, <1>3, <1>4, <1>5, <1>6, <1>7, <1>8, <1>9 DEF TickNext

\* The timed runs keep their types: clocks and deadlines stay natural numbers, and
\* no acquire() tries more often than redlock's limit.
THEOREM TicksKeepTypes == TickSpec => []TickTypeOK
<1>1. TickSpec => []TickIInv
  BY TickInitEstablishes, TickStep, PTL DEF TickSpec
<1> QED BY <1>1, PTL DEF TickIInv

\* No two timed runs have the lock at once, and Redis rejects none of their releases:
\* here from the durations, not from an assumption about expiry.
THEOREM TicksExclude == TickSpec => [](MutualExclusion /\ ReleaseSucceeds)
<1>1. TickSpec => []TickIInv
  BY TickInitEstablishes, TickStep, PTL DEF TickSpec
<1>2. TickIInv => MutualExclusion /\ ReleaseSucceeds
  BY DEF TickIInv, ReleaseSucceeds, MutualExclusion
<1> QED BY <1>1, <1>2, PTL

LEMMA TickRefinesLocks ==
  ASSUME TickIInv, [TickNext]_tickVars PROVE [Bounded!LockNext]_lockVars
<1>1. ASSUME NEW t \in Task, TimerFires(t) \/ WorkDone(t) \/ WorkFails(t)
      PROVE  UNCHANGED lockVars
  BY <1>1 DEF TimerFires, WorkDone, WorkFails
<1>2. ASSUME NEW t \in Task, Granted(t) PROVE Bounded!AcquireOk(t, Rid)
  BY <1>2 DEF Granted, AcquireOk, Bounded!AcquireOk
<1>3. ASSUME NEW t \in Task, Refused(t) \/ GivesUp(t) PROVE UNCHANGED lockVars
  BY <1>3 DEF Refused, GivesUp, AcquireRefused
<1>4. ASSUME NEW p \in Proc, ProcessEnds(p) PROVE Bounded!Exit(p)
  BY <1>4 DEF ProcessEnds, Exit, Forgets, Bounded!Exit, Bounded!Forgets
<1>5. ASSUME NEW t \in Task, Release(t) PROVE Bounded!ReleaseOk(t)
  <2>1. ~ReleaseRejected(t)
    BY DEF TickIInv, ReleaseSucceeds, ReleaseRejected
  <2> QED BY <1>5, <2>1 DEF Release, ReleaseOk, Bounded!ReleaseOk
<1>6. CASE KeyExpires
  BY <1>6, HeldKeysLast DEF KeyExpires, Expire, Claimed, Bounded!Expire, Bounded!Claimed, Bounded!LockNext
<1>7. CASE TimePasses \/ UNCHANGED tickVars
  BY <1>7 DEF TimePasses, tickVars
<1> QED
  BY <1>1, <1>2, <1>3, <1>4, <1>5, <1>6, <1>7
  DEF TickNext, Dies, Bounded!LockNext, lockVars

\* With MaxWork and MinTask below the time to live, the timed runs are runs of the
\* locks in which no task outlives its lock: the assumption of the theorems of
\* RedisLocks_proofs follows from the durations.
THEOREM DurationsSuffice == TickSpec => DurationsBoundTasks
<1>1. TickInit => Bounded!LockInit
  BY DEF TickInit, LockInit, Bounded!LockInit
<1>2. TickSpec => []TickIInv
  BY TickInitEstablishes, TickStep, PTL DEF TickSpec
<1>3. TickIInv /\ [TickNext]_tickVars => [Bounded!LockNext]_(Bounded!lockVars)
  BY TickRefinesLocks DEF lockVars, Bounded!lockVars
<1> QED
  BY <1>1, <1>2, <1>3, PTL DEF TickSpec, DurationsBoundTasks, Bounded!LockSpec

\* A run that is granted the lock after another succeeded comes at least the
\* minimal duration after the startTime of that one.
THEOREM RunsStayApart == TickSpec => RunsApart
<1>1. TickSpec => []TickIInv
  BY TickInitEstablishes, TickStep, PTL DEF TickSpec
<1>2. TickIInv => \A t \in Task : Succeeded(t) => now >= start[t] + MinTask
  BY DEF TickIInv, LongEnough, Succeeded
<1>3. TickIInv /\ [TickNext]_tickVars =>
        [\A t, u \in Task : Succeeded(t) /\ holding[u] = None /\ holding'[u] = Rid
           => now >= start[t] + MinTask]_tickVars
  BY <1>2
<1> QED BY <1>1, <1>3, PTL DEF TickSpec, RunsApart

----------------------------------------------------------------------------
\* Ticks that get lost.

\* No tick comes before the timers of the one before have fired.
TicksSpread == \A t, u \in Task : TickAt[t] < TickAt[u] => TickAt[t] + Skew < TickAt[u]

\* A timer fires between its tick and its deadline, and the first attempt is made
\* at once.
OnTimeOf(t) ==
  /\ at[t] = "waiting" => now <= next[t] /\ next[t] = TickAt[t] + Skew /\ tries[t] = 0
  /\ at[t] = "trying" => now <= next[t]
  /\ at[t] = "trying" /\ tries[t] = 0 => next[t] <= TickAt[t] + Skew
  /\ at[t] \notin {"waiting", "dead"} => TickAt[t] <= now

OnTime == \A t \in Task : OnTimeOf(t)

\* The key that Redis has is that of a run that holds the lock, or was lost with it.
KeyHasOwner ==
  /\ redis[Rid] # Orphan
  /\ \A u \in Task : redis[Rid] = u =>
       now <= expiry /\ (Holding(u) \/ (at[u] = "lost" /\ next[u] = expiry))

\* Run u of the tick of t, or of an earlier one that was not over, got the lock.
Busy(t, u) ==
  /\ at[u] \in {"working", "resting", "done", "lost"}
  /\ TickAt[u] = TickAt[t] \/ (TickAt[u] < TickAt[t] /\ next[u] >= TickAt[t])

RefusedFor(t) == at[t] = "refused" \/ (at[t] = "trying" /\ tries[t] > 0)

RefusalsHaveCause == \A t \in Task : RefusedFor(t) => \E u \in Task : Busy(t, u)

LostIInv == OnTime /\ KeyHasOwner /\ RefusalsHaveCause

LEMMA LostInit == TickInit => LostIInv
BY DEF TickInit, LockInit, LostIInv, OnTime, OnTimeOf, KeyHasOwner, RefusalsHaveCause, RefusedFor

LEMMA OnTimeStep ==
  ASSUME TickIInv, OnTime, [TickNext]_tickVars
  PROVE  OnTime'
<1> SUFFICES ASSUME NEW t \in Task PROVE OnTimeOf(t)'
  BY DEF OnTime
<1>1. /\ now \in Nat /\ next[t] \in Nat /\ TickAt[t] \in Nat /\ tries[t] \in Nat /\ Skew \in Nat
      /\ at \in [Task -> {"waiting", "trying", "working", "resting"} \cup Ended]
      /\ next \in [Task -> Nat] /\ tries \in [Task -> 0..MaxSpins]
  BY DEF TickIInv, TickTypeOK
<1>2. OnTimeOf(t)
  BY DEF OnTime
<1>3. ASSUME UNCHANGED now, at'[t] = at[t], next'[t] = next[t], tries'[t] = tries[t]
      PROVE  OnTimeOf(t)'
  BY <1>2, <1>3 DEF OnTimeOf
<1>4. ASSUME UNCHANGED now, at[t] \notin {"waiting", "dead"},
             at'[t] \in {"working", "resting", "done", "refused", "lost"}
      PROVE  OnTimeOf(t)'
  BY <1>2, <1>4 DEF OnTimeOf
<1>5. ASSUME NEW u \in Task, TimerFires(u) PROVE OnTimeOf(t)'
  <2>1. CASE u = t
    BY <1>1, <1>2, <1>5, <2>1 DEF TimerFires, Goes, OnTimeOf
  <2> QED BY <1>1, <1>3, <1>5, <2>1 DEF TimerFires, Goes
<1>6. ASSUME NEW u \in Task, Refused(u) PROVE OnTimeOf(t)'
  <2>1. CASE u = t
    <3>1. /\ UNCHANGED now /\ at[t] = "trying" /\ at'[t] = "trying"
          /\ next'[t] = now + MaxDelay /\ tries'[t] = tries[t] + 1
      BY <1>1, <1>6, <2>1 DEF Refused, Goes
    <3> QED BY <1>1, <1>2, <3>1 DEF OnTimeOf
  <2> QED BY <1>1, <1>3, <1>6, <2>1 DEF Refused, Goes
<1>7. ASSUME NEW u \in Task, Granted(u) \/ GivesUp(u) PROVE OnTimeOf(t)'
  <2>1. CASE u = t
    BY <1>1, <1>4, <1>7, <2>1 DEF Granted, GivesUp, Goes
  <2> QED BY <1>1, <1>3, <1>7, <2>1 DEF Granted, GivesUp, Goes
<1>8. ASSUME NEW u \in Task, WorkDone(u) \/ WorkFails(u) PROVE OnTimeOf(t)'
  <2>1. CASE u = t
    BY <1>1, <1>4, <1>8, <2>1 DEF WorkDone, WorkFails, Goes
  <2> QED BY <1>1, <1>3, <1>8, <2>1 DEF WorkDone, WorkFails, Goes
<1>9. ASSUME NEW p \in Proc, ProcessEnds(p) PROVE OnTimeOf(t)'
  <2>1. UNCHANGED <<now, tries>>
    BY <1>9 DEF ProcessEnds
  <2>2. \/ at'[t] = at[t] /\ next'[t] = next[t]
        \/ at'[t] = "dead"
        \/ at'[t] = "lost" /\ Holding(t)
    BY <1>9 DEF ProcessEnds, TickIInv, HoldersHold
  <2>3. at'[t] = "dead" => OnTimeOf(t)'
    BY DEF OnTimeOf
  <2> QED BY <1>3, <1>4, <2>1, <2>2, <2>3
<1>10. ASSUME NEW u \in Task, Release(u) PROVE OnTimeOf(t)'
  <2>1. CASE ReleaseRejected(u)
    BY <1>9, <1>10, <2>1 DEF Release
  <2>2. CASE ~ReleaseRejected(u) /\ u = t
    BY <1>1, <1>4, <1>10, <2>2 DEF Release, Goes
  <2> QED BY <1>1, <1>3, <1>10, <2>1, <2>2 DEF Release, Goes
<1>11. CASE TimePasses
  BY <1>1, <1>2, <1>11 DEF TimePasses, Ended, OnTimeOf
<1>12. CASE (\E p \in Proc : Dies(p)) \/ KeyExpires \/ UNCHANGED tickVars
  BY <1>3, <1>9, <1>12 DEF Dies, KeyExpires, clocks, tickVars
<1> QED BY <1>5, <1>6, <1>7, <1>8, <1>10, <1>11, <1>12 DEF TickNext

LEMMA NoOrphan ==
  ASSUME TickIInv, redis[Rid] # Orphan, [TickNext]_tickVars
  PROVE  redis'[Rid] # Orphan
<1>1. redis \in [Id -> Task \cup {None, Orphan}]
  BY DEF TickIInv, TickTypeOK, LockTypeOK
<1>2. CASE UNCHANGED redis
  BY <1>2
<1>3. ASSUME NEW t \in Task, Granted(t) \/ ReleaseOk(t) PROVE redis'[Rid] # Orphan
  BY <1>1, <1>3 DEF Granted, AcquireOk, ReleaseOk
<1>4. CASE KeyExpires
  BY <1>1, <1>4 DEF KeyExpires, Expire
<1>5. CASE \E t \in Task : TimerFires(t) \/ Refused(t) \/ GivesUp(t) \/ WorkDone(t) \/ WorkFails(t)
  BY <1>2, <1>5 DEF TimerFires, Refused, GivesUp, AcquireRefused, WorkDone, WorkFails, lockVars
<1>6. CASE (\E p \in Proc : Dies(p)) \/ TimePasses \/ UNCHANGED tickVars
  BY <1>2, <1>6 DEF Dies, ProcessEnds, Exit, TimePasses, tickVars, lockVars
<1>7. CASE \E t \in Task : Release(t)
  BY <1>2, <1>3, <1>7 DEF Release, ProcessEnds, Exit
<1> QED BY <1>3, <1>4, <1>5, <1>6, <1>7 DEF TickNext

LEMMA OwnerStep ==
  ASSUME TickIInv, KeyHasOwner, [TickNext]_tickVars
  PROVE  KeyHasOwner'
<1> SUFFICES ASSUME NEW u \in Task, redis'[Rid] = u
             PROVE  now' <= expiry' /\ (Holding(u)' \/ (at'[u] = "lost" /\ next'[u] = expiry'))
  BY NoOrphan DEF KeyHasOwner
<1> DEFINE Goal == now' <= expiry' /\ (Holding(u)' \/ (at'[u] = "lost" /\ next'[u] = expiry'))
<1>1. /\ now \in Nat /\ expiry \in Nat /\ next \in [Task -> Nat] /\ Ttl \in Nat
      /\ at \in [Task -> {"waiting", "trying", "working", "resting"} \cup Ended]
      /\ redis \in [Id -> Task \cup {None, Orphan}] /\ Rid \in Id /\ u # None
  BY DEF TickIInv, TickTypeOK, LockTypeOK
<1>2. redis[Rid] = u => now <= expiry /\ (Holding(u) \/ (at[u] = "lost" /\ next[u] = expiry))
  BY DEF KeyHasOwner
<1>3. ASSUME redis' = redis, now' = now, expiry' = expiry,
             (at'[u] = at[u] /\ next'[u] = next[u]) \/ at'[u] \in {"working", "resting"}
      PROVE  Goal
  BY <1>2, <1>3
<1>4. ASSUME NEW t \in Task, Granted(t) PROVE Goal
  <2>1. redis'[Rid] = t /\ expiry' = now + Ttl /\ now' = now /\ at'[t] = "working"
    BY <1>1, <1>4 DEF Granted, AcquireOk, Goes
  <2> QED BY <1>1, <2>1
<1>5. ASSUME NEW t \in Task, TimerFires(t) \/ Refused(t) \/ GivesUp(t) PROVE Goal
  <2>1. redis' = redis /\ now' = now /\ expiry' = expiry /\ at[t] \in {"waiting", "trying"}
    BY <1>5 DEF TimerFires, Refused, GivesUp, AcquireRefused, lockVars
  <2>2. u # t
    BY <1>2, <2>1
  <2>3. at'[u] = at[u] /\ next'[u] = next[u]
    BY <1>1, <1>5, <2>2 DEF TimerFires, Refused, GivesUp, Goes
  <2> QED BY <1>3, <2>1, <2>3
<1>6. ASSUME NEW t \in Task, WorkDone(t) \/ WorkFails(t) PROVE Goal
  <2>1. redis' = redis /\ now' = now /\ expiry' = expiry
    BY <1>6 DEF WorkDone, WorkFails, lockVars
  <2>2. PICK w : at' = [at EXCEPT ![t] = "resting"] /\ next' = [next EXCEPT ![t] = w]
    BY <1>6 DEF WorkDone, WorkFails, Goes
  <2>3. at'[u] = "resting" \/ (at'[u] = at[u] /\ next'[u] = next[u])
    BY <1>1, <2>2
  <2> QED BY <1>3, <2>1, <2>3
<1>7. ASSUME NEW p \in Proc, ProcessEnds(p) PROVE Goal
  <2>1. redis' = redis /\ now' = now /\ expiry' = expiry /\ redis[Rid] = u
    BY <1>7 DEF ProcessEnds, Exit
  <2>2. CASE Holding(u)
    <3>1. holding[u] = Rid
      BY <2>2 DEF TickIInv, HoldersHold
    <3>2. \/ at'[u] = at[u] /\ next'[u] = next[u]
          \/ at'[u] = "lost" /\ next'[u] = expiry
      BY <1>1, <1>7, <2>2, <3>1 DEF ProcessEnds, Ended
    <3> QED BY <1>2, <2>1, <2>2, <3>2
  <2>3. CASE at[u] = "lost"
    <3>1. at'[u] = at[u] /\ next'[u] = next[u]
      BY <1>1, <1>7, <2>3 DEF ProcessEnds, Ended
    <3> QED BY <1>3, <2>1, <3>1
  <2> QED BY <1>2, <2>1, <2>2, <2>3
<1>8. ASSUME NEW t \in Task, Release(t) PROVE Goal
  <2>1. CASE ReleaseRejected(t)
    BY <1>7, <1>8, <2>1 DEF Release
  <2>2. CASE ~ReleaseRejected(t)
    <3>1. holding[t] = Rid /\ ReleaseOk(t)
      BY <1>8, <2>2 DEF Release, TickIInv, HoldersHold
    <3>2. redis'[Rid] = None
      BY <1>1, <3>1 DEF ReleaseOk
    <3> QED BY <1>1, <3>2
  <2> QED BY <2>1, <2>2
<1>9. CASE TimePasses
  <2>1. redis' = redis /\ at' = at /\ next' = next /\ expiry' = expiry /\ now' = now + 1
        /\ (redis[Rid] # None => now < expiry)
    BY <1>9 DEF TimePasses, lockVars
  <2> QED BY <1>1, <1>2, <2>1
<1>10. CASE KeyExpires
  <2>1. redis'[Rid] = None
    BY <1>1, <1>10 DEF KeyExpires, Expire
  <2> QED BY <1>1, <2>1
<1>11. ASSUME NEW p \in Proc, Dies(p) PROVE Goal
  BY <1>7, <1>11 DEF Dies
<1>12. CASE UNCHANGED tickVars
  BY <1>3, <1>12 DEF tickVars, lockVars, clocks
<1> QED BY <1>4, <1>5, <1>6, <1>8, <1>9, <1>10, <1>11, <1>12 DEF TickNext

\* Who was busy when t was refused stays on record.
LEMMA BusyStays ==
  ASSUME TickIInv, OnTime, [TickNext]_tickVars, NEW t \in Task, NEW u \in Task,
         RefusedFor(t), Busy(t, u)
  PROVE  Busy(t, u)'
<1> USE DEF TickIInv, TickTypeOK, InTime
<1>1. /\ TickAt[t] <= now /\ now \in Nat /\ TickAt[t] \in Nat
      /\ next[u] \in Nat /\ next'[u] \in Nat
  <2>1. TickIInv'
    BY TickStep
  <2> QED BY <2>1 DEF OnTime, OnTimeOf, RefusedFor
<1>2. ASSUME at'[u] \in {"working", "resting", "done", "lost"},
             next'[u] = next[u] \/ next'[u] >= now
      PROVE  Busy(t, u)'
  BY <1>1, <1>2 DEF Busy
<1>3. at[u] \in {"working", "resting", "done", "lost"} /\ next[u] \in Nat
  BY DEF Busy
<1>4. CASE \E x \in Task : TimerFires(x) \/ Granted(x) \/ Refused(x) \/ GivesUp(x)
  BY <1>2, <1>3, <1>4 DEF TimerFires, Granted, Refused, GivesUp, Goes
<1>5. CASE \E x \in Task : WorkDone(x) \/ WorkFails(x)
  BY <1>1, <1>2, <1>3, <1>5 DEF WorkDone, WorkFails, RestUntil, Goes
<1>6. ASSUME NEW p \in Proc, ProcessEnds(p) PROVE Busy(t, u)'
  <2>1. Holding(u) => holding[u] = Rid /\ now <= expiry
    BY DEF HoldersHold
  <2> QED BY <1>2, <1>3, <1>6, <2>1 DEF ProcessEnds, Ended
<1>7. CASE \E x \in Task : Release(x)
  BY <1>1, <1>2, <1>3, <1>6, <1>7 DEF Release, Goes
<1>8. CASE \E p \in Proc : Dies(p)
  BY <1>6, <1>8 DEF Dies
<1>9. CASE TimePasses \/ KeyExpires \/ UNCHANGED tickVars
  BY <1>2, <1>3, <1>9 DEF TimePasses, KeyExpires, clocks, tickVars
<1> QED BY <1>4, <1>5, <1>7, <1>8, <1>9 DEF TickNext

\* The first refusal of a run: the owner of the key is of its tick or busy.
LEMMA FirstRefusal ==
  ASSUME TicksSpread, TickIInv, OnTime, KeyHasOwner, NEW t \in Task,
         at[t] = "trying", tries[t] = 0, Refused(t) \/ GivesUp(t)
  PROVE  \E u \in Task : Busy(t, u)'
<1>1. redis[Rid] \notin {None, Orphan} /\ redis \in [Id -> Task \cup {None, Orphan}]
  BY DEF KeyHasOwner, Refused, GivesUp, AcquireRefused, TickIInv, TickTypeOK, LockTypeOK
<1>2. PICK u \in Task : redis[Rid] = u
  BY <1>1
<1>3. /\ now \in Nat /\ next[u] \in Nat /\ TickAt[t] \in Nat /\ TickAt[u] \in Nat
      /\ at \in [Task -> {"waiting", "trying", "working", "resting"} \cup Ended]
      /\ next \in [Task -> Nat] /\ Skew \in Nat
  BY DEF TickIInv, TickTypeOK
<1>4. now <= expiry /\ (Holding(u) \/ (at[u] = "lost" /\ next[u] = expiry))
  BY <1>2 DEF KeyHasOwner
<1>5. at[u] \in {"working", "resting", "lost"} /\ now <= next[u]
  BY <1>4 DEF TickIInv, InTime
<1>6. now <= next[t] /\ next[t] <= TickAt[t] + Skew /\ TickAt[t] <= now /\ TickAt[u] <= now
  BY <1>5 DEF OnTime, OnTimeOf
<1>7. next[t] \in Nat
  BY DEF TickIInv, TickTypeOK
<1>8. TickAt[u] <= TickAt[t]
  BY <1>3, <1>6, <1>7 DEF TicksSpread
<1>9. u # t
  BY <1>5
<1>10. at'[u] = at[u] /\ next'[u] = next[u]
  BY <1>3, <1>9 DEF Refused, GivesUp, Goes
<1>11. TickAt[u] = TickAt[t] \/ (TickAt[u] < TickAt[t] /\ next'[u] >= TickAt[t])
  BY <1>3, <1>5, <1>6, <1>8, <1>10
<1>12. at'[u] \in {"working", "resting", "done", "lost"}
  BY <1>5, <1>10
<1>13. Busy(t, u)'
  BY <1>11, <1>12 DEF Busy
<1> QED BY <1>13

LEMMA CauseStep ==
  ASSUME TicksSpread, TickIInv, LostIInv, [TickNext]_tickVars
  PROVE  RefusalsHaveCause'
<1> SUFFICES ASSUME NEW t \in Task, RefusedFor(t)' PROVE \E u \in Task : Busy(t, u)'
  BY DEF RefusalsHaveCause, RefusedFor, Busy
<1>1. CASE RefusedFor(t)
  BY <1>1, BusyStays DEF LostIInv, RefusalsHaveCause
<1>2. CASE ~RefusedFor(t)
  <2> USE DEF RefusedFor, TickIInv, TickTypeOK
  <2>1. (Refused(t) \/ GivesUp(t)) /\ at[t] = "trying" /\ tries[t] = 0
    <3>1. CASE \E x \in Task : TimerFires(x) \/ Granted(x) \/ WorkDone(x) \/ WorkFails(x)
      BY <1>2, <3>1 DEF TimerFires, Granted, WorkDone, WorkFails, Goes, LostIInv, OnTime, OnTimeOf
    <3>2. CASE \E x \in Task : Refused(x) \/ GivesUp(x)
      BY <1>2, <3>2 DEF Refused, GivesUp, Goes
    <3>3. ASSUME NEW p \in Proc, ProcessEnds(p) PROVE FALSE
      BY <1>2, <3>3 DEF ProcessEnds
    <3>4. CASE \E x \in Task : Release(x)
      BY <1>2, <3>3, <3>4 DEF Release, Goes
    <3>5. CASE \E p \in Proc : Dies(p)
      BY <3>3, <3>5 DEF Dies
    <3>6. CASE TimePasses \/ KeyExpires \/ UNCHANGED tickVars
      BY <1>2, <3>6 DEF TimePasses, KeyExpires, clocks, tickVars
    <3> QED BY <3>1, <3>2, <3>4, <3>5, <3>6 DEF TickNext
  <2> QED BY <2>1, FirstRefusal DEF LostIInv
<1> QED BY <1>1, <1>2

\* No tick gets lost while the ticks are farther apart than their timers are late:
\* if no process got the lock for a tick, a run of an earlier one was still busy.
THEOREM LostTicksWereBusy ==
  ASSUME TicksSpread PROVE TickSpec => []SkippedTickWasBusy
<1>1. TickSpec => []TickIInv
  BY TickInitEstablishes, TickStep, PTL DEF TickSpec
<1>2. TickIInv /\ LostIInv /\ [TickNext]_tickVars => LostIInv'
  BY OnTimeStep, OwnerStep, CauseStep DEF LostIInv
<1>3. LostIInv => SkippedTickWasBusy
  BY DEF LostIInv, RefusalsHaveCause, RefusedFor, Busy, SkippedTickWasBusy
<1> QED BY <1>1, <1>2, <1>3, LostInit, PTL DEF TickSpec
----------------------------------------------------------------------------
\* The abstract mutual exclusion, from the durations.

LEMMA TickRefinesMutex ==
  ASSUME TickIInv, [TickNext]_tickVars PROVE [Mutex!MutexNext]_holding
<1>1. ASSUME NEW t \in Task, Granted(t) PROVE Mutex!Take(t, Rid)
  <2>1. redis[Rid] = None /\ holding[t] = None /\ holding' = [holding EXCEPT ![t] = Rid]
    BY <1>1 DEF Granted, AcquireOk
  <2>2. \A u \in Task : holding[u] # Rid
    BY <2>1 DEF TickIInv, ReleaseSucceeds
  <2> QED BY <2>1, <2>2 DEF Mutex!Take
<1>2. ASSUME NEW p \in Proc, ProcessEnds(p) PROVE Mutex!Drop(p)
  BY <1>2 DEF ProcessEnds, Exit, Forgets, Mutex!Drop
<1>3. ASSUME NEW t \in Task, Release(t) PROVE Mutex!Give(t)
  <2>1. ~ReleaseRejected(t)
    BY DEF TickIInv, ReleaseSucceeds, ReleaseRejected
  <2> QED BY <1>3, <2>1 DEF Release, ReleaseOk, Mutex!Give
<1>4. CASE \E t \in Task : TimerFires(t) \/ Refused(t) \/ GivesUp(t) \/ WorkDone(t) \/ WorkFails(t)
  BY <1>4 DEF TimerFires, Refused, GivesUp, AcquireRefused, WorkDone, WorkFails, lockVars
<1>5. CASE KeyExpires \/ TimePasses \/ UNCHANGED tickVars
  BY <1>5 DEF KeyExpires, Expire, TimePasses, tickVars, lockVars
<1> QED BY <1>1, <1>2, <1>3, <1>4, <1>5 DEF TickNext, Dies, Mutex!MutexNext

\* In real time too the locks are the mutual exclusion that the scheduler relies on:
\* the keys that expire, the retries and the processes that die are all hidden, for
\* any durations that keep the work and the minimal duration below the time to live.
THEOREM TicksImplementMutex == TickSpec => ImplementsMutex
<1>1. TickInit => Mutex!MutexInit
  BY DEF TickInit, LockInit, Mutex!MutexInit
<1>2. TickSpec => []TickIInv
  BY TickInitEstablishes, TickStep, PTL DEF TickSpec
<1>3. TickIInv /\ [TickNext]_tickVars => [Mutex!MutexNext]_holding
  BY TickRefinesMutex
<1> QED BY <1>1, <1>2, <1>3, PTL DEF TickSpec, ImplementsMutex, Mutex!MutexSpec

----------------------------------------------------------------------------
\* How late a run may be, and when a tick is served twice.

\* The time by which a run of the tick of t has either got the lock or given up.
Latest(t) == TickAt[t] + Skew + MaxSpins * MaxDelay

\* Every refusal so far has delayed the run by at most MaxDelay.
Prompt ==
  \A t \in Task :
    at[t] = "trying" => now <= next[t] /\ next[t] <= TickAt[t] + Skew + tries[t] * MaxDelay

\* A run takes its startTime after its tick.
StartsLate ==
  \A t \in Task : at[t] \in {"trying", "working", "resting", "done"} => TickAt[t] <= start[t]

LEMMA Delays ==
  /\ MaxSpins * MaxDelay \in Nat
  /\ \A n \in 0..MaxSpins : n * MaxDelay \in Nat /\ n * MaxDelay <= MaxSpins * MaxDelay
  /\ \A n \in Nat : (n + 1) * MaxDelay = n * MaxDelay + MaxDelay
<1>1. \A n, m, d \in Nat : n <= m => n * d \in Nat /\ n * d <= m * d
  OBVIOUS
<1> QED BY <1>1

LEMMA PromptStep ==
  ASSUME TickIInv, OnTime, Prompt, [TickNext]_tickVars
  PROVE  Prompt'
<1> SUFFICES ASSUME NEW t \in Task, at'[t] = "trying"
             PROVE  now' <= next'[t] /\ next'[t] <= TickAt[t] + Skew + tries'[t] * MaxDelay
  BY DEF Prompt
<1>1. /\ now \in Nat /\ next[t] \in Nat /\ TickAt[t] \in Nat /\ tries[t] \in 0..MaxSpins
      /\ at \in [Task -> {"waiting", "trying", "working", "resting"} \cup Ended]
      /\ next \in [Task -> Nat] /\ tries \in [Task -> 0..MaxSpins]
  BY DEF TickIInv, TickTypeOK
<1>2. ASSUME at[t] = "trying", UNCHANGED now, next'[t] = next[t], tries'[t] = tries[t]
      PROVE  now' <= next'[t] /\ next'[t] <= TickAt[t] + Skew + tries'[t] * MaxDelay
  BY <1>2 DEF Prompt
<1>3. ASSUME NEW u \in Task, TimerFires(u)
      PROVE  now' <= next'[t] /\ next'[t] <= TickAt[t] + Skew + tries'[t] * MaxDelay
  <2>1. CASE u = t
    <3>1. at[t] = "waiting" /\ now' = now /\ next'[t] = now /\ tries'[t] = tries[t]
      BY <1>1, <1>3, <2>1 DEF TimerFires, Goes
    <3>2. now <= TickAt[t] + Skew /\ tries'[t] = 0
      BY <3>1 DEF OnTime, OnTimeOf
    <3>3. tries'[t] * MaxDelay = 0
      BY <3>2
    <3> QED BY <1>1, <3>1, <3>2, <3>3
  <2>2. CASE u # t
    BY <1>1, <1>2, <1>3, <2>2 DEF TimerFires, Goes
  <2> QED BY <2>1, <2>2
<1>4. ASSUME NEW u \in Task, Refused(u)
      PROVE  now' <= next'[t] /\ next'[t] <= TickAt[t] + Skew + tries'[t] * MaxDelay
  <2>1. CASE u = t
    <3>1. /\ at[t] = "trying" /\ now' = now /\ next'[t] = now + MaxDelay
          /\ tries'[t] = tries[t] + 1
      BY <1>1, <1>4, <2>1 DEF Refused, Goes
    <3>2. now <= next[t] /\ next[t] <= TickAt[t] + Skew + tries[t] * MaxDelay
      BY <3>1 DEF Prompt
    <3>3. /\ tries'[t] * MaxDelay = tries[t] * MaxDelay + MaxDelay
          /\ tries[t] * MaxDelay \in Nat
      BY <1>1, <3>1, Delays
    <3>4. \A a, b, c, d, e, f \in Nat :
            a <= b /\ b <= c + d + e => a <= a + f /\ a + f <= c + d + (e + f)
      OBVIOUS
    <3> QED BY <1>1, <3>1, <3>2, <3>3, <3>4
  <2>2. CASE u # t
    BY <1>1, <1>2, <1>4, <2>2 DEF Refused, Goes
  <2> QED BY <2>1, <2>2
<1>5. ASSUME NEW u \in Task, Granted(u) \/ GivesUp(u) \/ WorkDone(u) \/ WorkFails(u)
      PROVE  now' <= next'[t] /\ next'[t] <= TickAt[t] + Skew + tries'[t] * MaxDelay
  <2>1. u # t
    BY <1>1, <1>5 DEF Granted, GivesUp, WorkDone, WorkFails, Goes
  <2> QED BY <1>1, <1>2, <1>5, <2>1 DEF Granted, GivesUp, WorkDone, WorkFails, Goes
<1>6. ASSUME NEW p \in Proc, ProcessEnds(p)
      PROVE  now' <= next'[t] /\ next'[t] <= TickAt[t] + Skew + tries'[t] * MaxDelay
  <2>1. UNCHANGED <<now, tries>> /\ at[t] = "trying" /\ next'[t] = next[t]
    BY <1>1, <1>6 DEF ProcessEnds, Ended
  <2> QED BY <1>2, <2>1
<1>7. ASSUME NEW u \in Task, Release(u)
      PROVE  now' <= next'[t] /\ next'[t] <= TickAt[t] + Skew + tries'[t] * MaxDelay
  <2>1. CASE ReleaseRejected(u)
    BY <1>6, <1>7, <2>1 DEF Release
  <2>2. CASE ~ReleaseRejected(u)
    BY <1>1, <1>2, <1>7, <2>2 DEF Release, Goes
  <2> QED BY <2>1, <2>2
<1>8. CASE TimePasses
  <2>1. /\ now' = now + 1 /\ at[t] = "trying" /\ next'[t] = next[t] /\ tries'[t] = tries[t]
        /\ now < next[t]
    BY <1>8 DEF TimePasses, Ended
  <2>2. next[t] <= TickAt[t] + Skew + tries[t] * MaxDelay
    BY <2>1 DEF Prompt
  <2> QED BY <1>1, <2>1, <2>2
<1>9. CASE (\E p \in Proc : Dies(p)) \/ KeyExpires \/ UNCHANGED tickVars
  BY <1>2, <1>6, <1>9 DEF Dies, KeyExpires, clocks, tickVars
<1> QED BY <1>3, <1>4, <1>5, <1>6, <1>7, <1>8, <1>9 DEF TickNext

\* Who is granted the lock is prompt.
LEMMA GrantPrompt ==
  ASSUME TickIInv, Prompt, [TickNext]_tickVars, NEW t \in Task,
         holding[t] = None, holding'[t] = Rid
  PROVE  at[t] = "trying" /\ now <= Latest(t)
<1>1. Granted(t)
  <2>1. ASSUME NEW u \in Task, Granted(u) PROVE u = t
    BY <2>1 DEF Granted, AcquireOk, TickIInv, TickTypeOK, LockTypeOK
  <2>2. CASE \E u \in Task : TimerFires(u) \/ Refused(u) \/ GivesUp(u) \/ WorkDone(u) \/ WorkFails(u)
    BY <2>2 DEF TimerFires, Refused, GivesUp, AcquireRefused, WorkDone, WorkFails, lockVars
  <2>3. ASSUME NEW p \in Proc, ProcessEnds(p) PROVE FALSE
    BY <2>3 DEF ProcessEnds, Exit, Forgets
  <2>4. CASE \E u \in Task : Release(u)
    BY <2>3, <2>4 DEF Release, ReleaseOk, TickIInv, TickTypeOK, LockTypeOK
  <2>5. CASE (\E p \in Proc : Dies(p)) \/ KeyExpires \/ TimePasses \/ UNCHANGED tickVars
    BY <2>3, <2>5 DEF Dies, KeyExpires, Expire, TimePasses, tickVars, lockVars
  <2> QED BY <2>1, <2>2, <2>4, <2>5 DEF TickNext
<1>2. at[t] = "trying"
  BY <1>1 DEF Granted
<1>3. /\ now <= next[t] /\ next[t] <= TickAt[t] + Skew + tries[t] * MaxDelay
  BY <1>2 DEF Prompt
<1>4. /\ tries[t] * MaxDelay \in Nat /\ tries[t] * MaxDelay <= MaxSpins * MaxDelay
      /\ MaxSpins * MaxDelay \in Nat
  BY Delays DEF TickIInv, TickTypeOK
<1>5. now \in Nat /\ next[t] \in Nat /\ TickAt[t] \in Nat
  BY DEF TickIInv, TickTypeOK
<1>6. \A a, b, c, d, e, f \in Nat : a <= b /\ b <= c + d + e /\ e <= f => a <= c + d + f
  OBVIOUS
<1> QED BY <1>2, <1>3, <1>4, <1>5, <1>6 DEF Latest

\* Nobody serves a tick late, whatever the processes, ticks, retries and delays: a
\* run that is granted the lock is within the time of its timer and its retries.
THEOREM GrantsComeInTime == TickSpec => GrantsInTime
<1>1. TickSpec => []TickIInv
  BY TickInitEstablishes, TickStep, PTL DEF TickSpec
<1>2. TickInit => OnTime /\ Prompt
  BY LostInit DEF LostIInv, TickInit, Prompt
<1>3. TickIInv /\ OnTime /\ Prompt /\ [TickNext]_tickVars => OnTime' /\ Prompt'
  BY OnTimeStep, PromptStep
<1>4. TickIInv /\ Prompt /\ [TickNext]_tickVars =>
        [\A t \in Task : holding[t] = None /\ holding'[t] = Rid
           => now <= TickAt[t] + Skew + MaxSpins * MaxDelay]_tickVars
  BY GrantPrompt DEF Latest
<1> QED BY <1>1, <1>2, <1>3, <1>4, PTL DEF TickSpec, GrantsInTime
\* A run that is at work, or has been to the end.
Serves(t) == Holding(t) \/ Succeeded(t)

\* Once a tick has been served, no other run of it is.
ServedOnce ==
  \A t, u \in Task :
    t # u /\ TickAt[t] = TickAt[u] /\ Succeeded(t) => ~Serves(u)

LEMMA StartsLateStep ==
  ASSUME TickIInv, StartsLate, [TickNext]_tickVars
  PROVE  StartsLate'
<1> SUFFICES ASSUME NEW t \in Task, at'[t] \in {"trying", "working", "resting", "done"}
             PROVE  TickAt[t] <= start'[t]
  BY DEF StartsLate
<1>1. /\ at \in [Task -> {"waiting", "trying", "working", "resting"} \cup Ended]
      /\ start \in [Task -> Nat]
  BY DEF TickIInv, TickTypeOK
<1>2. ASSUME at[t] \in {"trying", "working", "resting", "done"}, start'[t] = start[t]
      PROVE  TickAt[t] <= start'[t]
  BY <1>2 DEF StartsLate
<1>3. ASSUME NEW u \in Task, TimerFires(u) PROVE TickAt[t] <= start'[t]
  <2>1. CASE u = t
    BY <1>1, <1>3, <2>1 DEF TimerFires, TickIInv, TickTypeOK
  <2>2. CASE u # t
    BY <1>1, <1>2, <1>3, <2>2 DEF TimerFires, Goes
  <2> QED BY <2>1, <2>2
<1>4. CASE \E u \in Task : Granted(u) \/ Refused(u) \/ WorkDone(u) \/ WorkFails(u)
  BY <1>1, <1>2, <1>4 DEF Granted, Refused, WorkDone, WorkFails, Goes
<1>5. ASSUME NEW u \in Task, GivesUp(u) PROVE TickAt[t] <= start'[t]
  <2>1. u # t
    BY <1>1, <1>5 DEF GivesUp, Goes
  <2> QED BY <1>1, <1>2, <1>5, <2>1 DEF GivesUp, Goes
<1>6. ASSUME NEW p \in Proc, ProcessEnds(p) PROVE TickAt[t] <= start'[t]
  BY <1>1, <1>2, <1>6 DEF ProcessEnds, Ended
<1>7. CASE \E u \in Task : Release(u)
  BY <1>1, <1>2, <1>6, <1>7 DEF Release, Goes
<1>8. CASE (\E p \in Proc : Dies(p)) \/ KeyExpires \/ TimePasses \/ UNCHANGED tickVars
  BY <1>2, <1>6, <1>8 DEF Dies, KeyExpires, TimePasses, clocks, tickVars
<1> QED BY <1>3, <1>4, <1>5, <1>7, <1>8 DEF TickNext

LEMMA ServedOnceStep ==
  ASSUME Skew + MaxSpins * MaxDelay < MinTask,
         TickIInv, Prompt, StartsLate, ServedOnce, [TickNext]_tickVars
  PROVE  ServedOnce'
<1> SUFFICES ASSUME NEW t \in Task, NEW u \in Task, t # u, TickAt[t] = TickAt[u],
                    Succeeded(t)', Serves(u)'
             PROVE  FALSE
  BY DEF ServedOnce, Serves, Succeeded
<1>1. /\ at \in [Task -> {"waiting", "trying", "working", "resting"} \cup Ended]
      /\ bad \subseteq Task /\ now \in Nat /\ start[t] \in Nat /\ TickAt[t] \in Nat
  BY DEF TickIInv, TickTypeOK
<1>2. ASSUME NEW x \in Task, Succeeded(x)', ~Succeeded(x)
      PROVE  at[x] = "resting" /\ x \notin bad /\ Release(x) /\ \A y \in Task : y # x => at'[y] = at[y]
  <2>1. ASSUME NEW p \in Proc, ProcessEnds(p) PROVE FALSE
    BY <1>1, <1>2, <2>1 DEF ProcessEnds, Succeeded, Ended
  <2>2. CASE \E y \in Task : \/ TimerFires(y) \/ Granted(y) \/ Refused(y) \/ GivesUp(y)
                             \/ WorkDone(y) \/ WorkFails(y)
    BY <1>1, <1>2, <2>2
    DEF TimerFires, Granted, Refused, GivesUp, WorkDone, WorkFails, Goes, Succeeded
  <2>3. CASE (\E p \in Proc : Dies(p)) \/ KeyExpires \/ TimePasses \/ UNCHANGED tickVars
    BY <1>2, <2>1, <2>3 DEF Dies, KeyExpires, TimePasses, clocks, tickVars, Succeeded
  <2>4. CASE \E y \in Task : Release(y)
    BY <1>1, <1>2, <2>1, <2>4 DEF Release, Goes, Succeeded
  <2> QED BY <2>2, <2>3, <2>4 DEF TickNext
<1>3. ASSUME NEW x \in Task, Holding(x)', ~Holding(x) PROVE Granted(x) /\ UNCHANGED bad
  <2>1. ASSUME NEW p \in Proc, ProcessEnds(p) PROVE FALSE
    BY <1>1, <1>3, <2>1 DEF ProcessEnds, Ended
  <2>2. CASE \E y \in Task : \/ TimerFires(y) \/ Granted(y) \/ Refused(y) \/ GivesUp(y)
                             \/ WorkDone(y) \/ WorkFails(y)
    BY <1>1, <1>3, <2>2
    DEF TimerFires, Granted, Refused, GivesUp, WorkDone, WorkFails, Goes
  <2>3. CASE (\E p \in Proc : Dies(p)) \/ KeyExpires \/ TimePasses \/ UNCHANGED tickVars
    BY <1>3, <2>1, <2>3 DEF Dies, KeyExpires, TimePasses, clocks, tickVars
  <2>4. CASE \E y \in Task : Release(y)
    BY <1>1, <1>3, <2>1, <2>4 DEF Release, Goes
  <2> QED BY <2>2, <2>3, <2>4 DEF TickNext
<1>4. CASE Succeeded(t) /\ Holding(u)' /\ ~Holding(u)
  <2>1. Granted(u)
    BY <1>3, <1>4
  <2>2. holding[u] = None /\ holding'[u] = Rid
    BY <2>1 DEF Granted, AcquireOk, TickIInv, TickTypeOK, LockTypeOK
  <2>3. now <= Latest(u)
    BY <2>2, GrantPrompt
  <2>4. start[t] + MinTask <= now
    BY <1>1, <1>4 DEF TickIInv, LongEnough, Succeeded
  <2>5. TickAt[t] <= start[t]
    BY <1>4 DEF StartsLate, Succeeded
  <2>6. MaxSpins * MaxDelay \in Nat
    BY Delays
  <2>7. now <= TickAt[t] + Skew + MaxSpins * MaxDelay
    BY <2>3 DEF Latest
  <2>8. \A n, s, m, a, k, d \in Nat : s + m <= n /\ a <= s /\ n <= a + k + d /\ k + d < m => FALSE
    OBVIOUS
  <2> QED BY <1>1, <2>4, <2>5, <2>6, <2>7, <2>8
<1>5. CASE Succeeded(t) /\ Holding(u)
  BY <1>5 DEF ServedOnce, Serves
<1>6. CASE Succeeded(t) /\ Succeeded(u)'
  <2>1. ~Succeeded(u)
    BY <1>6 DEF ServedOnce, Serves
  <2>2. Holding(u)
    BY <1>2, <1>6, <2>1
  <2> QED BY <1>6, <2>2 DEF ServedOnce, Serves
<1>7. CASE ~Succeeded(t)
  <2>1. at[t] = "resting" /\ Release(t) /\ at'[u] = at[u]
    BY <1>2, <1>7
  <2>2. ~Holding(u)
    BY <2>1 DEF TickIInv, HoldersHold, ReleaseSucceeds
  <2>3. ~Holding(u)' /\ Succeeded(u)'
    BY <2>1, <2>2 DEF Serves
  <2>4. Succeeded(u)
    BY <1>2, <2>2, <2>3
  <2> QED BY <2>1, <2>4 DEF ServedOnce, Serves
<1> QED BY <1>4, <1>5, <1>6, <1>7 DEF Serves

\* Two runs of one tick, in two processes, that have both sent their notification.
SentTwice ==
  \E t, u \in Task : t # u /\ TickAt[t] = TickAt[u] /\ Succeeded(t) /\ Succeeded(u)

\* What the minimal duration is for, and what it takes: one tick is served by two
\* processes only if the retries of the loser, and the lateness of its timer, can
\* outlast the minimal duration of the winner.  (With the values of the services they
\* can: ten retries of up to 400 ms each, and a minimal duration of 2 s.)
THEOREM TwiceOnlyByRetries ==
  TickSpec => [](SentTwice => MinTask <= Skew + MaxSpins * MaxDelay)
<1>1. CASE MinTask <= Skew + MaxSpins * MaxDelay
  <2>1. SentTwice => MinTask <= Skew + MaxSpins * MaxDelay
    BY <1>1
  <2> QED BY <2>1, PTL
<1>2. CASE ~(MinTask <= Skew + MaxSpins * MaxDelay)
  <2>1. Skew + MaxSpins * MaxDelay < MinTask
    BY <1>2, Delays
  <2>2. TickSpec => []TickIInv
    BY TickInitEstablishes, TickStep, PTL DEF TickSpec
  <2>3. TickInit => OnTime /\ Prompt /\ StartsLate /\ ServedOnce
    BY LostInit DEF LostIInv, TickInit, Prompt, StartsLate, ServedOnce, Succeeded
  <2>4. TickIInv /\ OnTime /\ Prompt /\ StartsLate /\ ServedOnce /\ [TickNext]_tickVars
          => OnTime' /\ Prompt' /\ StartsLate' /\ ServedOnce'
    BY <2>1, OnTimeStep, PromptStep, StartsLateStep, ServedOnceStep
  <2>5. ServedOnce => (SentTwice => MinTask <= Skew + MaxSpins * MaxDelay)
    BY DEF ServedOnce, SentTwice, Serves
  <2> QED BY <2>2, <2>3, <2>4, <2>5, PTL DEF TickSpec
<1> QED BY <1>1, <1>2
=============================================================================
