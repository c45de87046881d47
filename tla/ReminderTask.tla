---------------------------- MODULE ReminderTask ----------------------------
(* runReminderTask(): what a process does each time one of its timers fires.  *)
(* One action per remote call, with the local code that follows it: other     *)
(* tasks, other processes and the command handler act in between.             *)
EXTENDS CronJobs, RedisLocks, MongoRepo

VARIABLES
  pc,         \* pc[t]: the call that run t of runReminderTask makes next
  ran,        \* ran[t]: the job whose timer started t
  got,        \* got[t]: the reminder that t read from the collection
  sent        \* sent[r]: how many notifications of r have gone out

taskVars == <<pc, ran, got, sent>>

Step == {"idle", "acquire", "get", "send", "delete", "unset", "release"}

TaskTypeOK ==
  /\ pc \in [Task -> Step]
  /\ ran \in [Task -> Job \cup {None}]
  /\ got \in [Task -> Rem \cup {None}]
  /\ sent \in [Rem -> Nat]

TaskInit ==
  /\ pc = [t \in Task |-> "idle"]
  /\ ran = [t \in Task |-> None]
  /\ got = [t \in Task |-> None]
  /\ sent = [r \in Rem |-> 0]

\* The id that t was started with, the only thing a job passes on.
TaskId(t) == ran[t].rem.id

\* t works on its reminder: it has passed acquire() and not yet release().
Working(t) == pc[t] \in {"get", "send", "delete", "unset", "release"}

Goto(t, step) == pc' = [pc EXCEPT ![t] = step]

\* t returns: the next timer that fires in its process may use the slot.
Finish(t) ==
  /\ Goto(t, "idle")
  /\ ran' = [ran EXCEPT ![t] = None]
  /\ got' = [got EXCEPT ![t] = None]
  /\ UNCHANGED sent

----------------------------------------------------------------------------
(* Faulty variants of the operations below, which the properties must reject. *)

\* sendEvent() does not delete the one-time reminder that it has sent.
AfterSendKeep(r) == "release"

\* A delay that overflows: the timer of a date fires at once.
FireEarly(t, j) ==
  LET p == ProcOf[t] IN
  /\ pc[t] = "idle"
  /\ j \in timers[p]
  /\ IF Recurring(j.rem)
     THEN Spend("tick") /\ UNCHANGED <<due, timers>>
     ELSE /\ timers' = [timers EXCEPT ![p] = @ \ {j}]
          /\ UNCHANGED envVars
  /\ Goto(t, "acquire")
  /\ ran' = [ran EXCEPT ![t] = j]
  /\ UNCHANGED <<jobs, lockVars, repoVars, got, sent>>

\* Whatever goes wrong in acquire() is taken for a lock that another run has.
TaskGivesUpEasily(t) ==
  /\ pc[t] = "acquire"
  /\ Finish(t)
  /\ UNCHANGED <<envVars, cronVars, lockVars, repoVars>>

\* The check of the task's details is the wrong way round.
TaskGetInverted(t) ==
  /\ pc[t] = "get"
  /\ \E r \in Found(TaskId(t)) :
       /\ got' = [got EXCEPT ![t] = r]
       /\ Goto(t, IF r.sendable THEN "release" ELSE "send")
  /\ UNCHANGED <<envVars, cronVars, lockVars, repoVars, ran, sent>>

\* sendEvent() deletes the reminder in a finally block, whatever send() has done.
TaskSendFailsForGood(t) ==
  /\ pc[t] = "send"
  /\ Spend("fault")
  /\ \/ UNCHANGED sent
     \/ sent' = [sent EXCEPT ![got[t]] = @ + 1]
  /\ Goto(t, IF got[t].task = "EVENT" THEN "delete" ELSE "release")
  /\ UNCHANGED <<due, cronVars, lockVars, repoVars, ran, got>>

\* runReminderTask() waits for a reminder that is not there.
TaskGetWaits(t) ==
  /\ pc[t] = "get"
  /\ Spend("fault")
  /\ Goto(t, "release")
  /\ UNCHANGED <<due, cronVars, lockVars, repoVars, ran, got, sent>>

\* runReminderTask() goes on without the lock.
TaskAcquireIgnored(t) ==
  /\ pc[t] = "acquire"
  /\ \/ AcquireOk(t, TaskId(t))
     \/ AcquireRefused(t, TaskId(t))
  /\ Goto(t, "get")
  /\ UNCHANGED <<envVars, cronVars, repoVars, ran, got, sent>>

\* An early return that skips the finally block.
TaskReleaseSkipped(t) ==
  /\ pc[t] = "release"
  /\ Finish(t)
  /\ UNCHANGED <<envVars, cronVars, lockVars, repoVars>>

----------------------------------------------------------------------------
\* A timer fires.  A job for a date fires once; cron disarms it.
Fire(t, j) ==
  LET p == ProcOf[t] IN
  /\ pc[t] = "idle"
  /\ j \in timers[p]
  /\ IF Recurring(j.rem)
     THEN Spend("tick") /\ UNCHANGED <<due, timers>>
     ELSE /\ j.rem \in due
          /\ timers' = [timers EXCEPT ![p] = @ \ {j}]
          /\ UNCHANGED envVars
  /\ Goto(t, "acquire")
  /\ ran' = [ran EXCEPT ![t] = j]
  /\ UNCHANGED <<jobs, lockVars, repoVars, got, sent>>

\* locks.acquire() returned true.
TaskAcquire(t) ==
  /\ pc[t] = "acquire"
  /\ AcquireOk(t, TaskId(t))
  /\ Goto(t, "get")
  /\ UNCHANGED <<envVars, cronVars, repoVars, ran, got, sent>>

\* locks.acquire() returned false: the key stayed taken, or Redis did not answer,
\* whether or not it has set the key.
TaskGiveUp(t) ==
  /\ pc[t] = "acquire"
  /\ \/ AcquireRefused(t, TaskId(t)) /\ UNCHANGED budget
     \/ Spend("fault") /\ UNCHANGED lockVars
     \/ Spend("fault") /\ AcquireLost(t, TaskId(t))
  /\ Finish(t)
  /\ UNCHANGED <<due, cronVars, repoVars>>

\* repo.getReminder() returned a reminder; a task whose details are incomplete
\* throws before anything is sent.
TaskGet(t) ==
  /\ pc[t] = "get"
  /\ \E r \in Found(TaskId(t)) :
       /\ got' = [got EXCEPT ![t] = r]
       /\ Goto(t, IF r.sendable THEN "send" ELSE "release")
  /\ UNCHANGED <<envVars, cronVars, lockVars, repoVars, ran, sent>>

\* repo.getReminder() returned null, or threw.
TaskGetNothing(t) ==
  /\ pc[t] = "get"
  /\ \/ Found(TaskId(t)) = {} /\ UNCHANGED budget
     \/ Spend("fault")
  /\ Goto(t, "release")
  /\ UNCHANGED <<due, cronVars, lockVars, repoVars, ran, got, sent>>

\* Only sendEvent() deletes what it has sent, and only if Date.parse() understands
\* the time: it does not for milliseconds, and it does for a numbered pattern.
AfterSend(r) == IF r.task = "EVENT" /\ ReadAsDate(r) THEN "delete" ELSE "release"

\* The notification goes out: HTTP POST, or an event to the broker.
TaskSend(t) ==
  /\ pc[t] = "send"
  /\ sent' = [sent EXCEPT ![got[t]] = @ + 1]
  /\ Goto(t, AfterSend(got[t]))
  /\ UNCHANGED <<envVars, cronVars, lockVars, repoVars, ran, got>>

\* send() threw; what it sent may have arrived all the same.
TaskSendFails(t) ==
  /\ pc[t] = "send"
  /\ Spend("fault")
  /\ \/ UNCHANGED sent
     \/ sent' = [sent EXCEPT ![got[t]] = @ + 1]
  /\ Goto(t, "release")
  /\ UNCHANGED <<due, cronVars, lockVars, repoVars, ran, got>>

\* sendEvent() deletes by id whatever reminder has that id by now.
TaskDelete(t) ==
  /\ pc[t] = "delete"
  /\ \E r \in Found(TaskId(t)) : DeleteOne(r)
  /\ Goto(t, "unset")
  /\ UNCHANGED <<envVars, cronVars, lockVars, ran, got, sent>>

\* The deletion threw, so the Map is left alone: there was nothing to delete, or
\* the call failed, before or after it took effect.
TaskDeleteFails(t) ==
  /\ pc[t] = "delete"
  /\ \/ DeleteNone(TaskId(t)) /\ UNCHANGED budget
     \/ /\ Spend("fault")
        /\ \/ UNCHANGED repoVars
           \/ \E r \in Found(TaskId(t)) : DeleteOne(r)
  /\ Goto(t, "release")
  /\ UNCHANGED <<due, cronVars, lockVars, ran, got, sent>>

\* After the deletion: the job now under the id is stopped and forgotten.
TaskUnset(t) ==
  /\ pc[t] = "unset"
  /\ StopJob(ProcOf[t], TaskId(t))
  /\ Goto(t, "release")
  /\ UNCHANGED <<envVars, lockVars, repoVars, ran, got, sent>>

\* The finally block.  (Scheduling has what happens when release() throws.)
TaskRelease(t) ==
  /\ pc[t] = "release"
  /\ ReleaseOk(t)
  /\ Finish(t)
  /\ UNCHANGED <<envVars, cronVars, repoVars>>

TaskStep(t) ==
  \/ TaskAcquire(t) \/ TaskGiveUp(t)
  \/ TaskGet(t) \/ TaskGetNothing(t)
  \/ TaskSend(t) \/ TaskSendFails(t)
  \/ TaskDelete(t) \/ TaskDeleteFails(t) \/ TaskUnset(t)
  \/ TaskRelease(t)
=============================================================================
