----------------------------- MODULE Scheduling -----------------------------
(* The scheduling system: one command handler process and any number of API   *)
(* processes, all of which run an aggregate with timers, around one           *)
(* collection, one Redis and one commands topic.  Processes start, load the   *)
(* stored reminders (the API only), and may die at any point.                 *)
EXTENDS CommandHandler

vars == <<envVars, cronVars, lockVars, repoVars, taskVars, lifeVars, cmdVars>>

TypeOK ==
  EnvTypeOK /\ CronTypeOK /\ LockTypeOK /\ RepoTypeOK /\ TaskTypeOK /\ CmdTypeOK

Init ==
  EnvInit /\ CronInit /\ LockInit /\ RepoInit /\ TaskInit /\ CmdInit

----------------------------------------------------------------------------
\* The command handler service starts: it consumes, and loads no reminders.
StartHandler ==
  /\ mode[Handler] = "down"
  /\ mode' = [mode EXCEPT ![Handler] = "up"]
  /\ UNCHANGED <<envVars, cronVars, lockVars, repoVars, taskVars, cmdVars, snapshot>>

\* An API service starts: init() reads the collection.
StartApi(p) ==
  /\ p # Handler
  /\ mode[p] = "down"
  /\ mode' = [mode EXCEPT ![p] = "starting"]
  /\ snapshot' = [snapshot EXCEPT ![p] = Stored]
  /\ UNCHANGED <<envVars, cronVars, lockVars, repoVars, taskVars, cmdVars>>

\* init(): a job for every reminder that was read.
InitJobs(p) ==
  /\ mode[p] = "starting"
  /\ \A r \in snapshot[p] : Loadable(r)
  /\ ArmAll(p, snapshot[p])
  /\ mode' = [mode EXCEPT ![p] = "up"]
  /\ snapshot' = [snapshot EXCEPT ![p] = {}]
  /\ UNCHANGED <<envVars, lockVars, repoVars, taskVars, cmdVars>>

\* init() throws at a reminder whose time makes no job; the process exits.
InitFails(p) ==
  /\ mode[p] = "starting"
  /\ \E r \in snapshot[p] : ~Loadable(r)
  /\ mode' = [mode EXCEPT ![p] = "down"]
  /\ snapshot' = [snapshot EXCEPT ![p] = {}]
  /\ UNCHANGED <<envVars, cronVars, lockVars, repoVars, taskVars, cmdVars>>

\* Process p ends: its timers, tasks and its Map of locks are gone.  What is left
\* of it is a command that was not committed and, in most cases, a key in Redis.
ProcessEnds(p) ==
  LET lost(t) == ProcOf[t] = p IN
  /\ DropJobs(p)
  /\ Forgets(p)
  /\ storing' = [storing EXCEPT ![p] = None]
  /\ pc' = [t \in Task |-> IF lost(t) THEN "idle" ELSE pc[t]]
  /\ ran' = [t \in Task |-> IF lost(t) THEN None ELSE ran[t]]
  /\ got' = [t \in Task |-> IF lost(t) THEN None ELSE got[t]]
  /\ hpc' = IF p = Handler THEN "idle" ELSE hpc
  /\ victim' = IF p = Handler THEN None ELSE victim
  /\ mode' = [mode EXCEPT ![p] = "down"]
  /\ snapshot' = [snapshot EXCEPT ![p] = {}]
  /\ UNCHANGED <<due, docs, sent, topic, inserted>>

Crash(p) ==
  /\ mode[p] # "down"
  /\ Spend("crash")
  /\ ProcessEnds(p)
  /\ UNCHANGED redis

\* The release in the finally block is rejected, or Redis does not answer it: nobody
\* awaits the task, so the process ends with an uncaught exception.  A failure of
\* Redis is one of the crashes that a behaviour may see.
ReleaseThrows(t) ==
  /\ pc[t] = "release"
  /\ \/ ReleaseRejected(t) /\ UNCHANGED <<redis, budget>>
     \/ ReleaseUnanswered(t) /\ Spend("crash")
  /\ ProcessEnds(ProcOf[t])

KeyExpires(i) ==
  /\ Expire(i)
  /\ UNCHANGED <<envVars, cronVars, repoVars, taskVars, lifeVars, cmdVars>>

handlerSide == <<lifeVars, cmdVars>>

Next ==
  \/ \E c \in Request : Submit(c)
  \/ HandlerStep
  \/ \E t \in Task, j \in Job : Fire(t, j) /\ UNCHANGED handlerSide
  \/ \E t \in Task : TaskStep(t) /\ UNCHANGED handlerSide
  \/ \E t \in Task : ReleaseThrows(t)
  \/ \E i \in Id : KeyExpires(i)
  \/ \E r \in Rem : /\ TimePasses(r)
                    /\ UNCHANGED <<cronVars, lockVars, repoVars, taskVars, handlerSide>>
  \/ StartHandler
  \/ \E p \in Proc : StartApi(p) \/ InitJobs(p) \/ InitFails(p) \/ Crash(p)

Spec == Init /\ [][Next]_vars

(* The broker delivers, calls return, timers and times to live run out, and a *)
(* command handler that has died is started again.  Nothing makes clients     *)
(* submit, a recurring timer tick within its budget, or an API service start. *)
Fairness ==
  /\ WF_vars(StartHandler)
  /\ WF_vars(HandlerStep)
  /\ \A t \in Task :
       WF_vars((TaskStep(t) /\ UNCHANGED handlerSide) \/ ReleaseThrows(t))
  /\ \A p \in Proc : WF_vars(InitJobs(p) \/ InitFails(p))
  /\ \A p \in Proc, r \in Rem :
       WF_vars(\E t \in Task, j \in Job :
                 /\ ProcOf[t] = p /\ j.rem = r /\ ~Recurring(r)
                 /\ Fire(t, j) /\ UNCHANGED handlerSide)
  /\ \A i \in Id : WF_vars(KeyExpires(i))
  /\ \A r \in Rem :
       WF_vars(TimePasses(r) /\ UNCHANGED <<cronVars, lockVars, repoVars, taskVars, handlerSide>>)

FairSpec == Spec /\ Fairness

----------------------------------------------------------------------------
\* Among all runs of runReminderTask in all processes, at most one at a time is
\* between acquire() and release() for a reminder id.
OneWorkerPerReminder ==
  \A t, u \in Task :
    Working(t) /\ Working(u) /\ TaskId(t) = TaskId(u) => t = u

\* A task is between acquire() and release() of runReminderTask exactly while it
\* holds the lock of the id it was started with.
WorkersHoldLocks ==
  \A t \in Task : holding[t] = IF Working(t) THEN TaskId(t) ELSE None

\* An event to be sent once, at a date.
OneTimeEvent(r) == r.task = "EVENT" /\ r.time = "date"

\* sendEvent() notifies a one-time reminder once for every time it was stored,
\* though several processes fire it: the lock keeps them apart and the winner
\* deletes what it sent.  Only a failure may add a notification.
SentOncePerStore ==
  \A r \in Rem : OneTimeEvent(r) => sent[r] <= inserted[r] + Failures

\* How many commands have been submitted, and how many processes have died.
Submitted == Budget["submit"] - budget["submit"]
Crashes == Budget["crash"] - budget["crash"]

\* storeReminder() stores a reminder at most once for every command submitted: a
\* command that has been handled is not handled again, unless the process dies
\* before the offset is committed.
StoredOncePerCommand == \A r \in Rem : inserted[r] <= Submitted + Crashes

\* A notification is of a reminder that has been stored, and is sent by a timer of
\* its id that was due.  (A job passes on the id only: when ids are used again, a
\* timer of the reminder before may send the present one.)
SendsAreDue ==
  \A r \in Rem : sent[r] > 0 =>
    /\ inserted[r] > 0
    /\ \E q \in Rem : q.id = r.id /\ (Recurring(q) \/ q \in due)

\* No other reminder uses the id of r.
Alone(r) == \A q \in Rem : q.id = r.id => q = r

\* As long as nothing fails, a one-time event that the command handler has a job for
\* is not lost before it is sent: its timer is armed, or some process has a task
\* that is about to send it.  The loser of the lock gives up for good, which
\* is right only if the winner is such a task.
ArmedIsNotLost ==
  Failures = 0 =>
    \A r \in Stored :
      OneTimeEvent(r) /\ r.sendable /\ Alone(r) /\ jobs[Handler][r.id] # None =>
        \/ sent[r] > 0
        \/ jobs[Handler][r.id] \in timers[Handler]
        \/ \E t \in Task : pc[t] \in {"acquire", "get", "send"} /\ TaskId(t) = r.id

\* An event under the id i that Date.parse() takes for a one-time task has gone out:
\* its task deletes by id, in the collection and in the Map of its process, whatever
\* reminder has that id by then.
EventSent(i) == \E q \in Rem : q.id = i /\ q.task = "EVENT" /\ ReadAsDate(q) /\ sent[q] > 0

\* A reminder disappears only by the deletion in hand, or after such an event has gone
\* out: a send that fails, a crash, or another process that sends never costs a
\* reminder that was not sent.
RemovedOnceSent ==
  [][\A r \in Rem : docs'[r] < docs[r] =>
       \/ Handling({"delete", "deleteAll"}) /\ r.id \in Targets
       \/ EventSent(r.id)]_vars

\* A timer for r is still to come: again and again for a pattern (which a single
\* reminder takes for an invalid date), once for a date that has not passed.
Awaited(r) == IF Recurring(r) THEN ~r.single ELSE r \notin due

\* Between two commands, as long as no call fails and the process lives: under an id
\* whose events have not started to delete by it, the command handler runs no timer
\* but the one in its Map, the Map's job is for the reminder that is stored, and a
\* reminder that is stored and still to come has its timer.
ScheduleMatchesStore ==
  Failures = 0 /\ mode[Handler] = "up" /\ hpc \in {"idle", "done"} =>
    \A i \in Id : ~EventSent(i) =>
      /\ {j \in timers[Handler] : j.rem.id = i} \subseteq {jobs[Handler][i]}
      /\ jobs[Handler][i] # None => jobs[Handler][i].rem \in Found(i)
      /\ \A r \in Found(i) : Awaited(r) => \E j \in timers[Handler] : j.rem = r

\* Every command is handled in the end, whatever fails on the way: errors are
\* logged and the offset moves on (the topic never blocks on a bad command).
CommandsDrain == topic # <<>> ~> topic = <<>>

\* Every run of runReminderTask ends, even when it competes for a key whose
\* owner has died.
TasksEnd == \A t \in Task : pc[t] # "idle" ~> pc[t] = "idle"

\* A task works on a reminder whose key is not its own any more: it has outlived
\* the time to live of its lock.
Overtaken == \E t \in Task : Working(t) /\ redis[TaskId(t)] # t

\* A one-time event that is armed in the command handler, under an id that no other
\* reminder uses, is notified when its time has come, by one of the processes, unless
\* it was deleted before, a call or a process failed, a task outlived its lock, or
\* the handler's process ended.
OneTimeIsSent ==
  \A r \in Rem :
    (\E j \in timers[Handler] : j.rem = r) /\ OneTimeEvent(r) /\ r.sendable /\ Alone(r)
      ~> \/ sent[r] > 0 \/ r \notin Stored
         \/ Failures > 0 \/ Overtaken \/ mode[Handler] = "down"

----------------------------------------------------------------------------
(* What the repository's docs, comments and tests say, and the code does not  *)
(* do: each of the following is refuted by a run.                             *)

\* No command is waiting or being handled, and no task runs.
Quiet ==
  /\ mode[Handler] = "up" /\ hpc = "idle" /\ topic = <<>>
  /\ \A t \in Task : pc[t] = "idle"

\* "Maintaining a schedule of reminders received" (README.md): a recurring
\* reminder that is stored has an armed timer in some process.
StoredIsScheduled ==
  Quiet => \A r \in Stored : Recurring(r) /\ ~r.single =>
             \E p \in Proc : \E j \in timers[p] : j.rem = r

\* "Delete the reminder if it's a valid date, since we use it to schedule a
\* one-time task" (aggregate.ts): no task deletes a reminder that is to be sent
\* again and again.
RecurringIsKept ==
  [][\A t \in Task : pc[t] = "delete" /\ pc'[t] = "unset" => ~Recurring(got[t])]_vars

\* "initialise aggregate after populating reminder repo - should pass"
\* (domain-lib unit test): init() of a service that starts does not throw.
InitSucceeds == [][\A p \in Proc : mode[p] = "starting" => mode'[p] # "down"]_vars
=============================================================================
