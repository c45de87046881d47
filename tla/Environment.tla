---------------------------- MODULE Environment ----------------------------
(* What happens around the services: time passes, and clients, timers and    *)
(* failures act.  Only the last kind is bounded: Budget[k] is how many events *)
(* of kind k a behaviour may see.                                            *)
EXTENDS Deployment, Integers

CONSTANT
  Budget      \* Budget[k]: submissions, recurring ticks, faults (calls that fail),
              \* crashes (processes killed, or ended by a release without answer)

EventKind == {"submit", "tick", "fault", "crash"}

(* A reminder is created by one of two commands: single is TRUE for           *)
(* CreateSingleReminderCmd.  Its time is a cron pattern, a date string, or a  *)
(* number of milliseconds (which only a single reminder may carry).  Some     *)
(* patterns are also dates for Date.parse(): V8 skips the signs of one like   *)
(* "*/5 * * * * *" and reads its number as a month of the year 2001; these    *)
(* are called numbered.  sendable says whether the details of its task name   *)
(* what its kind needs: a URL for HTTP_POST, the known topic for EVENT.       *)
ReminderType ==
  [id : Id, single : BOOLEAN, time : {"cron", "numbered", "date", "epoch"},
   task : {"HTTP_POST", "EVENT"}, sendable : BOOLEAN]

ASSUME RemindersAssumption ==
  /\ Rem \subseteq ReminderType
  /\ Budget \in [EventKind -> Nat]

VARIABLES
  due,        \* the one-time reminders whose time has come
  budget      \* budget[k]: events of kind k that may still happen

envVars == <<due, budget>>

EnvTypeOK ==
  /\ due \subseteq Rem
  /\ budget \in [EventKind -> Nat]

EnvInit == due = {} /\ budget = Budget

\* The time is a pattern: a job for it fires again and again.
Recurring(r) == r.time \in {"cron", "numbered"}

\* Date.parse() and new Date() understand the time; of a number of milliseconds,
\* only new Date() does.
ReadAsDate(r) == r.time \in {"date", "numbered"}

\* Reminder.validateReminder() requires a pattern that CronTime accepts;
\* SingleReminder.validateReminder() tries new Date(time), which never throws.
Valid(r) == r.single \/ Recurring(r)

Spend(k) == budget[k] > 0 /\ budget' = [budget EXCEPT ![k] = @ - 1]

\* How many failures a behaviour has seen.
Failures ==
  (Budget["fault"] - budget["fault"]) + (Budget["crash"] - budget["crash"])

\* A one-time reminder's time comes.
TimePasses(r) ==
  /\ ~Recurring(r)
  /\ r \notin due
  /\ due' = due \cup {r}
  /\ UNCHANGED budget
=============================================================================
