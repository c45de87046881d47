---------------------------- MODULE MCScheduling ----------------------------
(* The command handler h with two tasks, one API process a with one task, and *)
(* the reminders and commands of each run.                                    *)
EXTENDS Scheduling, TLC

CONSTANTS h, a, t1, t2, t3, i1, i2

MCProcOf == t1 :> h @@ t2 :> h @@ t3 :> a
TwoTasks == t1 :> h @@ t3 :> a
MCKeys == h :> Id @@ a :> {}

Reminder(i, s, w, k, ok) == [id |-> i, single |-> s, time |-> w, task |-> k, sendable |-> ok]

Hourly  == Reminder(i1, FALSE, "cron", "EVENT", TRUE)
Daily   == Reminder(i1, FALSE, "cron", "HTTP_POST", FALSE)
Later   == Reminder(i1, TRUE, "date", "HTTP_POST", FALSE)
Nightly == Reminder(i2, FALSE, "cron", "HTTP_POST", FALSE)
Once    == Reminder(i1, TRUE, "date", "EVENT", TRUE)
OncePost == Reminder(i2, TRUE, "date", "HTTP_POST", TRUE)
Five    == Reminder(i1, FALSE, "numbered", "EVENT", TRUE)
Odd     == Reminder(i2, TRUE, "cron", "EVENT", TRUE)
Solo    == Reminder(i2, TRUE, "date", "EVENT", TRUE)
Bad     == Reminder(i2, FALSE, "date", "EVENT", TRUE)

Create(S) == [op : {"create"}, rem : S]
DeleteOf(S) == [op : {"delete"}, id : S]
DeleteAllCmd == [op : {"deleteAll"}]

Limits(s, t, f, c) == "submit" :> s @@ "tick" :> t @@ "fault" :> f @@ "crash" :> c

\* Recurring reminders and a one-time event with an id of its own, no failures.
RecurringRem == {Daily, Later, Solo}
RecurringRequest == Create(RecurringRem) \cup DeleteOf({i1}) \cup DeleteAllCmd
RecurringBudget == Limits(4, 1, 0, 0)
SameTasks == Permutations({t1, t2})

\* One-time and recurring reminders, one call fails and one process dies.
MixedRem == {Once, Five, Odd, Bad}
MixedRequest == Create(MixedRem) \cup DeleteOf({i1}) \cup DeleteAllCmd
MixedBudget == Limits(2, 1, 1, 1)

\* Liveness, with tasks that may outlive their locks.
LiveRem == {Once, Nightly}
LiveRequest == Create(LiveRem) \cup DeleteOf({i1}) \cup DeleteAllCmd
LiveBudget == Limits(2, 1, 0, 1)

\* One scenario for each statement that the code does not keep.
OneRem == {Hourly}
OneRequest == Create(OneRem)
OneCrash == Limits(1, 0, 0, 1)
FiveRem == {Five}
FiveRequest == Create(FiveRem)
OneTick == Limits(1, 1, 0, 0)
PostRem == {OncePost}
PostRequest == Create(PostRem)
OneCreate == Limits(1, 0, 0, 0)
=============================================================================
