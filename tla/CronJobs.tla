------------------------------ MODULE CronJobs ------------------------------
(* The timers of each process: the aggregate's Map cronJobs from reminder id  *)
(* to CronJob, and the timers that are armed in the cron library, which do    *)
(* not all have an entry in the Map: set() replaces an entry without stopping *)
(* the job it held.  A job is the reminder it was made for and a number that  *)
(* tells it from other jobs of that reminder in the same process.             *)
EXTENDS Environment

CONSTANT MaxJobs    \* how many jobs of one reminder a process may have at once

ASSUME JobsAssumption == MaxJobs \in Nat \ {0} /\ None \notin [rem : Rem, nr : 1..MaxJobs]

Job == [rem : Rem, nr : 1..MaxJobs]

VARIABLES
  jobs,       \* jobs[p][i]: the job under i in p's Map cronJobs
  timers      \* timers[p]: the jobs of p that are armed

cronVars == <<jobs, timers>>

CronTypeOK ==
  /\ jobs \in [Proc -> [Id -> Job \cup {None}]]
  /\ timers \in [Proc -> SUBSET Job]

NoJobs == [i \in Id |-> None]

CronInit ==
  /\ jobs = [p \in Proc |-> NoJobs]
  /\ timers = [p \in Proc |-> {}]

----------------------------------------------------------------------------
(* Faulty variants of the operations below, which the properties must reject. *)

\* _deleteReminder() forgets cronJob.stop().
StopOnlyInMap(p, i) ==
  /\ jobs' = [jobs EXCEPT ![p][i] = None]
  /\ UNCHANGED timers

----------------------------------------------------------------------------
\* The numbers that no job of reminder r in p carries.
FreeNumbers(p, r) ==
  {n \in 1..MaxJobs : LET j == [rem |-> r, nr |-> n]
                      IN  j \notin timers[p] /\ jobs[p][r.id] # j}

\* cronJobs.set(id, new CronJob(..., start = true)), once the constructor has
\* accepted the time.  A pattern given to new Date() is an invalid date, whose
\* job never fires.
Arm(p, r) ==
  \E n \in FreeNumbers(p, r) :
    LET j == [rem |-> r, nr |-> n] IN
    /\ \A m \in FreeNumbers(p, r) : n <= m
    /\ jobs' = [jobs EXCEPT ![p][r.id] = j]
    /\ timers' = IF r.single /\ Recurring(r)
                 THEN timers ELSE [timers EXCEPT ![p] = @ \cup {j}]

\* The constructor throws for a date that has passed: the reminder's, or the one
\* in 2001 that a single reminder's numbered pattern is taken for.
PastDue(r) ==
  IF Recurring(r) THEN r.single /\ ReadAsDate(r) ELSE r \in due

\* get(), stop() and delete() of the entry under i; nothing if there is none.
StopJob(p, i) ==
  /\ timers' = [timers EXCEPT ![p] = @ \ {jobs[p][i]}]
  /\ jobs' = [jobs EXCEPT ![p][i] = None]

\* init() makes a date of whatever Date.parse() understands and a pattern of the
\* rest: the constructor throws for a date that has passed, as every numbered
\* pattern has, and for a number of milliseconds.
Loadable(r) == r.time = "cron" \/ (r.time = "date" /\ ~PastDue(r))

\* init(): one job for each reminder read from the collection, which holds one
\* reminder per id (see OneDocPerId in MongoRepo).
ArmAll(p, S) ==
  LET job(r) == [rem |-> r, nr |-> 1]
      of(i)  == {r \in S : r.id = i}
  IN
  /\ timers' = [timers EXCEPT ![p] = {job(r) : r \in S}]
  /\ jobs' = [jobs EXCEPT ![p] =
       [i \in Id |-> IF of(i) = {} THEN None ELSE job(CHOOSE r \in of(i) : TRUE)]]

\* The process ends.
DropJobs(p) ==
  /\ jobs' = [jobs EXCEPT ![p] = NoJobs]
  /\ timers' = [timers EXCEPT ![p] = {}]
=============================================================================
