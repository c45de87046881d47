--------------------------- MODULE CommandHandler ---------------------------
(* The command handler service: it takes one command at a time from the       *)
(* commands topic, has the aggregate process it, and commits it whatever the  *)
(* outcome.  One action per remote call with the local code that follows.     *)
EXTENDS ReminderTask, Sequences

CONSTANTS
  Handler,    \* the process that consumes the commands topic
  Request     \* the commands that clients may submit

Command ==
  [op : {"create"}, rem : Rem] \cup [op : {"delete"}, id : Id] \cup [op : {"deleteAll"}]

ASSUME HandlerAssumption ==
  /\ Handler \in Proc
  /\ Request \subseteq Command
  /\ Id \subseteq Keys[Handler]

VARIABLES
  mode,       \* mode[p]: whether process p runs
  snapshot,   \* snapshot[p]: what init() of the starting process p has read
  topic,      \* the commands that are not yet committed
  hpc,        \* the call that the processing of Head(topic) makes next
  victim,     \* the id that a deletion in progress is about
  inserted    \* inserted[r]: how often r has been stored

lifeVars == <<mode, snapshot>>
cmdVars == <<topic, hpc, victim, inserted>>

CmdTypeOK ==
  /\ mode \in [Proc -> {"down", "starting", "up"}]
  /\ snapshot \in [Proc -> SUBSET Rem]
  /\ topic \in Seq(Command)
  /\ hpc \in {"idle", "insert", "job", "unset", "done"}
  /\ victim \in Id \cup {None}
  /\ inserted \in [Rem -> Nat]

CmdInit ==
  /\ mode = [p \in Proc |-> "down"]
  /\ snapshot = [p \in Proc |-> {}]
  /\ topic = <<>>
  /\ hpc = "idle"
  /\ victim = None
  /\ inserted = [r \in Rem |-> 0]

taskSide == <<due, lockVars, taskVars, lifeVars>>

\* The handler is free and the next command is one of those in ops.
Handling(ops) ==
  /\ mode[Handler] = "up"
  /\ hpc = "idle"
  /\ topic # <<>>
  /\ Head(topic).op \in ops

\* The ids that a deletion may try next: the one named in DeleteReminderCmd, or
\* for DeleteRemindersCmd any key of this process's Map.
Targets ==
  IF Head(topic).op = "delete" THEN {Head(topic).id}
  ELSE {i \in Id : jobs[Handler][i] # None}

----------------------------------------------------------------------------
(* Faulty variants of the operations below, which the properties must reject. *)

\* A handler that rethrows: a command that fails is never committed.
CommitOnlySuccess ==
  /\ hpc = "done"
  /\ Head(topic).op = "deleteAll" => \A i \in Id : jobs[Handler][i] = None
  /\ Head(topic).op = "create" => jobs[Handler][Head(topic).rem.id] # None
  /\ topic' = Tail(topic)
  /\ hpc' = "idle"
  /\ UNCHANGED <<budget, taskSide, cronVars, repoVars, victim, inserted>>

\* The offset is never committed: the next fetch delivers the command again.
CommitForgotten ==
  /\ hpc = "done"
  /\ hpc' = "idle"
  /\ UNCHANGED <<budget, taskSide, cronVars, repoVars, topic, victim, inserted>>

----------------------------------------------------------------------------
\* The API puts a command on the topic, whatever it is about.
Submit(c) ==
  /\ Spend("submit")
  /\ topic' = Append(topic, c)
  /\ UNCHANGED <<taskSide, cronVars, repoVars, hpc, victim, inserted>>

\* validateReminder() throws.
CreateInvalid ==
  /\ Handling({"create"})
  /\ ~Valid(Head(topic).rem)
  /\ hpc' = "done"
  /\ UNCHANGED <<budget, taskSide, cronVars, repoVars, topic, victim, inserted>>

\* storeReminder(): the id is free.
CreateCheck ==
  /\ Handling({"create"})
  /\ Valid(Head(topic).rem)
  /\ StoreCheck(Handler, Head(topic).rem)
  /\ hpc' = "insert"
  /\ UNCHANGED <<budget, taskSide, cronVars, topic, victim, inserted>>

\* storeReminder() throws: the id is taken, or the check failed.
CreateRefused ==
  /\ Handling({"create"})
  /\ Valid(Head(topic).rem)
  /\ \/ StoreRefused(Handler, Head(topic).rem) /\ UNCHANGED budget
     \/ Spend("fault") /\ UNCHANGED repoVars
  /\ hpc' = "done"
  /\ UNCHANGED <<taskSide, cronVars, topic, victim, inserted>>

CountInsert ==
  /\ InsertOne(Handler)
  /\ inserted' = [inserted EXCEPT ![storing[Handler]] = @ + 1]

\* storeReminder(): the document is inserted.
CreateInsert ==
  /\ hpc = "insert"
  /\ CountInsert
  /\ hpc' = "job"
  /\ UNCHANGED <<budget, taskSide, cronVars, topic, victim>>

\* insertOne() throws, before or after it took effect: no job is created.
CreateInsertFails ==
  /\ hpc = "insert"
  /\ Spend("fault")
  /\ \/ CountInsert
     \/ InsertAborted(Handler) /\ UNCHANGED inserted
  /\ hpc' = "done"
  /\ UNCHANGED <<taskSide, cronVars, topic, victim>>

\* The job is created and replaces the Map's entry, if there is one.
AddJob ==
  /\ hpc = "job"
  /\ ~PastDue(Head(topic).rem)
  /\ Arm(Handler, Head(topic).rem)
  /\ hpc' = "done"
  /\ UNCHANGED <<budget, taskSide, repoVars, topic, victim, inserted>>

\* The constructor of CronJob throws: the reminder stays stored without a job.
AddJobThrows ==
  /\ hpc = "job"
  /\ PastDue(Head(topic).rem)
  /\ hpc' = "done"
  /\ UNCHANGED <<budget, taskSide, cronVars, repoVars, topic, victim, inserted>>

\* deleteReminder() of one id succeeds.
Delete(i) ==
  /\ Handling({"delete", "deleteAll"})
  /\ i \in Targets
  /\ \E r \in Found(i) : DeleteOne(r)
  /\ hpc' = "unset"
  /\ victim' = i
  /\ UNCHANGED <<budget, taskSide, cronVars, topic, inserted>>

\* deleteReminder() throws: there is no such reminder, or the call failed,
\* before or after it took effect.  This ends DeleteRemindersCmd too.
DeleteFails(i) ==
  /\ Handling({"delete", "deleteAll"})
  /\ i \in Targets
  /\ \/ DeleteNone(i) /\ UNCHANGED budget
     \/ /\ Spend("fault")
        /\ \/ UNCHANGED repoVars
           \/ \E r \in Found(i) : DeleteOne(r)
  /\ hpc' = "done"
  /\ UNCHANGED <<taskSide, cronVars, topic, victim, inserted>>

\* After a deletion: the entry under the id goes, and DeleteRemindersCmd turns
\* to the next key.
Unset ==
  /\ hpc = "unset"
  /\ StopJob(Handler, victim)
  /\ hpc' = IF Head(topic).op = "deleteAll" THEN "idle" ELSE "done"
  /\ victim' = None
  /\ UNCHANGED <<budget, taskSide, repoVars, topic, inserted>>

\* DeleteRemindersCmd has come to the end of the Map.
DeleteAllDone ==
  /\ Handling({"deleteAll"})
  /\ Targets = {}
  /\ hpc' = "done"
  /\ UNCHANGED <<budget, taskSide, cronVars, repoVars, topic, victim, inserted>>

\* _msgHandler() logs an error and resolves all the same; the offset moves on.
Commit ==
  /\ hpc = "done"
  /\ topic' = Tail(topic)
  /\ hpc' = "idle"
  /\ UNCHANGED <<budget, taskSide, cronVars, repoVars, victim, inserted>>

HandlerStep ==
  \/ CreateInvalid \/ CreateCheck \/ CreateRefused
  \/ CreateInsert \/ CreateInsertFails \/ AddJob \/ AddJobThrows
  \/ \E i \in Id : Delete(i) \/ DeleteFails(i)
  \/ Unset \/ DeleteAllDone \/ Commit
=============================================================================
