--------------------------- MODULE Outcomes_proofs ---------------------------
(* What the running system achieves, for any number of processes, tasks,       *)
(* reminders and commands.                                                      *)
(*                                                                              *)
(* A one-time event goes out once for every time it was stored.  The invariant  *)
(* is an account: what has been sent and what may still be sent is covered by   *)
(* what was stored and by the failures so far.  A document that a task has sent *)
(* and is about to delete no longer counts; only a failure brings it back.      *)
(*                                                                              *)
(* The timers of the command handler are those of its Map and of the stored     *)
(* reminders.  The invariant follows the command in hand: a creation that has   *)
(* stored its reminder owes it a job, a deletion owes the removal of one.       *)
EXTENDS Scheduling_proofs

Sending(r) == \E t \in Task : pc[t] = "send" /\ got[t] = r
Clearing(r) == \E t \in Task : pc[t] = "delete" /\ got[t] = r

\* How many notifications of r may go out if r is not stored again.
Left(r) == IF Sending(r) THEN 1 ELSE IF Clearing(r) \/ docs[r] = 0 THEN 0 ELSE 1

Account ==
  \A r \in Rem : OneTimeEvent(r) => sent[r] + Left(r) <= inserted[r] + Failures

\* A task sends and deletes the reminder that it was started for.
GotControl ==
  \A t \in Task : pc[t] \in {"send", "delete"} => got[t] \in Rem /\ got[t].id = TaskId(t)

\* What the rest of the system guarantees.
Context == SchedIInv /\ RepoIInv /\ LockIInv /\ OneWorkerPerReminder

SentIInv == GotControl /\ Account

----------------------------------------------------------------------------
\* The account in general.

LEMMA AccountTypes ==
  /\ SchedIInv => Failures \in Int
  /\ SchedIInv' => Failures' \in Int
  /\ \A r \in Rem :
       /\ SchedIInv => sent[r] \in Nat /\ inserted[r] \in Nat /\ docs[r] \in Nat
       /\ SchedIInv' => sent'[r] \in Nat /\ inserted'[r] \in Nat /\ docs'[r] \in Nat
       /\ Left(r) \in {0, 1} /\ Left(r)' \in {0, 1}
<1>1. "fault" \in EventKind /\ "crash" \in EventKind
  BY DEF EventKind
<1>2. SchedIInv => Failures \in Int
  BY <1>1, RemindersAssumption DEF SchedIInv, TypeOK, EnvTypeOK, Failures
<1>3. SchedIInv' => Failures' \in Int
  BY <1>1, RemindersAssumption DEF SchedIInv, TypeOK, EnvTypeOK, Failures
<1>4. SchedIInv => \A r \in Rem : sent[r] \in Nat /\ inserted[r] \in Nat /\ docs[r] \in Nat
  BY DEF SchedIInv, TypeOK, TaskTypeOK, CmdTypeOK, RepoTypeOK
<1>5. SchedIInv' => \A r \in Rem : sent'[r] \in Nat /\ inserted'[r] \in Nat /\ docs'[r] \in Nat
  BY DEF SchedIInv, TypeOK, TaskTypeOK, CmdTypeOK, RepoTypeOK
<1>6. \A r \in Rem : Left(r) \in {0, 1} /\ Left(r)' \in {0, 1}
  BY DEF Left
<1> QED BY <1>2, <1>3, <1>4, <1>5, <1>6

\* A step keeps the account if what it sends, or may send, is stored or paid for.
LEMMA AccountStep ==
  ASSUME SchedIInv, SchedIInv', Account,
         \A r \in Rem : OneTimeEvent(r) =>
           sent'[r] + Left(r)' + inserted[r] + Failures
             <= sent[r] + Left(r) + inserted'[r] + Failures'
  PROVE  Account'
<1> SUFFICES ASSUME NEW r \in Rem, OneTimeEvent(r)
             PROVE  (sent[r] + Left(r) <= inserted[r] + Failures)'
  BY DEF Account, OneTimeEvent
<1>1. /\ Failures \in Int /\ sent[r] \in Int /\ inserted[r] \in Int /\ Left(r) \in Int
      /\ Failures' \in Int /\ sent'[r] \in Int /\ inserted'[r] \in Int /\ Left(r)' \in Int
  BY AccountTypes
<1>2. sent[r] + Left(r) <= inserted[r] + Failures
  BY DEF Account
<1> QED BY <1>1, <1>2

LEMMA FailuresGrow ==
  ASSUME SchedIInv
  PROVE  /\ UNCHANGED budget => Failures' = Failures
         /\ \A k \in {"submit", "tick"} : Spend(k) => Failures' = Failures
         /\ \A k \in {"fault", "crash"} : Spend(k) => Failures' = Failures + 1
<1>1. budget \in [EventKind -> Nat] /\ Budget \in [EventKind -> Nat]
  BY RemindersAssumption DEF SchedIInv, TypeOK, EnvTypeOK
<1>2. UNCHANGED budget => Failures' = Failures
  BY DEF Failures
<1>3. ASSUME NEW k \in {"submit", "tick"}, Spend(k) PROVE Failures' = Failures
  <2>1. budget'["fault"] = budget["fault"] /\ budget'["crash"] = budget["crash"]
    BY <1>1, <1>3 DEF Spend, EventKind
  <2> QED BY <2>1 DEF Failures
<1>4. ASSUME NEW k \in {"fault", "crash"}, Spend(k) PROVE Failures' = Failures + 1
  <2>1. /\ budget["fault"] \in Int /\ budget["crash"] \in Int
        /\ Budget["fault"] \in Int /\ Budget["crash"] \in Int
    BY <1>1 DEF EventKind
  <2>2. CASE k = "fault"
    <3>1. budget'["fault"] = budget["fault"] - 1 /\ budget'["crash"] = budget["crash"]
      BY <1>1, <1>4, <2>2 DEF Spend, EventKind
    <3> QED BY <2>1, <3>1 DEF Failures
  <2>3. CASE k = "crash"
    <3>1. budget'["fault"] = budget["fault"] /\ budget'["crash"] = budget["crash"] - 1
      BY <1>1, <1>4, <2>3 DEF Spend, EventKind
    <3> QED BY <2>1, <3>1 DEF Failures
  <2> QED BY <2>2, <2>3
<1> QED BY <1>2, <1>3, <1>4

\* A task at "send" or "delete" is the only one that sends or deletes its reminder.
LEMMA SoleSender ==
  ASSUME Context, GotControl, NEW t \in Task, pc[t] \in {"get", "send", "delete"},
         NEW u \in Task, pc[u] \in {"send", "delete"}, got[u].id = TaskId(t)
  PROVE  u = t
<1>1. Working(t) /\ Working(u) /\ TaskId(u) = TaskId(t)
  BY DEF Working, GotControl
<1> QED BY <1>1 DEF Context, OneWorkerPerReminder

----------------------------------------------------------------------------
\* The steps around the tasks.

LEMMA TasksRest ==
  ASSUME UNCHANGED taskVars, GotControl
  PROVE  GotControl' /\ \A r \in Rem : Sending(r)' = Sending(r) /\ Clearing(r)' = Clearing(r)
BY DEF taskVars, GotControl, TaskId, Sending, Clearing

\* Nothing is stored and no task moves: at most a document goes.
LEMMA QuietKeeps ==
  ASSUME Context, SchedIInv', SentIInv, UNCHANGED <<taskVars, inserted>>,
         \A r \in Rem : docs[r] = 0 => docs'[r] = 0,
         Failures' = Failures \/ Failures' = Failures + 1
  PROVE  SentIInv'
<1>1. SchedIInv /\ Account /\ UNCHANGED sent
  BY DEF Context, SentIInv, taskVars
<1>2. GotControl' /\ \A r \in Rem : Sending(r)' = Sending(r) /\ Clearing(r)' = Clearing(r)
  BY TasksRest DEF SentIInv
<1>3. ASSUME NEW r \in Rem
      PROVE  sent'[r] + Left(r)' + inserted[r] + Failures
               <= sent[r] + Left(r) + inserted'[r] + Failures'
  <2>1. /\ Failures \in Int /\ sent[r] \in Int /\ inserted[r] \in Int
        /\ Left(r) \in {0, 1} /\ Left(r)' \in {0, 1}
    BY <1>1, AccountTypes
  <2>2. Left(r)' <= Left(r)
    BY <1>2, <2>1 DEF Left
  <2> QED BY <1>1, <2>1, <2>2
<1> QED BY <1>1, <1>2, <1>3, AccountStep DEF SentIInv

LEMMA DeletionKeepsAbsence ==
  ASSUME SchedIInv, NEW r \in Rem, DeleteOne(r)
  PROVE  \A s \in Rem : docs[s] = 0 => docs'[s] = 0
BY DEF SchedIInv, TypeOK, RepoTypeOK, DeleteOne

LEMMA InsertKeeps ==
  ASSUME Context, SchedIInv', SentIInv, CountInsert, UNCHANGED taskVars,
         Failures' = Failures \/ Failures' = Failures + 1
  PROVE  SentIInv'
<1> DEFINE n == storing[Handler]
<1>1. SchedIInv /\ Account /\ UNCHANGED sent /\ n \in Rem
  BY HandlerAssumption
  DEF Context, SentIInv, taskVars, CountInsert, InsertOne, SchedIInv, TypeOK, RepoTypeOK
<1>2. GotControl' /\ \A r \in Rem : Sending(r)' = Sending(r) /\ Clearing(r)' = Clearing(r)
  BY TasksRest DEF SentIInv
<1>3. ASSUME NEW r \in Rem
      PROVE  sent'[r] + Left(r)' + inserted[r] + Failures
               <= sent[r] + Left(r) + inserted'[r] + Failures'
  <2>1. /\ Failures \in Int /\ sent[r] \in Int /\ inserted[r] \in Int
        /\ Left(r) \in {0, 1} /\ Left(r)' \in {0, 1}
    BY <1>1, AccountTypes
  <2>2. CASE r = n
    <3>1. inserted'[r] = inserted[r] + 1
      BY <1>1, <2>2 DEF CountInsert, SchedIInv, TypeOK, CmdTypeOK
    <3> QED BY <1>1, <2>1, <3>1
  <2>3. CASE r # n
    <3>1. inserted'[r] = inserted[r] /\ docs'[r] = docs[r]
      BY <1>1, <2>3 DEF CountInsert, InsertOne, SchedIInv, TypeOK, CmdTypeOK, RepoTypeOK
    <3>2. Left(r)' = Left(r)
      BY <1>2, <3>1 DEF Left
    <3> QED BY <1>1, <2>1, <3>1, <3>2
  <2> QED BY <2>2, <2>3
<1> QED BY <1>1, <1>2, <1>3, AccountStep DEF SentIInv

LEMMA HandlerKeeps ==
  ASSUME Context, SchedIInv', SentIInv, HandlerStep
  PROVE  SentIInv'
<1>1. UNCHANGED taskVars /\ SchedIInv
  BY HandlerStepFrame DEF taskSide, Context
<1>2. CASE CreateInsert \/ (CreateInsertFails /\ CountInsert)
  BY <1>1, <1>2, InsertKeeps, FailuresGrow DEF CreateInsert, CreateInsertFails
<1>3. CASE CreateInsertFails /\ InsertAborted(Handler) /\ UNCHANGED inserted
  <2>1. UNCHANGED <<docs, inserted>>
    BY <1>3 DEF CreateInsertFails, InsertAborted
  <2>2. Failures' = Failures + 1
    BY <1>1, <1>3, FailuresGrow DEF CreateInsertFails
  <2> QED BY <1>1, <2>1, <2>2, QuietKeeps
<1>4. CASE \E i \in Id : Delete(i) \/ DeleteFails(i)
  <2>1. \A r \in Rem : docs[r] = 0 => docs'[r] = 0
    BY <1>1, <1>4, FoundIn, DeletionKeepsAbsence DEF Delete, DeleteFails, DeleteNone, repoVars
  <2>2. UNCHANGED inserted /\ (Failures' = Failures \/ Failures' = Failures + 1)
    BY <1>1, <1>4, FailuresGrow DEF Delete, DeleteFails
  <2> QED BY <1>1, <2>1, <2>2, QuietKeeps
<1>5. CASE \/ CreateInvalid \/ CreateCheck \/ CreateRefused \/ AddJob \/ AddJobThrows
           \/ Unset \/ DeleteAllDone \/ Commit
  <2>1. UNCHANGED <<docs, inserted>>
    BY <1>5 DEF CreateInvalid, CreateCheck, CreateRefused, StoreCheck, StoreRefused, AddJob,
                AddJobThrows, Unset, DeleteAllDone, Commit, repoVars
  <2>2. UNCHANGED budget \/ Spend("fault")
    BY <1>5 DEF CreateInvalid, CreateCheck, CreateRefused, AddJob, AddJobThrows, Unset,
                DeleteAllDone, Commit
  <2>3. Failures' = Failures \/ Failures' = Failures + 1
    BY <1>1, <2>2, FailuresGrow
  <2> QED BY <1>1, <2>1, <2>3, QuietKeeps
<1> QED BY <1>2, <1>3, <1>4, <1>5 DEF HandlerStep, CreateInsertFails

----------------------------------------------------------------------------
\* The steps of the tasks.

\* Task t, and no other, goes from one state to another without touching the
\* collection, and neither state is one in which it sends or deletes.
LEMMA AsideKeeps ==
  ASSUME Context, SchedIInv', SentIInv, NEW t \in Task,
         pc[t] \notin {"send", "delete"}, pc'[t] \notin {"send", "delete"},
         \A u \in Task : u # t => pc'[u] = pc[u] /\ got'[u] = got[u] /\ ran'[u] = ran[u],
         UNCHANGED <<docs, inserted, sent>>,
         Failures' = Failures \/ Failures' = Failures + 1
  PROVE  SentIInv'
<1>1. GotControl'
  BY DEF SentIInv, GotControl, TaskId
<1>2. ASSUME NEW r \in Rem
      PROVE  sent'[r] + Left(r)' + inserted[r] + Failures
               <= sent[r] + Left(r) + inserted'[r] + Failures'
  <2>1. /\ Failures \in Int /\ sent[r] \in Int /\ inserted[r] \in Int
        /\ Left(r) \in {0, 1} /\ Left(r)' \in {0, 1}
    BY AccountTypes DEF Context
  <2>2. (Sending(r)' <=> Sending(r)) /\ (Clearing(r)' <=> Clearing(r))
    BY DEF Sending, Clearing
  <2>3. Left(r)' = Left(r)
    BY <2>2 DEF Left
  <2> QED BY <2>1, <2>3
<1> QED BY <1>1, <1>2, AccountStep DEF Context, SentIInv

LEMMA GetKeeps ==
  ASSUME Context, SchedIInv', SentIInv, NEW t \in Task, TaskGet(t), UNCHANGED handlerSide
  PROVE  SentIInv'
<1>1. PICK n \in Found(TaskId(t)) :
        got' = [got EXCEPT ![t] = n] /\ Goto(t, IF n.sendable THEN "send" ELSE "release")
  BY DEF TaskGet
<1>2. /\ n \in Rem /\ n.id = TaskId(t) /\ docs[n] # 0
      /\ pc[t] = "get" /\ UNCHANGED <<docs, inserted, sent, ran>>
  BY <1>1 DEF TaskGet, Found, Stored, Context, SchedIInv, TypeOK, RepoTypeOK, repoVars,
              handlerSide, cmdVars
<1>3. /\ got'[t] = n /\ pc'[t] \in {"send", "release"}
      /\ \A u \in Task : u # t => pc'[u] = pc[u] /\ got'[u] = got[u]
  BY <1>1 DEF Goto, Context, SchedIInv, TypeOK, TaskTypeOK
<1>4. GotControl'
  BY <1>2, <1>3 DEF SentIInv, GotControl, TaskId
<1>5. ASSUME NEW r \in Rem
      PROVE  sent'[r] + Left(r)' + inserted[r] + Failures
               <= sent[r] + Left(r) + inserted'[r] + Failures'
  <2>1. /\ Failures \in Int /\ sent[r] \in Int /\ inserted[r] \in Int
        /\ Left(r) \in {0, 1} /\ Left(r)' \in {0, 1} /\ Failures' = Failures
    BY AccountTypes, FailuresGrow DEF Context, TaskGet, envVars
  <2>2. Left(r)' <= Left(r)
    <3>1. CASE r = n
      <4>1. ~Clearing(r)
        BY <1>2, <3>1, SoleSender DEF Clearing, SentIInv
      <4>2. Left(r) = 1
        BY <1>2, <3>1, <4>1 DEF Left
      <4> QED BY <2>1, <4>2
    <3>2. CASE r # n
      <4>1. (Sending(r)' <=> Sending(r)) /\ (Clearing(r)' <=> Clearing(r))
        BY <1>2, <1>3, <3>2 DEF Sending, Clearing
      <4>2. Left(r)' = Left(r)
        BY <1>2, <4>1 DEF Left
      <4> QED BY <2>1, <4>2
    <3> QED BY <3>1, <3>2
  <2> QED BY <1>2, <2>1, <2>2
<1> QED BY <1>4, <1>5, AccountStep DEF Context, SentIInv

LEMMA SendKeeps ==
  ASSUME Context, SchedIInv', SentIInv, NEW t \in Task, TaskSend(t), UNCHANGED handlerSide
  PROVE  SentIInv'
<1> DEFINE n == got[t]
<1>1. /\ pc[t] = "send" /\ n \in Rem /\ n.id = TaskId(t)
      /\ UNCHANGED <<docs, inserted, got, ran>>
      /\ Failures' = Failures
  BY FailuresGrow
  DEF TaskSend, SentIInv, GotControl, Context, repoVars, handlerSide, cmdVars, envVars
<1>2. /\ pc'[t] = AfterSend(n) /\ sent'[n] = sent[n] + 1
      /\ \A u \in Task : u # t => pc'[u] = pc[u]
      /\ \A r \in Rem : r # n => sent'[r] = sent[r]
  BY <1>1 DEF TaskSend, Goto, Context, SchedIInv, TypeOK, TaskTypeOK
<1>3. AfterSend(n) \in {"delete", "release"} /\ (OneTimeEvent(n) => AfterSend(n) = "delete")
  BY DEF AfterSend, OneTimeEvent, ReadAsDate
<1>4. GotControl'
  BY <1>1, <1>2, <1>3 DEF SentIInv, GotControl, TaskId
<1>5. ASSUME NEW r \in Rem, OneTimeEvent(r)
      PROVE  sent'[r] + Left(r)' + inserted[r] + Failures
               <= sent[r] + Left(r) + inserted'[r] + Failures'
  <2>1. /\ Failures \in Int /\ sent[r] \in Int /\ inserted[r] \in Int
        /\ Left(r) \in {0, 1} /\ Left(r)' \in {0, 1}
    BY AccountTypes DEF Context
  <2>2. CASE r = n
    <3>1. Left(r) = 1
      BY <1>1, <2>2 DEF Left, Sending
    <3>2. ~Sending(r)'
      <4> SUFFICES ASSUME NEW u \in Task, pc'[u] = "send", got'[u] = r PROVE FALSE
        BY DEF Sending
      <4>1. u # t /\ pc[u] = "send" /\ got[u] = n
        BY <1>1, <1>2, <1>3, <2>2
      <4> QED BY <1>1, <4>1, SoleSender DEF SentIInv
    <3>3. Clearing(r)'
      BY <1>1, <1>2, <1>3, <1>5, <2>2 DEF Clearing
    <3>4. Left(r)' = 0
      BY <3>2, <3>3 DEF Left
    <3> QED BY <1>1, <1>2, <2>1, <2>2, <3>1, <3>4
  <2>3. CASE r # n
    <3>1. (Sending(r)' <=> Sending(r)) /\ (Clearing(r)' <=> Clearing(r))
      BY <1>1, <1>2, <2>3 DEF Sending, Clearing
    <3>2. Left(r)' = Left(r)
      BY <1>1, <3>1 DEF Left
    <3> QED BY <1>1, <1>2, <2>1, <2>3, <3>2
  <2> QED BY <2>2, <2>3
<1> QED BY <1>4, <1>5, AccountStep DEF Context, SentIInv

LEMMA SendFailsKeeps ==
  ASSUME Context, SchedIInv', SentIInv, NEW t \in Task, TaskSendFails(t), UNCHANGED handlerSide
  PROVE  SentIInv'
<1> DEFINE n == got[t]
<1>1. /\ pc[t] = "send" /\ n \in Rem
      /\ UNCHANGED <<docs, inserted, got, ran>>
      /\ Failures' = Failures + 1
  BY FailuresGrow
  DEF TaskSendFails, SentIInv, GotControl, Context, repoVars, handlerSide, cmdVars
<1>2. /\ pc'[t] = "release" /\ sent'[n] \in {sent[n], sent[n] + 1}
      /\ \A u \in Task : u # t => pc'[u] = pc[u]
      /\ \A r \in Rem : r # n => sent'[r] = sent[r]
  BY <1>1 DEF TaskSendFails, Goto, Context, SchedIInv, TypeOK, TaskTypeOK
<1>3. GotControl'
  BY <1>1, <1>2 DEF SentIInv, GotControl, TaskId
<1>4. ASSUME NEW r \in Rem
      PROVE  sent'[r] + Left(r)' + inserted[r] + Failures
               <= sent[r] + Left(r) + inserted'[r] + Failures'
  <2>1. /\ Failures \in Int /\ sent[r] \in Int /\ inserted[r] \in Int
        /\ Left(r) \in {0, 1} /\ Left(r)' \in {0, 1}
    BY AccountTypes DEF Context
  <2>2. CASE r = n
    <3>1. Left(r) = 1
      BY <1>1, <2>2 DEF Left, Sending
    <3> QED BY <1>1, <1>2, <2>1, <2>2, <3>1
  <2>3. CASE r # n
    BY <1>1, <1>2, <2>1, <2>3
  <2> QED BY <2>2, <2>3
<1> QED BY <1>3, <1>4, AccountStep DEF Context, SentIInv

\* After the deletion the reminder that was sent is not stored, unless the
\* deletion failed.
LEMMA DeleteKeeps ==
  ASSUME Context, SchedIInv', SentIInv, NEW t \in Task,
         TaskDelete(t) \/ TaskDeleteFails(t), UNCHANGED handlerSide
  PROVE  SentIInv'
<1> DEFINE n == got[t]
<1>1. /\ pc[t] = "delete" /\ n \in Rem /\ n.id = TaskId(t)
      /\ UNCHANGED <<inserted, got, ran, sent>>
  BY DEF TaskDelete, TaskDeleteFails, SentIInv, GotControl, handlerSide, cmdVars
<1>2. /\ pc'[t] \in {"unset", "release"}
      /\ \A u \in Task : u # t => pc'[u] = pc[u]
  BY DEF TaskDelete, TaskDeleteFails, Goto, Context, SchedIInv, TypeOK, TaskTypeOK
<1>3. GotControl'
  BY <1>1, <1>2 DEF SentIInv, GotControl, TaskId
<1>4. \A r \in Rem : docs[r] = 0 => docs'[r] = 0
  BY FoundIn, DeletionKeepsAbsence DEF TaskDelete, TaskDeleteFails, DeleteNone, repoVars, Context
<1>5. Failures' = Failures + 1 \/ (Failures' = Failures /\ docs'[n] = 0)
  <2>1. CASE Spend("fault")
    BY <2>1, FailuresGrow DEF Context
  <2>2. CASE \E r \in Found(TaskId(t)) : DeleteOne(r) /\ UNCHANGED budget
    <3>1. PICK r \in Found(TaskId(t)) : DeleteOne(r)
      BY <2>2
    <3>2. r \in Rem /\ r \in Stored /\ r.id = n.id /\ docs[r] = 1 /\ docs'[r] = 0
      BY <1>1, <3>1
      DEF Found, Stored, DeleteOne, Context, RepoIInv, OneDocPerId, RepoTypeOK
    <3>3. docs[n] # 0 => n \in Stored
      BY <1>1 DEF Stored, Context, RepoIInv, RepoTypeOK
    <3>4. docs[n] # 0 => n = r
      BY <3>2, <3>3 DEF Context, RepoIInv, OneDocPerId
    <3>5. docs'[n] = 0
      BY <1>1, <1>4, <3>2, <3>4
    <3> QED BY <2>2, <3>5, FailuresGrow DEF Context
  <2>3. CASE DeleteNone(TaskId(t)) /\ UNCHANGED budget
    <3>1. docs[n] = 0
      BY <1>1, <2>3 DEF DeleteNone, Found, Stored, Context, RepoIInv, RepoTypeOK
    <3> QED BY <1>1, <1>4, <2>3, <3>1, FailuresGrow DEF Context
  <2> QED BY <2>1, <2>2, <2>3 DEF TaskDelete, TaskDeleteFails, envVars
<1>6. ASSUME NEW r \in Rem
      PROVE  sent'[r] + Left(r)' + inserted[r] + Failures
               <= sent[r] + Left(r) + inserted'[r] + Failures'
  <2>1. /\ Failures \in Int /\ sent[r] \in Int /\ inserted[r] \in Int
        /\ Left(r) \in {0, 1} /\ Left(r)' \in {0, 1}
    BY AccountTypes DEF Context
  <2>2. CASE Failures' = Failures + 1
    BY <1>1, <2>1, <2>2
  <2>3. CASE Failures' = Failures /\ docs'[n] = 0
    <3>1. Left(r)' <= Left(r)
      <4>1. CASE r = n
        <5>1. ~Sending(r)'
          <6> SUFFICES ASSUME NEW u \in Task, pc'[u] = "send", got'[u] = r PROVE FALSE
            BY DEF Sending
          <6>1. u # t /\ pc[u] = "send" /\ got[u] = n
            BY <1>1, <1>2, <4>1
          <6> QED BY <1>1, <6>1, SoleSender DEF SentIInv
        <5>2. Left(r)' = 0
          BY <2>3, <4>1, <5>1 DEF Left
        <5> QED BY <2>1, <5>2
      <4>2. CASE r # n
        <5>1. (Sending(r)' <=> Sending(r)) /\ (Clearing(r)' <=> Clearing(r))
          BY <1>1, <1>2, <4>2 DEF Sending, Clearing
        <5> QED BY <1>4, <2>1, <5>1 DEF Left
      <4> QED BY <4>1, <4>2
    <3> QED BY <1>1, <2>1, <2>3, <3>1
  <2> QED BY <1>5, <2>2, <2>3
<1> QED BY <1>3, <1>6, AccountStep DEF Context, SentIInv

LEMMA FinishRests ==
  ASSUME SchedIInv, NEW t \in Task, Finish(t)
  PROVE  /\ pc'[t] = "idle" /\ UNCHANGED sent
         /\ \A u \in Task : u # t => pc'[u] = pc[u] /\ got'[u] = got[u] /\ ran'[u] = ran[u]
BY DEF SchedIInv, TypeOK, TaskTypeOK, Finish, Goto

\* A step that counts at most one failure.
LEMMA StepFailures ==
  ASSUME SchedIInv, UNCHANGED budget \/ Spend("fault") \/ Spend("crash") \/ Spend("tick")
  PROVE  Failures' = Failures \/ Failures' = Failures + 1
BY FailuresGrow

LEMMA TaskStepKeeps ==
  ASSUME Context, SchedIInv', SentIInv, NEW t \in Task, TaskStep(t), UNCHANGED handlerSide
  PROVE  SentIInv'
<1>1. SchedIInv /\ UNCHANGED inserted
  BY DEF Context, handlerSide, cmdVars
<1>2. CASE TaskGet(t) \/ TaskSend(t) \/ TaskSendFails(t) \/ TaskDelete(t) \/ TaskDeleteFails(t)
  BY <1>2, GetKeeps, SendKeeps, SendFailsKeeps, DeleteKeeps
<1>3. CASE TaskGiveUp(t) \/ TaskRelease(t)
  <2>1. pc[t] \in {"acquire", "release"} /\ Finish(t) /\ UNCHANGED docs
        /\ (UNCHANGED budget \/ Spend("fault"))
    BY <1>3 DEF TaskGiveUp, TaskRelease, repoVars, envVars
  <2>2. Failures' = Failures \/ Failures' = Failures + 1
    BY <1>1, <2>1, StepFailures
  <2> QED BY <1>1, <2>1, <2>2, FinishRests, AsideKeeps
<1>4. CASE TaskAcquire(t) \/ TaskGetNothing(t) \/ TaskUnset(t)
  <2>1. /\ pc[t] \in {"acquire", "get", "unset"}
        /\ Goto(t, "get") \/ Goto(t, "release")
        /\ UNCHANGED <<docs, sent, ran, got>>
        /\ UNCHANGED budget \/ Spend("fault")
    BY <1>4 DEF TaskAcquire, TaskGetNothing, TaskUnset, repoVars, envVars
  <2>2. pc'[t] \in {"get", "release"} /\ \A u \in Task : u # t => pc'[u] = pc[u]
    BY <1>1, <2>1 DEF Goto, SchedIInv, TypeOK, TaskTypeOK
  <2>3. Failures' = Failures \/ Failures' = Failures + 1
    BY <1>1, <2>1, StepFailures
  <2> QED BY <1>1, <2>1, <2>2, <2>3, AsideKeeps
<1> QED BY <1>2, <1>3, <1>4 DEF TaskStep

LEMMA FireKeeps ==
  ASSUME Context, SchedIInv', SentIInv, NEW t \in Task, NEW j \in Job, Fire(t, j),
         UNCHANGED handlerSide
  PROVE  SentIInv'
<1>1. SchedIInv /\ UNCHANGED inserted
  BY DEF Context, handlerSide, cmdVars
<1>2. /\ pc[t] = "idle" /\ Goto(t, "acquire") /\ ran' = [ran EXCEPT ![t] = j]
      /\ UNCHANGED <<docs, sent, got>>
      /\ UNCHANGED budget \/ Spend("tick")
  BY DEF Fire, repoVars, envVars
<1>3. /\ pc'[t] = "acquire"
      /\ \A u \in Task : u # t => pc'[u] = pc[u] /\ ran'[u] = ran[u]
  BY <1>1, <1>2 DEF Goto, SchedIInv, TypeOK, TaskTypeOK
<1>4. Failures' = Failures \/ Failures' = Failures + 1
  BY <1>1, <1>2, StepFailures
<1> QED BY <1>1, <1>2, <1>3, <1>4, AsideKeeps

\* What a process was sending when it ended may go out once more.
LEMMA EndKeeps ==
  ASSUME Context, SchedIInv', SentIInv, NEW p \in Proc, ProcessEnds(p), Spend("crash")
  PROVE  SentIInv'
<1>1. /\ SchedIInv /\ UNCHANGED <<docs, sent, inserted>> /\ Failures' = Failures + 1
  BY FailuresGrow DEF Context, ProcessEnds
<1>2. \A t \in Task : pc'[t] # "idle" => pc'[t] = pc[t] /\ got'[t] = got[t] /\ ran'[t] = ran[t]
  BY DEF ProcessEnds
<1>3. GotControl'
  BY <1>2 DEF SentIInv, GotControl, TaskId
<1>4. ASSUME NEW r \in Rem
      PROVE  sent'[r] + Left(r)' + inserted[r] + Failures
               <= sent[r] + Left(r) + inserted'[r] + Failures'
  <2>1. /\ Failures \in Int /\ sent[r] \in Int /\ inserted[r] \in Int
        /\ Left(r) \in {0, 1} /\ Left(r)' \in {0, 1}
    BY <1>1, AccountTypes
  <2> QED BY <1>1, <2>1
<1> QED BY <1>1, <1>3, <1>4, AccountStep DEF SentIInv

\* Within the locks' time to live a process ends by a release only if Redis fails.
LEMMA ThrowIsCrash ==
  ASSUME SchedIInv, LockIInv, NEW t \in Task, ReleaseThrows(t)
  PROVE  ProcOf[t] \in Proc /\ ProcessEnds(ProcOf[t]) /\ Spend("crash")
BY NoRejection, LockAssumption DEF ReleaseThrows

LEMMA NextKeeps ==
  ASSUME Context, SchedIInv', SentIInv, [Next]_vars
  PROVE  SentIInv'
<1>1. SchedIInv /\ LockIInv
  BY DEF Context
<1>2. CASE \E c \in Request : Submit(c)
  <2>1. UNCHANGED <<taskVars, docs, inserted>> /\ Failures' = Failures
    BY <1>1, <1>2, FailuresGrow DEF Submit, taskSide, repoVars
  <2> QED BY <2>1, QuietKeeps
<1>3. CASE HandlerStep
  BY <1>3, HandlerKeeps
<1>4. CASE \E t \in Task, j \in Job : Fire(t, j) /\ UNCHANGED handlerSide
  BY <1>4, FireKeeps
<1>5. CASE \E t \in Task : TaskStep(t) /\ UNCHANGED handlerSide
  BY <1>5, TaskStepKeeps
<1>6. CASE \E t \in Task : ReleaseThrows(t)
  BY <1>1, <1>6, ThrowIsCrash, EndKeeps
<1>7. CASE \E p \in Proc : Crash(p)
  BY <1>7, EndKeeps DEF Crash
<1>8. CASE \/ \E i \in Id : KeyExpires(i)
           \/ \E r \in Rem : /\ TimePasses(r)
                             /\ UNCHANGED <<cronVars, lockVars, repoVars, taskVars, handlerSide>>
           \/ StartHandler
           \/ \E p \in Proc : StartApi(p) \/ InitJobs(p) \/ InitFails(p)
           \/ UNCHANGED vars
  <2>1. UNCHANGED <<taskVars, docs, inserted, budget>>
    BY <1>8 DEF KeyExpires, TimePasses, StartHandler, StartApi, InitJobs, InitFails, vars,
                repoVars, handlerSide, cmdVars, envVars
  <2>2. Failures' = Failures
    BY <1>1, <2>1, FailuresGrow
  <2> QED BY <2>1, <2>2, QuietKeeps
<1> QED BY <1>2, <1>3, <1>4, <1>5, <1>6, <1>7, <1>8 DEF Next

LEMMA SentInit == Init => SentIInv
<1> SUFFICES ASSUME Init PROVE SentIInv
  OBVIOUS
<1>1. SchedIInv /\ \A t \in Task : pc[t] = "idle"
  BY SchedInit DEF Init, TaskInit
<1>2. GotControl
  BY <1>1 DEF GotControl
<1>3. Failures = 0
  <2>1. Budget["fault"] \in Int /\ Budget["crash"] \in Int /\ budget = Budget
    BY RemindersAssumption DEF EventKind, Init, EnvInit
  <2> QED BY <2>1 DEF Failures
<1>4. \A r \in Rem : sent[r] = 0 /\ inserted[r] = 0 /\ docs[r] = 0
  BY DEF Init, TaskInit, CmdInit, RepoInit
<1>5. \A r \in Rem : Left(r) = 0
  BY <1>1, <1>4 DEF Left, Sending
<1> QED BY <1>2, <1>3, <1>4, <1>5 DEF SentIInv, Account

----------------------------------------------------------------------------
LEMMA SystemInContext ==
  ASSUME Overrun = FALSE
  PROVE  Spec => [](Context /\ SentIInv)
<1>1. Spec => []SchedIInv
  <2>1. Init => SchedIInv
    BY SchedInit
  <2>2. SchedIInv /\ [Next]_vars => SchedIInv'
    BY NextPreserves
  <2> QED BY <2>1, <2>2, PTL DEF Spec
<1>2. Spec => []RepoIInv
  BY SystemIsOneStorer, PTL
<1>3. Spec => []LockIInv
  BY SystemRunsLocks, ReleaseAlwaysSucceeds, PTL DEF LockIInv
<1>4. Init => SentIInv
  BY SentInit
<1>5. Context /\ SchedIInv' /\ SentIInv /\ [Next]_vars => SentIInv'
  BY NextKeeps
<1>6. SchedIInv /\ RepoIInv /\ LockIInv /\ OneWorkerPerReminder => Context
  BY DEF Context
<1> QED BY OneWorker, <1>1, <1>2, <1>3, <1>4, <1>5, <1>6, PTL DEF Spec

\* sendEvent() notifies a one-time reminder once for every time it was stored: for
\* any number of processes that fire it, of tasks, reminders and commands, only a
\* failed call or a crash adds a notification, as long as tasks stay within the
\* lock's time to live.
THEOREM EventsGoOncePerStore ==
  ASSUME Overrun = FALSE
  PROVE  Spec => []SentOncePerStore
<1>1. Context /\ SentIInv => SentOncePerStore
  <2> SUFFICES ASSUME Context, SentIInv, NEW r \in Rem, OneTimeEvent(r)
               PROVE  sent[r] <= inserted[r] + Failures
    BY DEF SentOncePerStore
  <2>1. sent[r] + Left(r) <= inserted[r] + Failures
    BY DEF SentIInv, Account
  <2>2. /\ Failures \in Int /\ sent[r] \in Int /\ inserted[r] \in Int /\ Left(r) \in {0, 1}
    BY AccountTypes DEF Context
  <2> QED BY <2>1, <2>2
<1> QED BY <1>1, SystemInContext, PTL

----------------------------------------------------------------------------
\* Deletions follow sends.

\* A task that deletes, in the collection and in the Map, has sent.
SentFirst ==
  \A t \in Task :
    /\ pc[t] = "send" => got[t] \in Rem /\ got[t].id = TaskId(t)
    /\ pc[t] \in {"delete", "unset"} => EventSent(TaskId(t))

LEMMA SendsAddUp ==
  ASSUME SchedIInv, [Next]_vars
  PROVE  \A q \in Rem : sent[q] > 0 => sent'[q] > 0
<1>1. sent \in [Rem -> Nat]
  BY DEF SchedIInv, TypeOK, TaskTypeOK
<1>2. CASE UNCHANGED sent
  BY <1>2
<1>3. CASE \E t \in Task : TaskSend(t) \/ TaskSendFails(t)
  <2>1. UNCHANGED sent \/ \E r : sent' = [sent EXCEPT ![r] = @ + 1]
    BY <1>3 DEF TaskSend, TaskSendFails
  <2> QED BY <1>1, <2>1
<1>4. CASE HandlerStep
  BY <1>2, <1>4, HandlerStepFrame DEF taskSide, taskVars
<1>5. CASE \E t \in Task : TaskStep(t)
  BY <1>2, <1>3, <1>5 DEF TaskStep, TaskAcquire, TaskGiveUp, TaskGet, TaskGetNothing,
     TaskDelete, TaskDeleteFails, TaskUnset, TaskRelease, Finish
<1>6. CASE ~HandlerStep /\ ~\E t \in Task : TaskStep(t)
  BY <1>2, <1>6
  DEF Next, Submit, taskSide, taskVars, Fire, ReleaseThrows, KeyExpires, StartHandler,
      StartApi, InitJobs, InitFails, Crash, ProcessEnds, vars
<1> QED BY <1>4, <1>5, <1>6

LEMMA SentFirstStep ==
  ASSUME SchedIInv, SentFirst, [Next]_vars
  PROVE  SentFirst'
<1> SUFFICES ASSUME NEW t \in Task
             PROVE  /\ pc'[t] = "send" => got'[t] \in Rem /\ got'[t].id = TaskId(t)'
                    /\ pc'[t] \in {"delete", "unset"} => EventSent(TaskId(t))'
  BY DEF SentFirst
<1> DEFINE Goal == /\ pc'[t] = "send" => got'[t] \in Rem /\ got'[t].id = TaskId(t)'
                   /\ pc'[t] \in {"delete", "unset"} => EventSent(TaskId(t))'
<1>1. \A q \in Rem : sent[q] > 0 => sent'[q] > 0
  BY SendsAddUp
<1>2. ASSUME pc'[t] = pc[t], got'[t] = got[t], ran'[t] = ran[t] PROVE Goal
  <2>1. TaskId(t)' = TaskId(t)
    BY <1>2 DEF TaskId
  <2> QED BY <1>1, <1>2, <2>1 DEF SentFirst, EventSent
<1>3. ASSUME pc'[t] \notin {"send", "delete", "unset"} PROVE Goal
  BY <1>3
<1>4. /\ pc \in [Task -> Step] /\ got \in [Task -> Rem \cup {None}] /\ sent \in [Rem -> Nat]
      /\ ran \in [Task -> Job \cup {None}]
  BY DEF SchedIInv, TypeOK, TaskTypeOK
<1>5. CASE UNCHANGED taskVars
  BY <1>2, <1>5 DEF taskVars
<1>6. CASE HandlerStep
  BY <1>5, <1>6, HandlerStepFrame DEF taskSide
<1>7. ASSUME NEW u \in Task, TaskStep(u) PROVE Goal
  <2>1. CASE u # t
    BY <1>2, <1>4, <1>7, <2>1
    DEF TaskStep, TaskAcquire, TaskGiveUp, TaskGet, TaskGetNothing, TaskSend, TaskSendFails,
        TaskDelete, TaskDeleteFails, TaskUnset, TaskRelease, Finish, Goto
  <2>2. CASE u = t /\ TaskGet(t)
    <3>1. PICK r \in Found(TaskId(t)) : got' = [got EXCEPT ![t] = r]
      BY <2>2 DEF TaskGet
    <3>2. got'[t] = r /\ r \in Rem /\ r.id = TaskId(t)
      BY <1>4, <3>1, FoundIn
    <3>3. pc'[t] \in {"send", "release"} /\ TaskId(t)' = TaskId(t)
      BY <1>4, <2>2 DEF TaskGet, Goto, TaskId
    <3> QED BY <3>2, <3>3
  <2>3. CASE u = t /\ TaskSend(t)
    <3>1. /\ got[t] \in Rem /\ got[t].id = TaskId(t) /\ TaskId(t)' = TaskId(t)
          /\ pc'[t] = AfterSend(got[t]) /\ sent' = [sent EXCEPT ![got[t]] = @ + 1]
      BY <1>4, <2>3 DEF TaskSend, Goto, SentFirst, TaskId
    <3>2. sent'[got[t]] > 0
      BY <1>4, <3>1
    <3>3. pc'[t] = "delete" => got[t].task = "EVENT" /\ ReadAsDate(got[t])
      BY <3>1 DEF AfterSend
    <3>4. pc'[t] \in {"delete", "release"}
      BY <3>1 DEF AfterSend
    <3> QED BY <3>1, <3>2, <3>3, <3>4 DEF EventSent
  <2>4. CASE u = t /\ TaskDelete(t)
    <3>1. pc[t] = "delete" /\ pc'[t] = "unset" /\ TaskId(t)' = TaskId(t)
      BY <1>4, <2>4 DEF TaskDelete, Goto, TaskId
    <3>2. EventSent(TaskId(t))
      BY <3>1 DEF SentFirst
    <3>3. EventSent(TaskId(t))'
      BY <1>1, <3>1, <3>2 DEF EventSent
    <3> QED BY <3>1, <3>3
  <2>5. CASE u = t /\ ~TaskGet(t) /\ ~TaskSend(t) /\ ~TaskDelete(t)
    BY <1>3, <1>4, <1>7, <2>5
    DEF TaskStep, TaskAcquire, TaskGiveUp, TaskGetNothing, TaskSendFails,
        TaskDeleteFails, TaskUnset, TaskRelease, Finish, Goto
  <2> QED BY <2>1, <2>2, <2>3, <2>4, <2>5
<1>8. ASSUME NEW u \in Task, NEW j \in Job, Fire(u, j) PROVE Goal
  <2>1. CASE u = t
    BY <1>3, <1>4, <1>8, <2>1 DEF Fire, Goto
  <2>2. CASE u # t
    BY <1>2, <1>4, <1>8, <2>2 DEF Fire, Goto
  <2> QED BY <2>1, <2>2
<1>9. ASSUME NEW p \in Proc, ProcessEnds(p) PROVE Goal
  BY <1>2, <1>3, <1>9 DEF ProcessEnds
<1>10. CASE (\E p \in Proc : Crash(p)) \/ \E u \in Task : ReleaseThrows(u)
  BY <1>9, <1>10, LockAssumption DEF Crash, ReleaseThrows
<1>11. CASE \/ \E c \in Request : Submit(c)
            \/ \E i \in Id : KeyExpires(i)
            \/ \E r \in Rem : /\ TimePasses(r)
                              /\ UNCHANGED <<cronVars, lockVars, repoVars, taskVars, handlerSide>>
            \/ StartHandler
            \/ \E p \in Proc : StartApi(p) \/ InitJobs(p) \/ InitFails(p)
            \/ UNCHANGED vars
  BY <1>5, <1>11 DEF Submit, taskSide, KeyExpires, StartHandler, StartApi, InitJobs,
                     InitFails, vars
<1> QED BY <1>6, <1>7, <1>8, <1>10, <1>11 DEF Next

\* What a step removes, it removes by the deletion in hand or after a send.
LEMMA RemovalStep ==
  ASSUME SchedIInv, SentFirst, [Next]_vars, NEW r \in Rem, docs'[r] < docs[r]
  PROVE  \/ Handling({"delete", "deleteAll"}) /\ r.id \in Targets
         \/ EventSent(r.id)
<1> DEFINE Goal == (Handling({"delete", "deleteAll"}) /\ r.id \in Targets) \/ EventSent(r.id)
<1>1. docs \in [Rem -> Nat]
  BY DEF SchedIInv, TypeOK, RepoTypeOK
<1>2. ASSUME NEW i, (\E q \in Found(i) : DeleteOne(q)) \/ DeleteNone(i) \/ UNCHANGED repoVars
      PROVE  r.id = i
  <2>1. CASE \E q \in Found(i) : DeleteOne(q)
    <3>1. PICK q \in Found(i) : docs' = [docs EXCEPT ![q] = @ - 1]
      BY <2>1 DEF DeleteOne
    <3>2. q = r
      BY <1>1, <3>1, FoundIn
    <3> QED BY <3>2, FoundIn
  <2>2. CASE DeleteNone(i) \/ UNCHANGED repoVars
    BY <1>1, <2>2 DEF DeleteNone, repoVars
  <2> QED BY <1>2, <2>1, <2>2
<1>3. CASE UNCHANGED docs
  BY <1>1, <1>3
<1>4. ASSUME NEW i \in Id, Delete(i) \/ DeleteFails(i) PROVE Goal
  <2>1. r.id = i
    BY <1>2, <1>4 DEF Delete, DeleteFails
  <2> QED BY <1>4, <2>1 DEF Delete, DeleteFails
<1>5. CASE CreateInsert \/ CreateInsertFails
  <2>1. UNCHANGED docs \/ \E q : docs' = [docs EXCEPT ![q] = @ + 1]
    BY <1>5 DEF CreateInsert, CreateInsertFails, CountInsert, InsertOne, InsertAborted
  <2> QED BY <1>1, <2>1
<1>6. CASE HandlerStep
  <2>1. CASE \/ CreateInvalid \/ CreateCheck \/ CreateRefused \/ AddJob \/ AddJobThrows
             \/ Unset \/ DeleteAllDone \/ Commit
    BY <1>3, <2>1 DEF CreateInvalid, CreateCheck, CreateRefused, StoreCheck, StoreRefused,
       AddJob, AddJobThrows, Unset, DeleteAllDone, Commit, repoVars
  <2> QED BY <1>4, <1>5, <1>6, <2>1 DEF HandlerStep
<1>7. ASSUME NEW t \in Task, TaskStep(t) PROVE Goal
  <2>1. CASE TaskDelete(t) \/ TaskDeleteFails(t)
    <3>1. r.id = TaskId(t) /\ pc[t] = "delete"
      BY <1>2, <2>1 DEF TaskDelete, TaskDeleteFails
    <3> QED BY <3>1 DEF SentFirst
  <2>2. CASE ~TaskDelete(t) /\ ~TaskDeleteFails(t)
    BY <1>3, <1>7, <2>2 DEF TaskStep, TaskAcquire, TaskGiveUp, TaskGet, TaskGetNothing,
       TaskSend, TaskSendFails, TaskUnset, TaskRelease, repoVars
  <2> QED BY <2>1, <2>2
<1>8. CASE ~HandlerStep /\ ~\E t \in Task : TaskStep(t)
  BY <1>3, <1>8 DEF Next, Submit, Fire, ReleaseThrows, KeyExpires, StartHandler, StartApi,
     InitJobs, InitFails, Crash, ProcessEnds, repoVars, vars
<1> QED BY <1>6, <1>7, <1>8

\* No reminder is lost to a task that has not sent: for any processes, commands,
\* failures and crashes, and even if tasks outlive their locks, a reminder that
\* disappears was deleted by the command in hand, or comes after an event under its
\* id has gone out.
THEOREM RemovalsFollowSends == Spec => RemovedOnceSent
<1>1. Init => SchedIInv /\ SentFirst
  BY SchedInit DEF Init, TaskInit, SentFirst
<1>2. SchedIInv /\ SentFirst /\ [Next]_vars => SchedIInv' /\ SentFirst'
  BY NextPreserves, SentFirstStep
<1>3. SchedIInv /\ SentFirst /\ [Next]_vars =>
        [\A r \in Rem : docs'[r] < docs[r] =>
           \/ Handling({"delete", "deleteAll"}) /\ r.id \in Targets
           \/ EventSent(r.id)]_vars
  BY RemovalStep
<1> QED BY <1>1, <1>2, <1>3, PTL DEF Spec, RemovedOnceSent

----------------------------------------------------------------------------
\* The timers of the command handler.

Armed(i) == {j \in timers[Handler] : j.rem.id = i}
Entry(i) == {jobs[Handler][i]} \ {None}

\* The command in hand has stored the reminder i and not yet made its job, or has
\* deleted the reminder i and not yet removed its job.
Owed(i) == hpc = "job" /\ Head(topic).rem.id = i
Doomed(i) == hpc = "unset" /\ victim = i

Match(i) ==
  /\ Armed(i) \subseteq Entry(i)
  /\ Owed(i) => Entry(i) = {} /\ Found(i) = {Head(topic).rem}
  /\ Doomed(i) => Found(i) = {}
  /\ ~Owed(i) /\ ~Doomed(i) =>
       /\ \A j \in Entry(i) : j.rem \in Found(i)
       /\ \A r \in Found(i) : Awaited(r) => \E j \in Armed(i) : j.rem = r

Matched == Failures = 0 => \A i \in Id : ~EventSent(i) => Match(i)

\* The command handler loads nothing; failures are counted; what is checked is
\* what is inserted; the Map goes by id.
Steady ==
  /\ mode[Handler] # "starting"
  /\ \A k \in EventKind : budget[k] <= Budget[k]
  /\ hpc = "insert" => storing[Handler] = Head(topic).rem
  /\ \A i \in Id : jobs[Handler][i] # None => jobs[Handler][i].rem.id = i

LEMMA StepSpends ==
  ASSUME [Next]_vars
  PROVE  UNCHANGED budget \/ \E k \in EventKind : Spend(k)
<1> USE DEF EventKind, envVars
<1>1. CASE HandlerStep \/ \E c \in Request : Submit(c)
  BY <1>1 DEF HandlerStep, CreateInvalid, CreateCheck, CreateRefused, CreateInsert,
              CreateInsertFails, AddJob, AddJobThrows, Delete, DeleteFails, Unset,
              DeleteAllDone, Commit, Submit
<1>2. CASE \E t \in Task, j \in Job : Fire(t, j) /\ UNCHANGED handlerSide
  BY <1>2 DEF Fire
<1>3. CASE \E t \in Task : TaskStep(t) /\ UNCHANGED handlerSide
  BY <1>3 DEF TaskStep, TaskAcquire, TaskGiveUp, TaskGet, TaskGetNothing, TaskSend,
              TaskSendFails, TaskDelete, TaskDeleteFails, TaskUnset, TaskRelease
<1>4. CASE \/ \E t \in Task : ReleaseThrows(t)
           \/ \E i \in Id : KeyExpires(i)
           \/ \E r \in Rem : /\ TimePasses(r)
                             /\ UNCHANGED <<cronVars, lockVars, repoVars, taskVars, handlerSide>>
           \/ StartHandler
           \/ \E p \in Proc : StartApi(p) \/ InitJobs(p) \/ InitFails(p) \/ Crash(p)
           \/ UNCHANGED vars
  BY <1>4 DEF ReleaseThrows, KeyExpires, TimePasses, StartHandler, StartApi, InitJobs,
              InitFails, Crash, vars
<1> QED BY <1>1, <1>2, <1>3, <1>4 DEF Next

\* As long as nothing has failed, nothing fails in the step either.
LEMMA CleanStep ==
  ASSUME SchedIInv, Steady, [Next]_vars, Failures' = 0
  PROVE  Failures = 0 /\ ~Spend("fault") /\ ~Spend("crash")
<1>1. Failures \in Int /\ Failures >= 0
  <2>1. /\ "fault" \in EventKind /\ "crash" \in EventKind
        /\ budget \in [EventKind -> Nat] /\ Budget \in [EventKind -> Nat]
    BY RemindersAssumption DEF EventKind, SchedIInv, TypeOK, EnvTypeOK
  <2>2. /\ budget["fault"] \in Int /\ Budget["fault"] \in Int
        /\ budget["crash"] \in Int /\ Budget["crash"] \in Int
        /\ budget["fault"] <= Budget["fault"] /\ budget["crash"] <= Budget["crash"]
    BY <2>1 DEF Steady
  <2> QED BY <2>2 DEF Failures
<1>2. \A k \in {"fault", "crash"} : ~Spend(k)
  BY <1>1, FailuresGrow
<1>3. Failures' = Failures
  BY <1>2, StepSpends, FailuresGrow DEF EventKind
<1> QED BY <1>2, <1>3

LEMMA SteadyInit == Init => Steady /\ Matched
<1> SUFFICES ASSUME Init PROVE Steady /\ Matched
  OBVIOUS
<1>1. /\ mode[Handler] = "down" /\ hpc = "idle" /\ budget = Budget
      /\ \A t \in Task : pc[t] = "idle"
      /\ timers[Handler] = {} /\ \A i \in Id : jobs[Handler][i] = None
      /\ Budget \in [EventKind -> Nat]
  BY HandlerAssumption, RemindersAssumption
  DEF Init, CmdInit, EnvInit, TaskInit, CronInit, NoJobs
<1>2. Stored = {}
  BY DEF Init, RepoInit, Stored
<1>3. Steady
  BY <1>1 DEF Steady
<1>4. Matched
  BY <1>1, <1>2 DEF Matched, Match, Armed, Entry, Owed, Doomed, Found
<1> QED BY <1>3, <1>4

\* Whoever spends, the budgets only shrink.
LEMMA BudgetShrinks ==
  ASSUME SchedIInv, Steady, [Next]_vars
  PROVE  \A k \in EventKind : budget'[k] <= Budget[k]
<1>1. budget \in [EventKind -> Nat] /\ Budget \in [EventKind -> Nat]
  BY RemindersAssumption DEF SchedIInv, TypeOK, EnvTypeOK
<1>2. CASE UNCHANGED budget
  BY <1>2 DEF Steady
<1>3. ASSUME NEW s \in EventKind, Spend(s) PROVE \A k \in EventKind : budget'[k] <= Budget[k]
  <2> SUFFICES ASSUME NEW k \in EventKind PROVE budget'[k] <= Budget[k]
    OBVIOUS
  <2>1. budget[k] \in Nat /\ Budget[k] \in Nat /\ budget[k] <= Budget[k]
    BY <1>1 DEF Steady
  <2>2. budget'[k] = budget[k] \/ budget'[k] = budget[k] - 1
    BY <1>1, <1>3 DEF Spend
  <2> QED BY <2>1, <2>2
<1> QED BY <1>2, <1>3, StepSpends

LEMMA ModeSteady ==
  ASSUME SchedIInv, Steady, [Next]_vars
  PROVE  mode'[Handler] # "starting"
<1> USE HandlerAssumption, LockAssumption DEF SchedIInv, TypeOK, CmdTypeOK
<1>1. CASE HandlerStep \/ \E c \in Request : Submit(c)
  BY <1>1, HandlerStepFrame DEF Submit, taskSide, lifeVars, Steady
<1>2. CASE \E p \in Proc : StartApi(p) \/ InitJobs(p) \/ InitFails(p) \/ Crash(p)
  BY <1>2 DEF StartApi, InitJobs, InitFails, Crash, ProcessEnds, Steady
<1>3. CASE StartHandler \/ \E t \in Task : ReleaseThrows(t)
  BY <1>3 DEF StartHandler, ReleaseThrows, ProcessEnds, Steady
<1>4. CASE \/ \E t \in Task, j \in Job : Fire(t, j) /\ UNCHANGED handlerSide
           \/ \E t \in Task : TaskStep(t) /\ UNCHANGED handlerSide
           \/ \E i \in Id : KeyExpires(i)
           \/ \E r \in Rem : /\ TimePasses(r)
                             /\ UNCHANGED <<cronVars, lockVars, repoVars, taskVars, handlerSide>>
           \/ UNCHANGED vars
  BY <1>4 DEF KeyExpires, handlerSide, lifeVars, vars, Steady
<1> QED BY <1>1, <1>2, <1>3, <1>4 DEF Next

\* What the command handler has checked is what it inserts.
LEMMA InsertSteady ==
  ASSUME SchedIInv, Steady, [Next]_vars, hpc' = "insert"
  PROVE  storing'[Handler] = Head(topic)'.rem
<1> USE HandlerAssumption DEF Steady
<1>1. CASE CreateCheck
  <2>1. storing \in [Proc -> Rem \cup {None}]
    BY DEF SchedIInv, TypeOK, RepoTypeOK
  <2> QED BY <1>1, <2>1 DEF CreateCheck, StoreCheck
<1>2. CASE \E c \in Request : Submit(c)
  <2>1. hpc = "insert" /\ topic # <<>> /\ topic \in Seq(Command) /\ UNCHANGED storing
    BY <1>2 DEF Submit, repoVars, SchedIInv, TypeOK, CmdTypeOK, HandlerControl
  <2>2. Head(topic') = Head(topic)
    BY <1>2, <2>1 DEF Submit
  <2> QED BY <2>1, <2>2
<1>3. CASE HandlerStep /\ ~CreateCheck
  BY <1>3 DEF HandlerStep, CreateInvalid, CreateRefused, CreateInsert, CreateInsertFails,
              AddJob, AddJobThrows, Delete, DeleteFails, Unset, DeleteAllDone, Commit
<1>4. CASE \/ \E t \in Task, j \in Job : Fire(t, j) /\ UNCHANGED handlerSide
           \/ \E t \in Task : TaskStep(t) /\ UNCHANGED handlerSide
  <2>1. UNCHANGED <<hpc, topic>>
    BY <1>4 DEF handlerSide, cmdVars
  <2>2. UNCHANGED storing
    BY <1>4 DEF Fire, TaskStep, TaskAcquire, TaskGiveUp, TaskGet, TaskGetNothing, TaskSend,
                TaskSendFails, TaskDelete, TaskDeleteFails, TaskUnset, TaskRelease, DeleteOne,
                DeleteNone, repoVars
  <2> QED BY <2>1, <2>2
<1>5. CASE (\E p \in Proc : Crash(p)) \/ \E t \in Task : ReleaseThrows(t)
  <2>1. PICK p \in Proc : ProcessEnds(p)
    BY <1>5, LockAssumption DEF Crash, ReleaseThrows
  <2>2. p # Handler /\ hpc = "insert" /\ UNCHANGED topic
    BY <2>1 DEF ProcessEnds
  <2>3. storing'[Handler] = storing[Handler]
    BY <2>1, <2>2 DEF ProcessEnds, SchedIInv, TypeOK, RepoTypeOK
  <2> QED BY <2>2, <2>3
<1>6. CASE \/ \E i \in Id : KeyExpires(i)
           \/ \E r \in Rem : /\ TimePasses(r)
                             /\ UNCHANGED <<cronVars, lockVars, repoVars, taskVars, handlerSide>>
           \/ StartHandler
           \/ \E p \in Proc : StartApi(p) \/ InitJobs(p) \/ InitFails(p)
           \/ UNCHANGED vars
  BY <1>6 DEF KeyExpires, StartHandler, StartApi, InitJobs, InitFails, handlerSide, cmdVars,
              repoVars, vars
<1> QED BY <1>1, <1>2, <1>3, <1>4, <1>5, <1>6 DEF Next

\* What a step of a task does to the timers of the command handler, under an id whose
\* events have not gone out: at most it takes a timer that has fired.
LEMMA TaskTimers ==
  ASSUME SchedIInv, Steady, SentFirst, NEW t \in Task, TaskStep(t) \/ \E j \in Job : Fire(t, j),
         NEW i \in Id, ~EventSent(i)
  PROVE  /\ Entry(i)' = Entry(i)
         /\ Armed(i)' \subseteq Armed(i)
         /\ \A j \in Armed(i) : Awaited(j.rem) => j \in Armed(i)'
<1> USE HandlerAssumption, LockAssumption, JobFacts DEF SchedIInv, TypeOK, CronTypeOK
<1>1. CASE TaskUnset(t)
  <2> DEFINE k == TaskId(t)
  <2>1. k \in Id /\ k # i /\ StopJob(ProcOf[t], k)
    BY <1>1 DEF TaskUnset, TaskControl, TaskId, SentFirst
  <2>2. jobs'[Handler][i] = jobs[Handler][i]
    BY <2>1 DEF StopJob
  <2>3. \A j \in Job : j.rem.id = i => (j \in timers'[Handler] <=> j \in timers[Handler])
    BY <2>1 DEF StopJob, Steady
  <2>4. timers'[Handler] \subseteq Job /\ timers[Handler] \subseteq Job
    BY <2>1 DEF StopJob
  <2>5. Entry(i)' = Entry(i)
    BY <2>2 DEF Entry
  <2>6. Armed(i)' = Armed(i)
    BY <2>3, <2>4 DEF Armed
  <2> QED BY <2>5, <2>6
<1>2. CASE \E j \in Job : Fire(t, j)
  <2>1. PICK j \in Job : Fire(t, j)
    BY <1>2
  <2>2. Entry(i)' = Entry(i)
    BY <2>1 DEF Fire, Entry
  <2>3. CASE Recurring(j.rem)
    <3>1. Armed(i)' = Armed(i)
      BY <2>1, <2>3 DEF Fire, Armed
    <3> QED BY <2>2, <3>1
  <2>4. CASE ~Recurring(j.rem)
    <3>1. timers' = [timers EXCEPT ![ProcOf[t]] = @ \ {j}] /\ ~Awaited(j.rem)
      BY <2>1, <2>4 DEF Fire, Awaited
    <3>2. timers'[Handler] \in {timers[Handler], timers[Handler] \ {j}}
      BY <3>1
    <3>3. Armed(i)' \subseteq Armed(i)
      BY <3>2 DEF Armed
    <3>4. \A k \in Armed(i) : k # j => k \in Armed(i)'
      BY <3>2 DEF Armed
    <3> QED BY <2>2, <3>1, <3>3, <3>4
  <2> QED BY <2>3, <2>4
<1>3. CASE TaskStep(t) /\ ~TaskUnset(t)
  <2>1. UNCHANGED cronVars
    BY <1>3 DEF TaskStep, TaskAcquire, TaskGiveUp, TaskGet, TaskGetNothing, TaskSend,
                TaskSendFails, TaskDelete, TaskDeleteFails, TaskRelease
  <2> QED BY <2>1 DEF cronVars, Armed, Entry
<1> QED BY <1>1, <1>2, <1>3

\* And to the collection: at most it deletes a reminder with another id.
LEMMA TaskFinds ==
  ASSUME SchedIInv, SentFirst, NEW t \in Task, TaskStep(t) \/ \E j \in Job : Fire(t, j),
         NEW i \in Id, ~EventSent(i)
  PROVE  Found(i)' = Found(i)
<1> USE DEF SchedIInv, TypeOK, RepoTypeOK
<1>1. CASE TaskDelete(t) \/ TaskDeleteFails(t)
  <2>1. TaskId(t) # i
    BY <1>1 DEF TaskDelete, TaskDeleteFails, SentFirst
  <2>2. CASE \E r \in Found(TaskId(t)) : DeleteOne(r)
    <3>1. PICK r \in Found(TaskId(t)) : DeleteOne(r)
      BY <2>2
    <3>2. \A s \in Rem : s.id = i => docs'[s] = docs[s]
      BY <2>1, <3>1, FoundIn DEF DeleteOne
    <3> QED BY <3>2 DEF Found, Stored
  <2>3. CASE UNCHANGED repoVars
    BY <2>3 DEF repoVars, Found, Stored
  <2> QED BY <1>1, <2>2, <2>3 DEF TaskDelete, TaskDeleteFails, DeleteNone
<1>2. CASE (TaskStep(t) /\ ~TaskDelete(t) /\ ~TaskDeleteFails(t)) \/ \E j \in Job : Fire(t, j)
  <2>1. UNCHANGED repoVars
    BY <1>2 DEF TaskStep, TaskAcquire, TaskGiveUp, TaskGet, TaskGetNothing, TaskSend,
                TaskSendFails, TaskUnset, TaskRelease, Fire
  <2> QED BY <2>1 DEF repoVars, Found, Stored
<1> QED BY <1>1, <1>2

LEMMA DueGrows ==
  ASSUME [Next]_vars PROVE due \subseteq due'
<1>1. CASE HandlerStep \/ \E c \in Request : Submit(c)
  BY <1>1, HandlerStepFrame DEF Submit, taskSide
<1>2. CASE \E t \in Task, j \in Job : Fire(t, j)
  BY <1>2 DEF Fire, envVars
<1>3. CASE \E t \in Task : TaskStep(t)
  BY <1>3 DEF TaskStep, TaskAcquire, TaskGiveUp, TaskGet, TaskGetNothing, TaskSend,
              TaskSendFails, TaskDelete, TaskDeleteFails, TaskUnset, TaskRelease, envVars
<1>4. CASE \/ \E t \in Task : ReleaseThrows(t)
           \/ \E i \in Id : KeyExpires(i)
           \/ \E r \in Rem : TimePasses(r)
           \/ StartHandler
           \/ \E p \in Proc : StartApi(p) \/ InitJobs(p) \/ InitFails(p) \/ Crash(p)
           \/ UNCHANGED vars
  BY <1>4 DEF ReleaseThrows, KeyExpires, TimePasses, StartHandler, StartApi, InitJobs,
              InitFails, Crash, ProcessEnds, envVars, vars
<1> QED BY <1>1, <1>2, <1>3, <1>4 DEF Next

\* What is still to come after a step was so before it.
LEMMA AwaitedLess ==
  ASSUME [Next]_vars, NEW r
  PROVE  Awaited(r)' => Awaited(r)
BY DueGrows DEF Awaited

\* A step that leaves the id i and the command in hand alone, but for timers and
\* reminders whose time has passed.
LEMMA MatchStays ==
  ASSUME NEW i \in Id, Match(i),
         Entry(i)' = Entry(i), Found(i)' = Found(i), Armed(i)' \subseteq Armed(i),
         \A j \in Armed(i) : Awaited(j.rem) => j \in Armed(i)',
         \A r \in Found(i) : Awaited(r)' => Awaited(r),
         Owed(i)' <=> Owed(i), Doomed(i)' <=> Doomed(i),
         Owed(i) => Head(topic)' = Head(topic)
  PROVE  Match(i)'
<1>1. Armed(i)' \subseteq Entry(i)'
  BY DEF Match
<1>2. Owed(i)' => Entry(i)' = {} /\ Found(i)' = {Head(topic)'.rem}
  BY DEF Match
<1>3. Doomed(i)' => Found(i)' = {}
  BY DEF Match
<1>4. ASSUME ~Owed(i)', ~Doomed(i)'
      PROVE  /\ \A j \in Entry(i)' : j.rem \in Found(i)'
             /\ \A r \in Found(i)' : Awaited(r)' => \E j \in Armed(i)' : j.rem = r
  <2>1. \A j \in Entry(i) : j.rem \in Found(i)
    BY <1>4 DEF Match
  <2>2. ASSUME NEW r \in Found(i), Awaited(r)'
        PROVE  \E j \in Armed(i)' : j.rem = r
    <3>1. Awaited(r)
      BY <2>2
    <3>2. PICK j \in Armed(i) : j.rem = r
      BY <1>4, <3>1 DEF Match
    <3> QED BY <3>1, <3>2
  <2> QED BY <2>1, <2>2
<1> QED BY <1>1, <1>2, <1>3, <1>4 DEF Match

LEMMA InsertMatch ==
  ASSUME SchedIInv, RepoIInv, Steady, UNCHANGED due, NEW i \in Id, Match(i), CreateInsert
  PROVE  Match(i)'
<1> DEFINE n == storing[Handler]
<1>1. /\ hpc = "insert" /\ hpc' = "job" /\ UNCHANGED <<timers, jobs, topic>>
      /\ n \in Rem /\ n = Head(topic).rem /\ ~Owed(i) /\ ~Doomed(i)
  BY DEF CreateInsert, cronVars, SchedIInv, HandlerControl, Steady, Owed, Doomed
<1>2. Armed(i)' = Armed(i) /\ Entry(i)' = Entry(i)
  BY <1>1 DEF Armed, Entry
<1>3. docs' = [docs EXCEPT ![n] = @ + 1] /\ docs \in [Rem -> Nat] /\ n \notin Stored /\ Found(n.id) = {}
  BY <1>1, HandlerAssumption
  DEF CreateInsert, CountInsert, InsertOne, SchedIInv, TypeOK, RepoTypeOK, RepoIInv,
      CheckStillHolds, Found
<1>4. CASE n.id = i
  <2>1. Found(i) = {} /\ Found(i)' = {n}
    BY <1>1, <1>3, <1>4 DEF Found, Stored
  <2>2. Entry(i) = {}
    BY <1>1, <2>1 DEF Match
  <2>3. Armed(i)' \subseteq Entry(i)'
    BY <1>2 DEF Match
  <2>4. Owed(i)' /\ ~Doomed(i)' /\ Head(topic)'.rem = n
    BY <1>1, <1>4 DEF Owed, Doomed
  <2> QED BY <1>2, <2>1, <2>2, <2>3, <2>4 DEF Match
<1>5. CASE n.id # i
  <2>1. Found(i)' = Found(i)
    BY <1>1, <1>3, <1>5 DEF Found, Stored
  <2>2. ~Owed(i)' /\ ~Doomed(i)'
    BY <1>1, <1>5 DEF Owed, Doomed
  <2> QED BY <1>1, <1>2, <2>1, <2>2, MatchStays DEF Awaited
<1> QED BY <1>4, <1>5

LEMMA AddJobMatch ==
  ASSUME SchedIInv, Steady, UNCHANGED due, NEW i \in Id, Match(i), AddJob \/ AddJobThrows
  PROVE  Match(i)'
<1> DEFINE r == Head(topic).rem
<1> USE HandlerAssumption, JobFacts DEF SchedIInv, TypeOK, CronTypeOK
<1>1. /\ hpc = "job" /\ hpc' = "done" /\ UNCHANGED docs /\ r \in Rem /\ r.id \in Id
      /\ ~Owed(i)' /\ ~Doomed(i)' /\ ~Doomed(i) /\ (Owed(i) <=> r.id = i)
  BY DEF AddJob, AddJobThrows, repoVars, HandlerControl, Owed, Doomed
<1>2. Found(i)' = Found(i) /\ \A q \in Found(i) : Awaited(q)' => Awaited(q)
  BY <1>1 DEF Found, Stored, Awaited
<1>3. CASE AddJobThrows
  <2>1. UNCHANGED <<timers, jobs>> /\ ~Awaited(r)
    BY <1>3 DEF AddJobThrows, cronVars, PastDue, Awaited
  <2>2. Armed(i)' = Armed(i) /\ Entry(i)' = Entry(i)
    BY <2>1 DEF Armed, Entry
  <2>3. CASE r.id = i
    <3>1. Entry(i)' = {} /\ Armed(i)' \subseteq Entry(i)' /\ Found(i)' = {r}
      BY <1>1, <1>2, <2>2, <2>3 DEF Match
    <3> QED BY <1>1, <1>2, <2>1, <3>1 DEF Match
  <2>4. CASE r.id # i
    BY <1>1, <1>2, <2>2, <2>4, MatchStays
  <2> QED BY <2>3, <2>4
<1>4. CASE AddJob
  <2>1. PICK n \in FreeNumbers(Handler, r) :
          /\ jobs' = [jobs EXCEPT ![Handler][r.id] = [rem |-> r, nr |-> n]]
          /\ timers' = IF r.single /\ Recurring(r) THEN timers
                       ELSE [timers EXCEPT ![Handler] = @ \cup {[rem |-> r, nr |-> n]}]
    BY <1>4 DEF AddJob, Arm
  <2> DEFINE j == [rem |-> r, nr |-> n]
  <2>2. j \in Job /\ j # None /\ j.rem = r
    BY <1>1 DEF FreeNumbers
  <2>3. \A k \in Id : jobs'[Handler][k] = IF k = r.id THEN j ELSE jobs[Handler][k]
    BY <1>1, <2>1
  <2>4. timers'[Handler] \in {timers[Handler], timers[Handler] \cup {j}}
    BY <2>1
  <2>5. CASE r.id = i
    <3>1. Armed(i) = {} /\ Found(i) = {r}
      BY <1>1, <2>5 DEF Match
    <3>2. Entry(i)' = {j}
      BY <2>2, <2>3, <2>5 DEF Entry
    <3>3. Armed(i)' \subseteq {j}
      BY <2>4, <3>1 DEF Armed
    <3>4. Awaited(r) => j \in Armed(i)'
      <4>1. Awaited(r) => timers'[Handler] = timers[Handler] \cup {j}
        BY <2>1 DEF Awaited
      <4> QED BY <2>2, <2>5, <4>1 DEF Armed
    <3>5. /\ \A k \in Entry(i)' : k.rem \in Found(i)'
          /\ \A q \in Found(i)' : Awaited(q)' => \E k \in Armed(i)' : k.rem = q
      BY <1>2, <2>2, <3>1, <3>2, <3>4
    <3> QED BY <1>1, <3>2, <3>3, <3>5 DEF Match
  <2>6. CASE r.id # i
    <3>1. Armed(i)' = Armed(i)
      BY <2>2, <2>4, <2>6 DEF Armed
    <3>2. Entry(i)' = Entry(i)
      BY <2>3, <2>6 DEF Entry
    <3> QED BY <1>1, <1>2, <2>6, <3>1, <3>2, MatchStays
  <2> QED BY <2>5, <2>6
<1> QED BY <1>3, <1>4

LEMMA DeleteMatch ==
  ASSUME SchedIInv, RepoIInv, Steady, UNCHANGED due, NEW i \in Id, Match(i), NEW k \in Id, Delete(k)
  PROVE  Match(i)'
<1>1. /\ hpc = "idle" /\ hpc' = "unset" /\ victim' = k /\ UNCHANGED <<timers, jobs, topic>>
      /\ ~Owed(i) /\ ~Doomed(i) /\ ~Owed(i)'
  BY DEF Delete, Handling, cronVars, Owed, Doomed
<1>2. Armed(i)' = Armed(i) /\ Entry(i)' = Entry(i)
  BY <1>1 DEF Armed, Entry
<1>3. PICK r \in Found(k) : DeleteOne(r)
  BY DEF Delete
<1>4. r \in Rem /\ r \in Stored /\ r.id = k /\ docs[r] = 1 /\ docs' = [docs EXCEPT ![r] = @ - 1]
  BY <1>3 DEF Found, Stored, DeleteOne, RepoIInv, OneDocPerId, RepoTypeOK
<1>5. Stored' = Stored \ {r}
  BY <1>3, <1>4, DeletePreserves
<1>6. CASE k = i
  <2>1. Found(i)' = {}
    BY <1>4, <1>5, <1>6 DEF Found, RepoIInv, OneDocPerId
  <2>2. Doomed(i)' /\ Armed(i)' \subseteq Entry(i)'
    BY <1>1, <1>2, <1>6 DEF Match, Doomed
  <2> QED BY <1>1, <2>1, <2>2 DEF Match
<1>7. CASE k # i
  <2>1. Found(i)' = Found(i)
    BY <1>4, <1>5, <1>7 DEF Found
  <2>2. ~Doomed(i)'
    BY <1>1, <1>7 DEF Doomed
  <2> QED BY <1>1, <1>2, <2>1, <2>2, MatchStays DEF Awaited
<1> QED BY <1>6, <1>7

LEMMA UnsetMatch ==
  ASSUME SchedIInv, Steady, UNCHANGED due, NEW i \in Id, Match(i), Unset
  PROVE  Match(i)'
<1> USE HandlerAssumption, JobFacts DEF SchedIInv, TypeOK, CronTypeOK
<1>1. /\ hpc = "unset" /\ hpc' \in {"idle", "done"} /\ victim \in Id /\ UNCHANGED docs
      /\ ~Owed(i) /\ ~Owed(i)' /\ ~Doomed(i)' /\ (Doomed(i) <=> victim = i)
  BY DEF Unset, repoVars, HandlerControl, Owed, Doomed
<1>2. Found(i)' = Found(i)
  BY <1>1 DEF Found, Stored
<1>3. /\ \A k \in Id : jobs'[Handler][k] = IF k = victim THEN None ELSE jobs[Handler][k]
      /\ timers'[Handler] = timers[Handler] \ {jobs[Handler][victim]}
  BY <1>1 DEF Unset, StopJob
<1>4. CASE victim = i
  <2>1. Found(i) = {} /\ Armed(i) \subseteq Entry(i)
    BY <1>1, <1>4 DEF Match
  <2>2. Armed(i)' = {} /\ Entry(i)' = {}
    BY <1>3, <1>4, <2>1 DEF Armed, Entry
  <2> QED BY <1>1, <1>2, <2>1, <2>2 DEF Match
<1>5. CASE victim # i
  <2>1. \A j \in timers[Handler] : j.rem.id = i => j # jobs[Handler][victim]
    BY <1>1, <1>5 DEF Steady
  <2>2. Armed(i)' = Armed(i) /\ Entry(i)' = Entry(i)
    BY <1>3, <1>5, <2>1 DEF Armed, Entry
  <2> QED BY <1>1, <1>2, <1>5, <2>2, MatchStays DEF Awaited
<1> QED BY <1>4, <1>5

\* A step of the command handler that is none of the four above and does not fail.
LEMMA OtherMatch ==
  ASSUME SchedIInv, UNCHANGED due, NEW i \in Id, Match(i), HandlerStep, ~Spend("fault"),
         ~CreateInsert, ~AddJob, ~AddJobThrows, \A k \in Id : ~Delete(k), ~Unset
  PROVE  Match(i)'
<1>1. /\ hpc \in {"idle", "done"} /\ hpc' \in {"idle", "insert", "done"}
      /\ UNCHANGED <<timers, jobs, docs>>
  BY DEF HandlerStep, CreateInvalid, CreateCheck, CreateRefused, CreateInsertFails, DeleteFails,
         DeleteAllDone, Commit, Handling, StoreCheck, StoreRefused, DeleteNone, cronVars, repoVars
<1>2. ~Owed(i) /\ ~Doomed(i) /\ ~Owed(i)' /\ ~Doomed(i)'
  BY <1>1 DEF Owed, Doomed
<1>3. Armed(i)' = Armed(i) /\ Entry(i)' = Entry(i) /\ Found(i)' = Found(i)
  BY <1>1 DEF Armed, Entry, Found, Stored
<1> QED BY <1>2, <1>3, MatchStays DEF Awaited

LEMMA HandlerMatch ==
  ASSUME SchedIInv, RepoIInv, Steady, NEW i \in Id, Match(i), HandlerStep, ~Spend("fault")
  PROVE  Match(i)'
<1>1. UNCHANGED due
  BY HandlerStepFrame DEF taskSide
<1> QED BY <1>1, InsertMatch, AddJobMatch, DeleteMatch, UnsetMatch, OtherMatch

LEMMA MapSteady ==
  ASSUME SchedIInv, Steady, [Next]_vars, NEW i \in Id, jobs'[Handler][i] # None
  PROVE  jobs'[Handler][i].rem.id = i
<1> USE HandlerAssumption, LockAssumption, JobFacts DEF SchedIInv, TypeOK, CronTypeOK, Steady
<1>1. CASE AddJob
  <2>1. Head(topic).rem \in Rem
    BY <1>1 DEF AddJob, HandlerControl
  <2> QED BY <1>1, <2>1 DEF AddJob, Arm
<1>2. CASE Unset
  BY <1>2 DEF Unset, StopJob, HandlerControl
<1>3. CASE \E t \in Task : TaskUnset(t)
  BY <1>3 DEF TaskUnset, StopJob, TaskControl, TaskId
<1>4. CASE \E p \in Proc : InitJobs(p)
  BY <1>4 DEF InitJobs, ArmAll
<1>5. CASE (\E p \in Proc : Crash(p)) \/ \E t \in Task : ReleaseThrows(t)
  BY <1>5 DEF Crash, ReleaseThrows, ProcessEnds, DropJobs, NoJobs
<1>6. CASE UNCHANGED jobs
  BY <1>6
<1>7. CASE HandlerStep /\ ~AddJob /\ ~Unset
  BY <1>6, <1>7 DEF HandlerStep, CreateInvalid, CreateCheck, CreateRefused, CreateInsert,
       CreateInsertFails, AddJobThrows, Delete, DeleteFails, DeleteAllDone, Commit, cronVars
<1>8. CASE \E t \in Task : (TaskStep(t) /\ ~TaskUnset(t)) \/ \E j \in Job : Fire(t, j)
  BY <1>6, <1>8 DEF TaskStep, TaskAcquire, TaskGiveUp, TaskGet, TaskGetNothing, TaskSend,
       TaskSendFails, TaskDelete, TaskDeleteFails, TaskRelease, Fire, cronVars
<1>9. CASE \/ \E c \in Request : Submit(c)
           \/ \E k \in Id : KeyExpires(k)
           \/ \E r \in Rem : /\ TimePasses(r)
                             /\ UNCHANGED <<cronVars, lockVars, repoVars, taskVars, handlerSide>>
           \/ StartHandler
           \/ \E p \in Proc : StartApi(p) \/ InitFails(p)
           \/ UNCHANGED vars
  BY <1>6, <1>9 DEF Submit, KeyExpires, StartHandler, StartApi, InitFails, cronVars, vars
<1> QED BY <1>1, <1>2, <1>3, <1>4, <1>5, <1>7, <1>8, <1>9 DEF Next

LEMMA SteadyStep ==
  ASSUME SchedIInv, Steady, [Next]_vars
  PROVE  Steady'
<1>1. \A k \in EventKind : budget'[k] <= Budget[k]
  BY BudgetShrinks
<1>2. mode'[Handler] # "starting"
  BY ModeSteady
<1>3. hpc' = "insert" => storing'[Handler] = Head(topic)'.rem
  BY InsertSteady
<1>4. \A i \in Id : jobs'[Handler][i] # None => jobs'[Handler][i].rem.id = i
  BY MapSteady
<1> QED BY <1>1, <1>2, <1>3, <1>4 DEF Steady

LEMMA MatchStep ==
  ASSUME SchedIInv, RepoIInv, LockIInv, Steady, SentFirst, Matched, [Next]_vars
  PROVE  Matched'
<1> SUFFICES ASSUME Failures' = 0, NEW i \in Id, ~EventSent(i)'
             PROVE  Match(i)'
  BY DEF Matched
<1>1. ~EventSent(i)
  BY SendsAddUp DEF EventSent
<1>2. Match(i) /\ ~Spend("fault") /\ ~Spend("crash")
  BY <1>1, CleanStep DEF Matched
<1>3. \A r \in Found(i) : Awaited(r)' => Awaited(r)
  BY AwaitedLess
<1>4. CASE HandlerStep
  BY <1>2, <1>4, HandlerMatch
<1>5. CASE \/ \E t \in Task, j \in Job : Fire(t, j) /\ UNCHANGED handlerSide
           \/ \E t \in Task : TaskStep(t) /\ UNCHANGED handlerSide
  <2>1. PICK t \in Task : (TaskStep(t) \/ \E j \in Job : Fire(t, j)) /\ UNCHANGED handlerSide
    BY <1>5
  <2>2. /\ Entry(i)' = Entry(i) /\ Found(i)' = Found(i) /\ Armed(i)' \subseteq Armed(i)
        /\ \A j \in Armed(i) : Awaited(j.rem) => j \in Armed(i)'
    BY <1>1, <2>1, TaskTimers, TaskFinds
  <2>3. UNCHANGED <<hpc, topic, victim>>
    BY <2>1 DEF handlerSide, cmdVars
  <2>4. (Owed(i)' <=> Owed(i)) /\ (Doomed(i)' <=> Doomed(i)) /\ Head(topic)' = Head(topic)
    BY <2>3 DEF Owed, Doomed
  <2> QED BY <1>2, <1>3, <2>2, <2>4, MatchStays
<1>6. CASE (\E t \in Task : ReleaseThrows(t)) \/ \E p \in Proc : Crash(p)
  BY <1>2, <1>6, ThrowIsCrash DEF Crash
<1>7. CASE \E c \in Request : Submit(c)
  <2>1. UNCHANGED <<timers, jobs, docs, hpc, victim>>
    BY <1>7 DEF Submit, cronVars, repoVars
  <2>2. hpc # "idle" => Head(topic)' = Head(topic)
    BY <1>7 DEF Submit, SchedIInv, TypeOK, CmdTypeOK, HandlerControl
  <2>3. Armed(i)' = Armed(i) /\ Entry(i)' = Entry(i) /\ Found(i)' = Found(i)
    BY <2>1 DEF Armed, Entry, Found, Stored
  <2>4. (Owed(i)' <=> Owed(i)) /\ (Doomed(i)' <=> Doomed(i))
        /\ (Owed(i) => Head(topic)' = Head(topic))
    BY <2>1, <2>2 DEF Owed, Doomed
  <2> QED BY <1>2, <1>3, <2>3, <2>4, MatchStays
<1>8. CASE \E p \in Proc : InitJobs(p)
  <2>1. PICK p \in Proc : InitJobs(p)
    BY <1>8
  <2>2. p # Handler
    BY <2>1 DEF InitJobs, Steady
  <2>3. timers'[Handler] = timers[Handler] /\ jobs'[Handler] = jobs[Handler]
    BY <2>1, <2>2, HandlerAssumption DEF InitJobs, ArmAll, SchedIInv, TypeOK, CronTypeOK
  <2>4. UNCHANGED <<docs, hpc, topic, victim>>
    BY <2>1 DEF InitJobs, repoVars, cmdVars
  <2>5. Armed(i)' = Armed(i) /\ Entry(i)' = Entry(i) /\ Found(i)' = Found(i)
    BY <2>3, <2>4 DEF Armed, Entry, Found, Stored
  <2>6. (Owed(i)' <=> Owed(i)) /\ (Doomed(i)' <=> Doomed(i)) /\ Head(topic)' = Head(topic)
    BY <2>4 DEF Owed, Doomed
  <2> QED BY <1>2, <1>3, <2>5, <2>6, MatchStays
<1>9. CASE \/ \E k \in Id : KeyExpires(k)
           \/ \E r \in Rem : /\ TimePasses(r)
                             /\ UNCHANGED <<cronVars, lockVars, repoVars, taskVars, handlerSide>>
           \/ StartHandler
           \/ \E p \in Proc : StartApi(p) \/ InitFails(p)
           \/ UNCHANGED vars
  <2>1. UNCHANGED <<timers, jobs, docs, hpc, topic, victim>>
    BY <1>9 DEF KeyExpires, StartHandler, StartApi, InitFails, cronVars, repoVars, cmdVars,
                handlerSide, vars
  <2>2. Armed(i)' = Armed(i) /\ Entry(i)' = Entry(i) /\ Found(i)' = Found(i)
    BY <2>1 DEF Armed, Entry, Found, Stored
  <2>3. (Owed(i)' <=> Owed(i)) /\ (Doomed(i)' <=> Doomed(i)) /\ Head(topic)' = Head(topic)
    BY <2>1 DEF Owed, Doomed
  <2> QED BY <1>2, <1>3, <2>2, <2>3, MatchStays
<1> QED BY <1>4, <1>5, <1>6, <1>7, <1>8, <1>9 DEF Next

\* Between two commands and without failures, under every id whose events have not
\* gone out, the command handler runs no timer but the one of its Map, its Map names
\* what is stored, and what is stored and still to come has its timer: for any
\* reminders, any commands, and any tasks and processes around, as long as tasks
\* stay within the lock's time to live.
THEOREM TimersFollowTheStore ==
  ASSUME Overrun = FALSE
  PROVE  Spec => []ScheduleMatchesStore
<1>1. Spec => [](SchedIInv /\ RepoIInv /\ LockIInv)
  BY SystemInContext, PTL DEF Context
<1>2. Init => Steady /\ Matched /\ SentFirst
  BY SteadyInit DEF Init, TaskInit, SentFirst
<1>3. /\ SchedIInv /\ RepoIInv /\ LockIInv
      /\ Steady /\ Matched /\ SentFirst /\ [Next]_vars
      => Steady' /\ Matched' /\ SentFirst'
  BY SteadyStep, MatchStep, SentFirstStep
<1>4. Matched => ScheduleMatchesStore
  <2> SUFFICES ASSUME Matched, Failures = 0, hpc \in {"idle", "done"}, NEW i \in Id, ~EventSent(i)
               PROVE  /\ {j \in timers[Handler] : j.rem.id = i} \subseteq {jobs[Handler][i]}
                      /\ jobs[Handler][i] # None => jobs[Handler][i].rem \in Found(i)
                      /\ \A r \in Found(i) : Awaited(r) => \E j \in timers[Handler] : j.rem = r
    BY DEF ScheduleMatchesStore
  <2>1. /\ Armed(i) \subseteq Entry(i)
        /\ \A j \in Entry(i) : j.rem \in Found(i)
        /\ \A r \in Found(i) : Awaited(r) => \E j \in Armed(i) : j.rem = r
    BY DEF Matched, Match, Owed, Doomed
  <2> QED BY <2>1 DEF Armed, Entry
<1> QED BY <1>1, <1>2, <1>3, <1>4, PTL DEF Spec
=============================================================================
