--------------------------- MODULE Delivery_proofs ---------------------------
(* What becomes of a reminder from the command that creates it to its          *)
(* notification, for any number of processes, tasks, reminders and commands.    *)
(*                                                                              *)
(* Nothing goes out that was not stored or is not due: a task carries the proof *)
(* of both, in the timer that started it and in the reminder that it has read.  *)
(*                                                                              *)
(* A command stores at most once: what was inserted and what is still to be     *)
(* handled is covered by what was submitted.  Only a crash gives a command back.*)
(*                                                                              *)
(* A one-time event that has a job is not lost: while nothing fails, every key  *)
(* in Redis belongs to a task that is at work, and a task at work on an event   *)
(* that was not sent is about to send it, as long as the job is there.          *)
EXTENDS Outcomes_proofs

----------------------------------------------------------------------------
\* What a step does to one task, and to what only grows.

LEMMA TaskMoves ==
  ASSUME SchedIInv, [Next]_vars, NEW t \in Task
  PROVE  \/ pc'[t] = pc[t] /\ ran'[t] = ran[t] /\ got'[t] = got[t]
         \/ pc'[t] = "idle"
         \/ TaskStep(t) /\ UNCHANGED handlerSide
         \/ \E j \in Job : Fire(t, j) /\ UNCHANGED handlerSide
<1> DEFINE Rests == pc'[t] = pc[t] /\ ran'[t] = ran[t] /\ got'[t] = got[t]
<1>1. /\ pc \in [Task -> Step] /\ got \in [Task -> Rem \cup {None}]
      /\ ran \in [Task -> Job \cup {None}]
  BY DEF SchedIInv, TypeOK, TaskTypeOK
<1>2. CASE UNCHANGED taskVars
  BY <1>2 DEF taskVars
<1>3. ASSUME NEW u \in Task, TaskStep(u), u # t PROVE Rests
  BY <1>1, <1>3
  DEF TaskStep, TaskAcquire, TaskGiveUp, TaskGet, TaskGetNothing, TaskSend, TaskSendFails,
      TaskDelete, TaskDeleteFails, TaskUnset, TaskRelease, Finish, Goto
<1>4. ASSUME NEW u \in Task, NEW j \in Job, Fire(u, j), u # t PROVE Rests
  BY <1>1, <1>4 DEF Fire, Goto
<1>5. CASE (\E p \in Proc : Crash(p)) \/ \E u \in Task : ReleaseThrows(u)
  BY <1>1, <1>5 DEF Crash, ReleaseThrows, ProcessEnds
<1>6. CASE \/ HandlerStep
           \/ \E c \in Request : Submit(c)
           \/ \E i \in Id : KeyExpires(i)
           \/ \E r \in Rem : /\ TimePasses(r)
                             /\ UNCHANGED <<cronVars, lockVars, repoVars, taskVars, handlerSide>>
           \/ StartHandler
           \/ \E p \in Proc : StartApi(p) \/ InitJobs(p) \/ InitFails(p)
           \/ UNCHANGED vars
  BY <1>2, <1>6, HandlerStepFrame
  DEF Submit, KeyExpires, StartHandler, StartApi, InitJobs, InitFails, taskSide, vars
<1> QED BY <1>3, <1>4, <1>5, <1>6 DEF Next

\* A run keeps to the job that started it.
LEMMA RunKeepsJob ==
  ASSUME SchedIInv, NEW t \in Task, TaskStep(t), pc'[t] # "idle"
  PROVE  ran'[t] = ran[t] /\ pc[t] # "idle"
BY DEF SchedIInv, TypeOK, TaskTypeOK, TaskStep, TaskAcquire, TaskGiveUp, TaskGet,
       TaskGetNothing, TaskSend, TaskSendFails, TaskDelete, TaskDeleteFails, TaskUnset,
       TaskRelease, Finish, Goto

\* The collection and the count of insertions grow together, in the command handler.
LEMMA OnlyInsertsAdd ==
  ASSUME SchedIInv, [Next]_vars
  PROVE  \/ CountInsert
         \/ UNCHANGED inserted /\ \A r \in Rem : docs[r] = 0 => docs'[r] = 0
<1> DEFINE NoneAdded == UNCHANGED inserted /\ \A r \in Rem : docs[r] = 0 => docs'[r] = 0
<1>1. CASE UNCHANGED <<docs, inserted>>
  BY <1>1
<1>2. ASSUME NEW i, (\E r \in Found(i) : DeleteOne(r)) \/ DeleteNone(i) \/ UNCHANGED repoVars
      PROVE  \A r \in Rem : docs[r] = 0 => docs'[r] = 0
  BY <1>2, FoundIn, DeletionKeepsAbsence DEF DeleteNone, repoVars
<1>3. CASE HandlerStep
  <2>1. CASE CreateInsert \/ CreateInsertFails
    BY <1>1, <2>1 DEF CreateInsert, CreateInsertFails, InsertAborted
  <2>2. CASE \E i \in Id : Delete(i) \/ DeleteFails(i)
    BY <1>2, <2>2 DEF Delete, DeleteFails
  <2>3. CASE \/ CreateInvalid \/ CreateCheck \/ CreateRefused \/ AddJob \/ AddJobThrows
             \/ Unset \/ DeleteAllDone \/ Commit
    BY <1>1, <2>3 DEF CreateInvalid, CreateCheck, CreateRefused, StoreCheck, StoreRefused,
       AddJob, AddJobThrows, Unset, DeleteAllDone, Commit, repoVars
  <2> QED BY <1>3, <2>1, <2>2, <2>3 DEF HandlerStep
<1>4. CASE \E t \in Task : TaskStep(t) /\ UNCHANGED handlerSide
  <2>1. PICK t \in Task : TaskStep(t)
    BY <1>4
  <2>2. UNCHANGED inserted
    BY <1>4 DEF handlerSide, cmdVars
  <2>3. CASE TaskDelete(t) \/ TaskDeleteFails(t)
    BY <1>2, <2>2, <2>3 DEF TaskDelete, TaskDeleteFails
  <2>4. CASE ~TaskDelete(t) /\ ~TaskDeleteFails(t)
    BY <1>1, <2>1, <2>2, <2>4 DEF TaskStep, TaskAcquire, TaskGiveUp, TaskGet, TaskGetNothing,
       TaskSend, TaskSendFails, TaskUnset, TaskRelease, repoVars
  <2> QED BY <2>3, <2>4
<1>5. CASE ~HandlerStep /\ ~\E t \in Task : TaskStep(t) /\ UNCHANGED handlerSide
  BY <1>1, <1>5 DEF Next, Submit, Fire, ReleaseThrows, KeyExpires, StartHandler, StartApi,
     InitJobs, InitFails, Crash, ProcessEnds, handlerSide, cmdVars, repoVars, vars
<1> QED BY <1>3, <1>4, <1>5

\* Who inserts adds one, to both.
LEMMA InsertAdds ==
  ASSUME SchedIInv, CountInsert
  PROVE  /\ storing[Handler] \in Rem
         /\ \A r \in Rem :
              /\ inserted'[r] = IF r = storing[Handler] THEN inserted[r] + 1 ELSE inserted[r]
              /\ docs'[r] = IF r = storing[Handler] THEN docs[r] + 1 ELSE docs[r]
BY HandlerAssumption
DEF CountInsert, InsertOne, SchedIInv, TypeOK, RepoTypeOK, CmdTypeOK

\* Who sends adds at most one, of what it has read.
LEMMA OnlyTasksSend ==
  ASSUME SchedIInv, [Next]_vars, NEW r \in Rem, sent'[r] # sent[r]
  PROVE  \E t \in Task : pc[t] = "send" /\ got[t] = r
<1>1. sent \in [Rem -> Nat]
  BY DEF SchedIInv, TypeOK, TaskTypeOK
<1>2. CASE UNCHANGED sent
  BY <1>2
<1>3. CASE HandlerStep
  BY <1>2, <1>3, HandlerStepFrame DEF taskSide, taskVars
<1>4. CASE \E t \in Task : TaskStep(t)
  <2>1. PICK t \in Task : TaskStep(t)
    BY <1>4
  <2>2. CASE TaskSend(t) \/ TaskSendFails(t)
    BY <1>1, <2>2 DEF TaskSend, TaskSendFails
  <2>3. CASE ~TaskSend(t) /\ ~TaskSendFails(t)
    BY <1>2, <2>1, <2>3 DEF TaskStep, TaskAcquire, TaskGiveUp, TaskGet, TaskGetNothing,
       TaskDelete, TaskDeleteFails, TaskUnset, TaskRelease, Finish
  <2> QED BY <2>2, <2>3
<1>5. CASE ~HandlerStep /\ ~\E t \in Task : TaskStep(t)
  BY <1>2, <1>5
  DEF Next, Submit, taskSide, taskVars, Fire, ReleaseThrows, KeyExpires, StartHandler,
      StartApi, InitJobs, InitFails, Crash, ProcessEnds, vars
<1> QED BY <1>3, <1>4, <1>5

----------------------------------------------------------------------------
\* Nothing goes out that was not stored, or before its time.

\* The timer that started a run was due.
StartedDue == \A t \in Task : pc[t] # "idle" => Recurring(ran[t].rem) \/ ran[t].rem \in due

\* What a task is about to send has its id and has been stored.
GotStored ==
  \A t \in Task : pc[t] = "send" =>
    got[t] \in Rem /\ got[t].id = TaskId(t) /\ inserted[got[t]] > 0

StoredInserted == \A r \in Rem : docs[r] > 0 => inserted[r] > 0

DueIInv == StartedDue /\ GotStored /\ StoredInserted /\ SendsAreDue

LEMMA DueInit == Init => DueIInv
<1> SUFFICES ASSUME Init PROVE DueIInv
  OBVIOUS
<1>1. /\ \A t \in Task : pc[t] = "idle"
      /\ \A r \in Rem : sent[r] = 0 /\ docs[r] = 0
  BY DEF Init, TaskInit, RepoInit
<1> QED BY <1>1 DEF DueIInv, StartedDue, GotStored, StoredInserted, SendsAreDue

LEMMA InsertedGrows ==
  ASSUME SchedIInv, [Next]_vars, NEW r \in Rem
  PROVE  inserted[r] > 0 => inserted'[r] > 0
<1>1. inserted[r] \in Nat
  BY DEF SchedIInv, TypeOK, CmdTypeOK
<1>2. inserted'[r] \in {inserted[r], inserted[r] + 1}
  BY OnlyInsertsAdd, InsertAdds
<1> QED BY <1>1, <1>2

LEMMA StartedStep ==
  ASSUME SchedIInv, StartedDue, [Next]_vars
  PROVE  StartedDue'
<1> SUFFICES ASSUME NEW t \in Task, pc'[t] # "idle"
             PROVE  Recurring(ran'[t].rem) \/ ran'[t].rem \in due'
  BY DEF StartedDue, Recurring
<1>1. CASE ran'[t] = ran[t] /\ pc[t] # "idle"
  BY <1>1, DueGrows DEF StartedDue
<1>2. CASE \E j \in Job : Fire(t, j)
  <2>1. PICK j \in Job : Fire(t, j)
    BY <1>2
  <2>2. ran'[t] = j
    BY <2>1 DEF Fire, SchedIInv, TypeOK, TaskTypeOK
  <2>3. Recurring(j.rem) \/ j.rem \in due
    BY <2>1 DEF Fire
  <2> QED BY <2>2, <2>3, DueGrows
<1> QED BY <1>1, <1>2, TaskMoves, RunKeepsJob

LEMMA GotStep ==
  ASSUME SchedIInv, GotStored, StoredInserted, [Next]_vars
  PROVE  GotStored'
<1> SUFFICES ASSUME NEW t \in Task, pc'[t] = "send"
             PROVE  got'[t] \in Rem /\ got'[t].id = TaskId(t)' /\ inserted'[got'[t]] > 0
  BY DEF GotStored
<1>1. CASE pc'[t] = pc[t] /\ ran'[t] = ran[t] /\ got'[t] = got[t]
  <2>1. got[t] \in Rem /\ got[t].id = TaskId(t) /\ inserted[got[t]] > 0
    BY <1>1 DEF GotStored
  <2> QED BY <1>1, <2>1, InsertedGrows DEF TaskId
<1>2. CASE TaskStep(t)
  <2>1. TaskGet(t)
    BY <1>2 DEF TaskStep, TaskAcquire, TaskGiveUp, TaskGet, TaskGetNothing, TaskSend,
       TaskSendFails, TaskDelete, TaskDeleteFails, TaskUnset, TaskRelease, Finish, Goto,
       AfterSend, SchedIInv, TypeOK, TaskTypeOK
  <2>2. PICK r \in Found(TaskId(t)) : got' = [got EXCEPT ![t] = r]
    BY <2>1 DEF TaskGet
  <2>3. got'[t] = r /\ r \in Rem /\ r.id = TaskId(t) /\ docs[r] > 0
    BY <2>2 DEF Found, Stored, SchedIInv, TypeOK, TaskTypeOK
  <2>4. TaskId(t)' = TaskId(t)
    BY <2>1 DEF TaskGet, TaskId
  <2>5. inserted'[r] > 0
    BY <2>3, InsertedGrows DEF StoredInserted
  <2> QED BY <2>3, <2>4, <2>5
<1>3. CASE \E j \in Job : Fire(t, j)
  BY <1>3 DEF Fire, Goto, SchedIInv, TypeOK, TaskTypeOK
<1> QED BY <1>1, <1>2, <1>3, TaskMoves

LEMMA StoredStep ==
  ASSUME SchedIInv, StoredInserted, [Next]_vars
  PROVE  StoredInserted'
<1> SUFFICES ASSUME NEW r \in Rem, docs'[r] > 0 PROVE inserted'[r] > 0
  BY DEF StoredInserted
<1>1. docs[r] \in Nat /\ inserted[r] \in Nat
  BY DEF SchedIInv, TypeOK, RepoTypeOK, CmdTypeOK
<1>2. CASE docs[r] > 0
  BY <1>2, InsertedGrows DEF StoredInserted
<1>3. CASE docs[r] = 0
  <2>1. CountInsert
    BY <1>3, OnlyInsertsAdd
  <2>2. r = storing[Handler]
    BY <1>3, <2>1, InsertAdds
  <2> QED BY <1>1, <2>1, <2>2, InsertAdds
<1> QED BY <1>1, <1>2, <1>3

LEMMA SendsStep ==
  ASSUME SchedIInv, DueIInv, [Next]_vars
  PROVE  SendsAreDue'
<1> SUFFICES ASSUME NEW r \in Rem, sent'[r] > 0
             PROVE  /\ inserted'[r] > 0
                    /\ \E q \in Rem : q.id = r.id /\ (Recurring(q) \/ q \in due')
  BY DEF SendsAreDue, Recurring
<1>1. /\ inserted[r] > 0
      /\ \E q \in Rem : q.id = r.id /\ (Recurring(q) \/ q \in due)
  <2>1. CASE sent'[r] = sent[r]
    BY <2>1 DEF DueIInv, SendsAreDue
  <2>2. CASE sent'[r] # sent[r]
    <3>1. PICK t \in Task : pc[t] = "send" /\ got[t] = r
      BY <2>2, OnlyTasksSend
    <3>2. r.id = TaskId(t) /\ inserted[r] > 0
      BY <3>1 DEF DueIInv, GotStored
    <3>3. ran[t].rem \in Rem /\ (Recurring(ran[t].rem) \/ ran[t].rem \in due)
      BY <3>1, JobFacts DEF DueIInv, StartedDue, SchedIInv, TaskControl
    <3> QED BY <3>2, <3>3 DEF TaskId
  <2> QED BY <2>1, <2>2
<1> QED BY <1>1, InsertedGrows, DueGrows

\* Every notification is of a reminder that was stored, and comes from a timer of
\* its id that was due: for any processes, failures and crashes, and even when
\* tasks outlive their locks or ids are used again.
THEOREM NothingSentOutOfTurn == Spec => []SendsAreDue
<1>1. Init => SchedIInv /\ DueIInv
  BY SchedInit, DueInit
<1>2. SchedIInv /\ DueIInv /\ [Next]_vars => SchedIInv' /\ DueIInv'
  BY NextPreserves, StartedStep, GotStep, StoredStep, SendsStep DEF DueIInv
<1>3. DueIInv => SendsAreDue
  BY DEF DueIInv
<1> QED BY <1>1, <1>2, <1>3, PTL DEF Spec

----------------------------------------------------------------------------
\* A command stores at most once.

\* The command in hand may have stored.
InHand == IF hpc \in {"job", "done"} THEN 1 ELSE 0

\* What has been stored of a reminder, and all that is still on the topic, was
\* submitted; a command in hand is on the topic and may have stored.
Covered == \A r \in Rem : inserted[r] + Len(topic) <= Submitted + Crashes + InHand

LEMMA CountsMove ==
  ASSUME SchedIInv
  PROVE  /\ Submitted \in Int /\ Crashes \in Int
         /\ UNCHANGED budget => Submitted' = Submitted /\ Crashes' = Crashes
         /\ Spend("submit") => Submitted' = Submitted + 1 /\ Crashes' = Crashes
         /\ \A k \in {"tick", "fault"} : Spend(k) => Submitted' = Submitted /\ Crashes' = Crashes
         /\ Spend("crash") => Submitted' = Submitted /\ Crashes' = Crashes + 1
<1>1. budget \in [EventKind -> Nat] /\ Budget \in [EventKind -> Nat]
  BY RemindersAssumption DEF SchedIInv, TypeOK, EnvTypeOK
<1>2. /\ budget["submit"] \in Int /\ budget["crash"] \in Int
      /\ Budget["submit"] \in Int /\ Budget["crash"] \in Int
  BY <1>1 DEF EventKind
<1>3. ASSUME NEW k \in EventKind, Spend(k)
      PROVE  \A e \in EventKind : budget'[e] = IF e = k THEN budget[e] - 1 ELSE budget[e]
  BY <1>1, <1>3 DEF Spend
<1>4. Submitted \in Int /\ Crashes \in Int
  BY <1>2 DEF Submitted, Crashes
<1>5. UNCHANGED budget => Submitted' = Submitted /\ Crashes' = Crashes
  BY DEF Submitted, Crashes
<1>6. Spend("submit") => Submitted' = Submitted + 1 /\ Crashes' = Crashes
  <2> SUFFICES ASSUME Spend("submit")
               PROVE  budget'["submit"] = budget["submit"] - 1 /\ budget'["crash"] = budget["crash"]
    BY <1>2 DEF Submitted, Crashes
  <2> QED BY <1>3 DEF EventKind
<1>7. ASSUME NEW k \in {"tick", "fault"}, Spend(k)
      PROVE  Submitted' = Submitted /\ Crashes' = Crashes
  <2>1. budget'["submit"] = budget["submit"] /\ budget'["crash"] = budget["crash"]
    BY <1>3, <1>7 DEF EventKind
  <2> QED BY <2>1 DEF Submitted, Crashes
<1>8. Spend("crash") => Submitted' = Submitted /\ Crashes' = Crashes + 1
  <2> SUFFICES ASSUME Spend("crash")
               PROVE  budget'["submit"] = budget["submit"] /\ budget'["crash"] = budget["crash"] - 1
    BY <1>2 DEF Submitted, Crashes
  <2> QED BY <1>3 DEF EventKind
<1> QED BY <1>4, <1>5, <1>6, <1>7, <1>8

\* What was within its means and is paid for is within its means.
LEMMA PaidFor ==
  \A i, l, s, c, h, i2, l2, s2, c2, h2 \in Int :
    i + l <= s + c + h /\ i2 + l2 + s + c + h <= i + l + s2 + c2 + h2 => i2 + l2 <= s2 + c2 + h2
OBVIOUS

\* A step keeps what is covered if it pays for what it stores and puts on the topic.
LEMMA CoveredStep ==
  ASSUME SchedIInv, SchedIInv', Covered,
         \A r \in Rem : inserted'[r] + Len(topic') + Submitted + Crashes + InHand
                          <= inserted[r] + Len(topic) + Submitted' + Crashes' + InHand'
  PROVE  Covered'
<1> SUFFICES ASSUME NEW r \in Rem
             PROVE  inserted'[r] + Len(topic') <= Submitted' + Crashes' + InHand'
  BY DEF Covered
<1>1. /\ inserted[r] \in Int /\ Len(topic) \in Int /\ Submitted \in Int /\ Crashes \in Int
      /\ InHand \in Int
  BY CountsMove DEF SchedIInv, TypeOK, CmdTypeOK, InHand
<1>2. /\ Budget["submit"] \in Int /\ Budget["crash"] \in Int
      /\ budget'["submit"] \in Int /\ budget'["crash"] \in Int
  BY RemindersAssumption DEF EventKind, SchedIInv, TypeOK, EnvTypeOK
<1>3. Submitted' \in Int /\ Crashes' \in Int
  BY <1>2 DEF Submitted, Crashes
<1>4. inserted'[r] \in Int /\ topic' \in Seq(Command)
  BY DEF SchedIInv, TypeOK, CmdTypeOK
<1>5. Len(topic') \in Int
  BY <1>4
<1>6. InHand' \in Int
  BY DEF InHand
<1>7. inserted[r] + Len(topic) <= Submitted + Crashes + InHand
  BY DEF Covered
<1>8. inserted'[r] + Len(topic') + Submitted + Crashes + InHand
        <= inserted[r] + Len(topic) + Submitted' + Crashes' + InHand'
  OBVIOUS
<1>9. \A i2, l2, s2, c2, h2 \in Int :
         i2 + l2 + Submitted + Crashes + InHand <= inserted[r] + Len(topic) + s2 + c2 + h2
           => i2 + l2 <= s2 + c2 + h2
  BY <1>1, <1>7, PaidFor
<1> QED BY ONLY <1>3, <1>4, <1>5, <1>6, <1>8, <1>9

LEMMA HandlerCovers ==
  ASSUME SchedIInv, SchedIInv', Covered, HandlerStep
  PROVE  Covered'
<1>1. /\ Len(topic) \in Int /\ Submitted \in Int /\ Crashes \in Int /\ InHand \in Int
      /\ \A r \in Rem : inserted[r] \in Int
  BY CountsMove DEF SchedIInv, TypeOK, CmdTypeOK, InHand
<1>2. Submitted' = Submitted /\ Crashes' = Crashes
  BY CountsMove
  DEF HandlerStep, CreateInvalid, CreateCheck, CreateRefused, CreateInsert, CreateInsertFails,
      AddJob, AddJobThrows, Delete, DeleteFails, Unset, DeleteAllDone, Commit
<1>3. CASE CreateInsert \/ CreateInsertFails
  <2>1. hpc = "insert" /\ hpc' \in {"job", "done"} /\ UNCHANGED topic
    BY <1>3 DEF CreateInsert, CreateInsertFails
  <2>2. \A r \in Rem : inserted'[r] \in {inserted[r], inserted[r] + 1}
    BY <1>3, InsertAdds DEF CreateInsert, CreateInsertFails
  <2>3. InHand = 0 /\ InHand' = 1
    BY <2>1 DEF InHand
  <2>4. \A r \in Rem : inserted'[r] <= inserted[r] + 1
    BY <1>1, <2>2
  <2>5. \A r \in Rem : inserted'[r] \in Int
    BY <1>1, <2>2
  <2>6. ASSUME NEW r \in Rem
        PROVE  inserted'[r] + Len(topic') + Submitted + Crashes + InHand
                 <= inserted[r] + Len(topic) + Submitted' + Crashes' + InHand'
    BY <1>1, <1>2, <2>1, <2>3, <2>4, <2>5
  <2> QED BY <2>6, CoveredStep
<1>4. CASE Commit
  <2>1. hpc = "done" /\ hpc' = "idle" /\ topic # <<>> /\ topic' = Tail(topic) /\ UNCHANGED inserted
    BY <1>4 DEF Commit, SchedIInv, HandlerControl
  <2>2. Len(topic') = Len(topic) - 1
    BY <2>1 DEF SchedIInv, TypeOK, CmdTypeOK
  <2>3. InHand = 1 /\ InHand' = 0
    BY <2>1 DEF InHand
  <2> QED BY <1>1, <1>2, <2>1, <2>2, <2>3, CoveredStep
<1>5. CASE HandlerStep /\ ~CreateInsert /\ ~CreateInsertFails /\ ~Commit
  <2>1. UNCHANGED <<topic, inserted>> /\ (hpc \in {"job", "done"} => hpc' = "done")
    BY <1>5
    DEF HandlerStep, CreateInvalid, CreateCheck, CreateRefused, AddJob, AddJobThrows, Delete,
        DeleteFails, Unset, DeleteAllDone, Handling
  <2>2. InHand <= InHand' /\ InHand' \in Int
    BY <2>1 DEF InHand
  <2> QED BY <1>1, <1>2, <2>1, <2>2, CoveredStep
<1> QED BY <1>3, <1>4, <1>5

LEMMA CrashPays ==
  \A i, l, s, c, h, h2 \in Int :
    h <= h2 + 1 => i + l + s + c + h <= i + l + s + (c + 1) + h2
OBVIOUS

LEMMA CoversStep ==
  ASSUME SchedIInv, SchedIInv', LockIInv, Covered, [Next]_vars
  PROVE  Covered'
<1>1. /\ Len(topic) \in Int /\ Submitted \in Int /\ Crashes \in Int /\ InHand \in Int
      /\ \A r \in Rem : inserted[r] \in Int
  BY CountsMove DEF SchedIInv, TypeOK, CmdTypeOK, InHand
<1>2. CASE \E c \in Request : Submit(c)
  <2>1. PICK c \in Request : topic' = Append(topic, c)
    BY <1>2 DEF Submit
  <2>2. Len(topic') = Len(topic) + 1
    BY <2>1, HandlerAssumption DEF SchedIInv, TypeOK, CmdTypeOK
  <2>3. Submitted' = Submitted + 1 /\ Crashes' = Crashes /\ InHand' = InHand /\ UNCHANGED inserted
    BY <1>2, CountsMove DEF Submit, InHand
  <2>4. ASSUME NEW r \in Rem
        PROVE  inserted'[r] + Len(topic') + Submitted + Crashes + InHand
                 <= inserted[r] + Len(topic) + Submitted' + Crashes' + InHand'
    BY <1>1, <2>2, <2>3
  <2> QED BY <2>4, CoveredStep
<1>3. CASE HandlerStep
  BY <1>3, HandlerCovers
<1>4. CASE (\E p \in Proc : Crash(p)) \/ \E t \in Task : ReleaseThrows(t)
  <2>1. UNCHANGED <<topic, inserted>> /\ Spend("crash")
    BY <1>4, ThrowIsCrash DEF Crash, ProcessEnds
  <2>2. Submitted' = Submitted /\ Crashes' = Crashes + 1
    BY <2>1, CountsMove
  <2>3. InHand <= InHand' + 1 /\ InHand' \in Int
    BY DEF InHand
  <2>4. ASSUME NEW r \in Rem
        PROVE  inserted'[r] + Len(topic') + Submitted + Crashes + InHand
                 <= inserted[r] + Len(topic) + Submitted' + Crashes' + InHand'
    BY <1>1, <2>1, <2>2, <2>3, CrashPays
  <2> QED BY <2>4, CoveredStep
<1>5. CASE \/ \E t \in Task, j \in Job : Fire(t, j) /\ UNCHANGED handlerSide
           \/ \E t \in Task : TaskStep(t) /\ UNCHANGED handlerSide
  <2>1. UNCHANGED <<topic, inserted, hpc>>
    BY <1>5 DEF handlerSide, cmdVars
  <2>2. UNCHANGED budget \/ Spend("tick") \/ Spend("fault")
    BY <1>5 DEF Fire, TaskStep, TaskAcquire, TaskGiveUp, TaskGet, TaskGetNothing, TaskSend,
       TaskSendFails, TaskDelete, TaskDeleteFails, TaskUnset, TaskRelease, envVars
  <2>3. Submitted' = Submitted /\ Crashes' = Crashes /\ InHand' = InHand
    BY <2>1, <2>2, CountsMove DEF InHand
  <2> QED BY <1>1, <2>1, <2>3, CoveredStep
<1>6. CASE \/ \E i \in Id : KeyExpires(i)
           \/ \E r \in Rem : /\ TimePasses(r)
                             /\ UNCHANGED <<cronVars, lockVars, repoVars, taskVars, handlerSide>>
           \/ StartHandler
           \/ \E p \in Proc : StartApi(p) \/ InitJobs(p) \/ InitFails(p)
           \/ UNCHANGED vars
  <2>1. UNCHANGED <<topic, inserted, hpc, budget>>
    BY <1>6 DEF KeyExpires, TimePasses, StartHandler, StartApi, InitJobs, InitFails, handlerSide,
       cmdVars, envVars, vars
  <2>2. Submitted' = Submitted /\ Crashes' = Crashes /\ InHand' = InHand
    BY <2>1, CountsMove DEF InHand
  <2> QED BY <1>1, <2>1, <2>2, CoveredStep
<1> QED BY <1>2, <1>3, <1>4, <1>5, <1>6 DEF Next

LEMMA CoversInit == Init => Covered
<1> SUFFICES ASSUME Init PROVE Covered
  OBVIOUS
<1>1. /\ budget = Budget /\ topic = <<>> /\ hpc = "idle"
      /\ \A r \in Rem : inserted[r] = 0
      /\ Budget["submit"] \in Int /\ Budget["crash"] \in Int
  BY RemindersAssumption DEF EventKind, Init, EnvInit, CmdInit
<1>2. Submitted = 0 /\ Crashes = 0 /\ InHand = 0
  BY <1>1 DEF Submitted, Crashes, InHand
<1> QED BY <1>1, <1>2 DEF Covered

\* For any reminders, commands and failures, a reminder is stored at most once for
\* every command submitted, and once more for a crash that leaves the command
\* uncommitted: no other failure makes the handler take a command again.
THEOREM CommandsStoreOnce ==
  ASSUME Overrun = FALSE PROVE Spec => []StoredOncePerCommand
<1>1. Spec => [](SchedIInv /\ LockIInv)
  BY SystemInContext, PTL DEF Context
<1>2. Init => Covered
  BY CoversInit
<1>3. SchedIInv /\ SchedIInv' /\ LockIInv /\ Covered /\ [Next]_vars => Covered'
  BY CoversStep
<1>4. SchedIInv /\ Covered => StoredOncePerCommand
  <2> SUFFICES ASSUME SchedIInv, Covered, NEW r \in Rem
               PROVE  inserted[r] <= Submitted + Crashes
    BY DEF StoredOncePerCommand
  <2>1. inserted[r] + Len(topic) <= Submitted + Crashes + InHand
    BY DEF Covered
  <2>2. inserted[r] \in Int /\ Submitted \in Int /\ Crashes \in Int /\ Len(topic) \in Nat
    BY CountsMove DEF SchedIInv, TypeOK, CmdTypeOK
  <2>3. InHand = 1 => topic # <<>>
    BY DEF InHand, SchedIInv, HandlerControl
  <2>4. topic # <<>> => Len(topic) >= 1
    BY DEF SchedIInv, TypeOK, CmdTypeOK
  <2>5. InHand \in {0, 1}
    BY DEF InHand
  <2> QED BY <2>1, <2>2, <2>3, <2>4, <2>5
<1> QED BY <1>1, <1>2, <1>3, <1>4, PTL DEF Spec

\* A one-time event goes out at most once for every command submitted; only failed
\* calls and crashes add to that, and a crash of the command handler twice: for the
\* event it was sending and for the command it was handling.
THEOREM EventsGoOncePerCommand ==
  ASSUME Overrun = FALSE
  PROVE  Spec => [](\A r \in Rem : OneTimeEvent(r) => sent[r] <= Submitted + Crashes + Failures)
<1>1. SchedIInv /\ SentOncePerStore /\ StoredOncePerCommand
        => \A r \in Rem : OneTimeEvent(r) => sent[r] <= Submitted + Crashes + Failures
  <2> SUFFICES ASSUME SchedIInv, SentOncePerStore, StoredOncePerCommand,
                      NEW r \in Rem, OneTimeEvent(r)
               PROVE  sent[r] <= Submitted + Crashes + Failures
    OBVIOUS
  <2>1. sent[r] <= inserted[r] + Failures /\ inserted[r] <= Submitted + Crashes
    BY DEF SentOncePerStore, StoredOncePerCommand
  <2>2. /\ sent[r] \in Int /\ inserted[r] \in Int /\ Failures \in Int
        /\ Submitted \in Int /\ Crashes \in Int
    BY AccountTypes, CountsMove
  <2> QED BY <2>1, <2>2
<1> QED BY <1>1, EventsGoOncePerStore, CommandsStoreOnce, TasksHoldTheirLocks, SystemIsOneStorer, PTL
----------------------------------------------------------------------------
\* An event that has a job is not lost.

\* The keys in Redis belong to tasks that are at work.
KeysHeld ==
  Failures = 0 =>
    \A i \in Id : redis[i] # None => redis[i] \in Task /\ holding[redis[i]] = i

HasJob(i) == jobs[Handler][i] # None
Ticking(i) == jobs[Handler][i] \in timers[Handler]

\* A task that will send, one that has sent, and one that will not.
Waiting(i) == \E t \in Task : pc[t] \in {"acquire", "get", "send"} /\ TaskId(t) = i
Removing(i) == \E t \in Task : pc[t] \in {"delete", "unset"} /\ TaskId(t) = i
Leaving(i) == \E t \in Task : pc[t] = "release" /\ TaskId(t) = i

\* What holds of a one-time event until it is sent.  While it has a job, and no
\* deletion is about to take it away, it is stored and a timer or a task will see to
\* it; no task leaves it: one that did found nothing, and after it no job is made,
\* because the date has passed.
Kept(r) ==
  /\ Owed(r.id) => docs[r] > 0
  /\ Doomed(r.id) => docs[r] = 0
  /\ HasJob(r.id) /\ ~Doomed(r.id) =>
       docs[r] > 0 /\ (Ticking(r.id) \/ Waiting(r.id)) /\ ~Leaving(r.id)
  /\ ~Removing(r.id)

Watched(r) == OneTimeEvent(r) /\ r.sendable /\ Alone(r)

AllKept == Failures = 0 => \A r \in Rem : Watched(r) /\ sent[r] = 0 => Kept(r)

LEMMA KeysHeldStep ==
  ASSUME Context, Steady, KeysHeld, [Next]_vars
  PROVE  KeysHeld'
<1> SUFFICES ASSUME Failures' = 0, NEW i \in Id, redis'[i] # None
             PROVE  redis'[i] \in Task /\ holding'[redis'[i]] = i
  BY DEF KeysHeld
<1>1. /\ SchedIInv /\ LockTypeOK /\ ReleaseSucceeds
      /\ ~Spend("fault") /\ ~Spend("crash")
      /\ \A k \in Id : redis[k] # None => redis[k] \in Task /\ holding[redis[k]] = k
  BY CleanStep DEF Context, LockIInv, KeysHeld
<1>2. CASE UNCHANGED lockVars
  BY <1>1, <1>2 DEF lockVars
<1>3. ASSUME NEW t \in Task, NEW k \in Id, AcquireOk(t, k)
      PROVE  redis'[i] \in Task /\ holding'[redis'[i]] = i
  <2>1. holding[t] = None /\ holding' = [holding EXCEPT ![t] = k] /\ redis' = [redis EXCEPT ![k] = t]
    BY <1>3 DEF AcquireOk
  <2>2. CASE i = k
    BY <1>1, <2>1, <2>2 DEF LockTypeOK
  <2>3. CASE i # k
    <3>1. redis'[i] = redis[i] /\ redis[i] \in Task /\ holding[redis[i]] = i
      BY <1>1, <2>1, <2>3 DEF LockTypeOK
    <3>2. redis[i] # t
      BY <2>1, <3>1, DeploymentAssumption
    <3> QED BY <1>1, <2>1, <3>1, <3>2 DEF LockTypeOK
  <2> QED BY <2>2, <2>3
<1>4. ASSUME NEW t \in Task, ReleaseOk(t)
      PROVE  redis'[i] \in Task /\ holding'[redis'[i]] = i
  <2> DEFINE k == holding[t]
  <2>1. /\ k \in Id /\ redis' = [redis EXCEPT ![k] = None]
        /\ holding' = [holding EXCEPT ![t] = None]
    BY <1>1, <1>4 DEF ReleaseOk, LockTypeOK
  <2>2. i # k /\ redis'[i] = redis[i]
    BY <1>1, <2>1 DEF LockTypeOK
  <2>3. redis[i] \in Task /\ holding[redis[i]] = i /\ redis[i] # t
    BY <1>1, <2>2
  <2> QED BY <1>1, <2>1, <2>2, <2>3 DEF LockTypeOK
<1>5. ASSUME NEW k \in Id, Expire(k)
      PROVE  redis'[i] \in Task /\ holding'[redis'[i]] = i
  BY <1>1, <1>5 DEF Expire, LockTypeOK
<1>6. CASE \E t \in Task : TaskStep(t)
  <2>1. PICK t \in Task : TaskStep(t)
    BY <1>6
  <2>2. TaskId(t) \in Id \/ pc[t] = "idle"
    BY <1>1, JobFacts DEF TaskId, SchedIInv, TaskControl
  <2> QED BY <1>1, <1>2, <1>3, <1>4, <2>1, <2>2
    DEF TaskStep, TaskAcquire, TaskGiveUp, TaskGet, TaskGetNothing, TaskSend, TaskSendFails,
        TaskDelete, TaskDeleteFails, TaskUnset, TaskRelease, AcquireRefused
<1>7. CASE HandlerStep \/ \E c \in Request : Submit(c)
  BY <1>2, <1>7, HandlerStepFrame DEF Submit, taskSide
<1>8. CASE (\E p \in Proc : Crash(p)) \/ \E t \in Task : ReleaseThrows(t)
  BY <1>1, <1>8, ThrowIsCrash DEF Context, Crash
<1>9. CASE \/ \E t \in Task, j \in Job : Fire(t, j) /\ UNCHANGED handlerSide
           \/ \E r \in Rem : /\ TimePasses(r)
                             /\ UNCHANGED <<cronVars, lockVars, repoVars, taskVars, handlerSide>>
           \/ StartHandler
           \/ \E p \in Proc : StartApi(p) \/ InitJobs(p) \/ InitFails(p)
           \/ UNCHANGED vars
  BY <1>2, <1>9 DEF Fire, StartHandler, StartApi, InitJobs, InitFails, vars
<1> QED BY <1>5, <1>6, <1>7, <1>8, <1>9 DEF Next, KeyExpires

\* A step that takes nothing away from r.
LEMMA KeptStays ==
  ASSUME NEW r \in Rem, Kept(r), docs'[r] = docs[r],
         Owed(r.id)' => Owed(r.id), Doomed(r.id)' <=> Doomed(r.id),
         HasJob(r.id)' => HasJob(r.id),
         Ticking(r.id) => Ticking(r.id)' \/ Waiting(r.id)',
         Waiting(r.id) => Waiting(r.id)',
         Leaving(r.id)' => Leaving(r.id), Removing(r.id)' => Removing(r.id)
  PROVE  Kept(r)'
BY DEF Kept

LEMMA OnlyR ==
  ASSUME NEW r \in Rem, Watched(r), NEW q \in Rem, q.id = r.id PROVE q = r
BY DEF Watched, Alone

\* Tasks at rest do not change what they are to r.
LEMMA RestKeeps ==
  ASSUME UNCHANGED taskVars, NEW i
  PROVE  (Waiting(i)' <=> Waiting(i)) /\ (Leaving(i)' <=> Leaving(i)) /\ (Removing(i)' <=> Removing(i))
BY DEF taskVars, Waiting, Leaving, Removing, TaskId

----------------------------------------------------------------------------
\* The steps of the command handler.

LEMMA InsertKept ==
  ASSUME SchedIInv, RepoIInv, Steady, NEW r \in Rem, Watched(r), Kept(r), CreateInsert
  PROVE  Kept(r)'
<1> DEFINE n == storing[Handler]
<1>1. /\ hpc = "insert" /\ hpc' = "job" /\ UNCHANGED <<timers, jobs, topic, taskVars>>
      /\ n \in Rem /\ n = Head(topic).rem /\ ~Owed(r.id) /\ ~Doomed(r.id) /\ ~Doomed(r.id)'
  BY DEF CreateInsert, cronVars, taskSide, SchedIInv, HandlerControl, Steady, Owed, Doomed
<1>2. /\ docs' = [docs EXCEPT ![n] = @ + 1] /\ docs \in [Rem -> Nat]
      /\ \A q \in Rem : q.id = n.id => docs[q] = 0
  BY <1>1, HandlerAssumption
  DEF CreateInsert, CountInsert, InsertOne, SchedIInv, TypeOK, RepoTypeOK, RepoIInv,
      CheckStillHolds, Found, Stored
<1>3. /\ (HasJob(r.id)' <=> HasJob(r.id)) /\ (Ticking(r.id)' <=> Ticking(r.id))
      /\ (Waiting(r.id)' <=> Waiting(r.id)) /\ (Leaving(r.id)' <=> Leaving(r.id))
      /\ (Removing(r.id)' <=> Removing(r.id))
  BY <1>1, RestKeeps DEF HasJob, Ticking
<1>4. CASE n = r
  <2>1. docs[r] = 0 /\ docs'[r] > 0
    BY <1>2, <1>4
  <2>2. ~HasJob(r.id)
    BY <1>1, <2>1 DEF Kept
  <2> QED BY <1>1, <1>3, <2>1, <2>2 DEF Kept
<1>5. CASE n # r
  <2>1. n.id # r.id /\ docs'[r] = docs[r]
    BY <1>1, <1>2, <1>5, OnlyR
  <2>2. ~Owed(r.id)'
    BY <1>1, <2>1 DEF Owed
  <2> QED BY <1>1, <1>3, <2>1, <2>2, KeptStays
<1> QED BY <1>4, <1>5

LEMMA AddJobKept ==
  ASSUME SchedIInv, StartedDue, Steady, NEW r \in Rem, Watched(r), Kept(r),
         AddJob \/ AddJobThrows
  PROVE  Kept(r)'
<1> DEFINE q == Head(topic).rem
<1> USE HandlerAssumption, JobFacts DEF SchedIInv, TypeOK, CronTypeOK
<1>1. /\ hpc = "job" /\ hpc' = "done" /\ UNCHANGED <<docs, taskVars>> /\ q \in Rem /\ q.id \in Id
      /\ ~Owed(r.id)' /\ ~Doomed(r.id)' /\ ~Doomed(r.id) /\ (Owed(r.id) <=> q.id = r.id)
  BY DEF AddJob, AddJobThrows, repoVars, taskSide, HandlerControl, Owed, Doomed
<1>2. /\ (Waiting(r.id)' <=> Waiting(r.id)) /\ (Leaving(r.id)' <=> Leaving(r.id))
      /\ (Removing(r.id)' <=> Removing(r.id))
  BY <1>1, RestKeeps
<1>3. CASE AddJobThrows
  <2>1. UNCHANGED <<timers, jobs>>
    BY <1>3 DEF AddJobThrows, cronVars
  <2> QED BY <1>1, <1>2, <2>1, KeptStays DEF HasJob, Ticking
<1>4. CASE AddJob
  <2>1. PICK n \in FreeNumbers(Handler, q) :
          /\ jobs' = [jobs EXCEPT ![Handler][q.id] = [rem |-> q, nr |-> n]]
          /\ timers' = IF q.single /\ Recurring(q) THEN timers
                       ELSE [timers EXCEPT ![Handler] = @ \cup {[rem |-> q, nr |-> n]}]
    BY <1>4 DEF AddJob, Arm
  <2> DEFINE j == [rem |-> q, nr |-> n]
  <2>2. j \in Job
    BY <1>1 DEF FreeNumbers
  <2>3. CASE q.id = r.id
    <3>1. q = r /\ ~Recurring(r) /\ r \notin due
      BY <1>1, <1>4, <2>3, OnlyR DEF AddJob, PastDue, Recurring, Watched, OneTimeEvent
    <3>2. ~Leaving(r.id)
      <4> SUFFICES ASSUME NEW t \in Task, pc[t] = "release", TaskId(t) = r.id PROVE FALSE
        BY DEF Leaving
      <4>1. ran[t].rem \in Rem /\ ran[t].rem = r
        BY OnlyR DEF TaskControl, TaskId
      <4> QED BY <3>1, <4>1 DEF StartedDue
    <3>3. Ticking(r.id)'
      BY <1>1, <2>1, <2>2, <3>1 DEF Ticking
    <3>4. docs'[r] > 0
      BY <1>1, <2>3 DEF Kept
    <3> QED BY <1>1, <1>2, <3>2, <3>3, <3>4 DEF Kept
  <2>4. CASE q.id # r.id
    <3>1. jobs'[Handler][r.id] = jobs[Handler][r.id] /\ timers[Handler] \subseteq timers'[Handler]
      BY <1>1, <2>1, <2>4
    <3> QED BY <1>1, <1>2, <3>1, KeptStays DEF HasJob, Ticking
  <2> QED BY <2>3, <2>4
<1> QED BY <1>3, <1>4

LEMMA DeletionKept ==
  ASSUME SchedIInv, RepoIInv, NEW r \in Rem, Watched(r), Kept(r), NEW k \in Id, Delete(k)
  PROVE  Kept(r)'
<1>1. /\ hpc = "idle" /\ hpc' = "unset" /\ victim' = k /\ UNCHANGED <<timers, jobs, topic, taskVars>>
      /\ ~Owed(r.id) /\ ~Doomed(r.id) /\ ~Owed(r.id)'
  BY DEF Delete, Handling, cronVars, taskSide, Owed, Doomed
<1>2. /\ (HasJob(r.id)' <=> HasJob(r.id)) /\ (Ticking(r.id)' <=> Ticking(r.id))
      /\ (Waiting(r.id)' <=> Waiting(r.id)) /\ (Leaving(r.id)' <=> Leaving(r.id))
      /\ (Removing(r.id)' <=> Removing(r.id))
  BY <1>1, RestKeeps DEF HasJob, Ticking
<1>3. PICK q \in Found(k) : DeleteOne(q)
  BY DEF Delete
<1>4. q \in Rem /\ q.id = k /\ docs[q] = 1 /\ docs' = [docs EXCEPT ![q] = @ - 1] /\ docs \in [Rem -> Nat]
  BY <1>3 DEF Found, Stored, DeleteOne, RepoIInv, OneDocPerId, RepoTypeOK
<1>5. CASE k = r.id
  <2>1. docs'[r] = 0 /\ Doomed(r.id)'
    BY <1>1, <1>4, <1>5, OnlyR DEF Doomed
  <2> QED BY <1>1, <1>2, <2>1 DEF Kept
<1>6. CASE k # r.id
  <2>1. docs'[r] = docs[r] /\ ~Doomed(r.id)'
    BY <1>1, <1>4, <1>6 DEF Doomed
  <2> QED BY <1>1, <1>2, <2>1, KeptStays
<1> QED BY <1>5, <1>6

LEMMA UnsetKept ==
  ASSUME SchedIInv, Steady, NEW r \in Rem, Kept(r), Unset
  PROVE  Kept(r)'
<1> USE HandlerAssumption, JobFacts DEF SchedIInv, TypeOK, CronTypeOK
<1>1. /\ hpc = "unset" /\ hpc' \in {"idle", "done"} /\ victim \in Id /\ UNCHANGED <<docs, taskVars>>
      /\ ~Owed(r.id) /\ ~Owed(r.id)' /\ ~Doomed(r.id)' /\ (Doomed(r.id) <=> victim = r.id)
  BY DEF Unset, repoVars, taskSide, HandlerControl, Owed, Doomed
<1>2. /\ \A k \in Id : jobs'[Handler][k] = IF k = victim THEN None ELSE jobs[Handler][k]
      /\ timers'[Handler] = timers[Handler] \ {jobs[Handler][victim]}
  BY <1>1 DEF Unset, StopJob
<1>3. /\ (Waiting(r.id)' <=> Waiting(r.id)) /\ (Leaving(r.id)' <=> Leaving(r.id))
      /\ (Removing(r.id)' <=> Removing(r.id))
  BY <1>1, RestKeeps
<1>4. CASE victim = r.id
  <2>1. ~HasJob(r.id)'
    BY <1>2, <1>4 DEF HasJob
  <2> QED BY <1>1, <1>3, <2>1 DEF Kept
<1>5. CASE victim # r.id
  <2>1. jobs'[Handler][r.id] = jobs[Handler][r.id]
    BY <1>2, <1>5
  <2>2. jobs[Handler][r.id] # jobs[Handler][victim] \/ jobs[Handler][r.id] = None
    BY <1>1, <1>5 DEF Steady
  <2>3. Ticking(r.id) => Ticking(r.id)'
    BY <1>1, <1>2, <2>1, <2>2 DEF Ticking
  <2> QED BY <1>1, <1>3, <1>5, <2>1, <2>3, KeptStays DEF HasJob
<1> QED BY <1>4, <1>5

LEMMA HandlerKept ==
  ASSUME SchedIInv, RepoIInv, StartedDue, Steady, NEW r \in Rem, Watched(r), Kept(r),
         HandlerStep, ~Spend("fault")
  PROVE  Kept(r)'
<1>1. CASE /\ ~CreateInsert /\ ~AddJob /\ ~AddJobThrows
           /\ \A k \in Id : ~Delete(k)
           /\ ~Unset
  <2>1. /\ hpc \in {"idle", "done"} /\ hpc' \in {"idle", "insert", "done"}
        /\ UNCHANGED <<timers, jobs, docs, taskVars>>
    BY <1>1, HandlerStepFrame
    DEF HandlerStep, CreateInvalid, CreateCheck, CreateRefused, CreateInsertFails, DeleteFails,
        DeleteAllDone, Commit, Handling, StoreCheck, StoreRefused, DeleteNone, cronVars,
        repoVars, taskSide
  <2>2. ~Owed(r.id)' /\ ~Doomed(r.id) /\ ~Doomed(r.id)'
    BY <2>1 DEF Owed, Doomed
  <2>3. (HasJob(r.id)' <=> HasJob(r.id)) /\ (Ticking(r.id)' <=> Ticking(r.id))
    BY <2>1 DEF HasJob, Ticking
  <2> QED BY <2>1, <2>2, <2>3, RestKeeps, KeptStays
<1> QED BY <1>1, InsertKept, AddJobKept, DeletionKept, UnsetKept
----------------------------------------------------------------------------
\* The steps of the tasks.

\* The other tasks stay where they are.
LEMMA OthersRest ==
  ASSUME SchedIInv, NEW t \in Task, TaskStep(t) \/ \E j \in Job : Fire(t, j),
         NEW u \in Task, u # t
  PROVE  pc'[u] = pc[u] /\ ran'[u] = ran[u] /\ TaskId(u)' = TaskId(u)
<1>1. pc \in [Task -> Step] /\ ran \in [Task -> Job \cup {None}]
  BY DEF SchedIInv, TypeOK, TaskTypeOK
<1>2. pc'[u] = pc[u] /\ ran'[u] = ran[u]
  BY <1>1 DEF Fire, TaskStep, TaskAcquire, TaskGiveUp, TaskGet, TaskGetNothing, TaskSend,
     TaskSendFails, TaskDelete, TaskDeleteFails, TaskUnset, TaskRelease, Finish, Goto
<1> QED BY <1>2 DEF TaskId

\* What t itself becomes decides what the tasks are to r.
LEMMA OneMoves ==
  ASSUME SchedIInv, NEW t \in Task, TaskStep(t) \/ \E j \in Job : Fire(t, j), NEW i
  PROVE  /\ (pc[t] \in {"acquire", "get", "send"} /\ TaskId(t) = i
               => pc'[t] \in {"acquire", "get", "send"} /\ TaskId(t)' = i)
              => (Waiting(i) => Waiting(i)')
         /\ Leaving(i)' => Leaving(i) \/ (pc'[t] = "release" /\ TaskId(t)' = i)
         /\ Removing(i)' => Removing(i) \/ (pc'[t] \in {"delete", "unset"} /\ TaskId(t)' = i)
<1>1. \A u \in Task : u # t => pc'[u] = pc[u] /\ TaskId(u)' = TaskId(u)
  BY OthersRest
<1>2. ASSUME Waiting(i),
             pc[t] \in {"acquire", "get", "send"} /\ TaskId(t) = i
               => pc'[t] \in {"acquire", "get", "send"} /\ TaskId(t)' = i
      PROVE  Waiting(i)'
  <2>1. PICK u \in Task : pc[u] \in {"acquire", "get", "send"} /\ TaskId(u) = i
    BY <1>2 DEF Waiting
  <2>2. pc'[u] \in {"acquire", "get", "send"} /\ TaskId(u)' = i
    BY <1>1, <1>2, <2>1
  <2> QED BY <2>2 DEF Waiting
<1>3. ASSUME Leaving(i)' PROVE Leaving(i) \/ (pc'[t] = "release" /\ TaskId(t)' = i)
  <2>1. PICK u \in Task : pc'[u] = "release" /\ TaskId(u)' = i
    BY <1>3 DEF Leaving
  <2> QED BY <1>1, <2>1 DEF Leaving
<1>4. ASSUME Removing(i)' PROVE Removing(i) \/ (pc'[t] \in {"delete", "unset"} /\ TaskId(t)' = i)
  <2>1. PICK u \in Task : pc'[u] \in {"delete", "unset"} /\ TaskId(u)' = i
    BY <1>4 DEF Removing
  <2> QED BY <1>1, <2>1 DEF Removing
<1> QED BY <1>2, <1>3, <1>4

LEMMA FireKept ==
  ASSUME SchedIInv, Steady, NEW r \in Rem, Kept(r), NEW t \in Task, NEW j \in Job, Fire(t, j),
         UNCHANGED handlerSide
  PROVE  Kept(r)'
<1> USE HandlerAssumption, JobFacts DEF SchedIInv, TypeOK, CronTypeOK, TaskTypeOK
<1>1. /\ pc[t] = "idle" /\ pc'[t] = "acquire" /\ TaskId(t)' = j.rem.id
      /\ UNCHANGED <<docs, jobs, hpc, topic, victim>>
      /\ timers' = timers \/ timers' = [timers EXCEPT ![ProcOf[t]] = @ \ {j}]
  BY DEF Fire, Goto, TaskId, repoVars, handlerSide, cmdVars
<1>2. /\ Waiting(r.id) => Waiting(r.id)'
      /\ Leaving(r.id)' => Leaving(r.id)
      /\ Removing(r.id)' => Removing(r.id)
  BY <1>1, OneMoves
<1>3. (Owed(r.id)' <=> Owed(r.id)) /\ (Doomed(r.id)' <=> Doomed(r.id)) /\ (HasJob(r.id)' <=> HasJob(r.id))
  BY <1>1 DEF Owed, Doomed, HasJob
<1>4. Ticking(r.id) => Ticking(r.id)' \/ Waiting(r.id)'
  <2>1. CASE j.rem.id = r.id
    BY <1>1, <2>1 DEF Waiting
  <2>2. CASE j.rem.id # r.id
    <3>1. jobs[Handler][r.id] # j
      BY <2>2 DEF Steady
    <3>2. timers[Handler] \ {j} \subseteq timers'[Handler]
      BY <1>1, LockAssumption
    <3> QED BY <1>1, <3>1, <3>2 DEF Ticking
  <2> QED BY <2>1, <2>2
<1> QED BY <1>1, <1>2, <1>3, <1>4, KeptStays

\* A task that moves on without touching the collection or the timers.
LEMMA MoveKept ==
  ASSUME SchedIInv, NEW r \in Rem, Kept(r), NEW t \in Task, TaskStep(t),
         UNCHANGED <<docs, cronVars, handlerSide>>,
         pc[t] \in {"acquire", "get", "send"} /\ TaskId(t) = r.id
           => pc'[t] \in {"acquire", "get", "send"},
         pc'[t] = "release" => TaskId(t) # r.id,
         pc'[t] \notin {"delete", "unset"} \/ TaskId(t) # r.id
  PROVE  Kept(r)'
<1>1. pc'[t] # "idle" => TaskId(t)' = TaskId(t)
  BY RunKeepsJob DEF TaskId
<1>2. /\ Waiting(r.id) => Waiting(r.id)'
      /\ Leaving(r.id)' => Leaving(r.id)
      /\ Removing(r.id)' => Removing(r.id)
  BY <1>1, OneMoves
<1>3. /\ (Owed(r.id)' <=> Owed(r.id)) /\ (Doomed(r.id)' <=> Doomed(r.id))
      /\ (HasJob(r.id)' <=> HasJob(r.id)) /\ (Ticking(r.id)' <=> Ticking(r.id))
  BY DEF Owed, Doomed, HasJob, Ticking, cronVars, handlerSide, cmdVars
<1> QED BY <1>2, <1>3, KeptStays

\* The loser of the lock leaves the event to the winner, which is about to send it.
LEMMA GiveUpKept ==
  ASSUME Context, KeysHeld, Failures = 0, NEW r \in Rem, Kept(r), NEW t \in Task,
         TaskGiveUp(t), UNCHANGED handlerSide, ~Spend("fault")
  PROVE  Kept(r)'
<1>1. /\ pc[t] = "acquire" /\ Finish(t) /\ redis[TaskId(t)] # None
      /\ UNCHANGED <<docs, cronVars, handlerSide>> /\ TaskStep(t)
  BY DEF TaskGiveUp, AcquireRefused, repoVars, TaskStep
<1>2. SchedIInv /\ pc'[t] = "idle"
  BY <1>1, FinishRests DEF Context
<1>3. CASE TaskId(t) # r.id
  BY <1>1, <1>2, <1>3, MoveKept
<1>4. CASE TaskId(t) = r.id
  <2>1. PICK u \in Task : holding[u] = r.id /\ r.id # None
    BY <1>1, <1>4, JobFacts, DeploymentAssumption DEF KeysHeld
  <2>2. Working(u) /\ TaskId(u) = r.id /\ u # t
    BY <1>1, <1>2, <2>1 DEF SchedIInv, WorkersHoldLocks, Working
  <2>3. pc'[u] = pc[u] /\ TaskId(u)' = TaskId(u)
    BY <1>1, <1>2, <2>1, <2>2, OthersRest
  <2>4. (Leaving(r.id)' => Leaving(r.id)) /\ (Removing(r.id)' => Removing(r.id))
    BY <1>1, <1>2, OneMoves
  <2>5. /\ (Owed(r.id)' <=> Owed(r.id)) /\ (Doomed(r.id)' <=> Doomed(r.id))
        /\ (HasJob(r.id)' <=> HasJob(r.id)) /\ docs'[r] = docs[r]
    BY <1>1 DEF Owed, Doomed, HasJob, cronVars, handlerSide, cmdVars
  <2>6. HasJob(r.id) /\ ~Doomed(r.id) => Waiting(r.id)'
    <3>1. pc[u] \notin {"delete", "unset"}
      BY <2>1, <2>2 DEF Kept, Removing
    <3>2. HasJob(r.id) /\ ~Doomed(r.id) => pc[u] # "release"
      BY <2>1, <2>2 DEF Kept, Leaving
    <3> QED BY <2>1, <2>2, <2>3, <3>1, <3>2 DEF Working, Waiting
  <2> QED BY <2>4, <2>5, <2>6 DEF Kept
<1> QED BY <1>3, <1>4

LEMMA GetKept ==
  ASSUME SchedIInv, NEW r \in Rem, Watched(r), Kept(r), NEW t \in Task,
         TaskGet(t) \/ TaskGetNothing(t), UNCHANGED handlerSide, ~Spend("fault")
  PROVE  Kept(r)'
<1>1. /\ pc[t] = "get" /\ UNCHANGED <<docs, cronVars, handlerSide>> /\ TaskStep(t)
      /\ pc'[t] \in {"send", "release"} /\ TaskId(t)' = TaskId(t)
  BY DEF TaskGet, TaskGetNothing, Goto, TaskId, repoVars, TaskStep, SchedIInv, TypeOK, TaskTypeOK
<1>2. CASE TaskId(t) # r.id
  BY <1>1, <1>2, MoveKept
<1>3. CASE TaskId(t) = r.id /\ TaskGet(t)
  <2>1. PICK q \in Found(r.id) : pc' = [pc EXCEPT ![t] = IF q.sendable THEN "send" ELSE "release"]
    BY <1>3 DEF TaskGet, Goto
  <2>2. q = r
    BY <2>1, FoundIn, OnlyR
  <2>3. pc'[t] = "send"
    BY <2>1, <2>2 DEF Watched, SchedIInv, TypeOK, TaskTypeOK
  <2> QED BY <1>1, <2>3, MoveKept
<1>4. CASE TaskId(t) = r.id /\ TaskGetNothing(t)
  <2>1. Found(r.id) = {}
    BY <1>4 DEF TaskGetNothing
  <2>2. ~(docs[r] > 0)
    BY <2>1 DEF Found, Stored
  <2>3. Removing(r.id)' => Removing(r.id)
    BY <1>1, <1>4, OneMoves DEF TaskGetNothing, Goto, SchedIInv, TypeOK, TaskTypeOK
  <2>4. /\ (Owed(r.id)' <=> Owed(r.id)) /\ (Doomed(r.id)' <=> Doomed(r.id))
        /\ (HasJob(r.id)' <=> HasJob(r.id)) /\ docs'[r] = docs[r]
    BY <1>1 DEF Owed, Doomed, HasJob, cronVars, handlerSide, cmdVars
  <2> QED BY <2>2, <2>3, <2>4 DEF Kept
<1> QED BY <1>2, <1>3, <1>4

LEMMA SendKept ==
  ASSUME SchedIInv, GotControl, NEW r \in Rem, Watched(r), sent'[r] = 0, Kept(r),
         NEW t \in Task, TaskSend(t), UNCHANGED handlerSide
  PROVE  Kept(r)'
<1>1. /\ pc[t] = "send" /\ UNCHANGED <<docs, cronVars, handlerSide>> /\ TaskStep(t)
      /\ got[t] \in Rem /\ got[t].id = TaskId(t) /\ sent' = [sent EXCEPT ![got[t]] = @ + 1]
      /\ sent \in [Rem -> Nat]
  BY DEF TaskSend, repoVars, TaskStep, GotControl, SchedIInv, TypeOK, TaskTypeOK
<1>2. TaskId(t) # r.id
  <2>1. got[t] # r
    BY <1>1
  <2> QED BY <1>1, <2>1, OnlyR
<1> QED BY <1>1, <1>2, MoveKept

LEMMA TaskDeleteKept ==
  ASSUME SchedIInv, NEW r \in Rem, Watched(r), Kept(r), NEW t \in Task,
         TaskDelete(t) \/ TaskDeleteFails(t), UNCHANGED handlerSide, ~Spend("fault")
  PROVE  Kept(r)'
<1>1. /\ pc[t] = "delete" /\ UNCHANGED <<cronVars, handlerSide>> /\ TaskStep(t)
  BY DEF TaskDelete, TaskDeleteFails, TaskStep
<1>2. TaskId(t) # r.id
  BY <1>1 DEF Kept, Removing
<1>3. docs \in [Rem -> Nat]
  BY DEF SchedIInv, TypeOK, RepoTypeOK
<1>4. CASE UNCHANGED repoVars
  BY <1>1, <1>2, <1>4, MoveKept DEF repoVars
<1>5. CASE \E q \in Found(TaskId(t)) : DeleteOne(q)
  <2>1. PICK q \in Found(TaskId(t)) : docs' = [docs EXCEPT ![q] = @ - 1]
    BY <1>5 DEF DeleteOne
  <2>2. docs'[r] = docs[r]
    BY <1>2, <1>3, <2>1, FoundIn
  <2>3. pc'[t] # "idle" => TaskId(t)' = TaskId(t)
    BY <1>1, RunKeepsJob DEF TaskId
  <2>4. /\ Waiting(r.id) => Waiting(r.id)'
        /\ Leaving(r.id)' => Leaving(r.id)
        /\ Removing(r.id)' => Removing(r.id)
    BY <1>1, <1>2, <2>3, OneMoves
  <2>5. /\ (Owed(r.id)' <=> Owed(r.id)) /\ (Doomed(r.id)' <=> Doomed(r.id))
        /\ (HasJob(r.id)' <=> HasJob(r.id)) /\ (Ticking(r.id)' <=> Ticking(r.id))
    BY <1>1 DEF Owed, Doomed, HasJob, Ticking, cronVars, handlerSide, cmdVars
  <2> QED BY <2>2, <2>4, <2>5, KeptStays
<1> QED BY <1>4, <1>5 DEF TaskDelete, TaskDeleteFails, DeleteNone

LEMMA TaskUnsetKept ==
  ASSUME SchedIInv, Steady, NEW r \in Rem, Kept(r), NEW t \in Task,
         TaskUnset(t), UNCHANGED handlerSide
  PROVE  Kept(r)'
<1> DEFINE k == TaskId(t)
<1> USE HandlerAssumption, LockAssumption, JobFacts DEF SchedIInv, TypeOK, CronTypeOK
<1>1. /\ pc[t] = "unset" /\ StopJob(ProcOf[t], k) /\ UNCHANGED <<docs, handlerSide>> /\ TaskStep(t)
      /\ k \in Id
  BY DEF TaskUnset, repoVars, TaskStep, TaskControl, TaskId
<1>2. k # r.id
  BY <1>1 DEF Kept, Removing
<1>3. jobs'[Handler][r.id] = jobs[Handler][r.id]
  BY <1>1, <1>2 DEF StopJob
<1>4. jobs[Handler][r.id] \in Job => jobs[Handler][r.id] # jobs[Handler][k]
  BY <1>1, <1>2 DEF Steady
<1>5. Ticking(r.id) => Ticking(r.id)'
  BY <1>1, <1>3, <1>4 DEF StopJob, Ticking
<1>6. pc'[t] # "idle" => TaskId(t)' = TaskId(t)
  BY <1>1, RunKeepsJob DEF TaskId
<1>7. /\ Waiting(r.id) => Waiting(r.id)'
      /\ Leaving(r.id)' => Leaving(r.id)
      /\ Removing(r.id)' => Removing(r.id)
  BY <1>1, <1>2, <1>6, OneMoves DEF TaskUnset, Goto, TaskTypeOK
<1>8. /\ (Owed(r.id)' <=> Owed(r.id)) /\ (Doomed(r.id)' <=> Doomed(r.id))
      /\ (HasJob(r.id)' <=> HasJob(r.id)) /\ docs'[r] = docs[r]
  BY <1>1, <1>3 DEF Owed, Doomed, HasJob, handlerSide, cmdVars
<1> QED BY <1>5, <1>7, <1>8, KeptStays

LEMMA TaskKept ==
  ASSUME Context, GotControl, KeysHeld, Steady, Failures = 0, NEW r \in Rem, Watched(r),
         sent'[r] = 0, Kept(r), NEW t \in Task, TaskStep(t), UNCHANGED handlerSide, ~Spend("fault")
  PROVE  Kept(r)'
<1>1. SchedIInv
  BY DEF Context
<1>2. CASE TaskAcquire(t)
  <2>1. pc[t] = "acquire" /\ pc'[t] = "get" /\ UNCHANGED <<docs, cronVars>>
    BY <1>1, <1>2 DEF TaskAcquire, Goto, repoVars, SchedIInv, TypeOK, TaskTypeOK
  <2> QED BY <1>1, <2>1, MoveKept
<1>3. CASE TaskRelease(t)
  <2>1. pc[t] = "release" /\ pc'[t] = "idle" /\ UNCHANGED <<docs, cronVars>>
    BY <1>1, <1>3, FinishRests DEF TaskRelease, repoVars
  <2> QED BY <1>1, <2>1, MoveKept
<1>4. CASE TaskSendFails(t)
  BY <1>4 DEF TaskSendFails
<1> QED BY <1>1, <1>2, <1>3, <1>4, GiveUpKept, GetKept, SendKept, TaskDeleteKept, TaskUnsetKept
    DEF TaskStep

----------------------------------------------------------------------------
LEMMA KeptStep ==
  ASSUME Context, GotControl, StartedDue, KeysHeld, Steady, AllKept, [Next]_vars
  PROVE  AllKept'
<1> SUFFICES ASSUME Failures' = 0, NEW r \in Rem, Watched(r), sent'[r] = 0 PROVE Kept(r)'
  BY DEF AllKept, Watched, OneTimeEvent, Alone
<1>1. SchedIInv /\ RepoIInv /\ LockIInv
  BY DEF Context
<1>2. Failures = 0 /\ ~Spend("fault") /\ ~Spend("crash")
  BY <1>1, CleanStep
<1>3. Kept(r)
  <2>1. sent[r] \in Nat
    BY <1>1 DEF SchedIInv, TypeOK, TaskTypeOK
  <2>2. sent[r] = 0
    BY <1>1, <2>1, SendsAddUp
  <2> QED BY <1>2, <2>2 DEF AllKept
<1>4. CASE HandlerStep
  BY <1>1, <1>2, <1>3, <1>4, HandlerKept
<1>5. CASE \E t \in Task, j \in Job : Fire(t, j) /\ UNCHANGED handlerSide
  BY <1>1, <1>3, <1>5, FireKept
<1>6. CASE \E t \in Task : TaskStep(t) /\ UNCHANGED handlerSide
  BY <1>2, <1>3, <1>6, TaskKept
<1>7. CASE (\E p \in Proc : Crash(p)) \/ \E t \in Task : ReleaseThrows(t)
  BY <1>1, <1>2, <1>7, ThrowIsCrash DEF Crash
<1>8. CASE \E c \in Request : Submit(c)
  <2>1. UNCHANGED <<timers, jobs, docs, hpc, victim, taskVars>>
    BY <1>8 DEF Submit, cronVars, repoVars, taskSide
  <2>2. hpc # "idle" => Head(topic)' = Head(topic)
    BY <1>1, <1>8 DEF Submit, SchedIInv, TypeOK, CmdTypeOK, HandlerControl
  <2>3. (Owed(r.id)' <=> Owed(r.id)) /\ (Doomed(r.id)' <=> Doomed(r.id))
    BY <2>1, <2>2 DEF Owed, Doomed
  <2>4. (HasJob(r.id)' <=> HasJob(r.id)) /\ (Ticking(r.id)' <=> Ticking(r.id))
    BY <2>1 DEF HasJob, Ticking
  <2> QED BY <1>3, <2>1, <2>3, <2>4, RestKeeps, KeptStays
<1>9. CASE \E p \in Proc : InitJobs(p)
  <2>1. PICK p \in Proc : InitJobs(p)
    BY <1>9
  <2>2. p # Handler
    BY <2>1 DEF InitJobs, Steady
  <2>3. timers'[Handler] = timers[Handler] /\ jobs'[Handler] = jobs[Handler]
    BY <1>1, <2>1, <2>2, HandlerAssumption
    DEF InitJobs, ArmAll, SchedIInv, TypeOK, CronTypeOK
  <2>4. UNCHANGED <<docs, hpc, topic, victim, taskVars>>
    BY <2>1 DEF InitJobs, repoVars, cmdVars
  <2>5. (Owed(r.id)' <=> Owed(r.id)) /\ (Doomed(r.id)' <=> Doomed(r.id))
    BY <2>4 DEF Owed, Doomed
  <2>6. (HasJob(r.id)' <=> HasJob(r.id)) /\ (Ticking(r.id)' <=> Ticking(r.id))
    BY <2>3 DEF HasJob, Ticking
  <2> QED BY <1>3, <2>4, <2>5, <2>6, RestKeeps, KeptStays
<1>10. CASE \/ \E k \in Id : KeyExpires(k)
            \/ \E q \in Rem : /\ TimePasses(q)
                              /\ UNCHANGED <<cronVars, lockVars, repoVars, taskVars, handlerSide>>
            \/ StartHandler
            \/ \E p \in Proc : StartApi(p) \/ InitFails(p)
            \/ UNCHANGED vars
  <2>1. UNCHANGED <<timers, jobs, docs, hpc, topic, victim, taskVars>>
    BY <1>10 DEF KeyExpires, StartHandler, StartApi, InitFails, cronVars, repoVars, cmdVars,
                 handlerSide, vars
  <2>2. (Owed(r.id)' <=> Owed(r.id)) /\ (Doomed(r.id)' <=> Doomed(r.id))
    BY <2>1 DEF Owed, Doomed
  <2>3. (HasJob(r.id)' <=> HasJob(r.id)) /\ (Ticking(r.id)' <=> Ticking(r.id))
    BY <2>1 DEF HasJob, Ticking
  <2> QED BY <1>3, <2>1, <2>2, <2>3, RestKeeps, KeptStays
<1> QED BY <1>4, <1>5, <1>6, <1>7, <1>8, <1>9, <1>10 DEF Next

LEMMA KeptInit == Init => KeysHeld /\ AllKept
<1> SUFFICES ASSUME Init PROVE KeysHeld /\ AllKept
  OBVIOUS
<1>1. /\ hpc = "idle" /\ \A t \in Task : pc[t] = "idle"
      /\ \A i \in Id : redis[i] = None /\ jobs[Handler][i] = None
  BY HandlerAssumption DEF Init, CmdInit, TaskInit, LockInit, CronInit, NoJobs
<1>2. \A r \in Rem : Kept(r)
  BY <1>1, JobFacts DEF Kept, Owed, Doomed, HasJob, Removing
<1> QED BY <1>1, <1>2 DEF KeysHeld, AllKept

\* No event is lost to a race: for any processes, timers and tasks, as long as nothing
\* fails and tasks stay within the time to live of their locks, an event that is
\* stored and has a job in the command handler keeps an armed timer, or a task that
\* is about to send it, until it is sent.
THEOREM ArmedEventsAreKept ==
  ASSUME Overrun = FALSE PROVE Spec => []ArmedIsNotLost
<1>1. Spec => [](Context /\ GotControl)
  BY SystemInContext, PTL DEF SentIInv
<1>2. Init => Steady /\ StartedDue /\ KeysHeld /\ AllKept
  BY SteadyInit, DueInit, KeptInit DEF DueIInv
<1>3. Context /\ GotControl /\ Steady /\ StartedDue /\ KeysHeld /\ AllKept /\ [Next]_vars
        => Steady' /\ StartedDue' /\ KeysHeld' /\ AllKept'
  BY SteadyStep, StartedStep, KeysHeldStep, KeptStep DEF Context
<1>4. Context /\ AllKept => ArmedIsNotLost
  <2> SUFFICES ASSUME Context, AllKept, Failures = 0, NEW r \in Stored, OneTimeEvent(r),
                      r.sendable, Alone(r), jobs[Handler][r.id] # None, ~(sent[r] > 0)
               PROVE  Ticking(r.id) \/ Waiting(r.id)
    BY DEF ArmedIsNotLost, Ticking, Waiting
  <2>1. r \in Rem /\ docs[r] > 0 /\ docs[r] \in Nat
    BY DEF Stored, Context, SchedIInv, TypeOK, RepoTypeOK
  <2>2. sent[r] = 0
    BY <2>1 DEF Context, SchedIInv, TypeOK, TaskTypeOK
  <2>3. Kept(r)
    BY <2>1, <2>2 DEF AllKept, Watched
  <2>4. ~Doomed(r.id)
    BY <2>1, <2>3 DEF Kept
  <2> QED BY <2>3, <2>4 DEF Kept, HasJob
<1> QED BY <1>1, <1>2, <1>3, <1>4, PTL DEF Spec

----------------------------------------------------------------------------
\* How far the promises go that the runs refute.

\* "Maintaining a schedule of reminders received": as long as no call fails and no
\* process dies, the command handler has a timer for every recurring reminder that is
\* stored under an id whose events have not gone out.  So StoredIsScheduled, which a
\* restart breaks, takes a failure or a deletion after a send to break.
THEOREM ScheduleLastsUntilAFailure ==
  ASSUME Overrun = FALSE
  PROVE  Spec => [](Failures = 0 /\ Quiet =>
                      \A r \in Stored : Recurring(r) /\ ~r.single /\ ~EventSent(r.id)
                                         => \E j \in timers[Handler] : j.rem = r)
<1>1. ScheduleMatchesStore =>
        (Failures = 0 /\ Quiet =>
           \A r \in Stored : Recurring(r) /\ ~r.single /\ ~EventSent(r.id)
                              => \E j \in timers[Handler] : j.rem = r)
  <2> SUFFICES ASSUME ScheduleMatchesStore, Failures = 0, Quiet,
                      NEW r \in Stored, Recurring(r), ~r.single, ~EventSent(r.id)
               PROVE  \E j \in timers[Handler] : j.rem = r
    OBVIOUS
  <2>1. r.id \in Id /\ r \in Found(r.id)
    BY RemindersAssumption DEF Stored, Found, ReminderType
  <2>2. Awaited(r)
    BY DEF Awaited
  <2> QED BY <2>1, <2>2 DEF ScheduleMatchesStore, Quiet
<1> QED BY <1>1, TimersFollowTheStore, PTL

\* What a task is about to delete was read as a date when it was sent.
DeletesDated == \A t \in Task : pc[t] = "delete" => ReadAsDate(got[t])

LEMMA DeletesDatedStep ==
  ASSUME SchedIInv, DeletesDated, [Next]_vars
  PROVE  DeletesDated'
<1> SUFFICES ASSUME NEW t \in Task, pc'[t] = "delete" PROVE ReadAsDate(got[t])'
  BY DEF DeletesDated
<1>1. pc \in [Task -> Step]
  BY DEF SchedIInv, TypeOK, TaskTypeOK
<1>2. ReadAsDate(got[t])' = ReadAsDate(got'[t])
  BY DEF ReadAsDate
<1>3. CASE pc'[t] = pc[t] /\ got'[t] = got[t]
  BY <1>2, <1>3 DEF DeletesDated
<1>4. CASE TaskStep(t)
  <2>1. TaskSend(t)
    BY <1>1, <1>4
    DEF TaskStep, TaskAcquire, TaskGiveUp, TaskGet, TaskGetNothing, TaskSendFails,
        TaskDelete, TaskDeleteFails, TaskUnset, TaskRelease, Finish, Goto
  <2>2. pc'[t] = AfterSend(got[t]) /\ got'[t] = got[t]
    BY <1>1, <2>1 DEF TaskSend, Goto
  <2> QED BY <1>2, <2>2 DEF AfterSend
<1>5. CASE \E j \in Job : Fire(t, j)
  BY <1>1, <1>5 DEF Fire, Goto
<1> QED BY <1>3, <1>4, <1>5, TaskMoves

\* "Delete the reminder if it's a valid date": a recurring reminder that a task
\* deletes has a pattern with a number that Date.parse() takes for a month.  So
\* RecurringIsKept is refuted by such patterns only.
THEOREM OnlyNumberedAreDeleted ==
  Spec => [][\A t \in Task : pc[t] = "delete" /\ pc'[t] = "unset" /\ Recurring(got[t])
                               => got[t].time = "numbered"]_vars
<1>1. Init => SchedIInv /\ DeletesDated
  BY SchedInit DEF Init, TaskInit, DeletesDated
<1>2. SchedIInv /\ DeletesDated /\ [Next]_vars => SchedIInv' /\ DeletesDated'
  BY NextPreserves, DeletesDatedStep
<1>3. DeletesDated =>
        \A t \in Task : pc[t] = "delete" /\ pc'[t] = "unset" /\ Recurring(got[t])
                          => got[t].time = "numbered"
  BY DEF DeletesDated, ReadAsDate, Recurring
<1> QED BY <1>1, <1>2, <1>3, PTL DEF Spec
=============================================================================
