-------------------------- MODULE Scheduling_proofs --------------------------
(* The composed system: it keeps its types, each of its steps is a step of the *)
(* locks and a step of the collection or leaves them alone, and therefore what *)
(* is proved of those holds of the system; with the fact that a task is        *)
(* between acquire() and release() exactly while it holds a lock, it follows   *)
(* that two tasks never work on one reminder.                                  *)
EXTENDS Scheduling, RedisLocks_proofs, MongoRepo_proofs

\* What the program counters say about the data that the next step uses.
TaskControl ==
  \A t \in Task : /\ pc[t] # "idle" => ran[t] \in Job
                  /\ pc[t] = "send" => got[t] \in Rem

HandlerControl ==
  /\ hpc # "idle" => topic # <<>>
  /\ hpc \in {"insert", "job"} => Head(topic) \in [op : {"create"}, rem : Rem]
  /\ hpc = "insert" => storing[Handler] \in Rem
  /\ hpc = "unset" => victim \in Id

SchedIInv == TypeOK /\ TaskControl /\ HandlerControl /\ WorkersHoldLocks

LEMMA JobFacts ==
  /\ None \notin Job
  /\ \A j \in Job : j.rem \in Rem /\ j.rem.id \in Id
  /\ \A r \in Rem : r.id \in Id /\ \A n \in 1..MaxJobs : [rem |-> r, nr |-> n] \in Job
BY JobsAssumption, DeploymentAssumption DEF Job

LEMMA SchedInit == Init => SchedIInv
<1> SUFFICES ASSUME Init PROVE SchedIInv
  OBVIOUS
<1>1. EnvTypeOK
  BY RemindersAssumption DEF Init, EnvInit, EnvTypeOK
<1>2. CronTypeOK
  BY DEF Init, CronInit, CronTypeOK, NoJobs
<1>3. LockTypeOK
  BY DEF Init, LockInit, LockTypeOK
<1>4. RepoTypeOK
  BY DEF Init, RepoInit, RepoTypeOK
<1>5. TaskTypeOK
  BY DEF Init, TaskInit, TaskTypeOK, Step
<1>6. CmdTypeOK
  BY DEF Init, CmdInit, CmdTypeOK
<1>7. TaskControl /\ HandlerControl /\ WorkersHoldLocks
  BY DEF Init, TaskInit, CmdInit, LockInit, TaskControl, HandlerControl,
         WorkersHoldLocks, Working
<1> QED BY <1>1, <1>2, <1>3, <1>4, <1>5, <1>6, <1>7 DEF SchedIInv, TypeOK

----------------------------------------------------------------------------
\* The operations of the components keep the components' types.

LEMMA SpendType ==
  ASSUME EnvTypeOK, NEW k \in EventKind, Spend(k), UNCHANGED due
  PROVE  EnvTypeOK'
BY DEF EnvTypeOK, Spend, EventKind

LEMMA StopType ==
  ASSUME CronTypeOK, NEW p \in Proc, NEW i \in Id, StopJob(p, i)
  PROVE  CronTypeOK'
BY DEF CronTypeOK, StopJob

LEMMA ArmType ==
  ASSUME CronTypeOK, NEW p \in Proc, NEW r \in Rem, Arm(p, r)
  PROVE  CronTypeOK'
<1>1. PICK n \in FreeNumbers(p, r) :
        /\ jobs' = [jobs EXCEPT ![p][r.id] = [rem |-> r, nr |-> n]]
        /\ timers' = IF r.single /\ Recurring(r) THEN timers
                     ELSE [timers EXCEPT ![p] = @ \cup {[rem |-> r, nr |-> n]}]
  BY DEF Arm
<1>2. r.id \in Id /\ [rem |-> r, nr |-> n] \in Job
  BY JobFacts DEF FreeNumbers
<1> QED BY <1>1, <1>2 DEF CronTypeOK

LEMMA ArmAllType ==
  ASSUME CronTypeOK, NEW p \in Proc, NEW S \in SUBSET Rem, ArmAll(p, S)
  PROVE  CronTypeOK'
<1> DEFINE job(r) == [rem |-> r, nr |-> 1]
           of(i)  == {r \in S : r.id = i}
           entry  == [i \in Id |-> IF of(i) = {} THEN None ELSE job(CHOOSE r \in of(i) : TRUE)]
<1>1. \A r \in S : job(r) \in Job
  BY JobsAssumption DEF Job
<1>2. entry \in [Id -> Job \cup {None}]
  <2> SUFFICES ASSUME NEW i \in Id, of(i) # {}
               PROVE  job(CHOOSE r \in of(i) : TRUE) \in Job
    OBVIOUS
  <2>1. (CHOOSE r \in of(i) : TRUE) \in S
    OBVIOUS
  <2> QED BY <1>1, <2>1
<1>3. timers' = [timers EXCEPT ![p] = {job(r) : r \in S}]
  BY DEF ArmAll
<1>4. jobs' = [jobs EXCEPT ![p] = entry]
  BY DEF ArmAll
<1> QED BY <1>1, <1>2, <1>3, <1>4 DEF CronTypeOK

LEMMA DropType ==
  ASSUME CronTypeOK, NEW p \in Proc, DropJobs(p)
  PROVE  CronTypeOK'
BY DEF CronTypeOK, DropJobs, NoJobs

LEMMA AcquireType ==
  ASSUME LockTypeOK, NEW t \in Task, NEW i \in Id, AcquireOk(t, i)
  PROVE  LockTypeOK'
BY LockAssumption DEF LockTypeOK, AcquireOk

LEMMA LostType ==
  ASSUME LockTypeOK, NEW t \in Task, NEW i \in Id, AcquireLost(t, i)
  PROVE  LockTypeOK' /\ UNCHANGED holding
BY DEF LockTypeOK, AcquireLost

LEMMA ReleaseType ==
  ASSUME LockTypeOK, NEW t \in Task, ReleaseOk(t)
  PROVE  LockTypeOK'
BY DEF LockTypeOK, ReleaseOk

LEMMA InsertType ==
  ASSUME RepoTypeOK, NEW p \in Proc, InsertOne(p)
  PROVE  RepoTypeOK'
BY DEF RepoTypeOK, InsertOne

LEMMA DeleteType ==
  ASSUME RepoTypeOK, NEW r \in Rem, DeleteOne(r)
  PROVE  RepoTypeOK'
BY DEF RepoTypeOK, DeleteOne

LEMMA FinishType ==
  ASSUME TaskTypeOK, NEW t \in Task, Finish(t)
  PROVE  TaskTypeOK'
BY DEF TaskTypeOK, Finish, Goto, Step

LEMMA FoundIn == \A i : Found(i) \subseteq Rem /\ \A r \in Found(i) : r.id = i
BY DEF Found, Stored
----------------------------------------------------------------------------
\* A step of a task preserves the invariant: one lemma per action.

LEMMA FirePreserves ==
  ASSUME SchedIInv, NEW t \in Task, NEW j \in Job, Fire(t, j), UNCHANGED handlerSide
  PROVE  SchedIInv'
<1> USE DEF SchedIInv, TypeOK
<1>1. EnvTypeOK'
  BY SpendType DEF Fire, EnvTypeOK, envVars, EventKind
<1>2. CronTypeOK'
  BY LockAssumption DEF Fire, CronTypeOK
<1>3. TaskTypeOK' /\ TaskControl'
  BY DEF Fire, TaskTypeOK, TaskControl, Goto, Step
<1>4. LockTypeOK' /\ RepoTypeOK' /\ CmdTypeOK' /\ HandlerControl'
  BY DEF Fire, LockTypeOK, lockVars, RepoTypeOK, repoVars, CmdTypeOK, HandlerControl,
         handlerSide, lifeVars, cmdVars
<1>5. WorkersHoldLocks'
  BY DEF Fire, TaskTypeOK, WorkersHoldLocks, Working, TaskId, Goto, lockVars
<1> QED BY <1>1, <1>2, <1>3, <1>4, <1>5

LEMMA AcquireStepPreserves ==
  ASSUME SchedIInv, NEW t \in Task, TaskAcquire(t), UNCHANGED handlerSide
  PROVE  SchedIInv'
<1> USE DEF SchedIInv, TypeOK
<1>1. TaskId(t) \in Id
  BY JobFacts DEF TaskControl, TaskAcquire, TaskId
<1>2. LockTypeOK'
  BY <1>1, AcquireType DEF TaskAcquire
<1>3. TaskTypeOK' /\ TaskControl'
  BY DEF TaskAcquire, TaskTypeOK, TaskControl, Goto, Step
<1>4. EnvTypeOK' /\ CronTypeOK' /\ RepoTypeOK' /\ CmdTypeOK' /\ HandlerControl'
  BY DEF TaskAcquire, EnvTypeOK, envVars, CronTypeOK, cronVars, RepoTypeOK, repoVars,
         CmdTypeOK, HandlerControl, handlerSide, lifeVars, cmdVars
<1>5. WorkersHoldLocks'
  BY DEF TaskAcquire, AcquireOk, LockTypeOK, TaskTypeOK, WorkersHoldLocks, Working,
         TaskId, Goto
<1> QED BY <1>2, <1>3, <1>4, <1>5

LEMMA GiveUpPreserves ==
  ASSUME SchedIInv, NEW t \in Task, TaskGiveUp(t), UNCHANGED handlerSide
  PROVE  SchedIInv'
<1> USE DEF SchedIInv, TypeOK
<1>1. EnvTypeOK'
  BY SpendType DEF TaskGiveUp, EnvTypeOK, EventKind
<1>2. TaskTypeOK' /\ TaskControl'
  BY FinishType DEF TaskGiveUp, Finish, TaskTypeOK, TaskControl, Goto
<1>3. CronTypeOK' /\ RepoTypeOK' /\ CmdTypeOK' /\ HandlerControl'
  BY DEF TaskGiveUp, CronTypeOK, cronVars, RepoTypeOK,
         repoVars, CmdTypeOK, HandlerControl, handlerSide, lifeVars, cmdVars
<1>4. LockTypeOK' /\ UNCHANGED holding
  <2>1. TaskId(t) \in Id
    BY JobFacts DEF TaskControl, TaskGiveUp, TaskId
  <2>2. CASE UNCHANGED lockVars
    BY <2>2 DEF LockTypeOK, lockVars
  <2>3. CASE AcquireLost(t, TaskId(t))
    BY <2>1, <2>3, LostType
  <2> QED BY <2>2, <2>3 DEF TaskGiveUp, AcquireRefused
<1>5. WorkersHoldLocks'
  BY <1>4 DEF TaskGiveUp, Finish, TaskTypeOK, WorkersHoldLocks, Working, TaskId, Goto
<1> QED BY <1>1, <1>2, <1>3, <1>4, <1>5

LEMMA GetPreserves ==
  ASSUME SchedIInv, NEW t \in Task, TaskGet(t) \/ TaskGetNothing(t), UNCHANGED handlerSide
  PROVE  SchedIInv'
<1> USE DEF SchedIInv, TypeOK
<1>1. EnvTypeOK'
  BY SpendType DEF TaskGet, TaskGetNothing, EnvTypeOK, envVars, EventKind
<1>2. TaskTypeOK' /\ TaskControl'
  BY FoundIn DEF TaskGet, TaskGetNothing, TaskTypeOK, TaskControl, Goto, Step
<1>3. CronTypeOK' /\ LockTypeOK' /\ RepoTypeOK' /\ CmdTypeOK' /\ HandlerControl'
  BY DEF TaskGet, TaskGetNothing, CronTypeOK, cronVars, LockTypeOK, lockVars, RepoTypeOK,
         repoVars, CmdTypeOK, HandlerControl, handlerSide, lifeVars, cmdVars
<1>4. WorkersHoldLocks'
  BY DEF TaskGet, TaskGetNothing, TaskTypeOK, WorkersHoldLocks, Working, TaskId, Goto, lockVars
<1> QED BY <1>1, <1>2, <1>3, <1>4

LEMMA SendStepPreserves ==
  ASSUME SchedIInv, NEW t \in Task, TaskSend(t) \/ TaskSendFails(t), UNCHANGED handlerSide
  PROVE  SchedIInv'
<1> USE DEF SchedIInv, TypeOK
<1>1. EnvTypeOK'
  BY SpendType DEF TaskSend, TaskSendFails, EnvTypeOK, envVars, EventKind
<1>2. AfterSend(got[t]) \in {"delete", "release"}
  BY DEF AfterSend
<1>3. TaskTypeOK' /\ TaskControl'
  BY <1>2 DEF TaskSend, TaskSendFails, TaskTypeOK, TaskControl, Goto, Step
<1>4. CronTypeOK' /\ LockTypeOK' /\ RepoTypeOK' /\ CmdTypeOK' /\ HandlerControl'
  BY DEF TaskSend, TaskSendFails, CronTypeOK, cronVars, LockTypeOK, lockVars, RepoTypeOK,
         repoVars, CmdTypeOK, HandlerControl, handlerSide, lifeVars, cmdVars
<1>5. WorkersHoldLocks'
  BY <1>2
  DEF TaskSend, TaskSendFails, TaskTypeOK, WorkersHoldLocks, Working, TaskId, Goto, lockVars
<1> QED BY <1>1, <1>3, <1>4, <1>5

LEMMA DeleteStepPreserves ==
  ASSUME SchedIInv, NEW t \in Task, TaskDelete(t) \/ TaskDeleteFails(t), UNCHANGED handlerSide
  PROVE  SchedIInv'
<1> USE DEF SchedIInv, TypeOK
<1>1. EnvTypeOK'
  BY SpendType DEF TaskDelete, TaskDeleteFails, EnvTypeOK, envVars, EventKind
<1>2. RepoTypeOK' /\ UNCHANGED storing
  <2>1. CASE UNCHANGED repoVars
    BY <2>1 DEF RepoTypeOK, repoVars
  <2>2. CASE \E r \in Found(TaskId(t)) : DeleteOne(r)
    BY <2>2, FoundIn, DeleteType DEF DeleteOne
  <2> QED BY <2>1, <2>2 DEF TaskDelete, TaskDeleteFails, DeleteNone
<1>3. TaskTypeOK' /\ TaskControl'
  BY DEF TaskDelete, TaskDeleteFails, TaskTypeOK, TaskControl, Goto, Step
<1>4. CronTypeOK' /\ LockTypeOK' /\ CmdTypeOK' /\ HandlerControl'
  BY <1>2
  DEF TaskDelete, TaskDeleteFails, CronTypeOK, cronVars, LockTypeOK, lockVars,
      CmdTypeOK, HandlerControl, handlerSide, lifeVars, cmdVars
<1>5. WorkersHoldLocks'
  BY DEF TaskDelete, TaskDeleteFails, TaskTypeOK, WorkersHoldLocks, Working, TaskId, Goto, lockVars
<1> QED BY <1>1, <1>2, <1>3, <1>4, <1>5

LEMMA UnsetStepPreserves ==
  ASSUME SchedIInv, NEW t \in Task, TaskUnset(t), UNCHANGED handlerSide
  PROVE  SchedIInv'
<1> USE DEF SchedIInv, TypeOK
<1>1. CronTypeOK'
  <2>1. TaskId(t) \in Id /\ ProcOf[t] \in Proc
    BY JobFacts, LockAssumption DEF TaskControl, TaskUnset, TaskId
  <2> QED BY <2>1, StopType DEF TaskUnset
<1>2. TaskTypeOK' /\ TaskControl'
  BY DEF TaskUnset, TaskTypeOK, TaskControl, Goto, Step
<1>3. EnvTypeOK' /\ LockTypeOK' /\ RepoTypeOK' /\ CmdTypeOK' /\ HandlerControl'
  BY DEF TaskUnset, EnvTypeOK, envVars, LockTypeOK, lockVars, RepoTypeOK, repoVars,
         CmdTypeOK, HandlerControl, handlerSide, lifeVars, cmdVars
<1>4. WorkersHoldLocks'
  BY DEF TaskUnset, TaskTypeOK, WorkersHoldLocks, Working, TaskId, Goto, lockVars
<1> QED BY <1>1, <1>2, <1>3, <1>4

LEMMA ReleaseStepPreserves ==
  ASSUME SchedIInv, NEW t \in Task, TaskRelease(t), UNCHANGED handlerSide
  PROVE  SchedIInv'
<1> USE DEF SchedIInv, TypeOK
<1>1. LockTypeOK'
  BY ReleaseType DEF TaskRelease
<1>2. TaskTypeOK' /\ TaskControl'
  BY FinishType DEF TaskRelease, Finish, TaskTypeOK, TaskControl, Goto
<1>3. EnvTypeOK' /\ CronTypeOK' /\ RepoTypeOK' /\ CmdTypeOK' /\ HandlerControl'
  BY DEF TaskRelease, EnvTypeOK, envVars, CronTypeOK, cronVars, RepoTypeOK, repoVars,
         CmdTypeOK, HandlerControl, handlerSide, lifeVars, cmdVars
<1>4. WorkersHoldLocks'
  BY DEF TaskRelease, ReleaseOk, Finish, LockTypeOK, TaskTypeOK, WorkersHoldLocks,
         Working, TaskId, Goto
<1> QED BY <1>1, <1>2, <1>3, <1>4

LEMMA TaskStepPreserves ==
  ASSUME SchedIInv, NEW t \in Task, TaskStep(t), UNCHANGED handlerSide
  PROVE  SchedIInv'
BY AcquireStepPreserves, GiveUpPreserves, GetPreserves, SendStepPreserves,
   DeleteStepPreserves, UnsetStepPreserves, ReleaseStepPreserves DEF TaskStep

----------------------------------------------------------------------------
\* A step of the command handler preserves the invariant.

\* What the command handler leaves alone keeps its part of the invariant.
LEMMA HandlerFrame ==
  ASSUME SchedIInv, UNCHANGED taskSide
  PROVE  /\ TaskTypeOK' /\ TaskControl' /\ LockTypeOK' /\ WorkersHoldLocks'
         /\ mode' = mode /\ snapshot' = snapshot /\ due' = due
BY DEF SchedIInv, TypeOK, TaskTypeOK, TaskControl, LockTypeOK, WorkersHoldLocks, Working,
       TaskId, taskSide, taskVars, lockVars, lifeVars

LEMMA Commands == \A c \in Command :
  /\ c.op \in {"create", "delete", "deleteAll"}
  /\ c.op = "create" => c \in [op : {"create"}, rem : Rem]
  /\ c.op = "delete" => c.id \in Id
BY DEF Command

LEMMA HeadTail ==
  ASSUME topic \in Seq(Command), topic # <<>>
  PROVE  Head(topic) \in Command /\ Tail(topic) \in Seq(Command)
OBVIOUS

LEMMA SubmitPreserves ==
  ASSUME SchedIInv, NEW c \in Request, Submit(c)
  PROVE  SchedIInv'
<1> USE DEF SchedIInv, TypeOK
<1>1. EnvTypeOK'
  BY HandlerFrame, SpendType DEF Submit, EventKind
<1>2. topic' \in Seq(Command) /\ topic' # <<>> /\ (topic # <<>> => Head(topic') = Head(topic))
  BY HandlerAssumption DEF Submit, CmdTypeOK
<1>3. CmdTypeOK' /\ HandlerControl'
  BY <1>2, HandlerFrame DEF Submit, CmdTypeOK, HandlerControl, repoVars
<1>4. CronTypeOK' /\ RepoTypeOK'
  BY DEF Submit, CronTypeOK, cronVars, RepoTypeOK, repoVars
<1> QED BY <1>1, <1>3, <1>4, HandlerFrame DEF Submit

LEMMA CreateStepPreserves ==
  ASSUME SchedIInv, CreateInvalid \/ CreateCheck \/ CreateRefused
  PROVE  SchedIInv'
<1> USE DEF SchedIInv, TypeOK
<1>1. UNCHANGED taskSide /\ topic # <<>> /\ Head(topic) \in [op : {"create"}, rem : Rem]
  BY HeadTail, Commands DEF CreateInvalid, CreateCheck, CreateRefused, Handling, CmdTypeOK
<1>2. EnvTypeOK'
  BY <1>1, HandlerFrame, SpendType
  DEF CreateInvalid, CreateCheck, CreateRefused, EventKind, EnvTypeOK
<1>3. RepoTypeOK' /\ (hpc' = "insert" => storing'[Handler] \in Rem)
  BY <1>1, HandlerAssumption
  DEF CreateInvalid, CreateCheck, CreateRefused, StoreCheck, StoreRefused, RepoTypeOK, repoVars
<1>4. CmdTypeOK' /\ HandlerControl'
  BY <1>1, <1>3, HandlerFrame
  DEF CreateInvalid, CreateCheck, CreateRefused, CmdTypeOK, HandlerControl
<1>5. CronTypeOK'
  BY DEF CreateInvalid, CreateCheck, CreateRefused, CronTypeOK, cronVars
<1> QED BY <1>1, <1>2, <1>3, <1>4, <1>5, HandlerFrame

LEMMA InsertStepPreserves ==
  ASSUME SchedIInv, CreateInsert \/ CreateInsertFails
  PROVE  SchedIInv'
<1> USE DEF SchedIInv, TypeOK
<1>1. UNCHANGED taskSide /\ storing[Handler] \in Rem /\ Handler \in Proc
  BY HandlerAssumption DEF CreateInsert, CreateInsertFails, HandlerControl
<1>2. EnvTypeOK'
  BY <1>1, HandlerFrame, SpendType DEF CreateInsert, CreateInsertFails, EventKind, EnvTypeOK
<1>3. RepoTypeOK' /\ inserted' \in [Rem -> Nat]
  <2>1. CASE CountInsert
    BY <1>1, <2>1, InsertType DEF CountInsert, CmdTypeOK
  <2>2. CASE InsertAborted(Handler) /\ UNCHANGED inserted
    BY <2>2 DEF InsertAborted, RepoTypeOK, CmdTypeOK
  <2> QED BY <2>1, <2>2 DEF CreateInsert, CreateInsertFails
<1>4. CmdTypeOK' /\ HandlerControl'
  BY <1>1, <1>3, HandlerFrame DEF CreateInsert, CreateInsertFails, CmdTypeOK, HandlerControl
<1>5. CronTypeOK'
  BY DEF CreateInsert, CreateInsertFails, CronTypeOK, cronVars
<1> QED BY <1>1, <1>2, <1>3, <1>4, <1>5, HandlerFrame

LEMMA JobStepPreserves ==
  ASSUME SchedIInv, AddJob \/ AddJobThrows
  PROVE  SchedIInv'
<1> USE DEF SchedIInv, TypeOK
<1>1. UNCHANGED taskSide /\ Head(topic).rem \in Rem /\ Handler \in Proc
  BY HandlerAssumption DEF AddJob, AddJobThrows, HandlerControl
<1>2. CronTypeOK'
  BY <1>1, ArmType DEF AddJob, AddJobThrows, CronTypeOK, cronVars
<1>3. CmdTypeOK' /\ HandlerControl'
  BY <1>1, HandlerFrame DEF AddJob, AddJobThrows, CmdTypeOK, HandlerControl
<1>4. EnvTypeOK' /\ RepoTypeOK'
  BY <1>1, HandlerFrame DEF AddJob, AddJobThrows, EnvTypeOK, RepoTypeOK, repoVars
<1> QED BY <1>1, <1>2, <1>3, <1>4, HandlerFrame

LEMMA DeleteCommandPreserves ==
  ASSUME SchedIInv, NEW i \in Id, Delete(i) \/ DeleteFails(i)
  PROVE  SchedIInv'
<1> USE DEF SchedIInv, TypeOK
<1>1. UNCHANGED taskSide /\ topic # <<>>
  BY DEF Delete, DeleteFails, Handling
<1>2. EnvTypeOK'
  BY <1>1, HandlerFrame, SpendType DEF Delete, DeleteFails, EventKind, EnvTypeOK
<1>3. RepoTypeOK' /\ UNCHANGED storing
  <2>1. CASE UNCHANGED repoVars
    BY <2>1 DEF RepoTypeOK, repoVars
  <2>2. CASE \E r \in Found(i) : DeleteOne(r)
    BY <2>2, FoundIn, DeleteType DEF DeleteOne
  <2> QED BY <2>1, <2>2 DEF Delete, DeleteFails, DeleteNone
<1>4. CmdTypeOK' /\ HandlerControl'
  BY <1>1, HandlerFrame DEF Delete, DeleteFails, CmdTypeOK, HandlerControl
<1>5. CronTypeOK'
  BY DEF Delete, DeleteFails, CronTypeOK, cronVars
<1> QED BY <1>1, <1>2, <1>3, <1>4, <1>5, HandlerFrame

LEMMA UnsetPreserves ==
  ASSUME SchedIInv, Unset
  PROVE  SchedIInv'
<1> USE DEF SchedIInv, TypeOK
<1>1. UNCHANGED taskSide /\ victim \in Id /\ Handler \in Proc
  BY HandlerAssumption DEF Unset, HandlerControl
<1>2. CronTypeOK'
  BY <1>1, StopType DEF Unset
<1>3. CmdTypeOK' /\ HandlerControl'
  BY <1>1, HandlerFrame DEF Unset, CmdTypeOK, HandlerControl
<1>4. EnvTypeOK' /\ RepoTypeOK'
  BY <1>1, HandlerFrame DEF Unset, EnvTypeOK, RepoTypeOK, repoVars
<1> QED BY <1>1, <1>2, <1>3, <1>4, HandlerFrame

LEMMA CommitPreserves ==
  ASSUME SchedIInv, DeleteAllDone \/ Commit
  PROVE  SchedIInv'
<1> USE DEF SchedIInv, TypeOK
<1>1. UNCHANGED taskSide /\ topic # <<>>
  BY DEF DeleteAllDone, Commit, Handling, HandlerControl
<1>2. topic' \in Seq(Command)
  BY <1>1, HeadTail DEF DeleteAllDone, Commit, CmdTypeOK
<1>3. CmdTypeOK' /\ HandlerControl'
  BY <1>1, <1>2, HandlerFrame DEF DeleteAllDone, Commit, CmdTypeOK, HandlerControl
<1>4. EnvTypeOK' /\ CronTypeOK' /\ RepoTypeOK'
  BY <1>1, HandlerFrame
  DEF DeleteAllDone, Commit, EnvTypeOK, CronTypeOK, cronVars, RepoTypeOK, repoVars
<1> QED BY <1>1, <1>3, <1>4, HandlerFrame

LEMMA HandlerStepPreserves ==
  ASSUME SchedIInv, HandlerStep
  PROVE  SchedIInv'
BY CreateStepPreserves, InsertStepPreserves, JobStepPreserves, DeleteCommandPreserves,
   UnsetPreserves, CommitPreserves DEF HandlerStep

----------------------------------------------------------------------------
\* The remaining steps: processes that start and end, keys and times.

LEMMA EndPreserves ==
  ASSUME SchedIInv, NEW p \in Proc, ProcessEnds(p), EnvTypeOK',
         redis' \in [Id -> Task \cup {None, Orphan}]
  PROVE  SchedIInv'
<1> USE DEF SchedIInv, TypeOK
<1>1. CronTypeOK'
  BY DropType DEF ProcessEnds
<1>2. LockTypeOK'
  BY DEF ProcessEnds, Forgets, LockTypeOK
<1>3. RepoTypeOK' /\ (p # Handler => storing'[Handler] = storing[Handler])
  BY HandlerAssumption DEF ProcessEnds, RepoTypeOK
<1>4. TaskTypeOK' /\ TaskControl'
  BY DEF ProcessEnds, TaskTypeOK, TaskControl, Step
<1>5. CmdTypeOK' /\ HandlerControl'
  BY <1>3 DEF ProcessEnds, CmdTypeOK, HandlerControl
<1>6. WorkersHoldLocks'
  BY DEF ProcessEnds, Forgets, TaskTypeOK, WorkersHoldLocks, Working, TaskId
<1> QED BY <1>1, <1>2, <1>3, <1>4, <1>5, <1>6

LEMMA CrashPreserves ==
  ASSUME SchedIInv, NEW p \in Proc, Crash(p)
  PROVE  SchedIInv'
<1>1. EnvTypeOK'
  BY SpendType DEF Crash, ProcessEnds, EventKind, SchedIInv, TypeOK
<1> QED BY <1>1, EndPreserves DEF Crash, SchedIInv, TypeOK, LockTypeOK

LEMMA ReleaseThrowsPreserves ==
  ASSUME SchedIInv, NEW t \in Task, ReleaseThrows(t)
  PROVE  SchedIInv'
<1>1. EnvTypeOK' /\ ProcOf[t] \in Proc
  BY SpendType, LockAssumption
  DEF ReleaseThrows, ProcessEnds, EnvTypeOK, EventKind, SchedIInv, TypeOK
<1>2. redis' \in [Id -> Task \cup {None, Orphan}]
  BY DEF ReleaseThrows, ReleaseUnanswered, LockTypeOK, SchedIInv, TypeOK
<1> QED BY <1>1, <1>2, EndPreserves DEF ReleaseThrows

LEMMA KeyExpiresPreserves ==
  ASSUME SchedIInv, NEW i \in Id, KeyExpires(i)
  PROVE  SchedIInv'
<1> USE DEF SchedIInv, TypeOK
<1>1. LockTypeOK' /\ UNCHANGED holding
  BY DEF KeyExpires, Expire, LockTypeOK
<1>2. EnvTypeOK' /\ CronTypeOK' /\ RepoTypeOK' /\ TaskTypeOK' /\ CmdTypeOK'
  BY DEF KeyExpires, EnvTypeOK, envVars, CronTypeOK, cronVars, RepoTypeOK, repoVars,
         TaskTypeOK, taskVars, CmdTypeOK, lifeVars, cmdVars
<1>3. TaskControl' /\ HandlerControl' /\ WorkersHoldLocks'
  BY <1>1 DEF KeyExpires, TaskControl, HandlerControl, WorkersHoldLocks, Working, TaskId,
              taskVars, repoVars, cmdVars
<1> QED BY <1>1, <1>2, <1>3

LEMMA TimePassesPreserves ==
  ASSUME SchedIInv, NEW r \in Rem, TimePasses(r),
         UNCHANGED <<cronVars, lockVars, repoVars, taskVars, handlerSide>>
  PROVE  SchedIInv'
<1> USE DEF SchedIInv, TypeOK
<1>1. EnvTypeOK'
  BY DEF TimePasses, EnvTypeOK
<1>2. CronTypeOK' /\ LockTypeOK' /\ RepoTypeOK' /\ TaskTypeOK' /\ CmdTypeOK'
  BY DEF CronTypeOK, cronVars, LockTypeOK, lockVars, RepoTypeOK, repoVars,
         TaskTypeOK, taskVars, CmdTypeOK, lifeVars, cmdVars, handlerSide
<1>3. TaskControl' /\ HandlerControl' /\ WorkersHoldLocks'
  BY DEF TaskControl, HandlerControl, WorkersHoldLocks, Working, TaskId, lockVars,
         taskVars, repoVars, cmdVars, handlerSide
<1> QED BY <1>1, <1>2, <1>3

\* Starting a process touches only lifeVars and, at the end of init(), its jobs.
LEMMA StartPreserves ==
  ASSUME SchedIInv, NEW p \in Proc,
         StartHandler \/ StartApi(p) \/ InitJobs(p) \/ InitFails(p)
  PROVE  SchedIInv'
<1> USE DEF SchedIInv, TypeOK
<1>1. UNCHANGED <<envVars, lockVars, repoVars, taskVars, cmdVars>>
  BY DEF StartHandler, StartApi, InitJobs, InitFails
<1>2. CronTypeOK'
  <2>1. CASE InitJobs(p)
    <3>1. snapshot[p] \in SUBSET Rem
      BY DEF CmdTypeOK
    <3> QED BY <2>1, <3>1, ArmAllType DEF InitJobs
  <2>2. CASE UNCHANGED cronVars
    BY <2>2 DEF CronTypeOK, cronVars
  <2> QED BY <2>1, <2>2 DEF StartHandler, StartApi, InitFails
<1>3. mode' \in [Proc -> {"down", "starting", "up"}] /\ snapshot' \in [Proc -> SUBSET Rem]
  <2>1. Stored \subseteq Rem
    BY DEF Stored
  <2> QED BY <2>1 DEF StartHandler, StartApi, InitJobs, InitFails, CmdTypeOK
<1>4. EnvTypeOK' /\ LockTypeOK' /\ RepoTypeOK' /\ TaskTypeOK' /\ CmdTypeOK'
  BY <1>1, <1>3 DEF EnvTypeOK, envVars, LockTypeOK, lockVars, RepoTypeOK, repoVars,
                    TaskTypeOK, taskVars, CmdTypeOK, cmdVars
<1>5. TaskControl' /\ HandlerControl' /\ WorkersHoldLocks'
  BY <1>1 DEF TaskControl, HandlerControl, WorkersHoldLocks, Working, TaskId, lockVars,
              taskVars, repoVars, cmdVars
<1> QED BY <1>2, <1>4, <1>5

LEMMA StutterPreserves ==
  ASSUME SchedIInv, UNCHANGED vars
  PROVE  SchedIInv'
BY DEF vars, SchedIInv, TypeOK, EnvTypeOK, envVars, CronTypeOK, cronVars, LockTypeOK, lockVars,
       RepoTypeOK, repoVars, TaskTypeOK, taskVars, CmdTypeOK, lifeVars, cmdVars, TaskControl,
       HandlerControl, WorkersHoldLocks, Working, TaskId

LEMMA NextPreserves ==
  ASSUME SchedIInv, [Next]_vars
  PROVE  SchedIInv'
<1>1. CASE \E c \in Request : Submit(c)
  BY <1>1, SubmitPreserves
<1>2. CASE HandlerStep
  BY <1>2, HandlerStepPreserves
<1>3. CASE \E t \in Task, j \in Job : Fire(t, j) /\ UNCHANGED handlerSide
  BY <1>3, FirePreserves
<1>4. CASE \E t \in Task : TaskStep(t) /\ UNCHANGED handlerSide
  BY <1>4, TaskStepPreserves
<1>5. CASE \E t \in Task : ReleaseThrows(t)
  BY <1>5, ReleaseThrowsPreserves
<1>6. CASE \E i \in Id : KeyExpires(i)
  BY <1>6, KeyExpiresPreserves
<1>7. CASE \E r \in Rem : /\ TimePasses(r)
                         /\ UNCHANGED <<cronVars, lockVars, repoVars, taskVars, handlerSide>>
  BY <1>7, TimePassesPreserves
<1>8. CASE StartHandler
  BY <1>8, StartPreserves, HandlerAssumption
<1>9. CASE \E p \in Proc : StartApi(p) \/ InitJobs(p) \/ InitFails(p) \/ Crash(p)
  BY <1>9, StartPreserves, CrashPreserves
<1>10. CASE UNCHANGED vars
  BY <1>10, StutterPreserves
<1> QED BY <1>1, <1>2, <1>3, <1>4, <1>5, <1>6, <1>7, <1>8, <1>9, <1>10 DEF Next

\* Every state of the system is well-typed, and a task is between acquire() and
\* release() exactly while it holds the lock of its id: whatever the schedule,
\* the failures and the crashes, and whether or not locks expire under a task.
THEOREM TasksHoldTheirLocks == Spec => [](TypeOK /\ WorkersHoldLocks)
<1>1. Init => SchedIInv
  BY SchedInit
<1>2. SchedIInv /\ [Next]_vars => SchedIInv'
  BY NextPreserves
<1>3. SchedIInv => TypeOK /\ WorkersHoldLocks
  BY DEF SchedIInv
<1> QED BY <1>1, <1>2, <1>3, PTL DEF Spec

\* The composed system keeps the types of all its parts.
THEOREM SystemKeepsTypes == Spec => []TypeOK
BY TasksHoldTheirLocks, PTL

----------------------------------------------------------------------------
\* Each step of the system is a step of the locks, or leaves them alone.

LEMMA TaskStepLocks ==
  ASSUME SchedIInv, NEW t \in Task, TaskStep(t)
  PROVE  [LockNext]_lockVars
<1>1. CASE TaskAcquire(t)
  <2>1. TaskId(t) \in Id
    BY <1>1, JobFacts DEF TaskAcquire, TaskControl, TaskId, SchedIInv
  <2> QED BY <1>1, <2>1 DEF TaskAcquire, LockNext
<1>2. CASE TaskGiveUp(t)
  <2>1. TaskId(t) \in Id
    BY <1>2, JobFacts DEF TaskGiveUp, TaskControl, TaskId, SchedIInv
  <2> QED BY <1>2, <2>1 DEF TaskGiveUp, AcquireRefused, LockNext
<1>3. CASE TaskRelease(t)
  BY <1>3 DEF TaskRelease, LockNext
<1>4. CASE TaskGet(t) \/ TaskGetNothing(t) \/ TaskSend(t) \/ TaskSendFails(t)
           \/ TaskDelete(t) \/ TaskDeleteFails(t) \/ TaskUnset(t)
  BY <1>4 DEF TaskGet, TaskGetNothing, TaskSend, TaskSendFails, TaskDelete,
              TaskDeleteFails, TaskUnset
<1> QED BY <1>1, <1>2, <1>3, <1>4 DEF TaskStep

LEMMA HandlerStepFrame ==
  ASSUME HandlerStep
  PROVE  UNCHANGED taskSide
BY DEF HandlerStep, CreateInvalid, CreateCheck, CreateRefused, CreateInsert, CreateInsertFails,
       AddJob, AddJobThrows, Delete, DeleteFails, Unset, DeleteAllDone, Commit

LEMMA NextLocks ==
  ASSUME SchedIInv, [Next]_vars
  PROVE  [LockNext]_lockVars
<1>1. CASE HandlerStep \/ \E c \in Request : Submit(c)
  BY <1>1, HandlerStepFrame DEF Submit, taskSide
<1>2. CASE \E t \in Task, j \in Job : Fire(t, j) /\ UNCHANGED handlerSide
  BY <1>2 DEF Fire
<1>3. CASE \E t \in Task : TaskStep(t) /\ UNCHANGED handlerSide
  BY <1>3, TaskStepLocks
<1>4. CASE \E t \in Task : ReleaseThrows(t)
  BY <1>4 DEF ReleaseThrows, ProcessEnds, ReleaseFatal, LockNext
<1>5. CASE \E i \in Id : KeyExpires(i)
  BY <1>5 DEF KeyExpires, LockNext
<1>6. CASE \E p \in Proc : Crash(p)
  BY <1>6 DEF Crash, ProcessEnds, Exit, LockNext
<1>7. CASE \/ \E r \in Rem : /\ TimePasses(r)
                           /\ UNCHANGED <<cronVars, lockVars, repoVars, taskVars, handlerSide>>
           \/ StartHandler
           \/ \E p \in Proc : StartApi(p) \/ InitJobs(p) \/ InitFails(p)
           \/ UNCHANGED vars
  BY <1>7 DEF StartHandler, StartApi, InitJobs, InitFails, vars
<1> QED BY <1>1, <1>2, <1>3, <1>4, <1>5, <1>6, <1>7 DEF Next

\* The system uses its locks as RedisLocks describes: what holds of every
\* behaviour of the locks holds of them inside the running system.
THEOREM SystemRunsLocks == Spec => LockSpec
<1>1. Init => SchedIInv /\ LockInit
  BY SchedInit DEF Init
<1>2. SchedIInv /\ [Next]_vars => SchedIInv' /\ [LockNext]_lockVars
  BY NextPreserves, NextLocks
<1> QED BY <1>1, <1>2, PTL DEF Spec, LockSpec

\* Tasks of any number of processes never work on one reminder at once, as long
\* as they keep the bound on their duration.
THEOREM OneWorker ==
  ASSUME Overrun = FALSE PROVE Spec => []OneWorkerPerReminder
<1>1. SchedIInv /\ MutualExclusion => OneWorkerPerReminder
  <2> SUFFICES ASSUME SchedIInv, MutualExclusion, NEW t \in Task, NEW u \in Task,
                      Working(t), Working(u), TaskId(t) = TaskId(u)
               PROVE  t = u
    BY DEF OneWorkerPerReminder
  <2>1. holding[t] = TaskId(t) /\ holding[u] = TaskId(u)
    BY DEF SchedIInv, WorkersHoldLocks
  <2>2. TaskId(t) \in Id
    BY JobFacts DEF SchedIInv, TaskControl, Working, TaskId
  <2> QED BY <2>1, <2>2, DeploymentAssumption DEF MutualExclusion
<1>2. Spec => []SchedIInv
  <2>1. Init => SchedIInv
    BY SchedInit
  <2>2. SchedIInv /\ [Next]_vars => SchedIInv'
    BY NextPreserves
  <2> QED BY <2>1, <2>2, PTL DEF Spec
<1>3. Spec => []MutualExclusion
  BY SystemRunsLocks, TasksExclude, PTL
<1> QED BY <1>1, <1>2, <1>3, PTL

\* Under the same bound Redis never rejects the release in the finally block of
\* runReminderTask: a task ends the process it runs in only if Redis does not answer
\* its release, and each such end is one of the failures that are counted.
THEOREM NoReleaseRejected ==
  ASSUME Overrun = FALSE
  PROVE  Spec => /\ []ReleaseSucceeds
                 /\ [][\A t \in Task : ReleaseThrows(t) => Failures' = Failures + 1]_vars
<1>1. Spec => [](LockTypeOK /\ ReleaseSucceeds)
  BY SystemRunsLocks, ReleaseAlwaysSucceeds, PTL
<1>2. ASSUME TypeOK, ReleaseSucceeds, NEW t \in Task, ReleaseThrows(t)
      PROVE  Failures' = Failures + 1
  <2>1. Spend("crash")
    BY <1>2, NoRejection DEF TypeOK, LockIInv, ReleaseThrows
  <2>2. budget \in [EventKind -> Nat] /\ Budget \in [EventKind -> Nat]
    BY <1>2, RemindersAssumption DEF TypeOK, EnvTypeOK
  <2>3. budget'["crash"] = budget["crash"] - 1 /\ budget'["fault"] = budget["fault"]
    BY <2>1, <2>2 DEF Spend, EventKind
  <2> QED BY <2>2, <2>3 DEF Failures, EventKind
<1>3. TypeOK /\ ReleaseSucceeds => \A t \in Task : ReleaseThrows(t) => Failures' = Failures + 1
  BY <1>2
<1> QED BY <1>1, <1>3, SystemKeepsTypes, PTL

----------------------------------------------------------------------------
\* Each step of the system is a step of the collection, or leaves it alone.

LEMMA DeleteRepo ==
  ASSUME NEW i, (\E r \in Found(i) : DeleteOne(r)) \/ DeleteNone(i) \/ UNCHANGED repoVars
  PROVE  [RepoNext]_repoVars
<1>1. CASE \E r \in Found(i) : DeleteOne(r)
  BY <1>1, FoundIn DEF RepoNext
<1>2. CASE DeleteNone(i) \/ UNCHANGED repoVars
  BY <1>2 DEF DeleteNone
<1> QED BY <1>1, <1>2

LEMMA EndRepo ==
  ASSUME SchedIInv, NEW p \in Proc, ProcessEnds(p)
  PROVE  [RepoNext]_repoVars
<1> USE DEF SchedIInv, TypeOK, RepoTypeOK
<1>1. CASE storing[p] = None
  BY <1>1 DEF ProcessEnds, repoVars
<1>2. CASE storing[p] # None
  BY <1>2 DEF ProcessEnds, RepoNext, InsertAborted
<1> QED BY <1>1, <1>2

LEMMA HandlerStepRepo ==
  ASSUME SchedIInv, HandlerStep
  PROVE  [RepoNext]_repoVars
<1> USE HandlerAssumption
<1>1. CASE CreateCheck \/ CreateRefused
  <2>1. Head(topic).rem \in Rem
    BY <1>1, HeadTail, Commands
    DEF CreateCheck, CreateRefused, Handling, SchedIInv, TypeOK, CmdTypeOK
  <2> QED BY <1>1, <2>1 DEF CreateCheck, CreateRefused, RepoNext
<1>2. CASE CreateInsert \/ CreateInsertFails
  BY <1>2 DEF CreateInsert, CreateInsertFails, CountInsert, RepoNext
<1>3. CASE \E i \in Id : Delete(i) \/ DeleteFails(i)
  BY <1>3, DeleteRepo DEF Delete, DeleteFails
<1>4. CASE CreateInvalid \/ AddJob \/ AddJobThrows \/ Unset \/ DeleteAllDone \/ Commit
  BY <1>4 DEF CreateInvalid, AddJob, AddJobThrows, Unset, DeleteAllDone, Commit
<1> QED BY <1>1, <1>2, <1>3, <1>4 DEF HandlerStep

LEMMA TaskStepRepo ==
  ASSUME NEW t \in Task, TaskStep(t)
  PROVE  [RepoNext]_repoVars
<1>1. CASE TaskDelete(t) \/ TaskDeleteFails(t)
  BY <1>1, DeleteRepo DEF TaskDelete, TaskDeleteFails
<1>2. CASE TaskAcquire(t) \/ TaskGiveUp(t) \/ TaskGet(t) \/ TaskGetNothing(t) \/ TaskSend(t)
           \/ TaskSendFails(t) \/ TaskUnset(t) \/ TaskRelease(t)
  BY <1>2 DEF TaskAcquire, TaskGiveUp, TaskGet, TaskGetNothing, TaskSend, TaskSendFails,
              TaskUnset, TaskRelease
<1> QED BY <1>1, <1>2 DEF TaskStep

LEMMA NextRepo ==
  ASSUME SchedIInv, [Next]_vars
  PROVE  [RepoNext]_repoVars
<1>1. CASE HandlerStep
  BY <1>1, HandlerStepRepo
<1>2. CASE \E t \in Task : TaskStep(t) /\ UNCHANGED handlerSide
  BY <1>2, TaskStepRepo
<1>3. CASE (\E p \in Proc : Crash(p)) \/ \E t \in Task : ReleaseThrows(t)
  BY <1>3, EndRepo, LockAssumption DEF Crash, ReleaseThrows
<1>4. CASE \/ \E c \in Request : Submit(c)
           \/ \E t \in Task, j \in Job : Fire(t, j) /\ UNCHANGED handlerSide
           \/ \E i \in Id : KeyExpires(i)
  BY <1>4 DEF Submit, Fire, KeyExpires
<1>5. CASE \/ \E r \in Rem : /\ TimePasses(r)
                           /\ UNCHANGED <<cronVars, lockVars, repoVars, taskVars, handlerSide>>
           \/ StartHandler
           \/ \E p \in Proc : StartApi(p) \/ InitJobs(p) \/ InitFails(p)
           \/ UNCHANGED vars
  BY <1>5 DEF StartHandler, StartApi, InitJobs, InitFails, vars
<1> QED BY <1>1, <1>2, <1>3, <1>4, <1>5 DEF Next

\* The system uses the collection as MongoRepo describes.
THEOREM SystemRunsRepo == Spec => RepoSpec
<1>1. Init => SchedIInv /\ RepoInit
  BY SchedInit DEF Init
<1>2. SchedIInv /\ [Next]_vars => SchedIInv' /\ [RepoNext]_repoVars
  BY NextPreserves, NextRepo
<1> QED BY <1>1, <1>2, PTL DEF Spec, RepoSpec

\* Only the command handler stores.
HandlerStores == \A p \in Proc : p # Handler => storing[p] = None

LEMMA HandlerStoresInit == Init => HandlerStores
BY DEF Init, RepoInit, HandlerStores

LEMMA HandlerStoresStep ==
  ASSUME SchedIInv, HandlerStores, [Next]_vars
  PROVE  HandlerStores'
<1> USE HandlerAssumption
<1>1. storing \in [Proc -> Rem \cup {None}]
  BY DEF SchedIInv, TypeOK, RepoTypeOK
<1>2. ASSUME \E x : storing' = [storing EXCEPT ![Handler] = x] PROVE HandlerStores'
  BY <1>1, <1>2 DEF HandlerStores
<1>3. CASE UNCHANGED storing
  BY <1>3 DEF HandlerStores
<1>4. CASE HandlerStep
  <2>1. CASE CreateCheck \/ CreateInsert \/ CreateInsertFails
    BY <1>2, <2>1
    DEF CreateCheck, StoreCheck, CreateInsert, CreateInsertFails, CountInsert, InsertOne,
        InsertAborted
  <2>2. CASE HandlerStep /\ ~CreateCheck /\ ~CreateInsert /\ ~CreateInsertFails
    BY <1>3, <2>2
    DEF HandlerStep, CreateInvalid, CreateRefused, StoreRefused, AddJob, AddJobThrows, Delete,
        DeleteFails, DeleteOne, DeleteNone, Unset, DeleteAllDone, Commit, repoVars
  <2> QED BY <1>4, <2>1, <2>2
<1>5. CASE \E t \in Task : TaskStep(t)
  BY <1>3, <1>5
  DEF TaskStep, TaskAcquire, TaskGiveUp, TaskGet, TaskGetNothing, TaskSend, TaskSendFails,
      TaskDelete, TaskDeleteFails, TaskUnset, TaskRelease, DeleteOne, DeleteNone, repoVars
<1>6. CASE (\E p \in Proc : Crash(p)) \/ \E t \in Task : ReleaseThrows(t)
  <2>1. PICK p \in Proc : storing' = [storing EXCEPT ![p] = None]
    BY <1>6, LockAssumption DEF Crash, ReleaseThrows, ProcessEnds
  <2> QED BY <1>1, <2>1 DEF HandlerStores
<1>7. CASE ~HandlerStep /\ (\A t \in Task : ~TaskStep(t) /\ ~ReleaseThrows(t))
           /\ \A p \in Proc : ~Crash(p)
  BY <1>3, <1>7
  DEF Next, Submit, Fire, KeyExpires, StartHandler, StartApi, InitJobs, InitFails, repoVars, vars
<1> QED BY <1>4, <1>5, <1>6, <1>7

\* What MongoRepo needs of its callers holds in the system by the code alone: the
\* API processes never store.
THEOREM SystemIsOneStorer == Spec => [](SchedIInv /\ HandlerStores /\ RepoIInv)
<1>1. Init => SchedIInv /\ HandlerStores /\ RepoIInv
  BY SchedInit, HandlerStoresInit, RepoInitEstablishes DEF Init
<1>2. HandlerStores => OneStorer
  BY DEF HandlerStores, OneStorer
<1>3. SchedIInv /\ HandlerStores /\ RepoIInv /\ [Next]_vars
        => SchedIInv' /\ HandlerStores' /\ RepoIInv'
  BY <1>2, NextPreserves, HandlerStoresStep, NextRepo, RepoStep
<1> QED BY <1>1, <1>3, PTL DEF Spec

\* The collection never holds two documents with one id, whatever the command
\* handler, the tasks and the crashes do meanwhile, in any number of processes.
THEOREM SystemKeepsIdsUnique == Spec => []OneDocPerId
BY SystemIsOneStorer, PTL DEF RepoIInv

\* To the tasks and the commands of the running system, which delete by id from
\* several processes and die between two calls, the collection is the set of
\* reminders that IRepo describes.
THEOREM SystemImplementsStore == Spec => ImplementsStore
<1>1. Init => Store!StoreInit
  BY DEF Init, RepoInit, Stored, Store!StoreInit
<1>2. SchedIInv /\ RepoIInv /\ [Next]_vars => [Store!StoreNext]_Stored
  BY NextRepo, RepoStepRefines
<1> QED BY <1>1, <1>2, SystemIsOneStorer, PTL DEF Spec, ImplementsStore, Store!StoreSpec

\* To the tasks of the running system the locks are the mutual exclusion that
\* ILocks describes: what Redis, the Maps and the times to live do is not seen.
THEOREM SystemImplementsMutex ==
  ASSUME Overrun = FALSE PROVE Spec => ImplementsMutex
BY SystemRunsLocks, LocksImplementMutex, PTL

\* Whatever the tasks, the commands and the crashes do, and however long tasks
\* take, no release frees the key that a task of another process has taken.
THEOREM SystemKeepsForeignLocks == Spec => ForeignLockKept
BY SystemRunsLocks, ReleasesStayHome, PTL
=============================================================================
