------------------------------ MODULE Lifecycle ------------------------------
(* One process of one of the three services, from start() to its end: a signal *)
(* at any moment, stop() while start() and runs of runReminderTask go on, and   *)
(* the timers that end a start or a stop that hangs.                            *)
EXTENDS FetchPostClient, Naturals, Sequences

VARIABLES
  svc,        \* the service the process belongs to
  begun,      \* how many awaits of start() have returned
  startTimer, \* startupTimer is pending
  early,      \* the signal came before start() was through
  stopping,   \* 0 before the signal; then the call of stop() that is awaited
  abortTimer, \* the timer of the signal's handler is pending
  gone,       \* the parts that stop() has destroyed
  cmd,        \* the command handler has a command in hand
  jobs,       \* armed: "mapped", in the Map cronJobs; "replaced", no longer in it
  pc,         \* pc[c]: how far the reminder task that makes call c is
  exit        \* "no", or why the process has ended

lifeVars == <<svc, begun, startTimer, early, stopping, abortTimer, gone, cmd, jobs, pc, exit>>
allVars == <<vars, lifeVars>>

\* The same with an HTTP client that start() keeps in a local variable: a faulty
\* variant, which the properties must reject.
AssignedButHttp ==
  [ command |-> << {"logger"}, {"audit", "consumer"}, {"producer"},
                   {"repo", "locks", "aggregate", "handler"}, {} >>,
    api     |-> << {"logger"}, {}, {"repo", "locks"}, {"producer"},
                   {"aggregate"}, {"server"}, {} >>,
    event   |-> << {"logger", "consumer", "producer", "handler"}, {} >> ]

\* Assigned[s][k]: the fields of Service that are set when the k-th await of
\* start() returns, up to the next await.
Assigned ==
  [ command |-> << {"logger"}, {"audit", "consumer"}, {"producer"},
                   {"repo", "locks", "http", "aggregate", "handler"}, {} >>,
    api     |-> << {"logger"}, {}, {"repo", "locks"}, {"producer", "http"},
                   {"aggregate"}, {"server"}, {} >>,
    event   |-> << {"logger", "consumer", "producer", "handler"}, {} >> ]

\* The await of aggregate.init(), which only the API makes.
InitAwait == 6

Set == UNION {Assigned[svc][k] : k \in 1..begun}
Started == begun = Len(Assigned[svc])

\* What stop() destroys, in its order.  The API does not destroy its locks and repo.
StopOrder ==
  [ command |-> << "handler", "aggregate", "locks", "repo", "producer", "consumer",
                   "http", "audit", "logger" >>,
    api     |-> << "aggregate", "producer", "http", "server" >>,
    event   |-> << "handler", "consumer", "producer", "logger" >> ]

\* Their destroy() does not wait for anything, and does not throw.
Immediate == {"aggregate", "locks", "http"}

LifeTypeOK ==
  /\ TypeOK
  /\ svc \in DOMAIN Assigned
  /\ begun \in 0..Len(Assigned[svc])
  /\ startTimer \in BOOLEAN /\ early \in BOOLEAN /\ abortTimer \in BOOLEAN
  /\ stopping \in Nat
  /\ gone \subseteq Set
  /\ cmd \in BOOLEAN
  /\ jobs \subseteq {"mapped", "replaced"}
  /\ pc \in [Call -> {"idle", "acquiring", "reading", "sending", "awaiting", "resting",
                      "releasing", "end"}]
  /\ exit \in {"no", "clean", "timeout", "rejected", "unset", "release"}

LifeInit ==
  /\ Init
  /\ svc \in DOMAIN Assigned
  /\ begun = 0
  /\ startTimer = (svc # "command")
  /\ early = FALSE /\ stopping = 0 /\ abortTimer = FALSE
  /\ gone = {} /\ cmd = FALSE /\ jobs = {}
  /\ pc = [c \in Call |-> "idle"]
  /\ exit = "no"

----------------------------------------------------------------------------
\* The calls of stop() from the k-th on that it makes, and its end: two services
\* skip what is not set, the API does not look.
Calls(k) ==
  LET order == StopOrder[svc] IN
  {j \in k..Len(order) + 1 : j \in DOMAIN order => svc = "api" \/ order[j] \in Set}

NextCall(k) == CHOOSE j \in Calls(k) : \A i \in Calls(k) : j <= i

\* stop() goes on to the next of them.  To use what is not set throws; after the
\* last call the process exits.
GoOn(k) ==
  LET order == StopOrder[svc] IN
  /\ stopping' = NextCall(k)
  /\ exit' = IF NextCall(k) = Len(order) + 1 THEN "clean"
             ELSE IF order[NextCall(k)] \notin Set THEN "unset" ELSE "no"

(* Faulty variants of the operations below, which the properties must reject. *)

\* The timer is armed when stop() has returned.
SignalUntimed ==
  /\ stopping = 0
  /\ early' = ~Started
  /\ IF svc # "event" /\ "logger" \notin Set
     THEN exit' = "unset" /\ stopping' = 1
     ELSE GoOn(1)
  /\ UNCHANGED <<vars, svc, begun, startTimer, abortTimer, gone, cmd, jobs, pc>>

\* startupTimer is cleared before the last await.
StartGoesOnUntimed ==
  /\ ~Started
  /\ begun' = begun + 1
  /\ startTimer' = (startTimer /\ begun' < Len(Assigned[svc]) - 1)
  /\ jobs' = IF svc = "api" /\ begun' = InitAwait THEN jobs \cup {"mapped"} ELSE jobs
  /\ UNCHANGED <<vars, svc, early, stopping, abortTimer, gone, cmd, pc, exit>>

\* aggregate.destroy() clears the Map and leaves the jobs armed.
JobsCleared == IF "mapped" \in jobs THEN {"replaced"} ELSE jobs

\* The task goes on with whatever send() has come to.
TaskReturnsRaw(c) ==
  /\ pc[c] = "awaiting" /\ call[c] \in {"ok", "failed"}
  /\ pc' = [pc EXCEPT ![c] = call[c]]
  /\ UNCHANGED <<vars, svc, begun, startTimer, early, stopping, abortTimer, gone, cmd, jobs, exit>>

----------------------------------------------------------------------------
\* An await of start() returns.
StartGoesOn ==
  /\ ~Started
  /\ begun' = begun + 1
  /\ startTimer' = (startTimer /\ begun' < Len(Assigned[svc]))
  /\ jobs' = IF svc = "api" /\ begun' = InitAwait THEN jobs \cup {"mapped"} ELSE jobs
  /\ UNCHANGED <<vars, svc, early, stopping, abortTimer, gone, cmd, pc, exit>>

\* The process ends, for this reason.
Ends(reason) ==
  /\ exit' = reason
  /\ UNCHANGED <<vars, svc, begun, startTimer, early, stopping, abortTimer, gone, cmd, jobs, pc>>

\* An await of start() throws; nobody catches it.
StartFails == ~Started /\ Ends("rejected")

\* startupTimer throws.
StartTimesOut == startTimer /\ Ends("timeout")

\* SIGINT or SIGTERM: stop() runs up to its first await.  Its logging needs a
\* logger, except in the event handler.
Signal ==
  /\ stopping = 0
  /\ abortTimer' = TRUE
  /\ early' = ~Started
  /\ IF svc # "event" /\ "logger" \notin Set
     THEN exit' = "unset" /\ stopping' = 1
     ELSE GoOn(1)
  /\ UNCHANGED <<vars, svc, begun, startTimer, gone, cmd, jobs, pc>>

\* aggregate.destroy() stops the jobs that are in the Map.
JobsStopped == jobs \ {"mapped"}

\* The call that stop() awaits has destroyed its part.
StopGoesOn ==
  /\ stopping # 0
  /\ LET part == StopOrder[svc][stopping] IN
     /\ gone' = gone \cup {part}
     /\ jobs' = IF part = "aggregate" THEN JobsStopped ELSE jobs
     /\ IF part = "http" THEN Destroy ELSE UNCHANGED vars
  /\ GoOn(stopping + 1)
  /\ UNCHANGED <<svc, begun, startTimer, early, abortTimer, cmd, pc>>

\* It throws, and stop() with it.
StopFails ==
  /\ stopping # 0
  /\ StopOrder[svc][stopping] \notin Immediate
  /\ Ends("rejected")

\* process.abort(), or exit(99) in the event handler.
StopTimesOut == abortTimer /\ Ends("timeout")

----------------------------------------------------------------------------
\* The consumer delivers a command, from its start until it has stopped.
CommandComes ==
  /\ svc = "command"
  /\ "handler" \in Set \ gone
  /\ ~cmd
  /\ cmd' = TRUE
  /\ UNCHANGED <<vars, svc, begun, startTimer, early, stopping, abortTimer, gone, jobs, pc, exit>>

\* It has stored a reminder and creates its job.  An entry of the Map that is
\* overwritten leaves its job armed.
CommandArms ==
  /\ cmd /\ "repo" \notin gone
  /\ cmd' = FALSE
  /\ \E replaced \in SUBSET (IF "mapped" \in jobs THEN {"replaced"} ELSE {}) :
       jobs' = jobs \cup {"mapped"} \cup replaced
  /\ UNCHANGED <<vars, svc, begun, startTimer, early, stopping, abortTimer, gone, pc, exit>>

\* It is another command, or fails.
CommandEnds ==
  /\ cmd
  /\ cmd' = FALSE
  /\ UNCHANGED <<vars, svc, begun, startTimer, early, stopping, abortTimer, gone, jobs, pc, exit>>

\* The task goes on to its next await.
TaskTo(c, state) ==
  /\ pc' = [pc EXCEPT ![c] = state]
  /\ UNCHANGED <<svc, begun, startTimer, early, stopping, abortTimer, gone, cmd, jobs, exit>>

Ticks(c) ==
  /\ pc[c] = "idle" /\ jobs # {}
  /\ TaskTo(c, "acquiring")
  /\ UNCHANGED vars

\* acquire() returns: a client that is disconnected grants nothing.
TaskAcquires(c) ==
  /\ pc[c] = "acquiring"
  /\ \/ "locks" \notin gone /\ TaskTo(c, "reading")
     \/ TaskTo(c, "end")
  /\ UNCHANGED vars

TaskReads(c) ==
  /\ pc[c] = "reading"
  /\ \/ "repo" \notin gone /\ TaskTo(c, "sending")
     \/ TaskTo(c, "releasing")
  /\ UNCHANGED vars

\* sendEvent().
TaskPublishes(c) ==
  /\ pc[c] = "sending"
  /\ \/ "producer" \notin gone /\ TaskTo(c, "resting")
     \/ TaskTo(c, "releasing")
  /\ UNCHANGED vars

\* sendHttpPost().
TaskPosts(c) ==
  /\ pc[c] = "sending"
  /\ Send(c)
  /\ TaskTo(c, "awaiting")

TaskReturns(c) ==
  /\ pc[c] = "awaiting" /\ call[c] \in {"ok", "failed"}
  /\ TaskTo(c, IF call[c] = "ok" THEN "resting" ELSE "releasing")
  /\ UNCHANGED vars

TaskRested(c) ==
  /\ pc[c] = "resting"
  /\ TaskTo(c, "releasing")
  /\ UNCHANGED vars

\* The finally block.  A release that is rejected ends the process: its key has
\* expired meanwhile, Redis does not answer, or the client is disconnected, as it
\* is once the locks are destroyed.
TaskReleases(c) ==
  /\ pc[c] = "releasing"
  /\ \/ "locks" \notin gone /\ TaskTo(c, "end") /\ UNCHANGED vars
     \/ Ends("release")

HttpStep(c) ==
  /\ Respond(c) \/ NetworkFails(c) \/ TimerFires(c)
  /\ UNCHANGED lifeVars

LifeNext ==
  /\ exit = "no"
  /\ \/ StartGoesOn \/ StartFails \/ StartTimesOut
     \/ Signal \/ StopGoesOn \/ StopFails \/ StopTimesOut
     \/ CommandComes \/ CommandArms \/ CommandEnds
     \/ \E c \in Call :
          \/ Ticks(c) \/ TaskAcquires(c) \/ TaskReads(c) \/ TaskPublishes(c) \/ TaskPosts(c)
          \/ TaskReturns(c) \/ TaskRested(c) \/ TaskReleases(c) \/ HttpStep(c)

\* Timers fire while the process lives.  Nothing else has to happen: any call of
\* start(), of stop() and of a task may hang.
LifeSpec ==
  /\ LifeInit /\ [][LifeNext]_allVars
  /\ WF_allVars(exit = "no" /\ StartTimesOut)
  /\ WF_allVars(exit = "no" /\ StopTimesOut)
  /\ \A c \in Call : WF_allVars(exit = "no" /\ TimerFires(c) /\ UNCHANGED lifeVars)

----------------------------------------------------------------------------
\* A service whose start() is through has set all that its stop() uses: only a
\* signal during the start can make stop() throw for a field that is not set.
UnsetIsEarly == exit = "unset" => early

\* stop() of a started service that exits by itself has destroyed every part.
CleanExitDestroys ==
  exit = "clean" /\ ~early => \A k \in DOMAIN StopOrder[svc] : StopOrder[svc][k] \in gone

\* Once a started API has destroyed its aggregate, no reminder starts a task.  (In
\* the command handler replaced jobs and a command in hand still can.)
ApiQuietAfterDestroy ==
  [][\A c \in Call : svc = "api" /\ ~early /\ "aggregate" \in gone /\ pc[c] = "idle"
       => pc'[c] = "idle"]_allVars

\* A signal ends the process, whatever hangs.
StopEnds == stopping # 0 ~> exit # "no"

\* A service with a startup timer is through with its start or ends.
StartEnds == svc # "command" ~> Started \/ exit # "no"

\* Every post settles, or its process ends.
SettleOrEnd == \A c \in Call : call[c] = "flying" ~> call[c] # "flying" \/ exit # "no"
=============================================================================
