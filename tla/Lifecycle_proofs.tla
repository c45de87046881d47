-------------------------- MODULE Lifecycle_proofs --------------------------
(* What ends a process of the three services, for any number of reminder      *)
(* tasks.  The invariant says how far stop() is: what it has destroyed is a    *)
(* part of its own list and was set, the call it awaits is about a part that   *)
(* is set, and if the service had started, it has skipped nothing.             *)
(*                                                                            *)
(* It rests on what holds of the HTTP client alone: a shared AbortController  *)
(* is harmless until a call fails by itself.  That invariant says where an    *)
(* armed timer can be left behind: only at a call in flight, or at a failed   *)
(* one; and failing for no fault of one's own takes a signal that has fired.  *)
EXTENDS Lifecycle, TLAPS, WellFoundedInduction

----------------------------------------------------------------------------
\* The HTTP client.

Culprit == \E c \in Call : cause[c] \in {"network", "timeout"}

TimersAccounted ==
  \A c \in Call : /\ timer[c] => call[c] \in {"flying", "failed"}
                  /\ call[c] = "failed" <=> cause[c] # "none"
                  /\ cause[c] = "other" => aborted

IInv == TypeOK /\ TimersAccounted /\ AbortHasCulprit

LEMMA InitHolds == Init => IInv
BY DEF Init, IInv, TypeOK, TimersAccounted, AbortHasCulprit

LEMMA TypePreserved ==
  ASSUME TypeOK, [Next]_vars
  PROVE  TypeOK'
<1>1. ASSUME NEW c \in Call, Send(c) PROVE TypeOK'
  BY <1>1 DEF TypeOK, Send
<1>2. ASSUME NEW c \in Call, Respond(c) PROVE TypeOK'
  BY <1>2 DEF TypeOK, Respond
<1>3. ASSUME NEW c \in Call, NetworkFails(c) PROVE TypeOK'
  BY <1>3 DEF TypeOK, NetworkFails
<1>4. ASSUME NEW c \in Call, TimerFires(c) PROVE TypeOK'
  BY <1>4 DEF TypeOK, TimerFires, Abort
<1>5. CASE Destroy
  BY <1>5 DEF TypeOK, Destroy, Abort
<1>6. CASE UNCHANGED vars
  BY <1>6 DEF TypeOK, vars
<1> QED BY <1>1, <1>2, <1>3, <1>4, <1>5, <1>6 DEF Next

LEMMA AccountsPreserved ==
  ASSUME TypeOK, TimersAccounted, [Next]_vars
  PROVE  TimersAccounted'
<1>1. ASSUME NEW c \in Call, Send(c) PROVE TimersAccounted'
  BY <1>1 DEF TypeOK, TimersAccounted, Send
<1>2. ASSUME NEW c \in Call, Respond(c) PROVE TimersAccounted'
  BY <1>2 DEF TypeOK, TimersAccounted, Respond
<1>3. ASSUME NEW c \in Call, NetworkFails(c) PROVE TimersAccounted'
  BY <1>3 DEF TypeOK, TimersAccounted, NetworkFails
<1>4. ASSUME NEW c \in Call, TimerFires(c) PROVE TimersAccounted'
  BY <1>4 DEF TypeOK, TimersAccounted, TimerFires, Abort
<1>5. CASE Destroy
  BY <1>5 DEF TypeOK, TimersAccounted, Destroy, Abort
<1>6. CASE UNCHANGED vars
  BY <1>6 DEF TimersAccounted, vars
<1> QED BY <1>1, <1>2, <1>3, <1>4, <1>5, <1>6 DEF Next

\* A call that has failed keeps its cause.
LEMMA CulpritStays ==
  ASSUME TypeOK, TimersAccounted, [Next]_vars, Culprit
  PROVE  Culprit'
<1>1. PICK d \in Call : cause[d] \in {"network", "timeout"}
  BY DEF Culprit
<1>2. call[d] = "failed"
  BY <1>1 DEF TimersAccounted
<1>3. cause'[d] = cause[d]
  BY <1>1, <1>2
  DEF TypeOK, Next, vars, Send, Respond, NetworkFails, TimerFires, Destroy, Abort
<1> QED BY <1>1, <1>3 DEF Culprit

LEMMA CulpritPreserved ==
  ASSUME IInv, [Next]_vars
  PROVE  AbortHasCulprit'
<1> SUFFICES ASSUME aborted', ~stopped' PROVE Culprit'
  BY DEF AbortHasCulprit, Culprit
<1>1. CASE aborted /\ ~stopped
  BY <1>1, CulpritStays DEF IInv, AbortHasCulprit, Culprit
<1>2. CASE ~aborted
  <2>1. PICK c \in Call : TimerFires(c)
    BY <1>2 DEF Next, vars, Send, Respond, NetworkFails, Destroy
  <2>2. call[c] \in {"flying", "failed"}
    BY <2>1 DEF IInv, TimersAccounted, TimerFires
  <2>3. CASE call[c] = "flying"
    BY <2>1, <2>3 DEF IInv, TypeOK, TimerFires, Abort, Culprit
  <2>4. CASE call[c] = "failed"
    <3>1. cause[c] \in {"network", "timeout"}
      BY <1>2, <2>4 DEF IInv, TypeOK, TimersAccounted
    <3> QED BY <3>1, CulpritStays DEF IInv, Culprit
  <2> QED BY <2>2, <2>3, <2>4
<1>3. CASE stopped
  BY <1>3 DEF Next, vars, Send, Respond, NetworkFails, TimerFires, Destroy
<1> QED BY <1>1, <1>2, <1>3

\* For any number of concurrent sends: as long as the service is not stopped, the
\* shared signal fires only after some call has failed by itself.
THEOREM AbortNeedsCulprit == Spec => []AbortHasCulprit
<1>1. IInv /\ [Next]_vars => IInv'
  BY TypePreserved, AccountsPreserved, CulpritPreserved DEF IInv
<1>2. Spec => []IInv
  BY InitHolds, <1>1, PTL DEF Spec
<1> QED BY <1>2, PTL DEF IInv
----------------------------------------------------------------------------
\* The process.

Order == StopOrder[svc]

Parts == {"handler", "aggregate", "locks", "repo", "producer", "consumer", "http", "audit",
          "logger", "server"}

StopControl ==
  /\ stopping = 0 => ~early /\ ~abortTimer /\ gone = {} /\ exit \notin {"clean", "unset"}
  /\ stopping # 0 /\ exit = "no" => stopping \in DOMAIN Order /\ Order[stopping] \in Set
  /\ exit = "unset" => early
  /\ exit = "clean" => stopping = Len(Order) + 1
  /\ \A f \in gone : \E k \in DOMAIN Order : Order[k] = f

NothingSkipped ==
  stopping # 0 /\ ~early =>
    Started /\ \A k \in DOMAIN Order : k < stopping => Order[k] \in gone

ApiQuiet ==
  svc = "api" =>
    /\ ~cmd /\ "replaced" \notin jobs
    /\ "aggregate" \in gone /\ ~early => "mapped" \notin jobs

LifeIInv == LifeTypeOK /\ StopControl /\ NothingSkipped /\ ApiQuiet

\* The lists of the three services, as the provers need them.
LEMMA Lists ==
  ASSUME NEW s \in DOMAIN Assigned
  PROVE  /\ s \in {"command", "api", "event"}
         /\ Len(StopOrder[s]) \in Nat \ {0}
         /\ DOMAIN StopOrder[s] = 1..Len(StopOrder[s])
         /\ Len(Assigned[s]) \in Nat \ {0}
<1>1. s \in {"command", "api", "event"}
  BY DEF Assigned
<1>2. /\ Len(StopOrder["command"]) = 9 /\ DOMAIN StopOrder["command"] = 1..9
      /\ Len(StopOrder["api"]) = 4 /\ DOMAIN StopOrder["api"] = 1..4
      /\ Len(StopOrder["event"]) = 4 /\ DOMAIN StopOrder["event"] = 1..4
  BY DEF StopOrder
<1>3. /\ Len(Assigned["command"]) = 5 /\ Len(Assigned["api"]) = 7
      /\ Len(Assigned["event"]) = 2
  BY DEF Assigned
<1> QED
  <2>1. CASE s = "command"
    BY <2>1, <1>2, <1>3
  <2>2. CASE s = "api"
    BY <2>2, <1>2, <1>3
  <2>3. CASE s = "event"
    BY <2>3, <1>2, <1>3
  <2> QED BY <1>1, <2>1, <2>2, <2>3

\* A start() that is through has set all that stop() destroys.
LEMMA StartSetsAll ==
  ASSUME svc \in DOMAIN Assigned, Started
  PROVE  \A k \in DOMAIN Order : Order[k] \in Set
<1>1. CASE svc = "command"
  <2>1. Set = UNION {Assigned["command"][k] : k \in 1..5}
    BY <1>1 DEF Set, Started, Assigned
  <2>2. /\ "logger" \in Assigned["command"][1]
        /\ "audit" \in Assigned["command"][2] /\ "consumer" \in Assigned["command"][2]
        /\ "producer" \in Assigned["command"][3]
        /\ {"repo", "locks", "http", "aggregate", "handler"} \subseteq Assigned["command"][4]
    BY DEF Assigned
  <2>3. {"handler", "aggregate", "locks", "repo", "producer", "consumer", "http", "audit",
         "logger"} \subseteq Set
    BY <2>1, <2>2
  <2> QED BY <1>1, <2>3 DEF Order, StopOrder
<1>2. CASE svc = "api"
  <2>1. Set = UNION {Assigned["api"][k] : k \in 1..7}
    BY <1>2 DEF Set, Started, Assigned
  <2>2. /\ "producer" \in Assigned["api"][4] /\ "http" \in Assigned["api"][4]
        /\ "aggregate" \in Assigned["api"][5] /\ "server" \in Assigned["api"][6]
    BY DEF Assigned
  <2>3. {"aggregate", "producer", "http", "server"} \subseteq Set
    BY <2>1, <2>2
  <2> QED BY <1>2, <2>3 DEF Order, StopOrder
<1>3. CASE svc = "event"
  <2>1. Set = UNION {Assigned["event"][k] : k \in 1..2}
    BY <1>3 DEF Set, Started, Assigned
  <2>2. {"logger", "consumer", "producer", "handler"} \subseteq Assigned["event"][1]
    BY DEF Assigned
  <2>3. {"logger", "consumer", "producer", "handler"} \subseteq Set
    BY <2>1, <2>2
  <2> QED BY <1>3, <2>3 DEF Order, StopOrder
<1> QED BY <1>1, <1>2, <1>3, Lists

\* The next call of stop(), or its end, exists and skips nothing that is set.
LEMMA NextCallExists ==
  ASSUME svc \in DOMAIN Assigned, NEW k \in 1..Len(Order) + 1
  PROVE  /\ NextCall(k) \in Calls(k)
         /\ \A i \in Calls(k) : NextCall(k) <= i
<1>1. Calls(k) \subseteq Nat /\ Calls(k) # {}
  <2>1. Len(Order) + 1 \in Calls(k)
    BY Lists DEF Calls, Order
  <2> QED BY <2>1, Lists DEF Calls, Order
<1>2. \E j \in Calls(k) : \A i \in Calls(k) : ~(<<i, j>> \in OpToRel(<, Nat))
  BY <1>1, WFMin, NatLessThanWellFounded, Zenon
<1>3. \E j \in Calls(k) : \A i \in Calls(k) : ~(i < j)
  BY <1>1, <1>2, Zenon DEF OpToRel
<1>4. \E j \in Calls(k) : \A i \in Calls(k) : j <= i
  BY <1>1, <1>3
<1> QED BY <1>4 DEF NextCall

----------------------------------------------------------------------------
\* The steps of a process are steps of its HTTP client, or leave it alone.
LEMMA ClientStep ==
  ASSUME [LifeNext]_allVars PROVE [Next]_vars
<1>1. ASSUME NEW c \in Call, TaskPosts(c) PROVE Next
  BY <1>1 DEF TaskPosts, Next
<1>2. ASSUME NEW c \in Call, HttpStep(c) PROVE Next
  BY <1>2 DEF HttpStep, Next
<1>3. ASSUME NEW c \in Call,
             \/ Ticks(c) \/ TaskAcquires(c) \/ TaskReads(c) \/ TaskPublishes(c)
             \/ TaskReturns(c) \/ TaskRested(c) \/ TaskReleases(c)
      PROVE  UNCHANGED vars
  BY <1>3
  DEF Ticks, TaskAcquires, TaskReads, TaskPublishes, TaskReturns, TaskRested, TaskReleases, Ends
<1>4. CASE StopGoesOn
  BY <1>4 DEF StopGoesOn, Next
<1>5. CASE \/ StartGoesOn \/ StartFails \/ StartTimesOut \/ Signal \/ StopFails
           \/ StopTimesOut \/ CommandComes \/ CommandArms \/ CommandEnds
  BY <1>5
  DEF StartGoesOn, StartFails, StartTimesOut, Signal, StopFails, StopTimesOut,
      CommandComes, CommandArms, CommandEnds, Ends
<1>6. CASE UNCHANGED allVars
  BY <1>6 DEF allVars
<1> QED BY <1>1, <1>2, <1>3, <1>4, <1>5, <1>6 DEF LifeNext

\* Whatever a process does, its HTTP client runs by its own specification.
THEOREM ProcessRunsClient == LifeSpec => Init /\ [][Next]_vars
<1>1. LifeInit => Init
  BY DEF LifeInit
<1>2. [LifeNext]_allVars => [Next]_vars
  BY ClientStep
<1> QED BY <1>1, <1>2, PTL DEF LifeSpec

\* As long as nobody stops the process, the shared signal of its HTTP client fires
\* only after a post has failed by itself, whatever its tasks and its start do.
THEOREM ProcessAbortsForACause == LifeSpec => []AbortHasCulprit
<1>1. IInv /\ [Next]_vars => IInv'
  BY TypePreserved, AccountsPreserved, CulpritPreserved DEF IInv
<1>2. Init /\ [][Next]_vars => []IInv
  BY InitHolds, <1>1, PTL
<1> QED BY <1>2, ProcessRunsClient, PTL DEF IInv

----------------------------------------------------------------------------
LEMMA LifeInitEstablishes == LifeInit => LifeIInv
<1> SUFFICES ASSUME LifeInit PROVE LifeIInv
  OBVIOUS
<1>1. TypeOK
  BY InitHolds DEF LifeInit, IInv
<1>2. begun \in 0..Len(Assigned[svc])
  BY Lists DEF LifeInit
<1>3. startTimer \in BOOLEAN
  BY Zenon DEF LifeInit
<1>4. LifeTypeOK
  BY <1>1, <1>2, <1>3 DEF LifeInit, LifeTypeOK
<1> QED BY <1>4 DEF LifeInit, LifeIInv, StopControl, NothingSkipped, ApiQuiet

\* What stop() finds when it goes on from its k-th call, having skipped nothing
\* before it.
LEMMA GoOnControl ==
  ASSUME svc \in DOMAIN Assigned, NEW k \in 1..Len(Order) + 1, GoOn(k)
  PROVE  /\ stopping' \in k..Len(Order) + 1
         /\ exit' \in {"no", "clean", "unset"}
         /\ exit' = "no" => stopping' \in DOMAIN Order /\ Order[stopping'] \in Set
         /\ exit' = "clean" => stopping' = Len(Order) + 1
         /\ Started => exit' # "unset" /\ stopping' = k
<1>1. NextCall(k) \in Calls(k) /\ \A i \in Calls(k) : NextCall(k) <= i
  BY NextCallExists
<1>2. Len(Order) \in Nat /\ DOMAIN Order = 1..Len(Order)
  BY Lists DEF Order
<1>3. NextCall(k) \in k..Len(Order) + 1
  BY <1>1 DEF Calls, Order
<1>4. ASSUME Started PROVE exit' # "unset" /\ stopping' = k
  <2>1. \A j \in DOMAIN Order : Order[j] \in Set
    BY <1>4, StartSetsAll
  <2>2. k \in Calls(k)
    BY <1>2, <2>1 DEF Calls, Order
  <2>3. NextCall(k) = k
    BY <1>1, <1>2, <1>3, <2>2
  <2> QED BY <1>2, <2>1, <2>3 DEF GoOn, Order
<1> QED BY <1>2, <1>3, <1>4 DEF GoOn, Order

\* A step that leaves alone how far start() and stop() are.
LEMMA ControlStays ==
  ASSUME LifeIInv, UNCHANGED <<svc, begun, early, stopping, abortTimer, gone, exit>>
  PROVE  StopControl' /\ NothingSkipped'
BY DEF LifeIInv, StopControl, NothingSkipped, Order, Set, Started

LEMMA TaskStepPreserves ==
  ASSUME LifeIInv, exit = "no", NEW c \in Call, TypeOK',
         \/ Ticks(c) \/ TaskAcquires(c) \/ TaskReads(c) \/ TaskPublishes(c) \/ TaskPosts(c)
         \/ TaskReturns(c) \/ TaskRested(c) \/ HttpStep(c)
         \/ TaskReleases(c) /\ TaskTo(c, "end")
  PROVE  LifeIInv'
<1>1. /\ UNCHANGED <<svc, begun, startTimer, early, stopping, abortTimer, gone, cmd, jobs, exit>>
      /\ pc' = pc \/ \E to \in {"acquiring", "reading", "sending", "awaiting", "resting",
                                "releasing", "end"} : pc' = [pc EXCEPT ![c] = to]
  BY DEF Ticks, TaskAcquires, TaskReads, TaskPublishes, TaskPosts, TaskReturns, TaskRested,
         TaskReleases, HttpStep, TaskTo, lifeVars
<1>2. LifeTypeOK'
  BY <1>1 DEF LifeIInv, LifeTypeOK, Set
<1>3. StopControl' /\ NothingSkipped'
  BY <1>1, ControlStays
<1>4. ApiQuiet'
  BY <1>1 DEF LifeIInv, ApiQuiet
<1> QED BY <1>2, <1>3, <1>4 DEF LifeIInv

LEMMA CommandStepPreserves ==
  ASSUME LifeIInv, TypeOK', CommandComes \/ CommandArms \/ CommandEnds
  PROVE  LifeIInv'
<1>1. /\ UNCHANGED <<svc, begun, startTimer, early, stopping, abortTimer, gone, pc, exit>>
      /\ cmd' \in BOOLEAN
      /\ jobs' \subseteq {"mapped", "replaced"}
      /\ svc # "api"
  BY DEF LifeIInv, LifeTypeOK, ApiQuiet, CommandComes, CommandArms, CommandEnds
<1>2. LifeTypeOK'
  BY <1>1 DEF LifeIInv, LifeTypeOK, Set
<1>3. StopControl' /\ NothingSkipped'
  BY <1>1, ControlStays
<1>4. ApiQuiet'
  BY <1>1 DEF ApiQuiet
<1> QED BY <1>2, <1>3, <1>4 DEF LifeIInv

LEMMA StartGoesOnPreserves ==
  ASSUME LifeIInv, exit = "no", TypeOK', StartGoesOn
  PROVE  LifeIInv'
<1> USE DEF StartGoesOn
<1>1. Len(Assigned[svc]) \in Nat /\ begun \in Nat /\ begun' \in 0..Len(Assigned[svc])
  BY Lists DEF LifeIInv, LifeTypeOK, Started
<1>2. Set \subseteq Set'
  BY <1>1 DEF Set
<1>3. LifeTypeOK'
  BY <1>1, <1>2 DEF LifeIInv, LifeTypeOK
<1>4. StopControl'
  BY <1>2 DEF LifeIInv, StopControl, Order
<1>5. NothingSkipped' /\ ApiQuiet'
  BY DEF LifeIInv, NothingSkipped, ApiQuiet, Order, StopControl
<1> QED BY <1>3, <1>4, <1>5 DEF LifeIInv

\* The process ends outside of stop().
LEMMA EndsPreserves ==
  ASSUME LifeIInv, exit = "no", TypeOK',
         NEW reason \in {"rejected", "timeout", "release"}, Ends(reason)
  PROVE  LifeIInv'
<1> USE DEF Ends
<1>1. LifeTypeOK'
  BY DEF LifeIInv, LifeTypeOK, Set
<1>2. StopControl'
  BY DEF LifeIInv, StopControl, Order
<1>3. NothingSkipped' /\ ApiQuiet'
  BY DEF LifeIInv, NothingSkipped, ApiQuiet, Order, Started
<1> QED BY <1>1, <1>2, <1>3 DEF LifeIInv

LEMMA SignalPreserves ==
  ASSUME LifeIInv, exit = "no", TypeOK', Signal
  PROVE  LifeIInv'
<1>1. /\ stopping = 0 /\ abortTimer' = TRUE /\ early' = ~Started
      /\ UNCHANGED <<svc, begun, startTimer, gone, cmd, jobs, pc>>
      /\ gone = {} /\ svc \in DOMAIN Assigned
  BY DEF LifeIInv, LifeTypeOK, StopControl, Signal
<1>2. Order' = Order /\ Set' = Set /\ (Started' <=> Started)
  BY <1>1 DEF Order, Set, Started
<1>3. Len(Order) \in Nat \ {0} /\ DOMAIN Order = 1..Len(Order)
  BY <1>1, Lists DEF Order
<1>4. CASE svc # "event" /\ "logger" \notin Set
  <2>1. exit' = "unset" /\ stopping' = 1
    BY <1>4 DEF Signal
  <2>2. ~Started
    <3>1. svc \in {"command", "api"}
      BY <1>1, <1>4, Lists
    <3>2. ASSUME begun > 0 PROVE "logger" \in Set
      <4>1. "logger" \in Assigned[svc][1]
        BY <3>1 DEF Assigned
      <4> QED BY <3>2, <4>1 DEF Set, LifeIInv, LifeTypeOK
    <3>3. Len(Assigned[svc]) # 0 /\ begun \in Nat
      BY <1>1, Lists DEF LifeIInv, LifeTypeOK
    <3> QED BY <1>4, <3>2, <3>3 DEF Started
  <2>3. LifeTypeOK'
    <3>1. early' \in BOOLEAN
      BY <1>1, Zenon DEF Started
    <3> QED BY <1>1, <1>2, <2>1, <3>1 DEF LifeIInv, LifeTypeOK
  <2>4. early'
    BY <1>1, <2>2
  <2>5. StopControl' /\ NothingSkipped' /\ ApiQuiet'
    BY <1>1, <1>2, <2>1, <2>4 DEF LifeIInv, StopControl, NothingSkipped, ApiQuiet
  <2> QED BY <2>3, <2>5 DEF LifeIInv
<1>5. CASE ~(svc # "event" /\ "logger" \notin Set)
  <2>1. GoOn(1) /\ 1 \in 1..Len(Order) + 1
    BY <1>3, <1>5 DEF Signal
  <2>2. /\ stopping' \in 1..Len(Order) + 1
        /\ exit' \in {"no", "clean", "unset"}
        /\ exit' = "no" => stopping' \in DOMAIN Order /\ Order[stopping'] \in Set
        /\ exit' = "clean" => stopping' = Len(Order) + 1
        /\ Started => exit' # "unset" /\ stopping' = 1
    BY <1>1, <2>1, GoOnControl
  <2>3. early' \in BOOLEAN /\ stopping' \in Nat /\ stopping' # 0
    <3>1. early' \in BOOLEAN
      BY <1>1, Zenon DEF Started
    <3> QED BY <3>1, <1>3, <2>2
  <2>4. LifeTypeOK'
    BY <1>1, <1>2, <2>2, <2>3 DEF LifeIInv, LifeTypeOK
  <2>5. StopControl'
    BY <1>1, <1>2, <2>2, <2>3 DEF LifeIInv, StopControl
  <2>6. NothingSkipped'
    <3> SUFFICES ASSUME ~early', NEW k \in DOMAIN Order, k < stopping'
                 PROVE  Started /\ Order[k] \in gone'
      <4>1. ~early' => Started'
        BY <1>1, <1>2
      <4> QED BY <1>2, <4>1 DEF NothingSkipped
    <3>1. Started
      BY <1>1
    <3> QED BY <1>3, <2>2, <3>1
  <2>7. ApiQuiet'
    BY <1>1 DEF LifeIInv, ApiQuiet
  <2> QED BY <2>4, <2>5, <2>6, <2>7 DEF LifeIInv
<1> QED BY <1>4, <1>5

LEMMA StopGoesOnPreserves ==
  ASSUME LifeIInv, exit = "no", TypeOK', StopGoesOn
  PROVE  LifeIInv'
<1> DEFINE part == Order[stopping]
<1>1. /\ stopping # 0 /\ stopping \in DOMAIN Order /\ part \in Set
      /\ gone' = gone \cup {part}
      /\ jobs' = IF part = "aggregate" THEN JobsStopped ELSE jobs
      /\ GoOn(stopping + 1)
      /\ UNCHANGED <<svc, begun, startTimer, early, abortTimer, cmd, pc>>
      /\ svc \in DOMAIN Assigned
  BY DEF LifeIInv, LifeTypeOK, StopControl, StopGoesOn, Order
<1>2. Order' = Order /\ Set' = Set /\ (Started' <=> Started)
  BY <1>1 DEF Order, Set, Started
<1>3. Len(Order) \in Nat /\ DOMAIN Order = 1..Len(Order)
  BY <1>1, Lists DEF Order
<1>4. stopping + 1 \in 1..Len(Order) + 1
  BY <1>1, <1>3
<1>5. /\ stopping' \in stopping + 1..Len(Order) + 1
      /\ exit' \in {"no", "clean", "unset"}
      /\ exit' = "no" => stopping' \in DOMAIN Order /\ Order[stopping'] \in Set
      /\ exit' = "clean" => stopping' = Len(Order) + 1
      /\ Started => exit' # "unset" /\ stopping' = stopping + 1
  BY <1>1, <1>4, GoOnControl
<1>6. stopping' \in Nat /\ stopping' # 0 /\ stopping \in Nat
  BY <1>1, <1>3, <1>5
<1>7. LifeTypeOK'
  BY <1>1, <1>2, <1>5, <1>6 DEF LifeIInv, LifeTypeOK, JobsStopped
<1>8. StopControl'
  <2>1. exit' = "unset" => early
    BY <1>1, <1>5 DEF LifeIInv, NothingSkipped, LifeTypeOK
  <2>2. \A f \in gone' : \E k \in DOMAIN Order : Order[k] = f
    BY <1>1 DEF LifeIInv, StopControl
  <2> QED BY <1>1, <1>2, <1>5, <1>6, <2>1, <2>2 DEF StopControl
<1>9. NothingSkipped'
  <2> SUFFICES ASSUME ~early, NEW k \in DOMAIN Order, k < stopping'
               PROVE  Started /\ Order[k] \in gone'
    BY <1>1, <1>2, <1>3, <1>5, <1>6 DEF NothingSkipped, LifeIInv
  <2>1. Started /\ (k < stopping => Order[k] \in gone)
    BY <1>1 DEF LifeIInv, NothingSkipped
  <2>2. k < stopping \/ k = stopping
    BY <1>3, <1>5, <1>6, <2>1
  <2> QED BY <1>1, <2>1, <2>2
<1>10. ApiQuiet'
  BY <1>1 DEF LifeIInv, ApiQuiet, JobsStopped
<1> QED BY <1>7, <1>8, <1>9, <1>10 DEF LifeIInv

LEMMA LifeStep == LifeIInv /\ [LifeNext]_allVars => LifeIInv'
<1> SUFFICES ASSUME LifeIInv, [LifeNext]_allVars PROVE LifeIInv'
  OBVIOUS
<1>1. TypeOK'
  BY ClientStep, TypePreserved DEF LifeIInv, LifeTypeOK
<1>2. CASE UNCHANGED allVars
  BY <1>1, <1>2
  DEF allVars, lifeVars, LifeIInv, LifeTypeOK, StopControl, NothingSkipped, ApiQuiet, Order,
      Set, Started
<1>3. ASSUME exit = "no", NEW c \in Call, TaskReleases(c) PROVE LifeIInv'
  <2>1. CASE Ends("release")
    BY <1>1, <1>3, <2>1, EndsPreserves
  <2>2. CASE TaskTo(c, "end")
    BY <1>1, <1>3, <2>2, TaskStepPreserves
  <2> QED BY <1>3, <2>1, <2>2 DEF TaskReleases
<1>4. ASSUME exit = "no", NEW c \in Call,
             \/ Ticks(c) \/ TaskAcquires(c) \/ TaskReads(c) \/ TaskPublishes(c)
             \/ TaskPosts(c) \/ TaskReturns(c) \/ TaskRested(c) \/ HttpStep(c)
      PROVE  LifeIInv'
  BY <1>1, <1>4, TaskStepPreserves
<1>5. CASE exit = "no" /\ (CommandComes \/ CommandArms \/ CommandEnds)
  BY <1>1, <1>5, CommandStepPreserves
<1>6. CASE exit = "no" /\ StartGoesOn
  BY <1>1, <1>6, StartGoesOnPreserves
<1>7. CASE exit = "no" /\ (StartFails \/ StartTimesOut \/ StopFails \/ StopTimesOut)
  BY <1>1, <1>7, EndsPreserves DEF StartFails, StartTimesOut, StopFails, StopTimesOut
<1>8. CASE exit = "no" /\ Signal
  BY <1>1, <1>8, SignalPreserves
<1>9. CASE exit = "no" /\ StopGoesOn
  BY <1>1, <1>9, StopGoesOnPreserves
<1> QED BY <1>2, <1>3, <1>4, <1>5, <1>6, <1>7, <1>8, <1>9 DEF LifeNext

LEMMA LifeAlways == LifeSpec => []LifeIInv
BY LifeInitEstablishes, LifeStep, PTL DEF LifeSpec

\* Start, stop, commands and tasks keep the types; in particular stop() destroys
\* nothing that start() has not set.
THEOREM LifeKeepsTypes == LifeSpec => []LifeTypeOK
BY LifeAlways, PTL DEF LifeIInv

\* Only a service that was told to stop before it had started finds a field unset.
THEOREM OnlyEarlyStopsMeetUnset == LifeSpec => []UnsetIsEarly
<1>1. LifeIInv => UnsetIsEarly
  BY DEF LifeIInv, StopControl, UnsetIsEarly
<1> QED BY <1>1, LifeAlways, PTL

\* A service that had started and exits by itself has destroyed all it had set.
THEOREM CleanExitsAreComplete == LifeSpec => []CleanExitDestroys
<1>1. LifeIInv => CleanExitDestroys
  <2> SUFFICES ASSUME LifeIInv, exit = "clean", ~early, NEW k \in DOMAIN Order
               PROVE  Order[k] \in gone
    BY DEF CleanExitDestroys, Order
  <2>1. Len(Order) \in Nat /\ DOMAIN Order = 1..Len(Order)
    BY Lists DEF LifeIInv, LifeTypeOK, Order
  <2>2. k < stopping /\ stopping # 0
    BY <2>1 DEF LifeIInv, StopControl
  <2> QED BY <2>2 DEF LifeIInv, NothingSkipped
<1> QED BY <1>1, LifeAlways, PTL

\* The API has no job left that could start a task once its aggregate is destroyed.
THEOREM DestroyedApisStayQuiet == LifeSpec => ApiQuietAfterDestroy
<1>1. ASSUME LifeIInv, LifeNext, NEW c \in Call, svc = "api", ~early, "aggregate" \in gone,
             pc[c] = "idle"
      PROVE  pc'[c] = "idle"
  <2>1. jobs = {}
    BY <1>1 DEF LifeIInv, LifeTypeOK, ApiQuiet
  <2>2. ASSUME NEW d \in Call,
               \/ TaskAcquires(d) \/ TaskReads(d) \/ TaskPublishes(d) \/ TaskPosts(d)
               \/ TaskReturns(d) \/ TaskRested(d) \/ TaskReleases(d)
        PROVE  pc'[c] = pc[c]
    <3>1. pc[d] # "idle"
      BY <2>2 DEF TaskAcquires, TaskReads, TaskPublishes, TaskPosts, TaskReturns, TaskRested,
                  TaskReleases
    <3>2. pc' = pc \/ \E to \in {"reading", "sending", "awaiting", "resting", "releasing",
                                 "end"} : pc' = [pc EXCEPT ![d] = to]
      <4>1. CASE TaskReleases(d)
        BY <4>1 DEF TaskReleases, TaskTo, Ends
      <4>2. CASE ~TaskReleases(d)
        BY <2>2, <4>2 DEF TaskAcquires, TaskReads, TaskPublishes, TaskPosts, TaskReturns,
                          TaskRested, TaskTo
      <4> QED BY <4>1, <4>2
    <3> QED BY <1>1, <3>1, <3>2 DEF LifeIInv, LifeTypeOK
  <2>3. ASSUME NEW d \in Call, Ticks(d) PROVE FALSE
    BY <2>1, <2>3 DEF Ticks
  <2>4. ASSUME \/ StartGoesOn \/ StartFails \/ StartTimesOut \/ Signal \/ StopGoesOn
               \/ StopFails \/ StopTimesOut \/ CommandComes \/ CommandArms \/ CommandEnds
               \/ \E d \in Call : HttpStep(d)
        PROVE  UNCHANGED pc
    BY <2>4
    DEF StartGoesOn, StartFails, StartTimesOut, Signal, StopGoesOn, StopFails, StopTimesOut,
        CommandComes, CommandArms, CommandEnds, HttpStep, Ends, lifeVars
  <2> QED BY <1>1, <2>2, <2>3, <2>4 DEF LifeNext
<1>2. LifeIInv /\ [LifeNext]_allVars =>
        [\A c \in Call : svc = "api" /\ ~early /\ "aggregate" \in gone /\ pc[c] = "idle"
           => pc'[c] = "idle"]_allVars
  BY <1>1
<1> QED BY <1>2, LifeAlways, PTL DEF LifeSpec, ApiQuietAfterDestroy
=============================================================================
