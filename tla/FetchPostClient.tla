--------------------------- MODULE FetchPostClient ---------------------------
(* The HTTP client of a service (fetch_http_client.ts).  All its sends share   *)
(* one AbortController: the timer that one send arms aborts every send in      *)
(* flight, and a controller that has aborted stays aborted.                    *)

CONSTANTS
  Call,       \* calls of send(), made by concurrent reminder tasks
  None

ASSUME CallAssumption == None \notin Call

VARIABLES
  call,       \* call[c]: how far call c is
  timer,      \* timer[c]: the timeout armed by c is pending
  aborted,    \* the controller's signal has fired
  stopped,    \* destroy() has been called
  cause       \* cause[c]: why call c failed

vars == <<call, timer, aborted, stopped, cause>>

TypeOK ==
  /\ call \in [Call -> {"new", "flying", "ok", "failed"}]
  /\ timer \in [Call -> BOOLEAN]
  /\ aborted \in BOOLEAN /\ stopped \in BOOLEAN
  /\ cause \in [Call -> {"none", "network", "timeout", "other"}]

Init ==
  /\ call = [c \in Call |-> "new"]
  /\ timer = [c \in Call |-> FALSE]
  /\ aborted = FALSE /\ stopped = FALSE
  /\ cause = [c \in Call |-> "none"]

\* The signal fires by the hand of call c (None: of destroy()): fetch() rejects in
\* every call that is in flight.
Abort(c) ==
  LET hit == {d \in Call : call[d] = "flying"} IN
  /\ aborted' = TRUE
  /\ call' = [d \in Call |-> IF d \in hit THEN "failed" ELSE call[d]]
  /\ cause' = [d \in Call |-> IF d \notin hit THEN cause[d]
                              ELSE IF d = c THEN "timeout" ELSE "other"]

----------------------------------------------------------------------------
(* Faulty variants of the operations below, which the properties must reject. *)

\* send() forgets clearTimeout().
RespondKeepTimer(c) ==
  /\ call[c] = "flying"
  /\ call' = [call EXCEPT ![c] = "ok"]
  /\ UNCHANGED <<timer, aborted, stopped, cause>>

\* fetch() is called without the signal.
TimerFiresDeaf(c) ==
  /\ timer[c]
  /\ timer' = [timer EXCEPT ![c] = FALSE]
  /\ aborted' = TRUE
  /\ UNCHANGED <<call, stopped, cause>>

----------------------------------------------------------------------------
\* send(): the timer is armed first; fetch() rejects at once on a signal that has
\* already fired, and the timer stays armed.
Send(c) ==
  /\ call[c] = "new"
  /\ call' = [call EXCEPT ![c] = IF aborted THEN "failed" ELSE "flying"]
  /\ cause' = [cause EXCEPT ![c] = IF aborted THEN "other" ELSE "none"]
  /\ timer' = [timer EXCEPT ![c] = TRUE]
  /\ UNCHANGED <<aborted, stopped>>

\* fetch() resolves, whatever the status of the response.
Respond(c) ==
  /\ call[c] = "flying"
  /\ call' = [call EXCEPT ![c] = "ok"]
  /\ timer' = [timer EXCEPT ![c] = FALSE]
  /\ UNCHANGED <<aborted, stopped, cause>>

\* fetch() rejects for a network error: clearTimeout() is not reached.
NetworkFails(c) ==
  /\ call[c] = "flying"
  /\ call' = [call EXCEPT ![c] = "failed"]
  /\ cause' = [cause EXCEPT ![c] = "network"]
  /\ UNCHANGED <<timer, aborted, stopped>>

\* A pending timeout ends.
TimerFires(c) ==
  /\ timer[c]
  /\ timer' = [timer EXCEPT ![c] = FALSE]
  /\ Abort(c)
  /\ UNCHANGED stopped

\* destroy(), when the service stops.
Destroy ==
  /\ stopped' = TRUE
  /\ Abort(None)
  /\ UNCHANGED timer

Next ==
  \/ \E c \in Call : Send(c) \/ Respond(c) \/ NetworkFails(c) \/ TimerFires(c)
  \/ Destroy

\* Timers fire; servers need not answer.
Spec == Init /\ [][Next]_vars /\ \A c \in Call : WF_vars(TimerFires(c))

----------------------------------------------------------------------------
\* A call that was answered in time cannot harm a later one: until the service
\* stops, the shared signal fires only after some call failed by itself.
AbortHasCulprit ==
  aborted /\ ~stopped => \E c \in Call : cause[c] \in {"network", "timeout"}

\* "send should pass" after "send should fail because server is not up"
\* (integration test): a call only fails for its own server or its own timeout.
FailsOnItsOwn == ~stopped => \A c \in Call : cause[c] # "other"
=============================================================================
