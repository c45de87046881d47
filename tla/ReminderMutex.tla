--------------------------- MODULE ReminderMutex ---------------------------
(* What the locks promise the scheduler, with no Redis, no map of locks and  *)
(* no expiry in sight: at most one task at a time works on a reminder id.    *)
CONSTANTS Proc, Task, Id, ProcOf, None

VARIABLE holding    \* holding[t]: the id task t works on, or None

MutexInit == holding = [t \in Task |-> None]

Take(t, i) ==
  /\ holding[t] = None
  /\ \A u \in Task : holding[u] # i
  /\ holding' = [holding EXCEPT ![t] = i]

Give(t) ==
  /\ holding[t] # None
  /\ holding' = [holding EXCEPT ![t] = None]

\* A process stops: whatever its tasks were doing ends with it.
Drop(p) ==
  holding' = [t \in Task |-> IF ProcOf[t] = p THEN None ELSE holding[t]]

MutexNext ==
  \/ \E t \in Task : Give(t) \/ \E i \in Id : Take(t, i)
  \/ \E p \in Proc : Drop(p)

MutexSpec == MutexInit /\ [][MutexNext]_holding
=============================================================================
