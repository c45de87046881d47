--------------------------- MODULE ReminderStore ---------------------------
(* What IRepo promises its callers: a set of reminders, at most one per id,  *)
(* to which adding an id that is present is an error.                        *)
CONSTANT Rem

VARIABLE stored

StoreInit == stored = {}

Add(r) ==
  /\ \A s \in stored : s.id # r.id
  /\ stored' = stored \cup {r}

Remove(i) ==
  /\ \E s \in stored : s.id = i
  /\ stored' = {s \in stored : s.id # i}

StoreNext == \E r \in Rem : Add(r) \/ Remove(r.id)

StoreSpec == StoreInit /\ [][StoreNext]_stored
=============================================================================
