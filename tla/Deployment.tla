----------------------------- MODULE Deployment -----------------------------
(* Names shared by the modules of the scheduling system.                     *)

CONSTANTS
  Proc,       \* the processes: command handler and scheduling API services
  Id,         \* reminder ids
  Rem,        \* the reminders clients submit: records with (at least) an id
  None        \* absence: null, undefined, an absent key

ASSUME DeploymentAssumption ==
  /\ None \notin Id /\ None \notin Rem
  /\ \A r \in Rem : r.id \in Id
=============================================================================
