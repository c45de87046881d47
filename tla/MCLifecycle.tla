---------------------------- MODULE MCLifecycle ----------------------------
(* Two runs of runReminderTask in one process. *)
EXTENDS Lifecycle

CONSTANTS c1, c2
=============================================================================
