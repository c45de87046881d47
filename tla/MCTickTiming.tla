---------------------------- MODULE MCTickTiming ----------------------------
(* Two processes, two ticks.  What matters of the numbers is how they compare  *)
(* in the services: the retries of a loser take longer (10 of 0 to 400 ms, here *)
(* 3 of at most 1) than the minimal duration (2 s, here 2), the work may take   *)
(* longer than that (an HTTP timeout of 10 s, here 3), and the time to live is  *)
(* longer still (30 s, here 5).  Timers fire late by up to 1, and the rest and  *)
(* the release together take up to 1 more than they should.                     *)
EXTENDS TickTiming, TLC

CONSTANTS p1, p2, t1, t2, t3, t4, rid

MCProcOf == t1 :> p1 @@ t2 :> p2 @@ t3 :> p1 @@ t4 :> p2
MCTickAt == t1 :> 0 @@ t2 :> 0 @@ t3 :> 4 @@ t4 :> 4
=============================================================================
