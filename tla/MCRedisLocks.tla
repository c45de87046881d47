--------------------------- MODULE MCRedisLocks ---------------------------
(* Two processes of two tasks each, two reminder ids.                        *)
EXTENDS RedisLocks, TLC

CONSTANTS p1, p2, t1, t2, t3, t4, i1, i2

MCProcOf == t1 :> p1 @@ t2 :> p1 @@ t3 :> p2 @@ t4 :> p2
=============================================================================
