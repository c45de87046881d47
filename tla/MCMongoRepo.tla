---------------------------- MODULE MCMongoRepo ----------------------------
(* Two storing processes, three ids, two reminders with each of them.        *)
EXTENDS MongoRepo, TLC

CONSTANTS p1, p2, i1, i2, i3

MCRem == [id : {i1, i2, i3}, time : {"a", "b"}]

\* The partitions of the commands topic: each has one consumer.
KeysPartitioned == p1 :> {i1, i3} @@ p2 :> {i2}
=============================================================================
