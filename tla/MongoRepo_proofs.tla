-------------------------- MODULE MongoRepo_proofs --------------------------
(* While no two processes store the same id, the unguarded check-then-insert  *)
(* of storeReminder is enough: the collection is a set with one reminder per  *)
(* id.  The invariant that carries the proof is that an id found absent is    *)
(* still absent when it is inserted.                                          *)
EXTENDS MongoRepo, TLAPS

\* No two processes are between the check and the insertion of one id.
OneStorer ==
  \A p, q \in Proc :
    storing[p] # None /\ storing[q] # None /\ storing[p].id = storing[q].id => p = q

LEMMA DisjointKeysOneStorer ==
  ASSUME KeysDisjoint, CheckStillHolds PROVE OneStorer
BY DEF KeysDisjoint, CheckStillHolds, OneStorer

LEMMA RepoInitEstablishes == RepoInit => RepoIInv
BY RepoAssumption, DeploymentAssumption
DEF RepoInit, RepoIInv, RepoTypeOK, OneDocPerId, CheckStillHolds, Stored

LEMMA CheckPreserves ==
  ASSUME RepoIInv, NEW p \in Proc, NEW r \in Rem, StoreCheck(p, r)
  PROVE  RepoIInv'
BY RepoAssumption, DeploymentAssumption
DEF RepoIInv, RepoTypeOK, OneDocPerId, CheckStillHolds, StoreCheck, Stored, Found

LEMMA InsertPreserves ==
  ASSUME OneStorer, RepoIInv, NEW p \in Proc, InsertOne(p)
  PROVE  RepoIInv'
<1> DEFINE n == storing[p]
<1>1. n \in Rem /\ n.id \in Keys[p] /\ Found(n.id) = {}
  BY DEF RepoIInv, RepoTypeOK, CheckStillHolds, InsertOne
<1>2. docs[n] = 0
  BY <1>1 DEF RepoIInv, RepoTypeOK, Found, Stored
<1>3. RepoTypeOK'
  BY <1>1 DEF RepoIInv, RepoTypeOK, InsertOne
<1>4. /\ docs' = [docs EXCEPT ![n] = 1]
      /\ Stored' = Stored \cup {n}
  BY <1>1, <1>2 DEF RepoIInv, RepoTypeOK, InsertOne, Stored
<1>5. OneDocPerId'
  BY <1>1, <1>2, <1>4 DEF RepoIInv, RepoTypeOK, OneDocPerId, Found
<1>6. CheckStillHolds'
  <2> SUFFICES ASSUME NEW q \in Proc, storing'[q] # None
               PROVE  (storing[q].id \in Keys[q] /\ Found(storing[q].id) = {})'
    BY DEF CheckStillHolds
  <2>1. q # p /\ storing'[q] = storing[q]
    BY DEF RepoIInv, RepoTypeOK, InsertOne
  <2>2. storing[q].id \in Keys[q] /\ Found(storing[q].id) = {}
    BY <2>1 DEF RepoIInv, CheckStillHolds
  <2>3. storing[q].id # n.id
    BY <2>1 DEF OneStorer, InsertOne
  <2> QED BY <1>4, <2>1, <2>2, <2>3 DEF Found
<1> QED BY <1>3, <1>5, <1>6 DEF RepoIInv

LEMMA AbortPreserves ==
  ASSUME RepoIInv, NEW p \in Proc, InsertAborted(p)
  PROVE  RepoIInv'
BY DEF RepoIInv, RepoTypeOK, OneDocPerId, CheckStillHolds, InsertAborted, Stored, Found

LEMMA DeletePreserves ==
  ASSUME RepoIInv, NEW r \in Rem, DeleteOne(r)
  PROVE  RepoIInv' /\ Stored' = Stored \ {r}
<1>1. docs[r] = 1
  BY DEF RepoIInv, RepoTypeOK, OneDocPerId, DeleteOne
<1>2. RepoTypeOK' /\ Stored' = Stored \ {r}
  BY <1>1 DEF RepoIInv, RepoTypeOK, DeleteOne, Stored
<1>3. OneDocPerId'
  BY <1>1, <1>2 DEF RepoIInv, RepoTypeOK, OneDocPerId, DeleteOne
<1>4. CheckStillHolds'
  BY <1>2 DEF RepoIInv, CheckStillHolds, DeleteOne, Found
<1> QED BY <1>2, <1>3, <1>4 DEF RepoIInv

LEMMA RepoStep ==
  ASSUME OneStorer, RepoIInv, [RepoNext]_repoVars
  PROVE  RepoIInv'
<1>1. ASSUME NEW p \in Proc, NEW r \in Rem, StoreCheck(p, r) PROVE RepoIInv'
  BY <1>1, CheckPreserves
<1>2. ASSUME NEW p \in Proc, InsertOne(p) PROVE RepoIInv'
  BY <1>2, InsertPreserves
<1>3. ASSUME NEW p \in Proc, InsertAborted(p) PROVE RepoIInv'
  BY <1>3, AbortPreserves
<1>4. ASSUME NEW r \in Rem, DeleteOne(r) PROVE RepoIInv'
  BY <1>4, DeletePreserves
<1>5. CASE UNCHANGED repoVars
  BY <1>5
  DEF repoVars, RepoIInv, RepoTypeOK, OneDocPerId, CheckStillHolds, Stored, Found
<1> QED BY <1>1, <1>2, <1>3, <1>4, <1>5 DEF RepoNext, StoreRefused, DeleteNone

\* For any number of processes that store disjoint ids, the collection never
\* holds two documents with one id although nothing in it forbids them.
THEOREM IdsStayUnique ==
  ASSUME KeysDisjoint
  PROVE  RepoSpec => [](RepoTypeOK /\ OneDocPerId /\ CheckStillHolds)
<1>1. RepoInit => RepoIInv
  BY RepoInitEstablishes
<1>2. RepoIInv /\ [RepoNext]_repoVars => RepoIInv'
  BY RepoStep, DisjointKeysOneStorer DEF RepoIInv
<1>3. RepoSpec => []RepoIInv
  BY <1>1, <1>2, PTL DEF RepoSpec
<1> QED BY <1>3, PTL DEF RepoIInv

\* The documents are reminders under their keys, and a store operation in flight
\* has a reminder.
THEOREM RepoKeepsTypes ==
  ASSUME KeysDisjoint PROVE RepoSpec => []RepoTypeOK
BY IdsStayUnique, PTL

\* What reminderExists() found is still so when insertOne() is called.
THEOREM ChecksStillHold ==
  ASSUME KeysDisjoint PROVE RepoSpec => []CheckStillHolds
BY IdsStayUnique, PTL

LEMMA RepoStepRefines ==
  ASSUME RepoIInv, [RepoNext]_repoVars
  PROVE  [Store!StoreNext]_Stored
<1>1. ASSUME NEW p \in Proc, InsertOne(p) PROVE Store!StoreNext
  <2> DEFINE n == storing[p]
  <2>1. n \in Rem /\ Found(n.id) = {}
    BY <1>1 DEF RepoIInv, RepoTypeOK, CheckStillHolds, InsertOne
  <2>2. Stored' = Stored \cup {n}
    BY <1>1, <2>1 DEF RepoIInv, RepoTypeOK, InsertOne, Stored, Found
  <2>3. \A s \in Stored : s.id # n.id
    BY <2>1 DEF Found
  <2>4. Store!Add(n)
    BY <2>2, <2>3 DEF Store!Add
  <2> QED BY <2>1, <2>4 DEF Store!StoreNext
<1>2. ASSUME NEW r \in Rem, DeleteOne(r) PROVE Store!StoreNext
  <2>1. r \in Stored /\ Stored' = Stored \ {r}
    BY <1>2, DeletePreserves DEF DeleteOne, Stored
  <2>2. Stored' = {s \in Stored : s.id # r.id}
    BY <2>1 DEF RepoIInv, OneDocPerId
  <2>3. Store!Remove(r.id)
    BY <2>1, <2>2 DEF Store!Remove
  <2> QED BY <2>3 DEF Store!StoreNext
<1>3. ASSUME UNCHANGED docs PROVE UNCHANGED Stored
  BY <1>3 DEF Stored
<1> QED
  BY <1>1, <1>2, <1>3
  DEF RepoNext, StoreCheck, StoreRefused, InsertAborted, DeleteNone, repoVars

\* The collection implements the set of reminders that IRepo describes: an
\* insertion only adds an id that is absent, a deletion removes all of an id.
THEOREM RepoImplementsStore ==
  ASSUME KeysDisjoint PROVE RepoSpec => ImplementsStore
<1>1. RepoInit => Store!StoreInit
  BY DEF RepoInit, Stored, Store!StoreInit
<1>2. RepoIInv /\ [RepoNext]_repoVars => [Store!StoreNext]_Stored
  BY RepoStepRefines
<1>3. RepoSpec => []RepoIInv
  BY IdsStayUnique, PTL DEF RepoIInv
<1> QED BY <1>1, <1>2, <1>3, PTL DEF RepoSpec, ImplementsStore, Store!StoreSpec
=============================================================================
