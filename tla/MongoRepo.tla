----------------------------- MODULE MongoRepo -----------------------------
(* The reminder collection (mongo_repo.ts).  storeReminder() is two remote   *)
(* calls, findOne and insertOne, and the collection has no unique index on   *)
(* `id`, so what other callers do between the two matters.                   *)
EXTENDS Deployment, Integers

CONSTANT Keys   \* Keys[p]: the ids process p may be told to store

ASSUME RepoAssumption == Keys \in [Proc -> SUBSET Id]

VARIABLES
  docs,       \* docs[r]: how many documents equal to r the collection holds
  storing     \* storing[p]: the reminder p found absent and is about to insert

repoVars == <<docs, storing>>

RepoTypeOK ==
  /\ docs \in [Rem -> Nat]
  /\ storing \in [Proc -> Rem \cup {None}]

RepoInit ==
  /\ docs = [r \in Rem |-> 0]
  /\ storing = [p \in Proc |-> None]

Stored == {r \in Rem : docs[r] > 0}
Found(i) == {r \in Stored : r.id = i}

\* Two processes are never told to store the same id: the commands topic is
\* partitioned by the id and a partition has one consumer.
KeysDisjoint == \A p, q \in Proc : p # q => Keys[p] \cap Keys[q] = {}

----------------------------------------------------------------------------
(* Faulty variants of the operations below, which the properties must reject. *)

\* storeReminder() without the existence check.
StoreUnchecked(p, r) ==
  /\ storing[p] = None
  /\ r.id \in Keys[p]
  /\ storing' = [storing EXCEPT ![p] = r]
  /\ UNCHANGED docs

\* The retry of an insert whose reply was lost, after it has been applied.
InsertTwice(p) ==
  /\ storing[p] # None
  /\ docs' = [docs EXCEPT ![storing[p]] = @ + 2]
  /\ storing' = [storing EXCEPT ![p] = None]

\* insertOne({id: reminder.id}): a document that is no reminder.
InsertIdOnly(p) ==
  /\ storing[p] # None
  /\ docs' = [d \in Rem \cup {[id |-> storing[p].id]} |-> IF d \in Rem THEN docs[d] ELSE 1]
  /\ storing' = [storing EXCEPT ![p] = None]

----------------------------------------------------------------------------
\* storeReminder(): reminderExists() found no document with the id.
StoreCheck(p, r) ==
  /\ storing[p] = None
  /\ r.id \in Keys[p]
  /\ Found(r.id) = {}
  /\ storing' = [storing EXCEPT ![p] = r]
  /\ UNCHANGED docs

\* storeReminder() throws ReminderAlreadyExistsError.
StoreRefused(p, r) ==
  /\ storing[p] = None
  /\ r.id \in Keys[p]
  /\ Found(r.id) # {}
  /\ UNCHANGED repoVars

\* insertOne() adds a document, whatever the collection holds by now.
InsertOne(p) ==
  /\ storing[p] # None
  /\ docs' = [docs EXCEPT ![storing[p]] = @ + 1]
  /\ storing' = [storing EXCEPT ![p] = None]

\* insertOne() throws without having added the document, or p stops before it.
InsertAborted(p) ==
  /\ storing[p] # None
  /\ storing' = [storing EXCEPT ![p] = None]
  /\ UNCHANGED docs

\* deleteReminder(): deleteOne({id}) removes one of the documents with the id.
DeleteOne(r) ==
  /\ docs[r] > 0
  /\ docs' = [docs EXCEPT ![r] = @ - 1]
  /\ UNCHANGED storing

\* deleteReminder() throws NoSuchReminderError.
DeleteNone(i) ==
  /\ Found(i) = {}
  /\ UNCHANGED repoVars

\* getReminder() and getReminders() change nothing: callers read Found(i) and
\* Stored in the step that uses the reply.

RepoNext ==
  \/ \E p \in Proc, r \in Rem : StoreCheck(p, r)
  \/ \E p \in Proc, r \in Rem : StoreRefused(p, r)
  \/ \E p \in Proc : InsertOne(p)
  \/ \E p \in Proc : InsertAborted(p)
  \/ \E r \in Rem : DeleteOne(r)
  \/ \E r \in Rem : DeleteNone(r.id)

RepoSpec == RepoInit /\ [][RepoNext]_repoVars

----------------------------------------------------------------------------
\* The collection holds at most one document per reminder id: getReminder() by
\* id and deleteReminder() by id are about one and the same reminder.
OneDocPerId ==
  /\ \A r \in Rem : docs[r] <= 1
  /\ \A r, s \in Stored : r.id = s.id => r = s

\* What makes OneDocPerId inductive: nobody has inserted the id since a process
\* found it absent.
CheckStillHolds ==
  \A p \in Proc : storing[p] # None =>
    /\ storing[p].id \in Keys[p]
    /\ Found(storing[p].id) = {}

RepoIInv == RepoTypeOK /\ OneDocPerId /\ CheckStillHolds

\* The collection behaves as the set of reminders that IRepo describes.
Store == INSTANCE ReminderStore WITH stored <- Stored
ImplementsStore == Store!StoreSpec
=============================================================================
