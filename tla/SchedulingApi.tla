---------------------------- MODULE SchedulingApi ----------------------------
(* A client's call and what becomes of it: SchedulingClient sends an HTTP      *)
(* request with a timeout of its own, the scheduling API puts a command on the *)
(* commands topic and answers as soon as the topic has it, and the command     *)
(* handler takes the command later.  The topic keeps the order of the commands *)
(* that have one key.                                                          *)
EXTENDS Sequences, FiniteSets

CONSTANTS
  Call,       \* the calls that clients make, each of them once
  Id,         \* reminder ids
  None        \* a reminder without an id

ASSUME ApiAssumption == Call \cap Id = {} /\ None \notin Call \cup Id

Write == {"create", "delete", "deleteAll"}
Asked == [op : {"create"}, id : Id \cup {None}] \cup [op : {"get", "delete"}, id : Id]
         \cup [op : {"deleteAll"}, id : {None}]

VARIABLES
  request,    \* request[c]: what call c asks for
  client,     \* client[c]: "new", "waiting" for the response, or the call's result
  api,        \* api[c]: what the API has done about c; its response once it has one
  queue,      \* queue[k]: the calls whose commands have the key k, in order
  fate,       \* fate[c]: what has become of the command of c
  stored,     \* the ids of the reminders in the collection
  after       \* after[c]: the calls that had succeeded when c was made

vars == <<request, client, api, queue, fate, stored, after>>

Result == {"ok", "absent", "nothing", "unable", "unreachable"}
Response == {"accepted", "found", "missing", "error"}

TypeOK ==
  /\ request \in [Call -> Asked \cup {None}]
  /\ client \in [Call -> {"new", "waiting"} \cup Result]
  /\ api \in [Call -> {"none", "received"} \cup Response]
  /\ queue \in [Id \cup Call -> Seq(Call)]
  /\ fate \in [Call -> {"none", "queued", "done", "failed"}]
  /\ stored \subseteq Id \cup Call
  /\ after \in [Call -> SUBSET Call]

Init ==
  /\ request = [c \in Call |-> None]
  /\ client = [c \in Call |-> "new"]
  /\ api = [c \in Call |-> "none"]
  /\ queue = [k \in Id \cup Call |-> <<>>]
  /\ fate = [c \in Call |-> "none"]
  /\ stored = {}
  /\ after = [c \in Call |-> {}]

----------------------------------------------------------------------------
(* Faulty variants of the operations below, which the properties must reject. *)

\* Every command gets a random key, as DeleteRemindersCmd does.
RandomKey(c) == c

\* The route does not await the producer before it answers.
PublishFailsUnseen(c) ==
  /\ api[c] = "received"
  /\ request[c].op \in Write
  /\ api' = [api EXCEPT ![c] = "accepted"]
  /\ UNCHANGED <<request, client, queue, fate, stored, after>>

\* The client hands the response on as it is.
OutcomeUndecoded(c) == api[c]

----------------------------------------------------------------------------
\* A method of SchedulingClient, or an HTTP request to delete all reminders.
Ask(c, q) ==
  /\ client[c] = "new"
  /\ client' = [client EXCEPT ![c] = "waiting"]
  /\ request' = [request EXCEPT ![c] = q]
  /\ after' = [after EXCEPT ![c] = {b \in Call : client[b] = "ok"}]
  /\ UNCHANGED <<api, queue, fate, stored>>

\* The request reaches the API, which does not see that a client gives up.
Receive(c) ==
  /\ client[c] # "new"
  /\ api[c] = "none"
  /\ api' = [api EXCEPT ![c] = "received"]
  /\ UNCHANGED <<request, client, queue, fate, stored, after>>

\* msgKey of the command: the reminder's id if there is one; DeleteRemindersCmd
\* takes a random one.
MsgKey(c) == IF request[c].id = None THEN c ELSE request[c].id

Enqueue(c) ==
  /\ queue' = [queue EXCEPT ![MsgKey(c)] = Append(@, c)]
  /\ fate' = [fate EXCEPT ![c] = "queued"]

\* messageProducer.send() resolves; the route answers 200.
Publish(c) ==
  /\ api[c] = "received"
  /\ request[c].op \in Write
  /\ Enqueue(c)
  /\ api' = [api EXCEPT ![c] = "accepted"]
  /\ UNCHANGED <<request, client, stored, after>>

\* messageProducer.send() rejects, whether or not the topic has the command: 500.
PublishFails(c) ==
  /\ api[c] = "received"
  /\ request[c].op \in Write
  /\ Enqueue(c) \/ UNCHANGED <<queue, fate>>
  /\ api' = [api EXCEPT ![c] = "error"]
  /\ UNCHANGED <<request, client, stored, after>>

\* getReminder() reads the collection; 200, 404, or 500 if the read fails.
Read(c) ==
  /\ api[c] = "received"
  /\ request[c].op = "get"
  /\ \/ api' = [api EXCEPT ![c] = IF request[c].id \in stored THEN "found" ELSE "missing"]
     \/ api' = [api EXCEPT ![c] = "error"]
  /\ UNCHANGED <<request, client, queue, fate, stored, after>>

\* What the client makes of a response.  A creation is a success if the response
\* names the reminder's id; a read takes any body without a reminder for a result.
Outcome(c) ==
  CASE api[c] = "accepted" -> IF request[c] = [op |-> "create", id |-> None]
                              THEN "unable" ELSE "ok"
    [] api[c] = "found"    -> "ok"
    [] api[c] = "missing"  -> "absent"
    [] api[c] = "error"    -> IF request[c].op = "get" THEN "nothing" ELSE "unable"

\* The response arrives before the timeout.
Return(c) ==
  /\ client[c] = "waiting"
  /\ api[c] \in Response
  /\ client' = [client EXCEPT ![c] = Outcome(c)]
  /\ UNCHANGED <<request, api, queue, fate, stored, after>>

\* The timeout of fetchWithTimeOut() ends, or the connection fails.
GiveUp(c) ==
  /\ client[c] = "waiting"
  /\ client' = [client EXCEPT ![c] = "unreachable"]
  /\ UNCHANGED <<request, api, queue, fate, stored, after>>

\* The id that a creation is about: a reminder without one gets a fresh id.
NewId(c) == IF request[c].id = None THEN c ELSE request[c].id

\* The command handler takes the next command with the key k.  A creation needs a
\* free id, a deletion a taken one; deleting all removes what the handler finds.
Handle(k) ==
  LET c == Head(queue[k])
      op == request[c].op
      i == NewId(c)
      works == \/ op = "create" /\ i \notin stored
               \/ op = "delete" /\ i \in stored
               \/ op = "deleteAll"
  IN
  /\ queue[k] # <<>>
  /\ queue' = [queue EXCEPT ![k] = Tail(@)]
  /\ fate' = [fate EXCEPT ![c] = IF works THEN "done" ELSE "failed"]
  /\ CASE op = "create"    -> stored' = stored \cup {i}
       [] op = "delete"    -> stored' = stored \ {i}
       [] op = "deleteAll" -> stored' \in SUBSET stored
  /\ UNCHANGED <<request, client, api, after>>

Next ==
  \/ \E c \in Call, q \in Asked : Ask(c, q)
  \/ \E c \in Call : Receive(c) \/ Publish(c) \/ PublishFails(c) \/ Read(c)
                     \/ Return(c) \/ GiveUp(c)
  \/ \E k \in Id \cup Call : Handle(k)

Spec == Init /\ [][Next]_vars

----------------------------------------------------------------------------
Handled(c) == fate[c] \in {"done", "failed"}

Writes(c, i) == request[c] \in [op : {"create", "delete"}, id : {i}]

\* A call that the API has accepted is on the topic, or past it: the client's
\* success means that the command cannot be lost with the API process.
AcceptedIsPublished ==
  \A c \in Call : client[c] = "ok" /\ request[c].op \in Write => fate[c] # "none"

\* A client that has been told of success and then asks again about the same
\* reminder is served in that order, however late the commands are handled.
HandledInClientOrder ==
  \A c \in Call, i \in Id : \A b \in after[c] :
    Writes(b, i) /\ Writes(c, i) /\ Handled(c) => Handled(b)
=============================================================================
