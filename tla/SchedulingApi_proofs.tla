------------------------ MODULE SchedulingApi_proofs ------------------------
(* What a client's success is worth, for any number of calls about any ids.   *)
(* The invariant follows a command from the route to the topic and says where  *)
(* two commands of a client stand in it: the earlier one is before the later   *)
(* one in the queue of their key, or has been handled.                         *)
EXTENDS SchedulingApi, Integers, TLAPS

\* How far the API is with a call, and what that says about its command.
Progress ==
  \A c \in Call :
    /\ client[c] # "new" => request[c] \in Asked
    /\ api[c] # "none" => client[c] # "new"
    /\ api[c] \in {"none", "received"} => fate[c] = "none"
    /\ api[c] = "accepted" => request[c].op \in Write /\ fate[c] # "none"
    /\ api[c] \in {"found", "missing"} => request[c].op = "get"
    /\ client[c] = "ok" => api[c] \in {"accepted", "found"}

\* Only calls that had succeeded come before a call.
AfterSuccess == \A c \in Call : \A b \in after[c] : client[b] = "ok"

\* What is in the queues has been published, under its key, and what is queued is in
\* the queue of its key.
Queued ==
  /\ \A k \in Id \cup Call : \A n \in 1..Len(queue[k]) :
       /\ api[queue[k][n]] \in {"accepted", "error"}
       /\ request[queue[k][n]].op \in Write
       /\ MsgKey(queue[k][n]) = k
  /\ \A c \in Call : fate[c] = "queued" =>
       \E n \in 1..Len(queue[MsgKey(c)]) : queue[MsgKey(c)][n] = c

\* In the queue of an id, a call comes after those it was made after.
InOrder ==
  \A i \in Id : \A n \in 1..Len(queue[i]) : \A b \in after[queue[i][n]] :
    Writes(b, i) /\ Writes(queue[i][n], i) =>
      Handled(b) \/ \E m \in 1..n - 1 : queue[i][m] = b

ApiIInv == TypeOK /\ Progress /\ AfterSuccess /\ Queued /\ InOrder /\ HandledInClientOrder

USE ApiAssumption

LEMMA AskedFields ==
  ASSUME NEW q \in Asked
  PROVE  q.op \in {"create", "get", "delete", "deleteAll"} /\ q.id \in Id \cup {None}
BY DEF Asked

LEMMA KeyOfCall ==
  ASSUME NEW c \in Call, request[c] \in Asked
  PROVE  /\ MsgKey(c) \in Id \cup Call
         /\ \A i \in Id : Writes(c, i) => MsgKey(c) = i
BY AskedFields DEF MsgKey, Writes

LEMMA QueueEntries ==
  ASSUME TypeOK, NEW k \in Id \cup Call, NEW n \in 1..Len(queue[k])
  PROVE  queue[k] \in Seq(Call) /\ queue[k][n] \in Call
<1>1. queue[k] \in Seq(Call)
  BY DEF TypeOK
<1> QED BY <1>1

LEMMA ApiInitEstablishes == Init => ApiIInv
<1> SUFFICES ASSUME Init PROVE ApiIInv
  OBVIOUS
<1> USE DEF Init
<1>1. TypeOK
  BY DEF TypeOK
<1>2. Progress /\ AfterSuccess
  BY DEF Progress, AfterSuccess
<1>3. Queued /\ InOrder
  BY DEF Queued, InOrder
<1>4. HandledInClientOrder
  BY DEF HandledInClientOrder
<1> QED BY <1>1, <1>2, <1>3, <1>4 DEF ApiIInv

----------------------------------------------------------------------------
LEMMA AskPreserves ==
  ASSUME ApiIInv, NEW c \in Call, NEW q \in Asked, Ask(c, q)
  PROVE  ApiIInv'
<1> USE DEF Ask
<1>0. fate[c] = "none" /\ api[c] = "none"
  BY DEF ApiIInv, TypeOK, Progress
<1>1. TypeOK'
  BY DEF ApiIInv, TypeOK
<1>2. Progress'
  <2> SUFFICES ASSUME NEW d \in Call
               PROVE  /\ client'[d] # "new" => request'[d] \in Asked
                      /\ api[d] # "none" => client'[d] # "new"
                      /\ api[d] \in {"none", "received"} => fate[d] = "none"
                      /\ api[d] = "accepted" => request'[d].op \in Write /\ fate[d] # "none"
                      /\ api[d] \in {"found", "missing"} => request'[d].op = "get"
                      /\ client'[d] = "ok" => api[d] \in {"accepted", "found"}
    BY DEF Progress
  <2>1. CASE d = c
    BY <2>1, <1>0 DEF ApiIInv, TypeOK, Progress
  <2>2. CASE d # c
    <3>1. client'[d] = client[d] /\ request'[d] = request[d]
      BY <2>2 DEF ApiIInv, TypeOK
    <3> QED BY <3>1 DEF ApiIInv, Progress
  <2> QED BY <2>1, <2>2
<1>3. AfterSuccess'
  BY DEF ApiIInv, TypeOK, AfterSuccess
<1>5. \A k \in Id \cup Call : \A n \in 1..Len(queue[k]) : queue[k][n] \in Call /\ queue[k][n] # c
  BY <1>0, QueueEntries DEF ApiIInv, Queued
<1>6. \A d \in Call : d # c => /\ MsgKey(d)' = MsgKey(d)
                               /\ request'[d] = request[d] /\ after'[d] = after[d]
                               /\ \A i \in Id : Writes(d, i)' <=> Writes(d, i)
  BY DEF ApiIInv, TypeOK, MsgKey, Writes
<1>7. \A d \in Call : c \notin after[d]
  BY DEF ApiIInv, TypeOK, AfterSuccess
<1>8. \A d \in Call : Handled(d)' <=> Handled(d)
  BY DEF Handled
<1>9. Queued'
  <2>1. ASSUME NEW k \in Id \cup Call, NEW n \in 1..Len(queue[k])
        PROVE  /\ api[queue[k][n]] \in {"accepted", "error"}
               /\ request'[queue[k][n]].op \in Write
               /\ MsgKey(queue[k][n])' = k
    BY <1>5, <1>6 DEF ApiIInv, Queued
  <2>2. ASSUME NEW d \in Call, fate[d] = "queued"
        PROVE  \E n \in 1..Len(queue[MsgKey(d)']) : queue[MsgKey(d)'][n] = d
    <3>1. d # c
      BY <1>0, <2>2
    <3> QED BY <1>6, <2>2, <3>1 DEF ApiIInv, Queued
  <2> QED BY <2>1, <2>2 DEF Queued
<1>10. InOrder'
  <2> SUFFICES ASSUME NEW i \in Id, NEW n \in 1..Len(queue[i]), NEW b \in after'[queue[i][n]],
                      Writes(b, i)', Writes(queue[i][n], i)'
               PROVE  Handled(b)' \/ \E m \in 1..n - 1 : queue[i][m] = b
    BY DEF InOrder
  <2>1. queue[i][n] \in Call /\ queue[i][n] # c
    BY <1>5
  <2>2. b \in after[queue[i][n]] /\ b \in Call /\ b # c
    BY <1>6, <1>7, <2>1 DEF ApiIInv, TypeOK
  <2> QED BY <1>6, <1>8, <2>1, <2>2 DEF ApiIInv, InOrder
<1>11. HandledInClientOrder'
  <2> SUFFICES ASSUME NEW d \in Call, NEW i \in Id, NEW b \in after'[d],
                      Writes(b, i)', Writes(d, i)', Handled(d)'
               PROVE  Handled(b)'
    BY DEF HandledInClientOrder
  <2>1. d # c
    BY <1>0, <1>8 DEF Handled
  <2>2. b \in after[d] /\ b \in Call /\ b # c
    BY <1>6, <1>7, <2>1 DEF ApiIInv, TypeOK
  <2> QED BY <1>6, <1>8, <2>1, <2>2 DEF ApiIInv, HandledInClientOrder
<1> QED BY <1>1, <1>2, <1>3, <1>9, <1>10, <1>11 DEF ApiIInv

----------------------------------------------------------------------------
\* The steps that leave the commands, the calls and the queues alone.
LEMMA OrderIsKept ==
  ASSUME ApiIInv, UNCHANGED <<request, queue, fate, after>>
  PROVE  InOrder' /\ HandledInClientOrder'
<1>1. \A d \in Call, i \in Id : Writes(d, i)' <=> Writes(d, i)
  BY DEF Writes
<1>2. InOrder'
  BY DEF ApiIInv, InOrder, Handled, Writes
<1>3. HandledInClientOrder'
  BY DEF ApiIInv, HandledInClientOrder, Handled, Writes
<1> QED BY <1>2, <1>3

LEMMA QuietApiPreserves ==
  ASSUME ApiIInv, NEW c \in Call, Receive(c) \/ Read(c)
  PROVE  ApiIInv'
<1> USE DEF Receive, Read
<1>1. api[c] \in {"none", "received"} /\ client[c] # "new"
  BY DEF ApiIInv, TypeOK, Progress
<1>2. /\ \A d \in Call : d # c => api'[d] = api[d]
      /\ api'[c] \in {"received", "found", "missing", "error"}
      /\ api'[c] \in {"found", "missing"} => request[c].op = "get"
      /\ api'[c] = "received" => fate[c] = "none"
  BY DEF ApiIInv, TypeOK, Progress
<1>3. TypeOK'
  BY <1>2 DEF ApiIInv, TypeOK, Response
<1>4. Progress'
  <2>1. ASSUME NEW d \in Call
        PROVE  /\ client[d] # "new" => request[d] \in Asked
               /\ api'[d] # "none" => client[d] # "new"
               /\ api'[d] \in {"none", "received"} => fate[d] = "none"
               /\ api'[d] = "accepted" => request[d].op \in Write /\ fate[d] # "none"
               /\ api'[d] \in {"found", "missing"} => request[d].op = "get"
               /\ client[d] = "ok" => api'[d] \in {"accepted", "found"}
    <3>1. CASE d = c
      BY <1>1, <1>2, <3>1 DEF ApiIInv, Progress
    <3>2. CASE d # c
      BY <1>2, <3>2 DEF ApiIInv, Progress
    <3> QED BY <3>1, <3>2
  <2> QED BY <2>1 DEF Progress
<1>5. AfterSuccess'
  BY DEF ApiIInv, AfterSuccess
<1>6. Queued'
  <2>1. ASSUME NEW k \in Id \cup Call, NEW n \in 1..Len(queue[k])
        PROVE  api'[queue[k][n]] \in {"accepted", "error"} /\ MsgKey(queue[k][n])' = k
    <3>1. queue[k][n] \in Call /\ queue[k][n] # c
      BY <1>1, QueueEntries DEF ApiIInv, Queued
    <3> QED BY <1>2, <3>1 DEF ApiIInv, Queued, MsgKey
  <2> QED BY <2>1 DEF ApiIInv, Queued, MsgKey
<1> QED BY <1>3, <1>4, <1>5, <1>6, OrderIsKept DEF ApiIInv

LEMMA ClientHearsPreserves ==
  ASSUME ApiIInv, NEW c \in Call, Return(c) \/ GiveUp(c)
  PROVE  ApiIInv'
<1> USE DEF Return, GiveUp
<1>1. PICK r \in Result : /\ client' = [client EXCEPT ![c] = r]
                          /\ r = "ok" => api[c] \in {"accepted", "found"}
  BY DEF ApiIInv, TypeOK, Outcome, Result, Response
<1>2. client[c] = "waiting" /\ UNCHANGED <<request, api, queue, fate, stored, after>>
  OBVIOUS
<1>3. r \notin {"new", "waiting"}
  BY DEF Result
<1>4. TypeOK'
  BY <1>1, <1>2 DEF ApiIInv, TypeOK
<1>5. Progress'
  BY <1>1, <1>2, <1>3 DEF ApiIInv, TypeOK, Progress
<1>6. AfterSuccess'
  BY <1>1, <1>2 DEF ApiIInv, TypeOK, AfterSuccess
<1>7. Queued'
  BY <1>2 DEF ApiIInv, Queued, MsgKey
<1> QED BY <1>2, <1>4, <1>5, <1>6, <1>7, OrderIsKept DEF ApiIInv

----------------------------------------------------------------------------
\* A command that reaches the topic stands behind every command of its id that the
\* client had been told of.
LEMMA EnqueuePreserves ==
  ASSUME ApiIInv, NEW c \in Call, NEW r \in {"accepted", "error"},
         api[c] = "received", request[c].op \in Write, Enqueue(c),
         api' = [api EXCEPT ![c] = r], UNCHANGED <<request, client, stored, after>>
  PROVE  ApiIInv'
<1> DEFINE key == MsgKey(c)
           len == Len(queue[key])
<1>1. client[c] # "new" /\ request[c] \in Asked /\ fate[c] = "none"
  BY DEF ApiIInv, Progress
<1>2. key \in Id \cup Call /\ queue[key] \in Seq(Call) /\ len \in Nat
  BY <1>1, KeyOfCall DEF ApiIInv, TypeOK
<1>3. queue' = [queue EXCEPT ![key] = Append(queue[key], c)] /\ fate' = [fate EXCEPT ![c] = "queued"]
  BY DEF Enqueue
<1>4. /\ queue'[key] = Append(queue[key], c)
      /\ Len(queue'[key]) = len + 1 /\ queue'[key][len + 1] = c
      /\ \A n \in 1..len : queue'[key][n] = queue[key][n]
  <2>1. queue'[key] = Append(queue[key], c)
    BY <1>2, <1>3 DEF ApiIInv, TypeOK
  <2> QED BY <1>2, <2>1
<1>5. \A k \in Id \cup Call : k # key => queue'[k] = queue[k]
  BY <1>2, <1>3 DEF ApiIInv, TypeOK
<1>6. /\ \A d \in Call : d # c => api'[d] = api[d] /\ fate'[d] = fate[d]
      /\ api'[c] = r /\ fate'[c] = "queued"
  BY <1>3 DEF ApiIInv, TypeOK
<1>7. \A d \in Call : Handled(d)' <=> Handled(d)
  BY <1>1, <1>6 DEF Handled
<1>8. TypeOK'
  <2>1. queue' \in [Id \cup Call -> Seq(Call)]
    BY <1>2, <1>3 DEF ApiIInv, TypeOK
  <2> QED BY <1>3, <2>1 DEF ApiIInv, TypeOK, Response
<1>9. Progress'
  <2>1. ASSUME NEW d \in Call
        PROVE  /\ client[d] # "new" => request[d] \in Asked
               /\ api'[d] # "none" => client[d] # "new"
               /\ api'[d] \in {"none", "received"} => fate'[d] = "none"
               /\ api'[d] = "accepted" => request[d].op \in Write /\ fate'[d] # "none"
               /\ api'[d] \in {"found", "missing"} => request[d].op = "get"
               /\ client[d] = "ok" => api'[d] \in {"accepted", "found"}
    <3>1. CASE d = c
      BY <1>1, <1>6, <3>1 DEF ApiIInv, Progress
    <3>2. CASE d # c
      BY <1>6, <3>2 DEF ApiIInv, Progress
    <3> QED BY <3>1, <3>2
  <2> QED BY <2>1 DEF Progress
<1>10. AfterSuccess'
  BY DEF ApiIInv, AfterSuccess
<1>11. Queued'
  <2>1. ASSUME NEW k \in Id \cup Call, NEW n \in 1..Len(queue'[k])
        PROVE  /\ api'[queue'[k][n]] \in {"accepted", "error"}
               /\ request[queue'[k][n]].op \in Write
               /\ MsgKey(queue'[k][n]) = k
    <3>1. CASE k = key /\ n = len + 1
      BY <1>4, <1>6, <3>1
    <3>2. CASE ~(k = key /\ n = len + 1)
      <4>1. n \in 1..Len(queue[k]) /\ queue'[k][n] = queue[k][n]
        BY <1>2, <1>4, <1>5, <3>2
      <4>2. queue[k][n] \in Call
        BY <4>1, QueueEntries DEF ApiIInv
      <4> QED BY <1>6, <4>1, <4>2 DEF ApiIInv, Queued
    <3> QED BY <3>1, <3>2
  <2>2. ASSUME NEW d \in Call, fate'[d] = "queued"
        PROVE  \E n \in 1..Len(queue'[MsgKey(d)]) : queue'[MsgKey(d)][n] = d
    <3>1. CASE d = c
      BY <1>2, <1>4, <3>1
    <3>2. CASE d # c
      <4>1. fate[d] = "queued"
        BY <1>6, <2>2, <3>2
      <4>2. PICK n \in 1..Len(queue[MsgKey(d)]) : queue[MsgKey(d)][n] = d
        BY <4>1 DEF ApiIInv, Queued
      <4>3. MsgKey(d) \in Id \cup Call
        <5>1. request[d] \in Asked
          BY <4>1 DEF ApiIInv, TypeOK, Progress
        <5> QED BY <5>1, KeyOfCall
      <4>4. n \in 1..Len(queue'[MsgKey(d)]) /\ queue'[MsgKey(d)][n] = d
        <5>1. CASE MsgKey(d) = key
          BY <1>2, <1>4, <4>2, <5>1
        <5>2. CASE MsgKey(d) # key
          BY <1>5, <4>2, <4>3, <5>2
        <5> QED BY <5>1, <5>2
      <4> QED BY <4>4
    <3> QED BY <3>1, <3>2
  <2> QED BY <2>1, <2>2 DEF Queued, MsgKey
<1>12. InOrder'
  <2> SUFFICES ASSUME NEW i \in Id, NEW n \in 1..Len(queue'[i]), NEW b \in after[queue'[i][n]],
                      Writes(b, i), Writes(queue'[i][n], i)
               PROVE  Handled(b)' \/ \E m \in 1..n - 1 : queue'[i][m] = b
    BY DEF InOrder, Writes
  <2>1. CASE i = key /\ n = len + 1
    <3>1. queue'[i][n] = c /\ b \in Call /\ b \in after[c]
      BY <1>4, <2>1 DEF ApiIInv, TypeOK
    <3>2. Writes(b, i) /\ request[b] \in Asked /\ request[b].op \in {"create", "delete"}
      <4>1. request[b].op \in {"create", "delete"} /\ request[b].id \in Id
        BY DEF Writes
      <4>2. client[b] = "ok"
        BY <3>1 DEF ApiIInv, AfterSuccess
      <4> QED BY <3>1, <4>1, <4>2 DEF ApiIInv, Progress
    <3>3. fate[b] # "none"
      BY <3>1, <3>2 DEF ApiIInv, AfterSuccess, Progress
    <3>4. CASE fate[b] = "queued"
      <4>1. MsgKey(b) = i
        BY <3>1, <3>2, KeyOfCall
      <4>2. PICK m \in 1..len : queue[i][m] = b
        BY <2>1, <3>1, <3>4, <4>1 DEF ApiIInv, Queued
      <4>3. m \in 1..n - 1 /\ queue'[i][m] = b
        BY <1>2, <1>4, <2>1, <4>2
      <4> QED BY <4>3
    <3>5. CASE fate[b] # "queued"
      BY <1>7, <3>1, <3>3, <3>5 DEF ApiIInv, TypeOK, Handled
    <3> QED BY <3>4, <3>5
  <2>2. CASE ~(i = key /\ n = len + 1)
    <3>1. n \in 1..Len(queue[i]) /\ \A m \in 1..n : queue'[i][m] = queue[i][m]
      <4>1. CASE i = key
        <5>1. n \in 1..len /\ \A m \in 1..n : m \in 1..len
          BY <1>2, <1>4, <2>2, <4>1
        <5> QED BY <1>4, <4>1, <5>1
      <4>2. CASE i # key
        BY <1>5, <4>2
      <4> QED BY <4>1, <4>2
    <3>2. queue[i][n] \in Call /\ n \in 1..n /\ Len(queue[i]) \in Nat
      BY <3>1, QueueEntries DEF ApiIInv
    <3>3. b \in after[queue[i][n]] /\ b \in Call
      BY <3>1, <3>2 DEF ApiIInv, TypeOK
    <3>4. Handled(b) \/ \E m \in 1..n - 1 : queue[i][m] = b
      BY <1>7, <3>1, <3>2, <3>3 DEF ApiIInv, InOrder
    <3> QED BY <1>7, <3>1, <3>3, <3>4
  <2> QED BY <2>1, <2>2
<1>13. HandledInClientOrder'
  <2> SUFFICES ASSUME NEW d \in Call, NEW i \in Id, NEW b \in after[d],
                      Writes(b, i), Writes(d, i), Handled(d)'
               PROVE  Handled(b)'
    BY DEF HandledInClientOrder, Writes
  <2>1. b \in Call
    BY DEF ApiIInv, TypeOK
  <2> QED BY <1>7, <2>1 DEF ApiIInv, HandledInClientOrder
<1> QED BY <1>8, <1>9, <1>10, <1>11, <1>12, <1>13 DEF ApiIInv

LEMMA PublishPreserves ==
  ASSUME ApiIInv, NEW c \in Call, Publish(c) \/ PublishFails(c)
  PROVE  ApiIInv'
<1>1. CASE Publish(c)
  BY <1>1, EnqueuePreserves DEF Publish
<1>2. CASE PublishFails(c) /\ Enqueue(c)
  BY <1>2, EnqueuePreserves DEF PublishFails
<1>3. CASE PublishFails(c) /\ UNCHANGED <<queue, fate>>
  <2> USE <1>3 DEF PublishFails
  <2>1. client[c] # "new" /\ client[c] # "ok" /\ request[c] \in Asked
    BY DEF ApiIInv, Progress
  <2>2. api'[c] = "error" /\ \A d \in Call : d # c => api'[d] = api[d]
    BY DEF ApiIInv, TypeOK
  <2>3. TypeOK'
    BY DEF ApiIInv, TypeOK, Response
  <2>4. Progress'
    BY <2>1, <2>2 DEF ApiIInv, Progress
  <2>5. AfterSuccess'
    BY DEF ApiIInv, AfterSuccess
  <2>6. Queued'
    <3>1. ASSUME NEW k \in Id \cup Call, NEW n \in 1..Len(queue[k])
          PROVE  api'[queue[k][n]] \in {"accepted", "error"} /\ MsgKey(queue[k][n])' = k
      <4>1. queue[k][n] \in Call
        BY QueueEntries DEF ApiIInv
      <4> QED BY <2>2, <4>1 DEF ApiIInv, Queued, MsgKey
    <3> QED BY <3>1 DEF ApiIInv, Queued, MsgKey
  <2> QED BY <2>3, <2>4, <2>5, <2>6, OrderIsKept DEF ApiIInv
<1> QED BY <1>1, <1>2, <1>3 DEF PublishFails

----------------------------------------------------------------------------
\* The command that is handled was the first of its key, so that what its client
\* had been told of before it has been handled.
LEMMA HandlePreserves ==
  ASSUME ApiIInv, NEW k \in Id \cup Call, Handle(k)
  PROVE  ApiIInv'
<1> DEFINE c == Head(queue[k])
           len == Len(queue[k])
<1>1. queue[k] \in Seq(Call) /\ queue[k] # <<>> /\ len \in Nat /\ 1 \in 1..len /\ c = queue[k][1]
  <2>1. queue[k] \in Seq(Call)
    BY DEF ApiIInv, TypeOK
  <2>2. queue[k] # <<>>
    BY DEF Handle
  <2> QED BY <2>1, <2>2
<1>2. /\ c \in Call /\ api[c] \in {"accepted", "error"} /\ MsgKey(c) = k
      /\ request[c] \in Asked /\ request[c].op \in Write
  <2>1. c \in Call /\ api[c] \in {"accepted", "error"} /\ request[c].op \in Write /\ MsgKey(c) = k
    BY <1>1, QueueEntries DEF ApiIInv, Queued
  <2> QED BY <2>1 DEF ApiIInv, Progress
<1>3. PICK f \in {"done", "failed"} :
        /\ fate' = [fate EXCEPT ![c] = f]
        /\ queue' = [queue EXCEPT ![k] = Tail(queue[k])]
        /\ UNCHANGED <<request, client, api, after>>
  BY DEF Handle
<1>rest. UNCHANGED <<request, client, api, after>>
  BY <1>3
<1>4. stored' \subseteq Id \cup Call
  <2>1. NewId(c) \in Id \cup Call
    BY <1>2, AskedFields DEF NewId
  <2>2. request[c].op \in {"create", "delete", "deleteAll"}
    BY <1>2 DEF Write
  <2>3. stored \subseteq Id \cup Call
    BY DEF ApiIInv, TypeOK
  <2> QED BY <2>1, <2>2, <2>3 DEF Handle
<1>5. /\ Len(queue'[k]) = len - 1
      /\ \A n \in 1..len - 1 : queue'[k][n] = queue[k][n + 1]
  <2>1. queue'[k] = Tail(queue[k])
    BY <1>3 DEF ApiIInv, TypeOK
  <2> QED BY <1>1, <2>1
<1>6. \A j \in Id \cup Call : j # k => queue'[j] = queue[j]
  BY <1>3 DEF ApiIInv, TypeOK
<1>7. /\ \A d \in Call : d # c => fate'[d] = fate[d]
      /\ fate'[c] = f
  BY <1>2, <1>3 DEF ApiIInv, TypeOK
<1>8. \A d \in Call : Handled(d)' <=> d = c \/ Handled(d)
  BY <1>7 DEF Handled
<1>9. TypeOK'
  <2>1. queue' \in [Id \cup Call -> Seq(Call)]
    BY <1>1, <1>3 DEF ApiIInv, TypeOK
  <2> QED BY <1>3, <1>4, <2>1 DEF ApiIInv, TypeOK
<1>10. Progress'
  <2>1. ASSUME NEW d \in Call
        PROVE  /\ client[d] # "new" => request[d] \in Asked
               /\ api[d] # "none" => client[d] # "new"
               /\ api[d] \in {"none", "received"} => fate'[d] = "none"
               /\ api[d] = "accepted" => request[d].op \in Write /\ fate'[d] # "none"
               /\ api[d] \in {"found", "missing"} => request[d].op = "get"
               /\ client[d] = "ok" => api[d] \in {"accepted", "found"}
    <3>1. CASE d = c
      BY <1>2, <1>7, <3>1 DEF ApiIInv, Progress
    <3>2. CASE d # c
      BY <1>7, <3>2 DEF ApiIInv, Progress
    <3> QED BY <3>1, <3>2
  <2> QED BY <1>3, <2>1 DEF Progress
<1>11. AfterSuccess'
  BY <1>3 DEF ApiIInv, AfterSuccess
<1>12. \A j \in Id \cup Call : \A n \in 1..Len(queue'[j]) :
         /\ j = k => n + 1 \in 1..len /\ queue'[j][n] = queue[j][n + 1]
         /\ j # k => n \in 1..Len(queue[j]) /\ queue'[j][n] = queue[j][n]
  BY <1>1, <1>5, <1>6
<1>13. Queued'
  <2>1. ASSUME NEW j \in Id \cup Call, NEW n \in 1..Len(queue'[j])
        PROVE  /\ api[queue'[j][n]] \in {"accepted", "error"}
               /\ request[queue'[j][n]].op \in Write
               /\ MsgKey(queue'[j][n]) = j
    BY <1>12 DEF ApiIInv, Queued
  <2>2. ASSUME NEW d \in Call, fate'[d] = "queued"
        PROVE  \E n \in 1..Len(queue'[MsgKey(d)]) : queue'[MsgKey(d)][n] = d
    <3>1. d # c /\ fate[d] = "queued"
      BY <1>7, <2>2
    <3>2. PICK n \in 1..Len(queue[MsgKey(d)]) : queue[MsgKey(d)][n] = d
      BY <3>1 DEF ApiIInv, Queued
    <3>3. CASE MsgKey(d) = k
      <4>1. n - 1 \in 1..len - 1 /\ n = (n - 1) + 1
        BY <1>1, <3>1, <3>2, <3>3
      <4> QED BY <1>5, <3>2, <3>3, <4>1
    <3>4. CASE MsgKey(d) # k
      <4>1. MsgKey(d) \in Id \cup Call
        <5>1. request[d] \in Asked
          BY <3>1 DEF ApiIInv, TypeOK, Progress
        <5> QED BY <5>1, KeyOfCall
      <4> QED BY <1>6, <3>2, <3>4, <4>1
    <3> QED BY <3>3, <3>4
  <2> QED BY <1>rest, <2>1, <2>2 DEF Queued, MsgKey
<1>14. InOrder'
  <2> SUFFICES ASSUME NEW i \in Id, NEW n \in 1..Len(queue'[i]), NEW b \in after[queue'[i][n]],
                      Writes(b, i), Writes(queue'[i][n], i)
               PROVE  Handled(b)' \/ \E m \in 1..n - 1 : queue'[i][m] = b
    BY <1>rest DEF InOrder, Writes
  <2>1. CASE i = k
    <3>1. n \in 1..len - 1 /\ n + 1 \in 1..len /\ queue'[i][n] = queue[i][n + 1]
      BY <1>1, <1>5, <2>1
    <3>2. queue[i][n + 1] \in Call
      BY <1>1, <2>1, <3>1, QueueEntries DEF ApiIInv
    <3>3. b \in Call
      BY <3>1, <3>2 DEF ApiIInv, TypeOK
    <3>4. Handled(b) \/ \E m \in 1..(n + 1) - 1 : queue[i][m] = b
      BY <2>1, <3>1 DEF ApiIInv, InOrder
    <3>5. ASSUME NEW m \in 1..(n + 1) - 1, queue[i][m] = b, b # c
          PROVE  \E l \in 1..n - 1 : queue'[i][l] = b
      <4>1. m - 1 \in 1..n - 1 /\ m - 1 \in 1..len - 1 /\ (m - 1) + 1 = m
        BY <1>1, <2>1, <3>1, <3>5
      <4> QED BY <1>5, <2>1, <3>5, <4>1
    <3> QED BY <1>8, <3>3, <3>4, <3>5
  <2>2. CASE i # k
    <3>1. queue'[i] = queue[i]
      BY <1>6, <2>2
    <3>2. queue[i][n] \in Call
      BY <3>1, QueueEntries DEF ApiIInv
    <3>3. b \in Call
      BY <3>1, <3>2 DEF ApiIInv, TypeOK
    <3>4. Handled(b) \/ \E m \in 1..n - 1 : queue[i][m] = b
      BY <3>1 DEF ApiIInv, InOrder
    <3> QED BY <1>8, <3>1, <3>3, <3>4
  <2> QED BY <2>1, <2>2
<1>15. HandledInClientOrder'
  <2> SUFFICES ASSUME NEW d \in Call, NEW i \in Id, NEW b \in after[d],
                      Writes(b, i), Writes(d, i), Handled(d)'
               PROVE  Handled(b)'
    BY <1>rest DEF HandledInClientOrder, Writes
  <2>1. b \in Call
    BY DEF ApiIInv, TypeOK
  <2>2. CASE d = c
    <3>1. i = k
      BY <1>2, <2>2, KeyOfCall
    <3>2. Handled(b) \/ \E m \in 1..1 - 1 : queue[i][m] = b
      BY <1>1, <2>2, <3>1 DEF ApiIInv, InOrder
    <3>3. 1..1 - 1 = {}
      OBVIOUS
    <3> QED BY <1>8, <2>1, <3>2, <3>3
  <2>3. CASE d # c
    <3>1. Handled(d)
      BY <1>8, <2>3
    <3> QED BY <1>8, <2>1, <3>1 DEF ApiIInv, HandledInClientOrder
  <2> QED BY <2>2, <2>3
<1> QED BY <1>9, <1>10, <1>11, <1>13, <1>14, <1>15 DEF ApiIInv

LEMMA ApiStepPreserves == ApiIInv /\ [Next]_vars => ApiIInv'
<1> SUFFICES ASSUME ApiIInv, [Next]_vars PROVE ApiIInv'
  OBVIOUS
<1>1. CASE \E c \in Call, q \in Asked : Ask(c, q)
  BY <1>1, AskPreserves
<1>2. CASE \E c \in Call : Receive(c) \/ Read(c)
  BY <1>2, QuietApiPreserves
<1>3. CASE \E c \in Call : Publish(c) \/ PublishFails(c)
  BY <1>3, PublishPreserves
<1>4. CASE \E c \in Call : Return(c) \/ GiveUp(c)
  BY <1>4, ClientHearsPreserves
<1>5. CASE \E k \in Id \cup Call : Handle(k)
  BY <1>5, HandlePreserves
<1>6. CASE UNCHANGED vars
  <2> USE <1>6 DEF vars
  <2>1. TypeOK' /\ Progress' /\ AfterSuccess'
    BY DEF ApiIInv, TypeOK, Progress, AfterSuccess
  <2>2. Queued'
    BY DEF ApiIInv, Queued, MsgKey
  <2> QED BY <2>1, <2>2, OrderIsKept DEF ApiIInv
<1> QED BY <1>1, <1>2, <1>3, <1>4, <1>5, <1>6 DEF Next

\* The calls, the routes and the topic keep to their types.
THEOREM ApiKeepsTypes == Spec => []TypeOK
<1>1. ApiIInv => TypeOK
  BY DEF ApiIInv
<1> QED BY <1>1, ApiInitEstablishes, ApiStepPreserves, PTL DEF Spec

\* Whoever has been told that a command was accepted can rely on its being on the
\* topic, whatever becomes of the API process.
THEOREM SuccessIsPublished == Spec => []AcceptedIsPublished
<1>1. ApiIInv => AcceptedIsPublished
  BY DEF ApiIInv, AcceptedIsPublished, Progress, Write
<1> QED BY <1>1, ApiInitEstablishes, ApiStepPreserves, PTL DEF Spec

\* What a client does about one reminder after a success is handled after what that
\* success was about.
THEOREM ClientsAreServedInOrder == Spec => []HandledInClientOrder
<1>1. ApiIInv => HandledInClientOrder
  BY DEF ApiIInv
<1> QED BY <1>1, ApiInitEstablishes, ApiStepPreserves, PTL DEF Spec
=============================================================================
