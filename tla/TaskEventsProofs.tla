-------------------------- MODULE TaskEventsProofs --------------------------
(***************************************************************************)
(* Proofs about TaskEvents for all sets of requests, prefetch limits and   *)
(* numbers of restarts, faults and stops: every invariant the runs check.  *)
(***************************************************************************)
EXTENDS TaskEvents, FiniteSetTheorems, TLAPS

-----------------------------------------------------------------------------
(* The inductive invariant.                                                *)

\* Ids are given out to requests that have begun, at most one to each.
Began == {r \in Requests : pc[r] # "new"}
CountInv == next <= Cardinality(Began) + 1

\* What a request knows of its task and its event.
MadeInv ==
    \A r \in Requests :
        /\ pc[r] = "new" => made[r] = NoEvent
        /\ pc[r] = "created" =>
              /\ made[r] # NoEvent
              /\ made[r].life = life /\ made[r].id \in tasks
              /\ made[r] \notin wire \union arrived \union lost
        /\ pc[r] = "done" <=> reply[r] # "none"
        /\ reply[r] \in {"201", "500"} => made[r] # NoEvent
        /\ made[r] # NoEvent =>
              /\ made[r].life <= life
              /\ made[r].life = life => made[r].id < next

\* An event is of one request, and arrives once.
EventInv ==
    /\ \A r, s \in Requests : made[r] = made[s] /\ made[r] # NoEvent => r = s
    /\ \A e \in wire \union arrived \union lost : \E r \in Requests : made[r] = e
    /\ wire \intersect arrived = {}

\* Everything the broker and the worker hold has arrived.
HeldInv ==
    /\ queue \union unacked \union buf \subseteq arrived \union {Bad}
    /\ cur \in arrived \union {Bad, NoEvent}
    /\ \A e \in Events : logged[e] > 0 => e \in arrived
    /\ Bad \in queue \union unacked => foreign

\* What the worker has in hand is, while its session lasts, unacknowledged, and
\* what it acknowledges it has logged.
SessionInv ==
    /\ queue \intersect unacked = {}
    /\ ~open => unacked = {}
    /\ worker = "down" => buf = {}
    /\ worker \in {"down", "idle"} <=> cur = NoEvent
    /\ cur \notin buf
    /\ worker = "logged" => cur # Bad /\ logged[cur] > 0
    /\ open /\ worker # "down" =>
          /\ buf \subseteq unacked \ settled
          /\ cur # NoEvent => cur \in unacked \ settled
    /\ \A e \in settled : e # Bad => logged[e] > 0

\* The broker has e and will deliver it again, or its session will end without
\* an acknowledgement of e: e may be logged once more.
Due(e) ==
    \/ e \in queue
    \/ e \in unacked /\ worker = "down"
    \/ e \in unacked /\ e \notin settled /\ ~(worker = "logged" /\ cur = e)

\* A worker whose session is gone may still log e.
Orphan(e) == ~open /\ (e \in buf \/ (cur = e /\ worker = "have"))

\* What has been logged and what may still be logged is paid for by faults.
BudgetInv ==
    \A e \in Events :
        /\ Due(e) /\ Orphan(e) => logged[e] + 1 <= faults
        /\ Due(e) \/ Orphan(e) => logged[e] <= faults
        /\ logged[e] <= 1 + faults

ApiInv == CountInv /\ MadeInv /\ EventInv /\ RepliesAreExplained
QueueInv == HeldInv /\ SessionInv /\ BudgetInv /\ AcceptedIsKept
IInv == TypeOK /\ ApiInv /\ QueueInv

-----------------------------------------------------------------------------
(* Facts used by several steps.                                            *)

\* Of all the requests, those that have begun are not more.
LEMMA BeganCount ==
    /\ IsFiniteSet(Began) /\ Cardinality(Began) \in Nat
    /\ Cardinality(Requests) \in Nat
    /\ Cardinality(Began) <= Cardinality(Requests)
    /\ \A r \in Requests \ Began :
          Cardinality(Began \union {r}) = Cardinality(Began) + 1
<1>1. IsFiniteSet(Requests) /\ Began \subseteq Requests
  BY LimitsAssumption DEF Began
<1>2. IsFiniteSet(Began) /\ Cardinality(Began) <= Cardinality(Requests)
  BY <1>1, FS_Subset
<1>. QED
  BY <1>1, <1>2, FS_CardinalityType, FS_AddElement

\* So an id that is given out is one of Ids.
LEMMA IdsSuffice ==
    ASSUME CountInv, NEW r \in Requests, pc[r] = "new", next \in Nat \ {0}
    PROVE  next \in Ids /\ next + 1 \in 1 .. Cardinality(Requests) + 1
<1>1. IsFiniteSet(Began \union {r}) /\ Began \union {r} \subseteq Requests
  BY BeganCount, FS_AddElement DEF Began
<1>2. Cardinality(Began \union {r}) <= Cardinality(Requests)
  BY <1>1, FS_Subset, LimitsAssumption
<1>3. Cardinality(Began) + 1 <= Cardinality(Requests)
  BY <1>2, BeganCount DEF Began
<1>. QED
  BY <1>3, BeganCount DEF CountInv, Ids

\* A request that begins is one more; no step makes one less.
LEMMA CountGrows ==
    ASSUME CountInv, next \in Nat, next' \in Nat,
           pc \in [Requests -> {"new", "created", "done", "dead"}],
           \/ /\ \A r \in Requests : pc[r] # "new" => pc'[r] # "new"
              /\ next' <= next
           \/ /\ \E r \in Requests :
                    /\ pc[r] = "new"
                    /\ pc' = [pc EXCEPT ![r] = "created"]
              /\ next' = next + 1
    PROVE  CountInv'
<1>0. IsFiniteSet(Requests) /\ Began' \subseteq Requests
  BY LimitsAssumption DEF Began
<1>1. IsFiniteSet(Began') /\ Cardinality(Began') \in Nat
  BY <1>0, FS_Subset, FS_CardinalityType
<1>2. CASE /\ \A r \in Requests : pc[r] # "new" => pc'[r] # "new"
           /\ next' <= next
  <2>1. Began \subseteq Began'
    BY <1>2 DEF Began
  <2>2. Cardinality(Began) <= Cardinality(Began')
    BY <1>1, <2>1, FS_Subset
  <2>. QED
    BY <1>1, <1>2, <2>2, BeganCount DEF CountInv
<1>3. CASE /\ \E r \in Requests :
                 /\ pc[r] = "new"
                 /\ pc' = [pc EXCEPT ![r] = "created"]
           /\ next' = next + 1
  <2>1. PICK r \in Requests : pc[r] = "new" /\ pc' = [pc EXCEPT ![r] = "created"]
    BY <1>3
  <2>2. Began' = Began \union {r} /\ r \notin Began
    BY <2>1 DEF Began
  <2>3. Cardinality(Began') = Cardinality(Began) + 1
    BY <2>1, <2>2, BeganCount
  <2>. QED
    BY <1>3, <2>3, BeganCount DEF CountInv
<1>. QED
  BY <1>2, <1>3

\* The API's part of the invariant does not look at the queue or the worker,
LEMMA ApiKept ==
    ASSUME ApiInv, UNCHANGED <<apiVars, arrived>>
    PROVE  ApiInv'
BY DEF ApiInv, CountInv, Began, MadeInv, EventInv, RepliesAreExplained, apiVars

\* and the queue's part does not look at the API.
LEMMA QueueKept ==
    ASSUME QueueInv, UNCHANGED <<brokerVars, workerVars, boundVars>>
    PROVE  QueueInv'
BY DEF QueueInv, HeldInv, SessionInv, BudgetInv, Due, Orphan, AcceptedIsKept,
       brokerVars, workerVars, boundVars

\* Nothing has been created, published or logged.
LEMMA InitIInv == Init => IInv
<1>. SUFFICES ASSUME Init PROVE IInv
  OBVIOUS
<1>. USE LimitsAssumption, BodiesAssumption, BeganCount DEF Init
<1>1. TypeOK
  <2>1. next \in 1 .. Cardinality(Requests) + 1
    BY BeganCount
  <2>2. life \in 0 .. MaxLives /\ faults \in 0 .. MaxFaults /\ stops \in 0 .. MaxStops
    BY LimitsAssumption
  <2>3. logged \in [Events -> Nat]
    OBVIOUS
  <2>. QED
    BY <2>1, <2>2, <2>3 DEF TypeOK
<1>2. CountInv
  BY DEF CountInv
<1>3. MadeInv /\ EventInv /\ RepliesAreExplained
  BY DEF MadeInv, EventInv, RepliesAreExplained
<1>4. HeldInv /\ SessionInv /\ BudgetInv /\ AcceptedIsKept
  BY DEF HeldInv, SessionInv, BudgetInv, Due, Orphan, AcceptedIsKept
<1>. QED
  BY <1>1, <1>2, <1>3, <1>4 DEF IInv, ApiInv, QueueInv

-----------------------------------------------------------------------------
(* The steps of the API process.                                           *)

\* A POST that is refused.
LEMMA RejectStep ==
    ASSUME IInv, NEW r \in Requests, Reject(r)
    PROVE  IInv'
<1>. USE DEF IInv, ApiInv, Reject, Answer
<1>1. TypeOK'
  BY DEF TypeOK, brokerVars, workerVars, boundVars
<1>2. CountInv'
  BY CountGrows DEF TypeOK
<1>3. MadeInv' /\ EventInv' /\ RepliesAreExplained'
  BY DEF TypeOK, MadeInv, EventInv, RepliesAreExplained, brokerVars
<1>4. QueueInv'
  BY QueueKept
<1>. QED
  BY <1>1, <1>2, <1>3, <1>4

\* The new task has an id and an event nobody has.
LEMMA CreateStep ==
    ASSUME IInv, NEW r \in Requests, Create(r)
    PROVE  IInv'
<1>. USE BodiesAssumption DEF IInv, ApiInv, Create
<1>. DEFINE e == [life |-> life, id |-> next]
<1>0. /\ next \in Ids /\ next \in Nat /\ next + 1 \in 1 .. Cardinality(Requests) + 1
      /\ life \in Nat /\ e \in Events /\ e # NoEvent
      /\ made' = [made EXCEPT ![r] = e]
      /\ \A s \in Requests : made[s] # e
      /\ pc[r] = "new" /\ made[r] = NoEvent /\ reply[r] = "none"
  <2>1. next \in Nat \ {0}
    BY BeganCount DEF TypeOK
  <2>2. next \in Ids /\ next + 1 \in 1 .. Cardinality(Requests) + 1
    BY <2>1, IdsSuffice
  <2>3. e \in Events
    BY <2>2 DEF TypeOK, Events
  <2>4. \A s \in Requests : made[s] # e
    BY <2>1, <2>3 DEF MadeInv
  <2>5. life \in Nat
    BY LimitsAssumption DEF TypeOK
  <2>. QED
    BY <2>1, <2>2, <2>3, <2>4, <2>5 DEF MadeInv
<1>1. TypeOK'
  BY <1>0 DEF TypeOK, brokerVars, workerVars, boundVars
<1>2. CountInv'
  <2>1. next' = next + 1 /\ next' \in Nat /\ pc' = [pc EXCEPT ![r] = "created"]
    BY <1>0
  <2>2. CountInv /\ pc \in [Requests -> {"new", "created", "done", "dead"}]
    BY DEF TypeOK
  <2>. QED
    BY <1>0, <2>1, <2>2, CountGrows
<1>3. EventInv'
  BY <1>0 DEF TypeOK, EventInv, brokerVars
<1>4. MadeInv'
  <2>1. /\ e \notin wire \union arrived \union lost
        /\ UNCHANGED <<wire, arrived, lost, life, reply>>
        /\ tasks' = tasks \union {next} /\ next' = next + 1
        /\ e.life = life /\ e.id = next
    BY <1>0 DEF EventInv, brokerVars
  <2>2. /\ made'[r] = e /\ pc'[r] = "created"
        /\ \A s \in Requests \ {r} : made'[s] = made[s] /\ pc'[s] = pc[s]
    BY <1>0 DEF TypeOK
  <2>3. \A s \in Requests \ {r} :
            made[s] # NoEvent => made[s].life \in Nat /\ made[s].id \in Nat
    BY LimitsAssumption, BeganCount DEF TypeOK, Events, Ids
  <2>4. ASSUME NEW s \in Requests \ {r}
        PROVE  made'[s] # NoEvent => /\ made'[s].life <= life'
                                     /\ made'[s].life = life' => made'[s].id < next'
    BY <1>0, <2>1, <2>2, <2>3 DEF MadeInv
  <2>. QED
    BY <1>0, <2>1, <2>2, <2>4 DEF MadeInv
<1>5. RepliesAreExplained'
  BY <1>0 DEF TypeOK, RepliesAreExplained, brokerVars
<1>6. QueueInv'
  BY QueueKept
<1>. QED
  BY <1>1, <1>2, <1>3, <1>4, <1>5, <1>6

\* The handler publishes, or finds its connection lost.
LEMMA PublishStep ==
    ASSUME IInv, NEW r \in Requests, Publish(r)
    PROVE  IInv'
<1>. USE DEF IInv, ApiInv, Publish, PublishError, Answer
<1>0. /\ made[r] \in Events /\ made[r] # NoEvent /\ made[r].life = life
      /\ made[r].id \in tasks
      /\ made[r] \notin wire \union arrived \union lost
      /\ UNCHANGED <<made, arrived, lost, tasks, life, mode, conn>>
      /\ wire' \in {wire, wire \union {made[r]}}
  BY DEF TypeOK, MadeInv, brokerVars
<1>1. TypeOK'
  BY <1>0 DEF TypeOK, brokerVars, workerVars, boundVars
<1>2. CountInv'
  BY CountGrows DEF TypeOK
<1>3. EventInv'
  BY <1>0 DEF EventInv
<1>4. MadeInv'
  BY <1>0 DEF TypeOK, MadeInv, EventInv
<1>5. RepliesAreExplained'
  BY <1>0 DEF TypeOK, RepliesAreExplained, MadeInv, EventInv
<1>6. QueueInv'
  BY QueueKept
<1>. QED
  BY <1>1, <1>2, <1>3, <1>4, <1>5, <1>6

\* The connection of the API breaks.
LEMMA CutApiStep ==
    ASSUME IInv, CutApi
    PROVE  IInv'
<1>. USE DEF IInv, ApiInv, CutApi
<1>1. TypeOK'
  BY DEF TypeOK, brokerVars, workerVars, boundVars
<1>2. CountInv'
  BY DEF CountInv, Began
<1>3. MadeInv' /\ EventInv' /\ RepliesAreExplained'
  BY DEF MadeInv, EventInv, RepliesAreExplained, brokerVars
<1>4. QueueInv'
  BY QueueKept
<1>. QED
  BY <1>1, <1>2, <1>3, <1>4

\* Ids begin again, but in a later life.
LEMMA RestartApiStep ==
    ASSUME IInv, RestartApi
    PROVE  IInv'
<1>. USE LimitsAssumption DEF IInv, ApiInv, RestartApi
<1>1. TypeOK'
  BY BeganCount DEF TypeOK, brokerVars, workerVars, boundVars
<1>2. CountInv'
  BY CountGrows, BeganCount DEF TypeOK
<1>3. MadeInv'
  BY DEF TypeOK, MadeInv, Events, brokerVars
<1>4. EventInv'
  BY DEF EventInv, brokerVars
<1>5. RepliesAreExplained'
  BY DEF TypeOK, RepliesAreExplained, MadeInv, Events, brokerVars
<1>6. QueueInv'
  BY QueueKept
<1>. QED
  BY <1>1, <1>2, <1>3, <1>4, <1>5, <1>6

-----------------------------------------------------------------------------
(* The steps of the broker.                                                *)

\* An event arrives that was never logged.
LEMMA RouteStep ==
    ASSUME IInv, NEW e \in Events, Route(e)
    PROVE  IInv'
<1>. USE BodiesAssumption DEF IInv, QueueInv, Route
<1>0. /\ e # Bad /\ e \notin arrived \union queue \union unacked \union buf \union settled
      /\ cur # e /\ logged[e] = 0
  BY DEF TypeOK, ApiInv, EventInv, HeldInv
<1>1. TypeOK'
  BY DEF TypeOK, brokerVars, workerVars, boundVars, apiVars
<1>2. ApiInv'
  BY DEF ApiInv, CountInv, Began, MadeInv, EventInv, RepliesAreExplained
<1>3. HeldInv'
  BY DEF TypeOK, HeldInv, brokerVars, workerVars, boundVars, apiVars
<1>4. SessionInv'
  BY <1>0 DEF TypeOK, HeldInv, SessionInv, brokerVars, workerVars, boundVars, apiVars
<1>5. BudgetInv'
  BY <1>0 DEF TypeOK, HeldInv, SessionInv, BudgetInv, Due, Orphan,
         brokerVars, workerVars, boundVars, apiVars
<1>6. AcceptedIsKept'
  BY DEF TypeOK, HeldInv, SessionInv, AcceptedIsKept, brokerVars, workerVars, boundVars, apiVars
<1>. QED
  BY <1>1, <1>2, <1>3, <1>4, <1>5, <1>6

\* Somebody publishes a message that is not an event.
LEMMA PublishByHandStep ==
    ASSUME IInv, PublishByHand
    PROVE  IInv'
<1>. USE BodiesAssumption DEF IInv, QueueInv, PublishByHand
<1>1. TypeOK'
  BY DEF TypeOK, brokerVars, workerVars, boundVars, apiVars
<1>2. ApiInv'
  BY ApiKept DEF brokerVars
<1>3. HeldInv'
  BY DEF TypeOK, HeldInv, brokerVars, workerVars, boundVars, apiVars
<1>4. SessionInv'
  BY DEF TypeOK, HeldInv, SessionInv, brokerVars, workerVars, boundVars, apiVars
<1>5. BudgetInv'
  BY DEF TypeOK, HeldInv, SessionInv, BudgetInv, Due, Orphan,
         brokerVars, workerVars, boundVars, apiVars
<1>6. AcceptedIsKept'
  BY DEF TypeOK, HeldInv, SessionInv, AcceptedIsKept, brokerVars, workerVars, boundVars, apiVars
<1>. QED
  BY <1>1, <1>2, <1>3, <1>4, <1>5, <1>6

\* A delivery moves from the queue to the unacknowledged ones.
LEMMA DeliverStep ==
    ASSUME IInv, NEW e, Deliver(e)
    PROVE  IInv'
<1>. USE BodiesAssumption DEF IInv, QueueInv, Deliver
<1>1. TypeOK'
  BY DEF TypeOK, brokerVars, workerVars, boundVars, apiVars
<1>2. ApiInv'
  BY ApiKept DEF brokerVars
<1>3. HeldInv'
  BY DEF TypeOK, HeldInv, brokerVars, workerVars, boundVars, apiVars
<1>4. SessionInv'
  BY DEF TypeOK, HeldInv, SessionInv, brokerVars, workerVars, boundVars, apiVars
<1>5. BudgetInv'
  BY DEF TypeOK, HeldInv, SessionInv, BudgetInv, Due, Orphan,
         brokerVars, workerVars, boundVars, apiVars
<1>6. AcceptedIsKept'
  BY DEF TypeOK, HeldInv, SessionInv, AcceptedIsKept, brokerVars, workerVars, boundVars, apiVars
<1>. QED
  BY <1>1, <1>2, <1>3, <1>4, <1>5, <1>6

\* Only what was logged, or is not JSON, is settled.
LEMMA SettleStep ==
    ASSUME IInv, NEW e, Settle(e)
    PROVE  IInv'
<1>. USE BodiesAssumption DEF IInv, QueueInv, Settle
<1>1. TypeOK'
  BY DEF TypeOK, brokerVars, workerVars, boundVars, apiVars
<1>2. ApiInv'
  BY ApiKept DEF brokerVars
<1>3. HeldInv'
  BY DEF TypeOK, HeldInv, brokerVars, workerVars, boundVars, apiVars
<1>4. SessionInv'
  BY DEF TypeOK, HeldInv, SessionInv, brokerVars, workerVars, boundVars, apiVars
<1>5. BudgetInv'
  BY DEF TypeOK, HeldInv, SessionInv, BudgetInv, Due, Orphan,
         brokerVars, workerVars, boundVars, apiVars
<1>6. AcceptedIsKept'
  BY DEF TypeOK, HeldInv, SessionInv, AcceptedIsKept, brokerVars, workerVars, boundVars, apiVars
<1>. QED
  BY <1>1, <1>2, <1>3, <1>4, <1>5, <1>6

\* The session ends: of what is requeued, at most one copy is with the worker.
LEMMA LoseSessionStep ==
    ASSUME IInv, LoseSession
    PROVE  IInv'
<1>. USE LimitsAssumption, BodiesAssumption DEF IInv, QueueInv, LoseSession, EndSession
<1>1. TypeOK'
  <2>1. faults' \in 0 .. MaxFaults
    BY DEF TypeOK, boundVars
  <2>. QED
    BY <2>1 DEF TypeOK, brokerVars, workerVars, boundVars, apiVars
<1>2. ApiInv'
  BY ApiKept DEF brokerVars
<1>3. HeldInv'
  BY DEF TypeOK, HeldInv, brokerVars, workerVars, boundVars, apiVars
<1>4. SessionInv'
  BY DEF TypeOK, HeldInv, SessionInv, brokerVars, workerVars, boundVars, apiVars
<1>5. BudgetInv'
  BY DEF TypeOK, HeldInv, SessionInv, BudgetInv, Due, Orphan,
         brokerVars, workerVars, boundVars, apiVars
<1>6. AcceptedIsKept'
  BY DEF TypeOK, HeldInv, SessionInv, AcceptedIsKept, brokerVars, workerVars, boundVars, apiVars
<1>. QED
  BY <1>1, <1>2, <1>3, <1>4, <1>5, <1>6

\* The same, and what was on the connection of the API is lost.
LEMMA RestartBrokerStep ==
    ASSUME IInv, RestartBroker
    PROVE  IInv'
<1>. USE LimitsAssumption, BodiesAssumption DEF IInv, QueueInv, RestartBroker
<1>1. TypeOK'
  <2>1. faults' \in 0 .. MaxFaults
    BY DEF TypeOK, boundVars
  <2>. QED
    BY <2>1 DEF TypeOK, brokerVars, workerVars, boundVars, apiVars
<1>2. ApiInv'
  BY DEF ApiInv, CountInv, Began, MadeInv, EventInv, RepliesAreExplained
<1>3. HeldInv'
  BY DEF TypeOK, HeldInv, brokerVars, workerVars, boundVars, apiVars
<1>4. SessionInv'
  BY DEF TypeOK, HeldInv, SessionInv, brokerVars, workerVars, boundVars, apiVars
<1>5. BudgetInv'
  BY DEF TypeOK, HeldInv, SessionInv, BudgetInv, Due, Orphan,
         brokerVars, workerVars, boundVars, apiVars
<1>6. AcceptedIsKept'
  BY DEF TypeOK, HeldInv, SessionInv, AcceptedIsKept, brokerVars, workerVars, boundVars, apiVars
<1>. QED
  BY <1>1, <1>2, <1>3, <1>4, <1>5, <1>6

-----------------------------------------------------------------------------
(* The steps of the worker.                                                *)

\* The worker starts.
LEMMA StartStep ==
    ASSUME IInv, Start
    PROVE  IInv'
<1>. USE BodiesAssumption DEF IInv, QueueInv, Start
<1>1. TypeOK'
  BY DEF TypeOK, brokerVars, workerVars, boundVars, apiVars
<1>2. ApiInv'
  BY ApiKept DEF brokerVars
<1>3. HeldInv'
  BY DEF TypeOK, HeldInv, brokerVars, workerVars, boundVars, apiVars
<1>4. SessionInv'
  BY DEF TypeOK, HeldInv, SessionInv, brokerVars, workerVars, boundVars, apiVars
<1>5. BudgetInv'
  BY DEF TypeOK, HeldInv, SessionInv, BudgetInv, Due, Orphan,
         brokerVars, workerVars, boundVars, apiVars
<1>6. AcceptedIsKept'
  BY DEF TypeOK, HeldInv, SessionInv, AcceptedIsKept, brokerVars, workerVars, boundVars, apiVars
<1>. QED
  BY <1>1, <1>2, <1>3, <1>4, <1>5, <1>6

\* It takes a delivery from its channel.
LEMMA TakeStep ==
    ASSUME IInv, NEW e, Take(e)
    PROVE  IInv'
<1>. USE BodiesAssumption DEF IInv, QueueInv, Take
<1>1. TypeOK'
  BY DEF TypeOK, brokerVars, workerVars, boundVars, apiVars
<1>2. ApiInv'
  BY ApiKept DEF brokerVars
<1>3. HeldInv'
  BY DEF TypeOK, HeldInv, brokerVars, workerVars, boundVars, apiVars
<1>4. SessionInv'
  BY DEF TypeOK, HeldInv, SessionInv, brokerVars, workerVars, boundVars, apiVars
<1>5. BudgetInv'
  BY DEF TypeOK, HeldInv, SessionInv, BudgetInv, Due, Orphan,
         brokerVars, workerVars, boundVars, apiVars
<1>6. AcceptedIsKept'
  BY DEF TypeOK, HeldInv, SessionInv, AcceptedIsKept, brokerVars, workerVars, boundVars, apiVars
<1>. QED
  BY <1>1, <1>2, <1>3, <1>4, <1>5, <1>6

\* A message that is not JSON is rejected.
LEMMA DropBadStep ==
    ASSUME IInv, DropBad
    PROVE  IInv'
<1>. USE BodiesAssumption DEF IInv, QueueInv, DropBad, SettleCur
<1>1. TypeOK'
  BY DEF TypeOK, SessionInv, brokerVars, workerVars, boundVars, apiVars
<1>2. ApiInv'
  BY ApiKept DEF brokerVars
<1>3. HeldInv'
  BY DEF TypeOK, HeldInv, brokerVars, workerVars, boundVars, apiVars
<1>4. SessionInv'
  BY DEF TypeOK, HeldInv, SessionInv, brokerVars, workerVars, boundVars, apiVars
<1>5. BudgetInv'
  BY DEF TypeOK, HeldInv, SessionInv, BudgetInv, Due, Orphan,
         brokerVars, workerVars, boundVars, apiVars
<1>6. AcceptedIsKept'
  BY DEF TypeOK, HeldInv, SessionInv, AcceptedIsKept, brokerVars, workerVars, boundVars, apiVars
<1>. QED
  BY <1>1, <1>2, <1>3, <1>4, <1>5, <1>6

\* A line in the log uses up what was due, or what was left from a session.
LEMMA LogStep ==
    ASSUME IInv, Log
    PROVE  IInv'
<1>. USE BodiesAssumption DEF IInv, QueueInv, Log
<1>1. TypeOK'
  BY DEF TypeOK, SessionInv, brokerVars, workerVars, boundVars, apiVars
<1>2. ApiInv'
  BY ApiKept DEF brokerVars
<1>3. HeldInv'
  BY DEF TypeOK, HeldInv, brokerVars, workerVars, boundVars, apiVars
<1>4. SessionInv'
  BY DEF TypeOK, HeldInv, SessionInv, brokerVars, workerVars, boundVars, apiVars
<1>5. BudgetInv'
  BY DEF TypeOK, HeldInv, SessionInv, BudgetInv, Due, Orphan,
         brokerVars, workerVars, boundVars, apiVars
<1>6. AcceptedIsKept'
  BY DEF TypeOK, HeldInv, SessionInv, AcceptedIsKept, brokerVars, workerVars, boundVars, apiVars
<1>. QED
  BY <1>1, <1>2, <1>3, <1>4, <1>5, <1>6

\* A logged event is acknowledged.
LEMMA AckStep ==
    ASSUME IInv, Ack
    PROVE  IInv'
<1>. USE BodiesAssumption DEF IInv, QueueInv, Ack, SettleCur
<1>1. TypeOK'
  BY DEF TypeOK, SessionInv, brokerVars, workerVars, boundVars, apiVars
<1>2. ApiInv'
  BY ApiKept DEF brokerVars
<1>3. HeldInv'
  BY DEF TypeOK, HeldInv, brokerVars, workerVars, boundVars, apiVars
<1>4. SessionInv'
  BY DEF TypeOK, HeldInv, SessionInv, brokerVars, workerVars, boundVars, apiVars
<1>5. BudgetInv'
  BY DEF TypeOK, HeldInv, SessionInv, BudgetInv, Due, Orphan,
         brokerVars, workerVars, boundVars, apiVars
<1>6. AcceptedIsKept'
  BY DEF TypeOK, HeldInv, SessionInv, AcceptedIsKept, brokerVars, workerVars, boundVars, apiVars
<1>. QED
  BY <1>1, <1>2, <1>3, <1>4, <1>5, <1>6

\* The worker ends when its session is gone, with what was in its channel.
LEMMA ExitStep ==
    ASSUME IInv, Exit
    PROVE  IInv'
<1>. USE BodiesAssumption DEF IInv, QueueInv, Exit
<1>1. TypeOK'
  BY DEF TypeOK, brokerVars, workerVars, boundVars, apiVars
<1>2. ApiInv'
  BY ApiKept DEF brokerVars
<1>3. HeldInv'
  BY DEF TypeOK, HeldInv, brokerVars, workerVars, boundVars, apiVars
<1>4. SessionInv'
  BY DEF TypeOK, HeldInv, SessionInv, brokerVars, workerVars, boundVars, apiVars
<1>5. BudgetInv'
  BY DEF TypeOK, HeldInv, SessionInv, BudgetInv, Due, Orphan,
         brokerVars, workerVars, boundVars, apiVars
<1>6. AcceptedIsKept'
  BY DEF TypeOK, HeldInv, SessionInv, AcceptedIsKept, brokerVars, workerVars, boundVars, apiVars
<1>. QED
  BY <1>1, <1>2, <1>3, <1>4, <1>5, <1>6

\* A worker that stops lets its acknowledgements through: nothing is due again.
LEMMA StopStep ==
    ASSUME IInv, Stop
    PROVE  IInv'
<1>. USE LimitsAssumption, BodiesAssumption DEF IInv, QueueInv, Stop
<1>1. TypeOK'
  <2>1. stops' \in 0 .. MaxStops
    BY DEF TypeOK, boundVars
  <2>. QED
    BY <2>1 DEF TypeOK, brokerVars, workerVars, boundVars, apiVars
<1>2. ApiInv'
  BY ApiKept DEF brokerVars
<1>3. HeldInv'
  BY DEF TypeOK, HeldInv, brokerVars, workerVars, boundVars, apiVars
<1>4. SessionInv'
  BY DEF TypeOK, HeldInv, SessionInv, brokerVars, workerVars, boundVars, apiVars
<1>5. BudgetInv'
  BY DEF TypeOK, HeldInv, SessionInv, BudgetInv, Due, Orphan,
         brokerVars, workerVars, boundVars, apiVars
<1>6. AcceptedIsKept'
  BY DEF TypeOK, HeldInv, SessionInv, AcceptedIsKept, brokerVars, workerVars, boundVars, apiVars
<1>. QED
  BY <1>1, <1>2, <1>3, <1>4, <1>5, <1>6

\* What a crash makes due again, it pays for.
LEMMA CrashStep ==
    ASSUME IInv, Crash
    PROVE  IInv'
<1>. USE LimitsAssumption, BodiesAssumption DEF IInv, QueueInv, Crash
<1>1. TypeOK'
  BY DEF TypeOK, brokerVars, workerVars, boundVars, apiVars
<1>2. ApiInv'
  BY ApiKept DEF brokerVars
<1>3. HeldInv'
  BY DEF TypeOK, HeldInv, brokerVars, workerVars, boundVars, apiVars
<1>4. SessionInv'
  BY DEF TypeOK, HeldInv, SessionInv, brokerVars, workerVars, boundVars, apiVars
<1>5. BudgetInv'
  BY DEF TypeOK, HeldInv, SessionInv, BudgetInv, Due, Orphan,
         brokerVars, workerVars, boundVars, apiVars
<1>6. AcceptedIsKept'
  BY DEF TypeOK, HeldInv, SessionInv, AcceptedIsKept, brokerVars, workerVars, boundVars, apiVars
<1>. QED
  BY <1>1, <1>2, <1>3, <1>4, <1>5, <1>6
-----------------------------------------------------------------------------
(* The invariants of the specification.                                    *)

\* The invariant is inductive,
LEMMA NextIInv == IInv /\ [Next]_vars => IInv'
<1>. SUFFICES ASSUME IInv, [Next]_vars PROVE IInv'
  OBVIOUS
<1>1. ASSUME NEW r \in Requests, Reject(r) \/ Handler(r) PROVE IInv'
  BY <1>1, RejectStep, CreateStep, PublishStep DEF Handler
<1>2. CASE CutApi \/ RestartApi
  BY <1>2, CutApiStep, RestartApiStep
<1>3. CASE BrokerStep
  <2>1. wire \subseteq Events
    BY DEF IInv, TypeOK
  <2>. QED
    BY <1>3, <2>1, RouteStep, SettleStep DEF BrokerStep
<1>4. CASE PublishByHand \/ \E e \in queue : Deliver(e)
  BY <1>4, PublishByHandStep, DeliverStep
<1>5. CASE LoseSession \/ RestartBroker
  BY <1>5, LoseSessionStep, RestartBrokerStep
<1>6. CASE Start \/ WorkerStep
  BY <1>6, StartStep, TakeStep, DropBadStep, LogStep, AckStep, ExitStep DEF WorkerStep
<1>7. CASE Stop \/ Crash
  BY <1>7, StopStep, CrashStep
<1>8. CASE UNCHANGED vars
  <2>1. UNCHANGED <<apiVars, brokerVars, workerVars, boundVars>>
    BY <1>8 DEF vars
  <2>2. TypeOK'
    BY <2>1 DEF IInv, TypeOK, apiVars, brokerVars, workerVars, boundVars
  <2>3. ApiInv'
    BY <2>1, ApiKept DEF IInv, brokerVars
  <2>. QED
    BY <2>1, <2>2, <2>3, QueueKept DEF IInv
<1>. QED
  BY <1>1, <1>2, <1>3, <1>4, <1>5, <1>6, <1>7, <1>8 DEF Next

\* so it always holds.
LEMMA SpecIInv == Spec => []IInv
BY InitIInv, NextIInv, PTL DEF Spec

\* TypeOK: every variable keeps its shape; ids do not run out, what is being
\* acknowledged is unacknowledged.
THEOREM TypeCorrect == Spec => []TypeOK
BY SpecIInv, PTL DEF IInv

\* AcceptedIsKept: the acknowledgement comes after the log line and the broker
\* is durable, so an event that arrived is logged or still with the broker.
THEOREM NothingAcceptedIsLost == Spec => []AcceptedIsKept
BY SpecIInv, PTL DEF IInv, QueueInv

\* RepliesAreExplained: what 201 and 500 mean in each mode.
THEOREM AnswersTell == Spec => []RepliesAreExplained
BY SpecIInv, PTL DEF IInv, ApiInv

\* EventsNameTasks: one event is about one task of one process.
THEOREM EventsAreGenuine == Spec => []EventsNameTasks
<1>1. IInv => EventsNameTasks
  BY DEF IInv, ApiInv, EventInv, QueueInv, HeldInv, EventsNameTasks
<1>. QED
  BY <1>1, SpecIInv, PTL

\* RepeatsNeedAFault: repeated log lines are bounded by crashes, lost sessions
\* and broker restarts.
THEOREM RepeatsArePaidFor == Spec => []RepeatsNeedAFault
<1>1. IInv => RepeatsNeedAFault
  BY DEF IInv, QueueInv, BudgetInv, RepeatsNeedAFault
<1>. QED
  BY <1>1, SpecIInv, PTL
=============================================================================
