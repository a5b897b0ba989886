----------------------------- MODULE TaskEvents -----------------------------
(***************************************************************************)
(* pz13-rabbitmq: POST /v1/tasks stores a task in the memory of the API    *)
(* process and then publishes a task.created event to the durable queue    *)
(* task_events; a worker process logs each event and acknowledges it.  The *)
(* two steps of a POST are not one: PUBLISH_MODE decides what the client   *)
(* is told when the second one fails.                                      *)
(*                                                                         *)
(* The broker is modelled from how the code uses it: manual                *)
(* acknowledgement, prefetch, requeueing when a session ends, no publisher *)
(* confirms.  The order in which it hands out waiting events is left open. *)
(***************************************************************************)
EXTENDS Naturals, FiniteSets

CONSTANTS
    Requests,       \* POSTs, each made once
    Bad,            \* a message published by hand whose body is not JSON
    NoEvent,        \* no delivery in hand, no task made
    Prefetches,     \* the values PREFETCH may have, 0 = no limit
    MaxLives,       \* bound: restarts of the API process
    MaxFaults,      \* bound: worker crashes, lost sessions, broker restarts
    MaxStops        \* bound: workers stopped by a signal

Ids == 1 .. Cardinality(Requests)

\* events.TaskEvent.  The id starts again at t_001 with every API process: an
\* event tells the task only together with the process (ghost) it came from.
Events == [life : 0 .. MaxLives, id : Ids]

ASSUME LimitsAssumption ==
    /\ IsFiniteSet(Requests)
    /\ Prefetches \subseteq Nat
    /\ MaxLives \in Nat /\ MaxFaults \in Nat /\ MaxStops \in Nat
ASSUME BodiesAssumption == Bad \notin Events /\ NoEvent \notin Events \union {Bad}

VARIABLES
    mode,           \* PUBLISH_MODE
    prefetch,       \* PREFETCH
    \* the API process
    life,           \* how many times it was restarted
    tasks,          \* ids in the store
    next,           \* the next id to give out
    conn,           \* its AMQP connection: "up", or "cut" for good
    pc,             \* how far each POST is
    made,           \* the task each POST created
    reply,          \* what each POST was answered
    wire,           \* events written to the connection, not yet at the broker
    \* the broker
    queue,          \* messages waiting in task_events
    unacked,        \* messages delivered and not acknowledged
    open,           \* the broker considers the worker's session open
    \* the worker
    worker,         \* "down", "idle" in select, "have" a delivery, "logged" it
    buf,            \* deliveries waiting in the msgs channel
    cur,            \* the delivery d of handleDelivery
    settled,        \* acks and nacks written, not yet at the broker
    logged,         \* how often each event was logged
    \* history
    arrived,        \* events that reached the broker
    lost,           \* events that were on a connection when it broke
    faults, stops, foreign

apiVars == <<mode, life, tasks, next, conn, pc, made, reply, wire, lost>>
brokerVars == <<queue, unacked, open, arrived>>
workerVars == <<prefetch, worker, buf, cur, settled, logged>>
boundVars == <<faults, stops, foreign>>
vars == <<apiVars, brokerVars, workerVars, boundVars>>

Init ==
    /\ mode \in {"best_effort", "strict"}
    /\ prefetch \in Prefetches
    /\ life = 0 /\ tasks = {} /\ next = 1 /\ conn = "up"
    /\ pc = [r \in Requests |-> "new"]
    /\ made = [r \in Requests |-> NoEvent]
    /\ reply = [r \in Requests |-> "none"]
    /\ wire = {} /\ queue = {} /\ unacked = {} /\ open = FALSE
    /\ worker = "down" /\ buf = {} /\ cur = NoEvent /\ settled = {}
    /\ logged = [e \in Events |-> 0]
    /\ arrived = {} /\ lost = {}
    /\ faults = 0 /\ stops = 0 /\ foreign = FALSE

-----------------------------------------------------------------------------
(* The API process.                                                        *)

Answer(r, status) ==
    /\ pc' = [pc EXCEPT ![r] = "done"]
    /\ reply' = [reply EXCEPT ![r] = status]

\* A POST without the token (401), or without a title (400).
Reject(r) ==
    /\ pc[r] = "new"
    /\ Answer(r, "4xx")
    /\ UNCHANGED <<mode, lost, life, tasks, next, conn, made, wire, brokerVars,
                   workerVars, boundVars>>

\* A mutated Create: s.next++ is missing.
CreateSameId(r) ==
    /\ pc[r] = "new"
    /\ pc' = [pc EXCEPT ![r] = "created"]
    /\ made' = [made EXCEPT ![r] = [life |-> life, id |-> next]]
    /\ tasks' = tasks \union {next}
    /\ UNCHANGED <<mode, lost, life, next, conn, reply, wire, brokerVars, workerVars,
                   boundVars>>

\* A valid POST, up to the critical section of store.Create.
Create(r) ==
    /\ pc[r] = "new"
    /\ pc' = [pc EXCEPT ![r] = "created"]
    /\ made' = [made EXCEPT ![r] = [life |-> life, id |-> next]]
    /\ tasks' = tasks \union {next}
    /\ next' = next + 1
    /\ UNCHANGED <<mode, lost, life, conn, reply, wire, brokerVars, workerVars,
                   boundVars>>

\* A mutated PublishError: the return after http.Error is in the wrong branch.
PublishErrorIgnored(r) == Answer(r, "201")

\* PublishTaskCreated returned an error.
PublishError(r) == Answer(r, IF mode = "strict" THEN "500" ELSE "201")

\* The event of the new task is published.  Without confirms a nil error only
\* says that the frames were written; a closed connection gives an error.
Publish(r) ==
    /\ pc[r] = "created"
    /\ \/ /\ conn = "up"
          /\ wire' = wire \union {made[r]}
          /\ Answer(r, "201")
       \/ /\ conn = "cut"
          /\ wire' = wire
          /\ PublishError(r)
    /\ UNCHANGED <<mode, lost, life, tasks, next, conn, made, brokerVars, workerVars,
                   boundVars>>

\* The connection is lost with the frames on it, and never dialled again.
CutApi ==
    /\ conn = "up"
    /\ conn' = "cut"
    /\ wire' = {} /\ lost' = lost \union wire
    /\ UNCHANGED <<mode, life, tasks, next, pc, made, reply, brokerVars,
                   workerVars, boundVars>>

\* The process dies, with its store and the requests in progress, and main
\* runs again.
RestartApi ==
    /\ life < MaxLives
    /\ life' = life + 1
    /\ tasks' = {} /\ next' = 1 /\ conn' = "up"
    /\ wire' = {} /\ lost' = lost \union wire
    /\ pc' = [r \in Requests |-> IF pc[r] = "created" THEN "dead" ELSE pc[r]]
    /\ UNCHANGED <<mode, made, reply, brokerVars, workerVars, boundVars>>

-----------------------------------------------------------------------------
(* The broker.                                                             *)

Route(e) ==
    /\ e \in wire
    /\ wire' = wire \ {e}
    /\ queue' = queue \union {e}
    /\ arrived' = arrived \union {e}
    /\ UNCHANGED <<mode, lost, life, tasks, next, conn, pc, made, reply, unacked, open,
                   workerVars, boundVars>>

\* A message that is not JSON, from the management interface.
PublishByHand ==
    /\ ~foreign
    /\ foreign' = TRUE
    /\ queue' = queue \union {Bad}
    /\ UNCHANGED <<apiVars, unacked, open, arrived, workerVars, faults, stops>>

\* A crashed worker's session stays open, and is served, until it is reaped.
Deliver(e) ==
    /\ open /\ e \in queue
    /\ prefetch = 0 \/ Cardinality(unacked) < prefetch
    /\ queue' = queue \ {e}
    /\ unacked' = unacked \union {e}
    /\ buf' = IF worker = "down" THEN buf ELSE buf \union {e}
    /\ UNCHANGED <<apiVars, open, arrived, prefetch, worker, cur, settled, logged,
                   boundVars>>

Settle(e) ==
    /\ e \in settled
    /\ settled' = settled \ {e}
    /\ unacked' = unacked \ {e}
    /\ UNCHANGED <<apiVars, queue, open, arrived, prefetch, worker, buf, cur,
                   logged, boundVars>>

\* What is delivered and not acknowledged goes back to the queue.
EndSession ==
    /\ open /\ open' = FALSE
    /\ queue' = queue \union unacked
    /\ unacked' = {} /\ settled' = {}

LoseSession ==
    /\ EndSession
    /\ \/ worker = "down" /\ faults' = faults
       \/ worker # "down" /\ faults < MaxFaults /\ faults' = faults + 1
    /\ UNCHANGED <<apiVars, arrived, prefetch, worker, buf, cur, logged, stops,
                   foreign>>

\* Both connections end; the queue and the messages in it are durable.
RestartBroker ==
    /\ faults < MaxFaults
    /\ faults' = faults + 1
    /\ open' = FALSE /\ conn' = "cut"
    /\ wire' = {} /\ lost' = lost \union wire
    /\ queue' = queue \union unacked
    /\ unacked' = {} /\ settled' = {}
    /\ UNCHANGED <<mode, life, tasks, next, pc, made, reply, arrived, prefetch,
                   worker, buf, cur, logged, stops, foreign>>

-----------------------------------------------------------------------------
(* The worker.                                                             *)

Start ==
    /\ worker = "down" /\ ~open
    /\ worker' = "idle" /\ open' = TRUE
    /\ UNCHANGED <<apiVars, queue, unacked, arrived, prefetch, buf, cur, settled,
                   logged, boundVars>>

Take(e) ==
    /\ worker = "idle" /\ e \in buf
    /\ worker' = "have" /\ buf' = buf \ {e} /\ cur' = e
    /\ UNCHANGED <<apiVars, brokerVars, prefetch, settled, logged, boundVars>>

\* A mutated SettleCur: the delivery of an earlier session is settled as well.
SettleStale == settled' = settled \union {cur}

\* On a closed channel Ack and Nack fail, and the error is not acted on.
SettleCur == settled' = IF open THEN settled \union {cur} ELSE settled

\* A mutated DropBad: the Nack is missing.
DropBadWithoutNack ==
    /\ worker = "have" /\ cur = Bad
    /\ worker' = "idle" /\ cur' = NoEvent
    /\ UNCHANGED <<apiVars, brokerVars, prefetch, buf, settled, logged, boundVars>>

\* Not JSON: rejected without requeue.  The queue has no dead-letter exchange,
\* so that the message is gone.
DropBad ==
    /\ worker = "have" /\ cur = Bad
    /\ SettleCur
    /\ worker' = "idle" /\ cur' = NoEvent
    /\ UNCHANGED <<apiVars, brokerVars, prefetch, buf, logged, boundVars>>

\* A mutated Log: the delivery is acknowledged before it is logged.
LogAfterAck ==
    /\ worker = "have" /\ cur # Bad
    /\ SettleCur
    /\ worker' = "logged"
    /\ UNCHANGED <<apiVars, brokerVars, prefetch, buf, cur, logged, boundVars>>

Log ==
    /\ worker = "have" /\ cur # Bad
    /\ logged' = [logged EXCEPT ![cur] = @ + 1]
    /\ worker' = "logged"
    /\ UNCHANGED <<apiVars, brokerVars, prefetch, buf, cur, settled, boundVars>>

\* A mutated Ack: Nack(false, true), which puts the event back.
AckRequeues ==
    /\ worker = "logged"
    /\ worker' = "idle" /\ cur' = NoEvent
    /\ queue' = IF open THEN queue \union {cur} ELSE queue
    /\ unacked' = unacked \ {cur}
    /\ UNCHANGED <<apiVars, open, arrived, prefetch, buf, settled, logged, boundVars>>

Ack ==
    /\ worker = "logged"
    /\ SettleCur
    /\ worker' = "idle" /\ cur' = NoEvent
    /\ UNCHANGED <<apiVars, brokerVars, prefetch, buf, logged, boundVars>>

\* msgs is closed after the session: main returns, with or without having read
\* the deliveries still in it.
Exit ==
    /\ worker = "idle" /\ ~open
    /\ worker' = "down" /\ buf' = {}
    /\ UNCHANGED <<apiVars, brokerVars, prefetch, cur, settled, logged, boundVars>>

\* SIGINT or SIGTERM, seen between two deliveries: the deferred Close calls let
\* the acknowledgements written before reach the broker.
Stop ==
    /\ worker = "idle" /\ open
    /\ stops < MaxStops
    /\ stops' = stops + 1
    /\ worker' = "down" /\ buf' = {} /\ open' = FALSE
    /\ queue' = queue \union (unacked \ settled)
    /\ unacked' = {} /\ settled' = {}
    /\ UNCHANGED <<apiVars, arrived, prefetch, cur, logged, faults, foreign>>

\* Acknowledgements already written may still arrive until the session ends.
Crash ==
    /\ worker # "down"
    /\ faults < MaxFaults
    /\ faults' = faults + 1
    /\ worker' = "down" /\ buf' = {} /\ cur' = NoEvent
    /\ UNCHANGED <<apiVars, brokerVars, prefetch, settled, logged, stops, foreign>>

-----------------------------------------------------------------------------

Handler(r) == Create(r) \/ Publish(r)

BrokerStep ==
    \/ \E e \in wire : Route(e)
    \/ \E e \in settled : Settle(e)

\* The loop of a worker that runs.
WorkerStep ==
    \/ \E e \in buf : Take(e)
    \/ DropBad \/ Log \/ Ack
    \/ Exit

Next ==
    \/ \E r \in Requests : Reject(r) \/ Handler(r)
    \/ CutApi \/ RestartApi
    \/ BrokerStep
    \/ \E e \in queue : Deliver(e)
    \/ PublishByHand
    \/ LoseSession \/ RestartBroker
    \/ Start \/ WorkerStep
    \/ Stop \/ Crash

\* The loop of a worker that runs and the broker go on while they can.  Nobody
\* has to start a worker, also after one that ended, or the API, to send a POST
\* or to stop anything.
Fairness ==
    /\ WF_vars(WorkerStep)
    /\ WF_vars(BrokerStep)
    /\ \A e \in Events \union {Bad} : WF_vars(Deliver(e))

Spec == Init /\ [][Next]_vars /\ Fairness

-----------------------------------------------------------------------------
(* Properties.                                                             *)

TypeOK ==
    /\ mode \in {"best_effort", "strict"} /\ prefetch \in Prefetches
    /\ life \in 0 .. MaxLives /\ tasks \subseteq Ids
    /\ next \in 1 .. Cardinality(Requests) + 1
    /\ conn \in {"up", "cut"}
    /\ pc \in [Requests -> {"new", "created", "done", "dead"}]
    /\ made \in [Requests -> Events \union {NoEvent}]
    /\ reply \in [Requests -> {"none", "4xx", "201", "500"}]
    /\ wire \subseteq Events /\ arrived \subseteq Events /\ lost \subseteq Events
    /\ queue \subseteq Events \union {Bad}
    /\ unacked \subseteq Events \union {Bad}
    /\ buf \subseteq Events \union {Bad}
    /\ settled \subseteq unacked
    /\ cur \in Events \union {Bad, NoEvent}
    /\ worker \in {"down", "idle", "have", "logged"}
    /\ open \in BOOLEAN /\ foreign \in BOOLEAN
    /\ logged \in [Events -> Nat]
    /\ faults \in 0 .. MaxFaults /\ stops \in 0 .. MaxStops

\* An event that reached the broker is held by it until a worker has logged it,
\* whatever crashes: the acknowledgement comes after the log line, the queue and
\* the messages survive a restart of RabbitMQ.
AcceptedIsKept ==
    \A e \in arrived : e \in queue \union unacked \/ logged[e] > 0

\* What a POST was told.  500 comes in strict mode only, and means that the task
\* stays in the store while its event is never sent.  201 means in strict mode
\* that the event was written to the connection, which may still lose it (see
\* StrictMeansQueued); in best_effort mode the connection may have been lost
\* before, and nothing been sent.
RepliesAreExplained ==
    \A r \in Requests :
        LET sent == made[r] \in wire \union arrived \union lost
        IN  /\ reply[r] = "500" =>
                  /\ mode = "strict"
                  /\ made[r].life = life => made[r].id \in tasks
                  /\ ~sent
            /\ reply[r] = "201" /\ mode = "strict" => sent
            /\ reply[r] = "201" /\ mode = "best_effort" =>
                  sent \/ conn = "cut" \/ made[r].life < life

\* What the documentation says of strict mode: a POST that was not answered 500
\* has its event published to the queue.  Without publisher confirms the code
\* cannot know that, and the event of a 201 may be lost with the connection.
StrictMeansQueued ==
    \A r \in Requests :
        mode = "strict" /\ reply[r] = "201" => made[r] \notin lost

\* Two tasks have the same id only if the API was restarted between them, and
\* every event on its way or logged is about a task that was created.
EventsNameTasks ==
    /\ \A r, s \in Requests :
          made[r] = made[s] /\ made[r] # NoEvent => r = s
    /\ \A e \in Events :
          e \in wire \union arrived \/ logged[e] > 0 =>
              \E r \in Requests : made[r] = e

\* An event is logged once more only for a crash, a lost session or a restart of
\* the broker; a worker stopped by a signal repeats nothing.
RepeatsNeedAFault ==
    \A e \in Events : logged[e] <= 1 + faults

\* Every event that reached the broker is logged in the end, the message that is
\* not JSON notwithstanding, if from some time on a worker stays connected.
EveryEventIsLogged ==
    <>[](worker # "down" /\ open) =>
        \A e \in Events : e \in arrived ~> logged[e] > 0
=============================================================================
