------------------------------ MODULE JobQueue ------------------------------
(***************************************************************************)
(* pz14-job-queue: an HTTP API that turns every POST into a job message,   *)
(* a RabbitMQ broker with the durable queues task_jobs and task_jobs_dlq,  *)
(* and worker processes that execute the jobs, retry a failed one by       *)
(* publishing it again with a higher attempt number, and give it up to the *)
(* dead-letter queue after MaxAttempts failures.                           *)
(*                                                                         *)
(* The broker, which is not part of the repository, is modelled from how   *)
(* the code uses it: per-connection FIFO frames, manual acknowledgement,   *)
(* prefetch, requeueing of unacknowledged deliveries when a connection     *)
(* ends, dead-lettering of a rejected one.  The order in which it hands    *)
(* out waiting messages is left open.                                      *)
(***************************************************************************)
EXTENDS Naturals, FiniteSets, Sequences

CONSTANTS
    Requests,       \* POSTs; each one gets its own message_id (a fresh uuid)
    FailJobs,       \* the ones whose task_id is "t_fail"
    Workers,        \* worker processes that can run at the same time
    Tags,           \* names for the copies the broker holds at one time
    NoCopy,         \* no delivery in hand
    NoId,           \* the message_id of a body that is not JSON
    MaxAttempts,    \* const maxAttempts of the worker
    Prefetch,       \* PREFETCH of the worker, 0 = no limit
    MaxFaults,      \* bound: worker crashes and lost worker connections
    MaxForeign      \* bound: messages published by hand

ASSUME RequestsAssumption == FailJobs \subseteq Requests /\ NoId \notin Requests
ASSUME LimitsAssumption ==
    /\ MaxAttempts \in Nat \ {0}
    /\ Prefetch \in Nat
    /\ MaxFaults \in Nat
    /\ MaxForeign \in Nat
ASSUME TagsAssumption == Tags \subseteq Nat

\* jobs.TaskJob: task_id is a function of the message id here (see FailJobs),
\* and a body that is not JSON is [id |-> NoId, attempt |-> 0].
Body == [id : Requests \union {NoId}, attempt : 0 .. MaxAttempts + 1]

\* One message of task_jobs in the broker, or one delivery of it to a worker.
Copy == [tag : Tags, id : Requests \union {NoId}, attempt : 0 .. MaxAttempts]
ASSUME NoCopyAssumption == NoCopy \notin Copy

\* What a worker writes on its channel: a publish (of the job in hand, with
\* its attempt number raised) or an acknowledgement of the delivery in hand.
Frame == [kind : {"retry", "bury", "ack", "nack"}, copy : Copy]

VARIABLES
    \* the API process
    api,            \* its AMQP connection: "up", or "cut" for good
    apiWire,        \* jobs written to that connection, not yet at the broker
    reply,          \* what each POST was answered
    \* the broker
    ready,          \* copies waiting in task_jobs
    unacked,        \* copies delivered on each worker's session, not acked
    session,        \* the broker considers this worker's connection open
    dlq,            \* bodies in task_jobs_dlq, which nobody consumes
    \* the workers
    pc,             \* where the loop over msgs stands
    buf,            \* deliveries waiting in the msgs channel
    cur,            \* the delivery d of this iteration
    processed,      \* the ProcessedStore, in the memory of the process
    wire,           \* frames written to the connection, not yet at the broker
    \* history
    routed,         \* jobs of the API that reached task_jobs
    okRuns,         \* executions of processTask that succeeded
    badRuns,        \* executions of processTask that failed
    ownRuns,        \* for each running process, its executions that succeeded
    faults,         \* crashes and lost connections of workers so far
    foreign         \* messages published by hand so far

apiVars == <<api, apiWire, reply>>
brokerVars == <<ready, unacked, session, dlq>>
localVars == <<pc, buf, cur, processed>>
runVars == <<okRuns, badRuns, ownRuns>>
envVars == <<faults, foreign>>
vars == <<apiVars, brokerVars, localVars, wire, routed, runVars, envVars>>

Init ==
    /\ api = "up"
    /\ apiWire = {}
    /\ reply = [r \in Requests |-> "none"]
    /\ ready = {}
    /\ unacked = [w \in Workers |-> {}]
    /\ session = [w \in Workers |-> FALSE]
    /\ dlq = {}
    /\ pc = [w \in Workers |-> "down"]
    /\ buf = [w \in Workers |-> {}]
    /\ cur = [w \in Workers |-> NoCopy]
    /\ processed = [w \in Workers |-> {}]
    /\ wire = [w \in Workers |-> << >>]
    /\ routed = {}
    /\ okRuns = [r \in Requests |-> 0]
    /\ badRuns = [r \in Requests |-> 0]
    /\ ownRuns = [w \in Workers |-> [r \in Requests |-> 0]]
    /\ faults = 0 /\ foreign = 0

-----------------------------------------------------------------------------
(* The API process.                                                        *)

\* A mutated Reject: http.Error without the return after it.
RejectWithoutReturn(r) ==
    /\ reply[r] = "none"
    /\ reply' = [reply EXCEPT ![r] = "4xx"]
    /\ apiWire' = apiWire \union {r}
    /\ UNCHANGED <<api, brokerVars, localVars, wire, routed, runVars, envVars>>

\* POST without the token (401), or with a body that has no task_id (400).
Reject(r) ==
    /\ reply[r] = "none"
    /\ reply' = [reply EXCEPT ![r] = "4xx"]
    /\ UNCHANGED <<api, apiWire, brokerVars, localVars, wire, routed, runVars,
                   envVars>>

\* A valid POST: PublishJob with attempt 1 and a new message_id, then 202.
\* There are no publisher confirms, so a nil error only says that the frames
\* were written; on a closed connection the publish fails and the reply is 500.
Post(r) ==
    /\ reply[r] = "none"
    /\ \/ /\ api = "up"
          /\ apiWire' = apiWire \union {r}
          /\ reply' = [reply EXCEPT ![r] = "202"]
       \/ /\ api = "cut"
          /\ apiWire' = apiWire
          /\ reply' = [reply EXCEPT ![r] = "500"]
    /\ UNCHANGED <<api, brokerVars, localVars, wire, routed, runVars, envVars>>

\* The connection is lost; frames the broker has not read are lost with it,
\* and the process never dials again.
CutApi ==
    /\ api = "up"
    /\ api' = "cut"
    /\ apiWire' = {}
    /\ UNCHANGED <<reply, brokerVars, localVars, wire, routed, runVars, envVars>>

\* Only a new process has a working connection again.
RestartApi ==
    /\ api = "cut"
    /\ api' = "up"
    /\ UNCHANGED <<apiWire, reply, brokerVars, localVars, wire, routed, runVars,
                   envVars>>

-----------------------------------------------------------------------------
(* The broker: messages arriving and being delivered.                      *)

InUse(t) ==
    \/ \E c \in ready : c.tag = t
    \/ \E w \in Workers :
        \/ \E c \in unacked[w] \union buf[w] : c.tag = t
        \/ cur[w] # NoCopy /\ cur[w].tag = t

\* Tags are recycled: a new copy takes the smallest one not in use.
FreshTag(t) == ~InUse(t) /\ \A u \in Tags : u < t => InUse(u)

\* Body b is stored in task_jobs as a new copy.
Store(b) ==
    \E t \in Tags :
        /\ FreshTag(t)
        /\ ready' = ready \union {[tag |-> t, id |-> b.id, attempt |-> b.attempt]}

FirstBody(r) == [id |-> r, attempt |-> 1]
Malformed == [id |-> NoId, attempt |-> 0]
BodyOf(c) == [id |-> c.id, attempt |-> c.attempt]

\* job.Attempt++ on the decoded job.
Raised(c) == [id |-> c.id, attempt |-> c.attempt + 1]

RouteApi(r) ==
    /\ r \in apiWire
    /\ Store(FirstBody(r))
    /\ apiWire' = apiWire \ {r}
    /\ routed' = routed \union {r}
    /\ UNCHANGED <<api, reply, unacked, session, dlq, localVars, wire, runVars,
                   envVars>>

\* Somebody publishes a message through the management interface: not JSON,
\* or one more copy of a job that went through the API (same message_id).
ForeignPublish ==
    /\ foreign < MaxForeign
    /\ \E b \in {Malformed} \union {FirstBody(r) : r \in routed} : Store(b)
    /\ foreign' = foreign + 1
    /\ UNCHANGED <<apiVars, unacked, session, dlq, localVars, wire, routed,
                   runVars, faults>>

\* A mutated Deliver: Consume with autoAck = true and no Qos.
DeliverAutoAck(w, c) ==
    /\ session[w]
    /\ c \in ready
    /\ ready' = ready \ {c}
    /\ buf' = [buf EXCEPT ![w] = IF pc[w] = "down" THEN @ ELSE @ \union {c}]
    /\ UNCHANGED <<apiVars, unacked, session, dlq, pc, cur, processed, wire, routed,
                   runVars, envVars>>

\* Consume with autoAck = false and Qos(prefetch): a copy goes to a session
\* with room for it and stays there until it is acked.  The broker does not
\* know yet that a process has died, and then nobody receives the delivery.
Deliver(w, c) ==
    /\ session[w]
    /\ c \in ready
    /\ Prefetch = 0 \/ Cardinality(unacked[w]) < Prefetch
    /\ ready' = ready \ {c}
    /\ unacked' = [unacked EXCEPT ![w] = @ \union {c}]
    /\ buf' = [buf EXCEPT ![w] = IF pc[w] = "down" THEN @ ELSE @ \union {c}]
    /\ UNCHANGED <<apiVars, session, dlq, pc, cur, processed, wire, routed,
                   runVars, envVars>>

-----------------------------------------------------------------------------
(* The worker: its start and the loop over msgs.                           *)

\* main: Dial, DeclareQueues, Qos, Consume, NewProcessedStore.
Start(w) ==
    /\ pc[w] = "down" /\ ~session[w]
    /\ pc' = [pc EXCEPT ![w] = "idle"]
    /\ session' = [session EXCEPT ![w] = TRUE]
    /\ processed' = [processed EXCEPT ![w] = {}]
    /\ ownRuns' = [ownRuns EXCEPT ![w] = [r \in Requests |-> 0]]
    /\ UNCHANGED <<apiVars, ready, unacked, dlq, buf, cur, wire, routed, okRuns,
                   badRuns, envVars>>

\* What a write on the channel does: an error, logged or ignored, when the
\* connection is gone.
Send(w, kind, c) ==
    wire' = [wire EXCEPT ![w] =
                IF session[w] THEN Append(@, [kind |-> kind, copy |-> c]) ELSE @]

\* A mutated TakeMalformed: Nack without the continue after it.
TakeMalformedWithoutContinue(w) ==
    /\ pc[w] = "idle"
    /\ \E c \in buf[w] :
        /\ c.id = NoId
        /\ buf' = [buf EXCEPT ![w] = @ \ {c}]
        /\ cur' = [cur EXCEPT ![w] = c]
        /\ Send(w, "nack", c)
    /\ pc' = [pc EXCEPT ![w] = "ack"]
    /\ UNCHANGED <<apiVars, brokerVars, processed, routed, runVars, envVars>>

\* json.Unmarshal fails: Nack(false, false), which dead-letters the message.
TakeMalformed(w) ==
    /\ pc[w] = "idle"
    /\ \E c \in buf[w] :
        /\ c.id = NoId
        /\ buf' = [buf EXCEPT ![w] = @ \ {c}]
        /\ Send(w, "nack", c)
    /\ UNCHANGED <<apiVars, brokerVars, pc, cur, processed, routed, runVars,
                   envVars>>

\* processed.Exists: this process has already done the job.
TakeDuplicate(w) ==
    /\ pc[w] = "idle"
    /\ \E c \in buf[w] :
        /\ c.id \in processed[w]
        /\ buf' = [buf EXCEPT ![w] = @ \ {c}]
        /\ Send(w, "ack", c)
    /\ UNCHANGED <<apiVars, brokerVars, pc, cur, processed, routed, runVars,
                   envVars>>

TakeJob(w) ==
    /\ pc[w] = "idle"
    /\ \E c \in buf[w] :
        /\ c.id # NoId
        /\ c.id \notin processed[w]
        /\ buf' = [buf EXCEPT ![w] = @ \ {c}]
        /\ cur' = [cur EXCEPT ![w] = c]
    /\ pc' = [pc EXCEPT ![w] = "process"]
    /\ UNCHANGED <<apiVars, brokerVars, processed, wire, routed, runVars, envVars>>

\* A mutated ProcessOk: MarkDone is missing.
ProcessOkUnmarked(w) ==
    /\ pc[w] = "process"
    /\ cur[w].id \notin FailJobs
    /\ okRuns' = [okRuns EXCEPT ![cur[w].id] = @ + 1]
    /\ ownRuns' = [ownRuns EXCEPT ![w][cur[w].id] = @ + 1]
    /\ pc' = [pc EXCEPT ![w] = "ack"]
    /\ UNCHANGED <<apiVars, brokerVars, buf, cur, processed, wire, routed, badRuns,
                   envVars>>

\* processTask returns nil, then processed.MarkDone.
ProcessOk(w) ==
    /\ pc[w] = "process"
    /\ cur[w].id \notin FailJobs
    /\ okRuns' = [okRuns EXCEPT ![cur[w].id] = @ + 1]
    /\ ownRuns' = [ownRuns EXCEPT ![w][cur[w].id] = @ + 1]
    /\ processed' = [processed EXCEPT ![w] = @ \union {cur[w].id}]
    /\ pc' = [pc EXCEPT ![w] = "ack"]
    /\ UNCHANGED <<apiVars, brokerVars, buf, cur, wire, routed, badRuns, envVars>>

\* processTask returns an error: the job is published before the ack.
ProcessFail(w) ==
    /\ pc[w] = "process"
    /\ cur[w].id \in FailJobs
    /\ badRuns' = [badRuns EXCEPT ![cur[w].id] = @ + 1]
    /\ pc' = [pc EXCEPT ![w] = "publish"]
    /\ UNCHANGED <<apiVars, brokerVars, buf, cur, processed, wire, routed, okRuns,
                   ownRuns, envVars>>

\* Mutated forms of CanRetry: the comparison is off by one.
RaisedBelowMax(c) == Raised(c).attempt < MaxAttempts
RaisedAboveMax(c) == Raised(c).attempt <= MaxAttempts + 1

\* job.Attempt <= maxAttempts, after the increment.
CanRetry(c) == Raised(c).attempt <= MaxAttempts

\* A mutated Publish: the last failure is not published to the DLQ.
PublishRetryOnly(w) ==
    /\ pc[w] = "publish"
    /\ IF CanRetry(cur[w]) THEN Send(w, "retry", cur[w]) ELSE wire' = wire
    /\ pc' = [pc EXCEPT ![w] = "ack"]
    /\ UNCHANGED <<apiVars, brokerVars, buf, cur, processed, routed, runVars,
                   envVars>>

Publish(w) ==
    /\ pc[w] = "publish"
    /\ Send(w, IF CanRetry(cur[w]) THEN "retry" ELSE "bury", cur[w])
    /\ pc' = [pc EXCEPT ![w] = "ack"]
    /\ UNCHANGED <<apiVars, brokerVars, buf, cur, processed, routed, runVars,
                   envVars>>

\* A mutated Ack: it is never sent.
AckForgotten(w) ==
    /\ pc[w] = "ack"
    /\ cur' = [cur EXCEPT ![w] = NoCopy]
    /\ pc' = [pc EXCEPT ![w] = "idle"]
    /\ UNCHANGED <<apiVars, brokerVars, buf, processed, wire, routed, runVars,
                   envVars>>

\* d.Ack(false), the last statement of every iteration that ran the job.
Ack(w) ==
    /\ pc[w] = "ack"
    /\ Send(w, "ack", cur[w])
    /\ cur' = [cur EXCEPT ![w] = NoCopy]
    /\ pc' = [pc EXCEPT ![w] = "idle"]
    /\ UNCHANGED <<apiVars, brokerVars, buf, processed, routed, runVars, envVars>>

\* The connection is closed, so msgs is closed: the loop and main end.
\* Deliveries still buffered may or may not have been taken before.
Exit(w) ==
    /\ pc[w] = "idle" /\ ~session[w]
    /\ pc' = [pc EXCEPT ![w] = "down"]
    /\ buf' = [buf EXCEPT ![w] = {}]
    /\ processed' = [processed EXCEPT ![w] = {}]
    /\ ownRuns' = [ownRuns EXCEPT ![w] = [r \in Requests |-> 0]]
    /\ UNCHANGED <<apiVars, brokerVars, cur, wire, routed, okRuns, badRuns, envVars>>

-----------------------------------------------------------------------------
(* The broker handles the frames of a worker, in the order they were sent. *)

HeadIs(w, kind) == wire[w] # << >> /\ Head(wire[w]).kind = kind
HeadCopy(w) == Head(wire[w]).copy
PopWire(w) == wire' = [wire EXCEPT ![w] = Tail(@)]

RouteRetry(w) ==
    /\ HeadIs(w, "retry")
    /\ Store(Raised(HeadCopy(w)))
    /\ PopWire(w)
    /\ UNCHANGED <<apiVars, unacked, session, dlq, localVars, routed, runVars,
                   envVars>>

RouteBury(w) ==
    /\ HeadIs(w, "bury")
    /\ dlq' = dlq \union {Raised(HeadCopy(w))}
    /\ PopWire(w)
    /\ UNCHANGED <<apiVars, ready, unacked, session, localVars, routed, runVars,
                   envVars>>

RouteAck(w) ==
    /\ HeadIs(w, "ack")
    /\ unacked' = [unacked EXCEPT ![w] = @ \ {HeadCopy(w)}]
    /\ PopWire(w)
    /\ UNCHANGED <<apiVars, ready, session, dlq, localVars, routed, runVars,
                   envVars>>

\* x-dead-letter-exchange of task_jobs: a rejected message goes to the DLQ.
RouteNack(w) ==
    /\ HeadIs(w, "nack")
    /\ unacked' = [unacked EXCEPT ![w] = @ \ {HeadCopy(w)}]
    /\ dlq' = dlq \union {BodyOf(HeadCopy(w))}
    /\ PopWire(w)
    /\ UNCHANGED <<apiVars, ready, session, localVars, routed, runVars, envVars>>

-----------------------------------------------------------------------------
(* Faults.                                                                 *)

\* The broker ends a session: what was not acked waits in the queue again,
\* frames that had not arrived are gone.
EndSession(w) ==
    /\ session[w]
    /\ session' = [session EXCEPT ![w] = FALSE]
    /\ ready' = ready \union unacked[w]
    /\ unacked' = [unacked EXCEPT ![w] = {}]
    /\ wire' = [wire EXCEPT ![w] = << >>]

\* The process lives on with the deliveries it already has.
LoseConnection(w) ==
    /\ faults < MaxFaults
    /\ pc[w] # "down"
    /\ EndSession(w)
    /\ faults' = faults + 1
    /\ UNCHANGED <<apiVars, dlq, localVars, routed, runVars, foreign>>

\* The process dies; the broker still holds its session for a while and
\* handles what was already written.
Crash(w) ==
    /\ faults < MaxFaults
    /\ pc[w] # "down"
    /\ pc' = [pc EXCEPT ![w] = "down"]
    /\ buf' = [buf EXCEPT ![w] = {}]
    /\ cur' = [cur EXCEPT ![w] = NoCopy]
    /\ processed' = [processed EXCEPT ![w] = {}]
    /\ ownRuns' = [ownRuns EXCEPT ![w] = [r \in Requests |-> 0]]
    /\ faults' = faults + 1
    /\ UNCHANGED <<apiVars, brokerVars, wire, routed, okRuns, badRuns, foreign>>

\* The broker notices that the process behind a session has died.
Reap(w) ==
    /\ pc[w] = "down"
    /\ EndSession(w)
    /\ UNCHANGED <<apiVars, dlq, localVars, routed, runVars, envVars>>

-----------------------------------------------------------------------------
WorkerStep(w) ==
    \/ TakeMalformed(w) \/ TakeDuplicate(w) \/ TakeJob(w)
    \/ ProcessOk(w) \/ ProcessFail(w) \/ Publish(w) \/ Ack(w) \/ Exit(w)

RouteStep(w) == RouteRetry(w) \/ RouteBury(w) \/ RouteAck(w) \/ RouteNack(w)

Next ==
    \/ \E r \in Requests : Reject(r) \/ Post(r) \/ RouteApi(r)
    \/ CutApi \/ RestartApi \/ ForeignPublish
    \/ \E w \in Workers :
        \/ \E c \in ready : Deliver(w, c)
        \/ Start(w) \/ WorkerStep(w) \/ RouteStep(w)
        \/ LoseConnection(w) \/ Crash(w) \/ Reap(w)

Spec == Init /\ [][Next]_vars

DeliverTag(t) ==
    \E w \in Workers, c \in ready : c.tag = t /\ Deliver(w, c)

\* A running process keeps taking steps, the broker keeps handling what it
\* was sent and notices dead connections, and a copy at the front of the
\* queue is not passed over for ever while deliveries are possible.  Nobody
\* promises that a worker is started, and nobody promises a fault.
Fairness ==
    /\ \A w \in Workers :
        /\ WF_vars(WorkerStep(w))
        /\ WF_vars(RouteStep(w))
        /\ WF_vars(Reap(w))
    /\ \A t \in Tags : SF_vars(DeliverTag(t))

FairSpec == Spec /\ Fairness

-----------------------------------------------------------------------------
(* Properties.                                                             *)

\* The shape of the state: what every process, queue and connection can hold.
TypeOK ==
    /\ api \in {"up", "cut"}
    /\ apiWire \subseteq Requests
    /\ reply \in [Requests -> {"none", "4xx", "500", "202"}]
    /\ ready \subseteq Copy
    /\ unacked \in [Workers -> SUBSET Copy]
    /\ session \in [Workers -> BOOLEAN]
    /\ dlq \subseteq Body
    /\ pc \in [Workers -> {"down", "idle", "process", "publish", "ack"}]
    /\ buf \in [Workers -> SUBSET Copy]
    /\ cur \in [Workers -> Copy \union {NoCopy}]
    /\ processed \in [Workers -> SUBSET Requests]
    /\ wire \in [Workers -> Seq(Frame)]
    /\ routed \subseteq Requests
    /\ okRuns \in [Requests -> Nat]
    /\ badRuns \in [Requests -> Nat]
    /\ ownRuns \in [Workers -> [Requests -> Nat]]
    /\ faults \in Nat /\ foreign \in Nat

InBroker == ready \union UNION {unacked[w] : w \in Workers}

PendingIds == {c.id : c \in InBroker} \ {NoId}
DoneIds == {r \in Requests : okRuns[r] > 0}
DeadIds == {b.id : b \in dlq} \ {NoId}

\* A job that reached task_jobs is executed, or in the dead-letter queue, or
\* still held by the broker, through every crash, lost connection and retry
\* (publish before ack on one channel, Ack only after the work is done).
NoJobLost == routed \subseteq DoneIds \union DeadIds \union PendingIds

\* A job is in the dead-letter queue only after maxAttempts executions of it
\* have failed ("after 3 attempts ... DLQ").
BuriedAfterMaxAttempts ==
    \A b \in dlq : b.id # NoId => badRuns[b.id] >= MaxAttempts

AckedBy(w) ==
    {i \in 1 .. Len(wire[w]) : wire[w][i].kind \in {"ack", "nack"}}

\* Every ack or nack on its way names a delivery the broker waits for on that
\* session, and no two name the same one: otherwise RabbitMQ closes the
\* channel with PRECONDITION_FAILED and the worker ends.
AcksAreKnown ==
    \A w \in Workers :
        /\ \A i \in AckedBy(w) : wire[w][i].copy \in unacked[w]
        /\ \A i, j \in AckedBy(w) : wire[w][i].copy = wire[w][j].copy => i = j

\* No worker process executes one message_id twice with success, whatever the
\* broker redelivers and whoever publishes it again (ProcessedStore).  A failed
\* execution is not remembered, and the same process may repeat it.
OncePerProcess == \A w \in Workers : \A r \in Requests : ownRuns[w][r] <= 1

\* How far at-least-once delivery goes: a job is executed successfully at most
\* once for each time it was published and once more for each fault; without
\* faults it fails at most MaxAttempts times for each time it was published.
ExecutionBudget ==
    \A r \in Requests :
        /\ okRuns[r] <= 1 + foreign + faults
        /\ faults = 0 => badRuns[r] <= MaxAttempts * (1 + foreign)

\* A POST that was not answered 202 is never executed.
RefusedNeverRuns ==
    \A r \in Requests :
        reply[r] \in {"4xx", "500"} => okRuns[r] + badRuns[r] = 0

\* If from some time on there is always a connected worker process, every job
\* that reached the queue is executed or buried.
Settles ==
    <>[](\E w \in Workers : session[w] /\ pc[w] # "down")
        => \A r \in Requests :
              (r \in routed) ~> (r \in DoneIds \union DeadIds)

\* README.md:158 promises that a repeated message_id is skipped.
ProcessedOnce == \A r \in Requests : okRuns[r] <= 1

\* The queue implements the ledger.
Ledger == INSTANCE JobLedger WITH
    queued <- routed, pending <- PendingIds, done <- DoneIds, dead <- DeadIds
LedgerSpec == Ledger!Spec
=============================================================================
