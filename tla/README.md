# A verification development for Go_Practice_2_sem

The repository holds sixteen practice projects (`pz1` … `pz16`), small Go
services that share no code. This directory models them in TLA+, checks the
models with TLC and proves their safety properties with TLAPS. The modules are
translated from the Go source; RabbitMQ, Redis and the operating system, which
are not in the repository, are modelled from how the source uses them.

## Inventory

| Component | State it keeps | Operations | What is hard | What makes it correct |
|---|---|---|---|---|
| **pz14** jobs API, worker (`pz14-job-queue`) | broker queues `task_jobs`, `task_jobs_dlq`; unacked deliveries per session; the worker's `ProcessedStore`; attempt numbers in the messages | POST → publish; worker loop: nack, skip, process, retry, bury, ack | crashes and lost connections between publish, `MarkDone` and ack; redelivery; duplicates; retries racing the delivery they replace | no job is lost; a job is buried only after `maxAttempts` failures; one execution per process and message id; acks are known; jobs settle |
| **pz9** tasks with a Redis cache (`pz9-redis-cache`) | `Repo.data` (a map without a lock), Redis entries with TTL, a nil client without Redis | GET task, GET page, PATCH, DELETE, TTL expiry | `Update` and `Delete` check and then store without a lock; fill racing invalidation, failed `DEL` with early return, pages invalidation does not reach, restart with a warm cache | stale entries have known reasons only, and a negative entry that is wrong has one; freshness in the end |
| **pz13** task events (`pz13-rabbitmq`) | `Store` of tasks, queue `task_events` | POST → create, publish (`strict`/`best_effort`); consumer ack/nack | store and publish are two steps; no confirms; nack without a dead-letter exchange; ids that start anew | what 201 and 500 say of a task and its event; an accepted event is kept, and logged once a worker stays connected |
| **pz6** sessions (`pz6-web-security`) | session → profile (name, comments, CSRF token), cookies | login, POST profile, POST comment, logout | token compared on a shared pointer without the lock, rotated later; logout in between | a used token is dead; writes are entitled; no comment lost; no write after logout |
| **pz11/pz12** task store (GraphQL, REST) | slice of tasks, next id, `RWMutex` | list, get, create, update, delete | pz11 `List` hands out stored pointers, read without the lock while `Update` writes field by field; pz12 clones; several fields in one request | what is read was there; what is answered tells what was done |
| **pz11/pz12** executor generated by gqlgen | the response tree under construction | resolve a field, complete an object or a list | goroutines per query field and list element; nulls that climb | nulls and errors where the schema puts them; every operation answered |
| **pz2** students over gRPC | map of students, `nextID` | get, list, create; a client of six calls | uniqueness check against normalised emails; answers lost | unique emails; a created student is found again |
| **pz3** students over HTTP, with logs | map of students, `nextID` | get, create | a POST made again after its answer was lost | unique emails; of two equal POSTs one succeeds |
| **pz7** auth + tasks, **pz1** orders + users | read-only data | one remote call with a 3 s timeout | slow, dead or late peer | access and data only on the peer's word; every call ends |
| **pz4** metrics | counters and a gauge | middleware around every request | panics, early returns | gauge equals requests under way, counters agree |
| **pz5** HTTPS + Postgres | external database | prepared reads, redirect server | none that is not the database's | — |
| **pz10** load balancer | none (three stateless copies behind nginx) | GETs | none | — |
| **pz15/pz16**, **pz8** | none | health endpoints, deployment, pipelines | none | — |

Interaction: within pz14 and pz13 the API and the workers share nothing but the
broker; within pz9 the request goroutines share the map and Redis; in pz6, pz11
and pz12 they share a store; pz7 and pz1 are two services joined by HTTP, pz2 and pz3 a server and a client.
`PROJECT.json` lists the components, and the hazards at the lines where they bite.

## Plan

1. `JobQueue`, `JobLedger` (pz14).
2. `CacheAside` (pz9).
3. `TaskEvents` (pz13), both publish modes.
4. `WebSession` (pz6).
5. `TaskApi` (stores and resolvers of pz11 and pz12) and `GqlExec` (the
   generated executor).
6. `RemoteCall` (pz1, pz2, pz3, pz7).

All six are modelled and checked, and every invariant and every action property
the passing runs check is proved, as is the refinement of `JobLedger`. What
is only checked is liveness: `Settles`, `FreshInTheEnd`, `EveryEventIsLogged`,
`EveryCallEnds` and `Answered` need fairness and ENABLED, which the prover does
not handle. Left to do: the safety lemmas those liveness properties rest on
(that a step which is enabled stays so until it is taken), and pz4.

Every module stands alone, as the projects do; only `JobQueue` has an abstract
specification beside it (`JobLedger`). The `MC…` modules name the instances.

## JobQueue: the model of pz14

| Model | Code |
|---|---|
| `Post`, `Reject`, `api`, `apiWire`, `reply` | handler of `POST /v1/jobs/process-task`; `apiWire` holds publishes written and not yet at the broker (no confirms) |
| `ready`, `unacked`, `session`, `dlq`, `Deliver`, `Route…`, `EndSession` | RabbitMQ: manual ack, `Qos(prefetch)`, per-channel order of frames, requeueing when a connection ends, `x-dead-letter-exchange` for a nack |
| `pc`, `buf`, `cur`, `wire` | the loop `for d := range msgs`: what is buffered, the delivery in hand, the frames written |
| `TakeMalformed`, `TakeDuplicate`, `TakeJob` | the three ways an iteration begins |
| `ProcessOk`, `ProcessFail`, `Publish`, `Ack`, `Exit` | `processTask`, `MarkDone`, `PublishJob`, `d.Ack(false)`, end of `msgs` |
| `processed` | `ProcessedStore`, emptied with the process |
| `LoseConnection`, `Crash`, `Reap`, `CutApi`, `ForeignPublish` | faults, and an operator at the management interface |
| `okRuns`, `badRuns`, `ownRuns` | history: successful and failed executions of each job, and the successful ones of each running process, reset with it |

Decisions. `task_id` and `message_id` are one model value (each POST draws a new
uuid; `FailJobs` are the posts of `t_fail`). The order of waiting messages and of
buffered deliveries is left open, which allows more than RabbitMQ does. A crash may come between
any two statements. A dead process and the broker's knowledge of it are separate
(`pc` and `session`), so frames already written may be handled after the death.
The broker itself does not lose durable messages. Tags name the copies the
broker holds; they are recycled, the smallest free one first, and the instances
have enough of them: no reachable state uses them up (7 for the safety runs, 5 for liveness).

`JobLedger` is the abstract specification: a job is enqueued, stays pending,
is completed or buried (never both), and is forgotten only when settled.
`JobQueue` implements it under the mapping at the end of the module.

### Runs

| Run | Instance | Shows |
|---|---|---|
| `jobqueue_safety` | one good and one failing job, 2 workers, prefetch 1, maxAttempts 2, 1 fault, 1 foreign message; 1.1 million states | type invariant, `NoJobLost`, `AcksAreKnown`, `OncePerProcess`, `ExecutionBudget`, `RefusedNeverRuns`, `BuriedAfterMaxAttempts`, implements `JobLedger` |
| `jobqueue_live` | as safety without the foreign message, fair | `Settles` |
| `jobqueue_once` | one job, one worker, 1 crash | violated: `README.md:158` of pz14 says a repeated `message_id` is skipped; after a crash between `MarkDone` and the ack a new process executes it again |

Why the bounds are enough to be interesting: two workers are needed for one to
hold a redelivered copy while the other still works on it; one fault gives a
redelivery; two attempts give one retry and one burial. The real maxAttempts
(3), larger prefetches, further faults, workers and jobs are covered by the
theorems, which are about every value of them. In the safety runs workers are interchangeable, hence symmetry; the liveness run uses none.

Fairness (`JobQueue!Fairness`): weak fairness of a running worker's loop, of the
broker's handling of frames, and of the broker noticing a dead peer
(heartbeats); strong fairness of the delivery of each waiting copy, because a
queue does not pass over its head for ever while sessions have room. Nobody
promises that a worker is started or that a fault occurs, so neither has
fairness, and `Settles` assumes that from some time on a worker is connected.

### Proofs

`JobQueueProofs` (`TypeCorrect`, `GivenUpOnlyWhenSpent`, `NothingLost`,
`AcknowledgementsKnown`) and `JobQueueLedger` (`NoRunWithout202`,
`NoProcessRepeats`, `QueueImplementsLedger`, `ExecutionsArePaidFor`) hold for
every choice of the constants that meets the four assumptions of `JobQueue`; the
bounds `MaxFaults` and `MaxForeign` may be any numbers.

* `IInv = TypeOK /\ AttemptInv`. `BuriedAfterMaxAttempts` alone is not
  inductive: a burial on the wire, a copy waiting in the queue, a delivery in hand all
  lead to a burial later. `AttemptInv` says what each carries: a copy with
  attempt *n* is `Backed` by *n − 1* failed executions of its job, a delivery
  about to be published and every frame made from it by *n* of them. Failures are only ever
  added, so what was backed stays backed.
* `DInv` adds what the delivery protocol keeps. `ClosedInv`: without a session
  the broker owes nothing. `HeldInv`, `PlaceInv`: on a live session the buffered
  deliveries and the one in hand are distinct unacked copies, and a copy is in
  one place. `FrameInv`, `LastInv`: each frame is about an unacked copy no
  longer in hand (or about to be acked), and an ack is the last frame about its
  copy — from which `AcksAreKnown` follows. `OwedInv`: each routed job has been
  executed, is in the dead-letter queue, waits, or has an unacked copy whose ack
  is not under way, or is preceded on the same wire by its retry or
  burial — from which `NoJobLost` follows. It is the order of frames on one
  channel that makes it inductive: publish first, ack last.

* `LInv` adds what was answered and what ran. `AcceptedInv`, `KnownInv`: only a
  job answered 202 is on the way to the queue, and every copy is of a job that
  was queued, or of none — from which `RefusedNeverRuns` follows. `RanInv`: a job
  that ran was queued, and always succeeds or always fails. `OnceInv` makes
  `OncePerProcess` inductive: a job that a process has in `process` is not among
  those it has marked done, and one it has not marked done it has never executed
  with success. Failed executions, which one process does repeat, are counted by
  `ExecutionBudget` and `BuriedAfterMaxAttempts`.
* `QueueImplementsLedger` maps each action to the step of `JobLedger` it
  implements: `RouteApi` enqueues, a `ForeignPublish` lets a job reenter, the
  first `ProcessOk` of a job completes it, `RouteBury` buries it, the `RouteAck`
  of its last copy retires it — which it may, because by `NoJobLost` the job is
  settled then. The rest, crashes and redeliveries included, stutters.
* `BInv` counts what is still owed. `OkInv`: successes of a job, its copies in the
  broker and the processes that may still execute a copy the broker has taken back
  are no more than its publishes, the faults, and the workers that are through
  with a copy and have not had it acknowledged. `UsedInv` says that such a worker
  has marked the job done. `BadInv`, while there are no faults: failures and
  the set of attempts the copies still stand for are no more than `MaxAttempts` per
  publish. A retry hands the attempts of its delivery over to the copy it
  stores; that it does so once needs `WireInv` (no delivery is published twice).
  `ExecutionBudget` follows.

Model-checked only: `Settles`.

## CacheAside: the model of pz9

Each request is a process. A GET is `BeginGet`, `Hit` or `Miss`, `Read` of a
task or `ReadIds` and one `ReadItem` per task of a page, `Fill`; a PATCH or
DELETE is `BeginPatch`/`BeginDelete`, `Check` or `WriteAbsent` (404), `Write`,
`Invalidate` (DEL of the task key), then one `InvalidateList` per list key of
the loop. `Repo` has no lock, so its methods are not one step: `Update` and
`Delete` look for the task (`Check`) and then store or delete it (`Write`),
and `List` collects the ids (`ReadIds`) and then looks up each of them
(`ReadItem`); a task that is gone by then is listed as a zero task. `cache` maps every key to `None` or to content, a
function from ids to values; the marker `__NOT_FOUND__` is the empty function.
`OnPage` computes a page of `Repo.List` from the ranks of the ids, with the
clamping of `page` and `limit`. A Redis command can report an error whether or
not it was executed; that covers a dead Redis, a timeout, and a client that went
away (its context is used for the commands). `client` is `redis != nil`, chosen
when the process starts. One access to the map is one step, as is the
iteration of `List` over the keys; an access that overlaps the write of the
same entry can yield `Torn`, as does a zero task, and the fatal error of the Go
runtime is one of the ends that `Restart` stands for. `Restart` brings back the initial repository and leaves Redis as it is.
Left out: 400 answers, logging, the key `tasks:list` (deleted but never
set), and decode errors of entries (only this program writes them).

`late`, `excused` and `contested` are history variables: the GETs that a change
has overtaken since their read, the keys whose entry may be stale for one of the
reasons listed at `StaleIsExplained`, and the tasks a DELETE has removed between the
check and the store of a PATCH. Such a task comes back, and a GET that found nothing
meanwhile may store `__NOT_FOUND__` over it after the PATCH has deleted the key:
`NegativeIsExplained` says that a negative entry of a task that exists has this
reason and no other.

| Run | Instance | Shows |
|---|---|---|
| `cache_safety` | 2 requests at a time, 2 tasks, the second page of size 1, 2 changes, 1 failed command, 1 restart; 1.2 million states | `StaleIsExplained`, `NegativeIsExplained`, type invariant |
| `cache_live` | 2 requests, 1 task, a page inside and one outside the loop's range, 1 change, 1 failed command, 1 restart, fair | `FreshInTheEnd` |
| `cache_race` | 2 requests, 1 task, 1 change, no failure | violated: pz9 `README.md:190` promises consistency after PATCH/DELETE; a late fill leaves the old task in the cache |

Requests one after the other are not consistent at rest either: `invalidateTask`
deletes pages 1 to 5 with limits 1 to 20 only, so that a list with limit 21 stays
in the cache after a PATCH or DELETE (pz9 `README.md:16` asks to invalidate on
both). `StaleIsExplained` counts such a page (`Lists \ Paged`) among the reasons,
and `cache_live` has one, on which `FreshInTheEnd` rests on the TTL alone.

Bounds: a late fill needs two requests; two changes are needed for a DELETE
followed by a PATCH of the same id and for two writers at once; one error
exercises each early return. A contested task with a wrong negative entry
needs a PATCH that stays between its check and its store while a DELETE and then a
GET run beside it: two requests at a time and two changes reach it (without
`contested` in the property TLC shows the trace). The page of size 1 shows the second task until the
first is deleted, so a change of one task moves another between pages. Fairness: a request
that has begun goes on (its goroutine is scheduled and every Redis command has a
timeout), and every entry expires, as every `SET` has a positive TTL in the
default configuration. New requests and faults have no fairness; changes,
failures and restarts are finite by their bounds, which is what "after the last"
in `FreshInTheEnd` means.

`CacheAsideProofs` proves `TypeCorrect`, `NothingElseIsStale` (`StaleIsExplained`)
and `AbsentUnlessBroughtBack` (`NegativeIsExplained`) for any tasks, values, pages, requests and
bounds. The two properties need what a GET carries between its read and its
`SET`. `FillInv`: that is the present state of the repository, unless the request is `late`.
`AbsentInv`: a GET that found nothing, even when it is late, and a PATCH that found
its task stay right until the task is contested, because a PATCH does not create. `LocalInv` keeps a request to its own task. Of the lists the
proof uses only that a page is computed from the repository. The assumption on `None` says that
it is neither a key nor an entry. Model-checked only: `FreshInTheEnd`.

## TaskEvents: the model of pz13

| Model | Code |
|---|---|
| `Reject`, `Create`, `Publish`, `PublishError` | the handler of `POST /v1/tasks`: refusals, `store.Create`, `PublishTaskCreated`, and what `PUBLISH_MODE` makes of an error |
| `wire`, `CutApi`, `RestartApi`, `life` | frames without confirms on the one connection `main` dials; ids that begin at `t_001` in every process |
| `queue`, `unacked`, `open`, `Route`, `Deliver`, `Settle`, `EndSession` | RabbitMQ: durable queue, prefetch, requeueing at the end of a session |
| `Take`, `DropBad`, `Log`, `Ack`, `Exit`, `Stop`, `Crash` | the worker's `select`, `handleDelivery`, the closed `msgs` channel, a signal, a death |

An event carries the ghost `life` of the process it came from, since its
`task_id` alone does not identify the task. There is one worker, and `Start` is
somebody who runs it, after the broker has noticed the end of its last session. The order in
which waiting events are handed out is left open. `LoseSession` of a worker that
is alive leaves it with deliveries whose acks no longer count.

| Run | Instance | Shows |
|---|---|---|
| `task_events` | 2 POSTs, both modes, prefetch 1 or 2, 1 restart of the API, 1 fault of the worker's side or the broker, 1 stop, 1 message that is not JSON; 268 000 states | type invariant, `AcceptedIsKept`, `RepliesAreExplained`, `EventsNameTasks`, `RepeatsNeedAFault`, `EveryEventIsLogged` |
| `task_events_strict` | 1 POST, the API's connection may be lost, no other fault | violated: pz13 `README.md:180` says that strict mode answers 500 when the event could not be published to the queue; without confirms a POST is answered 201 and its event is lost with the connection |

Two POSTs and a restart are needed for two tasks of one id. Fairness: the loop of a
worker that runs goes on, and the broker handles frames and hands out what waits.
The worker is run by hand (`go run ./cmd/worker`, `start-worker.ps1`) and its `main`
returns when `msgs` is closed, so nobody has to start it: `EveryEventIsLogged`, like
`Settles`, has as its premise that from some time on a worker stays connected.
Nothing obliges the API to be restarted or anybody to send or stop anything.
`RepliesAreExplained` states the two modes apart: a 201 of strict mode
says that the event was written to the connection, which is all that the code knows. `README.md:212` of pz13 describes ack after processing and
`:213` the durable queue; `AcceptedIsKept` says what the two amount to.

`TaskEventsProofs` proves the five invariants (`TypeCorrect`,
`NothingAcceptedIsLost`, `AnswersTell`, `EventsAreGenuine`, `RepeatsArePaidFor`)
for any number of requests, faults, stops, restarts and any prefetch.
`EventsNameTasks` is about the ids of one process; nothing promises
that a `task_id` is not used again by the next one. It needs `MadeInv` (an event that is being made names the next task of the
process that is running) and `EventInv` (an event arrives once). `CountInv` bounds the ids of a
process by the requests that have begun. For `AcceptedIsKept`, `SessionInv` says that
a worker whose session lasts has only unacknowledged deliveries in hand, and
acknowledges only what it has logged. `BudgetInv` makes `RepeatsNeedAFault`
inductive: an event can be logged again for two reasons, that the broker will
deliver it (`Due`), or that a worker without a session still has it
(`Orphan`), and each that is open leaves a fault unspent. Model-checked only: `EveryEventIsLogged`.

## WebSession: the model of pz6

A POST is `Begin` (cookie and `store.Get`), `Check` (form, token), `Write`
(`UpdateName` or `AddComment`), `Rotate` (`RandomToken`, `UpdateCSRF`): one
action per critical section of the store. `POST /profile` and `POST /comments`
differ in what they write. The comparison of the token reads the shared profile
without the lock at the moment of `Check`; tokens have one length, so that a
racing read gives one of the two. A profile outlives its entry in the map, as
the pointer of a handler does; `Login` gives out every session id once and
every token once, as `RandomToken` does with all but no chance of a collision. `found`,
`before` and `wrote` are history. Left out: `GET /hello` and `/demo/unsafe`, which
change nothing, the texts of pages, and what html/template reads while it renders.

| Run | Instance | Shows |
|---|---|---|
| `web_session` | 2 sessions, 1 POST of a name, 2 of comments, any token seen so far; 1.5 million states under symmetry | type invariant, `OldTokenRefused`, `WritesAreEntitled`, `ForbiddenIsExplained`, `AnswersAreExplained`, `CommentsKept`, `DeletedStaysDead` |

Three POSTs are enough for two that race with one token and a third that
comes after their answers; the second session is needed for a token of another
session and for a login after a logout. That two racing POSTs with one token are
both accepted is allowed by these properties: `README.md:130` of pz6 promises a new token
after each POST, not that a token is used once. (Line 107 names the status 302; the code answers
303.)

`WebSessionProofs` proves them for any sessions and POSTs: `TypeCorrect`,
`UsedTokensRefused`, `OnlyEntitledWrite`, `ForbiddenOnlyWhenReplaced`,
`AnswersTell`, `NoCommentLost`, and the action property as `LoggedOutForGood`.
The core is `MatchInv`: the token a POST compares with is still the one its session
had when it began, unless another POST of the session was answered since
(`Replaced`), and a POST past the check presents a token that no other session has.
`TokenInv` (tokens are made once) and `HoldInv` (a held profile is of a session nobody can
log in to again) keep it; `UsedInv` says that a token used up gets no later
POST past the check.

## TaskApi: the stores of pz11 and pz12

`project` chooses the program. A request is a list of fields; a field of a
mutation starts when those before it have ended, fields of a query in any order, and
each takes the lock of the store on its own. `List` of pz12 copies under the
lock and is one step. `List` of pz11 copies pointers: `Tasks` only begins to
read, and every task is read by `ReadTitle` and `ReadDone`, which take no lock.
`Update` is two steps to them: `UpdateTask` takes the lock and writes the title
(`WriteTitle`), `UpdateRest` writes done and lets the lock go (`WriteDone`). A
reader may come in between and show the new title with the old done; a title read
while another one is written may be `Torn`. Everybody else waits for the lock. The
store that a request can have seen (`window`) counts an `Update` under way as done.
`Authorized` is the token pz11 asks for before mutations. `Bad` (a body that is not JSON, an empty title) and `StatusOf` are the
REST handlers of pz12, `DataOf` is what GraphQL makes of errors in a mutation, whose
fields are all non-null. `window` remembers the stores there were during
a request. The description of a task is left out: it is handled like `done`.

| Run | Instance | Shows |
|---|---|---|
| `task_api` | 3 clients with one of 11 requests each, on the two tasks of `store.New`; 736 518 states under symmetry | type invariant, `ReadsAreExplained`, `EffectsAreExplained`, `FieldsRunInOrder`, `StoreSteps` |

The requests are chosen so that each operation meets each other one on the same task,
with and without token, alone and after another field.

`TaskApiProofs` proves them for any clients, titles and requests the schema allows
(`Possible`): `TypeCorrect`, `ReadsAreTrue`, `EffectsAreTold`, `FieldsInOrder`, and the
action property as `StoreMovesOneTask`. `ReadsInv` says of each field what
`ReadsAreExplained` says of an answered request. `HoldInv` says it of a list that is being read: what was
read and what is left to read are together the tasks of one store of the
window, the title in hand was in the window, and what is to be read next is, in the
present store, something the window has. `LockInv`: an
`Update` between its writes is a field that may run, on a task that is there.
`DeletedInv` (what a field deleted is not live
again) with the order of mutation fields (`FieldInv`) gives `FieldsRunInOrder`.

## GqlExec: the executor generated for pz11 and pz12

`graph/generated.go` is one template written out for every type and field of
the schema. The table of the first part of the module has one operator per field
function (which type it gives, and whether its marshaler has "!") and one
per executor (which fields it counts in `out.Invalids`); the second part is the
template: `Resolve` (a field function up to its marshaler, or one element of a
list), `Complete` (the end of an executor or list marshaler), with the order of
fields and goroutines in `Before`. Of the marshalers, which the generator repeats for
every type, one of each kind is mapped. `Operations` are trees of selected fields; resolvers are free to
give a value, nil or an error, a recovered panic being an error.
pz12's file differs from pz11's in import paths only, and is not mapped again.

Left out: parsing and validation, decoding of arguments (an error like any other), the
complexity table, `@defer` (not in the schema). A panic in the goroutine of a list
element would leave an empty list; it cannot happen, as the field functions below it recover.

| Run | Instance | Shows |
|---|---|---|
| `graphql` | a query with a list of tasks and a single task, a mutation of three fields, an introspection query that reaches every object type; 22 496 states, deadlock checked | type invariant, `NullsAreExact`, `ErrorsAreReported`, `Answered` |

`NullsAreExact` compares the bottom-up counting of the code with the definition
of the GraphQL specification, stated on paths from the root. Fairness: resolvers return
and goroutines are scheduled.

`GqlExecProofs` proves the three invariants for any set of operations that are
trees valid for the schema (`IsTree`, `IsValid`; gqlparser validates every
operation before it reaches the executor): `TypeCorrect`, `NullsWhereTheyBelong`,
`ErrorsWhereTheyBelong`. `OrderInv` is the order of goroutines (a parent
ends after its children); `OutInv` is what one template does: a node is null when
its resolver gave none or when a child it counts is null. `SchemaCounts` goes through the
table of executors and shows that each counts exactly the fields with "!". The step from one node to a path from
the root is an induction on trees, done by taking the least node that
violates the claim. Model-checked only: `Answered`.

## RemoteCall: pz1, pz2, pz3 and pz7

`system` chooses the pair. `Send`, `Receive`, `GiveUp` are the caller's side of a
call, `Handle` is the peer's; `requests` and `replies` are sets, so that messages are lost, late and
reordered. `Handle` may leave a GET in place: Go's transport sends a GET again
when a kept connection turns out to be closed. `ClientCalls` are the six calls of the client of
pz2, `ScriptCalls` the two POSTs of one address in `tests.ps1` of pz3, whose curl goes on after an error.
`CreateStudent` with `Normal`, `Exists`, `Insert` is the critical section of
the repositories of pz2 and pz3, which do the same. `Restart` brings back
the initial data of the peer. Blank fields other than the email, names and
specialisations are left out, as are the endpoints that call nobody and change nothing
(`GET /students/{id}` and `/health` of pz3, `GET /orders/{id}` of pz1, …).
`README.md` of pz3 calls `X-Request-ID` a uuid; `middleware.go:28` writes the
nanoseconds of the clock.

| Run | Instance | Shows |
|---|---|---|
| `services` | 2 callers of each pair, 2 addresses typed in two ways or blank, 1 restart; 257 276 states | type invariant, `RepliesAreExplained`, `EmailsUnique`, `CreatedIsFound`, `EveryCallEnds` |

Two callers are needed for two creations of one address, a restart for an id
that is given out again; `CreatedIsFound` is stated for runs without a restart, because across
one it does not hold, and nothing in the repository says it should. Fairness: a caller
goes on and its timeout fires (3 s in pz1 and pz7, 10 s in pz2). Nothing is assumed of the
peer and the network, nor of curl, which has no timeout: `EveryCallEnds` leaves pz3 out.

`RemoteCallProofs` proves the four invariants for any callers, addresses and
number of restarts: `TypeCorrect`, `AnswersTell`, `AddressesUnique`, `ToldIsTrue`.
`CallInv`: a call under way was made by its caller and not answered before.
`AnswerInv`, `SeenInv`: every answer on its way or heard is `Right`, that is, what the
peer promises with it still holds, because students are only added (`Grows`).
`FatalInv`: the client of pz2 fails at its fourth call only. The proof found
that the last call of that client, which asks for student 999 and
expects NotFound, holds only while fewer students than that have been created; `CreatedIsFound`
says so. Model-checked only: `EveryCallEnds`.

## Not modelled

* pz4: a gauge and counters only Prometheus reads. pz5: reads of an external
  database, certificates and a redirect. pz10: stateless copies behind nginx.
  pz15, pz16, pz8: health endpoints, deployment files and pipelines.
* `student.pb.go` of pz2 (generated accessors of messages), and the parts of `generated.go`
  named above.
* Wording, logging and rendering of pages everywhere.

`PROJECT.json` gives the reason per component and names, for every hazard
without a property, why it has none.

## Running

    tlc -config JobQueue_safety.cfg MCJobQueue
    tlc -config CacheAside_safety.cfg MCCacheAside
    tlc -config TaskEvents.cfg MCTaskEvents
    tlc -config TaskEvents_strict.cfg MCTaskEvents
    tlc -config WebSession.cfg MCWebSession
    tlc -config TaskApi.cfg MCTaskApi
    tlc -config GqlExec.cfg MCGqlExec
    tlc -config RemoteCall.cfg MCRemoteCall
    tlapm JobQueueProofs.tla
    tlapm JobQueueLedger.tla
    tlapm CacheAsideProofs.tla
    tlapm TaskEventsProofs.tla
    tlapm WebSessionProofs.tla
    tlapm TaskApiProofs.tla
    tlapm GqlExecProofs.tla
    tlapm RemoteCallProofs.tla

TLC and TLAPS share the modules: no proof is about a changed model, and the
assumptions on constants are evaluated by every run.

The operators named as mutated forms in the modules (`DeliverAutoAck`,
`InvalidateTaskOnly`, …) are the slips the properties are meant to notice: each
property fails when the definition it is listed with in `PROJECT.json` is
replaced by that form.
