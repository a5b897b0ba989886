--------------------------- MODULE JobQueueLedger ---------------------------
(***************************************************************************)
(* Proofs about JobQueue, concluded: refused jobs never run, no process    *)
(* runs a job twice, every step of the queue is a step of the ledger of    *)
(* JobLedger or changes nothing in it, and publishes and faults pay for    *)
(* every execution.                                                        *)
(***************************************************************************)
EXTENDS JobQueueProofs, FiniteSetTheorems

-----------------------------------------------------------------------------
(* The inductive invariant, on top of IInv and DInv.                       *)

\* Only a POST that was answered 202 is on its way to the queue or past it,
\* and every copy anywhere is of such a job, or of no job.
AcceptedInv == \A r \in apiWire \union routed : reply[r] = "202"
KnownInv ==
    /\ \A c \in ready : c.id \in routed \union {NoId}
    /\ \A w \in Workers :
        /\ \A c \in unacked[w] \union buf[w] : c.id \in routed \union {NoId}
        /\ pc[w] \in Busy => cur[w].id \in routed

\* What was executed was queued, and a job always succeeds or always fails.
RanInv ==
    \A r \in Requests :
        /\ okRuns[r] > 0 => r \in routed \ FailJobs
        /\ badRuns[r] > 0 => r \in routed \intersect FailJobs

\* The processes that run, of which there are finitely many.
Running == {w \in Workers : pc[w] # "down"}

\* A process executes a job it does not remember, and remembers each success.
OnceInv ==
    /\ IsFiniteSet(Running)
    /\ \A w \in Workers : pc[w] = "process" => cur[w].id \notin processed[w]
    /\ \A w \in Workers : \A r \in Requests :
          /\ ownRuns[w][r] <= 1
          /\ r \notin processed[w] => ownRuns[w][r] = 0

LInv == AcceptedInv /\ KnownInv /\ RanInv /\ OnceInv
-----------------------------------------------------------------------------
(* What the groups of actions leave alone.                                 *)

ApiAction ==
    \/ \E r \in Requests : Reject(r) \/ Post(r) \/ RouteApi(r)
    \/ CutApi \/ RestartApi
WorkerAction(w) ==
    \/ \E c \in ready : Deliver(w, c)
    \/ Start(w) \/ WorkerStep(w) \/ RouteStep(w)
    \/ LoseConnection(w) \/ Crash(w) \/ Reap(w)

\* Next is made of these.
LEMMA NextSplit ==
    Next <=> ApiAction \/ ForeignPublish \/ \E w \in Workers : WorkerAction(w)
BY DEF Next, ApiAction, WorkerAction

\* Workers and their sessions do not change what the API has said or sent.
LEMMA WorkerLeavesApi ==
    ASSUME NEW w \in Workers, WorkerAction(w)
    PROVE  UNCHANGED <<apiVars, routed>>
<1>1. CASE (\E c \in ready : Deliver(w, c)) \/ Start(w)
  BY <1>1 DEF Deliver, Start
<1>2. CASE WorkerStep(w)
  BY <1>2 DEF WorkerStep, TakeMalformed, TakeDuplicate, TakeJob, ProcessOk,
              ProcessFail, Publish, Ack, Exit
<1>3. CASE RouteStep(w)
  BY <1>3 DEF RouteStep, RouteRetry, RouteBury, RouteAck, RouteNack
<1>4. CASE LoseConnection(w) \/ Crash(w) \/ Reap(w)
  BY <1>4 DEF LoseConnection, Crash, Reap
<1>. QED
  BY <1>1, <1>2, <1>3, <1>4 DEF WorkerAction

\* Only processTask executes anything.
LEMMA OnlyProcessRuns ==
    ASSUME NEW w \in Workers, WorkerAction(w), ~ProcessOk(w), ~ProcessFail(w)
    PROVE  UNCHANGED <<okRuns, badRuns>>
<1>1. CASE (\E c \in ready : Deliver(w, c)) \/ Start(w)
  BY <1>1 DEF Deliver, Start, runVars
<1>2. CASE WorkerStep(w)
  BY <1>2 DEF WorkerStep, TakeMalformed, TakeDuplicate, TakeJob, Publish, Ack, Exit, runVars
<1>3. CASE RouteStep(w)
  BY <1>3 DEF RouteStep, RouteRetry, RouteBury, RouteAck, RouteNack, runVars
<1>4. CASE LoseConnection(w) \/ Crash(w) \/ Reap(w)
  BY <1>4 DEF LoseConnection, Crash, Reap, runVars
<1>. QED
  BY <1>1, <1>2, <1>3, <1>4 DEF WorkerAction

-----------------------------------------------------------------------------
(* The induction, one lemma per part of the invariant.                     *)

\* A POST is answered once, and only a 202 puts its job on the connection.
LEMMA AcceptedNext ==
    ASSUME TypeOK, AcceptedInv, Next
    PROVE  AcceptedInv'
<1>1. ASSUME NEW r \in Requests, Reject(r) \/ Post(r) PROVE AcceptedInv'
  BY <1>1 DEF TypeOK, AcceptedInv, Reject, Post
<1>2. ASSUME NEW r \in Requests, RouteApi(r) PROVE AcceptedInv'
  BY <1>2 DEF AcceptedInv, RouteApi
<1>3. CASE CutApi \/ RestartApi
  BY <1>3 DEF AcceptedInv, CutApi, RestartApi
<1>4. CASE ForeignPublish
  BY <1>4 DEF AcceptedInv, ForeignPublish, apiVars
<1>5. ASSUME NEW w \in Workers, WorkerAction(w) PROVE AcceptedInv'
  BY <1>5, WorkerLeavesApi DEF AcceptedInv, apiVars
<1>. QED
  BY <1>1, <1>2, <1>3, <1>4, <1>5, NextSplit DEF ApiAction

\* What is executed is the job in hand, which was queued.
LEMMA RanNext ==
    ASSUME IInv, KnownInv, RanInv, Next
    PROVE  RanInv'
<1>1. CASE ApiAction \/ ForeignPublish
  <2>1. UNCHANGED runVars /\ routed \subseteq routed'
    BY <1>1 DEF ApiAction, Reject, Post, RouteApi, CutApi, RestartApi, ForeignPublish
  <2>. QED
    BY <2>1 DEF RanInv, runVars
<1>2. ASSUME NEW w \in Workers, WorkerAction(w), ~ProcessOk(w), ~ProcessFail(w)
      PROVE  RanInv'
  BY <1>2, WorkerLeavesApi, OnlyProcessRuns DEF RanInv, runVars
<1>3. ASSUME NEW w \in Workers, ProcessOk(w) PROVE RanInv'
  BY <1>3 DEF IInv, TypeOK, RanInv, ProcessOk, KnownInv, Busy
<1>4. ASSUME NEW w \in Workers, ProcessFail(w) PROVE RanInv'
  BY <1>4 DEF IInv, TypeOK, RanInv, ProcessFail, KnownInv, Busy
<1>. QED
  BY <1>1, <1>2, <1>3, <1>4, NextSplit

\* New copies are of queued jobs, and copies only move.
LEMMA KnownNext ==
    ASSUME IInv, DInv, KnownInv, Next
    PROVE  KnownInv'
<1>. USE RequestsAssumption DEF IInv
<1>1. ASSUME \/ \E r \in Requests : Reject(r) \/ Post(r)
             \/ CutApi \/ RestartApi
      PROVE  KnownInv'
  BY <1>1 DEF KnownInv, Reject, Post, CutApi, RestartApi, brokerVars, localVars
<1>2. ASSUME NEW r \in Requests, RouteApi(r) PROVE KnownInv'
  <2>1. PICK n : ready' = ready \union {n} /\ n.id = FirstBody(r).id
    BY <1>2, StoreFresh DEF RouteApi
  <2>2. n.id = r
    BY <2>1 DEF FirstBody
  <2>. QED
    BY <1>2, <2>1, <2>2 DEF KnownInv, RouteApi, localVars
<1>3. CASE ForeignPublish
  <2>1. PICK b \in {Malformed} \union {FirstBody(r) : r \in routed} : Store(b)
    BY <1>3 DEF ForeignPublish
  <2>2. PICK n : ready' = ready \union {n} /\ n.id = b.id
    BY <2>1, StoreFresh
  <2>3. n.id \in routed \union {NoId}
    BY <2>1, <2>2 DEF Malformed, FirstBody
  <2>. QED
    BY <1>3, <2>2, <2>3 DEF KnownInv, ForeignPublish, localVars
<1>4. ASSUME NEW w \in Workers, NEW c \in ready, Deliver(w, c) PROVE KnownInv'
  BY <1>4 DEF TypeOK, KnownInv, Deliver
<1>5. ASSUME NEW w \in Workers, Start(w) \/ Exit(w) \/ Crash(w) PROVE KnownInv'
  <2>1. /\ UNCHANGED <<ready, unacked, routed>>
        /\ \A v \in Workers : buf'[v] \subseteq buf[v]
        /\ \A v \in Workers : pc'[v] \in Busy => pc[v] = pc'[v] /\ cur[v] = cur'[v]
    BY <1>5 DEF TypeOK, Start, Exit, Crash, Busy, brokerVars
  <2>. QED
    BY <2>1 DEF KnownInv
<1>6. ASSUME NEW w \in Workers, TakeMalformed(w) \/ TakeDuplicate(w) \/ TakeJob(w)
      PROVE  KnownInv'
  <2>1. UNCHANGED <<ready, unacked, routed>>
    BY <1>6 DEF TakeMalformed, TakeDuplicate, TakeJob, brokerVars
  <2>2. PICK c \in buf[w] : buf' = [buf EXCEPT ![w] = @ \ {c}]
    BY <1>6 DEF TakeMalformed, TakeDuplicate, TakeJob
  <2>3. CASE TakeMalformed(w) \/ TakeDuplicate(w)
    BY <2>1, <2>2, <2>3 DEF TypeOK, KnownInv, TakeMalformed, TakeDuplicate
  <2>4. CASE TakeJob(w)
    BY <2>1, <2>4 DEF TypeOK, KnownInv, TakeJob, Busy
  <2>. QED
    BY <1>6, <2>3, <2>4
<1>7. ASSUME NEW w \in Workers, ProcessOk(w) \/ ProcessFail(w) \/ Publish(w) \/ Ack(w)
      PROVE  KnownInv'
  <2>1. /\ UNCHANGED <<ready, unacked, buf, routed>>
        /\ \A v \in Workers : pc'[v] \in Busy => pc[v] \in Busy /\ cur[v] = cur'[v]
    BY <1>7 DEF TypeOK, ProcessOk, ProcessFail, Publish, Ack, Busy, brokerVars
  <2>. QED
    BY <2>1 DEF KnownInv
<1>8. ASSUME NEW w \in Workers, RouteStep(w) PROVE KnownInv'
  <2>. DEFINE h == HeadCopy(w)
  <2>1. /\ UNCHANGED <<pc, buf, cur, routed>>
        /\ wire[w] # << >> /\ PopWire(w)
    BY <1>8 DEF RouteStep, RouteRetry, RouteBury, RouteAck, RouteNack, HeadIs, localVars
  <2>2. h \in unacked[w]
    BY <2>1, PopFacts DEF DInv, LastInv, FrameInv, HeadCopy
  <2>3. /\ \A v \in Workers : unacked'[v] \subseteq unacked[v]
        /\ \A c \in ready' \ ready : c.id = h.id
    <3>1. CASE RouteRetry(w)
      <4>1. PICK n : ready' = ready \union {n} /\ n.id = Raised(h).id
        BY <3>1, StoreFresh DEF RouteRetry
      <4>. QED
        BY <3>1, <4>1 DEF RouteRetry, Raised
    <3>2. CASE RouteBury(w)
      BY <3>2 DEF RouteBury
    <3>3. CASE RouteAck(w) \/ RouteNack(w)
      <4>1. ready' = ready /\ unacked' = [unacked EXCEPT ![w] = @ \ {h}]
        BY <3>3 DEF RouteAck, RouteNack
      <4>2. unacked \in [Workers -> SUBSET Copy]
        BY DEF TypeOK
      <4>. HIDE DEF h
      <4>. QED
        BY <4>1, <4>2
    <3>. QED
      BY <1>8, <3>1, <3>2, <3>3 DEF RouteStep
  <2>. QED
    BY <2>1, <2>2, <2>3 DEF KnownInv
<1>9. ASSUME NEW w \in Workers, LoseConnection(w) \/ Reap(w) PROVE KnownInv'
  BY <1>9 DEF TypeOK, KnownInv, LoseConnection, Reap, EndSession, localVars
<1>. QED
  BY <1>1, <1>2, <1>3, <1>4, <1>5, <1>6, <1>7, <1>8, <1>9 DEF Next, WorkerStep

\* A process that starts, ends or dies remembers nothing and has run nothing.
LEMMA ForgetOnce ==
    ASSUME IInv, OnceInv, NEW w \in Workers, Start(w) \/ Exit(w) \/ Crash(w)
    PROVE  OnceInv'
<1>. USE DEF IInv
<1>1. /\ processed' = [processed EXCEPT ![w] = {}]
      /\ ownRuns' = [ownRuns EXCEPT ![w] = [r \in Requests |-> 0]]
      /\ pc'[w] # "process" /\ \A v \in Workers : v # w => pc'[v] = pc[v] /\ cur'[v] = cur[v]
  BY DEF Start, Exit, Crash, TypeOK
<1>2. IsFiniteSet(Running')
  <2>1. Running' \subseteq Running \union {w} /\ IsFiniteSet(Running \union {w})
    BY <1>1, FS_AddElement DEF Running, OnceInv
  <2>. QED
    BY <2>1, FS_Subset
<1>3. \A v \in Workers : pc'[v] = "process" => cur'[v].id \notin processed'[v]
  BY <1>1 DEF OnceInv, TypeOK
<1>4. ASSUME NEW v \in Workers, NEW r \in Requests
      PROVE  ownRuns'[v][r] <= 1 /\ (r \notin processed'[v] => ownRuns'[v][r] = 0)
  <2>1. CASE v = w
    BY <1>1, <2>1 DEF TypeOK
  <2>2. CASE v # w
    BY <1>1, <2>2 DEF TypeOK, OnceInv
  <2>. QED
    BY <2>1, <2>2
<1>. QED
  BY <1>2, <1>3, <1>4 DEF OnceInv

\* A success is the first of its process: MarkDone comes with it.
LEMMA ProcessOnce ==
    ASSUME IInv, OnceInv, NEW w \in Workers, ProcessOk(w)
    PROVE  OnceInv'
<1>. USE DEF IInv
<1>. DEFINE j == cur[w].id
<1>1. /\ pc[w] = "process" /\ pc' = [pc EXCEPT ![w] = "ack"]
      /\ processed' = [processed EXCEPT ![w] = @ \union {j}]
      /\ ownRuns' = [ownRuns EXCEPT ![w][j] = @ + 1]
      /\ UNCHANGED cur
      /\ j \in Requests /\ j \notin processed[w]
  BY DEF ProcessOk, TypeOK, AttemptInv, Busy, OnceInv
<1>. HIDE DEF j
<1>2. Running' = Running
  BY <1>1 DEF Running, TypeOK
<1>3. \A v \in Workers : pc'[v] = "process" => cur'[v].id \notin processed'[v]
  BY <1>1 DEF OnceInv, TypeOK
<1>4. ASSUME NEW v \in Workers, NEW r \in Requests
      PROVE  ownRuns'[v][r] <= 1 /\ (r \notin processed'[v] => ownRuns'[v][r] = 0)
  <2>1. ownRuns \in [Workers -> [Requests -> Nat]]
    BY DEF TypeOK
  <2>2. CASE v = w /\ r = j
    <3>1. ownRuns[w][j] = 0 /\ ownRuns'[w][j] = ownRuns[w][j] + 1 /\ j \in processed'[w]
      BY <1>1, <2>1 DEF OnceInv, TypeOK
    <3>. QED
      BY <2>2, <3>1
  <2>3. CASE ~(v = w /\ r = j)
    <3>1. ownRuns'[v][r] = ownRuns[v][r] /\ processed[v] \subseteq processed'[v]
      BY <1>1, <2>1, <2>3 DEF TypeOK
    <3>. QED
      BY <3>1 DEF OnceInv
  <2>. QED
    BY <2>2, <2>3
<1>. QED
  BY <1>2, <1>3, <1>4 DEF OnceInv

\* No other step makes a process forget or run.
LEMMA OnceNext ==
    ASSUME IInv, OnceInv, Next
    PROVE  OnceInv'
<1>. USE DEF IInv
<1>0. ASSUME UNCHANGED <<ownRuns, processed>>, Running' \subseteq Running,
             \A w \in Workers : pc'[w] = "process" => cur'[w].id \notin processed'[w]
      PROVE  OnceInv'
  BY <1>0, FS_Subset DEF OnceInv
<1>1. CASE ApiAction \/ ForeignPublish
  <2>1. UNCHANGED <<ownRuns, pc, processed, cur>>
    BY <1>1 DEF ApiAction, Reject, Post, RouteApi, CutApi, RestartApi,
                ForeignPublish, localVars, runVars
  <2>. QED
    BY <1>0, <2>1 DEF OnceInv, Running
<1>2. ASSUME NEW w \in Workers,
             \/ \E c \in ready : Deliver(w, c)
             \/ RouteStep(w) \/ LoseConnection(w) \/ Reap(w)
             \/ TakeMalformed(w) \/ TakeDuplicate(w)
      PROVE  OnceInv'
  <2>1. UNCHANGED <<ownRuns, pc, processed, cur>>
    BY <1>2 DEF Deliver, RouteStep, RouteRetry, RouteBury, RouteAck, RouteNack,
                LoseConnection, Reap, TakeMalformed, TakeDuplicate, localVars, runVars
  <2>. QED
    BY <1>0, <2>1 DEF OnceInv, Running
<1>3. ASSUME NEW w \in Workers, TakeJob(w) PROVE OnceInv'
  BY <1>0, <1>3 DEF TakeJob, OnceInv, Running, TypeOK, runVars
<1>4. ASSUME NEW w \in Workers, ProcessFail(w) \/ Publish(w) \/ Ack(w) PROVE OnceInv'
  <2>1. /\ UNCHANGED <<ownRuns, processed>>
        /\ pc[w] # "down" /\ pc'[w] # "process"
        /\ \A v \in Workers : v # w => pc'[v] = pc[v] /\ cur'[v] = cur[v]
    BY <1>4 DEF ProcessFail, Publish, Ack, TypeOK, runVars
  <2>. QED
    BY <1>0, <2>1 DEF OnceInv, Running
<1>5. ASSUME NEW w \in Workers, Start(w) \/ Exit(w) \/ Crash(w) \/ ProcessOk(w) PROVE OnceInv'
  BY <1>5, ForgetOnce, ProcessOnce
<1>. QED
  BY <1>1, <1>2, <1>3, <1>4, <1>5, NextSplit DEF WorkerAction, WorkerStep

\* Nothing is answered, queued, executed or running at the start.
LEMMA InitLInv == Init => LInv
<1>. SUFFICES ASSUME Init PROVE LInv
  OBVIOUS
<1>1. AcceptedInv /\ KnownInv /\ RanInv
  BY DEF Init, AcceptedInv, KnownInv, RanInv, Busy
<1>2. Running = {}
  BY DEF Init, Running
<1>3. IsFiniteSet(Running)
  BY <1>2, FS_EmptySet
<1>4. OnceInv
  BY <1>3 DEF Init, OnceInv
<1>. QED
  BY <1>1, <1>4 DEF LInv

\* Every step keeps the invariant.
LEMMA NextLInv == IInv /\ DInv /\ LInv /\ [Next]_vars => LInv'
<1>. SUFFICES ASSUME IInv, DInv, LInv, [Next]_vars PROVE LInv'
  OBVIOUS
<1>1. CASE Next
  BY <1>1, AcceptedNext, KnownNext, RanNext, OnceNext DEF LInv, IInv
<1>2. CASE UNCHANGED vars
  <2>. UNCHANGED <<apiVars, brokerVars, localVars, wire, routed, runVars, envVars>>
    BY <1>2 DEF vars
  <2>1. AcceptedInv' /\ KnownInv' /\ RanInv'
    BY DEF LInv, AcceptedInv, KnownInv, RanInv, apiVars, brokerVars, localVars, runVars
  <2>2. OnceInv'
    BY DEF LInv, OnceInv, Running, localVars, runVars
  <2>. QED
    BY <2>1, <2>2 DEF LInv
<1>. QED
  BY <1>1, <1>2

\* It holds in every behaviour.
LEMMA LInvHolds == Spec => []LInv
BY InitLInv, NextLInv, IInvHolds, DInvHolds, PTL DEF Spec

-----------------------------------------------------------------------------
(* The queue implements the ledger.                                        *)

\* The broker has a copy of x.
Held(x) ==
    \/ \E c \in ready : c.id = x
    \/ \E w \in Workers : \E c \in unacked[w] : c.id = x

\* PendingIds, member by member, before and after a step.
LEMMA PendingAre ==
    /\ \A x : x \in PendingIds <=> x # NoId /\ Held(x)
    /\ \A x : x \in PendingIds' <=> x # NoId /\ Held(x)'
BY DEF PendingIds, InBroker, Held

\* Pending jobs were queued; a job is not both executed and dead.
LEMMA LedgerSets ==
    ASSUME IInv, LInv
    PROVE  /\ PendingIds \subseteq routed /\ routed \subseteq Requests
           /\ DoneIds \intersect DeadIds = {}
           /\ DoneIds \subseteq routed \ FailJobs
           /\ DeadIds \subseteq FailJobs
<1>1. PendingIds \subseteq routed
  BY PendingAre DEF LInv, KnownInv, Held
<1>2. DoneIds \subseteq routed \ FailJobs
  BY DEF LInv, RanInv, DoneIds
<1>3. DeadIds \subseteq FailJobs
  <2>. SUFFICES ASSUME NEW b \in dlq, b.id # NoId PROVE b.id \in FailJobs
    BY DEF DeadIds
  <2>1. b.id \in Requests /\ badRuns[b.id] >= MaxAttempts
    BY DEF IInv, AttemptInv, SoundBody, Body
  <2>2. badRuns[b.id] > 0
    BY <2>1, LimitsAssumption DEF IInv, TypeOK
  <2>. QED
    BY <2>1, <2>2 DEF LInv, RanInv
<1>. QED
  BY <1>1, <1>2, <1>3 DEF IInv, TypeOK

\* A step that neither moves a job into or out of the broker nor ends one.
LEMMA NothingHappens ==
    ASSUME UNCHANGED <<routed, okRuns, dlq>>, \A x : Held(x)' <=> Held(x)
    PROVE  UNCHANGED Ledger!ledger
<1>1. PendingIds' = PendingIds
  BY PendingAre
<1>. QED
  BY <1>1 DEF Ledger!ledger, DoneIds, DeadIds

\* The API queues a job, or somebody queues a copy of one again.
LEMMA EntersLedger ==
    ASSUME IInv, LInv, NEW r \in Requests,
           \A x : Held(x)' <=> Held(x) \/ x = r,
           \/ routed' = routed \union {r}
           \/ routed' = routed /\ r \in routed,
           UNCHANGED <<okRuns, dlq>>
    PROVE  Ledger!Next
<1>1. PendingIds' = PendingIds \union {r}
  BY PendingAre, RequestsAssumption
<1>2. DoneIds' = DoneIds /\ DeadIds' = DeadIds
  BY DEF DoneIds, DeadIds
<1>3. Ledger!Enqueue(r) \/ Ledger!Reenter(r)
  BY <1>1, <1>2 DEF Ledger!Enqueue, Ledger!Reenter
<1>. QED
  BY <1>3 DEF Ledger!Next

\* A success: the job had not been given up, and the broker still has it, even
\* if the session the worker took it from is gone.
LEMMA CompletesLedger ==
    ASSUME IInv, DInv, LInv, NEW w \in Workers, ProcessOk(w)
    PROVE  [Ledger!Next]_(Ledger!ledger)
<1>. DEFINE j == cur[w].id
<1>1. /\ j \in Requests /\ j \in routed /\ j \notin FailJobs
      /\ okRuns' = [okRuns EXCEPT ![j] = @ + 1]
      /\ UNCHANGED <<ready, unacked, dlq, routed>>
  BY DEF ProcessOk, IInv, AttemptInv, LInv, KnownInv, Busy, brokerVars
<1>2. DoneIds' = DoneIds \union {j}
  BY <1>1 DEF IInv, TypeOK, DoneIds
<1>3. PendingIds' = PendingIds /\ DeadIds' = DeadIds
  BY <1>1 DEF PendingIds, InBroker, DeadIds
<1>4. j \notin DeadIds
  BY <1>1, LedgerSets
<1>5. CASE j \in DoneIds
  BY <1>1, <1>2, <1>3, <1>5 DEF Ledger!ledger
<1>6. CASE j \notin DoneIds
  <2>1. j \in PendingIds
    BY <1>1, <1>4, <1>6, SafeIsAccounted DEF NoJobLost
  <2>2. Ledger!Complete(j)
    BY <1>1, <1>2, <1>3, <1>4, <2>1 DEF Ledger!Complete
  <2>. QED
    BY <1>1, <2>2 DEF Ledger!Next
<1>. QED
  BY <1>5, <1>6

\* The broker handles a frame: a retry keeps the job pending, a burial ends a
\* job that never succeeded, and an acknowledgement retires the last copy of a
\* job only when the job is settled.
LEMMA RoutesLedger ==
    ASSUME IInv, DInv, LInv, NEW w \in Workers, RouteStep(w), NoJobLost'
    PROVE  [Ledger!Next]_(Ledger!ledger)
<1>. DEFINE f == Head(wire[w])
            h == HeadCopy(w)
<1>0. /\ wire[w] # << >> /\ PopWire(w) /\ UNCHANGED <<routed, okRuns>>
  BY DEF RouteStep, RouteRetry, RouteBury, RouteAck, RouteNack, HeadIs, runVars
<1>1. /\ f \in SoundFrame /\ h = f.copy
      /\ h \in unacked[w] /\ Held(h.id) /\ h.id \in routed \union {NoId}
  <2>1. f \in SoundFrame
    BY <1>0, PopIn DEF IInv, AttemptInv
  <2>2. h = f.copy /\ h \in unacked[w]
    BY <1>0, PopFacts DEF IInv, DInv, LastInv, FrameInv, HeadCopy
  <2>. QED
    BY <2>1, <2>2 DEF Held, LInv, KnownInv
<1>2. DoneIds' = DoneIds
  BY <1>0 DEF DoneIds
<1>. HIDE DEF f, h
<1>3. CASE RouteRetry(w)
  <2>1. PICK n : ready' = ready \union {n} /\ n.id = Raised(h).id
    BY <1>3, StoreFresh DEF RouteRetry, h
  <2>2. n.id = h.id
    BY <2>1 DEF Raised
  <2>3. \A x : Held(x)' <=> Held(x)
    BY <1>1, <1>3, <2>1, <2>2 DEF RouteRetry, Held
  <2>. QED
    BY <1>0, <1>3, <2>3, NothingHappens DEF RouteRetry
<1>4. CASE RouteBury(w)
  <2>1. f.kind = "bury" /\ dlq' = dlq \union {Raised(h)}
    BY <1>4 DEF RouteBury, HeadIs, f, h
  <2>2. h.id \in Requests /\ badRuns[h.id] >= h.attempt /\ h.attempt + 1 > MaxAttempts
    BY <1>1, <2>1, LimitsAssumption DEF SoundFrame, Spent, CanRetry, Raised, Copy
  <2>3. badRuns[h.id] > 0
    BY <1>1, <2>2, LimitsAssumption DEF IInv, TypeOK, SoundFrame, Spent, Copy
  <2>4. h.id \in FailJobs /\ h.id \notin DoneIds
    BY <2>2, <2>3, LedgerSets DEF LInv, RanInv
  <2>5. DeadIds' = DeadIds \union {h.id}
    <3>1. Raised(h).id = h.id /\ h.id # NoId
      BY <2>2, RequestsAssumption DEF Raised
    <3>2. {b.id : b \in dlq'} = {b.id : b \in dlq} \union {h.id}
      BY <2>1, <3>1
    <3>. QED
      BY <3>1, <3>2 DEF DeadIds
  <2>6. PendingIds' = PendingIds
    BY <1>4 DEF RouteBury, PendingIds, InBroker
  <2>7. h.id \in PendingIds
    BY <1>1, <2>2, PendingAre, RequestsAssumption
  <2>8. Ledger!Bury(h.id)
    BY <1>0, <1>2, <2>4, <2>5, <2>6, <2>7 DEF Ledger!Bury
  <2>. QED
    BY <2>2, <2>8 DEF Ledger!Next
<1>5. CASE RouteAck(w)
  <2>0. PICK j : j = h.id
    OBVIOUS
  <2>1. /\ unacked' = [unacked EXCEPT ![w] = @ \ {h}]
        /\ UNCHANGED <<ready, dlq>>
    BY <1>5 DEF RouteAck, h
  <2>2. \A x : x # j => (Held(x)' <=> Held(x))
    BY <2>0, <2>1 DEF Held, IInv, TypeOK
  <2>3. CASE Held(j)'
    <3>1. \A x : Held(x)' <=> Held(x)
      <4>. SUFFICES ASSUME NEW x PROVE Held(x)' <=> Held(x)
        OBVIOUS
      <4>1. CASE x = j
        BY <1>1, <2>0, <2>3, <4>1
      <4>2. CASE x # j
        BY <2>2, <4>2
      <4>. QED
        BY <4>1, <4>2
    <3>. QED
      BY <1>0, <2>1, <3>1, NothingHappens
  <2>4. CASE ~Held(j)' /\ j = NoId
    <3>1. PendingIds' = PendingIds
      BY <2>2, <2>4, PendingAre
    <3>. QED
      BY <1>0, <1>2, <2>1, <3>1 DEF Ledger!ledger, DeadIds
  <2>5. CASE ~Held(j)' /\ j # NoId
    <3>1. PendingIds' = PendingIds \ {j} /\ j \in PendingIds
      <4>1. j \in PendingIds /\ j \notin PendingIds'
        BY <1>1, <2>0, <2>5, PendingAre
      <4>2. ASSUME NEW x, x # j PROVE x \in PendingIds' <=> x \in PendingIds
        BY <2>2, <4>2, PendingAre
      <4>. QED
        BY <4>1, <4>2
    <3>2. DeadIds' = DeadIds
      BY <2>1 DEF DeadIds
    <3>3. j \in routed /\ j \in Requests
      BY <1>1, <2>0, <2>5 DEF IInv, TypeOK
    <3>4. j \in DoneIds \union DeadIds
      BY <1>0, <1>2, <3>1, <3>2, <3>3 DEF NoJobLost
    <3>5. Ledger!Retire(j)
      BY <1>0, <1>2, <3>1, <3>2, <3>4 DEF Ledger!Retire
    <3>. QED
      BY <3>3, <3>5 DEF Ledger!Next
  <2>. QED
    BY <2>3, <2>4, <2>5
<1>6. CASE RouteNack(w)
  <2>1. /\ unacked' = [unacked EXCEPT ![w] = @ \ {h}] /\ ready' = ready
        /\ dlq' = dlq \union {BodyOf(h)} /\ f.kind = "nack"
    BY <1>6 DEF RouteNack, HeadIs, f, h
  <2>2. h.id = NoId /\ BodyOf(h).id = NoId
    BY <1>1, <2>1 DEF SoundFrame, BodyOf
  <2>3. \A x : x # NoId => (Held(x)' <=> Held(x))
    BY <2>1, <2>2 DEF Held, IInv, TypeOK
  <2>4. PendingIds' = PendingIds
    BY <2>3, PendingAre
  <2>5. DeadIds' = DeadIds
    BY <2>1, <2>2 DEF DeadIds
  <2>. QED
    BY <1>0, <1>2, <2>4, <2>5 DEF Ledger!ledger
<1>. QED
  BY <1>3, <1>4, <1>5, <1>6 DEF RouteStep

\* A step of the queue is a step of the ledger, or nothing happens in it.
LEMMA StepIsLedgerStep ==
    ASSUME IInv, DInv, LInv, [Next]_vars, NoJobLost'
    PROVE  [Ledger!Next]_(Ledger!ledger)
<1>1. ASSUME NEW r \in Requests, RouteApi(r)
      PROVE  [Ledger!Next]_(Ledger!ledger)
  <2>1. PICK n : ready' = ready \union {n} /\ n.id = FirstBody(r).id
    BY <1>1, StoreFresh DEF RouteApi
  <2>2. n.id = r
    BY <2>1 DEF FirstBody
  <2>3. UNCHANGED <<unacked, okRuns, dlq>> /\ routed' = routed \union {r}
    BY <1>1 DEF RouteApi, runVars
  <2>4. \A x : Held(x)' <=> Held(x) \/ x = r
    BY <2>1, <2>2, <2>3 DEF Held
  <2>. QED
    BY <2>3, <2>4, EntersLedger
<1>2. CASE ForeignPublish
  <2>1. PICK b \in {Malformed} \union {FirstBody(r) : r \in routed} : Store(b)
    BY <1>2 DEF ForeignPublish
  <2>2. PICK n : ready' = ready \union {n} /\ n.id = b.id
    BY <2>1, StoreFresh
  <2>3. UNCHANGED <<unacked, okRuns, dlq, routed>>
    BY <1>2 DEF ForeignPublish, runVars
  <2>4. \A x : Held(x)' <=> Held(x) \/ x = n.id
    BY <2>2, <2>3 DEF Held
  <2>5. CASE n.id = NoId
    <3>1. PendingIds' = PendingIds
      BY <2>4, <2>5, PendingAre
    <3>. QED
      BY <2>3, <3>1 DEF Ledger!ledger, DoneIds, DeadIds
  <2>6. CASE n.id # NoId
    <3>1. n.id \in routed /\ n.id \in Requests
      BY <2>1, <2>2, <2>6 DEF Malformed, FirstBody, IInv, TypeOK
    <3>. QED
      BY <2>3, <2>4, <3>1, EntersLedger
  <2>. QED
    BY <2>5, <2>6
<1>3. ASSUME NEW w \in Workers,
             (\E c \in ready : Deliver(w, c)) \/ LoseConnection(w) \/ Reap(w)
      PROVE  UNCHANGED Ledger!ledger
  <2>1. UNCHANGED <<routed, okRuns, dlq>>
    BY <1>3 DEF Deliver, LoseConnection, Reap, runVars
  <2>2. \A x : Held(x)' <=> Held(x)
    <3>1. ASSUME NEW c \in ready, Deliver(w, c) PROVE \A x : Held(x)' <=> Held(x)
      BY <3>1 DEF Deliver, Held, IInv, TypeOK
    <3>2. CASE LoseConnection(w) \/ Reap(w)
      BY <3>2 DEF LoseConnection, Reap, EndSession, Held, IInv, TypeOK
    <3>. QED
      BY <1>3, <3>1, <3>2
  <2>. QED
    BY <2>1, <2>2, NothingHappens
<1>4. ASSUME \/ \E r \in Requests : Reject(r) \/ Post(r)
             \/ CutApi \/ RestartApi
             \/ \E w \in Workers :
                  \/ Start(w) \/ Exit(w) \/ Crash(w)
                  \/ TakeMalformed(w) \/ TakeDuplicate(w) \/ TakeJob(w)
                  \/ ProcessFail(w) \/ Publish(w) \/ Ack(w)
             \/ UNCHANGED vars
      PROVE  UNCHANGED Ledger!ledger
  <2>1. UNCHANGED <<ready, unacked, routed, okRuns, dlq>>
    BY <1>4 DEF Reject, Post, CutApi, RestartApi, Start, Exit, Crash, TakeMalformed,
                TakeDuplicate, TakeJob, ProcessFail, Publish, Ack, vars, brokerVars,
                runVars
  <2>. QED
    BY <2>1, NothingHappens DEF Held
<1>5. ASSUME NEW w \in Workers, ProcessOk(w) \/ RouteStep(w)
      PROVE  [Ledger!Next]_(Ledger!ledger)
  BY <1>5, CompletesLedger, RoutesLedger
<1>. QED
  BY <1>1, <1>2, <1>3, <1>4, <1>5 DEF Next, WorkerStep

-----------------------------------------------------------------------------
(* What the induction gives.                                               *)

\* RefusedNeverRuns: a job whose POST was answered 4xx or 500 is not executed,
\* whatever connections break.
THEOREM NoRunWithout202 == Spec => []RefusedNeverRuns
<1>1. IInv /\ LInv => RefusedNeverRuns
  <2>. SUFFICES ASSUME IInv, LInv, NEW r \in Requests, reply[r] \in {"4xx", "500"}
                PROVE  okRuns[r] + badRuns[r] = 0
    BY DEF RefusedNeverRuns
  <2>1. r \notin routed
    BY DEF LInv, AcceptedInv
  <2>2. okRuns[r] \in Nat /\ badRuns[r] \in Nat /\ ~(okRuns[r] > 0) /\ ~(badRuns[r] > 0)
    BY <2>1 DEF IInv, TypeOK, LInv, RanInv
  <2>. QED
    BY <2>2
<1>. QED
  BY <1>1, IInvHolds, LInvHolds, PTL

\* OncePerProcess: no process executes a job twice with success, whatever the
\* broker redelivers and whoever publishes it again (ProcessedStore).
THEOREM NoProcessRepeats == Spec => []OncePerProcess
<1>1. LInv => OncePerProcess
  BY DEF LInv, OnceInv, OncePerProcess
<1>. QED
  BY <1>1, LInvHolds, PTL

\* LedgerSpec: the queue implements the ledger; seen from outside, jobs are
\* queued, completed or buried but never both, and forgotten only then.
THEOREM QueueImplementsLedger == Spec => LedgerSpec
<1>1. Init => Ledger!Init
  BY DEF Init, Ledger!Init, PendingIds, InBroker, DoneIds, DeadIds
<1>2. IInv /\ DInv /\ LInv /\ NoJobLost' /\ [Next]_vars => [Ledger!Next]_(Ledger!ledger)
  BY StepIsLedgerStep
<1>. QED
  BY <1>1, <1>2, IInvHolds, DInvHolds, LInvHolds, NothingLost, PTL
     DEF Spec, LedgerSpec, Ledger!Spec

-----------------------------------------------------------------------------
(* The budgets of executions: what each copy in the broker still stands    *)
(* for, and the inductive invariant that counts it.                        *)

\* A delivery the worker executes, and one it is through with: executed or
\* skipped, the acknowledgement still to come.
InHand(w, c) == pc[w] = "process" /\ cur[w] = c
Used(w, r) ==
    /\ session[w] /\ pc[w] # "down"
    /\ \E c \in unacked[w] \ buf[w] : c.id = r /\ ~InHand(w, c)
UsedBy(r) == {w \in Workers : Used(w, r)}

\* The copies of r, and the processes that may still execute a copy of which
\* the broker has taken back its own.
CopiesOf(r) == {c \in InBroker : c.id = r}
Detached(r) == {w \in Running : ~session[w] /\ r \notin processed[w]}

\* A delivery not yet tried, and one whose failure is on its way to the broker.
UntriedAt(w, c) == c \in unacked[w] /\ (c \in buf[w] \/ InHand(w, c))
Untried(c) == c \in ready \/ \E w \in Workers : UntriedAt(w, c)
PublishingAt(w, c) == (pc[w] = "publish" /\ cur[w] = c) \/ Succeeded(w, c)
Publishing(c) == \E w \in Workers : PublishingAt(w, c)

\* The attempts a copy of r still stands for.
Attempts(r) ==
    {t \in CopiesOf(r) \X (1 .. MaxAttempts) :
        \/ t[2] >= t[1].attempt /\ Untried(t[1])
        \/ t[2] > t[1].attempt /\ Publishing(t[1])}

\* What the two budgets need to know of copies, frames and sessions.
CopyInv ==
    /\ IsFiniteSet(InBroker)
    /\ \A c \in InBroker : c.id # NoId => c.attempt >= 1
    /\ apiWire \intersect routed = {}
OnePublish(s) ==
    \A i, j \in 1 .. Len(s) :
        s[i].kind \in Publishes /\ s[j].kind \in Publishes /\ s[i].copy = s[j].copy
            => i = j
WireInv == \A w \in Workers : OnePublish(wire[w])
UsedInv ==
    \A w \in Workers : \A r \in Requests \ FailJobs : Used(w, r) => r \in processed[w]
QuietInv == faults = 0 => \A w \in Workers : session[w] <=> pc[w] # "down"

\* Successes: every publish and every fault pays for one.
OkAt(r) ==
    okRuns[r] + Cardinality(CopiesOf(r)) + Cardinality(Detached(r))
            + (IF r \in routed THEN 0 ELSE 1)
        <= 1 + foreign + faults + Cardinality(UsedBy(r))
OkInv == \A r \in Requests \ FailJobs : OkAt(r)

\* Failures, while there are no faults: every publish pays for MaxAttempts.
BadAt(r) ==
    badRuns[r] + Cardinality(Attempts(r)) + (IF r \in routed THEN 0 ELSE MaxAttempts)
        <= MaxAttempts * (1 + foreign)
BadInv == faults = 0 => \A r \in FailJobs : BadAt(r)

BInv == CopyInv /\ WireInv /\ UsedInv /\ QuietInv /\ OkInv /\ BadInv

-----------------------------------------------------------------------------
(* What the steps do to the copies in the broker.                          *)

\* A stored message is one copy more.
LEMMA StoreOne ==
    ASSUME NEW b, Store(b), UNCHANGED unacked
    PROVE  \E n : /\ n.id = b.id /\ n.attempt = b.attempt
                  /\ n \notin InBroker /\ InBroker' = InBroker \union {n}
                  /\ ready' = ready \union {n}
<1>1. PICK t \in Tags :
          /\ FreshTag(t)
          /\ ready' = ready \union {[tag |-> t, id |-> b.id, attempt |-> b.attempt]}
  BY DEF Store
<1>. DEFINE n == [tag |-> t, id |-> b.id, attempt |-> b.attempt]
<1>2. n.tag = t /\ n.id = b.id /\ n.attempt = b.attempt
  OBVIOUS
<1>3. ready' = ready \union {n}
  BY <1>1
<1>. HIDE DEF n
<1>4. n \notin ready /\ \A w \in Workers : n \notin unacked[w]
  BY <1>1, <1>2 DEF FreshTag, InUse
<1>5. n \notin InBroker
  BY <1>4 DEF InBroker
<1>6. InBroker' = InBroker \union {n}
  BY <1>3 DEF InBroker
<1>. QED
  BY <1>2, <1>3, <1>5, <1>6

\* Deliveries and ended sessions only move copies.
LEMMA CopiesMove ==
    ASSUME TypeOK, NEW w \in Workers,
           (\E c \in ready : Deliver(w, c)) \/ LoseConnection(w) \/ Reap(w)
    PROVE  InBroker' = InBroker
<1>1. ASSUME NEW c \in ready, Deliver(w, c) PROVE InBroker' = InBroker
  <2>1. /\ ready' = ready \ {c} /\ unacked'[w] = unacked[w] \union {c}
        /\ \A v \in Workers : v # w => unacked'[v] = unacked[v]
    BY <1>1 DEF Deliver, TypeOK
  <2>. QED
    BY <2>1 DEF InBroker
<1>2. CASE LoseConnection(w) \/ Reap(w)
  <2>1. /\ ready' = ready \union unacked[w] /\ unacked'[w] = {}
        /\ \A v \in Workers : v # w => unacked'[v] = unacked[v]
    BY <1>2 DEF LoseConnection, Reap, EndSession, TypeOK
  <2>. QED
    BY <2>1 DEF InBroker
<1>. QED
  BY <1>1, <1>2

\* An answered delivery leaves the broker.
LEMMA AnsweredLeaves ==
    ASSUME IInv, DInv, NEW w \in Workers, RouteAck(w) \/ RouteNack(w)
    PROVE  /\ HeadCopy(w) \in unacked[w]
           /\ InBroker' = InBroker \ {HeadCopy(w)}
<1>. DEFINE h == HeadCopy(w)
<1>1. /\ wire[w] # << >> /\ PopWire(w) /\ ready' = ready
      /\ unacked' = [unacked EXCEPT ![w] = @ \ {h}]
  BY DEF RouteAck, RouteNack, HeadIs
<1>2. h \in unacked[w]
  BY <1>1, PopFacts DEF IInv, DInv, LastInv, FrameInv, HeadCopy
<1>. HIDE DEF h
<1>3. h \notin ready /\ \A v \in Workers : v # w => h \notin unacked[v]
  BY <1>2 DEF DInv, PlaceInv
<1>4. /\ unacked'[w] = unacked[w] \ {h}
      /\ \A v \in Workers : v # w => unacked'[v] = unacked[v]
  BY <1>1 DEF IInv, TypeOK
<1>5. InBroker' = InBroker \ {h}
  BY <1>1, <1>3, <1>4 DEF InBroker
<1>. QED
  BY <1>2, <1>5 DEF h

\* The other steps of a worker and its session, but for the retry, leave the
\* broker's copies where they are.
LEMMA CopiesStay ==
    ASSUME NEW w \in Workers,
           Start(w) \/ WorkerStep(w) \/ RouteBury(w) \/ Crash(w)
    PROVE  UNCHANGED <<ready, unacked>> /\ InBroker' = InBroker
<1>1. UNCHANGED <<ready, unacked>>
  <2>1. CASE WorkerStep(w)
    BY <2>1 DEF WorkerStep, TakeMalformed, TakeDuplicate, TakeJob, ProcessOk,
                ProcessFail, Publish, Ack, Exit, brokerVars
  <2>2. CASE Start(w) \/ RouteBury(w) \/ Crash(w)
    BY <2>2 DEF Start, RouteBury, Crash, brokerVars
  <2>. QED
    BY <2>1, <2>2
<1>. QED
  BY <1>1 DEF InBroker

\* The frame that the broker takes is about a delivery it waits for.
LEMMA HeadIsHeld ==
    ASSUME IInv, DInv, NEW w \in Workers, RouteStep(w)
    PROVE  /\ wire[w] # << >> /\ PopWire(w)
           /\ Head(wire[w]) \in InWire(wire[w]) /\ Head(wire[w]) \in SoundFrame
           /\ HeadCopy(w) = Head(wire[w]).copy
           /\ HeadCopy(w) \in unacked[w] \ buf[w]
           /\ HeadCopy(w) \in InBroker /\ HeadCopy(w) \in Copy
           /\ ~InHand(w, HeadCopy(w))
<1>1. wire[w] # << >> /\ PopWire(w)
  BY DEF RouteStep, RouteRetry, RouteBury, RouteAck, RouteNack, HeadIs
<1>2. /\ Head(wire[w]) \in InWire(wire[w])
      /\ HeadCopy(w) = Head(wire[w]).copy
      /\ HeadCopy(w) \in unacked[w] \ buf[w]
  BY <1>1, PopFacts DEF IInv, DInv, LastInv, FrameInv, HeadCopy
<1>3. Head(wire[w]) \in SoundFrame
  BY <1>1, PopIn DEF IInv, AttemptInv
<1>4. HeadCopy(w) \in InBroker /\ HeadCopy(w) \in Copy
  BY <1>2 DEF InBroker, IInv, TypeOK
<1>5. ~InHand(w, HeadCopy(w))
  BY <1>2 DEF DInv, FrameInv, InHand, Busy
<1>. QED
  BY <1>1, <1>2, <1>3, <1>4, <1>5

\* New copies are first attempts, retries of real ones, or no job's.
LEMMA CopyNext ==
    ASSUME IInv, DInv, LInv, CopyInv, Next
    PROVE  CopyInv'
<1>0. ASSUME NEW n, InBroker' \subseteq InBroker \union {n},
             n.id # NoId => n.attempt >= 1
      PROVE  /\ IsFiniteSet(InBroker)'
             /\ \A c \in InBroker' : c.id # NoId => c.attempt >= 1
  <2>1. IsFiniteSet(InBroker \union {n})
    BY FS_AddElement DEF CopyInv
  <2>2. IsFiniteSet(InBroker')
    BY <1>0, <2>1, FS_Subset
  <2>. QED
    BY <1>0, <2>2 DEF CopyInv
<1>00. ASSUME InBroker' \subseteq InBroker
       PROVE  /\ IsFiniteSet(InBroker)'
              /\ \A c \in InBroker' : c.id # NoId => c.attempt >= 1
  BY <1>00, FS_Subset DEF CopyInv
<1>1. ASSUME \/ \E r \in Requests : Reject(r) \/ Post(r)
             \/ CutApi \/ RestartApi
      PROVE  CopyInv'
  <2>1. UNCHANGED <<ready, unacked, routed>>
    BY <1>1 DEF Reject, Post, CutApi, RestartApi, brokerVars
  <2>2. apiWire' \subseteq apiWire \union {r \in Requests : reply[r] = "none"}
    BY <1>1 DEF Reject, Post, CutApi, RestartApi
  <2>3. apiWire' \intersect routed' = {}
    BY <2>1, <2>2 DEF CopyInv, LInv, AcceptedInv
  <2>. QED
    BY <2>1, <2>3 DEF CopyInv, InBroker
<1>2. ASSUME NEW r \in Requests, RouteApi(r) PROVE CopyInv'
  <2>1. PICK n : /\ n.id = FirstBody(r).id /\ n.attempt = FirstBody(r).attempt
                 /\ InBroker' = InBroker \union {n}
    BY <1>2, StoreOne DEF RouteApi
  <2>2. n.attempt >= 1
    BY <2>1 DEF FirstBody
  <2>3. apiWire' \intersect routed' = {}
    BY <1>2 DEF RouteApi, CopyInv
  <2>. QED
    BY <1>0, <2>1, <2>2, <2>3 DEF CopyInv
<1>3. CASE ForeignPublish
  <2>1. PICK b \in {Malformed} \union {FirstBody(r) : r \in routed} : Store(b)
    BY <1>3 DEF ForeignPublish
  <2>2. PICK n : /\ n.id = b.id /\ n.attempt = b.attempt
                 /\ InBroker' = InBroker \union {n}
    BY <1>3, <2>1, StoreOne DEF ForeignPublish
  <2>3. n.id # NoId => n.attempt >= 1
    BY <2>1, <2>2 DEF Malformed, FirstBody
  <2>4. apiWire' \intersect routed' = {}
    BY <1>3 DEF ForeignPublish, CopyInv, apiVars
  <2>. QED
    BY <1>0, <2>2, <2>3, <2>4 DEF CopyInv
<1>4. ASSUME NEW w \in Workers, WorkerAction(w) PROVE CopyInv'
  <2>1. apiWire' \intersect routed' = {}
    BY <1>4, WorkerLeavesApi DEF CopyInv, apiVars
  <2>2. CASE RouteRetry(w)
    <3>1. PICK n : /\ n.id = Raised(HeadCopy(w)).id
                   /\ n.attempt = Raised(HeadCopy(w)).attempt
                   /\ InBroker' = InBroker \union {n}
      BY <2>2, StoreOne DEF RouteRetry
    <3>2. HeadCopy(w) \in Copy
      BY <2>2, HeadIsHeld DEF RouteStep
    <3>3. n.attempt >= 1
      BY <3>1, <3>2, LimitsAssumption DEF Raised, Copy
    <3>. QED
      BY <1>0, <2>1, <3>1, <3>3 DEF CopyInv
  <2>3. CASE ~RouteRetry(w)
    <3>1. InBroker' \subseteq InBroker
      BY <1>4, <2>3, CopiesMove, CopiesStay, AnsweredLeaves
         DEF WorkerAction, RouteStep, IInv
    <3>. QED
      BY <1>00, <2>1, <3>1 DEF CopyInv
  <2>. QED
    BY <2>2, <2>3
<1>. QED
  BY <1>1, <1>2, <1>3, <1>4, NextSplit DEF ApiAction

-----------------------------------------------------------------------------
(* What the steps do to workers and their sessions.                        *)

\* A worker and its session do not touch those of the others.
LEMMA OthersStand ==
    ASSUME TypeOK, NEW w \in Workers, WorkerAction(w), NEW v \in Workers, v # w
    PROVE  /\ pc'[v] = pc[v] /\ cur'[v] = cur[v] /\ buf'[v] = buf[v]
           /\ processed'[v] = processed[v] /\ wire'[v] = wire[v]
           /\ session'[v] = session[v] /\ unacked'[v] = unacked[v]
<1>1. CASE (\E c \in ready : Deliver(w, c)) \/ Start(w)
  BY <1>1 DEF TypeOK, Deliver, Start
<1>2. CASE WorkerStep(w)
  BY <1>2 DEF TypeOK, WorkerStep, TakeMalformed, TakeDuplicate, TakeJob, ProcessOk,
              ProcessFail, Publish, Ack, Exit, Send, brokerVars
<1>3. CASE RouteStep(w)
  BY <1>3 DEF TypeOK, RouteStep, RouteRetry, RouteBury, RouteAck, RouteNack, PopWire,
              localVars
<1>4. CASE LoseConnection(w) \/ Crash(w) \/ Reap(w)
  BY <1>4 DEF TypeOK, LoseConnection, Crash, Reap, EndSession, brokerVars, localVars
<1>. QED
  BY <1>1, <1>2, <1>3, <1>4 DEF WorkerAction

\* What is not a worker's or its session's step leaves them all alone.
LEMMA AllStand ==
    ASSUME ApiAction \/ ForeignPublish
    PROVE  UNCHANGED <<pc, cur, buf, processed, wire, session, unacked>>
BY DEF ApiAction, Reject, Post, RouteApi, CutApi, RestartApi, ForeignPublish,
       brokerVars, localVars

\* Only a worker in its loop writes frames, and only Publish writes a publish.
LEMMA WireGrows ==
    ASSUME IInv, NEW w \in Workers, WorkerAction(w)
    PROVE  \/ wire'[w] = wire[w]
           \/ wire'[w] = << >>
           \/ wire[w] # << >> /\ wire'[w] = Tail(wire[w])
           \/ \E f \in Frame :
                /\ wire'[w] = Append(wire[w], f)
                /\ f.kind \in Publishes => pc[w] = "publish" /\ f.copy = cur[w]
<1>. TypeOK
  BY DEF IInv
<1>1. CASE \/ \E c \in ready : Deliver(w, c)
           \/ Start(w) \/ Crash(w) \/ TakeJob(w) \/ ProcessOk(w) \/ ProcessFail(w)
           \/ Exit(w)
  BY <1>1 DEF Deliver, Start, Crash, TakeJob, ProcessOk, ProcessFail, Exit
<1>2. CASE RouteStep(w)
  BY <1>2 DEF TypeOK, RouteStep, RouteRetry, RouteBury, RouteAck, RouteNack, PopWire,
              HeadIs
<1>3. CASE LoseConnection(w) \/ Reap(w)
  BY <1>3 DEF TypeOK, LoseConnection, Reap, EndSession
<1>4. ASSUME NEW c \in Copy, NEW k \in {"retry", "bury", "ack", "nack"}, Send(w, k, c),
             k \in Publishes => pc[w] = "publish" /\ c = cur[w]
      PROVE  \/ wire'[w] = wire[w]
             \/ \E f \in Frame :
                  /\ wire'[w] = Append(wire[w], f)
                  /\ f.kind \in Publishes => pc[w] = "publish" /\ f.copy = cur[w]
  <2>. DEFINE f == [kind |-> k, copy |-> c]
  <2>1. f \in Frame /\ f.kind = k /\ f.copy = c
    BY DEF Frame
  <2>2. wire'[w] = IF session[w] THEN Append(wire[w], f) ELSE wire[w]
    BY <1>4 DEF Send, TypeOK
  <2>. HIDE DEF f
  <2>. QED
    BY <1>4, <2>1, <2>2
<1>5. CASE TakeMalformed(w) \/ TakeDuplicate(w)
  <2>1. PICK c \in buf[w] : Send(w, "nack", c) \/ Send(w, "ack", c)
    BY <1>5 DEF TakeMalformed, TakeDuplicate
  <2>2. c \in Copy
    BY DEF TypeOK
  <2>. QED
    BY <1>4, <2>1, <2>2 DEF Publishes
<1>6. CASE Publish(w) \/ Ack(w)
  <2>1. cur[w] \in Copy
    BY <1>6 DEF Publish, Ack, IInv, AttemptInv, Busy, Backed
  <2>. QED
    BY <1>4, <1>6, <2>1 DEF Publish, Ack, Publishes
<1>. QED
  BY <1>1, <1>2, <1>3, <1>5, <1>6 DEF WorkerAction, WorkerStep

\* A delivery is published once: the publish comes with the step to the ack.
LEMMA WireNext ==
    ASSUME IInv, DInv, WireInv, Next
    PROVE  WireInv'
<1>1. CASE ApiAction \/ ForeignPublish
  BY <1>1, AllStand DEF WireInv
<1>2. ASSUME NEW w \in Workers, WorkerAction(w) PROVE WireInv'
  <2>. DEFINE s == wire[w]
  <2>1. s \in Seq(Frame) /\ OnePublish(s)
    BY DEF IInv, TypeOK, WireInv
  <2>2. CASE wire'[w] = << >>
    BY <2>2, OthersStand, <1>2 DEF WireInv, OnePublish, IInv
  <2>3. CASE wire'[w] = s
    BY <2>3, OthersStand, <1>2 DEF WireInv, IInv
  <2>4. CASE s # << >> /\ wire'[w] = Tail(s)
    <3>1. /\ Len(s) \in Nat /\ Len(Tail(s)) = Len(s) - 1
          /\ \A i \in 1 .. Len(s) - 1 : Tail(s)[i] = s[i + 1]
      BY <2>1, <2>4, HeadTailProperties, LenProperties
    <3>2. \A i \in 1 .. Len(s) - 1 : i + 1 \in 1 .. Len(s)
      BY <3>1
    <3>. HIDE DEF s
    <3>3. ASSUME NEW i \in 1 .. Len(Tail(s)), NEW j \in 1 .. Len(Tail(s)),
                 Tail(s)[i].kind \in Publishes, Tail(s)[j].kind \in Publishes,
                 Tail(s)[i].copy = Tail(s)[j].copy
          PROVE  i = j
      <4>1. i + 1 = j + 1
        BY <2>1, <3>1, <3>2, <3>3 DEF OnePublish
      <4>. QED
        BY <3>1, <4>1
    <3>4. OnePublish(wire'[w])
      BY <2>4, <3>3 DEF OnePublish
    <3>. QED
      BY <3>4, OthersStand, <1>2 DEF WireInv, IInv
  <2>5. ASSUME NEW f \in Frame, wire'[w] = Append(s, f),
               f.kind \in Publishes => pc[w] = "publish" /\ f.copy = cur[w]
        PROVE  WireInv'
    <3>. DEFINE n == Len(s)
                t == Append(s, f)
    <3>1. /\ n \in Nat /\ Len(t) = n + 1 /\ t[n + 1] = f
          /\ \A i \in 1 .. n : t[i] = s[i]
      BY <2>1, AppendProperties, LenProperties
    <3>2. f.kind \in Publishes => \A i \in 1 .. n : s[i].copy # f.copy
      BY <2>5 DEF DInv, FrameInv, InWire, Busy
    <3>3. \A i \in 1 .. n + 1 : i = n + 1 \/ i \in 1 .. n
      BY <3>1
    <3>. HIDE DEF t, s
    <3>4. ASSUME NEW i \in 1 .. Len(t), NEW j \in 1 .. Len(t),
                 t[i].kind \in Publishes, t[j].kind \in Publishes,
                 t[i].copy = t[j].copy
          PROVE  i = j
      <4>1. CASE i = n + 1 \/ j = n + 1
        BY <3>1, <3>2, <3>3, <3>4, <4>1
      <4>2. CASE i \in 1 .. n /\ j \in 1 .. n
        BY <2>1, <3>1, <3>4, <4>2 DEF OnePublish
      <4>. QED
        BY <3>1, <3>3, <4>1, <4>2
    <3>5. OnePublish(wire'[w])
      BY <2>5, <3>4 DEF OnePublish, t, s
    <3>. QED
      BY <3>5, OthersStand, <1>2 DEF WireInv, IInv
  <2>. QED
    BY <1>2, <2>2, <2>3, <2>4, <2>5, WireGrows
<1>. QED
  BY <1>1, <1>2, NextSplit

\* A session ends with its process until there is a fault.
LEMMA QuietNext ==
    ASSUME TypeOK, QuietInv, Next
    PROVE  QuietInv'
<1>1. CASE ApiAction \/ ForeignPublish
  <2>1. faults' = faults
    BY <1>1 DEF ApiAction, Reject, Post, RouteApi, CutApi, RestartApi,
                ForeignPublish, envVars
  <2>. QED
    BY <1>1, <2>1, AllStand DEF QuietInv
<1>2. ASSUME NEW w \in Workers, WorkerAction(w) PROVE QuietInv'
  <2>1. CASE LoseConnection(w) \/ Crash(w)
    <3>1. faults' = faults + 1 /\ faults \in Nat
      BY <2>1 DEF LoseConnection, Crash, TypeOK
    <3>. QED
      BY <3>1 DEF QuietInv
  <2>2. CASE ~LoseConnection(w) /\ ~Crash(w)
    <3>1. faults' = faults
      BY <1>2, <2>2 DEF WorkerAction, Deliver, Start, WorkerStep, TakeMalformed,
            TakeDuplicate, TakeJob, ProcessOk, ProcessFail, Publish, Ack, Exit,
            RouteStep, RouteRetry, RouteBury, RouteAck, RouteNack, Reap, envVars
    <3>. SUFFICES ASSUME faults = 0 PROVE session'[w] <=> pc'[w] # "down"
      BY <1>2, <3>1, OthersStand DEF QuietInv
    <3>2. session[w] <=> pc[w] # "down"
      BY DEF QuietInv
    <3>3. CASE (\E c \in ready : Deliver(w, c)) \/ Start(w) \/ RouteStep(w) \/ Reap(w)
      BY <3>2, <3>3 DEF TypeOK, Deliver, Start, RouteStep, RouteRetry, RouteBury,
                        RouteAck, RouteNack, Reap, EndSession, localVars
    <3>4. CASE WorkerStep(w)
      BY <3>2, <3>4 DEF TypeOK, WorkerStep, TakeMalformed, TakeDuplicate, TakeJob,
                        ProcessOk, ProcessFail, Publish, Ack, Exit, brokerVars
    <3>. QED
      BY <1>2, <2>2, <3>3, <3>4 DEF WorkerAction
  <2>. QED
    BY <2>1, <2>2
<1>. QED
  BY <1>1, <1>2, NextSplit

\* A worker is through only with jobs it remembers: it has skipped or executed
\* them.
LEMMA UsedNext ==
    ASSUME IInv, DInv, UsedInv, Next
    PROVE  UsedInv'
<1>1. CASE ApiAction \/ ForeignPublish
  BY <1>1, AllStand DEF UsedInv, Used, InHand
<1>2. ASSUME NEW w \in Workers, WorkerAction(w) PROVE UsedInv'
  <2>1. \A v \in Workers : \A r : v # w =>
            (Used(v, r)' <=> Used(v, r)) /\ processed'[v] = processed[v]
    BY <1>2, OthersStand DEF IInv, Used, InHand
  <2>. SUFFICES ASSUME NEW r \in Requests \ FailJobs, Used(w, r)'
                PROVE  r \in processed'[w]
    BY <2>1 DEF UsedInv
  <2>2. PICK d \in unacked'[w] \ buf'[w] : d.id = r /\ ~InHand(w, d)'
    BY DEF Used
  <2>3. session'[w] /\ pc'[w] # "down"
    BY DEF Used
  <2>4. Used(w, r) => r \in processed[w]
    BY DEF UsedInv
  <2>5. ASSUME NEW c \in ready, Deliver(w, c) PROVE r \in processed'[w]
    BY <2>2, <2>3, <2>4, <2>5 DEF Deliver, Used, InHand, IInv, TypeOK
  <2>6. CASE Start(w) \/ Exit(w) \/ Crash(w) \/ LoseConnection(w) \/ Reap(w)
    BY <2>2, <2>3, <2>6 DEF Start, Exit, Crash, LoseConnection, Reap, EndSession, IInv,
                            TypeOK, DInv, ClosedInv
  <2>7. CASE TakeMalformed(w)
    BY <2>2, <2>3, <2>4, <2>7, RequestsAssumption
       DEF TakeMalformed, Used, InHand, IInv, TypeOK, brokerVars
  <2>8. CASE TakeDuplicate(w)
    BY <2>2, <2>3, <2>4, <2>8 DEF TakeDuplicate, Used, InHand, IInv, TypeOK, brokerVars
  <2>9. CASE TakeJob(w)
    BY <2>2, <2>3, <2>4, <2>9 DEF TakeJob, Used, InHand, IInv, TypeOK, brokerVars
  <2>10. CASE ProcessOk(w) \/ ProcessFail(w)
    BY <2>2, <2>3, <2>4, <2>10
       DEF ProcessOk, ProcessFail, Used, InHand, IInv, TypeOK, brokerVars
  <2>11. CASE Publish(w) \/ Ack(w)
    BY <2>2, <2>3, <2>4, <2>11 DEF Publish, Ack, Used, InHand, IInv, TypeOK, brokerVars
  <2>12. CASE RouteStep(w)
    <3>1. /\ unacked'[w] \subseteq unacked[w]
          /\ UNCHANGED <<pc, session, buf, cur, processed>>
      BY <2>12 DEF RouteStep, RouteRetry, RouteBury, RouteAck, RouteNack, IInv, TypeOK,
                   localVars
    <3>. QED
      BY <2>2, <2>3, <2>4, <3>1 DEF Used, InHand
  <2>. QED
    BY <1>2, <2>5, <2>6, <2>7, <2>8, <2>9, <2>10, <2>11, <2>12 DEF WorkerAction, WorkerStep
<1>. QED
  BY <1>1, <1>2, NextSplit

-----------------------------------------------------------------------------
(* The budget of successes.                                                *)

\* Whether w is one of S, as a number.
One(S, w) == IF w \in S THEN 1 ELSE 0

\* The sets that are counted are finite.
LEMMA CountsAre ==
    ASSUME OnceInv, CopyInv, NEW r
    PROVE  /\ IsFiniteSet(UsedBy(r)) /\ Cardinality(UsedBy(r)) \in Nat
           /\ IsFiniteSet(Detached(r)) /\ Cardinality(Detached(r)) \in Nat
           /\ IsFiniteSet(CopiesOf(r)) /\ Cardinality(CopiesOf(r)) \in Nat
<1>1. UsedBy(r) \subseteq Running /\ Detached(r) \subseteq Running
  BY DEF UsedBy, Used, Detached, Running
<1>2. CopiesOf(r) \subseteq InBroker
  BY DEF CopiesOf
<1>3. IsFiniteSet(UsedBy(r)) /\ IsFiniteSet(Detached(r)) /\ IsFiniteSet(CopiesOf(r))
  BY <1>1, <1>2, FS_Subset DEF OnceInv, CopyInv
<1>. QED
  BY <1>3, FS_CardinalityType

\* Two sets that differ in w at most.
LEMMA DifferInOne ==
    ASSUME NEW S, NEW T, NEW w, IsFiniteSet(S), IsFiniteSet(T), S \ {w} = T \ {w}
    PROVE  Cardinality(S) + One(T, w) = Cardinality(T) + One(S, w)
<1>1. /\ Cardinality(S \ {w}) = Cardinality(S) - One(S, w)
      /\ Cardinality(T \ {w}) = Cardinality(T) - One(T, w)
  BY FS_RemoveElement, FS_CardinalityType DEF One
<1>2. Cardinality(S) \in Nat /\ Cardinality(T) \in Nat
  BY FS_CardinalityType
<1>. QED
  BY <1>1, <1>2 DEF One

\* A step of w keeps the budget of r, if what it takes is paid for.
LEMMA WorkerPays ==
    ASSUME TypeOK, NEW w \in Workers, WorkerAction(w), NEW r \in Requests, OkAt(r),
           OnceInv, CopyInv, OnceInv', CopyInv', okRuns' \in [Requests -> Nat],
           faults' \in Nat,
           okRuns'[r] + Cardinality(CopiesOf(r)') + One(Detached(r)', w)
                   + faults + One(UsedBy(r), w)
               <= okRuns[r] + Cardinality(CopiesOf(r)) + One(Detached(r), w)
                   + faults' + One(UsedBy(r)', w),
           foreign' = foreign
    PROVE  OkAt(r)'
<1>1. /\ UsedBy(r)' \ {w} = UsedBy(r) \ {w}
      /\ Detached(r)' \ {w} = Detached(r) \ {w}
  BY OthersStand DEF UsedBy, Used, InHand, Detached, Running
<1>2. /\ IsFiniteSet(UsedBy(r)) /\ Cardinality(UsedBy(r)) \in Nat
      /\ IsFiniteSet(Detached(r)) /\ Cardinality(Detached(r)) \in Nat
      /\ Cardinality(CopiesOf(r)) \in Nat
  BY CountsAre
<1>3. /\ IsFiniteSet(UsedBy(r)') /\ Cardinality(UsedBy(r)') \in Nat
      /\ IsFiniteSet(Detached(r)') /\ Cardinality(Detached(r)') \in Nat
      /\ Cardinality(CopiesOf(r)') \in Nat
  <2>1. UsedBy(r)' \subseteq Running' /\ Detached(r)' \subseteq Running'
    BY DEF UsedBy, Used, Detached, Running
  <2>2. CopiesOf(r)' \subseteq InBroker'
    BY DEF CopiesOf
  <2>3. /\ IsFiniteSet(UsedBy(r)') /\ IsFiniteSet(Detached(r)')
        /\ IsFiniteSet(CopiesOf(r)')
    BY <2>1, <2>2, FS_Subset DEF OnceInv, CopyInv
  <2>. QED
    BY <2>3, FS_CardinalityType
<1>4. /\ Cardinality(UsedBy(r)') + One(UsedBy(r), w)
             = Cardinality(UsedBy(r)) + One(UsedBy(r)', w)
      /\ Cardinality(Detached(r)') + One(Detached(r), w)
             = Cardinality(Detached(r)) + One(Detached(r)', w)
  BY <1>1, <1>2, <1>3, DifferInOne
<1>5. \A S : One(S, w) \in {0, 1}
  BY DEF One
<1>6. routed' = routed
  BY WorkerLeavesApi
<1>7. okRuns[r] \in Nat /\ okRuns'[r] \in Nat /\ foreign \in Nat /\ faults \in Nat
  BY DEF TypeOK
<1>. QED
  BY <1>2, <1>3, <1>4, <1>5, <1>6, <1>7 DEF OkAt

\* A step that takes nothing: no execution, no copy, no fault, and the worker
\* may not run r more often than before.
LEMMA WorkerKeeps ==
    ASSUME IInv, IInv', NEW w \in Workers, WorkerAction(w), NEW r \in Requests, OkAt(r),
           OnceInv, CopyInv, OnceInv', CopyInv',
           UNCHANGED <<okRuns, faults, foreign>>, CopiesOf(r)' = CopiesOf(r),
           Used(w, r) => Used(w, r)',
           w \in Detached(r)' => w \in Detached(r)
    PROVE  OkAt(r)'
<1>1. w \in UsedBy(r) => w \in UsedBy(r)'
  BY DEF UsedBy
<1>2. /\ One(Detached(r)', w) <= One(Detached(r), w)
      /\ One(UsedBy(r), w) <= One(UsedBy(r)', w)
      /\ \A S : One(S, w) \in {0, 1}
  BY <1>1 DEF One
<1>3. /\ okRuns[r] \in Nat /\ okRuns' \in [Requests -> Nat]
      /\ faults \in Nat /\ faults' \in Nat
      /\ Cardinality(CopiesOf(r)) \in Nat
  BY CountsAre DEF IInv, TypeOK
<1>4. okRuns'[r] + Cardinality(CopiesOf(r)') + One(Detached(r)', w)
              + faults + One(UsedBy(r), w)
          <= okRuns[r] + Cardinality(CopiesOf(r)) + One(Detached(r), w)
              + faults' + One(UsedBy(r)', w)
  BY <1>2, <1>3
<1>. QED
  BY <1>3, <1>4, WorkerPays DEF IInv

\* Only a job that fails is published again.
LEMMA RetriesFail ==
    ASSUME IInv, DInv, LInv, CopyInv, NEW w \in Workers, RouteRetry(w)
    PROVE  HeadCopy(w).id \in FailJobs
<1>. DEFINE f == Head(wire[w])
            h == HeadCopy(w)
<1>1. /\ f \in SoundFrame /\ h = f.copy /\ h \in InBroker /\ h \in Copy
      /\ f.kind = "retry"
  BY HeadIsHeld DEF RouteStep, RouteRetry, HeadIs
<1>. HIDE DEF f, h
<1>2. h.id \in Requests /\ badRuns[h.id] >= h.attempt
  BY <1>1 DEF SoundFrame, Spent
<1>3. h.attempt >= 1 /\ h.attempt \in Nat
  BY <1>1, <1>2, RequestsAssumption, LimitsAssumption DEF CopyInv, Copy
<1>4. badRuns[h.id] > 0
  BY <1>2, <1>3 DEF IInv, TypeOK
<1>5. h.id \in FailJobs
  BY <1>2, <1>4 DEF LInv, RanInv
<1>. QED
  BY <1>5 DEF h

\* Deliveries, the start of a process, and every step of its loop but the
\* success take nothing.
LEMMA QuietWorkerOk ==
    ASSUME IInv, DInv, LInv, CopyInv, NEW w \in Workers, NEW r \in Requests \ FailJobs,
           \/ \E c \in ready : Deliver(w, c)
           \/ Start(w) \/ TakeMalformed(w) \/ TakeDuplicate(w) \/ TakeJob(w)
           \/ ProcessFail(w) \/ Publish(w) \/ Ack(w) \/ Exit(w)
           \/ RouteRetry(w) \/ RouteBury(w) \/ Reap(w)
    PROVE  /\ UNCHANGED <<okRuns, faults, foreign>> /\ CopiesOf(r)' = CopiesOf(r)
           /\ Used(w, r) => Used(w, r)'
           /\ w \in Detached(r)' => w \in Detached(r)
<1>. TypeOK
  BY DEF IInv
<1>1. UNCHANGED <<okRuns, faults, foreign>>
  BY DEF Deliver, Start, TakeMalformed, TakeDuplicate, TakeJob, ProcessFail, Publish,
         Ack, Exit, RouteRetry, RouteBury, Reap, runVars, envVars
<1>2. CopiesOf(r)' = CopiesOf(r)
  <2>1. CASE RouteRetry(w)
    <3>1. PICK n : /\ n.id = Raised(HeadCopy(w)).id
                   /\ InBroker' = InBroker \union {n}
      BY <2>1, StoreOne DEF RouteRetry
    <3>2. n.id \in FailJobs
      BY <2>1, <3>1, RetriesFail DEF Raised
    <3>. QED
      BY <3>1, <3>2 DEF CopiesOf
  <2>2. CASE ~RouteRetry(w)
    <3>1. InBroker' = InBroker
      BY <2>2, CopiesMove, CopiesStay DEF WorkerStep
    <3>. QED
      BY <3>1 DEF CopiesOf
  <2>. QED
    BY <2>1, <2>2
<1>3. ASSUME NEW c \in ready, Deliver(w, c)
      PROVE  /\ Used(w, r) => Used(w, r)'
             /\ w \in Detached(r)' => w \in Detached(r)
  BY <1>3 DEF Deliver, Used, InHand, Detached, Running, TypeOK, DInv, PlaceInv
<1>4. CASE Start(w) \/ Exit(w) \/ Reap(w)
  BY <1>1, <1>2, <1>4 DEF Start, Exit, Reap, EndSession, Used, Detached, Running, TypeOK, localVars,
              brokerVars
<1>5. CASE TakeMalformed(w) \/ TakeDuplicate(w)
  BY <1>1, <1>2, <1>5 DEF TakeMalformed, TakeDuplicate, Used, InHand, Detached, Running, TypeOK,
              brokerVars
<1>6. CASE TakeJob(w)
  BY <1>1, <1>2, <1>6 DEF TakeJob, Used, InHand, Detached, Running, TypeOK, brokerVars
<1>7. CASE ProcessFail(w) \/ Publish(w) \/ Ack(w)
  BY <1>1, <1>2, <1>7 DEF ProcessFail, Publish, Ack, Used, InHand, Detached, Running, TypeOK,
              brokerVars
<1>8. CASE RouteRetry(w) \/ RouteBury(w)
  BY <1>1, <1>2, <1>8 DEF RouteRetry, RouteBury, Used, InHand, Detached, Running, localVars
<1>. QED
  BY <1>1, <1>2, <1>3, <1>4, <1>5, <1>6, <1>7, <1>8

\* A success uses up the delivery in hand, or the last copy of a process whose
\* session is gone: it has not run the job before.
LEMMA SuccessPays ==
    ASSUME IInv, DInv, LInv, UsedInv, NEW w \in Workers, ProcessOk(w),
           NEW r \in Requests \ FailJobs
    PROVE  /\ UNCHANGED <<faults, foreign>> /\ CopiesOf(r)' = CopiesOf(r)
           /\ cur[w].id # r =>
                /\ okRuns'[r] = okRuns[r]
                /\ Used(w, r) => Used(w, r)'
                /\ w \in Detached(r)' => w \in Detached(r)
           /\ cur[w].id = r =>
                /\ okRuns'[r] = okRuns[r] + 1
                /\ w \notin UsedBy(r) /\ w \notin Detached(r)'
                /\ w \in UsedBy(r)' \/ w \in Detached(r)
<1>. TypeOK
  BY DEF IInv
<1>1. /\ UNCHANGED <<faults, foreign, session, buf, unacked, cur>>
      /\ pc[w] = "process" /\ pc'[w] = "ack"
      /\ processed'[w] = processed[w] \union {cur[w].id}
      /\ okRuns' = [okRuns EXCEPT ![cur[w].id] = @ + 1]
  BY DEF ProcessOk, TypeOK, envVars, brokerVars
<1>2. CopiesOf(r)' = CopiesOf(r)
  BY CopiesStay DEF WorkerStep, CopiesOf
<1>3. ASSUME cur[w].id # r
      PROVE  /\ okRuns'[r] = okRuns[r]
             /\ Used(w, r) => Used(w, r)'
             /\ w \in Detached(r)' => w \in Detached(r)
  BY <1>1, <1>3 DEF TypeOK, Used, InHand, Detached, Running
<1>4. ASSUME cur[w].id = r
      PROVE  /\ okRuns'[r] = okRuns[r] + 1
             /\ w \notin UsedBy(r) /\ w \notin Detached(r)'
             /\ w \in UsedBy(r)' \/ w \in Detached(r)
  <2>1. r \notin processed[w]
    BY <1>1, <1>4 DEF LInv, OnceInv
  <2>2. w \notin UsedBy(r)
    BY <2>1 DEF UsedBy, UsedInv
  <2>3. okRuns'[r] = okRuns[r] + 1 /\ w \notin Detached(r)'
    BY <1>1, <1>4 DEF TypeOK, Detached
  <2>4. CASE session[w]
    <3>1. cur[w] \in unacked[w] \ buf[w]
      BY <1>1, <2>4 DEF DInv, HeldInv, Busy
    <3>2. Used(w, r)'
      BY <1>1, <1>4, <2>4, <3>1 DEF Used, InHand
    <3>. QED
      BY <2>2, <2>3, <3>2 DEF UsedBy
  <2>5. CASE ~session[w]
    BY <1>1, <2>1, <2>2, <2>3, <2>5 DEF Detached, Running
  <2>. QED
    BY <2>4, <2>5
<1>. QED
  BY <1>1, <1>2, <1>3, <1>4

\* A fault gives back at most one execution of r: the copy that was used up,
\* or the one a process without a session still has.
LEMMA FaultsPay ==
    ASSUME IInv, UsedInv, NEW w \in Workers, LoseConnection(w) \/ Crash(w),
           NEW r \in Requests \ FailJobs
    PROVE  /\ UNCHANGED <<okRuns, foreign>> /\ CopiesOf(r)' = CopiesOf(r)
           /\ faults' = faults + 1
           /\ w \in Detached(r)' => w \notin UsedBy(r)
<1>1. /\ UNCHANGED <<okRuns, foreign>> /\ faults' = faults + 1
  BY DEF LoseConnection, Crash, runVars
<1>2. CopiesOf(r)' = CopiesOf(r)
  BY CopiesMove, CopiesStay DEF CopiesOf, IInv
<1>3. CASE LoseConnection(w)
  BY <1>1, <1>2, <1>3 DEF LoseConnection, localVars, Detached, UsedBy, UsedInv
<1>4. CASE Crash(w)
  BY <1>1, <1>2, <1>4 DEF Crash, IInv, TypeOK, Detached, Running
<1>. QED
  BY <1>3, <1>4

\* Outside the workers only a publish adds a copy, and it is counted.
LEMMA ApiOk ==
    ASSUME IInv, LInv, CopyInv, OkInv, ApiAction \/ ForeignPublish
    PROVE  OkInv'
<1>. SUFFICES ASSUME NEW r \in Requests \ FailJobs PROVE OkAt(r)'
  BY DEF OkInv
<1>1. UsedBy(r)' = UsedBy(r) /\ Detached(r)' = Detached(r)
  BY AllStand DEF UsedBy, Used, InHand, Detached, Running
<1>2. UNCHANGED <<okRuns, faults>>
  BY DEF ApiAction, Reject, Post, RouteApi, CutApi, RestartApi, ForeignPublish, runVars,
         envVars
<1>3. /\ okRuns[r] \in Nat /\ faults \in Nat /\ foreign \in Nat
      /\ Cardinality(UsedBy(r)) \in Nat /\ Cardinality(Detached(r)) \in Nat
      /\ Cardinality(CopiesOf(r)) \in Nat /\ IsFiniteSet(CopiesOf(r))
  BY CountsAre DEF IInv, TypeOK, LInv
<1>4. OkAt(r)
  BY DEF OkInv
<1>5. ASSUME NEW n, n \notin InBroker, InBroker' = InBroker \union {n}
      PROVE  Cardinality(CopiesOf(r)')
                 = Cardinality(CopiesOf(r)) + (IF n.id = r THEN 1 ELSE 0)
  <2>1. n \notin CopiesOf(r)
    BY <1>5 DEF CopiesOf
  <2>2. CASE n.id = r
    <3>1. CopiesOf(r)' = CopiesOf(r) \union {n}
      BY <1>5, <2>2 DEF CopiesOf
    <3>. QED
      BY <1>3, <2>1, <2>2, <3>1, FS_AddElement
  <2>3. CASE n.id # r
    <3>1. CopiesOf(r)' = CopiesOf(r)
      BY <1>5, <2>3 DEF CopiesOf
    <3>. QED
      BY <1>3, <2>3, <3>1
  <2>. QED
    BY <2>2, <2>3
<1>6. ASSUME \/ \E x \in Requests : Reject(x) \/ Post(x)
             \/ CutApi \/ RestartApi
      PROVE  OkAt(r)'
  <2>1. UNCHANGED <<ready, unacked, routed, foreign>>
    BY <1>6 DEF Reject, Post, CutApi, RestartApi, brokerVars, envVars
  <2>2. CopiesOf(r)' = CopiesOf(r)
    BY <2>1 DEF CopiesOf, InBroker
  <2>. QED
    BY <1>1, <1>2, <1>4, <2>1, <2>2 DEF OkAt
<1>7. ASSUME NEW x \in Requests, RouteApi(x) PROVE OkAt(r)'
  <2>1. PICK n : /\ n.id = FirstBody(x).id /\ n \notin InBroker
                 /\ InBroker' = InBroker \union {n}
    BY <1>7, StoreOne DEF RouteApi
  <2>2. n.id = x
    BY <2>1 DEF FirstBody
  <2>3. /\ routed' = routed \union {x} /\ foreign' = foreign /\ x \notin routed
    BY <1>7 DEF RouteApi, envVars, CopyInv
  <2>4. Cardinality(CopiesOf(r)') = Cardinality(CopiesOf(r)) + (IF x = r THEN 1 ELSE 0)
    BY <1>5, <2>1, <2>2
  <2>. QED
    BY <1>1, <1>2, <1>3, <1>4, <2>3, <2>4 DEF OkAt
<1>8. CASE ForeignPublish
  <2>1. PICK b : Store(b)
    BY <1>8 DEF ForeignPublish
  <2>2. PICK n : n \notin InBroker /\ InBroker' = InBroker \union {n}
    BY <1>8, <2>1, StoreOne DEF ForeignPublish
  <2>3. routed' = routed /\ foreign' = foreign + 1
    BY <1>8 DEF ForeignPublish
  <2>4. Cardinality(CopiesOf(r)') <= Cardinality(CopiesOf(r)) + 1
    BY <1>3, <1>5, <2>2
  <2>5. Cardinality(CopiesOf(r)') \in Nat
    BY <1>3, <1>5, <2>2
  <2>. QED
    BY <1>1, <1>2, <1>3, <1>4, <2>3, <2>4, <2>5 DEF OkAt
<1>. QED
  BY <1>6, <1>7, <1>8 DEF ApiAction

\* Every step keeps the budget of successes.
LEMMA OkNext ==
    ASSUME IInv, IInv', DInv, LInv, LInv', CopyInv, CopyInv', UsedInv, OkInv, Next
    PROVE  OkInv'
<1>1. CASE ApiAction \/ ForeignPublish
  BY <1>1, ApiOk
<1>2. ASSUME NEW w \in Workers, WorkerAction(w), NEW r \in Requests \ FailJobs
      PROVE  OkAt(r)'
  <2>. DEFINE k == Cardinality(CopiesOf(r))
  <2>1. /\ OkAt(r) /\ OnceInv /\ OnceInv' /\ TypeOK
        /\ okRuns[r] \in Nat /\ okRuns' \in [Requests -> Nat]
        /\ faults \in Nat /\ faults' \in Nat
        /\ k \in Nat /\ IsFiniteSet(CopiesOf(r))
    BY CountsAre DEF OkInv, LInv, IInv, TypeOK
  <2>2. \A S : One(S, w) \in {0, 1} /\ (w \in S => One(S, w) = 1) /\ (w \notin S => One(S, w) = 0)
    BY DEF One
  <2>3. CASE \/ \E c \in ready : Deliver(w, c)
             \/ Start(w) \/ TakeMalformed(w) \/ TakeDuplicate(w) \/ TakeJob(w)
             \/ ProcessFail(w) \/ Publish(w) \/ Ack(w) \/ Exit(w)
             \/ RouteRetry(w) \/ RouteBury(w) \/ Reap(w)
    BY <1>2, <2>1, <2>3, QuietWorkerOk, WorkerKeeps
  <2>4. CASE ProcessOk(w)
    <3>1. CASE cur[w].id # r
      <4>1. okRuns'[r] = okRuns[r] /\ UNCHANGED <<faults, foreign>>
        BY <2>4, <3>1, SuccessPays
      <4>2. /\ CopiesOf(r)' = CopiesOf(r)
            /\ One(Detached(r)', w) <= One(Detached(r), w)
            /\ One(UsedBy(r), w) <= One(UsedBy(r)', w)
        <5>1. /\ w \in Detached(r)' => w \in Detached(r)
              /\ w \in UsedBy(r) => w \in UsedBy(r)'
          BY <2>4, <3>1, SuccessPays DEF UsedBy
        <5>. QED
          BY <2>2, <2>4, <5>1, SuccessPays
      <4>. QED
        BY <1>2, <2>1, <2>2, <4>1, <4>2, WorkerPays
    <3>2. CASE cur[w].id = r
      <4>1. /\ okRuns'[r] = okRuns[r] + 1 /\ UNCHANGED <<faults, foreign>>
            /\ CopiesOf(r)' = CopiesOf(r)
        BY <2>4, <3>2, SuccessPays
      <4>2. /\ One(UsedBy(r), w) = 0 /\ One(Detached(r)', w) = 0
            /\ One(UsedBy(r)', w) = 1 \/ One(Detached(r), w) = 1
        BY <2>2, <2>4, <3>2, SuccessPays
      <4>. QED
        BY <1>2, <2>1, <2>2, <4>1, <4>2, WorkerPays
    <3>. QED
      BY <3>1, <3>2
  <2>5. CASE LoseConnection(w) \/ Crash(w)
    <3>1. /\ okRuns' = okRuns /\ foreign' = foreign /\ faults' = faults + 1
          /\ CopiesOf(r)' = CopiesOf(r)
      BY <2>5, FaultsPay
    <3>2. One(Detached(r)', w) + One(UsedBy(r), w) <= 1
      BY <2>2, <2>5, FaultsPay
    <3>. QED
      BY <1>2, <2>1, <2>2, <3>1, <3>2, WorkerPays
  <2>6. CASE RouteAck(w) \/ RouteNack(w)
    <3>. DEFINE h == HeadCopy(w)
    <3>1. /\ h \in unacked[w] /\ InBroker' = InBroker \ {h}
      BY <2>6, AnsweredLeaves
    <3>2. /\ UNCHANGED <<okRuns, faults, foreign, pc, cur, buf, session, processed>>
          /\ unacked'[w] = unacked[w] \ {h}
      BY <2>1, <2>6 DEF RouteAck, RouteNack, localVars, runVars, envVars, TypeOK
    <3>. HIDE DEF h
    <3>3. Detached(r)' = Detached(r)
      BY <3>2 DEF Detached, Running
    <3>4. CASE h.id # r
      <4>1. CopiesOf(r)' = CopiesOf(r)
        BY <3>1, <3>4 DEF CopiesOf
      <4>2. Used(w, r) => Used(w, r)'
        BY <3>2, <3>4 DEF Used, InHand
      <4>. QED
        BY <1>2, <2>1, <3>2, <3>3, <4>1, <4>2, WorkerKeeps
    <3>5. CASE h.id = r
      <4>1. CopiesOf(r)' = CopiesOf(r) \ {h} /\ h \in CopiesOf(r)
        BY <3>1, <3>5 DEF CopiesOf, InBroker
      <4>2. Cardinality(CopiesOf(r)') = k - 1
        BY <2>1, <4>1, FS_RemoveElement
      <4>. QED
        BY <1>2, <2>1, <2>2, <3>2, <3>3, <4>2, WorkerPays
    <3>. QED
      BY <3>4, <3>5
  <2>. QED
    BY <1>2, <2>3, <2>4, <2>5, <2>6 DEF WorkerAction, WorkerStep, RouteStep
<1>. QED
  BY <1>1, <1>2, NextSplit DEF OkInv

\* Every worker that is through with r still has a copy of r at the broker.
LEMMA UsedHaveCopies ==
    ASSUME DInv, OnceInv, CopyInv, NEW r
    PROVE  Cardinality(UsedBy(r)) <= Cardinality(CopiesOf(r))
<1>. DEFINE f == [w \in UsedBy(r) |-> CHOOSE c : c \in unacked[w] /\ c.id = r]
<1>1. ASSUME NEW w \in UsedBy(r)
      PROVE  f[w] \in unacked[w] /\ f[w].id = r
  BY DEF UsedBy, Used
<1>2. ASSUME NEW w \in UsedBy(r) PROVE f[w] \in CopiesOf(r)
  BY <1>1 DEF UsedBy, CopiesOf, InBroker
<1>3. ASSUME NEW v \in UsedBy(r), NEW w \in UsedBy(r), f[v] = f[w] PROVE v = w
  BY <1>1, <1>3 DEF UsedBy, DInv, PlaceInv
<1>4. f \in [UsedBy(r) -> CopiesOf(r)]
  BY <1>2
<1>. HIDE DEF f
<1>5. f \in Injection(UsedBy(r), CopiesOf(r))
  BY <1>3, <1>4 DEF Injection, IsInjective
<1>6. IsFiniteSet(CopiesOf(r))
  BY CountsAre
<1>. QED
  BY <1>5, <1>6, FS_Injection

-----------------------------------------------------------------------------
(* The budget of failures.                                                 *)

\* The attempts are counted.
LEMMA AttemptsAre ==
    ASSUME CopyInv, NEW r
    PROVE  IsFiniteSet(Attempts(r)) /\ Cardinality(Attempts(r)) \in Nat
<1>1. IsFiniteSet(InBroker) /\ IsFiniteSet(1 .. MaxAttempts)
  BY FS_Interval, LimitsAssumption DEF CopyInv
<1>2. IsFiniteSet(InBroker \X (1 .. MaxAttempts))
  BY <1>1, FS_Product
<1>3. Attempts(r) \subseteq InBroker \X (1 .. MaxAttempts)
  BY DEF Attempts, CopiesOf
<1>. QED
  BY <1>2, <1>3, FS_Subset, FS_CardinalityType

\* A copy stands for at most MaxAttempts of them.
LEMMA OneCopyHas ==
    ASSUME NEW n
    PROVE  /\ IsFiniteSet({n} \X (1 .. MaxAttempts))
           /\ Cardinality({n} \X (1 .. MaxAttempts)) = MaxAttempts
<1>1. MaxAttempts \in Int /\ ~(1 > MaxAttempts) /\ MaxAttempts - 1 + 1 = MaxAttempts
  BY LimitsAssumption
<1>2. IsFiniteSet(1 .. MaxAttempts) /\ Cardinality(1 .. MaxAttempts) = MaxAttempts
  BY <1>1, FS_Interval
<1>3. IsFiniteSet({n}) /\ Cardinality({n}) = 1
  BY FS_Singleton
<1>4. /\ IsFiniteSet({n} \X (1 .. MaxAttempts))
      /\ Cardinality({n} \X (1 .. MaxAttempts)) = 1 * MaxAttempts
  BY <1>2, <1>3, FS_Product
<1>. QED
  BY <1>1, <1>4

\* A step after which the copies of r stand for no more than before.
LEMMA AttemptsShrink ==
    ASSUME IInv, NEW r,
           \A c \in CopiesOf(r)' : /\ c \in CopiesOf(r)
                                   /\ Untried(c)' => Untried(c)
                                   /\ Publishing(c)' => Publishing(c)
    PROVE  Attempts(r)' \subseteq Attempts(r)
<1>. SUFFICES ASSUME NEW t \in Attempts(r)' PROVE t \in Attempts(r)
  OBVIOUS
<1>1. /\ t \in CopiesOf(r)' \X (1 .. MaxAttempts)
      /\ \/ t[2] >= t[1].attempt /\ Untried(t[1])'
         \/ t[2] > t[1].attempt /\ Publishing(t[1])'
  BY DEF Attempts
<1>2. t[1] \in CopiesOf(r)' /\ t[2] \in 1 .. MaxAttempts /\ t = <<t[1], t[2]>>
  BY <1>1
<1>. QED
  BY <1>1, <1>2 DEF Attempts

\* It keeps the budget, if nothing failed.
LEMMA BadKeeps ==
    ASSUME IInv, CopyInv, NEW r \in Requests, BadAt(r),
           badRuns'[r] = badRuns[r], UNCHANGED <<routed, foreign>>,
           Attempts(r)' \subseteq Attempts(r)
    PROVE  BadAt(r)'
<1>1. /\ IsFiniteSet(Attempts(r)) /\ Cardinality(Attempts(r)) \in Nat
  BY AttemptsAre
<1>2. /\ Cardinality(Attempts(r)') <= Cardinality(Attempts(r))
      /\ Cardinality(Attempts(r)') \in Nat
  BY <1>1, FS_Subset, FS_CardinalityType
<1>3. /\ badRuns[r] \in Nat /\ (IF r \in routed THEN 0 ELSE MaxAttempts) \in Nat
      /\ MaxAttempts * (1 + foreign) \in Nat
  BY LimitsAssumption DEF IInv, TypeOK
<1>. QED
  BY <1>1, <1>2, <1>3 DEF BadAt

\* A new copy stands for its own attempts.
LEMMA StoredAttempts ==
    ASSUME NEW n, InBroker' = InBroker \union {n}, ready' = ready \union {n},
           UNCHANGED <<unacked, buf, pc, cur, wire>>, NEW r
    PROVE  /\ Attempts(r)' \subseteq Attempts(r) \union ({n} \X (1 .. MaxAttempts))
           /\ n.id # r => Attempts(r)' \subseteq Attempts(r)
<1>. SUFFICES ASSUME NEW t \in Attempts(r)'
              PROVE  \/ t \in Attempts(r)
                     \/ n.id = r /\ t \in {n} \X (1 .. MaxAttempts)
  OBVIOUS
<1>1. /\ t \in CopiesOf(r)' \X (1 .. MaxAttempts)
      /\ \/ t[2] >= t[1].attempt /\ Untried(t[1])'
         \/ t[2] > t[1].attempt /\ Publishing(t[1])'
  BY DEF Attempts
<1>2. /\ t[1] \in CopiesOf(r)' /\ t[2] \in 1 .. MaxAttempts /\ t = <<t[1], t[2]>>
  BY <1>1
<1>3. CASE t[1] = n
  BY <1>2, <1>3 DEF CopiesOf
<1>4. CASE t[1] # n
  <2>1. t[1] \in CopiesOf(r)
    BY <1>2, <1>4 DEF CopiesOf
  <2>2. /\ Untried(t[1])' => Untried(t[1])
        /\ Publishing(t[1])' => Publishing(t[1])
    BY <1>4 DEF Untried, UntriedAt, InHand, Publishing, PublishingAt, Succeeded
  <2>. QED
    BY <1>1, <1>2, <2>1, <2>2 DEF Attempts
<1>. QED
  BY <1>3, <1>4

\* A publish pays for the attempts of its copy.
LEMMA ApiBad ==
    ASSUME IInv, LInv, CopyInv, NEW r \in FailJobs, BadAt(r), ApiAction \/ ForeignPublish
    PROVE  BadAt(r)'
<1>1. UNCHANGED <<badRuns, unacked, buf, pc, cur, wire>>
  BY AllStand DEF ApiAction, Reject, Post, RouteApi, CutApi, RestartApi,
                  ForeignPublish, runVars
<1>2. /\ IsFiniteSet(Attempts(r)) /\ Cardinality(Attempts(r)) \in Nat
      /\ badRuns[r] \in Nat /\ foreign \in Nat /\ MaxAttempts \in Nat
      /\ r \in Requests
  BY AttemptsAre, LimitsAssumption, RequestsAssumption DEF IInv, TypeOK
<1>3. ASSUME NEW n, Attempts(r)' \subseteq Attempts(r) \union ({n} \X (1 .. MaxAttempts))
      PROVE  /\ Cardinality(Attempts(r)') <= Cardinality(Attempts(r)) + MaxAttempts
             /\ Cardinality(Attempts(r)') \in Nat
  <2>. DEFINE S == Attempts(r) \union ({n} \X (1 .. MaxAttempts))
              I == Attempts(r) \intersect ({n} \X (1 .. MaxAttempts))
  <2>1. IsFiniteSet(S) /\ Cardinality(S) = Cardinality(Attempts(r)) + MaxAttempts - Cardinality(I)
    BY <1>2, OneCopyHas, FS_Union
  <2>2. Cardinality(I) \in Nat /\ Cardinality(S) \in Nat
    BY <1>2, <2>1, FS_Intersection, FS_CardinalityType
  <2>3. /\ Cardinality(Attempts(r)') <= Cardinality(S) /\ Cardinality(Attempts(r)') \in Nat
    BY <1>3, <2>1, FS_Subset, FS_CardinalityType
  <2>. HIDE DEF S, I
  <2>. QED
    BY <1>2, <2>1, <2>2, <2>3
<1>4. ASSUME \/ \E x \in Requests : Reject(x) \/ Post(x)
             \/ CutApi \/ RestartApi
      PROVE  BadAt(r)'
  <2>1. UNCHANGED <<ready, unacked, routed, foreign>>
    BY <1>4 DEF Reject, Post, CutApi, RestartApi, brokerVars, envVars
  <2>2. Attempts(r)' = Attempts(r)
    BY <1>1, <2>1 DEF Attempts, CopiesOf, InBroker, Untried, UntriedAt, InHand,
                      Publishing, PublishingAt, Succeeded
  <2>. QED
    BY <1>1, <1>2, <2>1, <2>2, BadKeeps
<1>5. ASSUME NEW x \in Requests, RouteApi(x) PROVE BadAt(r)'
  <2>1. PICK n : /\ n.id = FirstBody(x).id
                 /\ InBroker' = InBroker \union {n} /\ ready' = ready \union {n}
    BY <1>5, StoreOne DEF RouteApi
  <2>2. n.id = x
    BY <2>1 DEF FirstBody
  <2>3. /\ routed' = routed \union {x} /\ foreign' = foreign /\ x \notin routed
    BY <1>5 DEF RouteApi, envVars, CopyInv
  <2>4. CASE x = r
    <3>1. /\ Cardinality(Attempts(r)') <= Cardinality(Attempts(r)) + MaxAttempts
          /\ Cardinality(Attempts(r)') \in Nat
      BY <1>1, <1>3, <2>1, StoredAttempts
    <3>2. MaxAttempts * (1 + foreign) \in Nat
      BY <1>2
    <3>. QED
      BY <1>1, <1>2, <2>3, <2>4, <3>1, <3>2 DEF BadAt
  <2>5. CASE x # r
    <3>1. Attempts(r)' \subseteq Attempts(r)
      BY <1>1, <2>1, <2>2, <2>5, StoredAttempts
    <3>2. /\ Cardinality(Attempts(r)') <= Cardinality(Attempts(r))
          /\ Cardinality(Attempts(r)') \in Nat
      BY <1>2, <3>1, FS_Subset, FS_CardinalityType
    <3>3. MaxAttempts * (1 + foreign) \in Nat /\ (r \in routed' <=> r \in routed)
      BY <1>2, <2>3, <2>5
    <3>. QED
      BY <1>1, <1>2, <2>3, <3>2, <3>3 DEF BadAt
  <2>. QED
    BY <2>4, <2>5
<1>6. CASE ForeignPublish
  <2>1. PICK b : Store(b)
    BY <1>6 DEF ForeignPublish
  <2>2. PICK n : InBroker' = InBroker \union {n} /\ ready' = ready \union {n}
    BY <1>6, <2>1, StoreOne DEF ForeignPublish
  <2>3. routed' = routed /\ foreign' = foreign + 1
    BY <1>6 DEF ForeignPublish
  <2>4. /\ Cardinality(Attempts(r)') <= Cardinality(Attempts(r)) + MaxAttempts
        /\ Cardinality(Attempts(r)') \in Nat
    BY <1>1, <1>3, <2>2, StoredAttempts
  <2>5. /\ MaxAttempts * (1 + (foreign + 1)) = MaxAttempts * (1 + foreign) + MaxAttempts
        /\ MaxAttempts * (1 + foreign) \in Nat
    BY <1>2
  <2>. QED
    BY <1>1, <1>2, <2>3, <2>4, <2>5 DEF BadAt
<1>. QED
  BY <1>4, <1>5, <1>6 DEF ApiAction

\* A publish on the wire was sent by the worker from "publish"; only a failure
\* leads there.
LEMMA PublishedBefore ==
    ASSUME IInv, NEW w \in Workers, WorkerAction(w), ~ProcessFail(w), NEW c,
           PublishingAt(w, c)'
    PROVE  PublishingAt(w, c)
<1>. TypeOK /\ wire[w] \in Seq(Frame)
  BY DEF IInv, TypeOK
<1>1. CASE pc'[w] = "publish" /\ cur'[w] = c
  <2>1. CASE (\E d \in ready : Deliver(w, d)) \/ Start(w) \/ RouteStep(w)
             \/ LoseConnection(w) \/ Crash(w) \/ Reap(w)
    BY <1>1, <2>1 DEF Deliver, Start, RouteStep, RouteRetry, RouteBury, RouteAck,
          RouteNack, LoseConnection, Crash, Reap, TypeOK, localVars, PublishingAt
  <2>2. CASE WorkerStep(w)
    BY <1>1, <2>2 DEF WorkerStep, TakeMalformed, TakeDuplicate, TakeJob, ProcessOk,
          Publish, Ack, Exit, TypeOK, PublishingAt
  <2>. QED
    BY <2>1, <2>2 DEF WorkerAction
<1>2. CASE Succeeded(w, c)'
  <2>1. PICK i \in 1 .. Len(wire'[w]) :
            wire'[w][i].kind \in Publishes /\ wire'[w][i].copy = c
    BY <1>2 DEF Succeeded, InWire
  <2>2. CASE wire'[w] = wire[w]
    BY <2>1, <2>2 DEF PublishingAt, Succeeded, InWire
  <2>3. CASE wire'[w] = << >>
    <3>1. Len(wire'[w]) = 0
      BY <2>3
    <3>. QED
      BY <2>1, <3>1
  <2>4. CASE wire[w] # << >> /\ wire'[w] = Tail(wire[w])
    <3>1. /\ Len(wire[w]) \in Nat /\ Len(Tail(wire[w])) = Len(wire[w]) - 1
          /\ \A j \in 1 .. Len(wire[w]) - 1 : Tail(wire[w])[j] = wire[w][j + 1]
      BY <2>4, HeadTailProperties, LenProperties
    <3>2. i + 1 \in 1 .. Len(wire[w]) /\ wire[w][i + 1] = wire'[w][i]
      BY <2>1, <2>4, <3>1
    <3>. QED
      BY <2>1, <3>2 DEF PublishingAt, Succeeded, InWire
  <2>5. ASSUME NEW f \in Frame, wire'[w] = Append(wire[w], f),
               f.kind \in Publishes => pc[w] = "publish" /\ f.copy = cur[w]
        PROVE  PublishingAt(w, c)
    <3>1. /\ Len(wire[w]) \in Nat /\ Len(wire'[w]) = Len(wire[w]) + 1
          /\ wire'[w][Len(wire[w]) + 1] = f
          /\ \A j \in 1 .. Len(wire[w]) : wire'[w][j] = wire[w][j]
      BY <2>5, AppendProperties, LenProperties
    <3>2. CASE i = Len(wire[w]) + 1
      BY <2>1, <2>5, <3>1, <3>2 DEF PublishingAt
    <3>3. CASE i # Len(wire[w]) + 1
      <4>1. i \in 1 .. Len(wire[w]) /\ wire[w][i] = wire'[w][i]
        BY <2>1, <3>1, <3>3
      <4>. QED
        BY <2>1, <4>1 DEF PublishingAt, Succeeded, InWire
    <3>. QED
      BY <3>2, <3>3
  <2>. QED
    BY <2>2, <2>3, <2>4, <2>5, WireGrows
<1>. QED
  BY <1>1, <1>2 DEF PublishingAt

\* What the other workers have tried and are publishing is as before.
LEMMA OthersAttempt ==
    ASSUME TypeOK, NEW w \in Workers, WorkerAction(w), NEW v \in Workers, v # w, NEW c
    PROVE  /\ UntriedAt(v, c)' <=> UntriedAt(v, c)
           /\ PublishingAt(v, c)' <=> PublishingAt(v, c)
BY OthersStand DEF UntriedAt, InHand, PublishingAt, Succeeded

\* The steps that make no copy and fail no job leave no more to attempt.
LEMMA SettledWorker ==
    ASSUME IInv, DInv, QuietInv, faults' = 0, NEW w \in Workers, WorkerAction(w),
           ~ProcessFail(w), ~RouteRetry(w), NEW r
    PROVE  Attempts(r)' \subseteq Attempts(r)
<1>. TypeOK
  BY DEF IInv
<1>0. ~LoseConnection(w) /\ ~Crash(w) /\ ~Reap(w)
  <2>1. ~LoseConnection(w) /\ ~Crash(w)
    BY DEF LoseConnection, Crash, TypeOK
  <2>2. Reap(w) => faults = 0
    BY DEF Reap, envVars
  <2>. QED
    BY <2>1, <2>2 DEF Reap, EndSession, QuietInv
<1>1. InBroker' \subseteq InBroker
  BY CopiesMove, CopiesStay, AnsweredLeaves DEF WorkerAction, RouteStep
<1>2. ASSUME NEW c PROVE UntriedAt(w, c)' => Untried(c)
  <2>. SUFFICES ASSUME UntriedAt(w, c)' PROVE Untried(c)
    OBVIOUS
  <2>1. c \in unacked'[w] /\ (c \in buf'[w] \/ (pc'[w] = "process" /\ cur'[w] = c))
    BY DEF UntriedAt, InHand
  <2>2. ASSUME NEW d \in ready, Deliver(w, d) PROVE Untried(c)
    <3>1. CASE c = d
      BY <3>1 DEF Untried
    <3>2. CASE c # d
      <4>1. UntriedAt(w, c)
        BY <2>1, <2>2, <3>2 DEF Deliver, TypeOK, UntriedAt, InHand
      <4>. QED
        BY <4>1 DEF Untried
    <3>. QED
      BY <3>1, <3>2
  <2>3. CASE Start(w)
    BY <2>1, <2>3 DEF Start, DInv, ClosedInv
  <2>4. CASE TakeMalformed(w) \/ TakeDuplicate(w) \/ TakeJob(w)
    <3>1. UntriedAt(w, c)
      BY <2>1, <2>4 DEF TakeMalformed, TakeDuplicate, TakeJob, TypeOK, UntriedAt, InHand,
                        brokerVars
    <3>. QED
      BY <3>1 DEF Untried
  <2>5. CASE ProcessOk(w) \/ Publish(w) \/ Ack(w) \/ Exit(w)
    <3>1. UntriedAt(w, c)
      BY <2>1, <2>5 DEF ProcessOk, Publish, Ack, Exit, TypeOK, UntriedAt, InHand,
                        brokerVars
    <3>. QED
      BY <3>1 DEF Untried
  <2>6. CASE RouteBury(w) \/ RouteAck(w) \/ RouteNack(w)
    <3>1. UntriedAt(w, c)
      BY <2>1, <2>6 DEF RouteBury, RouteAck, RouteNack, TypeOK, UntriedAt, InHand,
                        localVars
    <3>. QED
      BY <3>1 DEF Untried
  <2>. QED
    BY <1>0, <2>2, <2>3, <2>4, <2>5, <2>6 DEF WorkerAction, WorkerStep, RouteStep
<1>3. ready' \subseteq ready
  <2>1. ASSUME NEW d \in ready, Deliver(w, d) PROVE ready' \subseteq ready
    BY <2>1 DEF Deliver
  <2>2. CASE RouteAck(w) \/ RouteNack(w)
    BY <2>2 DEF RouteAck, RouteNack
  <2>. QED
    BY <1>0, <2>1, <2>2, CopiesStay DEF WorkerAction, RouteStep
<1>4. ASSUME NEW c
      PROVE  /\ Untried(c)' => Untried(c)
             /\ Publishing(c)' => Publishing(c)
  BY <1>2, <1>3, OthersAttempt, PublishedBefore DEF Untried, Publishing
<1>5. CopiesOf(r)' \subseteq CopiesOf(r)
  BY <1>1 DEF CopiesOf
<1>. QED
  BY <1>4, <1>5, AttemptsShrink

\* The delivery in hand is in no other place.
LEMMA HeldOnce ==
    ASSUME DInv, NEW w \in Workers, NEW c \in unacked[w] \ buf[w]
    PROVE  /\ c \notin ready
           /\ \A v \in Workers : v # w => ~UntriedAt(v, c)
           /\ ~InHand(w, c) => ~Untried(c)
<1>1. c \notin ready /\ \A v \in Workers : v # w => c \notin unacked[v]
  BY DEF DInv, PlaceInv
<1>. QED
  BY <1>1 DEF Untried, UntriedAt

\* A failure takes one attempt from the delivery in hand.
LEMMA FailureCounts ==
    ASSUME IInv, DInv, CopyInv, QuietInv, faults = 0, NEW w \in Workers, ProcessFail(w),
           NEW r \in FailJobs, BadAt(r)
    PROVE  BadAt(r)'
<1>0. PICK h : h = cur[w]
  OBVIOUS
<1>. TypeOK
  BY DEF IInv
<1>1. /\ pc[w] = "process" /\ pc' = [pc EXCEPT ![w] = "publish"]
      /\ badRuns' = [badRuns EXCEPT ![h.id] = @ + 1]
      /\ UNCHANGED <<ready, unacked, session, buf, cur, wire, routed, foreign>>
  BY <1>0 DEF ProcessFail, brokerVars, envVars
<1>2. h \in unacked[w] \ buf[w] /\ h \in Copy /\ h.id \in Requests
  BY <1>0, <1>1 DEF DInv, HeldInv, QuietInv, IInv, AttemptInv, Backed, Busy
<1>3. InBroker' = InBroker /\ CopiesOf(r)' = CopiesOf(r)
  BY <1>1 DEF InBroker, CopiesOf
<1>4. UntriedAt(w, h) /\ Untried(h)
  BY <1>0, <1>1, <1>2 DEF Untried, UntriedAt, InHand
<1>5. ~Untried(h)'
  <2>1. \A v \in Workers : v # w => ~UntriedAt(v, h)'
    BY <1>1, <1>2, HeldOnce DEF UntriedAt, InHand, TypeOK
  <2>2. ~UntriedAt(w, h)'
    BY <1>1, <1>2 DEF UntriedAt, InHand, TypeOK
  <2>3. h \notin ready'
    BY <1>1, <1>2, HeldOnce
  <2>. QED
    BY <2>1, <2>2, <2>3 DEF Untried
<1>6. ASSUME NEW c, c # h
      PROVE  /\ Untried(c)' => Untried(c)
             /\ Publishing(c)' => Publishing(c)
  BY <1>0, <1>1, <1>6 DEF Untried, UntriedAt, InHand, Publishing, PublishingAt, Succeeded, TypeOK
<1>7. r \in Requests
  BY RequestsAssumption
<1>8. badRuns[r] \in Nat /\ MaxAttempts * (1 + foreign) \in Nat
      /\ (IF r \in routed THEN 0 ELSE MaxAttempts) \in Nat
  BY <1>7, LimitsAssumption DEF TypeOK
<1>9. IsFiniteSet(Attempts(r)) /\ Cardinality(Attempts(r)) \in Nat
  BY AttemptsAre
<1>10. CASE h.id # r
  <2>1. Attempts(r)' \subseteq Attempts(r)
    <3>1. h \notin CopiesOf(r)
      BY <1>10 DEF CopiesOf
    <3>. QED
      BY <1>3, <1>6, <3>1, AttemptsShrink
  <2>2. badRuns'[r] = badRuns[r]
    BY <1>1, <1>10, <1>7 DEF TypeOK
  <2>. QED
    BY <1>1, <1>7, <2>1, <2>2, BadKeeps
<1>11. CASE h.id = r
  <2>. DEFINE a == <<h, h.attempt>>
  <2>0. h \in InBroker /\ h \in CopiesOf(r)
    BY <1>2, <1>11 DEF InBroker, CopiesOf
  <2>1. h.attempt \in 1 .. MaxAttempts
    BY <1>2, <2>0, RequestsAssumption, LimitsAssumption DEF CopyInv, Copy
  <2>2. a \in Attempts(r)
    BY <1>4, <2>0, <2>1 DEF Attempts
  <2>3. Attempts(r)' \subseteq Attempts(r) \ {a}
    <3>. SUFFICES ASSUME NEW t \in Attempts(r)' PROVE t \in Attempts(r) /\ t # a
      OBVIOUS
    <3>1. /\ t \in CopiesOf(r) \X (1 .. MaxAttempts)
          /\ \/ t[2] >= t[1].attempt /\ Untried(t[1])'
             \/ t[2] > t[1].attempt /\ Publishing(t[1])'
      BY <1>3 DEF Attempts
    <3>2. t[1] \in CopiesOf(r) /\ t[2] \in 1 .. MaxAttempts /\ t = <<t[1], t[2]>>
      BY <3>1
    <3>3. CASE t[1] = h
      <4>1. t[2] > h.attempt
        <5>1. ~Untried(t[1])'
          BY <1>5, <3>3
        <5>. QED
          BY <3>1, <3>3, <5>1
      <4>2. t[2] >= h.attempt /\ t[2] # h.attempt
        BY <2>1, <3>2, <4>1
      <4>3. t \in Attempts(r)
        BY <1>4, <3>1, <3>3, <4>2 DEF Attempts
      <4>. QED
        BY <4>2, <4>3
    <3>4. CASE t[1] # h
      <4>1. t \in Attempts(r)
        BY <1>6, <3>1, <3>4 DEF Attempts
      <4>. QED
        BY <3>4, <4>1
    <3>. QED
      BY <3>3, <3>4
  <2>. HIDE DEF a
  <2>4. /\ IsFiniteSet(Attempts(r) \ {a})
        /\ Cardinality(Attempts(r) \ {a}) = Cardinality(Attempts(r)) - 1
    BY <1>9, <2>2, FS_RemoveElement
  <2>5. /\ Cardinality(Attempts(r)') <= Cardinality(Attempts(r)) - 1
        /\ Cardinality(Attempts(r)') \in Nat
    BY <2>3, <2>4, FS_Subset, FS_CardinalityType
  <2>6. badRuns'[r] = badRuns[r] + 1
    BY <1>1, <1>11, <1>7 DEF TypeOK
  <2>. QED
    BY <1>1, <1>8, <1>9, <2>5, <2>6 DEF BadAt
<1>. QED
  BY <1>10, <1>11

\* A retry hands the attempts of the old copy to the new one.
LEMMA RetryCounts ==
    ASSUME IInv, DInv, CopyInv, WireInv, QuietInv, faults = 0, NEW w \in Workers,
           RouteRetry(w),
           NEW r \in FailJobs, BadAt(r)
    PROVE  BadAt(r)'
<1>0. PICK h, f : h = HeadCopy(w) /\ f = Head(wire[w])
  OBVIOUS
<1>. TypeOK /\ r \in Requests
  BY RequestsAssumption DEF IInv
<1>1. /\ wire[w] # << >> /\ PopWire(w) /\ f.kind = "retry" /\ f \in InWire(wire[w])
      /\ h = f.copy /\ h \in unacked[w] \ buf[w] /\ h \in InBroker /\ h \in Copy
      /\ ~InHand(w, h)
  BY <1>0, HeadIsHeld DEF RouteStep, RouteRetry, HeadIs
<1>2. UNCHANGED <<unacked, session, buf, pc, cur, processed, routed, foreign, badRuns>>
  BY DEF RouteRetry, localVars, runVars, envVars
<1>3. PICK n : /\ n.id = h.id /\ n.attempt = h.attempt + 1 /\ n \notin InBroker
               /\ InBroker' = InBroker \union {n} /\ ready' = ready \union {n}
  <2>1. PICK n : /\ n.id = Raised(h).id /\ n.attempt = Raised(h).attempt
                 /\ n \notin InBroker
                 /\ InBroker' = InBroker \union {n} /\ ready' = ready \union {n}
    BY <1>0, StoreOne DEF RouteRetry
  <2>. QED
    BY <2>1 DEF Raised
<1>4. ASSUME NEW c, c # n
      PROVE  /\ Untried(c)' => Untried(c)
             /\ Publishing(c)' => Publishing(c)
  <2>1. WorkerAction(w) /\ ~ProcessFail(w)
    BY <1>2 DEF WorkerAction, RouteStep, RouteRetry, ProcessFail, localVars, TypeOK
  <2>2. Untried(c)' => Untried(c)
    BY <1>2, <1>3, <1>4 DEF Untried, UntriedAt, InHand
  <2>3. Publishing(c)' => Publishing(c)
    BY <2>1, OthersAttempt, PublishedBefore DEF Publishing
  <2>. QED
    BY <2>2, <2>3
<1>5. CASE h.id # r
  <2>1. CopiesOf(r)' \subseteq CopiesOf(r) /\ n \notin CopiesOf(r)'
    BY <1>3, <1>5 DEF CopiesOf
  <2>2. Attempts(r)' \subseteq Attempts(r)
    BY <1>4, <2>1, AttemptsShrink
  <2>. QED
    BY <1>2, <2>2, BadKeeps
<1>6. CASE h.id = r
  \* Before the step h was being published; after it, it stands for nothing.
  <2>1. Publishing(h) /\ h \in CopiesOf(r)
    BY <1>1, <1>6 DEF Publishing, PublishingAt, Succeeded, Publishes, CopiesOf
  <2>2. h # n
    BY <1>1, <1>3
  <2>3. ~Untried(h)'
    BY <1>1, <1>4, <2>2, HeldOnce
  <2>4. ~Publishing(h)'
    <3>1. ASSUME NEW v \in Workers, v # w PROVE ~PublishingAt(v, h)'
      <4>1. wire'[v] = wire[v] /\ h \notin unacked[v]
        BY <1>1, <3>1 DEF PopWire, TypeOK, DInv, PlaceInv
      <4>2. ~(pc[v] = "publish" /\ cur[v] = h)
        BY <4>1 DEF DInv, HeldInv, QuietInv, Busy
      <4>3. ~Succeeded(v, h)
        BY <4>1 DEF DInv, FrameInv, Succeeded
      <4>. QED
        BY <1>2, <4>1, <4>2, <4>3 DEF PublishingAt, Succeeded
    <3>2. ~(pc[w] = "publish" /\ cur[w] = h)
      BY <1>1 DEF DInv, FrameInv, Busy
    <3>3. ~Succeeded(w, h)'
      <4>1. /\ Len(wire[w]) \in Nat \ {0} /\ Head(wire[w]) = wire[w][1]
            /\ wire'[w] = Tail(wire[w]) /\ Len(Tail(wire[w])) = Len(wire[w]) - 1
            /\ \A j \in 1 .. Len(wire[w]) - 1 : Tail(wire[w])[j] = wire[w][j + 1]
        BY <1>1, HeadTailProperties, LenProperties, EmptySeq DEF PopWire, TypeOK
      <4>. SUFFICES ASSUME NEW i \in 1 .. Len(wire'[w]),
                           wire'[w][i].kind \in Publishes, wire'[w][i].copy = h
                    PROVE  FALSE
        BY DEF Succeeded, InWire
      <4>2. /\ i + 1 \in 1 .. Len(wire[w]) /\ i + 1 # 1 /\ 1 \in 1 .. Len(wire[w])
            /\ wire[w][i + 1] = wire'[w][i]
        BY <4>1
      <4>3. wire[w][1].kind \in Publishes /\ wire[w][1].copy = h
        BY <1>0, <1>1, <4>1 DEF Publishes
      <4>. QED
        BY <4>2, <4>3 DEF WireInv, OnePublish
    <3>. QED
      BY <1>2, <3>1, <3>2, <3>3 DEF Publishing, PublishingAt
  <2>. DEFINE g == [t \in Attempts(r)' |-> IF t[1] = n THEN <<h, t[2]>> ELSE t]
  <2>5. ASSUME NEW t \in Attempts(r)'
        PROVE  /\ t[2] \in 1 .. MaxAttempts /\ t = <<t[1], t[2]>> /\ t[1] # h
               /\ t[1] # n => t \in Attempts(r)
               /\ t[1] = n => <<h, t[2]>> \in Attempts(r)
    <3>1. /\ t \in CopiesOf(r)' \X (1 .. MaxAttempts)
          /\ \/ t[2] >= t[1].attempt /\ Untried(t[1])'
             \/ t[2] > t[1].attempt /\ Publishing(t[1])'
      BY DEF Attempts
    <3>2. t[1] \in CopiesOf(r)' /\ t[2] \in 1 .. MaxAttempts /\ t = <<t[1], t[2]>>
      BY <3>1
    <3>3. t[1] # h
      BY <2>3, <2>4, <3>1
    <3>4. t[1] # n => t \in Attempts(r)
      <4>. SUFFICES ASSUME t[1] # n PROVE t \in Attempts(r)
        OBVIOUS
      <4>1. t[1] \in CopiesOf(r)
        BY <1>3, <3>2 DEF CopiesOf
      <4>. QED
        BY <1>4, <3>1, <3>2, <4>1 DEF Attempts
    <3>5. t[1] = n => <<h, t[2]>> \in Attempts(r)
      <4>. SUFFICES ASSUME t[1] = n PROVE <<h, t[2]>> \in Attempts(r)
        OBVIOUS
      <4>1. t[2] > h.attempt
        BY <1>1, <1>3, <3>1, <3>2, LimitsAssumption DEF Copy
      <4>. QED
        BY <2>1, <3>2, <4>1 DEF Attempts
    <3>. QED
      BY <3>2, <3>3, <3>4, <3>5
  <2>6. g \in [Attempts(r)' -> Attempts(r)]
    BY <2>5
  <2>7. ASSUME NEW s \in Attempts(r)', NEW t \in Attempts(r)', g[s] = g[t]
        PROVE  s = t
    <3>1. /\ s = <<s[1], s[2]>> /\ t = <<t[1], t[2]>> /\ s[1] # h /\ t[1] # h
      BY <2>5
    <3>2. /\ g[s] = IF s[1] = n THEN <<h, s[2]>> ELSE s
          /\ g[t] = IF t[1] = n THEN <<h, t[2]>> ELSE t
      OBVIOUS
    <3>. HIDE DEF g
    <3>3. \A x : <<h, x>>[1] = h /\ <<h, x>>[2] = x
      OBVIOUS
    <3>4. CASE s[1] = n /\ t[1] = n
      <4>1. <<h, s[2]>> = <<h, t[2]>>
        BY <2>7, <3>2, <3>4
      <4>2. s[2] = t[2]
        BY <4>1
      <4>. QED
        BY <3>1, <3>4, <4>2
    <3>5. CASE s[1] # n /\ t[1] # n
      BY <2>7, <3>2, <3>5
    <3>6. CASE s[1] = n /\ t[1] # n
      <4>1. t = <<h, s[2]>>
        BY <2>7, <3>2, <3>6
      <4>. QED
        BY <3>1, <3>3, <4>1
    <3>7. CASE s[1] # n /\ t[1] = n
      <4>1. s = <<h, t[2]>>
        BY <2>7, <3>2, <3>7
      <4>. QED
        BY <3>1, <3>3, <4>1
    <3>. QED
      BY <3>4, <3>5, <3>6, <3>7
  <2>. HIDE DEF g
  <2>8. g \in Injection(Attempts(r)', Attempts(r))
    BY <2>6, <2>7 DEF Injection, IsInjective
  <2>9. IsFiniteSet(Attempts(r)) /\ Cardinality(Attempts(r)) \in Nat
    BY AttemptsAre
  <2>10. /\ Cardinality(Attempts(r)') <= Cardinality(Attempts(r))
         /\ Cardinality(Attempts(r)') \in Nat
    BY <2>8, <2>9, FS_Injection, FS_CardinalityType
  <2>11. /\ badRuns[r] \in Nat /\ MaxAttempts * (1 + foreign) \in Nat
         /\ (IF r \in routed THEN 0 ELSE MaxAttempts) \in Nat
    BY LimitsAssumption DEF TypeOK
  <2>. QED
    BY <1>2, <2>9, <2>10, <2>11 DEF BadAt
<1>. QED
  BY <1>5, <1>6

\* Every step keeps the budget of failures.
LEMMA BadNext ==
    ASSUME IInv, IInv', DInv, LInv, CopyInv, WireInv, QuietInv, BadInv, Next
    PROVE  BadInv'
<1>. SUFFICES ASSUME faults' = 0, NEW r \in FailJobs PROVE BadAt(r)'
  BY DEF BadInv
<1>1. faults = 0
  <2>1. faults' \in {faults, faults + 1} /\ faults \in Nat
    BY DEF Next, WorkerStep, RouteStep, Reject, Post, RouteApi, CutApi, RestartApi,
           ForeignPublish, Deliver, Start, TakeMalformed, TakeDuplicate, TakeJob,
           ProcessOk, ProcessFail, Publish, Ack, Exit, RouteRetry, RouteBury, RouteAck,
           RouteNack, LoseConnection, Crash, Reap, envVars, IInv, TypeOK
  <2>. QED
    BY <2>1
<1>2. BadAt(r) /\ r \in Requests
  BY <1>1, RequestsAssumption DEF BadInv
<1>3. CASE ApiAction \/ ForeignPublish
  BY <1>2, <1>3, ApiBad
<1>4. ASSUME NEW w \in Workers, WorkerAction(w) PROVE BadAt(r)'
  <2>1. CASE ProcessFail(w)
    BY <1>1, <1>2, <2>1, FailureCounts
  <2>2. CASE RouteRetry(w)
    BY <1>1, <1>2, <2>2, RetryCounts
  <2>3. CASE ~ProcessFail(w) /\ ~RouteRetry(w)
    <3>1. Attempts(r)' \subseteq Attempts(r)
      BY <1>4, <2>3, SettledWorker
    <3>2. UNCHANGED <<badRuns, routed, foreign>>
      BY <1>4, <2>3, WorkerLeavesApi
         DEF WorkerAction, WorkerStep, RouteStep, Deliver, Start, TakeMalformed,
             TakeDuplicate, TakeJob, ProcessOk, Publish, Ack, Exit, RouteBury, RouteAck,
             RouteNack, LoseConnection, Crash, Reap, runVars, envVars
    <3>. QED
      BY <1>2, <3>1, <3>2, BadKeeps
  <2>. QED
    BY <2>1, <2>2, <2>3
<1>. QED
  BY <1>3, <1>4, NextSplit

-----------------------------------------------------------------------------
(* The invariant of the budgets.                                           *)

\* There is nothing to count at the start, and one execution to come.
LEMMA InitBInv == Init => BInv
<1>. SUFFICES ASSUME Init PROVE BInv
  OBVIOUS
<1>1. InBroker = {} /\ \A r : CopiesOf(r) = {} /\ Attempts(r) = {}
  BY DEF Init, InBroker, CopiesOf, Attempts
<1>2. \A r : UsedBy(r) = {} /\ Detached(r) = {}
  BY DEF Init, UsedBy, Used, Detached, Running
<1>3. IsFiniteSet({}) /\ Cardinality({}) = 0
  BY FS_EmptySet
<1>4. CopyInv
  BY <1>1, <1>3 DEF Init, CopyInv
<1>5. WireInv
  <2>1. ASSUME NEW w \in Workers PROVE wire[w] = << >> /\ Len(wire[w]) = 0 /\ 1 .. 0 = {}
    BY EmptySeq DEF Init
  <2>. QED
    BY <2>1 DEF WireInv, OnePublish
<1>6. UsedInv /\ QuietInv
  BY DEF Init, UsedInv, Used, QuietInv
<1>7. OkInv
  <2>. SUFFICES ASSUME NEW r \in Requests \ FailJobs PROVE OkAt(r)
    BY DEF OkInv
  <2>1. /\ okRuns[r] = 0 /\ r \notin routed /\ foreign = 0 /\ faults = 0
        /\ Cardinality(CopiesOf(r)) = 0 /\ Cardinality(UsedBy(r)) = 0
        /\ Cardinality(Detached(r)) = 0
    BY <1>1, <1>2, <1>3 DEF Init
  <2>. QED
    BY <2>1 DEF OkAt
<1>8. BadInv
  <2>. SUFFICES ASSUME NEW r \in FailJobs PROVE BadAt(r)
    BY DEF BadInv
  <2>1. /\ badRuns[r] = 0 /\ Cardinality(Attempts(r)) = 0 /\ r \notin routed
        /\ foreign = 0
    BY <1>1, <1>3, RequestsAssumption DEF Init
  <2>. QED
    BY <2>1, LimitsAssumption DEF BadAt
<1>. QED
  BY <1>4, <1>5, <1>6, <1>7, <1>8 DEF BInv

\* Every step keeps it.
LEMMA NextBInv ==
    IInv /\ IInv' /\ DInv /\ LInv /\ LInv' /\ BInv /\ [Next]_vars => BInv'
<1>. SUFFICES ASSUME IInv, IInv', DInv, LInv, LInv', BInv, [Next]_vars PROVE BInv'
  OBVIOUS
<1>1. CASE Next
  <2>1. CopyInv'
    BY <1>1, CopyNext DEF BInv
  <2>2. WireInv' /\ UsedInv' /\ QuietInv'
    BY <1>1, WireNext, UsedNext, QuietNext DEF BInv, IInv
  <2>3. OkInv'
    BY <1>1, <2>1, OkNext DEF BInv
  <2>4. BadInv'
    BY <1>1, BadNext DEF BInv
  <2>. QED
    BY <2>1, <2>2, <2>3, <2>4 DEF BInv
<1>2. CASE UNCHANGED vars
  <2>1. UNCHANGED <<apiWire, ready, unacked, session, pc, buf, cur, processed, wire,
                    routed, okRuns, badRuns, faults, foreign>>
    BY <1>2 DEF vars, apiVars, brokerVars, localVars, runVars, envVars
  <2>2. CopyInv' /\ WireInv' /\ UsedInv' /\ QuietInv'
    BY <2>1 DEF BInv, CopyInv, InBroker, WireInv, UsedInv, Used, InHand, QuietInv
  <2>3. OkInv'
    <3>. SUFFICES ASSUME NEW r \in Requests \ FailJobs PROVE OkAt(r)'
      BY DEF OkInv
    <3>1. OkAt(r)
      BY DEF BInv, OkInv
    <3>2. CopiesOf(r)' = CopiesOf(r)
      BY <2>1 DEF CopiesOf, InBroker
    <3>3. Detached(r)' = Detached(r) /\ UsedBy(r)' = UsedBy(r)
      BY <2>1 DEF Detached, Running, UsedBy, Used, InHand
    <3>. QED
      BY <2>1, <3>1, <3>2, <3>3 DEF OkAt
  <2>4. BadInv'
    BY <2>1 DEF BInv, BadInv, BadAt, Attempts, CopiesOf, InBroker, Untried, UntriedAt,
                InHand, Publishing, PublishingAt, Succeeded
  <2>. QED
    BY <2>2, <2>3, <2>4 DEF BInv
<1>. QED
  BY <1>1, <1>2

\* It holds in every behaviour.
LEMMA BInvHolds == Spec => []BInv
BY InitBInv, NextBInv, IInvHolds, DInvHolds, LInvHolds, PTL DEF Spec

\* ExecutionBudget: at-least-once delivery costs at most one more success for
\* each time the job is published and for each fault, and without faults a job
\* fails at most MaxAttempts times for each time it is published.
THEOREM ExecutionsArePaidFor == Spec => []ExecutionBudget
<1>1. IInv /\ DInv /\ LInv /\ BInv => ExecutionBudget
  <2>. SUFFICES ASSUME IInv, DInv, LInv, BInv, NEW r \in Requests
                PROVE  /\ okRuns[r] <= 1 + foreign + faults
                       /\ faults = 0 => badRuns[r] <= MaxAttempts * (1 + foreign)
    BY DEF ExecutionBudget
  <2>1. /\ okRuns[r] \in Nat /\ badRuns[r] \in Nat /\ foreign \in Nat /\ faults \in Nat
        /\ MaxAttempts \in Nat
    BY LimitsAssumption DEF IInv, TypeOK
  <2>2. MaxAttempts * (1 + foreign) \in Nat
    BY <2>1
  <2>3. CASE r \in FailJobs
    <3>1. okRuns[r] = 0
      BY <2>1, <2>3 DEF LInv, RanInv
    <3>2. Cardinality(Attempts(r)) \in Nat
      BY AttemptsAre DEF BInv
    <3>3. faults = 0 => BadAt(r)
      BY <2>3 DEF BInv, BadInv
    <3>. QED
      BY <2>1, <2>2, <3>1, <3>2, <3>3 DEF BadAt
  <2>4. CASE r \notin FailJobs
    <3>1. badRuns[r] = 0
      BY <2>1, <2>4 DEF LInv, RanInv
    <3>2. /\ Cardinality(UsedBy(r)) <= Cardinality(CopiesOf(r))
          /\ Cardinality(UsedBy(r)) \in Nat /\ Cardinality(CopiesOf(r)) \in Nat
          /\ Cardinality(Detached(r)) \in Nat
      BY UsedHaveCopies, CountsAre DEF LInv, BInv
    <3>3. OkAt(r)
      BY <2>4 DEF BInv, OkInv
    <3>. QED
      BY <2>1, <2>2, <3>1, <3>2, <3>3 DEF OkAt
  <2>. QED
    BY <2>3, <2>4
<1>. QED
  BY <1>1, IInvHolds, DInvHolds, LInvHolds, BInvHolds, PTL
=============================================================================
