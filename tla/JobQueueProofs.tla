--------------------------- MODULE JobQueueProofs ---------------------------
(***************************************************************************)
(* Proofs about JobQueue for all requests, workers, tags, attempt limits,  *)
(* prefetch values and numbers of faults.                                  *)
(***************************************************************************)
EXTENDS JobQueue, SequenceTheorems, TLAPS

-----------------------------------------------------------------------------
(* Part 1: types, and what an attempt number vouches for.                  *)

\* A copy at attempt a has been executed, and has failed, a - 1 times.
Backed == {c \in Copy : c.id \in Requests => badRuns[c.id] + 1 >= c.attempt}

\* The copy in hand after it failed once more.
Spent == {c \in Copy : c.id \in Requests /\ badRuns[c.id] >= c.attempt}

\* What a frame on its way to the broker vouches for.
SoundFrame ==
    {f \in Frame :
        /\ f.copy \in Backed
        /\ f.kind = "retry" => f.copy \in Spent /\ CanRetry(f.copy)
        /\ f.kind = "bury" => f.copy \in Spent /\ ~CanRetry(f.copy)
        /\ f.kind = "nack" => f.copy.id = NoId}

SoundBody == {b \in Body : b.id \in Requests => badRuns[b.id] >= MaxAttempts}

Busy == {"process", "publish", "ack"}

\* Every place a message can be in holds only what its attempt number allows.
AttemptInv ==
    /\ ready \subseteq Backed
    /\ unacked \in [Workers -> SUBSET Backed]
    /\ buf \in [Workers -> SUBSET Backed]
    /\ \A w \in Workers :
        /\ pc[w] \in Busy => cur[w] \in Backed /\ cur[w].id \in Requests
        /\ pc[w] = "publish" => cur[w] \in Spent
    /\ wire \in [Workers -> Seq(SoundFrame)]
    /\ dlq \subseteq SoundBody

IInv == TypeOK /\ AttemptInv

\* The body that one of the broker's store actions puts into task_jobs keeps
\* ready within a set that holds every copy of that body.
LEMMA StoreIn ==
    ASSUME NEW S, NEW b, ready \subseteq S, Store(b),
           \A t \in Tags : [tag |-> t, id |-> b.id, attempt |-> b.attempt] \in S
    PROVE  ready' \subseteq S
BY DEF Store

\* A well-typed frame keeps the wires well-typed.
LEMMA SendIn ==
    ASSUME NEW S, NEW w \in Workers, NEW k, NEW c, Send(w, k, c),
           wire \in [Workers -> Seq(S)], [kind |-> k, copy |-> c] \in S
    PROVE  wire' \in [Workers -> Seq(S)]
BY DEF Send

\* So does taking one off.
LEMMA PopIn ==
    ASSUME NEW S, NEW w \in Workers, PopWire(w),
           wire \in [Workers -> Seq(S)], wire[w] # << >>
    PROVE  wire' \in [Workers -> Seq(S)] /\ HeadCopy(w) = wire[w][1].copy
                /\ Head(wire[w]) \in S
BY DEF PopWire, HeadCopy

\* Nothing has been published yet.
LEMMA InitIInv == Init => IInv
BY RequestsAssumption, LimitsAssumption
   DEF Init, IInv, TypeOK, AttemptInv, Busy

\* Failed executions are only ever added, so what a message vouches for stays
\* true while it waits.
LEMMA BackedGrows ==
    ASSUME badRuns \in [Requests -> Nat], badRuns' \in [Requests -> Nat],
           \A r \in Requests : badRuns'[r] >= badRuns[r]
    PROVE  /\ Backed \subseteq Backed'
           /\ Spent \subseteq Spent'
           /\ SoundFrame \subseteq SoundFrame'
           /\ SoundBody \subseteq SoundBody'
<1>. MaxAttempts \in Nat
  BY LimitsAssumption
<1>1. Backed \subseteq Backed' /\ Spent \subseteq Spent'
  BY DEF Backed, Spent, Copy
<1>2. SoundFrame \subseteq SoundFrame'
  BY <1>1 DEF SoundFrame, CanRetry, Raised
<1>3. SoundBody \subseteq SoundBody'
  BY DEF SoundBody, Body
<1>. QED
  BY <1>1, <1>2, <1>3

\* The steps of the API process and its broker connection.
LEMMA ApiStep ==
    ASSUME IInv,
           \/ \E r \in Requests : Reject(r) \/ Post(r) \/ RouteApi(r)
           \/ CutApi \/ RestartApi
    PROVE  IInv'
<1>. USE RequestsAssumption, LimitsAssumption DEF IInv
<1>1. ASSUME \/ \E r \in Requests : Reject(r) \/ Post(r)
             \/ CutApi \/ RestartApi
      PROVE  IInv'
  <2>1. /\ UNCHANGED <<brokerVars, localVars, wire, routed, runVars, envVars>>
        /\ apiWire' \subseteq Requests /\ api' \in {"up", "cut"}
        /\ reply' \in [Requests -> {"none", "4xx", "500", "202"}]
    BY <1>1 DEF Reject, Post, CutApi, RestartApi, TypeOK
  <2>2. TypeOK'
    BY <2>1 DEF TypeOK, brokerVars, localVars, runVars, envVars
  <2>3. AttemptInv'
    BY <2>1 DEF AttemptInv, Backed, Spent, SoundFrame, SoundBody, brokerVars,
                localVars, runVars
  <2>. QED
    BY <2>2, <2>3
<1>2. ASSUME NEW r \in Requests, RouteApi(r)
      PROVE  IInv'
  <2>. DEFINE b == FirstBody(r)
  <2>1. \A t \in Tags : [tag |-> t, id |-> b.id, attempt |-> b.attempt] \in Backed
    BY DEF Backed, Copy, FirstBody, TypeOK
  <2>2. ready' \subseteq Backed
    BY <1>2, <2>1, StoreIn DEF RouteApi, AttemptInv
  <2>3. TypeOK'
    BY <1>2, <2>2 DEF RouteApi, TypeOK, Backed, localVars, runVars, envVars
  <2>4. AttemptInv'
    BY <1>2, <2>2 DEF RouteApi, AttemptInv, Backed, Spent, SoundFrame, SoundBody,
                localVars, runVars, envVars
  <2>. QED
    BY <2>3, <2>4
<1>. QED
  BY <1>1, <1>2

\* Messages published by hand, and deliveries.
LEMMA QueueStep ==
    ASSUME IInv, ForeignPublish \/ \E w \in Workers, c \in ready : Deliver(w, c)
    PROVE  IInv'
<1>. USE RequestsAssumption, LimitsAssumption DEF IInv
<1>1. CASE ForeignPublish
  <2>1. PICK b \in {Malformed} \union {FirstBody(r) : r \in routed} : Store(b)
    BY <1>1 DEF ForeignPublish
  <2>2. \A t \in Tags : [tag |-> t, id |-> b.id, attempt |-> b.attempt] \in Backed
    BY DEF Backed, Copy, FirstBody, Malformed, TypeOK
  <2>3. ready' \subseteq Backed
    BY <2>1, <2>2, StoreIn DEF AttemptInv
  <2>4. TypeOK'
    BY <1>1, <2>3 DEF ForeignPublish, TypeOK, Backed, apiVars, localVars, runVars
  <2>5. AttemptInv'
    BY <1>1, <2>3 DEF ForeignPublish, AttemptInv, Backed, Spent, SoundFrame,
                      SoundBody, localVars, runVars
  <2>. QED
    BY <2>4, <2>5
<1>2. ASSUME NEW w \in Workers, NEW c \in ready, Deliver(w, c)
      PROVE  IInv'
  <2>1. TypeOK'
    BY <1>2 DEF Deliver, TypeOK, apiVars, runVars, envVars
  <2>2. AttemptInv'
    BY <1>2 DEF Deliver, TypeOK, AttemptInv, Backed, Spent, SoundFrame, SoundBody,
                runVars
  <2>. QED
    BY <2>1, <2>2
<1>. QED
  BY <1>1, <1>2

\* Taking a delivery from msgs.
LEMMA TakeStep ==
    ASSUME IInv, NEW w \in Workers,
           TakeMalformed(w) \/ TakeDuplicate(w) \/ TakeJob(w)
    PROVE  IInv'
<1>. USE RequestsAssumption, LimitsAssumption DEF IInv
<1>1. ASSUME NEW c \in buf[w], NEW k \in {"ack", "nack"}, k = "nack" => c.id = NoId,
             Send(w, k, c)
      PROVE  wire' \in [Workers -> Seq(SoundFrame)] /\ wire' \in [Workers -> Seq(Frame)]
  <2>. [kind |-> k, copy |-> c] \in SoundFrame /\ SoundFrame \subseteq Frame
    BY <1>1 DEF SoundFrame, Frame, AttemptInv, Backed
  <2>. QED
    BY <1>1, SendIn DEF AttemptInv, TypeOK
<1>2. CASE TakeMalformed(w)
  <2>1. wire' \in [Workers -> Seq(SoundFrame)] /\ wire' \in [Workers -> Seq(Frame)]
    BY <1>1, <1>2 DEF TakeMalformed
  <2>. PICK c \in buf[w] : buf' = [buf EXCEPT ![w] = @ \ {c}]
    BY <1>2 DEF TakeMalformed
  <2>2. TypeOK'
    BY <1>2, <2>1 DEF TakeMalformed, TypeOK, apiVars, brokerVars, runVars, envVars
  <2>3. AttemptInv'
    BY <1>2, <2>1 DEF TakeMalformed, AttemptInv, Backed, Spent, SoundFrame,
                      SoundBody, brokerVars, runVars
  <2>. QED
    BY <2>2, <2>3
<1>3. CASE TakeDuplicate(w)
  <2>1. wire' \in [Workers -> Seq(SoundFrame)] /\ wire' \in [Workers -> Seq(Frame)]
    BY <1>1, <1>3 DEF TakeDuplicate
  <2>. PICK c \in buf[w] : buf' = [buf EXCEPT ![w] = @ \ {c}]
    BY <1>3 DEF TakeDuplicate
  <2>2. TypeOK'
    BY <1>3, <2>1 DEF TakeDuplicate, TypeOK, apiVars, brokerVars, runVars, envVars
  <2>3. AttemptInv'
    BY <1>3, <2>1 DEF TakeDuplicate, AttemptInv, Backed, Spent, SoundFrame,
                      SoundBody, brokerVars, runVars
  <2>. QED
    BY <2>2, <2>3
<1>4. CASE TakeJob(w)
  <2>1. PICK c \in buf[w] :
            /\ c.id # NoId
            /\ buf' = [buf EXCEPT ![w] = @ \ {c}]
            /\ cur' = [cur EXCEPT ![w] = c]
    BY <1>4 DEF TakeJob
  <2>2. c \in Backed /\ c.id \in Requests
    BY <2>1 DEF AttemptInv, Backed, Copy
  <2>3. TypeOK'
    BY <1>4, <2>1, <2>2 DEF TakeJob, TypeOK, Backed, apiVars, brokerVars, runVars,
                            envVars
  <2>4. AttemptInv'
    BY <1>4, <2>1, <2>2 DEF TakeJob, TypeOK, AttemptInv, Backed, Spent, SoundFrame,
                            SoundBody, Busy, brokerVars, runVars
  <2>. QED
    BY <2>3, <2>4
<1>. QED
  BY <1>2, <1>3, <1>4

\* Running processTask.
LEMMA ProcessStep ==
    ASSUME IInv, NEW w \in Workers, ProcessOk(w) \/ ProcessFail(w)
    PROVE  IInv'
<1>. USE RequestsAssumption, LimitsAssumption DEF IInv
<1>1. pc[w] = "process" /\ cur[w] \in Backed /\ cur[w].id \in Requests
  BY DEF AttemptInv, Busy, ProcessOk, ProcessFail
<1>2. CASE ProcessOk(w)
  <2>1. TypeOK'
    BY <1>1, <1>2 DEF ProcessOk, TypeOK, apiVars, brokerVars, envVars
  <2>2. AttemptInv'
    BY <1>1, <1>2 DEF ProcessOk, TypeOK, AttemptInv, Backed, Spent, SoundFrame,
                      SoundBody, Busy, brokerVars
  <2>. QED
    BY <2>1, <2>2
<1>3. CASE ProcessFail(w)
  <2>1. TypeOK'
    BY <1>1, <1>3 DEF ProcessFail, TypeOK, apiVars, brokerVars, envVars
  <2>2. \A r \in Requests : badRuns'[r] >= badRuns[r]
    BY <1>1, <1>3 DEF ProcessFail, TypeOK
  <2>3. /\ Backed \subseteq Backed' /\ Spent \subseteq Spent'
        /\ SoundFrame \subseteq SoundFrame' /\ SoundBody \subseteq SoundBody'
    BY <2>1, <2>2, BackedGrows DEF TypeOK
  <2>4. cur[w] \in Spent'
    BY <1>1, <1>3 DEF ProcessFail, TypeOK, Spent, Backed, Copy
  <2>5. wire' \in [Workers -> Seq(SoundFrame')]
    BY <1>3, <2>3 DEF ProcessFail, AttemptInv
  <2>6. AttemptInv'
    BY <1>1, <1>3, <2>3, <2>4, <2>5
       DEF ProcessFail, TypeOK, AttemptInv, Busy, brokerVars
  <2>. QED
    BY <2>1, <2>6
<1>. QED
  BY <1>2, <1>3

\* Publishing a failed job again, or to the dead-letter queue, and the ack.
LEMMA SendStep ==
    ASSUME IInv, NEW w \in Workers, Publish(w) \/ Ack(w)
    PROVE  IInv'
<1>. USE RequestsAssumption, LimitsAssumption DEF IInv
<1>1. cur[w] \in Backed /\ cur[w] \in Copy
  BY DEF AttemptInv, Busy, Publish, Ack, Backed
<1>2. ASSUME NEW k, [kind |-> k, copy |-> cur[w]] \in SoundFrame, Send(w, k, cur[w])
      PROVE  wire' \in [Workers -> Seq(SoundFrame)] /\ wire' \in [Workers -> Seq(Frame)]
  <2>. SoundFrame \subseteq Frame
    BY DEF SoundFrame
  <2>. QED
    BY <1>2, SendIn DEF AttemptInv, TypeOK
<1>3. CASE Publish(w)
  <2>. DEFINE k == IF CanRetry(cur[w]) THEN "retry" ELSE "bury"
  <2>1. [kind |-> k, copy |-> cur[w]] \in SoundFrame
    BY <1>1, <1>3 DEF Publish, AttemptInv, SoundFrame, Frame
  <2>2. wire' \in [Workers -> Seq(SoundFrame)] /\ wire' \in [Workers -> Seq(Frame)]
    BY <1>2, <1>3, <2>1 DEF Publish
  <2>3. TypeOK'
    BY <1>3, <2>2 DEF Publish, TypeOK, apiVars, brokerVars, runVars, envVars
  <2>4. AttemptInv'
    BY <1>3, <2>2 DEF Publish, TypeOK, AttemptInv, Backed, Spent, SoundFrame,
                      SoundBody, Busy, brokerVars, runVars
  <2>. QED
    BY <2>3, <2>4
<1>4. CASE Ack(w)
  <2>1. [kind |-> "ack", copy |-> cur[w]] \in SoundFrame
    BY <1>1 DEF SoundFrame, Frame
  <2>2. wire' \in [Workers -> Seq(SoundFrame)] /\ wire' \in [Workers -> Seq(Frame)]
    BY <1>2, <1>4, <2>1 DEF Ack
  <2>3. TypeOK'
    BY <1>4, <2>2 DEF Ack, TypeOK, apiVars, brokerVars, runVars, envVars
  <2>4. AttemptInv'
    BY <1>4, <2>2 DEF Ack, TypeOK, AttemptInv, Backed, Spent, SoundFrame,
                      SoundBody, Busy, brokerVars, runVars
  <2>. QED
    BY <2>3, <2>4
<1>. QED
  BY <1>3, <1>4

\* The broker handles a publish, an ack or a nack of a worker.
LEMMA RouteStepInv ==
    ASSUME IInv, NEW w \in Workers, RouteStep(w)
    PROVE  IInv'
<1>. USE RequestsAssumption, LimitsAssumption DEF IInv
<1>. DEFINE f == Head(wire[w])
<1>1. /\ f \in SoundFrame /\ HeadCopy(w) = f.copy
      /\ wire' \in [Workers -> Seq(SoundFrame)] /\ wire' \in [Workers -> Seq(Frame)]
  <2>. wire[w] # << >> /\ PopWire(w)
    BY DEF RouteStep, RouteRetry, RouteBury, RouteAck, RouteNack, HeadIs
  <2>. SoundFrame \subseteq Frame
    BY DEF SoundFrame
  <2>. QED
    BY PopIn DEF AttemptInv, TypeOK, HeadCopy
<1>2. CASE RouteRetry(w)
  <2>. f.kind = "retry"
    BY <1>2 DEF RouteRetry, HeadIs
  <2>. DEFINE b == Raised(f.copy)
  <2>1. \A t \in Tags : [tag |-> t, id |-> b.id, attempt |-> b.attempt] \in Backed
    BY <1>1 DEF SoundFrame, Spent, Copy, CanRetry, Raised, Backed, TypeOK
  <2>2. ready' \subseteq Backed
    BY <1>1, <1>2, <2>1, StoreIn DEF RouteRetry, AttemptInv
  <2>3. TypeOK'
    BY <1>1, <1>2, <2>2 DEF RouteRetry, TypeOK, Backed, apiVars, localVars, runVars,
                            envVars
  <2>4. AttemptInv'
    BY <1>1, <1>2, <2>2 DEF RouteRetry, AttemptInv, Backed, Spent, SoundFrame,
                            SoundBody, localVars, runVars
  <2>. QED
    BY <2>3, <2>4
<1>3. CASE RouteBury(w)
  <2>. f.kind = "bury"
    BY <1>3 DEF RouteBury, HeadIs
  <2>1. Raised(f.copy) \in SoundBody
    BY <1>1 DEF SoundFrame, Spent, Copy, CanRetry, Raised, SoundBody, Body, TypeOK
  <2>2. TypeOK'
    BY <1>1, <1>3, <2>1 DEF RouteBury, TypeOK, SoundBody, apiVars, localVars,
                            runVars, envVars
  <2>3. AttemptInv'
    BY <1>1, <1>3, <2>1 DEF RouteBury, AttemptInv, Backed, Spent, SoundFrame,
                            SoundBody, localVars, runVars
  <2>. QED
    BY <2>2, <2>3
<1>4. CASE RouteAck(w)
  <2>1. TypeOK'
    BY <1>1, <1>4 DEF RouteAck, TypeOK, apiVars, localVars, runVars, envVars
  <2>2. AttemptInv'
    BY <1>1, <1>4 DEF RouteAck, AttemptInv, Backed, Spent, SoundFrame,
                      SoundBody, localVars, runVars
  <2>. QED
    BY <2>1, <2>2
<1>5. CASE RouteNack(w)
  <2>. f.kind = "nack"
    BY <1>5 DEF RouteNack, HeadIs
  <2>1. BodyOf(f.copy) \in SoundBody
    BY <1>1 DEF SoundFrame, Backed, Copy, BodyOf, SoundBody, Body
  <2>2. TypeOK'
    BY <1>1, <1>5, <2>1 DEF RouteNack, TypeOK, SoundBody, apiVars, localVars,
                            runVars, envVars
  <2>3. AttemptInv'
    BY <1>1, <1>5, <2>1 DEF RouteNack, AttemptInv, Backed, Spent, SoundFrame,
                            SoundBody, localVars, runVars
  <2>. QED
    BY <2>2, <2>3
<1>. QED
  BY <1>2, <1>3, <1>4, <1>5 DEF RouteStep

\* Starts, crashes and lost connections.
LEMMA FaultStep ==
    ASSUME IInv, NEW w \in Workers,
           Start(w) \/ Exit(w) \/ Crash(w) \/ LoseConnection(w) \/ Reap(w)
    PROVE  IInv'
<1>. USE RequestsAssumption, LimitsAssumption DEF IInv
<1>1. CASE Start(w) \/ Exit(w) \/ Crash(w)
  <2>1. /\ UNCHANGED <<api, apiWire, reply, ready, unacked, dlq, wire>>
        /\ UNCHANGED <<routed, okRuns, badRuns, foreign>>
    BY <1>1 DEF Start, Exit, Crash, apiVars, brokerVars, runVars, envVars
  <2>2. /\ session' \in [Workers -> BOOLEAN]
        /\ pc' \in [Workers -> {"down", "idle", "process", "publish", "ack"}]
        /\ processed' \in [Workers -> SUBSET Requests]
        /\ ownRuns' \in [Workers -> [Requests -> Nat]] /\ faults' \in Nat
    <3>1. CASE Start(w)
      BY <3>1 DEF Start, TypeOK, envVars
    <3>2. CASE Exit(w)
      BY <3>2 DEF Exit, TypeOK, brokerVars, envVars
    <3>3. CASE Crash(w)
      BY <3>3 DEF Crash, TypeOK, brokerVars
    <3>. QED
      BY <1>1, <3>1, <3>2, <3>3
  <2>3. /\ buf' \in [Workers -> SUBSET Backed] /\ buf' \in [Workers -> SUBSET Copy]
        /\ cur' \in [Workers -> Copy \union {NoCopy}]
    BY <1>1 DEF Start, Exit, Crash, TypeOK, AttemptInv
  <2>4. \A v \in Workers : pc'[v] \in Busy => pc'[v] = pc[v] /\ cur'[v] = cur[v]
    BY <1>1 DEF Start, Exit, Crash, TypeOK, Busy
  <2>5. TypeOK'
    BY <2>1, <2>2, <2>3 DEF TypeOK
  <2>6. AttemptInv'
    BY <2>1, <2>3, <2>4 DEF AttemptInv, Backed, Spent, SoundFrame, SoundBody, Busy
  <2>. QED
    BY <2>5, <2>6
<1>2. CASE LoseConnection(w) \/ Reap(w)
  <2>1. /\ EndSession(w)
        /\ UNCHANGED <<api, apiWire, reply, dlq, pc, buf, cur, processed>>
        /\ UNCHANGED <<routed, okRuns, badRuns, ownRuns, foreign>>
    BY <1>2 DEF LoseConnection, Reap, apiVars, localVars, runVars, envVars
  <2>2. faults' \in Nat
    BY <1>2 DEF LoseConnection, Reap, envVars, TypeOK
  <2>3. /\ wire' \in [Workers -> Seq(SoundFrame)]
        /\ wire' \in [Workers -> Seq(Frame)]
        /\ ready' \subseteq Backed /\ ready' \subseteq Copy
        /\ unacked' \in [Workers -> SUBSET Backed]
        /\ unacked' \in [Workers -> SUBSET Copy]
        /\ session' \in [Workers -> BOOLEAN]
    BY <2>1 DEF EndSession, AttemptInv, TypeOK
  <2>4. TypeOK'
    BY <2>1, <2>2, <2>3 DEF TypeOK
  <2>5. AttemptInv'
    BY <2>1, <2>3 DEF AttemptInv, Backed, Spent, SoundFrame, SoundBody
  <2>. QED
    BY <2>4, <2>5
<1>. QED
  BY <1>1, <1>2

\* Every step keeps the invariant.
LEMMA NextIInv == IInv /\ [Next]_vars => IInv'
<1>. SUFFICES ASSUME IInv, [Next]_vars PROVE IInv'
  OBVIOUS
<1>1. CASE UNCHANGED vars
  BY <1>1 DEF vars, apiVars, brokerVars, localVars, runVars, envVars, IInv, TypeOK,
              AttemptInv, Backed, Spent, SoundFrame, SoundBody
<1>2. CASE (\E r \in Requests : Reject(r) \/ Post(r) \/ RouteApi(r)) \/ CutApi
           \/ RestartApi
  BY <1>2, ApiStep
<1>3. ASSUME ForeignPublish \/ \E w \in Workers, c \in ready : Deliver(w, c)
      PROVE  IInv'
  BY <1>3, QueueStep
<1>4. ASSUME NEW w \in Workers,
             \/ Start(w) \/ WorkerStep(w) \/ RouteStep(w)
             \/ LoseConnection(w) \/ Crash(w) \/ Reap(w)
      PROVE  IInv'
  BY <1>4, TakeStep, ProcessStep, SendStep, RouteStepInv, FaultStep DEF WorkerStep
<1>. QED
  BY <1>1, <1>2, <1>3, <1>4 DEF Next

\* It holds in every behaviour.
LEMMA IInvHolds == Spec => []IInv
BY InitIInv, NextIInv, PTL DEF Spec

\* Every state of the job queue has the shape TypeOK gives: in particular no
\* copy in task_jobs ever carries an attempt number above MaxAttempts.
THEOREM TypeCorrect == Spec => []TypeOK
BY IInvHolds, PTL DEF IInv

\* The worker gives a job up to the dead-letter queue only after MaxAttempts
\* executions of it have failed, whatever is redelivered, lost or published
\* by hand in between.
THEOREM GivenUpOnlyWhenSpent == Spec => []BuriedAfterMaxAttempts
<1>1. IInv => BuriedAfterMaxAttempts
  BY DEF IInv, AttemptInv, BuriedAfterMaxAttempts, SoundBody, Body
<1>. QED
  BY <1>1, IInvHolds, PTL

-----------------------------------------------------------------------------
(* Part 2: which copy of a job is still owed, and from it that no job is   *)
(* lost and that every acknowledgement is known to the broker.             *)

Publishes == {"retry", "bury"}
Answers == {"ack", "nack"}

\* The frames on a wire, and the rule that the answer to a delivery is the
\* last of them that speaks of it.
InWire(s) == {s[i] : i \in 1 .. Len(s)}
AnswerLast(s) ==
    \A i, j \in 1 .. Len(s) :
        s[i].kind \in Answers /\ s[j].copy = s[i].copy => j <= i

\* Without a session the broker holds and expects nothing of the worker, and a
\* dead process buffers nothing.
ClosedInv ==
    \A w \in Workers :
        /\ ~session[w] => unacked[w] = {} /\ wire[w] = << >>
        /\ pc[w] = "down" => buf[w] = {}

\* While the session lives, the worker has only deliveries the broker waits for.
HeldInv ==
    \A w \in Workers : session[w] =>
        /\ buf[w] \subseteq unacked[w]
        /\ pc[w] \in Busy => cur[w] \in unacked[w] \ buf[w]

\* Every frame is about a delivery that is unacked and no longer buffered; the
\* delivery in hand has been published at most, and then its ack comes next.
FrameInv ==
    \A w \in Workers : \A f \in InWire(wire[w]) :
        /\ f.copy \in unacked[w] \ buf[w]
        /\ pc[w] \in Busy /\ f.copy = cur[w]
            => pc[w] = "ack" /\ f.kind \in Publishes

LastInv == \A w \in Workers : AnswerLast(wire[w])

\* A copy is in one place of the broker.
PlaceInv ==
    /\ \A w \in Workers : ready \intersect unacked[w] = {}
    /\ \A v, w \in Workers : v # w => unacked[v] \intersect unacked[w] = {}

\* A process remembers only jobs that were executed.
MemoryInv == \A w \in Workers : processed[w] \subseteq DoneIds

\* The acknowledgement of c is decided: sent, or the next thing w does.
Answered(w, c) ==
    \/ pc[w] = "ack" /\ cur[w] = c
    \/ \E f \in InWire(wire[w]) : f.kind \in Answers /\ f.copy = c

\* The retry of c, or its burial, is on the wire.
Succeeded(w, c) == \E f \in InWire(wire[w]) : f.kind \in Publishes /\ f.copy = c

\* Some copy of job r is not about to disappear, or r needs none.
Safe(r) ==
    \/ okRuns[r] > 0
    \/ \E b \in dlq : b.id = r
    \/ \E c \in ready : c.id = r
    \/ \E w \in Workers : \E c \in unacked[w] :
        c.id = r /\ (Answered(w, c) => Succeeded(w, c))

OwedInv == \A r \in routed : Safe(r)

DInv ==
    ClosedInv /\ HeldInv /\ FrameInv /\ LastInv /\ PlaceInv /\ MemoryInv /\ OwedInv

-----------------------------------------------------------------------------
(* What the shared operators of JobQueue do.                               *)

\* A stored message is a copy found nowhere else in the broker.
LEMMA StoreFresh ==
    ASSUME NEW b, Store(b)
    PROVE  \E n : /\ ready' = ready \union {n} /\ n.id = b.id
                  /\ n \notin ready
                  /\ \A w \in Workers : n \notin unacked[w]
<1>1. PICK t \in Tags :
          /\ FreshTag(t)
          /\ ready' = ready \union {[tag |-> t, id |-> b.id, attempt |-> b.attempt]}
  BY DEF Store
<1>. DEFINE n == [tag |-> t, id |-> b.id, attempt |-> b.attempt]
<1>2. n.tag = t /\ n.id = b.id
  OBVIOUS
<1>3. n \notin ready /\ \A w \in Workers : n \notin unacked[w]
  BY <1>1, <1>2 DEF FreshTag, InUse
<1>. QED
  BY <1>1, <1>2, <1>3

\* A frame about a delivery that is not answered yet may follow.
LEMMA AppendFrames ==
    ASSUME NEW S, NEW s \in Seq(S), NEW e \in S, AnswerLast(s),
           \A f \in InWire(s) : f.kind \in Answers => f.copy # e.copy
    PROVE  InWire(Append(s, e)) = InWire(s) \union {e} /\ AnswerLast(Append(s, e))
<1>. DEFINE n == Len(s)
            t == Append(s, e)
<1>1. n \in Nat /\ Len(t) = n + 1 /\ t[n + 1] = e /\ \A i \in 1 .. n : t[i] = s[i]
  BY AppendProperties, LenProperties
<1>. HIDE DEF t
<1>2. InWire(t) = InWire(s) \union {e}
  <2>1. \A i \in 1 .. n + 1 : i = n + 1 \/ i \in 1 .. n
    BY <1>1
  <2>2. 1 .. n \subseteq 1 .. n + 1 /\ n + 1 \in 1 .. n + 1
    BY <1>1
  <2>. QED
    BY <1>1, <2>1, <2>2 DEF InWire
<1>3. ASSUME NEW i \in 1 .. Len(t), NEW j \in 1 .. Len(t),
             t[i].kind \in Answers, t[j].copy = t[i].copy
      PROVE  j <= i
  <2>1. CASE i = n + 1
    BY <1>1, <2>1
  <2>2. CASE i \in 1 .. n /\ j \in 1 .. n
    BY <1>1, <1>3, <2>2 DEF AnswerLast
  <2>3. CASE i \in 1 .. n /\ j = n + 1
    BY <1>1, <1>3, <2>3 DEF InWire
  <2>. QED
    BY <1>1, <2>1, <2>2, <2>3
<1>4. AnswerLast(t)
  BY <1>3 DEF AnswerLast
<1>. QED
  BY <1>2, <1>4 DEF t

\* What remains when the first frame has been taken: an answer was the last
\* word on its copy.
LEMMA TailFrames ==
    ASSUME NEW S, NEW s \in Seq(S), s # << >>, AnswerLast(s)
    PROVE  /\ Head(s) \in InWire(s)
           /\ InWire(s) = InWire(Tail(s)) \union {Head(s)}
           /\ Head(s).kind \in Answers
                => \A f \in InWire(Tail(s)) : f.copy # Head(s).copy
           /\ AnswerLast(Tail(s))
<1>. DEFINE n == Len(s)
            t == Tail(s)
<1>1. /\ n \in Nat \ {0} /\ Len(t) = n - 1 /\ Head(s) = s[1]
      /\ \A i \in 1 .. n - 1 : t[i] = s[i + 1]
  BY HeadTailProperties, LenProperties, EmptySeq
<1>. HIDE DEF t
<1>2. \A i \in 1 .. n : i = 1 \/ (i - 1 \in 1 .. n - 1 /\ t[i - 1] = s[i])
  BY <1>1
<1>3. \A i \in 1 .. n - 1 : i + 1 \in 1 .. n /\ i + 1 # 1 /\ ~(i + 1 <= 1)
  BY <1>1
<1>4. Head(s) \in InWire(s) /\ InWire(s) = InWire(t) \union {Head(s)}
  <2>1. Head(s) \in InWire(s)
    BY <1>1 DEF InWire
  <2>2. InWire(t) \subseteq InWire(s)
    BY <1>1, <1>3 DEF InWire
  <2>3. InWire(s) \subseteq InWire(t) \union {Head(s)}
    BY <1>1, <1>2 DEF InWire
  <2>. QED
    BY <2>1, <2>2, <2>3
<1>5. Head(s).kind \in Answers => \A f \in InWire(t) : f.copy # Head(s).copy
  BY <1>1, <1>3 DEF InWire, AnswerLast
<1>6. ASSUME NEW i \in 1 .. n - 1, NEW j \in 1 .. n - 1,
             t[i].kind \in Answers, t[j].copy = t[i].copy
      PROVE  j <= i
  <2>1. j + 1 <= i + 1
    BY <1>1, <1>3, <1>6 DEF AnswerLast
  <2>. QED
    BY <1>1, <2>1
<1>7. AnswerLast(t)
  BY <1>1, <1>6 DEF AnswerLast
<1>. QED
  BY <1>4, <1>5, <1>7 DEF t

\* A frame written to a live session joins the frames on the wire.
LEMMA SendOpen ==
    ASSUME TypeOK, NEW w \in Workers, session[w], NEW k, NEW c, Send(w, k, c),
           [kind |-> k, copy |-> c] \in Frame, AnswerLast(wire[w]),
           \A f \in InWire(wire[w]) : f.kind \in Answers => f.copy # c
    PROVE  /\ InWire(wire'[w]) = InWire(wire[w]) \union {[kind |-> k, copy |-> c]}
           /\ AnswerLast(wire'[w])
           /\ \A v \in Workers : v # w => wire'[v] = wire[v]
<1>. DEFINE e == [kind |-> k, copy |-> c]
<1>1. /\ wire[w] \in Seq(Frame) /\ wire'[w] = Append(wire[w], e)
      /\ \A v \in Workers : v # w => wire'[v] = wire[v]
  BY DEF TypeOK, Send
<1>2. e.copy = c
  OBVIOUS
<1>. HIDE DEF e
<1>. QED
  BY <1>1, <1>2, AppendFrames DEF e

\* One written to a closed connection goes nowhere.
LEMMA SendClosed ==
    ASSUME TypeOK, NEW w \in Workers, ~session[w], NEW k, NEW c, Send(w, k, c)
    PROVE  wire' = wire
BY DEF TypeOK, Send

\* The broker takes the first frame of a wire.
LEMMA PopFacts ==
    ASSUME TypeOK, NEW w \in Workers, PopWire(w), wire[w] # << >>, AnswerLast(wire[w])
    PROVE  /\ Head(wire[w]) \in InWire(wire[w])
           /\ InWire(wire[w]) = InWire(wire'[w]) \union {Head(wire[w])}
           /\ Head(wire[w]).kind \in Answers
                => \A f \in InWire(wire'[w]) : f.copy # Head(wire[w]).copy
           /\ AnswerLast(wire'[w])
           /\ \A v \in Workers : v # w => wire'[v] = wire[v]
<1>1. /\ wire[w] \in Seq(Frame) /\ wire'[w] = Tail(wire[w])
      /\ \A v \in Workers : v # w => wire'[v] = wire[v]
  BY DEF TypeOK, PopWire
<1>. QED
  BY <1>1, TailFrames

\* A job stays safe if its witnesses survive the step.
LEMMA SafeStays ==
    ASSUME NEW r, Safe(r), okRuns[r] > 0 => okRuns'[r] > 0, dlq \subseteq dlq',
           \A c \in ready : c.id = r => Safe(r)',
           \A v \in Workers : \A d \in unacked[v] :
              d.id = r /\ (Answered(v, d) => Succeeded(v, d)) => Safe(r)'
    PROVE  Safe(r)'
BY DEF Safe

-----------------------------------------------------------------------------
(* The induction, one lemma per group of actions.                          *)

\* Nothing is queued, held or written at the start.
LEMMA InitDInv == Init => DInv
<1>. SUFFICES ASSUME Init PROVE DInv
  OBVIOUS
<1>1. \A w \in Workers : wire[w] = << >> /\ Len(wire[w]) = 0 /\ 1 .. 0 = {}
  BY EmptySeq DEF Init
<1>2. HeldInv /\ FrameInv /\ LastInv
  BY <1>1 DEF Init, HeldInv, FrameInv, LastInv, InWire, AnswerLast, Busy
<1>3. ClosedInv /\ PlaceInv /\ MemoryInv /\ OwedInv
  BY DEF Init, ClosedInv, PlaceInv, MemoryInv, OwedInv
<1>. QED
  BY <1>2, <1>3 DEF DInv

\* Every action that leaves workers, sessions and frames alone: it may add a
\* fresh copy to the queue, and a newly routed job comes with its copy.
LEMMA QueueGrows ==
    ASSUME DInv,
           UNCHANGED <<unacked, session, dlq, pc, buf, cur, processed, wire, okRuns>>,
           ready \subseteq ready',
           \A w \in Workers : (ready' \ ready) \intersect unacked[w] = {},
           \A r \in routed' \ routed : \E c \in ready' : c.id = r
    PROVE  DInv'
<1>1. ClosedInv' /\ HeldInv' /\ FrameInv' /\ LastInv' /\ MemoryInv'
  BY DEF DInv, ClosedInv, HeldInv, FrameInv, LastInv, MemoryInv, DoneIds
<1>2. PlaceInv'
  BY DEF DInv, PlaceInv
<1>3. OwedInv'
  BY DEF DInv, OwedInv, Safe, Answered, Succeeded
<1>. QED
  BY <1>1, <1>2, <1>3 DEF DInv

\* The API and people publishing by hand only add to the queue.
LEMMA ApiDInv ==
    ASSUME DInv,
           \/ \E r \in Requests : Reject(r) \/ Post(r) \/ RouteApi(r)
           \/ CutApi \/ RestartApi \/ ForeignPublish
    PROVE  DInv'
<1>1. ASSUME \/ \E r \in Requests : Reject(r) \/ Post(r)
             \/ CutApi \/ RestartApi
      PROVE  DInv'
  <2>. UNCHANGED <<brokerVars, localVars, wire, routed, runVars>>
    BY <1>1 DEF Reject, Post, CutApi, RestartApi
  <2>. QED
    BY QueueGrows DEF brokerVars, localVars, runVars
<1>2. ASSUME NEW r \in Requests, RouteApi(r)
      PROVE  DInv'
  <2>1. PICK n : /\ ready' = ready \union {n} /\ n.id = FirstBody(r).id
                 /\ n \notin ready /\ \A w \in Workers : n \notin unacked[w]
    BY <1>2, StoreFresh DEF RouteApi
  <2>2. n.id = r
    BY <2>1 DEF FirstBody
  <2>3. /\ UNCHANGED <<unacked, session, dlq, pc, buf, cur, processed, wire, okRuns>>
        /\ routed' = routed \union {r}
    BY <1>2 DEF RouteApi, localVars, runVars
  <2>. QED
    BY <2>1, <2>2, <2>3, QueueGrows
<1>3. CASE ForeignPublish
  <2>1. PICK b : Store(b)
    BY <1>3 DEF ForeignPublish
  <2>2. /\ ready \subseteq ready'
        /\ \A w \in Workers : (ready' \ ready) \intersect unacked[w] = {}
    BY <2>1, StoreFresh
  <2>3. UNCHANGED <<unacked, session, dlq, pc, buf, cur, processed, wire, okRuns, routed>>
    BY <1>3 DEF ForeignPublish, localVars, runVars
  <2>. QED
    BY <2>2, <2>3, QueueGrows
<1>. QED
  BY <1>1, <1>2, <1>3

\* A copy moves from the queue to a session, and nothing is said of it yet.
LEMMA DeliverDInv ==
    ASSUME TypeOK, DInv, NEW w \in Workers, NEW c \in ready, Deliver(w, c)
    PROVE  DInv'
<1>1. /\ session[w] /\ ready' = ready \ {c}
      /\ unacked' = [unacked EXCEPT ![w] = @ \union {c}]
      /\ buf' = [buf EXCEPT ![w] = IF pc[w] = "down" THEN @ ELSE @ \union {c}]
      /\ UNCHANGED <<session, dlq, pc, cur, processed, wire, routed, okRuns>>
  BY DEF Deliver, runVars
<1>2. \A v \in Workers : c \notin unacked[v]
  BY DEF DInv, PlaceInv
<1>3. ClosedInv' /\ HeldInv'
  BY <1>1, <1>2 DEF TypeOK, DInv, ClosedInv, HeldInv
<1>4. FrameInv' /\ LastInv'
  BY <1>1, <1>2 DEF TypeOK, DInv, FrameInv, LastInv
<1>5. PlaceInv' /\ MemoryInv'
  BY <1>1, <1>2 DEF TypeOK, DInv, PlaceInv, MemoryInv, DoneIds
<1>6. c \in unacked'[w] /\ ~Answered(w, c)'
  BY <1>1, <1>2 DEF TypeOK, DInv, HeldInv, FrameInv, Answered, Busy
<1>7. OwedInv'
  <2>1. ASSUME NEW d \in ready PROVE Safe(d.id)'
    BY <1>1, <1>6 DEF Safe
  <2>2. ASSUME NEW v \in Workers, NEW d \in unacked[v],
               Answered(v, d) => Succeeded(v, d)
        PROVE  Safe(d.id)'
    <3>1. d \in unacked'[v]
      BY <1>1 DEF TypeOK
    <3>2. (Answered(v, d) => Succeeded(v, d))'
      BY <1>1, <2>2 DEF Answered, Succeeded
    <3>. QED
      BY <3>1, <3>2 DEF Safe
  <2>. QED
    BY <1>1, <2>1, <2>2, SafeStays DEF DInv, OwedInv
<1>. QED
  BY <1>3, <1>4, <1>5, <1>7 DEF DInv

\* Writing a frame about a delivery that is not answered yet, with everything
\* but the wire of w taken as it is: the frames of w grow by that one if the
\* connection is open, and the other wires stay.
LEMMA SendFacts ==
    ASSUME TypeOK, LastInv, NEW w \in Workers, NEW k, NEW c, Send(w, k, c),
           [kind |-> k, copy |-> c] \in Frame,
           \A f \in InWire(wire[w]) : f.kind \in Answers => f.copy # c
    PROVE  /\ LastInv'
           /\ session[w] => InWire(wire'[w]) = InWire(wire[w]) \union {[kind |-> k, copy |-> c]}
           /\ ~session[w] => wire' = wire
           /\ \A v \in Workers : v # w => wire'[v] = wire[v]
<1>1. CASE session[w]
  BY <1>1, SendOpen DEF LastInv
<1>2. CASE ~session[w]
  BY <1>2, SendClosed DEF LastInv
<1>. QED
  BY <1>1, <1>2

\* The worker answers a delivery it does not have to execute.
LEMMA AnswerDInv ==
    ASSUME TypeOK, DInv, NEW w \in Workers, pc[w] = "idle",
           NEW c \in buf[w], NEW k \in Answers, Send(w, k, c),
           buf' = [buf EXCEPT ![w] = @ \ {c}],
           UNCHANGED <<ready, unacked, session, dlq, pc, cur, processed, routed, okRuns>>,
           c.id \in routed => okRuns[c.id] > 0
    PROVE  DInv'
<1>. DEFINE e == [kind |-> k, copy |-> c]
<1>1. e \in Frame /\ e.kind = k /\ e.copy = c
  BY DEF TypeOK, Frame, Answers
<1>. HIDE DEF e
<1>2. \A f \in InWire(wire[w]) : f.copy # c
  BY DEF DInv, FrameInv
<1>3. /\ LastInv'
      /\ session[w] => InWire(wire'[w]) = InWire(wire[w]) \union {e}
      /\ ~session[w] => wire' = wire
      /\ \A v \in Workers : v # w => wire'[v] = wire[v]
  BY <1>1, <1>2, SendFacts DEF DInv, e
<1>4. PlaceInv' /\ MemoryInv'
  BY DEF DInv, PlaceInv, MemoryInv, DoneIds
<1>5. ClosedInv' /\ HeldInv'
  BY <1>3 DEF TypeOK, DInv, ClosedInv, HeldInv
<1>6. FrameInv'
  <2>. SUFFICES ASSUME NEW v \in Workers, NEW f \in InWire(wire'[v])
                PROVE  /\ f.copy \in unacked[v] \ buf'[v]
                       /\ pc[v] \in Busy /\ f.copy = cur[v]
                            => pc[v] = "ack" /\ f.kind \in Publishes
    BY DEF FrameInv
  <2>1. CASE f \in InWire(wire[v])
    BY <2>1 DEF TypeOK, DInv, FrameInv
  <2>2. CASE v = w /\ session[w] /\ f = e
    BY <1>1, <2>2 DEF TypeOK, DInv, HeldInv, Busy
  <2>. QED
    BY <1>3, <2>1, <2>2
<1>7. OwedInv'
  <2>1. ASSUME NEW d \in ready PROVE Safe(d.id)'
    BY DEF Safe
  <2>2. ASSUME NEW v \in Workers, NEW d \in unacked[v], d.id \in routed,
               Answered(v, d) => Succeeded(v, d)
        PROVE  Safe(d.id)'
    <3>1. CASE v = w /\ d = c
      BY <2>2, <3>1 DEF Safe
    <3>2. CASE ~(v = w /\ d = c)
      <4>1. Answered(v, d)' => Answered(v, d)
        BY <1>1, <1>3, <3>2 DEF Answered
      <4>2. Succeeded(v, d) => Succeeded(v, d)'
        BY <1>3 DEF Succeeded
      <4>. QED
        BY <2>2, <4>1, <4>2 DEF Safe
    <3>. QED
      BY <3>1, <3>2
  <2>. QED
    BY <2>1, <2>2, SafeStays DEF DInv, OwedInv
<1>. QED
  BY <1>3, <1>4, <1>5, <1>6, <1>7 DEF DInv

\* A buffered delivery is answered at once or becomes the one in hand.
LEMMA TakeDInv ==
    ASSUME TypeOK, DInv, NEW w \in Workers,
           TakeMalformed(w) \/ TakeDuplicate(w) \/ TakeJob(w)
    PROVE  DInv'
<1>1. CASE TakeMalformed(w)
  <2>1. PICK c \in buf[w] : /\ c.id = NoId /\ Send(w, "nack", c)
                            /\ buf' = [buf EXCEPT ![w] = @ \ {c}]
    BY <1>1 DEF TakeMalformed
  <2>2. c.id \notin routed
    BY <2>1, RequestsAssumption DEF TypeOK
  <2>. QED
    BY <1>1, <2>1, <2>2, AnswerDInv DEF TakeMalformed, Answers, brokerVars, runVars
<1>2. CASE TakeDuplicate(w)
  <2>1. PICK c \in buf[w] : /\ c.id \in processed[w] /\ Send(w, "ack", c)
                            /\ buf' = [buf EXCEPT ![w] = @ \ {c}]
    BY <1>2 DEF TakeDuplicate
  <2>2. okRuns[c.id] > 0
    BY <2>1 DEF DInv, MemoryInv, DoneIds
  <2>. QED
    BY <1>2, <2>1, <2>2, AnswerDInv DEF TakeDuplicate, Answers, brokerVars, runVars
<1>3. CASE TakeJob(w)
  <2>1. PICK c \in buf[w] : /\ buf' = [buf EXCEPT ![w] = @ \ {c}]
                            /\ cur' = [cur EXCEPT ![w] = c]
    BY <1>3 DEF TakeJob
  <2>2. /\ pc[w] = "idle" /\ pc' = [pc EXCEPT ![w] = "process"]
        /\ UNCHANGED <<ready, unacked, session, dlq, processed, wire, routed, okRuns>>
    BY <1>3 DEF TakeJob, brokerVars, runVars
  <2>3. \A f \in InWire(wire[w]) : f.copy # c
    BY DEF DInv, FrameInv
  <2>4. ClosedInv' /\ HeldInv' /\ LastInv'
    BY <2>1, <2>2 DEF TypeOK, DInv, ClosedInv, HeldInv, LastInv
  <2>5. FrameInv' /\ PlaceInv' /\ MemoryInv'
    BY <2>1, <2>2, <2>3 DEF TypeOK, DInv, FrameInv, PlaceInv, MemoryInv, DoneIds
  <2>6. ASSUME NEW d \in ready PROVE Safe(d.id)'
    BY <2>2 DEF Safe
  <2>7. ASSUME NEW v \in Workers, NEW d \in unacked[v],
               Answered(v, d) => Succeeded(v, d)
        PROVE  Safe(d.id)'
    <3>1. Answered(v, d)' => Answered(v, d)
      BY <2>1, <2>2 DEF Answered, TypeOK
    <3>2. Succeeded(v, d) => Succeeded(v, d)'
      BY <2>2 DEF Succeeded
    <3>. QED
      BY <2>2, <2>7, <3>1, <3>2 DEF Safe
  <2>8. OwedInv'
    BY <2>2, <2>6, <2>7, SafeStays DEF DInv, OwedInv
  <2>. QED
    BY <2>4, <2>5, <2>8 DEF DInv
<1>. QED
  BY <1>1, <1>2, <1>3

\* Running the job: a success settles it, a failure leaves it in hand.
LEMMA ProcessDInv ==
    ASSUME TypeOK, DInv, NEW w \in Workers, ProcessOk(w) \/ ProcessFail(w),
           cur[w].id \in Requests
    PROVE  DInv'
<1>1. /\ pc[w] = "process" /\ pc' \in [Workers -> {"down", "idle", "process", "publish", "ack"}]
      /\ pc'[w] \in {"publish", "ack"}
      /\ \A v \in Workers : v # w => pc'[v] = pc[v]
      /\ UNCHANGED <<ready, unacked, session, dlq, buf, cur, wire, routed>>
      /\ \A r \in Requests : okRuns[r] > 0 => okRuns'[r] > 0
  <2>1. CASE ProcessOk(w)
    BY <2>1 DEF ProcessOk, TypeOK, brokerVars
  <2>2. CASE ProcessFail(w)
    BY <2>2 DEF ProcessFail, TypeOK, brokerVars
  <2>. QED
    BY <2>1, <2>2
<1>2. ClosedInv' /\ HeldInv' /\ LastInv' /\ PlaceInv'
  BY <1>1 DEF TypeOK, DInv, ClosedInv, HeldInv, LastInv, PlaceInv, Busy
<1>3. FrameInv'
  BY <1>1 DEF DInv, FrameInv, Busy
<1>4. MemoryInv'
  <2>1. DoneIds \subseteq DoneIds'
    BY <1>1 DEF DoneIds
  <2>2. CASE ProcessOk(w)
    <3>1. cur[w].id \in DoneIds'
      BY <2>2 DEF ProcessOk, DoneIds, TypeOK
    <3>. QED
      BY <2>1, <2>2, <3>1 DEF ProcessOk, TypeOK, DInv, MemoryInv
  <2>3. CASE ProcessFail(w)
    BY <2>1, <2>3 DEF ProcessFail, DInv, MemoryInv
  <2>. QED
    BY <2>2, <2>3
<1>5. OwedInv'
  <2>1. ASSUME NEW d \in ready PROVE Safe(d.id)'
    BY <1>1 DEF Safe
  <2>2. ASSUME NEW v \in Workers, NEW d \in unacked[v],
               Answered(v, d) => Succeeded(v, d)
        PROVE  Safe(d.id)'
    <3>1. CASE ProcessOk(w) /\ v = w /\ d = cur[w]
      <4>1. okRuns'[d.id] > 0
        BY <3>1 DEF ProcessOk, TypeOK
      <4>. QED
        BY <4>1 DEF Safe
    <3>2. CASE ProcessFail(w) \/ ~(v = w /\ d = cur[w])
      <4>1. Answered(v, d)' => Answered(v, d)
        BY <1>1, <3>2 DEF Answered, ProcessFail, TypeOK
      <4>2. Succeeded(v, d) => Succeeded(v, d)' /\ d \in unacked'[v]
        BY <1>1 DEF Succeeded
      <4>. QED
        BY <1>1, <2>2, <4>1, <4>2 DEF Safe
    <3>. QED
      BY <3>1, <3>2
  <2>3. \A r \in routed : okRuns[r] > 0 => okRuns'[r] > 0
    BY <1>1 DEF TypeOK
  <2>. QED
    BY <1>1, <2>1, <2>2, <2>3, SafeStays DEF DInv, OwedInv
<1>. QED
  BY <1>2, <1>3, <1>4, <1>5 DEF DInv

\* Publishing a failed job: the ack comes next, but the new copy is ahead of it.
LEMMA PublishDInv ==
    ASSUME TypeOK, DInv, NEW w \in Workers, Publish(w), cur[w] \in Copy
    PROVE  DInv'
<1>. DEFINE k == IF CanRetry(cur[w]) THEN "retry" ELSE "bury"
            e == [kind |-> k, copy |-> cur[w]]
<1>1. e \in Frame /\ e.kind \in Publishes /\ e.kind \notin Answers /\ e.copy = cur[w]
  BY DEF Frame, Publishes, Answers
<1>2. /\ pc[w] = "publish" /\ pc' = [pc EXCEPT ![w] = "ack"] /\ Send(w, k, cur[w])
      /\ UNCHANGED <<ready, unacked, session, dlq, buf, cur, processed, routed, okRuns>>
  BY DEF Publish, brokerVars, runVars
<1>. HIDE DEF k
<1>3. \A f \in InWire(wire[w]) : f.copy # cur[w]
  BY <1>2 DEF DInv, FrameInv, Busy
<1>4. /\ LastInv'
      /\ session[w] => InWire(wire'[w]) = InWire(wire[w]) \union {e}
      /\ ~session[w] => wire' = wire
      /\ \A v \in Workers : v # w => wire'[v] = wire[v]
  BY <1>1, <1>2, <1>3, SendFacts DEF DInv
<1>. HIDE DEF e
<1>5. PlaceInv' /\ MemoryInv'
  BY <1>2 DEF DInv, PlaceInv, MemoryInv, DoneIds
<1>6. ClosedInv' /\ HeldInv'
  BY <1>2, <1>4 DEF TypeOK, DInv, ClosedInv, HeldInv, Busy
<1>7. FrameInv'
  <2>. SUFFICES ASSUME NEW v \in Workers, NEW f \in InWire(wire'[v])
                PROVE  /\ f.copy \in unacked[v] \ buf[v]
                       /\ pc'[v] \in Busy /\ f.copy = cur[v]
                            => pc'[v] = "ack" /\ f.kind \in Publishes
    BY <1>2 DEF FrameInv
  <2>1. CASE f \in InWire(wire[v])
    BY <1>2, <1>3, <2>1 DEF TypeOK, DInv, FrameInv
  <2>2. CASE v = w /\ session[w] /\ f = e
    BY <1>1, <1>2, <2>2 DEF TypeOK, DInv, HeldInv, Busy
  <2>. QED
    BY <1>4, <2>1, <2>2
<1>8. OwedInv'
  <2>1. ASSUME NEW d \in ready PROVE Safe(d.id)'
    BY <1>2 DEF Safe
  <2>2. ASSUME NEW v \in Workers, NEW d \in unacked[v],
               Answered(v, d) => Succeeded(v, d)
        PROVE  Safe(d.id)'
    <3>0. session[v]
      BY DEF DInv, ClosedInv
    <3>1. CASE v = w /\ d = cur[w]
      <4>1. Succeeded(v, d)'
        BY <1>1, <1>4, <3>0, <3>1 DEF Succeeded
      <4>. QED
        BY <1>2, <4>1 DEF Safe
    <3>2. CASE ~(v = w /\ d = cur[w])
      <4>1. Answered(v, d)' => Answered(v, d)
        BY <1>1, <1>2, <1>4, <3>2 DEF Answered, TypeOK
      <4>2. Succeeded(v, d) => Succeeded(v, d)'
        BY <1>4 DEF Succeeded
      <4>. QED
        BY <1>2, <2>2, <4>1, <4>2 DEF Safe
    <3>. QED
      BY <3>1, <3>2
  <2>. QED
    BY <1>2, <2>1, <2>2, SafeStays DEF DInv, OwedInv
<1>. QED
  BY <1>4, <1>5, <1>6, <1>7, <1>8 DEF DInv

\* The ack at the end of an iteration.
LEMMA AckDInv ==
    ASSUME TypeOK, DInv, NEW w \in Workers, Ack(w), cur[w] \in Copy
    PROVE  DInv'
<1>. DEFINE e == [kind |-> "ack", copy |-> cur[w]]
<1>1. e \in Frame /\ e.kind \in Answers /\ e.copy = cur[w]
  BY DEF Frame, Answers
<1>2. /\ pc[w] = "ack" /\ pc' = [pc EXCEPT ![w] = "idle"] /\ Send(w, "ack", cur[w])
      /\ cur' = [cur EXCEPT ![w] = NoCopy]
      /\ UNCHANGED <<ready, unacked, session, dlq, buf, processed, routed, okRuns>>
  BY DEF Ack, brokerVars, runVars
<1>3. \A f \in InWire(wire[w]) : f.kind \in Answers => f.copy # cur[w]
  BY <1>2 DEF DInv, FrameInv, Busy, Answers, Publishes
<1>4. /\ LastInv'
      /\ session[w] => InWire(wire'[w]) = InWire(wire[w]) \union {e}
      /\ ~session[w] => wire' = wire
      /\ \A v \in Workers : v # w => wire'[v] = wire[v]
  BY <1>1, <1>2, <1>3, SendFacts DEF DInv
<1>. HIDE DEF e
<1>5. PlaceInv' /\ MemoryInv'
  BY <1>2 DEF DInv, PlaceInv, MemoryInv, DoneIds
<1>6. ClosedInv' /\ HeldInv'
  BY <1>2, <1>4 DEF TypeOK, DInv, ClosedInv, HeldInv, Busy
<1>7. FrameInv'
  <2>. SUFFICES ASSUME NEW v \in Workers, NEW f \in InWire(wire'[v])
                PROVE  /\ f.copy \in unacked[v] \ buf[v]
                       /\ pc'[v] \in Busy /\ f.copy = cur'[v]
                            => pc'[v] = "ack" /\ f.kind \in Publishes
    BY <1>2 DEF FrameInv
  <2>1. CASE f \in InWire(wire[v])
    BY <1>2, <2>1 DEF TypeOK, DInv, FrameInv, Busy
  <2>2. CASE v = w /\ session[w] /\ f = e
    BY <1>1, <1>2, <2>2 DEF TypeOK, DInv, HeldInv, Busy
  <2>. QED
    BY <1>4, <2>1, <2>2
<1>8. OwedInv'
  <2>1. ASSUME NEW d \in ready PROVE Safe(d.id)'
    BY <1>2 DEF Safe
  <2>2. ASSUME NEW v \in Workers, NEW d \in unacked[v],
               Answered(v, d) => Succeeded(v, d)
        PROVE  Safe(d.id)'
    <3>1. Answered(v, d)' => Answered(v, d)
      BY <1>1, <1>2, <1>4 DEF Answered, TypeOK
    <3>2. Succeeded(v, d) => Succeeded(v, d)'
      BY <1>4 DEF Succeeded
    <3>. QED
      BY <1>2, <2>2, <3>1, <3>2 DEF Safe
  <2>. QED
    BY <1>2, <2>1, <2>2, SafeStays DEF DInv, OwedInv
<1>. QED
  BY <1>4, <1>5, <1>6, <1>7, <1>8 DEF DInv

\* The broker handles the first frame of a worker.
LEMMA RouteDInv ==
    ASSUME TypeOK, AttemptInv, DInv, NEW w \in Workers, RouteStep(w)
    PROVE  DInv'
<1>. DEFINE h == Head(wire[w])
<1>1. /\ wire[w] # << >> /\ PopWire(w)
      /\ UNCHANGED <<session, pc, buf, cur, processed, routed, okRuns>>
  BY DEF RouteStep, RouteRetry, RouteBury, RouteAck, RouteNack, HeadIs, localVars,
         runVars
<1>2. /\ h \in InWire(wire[w])
      /\ InWire(wire[w]) = InWire(wire'[w]) \union {h}
      /\ h.kind \in Answers => \A f \in InWire(wire'[w]) : f.copy # h.copy
      /\ AnswerLast(wire'[w])
      /\ \A v \in Workers : v # w => wire'[v] = wire[v]
  BY <1>1, PopFacts DEF DInv, LastInv
<1>3. HeadCopy(w) = h.copy
  BY DEF HeadCopy
<1>. HIDE DEF h
<1>4. LastInv' /\ MemoryInv'
  BY <1>1, <1>2 DEF DInv, LastInv, MemoryInv, DoneIds
<1>5. session[w] /\ h.copy \in unacked[w] \ buf[w]
  BY <1>1, <1>2 DEF TypeOK, DInv, ClosedInv, FrameInv
<1>6. \A v \in Workers : \A f \in InWire(wire'[v]) : f \in InWire(wire[v])
  BY <1>2
<1>7. CASE RouteRetry(w) \/ RouteBury(w)
  <2>1. h.kind \in Publishes /\ h.kind \notin Answers
    BY <1>7 DEF RouteRetry, RouteBury, HeadIs, Publishes, Answers, h
  <2>2. /\ unacked' = unacked /\ ready \subseteq ready' /\ dlq \subseteq dlq'
        /\ \A v \in Workers : (ready' \ ready) \intersect unacked[v] = {}
        /\ \/ \E c \in ready' : c.id = h.copy.id
           \/ \E b \in dlq' : b.id = h.copy.id
    <3>0. Raised(h.copy).id = h.copy.id
      BY DEF Raised
    <3>1. CASE RouteRetry(w)
      <4>. PICK n : /\ ready' = ready \union {n} /\ n.id = Raised(h.copy).id
                    /\ n \notin ready /\ \A v \in Workers : n \notin unacked[v]
        BY <1>3, <3>1, StoreFresh DEF RouteRetry
      <4>. QED
        BY <3>0, <3>1 DEF RouteRetry
    <3>2. CASE RouteBury(w)
      BY <1>3, <3>0, <3>2 DEF RouteBury
    <3>. QED
      BY <1>7, <3>1, <3>2
  <2>3. ClosedInv' /\ HeldInv' /\ PlaceInv'
    BY <1>1, <1>2, <1>5, <2>2 DEF DInv, ClosedInv, HeldInv, PlaceInv
  <2>4. FrameInv'
    BY <1>1, <1>6, <2>2 DEF DInv, FrameInv
  <2>5. ASSUME NEW v \in Workers, NEW d \in unacked[v],
               Answered(v, d) => Succeeded(v, d)
        PROVE  Safe(d.id)'
    <3>1. CASE v = w /\ d = h.copy
      BY <2>2, <3>1 DEF Safe
    <3>2. CASE ~(v = w /\ d = h.copy)
      <4>1. Answered(v, d)' => Answered(v, d)
        BY <1>1, <1>6 DEF Answered
      <4>2. Succeeded(v, d) => Succeeded(v, d)'
        BY <1>2, <3>2 DEF Succeeded
      <4>. QED
        BY <2>2, <2>5, <4>1, <4>2 DEF Safe
    <3>. QED
      BY <3>1, <3>2
  <2>6. ASSUME NEW d \in ready PROVE Safe(d.id)'
    BY <2>2 DEF Safe
  <2>7. OwedInv'
    BY <1>1, <2>2, <2>5, <2>6, SafeStays DEF DInv, OwedInv
  <2>. QED
    BY <1>4, <2>3, <2>4, <2>7 DEF DInv
<1>8. CASE RouteAck(w) \/ RouteNack(w)
  <2>1. h.kind \in Answers /\ h.kind \notin Publishes
    BY <1>8 DEF RouteAck, RouteNack, HeadIs, Publishes, Answers, h
  <2>2. /\ unacked' = [unacked EXCEPT ![w] = @ \ {h.copy}]
        /\ ready' = ready /\ dlq \subseteq dlq'
    BY <1>3, <1>8 DEF RouteAck, RouteNack
  <2>3. ~(pc[w] \in Busy /\ cur[w] = h.copy)
    BY <1>2, <2>1 DEF DInv, FrameInv
  <2>4. ClosedInv' /\ HeldInv' /\ PlaceInv'
    BY <1>1, <1>2, <1>5, <2>2, <2>3 DEF TypeOK, DInv, ClosedInv, HeldInv, PlaceInv
  <2>5. FrameInv'
    BY <1>1, <1>2, <1>6, <2>1, <2>2 DEF TypeOK, DInv, FrameInv
  <2>6. ~Succeeded(w, h.copy)
    BY <1>2, <2>1 DEF Succeeded
  <2>7. ASSUME NEW v \in Workers, NEW d \in unacked[v],
               Answered(v, d) => Succeeded(v, d)
        PROVE  Safe(d.id)'
    <3>1. ~(v = w /\ d = h.copy)
      BY <1>2, <2>1, <2>6, <2>7 DEF Answered
    <3>2. d \in unacked'[v]
      BY <2>2, <3>1 DEF TypeOK
    <3>3. Answered(v, d)' => Answered(v, d)
      BY <1>1, <1>6 DEF Answered
    <3>4. Succeeded(v, d) => Succeeded(v, d)'
      BY <1>2, <3>1 DEF Succeeded
    <3>. QED
      BY <2>7, <3>2, <3>3, <3>4 DEF Safe
  <2>8. ASSUME NEW d \in ready PROVE Safe(d.id)'
    BY <2>2 DEF Safe
  <2>9. OwedInv'
    BY <1>1, <2>2, <2>7, <2>8, SafeStays DEF DInv, OwedInv
  <2>. QED
    BY <1>4, <2>4, <2>5, <2>9 DEF DInv
<1>. QED
  BY <1>7, <1>8 DEF RouteStep

\* Processes that start, end and die: the broker still holds what they held.
LEMMA ProcessEndDInv ==
    ASSUME TypeOK, DInv, NEW w \in Workers, Start(w) \/ Exit(w) \/ Crash(w)
    PROVE  DInv'
<1>1. /\ UNCHANGED <<ready, unacked, dlq, wire, routed, okRuns>>
      /\ \A v \in Workers : v # w => UNCHANGED <<session[v], pc[v], buf[v], cur[v]>>
      /\ \A v \in Workers : v # w => processed'[v] = processed[v]
      /\ pc'[w] \in {"idle", "down"} /\ processed'[w] = {}
      /\ buf'[w] = {}
      /\ session[w] => session'[w]
      /\ ~session'[w] => unacked[w] = {} /\ wire[w] = << >>
  <2>1. CASE Start(w)
    BY <2>1 DEF Start, TypeOK, DInv, ClosedInv, runVars
  <2>2. CASE Exit(w)
    BY <2>2 DEF Exit, TypeOK, DInv, ClosedInv, brokerVars, runVars
  <2>3. CASE Crash(w)
    BY <2>3 DEF Crash, TypeOK, DInv, ClosedInv, brokerVars, runVars
  <2>. QED
    BY <2>1, <2>2, <2>3
<1>2. ClosedInv' /\ HeldInv'
  BY <1>1 DEF DInv, ClosedInv, HeldInv, Busy
<1>3. FrameInv' /\ LastInv'
  BY <1>1 DEF DInv, FrameInv, LastInv, Busy
<1>4. PlaceInv' /\ MemoryInv'
  BY <1>1 DEF DInv, PlaceInv, MemoryInv, DoneIds
<1>5. OwedInv'
  <2>1. ASSUME NEW d \in ready PROVE Safe(d.id)'
    BY <1>1 DEF Safe
  <2>2. ASSUME NEW v \in Workers, NEW d \in unacked[v],
               Answered(v, d) => Succeeded(v, d)
        PROVE  Safe(d.id)'
    <3>1. Answered(v, d)' => Answered(v, d)
      BY <1>1 DEF Answered
    <3>2. Succeeded(v, d) => Succeeded(v, d)'
      BY <1>1 DEF Succeeded
    <3>. QED
      BY <1>1, <2>2, <3>1, <3>2 DEF Safe
  <2>. QED
    BY <1>1, <2>1, <2>2, SafeStays DEF DInv, OwedInv
<1>. QED
  BY <1>2, <1>3, <1>4, <1>5 DEF DInv

\* The end of a session puts everything the worker still owed into the queue.
LEMMA SessionEndDInv ==
    ASSUME TypeOK, DInv, NEW w \in Workers, LoseConnection(w) \/ Reap(w)
    PROVE  DInv'
<1>1. /\ session' = [session EXCEPT ![w] = FALSE]
      /\ ready' = ready \union unacked[w]
      /\ unacked' = [unacked EXCEPT ![w] = {}]
      /\ wire' = [wire EXCEPT ![w] = << >>]
      /\ UNCHANGED <<dlq, pc, buf, cur, processed, routed, okRuns>>
  BY DEF LoseConnection, Reap, EndSession, localVars, runVars
<1>2. /\ unacked'[w] = {} /\ wire'[w] = << >> /\ InWire(wire'[w]) = {}
      /\ AnswerLast(wire'[w]) /\ ~session'[w]
  <2>1. unacked'[w] = {} /\ wire'[w] = << >> /\ ~session'[w]
    BY <1>1 DEF TypeOK
  <2>2. Len(wire'[w]) = 0 /\ 1 .. 0 = {}
    BY <2>1, EmptySeq
  <2>. QED
    BY <2>1, <2>2 DEF InWire, AnswerLast
<1>3. \A v \in Workers : v # w => UNCHANGED <<unacked[v], wire[v], session[v]>>
  BY <1>1 DEF TypeOK
<1>4. ClosedInv' /\ HeldInv'
  BY <1>1, <1>2, <1>3 DEF DInv, ClosedInv, HeldInv
<1>5. FrameInv' /\ LastInv'
  BY <1>1, <1>2, <1>3 DEF DInv, FrameInv, LastInv
<1>6. PlaceInv' /\ MemoryInv'
  BY <1>1, <1>2, <1>3 DEF DInv, PlaceInv, MemoryInv, DoneIds
<1>7. OwedInv'
  <2>1. ASSUME NEW d \in ready PROVE Safe(d.id)'
    BY <1>1 DEF Safe
  <2>2. ASSUME NEW v \in Workers, NEW d \in unacked[v],
               Answered(v, d) => Succeeded(v, d)
        PROVE  Safe(d.id)'
    <3>1. CASE v = w
      BY <1>1, <3>1 DEF Safe
    <3>2. CASE v # w
      <4>1. (Answered(v, d) => Succeeded(v, d))' /\ d \in unacked'[v]
        BY <1>1, <1>3, <2>2, <3>2 DEF Answered, Succeeded
      <4>. QED
        BY <4>1 DEF Safe
    <3>. QED
      BY <3>1, <3>2
  <2>. QED
    BY <1>1, <2>1, <2>2, SafeStays DEF DInv, OwedInv
<1>. QED
  BY <1>4, <1>5, <1>6, <1>7 DEF DInv

\* Every step keeps the invariant.
LEMMA NextDInv == IInv /\ DInv /\ [Next]_vars => DInv'
<1>. SUFFICES ASSUME IInv, DInv, [Next]_vars PROVE DInv'
  OBVIOUS
<1>. TypeOK /\ AttemptInv
  BY DEF IInv
<1>1. CASE UNCHANGED vars
  BY <1>1, QueueGrows DEF vars, brokerVars, localVars, runVars
<1>2. CASE \/ \E r \in Requests : Reject(r) \/ Post(r) \/ RouteApi(r)
           \/ CutApi \/ RestartApi \/ ForeignPublish
  BY <1>2, ApiDInv
<1>3. ASSUME NEW w \in Workers, NEW c \in ready, Deliver(w, c)
      PROVE  DInv'
  BY <1>3, DeliverDInv
<1>4. ASSUME NEW w \in Workers,
             \/ ProcessOk(w) \/ ProcessFail(w) \/ Publish(w) \/ Ack(w)
      PROVE  DInv'
  <2>1. pc[w] \in Busy
    BY <1>4 DEF ProcessOk, ProcessFail, Publish, Ack, Busy
  <2>2. cur[w] \in Copy /\ cur[w].id \in Requests
    BY <2>1 DEF AttemptInv, Backed
  <2>. QED
    BY <1>4, <2>2, ProcessDInv, PublishDInv, AckDInv
<1>5. ASSUME NEW w \in Workers,
             \/ TakeMalformed(w) \/ TakeDuplicate(w) \/ TakeJob(w)
             \/ RouteStep(w) \/ Start(w) \/ Exit(w) \/ Crash(w)
             \/ LoseConnection(w) \/ Reap(w)
      PROVE  DInv'
  BY <1>5, TakeDInv, RouteDInv, ProcessEndDInv, SessionEndDInv
<1>. QED
  BY <1>1, <1>2, <1>3, <1>4, <1>5 DEF Next, WorkerStep

\* It holds in every behaviour.
LEMMA DInvHolds == Spec => []DInv
BY InitDInv, NextDInv, IInvHolds, PTL DEF Spec

-----------------------------------------------------------------------------
(* What the induction gives.                                               *)

\* A safe job is executed, dead-lettered or held by the broker.
LEMMA SafeIsAccounted == IInv /\ DInv => NoJobLost
<1>. SUFFICES ASSUME IInv, DInv, NEW r \in routed
              PROVE  r \in DoneIds \union DeadIds \union PendingIds
  BY DEF NoJobLost
<1>1. r \in Requests /\ r # NoId
  BY RequestsAssumption DEF IInv, TypeOK
<1>2. Safe(r)
  BY DEF DInv, OwedInv
<1>. QED
  BY <1>1, <1>2 DEF Safe, DoneIds, DeadIds, PendingIds, InBroker

\* Two answers to one delivery would each have to be the last frame about it.
LEMMA AnswersAreKnown == IInv /\ DInv => AcksAreKnown
<1>. SUFFICES ASSUME IInv, DInv, NEW w \in Workers
              PROVE  /\ \A i \in AckedBy(w) : wire[w][i].copy \in unacked[w]
                     /\ \A i, j \in AckedBy(w) :
                           wire[w][i].copy = wire[w][j].copy => i = j
  BY DEF AcksAreKnown
<1>1. AckedBy(w) = {i \in 1 .. Len(wire[w]) : wire[w][i].kind \in Answers}
  BY DEF AckedBy, Answers
<1>2. ASSUME NEW i \in AckedBy(w) PROVE wire[w][i].copy \in unacked[w]
  BY <1>1 DEF DInv, FrameInv, InWire
<1>3. ASSUME NEW i \in AckedBy(w), NEW j \in AckedBy(w),
             wire[w][i].copy = wire[w][j].copy
      PROVE  i = j
  <2>1. i <= j /\ j <= i
    BY <1>1, <1>3 DEF DInv, LastInv, AnswerLast
  <2>2. i \in Int /\ j \in Int
    BY <1>1, LenProperties DEF IInv, TypeOK
  <2>. QED
    BY <2>1, <2>2
<1>. QED
  BY <1>2, <1>3

\* For every number of jobs and workers, every prefetch and any number of
\* crashes, lost connections and messages published by hand: a job that
\* reached task_jobs is executed, in the dead-letter queue, or still held by
\* the broker (the worker publishes before it acks and acks last).
THEOREM NothingLost == Spec => []NoJobLost
BY DInvHolds, IInvHolds, SafeIsAccounted, PTL

\* The worker answers every delivery once, and on the session it came from:
\* the broker never has a reason to close the channel.
THEOREM AcknowledgementsKnown == Spec => []AcksAreKnown
BY DInvHolds, IInvHolds, AnswersAreKnown, PTL
=============================================================================
