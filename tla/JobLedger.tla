----------------------------- MODULE JobLedger -----------------------------
(***************************************************************************)
(* What the job queue of pz14-job-queue promises its clients, with no      *)
(* broker, worker, frame or acknowledgement in sight: a job that has been  *)
(* queued stays pending until it has been executed or has been buried in   *)
(* the dead-letter queue, and it never ends up both ways.                  *)
(* JobQueue.tla implements this specification (JobQueue!LedgerSpec).       *)
(***************************************************************************)
CONSTANT Requests        \* the accepted POSTs, one message_id each

VARIABLES
    queued,              \* jobs that were ever queued
    pending,             \* jobs the broker still answers for
    done,                \* jobs executed at least once
    dead                 \* jobs in the dead-letter queue

ledger == <<queued, pending, done, dead>>

Init == queued = {} /\ pending = {} /\ done = {} /\ dead = {}

Enqueue(r) ==
    /\ r \notin queued
    /\ queued' = queued \union {r}
    /\ pending' = pending \union {r}
    /\ UNCHANGED <<done, dead>>

\* An operator puts a second copy of a known message on the queue.
Reenter(r) ==
    /\ r \in queued
    /\ pending' = pending \union {r}
    /\ UNCHANGED <<queued, done, dead>>

Complete(r) ==
    /\ r \in pending \ dead
    /\ done' = done \union {r}
    /\ UNCHANGED <<queued, pending, dead>>

Bury(r) ==
    /\ r \in pending \ done
    /\ dead' = dead \union {r}
    /\ UNCHANGED <<queued, pending, done>>

\* The broker forgets a job, and it may do so only once the job is settled.
Retire(r) ==
    /\ r \in pending
    /\ r \in done \union dead
    /\ pending' = pending \ {r}
    /\ UNCHANGED <<queued, done, dead>>

Next ==
    \E r \in Requests :
        Enqueue(r) \/ Reenter(r) \/ Complete(r) \/ Bury(r) \/ Retire(r)

Spec == Init /\ [][Next]_ledger
=============================================================================
