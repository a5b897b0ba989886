----------------------------- MODULE CacheAside -----------------------------
(***************************************************************************)
(* pz9-redis-cache: an HTTP service that keeps tasks in a map in memory    *)
(* and caches single tasks and pages of the task list in Redis, cache      *)
(* aside.  Every request runs in a goroutine of its own; between its calls *)
(* to Redis and to the repository the other requests run.                  *)
(*                                                                         *)
(* Redis, which is not part of the repository, is modelled from how the    *)
(* code uses it: GET, SET with a TTL and DEL of one key, each atomic, each *)
(* of which can report an error, whether or not Redis has executed it.     *)
(***************************************************************************)
EXTENDS Integers, FiniteSets

CONSTANTS
    Ids,            \* the tasks that NewRepo puts into the repository
    Values,         \* what a task can hold: title, description, due date
    First,          \* the value NewRepo gives a task
    Torn,           \* fields of several values mixed up, or a zero task
    Lists,          \* the list requests: pairs <<page, limit>>
    Requests,       \* goroutines that can be at work at the same time
    None,           \* no entry under a key
    MaxWrites,      \* bound: PATCH and DELETE requests
    MaxErrors,      \* bound: Redis commands that report an error
    MaxRestarts     \* bound: ends of the server process

ASSUME DataAssumption ==
    /\ Ids \subseteq Nat \ {0} /\ IsFiniteSet(Ids)
    /\ First \in Values /\ Torn \notin Values
    /\ Lists \subseteq Int \X Int
ASSUME BoundsAssumption == MaxWrites \in Nat /\ MaxErrors \in Nat /\ MaxRestarts \in Nat

\* KeyBuilder: a task key names the id, a list key the page and the limit.
TaskKey(id) == <<id>>
TaskKeys == {TaskKey(id) : id \in Ids}
Keys == TaskKeys \union Lists

\* A task list, or the one task of a task key: the values by id.  NotFound,
\* the marker __NOT_FOUND__, has no task in it.
Contents == UNION {[S -> Values \union {Torn}] : S \in SUBSET Ids}

ASSUME NoneAssumption == None \notin Keys \union Contents

VARIABLES
    repo,           \* Repo.data
    client,         \* TaskService.redis is not nil
    cache,          \* what Redis holds under each key
    pc,             \* where each request stands
    key,            \* the key it reads, or the task key of what it writes
    data,           \* the content it is going to store: what a PATCH carries
                    \* (no task for a DELETE), what a GET has read
    todo,           \* the list keys it has yet to delete
    left,           \* Repo.List: the tasks of its page it has yet to read
    writes, errors, restarts,   \* the bounded events so far
    late,           \* history: GETs the repository has overtaken since their Read
    excused,        \* history: keys whose entry may be out of date for a known reason
    contested       \* history: tasks a DELETE removed between the check and the
                    \* store of a PATCH

localVars == <<pc, key, data, todo, left>>
countVars == <<writes, errors, restarts>>
historyVars == <<late, excused, contested>>
vars == <<repo, client, cache, localVars, countVars, historyVars>>

Empty == [i \in {} |-> First]
NewRepo == [i \in Ids |-> First]

Init ==
    /\ repo = NewRepo
    /\ client \in BOOLEAN
    /\ cache = [k \in Keys |-> None]
    /\ pc = [p \in Requests |-> "idle"]
    /\ key = [p \in Requests |-> None]
    /\ data = [p \in Requests |-> Empty]
    /\ todo = [p \in Requests |-> {}]
    /\ left = [p \in Requests |-> {}]
    /\ writes = 0 /\ errors = 0 /\ restarts = 0
    /\ late = {} /\ excused = {} /\ contested = {}

-----------------------------------------------------------------------------
(* The repository.                                                         *)

\* Repo.List: which tasks, by their rank among the ids, a page shows.
Rank(id) == Cardinality({i \in DOMAIN repo : i <= id})
Page(l) == IF l[1] < 1 THEN 1 ELSE l[1]
Limit(l) == IF l[2] < 1 THEN 10 ELSE l[2]
OnPage(l) ==
    LET start == (Page(l) - 1) * Limit(l)
    IN  {id \in DOMAIN repo : Rank(id) \in start + 1 .. start + Limit(l)}

\* The ids a key shows now, and the content the repository has for it.
Shown(k) == IF k \in TaskKeys THEN {i \in DOMAIN repo : k = TaskKey(i)} ELSE OnPage(k)
Current(k) == [i \in Shown(k) |-> repo[i]]

\* The ids request p is about to store into, or remove from, the map.
Target(p) == {i \in Ids : key[p] = TaskKey(i)}

\* The map has no lock: q may access it while p changes the entry of task i
\* (to delete a task that is gone changes nothing).
Racing(q, i) ==
    \E p \in Requests \ {q} :
        pc[p] = "write" /\ i \in Target(p) /\ (i \in DOMAIN repo \/ data[p] # Empty)

-----------------------------------------------------------------------------
(* Redis commands of a request: done, or reported as failed.               *)

\* A command that would make the cache c either does, or reports an error and
\* did or did not.
Succeeds(c) == cache' = c /\ errors' = errors
Fails(c) == errors < MaxErrors /\ errors' = errors + 1 /\ cache' \in {cache, c}

\* Entry k is gone or fits the repository / may be out of date.
Clear(k) == excused' = excused \ {k}
Excuse(ks) == excused' = excused \union ks

Goto(p, l) == pc' = [pc EXCEPT ![p] = l] /\ key' = key

\* The request is answered.
Finish(p) == pc' = [pc EXCEPT ![p] = "idle"] /\ key' = [key EXCEPT ![p] = None]

-----------------------------------------------------------------------------
(* GET of a task or of a page.                                             *)

BeginGet(p, k) ==
    /\ pc[p] = "idle"
    /\ key' = [key EXCEPT ![p] = k]
    /\ pc' = [pc EXCEPT ![p] = IF client THEN "lookup" ELSE "read"]
    /\ UNCHANGED <<repo, client, cache, data, todo, left, countVars, historyVars>>

\* A hit is the answer; a miss or an error leads to the repository.
Hit(p) ==
    /\ pc[p] = "lookup"
    /\ cache[key[p]] # None
    /\ Finish(p)
    /\ UNCHANGED <<repo, client, cache, data, todo, left, countVars, historyVars>>

Miss(p) ==
    /\ pc[p] = "lookup"
    /\ (cache[key[p]] = None /\ Succeeds(cache)) \/ Fails(cache)
    /\ Goto(p, "read")
    /\ UNCHANGED <<repo, client, data, todo, left, writes, restarts, historyVars>>

\* Without a client nobody keeps what the repository has answered.
ReadUncached(p) ==
    /\ pc[p] = "read"
    /\ ~client
    /\ Finish(p)
    /\ UNCHANGED <<repo, client, cache, data, todo, left, countVars, historyVars>>

\* Repo.GetByID: one look into the map, which finds a mixture if the entry is
\* being changed.
Read(p) ==
    /\ pc[p] = "read" /\ key[p] \in TaskKeys /\ client
    /\ \/ /\ data' = [data EXCEPT ![p] = Current(key[p])]
          /\ late' = late
       \/ /\ \E id \in Target(p) : Racing(p, id)
          /\ data' = [data EXCEPT ![p] = [i \in Target(p) |-> Torn]]
          /\ late' = late \union {p}
    /\ Goto(p, "fill")
    /\ UNCHANGED <<repo, client, cache, todo, left, countVars, excused, contested>>

\* Repo.List: the ids of the page first,
ReadIds(p) ==
    /\ pc[p] = "read" /\ key[p] \in Lists /\ client
    /\ left' = [left EXCEPT ![p] = OnPage(key[p])]
    /\ data' = [data EXCEPT ![p] = Empty]
    /\ Goto(p, IF OnPage(key[p]) = {} THEN "fill" ELSE "items")
    /\ UNCHANGED <<repo, client, cache, todo, countVars, historyVars>>

\* then the tasks in their order.  One that is gone by now is listed as a zero
\* task, one that is being changed can be a mixture.
ReadItem(p, id) ==
    LET Add(v) == [i \in DOMAIN data[p] \union {id} |-> IF i = id THEN v ELSE data[p][i]]
    IN  /\ pc[p] = "items"
        /\ id \in left[p] /\ \A i \in left[p] : id <= i
        /\ \/ /\ id \in DOMAIN repo
              /\ data' = [data EXCEPT ![p] = Add(repo[id])]
              /\ late' = late
           \/ /\ id \notin DOMAIN repo \/ Racing(p, id)
              /\ data' = [data EXCEPT ![p] = Add(Torn)]
              /\ late' = late \union {p}
        /\ left' = [left EXCEPT ![p] = @ \ {id}]
        /\ Goto(p, IF left[p] = {id} THEN "fill" ELSE "items")
        /\ UNCHANGED <<repo, client, cache, todo, countVars, excused, contested>>

\* cacheTask, cacheNotFound or cacheTaskList: SET, its error only logged.
Fill(p) ==
    LET k == key[p]
        filled == [cache EXCEPT ![k] = data[p]]
    IN  /\ pc[p] = "fill"
        /\ Succeeds(filled) \/ Fails(filled)
        /\ IF cache' = cache THEN excused' = excused
           ELSE IF p \in late THEN Excuse({k}) ELSE Clear(k)
        /\ late' = late \ {p}
        /\ data' = [data EXCEPT ![p] = Empty]
        /\ Finish(p)
        /\ UNCHANGED <<repo, client, todo, left, writes, restarts, contested>>

-----------------------------------------------------------------------------
(* PATCH and DELETE.                                                       *)

BeginWrite(p, id, c) ==
    /\ pc[p] = "idle"
    /\ writes < MaxWrites
    /\ writes' = writes + 1
    /\ key' = [key EXCEPT ![p] = TaskKey(id)]
    /\ data' = [data EXCEPT ![p] = c]
    /\ pc' = [pc EXCEPT ![p] = "check"]
    /\ UNCHANGED <<repo, client, cache, todo, left, errors, restarts, historyVars>>

\* A PATCH replaces the whole task.
BeginPatch(p) == \E id \in Ids, v \in Values : BeginWrite(p, id, [i \in {id} |-> v])
BeginDelete(p) == \E id \in Ids : BeginWrite(p, id, Empty)

\* A mutated Check: Update does not look whether the task exists.
CheckNothing(p) ==
    /\ pc[p] = "check"
    /\ Goto(p, "write")
    /\ UNCHANGED <<repo, client, cache, data, todo, left, countVars, historyVars>>

\* Repo.Update or Repo.Delete looks for the task: found,
Check(p) ==
    /\ pc[p] = "check"
    /\ Target(p) \subseteq DOMAIN repo
    /\ Goto(p, "write")
    /\ UNCHANGED <<repo, client, cache, data, todo, left, countVars, historyVars>>

\* or ErrTaskNotFound: 404.
WriteAbsent(p) ==
    /\ pc[p] = "check"
    /\ Target(p) \intersect DOMAIN repo = {}
    /\ Finish(p)
    /\ data' = [data EXCEPT ![p] = Empty]
    /\ UNCHANGED <<repo, client, cache, todo, left, countVars, historyVars>>

\* The list keys that invalidateTask deletes: pages 1 to 5, limits 1 to 20.
Paged == {l \in Lists : l[1] \in 1 .. 5 /\ l[2] \in 1 .. 20}

\* The GETs of the same task or of a page that p's change comes in between.
Overtaken(p) ==
    {q \in Requests : pc[q] \in {"items", "fill"} /\ key[q] \in Lists \union {key[p]}}

\* The PATCHes of the same task that have found it and will store it.
Storing(p) == {q \in Requests \ {p} : pc[q] = "write" /\ key[q] = key[p] /\ data[q] # Empty}

\* Repo.Update or Repo.Delete after the check: the task is stored, whether it
\* is still there or not, or deleted.  Two stores at the same time can leave a
\* mixture behind.  Without a client nothing is invalidated, with one the
\* pages outside Paged are not.
Write(p) ==
    /\ pc[p] = "write"
    /\ \E c \in [DOMAIN data[p] -> Values \union {Torn}] :
        /\ \A i \in DOMAIN c : c[i] = data[p][i] \/ (c[i] = Torn /\ Racing(p, i))
        /\ repo' = [i \in (DOMAIN repo \ Target(p)) \union DOMAIN c |->
                        IF i \in Target(p) THEN c[i] ELSE repo[i]]
    /\ IF client THEN Goto(p, "invalidate") ELSE Finish(p)
    /\ data' = [data EXCEPT ![p] = Empty]
    /\ IF repo' = repo THEN UNCHANGED <<late, excused>>
       ELSE /\ Excuse(IF client THEN Lists \ Paged ELSE Lists \union {key[p]})
            /\ late' = late \union Overtaken(p)
    /\ contested' = contested \union
                       (IF Storing(p) # {} THEN DOMAIN repo \ DOMAIN repo' ELSE {})
    /\ UNCHANGED <<client, cache, todo, left, countVars>>

\* A mutated Invalidate: it returns after the task key.
InvalidateTaskOnly(p) ==
    LET deleted == [cache EXCEPT ![key[p]] = None]
    IN  /\ pc[p] = "invalidate"
        /\ \/ Succeeds(deleted) /\ Clear(key[p])
           \/ Fails(deleted) /\ Excuse(Paged \union {key[p]})
        /\ Finish(p)
        /\ UNCHANGED <<repo, client, data, todo, left, writes, restarts, late, contested>>

\* invalidateTask: DEL of the task key.  If it reports an error, the list keys
\* are not deleted at all.
Invalidate(p) ==
    LET deleted == [cache EXCEPT ![key[p]] = None]
    IN  /\ pc[p] = "invalidate"
        /\ \/ /\ Succeeds(deleted)
              /\ Clear(key[p])
              /\ todo' = [todo EXCEPT ![p] = Paged]
              /\ IF Paged = {} THEN Finish(p) ELSE Goto(p, "lists")
           \/ /\ Fails(deleted)
              /\ Excuse(Paged \union {key[p]})
              /\ todo' = todo
              /\ Finish(p)
        /\ UNCHANGED <<repo, client, data, left, writes, restarts, late, contested>>

\* A mutated InvalidateList: the loop ends at the first error.
InvalidateListUntilError(p, l) ==
    LET deleted == [cache EXCEPT ![l] = None]
    IN  /\ pc[p] = "lists"
        /\ l \in todo[p]
        /\ \/ /\ Succeeds(deleted)
              /\ Clear(l)
              /\ todo' = [todo EXCEPT ![p] = @ \ {l}]
              /\ IF todo[p] = {l} THEN Finish(p) ELSE Goto(p, "lists")
           \/ /\ Fails(deleted)
              /\ Excuse({l})
              /\ todo' = todo
              /\ Finish(p)
        /\ UNCHANGED <<repo, client, data, left, writes, restarts, late, contested>>

\* One DEL of the loop over pages and limits; its error is ignored.
InvalidateList(p, l) ==
    LET deleted == [cache EXCEPT ![l] = None]
    IN  /\ pc[p] = "lists"
        /\ l \in todo[p]
        /\ \/ Succeeds(deleted) /\ Clear(l)
           \/ Fails(deleted) /\ Excuse({l})
        /\ todo' = [todo EXCEPT ![p] = @ \ {l}]
        /\ IF todo[p] = {l} THEN Finish(p) ELSE Goto(p, "lists")
        /\ UNCHANGED <<repo, client, data, left, writes, restarts, late, contested>>

-----------------------------------------------------------------------------
(* The world around the requests.                                          *)

\* A mutated Expire: cacheTaskList sets its entries without a TTL.
ExpireTasksOnly(k) ==
    /\ k \in TaskKeys
    /\ cache[k] # None
    /\ cache' = [cache EXCEPT ![k] = None]
    /\ Clear(k)
    /\ UNCHANGED <<repo, client, localVars, countVars, late, contested>>

\* The TTL of an entry runs out (TTLWithJitter), or Redis evicts it.
Expire(k) ==
    /\ cache[k] # None
    /\ cache' = [cache EXCEPT ![k] = None]
    /\ Clear(k)
    /\ UNCHANGED <<repo, client, localVars, countVars, late, contested>>

\* The process ends, for instance with the fatal error "concurrent map writes"
\* of the Go runtime, and main runs again: a new repository, and a client if
\* Redis answers the Ping.  Redis keeps what it has.
Restart ==
    /\ restarts < MaxRestarts
    /\ restarts' = restarts + 1
    /\ repo' = NewRepo
    /\ client' \in BOOLEAN
    /\ pc' = [p \in Requests |-> "idle"]
    /\ key' = [p \in Requests |-> None]
    /\ data' = [p \in Requests |-> Empty]
    /\ todo' = [p \in Requests |-> {}]
    /\ left' = [p \in Requests |-> {}]
    /\ late' = {} /\ contested' = {}
    /\ Excuse(Keys)
    /\ UNCHANGED <<cache, writes, errors>>

-----------------------------------------------------------------------------
Get(p) ==
    \/ Hit(p) \/ Miss(p) \/ ReadUncached(p) \/ Read(p) \/ ReadIds(p) \/ Fill(p)
    \/ \E id \in Ids : ReadItem(p, id)

Change(p) ==
    \/ Check(p) \/ WriteAbsent(p) \/ Write(p) \/ Invalidate(p)
    \/ \E l \in Lists : InvalidateList(p, l)

Next ==
    \/ \E p \in Requests :
        \/ \E k \in Keys : BeginGet(p, k)
        \/ BeginPatch(p) \/ BeginDelete(p) \/ Get(p) \/ Change(p)
    \/ \E k \in Keys : Expire(k)
    \/ Restart

Spec == Init /\ [][Next]_vars

\* A request that has begun goes on, and every TTL is positive.
Fairness ==
    /\ \A p \in Requests : WF_vars(Get(p) \/ Change(p))
    /\ \A k \in Keys : WF_vars(Expire(k))

FairSpec == Spec /\ Fairness

-----------------------------------------------------------------------------
(* Properties.                                                             *)

\* The states of a request.
Places == {"idle", "lookup", "read", "items", "fill", "check", "write", "invalidate", "lists"}

\* The shape of the state; a request has list keys to delete only while it is
\* in the loop that deletes them, and tasks to read only while it lists them.
TypeOK ==
    /\ \E S \in SUBSET Ids : repo \in [S -> Values \union {Torn}]
    /\ client \in BOOLEAN
    /\ cache \in [Keys -> Contents \union {None}]
    /\ pc \in [Requests -> Places]
    /\ key \in [Requests -> Keys \union {None}]
    /\ data \in [Requests -> Contents]
    /\ todo \in [Requests -> SUBSET Paged]
    /\ left \in [Requests -> SUBSET Ids]
    /\ writes \in 0 .. MaxWrites
    /\ errors \in 0 .. MaxErrors
    /\ restarts \in 0 .. MaxRestarts
    /\ late \subseteq Requests
    /\ excused \subseteq Keys
    /\ contested \subseteq Ids
    /\ \A p \in Requests :
        /\ pc[p] = "idle" <=> key[p] = None
        /\ todo[p] # {} <=> pc[p] = "lists"
        /\ left[p] # {} <=> pc[p] = "items"

Fresh(k) == cache[k] \in {None, Current(k)}

\* Some request has changed the repository and is going to delete entry k.
Owed(k) ==
    \E p \in Requests :
        \/ pc[p] = "invalidate" /\ k \in Paged \union {key[p]}
        \/ pc[p] = "lists" /\ k \in todo[p]

\* invalidateTask reaches every entry a change makes stale: one that does not
\* fit the repository is about to be deleted, or is there because a GET that a
\* change had overtaken stored it, its DEL failed, it is a page outside those
\* invalidateTask deletes, or the change was made without Redis or before a
\* restart.  Nothing else makes an entry stale.
StaleIsExplained == \A k \in Keys : Fresh(k) \/ Owed(k) \/ k \in excused

\* Until the process restarts, an entry __NOT_FOUND__ of a task that exists has
\* one reason: a DELETE of the task came between the check and the store of a
\* PATCH, which Repo does under no lock, and the PATCH brought it back.  Nothing
\* else does, however requests and failures interleave.
NegativeIsExplained ==
    restarts = 0 =>
        \A id \in Ids :
            cache[TaskKey(id)] = Empty /\ id \in DOMAIN repo => id \in contested

\* After the last change, failure and restart the cache fits the repository
\* sooner or later, and keeps to it (every SET has a TTL).
FreshInTheEnd == <>[](\A k \in Keys : Fresh(k))

\* README.md:190 promises consistency after PATCH and DELETE; here without
\* failed commands and restarts, and when nothing is under way.
ConsistentAtRest ==
    (\A p \in Requests : pc[p] = "idle") /\ errors = 0 /\ restarts = 0
        => \A k \in Keys : Fresh(k)
=============================================================================
