-------------------------- MODULE CacheAsideProofs --------------------------
(***************************************************************************)
(* Proofs about CacheAside for any tasks, values, pages and requests and   *)
(* any number of writes, failed commands and restarts: the invariants of   *)
(* the safety run.                                                         *)
(***************************************************************************)
EXTENDS CacheAside, TLAPS

-----------------------------------------------------------------------------
(* The inductive invariant.                                                *)

Task == Values \union {Torn}

\* What a request works on; what a PATCH or a DELETE carries is for its task.
LocalInv ==
    \A p \in Requests :
        /\ pc[p] \in {"check", "write", "invalidate", "lists"} => key[p] \in TaskKeys
        /\ pc[p] \in {"check", "write"} => DOMAIN data[p] \subseteq Target(p)

\* What p has read, with what it has yet to read, is what key k shows.
Fits(p, k) ==
    /\ left[p] \union DOMAIN data[p] = DOMAIN Current(k)
    /\ \A i \in DOMAIN data[p] : data[p][i] = Current(k)[i]

\* What a GET is going to store fits the repository unless it was overtaken.
FillInv == \A p \in Requests : pc[p] \in {"items", "fill"} => p \in late \/ Fits(p, key[p])

\* A GET that has found no task, overtaken or not, and a PATCH that has found
\* one are right until the process ends, unless a DELETE came between the check
\* and the store of a PATCH.
AbsentInv ==
    restarts = 0 =>
        \A p \in Requests, id \in Ids :
            /\ pc[p] = "fill" /\ key[p] = TaskKey(id) /\ data[p] = Empty
                    => id \notin DOMAIN repo \/ id \in contested
            /\ pc[p] = "write" /\ key[p] = TaskKey(id) /\ data[p] # Empty
                    => id \in DOMAIN repo \/ id \in contested

IInv == /\ TypeOK /\ LocalInv /\ FillInv /\ AbsentInv
        /\ StaleIsExplained /\ NegativeIsExplained
-----------------------------------------------------------------------------
(* Facts used by several steps.                                            *)

\* Keys name what they are the keys of.
LEMMA KeyFacts ==
    /\ \A i, j : TaskKey(i) = TaskKey(j) => i = j
    /\ \A id \in Ids : TaskKey(id) \in Keys /\ TaskKey(id) \notin Lists
    /\ TaskKeys \subseteq Keys /\ TaskKeys \intersect Lists = {}
    /\ Paged \subseteq Lists /\ Lists \subseteq Keys
    /\ \A k \in Keys : k \in TaskKeys \/ k \in Lists
    /\ None \notin Keys /\ None \notin Contents
<1>1. \A i, j : TaskKey(i) = TaskKey(j) => i = j
  BY DEF TaskKey
<1>2. \A id \in Ids : TaskKey(id) \notin Lists
  BY DataAssumption DEF TaskKey
<1>. QED
  BY <1>1, <1>2, NoneAssumption DEF Keys, TaskKeys, Paged

\* What a key can hold.
LEMMA ContentFacts ==
    /\ \A S \in SUBSET Ids : [S -> Task] \subseteq Contents
    /\ \A c \in Contents : DOMAIN c \subseteq Ids /\ \A i \in DOMAIN c : c[i] \in Task
    /\ Empty \in Contents /\ DOMAIN Empty = {}
    /\ \A c \in Contents : DOMAIN c = {} => c = Empty
<1>1. \A S \in SUBSET Ids : [S -> Task] \subseteq Contents
  BY DEF Contents, Task
<1>2. \A c \in Contents : \E S \in SUBSET Ids : c \in [S -> Task]
  BY DEF Contents, Task
<1>3. Empty \in [{} -> Task] /\ {} \in SUBSET Ids /\ DOMAIN Empty = {}
  BY DEF Empty
<1>4. \A c \in Contents : DOMAIN c = {} => c = Empty
  BY <1>2 DEF Empty
<1>. QED
  BY <1>1, <1>2, <1>3, <1>4

\* What a key shows is in the repository.
LEMMA ShownFacts ==
    ASSUME TypeOK, NEW k
    PROVE  /\ Shown(k) \subseteq DOMAIN repo /\ DOMAIN repo \subseteq Ids
           /\ \A i \in DOMAIN repo : repo[i] \in Task
           /\ Current(k) \in Contents /\ DOMAIN Current(k) = Shown(k)
           /\ \A id \in Ids : k = TaskKey(id) => Shown(k) = {id} \intersect DOMAIN repo
<1>1. PICK S \in SUBSET Ids : repo \in [S -> Task]
  BY DEF TypeOK, Task
<1>2. Shown(k) \subseteq DOMAIN repo
  BY DEF Shown, OnPage
<1>3. Current(k) \in [Shown(k) -> Task] /\ Shown(k) \in SUBSET Ids
  BY <1>1, <1>2 DEF Current
<1>4. ASSUME NEW id \in Ids, k = TaskKey(id) PROVE Shown(k) = {id} \intersect DOMAIN repo
  BY <1>4, KeyFacts DEF Shown, TaskKeys
<1>. QED
  BY <1>1, <1>2, <1>3, <1>4, ContentFacts DEF Current

\* What a key shows depends on the repository only,
LEMMA CurrentSame ==
    ASSUME UNCHANGED repo, NEW k
    PROVE  Current(k)' = Current(k)
BY DEF Current, Shown, OnPage, Rank

\* and a task key on its task only.
LEMMA CurrentElsewhere ==
    ASSUME NEW id \in Ids, NEW j \in Ids, id # j,
           \A i \in Ids \ {id} : i \in DOMAIN repo' <=> i \in DOMAIN repo,
           \A i \in DOMAIN repo \ {id} : repo'[i] = repo[i]
    PROVE  Current(TaskKey(j))' = Current(TaskKey(j))
<1>1. TaskKey(j) \in TaskKeys
  BY DEF TaskKeys
<1>2. Shown(TaskKey(j)) = {j} \intersect DOMAIN repo
  BY <1>1, KeyFacts DEF Shown
<1>3. Shown(TaskKey(j))' = {j} \intersect DOMAIN repo'
  BY <1>1, KeyFacts DEF Shown
<1>4. {j} \intersect DOMAIN repo' = {j} \intersect DOMAIN repo
  OBVIOUS
<1>. QED
  BY <1>2, <1>3, <1>4 DEF Current

\* Nobody but p does anything.
Alone(p) ==
    \A q \in Requests \ {p} :
        /\ pc'[q] = pc[q] /\ key'[q] = key[q] /\ data'[q] = data[q]
        /\ todo'[q] = todo[q] /\ left'[q] = left[q]

\* p is going to delete entry k.
OwedBy(p, k) ==
    \/ pc[p] = "invalidate" /\ k \in Paged \union {key[p]}
    \/ pc[p] = "lists" /\ k \in todo[p]

\* An entry that p does not touch is as well explained as before.
LEMMA StaleStep ==
    ASSUME StaleIsExplained, UNCHANGED repo, NEW p \in Requests, Alone(p),
           \A k \in Keys :
              \/ cache'[k] \in {None, Current(k)}
              \/ OwedBy(p, k)'
              \/ k \in excused'
              \/ cache'[k] = cache[k] /\ (k \in excused => k \in excused') /\ ~OwedBy(p, k)
    PROVE  StaleIsExplained'
<1>. SUFFICES ASSUME NEW k \in Keys PROVE Fresh(k)' \/ Owed(k)' \/ k \in excused'
  BY DEF StaleIsExplained
<1>1. Current(k)' = Current(k)
  BY CurrentSame
<1>2. CASE cache'[k] \in {None, Current(k)}
  BY <1>1, <1>2 DEF Fresh
<1>3. CASE OwedBy(p, k)'
  BY <1>3 DEF OwedBy, Owed
<1>4. CASE cache'[k] = cache[k] /\ (k \in excused => k \in excused') /\ ~OwedBy(p, k)
  <2>1. Owed(k) => Owed(k)'
    BY <1>4 DEF Owed, OwedBy, Alone
  <2>2. Fresh(k) => Fresh(k)'
    BY <1>1, <1>4 DEF Fresh
  <2>. QED
    BY <1>4, <2>1, <2>2 DEF StaleIsExplained
<1>. QED
  BY <1>2, <1>3, <1>4

\* Content that fits goes on fitting while nothing moves.
LEMMA FillKept ==
    ASSUME FillInv, UNCHANGED <<repo, pc, key, data, left, late>>
    PROVE  FillInv'
<1>. SUFFICES ASSUME NEW q \in Requests, pc'[q] \in {"items", "fill"}
     PROVE  q \in late' \/ Fits(q, key[q])'
  BY DEF FillInv
<1>1. PICK k : k = key[q] /\ k = key'[q]
  OBVIOUS
<1>2. q \in late' \/ Fits(q, k)
  BY <1>1 DEF FillInv
<1>3. Current(k)' = Current(k)
  BY CurrentSame
<1>. QED
  BY <1>1, <1>2, <1>3 DEF Fits, Current, Shown, OnPage, Rank

\* Content that has been read to the end and fits is what the key shows.
LEMMA FitsAll ==
    ASSUME TypeOK, NEW p \in Requests, NEW k, Fits(p, k), left[p] = {}
    PROVE  data[p] = Current(k)
<1>1. PICK c : c = data[p]
  OBVIOUS
<1>2. PICK S : c \in [S -> Task]
  BY <1>1 DEF TypeOK, Contents, Task
<1>3. S = Shown(k) /\ \A i \in S : c[i] = repo[i]
  BY <1>1, <1>2 DEF Fits, Current
<1>4. c = [i \in Shown(k) |-> repo[i]]
  BY <1>2, <1>3
<1>. QED
  BY <1>1, <1>4 DEF Current

\* The same for what is going to be stored,
LEMMA FillStep ==
    ASSUME FillInv, UNCHANGED repo, NEW p \in Requests, Alone(p), late \ {p} \subseteq late',
           pc'[p] \in {"items", "fill"} =>
              \/ p \in late'
              \/ /\ left'[p] \union DOMAIN data'[p] = DOMAIN Current(key'[p])
                 /\ \A i \in DOMAIN data'[p] : data'[p][i] = Current(key'[p])[i]
    PROVE  FillInv'
<1>. SUFFICES ASSUME NEW q \in Requests, pc'[q] \in {"items", "fill"}
     PROVE  q \in late' \/ Fits(q, key[q])'
  BY DEF FillInv
<1>1. PICK k : k = key'[q]
  OBVIOUS
<1>2. Current(k)' = Current(k)
  BY CurrentSame
<1>3. \/ q \in late'
      \/ /\ left'[q] \union DOMAIN data'[q] = DOMAIN Current(k)
         /\ \A i \in DOMAIN data'[q] : data'[q][i] = Current(k)[i]
  BY <1>1 DEF Alone, FillInv, Fits
<1>. QED
  BY <1>1, <1>2, <1>3 DEF Fits, Current, Shown, OnPage, Rank

\* and for the tasks that were found, or found to be absent.
LEMMA AbsentStep ==
    ASSUME AbsentInv, NegativeIsExplained, UNCHANGED <<repo, restarts, contested>>,
           NEW p \in Requests, Alone(p),
           restarts = 0 => \A id \in Ids :
              /\ pc'[p] = "fill" /\ key'[p] = TaskKey(id) /\ data'[p] = Empty
                    => id \notin DOMAIN repo \/ id \in contested
              /\ pc'[p] = "write" /\ key'[p] = TaskKey(id) /\ data'[p] # Empty
                    => id \in DOMAIN repo \/ id \in contested
              /\ cache'[TaskKey(id)] = Empty
                    => \/ cache[TaskKey(id)] = Empty
                       \/ id \notin DOMAIN repo \/ id \in contested
    PROVE  AbsentInv' /\ NegativeIsExplained'
<1>1. AbsentInv'
  BY DEF AbsentInv, Alone
<1>2. NegativeIsExplained'
  BY DEF NegativeIsExplained
<1>. QED
  BY <1>1, <1>2

\* What p has in hand is all that it changes of LocalInv.
LEMMA LocalStep ==
    ASSUME LocalInv, NEW p \in Requests, Alone(p),
           pc'[p] \in {"check", "write", "invalidate", "lists"} => key'[p] \in TaskKeys,
           pc'[p] \in {"check", "write"} =>
              \A i \in DOMAIN data'[p] : i \in Ids /\ key'[p] = TaskKey(i)
    PROVE  LocalInv'
BY DEF LocalInv, Alone, Target

\* The parts of TypeOK that belong to one request.
LEMMA LocalType ==
    ASSUME TypeOK, NEW p \in Requests
    PROVE  /\ pc[p] # "idle" => key[p] \in Keys
           /\ data[p] \in Contents /\ todo[p] \subseteq Paged
           /\ todo[p] # {} <=> pc[p] = "lists"
           /\ left[p] \subseteq Ids
           /\ left[p] # {} <=> pc[p] = "items"
BY DEF TypeOK, Places
-----------------------------------------------------------------------------
(* The steps.                                                              *)

\* The invariant holds at the start.
LEMMA InitIInv == Init => IInv
<1>. SUFFICES ASSUME Init PROVE IInv
  OBVIOUS
<1>1. TypeOK
  <2>1. Empty \in Contents /\ None \notin Keys
    BY ContentFacts, KeyFacts
  <2>2. repo \in [Ids -> Values \union {Torn}]
    BY DataAssumption DEF Init, NewRepo
  <2>. QED
    BY <2>1, <2>2, BoundsAssumption DEF Init, TypeOK, Places
<1>2. LocalInv /\ FillInv /\ AbsentInv
  BY DEF Init, LocalInv, FillInv, AbsentInv
<1>3. StaleIsExplained
  BY DEF Init, StaleIsExplained, Fresh
<1>4. NegativeIsExplained
  BY ContentFacts, KeyFacts DEF Init, NegativeIsExplained
<1>. QED
  BY <1>1, <1>2, <1>3, <1>4 DEF IInv

\* A GET begins.
LEMMA BeginGetStep ==
    ASSUME IInv, NEW p \in Requests, NEW k \in Keys, BeginGet(p, k)
    PROVE  IInv'
<1>. USE DEF IInv
<1>1. /\ pc[p] = "idle" /\ key' = [key EXCEPT ![p] = k]
      /\ pc' = [pc EXCEPT ![p] = IF client THEN "lookup" ELSE "read"]
      /\ UNCHANGED <<repo, client, cache, data, todo, left, writes, errors, restarts, late,
                  excused, contested>>
  BY DEF BeginGet, countVars, historyVars
<1>2. Alone(p) /\ pc'[p] \in {"lookup", "read"} /\ key'[p] = k
  BY <1>1 DEF Alone, TypeOK
<1>3. TypeOK'
  BY <1>1, KeyFacts DEF TypeOK, Places
<1>4. LocalInv'
  BY <1>2, LocalStep
<1>5. FillInv'
  BY <1>1, <1>2, FillStep
<1>6. AbsentInv' /\ NegativeIsExplained'
  BY <1>1, <1>2, AbsentStep
<1>7. StaleIsExplained'
  BY <1>1, <1>2, StaleStep DEF OwedBy
<1>. QED
  BY <1>3, <1>4, <1>5, <1>6, <1>7

\* A GET is answered from the cache.
LEMMA HitStep ==
    ASSUME IInv, NEW p \in Requests, Hit(p)
    PROVE  IInv'
<1>. USE DEF IInv
<1>1. /\ pc[p] = "lookup" /\ key' = [key EXCEPT ![p] = None]
      /\ pc' = [pc EXCEPT ![p] = "idle"]
      /\ UNCHANGED <<repo, client, cache, data, todo, left, writes, errors, restarts, late,
                  excused, contested>>
  BY DEF Hit, Finish, countVars, historyVars
<1>2. Alone(p) /\ pc'[p] = "idle"
  BY <1>1 DEF Alone, TypeOK
<1>3. TypeOK'
  BY <1>1, KeyFacts DEF TypeOK, Places
<1>4. LocalInv'
  BY <1>2, LocalStep
<1>5. FillInv'
  BY <1>1, <1>2, FillStep
<1>6. AbsentInv' /\ NegativeIsExplained'
  BY <1>1, <1>2, AbsentStep
<1>7. StaleIsExplained'
  BY <1>1, <1>2, StaleStep DEF OwedBy
<1>. QED
  BY <1>3, <1>4, <1>5, <1>6, <1>7

\* A GET misses.
LEMMA MissStep ==
    ASSUME IInv, NEW p \in Requests, Miss(p)
    PROVE  IInv'
<1>. USE DEF IInv
<1>1. /\ pc[p] = "lookup" /\ key' = key
      /\ pc' = [pc EXCEPT ![p] = "read"]
      /\ cache' = cache
      /\ \/ errors' = errors
         \/ errors < MaxErrors /\ errors' = errors + 1
      /\ UNCHANGED <<repo, client, data, todo, left, writes, restarts, late, excused,
                  contested>>
  BY DEF Miss, Goto, Succeeds, Fails, historyVars
<1>2. Alone(p) /\ pc'[p] = "read"
  BY <1>1 DEF Alone, TypeOK
<1>3. TypeOK'
  <2>1. errors' \in 0 .. MaxErrors
    BY <1>1, BoundsAssumption DEF TypeOK, Places
  <2>. QED
    BY <1>1, <2>1, KeyFacts DEF TypeOK, Places
<1>4. LocalInv'
  BY <1>2, LocalStep
<1>5. FillInv'
  BY <1>1, <1>2, FillStep
<1>6. AbsentInv' /\ NegativeIsExplained'
  BY <1>1, <1>2, AbsentStep
<1>7. StaleIsExplained'
  BY <1>1, <1>2, StaleStep DEF OwedBy
<1>. QED
  BY <1>3, <1>4, <1>5, <1>6, <1>7

\* A GET without a client is answered.
LEMMA ReadUncachedStep ==
    ASSUME IInv, NEW p \in Requests, ReadUncached(p)
    PROVE  IInv'
<1>. USE DEF IInv
<1>1. /\ pc[p] = "read" /\ key' = [key EXCEPT ![p] = None]
      /\ pc' = [pc EXCEPT ![p] = "idle"]
      /\ UNCHANGED <<repo, client, cache, data, todo, left, writes, errors, restarts, late,
                  excused, contested>>
  BY DEF ReadUncached, Finish, countVars, historyVars
<1>2. Alone(p) /\ pc'[p] = "idle"
  BY <1>1 DEF Alone, TypeOK
<1>3. TypeOK'
  BY <1>1, KeyFacts DEF TypeOK, Places
<1>4. LocalInv'
  BY <1>2, LocalStep
<1>5. FillInv'
  BY <1>1, <1>2, FillStep
<1>6. AbsentInv' /\ NegativeIsExplained'
  BY <1>1, <1>2, AbsentStep
<1>7. StaleIsExplained'
  BY <1>1, <1>2, StaleStep DEF OwedBy
<1>. QED
  BY <1>3, <1>4, <1>5, <1>6, <1>7

\* A GET looks for its task: what it will store fits, or is torn.
LEMMA ReadStep ==
    ASSUME IInv, NEW p \in Requests, Read(p)
    PROVE  IInv'
<1>. USE DEF IInv
<1>1. PICK k : k = key[p]
  OBVIOUS
<1>2. /\ pc[p] = "read" /\ k \in TaskKeys
      /\ pc' = [pc EXCEPT ![p] = "fill"] /\ key' = key
      /\ UNCHANGED <<repo, client, cache, todo, left, writes, errors, restarts, excused,
                  contested>>
  BY <1>1 DEF Read, Goto, countVars
<1>3. PICK id \in Ids : k = TaskKey(id)
  BY <1>2 DEF TaskKeys
<1>4. Target(p) = {id} /\ left[p] = {}
  BY <1>1, <1>2, <1>3, KeyFacts, LocalType DEF Target
<1>5. PICK c : /\ data' = [data EXCEPT ![p] = c]
               /\ \/ c = Current(k) /\ late' = late
                  \/ c = [i \in {id} |-> Torn] /\ late' = late \union {p}
  BY <1>1, <1>4 DEF Read
<1>6. /\ Alone(p) /\ pc'[p] = "fill" /\ data'[p] = c /\ key'[p] = k
      /\ left'[p] = {}
  BY <1>1, <1>2, <1>4, <1>5 DEF Alone, TypeOK
<1>7. c \in Contents
  <2>1. [i \in {id} |-> Torn] \in [{id} -> Task] /\ {id} \in SUBSET Ids
    BY DEF Task
  <2>2. [i \in {id} |-> Torn] \in Contents
    BY <2>1, ContentFacts
  <2>. QED
    BY <1>5, <2>2, ShownFacts
<1>8. TypeOK'
  BY <1>2, <1>5, <1>7, KeyFacts DEF TypeOK, Places
<1>9. LocalInv'
  BY <1>6, LocalStep
<1>10. FillInv'
  BY <1>2, <1>5, <1>6, FillStep
<1>11. c = Empty => id \notin DOMAIN repo
  <2>1. CASE c = Current(k)
    <3>1. DOMAIN c = {id} \intersect DOMAIN repo
      BY <1>3, <2>1, ShownFacts
    <3>. QED
      BY <3>1, ContentFacts
  <2>2. CASE c = [i \in {id} |-> Torn]
    BY <2>2, ContentFacts
  <2>. QED
    BY <1>5, <2>1, <2>2
<1>12. AbsentInv' /\ NegativeIsExplained'
  BY <1>2, <1>3, <1>6, <1>11, KeyFacts, AbsentStep
<1>13. StaleIsExplained'
  BY <1>2, <1>6, StaleStep DEF OwedBy
<1>. QED
  BY <1>8, <1>9, <1>10, <1>12, <1>13

\* A GET of a page learns the ids it shows.
LEMMA ReadIdsStep ==
    ASSUME IInv, NEW p \in Requests, ReadIds(p)
    PROVE  IInv'
<1>. USE DEF IInv
<1>1. PICK k : k = key[p]
  OBVIOUS
<1>2. PICK S : S = OnPage(k)
  OBVIOUS
<1>3. /\ pc[p] = "read" /\ k \in Lists
      /\ left' = [left EXCEPT ![p] = S] /\ data' = [data EXCEPT ![p] = Empty]
      /\ pc' = [pc EXCEPT ![p] = IF S = {} THEN "fill" ELSE "items"] /\ key' = key
      /\ UNCHANGED <<repo, client, cache, todo, writes, errors, restarts, late, excused,
                  contested>>
  BY <1>1, <1>2 DEF ReadIds, Goto, countVars, historyVars
<1>4. S \subseteq Ids /\ S = DOMAIN Current(k)
  <2>1. Shown(k) = S
    BY <1>2, <1>3, KeyFacts DEF Shown
  <2>. QED
    BY <2>1, ShownFacts
<1>5. /\ Alone(p) /\ pc'[p] \in {"items", "fill"} /\ data'[p] = Empty /\ key'[p] = k
      /\ left'[p] = S
  BY <1>1, <1>3 DEF Alone, TypeOK
<1>6. TypeOK'
  BY <1>3, <1>4, KeyFacts, ContentFacts DEF TypeOK, Places
<1>7. LocalInv'
  BY <1>5, LocalStep
<1>8. FillInv'
  BY <1>3, <1>4, <1>5, ContentFacts, FillStep
<1>9. AbsentInv' /\ NegativeIsExplained'
  BY <1>3, <1>5, KeyFacts, AbsentStep
<1>10. StaleIsExplained'
  BY <1>3, <1>5, StaleStep DEF OwedBy
<1>. QED
  BY <1>6, <1>7, <1>8, <1>9, <1>10

\* It reads one of them, which is as it was if nothing has overtaken it.
LEMMA ReadItemStep ==
    ASSUME IInv, NEW p \in Requests, NEW id \in Ids, ReadItem(p, id)
    PROVE  IInv'
<1>. USE DEF IInv
<1>1. PICK k : k = key[p]
  OBVIOUS
<1>2. PICK v, d :
         /\ v \in Task
         /\ d = [i \in DOMAIN data[p] \union {id} |-> IF i = id THEN v ELSE data[p][i]]
         /\ data' = [data EXCEPT ![p] = d]
         /\ \/ id \in DOMAIN repo /\ v = repo[id] /\ late' = late
            \/ late' = late \union {p}
  BY ShownFacts DEF ReadItem, Task
<1>3. /\ pc[p] = "items" /\ id \in left[p]
      /\ left' = [left EXCEPT ![p] = left[p] \ {id}]
      /\ pc' = [pc EXCEPT ![p] = IF left[p] = {id} THEN "fill" ELSE "items"] /\ key' = key
      /\ UNCHANGED <<repo, client, cache, todo, writes, errors, restarts, excused, contested>>
  BY DEF ReadItem, Goto, countVars
<1>4. /\ Alone(p) /\ pc'[p] \in {"items", "fill"} /\ data'[p] = d /\ key'[p] = k
      /\ left'[p] = left[p] \ {id}
  BY <1>1, <1>2, <1>3 DEF Alone, TypeOK
<1>5. d \in Contents /\ DOMAIN d = DOMAIN data[p] \union {id}
  <2>1. DOMAIN d \in SUBSET Ids /\ \A i \in DOMAIN d : d[i] \in Task
    BY <1>2, LocalType, ContentFacts
  <2>2. d \in [DOMAIN d -> Task]
    BY <1>2, <2>1
  <2>. QED
    BY <1>2, <2>1, <2>2, ContentFacts
<1>6. TypeOK'
  <2>1. /\ pc' \in [Requests -> Places] /\ data' \in [Requests -> Contents]
        /\ left' \in [Requests -> SUBSET Ids] /\ late' \subseteq Requests
    BY <1>2, <1>3, <1>5 DEF TypeOK, Places
  <2>2. ASSUME NEW q \in Requests
        PROVE  /\ pc'[q] = "idle" <=> key'[q] = None
               /\ todo'[q] # {} <=> pc'[q] = "lists"
               /\ left'[q] # {} <=> pc'[q] = "items"
    BY <1>3 DEF TypeOK
  <2>. QED
    BY <1>3, <2>1, <2>2 DEF TypeOK
<1>7. LocalInv'
  BY <1>4, LocalStep
<1>8. p \in late' \/ (/\ left'[p] \union DOMAIN d = DOMAIN Current(k)
                     /\ \A i \in DOMAIN d : d[i] = Current(k)[i])
  <2>. SUFFICES ASSUME p \notin late'
       PROVE  /\ left'[p] \union DOMAIN d = DOMAIN Current(k)
              /\ \A i \in DOMAIN d : d[i] = Current(k)[i]
    OBVIOUS
  <2>1. Fits(p, k) /\ id \in DOMAIN repo /\ v = repo[id]
    BY <1>1, <1>2, <1>3 DEF FillInv
  <2>2. id \in DOMAIN Current(k)
    BY <1>3, <2>1 DEF Fits
  <2>3. Current(k)[id] = v
    BY <2>1, <2>2 DEF Current
  <2>. QED
    BY <1>2, <1>3, <1>4, <1>5, <2>1, <2>2, <2>3 DEF Fits
<1>9. FillInv'
  BY <1>2, <1>3, <1>4, <1>8, FillStep
<1>10. AbsentInv' /\ NegativeIsExplained'
  BY <1>3, <1>4, <1>5, ContentFacts, AbsentStep
<1>11. StaleIsExplained'
  BY <1>3, <1>4, StaleStep DEF OwedBy
<1>. QED
  BY <1>6, <1>7, <1>9, <1>10, <1>11

\* A GET stores what it has read, perhaps too late.
LEMMA FillCacheStep ==
    ASSUME IInv, NEW p \in Requests, Fill(p)
    PROVE  IInv'
<1>. USE DEF IInv
<1>1. PICK k : k = key[p]
  OBVIOUS
<1>2. /\ pc[p] = "fill"
      /\ cache' \in {cache, [cache EXCEPT ![k] = data[p]]}
      /\ \/ errors' = errors
         \/ errors < MaxErrors /\ errors' = errors + 1
      /\ \/ cache' = cache /\ excused' = excused
         \/ p \in late /\ excused' = excused \union {k}
         \/ cache' # cache /\ p \notin late /\ excused' = excused \ {k}
      /\ late' = late \ {p} /\ data' = [data EXCEPT ![p] = Empty]
      /\ pc' = [pc EXCEPT ![p] = "idle"] /\ key' = [key EXCEPT ![p] = None]
      /\ UNCHANGED <<repo, client, todo, left, writes, restarts, contested>>
  BY <1>1 DEF Fill, Finish, Succeeds, Fails, Excuse, Clear
<1>3. Alone(p) /\ pc'[p] = "idle" /\ k \in Keys /\ data[p] \in Contents
  BY <1>1, <1>2, LocalType DEF Alone, TypeOK
<1>4. /\ cache'[k] \in {cache[k], data[p]}
      /\ \A l \in Keys \ {k} : cache'[l] = cache[l]
  BY <1>2, <1>3 DEF TypeOK, Places
<1>5. TypeOK'
  <2>1. errors' \in 0 .. MaxErrors
    BY <1>2, BoundsAssumption DEF TypeOK, Places
  <2>2. cache' \in [Keys -> Contents \union {None}]
    BY <1>2, <1>3 DEF TypeOK, Places
  <2>3. excused' \subseteq Keys /\ late' \subseteq Requests
    BY <1>2, <1>3 DEF TypeOK, Places
  <2>. QED
    BY <1>2, <2>1, <2>2, <2>3, KeyFacts, ContentFacts DEF TypeOK, Places
<1>6. LocalInv'
  BY <1>3, LocalStep
<1>7. FillInv'
  BY <1>2, <1>3, FillStep
<1>8. ASSUME restarts = 0, NEW id \in Ids, cache'[TaskKey(id)] = Empty
      PROVE  cache[TaskKey(id)] = Empty \/ id \notin DOMAIN repo \/ id \in contested
  BY <1>1, <1>2, <1>4, <1>8, KeyFacts DEF AbsentInv
<1>9. AbsentInv' /\ NegativeIsExplained'
  BY <1>2, <1>3, <1>8, AbsentStep
<1>10. ASSUME NEW l \in Keys
       PROVE  \/ cache'[l] \in {None, Current(l)}
              \/ l \in excused'
              \/ cache'[l] = cache[l] /\ (l \in excused => l \in excused') /\ ~OwedBy(p, l)
  <2>1. ~OwedBy(p, l)
    BY <1>2 DEF OwedBy
  <2>2. CASE l # k
    BY <1>2, <1>4, <2>1, <2>2
  <2>3. CASE l = k /\ cache' = cache /\ excused' = excused
    BY <2>1, <2>3
  <2>4. CASE l = k /\ p \in late /\ excused' = excused \union {k}
    BY <2>4
  <2>5. CASE l = k /\ p \notin late /\ cache' # cache
    <3>1. cache'[k] = data[p]
      BY <1>2, <1>3, <2>5 DEF TypeOK, Places
    <3>2. Fits(p, k) /\ left[p] = {}
      BY <1>1, <1>2, <2>5, LocalType DEF FillInv
    <3>3. data[p] = Current(k)
      BY <3>2, FitsAll
    <3>. QED
      BY <2>5, <3>1, <3>3
  <2>. QED
    BY <1>2, <2>2, <2>3, <2>4, <2>5
<1>11. StaleIsExplained'
  BY <1>2, <1>3, <1>10, StaleStep
<1>. QED
  BY <1>5, <1>6, <1>7, <1>9, <1>11

\* A PATCH or a DELETE begins.
LEMMA BeginWriteStep ==
    ASSUME IInv, NEW p \in Requests, NEW id \in Ids, NEW c \in Contents,
           DOMAIN c \subseteq {id}, BeginWrite(p, id, c)
    PROVE  IInv'
<1>. USE DEF IInv
<1>1. /\ pc[p] = "idle" /\ writes < MaxWrites /\ writes' = writes + 1
      /\ key' = [key EXCEPT ![p] = TaskKey(id)]
      /\ data' = [data EXCEPT ![p] = c]
      /\ pc' = [pc EXCEPT ![p] = "check"]
      /\ UNCHANGED <<repo, client, cache, todo, left, errors, restarts, late, excused, contested>>
  BY DEF BeginWrite, historyVars
<1>2. /\ Alone(p) /\ pc'[p] = "check" /\ key'[p] = TaskKey(id) /\ data'[p] = c
      /\ TaskKey(id) \in Keys /\ TaskKey(id) \in TaskKeys
  BY <1>1, KeyFacts DEF Alone, TypeOK, TaskKeys
<1>3. TypeOK'
  <2>1. writes' \in 0 .. MaxWrites
    BY <1>1, BoundsAssumption DEF TypeOK, Places
  <2>. QED
    BY <1>1, <1>2, <2>1, KeyFacts DEF TypeOK, Places
<1>4. LocalInv'
  BY <1>2, LocalStep
<1>5. FillInv'
  BY <1>1, <1>2, FillStep
<1>6. AbsentInv' /\ NegativeIsExplained'
  BY <1>1, <1>2, AbsentStep
<1>7. StaleIsExplained'
  BY <1>1, <1>2, StaleStep DEF OwedBy
<1>. QED
  BY <1>3, <1>4, <1>5, <1>6, <1>7

\* What a PATCH carries is for its task.
LEMMA BeginPatchStep ==
    ASSUME IInv, NEW p \in Requests, BeginPatch(p)
    PROVE  IInv'
<1>1. PICK id \in Ids, v \in Values : BeginWrite(p, id, [i \in {id} |-> v])
  BY DEF BeginPatch
<1>2. [i \in {id} |-> v] \in [{id} -> Task] /\ {id} \in SUBSET Ids
  BY DEF Task
<1>3. [i \in {id} |-> v] \in Contents
  BY <1>2, ContentFacts
<1>. QED
  BY <1>1, <1>3, BeginWriteStep

\* A DELETE carries nothing.
LEMMA BeginDeleteStep ==
    ASSUME IInv, NEW p \in Requests, BeginDelete(p)
    PROVE  IInv'
BY ContentFacts, BeginWriteStep DEF BeginDelete

\* The task is there.
LEMMA CheckStep ==
    ASSUME IInv, NEW p \in Requests, Check(p)
    PROVE  IInv'
<1>. USE DEF IInv
<1>1. /\ pc[p] = "check" /\ Target(p) \subseteq DOMAIN repo
      /\ pc' = [pc EXCEPT ![p] = "write"] /\ key' = key
      /\ UNCHANGED <<repo, client, cache, data, todo, left, writes, errors, restarts, late,
                  excused, contested>>
  BY DEF Check, Goto, countVars, historyVars
<1>2. /\ Alone(p) /\ pc'[p] = "write" /\ key'[p] = key[p] /\ data'[p] = data[p]
  BY <1>1 DEF Alone, TypeOK
<1>3. TypeOK'
  BY <1>1, <1>2 DEF TypeOK, Places
<1>4. LocalInv'
  BY <1>1, <1>2, LocalStep DEF LocalInv, Target
<1>5. FillInv'
  BY <1>1, <1>2, FillStep
<1>6. \A id \in Ids : key[p] = TaskKey(id) => id \in DOMAIN repo
  BY <1>1 DEF Target
<1>7. AbsentInv' /\ NegativeIsExplained'
  BY <1>1, <1>2, <1>6, AbsentStep
<1>8. StaleIsExplained'
  BY <1>1, <1>2, StaleStep DEF OwedBy
<1>. QED
  BY <1>3, <1>4, <1>5, <1>7, <1>8

\* The task is not there.
LEMMA WriteAbsentStep ==
    ASSUME IInv, NEW p \in Requests, WriteAbsent(p)
    PROVE  IInv'
<1>. USE DEF IInv
<1>1. /\ pc[p] = "check" /\ key' = [key EXCEPT ![p] = None]
      /\ pc' = [pc EXCEPT ![p] = "idle"]
      /\ data' = [data EXCEPT ![p] = Empty]
      /\ UNCHANGED <<repo, client, cache, todo, left, writes, errors, restarts, late,
                  excused, contested>>
  BY DEF WriteAbsent, Finish, countVars, historyVars
<1>2. Alone(p) /\ pc'[p] = "idle"
  BY <1>1 DEF Alone, TypeOK
<1>3. TypeOK'
  BY <1>1, KeyFacts, ContentFacts DEF TypeOK, Places
<1>4. LocalInv'
  BY <1>2, LocalStep
<1>5. FillInv'
  BY <1>1, <1>2, FillStep
<1>6. AbsentInv' /\ NegativeIsExplained'
  BY <1>1, <1>2, AbsentStep
<1>7. StaleIsExplained'
  BY <1>1, <1>2, StaleStep DEF OwedBy
<1>. QED
  BY <1>3, <1>4, <1>5, <1>6, <1>7

\* A task is changed or removed: the entries this makes stale are the task's
\* and pages, which are owed or excused; the GETs it overtakes are late.
LEMMA WriteStep ==
    ASSUME IInv, NEW p \in Requests, Write(p)
    PROVE  IInv'
<1>. USE DEF IInv
<1>1. PICK c \in [DOMAIN data[p] -> Task] :
         repo' = [i \in (DOMAIN repo \ Target(p)) \union DOMAIN c |->
                    IF i \in Target(p) THEN c[i] ELSE repo[i]]
  BY DEF Write, Task
<1>2. /\ pc[p] = "write"
      /\ IF client THEN pc' = [pc EXCEPT ![p] = "invalidate"] /\ key' = key
         ELSE pc' = [pc EXCEPT ![p] = "idle"] /\ key' = [key EXCEPT ![p] = None]
      /\ data' = [data EXCEPT ![p] = Empty]
      /\ \/ repo' = repo /\ UNCHANGED <<late, excused>>
         \/ /\ excused' = excused \union
                             (IF client THEN Lists \ Paged ELSE Lists \union {key[p]})
            /\ late' = late \union Overtaken(p)
      /\ contested' = contested \union
                         (IF Storing(p) # {} THEN DOMAIN repo \ DOMAIN repo' ELSE {})
      /\ UNCHANGED <<client, cache, todo, left, writes, errors, restarts>>
  BY DEF Write, Goto, Finish, Excuse, countVars
<1>3. PICK id \in Ids : key[p] = TaskKey(id)
  BY <1>2 DEF LocalInv, TaskKeys
<1>4. Target(p) = {id} /\ DOMAIN c \subseteq {id} /\ key[p] \in Keys
  BY <1>2, <1>3, KeyFacts DEF Target, LocalInv
<1>5. /\ Alone(p) /\ pc'[p] \in {"invalidate", "idle"}
      /\ IF client THEN pc'[p] = "invalidate" /\ key'[p] = key[p] ELSE pc'[p] = "idle"
  BY <1>2 DEF Alone, TypeOK
<1>6. /\ DOMAIN repo' \subseteq Ids
      /\ \A i \in Ids \ {id} : i \in DOMAIN repo' <=> i \in DOMAIN repo
      /\ \A i \in DOMAIN repo \ {id} : repo'[i] = repo[i]
  BY <1>1, <1>4, ShownFacts
<1>7. TypeOK'
  <2>1. \E S \in SUBSET Ids : repo' \in [S -> Values \union {Torn}]
    <3>1. DOMAIN repo' \in SUBSET Ids
      BY <1>6, ShownFacts
    <3>2. \A i \in DOMAIN repo' : repo'[i] \in Task
      BY <1>1, <1>4, ShownFacts
    <3>3. repo' \in [DOMAIN repo' -> Task]
      BY <1>1, <3>2
    <3>. QED
      BY <3>1, <3>3 DEF Task
  <2>2. excused' \subseteq Keys /\ late' \subseteq Requests /\ contested' \subseteq Ids
    BY <1>2, <1>4, KeyFacts, ShownFacts DEF TypeOK, Overtaken
  <2>. QED
    BY <1>2, <2>1, <2>2, KeyFacts, ContentFacts DEF TypeOK, Places
<1>8. LocalInv'
  BY <1>2, <1>3, <1>5, LocalStep DEF TaskKeys
\* The keys of other tasks show what they showed.
<1>9. ASSUME NEW k \in Keys, k \notin Lists, k # key[p]
      PROVE  Current(k)' = Current(k)
  <2>1. PICK j \in Ids : k = TaskKey(j)
    BY <1>9, KeyFacts DEF TaskKeys
  <2>2. id # j
    BY <1>3, <1>9, <2>1
  <2>3. Current(TaskKey(j))' = Current(TaskKey(j))
    BY <1>6, <2>2, CurrentElsewhere
  <2>. QED
    BY <2>1, <2>3 DEF Current, Shown, OnPage, Rank
<1>10. FillInv'
  <2>1. CASE repo' = repo
    BY <1>2, <1>5, <2>1, FillStep
  <2>2. CASE late' = late \union Overtaken(p)
    <3>. SUFFICES ASSUME NEW q \in Requests, pc'[q] \in {"items", "fill"}, q \notin late'
         PROVE  Fits(q, key[q])'
      BY DEF FillInv
    <3>1. PICK k : k = key[q]
      OBVIOUS
    <3>2. /\ q # p /\ pc[q] \in {"items", "fill"} /\ data'[q] = data[q] /\ left'[q] = left[q]
          /\ k = key'[q] /\ k \in Keys
      BY <1>5, <3>1, LocalType DEF Alone
    <3>3. k \notin Lists /\ k # key[p]
      BY <2>2, <3>1, <3>2 DEF Overtaken
    <3>4. Fits(q, k)
      BY <2>2, <3>1, <3>2 DEF FillInv
    <3>5. Current(k)' = Current(k)
      BY <1>9, <3>2, <3>3
    <3>. QED
      BY <3>2, <3>4, <3>5 DEF Fits, Current, Shown, OnPage, Rank
  <2>. QED
    BY <1>2, <2>1, <2>2
<1>11. AbsentInv' /\ NegativeIsExplained'
  <2>. SUFFICES ASSUME restarts = 0 PROVE AbsentInv' /\ NegativeIsExplained'
    BY <1>2 DEF AbsentInv, NegativeIsExplained
  <2>1. contested \subseteq contested'
    BY <1>2
\* A task comes back only if a DELETE had removed it after the PATCH's check,
  <2>2. ASSUME NEW i \in Ids, i \in DOMAIN repo', i \notin DOMAIN repo PROVE i \in contested
    <3>1. i = id /\ i \in DOMAIN data[p]
      BY <1>1, <1>4, <2>2
    <3>2. data[p] # Empty
      BY <3>1, ContentFacts
    <3>. QED
      BY <1>2, <1>3, <2>2, <3>1, <3>2 DEF AbsentInv
\* and a DELETE after the check of a PATCH is one that this is said of.
  <2>3. ASSUME NEW q \in Requests, NEW i \in Ids, pc'[q] = "write", key'[q] = TaskKey(i),
               data'[q] # Empty, i \in DOMAIN repo, i \notin DOMAIN repo'
        PROVE  i \in contested'
    <3>1. i = id
      BY <1>6, <2>3
    <3>2. q # p /\ pc[q] = "write" /\ key[q] = key[p] /\ data[q] # Empty
      BY <1>3, <1>5, <2>3, <3>1 DEF Alone
    <3>3. Storing(p) # {}
      BY <3>2 DEF Storing
    <3>. QED
      BY <1>2, <2>3, <3>3
  <2>4. ASSUME NEW q \in Requests, NEW i \in Ids, pc'[q] = "fill", key'[q] = TaskKey(i),
               data'[q] = Empty
        PROVE  i \notin DOMAIN repo' \/ i \in contested'
    <3>1. q # p /\ pc[q] = "fill" /\ key[q] = TaskKey(i) /\ data[q] = Empty
      BY <1>5, <2>4 DEF Alone
    <3>. QED
      BY <2>1, <2>2, <3>1 DEF AbsentInv
  <2>5. ASSUME NEW q \in Requests, NEW i \in Ids, pc'[q] = "write", key'[q] = TaskKey(i),
               data'[q] # Empty
        PROVE  i \in DOMAIN repo' \/ i \in contested'
    <3>1. q # p /\ pc[q] = "write" /\ key[q] = TaskKey(i) /\ data[q] # Empty
      BY <1>5, <2>5 DEF Alone
    <3>. QED
      BY <2>1, <2>3, <2>5, <3>1 DEF AbsentInv
  <2>6. AbsentInv'
    BY <2>4, <2>5 DEF AbsentInv
  <2>7. NegativeIsExplained'
    BY <1>2, <2>1, <2>2 DEF NegativeIsExplained
  <2>. QED
    BY <2>6, <2>7
<1>12. StaleIsExplained'
  <2>. SUFFICES ASSUME NEW k \in Keys PROVE Fresh(k)' \/ Owed(k)' \/ k \in excused'
    BY DEF StaleIsExplained
  <2>1. CASE repo' # repo /\ (k \in Lists \/ k = key[p])
    <3>1. CASE client /\ k \in Paged \union {key[p]}
      BY <1>5, <3>1 DEF Owed
    <3>2. CASE ~client \/ k \notin Paged \union {key[p]}
      BY <1>2, <2>1, <3>2
    <3>. QED
      BY <3>1, <3>2
  <2>2. CASE repo' = repo \/ (k \notin Lists /\ k # key[p])
    <3>1. Fresh(k) => Fresh(k)'
      BY <1>2, <1>9, <2>2, CurrentSame DEF Fresh
    <3>2. Owed(k) => Owed(k)'
      BY <1>2, <1>5 DEF Owed, Alone
    <3>. QED
      BY <1>2, <3>1, <3>2 DEF StaleIsExplained
  <2>. QED
    BY <2>1, <2>2
<1>. QED
  BY <1>7, <1>8, <1>10, <1>11, <1>12

\* The task key is deleted and the pages are next, or the DEL fails and they
\* all are excused.
LEMMA InvalidateStep ==
    ASSUME IInv, NEW p \in Requests, Invalidate(p)
    PROVE  IInv'
<1>. USE DEF IInv
<1>1. PICK k : k = key[p]
  OBVIOUS
<1>2. /\ pc[p] = "invalidate"
      /\ UNCHANGED <<repo, client, data, left, writes, restarts, late, contested>>
      /\ \/ /\ cache' = [cache EXCEPT ![k] = None] /\ errors' = errors
            /\ excused' = excused \ {k}
            /\ todo' = [todo EXCEPT ![p] = Paged]
            /\ IF Paged = {}
               THEN pc' = [pc EXCEPT ![p] = "idle"] /\ key' = [key EXCEPT ![p] = None]
               ELSE pc' = [pc EXCEPT ![p] = "lists"] /\ key' = key
         \/ /\ cache' \in {cache, [cache EXCEPT ![k] = None]}
            /\ errors < MaxErrors /\ errors' = errors + 1
            /\ excused' = excused \union (Paged \union {k})
            /\ todo' = todo
            /\ pc' = [pc EXCEPT ![p] = "idle"] /\ key' = [key EXCEPT ![p] = None]
  BY <1>1 DEF Invalidate, Succeeds, Fails, Clear, Excuse, Goto, Finish
<1>3. /\ k \in Keys /\ k \in TaskKeys /\ todo[p] = {} /\ \A l \in Keys \ {k} : cache'[l] = cache[l]
      /\ cache'[k] \in {cache[k], None}
      /\ cache' \in [Keys -> Contents \union {None}]
  BY <1>1, <1>2, LocalType DEF TypeOK, LocalInv
<1>4. /\ Alone(p)
      /\ pc'[p] = "lists" => key'[p] = k
      /\ \/ pc'[p] = "idle" /\ (Paged = {} \/ errors' # errors)
         \/ pc'[p] = "lists" /\ todo'[p] = Paged
  <2>1. errors \in Nat
    BY BoundsAssumption DEF TypeOK, Places
  <2>. QED
    BY <1>1, <1>2, <2>1 DEF Alone, TypeOK
<1>5. TypeOK'
  <2>1. errors' \in 0 .. MaxErrors
    BY <1>2, BoundsAssumption DEF TypeOK, Places
  <2>2. excused' \subseteq Keys
    BY <1>2, <1>3, KeyFacts DEF TypeOK, Places
  <2>3. /\ pc' \in [Requests -> Places]
        /\ key' \in [Requests -> Keys \union {None}]
        /\ todo' \in [Requests -> SUBSET Paged]
    BY <1>2 DEF TypeOK, Places
  <2>4. ASSUME NEW q \in Requests
        PROVE  /\ pc'[q] = "idle" <=> key'[q] = None
               /\ todo'[q] # {} <=> pc'[q] = "lists"
               /\ left'[q] # {} <=> pc'[q] = "items"
    <3>1. CASE q = p
      BY <1>1, <1>2, <1>3, <3>1, KeyFacts DEF TypeOK, Places
    <3>2. CASE q # p
      BY <1>4, <3>2 DEF Alone, TypeOK
    <3>. QED
      BY <3>1, <3>2
  <2>. QED
    BY <1>2, <1>3, <2>1, <2>2, <2>3, <2>4 DEF TypeOK, Places
<1>6. LocalInv'
  BY <1>3, <1>4, LocalStep
<1>7. FillInv'
  BY <1>2, <1>4, FillStep
<1>8. \A id \in Ids : cache'[TaskKey(id)] = Empty => cache[TaskKey(id)] = Empty
  BY <1>3, KeyFacts, ContentFacts
<1>9. AbsentInv' /\ NegativeIsExplained'
  BY <1>2, <1>4, <1>8, AbsentStep
<1>10. ASSUME NEW l \in Keys
       PROVE  \/ cache'[l] \in {None, Current(l)}
              \/ OwedBy(p, l)'
              \/ l \in excused'
              \/ cache'[l] = cache[l] /\ (l \in excused => l \in excused') /\ ~OwedBy(p, l)
  <2>1. CASE l \in Paged \union {k} /\ excused' = excused \union (Paged \union {k})
    BY <2>1
  <2>2. CASE l = k /\ cache' = [cache EXCEPT ![k] = None]
    BY <1>3, <2>2 DEF TypeOK, Places
  <2>3. CASE l \in Paged /\ todo' = [todo EXCEPT ![p] = Paged]
    <3>1. pc'[p] = "lists" /\ todo'[p] = Paged
      BY <1>2, <2>3 DEF TypeOK, Places
    <3>. QED
      BY <2>3, <3>1 DEF OwedBy
  <2>4. CASE l \notin Paged \union {k}
    BY <1>1, <1>2, <1>3, <2>4 DEF OwedBy
  <2>. QED
    BY <1>2, <2>1, <2>2, <2>3, <2>4
<1>11. StaleIsExplained'
  BY <1>2, <1>4, <1>10, StaleStep
<1>. QED
  BY <1>5, <1>6, <1>7, <1>9, <1>11

\* One page is deleted, or its DEL fails and it is excused.
LEMMA InvalidateListStep ==
    ASSUME IInv, NEW p \in Requests, NEW k \in Lists, InvalidateList(p, k)
    PROVE  IInv'
<1>. USE DEF IInv
<1>1. /\ pc[p] = "lists" /\ k \in todo[p] /\ todo' = [todo EXCEPT ![p] = todo[p] \ {k}]
      /\ UNCHANGED <<repo, client, data, left, writes, restarts, late, contested>>
      /\ \/ /\ cache' = [cache EXCEPT ![k] = None] /\ errors' = errors
            /\ excused' = excused \ {k}
         \/ /\ cache' \in {cache, [cache EXCEPT ![k] = None]}
            /\ errors < MaxErrors /\ errors' = errors + 1
            /\ excused' = excused \union {k}
      /\ IF todo[p] = {k}
         THEN pc' = [pc EXCEPT ![p] = "idle"] /\ key' = [key EXCEPT ![p] = None]
         ELSE pc' = [pc EXCEPT ![p] = "lists"] /\ key' = key
  BY DEF InvalidateList, Succeeds, Fails, Clear, Excuse, Goto, Finish
<1>2. /\ k \in Keys /\ key[p] \in TaskKeys /\ \A l \in Keys \ {k} : cache'[l] = cache[l]
      /\ cache'[k] \in {cache[k], None}
      /\ cache' \in [Keys -> Contents \union {None}]
  BY <1>1, KeyFacts DEF TypeOK, LocalInv
<1>3. /\ Alone(p) /\ todo'[p] = todo[p] \ {k}
      /\ \/ pc'[p] = "idle" /\ todo'[p] = {}
         \/ pc'[p] = "lists" /\ key'[p] = key[p]
  BY <1>1 DEF Alone, TypeOK
<1>4. TypeOK'
  <2>1. errors' \in 0 .. MaxErrors
    BY <1>1, BoundsAssumption DEF TypeOK, Places
  <2>2. excused' \subseteq Keys
    BY <1>1, <1>2 DEF TypeOK, Places
  <2>3. /\ pc' \in [Requests -> Places]
        /\ key' \in [Requests -> Keys \union {None}]
        /\ todo' \in [Requests -> SUBSET Paged]
    BY <1>1 DEF TypeOK, Places
  <2>4. ASSUME NEW q \in Requests
        PROVE  /\ pc'[q] = "idle" <=> key'[q] = None
               /\ todo'[q] # {} <=> pc'[q] = "lists"
               /\ left'[q] # {} <=> pc'[q] = "items"
    <3>1. CASE q = p /\ todo[p] = {k}
      BY <1>1, <3>1 DEF TypeOK, Places
    <3>2. CASE q = p /\ todo[p] # {k}
      <4>1. todo'[p] # {}
        BY <1>1, <1>3, <3>2
      <4>2. pc'[p] = "lists" /\ key'[p] = key[p] /\ key[p] # None
        BY <1>1, <1>3, <4>1 DEF TypeOK, Places
      <4>3. left'[p] = {}
        BY <1>1, LocalType
      <4>. QED
        BY <3>2, <4>1, <4>2, <4>3
    <3>3. CASE q # p
      BY <1>3, <3>3 DEF Alone, TypeOK
    <3>. QED
      BY <3>1, <3>2, <3>3
  <2>. QED
    BY <1>1, <1>2, <2>1, <2>2, <2>3, <2>4 DEF TypeOK, Places
<1>5. LocalInv'
  BY <1>2, <1>3, LocalStep
<1>6. FillInv'
  BY <1>1, <1>3, FillStep
<1>7. \A id \in Ids : cache'[TaskKey(id)] = Empty => cache[TaskKey(id)] = Empty
  BY <1>2, KeyFacts, ContentFacts
<1>8. AbsentInv' /\ NegativeIsExplained'
  BY <1>1, <1>3, <1>7, AbsentStep
<1>9. ASSUME NEW l \in Keys
      PROVE  \/ cache'[l] \in {None, Current(l)}
             \/ OwedBy(p, l)'
             \/ l \in excused'
             \/ cache'[l] = cache[l] /\ (l \in excused => l \in excused') /\ ~OwedBy(p, l)
  <2>1. CASE l = k
    BY <1>1, <1>2, <2>1 DEF TypeOK, Places
  <2>2. CASE l # k /\ l \in todo[p]
    <3>1. l \in todo'[p] /\ pc'[p] = "lists"
      BY <1>3, <2>2
    <3>. QED
      BY <3>1 DEF OwedBy
  <2>3. CASE l # k /\ l \notin todo[p]
    BY <1>1, <1>2, <2>3 DEF OwedBy
  <2>. QED
    BY <2>1, <2>2, <2>3
<1>10. StaleIsExplained'
  BY <1>1, <1>3, <1>9, StaleStep
<1>. QED
  BY <1>4, <1>5, <1>6, <1>8, <1>10

\* An entry runs out.
LEMMA ExpireStep ==
    ASSUME IInv, NEW k \in Keys, Expire(k)
    PROVE  IInv'
<1>. USE DEF IInv
<1>1. /\ cache' = [cache EXCEPT ![k] = None] /\ excused' = excused \ {k}
      /\ UNCHANGED <<repo, client, pc, key, data, todo, left, writes, errors, restarts, late,
                  contested>>
  BY DEF Expire, Clear, localVars, countVars
<1>2. cache'[k] = None /\ \A l \in Keys \ {k} : cache'[l] = cache[l]
  BY <1>1 DEF TypeOK, Places
<1>3. TypeOK'
  BY <1>1 DEF TypeOK, Places
<1>4. LocalInv'
  BY <1>1 DEF LocalInv, Target
<1>5. FillInv'
  BY <1>1, FillKept
<1>6. AbsentInv' /\ NegativeIsExplained'
  BY <1>1, <1>2, KeyFacts, ContentFacts DEF AbsentInv, NegativeIsExplained
<1>7. StaleIsExplained'
  <2>. SUFFICES ASSUME NEW l \in Keys PROVE Fresh(l)' \/ Owed(l)' \/ l \in excused'
    BY DEF StaleIsExplained
  <2>1. CASE l = k
    BY <1>2, <2>1 DEF Fresh
  <2>2. CASE l # k
    <3>1. Fresh(l) => Fresh(l)'
      BY <1>1, <1>2, <2>2, CurrentSame DEF Fresh
    <3>2. Owed(l) => Owed(l)'
      BY <1>1 DEF Owed
    <3>. QED
      BY <1>1, <2>2, <3>1, <3>2 DEF StaleIsExplained
  <2>. QED
    BY <2>1, <2>2
<1>. QED
  BY <1>3, <1>4, <1>5, <1>6, <1>7

\* The process starts anew; every entry is excused.
LEMMA RestartStep ==
    ASSUME IInv, Restart
    PROVE  IInv'
<1>. USE DEF IInv
<1>1. /\ restarts' \in 1 .. MaxRestarts
      /\ repo' = NewRepo /\ client' \in BOOLEAN
      /\ pc' = [p \in Requests |-> "idle"] /\ key' = [p \in Requests |-> None]
      /\ data' = [p \in Requests |-> Empty] /\ todo' = [p \in Requests |-> {}]
      /\ left' = [p \in Requests |-> {}] /\ contested' = {}
      /\ late' = {} /\ excused' = excused \union Keys
      /\ UNCHANGED <<cache, writes, errors>>
  BY BoundsAssumption DEF Restart, Excuse, TypeOK
<1>2. TypeOK'
  <2>1. NewRepo \in [Ids -> Values \union {Torn}]
    BY DataAssumption DEF NewRepo
  <2>. QED
    BY <1>1, <2>1, ContentFacts, KeyFacts DEF TypeOK, Places
<1>3. LocalInv' /\ FillInv'
  BY <1>1 DEF LocalInv, FillInv
<1>4. AbsentInv' /\ NegativeIsExplained'
  BY <1>1 DEF AbsentInv, NegativeIsExplained
<1>5. StaleIsExplained'
  BY <1>1 DEF StaleIsExplained
<1>. QED
  BY <1>2, <1>3, <1>4, <1>5

\* A step in which nothing changes.
LEMMA StutterStep ==
    ASSUME IInv, UNCHANGED vars
    PROVE  IInv'
<1>. USE DEF IInv
<1>1. UNCHANGED <<repo, client, cache, pc, key, data, todo, left, writes, errors,
                  restarts, late, excused, contested>>
  BY DEF vars, localVars, countVars, historyVars
<1>2. TypeOK'
  BY <1>1 DEF TypeOK, Places
<1>3. LocalInv' /\ AbsentInv' /\ NegativeIsExplained'
  BY <1>1 DEF LocalInv, Target, AbsentInv, NegativeIsExplained
<1>4. FillInv'
  BY <1>1, FillKept
<1>5. StaleIsExplained'
  <2>. SUFFICES ASSUME NEW k \in Keys PROVE Fresh(k)' \/ Owed(k)' \/ k \in excused'
    BY DEF StaleIsExplained
  <2>1. Fresh(k) => Fresh(k)'
    BY <1>1, CurrentSame DEF Fresh
  <2>2. Owed(k) => Owed(k)'
    BY <1>1 DEF Owed
  <2>. QED
    BY <1>1, <2>1, <2>2 DEF StaleIsExplained
<1>. QED
  BY <1>2, <1>3, <1>4, <1>5

\* Every step keeps the invariant.
LEMMA NextIInv == IInv /\ [Next]_vars => IInv'
<1>. SUFFICES ASSUME IInv, [Next]_vars PROVE IInv'
  OBVIOUS
<1>1. ASSUME NEW p \in Requests, NEW k \in Keys, BeginGet(p, k) PROVE IInv'
  BY <1>1, BeginGetStep
<1>2. ASSUME NEW p \in Requests, BeginPatch(p) \/ BeginDelete(p) PROVE IInv'
  BY <1>2, BeginPatchStep, BeginDeleteStep
<1>3. ASSUME NEW p \in Requests, Get(p) PROVE IInv'
  BY <1>3, HitStep, MissStep, ReadUncachedStep, ReadStep, ReadIdsStep, ReadItemStep,
     FillCacheStep DEF Get
<1>4. ASSUME NEW p \in Requests, Change(p) PROVE IInv'
  BY <1>4, CheckStep, WriteAbsentStep, WriteStep, InvalidateStep, InvalidateListStep DEF Change
<1>5. ASSUME NEW k \in Keys, Expire(k) PROVE IInv'
  BY <1>5, ExpireStep
<1>. QED
  BY <1>1, <1>2, <1>3, <1>4, <1>5, RestartStep, StutterStep DEF Next

\* So it always holds.
LEMMA SpecIInv == Spec => []IInv
BY InitIInv, NextIInv, PTL DEF Spec
-----------------------------------------------------------------------------
(* What the safety run checks.                                             *)

\* The variables have their types, and a request has list keys to delete only
\* in the loop of invalidateTask.
THEOREM TypeCorrect == Spec => []TypeOK
<1>1. IInv => TypeOK
  BY DEF IInv
<1>. QED
  BY <1>1, SpecIInv, PTL

\* An entry is stale only for one of the reasons the model names: cacheTask and
\* cacheTaskList after a change, a DEL that failed, a page out of the reach of
\* invalidateTask, no client, or a restart.
THEOREM NothingElseIsStale == Spec => []StaleIsExplained
<1>1. IInv => StaleIsExplained
  BY DEF IInv
<1>. QED
  BY <1>1, SpecIInv, PTL

\* Until the process restarts, the marker of cacheNotFound is wrong only for a
\* task that Repo.Update has brought back, its check having been made before a
\* DELETE and its store after it.
THEOREM AbsentUnlessBroughtBack == Spec => []NegativeIsExplained
<1>1. IInv => NegativeIsExplained
  BY DEF IInv
<1>. QED
  BY <1>1, SpecIInv, PTL
=============================================================================
