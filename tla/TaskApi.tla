------------------------------ MODULE TaskApi ------------------------------
(***************************************************************************)
(* pz11-graphql and pz12-rest-graphql: one in-memory task store behind a   *)
(* GraphQL API, and in pz12 behind a REST API too.  A request has several  *)
(* root fields: those of a query run at the same time, those of a mutation *)
(* one after the other, and each field locks the store on its own.         *)
(*                                                                         *)
(* The two projects differ in the store's List: pz12 copies the tasks      *)
(* while it holds the lock, pz11 only the pointers, so that the resolver   *)
(* reads the fields of each task later, without the lock, while Update     *)
(* may be writing them.  pz11 asks for a token before a mutation.          *)
(*                                                                         *)
(* A description is treated by the store like done and is left out.        *)
(***************************************************************************)
EXTENDS Naturals, Sequences, FiniteSets

CONSTANTS
    Clients,        \* requests, each made once
    Asks,           \* what a request may be (see Ask)
    Titles,         \* the titles tasks are given
    Given,          \* the title of the tasks the store begins with
    Blank,          \* the empty title
    Nil,            \* an argument that is absent or null
    Torn            \* a title whose pointer and length are of two strings

Task == [title : Titles \union {Torn}, done : BOOLEAN]
Field == [op : {"tasks", "task", "create", "update", "delete"}, id : Nat,
          title : Titles \union {Nil}, done : BOOLEAN \union {Nil}]
Ask == [via : {"query", "mutation", "rest"}, token : BOOLEAN, json : BOOLEAN,
        fields : Seq(Field)]

\* A REST request is for one thing, and its body may be no JSON.  The schema knows
\* which fields a query and a mutation have, and that createTask has a title.
Possible(a) ==
    /\ a.via = "rest" => Len(a.fields) = 1
    /\ ~a.json => a.via = "rest"
    /\ \A i \in DOMAIN a.fields :
          LET f == a.fields[i]
          IN  /\ a.via = "query" => f.op \in {"tasks", "task"}
              /\ a.via = "mutation" => f.op \in {"create", "update", "delete"}
              /\ a.via = "mutation" /\ f.op = "create" => f.title # Nil

ASSUME AsksAssumption == \A a \in Asks : a \in Ask /\ Possible(a)
ASSUME TitlesAssumption ==
    /\ {Given, Blank} \subseteq Titles
    /\ Nil \notin Titles \union BOOLEAN
    /\ Torn \notin Titles

VARIABLES
    project,        \* "pz11" or "pz12"
    \* store.Store
    object,         \* every Task made, by id; a deleted one lives on for holders
    live,           \* the ids in the list
    next,
    lock,           \* the Update that is between its writes (see Free)
    \* the requests
    pc,             \* "new", "run", "done"
    ask,            \* what the request asks
    result,         \* what each of its fields gave so far
    held,           \* for each field, a list of pz11 being read (see NotHeld)
    reply,
    \* history
    window,         \* the stores there were since the request began
    wrote           \* the fields of the request that changed the store

storeVars == <<object, live, next, lock>>
vars == <<project, storeVars, pc, ask, result, held, reply, window, wrote>>

Ids == 1 .. next - 1
\* Nobody is between two writes; else: which field of whom, of which task, and
\* the done it is going to write.
Free == [by |-> << >>, id |-> 0, done |-> Nil]
\* No list is being read: no task at hand, no title of it read, none left.
NotHeld == [at |-> 0, title |-> Nil, left |-> {}]
Shown(id, t) == [id |-> id, title |-> t.title, done |-> t.done]
Give(kind, shown) == [kind |-> kind, shown |-> shown]
Waiting == Give("waiting", {})
Failed == Give("error", {})

\* store.New: two tasks, one of them done.
New ==
    /\ object = <<[title |-> Given, done |-> FALSE], [title |-> Given, done |-> TRUE]>>
    /\ live = {1, 2}
    /\ next = 3
    /\ lock = Free

Init ==
    /\ project \in {"pz11", "pz12"}
    /\ New
    /\ pc = [c \in Clients |-> "new"]
    /\ ask = [c \in Clients |->
                [via |-> "query", token |-> FALSE, json |-> TRUE, fields |-> << >>]]
    /\ result = [c \in Clients |-> << >>]
    /\ held = [c \in Clients |-> << >>]
    /\ reply = [c \in Clients |-> "none"]
    /\ window = [c \in Clients |-> {}]
    /\ wrote = [c \in Clients |-> {}]

\* A mutated Changed: the test for a title that is nil is missing.
ChangedUnchecked(t, title, done) ==
    [title |-> title, done |-> IF done = Nil THEN t.done ELSE done]

\* An argument that is nil leaves the field alone, so nothing clears a title.
Changed(t, title, done) ==
    [title |-> IF title = Nil THEN t.title ELSE title,
     done |-> IF done = Nil THEN t.done ELSE done]

\* The store, an Update that is between its writes counted as done.
Contents ==
    [id \in live |-> IF id = lock.id THEN Changed(object[id], Nil, lock.done) ELSE object[id]]

Running == {c \in Clients : pc[c] = "run"}

\* Every request in progress sees the store change.
Observe ==
    window' = [c \in Clients |->
                 IF c \in Running THEN window[c] \union {Contents'} ELSE window[c]]

-----------------------------------------------------------------------------
(* The store.  Each operation takes its lock; only readers of a list of    *)
(* pz11 do not, so an Update is two steps to them.                         *)

\* A mutated Create: the id comes from the length of the list.
CreateByLength(title) ==
    LET id == Cardinality(live) + 1
    IN  /\ object' = [i \in 1 .. next |->
                        IF i = id THEN [title |-> title, done |-> FALSE]
                        ELSE IF i < next THEN object[i] ELSE object[1]]
        /\ live' = live \union {id}
        /\ next' = next + 1
        /\ UNCHANGED lock

Create(title) ==
    /\ object' = Append(object, [title |-> title, done |-> FALSE])
    /\ live' = live \union {next}
    /\ next' = next + 1
    /\ UNCHANGED lock

\* Update, under the lock: the title is written first,
WriteTitle(by, f) ==
    /\ f.id \in live
    /\ object' = [object EXCEPT ![f.id] = Changed(@, f.title, Nil)]
    /\ lock' = [by |-> by, id |-> f.id, done |-> f.done]
    /\ UNCHANGED <<live, next>>

\* then done.
WriteDone ==
    /\ object' = [object EXCEPT ![lock.id] = Changed(@, Nil, lock.done)]
    /\ lock' = Free
    /\ UNCHANGED <<live, next>>

Delete(id) ==
    /\ id \in live
    /\ live' = live \ {id}
    /\ UNCHANGED <<object, next, lock>>

\* The clone of one task, made under the lock.
Get(id) == {Shown(id, object[id])}

\* The clones of all the tasks, made under the lock.
List == {Shown(id, object[id]) : id \in live}

-----------------------------------------------------------------------------
(* Fields.                                                                 *)

Do(c, i) == ask[c].fields[i]

Finish(c, i, r) == result' = [result EXCEPT ![c][i] = r]

\* A mutated MayRun: mutation fields start together, like those of a query.
MayRunAtOnce(c, i) == pc[c] = "run" /\ result[c][i] = Waiting

\* Fields of a mutation wait for the ones before them.
MayRun(c, i) ==
    /\ pc[c] = "run" /\ result[c][i] = Waiting
    /\ ask[c].via = "mutation" =>
          \A j \in 1 .. i - 1 : result[c][j].kind # "waiting"

\* RequireMutationToken; pz12 has no tokens.
Authorized(c) == project = "pz11" /\ ask[c].via = "mutation" => ask[c].token

\* The field changed the store.
Wrote(c, i) ==
    /\ wrote' = [wrote EXCEPT ![c] = @ \union {i}]
    /\ Observe

ReadOnly == UNCHANGED <<storeVars, window, wrote>>

Fail(c, i) == Finish(c, i, Failed) /\ ReadOnly

CreateTask(c, i) ==
    /\ Do(c, i).op = "create" /\ MayRun(c, i)
    /\ \/ /\ Authorized(c) /\ lock = Free
          /\ Create(Do(c, i).title)
          /\ Finish(c, i, Give("task", {Shown(next, object'[next])}))
          /\ Wrote(c, i)
       \/ /\ ~Authorized(c)
          /\ Fail(c, i)
    /\ UNCHANGED <<project, pc, ask, held, reply>>

UpdateTask(c, i) ==
    LET f == Do(c, i)
    IN  /\ f.op = "update" /\ MayRun(c, i)
        /\ \/ /\ Authorized(c) /\ lock = Free
              /\ WriteTitle(<<c, i>>, f) /\ Observe
              /\ UNCHANGED <<result, wrote>>
           \/ /\ ~Authorized(c) \/ (lock = Free /\ f.id \notin live)
              /\ Fail(c, i)
        /\ UNCHANGED <<project, pc, ask, held, reply>>

\* The clone of the task is made under the same lock.
UpdateRest(c, i) ==
    /\ lock.by = <<c, i>>
    /\ WriteDone
    /\ Finish(c, i, Give("task", {Shown(lock.id, object'[lock.id])}))
    /\ Wrote(c, i)
    /\ UNCHANGED <<project, pc, ask, held, reply>>

DeleteTask(c, i) ==
    LET f == Do(c, i)
    IN  /\ f.op = "delete" /\ MayRun(c, i)
        /\ \/ /\ Authorized(c) /\ lock = Free
              /\ Delete(f.id)
              /\ Finish(c, i, Give("true", {}))
              /\ Wrote(c, i)
           \/ /\ ~Authorized(c) \/ (lock = Free /\ f.id \notin live)
              /\ Fail(c, i)
        /\ UNCHANGED <<project, pc, ask, held, reply>>

\* A task that is not there is null, which is no error.
TaskById(c, i) ==
    /\ Do(c, i).op = "task" /\ MayRun(c, i) /\ lock = Free
    /\ Finish(c, i, IF Do(c, i).id \in live THEN Give("task", Get(Do(c, i).id))
                                            ELSE Give("null", {}))
    /\ ReadOnly
    /\ UNCHANGED <<project, pc, ask, held, reply>>

\* A mutated Tasks: pz12 shares the pointers as well.
TasksUncloned(c, i) ==
    /\ Do(c, i).op = "tasks" /\ MayRun(c, i) /\ lock = Free
    /\ Finish(c, i, Give("reading", {}))
    /\ held' = [held EXCEPT ![c][i].left = live]
    /\ ReadOnly
    /\ UNCHANGED <<project, pc, ask, reply>>

\* The list of pz12 is read in one critical section; that of pz11 is only begun.
Tasks(c, i) ==
    /\ Do(c, i).op = "tasks" /\ MayRun(c, i) /\ lock = Free
    /\ IF project = "pz12"
       THEN Finish(c, i, Give("list", List)) /\ UNCHANGED held
       ELSE /\ Finish(c, i, Give("reading", {}))
            /\ held' = [held EXCEPT ![c][i].left = live]
    /\ ReadOnly
    /\ UNCHANGED <<project, pc, ask, reply>>

\* toModelTask reads the title of a shared task: the pointer of the string,
\* then its length, which belongs to another string if Update has given the task
\* another title in between, and done.  The list is in the order of creation.
ReadTitle(c, i) ==
    /\ held[c][i].at = 0
    /\ \E id \in held[c][i].left :
          /\ \A other \in held[c][i].left : id <= other
          /\ held' = [held EXCEPT ![c][i] =
                        [at |-> id, title |-> object[id].title, left |-> @.left \ {id}]]
    /\ ReadOnly
    /\ UNCHANGED <<project, pc, ask, result, reply>>

ReadDone(c, i) ==
    LET id == held[c][i].at
        read == held[c][i].title
    IN  /\ id # 0
        /\ \E title \in {read} \union (IF object[id].title # read THEN {Torn} ELSE {}) :
              LET t == Shown(id, [title |-> title, done |-> object[id].done])
              IN  Finish(c, i, Give("reading", result[c][i].shown \union {t}))
        /\ held' = [held EXCEPT ![c][i] = [@ EXCEPT !.at = 0, !.title = Nil]]
        /\ ReadOnly
        /\ UNCHANGED <<project, pc, ask, reply>>

EndList(c, i) ==
    /\ result[c][i].kind = "reading" /\ held[c][i] = NotHeld
    /\ Finish(c, i, Give("list", result[c][i].shown))
    /\ ReadOnly
    /\ UNCHANGED <<project, pc, ask, held, reply>>

-----------------------------------------------------------------------------
(* Requests.                                                               *)

\* The REST handlers refuse a body that is not JSON, and a task without a title,
\* which GraphQL takes.
Bad(a) ==
    LET f == a.fields[1]
    IN  \/ f.op \in {"create", "update"} /\ ~a.json
        \/ f.op = "create" /\ f.title \in {Blank, Nil}

Begin(c) ==
    /\ pc[c] = "new"
    /\ \E a \in Asks :
          /\ a.via = "rest" => project = "pz12"
          /\ ask' = [ask EXCEPT ![c] = a]
          /\ result' = [result EXCEPT ![c] = [i \in DOMAIN a.fields |-> Waiting]]
          /\ held' = [held EXCEPT ![c] = [i \in DOMAIN a.fields |-> NotHeld]]
          /\ window' = [window EXCEPT ![c] = {Contents}]
          /\ IF a.via = "rest" /\ Bad(a)
             THEN /\ pc' = [pc EXCEPT ![c] = "done"]
                  /\ reply' = [reply EXCEPT ![c] = "400"]
             ELSE /\ pc' = [pc EXCEPT ![c] = "run"]
                  /\ UNCHANGED reply
    /\ UNCHANGED <<project, storeVars, wrote>>

Errors(c) == {i \in DOMAIN result[c] : result[c][i] = Failed}

\* A mutated DataOf: the error of a field leaves the data of the others.
DataOfOthers(c) == "data"

\* Every field of Mutation is non-null: one error takes all the data away.
DataOf(c) == IF Errors(c) # {} THEN "null" ELSE "data"

\* The status of a REST handler.
StatusOf(c) ==
    IF Do(c, 1).op = "create" THEN "201"
    ELSE IF result[c][1].kind \in {"error", "null"} THEN "404" ELSE "200"

Answer(c) ==
    /\ pc[c] = "run"
    /\ \A i \in DOMAIN result[c] : result[c][i].kind \notin {"waiting", "reading"}
    /\ pc' = [pc EXCEPT ![c] = "done"]
    /\ reply' = [reply EXCEPT ![c] =
                   IF ask[c].via = "rest" THEN StatusOf(c) ELSE DataOf(c)]
    /\ UNCHANGED <<project, storeVars, ask, result, held, window, wrote>>

-----------------------------------------------------------------------------

FieldStep(c, i) ==
    \/ CreateTask(c, i) \/ UpdateTask(c, i) \/ UpdateRest(c, i) \/ DeleteTask(c, i)
    \/ TaskById(c, i) \/ Tasks(c, i)
    \/ ReadTitle(c, i) \/ ReadDone(c, i) \/ EndList(c, i)

Next ==
    \E c \in Clients :
        \/ Begin(c)
        \/ \E i \in DOMAIN result[c] : FieldStep(c, i)
        \/ Answer(c)

Spec == Init /\ [][Next]_vars

-----------------------------------------------------------------------------
(* Properties.                                                             *)

TypeOK ==
    /\ project \in {"pz11", "pz12"}
    /\ next \in Nat /\ object \in [Ids -> [title : Titles, done : BOOLEAN]]
    /\ live \subseteq Ids
    /\ lock = Free \/ (lock.id \in live /\ lock.done \in BOOLEAN \union {Nil})
    /\ pc \in [Clients -> {"new", "run", "done"}]
    /\ \A c \in Clients :
          /\ DOMAIN result[c] = DOMAIN ask[c].fields
          /\ DOMAIN held[c] = DOMAIN result[c]
          /\ \A i \in DOMAIN held[c] : held[c][i].left \subseteq Ids /\ held[c][i].at \in Ids \union {0}
          /\ wrote[c] \subseteq DOMAIN result[c]
    /\ reply \in [Clients -> {"none", "data", "null", "200", "201", "400", "404"}]

\* Titles the task has had since the request began.
TitlesSince(c, id) ==
    {w[id].title : w \in {v \in window[c] : id \in DOMAIN v}}

\* What a field showed was in the store at some moment during the request: the
\* list of pz12 and a single task at one moment, the list of pz11 only title by
\* title and done by done, where a title may even be torn by an Update that
\* gives the task another one.
ReadsAreExplained ==
    \A c \in Clients : \A i \in DOMAIN result[c] :
        LET r == result[c][i]
            ids == {t.id : t \in r.shown}
        IN  /\ r.kind = "task" =>
                  \E w \in window[c] : \A t \in r.shown :
                      t.id \in DOMAIN w /\ t = Shown(t.id, w[t.id])
            /\ r.kind = "null" => \E w \in window[c] : Do(c, i).id \notin DOMAIN w
            /\ r.kind = "list" /\ project = "pz12" =>
                  \E w \in window[c] : r.shown = {Shown(id, w[id]) : id \in DOMAIN w}
            /\ r.kind = "list" =>
                  /\ \E w \in window[c] : ids = DOMAIN w
                  /\ \A t \in r.shown :
                        /\ \/ t.title \in TitlesSince(c, t.id)
                           \/ t.title = Torn /\ Cardinality(TitlesSince(c, t.id)) > 1
                        /\ \E w \in window[c] :
                              t.id \in DOMAIN w /\ w[t.id].done = t.done

\* A field has changed the store exactly when it gave no error, whatever became
\* of the request: data that is null does not say that nothing was done, and
\* data that is there says that everything was.  In pz11 only holders of the token
\* change it.
EffectsAreExplained ==
    \A c \in Clients :
        /\ \A i \in DOMAIN result[c] :
              Do(c, i).op \in {"create", "update", "delete"} =>
                  (i \in wrote[c] <=> result[c][i].kind \in {"task", "true"})
        /\ reply[c] = "null" => Errors(c) # {}
        /\ reply[c] = "data" => Errors(c) = {}
        /\ reply[c] \in {"400", "404"} => wrote[c] = {}
        /\ project = "pz11" /\ wrote[c] # {} => ask[c].token

\* In one mutation a later field sees what an earlier one did: a task deleted by
\* the first is not found by the second.
FieldsRunInOrder ==
    \A c \in Clients : \A i, j \in DOMAIN result[c] :
        /\ i < j
        /\ Do(c, i).op = "delete" /\ i \in wrote[c]
        /\ Do(c, j).op \in {"update", "delete"} /\ Do(c, j).id = Do(c, i).id
        => result[c][j] \in {Waiting, Failed}

\* A step changes at most one task; an id is never used again, and a task that
\* was deleted neither comes back nor changes.  Only the Update that has the lock
\* gives a task another title, the one it was asked for, and until it has written
\* done as well nothing else in the store moves.
StoreStep ==
    /\ \A id \in Ids \ live : id \notin live' /\ object'[id] = object[id]
    /\ Cardinality({id \in live : id \notin live' \/ object'[id] # object[id]}) <= 1
    /\ \A id \in Ids :
          object'[id].title # object[id].title =>
              \E c \in Running : \E i \in DOMAIN result[c] :
                  /\ lock = Free /\ lock'.by = <<c, i>> /\ Authorized(c)
                  /\ Do(c, i).op = "update" /\ Do(c, i).id = id
                  /\ Do(c, i).title = object'[id].title
    /\ lock # Free =>
          /\ UNCHANGED <<live, next>>
          /\ \A id \in Ids :
                object'[id] \in {object[id]} \union
                    (IF id = lock.id THEN {Changed(object[id], Nil, lock.done)} ELSE {})
StoreSteps == [][StoreStep]_vars
=============================================================================
