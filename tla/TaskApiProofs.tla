---------------------------- MODULE TaskApiProofs ----------------------------
(***************************************************************************)
(* Proofs about TaskApi for any requests, of any fields the schema allows: *)
(* the invariants of the run, and what a step does to the store.           *)
(***************************************************************************)
EXTENDS TaskApi, SequenceTheorems, FiniteSetTheorems, TLAPS

-----------------------------------------------------------------------------
(* The inductive invariant.                                                *)

Obj == [title : Titles, done : BOOLEAN]
ShownTask == [id : Nat, title : Titles \union {Torn}, done : BOOLEAN]
Kinds == {"waiting", "error", "task", "true", "null", "list", "reading"}
Result == [kind : Kinds, shown : SUBSET ShownTask]
Hold == [at : Nat, title : Titles \union {Nil}, left : SUBSET Nat]

TypeInv ==
    /\ project \in {"pz11", "pz12"}
    /\ next \in Nat \ {0} /\ object \in Seq(Obj) /\ Len(object) = next - 1
    /\ live \subseteq Ids
    /\ pc \in [Clients -> {"new", "run", "done"}]
    /\ ask \in [Clients -> Ask]
    /\ result \in [Clients -> Seq(Result)]
    /\ held \in [Clients -> Seq(Hold)]
    /\ reply \in [Clients -> {"none", "data", "null", "200", "201", "400", "404"}]
    /\ DOMAIN window = Clients
    /\ wrote \in [Clients -> SUBSET Nat]
    /\ \A c \in Clients :
          /\ DOMAIN result[c] = DOMAIN ask[c].fields
          /\ DOMAIN held[c] = DOMAIN result[c]
          /\ wrote[c] \subseteq DOMAIN result[c]
          /\ \A i \in DOMAIN held[c] : held[c][i].left \subseteq Ids /\ held[c][i].at \in Ids \union {0}

\* The requests.
RequestInv ==
    \A c \in Clients :
        /\ Possible(ask[c])
        /\ ask[c].via = "rest" => project = "pz12"
        /\ ask[c].via = "rest" /\ pc[c] = "run" => ~Bad(ask[c])
        /\ pc[c] = "new" => DOMAIN result[c] = {}
        /\ pc[c] = "done" <=> reply[c] # "none"

Changing == {"create", "update", "delete"}

\* What a field can have given, by its operation.
KindsOf(op) ==
    IF op \in Changing THEN {"waiting", "error", "task", "true"}
    ELSE IF op = "task" THEN {"waiting", "task", "null"}
    ELSE {"waiting", "reading", "list"}

\* The fields of the requests, of a mutation one after the other.
FieldInv ==
    \A c \in Clients : \A i \in DOMAIN result[c] :
        /\ result[c][i].kind \in KindsOf(Do(c, i).op)
        /\ result[c][i].kind = "waiting" => result[c][i] = Waiting
        /\ result[c][i].kind = "error" => result[c][i] = Failed
        /\ result[c][i].kind = "reading" => pc[c] = "run" /\ project = "pz11"
        /\ result[c][i].kind # "reading" => held[c][i] = NotHeld
        /\ ask[c].via = "mutation" /\ result[c][i] = Waiting =>
              \A j \in DOMAIN result[c] : i < j => result[c][j] = Waiting

\* Between its writes an Update is one that may run, on a task that is there.
Between(c, i) == [by |-> <<c, i>>, id |-> Do(c, i).id, done |-> Do(c, i).done]
LockInv ==
    lock # Free =>
        \E c \in Clients : \E i \in DOMAIN result[c] :
            /\ lock = Between(c, i) /\ Do(c, i).op = "update" /\ Do(c, i).id \in live
            /\ MayRun(c, i) /\ Authorized(c)

\* What a field deleted is gone for good.
DeletedInv ==
    \A c \in Clients : \A i \in wrote[c] :
        /\ Do(c, i).op \in Changing
        /\ Do(c, i).op = "delete" => Do(c, i).id \in Ids \ live

WindowInv ==
    \A c \in Clients :
        IsFiniteSet(window[c]) /\ (pc[c] = "run" => Contents \in window[c])

\* An item of a list is explained by the stores W.
TitlesIn(W, id) == {w[id].title : w \in {v \in W : id \in DOMAIN v}}
ItemOK(W, t) ==
    /\ \/ t.title \in TitlesIn(W, t.id)
       \/ t.title = Torn /\ Cardinality(TitlesIn(W, t.id)) > 1
    /\ \E w \in W : t.id \in DOMAIN w /\ w[t.id].done = t.done

\* So is what a field showed, and
ReadOK(W, pz, id, r) ==
    /\ r.kind = "task" =>
          \E w \in W : \A t \in r.shown : t.id \in DOMAIN w /\ t = Shown(t.id, w[t.id])
    /\ r.kind = "null" => \E w \in W : id \notin DOMAIN w
    /\ r.kind = "list" /\ pz = "pz12" =>
          \E w \in W : r.shown = {Shown(j, w[j]) : j \in DOMAIN w}
    /\ r.kind = "list" =>
          /\ \E w \in W : {t.id : t \in r.shown} = DOMAIN w
          /\ \A t \in r.shown : ItemOK(W, t)
ReadsInv ==
    \A c \in Clients : \A i \in DOMAIN result[c] :
        ReadOK(window[c], project, Do(c, i).id, result[c][i])

\* what a list shows so far: with the tasks it has still to read it is the list
\* of one store, and the title and the done it is going to read have each been
\* in a store, not always in the same one.
ToRead(h) == h.left \union ({h.at} \ {0})
HoldOK(W, obj, r, h) ==
    /\ \E w \in W : {t.id : t \in r.shown} \union ToRead(h) = DOMAIN w
    /\ \A t \in r.shown : ItemOK(W, t)
    /\ \A id \in ToRead(h) :
          /\ \E w \in W : id \in DOMAIN w /\ w[id].title = obj[id].title
          /\ \E w \in W : id \in DOMAIN w /\ w[id].done = obj[id].done
    /\ h.at # 0 => h.title \in Titles \intersect TitlesIn(W, h.at)
HoldInv ==
    \A c \in Clients : \A i \in DOMAIN result[c] :
        result[c][i].kind = "reading" =>
            HoldOK(window[c], object, result[c][i], held[c][i])

IInv == /\ TypeInv /\ RequestInv /\ FieldInv /\ LockInv /\ DeletedInv /\ WindowInv
        /\ ReadsInv /\ HoldInv /\ EffectsAreExplained /\ FieldsRunInOrder
-----------------------------------------------------------------------------
(* Facts used by several steps.                                            *)

\* A function of sequences is changed at one place.
Sets(new, old, c, i, x) ==
    /\ \A d \in Clients : DOMAIN new[d] = DOMAIN old[d]
    /\ new[c][i] = x
    /\ \A d \in Clients : \A j \in DOMAIN old[d] :
          d # c \/ j # i => new[d][j] = old[d][j]

\* Leaving it alone is such a change, too.
LEMMA SetsNone ==
    ASSUME NEW f, NEW c, NEW i
    PROVE  Sets(f, f, c, i, f[c][i])
BY DEF Sets

\* Each field asks one thing.
LEMMA FieldFacts ==
    ASSUME TypeInv, NEW c \in Clients, NEW i \in DOMAIN result[c]
    PROVE  /\ Do(c, i) \in Field /\ result[c][i] \in Result /\ held[c][i] \in Hold
           /\ i \in Nat /\ i \in DOMAIN ask[c].fields /\ i \in DOMAIN held[c]
<1>1. /\ ask[c].fields \in Seq(Field) /\ result[c] \in Seq(Result) /\ held[c] \in Seq(Hold)
      /\ i \in DOMAIN ask[c].fields /\ i \in DOMAIN held[c]
  BY DEF TypeInv, Ask
<1>2. i \in 1 .. Len(ask[c].fields) /\ i \in 1 .. Len(held[c]) /\ i \in 1 .. Len(result[c])
  BY <1>1
<1>. QED
  BY <1>1, <1>2, ElementOfSeq DEF Do

\* Finish changes one result,
LEMMA FinishSets ==
    ASSUME TypeInv, NEW c \in Clients, NEW i \in DOMAIN result[c],
           NEW r \in Result, Finish(c, i, r)
    PROVE  result' \in [Clients -> Seq(Result)] /\ Sets(result', result, c, i, r)
<1>1. result \in [Clients -> Seq(Result)] /\ i \in 1 .. Len(result[c])
  BY DEF TypeInv
<1>2. [result[c] EXCEPT ![i] = r] \in Seq(Result)
  BY <1>1, ExceptSeq
<1>. QED
  BY <1>1, <1>2 DEF Finish, Sets

\* and a list that is being read is changed alike.
LEMMA HeldSets ==
    ASSUME TypeInv, NEW c \in Clients, NEW i \in DOMAIN result[c],
           NEW h \in Hold, held' = [held EXCEPT ![c][i] = h]
    PROVE  held' \in [Clients -> Seq(Hold)] /\ Sets(held', held, c, i, h)
<1>1. held \in [Clients -> Seq(Hold)] /\ i \in 1 .. Len(held[c])
  BY DEF TypeInv
<1>2. [held[c] EXCEPT ![i] = h] \in Seq(Hold)
  BY <1>1, ExceptSeq
<1>. QED
  BY <1>1, <1>2 DEF Sets

\* What the schema and the REST handlers let through.
LEMMA OpFacts ==
    ASSUME TypeInv, RequestInv, NEW c \in Clients, NEW i \in DOMAIN result[c]
    PROVE  /\ Do(c, i).op \in Changing => ask[c].via # "query"
           /\ ask[c].via = "mutation" => Do(c, i).op \in Changing
           /\ ask[c].via = "rest" => DOMAIN result[c] = {1} /\ project = "pz12"
           /\ Do(c, i).op = "create" /\ pc[c] = "run" => Do(c, i).title \in Titles
<1>1. i \in DOMAIN ask[c].fields /\ Do(c, i) \in Field /\ Possible(ask[c])
  BY FieldFacts DEF RequestInv
<1>2. ask[c].via \in {"query", "mutation", "rest"}
  BY DEF TypeInv, Ask
<1>3. ask[c].via = "rest" => DOMAIN result[c] = {1} /\ project = "pz12"
  <2>1. DOMAIN result[c] = DOMAIN ask[c].fields /\ ask[c].fields \in Seq(Field)
    BY DEF TypeInv, Ask
  <2>2. ask[c].via = "rest" => Len(ask[c].fields) = 1
    BY <1>1 DEF Possible
  <2>3. ask[c].via = "rest" => project = "pz12"
    BY DEF RequestInv
  <2>4. ask[c].via = "rest" => DOMAIN ask[c].fields = {1}
    BY <2>1, <2>2
  <2>. QED
    BY <2>1, <2>3, <2>4
<1>4. /\ Do(c, i).op \in Changing => ask[c].via # "query"
      /\ ask[c].via = "mutation" => Do(c, i).op \in Changing
      /\ ask[c].via = "mutation" /\ Do(c, i).op = "create" => Do(c, i).title # Nil
  BY <1>1 DEF Possible, Changing, Do
<1>5. ask[c].via = "rest" /\ pc[c] = "run" /\ Do(c, i).op = "create" => Do(c, i).title # Nil
  BY <1>3 DEF RequestInv, Bad, Do
<1>6. Do(c, i).title \in Titles \union {Nil}
  BY <1>1 DEF Field
<1>. QED
  BY <1>2, <1>3, <1>4, <1>5, <1>6 DEF Changing

\* More stores explain more.
LEMMA TitlesGrow ==
    ASSUME NEW W, NEW V, W \subseteq V, IsFiniteSet(V), NEW id
    PROVE  /\ TitlesIn(W, id) \subseteq TitlesIn(V, id)
           /\ IsFiniteSet(TitlesIn(V, id))
           /\ Cardinality(TitlesIn(W, id)) > 1 => Cardinality(TitlesIn(V, id)) > 1
<1>1. TitlesIn(W, id) \subseteq TitlesIn(V, id)
  BY DEF TitlesIn
<1>2. IsFiniteSet(TitlesIn(V, id))
  <2>. DEFINE S == {v \in V : id \in DOMAIN v}
              f == [v \in S |-> v[id].title]
  <2>1. IsFiniteSet(S)
    BY FS_Subset
  <2>2. f \in Surjection(S, TitlesIn(V, id))
    BY DEF TitlesIn, Surjection
  <2>. QED
    BY <2>1, <2>2, FS_Surjection
<1>3. /\ Cardinality(TitlesIn(W, id)) <= Cardinality(TitlesIn(V, id))
      /\ Cardinality(TitlesIn(W, id)) \in Nat /\ Cardinality(TitlesIn(V, id)) \in Nat
  BY <1>1, <1>2, FS_Subset, FS_CardinalityType
<1>. QED
  BY <1>1, <1>2, <1>3

\* So what was explained stays explained.
LEMMA ItemGrows ==
    ASSUME NEW W, NEW V, W \subseteq V, IsFiniteSet(V), NEW t, ItemOK(W, t)
    PROVE  ItemOK(V, t)
BY TitlesGrow DEF ItemOK

\* The same for the result of a field.
LEMMA ReadGrows ==
    ASSUME NEW W, NEW V, W \subseteq V, IsFiniteSet(V), NEW pz, NEW id, NEW r,
           ReadOK(W, pz, id, r)
    PROVE  ReadOK(V, pz, id, r)
BY ItemGrows DEF ReadOK

-----------------------------------------------------------------------------
(* The store and the history.                                              *)

\* What a step does to the store and to what the requests have seen of it.
StoreMoves ==
    /\ next' \in Nat \ {0} /\ object' \in Seq(Obj) /\ Len(object') = next' - 1
    /\ live' \subseteq Ids' /\ Ids \subseteq Ids'
    /\ \A id \in Ids \ live : id \notin live' /\ object'[id] = object[id]
    /\ \A id \in Ids :
          /\ object'[id].title = object[id].title
                \/ (id \in live' /\ Contents'[id].title = object'[id].title)
          /\ object'[id].done = object[id].done
                \/ (id \in live' /\ Contents'[id].done = object'[id].done)
    /\ DOMAIN window' = Clients
    /\ \A c \in Clients :
          /\ window[c] \subseteq window'[c] /\ IsFiniteSet(window'[c])
          /\ pc[c] = "run" => Contents' \in window'[c]

\* A field that only reads.
LEMMA StandsStill ==
    ASSUME TypeInv, WindowInv, UNCHANGED <<storeVars, window>>
    PROVE  StoreMoves
<1>1. UNCHANGED <<object, live, next, lock, window>>
  BY DEF storeVars
<1>2. Contents' = Contents
  BY <1>1 DEF Contents
<1>. QED
  BY <1>1, <1>2 DEF StoreMoves, TypeInv, WindowInv, Ids

\* When nobody is between two writes the store is what the objects are.
LEMMA ContentsFree ==
    ASSUME TypeInv, lock = Free
    PROVE  Contents = [id \in live |-> object[id]]
<1>1. \A id \in live : id # 0
  BY DEF TypeInv, Ids
<1>. QED
  BY <1>1 DEF Contents, Free

\* A field that changes the store lets every request in progress see it.
LEMMA Observed ==
    ASSUME TypeInv, WindowInv, Observe
    PROVE  /\ DOMAIN window' = Clients
           /\ \A c \in Clients :
                 /\ window[c] \subseteq window'[c] /\ IsFiniteSet(window'[c])
                 /\ pc[c] = "run" => Contents' \in window'[c]
<1>1. \A c \in Clients : IsFiniteSet(window[c]) /\ IsFiniteSet(window[c] \union {Contents'})
  BY FS_AddElement DEF WindowInv
<1>. QED
  BY <1>1 DEF Observe, Running

\* Create.
LEMMA CreateMoves ==
    ASSUME TypeInv, WindowInv, Observe, NEW title \in Titles, Create(title)
    PROVE  /\ StoreMoves /\ next \in live'
           /\ object'[next] = [title |-> title, done |-> FALSE]
           /\ \A id \in Ids : object'[id] = object[id]
<1>1. PICK t \in Obj : t = [title |-> title, done |-> FALSE]
  BY DEF Obj
<1>2. /\ object' = Append(object, t) /\ live' = live \union {next} /\ next' = next + 1
      /\ lock' = lock /\ object \in Seq(Obj) /\ Len(object) = next - 1 /\ next \in Nat \ {0}
      /\ live \subseteq 1 .. next - 1
  BY <1>1 DEF Create, TypeInv, Ids
<1>3. /\ object' \in Seq(Obj) /\ Len(object') = next' - 1 /\ object'[next] = t
      /\ \A id \in 1 .. next - 1 : object'[id] = object[id]
  BY <1>2, AppendProperties
<1>4. /\ live' \subseteq Ids' /\ Ids \subseteq Ids' /\ next \in live'
      /\ \A id \in Ids \ live : id \notin live' /\ object'[id] = object[id]
      /\ \A id \in Ids : object'[id] = object[id]
  BY <1>2, <1>3 DEF Ids
<1>5. /\ DOMAIN window' = Clients
      /\ \A c \in Clients :
            /\ window[c] \subseteq window'[c] /\ IsFiniteSet(window'[c])
            /\ pc[c] = "run" => Contents' \in window'[c]
  BY Observed
<1>6. next' \in Nat \ {0}
  BY <1>2
<1>7. StoreMoves
  BY <1>3, <1>4, <1>5, <1>6 DEF StoreMoves
<1>. QED
  BY <1>1, <1>3, <1>4, <1>7

\* A task that is changed as an Update does it is a task.
LEMMA ChangedType ==
    ASSUME NEW t \in Obj, NEW title \in Titles \union {Nil}, NEW done \in BOOLEAN \union {Nil}
    PROVE  /\ Changed(t, title, done) \in Obj
           /\ Changed(t, title, done).title = IF title = Nil THEN t.title ELSE title
           /\ Changed(t, title, done).done = IF done = Nil THEN t.done ELSE done
BY DEF Changed, Obj

\* One object changes.
LEMMA OneObject ==
    ASSUME TypeInv, NEW id \in live, NEW t \in Obj, object' = [object EXCEPT ![id] = t],
           UNCHANGED <<live, next>>
    PROVE  /\ object' \in Seq(Obj) /\ Len(object') = next' - 1 /\ object'[id] = t
           /\ \A j \in Ids : j # id => object'[j] = object[j]
           /\ id \in Ids /\ object[id] \in Obj /\ Ids' = Ids /\ live' \subseteq Ids
<1>1. /\ object \in Seq(Obj) /\ Len(object) = next - 1 /\ next \in Nat \ {0}
      /\ live \subseteq 1 .. next - 1 /\ id \in 1 .. Len(object)
  BY DEF TypeInv, Ids
<1>2. object' \in Seq(Obj) /\ Len(object') = Len(object) /\ object[id] \in Obj
  BY <1>1, ExceptSeq, ElementOfSeq
<1>. QED
  BY <1>1, <1>2 DEF Ids

\* Update writes the title; an argument that is nil leaves it alone.
LEMMA TitleMoves ==
    ASSUME TypeInv, WindowInv, Observe, lock = Free, NEW by, NEW f \in Field, WriteTitle(by, f)
    PROVE  /\ StoreMoves /\ live' = live /\ next' = next /\ f.id \in live
           /\ lock' = [by |-> by, id |-> f.id, done |-> f.done]
           /\ object'[f.id].title \in {object[f.id].title, f.title}
           /\ \A id \in Ids \ {f.id} : object'[id] = object[id]
<1>. DEFINE t == Changed(object[f.id], f.title, Nil)
<1>1. /\ f.id \in live /\ live' = live /\ next' = next
      /\ object' = [object EXCEPT ![f.id] = t]
      /\ lock' = [by |-> by, id |-> f.id, done |-> f.done]
  BY DEF WriteTitle
<1>2. object[f.id] \in Obj /\ f.title \in Titles \union {Nil} /\ f.done \in BOOLEAN \union {Nil}
  <2>1. object \in Seq(Obj) /\ f.id \in 1 .. Len(object)
    BY <1>1 DEF TypeInv, Ids
  <2>. QED
    BY <2>1, ElementOfSeq DEF Field
<1>3. t \in Obj /\ t.title \in {object[f.id].title, f.title} /\ t.done = object[f.id].done
  BY <1>2, ChangedType
<1>4. /\ object' \in Seq(Obj) /\ Len(object') = next' - 1 /\ object'[f.id] = t
      /\ \A j \in Ids : j # f.id => object'[j] = object[j]
      /\ Ids' = Ids /\ live' \subseteq Ids /\ f.id \in Ids
  BY <1>1, <1>3, OneObject
<1>5. Contents'[f.id].title = object'[f.id].title
  <2>1. Contents'[f.id] = Changed(object'[f.id], Nil, f.done)
    BY <1>1 DEF Contents
  <2>. QED
    BY <2>1 DEF Changed
<1>6. \A id \in Ids :
         /\ object'[id].title = object[id].title
               \/ (id \in live' /\ Contents'[id].title = object'[id].title)
         /\ object'[id].done = object[id].done
               \/ (id \in live' /\ Contents'[id].done = object'[id].done)
  BY <1>1, <1>3, <1>4, <1>5
<1>. QED
  BY <1>1, <1>3, <1>4, <1>6, Observed DEF StoreMoves, TypeInv

\* It writes done, and the store is what it counted as already.
LEMMA DoneMoves ==
    ASSUME TypeInv, WindowInv, Observe, NEW f \in Field, f.id \in live,
           lock.id = f.id, lock.done = f.done, WriteDone
    PROVE  /\ StoreMoves /\ live' = live /\ next' = next /\ lock' = Free
           /\ object'[f.id] = Changed(object[f.id], Nil, lock.done)
           /\ object'[f.id] \in Obj /\ object'[f.id].title = object[f.id].title
           /\ \A id \in Ids \ {f.id} : object'[id] = object[id]
<1>. DEFINE t == Changed(object[f.id], Nil, f.done)
<1>1. /\ live' = live /\ next' = next /\ lock' = Free
      /\ object' = [object EXCEPT ![f.id] = t]
  BY DEF WriteDone
<1>2. object[f.id] \in Obj /\ f.done \in BOOLEAN \union {Nil}
  <2>1. object \in Seq(Obj) /\ f.id \in 1 .. Len(object)
    BY DEF TypeInv, Ids
  <2>. QED
    BY <2>1, ElementOfSeq DEF Field
<1>3. t \in Obj /\ t.title = object[f.id].title
  BY <1>2, ChangedType
<1>4. /\ object' \in Seq(Obj) /\ Len(object') = next' - 1 /\ object'[f.id] = t
      /\ \A j \in Ids : j # f.id => object'[j] = object[j]
      /\ Ids' = Ids /\ live' \subseteq Ids /\ f.id \in Ids
  BY <1>1, <1>3, OneObject
<1>5. Contents'[f.id] = object'[f.id]
  <2>1. f.id # 0
    BY DEF TypeInv, Ids
  <2>. QED
    BY <1>1, <2>1 DEF Contents, Free
<1>6. \A id \in Ids :
         /\ object'[id].title = object[id].title
               \/ (id \in live' /\ Contents'[id].title = object'[id].title)
         /\ object'[id].done = object[id].done
               \/ (id \in live' /\ Contents'[id].done = object'[id].done)
  BY <1>1, <1>4, <1>5
<1>. QED
  BY <1>1, <1>3, <1>4, <1>6, Observed DEF StoreMoves, TypeInv

\* Delete: the object lives on, the list does not show it.
LEMMA DeleteMoves ==
    ASSUME TypeInv, WindowInv, Observe, NEW id, Delete(id)
    PROVE  StoreMoves /\ id \in Ids \ live' /\ object' = object /\ id \in live /\ lock' = lock
BY Observed DEF Delete, StoreMoves, TypeInv, Ids

\* Through all that a list goes on being explained.
LEMMA HoldMoves ==
    ASSUME TypeInv, StoreMoves, NEW c \in Clients, pc[c] = "run", NEW i \in DOMAIN result[c],
           NEW r, HoldOK(window[c], object, r, held[c][i])
    PROVE  HoldOK(window'[c], object', r, held[c][i])
<1>. DEFINE h == held[c][i]
            W == window[c]
            V == window'[c]
<1>1. W \subseteq V /\ IsFiniteSet(V) /\ Contents' \in V
  BY DEF StoreMoves
<1>2. ToRead(h) \subseteq Ids
  BY FieldFacts DEF TypeInv, ToRead
<1>3. ASSUME NEW id \in ToRead(h)
      PROVE  /\ \E w \in V : id \in DOMAIN w /\ w[id].title = object'[id].title
             /\ \E w \in V : id \in DOMAIN w /\ w[id].done = object'[id].done
  <2>1. /\ \E w \in W : id \in DOMAIN w /\ w[id].title = object[id].title
        /\ \E w \in W : id \in DOMAIN w /\ w[id].done = object[id].done
    BY DEF HoldOK
  <2>2. id \in live' => id \in DOMAIN Contents'
    BY DEF Contents
  <2>3. \E w \in V : id \in DOMAIN w /\ w[id].title = object'[id].title
    BY <1>1, <1>2, <2>1, <2>2 DEF StoreMoves
  <2>4. \E w \in V : id \in DOMAIN w /\ w[id].done = object'[id].done
    BY <1>1, <1>2, <2>1, <2>2 DEF StoreMoves
  <2>. QED
    BY <2>3, <2>4
<1>4. \A t \in r.shown : ItemOK(V, t)
  BY <1>1, ItemGrows DEF HoldOK
<1>5. h.at # 0 => h.title \in Titles \intersect TitlesIn(V, h.at)
  BY <1>1, TitlesGrow DEF HoldOK
<1>. QED
  BY <1>1, <1>3, <1>4, <1>5 DEF HoldOK

-----------------------------------------------------------------------------
(* The steps of a field.                                                   *)

\* Field i of c gives r and holds h from now on, and either reads the store or
\* changes it.
Gives(c, i, r, h) ==
    /\ pc[c] = "run" /\ UNCHANGED <<project, pc, ask, reply>>
    /\ StoreMoves
    /\ result' \in [Clients -> Seq(Result)] /\ Sets(result', result, c, i, r)
    /\ held' \in [Clients -> Seq(Hold)] /\ Sets(held', held, c, i, h)
    /\ r.kind \in KindsOf(Do(c, i).op) \ {"waiting"}
    /\ r.kind = "error" => r = Failed
    /\ h.left \subseteq Ids /\ h.at \in Ids \union {0}
    /\ r.kind # "reading" => h = NotHeld
    /\ r.kind = "reading" => project = "pz11" /\ HoldOK(window'[c], object', r, h)
    /\ ReadOK(window'[c], project, Do(c, i).id, r)
    /\ result[c][i].kind = "reading" \/ MayRun(c, i)
    /\ lock' = Free \/ (lock' = lock /\ lock.by # <<c, i>> /\ live \subseteq live')
Reads(c, i, r) ==
    /\ wrote' = wrote
    /\ Do(c, i).op \notin Changing \/ r.kind = "error"
Writes(c, i, r) ==
    /\ wrote' = [wrote EXCEPT ![c] = @ \union {i}]
    /\ Do(c, i).op \in Changing /\ r.kind \in {"task", "true"}
    /\ Authorized(c)
    /\ Do(c, i).op \in {"update", "delete"} => Do(c, i).id \in live
    /\ Do(c, i).op = "delete" => Do(c, i).id \in Ids' \ live'

\* The types.
LEMMA GivesTypes ==
    ASSUME IInv, NEW c \in Clients, NEW i \in DOMAIN result[c],
           NEW r \in Result, NEW h \in Hold, Gives(c, i, r, h),
           Reads(c, i, r) \/ Writes(c, i, r)
    PROVE  TypeInv'
<1>. USE DEF IInv
<1>1. wrote' \in [Clients -> SUBSET Nat] /\ \A d \in Clients : wrote'[d] \subseteq DOMAIN result[d]
  <2>1. /\ wrote \in [Clients -> SUBSET Nat] /\ i \in Nat
        /\ \A d \in Clients : wrote[d] \subseteq DOMAIN result[d]
    BY FieldFacts DEF TypeInv
  <2>2. wrote' = wrote \/ wrote' = [wrote EXCEPT ![c] = wrote[c] \union {i}]
    BY DEF Reads, Writes
  <2>. QED
    BY <2>1, <2>2
<1>2. \A d \in Clients :
         /\ DOMAIN result'[d] = DOMAIN ask'[d].fields
         /\ DOMAIN held'[d] = DOMAIN result'[d]
         /\ wrote'[d] \subseteq DOMAIN result'[d]
  BY <1>1 DEF TypeInv, Gives, Sets
<1>3. ASSUME NEW d \in Clients, NEW j \in DOMAIN held'[d]
      PROVE  held'[d][j].left \subseteq Ids' /\ held'[d][j].at \in Ids' \union {0}
  <2>1. Ids \subseteq Ids'
    BY DEF Gives, StoreMoves
  <2>2. CASE d = c /\ j = i
    BY <2>1, <2>2 DEF Gives, Sets
  <2>3. CASE d # c \/ j # i
    <3>1. j \in DOMAIN held[d] /\ held'[d][j] = held[d][j]
      BY <2>3 DEF Gives, Sets
    <3>. QED
      BY <2>1, <3>1 DEF TypeInv
  <2>. QED
    BY <2>2, <2>3
<1>. QED
  BY <1>1, <1>2, <1>3 DEF TypeInv, Gives, StoreMoves

\* The requests and their fields.
LEMMA GivesFields ==
    ASSUME IInv, NEW c \in Clients, NEW i \in DOMAIN result[c],
           NEW r \in Result, NEW h \in Hold, Gives(c, i, r, h)
    PROVE  RequestInv' /\ FieldInv' /\ LockInv'
<1>. USE DEF IInv
<1>1. RequestInv'
  BY DEF RequestInv, Gives, Sets, Possible, Bad
<1>2. ASSUME NEW d \in Clients, NEW j \in DOMAIN result'[d]
      PROVE  /\ result'[d][j].kind \in KindsOf(Do(d, j)'.op)
             /\ result'[d][j].kind = "waiting" => result'[d][j] = Waiting
             /\ result'[d][j].kind = "error" => result'[d][j] = Failed
             /\ result'[d][j].kind = "reading" => pc'[d] = "run" /\ project' = "pz11"
             /\ result'[d][j].kind # "reading" => held'[d][j] = NotHeld
  <2>1. j \in DOMAIN result[d] /\ j \in DOMAIN held[d] /\ Do(d, j)' = Do(d, j)
    BY DEF Gives, Sets, TypeInv, Do
  <2>2. CASE d = c /\ j = i
    BY <2>1, <2>2 DEF Gives, Sets
  <2>3. CASE d # c \/ j # i
    BY <2>1, <2>3 DEF Gives, Sets, FieldInv
  <2>. QED
    BY <2>2, <2>3
<1>3. ASSUME NEW d \in Clients, NEW j \in DOMAIN result'[d], ask'[d].via = "mutation",
             result'[d][j] = Waiting, NEW k \in DOMAIN result'[d], j < k
      PROVE  result'[d][k] = Waiting
  <2>1. r # Waiting
    BY DEF Gives, Waiting, Give
  <2>2. /\ d # c \/ j # i
        /\ j \in DOMAIN result[d] /\ k \in DOMAIN result[d]
        /\ result[d][j] = Waiting /\ ask[d].via = "mutation"
    BY <1>3, <2>1 DEF Gives, Sets
  <2>3. result[d][k] = Waiting
    BY <1>3, <2>2 DEF FieldInv
  <2>4. ~(d = c /\ k = i)
    <3>. SUFFICES ASSUME d = c, k = i PROVE FALSE
      OBVIOUS
    <3>1. MayRun(c, i)
      BY <2>3 DEF Gives, Waiting, Give
    <3>2. j \in 1 .. i - 1
      BY <1>3, <2>2, FieldFacts DEF TypeInv
    <3>. QED
      BY <2>2, <3>1, <3>2 DEF MayRun, Waiting, Give
  <2>. QED
    BY <2>2, <2>3, <2>4 DEF Gives, Sets
<1>4. FieldInv'
  BY <1>2, <1>3 DEF FieldInv
\* The Update that is between its writes waits for the lock only.
<1>5. LockInv'
  <2>. SUFFICES ASSUME lock' # Free PROVE LockInv'
    BY DEF LockInv
  <2>1. lock' = lock /\ lock.by # <<c, i>> /\ live \subseteq live'
    BY DEF Gives
  <2>2. PICK d, j :
           /\ d \in Clients /\ j \in DOMAIN result[d]
           /\ lock = Between(d, j) /\ Do(d, j).op = "update" /\ Do(d, j).id \in live
           /\ MayRun(d, j) /\ Authorized(d)
    BY <2>1 DEF LockInv
  <2>3. d # c \/ j # i
    BY <2>1, <2>2 DEF Between
  <2>4. /\ j \in DOMAIN result'[d] /\ Do(d, j)' = Do(d, j) /\ Between(d, j)' = Between(d, j)
        /\ Authorized(d)'
    BY <2>2 DEF Gives, Sets, Do, Between, Authorized
  <2>5. MayRun(d, j)'
    <3>1. pc'[d] = "run" /\ result'[d][j] = Waiting'
      BY <2>2, <2>3 DEF Gives, Sets, MayRun, Waiting, Give
    <3>2. ASSUME ask'[d].via = "mutation", NEW k \in 1 .. j - 1
          PROVE  result'[d][k].kind # "waiting"
      <4>1. k \in DOMAIN result[d] /\ result[d][k].kind # "waiting"
        <5>1. result[d] \in Seq(Result)
          BY <2>2 DEF TypeInv
        <5>3. j \in 1 .. Len(result[d]) /\ Len(result[d]) \in Nat
          BY <2>2, <5>1
        <5>. QED
          BY <2>2, <3>2, <5>3 DEF Gives, MayRun
      <4>2. CASE d = c /\ k = i
        BY <4>2 DEF Gives, Sets
      <4>3. CASE d # c \/ k # i
        BY <2>2, <4>1, <4>3 DEF Gives, Sets
      <4>. QED
        BY <4>2, <4>3
    <3>. QED
      BY <3>1, <3>2 DEF MayRun, Waiting, Give
  <2>. QED
    BY <2>1, <2>2, <2>4, <2>5 DEF LockInv
<1>. QED
  BY <1>1, <1>4, <1>5

\* What was read.
LEMMA GivesReads ==
    ASSUME IInv, NEW c \in Clients, NEW i \in DOMAIN result[c],
           NEW r \in Result, NEW h \in Hold, Gives(c, i, r, h)
    PROVE  WindowInv' /\ ReadsInv' /\ HoldInv'
<1>. USE DEF IInv
<1>1. WindowInv'
  BY DEF Gives, StoreMoves, WindowInv
<1>2. ASSUME NEW d \in Clients, NEW j \in DOMAIN result'[d]
      PROVE  /\ ReadOK(window'[d], project', Do(d, j)'.id, result'[d][j])
             /\ result'[d][j].kind = "reading" =>
                   HoldOK(window'[d], object', result'[d][j], held'[d][j])
  <2>1. /\ j \in DOMAIN result[d] /\ j \in DOMAIN held[d] /\ Do(d, j)' = Do(d, j)
        /\ project' = project
    BY DEF Gives, Sets, TypeInv, Do
  <2>2. CASE d = c /\ j = i
    BY <2>1, <2>2 DEF Gives, Sets
  <2>3. CASE d # c \/ j # i
    <3>1. result'[d][j] = result[d][j] /\ held'[d][j] = held[d][j]
      BY <2>1, <2>3 DEF Gives, Sets
    <3>2. StoreMoves /\ window[d] \subseteq window'[d] /\ IsFiniteSet(window'[d])
      BY DEF Gives, StoreMoves
    <3>3. ReadOK(window'[d], project, Do(d, j).id, result[d][j])
      BY <2>1, <3>2, ReadGrows DEF ReadsInv
    <3>4. ASSUME result[d][j].kind = "reading"
          PROVE  HoldOK(window'[d], object', result[d][j], held[d][j])
      <4>1. pc[d] = "run" /\ HoldOK(window[d], object, result[d][j], held[d][j])
        BY <2>1, <3>4 DEF FieldInv, HoldInv
      <4>. QED
        BY <2>1, <3>2, <4>1, HoldMoves
    <3>. QED
      BY <2>1, <3>1, <3>3, <3>4
  <2>. QED
    BY <2>2, <2>3
<1>3. ReadsInv'
  BY <1>2 DEF ReadsInv
<1>4. HoldInv'
  BY <1>2 DEF HoldInv
<1>. QED
  BY <1>1, <1>3, <1>4

\* What was changed.
LEMMA GivesEffects ==
    ASSUME IInv, NEW c \in Clients, NEW i \in DOMAIN result[c],
           NEW r \in Result, NEW h \in Hold, Gives(c, i, r, h),
           Reads(c, i, r) \/ Writes(c, i, r)
    PROVE  DeletedInv' /\ EffectsAreExplained' /\ FieldsRunInOrder'
<1>. USE DEF IInv
<1>0. /\ UNCHANGED <<project, pc, ask, reply>> /\ pc[c] = "run" /\ i \in Nat
      /\ \A d \in Clients : DOMAIN result'[d] = DOMAIN result[d]
      /\ \A d \in Clients : \A j \in DOMAIN result[d] : Do(d, j)' = Do(d, j)
  BY FieldFacts DEF Gives, Sets, Do
<1>1. result'[c][i] = r /\ \A d \in Clients : \A j \in DOMAIN result[d] :
         d # c \/ j # i => result'[d][j] = result[d][j]
  BY DEF Gives, Sets
<1>2. wrote \in [Clients -> SUBSET Nat] /\ \A d \in Clients : wrote[d] \subseteq DOMAIN result[d]
  BY DEF TypeInv
<1>3. /\ \A d \in Clients \ {c} : wrote'[d] = wrote[d]
      /\ \A j \in DOMAIN result[c] : j # i => (j \in wrote'[c] <=> j \in wrote[c])
      /\ \A d \in Clients : wrote'[d] \subseteq DOMAIN result[d]
  BY <1>2 DEF Reads, Writes
\* A field that has not run yet has not written.
<1>4. Do(c, i).op \in Changing => i \notin wrote[c]
  <2>. SUFFICES ASSUME Do(c, i).op \in Changing PROVE i \notin wrote[c]
    OBVIOUS
  <2>1. result[c][i].kind # "reading"
    BY DEF FieldInv, KindsOf
  <2>2. result[c][i].kind = "waiting"
    BY <2>1 DEF Gives, MayRun, Waiting, Give
  <2>. QED
    BY <2>2 DEF EffectsAreExplained, Changing
<1>5. Do(c, i).op \in Changing => (i \in wrote'[c] <=> r.kind \in {"task", "true"})
  <2>1. CASE Reads(c, i, r)
    BY <1>4, <2>1 DEF Reads
  <2>2. CASE Writes(c, i, r)
    BY <1>2, <2>2 DEF Writes
  <2>. QED
    BY <2>1, <2>2
<1>6. i \in wrote'[c] =>
        /\ Do(c, i).op \in Changing
        /\ Do(c, i).op = "delete" => Do(c, i).id \in Ids' \ live'
        /\ project = "pz11" => ask[c].token
  <2>1. CASE Reads(c, i, r)
    <3>1. i \in wrote'[c] => i \in wrote[c]
      BY <2>1 DEF Reads
    <3>2. i \in wrote[c] => Do(c, i).op \in Changing
      BY DEF DeletedInv
    <3>. QED
      BY <1>4, <3>1, <3>2
  <2>2. CASE Writes(c, i, r)
    <3>1. Do(c, i).op \in Changing /\ Authorized(c)
      BY <2>2 DEF Writes
    <3>2. ask[c].via \in {"query", "mutation", "rest"}
      BY DEF TypeInv, Ask
    <3>3. project = "pz11" => ask[c].token
      BY <3>1, <3>2, OpFacts DEF Authorized
    <3>. QED
      BY <2>2, <3>3 DEF Writes
  <2>. QED
    BY <2>1, <2>2
<1>7. DeletedInv'
  <2>. SUFFICES ASSUME NEW d \in Clients, NEW j \in wrote'[d]
       PROVE  /\ Do(d, j).op \in Changing
              /\ Do(d, j).op = "delete" => Do(d, j).id \in Ids' \ live'
    BY <1>0, <1>3 DEF DeletedInv
  <2>1. CASE d = c /\ j = i
    BY <1>6, <2>1
  <2>2. CASE d # c \/ j # i
    <3>1. j \in wrote[d]
      BY <1>3, <2>2
    <3>2. Ids \subseteq Ids' /\ \A id \in Ids \ live : id \notin live'
      BY DEF Gives, StoreMoves
    <3>. QED
      BY <3>1, <3>2 DEF DeletedInv
  <2>. QED
    BY <2>1, <2>2
<1>8. ASSUME NEW d \in Clients
      PROVE  /\ \A j \in DOMAIN result'[d] :
                   Do(d, j)'.op \in {"create", "update", "delete"} =>
                      (j \in wrote'[d] <=> result'[d][j].kind \in {"task", "true"})
             /\ reply'[d] = "null" => Errors(d)' # {}
             /\ reply'[d] = "data" => Errors(d)' = {}
             /\ reply'[d] \in {"400", "404"} => wrote'[d] = {}
             /\ project' = "pz11" /\ wrote'[d] # {} => ask'[d].token
  <2>1. ASSUME NEW j \in DOMAIN result'[d], Do(d, j)'.op \in {"create", "update", "delete"}
        PROVE  j \in wrote'[d] <=> result'[d][j].kind \in {"task", "true"}
    <3>1. j \in DOMAIN result[d] /\ Do(d, j).op \in Changing
      BY <1>0, <2>1 DEF Changing
    <3>2. CASE d = c /\ j = i
      BY <1>1, <1>5, <3>1, <3>2
    <3>3. CASE d # c \/ j # i
      BY <1>1, <1>3, <3>1, <3>3 DEF EffectsAreExplained, Changing
    <3>. QED
      BY <3>2, <3>3
  <2>2. CASE d # c
    <3>1. Errors(d)' = Errors(d)
      BY <1>0, <1>1, <2>2 DEF Errors, Failed, Give
    <3>. QED
      BY <1>0, <1>3, <2>1, <2>2, <3>1 DEF EffectsAreExplained
  <2>3. CASE d = c
    <3>1. reply'[c] = "none"
      BY <1>0 DEF RequestInv
    <3>2. project = "pz11" /\ wrote'[c] # {} => ask[c].token
      <4>1. CASE i \in wrote'[c]
        BY <1>6, <4>1
      <4>2. CASE i \notin wrote'[c]
        BY <1>3, <4>2 DEF EffectsAreExplained
      <4>. QED
        BY <4>1, <4>2
    <3>. QED
      BY <1>0, <2>1, <2>3, <3>1, <3>2
  <2>. QED
    BY <2>2, <2>3
<1>9. EffectsAreExplained'
  BY <1>8 DEF EffectsAreExplained
<1>10. ASSUME NEW d \in Clients, NEW j \in DOMAIN result[d], NEW k \in DOMAIN result[d],
              j < k, Do(d, j).op = "delete", j \in wrote'[d],
              Do(d, k).op \in {"update", "delete"}, Do(d, k).id = Do(d, j).id
       PROVE  result'[d][k] \in {Waiting, Failed}
  <2>1. j # k /\ j \in Nat /\ k \in Nat
    BY <1>10, FieldFacts
  \* The field that runs comes second: the task is gone.
  <2>2. CASE d = c /\ k = i
    <3>1. j \in wrote[c]
      BY <1>3, <1>10, <2>1, <2>2
    <3>2. Do(c, i).id \notin live
      BY <1>10, <2>2, <3>1 DEF DeletedInv
    <3>3. Reads(c, i, r)
      BY <1>10, <2>2, <3>2 DEF Writes
    <3>. QED
      BY <1>1, <1>10, <2>2, <3>3 DEF Reads, Gives, Changing
  \* It comes first: the second still waits.
  <2>3. CASE d = c /\ j = i
    <3>1. ask[c].via = "mutation"
      <4>1. ask[c].via \in {"query", "mutation", "rest"}
        BY DEF TypeInv, Ask
      <4>. QED
        BY <1>10, <2>1, <2>3, <4>1, OpFacts DEF Changing
    <3>2. result[c][i] = Waiting
      <4>1. result[c][i].kind # "reading"
        BY <1>10, <2>3 DEF FieldInv, KindsOf, Changing
      <4>. QED
        BY <4>1 DEF Gives, MayRun
    <3>. QED
      BY <1>1, <1>10, <2>1, <2>3, <3>1, <3>2 DEF FieldInv
  <2>4. CASE d # c \/ (j # i /\ k # i)
    BY <1>1, <1>3, <1>10, <2>4 DEF FieldsRunInOrder
  <2>. QED
    BY <2>2, <2>3, <2>4
<1>11. FieldsRunInOrder'
  BY <1>0, <1>10 DEF FieldsRunInOrder, Waiting, Failed, Give
<1>. QED
  BY <1>7, <1>9, <1>11

\* So a field keeps the invariant.
LEMMA GivesKeeps ==
    ASSUME IInv, NEW c \in Clients, NEW i \in DOMAIN result[c],
           NEW r \in Result, NEW h \in Hold, Gives(c, i, r, h),
           Reads(c, i, r) \/ Writes(c, i, r)
    PROVE  IInv'
BY GivesTypes, GivesFields, GivesReads, GivesEffects DEF IInv

-----------------------------------------------------------------------------
(* The actions.                                                            *)

\* The invariant holds at the start.
LEMMA InitIInv == Init => IInv
<1>. SUFFICES ASSUME Init PROVE IInv
  OBVIOUS
<1>1. TypeInv
  <2>1. /\ <<[title |-> Given, done |-> FALSE], [title |-> Given, done |-> TRUE]>> \in Seq(Obj)
    <3>1. PICK a \in Obj, b \in Obj : a = [title |-> Given, done |-> FALSE]
                                      /\ b = [title |-> Given, done |-> TRUE]
      BY TitlesAssumption DEF Obj
    <3>. QED
      BY <3>1
  <2>2. /\ object \in Seq(Obj) /\ Len(object) = 2 /\ next = 3 /\ live = {1, 2}
    BY <2>1 DEF Init, New
  <2>3. ask \in [Clients -> Ask]
    <3>1. [via |-> "query", token |-> FALSE, json |-> TRUE, fields |-> << >>] \in Ask
      <4>1. << >> \in Seq(Field)
        OBVIOUS
      <4>. QED
        BY <4>1 DEF Ask
    <3>. QED
      BY <3>1 DEF Init
  <2>4. \A c \in Clients : ask[c].fields = << >> /\ result[c] = << >> /\ held[c] = << >>
    BY DEF Init
  <2>5. result \in [Clients -> Seq(Result)] /\ held \in [Clients -> Seq(Hold)]
    BY DEF Init
  <2>. QED
    BY <2>2, <2>3, <2>4, <2>5 DEF Init, TypeInv, Ids
<1>2. RequestInv
  BY DEF Init, RequestInv, Possible
<1>3. \A c \in Clients : DOMAIN result[c] = {} /\ wrote[c] = {} /\ reply[c] = "none"
  BY DEF Init
<1>4. FieldInv /\ DeletedInv /\ ReadsInv /\ HoldInv /\ EffectsAreExplained /\ FieldsRunInOrder
  BY <1>3 DEF FieldInv, DeletedInv, ReadsInv, HoldInv, EffectsAreExplained, FieldsRunInOrder
<1>5. WindowInv
  BY FS_EmptySet DEF Init, WindowInv
<1>6. LockInv
  BY DEF Init, New, LockInv
<1>. QED
  BY <1>1, <1>2, <1>4, <1>5, <1>6 DEF IInv

\* Who is between two writes.
LEMMA LockOwner ==
    ASSUME IInv, NEW c \in Clients, NEW i \in DOMAIN result[c], lock # Free, lock.by = <<c, i>>
    PROVE  /\ lock = Between(c, i) /\ Do(c, i).op = "update" /\ Do(c, i).id \in live
           /\ MayRun(c, i) /\ Authorized(c)
<1>1. PICK d, j :
         /\ d \in Clients /\ j \in DOMAIN result[d]
         /\ lock = Between(d, j) /\ Do(d, j).op = "update" /\ Do(d, j).id \in live
         /\ MayRun(d, j) /\ Authorized(d)
  BY DEF IInv, LockInv
<1>2. d = c /\ j = i
  BY <1>1 DEF Between
<1>. QED
  BY <1>1, <1>2

\* A field that fails.
LEMMA FailStep ==
    ASSUME IInv, NEW c \in Clients, NEW i \in DOMAIN result[c], MayRun(c, i), Fail(c, i),
           Do(c, i).op \in Changing, ~Authorized(c) \/ lock = Free,
           UNCHANGED <<project, pc, ask, held, reply>>
    PROVE  IInv'
<1>. USE DEF IInv
<1>1. Failed \in Result /\ Failed.kind = "error"
  BY DEF Failed, Give, Result, Kinds
<1>2. PICK r \in Result : r = Failed
  BY <1>1
<1>3. PICK h \in Hold : h = held[c][i]
  BY FieldFacts
<1>4. result' = [result EXCEPT ![c][i] = r] /\ UNCHANGED <<storeVars, window, wrote>>
  BY <1>2 DEF Fail, Finish, ReadOnly
<1>5. result' \in [Clients -> Seq(Result)] /\ Sets(result', result, c, i, r)
  BY <1>2, FinishSets DEF Fail
<1>6. held' \in [Clients -> Seq(Hold)] /\ Sets(held', held, c, i, h)
  BY <1>3, SetsNone DEF TypeInv
<1>7. h = NotHeld
  BY <1>3 DEF FieldInv, MayRun, Waiting, Give
<1>8. StoreMoves
  BY <1>4, StandsStill
<1>11. lock' = Free \/ (lock' = lock /\ lock.by # <<c, i>> /\ live \subseteq live')
  BY <1>4, LockOwner DEF storeVars
<1>9. Gives(c, i, r, h)
  BY <1>1, <1>2, <1>5, <1>6, <1>7, <1>8, <1>11
     DEF Gives, MayRun, KindsOf, ReadOK, NotHeld
<1>10. Reads(c, i, r)
  BY <1>1, <1>2, <1>4 DEF Reads
<1>. QED
  BY <1>9, <1>10, GivesKeeps

\* A field that has changed the store and gives the task it was about.
LEMMA ChangeStep ==
    ASSUME IInv, NEW c \in Clients, NEW i \in DOMAIN result[c], MayRun(c, i), Authorized(c),
           Do(c, i).op \in Changing, StoreMoves, Observe,
           NEW r \in Result, r.kind \in {"task", "true"}, Finish(c, i, r), Wrote(c, i),
           r.kind = "task" => \E id \in live' : r.shown = {Shown(id, object'[id])},
           Do(c, i).op \in {"update", "delete"} => Do(c, i).id \in live,
           Do(c, i).op = "delete" => Do(c, i).id \in Ids' \ live', lock' = Free,
           UNCHANGED <<project, pc, ask, held, reply>>
    PROVE  IInv'
<1>. USE DEF IInv
<1>1. PICK h \in Hold : h = held[c][i]
  BY FieldFacts
<1>2. result' \in [Clients -> Seq(Result)] /\ Sets(result', result, c, i, r)
  BY FinishSets
<1>3. held' \in [Clients -> Seq(Hold)] /\ Sets(held', held, c, i, h)
  BY <1>1, SetsNone DEF TypeInv
<1>4. h = NotHeld
  BY <1>1 DEF FieldInv, MayRun, Waiting, Give
<1>5. Contents' \in window'[c]
  BY DEF StoreMoves, MayRun
<1>6. ReadOK(window'[c], project, Do(c, i).id, r)
  <2>1. ASSUME r.kind = "task"
        PROVE  \A t \in r.shown : t.id \in DOMAIN Contents' /\ t = Shown(t.id, Contents'[t.id])
    <3>1. \A id \in live' : id # 0
      BY DEF StoreMoves, Ids
    <3>2. Contents' = [id \in live' |-> object'[id]]
      BY <3>1 DEF Contents, Free
    <3>. QED
      BY <2>1, <3>2 DEF Shown
  <2>. QED
    BY <1>5, <2>1 DEF ReadOK
<1>7. Gives(c, i, r, h)
  BY <1>2, <1>3, <1>4, <1>6 DEF Gives, MayRun, KindsOf, NotHeld
<1>8. Writes(c, i, r)
  BY DEF Writes, Wrote
<1>. QED
  BY <1>7, <1>8, GivesKeeps

\* What a field shows of a task.
LEMMA GiveType ==
    ASSUME NEW id \in Nat, NEW t \in [title : Titles \union {Torn}, done : BOOLEAN]
    PROVE  /\ Shown(id, t) \in ShownTask /\ Shown(id, t).id = id
           /\ Shown(id, t).title = t.title /\ Shown(id, t).done = t.done
BY DEF Shown, ShownTask

\* The result of a change is one the field can give.
LEMMA TaskGiven ==
    ASSUME NEW id \in Nat, NEW t \in Obj, NEW r, r = Give("task", {Shown(id, t)})
    PROVE  r \in Result /\ r.kind = "task" /\ r.shown = {Shown(id, t)}
<1>1. Shown(id, t) \in ShownTask
  BY GiveType DEF Obj
<1>. QED
  BY <1>1 DEF Give, Result, Kinds

\* createTask and POST.
LEMMA CreateStep ==
    ASSUME IInv, NEW c \in Clients, NEW i \in DOMAIN result[c], CreateTask(c, i)
    PROVE  IInv'
<1>. USE DEF IInv
<1>1. Do(c, i).op = "create" /\ MayRun(c, i) /\ UNCHANGED <<project, pc, ask, held, reply>>
  BY DEF CreateTask
<1>2. CASE Authorized(c) /\ lock = Free /\ Create(Do(c, i).title) /\ Wrote(c, i)
           /\ Finish(c, i, Give("task", {Shown(next, object'[next])}))
  <2>1. Do(c, i).title \in Titles
    BY <1>1, OpFacts DEF MayRun
  <2>2. Observe
    BY <1>2 DEF Wrote
  <2>3. /\ StoreMoves /\ next \in live' /\ next \in Nat
        /\ object'[next] = [title |-> Do(c, i).title, done |-> FALSE]
    BY <1>2, <2>1, <2>2, CreateMoves DEF TypeInv
  <2>4. object'[next] \in Obj
    BY <2>1, <2>3 DEF Obj
  <2>5. PICK r : r = Give("task", {Shown(next, object'[next])})
    OBVIOUS
  <2>6. r \in Result /\ r.kind = "task" /\ r.shown = {Shown(next, object'[next])}
    BY <2>3, <2>4, <2>5, TaskGiven
  <2>7. Finish(c, i, r)
    BY <1>2, <2>5
  <2>8. lock' = Free
    BY <1>2 DEF Create
  <2>. QED
    BY <1>1, <1>2, <2>2, <2>3, <2>6, <2>7, <2>8, ChangeStep DEF Changing
<1>3. CASE ~Authorized(c) /\ Fail(c, i)
  BY <1>1, <1>3, FailStep DEF Changing
<1>. QED
  BY <1>2, <1>3 DEF CreateTask

\* updateTask and PATCH: the title is written.
LEMMA UpdateStep ==
    ASSUME IInv, NEW c \in Clients, NEW i \in DOMAIN result[c], UpdateTask(c, i)
    PROVE  IInv'
<1>. USE DEF IInv
<1>. DEFINE f == Do(c, i)
<1>1. f.op = "update" /\ MayRun(c, i) /\ UNCHANGED <<project, pc, ask, held, reply>>
  BY DEF UpdateTask
<1>2. CASE /\ Authorized(c) /\ lock = Free /\ WriteTitle(<<c, i>>, f) /\ Observe
           /\ UNCHANGED <<result, wrote>>
  <2>1. f \in Field
    BY FieldFacts
  <2>2. /\ StoreMoves /\ live' = live /\ next' = next /\ f.id \in live
        /\ lock' = [by |-> <<c, i>>, id |-> f.id, done |-> f.done]
    BY <1>2, <2>1, TitleMoves
  <2>3. \A d \in Clients : \A j : Do(d, j)' = Do(d, j)
    BY <1>1 DEF Do
  <2>4. TypeInv' /\ RequestInv' /\ FieldInv' /\ DeletedInv' /\ WindowInv'
    <3>1. TypeInv'
      BY <1>1, <1>2, <2>2 DEF TypeInv, StoreMoves, Ids
    <3>2. RequestInv' /\ FieldInv' /\ DeletedInv'
      BY <1>1, <1>2, <2>2, <2>3 DEF RequestInv, FieldInv, DeletedInv, Ids
    <3>3. WindowInv'
      BY <1>1, <2>2 DEF StoreMoves, WindowInv
    <3>. QED
      BY <3>1, <3>2, <3>3
  <2>5. LockInv'
    <3>1. lock' = Between(c, i)' /\ i \in DOMAIN result'[c]
      BY <1>2, <2>2, <2>3 DEF Between
    <3>2. MayRun(c, i)' /\ Authorized(c)'
      BY <1>1, <1>2 DEF MayRun, Authorized, Waiting, Give
    <3>. QED
      BY <1>1, <2>2, <2>3, <3>1, <3>2 DEF LockInv
  <2>6. ReadsInv'
    <3>. SUFFICES ASSUME NEW d \in Clients, NEW j \in DOMAIN result[d]
         PROVE  ReadOK(window'[d], project, Do(d, j).id, result[d][j])
      BY <1>1, <1>2, <2>3 DEF ReadsInv
    <3>1. window[d] \subseteq window'[d] /\ IsFiniteSet(window'[d])
      BY <2>2 DEF StoreMoves
    <3>. QED
      BY <3>1, ReadGrows DEF ReadsInv
  <2>7. HoldInv'
    <3>. SUFFICES ASSUME NEW d \in Clients, NEW j \in DOMAIN result[d],
                         result[d][j].kind = "reading"
         PROVE  HoldOK(window'[d], object', result[d][j], held[d][j])
      BY <1>1, <1>2 DEF HoldInv
    <3>1. pc[d] = "run" /\ HoldOK(window[d], object, result[d][j], held[d][j])
      BY DEF FieldInv, HoldInv
    <3>. QED
      BY <2>2, <3>1, HoldMoves
  <2>8. EffectsAreExplained' /\ FieldsRunInOrder'
    <3>1. \A d \in Clients : Errors(d)' = Errors(d)
      BY <1>2 DEF Errors
    <3>. QED
      BY <1>1, <1>2, <2>3, <3>1 DEF EffectsAreExplained, FieldsRunInOrder
  <2>. QED
    BY <2>4, <2>5, <2>6, <2>7, <2>8
<1>3. CASE (~Authorized(c) \/ lock = Free) /\ Fail(c, i)
  BY <1>1, <1>3, FailStep DEF Changing
<1>. QED
  BY <1>2, <1>3 DEF UpdateTask

\* Done is written, and the field gives the task.
LEMMA RestStep ==
    ASSUME IInv, NEW c \in Clients, NEW i \in DOMAIN result[c], UpdateRest(c, i)
    PROVE  IInv'
<1>. USE DEF IInv
<1>. DEFINE f == Do(c, i)
<1>1. /\ lock.by = <<c, i>> /\ WriteDone /\ Wrote(c, i) /\ Observe
      /\ Finish(c, i, Give("task", {Shown(lock.id, object'[lock.id])}))
      /\ UNCHANGED <<project, pc, ask, held, reply>>
  BY DEF UpdateRest, Wrote
<1>2. lock # Free
  BY <1>1 DEF Free
<1>3. /\ lock = Between(c, i) /\ f.op = "update" /\ f.id \in live
      /\ MayRun(c, i) /\ Authorized(c) /\ lock.id = f.id /\ lock.done = f.done
  BY <1>1, <1>2, LockOwner DEF Between
<1>4. f \in Field /\ f.id \in Nat
  BY FieldFacts DEF Field
<1>5. StoreMoves /\ live' = live /\ lock' = Free /\ object'[f.id] \in Obj
  BY <1>1, <1>3, <1>4, DoneMoves
<1>6. PICK r : r = Give("task", {Shown(f.id, object'[f.id])})
  OBVIOUS
<1>7. r \in Result /\ r.kind = "task" /\ r.shown = {Shown(f.id, object'[f.id])}
  BY <1>4, <1>5, <1>6, TaskGiven
<1>8. Finish(c, i, r)
  BY <1>1, <1>3, <1>6
<1>. QED
  BY <1>1, <1>3, <1>5, <1>7, <1>8, ChangeStep DEF Changing

\* deleteTask and DELETE.
LEMMA DeleteStep ==
    ASSUME IInv, NEW c \in Clients, NEW i \in DOMAIN result[c], DeleteTask(c, i)
    PROVE  IInv'
<1>. USE DEF IInv
<1>. DEFINE f == Do(c, i)
<1>1. f.op = "delete" /\ MayRun(c, i) /\ UNCHANGED <<project, pc, ask, held, reply>>
  BY DEF DeleteTask
<1>2. CASE Authorized(c) /\ lock = Free /\ Delete(f.id) /\ Wrote(c, i)
           /\ Finish(c, i, Give("true", {}))
  <2>1. Observe
    BY <1>2 DEF Wrote
  <2>2. StoreMoves /\ f.id \in Ids \ live' /\ f.id \in live /\ Ids \subseteq Ids' /\ lock' = Free
    BY <1>2, <2>1, DeleteMoves DEF StoreMoves
  <2>3. PICK r \in Result : r = Give("true", {}) /\ r.kind = "true"
    <3>1. Give("true", {}) \in Result /\ Give("true", {}).kind = "true"
      BY DEF Give, Result, Kinds
    <3>. QED
      BY <3>1
  <2>4. Finish(c, i, r)
    BY <1>2, <2>3
  <2>. QED
    BY <1>1, <1>2, <2>1, <2>2, <2>3, <2>4, ChangeStep DEF Changing
<1>3. CASE (~Authorized(c) \/ lock = Free) /\ Fail(c, i)
  BY <1>1, <1>3, FailStep DEF Changing
<1>. QED
  BY <1>2, <1>3 DEF DeleteTask

\* A field that only reads and is finished with it.
LEMMA ReadStep ==
    ASSUME IInv, NEW c \in Clients, NEW i \in DOMAIN result[c], NEW r \in Result,
           MayRun(c, i) \/ (result[c][i].kind = "reading" /\ pc[c] = "run"),
           Finish(c, i, r), ReadOnly, held[c][i] = NotHeld,
           r.kind \in KindsOf(Do(c, i).op) \ {"waiting", "reading", "error"},
           Do(c, i).op \notin Changing,
           ReadOK(window[c], project, Do(c, i).id, r),
           UNCHANGED <<project, pc, ask, held, reply>>
    PROVE  IInv'
<1>. USE DEF IInv
<1>1. PICK h \in Hold : h = held[c][i]
  BY FieldFacts
<1>2. result' \in [Clients -> Seq(Result)] /\ Sets(result', result, c, i, r)
  BY FinishSets
<1>3. held' \in [Clients -> Seq(Hold)] /\ Sets(held', held, c, i, h)
  BY <1>1, SetsNone DEF TypeInv
<1>4. UNCHANGED <<storeVars, window>> /\ wrote' = wrote /\ window' = window
  BY DEF ReadOnly
<1>5. StoreMoves
  BY <1>4, StandsStill
<1>6. Gives(c, i, r, h)
  <2>1. ReadOK(window'[c], project, Do(c, i).id, r)
    BY <1>4
  <2>2. h = NotHeld /\ h.left \subseteq Ids /\ h.at \in Ids \union {0}
    BY <1>1 DEF NotHeld
  <2>3. pc[c] = "run" /\ (result[c][i].kind = "reading" \/ MayRun(c, i))
    BY DEF MayRun
  <2>5. lock' = Free \/ (lock' = lock /\ lock.by # <<c, i>> /\ live \subseteq live')
    BY LockOwner DEF ReadOnly, storeVars, Changing
  <2>. QED
    BY <1>2, <1>3, <1>5, <2>1, <2>2, <2>3, <2>5 DEF Gives
<1>7. Reads(c, i, r)
  BY <1>4 DEF Reads
<1>. QED
  BY <1>6, <1>7, GivesKeeps

\* task(id) and GET of one task.
LEMMA TaskByIdStep ==
    ASSUME IInv, NEW c \in Clients, NEW i \in DOMAIN result[c], TaskById(c, i)
    PROVE  IInv'
<1>. USE DEF IInv
<1>. DEFINE id == Do(c, i).id
<1>1. /\ Do(c, i).op = "task" /\ MayRun(c, i) /\ ReadOnly
      /\ UNCHANGED <<project, pc, ask, held, reply>>
      /\ pc[c] = "run" /\ Contents \in window[c]
      /\ Contents = [j \in live |-> object[j]]
  BY ContentsFree DEF TaskById, MayRun, WindowInv
<1>2. held[c][i] = NotHeld
  BY <1>1 DEF FieldInv, MayRun, Waiting, Give
<1>3. CASE id \in live /\ Finish(c, i, Give("task", Get(id)))
  <2>1. object[id] \in Obj /\ id \in Nat
    <3>1. object \in Seq(Obj) /\ id \in 1 .. Len(object)
      BY <1>3 DEF TypeInv, Ids
    <3>. QED
      BY <3>1, ElementOfSeq
  <2>2. PICK r : r = Give("task", {Shown(id, object[id])})
    OBVIOUS
  <2>3. r \in Result /\ r.kind = "task" /\ r.shown = {Shown(id, object[id])}
    BY <2>1, <2>2, TaskGiven
  <2>4. \A t \in r.shown : t.id \in DOMAIN Contents /\ t = Shown(t.id, Contents[t.id])
    BY <1>1, <1>3, <2>3 DEF Shown
  <2>5. ReadOK(window[c], project, id, r)
    BY <1>1, <2>3, <2>4 DEF ReadOK
  <2>6. Finish(c, i, r)
    BY <1>3, <2>2 DEF Get
  <2>. QED
    BY <1>1, <1>2, <2>3, <2>5, <2>6, ReadStep DEF KindsOf, Changing
<1>4. CASE id \notin live /\ Finish(c, i, Give("null", {}))
  <2>1. PICK r \in Result : r = Give("null", {}) /\ r.kind = "null"
    <3>1. Give("null", {}) \in Result /\ Give("null", {}).kind = "null"
      BY DEF Give, Result, Kinds
    <3>. QED
      BY <3>1
  <2>2. ReadOK(window[c], project, id, r)
    BY <1>1, <1>4, <2>1 DEF ReadOK
  <2>3. Finish(c, i, r)
    BY <1>4, <2>1
  <2>. QED
    BY <1>1, <1>2, <2>1, <2>2, <2>3, ReadStep DEF KindsOf, Changing
<1>. QED
  BY <1>3, <1>4 DEF TaskById

\* One step of reading a list.
LEMMA ReadingStep ==
    ASSUME IInv, NEW c \in Clients, NEW i \in DOMAIN result[c], NEW r \in Result, NEW h \in Hold,
           MayRun(c, i) \/ (result[c][i].kind = "reading" /\ pc[c] = "run"),
           result' \in [Clients -> Seq(Result)], Sets(result', result, c, i, r),
           held' = [held EXCEPT ![c][i] = h], ReadOnly,
           r.kind = "reading", project = "pz11", Do(c, i).op \notin Changing \union {"task"},
           HoldOK(window[c], object, r, h), h.left \subseteq Ids, h.at \in Ids \union {0},
           UNCHANGED <<project, pc, ask, reply>>
    PROVE  IInv'
<1>. USE DEF IInv
<1>1. held' \in [Clients -> Seq(Hold)] /\ Sets(held', held, c, i, h)
  BY HeldSets
<1>2. UNCHANGED <<storeVars, window>> /\ wrote' = wrote /\ window' = window /\ object' = object
  BY DEF ReadOnly, storeVars
<1>3. StoreMoves
  BY <1>2, StandsStill
<1>4. Gives(c, i, r, h)
  <2>1. HoldOK(window'[c], object', r, h)
    BY <1>2
  <2>2. ReadOK(window'[c], project, Do(c, i).id, r)
    BY DEF ReadOK
  <2>3. pc[c] = "run" /\ (result[c][i].kind = "reading" \/ MayRun(c, i))
    BY DEF MayRun
  <2>5. lock' = Free \/ (lock' = lock /\ lock.by # <<c, i>> /\ live \subseteq live')
    BY LockOwner DEF ReadOnly, storeVars, Changing
  <2>4. r.kind \in KindsOf(Do(c, i).op) \ {"waiting"}
    BY DEF KindsOf
  <2>. QED
    BY <1>1, <1>3, <2>1, <2>2, <2>3, <2>4, <2>5 DEF Gives
<1>5. Reads(c, i, r)
  BY <1>2 DEF Reads
<1>. QED
  BY <1>4, <1>5, GivesKeeps

\* tasks and GET of the list.
LEMMA TasksStep ==
    ASSUME IInv, NEW c \in Clients, NEW i \in DOMAIN result[c], Tasks(c, i)
    PROVE  IInv'
<1>. USE DEF IInv
<1>1. /\ Do(c, i).op = "tasks" /\ MayRun(c, i) /\ ReadOnly
      /\ UNCHANGED <<project, pc, ask, reply>>
      /\ pc[c] = "run" /\ Contents \in window[c]
      /\ Contents = [j \in live |-> object[j]]
  BY ContentsFree DEF Tasks, MayRun, WindowInv
<1>2. held[c][i] = NotHeld
  BY <1>1 DEF FieldInv, MayRun, Waiting, Give
<1>3. live \subseteq Ids /\ live \subseteq Nat /\ \A id \in live : object[id] \in Obj
  <2>1. live \subseteq 1 .. Len(object) /\ object \in Seq(Obj) /\ Len(object) \in Nat
    BY DEF TypeInv, Ids
  <2>. QED
    BY <2>1, ElementOfSeq DEF TypeInv
<1>4. CASE project = "pz12" /\ Finish(c, i, Give("list", List)) /\ UNCHANGED held
  <2>1. PICK r : r = Give("list", List)
    OBVIOUS
  <2>2. List \subseteq ShownTask
    BY <1>3, GiveType DEF List, Obj
  <2>3. r \in Result /\ r.kind = "list" /\ r.shown = List
    BY <2>1, <2>2 DEF Give, Result, Kinds
  <2>4. r.shown = {Shown(j, Contents[j]) : j \in DOMAIN Contents}
    BY <1>1, <2>3 DEF List
  <2>5. {t.id : t \in r.shown} = DOMAIN Contents
    <3>1. \A j : Shown(j, object[j]).id = j
      BY DEF Shown
    <3>2. \A t \in List : t.id \in live
      BY <3>1 DEF List
    <3>3. \A j \in live : \E t \in List : t.id = j
      BY <3>1 DEF List
    <3>. QED
      BY <1>1, <2>3, <3>2, <3>3
  <2>6. ASSUME NEW t \in r.shown
        PROVE  ItemOK(window[c], t)
    <3>1. PICK j \in live : t = Shown(j, object[j])
      BY <2>3 DEF List
    <3>2. t.id = j /\ t.title = object[j].title /\ t.done = object[j].done
      BY <3>1 DEF Shown
    <3>3. j \in DOMAIN Contents /\ Contents[j] = object[j]
      BY <1>1
    <3>4. t.title \in TitlesIn(window[c], t.id)
      BY <1>1, <3>2, <3>3 DEF TitlesIn
    <3>. QED
      BY <1>1, <3>2, <3>3, <3>4 DEF ItemOK
  <2>7. ReadOK(window[c], project, Do(c, i).id, r)
    BY <1>1, <2>3, <2>4, <2>5, <2>6 DEF ReadOK
  <2>8. Finish(c, i, r)
    BY <1>4, <2>1
  <2>. QED
    BY <1>1, <1>2, <1>4, <2>3, <2>7, <2>8, ReadStep DEF KindsOf, Changing
<1>5. CASE /\ project = "pz11" /\ Finish(c, i, Give("reading", {}))
           /\ held' = [held EXCEPT ![c][i].left = live]
  <2>1. PICK r \in Result : r = Give("reading", {}) /\ r.kind = "reading" /\ r.shown = {}
    <3>1. /\ Give("reading", {}) \in Result
          /\ Give("reading", {}).kind = "reading" /\ Give("reading", {}).shown = {}
      BY DEF Give, Result, Kinds
    <3>. QED
      BY <3>1
  <2>2. PICK h : h = [held[c][i] EXCEPT !.left = live]
    OBVIOUS
  <2>3. h = [at |-> 0, title |-> Nil, left |-> live]
    BY <1>2, <2>2 DEF NotHeld
  <2>4. h \in Hold
    BY <1>3, <2>3 DEF Hold
  <2>5. held' = [held EXCEPT ![c][i] = h]
    BY <1>5, <2>2
  <2>6. result' \in [Clients -> Seq(Result)] /\ Sets(result', result, c, i, r)
    BY <1>5, <2>1, FinishSets
  <2>7. HoldOK(window[c], object, r, h)
    <3>1. ToRead(h) = live
      BY <2>3 DEF ToRead
    <3>2. {t.id : t \in r.shown} \union ToRead(h) = DOMAIN Contents
      BY <1>1, <2>1, <3>1
    <3>3. \A id \in ToRead(h) : id \in DOMAIN Contents /\ Contents[id] = object[id]
      BY <1>1, <3>1
    <3>. QED
      BY <1>1, <2>1, <2>3, <3>2, <3>3 DEF HoldOK
  <2>. QED
    BY <1>1, <1>3, <1>5, <2>1, <2>3, <2>4, <2>5, <2>6, <2>7, ReadingStep DEF Changing
<1>. QED
  BY <1>4, <1>5 DEF Tasks, TypeInv

\* A field that has tasks to read is reading its list.
LEMMA BeingRead ==
    ASSUME IInv, NEW c \in Clients, NEW i \in DOMAIN result[c], held[c][i] # NotHeld
    PROVE  /\ result[c][i].kind = "reading" /\ pc[c] = "run" /\ project = "pz11"
           /\ Do(c, i).op \notin Changing \union {"task"}
           /\ HoldOK(window[c], object, result[c][i], held[c][i])
           /\ ToRead(held[c][i]) \subseteq Ids /\ 0 \notin Ids /\ Ids \subseteq Nat
           /\ \A id \in Ids : object[id] \in Obj
<1>. USE DEF IInv
<1>1. result[c][i].kind = "reading" /\ result[c][i].kind \in KindsOf(Do(c, i).op)
  BY DEF FieldInv
<1>2. Do(c, i).op \notin Changing \union {"task"}
  BY <1>1 DEF KindsOf
<1>3. HoldOK(window[c], object, result[c][i], held[c][i]) /\ pc[c] = "run" /\ project = "pz11"
  BY <1>1 DEF HoldInv, FieldInv
<1>4. ToRead(held[c][i]) \subseteq Ids
  BY FieldFacts DEF TypeInv, ToRead
<1>5. object \in Seq(Obj) /\ Ids = 1 .. Len(object)
  BY DEF TypeInv, Ids
<1>. QED
  BY <1>1, <1>2, <1>3, <1>4, <1>5, ElementOfSeq

\* toModelTask reads a title.
LEMMA TitleStep ==
    ASSUME IInv, NEW c \in Clients, NEW i \in DOMAIN result[c], ReadTitle(c, i)
    PROVE  IInv'
<1>. USE DEF IInv
<1>. DEFINE old == held[c][i]
<1>1. PICK id \in old.left :
         /\ old.at = 0
         /\ held' = [held EXCEPT ![c][i] =
                       [at |-> id, title |-> object[id].title, left |-> old.left \ {id}]]
         /\ ReadOnly /\ UNCHANGED <<project, pc, ask, result, reply>>
  BY DEF ReadTitle
<1>2. old # NotHeld
  BY <1>1 DEF NotHeld
<1>3. PICK h : h = [at |-> id, title |-> object[id].title, left |-> old.left \ {id}]
  OBVIOUS
<1>4. ToRead(old) = old.left /\ old.left \subseteq Ids
  BY <1>1, <1>2, BeingRead DEF ToRead
<1>5. id \in Ids /\ id # 0 /\ object[id].title \in Titles /\ id \in Nat /\ old.left \subseteq Nat
  BY <1>2, <1>4, BeingRead DEF Obj
<1>6. h \in Hold /\ h.at = id /\ h.title = object[id].title /\ h.left = old.left \ {id}
  BY <1>3, <1>5 DEF Hold
<1>7. ToRead(h) = ToRead(old)
  BY <1>4, <1>5, <1>6 DEF ToRead
<1>8. PICK r \in Result : r = result[c][i]
  BY FieldFacts
<1>9. HoldOK(window[c], object, r, h)
  <2>1. HoldOK(window[c], object, r, old)
    BY <1>2, <1>8, BeingRead
  <2>2. object[id].title \in TitlesIn(window[c], id)
    BY <1>4, <2>1 DEF HoldOK, TitlesIn
  <2>. QED
    BY <1>5, <1>6, <1>7, <2>1, <2>2 DEF HoldOK
<1>10. result' \in [Clients -> Seq(Result)] /\ Sets(result', result, c, i, r)
  BY <1>1, <1>8, SetsNone DEF TypeInv
<1>11. held' = [held EXCEPT ![c][i] = h]
  BY <1>1, <1>3
<1>12. /\ r.kind = "reading" /\ result[c][i].kind = "reading" /\ pc[c] = "run"
       /\ project = "pz11" /\ Do(c, i).op \notin Changing \union {"task"}
  BY <1>2, <1>8, BeingRead
<1>13. h.left \subseteq Ids /\ h.at \in Ids \union {0}
  BY <1>4, <1>5, <1>6
<1>. QED
  BY <1>1, <1>6, <1>9, <1>10, <1>11, <1>12, <1>13, ReadingStep

\* Two titles are more than one.
LEMMA TwoTitles ==
    ASSUME NEW S, IsFiniteSet(S), NEW a \in S, NEW b \in S, a # b
    PROVE  Cardinality(S) > 1
<1>1. IsFiniteSet({a}) /\ Cardinality({a}) = 1
  BY FS_Singleton
<1>2. IsFiniteSet({a} \union {b}) /\ Cardinality({a} \union {b}) = 2
  <2>1. b \notin {a}
    OBVIOUS
  <2>2. /\ IsFiniteSet({a} \union {b})
        /\ Cardinality({a} \union {b}) = IF b \in {a} THEN Cardinality({a}) ELSE Cardinality({a}) + 1
    BY <1>1, FS_AddElement
  <2>. QED
    BY <1>1, <2>1, <2>2
<1>3. Cardinality({a} \union {b}) <= Cardinality(S) /\ Cardinality(S) \in Nat
  BY FS_Subset, FS_CardinalityType
<1>. QED
  BY <1>2, <1>3

\* It reads the length of the title and done.
LEMMA DoneStep ==
    ASSUME IInv, NEW c \in Clients, NEW i \in DOMAIN result[c], ReadDone(c, i)
    PROVE  IInv'
<1>. USE DEF IInv
<1>. DEFINE old == held[c][i]
            id == old.at
            W == window[c]
            shown == result[c][i].shown
<1>1. PICK title \in {old.title} \union (IF object[id].title # old.title THEN {Torn} ELSE {}) :
         Finish(c, i, Give("reading",
                  shown \union {Shown(id, [title |-> title, done |-> object[id].done])}))
  BY DEF ReadDone
<1>2. /\ id # 0 /\ held' = [held EXCEPT ![c][i] = [old EXCEPT !.at = 0, !.title = Nil]]
      /\ ReadOnly /\ UNCHANGED <<project, pc, ask, reply>>
  BY DEF ReadDone
<1>3. old # NotHeld
  BY <1>2 DEF NotHeld
<1>4. /\ id \in Ids /\ id \in Nat /\ object[id] \in Obj /\ HoldOK(W, object, result[c][i], old)
      /\ ToRead(old) \subseteq Ids /\ ToRead(old) = old.left \union {id} /\ IsFiniteSet(W)
      /\ old \in Hold /\ result[c][i] \in Result
  BY <1>2, <1>3, BeingRead, FieldFacts DEF ToRead, WindowInv
\* What the title can be.
<1>5. /\ \E w \in W : id \in DOMAIN w /\ w[id].title = object[id].title
      /\ \E w \in W : id \in DOMAIN w /\ w[id].done = object[id].done
  BY <1>4 DEF HoldOK
<1>6. object[id].title \in TitlesIn(W, id) /\ old.title \in Titles \intersect TitlesIn(W, id)
  BY <1>2, <1>4, <1>5 DEF TitlesIn, HoldOK
<1>7. title = old.title \/ (title = Torn /\ Cardinality(TitlesIn(W, id)) > 1)
  <2>1. IsFiniteSet(TitlesIn(W, id))
    BY <1>4, TitlesGrow
  <2>. QED
    BY <1>1, <1>6, <2>1, TwoTitles
<1>8. PICK t : t = Shown(id, [title |-> title, done |-> object[id].done])
  OBVIOUS
<1>9. t \in ShownTask /\ t.id = id /\ t.title = title /\ t.done = object[id].done
  BY <1>4, <1>6, <1>7, <1>8 DEF Shown, ShownTask, Obj
<1>10. ItemOK(W, t)
  BY <1>5, <1>6, <1>7, <1>9 DEF ItemOK
\* What is left to read.
<1>11. PICK r : r = Give("reading", shown \union {t})
  OBVIOUS
<1>12. r \in Result /\ r.kind = "reading" /\ r.shown = shown \union {t}
  BY <1>4, <1>9, <1>11 DEF Give, Result, Kinds
<1>13. PICK h : h = [old EXCEPT !.at = 0, !.title = Nil]
  OBVIOUS
<1>14. h \in Hold /\ h.at = 0 /\ h.left = old.left /\ ToRead(h) = old.left
  BY <1>4, <1>13 DEF Hold, ToRead
<1>15. HoldOK(W, object, r, h)
  <2>1. {s.id : s \in r.shown} \union ToRead(h) = {s.id : s \in shown} \union ToRead(old)
    BY <1>4, <1>9, <1>12, <1>14
  <2>2. \E v \in W : {s.id : s \in r.shown} \union ToRead(h) = DOMAIN v
    BY <1>4, <2>1 DEF HoldOK
  <2>3. \A s \in r.shown : ItemOK(W, s)
    BY <1>4, <1>10, <1>12 DEF HoldOK
  <2>4. \A j \in ToRead(h) :
           /\ \E v \in W : j \in DOMAIN v /\ v[j].title = object[j].title
           /\ \E v \in W : j \in DOMAIN v /\ v[j].done = object[j].done
    BY <1>4, <1>14 DEF HoldOK
  <2>. QED
    BY <1>14, <2>2, <2>3, <2>4 DEF HoldOK
<1>16. result' \in [Clients -> Seq(Result)] /\ Sets(result', result, c, i, r)
  BY <1>1, <1>8, <1>11, <1>12, FinishSets
<1>17. held' = [held EXCEPT ![c][i] = h] /\ h.left \subseteq Ids
  BY <1>2, <1>4, <1>13, <1>14
<1>. QED
  BY <1>2, <1>3, <1>12, <1>14, <1>15, <1>16, <1>17, BeingRead, ReadingStep

\* The list is complete.
LEMMA EndStep ==
    ASSUME IInv, NEW c \in Clients, NEW i \in DOMAIN result[c], EndList(c, i)
    PROVE  IInv'
<1>. USE DEF IInv
<1>1. /\ result[c][i].kind = "reading" /\ held[c][i] = NotHeld
      /\ Finish(c, i, Give("list", result[c][i].shown))
      /\ ReadOnly /\ UNCHANGED <<project, pc, ask, held, reply>>
  BY DEF EndList
<1>2. pc[c] = "run" /\ project = "pz11" /\ "reading" \in KindsOf(Do(c, i).op)
  BY <1>1 DEF FieldInv
<1>3. Do(c, i).op \notin Changing \union {"task"}
  BY <1>2 DEF KindsOf
<1>4. PICK r : r = Give("list", result[c][i].shown)
  OBVIOUS
<1>5. r \in Result /\ r.kind = "list" /\ r.shown = result[c][i].shown
  BY <1>4, FieldFacts DEF Give, Result, Kinds
<1>6. HoldOK(window[c], object, result[c][i], NotHeld)
  BY <1>1 DEF HoldInv
<1>7. ToRead(NotHeld) = {}
  BY DEF ToRead, NotHeld
<1>8. ReadOK(window[c], project, Do(c, i).id, r)
  BY <1>2, <1>5, <1>6, <1>7 DEF ReadOK, HoldOK
<1>9. r.kind \in KindsOf(Do(c, i).op) \ {"waiting", "reading", "error"}
  BY <1>3, <1>5 DEF KindsOf
<1>10. Finish(c, i, r)
  BY <1>1, <1>4
<1>. QED
  BY <1>1, <1>2, <1>3, <1>5, <1>8, <1>9, <1>10, ReadStep

\* A request begins: none of its fields has run.
LEMMA BeginStep ==
    ASSUME IInv, NEW c \in Clients, Begin(c)
    PROVE  IInv'
<1>. USE DEF IInv
<1>1. PICK a \in Asks :
         /\ a.via = "rest" => project = "pz12"
         /\ ask' = [ask EXCEPT ![c] = a]
         /\ result' = [result EXCEPT ![c] = [i \in DOMAIN a.fields |-> Waiting]]
         /\ held' = [held EXCEPT ![c] = [i \in DOMAIN a.fields |-> NotHeld]]
         /\ window' = [window EXCEPT ![c] = {Contents}]
         /\ \/ /\ pc' = [pc EXCEPT ![c] = "done"]
               /\ reply' = [reply EXCEPT ![c] = "400"]
            \/ /\ ~(a.via = "rest" /\ Bad(a))
               /\ pc' = [pc EXCEPT ![c] = "run"]
               /\ reply' = reply
  BY DEF Begin
<1>2. /\ pc[c] = "new" /\ UNCHANGED <<project, storeVars, wrote>>
      /\ UNCHANGED <<project, object, live, next, lock, wrote>> /\ Contents' = Contents
  BY DEF Begin, storeVars, Contents
<1>3. a \in Ask /\ Possible(a) /\ a.fields \in Seq(Field)
  BY AsksAssumption DEF Ask
<1>4. reply[c] = "none" /\ wrote[c] = {}
  BY <1>2 DEF RequestInv, TypeInv
<1>5. Waiting \in Result /\ Waiting.kind = "waiting" /\ NotHeld \in Hold
  BY DEF Waiting, Give, Result, Kinds, NotHeld, Hold
<1>6. DOMAIN a.fields = 1 .. Len(a.fields) /\ Len(a.fields) \in Nat
  BY <1>3
<1>7. /\ [i \in DOMAIN a.fields |-> Waiting] \in Seq(Result)
      /\ [i \in DOMAIN a.fields |-> NotHeld] \in Seq(Hold)
  BY <1>5, <1>6
\* What has changed, and what has not.
<1>8. /\ ask'[c] = a /\ window'[c] = {Contents}
      /\ DOMAIN result'[c] = DOMAIN a.fields /\ DOMAIN held'[c] = DOMAIN a.fields
      /\ \A i \in DOMAIN a.fields : result'[c][i] = Waiting /\ held'[c][i] = NotHeld
      /\ \/ pc'[c] = "done" /\ reply'[c] = "400"
         \/ pc'[c] = "run" /\ reply'[c] = "none" /\ ~(a.via = "rest" /\ Bad(a))
  BY <1>1, <1>4 DEF TypeInv
<1>9. \A d \in Clients \ {c} :
         /\ ask'[d] = ask[d] /\ result'[d] = result[d] /\ held'[d] = held[d]
         /\ window'[d] = window[d] /\ pc'[d] = pc[d] /\ reply'[d] = reply[d]
  BY <1>1 DEF TypeInv
<1>10. TypeInv'
  <2>1. /\ ask' \in [Clients -> Ask] /\ result' \in [Clients -> Seq(Result)]
        /\ held' \in [Clients -> Seq(Hold)] /\ DOMAIN window' = Clients
        /\ pc' \in [Clients -> {"new", "run", "done"}]
        /\ reply' \in [Clients -> {"none", "data", "null", "200", "201", "400", "404"}]
    BY <1>1, <1>3, <1>7 DEF TypeInv
  <2>2. \A d \in Clients :
          /\ DOMAIN result'[d] = DOMAIN ask'[d].fields
          /\ DOMAIN held'[d] = DOMAIN result'[d]
          /\ wrote'[d] \subseteq DOMAIN result'[d]
          /\ \A i \in DOMAIN held'[d] : held'[d][i].left \subseteq Ids /\ held'[d][i].at \in Ids \union {0}
    <3>1. NotHeld.left = {} /\ NotHeld.at = 0
      BY DEF NotHeld
    <3>2. \A i \in DOMAIN held'[c] : held'[c][i] = NotHeld
      BY <1>8
    <3>3. \A d \in Clients \ {c} :
             /\ DOMAIN result'[d] = DOMAIN ask'[d].fields
             /\ DOMAIN held'[d] = DOMAIN result'[d]
             /\ wrote'[d] \subseteq DOMAIN result'[d]
             /\ \A i \in DOMAIN held'[d] : held'[d][i].left \subseteq Ids /\ held'[d][i].at \in Ids \union {0}
      BY <1>2, <1>9 DEF TypeInv
    <3>4. DOMAIN result'[c] = DOMAIN ask'[c].fields /\ DOMAIN held'[c] = DOMAIN result'[c]
      BY <1>8
    <3>5. wrote'[c] \subseteq DOMAIN result'[c]
      BY <1>2, <1>4
    <3>. QED
      BY <3>1, <3>2, <3>3, <3>4, <3>5
  <2>. QED
    BY <1>2, <2>1, <2>2 DEF TypeInv, Ids
<1>11. RequestInv'
  <2>. SUFFICES ASSUME NEW d \in Clients
       PROVE  /\ Possible(ask'[d])
              /\ ask'[d].via = "rest" => project' = "pz12"
              /\ ask'[d].via = "rest" /\ pc'[d] = "run" => ~Bad(ask'[d])
              /\ pc'[d] = "new" => DOMAIN result'[d] = {}
              /\ pc'[d] = "done" <=> reply'[d] # "none"
    BY DEF RequestInv
  <2>1. CASE d = c
    BY <1>1, <1>2, <1>3, <1>8, <2>1
  <2>2. CASE d # c
    BY <1>2, <1>9, <2>2 DEF RequestInv
  <2>. QED
    BY <2>1, <2>2
<1>12. FieldInv'
  <2>. SUFFICES ASSUME NEW d \in Clients, NEW i \in DOMAIN result'[d]
       PROVE  /\ result'[d][i].kind \in KindsOf(ask'[d].fields[i].op)
              /\ result'[d][i].kind = "waiting" => result'[d][i] = Waiting
              /\ result'[d][i].kind = "error" => result'[d][i] = Failed
              /\ result'[d][i].kind = "reading" => pc'[d] = "run" /\ project' = "pz11"
              /\ result'[d][i].kind # "reading" => held'[d][i] = NotHeld
              /\ ask'[d].via = "mutation" /\ result'[d][i] = Waiting =>
                    \A j \in DOMAIN result'[d] : i < j => result'[d][j] = Waiting
    BY DEF FieldInv, Do
  <2>1. CASE d = c
    BY <1>5, <1>8, <2>1 DEF KindsOf
  <2>2. CASE d # c
    BY <1>2, <1>9, <2>2 DEF FieldInv, Do
  <2>. QED
    BY <2>1, <2>2
<1>13. DeletedInv'
  BY <1>2, <1>4, <1>9 DEF DeletedInv, Do, Ids
<1>14. WindowInv'
  BY <1>2, <1>8, <1>9, FS_Singleton DEF WindowInv
<1>15. ReadsInv'
  <2>. SUFFICES ASSUME NEW d \in Clients, NEW i \in DOMAIN result'[d]
       PROVE  ReadOK(window'[d], project', ask'[d].fields[i].id, result'[d][i])
    BY DEF ReadsInv, Do
  <2>1. CASE d = c
    BY <1>5, <1>8, <2>1 DEF ReadOK
  <2>2. CASE d # c
    BY <1>2, <1>9, <2>2 DEF ReadsInv, Do
  <2>. QED
    BY <2>1, <2>2
<1>16. HoldInv'
  <2>. SUFFICES ASSUME NEW d \in Clients, NEW i \in DOMAIN result'[d], result'[d][i].kind = "reading"
       PROVE  HoldOK(window'[d], object', result'[d][i], held'[d][i])
    BY DEF HoldInv
  <2>1. d # c
    BY <1>5, <1>8
  <2>. QED
    BY <1>2, <1>9, <2>1 DEF HoldInv
<1>17. EffectsAreExplained'
  <2>. SUFFICES ASSUME NEW d \in Clients
       PROVE  /\ \A i \in DOMAIN result'[d] :
                    ask'[d].fields[i].op \in {"create", "update", "delete"} =>
                       (i \in wrote'[d] <=> result'[d][i].kind \in {"task", "true"})
              /\ reply'[d] = "null" => Errors(d)' # {}
              /\ reply'[d] = "data" => Errors(d)' = {}
              /\ reply'[d] \in {"400", "404"} => wrote'[d] = {}
              /\ project' = "pz11" /\ wrote'[d] # {} => ask'[d].token
    BY DEF EffectsAreExplained, Do
  <2>1. CASE d = c
    BY <1>2, <1>4, <1>5, <1>8, <2>1
  <2>2. CASE d # c
    <3>1. Errors(d)' = Errors(d)
      BY <1>9, <2>2 DEF Errors
    <3>. QED
      BY <1>2, <1>9, <2>2, <3>1 DEF EffectsAreExplained, Do
  <2>. QED
    BY <2>1, <2>2
<1>18. FieldsRunInOrder'
  BY <1>2, <1>4, <1>9 DEF FieldsRunInOrder, Do
<1>19. LockInv'
  <2>. SUFFICES ASSUME lock # Free PROVE LockInv'
    BY <1>2 DEF LockInv
  <2>1. PICK d, j :
           /\ d \in Clients /\ j \in DOMAIN result[d]
           /\ lock = Between(d, j) /\ Do(d, j).op = "update" /\ Do(d, j).id \in live
           /\ MayRun(d, j) /\ Authorized(d)
    BY DEF LockInv
  <2>2. d # c
    BY <1>2, <2>1 DEF MayRun
  <2>3. /\ Do(d, j)' = Do(d, j) /\ Between(d, j)' = Between(d, j)
        /\ MayRun(d, j)' /\ Authorized(d)'
    BY <1>2, <1>9, <2>1, <2>2 DEF Do, Between, MayRun, Authorized, Waiting, Give
  <2>. QED
    BY <1>2, <1>9, <2>1, <2>2, <2>3 DEF LockInv
<1>. QED
  BY <1>10, <1>11, <1>12, <1>13, <1>14, <1>15, <1>16, <1>17, <1>18, <1>19

\* A request is answered: each of its fields has run.
LEMMA AnswerStep ==
    ASSUME IInv, NEW c \in Clients, Answer(c)
    PROVE  IInv'
<1>. USE DEF IInv
<1>1. /\ pc[c] = "run"
      /\ \A i \in DOMAIN result[c] : result[c][i].kind \notin {"waiting", "reading"}
      /\ pc' = [pc EXCEPT ![c] = "done"]
      /\ reply' = [reply EXCEPT ![c] =
                     IF ask[c].via = "rest" THEN StatusOf(c) ELSE DataOf(c)]
      /\ UNCHANGED <<project, storeVars, ask, result, held, window, wrote>>
      /\ UNCHANGED <<object, live, next, lock>>
  BY DEF Answer, storeVars
<1>2. /\ StatusOf(c) \in {"200", "201", "404"} /\ DataOf(c) \in {"data", "null"}
      /\ DataOf(c) = "null" <=> Errors(c) # {}
  BY DEF StatusOf, DataOf
<1>3. /\ pc'[c] = "done" /\ reply'[c] = IF ask[c].via = "rest" THEN StatusOf(c) ELSE DataOf(c)
      /\ \A d \in Clients \ {c} : pc'[d] = pc[d] /\ reply'[d] = reply[d]
  BY <1>1 DEF TypeInv
<1>4. TypeInv'
  BY <1>1, <1>2 DEF TypeInv, Ids
<1>5. RequestInv'
  BY <1>1, <1>2, <1>3 DEF RequestInv
<1>6. FieldInv'
  BY <1>1, <1>3 DEF FieldInv, Do
<1>7. DeletedInv' /\ ReadsInv' /\ HoldInv' /\ FieldsRunInOrder'
  BY <1>1 DEF DeletedInv, ReadsInv, HoldInv, FieldsRunInOrder, Do, Ids
<1>8. WindowInv'
  BY <1>1, <1>3 DEF WindowInv, Contents
<1>9. EffectsAreExplained'
  <2>1. \A d \in Clients : Errors(d)' = Errors(d)
    BY <1>1 DEF Errors
  <2>2. reply'[c] = "404" => wrote[c] = {}
    <3>. SUFFICES ASSUME reply'[c] = "404", NEW i \in wrote[c] PROVE FALSE
      OBVIOUS
    <3>1. ask[c].via = "rest" /\ StatusOf(c) = "404"
      BY <1>2, <1>3
    <3>2. i \in DOMAIN result[c] /\ Do(c, i).op \in Changing
      BY DEF TypeInv, DeletedInv
    <3>3. i = 1
      BY <3>1, <3>2, OpFacts
    <3>4. result[c][1].kind \in {"error", "null"}
      BY <3>1 DEF StatusOf
    <3>. QED
      BY <3>2, <3>3, <3>4 DEF EffectsAreExplained, Changing
  <2>. QED
    BY <1>1, <1>2, <1>3, <2>1, <2>2 DEF EffectsAreExplained, Do
<1>10. LockInv'
  <2>. SUFFICES ASSUME lock # Free PROVE LockInv'
    BY <1>1 DEF LockInv
  <2>1. PICK d, j :
           /\ d \in Clients /\ j \in DOMAIN result[d]
           /\ lock = Between(d, j) /\ Do(d, j).op = "update" /\ Do(d, j).id \in live
           /\ MayRun(d, j) /\ Authorized(d)
    BY DEF LockInv
  <2>2. d # c
    BY <1>1, <2>1 DEF MayRun, Waiting, Give
  <2>3. /\ Do(d, j)' = Do(d, j) /\ Between(d, j)' = Between(d, j)
        /\ MayRun(d, j)' /\ Authorized(d)'
    BY <1>1, <1>3, <2>1, <2>2 DEF Do, Between, MayRun, Authorized, Waiting, Give
  <2>. QED
    BY <1>1, <2>1, <2>3 DEF LockInv
<1>. QED
  BY <1>4, <1>5, <1>6, <1>7, <1>8, <1>9, <1>10

\* Steps that change nothing.
LEMMA StutterStep == IInv /\ UNCHANGED vars => IInv'
<1>. SUFFICES ASSUME IInv, UNCHANGED vars PROVE IInv'
  OBVIOUS
<1>1. /\ UNCHANGED <<project, object, live, next, lock, pc, ask, result, held, reply, window, wrote>>
      /\ Contents' = Contents /\ Ids' = Ids /\ \A d \in Clients : Errors(d)' = Errors(d)
  BY DEF vars, storeVars, Contents, Ids, Errors
<1>2. TypeInv' /\ RequestInv' /\ FieldInv' /\ DeletedInv' /\ WindowInv'
  BY <1>1 DEF IInv, TypeInv, RequestInv, FieldInv, DeletedInv, WindowInv, Do
<1>4. LockInv'
  <2>1. \A d, j : /\ Do(d, j)' = Do(d, j) /\ Between(d, j)' = Between(d, j)
                  /\ MayRun(d, j)' = MayRun(d, j) /\ Authorized(d)' = Authorized(d)
    BY <1>1 DEF Do, Between, MayRun, Authorized, Waiting, Give
  <2>. QED
    BY <1>1, <2>1 DEF IInv, LockInv
<1>3. ReadsInv' /\ HoldInv' /\ EffectsAreExplained' /\ FieldsRunInOrder'
  BY <1>1 DEF IInv, ReadsInv, HoldInv, EffectsAreExplained, FieldsRunInOrder, Do
<1>. QED
  BY <1>2, <1>3, <1>4 DEF IInv

\* The invariant is inductive,
LEMMA NextIInv == IInv /\ [Next]_vars => IInv'
<1>. SUFFICES ASSUME IInv, [Next]_vars PROVE IInv'
  OBVIOUS
<1>1. ASSUME NEW c \in Clients, Begin(c) PROVE IInv'
  BY <1>1, BeginStep
<1>2. ASSUME NEW c \in Clients, NEW i \in DOMAIN result[c], FieldStep(c, i) PROVE IInv'
  BY <1>2, CreateStep, UpdateStep, RestStep, DeleteStep, TaskByIdStep, TasksStep,
     TitleStep, DoneStep, EndStep DEF FieldStep
<1>3. ASSUME NEW c \in Clients, Answer(c) PROVE IInv'
  BY <1>3, AnswerStep
<1>4. CASE UNCHANGED vars
  BY <1>4, StutterStep
<1>. QED
  BY <1>1, <1>2, <1>3, <1>4 DEF Next

\* so it always holds.
LEMMA SpecIInv == Spec => []IInv
<1>. QED
  BY InitIInv, NextIInv, PTL DEF Spec

-----------------------------------------------------------------------------
(* The theorems.                                                           *)

\* Every variable has its type.
THEOREM TypeCorrect == Spec => []TypeOK
<1>1. IInv => TypeOK
  <2>. SUFFICES ASSUME IInv PROVE TypeOK
    OBVIOUS
  <2>1. object \in [Ids -> Obj]
    <3>1. object \in [1 .. Len(object) -> Obj]
      BY SeqDef DEF IInv, TypeInv
    <3>. QED
      BY <3>1 DEF IInv, TypeInv, Ids
  <2>2. lock = Free \/ (lock.id \in live /\ lock.done \in BOOLEAN \union {Nil})
    BY FieldFacts DEF IInv, LockInv, Between, Field
  <2>. QED
    BY <2>1, <2>2 DEF IInv, TypeInv, TypeOK, Obj
<1>. QED
  BY <1>1, SpecIInv, PTL

\* What a field showed was in the store during the request: a task and the list
\* of pz12 at one moment, the list of pz11 title by title and done by done.
THEOREM ReadsAreTrue == Spec => []ReadsAreExplained
<1>1. IInv => ReadsAreExplained
  <2>1. \A c, id : TitlesSince(c, id) = TitlesIn(window[c], id)
    BY DEF TitlesSince, TitlesIn
  <2>. SUFFICES ASSUME IInv, NEW c \in Clients, NEW i \in DOMAIN result[c]
       PROVE  LET r == result[c][i] IN
              /\ r.kind = "task" =>
                    \E w \in window[c] : \A t \in r.shown :
                        t.id \in DOMAIN w /\ t = Shown(t.id, w[t.id])
              /\ r.kind = "null" => \E w \in window[c] : Do(c, i).id \notin DOMAIN w
              /\ r.kind = "list" /\ project = "pz12" =>
                    \E w \in window[c] : r.shown = {Shown(id, w[id]) : id \in DOMAIN w}
              /\ r.kind = "list" =>
                    /\ \E w \in window[c] : {t.id : t \in r.shown} = DOMAIN w
                    /\ \A t \in r.shown :
                          /\ \/ t.title \in TitlesSince(c, t.id)
                             \/ t.title = Torn /\ Cardinality(TitlesSince(c, t.id)) > 1
                          /\ \E w \in window[c] :
                                t.id \in DOMAIN w /\ w[t.id].done = t.done
    BY Zenon DEF ReadsAreExplained
  <2>. DEFINE r == result[c][i]
  <2>2. ReadOK(window[c], project, Do(c, i).id, r)
    BY DEF IInv, ReadsInv
  <2>3. \A t \in r.shown : ItemOK(window[c], t) =>
           /\ \/ t.title \in TitlesSince(c, t.id)
              \/ t.title = Torn /\ Cardinality(TitlesSince(c, t.id)) > 1
           /\ \E w \in window[c] : t.id \in DOMAIN w /\ w[t.id].done = t.done
    BY <2>1 DEF ItemOK
  <2>. QED
    BY <2>2, <2>3 DEF ReadOK
<1>. QED
  BY <1>1, SpecIInv, PTL

\* A field changed the store exactly when it gave no error, whatever became of
\* the data of its request; in pz11 with the token only.
THEOREM EffectsAreTold == Spec => []EffectsAreExplained
<1>1. IInv => EffectsAreExplained
  BY DEF IInv
<1>. QED
  BY <1>1, SpecIInv, PTL

\* A later field of a mutation sees what an earlier one deleted.
THEOREM FieldsInOrder == Spec => []FieldsRunInOrder
<1>1. IInv => FieldsRunInOrder
  BY DEF IInv
<1>. QED
  BY <1>1, SpecIInv, PTL

\* A step that leaves the objects alone takes at most one task off the list.
LEMMA QuietStore ==
    ASSUME object' = object, live' = live, next' = next
    PROVE  StoreStep
<1>1. {id \in live : id \notin live' \/ object'[id] # object[id]} = {}
  OBVIOUS
<1>2. Cardinality({}) <= 1
  BY FS_EmptySet
<1>3. \A id \in Ids \ live : id \notin live' /\ object'[id] = object[id]
  OBVIOUS
<1>. QED
  BY <1>1, <1>2, <1>3 DEF StoreStep

\* At most one task is touched when all the others are left alone.
LEMMA OneTask ==
    ASSUME NEW S, NEW a, \A x \in S : x = a
    PROVE  Cardinality(S) <= 1
<1>1. S = {} \/ S = {a}
  OBVIOUS
<1>2. Cardinality({}) <= 1
  BY FS_EmptySet
<1>3. Cardinality({a}) <= 1
  <2>1. Cardinality({a}) = 1
    BY FS_Singleton
  <2>. QED
    BY <2>1
<1>. QED
  BY <1>1, <1>2, <1>3

\* A step of the store changes at most one task; a deleted task neither comes
\* back nor changes, a title gives way only to the one its Update was asked for,
\* and until done is written too nothing else in the store moves.
THEOREM StoreMovesOneTask == Spec => StoreSteps
<1>1. IInv /\ [Next]_vars => [StoreStep]_vars
  <2>. SUFFICES ASSUME IInv, [Next]_vars PROVE [StoreStep]_vars
    OBVIOUS
  <2>0. TypeInv /\ RequestInv /\ WindowInv
    BY DEF IInv
  <2>1. ASSUME NEW c \in Clients, NEW i \in DOMAIN result[c], CreateTask(c, i) PROVE StoreStep
    <3>1. CASE lock = Free /\ Create(Do(c, i).title) /\ Observe
      <4>1. Do(c, i).title \in Titles
        BY <2>0, <2>1, OpFacts DEF CreateTask, MayRun
      <4>2. StoreMoves /\ live \subseteq live' /\ \A id \in Ids : object'[id] = object[id]
        BY <2>0, <3>1, <4>1, CreateMoves DEF Create
      <4>3. {id \in live : id \notin live' \/ object'[id] # object[id]} = {}
        BY <2>0, <4>2 DEF TypeInv
      <4>4. Cardinality({}) <= 1
        BY FS_EmptySet
      <4>. QED
        BY <3>1, <4>2, <4>3, <4>4 DEF StoreStep, StoreMoves
    <3>2. CASE ReadOnly
      BY <3>2, QuietStore DEF ReadOnly, storeVars
    <3>. QED
      BY <2>1, <3>1, <3>2 DEF CreateTask, Wrote, Fail
  <2>2. ASSUME NEW c \in Clients, NEW i \in DOMAIN result[c], UpdateTask(c, i) PROVE StoreStep
    <3>. DEFINE f == Do(c, i)
    <3>1. CASE Authorized(c) /\ lock = Free /\ WriteTitle(<<c, i>>, f) /\ Observe
      <4>1. f \in Field /\ c \in Running /\ f.op = "update"
        BY <2>0, <2>2, FieldFacts DEF UpdateTask, MayRun, Running
      <4>2. /\ StoreMoves /\ f.id \in live /\ live' = live
            /\ lock' = [by |-> <<c, i>>, id |-> f.id, done |-> f.done]
            /\ object'[f.id].title \in {object[f.id].title, f.title}
            /\ \A id \in Ids \ {f.id} : object'[id] = object[id]
        BY <2>0, <3>1, <4>1, TitleMoves
      <4>3. \A id \in {x \in live : x \notin live' \/ object'[x] # object[x]} : id = f.id
        BY <2>0, <4>2 DEF TypeInv
      <4>4. Cardinality({x \in live : x \notin live' \/ object'[x] # object[x]}) <= 1
        BY <4>3, OneTask
      <4>5. ASSUME NEW id \in Ids, object'[id].title # object[id].title
            PROVE  f.id = id /\ f.title = object'[id].title
        BY <4>2, <4>5
      <4>6. lock'.by = <<c, i>>
        BY <4>2
      <4>7. \A id \in Ids \ live : id \notin live' /\ object'[id] = object[id]
        BY <4>2 DEF StoreMoves
      <4>. QED
        BY <3>1, <4>1, <4>4, <4>5, <4>6, <4>7 DEF StoreStep
    <3>2. CASE ReadOnly
      BY <3>2, QuietStore DEF ReadOnly, storeVars
    <3>. QED
      BY <2>2, <3>1, <3>2 DEF UpdateTask, Fail
  <2>3. ASSUME NEW c \in Clients, NEW i \in DOMAIN result[c], UpdateRest(c, i) PROVE StoreStep
    <3>. DEFINE f == Do(c, i)
    <3>1. lock.by = <<c, i>> /\ WriteDone /\ Observe
      BY <2>3 DEF UpdateRest, Wrote
    <3>2. f.id \in live /\ lock.id = f.id /\ lock.done = f.done
      <4>1. lock # Free
        BY <3>1 DEF Free
      <4>. QED
        BY <3>1, <4>1, LockOwner DEF Between
    <3>3. f \in Field
      BY <2>0, FieldFacts
    <3>4. /\ StoreMoves /\ live' = live /\ next' = next
          /\ object'[f.id] = Changed(object[f.id], Nil, lock.done)
          /\ object'[f.id].title = object[f.id].title
          /\ \A id \in Ids \ {f.id} : object'[id] = object[id]
      BY <2>0, <3>1, <3>2, <3>3, DoneMoves
    <3>5. \A id \in {x \in live : x \notin live' \/ object'[x] # object[x]} : id = f.id
      BY <2>0, <3>4 DEF TypeInv
    <3>6. Cardinality({x \in live : x \notin live' \/ object'[x] # object[x]}) <= 1
      BY <3>5, OneTask
    <3>7. \A id \in Ids \ live : id \notin live' /\ object'[id] = object[id]
      BY <3>4 DEF StoreMoves
    <3>8. \A id \in Ids : object'[id].title = object[id].title
      BY <3>4
    <3>9. \A id \in Ids :
             object'[id] \in {object[id]} \union
                 (IF id = lock.id THEN {Changed(object[id], Nil, lock.done)} ELSE {})
      BY <3>2, <3>4
    <3>. QED
      BY <3>4, <3>6, <3>7, <3>8, <3>9 DEF StoreStep
  <2>4. ASSUME NEW c \in Clients, NEW i \in DOMAIN result[c], DeleteTask(c, i) PROVE StoreStep
    <3>. DEFINE f == Do(c, i)
    <3>1. CASE lock = Free /\ Delete(f.id) /\ Observe
      <4>1. StoreMoves /\ object' = object /\ live' = live \ {f.id}
        BY <2>0, <3>1, DeleteMoves DEF Delete
      <4>2. \A id \in {x \in live : x \notin live' \/ object'[x] # object[x]} : id = f.id
        BY <4>1
      <4>3. Cardinality({x \in live : x \notin live' \/ object'[x] # object[x]}) <= 1
        BY <4>2, OneTask
      <4>. QED
        BY <3>1, <4>1, <4>3 DEF StoreStep, StoreMoves
    <3>2. CASE ReadOnly
      BY <3>2, QuietStore DEF ReadOnly, storeVars
    <3>. QED
      BY <2>4, <3>1, <3>2 DEF DeleteTask, Wrote, Fail
  <2>5. ASSUME NEW c \in Clients, NEW i \in DOMAIN result[c],
               TaskById(c, i) \/ Tasks(c, i) \/ ReadTitle(c, i) \/ ReadDone(c, i) \/ EndList(c, i)
        PROVE  StoreStep
    <3>1. ReadOnly
      BY <2>5 DEF TaskById, Tasks, ReadTitle, ReadDone, EndList
    <3>. QED
      BY <3>1, QuietStore DEF ReadOnly, storeVars
  <2>6. ASSUME NEW c \in Clients, Begin(c) \/ Answer(c) PROVE StoreStep
    BY <2>6, QuietStore DEF Begin, Answer, storeVars
  <2>7. CASE UNCHANGED vars
    BY <2>7
  <2>. QED
    BY <2>1, <2>2, <2>3, <2>4, <2>5, <2>6, <2>7 DEF Next, FieldStep
<1>. QED
  BY <1>1, SpecIInv, PTL DEF Spec, StoreSteps
=============================================================================
