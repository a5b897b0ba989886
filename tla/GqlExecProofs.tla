--------------------------- MODULE GqlExecProofs ---------------------------
(***************************************************************************)
(* Proofs about GqlExec: nulls and errors are where they should be in the  *)
(* response to any valid operation, in whatever order resolvers end.       *)
(***************************************************************************)
EXTENDS GqlExec, WellFoundedInduction, TLAPS

-----------------------------------------------------------------------------
(* The inductive invariant.                                                *)

\* What a node has, by how far it is.
NodeInv ==
    \A n \in Nodes :
        /\ status[n] = "todo" => raw[n] = "none" /\ out[n] = "none" /\ errors[n] = 0
        /\ status[n] = "open" => raw[n] = "value" /\ out[n] = "none" /\ errors[n] = 0
        /\ status[n] = "done" => raw[n] # "none" /\ out[n] # "none"
        /\ status[Root] # "todo" /\ raw[Root] = "value"

\* A node is begun after its parent, and a parent is done after its children.
OrderInv ==
    \A n \in Nodes \ {Root} :
        /\ status[n] # "todo" => raw[tree[n].parent] = "value" /\ status[tree[n].parent] # "todo"
        /\ status[tree[n].parent] = "done" /\ raw[tree[n].parent] = "value" => status[n] = "done"

\* Where a null and an error come from.
OutInv ==
    \A n \in Nodes :
        /\ status[n] = "done" =>
              (out[n] = "null" <=>
                  \/ raw[n] \in {"nil", "error"}
                  \/ \E c \in Counted(n) : out[c] = "null")
        /\ (raw[n] = "error" \/ (raw[n] = "nil" /\ Required(tree, n))) <=> errors[n] > 0

IInv == TypeOK /\ NodeInv /\ OrderInv /\ OutInv

-----------------------------------------------------------------------------
(* The schema and the trees.                                               *)

\* Every executor counts the nulls of exactly the fields that have "!".
Counts(e) == \A f \in DOMAIN e.fields : f \in e.counted <=> e.fields[f].required

\* The executors of the schema.
LEMMA SchemaCounts ==
    ASSUME NEW type \in DOMAIN Executor
    PROVE  Counts(Executor[type])
<1>. USE DEF Counts, NonNull, Nullable, NonNullList, NullableList
<1>1. Counts(Mutation)
  BY DEF Mutation, Mutation_createTask, Mutation_updateTask, Mutation_deleteTask
<1>2. Counts(Query)
  BY DEF Query, Query_tasks, Query_task, Query___type, Query___schema
<1>3. Counts(Task)
  BY DEF Task, Task_id, Task_title, Task_description, Task_done
<1>4. Counts(Directive)
  BY DEF Directive, Directive_name, Directive_description, Directive_locations,
         Directive_args, Directive_isRepeatable
<1>5. Counts(EnumValue)
  BY DEF EnumValue, EnumValue_name, EnumValue_description, EnumValue_isDeprecated,
         EnumValue_deprecationReason
<1>6. Counts(FieldType)
  BY DEF FieldType, Field_name, Field_description, Field_args, Field_type,
         Field_isDeprecated, Field_deprecationReason
<1>7. Counts(InputValue)
  BY DEF InputValue, InputValue_name, InputValue_description, InputValue_type,
         InputValue_defaultValue
<1>8. Counts(Schema)
  BY DEF Schema, Schema_description, Schema_types, Schema_queryType,
         Schema_mutationType, Schema_subscriptionType, Schema_directives
<1>9. Counts(Type)
  BY DEF Type, Type_kind, Type_name, Type_description, Type_fields, Type_interfaces,
         Type_possibleTypes, Type_enumValues, Type_inputFields, Type_ofType,
         Type_specifiedByURL
<1>. HIDE DEF Counts
<1>10. type \in {"Mutation", "Query", "Task", "__Directive", "__EnumValue", "__Field",
                 "__InputValue", "__Schema", "__Type"}
  BY DEF Executor
<1>11. /\ Executor["Mutation"] = Mutation /\ Executor["Query"] = Query
       /\ Executor["Task"] = Task /\ Executor["__Directive"] = Directive
       /\ Executor["__EnumValue"] = EnumValue /\ Executor["__Field"] = FieldType
       /\ Executor["__InputValue"] = InputValue /\ Executor["__Schema"] = Schema
       /\ Executor["__Type"] = Type
  BY DEF Executor
<1>. QED
  BY <1>1, <1>2, <1>3, <1>4, <1>5, <1>6, <1>7, <1>8, <1>9, <1>10, <1>11

\* Parents come first.
LEMMA TreeFacts ==
    ASSUME tree \in Operations
    PROVE  /\ Root \in Nodes /\ Nodes \subseteq Nat \ {0}
           /\ \A n \in Nodes \ {Root} : tree[n].parent \in Nodes /\ tree[n].parent < n
           /\ \E N \in Nat : Nodes = 1 .. N
<1>1. IsTree(tree)
  BY OperationsAssumption
<1>2. Nodes = 1 .. Len(tree) /\ Len(tree) \in Nat \ {0} /\ Root = 1
  BY <1>1 DEF IsTree, Nodes, Root
<1>3. ASSUME NEW n \in Nodes \ {Root}
      PROVE  tree[n].parent \in Nodes /\ tree[n].parent < n
  <2>1. tree[n].parent \in 1 .. n - 1 /\ n \in 1 .. Len(tree)
    BY <1>1, <1>2 DEF IsTree, Nodes
  <2>. QED
    BY <1>2, <2>1
<1>. QED
  BY <1>2, <1>3

\* An object or a list counts the parts that have "!", and nothing else has parts.
LEMMA CountedParts ==
    ASSUME tree \in Operations, NEW n \in Nodes
    PROVE  /\ Counted(n) = {c \in Children(n) : Required(tree, c)}
           /\ Children(n) # {} => IsObject(tree, n) \/ IsList(tree, n)
<1>1. ASSUME NEW c \in Children(n)
      PROVE  /\ c \in Nodes \ {Root} /\ tree[c].parent = n
             /\ IF IsElement(tree, c) THEN IsList(tree, n)
                ELSE /\ IsObject(tree, n) /\ tree[c].on = TypeOf(tree, n)
                     /\ tree[c].on \in DOMAIN Executor
                     /\ tree[c].name \in DOMAIN Executor[tree[c].on].fields
  BY OperationsAssumption DEF IsValid, Children, Nodes
<1>2. ASSUME IsObject(tree, n), NEW c \in Children(n)
      PROVE  c \in Counted(n) <=> Required(tree, c)
  <2>1. ~IsElement(tree, c)
    BY <1>1, <1>2 DEF IsObject
  <2>2. Counts(Executor[tree[c].on])
    BY <1>1, <2>1, SchemaCounts
  <2>3. tree[c].name \in Executor[tree[c].on].counted
          <=> Executor[tree[c].on].fields[tree[c].name].required
    BY <1>1, <2>1, <2>2 DEF Counts
  <2>4. c \in Counted(n) <=> tree[c].name \in Executor[tree[c].on].counted
    BY <1>1, <1>2, <2>1 DEF Counted
  <2>5. Required(tree, c) <=> Executor[tree[c].on].fields[tree[c].name].required
    BY <1>1, <2>1 DEF Required, Function, OfField
  <2>. QED
    BY <2>3, <2>4, <2>5
<1>3. ASSUME ~IsObject(tree, n), NEW c \in Children(n)
      PROVE  c \in Counted(n) <=> Required(tree, c)
  <2>1. IsElement(tree, c)
    BY <1>1, <1>3
  <2>2. Required(tree, c)
    BY <1>1, <2>1 DEF Required, Function, NonNull
  <2>. QED
    BY <1>3, <2>2 DEF Counted
<1>4. Counted(n) \subseteq Children(n)
  BY DEF Counted
<1>. QED
  BY <1>1, <1>2, <1>3, <1>4

-----------------------------------------------------------------------------
(* The invariant is inductive.                                             *)

\* Exec calls the executor of the root.
LEMMA InitIInv == Init => IInv
<1>. SUFFICES ASSUME Init PROVE IInv
  OBVIOUS
<1>1. tree \in Operations
  BY DEF Init
<1>2. TypeOK /\ NodeInv
  BY <1>1, TreeFacts DEF Init, TypeOK, NodeInv
<1>3. OrderInv
  BY <1>1, TreeFacts DEF Init, OrderInv
<1>4. OutInv
  BY <1>1 DEF Init, OutInv
<1>. QED
  BY <1>2, <1>3, <1>4 DEF IInv

\* A node gets the result r; it is open from now on if it has parts to wait for.
LEMMA ResolveStep ==
    ASSUME IInv, NEW n \in Nodes, Resolve(n)
    PROVE  IInv'
<1>. USE DEF IInv
<1>1. PICK r \in Outcomes(n) :
         /\ raw' = [raw EXCEPT ![n] = r]
         /\ \/ /\ r = "value" /\ (IsObject(tree, n) \/ IsList(tree, n))
               /\ status' = [status EXCEPT ![n] = "open"]
               /\ UNCHANGED <<out, errors>>
            \/ /\ r # "value" \/ ~(IsObject(tree, n) \/ IsList(tree, n))
               /\ status' = [status EXCEPT ![n] = "done"]
               /\ out' = [out EXCEPT ![n] = IF r = "value" THEN "value" ELSE "null"]
               /\ errors' = [errors EXCEPT ![n] =
                    IF r = "error" \/ (r = "nil" /\ MustNotBeNull(n)) THEN errors[n] + 1
                    ELSE errors[n]]
  BY DEF Resolve
<1>2. /\ n # Root /\ tree' = tree /\ Nodes' = Nodes /\ tree \in Operations
      /\ status[n] = "todo" /\ status[tree[n].parent] = "open"
      /\ raw[n] = "none" /\ out[n] = "none" /\ errors[n] = 0
      /\ raw[tree[n].parent] = "value" /\ tree[n].parent \in Nodes \ {n}
  <2>1. n # Root /\ Ready(n) /\ tree' = tree /\ tree \in Operations
    BY DEF Resolve, TypeOK
  <2>2. tree[n].parent \in Nodes /\ tree[n].parent # n
    BY <2>1, TreeFacts
  <2>. QED
    BY <2>1, <2>2 DEF Ready, NodeInv, Nodes
<1>3. r \in {"value", "nil", "error"}
  BY DEF Outcomes
<1>4. ASSUME NEW m \in Nodes \ {n}
      PROVE  /\ raw'[m] = raw[m] /\ status'[m] = status[m]
             /\ out'[m] = out[m] /\ errors'[m] = errors[m]
  BY <1>1 DEF TypeOK
<1>5. /\ raw'[n] = r
      /\ \/ /\ r = "value" /\ status'[n] = "open" /\ out'[n] = "none" /\ errors'[n] = 0
         \/ /\ r = "value" /\ status'[n] = "done" /\ out'[n] = "value" /\ errors'[n] = 0
            /\ Children(n) = {}
         \/ /\ r # "value" /\ status'[n] = "done" /\ out'[n] = "null"
            /\ errors'[n] = IF r = "error" \/ Required(tree, n) THEN 1 ELSE 0
  BY <1>1, <1>2, <1>3, CountedParts DEF TypeOK, MustNotBeNull
<1>6. TypeOK'
  BY <1>1, <1>2, <1>3, <1>4, <1>5 DEF TypeOK, Nodes
<1>7. NodeInv'
  BY <1>2, <1>3, <1>4, <1>5, TreeFacts DEF NodeInv
<1>8. OrderInv'
  <2>. SUFFICES ASSUME NEW m \in Nodes \ {Root}
       PROVE  /\ status'[m] # "todo" =>
                    raw'[tree[m].parent] = "value" /\ status'[tree[m].parent] # "todo"
              /\ status'[tree[m].parent] = "done" /\ raw'[tree[m].parent] = "value"
                    => status'[m] = "done"
    BY <1>2 DEF OrderInv
  <2>1. tree[m].parent \in Nodes
    BY <1>2, TreeFacts
  <2>2. CASE m = n
    BY <1>2, <1>4, <2>2
  <2>3. CASE m # n /\ tree[m].parent = n
    <3>1. m \in Children(n)
      BY <2>3 DEF Children
    <3>2. status[m] = "todo"
      BY <1>2, <2>3 DEF OrderInv
    <3>. QED
      BY <1>4, <1>5, <2>3, <3>1, <3>2
  <2>4. CASE m # n /\ tree[m].parent # n
    BY <1>4, <2>1, <2>4 DEF OrderInv
  <2>. QED
    BY <2>2, <2>3, <2>4
<1>9. OutInv'
  <2>1. \A m \in Nodes : Counted(m)' = Counted(m) /\ Counted(m) \subseteq Children(m)
    BY <1>2, CountedParts DEF Counted, Children, Nodes
  <2>2. ASSUME NEW m \in Nodes, status'[m] = "done"
        PROVE  out'[m] = "null" <=>
                  raw'[m] \in {"nil", "error"} \/ \E c \in Counted(m) : out'[c] = "null"
    <3>1. CASE m = n
      <4>1. \A c \in Children(n) : c \in Nodes \ {n} /\ out[c] = "none"
        <5>1. \A c \in Children(n) : c \in Nodes \ {Root} /\ tree[c].parent = n
          BY DEF Children
        <5>2. \A c \in Children(n) : c # n /\ status[c] = "todo"
          BY <1>2, <5>1, TreeFacts DEF OrderInv
        <5>. QED
          BY <5>1, <5>2 DEF NodeInv
      <4>. QED
        BY <1>3, <1>4, <1>5, <2>1, <2>2, <3>1, <4>1
    <3>2. CASE m # n
      <4>1. raw[m] = "value" => n \notin Children(m)
        BY <1>2, <1>4, <2>2, <3>2 DEF Children
      <4>2. \A c \in Counted(m) : c \in Nodes
        BY <2>1 DEF Children
      <4>3. raw[m] \in {"value", "nil", "error"}
        BY <1>4, <2>2, <3>2 DEF NodeInv, TypeOK
      <4>4. CASE raw[m] = "value"
        <5>1. \A c \in Counted(m) : out'[c] = out[c]
          BY <1>4, <2>1, <4>1, <4>2, <4>4
        <5>. QED
          BY <1>4, <2>2, <3>2, <5>1 DEF OutInv
      <4>5. CASE raw[m] \in {"nil", "error"}
        BY <1>4, <2>2, <3>2, <4>5 DEF OutInv
      <4>. QED
        BY <4>3, <4>4, <4>5
    <3>. QED
      BY <3>1, <3>2
  <2>3. ASSUME NEW m \in Nodes
        PROVE  (raw'[m] = "error" \/ (raw'[m] = "nil" /\ Required(tree, m))) <=> errors'[m] > 0
    <3>1. CASE m = n
      BY <1>3, <1>5, <3>1
    <3>2. CASE m # n
      BY <1>4, <3>2 DEF OutInv
    <3>. QED
      BY <3>1, <3>2
  <2>. QED
    BY <1>2, <2>1, <2>2, <2>3 DEF OutInv
<1>. QED
  BY <1>6, <1>7, <1>8, <1>9

\* An object or a list has waited for its parts.
LEMMA CompleteStep ==
    ASSUME IInv, NEW n \in Nodes, Complete(n)
    PROVE  IInv'
<1>. USE DEF IInv
<1>1. /\ status[n] = "open" /\ \A c \in Children(n) : status[c] = "done"
      /\ status' = [status EXCEPT ![n] = "done"]
      /\ out' = [out EXCEPT ![n] =
                   IF \E c \in Counted(n) : out[c] = "null" THEN "null" ELSE "value"]
      /\ UNCHANGED <<tree, raw, errors>> /\ Nodes' = Nodes /\ tree \in Operations
      /\ raw[n] = "value"
  BY DEF Complete, AllDone, Nodes, TypeOK, NodeInv
<1>2. /\ status'[n] = "done"
      /\ out'[n] = IF \E c \in Counted(n) : out[c] = "null" THEN "null" ELSE "value"
      /\ \A m \in Nodes \ {n} : status'[m] = status[m] /\ out'[m] = out[m]
  BY <1>1 DEF TypeOK
<1>3. TypeOK' /\ NodeInv'
  BY <1>1, <1>2, TreeFacts DEF TypeOK, NodeInv, Nodes
<1>4. OrderInv'
  <2>. SUFFICES ASSUME NEW m \in Nodes \ {Root}
       PROVE  /\ status'[m] # "todo" =>
                    raw[tree[m].parent] = "value" /\ status'[tree[m].parent] # "todo"
              /\ status'[tree[m].parent] = "done" /\ raw[tree[m].parent] = "value"
                    => status'[m] = "done"
    BY <1>1 DEF OrderInv
  <2>1. tree[m].parent \in Nodes
    BY <1>1, TreeFacts
  <2>2. tree[m].parent = n => status[m] = "done"
    BY <1>1 DEF Children
  <2>. QED
    BY <1>1, <1>2, <2>1, <2>2 DEF OrderInv
<1>5. OutInv'
  <2>1. \A m \in Nodes : Counted(m)' = Counted(m) /\ Counted(m) \subseteq Children(m)
    BY <1>1, CountedParts DEF Counted, Children, Nodes
  <2>2. ASSUME NEW m \in Nodes, status'[m] = "done"
        PROVE  out'[m] = "null" <=>
                  raw[m] \in {"nil", "error"} \/ \E c \in Counted(m) : out'[c] = "null"
    <3>0. \A k \in Nodes : \A c \in Counted(k) : c \in Nodes \ {k, Root} /\ tree[c].parent = k
      BY <1>1, <2>1, TreeFacts DEF Children
    <3>1. CASE m = n
      BY <1>1, <1>2, <3>0, <3>1
    <3>2. CASE m # n
      <4>1. raw[m] = "value" => n \notin Counted(m)
        BY <1>1, <1>2, <2>2, <3>0, <3>2 DEF OrderInv
      <4>2. CASE raw[m] = "value"
        <5>1. \A c \in Counted(m) : out'[c] = out[c]
          BY <1>2, <3>0, <4>1, <4>2
        <5>. QED
          BY <1>2, <2>2, <3>2, <5>1 DEF OutInv
      <4>3. CASE raw[m] \in {"nil", "error"}
        BY <1>2, <2>2, <3>2, <4>3 DEF OutInv
      <4>4. raw[m] \in {"value", "nil", "error"}
        BY <1>2, <2>2, <3>2 DEF NodeInv, TypeOK
      <4>. QED
        BY <4>2, <4>3, <4>4
    <3>. QED
      BY <3>1, <3>2
  <2>. QED
    BY <1>1, <2>1, <2>2 DEF OutInv
<1>. QED
  BY <1>3, <1>4, <1>5

\* The invariant is kept by every step,
LEMMA NextIInv == IInv /\ [Next]_vars => IInv'
<1>. SUFFICES ASSUME IInv, [Next]_vars PROVE IInv'
  OBVIOUS
<1>1. CASE UNCHANGED vars
  <2>1. UNCHANGED <<tree, raw, status, out, errors>> /\ Nodes' = Nodes
        /\ \A n : Counted(n)' = Counted(n)
    BY <1>1 DEF vars, Nodes, Counted, Children
  <2>2. TypeOK' /\ NodeInv' /\ OrderInv'
    BY <2>1 DEF IInv, TypeOK, NodeInv, OrderInv
  <2>3. OutInv'
    BY <2>1 DEF IInv, OutInv
  <2>. QED
    BY <2>2, <2>3 DEF IInv
<1>2. ASSUME NEW n \in Nodes, Step(n) PROVE IInv'
  BY <1>2, ResolveStep, CompleteStep DEF Step
<1>. QED
  BY <1>1, <1>2 DEF Next, Responded

\* so it always holds.
LEMMA SpecIInv == Spec => []IInv
<1>. QED
  BY InitIInv, NextIInv, PTL DEF Spec

-----------------------------------------------------------------------------
(* Paths to the root.                                                      *)

\* A set of nodes that holds the parents of its nodes.
Closed(t, S) == \A x \in S \ {Root} : t[x].parent \in S

\* There is a function as AllAbove describes: the least closed sets.
LEMMA AboveExists ==
    ASSUME NEW t, Root \in DOMAIN t,
           \A n \in DOMAIN t \ {Root} : t[n].parent \in DOMAIN t
    PROVE  \E f : f = [n \in DOMAIN t |-> IF n = Root THEN {n} ELSE {n} \union f[t[n].parent]]
<1>. DEFINE D == DOMAIN t
            least(n) == {k \in D : \A S \in SUBSET D : n \in S /\ Closed(t, S) => k \in S}
            f == [n \in D |-> least(n)]
<1>1. least(Root) = {Root}
  <2>1. Root \in {Root} /\ Closed(t, {Root}) /\ {Root} \in SUBSET D
    BY DEF Closed
  <2>. QED
    BY <2>1
<1>2. ASSUME NEW n \in D \ {Root}
      PROVE  least(n) = {n} \union least(t[n].parent)
  <2>. DEFINE p == t[n].parent
  <2>1. n \in least(n)
    OBVIOUS
  <2>2. least(p) \subseteq least(n)
    BY DEF Closed
  <2>3. ASSUME NEW k \in least(n), k # n
        PROVE  k \in least(p)
    <3>. SUFFICES ASSUME NEW S \in SUBSET D, p \in S, Closed(t, S)
         PROVE  k \in S
      OBVIOUS
    <3>1. Closed(t, S \union {n}) /\ S \union {n} \in SUBSET D
      BY DEF Closed
    <3>. QED
      BY <2>3, <3>1
  <2>. HIDE DEF least
  <2>. QED
    BY <2>1, <2>2, <2>3
<1>. HIDE DEF least
<1>3. f = [n \in D |-> IF n = Root THEN {n} ELSE {n} \union f[t[n].parent]]
  BY <1>1, <1>2
<1>. QED
  BY <1>3

\* So AllAbove is one.
LEMMA AboveUnfolds ==
    ASSUME tree \in Operations
    PROVE  /\ Above(Root) = {Root}
           /\ \A n \in Nodes \ {Root} : Above(n) = {n} \union Above(tree[n].parent)
<1>. DEFINE Eq(f) == f = [n \in DOMAIN tree |->
                           IF n = Root THEN {n} ELSE {n} \union f[tree[n].parent]]
<1>1. \E f : Eq(f)
  BY TreeFacts, AboveExists DEF Nodes
<1>2. AllAbove(tree) = CHOOSE f : Eq(f)
  BY DEF AllAbove
<1>3. Eq(AllAbove(tree))
  BY <1>1, <1>2
<1>. QED
  BY <1>3, TreeFacts DEF Above, Nodes

\* A set of numbers has a least one.
LEMMA Least ==
    ASSUME NEW S \in SUBSET Nat, S # {}
    PROVE  \E x \in S : \A y \in S : x <= y
<1>. DEFINE R == OpToRel(<, Nat)
<1>1. IsWellFoundedOn(R, Nat)
  BY NatLessThanWellFounded
<1>. HIDE DEF R
<1>2. PICK x \in S : \A y \in S : ~(<<y, x>> \in R)
  BY <1>1, WFMin
<1>3. \A y \in S : y < x => <<y, x>> \in R
  BY DEF R, OpToRel
<1>4. x \in Nat /\ \A y \in S : y \in Nat
  OBVIOUS
<1>5. \A y \in S : ~(y < x)
  BY <1>2, <1>3
<1>6. ASSUME NEW y \in S PROVE x <= y
  BY <1>4, <1>5
<1>. QED
  BY <1>6

\* What holds of the root and passes from parents to their children holds of all
\* nodes.
LEMMA Downwards ==
    ASSUME tree \in Operations, NEW P, Root \in P,
           \A n \in Nodes \ {Root} : tree[n].parent \in P => n \in P
    PROVE  Nodes \subseteq P
<1>. DEFINE S == Nodes \ P
<1>1. SUFFICES ASSUME S # {} PROVE FALSE
  OBVIOUS
<1>2. S \in SUBSET Nat
  BY TreeFacts
<1>. HIDE DEF S
<1>3. PICK n \in S : \A y \in S : n <= y
  BY <1>1, <1>2, Least
<1>4. n \in Nodes \ {Root} /\ tree[n].parent \in Nodes /\ tree[n].parent < n /\ n \in Nat
  BY TreeFacts DEF S
<1>5. tree[n].parent \notin S
  BY <1>3, <1>4, TreeFacts
<1>. QED
  BY <1>4, <1>5 DEF S

\* What passes from the children of a node to the node holds of all nodes.
LEMMA Upwards ==
    ASSUME tree \in Operations, NEW P,
           \A n \in Nodes : (\A c \in Children(n) : c \in P) => n \in P
    PROVE  Nodes \subseteq P
<1>1. PICK N \in Nat : Nodes = 1 .. N
  BY TreeFacts
<1>. DEFINE S == {N - n : n \in Nodes \ P}
<1>2. SUFFICES ASSUME S # {} PROVE FALSE
  OBVIOUS
<1>3. S \in SUBSET Nat
  BY <1>1
<1>. HIDE DEF S
<1>4. PICK x \in S : \A y \in S : x <= y
  BY <1>2, <1>3, Least
<1>5. PICK n \in Nodes \ P : x = N - n
  BY DEF S
<1>6. ASSUME NEW c \in Children(n) PROVE c \in P
  <2>1. c \in Nodes /\ n < c
    BY TreeFacts DEF Children
  <2>2. N - c \notin S
    BY <1>1, <1>3, <1>4, <1>5, <2>1
  <2>. QED
    BY <2>1, <2>2 DEF S
<1>. QED
  BY <1>5, <1>6

\* A node is above itself, and nothing later is.
LEMMA AboveSelf ==
    ASSUME tree \in Operations, NEW n \in Nodes
    PROVE  n \in Above(n) /\ Above(n) \subseteq Nodes /\ \A k \in Above(n) : k <= n
<1>. DEFINE P == {m \in Nodes : Above(m) \subseteq Nodes /\ \A k \in Above(m) : k <= m}
<1>1. Root \in P
  BY AboveUnfolds, TreeFacts
<1>2. ASSUME NEW m \in Nodes \ {Root}, tree[m].parent \in P PROVE m \in P
  BY <1>2, AboveUnfolds, TreeFacts
<1>. HIDE DEF P
<1>3. Nodes \subseteq P
  BY <1>1, <1>2, Downwards
<1>4. n \in Above(n)
  BY AboveUnfolds
<1>. QED
  BY <1>3, <1>4 DEF P

\* What is above a node above m is above m,
LEMMA AboveTrans ==
    ASSUME tree \in Operations, NEW m \in Nodes, NEW c \in Above(m)
    PROVE  Above(c) \subseteq Above(m) /\ (c # Root => tree[c].parent \in Above(m))
<1>. DEFINE P == {x \in Nodes : \A k \in Above(x) : Above(k) \subseteq Above(x)}
<1>1. Root \in P
  BY AboveUnfolds, TreeFacts
<1>2. ASSUME NEW x \in Nodes \ {Root}, tree[x].parent \in P PROVE x \in P
  BY <1>2, AboveUnfolds, TreeFacts
<1>. HIDE DEF P
<1>3. Nodes \subseteq P
  BY <1>1, <1>2, Downwards
<1>4. Above(c) \subseteq Above(m) /\ c \in Nodes
  BY <1>3, AboveSelf DEF P
<1>5. c # Root => tree[c].parent \in Above(c)
  BY <1>4, AboveUnfolds, AboveSelf, TreeFacts
<1>. QED
  BY <1>4, <1>5

\* and the path from n down to m goes through a child of n.
LEMMA AboveChild ==
    ASSUME tree \in Operations, NEW m \in Nodes, NEW n \in Above(m), n # m
    PROVE  \E c \in Children(n) : c \in Above(m)
<1>. DEFINE P == {x \in Nodes : \A k \in Above(x) \ {x} : \E c \in Children(k) : c \in Above(x)}
<1>1. Root \in P
  BY AboveUnfolds, TreeFacts
<1>2. ASSUME NEW x \in Nodes \ {Root}, tree[x].parent \in P PROVE x \in P
  <2>1. Above(x) = {x} \union Above(tree[x].parent) /\ tree[x].parent \in Nodes
    BY AboveUnfolds, TreeFacts
  <2>2. ASSUME NEW k \in Above(x) \ {x} PROVE \E c \in Children(k) : c \in Above(x)
    <3>1. CASE k = tree[x].parent
      BY <2>1, <3>1 DEF Children
    <3>2. CASE k # tree[x].parent
      BY <1>2, <2>1, <2>2, <3>2
    <3>. QED
      BY <3>1, <3>2
  <2>. QED
    BY <2>2
<1>. HIDE DEF P
<1>3. Nodes \subseteq P
  BY <1>1, <1>2, Downwards
<1>. QED
  BY <1>3 DEF P

\* A null climbs to n from n itself, or through a child of n that has "!".
LEMMA ClimbsThrough ==
    ASSUME tree \in Operations, NEW m \in Nodes, NEW n \in Nodes
    PROVE  Climbs(m, n) <=>
              m = n \/ \E c \in Children(n) : Required(tree, c) /\ Climbs(m, c)
<1>1. ASSUME NEW c \in Children(n)
      PROVE  /\ c \in Nodes \ {Root} /\ tree[c].parent = n /\ n < c
             /\ Above(c) = {c} \union Above(n) /\ c \notin Above(n)
  <2>1. c \in Nodes \ {Root} /\ tree[c].parent = n
    BY DEF Children
  <2>2. n < c /\ n \in Nat /\ c \in Nat
    BY <2>1, TreeFacts
  <2>3. Above(c) = {c} \union Above(n)
    BY <2>1, AboveUnfolds
  <2>4. \A k \in Above(n) : k <= n /\ k \in Nat
    BY AboveSelf, TreeFacts
  <2>5. c \notin Above(n)
    BY <2>2, <2>4
  <2>. QED
    BY <2>1, <2>2, <2>3, <2>5
<1>2. ASSUME Climbs(m, n), m # n
      PROVE  \E c \in Children(n) : Required(tree, c) /\ Climbs(m, c)
  <2>1. PICK c \in Children(n) : c \in Above(m)
    BY <1>2, AboveChild DEF Climbs
  <2>. QED
    BY <1>1, <1>2, <2>1 DEF Climbs
<1>3. Climbs(n, n)
  BY AboveSelf DEF Climbs
<1>4. ASSUME NEW c \in Children(n), Required(tree, c), Climbs(m, c)
      PROVE  Climbs(m, n)
  <2>1. c \in Above(m) /\ n \in Above(m)
    BY <1>1, <1>4, AboveTrans DEF Climbs
  <2>. QED
    BY <1>1, <1>4, <2>1 DEF Climbs
<1>. QED
  BY <1>2, <1>3, <1>4

-----------------------------------------------------------------------------
(* The theorems.                                                           *)

\* Every variable has its type.
THEOREM TypeCorrect == Spec => []TypeOK
<1>1. IInv => TypeOK
  BY DEF IInv
<1>. QED
  BY <1>1, SpecIInv, PTL

\* Nulls are exactly where the schema and the resolvers put them.
LEMMA NullsFollow == IInv => NullsAreExact
<1>. SUFFICES ASSUME IInv PROVE NullsAreExact
  OBVIOUS
<1>. DEFINE Source(n) == \E m \in Nodes : raw[m] \in {"nil", "error"} /\ Climbs(m, n)
            P == {n \in Nodes : status[n] = "done" => (out[n] = "null" <=> Source(n))}
<1>0. tree \in Operations
  BY DEF IInv, TypeOK
<1>1. ASSUME NEW n \in Nodes, \A c \in Children(n) : c \in P, status[n] = "done"
      PROVE  out[n] = "null" <=> Source(n)
  <2>1. raw[n] \in {"value", "nil", "error"}
    BY <1>1 DEF IInv, TypeOK, NodeInv
  <2>2. CASE raw[n] \in {"nil", "error"}
    <3>1. Climbs(n, n)
      BY <1>0, ClimbsThrough
    <3>. QED
      BY <1>1, <2>2, <3>1 DEF IInv, OutInv
  <2>3. CASE raw[n] = "value"
    <3>1. \A c \in Children(n) : c \in Nodes /\ status[c] = "done"
      BY <1>1, <2>3 DEF IInv, OrderInv, Children
    <3>2. \A c \in Children(n) : out[c] = "null" <=> Source(c)
      BY <1>1, <3>1
    <3>3. out[n] = "null" <=> \E c \in Children(n) : Required(tree, c) /\ out[c] = "null"
      BY <1>0, <1>1, <2>3, CountedParts DEF IInv, OutInv
    <3>4. Source(n) <=> \E c \in Children(n) : Required(tree, c) /\ Source(c)
      <4>1. \A m \in Nodes : raw[m] \in {"nil", "error"} => m # n
        BY <2>3
      <4>. QED
        BY <1>0, <4>1, ClimbsThrough
    <3>. HIDE DEF Source
    <3>. QED
      BY <3>2, <3>3, <3>4
  <2>. QED
    BY <2>1, <2>2, <2>3
<1>2. \A n \in Nodes : (\A c \in Children(n) : c \in P) => n \in P
  BY <1>1
<1>. HIDE DEF P
<1>3. Nodes \subseteq P
  BY <1>0, <1>2, Upwards
<1>. QED
  BY <1>3 DEF P, NullsAreExact

\* NullsAreExact for every valid operation and every behaviour of resolvers.
THEOREM NullsWhereTheyBelong == Spec => []NullsAreExact
<1>. QED
  BY NullsFollow, SpecIInv, PTL

\* When the root is done, nothing is under way.
LEMMA NothingIsOpen ==
    ASSUME IInv, status[Root] = "done"
    PROVE  \A n \in Nodes : status[n] # "open"
<1>. DEFINE P == {n \in Nodes : status[n] # "open"}
<1>0. tree \in Operations
  BY DEF IInv, TypeOK
<1>1. Root \in P
  BY <1>0, TreeFacts
<1>2. ASSUME NEW n \in Nodes \ {Root}, tree[n].parent \in P PROVE n \in P
  BY <1>0, <1>2, TreeFacts DEF IInv, OrderInv, TypeOK
<1>. HIDE DEF P
<1>3. Nodes \subseteq P
  BY <1>0, <1>1, <1>2, Downwards
<1>. QED
  BY <1>3 DEF P

\* Nulls without errors are those of resolvers, where the schema allows them.
LEMMA NullsAreTold ==
    ASSUME IInv, NEW n \in Nodes, out[n] = "null", \A m \in Nodes : errors[m] = 0
    PROVE  raw[n] = "nil" /\ ~Required(tree, n)
<1>. DEFINE P == {m \in Nodes : out[m] = "null" => raw[m] = "nil" /\ ~Required(tree, m)}
<1>0. tree \in Operations
  BY DEF IInv, TypeOK
<1>1. ASSUME NEW m \in Nodes, \A c \in Children(m) : c \in P, out[m] = "null"
      PROVE  raw[m] = "nil" /\ ~Required(tree, m)
  <2>1. status[m] = "done"
    BY <1>1 DEF IInv, TypeOK
  <2>2. ~(\E c \in Counted(m) : out[c] = "null")
    BY <1>0, <1>1, CountedParts
  <2>3. raw[m] \in {"nil", "error"}
    BY <1>1, <2>1, <2>2 DEF IInv, OutInv
  <2>4. ~(errors[m] > 0)
    OBVIOUS
  <2>. QED
    BY <2>3, <2>4 DEF IInv, OutInv
<1>2. \A m \in Nodes : (\A c \in Children(m) : c \in P) => m \in P
  BY <1>1
<1>. HIDE DEF P
<1>3. Nodes \subseteq P
  BY <1>0, <1>2, Upwards
<1>. QED
  BY <1>3 DEF P

\* An error is about a null that has taken the place of its field.
LEMMA ErrorsAreTold ==
    ASSUME IInv, status[Root] = "done", NEW m \in Nodes, errors[m] > 0
    PROVE  \E n \in Above(m) : out[n] = "null" /\ ~Required(tree, n)
<1>. DEFINE S == {k \in Above(m) : out[k] = "null"}
<1>0. tree \in Operations
  BY DEF IInv, TypeOK
<1>1. m \in S
  <2>1. raw[m] \in {"nil", "error"}
    BY DEF IInv, OutInv
  <2>2. status[m] = "done"
    BY <2>1 DEF IInv, NodeInv, TypeOK
  <2>3. out[m] = "null"
    BY <2>1, <2>2 DEF IInv, OutInv
  <2>. QED
    BY <1>0, <2>3, AboveSelf
<1>2. S \in SUBSET Nat /\ S \subseteq Nodes
  BY <1>0, AboveSelf, TreeFacts
<1>. HIDE DEF S
<1>3. PICK n \in S : \A y \in S : n <= y
  BY <1>1, <1>2, Least
<1>4. SUFFICES ASSUME Required(tree, n) PROVE FALSE
  BY <1>3 DEF S
<1>. DEFINE p == tree[n].parent
<1>5. /\ n \in Nodes \ {Root} /\ n \in Above(m) /\ out[n] = "null"
      /\ p \in Nodes /\ p < n /\ p \in Above(m) /\ n \in Children(p)
  <2>1. n \in Nodes \ {Root} /\ n \in Above(m) /\ out[n] = "null"
    BY <1>2, <1>4 DEF S, Required
  <2>2. p \in Nodes /\ p < n
    BY <1>0, <2>1, TreeFacts
  <2>3. p \in Above(m)
    BY <1>0, <2>1, AboveTrans
  <2>4. n \in Children(p)
    BY <2>1 DEF Children
  <2>. QED
    BY <2>1, <2>2, <2>3, <2>4
<1>6. status[n] = "done"
  BY <1>5 DEF IInv, TypeOK
<1>7. status[p] = "done"
  BY <1>5, <1>6, NothingIsOpen DEF IInv, OrderInv, TypeOK
<1>8. n \in Counted(p)
  BY <1>0, <1>4, <1>5, CountedParts
<1>9. out[p] = "null"
  BY <1>5, <1>7, <1>8 DEF IInv, OutInv
<1>10. p \in S
  BY <1>5, <1>9 DEF S
<1>11. n <= p /\ n \in Nat /\ p \in Nat
  BY <1>2, <1>3, <1>10
<1>. HIDE DEF p
<1>. QED
  BY <1>5, <1>11

\* A response without an error hides no null, and every error has one.
THEOREM ErrorsWhereTheyBelong == Spec => []ErrorsAreReported
<1>1. IInv => ErrorsAreReported
  BY NullsAreTold, ErrorsAreTold DEF ErrorsAreReported
<1>. QED
  BY <1>1, SpecIInv, PTL
=============================================================================
