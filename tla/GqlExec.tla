------------------------------ MODULE GqlExec ------------------------------
(***************************************************************************)
(* The executor gqlgen generated for the schema of pz11-graphql (that of   *)
(* pz12-rest-graphql is the same but for an import path): the tree of a    *)
(* response is filled in by resolvers and put together bottom-up.  A field *)
(* that fails is null and leaves an error; an object or a list with a null *)
(* where the schema has "!" is null itself.                                *)
(*                                                                         *)
(* Resolvers, and the introspection data of the library, are the           *)
(* environment: each may give a value, nil where its Go type has a nil, or *)
(* an error (an argument that does not decode and a recovered panic count  *)
(* as one).  Query resolvers and the elements of a list run in goroutines. *)
(***************************************************************************)
EXTENDS Naturals, Sequences, FiniteSets

-----------------------------------------------------------------------------
(* What the generated function of each field gives, and whether it returns *)
(* through a marshaler of a type with "!": what is nil there is an error.  *)

NonNull(type) == [gives |-> type, list |-> FALSE, required |-> TRUE]
Nullable(type) == [gives |-> type, list |-> FALSE, required |-> FALSE]
NonNullList(type) == [gives |-> type, list |-> TRUE, required |-> TRUE]
NullableList(type) == [gives |-> type, list |-> TRUE, required |-> FALSE]
Scalar == "scalar"

Mutation_createTask == NonNull("Task")
Mutation_updateTask == NonNull("Task")
Mutation_deleteTask == NonNull(Scalar)
Query_tasks == NonNullList("Task")
Query_task == Nullable("Task")
Query___type == Nullable("__Type")
Query___schema == Nullable("__Schema")
Task_id == NonNull(Scalar)
Task_title == NonNull(Scalar)
Task_description == Nullable(Scalar)
Task_done == NonNull(Scalar)
Directive_name == NonNull(Scalar)
Directive_description == Nullable(Scalar)
Directive_locations == NonNullList(Scalar)
Directive_args == NonNullList("__InputValue")
Directive_isRepeatable == NonNull(Scalar)
EnumValue_name == NonNull(Scalar)
EnumValue_description == Nullable(Scalar)
EnumValue_isDeprecated == NonNull(Scalar)
EnumValue_deprecationReason == Nullable(Scalar)
Field_name == NonNull(Scalar)
Field_description == Nullable(Scalar)
Field_args == NonNullList("__InputValue")
Field_type == NonNull("__Type")
Field_isDeprecated == NonNull(Scalar)
Field_deprecationReason == Nullable(Scalar)
InputValue_name == NonNull(Scalar)
InputValue_description == Nullable(Scalar)
InputValue_type == NonNull("__Type")
InputValue_defaultValue == Nullable(Scalar)
Schema_description == Nullable(Scalar)
Schema_types == NonNullList("__Type")
Schema_queryType == NonNull("__Type")
Schema_mutationType == Nullable("__Type")
Schema_subscriptionType == Nullable("__Type")
Schema_directives == NonNullList("__Directive")
Type_kind == NonNull(Scalar)
Type_name == Nullable(Scalar)
Type_description == Nullable(Scalar)
Type_fields == NullableList("__Field")
Type_interfaces == NullableList("__Type")
Type_possibleTypes == NullableList("__Type")
Type_enumValues == NullableList("__EnumValue")
Type_inputFields == NullableList("__InputValue")
Type_ofType == Nullable("__Type")
Type_specifiedByURL == Nullable(Scalar)

-----------------------------------------------------------------------------
(* The executor of each object type: the function behind each field, and   *)
(* the fields whose null is counted in out.Invalids.                       *)

Mutation ==
    [fields |-> [createTask |-> Mutation_createTask,
                 updateTask |-> Mutation_updateTask,
                 deleteTask |-> Mutation_deleteTask],
     counted |-> {"createTask", "updateTask", "deleteTask"}]
Query ==
    [fields |-> [tasks |-> Query_tasks, task |-> Query_task,
                 __type |-> Query___type, __schema |-> Query___schema],
     counted |-> {"tasks"}]

\* A mutated Task: a null title is not counted.
TaskUncounted ==
    [fields |-> [id |-> Task_id, title |-> Task_title,
                 description |-> Task_description, done |-> Task_done],
     counted |-> {"id", "done"}]
Task ==
    [fields |-> [id |-> Task_id, title |-> Task_title,
                 description |-> Task_description, done |-> Task_done],
     counted |-> {"id", "title", "done"}]
Directive ==
    [fields |-> [name |-> Directive_name, description |-> Directive_description,
                 locations |-> Directive_locations, args |-> Directive_args,
                 isRepeatable |-> Directive_isRepeatable],
     counted |-> {"name", "locations", "args", "isRepeatable"}]
EnumValue ==
    [fields |-> [name |-> EnumValue_name, description |-> EnumValue_description,
                 isDeprecated |-> EnumValue_isDeprecated,
                 deprecationReason |-> EnumValue_deprecationReason],
     counted |-> {"name", "isDeprecated"}]
FieldType ==
    [fields |-> [name |-> Field_name, description |-> Field_description,
                 args |-> Field_args, type |-> Field_type,
                 isDeprecated |-> Field_isDeprecated,
                 deprecationReason |-> Field_deprecationReason],
     counted |-> {"name", "args", "type", "isDeprecated"}]
InputValue ==
    [fields |-> [name |-> InputValue_name, description |-> InputValue_description,
                 type |-> InputValue_type, defaultValue |-> InputValue_defaultValue],
     counted |-> {"name", "type"}]
Schema ==
    [fields |-> [description |-> Schema_description, types |-> Schema_types,
                 queryType |-> Schema_queryType,
                 mutationType |-> Schema_mutationType,
                 subscriptionType |-> Schema_subscriptionType,
                 directives |-> Schema_directives],
     counted |-> {"types", "queryType", "directives"}]
Type ==
    [fields |-> [kind |-> Type_kind, name |-> Type_name,
                 description |-> Type_description, fields |-> Type_fields,
                 interfaces |-> Type_interfaces,
                 possibleTypes |-> Type_possibleTypes,
                 enumValues |-> Type_enumValues, inputFields |-> Type_inputFields,
                 ofType |-> Type_ofType, specifiedByURL |-> Type_specifiedByURL],
     counted |-> {"kind"}]

Executor ==
    [Mutation |-> Mutation, Query |-> Query, Task |-> Task,
     __Directive |-> Directive, __EnumValue |-> EnumValue, __Field |-> FieldType,
     __InputValue |-> InputValue, __Schema |-> Schema, __Type |-> Type]

-----------------------------------------------------------------------------
(* Operations.                                                             *)

CONSTANTS
    Operations      \* operations, as the trees of their full responses

\* A tree t: its nodes are numbered in the order of the selection, parents first,
\* and 1 is the root.  A node is a field of an object of type "on", or, when
\* "on" is "[]", an element of the list its parent gives.
Root == 1
Node == [parent : Nat, on : STRING, name : STRING]

IsElement(t, n) == t[n].on = "[]"
OfField(t, n) == Executor[t[n].on].fields[t[n].name]

\* An element of a list is of the list's type and, in this schema, never null.
Function(t, n) ==
    IF IsElement(t, n) THEN NonNull(OfField(t, t[n].parent).gives) ELSE OfField(t, n)

TypeOf(t, n) == IF n = Root THEN t[Root].on ELSE Function(t, n).gives
IsList(t, n) == n # Root /\ Function(t, n).list
IsObject(t, n) == ~IsList(t, n) /\ TypeOf(t, n) # Scalar
Required(t, n) == n # Root /\ Function(t, n).required

IsTree(t) ==
    /\ t \in Seq(Node) /\ t # << >>
    /\ t[Root].on \in {"Query", "Mutation"}
    /\ \A n \in DOMAIN t \ {Root} : t[n].parent \in 1 .. n - 1

\* An operation is validated before it is executed: lists have elements, objects
\* have the fields of their types.
IsValid(t) ==
    \A n \in DOMAIN t \ {Root} :
        IF IsElement(t, n) THEN IsList(t, t[n].parent)
        ELSE /\ IsObject(t, t[n].parent) /\ t[n].on = TypeOf(t, t[n].parent)
             /\ t[n].on \in DOMAIN Executor
             /\ t[n].name \in DOMAIN Executor[t[n].on].fields

ASSUME OperationsAssumption == \A t \in Operations : IsTree(t) /\ IsValid(t)

VARIABLES
    tree,           \* the operation being executed
    raw,            \* what the resolver of a node gave
    status,         \* "todo", "open" while its parts are made, "done"
    out,            \* "value" or "null" when done
    errors          \* errors recorded at the path of a node

vars == <<tree, raw, status, out, errors>>

Nodes == DOMAIN tree
Children(n) == {c \in Nodes \ {Root} : tree[c].parent = n}

\* Exec calls the executor of Query or of Mutation.
Init ==
    /\ tree \in Operations
    /\ raw = [n \in Nodes |-> IF n = Root THEN "value" ELSE "none"]
    /\ status = [n \in Nodes |-> IF n = Root THEN "open" ELSE "todo"]
    /\ out = [n \in Nodes |-> "none"]
    /\ errors = [n \in Nodes |-> 0]

\* A slice that is nil is an empty list where the list has "!", and the strings
\* and booleans behind "!" have no nil; the elements that are pointers are tasks.
HasNil(n) ==
    IF IsElement(tree, n) THEN TypeOf(tree, n) = "Task"
    ELSE ~Required(tree, n) \/ (~Function(tree, n).list /\ Function(tree, n).gives # Scalar)

\* A mutated Outcomes: the deferred recover is missing.
OutcomesUnrecovered(n) == {"value", "panic"}

Outcomes(n) ==
    {"value"} \union (IF HasNil(n) THEN {"nil"} ELSE {})
              \union (IF IsElement(tree, n) THEN {} ELSE {"error"})

\* The resolvers of Query are started last, in goroutines, as are the elements
\* of a list; the other fields of an object are done in order.
Concurrent(n) == IsElement(tree, n) \/ (tree[n].on = "Query" /\ tree[n].name \in {"tasks", "task"})

Before(n) ==
    {b \in Children(tree[n].parent) :
        IF Concurrent(n) THEN ~Concurrent(b) ELSE b < n /\ ~Concurrent(b)}

Ready(n) ==
    /\ status[n] = "todo"
    /\ status[tree[n].parent] = "open"
    /\ \A b \in Before(n) : status[b] = "done"

\* A mutated MustNotBeNull: nil behind "!" is passed on without an error.
MustNotBeNullSilent(n) == FALSE

\* "must not be null", unless the path has an error already.
MustNotBeNull(n) == Required(tree, n) /\ errors[n] = 0

\* The generated function of the field up to its marshaler, or the part of a
\* list marshaler that runs for one element.
Resolve(n) ==
    /\ n # Root /\ Ready(n)
    /\ \E r \in Outcomes(n) :
          /\ raw' = [raw EXCEPT ![n] = r]
          /\ IF r = "value" /\ (IsObject(tree, n) \/ IsList(tree, n))
             THEN /\ status' = [status EXCEPT ![n] = "open"]
                  /\ UNCHANGED <<out, errors>>
             ELSE /\ status' = [status EXCEPT ![n] = "done"]
                  /\ out' = [out EXCEPT ![n] = IF r = "value" THEN "value" ELSE "null"]
                  /\ errors' = [errors EXCEPT ![n] =
                       IF r = "error" \/ (r = "nil" /\ MustNotBeNull(n)) THEN @ + 1
                       ELSE @]
    /\ UNCHANGED tree

\* The fields of the object that out.Invalids counts; every element of a list.
Counted(n) ==
    IF IsObject(tree, n)
    THEN {c \in Children(n) : tree[c].name \in Executor[TypeOf(tree, n)].counted}
    ELSE Children(n)

\* A mutated AllDone: the goroutine of a single element signals the WaitGroup
\* nobody added it to, and the group is waited for all the same.
AllDoneUnlessOne(n) ==
    /\ \A c \in Children(n) : status[c] = "done"
    /\ ~IsObject(tree, n) => Cardinality(Children(n)) # 1

\* Dispatch, or the WaitGroup of a list, has waited for every part.
AllDone(n) == \A c \in Children(n) : status[c] = "done"

\* The end of an executor or of a list marshaler: one null that counts is enough.
Complete(n) ==
    /\ status[n] = "open"
    /\ AllDone(n)
    /\ status' = [status EXCEPT ![n] = "done"]
    /\ out' = [out EXCEPT ![n] =
                 IF \E c \in Counted(n) : out[c] = "null" THEN "null" ELSE "value"]
    /\ UNCHANGED <<tree, raw, errors>>

\* The response is written.
Responded == status[Root] = "done" /\ UNCHANGED vars

Step(n) == Resolve(n) \/ Complete(n)

Next == (\E n \in Nodes : Step(n)) \/ Responded

\* A resolver returns, and goroutines are scheduled.
Spec == Init /\ [][Next]_vars /\ WF_vars(\E n \in Nodes : Step(n))

-----------------------------------------------------------------------------
(* Properties.                                                             *)

TypeOK ==
    /\ tree \in Operations
    /\ raw \in [Nodes -> {"none", "value", "nil", "error"}]
    /\ status \in [Nodes -> {"todo", "open", "done"}]
    /\ out \in [Nodes -> {"none", "value", "null"}]
    /\ errors \in [Nodes -> 0 .. 1]
    /\ \A n \in Nodes : status[n] = "done" <=> out[n] # "none"

\* n and the nodes above it.
AllAbove(t) ==
    LET above[n \in DOMAIN t] ==
            IF n = Root THEN {n} ELSE {n} \union above[t[n].parent]
    IN  above
Above(n) == AllAbove(tree)[n]

\* A null made at m climbs as far as n: everything below n on the way has "!".
Climbs(m, n) == n \in Above(m) /\ \A k \in Above(m) \ Above(n) : Required(tree, k)

\* Nulls are where the specification of GraphQL puts them: a node is null if and
\* only if a resolver at it or below it gave none, and every field and element
\* in between is one that may not be null.  In whatever order resolvers ended.
NullsAreExact ==
    \A n \in Nodes :
        status[n] = "done" =>
            (out[n] = "null" <=>
                \E m \in Nodes : raw[m] \in {"nil", "error"} /\ Climbs(m, n))

\* The client can trust what it gets: in a response without an error every null
\* is one a resolver gave where the schema allows it, and every error is about a
\* field that a null, at it or above it, has taken the place of.
ErrorsAreReported ==
    status[Root] = "done" =>
        /\ \A n \in Nodes :
              out[n] = "null" /\ (\A m \in Nodes : errors[m] = 0) =>
                  raw[n] = "nil" /\ ~Required(tree, n)
        /\ \A m \in Nodes :
              errors[m] > 0 =>
                  \E n \in Above(m) : out[n] = "null" /\ ~Required(tree, n)

\* Every operation is answered: nobody waits for a goroutine that is not there.
Answered == <>(status[Root] = "done")
=============================================================================
