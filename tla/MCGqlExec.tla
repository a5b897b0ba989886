----------------------------- MODULE MCGqlExec -----------------------------
(* The instance of GqlExec for TLC: three operations.                      *)
EXTENDS GqlExec

N(parent, on, name) == [parent |-> parent, on |-> on, name |-> name]
E(parent) == N(parent, "[]", "")

\* query { __type tasks { id description } task { title description done } },
\* with two tasks in the list.
MCQuery ==
    << N(0, "Query", ""),
       N(1, "Query", "__type"), N(1, "Query", "tasks"), N(1, "Query", "task"),
       N(2, "__Type", "kind"),
       E(3), E(3),
       N(4, "Task", "title"), N(4, "Task", "description"), N(4, "Task", "done"),
       N(6, "Task", "id"), N(6, "Task", "description"),
       N(7, "Task", "id") >>

\* mutation { createTask { id title } updateTask { done } deleteTask }
MCMutation ==
    << N(0, "Mutation", ""),
       N(1, "Mutation", "createTask"), N(1, "Mutation", "updateTask"),
       N(1, "Mutation", "deleteTask"),
       N(2, "Task", "id"), N(2, "Task", "title"),
       N(3, "Task", "done") >>

\* query { __schema { types { fields { args { type { kind } } } enumValues { name } }
\*                    directives { locations } } }, with one element in each list.
MCIntrospection ==
    << N(0, "Query", ""),
       N(1, "Query", "__schema"),
       N(2, "__Schema", "types"), N(2, "__Schema", "directives"),
       E(3), E(4),
       N(5, "__Type", "fields"), N(5, "__Type", "enumValues"),
       N(6, "__Directive", "locations"),
       E(7), E(8), E(9),
       N(10, "__Field", "args"), N(11, "__EnumValue", "name"),
       E(13),
       N(15, "__InputValue", "type"),
       N(16, "__Type", "kind") >>

MCOperations == {MCQuery, MCMutation, MCIntrospection}
=============================================================================
