\* A query with concurrent resolvers and a list, a mutation of three fields and
\* an introspection query that reaches every object type.
CONSTANTS
    Operations <- MCOperations
SPECIFICATION Spec
INVARIANTS
    TypeOK
    NullsAreExact
    ErrorsAreReported
PROPERTY
    Answered
