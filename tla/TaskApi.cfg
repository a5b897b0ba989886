\* Three requests of one or two fields each, on the two tasks of the store.
CONSTANTS
    c1 = c1
    c2 = c2
    c3 = c3
    old = old
    new = new
    Blank = Blank
    Given = old
    Nil = Nil
    Torn = Torn
    Clients <- MCClients
    Titles <- MCTitles
    Asks <- MCAsks
SYMMETRY MCSymmetry
SPECIFICATION Spec
INVARIANTS
    TypeOK
    ReadsAreExplained
    EffectsAreExplained
    FieldsRunInOrder
PROPERTY
    StoreSteps
CHECK_DEADLOCK FALSE
