SPECIFICATION Spec
CONSTANTS
    Exact = 8
    Tables = {"a", "b", "c"}
    Rows <- MCRows
    MaxRows = 2
    Queries <- MCQueries
    Holds <- MCHolds
INVARIANTS
    OnAsWritten
    HashJoinIsNestedLoop
    JoinsAreRelational
    BareNameIsFirstOrPadded
