SPECIFICATION Spec
CONSTANTS
    Exact = 8
    MaxRowId = 3
    Columns <- MCColumns
    Defaults <- MCDefaults
    KeyColumns = {"k"}
    Indexed = "a"
    Inserts <- MCInserts
    Updates <- MCUpdates
    Deletes <- MCDeletes
    Selects <- MCSelects
    Copies <- MCCopies
    Evaluate <- MCEvaluate
    Holds <- MCHolds
    Placeholders <- MCPlaceholders
    Closed <- MCClosed
INVARIANTS
    IndexListsRows
    EvaluatesAsWritten
    IndexKeepsAnswer
    OrderIsLexicographic
    PagesAreTheAnswer
    GroupsAreEqualValues
    DistinctGivesEachOnce
    WhereBindsInOrder
    EvaluatorsAgree
PROPERTIES
    UpdateBindsInOrder
    CopyAddsItsAnswer
