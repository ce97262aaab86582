CONSTANTS
    Table = {t, u}
    Column = {a, b}
    Val = {null, x}
    Null = null
    None = None
    MaxRowid = 1
    MaxStatements = 4
    MaxRare = 1
    MaxSnapshots = 2
    MaxCrashes = 1
SPECIFICATION Spec
SYMMETRY Names
CHECK_DEADLOCK FALSE
INVARIANTS
    NextRowidFresh
    IndexesAgreeUnlessAltered
    TriggersBelong
    KeptSurvives
    OnlyCreateWaits
