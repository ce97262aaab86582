CONSTANTS
    Table = {t}
    Column = {a}
    Val = {null, x}
    Null = null
    None = None
    MaxRowid = 1
    MaxStatements = 2
    MaxRare = 0
    MaxSnapshots = 2
    MaxCrashes = 0
SPECIFICATION FairSpec
CHECK_DEADLOCK FALSE
PROPERTY SnapshotsFinish
