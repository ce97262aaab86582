SPECIFICATION Spec
CONSTANTS
    A = A
    B = B
    Null = Null
    NoRow = NoRow
    Row <- Values
    Accepted <- Values
    SetExprs <- MCSetExprs
    Unique = TRUE
    Indexed = TRUE
    MaxRowid = 2
    MaxTx = 2
    MaxInsert = 2
    MaxJournal = 1
SYMMETRY Symmetric
CHECK_DEADLOCK FALSE
INVARIANTS
    IndexLookupMatchesScan
    StaleEntryNeedsClash
    RollbackRestores
    AutocommitAtomic
    UniqueUnlessInterfered
