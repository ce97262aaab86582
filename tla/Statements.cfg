CONSTANTS
    p = p
    c = c
    x = x
    y = y
    fox = fox
    dog = dog
    Table = {p, c}
    Val <- Values
    Null = Null
    NoRow = NoRow
    Tokens <- MCTokens
    OldValue = OldValue
    NewValue = NewValue
    AnyRow = AnyRow
    Schemas <- MCSchemas
    Sets <- MCSets
    MaxRowid = 2
    MaxStatements = 4
    MaxDepth = 4
SPECIFICATION Spec
CHECK_DEADLOCK FALSE
INVARIANTS
    CascadeUndone
    LookupsFindEveryRow
    NothingStaleUnlessOverwritten
    CascadesKeepReferences
    UniqueUnlessBeforeTrigger
