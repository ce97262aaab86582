SPECIFICATION Spec
CONSTANTS
    Thread = {main, peer}
    Reader = {main}
    Key = {k1, k2, k3}
    Value = {v1, v2}
    None = None
    Torn = Torn
    NoThread = NoThread
    MaxEntries = 1
SYMMETRY Symmetric
INVARIANTS
    NoStaleCopy
    LimitKept
    GetAlone
PROPERTIES
    IsOneMap
