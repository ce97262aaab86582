SPECIFICATION RestartSpec
CONSTANTS
    Thread = {main}
    Reader = {}
    Key = {k1, k2}
    Value = {v1, v2}
    None = None
    Torn = Torn
    NoThread = NoThread
    MaxEntries = 1
    MaxCrash = 2
SYMMETRY Symmetric
PROPERTIES
    KeysSurvive
