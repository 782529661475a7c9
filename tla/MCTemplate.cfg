SPECIFICATION TplSpec
CONSTANTS
    Files <- MCTemplates
    Vals <- MCVals
    Fold <- MCFold
    NameChars = {"a", "b"}
    node_size0 = 1
    key_size0 = 1
    val_size = 7
    KEY_VAL_SIZE = 3
    MAX_VAR_LEN = 2
    MAX_KEY_LEN = 2
    MaxKeys = 2
    MaxExec = 2
INVARIANT EscapesWritten
CHECK_DEADLOCK FALSE
