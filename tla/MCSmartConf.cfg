SPECIFICATION Spec
CONSTANTS
    Files <- MCFiles
    Names <- MCNames
    Fold <- MCFold
    Digits = {"0", "1"}
    sec_size0 = 4
    item_size0 = 1
    buf_size = 18
    NAME_SIZE = 2
INVARIANTS ReadMatchesFile
PROPERTY Advances
CHECK_DEADLOCK FALSE
