SPECIFICATION MCSpec
CONSTANTS
    ucs2_gbk_map <- MCMap
    Texts <- MCTexts
    Strings <- MCStrings
    DstSizes <- MCDstSizes
    ChainSize = 16
    BufTexts <- MCBufTexts
    InitSizes <- MCInitSizes
    FormatRoom = 1
    MaxLen = 6
    Messages <- MCMessages
    LogSizes <- MCLogSizes
    ExternRoom = 2
    MaxLogged = 9
    Rules <- MCRules
    Values <- MCValues
    RuleData <- MCRuleData
    RuleStep = 2
    RuleRoom = 1
    MaxRules = 5
    Urls <- MCUrls
    Elems = {1, 2, 3, 4, 5}
    Arrays <- MCArrays
    Places <- MCPlaces
    Confs <- MCConfs
    Addresses <- MCAddresses
    Absent = Absent
    Malformed = Malformed
    Default = Default
    Null = Null
    Workfs = {w1}
    Procfs = {p1}
    Cleanfs = {f1, f2}
    Contexts = {c1}
    MaxSets = 2
    MaxEvents = 3
    Files <- MCTemplates
    Vals <- MCVals
    Fold <- MCFold
    NameChars = {"a", "b"}
    node_size0 = 1
    key_size0 = 1
    val_size = 7
    KEY_VAL_SIZE = 3
    MAX_VAR_LEN = 2
    MAX_KEY_LEN = 2
    MaxKeys = 2
    MaxExec = 2
INVARIANTS
    CharsKept WithinBuffer LangDecoded
    BufferContent LogComplete FirstRuleMatches UrlTakenApart ParseMatches ExecMatches
    SearchTree RotatedLeft EventHasWorker CleanedByItsOwn
CHECK_DEADLOCK FALSE
