SPECIFICATION MCSpec
CONSTANTS
    Files <- MCFiles
    Number <- MCNumber
    Address <- MCAddress
    Lines <- MCLines
    Contents <- MCContents
    BufSizes <- MCBufSizes
    MaxGiven = 4
    HO_MIN_BUF_SZ = 2
    HO_DFT_BUF_SZ = 33
    HOST_STR_SIZE = 3
    PATH_STR_SIZE = 4
    UA_STR_SIZE = 3
    COOKIE_STR_SIZE = 3
    REQ_LINE_SIZE = 7
    BUF_SZ = 72
    LOAD_OFF = 40
    LOAD_SZ = 6
    Pid = 7
INVARIANTS
    SentAsConfigured
    IpHeaderVerifies
    MessageIsWhatWasGiven
    HeadersFound
    ParsedBack
PROPERTIES
    AllSent
CHECK_DEADLOCK FALSE
