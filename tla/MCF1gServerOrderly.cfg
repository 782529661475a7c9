SPECIFICATION FairSpec
CONSTANTS
    c1 = c1
    c2 = c2
    c3 = c3
    w1 = w1
    w2 = w2
    None = None
    Listen = Listen
    Resp = Resp
    Clients = {c1, c2}
    Workers = {w1}
    QueOf <- SameQueue
    MaxFd = 2
    que_cap = 7
    BufSize = 8
    Backlog = 1
    MaxSend <- ThreeAndOne
    HalfClose = FALSE
    MemFails = TRUE
    Resets = FALSE
    ProcResults = {"PROC_ST_SENDBUF"}
INVARIANTS NoLostEdge
PROPERTIES ClosesOnlyEnded BatchCutByEnd RequestsAnswered
CHECK_DEADLOCK FALSE
