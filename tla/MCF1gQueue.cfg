SPECIFICATION FairSpec
CONSTANTS
    blk_num = 3
    words = 2
    a = a
    b = b
    Data = {a, b}
    Junk = Junk
    MaxPuts = 4
    Payloads <- MCPayloads
INVARIANTS TypeOK NoOverlap HeadStable Conservation CheckedCallHasRoom
PROPERTIES RingImplementsFifo Drained
