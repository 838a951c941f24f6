SPECIFICATION CacheSpec
CONSTANTS
    k1 = k1  k2 = k2  k3 = k3
    Thread = {t1, t2}
    Key = {k1, k2, k3}
    Slot = {s1, s2, s3}
    NoSlot = NoSlot  NoKey = NoKey
    Size <- MCSize
    Candidate <- MCCandidate
    Budget = 2
    LogSlack = 0
    MaxTick = 6
INVARIANTS Accounting ByteBounded LogCoversRetained
