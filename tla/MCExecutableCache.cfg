SPECIFICATION Spec
CONSTANTS
    a1 = a1  a2 = a2  a3 = a3  i1 = i1  i2 = i2
    Thread = {t1, t2}
    Input = {a1, a3}
    Ir = {i1, i2}
    Lower <- MCLower
    Digest <- MCDigest
    Size <- MCSize
    Budget = 4
    Copy = {c1, c2}
    NoExec = NoExec
    Slot = {s1, s2, s3, s4}
    NoSlot = NoSlot
    Called = {a1, a3, i1}
    MaxTick = 3
    MaxGeneration = 1
SYMMETRY MCSymmetry
INVARIANTS Accounting WaitsEndAtBuilder RightExecutable ClearFence
