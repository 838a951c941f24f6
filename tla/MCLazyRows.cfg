SPECIFICATION Spec
CONSTANTS
    q1 = q1  q2 = q2  q3 = q3
    State <- MCState
    MaskOf <- MCMaskOf
    ServingPolicy <- MCServingPolicy
    Thread = {t1, t2, t3}
    NoThread = NoThread
    EntryBytes = 1
    Budget = 2
    Transient = 2
    MaxRejected = 2
SYMMETRY MCSymmetry
INVARIANT RetainedExact
