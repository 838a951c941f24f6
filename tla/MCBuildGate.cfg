SPECIFICATION FairSpec
CONSTANTS
    Thread = {t1, t2, t3}
    Estimate = {1, 2, 4}
    Policy <- MCPolicy
    DefaultPolicy <- MCDefault
    MaxRejected = 1
INVARIANTS  Conservation WithinPolicy NoLostWakeup
PROPERTY AcquireReturns
