SPECIFICATION FairSpec
CONSTANTS
    Byte <- MCByte
    Class <- MCClass
    RawState <- MCRawState
    Dead <- MCDead
    Raw <- MCRaw
    TokenBytes <- MCTokenBytes
    ServingPolicy <- MCServingPolicy
    Thread = {t1, t2}
    NoThread = NoThread
    Eos = 9
    ForeignId = {7}
    EntryBytes = 1
    Budget = 1
    Transient = 2
    MaxRejected = 2
    MaxText = 1
PROPERTIES
    ImplementsDecoder
    EveryMaskReturns
