SPECIFICATION Spec
CONSTANTS
    WS = {" "}
    Escapes <- MCEscapes
    KeyHash <- MCKeyHash
    Nodes <- MCNodes
    ResourceOf <- MCResourceOf
    DynamicTargets <- MCNoAnchors
    Fingerprint <- MCFingerprint
    LeadingDigits = 20
    ExponentCap = 1000
    Roots <- MCOpen
    LimitSets <- MCRoomyOnly
    VocabularyOf <- MCCrossing
    ByteOrder <- MCByteOrder
    CompletionsOf <- MCCompletionsOf
    CatalogBudget = 100000
    MaxBoundedLen = 1
    NeutralCapacity = 3
    MaxProofDepth = 5
    MaxText <- MCMaxCrossing
    MaxString = 1
    MaxNesting = 2
INVARIANTS
    KeysLive
CHECK_DEADLOCK FALSE
