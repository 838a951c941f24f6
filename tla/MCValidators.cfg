SPECIFICATION Spec
CONSTANTS
    WS = {" "}
    Escapes <- MCEscapes
    KeyHash <- MCKeyHash
    Nodes <- MCNodes
    ResourceOf <- MCResourceOf
    DynamicTargets <- MCAnchors
    Fingerprint <- MCFingerprint
    LeadingDigits = 20
    ExponentCap = 1000
    Roots <- MCRoots
    LimitSets <- MCLimits
    VocabularyOf <- MCVocabularyOf
    ByteOrder <- MCByteOrder
    CompletionsOf <- MCCompletionsOf
    CatalogBudget = 100000
    MaxBoundedLen = 1
    NeutralCapacity = 3
    MaxProofDepth = 5
    MaxText <- MCMaxText
    MaxString = 2
    MaxNesting = 3
INVARIANTS
    AcceptsLanguage
    MaskPredictsAdvance
    CompletableAdmitted
    CursorsOwned
    ReuseIsFresh
    LedgerBounded
PROPERTIES
    CallsAreAtomic
CHECK_DEADLOCK FALSE
