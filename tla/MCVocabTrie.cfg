SPECIFICATION Spec
CONSTANTS
    Byte <- MCByte
    Class <- MCClass
    RawState <- MCRawState
    Dead <- MCDead
    Vocabulary <- MCVocabulary
    Ids <- MCIds
    RawAutomaton <- MCRawAutomaton
    MemoWrap = 4
INVARIANTS
    FuelSuffices
    RowsMatchNaive
    MaskIsCompletable
