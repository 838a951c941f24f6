SPECIFICATION Spec
CONSTANTS
    WS = {" "}
    Escapes <- MCEscapes
    Ir <- MCIr
    Engine <- MCEngine
    IrResource <- MCIrResource
    IrAnchors <- MCIrAnchors
    Diagnosed <- MCDiagnosed
    MaxDepth = 12
    RefRoots <- MCRoots
    RefVocabularyOf <- MCVocabularyOf
    RefLimits <- MCLimits
    RefCompletions <- MCCompletions
    MaxBuffer <- MCMaxBuffer
INVARIANTS
    OracleIsExact
    OracleKeepsCompletable
CHECK_DEADLOCK FALSE
