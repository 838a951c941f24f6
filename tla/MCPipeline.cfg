INIT Init
NEXT Next
CONSTANTS I64Max=999 I64Digits=3 U64Max=1999 I128Max=99999 I128Digits=5 U32Max=99 MaxExponent=8
MaxNodes=200 MaxDiagnostics=2 MaxPairs=5 MaxDepth=8 MaxExpandedNodes=60
Analysis <- MCAnalysis
Leading <- MCLeading
Fragment <- MCFragment
Reference <- MCReference
Against <- MCAgainst
Rank <- MCRank
AnchorNames = {"x", "y"}
LegacyMetaschemas = {"04"}
KnownVocabularies = {"core", "applicator", "validation"}
ValidationVocabulary = "validation"
Length <- MCLength
Matches <- MCMatches
Inputs <- MCInputs
Bytes <- MCBytes
Instances <- MCInstances
KnownMetaschemas={"04","07"} RefExclusive={"04","07"} NoConditionals={"04"}

StateCap = 65536
CellCap = 4194304
ProductCellCap = 16777216
ShuffleCellCap = 1048576
MemoryCap = 268435456
MaxSafeShuffleFields = 6
MaxUnrolledCodepointLen = 2
MaxUnrolledArrayItems = 4
MaxUnrolledEnum = 2
MaxModulus = 50
MaxRemainderModulus = 3
MaxSuffixEndings = 5
EngineSize = 3
ProductWork = 5
MaxProductPatterns = 2
MaxProductSource = 8
MaxPlainProducts = 1
MaxPlainSource = 4

INVARIANTS LoweringKeepsMeaning PlanKeepsMeaning RetainedMatchesPlan RefusedOnlyByLimits
CHECK_DEADLOCK FALSE
