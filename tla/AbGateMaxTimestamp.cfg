CONSTANTS
    MetaValues <- MCMetaValues
    NumText <- MCNumText
    TsMin <- MCTsMin
    TsMax <- MCTsMax
    Metadatas <- MCMetadatas
    PropSets <- MCPropSets
INIT GInit
NEXT GNext
INVARIANT AbsentDateIsDowngrade
