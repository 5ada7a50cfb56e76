CONSTANTS
    MetaValues <- MCMetaValues
    NumText <- MCNumText
    TsMin <- MCTsMin
    TsMax <- MCTsMax
    Metadatas <- MCMetadatasPadded
    PropSets <- MCPropSets
INIT GInit
NEXT GNext
INVARIANT GateMatchesSpec
