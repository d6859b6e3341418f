SPECIFICATION LfsSpec
CONSTANTS
    h1 = h1  h2 = h2  h3 = h3
    Hash = {h1, h2, h3}
    File = {f1}
    None = None
    Size <- MCSize
    DeltaLen <- MCDeltaLen
    MaxDepth = 2
    Configs <- MCConfigs
    MaxLayers = 3
INVARIANTS NoStaleRecords  VersionsUnique
PROPERTY ChainsKeepContent
