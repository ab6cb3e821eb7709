CONSTANTS
    Blocks <- MCBlocks
    TTL = 2
    MaxBlock = 3
    MaxEntities = 3
    Garbage = Garbage
    NoResult = NoResult
SPECIFICATION Spec
PROPERTY FoundBundleCovers
