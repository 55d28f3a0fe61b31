SPECIFICATION Spec
CONSTANTS
    Chunks = 2
    ChunkSize = 72
    Header = 24
    Align = 8
    SizeMod = 88
    MaxFree = 2
    Texts <- MCTexts
    Bytes <- MCBytes
    FileTexts = {"medium"}
    Phases = {"run", "getall"}
    OverIds = {m1}
    NoText = NoText
    MaxRefs = 2
    Misuse = {"free"}
INVARIANTS
    NoOverlap
    UsageCountsRefs
    BootTableLive
PROPERTIES
    ImplementsStore
