SPECIFICATION FairSpec
CONSTANTS
    Players = {p1, p2}
    Arenas = {10598}
    Start = Start
    World = World
    Moribund = Moribund
    Nowhere = Nowhere
    QuitRooms = {}
    LeaveRooms = {World, Start, Moribund}
    ReadyTime = 2
    SetTime = 1
    GoTime = 2
    LinkTime = 1
    MaxHit = 2
    OtherRaces = {"drawn"}
    Immortals = TRUE
INVARIANTS
    FilesFromOutside
PROPERTIES
    SparLeavesNoTrace
    DuelsEnd
