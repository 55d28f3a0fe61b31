SPECIFICATION Spec
CONSTANTS
    Players = {p1, p2, p3, p4}
    Arenas = {10598, 10599}
    Start = Start
    World = World
    Moribund = Moribund
    Nowhere = Nowhere
    QuitRooms = {World, Start}
    LeaveRooms = {World, Start, Moribund}
    ReadyTime = 1
    SetTime = 1
    GoTime = 1
    LinkTime = 1
    MaxHit = 1
    OtherRaces = {}
    Immortals = FALSE
SYMMETRY Symmetry
INVARIANTS
    OneRole
    InTheirPlaces
