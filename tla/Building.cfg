CONSTANTS
    b1 = b1
    b2 = b2
    r1 = r1
    r2 = r2
    r3 = r3
    m1 = m1
    m2 = m2
    m3 = m3
    o1 = o1
    o2 = o2
    o3 = o3
    north = north
    south = south
    plain = plain
    fancy = fancy
    Nil = Nil
    Builder = {b1, b2}
    Writer = {b1}
    Room = {r1, r2, r3}
    Home = r1
    Mob = {m1, m2, m3}
    Obj = {o1, o2, o3}
    Dir = {north, south}
    RevDirs <- MCRevDirs
    Text = {plain, fancy}
    New = plain
    MaxResets = 5
    Loops = {3}
    FlushLoops = 10
    QueueSize = 200
    MaxCommands = 2
    MaxCrashes = 1
    World <- MCWorld
    Careful = TRUE
SPECIFICATION Spec
INVARIANTS ExitsLead ResetsSound QuietMeansSaved
PROPERTIES EditsSaved
CHECK_DEADLOCK FALSE
