SPECIFICATION Spec
CONSTANTS
    p = p
    q = q
    m = m
    t = t
    square = square
    Temple = temple
    item = item
    body = body
    Nil = Nil
    Player = {p, q}
    Mob = {m, t}
    Room = {square, temple}
    Item = {item}
    Corpse = {body}
    Worthy <- WorthyDef
    Pk = {q}
    Morgue = temple
    Moribund = temple
    Returned = temple
    Donation = temple
    MaxTimer = 2
    Waits = {1}
    Careful = TRUE
INVARIANTS NothingDangles NamesRestored
PROPERTIES QuestEnds
CHECK_DEADLOCK FALSE
