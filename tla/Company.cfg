SPECIFICATION CompanySpec
CONSTANTS
    Nil = Nil
    Player = {p}
    Mob = {m, n}
    Room = {road, temple}
    Tame = {m}
    Mounts = {n}
    Wild = {n}
    NoCharm = {}
    Moribund = temple
    Temple = temple
    Orders = 1
INVARIANTS NobodyDangles FollowersCounted
PROPERTIES FightsBeginTogether
CHECK_DEADLOCK FALSE
