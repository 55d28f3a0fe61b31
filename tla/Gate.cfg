SPECIFICATION GateSpec
CONSTANTS
    home = home
    work = work
    host = host
    Unknown = Unknown
    Ip = {home, work}
    Name = {host}
    Says <- WhatItSays
    Id = {1, 2}
    OnTheWay = 2
    Link = {d1}
    Player = {c1}
    LookupTime = 2
    GoodTime = 1
    BadTime = 1
    RetryTime = 1
    Slots = 1
    Limit = 1
    Window = 1
INVARIANTS NamesVerified CountDeserved
PROPERTIES LookupsEnd RefusedForAWhile
VIEW View
CHECK_DEADLOCK FALSE
