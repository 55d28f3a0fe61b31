SPECIFICATION Spec
CONSTANTS
    p1 = p1
    p2 = p2
    i1 = i1
    i2 = i2
    Player = {p1, p2}
    Item = {i1, i2}
    NoDrop = {i2}
    Token = {i1}
    Clan = {p1}
    Auctions = Auctions
    Treasury = Treasury
    Nil = Nil
    Kinds = {"bank", "qp"}
    Fee = 1
    Cost = 1
    Reserve = 1
    Duration = 2
    Extension = 1
    Start <- Wealth
    Amounts = {1, 2}
    Careful = TRUE
CHECK_DEADLOCK FALSE
INVARIANTS
    OnePlace
    PromisesHold
PROPERTIES
    NothingFromNowhere
    Binding
    AuctionsEnd
