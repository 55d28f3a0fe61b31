SPECIFICATION Spec
CONSTANTS
    p = p
    m = m
    hall = hall
    grave = grave
    bag = bag
    lamp = lamp
    stock = stock
    coins = coins
    body = body
    Nil = Nil
    Player = {p}
    Mob = {m}
    Room = {hall, grave}
    Thing = {bag, lamp, stock}
    Purse = {coins}
    Corpse = {body}
    Bag = {bag}
    Lamp = {lamp, stock}
    Stock = {stock}
    Unique = {lamp}
    Anti = {stock}
    NoRemove = {bag}
    Trash = {bag}
    SlotOf <- SlotOfDef
    Weight <- WeightDef
    Capacity <- CapacityDef
    MaxNumber = 2
    MaxWeight = 2
    MaxGold = 2
    PerWeight = 1
    Price = 1
    Fee = 1
    Tenth = 1
    Moribund = grave
    Morgue = grave
    Donation = grave
    MaxLight = 2
    MaxWealth = 2
INVARIANTS Placed CountersExact
PROPERTIES CoinsKept
CHECK_DEADLOCK FALSE
