----------------------------- MODULE MC_Objects -----------------------------
EXTENDS Objects, TLC

CONSTANTS p, m, hall, grave, bag, lamp, stock, coins, body

\* A player and a mob, that may keep a shop; a bag, a lamp, a lamp that the shop
\* never runs out of, one heap of coins; two rooms.
SlotOfDef == (bag :> "hold") @@ (lamp :> "light") @@ (stock :> "light")
WeightDef == (bag :> 1) @@ (lamp :> 1) @@ (stock :> 1) @@ (body :> 3)
CapacityDef == bag :> 2
=============================================================================
