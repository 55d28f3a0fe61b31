----------------------------- MODULE MC_Market -----------------------------
EXTENDS Market, TLC

CONSTANTS p1, p2, i1, i2

\* The first player has two items and the price of two auctions, the second has
\* gold and quest points to bid with.
Wealth == (p1 :> [items |-> {i1, i2}, gold |-> 2, bank |-> 0, qp |-> 0])
       @@ (p2 :> [items |-> {}, gold |-> 0, bank |-> 2, qp |-> 1])
=============================================================================
