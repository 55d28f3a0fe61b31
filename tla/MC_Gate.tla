------------------------------- MODULE MC_Gate -------------------------------
EXTENDS Gate, TLC

CONSTANTS home, work, host

\* Both addresses have one name, and it is home's.
WhatItSays == home :> host @@ host :> home @@ work :> host

\* Numbers are only compared: with 1 and 2 changing places a state is the same.
Swap(e) == [e EXCEPT !.id = 3 - @]

Others == <<up, retry, link, player, doubtful, auth_fails, recent, inside>>

View ==
    {<<lookups, cache, net, Others>>,
     <<[i \in DOMAIN lookups |-> Swap(lookups[i])], {Swap(e) : e \in cache}, {Swap(q) : q \in net}, Others>>}
=============================================================================
