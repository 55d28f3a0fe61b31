------------------------------- MODULE Market -------------------------------
(***************************************************************************)
(* What players own, and how it changes hands: auctions (auction.c), trades *)
(* (trade.c), the bank (act_info.c: do_bank), clan treasuries (treasury.c), *)
(* and what is on disk of it.                                              *)
(*                                                                         *)
(* The game is one thread: a command changes the memory, then writes       *)
(* files, one after the other.  todo is what the current command has yet   *)
(* to do; nobody else has a turn until it is empty, but the machine may    *)
(* stop at any point.                                                      *)
(*                                                                         *)
(* Amounts are in units: Fee is the price of an auction (5,000 gold, or one *)
(* quest point), Cost what it costs to trade an item that cannot be dropped.*)
(***************************************************************************)
EXTENDS Integers, FiniteSets, SequencesExt, FiniteSetsExt

CONSTANTS
    Player,
    Item,
    NoDrop,         \* the items flagged ITEM_NODROP
    Token,          \* the items worth a quest point (ITEM_QUEST)
    Clan,           \* the players in the clan that has the treasury
    Auctions,       \* the auction file, as something to be saved
    Treasury,       \* the treasury file, as something to be saved
    Nil,            \* NULL, no file, no auction
    Kinds,          \* auctions are for "bank" (gold) or "qp"
    Fee, Cost, Reserve,
    Duration,       \* ticks an auction takes
    Extension,      \* ticks a late bid adds
    Start,          \* what each player owns at first: items, gold, bank, qp
    Amounts,        \* the amounts that are bid, offered, deposited, ...
    Careful         \* whether what the code does not guard against is left undone:
                    \* the machine stops between two files of one command, the tax
                    \* collector or a purchase takes what is promised in a trade
                    \* or a bid

Body == [items : SUBSET Item, gold : Nat, bank : Int, qp : Int]
Auction == [owner : Player, bidder : Player \cup {Nil}, amount : Nat, kind : Kinds, left : Nat]

ASSUME MarketAssumption ==
    /\ NoDrop \subseteq Item /\ Token \subseteq Item /\ Clan \subseteq Player /\ Kinds \subseteq {"bank", "qp"}
    /\ {Fee, Cost, Reserve, Duration, Extension} \subseteq Nat /\ Reserve > 0
    /\ Amounts \subseteq Nat \ {0} /\ Careful \in BOOLEAN
    /\ Start \in [Player -> [items : SUBSET Item, gold : Nat, bank : Nat, qp : Nat]]
    /\ \A i \in Item : \E p \in Player : \A q \in Player : i \in Start[q].items <=> q = p
    /\ Player \cap Item = {} /\ {Auctions, Treasury, Nil} \cap (Player \cup Item) = {}
    /\ Auctions # Treasury /\ Nil \notin Body \cup Auction /\ IsFiniteSet(Item) /\ IsFiniteSet(Player)

VARIABLES
    body,           \* CHAR_DATA of the players in memory, Nil for the others
    online,         \* those of them who play
    saved,          \* the player files
    auc,            \* first_auction .. last_auction, by pObj
    aucFile,        \* AUCTION_FILE
    hoard,          \* treasury[clan]
    hoardFile,      \* TREASURY_FILE
    with,           \* trading_with
    offer,          \* trading_objs
    stake,          \* trading_gold
    accepts,        \* trading_accepts
    todo            \* what the command has yet to do: a player or a file to save,
                    \* an item whose auction is to end

vars == <<body, online, saved, auc, aucFile, hoard, hoardFile, with, offer, stake, accepts, todo>>
trade == <<with, offer, stake, accepts>>
disk == <<saved, aucFile, hoardFile>>

Idle == todo = <<>>

\* What p is: in memory, or on disk.
Now(p) == IF body[p] = Nil THEN saved[p] ELSE body[p]

Open == {i \in Item : auc[i] # Nil}

\* Gold or quest points of p that are bid.
Pledge(p, k) ==
    [i \in Item |-> IF i \in Open /\ auc[i].kind = k /\ auc[i].bidder = p THEN auc[i].amount ELSE 0]

Reserved(p, k) == SumFunction(Pledge(p, k))

Available(p, k) == Max({0, body[p][k] - Reserved(p, k)})

Gain(b, k, n) == [b EXCEPT ![k] = @ + n]
Take(b, I) == [b EXCEPT !.items = @ \cup I]
Lose(b, I) == [b EXCEPT !.items = @ \ I]

-----------------------------------------------------------------------------
(* Trades. *)

Cleared(f, P, x) == [p \in Player |-> IF p \in P THEN x ELSE f[p]]

\* trade_clear
Clear(P) ==
    /\ with' = Cleared(with, P, Nil) /\ offer' = Cleared(offer, P, {})
    /\ stake' = Cleared(stake, P, 0) /\ accepts' = Cleared(accepts, P, FALSE)

\* trade_abort
Abort(p) == Clear(IF with[p] = Nil THEN {} ELSE {p, with[p]})

TradeStart(p, q) ==
    /\ Idle /\ {p, q} \subseteq online /\ p # q
    /\ with[p] = Nil /\ with[q] = Nil
    /\ with' = [with EXCEPT ![p] = q, ![q] = p]
    /\ offer' = Cleared(offer, {p, q}, {})
    /\ stake' = Cleared(stake, {p, q}, 0) /\ accepts' = Cleared(accepts, {p, q}, FALSE)
    /\ UNCHANGED <<body, online, auc, hoard, disk, todo>>

\* trade abort; or either of them leaves the room.
TradeAbort(p) ==
    /\ Idle /\ with[p] # Nil
    /\ Abort(p)
    /\ UNCHANGED <<body, online, auc, hoard, disk, todo>>

\* Mutant: the other side's word does not bind.
OpenToChangeOwn(p) == with[p] # Nil /\ ~accepts[p]

OpenToChange(p) == with[p] # Nil /\ ~accepts[p] /\ ~accepts[with[p]]

TradeAdd(p, i) ==
    /\ Idle /\ OpenToChange(p)
    /\ i \in body[p].items \ offer[p]
    /\ i \in NoDrop => Available(p, "qp") >= Cost * (1 + Cardinality(offer[p] \cap NoDrop))
    /\ offer' = [offer EXCEPT ![p] = @ \cup {i}]
    /\ UNCHANGED <<body, online, auc, hoard, disk, with, stake, accepts, todo>>

TradeGold(p, n) ==
    /\ Idle /\ OpenToChange(p)
    /\ stake[p] = 0 /\ n <= Available(p, "bank")
    /\ stake' = [stake EXCEPT ![p] = n]
    /\ UNCHANGED <<body, online, auc, hoard, disk, with, offer, accepts, todo>>

\* trade_transfer: what p offers goes to the other.
Transferred(b, p) ==
    [b EXCEPT ![p] = Gain(Gain(Lose(@, offer[p]), "bank", -stake[p]),
                          "qp", -Cost * Cardinality(offer[p] \cap NoDrop)),
              ![with[p]] = Gain(Take(@, offer[p]), "bank", stake[p])]

\* trade accept, by the first.
TradeAccept(p) ==
    /\ Idle /\ with[p] # Nil /\ ~accepts[p] /\ ~accepts[with[p]]
    /\ accepts' = [accepts EXCEPT ![p] = TRUE]
    /\ UNCHANGED <<body, online, auc, hoard, disk, with, offer, stake, todo>>

\* trade accept, by the second: trade_finish.
TradeFinish(p) ==
    /\ Idle /\ with[p] # Nil /\ ~accepts[p] /\ accepts[with[p]]
    /\ body' = Transferred(Transferred(body, p), with[p])
    /\ Clear({p, with[p]})
    /\ todo' = <<with[p], p>>
    /\ UNCHANGED <<online, auc, hoard, disk>>

-----------------------------------------------------------------------------
(* Auctions. *)

\* valid_auction_obj: quest point items are not sold for quest points.
MayAuction(p, i, k) == i \in body[p].items /\ ~(i \in Token /\ k = "qp")

AuctionAdd(p, i, k) ==
    LET fee == IF k = "bank"
               THEN Gain(Gain(body[p], "gold", -Fee), "qp", IF i \in NoDrop THEN -Cost ELSE 0)
               ELSE Gain(body[p], "qp", -Fee - (IF i \in NoDrop THEN Cost ELSE 0))
    IN  /\ Idle /\ p \in online /\ with[p] = Nil /\ MayAuction(p, i, k)
        /\ k = "bank" => body[p].gold >= Fee
        /\ k = "bank" /\ i \in NoDrop => Available(p, "qp") >= Cost
        /\ k = "qp" => Available(p, "qp") >= Fee + (IF i \in NoDrop THEN Cost ELSE 0)
        /\ auc' = [auc EXCEPT ![i] = [owner |-> p, bidder |-> Nil, amount |-> 0, kind |-> k,
                                      left |-> Duration]]
        /\ body' = [body EXCEPT ![p] = Lose(fee, {i})]
        /\ todo' = <<p, Auctions>>
        /\ UNCHANGED <<online, hoard, disk, trade>>

ToBeat(a) ==
    IF a.amount = 0 THEN Reserve
    ELSE a.amount + (IF a.kind = "bank" THEN Max({1, (a.amount * 5) \div 100}) ELSE 1)

\* What p may bid: the bid he raises is his own again.
Has(p, a) == Available(p, a.kind) + (IF a.bidder = p THEN a.amount ELSE 0)

Bid(p, i, n) ==
    /\ Idle /\ p \in online /\ with[p] = Nil
    /\ auc[i] # Nil /\ auc[i].owner # p
    /\ n >= ToBeat(auc[i]) /\ n <= Has(p, auc[i])
    /\ auc' = [auc EXCEPT ![i].bidder = p, ![i].amount = n,
                          ![i].left = IF @ <= 1 THEN @ + Extension ELSE @]
    /\ todo' = <<Auctions>>
    /\ UNCHANGED <<body, online, hoard, disk, trade>>

\* Mutant: auctions with no bids go on.
AgedWhenBid(f) ==
    [i \in Item |-> IF f[i] = Nil \/ f[i].bidder = Nil THEN f[i]
                    ELSE [f[i] EXCEPT !.left = Max({0, @ - 1})]]

Aged(f) == [i \in Item |-> IF f[i] = Nil THEN Nil ELSE [f[i] EXCEPT !.left = Max({0, @ - 1})]]

Due(f) == {i \in Item : f[i] # Nil /\ f[i].left = 0}

\* auc_update: time passes; what is due ends, one auction after the other, and then
\* the auctions are saved.
AucUpdate(f) ==
    /\ auc' = f
    /\ \E s \in SetToSeqs(Due(f)) : todo' = IF s = <<>> THEN <<>> ELSE Append(s, Auctions)

Tick ==
    /\ Idle /\ Open # {}
    /\ AucUpdate(Aged(auc))
    /\ aucFile' = Aged(aucFile)
    /\ UNCHANGED <<body, online, saved, hoard, hoardFile, trade>>

\* auction end, by an immortal.
ForceEnd(i) ==
    /\ Idle /\ auc[i] # Nil
    /\ AucUpdate([auc EXCEPT ![i].left = 0])
    /\ UNCHANGED <<body, online, hoard, disk, trade>>

\* Whoever is to have the item: the bidder, if he still exists, or else the owner.
Winner(a) == IF a.bidder # Nil /\ Now(a.bidder) # Nil THEN a.bidder ELSE a.owner

\* Mutant: the winner is not charged.
SettledFree(i, w) ==
    [p \in Player |->
        IF p = w THEN Take(Now(p), {i})
        ELSE IF w = auc[i].bidder /\ p = auc[i].owner /\ Now(p) # Nil
        THEN Gain(Now(p), auc[i].kind, auc[i].amount)
        ELSE body[p]]

\* auction_give(auc, w, w = bidder): players who are not there are loaded.
Settled(i, w) ==
    [p \in Player |->
        IF p = w /\ w = auc[i].bidder THEN Gain(Take(Now(p), {i}), auc[i].kind, -auc[i].amount)
        ELSE IF p = w THEN Take(Now(p), {i})
        ELSE IF w = auc[i].bidder /\ p = auc[i].owner /\ Now(p) # Nil
        THEN Gain(Now(p), auc[i].kind, auc[i].amount)
        ELSE body[p]]

\* Mutant: the owner, who has been paid, is not saved.
ToSaveWinner(i, w) == <<w>>

\* Whom auction_give saves, in this order.
ToSave(i, w) ==
    IF w = auc[i].bidder /\ Now(auc[i].owner) # Nil THEN <<w, auc[i].owner>> ELSE <<w>>

\* auction_give, auction_del.  The item is destroyed if nobody is left to have it.
Give(i, w, rest) ==
    /\ IF Now(w) = Nil
       THEN body' = body /\ todo' = rest
       ELSE body' = Settled(i, w) /\ todo' = ToSave(i, w) \o rest
    /\ auc' = [auc EXCEPT ![i] = Nil]
    /\ UNCHANGED <<online, hoard, disk, trade>>

\* auction_end
End ==
    /\ ~Idle /\ Head(todo) \in Item
    /\ Give(Head(todo), Winner(auc[Head(todo)]), Tail(todo))

\* auction del, by an immortal: the owner has it back.
Cancel(i) ==
    /\ Idle /\ auc[i] # Nil
    /\ Give(i, auc[i].owner, <<Auctions>>)

-----------------------------------------------------------------------------
(* The bank, the treasury, purchases and taxes. *)

BankDeposit(p, n) ==
    /\ Idle /\ p \in online /\ with[p] = Nil /\ n <= body[p].gold
    /\ body' = [body EXCEPT ![p] = Gain(Gain(@, "gold", -n), "bank", n)]
    /\ todo' = <<p>>
    /\ UNCHANGED <<online, auc, hoard, disk, trade>>

BankWithdraw(p, n) ==
    /\ Idle /\ p \in online /\ with[p] = Nil /\ n <= Available(p, "bank")
    /\ body' = [body EXCEPT ![p] = Gain(Gain(@, "bank", -n), "gold", n)]
    /\ todo' = <<p>>
    /\ UNCHANGED <<online, auc, hoard, disk, trade>>

\* A quest point item becomes quest points.
CashIn(p, i) ==
    /\ Idle /\ p \in online /\ with[p] = Nil /\ i \in body[p].items \cap Token
    /\ body' = [body EXCEPT ![p] = Gain(Lose(@, {i}), "qp", 1)]
    /\ todo' = <<p>>
    /\ UNCHANGED <<online, auc, hoard, disk, trade>>

\* Whoever exists.
Someone == {p \in Player : Now(p) # Nil}

Holders(i) == {p \in Someone : i \in Now(p).items}

Nowhere(i) == Holders(i) = {} /\ auc[i] = Nil

\* do_token: quest points become a quest point item.  (Not in the trade room.)
MakeToken(p, i) ==
    /\ Idle /\ p \in online /\ with[p] = Nil /\ i \in Token /\ Nowhere(i)
    /\ Available(p, "qp") >= 1
    /\ body' = [body EXCEPT ![p] = Gain(Take(@, {i}), "qp", -1)]
    /\ todo' = <<p>>
    /\ UNCHANGED <<online, auc, hoard, disk, trade>>

\* Who is in the clan's hall is not in the trade room.
TreasuryDeposit(p, k, n) ==
    /\ Idle /\ p \in online \cap Clan /\ with[p] = Nil
    /\ n <= (IF k = "qp" THEN Available(p, "qp") ELSE body[p].gold)
    /\ body' = [body EXCEPT ![p] = Gain(@, k, -n)]
    /\ hoard' = [hoard EXCEPT ![k] = @ + n]
    /\ todo' = <<Treasury, p>>
    /\ UNCHANGED <<online, auc, disk, trade>>

TreasuryWithdraw(p, k, n) ==
    /\ Idle /\ p \in online \cap Clan /\ with[p] = Nil /\ n <= hoard[k]
    /\ body' = [body EXCEPT ![p] = Gain(@, k, n)]
    /\ hoard' = [hoard EXCEPT ![k] = @ - n]
    /\ todo' = <<Treasury, p>>
    /\ UNCHANGED <<online, auc, disk, trade>>

\* What p has promised: his bids, the gold he stakes, the price of what he trades.
Promised(p, k) ==
    Reserved(p, k) + (IF k = "bank" THEN stake[p] ELSE Cost * Cardinality(offer[p] \cap NoDrop))

\* spendqp, train, ...: quest points are spent, in the trade room too.
SpendQp(p, n) ==
    /\ Idle /\ p \in online /\ n <= Available(p, "qp")
    /\ Careful => body[p].qp - n >= Promised(p, "qp")
    /\ body' = [body EXCEPT ![p] = Gain(@, "qp", -n)]
    /\ todo' = <<p>>
    /\ UNCHANGED <<online, auc, hoard, disk, trade>>

\* spec_tax_man: from the bank, whatever is promised.
Tax(p, n) ==
    /\ Idle /\ p \in online /\ n <= body[p].bank
    /\ Careful => body[p].bank - n >= Promised(p, "bank")
    /\ body' = [body EXCEPT ![p] = Gain(@, "bank", -n)]
    /\ todo' = <<p>>
    /\ UNCHANGED <<online, auc, hoard, disk, trade>>

-----------------------------------------------------------------------------
(* Coming and going. *)

Enter(p) ==
    /\ Idle /\ p \notin online /\ saved[p] # Nil
    /\ online' = online \cup {p}
    /\ body' = [body EXCEPT ![p] = saved[p]]
    /\ UNCHANGED <<auc, hoard, disk, trade, todo>>

\* do_quit: he is saved, and leaves the room he is in.
Quit(p) ==
    /\ Idle /\ p \in online
    /\ saved' = [saved EXCEPT ![p] = body[p]]
    /\ Abort(p)
    /\ online' = online \ {p}
    /\ body' = [body EXCEPT ![p] = Nil]
    /\ UNCHANGED <<auc, aucFile, hoard, hoardFile, todo>>

\* Mutant: whoever bids may delete himself.
InvolvedOwner(p) == \E i \in Open : auc[i].owner = p

\* The auctions that keep a player from deleting himself.
Involved(p) == \E i \in Open : p \in {auc[i].owner, auc[i].bidder}

\* do_sdelete
Delete(p) ==
    /\ Idle /\ p \in online /\ ~Involved(p)
    /\ saved' = [saved EXCEPT ![p] = Nil]
    /\ Abort(p)
    /\ online' = online \ {p}
    /\ body' = [body EXCEPT ![p] = Nil]
    /\ UNCHANGED <<auc, aucFile, hoard, hoardFile, todo>>

-----------------------------------------------------------------------------
(* Files. *)

\* save_char_obj; whoever was loaded for it leaves again.
SaveChar ==
    /\ ~Idle /\ Head(todo) \in Player
    /\ LET p == Head(todo)
       IN  /\ saved' = [saved EXCEPT ![p] = body[p]]
           /\ body' = IF p \in online THEN body ELSE [body EXCEPT ![p] = Nil]
    /\ todo' = Tail(todo)
    /\ UNCHANGED <<online, auc, aucFile, hoard, hoardFile, trade>>

SaveAuctions ==
    /\ ~Idle /\ Head(todo) = Auctions
    /\ aucFile' = auc
    /\ todo' = Tail(todo)
    /\ UNCHANGED <<body, online, saved, auc, hoard, hoardFile, trade>>

SaveTreasuries ==
    /\ ~Idle /\ Head(todo) = Treasury
    /\ hoardFile' = hoard
    /\ todo' = Tail(todo)
    /\ UNCHANGED <<body, online, saved, auc, aucFile, hoard, trade>>

\* The machine stops, and the game starts again with what is on disk.
Restart ==
    /\ Careful => Idle
    /\ body' = [p \in Player |-> Nil] /\ online' = {}
    /\ auc' = aucFile /\ hoard' = hoardFile
    /\ Clear(Player)
    /\ todo' = <<>>
    /\ UNCHANGED disk

Init ==
    /\ body = [p \in Player |-> Nil] /\ online = {}
    /\ saved = Start
    /\ auc = [i \in Item |-> Nil] /\ aucFile = auc
    /\ hoard = [gold |-> 0, qp |-> 0] /\ hoardFile = hoard
    /\ with = [p \in Player |-> Nil] /\ offer = [p \in Player |-> {}]
    /\ stake = [p \in Player |-> 0] /\ accepts = [p \in Player |-> FALSE]
    /\ todo = <<>>

Next ==
    \/ \E p \in Player :
          \/ Enter(p) \/ Quit(p) \/ Delete(p)
          \/ TradeAbort(p) \/ TradeAccept(p) \/ TradeFinish(p)
          \/ \E q \in Player : TradeStart(p, q)
          \/ \E i \in Item : TradeAdd(p, i) \/ CashIn(p, i) \/ MakeToken(p, i)
                            \/ \E k \in Kinds : AuctionAdd(p, i, k)
          \/ \E n \in Amounts :
                \/ TradeGold(p, n) \/ BankDeposit(p, n) \/ BankWithdraw(p, n)
                \/ SpendQp(p, n) \/ Tax(p, n)
                \/ \E i \in Item : Bid(p, i, n)
                \/ \E k \in {"gold", "qp"} : TreasuryDeposit(p, k, n) \/ TreasuryWithdraw(p, k, n)
    \/ \E i \in Item : ForceEnd(i) \/ Cancel(i)
    \/ Tick \/ End \/ SaveChar \/ SaveAuctions \/ SaveTreasuries \/ Restart

\* A command goes on until it is done, and the game loop gets to auc_update once a
\* second however many commands there are (update.c: update_handler).
Fairness == SF_vars(Tick) /\ WF_vars(End \/ SaveChar \/ SaveAuctions \/ SaveTreasuries)

Spec == Init /\ [][Next]_vars /\ Fairness

-----------------------------------------------------------------------------
TypeOK ==
    /\ body \in [Player -> Body \cup {Nil}] /\ saved \in [Player -> Body \cup {Nil}]
    /\ online \subseteq Player
    /\ auc \in [Item -> Auction \cup {Nil}] /\ aucFile \in [Item -> Auction \cup {Nil}]
    /\ hoard \in [gold : Nat, qp : Nat] /\ hoardFile \in [gold : Nat, qp : Nat]
    /\ with \in [Player -> Player \cup {Nil}] /\ offer \in [Player -> SUBSET Item]
    /\ stake \in [Player -> Nat] /\ accepts \in [Player -> BOOLEAN]
    /\ todo \in Seq(Player \cup Item \cup {Auctions, Treasury})

ItemsOnce ==
    \A i \in Item :
        /\ Cardinality(Holders(i)) + (IF auc[i] = Nil THEN 0 ELSE 1) <= 1
        /\ Nowhere(i) => i \in Token \/ Someone # Player

DiskTrue ==
    Idle => /\ aucFile = auc /\ hoardFile = hoard
            /\ \A p \in online : saved[p] = body[p]

\* Every item is in one place, with a player (there or not) or in an auction, through
\* every trade, sale, return and restart: it is neither doubled nor lost, unless its
\* owner deletes himself or cashes it in.  Between commands the disk is as the game is,
\* so that a restart undoes nothing of what players have agreed on.
OnePlace == TypeOK /\ ItemsOnce /\ DiskTrue

\* All of his bids, and what he stakes in a trade, together (available_gold,
\* available_qps: "for non-auction related usage").
Funded ==
    \A p \in Someone : Now(p).bank >= Promised(p, "bank") /\ Now(p).qp >= Promised(p, "qp")

\* The owner and the bidder of an auction exist when it ends ("which should be never
\* because we disallow pdeleting while involved in the auction process", auction.c:54).
PartiesExist ==
    \A i \in Open : Now(auc[i].owner) # Nil /\ (auc[i].bidder # Nil => Now(auc[i].bidder) # Nil)

\* A trade is between two, both are there, and each still has what he offers.
TradeMutual ==
    \A p \in Player :
        /\ with[p] # Nil => with[with[p]] = p /\ {p, with[p]} \subseteq online
                            /\ offer[p] \subseteq body[p].items
                            /\ ~(accepts[p] /\ accepts[with[p]])
        /\ with[p] = Nil => offer[p] = {} /\ stake[p] = 0 /\ ~accepts[p]

\* Every promise can be kept at any time: whoever made it exists and has all that he
\* promised in all auctions and in his trade together, to somebody who is there too.
PromisesHold == Funded /\ PartiesExist /\ TradeMutual

Purse(k) == [p \in Player |-> IF p \in Someone THEN Now(p)[k] ELSE 0]

Total(k) == SumFunction(Purse(k)) + (IF k = "bank" THEN 0 ELSE hoard[k])

Tokens == Cardinality({i \in Token : ~Nowhere(i)})

\* Gold and quest points (those in tokens, too) are never made: sales, trades, deposits
\* and withdrawals move them, and whoever pays loses what the other gains.
NothingFromNowhere ==
    [][/\ Total("gold")' + Total("bank")' <= Total("gold") + Total("bank")
       /\ Total("qp")' + Tokens' <= Total("qp") + Tokens]_vars

\* Once a side has accepted, neither side's offer changes until the trade is over.
Binding ==
    [][\A p \in Player :
         accepts[p] /\ with[p] # Nil /\ with'[p] = with[p] =>
             \A q \in {p, with[p]} : offer'[q] = offer[q] /\ stake'[q] = stake[q]]_vars

\* Every auction ends, however often late bids prolong it: each of them has to be
\* higher, and gold is finite.
AuctionsEnd == \A i \in Item : auc[i] # Nil ~> auc[i] = Nil
=============================================================================
