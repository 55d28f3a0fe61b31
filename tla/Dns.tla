-------------------------------- MODULE Dns --------------------------------
(***************************************************************************)
(* The resolver of dns.c.  Whoever enters the game has the name of his     *)
(* address looked up: the name server is asked for the name of the address, *)
(* then for the address of that name, and the name is shown and cached if   *)
(* the two agree.  Questions and answers are datagrams, lost, late,         *)
(* repeated or out of order; an answer is matched by the number of its      *)
(* question alone, and numbers are drawn blindly: two lookups may share one, *)
(* or draw one that an older question still has.                            *)
(***************************************************************************)
EXTENDS Integers, Sequences, FiniteSets

CONSTANTS
    Ip, Name,
    Says,           \* the name server: a name for an address, an address or an alias for a name
    Id,             \* numbers of questions
    OnTheWay,       \* bound on the questions whose answers may still come
    Link, Player,   \* connections, and characters in the game
    LookupTime, GoodTime, BadTime, RetryTime,   \* seconds, DNS_EXPIRE_*
    Unknown

ASSUME DnsAssumption ==
    /\ Says \in [Ip \cup Name -> Ip \cup Name \cup {Unknown}]
    /\ \A i \in Ip : Says[i] \notin Ip
    /\ {LookupTime, GoodTime, BadTime, RetryTime} \subseteq Nat \ {0}
    /\ Ip \cap Name = {} /\ Unknown \notin Ip \cup Name

VARIABLES
    lookups,    \* dns.first_lookup, as it is searched
    cache,      \* dns.first_cache
    net,        \* questions asked whose answers may still come
    up, retry,  \* dns.fd # -1, seconds until dns.retry
    link,       \* ip and host of each descriptor
    player,     \* pcdata->ip and pcdata->host
    doubtful    \* history: the addresses of Doubts

dnsVars == <<lookups, cache, net, up, retry, link, player, doubtful>>

Entry == [id : Id, ip : Ip, host : Ip \cup Name \cup {Unknown}, ttl : Nat \ {0}]
Shown == [ip : Ip, host : Ip \cup Name \cup {Unknown}] \cup {Unknown}

Least(S) == CHOOSE i \in S : \A j \in S : i <= j

-----------------------------------------------------------------------------
(* dns_exec asks about x, an address or a name. *)

Matches(e, x) == x \in {e.ip, e.host}

\* The lookups that dns_exec goes on with.
UnderWay(L, x) == {i \in DOMAIN L : Matches(L[i], x)}

\* A question that finds too many on the way is lost, as any may be.
Ask(id, x) ==
    net' = IF up /\ Cardinality(net) < OnTheWay THEN net \cup {[id |-> id, about |-> x]} ELSE net

\* Mutant: the lookup begins anew.
AskAnew(i, x) == Ask(lookups[i].id, x) /\ lookups' = [lookups EXCEPT ![i].ttl = LookupTime]

\* The lookup that there is goes on, for as long as it had.
AskAgain(i, x) == Ask(lookups[i].id, x) /\ UNCHANGED lookups

\* Any number may be drawn, whoever has it ("yes, i know").
AskFirst(id, x) ==
    /\ Ask(id, x)
    /\ lookups' = Append(lookups, [id |-> id, ip |-> x, host |-> Unknown, ttl |-> LookupTime])

\* dns_exec(ip, TRUE)
Exec(x) ==
    IF \E e \in cache : Matches(e, x) THEN UNCHANGED <<lookups, net>>
    ELSE IF UnderWay(lookups, x) # {} THEN AskAgain(Least(UnderWay(lookups, x)), x)
         ELSE \E id \in Id : AskFirst(id, x)

-----------------------------------------------------------------------------
(* dns_packet_parse *)

\* extract_rrs: a name, for an address or as an alias; dns_exec(host, FALSE) asks on.
GotName(i, n) ==
    LET L == [lookups EXCEPT ![i].host = n] IN
    /\ lookups' = L
    /\ IF \E e \in cache : Matches(e, n) THEN UNCHANGED net ELSE Ask(L[Least(UnderWay(L, n))].id, n)
    /\ UNCHANGED <<cache, link, player>>

\* Mutant: the address is not compared.
ConfirmedAny(e, a) == [e EXCEPT !.ttl = GoodTime]

\* What becomes of the entry when the address of its name is known.
Confirmed(e, a) ==
    IF a = e.ip THEN [e EXCEPT !.ttl = GoodTime] ELSE [e EXCEPT !.ttl = BadTime, !.host = e.ip]

Renamed(s, e) == IF s # Unknown /\ s.ip = e.ip THEN [s EXCEPT !.host = e.host] ELSE s

GotAddress(i, a) ==
    LET e == Confirmed(lookups[i], a) IN
    /\ lookups' = SubSeq(lookups, 1, i - 1) \o SubSeq(lookups, i + 1, Len(lookups))
    /\ cache' = cache \cup {e}
    /\ link' = [d \in Link |-> Renamed(link[d], e)]
    /\ player' = [c \in Player |-> Renamed(player[c], e)]
    /\ UNCHANGED net

\* An answer to q, which may come again.
Answer(q) ==
    LET I == {i \in DOMAIN lookups : lookups[i].id = q.id} IN
    /\ up /\ q \in net /\ I # {} /\ Says[q.about] # Unknown
    /\ IF Says[q.about] \in Name THEN GotName(Least(I), Says[q.about]) ELSE GotAddress(Least(I), Says[q.about])
    /\ UNCHANGED <<up, retry>>

\* The question or the last answer to it is lost, is to nobody's question any more, or is an error.
Lose(q) == q \in net /\ net' = net \ {q} /\ UNCHANGED <<lookups, cache, up, retry, link, player>>

-----------------------------------------------------------------------------
(* dns_update, every second; dns_setup *)

Left(e) == e.ttl > 1

Older(e) == [e EXCEPT !.ttl = @ - 1]

\* The places S of a list, one after the other.
InOrder(S) == {f \in [1 .. Cardinality(S) -> S] : \A j, k \in DOMAIN f : j < k => f[j] < f[k]}

\* The one list that is left of L.
LeftOf(L) == {[k \in DOMAIN f |-> Older(L[f[k]])] : f \in InOrder({i \in DOMAIN L : Left(L[i])})}

\* dns_setup forgets all there is, whether the socket can be had or not.
Second ==
    /\ IF ~up /\ retry = 1
       THEN /\ lookups' = <<>> /\ cache' = {} /\ up' \in BOOLEAN /\ retry' = RetryTime
       ELSE /\ lookups' \in LeftOf(lookups)
            /\ cache' = {Older(e) : e \in {f \in cache : Left(f)}}
            /\ retry' = (IF up THEN retry ELSE retry - 1)
            /\ UNCHANGED up
    /\ UNCHANGED <<net, link, player>>

\* game_loop: the socket cannot be read.
Break == up /\ up' = FALSE /\ UNCHANGED <<lookups, cache, net, retry, link, player>>

-----------------------------------------------------------------------------
(* comm.c *)

\* dns_lookup
Known(i) == IF \E e \in cache : e.ip = i THEN (CHOOSE e \in cache : e.ip = i).host ELSE i

\* new_descriptor
NewDescriptor(d, i) ==
    /\ link[d] = Unknown /\ link' = [link EXCEPT ![d] = [ip |-> i, host |-> Known(i)]]
    /\ UNCHANGED <<lookups, cache, net, up, retry, player>>

\* close_socket: the character stays, without a link.
CloseSocket(d) ==
    /\ link[d] # Unknown /\ link' = [link EXCEPT ![d] = Unknown]
    /\ UNCHANGED <<lookups, cache, net, up, retry, player>>

\* nanny and check_reconnect: the character is told where he is from.
Arrive(d, c) ==
    /\ link[d] # Unknown /\ player' = [player EXCEPT ![c] = link[d]] /\ Exec(link[d].ip)
    /\ UNCHANGED <<cache, up, retry, link>>

\* nanny, at the first level: he keeps the name he was created or saved with, which is not followed here.
ArriveGreen(d) == link[d] # Unknown /\ Exec(link[d].ip) /\ UNCHANGED <<cache, up, retry, link, player>>

Leave(c) ==
    /\ player[c] # Unknown /\ player' = [player EXCEPT ![c] = Unknown]
    /\ UNCHANGED <<lookups, cache, net, up, retry, link>>

-----------------------------------------------------------------------------
(* History: the addresses that a lookup had when its number was another's, too,  *)
(* or when it drew one that a question still had, until nothing is left of them. *)

Numbered(L, i) == \E j \in DOMAIN L \ {i} : L[j].id = L[i].id

Began(L, i) == \A j \in DOMAIN lookups : lookups[j].ip # L[i].ip

Mixed(L) == {L[i].ip : i \in {j \in DOMAIN L : Numbered(L, j) \/ (Began(L, j) /\ \E q \in net : q.id = L[j].id)}}

Named(L, C, D, P) ==
    {L[i].ip : i \in DOMAIN L} \cup {e.ip : e \in C} \cup {D[d].ip : d \in {e \in Link : D[e] # Unknown}}
        \cup {P[c].ip : c \in {e \in Player : P[e] # Unknown}}

Doubts == doubtful' = (doubtful \cup Mixed(lookups')) \cap Named(lookups', cache', link', player')

-----------------------------------------------------------------------------
DnsInit ==
    /\ lookups = <<>> /\ cache = {} /\ net = {} /\ up \in BOOLEAN /\ retry = RetryTime
    /\ link = [d \in Link |-> Unknown] /\ player = [c \in Player |-> Unknown] /\ doubtful = {}

-----------------------------------------------------------------------------
DnsTypeOK ==
    /\ lookups \in Seq(Entry) /\ cache \subseteq Entry
    /\ net \subseteq [id : Id, about : Ip \cup Name]
    /\ up \in BOOLEAN /\ retry \in 1 .. RetryTime
    /\ link \in [Link -> Shown] /\ player \in [Player -> Shown] /\ doubtful \subseteq Ip

\* The name server leads from n to the address a, perhaps by aliases: a is wherever n and
\* what it says of each name are.
LeadsTo(n, a) ==
    \A S \in SUBSET (Ip \cup Name) :
        n \in S /\ (\A x \in S \cap Name : Says[x] \in S \cup {Unknown}) => a \in S

KnownAs == cache \cup {link[d] : d \in Link} \cup {player[c] : c \in Player}

ShownAsCached ==
    \A e \in cache, s \in KnownAs : s # Unknown /\ s.ip = e.ip => s.host = e.host

\* No answer, however late or repeated, and whichever lookup of two with one name it was
\* counted for, makes anybody known by a name that is not his address's own
\* (dns.c:609-622), unless a lookup of that address drew a number in use, or had its own
\* drawn by another (dns.c:166).  And whoever is connected, or came into the game above the
\* first level, is known by the name his address has in the cache, if he came before it
\* was found, after it or in between (dns.c:624-640, comm.c:1094, 3656, 3947).
NamesVerified ==
    /\ DnsTypeOK /\ ShownAsCached
    /\ \A s \in KnownAs : s # Unknown => s.ip \in doubtful \/ s.host = s.ip \/ (s.host \in Name /\ LeadsTo(s.host, s.ip))

\* Every lookup ends, answered or not, however often it is asked for again: only a new one
\* is given its time (dns.c:161-169, 675-683).
LookupsEnd ==
    \A a \in Ip : []<>(\A i \in DOMAIN lookups : lookups[i].ip # a)
=============================================================================
