-------------------------- MODULE CustomerArrivals --------------------------
(***************************************************************************)
(* The producer of customers: every tick draws how many arrive, mints an   *)
(* identity for each, a customer of some market and an address to browse   *)
(* from, and dispatches one arrival for each to the queue of the journeys. *)
(***************************************************************************)
EXTENDS Integers, Sequences, FiniteSets

CONSTANTS
    Towns,              \* per market, the locations of its catalogue
    Hosts,              \* the addresses of a location's /16
    Mixes,              \* the market mixes an operator stores, by their markets
    MaxPerTick,         \* max_arrivals_per_tick
    MaxArrivals         \* bound: identities minted, and arrivals dispatched

VARIABLES
    mix,                \* the markets the identity pool draws from
    issued,             \* _issued_ips: the addresses handed out
    due,                \* arrivals the current tick has still to dispatch
    made,               \* every identity minted since the process started
    queue,              \* the arrivals that wait to be claimed
    wants               \* the intent of every arrival that was dispatched

arrivalVars == <<mix, issued, due, made, queue, wants>>

Markets == DOMAIN Towns
Addresses == (UNION {Towns[m] : m \in Markets}) \X Hosts

(* What a customer comes for: to browse, or to buy one product or two.     *)
Intents == {[type |-> "browse_discover", products |-> 0]}
             \union [type : {"buy_products"}, products : 1 .. 2]

Init ==
    /\ mix \in Mixes /\ issued = {} /\ due = 0
    /\ made = <<>> /\ queue = <<>> /\ wants = <<>>

(* Where a visitor browses from: home, elsewhere in their own country, or  *)
(* any location of another market, which the shop need not sell to.        *)
BrowsingFrom(country, home) ==
    LET domestic == Towns[country] \ {home}
        foreign == UNION {Towns[m] : m \in Markets \ {country}}
    IN  {home} \union domestic \union foreign

(* A host of the location that nobody was given, or any of them once the   *)
(* location has none left: a thousand draws do not miss a free one.        *)
MintIp(here) ==
    LET free == ({here} \X Hosts) \ issued
    IN  IF free = {} THEN {here} \X Hosts ELSE free

(* The addresses that pick may return.                                     *)
Pick ==
    UNION {UNION {UNION {MintIp(here) : here \in BrowsingFrom(country, home)}
                    : home \in Towns[country]}
             : country \in mix}

(* Mutant: a changed mix builds a new pool, which has issued nothing.      *)
SetMarketMixAnew(new) ==
    /\ mix' = new
    /\ issued' = IF new = mix THEN issued ELSE {}

(* The stored mix is taken over in place; what was issued stays issued.    *)
SetMarketMix(new) == mix' = new /\ UNCHANGED issued

Tick ==
    /\ due = 0 /\ Len(made) < MaxArrivals /\ Len(wants) < MaxArrivals
    /\ \E new \in Mixes : SetMarketMix(new)
    /\ due' \in 1 .. MaxPerTick /\ Len(wants) + due' <= MaxArrivals
    /\ UNCHANGED <<made, queue, wants>>

(* build_arrival: the address is issued before the arrival is sent.        *)
Build(ip) ==
    /\ due > 0 /\ Len(made) < MaxArrivals /\ Len(wants) < MaxArrivals
    /\ issued' = issued \union {ip}
    /\ made' = Append(made, [ip |-> ip, full |-> {ip[1]} \X Hosts \subseteq issued])
    /\ UNCHANGED mix

Dispatch ==
    \E ip \in Pick, intent \in Intents :
        /\ Build(ip)
        /\ wants' = Append(wants, intent)
        /\ queue' = Append(queue, Len(wants'))
        /\ due' = due - 1

(* The arrival is nobody's, and the rest of the tick is abandoned with it. *)
DispatchRaises ==
    \E ip \in Pick :
        /\ Build(ip)
        /\ due' = 0
        /\ UNCHANGED <<queue, wants>>

(* The process dies: the pool and its memory go, what was sent stays sent. *)
Restart ==
    /\ mix' \in Mixes /\ issued' = {} /\ due' = 0 /\ made' = <<>>
    /\ UNCHANGED <<queue, wants>>

=============================================================================
