-------------------------- MODULE CustomersProofs --------------------------
(***************************************************************************)
(* Proofs about the customers and the service that drives them, for any    *)
(* catalogue of towns and hosts, any mixes, any number of slots, arrivals  *)
(* and crashes.                                                            *)
(***************************************************************************)
EXTENDS Customers, FiniteSetTheorems, SequenceTheorems, TLAPS

-----------------------------------------------------------------------------
(* The producer                                                             *)

\* What waits are arrivals that were sent, and no more are sent than the bound.
QueueType ==
    /\ Len(wants) \in 0..MaxArrivals
    /\ wants \in Seq(Producer!Intents)
    /\ queue \in Seq(Arrivals)

\* The pool remembers the address of everybody it made.
Remembered ==
    /\ made \in Seq([ip : Producer!Addresses, full : BOOLEAN])
    /\ mix \subseteq Producer!Markets
    /\ \A i \in 1..Len(made) : made[i].ip \in issued

PInv == QueueType /\ Remembered /\ FreshVisitors

-----------------------------------------------------------------------------
(* The service                                                              *)

Phases == {"none", "claimed", "opened", "walking", "leaving", "recording",
           "closing", "ended", "expired", "lost"}

Journeys == {"guest_checkout", "add_to_cart_abandon", "multi_item_checkout"}

ServiceType ==
    /\ phase \in [Arrivals -> Phases]
    /\ DOMAIN session = Arrivals
    /\ DOMAIN summary = Arrivals
    /\ DOMAIN rows = Arrivals
    /\ orders \in [Arrivals -> Nat]
    /\ contexts \subseteq Arrivals

\* Where a walk is, and what is true of the shop there: its order is placed by
\* the last step but one and nothing comes after the last.
OnItsWay(a) ==
    LET walk == session[a] IN
    /\ walk \in [journey : Journeys, at : Nat, page : {"shop", "confirmation"}, cart : Nat,
                 error : {FALSE}, confirmed : {FALSE}, reference : {FALSE},
                 abandoned : {FALSE}, from : {"none"}]
    /\ walk.at \in 1..Len(Service!Graph[walk.journey])
    /\ orders[a] = 0 \/ (orders[a] = 1 /\ Service!Current(walk) = "confirmation")
    /\ walk.page = "confirmation" => orders[a] = 1

\* What a walk that is over, a summary or a row says of the shop.
WalkIsTrue(walk, n) ==
    /\ walk.confirmed => n = 1 /\ ~walk.error
    /\ walk.reference => walk.confirmed
    /\ walk.abandoned => n = 0 /\ ~walk.confirmed /\ walk.from = "continue_shopping"

RowIsTrue(row, n) ==
    /\ row.completed => n = 1 /\ row.status = "success"
    /\ row.reference => row.completed
    /\ row.abandoned => n = 0 /\ ~row.completed /\ row.from = "continue_shopping"

\* What is known of an arrival in each phase of its handler.
Handled(a) ==
    /\ orders[a] <= 1
    /\ phase[a] \in {"none", "claimed", "opened"} => orders[a] = 0
    /\ phase[a] = "walking" => OnItsWay(a)
    /\ phase[a] = "leaving" => WalkIsTrue(session[a], orders[a])
    /\ phase[a] = "recording" =>
           RowIsTrue(summary[a], orders[a]) /\ summary[a].status # "none"
    /\ RowIsTrue(rows[a], orders[a])
    /\ phase[a] \notin {"closing", "ended", "lost"} => rows[a] = Service!NoSummary
    /\ phase[a] \in {"closing", "ended"} => rows[a].status # "none" \/ a \in unwritten

\* A context that is not stranded is of a handler that will close it.
ContextsInHand ==
    contexts \ stranded \subseteq
        {a \in Arrivals : phase[a] \in {"opened", "walking", "leaving", "recording", "closing"}}

\* No more arrivals are in hand than there are slots.
SlotsFit == Cardinality(Service!InHand) <= Slots

SInv ==
    /\ ServiceType
    /\ \A a \in Arrivals : Handled(a)
    /\ ContextsInHand
    /\ SlotsFit

CInv == PInv /\ SInv

-----------------------------------------------------------------------------
(* The graphs of the journeys                                               *)

States ==
    {"landing", "category", "catalog", "product", "add_to_cart", "continue_shopping",
     "proceed_to_checkout", "cart", "checkout_personal", "checkout_address",
     "checkout_shipping", "checkout_payment", "confirmation", "exit"}

\* A stretch of a journey in which nothing is ordered and nothing ends.
Plain(g) ==
    /\ g \in Seq(States)
    /\ \A n \in 1..Len(g) : g[n] \notin {"checkout_payment", "confirmation", "exit"}

\* A stretch that orders in the last step but one, if it does, confirms in the
\* last, and is left from where shopping goes on.
EndsWell(g) ==
    /\ g \in Seq(States)
    /\ Len(g) >= 1
    /\ \A n \in 1..Len(g) :
        /\ g[n] = "checkout_payment" => n < Len(g) /\ g[n + 1] = "confirmation"
        /\ g[n] = "confirmation" => n = Len(g)
        /\ g[n] = "exit" => n = Len(g) /\ n > 1 /\ g[n - 1] = "continue_shopping"

LEMMA PlainThenPlain ==
    ASSUME NEW g, NEW h, Plain(g), Plain(h)
    PROVE  Plain(g \o h)
BY ConcatProperties DEF Plain

LEMMA PlainThenEnd ==
    ASSUME NEW g, NEW h, Plain(g), EndsWell(h)
    PROVE  EndsWell(g \o h)
<1>1. g \in Seq(States) /\ h \in Seq(States) /\ Len(g) \in Nat /\ Len(h) \in Nat
  BY DEF Plain, EndsWell
<1>2. /\ g \o h \in Seq(States)
      /\ Len(g \o h) = Len(g) + Len(h)
      /\ \A n \in 1..(Len(g) + Len(h)) :
            (g \o h)[n] = IF n <= Len(g) THEN g[n] ELSE h[n - Len(g)]
  BY <1>1, ConcatProperties
<1> DEFINE w == g \o h
<1> HIDE DEF w
<1>3. ASSUME NEW n \in 1..Len(w), w[n] \in {"checkout_payment", "confirmation", "exit"}
      PROVE  /\ n - Len(g) \in 1..Len(h)
             /\ w[n] = h[n - Len(g)]
  BY <1>1, <1>2, <1>3 DEF Plain, w
<1>4. ASSUME NEW n \in 1..Len(w), w[n] = "checkout_payment"
      PROVE  n < Len(w) /\ w[n + 1] = "confirmation"
  <2>1. n - Len(g) < Len(h) /\ h[n - Len(g) + 1] = "confirmation"
    BY <1>3, <1>4 DEF EndsWell
  <2>2. n + 1 \in 1..Len(w) /\ (n + 1) - Len(g) = n - Len(g) + 1 /\ ~(n + 1 <= Len(g))
    BY <1>1, <1>2, <1>3, <1>4, <2>1 DEF w
  <2>3. QED
    BY <1>1, <1>2, <2>1, <2>2 DEF w
<1>5. ASSUME NEW n \in 1..Len(w), w[n] = "confirmation" PROVE n = Len(w)
  <2>1. n - Len(g) = Len(h)
    BY <1>3, <1>5 DEF EndsWell
  <2>2. QED
    BY <1>1, <1>2, <2>1 DEF w
<1>6. ASSUME NEW n \in 1..Len(w), w[n] = "exit"
      PROVE  n = Len(w) /\ n > 1 /\ w[n - 1] = "continue_shopping"
  <2>1. n - Len(g) = Len(h) /\ n - Len(g) > 1 /\ h[n - Len(g) - 1] = "continue_shopping"
    BY <1>3, <1>6 DEF EndsWell
  <2>2. n - 1 \in 1..Len(w) /\ (n - 1) - Len(g) = n - Len(g) - 1 /\ ~(n - 1 <= Len(g))
    BY <1>1, <1>2, <2>1 DEF w
  <2>3. QED
    BY <1>1, <1>2, <2>1, <2>2 DEF w
<1>7. Len(w) >= 1
  BY <1>1, <1>2 DEF EndsWell, w
<1>8. QED
  BY <1>2, <1>4, <1>5, <1>6, <1>7 DEF EndsWell, w

\* So do the graphs of all three journeys.
LEMMA GraphsEndWell ==
    \A journey \in Journeys : EndsWell(Service!Graph[journey])
<1>1. Plain(<<"landing">>) /\ Plain(<<"continue_shopping">>)
  BY DEF Plain, States
<1>2. Plain(Service!Shopping)
  <2>1. Service!Shopping \in Seq(States) /\ Len(Service!Shopping) = 4
    BY DEF Service!Shopping, States
  <2>2. \A n \in 1..4 : n = 1 \/ n = 2 \/ n = 3 \/ n = 4
    OBVIOUS
  <2>3. /\ Service!Shopping[1] = "category" /\ Service!Shopping[2] = "catalog"
        /\ Service!Shopping[3] = "product" /\ Service!Shopping[4] = "add_to_cart"
    BY DEF Service!Shopping
  <2>4. QED
    BY <2>1, <2>2, <2>3 DEF Plain
<1>3. EndsWell(Service!Checkout) /\ Len(Service!Checkout) = 7
  <2>1. Service!Checkout \in Seq(States) /\ Len(Service!Checkout) = 7
    BY DEF Service!Checkout, States
  <2>2. \A n \in 1..7 : n = 1 \/ n = 2 \/ n = 3 \/ n = 4 \/ n = 5 \/ n = 6 \/ n = 7
    OBVIOUS
  <2>3. /\ Service!Checkout[1] = "proceed_to_checkout" /\ Service!Checkout[2] = "cart"
        /\ Service!Checkout[3] = "checkout_personal"
        /\ Service!Checkout[4] = "checkout_address"
        /\ Service!Checkout[5] = "checkout_shipping"
        /\ Service!Checkout[6] = "checkout_payment"
        /\ Service!Checkout[7] = "confirmation"
    BY DEF Service!Checkout
  <2>4. QED
    BY <2>1, <2>2, <2>3 DEF EndsWell
<1>4. EndsWell(<<"continue_shopping", "exit">>)
  BY DEF EndsWell, States
<1>5. Plain(<<"landing">> \o Service!Shopping)
  BY <1>1, <1>2, PlainThenPlain
<1>6. Plain(<<"landing">> \o Service!Shopping \o <<"continue_shopping">> \o Service!Shopping)
  BY <1>1, <1>2, <1>5, PlainThenPlain
<1>7. EndsWell(Service!Graph["guest_checkout"])
  BY <1>3, <1>5, PlainThenEnd DEF Service!Graph
<1>8. EndsWell(Service!Graph["add_to_cart_abandon"])
  BY <1>4, <1>5, PlainThenEnd DEF Service!Graph
<1>9. EndsWell(Service!Graph["multi_item_checkout"])
  BY <1>3, <1>6, PlainThenEnd DEF Service!Graph

<1>10. QED
  BY <1>7, <1>8, <1>9 DEF Journeys

-----------------------------------------------------------------------------
(* The producer's steps                                                     *)

\* An address is handed out again only when its location has none left.
LEMMA PickIsFresh ==
    ASSUME mix \subseteq Producer!Markets, NEW ip \in Producer!Pick
    PROVE  /\ ip \in Producer!Addresses
           /\ ip \in issued => {ip[1]} \X Hosts \subseteq issued
<1>1. PICK country \in mix : \E home \in Towns[country] :
          \E here \in Producer!BrowsingFrom(country, home) : ip \in Producer!MintIp(here)
  BY DEF Producer!Pick
<1>2. PICK home \in Towns[country] :
          \E here \in Producer!BrowsingFrom(country, home) : ip \in Producer!MintIp(here)
  BY <1>1
<1>3. PICK here \in Producer!BrowsingFrom(country, home) : ip \in Producer!MintIp(here)
  BY <1>2
<1>4. here \in UNION {Towns[m] : m \in Producer!Markets}
  BY <1>3 DEF Producer!BrowsingFrom
<1>5. ip \in {here} \X Hosts
  BY <1>3 DEF Producer!MintIp
<1>6. ip[1] = here
  BY <1>5
<1>7. ip \in issued => {here} \X Hosts \subseteq issued
  BY <1>3, <1>5 DEF Producer!MintIp
<1>8. QED
  BY <1>4, <1>5, <1>6, <1>7 DEF Producer!Addresses

\* What build_arrival hands out is remembered, and tells its visitor apart.
LEMMA BuildKeeps ==
    ASSUME Remembered, FreshVisitors, NEW ip \in Producer!Pick, Producer!Build(ip)
    PROVE  Remembered' /\ FreshVisitors'
<1>1. ip \in Producer!Addresses /\ (ip \in issued => {ip[1]} \X Hosts \subseteq issued)
  BY PickIsFresh DEF Remembered
<1> DEFINE one == [ip |-> ip, full |-> {ip[1]} \X Hosts \subseteq issued]
<1>2. /\ one \in [ip : Producer!Addresses, full : BOOLEAN]
      /\ one.ip = ip /\ one.full = ({ip[1]} \X Hosts \subseteq issued)
  BY <1>1
<1>3. made' = Append(made, one) /\ issued' = issued \union {ip} /\ mix' = mix
  BY DEF Producer!Build
<1> HIDE DEF one
<1>4. /\ made' \in Seq([ip : Producer!Addresses, full : BOOLEAN])
      /\ Len(made) \in Nat /\ Len(made') = Len(made) + 1
      /\ \A i \in 1..Len(made) : made'[i] = made[i]
      /\ made'[Len(made) + 1] = one
  BY <1>2, <1>3 DEF Remembered
<1>5. Remembered'
  BY <1>2, <1>3, <1>4 DEF Remembered
<1>6. FreshVisitors'
  <2> SUFFICES ASSUME NEW i \in 1..Len(made'), NEW j \in 1..Len(made'),
                      i < j, made'[i].ip = made'[j].ip
               PROVE  made'[j].full
    BY DEF FreshVisitors
  <2>1. i \in 1..Len(made) /\ made'[i] = made[i]
    BY <1>4
  <2>2. CASE j \in 1..Len(made)
    BY <1>4, <2>1, <2>2 DEF FreshVisitors
  <2>3. CASE j = Len(made) + 1
    <3>1. made[i].ip = ip
      BY <1>2, <1>4, <2>1, <2>3
    <3>2. ip \in issued
      BY <2>1, <3>1 DEF Remembered
    <3>3. QED
      BY <1>1, <1>2, <1>4, <2>3, <3>2
  <2>4. QED
    BY <1>4, <2>2, <2>3
<1>7. QED
  BY <1>5, <1>6

LEMMA PInvInit == Init => PInv
BY CustomerBounds
   DEF Init, Producer!Init, PInv, QueueType, Remembered, FreshVisitors, Producer!Markets

LEMMA PInvStep == PInv /\ [Next]_vars => PInv'
<1> SUFFICES ASSUME PInv, [Next]_vars PROVE PInv'
  OBVIOUS
<1> USE CustomerBounds DEF PInv
<1>1. ASSUME Producer!Tick PROVE PInv'
  BY <1>1 DEF Producer!Tick, Producer!SetMarketMix, QueueType, Remembered, FreshVisitors,
              Producer!Markets
<1>2. ASSUME Producer!Dispatch PROVE PInv'
  <2>1. PICK ip \in Producer!Pick, intent \in Producer!Intents :
          /\ Producer!Build(ip)
          /\ wants' = Append(wants, intent)
          /\ queue' = Append(queue, Len(wants'))
    BY <1>2 DEF Producer!Dispatch
  <2>2. Len(wants) < MaxArrivals
    BY <2>1 DEF Producer!Build
  <2>3. /\ wants' \in Seq(Producer!Intents)
        /\ Len(wants') = Len(wants) + 1 /\ Len(wants') \in Arrivals
    BY <2>1, <2>2 DEF QueueType, Arrivals
  <2>4. queue' \in Seq(Arrivals)
    BY <2>1, <2>3 DEF QueueType
  <2>5. QueueType'
    BY <2>2, <2>3, <2>4 DEF QueueType, Arrivals
  <2>6. QED
    BY <2>1, <2>5, BuildKeeps
<1>3. ASSUME Producer!DispatchRaises PROVE PInv'
  BY <1>3, BuildKeeps DEF Producer!DispatchRaises, QueueType, Arrivals
<1>4. ASSUME Serve PROVE PInv'
  BY <1>4 DEF Serve, producerVars, QueueType, Remembered, FreshVisitors, Arrivals
<1>5. ASSUME Crash PROVE PInv'
  BY <1>5 DEF Crash, Producer!Restart, QueueType, Remembered, FreshVisitors, Arrivals,
              Producer!Markets
<1>6. CASE UNCHANGED <<producerVars, queue>>
  BY <1>6 DEF producerVars, QueueType, Remembered, FreshVisitors, Arrivals
<1>7. QED
  BY <1>1, <1>2, <1>3, <1>4, <1>5, <1>6 DEF Next, Produce, Boot, Open, Walk, Close, vars

\* Two visitors are told apart by their addresses while there are addresses.
THEOREM VisitorsAreFresh == Spec => []FreshVisitors
<1>1. PInv => FreshVisitors
  BY DEF PInv
<1>2. QED
  BY <1>1, PInvInit, PInvStep, PTL DEF Spec

-----------------------------------------------------------------------------
(* The service's steps                                                      *)

serviceOf(a) == <<phase[a], session[a], summary[a], rows[a], orders[a]>>

\* An arrival whose handler did not move is where it was.
LEMMA HandledKept ==
    ASSUME NEW a \in Arrivals, Handled(a), UNCHANGED serviceOf(a), unwritten \subseteq unwritten'
    PROVE  Handled(a)'
BY DEF serviceOf, Handled, OnItsWay, WalkIsTrue, RowIsTrue, Service!Current

\* A walk as the steps of a state leave it.
WalkRecord ==
    [journey : Journeys, at : Nat, page : {"shop", "confirmation"}, cart : Nat,
     error : BOOLEAN, confirmed : BOOLEAN, reference : BOOLEAN, abandoned : BOOLEAN,
     from : {"none", "continue_shopping"}]

\* A walk that stops tells the truth of the shop; one that goes on has ordered
\* only when its next state confirms it.
LEMMA WalkedHandled ==
    ASSUME ServiceType, NEW a \in Arrivals, Handled(a), phase[a] = "walking",
           NEW walk \in WalkRecord, Service!Walked(a, walk),
           walk.at \in 1..Len(Service!Graph[walk.journey]),
           orders'[a] \in {0, 1}, WalkIsTrue(walk, orders'[a]),
           ~walk.error /\ ~Service!Terminal(walk) =>
               /\ ~walk.confirmed /\ ~walk.reference /\ ~walk.abandoned /\ walk.from = "none"
               /\ \/ orders'[a] = 0
                  \/ Service!Graph[walk.journey][walk.at + 1] = "confirmation"
               /\ walk.page = "confirmation" => orders'[a] = 1
    PROVE  Handled(a)'
<1>1. rows[a] = Service!NoSummary /\ rows'[a] = rows[a]
  BY DEF Handled, Service!Walked, Service!recordVars
<1>2. RowIsTrue(rows[a], orders'[a])
  BY <1>1 DEF RowIsTrue, Service!NoSummary
<1>3. CASE walk.error \/ Service!Terminal(walk)
  <2>1. /\ phase' = [phase EXCEPT ![a] = "leaving"]
        /\ session' = [session EXCEPT ![a] = Service!Stopped(walk)]
    BY <1>3 DEF Service!Walked
  <2>2. WalkIsTrue(Service!Stopped(walk), orders'[a])
    BY DEF WalkIsTrue, Service!Stopped, WalkRecord
  <2>3. phase'[a] = "leaving" /\ session'[a] = Service!Stopped(walk)
    BY <2>1 DEF ServiceType
  <2>4. QED
    BY <1>1, <1>2, <2>2, <2>3 DEF Handled
<1>4. CASE ~walk.error /\ ~Service!Terminal(walk)
  <2> DEFINE next == Service!Onward(walk)
  <2>1. /\ phase' = [phase EXCEPT ![a] = "walking"]
        /\ session' = [session EXCEPT ![a] = next]
    BY <1>4 DEF Service!Walked
  <2>2. phase'[a] = "walking" /\ session'[a] = next
    BY <2>1 DEF ServiceType
  <2>3. Len(Service!Graph[walk.journey]) \in Nat
    BY GraphsEndWell DEF EndsWell, WalkRecord
  <2>4. walk.at + 1 \in 1..Len(Service!Graph[walk.journey])
    BY <1>4, <2>3 DEF Service!Terminal
  <2>5. /\ next \in [journey : Journeys, at : Nat, page : {"shop", "confirmation"},
                       cart : Nat, error : {FALSE}, confirmed : {FALSE},
                       reference : {FALSE}, abandoned : {FALSE}, from : {"none"}]
        /\ next.at = walk.at + 1 /\ next.journey = walk.journey /\ next.page = walk.page
    <3>1. walk.at \in Nat /\ walk.at + 1 \in Nat
      BY DEF WalkRecord
    <3>2. next \in WalkRecord /\ next.at = walk.at + 1
      BY <3>1 DEF Service!Onward, WalkRecord
    <3>3. /\ next.journey = walk.journey /\ next.page = walk.page
          /\ next.error = walk.error /\ next.confirmed = walk.confirmed
          /\ next.reference = walk.reference /\ next.abandoned = walk.abandoned
          /\ next.from = walk.from
      BY DEF Service!Onward, WalkRecord
    <3> HIDE DEF next
    <3>4. ~next.error /\ ~next.confirmed /\ ~next.reference /\ ~next.abandoned
          /\ next.from = "none"
      BY <1>4, <3>3
    <3>5. QED
      BY <3>2, <3>3, <3>4 DEF WalkRecord
  <2> HIDE DEF next
  <2>6. OnItsWay(a)'
    BY <1>4, <2>2, <2>4, <2>5 DEF OnItsWay, Service!Current
  <2>7. QED
    BY <1>1, <1>2, <2>2, <2>6 DEF Handled
<1>5. QED
  BY <1>3, <1>4

\* Every state of a journey leaves a walk that is as true as it found it.
LEMMA WalksHandled ==
    ASSUME ServiceType, NEW a \in Arrivals, Handled(a), Service!Walks(a)
    PROVE  Handled(a)'
<1> DEFINE walk == session[a]
           graph == Service!Graph[walk.journey]
<1>1. phase[a] = "walking" /\ OnItsWay(a)
  BY DEF Service!Walks, Service!Browse, Service!StateRaises, Service!AddToCart,
         Service!PlaceOrder, Service!OrderRefused, Service!Confirm, Service!Exit, Handled
<1>2. /\ walk \in WalkRecord
      /\ ~walk.error /\ ~walk.confirmed /\ ~walk.reference /\ ~walk.abandoned
      /\ walk.from = "none" /\ walk.journey \in Journeys /\ walk.at \in 1..Len(graph)
      /\ orders[a] = 0 \/ (orders[a] = 1 /\ graph[walk.at] = "confirmation")
      /\ walk.page = "confirmation" => orders[a] = 1
  BY <1>1 DEF OnItsWay, WalkRecord, Service!Current
<1>3. EndsWell(graph) /\ Service!Current(walk) = graph[walk.at]
  BY <1>2, GraphsEndWell DEF Service!Current
<1>4. orders[a] \in {0, 1} /\ (graph[walk.at] # "confirmation" => orders[a] = 0)
  BY <1>2
<1>5. graph[walk.at] = "confirmation" => walk.at = Len(graph)
  BY <1>2, <1>3 DEF EndsWell
<1> HIDE DEF graph
<1>6. ASSUME NEW raised, raised = Service!Raised(walk), UNCHANGED orders,
             Service!Walked(a, raised)
      PROVE  Handled(a)'
  <2>1. /\ raised \in WalkRecord /\ raised.error /\ raised.at = walk.at
        /\ raised.journey = walk.journey
        /\ ~raised.confirmed /\ ~raised.reference /\ ~raised.abandoned
    BY <1>2, <1>6 DEF Service!Raised, WalkRecord
  <2>2. WalkIsTrue(raised, orders'[a])
    BY <2>1 DEF WalkIsTrue
  <2>3. QED
    BY <1>1, <1>2, <1>4, <1>6, <2>1, <2>2, WalkedHandled DEF graph
<1>7. CASE Service!Browse(a) \/ Service!OrderRefused(a)
  <2>1. Service!Walked(a, walk) /\ UNCHANGED orders /\ graph[walk.at] # "confirmation"
    BY <1>3, <1>7 DEF Service!Browse, Service!OrderRefused
  <2>2. WalkIsTrue(walk, orders'[a])
    BY <1>2 DEF WalkIsTrue
  <2>3. QED
    BY <1>1, <1>2, <1>4, <2>1, <2>2, WalkedHandled DEF graph, ServiceType
<1>8. CASE Service!StateRaises(a)
  BY <1>6, <1>8 DEF Service!StateRaises, ServiceType
<1>9. ASSUME NEW w \in WalkRecord, w.at = walk.at, w.journey = walk.journey,
             ~w.error /\ ~w.confirmed /\ ~w.reference /\ ~w.abandoned /\ w.from = "none",
             orders'[a] \in {0, 1}, w.page = "confirmation" => orders'[a] = 1,
             \/ orders'[a] = 0
             \/ graph[walk.at] = "checkout_payment" /\ walk.at < Len(graph),
             Service!Walked(a, w) \/ Service!Walked(a, Service!Raised(w))
      PROVE  Handled(a)'
  <2> DEFINE r == Service!Raised(w)
  <2>1. /\ r \in WalkRecord /\ r.error /\ r.at = walk.at /\ r.journey = walk.journey
        /\ ~r.confirmed /\ ~r.reference /\ ~r.abandoned
    BY <1>9 DEF Service!Raised, WalkRecord
  <2>2. WalkIsTrue(w, orders'[a]) /\ WalkIsTrue(r, orders'[a])
    BY <1>9, <2>1 DEF WalkIsTrue
  <2>3. CASE Service!Walked(a, r)
    <3> HIDE DEF r
    <3>1. QED
      BY <1>1, <1>2, <1>9, <2>1, <2>2, <2>3, WalkedHandled DEF graph
  <2>4. CASE Service!Walked(a, w)
    <3>1. \/ orders'[a] = 0
          \/ Service!Graph[w.journey][w.at + 1] = "confirmation"
      BY <1>2, <1>3, <1>9 DEF EndsWell, graph
    <3>2. QED
      BY <1>1, <1>2, <1>9, <2>2, <2>4, <3>1, WalkedHandled DEF graph
  <2>5. QED
    BY <1>9, <2>3, <2>4
<1>10. CASE Service!AddToCart(a)
  <2> DEFINE filled == [walk EXCEPT !.cart = walk.cart + 1]
  <2>1. /\ graph[walk.at] = "add_to_cart" /\ UNCHANGED orders
        /\ Service!Walked(a, filled) \/ Service!Walked(a, Service!Raised(filled))
    BY <1>3, <1>10 DEF Service!AddToCart
  <2>2. walk.cart + 1 \in Nat
    BY <1>2 DEF WalkRecord
  <2>3. /\ filled \in WalkRecord /\ filled.at = walk.at /\ filled.journey = walk.journey
        /\ ~filled.error /\ ~filled.confirmed /\ ~filled.reference /\ ~filled.abandoned
        /\ filled.from = "none" /\ filled.page = walk.page
    BY <1>2, <2>2 DEF WalkRecord
  <2>4. orders'[a] = 0
    BY <1>4, <2>1
  <2> HIDE DEF filled
  <2>5. filled.page = "confirmation" => orders'[a] = 1
    BY <1>2, <2>1, <2>3
  <2>6. QED
    BY <1>9, <2>1, <2>3, <2>4, <2>5
<1>11. CASE Service!PlaceOrder(a)
  <2> DEFINE emptied == [walk EXCEPT !.cart = 0]
             paid == [emptied EXCEPT !.page = "confirmation"]
  <2>1. /\ graph[walk.at] = "checkout_payment"
        /\ orders' = [orders EXCEPT ![a] = orders[a] + 1]
        /\ Service!Walked(a, paid) \/ Service!Walked(a, Service!Raised(emptied))
    BY <1>3, <1>11 DEF Service!PlaceOrder
  <2>2. walk.at < Len(graph)
    BY <1>2, <1>3, <2>1 DEF EndsWell, graph
  <2>3. orders'[a] = 1
    BY <1>4, <2>1 DEF ServiceType
  <2>4. /\ emptied \in WalkRecord /\ emptied.at = walk.at /\ emptied.journey = walk.journey
        /\ ~emptied.error /\ ~emptied.confirmed /\ ~emptied.reference /\ ~emptied.abandoned
        /\ emptied.from = "none"
    BY <1>2 DEF WalkRecord
  <2> HIDE DEF emptied
  <2>5. /\ paid \in WalkRecord /\ paid.at = walk.at /\ paid.journey = walk.journey
        /\ ~paid.error /\ ~paid.confirmed /\ ~paid.reference /\ ~paid.abandoned
        /\ paid.from = "none"
    BY <2>4 DEF WalkRecord
  <2> HIDE DEF paid
  <2>6. QED
    BY <1>9, <2>1, <2>2, <2>3, <2>4, <2>5
<1>12. CASE Service!Confirm(a)
  <2>1. graph[walk.at] = "confirmation" /\ UNCHANGED orders
    BY <1>3, <1>12 DEF Service!Confirm
  <2>2. PICK w \in Service!Confirmed(walk) : Service!Walked(a, w)
    BY <1>12 DEF Service!Confirm
  <2>3. /\ w \in WalkRecord /\ ~w.error /\ w.at = walk.at /\ w.journey = walk.journey
        /\ w.confirmed => orders[a] = 1
        /\ w.reference => w.confirmed
        /\ ~w.abandoned
    BY <1>2, <2>2 DEF Service!Confirmed, WalkRecord
  <2>4. WalkIsTrue(w, orders'[a]) /\ Service!Terminal(w)
    BY <1>5, <2>1, <2>3 DEF WalkIsTrue, Service!Terminal, graph
  <2>5. QED
    BY <1>1, <1>2, <1>4, <2>1, <2>2, <2>3, <2>4, WalkedHandled DEF graph, ServiceType
<1>13. CASE Service!Exit(a)
  <2>1. graph[walk.at] = "exit" /\ UNCHANGED orders /\ Service!Walked(a, Service!Abandoned(walk))
    BY <1>3, <1>13 DEF Service!Exit
  <2>2. Service!Last(walk) = "continue_shopping" /\ walk.at = Len(graph)
    BY <1>2, <1>3, <2>1 DEF EndsWell, Service!Last, graph
  <2> DEFINE w == Service!Abandoned(walk)
  <2>3. /\ w \in WalkRecord /\ ~w.error /\ w.at = walk.at /\ w.journey = walk.journey
        /\ ~w.confirmed /\ ~w.reference /\ w.from = "continue_shopping"
    BY <1>2, <2>2 DEF Service!Abandoned, WalkRecord
  <2>4. orders'[a] = 0
    BY <1>4, <2>1
  <2> HIDE DEF w
  <2>5. WalkIsTrue(w, orders'[a]) /\ Service!Terminal(w)
    BY <2>2, <2>3, <2>4 DEF WalkIsTrue, Service!Terminal, graph
  <2>6. Service!Walked(a, w)
    BY <2>1 DEF w
  <2>7. QED
    BY <1>1, <1>2, <2>1, <2>3, <2>4, <2>5, <2>6, WalkedHandled DEF graph, ServiceType
<1>14. QED
  BY <1>7, <1>8, <1>10, <1>11, <1>12, <1>13 DEF Service!Walks

\* The other steps of a handler.
LEMMA ClosesHandled ==
    ASSUME ServiceType, NEW a \in Arrivals, Handled(a), Service!Closes(a)
    PROVE  Handled(a)'
<1> USE DEF ServiceType
<1>1. CASE Service!ClosePage(a)
  <2>1. RowIsTrue(Service!SummaryOf(session[a]), orders[a])
    BY <1>1 DEF Service!ClosePage, Handled, WalkIsTrue, RowIsTrue, Service!SummaryOf
  <2>2. Service!SummaryOf(session[a]).status # "none"
    BY DEF Service!SummaryOf
  <2>3. phase'[a] = "recording" /\ summary'[a] = Service!SummaryOf(session[a])
    BY <1>1 DEF Service!ClosePage
  <2>4. UNCHANGED <<rows, orders>> /\ phase[a] = "leaving"
    BY <1>1 DEF Service!ClosePage, Service!recordVars
  <2>5. QED
    BY <2>1, <2>2, <2>3, <2>4 DEF Handled
<1>2. CASE Service!InfrastructureFails(a)
  <2>1. /\ RowIsTrue(Service!InfrastructureFailure, orders[a])
        /\ Service!InfrastructureFailure.status # "none"
    BY DEF RowIsTrue, Service!InfrastructureFailure, Service!NoSummary
  <2>2. /\ phase'[a] = "recording" /\ summary'[a] = Service!InfrastructureFailure
        /\ UNCHANGED <<rows, orders>> /\ phase[a] \in {"claimed", "opened", "leaving"}
    BY <1>2 DEF Service!InfrastructureFails, Service!recordVars
  <2>3. QED
    BY <2>1, <2>2 DEF Handled
<1>3. CASE Service!Record(a)
  <2>1. /\ rows'[a] = summary[a] /\ phase'[a] = "closing" /\ UNCHANGED <<orders, unwritten>>
        /\ phase[a] = "recording"
    BY <1>3 DEF Service!Record, Handled
  <2>2. QED
    BY <2>1 DEF Handled
<1>4. CASE Service!RecordFails(a)
  <2>1. /\ phase'[a] = "closing" /\ UNCHANGED <<rows, orders>> /\ a \in unwritten'
    BY <1>4 DEF Service!RecordFails
  <2>2. QED
    BY <2>1 DEF Handled
<1>5. CASE Service!CloseContext(a) \/ Service!CloseContextRaises(a)
  <2>1. /\ phase'[a] = "ended" /\ phase[a] = "closing" /\ UNCHANGED <<rows, orders, unwritten>>
    BY <1>5 DEF Service!CloseContext, Service!CloseContextRaises, Service!recordVars
  <2>2. QED
    BY <2>1 DEF Handled
<1>6. QED
  BY <1>1, <1>2, <1>3, <1>4, <1>5 DEF Service!Closes

LEMMA OpensHandled ==
    ASSUME ServiceType, NEW a \in Arrivals, Handled(a),
           \/ Service!Claim(a) \/ Service!Expire(a) \/ Service!NewContext(a)
           \/ \E intent : Service!NewPage(a, intent)
    PROVE  Handled(a)'
<1> USE DEF ServiceType
<1>1. CASE Service!Claim(a) \/ Service!Expire(a) \/ Service!NewContext(a)
  <2>1. /\ UNCHANGED <<rows, orders>>
        /\ phase[a] \in {"none", "claimed"} /\ phase'[a] \in {"claimed", "expired", "opened"}
    BY <1>1 DEF Service!Claim, Service!Expire, Service!NewContext, Service!recordVars
  <2>2. QED
    BY <2>1 DEF Handled
<1>2. ASSUME NEW intent, Service!NewPage(a, intent) PROVE Handled(a)'
  <2> DEFINE walk == Service!Begin(Service!JourneyFromArrival(intent))
             journey == Service!JourneyFromArrival(intent)
  <2>1. journey \in Journeys
    BY DEF Service!JourneyFromArrival, Journeys
  <2> HIDE DEF journey
  <2>2. /\ walk \in [journey : Journeys, at : Nat, page : {"shop", "confirmation"}, cart : Nat,
                      error : {FALSE}, confirmed : {FALSE}, reference : {FALSE},
                      abandoned : {FALSE}, from : {"none"}]
        /\ walk.at = 1 /\ walk.page = "shop" /\ walk.journey = journey
    BY <2>1 DEF Service!Begin, Service!NoWalk, journey
  <2>3. 1 \in 1..Len(Service!Graph[journey])
    BY <2>1, GraphsEndWell DEF EndsWell
  <2>4. /\ session'[a] = walk /\ phase'[a] = "walking" /\ phase[a] = "opened"
        /\ UNCHANGED <<rows, orders>>
    BY <1>2 DEF Service!NewPage, Service!recordVars
  <2> HIDE DEF walk
  <2>5. OnItsWay(a)'
    BY <2>2, <2>3, <2>4 DEF OnItsWay, Handled
  <2>6. QED
    BY <2>4, <2>5 DEF Handled
<1>3. QED
  BY <1>1, <1>2

\* What a handler does to what it shares with the others.
Moves(a) ==
    \/ Service!Claim(a) \/ Service!Expire(a) \/ Service!NewContext(a)
    \/ \E intent : Service!NewPage(a, intent)
    \/ Service!Walks(a) \/ Service!Closes(a)

\* A handler changes what is its own and no other's.
LEMMA MovesAlone ==
    ASSUME ServiceType, NEW a \in Arrivals, Moves(a)
    PROVE  /\ ServiceType'
           /\ unwritten \subseteq unwritten'
           /\ \A b \in Arrivals \ {a} : UNCHANGED serviceOf(b)
<1> USE DEF ServiceType, serviceOf
<1>1. CASE Service!Claim(a) \/ Service!Expire(a)
  BY <1>1 DEF Service!Claim, Service!Expire, Phases, Service!recordVars, Service!browserVars
<1>2. CASE Service!NewContext(a)
  BY <1>2 DEF Service!NewContext, Phases, Service!recordVars
<1>3. CASE \E intent : Service!NewPage(a, intent)
  BY <1>3 DEF Service!NewPage, Phases, Service!recordVars, Service!browserVars
<1>4. CASE Service!Walks(a)
  <2>1. PICK walk : Service!Walked(a, walk)
    BY <1>4 DEF Service!Walks, Service!Browse, Service!StateRaises, Service!AddToCart,
                Service!PlaceOrder, Service!OrderRefused, Service!Confirm, Service!Exit
  <2>2. /\ orders' \in [Arrivals -> Nat]
        /\ \A b \in Arrivals \ {a} : orders'[b] = orders[b]
    BY <1>4 DEF Service!Walks, Service!Browse, Service!StateRaises, Service!AddToCart,
                Service!PlaceOrder, Service!OrderRefused, Service!Confirm, Service!Exit
  <2>3. PICK p \in {"leaving", "walking"} :
          /\ phase' = [phase EXCEPT ![a] = p]
          /\ \E onward : session' = [session EXCEPT ![a] = onward]
    BY <2>1 DEF Service!Walked
  <2>4. UNCHANGED <<summary, rows, unwritten, contexts>>
    BY <2>1 DEF Service!Walked, Service!recordVars, Service!browserVars
  <2>5. phase' \in [Arrivals -> Phases] /\ DOMAIN session' = Arrivals
    BY <2>3 DEF Phases
  <2>6. QED
    BY <2>2, <2>3, <2>4, <2>5
<1>5. CASE Service!Closes(a)
  <2>1. CASE Service!ClosePage(a) \/ Service!InfrastructureFails(a)
    BY <2>1 DEF Service!ClosePage, Service!InfrastructureFails, Phases, Service!recordVars,
                Service!browserVars
  <2>2. CASE Service!Record(a) \/ Service!RecordFails(a)
    BY <2>2 DEF Service!Record, Service!RecordFails, Phases, Service!browserVars
  <2>3. CASE Service!CloseContext(a) \/ Service!CloseContextRaises(a)
    BY <2>3 DEF Service!CloseContext, Service!CloseContextRaises, Phases, Service!recordVars
  <2>4. QED
    BY <1>5, <2>1, <2>2, <2>3 DEF Service!Closes
<1>6. QED
  BY <1>1, <1>2, <1>3, <1>4, <1>5 DEF Moves

\* No handler leaves its context to nobody.
LEMMA MovesContexts ==
    ASSUME ServiceType, ContextsInHand, NEW a \in Arrivals, Moves(a)
    PROVE  ContextsInHand'
<1> USE DEF ServiceType, ContextsInHand
<1>1. CASE Service!Claim(a) \/ Service!Expire(a)
  BY <1>1 DEF Service!Claim, Service!Expire, Service!browserVars
<1>2. CASE Service!NewContext(a)
  BY <1>2 DEF Service!NewContext
<1>3. CASE \E intent : Service!NewPage(a, intent)
  BY <1>3 DEF Service!NewPage, Service!browserVars
<1>4. CASE Service!Walks(a)
  <2>1. PICK walk : Service!Walked(a, walk)
    BY <1>4 DEF Service!Walks, Service!Browse, Service!StateRaises, Service!AddToCart,
                Service!PlaceOrder, Service!OrderRefused, Service!Confirm, Service!Exit
  <2>2. PICK p \in {"leaving", "walking"} : phase' = [phase EXCEPT ![a] = p]
    BY <2>1 DEF Service!Walked
  <2>3. UNCHANGED <<contexts, stranded>>
    BY <2>1 DEF Service!Walked, Service!browserVars
  <2>4. QED
    BY <2>2, <2>3
<1>5. CASE Service!Closes(a)
  BY <1>5 DEF Service!Closes, Service!ClosePage, Service!InfrastructureFails, Service!Record,
              Service!RecordFails, Service!CloseContext, Service!CloseContextRaises,
              Service!browserVars
<1>6. QED
  BY <1>1, <1>2, <1>3, <1>4, <1>5 DEF Moves

\* Hands stay within the slots as long as only a free slot takes an arrival.
LEMMA HandsFit ==
    ASSUME NEW I \in SUBSET Arrivals, NEW J \in SUBSET Arrivals, NEW a,
           Cardinality(I) <= Slots,
           J \subseteq I \/ (J \subseteq I \union {a} /\ Cardinality(I) < Slots)
    PROVE  Cardinality(J) <= Slots
<1>1. IsFiniteSet(Arrivals)
  BY FS_Interval, CustomerBounds DEF Arrivals
<1>2. /\ IsFiniteSet(I) /\ Cardinality(I) \in Nat
      /\ IsFiniteSet(J) /\ Cardinality(J) \in Nat
  BY <1>1, FS_Subset, FS_CardinalityType
<1>3. CASE J \subseteq I
  BY <1>2, <1>3, FS_Subset, CustomerBounds
<1>4. CASE J \subseteq I \union {a} /\ Cardinality(I) < Slots
  <2>1. IsFiniteSet(I \union {a})
    BY <1>2, FS_AddElement
  <2>2. Cardinality(I \union {a}) = IF a \in I THEN Cardinality(I) ELSE Cardinality(I) + 1
    BY <1>2, FS_AddElement
  <2>3. Cardinality(J) <= Cardinality(I \union {a})
    BY <1>4, <2>1, FS_Subset
  <2>4. QED
    BY <1>2, <1>4, <2>2, <2>3, CustomerBounds
<1>5. QED
  BY <1>3, <1>4

\* Only a claim takes a slot, and only a free one.
LEMMA MovesSlots ==
    ASSUME ServiceType, SlotsFit, NEW a \in Arrivals, Moves(a)
    PROVE  SlotsFit'
<1> DEFINE I == Service!InHand
<1>1. I \in SUBSET Arrivals /\ I' \in SUBSET Arrivals
  BY DEF Service!InHand
<1>2. ASSUME Service!Claim(a)
      PROVE  I' \subseteq I \union {a} /\ Cardinality(I) < Slots
  <2>1. Cardinality(I) < Slots
    BY <1>2 DEF Service!Claim, Service!Cardinality, Cardinality
  <2>2. I' \subseteq I \union {a}
    BY <1>2 DEF Service!Claim, Service!InHand, ServiceType
  <2>3. QED
    BY <2>1, <2>2
<1>3. ASSUME ~Service!Claim(a) PROVE I' \subseteq I
  <2>1. \E p \in Phases : /\ phase' = [phase EXCEPT ![a] = p]
                          /\ p \in {"ended", "expired"} \/ a \in Service!InHand
    <3>1. CASE Service!Expire(a)
      BY <3>1 DEF Service!Expire, Phases
    <3>2. CASE Service!NewContext(a) \/ \E intent : Service!NewPage(a, intent)
      BY <3>2 DEF Service!NewContext, Service!NewPage, Phases, Service!InHand
    <3>3. CASE Service!Walks(a)
      <4>1. phase[a] = "walking" /\ \E walk : Service!Walked(a, walk)
        BY <3>3 DEF Service!Walks, Service!Browse, Service!StateRaises, Service!AddToCart,
                    Service!PlaceOrder, Service!OrderRefused, Service!Confirm, Service!Exit
      <4>2. \E p \in {"leaving", "walking"} : phase' = [phase EXCEPT ![a] = p]
        BY <4>1 DEF Service!Walked
      <4>3. QED
        BY <4>1, <4>2 DEF Phases, Service!InHand
    <3>4. CASE Service!Closes(a)
      BY <3>4 DEF Service!Closes, Service!ClosePage, Service!InfrastructureFails,
                  Service!Record, Service!RecordFails, Service!CloseContext,
                  Service!CloseContextRaises, Phases, Service!InHand
    <3>5. QED
      BY <1>3, <3>1, <3>2, <3>3, <3>4 DEF Moves
  <2>2. \/ /\ \A b \in Arrivals \ {a} : phase'[b] = phase[b]
           /\ phase'[a] \in {"ended", "expired"}
        \/ /\ \A b \in Arrivals \ {a} : phase'[b] = phase[b]
           /\ a \in Service!InHand
    BY <2>1 DEF ServiceType
  <2>3. ASSUME NEW b \in Arrivals, b \in I' PROVE b \in I
    <3>1. CASE b = a
      BY <2>2, <2>3, <3>1 DEF Service!InHand
    <3>2. CASE b # a
      BY <2>2, <2>3, <3>2 DEF Service!InHand
    <3>3. QED
      BY <3>1, <3>2
  <2>4. QED
    BY <1>1, <2>3
<1>4. Cardinality(I) <= Slots
  BY DEF SlotsFit
<1>5. Cardinality(I') <= Slots
  <2> HIDE DEF I
  <2>1. QED
    BY <1>1, <1>2, <1>3, <1>4, HandsFit
<1>6. QED
  BY <1>5 DEF SlotsFit

LEMMA MovesKeep ==
    ASSUME SInv, NEW a \in Arrivals, Moves(a)
    PROVE  SInv'
<1>1. ServiceType' /\ unwritten \subseteq unwritten'
  BY MovesAlone DEF SInv
<1>2. Handled(a)'
  BY WalksHandled, ClosesHandled, OpensHandled DEF SInv, Moves
<1>3. ASSUME NEW b \in Arrivals, b # a PROVE Handled(b)'
  <2>1. UNCHANGED serviceOf(b)
    BY <1>3, MovesAlone DEF SInv
  <2>2. QED
    BY <1>1, <2>1, HandledKept DEF SInv
<1>4. ContextsInHand' /\ SlotsFit'
  BY MovesContexts, MovesSlots DEF SInv
<1>5. QED
  BY <1>1, <1>2, <1>3, <1>4 DEF SInv

LEMMA SInvInit == Init => SInv
<1> SUFFICES ASSUME Init PROVE SInv
  OBVIOUS
<1> USE DEF Init, Service!Init
<1>1. ServiceType
  BY DEF ServiceType, Phases
<1>2. ASSUME NEW a \in Arrivals PROVE Handled(a)
  <2>1. phase[a] = "none" /\ orders[a] = 0 /\ rows[a] = Service!NoSummary
    OBVIOUS
  <2>2. RowIsTrue(Service!NoSummary, 0)
    BY DEF RowIsTrue, Service!NoSummary
  <2>3. QED
    BY <2>1, <2>2 DEF Handled
<1>3. ContextsInHand
  BY DEF ContextsInHand
<1>4. SlotsFit
  <2>1. Service!InHand = {}
    BY DEF Service!InHand
  <2>2. QED
    BY <2>1, FS_EmptySet, CustomerBounds DEF SlotsFit
<1>5. QED
  BY <1>1, <1>2, <1>3, <1>4 DEF SInv

\* The process's death loses what is in hand and nothing that was written.
LEMMA CrashKeeps ==
    ASSUME SInv, Service!Crash
    PROVE  SInv'
<1> USE DEF Service!Crash, Service!recordVars
<1>1. ServiceType'
  BY DEF SInv, ServiceType, Phases, Service!InHand
<1>2. ASSUME NEW a \in Arrivals PROVE Handled(a)'
  <2>1. /\ UNCHANGED <<rows, orders, unwritten>>
        /\ phase'[a] = IF a \in Service!InHand THEN "lost" ELSE phase[a]
    OBVIOUS
  <2>2. Handled(a)
    BY DEF SInv
  <2>3. CASE a \in Service!InHand
    BY <2>1, <2>2, <2>3 DEF Handled
  <2>4. CASE a \notin Service!InHand
    <3>1. phase[a] \in {"none", "ended", "expired", "lost"}
      BY <2>4 DEF Service!InHand
    <3>2. QED
      BY <2>1, <2>2, <2>4, <3>1 DEF Handled
  <2>5. QED
    BY <2>3, <2>4
<1>3. ContextsInHand'
  BY DEF ContextsInHand
<1>4. SlotsFit'
  <2>1. Service!InHand' = {}
    BY DEF Service!InHand
  <2>2. QED
    BY <2>1, FS_EmptySet, CustomerBounds DEF SlotsFit
<1>5. QED
  BY <1>1, <1>2, <1>3, <1>4 DEF SInv

LEMMA SInvStep == PInv /\ SInv /\ [Next]_vars => SInv'
<1> SUFFICES ASSUME PInv, SInv, [Next]_vars PROVE SInv'
  OBVIOUS
<1>1. CASE Serve
  <2>1. Head(queue) \in Arrivals
    BY <1>1 DEF Serve, PInv, QueueType
  <2>2. QED
    BY <1>1, <2>1, MovesKeep DEF Serve, Moves
<1>2. ASSUME NEW a \in Arrivals, Open(a) \/ Walk(a) \/ Close(a) PROVE SInv'
  BY <1>2, MovesKeep DEF Open, Walk, Close, Moves
<1>3. CASE Crash
  BY <1>3, CrashKeeps DEF Crash
<1>4. CASE UNCHANGED <<phase, session, summary, rows, contexts, stranded, orders, unwritten>>
  <2>1. ServiceType' /\ ContextsInHand' /\ SlotsFit'
    BY <1>4 DEF SInv, ServiceType, ContextsInHand, SlotsFit, Service!InHand
  <2>2. ASSUME NEW a \in Arrivals PROVE Handled(a)'
    BY <1>4, HandledKept DEF SInv, serviceOf
  <2>3. QED
    BY <2>1, <2>2 DEF SInv
<1>5. CASE Produce \/ Boot \/ UNCHANGED vars
  BY <1>4, <1>5 DEF Produce, Boot, Service!Boot, vars, serviceVars, Service!recordVars,
                    Service!browserVars
<1>6. QED
  BY <1>1, <1>2, <1>3, <1>5 DEF Next

LEMMA CInvAlways == Spec => []CInv
<1>1. Init => CInv
  BY PInvInit, SInvInit DEF CInv
<1>2. CInv /\ [Next]_vars => CInv'
  BY PInvStep, SInvStep DEF CInv
<1>3. QED
  BY <1>1, <1>2, PTL DEF Spec

\* No customer orders twice.
THEOREM NobodyOrdersTwice == Spec => []OneOrderPerArrival
<1>1. SInv => OneOrderPerArrival
  BY DEF SInv, Handled, OneOrderPerArrival
<1>2. QED
  BY <1>1, CInvAlways, PTL DEF CInv

\* What a row says of the shop is so.
THEOREM RowsTellTheTruth == Spec => []RowsAreTrue
<1>1. SInv => RowsAreTrue
  BY DEF SInv, ServiceType, Handled, RowIsTrue, RowsAreTrue
<1>2. QED
  BY <1>1, CInvAlways, PTL DEF CInv

\* A run that ends leaves its row and nothing else, unless what it asked refused,
\* and the contexts that are open are within the slots.
THEOREM NothingIsLeftBehind == Spec => []NothingLeftBehind
<1>1. SInv => NothingLeftBehind
  <2> SUFFICES ASSUME SInv PROVE NothingLeftBehind
    OBVIOUS
  <2>1. contexts \ stranded \in SUBSET Arrivals
    BY DEF SInv, ServiceType
  <2>2. contexts \ stranded \subseteq Service!InHand
    BY DEF SInv, ContextsInHand, Service!InHand
  <2>3. Service!InHand \in SUBSET Arrivals
    BY DEF Service!InHand
  <2>4. Cardinality(contexts \ stranded) <= Slots
    BY <2>1, <2>2, <2>3, HandsFit DEF SInv, SlotsFit
  <2>5. ASSUME NEW a \in Arrivals, phase[a] = "ended"
        PROVE  /\ rows[a].status # "none" \/ a \in unwritten
               /\ a \in contexts => a \in stranded
    BY <2>5 DEF SInv, Handled, ContextsInHand
  <2>6. QED
    BY <2>4, <2>5 DEF NothingLeftBehind
<1>2. QED
  BY <1>1, CInvAlways, PTL DEF CInv
=============================================================================
