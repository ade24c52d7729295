--------------------------- MODULE CustomerJourney ---------------------------
(***************************************************************************)
(* The service that drives one simulated customer per arrival: a browser   *)
(* context, a walk through the states of a journey, and one row of the     *)
(* activity database that says how it went.                                *)
(***************************************************************************)
EXTENDS Integers, Sequences, FiniteSets

CONSTANTS
    Arrivals,           \* the arrivals that can be claimed: 1, 2, ...
    Slots               \* journey_slots

VARIABLES
    serving,            \* the lifespan of the service is open
    phase,              \* where the handler of each arrival is
    session,            \* the walk of each arrival: JourneySession.data
    summary,            \* what is to be recorded of each arrival
    rows,               \* the table journey_activity, by arrival
    contexts,           \* the browser contexts that are open
    stranded,           \* contexts whose close raised
    orders,             \* the shop's orders of each arrival
    unwritten           \* arrivals whose row the database refused

journeyVars == <<serving, phase, session, summary, rows, contexts, stranded,
                 orders, unwritten>>

-----------------------------------------------------------------------------
(* The graphs                                                              *)

Shopping == <<"category", "catalog", "product", "add_to_cart">>
Checkout == <<"proceed_to_checkout", "cart", "checkout_personal", "checkout_address",
              "checkout_shipping", "checkout_payment", "confirmation">>

Graph == [
    guest_checkout |-> <<"landing">> \o Shopping \o Checkout,
    add_to_cart_abandon |-> <<"landing">> \o Shopping \o <<"continue_shopping", "exit">>,
    multi_item_checkout |->
        <<"landing">> \o Shopping \o <<"continue_shopping">> \o Shopping \o Checkout]

JourneyFromArrival(intent) ==
    IF intent.type = "browse_discover" THEN "add_to_cart_abandon"
    ELSE IF intent.products > 1 THEN "multi_item_checkout" ELSE "guest_checkout"

-----------------------------------------------------------------------------
(* One walk                                                                *)

NoWalk == [journey |-> "none", at |-> 0, page |-> "none", cart |-> 0, error |-> FALSE,
           confirmed |-> FALSE, reference |-> FALSE, abandoned |-> FALSE,
           from |-> "none"]

Begin(journey) ==
    [NoWalk EXCEPT !.journey = journey, !.at = 1, !.page = "shop"]

Current(walk) == Graph[walk.journey][walk.at]
Last(walk) == IF walk.at = 1 THEN "none" ELSE Graph[walk.journey][walk.at - 1]

(* enter() returned the next state, or None in the last one.               *)
Onward(walk) == [walk EXCEPT !.at = @ + 1]
Terminal(walk) == walk.at = Len(Graph[walk.journey])

(* Once the walk is over only what the summary reads is kept of it.        *)
Stopped(walk) == [walk EXCEPT !.journey = "none", !.at = 0, !.page = "none", !.cart = 0]

Raised(walk) == [walk EXCEPT !.error = TRUE]

(* Mutant: whoever comes out of the payment counts as confirmed.           *)
ConfirmedAnyway(walk) ==
    {[walk EXCEPT !.confirmed = TRUE, !.reference = found] : found \in BOOLEAN}

(* The confirmation page is told by its address; the reference is read off *)
(* a summary block, which the shop has on no other page, and is absent     *)
(* rather than guessed.                                                    *)
Confirmed(walk) ==
    IF walk.page = "confirmation"
    THEN {[walk EXCEPT !.confirmed = TRUE, !.reference = found] : found \in BOOLEAN}
    ELSE {walk}

Abandoned(walk) == [walk EXCEPT !.abandoned = TRUE, !.from = Last(walk)]

NoSummary == [status |-> "none", completed |-> FALSE, abandoned |-> FALSE,
              from |-> "none", reference |-> FALSE]

SummaryOf(walk) ==
    [status |-> IF walk.error THEN "error" ELSE "success",
     completed |-> walk.confirmed, abandoned |-> walk.abandoned,
     from |-> walk.from, reference |-> walk.reference]

InfrastructureFailure == [NoSummary EXCEPT !.status = "error"]

Init ==
    /\ serving = FALSE
    /\ phase = [a \in Arrivals |-> "none"]
    /\ session = [a \in Arrivals |-> NoWalk]
    /\ summary = [a \in Arrivals |-> NoSummary]
    /\ rows = [a \in Arrivals |-> NoSummary]
    /\ contexts = {} /\ stranded = {} /\ unwritten = {}
    /\ orders = [a \in Arrivals |-> 0]

InHand == {a \in Arrivals : phase[a] \notin {"none", "ended", "expired", "lost"}}

browserVars == <<contexts, stranded>>
recordVars == <<rows, unwritten>>

(* browser_lifespan: Chromium is up and the activity table answers.  When  *)
(* it does not, the process does not serve and is started again.           *)
Boot ==
    /\ ~serving /\ serving' = TRUE
    /\ UNCHANGED <<phase, session, summary, recordVars, browserVars, orders>>

(* A free slot takes the arrival.                                          *)
Claim(a) ==
    /\ serving /\ phase[a] = "none" /\ Cardinality(InHand) < Slots
    /\ phase' = [phase EXCEPT ![a] = "claimed"]
    /\ UNCHANGED <<serving, session, summary, recordVars, browserVars, orders>>

(* Its time to live is over when a slot gets to it: it never runs.         *)
Expire(a) ==
    /\ serving /\ phase[a] = "none" /\ Cardinality(InHand) < Slots
    /\ phase' = [phase EXCEPT ![a] = "expired"]
    /\ UNCHANGED <<serving, session, summary, recordVars, browserVars, orders>>

NewContext(a) ==
    /\ phase[a] = "claimed"
    /\ contexts' = contexts \union {a}
    /\ phase' = [phase EXCEPT ![a] = "opened"]
    /\ UNCHANGED <<serving, session, summary, recordVars, stranded, orders>>

(* add_init_script, new_page: the walk begins.                             *)
NewPage(a, intent) ==
    /\ phase[a] = "opened"
    /\ session' = [session EXCEPT ![a] = Begin(JourneyFromArrival(intent))]
    /\ phase' = [phase EXCEPT ![a] = "walking"]
    /\ UNCHANGED <<serving, summary, recordVars, browserVars, orders>>

(* Mutant: a failed infrastructure is tried again, in a new context.       *)
InfrastructureRetried(a) ==
    /\ phase[a] \in {"claimed", "opened", "leaving"}
    /\ phase' = [phase EXCEPT ![a] = "claimed"]
    /\ session' = [session EXCEPT ![a] = NoWalk]
    /\ contexts' = contexts \ {a}
    /\ UNCHANGED <<serving, summary, recordVars, stranded, orders>>

(* new_context, the init script, new_page or the close of the page raises: *)
(* what the walk knew is dropped, and the run is recorded as an error.     *)
InfrastructureFails(a) ==
    /\ phase[a] \in {"claimed", "opened", "leaving"}
    /\ summary' = [summary EXCEPT ![a] = InfrastructureFailure]
    /\ session' = [session EXCEPT ![a] = NoWalk]
    /\ phase' = [phase EXCEPT ![a] = "recording"]
    /\ UNCHANGED <<serving, recordVars, browserVars, orders>>

-----------------------------------------------------------------------------
(* The states of a journey                                                 *)

(* The walk goes on, or stops after its last state or its first error.     *)
Walked(a, walk) ==
    LET stops == walk.error \/ Terminal(walk)
    IN  /\ session' = [session EXCEPT ![a] = IF stops THEN Stopped(walk) ELSE Onward(walk)]
        /\ phase' = [phase EXCEPT ![a] = IF stops THEN "leaving" ELSE "walking"]
        /\ UNCHANGED <<serving, summary, recordVars, browserVars>>

(* A page, a form or a button: landing, category, catalog, product,        *)
(* continue_shopping, proceed_to_checkout, cart and the first checkout     *)
(* steps act on the shop in no way that outlives the page.                 *)
Browse(a) ==
    /\ phase[a] = "walking"
    /\ Current(session[a]) \notin {"add_to_cart", "checkout_payment", "confirmation", "exit"}
    /\ Walked(a, session[a])
    /\ UNCHANGED orders

(* Any state may raise: a page or an element that does not show in time, a *)
(* catalog with nothing in stock.                                          *)
StateRaises(a) ==
    /\ phase[a] = "walking" /\ Current(session[a]) # "exit"
    /\ Walked(a, Raised(session[a]))
    /\ UNCHANGED orders

(* The click counts at the shop even when the modal never shows.           *)
AddToCart(a) ==
    /\ phase[a] = "walking" /\ Current(session[a]) = "add_to_cart"
    /\ LET filled == [session[a] EXCEPT !.cart = @ + 1]
       IN  Walked(a, filled) \/ Walked(a, Raised(filled))
    /\ UNCHANGED orders

(* The order is placed by the click; the page that says so may come too    *)
(* late, and then the state raises over an order that exists.              *)
PlaceOrder(a) ==
    /\ phase[a] = "walking" /\ Current(session[a]) = "checkout_payment"
    /\ session[a].cart > 0
    /\ orders' = [orders EXCEPT ![a] = @ + 1]
    /\ LET emptied == [session[a] EXCEPT !.cart = 0]
       IN  \/ Walked(a, [emptied EXCEPT !.page = "confirmation"])
           \/ Walked(a, Raised(emptied))

(* The shop answers with another page and no order.                        *)
OrderRefused(a) ==
    /\ phase[a] = "walking" /\ Current(session[a]) = "checkout_payment"
    /\ Walked(a, session[a])
    /\ UNCHANGED orders

Confirm(a) ==
    /\ phase[a] = "walking" /\ Current(session[a]) = "confirmation"
    /\ \E walk \in Confirmed(session[a]) : Walked(a, walk)
    /\ UNCHANGED orders

Exit(a) ==
    /\ phase[a] = "walking" /\ Current(session[a]) = "exit"
    /\ Walked(a, Abandoned(session[a]))
    /\ UNCHANGED orders

-----------------------------------------------------------------------------
(* The end of a run                                                        *)

ClosePage(a) ==
    /\ phase[a] = "leaving"
    /\ summary' = [summary EXCEPT ![a] = SummaryOf(session[a])]
    /\ session' = [session EXCEPT ![a] = NoWalk]
    /\ phase' = [phase EXCEPT ![a] = "recording"]
    /\ UNCHANGED <<serving, recordVars, browserVars, orders>>

(* An insert that does nothing when the arrival has a row.                 *)
Record(a) ==
    /\ phase[a] = "recording"
    /\ rows' = [rows EXCEPT ![a] = IF @ = NoSummary THEN summary[a] ELSE @]
    /\ summary' = [summary EXCEPT ![a] = NoSummary]
    /\ phase' = [phase EXCEPT ![a] = "closing"]
    /\ UNCHANGED <<serving, session, unwritten, browserVars, orders>>

(* Mutant: the database's error leaves the handler where it was.           *)
RecordHangs(a) ==
    /\ phase[a] = "recording"
    /\ unwritten' = unwritten \union {a}
    /\ summary' = [summary EXCEPT ![a] = NoSummary]
    /\ phase' = [phase EXCEPT ![a] = "stuck"]
    /\ UNCHANGED <<serving, rows, session, browserVars, orders>>

(* Best effort: the error is swallowed and the row is lost.                *)
RecordFails(a) ==
    /\ phase[a] = "recording"
    /\ unwritten' = unwritten \union {a}
    /\ summary' = [summary EXCEPT ![a] = NoSummary]
    /\ phase' = [phase EXCEPT ![a] = "closing"]
    /\ UNCHANGED <<serving, rows, session, browserVars, orders>>

(* Mutant: only a run whose walk could be summarised closes its context.   *)
CloseContextOfGoodRuns(a) ==
    /\ phase[a] = "closing"
    /\ contexts' = IF rows[a].status = "success" THEN contexts \ {a} ELSE contexts
    /\ phase' = [phase EXCEPT ![a] = "ended"]
    /\ UNCHANGED <<serving, session, summary, recordVars, stranded, orders>>

(* The context is closed whatever happened, if there is one.               *)
CloseContext(a) ==
    /\ phase[a] = "closing"
    /\ contexts' = contexts \ {a}
    /\ phase' = [phase EXCEPT ![a] = "ended"]
    /\ UNCHANGED <<serving, session, summary, recordVars, stranded, orders>>

(* Its close raises, which is logged: Chromium may keep it.                *)
CloseContextRaises(a) ==
    /\ phase[a] = "closing" /\ a \in contexts
    /\ stranded' = stranded \union {a}
    /\ phase' = [phase EXCEPT ![a] = "ended"]
    /\ UNCHANGED <<serving, session, summary, recordVars, contexts, orders>>

(* The process dies, and Chromium with it.  Nobody reclaims what it held.  *)
Crash ==
    /\ serving
    /\ serving' = FALSE
    /\ phase' = [a \in Arrivals |-> IF a \in InHand THEN "lost" ELSE phase[a]]
    /\ session' = [a \in Arrivals |-> NoWalk]
    /\ summary' = [a \in Arrivals |-> NoSummary]
    /\ contexts' = {} /\ stranded' = {}
    /\ UNCHANGED <<recordVars, orders>>

Walks(a) ==
    \/ Browse(a) \/ StateRaises(a) \/ AddToCart(a) \/ PlaceOrder(a)
    \/ OrderRefused(a) \/ Confirm(a) \/ Exit(a)

Closes(a) ==
    \/ ClosePage(a) \/ InfrastructureFails(a) \/ Record(a) \/ RecordFails(a)
    \/ CloseContext(a) \/ CloseContextRaises(a)
=============================================================================
