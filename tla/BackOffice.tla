----------------------------- MODULE BackOffice -----------------------------
(***************************************************************************)
(* The clerks of the shop, while customers buy in it: the pass that takes  *)
(* bank wires for paid, the script that settles a backlog beside it, and   *)
(* the pass that fills the shelves up.  Every step is one call of the      *)
(* shop's webservice.                                                      *)
(***************************************************************************)
EXTENDS Integers, Sequences, FiniteSets

CONSTANTS
    Tracked,            \* the references whose stock is kept, in their order
    LowWaterMark, RefillTo,
    MaxPerPass, Page,   \* orders in one listing of the pass, of the script
    Refused,            \* the orders whose payment the shop refuses for good
    MaxOrders, MaxFaults

ASSUME ClerkBounds ==
    /\ MaxOrders \in Nat /\ MaxFaults \in Nat /\ Page \in Nat \ {0}
    /\ LowWaterMark \in Nat /\ RefillTo \in Nat /\ LowWaterMark <= RefillTo
    /\ MaxPerPass \in Nat \ {0}

(* Orders that fail for good stay at the head of every listing: they must  *)
(* leave room in it.                                                       *)
ASSUME RefusedFitInAPass == IsFiniteSet(Refused) /\ Cardinality(Refused) < MaxPerPass

VARIABLES
    quantity, listed,   \* the shop's stock, and the references it knows
    state,              \* the state of every order, in the order they were placed
    accepted,           \* the payment-accepted rows in each order's history
    late,               \* acceptances the shop still works on, their caller gone
    pass,               \* the orders the settlement pass has still to accept
    script,             \* the backlog script: where it is, and what it has listed
    shared,             \* orders that were in two hands at once
    round,              \* the refill pass: the product it is at, what it read there
    faults              \* bound: calls that were cut

shopVars == <<quantity, listed, state, accepted>>
paymentVars == <<pass, script, late, shared>>
vars == <<shopVars, paymentVars, round, faults>>

Products == {Tracked[n] : n \in 1 .. Len(Tracked)}
Orders == DOMAIN state

Idle == [at |-> 0, stock |-> -1]
NoScript == [at |-> "off", offset |-> 0, found |-> {}]

Init ==
    /\ quantity = [p \in Products |-> LowWaterMark]
    /\ listed \in SUBSET Products
    /\ state = <<>> /\ accepted = <<>>
    /\ late = {} /\ pass = {} /\ shared = {}
    /\ script = NoScript /\ round = Idle /\ faults = 0

-----------------------------------------------------------------------------
(* The shop                                                                *)

(* A customer buys one: the stock goes down, the order awaits its wire.    *)
Buy(p) ==
    /\ p \in listed /\ quantity[p] > 0 /\ Len(state) < MaxOrders
    /\ quantity' = [quantity EXCEPT ![p] = @ - 1]
    /\ state' = Append(state, "awaiting")
    /\ accepted' = Append(accepted, 0)
    /\ UNCHANGED <<listed, paymentVars, round, faults>>

(* An order_history row moves its order, whatever state it was in.         *)
MarkPaid(o) ==
    /\ accepted' = [accepted EXCEPT ![o] = @ + 1]
    /\ state' = [state EXCEPT ![o] = "paid"]
    /\ UNCHANGED <<quantity, listed>>

(* The shop finishes an acceptance whose caller has stopped waiting.       *)
LateLands(o) ==
    /\ o \in late
    /\ MarkPaid(o)
    /\ late' = late \ {o}
    /\ UNCHANGED <<pass, script, shared, round, faults>>

Awaiting == {o \in Orders : state[o] = "awaiting"}

-----------------------------------------------------------------------------
(* The settlement pass                                                     *)

InHand == pass \union script.found \union late

(* What a listing answers of the orders it selects: ids ascending, from an *)
(* offset, bounded.                                                        *)
Rows(selected, offset, size) ==
    {o \in selected :
        Cardinality({x \in selected : x < o}) \in offset .. offset + size - 1}

(* Mutant: the listing forgets its filter on the state.                    *)
ListingUnfiltered(offset, size) == Rows(Orders, offset, size)

(* One listing of the orders that await a wire.                            *)
Listing(offset, size) == Rows(Awaiting, offset, size)

(* The tick; one that cannot list is over, and changes nothing.            *)
StartPass ==
    /\ pass = {}
    /\ pass' = Listing(0, MaxPerPass)
    /\ shared' = shared \union (pass' \intersect InHand)
    /\ UNCHANGED <<shopVars, script, late, round, faults>>

(* The order of the listing whose turn it is.                              *)
IsNext(o) == o \in pass /\ \A x \in pass : o <= x

(* Mutant: an order that is refused ends the pass.                         *)
SkipAll(o) == pass' = {}

(* An order that the shop refuses is noted and left for the next pass.     *)
Skip(o) == pass' = pass \ {o}

Accept(o) ==
    /\ IsNext(o)
    /\ IF o \in Refused
       THEN Skip(o) /\ UNCHANGED shopVars
       ELSE pass' = pass \ {o} /\ MarkPaid(o)
    /\ UNCHANGED <<script, late, shared, round, faults>>

(* The shop answers one it would take with an error, this once.            *)
RefusedOnce(o) ==
    /\ IsNext(o) /\ faults < MaxFaults /\ faults' = faults + 1
    /\ Skip(o)
    /\ UNCHANGED <<shopVars, script, late, shared, round>>

(* A call that is cut: the shop has not seen it, or has done it, or will.  *)
Cut(o) ==
    /\ faults < MaxFaults /\ faults' = faults + 1
    /\ \/ UNCHANGED <<shopVars, late>>
       \/ o \notin Refused /\ MarkPaid(o) /\ UNCHANGED late
       \/ o \notin Refused /\ late' = late \union {o} /\ UNCHANGED shopVars

(* Anything but a refusal ends the pass where it is.                       *)
PassAborts(o) ==
    /\ IsNext(o)
    /\ Cut(o)
    /\ pass' = {}
    /\ UNCHANGED <<script, shared, round>>

-----------------------------------------------------------------------------
(* scripts/settle_backlog.py                                               *)

ScriptStarts ==
    /\ script.at = "off"
    /\ script' = [script EXCEPT !.at = "listing"]
    /\ UNCHANGED <<shopVars, pass, late, shared, round, faults>>

(* The next page, counted from an offset while the list itself shrinks.    *)
ScriptLists ==
    /\ script.at = "listing"
    /\ LET page == Listing(script.offset, Page)
       IN  /\ script' = IF page = {} THEN [script EXCEPT !.at = "settling"]
                        ELSE [script EXCEPT !.offset = @ + Page, !.found = @ \union page]
           /\ shared' = shared \union (page \intersect (pass \union late))
    /\ UNCHANGED <<shopVars, pass, late, round, faults>>

(* Eight at a time, so in any order; no failure ends the others.           *)
ScriptSettles(o) ==
    /\ script.at = "settling" /\ o \in script.found
    /\ script' = [script EXCEPT !.found = @ \ {o}]
    /\ \/ /\ IF o \in Refused THEN UNCHANGED shopVars ELSE MarkPaid(o)
          /\ UNCHANGED <<late, faults>>
       \/ Cut(o)
    /\ UNCHANGED <<pass, shared, round>>

(* Stopped, or a page that cannot be read: what was listed is forgotten.   *)
ScriptStops ==
    /\ script.at \in {"listing", "settling"}
    /\ script' = [NoScript EXCEPT !.at = "over"]
    /\ UNCHANGED <<shopVars, pass, late, shared, round, faults>>

-----------------------------------------------------------------------------
(* The refill pass                                                         *)

(* The tick begins with the first reference.                               *)
StartRound ==
    /\ round.at = 0
    /\ round' = [round EXCEPT !.at = 1]
    /\ UNCHANGED <<shopVars, paymentVars, faults>>

Product == Tracked[round.at]
NextProduct == [Idle EXCEPT !.at = IF round.at = Len(Tracked) THEN 0 ELSE round.at + 1]

(* Mutant: a reference the shop does not know ends the pass.               *)
GiveUp == Idle

(* A reference the shop does not know is noted; the others have their turn. *)
NotFound == NextProduct

Look ==
    /\ round.at # 0 /\ round.stock = -1
    /\ round' = IF Product \in listed
                THEN [round EXCEPT !.stock = quantity[Product]] ELSE NotFound
    /\ UNCHANGED <<shopVars, paymentVars, faults>>

(* Low when it was read: the target is written over whatever is left now.  *)
Refill ==
    /\ round.stock # -1
    /\ quantity' = IF round.stock < LowWaterMark
                   THEN [quantity EXCEPT ![Product] = RefillTo] ELSE quantity
    /\ round' = NextProduct
    /\ UNCHANGED <<listed, state, accepted, paymentVars, faults>>

(* A call fails: the pass is over, its write done or not.                  *)
RoundAborts ==
    /\ round.at # 0
    /\ faults < MaxFaults /\ faults' = faults + 1
    /\ \/ UNCHANGED quantity
       \/ /\ round.stock \in 0 .. LowWaterMark - 1
          /\ quantity' = [quantity EXCEPT ![Product] = RefillTo]
    /\ round' = Idle
    /\ UNCHANGED <<listed, state, accepted, paymentVars>>

-----------------------------------------------------------------------------
Next ==
    \/ \E p \in Products : Buy(p)
    \/ StartPass
    \/ \E o \in Orders : Accept(o) \/ RefusedOnce(o) \/ PassAborts(o)
    \/ ScriptStarts \/ ScriptLists \/ ScriptStops
    \/ \E o \in Orders : ScriptSettles(o) \/ LateLands(o)
    \/ StartRound \/ Look \/ Refill \/ RoundAborts

(* The schedules tick, and the shop answers but for MaxFaults calls.       *)
Fairness ==
    /\ WF_vars(StartPass) /\ WF_vars(\E o \in Orders : Accept(o))
    /\ WF_vars(StartRound) /\ WF_vars(Look) /\ WF_vars(Refill)

Spec == Init /\ [][Next]_vars /\ Fairness

-----------------------------------------------------------------------------
(* Properties                                                              *)

(* An order is accepted once, passes that were cut and acceptances that    *)
(* landed late included, unless two writers had it in hand at once: no     *)
(* pass picks up what an earlier one has settled.                          *)
AcceptedOnce == \A o \in Orders : accepted[o] > 1 => o \in shared

(* Every order the shop will take a payment for is settled, in batches,    *)
(* with orders that always fail in front of it and passes that are cut.    *)
EveryOrderSettles ==
    \A o \in 1 .. MaxOrders :
        (o \in Orders /\ o \notin Refused) ~> (o \in Orders /\ state[o] = "paid")

(* A shelf that runs low is filled, whatever the other references do.      *)
ShelvesRefilled ==
    \A p \in Products :
        (p \in listed /\ quantity[p] < LowWaterMark) ~> quantity[p] >= LowWaterMark
=============================================================================
