----------------------------- MODULE Customers -----------------------------
(***************************************************************************)
(* Customers from the tick that makes them to the row that records them:   *)
(* the arrivals' producer and the journeys' service, one process, with the *)
(* runtime's queue between them.                                           *)
(***************************************************************************)
EXTENDS Integers, Sequences, FiniteSets

CONSTANTS Towns, Hosts, Mixes, MaxPerTick, MaxArrivals, Slots, MaxCrashes

ASSUME CustomerBounds ==
    /\ MaxPerTick \in Nat \ {0} /\ MaxArrivals \in Nat /\ MaxCrashes \in Nat
    /\ Slots \in Nat \ {0} /\ IsFiniteSet(Hosts) /\ Mixes \subseteq (SUBSET DOMAIN Towns) \ {{}}

VARIABLES
    mix, issued, due, made, queue, wants,
    serving, phase, session, summary, rows, contexts, stranded, orders, unwritten,
    crashes             \* bound: how often the process has died

Arrivals == 1 .. MaxArrivals

Producer == INSTANCE CustomerArrivals
Service == INSTANCE CustomerJourney

producerVars == <<mix, issued, due, made, wants>>
serviceVars == <<serving, phase, session, summary, rows, contexts, stranded, orders,
                 unwritten>>
vars == <<producerVars, queue, serviceVars, crashes>>

Init == Producer!Init /\ Service!Init /\ crashes = 0

(* The service claims in the order of the queue, and what has outlived its *)
(* time to live is dropped when its turn comes.                            *)
Serve ==
    /\ queue # <<>>
    /\ Service!Claim(Head(queue)) \/ Service!Expire(Head(queue))
    /\ queue' = Tail(queue)
    /\ UNCHANGED <<producerVars, crashes>>

Produce ==
    /\ serving
    /\ Producer!Tick \/ Producer!Dispatch \/ Producer!DispatchRaises
    /\ UNCHANGED <<serviceVars, crashes>>

Boot == Service!Boot /\ UNCHANGED <<producerVars, queue, crashes>>

Open(a) ==
    /\ Service!NewContext(a) \/ (Len(wants) >= a /\ Service!NewPage(a, wants[a]))
    /\ UNCHANGED <<producerVars, queue, crashes>>

Walk(a) == Service!Walks(a) /\ UNCHANGED <<producerVars, queue, crashes>>
Close(a) == Service!Closes(a) /\ UNCHANGED <<producerVars, queue, crashes>>

(* One process: the pool of identities dies with the browser.              *)
Crash ==
    /\ crashes < MaxCrashes
    /\ Service!Crash /\ Producer!Restart
    /\ crashes' = crashes + 1

Next ==
    \/ Produce \/ Serve \/ Boot \/ Crash
    \/ \E a \in Arrivals : Open(a) \/ Walk(a) \/ Close(a)

(* Playwright gives up on a page after a timeout, the database answers or  *)
(* its connection breaks, the container is started again when it stops,    *)
(* and the flow is not paused for ever.                                    *)
Fairness ==
    /\ WF_vars(Boot) /\ WF_vars(Serve)
    /\ \A a \in Arrivals : WF_vars(Open(a) \/ Walk(a) \/ Close(a))

Spec == Init /\ [][Next]_vars /\ Fairness

-----------------------------------------------------------------------------
(* Properties                                                              *)

(* No customer orders twice: nothing that fails is tried again.            *)
OneOrderPerArrival == \A a \in Arrivals : orders[a] <= 1

(* A row is true of the shop, whatever raised before it was written: who   *)
(* completed has ordered, who abandoned has not, who has a reference has   *)
(* completed, and nobody reads as both.                                    *)
RowsAreTrue ==
    \A a \in Arrivals :
        /\ rows[a].completed => orders[a] = 1 /\ rows[a].status = "success"
        /\ rows[a].reference => rows[a].completed
        /\ rows[a].abandoned => orders[a] = 0 /\ ~rows[a].completed
        /\ rows[a].abandoned => rows[a].from = "continue_shopping"

(* A run that reaches its end leaves its row, unless the database refused  *)
(* it, and takes its context with it, unless Chromium refused to close it: *)
(* no failure in between loses either, and the slots bound what is open.   *)
NothingLeftBehind ==
    /\ \A a \in Arrivals :
        phase[a] = "ended" =>
            /\ rows[a].status # "none" \/ a \in unwritten
            /\ a \in contexts => a \in stranded
    /\ Cardinality(contexts \ stranded) <= Slots

(* Two visitors are told apart by their addresses, for as long as the      *)
(* location they browse from has one left, whatever the mix became.        *)
FreshVisitors ==
    \A i, j \in 1 .. Len(made) :
        i < j /\ made[i].ip = made[j].ip => made[j].full

(* Every arrival that was sent is shed or driven to an end.                *)
EveryArrivalEnds ==
    \A a \in Arrivals :
        Len(wants) >= a ~> phase[a] \in {"ended", "expired", "lost"}
=============================================================================
