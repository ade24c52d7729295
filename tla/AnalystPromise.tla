--------------------------- MODULE AnalystPromise ---------------------------
(***************************************************************************)
(* What an analyst's process promises the bus, whatever its loop does:     *)
(* agents/core/run.py seen from outside.  One ticket at a time; events     *)
(* about it while it is at work; a record before an answer, the same; and  *)
(* for each ticket one reply, an exception, or silence when it is killed.  *)
(***************************************************************************)
EXTENDS Naturals

CONSTANTS
    Tickets,
    NoTicket,
    MaxSteps        \* bound: steps narrated for one ticket

VARIABLES
    slot,           \* the ticket at work
    narrated,       \* what was published about each ticket: 0 is `started`
    recorded,       \* what its record says: "pending" when there is none
    replied         \* what the bus was told

vars == <<slot, narrated, recorded, replied>>

Verdict == {"completed", "failed"}

Init ==
    /\ slot = NoTicket
    /\ narrated = [t \in Tickets |-> {}]
    /\ recorded = [t \in Tickets |-> "pending"]
    /\ replied = [t \in Tickets |-> "pending"]

Take(t) ==
    /\ slot = NoTicket /\ replied[t] = "pending"
    /\ slot' = t
    /\ UNCHANGED <<narrated, recorded, replied>>

\* A call that is refused before any work starts.
Refuse(t) ==
    /\ slot = NoTicket /\ replied[t] = "pending"
    /\ replied' = [replied EXCEPT ![t] = "raised"]
    /\ UNCHANGED <<slot, narrated, recorded>>

Narrate(n) ==
    /\ slot # NoTicket /\ recorded[slot] = "pending"
    /\ n \notin narrated[slot]
    /\ narrated' = [narrated EXCEPT ![slot] = @ \union {n}]
    /\ UNCHANGED <<slot, recorded, replied>>

Record(status) ==
    /\ slot # NoTicket /\ recorded[slot] = "pending"
    /\ recorded' = [recorded EXCEPT ![slot] = status]
    /\ UNCHANGED <<slot, narrated, replied>>

Answer ==
    /\ slot # NoTicket /\ recorded[slot] # "pending"
    /\ replied' = [replied EXCEPT ![slot] = recorded[slot]]
    /\ slot' = NoTicket
    /\ UNCHANGED <<narrated, recorded>>

\* An exception before the record is there, or the process's death at any time.
Fail(how) ==
    /\ slot # NoTicket
    /\ how = "raised" => recorded[slot] = "pending"
    /\ replied' = [replied EXCEPT ![slot] = how]
    /\ slot' = NoTicket
    /\ UNCHANGED <<narrated, recorded>>

Next ==
    \/ \E t \in Tickets : Take(t) \/ Refuse(t)
    \/ \E n \in 0..MaxSteps : Narrate(n)
    \/ \E status \in Verdict : Record(status)
    \/ Answer
    \/ \E how \in {"raised", "lost"} : Fail(how)

Spec == Init /\ [][Next]_vars
=============================================================================
