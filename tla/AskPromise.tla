----------------------------- MODULE AskPromise -----------------------------
(***************************************************************************)
(* What the portal's ask desk promises about the analysts' time, with no   *)
(* queue, no reader and no timer in it: a request is admitted only when    *)
(* its analyst is held by nobody, an analyst is held by requests that are  *)
(* still open and by no other, and a request, once over, holds nobody and  *)
(* is never opened again.  AskDesk implements it.                          *)
(***************************************************************************)
CONSTANTS Agents, Refs, NoRef

VARIABLES
    holder,     \* the request that holds each analyst, or NoRef
    phase       \* how far each request has come

pvars == <<holder, phase>>

PTypeOK ==
    /\ holder \in [Agents -> Refs \union {NoRef}]
    /\ phase \in [Refs -> {"new", "open", "over"}]

PInit ==
    /\ holder = [a \in Agents |-> NoRef]
    /\ phase = [r \in Refs |-> "new"]

\* A request nobody has seen before takes an analyst nobody holds.
Admit(a, r) ==
    /\ holder[a] = NoRef
    /\ phase[r] = "new"
    /\ holder' = [holder EXCEPT ![a] = r]
    /\ phase' = [phase EXCEPT ![r] = "open"]

\* The analyst is let go before its request is over: the desk gave up on it,
\* or whoever asked has left.
LetGo(a) ==
    /\ holder[a] # NoRef
    /\ holder' = [holder EXCEPT ![a] = NoRef]
    /\ UNCHANGED phase

\* These requests are over, and whatever they held is free in the same step:
\* one request when its work ends, all of them when the process restarts.
Conclude(S) ==
    /\ \A r \in S : phase[r] = "open"
    /\ phase' = [r \in Refs |-> IF r \in S THEN "over" ELSE phase[r]]
    /\ holder' = [a \in Agents |-> IF holder[a] \in S THEN NoRef ELSE holder[a]]

PNext ==
    \/ \E a \in Agents, r \in Refs : Admit(a, r)
    \/ \E a \in Agents : LetGo(a)
    \/ \E S \in SUBSET Refs : Conclude(S)

PSpec == PInit /\ [][PNext]_pvars
=============================================================================
