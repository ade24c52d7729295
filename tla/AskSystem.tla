------------------------------ MODULE AskSystem ------------------------------
(***************************************************************************)
(* The portal's desk and one analyst's process, on the bus between them:   *)
(* AskDesk extended with what Investigation is shown to promise.  bus.ask  *)
(* puts the call on the analyst's action stream, which its one slot takes  *)
(* from in order; what it publishes comes back on event streams that two   *)
(* slots of the portal's watcher serve, and the reply on a stream of its   *)
(* own: nothing orders one with another.                                   *)
(***************************************************************************)
EXTENDS AskDesk, SequencesExt

CONSTANT
    MaxSteps        \* see AnalystPromise

ASSUME OneAnalyst == \E a \in Agents : Agents = {a}

VARIABLES
    slot, narrated, recorded, replied,      \* see AnalystPromise
    calls,      \* the analyst's action stream: calls that wait for its slot
    relayed     \* of what was narrated, what the watcher has been given

staffVars == <<slot, narrated, recorded, replied>>
systemVars == <<vars, staffVars, calls, relayed>>

Staff == INSTANCE AnalystPromise WITH Tickets <- Refs, NoTicket <- NoRef

SystemInit ==
    /\ Init
    /\ Staff!Init
    /\ calls = <<>>
    /\ relayed = [r \in Refs |-> {}]

-----------------------------------------------------------------------------
(* From the desk to the analyst                                             *)

\* POST /ask, and bus.ask with its call.
Call(a, r) ==
    /\ Ask(a, r)
    /\ calls' = Append(calls, r)
    /\ UNCHANGED <<staffVars, relayed>>

\* The analyst's slot is free and takes the oldest call.
Take ==
    /\ calls # <<>>
    /\ Staff!Take(Head(calls)) \/ Staff!Refuse(Head(calls))
    /\ calls' = Tail(calls)
    /\ UNCHANGED <<vars, relayed>>

\* What the analyst does by itself.
Works ==
    /\ \/ \E n \in 0..MaxSteps : Staff!Narrate(n)
       \/ \E status \in Staff!Verdict : Staff!Record(status)
       \/ Staff!Answer
       \/ \E how \in {"raised", "lost"} : Staff!Fail(how)
    /\ UNCHANGED <<vars, calls, relayed>>

-----------------------------------------------------------------------------
(* From the analyst to the desk                                             *)

\* Mutant: an event is given to whichever request the analyst is held for.
RelayToTheHolder(r, n) ==
    /\ n \in narrated[r] \ relayed[r]
    /\ relayed' = [relayed EXCEPT ![r] = @ \union {n}]
    /\ IF \E a \in Agents : busy[a] \in registered
       THEN Deliver(busy[CHOOSE a \in Agents : TRUE])
       ELSE UNCHANGED vars
    /\ UNCHANGED <<staffVars, calls>>

\* A handler of the watcher is given an event, in any order: deliver() puts it
\* on the queue of the request it names, if there is one.
Relay(r, n) ==
    /\ n \in narrated[r] \ relayed[r]
    /\ relayed' = [relayed EXCEPT ![r] = @ \union {n}]
    /\ IF r \in registered THEN Deliver(r) ELSE UNCHANGED vars
    /\ UNCHANGED <<staffVars, calls>>

\* Mutant: a reply that says why it failed is shown as an answer.
ReplyLenient(r) ==
    /\ replied[r] \notin {"pending", "lost"}
    /\ WorkEnds(r, IF replied[r] = "raised" THEN "raised" ELSE "completed")
    /\ UNCHANGED <<staffVars, calls, relayed>>

\* bus.ask returns the envelope, or raises what the handler raised.
Reply(r) ==
    /\ replied[r] \notin {"pending", "lost"}
    /\ WorkEnds(r, replied[r])
    /\ UNCHANGED <<staffVars, calls, relayed>>

\* The call's ttl of fifteen minutes is over, taken or not, answered in the same
\* moment or not.  One that still waits is not handed over any more.
Expire(r) ==
    /\ WorkEnds(r, "raised")
    /\ \/ \E n \in 1..Len(calls) : calls[n] = r /\ calls' = RemoveAt(calls, n)
       \/ (\A n \in 1..Len(calls) : calls[n] # r) /\ calls' = calls
    /\ UNCHANGED <<staffVars, relayed>>

\* What the desk does by itself.
Serves ==
    /\ \/ \E r \in Refs : WatchdogWakes(r)
       \/ \E d \in Readers, r \in Refs : Connect(d, r)
       \/ \E d \in Readers : StartBody(d) \/ Read(d) \/ Finish(d)
       \/ \E d \in Readers : Leave(d)
       \/ Restart
    /\ UNCHANGED <<staffVars, calls, relayed>>

SystemNext ==
    \/ \E a \in Agents, r \in Refs : Call(a, r)
    \/ Take
    \/ Works
    \/ \E r \in Refs, n \in 0..MaxSteps : Relay(r, n)
    \/ \E r \in Refs : Reply(r) \/ Expire(r)
    \/ Serves

SystemSpec == SystemInit /\ [][SystemNext]_systemVars

-----------------------------------------------------------------------------
(* Properties                                                               *)

\* A browser is shown an answer only for a run that completed and whose record
\* says so, whatever was lost, killed, cut or answered late in between.
AnsweredIsTrue ==
    \A r \in Refs :
        (\E n \in 1..Len(queue[r]) : queue[r][n] = "answered") =>
            recorded[r] = "completed" /\ replied[r] = "completed"

\* Events find their own request: what frees the desk of its watchdog is the
\* analyst at work on this very question, not the trail of the one before.
HeardIsTaken ==
    \A r \in heard : slot = r \/ replied[r] # "pending"

\* Nobody waits for it any more: its reader left, or its call or its silence is
\* over, or the portal was restarted.
LetGo(r) ==
    /\ \A a \in Agents : busy[a] # r
    /\ r \notin registered \/ work[r] # "calling" \/ watchdog[r] = "over"

\* What Busy is for: a question waits behind another only when the desk has let
\* go of that other one.
QueuesOnlyBehindAbandoned ==
    \A n \in 1..Len(calls) :
        /\ slot # NoRef => LetGo(slot)
        /\ \A m \in 1..(n - 1) : LetGo(calls[m])
=============================================================================
