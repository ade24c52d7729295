--------------------------- MODULE Investigation ---------------------------
(***************************************************************************)
(* One employee of the agents' staff: agents/core/run.py (investigate,     *)
(* collect, _settle, _envelope, _publish) mounted on the bus by            *)
(* agents/core/service.py (serve, BusNarrator), one ticket at a time.      *)
(*                                                                         *)
(* The loop that drives the model is the environment, held to the contract *)
(* of agents/core/harness/base.py: it reports steps through the callback,  *)
(* each from inside its own parsing, and returns an Outcome, or raises in  *)
(* spite of that contract.  A step of this module is what runs between two *)
(* suspensions; the publishing of every reported step is a task of its     *)
(* own, and they are concurrent on purpose.                                *)
(***************************************************************************)
EXTENDS Naturals, Sequences

CONSTANTS
    Tickets,        \* the tickets the bus hands over
    NoTicket,       \* the slot is free
    MaxSteps,       \* bound: steps a loop reports for one ticket
    MaxFaults       \* bound: crashes of the process and failed writes

ASSUME TicketAssumption == NoTicket \notin Tickets
ASSUME BoundAssumption == MaxSteps \in Nat /\ MaxFaults \in Nat

VARIABLES
    slot,           \* the ticket under investigation
    phase,          \* how far investigate() has come with it
    steps,          \* len(steps), the live list collect() appends to
    publishing,     \* the tasks _publish() that have not ended: <<ticket, n>>
    outcome,        \* the loop's Outcome, or how it crashed
    envelope,       \* what will be returned, once settled
    stream,         \* the events that reached the bus, in order
    records,        \* <run_id>.record.json of each ticket
    reply,          \* what the bus answered for each ticket
    faults,
    cut             \* history: tickets whose loop handed back some, not all, it reported

run == <<slot, phase, steps, outcome, envelope>>
vars == <<run, publishing, stream, records, reply, faults, cut>>

-----------------------------------------------------------------------------
(* Data: an Outcome, and what _settle makes of it                           *)

\* The answer as the loop handed it over.  "empty" is a value that is falsy and
\* not None; "refusal" stands for whatever Answer does not accept.
Answers == {"none", "empty", "refusal", "valid"}

Outcomes == [raised : {FALSE}, error : BOOLEAN, answer : Answers, steps : 0..MaxSteps]
Crash == [raised |-> TRUE, error |-> TRUE, answer |-> "none", steps |-> 0]

\* Mutant: the error is reported and the answer that came with it kept.
StatusLenient(o) ==
    IF o.raised THEN "crashed" ELSE IF o.answer = "valid" THEN "completed" ELSE "failed"

\* _settle, and the branch of investigate() for a loop that never returned.
Status(o) ==
    CASE o.raised -> "crashed"
      [] o.error /\ o.answer \in {"none", "empty"} -> "crashed"
      [] o.error /\ o.answer \notin {"none", "empty"} -> "failed"
      [] ~o.error /\ o.answer = "valid" -> "completed"
      [] OTHER -> "failed"

\* Mutant: the record of a crash is built from the outcome alone.
EvidenceOfOutcome(o) == o.steps

\* `outcome.steps or live`: how many steps the record is paired from.
Evidence(o) == IF o.steps = 0 THEN steps ELSE o.steps

Settled(o) ==
    [status |-> Status(o),
     answer |-> Status(o) = "completed",
     error |-> o.error \/ o.answer # "valid",
     calls |-> Evidence(o)]

Envelopes == [status : {"completed", "failed", "crashed"}, answer : BOOLEAN,
              error : BOOLEAN, calls : 0..MaxSteps]

Pending == [status |-> "pending"]

Event(kind, t, n) == [kind |-> kind, ticket |-> t, n |-> n]
Events == [kind : {"started", "step", "finished"}, ticket : Tickets, n : 0..MaxSteps]

TypeOK ==
    /\ slot \in Tickets \union {NoTicket}
    /\ phase \in {"free", "announcing", "working", "gathering", "closing"}
    /\ steps \in 0..MaxSteps
    /\ publishing \subseteq {slot} \X (1..steps)
    /\ outcome \in Outcomes \union {Crash, Pending}
    /\ envelope \in Envelopes \union {Pending}
    /\ stream \in Seq(Events)
    /\ records \in [Tickets -> Envelopes \union {Pending}]
    /\ reply \in [Tickets -> Envelopes \union {Pending} \union
                     [status : {"raised", "lost"}]]
    /\ faults \in 0..MaxFaults
    /\ cut \subseteq Tickets

-----------------------------------------------------------------------------
\* investigate() has returned or raised.
Free ==
    /\ slot' = NoTicket
    /\ phase' = "free"
    /\ steps' = 0
    /\ outcome' = Pending
    /\ envelope' = Pending

Init ==
    /\ slot = NoTicket
    /\ phase = "free"
    /\ steps = 0
    /\ publishing = {}
    /\ outcome = Pending
    /\ envelope = Pending
    /\ stream = <<>>
    /\ records = [t \in Tickets |-> Pending]
    /\ reply = [t \in Tickets |-> Pending]
    /\ faults = 0
    /\ cut = {}

\* The handler starts: configuration, workspace, and the loop is built.  One
\* that cannot be built is a crash that walks the same path as every other.
Take(t) ==
    /\ slot = NoTicket
    /\ reply[t] = Pending
    /\ slot' = t
    /\ phase' = "announcing"
    /\ outcome' \in {Pending, Crash}
    /\ UNCHANGED <<steps, publishing, envelope, stream, records, reply, faults, cut>>

\* load(), for_call() or mkdir() raises, outside any try.
TakeRaises(t) ==
    /\ slot = NoTicket
    /\ reply[t] = Pending
    /\ faults < MaxFaults
    /\ faults' = faults + 1
    /\ reply' = [reply EXCEPT ![t] = [status |-> "raised"]]
    /\ UNCHANGED <<run, publishing, stream, records, cut>>

\* narrator.started returns, or raises and is suppressed.
Announced ==
    /\ phase = "announcing"
    /\ stream' \in {stream, Append(stream, Event("started", slot, 0))}
    /\ phase' = IF outcome = Pending THEN "working" ELSE "gathering"
    /\ UNCHANGED <<slot, steps, publishing, outcome, envelope, records, reply, faults, cut>>

\* collect(): the loop reports a step.  Nothing is awaited.
Collect ==
    /\ phase = "working"
    /\ steps < MaxSteps
    /\ steps' = steps + 1
    /\ publishing' = publishing \union {<<slot, steps + 1>>}
    /\ UNCHANGED <<slot, phase, outcome, envelope, stream, records, reply, faults, cut>>

\* The loop returns: with the steps it reported, or fewer (LoopContract's kept).
LoopReturns ==
    /\ phase = "working"
    /\ outcome' \in {o \in Outcomes : o.steps <= steps}
    /\ cut' = IF outcome'.steps \in {0, steps} THEN cut ELSE cut \union {slot}
    /\ phase' = "gathering"
    /\ UNCHANGED <<slot, steps, publishing, envelope, stream, records, reply, faults>>

LoopRaises ==
    /\ phase = "working"
    /\ outcome' = Crash
    /\ phase' = "gathering"
    /\ UNCHANGED <<slot, steps, publishing, envelope, stream, records, reply, faults, cut>>

\* Mutant: a step waits until the start of its investigation has been seen.
PublishAfterStart(t, n) ==
    /\ <<t, n>> \in publishing
    /\ \E i \in 1..Len(stream) : stream[i] = Event("started", t, 0)
    /\ stream' \in {stream, Append(stream, Event("step", t, n))}
    /\ publishing' = publishing \ {<<t, n>>}
    /\ UNCHANGED <<run, records, reply, faults, cut>>

\* _publish: one step reaches the bus, or raises and is suppressed.
Publish(t, n) ==
    /\ <<t, n>> \in publishing
    /\ stream' \in {stream, Append(stream, Event("step", t, n))}
    /\ publishing' = publishing \ {<<t, n>>}
    /\ UNCHANGED <<run, records, reply, faults, cut>>

\* Mutant: nothing waits for the publications.
SettleAtOnce ==
    /\ phase = "gathering"
    /\ envelope' = Settled(outcome)
    /\ records' = [records EXCEPT ![slot] = Settled(outcome)]
    /\ phase' = "closing"
    /\ UNCHANGED <<slot, steps, publishing, outcome, stream, reply, faults, cut>>

\* Mutant: the record is left for later.
SettleUnwritten ==
    /\ phase = "gathering"
    /\ publishing = {}
    /\ envelope' = Settled(outcome)
    /\ phase' = "closing"
    /\ UNCHANGED <<slot, steps, publishing, outcome, stream, records, reply, faults, cut>>

\* asyncio.gather is done; the outcome is settled and the record written.
Settle ==
    /\ phase = "gathering"
    /\ publishing = {}
    /\ envelope' = Settled(outcome)
    /\ records' = [records EXCEPT ![slot] = Settled(outcome)]
    /\ phase' = "closing"
    /\ UNCHANGED <<slot, steps, publishing, outcome, stream, reply, faults, cut>>

\* written.write raises: investigate() has no finished event and no envelope.
WriteRaises ==
    /\ phase = "gathering"
    /\ publishing = {}
    /\ faults < MaxFaults
    /\ faults' = faults + 1
    /\ reply' = [reply EXCEPT ![slot] = [status |-> "raised"]]
    /\ Free
    /\ UNCHANGED <<publishing, stream, records, cut>>

\* narrator.finished returns, or raises and is suppressed; the bus replies.
Finish ==
    /\ phase = "closing"
    /\ stream' \in {stream, Append(stream, Event("finished", slot, 0))}
    /\ reply' = [reply EXCEPT ![slot] = envelope]
    /\ Free
    /\ UNCHANGED <<publishing, records, faults, cut>>

\* The process is killed, and started again: the ticket it had taken is never
\* answered, and what its tasks had not published is lost.
Killed ==
    /\ slot # NoTicket
    /\ faults < MaxFaults
    /\ faults' = faults + 1
    /\ reply' = [reply EXCEPT ![slot] = [status |-> "lost"]]
    /\ publishing' = {}
    /\ Free
    /\ UNCHANGED <<stream, records, cut>>

-----------------------------------------------------------------------------
Next ==
    \/ \E t \in Tickets : Take(t)
    \/ \E t \in Tickets : TakeRaises(t)
    \/ Announced
    \/ Collect
    \/ LoopReturns
    \/ LoopRaises
    \/ \E t \in Tickets, n \in 1..MaxSteps : Publish(t, n)
    \/ Settle
    \/ WriteRaises
    \/ Finish
    \/ Killed

Spec == Init /\ [][Next]_vars

\* The bus hands over what is queued, every loop ends as Loops shows (two by a
\* deadline, one because its requests do), and the event loop runs what can run.
Fairness ==
    /\ WF_vars(\E t \in Tickets : Take(t))
    /\ WF_vars(Announced) /\ WF_vars(LoopReturns \/ LoopRaises)
    /\ \A t \in Tickets, n \in 1..MaxSteps : WF_vars(Publish(t, n))
    /\ WF_vars(Settle) /\ WF_vars(Finish)

FairSpec == Spec /\ Fairness

-----------------------------------------------------------------------------
(* Properties                                                               *)

\* Nothing of a ticket reaches the bus behind its finished event: a subscriber
\* that stops at `finished` has been sent all that will ever be sent.
FinishedIsLast ==
    \A i, j \in 1..Len(stream) :
        i < j /\ stream[i].kind = "finished" => stream[j].ticket # stream[i].ticket

\* What a subscriber was shown, the record holds: no step is published that the
\* record of the same run was not built from, even when the loop crashed or handed
\* nothing back.  A loop that lost some of what it reported is believed.
ShownIsRecorded ==
    \A i \in 1..Len(stream) :
        LET t == stream[i].ticket IN
        records[t] # Pending /\ t \notin cut => stream[i].n <= records[t].calls

\* A record says why it has no answer, and has one only when the loop ended well:
\* an error, a refusal or an unusable verdict is never reported as completed.
RecordExplainsItself ==
    \A t \in Tickets : records[t] # Pending =>
        /\ records[t].answer = (records[t].status = "completed")
        /\ records[t].answer = ~records[t].error

\* Seen from the bus, an employee is what AnalystPromise says, whatever its loop
\* does and however its publications, its record and its death interleave.
Narrated(t) ==
    {stream[i].n : i \in {j \in 1..Len(stream) :
                            stream[j].ticket = t /\ stream[j].kind # "finished"}}
StatusOf(given) ==
    CASE given.status \in {"failed", "crashed"} -> "failed" [] OTHER -> given.status

Promise == INSTANCE AnalystPromise
    WITH narrated <- [t \in Tickets |-> Narrated(t)],
         recorded <- [t \in Tickets |-> StatusOf(records[t])],
         replied <- [t \in Tickets |-> StatusOf(reply[t])]

KeepsAnalystPromise == Promise!Spec

\* Every ticket is answered, unless something outside investigate()'s handlers
\* raised or the process died under it.
EveryTicketIsAnswered == \A t \in Tickets : <>(reply[t] # Pending)
=============================================================================
