------------------------ MODULE InvestigationProofs ------------------------
(***************************************************************************)
(* Proofs about one employee's investigation, for any set of tickets, any  *)
(* number of steps and any number of crashes and failed writes.            *)
(***************************************************************************)
EXTENDS Investigation, TLAPS

-----------------------------------------------------------------------------
(* Types                                                                    *)

\* What _settle makes of an outcome is an envelope, for a run of that many steps.
LEMMA SettledType ==
    ASSUME steps \in 0..MaxSteps, NEW o \in Outcomes \union {Crash}
    PROVE  Settled(o) \in Envelopes
<1>1. Status(o) \in {"completed", "failed", "crashed"}
  BY DEF Status
<1>2. Evidence(o) \in 0..MaxSteps
  <2>1. o.steps \in 0..MaxSteps
    <3>1. CASE o \in Outcomes
      BY <3>1 DEF Outcomes
    <3>2. CASE o = Crash
      BY <3>2, BoundAssumption DEF Crash
    <3>3. QED
      BY <3>1, <3>2
  <2>2. QED
    BY <2>1 DEF Evidence
<1>3. (o.error \/ o.answer # "valid") \in BOOLEAN
  OBVIOUS
<1>4. QED
  BY <1>1, <1>2, <1>3 DEF Settled, Envelopes

\* An event at the end of the stream leaves the ones before it where they are.
LEMMA AppendEvent ==
    ASSUME stream \in Seq(Events), NEW e \in Events
    PROVE  /\ Append(stream, e) \in Seq(Events)
           /\ Len(Append(stream, e)) = Len(stream) + 1
           /\ \A i \in 1..Len(stream) : Append(stream, e)[i] = stream[i]
           /\ Append(stream, e)[Len(stream) + 1] = e
OBVIOUS

\* How far an investigation is decides what there is of it: steps once the loop
\* runs, an outcome once it has ended, and nothing to publish once it is settled.
AtWork ==
    /\ phase = "free" <=> slot = NoTicket
    /\ phase \in {"free", "announcing"} => steps = 0
    /\ phase \in {"gathering", "closing"} => outcome \in Outcomes \union {Crash}
    /\ phase = "closing" => publishing = {}

TInv == TypeOK /\ AtWork

LEMMA TypeInit == Init => TInv
BY BoundAssumption DEF Init, TInv, TypeOK, AtWork

\* An investigation that is over leaves the slot, and its steps, empty.
LEMMA FreeType ==
    ASSUME TypeOK, Free, publishing' = {}
    PROVE  /\ slot' \in Tickets \union {NoTicket}
           /\ phase' = "free"
           /\ steps' \in 0..MaxSteps
           /\ publishing' \subseteq {slot'} \X (1..steps')
           /\ outcome' \in Outcomes \union {Crash, Pending}
           /\ envelope' \in Envelopes \union {Pending}
BY BoundAssumption DEF Free

LEMMA TypeStep == TInv /\ [Next]_vars => TInv'
<1> SUFFICES ASSUME TInv, [Next]_vars PROVE TInv'
  OBVIOUS
<1> USE DEF TInv
<1>a. \A t \in Tickets, n \in 0..MaxSteps, kind \in {"started", "step", "finished"} :
          Event(kind, t, n) \in Events
  BY DEF Event, Events
<1>1. ASSUME NEW t \in Tickets, Take(t) PROVE TInv'
  <2>1. publishing = {}
    BY <1>1 DEF Take, TypeOK, AtWork
  <2>2. QED
    BY <1>1, <2>1, TicketAssumption DEF Take, TypeOK, AtWork
<1>2. ASSUME NEW t \in Tickets, TakeRaises(t) PROVE TInv'
  BY <1>2, BoundAssumption DEF TakeRaises, TypeOK, AtWork, run
<1>3. ASSUME Announced PROVE TInv'
  <2>1. stream' \in Seq(Events)
    <3>1. slot \in Tickets
      BY <1>3 DEF Announced, TypeOK, AtWork
    <3>2. Event("started", slot, 0) \in Events
      BY <1>a, <3>1, BoundAssumption
    <3>3. QED
      BY <1>3, <3>2 DEF Announced, TypeOK
  <2>2. QED
    BY <1>3, <2>1 DEF Announced, TypeOK, AtWork
<1>4. ASSUME Collect PROVE TInv'
  BY <1>4, BoundAssumption DEF Collect, TypeOK, AtWork
<1>5. ASSUME LoopReturns PROVE TInv'
  BY <1>5 DEF LoopReturns, TypeOK, AtWork
<1>6. ASSUME LoopRaises PROVE TInv'
  BY <1>6 DEF LoopRaises, TypeOK, AtWork
<1>7. ASSUME NEW t \in Tickets, NEW n \in 1..MaxSteps, Publish(t, n) PROVE TInv'
  <2>1. Event("step", t, n) \in Events
    BY <1>a, BoundAssumption
  <2>2. stream' \in Seq(Events)
    BY <1>7, <2>1 DEF Publish, TypeOK
  <2>3. publishing' \subseteq publishing
    BY <1>7 DEF Publish
  <2>4. QED
    BY <1>7, <2>2, <2>3 DEF Publish, TypeOK, AtWork, run
<1>8. ASSUME Settle PROVE TInv'
  <2>1. Settled(outcome) \in Envelopes
    BY <1>8, SettledType DEF Settle, TypeOK, AtWork
  <2>2. QED
    BY <1>8, <2>1 DEF Settle, TypeOK, AtWork
<1>9. ASSUME WriteRaises PROVE TInv'
  <2>1. reply' \in [Tickets -> Envelopes \union {Pending} \union
                                [status : {"raised", "lost"}]]
    BY <1>9 DEF WriteRaises, TypeOK
  <2>2. faults' \in 0..MaxFaults
    BY <1>9, BoundAssumption DEF WriteRaises, TypeOK
  <2>3. QED
    BY <1>9, <2>1, <2>2, FreeType DEF WriteRaises, Free, TypeOK, AtWork
<1>10. ASSUME Finish PROVE TInv'
  <2>1. stream' \in Seq(Events)
    <3>1. slot \in Tickets
      BY <1>10 DEF Finish, TypeOK, AtWork
    <3>2. Event("finished", slot, 0) \in Events
      BY <1>a, <3>1, BoundAssumption
    <3>3. QED
      BY <1>10, <3>2 DEF Finish, TypeOK
  <2>2. reply' \in [Tickets -> Envelopes \union {Pending} \union
                                [status : {"raised", "lost"}]]
    BY <1>10 DEF Finish, TypeOK
  <2>3. publishing' = {}
    BY <1>10 DEF Finish, AtWork
  <2>4. QED
    BY <1>10, <2>1, <2>2, <2>3, FreeType DEF Finish, Free, TypeOK, AtWork
<1>11. ASSUME Killed PROVE TInv'
  BY <1>11, BoundAssumption DEF Killed, Free, TypeOK, AtWork
<1>12. CASE UNCHANGED vars
  BY <1>12 DEF vars, run, TypeOK, AtWork
<1>13. QED
  BY <1>1, <1>2, <1>3, <1>4, <1>5, <1>6, <1>7, <1>8, <1>9, <1>10, <1>11, <1>12 DEF Next

\* Every variable keeps its type, and only steps of the ticket at work are
\* being published.
THEOREM TypeCorrect == Spec => []TypeOK
BY TypeInit, TypeStep, PTL DEF Spec, TInv

-----------------------------------------------------------------------------
(* The stream and the record of a ticket                                    *)

\* What a loop hands back, it has reported, and unless it lost some of it the record
\* is paired from as many steps as collect() was called with.  One that could not be
\* built reports none.
StepsAgree ==
    /\ phase = "announcing" => outcome \in {Pending, Crash}
    /\ phase \in {"gathering", "closing"} => outcome.steps \in {0, steps} \/ slot \in cut

\* A ticket at work has no reply, and one that has neither reply nor slot has
\* left no trace; a record is there from the moment it is settled.
RecordOfSlot ==
    /\ slot # NoTicket => reply[slot] = Pending
    /\ \A t \in Tickets : records[t] # Pending =>
           reply[t] # Pending \/ (slot = t /\ phase = "closing")
    /\ phase = "closing" =>
           envelope \in Envelopes /\ envelope = records[slot]

\* Of the ticket at work, only what collect() was called with is in the stream,
\* each step once, and never the end.
EventsOfSlot ==
    \A i \in 1..Len(stream) :
        IF stream[i].ticket = slot
        THEN /\ phase # "announcing"
             /\ stream[i].kind # "finished"
             /\ stream[i].n <= steps
             /\ <<slot, stream[i].n>> \notin publishing
        ELSE reply[stream[i].ticket] # Pending

IInv ==
    /\ TInv /\ StepsAgree /\ RecordOfSlot /\ EventsOfSlot
    /\ FinishedIsLast /\ ShownIsRecorded /\ RecordExplainsItself

\* An envelope is not a reply that is still to come.
LEMMA EnvelopeIsThere == Pending \notin Envelopes
BY DEF Pending, Envelopes

\* What _settle makes of an outcome says why there is no answer, and tells of
\* every step the loop reported.
LEMMA SettledExplains ==
    ASSUME steps \in 0..MaxSteps, NEW o \in Outcomes \union {Crash}
    PROVE  /\ Settled(o).answer = (Settled(o).status = "completed")
           /\ Settled(o).answer = ~Settled(o).error
           /\ o.steps \in {0, steps} => Settled(o).calls = steps
<1>1. o.steps \in {0, steps} => Evidence(o) = steps
  BY DEF Evidence
<1>2. Status(o) = "completed" <=> ~(o.error \/ o.answer # "valid")
  BY DEF Status, Outcomes, Crash, Answers
<1>3. QED
  BY <1>1, <1>2 DEF Settled

\* An event of the ticket at work may follow anything that was sent before it.
LEMMA EventKeepsOrder ==
    ASSUME IInv, NEW e \in Events, e.ticket = slot, stream' \in {stream, Append(stream, e)}
    PROVE  FinishedIsLast'
<1>1. stream \in Seq(Events)
  BY DEF IInv, TInv, TypeOK
<1>2. CASE stream' = stream
  BY <1>2 DEF IInv, FinishedIsLast
<1>3. CASE stream' = Append(stream, e)
  <2> SUFFICES ASSUME NEW i \in 1..Len(stream'), NEW j \in 1..Len(stream'), i < j,
                      stream'[i].kind = "finished"
               PROVE  stream'[j].ticket # stream'[i].ticket
    BY DEF FinishedIsLast
  <2>1. i \in 1..Len(stream) /\ stream'[i] = stream[i]
    BY <1>1, <1>3, AppendEvent
  <2>2. CASE j \in 1..Len(stream)
    BY <1>1, <1>3, <2>1, <2>2, AppendEvent DEF IInv, FinishedIsLast
  <2>3. CASE j = Len(stream) + 1
    <3>1. stream'[j].ticket = slot
      BY <1>1, <1>3, <2>3, AppendEvent
    <3>2. QED
      BY <2>1, <3>1 DEF IInv, EventsOfSlot
  <2>4. QED
    BY <1>1, <1>3, <2>2, <2>3, AppendEvent
<1>4. QED
  BY <1>2, <1>3

\* So may one that the record, if it is there, has been built from.
LEMMA EventIsRecorded ==
    ASSUME IInv, NEW e \in Events, stream' \in {stream, Append(stream, e)}, records' = records,
           cut' = cut, records[e.ticket] # Pending => e.n <= records[e.ticket].calls
    PROVE  ShownIsRecorded'
<1>1. stream \in Seq(Events)
  BY DEF IInv, TInv, TypeOK
<1>2. CASE stream' = stream
  BY <1>2 DEF IInv, ShownIsRecorded
<1>3. CASE stream' = Append(stream, e)
  BY <1>1, <1>3, AppendEvent DEF IInv, ShownIsRecorded
<1>4. QED
  BY <1>2, <1>3

\* An investigation that ends without an envelope leaves nothing behind that a
\* later one could touch.
LEMMA EndsUnanswered ==
    ASSUME IInv, TInv', Free, slot # NoTicket, NEW how \in {"raised", "lost"},
           reply' = [reply EXCEPT ![slot] = [status |-> how]], publishing' = {},
           UNCHANGED <<stream, records, cut>>
    PROVE  IInv'
<1>1. slot \in Tickets /\ slot' = NoTicket /\ reply'[slot] # Pending
  BY DEF IInv, TInv, TypeOK, Free, Pending
<1>2. \A i \in 1..Len(stream) : stream[i] \in Events
  BY DEF IInv, TInv, TypeOK
<1>3. \A t \in Tickets : t # slot => reply'[t] = reply[t]
  BY DEF IInv, TInv, TypeOK
<1>4. StepsAgree' /\ RecordOfSlot'
  BY <1>1, <1>3 DEF IInv, StepsAgree, RecordOfSlot, Free
<1>5. EventsOfSlot'
  BY <1>1, <1>2, <1>3, TicketAssumption DEF IInv, EventsOfSlot, Events
<1>6. FinishedIsLast' /\ ShownIsRecorded' /\ RecordExplainsItself'
  BY DEF IInv, FinishedIsLast, ShownIsRecorded, RecordExplainsItself
<1>7. QED
  BY <1>4, <1>5, <1>6 DEF IInv

LEMMA RecordInit == Init => IInv
BY TypeInit DEF Init, IInv, StepsAgree, RecordOfSlot, EventsOfSlot, FinishedIsLast,
                ShownIsRecorded, RecordExplainsItself

LEMMA RecordStep == IInv /\ [Next]_vars => IInv'
<1> SUFFICES ASSUME IInv, [Next]_vars PROVE IInv'
  OBVIOUS
<1>a. TInv /\ TInv'
  BY TypeStep DEF IInv
<1>b. \A i \in 1..Len(stream) : stream[i] \in Events
  BY <1>a DEF TInv, TypeOK
<1>1. ASSUME NEW t \in Tickets, Take(t) PROVE IInv'
  <2>1. StepsAgree' /\ RecordOfSlot'
    BY <1>1, <1>a DEF Take, IInv, StepsAgree, RecordOfSlot, TInv, AtWork
  <2>2. EventsOfSlot'
    BY <1>1, <1>b, TicketAssumption DEF Take, IInv, EventsOfSlot, Events
  <2>3. FinishedIsLast' /\ ShownIsRecorded' /\ RecordExplainsItself'
    BY <1>1 DEF Take, IInv, FinishedIsLast, ShownIsRecorded, RecordExplainsItself
  <2>4. QED
    BY <1>a, <2>1, <2>2, <2>3 DEF IInv
<1>2. ASSUME NEW t \in Tickets, TakeRaises(t) PROVE IInv'
  <2>1. reply'[t] # Pending /\ \A u \in Tickets : u # t => reply'[u] = reply[u]
    BY <1>2, <1>a DEF TakeRaises, TInv, TypeOK, Pending
  <2>2. StepsAgree' /\ RecordOfSlot'
    BY <1>2, <2>1, TicketAssumption DEF TakeRaises, IInv, StepsAgree, RecordOfSlot, run
  <2>3. EventsOfSlot'
    BY <1>2, <1>b, <2>1 DEF TakeRaises, IInv, EventsOfSlot, Events, run
  <2>4. FinishedIsLast' /\ ShownIsRecorded' /\ RecordExplainsItself'
    BY <1>2 DEF TakeRaises, IInv, FinishedIsLast, ShownIsRecorded, RecordExplainsItself
  <2>5. QED
    BY <1>a, <2>2, <2>3, <2>4 DEF IInv
<1>3. ASSUME Announced PROVE IInv'
  <2> DEFINE e == Event("started", slot, 0)
  <2>1. e \in Events /\ e.ticket = slot /\ e.kind # "finished" /\ e.n = 0
    BY <1>3, <1>a, BoundAssumption DEF Announced, TInv, TypeOK, AtWork, Event, Events
  <2>2. stream' \in {stream, Append(stream, e)} /\ records' = records /\ cut' = cut
    BY <1>3 DEF Announced
  <2>3. StepsAgree' /\ RecordOfSlot'
    BY <1>3, <1>a DEF Announced, IInv, StepsAgree, RecordOfSlot, TInv, AtWork, Crash
  <2>4. EventsOfSlot'
    BY <1>3, <1>a, <1>b, <2>1, <2>2, AppendEvent
       DEF Announced, IInv, EventsOfSlot, TInv, TypeOK, AtWork
  <2>5. FinishedIsLast' /\ ShownIsRecorded'
    <3>1. records[slot] = Pending
      BY <1>3, <1>a DEF Announced, IInv, RecordOfSlot, TInv, TypeOK, AtWork
    <3>2. QED
      BY <2>1, <2>2, <3>1, EventKeepsOrder, EventIsRecorded
  <2>6. RecordExplainsItself'
    BY <2>2 DEF IInv, RecordExplainsItself
  <2>7. QED
    BY <1>a, <2>3, <2>4, <2>5, <2>6 DEF IInv
<1>4. ASSUME Collect PROVE IInv'
  <2>1. StepsAgree' /\ RecordOfSlot'
    BY <1>4 DEF Collect, IInv, StepsAgree, RecordOfSlot
  <2>2. EventsOfSlot'
    BY <1>4, <1>a, <1>b DEF Collect, IInv, EventsOfSlot, Events, TInv, TypeOK
  <2>3. FinishedIsLast' /\ ShownIsRecorded' /\ RecordExplainsItself'
    BY <1>4 DEF Collect, IInv, FinishedIsLast, ShownIsRecorded, RecordExplainsItself
  <2>4. QED
    BY <1>a, <2>1, <2>2, <2>3 DEF IInv
<1>5. ASSUME LoopReturns PROVE IInv'
  <2>1. StepsAgree' /\ RecordOfSlot'
    BY <1>5 DEF LoopReturns, IInv, StepsAgree, RecordOfSlot
  <2>2. EventsOfSlot' /\ FinishedIsLast' /\ ShownIsRecorded' /\ RecordExplainsItself'
    BY <1>5 DEF LoopReturns, IInv, EventsOfSlot, FinishedIsLast, ShownIsRecorded,
                RecordExplainsItself
  <2>3. QED
    BY <1>a, <2>1, <2>2 DEF IInv
<1>6. ASSUME LoopRaises PROVE IInv'
  <2>1. StepsAgree' /\ RecordOfSlot'
    BY <1>6 DEF LoopRaises, IInv, StepsAgree, RecordOfSlot, Crash
  <2>2. EventsOfSlot' /\ FinishedIsLast' /\ ShownIsRecorded' /\ RecordExplainsItself'
    BY <1>6 DEF LoopRaises, IInv, EventsOfSlot, FinishedIsLast, ShownIsRecorded,
                RecordExplainsItself
  <2>3. QED
    BY <1>a, <2>1, <2>2 DEF IInv
<1>7. ASSUME NEW t \in Tickets, NEW n \in 1..MaxSteps, Publish(t, n) PROVE IInv'
  <2> DEFINE e == Event("step", t, n)
  <2>1. t = slot /\ n <= steps /\ phase \notin {"announcing", "closing"}
    BY <1>7, <1>a DEF Publish, TInv, TypeOK, AtWork
  <2>2. e \in Events /\ e.ticket = slot /\ e.kind # "finished" /\ e.n = n
    BY <2>1, BoundAssumption DEF Event, Events
  <2>3. stream' \in {stream, Append(stream, e)} /\ records' = records /\ cut' = cut
    BY <1>7 DEF Publish
  <2>4. StepsAgree' /\ RecordOfSlot'
    BY <1>7, <2>1 DEF Publish, IInv, StepsAgree, RecordOfSlot, run
  <2>5. EventsOfSlot'
    <3>1. /\ UNCHANGED <<slot, phase, steps, reply>>
          /\ <<slot, n>> \notin publishing' /\ publishing' \subseteq publishing
      BY <1>7, <2>1 DEF Publish, run
    <3>2. CASE stream' = stream
      BY <3>1, <3>2 DEF IInv, EventsOfSlot
    <3>3. CASE stream' = Append(stream, e)
      <4>1. stream \in Seq(Events)
        BY <1>a DEF TInv, TypeOK
      <4>2. ASSUME NEW i \in 1..Len(stream)
            PROVE  IF stream'[i].ticket = slot'
                   THEN /\ phase' # "announcing" /\ stream'[i].kind # "finished"
                        /\ stream'[i].n <= steps'
                        /\ <<slot', stream'[i].n>> \notin publishing'
                   ELSE reply'[stream'[i].ticket] # Pending
        <5>1. stream'[i] = stream[i]
          BY <2>2, <3>3, <4>1, AppendEvent
        <5>2. QED
          BY <3>1, <5>1 DEF IInv, EventsOfSlot
      <4>3. /\ stream'[Len(stream) + 1] = e /\ Len(stream') = Len(stream) + 1
            /\ Len(stream) \in Nat
        BY <2>2, <3>3, <4>1, AppendEvent
      <4>4. QED
        BY <2>1, <2>2, <3>1, <4>2, <4>3 DEF EventsOfSlot
    <3>4. QED
      BY <2>3, <3>2, <3>3
  <2>6. FinishedIsLast' /\ ShownIsRecorded'
    <3>1. records[slot] = Pending
      BY <1>7, <1>a, <2>1 DEF Publish, IInv, RecordOfSlot, TInv, TypeOK, AtWork
    <3>2. QED
      BY <2>2, <2>3, <3>1, EventKeepsOrder, EventIsRecorded
  <2>7. RecordExplainsItself'
    BY <2>3 DEF IInv, RecordExplainsItself
  <2>8. QED
    BY <1>a, <2>4, <2>5, <2>6, <2>7 DEF IInv
<1>8. ASSUME Settle PROVE IInv'
  <2>1. slot \in Tickets /\ steps \in 0..MaxSteps /\ outcome \in Outcomes \union {Crash}
    BY <1>8, <1>a DEF Settle, TInv, TypeOK, AtWork
  <2>2. outcome.steps \in {0, steps} \/ slot \in cut
    BY <1>8 DEF Settle, IInv, StepsAgree
  <2>3. /\ Settled(outcome) \in Envelopes
        /\ Settled(outcome).answer = (Settled(outcome).status = "completed")
        /\ Settled(outcome).answer = ~Settled(outcome).error
        /\ slot \notin cut => Settled(outcome).calls = steps
    BY <2>1, <2>2, SettledType, SettledExplains
  <2>4. /\ records'[slot] = Settled(outcome)
        /\ \A t \in Tickets : t # slot => records'[t] = records[t]
    BY <1>8, <1>a, <2>1 DEF Settle, TInv, TypeOK
  <2>5. StepsAgree' /\ RecordOfSlot'
    BY <1>8, <2>3, <2>4 DEF Settle, IInv, StepsAgree, RecordOfSlot
  <2>6. EventsOfSlot' /\ FinishedIsLast'
    BY <1>8 DEF Settle, IInv, EventsOfSlot, FinishedIsLast
  <2>7. ShownIsRecorded'
    BY <1>8, <1>b, <2>3, <2>4 DEF Settle, IInv, EventsOfSlot, ShownIsRecorded, Events
  <2>8. RecordExplainsItself'
    BY <2>3, <2>4 DEF IInv, RecordExplainsItself
  <2>9. QED
    BY <1>a, <2>5, <2>6, <2>7, <2>8 DEF IInv
<1>9. ASSUME WriteRaises PROVE IInv'
  <2>1. slot # NoTicket /\ publishing' = {}
    BY <1>9, <1>a DEF WriteRaises, TInv, AtWork
  <2>2. QED
    BY <1>9, <1>a, <2>1, EndsUnanswered DEF WriteRaises
<1>10. ASSUME Finish PROVE IInv'
  <2> DEFINE e == Event("finished", slot, 0)
  <2>1. slot \in Tickets /\ slot' = NoTicket /\ envelope \in Envelopes
    BY <1>10, <1>a DEF Finish, Free, IInv, RecordOfSlot, TInv, TypeOK, AtWork
  <2>2. e \in Events /\ e.ticket = slot /\ e.n = 0
    BY <2>1, BoundAssumption DEF Event, Events
  <2>3. stream' \in {stream, Append(stream, e)} /\ records' = records /\ cut' = cut
    BY <1>10 DEF Finish
  <2>4. /\ reply'[slot] # Pending
        /\ \A t \in Tickets : t # slot => reply'[t] = reply[t]
    BY <1>10, <1>a, <2>1, EnvelopeIsThere DEF Finish, TInv, TypeOK
  <2>5. StepsAgree' /\ RecordOfSlot'
    BY <1>10, <2>1, <2>4 DEF Finish, Free, IInv, StepsAgree, RecordOfSlot
  <2>6. EventsOfSlot'
    <3>1. \A i \in 1..Len(stream) : stream[i].ticket # NoTicket /\ reply'[stream[i].ticket] # Pending
      BY <1>b, <2>4, TicketAssumption DEF IInv, EventsOfSlot, Events
    <3>2. \A i \in 1..Len(stream') : stream'[i].ticket # NoTicket /\ reply'[stream'[i].ticket] # Pending
      <4>1. stream \in Seq(Events)
        BY <1>a DEF TInv, TypeOK
      <4>2. QED
        BY <2>1, <2>2, <2>3, <2>4, <3>1, <4>1, AppendEvent, TicketAssumption
    <3>3. QED
      BY <2>1, <3>2 DEF EventsOfSlot
  <2>7. FinishedIsLast' /\ ShownIsRecorded'
    <3>1. 0 <= records[slot].calls
      BY <1>10, BoundAssumption DEF Finish, IInv, RecordOfSlot, Envelopes
    <3>2. QED
      BY <2>2, <2>3, <3>1, EventKeepsOrder, EventIsRecorded
  <2>8. RecordExplainsItself'
    BY <2>3 DEF IInv, RecordExplainsItself
  <2>9. QED
    BY <1>a, <2>5, <2>6, <2>7, <2>8 DEF IInv
<1>11. ASSUME Killed PROVE IInv'
  BY <1>11, <1>a, EndsUnanswered DEF Killed
<1>12. CASE UNCHANGED vars
  BY <1>12, <1>a DEF vars, run, IInv, StepsAgree, RecordOfSlot, EventsOfSlot, FinishedIsLast,
                     ShownIsRecorded, RecordExplainsItself
<1>13. QED
  BY <1>1, <1>2, <1>3, <1>4, <1>5, <1>6, <1>7, <1>8, <1>9, <1>10, <1>11, <1>12 DEF Next

\* Nothing of a ticket reaches the bus behind its finished event, whatever order
\* its concurrent publications take and whenever the process dies.
THEOREM NothingAfterFinished == Spec => []FinishedIsLast
<1>1. IInv => FinishedIsLast
  BY DEF IInv
<1>2. QED
  BY <1>1, RecordInit, RecordStep, PTL DEF Spec

\* No step that was published is missing from the record of its run.
THEOREM ShownStepsAreRecorded == Spec => []ShownIsRecorded
<1>1. IInv => ShownIsRecorded
  BY DEF IInv
<1>2. QED
  BY <1>1, RecordInit, RecordStep, PTL DEF Spec

\* A record has an answer or says why it has none, never both.
THEOREM RecordsExplainThemselves == Spec => []RecordExplainsItself
<1>1. IInv => RecordExplainsItself
  BY DEF IInv
<1>2. QED
  BY <1>1, RecordInit, RecordStep, PTL DEF Spec

-----------------------------------------------------------------------------
(* Refinement of AnalystPromise                                             *)

\* An event that is sent is narrated, unless it is the last.
LEMMA EventIsNarrated ==
    ASSUME TypeOK, NEW e \in Events, stream' = Append(stream, e), NEW t
    PROVE  Narrated(t)' = IF e.ticket = t /\ e.kind # "finished"
                          THEN Narrated(t) \union {e.n} ELSE Narrated(t)
<1>1. stream \in Seq(Events)
  BY DEF TypeOK
<1>2. \A x : x \in Narrated(t)' <=>
          \E i \in 1..Len(stream) + 1 :
              stream'[i].ticket = t /\ stream'[i].kind # "finished" /\ x = stream'[i].n
  BY <1>1, AppendEvent DEF Narrated
<1>3. \A x : x \in Narrated(t) <=>
          \E i \in 1..Len(stream) :
              stream[i].ticket = t /\ stream[i].kind # "finished" /\ x = stream[i].n
  BY DEF Narrated
<1>4. \A x : x \in Narrated(t)' <=>
          x \in Narrated(t) \/ (e.ticket = t /\ e.kind # "finished" /\ x = e.n)
  BY <1>1, <1>2, <1>3, AppendEvent
<1>5. CASE e.ticket = t /\ e.kind # "finished"
  <2>1. Narrated(t)' = Narrated(t) \union {e.n}
    BY <1>4, <1>5
  <2>2. QED
    BY <1>5, <2>1
<1>6. CASE ~(e.ticket = t /\ e.kind # "finished")
  <2>1. Narrated(t)' = Narrated(t)
    BY <1>4, <1>6
  <2>2. QED
    BY <1>6, <2>1
<1>7. QED
  BY <1>5, <1>6

LEMMA SilenceIsNotNarrated ==
    ASSUME NEW t, stream' = stream
    PROVE  Narrated(t)' = Narrated(t)
BY DEF Narrated

\* The bus is told of an envelope by its verdict.
LEMMA StatusType ==
    /\ StatusOf(Pending) = "pending"
    /\ \A e \in Envelopes : StatusOf(e) \in {"completed", "failed"}
    /\ \A how \in {"raised", "lost"} : StatusOf([status |-> how]) = how
BY DEF StatusOf, Pending, Envelopes

LEMMA StatusIsPending ==
    ASSUME NEW e \in Envelopes \union {Pending} \union [status : {"raised", "lost"}]
    PROVE  StatusOf(e) = "pending" <=> e = Pending
BY DEF StatusOf, Pending, Envelopes

LEMMA PromiseInit == Init => Promise!Init
BY DEF Init, Promise!Init, Narrated, StatusOf, Pending

\* An event about the ticket at work, before its end, is one Narrate or is lost.
LEMMA EventKeepsPromise ==
    ASSUME IInv, NEW e \in Events, e.ticket = slot, slot \in Tickets, e.kind # "finished",
           stream' \in {stream, Append(stream, e)}, e.n \notin Narrated(slot),
           phase # "closing", UNCHANGED <<slot, records, reply>>
    PROVE  [Promise!Next]_(Promise!vars)
<1>1. CASE stream' = stream
  <2>1. \A t : Narrated(t)' = Narrated(t)
    BY <1>1, SilenceIsNotNarrated
  <2>2. QED
    BY <2>1 DEF Promise!vars
<1>2. CASE stream' = Append(stream, e)
  <2>1. \A t \in Tickets : Narrated(t)' = IF t = slot THEN Narrated(t) \union {e.n} ELSE Narrated(t)
    BY <1>2, EventIsNarrated DEF IInv, TInv
  <2>2. records[slot] = Pending
    BY TicketAssumption DEF IInv, RecordOfSlot
  <2>3. e.n \in 0..MaxSteps
    BY DEF Events
  <2>4. Promise!Narrate(e.n)
    BY <2>1, <2>2, TicketAssumption, StatusType DEF Promise!Narrate
  <2>5. QED
    BY <2>3, <2>4 DEF Promise!Next
<1>3. QED
  BY <1>1, <1>2

\* An investigation that ends without an envelope is one Fail.
LEMMA EndKeepsPromise ==
    ASSUME IInv, slot \in Tickets, Free, NEW how \in {"raised", "lost"},
           how = "raised" => phase # "closing",
           reply' = [reply EXCEPT ![slot] = [status |-> how]], UNCHANGED <<stream, records>>
    PROVE  Promise!Next
<1>1. \A t : Narrated(t)' = Narrated(t)
  BY SilenceIsNotNarrated
<1>2. how = "raised" => records[slot] = Pending
  BY TicketAssumption DEF IInv, RecordOfSlot
<1>3. \A t \in Tickets : StatusOf(reply'[t]) = IF t = slot THEN how ELSE StatusOf(reply[t])
  BY StatusType DEF IInv, TInv, TypeOK
<1>4. Promise!Fail(how)
  BY <1>1, <1>2, <1>3, StatusType, TicketAssumption DEF Promise!Fail, Free
<1>5. QED
  BY <1>4 DEF Promise!Next

LEMMA PromiseStep == IInv /\ [Next]_vars => [Promise!Next]_(Promise!vars)
<1> SUFFICES ASSUME IInv, [Next]_vars PROVE [Promise!Next]_(Promise!vars)
  OBVIOUS
<1>a. TypeOK /\ AtWork
  BY DEF IInv, TInv
<1>b. stream' = stream => \A t : Narrated(t)' = Narrated(t)
  BY SilenceIsNotNarrated
<1>1. ASSUME NEW t \in Tickets, Take(t) PROVE Promise!Next
  <2>1. Promise!Take(t)
    BY <1>1, <1>b, StatusType DEF Take, Promise!Take
  <2>2. QED
    BY <2>1 DEF Promise!Next
<1>2. ASSUME NEW t \in Tickets, TakeRaises(t) PROVE Promise!Next
  <2>1. Promise!Refuse(t)
    BY <1>2, <1>a, <1>b, StatusType DEF TakeRaises, Promise!Refuse, TypeOK, run
  <2>2. QED
    BY <2>1 DEF Promise!Next
<1>3. ASSUME Announced PROVE [Promise!Next]_(Promise!vars)
  <2> DEFINE e == Event("started", slot, 0)
  <2>1. slot \in Tickets /\ e \in Events /\ e.ticket = slot /\ e.kind # "finished" /\ e.n = 0
    BY <1>3, <1>a, BoundAssumption DEF Announced, TypeOK, AtWork, Event, Events
  <2>2. 0 \notin Narrated(slot)
    BY <1>3 DEF Announced, IInv, EventsOfSlot, Narrated
  <2>3. QED
    BY <1>3, <2>1, <2>2, EventKeepsPromise DEF Announced
<1>4. ASSUME NEW t \in Tickets, NEW n \in 1..MaxSteps, Publish(t, n)
      PROVE  [Promise!Next]_(Promise!vars)
  <2> DEFINE e == Event("step", t, n)
  <2>1. t = slot /\ phase # "closing"
    BY <1>4, <1>a DEF Publish, TypeOK, AtWork
  <2>2. e \in Events /\ e.ticket = slot /\ e.kind # "finished" /\ e.n = n
    BY <2>1, BoundAssumption DEF Event, Events
  <2>3. n \notin Narrated(slot)
    BY <1>4, <2>1 DEF Publish, IInv, EventsOfSlot, Narrated
  <2>4. QED
    BY <1>4, <2>1, <2>2, <2>3, EventKeepsPromise DEF Publish, run
<1>5. ASSUME Settle PROVE Promise!Next
  <2>1. slot \in Tickets /\ steps \in 0..MaxSteps /\ outcome \in Outcomes \union {Crash}
    BY <1>5, <1>a DEF Settle, TypeOK, AtWork
  <2> DEFINE status == StatusOf(Settled(outcome))
  <2>2. status \in Promise!Verdict
    BY <2>1, SettledType, StatusType DEF Promise!Verdict
  <2>3. records[slot] = Pending
    BY <1>5, <2>1, TicketAssumption DEF Settle, IInv, RecordOfSlot
  <2>4. \A t \in Tickets : StatusOf(records'[t]) = IF t = slot THEN status ELSE StatusOf(records[t])
    BY <1>5, <1>a DEF Settle, TypeOK
  <2>5. Promise!Record(status)
    BY <1>5, <1>b, <2>1, <2>3, <2>4, StatusType, TicketAssumption DEF Settle, Promise!Record
  <2>6. QED
    BY <2>2, <2>5 DEF Promise!Next
<1>6. ASSUME WriteRaises PROVE Promise!Next
  <2>1. slot \in Tickets
    BY <1>6, <1>a DEF WriteRaises, TypeOK, AtWork
  <2>2. QED
    BY <1>6, <2>1, EndKeepsPromise DEF WriteRaises
<1>7. ASSUME Finish PROVE Promise!Next
  <2>1. slot \in Tickets /\ envelope \in Envelopes /\ envelope = records[slot]
    BY <1>7, <1>a DEF Finish, TypeOK, AtWork, IInv, RecordOfSlot
  <2>2. \A t \in Tickets : Narrated(t)' = Narrated(t)
    <3> DEFINE e == Event("finished", slot, 0)
    <3>1. e \in Events /\ e.kind = "finished"
      BY <2>1, BoundAssumption DEF Event, Events
    <3>2. stream' = Append(stream, e) => \A t \in Tickets : Narrated(t)' = Narrated(t)
      BY <1>a, <3>1, EventIsNarrated
    <3>3. QED
      BY <1>7, <1>b, <3>2 DEF Finish
  <2>3. \A t \in Tickets : StatusOf(reply'[t]) =
            IF t = slot THEN StatusOf(records[slot]) ELSE StatusOf(reply[t])
    BY <1>7, <1>a, <2>1 DEF Finish, TypeOK
  <2>4. StatusOf(records[slot]) # "pending"
    BY <2>1, StatusType
  <2>5. Promise!Answer
    BY <1>7, <2>1, <2>2, <2>3, <2>4, TicketAssumption DEF Finish, Free, Promise!Answer
  <2>6. QED
    BY <2>5 DEF Promise!Next
<1>8. ASSUME Killed PROVE Promise!Next
  <2>1. slot \in Tickets
    BY <1>8, <1>a DEF Killed, TypeOK
  <2>2. QED
    BY <1>8, <2>1, EndKeepsPromise DEF Killed
<1>9. ASSUME UNCHANGED <<slot, stream, records, reply>> PROVE UNCHANGED Promise!vars
  BY <1>9, <1>b DEF Promise!vars
<1>10. Collect \/ LoopReturns \/ LoopRaises \/ UNCHANGED vars =>
          UNCHANGED <<slot, stream, records, reply>>
  BY DEF Collect, LoopReturns, LoopRaises, vars, run
<1>11. QED
  BY <1>1, <1>2, <1>3, <1>4, <1>5, <1>6, <1>7, <1>8, <1>9, <1>10 DEF Next

\* Every behaviour of an employee is, seen from the bus, one that AnalystPromise
\* allows: what AskSystem puts in its place.
THEOREM EmployeeKeepsPromise == Spec => KeepsAnalystPromise
BY RecordInit, RecordStep, PromiseInit, PromiseStep, PTL
   DEF Spec, KeepsAnalystPromise, Promise!Spec
=============================================================================
