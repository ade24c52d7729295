-------------------------- MODULE AskSystemProofs --------------------------
(***************************************************************************)
(* Proofs about the ask desk, for any set of analysts, requests and        *)
(* browsers and any depth of the queues; and then about the desk and the   *)
(* analyst with the bus between them, which are shown to implement the     *)
(* desk, so that what is proved of it holds of the whole.                  *)
(***************************************************************************)
EXTENDS AskSystem, SequenceTheorems, TLAPS

-----------------------------------------------------------------------------
(* Lemmas about the queues                                                  *)

\* put_nowait keeps a queue a queue, and within its depth.
LEMMA PutNowaitType ==
    ASSUME NEW q \in Seq(Events), NEW e \in Events, Len(q) <= QUEUE_DEPTH
    PROVE  PutNowait(q, e) \in Seq(Events) /\ Len(PutNowait(q, e)) <= QUEUE_DEPTH
BY DepthAssumption DEF PutNowait

\* So does putting a verdict and its sentinel.
LEMMA PutVerdictType ==
    ASSUME NEW q \in Seq(Events), NEW v \in Verdicts, Len(q) <= QUEUE_DEPTH
    PROVE  PutVerdict(q, v) \in Seq(Events) /\ Len(PutVerdict(q, v)) <= QUEUE_DEPTH
<1>1. v \in Events /\ "sentinel" \in Events
  BY DEF Events
<1>2. PutNowait(q, v) \in Seq(Events) /\ Len(PutNowait(q, v)) <= QUEUE_DEPTH
  BY <1>1, PutNowaitType
<1>3. QED
  BY <1>1, <1>2, PutNowaitType DEF PutVerdict

\* Taking the head leaves a shorter queue of the same events.
LEMMA TailType ==
    ASSUME NEW q \in Seq(Events), q # <<>>
    PROVE  /\ Head(q) \in Events
           /\ Tail(q) \in Seq(Events)
           /\ Len(Tail(q)) = Len(q) - 1
           /\ Len(q) \in Nat \ {0}
           /\ \A i \in 1..Len(Tail(q)) : Tail(q)[i] = q[i + 1]
OBVIOUS

\* Whatever a call ends with, the desk makes a verdict of it.
LEMMA SettledType == \A o \in Outcomes : Settled(o) \in Verdicts
BY DEF Settled, Verdicts

\* Freeing keeps busy a function to requests.
LEMMA DoneType ==
    ASSUME TypeOK, NEW a, NEW r
    PROVE  Done(a, r) \in [Agents -> Refs \union {NoRef}]
BY DEF Done, TypeOK

-----------------------------------------------------------------------------
\* Closing a stream preserves the part of the type invariant it touches.
LEMMA CloseType ==
    ASSUME TypeOK, NEW d \in Readers, Close(d)
    PROVE  /\ busy' \in [Agents -> Refs \union {NoRef}]
           /\ registered' \subseteq Refs
           /\ heard' \subseteq Refs
           /\ reader' \in [Readers -> ReaderStates]
<1>1. busy' \in [Agents -> Refs \union {NoRef}]
  BY DoneType DEF Close
<1>2. Away \in ReaderStates
  BY DEF ReaderStates
<1>3. QED
  BY <1>1, <1>2 DEF Close, TypeOK

\* Every variable keeps its type, and no queue outgrows its depth.
THEOREM TypeCorrect == Spec => []TypeOK
<1>1. Init => TypeOK
  BY DepthAssumption DEF Init, TypeOK, ReaderStates
<1>2. TypeOK /\ [Next]_vars => TypeOK'
  <2> SUFFICES ASSUME TypeOK, [Next]_vars PROVE TypeOK'
    OBVIOUS
  <2>1. ASSUME NEW a \in Agents, NEW r \in Refs, Ask(a, r) PROVE TypeOK'
    BY <2>1 DEF Ask, TypeOK
  <2>2. ASSUME NEW r \in Refs, Deliver(r) PROVE TypeOK'
    <3>1. "step" \in Events
      BY DEF Events
    <3>2. /\ queue' \in [Refs -> Seq(Events)]
          /\ \A s \in Refs : Len(queue'[s]) <= QUEUE_DEPTH
      BY <2>2, <3>1, PutNowaitType DEF Deliver, TypeOK
    <3>3. QED
      BY <2>2, <3>2 DEF Deliver, TypeOK, tasks
  <2>3. ASSUME NEW r \in Refs, NEW o \in Outcomes, WorkEnds(r, o) PROVE TypeOK'
    <3>1. /\ queue' \in [Refs -> Seq(Events)]
          /\ \A s \in Refs : Len(queue'[s]) <= QUEUE_DEPTH
      BY <2>3, SettledType, PutVerdictType DEF WorkEnds, TypeOK
    <3>2. busy' \in [Agents -> Refs \union {NoRef}]
      BY <2>3, DoneType DEF WorkEnds
    <3>3. QED
      BY <2>3, <3>1, <3>2 DEF WorkEnds, TypeOK
  <2>4. ASSUME NEW r \in Refs, WatchdogWakes(r) PROVE TypeOK'
    <3>1. "failed" \in Verdicts
      BY DEF Verdicts
    <3>2. /\ queue' \in [Refs -> Seq(Events)]
          /\ \A s \in Refs : Len(queue'[s]) <= QUEUE_DEPTH
      <4>1. CASE r \in heard
        BY <2>4, <4>1 DEF WatchdogWakes, TypeOK
      <4>2. CASE r \notin heard
        <5>1. queue' = [queue EXCEPT ![r] = PutVerdict(queue[r], "failed")]
          BY <2>4, <4>2 DEF WatchdogWakes
        <5>2. /\ PutVerdict(queue[r], "failed") \in Seq(Events)
              /\ Len(PutVerdict(queue[r], "failed")) <= QUEUE_DEPTH
          BY <3>1, PutVerdictType DEF TypeOK
        <5>3. QED
          BY <5>1, <5>2 DEF TypeOK
      <4>3. QED
        BY <4>1, <4>2
    <3>3. busy' \in [Agents -> Refs \union {NoRef}]
      BY <2>4, DoneType DEF WatchdogWakes, TypeOK
    <3>4. dropped' \subseteq Refs
      BY <2>4 DEF WatchdogWakes, TypeOK
    <3>5. QED
      BY <2>4, <3>2, <3>3, <3>4 DEF WatchdogWakes, TypeOK
  <2>5. ASSUME NEW d \in Readers, NEW r \in Refs, Connect(d, r) PROVE TypeOK'
    BY <2>5 DEF Connect, TypeOK, ReaderStates, desk, tasks
  <2>6. ASSUME NEW d \in Readers, StartBody(d) PROVE TypeOK'
    <3>1. AgentFor(reader[d].ref) \in Agents \union {NoAgent}
      BY DEF AgentFor
    <3>2. reader[d] \in ReaderStates \ {Away}
      BY <2>6 DEF StartBody, TypeOK, Away
    <3>3. [reader[d] EXCEPT !.phase = "reading", !.agent = AgentFor(reader[d].ref)]
            \in ReaderStates
      BY <3>1, <3>2 DEF ReaderStates
    <3>4. reader' \in [Readers -> ReaderStates]
      BY <2>6, <3>3 DEF StartBody, TypeOK
    <3>5. QED
      BY <2>6, <3>4 DEF StartBody, TypeOK, desk, tasks
  <2>7. ASSUME NEW d \in Readers, Read(d) PROVE TypeOK'
    <3>1. reader[d] \in ReaderStates \ {Away}
      BY <2>7 DEF Read, TypeOK, Away
    <3>2. reader[d].ref \in Refs
      BY <3>1 DEF ReaderStates
    <3>3. /\ queue' \in [Refs -> Seq(Events)]
          /\ \A s \in Refs : Len(queue'[s]) <= QUEUE_DEPTH
      <4> DEFINE q == queue[reader[d].ref]
      <4>1. q \in Seq(Events) /\ q # <<>> /\ Len(q) <= QUEUE_DEPTH
        BY <2>7, <3>2 DEF Read, TypeOK
      <4>2. Tail(q) \in Seq(Events) /\ Len(Tail(q)) <= QUEUE_DEPTH
        BY <4>1, TailType, DepthAssumption
      <4>3. queue' = [queue EXCEPT ![reader[d].ref] = Tail(q)]
        BY <2>7 DEF Read
      <4>4. QED
        BY <4>2, <4>3, <3>2 DEF TypeOK
    <3>4. CASE Head(queue[reader[d].ref]) = "sentinel"
      <4>1. Close(d)
        BY <2>7, <3>4 DEF Read
      <4>2. QED
        BY <2>7, <3>3, <4>1, CloseType DEF Read, TypeOK, tasks
    <3>5. CASE Head(queue[reader[d].ref]) # "sentinel"
      <4>1. \A p \in {"told", "reading"} :
              [reader[d] EXCEPT !.phase = p] \in ReaderStates
        BY <3>1 DEF ReaderStates
      <4>2. reader' \in [Readers -> ReaderStates]
        BY <2>7, <3>5, <4>1 DEF Read, TypeOK
      <4>3. QED
        BY <2>7, <3>3, <3>5, <4>2 DEF Read, TypeOK, tasks, desk
    <3>6. QED
      BY <3>4, <3>5
  <2>8. ASSUME NEW d \in Readers, Finish(d) PROVE TypeOK'
    BY <2>8, CloseType DEF Finish, TypeOK, tasks
  <2>9. ASSUME NEW d \in Readers, Leave(d) PROVE TypeOK'
    <3>1. Away \in ReaderStates
      BY DEF ReaderStates
    <3>2. CASE reader[d].phase = "connected"
      BY <2>9, <3>1, <3>2 DEF Leave, TypeOK, tasks, desk
    <3>3. CASE reader[d].phase # "connected"
      BY <2>9, <3>3, CloseType DEF Leave, TypeOK, tasks
    <3>4. QED
      BY <3>2, <3>3
  <2>10. ASSUME Restart PROVE TypeOK'
    BY <2>10, DepthAssumption DEF Restart, TypeOK, ReaderStates
  <2>11. CASE UNCHANGED vars
    BY <2>11 DEF vars, TypeOK
  <2>12. QED
    BY <2>1, <2>2, <2>3, <2>4, <2>5, <2>6, <2>7, <2>8, <2>9, <2>10, <2>11 DEF Next
<1>3. QED
  BY <1>1, <1>2, PTL DEF Spec

-----------------------------------------------------------------------------
(* Who holds an analyst                                                     *)

\* A reference not asked yet is known to nobody.
Unasked ==
    \A r \in Refs : work[r] = "none" =>
        /\ r \notin registered
        /\ \A d \in Readers : reader[d].ref # r

\* A stream whose request still holds an analyst knows which one, so that
\* closing it frees the analyst it drops the queue of.
StreamKnowsHolder ==
    \A d \in Readers : reader[d].phase \in {"reading", "told"} =>
        \A a \in Agents : busy[a] = reader[d].ref => reader[d].agent = a

HInv == TypeOK /\ Unasked /\ StreamKnowsHolder /\ HeldOnlyWhileCalling

\* A stream that is closed frees the analyst its request holds.
LEMMA CloseFrees ==
    ASSUME HInv, NEW d \in Readers, Close(d), reader[d].phase \in {"reading", "told"}
    PROVE  /\ \A a \in Agents : busy'[a] = IF busy[a] = reader[d].ref THEN NoRef ELSE busy[a]
           /\ reader[d].ref \in Refs
<1>1. reader[d].ref \in Refs
  BY DEF HInv, TypeOK, ReaderStates, Away
<1>2. QED
  BY <1>1, NoneAssumption DEF HInv, StreamKnowsHolder, Close, Done

\* Closing a stream preserves the invariant.
LEMMA CloseHolds ==
    ASSUME HInv, NEW d \in Readers, Close(d), reader[d].phase \in {"reading", "told"},
           UNCHANGED <<asked, work>>
    PROVE  (Unasked /\ StreamKnowsHolder /\ HeldOnlyWhileCalling)'
<1>1. /\ \A a \in Agents : busy'[a] \in {NoRef, busy[a]} /\ busy'[a] # reader[d].ref
      /\ reader[d].ref \in Refs
  BY CloseFrees, NoneAssumption
<1>2. reader' = [reader EXCEPT ![d] = Away] /\ registered' = registered \ {reader[d].ref}
  BY DEF Close
<1>3. Away.phase = "away" /\ Away.ref = NoRef
  BY DEF Away
<1>4. Unasked'
  BY <1>2, <1>3, NoneAssumption DEF HInv, Unasked, TypeOK
<1>5. StreamKnowsHolder'
  <2> SUFFICES ASSUME NEW e \in Readers, reader'[e].phase \in {"reading", "told"},
                      NEW a \in Agents, busy'[a] = reader'[e].ref
               PROVE  reader'[e].agent = a
    BY DEF StreamKnowsHolder
  <2>1. e # d /\ reader'[e] = reader[e]
    BY <1>2, <1>3 DEF HInv, TypeOK
  <2>2. reader[e].ref \in Refs
    BY <2>1 DEF HInv, TypeOK, ReaderStates, Away
  <2>3. busy[a] = reader[e].ref
    BY <1>1, <2>1, <2>2, NoneAssumption
  <2>4. QED
    BY <2>1, <2>3 DEF HInv, StreamKnowsHolder
<1>6. HeldOnlyWhileCalling'
  BY <1>1, <1>2 DEF HInv, HeldOnlyWhileCalling
<1>7. QED
  BY <1>4, <1>5, <1>6

\* Freeing by the work or by the watchdog frees what the request holds.
LEMMA DoneFrees ==
    ASSUME HInv, NEW r \in Refs, work[r] = "calling", busy' = Done(asked[r], r)
    PROVE  \A a \in Agents : busy'[a] = IF busy[a] = r THEN NoRef ELSE busy[a]
BY NoneAssumption DEF HInv, HeldOnlyWhileCalling, Done

\* A step keeps HInv: the desk's four facts about who holds whom support each
\* other, and none is inductive alone.
LEMMA HInvInductive == HInv /\ TypeOK' /\ [Next]_vars => HInv'
<1> SUFFICES ASSUME HInv, TypeOK', [Next]_vars PROVE HInv'
  OBVIOUS
<1> USE NoneAssumption
<1>1. ASSUME NEW a \in Agents, NEW r \in Refs, Ask(a, r) PROVE HInv'
  <2>1. Unasked'
    BY <1>1 DEF HInv, TypeOK, Ask, Unasked
  <2>2. StreamKnowsHolder'
    <3>1. \A d \in Readers : reader[d].ref # r
      BY <1>1 DEF HInv, Ask, Unasked
    <3>2. QED
      BY <1>1, <3>1 DEF HInv, TypeOK, Ask, StreamKnowsHolder
  <2>3. HeldOnlyWhileCalling'
    <3>1. \A b \in Agents : b # a => busy[b] # r
      BY <1>1 DEF HInv, Ask, HeldOnlyWhileCalling
    <3>2. QED
      BY <1>1, <3>1 DEF HInv, TypeOK, Ask, HeldOnlyWhileCalling
  <2>4. QED
    BY <2>1, <2>2, <2>3 DEF HInv
<1>2. ASSUME NEW r \in Refs, Deliver(r) PROVE HInv'
  BY <1>2 DEF HInv, Deliver, tasks, Unasked, StreamKnowsHolder, HeldOnlyWhileCalling
<1>3. ASSUME NEW r \in Refs, NEW o \in Outcomes, WorkEnds(r, o) PROVE HInv'
  <2>1. \A a \in Agents : busy'[a] = IF busy[a] = r THEN NoRef ELSE busy[a]
    BY <1>3, DoneFrees DEF WorkEnds
  <2>2. Unasked'
    BY <1>3 DEF HInv, TypeOK, WorkEnds, Unasked
  <2>3. StreamKnowsHolder'
    BY <1>3, <2>1 DEF HInv, TypeOK, WorkEnds, StreamKnowsHolder, ReaderStates, Away
  <2>4. HeldOnlyWhileCalling'
    BY <1>3, <2>1 DEF HInv, TypeOK, WorkEnds, HeldOnlyWhileCalling
  <2>5. QED
    BY <2>2, <2>3, <2>4 DEF HInv
<1>4. ASSUME NEW r \in Refs, WatchdogWakes(r) PROVE HInv'
  <2>1. \A a \in Agents : busy'[a] \in {NoRef, busy[a]}
    BY <1>4 DEF WatchdogWakes, Done
  <2>2. Unasked'
    BY <1>4 DEF HInv, WatchdogWakes, Unasked
  <2>3. StreamKnowsHolder'
    BY <1>4, <2>1 DEF HInv, TypeOK, WatchdogWakes, StreamKnowsHolder, ReaderStates, Away
  <2>4. HeldOnlyWhileCalling'
    BY <1>4, <2>1 DEF HInv, WatchdogWakes, HeldOnlyWhileCalling
  <2>5. QED
    BY <2>2, <2>3, <2>4 DEF HInv
<1>5. ASSUME NEW d \in Readers, NEW r \in Refs, Connect(d, r) PROVE HInv'
  <2>1. reader' = [reader EXCEPT ![d] = [phase |-> "connected", ref |-> r, agent |-> NoAgent]]
    BY <1>5 DEF Connect
  <2>2. Unasked'
    BY <1>5, <2>1 DEF HInv, TypeOK, Connect, Unasked, desk, tasks
  <2>3. StreamKnowsHolder'
    BY <1>5, <2>1 DEF HInv, TypeOK, Connect, StreamKnowsHolder, desk, tasks
  <2>4. HeldOnlyWhileCalling'
    BY <1>5 DEF HInv, Connect, HeldOnlyWhileCalling, desk, tasks
  <2>5. QED
    BY <2>2, <2>3, <2>4 DEF HInv
<1>6. ASSUME NEW d \in Readers, StartBody(d) PROVE HInv'
  <2> DEFINE s == [reader[d] EXCEPT !.phase = "reading", !.agent = AgentFor(reader[d].ref)]
  <2>1. reader' = [reader EXCEPT ![d] = s]
    BY <1>6 DEF StartBody
  <2>2. reader[d] \in ReaderStates \ {Away}
    BY <1>6 DEF HInv, TypeOK, StartBody, Away
  <2>3. s.ref = reader[d].ref /\ s.agent = AgentFor(reader[d].ref)
    BY <2>2 DEF ReaderStates
  <2>4. Unasked'
    BY <1>6, <2>1, <2>3 DEF HInv, TypeOK, StartBody, Unasked, desk, tasks
  <2>5. \A a \in Agents : busy[a] = reader[d].ref => AgentFor(reader[d].ref) = a
    <3> SUFFICES ASSUME NEW a \in Agents, busy[a] = reader[d].ref
                 PROVE  AgentFor(reader[d].ref) = a
      OBVIOUS
    <3>1. reader[d].ref \in Refs
      BY <2>2 DEF ReaderStates
    <3>2. \A b \in Agents : busy[b] = reader[d].ref => b = a
      BY <3>1 DEF HInv, HeldOnlyWhileCalling
    <3>3. QED
      BY <3>2 DEF AgentFor
  <2>6. StreamKnowsHolder'
    BY <1>6, <2>1, <2>3, <2>5 DEF HInv, TypeOK, StartBody, StreamKnowsHolder, desk, tasks
  <2>7. HeldOnlyWhileCalling'
    BY <1>6 DEF HInv, StartBody, HeldOnlyWhileCalling, desk, tasks
  <2>8. QED
    BY <2>4, <2>6, <2>7 DEF HInv
<1>7. ASSUME NEW d \in Readers, Read(d) PROVE HInv'
  <2>1. CASE Head(queue[reader[d].ref]) = "sentinel"
    BY <1>7, <2>1, CloseHolds DEF HInv, Read, tasks
  <2>2. CASE Head(queue[reader[d].ref]) # "sentinel"
    <3>1. PICK p \in {"told", "reading"} :
            reader' = [reader EXCEPT ![d] = [reader[d] EXCEPT !.phase = p]]
      BY <1>7, <2>2 DEF Read
    <3>2. reader[d] \in ReaderStates \ {Away}
      BY <1>7 DEF HInv, TypeOK, Read, Away
    <3>3. \A e \in Readers : reader'[e].ref = reader[e].ref /\ reader'[e].agent = reader[e].agent
      BY <3>1, <3>2 DEF HInv, TypeOK, ReaderStates
    <3>4. \A e \in Readers : reader'[e].phase \in {"reading", "told"} =>
            reader[e].phase \in {"reading", "told"}
      BY <1>7, <3>1 DEF HInv, TypeOK, Read
    <3>5. QED
      BY <1>7, <2>2, <3>3, <3>4
         DEF HInv, Read, Unasked, StreamKnowsHolder, HeldOnlyWhileCalling, desk, tasks
  <2>3. QED
    BY <2>1, <2>2
<1>8. ASSUME NEW d \in Readers, Finish(d) PROVE HInv'
  BY <1>8, CloseHolds DEF HInv, Finish, tasks
<1>9. ASSUME NEW d \in Readers, Leave(d) PROVE HInv'
  <2>1. reader[d] \in ReaderStates
    BY DEF HInv, TypeOK
  <2>2. CASE reader[d].phase = "connected"
    <3>1. reader' = [reader EXCEPT ![d] = Away] /\ UNCHANGED <<busy, registered, work, asked>>
      BY <1>9, <2>2 DEF Leave, desk, tasks
    <3>2. Unasked'
      BY <3>1 DEF HInv, TypeOK, Away, Unasked
    <3>3. StreamKnowsHolder'
      BY <3>1 DEF HInv, TypeOK, Away, StreamKnowsHolder
    <3>4. HeldOnlyWhileCalling'
      BY <3>1 DEF HInv, HeldOnlyWhileCalling
    <3>5. QED
      BY <3>2, <3>3, <3>4 DEF HInv
  <2>3. CASE reader[d].phase # "connected"
    <3>1. reader[d].phase \in {"reading", "told"}
      BY <1>9, <2>1, <2>3 DEF Leave, ReaderStates, Away
    <3>2. QED
      BY <1>9, <2>3, <3>1, CloseHolds DEF HInv, Leave, tasks
  <2>4. QED
    BY <2>2, <2>3
<1>10. ASSUME Restart PROVE HInv'
  BY <1>10 DEF HInv, TypeOK, Restart, Away, Unasked, StreamKnowsHolder, HeldOnlyWhileCalling
<1>11. CASE UNCHANGED vars
  BY <1>11 DEF vars, HInv, TypeOK, Unasked, StreamKnowsHolder, HeldOnlyWhileCalling
<1>12. QED
  BY <1>1, <1>2, <1>3, <1>4, <1>5, <1>6, <1>7, <1>8, <1>9, <1>10, <1>11 DEF Next

\* HInv is an invariant: what the next theorems rest on.
LEMMA HoldsAlways == Spec => []HInv
<1>1. Init => HInv
  BY DepthAssumption, NoneAssumption
     DEF Init, HInv, TypeOK, ReaderStates, Away, Unasked, StreamKnowsHolder, HeldOnlyWhileCalling
<1>2. QED
  BY <1>1, TypeCorrect, HInvInductive, PTL DEF Spec

\* An analyst is never held by a request that is over, that asked somebody
\* else or that no browser can find: the desk cannot lock an analyst out.
THEOREM NeverLockedOut == Spec => []HeldOnlyWhileCalling
<1>1. HInv => HeldOnlyWhileCalling
  BY DEF HInv
<1>2. QED
  BY <1>1, HoldsAlways, PTL

\* Conversely, a request whose call is out, that a browser can find and that the
\* watchdog has not given up on still holds the analyst it asked.
StillHeld ==
    \A r \in registered : work[r] = "calling" /\ watchdog[r] # "over" =>
        asked[r] \in Agents /\ busy[asked[r]] = r

\* Nobody takes an analyst from a request without one of the three showing.
THEOREM HeldUntilLetGo == Spec => []StillHeld
<1>1. Init => StillHeld
  BY DEF Init, StillHeld
<1>2. TypeOK /\ StillHeld /\ [Next]_vars => StillHeld'
  <2> SUFFICES ASSUME TypeOK, StillHeld, [Next]_vars PROVE StillHeld'
    OBVIOUS
  <2> USE NoneAssumption DEF TypeOK, StillHeld
  <2>1. ASSUME NEW a \in Agents, NEW r \in Refs, Ask(a, r) PROVE StillHeld'
    BY <2>1 DEF Ask
  <2>2. ASSUME NEW r \in Refs, Deliver(r) PROVE StillHeld'
    BY <2>2 DEF Deliver, tasks
  <2>3. ASSUME NEW r \in Refs, NEW o \in Outcomes, WorkEnds(r, o) PROVE StillHeld'
    BY <2>3 DEF WorkEnds, Done
  <2>4. ASSUME NEW r \in Refs, WatchdogWakes(r) PROVE StillHeld'
    BY <2>4 DEF WatchdogWakes, Done
  <2>5. ASSUME NEW d \in Readers, Close(d), UNCHANGED <<asked, work, watchdog>>
        PROVE  StillHeld'
    BY <2>5 DEF Close, Done
  <2>6. ASSUME UNCHANGED <<busy, registered, asked, work, watchdog>> PROVE StillHeld'
    BY <2>6
  <2>7. ASSUME Restart PROVE StillHeld'
    BY <2>7 DEF Restart
  <2>8. QED
    <3>1. ASSUME NEW d \in Readers, NEW r \in Refs, Connect(d, r) PROVE StillHeld'
      BY <3>1, <2>6 DEF Connect, desk, tasks
    <3>2. ASSUME NEW d \in Readers, StartBody(d) \/ Read(d) \/ Finish(d) \/ Leave(d)
          PROVE  StillHeld'
      BY <3>2, <2>5, <2>6 DEF StartBody, Read, Finish, Leave, desk, tasks
    <3>3. QED
      BY <2>1, <2>2, <2>3, <2>4, <2>6, <2>7, <3>1, <3>2 DEF Next, vars
<1>3. QED
  BY <1>1, <1>2, TypeCorrect, PTL DEF Spec

\* The watchdog never takes an analyst from a request that was heard.
LEMMA HeardStep ==
    ASSUME HInv, [Next]_vars, NEW a \in Agents, busy[a] \in heard, busy'[a] # busy[a]
    PROVE  work'[busy[a]] = "ended" \/ busy[a] \notin registered'
<1> USE NoneAssumption
<1>1. busy[a] \in Refs /\ busy[a] # NoRef /\ work[busy[a]] = "calling"
  BY DEF HInv, TypeOK, HeldOnlyWhileCalling
<1>2. ASSUME NEW b \in Agents, NEW r \in Refs, Ask(b, r) PROVE FALSE
  BY <1>1, <1>2 DEF Ask, HInv, TypeOK
<1>3. ASSUME NEW r \in Refs, NEW o \in Outcomes, WorkEnds(r, o) PROVE work'[busy[a]] = "ended"
  BY <1>3 DEF WorkEnds, Done, HInv, TypeOK
<1>4. ASSUME NEW r \in Refs, WatchdogWakes(r) PROVE FALSE
  BY <1>4 DEF WatchdogWakes, Done
<1>5. ASSUME NEW d \in Readers, Close(d) PROVE busy[a] \notin registered'
  BY <1>5 DEF Close, Done
<1>6. ASSUME Restart PROVE work'[busy[a]] = "ended"
  BY <1>1, <1>6 DEF Restart
<1>7. QED
  BY <1>2, <1>3, <1>4, <1>5, <1>6
     DEF Next, vars, desk, Deliver, Connect, StartBody, Read, Finish, Leave

\* As long as its work goes on and its reader stays, a request that was heard
\* keeps its analyst.
THEOREM HeardIsNeverGivenUp == Spec => HeardKeepsItsAnalyst
<1>1. HInv /\ [Next]_vars =>
        [\A a \in Agents : busy[a] \in heard /\ busy'[a] # busy[a] =>
            work'[busy[a]] = "ended" \/ busy[a] \notin registered']_vars
  BY HeardStep
<1>2. QED
  BY <1>1, HoldsAlways, PTL DEF Spec, HeardKeepsItsAnalyst

-----------------------------------------------------------------------------
(* The desk implements AskPromise                                           *)

\* The phase of a request, one by one.
LEMMA PhaseIs ==
    ASSUME TypeOK, NEW r \in Refs
    PROVE  /\ PhaseOf[r] = "new" <=> work[r] = "none"
           /\ PhaseOf[r] = "open" <=> work[r] = "calling"
           /\ PhaseOf[r] = "over" <=> work[r] = "ended"
BY DEF PhaseOf, TypeOK

\* A step that lets an analyst go, or nothing, while no request ends.
LEMMA LettingGoIsAllowed ==
    ASSUME HInv, NEW r, work' = work,
           busy' \in [Agents -> Refs \union {NoRef}],
           r \in Refs,
           \A a \in Agents : busy'[a] = IF busy[a] = r THEN NoRef ELSE busy[a]
    PROVE  [Promise!PNext]_Promise!pvars
<1> USE NoneAssumption
<1>1. PhaseOf' = PhaseOf
  BY DEF PhaseOf
<1>2. CASE \A a \in Agents : busy[a] # r
  <2>1. busy' = busy
    BY <1>2 DEF HInv, TypeOK
  <2>2. QED
    BY <1>1, <2>1 DEF Promise!pvars
<1>3. CASE \E a \in Agents : busy[a] = r
  <2>1. PICK a \in Agents : busy[a] = r
    BY <1>3
  <2>2. \A b \in Agents : b # a => busy[b] # r
    BY <2>1 DEF HInv, HeldOnlyWhileCalling
  <2>3. busy' = [busy EXCEPT ![a] = NoRef]
    BY <2>1, <2>2 DEF HInv, TypeOK
  <2>4. Promise!LetGo(a)
    BY <1>1, <2>1, <2>3 DEF Promise!LetGo
  <2>5. QED
    BY <2>4 DEF Promise!PNext
<1>4. QED
  BY <1>2, <1>3

\* Every step of the desk is a step of AskPromise, or leaves holders and phases
\* as they were.
LEMMA StepIsAllowed ==
    ASSUME HInv, TypeOK', [Next]_vars
    PROVE  [Promise!PNext]_Promise!pvars
<1> USE NoneAssumption
<1>t. TypeOK
  BY DEF HInv
<1>1. ASSUME NEW a \in Agents, NEW r \in Refs, Ask(a, r) PROVE Promise!PNext
  <2>1. PhaseOf[r] = "new"
    BY <1>1, <1>t, PhaseIs DEF Ask
  <2>2. PhaseOf' = [PhaseOf EXCEPT ![r] = "open"]
    BY <1>1, <1>t DEF Ask, PhaseOf, TypeOK
  <2>3. Promise!Admit(a, r)
    BY <1>1, <2>1, <2>2 DEF Ask, Promise!Admit
  <2>4. QED
    BY <2>3 DEF Promise!PNext
<1>2. ASSUME UNCHANGED <<busy, work>> PROVE UNCHANGED Promise!pvars
  BY <1>2 DEF Promise!pvars, PhaseOf
<1>3. ASSUME NEW r \in Refs, NEW o \in Outcomes, WorkEnds(r, o) PROVE Promise!PNext
  <2>1. \A a \in Agents : busy'[a] = IF busy[a] = r THEN NoRef ELSE busy[a]
    BY <1>3, DoneFrees DEF WorkEnds
  <2>2. busy' = [a \in Agents |-> IF busy[a] \in {r} THEN NoRef ELSE busy[a]]
    BY <2>1 DEF TypeOK
  <2>3. PhaseOf' = [s \in Refs |-> IF s \in {r} THEN "over" ELSE PhaseOf[s]]
    BY <1>3, <1>t DEF WorkEnds, PhaseOf, TypeOK
  <2>4. PhaseOf[r] = "open"
    BY <1>3, <1>t, PhaseIs DEF WorkEnds
  <2>5. Promise!Conclude({r})
    BY <2>2, <2>3, <2>4 DEF Promise!Conclude
  <2>6. QED
    BY <2>5 DEF Promise!PNext
<1>4. ASSUME NEW r \in Refs, WatchdogWakes(r) PROVE [Promise!PNext]_Promise!pvars
  <2>1. CASE r \in heard
    BY <1>2, <1>4, <2>1 DEF WatchdogWakes
  <2>2. CASE r \notin heard
    <3>1. busy' = Done(asked[r], r) /\ work' = work
      BY <1>4, <2>2 DEF WatchdogWakes
    <3>2. \A a \in Agents : busy'[a] = IF busy[a] = r /\ asked[r] = a THEN NoRef ELSE busy[a]
      BY <3>1 DEF Done
    <3>3. \A a \in Agents : busy[a] = r => asked[r] = a
      BY DEF HInv, HeldOnlyWhileCalling
    <3>4. \A a \in Agents : busy'[a] = IF busy[a] = r THEN NoRef ELSE busy[a]
      BY <3>2, <3>3
    <3>5. QED
      BY <3>1, <3>4, LettingGoIsAllowed DEF TypeOK
  <2>3. QED
    BY <2>1, <2>2
<1>5. ASSUME NEW d \in Readers, Close(d), reader[d].phase \in {"reading", "told"}, work' = work
      PROVE  [Promise!PNext]_Promise!pvars
  <2>1. /\ \A a \in Agents : busy'[a] = IF busy[a] = reader[d].ref THEN NoRef ELSE busy[a]
        /\ reader[d].ref \in Refs
    BY <1>5, CloseFrees
  <2>2. QED
    BY <1>5, <2>1, LettingGoIsAllowed DEF TypeOK
<1>6. ASSUME NEW d \in Readers, Read(d) PROVE [Promise!PNext]_Promise!pvars
  <2>1. CASE Head(queue[reader[d].ref]) = "sentinel"
    BY <1>5, <1>6, <2>1 DEF Read, tasks
  <2>2. CASE Head(queue[reader[d].ref]) # "sentinel"
    BY <1>2, <1>6, <2>2 DEF Read, tasks, desk
  <2>3. QED
    BY <2>1, <2>2
<1>7. ASSUME NEW d \in Readers, Finish(d) PROVE [Promise!PNext]_Promise!pvars
  BY <1>5, <1>7 DEF Finish, tasks
<1>8. ASSUME NEW d \in Readers, Leave(d) PROVE [Promise!PNext]_Promise!pvars
  <2>1. reader[d].phase \in {"connected", "reading", "told"}
    BY <1>8, <1>t DEF Leave, TypeOK, ReaderStates, Away
  <2>2. CASE reader[d].phase = "connected"
    BY <1>2, <1>8, <2>2 DEF Leave, tasks, desk
  <2>3. CASE reader[d].phase # "connected"
    BY <1>5, <1>8, <2>1, <2>3 DEF Leave, tasks
  <2>4. QED
    BY <2>2, <2>3
<1>9. ASSUME Restart PROVE Promise!PNext
  <2> DEFINE S == {r \in Refs : work[r] = "calling"}
  <2>1. \A r \in S : PhaseOf[r] = "open"
    BY <1>t, PhaseIs
  <2>2. PhaseOf' = [r \in Refs |-> IF r \in S THEN "over" ELSE PhaseOf[r]]
    BY <1>9, <1>t DEF Restart, PhaseOf, TypeOK
  <2>3. \A a \in Agents : busy[a] \notin S => busy[a] = NoRef
    BY DEF HInv, TypeOK, HeldOnlyWhileCalling
  <2>4. busy' = [a \in Agents |-> IF busy[a] \in S THEN NoRef ELSE busy[a]]
    BY <1>9, <2>3 DEF Restart
  <2>5. Promise!Conclude(S)
    BY <2>1, <2>2, <2>4 DEF Promise!Conclude
  <2>6. QED
    BY <2>5 DEF Promise!PNext
<1>10. ASSUME NEW r \in Refs, Deliver(r) PROVE UNCHANGED Promise!pvars
  BY <1>2, <1>10 DEF Deliver, tasks
<1>11. ASSUME NEW d \in Readers, NEW r \in Refs, Connect(d, r) PROVE UNCHANGED Promise!pvars
  BY <1>2, <1>11 DEF Connect, tasks, desk
<1>12. ASSUME NEW d \in Readers, StartBody(d) PROVE UNCHANGED Promise!pvars
  BY <1>2, <1>12 DEF StartBody, tasks, desk
<1>13. CASE UNCHANGED vars
  BY <1>2, <1>13 DEF vars
<1>14. QED
  BY <1>1, <1>3, <1>4, <1>6, <1>7, <1>8, <1>9, <1>10, <1>11, <1>12, <1>13 DEF Next

\* Every behaviour of the desk is one AskPromise allows: an analyst is given to
\* one request at a time, and a request that is over holds nobody and never
\* comes back.
THEOREM DeskKeepsPromise == Spec => KeepsPromise
<1>1. Init => Promise!PInit
  BY DEF Init, Promise!PInit, PhaseOf
<1>2. HInv /\ TypeOK' /\ [Next]_vars => [Promise!PNext]_Promise!pvars
  BY StepIsAllowed
<1>3. QED
  BY <1>1, <1>2, TypeCorrect, HoldsAlways, PTL DEF Spec, KeepsPromise, Promise!PSpec

-----------------------------------------------------------------------------
(* No stream ends without its verdict                                       *)

\* Put at the end, and nothing else moves.
LEMMA PutNowaitKeeps ==
    ASSUME NEW q \in Seq(Events), NEW e \in Events
    PROVE  \/ PutNowait(q, e) = q /\ Len(q) >= QUEUE_DEPTH
           \/ /\ Len(q) < QUEUE_DEPTH
              /\ Len(PutNowait(q, e)) = Len(q) + 1
              /\ PutNowait(q, e)[Len(q) + 1] = e
              /\ \A i \in 1..Len(q) : PutNowait(q, e)[i] = q[i]
BY DepthAssumption DEF PutNowait

\* A verdict is put at the end of what is queued, with its sentinel behind it,
\* or not at all.
LEMMA PutVerdictKeeps ==
    ASSUME NEW q \in Seq(Events), NEW v \in Verdicts
    PROVE  /\ Len(PutVerdict(q, v)) \in {Len(q), Len(q) + 1, Len(q) + 2}
           /\ \A i \in 1..Len(q) : PutVerdict(q, v)[i] = q[i]
           /\ Len(PutVerdict(q, v)) > Len(q) => PutVerdict(q, v)[Len(q) + 1] = v
           /\ ~Overflows(q, 2) => Len(PutVerdict(q, v)) > Len(q)
<1> DEFINE p == PutNowait(q, v)
<1>1. v \in Events /\ "sentinel" \in Events
  BY DEF Events
<1>2. p \in Seq(Events)
  BY <1>1 DEF PutNowait
<1>3. \/ p = q /\ Len(q) >= QUEUE_DEPTH
      \/ /\ Len(q) < QUEUE_DEPTH
         /\ Len(p) = Len(q) + 1
         /\ p[Len(q) + 1] = v
         /\ \A i \in 1..Len(q) : p[i] = q[i]
  BY <1>1, PutNowaitKeeps
<1>4. \/ PutVerdict(q, v) = p /\ Len(p) >= QUEUE_DEPTH
      \/ /\ Len(p) < QUEUE_DEPTH
         /\ Len(PutVerdict(q, v)) = Len(p) + 1
         /\ PutVerdict(q, v)[Len(p) + 1] = "sentinel"
         /\ \A i \in 1..Len(p) : PutVerdict(q, v)[i] = p[i]
  BY <1>1, <1>2, PutNowaitKeeps DEF PutVerdict
<1>5. QED
  BY <1>2, <1>3, <1>4, DepthAssumption DEF Overflows

\* In every queue a sentinel that is not at the head stands behind a verdict.
VerdictFirst ==
    \A r \in Refs : \A i \in 1..Len(queue[r]) :
        i > 1 /\ queue[r][i] = "sentinel" => queue[r][i - 1] \in Verdicts

\* A reference not asked yet has nothing in its queue.
Unwritten == \A r \in Refs : work[r] = "none" => queue[r] = <<>>

\* The watchdog sleeps only while the call is out: work() cancels it.
WatchdogGuards == \A r \in Refs : watchdog[r] = "asleep" => work[r] = "calling"

QInv == HInv /\ VerdictFirst /\ Unwritten /\ WatchdogGuards /\ NoSilentEnd /\ VerdictWaits

\* Closing a stream keeps the queues fair to whoever is left: it takes one
\* request out of the registry, and no other reader with it.
LEMMA CloseIsFair ==
    ASSUME HInv, NoSilentEnd, VerdictWaits, NEW d \in Readers, Close(d),
           reader[d].phase \in {"reading", "told"}, UNCHANGED <<work, dropped>>,
           \A r \in Refs : r # reader[d].ref => queue'[r] = queue[r]
    PROVE  NoSilentEnd' /\ VerdictWaits'
<1>1. registered' = registered \ {reader[d].ref} /\ reader' = [reader EXCEPT ![d] = Away]
  BY DEF Close
<1>2. ASSUME NEW r \in registered'
      PROVE  /\ r \in registered /\ r \in Refs
             /\ queue'[r] = queue[r]
             /\ \A e \in Readers : reader[e].phase = "told" /\ reader[e].ref = r =>
                    reader'[e] = reader[e]
  BY <1>1, <1>2 DEF HInv, TypeOK
<1>3. NoSilentEnd'
  BY <1>2 DEF NoSilentEnd
<1>4. VerdictWaits'
  BY <1>2 DEF VerdictWaits
<1>5. QED
  BY <1>3, <1>4

\* So does putting a verdict into a queue.
LEMMA VerdictIsFair ==
    ASSUME QInv, NEW r \in Refs, NEW v \in Verdicts, work[r] # "none",
           queue' = [queue EXCEPT ![r] = PutVerdict(queue[r], v)],
           UNCHANGED <<registered, reader>>, work'[r] # "none",
           \A s \in Refs : s # r => work'[s] = work[s],
           dropped' = IF Overflows(queue[r], 2) THEN dropped \union {r} ELSE dropped
    PROVE  (VerdictFirst /\ Unwritten /\ NoSilentEnd /\ VerdictWaits)'
<1> DEFINE q == queue[r]
           w == PutVerdict(queue[r], v)
<1>1. q \in Seq(Events) /\ queue'[r] = w /\ \A s \in Refs : s # r => queue'[s] = queue[s]
  BY DEF QInv, HInv, TypeOK
<1>2. /\ Len(w) \in {Len(q), Len(q) + 1, Len(q) + 2}
      /\ \A i \in 1..Len(q) : w[i] = q[i]
      /\ Len(w) > Len(q) => w[Len(q) + 1] = v
      /\ ~Overflows(q, 2) => Len(w) > Len(q)
  BY <1>1, PutVerdictKeeps
<1>3. w \in Seq(Events)
  <2>1. v \in Events /\ "sentinel" \in Events
    BY DEF Events
  <2>2. PutNowait(q, v) \in Seq(Events)
    BY <1>1, <2>1 DEF PutNowait
  <2>3. QED
    BY <2>1, <2>2 DEF PutVerdict, PutNowait
<1>4. v # "sentinel"
  BY DEF Verdicts
<1>5. VerdictFirst'
  <2>1. \A i \in 1..Len(w) : i > 1 /\ w[i] = "sentinel" => w[i - 1] \in Verdicts
    <3> SUFFICES ASSUME NEW i \in 1..Len(w), i > 1, w[i] = "sentinel" PROVE w[i - 1] \in Verdicts
      OBVIOUS
    <3>1. CASE i <= Len(q)
      BY <1>1, <1>2, <3>1 DEF QInv, VerdictFirst
    <3>2. CASE i > Len(q)
      <4>1. i = Len(q) + 1 \/ i = Len(q) + 2
        BY <1>1, <1>2, <3>2
      <4>2. i = Len(q) + 2 /\ Len(w) > Len(q)
        BY <1>1, <1>2, <1>4, <4>1
      <4>3. QED
        BY <1>1, <1>2, <4>2
    <3>3. QED
      BY <1>1, <3>1, <3>2
  <2>2. QED
    BY <1>1, <2>1 DEF QInv, VerdictFirst
<1>6. Unwritten'
  BY <1>1 DEF QInv, Unwritten
<1>7. NoSilentEnd'
  <2>1. w # <<>> /\ Head(w) = "sentinel" => q # <<>> /\ Head(q) = "sentinel"
    BY <1>1, <1>2, <1>3, <1>4
  <2>2. QED
    BY <1>1, <2>1 DEF QInv, HInv, TypeOK, NoSilentEnd
<1>8. VerdictWaits'
  <2>1. r \notin dropped' => \E i \in 1..Len(w) : w[i] \in Verdicts
    <3> SUFFICES ASSUME r \notin dropped' PROVE \E i \in 1..Len(w) : w[i] \in Verdicts
      OBVIOUS
    <3>1. Len(w) > Len(q) /\ Len(q) \in Nat /\ Len(w) \in Nat
      BY <1>1, <1>2, <1>3
    <3>2. Len(q) + 1 \in 1..Len(w) /\ w[Len(q) + 1] \in Verdicts
      BY <1>2, <3>1
    <3>3. QED
      BY <3>2
  <2>2. \A s \in Refs : s # r /\ s \notin dropped' => s \notin dropped
    OBVIOUS
  <2>3. QED
    BY <1>1, <2>1, <2>2 DEF QInv, HInv, TypeOK, VerdictWaits
<1>9. QED
  BY <1>5, <1>6, <1>7, <1>8

\* A step keeps QInv.
LEMMA QInvInductive == QInv /\ HInv' /\ [Next]_vars => QInv'
<1> SUFFICES ASSUME QInv, HInv', [Next]_vars PROVE QInv'
  OBVIOUS
<1> USE NoneAssumption
<1>t. HInv /\ TypeOK /\ TypeOK'
  BY DEF QInv, HInv
<1>g. WatchdogGuards'
  <2>1. ASSUME NEW a \in Agents, NEW r \in Refs, Ask(a, r) PROVE WatchdogGuards'
    BY <1>t, <2>1 DEF QInv, WatchdogGuards, TypeOK, Ask
  <2>2. ASSUME NEW r \in Refs, NEW o \in Outcomes, WorkEnds(r, o) PROVE WatchdogGuards'
    BY <1>t, <2>2 DEF QInv, WatchdogGuards, TypeOK, WorkEnds
  <2>3. ASSUME NEW r \in Refs, WatchdogWakes(r) PROVE WatchdogGuards'
    BY <1>t, <2>3 DEF QInv, WatchdogGuards, TypeOK, WatchdogWakes
  <2>4. ASSUME Restart PROVE WatchdogGuards'
    BY <1>t, <2>4 DEF TypeOK, WatchdogGuards, Restart
  <2>5. ASSUME UNCHANGED <<work, watchdog>> PROVE WatchdogGuards'
    BY <2>5 DEF QInv, WatchdogGuards
  <2>6. QED
    BY <2>1, <2>2, <2>3, <2>4, <2>5
       DEF Next, vars, Deliver, Connect, StartBody, Read, Finish, Leave, tasks
<1>0. ASSUME UNCHANGED <<queue, registered, work, dropped>>,
             \A d \in Readers : reader[d].phase = "told" => reader'[d] = reader[d]
      PROVE  QInv'
  BY <1>g, <1>0 DEF QInv, VerdictFirst, Unwritten, NoSilentEnd, VerdictWaits
<1>1. ASSUME NEW a \in Agents, NEW r \in Refs, Ask(a, r) PROVE QInv'
  <2>1. queue[r] = <<>>
    BY <1>1 DEF Ask, QInv, Unwritten
  <2>2. QED
    <3>1. /\ UNCHANGED <<queue, reader, dropped>>
          /\ registered' = registered \union {r}
          /\ work'[r] = "calling" /\ \A s \in Refs : s # r => work'[s] = work[s]
      BY <1>t, <1>1 DEF Ask, TypeOK
    <3>2. VerdictFirst' /\ Unwritten'
      BY <3>1 DEF QInv, VerdictFirst, Unwritten
    <3>3. NoSilentEnd'
      BY <2>1, <3>1 DEF QInv, NoSilentEnd
    <3>4. VerdictWaits'
      BY <1>t, <3>1 DEF QInv, TypeOK, VerdictWaits
    <3>5. QED
      BY <1>g, <3>2, <3>3, <3>4 DEF QInv
<1>2. ASSUME NEW r \in Refs, Deliver(r) PROVE QInv'
  <2> DEFINE q == queue[r]
             w == PutNowait(queue[r], "step")
  <2>1. q \in Seq(Events) /\ queue'[r] = w /\ \A s \in Refs : s # r => queue'[s] = queue[s]
    BY <1>t, <1>2 DEF Deliver, TypeOK
  <2>2. "step" \in Events /\ "step" # "sentinel"
    BY DEF Events
  <2>3. \/ w = q
        \/ /\ Len(w) = Len(q) + 1
           /\ w[Len(q) + 1] = "step"
           /\ \A i \in 1..Len(q) : w[i] = q[i]
    BY <2>1, <2>2, PutNowaitKeeps
  <2>4. w \in Seq(Events)
    BY <1>t, <2>1 DEF TypeOK
  <2>5. UNCHANGED <<registered, reader, work>> /\ dropped \subseteq dropped' /\ work[r] # "none"
    BY <1>t, <1>2 DEF Deliver, tasks, HInv, Unasked
  <2>6. VerdictFirst'
    <3>1. \A i \in 1..Len(w) : i > 1 /\ w[i] = "sentinel" => w[i - 1] \in Verdicts
      BY <2>1, <2>2, <2>3, <2>4 DEF QInv, VerdictFirst
    <3>2. QED
      BY <2>1, <3>1 DEF QInv, VerdictFirst
  <2>7. Unwritten'
    BY <2>1, <2>5 DEF QInv, Unwritten
  <2>8. NoSilentEnd'
    <3>1. w # <<>> /\ Head(w) = "sentinel" => q # <<>> /\ Head(q) = "sentinel"
      BY <2>1, <2>2, <2>3, <2>4
    <3>2. QED
      BY <1>t, <2>1, <2>5, <3>1 DEF QInv, TypeOK, NoSilentEnd
  <2>9. VerdictWaits'
    <3>1. (\E i \in 1..Len(q) : q[i] \in Verdicts) => \E i \in 1..Len(w) : w[i] \in Verdicts
      BY <2>1, <2>3
    <3>2. QED
      BY <1>t, <2>1, <2>5, <3>1 DEF QInv, TypeOK, VerdictWaits
  <2>10. QED
    BY <1>g, <2>6, <2>7, <2>8, <2>9 DEF QInv
<1>3. ASSUME NEW r \in Refs, NEW o \in Outcomes, WorkEnds(r, o) PROVE QInv'
  <2>1. Settled(o) \in Verdicts
    BY SettledType
  <2>2. work[r] # "none" /\ work'[r] # "none" /\ \A s \in Refs : s # r => work'[s] = work[s]
    BY <1>t, <1>3 DEF WorkEnds, TypeOK
  <2>3. QED
    BY <1>g, <1>3, <2>1, <2>2, VerdictIsFair DEF WorkEnds, QInv
<1>4. ASSUME NEW r \in Refs, WatchdogWakes(r) PROVE QInv'
  <2>1. CASE r \in heard
    BY <1>0, <1>4, <2>1 DEF WatchdogWakes
  <2>2. CASE r \notin heard
    <3>1. "failed" \in Verdicts
      BY DEF Verdicts
    <3>2. work[r] # "none"
      BY <1>4 DEF WatchdogWakes, QInv, WatchdogGuards
    <3>3. QED
      BY <1>g, <1>4, <2>2, <3>1, <3>2, VerdictIsFair DEF WatchdogWakes, QInv
  <2>3. QED
    BY <2>1, <2>2
<1>5. ASSUME NEW d \in Readers, NEW r \in Refs, Connect(d, r) PROVE QInv'
  <2>1. \A e \in Readers : reader[e].phase = "told" => reader'[e] = reader[e]
    BY <1>t, <1>5 DEF Connect, TypeOK, Away
  <2>2. QED
    BY <1>0, <1>5, <2>1 DEF Connect, desk, tasks
<1>6. ASSUME NEW d \in Readers, StartBody(d) PROVE QInv'
  <2>1. \A e \in Readers : reader[e].phase = "told" => reader'[e] = reader[e]
    BY <1>t, <1>6 DEF StartBody, TypeOK
  <2>2. QED
    BY <1>0, <1>6, <2>1 DEF StartBody, desk, tasks
<1>7. ASSUME NEW d \in Readers, Close(d), reader[d].phase \in {"reading", "told"},
             UNCHANGED <<queue, work, dropped>>
      PROVE  QInv'
  <2>1. NoSilentEnd' /\ VerdictWaits'
    BY <1>t, <1>7, CloseIsFair DEF QInv
  <2>2. QED
    BY <1>g, <1>7, <2>1 DEF QInv, VerdictFirst, Unwritten
<1>8. ASSUME NEW d \in Readers, Read(d) PROVE QInv'
  <2> DEFINE r == reader[d].ref
             q == queue[reader[d].ref]
  <2>1. r \in Refs /\ r # NoRef /\ reader[d] \in ReaderStates \ {Away}
    BY <1>t, <1>8 DEF Read, TypeOK, ReaderStates, Away
  <2>2. q \in Seq(Events) /\ q # <<>>
    BY <1>t, <1>8, <2>1 DEF Read, TypeOK
  <2>3. /\ queue'[r] = Tail(q)
        /\ \A s \in Refs : s # r => queue'[s] = queue[s]
        /\ UNCHANGED <<work, dropped>>
    BY <1>t, <1>8, <2>1 DEF Read, TypeOK, tasks
  <2>4. /\ Tail(q) \in Seq(Events)
        /\ Len(Tail(q)) = Len(q) - 1 /\ Len(q) \in Nat \ {0}
        /\ \A i \in 1..Len(Tail(q)) : Tail(q)[i] = q[i + 1]
        /\ Head(q) = q[1]
    BY <2>2, TailType
  <2>5. VerdictFirst'
    <3>1. \A i \in 1..Len(Tail(q)) : i > 1 /\ Tail(q)[i] = "sentinel" => Tail(q)[i - 1] \in Verdicts
      BY <2>1, <2>4 DEF QInv, VerdictFirst
    <3>2. QED
      BY <2>1, <2>3, <3>1 DEF QInv, VerdictFirst
  <2>6. Unwritten'
    BY <2>1, <2>2, <2>3 DEF QInv, Unwritten
  <2>7. NoSilentEnd' /\ VerdictWaits'
    <3>1. CASE Head(q) = "sentinel"
      BY <1>t, <1>8, <2>3, <3>1, CloseIsFair DEF QInv, Read
    <3>2. CASE Head(q) # "sentinel"
      <4>1. /\ UNCHANGED registered
            /\ reader' = [reader EXCEPT ![d] =
                    [reader[d] EXCEPT !.phase = IF Head(q) \in Verdicts THEN "told" ELSE "reading"]]
        BY <1>8, <3>2 DEF Read, desk
      <4>2. /\ Head(q) \in Verdicts => reader'[d].phase = "told"
            /\ reader'[d].ref = r
            /\ \A e \in Readers : e # d => reader'[e] = reader[e]
            /\ reader[d].phase # "told"
        BY <1>t, <1>8, <2>1, <4>1 DEF TypeOK, ReaderStates, Read
      <4>3. \A s \in Refs :
              (\E e \in Readers : reader[e].phase = "told" /\ reader[e].ref = s) =>
                  \E e \in Readers : reader'[e].phase = "told" /\ reader'[e].ref = s
        BY <4>2
      <4>4. Tail(q) # <<>> /\ Head(Tail(q)) = "sentinel" => Head(q) \in Verdicts
        <5> SUFFICES ASSUME Tail(q) # <<>>, Head(Tail(q)) = "sentinel" PROVE Head(q) \in Verdicts
          OBVIOUS
        <5>1. Len(q) >= 2 /\ q[2] = "sentinel"
          BY <2>4
        <5>2. QED
          BY <2>1, <2>4, <5>1 DEF QInv, VerdictFirst
      <4>5. NoSilentEnd'
        <5> SUFFICES ASSUME NEW s \in registered, queue'[s] # <<>>, Head(queue'[s]) = "sentinel"
                     PROVE  \E e \in Readers : reader'[e].phase = "told" /\ reader'[e].ref = s
          BY <4>1 DEF NoSilentEnd
        <5>1. s \in Refs
          BY <1>t DEF TypeOK
        <5>2. CASE s = r
          BY <2>3, <4>2, <4>4, <5>2
        <5>3. CASE s # r
          BY <2>3, <4>3, <5>1, <5>3 DEF QInv, NoSilentEnd
        <5>4. QED
          BY <5>2, <5>3
      <4>6. (\E i \in 1..Len(q) : q[i] \in Verdicts) =>
              \/ Head(q) \in Verdicts
              \/ \E i \in 1..Len(Tail(q)) : Tail(q)[i] \in Verdicts
        <5> SUFFICES ASSUME NEW i \in 1..Len(q), q[i] \in Verdicts, Head(q) \notin Verdicts
                     PROVE  \E j \in 1..Len(Tail(q)) : Tail(q)[j] \in Verdicts
          OBVIOUS
        <5>1. i # 1 /\ i - 1 \in 1..Len(Tail(q))
          BY <2>4
        <5>2. Tail(q)[i - 1] = q[i]
          BY <2>4, <5>1
        <5>3. QED
          BY <5>1, <5>2
      <4>7. VerdictWaits'
        <5> SUFFICES ASSUME NEW s \in registered \ dropped, work[s] = "ended"
                     PROVE  \/ \E i \in 1..Len(queue'[s]) : queue'[s][i] \in Verdicts
                            \/ \E e \in Readers : reader'[e].phase = "told" /\ reader'[e].ref = s
          BY <2>3, <4>1 DEF VerdictWaits
        <5>1. s \in Refs
          BY <1>t DEF TypeOK
        <5>2. \/ \E i \in 1..Len(queue[s]) : queue[s][i] \in Verdicts
              \/ \E e \in Readers : reader[e].phase = "told" /\ reader[e].ref = s
          BY DEF QInv, VerdictWaits
        <5>3. CASE s = r
          BY <2>3, <4>2, <4>3, <4>6, <5>1, <5>2, <5>3
        <5>4. CASE s # r
          BY <2>3, <4>3, <5>1, <5>2, <5>4
        <5>5. QED
          BY <5>3, <5>4
      <4>8. QED
        BY <4>5, <4>7
    <3>3. QED
      BY <3>1, <3>2
  <2>8. QED
    BY <1>g, <2>5, <2>6, <2>7 DEF QInv
<1>9. ASSUME NEW d \in Readers, Finish(d) PROVE QInv'
  BY <1>7, <1>9 DEF Finish, tasks
<1>10. ASSUME NEW d \in Readers, Leave(d) PROVE QInv'
  <2>1. reader[d].phase \in {"connected", "reading", "told"}
    BY <1>t, <1>10 DEF Leave, TypeOK, ReaderStates, Away
  <2>2. CASE reader[d].phase = "connected"
    <3>1. \A e \in Readers : reader[e].phase = "told" => reader'[e] = reader[e]
      BY <1>t, <1>10, <2>2 DEF Leave, TypeOK
    <3>2. QED
      BY <1>0, <1>10, <2>2, <3>1 DEF Leave, desk, tasks
  <2>3. CASE reader[d].phase # "connected"
    BY <1>7, <1>10, <2>1, <2>3 DEF Leave, tasks
  <2>4. QED
    BY <2>2, <2>3
<1>11. ASSUME Restart PROVE QInv'
  BY <1>t, <1>g, <1>11 DEF Restart, QInv, TypeOK, VerdictFirst, Unwritten, NoSilentEnd, VerdictWaits
<1>12. CASE UNCHANGED vars
  BY <1>0, <1>12 DEF vars
<1>13. QED
  BY <1>1, <1>2, <1>3, <1>4, <1>5, <1>6, <1>8, <1>9, <1>10, <1>11, <1>12 DEF Next

\* QInv is an invariant: what the theorems about the queues rest on.
LEMMA QueuesAlways == Spec => []QInv
<1>1. Init => QInv
  <2>1. Init => HInv
    BY DepthAssumption, NoneAssumption
       DEF Init, HInv, TypeOK, ReaderStates, Away, Unasked, StreamKnowsHolder, HeldOnlyWhileCalling
  <2>2. QED
    BY <2>1 DEF Init, QInv, VerdictFirst, Unwritten, WatchdogGuards, NoSilentEnd, VerdictWaits
<1>2. QED
  BY <1>1, HoldsAlways, QInvInductive, PTL DEF Spec

\* A reader is never shown the sentinel of a request that is still registered
\* before somebody has been given its verdict.
THEOREM NoStreamEndsSilently == Spec => []NoSilentEnd
<1>1. QInv => NoSilentEnd
  BY DEF QInv
<1>2. QED
  BY <1>1, QueuesAlways, PTL

\* The verdict of a request that never overflowed waits for a late browser.
THEOREM VerdictIsKept == Spec => []VerdictWaits
<1>1. QInv => VerdictWaits
  BY DEF QInv
<1>2. QED
  BY <1>1, QueuesAlways, PTL

-----------------------------------------------------------------------------
(* The analyst's side                                                       *)

\* What is recorded and replied is of a kind; a ticket at work has no reply yet;
\* an answer is of a record that says so; and events are about a ticket that
\* has been taken.
StaffInv ==
    /\ slot \in Refs \union {NoRef}
    /\ narrated \in [Refs -> SUBSET Nat]
    /\ recorded \in [Refs -> {"pending", "completed", "failed"}]
    /\ replied \in [Refs -> {"pending", "completed", "failed", "raised", "lost"}]
    /\ slot # NoRef => replied[slot] = "pending"
    /\ \A r \in Refs : replied[r] = "completed" => recorded[r] = "completed"
    /\ \A r \in Refs : narrated[r] # {} => slot = r \/ replied[r] # "pending"

\* calls holds requests.
CallsType == calls \in Seq(Refs)

\* Removing the n-th element leaves the others, in their order.
LEMMA RemoveAtIs ==
    ASSUME NEW S, NEW s \in Seq(S), NEW n \in 1..Len(s)
    PROVE  /\ RemoveAt(s, n) \in Seq(S)
           /\ Len(RemoveAt(s, n)) = Len(s) - 1
           /\ \A m \in 1..(Len(s) - 1) :
                RemoveAt(s, n)[m] = IF m < n THEN s[m] ELSE s[m + 1]
<1> DEFINE front == SubSeq(s, 1, n - 1)
           back == SubSeq(s, n + 1, Len(s))
<1>1. /\ front \in Seq(S) /\ Len(front) = n - 1
      /\ \A m \in 1..(n - 1) : front[m] = s[m]
  OBVIOUS
<1>2. /\ back \in Seq(S) /\ Len(back) = Len(s) - n
      /\ \A m \in 1..(Len(s) - n) : back[m] = s[m + n]
  OBVIOUS
<1>3. RemoveAt(s, n) = front \o back
  BY DEF RemoveAt
<1> HIDE DEF front, back
<1>4. /\ front \o back \in Seq(S) /\ Len(front \o back) = Len(front) + Len(back)
      /\ \A m \in 1..(Len(front) + Len(back)) :
            (front \o back)[m] = IF m <= Len(front) THEN front[m] ELSE back[m - Len(front)]
  BY <1>1, <1>2, ConcatProperties
<1>5. ASSUME NEW m \in 1..(Len(s) - 1)
      PROVE  (front \o back)[m] = IF m < n THEN s[m] ELSE s[m + 1]
  <2>1. m \in 1..(Len(front) + Len(back))
    BY <1>1, <1>2
  <2>2. CASE m < n
    BY <1>1, <1>4, <2>1, <2>2
  <2>3. CASE ~(m < n)
    <3>1. m - Len(front) \in 1..(Len(s) - n) /\ m - Len(front) + n = m + 1
      BY <1>1, <2>3
    <3>2. back[m - Len(front)] = s[m + 1]
      BY <1>2, <3>1
    <3>3. QED
      BY <1>1, <1>4, <2>1, <2>3, <3>2
  <2>4. QED
    BY <2>2, <2>3
<1>6. QED
  BY <1>1, <1>2, <1>3, <1>4, <1>5

\* A step of the whole is a step of the analyst or leaves it alone.
LEMMA StaffStep ==
    ASSUME CallsType, [SystemNext]_systemVars
    PROVE  [Staff!Next]_staffVars
<1>1. CASE Take
  <2>1. Head(calls) \in Refs
    BY <1>1 DEF Take, CallsType
  <2>2. QED
    BY <1>1, <2>1 DEF Take, Staff!Next
<1>2. CASE Works
  BY <1>2 DEF Works, Staff!Next
<1>3. CASE \E a \in Agents, r \in Refs : Call(a, r)
  BY <1>3 DEF Call
<1>4. CASE \E r \in Refs, n \in 0..MaxSteps : Relay(r, n)
  BY <1>4 DEF Relay
<1>5. CASE \E r \in Refs : Reply(r) \/ Expire(r)
  BY <1>5 DEF Reply, Expire
<1>6. CASE Serves
  BY <1>6 DEF Serves
<1>7. CASE UNCHANGED systemVars
  BY <1>7 DEF systemVars
<1>8. QED
  BY <1>1, <1>2, <1>3, <1>4, <1>5, <1>6, <1>7 DEF SystemNext

LEMMA CallsStep ==
    ASSUME CallsType, [SystemNext]_systemVars
    PROVE  CallsType'
<1>1. CASE Take
  BY <1>1 DEF Take, CallsType
<1>2. ASSUME NEW r \in Refs, Expire(r) PROVE CallsType'
  BY <1>2, RemoveAtIs DEF Expire, CallsType
<1>3. CASE \E a \in Agents, r \in Refs : Call(a, r)
  BY <1>3 DEF Call, CallsType
<1>4. CASE UNCHANGED calls
  BY <1>4 DEF CallsType
<1>5. QED
  BY <1>1, <1>2, <1>3, <1>4 DEF SystemNext, Works, Relay, Reply, Serves, systemVars

LEMMA StaffInvInit == Staff!Init => StaffInv
BY NoneAssumption DEF Staff!Init, StaffInv

LEMMA StaffInvStep ==
    ASSUME StaffInv, [Staff!Next]_staffVars
    PROVE  StaffInv'
<1> USE NoneAssumption DEF StaffInv
<1>1. ASSUME NEW t \in Refs, Staff!Take(t) PROVE StaffInv'
  BY <1>1 DEF Staff!Take
<1>2. ASSUME NEW t \in Refs, Staff!Refuse(t) PROVE StaffInv'
  BY <1>2 DEF Staff!Refuse
<1>3. ASSUME NEW n \in 0..MaxSteps, Staff!Narrate(n) PROVE StaffInv'
  BY <1>3 DEF Staff!Narrate
<1>4. ASSUME NEW status \in Staff!Verdict, Staff!Record(status) PROVE StaffInv'
  BY <1>4 DEF Staff!Record, Staff!Verdict
<1>5. CASE Staff!Answer
  BY <1>5 DEF Staff!Answer
<1>6. ASSUME NEW how \in {"raised", "lost"}, Staff!Fail(how) PROVE StaffInv'
  BY <1>6 DEF Staff!Fail
<1>7. CASE UNCHANGED staffVars
  BY <1>7 DEF staffVars
<1>8. QED
  BY <1>1, <1>2, <1>3, <1>4, <1>5, <1>6, <1>7 DEF Staff!Next

\* The whole implements what an analyst promises.
THEOREM SystemKeepsAnalyst == SystemSpec => Staff!Spec /\ []CallsType
<1>1. SystemInit => Staff!Init /\ CallsType
  BY DEF SystemInit, CallsType
<1>2. CallsType /\ [SystemNext]_systemVars => [Staff!Next]_(Staff!vars) /\ CallsType'
  BY StaffStep, CallsStep DEF staffVars, Staff!vars
<1>3. QED
  BY <1>1, <1>2, PTL DEF SystemSpec, Staff!Spec

\* A ticket at work waits for its reply, and only a run that completed is answered.
LEMMA StaffAlways == SystemSpec => []StaffInv
<1>1. StaffInv /\ [Staff!Next]_(Staff!vars) => StaffInv'
  BY StaffInvStep DEF staffVars, Staff!vars
<1>2. QED
  BY <1>1, StaffInvInit, SystemKeepsAnalyst, PTL DEF Staff!Spec

-----------------------------------------------------------------------------
(* The desk's side                                                          *)

LEMMA DeskStep ==
    ASSUME StaffInv, [SystemNext]_systemVars
    PROVE  [Next]_vars
<1>1. ASSUME NEW a \in Agents, NEW r \in Refs, Call(a, r) PROVE Next
  BY <1>1 DEF Call, Next
<1>2. CASE Take
  BY <1>2 DEF Take
<1>3. CASE Works
  BY <1>3 DEF Works
<1>4. ASSUME NEW r \in Refs, NEW n \in 0..MaxSteps, Relay(r, n) PROVE [Next]_vars
  BY <1>4 DEF Relay, Next
<1>5. ASSUME NEW r \in Refs, Reply(r) PROVE Next
  <2>1. replied[r] \in Outcomes
    BY <1>5 DEF Reply, StaffInv, Outcomes
  <2>2. QED
    BY <1>5, <2>1 DEF Reply, Next
<1>6. ASSUME NEW r \in Refs, Expire(r) PROVE Next
  <2>1. "raised" \in Outcomes
    BY DEF Outcomes
  <2>2. QED
    BY <1>6, <2>1 DEF Expire, Next
<1>7. CASE Serves
  BY <1>7 DEF Serves, Next
<1>8. CASE UNCHANGED systemVars
  BY <1>8 DEF systemVars
<1>9. QED
  BY <1>1, <1>2, <1>3, <1>4, <1>5, <1>6, <1>7, <1>8 DEF SystemNext

\* The whole implements the desk.
THEOREM SystemKeepsDesk == SystemSpec => Spec
<1>1. SystemInit => Init
  BY DEF SystemInit
<1>2. StaffInv /\ [SystemNext]_systemVars => [Next]_(vars)
  BY DeskStep DEF vars
<1>3. QED
  BY <1>1, <1>2, StaffAlways, PTL DEF SystemSpec, Spec

\* So the desk keeps in the whole what it promises alone: it lets an analyst go
\* only as AskPromise allows, and no answer is lost on its way to a browser.
THEOREM SystemKeepsPromise ==
    SystemSpec => /\ KeepsPromise
                  /\ [](HeldOnlyWhileCalling /\ NoSilentEnd /\ VerdictWaits)
BY SystemKeepsDesk, DeskKeepsPromise, NeverLockedOut, NoStreamEndsSilently, VerdictIsKept, PTL

\* Of the desk's invariants, what the proofs below use.
DeskInv ==
    /\ busy \in [Agents -> Refs \union {NoRef}]
    /\ registered \subseteq Refs
    /\ heard \subseteq Refs
    /\ queue \in [Refs -> Seq(Events)]
    /\ work \in [Refs -> {"none", "calling", "ended"}]
    /\ StillHeld

LEMMA DeskAlways == SystemSpec => []DeskInv
<1>1. TypeOK /\ StillHeld => DeskInv
  BY DEF TypeOK, DeskInv
<1>2. QED
  BY <1>1, SystemKeepsDesk, TypeCorrect, HeldUntilLetGo, PTL

-----------------------------------------------------------------------------
(* Answers and events                                                       *)

Has(q, e) == \E n \in 1..Len(q) : q[n] = e

LEMMA PutNowaitHas ==
    ASSUME NEW S, NEW q \in Seq(S), NEW e \in S, NEW f, Has(PutNowait(q, e), f)
    PROVE  f = e \/ Has(q, f)
BY DEF Has, PutNowait

\* Putting a verdict and its sentinel puts no answer but the verdict.
LEMMA PutVerdictHas ==
    ASSUME NEW q \in Seq(Events), NEW v \in Verdicts,
           Has(PutVerdict(q, v), "answered")
    PROVE  v = "answered" \/ Has(q, "answered")
<1> DEFINE p == PutNowait(q, v)
<1>1. v \in Events /\ "sentinel" \in Events
  BY DEF Events
<1>2. p \in Seq(Events)
  BY <1>1 DEF PutNowait
<1>3. Has(PutNowait(p, "sentinel"), "answered")
  BY DEF PutVerdict
<1>4. Has(p, "answered")
  <2> HIDE DEF p
  <2>1. "answered" = "sentinel" \/ Has(p, "answered")
    BY <1>1, <1>2, <1>3, PutNowaitHas
  <2>2. QED
    BY <2>1
<1>5. QED
  BY <1>1, <1>4, PutNowaitHas

\* The queue of a request holds no more answers once its tail is taken.
LEMMA TailHas ==
    ASSUME NEW S, NEW q \in Seq(S), q # <<>>, NEW f, Has(Tail(q), f)
    PROVE  Has(q, f)
<1>1. PICK n \in 1..Len(Tail(q)) : Tail(q)[n] = f
  BY DEF Has
<1>2. n + 1 \in 1..Len(q) /\ q[n + 1] = f
  BY <1>1, HeadTailProperties
<1>3. QED
  BY <1>2 DEF Has

\* The two invariants that relate what the desk shows and hears to what the
\* analyst did.
EInv ==
    /\ \A r \in Refs : Has(queue[r], "answered") => replied[r] = "completed"
    /\ HeardIsTaken

\* What an analyst has done stays done.
LEMMA StaffKeeps ==
    ASSUME StaffInv, [Staff!Next]_staffVars, NEW r \in Refs
    PROVE  /\ replied[r] = "completed" => replied'[r] = "completed"
           /\ slot = r \/ replied[r] # "pending" => slot' = r \/ replied'[r] # "pending"
<1> USE NoneAssumption DEF StaffInv
<1>1. CASE UNCHANGED staffVars
  BY <1>1 DEF staffVars
<1>2. CASE Staff!Next
  BY <1>2 DEF Staff!Next, Staff!Take, Staff!Refuse, Staff!Narrate, Staff!Record,
              Staff!Answer, Staff!Fail
<1>3. QED
  BY <1>1, <1>2

LEMMA EInvStep ==
    ASSUME StaffInv, DeskInv, CallsType, EInv, [SystemNext]_systemVars
    PROVE  EInv'
<1>1. [Staff!Next]_staffVars
  BY StaffStep
<1>2. CASE UNCHANGED <<queue, heard>>
  BY <1>1, <1>2, StaffKeeps DEF EInv, HeardIsTaken, DeskInv
<1>3. ASSUME NEW a \in Agents, NEW r \in Refs, Call(a, r) PROVE EInv'
  BY <1>2, <1>3 DEF Call, Ask
<1>4. CASE Take
  BY <1>2, <1>4 DEF Take, vars
<1>5. CASE Works
  BY <1>2, <1>5 DEF Works, vars
<1>6. ASSUME NEW r \in Refs, NEW n \in 0..MaxSteps, Relay(r, n), r \in registered
      PROVE  EInv'
  <2>1. Deliver(r) /\ UNCHANGED staffVars
    BY <1>6 DEF Relay
  <2>2. slot = r \/ replied[r] # "pending"
    BY <1>6 DEF Relay, StaffInv
  <2>3. "step" \in Events
    BY DEF Events
  <2>4. HeardIsTaken'
    BY <2>1, <2>2 DEF EInv, HeardIsTaken, Deliver, staffVars
  <2>5. \A s \in Refs : Has(queue'[s], "answered") => Has(queue[s], "answered")
    <3>1. Has(PutNowait(queue[r], "step"), "answered") => Has(queue[r], "answered")
      BY <2>3, PutNowaitHas DEF DeskInv
    <3>2. QED
      BY <2>1, <3>1 DEF Deliver, DeskInv
  <2>6. QED
    BY <2>1, <2>4, <2>5 DEF EInv, staffVars
<1>7. ASSUME NEW r \in Refs, NEW o \in Outcomes, WorkEnds(r, o),
             UNCHANGED staffVars, o = "completed" => replied[r] = "completed"
      PROVE  EInv'
  <2>1. Settled(o) \in Verdicts
    BY DEF Settled, Verdicts
  <2>2. Settled(o) = "answered" => replied[r] = "completed"
    BY <1>7 DEF Settled, Outcomes
  <2>3. Has(queue'[r], "answered") => replied[r] = "completed"
    BY <1>7, <2>1, <2>2, PutVerdictHas DEF WorkEnds, DeskInv, EInv
  <2>4. \A s \in Refs : s # r => queue'[s] = queue[s]
    BY <1>7 DEF WorkEnds, DeskInv
  <2>5. QED
    BY <1>7, <2>3, <2>4 DEF EInv, HeardIsTaken, WorkEnds, staffVars
<1>8. ASSUME NEW r \in Refs, Reply(r) PROVE EInv'
  <2>1. replied[r] \in Outcomes
    BY <1>8 DEF Reply, StaffInv, Outcomes
  <2>2. QED
    BY <1>7, <1>8, <2>1 DEF Reply
<1>9. ASSUME NEW r \in Refs, Expire(r) PROVE EInv'
  <2>1. "raised" \in Outcomes
    BY DEF Outcomes
  <2>2. QED
    BY <1>7, <1>9, <2>1 DEF Expire
<1>10. ASSUME NEW r \in Refs, WatchdogWakes(r), UNCHANGED staffVars PROVE EInv'
  <2>1. "failed" \in Verdicts
    BY DEF Verdicts
  <2>2. \A s \in Refs : Has(queue'[s], "answered") => Has(queue[s], "answered")
    <3>1. CASE r \in heard
      BY <1>10, <3>1 DEF WatchdogWakes
    <3>2. CASE r \notin heard
      BY <1>10, <2>1, <3>2, PutVerdictHas DEF WatchdogWakes, DeskInv
    <3>3. QED
      BY <3>1, <3>2
  <2>3. QED
    BY <1>10, <2>2 DEF EInv, HeardIsTaken, WatchdogWakes, staffVars
<1>11. ASSUME NEW d \in Readers, Read(d), UNCHANGED staffVars PROVE EInv'
  <2>1. heard' \subseteq heard
    BY <1>11 DEF Read, Close, desk
  <2>2. \A s \in Refs : Has(queue'[s], "answered") => Has(queue[s], "answered")
    BY <1>11, TailHas DEF Read, DeskInv
  <2>3. QED
    BY <1>11, <2>1, <2>2 DEF EInv, HeardIsTaken, staffVars
<1>12. ASSUME queue' = queue, heard' \subseteq heard, UNCHANGED staffVars PROVE EInv'
  BY <1>12 DEF EInv, HeardIsTaken, staffVars
<1>13. CASE Serves
  <2>1. ASSUME NEW d \in Readers, NEW r \in Refs, Connect(d, r) PROVE EInv'
    BY <1>2, <2>1 DEF Connect, desk
  <2>2. ASSUME NEW d \in Readers, StartBody(d) \/ Finish(d) \/ Leave(d)
        PROVE  EInv'
    BY <1>12, <1>13, <2>2
       DEF Serves, StartBody, Finish, Leave, Close, desk
  <2>3. CASE Restart
    <3>1. \A s \in Refs : ~Has(queue'[s], "answered")
      BY <2>3 DEF Restart, Has
    <3>2. QED
      BY <1>13, <2>3, <3>1 DEF Serves, Restart, EInv, HeardIsTaken, staffVars
  <2>4. QED
    BY <1>10, <1>11, <1>13, <2>1, <2>2, <2>3 DEF Serves
<1>14. CASE UNCHANGED systemVars
  BY <1>2, <1>14 DEF systemVars, vars
<1>15. ASSUME NEW r \in Refs, NEW n \in 0..MaxSteps, Relay(r, n), r \notin registered
       PROVE  EInv'
  BY <1>2, <1>15 DEF Relay, vars
<1>16. QED
  BY <1>3, <1>4, <1>5, <1>6, <1>8, <1>9, <1>13, <1>14, <1>15 DEF SystemNext

LEMMA EInvAlways == SystemSpec => []EInv
<1>1. SystemInit => EInv
  BY DEF SystemInit, Init, EInv, HeardIsTaken, Has
<1>2. StaffInv /\ DeskInv /\ CallsType /\ EInv /\ [SystemNext]_systemVars => EInv'
  BY EInvStep
<1>3. QED
  BY <1>1, <1>2, StaffAlways, DeskAlways, SystemKeepsAnalyst, PTL DEF SystemSpec

\* A browser is shown an answer only for a run that completed and whose record
\* says so.
THEOREM AnswersAreTrue == SystemSpec => []AnsweredIsTrue
<1>1. EInv /\ StaffInv => AnsweredIsTrue
  BY DEF EInv, StaffInv, AnsweredIsTrue, Has
<1>2. QED
  BY <1>1, EInvAlways, StaffAlways, PTL

\* What the desk hears of a question, its analyst has taken.
THEOREM EventsFindTheirRequest == SystemSpec => []HeardIsTaken
<1>1. EInv => HeardIsTaken
  BY DEF EInv
<1>2. QED
  BY <1>1, EInvAlways, PTL

-----------------------------------------------------------------------------
(* Who waits behind whom                                                    *)

\* Every call that waits or is worked on was asked by the desk, so that letting
\* go of it is for good; and the desk has let go of whatever a call waits behind.
BehindInv ==
    /\ slot # NoRef => work[slot] # "none"
    /\ \A n \in 1..Len(calls) : work[calls[n]] # "none"
    /\ QueuesOnlyBehindAbandoned

\* A request that was asked is never asked again, and one let go of stays so.
LEMMA LetGoIsForGood ==
    ASSUME DeskInv, [SystemNext]_systemVars, NEW r \in Refs, work[r] # "none"
    PROVE  work'[r] # "none" /\ (LetGo(r) => LetGo(r)')
<1> USE NoneAssumption DEF DeskInv
<1>1. ASSUME NEW a \in Agents, NEW s \in Refs, Ask(a, s)
      PROVE  work'[r] # "none" /\ (LetGo(r) => LetGo(r)')
  BY <1>1 DEF Ask, LetGo
<1>2. ASSUME NEW s \in Refs, NEW o, WorkEnds(s, o)
      PROVE  work'[r] # "none" /\ (LetGo(r) => LetGo(r)')
  BY <1>2 DEF WorkEnds, Done, LetGo
<1>3. ASSUME NEW s \in Refs, WatchdogWakes(s)
      PROVE  work'[r] # "none" /\ (LetGo(r) => LetGo(r)')
  BY <1>3 DEF WatchdogWakes, Done, LetGo
<1>4. ASSUME NEW d \in Readers, Close(d), UNCHANGED <<work, watchdog>>
      PROVE  work'[r] # "none" /\ (LetGo(r) => LetGo(r)')
  BY <1>4 DEF Close, Done, LetGo
<1>5. CASE Restart
  BY <1>5 DEF Restart, LetGo
<1>6. CASE UNCHANGED <<busy, registered, work, watchdog>>
  BY <1>6 DEF LetGo
<1>7. CASE Serves
  BY <1>3, <1>4, <1>5, <1>6, <1>7
     DEF Serves, Connect, StartBody, Read, Finish, Leave,
         desk, tasks
<1>8. ASSUME NEW s \in Refs, NEW n \in 0..MaxSteps, Relay(s, n)
      PROVE  work'[r] # "none" /\ (LetGo(r) => LetGo(r)')
  BY <1>6, <1>8 DEF Relay, Deliver, tasks, vars
<1>9. QED
  BY <1>1, <1>2, <1>6, <1>7, <1>8 DEF SystemNext, Call, Take, Works, Reply, Expire, systemVars, vars

\* The desk's only analyst is free when it is asked: every earlier request that
\* was asked has been let go of.
LEMMA AskedWhenFree ==
    ASSUME DeskInv, NEW a \in Agents, NEW r \in Refs, Ask(a, r),
           NEW s \in Refs, work[s] # "none"
    PROVE  LetGo(s)'
<1>1. busy[a] = NoRef /\ Agents = {a}
  BY OneAnalyst DEF Ask
<1>2. s \notin registered \/ work[s] # "calling" \/ watchdog[s] = "over"
  BY <1>1, NoneAssumption DEF DeskInv, StillHeld
<1>3. r # s
  BY DEF Ask
<1>4. /\ \A b \in Agents : busy'[b] # s
      /\ s \notin registered' \/ work'[s] # "calling" \/ watchdog'[s] = "over"
  BY <1>1, <1>2, <1>3 DEF Ask, DeskInv
<1>5. QED
  BY <1>4 DEF LetGo

LEMMA BehindInvStep ==
    ASSUME StaffInv, DeskInv, CallsType, BehindInv, [SystemNext]_systemVars
    PROVE  BehindInv'
<1> USE NoneAssumption
<1>1. \A r \in Refs : work[r] # "none" => work'[r] # "none" /\ (LetGo(r) => LetGo(r)')
  BY LetGoIsForGood
<1>2. /\ slot # NoRef => slot \in Refs
      /\ Len(calls) \in Nat
      /\ \A n \in 1..Len(calls) : calls[n] \in Refs
  BY DEF StaffInv, CallsType
<1>3. ASSUME UNCHANGED calls, slot' \in {slot, NoRef} PROVE BehindInv'
  <2>1. \A n \in 1..Len(calls) : LetGo(calls[n]) => LetGo(calls[n])'
    BY <1>1, <1>2, <1>3 DEF BehindInv, LetGo
  <2>2. slot' # NoRef => work'[slot'] # "none"
    BY <1>1, <1>2, <1>3 DEF BehindInv
  <2>3. \A n \in 1..Len(calls') : work'[calls'[n]] # "none"
    BY <1>1, <1>2, <1>3 DEF BehindInv
  <2>4. QueuesOnlyBehindAbandoned'
    <3> SUFFICES ASSUME NEW n \in 1..Len(calls')
                 PROVE  /\ slot' # NoRef => LetGo(slot)'
                        /\ \A m \in 1..(n - 1) : LetGo(calls[m])'
      BY DEF QueuesOnlyBehindAbandoned
    <3>1. slot' # NoRef => LetGo(slot)'
      <4>1. slot # NoRef => LetGo(slot)
        BY <1>3 DEF BehindInv, QueuesOnlyBehindAbandoned
      <4>2. QED
        BY <1>1, <1>2, <1>3, <4>1 DEF BehindInv, LetGo
    <3>2. ASSUME NEW m \in 1..(n - 1) PROVE LetGo(calls[m])'
      <4>1. m \in 1..Len(calls) /\ n \in 1..Len(calls)
        BY <1>2, <1>3
      <4>2. LetGo(calls[m])
        BY <4>1 DEF BehindInv, QueuesOnlyBehindAbandoned
      <4>3. QED
        BY <1>3, <2>1, <4>1, <4>2 DEF LetGo
    <3>3. QED
      BY <3>1, <3>2
  <2>5. QED
    BY <2>2, <2>3, <2>4 DEF BehindInv
<1>4. ASSUME NEW a \in Agents, NEW r \in Refs, Call(a, r) PROVE BehindInv'
  <2>1. Ask(a, r) /\ calls' = Append(calls, r) /\ slot' = slot
    BY <1>4 DEF Call, staffVars
  <2>2. \A s \in Refs : work[s] # "none" => LetGo(s)'
    BY <2>1, AskedWhenFree
  <2>3. work'[r] # "none"
    BY <2>1 DEF Ask, DeskInv
  <2>4. /\ Len(calls') = Len(calls) + 1
        /\ \A n \in 1..Len(calls) : calls'[n] = calls[n]
        /\ calls'[Len(calls) + 1] = r
    BY <2>1 DEF CallsType
  <2>5. slot' # NoRef => work'[slot'] # "none"
    BY <1>1, <1>2, <2>1 DEF BehindInv
  <2>6. \A n \in 1..Len(calls') : work'[calls'[n]] # "none"
    BY <1>1, <1>2, <2>3, <2>4 DEF BehindInv
  <2>7. QueuesOnlyBehindAbandoned'
    <3> SUFFICES ASSUME NEW n \in 1..Len(calls')
                 PROVE  /\ slot' # NoRef => LetGo(slot)'
                        /\ \A m \in 1..(n - 1) : LetGo(calls[m])'
      BY DEF QueuesOnlyBehindAbandoned
    <3>1. slot' # NoRef => LetGo(slot)'
      BY <1>2, <2>1, <2>2 DEF BehindInv, LetGo
    <3>2. ASSUME NEW m \in 1..(n - 1) PROVE LetGo(calls[m])'
      <4>1. m \in 1..Len(calls) /\ calls'[m] = calls[m]
        BY <1>2, <2>4
      <4>2. calls[m] \in Refs /\ work[calls[m]] # "none"
        BY <1>2, <4>1 DEF BehindInv
      <4>3. QED
        BY <2>2, <4>1, <4>2 DEF LetGo
    <3>3. QED
      BY <3>1, <3>2
  <2>8. QED
    BY <2>5, <2>6, <2>7 DEF BehindInv
<1>5. CASE Take
  <2>1. /\ calls # <<>> /\ calls' = Tail(calls) /\ slot = NoRef
        /\ slot' \in {NoRef, Head(calls)} /\ UNCHANGED vars
    BY <1>5 DEF Take, Staff!Take, Staff!Refuse
  <2>2. /\ Len(calls) >= 1 /\ Len(calls') = Len(calls) - 1
        /\ \A n \in 1..Len(calls') : calls'[n] = calls[n + 1]
        /\ Head(calls) = calls[1]
    BY <2>1, HeadTailProperties DEF CallsType
  <2>3. slot' # NoRef => work'[slot'] # "none"
    BY <1>2, <2>1, <2>2 DEF BehindInv, vars
  <2>4. \A n \in 1..Len(calls') : work'[calls'[n]] # "none"
    BY <1>2, <2>1, <2>2 DEF BehindInv, vars
  <2>5. QueuesOnlyBehindAbandoned'
    <3> SUFFICES ASSUME NEW n \in 1..Len(calls')
                 PROVE  /\ slot' # NoRef => LetGo(slot)'
                        /\ \A m \in 1..(n - 1) : LetGo(calls[m])'
      BY DEF QueuesOnlyBehindAbandoned
    <3>1. n + 1 \in 1..Len(calls) /\ \A m \in 1..n : LetGo(calls[m])
      BY <1>2, <2>2 DEF BehindInv, QueuesOnlyBehindAbandoned
    <3>2. slot' # NoRef => LetGo(slot)'
      <4>1. LetGo(calls[1])
        BY <1>2, <2>2, <3>1
      <4>2. QED
        BY <2>1, <2>2, <4>1 DEF LetGo, vars
    <3>3. ASSUME NEW m \in 1..(n - 1) PROVE LetGo(calls[m])'
      <4>1. m + 1 \in 1..n /\ calls'[m] = calls[m + 1]
        BY <1>2, <2>2
      <4>2. LetGo(calls[m + 1])
        BY <3>1, <4>1
      <4>3. QED
        BY <2>1, <4>1, <4>2 DEF LetGo, vars
    <3>4. QED
      BY <3>2, <3>3
  <2>6. QED
    BY <2>3, <2>4, <2>5 DEF BehindInv
<1>6. ASSUME NEW r \in Refs, Expire(r) PROVE BehindInv'
  <2>1. slot' = slot
    BY <1>6 DEF Expire, staffVars
  <2>2. CASE calls' = calls
    BY <1>3, <2>1, <2>2
  <2>3. ASSUME NEW i \in 1..Len(calls), calls' = RemoveAt(calls, i) PROVE BehindInv'
    <3>1. /\ Len(calls') = Len(calls) - 1
          /\ \A m \in 1..Len(calls') : calls'[m] = IF m < i THEN calls[m] ELSE calls[m + 1]
      BY <2>3, RemoveAtIs DEF CallsType
    <3>2. \A n \in 1..Len(calls') : \E k \in 1..Len(calls) : calls'[n] = calls[k]
      BY <1>2, <3>1
    <3>3. \A n \in 1..Len(calls') : work'[calls'[n]] # "none"
      BY <1>1, <1>2, <3>2 DEF BehindInv
    <3>4. slot' # NoRef => work'[slot'] # "none"
      BY <1>1, <1>2, <2>1 DEF BehindInv
    <3>5. QueuesOnlyBehindAbandoned'
      <4> SUFFICES ASSUME NEW n \in 1..Len(calls')
                   PROVE  /\ slot' # NoRef => LetGo(slot)'
                          /\ \A m \in 1..(n - 1) : LetGo(calls[m])'
        BY DEF QueuesOnlyBehindAbandoned
      <4>1. slot' # NoRef => LetGo(slot)'
        <5>1. slot # NoRef => LetGo(slot)
          BY <2>3 DEF BehindInv, QueuesOnlyBehindAbandoned
        <5>2. QED
          BY <1>1, <1>2, <2>1, <5>1 DEF BehindInv, LetGo
      <4>2. ASSUME NEW m \in 1..(n - 1) PROVE LetGo(calls[m])'
        <5>1. PICK k \in 1..(Len(calls) - 1) : calls'[m] = calls[k]
          <6>1. CASE m < i
            BY <1>2, <3>1, <6>1
          <6>2. CASE ~(m < i)
            <7>1. m + 1 \in 1..(Len(calls) - 1) /\ calls'[m] = calls[m + 1]
              BY <1>2, <3>1, <6>2
            <7>2. QED
              BY <7>1
          <6>3. QED
            BY <6>1, <6>2
        <5>2. LetGo(calls[k]) /\ k \in 1..Len(calls)
          BY <1>2 DEF BehindInv, QueuesOnlyBehindAbandoned
        <5>3. calls[k] \in Refs /\ work[calls[k]] # "none"
          BY <1>2, <5>2 DEF BehindInv
        <5>4. QED
          BY <1>1, <5>1, <5>2, <5>3 DEF LetGo
      <4>3. QED
        BY <4>1, <4>2
    <3>6. QED
      BY <3>3, <3>4, <3>5 DEF BehindInv
  <2>4. QED
    BY <1>6, <2>2, <2>3 DEF Expire
<1>7. CASE Works
  BY <1>3, <1>7 DEF Works, Staff!Narrate, Staff!Record, Staff!Answer, Staff!Fail
<1>8. ASSUME NEW r \in Refs, NEW n \in 0..MaxSteps, Relay(r, n) PROVE BehindInv'
  BY <1>3, <1>8 DEF Relay, staffVars
<1>9. ASSUME NEW r \in Refs, Reply(r) PROVE BehindInv'
  BY <1>3, <1>9 DEF Reply, staffVars
<1>10. CASE Serves
  BY <1>3, <1>10 DEF Serves, staffVars
<1>11. CASE UNCHANGED systemVars
  BY <1>3, <1>11 DEF systemVars, staffVars
<1>12. QED
  BY <1>4, <1>5, <1>6, <1>7, <1>8, <1>9, <1>10, <1>11 DEF SystemNext

\* A question waits behind another one, at the slot or in the stream, only when
\* the desk has let go of that other one.
THEOREM NobodyQueuesUnseen == SystemSpec => []QueuesOnlyBehindAbandoned
<1>1. SystemInit => BehindInv
  BY DEF SystemInit, Staff!Init, BehindInv, QueuesOnlyBehindAbandoned
<1>2. StaffInv /\ DeskInv /\ CallsType /\ BehindInv /\ [SystemNext]_systemVars => BehindInv'
  BY BehindInvStep
<1>3. BehindInv => QueuesOnlyBehindAbandoned
  BY DEF BehindInv
<1>4. QED
  BY <1>1, <1>2, <1>3, StaffAlways, DeskAlways, SystemKeepsAnalyst, PTL DEF SystemSpec
=============================================================================
