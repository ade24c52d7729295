------------------------------ MODULE AskDesk ------------------------------
(***************************************************************************)
(* The portal's ask desk: portal/backend/app/bus.py (Requests, stream,     *)
(* settled) and the two handlers of portal/backend/app/main.py that use it *)
(* (ask with its tasks work and nobody_answered, ask_events).              *)
(*                                                                         *)
(* One process, one event loop.  A step of this module is what runs        *)
(* between two suspensions.  `async with self._lock` never suspends here:  *)
(* no code holds the lock across an await, so open, done and close are     *)
(* atomic, and so is the whole end of work(): the verdict, the watchdog's  *)
(* cancellation, done() and the sentinel.                                  *)
(*                                                                         *)
(* The analyst and the bus are the environment: an event may arrive at any *)
(* time for a request that is registered, and a call ends with a reply or  *)
(* with an exception.  Values are abstracted to their kind.                *)
(***************************************************************************)
EXTENDS Naturals, Sequences

CONSTANTS
    Agents,         \* AGENTS, the employees that can be asked
    Refs,           \* references minted by uuid4, each at most once
    Readers,        \* browsers that open an event stream
    NoRef,          \* no reference
    NoAgent,        \* the `or ""` of ask_events
    QUEUE_DEPTH     \* events held per waiting request

ASSUME NoneAssumption == NoRef \notin Refs /\ NoAgent \notin Agents
ASSUME DepthAssumption == QUEUE_DEPTH \in Nat \ {0}

VARIABLES
    busy,           \* Requests._busy: analyst -> the request it works for
    registered,     \* the keys of Requests._queues
    heard,          \* Requests._heard
    queue,          \* the queue objects; work() and a reader keep theirs
                    \* after it has left the registry
    asked,          \* request.agent, as the closures of ask() hold it
    work,           \* the task work() of each request
    watchdog,       \* its task nobody_answered()
    reader,         \* each browser's event stream
    dropped         \* history: requests a put_nowait has failed for

desk == <<busy, registered, heard>>
tasks == <<asked, work, watchdog>>
vars == <<busy, registered, heard, queue, asked, work, watchdog, reader, dropped>>

-----------------------------------------------------------------------------
(* Events.  "step" stands for `started` and `step` alike: the desk treats   *)
(* both the same.  "sentinel" is the None behind a terminal event.          *)

Verdicts == {"answered", "failed"}
Events == {"step", "sentinel"} \union Verdicts

\* What a call can end with: the status of the envelope, or an exception.
Outcomes == {"completed", "failed", "crashed", "raised"}

\* settled(), and the except clause of work() for a call that raised.
Settled(outcome) ==
    IF outcome \in {"failed", "crashed", "raised"} THEN "failed" ELSE "answered"

Away == [phase |-> "away", ref |-> NoRef, agent |-> NoAgent]

ReaderStates ==
    {Away} \union [phase : {"connected", "reading", "told"},
                   ref : Refs, agent : Agents \union {NoAgent}]

TypeOK ==
    /\ busy \in [Agents -> Refs \union {NoRef}]
    /\ registered \subseteq Refs
    /\ heard \subseteq Refs
    /\ queue \in [Refs -> Seq(Events)]
    /\ \A r \in Refs : Len(queue[r]) <= QUEUE_DEPTH
    /\ asked \in [Refs -> Agents \union {NoAgent}]
    /\ work \in [Refs -> {"none", "calling", "ended"}]
    /\ watchdog \in [Refs -> {"none", "asleep", "over"}]
    /\ reader \in [Readers -> ReaderStates]
    /\ dropped \subseteq Refs

-----------------------------------------------------------------------------
(* Helpers: the methods of Requests, as functions of the state they touch.  *)

\* Mutant: a queue without the depth limit.
PutUnbounded(q, e) == Append(q, e)

\* asyncio.Queue.put_nowait, with QueueFull leaving the queue as it was.
PutNowait(q, e) == IF Len(q) < QUEUE_DEPTH THEN Append(q, e) ELSE q

\* A terminal event and its sentinel, one put_nowait after the other.  When
\* the first raises QueueFull so does every later one of the same step.
\* Mutant: the sentinel goes in front of the terminal event.
PutVerdictSwapped(q, v) == PutNowait(PutNowait(q, "sentinel"), v)

\* Mutant: only the sentinel is queued, as if settled() had failed unnoticed.
PutSentinelOnly(q, v) == PutNowait(q, "sentinel")

\* Mutant: no sentinel behind the terminal event.
PutVerdictAlone(q, v) == PutNowait(q, v)

PutVerdict(q, v) == PutNowait(PutNowait(q, v), "sentinel")

Overflows(q, n) == Len(q) + n > QUEUE_DEPTH

\* Mutant: done() without its comparison, freeing whoever holds the analyst.
DoneUnchecked(a, r) == [b \in Agents |-> IF b = a THEN NoRef ELSE busy[b]]

\* Mutant: nobody frees the analyst.
DoneForgotten(a, r) == busy

\* Requests.done: only the request that holds the analyst frees it.
Done(a, r) ==
    [b \in Agents |-> IF b = a /\ busy[b] = r THEN NoRef ELSE busy[b]]

\* Requests.agent_for
AgentFor(r) ==
    IF \E a \in Agents : busy[a] = r
    THEN CHOOSE a \in Agents : busy[a] = r
    ELSE NoAgent

-----------------------------------------------------------------------------
Init ==
    /\ busy = [a \in Agents |-> NoRef]
    /\ registered = {}
    /\ heard = {}
    /\ queue = [r \in Refs |-> <<>>]
    /\ asked = [r \in Refs |-> NoAgent]
    /\ work = [r \in Refs |-> "none"]
    /\ watchdog = [r \in Refs |-> "none"]
    /\ reader = [d \in Readers |-> Away]
    /\ dropped = {}

\* Mutant: open() without its refusal of a busy analyst.
AskUnchecked(a, r) ==
    /\ work[r] = "none"
    /\ busy' = [busy EXCEPT ![a] = r]
    /\ registered' = registered \union {r}
    /\ asked' = [asked EXCEPT ![r] = a]
    /\ work' = [work EXCEPT ![r] = "calling"]
    /\ watchdog' = [watchdog EXCEPT ![r] = "asleep"]
    /\ UNCHANGED <<heard, queue, reader, dropped>>

\* POST /ask: Requests.open, then the task work(), which starts the watchdog
\* before it issues the call.  An analyst that is busy is refused with 409,
\* which changes nothing.
Ask(a, r) ==
    /\ busy[a] = NoRef
    /\ work[r] = "none"
    /\ busy' = [busy EXCEPT ![a] = r]
    /\ registered' = registered \union {r}
    /\ asked' = [asked EXCEPT ![r] = a]
    /\ work' = [work EXCEPT ![r] = "calling"]
    /\ watchdog' = [watchdog EXCEPT ![r] = "asleep"]
    /\ UNCHANGED <<heard, queue, reader, dropped>>

\* Requests.deliver, for a reference that has a queue; any other is ignored.
Deliver(r) ==
    /\ r \in registered
    /\ heard' = heard \union {r}
    /\ queue' = [queue EXCEPT ![r] = PutNowait(@, "step")]
    /\ dropped' = IF Overflows(queue[r], 1) THEN dropped \union {r} ELSE dropped
    /\ UNCHANGED <<busy, registered, tasks, reader>>

\* The rest of work() once bus.ask has returned or raised.
WorkEnds(r, outcome) ==
    /\ work[r] = "calling"
    /\ work' = [work EXCEPT ![r] = "ended"]
    /\ watchdog' = [watchdog EXCEPT ![r] = "over"]
    /\ busy' = Done(asked[r], r)
    /\ queue' = [queue EXCEPT ![r] = PutVerdict(@, Settled(outcome))]
    /\ dropped' = IF Overflows(queue[r], 2) THEN dropped \union {r} ELSE dropped
    /\ UNCHANGED <<registered, heard, asked, reader>>

\* nobody_answered() wakes after SILENT_AFTER.
WatchdogWakes(r) ==
    /\ watchdog[r] = "asleep"
    /\ watchdog' = [watchdog EXCEPT ![r] = "over"]
    /\ IF r \in heard
       THEN UNCHANGED <<busy, queue, dropped>>
       ELSE /\ busy' = Done(asked[r], r)
            /\ queue' = [queue EXCEPT ![r] = PutVerdict(@, "failed")]
            /\ dropped' = IF Overflows(queue[r], 2) THEN dropped \union {r}
                                                    ELSE dropped
    /\ UNCHANGED <<registered, heard, asked, work, reader>>

-----------------------------------------------------------------------------
(* GET /ask/{reference}/events                                              *)

\* queue_for found a queue; the response has not begun to iterate its body.
Connect(d, r) ==
    /\ reader[d] = Away
    /\ r \in registered
    /\ reader' = [reader EXCEPT ![d] = [phase |-> "connected", ref |-> r, agent |-> NoAgent]]
    /\ UNCHANGED <<desk, queue, tasks, dropped>>

\* body() runs for the first time and looks up whom the request holds.
StartBody(d) ==
    /\ reader[d].phase = "connected"
    /\ reader' = [reader EXCEPT ![d].phase = "reading",
                                ![d].agent = AgentFor(reader[d].ref)]
    /\ UNCHANGED <<desk, queue, tasks, dropped>>

\* Requests.close in body()'s finally, and the stream is gone.
Close(d) ==
    LET r == reader[d].ref IN
    /\ registered' = registered \ {r}
    /\ heard' = heard \ {r}
    /\ busy' = Done(reader[d].agent, r)
    /\ reader' = [reader EXCEPT ![d] = Away]

\* stream(): take the next event.  The sentinel ends the stream with no
\* suspension before close; an ordinary or a terminal event is sent first.
Read(d) ==
    LET r == reader[d].ref
        e == Head(queue[r]) IN
    /\ reader[d].phase = "reading"
    /\ queue[r] # <<>>
    /\ queue' = [queue EXCEPT ![r] = Tail(@)]
    /\ IF e = "sentinel"
       THEN Close(d)
       ELSE /\ reader' = [reader EXCEPT ![d].phase =
                              IF e \in Verdicts THEN "told" ELSE "reading"]
            /\ UNCHANGED desk
    /\ UNCHANGED <<tasks, dropped>>

\* The terminal event has been sent: stream() returns, and body() closes.
Finish(d) ==
    /\ reader[d].phase = "told"
    /\ Close(d)
    /\ UNCHANGED <<queue, tasks, dropped>>

\* The browser goes away.  A body that is running is cancelled and its
\* finally runs; one that never started has no finally to run.
Leave(d) ==
    /\ reader[d].phase # "away"
    /\ IF reader[d].phase = "connected"
       THEN reader' = [reader EXCEPT ![d] = Away] /\ UNCHANGED desk
       ELSE Close(d)
    /\ UNCHANGED <<queue, tasks, dropped>>

\* The portal's process ends and a new one starts: nothing here is stored.  A
\* call that was out may still be worked on, but its reply finds nobody.
Restart ==
    /\ busy' = [a \in Agents |-> NoRef]
    /\ registered' = {}
    /\ heard' = {}
    /\ queue' = [r \in Refs |-> <<>>]
    /\ work' = [r \in Refs |-> IF work[r] = "none" THEN "none" ELSE "ended"]
    /\ watchdog' = [r \in Refs |-> IF work[r] = "none" THEN "none" ELSE "over"]
    /\ reader' = [d \in Readers |-> Away]
    /\ UNCHANGED <<asked, dropped>>

-----------------------------------------------------------------------------
Next ==
    \/ \E a \in Agents, r \in Refs : Ask(a, r)
    \/ \E r \in Refs : Deliver(r)
    \/ \E r \in Refs, o \in Outcomes : WorkEnds(r, o)
    \/ \E r \in Refs : WatchdogWakes(r)
    \/ \E d \in Readers, r \in Refs : Connect(d, r)
    \/ \E d \in Readers : StartBody(d)
    \/ \E d \in Readers : Read(d)
    \/ \E d \in Readers : Finish(d)
    \/ \E d \in Readers : Leave(d)
    \/ Restart

Spec == Init /\ [][Next]_vars

\* A call has a ttl of fifteen minutes, so bus.ask returns or raises; the event
\* loop runs a reader's task whenever it has something to do.
Fairness ==
    /\ \A r \in Refs : WF_vars(\E o \in Outcomes : WorkEnds(r, o))
    /\ \A d \in Readers :
        WF_vars(StartBody(d)) /\ WF_vars(Read(d)) /\ WF_vars(Finish(d))

FairSpec == Spec /\ Fairness

-----------------------------------------------------------------------------
(* Properties                                                               *)

\* An analyst is held only for a request whose call is still out, that asked
\* for this very analyst and that a browser can still find.  Breaking it is the
\* lock-out the docstring of Requests tells of: every later question refused
\* with "is already working" while nothing is working.
HeldOnlyWhileCalling ==
    \A a \in Agents : busy[a] # NoRef =>
        /\ work[busy[a]] = "calling"
        /\ asked[busy[a]] = a
        /\ busy[a] \in registered

\* A queue never shows a reader the sentinel before somebody has been given the
\* terminal event in front of it: a stream does not end without its verdict.
NoSilentEnd ==
    \A r \in registered : queue[r] # <<>> /\ Head(queue[r]) = "sentinel" =>
        \E d \in Readers : reader[d].phase = "told" /\ reader[d].ref = r

\* Once the work of a registered request has ended, its verdict waits in the
\* queue for a browser that connects late, or is being sent, unless the queue
\* was full: the reason done() does not drop the queue.
VerdictWaits ==
    \A r \in registered \ dropped : work[r] = "ended" =>
        \/ \E i \in 1..Len(queue[r]) : queue[r][i] \in Verdicts
        \/ \E d \in Readers : reader[d].phase = "told" /\ reader[d].ref = r

\* An analyst that has been heard from is freed only because its work ended or
\* its reader left: the watchdog never gives up on it.
HeardKeepsItsAnalyst ==
    [][\A a \in Agents :
        busy[a] \in heard /\ busy'[a] # busy[a] =>
            work'[busy[a]] = "ended" \/ busy[a] \notin registered']_vars

\* A browser that keeps reading is released once the work has ended, a second
\* tab on the same request included, unless an event has been dropped.
ReaderReleased ==
    \A d \in Readers, r \in Refs :
        (reader[d].ref = r /\ work[r] = "ended") ~> (reader[d].ref # r \/ r \in dropped)

\* No request keeps its analyst for ever.
AnalystFreed ==
    \A a \in Agents, r \in Refs : (busy[a] = r) ~> (busy[a] # r)

\* The desk implements what AskPromise promises.
PhaseOf ==
    [r \in Refs |-> CASE work[r] = "none" -> "new"
                      [] work[r] = "calling" -> "open"
                      [] work[r] = "ended" -> "over"]

Promise == INSTANCE AskPromise WITH holder <- busy, phase <- PhaseOf

KeepsPromise == Promise!PSpec

-----------------------------------------------------------------------------
(* What the comments of the code say and the code does not do               *)

\* main.py, beside the finally of work(): the analyst is freed there, not when
\* the reader leaves.
NotFreedByItsReader ==
    [][\A a \in Agents :
        busy[a] # NoRef /\ busy'[a] # busy[a] =>
            work'[busy[a]] = "ended" \/ watchdog'[busy[a]] = "over"]_vars

\* work(): "make sure the stream ends whatever happens".
StreamEnds ==
    \A d \in Readers, r \in Refs :
        (reader[d].ref = r /\ work[r] = "ended") ~> (reader[d].ref # r)
=============================================================================
