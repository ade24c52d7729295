---------------------------- MODULE OpencodeLoop ----------------------------
(***************************************************************************)
(* One `opencode serve` per investigation: agents/core/harness/            *)
(* opencode_api.py, for both employees that run on it (opencode_cli.py     *)
(* with a desk, opencode_mcp.py with typed tools).  A server is started,   *)
(* probed, given the ticket and asked for the whole conversation; the      *)
(* steps are replayed from it when the server is gone.                     *)
(***************************************************************************)
EXTENDS RunRecord

CONSTANTS
    MaxParts        \* bound: parts of one conversation

VARIABLES
    phase, heard, billed, outcome,  \* see LoopContract
    process,        \* the server: "none", "running", "exited", "failed" or "killed"
    tools,          \* how the employee is equipped: "desk" or "mcp"
    answering,      \* the server answers HTTP, not merely TCP
    parts,          \* the conversation the server holds
    turn,           \* "none", "open", "over", or "refused" by the provider
    read,           \* what GET .../message brought back
    failure         \* how `serving` or `converse` ended: "", "caught" or "raised"

own == <<tools, answering, parts, turn, read, failure>>
shared == <<phase, heard, billed, outcome, process>>
vars == <<shared, own>>

-----------------------------------------------------------------------------
(* Parts: a call's state is its own, so a part is a call and its result     *)

Part(kind, of) == [kind |-> kind, of |-> of]
CallKinds == {"running", "completed", "refused", "declared"}
PartKinds == CallKinds \union {"text", "verdict"}

\* Mutant: whatever is not an error is a result.
StepsOfAnyPart(part) ==
    CASE part.kind = "refused" -> <<Step("open", part.of, NoId), Step("error", part.of, NoId)>>
      [] part.kind \in CallKinds \ {"refused"} ->
             <<Step("open", part.of, NoId), Step("output", part.of, NoId)>>
      [] OTHER -> <<Step("prose", Loop, NoId)>>

\* steps and _tool_steps, and _declared of opencode_mcp: a call that is still
\* running has no result; a tool of ours that answers {"error": ...} completed
\* for opencode and failed for the record, a shell command's same output not.
StepsOf(part) ==
    CASE part.kind = "running" -> <<Step("open", part.of, NoId)>>
      [] part.kind = "completed" ->
             <<Step("open", part.of, NoId), Step("output", part.of, NoId)>>
      [] part.kind = "refused" ->
             <<Step("open", part.of, NoId), Step("error", part.of, NoId)>>
      [] part.kind = "declared" ->
             <<Step("open", part.of, NoId),
               Step(IF tools = "mcp" THEN "error" ELSE "output", part.of, NoId)>>
      [] OTHER -> <<Step("prose", Loop, NoId)>>

AllSteps(conversation) == Joined([n \in 1..Len(conversation) |-> StepsOf(conversation[n])])

\* verdict: prose that holds an object of the answer's shape.
Verdict(conversation) ==
    IF \E n \in 1..Len(conversation) : conversation[n].kind = "verdict"
    THEN "valid" ELSE "none"

\* usage: the messages that carry tokens; here every message of prose does.
Usage(conversation) == Tally(conversation, {"text", "verdict"})

Calls == Tally(parts, CallKinds)

TypeOK ==
    /\ tools \in {"desk", "mcp"}
    /\ answering \in BOOLEAN
    /\ parts \in Seq([kind : PartKinds, of : 0..MaxParts]) /\ Len(parts) <= MaxParts
    /\ turn \in {"none", "open", "over", "refused"}
    /\ read = <<>> \/ \A n \in 1..Len(read) : read[n].kind \in PartKinds
    /\ failure \in {"", "caught", "raised"}

Init ==
    /\ tools \in {"desk", "mcp"}
    /\ answering = FALSE
    /\ parts = <<>>
    /\ turn = "none"
    /\ read = <<>>
    /\ failure = ""

-----------------------------------------------------------------------------
(* opencode                                                                 *)

StartsAnswering ==
    /\ process = "running" /\ ~answering
    /\ answering' = TRUE
    /\ UNCHANGED <<shared, tools, parts, turn, read, failure>>

\* The port was free when it was chosen, and may not be when it is bound.
Exits ==
    /\ process = "running"
    /\ process' \in {"exited", "failed"}
    /\ answering' = FALSE
    /\ UNCHANGED <<phase, heard, billed, outcome, tools, parts, turn, read, failure>>

\* The turn goes on by a part; a call is added running.
Speaks(kind) ==
    /\ process = "running" /\ turn = "open"
    /\ Len(parts) < MaxParts
    /\ kind \in {"running", "text", "verdict"}
    /\ parts' = Append(parts, Part(kind, IF kind = "running" THEN Calls + 1 ELSE Loop))
    /\ UNCHANGED <<shared, tools, answering, turn, read, failure>>

\* A call ends: calls of one turn end in any order.
CallEnds(n, kind) ==
    /\ process = "running" /\ turn = "open"
    /\ n \in 1..Len(parts) /\ parts[n].kind = "running"
    /\ kind \in CallKinds \ {"running"}
    /\ parts' = [parts EXCEPT ![n].kind = kind]
    /\ UNCHANGED <<shared, tools, answering, turn, read, failure>>

\* The turn ends, or the provider refuses it, with calls of it still running.
TurnEnds ==
    /\ process = "running" /\ turn = "open"
    /\ turn' \in {"over", "refused"}
    /\ UNCHANGED <<shared, tools, answering, parts, read, failure>>

-----------------------------------------------------------------------------
(* The driver                                                               *)

\* investigate up to Popen: the desk, if there is one, and the server process.
Serve ==
    /\ phase = "fresh"
    /\ phase' = "probing"
    /\ process' = "running"
    /\ UNCHANGED <<heard, billed, outcome, own>>

\* prepare() raises and is not caught; only a desk is laid out.
PrepareRaises ==
    /\ phase = "fresh" /\ tools = "desk"
    /\ phase' = "raised"
    /\ UNCHANGED <<heard, billed, outcome, process, own>>

Hand(conversation, answer) ==
    /\ phase' = "returned"
    /\ heard' = AllSteps(conversation)
    /\ billed' = Usage(conversation)
    /\ outcome' = [steps |-> AllSteps(conversation), usage |-> Usage(conversation),
                   answer |-> answer, error |-> answer = "none"]
    /\ UNCHANGED <<process, own>>

\* There is no opencode to start: an OSError, and an Outcome.
PopenFails ==
    /\ phase = "fresh"
    /\ Hand(<<>>, "none")

Ready ==
    /\ phase = "probing" /\ process = "running" /\ answering
    /\ phase' = "opening"
    /\ UNCHANGED <<heard, billed, outcome, process, own>>

\* Mutant: the probe is repeated for as long as the process lives.
NotReadyWhileAlive ==
    /\ phase = "probing" /\ process # "running"
    /\ phase' = "stopping"
    /\ failure' = "caught"
    /\ UNCHANGED <<heard, billed, outcome, process, tools, answering, parts, turn, read>>

\* The probe finds the process gone, or START_TIMEOUT passes.
NotReady ==
    /\ phase = "probing"
    /\ phase' = "stopping"
    /\ failure' = "caught"
    /\ UNCHANGED <<heard, billed, outcome, process, tools, answering, parts, turn, read>>

\* converse: POST /session, then POST the ticket, which starts the turn.
PostTicket ==
    /\ phase = "opening" /\ process = "running" /\ answering
    /\ phase' = "waiting"
    /\ turn' = "open"
    /\ UNCHANGED <<heard, billed, outcome, process, tools, answering, parts, read, failure>>

\* The turn's own reply, a 2xx whether it ran or was refused.
Replied ==
    /\ phase = "waiting" /\ process = "running" /\ turn \in {"over", "refused"}
    /\ phase' = "listing"
    /\ UNCHANGED <<heard, billed, outcome, process, own>>

\* The conversation is read back, and `serving` goes through its finally.
Listed ==
    /\ phase = "listing" /\ process = "running"
    /\ read' = parts
    /\ phase' = "stopping"
    /\ UNCHANGED <<heard, billed, outcome, process, tools, answering, parts, turn, failure>>

\* A request fails, is refused or times out ("caught"); a reply is not JSON or
\* holds no id, or the slot is cancelled ("raised").
Fails(how) ==
    /\ phase \in {"opening", "waiting", "listing"} \/ (phase = "probing" /\ how = "raised")
    /\ failure' = how
    /\ phase' = "stopping"
    /\ UNCHANGED <<heard, billed, outcome, process, tools, answering, parts, turn, read>>

\* The finally of `serving`: TERM, up to ten seconds in which nothing else of
\* this process runs, and KILL.
Stop ==
    /\ phase = "stopping"
    /\ process' = IF process = "running" THEN "killed" ELSE process
    /\ answering' = FALSE
    /\ phase' = IF failure = "raised" THEN "raised" ELSE "replaying"
    /\ UNCHANGED <<heard, billed, outcome, tools, parts, turn, read, failure>>

\* The rest of run(), which awaits nothing: a caught failure hands over nothing,
\* a turn its steps, and a verdict unless the provider refused it.
Replay ==
    /\ phase = "replaying"
    /\ IF failure = "caught" THEN Hand(<<>>, "none")
       ELSE Hand(read, IF turn = "refused" THEN "none" ELSE Verdict(read))

Next ==
    \/ StartsAnswering \/ Exits \/ TurnEnds
    \/ \E kind \in PartKinds : Speaks(kind)
    \/ \E n \in 1..MaxParts, kind \in CallKinds : CallEnds(n, kind)
    \/ Serve \/ PrepareRaises \/ PopenFails
    \/ Ready \/ NotReady
    \/ PostTicket \/ Replied \/ Listed
    \/ \E how \in {"caught", "raised"} : Fails(how)
    \/ Stop \/ Replay

\* Every request has a timeout, and so has the probe: opencode may never answer.
Fairness ==
    /\ WF_vars(Serve)
    /\ WF_vars(Ready \/ NotReady)
    /\ WF_vars(PostTicket \/ Replied \/ Listed \/ Fails("caught"))
    /\ WF_vars(Stop) /\ WF_vars(Replay)
=============================================================================
