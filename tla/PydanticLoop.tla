---------------------------- MODULE PydanticLoop ----------------------------
(***************************************************************************)
(* One pydantic-ai run: agents/core/harness/pydantic_ai.py.  Model         *)
(* requests one after the other, the calls of a turn together; their       *)
(* results are narrated as they come, each with the id of its call.        *)
(***************************************************************************)
EXTENDS RunRecord

CONSTANTS
    RequestLimit,   \* UsageLimits(request_limit), 120 in the code
    MaxCalls        \* bound: calls of one run

VARIABLES
    phase, heard, billed, outcome,  \* see LoopContract
    requested,      \* model requests of this run
    made,           \* calls made
    flying,         \* the calls of this turn that have not ended
    result          \* how agent.run ended: "open", "valid", "refusal", "error"
                    \* or "cancelled"

own == <<requested, made, flying, result>>
shared == <<phase, heard, billed, outcome>>
vars == <<shared, own>>

TypeOK ==
    /\ requested \in 0..RequestLimit
    /\ made \in 0..MaxCalls
    /\ flying \subseteq 1..made
    /\ result \in {"open", "valid", "refusal", "error", "cancelled"}

Init ==
    /\ requested = 0
    /\ made = 0
    /\ flying = {}
    /\ result = "open"

-----------------------------------------------------------------------------
\* investigate: the employee's clients are opened and the agent is built.
Open ==
    /\ phase = "fresh"
    /\ phase' = "running"
    /\ UNCHANGED <<heard, billed, outcome, own>>

\* The clients cannot be opened, or the agent not built, outside the try.
OpenRaises ==
    /\ phase = "fresh"
    /\ phase' = "raised"
    /\ UNCHANGED <<heard, billed, outcome, own>>

Thinking == phase = "running" /\ result = "open" /\ flying = {}

\* The model answers a request with n calls, none when it asks to go on: each is
\* narrated as it starts (_narrating, a FunctionToolCallEvent), and they run
\* together.
Turn(n) ==
    /\ Thinking
    /\ requested < RequestLimit
    /\ made + n <= MaxCalls
    /\ requested' = requested + 1
    /\ billed' = requested'
    /\ made' = made + n
    /\ flying' = made + 1 .. made + n
    /\ heard' = heard \o [k \in 1..n |-> Step("open", made + k, made + k)]
    /\ UNCHANGED <<phase, outcome, result>>

\* A FunctionToolResultEvent, by _returned: an output, or an error for a tool
\* that failed or asked for a retry.
CallEnds(k, kind) ==
    /\ phase = "running" /\ result = "open"
    /\ k \in flying
    /\ flying' = flying \ {k}
    /\ heard' = Append(heard, Step(kind, k, k))
    /\ UNCHANGED <<phase, billed, outcome, requested, made, result>>

\* The model calls an output tool, which is not narrated.
Concludes(answer) ==
    /\ Thinking
    /\ requested < RequestLimit
    /\ requested' = requested + 1
    /\ billed' = requested'
    /\ result' = answer
    /\ UNCHANGED <<phase, heard, outcome, made, flying>>

\* agent.run raises: a request is refused or fails after its retries, a tool
\* dies, or the limit on requests is met.  What flies is dropped.
RunRaises ==
    /\ phase = "running" /\ result = "open"
    /\ result' = "error"
    /\ UNCHANGED <<shared, requested, made, flying>>

\* The slot is cancelled: no Exception, so nothing of it becomes an Outcome.
Cancelled ==
    /\ phase = "running" /\ result = "open"
    /\ result' = "cancelled"
    /\ UNCHANGED <<shared, requested, made, flying>>

\* The finally writes the transcript, and the Outcome is built: from `result`,
\* a refusal as answer and as error, or from what was captured of a dead run.
Keep ==
    /\ phase = "running" /\ result \in {"valid", "refusal", "error"}
    /\ phase' = "returned"
    /\ outcome' = [steps |-> heard, usage |-> requested,
                   answer |-> IF result = "error" THEN "none" ELSE result,
                   error |-> result # "valid"]
    /\ UNCHANGED <<heard, billed, own>>

\* A cancelled run, or a transcript that cannot be written, or clients that
\* cannot be closed.
KeepRaises ==
    /\ phase = "running" /\ result # "open"
    /\ phase' = "raised"
    /\ UNCHANGED <<heard, billed, outcome, own>>

Next ==
    \/ Open \/ OpenRaises
    \/ \E n \in 0..MaxCalls : Turn(n)
    \/ \E k \in 1..MaxCalls, kind \in {"output", "error"} : CallEnds(k, kind)
    \/ \E answer \in {"valid", "refusal"} : Concludes(answer)
    \/ RunRaises \/ Cancelled
    \/ Keep \/ KeepRaises

\* There is no deadline on the run.  A request ends, by an answer or by the
\* transport's own timeout; a tool by its client's; a run that has met its limit
\* raises.
Fairness ==
    /\ WF_vars(Open)
    /\ WF_vars(\/ \E n \in 0..MaxCalls : Turn(n)
               \/ \E answer \in {"valid", "refusal"} : Concludes(answer)
               \/ Thinking /\ RunRaises)
    /\ WF_vars(\E k \in 1..MaxCalls, kind \in {"output", "error"} : CallEnds(k, kind))
    /\ WF_vars(Keep \/ KeepRaises)
=============================================================================
