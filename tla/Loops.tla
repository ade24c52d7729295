-------------------------------- MODULE Loops --------------------------------
(***************************************************************************)
(* The loop of one investigation, whichever its employee runs on, held to  *)
(* the contract that agents/core/run.py is written against.                *)
(***************************************************************************)
EXTENDS RunRecord

CONSTANTS LineKinds, TornKinds, MaxLines, MaxParts, RequestLimit, MaxCalls

ASSUME LoopBounds ==
    /\ LineKinds \subseteq {"started", "completed", "failed", "tool", "error",
                       "turn", "unreadable"}
    \* turn.completed holds numbers only; an unreadable line is dropped anyway.
    /\ TornKinds \subseteq LineKinds \ {"turn", "unreadable"}
    /\ MaxLines \in Nat /\ MaxParts \in Nat /\ MaxCalls \in Nat
    /\ RequestLimit \in Nat \ {0}

VARIABLES
    harness,                                        \* the loop that was built
    phase, heard, billed, outcome, process,
    pipe, lines, last, why,                         \* codex
    tools, answering, parts, turn, read, failure,   \* opencode
    requested, made, flying, result                 \* pydantic-ai

codexVars == <<pipe, lines, last, why>>
opencodeVars == <<tools, answering, parts, turn, read, failure>>
pydanticVars == <<requested, made, flying, result>>
vars == <<harness, phase, heard, billed, outcome, process,
          codexVars, opencodeVars, pydanticVars>>

Codex == INSTANCE CodexLoop
Opencode == INSTANCE OpencodeLoop
Pydantic == INSTANCE PydanticLoop

Ended == phase \in {"returned", "raised"}

\* What an Outcome will hold of what was narrated: codex's lines are read again.
Kept == IF harness = "codex" THEN Codex!AllSteps(lines) ELSE heard

Contract == INSTANCE LoopContract WITH
    ended <- IF Ended THEN phase ELSE "no",
    kept <- Kept

TypeOK ==
    /\ harness \in {"codex", "opencode", "pydantic-ai"}
    /\ process \in {"none", "running", "exited", "failed", "killed"}
    /\ Codex!TypeOK /\ Opencode!TypeOK /\ Pydantic!TypeOK

Init ==
    /\ harness \in {"codex", "opencode", "pydantic-ai"}
    /\ phase = "fresh"
    /\ heard = <<>>
    /\ billed = 0
    /\ outcome = Contract!Unfinished
    /\ process = "none"
    /\ Codex!Init /\ Pydantic!Init
    /\ Opencode!Init /\ (harness # "opencode" => tools = "desk")

RunsCodex ==
    /\ harness = "codex" /\ Codex!Next
    /\ UNCHANGED <<harness, opencodeVars, pydanticVars>>

RunsOpencode ==
    /\ harness = "opencode" /\ Opencode!Next
    /\ UNCHANGED <<harness, codexVars, pydanticVars>>

RunsPydantic ==
    /\ harness = "pydantic-ai" /\ Pydantic!Next
    /\ UNCHANGED <<harness, process, codexVars, opencodeVars>>

Next == RunsCodex \/ RunsOpencode \/ RunsPydantic

Spec == Init /\ [][Next]_vars

FairSpec ==
    /\ Spec
    /\ (harness = "codex" => Codex!Fairness)
    /\ (harness = "opencode" => Opencode!Fairness)
    /\ (harness = "pydantic-ai" => Pydantic!Fairness)

-----------------------------------------------------------------------------
(* Properties                                                               *)

\* Whatever the vendor does and wherever the deadline falls, an Outcome holds the
\* steps that were narrated, in their order and whole reports of them, however it
\* ended; the usage that was reported; and either an answer or an error.
KeepsContract == Contract!Spec

\* The record of what was narrated, taken at any moment (a crash pairs the live
\* list), whatever the order the calls of a turn ended in: a call's output is its
\* own or, when the loop failed under it, the loop's error; and every call is an
\* entry once, open exactly when no result of it was narrated, as long as no
\* error of the loop itself took the place of that result.
RecordIsTrue ==
    LET calls == FromSteps(heard)
        Entries(k) == {n \in 1..Len(calls) : calls[n].of = k}
        Of(kinds, k) == {n \in 1..Len(heard) : heard[n].kind \in kinds /\ heard[n].of = k}
    IN  /\ \A n \in 1..Len(calls) : calls[n].output \in {calls[n].of, NoOutput, Loop}
        /\ Of({"error"}, Loop) = {} =>
               \A k \in {heard[n].of : n \in 1..Len(heard)} \ {Loop} :
                   \E n \in 1..Len(calls) :
                       /\ Entries(k) = {n}
                       /\ calls[n].status = "pending" <=> Of({"output", "error"}, k) = {}

\* A call that was refused reads as refused, and one that is still running as
\* open: what the judge counts.
RefusalsAreErrors ==
    (harness = "opencode" /\ phase = "returned" /\ heard # <<>>) =>
        LET calls == FromSteps(heard) IN
        \A n \in 1..Len(parts) : parts[n].kind \in Opencode!CallKinds =>
            \E i \in 1..Len(calls) :
                /\ calls[i].of = parts[n].of
                /\ calls[i].status =
                       CASE parts[n].kind = "running" -> "pending"
                         [] parts[n].kind = "refused" -> "error"
                         [] parts[n].kind = "declared" ->
                                IF tools = "mcp" THEN "error" ELSE "completed"
                         [] OTHER -> "completed"

\* "A watcher and the record must see the same run" (codex.py:288): what is handed
\* back is what was narrated, unless codex wrote a torn line, and then it never is.
SameRun ==
    phase = "returned" =>
        (outcome.steps = heard
            <=> (harness = "codex" => \A n \in 1..Len(lines) : ~lines[n].torn))

\* No codex and no opencode outlives the investigation that started it, on any way
\* out of it but one: a slot cancelled while codex is being reaped.
NoProcessLeft ==
    Ended => process # "running" \/ (harness = "codex" /\ why = "interrupted")

\* What codex.py:229-235 says of its `finally`, false on that one way out; no run of
\* the list checks it, LoopsOrphan.cfg shows it.
NoOrphan == Ended => process # "running"

\* Every loop ends, with an Outcome or with an exception.
EveryLoopEnds == <>Ended
=============================================================================
