------------------------------ MODULE CodexLoop ------------------------------
(***************************************************************************)
(* One `codex exec`: agents/core/harness/codex.py.  A process group whose  *)
(* leader writes JSONL into a pipe, read line by line under one deadline;  *)
(* it is reaped on every way out.  The commands it spawned are left out:   *)
(* codex stands for its group.                                             *)
(***************************************************************************)
EXTENDS RunRecord

CONSTANTS
    LineKinds,      \* what codex may write, by kind
    TornKinds,      \* of these, the lines whose text may end a line for splitlines()
    MaxLines        \* bound: lines of one turn

VARIABLES
    phase, heard, billed, outcome,  \* see LoopContract
    process,    \* codex: "none", "running", "exited", "failed" or "killed"
    pipe,       \* lines written and not yet read
    lines,      \* self._lines
    last,       \* contract/answer.json: "absent", "valid" or "garbled"
    why         \* why it was cut short: "", "late", "cancelled", or "interrupted",
                \* which is cancelled while codex is being reaped

own == <<pipe, lines, last, why>>
shared == <<phase, heard, billed, outcome, process>>
vars == <<shared, own>>

-----------------------------------------------------------------------------
(* Lines: `of` is the command the line is about; a torn one holds, inside   *)
(* its text, a character that str.splitlines() takes for a line's end.      *)

Line(kind, of, torn) == [kind |-> kind, of |-> of, torn |-> torn]

\* _steps: one line, as the step or steps it is.  "completed" and "failed" are
\* a command that ended, by its exit code; "tool" is non-shell work, one event
\* for the call and its result.
StepsOf(line) ==
    CASE line.kind = "started" -> <<Step("open", line.of, NoId)>>
      [] line.kind = "completed" -> <<Step("output", line.of, NoId)>>
      [] line.kind = "failed" -> <<Step("error", line.of, NoId)>>
      [] line.kind = "tool" -> <<Step("open", line.of, NoId), Step("output", line.of, NoId)>>
      [] line.kind = "error" -> <<Step("error", Loop, NoId)>>
      [] line.kind = "turn" -> <<Step("prose", Loop, NoId)>>
      [] line.kind = "unreadable" -> <<>>

\* _events: the lines again, cut with splitlines(); what does not parse is
\* dropped, and so are the pieces of a torn line.
Parsed(line) == ~line.torn /\ line.kind # "unreadable"

\* The steps of the lines that were read, for the Outcome.
AllSteps(read) ==
    Joined([n \in 1..Len(read) |-> IF Parsed(read[n]) THEN StepsOf(read[n]) ELSE <<>>])

\* _usage: what turn.completed reported, of which there is at most one.
Usage(read) == Tally(read, {"turn"})

Written == lines \o pipe
\* The commands of the turn, and the one codex is waiting for: it runs one at a
\* time, which is what lets its results be paired by position; and it reports the
\* usage of the one turn of `codex exec` once.
Begun == Tally(Written, {"started", "tool"})
Ended == Tally(Written, {"completed", "failed", "tool"})

TypeOK ==
    /\ Written \in Seq([kind : LineKinds, of : 0..MaxLines, torn : BOOLEAN]) /\ Len(Written) <= MaxLines
    /\ last \in {"absent", "valid", "garbled"}
    /\ why \in {"", "late", "cancelled", "interrupted"}

Init ==
    /\ pipe = <<>>
    /\ lines = <<>>
    /\ last = "absent"
    /\ why = ""

-----------------------------------------------------------------------------
(* codex                                                                    *)

Writes(kind, torn) ==
    /\ torn => kind \in TornKinds
    /\ process = "running"
    /\ Len(Written) < MaxLines
    /\ kind \in {"completed", "failed"} => Begun > Ended
    /\ kind \in {"started", "tool"} => Begun = Ended
    /\ kind = "turn" => Usage(Written) = 0
    /\ LET of == IF kind \in {"started", "tool"} THEN Begun + 1
                 ELSE IF kind \in {"completed", "failed"} THEN Begun ELSE Loop
       IN pipe' = Append(pipe, Line(kind, of, torn))
    /\ UNCHANGED <<shared, lines, last, why>>

WritesAnswer ==
    /\ process = "running" /\ last = "absent"
    /\ last' \in {"valid", "garbled"}
    /\ UNCHANGED <<shared, pipe, lines, why>>

Exits ==
    /\ process = "running"
    /\ process' \in {"exited", "failed"}
    /\ UNCHANGED <<phase, heard, billed, outcome, own>>

-----------------------------------------------------------------------------
(* The driver                                                               *)

\* investigate up to _run: the desk, the contract's directory, the process.
Prepare ==
    /\ phase = "fresh"
    /\ phase' = "pumping"
    /\ process' = "running"
    /\ UNCHANGED <<heard, billed, outcome, own>>

\* prepare(), mkdir() or the exec itself raises: none is caught.
PrepareRaises ==
    /\ phase = "fresh"
    /\ phase' = "raised"
    /\ UNCHANGED <<heard, billed, outcome, process, own>>

\* Mutant: the watcher is told the first step of a line, where the record keeps two.
ReadLineFirst ==
    /\ phase = "pumping" /\ pipe # <<>>
    /\ pipe' = Tail(pipe)
    /\ lines' = Append(lines, Head(pipe))
    /\ heard' = heard \o (IF StepsOf(Head(pipe)) = <<>> THEN <<>>
                          ELSE <<StepsOf(Head(pipe))[1]>>)
    /\ billed' = billed + (IF Head(pipe).kind = "turn" THEN 1 ELSE 0)
    /\ UNCHANGED <<phase, outcome, process, last, why>>

\* _pump: one line is kept, and its steps are narrated.
ReadLine ==
    /\ phase = "pumping" /\ pipe # <<>>
    /\ pipe' = Tail(pipe)
    /\ lines' = Append(lines, Head(pipe))
    /\ heard' = heard \o StepsOf(Head(pipe))
    /\ billed' = billed + (IF Head(pipe).kind = "turn" THEN 1 ELSE 0)
    /\ UNCHANGED <<phase, outcome, process, last, why>>

\* _pump is done: the pipe is drained and the process waited for.  _reap finds
\* a return code and does nothing.
Waited ==
    /\ phase = "pumping" /\ pipe = <<>>
    /\ process \in {"exited", "failed"}
    /\ phase' = "reading"
    /\ UNCHANGED <<heard, billed, outcome, process, own>>

\* Mutant: only a deadline reaps; a cancelled slot leaves codex to itself.
CutAndForget(cause) ==
    /\ phase = "pumping"
    /\ why' = cause
    /\ \/ /\ cause = "late"
          /\ phase' = "reaping"
          /\ process' \in {process, IF process = "running" THEN "killed" ELSE process}
       \/ /\ \/ cause = "cancelled"
             \/ process # "running"
          /\ phase' = "reaped"
          /\ UNCHANGED process
    /\ UNCHANGED <<heard, billed, outcome, pipe, lines, last>>

\* The deadline of wait_for, or a cancelled slot, between two lines; _reap sends
\* TERM to codex and its group, and codex goes or ignores it.  One that has ended
\* may not have been noticed yet; once it has, nothing is signalled.
Cut(cause) ==
    /\ phase = "pumping"
    /\ why' = cause
    /\ \/ /\ phase' = "reaping"
          /\ process' \in {process, IF process = "running" THEN "killed" ELSE process}
       \/ /\ process # "running"
          /\ phase' = "reaped"
          /\ UNCHANGED process
    /\ UNCHANGED <<heard, billed, outcome, pipe, lines, last>>

\* codex went, within the five seconds or when it was killed.
Reaped ==
    /\ phase = "reaping" /\ process # "running"
    /\ phase' = "reaped"
    /\ UNCHANGED <<heard, billed, outcome, process, own>>

\* It did not: KILL, to the whole group, and it is waited for.
Insist ==
    /\ phase = "reaping" /\ process = "running"
    /\ process' = "killed"
    /\ UNCHANGED <<phase, heard, billed, outcome, own>>

\* The slot is cancelled, or cancelled again, while _reap waits: only TimeoutError
\* is caught there, and a codex that ignores TERM is never sent KILL.
Interrupted ==
    /\ phase = "reaping"
    /\ phase' = "raised"
    /\ why' = "interrupted"
    /\ UNCHANGED <<heard, billed, outcome, process, pipe, lines, last>>

Hand(steps, usage, answer) ==
    /\ phase' = "returned"
    /\ outcome' = [steps |-> steps, usage |-> usage, answer |-> answer,
                   error |-> answer = "none"]
    /\ UNCHANGED <<heard, billed, process, own>>

\* Mutant: the lines read so far are lost with the coroutine that read them.
HandLateFromNothing ==
    /\ phase = "reaped" /\ why = "late"
    /\ Hand(<<>>, 0, "none")

\* The deadline: what was read of the turn, and an error.
HandLate ==
    /\ phase = "reaped" /\ why = "late"
    /\ Hand(AllSteps(lines), Usage(lines), "none")

Cancelled ==
    /\ phase = "reaped" /\ why = "cancelled"
    /\ phase' = "raised"
    /\ UNCHANGED <<heard, billed, outcome, process, own>>

\* No answer, or one written by a codex that then failed, is an error.
HandOver ==
    /\ phase = "reading"
    /\ last = "valid" \/ process = "failed" \/ last = "absent"
    /\ Hand(AllSteps(lines), Usage(lines),
            IF last = "valid" /\ process # "failed" THEN "valid" ELSE "none")

\* A piece of a torn line may be JSON by itself, a number of the text: it is an
\* event that is no object, and _step raises.
PieceRaises ==
    /\ phase = "reading" \/ (phase = "reaped" /\ why = "late")
    /\ \E n \in 1..Len(lines) : lines[n].torn
    /\ phase' = "raised"
    /\ UNCHANGED <<heard, billed, outcome, process, own>>

\* json.loads(last.read_text()) raises.
AnswerUnreadable ==
    /\ phase = "reading"
    /\ last = "garbled" /\ process # "failed"
    /\ phase' = "raised"
    /\ UNCHANGED <<heard, billed, outcome, process, own>>

Next ==
    \/ \E kind \in LineKinds, torn \in BOOLEAN : Writes(kind, torn)
    \/ WritesAnswer \/ Exits
    \/ Prepare \/ PrepareRaises
    \/ ReadLine \/ Waited
    \/ \E cause \in {"late", "cancelled"} : Cut(cause)
    \/ Reaped \/ Insist \/ Interrupted
    \/ PieceRaises
    \/ HandLate \/ Cancelled \/ HandOver \/ AnswerUnreadable

\* The event loop runs what can run, and wait_for's deadline does come; codex
\* itself may hang for ever.
Fairness ==
    /\ WF_vars(Prepare)
    /\ WF_vars(\E cause \in {"late"} : Cut(cause))
    /\ WF_vars(Reaped \/ Insist)
    /\ WF_vars(HandLate \/ Cancelled \/ HandOver \/ AnswerUnreadable)
=============================================================================
