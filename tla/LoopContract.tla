---------------------------- MODULE LoopContract ----------------------------
(***************************************************************************)
(* What agents/core/harness/base.py promises of every loop, and what       *)
(* agents/core/run.py relies on: steps are reported while it works, it     *)
(* ends once, and an ending that hands anything back hands back steps it   *)
(* reported, in their order, and what the vendor said they cost.  A report *)
(* may be lost to the record, whole, and is decided when it is made: what  *)
(* is handed back never depends on how the loop ended.                     *)
(***************************************************************************)
EXTENDS Naturals, Sequences

VARIABLES
    ended,      \* "no", or how: "returned" or "raised"
    heard,      \* the steps on_step was called with, in order
    kept,       \* of these, the ones an Outcome will hold
    billed,     \* model requests the loop was told of
    outcome     \* the Outcome, once returned

vars == <<ended, heard, kept, billed, outcome>>

Unfinished == [steps |-> <<>>, usage |-> 0, answer |-> "none", error |-> FALSE]

Init ==
    /\ ended = "no" /\ heard = <<>> /\ kept = <<>>
    /\ billed = 0 /\ outcome = Unfinished

\* More is told, and all of it is kept or none of it is.
Tells ==
    /\ Len(heard') >= Len(heard) /\ SubSeq(heard', 1, Len(heard)) = heard
    /\ \/ kept' = kept
       \/ kept' = kept \o SubSeq(heard', Len(heard) + 1, Len(heard'))
    /\ billed' >= billed

Report ==
    /\ ended = "no"
    /\ Tells
    /\ UNCHANGED <<ended, outcome>>

\* An answer or an error, both when the answer is a refusal.  A loop that tells
\* everything at the end may report and return in one step.
Return ==
    /\ ended = "no"
    /\ ended' = "returned"
    /\ Tells
    /\ outcome'.steps = kept' /\ outcome'.usage = billed'
    /\ outcome'.error <=> outcome'.answer \in {"none", "refusal"}

Raise ==
    /\ ended = "no"
    /\ ended' = "raised"
    /\ UNCHANGED <<heard, kept, billed, outcome>>

Next == Report \/ Return \/ Raise

Spec == Init /\ [][Next]_vars
=============================================================================
