------------------------------ MODULE RunRecord ------------------------------
(***************************************************************************)
(* The pairing of a run's steps into the calls of its record:              *)
(* agents/core/record.py, from_steps.  Pure: what the record says of a     *)
(* list of steps, whichever loop reported them.                            *)
(*                                                                         *)
(* The text of a step is abstracted to the call it is about, Of: what the  *)
(* pairing is meant to find out and the code never reads.                  *)
(***************************************************************************)
EXTENDS Naturals, Sequences, FiniteSets

Loop == 0       \* a step that is about no call: the loop's own failure, prose
NoId == 0       \* a step that carries no call_id
NoOutput == 99  \* a call that nothing has closed

Step(kind, of, id) == [kind |-> kind, of |-> of, id |-> id]
Kinds == {"open", "output", "error", "prose"}

Nothing == [calls |-> <<>>, byId |-> {}, pending |-> 0]

\* A call and its input: it is the one that a result without an id answers.
Opened(found, step) ==
    LET n == Len(found.calls) + 1 IN
    [calls |-> Append(found.calls,
                      [of |-> step.of, output |-> NoOutput, status |-> "pending"]),
     byId |-> IF step.id = NoId THEN found.byId
              ELSE {p \in found.byId : p[1] # step.id} \union {<<step.id, n>>},
     pending |-> n]

\* Mutant: a result answers the call before it, whatever it names.
AnsweredByPosition(found, step) == found.pending

\* Which call a result answers: the one it names, or the last opened when it
\* names none; 0 is a result that gets a call of its own.
Answered(found, step) ==
    IF step.id = NoId THEN found.pending
    ELSE IF \E p \in found.byId : p[1] = step.id
         THEN (CHOOSE p \in found.byId : p[1] = step.id)[2]
         ELSE 0

Closed(found, step) ==
    LET named == Answered(found, step)
        status == IF step.kind = "error" THEN "error" ELSE "completed"
        n == IF named = 0 THEN Len(found.calls) + 1 ELSE named
        call == IF named = 0 THEN [of |-> step.of, output |-> step.of, status |-> status]
                ELSE [found.calls[n] EXCEPT !.output = step.of, !.status = status]
    IN [calls |-> [i \in 1..Len(found.calls) \union {n} |->
                      IF i = n THEN call ELSE found.calls[i]],
        byId |-> {p \in found.byId : p[1] # step.id},
        pending |-> IF named = found.pending THEN 0 ELSE found.pending]

\* One turn of the loop of from_steps.
Paired(found, step) ==
    CASE step.kind = "open" -> Opened(found, step)
      [] step.kind \in {"output", "error"} -> Closed(found, step)
      [] OTHER -> found

\* The walk of from_steps over a list of steps.
Found(steps) ==
    LET walk[n \in 0..Len(steps)] ==
            IF n = 0 THEN Nothing ELSE Paired(walk[n - 1], steps[n])
    IN walk[Len(steps)]

\* The calls of a list of steps, in the order they were made.
FromSteps(steps) == Found(steps).calls

\* [step for event in events for step in _steps(event)]: one list of the steps
\* that each event, or each part, is.
Joined(pieces) ==
    LET upTo[n \in 0..Len(pieces)] ==
            IF n = 0 THEN <<>> ELSE upTo[n - 1] \o pieces[n]
    IN upTo[Len(pieces)]

\* How many of a list are of these kinds.
Tally(list, kinds) == Cardinality({n \in 1..Len(list) : list[n].kind \in kinds})
=============================================================================
