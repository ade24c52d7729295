---------------------------- MODULE EvidenceLogs ----------------------------
(***************************************************************************)
(* What the log tools of angel (dana's are the same) and of blair say is   *)
(* new: the overview fetches a service's last window and the one before    *)
(* it, in two calls, and compares the shapes of their lines.  A fetch is   *)
(* written to a file named after its window, which every later fetch of    *)
(* that window writes over.                                                *)
(*                                                                         *)
(* Angel asks for "since", reads the file at once and asks for the earlier *)
(* window when it gets there; blair fixes one anchor for both, and reads   *)
(* both files at the end.  A window takes its first moment and not its     *)
(* last.  Other services of the same overview are more of the same.        *)
(***************************************************************************)
EXTENDS Integers, Sequences, SequencesExt

CONSTANTS
    Shapes,         \* the shapes of lines
    FetchLines,     \* MAX_FETCH_LINES, what one fetch brings at most
    MaxLines,       \* bound: lines logged in one window
    MaxNow          \* bound: the length of the story, in windows

VARIABLES
    employee,       \* whose tools they are
    log,            \* the lines of the service, by the window they fall in
    now,            \* the clock
    kept,           \* the file of the last window
    overview,       \* the overview under way
    report          \* the last comparison it made

(* A comparison is [new, complete, alone, truth]: the shapes said to be    *)
(* new, whether both windows were whole, whether nothing came between its  *)
(* two fetches, and the shapes that are new.                               *)
NoReport == [new |-> {}, complete |-> FALSE, alone |-> FALSE, truth |-> {}]
NoOverview == [anchor |-> -1, seen |-> {}, complete |-> FALSE, alone |-> TRUE, whole |-> {}]
UnderWay == overview.anchor # -1

Init ==
    /\ log = [window \in 0 .. MaxNow - 1 |-> <<>>]
    /\ now = 0
    /\ kept = <<>>
    /\ overview = NoOverview
    /\ report = NoReport

Log(shape) ==
    /\ now < MaxNow /\ Len(log[now]) < MaxLines
    /\ log' = [log EXCEPT ![now] = Append(@, shape)]
    /\ UNCHANGED <<now, kept, overview, report>>

(* A window's length goes by; angel's second window moves with the clock.  *)
TimePasses ==
    /\ now < MaxNow
    /\ now' = now + 1
    /\ overview' = [overview EXCEPT !.alone = @ /\ employee # "angel"]
    /\ UNCHANGED <<log, kept, report>>

-----------------------------------------------------------------------------
ShapesOf(lines) == ToSet(lines)
Window(until) == IF until > 0 THEN log[until - 1] ELSE <<>>

(* The newest lines come, as many as the ceiling lets through.             *)
Newest(lines) ==
    IF Len(lines) <= FetchLines THEN lines
    ELSE SubSeq(lines, Len(lines) - FetchLines + 1, Len(lines))

(* Mutant: a fetch that brought as much as it may is called complete.      *)
FetchedUpTo(until) ==
    [lines |-> Newest(Window(until)), complete |-> Len(Newest(Window(until))) <= FetchLines]

Fetched(until) ==
    [lines |-> Newest(Window(until)), complete |-> Len(Newest(Window(until))) < FetchLines]

(* logs_search, logs_fetch, logs_query: the same window asked for again,   *)
(* possibly while the overview awaits its second fetch.                    *)
Search ==
    /\ kept' = Fetched(now).lines
    /\ overview' = [overview EXCEPT !.alone = @ /\ employee # "blair"]
    /\ UNCHANGED <<log, now, report>>

(* The first fetch: angel compares nothing when the window is silent.      *)
OverviewNow ==
    LET current == Fetched(now)
    IN  /\ ~UnderWay
        /\ kept' = current.lines
        /\ IF employee = "angel" /\ current.lines = <<>>
           THEN UNCHANGED overview
           ELSE overview' = [anchor |-> now, seen |-> ShapesOf(current.lines),
                             complete |-> current.complete, alone |-> TRUE,
                             whole |-> ShapesOf(Window(now))]
        /\ UNCHANGED <<log, now, report>>

(* The second, and the comparison: what angel has read, or what blair's    *)
(* file holds by now.                                                      *)
OverviewBefore ==
    LET before == Fetched((IF employee = "angel" THEN now ELSE overview.anchor) - 1)
        seen == IF employee = "angel" THEN overview.seen ELSE ShapesOf(kept)
    IN  /\ UnderWay
        /\ report' = [new |-> seen \ ShapesOf(before.lines),
                      complete |-> overview.complete /\ before.complete,
                      alone |-> overview.alone,
                      truth |-> overview.whole \ ShapesOf(Window(overview.anchor - 1))]
        /\ overview' = NoOverview
        /\ UNCHANGED <<log, now, kept>>

(* The second fetch is refused: the current window alone is told.          *)
OverviewAlone ==
    /\ UnderWay
    /\ overview' = NoOverview
    /\ UNCHANGED <<log, now, kept, report>>

Next ==
    \/ \E shape \in Shapes : Log(shape)
    \/ TimePasses
    \/ Search
    \/ OverviewNow
    \/ OverviewBefore
    \/ OverviewAlone
=============================================================================
