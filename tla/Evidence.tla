------------------------------ MODULE Evidence ------------------------------
(***************************************************************************)
(* The tools of the employees: one of them, at work on tables or on logs,  *)
(* which share no state.                                                   *)
(***************************************************************************)
EXTENDS Integers, Sequences, FiniteSets, SequencesExt

CONSTANTS
    Employees,      \* whose tools: "angel", whose dana's copy, "blair", "charlie"
    Names, NoName, PageRows, MaxMatched, Limits,
    Shapes, FetchLines, MaxLines, MaxNow

ASSUME EvidenceBounds ==
    /\ Employees \subseteq {"angel", "blair", "charlie"}
    /\ PageRows \in Nat \ {0} /\ FetchLines \in Nat \ {0}
    /\ MaxMatched \in Nat /\ Limits \subseteq Nat /\ MaxLines \in Nat /\ MaxNow \in Nat
    /\ NoName \notin Names

VARIABLES
    employee,       \* whose tools they are
    subject,        \* what they are used on: "tables" or "logs"
    matched, query, answer, tables,
    log, now, kept, overview, report

vars == <<employee, subject, matched, query, answer, tables,
          log, now, kept, overview, report>>

Tables == INSTANCE EvidenceTables
Logs == INSTANCE EvidenceLogs

(* Charlie has no overview.                                                *)
Init ==
    /\ employee \in Employees
    /\ subject \in {"tables", "logs"}
    /\ employee = "charlie" => subject = "tables"
    /\ IF subject = "tables" THEN Tables!Init
       ELSE /\ matched = 0
            /\ query = Tables!NoQuery
            /\ answer = Tables!NoAnswer
            /\ tables = [name \in Names |-> Tables!NoTable]
    /\ Logs!Init

UsesTables ==
    /\ subject = "tables"
    /\ Tables!Next
    /\ UNCHANGED <<employee, subject, log, now, kept, overview, report>>

UsesLogs ==
    /\ subject = "logs"
    /\ Logs!Next
    /\ UNCHANGED <<employee, subject, matched, query, answer, tables>>

Next == UsesTables \/ UsesLogs
Spec == Init /\ [][Next]_vars

-----------------------------------------------------------------------------
(* Reads of all three employees: an answer that calls itself complete      *)
(* leaves no row unseen behind the last one it shows, and a total is the   *)
(* number of rows there were.  Charlie's total is not, nor is that of a    *)
(* report read from behind its end or, by angel, from any offset: see      *)
(* README.                                                                 *)
ReadsAreHonest ==
    /\ answer.complete = "yes" =>
           answer.from + Len(answer.rows) >= answer.asked
    /\ \/ answer.total \in {Tables!Nowhere, answer.asked}
       \/ employee = "charlie"
       \/ query.of = "analytics" /\ employee = "angel" /\ query.offset # 0
       \/ query.of = "analytics" /\ query.offset > answer.asked

(* Whoever follows next_offset misses nothing: the answer goes on at the   *)
(* row after the last one shown, or, newest first, at one already shown    *)
(* when others have come since.  Blair's unsorted reads without a limit    *)
(* drop the offset, and are left out: see README.                          *)
PagesMeet ==
    [][Tables!Follow /\ subject = "tables" /\ answer.rows # <<>>
           /\ (employee = "blair" /\ query.of = "shop" => query.sorted \/ query.limit # 0) =>
       IF answer'.rows = <<>>
       THEN Last(answer.rows) = IF query.sorted THEN 1 ELSE matched
       ELSE IF query.sorted THEN Head(answer'.rows) >= Last(answer.rows) - 1
       ELSE Head(answer'.rows) = Last(answer.rows) + 1]_vars

(* Blair's tables: whatever was read, filtered and joined to make them,    *)
(* when both sides of a comparison call themselves complete, a group said  *)
(* to be gone is really gone.                                              *)
GoneIsGone ==
    employee = "blair" =>
        \A left, right \in Names :
            LET told == Tables!Compare(left, right)
            IN  told.left = "yes" /\ told.right = "yes" =>
                    told.gone = tables[left].whole \ tables[right].whole

(* The overviews of angel and blair: of two whole windows, with nothing in *)
(* between, the shapes called new are those the window before had not.     *)
NoveltyIsReal == report.complete /\ report.alone => report.new = report.truth

(* Angel's datasets, as shop.get has them: "Saved without it, a dataset    *)
(* built from a capped read looked exactly like one built from a whole     *)
(* table", so the one that says it is complete is the whole.               *)
DatasetsAreWhole ==
    \A name \in Names : tables[name].complete = "yes" => tables[name].rows = tables[name].whole
=============================================================================
