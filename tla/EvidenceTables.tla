--------------------------- MODULE EvidenceTables ---------------------------
(***************************************************************************)
(* What an employee's tools say of rows they did not bring: reads of the   *)
(* shop that are bounded, paged and saved, and tables made of tables.      *)
(* Angel's tools (dana's are the same), blair's and charlie's, which are   *)
(* three programs for one contract: a partial answer never reads as the    *)
(* whole.                                                                  *)
(*                                                                         *)
(* A resource holds the rows 1..matched, which are their own join keys.  A *)
(* sort over more rows than SORT_MAX_ROWS, an unknown field and an         *)
(* unreadable condition are refused, change nothing and are left out.      *)
(***************************************************************************)
EXTENDS Integers, Sequences, FiniteSets, SequencesExt

CONSTANTS
    Names,          \* the names tables are saved under
    NoName,         \* a read that is not saved
    PageRows,       \* MAX_ROWS, the rows one answer shows
    MaxMatched,     \* bound: rows of the resource
    Limits          \* bound: limits asked for, 0 for none

VARIABLES
    employee,       \* whose tools they are
    matched,        \* the rows of the resource
    query,          \* the last read that was asked
    answer,         \* its envelope, and the rows there were when it was asked
    tables          \* the saved tables: their rows, what they say of themselves,
                    \* and the rows they would have if every read had been whole

Whole == 1 .. matched
Completeness == {"yes", "no", "unknown", "unsaid"}

(* A limit of 0 is none for the shop, and asks the analytics for every     *)
(* row; what those cap when none is asked for is left out.                 *)
Queries ==
    {q \in [of : {"shop", "analytics"}, sorted : BOOLEAN, limit : Limits,
            offset : 0 .. MaxMatched - 1] :
        q.of = "analytics" => ~q.sorted /\ employee # "charlie"}

NoQuery == [of |-> "shop", sorted |-> FALSE, limit |-> 0, offset |-> 0]

Nowhere == -1
NoAnswer == [asked |-> 0, rows |-> <<>>, from |-> 0, complete |-> "unsaid",
             total |-> Nowhere, next |-> Nowhere]
NoTable == [rows |-> {}, complete |-> "absent", whole |-> {}]

Init ==
    /\ matched \in 0 .. MaxMatched
    /\ query = NoQuery
    /\ answer = NoAnswer
    /\ tables = [name \in Names |-> NoTable]

(* Another row comes to the resource, the newest of all.                   *)
Arrive ==
    /\ matched < MaxMatched
    /\ matched' = matched + 1
    /\ UNCHANGED <<query, answer, tables>>

-----------------------------------------------------------------------------
(* Envelopes                                                               *)

Least(a, b) == IF a < b THEN a ELSE b
Cut(rows, offset, count) == SubSeq(rows, offset + 1, Least(offset + count, Len(rows)))

(* The order rows come in: by id, or as they were sorted, newest first.    *)
Arranged(sorted) ==
    [n \in Whole |-> IF sorted THEN matched + 1 - n ELSE n]

Unknown(shown, offset) ==
    [rows |-> shown, from |-> offset, complete |-> "unknown", total |-> Nowhere,
     next |-> offset + Len(shown)]

(* The whole set was in hand and has been sliced: the count is genuine.    *)
Counted(rows, offset, total) ==
    LET shown == Cut(rows, 0, PageRows)
        through == offset + Len(shown)
    IN  [rows |-> shown, from |-> offset,
         complete |-> IF through >= total THEN "yes" ELSE "no", total |-> total,
         next |-> IF through >= total THEN Nowhere ELSE through]

Truncated(rows, offset) ==
    [rows |-> Cut(rows, 0, PageRows), from |-> offset, complete |-> "no",
     total |-> Len(rows), next |-> offset + PageRows]

Untouched(rows, offset) ==
    [rows |-> rows, from |-> offset, complete |-> "yes", total |-> Len(rows),
     next |-> Nowhere]

(* Mutant: what was cut here is counted before it is asked who capped it.  *)
WindowCountedFirst(rows, offset, capped) ==
    IF Len(rows) > PageRows THEN Truncated(rows, offset)
    ELSE IF capped THEN Unknown(Cut(rows, 0, PageRows), offset)
    ELSE Untouched(rows, offset)

(* Angel's window: what the shop was asked to cap has no count.            *)
Window(rows, offset, capped) ==
    IF capped THEN Unknown(Cut(rows, 0, PageRows), offset)
    ELSE IF Len(rows) > PageRows THEN Truncated(rows, offset)
    ELSE Untouched(rows, offset)

(* Charlie's, who asks the other question first.                           *)
CharlieWindow(rows, offset) ==
    IF Len(rows) > PageRows THEN Truncated(rows, offset) ELSE Unknown(rows, offset)

-----------------------------------------------------------------------------
(* Reads: the rows that came, what is said of them, and of their table     *)

(* Mutant: an offset without a limit is not sent.                          *)
AskedAlone(q) == q.limit

(* query_params: an offset can only be sent with a count.                  *)
Asked(q) == IF q.limit = 0 /\ q.offset # 0 THEN PageRows ELSE q.limit

AngelRead(q) ==
    LET count == Asked(q)
        rows == IF count = 0 THEN Arranged(q.sorted)
                ELSE Cut(Arranged(q.sorted), q.offset, count)
        from == IF count = 0 THEN 0 ELSE q.offset
        said == IF q.sorted THEN Counted(rows, from, matched)
                ELSE Window(rows, from, count # 0)
    IN  [rows |-> rows, said |-> said, complete |-> said.complete]

(* Blair sorts, and slices, what the shop sent whole; an offset alone is   *)
(* only honoured there.                                                    *)
BlairRead(q) ==
    LET every == Arranged(q.sorted)
    IN  IF q.sorted
        THEN LET rows == Cut(every, q.offset, IF q.limit = 0 THEN matched ELSE q.limit)
             IN  [rows |-> rows, said |-> Counted(rows, q.offset, matched),
                  complete |-> IF q.offset = 0 /\ (q.limit = 0 \/ q.limit >= matched)
                               THEN "yes" ELSE "no"]
        ELSE IF q.limit # 0
        THEN LET rows == Cut(every, q.offset, q.limit)
             IN  [rows |-> rows, said |-> Unknown(Cut(rows, 0, PageRows), q.offset),
                  complete |-> "unknown"]
        ELSE [rows |-> every, said |-> Counted(every, 0, matched), complete |-> "yes"]

CharlieRead(q) ==
    LET rows == Cut(Arranged(FALSE), q.offset, IF q.limit = 0 THEN PageRows ELSE q.limit)
    IN  [rows |-> rows, said |-> CharlieWindow(rows, q.offset), complete |-> "unsaid"]

(* The rows of a report from the offset on: angel forgets the offset when  *)
(* the total is told, blair does not.                                      *)
Reported(q) == Cut(Arranged(FALSE), q.offset, IF q.limit = 0 THEN matched ELSE q.limit)

AngelReport(q) ==
    LET said == Window(Reported(q), q.offset, q.limit # 0)
    IN  [rows |-> Reported(q), said |-> said, complete |-> said.complete]

BlairReport(q) ==
    LET rows == Reported(q)
    IN  IF q.limit = 0
        THEN [rows |-> rows, said |-> Counted(rows, q.offset, q.offset + Len(rows)),
              complete |-> IF q.offset = 0 THEN "yes" ELSE "no"]
        ELSE [rows |-> rows, said |-> Unknown(Cut(rows, 0, PageRows), q.offset),
              complete |-> "unknown"]

ReadOf(q) ==
    CASE employee = "angel" -> IF q.of = "analytics" THEN AngelReport(q) ELSE AngelRead(q)
      [] employee = "blair" -> IF q.of = "analytics" THEN BlairReport(q) ELSE BlairRead(q)
      [] employee = "charlie" -> CharlieRead(q)

(* A table of that name is written over.                                   *)
Save(name, rows, complete, whole) ==
    tables' = [tables EXCEPT ![name] =
                  [rows |-> rows, complete |-> complete, whole |-> whole]]

(* An envelope, beside the rows there were.                                *)
Told(said) ==
    [asked |-> matched, rows |-> said.rows, from |-> said.from,
     complete |-> said.complete, total |-> said.total, next |-> said.next]

Read(q, name) ==
    LET read == ReadOf(q)
    IN  /\ employee = "charlie" => ~q.sorted /\ name = NoName
        /\ q.of = "analytics" /\ employee = "angel" => name = NoName
        /\ query' = q
        /\ answer' = Told(read.said)
        /\ IF name = NoName THEN UNCHANGED tables
           ELSE Save(name, ToSet(read.rows), read.complete, Whole)
        /\ UNCHANGED matched

(* The caller goes on where the envelope says the rest begins.             *)
Follow ==
    /\ answer.next \in 0 .. MaxMatched
    /\ Read([query EXCEPT !.offset = answer.next], NoName)

-----------------------------------------------------------------------------
(* Tables of tables                                                        *)

There(name) == tables[name].complete # "absent"

(* Mutant: a table is as complete as the better known of its two sources.  *)
CombineEither(left, right) ==
    IF "yes" \in {left, right} THEN "yes" ELSE "unknown"

(* Blair's tables are as complete as what they are made of; what angel's   *)
(* are made of is not said.                                                *)
CombineComplete(left, right) ==
    IF employee # "blair" THEN "unsaid"
    ELSE IF "no" \in {left, right} THEN "no"
    ELSE IF left = "yes" /\ right = "yes" THEN "yes"
    ELSE "unknown"

(* A condition, that some rows meet.                                       *)
Meets(rows) == {r \in rows : r % 2 = 1}

Filter(name, into) ==
    /\ There(name)
    /\ Save(into, Meets(tables[name].rows),
            CombineComplete(tables[name].complete, tables[name].complete),
            Meets(tables[name].whole))
    /\ UNCHANGED <<matched, query, answer>>

Merged(left, right, how) ==
    CASE how = "inner" -> left \intersect right
      [] how = "left" -> left
      [] how = "anti" -> left \ right

Join(left, right, how, into) ==
    /\ There(left) /\ There(right)
    /\ Save(into, Merged(tables[left].rows, tables[right].rows, how),
            CombineComplete(tables[left].complete, tables[right].complete),
            Merged(tables[left].whole, tables[right].whole, how))
    /\ UNCHANGED <<matched, query, answer>>

(* The groups of a table and their measures: here, each row is its own.    *)
Grouped(name) == tables[name].rows

(* What goes with them: blair's say how complete their table is.           *)
Said(name) == IF employee = "blair" THEN tables[name].complete ELSE "unsaid"

(* Two tables side by side: the groups that only the first has, all of     *)
(* them, and what each says of itself.                                     *)
Compare(left, right) ==
    [gone |-> Grouped(left) \ Grouped(right), left |-> Said(left), right |-> Said(right)]

Next ==
    \/ Arrive
    \/ \E q \in Queries, name \in Names \union {NoName} : Read(q, name)
    \/ Follow
    \/ \E name, into \in Names : Filter(name, into)
    \/ \E left, right, into \in Names, how \in {"inner", "left", "anti"} :
           Join(left, right, how, into)
=============================================================================
