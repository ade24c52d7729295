--------------------------- MODULE EvidenceProofs ---------------------------
(***************************************************************************)
(* What the tools of angel, blair and charlie say of rows and lines they   *)
(* did not bring, for any size of a page, of a fetch, of the resource and  *)
(* of the log, and any limits asked for.                                   *)
(***************************************************************************)
EXTENDS Evidence, SequenceTheorems, TLAPS

-----------------------------------------------------------------------------
(* Pages: rows that follow one another in the order of their resource      *)

(* The row at a position of a resource of so many rows.  A page is empty   *)
(* only behind the last of them.                                           *)
RowAt(n, total, sorted) == IF sorted THEN total + 1 - n ELSE n

IsPage(rows, from, total, sorted) ==
    /\ rows \in Seq(Nat)
    /\ \A i \in 1 .. Len(rows) : rows[i] = RowAt(from + i, total, sorted)
    /\ IF rows = <<>> THEN from >= total ELSE from + Len(rows) <= total

LEMMA CutIs ==
    ASSUME NEW rows \in Seq(Nat), NEW offset \in Nat, NEW count \in Nat
    PROVE  /\ Tables!Cut(rows, offset, count) \in Seq(Nat)
           /\ Len(Tables!Cut(rows, offset, count)) =
                IF Len(rows) <= offset THEN 0
                ELSE IF offset + count < Len(rows) THEN count ELSE Len(rows) - offset
           /\ \A i \in 1 .. Len(Tables!Cut(rows, offset, count)) :
                Tables!Cut(rows, offset, count)[i] = rows[offset + i]
<1> DEFINE upTo == Tables!Least(offset + count, Len(rows))
<1>1. /\ upTo \in Nat /\ upTo <= Len(rows)
      /\ upTo = IF offset + count < Len(rows) THEN offset + count ELSE Len(rows)
  BY DEF Tables!Least
<1>2. Tables!Cut(rows, offset, count) = SubSeq(rows, offset + 1, upTo)
  BY DEF Tables!Cut
<1> HIDE DEF upTo
<1>3. /\ SubSeq(rows, offset + 1, upTo) \in Seq(Nat)
      /\ Len(SubSeq(rows, offset + 1, upTo)) =
            IF offset + 1 <= upTo THEN upTo - (offset + 1) + 1 ELSE 0
      /\ \A i \in 1 .. upTo - (offset + 1) + 1 :
            SubSeq(rows, offset + 1, upTo)[i] = rows[offset + 1 + i - 1]
  BY <1>1, SubSeqProperties
<1> QED
  BY <1>1, <1>2, <1>3

(* A part of a page is a page, further on.                                 *)
LEMMA CutIsPage ==
    ASSUME NEW rows, NEW from \in Nat, NEW total \in Nat, NEW sorted \in BOOLEAN,
           IsPage(rows, from, total, sorted), NEW offset \in Nat, NEW count \in Nat,
           offset = 0 \/ from + Len(rows) >= total, count # 0 \/ total = 0
    PROVE  IsPage(Tables!Cut(rows, offset, count), from + offset, total, sorted)
<1> DEFINE cut == Tables!Cut(rows, offset, count)
<1>1. /\ cut \in Seq(Nat) /\ rows \in Seq(Nat)
      /\ Len(cut) = IF Len(rows) <= offset THEN 0
                    ELSE IF offset + count < Len(rows) THEN count ELSE Len(rows) - offset
      /\ \A i \in 1 .. Len(cut) : cut[i] = rows[offset + i]
  BY CutIs DEF IsPage
<1> HIDE DEF cut
<1>2. \A i \in 1 .. Len(cut) : cut[i] = RowAt(from + offset + i, total, sorted)
  <2> SUFFICES ASSUME NEW i \in 1 .. Len(cut)
               PROVE  cut[i] = RowAt(from + offset + i, total, sorted)
    OBVIOUS
  <2>1. offset + i \in 1 .. Len(rows)
    BY <1>1
  <2>2. rows[offset + i] = RowAt(from + (offset + i), total, sorted)
    BY <2>1 DEF IsPage
  <2>3. from + (offset + i) = from + offset + i
    BY <1>1
  <2> QED
    BY <1>1, <2>2, <2>3
<1>3. IF cut = <<>> THEN from + offset >= total ELSE from + offset + Len(cut) <= total
  <2>1. CASE Len(cut) = 0
    <3>1. cut = <<>> /\ Len(rows) \in Nat
      BY <1>1, <2>1, EmptySeq, LenProperties
    <3>2. Len(rows) <= offset \/ count = 0
      BY <1>1, <2>1, <3>1
    <3>3. rows = <<>> => from >= total
      BY DEF IsPage
    <3>4. Len(rows) = 0 => rows = <<>>
      BY <1>1, EmptySeq
    <3> QED
      BY <3>1, <3>2, <3>3, <3>4
  <2>2. CASE Len(cut) # 0
    <3>1. Len(rows) # 0 /\ offset + Len(cut) <= Len(rows) /\ cut # <<>>
      BY <1>1, <2>2
    <3>2. from + Len(rows) <= total
      BY <3>1 DEF IsPage
    <3>3. Len(rows) \in Nat /\ Len(cut) \in Nat
      BY <1>1, LenProperties
    <3> QED
      BY <3>1, <3>2, <3>3
  <2> QED
    BY <2>1, <2>2
<1> QED
  BY <1>1, <1>2, <1>3 DEF IsPage, cut

LEMMA ArrangedIsPage ==
    ASSUME matched \in Nat, NEW sorted \in BOOLEAN
    PROVE  /\ IsPage(Tables!Arranged(sorted), 0, matched, sorted)
           /\ Len(Tables!Arranged(sorted)) = matched
<1> DEFINE rows == Tables!Arranged(sorted)
<1>1. rows = [n \in 1 .. matched |-> IF sorted THEN matched + 1 - n ELSE n]
  BY DEF Tables!Arranged, Tables!Whole
<1>2. rows \in Seq(Nat) /\ Len(rows) = matched
  BY <1>1
<1>3. \A i \in 1 .. Len(rows) : rows[i] = RowAt(0 + i, matched, sorted)
  BY <1>1, <1>2 DEF RowAt
<1>4. IF rows = <<>> THEN 0 >= matched ELSE 0 + Len(rows) <= matched
  BY <1>2
<1> QED
  BY <1>2, <1>3, <1>4 DEF IsPage

-----------------------------------------------------------------------------
(* Envelopes: each shows a page, says where the rest begins, and is only   *)
(* called complete when nothing is left behind it                          *)

Tells(said, from, sorted) ==
    /\ said.from = from
    /\ IsPage(said.rows, from, matched, sorted)
    /\ said.next \in {Tables!Nowhere, from + Len(said.rows)}
    /\ said.complete = "yes" => from + Len(said.rows) >= matched

LEMMA ShownIsPage ==
    ASSUME NEW rows, NEW from \in Nat, NEW total \in Nat, NEW sorted \in BOOLEAN,
           IsPage(rows, from, total, sorted)
    PROVE  /\ IsPage(Tables!Cut(rows, 0, PageRows), from, total, sorted)
           /\ Len(Tables!Cut(rows, 0, PageRows)) =
                IF PageRows < Len(rows) THEN PageRows ELSE Len(rows)
<1>1. PageRows \in Nat /\ PageRows # 0 /\ rows \in Seq(Nat) /\ Len(rows) \in Nat
  BY EvidenceBounds, LenProperties DEF IsPage
<1>2. IsPage(Tables!Cut(rows, 0, PageRows), from + 0, total, sorted)
  BY <1>1, CutIsPage
<1>3. from + 0 = from
  OBVIOUS
<1>4. Len(Tables!Cut(rows, 0, PageRows)) =
        IF PageRows < Len(rows) THEN PageRows ELSE Len(rows)
  <2>1. Len(Tables!Cut(rows, 0, PageRows)) =
            IF Len(rows) <= 0 THEN 0
            ELSE IF 0 + PageRows < Len(rows) THEN PageRows ELSE Len(rows) - 0
    BY <1>1, CutIs
  <2> QED
    BY <1>1, <2>1
<1> QED
  BY <1>2, <1>3, <1>4

LEMMA UnknownTells ==
    ASSUME matched \in Nat, NEW rows, NEW from \in Nat, NEW sorted \in BOOLEAN,
           IsPage(rows, from, matched, sorted)
    PROVE  Tells(Tables!Unknown(rows, from), from, sorted)
BY DEF Tells, Tables!Unknown

LEMMA CountedTells ==
    ASSUME matched \in Nat, NEW rows, NEW from \in Nat, NEW sorted \in BOOLEAN,
           IsPage(rows, from, matched, sorted), NEW total \in Nat, total >= matched
    PROVE  Tells(Tables!Counted(rows, from, total), from, sorted)
<1> DEFINE shown == Tables!Cut(rows, 0, PageRows)
<1>1. IsPage(shown, from, matched, sorted) /\ Len(shown) \in Nat
  BY ShownIsPage, LenProperties DEF IsPage
<1> HIDE DEF shown
<1>2. Tables!Counted(rows, from, total) =
        [rows |-> shown, from |-> from,
         complete |-> IF from + Len(shown) >= total THEN "yes" ELSE "no", total |-> total,
         next |-> IF from + Len(shown) >= total THEN Tables!Nowhere ELSE from + Len(shown)]
  BY DEF Tables!Counted, shown
<1> QED
  BY <1>1, <1>2 DEF Tells

LEMMA TruncatedTells ==
    ASSUME matched \in Nat, NEW rows, NEW from \in Nat, NEW sorted \in BOOLEAN,
           IsPage(rows, from, matched, sorted), Len(rows) > PageRows
    PROVE  Tells(Tables!Truncated(rows, from), from, sorted)
<1> DEFINE shown == Tables!Cut(rows, 0, PageRows)
<1>1. IsPage(shown, from, matched, sorted) /\ Len(shown) = PageRows
  BY ShownIsPage
<1> HIDE DEF shown
<1>2. Tables!Truncated(rows, from) =
        [rows |-> shown, from |-> from, complete |-> "no", total |-> Len(rows),
         next |-> from + PageRows]
  BY DEF Tables!Truncated, shown
<1> QED
  BY <1>1, <1>2 DEF Tells

LEMMA WindowTells ==
    ASSUME matched \in Nat, NEW rows, NEW from \in Nat, NEW sorted \in BOOLEAN,
           IsPage(rows, from, matched, sorted), NEW capped \in BOOLEAN,
           ~capped => from + Len(rows) >= matched
    PROVE  Tells(Tables!Window(rows, from, capped), from, sorted)
<1>1. CASE capped
  <2>1. Tables!Window(rows, from, capped) =
            Tables!Unknown(Tables!Cut(rows, 0, PageRows), from)
    BY <1>1 DEF Tables!Window
  <2> QED
    BY <2>1, ShownIsPage, UnknownTells
<1>2. CASE ~capped /\ Len(rows) > PageRows
  BY <1>2, TruncatedTells DEF Tables!Window
<1>3. CASE ~capped /\ ~(Len(rows) > PageRows)
  BY <1>3 DEF Tables!Window, Tables!Untouched, Tells
<1> QED
  BY <1>1, <1>2, <1>3

-----------------------------------------------------------------------------
(* The reads of the three employees                                        *)

Questions ==
    {q \in [of : {"shop", "analytics"}, sorted : BOOLEAN, limit : Nat, offset : Nat] :
        q.of = "analytics" => ~q.sorted}

(* Blair's unsorted read without a limit drops its offset.                 *)
Start(q) ==
    IF employee = "blair" /\ q.of = "shop" /\ ~q.sorted /\ q.limit = 0 THEN 0
    ELSE q.offset

(* Where a total is told it is the number of rows there are: not by        *)
(* charlie, nor by reports read from where the code counts wrong.          *)
TellsTotal(said, q) ==
    \/ said.total \in {Tables!Nowhere, matched}
    \/ employee = "charlie"
    \/ q.of = "analytics" /\ employee = "angel" /\ q.offset # 0
    \/ q.of = "analytics" /\ q.offset > matched

(* The rows from an offset on, as many as were asked for.                  *)
LEMMA RowsFromOffset ==
    ASSUME matched \in Nat, NEW sorted \in BOOLEAN, NEW offset \in Nat, NEW count \in Nat,
           count # 0 \/ matched = 0
    PROVE  LET rows == Tables!Cut(Tables!Arranged(sorted), offset, count)
           IN  /\ IsPage(rows, offset, matched, sorted)
               /\ Len(rows) \in Nat
               /\ count >= matched => /\ offset + Len(rows) >= matched
                                      /\ offset <= matched => offset + Len(rows) = matched
<1>1. /\ IsPage(Tables!Arranged(sorted), 0, matched, sorted)
      /\ Len(Tables!Arranged(sorted)) = matched /\ Tables!Arranged(sorted) \in Seq(Nat)
  BY ArrangedIsPage DEF IsPage
<1>2. IsPage(Tables!Cut(Tables!Arranged(sorted), offset, count), 0 + offset, matched, sorted)
  BY <1>1, CutIsPage
<1>3. 0 + offset = offset
  OBVIOUS
<1> DEFINE rows == Tables!Cut(Tables!Arranged(sorted), offset, count)
<1>4. /\ rows \in Seq(Nat)
      /\ Len(rows) = IF matched <= offset THEN 0
                     ELSE IF offset + count < matched THEN count ELSE matched - offset
  BY <1>1, CutIs
<1> HIDE DEF rows
<1>5. /\ Len(rows) \in Nat
      /\ count >= matched => /\ offset + Len(rows) >= matched
                             /\ offset <= matched => offset + Len(rows) = matched
  BY <1>4
<1> QED
  BY <1>2, <1>3, <1>5 DEF rows

LEMMA AngelTells ==
    ASSUME matched \in Nat, NEW q \in Questions, employee = "angel"
    PROVE  LET said == Tables!ReadOf(q).said
           IN  Tells(said, Start(q), q.sorted) /\ TellsTotal(said, q)
<1> DEFINE count == Tables!Asked(q)
           all == Tables!Arranged(q.sorted)
           some == Tables!Cut(Tables!Arranged(q.sorted), q.offset, count)
<1>0. /\ q.limit \in Nat /\ q.offset \in Nat /\ q.sorted \in BOOLEAN /\ Start(q) = q.offset
      /\ q.of \in {"shop", "analytics"} /\ (q.of = "analytics" => ~q.sorted)
      /\ count \in Nat /\ (count = 0 => q.offset = 0 /\ q.limit = 0)
  BY EvidenceBounds DEF Questions, Start, Tables!Asked
<1>1. /\ IsPage(all, 0, matched, q.sorted) /\ Len(all) = matched
      /\ count # 0 => IsPage(some, q.offset, matched, q.sorted)
  BY <1>0, ArrangedIsPage, RowsFromOffset
<1> HIDE DEF count, all, some
<1>2. CASE q.of = "shop" /\ count = 0
  <2>1. Tables!ReadOf(q).said = IF q.sorted THEN Tables!Counted(all, 0, matched)
                                ELSE Tables!Window(all, 0, FALSE)
    BY <1>2 DEF Tables!ReadOf, Tables!AngelRead, count, all
  <2>2. CASE q.sorted
    <3>1. Tells(Tables!Counted(all, 0, matched), 0, q.sorted)
      BY <1>0, <1>1, CountedTells
    <3>2. Tables!Counted(all, 0, matched).total = matched
      BY DEF Tables!Counted
    <3> QED
      BY <1>0, <1>2, <2>1, <2>2, <3>1, <3>2 DEF TellsTotal
  <2>3. CASE ~q.sorted
    <3>0. 0 + Len(all) >= matched
      BY <1>1
    <3>1. Tells(Tables!Window(all, 0, FALSE), 0, q.sorted)
      BY <1>0, <1>1, <3>0, WindowTells
    <3>2. Tables!Window(all, 0, FALSE).total = matched
      BY <1>1 DEF Tables!Window, Tables!Truncated, Tables!Untouched
    <3> QED
      BY <1>0, <1>2, <2>1, <2>3, <3>1, <3>2 DEF TellsTotal
  <2> QED
    BY <2>2, <2>3
<1>3. CASE q.of = "shop" /\ count # 0
  <2>1. Tables!ReadOf(q).said = IF q.sorted THEN Tables!Counted(some, q.offset, matched)
                                ELSE Tables!Window(some, q.offset, TRUE)
    BY <1>3 DEF Tables!ReadOf, Tables!AngelRead, count, some
  <2>2. CASE q.sorted
    <3>1. Tells(Tables!Counted(some, q.offset, matched), q.offset, q.sorted)
      BY <1>0, <1>1, <1>3, CountedTells
    <3>2. Tables!Counted(some, q.offset, matched).total = matched
      BY DEF Tables!Counted
    <3> QED
      BY <1>0, <2>1, <2>2, <3>1, <3>2 DEF TellsTotal
  <2>3. CASE ~q.sorted
    <3>1. Tells(Tables!Window(some, q.offset, TRUE), q.offset, q.sorted)
      BY <1>0, <1>1, <1>3, WindowTells
    <3>2. Tables!Window(some, q.offset, TRUE).total = Tables!Nowhere
      BY DEF Tables!Window, Tables!Unknown
    <3> QED
      BY <1>0, <2>1, <2>3, <3>1, <3>2 DEF TellsTotal
  <2> QED
    BY <2>2, <2>3
<1>4. CASE q.of = "analytics"
  <2> DEFINE rows == Tables!Reported(q)
  <2>1. /\ Tables!ReadOf(q).said = Tables!Window(rows, q.offset, q.limit # 0)
        /\ rows = Tables!Cut(Tables!Arranged(FALSE), q.offset,
                             IF q.limit = 0 THEN matched ELSE q.limit)
    BY <1>4 DEF Tables!ReadOf, Tables!AngelReport, Tables!Reported
  <2> HIDE DEF rows
  <2>2. /\ IsPage(rows, q.offset, matched, FALSE) /\ Len(rows) \in Nat
        /\ q.limit = 0 => /\ q.offset + Len(rows) >= matched
                          /\ q.offset <= matched => q.offset + Len(rows) = matched
    <3>1. CASE q.limit = 0
      <4>1. rows = Tables!Cut(Tables!Arranged(FALSE), q.offset, matched) /\ matched >= matched
        BY <2>1, <3>1
      <4> QED
        BY <1>0, <4>1, RowsFromOffset
    <3>2. CASE q.limit # 0
      BY <1>0, <2>1, <3>2, RowsFromOffset
    <3> QED
      BY <3>1, <3>2
  <2>3. Tells(Tables!ReadOf(q).said, q.offset, FALSE)
    BY <1>0, <2>1, <2>2, WindowTells
  <2>4. CASE q.limit # 0
    <3>1. Tables!ReadOf(q).said.total = Tables!Nowhere
      BY <2>1, <2>4 DEF Tables!Window, Tables!Unknown
    <3> QED
      BY <1>0, <1>4, <2>3, <3>1 DEF TellsTotal
  <2>5. CASE q.limit = 0
    <3>0. Tables!ReadOf(q).said \in {Tables!Truncated(rows, q.offset),
                                    Tables!Untouched(rows, q.offset)}
      BY <2>1, <2>5 DEF Tables!Window
    <3>1. Tables!ReadOf(q).said.total = Len(rows)
      BY <3>0 DEF Tables!Truncated, Tables!Untouched
    <3>2. q.offset = 0 => Len(rows) = matched
      BY <2>2, <2>5
    <3> QED
      BY <1>0, <1>4, <2>3, <3>1, <3>2 DEF TellsTotal
  <2> QED
    BY <2>4, <2>5
<1> QED
  BY <1>0, <1>2, <1>3, <1>4

LEMMA BlairTells ==
    ASSUME matched \in Nat, NEW q \in Questions, employee = "blair"
    PROVE  LET said == Tables!ReadOf(q).said
           IN  Tells(said, Start(q), q.sorted) /\ TellsTotal(said, q)
<1>0. /\ q.limit \in Nat /\ q.offset \in Nat /\ q.sorted \in BOOLEAN
      /\ q.of \in {"shop", "analytics"} /\ (q.of = "analytics" => ~q.sorted)
  BY DEF Questions
<1>1. CASE q.of = "shop" /\ q.sorted
  <2> DEFINE count == IF q.limit = 0 THEN matched ELSE q.limit
             rows == Tables!Cut(Tables!Arranged(TRUE), q.offset, count)
  <2>1. Tables!ReadOf(q).said = Tables!Counted(rows, q.offset, matched)
    BY <1>1 DEF Tables!ReadOf, Tables!BlairRead
  <2>2. IsPage(rows, q.offset, matched, TRUE) /\ matched >= matched
    <3>1. count \in Nat /\ (count # 0 \/ matched = 0) /\ matched >= matched
      BY <1>0
    <3> HIDE DEF count
    <3> QED
      BY <1>0, <3>1, RowsFromOffset
  <2> HIDE DEF rows
  <2>3. Tells(Tables!Counted(rows, q.offset, matched), q.offset, TRUE)
    BY <1>0, <2>2, CountedTells
  <2>4. Tables!Counted(rows, q.offset, matched).total = matched
    BY DEF Tables!Counted
  <2> QED
    BY <1>0, <1>1, <2>1, <2>3, <2>4 DEF TellsTotal, Start
<1>2. CASE q.of = "shop" /\ ~q.sorted /\ q.limit = 0
  <2> DEFINE rows == Tables!Arranged(FALSE)
  <2>0. q.sorted = FALSE /\ matched >= matched
    BY <1>0, <1>2
  <2>1. Tables!ReadOf(q).said = Tables!Counted(rows, 0, matched)
    BY <1>2, <2>0 DEF Tables!ReadOf, Tables!BlairRead
  <2>2. IsPage(rows, 0, matched, FALSE)
    BY ArrangedIsPage
  <2> HIDE DEF rows
  <2>3. Tells(Tables!Counted(rows, 0, matched), 0, FALSE)
    BY <2>0, <2>2, CountedTells
  <2>4. Tables!Counted(rows, 0, matched).total = matched
    BY DEF Tables!Counted
  <2> QED
    BY <1>0, <1>2, <2>0, <2>1, <2>3, <2>4 DEF TellsTotal, Start
<1>3. CASE q.limit # 0 /\ ~q.sorted
  <2> DEFINE rows == Tables!Cut(Tables!Arranged(FALSE), q.offset, q.limit)
             shown == Tables!Cut(rows, 0, PageRows)
  <2>1. Tables!ReadOf(q).said = Tables!Unknown(shown, q.offset)
    BY <1>0, <1>3 DEF Tables!ReadOf, Tables!BlairRead, Tables!BlairReport, Tables!Reported
  <2>2. IsPage(rows, q.offset, matched, FALSE)
    BY <1>0, <1>3, RowsFromOffset
  <2> HIDE DEF rows
  <2>3. IsPage(shown, q.offset, matched, FALSE)
    BY <1>0, <2>2, ShownIsPage
  <2> HIDE DEF shown
  <2>4. Tells(Tables!Unknown(shown, q.offset), q.offset, FALSE)
    BY <1>0, <2>3, UnknownTells
  <2>5. Tables!Unknown(shown, q.offset).total = Tables!Nowhere
    BY DEF Tables!Unknown
  <2> QED
    BY <1>0, <1>3, <2>1, <2>4, <2>5 DEF TellsTotal, Start
<1>4. CASE q.of = "analytics" /\ q.limit = 0
  <2> DEFINE rows == Tables!Cut(Tables!Arranged(FALSE), q.offset, matched)
             through == q.offset + Len(rows)
  <2>1. Tables!ReadOf(q).said = Tables!Counted(rows, q.offset, through)
    BY <1>4 DEF Tables!ReadOf, Tables!BlairReport, Tables!Reported
  <2>2. /\ IsPage(rows, q.offset, matched, FALSE) /\ through \in Nat
        /\ through >= matched /\ (q.offset <= matched => through = matched)
    <3>1. matched >= matched
      OBVIOUS
    <3>2. /\ IsPage(rows, q.offset, matched, FALSE) /\ Len(rows) \in Nat
          /\ q.offset + Len(rows) >= matched
          /\ q.offset <= matched => q.offset + Len(rows) = matched
      BY <1>0, <3>1, RowsFromOffset
    <3> HIDE DEF rows
    <3>3. through \in Nat /\ through >= matched
      BY <1>0, <3>2
    <3>4. q.offset <= matched => through = matched
      BY <3>2
    <3> QED
      BY <3>2, <3>3, <3>4
  <2> HIDE DEF rows, through
  <2>3. Tells(Tables!Counted(rows, q.offset, through), q.offset, FALSE)
    BY <1>0, <2>2, CountedTells
  <2>4. Tables!Counted(rows, q.offset, through).total = through
    BY DEF Tables!Counted
  <2> QED
    <3>1. q.sorted = FALSE /\ Start(q) = q.offset
      BY <1>0, <1>4 DEF Start
    <3>2. through = matched \/ q.offset > matched
      BY <1>0, <2>2
    <3>3. TellsTotal(Tables!ReadOf(q).said, q)
      BY <1>4, <2>1, <2>4, <3>2 DEF TellsTotal
    <3> QED
      BY <2>1, <2>3, <3>1, <3>3
<1> QED
  BY <1>0, <1>1, <1>2, <1>3, <1>4

LEMMA CharlieTells ==
    ASSUME matched \in Nat, NEW q \in Questions, employee = "charlie", ~q.sorted
    PROVE  LET said == Tables!ReadOf(q).said
           IN  Tells(said, Start(q), q.sorted) /\ TellsTotal(said, q)
<1> DEFINE count == IF q.limit = 0 THEN PageRows ELSE q.limit
           rows == Tables!Cut(Tables!Arranged(FALSE), q.offset, count)
<1>1. q.offset \in Nat /\ count \in Nat \ {0} /\ q.sorted = FALSE /\ Start(q) = q.offset
  BY EvidenceBounds DEF Questions, Start
<1>2. Tables!ReadOf(q).said = Tables!CharlieWindow(rows, q.offset)
  BY DEF Tables!ReadOf, Tables!CharlieRead
<1> HIDE DEF count
<1>3. IsPage(rows, q.offset, matched, FALSE)
  BY <1>1, RowsFromOffset
<1> HIDE DEF rows
<1>4. CASE Len(rows) > PageRows
  BY <1>1, <1>2, <1>3, <1>4, TruncatedTells DEF Tables!CharlieWindow, TellsTotal
<1>5. CASE ~(Len(rows) > PageRows)
  BY <1>1, <1>2, <1>3, <1>5, UnknownTells DEF Tables!CharlieWindow, TellsTotal
<1> QED
  BY <1>4, <1>5

(* Blair saves a table as whole when it holds every row there is.          *)
LEMMA BlairSavesTheWhole ==
    ASSUME matched \in Nat, NEW q \in Questions, employee = "blair",
           Tables!ReadOf(q).complete = "yes"
    PROVE  ToSet(Tables!ReadOf(q).rows) = Tables!Whole
<1>0. q.limit \in Nat /\ q.offset \in Nat /\ q.sorted \in BOOLEAN
      /\ q.of \in {"shop", "analytics"} /\ (q.of = "analytics" => ~q.sorted)
  BY DEF Questions
<1>1. \A rows : IsPage(rows, 0, matched, q.sorted) /\ Len(rows) = matched =>
                    ToSet(rows) = Tables!Whole
  <2> SUFFICES ASSUME NEW rows, IsPage(rows, 0, matched, q.sorted), Len(rows) = matched
               PROVE  ToSet(rows) = 1 .. matched
    BY DEF Tables!Whole
  <2>1. rows \in Seq(Nat) /\ DOMAIN rows = 1 .. matched
    BY DEF IsPage
  <2>2. \A i \in 1 .. matched : rows[i] = IF q.sorted THEN matched + 1 - i ELSE i
    BY <2>1 DEF IsPage, RowAt
  <2>3. \A n \in 1 .. matched : n \in ToSet(rows)
    <3> SUFFICES ASSUME NEW n \in 1 .. matched PROVE n \in ToSet(rows)
      OBVIOUS
    <3>1. CASE q.sorted
      <4>1. matched + 1 - n \in 1 .. matched /\ rows[matched + 1 - n] = n
        BY <2>2, <3>1
      <4> QED
        BY <2>1, <4>1 DEF ToSet
    <3>2. CASE ~q.sorted
      BY <2>1, <2>2, <3>2 DEF ToSet
    <3> QED
      BY <3>1, <3>2
  <2>4. \A n \in ToSet(rows) : n \in 1 .. matched
    BY <1>0, <2>1, <2>2 DEF ToSet
  <2> QED
    BY <2>3, <2>4
<1>2. \A count \in Nat : count >= matched =>
        LET rows == Tables!Cut(Tables!Arranged(q.sorted), 0, count)
        IN  IsPage(rows, 0, matched, q.sorted) /\ Len(rows) = matched
  <2> SUFFICES ASSUME NEW count \in Nat, count >= matched
               PROVE  LET rows == Tables!Cut(Tables!Arranged(q.sorted), 0, count)
                      IN  IsPage(rows, 0, matched, q.sorted) /\ Len(rows) = matched
    OBVIOUS
  <2> DEFINE rows == Tables!Cut(Tables!Arranged(q.sorted), 0, count)
  <2>1. /\ IsPage(rows, 0, matched, q.sorted) /\ Len(rows) \in Nat
        /\ (0 <= matched => 0 + Len(rows) = matched)
    <3>1. count # 0 \/ matched = 0
      OBVIOUS
    <3> QED
      BY <1>0, <3>1, RowsFromOffset
  <2> HIDE DEF rows
  <2>2. Len(rows) = matched
    BY <2>1
  <2> QED
    BY <2>1, <2>2 DEF rows
<1>3. CASE q.of = "shop" /\ ~q.sorted
  <2>1. Tables!ReadOf(q).rows = Tables!Arranged(q.sorted)
    BY <1>3 DEF Tables!ReadOf, Tables!BlairRead
  <2> QED
    BY <1>0, <1>1, <2>1, ArrangedIsPage
<1>4. CASE q.of = "shop" /\ q.sorted
  <2> DEFINE count == IF q.limit = 0 THEN matched ELSE q.limit
  <2>1. /\ Tables!ReadOf(q).rows = Tables!Cut(Tables!Arranged(q.sorted), q.offset, count)
        /\ q.offset = 0 /\ (q.limit = 0 \/ q.limit >= matched)
    BY <1>4 DEF Tables!ReadOf, Tables!BlairRead
  <2>2. count \in Nat /\ count >= matched
    BY <1>0, <2>1
  <2> QED
    BY <1>1, <1>2, <2>1, <2>2
<1>5. CASE q.of = "analytics"
  <2>1. /\ Tables!ReadOf(q).rows = Tables!Cut(Tables!Arranged(q.sorted), q.offset, matched)
        /\ q.offset = 0
    BY <1>0, <1>5 DEF Tables!ReadOf, Tables!BlairReport, Tables!Reported
  <2>2. matched >= matched
    OBVIOUS
  <2> QED
    BY <1>1, <1>2, <2>1, <2>2
<1> QED
  BY <1>0, <1>3, <1>4, <1>5

-----------------------------------------------------------------------------
(* The inductive invariant                                                 *)

TablesType ==
    /\ employee \in {"angel", "blair", "charlie"}
    /\ matched \in Nat
    /\ query \in Questions
    /\ DOMAIN tables = Names

(* The last answer shows a page of the rows there were, at the place it    *)
(* was asked for, and says where the rest begins.                          *)
AnswerShowsAPage ==
    /\ answer.asked \in Nat /\ answer.asked <= matched
    /\ answer.from = Start(query)
    /\ IsPage(answer.rows, answer.from, answer.asked, query.sorted)
    /\ answer.next \in {Tables!Nowhere, answer.from + Len(answer.rows)}

(* A table of blair's that says it is complete is.                         *)
CompleteIsWhole ==
    employee = "blair" =>
        \A name \in Names : tables[name].complete = "yes" =>
                                tables[name].rows = tables[name].whole

TInv == TablesType /\ AnswerShowsAPage /\ ReadsAreHonest /\ CompleteIsWhole

LEMMA StartIsNat == ASSUME NEW q \in Questions PROVE Start(q) \in Nat
BY DEF Start, Questions

LEMMA ReadTells ==
    ASSUME TablesType, NEW q \in Questions, employee = "charlie" => ~q.sorted
    PROVE  LET said == Tables!ReadOf(q).said
           IN  Tells(said, Start(q), q.sorted) /\ TellsTotal(said, q)
BY AngelTells, BlairTells, CharlieTells DEF TablesType

LEMMA TInit == Init => TInv
<1> SUFFICES ASSUME Init PROVE TInv
  OBVIOUS
<1>1. /\ employee \in {"angel", "blair", "charlie"} /\ matched \in Nat
      /\ query = Tables!NoQuery /\ answer = Tables!NoAnswer
      /\ tables = [name \in Names |-> Tables!NoTable]
  BY EvidenceBounds DEF Init, Tables!Init
<1>2. /\ query = [of |-> "shop", sorted |-> FALSE, limit |-> 0, offset |-> 0]
      /\ answer.asked = 0 /\ answer.rows = <<>> /\ answer.from = 0
      /\ answer.complete = "unsaid" /\ answer.total = Tables!Nowhere
      /\ answer.next = Tables!Nowhere
  BY <1>1 DEF Tables!NoQuery, Tables!NoAnswer
<1>3. query \in Questions /\ Start(query) = 0 /\ query.sorted = FALSE
  BY <1>2 DEF Questions, Start
<1>4. IsPage(<<>>, 0, 0, FALSE)
  BY DEF IsPage
<1>5. AnswerShowsAPage
  <2>1. IsPage(answer.rows, answer.from, answer.asked, query.sorted)
    BY <1>2, <1>3, <1>4
  <2>2. answer.asked \in Nat /\ answer.asked <= matched /\ answer.from = Start(query)
    BY <1>1, <1>2, <1>3
  <2> QED
    BY <1>2, <2>1, <2>2 DEF AnswerShowsAPage
<1>6. ReadsAreHonest
  BY <1>2 DEF ReadsAreHonest
<1>7. CompleteIsWhole
  BY <1>1 DEF CompleteIsWhole, Tables!NoTable
<1> QED
  BY <1>1, <1>3, <1>5, <1>6, <1>7 DEF TInv, TablesType

LEMMA ReadStep ==
    ASSUME TInv, NEW q \in Questions, NEW name \in Names \union {NoName},
           Tables!Read(q, name), employee' = employee
    PROVE  TInv'
<1> DEFINE said == Tables!ReadOf(q).said
<1>1. /\ employee = "charlie" => ~q.sorted
      /\ query' = q /\ matched' = matched
      /\ answer' = Tables!Told(said)
  BY DEF Tables!Read
<1>2. TablesType /\ matched \in Nat
  BY DEF TInv, TablesType
<1>3. Tells(said, Start(q), q.sorted) /\ TellsTotal(said, q)
  BY <1>1, <1>2, ReadTells
<1> HIDE DEF said
<1>4. /\ answer'.asked = matched /\ answer'.rows = said.rows /\ answer'.from = said.from
      /\ answer'.complete = said.complete /\ answer'.total = said.total
      /\ answer'.next = said.next
  BY <1>1 DEF Tables!Told
<1>5. Start(q)' = Start(q) /\ Start(q) \in Nat
  BY StartIsNat DEF Start
<1>6. Start(query)' = Start(q)
  BY <1>1 DEF Start
<1>7. AnswerShowsAPage'
  <2>1. IsPage(answer.rows, answer.from, answer.asked, query.sorted)'
    BY <1>1, <1>3, <1>4 DEF Tells, IsPage
  <2> QED
    BY <1>1, <1>2, <1>3, <1>4, <1>6, <2>1 DEF AnswerShowsAPage, Tells
<1>8. ReadsAreHonest'
  BY <1>1, <1>3, <1>4 DEF ReadsAreHonest, Tells, TellsTotal
<1>9. DOMAIN tables' = Names /\ CompleteIsWhole'
  <2>1. CASE name = NoName
    BY <1>2, <2>1 DEF Tables!Read, TInv, CompleteIsWhole, TablesType
  <2>2. CASE name # NoName
    <3>1. /\ tables' = [tables EXCEPT ![name] =
                [rows |-> ToSet(Tables!ReadOf(q).rows),
                 complete |-> Tables!ReadOf(q).complete, whole |-> Tables!Whole]]
          /\ name \in Names
      BY <2>2 DEF Tables!Read, Tables!Save, Tables!ToSet, ToSet
    <3>2. employee = "blair" /\ Tables!ReadOf(q).complete = "yes" =>
            ToSet(Tables!ReadOf(q).rows) = Tables!Whole
      BY <1>2, BlairSavesTheWhole
    <3> QED
      BY <1>2, <3>1, <3>2 DEF TInv, CompleteIsWhole, TablesType
  <2> QED
    BY <2>1, <2>2
<1> QED
  BY <1>1, <1>2, <1>7, <1>8, <1>9 DEF TInv, TablesType

LEMMA NextQuestion ==
    ASSUME TInv, Tables!Follow
    PROVE  /\ [query EXCEPT !.offset = answer.next] \in Questions
           /\ Tables!Read([query EXCEPT !.offset = answer.next], NoName)
           /\ answer.next \in Nat
<1>1. answer.next \in Nat
  BY EvidenceBounds DEF Tables!Follow
<1> QED
  BY <1>1 DEF Tables!Follow, TInv, TablesType, Questions

(* What is made of tables that say they are complete, and are.             *)
LEMMA CombineStep ==
    ASSUME TInv, NEW left \in Names, NEW right \in Names, NEW into \in Names,
           NEW rows, NEW whole, employee' = employee,
           tables[left].rows = tables[left].whole /\ tables[right].rows = tables[right].whole
                => rows = whole,
           Tables!Save(into, rows,
                Tables!CombineComplete(tables[left].complete, tables[right].complete), whole),
           UNCHANGED <<matched, query, answer>>
    PROVE  TInv'
<1>1. tables' = [tables EXCEPT ![into] =
        [rows |-> rows, whole |-> whole, complete |->
            Tables!CombineComplete(tables[left].complete, tables[right].complete)]]
  BY DEF Tables!Save
<1>2. employee = "blair" /\
        Tables!CombineComplete(tables[left].complete, tables[right].complete) = "yes" =>
            rows = whole
  BY DEF Tables!CombineComplete, TInv, CompleteIsWhole
<1>3. CompleteIsWhole' /\ DOMAIN tables' = Names
  BY <1>1, <1>2 DEF TInv, CompleteIsWhole, TablesType
<1> QED
  BY <1>3 DEF TInv, TablesType, AnswerShowsAPage, ReadsAreHonest, IsPage, Start

LEMMA TStep == TInv /\ [Next]_vars => TInv'
<1> SUFFICES ASSUME TInv, [Next]_vars PROVE TInv'
  OBVIOUS
<1>1. CASE UsesTables
  <2>0. employee' = employee
    BY <1>1 DEF UsesTables
  <2>1. CASE Tables!Arrive
    <3>1. /\ matched' = matched + 1 /\ UNCHANGED <<employee, query, answer, tables>>
      BY <2>0, <2>1 DEF Tables!Arrive
    <3> QED
      BY <3>1 DEF TInv, TablesType, AnswerShowsAPage, ReadsAreHonest, CompleteIsWhole,
                  IsPage, Start
  <2>2. ASSUME NEW q \in Tables!Queries, NEW name \in Names \union {NoName},
               Tables!Read(q, name)
        PROVE  TInv'
    <3>1. q \in Questions
      <4>1. /\ q \in [of : {"shop", "analytics"}, sorted : BOOLEAN, limit : Limits,
                       offset : 0 .. MaxMatched - 1]
            /\ q.of = "analytics" => ~q.sorted
        BY DEF Tables!Queries
      <4>2. 0 .. MaxMatched - 1 \subseteq Nat /\ Limits \subseteq Nat
        BY EvidenceBounds
      <4>3. q \in [of : {"shop", "analytics"}, sorted : BOOLEAN, limit : Nat, offset : Nat]
        BY <4>1, <4>2
      <4> QED
        BY <4>1, <4>3 DEF Questions
    <3> QED
      BY <2>0, <2>2, <3>1, ReadStep
  <2>3. CASE Tables!Follow
    BY <2>0, <2>3, NextQuestion, ReadStep
  <2>4. ASSUME NEW name \in Names, NEW into \in Names, Tables!Filter(name, into)
        PROVE  TInv'
    <3>1. tables[name].rows = tables[name].whole =>
            Tables!Meets(tables[name].rows) = Tables!Meets(tables[name].whole)
      OBVIOUS
    <3> QED
      BY <2>0, <2>4, <3>1, CombineStep DEF Tables!Filter
  <2>5. ASSUME NEW left \in Names, NEW right \in Names, NEW into \in Names,
               NEW how \in {"inner", "left", "anti"}, Tables!Join(left, right, how, into)
        PROVE  TInv'
    <3>1. tables[left].rows = tables[left].whole /\ tables[right].rows = tables[right].whole =>
            Tables!Merged(tables[left].rows, tables[right].rows, how) =
                Tables!Merged(tables[left].whole, tables[right].whole, how)
      OBVIOUS
    <3> QED
      BY <2>0, <2>5, <3>1, CombineStep DEF Tables!Join
  <2> QED
    BY <1>1, <2>1, <2>2, <2>3, <2>4, <2>5 DEF UsesTables, Tables!Next
<1>2. CASE UsesLogs \/ UNCHANGED vars
  <2>1. UNCHANGED <<employee, matched, query, answer, tables>>
    BY <1>2 DEF UsesLogs, vars
  <2> QED
    BY <2>1 DEF TInv, TablesType, AnswerShowsAPage, ReadsAreHonest, CompleteIsWhole,
                IsPage, Start
<1> QED
  BY <1>1, <1>2 DEF Next

-----------------------------------------------------------------------------
(* Logs: a comparison that calls itself complete had both windows whole    *)

LogsType ==
    /\ now \in Nat /\ now <= MaxNow
    /\ log \in [0 .. MaxNow - 1 -> Seq(Shapes)]
    /\ DOMAIN overview = {"anchor", "seen", "complete", "alone", "whole"}
    /\ overview.anchor \in Int /\ overview.anchor <= now

(* While nothing comes between the two fetches, the clock stands still for *)
(* angel and the file for blair; a first fetch that was whole has seen     *)
(* every shape of its window.                                              *)
NothingBetween ==
    overview.anchor # -1 /\ overview.complete /\ overview.alone =>
        /\ overview.anchor \in Nat
        /\ overview.seen = overview.whole
        /\ employee = "angel" => overview.anchor = now
        /\ employee = "blair" => Logs!ShapesOf(kept) = overview.whole

LInv ==
    /\ subject = "logs" => employee \in {"angel", "blair"}
    /\ LogsType
    /\ NothingBetween
    /\ NoveltyIsReal

LEMMA WindowIsSeq ==
    ASSUME LogsType, NEW until \in Int, until <= now
    PROVE  Logs!Window(until) \in Seq(Shapes)
<1>1. MaxNow \in Nat
  BY EvidenceBounds
<1>2. CASE until > 0
  <2>1. until - 1 \in 0 .. MaxNow - 1
    BY <1>1, <1>2 DEF LogsType
  <2> QED
    BY <1>2, <2>1 DEF Logs!Window, LogsType
<1>3. CASE ~(until > 0)
  BY <1>3 DEF Logs!Window
<1> QED
  BY <1>2, <1>3

(* A fetch that stays under its ceiling has brought the whole window.      *)
LEMMA CompleteFetchIsWhole ==
    ASSUME LogsType, NEW until \in Int, until <= now, Logs!Fetched(until).complete
    PROVE  Logs!Fetched(until).lines = Logs!Window(until)
<1> DEFINE lines == Logs!Window(until)
<1>1. FetchLines \in Nat /\ lines \in Seq(Shapes) /\ Len(lines) \in Nat
  BY EvidenceBounds, WindowIsSeq, LenProperties
<1>2. /\ Logs!Fetched(until).lines = Logs!Newest(lines)
      /\ Len(Logs!Newest(lines)) < FetchLines
  BY DEF Logs!Fetched
<1> HIDE DEF lines
<1>3. SUFFICES ASSUME ~(Len(lines) <= FetchLines) PROVE FALSE
  BY <1>2 DEF Logs!Newest, lines
<1>4. Logs!Newest(lines) = SubSeq(lines, Len(lines) - FetchLines + 1, Len(lines))
  BY <1>3 DEF Logs!Newest
<1>5. /\ Len(lines) - FetchLines + 1 \in Int
      /\ \A i \in Len(lines) - FetchLines + 1 .. Len(lines) : lines[i] \in Shapes
  BY <1>1, <1>3, ElementOfSeq
<1>6. Len(SubSeq(lines, Len(lines) - FetchLines + 1, Len(lines))) =
        IF Len(lines) - FetchLines + 1 <= Len(lines)
        THEN Len(lines) - (Len(lines) - FetchLines + 1) + 1 ELSE 0
  BY <1>1, <1>5, SubSeqProperties
<1>7. Len(SubSeq(lines, Len(lines) - FetchLines + 1, Len(lines))) = FetchLines
  BY EvidenceBounds, <1>1, <1>6
<1> QED
  BY <1>1, <1>2, <1>4, <1>7

LEMMA LInit == Init => LInv
<1> SUFFICES ASSUME Init PROVE LInv
  OBVIOUS
<1>1. /\ log = [window \in 0 .. MaxNow - 1 |-> <<>>] /\ now = 0 /\ MaxNow \in Nat
      /\ overview.anchor = -1 /\ ~report.complete
      /\ DOMAIN overview = {"anchor", "seen", "complete", "alone", "whole"}
  BY EvidenceBounds DEF Init, Logs!Init, Logs!NoOverview, Logs!NoReport
<1>2. LogsType
  BY <1>1 DEF LogsType
<1>3. subject = "logs" => employee \in {"angel", "blair"}
  BY EvidenceBounds DEF Init
<1> QED
  BY <1>1, <1>2, <1>3 DEF LInv, NothingBetween, NoveltyIsReal

LEMMA LogsStep ==
    ASSUME LInv, UsesLogs
    PROVE  LInv'
<1>0. /\ LogsType /\ NothingBetween /\ NoveltyIsReal /\ MaxNow \in Nat
      /\ employee \in {"angel", "blair"} /\ UNCHANGED <<employee, subject>>
  BY EvidenceBounds DEF LInv, UsesLogs
<1> SUFFICES LogsType' /\ NothingBetween' /\ NoveltyIsReal'
  BY <1>0 DEF LInv
<1>1. ASSUME NEW shape \in Shapes, Logs!Log(shape) PROVE LogsType' /\ NothingBetween' /\ NoveltyIsReal'
  <2>1. /\ log' = [log EXCEPT ![now] = Append(@, shape)] /\ now < MaxNow
        /\ UNCHANGED <<now, kept, overview, report>>
    BY <1>1 DEF Logs!Log
  <2>2. now \in 0 .. MaxNow - 1 /\ log[now] \in Seq(Shapes)
    BY <1>0, <2>1 DEF LogsType
  <2>3. LogsType'
    BY <1>0, <2>1, <2>2 DEF LogsType
  <2> QED
    BY <1>0, <2>1, <2>3 DEF NothingBetween, NoveltyIsReal, Logs!ShapesOf
<1>2. CASE Logs!TimePasses
  <2>1. /\ now < MaxNow /\ now' = now + 1 /\ UNCHANGED <<log, kept, report>>
        /\ overview' = [overview EXCEPT !.alone = @ /\ employee # "angel"]
    BY <1>2 DEF Logs!TimePasses
  <2>2. /\ overview'.anchor = overview.anchor /\ overview'.complete = overview.complete
        /\ overview'.seen = overview.seen /\ overview'.whole = overview.whole
        /\ overview'.alone => overview.alone /\ employee # "angel"
        /\ DOMAIN overview' = DOMAIN overview
    <3> DEFINE alone == overview.alone /\ employee # "angel"
    <3>1. overview' = [overview EXCEPT !.alone = alone]
      BY <2>1
    <3> HIDE DEF alone
    <3>2. /\ overview'.anchor = overview.anchor /\ overview'.complete = overview.complete
          /\ overview'.seen = overview.seen /\ overview'.whole = overview.whole
          /\ overview'.alone = alone /\ DOMAIN overview' = DOMAIN overview
      BY <1>0, <3>1 DEF LogsType
    <3> QED
      BY <3>2 DEF alone
  <2>3. LogsType'
    BY <1>0, <2>1, <2>2 DEF LogsType
  <2> QED
    BY <1>0, <2>1, <2>2, <2>3 DEF NothingBetween, NoveltyIsReal, Logs!ShapesOf
<1>3. CASE Logs!Search
  <2>1. /\ UNCHANGED <<log, now, report>>
        /\ overview' = [overview EXCEPT !.alone = @ /\ employee # "blair"]
    BY <1>3 DEF Logs!Search
  <2>2. /\ overview'.anchor = overview.anchor /\ overview'.complete = overview.complete
        /\ overview'.seen = overview.seen /\ overview'.whole = overview.whole
        /\ overview'.alone => overview.alone /\ employee # "blair"
        /\ DOMAIN overview' = DOMAIN overview
    <3> DEFINE alone == overview.alone /\ employee # "blair"
    <3>1. overview' = [overview EXCEPT !.alone = alone]
      BY <2>1
    <3> HIDE DEF alone
    <3>2. /\ overview'.anchor = overview.anchor /\ overview'.complete = overview.complete
          /\ overview'.seen = overview.seen /\ overview'.whole = overview.whole
          /\ overview'.alone = alone /\ DOMAIN overview' = DOMAIN overview
      BY <1>0, <3>1 DEF LogsType
    <3> QED
      BY <3>2 DEF alone
  <2>3. LogsType'
    BY <1>0, <2>1, <2>2 DEF LogsType
  <2> QED
    BY <1>0, <2>1, <2>2, <2>3 DEF NothingBetween, NoveltyIsReal
<1>4. CASE Logs!OverviewNow
  <2> DEFINE current == Logs!Fetched(now)
  <2>1. /\ UNCHANGED <<log, now, report>> /\ kept' = current.lines /\ overview.anchor = -1
        /\ \/ UNCHANGED overview
           \/ overview' = [anchor |-> now, seen |-> Logs!ShapesOf(current.lines),
                           complete |-> current.complete, alone |-> TRUE,
                           whole |-> Logs!ShapesOf(Logs!Window(now))]
    BY <1>4 DEF Logs!OverviewNow, Logs!UnderWay
  <2>2. current.complete => current.lines = Logs!Window(now)
    BY <1>0, CompleteFetchIsWhole DEF LogsType
  <2> HIDE DEF current
  <2>3. CASE UNCHANGED overview
    BY <1>0, <2>1, <2>3 DEF LogsType, NothingBetween, NoveltyIsReal
  <2>4. CASE overview' = [anchor |-> now, seen |-> Logs!ShapesOf(current.lines),
                          complete |-> current.complete, alone |-> TRUE,
                          whole |-> Logs!ShapesOf(Logs!Window(now))]
    <3>1. /\ overview'.anchor = now /\ overview'.seen = Logs!ShapesOf(current.lines)
          /\ overview'.complete = current.complete
          /\ overview'.whole = Logs!ShapesOf(Logs!Window(now))
          /\ DOMAIN overview' = {"anchor", "seen", "complete", "alone", "whole"}
      BY <2>4
    <3>2. LogsType'
      BY <1>0, <2>1, <3>1 DEF LogsType
    <3>3. Logs!ShapesOf(kept)' = Logs!ShapesOf(current.lines)
      BY <2>1 DEF Logs!ShapesOf
    <3>4. NothingBetween'
      BY <1>0, <2>1, <2>2, <3>1, <3>3 DEF NothingBetween, LogsType
    <3> QED
      BY <1>0, <2>1, <3>2, <3>4 DEF NoveltyIsReal
  <2> QED
    BY <2>1, <2>3, <2>4
<1>5. CASE Logs!OverviewBefore
  <2> DEFINE until == (IF employee = "angel" THEN now ELSE overview.anchor) - 1
             before == Logs!Fetched(until)
             seen == IF employee = "angel" THEN overview.seen ELSE Logs!ShapesOf(kept)
  <2>1. /\ overview.anchor # -1 /\ UNCHANGED <<log, now, kept>>
        /\ overview' = Logs!NoOverview
        /\ report' = [new |-> seen \ Logs!ShapesOf(before.lines),
                      complete |-> overview.complete /\ before.complete,
                      alone |-> overview.alone,
                      truth |-> overview.whole \ Logs!ShapesOf(Logs!Window(overview.anchor - 1))]
    BY <1>5 DEF Logs!OverviewBefore, Logs!UnderWay
  <2>2. until \in Int /\ until <= now
    BY <1>0 DEF LogsType
  <2>3. before.complete => before.lines = Logs!Window(until)
    BY <1>0, <2>2, CompleteFetchIsWhole
  <2>4. overview.complete /\ overview.alone => until = overview.anchor - 1 /\ seen = overview.whole
    BY <1>0, <2>1 DEF NothingBetween
  <2> HIDE DEF until, before, seen
  <2>5. NoveltyIsReal'
    BY <2>1, <2>3, <2>4 DEF NoveltyIsReal
  <2>6. /\ overview'.anchor = -1
        /\ DOMAIN overview' = {"anchor", "seen", "complete", "alone", "whole"}
    BY <2>1 DEF Logs!NoOverview
  <2> QED
    BY <1>0, <2>1, <2>5, <2>6 DEF LogsType, NothingBetween
<1>6. CASE Logs!OverviewAlone
  <2>1. /\ overview'.anchor = -1 /\ UNCHANGED <<log, now, kept, report>>
        /\ DOMAIN overview' = {"anchor", "seen", "complete", "alone", "whole"}
    BY <1>6 DEF Logs!OverviewAlone, Logs!NoOverview
  <2> QED
    BY <1>0, <2>1 DEF LogsType, NothingBetween, NoveltyIsReal
<1> QED
  BY <1>1, <1>2, <1>3, <1>4, <1>5, <1>6 DEF UsesLogs, Logs!Next

LEMMA LStep == LInv /\ [Next]_vars => LInv'
<1> SUFFICES ASSUME LInv, UsesTables \/ UNCHANGED vars PROVE LInv'
  BY LogsStep DEF Next
<1>1. UNCHANGED <<employee, subject, log, now, kept, overview, report>>
  BY DEF UsesTables, vars
<1> QED
  BY <1>1 DEF LInv, LogsType, NothingBetween, NoveltyIsReal, Logs!ShapesOf

-----------------------------------------------------------------------------
LEMMA TAlways == Spec => []TInv
BY TInit, TStep, PTL DEF Spec

(* Every bounded read of angel, of blair and of charlie, at any limit and  *)
(* offset: complete means that nothing is left behind, and a total that is *)
(* told is the number of rows there are (bounded.py and shop.py of the     *)
(* three).                                                                 *)
THEOREM ReadsAreHonestAlways == Spec => []ReadsAreHonest
<1>1. TInv => ReadsAreHonest
  BY DEF TInv
<1> QED
  BY TAlways, <1>1, PTL

(* Whatever blair reads, filters and joins, and however the results are    *)
(* saved over one another: the groups that a comparison of two tables that *)
(* both say they are complete calls gone are gone (tools/tables.py).       *)
THEOREM WhatIsGoneIsGone == Spec => []GoneIsGone
<1>1. TInv => GoneIsGone
  BY DEF TInv, CompleteIsWhole, GoneIsGone, Tables!Compare, Tables!Said, Tables!Grouped
<1> QED
  BY TAlways, <1>1, PTL

(* A shape that an overview calls new, between two windows that it fetched *)
(* whole and with nothing in between, was not in the window before,        *)
(* whatever the ceiling of a fetch (tools/logs.py of angel and of blair).  *)
THEOREM WhatIsNewIsNew == Spec => []NoveltyIsReal
<1>1. LInv => NoveltyIsReal
  BY DEF LInv
<1> QED
  BY LInit, LStep, <1>1, PTL DEF Spec

LEMMA PagesMeetStep ==
    ASSUME TInv, Tables!Follow, answer.rows # <<>>, employee' = employee,
           employee = "blair" /\ query.of = "shop" => query.sorted \/ query.limit # 0
    PROVE  IF answer'.rows = <<>>
           THEN Last(answer.rows) = IF query.sorted THEN 1 ELSE matched
           ELSE IF query.sorted THEN Head(answer'.rows) >= Last(answer.rows) - 1
           ELSE Head(answer'.rows) = Last(answer.rows) + 1
<1> DEFINE next == [query EXCEPT !.offset = answer.next]
           said == Tables!ReadOf(next).said
           from == answer.next
<1>1. /\ next \in Questions /\ Tables!Read(next, NoName) /\ from \in Nat
      /\ next.offset = from /\ next.sorted = query.sorted /\ next.of = query.of
      /\ next.limit = query.limit /\ query.sorted \in BOOLEAN /\ matched \in Nat
  BY NextQuestion DEF TInv, TablesType, Questions
<1>2. /\ answer.asked \in Nat /\ answer.asked <= matched /\ answer.from \in Nat
      /\ IsPage(answer.rows, answer.from, answer.asked, query.sorted)
      /\ from = answer.from + Len(answer.rows)
  BY <1>1, StartIsNat DEF TInv, TablesType, AnswerShowsAPage, Tables!Nowhere
<1> HIDE DEF next
<1>3. answer'.rows = said.rows /\ (employee = "charlie" => ~next.sorted)
  BY <1>1 DEF Tables!Read, Tables!Told
<1>4. Start(next) = from
  BY <1>1 DEF Start
<1>5. IsPage(answer'.rows, from, matched, query.sorted)
  BY <1>1, <1>3, <1>4, ReadTells DEF Tells, TInv
<1> HIDE DEF said, from
<1>6. /\ answer.rows \in Seq(Nat) /\ Len(answer.rows) \in Nat /\ Len(answer.rows) # 0
      /\ from <= answer.asked
  BY <1>2, LenProperties, EmptySeq DEF IsPage
<1>7. Last(answer.rows) = IF query.sorted THEN answer.asked + 1 - from ELSE from
  <2>1. Len(answer.rows) \in 1 .. Len(answer.rows)
    BY <1>6
  <2>2. answer.rows[Len(answer.rows)] =
            RowAt(answer.from + Len(answer.rows), answer.asked, query.sorted)
    BY <1>2, <2>1 DEF IsPage
  <2> QED
    BY <1>2, <2>2 DEF Last, RowAt
<1>8. CASE answer'.rows = <<>>
  <2>1. from >= matched
    BY <1>5, <1>8 DEF IsPage
  <2>2. from = matched /\ answer.asked = matched
    BY <1>1, <1>2, <1>6, <2>1
  <2> QED
    BY <1>1, <1>7, <1>8, <2>2
<1>9. CASE answer'.rows # <<>>
  <2>1. answer'.rows \in Seq(Nat) /\ 1 \in 1 .. Len(answer'.rows)
    BY <1>5, <1>9, LenProperties, EmptySeq DEF IsPage
  <2>2. Head(answer'.rows) = RowAt(from + 1, matched, query.sorted)
    BY <1>5, <2>1 DEF IsPage
  <2> QED
    BY <1>1, <1>2, <1>6, <1>7, <1>9, <2>2 DEF RowAt
<1> QED
  BY <1>8, <1>9

(* Whoever follows next_offset, while rows keep coming, misses none of     *)
(* them, in either order and with any limit (query_params of tools/shop.py *)
(* repeats a limit when it must).                                          *)
THEOREM FollowingMissesNothing == Spec => PagesMeet
<1>1. TInv /\ [Next]_vars =>
        [Tables!Follow /\ subject = "tables" /\ answer.rows # <<>>
           /\ (employee = "blair" /\ query.of = "shop" => query.sorted \/ query.limit # 0) =>
         IF answer'.rows = <<>>
         THEN Last(answer.rows) = IF query.sorted THEN 1 ELSE matched
         ELSE IF query.sorted THEN Head(answer'.rows) >= Last(answer.rows) - 1
         ELSE Head(answer'.rows) = Last(answer.rows) + 1]_vars
  <2>1. [Next]_vars => employee' = employee
    BY DEF Next, UsesTables, UsesLogs, vars
  <2> QED
    BY <2>1, PagesMeetStep
<1> QED
  BY TAlways, <1>1, PTL DEF Spec, PagesMeet
=============================================================================
