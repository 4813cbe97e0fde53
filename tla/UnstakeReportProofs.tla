------------------------ MODULE UnstakeReportProofs ------------------------
(***************************************************************************)
(* Proof that the paging skips nothing, for any history, any size of       *)
(* page and any window, and however the history grows during the reading.  *)
(***************************************************************************)
EXTENDS UnstakeReport, FiniteSetTheorems, TLAPS

Kinds == {"unstake", "unstake_wsol", "other"}

Reports ==
    [stage : {"paging", "done"}, before : Nat, until : Nat, batchSize : Nat \ {0},
     rows : Seq(Nat), unserved : SUBSET Nat, top : Nat]

ReportTypeOK ==
    /\ history \in Seq([kind : Kinds, err : BOOLEAN])
    /\ report \in {Idle} \cup Reports

(* Where the part of the window that is still to be read ends: a page's    *)
(* oldest transaction is the next page's cursor, and there is none at      *)
(* first, nor when nothing is left to read.                                *)
Cursor ==
    IF report.stage = "done" THEN report.until + 1
    ELSE IF report.before = Undefined THEN report.top
    ELSE report.before

(* The rows so far are those of the part of the window that was read.      *)
RowsAreRead ==
    /\ NewestFirst(report.rows)
    /\ \A i \in Places :
          /\ i \in DOMAIN history /\ i > report.until /\ i >= Cursor
          /\ IsRow(i) /\ ~history[i].err
    /\ \A i \in InWindow :
          i >= Cursor /\ IsRow(i) /\ ~history[i].err =>
              i \in report.unserved \/ i \in Places

ReportInv ==
    /\ ReportTypeOK
    /\ report.stage # "idle" => RowsAreRead /\ report.top <= Len(history) + 1
    /\ report.stage = "paging" =>
          /\ report.before = Undefined => report.rows = <<>>
          /\ report.before # Undefined => report.before \in DOMAIN history

-----------------------------------------------------------------------------
(* Lemmas on lists and pages.                                              *)

(* A list of a set of places has all of them.                              *)
LEMMA ListsAll ==
    ASSUME NEW S \in SUBSET Nat, IsFiniteSet(S), NEW rows \in SetToSeqs(S)
    PROVE  rows \in Seq(Nat) /\ {rows[k] : k \in DOMAIN rows} = S
<1> DEFINE n == Cardinality(S)
<1>1. n \in Nat
  BY FS_CardinalityType
<1>2. rows \in [1 .. n -> S] /\ \A i, j \in 1 .. n : i # j => rows[i] # rows[j]
  BY DEF SetToSeqs
<1>3. rows \in Injection(1 .. n, S)
  BY <1>2 DEF Injection, IsInjective
<1>4. Cardinality(1 .. n) = n
  BY <1>1, FS_Interval
<1>5. rows \in Surjection(1 .. n, S)
  BY <1>3, <1>4, FS_Injection
<1> HIDE DEF n
<1>6. rows \in Seq(Nat) /\ DOMAIN rows = 1 .. n
  <2>1. rows \in [1 .. n -> Nat]
    BY <1>2
  <2> QED BY <1>1, <2>1
<1> QED BY <1>5, <1>6 DEF Surjection

(* What is newer comes first, also where two lists are joined.             *)
LEMMA JoinedLists ==
    ASSUME NEW a \in Seq(Nat), NEW b \in Seq(Nat), NewestFirst(a), NewestFirst(b),
           \A j \in DOMAIN a, k \in DOMAIN b : a[j] > b[k]
    PROVE  /\ a \o b \in Seq(Nat) /\ NewestFirst(a \o b)
           /\ {(a \o b)[k] : k \in DOMAIN (a \o b)}
              = {a[k] : k \in DOMAIN a} \cup {b[k] : k \in DOMAIN b}
<1> DEFINE c == a \o b
<1>1. /\ c \in Seq(Nat) /\ Len(c) = Len(a) + Len(b)
      /\ Len(a) \in Nat /\ Len(b) \in Nat
      /\ DOMAIN a = 1 .. Len(a) /\ DOMAIN b = 1 .. Len(b) /\ DOMAIN c = 1 .. Len(c)
  OBVIOUS
<1>2. \A k \in 1 .. Len(c) : c[k] = IF k <= Len(a) THEN a[k] ELSE b[k - Len(a)]
  OBVIOUS
<1> HIDE DEF c
<1>3. NewestFirst(c)
  <2> SUFFICES ASSUME NEW j \in 1 .. Len(c), NEW k \in 1 .. Len(c), j < k
               PROVE  c[j] > c[k]
    BY <1>1 DEF NewestFirst
  <2>1. CASE k <= Len(a)
    <3>1. j \in DOMAIN a /\ k \in DOMAIN a
      BY <1>1, <2>1
    <3>2. c[j] = a[j] /\ c[k] = a[k]
      BY <1>1, <1>2, <2>1
    <3> QED BY <3>1, <3>2 DEF NewestFirst
  <2>2. CASE j <= Len(a) /\ k > Len(a)
    <3>1. k - Len(a) \in DOMAIN b /\ j \in DOMAIN a
      BY <1>1, <2>2
    <3> QED BY <1>2, <2>2, <3>1
  <2>3. CASE j > Len(a)
    <3>1. j - Len(a) \in DOMAIN b /\ k - Len(a) \in DOMAIN b /\ j - Len(a) < k - Len(a)
      BY <1>1, <2>3
    <3>2. c[j] = b[j - Len(a)] /\ c[k] = b[k - Len(a)]
      BY <1>1, <1>2, <2>3
    <3> QED BY <3>1, <3>2 DEF NewestFirst
  <2> QED BY <1>1, <2>1, <2>2, <2>3
<1>4. \A k \in DOMAIN a : k \in 1 .. Len(c) /\ c[k] = a[k]
  BY <1>1, <1>2
<1>5. \A k \in DOMAIN b : k + Len(a) \in 1 .. Len(c) /\ c[k + Len(a)] = b[k]
  <2> SUFFICES ASSUME NEW k \in DOMAIN b
               PROVE  k + Len(a) \in 1 .. Len(c) /\ c[k + Len(a)] = b[k]
    OBVIOUS
  <2>1. /\ k + Len(a) \in 1 .. Len(c) /\ ~(k + Len(a) <= Len(a))
        /\ k + Len(a) - Len(a) = k
    BY <1>1
  <2> QED BY <1>2, <2>1
<1>6. \A k \in 1 .. Len(c) : k \in DOMAIN a \/ k - Len(a) \in DOMAIN b
  BY <1>1
<1>7. {c[k] : k \in 1 .. Len(c)}
      = {a[k] : k \in DOMAIN a} \cup {b[k] : k \in DOMAIN b}
  <2>1. \A k \in 1 .. Len(c) : k \notin DOMAIN a => c[k] = b[k - Len(a)]
    BY <1>1, <1>2
  <2>2. ASSUME NEW k \in 1 .. Len(c)
        PROVE  (\E i \in DOMAIN a : c[k] = a[i]) \/ (\E i \in DOMAIN b : c[k] = b[i])
    BY <1>4, <1>6, <2>1
  <2>3. ASSUME NEW k \in DOMAIN a PROVE \E i \in 1 .. Len(c) : c[i] = a[k]
    BY <1>4
  <2>4. ASSUME NEW k \in DOMAIN b PROVE \E i \in 1 .. Len(c) : c[i] = b[k]
    BY <1>5
  <2>5. {c[k] : k \in 1 .. Len(c)}
        \subseteq {a[k] : k \in DOMAIN a} \cup {b[k] : k \in DOMAIN b}
    BY <2>2
  <2>6. {a[k] : k \in DOMAIN a} \subseteq {c[k] : k \in 1 .. Len(c)}
    BY <2>3
  <2>7. {b[k] : k \in DOMAIN b} \subseteq {c[k] : k \in 1 .. Len(c)}
    BY <2>4
  <2> QED BY <2>5, <2>6, <2>7
<1> QED BY <1>1, <1>3, <1>7 DEF c

(* A page ends the reading exactly if it reaches the end of the window.    *)
Newest(until, last, size) == {i \in until + 1 .. last : i > last - size}

LEMMA PageBounds ==
    ASSUME NEW until \in Nat, NEW last \in Nat, NEW size \in Nat \ {0}
    PROVE  LET page == Newest(until, last, size)
           IN  /\ IsFiniteSet(page) /\ page \in SUBSET Nat
               /\ Cardinality(page) = size =>
                     /\ last - size + 1 > until /\ Min(page) = last - size + 1
                     /\ page = last - size + 1 .. last
               /\ Cardinality(page) # size => page = until + 1 .. last
<1> DEFINE page == Newest(until, last, size)
<1> DEFINE first == last - size + 1
<1>1. first \in Int /\ last - first + 1 = size /\ ~(first > last) /\ first <= last
  OBVIOUS
<1>2. /\ IsFiniteSet(first .. last)
      /\ Cardinality(first .. last) = IF first > last THEN 0 ELSE last - first + 1
  BY <1>1, FS_Interval
<1>3. /\ IsFiniteSet(until + 1 .. last)
      /\ Cardinality(until + 1 .. last)
         = IF until + 1 > last THEN 0 ELSE last - (until + 1) + 1
  <2>1. until + 1 \in Int /\ last \in Int
    OBVIOUS
  <2> QED BY <2>1, FS_Interval
<1>4. CASE first > until
  <2>1. page = first .. last
    BY <1>1, <1>4 DEF Newest
  <2>2. Cardinality(page) = size /\ IsFiniteSet(page)
    BY <1>1, <1>2, <2>1
  <2> HIDE DEF first
  <2>3. Min(page) = first
    <3>1. first \in page /\ \A y \in page : y \in Int /\ first <= y
      BY <1>1, <2>1
    <3>2. \A x \in page : (\A y \in page : x <= y) => x = first
      BY <1>1, <3>1
    <3> QED BY <3>1, <3>2, Zenon DEF Min
  <2>4. page \in SUBSET Nat
    BY <1>4, <1>1, <2>1
  <2> QED BY <1>4, <2>1, <2>2, <2>3, <2>4 DEF first
<1>5. CASE ~(first > until)
  <2>1. page = until + 1 .. last
    BY <1>5 DEF Newest
  <2>2. IF until + 1 > last THEN size # 0 ELSE size # last - (until + 1) + 1
    BY <1>5
  <2>3. IsFiniteSet(page) /\ Cardinality(page) # size
    BY <1>3, <2>1, <2>2
  <2>4. page \in SUBSET Nat
    BY <2>1
  <2> QED BY <2>1, <2>3, <2>4
<1> QED BY <1>4, <1>5

-----------------------------------------------------------------------------
(* The steps.                                                              *)

(* The pool goes on working: what is in the history stays where it is.     *)
LEMMA HistoryGrows ==
    ASSUME ReportInv, report' = report,
           \/ history' = history
           \/ \E kind \in Kinds, err \in BOOLEAN : Happened(kind, err)
    PROVE  ReportInv'
<1>1. history \in Seq([kind : Kinds, err : BOOLEAN]) /\ Len(history) \in Nat
  BY DEF ReportInv, ReportTypeOK
<1>2. /\ history' \in Seq([kind : Kinds, err : BOOLEAN])
      /\ Len(history) <= Len(history') /\ Len(history') \in Nat
      /\ \A i \in 1 .. Len(history) : history'[i] = history[i]
  <2>1. CASE history' = history
    BY <1>1, <2>1
  <2>2. ASSUME NEW kind \in Kinds, NEW err \in BOOLEAN, Happened(kind, err)
        PROVE  /\ history' \in Seq([kind : Kinds, err : BOOLEAN])
               /\ Len(history) <= Len(history') /\ Len(history') \in Nat
               /\ \A i \in 1 .. Len(history) : history'[i] = history[i]
    <3>1. /\ history' = Append(history, [kind |-> kind, err |-> err])
          /\ [kind |-> kind, err |-> err] \in [kind : Kinds, err : BOOLEAN]
      BY <2>2 DEF Happened
    <3> QED BY <1>1, <3>1
  <2> QED BY <2>1, <2>2
<1>3. DOMAIN history = 1 .. Len(history) /\ DOMAIN history' = 1 .. Len(history')
  BY <1>1, <1>2
<1>4. ReportTypeOK'
  BY <1>2 DEF ReportInv, ReportTypeOK
<1>5. report.stage # "idle" => RowsAreRead' /\ report.top <= Len(history') + 1
  <2> SUFFICES ASSUME report.stage # "idle"
               PROVE  RowsAreRead' /\ report.top <= Len(history') + 1
    OBVIOUS
  <2>1. /\ report.until \in Nat /\ report.top \in Nat
        /\ report.top <= Len(history) + 1 /\ RowsAreRead
    BY DEF ReportInv, ReportTypeOK, Idle, Reports
  <2>2. \A i \in InWindow : i \in DOMAIN history
    BY <1>1, <1>3, <2>1 DEF InWindow
  <2>3. \A i \in DOMAIN history : history'[i] = history[i] /\ i \in DOMAIN history'
    BY <1>1, <1>2, <1>3
  <2>4. Places' = Places /\ Cursor' = Cursor /\ InWindow' = InWindow
    BY DEF Places, Cursor, InWindow
  <2>5. \A i \in DOMAIN history : IsRow(i)' <=> IsRow(i)
    BY <2>3 DEF IsRow
  <2> HIDE DEF Places
  <2>6. NewestFirst(report.rows)'
    BY <2>1 DEF RowsAreRead, NewestFirst
  <2>7. \A i \in Places' :
          /\ i \in DOMAIN history' /\ i > report'.until /\ i >= Cursor'
          /\ IsRow(i)' /\ ~history'[i].err
    BY <2>1, <2>3, <2>4, <2>5 DEF RowsAreRead
  <2>8. \A i \in InWindow' :
          i >= Cursor' /\ IsRow(i)' /\ ~history'[i].err =>
              i \in report'.unserved \/ i \in Places'
    BY <2>1, <2>2, <2>3, <2>4, <2>5 DEF RowsAreRead
  <2> QED BY <1>1, <1>2, <2>1, <2>6, <2>7, <2>8 DEF RowsAreRead
<1>6. report.stage = "paging" /\ report.before # Undefined => report.before \in DOMAIN history'
  BY <1>1, <1>2, <1>3 DEF ReportInv
<1> QED BY <1>4, <1>5, <1>6 DEF ReportInv

LEMMA ReportStarts ==
    ASSUME ReportInv, NEW before \in {Undefined} \cup DOMAIN history,
           NEW until \in {Undefined} \cup DOMAIN history, NEW size \in BatchSizes,
           StartReport(before, until, size)
    PROVE  ReportInv'
<1>1. /\ history \in Seq([kind : Kinds, err : BOOLEAN]) /\ Len(history) \in Nat
      /\ DOMAIN history = 1 .. Len(history) /\ history' = history
  BY DEF ReportInv, ReportTypeOK, StartReport
<1> DEFINE top == IF before = Undefined THEN Len(history) + 1 ELSE before
<1>2. /\ before \in Nat /\ until \in Nat /\ size \in Nat \ {0}
      /\ top \in Nat /\ top <= Len(history) + 1
      /\ before # Undefined => before \in DOMAIN history
  BY <1>1, BatchSizesAssumption DEF Undefined
<1>3. report' = [stage |-> "paging", before |-> before, until |-> until,
                 batchSize |-> size, rows |-> <<>>, unserved |-> {}, top |-> top]
  BY DEF StartReport
<1> HIDE DEF top
<1>4. ReportTypeOK'
  BY <1>1, <1>2, <1>3 DEF ReportTypeOK, Reports
<1>5. before # Undefined => top = before
  BY DEF top
<1>6. Cursor' = top /\ Places' = {} /\ InWindow' = until + 1 .. top - 1
  BY <1>2, <1>3, <1>5 DEF Cursor, Places, InWindow
<1>7. RowsAreRead'
  BY <1>2, <1>3, <1>6 DEF RowsAreRead, NewestFirst
<1> QED BY <1>1, <1>2, <1>3, <1>4, <1>7 DEF ReportInv

(* A page adds the rows between the old cursor and the new one.            *)
LEMMA PageRead == ASSUME ReportInv, ReadPage PROVE ReportInv'
<1>1. /\ history \in Seq([kind : Kinds, err : BOOLEAN]) /\ Len(history) \in Nat
      /\ DOMAIN history = 1 .. Len(history) /\ history' = history
      /\ report \in Reports /\ report.stage = "paging"
  BY DEF ReportInv, ReportTypeOK, ReadPage, Idle
<1>2. /\ report.before \in Nat /\ report.until \in Nat /\ report.batchSize \in Nat \ {0}
      /\ report.rows \in Seq(Nat) /\ report.unserved \in SUBSET Nat /\ report.top \in Nat
      /\ report.top <= Len(history) + 1
      /\ report.before = Undefined => report.rows = <<>>
      /\ report.before # Undefined => report.before \in DOMAIN history
      /\ RowsAreRead
  BY <1>1 DEF Reports, ReportInv
<1> DEFINE last == IF report.before = Undefined THEN Len(history) ELSE report.before - 1
           until == report.until
           page == Page
<1>3. last \in Nat /\ last <= Len(history)
  BY <1>1, <1>2 DEF Undefined
<1>4. page = {i \in until + 1 .. last : i > last - report.batchSize}
  BY DEF Page
<1>5. PICK unserved \in SUBSET Succeeded(page) :
        \E rows \in SetToSeqs({i \in Succeeded(page) \ unserved : IsRow(i)}) :
            /\ NewestFirst(rows)
            /\ report' = [report EXCEPT
                   !.stage = IF HasMore(page) THEN "paging" ELSE "done",
                   !.before = NextBefore(page),
                   !.unserved = @ \cup unserved,
                   !.rows = @ \o rows]
  BY DEF ReadPage
<1> DEFINE shown == {i \in Succeeded(page) \ unserved : IsRow(i)}
<1>6. PICK rows \in SetToSeqs(shown) :
        /\ NewestFirst(rows)
        /\ report' = [report EXCEPT
               !.stage = IF HasMore(page) THEN "paging" ELSE "done",
               !.before = NextBefore(page),
               !.unserved = @ \cup unserved,
               !.rows = @ \o rows]
  BY <1>5
<1> HIDE DEF last, page
<1> DEFINE size == report.batchSize
           from == IF HasMore(page) THEN last - size + 1 ELSE until + 1
<1>7. until \in Nat /\ last \in Nat /\ size \in Nat \ {0}
  BY <1>2, <1>3
<1> HIDE DEF until, size
<1>8. /\ IsFiniteSet(page) /\ page \in SUBSET Nat
      /\ Cardinality(page) = size =>
            /\ last - size + 1 > until /\ Min(page) = last - size + 1
            /\ page = last - size + 1 .. last
      /\ Cardinality(page) # size => page = until + 1 .. last
  <2>1. page = Newest(until, last, size)
    BY <1>4 DEF until, size, Newest
  <2> QED BY <1>7, <2>1, PageBounds
<1>9. /\ from \in Nat /\ from > until /\ page = from .. last
      /\ HasMore(page) => from \in page /\ NextBefore(page) = from
      /\ HasMore(page) => from <= last
  <2>1. CASE HasMore(page)
    <3>1. Cardinality(page) = size
      BY <2>1 DEF HasMore, size
    <3>2. from = last - size + 1 /\ Min(page) = from /\ from > until /\ page = from .. last
      BY <1>8, <2>1, <3>1
    <3>3. from \in Nat /\ from <= last
      BY <1>7, <3>2
    <3>4. from \in page
      BY <1>7, <3>2, <3>3
    <3>5. NextBefore(page) = from
      BY <3>2, <3>4 DEF NextBefore
    <3> QED BY <3>2, <3>3, <3>4, <3>5
  <2>2. CASE ~HasMore(page)
    <3>1. Cardinality(page) # size
      BY <2>2 DEF HasMore, size
    <3> QED BY <1>7, <1>8, <2>2, <3>1
  <2> QED BY <2>1, <2>2
<1>10. shown \in SUBSET Nat /\ IsFiniteSet(shown)
  <2>1. shown \in SUBSET page
    BY DEF Succeeded
  <2> QED BY <1>8, <2>1, FS_Subset
<1>11. rows \in Seq(Nat) /\ {rows[k] : k \in DOMAIN rows} = shown
  BY <1>6, <1>10, ListsAll
<1> HIDE DEF from
<1>12. /\ report'.stage = (IF HasMore(page) THEN "paging" ELSE "done")
       /\ report'.before = NextBefore(page) /\ report'.unserved = report.unserved \cup unserved
       /\ report'.rows = report.rows \o rows
       /\ report'.until = until /\ report'.top = report.top
       /\ report'.batchSize = report.batchSize
  BY <1>1, <1>6 DEF Reports, until
<1>13. report.before # Undefined => Cursor = report.before /\ report.before = last + 1
  BY <1>1, <1>2 DEF Cursor, last
<1>14. report.before = Undefined \/ \A i \in Places : i > last
  BY <1>1, <1>2, <1>3, <1>13 DEF RowsAreRead
<1>15. \A i \in shown : i \in Nat /\ i <= last /\ from <= i /\ IsRow(i) /\ ~history[i].err
  BY <1>7, <1>9 DEF Succeeded
<1>16. \A j \in DOMAIN report.rows, k \in DOMAIN rows : report.rows[j] > rows[k]
  <2> SUFFICES ASSUME NEW j \in DOMAIN report.rows, NEW k \in DOMAIN rows
               PROVE  report.rows[j] > rows[k]
    OBVIOUS
  <2>1. rows[k] \in shown
    BY <1>11
  <2>2. rows[k] \in Nat /\ rows[k] <= last
    BY <1>15, <2>1
  <2>3. report.before # Undefined /\ report.rows[j] \in Places
    BY <1>2 DEF Places
  <2>4. report.rows[j] > last /\ report.rows[j] \in Nat
    BY <1>2, <1>14, <2>3
  <2> QED BY <1>3, <2>2, <2>4
<1>17. /\ report'.rows \in Seq(Nat) /\ NewestFirst(report'.rows)
       /\ Places' = Places \cup shown
  <2> DEFINE a == report.rows
             b == rows
  <2>1. /\ a \in Seq(Nat) /\ b \in Seq(Nat) /\ NewestFirst(a) /\ NewestFirst(b)
        /\ \A j \in DOMAIN a, k \in DOMAIN b : a[j] > b[k]
    BY <1>2, <1>6, <1>11, <1>16 DEF RowsAreRead
  <2>2. Places = {a[k] : k \in DOMAIN a} /\ report'.rows = a \o b
    BY <1>12 DEF Places
  <2>3. Places' = {(a \o b)[k] : k \in DOMAIN (a \o b)}
    BY <1>12 DEF Places
  <2>4. {b[k] : k \in DOMAIN b} = shown
    BY <1>11
  <2> HIDE DEF a, b, shown
  <2>5. /\ a \o b \in Seq(Nat) /\ NewestFirst(a \o b)
        /\ {(a \o b)[k] : k \in DOMAIN (a \o b)}
           = {a[k] : k \in DOMAIN a} \cup {b[k] : k \in DOMAIN b}
    BY <2>1, JoinedLists
  <2> QED BY <2>2, <2>3, <2>4, <2>5
<1>18. report' \in Reports
  <2>1. NextBefore(page) \in Nat
    <3>1. CASE HasMore(page)
      BY <1>9, <3>1
    <3>2. CASE page = {}
      BY <3>2 DEF NextBefore, Undefined
    <3>3. CASE page # {}
      <4>1. from \in page /\ \A y \in page : y \in Int /\ from <= y
        BY <1>7, <1>9, <3>3
      <4>2. \A x \in page : (\A y \in page : x <= y) => x = from
        BY <1>8, <4>1
      <4>3. Min(page) = from
        BY <4>1, <4>2, Zenon DEF Min
      <4> QED BY <1>9, <3>3, <4>3 DEF NextBefore
    <3> QED BY <3>2, <3>3
  <2>2. report.unserved \cup unserved \in SUBSET Nat
    BY <1>2, <1>5, <1>8 DEF Succeeded
  <2>3. report'.stage \in {"paging", "done"}
    BY <1>12
  <2>4. report' = [stage |-> report'.stage, before |-> report'.before,
                   until |-> report'.until, batchSize |-> report'.batchSize,
                   rows |-> report'.rows, unserved |-> report'.unserved,
                   top |-> report'.top]
    BY <1>1, <1>6 DEF Reports
  <2>5. /\ report'.before \in Nat /\ report'.until \in Nat
        /\ report'.batchSize \in Nat \ {0} /\ report'.rows \in Seq(Nat)
        /\ report'.unserved \in SUBSET Nat /\ report'.top \in Nat
    BY <1>2, <1>7, <1>12, <1>17, <2>1, <2>2
  <2> QED BY <2>3, <2>4, <2>5 DEF Reports
<1>19. Cursor' = from
  <2>1. CASE HasMore(page)
    BY <1>7, <1>9, <1>12, <2>1 DEF Cursor, Undefined
  <2>2. CASE ~HasMore(page)
    BY <1>12, <2>2 DEF Cursor, from
  <2> QED BY <2>1, <2>2
<1>20. InWindow' = InWindow /\ InWindow = until + 1 .. report.top - 1
  BY <1>12 DEF InWindow, until
<1>21. \A i : IsRow(i)' <=> IsRow(i)
  BY <1>1 DEF IsRow
<1>22. /\ report.before = Undefined => Places = {}
       /\ \A i \in Places : i \in Nat
  BY <1>2 DEF Places
<1>23. RowsAreRead'
  <2>1. ASSUME NEW i \in Places'
        PROVE  /\ i \in DOMAIN history' /\ i > report'.until /\ i >= Cursor'
               /\ IsRow(i)' /\ ~history'[i].err
    <3>1. CASE i \in Places
      <4>1. i \in DOMAIN history /\ i > until /\ IsRow(i) /\ ~history[i].err
        BY <1>2, <3>1 DEF RowsAreRead, until
      <4>2. i > last /\ i \in Nat
        BY <1>14, <1>22, <3>1
      <4>3. i >= from
        <5>1. CASE HasMore(page)
          BY <1>7, <1>9, <4>2, <5>1
        <5>2. CASE ~HasMore(page)
          BY <1>7, <4>1, <4>2, <5>2 DEF from
        <5> QED BY <5>1, <5>2
      <4> QED BY <1>1, <1>12, <1>19, <1>21, <4>1, <4>3
    <3>2. CASE i \in shown
      <4>1. i \in Nat /\ i <= last /\ from <= i /\ IsRow(i) /\ ~history[i].err
        BY <1>15, <3>2
      <4>2. i \in DOMAIN history /\ i > until /\ i >= from
        BY <1>1, <1>3, <1>7, <1>9, <4>1
      <4> QED BY <1>1, <1>12, <1>19, <1>21, <4>1, <4>2
    <3> QED BY <1>17, <2>1, <3>1, <3>2
  <2>2. ASSUME NEW i \in InWindow', i >= Cursor', IsRow(i)', ~history'[i].err
        PROVE  i \in report'.unserved \/ i \in Places'
    <3>1. i \in InWindow /\ i >= from /\ IsRow(i) /\ ~history[i].err
      BY <1>1, <1>19, <1>20, <1>21, <2>2
    <3>2. i \in Int /\ i < report.top
      BY <1>2, <1>7, <1>20, <3>1
    <3>3. CASE i > last
      <4>1. report.before # Undefined
        BY <1>1, <1>2, <1>3, <3>2, <3>3 DEF last
      <4>2. i >= Cursor
        BY <1>3, <1>13, <3>2, <3>3, <4>1
      <4>3. i \in report.unserved \/ i \in Places
        BY <1>2, <3>1, <4>2 DEF RowsAreRead
      <4> QED BY <1>12, <1>17, <4>3
    <3>4. CASE i <= last
      <4>1. i \in page
        BY <1>3, <1>9, <3>1, <3>2, <3>4
      <4>2. i \in unserved \/ i \in shown
        BY <3>1, <4>1 DEF Succeeded
      <4> QED BY <1>12, <1>17, <4>2
    <3> QED BY <1>3, <3>2, <3>3, <3>4
  <2> QED BY <1>17, <2>1, <2>2 DEF RowsAreRead
<1>24. report'.stage # "idle" /\ report'.top <= Len(history') + 1
  BY <1>1, <1>2, <1>12
<1>25. report'.stage = "paging" =>
          report'.before # Undefined /\ report'.before \in DOMAIN history'
  BY <1>1, <1>3, <1>7, <1>9, <1>12 DEF Undefined
<1>26. ReportTypeOK'
  BY <1>1, <1>18 DEF ReportTypeOK
<1> QED BY <1>23, <1>24, <1>25, <1>26 DEF ReportInv

(* What the pool and its users do happens to one list of transactions.     *)
LEMMA PoolGrowsHistory ==
    ASSUME PoolWorks \/ SwapFails \/ OwnersWork
    PROVE  /\ report' = report
           /\ \/ history' = history
              \/ \E kind \in Kinds, err \in BOOLEAN : Happened(kind, err)
<1>1. CASE PoolWorks
  BY <1>1 DEF PoolWorks, Happened, Kinds
<1>2. CASE SwapFails
  BY <1>2 DEF SwapFails, Happened, Kinds
<1>3. CASE OwnersWork
  BY <1>3 DEF OwnersWork
<1> QED BY <1>1, <1>2, <1>3

(* When the command is done the whole window was read.                     *)
LEMMA WindowIsRead == ASSUME ReportInv PROVE PagesSkipNothing
<1> SUFFICES ASSUME report.stage = "done"
             PROVE  /\ {i \in InWindow : history[i] = [kind |-> "unstake", err |-> FALSE]}
                        \ report.unserved \subseteq Places
                    /\ Places \subseteq Unstakes
                    /\ \A i \in Places : i > report.until
                    /\ NewestFirst(report.rows)
  BY DEF PagesSkipNothing
<1>1. RowsAreRead /\ Cursor = report.until + 1 /\ report \in Reports
  BY DEF ReportInv, ReportTypeOK, Cursor, Idle
<1>2. report.until \in Nat /\ report.top \in Nat
  BY <1>1 DEF Reports
<1>3. \A i \in InWindow : i >= Cursor
  BY <1>1, <1>2 DEF InWindow
<1>4. \A i : history[i] = [kind |-> "unstake", err |-> FALSE] => IsRow(i) /\ ~history[i].err
  BY DEF IsRow
<1>5. Places \subseteq Unstakes
  BY <1>1 DEF RowsAreRead, Unstakes, IsRow
<1> QED BY <1>1, <1>3, <1>4, <1>5 DEF RowsAreRead

(* The report that the "unstakes" command prints has every unstake paid in *)
(* SOL of the window once, newest first, but for those the node could not  *)
(* serve, and nothing that is not a swap, whatever size of page it asks    *)
(* for and however the history grows.                                      *)
THEOREM PagesSkipNothingCorrect == ReportSpec => []PagesSkipNothing
<1>1. ReportInit => ReportInv
  BY DEF ReportInit, ReportInv, ReportTypeOK, Idle
<1>2. ReportInv /\ [ReportNext]_reportVars => ReportInv'
  <2> SUFFICES ASSUME ReportInv, [ReportNext]_reportVars PROVE ReportInv'
    OBVIOUS
  <2>1. CASE PoolWorks \/ SwapFails \/ OwnersWork
    BY <2>1, PoolGrowsHistory, HistoryGrows
  <2>2. ASSUME NEW before \in {Undefined} \cup DOMAIN history,
               NEW until \in {Undefined} \cup DOMAIN history, NEW size \in BatchSizes,
               StartReport(before, until, size)
        PROVE  ReportInv'
    BY <2>2, ReportStarts
  <2>3. CASE ReadPage
    BY <2>3, PageRead
  <2>4. CASE UNCHANGED reportVars
    BY <2>4, HistoryGrows DEF reportVars
  <2> QED BY <2>1, <2>2, <2>3, <2>4 DEF ReportNext
<1>3. ReportInv => PagesSkipNothing
  BY WindowIsRead
<1> QED BY <1>1, <1>2, <1>3, PTL DEF ReportSpec

=============================================================================
