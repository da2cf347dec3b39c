------------------------- MODULE ReportTable_proofs -------------------------
(***************************************************************************)
(* Theorems about ReportTable: the types, for whatever is fetched; and for *)
(* reports as the site makes them, of any number of days, in any of the    *)
(* time ranges, what the list and the screen of a time range show.         *)
(***************************************************************************)
EXTENDS ReportTable, Recursion, SequenceTheorems

-----------------------------------------------------------------------------
(* create_report writes line by line.                                      *)

Streams == [rows : Seq(Rows), last : Rows]

\* A stream, and whether the label of the report at hand is in it.
Written == [rows : Seq(Rows), last : Rows, labelled : BOOLEAN]

Unlabelled(rows, last) == [rows |-> rows, last |-> last, labelled |-> FALSE]

WithLabel(rows, last) == [rows |-> rows, last |-> last, labelled |-> TRUE]

Begun(stream) == Unlabelled(stream.rows, stream.last)

Label(i) == [of |-> "label", range |-> i]

LEMMA FiguresType ==
  ASSUME NEW i \in 1 .. Ranges, NEW kind \in {"Totals", "Averages"}
  PROVE  Figures(kind, i) \in Rows /\ Len(Figures(kind, i)) = 3 /\ Label(i) \in Fields
<1>1. [of |-> kind, range |-> i] \in Fields /\ Label(i) \in Fields
  BY RangesAssumption DEF Fields, Label
<1> QED
  BY <1>1 DEF Figures, Rows

LEMMA WriteLineType ==
  ASSUME NEW i \in 1 .. Ranges, NEW s \in Written, NEW line \in LineKinds
  PROVE  WriteLine(i, s, line) \in Written
<1>1. /\ Figures("Totals", i) \in Seq(Fields) /\ Figures("Averages", i) \in Seq(Fields)
      /\ [of |-> "label", range |-> i] \in Fields
      /\ s.rows \in Seq(Seq(Fields)) /\ s.last \in Seq(Fields) /\ s.labelled \in BOOLEAN
  BY FiguresType DEF Rows, Label, Written
<1>2. CASE line = "other" /\ ~ s.labelled
  <2>1. WriteLine(i, s, line) =
          [s EXCEPT !.last = Append(@, [of |-> "label", range |-> i]), !.labelled = TRUE]
    BY <1>2 DEF WriteLine
  <2>2. Append(s.last, [of |-> "label", range |-> i]) \in Seq(Fields)
    BY <1>1
  <2> QED
    BY <2>1, <2>2 DEF Written, Rows
<1>3. CASE line = "Totals"
  <2>1. s.last \o Figures("Totals", i) \in Seq(Fields)
    BY <1>1
  <2> QED
    BY <1>1, <1>3, <2>1 DEF WriteLine, Written, Rows
<1>4. CASE line = "Averages"
  <2>1. s.last \o Figures("Averages", i) \in Seq(Fields)
    BY <1>1
  <2>2. Append(s.rows, s.last \o Figures("Averages", i)) \in Seq(Seq(Fields)) /\ << >> \in Seq(Fields)
    BY <1>1, <2>1
  <2>3. WriteLine(i, s, line) =
          [s EXCEPT !.rows = Append(@, s.last \o Figures("Averages", i)), !.last = << >>]
    BY <1>4 DEF WriteLine
  <2> QED
    BY <2>2, <2>3 DEF Written, Rows
<1>5. CASE ~ (line = "other" /\ ~ s.labelled) /\ line # "Totals" /\ line # "Averages"
  BY <1>5 DEF WriteLine
<1> QED
  BY <1>2, <1>3, <1>4, <1>5

ReportRun(run, stream, report, i) ==
  /\ run \in [0 .. Len(report) -> Written]
  /\ run[0] = Begun(stream)
  /\ CreateReport(stream, report, i) =
       [rows |-> run[Len(report)].rows, last |-> run[Len(report)].last]
  /\ \A k \in 1 .. Len(report) : run[k] = WriteLine(i, run[k - 1], report[k])

LEMMA ReportRuns ==
  ASSUME NEW i \in 1 .. Ranges, NEW stream \in Streams, NEW report \in Seq(LineKinds)
  PROVE  \E run : ReportRun(run, stream, report, i)
<1> DEFINE n == Len(report)
           start == Begun(stream)
           step == [p \in Written \X (1 .. n) |-> WriteLine(i, p[1], report[p[2]])]
<1>1. n \in Nat /\ DOMAIN report = 1 .. n /\ start \in Written
  BY DEF Streams, Written, Begun, Unlabelled
<1>2. \A k \in 1 .. n : report[k] \in LineKinds
  BY <1>1
<1>3. step \in [Written \X (1 .. n) -> Written]
  BY <1>2, WriteLineType
<1>4. \A s \in Written, k \in 1 .. n : step[<<s, k>>] = WriteLine(i, s, report[k])
  OBVIOUS
<1> HIDE DEF step
<1>5. PICK g \in [SUBSET (1 .. n) -> Written] : IsFold(g, n, start, step)
  <2> HIDE DEF n, start
  <2> QED
    BY <1>1, <1>3, FoldExists, Zenon
<1> DEFINE Equation(f) == f = [s \in SUBSET (DOMAIN report) |->
             IF s = {} THEN start ELSE WriteLine(i, f[s \ {Max(s)}], report[Max(s)])]
<1>6. \E f : Equation(f)
  <2>1. ASSUME NEW s \in SUBSET (1 .. n)
        PROVE  g[s] = IF s = {} THEN start ELSE WriteLine(i, g[s \ {Max(s)}], report[Max(s)])
    <3>1. CASE s # {}
      <4>1. Max(s) \in 1 .. n
        <5> HIDE DEF n
        <5> QED
          BY <1>1, <3>1, MaxIs
      <4>2. g[s \ {Max(s)}] \in Written
        OBVIOUS
      <4> HIDE DEF start
      <4> QED
        BY <1>4, <1>5, <3>1, <4>1, <4>2 DEF IsFold
    <3> QED
      BY <1>5, <3>1 DEF IsFold
  <2>2. Equation(g)
    BY <1>1, <2>1
  <2> QED
    BY <2>2
<1> DEFINE iter[s \in SUBSET (DOMAIN report)] ==
             IF s = {} THEN start ELSE WriteLine(i, iter[s \ {Max(s)}], report[Max(s)])
<1>7. Equation(iter)
  <2> HIDE DEF start
  <2> QED
    BY <1>6, Zenon
<1>8. CreateReport(stream, report, i) =
        [rows |-> iter[DOMAIN report].rows, last |-> iter[DOMAIN report].last]
  BY Zenon DEF CreateReport, FoldLeft, MapThenFoldSet, Begun, Unlabelled
<1> HIDE DEF iter, start
<1>9. iter[{}] = start
  BY <1>7
<1>10. ASSUME NEW s \in SUBSET (1 .. n), s # {}, iter[s \ {Max(s)}] \in Written
       PROVE  iter[s] = step[<<iter[s \ {Max(s)}], Max(s)>>]
  <2>1. Max(s) \in 1 .. n
    <3> HIDE DEF n
    <3> QED
      BY <1>1, <1>10, MaxIs
  <2>2. iter[s] = WriteLine(i, iter[s \ {Max(s)}], report[Max(s)])
    BY <1>1, <1>7, <1>10
  <2> QED
    BY <1>4, <1>10, <2>1, <2>2
<1>11. PICK run \in [0 .. n -> Written] : IsRun(run, n, start, step, iter[1 .. n])
  <2> HIDE DEF n
  <2> QED
    BY <1>1, <1>3, <1>9, <1>10, FoldRuns, Zenon
<1>12. ASSUME NEW k \in 1 .. n PROVE run[k] = WriteLine(i, run[k - 1], report[k])
  <2>1. k - 1 \in 0 .. n
    OBVIOUS
  <2> QED
    BY <1>4, <1>11, <2>1 DEF IsRun
<1>13. ReportRun(run, stream, report, i)
  BY <1>1, <1>8, <1>11, <1>12 DEF ReportRun, IsRun, start
<1> QED
  BY <1>13
LEMMA CreateReportType ==
  ASSUME NEW i \in 1 .. Ranges, NEW stream \in Streams, NEW report \in Seq(LineKinds)
  PROVE  CreateReport(stream, report, i) \in Streams
<1>1. PICK run : ReportRun(run, stream, report, i)
  BY ReportRuns
<1>2. run[Len(report)] \in Written
  BY <1>1 DEF ReportRun
<1> QED
  BY <1>1, <1>2 DEF ReportRun, Written, Streams
-----------------------------------------------------------------------------
(* What the site answers with: a report, which has a line of a day before  *)
(* its totals and averages, or a page with none of these three.            *)

IsPage(r) == r \in Seq({"Date", "other"})

IsReport(r) ==
  /\ r \in Seq(LineKinds)
  /\ \E n \in Nat : /\ Len(r) = n + 2 /\ r[n + 1] = "Totals" /\ r[n + 2] = "Averages"
                    /\ \A k \in 1 .. n : r[k] \in {"Date", "other"}
                    /\ \E k \in 1 .. n : r[k] = "other"

Labelled(report, k) == \E j \in 1 .. k : report[j] = "other"

\* Lines that are neither totals nor averages bring a label, or nothing.
AfterDays(stream, report, i, k) ==
  IF Labelled(report, k) THEN WithLabel(stream.rows, Append(stream.last, Label(i)))
                         ELSE Begun(stream)

LEMMA LabelWritten ==
  ASSUME NEW i, NEW rows, NEW last
  PROVE  WriteLine(i, Unlabelled(rows, last), "other") = WithLabel(rows, Append(last, Label(i)))
BY DEF WriteLine, Label, Unlabelled, WithLabel

LEMMA DayIsNotWritten ==
  ASSUME NEW i, NEW rows, NEW last
  PROVE  WriteLine(i, WithLabel(rows, last), "other") = WithLabel(rows, last)
BY DEF WriteLine, WithLabel

LEMMA TotalsWritten ==
  ASSUME NEW i, NEW rows, NEW last
  PROVE  WriteLine(i, WithLabel(rows, last), "Totals") =
           WithLabel(rows, last \o Figures("Totals", i))
BY DEF WriteLine, WithLabel

LEMMA AveragesWritten ==
  ASSUME NEW i, NEW rows, NEW last
  PROVE  WriteLine(i, WithLabel(rows, last), "Averages") =
           WithLabel(Append(rows, last \o Figures("Averages", i)), << >>)
BY DEF WriteLine, WithLabel

LEMMA DateIsNotWritten == ASSUME NEW i, NEW s PROVE WriteLine(i, s, "Date") = s
BY DEF WriteLine

LEMMA DaysWritten ==
  ASSUME NEW i \in 1 .. Ranges, NEW stream \in Streams, NEW report \in Seq(LineKinds),
         NEW run, ReportRun(run, stream, report, i),
         NEW n \in Nat, n <= Len(report), \A k \in 1 .. n : report[k] \in {"Date", "other"}
  PROVE  run[n] = AfterDays(stream, report, i, n)
<1> DEFINE S == {k \in 0 .. n : run[k] = AfterDays(stream, report, i, k)}
<1>1. 0 \in S
  <2>1. ~ Labelled(report, 0)
    BY DEF Labelled
  <2> QED
    BY <2>1 DEF ReportRun, AfterDays
<1>2. ASSUME NEW k \in Nat, k < n, k \in S PROVE k + 1 \in S
  <2>1. k + 1 \in 1 .. n /\ k + 1 \in 1 .. Len(report) /\ (k + 1) - 1 = k
    BY <1>2
  <2>2. run[k + 1] = WriteLine(i, run[k], report[k + 1])
    BY <2>1 DEF ReportRun
  <2>3. Labelled(report, k + 1) <=> Labelled(report, k) \/ report[k + 1] = "other"
    BY <1>2 DEF Labelled
  <2>4. report[k + 1] \in {"Date", "other"}
    BY <2>1
  <2>5. run[k] = AfterDays(stream, report, i, k)
    BY <1>2
  <2>6. run[k + 1] = AfterDays(stream, report, i, k + 1)
    <3>1. CASE Labelled(report, k)
      <4>1. run[k] = WithLabel(stream.rows, Append(stream.last, Label(i)))
        BY <2>5, <3>1 DEF AfterDays
      <4>2. run[k + 1] = run[k]
        BY <2>2, <2>4, <4>1, DayIsNotWritten, DateIsNotWritten
      <4> QED
        BY <2>3, <3>1, <4>1, <4>2 DEF AfterDays
    <3>2. CASE ~ Labelled(report, k) /\ report[k + 1] = "other"
      <4>1. run[k] = Unlabelled(stream.rows, stream.last)
        BY <2>5, <3>2 DEF AfterDays, Begun
      <4>2. run[k + 1] = WithLabel(stream.rows, Append(stream.last, Label(i)))
        BY <2>2, <3>2, <4>1, LabelWritten
      <4> QED
        BY <2>3, <3>2, <4>2 DEF AfterDays
    <3>3. CASE ~ Labelled(report, k) /\ report[k + 1] = "Date"
      <4>1. run[k + 1] = run[k]
        BY <2>2, <3>3, DateIsNotWritten
      <4> QED
        BY <2>3, <2>5, <3>3, <4>1 DEF AfterDays
    <3> QED
      BY <2>4, <3>1, <3>2, <3>3
  <2> QED
    BY <2>1, <2>6
<1>3. 0 .. n \subseteq S
  <2> HIDE DEF S
  <2> QED
    BY <1>1, <1>2, CountUp
<1> QED
  BY <1>3

\* A page leaves a label at the end of the file, or nothing.
LEMMA PageWritten ==
  ASSUME NEW i \in 1 .. Ranges, NEW stream \in Streams, NEW report, IsPage(report)
  PROVE  LET end == CreateReport(stream, report, i)
         IN  end.rows = stream.rows /\ end.last \in {stream.last, Append(stream.last, Label(i))}
<1>1. /\ report \in Seq(LineKinds) /\ Len(report) \in Nat
      /\ \A k \in 1 .. Len(report) : report[k] \in {"Date", "other"}
  BY DEF IsPage, LineKinds
<1>2. PICK run : ReportRun(run, stream, report, i)
  BY <1>1, ReportRuns
<1>3. run[Len(report)] = AfterDays(stream, report, i, Len(report))
  BY <1>1, <1>2, DaysWritten
<1> QED
  BY <1>2, <1>3 DEF ReportRun, AfterDays, WithLabel, Begun, Unlabelled

LEMMA RowJoined ==
  ASSUME NEW s \in Seq(Fields), NEW t \in Seq(Fields), NEW u \in Seq(Fields), NEW e \in Fields
  PROVE  (Append(s, e) \o t) \o u = s \o ((<<e>> \o t) \o u)
<1>1. Append(s, e) = s \o <<e>> /\ <<e>> \in Seq(Fields) /\ <<e>> \o t \in Seq(Fields)
  BY AppendIsConcat
<1>2. (s \o <<e>>) \o t = s \o (<<e>> \o t)
  BY <1>1, ConcatAssociative
<1>3. (s \o (<<e>> \o t)) \o u = s \o ((<<e>> \o t) \o u)
  BY <1>1, ConcatAssociative, SMTT(40)
<1> QED
  BY <1>1, <1>2, <1>3

\* A report ends a row with its label, its totals and its averages, which begins with
\* what was left at the end of the file.
LEMMA ReportWritten ==
  ASSUME NEW i \in 1 .. Ranges, NEW stream \in Streams, NEW report, IsReport(report)
  PROVE  CreateReport(stream, report, i) =
           [rows |-> Append(stream.rows, stream.last \o WholeRow(i)), last |-> << >>]
<1>1. PICK n \in Nat : /\ Len(report) = n + 2
                       /\ report[n + 1] = "Totals" /\ report[n + 2] = "Averages"
                       /\ \A k \in 1 .. n : report[k] \in {"Date", "other"}
                       /\ Labelled(report, n)
  BY DEF IsReport, Labelled
<1>2. report \in Seq(LineKinds)
  BY DEF IsReport
<1>3. PICK run : ReportRun(run, stream, report, i)
  BY <1>2, ReportRuns
<1>4. run[n] = AfterDays(stream, report, i, n)
  BY <1>1, <1>2, <1>3, DaysWritten
<1> DEFINE label == Append(stream.last, Label(i))
<1>5. run[n] = WithLabel(stream.rows, label)
  BY <1>1, <1>4 DEF AfterDays
<1>6. /\ n + 1 \in 1 .. Len(report) /\ n + 2 \in 1 .. Len(report)
      /\ (n + 1) - 1 = n /\ (n + 2) - 1 = n + 1
  BY <1>1
<1>7. run[n + 1] = WriteLine(i, run[n], "Totals") /\ run[n + 2] = WriteLine(i, run[n + 1], "Averages")
  BY <1>1, <1>3, <1>6 DEF ReportRun
<1>8. run[n + 1] = WithLabel(stream.rows, label \o Figures("Totals", i))
  BY <1>5, <1>7, TotalsWritten
<1> DEFINE row == (label \o Figures("Totals", i)) \o Figures("Averages", i)
<1>9. run[n + 2].rows = Append(stream.rows, row) /\ run[n + 2].last = << >>
  <2>1. run[n + 2] = WithLabel(Append(stream.rows, row), << >>)
    BY <1>7, <1>8, AveragesWritten
  <2> HIDE DEF row
  <2> QED
    BY <2>1 DEF WithLabel
<1>10. row = stream.last \o WholeRow(i)
  <2>1. /\ stream.last \in Seq(Fields) /\ Label(i) \in Fields
        /\ Figures("Totals", i) \in Seq(Fields) /\ Figures("Averages", i) \in Seq(Fields)
    BY FiguresType DEF Streams, Rows
  <2>2. WholeRow(i) = (<<Label(i)>> \o Figures("Totals", i)) \o Figures("Averages", i)
    BY DEF WholeRow, Label
  <2>3. row = stream.last \o ((<<Label(i)>> \o Figures("Totals", i)) \o Figures("Averages", i))
    BY <2>1, RowJoined, ZenonT(40)
  <2> HIDE DEF row
  <2> QED
    BY <2>2, <2>3
<1> QED
  BY <1>1, <1>3, <1>9, <1>10 DEF ReportRun
-----------------------------------------------------------------------------
(* process_adsense_reports goes through the time ranges.                   *)

Empty == [rows |-> << >>, last |-> << >>]

TableRun(run, report) ==
  /\ run \in [0 .. Ranges -> Streams]
  /\ run[0] = Empty
  /\ \A i \in 1 .. Ranges : run[i] = CreateReport(run[i - 1], report[i], i)

LEMMA EmptyType == Empty \in Streams /\ << >> \in Rows /\ << >> \in Seq(Rows)
BY DEF Empty, Streams, Rows

LEMMA TableRuns ==
  ASSUME NEW table \in Tables
  PROVE  \E report \in [1 .. Ranges -> Reports] : \E run :
           TableRun(run, report) /\ table = RowsOf(run[Ranges])
<1> DEFINE n == Ranges
           places == [i \in 1 .. Ranges |-> i]
           Fold(report) == FoldLeft(LAMBDA stream, i : CreateReport(stream, report[i], i),
                                    [rows |-> << >>, last |-> << >>], [i \in 1 .. Ranges |-> i])
<1>1. PICK report \in [1 .. Ranges -> Reports] : table = RowsOf(Fold(report))
  BY Zenon DEF Tables
<1>2. \A i \in 1 .. n : report[i] \in Seq(LineKinds)
  <2>1. << >> \in Seq(LineKinds)
    OBVIOUS
  <2>2. Reports \subseteq Seq(LineKinds)
    BY <2>1, FetchedAssumption DEF Reports
  <2> QED
    BY <2>2
<1> HIDE DEF Fold
<1> DEFINE step == [p \in Streams \X (1 .. n) |-> CreateReport(p[1], report[p[2]], p[2])]
<1>3. n \in Nat /\ Empty \in Streams
  BY EmptyType, RangesAssumption
<1>4. step \in [Streams \X (1 .. n) -> Streams]
  BY <1>2, CreateReportType
<1>5. \A s \in Streams, k \in 1 .. n : step[<<s, k>>] = CreateReport(s, report[k], k)
  OBVIOUS
<1> HIDE DEF step
<1>6. PICK g \in [SUBSET (1 .. n) -> Streams] : IsFold(g, n, Empty, step)
  <2> HIDE DEF n
  <2> QED
    BY <1>3, <1>4, FoldExists, Zenon
<1> DEFINE Equation(f) == f = [s \in SUBSET (DOMAIN places) |->
             IF s = {} THEN Empty
             ELSE CreateReport(f[s \ {Max(s)}], report[places[Max(s)]], places[Max(s)])]
<1>7. DOMAIN places = 1 .. n /\ \A k \in 1 .. n : places[k] = k
  OBVIOUS
<1> HIDE DEF places
<1>8. \E f : Equation(f)
  <2>1. ASSUME NEW s \in SUBSET (1 .. n)
        PROVE  g[s] = IF s = {} THEN Empty
                      ELSE CreateReport(g[s \ {Max(s)}], report[places[Max(s)]], places[Max(s)])
    <3>1. CASE s # {}
      <4>1. Max(s) \in 1 .. n
        <5> HIDE DEF n
        <5> QED
          BY <1>3, <3>1, MaxIs
      <4>2. g[s \ {Max(s)}] \in Streams /\ places[Max(s)] = Max(s)
        BY <1>7, <4>1
      <4> QED
        BY <1>5, <1>6, <3>1, <4>1, <4>2 DEF IsFold
    <3> QED
      BY <1>6, <3>1 DEF IsFold
  <2>2. Equation(g)
    BY <1>7, <2>1
  <2> QED
    BY <2>2
<1> DEFINE iter[s \in SUBSET (DOMAIN places)] ==
             IF s = {} THEN Empty
             ELSE CreateReport(iter[s \ {Max(s)}], report[places[Max(s)]], places[Max(s)])
<1>9. Equation(iter)
  BY <1>8, Zenon
<1>10. Fold(report) = iter[DOMAIN places]
  BY Zenon DEF Fold, FoldLeft, MapThenFoldSet, Empty, places
<1> HIDE DEF iter
<1>11. iter[{}] = Empty
  BY <1>9
<1>12. ASSUME NEW s \in SUBSET (1 .. n), s # {}, iter[s \ {Max(s)}] \in Streams
       PROVE  iter[s] = step[<<iter[s \ {Max(s)}], Max(s)>>]
  <2>1. Max(s) \in 1 .. n
    <3> HIDE DEF n
    <3> QED
      BY <1>3, <1>12, MaxIs
  <2>2. iter[s] = CreateReport(iter[s \ {Max(s)}], report[Max(s)], Max(s))
    BY <1>7, <1>9, <1>12, <2>1
  <2> QED
    BY <1>5, <1>12, <2>1, <2>2
<1>13. PICK run \in [0 .. n -> Streams] : IsRun(run, n, Empty, step, iter[1 .. n])
  <2> HIDE DEF n
  <2> QED
    BY <1>3, <1>4, <1>11, <1>12, FoldRuns, Zenon
<1>14. ASSUME NEW k \in 1 .. n PROVE run[k] = CreateReport(run[k - 1], report[k], k)
  <2>1. k - 1 \in 0 .. n
    BY <1>3
  <2> QED
    BY <1>5, <1>13, <2>1 DEF IsRun
<1>15. TableRun(run, report)
  BY <1>13, <1>14 DEF TableRun, IsRun
<1>16. table = RowsOf(run[Ranges])
  BY <1>1, <1>7, <1>10, <1>13 DEF IsRun
<1> QED
  BY <1>15, <1>16

LEMMA TablesType == Tables \subseteq Seq(Rows)
<1>1. ASSUME NEW table \in Tables PROVE table \in Seq(Rows)
  <2>0. PICK report \in [1 .. Ranges -> Reports] :
          \E run : TableRun(run, report) /\ table = RowsOf(run[Ranges])
    BY TableRuns
  <2>1. PICK run : TableRun(run, report) /\ table = RowsOf(run[Ranges])
    BY <2>0
  <2> DEFINE end == run[Ranges]
  <2>2. end.rows \in Seq(Rows) /\ end.last \in Seq(Fields)
    <3>1. Ranges \in 0 .. Ranges
      BY RangesAssumption
    <3> QED
      BY <2>1, <3>1 DEF TableRun, Streams, Rows
  <2>3. [of |-> "nothing", range |-> 0] \in Fields
    BY RangesAssumption DEF Fields
  <2> HIDE DEF end
  <2>4. Append(end.last, [of |-> "nothing", range |-> 0]) \in Rows
    BY <2>2, <2>3 DEF Rows
  <2>5. RowsOf(end) \in Seq(Rows)
    BY <2>2, <2>4 DEF RowsOf
  <2> QED
    BY <2>1, <2>5 DEF end
<1> QED
  BY <1>1
-----------------------------------------------------------------------------
(* What is in the table after the first i time ranges, of reports and      *)
(* pages: rows that end with the fields of a range, in the order of the    *)
(* ranges, and labels at the end of the file, of all ranges or of fewer.   *)

RangeOf(row) == row[Len(row)].range

RowsEnd(rows, i) ==
  /\ \A j \in DOMAIN rows : \E before \in Rows, r \in 1 .. i : rows[j] = before \o WholeRow(r)
  /\ \A j, k \in DOMAIN rows : j < k => RangeOf(rows[j]) < RangeOf(rows[k])

StreamInv(stream, i) ==
  /\ RowsEnd(stream.rows, i)
  /\ Len(stream.last) <= i
  /\ Len(stream.last) = i => stream.rows = << >> /\ stream.last = [k \in 1 .. i |-> Label(k)]

LEMMA JoinedFields ==
  ASSUME NEW s \in Seq(Fields), NEW t \in Seq(Fields)
  PROVE  /\ s \o t \in Seq(Fields)
         /\ Len(s \o t) = Len(s) + Len(t) /\ Len(s) \in Nat /\ Len(t) \in Nat
         /\ \A k \in 1 .. Len(s) : (s \o t)[k] = s[k]
         /\ \A k \in 1 .. Len(t) : (s \o t)[Len(s) + k] = t[k]
<1>1. Len(s) \in Nat /\ Len(t) \in Nat
  OBVIOUS
<1>2. s \o t \in Seq(Fields) /\ Len(s \o t) = Len(s) + Len(t)
  BY ConcatProperties
<1>3. ASSUME NEW k \in 1 .. Len(s) PROVE (s \o t)[k] = s[k]
  BY <1>1, ConcatProperties
<1>4. ASSUME NEW k \in 1 .. Len(t) PROVE (s \o t)[Len(s) + k] = t[k]
  <2>1. Len(s) + k \in 1 .. Len(s) + Len(t) /\ ~ (Len(s) + k <= Len(s)) /\ (Len(s) + k) - Len(s) = k
    BY <1>1
  <2> QED
    BY <2>1, ConcatProperties
<1> QED
  BY <1>1, <1>2, <1>3, <1>4

LEMMA WholeRowIs ==
  ASSUME NEW i \in 1 .. Ranges
  PROVE  /\ WholeRow(i) \in Rows /\ Len(WholeRow(i)) = Columns
         /\ WholeRow(i)[1].range = i /\ RangeOf(WholeRow(i)) = i
<1> DEFINE head == <<Label(i)>>
           totals == Figures("Totals", i)
           averages == Figures("Averages", i)
<1>1. /\ head \in Seq(Fields) /\ Len(head) = 1 /\ head[1].range = i
      /\ totals \in Seq(Fields) /\ Len(totals) = 3
      /\ averages \in Seq(Fields) /\ Len(averages) = 3 /\ averages[3].range = i
  BY FiguresType DEF Rows, Figures, Label
<1>2. WholeRow(i) = (head \o totals) \o averages
  BY DEF WholeRow, Label
<1> HIDE DEF head, totals, averages
<1> DEFINE labelled == head \o totals
<1>3. /\ labelled \in Seq(Fields) /\ Len(labelled) = Len(head) + Len(totals)
      /\ \A k \in 1 .. Len(head) : labelled[k] = head[k]
  BY <1>1, JoinedFields, Zenon
<1> DEFINE row == labelled \o averages
<1>4. /\ row \in Seq(Fields) /\ Len(row) = Len(labelled) + Len(averages)
      /\ \A k \in 1 .. Len(labelled) : row[k] = labelled[k]
      /\ \A k \in 1 .. Len(averages) : row[Len(labelled) + k] = averages[k]
  <2> HIDE DEF labelled
  <2> QED
    BY <1>1, <1>3, JoinedFields, ZenonT(40)
<1>5. WholeRow(i) = row
  BY <1>2
<1> HIDE DEF row, labelled
<1>6. Len(labelled) = 4 /\ labelled[1] = head[1]
  BY <1>1, <1>3
<1>7. Len(row) = 7 /\ row[1] = labelled[1] /\ row[4 + 3] = averages[3]
  BY <1>1, <1>4, <1>6
<1> QED
  BY <1>1, <1>4, <1>5, <1>6, <1>7 DEF Rows, Columns, RangeOf

LEMMA EndOfRow ==
  ASSUME NEW i \in 1 .. Ranges, NEW before \in Rows
  PROVE  LET row == before \o WholeRow(i)
         IN  /\ row \in Rows /\ Len(row) = Len(before) + Columns /\ RangeOf(row) = i
             /\ Len(row) = Columns => row = WholeRow(i)
<1> DEFINE whole == WholeRow(i)
           row == before \o whole
<1>1. before \in Seq(Fields) /\ whole \in Seq(Fields) /\ Len(whole) = 7 /\ whole[7].range = i
  BY WholeRowIs DEF Rows, Columns, RangeOf
<1> HIDE DEF whole
<1>2. /\ row \in Seq(Fields) /\ Len(row) = Len(before) + 7 /\ Len(before) \in Nat
      /\ row[Len(before) + 7] = whole[7]
  <2>1. /\ row \in Seq(Fields) /\ Len(row) = Len(before) + Len(whole) /\ Len(before) \in Nat
        /\ \A k \in 1 .. Len(whole) : row[Len(before) + k] = whole[k]
    BY <1>1, JoinedFields, Zenon
  <2> HIDE DEF row
  <2> QED
    BY <1>1, <2>1
<1>3. ASSUME Len(row) = 7 PROVE row = whole
  <2>1. before = << >>
    BY <1>1, <1>2, <1>3
  <2> QED
    BY <1>1, <2>1
<1> QED
  BY <1>1, <1>2, <1>3 DEF whole, Rows, Columns, RangeOf

LEMMA RowsEndOne ==
  ASSUME NEW i \in 1 .. Ranges, NEW rows \in Seq(Rows), RowsEnd(rows, i - 1), NEW before \in Rows
  PROVE  RowsEnd(Append(rows, before \o WholeRow(i)), i)
<1> DEFINE row == before \o WholeRow(i)
           more == Append(rows, row)
<1>1. row \in Rows /\ RangeOf(row) = i
  BY EndOfRow
<1>2. \E b \in Rows, r \in 1 .. i : row = b \o WholeRow(r)
  OBVIOUS
<1> HIDE DEF row
<1>3. /\ DOMAIN more = 1 .. Len(rows) + 1 /\ Len(rows) \in Nat /\ DOMAIN rows = 1 .. Len(rows)
      /\ more[Len(rows) + 1] = row /\ \A j \in DOMAIN rows : more[j] = rows[j]
  BY <1>1
<1>4. \A j \in DOMAIN more : j \in DOMAIN rows \/ j = Len(rows) + 1
  BY <1>3
<1> HIDE DEF more
<1>5. \A j \in DOMAIN rows : RangeOf(rows[j]) \in 1 .. i - 1
  <2> SUFFICES ASSUME NEW j \in DOMAIN rows PROVE RangeOf(rows[j]) \in 1 .. i - 1
    OBVIOUS
  <2>1. PICK b \in Rows, r \in 1 .. i - 1 : rows[j] = b \o WholeRow(r)
    BY DEF RowsEnd
  <2>2. r \in 1 .. Ranges
    BY RangesAssumption
  <2> QED
    BY <2>1, <2>2, EndOfRow
<1>6. ASSUME NEW j \in DOMAIN more
      PROVE  \E b \in Rows, r \in 1 .. i : more[j] = b \o WholeRow(r)
  <2>1. CASE j \in DOMAIN rows
    <3>1. PICK b \in Rows, r \in 1 .. i - 1 : rows[j] = b \o WholeRow(r)
      BY <2>1 DEF RowsEnd
    <3>2. r \in 1 .. i
      OBVIOUS
    <3> QED
      BY <1>3, <2>1, <3>1, <3>2
  <2> QED
    BY <1>2, <1>3, <1>4, <2>1
<1>7. ASSUME NEW j \in DOMAIN more, NEW k \in DOMAIN more, j < k
      PROVE  RangeOf(more[j]) < RangeOf(more[k])
  <2>1. j \in DOMAIN rows
    BY <1>3, <1>7
  <2>2. CASE k \in DOMAIN rows
    BY <1>3, <1>7, <2>1, <2>2 DEF RowsEnd
  <2>3. CASE k = Len(rows) + 1
    BY <1>1, <1>3, <1>5, <2>1, <2>3
  <2> QED
    BY <1>4, <2>2, <2>3
<1> QED
  BY <1>6, <1>7 DEF RowsEnd, more, row
\* Each time range keeps it, whether there is a report for it or a page.
LEMMA StreamKept ==
  ASSUME NEW i \in 1 .. Ranges, NEW stream \in Streams, StreamInv(stream, i - 1),
         NEW report, IsPage(report) \/ IsReport(report)
  PROVE  StreamInv(CreateReport(stream, report, i), i)
<1> DEFINE end == CreateReport(stream, report, i)
<1>1. i \in Nat \ {0} /\ i - 1 \in Nat /\ 1 .. i - 1 \subseteq 1 .. i /\ Label(i) \in Fields
  BY RangesAssumption, FiguresType
<1>2. stream.rows \in Seq(Rows) /\ stream.last \in Seq(Fields) /\ Len(stream.last) \in Nat
  BY DEF Streams, Rows
<1>3. CASE IsPage(report)
  <2>1. end.rows = stream.rows /\ end.last \in {stream.last, Append(stream.last, Label(i))}
    BY <1>3, PageWritten
  <2> SUFFICES StreamInv(end, i)
    OBVIOUS
  <2> HIDE DEF end
  <2>2. RowsEnd(end.rows, i)
    BY <1>1, <2>1 DEF StreamInv, RowsEnd
  <2>3. CASE end.last = stream.last
    <3>1. Len(end.last) <= i - 1
      BY <2>3 DEF StreamInv
    <3> QED
      BY <1>1, <1>2, <2>2, <2>3, <3>1 DEF StreamInv
  <2>4. CASE end.last = Append(stream.last, Label(i))
    <3>1. Len(end.last) = Len(stream.last) + 1
      BY <1>1, <1>2, <2>4
    <3>2. ASSUME Len(end.last) = i
          PROVE  end.rows = << >> /\ end.last = [k \in 1 .. i |-> Label(k)]
      <4>1. /\ Len(stream.last) = i - 1 /\ stream.rows = << >>
            /\ stream.last = [k \in 1 .. i - 1 |-> Label(k)]
        BY <1>1, <1>2, <3>1, <3>2 DEF StreamInv
      <4>2. DOMAIN end.last = 1 .. i /\ \A k \in 1 .. i - 1 : end.last[k] = Label(k)
        BY <1>1, <1>2, <2>4, <4>1
      <4>3. end.last[i] = Label(i)
        BY <1>1, <1>2, <2>4, <4>1
      <4>4. end.last \in Seq(Fields)
        BY <1>1, <1>2, <2>4
      <4>5. \A k \in 1 .. i : end.last[k] = Label(k)
        BY <1>1, <4>2, <4>3
      <4>6. end.last = [k \in 1 .. i |-> Label(k)]
        BY <4>2, <4>4, <4>5
      <4> QED
        BY <2>1, <4>1, <4>6
    <3>3. Len(stream.last) <= i - 1
      BY DEF StreamInv
    <3>4. Len(end.last) <= i
      BY <1>1, <1>2, <3>1, <3>3
    <3> QED
      BY <2>2, <3>2, <3>4 DEF StreamInv
  <2> QED
    BY <2>1, <2>3, <2>4
<1>4. CASE IsReport(report)
  <2>1. end.rows = Append(stream.rows, stream.last \o WholeRow(i)) /\ end.last = << >>
    BY <1>4, ReportWritten
  <2> HIDE DEF end
  <2>2. RowsEnd(end.rows, i)
    BY <1>2, <2>1, RowsEndOne DEF StreamInv, Rows
  <2>3. Len(end.last) = 0
    BY <2>1
  <2> QED
    BY <1>1, <2>2, <2>3 DEF StreamInv, end
<1> QED
  BY <1>3, <1>4

\* The site answers with reports and pages.
SiteAnswers == \A report \in Fetched : IsPage(report) \/ IsReport(report)

LEMMA TableEnd ==
  ASSUME SiteAnswers, NEW report \in [1 .. Ranges -> Reports], NEW run, TableRun(run, report)
  PROVE  run[Ranges] \in Streams /\ StreamInv(run[Ranges], Ranges)
<1> DEFINE S == {i \in 0 .. Ranges : StreamInv(run[i], i)}
<1>1. Ranges \in Nat /\ run \in [0 .. Ranges -> Streams]
  BY RangesAssumption DEF TableRun
<1>2. 0 \in S
  <2>1. run[0].rows = << >> /\ run[0].last = << >> /\ Len(<< >>) = 0 /\ << >> = [k \in 1 .. 0 |-> Label(k)]
    BY DEF TableRun, Empty
  <2> QED
    BY <1>1, <2>1 DEF StreamInv, RowsEnd
<1>3. ASSUME NEW i \in Nat, i < Ranges, i \in S PROVE i + 1 \in S
  <2>1. i + 1 \in 1 .. Ranges /\ (i + 1) - 1 = i /\ i \in 0 .. Ranges /\ i + 1 \in 0 .. Ranges
    BY <1>1, <1>3
  <2>2. run[i + 1] = CreateReport(run[i], report[i + 1], i + 1)
    BY <2>1 DEF TableRun
  <2>3. IsPage(<< >>)
    BY DEF IsPage
  <2>4. IsPage(report[i + 1]) \/ IsReport(report[i + 1])
    BY <2>1, <2>3 DEF SiteAnswers, Reports
  <2>5. StreamInv(run[i], (i + 1) - 1) /\ run[i] \in Streams
    BY <1>1, <1>3, <2>1
  <2>6. StreamInv(CreateReport(run[i], report[i + 1], i + 1), i + 1)
    BY <2>1, <2>4, <2>5, StreamKept
  <2> QED
    BY <2>1, <2>2, <2>6
<1>4. 0 .. Ranges \subseteq S
  <2> HIDE DEF S
  <2> QED
    BY <1>1, <1>2, <1>3, CountUp
<1> QED
  BY <1>1, <1>4

\* A table the provider accepts has whole rows only, or labels only.
TableGood(table) ==
  (\A j \in DOMAIN table : Acceptable(table[j])) =>
    \/ table = LabelsOnly
    \/ RowsWhole(table) /\ \A j \in DOMAIN table : table[j][1].range \in 1 .. Ranges

LEMMA RowsGood ==
  ASSUME NEW rows \in Seq(Rows), RowsEnd(rows, Ranges), \A j \in DOMAIN rows : Acceptable(rows[j])
  PROVE  RowsWhole(rows) /\ \A j \in DOMAIN rows : rows[j][1].range \in 1 .. Ranges
<1>1. ASSUME NEW j \in DOMAIN rows
      PROVE  /\ rows[j] = WholeRow(rows[j][1].range) /\ rows[j][1].range \in 1 .. Ranges
             /\ rows[j][1].range = RangeOf(rows[j])
  <2>1. PICK before \in Rows, r \in 1 .. Ranges : rows[j] = before \o WholeRow(r)
    BY DEF RowsEnd
  <2>2. rows[j] = WholeRow(r)
    BY <2>1, EndOfRow DEF Acceptable
  <2> QED
    BY <2>2, WholeRowIs
<1> QED
  BY <1>1 DEF RowsWhole, RowsEnd

\* There are six time ranges, and a row with all of their labels has seven fields.
LEMMA TablesGood ==
  ASSUME SiteAnswers, Ranges < Columns, NEW table \in Tables
  PROVE  TableGood(table)
<1> SUFFICES ASSUME \A j \in DOMAIN table : Acceptable(table[j])
             PROVE  \/ table = LabelsOnly
                    \/ RowsWhole(table) /\ \A j \in DOMAIN table : table[j][1].range \in 1 .. Ranges
  BY DEF TableGood
<1>0. PICK report \in [1 .. Ranges -> Reports] :
        \E run : TableRun(run, report) /\ table = RowsOf(run[Ranges])
  BY TableRuns
<1>1. PICK run : TableRun(run, report) /\ table = RowsOf(run[Ranges])
  BY <1>0
<1> DEFINE end == run[Ranges]
<1>2. end \in Streams /\ StreamInv(end, Ranges)
  BY <1>1, TableEnd
<1> HIDE DEF end
<1>3. end.rows \in Seq(Rows) /\ end.last \in Seq(Fields) /\ Len(end.last) \in Nat
  BY <1>2 DEF Streams, Rows
<1>4. CASE end.last = << >>
  <2>1. table = end.rows
    BY <1>1, <1>4 DEF RowsOf, end
  <2> QED
    BY <1>2, <1>3, <2>1, RowsGood DEF StreamInv
<1>5. CASE end.last # << >>
  <2> DEFINE nothing == [of |-> "nothing", range |-> 0]
             rest == Append(end.last, nothing)
  <2>1. table = Append(end.rows, rest)
    BY <1>1, <1>5 DEF RowsOf, end
  <2>2. nothing \in Fields
    BY RangesAssumption DEF Fields
  <2>3. rest \in Rows /\ Len(rest) = Len(end.last) + 1
    BY <1>3, <2>2 DEF Rows
  <2> HIDE DEF rest
  <2>4. Len(end.rows) + 1 \in DOMAIN table /\ table[Len(end.rows) + 1] = rest
    BY <1>3, <2>1, <2>3
  <2>5. Len(rest) = 7
    BY <2>4 DEF Acceptable, Columns
  <2>6. Len(end.last) = Ranges
    <3>1. Len(end.last) <= Ranges
      BY <1>2, Zenon DEF StreamInv
    <3>2. Len(end.last) \in Nat /\ Len(end.last) + 1 = 7
      BY <1>3, <2>3, <2>5
    <3>3. Ranges \in Nat /\ Ranges < 7
      BY RangesAssumption DEF Columns
    <3> QED
      BY <3>1, <3>2, <3>3
  <2>7. end.rows = << >> /\ end.last = [k \in 1 .. Ranges |-> Label(k)]
    BY <1>2, <2>6 DEF StreamInv
  <2>8. rest = end.last \o <<nothing>>
    BY <1>3, <2>2, AppendIsConcat DEF rest
  <2>9. table = <<rest>>
    BY <2>1, <2>7
  <2> QED
    BY <2>7, <2>8, <2>9 DEF LabelsOnly, Label
<1> QED
  BY <1>4, <1>5
-----------------------------------------------------------------------------
(* Types, for whatever a fetch can leave. *)

THEOREM TypesKept == Spec => []TypeOK
<1> USE DEF TypeOK, Days, NoDay, files, screens, vars
<1>1. NoDay \in Days /\ << >> \in Seq(Rows) /\ << >> \in Rows
  BY EmptyType, RangesAssumption
<1>2. Init => TypeOK
  BY <1>1 DEF Init
<1>3. TypeOK /\ [Next]_vars => TypeOK'
  <2> SUFFICES ASSUME TypeOK, [Next]_vars PROVE TypeOK'
    OBVIOUS
  <2>1. CASE OpenTable
    BY <1>1, <2>1 DEF OpenTable
  <2>2. CASE CloseTable
    BY <2>2, TablesType DEF CloseTable
  <2>3. CASE DelAccountDir
    BY <1>1, <2>3 DEF DelAccountDir
  <2>4. CASE ShowClient
    BY <1>1, <2>4 DEF ShowClient
  <2>5. CASE ShowDay
    <3>1. day.position + 1 \in 1 .. Ranges
      BY RangesAssumption
    <3>2. DayReadable(day.position) => afc[RowAt(day.position)] \in Rows
      <4> SUFFICES ASSUME DayReadable(day.position) PROVE afc[RowAt(day.position)] \in Rows
        OBVIOUS
      <4>1. RowAt(day.position) \in DOMAIN afc
        BY <2>5, <3>1 DEF ShowDay, UnknownUri, RowAt
      <4> QED
        BY <4>1
    <3>3. day' \in Days
      BY <1>1, <2>5, <3>1, <3>2 DEF ShowDay
    <3> QED
      BY <2>5, <3>3 DEF ShowDay
  <2>6. CASE CloseDay
    BY <1>1, <2>6 DEF CloseDay
  <2>7. CASE ProcessDies
    BY <1>1, <2>7 DEF ProcessDies
  <2>8. ASSUME NEW p \in 0 .. Ranges - 1, OnItemClick(p) PROVE TypeOK'
    BY <1>1, <2>8 DEF OnItemClick
  <2>9. CASE UNCHANGED vars
    BY <2>9
  <2> QED
    BY <2>1, <2>2, <2>3, <2>4, <2>5, <2>6, <2>7, <2>8, <2>9 DEF Next
<1> QED
  BY <1>2, <1>3, PTL DEF Spec
-----------------------------------------------------------------------------
(* The inductive invariant: what is in the file and what the client lists  *)
(* is a table or nothing, and as long as the file was not written since,   *)
(* the list and the screen of a time range show what is in it.             *)

AllAcceptable(table) == \A j \in DOMAIN table : Acceptable(table[j])

TableInv ==
  /\ afc \in Tables \cup {<< >>}
  /\ list \in Tables \cup {<< >>} /\ AllAcceptable(list)

DayInv ==
  /\ view = "list" /\ ~ stale => exists /\ list = afc
  /\ day.shown # "no" => view = "list" /\ day.position + 1 \in DOMAIN list
  /\ day.shown = "yes" /\ ~ stale =>
       day.title = day.position + 1 /\ day.row = list[day.position + 1]

LEMMA InvHolds == Spec => [](TypeOK /\ TableInv /\ DayInv)
<1>1. Init => TableInv /\ DayInv
  BY DEF Init, TableInv, DayInv, AllAcceptable, NoDay
<1>2. TypeOK /\ TableInv /\ DayInv /\ [Next]_vars => TableInv' /\ DayInv'
  <2> SUFFICES ASSUME TypeOK, TableInv, DayInv, [Next]_vars PROVE TableInv' /\ DayInv'
    OBVIOUS
  <2> USE DEF files, screens, vars
  <2>1. CASE OpenTable
    BY <2>1 DEF OpenTable, TableInv, DayInv
  <2>2. CASE CloseTable
    BY <2>2 DEF CloseTable, TableInv, DayInv
  <2>3. CASE DelAccountDir
    BY <2>3 DEF DelAccountDir, TableInv, DayInv
  <2>4. CASE ShowClient
    <3>1. TableInv'
      BY <2>4 DEF ShowClient, TableInv, Listable, AllAcceptable
    <3>2. DayInv'
      BY <2>4 DEF ShowClient, DayInv, Listable
    <3> QED
      BY <3>1, <3>2
  <2>5. CASE ShowDay
    <3>1. TableInv'
      BY <2>5 DEF ShowDay, TableInv
    <3> DEFINE p == day.position
    <3>2. view = "list" /\ p + 1 \in DOMAIN list /\ day \in Days
      BY <2>5 DEF ShowDay, DayInv, TypeOK
    <3>3. ~ stale => DayReadable(p) /\ afc[RowAt(p)] = list[p + 1]
      BY <3>2 DEF DayInv, TableInv, AllAcceptable, DayReadable, RowAt
    <3>4. /\ day'.shown = "yes" /\ day'.position = p /\ day'.title = p + 1
          /\ DayReadable(p) => day'.row = afc[RowAt(p)]
      BY <2>5, <3>2 DEF ShowDay, Days
    <3> QED
      BY <2>5, <3>1, <3>2, <3>3, <3>4 DEF ShowDay, DayInv
  <2>6. CASE CloseDay
    BY <2>6 DEF CloseDay, TableInv, DayInv, NoDay
  <2>7. CASE ProcessDies
    BY <2>7 DEF ProcessDies, TableInv, DayInv, NoDay, AllAcceptable
  <2>8. ASSUME NEW p \in 0 .. Ranges - 1, OnItemClick(p) PROVE TableInv' /\ DayInv'
    BY <2>8 DEF OnItemClick, TableInv, DayInv, NoDay
  <2>9. CASE UNCHANGED vars
    BY <2>9 DEF TableInv, DayInv
  <2> QED
    BY <2>1, <2>2, <2>3, <2>4, <2>5, <2>6, <2>7, <2>8, <2>9 DEF Next
<1> QED
  BY <1>1, <1>2, TypesKept, PTL DEF Spec

\* Of reports and pages of the site, of any length, in up to six time ranges: the rows
\* of the list have the label, the sums and the means of one range each, in order.
THEOREM ListIsWhole ==
  ASSUME SiteAnswers, Ranges < Columns
  PROVE  Spec => []ListRowsWhole
<1>1. TableInv => ListRowsWhole
  <2> SUFFICES ASSUME TableInv, list # LabelsOnly PROVE RowsWhole(list)
    BY DEF ListRowsWhole
  <2>1. CASE list = << >>
    BY <2>1 DEF RowsWhole
  <2>2. CASE list \in Tables
    BY <2>2, TablesGood DEF TableGood, TableInv, AllAcceptable
  <2> QED
    BY <2>1, <2>2 DEF TableInv
<1> QED
  BY <1>1, InvHolds, PTL

\* The rows of a table that has one for each time range are in the places of the ranges.
LEMMA RowsInPlace ==
  ASSUME SiteAnswers, Ranges < Columns, NEW table \in Tables,
         \A j \in DOMAIN table : Acceptable(table[j]), Len(table) = Ranges
  PROVE  \A j \in 1 .. Ranges : table[j][1].range = j
<1>1. table \in Seq(Rows) /\ DOMAIN table = 1 .. Ranges
  BY TablesType
<1>2. table # LabelsOnly
  <2> SUFFICES ASSUME table = LabelsOnly PROVE FALSE
    OBVIOUS
  <2> DEFINE labels == [k \in 1 .. Ranges |-> [of |-> "label", range |-> k]]
             row == labels \o <<[of |-> "nothing", range |-> 0]>>
  <2>1. table = <<row>>
    BY DEF LabelsOnly
  <2>2. Ranges = 1 /\ table[1] = row /\ 1 \in DOMAIN table
    <3> HIDE DEF row
    <3>1. Len(<<row>>) = 1 /\ <<row>>[1] = row /\ 1 \in DOMAIN <<row>>
      OBVIOUS
    <3> QED
      BY <2>1, <3>1
  <2>3. labels \in Seq(Fields) /\ Len(labels) = 1
    BY <2>2 DEF Fields
  <2>4. Len(row) = 2
    BY <2>3
  <2> HIDE DEF row
  <2> QED
    BY <2>2, <2>4 DEF Acceptable, Columns
<1>3. RowsWhole(table) /\ \A j \in DOMAIN table : table[j][1].range \in 1 .. Ranges
  BY <1>2, TablesGood DEF TableGood
<1> DEFINE f == [j \in 1 .. Ranges |-> table[j][1].range]
<1>4. f \in [1 .. Ranges -> 1 .. Ranges] /\ \A j, k \in 1 .. Ranges : j < k => f[j] < f[k]
  BY <1>1, <1>3 DEF RowsWhole
<1> HIDE DEF f
<1>5. \A j \in 1 .. Ranges : f[j] = j
  BY <1>4, RangesAssumption, Increasing
<1> QED
  BY <1>5 DEF f

\* Of such answers: as long as the file is the one the list was made of, a click shows
\* the row it was made on, the query for it finds one, and its title is of its range.
THEOREM ClickShowsDay ==
  ASSUME SiteAnswers, Ranges < Columns
  PROVE  Spec => []DayShowsClicked
<1>1. TypeOK /\ TableInv /\ DayInv => DayShowsClicked
  <2> SUFFICES ASSUME TypeOK, TableInv, DayInv, view = "list", ~ stale, day.shown # "no"
               PROVE  /\ ~ UnknownUri(day.position)
                      /\ day.shown = "yes" =>
                           /\ day.row = list[day.position + 1]
                           /\ Len(list) = Ranges => day.row[1].range = day.title
    BY DEF DayShowsClicked
  <2>1. list = afc /\ day.position + 1 \in DOMAIN list /\ list \in Seq(Rows)
    BY DEF DayInv, TypeOK
  <2>2. ~ UnknownUri(day.position)
    BY <2>1 DEF UnknownUri, RowAt
  <2>3. ASSUME day.shown = "yes"
        PROVE  day.row = list[day.position + 1] /\ day.title = day.position + 1
    BY <2>3 DEF DayInv
  <2>4. ASSUME Len(list) = Ranges PROVE list[day.position + 1][1].range = day.position + 1
    <3>1. list \in Tables /\ \A j \in DOMAIN list : Acceptable(list[j])
      BY <2>1 DEF TableInv, AllAcceptable
    <3>2. day.position + 1 \in 1 .. Ranges
      BY <2>1, <2>4
    <3> QED
      BY <2>4, <3>1, <3>2, RowsInPlace
  <2> QED
    BY <2>2, <2>3, <2>4
<1> QED
  BY <1>1, InvHolds, PTL
=============================================================================
