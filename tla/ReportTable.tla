---------------------------- MODULE ReportTable ----------------------------
(***************************************************************************)
(* From the fetched reports to what the user reads: process_adsense_reports*)
(* merges one report per time range into afc.csv, the content provider     *)
(* turns the file into a table on each query, the client lists its rows    *)
(* and, under the "clean" theme, opens the one clicked.                    *)
(*                                                                         *)
(* A line of a report is told by the word create_report looks for; a field *)
(* of afc.csv by the kind and the time range of its figure.                *)
(***************************************************************************)
EXTENDS Naturals, SequencesExt

CONSTANTS Ranges,    \* number of time ranges, 6 in the code
          Fetched    \* the reports a fetch can leave, as sequences of lines

LineKinds == {"Date", "Totals", "Averages", "other"}

ASSUME RangesAssumption == Ranges \in Nat \ {0}
ASSUME FetchedAssumption == Fetched \subseteq Seq(LineKinds)

VARIABLES merging,    \* process_adsense_reports is writing
          exists,     \* afc.csv is there
          afc,        \* its rows, as a reader sees them
          view,       \* what the client shows
          list,       \* the rows of its list
          day,        \* the screen of one time range
          stale       \* history: afc.csv was opened for writing since the list was made

files == <<merging, exists, afc>>
screens == <<view, list, day>>
vars == <<files, screens, stale>>

Columns == 7

Fields == [of : {"label", "Totals", "Averages", "nothing"}, range : 0 .. Ranges]

Rows == Seq(Fields)

\* The screen of a time range: whether it is there, ListItemClickPosition (which
\* only this screen reads, after the click that sets it), the range its title
\* names, the row its figures are of (none if the provider gave no cursor).
Days == [shown : {"no", "starting", "yes"}, position : 0 .. Ranges - 1,
         title : 1 .. Ranges, row : Rows]

NoDay == [shown |-> "no", position |-> 0, title |-> 1, row |-> << >>]

TypeOK ==
  /\ merging \in BOOLEAN
  /\ exists \in BOOLEAN /\ afc \in Seq(Rows)
  /\ view \in {"none", "splash", "list"} /\ list \in Seq(Rows)
  /\ day \in Days /\ stale \in BOOLEAN

Init ==
  /\ merging = FALSE
  /\ exists = FALSE /\ afc = << >>
  /\ view = "none" /\ list = << >>
  /\ day = NoDay /\ stale = FALSE
-----------------------------------------------------------------------------
(* create_report, for the report of time range i. *)

Figures(kind, i) == [k \in 1 .. 3 |-> [of |-> kind, range |-> i]]

\* The label is written before the first line that is a day of the report, the
\* sums with the line of totals, the means with the line of averages, which ends
\* the row.  A comma ends every field but the last of a row.
WriteLine(i, s, line) ==
  CASE line = "other" /\ ~ s.labelled ->
         [s EXCEPT !.last = Append(@, [of |-> "label", range |-> i]), !.labelled = TRUE]
    [] line = "Totals" -> [s EXCEPT !.last = @ \o Figures("Totals", i)]
    [] line = "Averages" ->
         [s EXCEPT !.rows = Append(@, s.last \o Figures("Averages", i)), !.last = << >>]
    [] OTHER -> s

CreateReport(stream, report, i) ==
  LET start == [rows |-> stream.rows, last |-> stream.last, labelled |-> FALSE]
      end == FoldLeft(LAMBDA s, line : WriteLine(i, s, line), start, report)
  IN [rows |-> end.rows, last |-> end.last]

\* The rows of a file: text after the last newline ends in a comma, and so in a
\* field with nothing in it.
RowsOf(stream) ==
  IF stream.last = << >> THEN stream.rows
  ELSE Append(stream.rows, Append(stream.last, [of |-> "nothing", range |-> 0]))
-----------------------------------------------------------------------------
(* process_adsense_reports. *)

\* get_adsense_reports truncates every report file and fills it unless the
\* conversion failed.
Reports == Fetched \cup {<< >>}

\* What one merge of the reports can write.  Only a merge reads the report files,
\* and each merge finds them fetched anew.
Tables ==
  {RowsOf(FoldLeft(LAMBDA stream, i : CreateReport(stream, report[i], i),
                   [rows |-> << >>, last |-> << >>], [i \in 1 .. Ranges |-> i])) :
     report \in [1 .. Ranges -> Reports]}

\* afc.csv is opened for writing, and empty; its stream keeps what is written
\* to it until it is closed.
OpenTable ==
  /\ ~ merging
  /\ merging' = TRUE
  /\ exists' = TRUE /\ afc' = << >>
  /\ stale' = TRUE
  /\ UNCHANGED screens

CloseTable ==
  /\ merging
  /\ merging' = FALSE
  /\ afc' \in Tables
  /\ stale' = TRUE
  /\ UNCHANGED <<exists, screens>>

\* delAccountDir, before a call.
DelAccountDir ==
  /\ ~ merging
  /\ exists' = FALSE /\ afc' = << >>
  /\ stale' = TRUE
  /\ UNCHANGED <<merging, screens>>
-----------------------------------------------------------------------------
(* AdsenseContentProvider.query. *)

\* Mutant: only short rows are refused.
LongRowsPass(row) == Len(row) >= Columns

Acceptable(row) == Len(row) = Columns

\* The query for the whole table has a cursor.
Listable == exists /\ \A j \in DOMAIN afc : Acceptable(afc[j])

\* Mutant: rows are counted from one.
RowAfter(p) == p + 2

\* The row of a query for one time range: AFC_TODAY = 1 asks for row 0.
RowAt(p) == p + 1

\* It reads no further than that row ...
DayReadable(p) ==
  /\ exists
  /\ \A j \in DOMAIN afc : j <= RowAt(p) => Acceptable(afc[j])

\* ... and past the end of the file it falls through to "Unknown Uri".
UnknownUri(p) == DayReadable(p) /\ RowAt(p) > Len(afc)
-----------------------------------------------------------------------------
(* AdsenseClient and CleanThemeListItem. *)

\* AdsenseClient.onCreate, of a verified account.
ShowClient ==
  /\ day.shown = "no"
  /\ IF Listable THEN view' = "list" /\ list' = afc
                 ELSE view' = "splash" /\ list' = << >>
  /\ stale' = FALSE
  /\ UNCHANGED <<files, day>>

\* Mutant: positions are counted from one.
OnItemClickFromOne(p) ==
  /\ view = "list" /\ day.shown = "no"
  /\ p + 1 \in DOMAIN list
  /\ day' = [NoDay EXCEPT !.shown = "starting", !.position = p + 1]
  /\ UNCHANGED <<files, view, list, stale>>

OnItemClick(p) ==
  /\ view = "list" /\ day.shown = "no"
  /\ p + 1 \in DOMAIN list
  /\ day' = [NoDay EXCEPT !.shown = "starting", !.position = p]
  /\ UNCHANGED <<files, view, list, stale>>

\* onCreate of the screen: the title and the query are of the position clicked.
ShowDay ==
  /\ day.shown \in {"starting", "yes"}
  /\ LET position == day.position
     IN /\ ~ UnknownUri(position)
        /\ day' = [day EXCEPT !.shown = "yes", !.title = position + 1,
                     !.row = IF DayReadable(position) THEN afc[RowAt(position)] ELSE << >>]
  /\ UNCHANGED <<files, view, list, stale>>

CloseDay ==
  /\ day.shown = "yes"
  /\ day' = NoDay
  /\ UNCHANGED <<files, view, list, stale>>

\* The exception of the query ends the process, and so does the system: files
\* stay as they are, text a stream still kept is lost.
ProcessDies ==
  /\ merging' = FALSE
  /\ view' = "none" /\ list' = << >> /\ day' = NoDay
  /\ UNCHANGED <<exists, afc, stale>>

Next ==
  \/ OpenTable \/ CloseTable \/ DelAccountDir
  \/ ShowClient \/ ShowDay \/ CloseDay \/ ProcessDies
  \/ \E p \in 0 .. Ranges - 1 : OnItemClick(p)

Spec == Init /\ [][Next]_vars
-----------------------------------------------------------------------------
(* Properties. *)

WholeRow(i) == <<[of |-> "label", range |-> i]>> \o Figures("Totals", i)
                                               \o Figures("Averages", i)

\* A file of labels only: every report was a page of the web site.
LabelsOnly ==
  << [k \in 1 .. Ranges |-> [of |-> "label", range |-> k]]
     \o <<[of |-> "nothing", range |-> 0]>> >>

RowsWhole(rows) ==
  /\ \A j \in DOMAIN rows : rows[j] = WholeRow(rows[j][1].range)
  /\ \A j, k \in DOMAIN rows : j < k => rows[j][1].range < rows[k][1].range

\* Whatever of the reports is missing or is a page of the web site: a row of the
\* list has the label, the sums and the means of one time range, in the order the
\* layouts expect, and the time ranges come in their order, none of them twice.
\* The only guard is the provider's count of the fields of a row, and the only
\* table that gets by it is the one of labels.
ListRowsWhole == list # LabelsOnly => RowsWhole(list)

\* As long as afc.csv is the file the list was made of, a click finds the row it
\* was made on: two queries, one by rows, the other by the numbers of the time
\* ranges, agree, the second never runs past the end, and in a table that has all
\* rows the title is theirs too.
DayShowsClicked ==
  view = "list" /\ ~ stale /\ day.shown # "no" =>
    /\ ~ UnknownUri(day.position)
    /\ day.shown = "yes" =>
         /\ day.row = list[day.position + 1]
         /\ Len(list) = Ranges => day.row[1].range = day.title

\* CleanThemeListItem sets the title by the position, "case 0: ... Today": the
\* figures under a title are of that time range.  Refuted: see the README.
DayTitleOfItsRow ==
  day.shown = "yes" /\ day.row # << >> => day.row[1].range = day.title
=============================================================================
