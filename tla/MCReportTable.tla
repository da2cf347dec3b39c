--------------------------- MODULE MCReportTable ---------------------------
(* Small instances of ReportTable for TLC. *)
EXTENDS ReportTable

\* A report of two days.
Report == <<"Date", "other", "other", "Totals", "Averages">>

\* A page of the web site, or a report that lost its end: none of the words
\* create_report looks for.
Page == <<"other", "other">>

ReportOnly == {Report}
ReportOrPage == {Report, Page}
=============================================================================
