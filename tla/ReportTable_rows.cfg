SPECIFICATION Spec
CONSTANTS
  Ranges = 6
  Fetched <- ReportOrPage
INVARIANTS TypeOK ListRowsWhole DayShowsClicked
