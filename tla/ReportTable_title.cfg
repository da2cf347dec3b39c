SPECIFICATION Spec
CONSTANTS
  Ranges = 6
  Fetched <- ReportOnly
INVARIANTS DayTitleOfItsRow
