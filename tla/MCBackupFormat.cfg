SPECIFICATION FormatSpec
CONSTANTS
  Candidates <- MCCandidates
  NewName = "c"
  Seasons = {0, 1, 2}
  PageSize = 1
  Budget = 7
INVARIANTS NothingIsMissed QuietExportIsAccepted AcceptedIsWhole AcceptedRestores
CHECK_DEADLOCK FALSE
