SPECIFICATION HistorySpec
CONSTANTS
  Files <- MCFiles
  SeasonOf <- MCSeasonOf
  TeamsOf <- MCTeamsOf
  TeamOf <- MCTeamOf
  Old <- MCOld
  Strangers <- MCStrangers
  Undoers = {u1, u2}
  MaxImports = 3
  MaxEdits = 2
  NoRow = NoRow
SYMMETRY Symmetry
INVARIANT UndoIsPossible
PROPERTIES UndoRestores UndoTakesNoBystander
CHECK_DEADLOCK FALSE
