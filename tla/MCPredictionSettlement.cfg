SPECIFICATION Spec
CONSTANTS
  u1 = u1  u2 = u2  e1 = e1  e2 = e2  x1 = x1
  NoOne = NoOne
  Users = {u1}
  Edits = {e1, e2}
  Recalcs = {x1}
SYMMETRY Interchangeable
INVARIANTS SettledByResult OnlyRecalcRevives
CHECK_DEADLOCK FALSE
