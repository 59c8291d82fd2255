SPECIFICATION RestoreSpec
CONSTANTS
  a1 = a1  a2 = a2  m1 = m1  r1 = r1  w1 = w1
  NoOne = NoOne
  Assets = {a1, a2}
  Members = {m1}
  LegacyMembers = {}
  Requests = {r1}
  Workers = {w1}
  Quota = 2
  BatchLimit = 2
  MaxRestores = 1
SYMMETRY Interchangeable
INVARIANT RestoredMaterialFits
CHECK_DEADLOCK FALSE
CONSTRAINT NoneDisabled
