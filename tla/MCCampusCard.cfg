SPECIFICATION Spec
CONSTANTS
  a1 = a1  a2 = a2  a3 = a3  m1 = m1  m2 = m2  r1 = r1  r2 = r2  w1 = w1  w2 = w2
  NoOne = NoOne
  Assets = {a1, a2, a3}
  Members = {m1}
  LegacyMembers = {}
  Requests = {r1, r2}
  Workers = {w1}
  Quota = 2
  BatchLimit = 1
SYMMETRY Interchangeable
INVARIANTS TypeOK DeletedMeansGone ReadyIsStored MaterialFits QuotaSafe ExpiryIsTrue
PROPERTY CleanupIsFinal
CHECK_DEADLOCK FALSE
CONSTRAINT InTurn
