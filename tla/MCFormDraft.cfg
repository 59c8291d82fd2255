SPECIFICATION Spec
CONSTANTS
  d1 = d1  d2 = d2  h1 = h1  h2 = h2  h3 = h3  s1 = s1  t1 = t1  r0 = r0
  NoOne = NoOne
  Drafts = {d1, d2}
  Handlers = {h1, h2}
  Savers = {s1}
  Temps = {t1}
  Existing = {r0}
  Inputs = {t1, "PLAIN"}
SYMMETRY Interchangeable
INVARIANTS OneRecord LinkedToItsRecord ImagesInUseKept
CHECK_DEADLOCK FALSE
