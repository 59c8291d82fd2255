SPECIFICATION Spec
CONSTANTS
  b1 = b1  r1 = r1  r2 = r2  r3 = r3  f1 = f1  i1 = i1  i2 = i2  m1 = m1
  NoBatch = NoBatch
  Batches = {b1}
  Requests = {r1, r2, r3}
  Forms = {f1}
  Extracted = {i1, i2}
  Manual = {m1}
SYMMETRY Interchangeable
INVARIANTS CommittedWhole Recoverable PreviewIsViewable
CHECK_DEADLOCK FALSE
