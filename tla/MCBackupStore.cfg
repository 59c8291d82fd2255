SPECIFICATION Spec
CONSTANTS
  DaysPerWeek = 2
  DaysPerMonth = 8
  UploadDays = 0
  SnapshotDays = 1
  WeeklySlots = 1
  MonthlySlots = 0
  Keepers = {k1, k2}
  Crons = {cron1, cron2}
  Manuals = {m}
  Restores = {r1}
  Tokens = {t}
  Completes = {c}
  Old <- MCOld
  Changes = {x, y}
  Silent = {y}
  StartDay = 6
  LastDay = 7
  MinInterval = 1
  TokenDays = 0
  MaxRequests = 2
  Faults = {"unavailable", "lost", "crash"}
  Nobody = Nobody
PROPERTIES RestorePointsStay RestoreKeepsTrace
INVARIANTS AnsweredIsWhole OneScheduled
