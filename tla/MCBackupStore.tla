--------------------------- MODULE MCBackupStore ---------------------------
(***************************************************************************)
(* A bucket with four backups: two manual ones, one of them broken, the    *)
(* last scheduled one and a snapshot that was taken before a restore.      *)
(***************************************************************************)
EXTENDS BackupStore, FiniteSetsExt

MCBackup(key, purpose, time, closed) ==
  [key |-> key, dir |-> "database", scope |-> "full", purpose |-> purpose,
   protected |-> FALSE, time |-> time, stamp |-> 0,
   closed |-> closed, holds |-> {}, content |-> "full"]

MCOld == {MCBackup("b1", "manual", 1, TRUE), MCBackup("b2", "manual", 2, FALSE),
          MCBackup("b3", "pre-restore", 3, TRUE), MCBackup("b4", "scheduled", 4, TRUE)}

(***************************************************************************)
(* The plan, worked out by the loop, is the policy of the service's        *)
(* comment: for every listing of up to four backups of these kinds, with   *)
(* one weekly slot and two monthly ones.                                   *)
(***************************************************************************)
R == INSTANCE BackupRetention WITH
  DaysPerWeek <- 2, DaysPerMonth <- 4, UploadDays <- 1, SnapshotDays <- 2,
  WeeklySlots <- 1, MonthlySlots <- 2

MCKinds ==
  {[dir |-> "uploads", scope |-> "full", purpose |-> "uploaded", protected |-> FALSE],
   [dir |-> "database", scope |-> "full", purpose |-> "manual", protected |-> FALSE],
   [dir |-> "database", scope |-> "full", purpose |-> "manual", protected |-> TRUE],
   [dir |-> "database", scope |-> "full", purpose |-> "pre-restore", protected |-> FALSE],
   [dir |-> "database", scope |-> "s", purpose |-> "manual", protected |-> FALSE]}

At(kind, day) ==
  [dir |-> kind.dir, scope |-> kind.scope, purpose |-> kind.purpose,
   protected |-> kind.protected, time |-> day]

ASSUME PlanFollowsPolicy ==
  \A days \in UNION {kSubset(n, 0..6) : n \in 0..4} : \A kind \in [days -> MCKinds] :
    LET list == R!Listing({At(kind[d], d) : d \in days})
    IN  ToSet(R!CalculateRetentionPlan(list, 7).kept) = {list[i] : i \in R!PolicyKeeps(list, 7)}
=============================================================================
