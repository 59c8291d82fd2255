-------------------------- MODULE CampusCardRestore --------------------------
(***************************************************************************)
(* The campus-card ledger under a full restore of the database.  Backups   *)
(* hold the accounts and not the ledger (the ledger outlives both), so a   *)
(* restore takes the accounts back in time, keeps the ledger and hands the *)
(* material that still exists to the cleanup                               *)
(* (src/src/backup/backup-restore.service.ts).                             *)
(*                                                                         *)
(* The restore is one transaction at READ COMMITTED, cut here at its       *)
(* statements: each sees what has been committed by then, what it has      *)
(* written is locked, and nobody sees it before the commit.                *)
(***************************************************************************)
EXTENDS CampusCard

CONSTANT MaxRestores    \* bound: restores in a behaviour

VARIABLES
  saved,     \* the accounts in the last full backup
  restores,
  phase,     \* the restore: idle, handed (ledger updated), deleted (accounts too)
  file,      \* the accounts it brings back, NoOne between restores
  held,      \* ledger rows it has updated
  removed,   \* accounts it has deleted
  \* history
  fresh,     \* rows that did not exist when it updated the ledger
  slipped    \* rows it missed: staged after that, bound before the accounts went

savedVars   == <<saved, restores>>
sessionVars == <<phase, file, held, removed, fresh, slipped>>
restoreVars == <<savedVars, sessionVars>>

Accounts == [status |-> status, ver |-> ver, comment |-> comment, disabled |-> disabled]

RestoreInit ==
  /\ Init
  /\ saved = Accounts /\ restores = 0
  /\ phase = "idle" /\ file = NoOne
  /\ held = {} /\ removed = {} /\ fresh = {} /\ slipped = {}

\* Only backups that a restore may still use are of interest.
TakeBackup ==
  /\ restores < MaxRestores
  /\ saved # Accounts
  /\ saved' = Accounts
  /\ UNCHANGED <<vars, restores, sessionVars>>

-----------------------------------------------------------------------------
\* Mutant: only material past its retention is handed over.
HandedOverWhenDue == {a \in Unreleased : due[a]}
HandedOver == Unreleased

\* The ledger's updateMany.  The advisory lock keeps other restores out.
UpdateLedger ==
  /\ phase = "idle" /\ restores < MaxRestores
  /\ restores' = restores + 1
  /\ phase' = "handed"
  /\ file' = saved
  /\ held' = HandedOver
  /\ fresh' = {a \in Assets : state[a] = "FREE"}
  /\ UNCHANGED <<vars, saved, removed, slipped>>

Present(m) == status[m] \notin {"NONE", "GONE"}

\* deleteMany on the accounts, in a snapshot of its own.
DeleteAccounts ==
  /\ phase = "handed"
  /\ phase' = "deleted"
  /\ removed' = {m \in Members : Present(m)}
  /\ UNCHANGED <<vars, savedVars, file, held, fresh, slipped>>

InFile(m) == file.status[m] \notin {"NONE", "GONE"}

\* Mutant: the accounts are in the file, so they come back as they were there.
BroughtBackAsIs(m) == IF InFile(m) THEN file.status[m] ELSE "GONE"
BroughtBack(m) == IF ~InFile(m) THEN "GONE"
                  ELSE IF file.status[m] = "PENDING" THEN "CHANGES_REQUESTED"
                  ELSE file.status[m]

EndRestore ==
  /\ phase' = "idle"
  /\ file' = NoOne
  /\ held' = {} /\ removed' = {} /\ fresh' = {}
  /\ UNCHANGED savedVars

\* The accounts of the file are inserted (one that exists breaks a unique
\* column) and all of it is committed.  Accounts under review are asked for
\* their card again; who registered after the deletion stays.  Handlers and
\* cleanup runs go on with what they have read; leases and uploadSettled are
\* not touched.
CommitRestore ==
  LET written == removed \cup {m \in Members : InFile(m)} IN
  /\ phase = "deleted"
  /\ \A m \in Members \ removed : InFile(m) => ~Present(m)
  /\ status' = [m \in Members |-> IF m \in written THEN BroughtBack(m) ELSE status[m]]
  /\ comment' = [m \in Members |-> IF m \notin written THEN comment[m]
                                   ELSE IF file.status[m] = "PENDING" THEN "restored"
                                   ELSE file.comment[m]]
  /\ ver' = [m \in Members |-> IF m \in written THEN file.ver[m] ELSE ver[m]]
  /\ disabled' = [m \in Members |-> IF m \in written THEN file.disabled[m] ELSE disabled[m]]
  /\ state' = [a \in Assets |-> IF a \in held THEN "DELETE_PENDING" ELSE state[a]]
  /\ due' = [a \in Assets |-> due[a] \/ a \in held]
  /\ backoff' = [a \in Assets |-> backoff[a] /\ a \notin held]
  /\ slipped' = slipped \cup {a \in fresh : state[a] = "READY" /\ owner[a] \in removed}
  /\ EndRestore
  /\ UNCHANGED <<settled, lease, owner, version, storeVars, reqVars, workVars>>

\* A statement fails, the transaction times out or its process dies.
RollBack == phase # "idle" /\ EndRestore /\ UNCHANGED <<vars, slipped>>

-----------------------------------------------------------------------------
TimePasses == \E a \in Assets : LeaseExpires(a) \/ Mature(a) \/ BackoffElapses(a)

\* Everybody else's updates of rows the restore has written wait for its end;
\* renewing a lease is such an update.
Waits ==
  /\ \A a \in held : /\ UNCHANGED <<state[a], settled[a], lease[a], due[a], backoff[a],
                                    owner[a], version[a]>>
                     /\ \A r \in Requests : rasset[r] = a /\ rpc[r] = "settled" => rpc'[r] # "staged"
  /\ \A m \in removed : UNCHANGED <<status[m], ver[m], comment[m], disabled[m]>>

RestoreNext ==
  \/ (TimePasses \/ (Next /\ Waits)) /\ UNCHANGED restoreVars
  \/ TakeBackup \/ UpdateLedger \/ DeleteAccounts \/ CommitRestore \/ RollBack

RestoreSpec == RestoreInit /\ [][RestoreNext]_<<vars, restoreVars>>

-----------------------------------------------------------------------------
\* Ledger and accounts agree across restores as well, whatever uploads,
\* reviews and cleanups run between the restore's statements: an account has
\* at most one material ready, of its current version, an approved one none,
\* and a reviewer finds the row of the version under review.  A row bound
\* between the ledger's update and the deletion of the accounts is missed.
RestoredMaterialFits ==
  /\ \A a \in Assets \ slipped : state[a] = "READY" =>
       /\ owner[a] \in Members
       /\ version[a] = ver[owner[a]]
       /\ status[owner[a]] \in {"PENDING", "CHANGES_REQUESTED"}
       /\ \A b \in Assets \ {a} : state[b] = "READY" => owner[b] # owner[a]
  /\ \A a \in Assets \ slipped : owner[a] \in Members /\ status[owner[a]] = "APPROVED" =>
       state[a] \in {"DELETE_PENDING", "DELETED"}
  /\ PendingHasMaterial

=============================================================================
