---------------------------- MODULE BackupStore ----------------------------
(***************************************************************************)
(* The backups in the bucket and everyone who adds or removes them         *)
(* (src/src/backup: backup-export, -upload, -restore, -maintenance and     *)
(* -verification services, backup.service and backup.controller).          *)
(*                                                                         *)
(* A handler is cut at its awaits.  The content of a backup is reduced to  *)
(* the business changes it holds, whether it passes the verification       *)
(* (closed; BackupFormat says what that is) and whether it says to be of   *)
(* the whole site or of a season (content).  An export reads the tables    *)
(* without a snapshot, so a change made while it reads may leave           *)
(* references open.                                                        *)
(* Every request runs once, and the object it makes has the request's name.*)
(***************************************************************************)
EXTENDS BackupRetention

CONSTANTS
  Keepers,            \* deletion and retention requests
  Crons, Manuals,     \* scheduled and manual exports
  Restores,           \* restores; each makes a snapshot of its own first
  Tokens, Completes,  \* upload tokens, and requests that complete an upload
  Old,                \* the backups that are there at the start
  Changes,            \* business changes
  Silent,             \* those that leave no newer updatedAt: removed rows
  StartDay, LastDay,  \* bound of the clock
  MinInterval,        \* days between scheduled backups
  TokenDays,
  MaxRequests,        \* bound: how many requests (an upload is one) there are
  Faults,             \* of "unavailable", "lost", "crash"
  Nobody

Exports == Crons \cup Manuals \cup Restores
Names == {b.key : b \in Old} \cup Exports \cup Tokens \cup Completes
FullNames == {b.key : b \in {o \in Old : IsFull(o)}} \cup Exports \cup Completes

ASSUME StoreAssumption ==
  /\ StartDay \in Nat /\ LastDay \in Nat /\ MinInterval \in Nat \ {0} /\ TokenDays \in Nat
  /\ MaxRequests \in Nat /\ IsFiniteSet(Old)
  /\ Silent \subseteq Changes
  /\ Faults \subseteq {"unavailable", "lost", "crash"}
  /\ Nobody \notin Names \cup Keepers
  /\ \A b, c \in Old : b.key = c.key => b = c

(* Every object is named after the one request that makes it. *)
ASSUME NamesAssumption ==
  LET old == {b.key : b \in Old} IN
  /\ Crons \cap Manuals = {} /\ (Crons \cup Manuals) \cap Restores = {}
  /\ Tokens \cap Completes = {} /\ Exports \cap (Tokens \cup Completes) = {}
  /\ old \cap (Exports \cup Tokens \cup Completes) = {}

(* The backups of the start are older than it, and the scheduled ones are  *)
(* of this service.                                                        *)
ASSUME OldAssumption ==
  /\ \A b \in Old : b.time \in Int /\ b.time <= StartDay
  /\ \A a, b \in {o \in Old : o.purpose = "scheduled"} :
       IsFull(a) /\ (a # b => a.time > b.time + MinInterval \/ b.time > a.time + MinInterval)

VARIABLES
  stored,            \* the backups in the bucket
  now, tick,         \* the day; a stamp that orders changes and stored objects
  db, when,          \* changes the database holds, and the stamp of each
  keeper, job,       \* local state of the keepers and of the exports
  flight,            \* scheduledBackupInFlight
  token, complete,   \* upload tokens, and the requests that complete an upload
  restore, lock,     \* restores, and the advisory lock
  \* history
  disturbed          \* keepers whose count has been made wrong under them

vars == <<stored, now, tick, db, when, keeper, job, flight, token, complete,
          restore, lock, disturbed>>
world == <<now, tick, db, when>>
uploads == <<token, complete>>
restoring == <<restore, lock>>

FullBackups(backups) == {b \in backups : IsFull(b)}
ValidFull(backups) == {b \in FullBackups(backups) : b.closed}
Without(key) == {b \in stored : b.key # key}
KeySeq(list) == [i \in DOMAIN list |-> list[i].key]

Room ==
  Cardinality({k \in Keepers : keeper[k].pc # "idle"})
    + Cardinality({e \in Crons \cup Manuals : job[e].pc # "idle"})
    + Cardinality({t \in Tokens : token[t].day # 0})
    + Cardinality({r \in Restores : restore[r].pc # "idle"}) < MaxRequests

(* verifyBackupIntegrity: an object that has gone cannot be read. *)
Verifies(key) == \E b \in stored : b.key = key /\ b.closed

(* Mutant: being there is enough. *)
IsThere(key) == \E b \in stored : b.key = key

Formal(key, purpose, closed, holds) ==
  [key |-> key, dir |-> "database", scope |-> "full", purpose |-> purpose,
   protected |-> FALSE, time |-> now, stamp |-> tick + 1,
   closed |-> closed, holds |-> holds, content |-> "full"]

(* Somebody other than the keeper itself has removed a full backup. *)
Disturb(self) ==
  disturbed' = disturbed \cup
    {k \in Keepers \ {self} : /\ keeper[k].pc \in {"verify", "delete"}
                              /\ ~ FullBackups(stored) \subseteq stored'}

IdleKeeper == [pc |-> "idle", op |-> "none", todo |-> << >>, plan |-> << >>,
               valid |-> {}, newest |-> {}]
IdleJob == [pc |-> "idle", holds |-> {}, since |-> 0, latest |-> {}, missed |-> {}]

Init ==
  /\ stored = Old
  /\ now = StartDay /\ tick = 0
  /\ db = {} /\ when = [c \in Changes |-> 0]
  /\ keeper = [k \in Keepers |-> IdleKeeper]
  /\ job = [e \in Exports |-> IdleJob]
  /\ flight = Nobody
  /\ token = [t \in Tokens |-> [day |-> 0, put |-> FALSE]]
  /\ complete = [c \in Completes |-> [pc |-> "idle", token |-> Nobody]]
  /\ restore = [r \in Restores |-> [pc |-> "idle", holds |-> {}, at |-> 0]]
  /\ lock = Nobody
  /\ disturbed = {}

(***************************************************************************)
(* The world: days pass, rows change.  A writer that needs the rows a      *)
(* restore has locked waits for it.                                        *)
(***************************************************************************)
DayPasses ==
  /\ now < LastDay
  /\ now' = now + 1
  /\ UNCHANGED <<stored, tick, db, when, keeper, job, flight, uploads, restoring, disturbed>>

Change(c) ==
  /\ when[c] = 0 /\ lock = Nobody
  /\ db' = db \cup {c}
  /\ tick' = tick + 1
  /\ when' = [when EXCEPT ![c] = tick + 1]
  /\ UNCHANGED <<stored, now, keeper, job, flight, uploads, restoring, disturbed>>

(* getLatestBusinessChange: the newest updatedAt; 0 when there is none. *)
LatestBusinessChange ==
  LET stamps == {when[c] : c \in db \ Silent}
  IN  IF stamps = {} THEN 0 ELSE Max(stamps)

(***************************************************************************)
(* deleteBackup: list, check, read every other full backup, delete.        *)
(***************************************************************************)
StartDeletion(k, target) ==
  LET list == Listing({b \in stored : b.dir = "database"})
      rest == Entries(list, {i \in DOMAIN list : IsFull(list[i]) /\ list[i] # target})
  IN  /\ keeper[k].pc = "idle" /\ Room
      /\ target.dir = "database" /\ ~ target.protected
      /\ target \notin NewestFull(list)
      /\ Len(rest) >= 2
      /\ keeper' = [keeper EXCEPT ![k] =
           [pc |-> "verify", op |-> "deletion", todo |-> KeySeq(rest),
            plan |-> <<target.key>>, valid |-> {}, newest |-> {}]]
      /\ UNCHANGED <<stored, world, job, flight, uploads, restoring, disturbed>>

(***************************************************************************)
(* cleanRetention, not as a dry run: list (uploads too), plan, and read    *)
(* every full backup if a formal backup is to go.                          *)
(***************************************************************************)
StartRetention(k) ==
  LET list == Listing(stored)
      plan == CalculateRetentionPlan(list, now).planned
      counts == \E i \in DOMAIN plan : plan[i].dir = "database"
      full == Entries(list, {i \in DOMAIN list : IsFull(list[i])})
  IN  /\ keeper[k].pc = "idle" /\ Room
      /\ plan # << >>
      /\ keeper' = [keeper EXCEPT ![k] =
           [pc |-> "verify", op |-> "retention",
            todo |-> IF counts THEN KeySeq(full) ELSE << >>,
            plan |-> KeySeq(plan), valid |-> {},
            newest |-> {b.key : b \in NewestFull(list)}]]
      /\ UNCHANGED <<stored, world, job, flight, uploads, restoring, disturbed>>

(* Mutant: an object that is listed counts as a restore point. *)
VerifyByListing(k) ==
  /\ keeper[k].pc = "verify"
  /\ IF keeper[k].todo = << >>
       THEN keeper' = [keeper EXCEPT ![k].pc = "delete"]
       ELSE LET key == Head(keeper[k].todo) IN
            keeper' = [keeper EXCEPT ![k].todo = Tail(@),
                                     ![k].valid = IF IsThere(key) THEN @ \cup {key} ELSE @]
  /\ UNCHANGED <<stored, world, job, flight, uploads, restoring, disturbed>>

VerifyNext(k) ==
  /\ keeper[k].pc = "verify"
  /\ IF keeper[k].todo = << >>
       THEN keeper' = [keeper EXCEPT ![k].pc = "delete"]
       ELSE LET key == Head(keeper[k].todo) IN
            keeper' = [keeper EXCEPT ![k].todo = Tail(@),
                                     ![k].valid = IF Verifies(key) THEN @ \cup {key} ELSE @]
  /\ UNCHANGED <<stored, world, job, flight, uploads, restoring, disturbed>>

(* The store cannot be reached: the request fails.  A stream that breaks  *)
(* off later only makes this backup count as broken.                       *)
VerifyUnavailable(k) ==
  /\ "unavailable" \in Faults
  /\ keeper[k].pc = "verify" /\ keeper[k].todo # << >>
  /\ \/ keeper' = [keeper EXCEPT ![k] = [IdleKeeper EXCEPT !.pc = "done"]]
     \/ keeper' = [keeper EXCEPT ![k].todo = Tail(@)]
  /\ UNCHANGED <<stored, world, job, flight, uploads, restoring, disturbed>>

Doomed(k) == Head(keeper[k].plan)

(* Two good restore points stay behind.  Retention asks this only for a   *)
(* full backup, and never removes the newest one it has listed.           *)
MayDelete(k) ==
  LET key == Doomed(k)
      left == Cardinality(keeper[k].valid \ {key}) >= 2
  IN  IF keeper[k].op = "deletion" THEN left
      ELSE key \notin keeper[k].newest /\ (key \in FullNames => left)

Proceed(k) ==
  IF keeper[k].op = "deletion" \/ Len(keeper[k].plan) = 1
    THEN [IdleKeeper EXCEPT !.pc = "done"]
    ELSE [keeper[k] EXCEPT !.plan = Tail(@)]

Delete(k) ==
  /\ keeper[k].pc = "delete" /\ MayDelete(k)
  /\ stored' = Without(Doomed(k))
  /\ keeper' = [keeper EXCEPT ![k] =
       IF Proceed(k).pc = "done" THEN Proceed(k)
       ELSE [Proceed(k) EXCEPT !.valid = @ \ {Doomed(k)}]]
  /\ Disturb(k)
  /\ UNCHANGED <<world, job, flight, uploads, restoring>>

Skip(k) ==
  /\ keeper[k].pc = "delete" /\ ~ MayDelete(k)
  /\ keeper' = [keeper EXCEPT ![k] = Proceed(k)]
  /\ UNCHANGED <<stored, world, job, flight, uploads, restoring, disturbed>>

(* The deletion takes effect and the answer is lost: retention goes on as *)
(* if the object were still there.                                        *)
DeleteUnanswered(k) ==
  /\ "lost" \in Faults
  /\ keeper[k].pc = "delete" /\ MayDelete(k)
  /\ stored' = Without(Doomed(k))
  /\ keeper' = [keeper EXCEPT ![k] = Proceed(k)]
  /\ disturbed' = disturbed \cup {k} \cup
       {j \in Keepers : keeper[j].pc \in {"verify", "delete"} /\ ~ FullBackups(stored) \subseteq stored'}
  /\ UNCHANGED <<world, job, flight, uploads, restoring>>

(***************************************************************************)
(* createBackup: read page by page, upload, verify, and remove what does   *)
(* not verify.                                                             *)
(***************************************************************************)
Begin(e) == [job EXCEPT ![e] = [pc |-> "reading", holds |-> db, since |-> tick,
                                latest |-> {}, missed |-> {}]]

StartManual(e) ==
  /\ e \in Manuals /\ job[e].pc = "idle" /\ Room
  /\ job' = Begin(e)
  /\ UNCHANGED <<stored, world, keeper, flight, uploads, restoring, disturbed>>

Purpose(e) == IF e \in Crons THEN "scheduled"
              ELSE IF e \in Restores THEN "pre-restore" ELSE "manual"

(* Rows have been removed, by a change or a restore, since e began to read. *)
RowsRemoved(e) ==
  \/ \E c \in Silent : when[c] > job[e].since
  \/ \E q \in Restores : restore[q].pc = "done" /\ restore[q].at > job[e].since

(* What was read in part before a change and in part after it may not fit. *)
(* If the row at the cursor is removed, the rest of its table is missed.   *)
FinishUpload(e) ==
  /\ job[e].pc = "reading"
  /\ \E closed \in BOOLEAN, missed \in SUBSET (job[e].holds \cap db) :
       LET holds == (job[e].holds \cap db) \ missed IN
       /\ missed # {} => RowsRemoved(e)
       /\ closed \/ db # job[e].holds \/ missed # {}
       /\ stored' = stored \cup {Formal(e, Purpose(e), closed, holds)}
       /\ job' = [job EXCEPT ![e] = [@ EXCEPT !.pc = "uploaded", !.holds = holds, !.missed = missed]]
  /\ tick' = tick + 1
  /\ UNCHANGED <<now, db, when, keeper, flight, uploads, restoring, disturbed>>

(* A finished scheduled export answers everyone who joined it. *)
Settle(e, pc) ==
  /\ job' = [f \in Exports |->
       IF f = e \/ (flight = e /\ job[f].pc = "joined")
         THEN [job[e] EXCEPT !.pc = pc, !.latest = {}]
         ELSE job[f]]
  /\ flight' = IF flight = e THEN Nobody ELSE flight

(* The reader has gone, or the upload fails: nothing has been stored. *)
AbortUpload(e) ==
  /\ job[e].pc = "reading"
  /\ Settle(e, "failed")
  /\ UNCHANGED <<stored, world, keeper, uploads, restoring, disturbed>>

(* Mutant: what has been uploaded is not read back. *)
AnswerUnverified(e) ==
  /\ job[e].pc = "uploaded"
  /\ Settle(e, "answered")
  /\ UNCHANGED <<stored, world, keeper, uploads, restoring, disturbed>>

AnswerVerified(e) ==
  /\ job[e].pc = "uploaded" /\ Verifies(e)
  /\ Settle(e, "answered")
  /\ UNCHANGED <<stored, world, keeper, uploads, restoring, disturbed>>

(* It does not verify, or cannot be read: it is removed again. *)
Withdraw(e) ==
  /\ job[e].pc = "uploaded"
  /\ ~ Verifies(e) \/ "unavailable" \in Faults
  /\ \/ stored' = Without(e)
     \/ "unavailable" \in Faults /\ stored' = stored
  /\ Settle(e, "failed")
  /\ Disturb(Nobody)
  /\ UNCHANGED <<world, keeper, uploads, restoring>>

(***************************************************************************)
(* autoBackup and createScheduledBackup.  A call that finds one in flight  *)
(* waits for it; the process keeps at most one.                            *)
(***************************************************************************)
LatestScheduled ==
  LET list == {b \in stored : IsFull(b) /\ b.purpose = "scheduled"}
  IN  IF list = {} THEN {} ELSE {CHOOSE b \in list : \A o \in list : b.time >= o.time}

CronJoins(e) ==
  /\ e \in Crons /\ job[e].pc = "idle" /\ Room /\ flight # Nobody
  /\ job' = [job EXCEPT ![e].pc = "joined"]
  /\ UNCHANGED <<stored, world, keeper, flight, uploads, restoring, disturbed>>

(* Mutant: every call runs a scheduled backup of its own. *)
CronListsAlways(e) ==
  /\ e \in Crons /\ job[e].pc = "idle" /\ Room
  /\ LET recent == {b \in LatestScheduled : b.time >= now - MinInterval} IN
     job' = [job EXCEPT ![e].pc = IF recent # {} THEN "reused" ELSE "comparing",
                        ![e].latest = LatestScheduled \ recent]
  /\ UNCHANGED <<stored, world, keeper, flight, uploads, restoring, disturbed>>

CronLists(e) ==
  /\ e \in Crons /\ job[e].pc = "idle" /\ Room /\ flight = Nobody
  /\ LET recent == {b \in LatestScheduled : b.time >= now - MinInterval} IN
     /\ job' = [job EXCEPT ![e].pc = IF recent # {} THEN "reused" ELSE "comparing",
                           ![e].latest = LatestScheduled \ recent]
     /\ flight' = IF recent # {} THEN Nobody ELSE e
  /\ UNCHANGED <<stored, world, keeper, uploads, restoring, disturbed>>

CronReuses(e) ==
  /\ job[e].pc = "comparing"
  /\ \E b \in job[e].latest : LatestBusinessChange <= b.stamp
  /\ Settle(e, "unchanged")
  /\ UNCHANGED <<stored, world, keeper, uploads, restoring, disturbed>>

CronExports(e) ==
  /\ job[e].pc = "comparing"
  /\ \A b \in job[e].latest : LatestBusinessChange > b.stamp
  /\ job' = Begin(e)
  /\ UNCHANGED <<stored, world, keeper, flight, uploads, restoring, disturbed>>

(***************************************************************************)
(* Uploads: a token, the client's PUT (once), and completeUpload.          *)
(***************************************************************************)
InitUpload(t) ==
  /\ token[t].day = 0 /\ Room
  /\ token' = [token EXCEPT ![t].day = now]
  /\ UNCHANGED <<stored, world, keeper, job, flight, complete, restoring, disturbed>>

ClientPut(t) ==
  /\ token[t].day # 0 /\ ~ token[t].put /\ now <= token[t].day + TokenDays
  /\ token' = [token EXCEPT ![t].put = TRUE]
  /\ \E closed \in BOOLEAN, content \in {"full", "season"} :
       stored' = stored \cup {[Formal(t, "uploaded", closed, {})
                               EXCEPT !.dir = "uploads", !.content = content]}
  /\ tick' = tick + 1
  /\ UNCHANGED <<now, db, when, keeper, job, flight, complete, restoring, disturbed>>

(* Expired, of the wrong size, or not a backup: the temporary goes. *)
RefuseUpload(c, t) ==
  /\ complete[c].pc = "idle" /\ token[t].day # 0
  /\ now > token[t].day + TokenDays \/ ~ Verifies(t)
  /\ complete' = [complete EXCEPT ![c] = [pc |-> "failed", token |-> t]]
  /\ stored' = Without(t)
  /\ UNCHANGED <<world, keeper, job, flight, token, restoring, disturbed>>

UploadUnavailable(c, t) ==
  /\ "unavailable" \in Faults
  /\ complete[c].pc = "idle" /\ token[t].day # 0
  /\ complete' = [complete EXCEPT ![c] = [pc |-> "failed", token |-> t]]
  /\ UNCHANGED <<stored, world, keeper, job, flight, token, restoring, disturbed>>

(* What it says to be a backup of is not asked. *)
AcceptUpload(c, t) ==
  /\ complete[c].pc = "idle" /\ token[t].day # 0
  /\ now <= token[t].day + TokenDays /\ Verifies(t)
  /\ complete' = [complete EXCEPT ![c] = [pc |-> "copy", token |-> t]]
  /\ UNCHANGED <<stored, world, keeper, job, flight, token, restoring, disturbed>>

(* The copy fails if another completion has taken the temporary away, and  *)
(* may fail after it has taken effect.                                     *)
CopyUpload(c) ==
  LET source == {b \in stored : b.key = complete[c].token} IN
  /\ complete[c].pc = "copy"
  /\ stored' = stored \cup {[Formal(c, "uploaded", b.closed, b.holds)
                             EXCEPT !.content = b.content] : b \in source}
  /\ tick' = tick + 1
  /\ \/ complete' = [complete EXCEPT ![c].pc = IF source = {} THEN "failed" ELSE "copied"]
     \/ "lost" \in Faults /\ complete' = [complete EXCEPT ![c].pc = "failed"]
  /\ UNCHANGED <<now, db, when, keeper, job, flight, token, restoring, disturbed>>

FinishUploadOf(c) ==
  /\ complete[c].pc = "copied"
  /\ \/ /\ IsThere(c)
        /\ stored' = Without(complete[c].token)
        /\ complete' = [complete EXCEPT ![c].pc = "answered"]
     \/ /\ ~ IsThere(c) \/ "unavailable" \in Faults
        /\ complete' = [complete EXCEPT ![c].pc = "failed"]
        /\ UNCHANGED stored
  /\ UNCHANGED <<world, keeper, job, flight, token, restoring, disturbed>>

(***************************************************************************)
(* restoreBackup: read and verify, take a snapshot, replace everything in  *)
(* one transaction that holds the advisory lock.                           *)
(***************************************************************************)
ReadBackup(r, b) ==
  /\ restore[r].pc = "idle" /\ Room
  /\ b.dir = "database"
  /\ IF b.closed /\ b.content = "full"
       THEN /\ restore' = [restore EXCEPT ![r] = [pc |-> "snapshot", holds |-> b.holds, at |-> 0]]
            /\ job' = Begin(r)
       ELSE /\ restore' = [restore EXCEPT ![r].pc = "refused"]
            /\ UNCHANGED job
  /\ UNCHANGED <<stored, world, keeper, flight, uploads, lock, disturbed>>

SnapshotFails(r) ==
  /\ restore[r].pc = "snapshot" /\ job[r].pc = "failed"
  /\ restore' = [restore EXCEPT ![r].pc = "failed"]
  /\ UNCHANGED <<stored, world, keeper, job, flight, uploads, lock, disturbed>>

(* Mutant: a snapshot that failed does not stop the restore. *)
BeginTransactionAnyway(r) ==
  /\ restore[r].pc = "snapshot" /\ job[r].pc \in {"answered", "failed"}
  /\ restore' = [restore EXCEPT ![r].pc = IF lock = Nobody THEN "tx" ELSE "failed"]
  /\ lock' = IF lock = Nobody THEN r ELSE lock
  /\ UNCHANGED <<stored, world, keeper, job, flight, uploads, disturbed>>

BeginTransaction(r) ==
  /\ restore[r].pc = "snapshot" /\ job[r].pc = "answered"
  /\ restore' = [restore EXCEPT ![r].pc = IF lock = Nobody THEN "tx" ELSE "failed"]
  /\ lock' = IF lock = Nobody THEN r ELSE lock
  /\ UNCHANGED <<stored, world, keeper, job, flight, uploads, disturbed>>

Commit(r) ==
  /\ restore[r].pc = "tx"
  /\ db' = restore[r].holds
  /\ lock' = Nobody
  /\ tick' = tick + 1
  /\ restore' = [restore EXCEPT ![r].pc = "done", ![r].at = tick + 1]
  /\ UNCHANGED <<stored, now, when, keeper, job, flight, uploads, disturbed>>

(* A statement fails, or the transaction takes too long. *)
Rollback(r) ==
  /\ restore[r].pc = "tx"
  /\ lock' = Nobody
  /\ restore' = [restore EXCEPT ![r].pc = "failed"]
  /\ UNCHANGED <<stored, world, keeper, job, flight, uploads, disturbed>>

(* The process ends: the requests it served are gone, what they stored     *)
(* stays, the database rolls an open transaction back.                     *)
Stopped(pc, busy) == IF pc \in busy THEN "dead" ELSE pc

Crash ==
  /\ "crash" \in Faults
  /\ \/ \E e \in Exports : job[e].pc \in {"reading", "uploaded"}
     \/ \E k \in Keepers : keeper[k].pc \in {"verify", "delete"}
  /\ keeper' = [k \in Keepers |-> [keeper[k] EXCEPT !.pc = Stopped(@, {"verify", "delete"})]]
  /\ job' = [e \in Exports |->
       [job[e] EXCEPT !.pc = Stopped(@, {"reading", "uploaded", "joined", "comparing"})]]
  /\ complete' = [c \in Completes |-> [complete[c] EXCEPT !.pc = Stopped(@, {"copy", "copied"})]]
  /\ restore' = [r \in Restores |-> [restore[r] EXCEPT !.pc = Stopped(@, {"snapshot", "tx"})]]
  /\ flight' = Nobody /\ lock' = Nobody
  /\ UNCHANGED <<stored, world, token, disturbed>>

(* Everybody has been served: nothing is left to do but to wait. *)
Quiet ==
  /\ now = LastDay
  /\ UNCHANGED vars

KeeperNext(k) ==
  \/ \E b \in stored : StartDeletion(k, b)
  \/ StartRetention(k)
  \/ VerifyNext(k) \/ VerifyUnavailable(k)
  \/ Delete(k) \/ Skip(k) \/ DeleteUnanswered(k)

ExportNext(e) ==
  \/ StartManual(e) \/ FinishUpload(e) \/ AbortUpload(e)
  \/ AnswerVerified(e) \/ Withdraw(e)
  \/ CronJoins(e) \/ CronLists(e) \/ CronReuses(e) \/ CronExports(e)

UploadNext ==
  \/ \E t \in Tokens : InitUpload(t) \/ ClientPut(t)
  \/ \E c \in Completes : CopyUpload(c) \/ FinishUploadOf(c)
  \/ \E c \in Completes, t \in Tokens :
       RefuseUpload(c, t) \/ UploadUnavailable(c, t) \/ AcceptUpload(c, t)

RestoreNext(r) ==
  \/ \E b \in stored : ReadBackup(r, b)
  \/ SnapshotFails(r) \/ BeginTransaction(r) \/ Commit(r) \/ Rollback(r)

Next ==
  \/ DayPasses \/ Crash \/ Quiet
  \/ \E c \in Changes : Change(c)
  \/ \E k \in Keepers : KeeperNext(k)
  \/ \E e \in Exports : ExportNext(e)
  \/ UploadNext
  \/ \E r \in Restores : RestoreNext(r)

Spec == Init /\ [][Next]_vars

-----------------------------------------------------------------------------
KeeperRemoves(k) == keeper'[k] # keeper[k] /\ stored' # stored

(* A request that removes a full backup leaves two that verify, unless     *)
(* its count has been made wrong before: somebody else took one away, or   *)
(* the answer to its own removal was lost (deleteBackup and cleanRetention *)
(* count before they remove).  And every full backup is outlived by one    *)
(* that is as young, whatever was added since the bucket was listed.       *)
RestorePointsStay ==
  [][\A k \in Keepers : KeeperRemoves(k) /\ k \notin disturbed =>
       /\ ~ FullBackups(stored) \subseteq stored' => Cardinality(ValidFull(stored')) >= 2
       /\ \A o \in FullBackups(stored) : \E b \in FullBackups(stored') : b.time >= o.time]_vars

(* What an export or a completed upload was answered with is a backup that *)
(* verifies for as long as it is there.                                    *)
AnsweredIsWhole ==
  \A b \in stored :
    (b.key \in Exports /\ job[b.key].pc = "answered")
      \/ (b.key \in Completes /\ complete[b.key].pc = "answered")
    => b.closed

(* One process keeps scheduled backups further apart than the interval,    *)
(* however many calls arrive at once.                                      *)
OneScheduled ==
  \A a, b \in {o \in stored : o.purpose = "scheduled"} :
    a # b => a.time > b.time + MinInterval \/ b.time > a.time + MinInterval

(* A restore that was committed after stamp s has brought c back. *)
BroughtBack(c, s) ==
  \E q \in Restores : restore[q].pc = "done" /\ restore[q].at > s /\ c \in restore[q].holds

(* What a restore replaces has been saved before, unless it was written,   *)
(* or brought back by another restore, after this one began its snapshot,  *)
(* or lay behind a row that was removed while the snapshot was read.       *)
RestoreKeepsTrace ==
  [][\A c \in db \ db' : \E r \in Restores :
       /\ restore[r].pc = "tx" /\ restore'[r].pc = "done"
       /\ \/ job[r].pc = "answered" /\ c \in job[r].holds \cup job[r].missed
          \/ when[c] > job[r].since \/ BroughtBack(c, job[r].since)]_vars
=============================================================================
