# A verification project for the campus-football backend

This directory holds TLA+ models of `src/`, the NestJS / Prisma backend of a
campus football platform: what they leave out, what TLC checks of them and what
TLAPS proves. Paths below are relative to the repository (`src/src/...` is the
TypeScript source).

## 1. The system

The server is stateless between requests: its state is a PostgreSQL database, an
S3-compatible object store with a public and a private bucket, and a few
in-process counters. Requests run concurrently, on one or on several server
processes (the deployment documents describe both a long-lived server and
serverless functions), and every `await` lets others run. Transactions are READ
COMMITTED unless the code asks for SERIALIZABLE. Schedulers call internal
endpoints for the cleanup of campus cards and for backups.

| Component | State it keeps | Operations | Interacts with |
|---|---|---|---|
| Campus-card material (`members/member.service.ts`) | `CampusCardAsset` rows (the ledger), `MemberAccount` verification | register, resubmit, review, setDisabled, cleanup | private bucket, restore, predictions (only approved members predict) |
| Card store (`members/card-store.service.ts`) | objects of the private bucket | put, read, remove (DELETE then HEAD) | ledger |
| Upload ingress (`members/upload-ingress.guard.ts`) | per request: closed flag, deadline, slot | canActivate, close / finish / error events | limiter |
| Concurrency limiter (`common/concurrency-limiter.ts`) | counter and queue | run | ingress, scrypt, sharp |
| Predictions (`prediction/`) | `Prediction` rows | submit, settle, void, recalculate, leaderboard | matches, members |
| Matches (`match/`) | `Match`, events, goals, line-ups | create, update, remove, query | predictions, cards, statistics cache |
| Cards and suspensions (`match/player-card-sync.service.ts`) | card counters and status of players | recompute after a commit | matches, rosters |
| Standings, statistics (`prisma/*calculator.ts`) | cache rows per season | compute, cache | matches |
| Season registration (`registration/`) | `TeamRegistration`, its team data and list | create, save, submit, request changes, approve | teams, players, rosters |
| Teams, rosters, players (`team/`, `player/`) | `Team`, `Player`, `SeasonTeamProfile`, `SeasonTeamPlayer` | CRUD, transfer, assets | registration, drafts |
| Form drafts (`form-draft/`) | `AdminFormDraft` | save, delete, materialize, recover at start-up | teams, matches, temporary objects |
| Seasons (`season/`) | `Season`, approvals of a deletion | create, archive, delete, knockout bracket | everything of a season |
| Backups (`backup/`) | backup objects and their metadata, staged tables per restore, `scheduledBackupInFlight` of a process | export, verify, restore, delete, retention, upload | every table |
| Season files (`import/import.service.ts`) | `HistoryImportBatch` with its undo payload | import, undo the last import | seasons, teams, players, rosters, matches |
| PDF forms (`import/pdf-import.service.ts`) | `PdfImportBatch`, two prefixes of objects per batch | preview, photo, commit, cancel, recover | teams, players, rosters, public bucket |
| Staff authentication, login limits (`auth/`, `common/rolling-login-limit.ts`, `members/auth-rate.guard.ts`) | `User`, `AuthRateLimit` | log in, limit | - |
| Audit log, news, public summary, uploads, start-up | - | CRUD, read-only aggregation, wiring | - |

What makes each hard, and what makes it correct:

* **Campus-card material.** An upload spans a quota reservation, a PUT whose
  outcome may be unknown, a lease that can run out, and a binding transaction;
  a cleanup may start at any of these points, on another process, and works on a
  batch it read earlier. Correct: the quota is never exceeded and a row that is
  released has no object left or still to come; a reviewer finds the material of
  the version under review; approval leaves no material behind; what the cleanup
  has taken is never bound; every settled row is eventually released.
* **Restore.** Accounts go back in time, the ledger does not. Correct: the same
  account and material invariants, in the presence of handlers that were running.
* **Ingress and limiter.** Wake-ups, timers and disconnects interleave. Correct:
  exact counter and queue, no lost wake-up, no slot kept by a dead request.
* **Predictions.** Checks, edits, settlements and recalculations overlap. Correct:
  a finished match's predictions follow its result; a match that is called off
  pays nobody; nothing is accepted after the start.
* **Registration.** Approval resolves a list of people against players that staff
  move at the same time. Correct: the season's roster is the approved list, and what was
  submitted is what is decided on.
* **Form drafts.** Requests, retries, PATCHes and a recovery at start-up meet on one draft,
  and objects are copied and deleted outside the transaction. Correct: a draft becomes an
  official record at most once and stays linked to it; no image in use is deleted.
* **Matches.** A change of a match is one transaction; cards, suspensions, tables and winners are
  derived from it afterwards, statement by statement, next to other requests that do the same.
  Correct: what is derived agrees with the matches, or somebody is on his way to put it right.
* **Knock-out round.** Drawn from cached tables, again and again. Correct: each team plays once.
* **Backups.** An export reads a living database page by page; several requests count and delete
  restore points; a restore replaces everything. Correct: what verifies is whole and restores,
  two good restore points stay, nothing is replaced that was not saved.
* **Imports.** An undo works on rows that have been edited since; a PDF commit copies objects outside
  its transaction. Correct: the undo brings back what was, and spares others; a batch makes its
  teams once and keeps their images, and no copies are forgotten.
* **Login limit.** At most N attempts in any window, across processes: serialized by a row lock.

`PROJECT.json` lists these hazards one by one, at the line where each bites, with
the properties that cover it, or the reason why none does.

## 2. The modules

| Module | Models | Role |
|---|---|---|
| `CampusCard` | `members/member.service.ts` (stage, register, resubmit, review, setDisabled, cleanup), `common/card-capacity.ts`, `members/card-store.service.ts` | the core |
| `CampusCardProofs` | - | theorems about `CampusCard` and `CampusCardRestore`: the ledger, how it fits the accounts, and what of both a restore keeps |
| `CampusCardRestore` | the account and ledger part of `backup/backup-restore.service.ts` | extends `CampusCard` with backup and restore |
| `ConcurrencyLimiter` | `common/concurrency-limiter.ts` | the limiter alone |
| `UploadIngress` | `members/upload-ingress.guard.ts` | extends the limiter with the guard around it |
| `PredictionSettlement` | `prediction/prediction.service.ts` and the transactions of `match/match.service.ts` that call it | one match and its predictions |
| `FormDraft` | `form-draft/*.service.ts`, `team/team-asset-pipeline.service.ts`, `promoteTempAsset` and `cleanupTempKeys` of `upload/upload.service.ts`, and their callers in `team/team.service.ts` | drafts, what becomes of them, and their images |
| `Roster` | `player/player.service.ts`, `updateWithPlayers` and `remove` of `team/team.service.ts` | staff requests on players and on the roster of a season |
| `SeasonRegistration` | `registration/registration.service.ts` | extends `Roster` with the registration of teams |
| `RegistrationWorkflow` | - | the abstract specification that `SeasonRegistration` implements |
| `MatchOutcome` | `match/match-outcome.ts`, `match/winner-team-id.ts` | operators: the outcome and the winner of a match |
| `Standings` | the calculators of `prisma/`, the pairings of `season/knockout-generator.service.ts` | operators: tables, statistics, the knock-out round |
| `MatchDay` | `match/match.service.ts`, `match/player-card-sync.service.ts`, `prisma/season-statistics.service.ts`, the services of `season/` | extends `Standings` with matches, seasons and everything recomputed |
| `BackupRetention` | `backup/backup-retention.service.ts` | operators: the retention plan, and the policy it is compared with |
| `BackupStore` | the other services of `backup/` and its controller | extends `BackupRetention` with the bucket and everybody who works on it |
| `BackupFormat` | export, scope, writer, parser, staging, validator, restore of `backup/` | one backup from rows to file to rows |
| `HistoryImport` | `import/import.service.ts`, `import-parser.ts`, `import-writer.ts` | imports of season files and their undo |
| `PdfImport` | `import/pdf-import.service.ts`, `deleteByPrefix` of `upload/upload.service.ts` | batches of PDF forms and their images |
| `UploadIngressProofs`, `PredictionProofs`, `FormDraftProofs`, `RegistrationProofs`, `BackupStoreProofs`, `MatchDayProofs`, `ImportProofs` | - | theorems about the module of that name, about `ConcurrencyLimiter` (with `UploadIngress`), `RegistrationWorkflow` (with `SeasonRegistration`), `Standings` (with `MatchDay`), and about `PdfImport` and `HistoryImport` |
| `MC*` | - | instances for TLC: model values, small inputs, symmetry |

### CampusCard

*State.* `state`, `settled` (uploadSettled), `lease` (leaseUntil), `due`
(deleteAfter <= now), `backoff` (nextAttemptAt > now), `owner` and `version` are
the columns of a ledger row; `put` and `stored` are the bucket as the ledger
cannot see it: what became of the one PUT of a key, and whether the object is
there; `status`, `ver`, `comment` and `disabled` are the account. `status` NONE is
an account that does not exist and GONE one that a restore removed (its id is
never used again). A handler is a program counter with its local variables
(`rpc`, `rmember`, `rbase`, `rasset`, `rtries`, `rclash`, `wrote`), a cleanup run
likewise (`wpc`, `wscope`, `wbatch`, `wsettled`, `wasset`).

*Actions.* One per database statement, transaction or store call. `stage` is
CountUnreleased, CreateStaging, SerializationFailure, StartWrite / LeaseRanOut,
WriteAnswered, Settle, ConfirmLease and, for its catch block, StageThrows and
PersistFailure; `register` and `resubmit` are BeginRegister / BeginResubmit and
RegisterAccount / ResubmitCard; `review` is ReviewApprove (which goes on to a
cleanup of that member) and ReviewReturn; `cleanup` is Sweep, Scan, Claim / Skip,
Demote, DeleteObject, Head, KeepQuota / ReleaseQuota, and RetryLater for its
catch block. PutLands and PutLost are the store deciding an outstanding PUT at a
time of its own, also long after the request has given up. Abandon and
WorkerCrash are a process that dies, or a database error nothing catches.

*Time.* Only comparisons with the clock matter, so a lease is live or expired, a
deletion date due or not, a retry date ahead or past; LeaseExpires, Mature and
BackoffElapses move them forward at any time, in any order the durations allow
(a staged row's 24 hours end after its 60 seconds).

*Serializable transactions.* A reservation takes its count in one step and
creates its row in another; `rclash` records that another reservation committed in
between, and then only the serialization failure is possible, which the wrapper
retries twice. The other serializable transactions are one action each.

### CampusCardRestore

`saved` is the account table of the last full backup. The restore is one transaction at READ COMMITTED, cut
at its statements: UpdateLedger (the `updateMany` on the ledger, `held` is what it has updated), DeleteAccounts
(`deleteMany`, in a snapshot of its own, `removed`), CommitRestore (the accounts of `file` inserted, all of it committed),
or RollBack. In between everybody else goes on with what has been committed, and `Waits` says whom the
row locks hold up: nobody updates a row of the ledger, or an account, that the restore has written.
Handlers and cleanup runs continue with the values they have read before. `slipped` is history: rows
staged after the ledger's update and bound before the accounts were deleted, which no statement of the restore sees.

### ConcurrencyLimiter, UploadIngress

The code between two awaits is one action. `at` is where each call is; a waiter that
has been resolved is `woken` until its continuation runs, and other microtasks may
run first. Timers fire only when no continuation is outstanding, which is how
Node orders them. In UploadIngress, `gone` is the connection (`req.destroyed` or
`res.writableEnded`), `isClosed`, `armed` and `holds` are the guard's closure
variables. The event of a connection that ends is a step of its own.

### PredictionSettlement

One match, its predictions, the edits (PATCH handlers), recalculations and
submissions. An edit's writes become visible at its commit; `lock` is the match
row's lock from the UPDATE on; `batch` is what a settlement has read and will write
by id. `late` and `overtaken` are history variables: a prediction stored after the
match stopped accepting, and a recalculation that wrote by what no longer held.
Two choices stand for three: the draw is handled like the others.

### FormDraft

`dstatus`, `payload`, `official` and `stale` (updatedAt is more than five minutes ago)
are the row of a draft, `record` the image that each official record shows, `stored` the
objects in the bucket. A handler is one request: a materialization (Claim, ReadDraft,
PutBack, Prepare, Commit, CommitFails, Undo, MarkFailed, and CheckRefs, RemoveTemp after
the commit), a team request without a draft (BeginTeam, then the same from Prepare on), a
deletion (BeginDelete, CheckRefs, RemoveTemp, DeleteRow) or the explicit removal of a
temporary image (BeginCleanup). A PATCH of a draft is two steps, SaveRead and SaveWrite,
since it writes back what it has read. A payload is its image, or how far it can be
used; a request has one image, so that the failure of one copy among several is left out,
as are keys outside `temp/`. `Recover` is a server that starts. Four history variables say
which drafts and images a promise cannot cover: `meddled`, `unanswered`, `late`, and `born`, the
records made of a draft.

### Roster, SeasonRegistration, RegistrationWorkflow

One season. `team`, `student`, `removed` and `disbanded` are the columns of players and
teams, `rosterTeam` and `rosterStudent` the `SeasonTeamPlayer` rows, `profiles` the
`SeasonTeamProfile` rows. A staff request reads (UpdateRead, RemoveRead, DisbandRead,
CreateFind, EditFind) and then writes by id (UpdateWrite and, in a statement of its own,
UpdateSync; RemoveWrite, DisbandWrite, ImportWrite, AddWrite, EditWrite); what it has read is
in the variables `j...`. A list is a set of entries, each a player it may name and a student id.
`lock` is the registration's row lock, `holder` a player's, `rowHolder` a roster row's; `written` and `resolved` are what an
approval has not committed yet: the players' ids and the roster it is going to write. save and
approve are cut at their locks and at each player, and so is the roster that approve replaces: ClearRoster is the
snapshot of the DELETE, ClearRow its wait for one row and second look at it, RegisterPlayer one upsert, ApproveCommit the
end. `Waits` are the staff requests that wait for a locked row. submit and requestChanges are one action. A
super admin may do what a coach may not; where the code asks for the role, both choices are there.
Left out: the gender of a team changes, names, numbers, photos and contact data, several players in
one team edit, the archiving of the season. `late` is a history variable: players whom staff put on the team's roster
after an approval's DELETE had found the old rows.

RegistrationWorkflow is the registration without players: Open, Edit, Submit and Decide on
`status` and `list`, each atomic. `FollowsWorkflow` says that SeasonRegistration, with
its locks and its long transactions, implements it.

### MatchOutcome, Standings, MatchDay

`matches`, `players`, `seasons`, `groupOf` and `cache` are the tables `Match` (with its events and
goals), the card columns of `Player`, `Season`, `SeasonGroupTeam` and the two cache columns. `matches` and
`cache` have the rows that exist; a row has the columns in `Columns`, and what may be in them is
`Fits`. A table is the set of its rows, and a row's place the number of rows `Before` it. A request
is a record `req[r]` that says what it has read and what it still has to do. PATCH is UpdateRead
and UpdateCommit (`Updated` merges the body into the row; scores, winner and penalties come from what was
read; the version check of the match row does not exist); POST is Create; DELETE is RemoveRead and
RemoveCommit. After the commit a request goes on to
FindSuspended, SyncRead / SyncWrite for each player and TableRead / TableWrite for each season,
each a database call of its own, and Answer. Crash ends a request, and Boot is the process that starts
again, which computes the tables that are missing. ArchiveAndCreateNewSeason, CreateSeason,
UpdateSeasonStatus, DeleteSeason, UpdateSeasonGroups and GenerateRead / GenerateWrite / GenerateFails (the draw
of the knock-out round, which fails when a match it has found or its season has `Vanished`) are the season's side.

`stale`, `withdrawn` and `irregular` are history: players, seasons and matches that may stay wrong since
the request that would have put them right died, was overtaken between its read and its write, or does
not exist in the code; a finished match taken back; a knock-out round with a match put there or changed by
hand (`ByHand`), drawn twice at once, from tables that rank a team twice (`RanksTwice`), or again from tables that no
longer fill one of its places (`KeepsOld`). Simplifications: archiving is one
transaction, all teams are of the season's gender, days stand for dates and only their order counts, the order in
which a request synchronizes its players is free, and a player's own team is fixed while each season's list
(`ListedIn`) may have him in another one.

### BackupRetention, BackupStore, BackupFormat

BackupRetention's `CalculateRetentionPlan` is the loop of the service, a recursive function over the listing;
`PolicyKeeps` is the policy of its comment, and `MCBackupStore` compares the two over every listing of up
to four backups of five kinds (an ASSUME that TLC evaluates on every run).

BackupStore has the bucket (`stored`), the business data reduced to the changes it holds (`db`), exports (`job`),
deletions and retention runs (`keeper`), uploads (`token`, `complete`), restores with their advisory `lock`,
and `scheduledBackupInFlight`. Every handler is cut at its store and database calls; an answer may be lost, the store
unavailable, the process may end. What is in a backup is reduced to the changes it holds, whether it
verifies, and its scope. An export keeps what is there from its first page to its last, but for what it `missed`: where a
row was removed meanwhile (`RowsRemoved`) it may have been the one the next page starts from, and the
rest of its table is left out of a file that verifies. `disturbed` is history: a keeper whose count is wrong, because somebody
else removed a backup or because the answer to its own removal was lost. Assumed:
one process runs the scheduled backups (`scheduledBackupInFlight` is a variable of a process), and a
client puts its upload once per token.

BackupFormat follows one backup. `data` has every table of the registry with ids, references and unique
names; an export reads page by page from the id of the last row (ReadPage: `PageOf` takes rows by their rank among the ids)
while rows are inserted, removed and renamed (InsertRow, DeleteRow, RenameSeason); what is removed takes along what refers to
it (`Cascading`) or empties the reference (`Unlinking`), as the schema says of each foreign key, and an id is never given again; `File` is the sequence of properties
that is written; a damage drops, repeats or cuts a part of it. `ParseStream` says which of these sequences the parser
refuses and what it reads of the others, `Integrity` and `MemoryAccepts` are the two validators; the restore deletes and inserts
table by table (DeleteAll, InsertTable), each with the references and unique columns the schema insists on, and repairs the
references it has put off (RepairAndCommit). It goes by the scope the parser has made out, and the other requests go on between
its statements: `written` is what it has put back and nobody sees yet, `joined` what others have
added since it deleted all. `throughout`, `cut`, `gone`, `changed` and `renamed` are history.

### HistoryImport

Rows are found by key as the import finds them; `born` tells a row an import has created from another one
with the same key, as its id does. ImportFile is the transaction of an import with the payload it
remembers (`updated` has the former row of each key that was updated); ReadLast and UndoLast / UndoThrows are
the two steps of an undo, which throws when a row it would put back has gone, or the team it would give a
player or a list entry back to (`CanPutBack`: a foreign key); Staff is everybody else. `Refers` is the foreign keys,
`Cascade` what the database deletes with a row, `InUse` what the undo looks for before it deletes a team or a season: the
registrations of both, and the approvals of a season's deletion, are not among it. `before` and `after` in a batch, and `lost`, are
history: staff deleted a row that an import had updated, or an undo that had read its batch too early ran.

### PdfImport

`row`, `temp` and `formal` are the batches and the objects under their two prefixes, `made` and `uses` the
teams created and the images they name. A request is a record with a program counter. A preview is BeginPreview,
UploadImage, CreateBatch or PreviewFails and Unwind, and leaves its cleanup running as a
request of its own (Find, Clear, Mark); a commit is BeginCommit (the claim, a compare-and-set), Copy,
CreateTeams (the transaction), Tidy, and Undo, Fail for its catch block; a cancellation is BeginCancel, Clear, Mark; a
recovery BeginRecovery, Clear, Mark. A deletion of a prefix may fail halfway, and may also
answer well and leave objects, since the errors in the answer of DeleteObjects are not looked
at. Dies is the end of a request at any step. Expires and BecomesOverdue are the clock.

### Definitions marked "Mutant"

A definition whose comment starts with "Mutant:" is a variant of the definition that
follows it, with one plausible slip (a dropped condition, a missing wake-up, a
reset that adds). No specification uses it. `PROJECT.json` pairs each checked property
with a variant under which TLC finds the property violated: evidence that the
property depends on that line of the code.

## 3. The runs

All numbers are distinct states.

| Run | Instance | Shows | Size |
|---|---|---|---|
| `card` | 2 rows and a third one over quota 2, 1 account, 2 requests, 1 cleanup run, batch 1 | TypeOK, DeletedMeansGone, ReadyIsStored, MaterialFits, QuotaSafe, ExpiryIsTrue, CleanupIsFinal | 3.6 million |
| `card_live` | 1 row, 1 account, 1 request, 2 cleanup runs, fairness | QuotaReturns, ReviewEnds | 38 thousand |
| `restore` | 2 rows, 1 account, 1 request, 1 run, 1 restore, nobody disabled | RestoredMaterialFits | 2.8 million |
| `ingress` | 4 requests, 1 slot, 2 waiting places | SlotsAccounted, SlotsServeLiveRequests, EveryWaitEnds | 52 thousand |
| `prediction` | 1 member, 2 edits, 1 recalculation | SettledByResult, OnlyRecalcRevives | 2.8 million |
| `drafts` | 2 drafts, 2 requests, 1 PATCH, 1 temporary image, 1 record | OneRecord, LinkedToItsRecord, ImagesInUseKept | 2.7 million |
| `registration` | 2 teams, 3 players, 2 student ids, 1 staff request, both teams register | RosterIsList, FollowsWorkflow (refinement) | 212 thousand |
| `backups` | 4 old backups, any 2 of 2 keepers, 2 scheduled calls, an export, an upload and a restore; 2 days; 2 changes, one of which removes rows; lost answers, unavailable store, crashes | RestorePointsStay, AnsweredIsWhole, OneScheduled, RestoreKeepsTrace | 2.7 million |
| `formats` | site or one of 2 seasons, pages of 1 row, a budget of 7 for rows of 15 tables (1 each, 3 once the export has begun), removals (1), renames and one damage (2 each) | NothingIsMissed, QuietExportIsAccepted, AcceptedIsWhole, AcceptedRestores | 1.7 million |
| `imports` | 2 overlapping files, up to 3 imports, 2 undo requests, 2 changes by staff | UndoRestores, UndoIsPossible, UndoTakesNoBystander | 321 thousand |
| `pdf_imports` | 1 batch with 2 images and 1 photo, 3 requests at a time | CommittedWhole, Recoverable, PreviewIsViewable | 1.0 million |
| `matches` | a league (2 teams, 1 player, 3 matches, 2 seasons, 3 changes) and a cup (4 teams in 2 groups, even or lopsided, 4 changes), 2 requests | CardsAreCounted, SuspensionIsServed, TablesAreCurrent, WinnerIsCanonical, EachQualifiesOnce | 1.6 million |

Why the bounds are enough. Two rows and two requests are the least for two
reservations to race, for an account to have an old and a new material, and for a
resubmission to overtake another. In `card` two requests race for the two
places of the quota. The constraint `InTurn` fixes the order in which free rows are taken, and lets
the third row be taken only to look at the state a reservation too many would lead to. One account suffices since accounts share nothing but the quota. In `restore`
the constraint `NoneDisabled` leaves out what happens while an account is disabled: the flag is brought back like the
other columns, and the theorem covers it. Two cleanup runs on one
row are the least for a stale claim. Four requests, one slot and two places give a
full queue, a refusal and a wake-up with a new call in between. One member suffices
since predictions on one match are written independently of each other; two edits are
the least for one that reads before the other commits. Two drafts, two requests and one
image are the least for a cleanup of an image that the other draft names, for a second claim
during the first, and for a retry after a failure. In `registration` one team plays in the season's
category and one does not; the lists contain a player who keeps his id, one whose id is corrected
while a newcomer takes the old one, and a newcomer with the id of another team's player; a
staff request can hit an approval at each of its steps, and its two writes can enclose it.
In `backups` two requests of any kinds meet on the bucket, since every promise is
about a pair of them (two deletions, a deletion and a retention run, an export and a restore, two
scheduled calls); four old backups are the least for a plan that keeps two and deletes two. A change that removes rows and
one that does not are the least for an export that misses something a restore then takes away. In
`formats` a budget of seven takes in every kind of reference (required, optional, put off) and a row
removed with its unique name and made again while the export or the restore goes on; pages of one row give
a page boundary between any two rows of a table. In `imports` the two files share some
rows and not others, and three imports are the least for an undo that uncovers another one's rows;
staff can add a player and a registration to a team an import creates, while the one approval is of an old
season (of a season an import created it is left to the theorem). One
batch is enough in `pdf_imports`, since no request decides about a batch by another's row; three requests are
a commit, a cancellation and a recovery at once. In `matches` two requests are the least for one to
overtake another between its read and its write; the league has the cards, the outcomes and the
tables, the cup the groups and the draw.

Deadlock is not checked where
the system may come to rest: everything released and nobody asking, every request
served, everything settled. Symmetry is used in safety runs only.

Some properties name what they do not cover, because the code does not either:
OneRecord and LinkedToItsRecord except drafts that a starting process reset under a running
request or that a PATCH unlinked; ImagesInUseKept excepts a commit without an answer, whose
compensation deletes the image in use, and images named after the
reference check, or that it could not read; RestoredMaterialFits the rows in `slipped`; RosterIsList those
in `late`; RestorePointsStay what a keeper does after another one, or
its own unanswered removal, has made its count wrong (`disturbed`); RestoreKeepsTrace what an export `missed`; NothingIsMissed the
tables that were `cut`; AcceptedRestores unique names that changed hands (`renamed`); UndoIsPossible what is `lost`;
UndoTakesNoBystander registrations, and approvals of a deletion, of what the import created; those of
`pdf_imports` batches a second request has interfered with (`spoiled`, `overwritten`, `undercut`) and
images nothing will clean up (`leftover`); those of `matches` what is in
`stale`, `withdrawn` and `irregular`. In each case the exception is a history variable that only the steps
named there set, and the property still speaks about every other behaviour of the run.

### Known divergences

Each exception stands for behaviours the models showed: cases where the code does less than a
reader of it, or of a document or test beside it, would expect. No run is kept for them.

Accounts, limiter, predictions:

* A restore takes `verificationVersion` back while the ledger keeps the old rows' versions, so a user
  asked to submit again can get the version of an old row, and the cleanup of that row returns the
  new application as expired (`members/member.service.ts:583`; compare `ACCOUNT_SEPARATION_DEPLOYMENT.md:41`).
* A full restore updates the ledger (`backup/backup-restore.service.ts:94`) and deletes the accounts eight lines
  later, in another snapshot: material staged after the first and bound before the second stays READY, though
  line 93 says that all existing material goes to the cleanup, and its account is gone or asked to submit again.
* A reservation whose lease has run out before the write starts, and whose row a sweep has already
  taken, keeps its place in the quota (`members/member.service.ts:172`).
* A call made between a waiter's wake-up and its continuation takes the slot as well: more calls
  run than the limit says (`common/concurrency-limiter.ts:49`; `concurrency-limiter.spec.ts:5` says within the limit).
* A recalculation that overlaps the cancellation or the removal of a match gives points back
  (`prediction/prediction.service.ts:534`, against `match/match.service.ts:427` and `prediction.service.ts:622`).
* A prediction checked in time can be stored, or reset a settled one, after the match has started
  (`prediction/prediction.service.ts:188`, against line 179).

Registration:

* A player who is moved or removed between an approval's lookup and its update by id gets on the roster of a team that is
  no longer his (`registration/registration.service.ts:643`, `:652`).
* A player whom staff put on the team's roster between the approval's DELETE (`:711`) and its commit stays there beside the
  reviewed list.

Matches, tables and seasons:

* Taking back the result, or removing the match, in which a suspension was served does not look at
  players it released. Moving a match to another season leaves the old season's table and cards.
* A score edited without its events leaves goal rows and score apart; equal penalties can be
  typed over a recorded shoot-out.
* Synchronizing cards and computing tables are a read, a computation and a write: a request
  that is overtaken writes older values over newer ones, and they stay until the next change.
* Drawing the knock-out round again replaces the teams of a match that has been played, without its winner;
  an edit that had read the match before writes the former teams back; two draws at once make
  every pairing twice; a group match filed under another group lets a team be ranked twice.
* A draw from tables that no longer fill a place leaves the match of that place as it was, so that a team can be
  in two matches of the round (`season/knockout-generator.service.ts:56`, `:102`).
* `createSeason` makes a second active season; deleting a season or changing its
  status recomputes no cards.

Backups:

* An uploaded backup of one season is stored with the full ones (`backup/backup-upload.service.ts:195`) and counts as
  one of the two restore points (`backup/backup-maintenance.service.ts:58`), though `restoreBackup` refuses it
  (`backup/backup-restore.service.ts:60`). Two keepers that count at the same time can leave fewer than two.
* The scheduled call is skipped when no table has a newer `updatedAt`; a deletion leaves none.
* An export pages without a snapshot: a change behind or at the page boundary is missed
  (`backup/backup-export.service.ts:77`), and a unique name that wanders between pages gives a file
  that is accepted and cannot be restored, and so does a name that is given up and taken again before the restore ends.
* When the row a page starts from is removed, the rest of its table is left out of a backup that
  verifies (`backup/backup-export.service.ts:72`). If it is the snapshot a restore takes first, the restore loses these rows for good.
* What other requests add while a restore is under way stays beside what it brings back.
* The scope key is not in the checksum, and a file without it is one of the whole site: a season's backup that has lost it is
  accepted and replaces everything (`backup/backup-parser.ts:187`, `backup/backup-restore.service.ts:60`). `checksumAlgorithm` gets a default in the
  streaming parser and is required by the validator in memory (`backup/backup-validator.ts:196`). An error
  while the first bytes are read leaves the staging directory (`backup/backup-parser.ts:101`).
* Team registrations are in no backup, and a restore, which deletes what they refer to, loses them;
  `README.md:18` calls it a restore of the whole database, and `ACCOUNT_SEPARATION_DEPLOYMENT.md:50` wants
  registrations checked and a restore rehearsed.
* The export of a season is refused when an approver of it has meanwhile become coach elsewhere.

Imports:

* Two undo requests at once, or one that has read an older batch, undo twice, and can block
  later undos. An undo overwrites what staff has edited since, takes staff's links and line-ups along
  by cascade, and a coach's registrations for a team or a season it created, and the approvals of that season's deletion, without the
  warning it has for other data (`import/import.service.ts:598`, `:614`), leaves `isRegistered` and the student id of an existing link, and fails for ever once staff has deleted a
  list entry or a season it names.
* A recovery that runs beside a slow commit deletes the images of the teams the commit then makes. A
  COMMIT whose answer is lost is taken for a failure: the images of existing players are
  deleted and the batch is marked FAILED.
* A cancellation or the expiry beside a commit overwrites its status; if the commit then dies, no
  recovery finds the batch. A cancellation that dies after the deletion leaves an open preview without
  images, which the next preview of the same file reuses.
* The errors that DeleteObjects reports per object are not looked at; a preview that dies, and
  FAILED batches, leave temporary images for ever; two simultaneous previews of a file make two batches, and both can be
  committed; nothing schedules the recovery.

### Fairness

`FairSpec` assumes of CampusCard: time passes (weak fairness of the clock actions);
the scheduler keeps starting cleanup runs and a run keeps going (weak fairness) -
`src/scripts/card-cleanup-worker.js` calls the endpoint every 30 seconds for ever,
failures included; and a store or database call that is repeated again and again
succeeds at some time (strong fairness per row). The batch is ordered by the retry
date, so a row that stays eligible is eventually in a batch: that is the strong
fairness of the scan per row. Nothing is assumed of users, reviewers or requests, which
may stop anywhere. UploadIngress assumes that continuations run, timers fire and events
are delivered, and nothing of clients or handlers.

## 4. What is proved

TLAPS checks the theorems below for every value of the constants: any number of rows,
requests, teams, players, backups, days, any quota or limit. Every inductive invariant was
first checked by TLC on the instance of the run.

| Module | Theorem | States |
|---|---|---|
| `CampusCardProofs` | `TypeSafe`, `ReleasedIsGone`, `MaterialIsThere` | `Spec => []TypeOK`, `[]DeletedMeansGone`, `[]ReadyIsStored` |
| | `NothingComesBack`, `QuotaIsKept` | `Spec => CleanupIsFinal`, `[]QuotaSafe` |
| | `LedgerFitsAccounts`, `ToldTheTruth` | `Spec => []MaterialFits`, `[]ExpiryIsTrue` |
| | `RestoredLedgerFits` | `RestoreSpec => []RestoredMaterialFits`, for any number of restores |
| | `RestoredLedgerIsSafe` | `RestoreSpec => [](DeletedMeansGone /\ ReadyIsStored /\ QuotaSafe)` |
| | `RestoreBringsNothingBack` | `RestoreSpec => CleanupIsFinal` |
| `UploadIngressProofs` | `LimiterAccounts` | `LimiterSpec => []SlotsAccounted` (the limiter with any caller) |
| | `GuardImplementsLimiter` | `Spec => LimiterSpec`: the guard uses the limiter as a caller may |
| | `IngressAccounts`, `SlotsAreHeld` | `Spec => []SlotsAccounted`, `[]SlotsServeLiveRequests` |
| `PredictionProofs` | `TypeSafe`, `Settlement`, `PointsStayVoid` | `Spec => []TypeOK`, `[]SettledByResult`, `[]OnlyRecalcRevives` |
| `FormDraftProofs` | `OneRecordEach`, `RecordIsLinked`, `ImagesAreKept` | `Spec => []OneRecord`, `[]LinkedToItsRecord`, `[]ImagesInUseKept` |
| `RegistrationProofs` | `TypeSafe`, `RosterFollowsList` | `Spec => []TypeOK`, `RosterIsList` |
| | `ImplementsWorkflow` | `Spec => FollowsWorkflow`: the refinement of `RegistrationWorkflow` |
| `MatchDayProofs` | `TypeSafe`, `CardsSafe` | `MatchSpec => []TypeOK`, `[]CardsFit`: what the theorems on cards need of the rows |
| | `CardsCounted`, `SuspensionServed` | `MatchSpec => []CardsAreCounted`, `[]SuspensionIsServed` |
| | `TablesCurrent`, `WinnerCanonical` | `MatchSpec => []TablesAreCurrent`, `[]WinnerIsCanonical` |
| | `QualifiesOnce` | `MatchSpec => []EachQualifiesOnce` |
| `ImportProofs` | `TypeSafe`, `TeamsOnce` | `Spec => []TypeOK`, `[]CommittedWhole` (of `PdfImport`) |
| | `CopiesAreRecoverable`, `PreviewsAreViewable` | `Spec => []Recoverable`, `[]PreviewIsViewable` |
| | `UndoStaysPossible`, `UndoSparesBystanders` | `HistorySpec => []UndoIsPossible`, `UndoTakesNoBystander` |
| | `UndoBringsBack` | `HistorySpec => UndoRestores` |
| `BackupStoreProofs` | `AnswersAreWhole`, `ScheduledApart` | `Spec => []AnsweredIsWhole`, `[]OneScheduled` |
| | `NothingUnsaved`, `RestorePointsKept` | `Spec => RestoreKeepsTrace`, `RestorePointsStay` |
| | `FormatTypeSafe`, `NoRowIsMissed` | `FormatSpec => []FormatTypes`, `[]NothingIsMissed` |
| | `QuietExportsPass`, `AcceptedAreWhole` | `FormatSpec => []QuietExportIsAccepted`, `[]AcceptedIsWhole` |
| | `AcceptedBackupsRestore` | `FormatSpec => []AcceptedRestores` |

### Assumptions on the constants

They name kinds apart (a dummy is no row, a recalculation no edit, an export no upload:
NoOneAssumption, HandlersAssumption, NamesAssumption, PdfNames, RosterAssumption, KindsAssumption), say that what is
counted is finite (the ledger, the calls of the limiter, the players and student ids, the backups of the start:
AssetsAssumption, CallsAssumption, RegistrationAssumption, StoreAssumption) and that bounds are numbers
(BoundAssumption, LimitsAssumption, StoreAssumption). RegistrationAssumption wants one student
id at least. OldAssumption is about the bucket at the start: no backup is of the future, and the
scheduled ones are whole and keep the interval, as this service leaves them. MatchAssumption types the
bodies and rows that requests bring, as the DTOs do. FilesAssumption says that a file
names the season of what it lists (the parser registers it), and RowsAssumption that the rows of the start
are of the known tables and hold their foreign keys. FormatAssumption gives the rows a backup may hold an id from 1
on, the references their table has, and no empty one in a composite key; a page has at least one row. TLC evaluates all of them on the instances.

### The arguments

* *Ledger.* The invariant is `Inductive`, which is `TypeOK /\ Custody /\ Progress /\ Objects /\
  Claims`. DeletedMeansGone is not inductive by itself: that a released row has no outstanding PUT
  follows from the run having read `uploadSettled`, from the handler settling only after the
  store's answer (Progress), from no two handlers sharing a row (Custody), and from what a run
  has read staying true (Claims): a settled write is never unsettled.
* ReadyIsStored needs that an object is only ever deleted by a run that has claimed
  the row, that a claim makes the row DELETE_PENDING, and that such a row is never
  bound again (`FinalStep`, also the proof of CleanupIsFinal).
* QuotaSafe needs `CountsHold`: a count no commit has overtaken is still good.
  `OthersOnlyRelease` shows that every step but a reservation leaves the set of
  unreleased rows as it is or smaller.
* *Ledger and accounts.* An account never goes back to a version and no two of its rows share one
  (`Bound`), so a run that has found a row not under review may finish with it (`Returned`).
  This is what a restore breaks, see the known divergences.
* *Restores.* Versions count anew after a restore, so `Bound` is lost. What is left is enough: the row under review
  is of the account's version and ready (`UnderReview`), and a handler or a run that has read another
  state before the restore meets its own conditions again at its write (`Carried`). While a restore runs, every row it has not
  updated is released or new (`Session`): so what is ready at its commit was bound meanwhile, and then either its account was
  not deleted, and nothing changes for it, or it is `slipped`. No account is brought back under review.
* *Limiter and guard.* The counter is the number of calls inside plus those woken, and the queue
  is what waits, without repetitions; the lemmas on `RemoveAt` cover a waiter
  that times out from the middle of the queue. The guard is shown to take only steps of the limiter, so the limiter's
  theorem holds of it as well.
* *Predictions.* `ReadIsCurrent`: what an edit has read when it took the match row's lock is still so
  at its commit for everyone who did not submit in between.
* *Drafts.* One handler claims a draft, the target it writes is the record the draft
  has become (`ClaimFacts`); an image named after a handler is seen by nobody before its
  commit and never removed after it (`SeenAreKept`); nobody is about to remove the image of a draft in
  use (`ImageFacts`).
* *Registration.* What a lock stands for (`LockFacts`), whom an approval holds (`HoldFacts`), and how
  far it has got: the players it has resolved are at most as many as the entries it has dealt
  with, and if they are as many, every entry has its player (`ListFacts`). The count at the end of `approve` therefore
  gives equality of sets, a pigeonhole argument on finite sets. While an approval rewrites the roster, a row of
  its team is locked by it, still to be deleted, or `late` (`RowFacts`). Each step maps to Open, Edit, Submit, Decide or a
  stutter of the workflow.
* *PDF batches.* No status leads back to PREVIEW, so a batch is claimed once (`BatchFacts`), and each
  request is described by its step and its batch (`RequestFacts`).
* *Cards.* A player whose columns disagree with the matches is named in the todo list of a request, is awaited by one
  that has yet to look up the suspended, or is in `stale` (CardsFit). A player whom a change of a match
  touches is in its events or suspended in one of its teams, and those are who the code recomputes.
* *Tables.* A season's cache equals `Computed` unless a request owes it. A step that leaves a
  season's matches, list and groups alone leaves `Computed` alone.
* *Winners.* An edit merges what it read, but the row it writes always tells its own winner, so that being overtaken does no
  harm; only a draw writes teams without a winner.
* *Draws.* Ranks are injective: two rows with the same number of rows before them are the same (`Before` is a strict order
  of finite tables). Hence a draw names each winner and runner-up once, and a draw that finds its matches again
  writes to all of them.
* *Season files.* The invariant is `HistoryInvariant`. Rows that exist before the n-th import are born before n
  (`ImportOf`), the foreign keys always hold (`Whole`, which needs that no chain of them is longer than the cascade), and while nothing is
  `lost` every completed import still finds what it updated (`Reversible`). An undo is six deletions and four
  updates; each is a `Stage`, which says what is there so far and why the rest is gone: it was created, or it `Hangs` on
  what was. What hangs on a row that was created is no older than it, so nothing older is taken along, and a created team or season that is kept is
  used by a row that is not from before the import.
* *Backups.* An object has the name of the one request that makes it, so a request before its
  upload has none (`ExportFacts`, `UploadFacts`). The scheduled export that runs is the one in flight and
  found the newest scheduled backup old enough; every other one is older still (`AllOlder`). Since a restore
  began its snapshot, what is in the database was in the snapshot, was missed by it, was written or was brought back
  (`RestoreFacts`).
* *Removals.* The invariant is `KInv`, on top of the one above. While a deletion or a retention run is not disturbed,
  every backup it has found good still verifies, and every full backup it may yet remove is outlived by
  another (`Surveyed`). Both could be spoilt by an object that is stored anew under a listed name; the requests
  behind listed names are past their uploads and never come back to them (`Past`, `Advance`), so what arrives is new to every
  plan (`Arrivals`). `Listing` is shown to hold every object once and newest first (`ListingFacts`, by
  counting the places before an entry), so the first full backup of it is the newest. That the plan only names listed
  backups is an induction over the loop (`PlanIsOfList`), done with the least place at which it fails.
* *One backup.* The invariant is `FormatInvariant`. What has been read is in the order of the ids and not past the reader
  (`Copies`), so nothing is read twice; every row that was there all the time and is behind the reader has been
  copied (`Copied`), unless the row the next page starts from has gone (`CursorFacts`). What the parser accepts names each table once,
  has the digest of what was written and so is it (`WholeAndAccepted`). Every row that was copied is still known under its
  name, or has given it up (`Traced`), and two rows have had one name only if it was taken over (`NamesKept`); what joins while a restore
  runs has other ids than what it restores, refers to nothing of it and breaks no reference when it goes (`Joining`). A restore has inserted the tables before
  its place and no others (`PutBack`), and no table refers to a later one but by the three columns that are put off
  (`OrderOfReferences`). Of a season, whatever a row in scope refers to is in scope (`ScopeCloses`, by the kinds
  of tables).

### What the proofs changed in the models

* RestoreKeepsTrace excused only what was *written* since the snapshot began. With three restores, one can
  bring a row back while another is between its snapshot and its commit, and the second loses it: TLC's bounded run with one restore
  could not show this, an attempt to prove it did. The property now names this case
  (`BroughtBack`), as `restoreBackup` takes its snapshot before the advisory lock.
* Recoverable now holds of a row at every moment, not only when nobody is working on the batch.
* TimeOut removes the waiter where it stands in the queue, as findIndex and splice do.
* LatestScheduled takes the newest scheduled backup out of a set where it used to search the sorted
  listing, about which nothing can be proved; by OneScheduled there is only one newest.

* EachQualifiesOnce did not excuse a draw that finds fewer teams than the one before: the proof did not go through,
  and TLC then showed a round in which a team plays twice, since the match of the place that is no longer filled stays.
  `KeepsOld` is that case.
* An edit that was overtaken was excused by WinnerIsCanonical. The proof needs no such excuse, and the property
  no longer has it.
* Tables are sets of rows ranked by counting, where they used to be sorted sequences; matches, caches and updated
  rows are functions. A proof can use them, and a place in a table no longer depends on an order among equals that the code does
  not have.
* CanPutBack of `HistoryImport` asked only that the rows themselves are there. An undo also sets the
  team of players and list entries, which is a foreign key.
* `BackupFormat` had its pages and its parser as folds over sequences, of which nothing can be proved. A page is now
  the rows of the next ranks, and the parser is said by what it refuses: the two agree since the first thing that
  is wrong ends the parsing, whatever has been read.
* RestorePointsStay asked for *one* backup that outlives all full ones, which a bucket without a full backup cannot
  have; TLC shows it with a temporary upload alone in the bucket. It now asks of each full backup that
  one as young is left. It excused a removal whose answer was lost; the proof needs the excuse only for what the run does
  afterwards, and the property now covers the removal itself.
* The listing, what is taken out of it and the plan were a library sort, a filter and a fold. They are now entries ranked by
  counting and a recursive function; those of one time keep their order, as JavaScript's stable sort does.
* UndoRestores let the profile of an old team be any row; it must now be the same one.
* A restore's statements, an approval's rewriting of the roster and the deletion of rows during an export were coarser
  than the code. Cut finer, they broke MaterialFits under restores, RosterIsList, RestoreKeepsTrace, AcceptedRestores and
  UndoTakesNoBystander as these stood, with the behaviours listed under the known divergences; each now names exactly that case.
* AcceptedRestores excused whatever was *renamed* during the export. The proof needs the excuse only for a name that another row
  has taken over, at any time since the export began.

### Only model-checked

* That the plan of `BackupRetention` keeps what the service's comment promises (PlanFollowsPolicy, an assumption
  that TLC evaluates over all small listings). The proofs use of the plan only that it names listed backups; the guards of
  the removal do the rest.
* All liveness (QuotaReturns, ReviewEnds, EveryWaitEnds), which needs ENABLED under fairness.

## 5. Plan

The models are complete as planned, and every safety property that a run checks is proved. What is left is the policy of the
retention plan, for every listing, and the liveness properties, which stay with TLC.

Not modelled, and why:

* Login limit: the row lock makes counting and inserting one step per key, and the clock is read after it,
  so a model would repeat the statement. Authentication is library calls (hashing, tokens).
* Audit log, news, public summary: inserts, plain CRUD, and reads that change nothing.
* What is read out of spreadsheets and PDF forms, and what is done to the pixels of images: conversions
  whose content no property here tells apart. The models start from the recognized rows.
* The uploaded source file of a PDF import, and its removal; an administrator's removal of a
  temporary image of a batch. Both are single calls to the store outside the batch's
  protocol.
* Start-up migrations and initializers but for those that `MatchDay` and `FormDraft` name (tables
  recomputed, drafts recovered), seeds, one-off scripts, generated documents, HTTP caching and logging.
