------------------------------ MODULE CampusCard ------------------------------
(***************************************************************************)
(* The campus-card material of member accounts: the upload that reserves a *)
(* ledger row, writes a private object and binds it to an account, the     *)
(* review that approves or returns an application, and the cleanup that    *)
(* removes objects and releases the quota (src/src/members).               *)
(*                                                                         *)
(* Requests run as concurrent handlers on any number of server processes:  *)
(* each handler is cut at its awaits, one action per database statement,   *)
(* transaction or object-store call.  Time is abstract: a lease is live or *)
(* expired, a deletion date is due or not, a retry date is ahead or past,  *)
(* and the clock actions move each of them forward.                        *)
(***************************************************************************)
EXTENDS Integers, FiniteSets

CONSTANTS
  Assets,         \* ledger rows (campusCardAsset); each has its own object key
  Members,        \* accounts (memberAccount)
  LegacyMembers,  \* accounts carried over by the account migration
  Requests,       \* concurrent register / resubmit handlers
  Workers,        \* concurrent cleanup runs, with the reviews that start one
  NoOne,          \* "no asset" / "no account"
  Quota,          \* MAX_UNRELEASED_ASSETS
  BatchLimit      \* take: 25 of one cleanup run

Tries == 3        \* reserveCardCapacity retries the transaction twice

ASSUME AssetsAssumption == IsFiniteSet(Assets)
ASSUME LegacyAssumption == LegacyMembers \subseteq Members
ASSUME NoOneAssumption == NoOne \notin Assets /\ NoOne \notin Members
ASSUME BoundAssumption == Quota \in Nat /\ BatchLimit \in Nat

VARIABLES
  \* campusCardAsset
  state,      \* FREE (no row yet), STAGING, READY, DELETE_PENDING, DELETED
  settled,    \* uploadSettled
  lease,      \* leaseUntil: none (null), live (>= now) or expired
  due,        \* deleteAfter <= now
  backoff,    \* nextAttemptAt > now
  owner,      \* memberId
  version,    \* version
  \* the private bucket
  put,        \* the PUT of a key: none, inflight, landed, lost
  stored,     \* keys with an object
  \* memberAccount
  status,     \* verificationStatus, NONE when there is no account
  ver,        \* verificationVersion
  comment,    \* reviewComment: none, returned (by a reviewer), expired, restored
  disabled,
  \* register / resubmit
  rpc, rmember, rbase, rasset, rtries, rclash, wrote,
  \* cleanup
  wpc, wscope, wbatch, wsettled, wasset

assetVars  == <<state, settled, lease, due, backoff, owner, version>>
storeVars  == <<put, stored>>
memberVars == <<status, ver, comment, disabled>>
reqVars    == <<rpc, rmember, rbase, rasset, rtries, rclash, wrote>>
workVars   == <<wpc, wscope, wbatch, wsettled, wasset>>
vars       == <<assetVars, storeVars, memberVars, reqVars, workVars>>

AssetStates  == {"FREE", "STAGING", "READY", "DELETE_PENDING", "DELETED"}
MemberStates == {"NONE", "GONE", "LEGACY", "PENDING", "CHANGES_REQUESTED", "APPROVED"}
RequestSteps == {"idle", "reserve", "counted", "reserved", "writing", "written",
                 "settled", "staged", "failing"}
WorkerSteps  == {"idle", "sweep", "scan", "loop", "claimed", "demoted",
                 "removing", "removed", "failed"}

AssetTypes ==
  /\ state \in [Assets -> AssetStates]
  /\ settled \in [Assets -> BOOLEAN]
  /\ lease \in [Assets -> {"none", "live", "expired"}]
  /\ due \in [Assets -> BOOLEAN]
  /\ backoff \in [Assets -> BOOLEAN]
  /\ owner \in [Assets -> Members \cup {NoOne}]
  /\ version \in [Assets -> Nat]
  /\ put \in [Assets -> {"none", "inflight", "landed", "lost"}]
  /\ stored \in SUBSET Assets

MemberTypes ==
  /\ status \in [Members -> MemberStates]
  /\ ver \in [Members -> Nat]
  /\ comment \in [Members -> {"none", "returned", "expired", "restored"}]
  /\ disabled \in [Members -> BOOLEAN]

RequestTypes ==
  /\ rpc \in [Requests -> RequestSteps]
  /\ rmember \in [Requests -> Members \cup {NoOne}]
  /\ rbase \in [Requests -> Nat]
  /\ rasset \in [Requests -> Assets \cup {NoOne}]
  /\ rtries \in [Requests -> Nat]
  /\ rclash \in [Requests -> BOOLEAN]
  /\ wrote \in [Requests -> BOOLEAN]

WorkerTypes ==
  /\ wpc \in [Workers -> WorkerSteps]
  /\ wscope \in [Workers -> Members \cup {NoOne}]
  /\ wbatch \in [Workers -> SUBSET Assets]
  /\ wsettled \in [Workers -> SUBSET Assets]
  /\ wasset \in [Workers -> Assets \cup {NoOne}]

TypeOK == AssetTypes /\ MemberTypes /\ RequestTypes /\ WorkerTypes

Init ==
  /\ state = [a \in Assets |-> "FREE"]
  /\ settled = [a \in Assets |-> FALSE]
  /\ lease = [a \in Assets |-> "none"]
  /\ due = [a \in Assets |-> FALSE]
  /\ backoff = [a \in Assets |-> FALSE]
  /\ owner = [a \in Assets |-> NoOne]
  /\ version = [a \in Assets |-> 1]
  /\ put = [a \in Assets |-> "none"]
  /\ stored = {}
  /\ status = [m \in Members |-> IF m \in LegacyMembers THEN "LEGACY" ELSE "NONE"]
  /\ ver = [m \in Members |-> 1]
  /\ comment = [m \in Members |-> "none"]
  /\ disabled = [m \in Members |-> FALSE]
  /\ rpc = [r \in Requests |-> "idle"]
  /\ rmember = [r \in Requests |-> NoOne]
  /\ rbase = [r \in Requests |-> 0]
  /\ rasset = [r \in Requests |-> NoOne]
  /\ rtries = [r \in Requests |-> 0]
  /\ rclash = [r \in Requests |-> FALSE]
  /\ wrote = [r \in Requests |-> FALSE]
  /\ wpc = [w \in Workers |-> "idle"]
  /\ wscope = [w \in Workers |-> NoOne]
  /\ wbatch = [w \in Workers |-> {}]
  /\ wsettled = [w \in Workers |-> {}]
  /\ wasset = [w \in Workers |-> NoOne]

Unreleased == {a \in Assets : state[a] \notin {"FREE", "DELETED"}}
MaterialOf(m) == {a \in Assets : owner[a] = m}

\* What a resubmission or an approval takes from the account.
\* Mutant: takes only what is past its retention.
WithdrawnWhenDue(m) == {a \in MaterialOf(m) : state[a] \notin {"FREE", "DELETED"} /\ due[a]}
Withdrawn(m) == {a \in MaterialOf(m) : state[a] \notin {"FREE", "DELETED"}}

-----------------------------------------------------------------------------
\* Steps of a handler, and of a cleanup run, that change nothing else.
Move(r, step) ==
  /\ rpc' = [rpc EXCEPT ![r] = step]
  /\ UNCHANGED <<assetVars, storeVars, memberVars, workVars,
                 rmember, rbase, rasset, rtries, rclash, wrote>>

Turn(w, step) ==
  /\ wpc' = [wpc EXCEPT ![w] = step]
  /\ UNCHANGED <<assetVars, storeVars, memberVars, reqVars,
                 wscope, wbatch, wsettled, wasset>>

(***************************************************************************)
(* register and resubmit: the checks before the upload.                    *)
(***************************************************************************)

Start(r, m, base) ==
  /\ rpc[r] = "idle"
  /\ rpc' = [rpc EXCEPT ![r] = "reserve"]
  /\ rmember' = [rmember EXCEPT ![r] = m]
  /\ rbase' = [rbase EXCEPT ![r] = base]
  /\ UNCHANGED <<assetVars, storeVars, memberVars, workVars,
                 rasset, rtries, rclash, wrote>>

\* A username without an account, as far as the first lookup can see.
\* The base version 0 marks a registration.
BeginRegister(r, m) == status[m] = "NONE" /\ Start(r, m, 0)

\* The account is read outside any transaction; the version read here is what
\* the later transaction compares against.
BeginResubmit(r, m) ==
  /\ status[m] \notin {"NONE", "GONE", "APPROVED"}
  /\ ~disabled[m]
  /\ Start(r, m, ver[m])

(***************************************************************************)
(* stage, part 1: reserveCardCapacity around a Serializable transaction    *)
(* that counts the unreleased rows and creates one.  rclash[r] says that   *)
(* another reservation committed while r's was open: the database then     *)
(* aborts r's transaction (P2034) and the wrapper retries it.              *)
(***************************************************************************)

\* The handler returns or throws; its local variables are gone.
End(r) ==
  /\ rpc' = [rpc EXCEPT ![r] = "idle"]
  /\ rmember' = [rmember EXCEPT ![r] = NoOne]
  /\ rbase' = [rbase EXCEPT ![r] = 0]
  /\ rasset' = [rasset EXCEPT ![r] = NoOne]
  /\ rtries' = [rtries EXCEPT ![r] = 0]
  /\ rclash' = [rclash EXCEPT ![r] = FALSE]
  /\ wrote' = [wrote EXCEPT ![r] = FALSE]

\* Mutant: the limit itself still counts as room.
HasRoomOffByOne == Cardinality(Unreleased) <= Quota
HasRoom == Cardinality(Unreleased) < Quota

\* The transaction takes its snapshot and counts; no room is a 503.
CountUnreleased(r) ==
  /\ rpc[r] = "reserve"
  /\ \/ /\ HasRoom
        /\ rpc' = [rpc EXCEPT ![r] = "counted"]
        /\ UNCHANGED <<rmember, rbase, rasset, rtries, rclash, wrote>>
     \/ ~HasRoom /\ End(r)
  /\ UNCHANGED <<assetVars, storeVars, memberVars, workVars>>

\* The row is created with a 60 s lease and the write marked as undecided.
CreateStaging(r, a) ==
  /\ rpc[r] = "counted"
  /\ ~rclash[r]
  /\ state[a] = "FREE"
  /\ state' = [state EXCEPT ![a] = "STAGING"]
  /\ settled' = [settled EXCEPT ![a] = FALSE]
  /\ lease' = [lease EXCEPT ![a] = "live"]
  /\ rpc' = [rpc EXCEPT ![r] = "reserved"]
  /\ rasset' = [rasset EXCEPT ![r] = a]
  /\ rclash' = [q \in Requests |-> q # r /\ rpc[q] = "counted"]
  /\ UNCHANGED <<due, backoff, owner, version, storeVars, memberVars, workVars,
                 rmember, rbase, rtries, wrote>>

SerializationFailure(r) ==
  /\ rpc[r] = "counted"
  /\ rclash[r]
  /\ \/ /\ rtries[r] + 1 < Tries
        /\ rtries' = [rtries EXCEPT ![r] = @ + 1]
        /\ rpc' = [rpc EXCEPT ![r] = "reserve"]
        /\ rclash' = [rclash EXCEPT ![r] = FALSE]
        /\ UNCHANGED <<rmember, rbase, rasset, wrote>>
     \/ rtries[r] + 1 = Tries /\ End(r)
  /\ UNCHANGED <<assetVars, storeVars, memberVars, workVars>>

(***************************************************************************)
(* stage, part 2: check the lease, write the object, settle, confirm.      *)
(***************************************************************************)

\* writeStarted is set and the PUT leaves the process.  At the boundary the
\* clock comparison of an expired lease can still pass.
StartWrite(r) ==
  /\ rpc[r] = "reserved"
  /\ rpc' = [rpc EXCEPT ![r] = "writing"]
  /\ wrote' = [wrote EXCEPT ![r] = TRUE]
  /\ put' = [put EXCEPT ![rasset[r]] = "inflight"]
  /\ UNCHANGED <<assetVars, stored, memberVars, workVars,
                 rmember, rbase, rasset, rtries, rclash>>

LeaseRanOut(r) ==
  /\ rpc[r] = "reserved"
  /\ lease[rasset[r]] # "live"
  /\ Move(r, "failing")

\* Mutant: a lost PUT is taken for a success.
WriteAssumedGood(r) ==
  /\ rpc[r] = "writing"
  /\ put[rasset[r]] # "inflight"
  /\ Move(r, "written")

\* The object store answers: success only after the object is there.
WriteAnswered(r) ==
  /\ rpc[r] = "writing"
  /\ put[rasset[r]] = "landed"
  /\ Move(r, "written")

\* uploadSettled is made durable by id, whatever the row's state is by then.
Settle(r) ==
  /\ rpc[r] = "written"
  /\ settled' = [settled EXCEPT ![rasset[r]] = TRUE]
  /\ rpc' = [rpc EXCEPT ![r] = "settled"]
  /\ UNCHANGED <<state, lease, due, backoff, owner, version, storeVars, memberVars,
                 workVars, rmember, rbase, rasset, rtries, rclash, wrote>>

\* Mutant: the lease alone is checked, which a cleanup run holds too.
LeasedByClock(a) == lease[a] = "live"
Leased(a) == state[a] = "STAGING" /\ lease[a] = "live"

\* One conditional update; the renewed lease is live again.
ConfirmLease(r) ==
  /\ rpc[r] = "settled"
  /\ Move(r, IF Leased(rasset[r]) THEN "staged" ELSE "failing")

\* A store error or timeout says nothing about the PUT; the two updates after
\* it can fail as well.  All of them end in the catch block.
StageThrows(r) ==
  /\ rpc[r] \in {"writing", "written", "settled"}
  /\ Move(r, "failing")

Release(a) ==
  /\ state' = [state EXCEPT ![a] = "DELETE_PENDING"]
  /\ due' = [due EXCEPT ![a] = TRUE]
  /\ backoff' = [backoff EXCEPT ![a] = FALSE]

\* The catch block hands a row that is still STAGING to the cleanup, settled
\* only if the write never started, and rethrows.
PersistFailure(r) ==
  LET a == rasset[r] IN
  /\ rpc[r] = "failing"
  /\ End(r)
  /\ IF state[a] = "STAGING"
     THEN /\ Release(a)
          /\ lease' = [lease EXCEPT ![a] = "none"]
          /\ settled' = [settled EXCEPT ![a] = @ \/ ~wrote[r]]
     ELSE UNCHANGED <<state, due, backoff, lease, settled>>
  /\ UNCHANGED <<owner, version, storeVars, memberVars, workVars>>

\* The handler dies at any await (process stopped, database unreachable, the
\* catch block's own update failing, a unique or serialization conflict in
\* the binding transaction): nothing more is written on its behalf.
Abandon(r) ==
  /\ rpc[r] # "idle"
  /\ End(r)
  /\ UNCHANGED <<assetVars, storeVars, memberVars, workVars>>

-----------------------------------------------------------------------------
(***************************************************************************)
(* The binding transactions.  A transaction that finds its conditions      *)
(* broken rolls back and the request ends: that is Abandon.                *)
(***************************************************************************)

RegisterAccount(r) ==
  LET m == rmember[r]  a == rasset[r] IN
  /\ rpc[r] = "staged" /\ rbase[r] = 0
  /\ status[m] = "NONE"
  /\ Leased(a)
  /\ status' = [status EXCEPT ![m] = "PENDING"]
  /\ ver' = [ver EXCEPT ![m] = 1]
  /\ comment' = [comment EXCEPT ![m] = "none"]
  /\ state' = [state EXCEPT ![a] = "READY"]
  /\ owner' = [owner EXCEPT ![a] = m]
  /\ version' = [version EXCEPT ![a] = 1]
  /\ due' = [due EXCEPT ![a] = FALSE]
  /\ lease' = [lease EXCEPT ![a] = "none"]
  /\ End(r)
  /\ UNCHANGED <<settled, backoff, storeVars, disabled, workVars>>

\* Every earlier material of the account is handed to the cleanup, and the new
\* one becomes the material of the next version.
ResubmitCard(r) ==
  LET m == rmember[r]  a == rasset[r]  old == Withdrawn(m) IN
  /\ rpc[r] = "staged" /\ rbase[r] > 0
  /\ ~disabled[m] /\ ver[m] = rbase[r]
  /\ status[m] \notin {"NONE", "GONE", "APPROVED"}
  /\ Leased(a)
  /\ status' = [status EXCEPT ![m] = "PENDING"]
  /\ ver' = [ver EXCEPT ![m] = rbase[r] + 1]
  /\ comment' = [comment EXCEPT ![m] = "none"]
  /\ state' = [b \in Assets |-> IF b = a THEN "READY"
                                ELSE IF b \in old THEN "DELETE_PENDING" ELSE state[b]]
  /\ due' = [b \in Assets |-> b # a /\ (due[b] \/ b \in old)]
  /\ backoff' = [b \in Assets |-> backoff[b] /\ b \notin old]
  /\ owner' = [owner EXCEPT ![a] = m]
  /\ version' = [version EXCEPT ![a] = rbase[r] + 1]
  /\ lease' = [lease EXCEPT ![a] = "none"]
  /\ End(r)
  /\ UNCHANGED <<settled, storeVars, disabled, workVars>>

-----------------------------------------------------------------------------
(***************************************************************************)
(* The object store decides an outstanding PUT at a time of its own, also  *)
(* after the request that sent it has given up.                            *)
(***************************************************************************)

PutLands(a) ==
  /\ put[a] = "inflight"
  /\ put' = [put EXCEPT ![a] = "landed"]
  /\ stored' = stored \cup {a}
  /\ UNCHANGED <<assetVars, memberVars, reqVars, workVars>>

PutLost(a) ==
  /\ put[a] = "inflight"
  /\ put' = [put EXCEPT ![a] = "lost"]
  /\ UNCHANGED <<stored, assetVars, memberVars, reqVars, workVars>>

-----------------------------------------------------------------------------
(***************************************************************************)
(* review and setDisabled.                                                 *)
(***************************************************************************)

\* Approving needs material of the reviewed version; it withdraws every
\* material of the account and runs a first cleanup for it before answering.
\* updateMany leaves leaseUntil alone.
ReviewApprove(w, m) ==
  LET open == Withdrawn(m) IN
  /\ wpc[w] = "idle"
  /\ status[m] = "PENDING" /\ ~disabled[m]
  /\ \E a \in MaterialOf(m) : state[a] = "READY" /\ ~due[a] /\ version[a] = ver[m]
  /\ status' = [status EXCEPT ![m] = "APPROVED"]
  /\ comment' = [comment EXCEPT ![m] = "none"]
  /\ state' = [a \in Assets |-> IF a \in open THEN "DELETE_PENDING" ELSE state[a]]
  /\ due' = [a \in Assets |-> due[a] \/ a \in open]
  /\ backoff' = [a \in Assets |-> backoff[a] /\ a \notin open]
  /\ wpc' = [wpc EXCEPT ![w] = "scan"]
  /\ wscope' = [wscope EXCEPT ![w] = m]
  /\ UNCHANGED <<settled, lease, owner, version, storeVars, ver, disabled, reqVars,
                 wbatch, wsettled, wasset>>

\* Returning an application needs a reason and no material.
ReviewReturn(m) ==
  /\ status[m] = "PENDING" /\ ~disabled[m]
  /\ status' = [status EXCEPT ![m] = "CHANGES_REQUESTED"]
  /\ comment' = [comment EXCEPT ![m] = "returned"]
  /\ UNCHANGED <<ver, disabled, assetVars, storeVars, reqVars, workVars>>

SetDisabled(m, b) ==
  /\ status[m] \notin {"NONE", "GONE"}
  /\ disabled' = [disabled EXCEPT ![m] = b]
  /\ UNCHANGED <<status, ver, comment, assetVars, storeVars, reqVars, workVars>>

-----------------------------------------------------------------------------
(***************************************************************************)
(* cleanup.  Every run reads the clock once; rows whose lease runs out     *)
(* later are not claimed by it, but nothing forces it to be fast.          *)
(***************************************************************************)

\* The scheduled run covers all accounts (wscope is NoOne).
StartCleanup(w) ==
  /\ wpc[w] = "idle"
  /\ Turn(w, "sweep")

Orphans == {a \in Assets : /\ state[a] = "STAGING"
                           /\ owner[a] = NoOne
                           /\ lease[a] # "live"}

Sweep(w) ==
  /\ wpc[w] = "sweep"
  /\ wpc' = [wpc EXCEPT ![w] = "scan"]
  /\ state' = [a \in Assets |-> IF a \in Orphans THEN "DELETE_PENDING" ELSE state[a]]
  /\ due' = [a \in Assets |-> due[a] \/ a \in Orphans]
  /\ backoff' = [a \in Assets |-> backoff[a] /\ a \notin Orphans]
  /\ UNCHANGED <<settled, lease, owner, version, storeVars, memberVars, reqVars,
                 wscope, wbatch, wsettled, wasset>>

\* The sweep's failure is logged and the run goes on.
SweepFails(w) ==
  /\ wpc[w] = "sweep"
  /\ Turn(w, "scan")

\* Mutant: a lease that has run out still protects the row.
EligibleUnleased(w) == {a \in Assets : /\ wscope[w] # NoOne => owner[a] = wscope[w]
                                       /\ state[a] \notin {"FREE", "DELETED"}
                                       /\ due[a] /\ ~backoff[a]
                                       /\ lease[a] = "none"}
Eligible(w) == {a \in Assets : /\ wscope[w] # NoOne => owner[a] = wscope[w]
                               /\ state[a] \notin {"FREE", "DELETED"}
                               /\ due[a] /\ ~backoff[a]
                               /\ lease[a] # "live"}

\* At most BatchLimit rows are read, together with their uploadSettled; the
\* order (earliest nextAttemptAt first) is left open.
Scan(w) ==
  /\ wpc[w] = "scan"
  /\ \E batch \in SUBSET Eligible(w) :
       /\ \/ batch = Eligible(w) /\ Cardinality(batch) <= BatchLimit
          \/ Cardinality(batch) = BatchLimit
       /\ wbatch' = [wbatch EXCEPT ![w] = batch]
       /\ wsettled' = [wsettled EXCEPT ![w] = {a \in batch : settled[a]}]
  /\ wpc' = [wpc EXCEPT ![w] = "loop"]
  /\ UNCHANGED <<assetVars, storeVars, memberVars, reqVars, wscope, wasset>>

\* One conditional update claims the row for 300 s.
Claim(w, a) ==
  /\ wpc[w] = "loop" /\ a \in wbatch[w]
  /\ state[a] # "DELETED" /\ lease[a] # "live"
  /\ state' = [state EXCEPT ![a] = "DELETE_PENDING"]
  /\ lease' = [lease EXCEPT ![a] = "live"]
  /\ wpc' = [wpc EXCEPT ![w] = "claimed"]
  /\ wasset' = [wasset EXCEPT ![w] = a]
  /\ wbatch' = [wbatch EXCEPT ![w] = @ \ {a}]
  /\ UNCHANGED <<settled, due, backoff, owner, version, storeVars, memberVars, reqVars,
                 wscope, wsettled>>

\* Another run has the row or finished it; an expired lease may have been
\* taken after this run's clock was read.
Skip(w, a) ==
  /\ wpc[w] = "loop" /\ a \in wbatch[w]
  /\ state[a] = "DELETED" \/ lease[a] # "none"
  /\ wbatch' = [wbatch EXCEPT ![w] = @ \ {a}]
  /\ wsettled' = [wsettled EXCEPT ![w] = @ \ {a}]
  /\ UNCHANGED <<assetVars, storeVars, memberVars, reqVars, wpc, wscope, wasset>>

\* Mutant: the version of the material is not compared.
WaitingOnAny(a) == owner[a] # NoOne /\ status[owner[a]] = "PENDING"
\* Mutant: asks for READY although the claim has changed the state.
WaitingOnReady(a) == WaitingOnAny(a) /\ state[a] = "READY"
Waiting(a) == owner[a] # NoOne /\ status[owner[a]] = "PENDING" /\ ver[owner[a]] = version[a]

\* An application still waiting on this very material goes back to the user.
Demote(w) ==
  LET a == wasset[w]  m == owner[a] IN
  /\ wpc[w] = "claimed"
  /\ IF Waiting(a)
     THEN /\ status' = [status EXCEPT ![m] = "CHANGES_REQUESTED"]
          /\ comment' = [comment EXCEPT ![m] = "expired"]
     ELSE UNCHANGED <<status, comment>>
  /\ wpc' = [wpc EXCEPT ![w] = "demoted"]
  /\ UNCHANGED <<assetVars, storeVars, ver, disabled, reqVars,
                 wscope, wbatch, wsettled, wasset>>

DeleteObject(w) ==
  /\ wpc[w] = "demoted"
  /\ stored' = stored \ {wasset[w]}
  /\ wpc' = [wpc EXCEPT ![w] = "removing"]
  /\ UNCHANGED <<put, assetVars, memberVars, reqVars,
                 wscope, wbatch, wsettled, wasset>>

\* HEAD after DELETE: only a 404 counts as removed.
Head(w) ==
  /\ wpc[w] = "removing"
  /\ Turn(w, IF wasset[w] \in stored THEN "failed" ELSE "removed")

\* On to the next row of the batch.
Continue(w) ==
  /\ wpc' = [wpc EXCEPT ![w] = "loop"]
  /\ wasset' = [wasset EXCEPT ![w] = NoOne]
  /\ wsettled' = [wsettled EXCEPT ![w] = @ \ {wasset[w]}]
  /\ UNCHANGED <<storeVars, memberVars, reqVars, wscope, wbatch>>

\* A write that was undecided when the row was read keeps its quota: the PUT
\* may still land after the DELETE.
KeepQuota(w) ==
  LET a == wasset[w] IN
  /\ wpc[w] = "removed" /\ a \notin wsettled[w]
  /\ lease' = [lease EXCEPT ![a] = "none"]
  /\ backoff' = [backoff EXCEPT ![a] = TRUE]
  /\ Continue(w)
  /\ UNCHANGED <<state, settled, due, owner, version>>

\* Mutant: one 404 releases the quota, settled or not.
ReleaseOnNotFound(w) ==
  LET a == wasset[w] IN
  /\ wpc[w] = "removed"
  /\ state' = [state EXCEPT ![a] = "DELETED"]
  /\ lease' = [lease EXCEPT ![a] = "none"]
  /\ Continue(w)
  /\ UNCHANGED <<settled, due, backoff, owner, version>>

ReleaseQuota(w) ==
  LET a == wasset[w] IN
  /\ wpc[w] = "removed" /\ a \in wsettled[w]
  /\ state' = [state EXCEPT ![a] = "DELETED"]
  /\ lease' = [lease EXCEPT ![a] = "none"]
  /\ Continue(w)
  /\ UNCHANGED <<settled, due, backoff, owner, version>>

\* Any call of the try block can throw.
CleanupThrows(w) ==
  /\ wpc[w] \in {"claimed", "demoted", "removing", "removed"}
  /\ Turn(w, "failed")

\* Mutant: the lease is reset to something that is no lease.
RetryWithNull(w) ==
  LET a == wasset[w] IN
  /\ wpc[w] = "failed"
  /\ lease' = [lease EXCEPT ![a] = NoOne]
  /\ backoff' = [backoff EXCEPT ![a] = TRUE]
  /\ Continue(w)
  /\ UNCHANGED <<state, settled, due, owner, version>>

RetryLater(w) ==
  LET a == wasset[w] IN
  /\ wpc[w] = "failed"
  /\ lease' = [lease EXCEPT ![a] = "none"]
  /\ backoff' = [backoff EXCEPT ![a] = TRUE]
  /\ Continue(w)
  /\ UNCHANGED <<state, settled, due, owner, version>>

Rest(w) ==
  /\ wpc' = [wpc EXCEPT ![w] = "idle"]
  /\ wscope' = [wscope EXCEPT ![w] = NoOne]
  /\ wbatch' = [wbatch EXCEPT ![w] = {}]
  /\ wsettled' = [wsettled EXCEPT ![w] = {}]
  /\ wasset' = [wasset EXCEPT ![w] = NoOne]
  /\ UNCHANGED <<assetVars, storeVars, memberVars, reqVars>>

EndCleanup(w) ==
  /\ wpc[w] = "loop" /\ wbatch[w] = {}
  /\ Rest(w)

\* The process of the run dies, or an update outside the try block throws; a
\* claimed row keeps its lease until it runs out.
WorkerCrash(w) ==
  /\ wpc[w] # "idle"
  /\ Rest(w)

-----------------------------------------------------------------------------
(***************************************************************************)
(* Time.                                                                   *)
(***************************************************************************)

LeaseExpires(a) ==
  /\ lease[a] = "live"
  /\ lease' = [lease EXCEPT ![a] = "expired"]
  /\ UNCHANGED <<state, settled, due, backoff, owner, version,
                 storeVars, memberVars, reqVars, workVars>>

\* 30 days for bound material; one day for a staged row, long after its lease.
Mature(a) ==
  /\ ~due[a]
  /\ state[a] = "READY" \/ (state[a] = "STAGING" /\ lease[a] # "live")
  /\ due' = [due EXCEPT ![a] = TRUE]
  /\ UNCHANGED <<state, settled, lease, backoff, owner, version,
                 storeVars, memberVars, reqVars, workVars>>

BackoffElapses(a) ==
  /\ backoff[a]
  /\ backoff' = [backoff EXCEPT ![a] = FALSE]
  /\ UNCHANGED <<state, settled, lease, due, owner, version,
                 storeVars, memberVars, reqVars, workVars>>

-----------------------------------------------------------------------------
RequestStep(r) ==
  \/ \E m \in Members : BeginRegister(r, m) \/ BeginResubmit(r, m)
  \/ CountUnreleased(r)
  \/ \E a \in Assets : CreateStaging(r, a)
  \/ SerializationFailure(r)
  \/ StartWrite(r) \/ LeaseRanOut(r) \/ WriteAnswered(r) \/ Settle(r)
  \/ ConfirmLease(r) \/ StageThrows(r) \/ PersistFailure(r)
  \/ RegisterAccount(r) \/ ResubmitCard(r)
  \/ Abandon(r)

WorkerStep(w) ==
  \/ \E m \in Members : ReviewApprove(w, m)
  \/ StartCleanup(w) \/ Sweep(w) \/ SweepFails(w) \/ Scan(w)
  \/ \E a \in Assets : Claim(w, a) \/ Skip(w, a)
  \/ Demote(w) \/ DeleteObject(w) \/ Head(w)
  \/ KeepQuota(w) \/ ReleaseQuota(w)
  \/ CleanupThrows(w) \/ RetryLater(w) \/ EndCleanup(w) \/ WorkerCrash(w)

Next ==
  \/ \E r \in Requests : RequestStep(r)
  \/ \E w \in Workers : WorkerStep(w)
  \/ \E a \in Assets : PutLands(a) \/ PutLost(a)
  \/ \E m \in Members : ReviewReturn(m)
  \/ \E m \in Members, b \in BOOLEAN : SetDisabled(m, b)
  \/ \E a \in Assets : LeaseExpires(a) \/ Mature(a) \/ BackoffElapses(a)

Spec == Init /\ [][Next]_vars

-----------------------------------------------------------------------------
(***************************************************************************)
(* Safety.                                                                 *)
(***************************************************************************)

\* Quota is released only when the object is gone for good: a DELETED row has
\* no object and no PUT that could still create one (cleanup must never
\* conclude from one HEAD 404 that an undecided write is over).
DeletedMeansGone ==
  \A a \in Assets : state[a] = "DELETED" => a \notin stored /\ put[a] # "inflight"

\* No interleaving of reservations, retries and cleanups holds more than
\* MAX_UNRELEASED_ASSETS rows.
QuotaSafe == Cardinality(Unreleased) <= Quota

\* Material a reviewer can open is really in the bucket, and its write is
\* settled: no cleanup run, however stale its batch, removes it first.
ReadyIsStored ==
  \A a \in Assets : state[a] = "READY" => a \in stored /\ settled[a]

\* An account has at most one READY material, of its current version, and
\* none once it is approved.
SoleLiveMaterial ==
  \A a \in Assets : state[a] = "READY" =>
     /\ owner[a] \in Members
     /\ version[a] = ver[owner[a]]
     /\ status[owner[a]] \in {"PENDING", "CHANGES_REQUESTED"}
     /\ \A b \in Assets \ {a} : state[b] = "READY" => owner[b] # owner[a]

\* After approval every material of the account is with the cleanup or gone,
\* also one that a concurrent resubmission had staged.
ApprovedMaterialWithdrawn ==
  \A a \in Assets : owner[a] \in Members /\ status[owner[a]] = "APPROVED" =>
     state[a] \in {"DELETE_PENDING", "DELETED"}

\* A reviewer always finds the row of the version under review: cleanup
\* returns the application before it finishes with its material.
PendingHasMaterial ==
  \A m \in Members : status[m] = "PENDING" =>
     \E a \in MaterialOf(m) : version[a] = ver[m] /\ state[a] \in {"READY", "DELETE_PENDING"}

\* Ledger and accounts agree, whatever resubmissions, reviews, expiries and
\* cleanups of one account run into each other.
MaterialFits == SoleLiveMaterial /\ ApprovedMaterialWithdrawn /\ PendingHasMaterial

\* A user is told that the material expired only when the material of the
\* current version did.
ExpiryIsTrue ==
  \A m \in Members : comment[m] = "expired" =>
     ~\E a \in MaterialOf(m) : state[a] = "READY" /\ ~due[a] /\ version[a] = ver[m]

\* A row handed to the cleanup is never bound again, and a released one stays
\* released: late updates by id (settling, retrying) must not undo the state.
CleanupIsFinal ==
  [][\A a \in Assets :
       /\ state[a] = "DELETE_PENDING" => state'[a] \in {"DELETE_PENDING", "DELETED"}
       /\ state[a] = "DELETED" => state'[a] = "DELETED"]_vars

-----------------------------------------------------------------------------
(***************************************************************************)
(* What makes the first three inductive: who holds a row, what its PUT and *)
(* object are at each step of the handler, and what a cleanup run may      *)
(* believe about the rows it has read.                                     *)
(***************************************************************************)

Holding == {"reserved", "writing", "written", "settled", "staged", "failing"}

\* A handler has a row exactly while it stages it, and no two share one.
Custody ==
  \A r \in Requests :
    /\ rasset[r] # NoOne <=> rpc[r] \in Holding
    /\ rpc[r] \in Holding => state[rasset[r]] # "FREE"
    /\ \A q \in Requests \ {r} : rasset[q] = rasset[r] => rasset[r] = NoOne

\* The handler's step and the PUT it sent agree.
Progress ==
  \A r \in Requests :
    /\ rpc[r] = "reserved" => put[rasset[r]] = "none"
    /\ rpc[r] = "failing" /\ ~wrote[r] => put[rasset[r]] = "none"
    /\ rpc[r] \in {"writing", "written", "settled"} => wrote[r]
    /\ rpc[r] \in {"written", "settled", "staged"} => put[rasset[r]] = "landed"
    /\ rpc[r] \in {"settled", "staged"} => settled[rasset[r]]
    /\ rpc[r] \in Holding /\ settled[rasset[r]] => put[rasset[r]] = "landed"

\* Rows and objects: a settled write is over, and only the cleanup of a row
\* removes its object.
Objects ==
  \A a \in Assets :
    /\ put[a] = "none" => a \notin stored
    /\ state[a] = "FREE" => put[a] = "none" /\ ~settled[a]
    /\ settled[a] => put[a] \in {"none", "landed"}
    /\ state[a] = "DELETED" => settled[a] /\ a \notin stored
    /\ state[a] = "STAGING" /\ put[a] = "landed" => a \in stored
    /\ state[a] = "READY" => settled[a] /\ put[a] = "landed" /\ a \in stored

Claimed == {"claimed", "demoted", "removing", "removed", "failed"}

\* A run works on rows that are with the cleanup, and the settled writes it
\* has read stay settled.
Claims ==
  \A w \in Workers :
    /\ wpc[w] \in Claimed =>
         wasset[w] \in Assets /\ state[wasset[w]] \in {"DELETE_PENDING", "DELETED"}
    /\ \A a \in wbatch[w] : state[a] # "FREE"
    /\ \A a \in wsettled[w] : state[a] # "FREE" /\ settled[a]
    /\ wpc[w] = "removed" /\ wasset[w] \in wsettled[w] => wasset[w] \notin stored

\* A count that no commit has overtaken is still good.
CountsHold == \A r \in Requests : rpc[r] = "counted" /\ ~rclash[r] => HasRoom

-----------------------------------------------------------------------------
(***************************************************************************)
(* Liveness.  Time passes; the cleanup schedule keeps starting runs and a  *)
(* run keeps going; calls to the database and the object store that are    *)
(* tried again and again eventually succeed.  Batches are read earliest    *)
(* retry first, so a row that stays eligible is eventually in a batch.     *)
(* Nothing is assumed of requests or reviewers.                            *)
(***************************************************************************)

ScanWith(w, a) == Scan(w) /\ a \in wbatch'[w]
OnAsset(w, a, step) == wasset[w] = a /\ step

Fairness ==
  /\ \A w \in Workers :
       /\ WF_vars(StartCleanup(w)) /\ SF_vars(Sweep(w))
       /\ WF_vars(Sweep(w) \/ SweepFails(w)) /\ WF_vars(Scan(w))
       /\ WF_vars(\E a \in Assets : Claim(w, a) \/ Skip(w, a))
       /\ WF_vars(Demote(w) \/ DeleteObject(w) \/ Head(w) \/ KeepQuota(w)
                  \/ ReleaseQuota(w) \/ RetryLater(w) \/ EndCleanup(w))
  /\ \A a \in Assets :
       /\ WF_vars(LeaseExpires(a)) /\ WF_vars(Mature(a)) /\ WF_vars(BackoffElapses(a))
       /\ SF_vars(\E w \in Workers : ScanWith(w, a))
       /\ SF_vars(\E w \in Workers : Claim(w, a))
       /\ SF_vars(\E w \in Workers : OnAsset(w, a, Demote(w)))
       /\ SF_vars(\E w \in Workers : OnAsset(w, a, DeleteObject(w)))
       /\ SF_vars(\E w \in Workers : OnAsset(w, a, Head(w) /\ wpc'[w] = "removed"))
       /\ SF_vars(\E w \in Workers : OnAsset(w, a, ReleaseQuota(w)))

FairSpec == Spec /\ Fairness

\* Every row whose write is settled is eventually released, whatever becomes
\* of the request, the review and single cleanup runs.
QuotaReturns ==
  \A a \in Assets : settled[a] /\ state[a] # "FREE" ~> state[a] = "DELETED"

\* No application waits forever: the material's retention ends it if nobody
\* reviews it.
ReviewEnds == \A m \in Members : status[m] = "PENDING" ~> status[m] # "PENDING"

=============================================================================
