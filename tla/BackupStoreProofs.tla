--------------------------- MODULE BackupStoreProofs ---------------------------
(***************************************************************************)
(* What holds of the backups in the bucket for any number of requests,     *)
(* days and changes: what was answered as a backup is whole, scheduled     *)
(* backups keep their distance, what a restore throws away has been saved, *)
(* and a removal leaves two good backups and one as young.  And what holds *)
(* of one backup for any rows, page size and changes: it misses no row,    *)
(* what is accepted is what was written, and can be put back.              *)
(*                                                                         *)
(* The inductive invariants follow each request: before its object exists, *)
(* when it has been read back, what has happened to the database since a   *)
(* restore began its snapshot (IInv), and what a keeper may count on while *)
(* it removes (KInv).                                                      *)
(***************************************************************************)
EXTENDS BackupStore, BackupFormat, NaturalsInduction, WellFoundedInduction,
        FiniteSetTheorems, TLAPS

(* The records of the requests. *)
JobShape == job = [e \in Exports |-> [pc |-> job[e].pc, holds |-> job[e].holds,
                                     since |-> job[e].since, latest |-> job[e].latest,
                                     missed |-> job[e].missed]]
RestoreShape == restore = [r \in Restores |-> [pc |-> restore[r].pc, holds |-> restore[r].holds,
                                              at |-> restore[r].at]]
UploadShapes ==
  /\ token = [t \in Tokens |-> [day |-> token[t].day, put |-> token[t].put]]
  /\ complete = [c \in Completes |-> [pc |-> complete[c].pc, token |-> complete[c].token]]

Clock ==
  /\ now \in Nat /\ tick \in Nat
  /\ when \in [Changes -> Nat]

(* A name stands for one object; the scheduled ones are of the whole site. *)
Objects ==
  /\ \A a, b \in stored : a.key = b.key => a = b
  /\ \A b \in stored : /\ b.time \in Int /\ b.time <= now
                       /\ b.purpose = "scheduled" => IsFull(b)

Scheduled == {b \in stored : b.purpose = "scheduled"}
AllOlder == \A b \in Scheduled : b.time + MinInterval < now

(* An export has no object before it has uploaded it, and one that has     *)
(* been answered has read it back; the scheduled export that runs is the   *)
(* one in flight, and has found the last one old enough.                   *)
ExportFacts(e) ==
  /\ job[e].pc \in {"idle", "joined", "comparing", "reading"} => \A b \in stored : b.key # e
  /\ job[e].pc = "answered" => \A b \in stored : b.key = e => b.closed
  /\ job[e].pc \in {"joined", "comparing"} => e \in Crons
  /\ e \in Crons /\ job[e].pc \in {"comparing", "reading"} => flight = e /\ AllOlder

TokenFacts(t) == ~ token[t].put => \A b \in stored : b.key # t

(* The temporary that a completion accepted may go, but is not put again. *)
UploadFacts(c) ==
  /\ complete[c].pc \in {"idle", "copy"} => \A b \in stored : b.key # c
  /\ complete[c].pc = "copy" =>
       /\ complete[c].token \in Tokens /\ token[complete[c].token].put
       /\ \A b \in stored : b.key = complete[c].token => b.closed
  /\ complete[c].pc \in {"copied", "answered"} => \A b \in stored : b.key = c => b.closed

(* The row is in the restore's snapshot, came later, or was cut off it. *)
Saved(r, c) ==
  \/ c \in job[r].holds \cup job[r].missed
  \/ c \in Changes /\ when[c] > job[r].since
  \/ BroughtBack(c, job[r].since)

RestoreFacts(r) ==
  /\ restore[r].pc = "idle" => job[r].pc = "idle"
  /\ restore[r].pc = "tx" => job[r].pc = "answered"
  /\ restore[r].at \in Nat /\ restore[r].at <= tick
  /\ job[r].since \in Nat /\ job[r].since <= tick
  /\ job[r].pc = "reading" => job[r].missed = {}
  /\ job[r].pc \in {"reading", "uploaded", "answered"} => \A c \in db : Saved(r, c)

ExportsFit == JobShape /\ \A e \in Exports : ExportFacts(e)
UploadsFit ==
  /\ UploadShapes
  /\ \A t \in Tokens : TokenFacts(t)
  /\ \A c \in Completes : UploadFacts(c)
RestoresFit == RestoreShape /\ \A r \in Restores : RestoreFacts(r)

IInv == Clock /\ Objects /\ OneScheduled /\ ExportsFit /\ UploadsFit /\ RestoresFit

-----------------------------------------------------------------------------
(* What a step leaves alone *)

Fewer(key) == \A b \in stored' : b.key = key => b \in stored
FewerScheduled == \A b \in stored' : b.purpose = "scheduled" => b \in stored

LEMMA NamesAreDistinct ==
  /\ \A e \in Exports : e \notin Tokens /\ e \notin Completes /\ e # Nobody
  /\ \A t \in Tokens : t \notin Completes
  /\ \A e \in Crons : e \notin Manuals /\ e \notin Restores
  /\ \A e \in Manuals : e \notin Restores
  /\ \A b \in Old : b.key \notin Exports /\ b.key \notin Tokens /\ b.key \notin Completes
<1>1. \A e \in Exports : e # Nobody
  BY StoreAssumption DEF Names
<1>2. \A b \in Old : b.key \notin Exports /\ b.key \notin Tokens /\ b.key \notin Completes
  BY NamesAssumption
<1> QED BY <1>1, <1>2, NamesAssumption DEF Exports

LEMMA ObjectsKept ==
  ASSUME Clock, Objects, OneScheduled, stored' \subseteq stored, now' \in Nat, now' >= now
  PROVE  Objects' /\ OneScheduled'
<1>1. Objects'
  BY DEF Objects, Clock
<1>2. OneScheduled'
  BY DEF OneScheduled
<1> QED BY <1>1, <1>2

LEMMA ExportKept ==
  ASSUME Clock, Objects, NEW e \in Exports, ExportFacts(e), job'[e] = job[e],
         flight = e => flight' = e /\ FewerScheduled,
         Fewer(e), now' \in Nat, now' >= now
  PROVE  ExportFacts(e)'
<1>1. /\ job'[e].pc \in {"idle", "joined", "comparing", "reading"} => \A b \in stored' : b.key # e
      /\ job'[e].pc = "answered" => \A b \in stored' : b.key = e => b.closed
      /\ job'[e].pc \in {"joined", "comparing"} => e \in Crons
  BY DEF ExportFacts, Fewer
<1>2. ASSUME e \in Crons, job'[e].pc \in {"comparing", "reading"}
      PROVE  flight' = e /\ AllOlder'
  <2>1. flight = e /\ AllOlder
    BY <1>2 DEF ExportFacts
  <2>2. \A b \in Scheduled' : b \in Scheduled
    BY <2>1 DEF FewerScheduled, Scheduled
  <2>3. \A b \in Scheduled : b.time + MinInterval < now'
    BY <2>1, StoreAssumption DEF AllOlder, Scheduled, Objects, Clock
  <2> QED BY <2>1, <2>2, <2>3 DEF AllOlder
<1> QED BY <1>1, <1>2 DEF ExportFacts

LEMMA ExportsKept ==
  ASSUME Clock, Objects, ExportsFit, job' = job, flight' = flight, FewerScheduled,
         \A e \in Exports : Fewer(e), now' \in Nat, now' >= now
  PROVE  ExportsFit'
<1>1. JobShape'
  BY DEF ExportsFit, JobShape
<1>2. ASSUME NEW e \in Exports PROVE ExportFacts(e)'
  BY ExportKept DEF ExportsFit
<1> QED BY <1>1, <1>2 DEF ExportsFit

LEMMA UploadKept ==
  ASSUME UploadsFit, NEW c \in Completes, complete'[c] = complete[c],
         \A t \in Tokens : token[t].put => token'[t].put /\ Fewer(t), Fewer(c)
  PROVE  UploadFacts(c)'
<1>1. UploadFacts(c)
  BY DEF UploadsFit
<1> QED BY <1>1 DEF UploadFacts, Fewer

LEMMA UploadsKept ==
  ASSUME UploadsFit, UNCHANGED uploads, \A t \in Tokens : Fewer(t), \A c \in Completes : Fewer(c)
  PROVE  UploadsFit'
<1>1. UploadShapes' /\ token' = token /\ complete' = complete
  BY DEF UploadsFit, UploadShapes, uploads
<1>2. ASSUME NEW c \in Completes PROVE UploadFacts(c)'
  BY <1>1, UploadKept
<1>3. ASSUME NEW t \in Tokens PROVE TokenFacts(t)'
  BY <1>1 DEF UploadsFit, TokenFacts, Fewer
<1> QED BY <1>1, <1>2, <1>3 DEF UploadsFit

(* What has been saved or brought back stays so. *)
LEMMA SavedKept ==
  ASSUME NEW r \in Restores, NEW c, Saved(r, c),
         job'[r].since = job[r].since,
         c \in job[r].holds \cup job[r].missed => c \in job'[r].holds \cup job'[r].missed,
         c \in Changes => when'[c] = when[c],
         \A q \in Restores : restore[q].pc = "done" => restore'[q] = restore[q]
  PROVE  Saved(r, c)'
<1>1. BroughtBack(c, job[r].since) => BroughtBack(c, job[r].since)'
  BY DEF BroughtBack
<1> QED BY <1>1 DEF Saved

LEMMA RestoreKept ==
  ASSUME NEW r \in Restores, RestoreFacts(r), restore'[r] = restore[r], job'[r] = job[r],
         tick \in Nat, tick' \in Nat, tick' >= tick,
         \A c \in db' : (c \in db /\ (c \in Changes => when'[c] = when[c])) \/ Saved(r, c)',
         \A q \in Restores : restore[q].pc = "done" => restore'[q] = restore[q]
  PROVE  RestoreFacts(r)'
<1>1. ASSUME job'[r].pc \in {"reading", "uploaded", "answered"}, NEW c \in db'
      PROVE  Saved(r, c)'
  <2>1. CASE c \in db /\ (c \in Changes => when'[c] = when[c])
    BY <1>1, <2>1, SavedKept DEF RestoreFacts
  <2> QED BY <2>1
<1>2. /\ restore'[r].at \in Nat /\ restore'[r].at <= tick'
      /\ job'[r].since \in Nat /\ job'[r].since <= tick'
  BY DEF RestoreFacts
<1> QED BY <1>1, <1>2 DEF RestoreFacts

LEMMA RestoresKept ==
  ASSUME Clock, RestoresFit, UNCHANGED <<restore, job, db, when>>, tick' \in Nat, tick' >= tick
  PROVE  RestoresFit'
<1>1. RestoreShape'
  BY DEF RestoresFit, RestoreShape
<1>2. ASSUME NEW r \in Restores PROVE RestoreFacts(r)'
  BY RestoreKept DEF RestoresFit, Clock
<1> QED BY <1>1, <1>2 DEF RestoresFit

LEMMA FewerInAll ==
  ASSUME stored' \subseteq stored
  PROVE  FewerScheduled /\ \A key : Fewer(key)
BY DEF FewerScheduled, Fewer

(* A step that only removes objects, or lets time pass. *)
LEMMA OnlyRemoves ==
  ASSUME IInv, stored' \subseteq stored, now' \in Nat, now' >= now,
         UNCHANGED <<tick, db, when, job, flight, uploads, restoring>>
  PROVE  IInv'
<1>1. Clock'
  BY DEF IInv, Clock
<1>2. Objects' /\ OneScheduled'
  BY ObjectsKept DEF IInv
<1>3. ExportsFit'
  BY FewerInAll, ExportsKept DEF IInv
<1>4. UploadsFit'
  BY FewerInAll, UploadsKept DEF IInv
<1>5. RestoresFit'
  BY RestoresKept DEF IInv, Clock, restoring
<1> QED BY <1>1, <1>2, <1>3, <1>4, <1>5 DEF IInv

-----------------------------------------------------------------------------
(* Requests that remove, days and changes *)

LEMMA KeeperSteps ==
  ASSUME IInv, NEW k \in Keepers, KeeperNext(k)
  PROVE  IInv'
<1>1. now \in Nat
  BY DEF IInv, Clock
<1>2. /\ stored' \subseteq stored /\ now' = now
      /\ UNCHANGED <<tick, db, when, job, flight, uploads, restoring>>
  BY DEF KeeperNext, StartDeletion, StartRetention, VerifyNext, VerifyUnavailable, Delete, Skip,
    DeleteUnanswered, Without, world
<1> QED BY <1>1, <1>2, OnlyRemoves

LEMMA DaySteps == IInv /\ DayPasses => IInv'
BY OnlyRemoves DEF DayPasses, IInv, Clock

LEMMA StutterSteps == IInv /\ UNCHANGED vars => IInv'
<1> SUFFICES ASSUME IInv, UNCHANGED vars PROVE IInv'
  OBVIOUS
<1> QED BY OnlyRemoves DEF vars, uploads, restoring, IInv, Clock

LEMMA ChangeSteps ==
  ASSUME IInv, NEW c \in Changes, Change(c)
  PROVE  IInv'
<1>1. /\ db' = db \cup {c} /\ tick' = tick + 1 /\ when' = [when EXCEPT ![c] = tick + 1]
      /\ UNCHANGED <<stored, now, job, flight, uploads, restoring>>
      /\ when[c] = 0
  BY DEF Change
<1>2. Clock' /\ tick' >= tick
  BY <1>1 DEF IInv, Clock
<1>3. Objects' /\ OneScheduled' /\ ExportsFit' /\ UploadsFit'
  BY <1>1, FewerInAll, ObjectsKept, ExportsKept, UploadsKept DEF IInv, Clock
<1>4. RestoresFit'
  <2>1. RestoreShape' /\ restore' = restore
    BY <1>1 DEF IInv, RestoresFit, RestoreShape, restoring
  <2>2. ASSUME NEW r \in Restores PROVE RestoreFacts(r)'
    <3>1. RestoreFacts(r)
      BY DEF IInv, RestoresFit
    <3>2. when'[c] > job'[r].since
      BY <1>1, <3>1 DEF IInv, Clock, RestoreFacts
    <3>3. \A d \in db' : (d \in db /\ (d \in Changes => when'[d] = when[d])) \/ Saved(r, d)'
      BY <1>1, <3>2 DEF Saved, IInv, Clock
    <3> QED BY <1>1, <1>2, <2>1, <3>1, <3>3, RestoreKept DEF IInv, Clock
  <2> QED BY <2>1, <2>2 DEF RestoresFit
<1> QED BY <1>2, <1>3, <1>4 DEF IInv

-----------------------------------------------------------------------------
(* Exports *)

(* One export moves on; nobody else is concerned. *)
LEMMA JobMoves ==
  ASSUME IInv, NEW e \in Exports, NEW x, job' = [job EXCEPT ![e] = x],
         x = [pc |-> x.pc, holds |-> x.holds, since |-> x.since, latest |-> x.latest,
              missed |-> x.missed]
  PROVE  /\ JobShape' /\ job'[e] = x
         /\ \A f \in Exports : f # e => job'[f] = job[f]
<1>1. DOMAIN job = Exports
  BY DEF IInv, ExportsFit, JobShape
<1>2. job' = [f \in Exports |-> IF f = e THEN x ELSE job[f]]
  BY <1>1
<1>3. job'[e] = x /\ \A f \in Exports : f # e => job'[f] = job[f]
  BY <1>2
<1>4. \A f \in Exports : job[f] = [pc |-> job[f].pc, holds |-> job[f].holds,
                                   since |-> job[f].since, latest |-> job[f].latest,
                                   missed |-> job[f].missed]
  BY DEF IInv, ExportsFit, JobShape
<1>5. \A f \in Exports : job'[f] = [pc |-> job'[f].pc, holds |-> job'[f].holds,
                                    since |-> job'[f].since, latest |-> job'[f].latest,
                                    missed |-> job'[f].missed]
  BY <1>3, <1>4
<1>6. job' = [f \in Exports |-> [pc |-> job'[f].pc, holds |-> job'[f].holds,
                                 since |-> job'[f].since, latest |-> job'[f].latest,
                                 missed |-> job'[f].missed]]
  BY <1>2, <1>5
<1> QED BY <1>3, <1>6 DEF JobShape

(* The invariant, if an export has moved on and the facts about it hold.   *)
LEMMA ExportMoves ==
  ASSUME IInv, NEW e \in Exports, NEW x, job' = [job EXCEPT ![e] = x],
         x = [pc |-> x.pc, holds |-> x.holds, since |-> x.since, latest |-> x.latest,
              missed |-> x.missed],
         UNCHANGED <<stored, now, db, when, tick, uploads, restoring>>,
         \A f \in Exports : f # e /\ flight = f => flight' = f,
         ExportFacts(e)', e \in Restores => RestoreFacts(e)'
  PROVE  IInv'
<1>1. /\ JobShape' /\ job'[e] = x
      /\ \A f \in Exports : f # e => job'[f] = job[f]
  BY JobMoves
<1>2. Clock' /\ now' \in Nat /\ now' >= now /\ tick' \in Nat /\ tick' >= tick
  BY DEF IInv, Clock
<1>3. Objects' /\ OneScheduled' /\ UploadsFit'
  BY <1>2, FewerInAll, ObjectsKept, UploadsKept DEF IInv
<1>4. ASSUME NEW f \in Exports, f # e PROVE ExportFacts(f)'
  BY <1>1, <1>2, <1>4, FewerInAll, ExportKept DEF IInv, ExportsFit
<1>5. ASSUME NEW r \in Restores, r # e PROVE RestoreFacts(r)'
  <2>1. restore' = restore /\ job'[r] = job[r]
    BY <1>1, <1>5 DEF restoring, Exports
  <2> QED BY <1>2, <2>1, RestoreKept DEF IInv, RestoresFit, Clock
<1>6. RestoreShape'
  BY DEF IInv, RestoresFit, RestoreShape, restoring
<1> QED BY <1>1, <1>2, <1>3, <1>4, <1>5, <1>6 DEF IInv, ExportsFit, RestoresFit

LEMMA StartManualSteps ==
  ASSUME IInv, NEW e \in Exports, StartManual(e)
  PROVE  IInv'
<1> DEFINE x == [pc |-> "reading", holds |-> db, since |-> tick, latest |-> {}, missed |-> {}]
<1>1. /\ job' = [job EXCEPT ![e] = x] /\ job[e].pc = "idle" /\ e \notin Restores /\ e \notin Crons
      /\ flight' = flight /\ UNCHANGED <<stored, now, db, when, tick, uploads, restoring>>
  BY NamesAreDistinct DEF StartManual, Begin, world
<1>2. x = [pc |-> x.pc, holds |-> x.holds, since |-> x.since, latest |-> x.latest,
           missed |-> x.missed]
  OBVIOUS
<1>3. job'[e] = x
  BY <1>1, <1>2, JobMoves
<1>4. ExportFacts(e)'
  BY <1>1, <1>3 DEF ExportFacts, IInv, ExportsFit
<1> HIDE DEF x
<1> QED BY <1>1, <1>2, <1>4, ExportMoves

LEMMA CronJoinsSteps ==
  ASSUME IInv, NEW e \in Exports, CronJoins(e)
  PROVE  IInv'
<1> DEFINE x == [job[e] EXCEPT !.pc = "joined"]
<1>1. job[e] = [pc |-> job[e].pc, holds |-> job[e].holds,
                since |-> job[e].since, latest |-> job[e].latest, missed |-> job[e].missed]
  BY DEF IInv, ExportsFit, JobShape
<1>2. x = [pc |-> x.pc, holds |-> x.holds, since |-> x.since, latest |-> x.latest,
           missed |-> x.missed] /\ x.pc = "joined"
  BY <1>1
<1>3. /\ job' = [job EXCEPT ![e] = x] /\ job[e].pc = "idle" /\ e \in Crons /\ e \notin Restores
      /\ flight' = flight /\ UNCHANGED <<stored, now, db, when, tick, uploads, restoring>>
  BY NamesAreDistinct DEF CronJoins, world
<1> HIDE DEF x
<1>4. job'[e] = x
  BY <1>2, <1>3, JobMoves
<1>5. ExportFacts(e)'
  BY <1>2, <1>3, <1>4 DEF ExportFacts, IInv, ExportsFit
<1> QED BY <1>2, <1>3, <1>5, ExportMoves

(* Two fields of a job change at once. *)
LEMMA TwoFields ==
  ASSUME NEW w, NEW a, NEW b,
         w = [pc |-> w.pc, holds |-> w.holds, since |-> w.since, latest |-> w.latest,
              missed |-> w.missed]
  PROVE  [w EXCEPT !.pc = a, !.latest = b]
           = [pc |-> a, holds |-> w.holds, since |-> w.since, latest |-> b, missed |-> w.missed]
<1> DEFINE y == [w EXCEPT !.pc = a]
<1>1. y = [pc |-> a, holds |-> w.holds, since |-> w.since, latest |-> w.latest, missed |-> w.missed]
  OBVIOUS
<1>2. [y EXCEPT !.latest = b] = [pc |-> a, holds |-> w.holds, since |-> w.since, latest |-> b, missed |-> w.missed]
  <2> HIDE DEF y
  <2> QED BY <1>1
<1>3. [w EXCEPT !.pc = a, !.latest = b] = [y EXCEPT !.latest = b]
  BY Zenon
<1> QED BY <1>2, <1>3, Zenon

(* Among backups of the past there is a newest. *)
LEMMA NewestExists ==
  ASSUME NEW today \in Nat, NEW list, list # {},
         \A b \in list : b.time \in Int /\ b.time <= today
  PROVE  \E b \in list : \A o \in list : b.time >= o.time
<1> DEFINE R == OpToRel(<, Nat)
           T == {today - b.time : b \in list}
<1>1. T \subseteq Nat /\ T # {}
  OBVIOUS
<1>2. IsWellFoundedOn(R, Nat)
  BY NatLessThanWellFounded
<1>3. PICK x \in T : \A y \in T : ~ (<<y, x>> \in R)
  <2> HIDE DEF R, T
  <2> QED BY <1>1, <1>2, WFMin
<1>4. \A y \in T : ~ (y < x)
  BY <1>1, <1>3 DEF OpToRel
<1>5. PICK b \in list : x = today - b.time
  OBVIOUS
<1>6. ASSUME NEW o \in list PROVE b.time >= o.time
  <2>1. ~ (today - o.time < today - b.time)
    BY <1>4, <1>5
  <2>2. b.time \in Int /\ o.time \in Int
    OBVIOUS
  <2> QED BY <2>1, <2>2
<1> QED BY <1>6

(* What createScheduledBackup finds is the newest of the scheduled ones.   *)
LEMMA LatestIsNewest ==
  ASSUME Clock, Objects
  PROVE  /\ LatestScheduled \subseteq Scheduled
         /\ Scheduled # {} => \E b \in LatestScheduled : \A o \in Scheduled : b.time >= o.time
<1> DEFINE list == {b \in stored : IsFull(b) /\ b.purpose = "scheduled"}
<1>1. list = Scheduled
  BY DEF Scheduled, Objects
<1>2. CASE Scheduled = {}
  BY <1>1, <1>2 DEF LatestScheduled
<1>3. CASE Scheduled # {}
  <2> DEFINE Is(b) == \A o \in Scheduled : b.time >= o.time
  <2>1. \E b \in Scheduled : Is(b)
    <3>1. \A b \in Scheduled : b.time \in Int /\ b.time <= now
      BY DEF Scheduled, Objects
    <3>2. now \in Nat
      BY DEF Clock
    <3> QED BY <1>3, <3>1, <3>2, NewestExists
  <2>2. LatestScheduled = {CHOOSE b \in Scheduled : Is(b)}
    BY <1>1, <1>3 DEF LatestScheduled
  <2>3. (CHOOSE b \in Scheduled : Is(b)) \in Scheduled /\ Is(CHOOSE b \in Scheduled : Is(b))
    BY <2>1
  <2> QED BY <2>2, <2>3
<1> QED BY <1>2, <1>3

LEMMA CronListsSteps ==
  ASSUME IInv, NEW e \in Exports, CronLists(e)
  PROVE  IInv'
<1> DEFINE recent == {b \in LatestScheduled : b.time >= now - MinInterval}
           next == IF recent # {} THEN "reused" ELSE "comparing"
           rest == LatestScheduled \ recent
           x == [job[e] EXCEPT !.pc = next, !.latest = rest]
<1>1. job[e] = [pc |-> job[e].pc, holds |-> job[e].holds,
                since |-> job[e].since, latest |-> job[e].latest, missed |-> job[e].missed]
  BY DEF IInv, ExportsFit, JobShape
<1>2. x = [pc |-> next, holds |-> job[e].holds, since |-> job[e].since, latest |-> rest,
           missed |-> job[e].missed]
  <2> HIDE DEF recent, next, rest
  <2> QED BY <1>1, TwoFields, Zenon
<1>3. /\ job[e].pc = "idle" /\ e \in Crons /\ e \notin Restores
      /\ flight = Nobody /\ flight' = (IF next = "reused" THEN Nobody ELSE e)
      /\ UNCHANGED <<stored, now, db, when, tick, uploads, restoring>>
  BY NamesAreDistinct DEF CronLists, world
<1>4. job' = [job EXCEPT ![e] = x]
  BY DEF CronLists
<1>5. next \in {"reused", "comparing"} /\ (next = "comparing" => AllOlder)
  <2> SUFFICES ASSUME recent = {}, NEW o \in Scheduled PROVE o.time + MinInterval < now
    BY DEF AllOlder
  <2>1. PICK b \in LatestScheduled : b \in Scheduled /\ b.time >= o.time
    BY LatestIsNewest DEF IInv
  <2>2. ~ (b.time >= now - MinInterval)
    BY <2>1
  <2>3. b.time \in Int /\ o.time \in Int /\ now \in Nat /\ MinInterval \in Nat
    BY <2>1, StoreAssumption DEF IInv, Objects, Clock, Scheduled
  <2> QED BY <2>1, <2>2, <2>3
<1> HIDE DEF x, next, rest
<1>6. job'[e] = x /\ x = [pc |-> x.pc, holds |-> x.holds, since |-> x.since, latest |-> x.latest,
                          missed |-> x.missed]
  BY <1>2, <1>4, JobMoves
<1>7. ExportFacts(e)'
  <2>1. /\ job'[e].pc \in {"reused", "comparing"} /\ stored' = stored /\ now' = now
        /\ \A b \in stored : b.key # e
        /\ job'[e].pc = "comparing" => flight' = e /\ AllOlder
    BY <1>2, <1>3, <1>5, <1>6 DEF ExportFacts, IInv, ExportsFit
  <2>2. AllOlder => AllOlder'
    BY <2>1 DEF AllOlder, Scheduled
  <2> QED BY <1>3, <2>1, <2>2 DEF ExportFacts
<1>8. \A f \in Exports : f # e /\ flight = f => flight' = f
  BY <1>3, NamesAreDistinct
<1> QED BY <1>3, <1>4, <1>6, <1>7, <1>8, ExportMoves

LEMMA CronExportsSteps ==
  ASSUME IInv, NEW e \in Exports, CronExports(e)
  PROVE  IInv'
<1> DEFINE x == [pc |-> "reading", holds |-> db, since |-> tick, latest |-> {}, missed |-> {}]
<1>1. /\ job' = [job EXCEPT ![e] = x] /\ job[e].pc = "comparing"
      /\ flight' = flight /\ UNCHANGED <<stored, now, db, when, tick, uploads, restoring>>
  BY DEF CronExports, Begin, world
<1>2. e \in Crons /\ e \notin Restores
  BY <1>1, NamesAreDistinct DEF IInv, ExportsFit, ExportFacts
<1>3. x = [pc |-> x.pc, holds |-> x.holds, since |-> x.since, latest |-> x.latest,
           missed |-> x.missed] /\ x.pc = "reading"
  OBVIOUS
<1> HIDE DEF x
<1>4. job'[e] = x
  BY <1>1, <1>3, JobMoves
<1>5. ExportFacts(e)'
  BY <1>1, <1>2, <1>3, <1>4 DEF ExportFacts, AllOlder, Scheduled, IInv, ExportsFit
<1> QED BY <1>1, <1>2, <1>3, <1>5, ExportMoves

(* An export ends, and answers everyone who joined it. *)
LEMMA SettleKeeps ==
  ASSUME IInv, NEW e \in Exports, NEW pc \in {"failed", "answered", "unchanged"}, Settle(e, pc),
         job[e].pc \in {"reading", "uploaded", "comparing"},
         stored' \subseteq stored,
         pc = "answered" => job[e].pc = "uploaded" /\ \A b \in stored : b.key = e => b.closed,
         UNCHANGED <<world, uploads, restoring>>
  PROVE  IInv'
<1> DEFINE Joined(f) == f = e \/ (flight = e /\ job[f].pc = "joined")
           x == [job[e] EXCEPT !.pc = pc, !.latest = {}]
<1>0. UNCHANGED <<now, tick, db, when>>
  BY DEF world
<1>1. Clock' /\ now' \in Nat /\ now' >= now /\ tick' \in Nat /\ tick' >= tick
  BY <1>0 DEF IInv, Clock
<1>2. Objects' /\ OneScheduled' /\ UploadsFit'
  BY <1>1, FewerInAll, ObjectsKept, UploadsKept DEF IInv
<1>3. job[e] = [pc |-> job[e].pc, holds |-> job[e].holds,
                since |-> job[e].since, latest |-> job[e].latest, missed |-> job[e].missed]
  BY DEF IInv, ExportsFit, JobShape
<1>4. x = [pc |-> pc, holds |-> job[e].holds, since |-> job[e].since, latest |-> {},
           missed |-> job[e].missed]
  BY <1>3, TwoFields, Zenon
<1>5. job' = [f \in Exports |-> IF Joined(f) THEN x ELSE job[f]]
  BY DEF Settle
<1>6. \A f \in Exports : job[f] = [pc |-> job[f].pc, holds |-> job[f].holds,
                                   since |-> job[f].since, latest |-> job[f].latest,
                                   missed |-> job[f].missed]
  BY DEF IInv, ExportsFit, JobShape
<1> HIDE DEF x
<1>7. \A f \in Exports : /\ Joined(f) => job'[f] = x
                         /\ ~ Joined(f) => job'[f] = job[f]
  BY <1>5
<1>8. JobShape'
  <2>1. \A f \in Exports : job'[f] = [pc |-> job'[f].pc, holds |-> job'[f].holds,
                                      since |-> job'[f].since, latest |-> job'[f].latest,
                                      missed |-> job'[f].missed]
    BY <1>4, <1>6, <1>7
  <2>2. job' = [f \in Exports |-> job'[f]]
    BY <1>5
  <2> QED BY <2>1, <2>2 DEF JobShape
<1>9. ASSUME NEW f \in Exports PROVE ExportFacts(f)'
  <2>1. ExportFacts(f) /\ ExportFacts(e)
    BY DEF IInv, ExportsFit
  <2>2. CASE f = e
    BY <1>4, <1>7, <2>2 DEF ExportFacts
  <2>3. CASE f # e /\ Joined(f)
    BY <1>4, <1>7, <2>1, <2>3 DEF ExportFacts
  <2>4. CASE ~ Joined(f)
    <3>1. flight = f => flight' = f
      BY <2>4 DEF Settle
    <3> QED BY <1>1, <1>7, <2>1, <2>4, <3>1, FewerInAll, ExportKept DEF IInv
  <2> QED BY <2>2, <2>3, <2>4
<1>10. RestoreShape' /\ restore' = restore
  BY DEF IInv, RestoresFit, RestoreShape, restoring
<1>11. ASSUME NEW r \in Restores PROVE RestoreFacts(r)'
  <2>1. RestoreFacts(r) /\ ExportFacts(r) /\ r \in Exports /\ r \notin Crons
    BY NamesAreDistinct DEF IInv, RestoresFit, ExportsFit, Exports
  <2>2. CASE r = e
    <3>1. /\ job'[r].pc = pc /\ job'[r].holds = job[r].holds /\ job'[r].since = job[r].since
          /\ job'[r].missed = job[r].missed
      BY <1>4, <1>7, <2>2
    <3>2. job[r].pc \in {"reading", "uploaded"}
      BY <2>1, <2>2 DEF ExportFacts
    <3>3. \A c \in db' : Saved(r, c)'
      BY <1>0, <1>10, <2>1, <3>1, <3>2, SavedKept DEF RestoreFacts
    <3> QED BY <1>0, <1>10, <2>1, <3>1, <3>2, <3>3 DEF RestoreFacts
  <2>3. CASE r # e
    <3>1. job'[r] = job[r]
      BY <1>7, <2>1, <2>3 DEF ExportFacts
    <3> QED BY <1>0, <1>1, <1>10, <2>1, <3>1, RestoreKept DEF IInv, Clock
  <2> QED BY <2>2, <2>3
<1> QED BY <1>1, <1>2, <1>8, <1>9, <1>10, <1>11 DEF IInv, ExportsFit, RestoresFit

LEMMA AbortUploadSteps == ASSUME IInv, NEW e \in Exports, AbortUpload(e) PROVE IInv'
BY SettleKeeps DEF AbortUpload

LEMMA CronReusesSteps == ASSUME IInv, NEW e \in Exports, CronReuses(e) PROVE IInv'
BY SettleKeeps DEF CronReuses

LEMMA AnswerVerifiedSteps == ASSUME IInv, NEW e \in Exports, AnswerVerified(e) PROVE IInv'
<1>1. \A b \in stored : b.key = e => b.closed
  BY DEF AnswerVerified, Verifies, IInv, Objects
<1> QED BY <1>1, SettleKeeps DEF AnswerVerified

LEMMA WithdrawSteps == ASSUME IInv, NEW e \in Exports, Withdraw(e) PROVE IInv'
<1>1. stored' \subseteq stored
  BY DEF Withdraw, Without
<1> QED BY <1>1, SettleKeeps DEF Withdraw

-----------------------------------------------------------------------------
(* New objects *)

LEMMA ObjectAdded ==
  ASSUME Clock, Objects, OneScheduled, NEW o, stored' = stored \cup {o}, now' = now,
         \A b \in stored : b.key # o.key,
         o.time = now, o.purpose = "scheduled" => IsFull(o) /\ AllOlder
  PROVE  /\ Objects' /\ OneScheduled'
         /\ \A key : key # o.key => Fewer(key)
         /\ o.purpose # "scheduled" => FewerScheduled
<1>1. Objects'
  BY DEF Objects, Clock
<1>2. ASSUME NEW a \in stored', NEW b \in stored', a.purpose = "scheduled", b.purpose = "scheduled", a # b
      PROVE  a.time > b.time + MinInterval \/ b.time > a.time + MinInterval
  <2>1. CASE a \in stored /\ b \in stored
    BY <1>2, <2>1 DEF OneScheduled
  <2>2. CASE a = o
    BY <1>2, <2>2 DEF AllOlder, Scheduled
  <2>3. CASE b = o
    <3>1. a.time + MinInterval < b.time
      BY <1>2, <2>3 DEF AllOlder, Scheduled
    <3>2. a.time \in Int /\ b.time \in Int /\ MinInterval \in Int
      BY <1>1, StoreAssumption DEF Objects
    <3> QED BY <3>1, <3>2
  <2> QED BY <1>2, <2>1, <2>2, <2>3
<1>3. OneScheduled'
  BY <1>2 DEF OneScheduled
<1> QED BY <1>1, <1>3 DEF Fewer, FewerScheduled

LEMMA UploadedFields ==
  ASSUME NEW w, NEW h, NEW m,
         w = [pc |-> w.pc, holds |-> w.holds, since |-> w.since, latest |-> w.latest,
              missed |-> w.missed]
  PROVE  [w EXCEPT !.pc = "uploaded", !.holds = h, !.missed = m]
           = [pc |-> "uploaded", holds |-> h, since |-> w.since, latest |-> w.latest, missed |-> m]
<1> DEFINE y == [w EXCEPT !.pc = "uploaded"]
           z == [y EXCEPT !.holds = h]
<1>1. y = [pc |-> "uploaded", holds |-> w.holds, since |-> w.since, latest |-> w.latest, missed |-> w.missed]
  OBVIOUS
<1>2. z = [pc |-> "uploaded", holds |-> h, since |-> w.since, latest |-> w.latest, missed |-> w.missed]
  <2> HIDE DEF y
  <2> QED BY <1>1
<1>3. [z EXCEPT !.missed = m]
        = [pc |-> "uploaded", holds |-> h, since |-> w.since, latest |-> w.latest, missed |-> m]
  <2> HIDE DEF y, z
  <2> QED BY <1>2
<1>4. [w EXCEPT !.pc = "uploaded", !.holds = h, !.missed = m] = [z EXCEPT !.missed = m]
  BY Zenon
<1> QED BY <1>3, <1>4, Zenon

LEMMA FinishUploadSteps ==
  ASSUME IInv, NEW e \in Exports, FinishUpload(e)
  PROVE  IInv'
<1>1. PICK closed \in BOOLEAN, missed \in SUBSET (job[e].holds \cap db) :
        LET holds == (job[e].holds \cap db) \ missed IN
        /\ stored' = stored \cup {Formal(e, Purpose(e), closed, holds)}
        /\ job' = [job EXCEPT ![e] = [@ EXCEPT !.pc = "uploaded", !.holds = holds, !.missed = missed]]
  BY DEF FinishUpload
<1> DEFINE h == (job[e].holds \cap db) \ missed
           x == [job[e] EXCEPT !.pc = "uploaded", !.holds = h, !.missed = missed]
<1> DEFINE o == Formal(e, Purpose(e), closed, h)
<1>2. /\ job[e].pc = "reading" /\ tick' = tick + 1
      /\ UNCHANGED <<now, db, when, flight, uploads, restoring>>
      /\ job' = [job EXCEPT ![e] = x]
  BY <1>1 DEF FinishUpload
<1>3. job[e] = [pc |-> job[e].pc, holds |-> job[e].holds,
                since |-> job[e].since, latest |-> job[e].latest, missed |-> job[e].missed]
  BY DEF IInv, ExportsFit, JobShape
<1>4. x = [pc |-> "uploaded", holds |-> h, since |-> job[e].since, latest |-> job[e].latest,
           missed |-> missed]
  <2> HIDE DEF h
  <2> QED BY <1>3, UploadedFields, Zenon
<1> HIDE DEF x
<1>5. /\ JobShape' /\ job'[e] = x
      /\ \A f \in Exports : f # e => job'[f] = job[f]
  <2>1. x = [pc |-> x.pc, holds |-> x.holds, since |-> x.since, latest |-> x.latest,
             missed |-> x.missed]
    BY <1>4
  <2> QED BY <1>2, <2>1, JobMoves
<1>6. ExportFacts(e) /\ \A b \in stored : b.key # e
  BY <1>2 DEF IInv, ExportsFit, ExportFacts
<1>7. /\ o.key = e /\ o.time = now /\ IsFull(o)
      /\ o.purpose = "scheduled" <=> e \in Crons
  BY DEF Formal, IsFull, Purpose
<1> HIDE DEF o, h
<1>8. e \in Crons => flight = e /\ AllOlder
  BY <1>2, <1>6 DEF ExportFacts
<1>9. /\ Objects' /\ OneScheduled'
      /\ \A key : key # e => Fewer(key)
      /\ o.purpose # "scheduled" => FewerScheduled
  <2>1. stored' = stored \cup {o} /\ now' = now
    BY <1>1, <1>2 DEF o, h
  <2> QED BY <2>1, <1>6, <1>7, <1>8, ObjectAdded DEF IInv
<1>10. Clock' /\ now' \in Nat /\ now' >= now /\ tick' \in Nat /\ tick' >= tick
  BY <1>2 DEF IInv, Clock
<1>11. ASSUME NEW f \in Exports PROVE ExportFacts(f)'
  <2>1. CASE f = e
    BY <1>4, <1>5, <2>1 DEF ExportFacts
  <2>2. CASE f # e
    <3>1. flight = f => FewerScheduled
      BY <1>7, <1>8, <1>9, <2>2
    <3>2. Fewer(f) /\ job'[f] = job[f] /\ flight' = flight
      BY <1>2, <1>5, <1>9, <2>2
    <3> QED BY <1>10, <3>1, <3>2, ExportKept DEF IInv, ExportsFit
  <2> QED BY <2>1, <2>2
<1>12. UploadsFit'
  <2>1. (\A t \in Tokens : Fewer(t)) /\ \A c \in Completes : Fewer(c)
    BY <1>9, NamesAreDistinct
  <2> QED BY <1>2, <2>1, UploadsKept DEF IInv
<1>13. RestoreShape' /\ restore' = restore
  BY <1>2 DEF IInv, RestoresFit, RestoreShape, restoring
<1>14. ASSUME NEW r \in Restores PROVE RestoreFacts(r)'
  <2>1. RestoreFacts(r)
    BY DEF IInv, RestoresFit
  <2>2. CASE r = e
    <3>1. /\ job'[r].pc = "uploaded" /\ job'[r].since = job[r].since
          /\ job'[r].holds = (job[r].holds \cap db) \ missed /\ job'[r].missed = missed
          /\ job[r].missed = {}
      BY <1>2, <1>4, <1>5, <2>1, <2>2 DEF h, RestoreFacts
    <3>2. \A c \in db' : Saved(r, c)'
      BY <1>2, <1>13, <2>1, <2>2, <3>1, SavedKept DEF RestoreFacts
    <3>3. restore'[r].at <= tick' /\ job'[r].since <= tick'
      BY <1>2, <1>13, <2>1, <3>1 DEF RestoreFacts, IInv, Clock
    <3> QED BY <1>2, <1>13, <2>1, <2>2, <3>1, <3>2, <3>3 DEF RestoreFacts
  <2>3. CASE r # e
    <3>1. job'[r] = job[r]
      BY <1>5, <2>3 DEF Exports
    <3> QED BY <1>2, <1>10, <1>13, <2>1, <3>1, RestoreKept DEF IInv, Clock
  <2> QED BY <2>2, <2>3
<1> QED BY <1>5, <1>9, <1>10, <1>11, <1>12, <1>13, <1>14 DEF IInv, ExportsFit, RestoresFit

-----------------------------------------------------------------------------
(* Uploads *)

(* A step of an upload that only concerns tokens, completions and objects  *)
(* that are not an export's.                                               *)
LEMMA UploadFrame ==
  ASSUME IInv, UNCHANGED <<now, db, when, job, flight, restoring>>,
         tick' \in Nat, tick' >= tick, FewerScheduled, \A e \in Exports : Fewer(e)
  PROVE  Clock' /\ ExportsFit' /\ RestoresFit'
<1>1. Clock' /\ now' \in Nat /\ now' >= now
  BY DEF IInv, Clock
<1>2. ExportsFit'
  BY <1>1, ExportsKept DEF IInv
<1>3. RestoresFit'
  BY RestoresKept DEF IInv, restoring
<1> QED BY <1>1, <1>2, <1>3

LEMMA InitUploadSteps ==
  ASSUME IInv, NEW t \in Tokens, InitUpload(t)
  PROVE  IInv'
<1>1. /\ UNCHANGED <<stored, now, tick, db, when, job, flight, restoring>> /\ complete' = complete
      /\ token' = [token EXCEPT ![t].day = now]
  BY DEF InitUpload, world
<1>2. Clock' /\ ExportsFit' /\ RestoresFit' /\ Objects' /\ OneScheduled'
  BY <1>1, FewerInAll, UploadFrame, ObjectsKept DEF IInv, Clock
<1>3. /\ token' = [s \in Tokens |-> [day |-> token'[s].day, put |-> token'[s].put]]
      /\ \A s \in Tokens : token'[s].put = token[s].put
  BY <1>1 DEF IInv, UploadsFit, UploadShapes
<1>4. UploadShapes'
  BY <1>1, <1>3 DEF IInv, UploadsFit, UploadShapes
<1>5. ASSUME NEW c \in Completes PROVE UploadFacts(c)'
  BY <1>1, <1>3, FewerInAll, UploadKept DEF IInv
<1>6. ASSUME NEW s \in Tokens PROVE TokenFacts(s)'
  BY <1>1, <1>3 DEF IInv, UploadsFit, TokenFacts
<1> QED BY <1>2, <1>4, <1>5, <1>6 DEF IInv, UploadsFit

LEMMA PutField ==
  ASSUME NEW w, NEW v, w = [day |-> w.day, put |-> w.put]
  PROVE  [w EXCEPT !.put = v] = [day |-> w.day, put |-> v]
OBVIOUS

LEMMA ClientPutSteps ==
  ASSUME IInv, NEW t \in Tokens, ClientPut(t)
  PROVE  IInv'
<1>1. PICK closed \in BOOLEAN, content \in {"full", "season"} :
        stored' = stored \cup {[Formal(t, "uploaded", closed, {})
                                EXCEPT !.dir = "uploads", !.content = content]}
  BY DEF ClientPut
<1> DEFINE o == [Formal(t, "uploaded", closed, {}) EXCEPT !.dir = "uploads", !.content = content]
<1>2. /\ UNCHANGED <<now, db, when, job, flight, restoring>> /\ complete' = complete
      /\ token' = [token EXCEPT ![t].put = TRUE] /\ tick' = tick + 1 /\ ~ token[t].put
  BY DEF ClientPut
<1>3. o.key = t /\ o.time = now /\ o.purpose = "uploaded"
  BY DEF Formal
<1>4. \A b \in stored : b.key # t
  BY <1>2 DEF IInv, UploadsFit, TokenFacts
<1> HIDE DEF o
<1>5. /\ Objects' /\ OneScheduled' /\ FewerScheduled
      /\ \A key : key # t => Fewer(key)
  <2>1. stored' = stored \cup {o} /\ now' = now
    BY <1>1, <1>2 DEF o
  <2> QED BY <2>1, <1>3, <1>4, ObjectAdded DEF IInv
<1>6. Clock' /\ ExportsFit' /\ RestoresFit'
  <2>1. \A e \in Exports : Fewer(e)
    BY <1>5, NamesAreDistinct
  <2> QED BY <1>2, <1>5, <2>1, UploadFrame DEF IInv, Clock
<1>7. /\ token' = [s \in Tokens |-> [day |-> token'[s].day, put |-> token'[s].put]]
      /\ token'[t].put /\ \A s \in Tokens : s # t => token'[s].put = token[s].put
  <2>1. /\ DOMAIN token = Tokens
        /\ \A s \in Tokens : token[s] = [day |-> token[s].day, put |-> token[s].put]
    BY DEF IInv, UploadsFit, UploadShapes
  <2> DEFINE x == [token[t] EXCEPT !.put = TRUE]
  <2>2. x = [day |-> token[t].day, put |-> TRUE]
    BY <2>1, PutField
  <2>3. token' = [token EXCEPT ![t] = x]
    BY <1>2
  <2> HIDE DEF x
  <2>4. token' = [s \in Tokens |-> IF s = t THEN x ELSE token[s]]
    BY <2>1, <2>3
  <2>5. token'[t] = [day |-> token[t].day, put |-> TRUE] /\ \A s \in Tokens : s # t => token'[s] = token[s]
    BY <2>2, <2>4
  <2>6. \A s \in Tokens : token'[s] = [day |-> token'[s].day, put |-> token'[s].put]
    BY <2>1, <2>5
  <2>7. token' = [s \in Tokens |-> token'[s]]
    BY <2>4
  <2> QED BY <2>5, <2>6, <2>7
<1>8. UploadShapes'
  BY <1>2, <1>7 DEF IInv, UploadsFit, UploadShapes
<1>9. ASSUME NEW c \in Completes PROVE UploadFacts(c)'
  <2>1. \A s \in Tokens : token[s].put => token'[s].put /\ Fewer(s)
    BY <1>2, <1>5, <1>7
  <2>2. Fewer(c)
    BY <1>5, NamesAreDistinct
  <2> QED BY <1>2, <2>1, <2>2, UploadKept DEF IInv
<1>10. ASSUME NEW s \in Tokens PROVE TokenFacts(s)'
  BY <1>5, <1>7 DEF IInv, UploadsFit, TokenFacts, Fewer
<1> QED BY <1>5, <1>6, <1>8, <1>9, <1>10 DEF IInv, UploadsFit

(* A completion moves on: the invariant, if the facts about it hold and    *)
(* nobody else loses or gets anything but by a removal.                    *)
LEMMA CompleteMoves ==
  ASSUME IInv, NEW c \in Completes, NEW x, x = [pc |-> x.pc, token |-> x.token],
         complete' = [complete EXCEPT ![c] = x], token' = token
  PROVE  /\ UploadShapes' /\ complete'[c] = x
         /\ \A d \in Completes : d # c => complete'[d] = complete[d]
<1>1. complete' = [d \in Completes |-> IF d = c THEN x ELSE complete[d]]
  BY DEF IInv, UploadsFit, UploadShapes
<1>2. complete'[c] = x /\ \A d \in Completes : d # c => complete'[d] = complete[d]
  BY <1>1
<1>3. \A d \in Completes : complete'[d] = [pc |-> complete'[d].pc, token |-> complete'[d].token]
  BY <1>2 DEF IInv, UploadsFit, UploadShapes
<1>4. complete' = [d \in Completes |-> [pc |-> complete'[d].pc, token |-> complete'[d].token]]
  BY <1>1, <1>3
<1> QED BY <1>2, <1>4 DEF IInv, UploadsFit, UploadShapes

LEMMA CompleteRemoves ==
  ASSUME IInv, NEW c \in Completes, NEW x, x = [pc |-> x.pc, token |-> x.token],
         complete' = [complete EXCEPT ![c] = x], token' = token,
         stored' \subseteq stored, UNCHANGED <<now, tick, db, when, job, flight, restoring>>,
         UploadFacts(c)'
  PROVE  IInv'
<1>1. /\ UploadShapes' /\ complete'[c] = x
      /\ \A d \in Completes : d # c => complete'[d] = complete[d]
  BY CompleteMoves
<1>2. FewerScheduled /\ \A key : Fewer(key)
  BY FewerInAll
<1>3. Clock' /\ ExportsFit' /\ RestoresFit' /\ Objects' /\ OneScheduled'
  BY <1>2, UploadFrame, ObjectsKept DEF IInv, Clock
<1>4. ASSUME NEW d \in Completes PROVE UploadFacts(d)'
  <2>1. CASE d # c
    <3>1. \A t \in Tokens : token[t].put => token'[t].put /\ Fewer(t)
      BY <1>2
    <3> QED BY <1>1, <1>2, <2>1, <3>1, UploadKept DEF IInv
  <2> QED BY <2>1
<1>5. ASSUME NEW t \in Tokens PROVE TokenFacts(t)'
  BY <1>2 DEF IInv, UploadsFit, TokenFacts
<1> QED BY <1>1, <1>3, <1>4, <1>5 DEF IInv, UploadsFit

LEMMA RefuseUploadSteps ==
  ASSUME IInv, NEW c \in Completes, NEW t \in Tokens, RefuseUpload(c, t) \/ UploadUnavailable(c, t)
  PROVE  IInv'
<1> DEFINE x == [pc |-> "failed", token |-> t]
<1>1. x = [pc |-> x.pc, token |-> x.token] /\ x.pc = "failed"
  OBVIOUS
<1>2. /\ complete' = [complete EXCEPT ![c] = x] /\ token' = token
      /\ stored' \subseteq stored /\ UNCHANGED <<now, tick, db, when, job, flight, restoring>>
  BY DEF RefuseUpload, UploadUnavailable, Without, world
<1> HIDE DEF x
<1>3. UploadFacts(c)'
  BY <1>1, <1>2, CompleteMoves DEF UploadFacts
<1> QED BY <1>1, <1>2, <1>3, CompleteRemoves

LEMMA AcceptUploadSteps ==
  ASSUME IInv, NEW c \in Completes, NEW t \in Tokens, AcceptUpload(c, t)
  PROVE  IInv'
<1> DEFINE x == [pc |-> "copy", token |-> t]
<1>1. x = [pc |-> x.pc, token |-> x.token] /\ x.pc = "copy" /\ x.token = t
  OBVIOUS
<1>2. /\ complete' = [complete EXCEPT ![c] = x] /\ token' = token /\ complete[c].pc = "idle"
      /\ stored' = stored /\ UNCHANGED <<now, tick, db, when, job, flight, restoring>>
  BY DEF AcceptUpload, world
<1>3. \E b \in stored : b.key = t /\ b.closed
  BY DEF AcceptUpload, Verifies
<1>4. token[t].put /\ \A b \in stored : b.key = t => b.closed
  BY <1>3 DEF IInv, Objects, UploadsFit, TokenFacts
<1>5. \A b \in stored : b.key # c
  BY <1>2 DEF IInv, UploadsFit, UploadFacts
<1> HIDE DEF x
<1>6. complete'[c] = x
  BY <1>1, <1>2, CompleteMoves
<1>7. UploadFacts(c)'
  BY <1>1, <1>2, <1>4, <1>5, <1>6 DEF UploadFacts
<1> QED BY <1>1, <1>2, <1>7, CompleteRemoves

LEMMA FinishUploadOfSteps ==
  ASSUME IInv, NEW c \in Completes, FinishUploadOf(c)
  PROVE  IInv'
<1>1. /\ complete[c].pc = "copied" /\ token' = token /\ stored' \subseteq stored
      /\ UNCHANGED <<now, tick, db, when, job, flight, restoring>>
  BY DEF FinishUploadOf, Without, world
<1>2. \A b \in stored : b.key = c => b.closed
  BY <1>1 DEF IInv, UploadsFit, UploadFacts
<1>3. complete[c] = [pc |-> complete[c].pc, token |-> complete[c].token]
  BY DEF IInv, UploadsFit, UploadShapes
<1>4. PICK pc \in {"answered", "failed"} : complete' = [complete EXCEPT ![c].pc = pc]
  BY DEF FinishUploadOf
<1> DEFINE x == [complete[c] EXCEPT !.pc = pc]
<1>5. x = [pc |-> pc, token |-> complete[c].token] /\ complete' = [complete EXCEPT ![c] = x]
  BY <1>3, <1>4
<1> HIDE DEF x
<1>6. x = [pc |-> x.pc, token |-> x.token] /\ x.pc = pc
  BY <1>5
<1>7. complete'[c] = x
  BY <1>1, <1>5, <1>6, CompleteMoves
<1>8. UploadFacts(c)'
  BY <1>1, <1>2, <1>6, <1>7 DEF UploadFacts
<1> QED BY <1>1, <1>5, <1>6, <1>8, CompleteRemoves

LEMMA CopyUploadSteps ==
  ASSUME IInv, NEW c \in Completes, CopyUpload(c)
  PROVE  IInv'
<1> DEFINE source == {b \in stored : b.key = complete[c].token}
           copyOf(b) == [Formal(c, "uploaded", b.closed, b.holds) EXCEPT !.content = b.content]
<1>1. /\ complete[c].pc = "copy" /\ token' = token /\ tick' = tick + 1
      /\ stored' = stored \cup {copyOf(b) : b \in source}
      /\ UNCHANGED <<now, db, when, job, flight, restoring>>
  BY DEF CopyUpload
<1>2. /\ \A b \in stored : b.key # c
      /\ \A b \in source : b.closed
  BY <1>1 DEF IInv, UploadsFit, UploadFacts
<1>3. PICK pc \in {"copied", "failed"} : complete' = [complete EXCEPT ![c].pc = pc]
  BY DEF CopyUpload
<1>4. complete[c] = [pc |-> complete[c].pc, token |-> complete[c].token]
  BY DEF IInv, UploadsFit, UploadShapes
<1> DEFINE x == [complete[c] EXCEPT !.pc = pc]
<1>5. x = [pc |-> pc, token |-> complete[c].token] /\ complete' = [complete EXCEPT ![c] = x]
  BY <1>3, <1>4
<1> HIDE DEF x
<1>6. x = [pc |-> x.pc, token |-> x.token] /\ x.pc = pc
  BY <1>5
<1>7. /\ UploadShapes' /\ complete'[c] = x
      /\ \A d \in Completes : d # c => complete'[d] = complete[d]
  BY <1>1, <1>5, <1>6, CompleteMoves
<1>8. \A b : /\ copyOf(b).key = c /\ copyOf(b).time = now /\ copyOf(b).purpose = "uploaded"
             /\ copyOf(b).closed = b.closed
  BY DEF Formal
<1>9. /\ Objects' /\ OneScheduled' /\ FewerScheduled
      /\ \A key : key # c => Fewer(key)
      /\ \A b \in stored' : b.key = c => b.closed
  <2>1. CASE source = {}
    <3>1. stored' = stored
      BY <1>1, <2>1
    <3> QED BY <1>1, <1>2, <3>1, FewerInAll, ObjectsKept DEF IInv, Clock
  <2>2. CASE source # {}
    <3>1. PICK b \in source : TRUE
      BY <2>2
    <3>2. source = {b}
      BY <3>1 DEF IInv, Objects
    <3> DEFINE o == copyOf(b)
    <3>3. o.key = c /\ o.time = now /\ o.purpose = "uploaded" /\ o.closed
      BY <1>2, <1>8, <3>1
    <3>4. stored' = stored \cup {o}
      BY <1>1, <3>2
    <3> HIDE DEF o
    <3>5. \A q \in stored : q.key # o.key
      BY <1>2, <3>3
    <3> QED BY <1>1, <1>2, <3>3, <3>4, <3>5, ObjectAdded DEF IInv
  <2> QED BY <2>1, <2>2
<1> HIDE DEF source, copyOf
<1>10. Clock' /\ ExportsFit' /\ RestoresFit'
  <2>1. \A e \in Exports : Fewer(e)
    BY <1>9, NamesAreDistinct
  <2> QED BY <1>1, <1>9, <2>1, UploadFrame DEF IInv, Clock
<1>11. ASSUME NEW d \in Completes PROVE UploadFacts(d)'
  <2>1. CASE d = c
    BY <1>6, <1>7, <1>9, <2>1 DEF UploadFacts
  <2>2. CASE d # c
    <3>1. (\A t \in Tokens : token[t].put => token'[t].put /\ Fewer(t)) /\ Fewer(d)
      BY <1>1, <1>9, <2>2, NamesAreDistinct
    <3> QED BY <1>7, <2>2, <3>1, UploadKept DEF IInv
  <2> QED BY <2>1, <2>2
<1>12. ASSUME NEW t \in Tokens PROVE TokenFacts(t)'
  <2>1. Fewer(t)
    BY <1>9, NamesAreDistinct
  <2> QED BY <1>1, <2>1 DEF IInv, UploadsFit, TokenFacts, Fewer
<1> QED BY <1>7, <1>9, <1>10, <1>11, <1>12 DEF IInv, UploadsFit

LEMMA UploadSteps == ASSUME IInv, UploadNext PROVE IInv'
<1>1. ASSUME NEW t \in Tokens, InitUpload(t) \/ ClientPut(t) PROVE IInv'
  BY <1>1, InitUploadSteps, ClientPutSteps
<1>2. ASSUME NEW c \in Completes, CopyUpload(c) \/ FinishUploadOf(c) PROVE IInv'
  BY <1>2, CopyUploadSteps, FinishUploadOfSteps
<1>3. ASSUME NEW c \in Completes, NEW t \in Tokens,
             RefuseUpload(c, t) \/ UploadUnavailable(c, t) \/ AcceptUpload(c, t)
      PROVE  IInv'
  BY <1>3, RefuseUploadSteps, AcceptUploadSteps
<1> QED BY <1>1, <1>2, <1>3 DEF UploadNext

-----------------------------------------------------------------------------
(* Restores *)

LEMMA RestoreFields ==
  ASSUME NEW w, NEW v, w = [pc |-> w.pc, holds |-> w.holds, at |-> w.at]
  PROVE  [w EXCEPT !.pc = v] = [pc |-> v, holds |-> w.holds, at |-> w.at]
OBVIOUS

LEMMA CommittedFields ==
  ASSUME NEW w, NEW s, w = [pc |-> w.pc, holds |-> w.holds, at |-> w.at]
  PROVE  [w EXCEPT !.pc = "done", !.at = s] = [pc |-> "done", holds |-> w.holds, at |-> s]
<1> DEFINE y == [w EXCEPT !.pc = "done"]
<1>1. y = [pc |-> "done", holds |-> w.holds, at |-> w.at]
  BY RestoreFields
<1>2. [y EXCEPT !.at = s] = [pc |-> "done", holds |-> w.holds, at |-> s]
  <2> HIDE DEF y
  <2> QED BY <1>1
<1>3. [w EXCEPT !.pc = "done", !.at = s] = [y EXCEPT !.at = s]
  BY Zenon
<1> QED BY <1>2, <1>3, Zenon

(* The invariant, if a restore moves on, and what it puts into the         *)
(* database is all marked as brought back.                                 *)
LEMMA RestoreMoves ==
  ASSUME IInv, NEW r \in Restores, NEW x, x = [pc |-> x.pc, holds |-> x.holds, at |-> x.at],
         restore' = [restore EXCEPT ![r] = x], restore[r].pc # "done",
         UNCHANGED <<stored, now, when, flight, uploads>>, tick' \in Nat, tick' >= tick,
         \A c \in db' : c \in db \/ (x.pc = "done" /\ c \in x.holds /\ x.at > tick),
         JobShape', \A e \in Exports : e # r => job'[e] = job[e],
         ExportFacts(r)', restore'[r] = x => RestoreFacts(r)'
  PROVE  IInv'
<1>1. restore' = [q \in Restores |-> IF q = r THEN x ELSE restore[q]]
  BY DEF IInv, RestoresFit, RestoreShape
<1>2. restore'[r] = x /\ \A q \in Restores : q # r => restore'[q] = restore[q]
  BY <1>1
<1>3. RestoreShape'
  <2>1. \A q \in Restores : restore'[q] = [pc |-> restore'[q].pc, holds |-> restore'[q].holds,
                                           at |-> restore'[q].at]
    BY <1>2 DEF IInv, RestoresFit, RestoreShape
  <2>2. restore' = [q \in Restores |-> restore'[q]]
    BY <1>1
  <2> QED BY <2>1, <2>2 DEF RestoreShape
<1>4. Clock' /\ now' \in Nat /\ now' >= now
  BY DEF IInv, Clock
<1>5. Objects' /\ OneScheduled' /\ UploadsFit'
  BY <1>4, FewerInAll, ObjectsKept, UploadsKept DEF IInv
<1>6. ASSUME NEW e \in Exports, e # r PROVE ExportFacts(e)'
  BY <1>4, <1>6, FewerInAll, ExportKept DEF IInv, ExportsFit
<1>7. \A q \in Restores : restore[q].pc = "done" => restore'[q] = restore[q]
  BY <1>2
<1>8. ASSUME NEW q \in Restores, q # r PROVE RestoreFacts(q)'
  <2>1. RestoreFacts(q) /\ restore'[q] = restore[q] /\ job'[q] = job[q]
    BY <1>2, <1>8 DEF IInv, RestoresFit, Exports
  <2>2. ASSUME NEW c \in db', c \notin db PROVE Saved(q, c)'
    <3>1. /\ restore'[r].pc = "done" /\ c \in restore'[r].holds /\ restore'[r].at > tick
          /\ restore'[r].at \in Nat
      BY <1>2, <2>2 DEF RestoreFacts
    <3>2. restore'[r].at > job'[q].since
      BY <2>1, <3>1 DEF RestoreFacts, IInv, Clock
    <3> QED BY <3>1, <3>2 DEF Saved, BroughtBack
  <2>3. \A c \in db' : (c \in db /\ (c \in Changes => when'[c] = when[c])) \/ Saved(q, c)'
    BY <2>2
  <2>4. tick \in Nat
    BY DEF IInv, Clock
  <2> QED BY <1>7, <2>1, <2>3, <2>4, RestoreKept
<1>9. RestoreFacts(r)'
  BY <1>2
<1> QED BY <1>3, <1>4, <1>5, <1>6, <1>8, <1>9 DEF IInv, ExportsFit, RestoresFit

(* A restore that only changes its place. *)
LEMMA RestorePc ==
  ASSUME IInv, NEW r \in Restores, NEW pc \in {"refused", "failed", "tx"},
         restore' = [restore EXCEPT ![r].pc = pc], restore[r].pc # "done",
         pc = "tx" => job[r].pc = "answered",
         UNCHANGED <<stored, now, tick, db, when, job, flight, uploads>>
  PROVE  IInv'
<1> DEFINE x == [restore[r] EXCEPT !.pc = pc]
<1>1. restore[r] = [pc |-> restore[r].pc, holds |-> restore[r].holds, at |-> restore[r].at]
  BY DEF IInv, RestoresFit, RestoreShape
<1>2. x = [pc |-> pc, holds |-> restore[r].holds, at |-> restore[r].at]
  BY <1>1, RestoreFields
<1>3. restore' = [restore EXCEPT ![r] = x]
  OBVIOUS
<1> HIDE DEF x
<1>4. JobShape' /\ ExportFacts(r)'
  BY DEF IInv, ExportsFit, JobShape, ExportFacts, Exports, AllOlder, Scheduled
<1>5. ASSUME restore'[r] = x PROVE RestoreFacts(r)'
  <2>1. RestoreFacts(r)
    BY DEF IInv, RestoresFit
  <2>2. restore'[r].pc = pc /\ restore'[r].at = restore[r].at /\ job' = job
    BY <1>2, <1>5
  <2>3. restore' = [q \in Restores |-> IF q = r THEN x ELSE restore[q]]
    BY <1>3 DEF IInv, RestoresFit, RestoreShape
  <2>4. \A q \in Restores : restore[q].pc = "done" => restore'[q] = restore[q]
    BY <2>3
  <2>5. ASSUME job'[r].pc \in {"reading", "uploaded", "answered"}, NEW c \in db'
        PROVE  Saved(r, c)'
    BY <2>1, <2>2, <2>4, <2>5, SavedKept DEF RestoreFacts
  <2> QED BY <2>1, <2>2, <2>5 DEF RestoreFacts
<1>6. x = [pc |-> x.pc, holds |-> x.holds, at |-> x.at]
  BY <1>2
<1>7. tick' \in Nat /\ tick' >= tick
  BY DEF IInv, Clock
<1> QED BY <1>3, <1>4, <1>5, <1>6, <1>7, RestoreMoves

LEMMA ReadBackupSteps ==
  ASSUME IInv, NEW r \in Restores, NEW b \in stored, ReadBackup(r, b)
  PROVE  IInv'
<1>1. /\ restore[r].pc = "idle" /\ UNCHANGED <<stored, now, tick, db, when, flight, uploads>>
  BY DEF ReadBackup, world
<1>2. CASE ~ (b.closed /\ b.content = "full")
  BY <1>1, <1>2, RestorePc DEF ReadBackup
<1>3. CASE b.closed /\ b.content = "full"
  <2> DEFINE x == [pc |-> "snapshot", holds |-> b.holds, at |-> 0]
             y == [pc |-> "reading", holds |-> db, since |-> tick, latest |-> {}, missed |-> {}]
  <2>1. restore' = [restore EXCEPT ![r] = x] /\ job' = [job EXCEPT ![r] = y]
    BY <1>3 DEF ReadBackup, Begin
  <2>2. /\ x = [pc |-> x.pc, holds |-> x.holds, at |-> x.at] /\ x.pc = "snapshot" /\ x.at = 0
        /\ y = [pc |-> y.pc, holds |-> y.holds, since |-> y.since, latest |-> y.latest,
                missed |-> y.missed]
        /\ y.pc = "reading" /\ y.holds = db /\ y.since = tick /\ y.missed = {}
    OBVIOUS
  <2> HIDE DEF x, y
  <2>3. r \in Exports /\ r \notin Crons
    BY NamesAreDistinct DEF Exports
  <2>4. JobShape' /\ job'[r] = y /\ \A e \in Exports : e # r => job'[e] = job[e]
    BY <2>1, <2>2, <2>3, JobMoves
  <2>5. job[r].pc = "idle"
    BY <1>1 DEF IInv, RestoresFit, RestoreFacts
  <2>6. ExportFacts(r)'
    BY <1>1, <2>2, <2>3, <2>4, <2>5 DEF IInv, ExportsFit, ExportFacts
  <2>7. ASSUME restore'[r] = x PROVE RestoreFacts(r)'
    BY <1>1, <2>2, <2>4, <2>7 DEF RestoreFacts, Saved, IInv, Clock
  <2>8. tick' \in Nat /\ tick' >= tick
    BY <1>1 DEF IInv, Clock
  <2> QED BY <1>1, <2>1, <2>2, <2>4, <2>6, <2>7, <2>8, RestoreMoves
<1> QED BY <1>2, <1>3

LEMMA CommitSteps ==
  ASSUME IInv, NEW r \in Restores, Commit(r)
  PROVE  IInv'
<1> DEFINE stamp == tick + 1
           x == [restore[r] EXCEPT !.pc = "done", !.at = stamp]
<1>1. /\ restore[r].pc = "tx" /\ db' = restore[r].holds /\ tick' = tick + 1
      /\ restore' = [restore EXCEPT ![r] = x]
      /\ UNCHANGED <<stored, now, when, job, flight, uploads>>
  BY DEF Commit
<1>2. restore[r] = [pc |-> restore[r].pc, holds |-> restore[r].holds, at |-> restore[r].at]
  BY DEF IInv, RestoresFit, RestoreShape
<1>3. x = [pc |-> "done", holds |-> restore[r].holds, at |-> stamp]
  <2> HIDE DEF stamp
  <2> QED BY <1>2, CommittedFields, Zenon
<1> HIDE DEF x
<1>4. JobShape' /\ ExportFacts(r)'
  BY <1>1 DEF IInv, ExportsFit, JobShape, ExportFacts, Exports, AllOlder, Scheduled
<1>5. tick' \in Nat /\ tick' >= tick /\ tick + 1 > tick /\ tick \in Nat
  BY <1>1 DEF IInv, Clock
<1>6. ASSUME restore'[r] = x PROVE RestoreFacts(r)'
  <2>1. RestoreFacts(r) /\ job' = job
    BY <1>1 DEF IInv, RestoresFit
  <2>2. restore'[r].pc = "done" /\ restore'[r].at = tick + 1 /\ restore'[r].holds = db'
    BY <1>1, <1>3, <1>6
  <2>3. restore'[r].at > job'[r].since
    BY <1>5, <2>1, <2>2 DEF RestoreFacts
  <2>4. \A c \in db' : Saved(r, c)'
    BY <2>2, <2>3 DEF Saved, BroughtBack
  <2> QED BY <1>1, <1>5, <2>1, <2>2, <2>4 DEF RestoreFacts
<1>7. /\ x = [pc |-> x.pc, holds |-> x.holds, at |-> x.at]
      /\ \A c \in db' : x.pc = "done" /\ c \in x.holds /\ x.at > tick
  BY <1>1, <1>3, <1>5
<1> QED BY <1>1, <1>4, <1>5, <1>6, <1>7, RestoreMoves

LEMMA RestoreSteps ==
  ASSUME IInv, NEW r \in Restores, RestoreNext(r)
  PROVE  IInv'
<1>1. ASSUME SnapshotFails(r) PROVE IInv'
  BY <1>1, RestorePc DEF SnapshotFails, world
<1>2. ASSUME BeginTransaction(r) PROVE IInv'
  <2>1. PICK pc \in {"tx", "failed"} : restore' = [restore EXCEPT ![r].pc = pc]
    BY <1>2 DEF BeginTransaction
  <2>2. /\ restore[r].pc # "done" /\ job[r].pc = "answered"
        /\ UNCHANGED <<stored, now, tick, db, when, job, flight, uploads>>
    BY <1>2 DEF BeginTransaction, world
  <2> QED BY <2>1, <2>2, RestorePc
<1>3. ASSUME Rollback(r) PROVE IInv'
  BY <1>3, RestorePc DEF Rollback, world
<1> QED BY <1>1, <1>2, <1>3, ReadBackupSteps, CommitSteps DEF RestoreNext

-----------------------------------------------------------------------------
(* The process ends *)

LEMMA JobFields ==
  ASSUME NEW w, NEW v,
         w = [pc |-> w.pc, holds |-> w.holds, since |-> w.since, latest |-> w.latest,
              missed |-> w.missed]
  PROVE  [w EXCEPT !.pc = v]
           = [pc |-> v, holds |-> w.holds, since |-> w.since, latest |-> w.latest,
              missed |-> w.missed]
OBVIOUS

LEMMA CompleteFields ==
  ASSUME NEW w, NEW v, w = [pc |-> w.pc, token |-> w.token]
  PROVE  [w EXCEPT !.pc = v] = [pc |-> v, token |-> w.token]
OBVIOUS

LEMMA CrashSteps == ASSUME IInv, Crash PROVE IInv'
<1> DEFINE jobPc == [e \in Exports |->
             Stopped(job[e].pc, {"reading", "uploaded", "joined", "comparing"})]
           completePc == [c \in Completes |-> Stopped(complete[c].pc, {"copy", "copied"})]
           restorePc == [r \in Restores |-> Stopped(restore[r].pc, {"snapshot", "tx"})]
<1>1. /\ job' = [e \in Exports |-> [job[e] EXCEPT !.pc = jobPc[e]]]
      /\ complete' = [c \in Completes |-> [complete[c] EXCEPT !.pc = completePc[c]]]
      /\ restore' = [r \in Restores |-> [restore[r] EXCEPT !.pc = restorePc[r]]]
      /\ UNCHANGED <<stored, now, tick, db, when, token>>
  BY DEF Crash, world
<1>2. /\ \A e \in Exports : /\ jobPc[e] \in {job[e].pc, "dead"}
                            /\ jobPc[e] \notin {"reading", "uploaded", "joined", "comparing"}
      /\ \A c \in Completes : /\ completePc[c] \in {complete[c].pc, "dead"}
                              /\ completePc[c] \notin {"copy", "copied"}
      /\ \A r \in Restores : /\ restorePc[r] \in {restore[r].pc, "dead"}
                             /\ restorePc[r] \notin {"snapshot", "tx"}
                             /\ restore[r].pc = "done" => restorePc[r] = "done"
  BY DEF Stopped
<1> HIDE DEF jobPc, completePc, restorePc
<1>3. /\ \A e \in Exports : job[e] = [pc |-> job[e].pc, holds |-> job[e].holds,
                                      since |-> job[e].since, latest |-> job[e].latest,
                                      missed |-> job[e].missed]
      /\ \A c \in Completes : complete[c] = [pc |-> complete[c].pc, token |-> complete[c].token]
      /\ \A r \in Restores : restore[r] = [pc |-> restore[r].pc, holds |-> restore[r].holds,
                                           at |-> restore[r].at]
  BY DEF IInv, ExportsFit, JobShape, UploadsFit, UploadShapes, RestoresFit, RestoreShape
<1>4. ASSUME NEW e \in Exports
      PROVE  /\ job'[e] = [pc |-> jobPc[e], holds |-> job[e].holds,
                           since |-> job[e].since, latest |-> job[e].latest,
                           missed |-> job[e].missed]
             /\ job'[e].pc = jobPc[e] /\ job'[e].holds = job[e].holds
             /\ job'[e].since = job[e].since /\ job'[e].latest = job[e].latest
             /\ job'[e].missed = job[e].missed
  <2>1. job'[e] = [job[e] EXCEPT !.pc = jobPc[e]]
    BY <1>1
  <2>2. job'[e] = [pc |-> jobPc[e], holds |-> job[e].holds,
                   since |-> job[e].since, latest |-> job[e].latest, missed |-> job[e].missed]
    BY <1>3, <2>1, JobFields, Zenon
  <2> QED BY ONLY <2>2
<1>5. ASSUME NEW c \in Completes
      PROVE  /\ complete'[c] = [pc |-> completePc[c], token |-> complete[c].token]
             /\ complete'[c].pc = completePc[c] /\ complete'[c].token = complete[c].token
  <2>1. complete'[c] = [complete[c] EXCEPT !.pc = completePc[c]]
    BY <1>1
  <2>2. complete'[c] = [pc |-> completePc[c], token |-> complete[c].token]
    BY <1>3, <2>1, CompleteFields, Zenon
  <2> QED BY ONLY <2>2
<1>6. ASSUME NEW r \in Restores
      PROVE  /\ restore'[r] = [pc |-> restorePc[r], holds |-> restore[r].holds,
                               at |-> restore[r].at]
             /\ restore'[r].pc = restorePc[r] /\ restore'[r].holds = restore[r].holds
             /\ restore'[r].at = restore[r].at
  <2>1. restore'[r] = [restore[r] EXCEPT !.pc = restorePc[r]]
    BY <1>1
  <2>2. restore'[r] = [pc |-> restorePc[r], holds |-> restore[r].holds, at |-> restore[r].at]
    BY <1>3, <2>1, RestoreFields, Zenon
  <2> QED BY ONLY <2>2
<1>7. JobShape' /\ UploadShapes' /\ RestoreShape'
  <2>1. JobShape'
    <3>1. \A e \in Exports : job'[e] = [pc |-> job'[e].pc, holds |-> job'[e].holds,
                                        since |-> job'[e].since, latest |-> job'[e].latest,
                                        missed |-> job'[e].missed]
      BY <1>4
    <3>2. job' = [e \in Exports |-> job'[e]]
      BY <1>1
    <3> QED BY <3>1, <3>2 DEF JobShape
  <2>2. UploadShapes'
    <3>1. \A c \in Completes : complete'[c] = [pc |-> complete'[c].pc, token |-> complete'[c].token]
      BY <1>5
    <3>2. complete' = [c \in Completes |-> complete'[c]]
      BY <1>1
    <3> QED BY <1>1, <3>1, <3>2 DEF IInv, UploadsFit, UploadShapes
  <2>3. RestoreShape'
    <3>1. \A r \in Restores : restore'[r] = [pc |-> restore'[r].pc, holds |-> restore'[r].holds,
                                             at |-> restore'[r].at]
      BY <1>6
    <3>2. restore' = [r \in Restores |-> restore'[r]]
      BY <1>1
    <3> QED BY <3>1, <3>2 DEF RestoreShape
  <2> QED BY <2>1, <2>2, <2>3
<1>8. Clock' /\ now' \in Nat /\ now' >= now
  BY <1>1 DEF IInv, Clock
<1>9. Objects' /\ OneScheduled'
  BY <1>1, <1>8, ObjectsKept DEF IInv
<1>10. ASSUME NEW e \in Exports PROVE ExportFacts(e)'
  <2>1. ExportFacts(e) /\ job'[e].pc = jobPc[e]
    BY <1>4 DEF IInv, ExportsFit
  <2> QED BY <1>1, <1>2, <2>1 DEF ExportFacts
<1>11. ASSUME NEW t \in Tokens PROVE TokenFacts(t)'
  BY <1>1 DEF IInv, UploadsFit, TokenFacts
<1>12. ASSUME NEW c \in Completes PROVE UploadFacts(c)'
  <2>1. UploadFacts(c) /\ complete'[c].pc = completePc[c]
    BY <1>5 DEF IInv, UploadsFit
  <2> QED BY <1>1, <1>2, <2>1 DEF UploadFacts
<1>13. \A q \in Restores : restore[q].pc = "done" => restore'[q] = restore[q]
  BY <1>2, <1>3, <1>6
<1>14. ASSUME NEW r \in Restores PROVE RestoreFacts(r)'
  <2>1. /\ RestoreFacts(r) /\ restore'[r].pc = restorePc[r] /\ restore'[r].at = restore[r].at
        /\ job'[r].pc = jobPc[r] /\ job'[r].since = job[r].since /\ job'[r].holds = job[r].holds
        /\ job'[r].missed = job[r].missed
        /\ r \in Exports
    BY <1>4, <1>6 DEF IInv, RestoresFit, Exports
  <2>2. restorePc[r] = "idle" => jobPc[r] = "idle"
    BY <1>2, <2>1 DEF RestoreFacts, jobPc, Stopped
  <2>3. ASSUME job'[r].pc \in {"reading", "uploaded", "answered"}, NEW c \in db'
        PROVE  Saved(r, c)'
    <3>1. Saved(r, c)
      BY <1>1, <1>2, <2>1, <2>3 DEF RestoreFacts
    <3> QED BY <1>1, <1>13, <2>1, <3>1, SavedKept
  <2>4. /\ restore'[r].at \in Nat /\ restore'[r].at <= tick'
        /\ job'[r].since \in Nat /\ job'[r].since <= tick'
    BY <1>1, <2>1 DEF RestoreFacts
  <2> QED BY <1>2, <2>1, <2>2, <2>3, <2>4 DEF RestoreFacts
<1> QED BY <1>7, <1>8, <1>9, <1>10, <1>11, <1>12, <1>14 DEF IInv, ExportsFit, UploadsFit, RestoresFit

-----------------------------------------------------------------------------
(* The theorems *)

LEMMA Initially == Init => IInv
<1> SUFFICES ASSUME Init PROVE IInv
  OBVIOUS
<1> USE DEF Init
<1>1. Clock
  BY StoreAssumption DEF Clock
<1>2. Objects
  BY StoreAssumption, OldAssumption DEF Objects
<1>3. OneScheduled
  BY OldAssumption DEF OneScheduled
<1>4. ExportsFit
  BY NamesAreDistinct DEF ExportsFit, JobShape, ExportFacts, IdleJob
<1>5. UploadsFit
  BY NamesAreDistinct DEF UploadsFit, UploadShapes, TokenFacts, UploadFacts
<1>6. RestoresFit
  BY DEF RestoresFit, RestoreShape, RestoreFacts, IdleJob, Exports
<1> QED BY <1>1, <1>2, <1>3, <1>4, <1>5, <1>6 DEF IInv

LEMMA Steps == IInv /\ [Next]_vars => IInv'
<1> SUFFICES ASSUME IInv, [Next]_vars PROVE IInv'
  OBVIOUS
<1>1. CASE UNCHANGED vars
  BY <1>1, StutterSteps
<1>2. CASE Next
  <2>1. ASSUME NEW c \in Changes, Change(c) PROVE IInv'
    BY <2>1, ChangeSteps
  <2>2. ASSUME NEW k \in Keepers, KeeperNext(k) PROVE IInv'
    BY <2>2, KeeperSteps
  <2>3. ASSUME NEW e \in Exports, ExportNext(e) PROVE IInv'
    BY <2>3, StartManualSteps, FinishUploadSteps, AbortUploadSteps, AnswerVerifiedSteps,
      WithdrawSteps, CronJoinsSteps, CronListsSteps, CronReusesSteps, CronExportsSteps DEF ExportNext
  <2>4. ASSUME NEW r \in Restores, RestoreNext(r) PROVE IInv'
    BY <2>4, RestoreSteps
  <2>5. Quiet => UNCHANGED vars
    BY DEF Quiet
  <2> QED BY <1>2, <2>1, <2>2, <2>3, <2>4, <2>5, StutterSteps, DaySteps, CrashSteps, UploadSteps
      DEF Next
<1> QED BY <1>1, <1>2

(* The facts about each request hold of every behaviour.                   *)
THEOREM Inductive == Spec => []IInv
<1> QED BY Initially, Steps, PTL DEF Spec

(* createBackup and completeUpload: what they answered with verifies.      *)
THEOREM AnswersAreWhole == Spec => []AnsweredIsWhole
<1>1. IInv => AnsweredIsWhole
  BY DEF IInv, ExportsFit, ExportFacts, UploadsFit, UploadFacts, AnsweredIsWhole
<1> QED BY <1>1, Inductive, PTL

(* createScheduledBackup: scheduled backups keep the interval apart,       *)
(* whichever calls meet, fail or are cut off, and whatever is removed.     *)
THEOREM ScheduledApart == Spec => []OneScheduled
<1>1. IInv => OneScheduled
  BY DEF IInv
<1> QED BY <1>1, Inductive, PTL

(* restoreBackup: what the commit takes from the database is in the        *)
(* restore's own snapshot, or came after it was begun.                     *)
THEOREM NothingUnsaved == Spec => RestoreKeepsTrace
<1> DEFINE Traced == \A c \in db \ db' : \E r \in Restores :
             /\ restore[r].pc = "tx" /\ restore'[r].pc = "done"
             /\ \/ job[r].pc = "answered" /\ c \in job[r].holds \cup job[r].missed
                \/ when[c] > job[r].since \/ BroughtBack(c, job[r].since)
<1>1. IInv /\ [Next]_vars => [Traced]_vars
  <2> SUFFICES ASSUME IInv, [Next]_vars, NEW c \in db \ db'
               PROVE  \E r \in Restores :
                        /\ restore[r].pc = "tx" /\ restore'[r].pc = "done"
                        /\ \/ job[r].pc = "answered" /\ c \in job[r].holds \cup job[r].missed
                           \/ when[c] > job[r].since \/ BroughtBack(c, job[r].since)
    OBVIOUS
  <2>1. PICK r \in Restores : Commit(r)
    <3>1. db' # db
      OBVIOUS
    <3>2. ~ UNCHANGED vars /\ ~ DayPasses /\ ~ Crash /\ ~ Quiet /\ ~ UploadNext
      BY <3>1 DEF vars, DayPasses, Crash, Quiet, UploadNext, InitUpload, ClientPut, CopyUpload,
        FinishUploadOf, RefuseUpload, UploadUnavailable, AcceptUpload, world
    <3>3. \A d \in Changes : ~ Change(d)
      BY DEF Change
    <3>4. \A k \in Keepers : ~ KeeperNext(k)
      BY <3>1 DEF KeeperNext, StartDeletion, StartRetention, VerifyNext, VerifyUnavailable, Delete,
        Skip, DeleteUnanswered, world
    <3>5. \A e \in Exports : ~ ExportNext(e)
      BY <3>1 DEF ExportNext, StartManual, FinishUpload, AbortUpload, AnswerVerified, Withdraw,
        CronJoins, CronLists, CronReuses, CronExports, world
    <3>6. PICK r \in Restores : RestoreNext(r)
      BY <3>2, <3>3, <3>4, <3>5 DEF Next
    <3> QED BY <3>1, <3>6 DEF RestoreNext, ReadBackup, SnapshotFails, BeginTransaction, Rollback, world
  <2>2. restore[r].pc = "tx" /\ restore' = [restore EXCEPT ![r].pc = "done", ![r].at = tick + 1]
    BY <2>1 DEF Commit
  <2>3. restore'[r].pc = "done"
    BY <2>2 DEF IInv, RestoresFit, RestoreShape
  <2>4. job[r].pc = "answered" /\ Saved(r, c)
    BY <2>2 DEF IInv, RestoresFit, RestoreFacts
  <2> QED BY <2>2, <2>3, <2>4 DEF Saved
<1> QED BY <1>1, Inductive, PTL DEF Spec, RestoreKeepsTrace

-----------------------------------------------------------------------------
(***************************************************************************)
(* Listings: newest first, everything once.                                *)
(***************************************************************************)
Orders(R, S) ==
  \A x, y, z \in S : /\ <<x, x>> \in R
                     /\ x # y => (<<x, y>> \in R <=> <<y, x>> \notin R)
                     /\ <<x, y>> \in R /\ <<y, z>> \in R => <<x, z>> \in R

(* How many come before x, itself included. *)
Before(R, S, x) == {y \in S : <<y, x>> \in R}
PlaceOf(R, S, x) == Cardinality(Before(R, S, x))

LEMMA PlacesGrow ==
  ASSUME NEW S, IsFiniteSet(S), NEW R, Orders(R, S), NEW x \in S, NEW y \in S
  PROVE  /\ PlaceOf(R, S, x) \in 1..Cardinality(S)
         /\ x # y /\ <<x, y>> \in R => PlaceOf(R, S, x) < PlaceOf(R, S, y)
<1>1. Cardinality(S) \in Nat
  BY FS_CardinalityType
<1>2. \A v : /\ IsFiniteSet(Before(R, S, v)) /\ PlaceOf(R, S, v) \in Nat
             /\ PlaceOf(R, S, v) <= Cardinality(S)
  <2> SUFFICES ASSUME NEW v
      PROVE  /\ IsFiniteSet(Before(R, S, v)) /\ PlaceOf(R, S, v) \in Nat
             /\ PlaceOf(R, S, v) <= Cardinality(S)
    OBVIOUS
  <2>1. Before(R, S, v) \in SUBSET S
    BY DEF Before
  <2> QED
    BY <2>1, FS_Subset, FS_CardinalityType DEF PlaceOf
<1>3. PlaceOf(R, S, x) # 0
  <2>1. x \in Before(R, S, x)
    BY DEF Before, Orders
  <2> QED
    BY <2>1, <1>2, FS_EmptySet DEF PlaceOf
<1>4. ASSUME x # y, <<x, y>> \in R PROVE PlaceOf(R, S, x) < PlaceOf(R, S, y)
  <2>1. Before(R, S, x) \in SUBSET Before(R, S, y)
    BY <1>4 DEF Before, Orders
  <2>2. y \in Before(R, S, y) /\ y \notin Before(R, S, x)
    BY <1>4 DEF Before, Orders
  <2>3. Before(R, S, x) # Before(R, S, y)
    BY <2>2
  <2>4. /\ PlaceOf(R, S, x) <= PlaceOf(R, S, y)
        /\ PlaceOf(R, S, y) = PlaceOf(R, S, x) => Before(R, S, y) = Before(R, S, x)
    BY <1>2, <2>1, FS_Subset DEF PlaceOf
  <2> QED
    BY <2>3, <2>4, <1>2
<1> QED
  BY <1>1, <1>2, <1>3, <1>4

LEMMA PlacesAreTaken ==
  ASSUME NEW S, IsFiniteSet(S), NEW R, Orders(R, S), NEW n \in 1..Cardinality(S)
  PROVE  \E x \in S : PlaceOf(R, S, x) = n
<1> DEFINE f == [x \in S |-> PlaceOf(R, S, x)]
           taken == {f[x] : x \in S}
<1>1. Cardinality(S) \in Nat
  BY FS_CardinalityType
<1>2. \A x \in S : f[x] \in 1..Cardinality(S)
  BY PlacesGrow
<1>3. \A x, y \in S : f[x] = f[y] => x = y
  <2> SUFFICES ASSUME NEW x \in S, NEW y \in S, f[x] = f[y], x # y PROVE FALSE
    OBVIOUS
  <2>1. <<x, y>> \in R \/ <<y, x>> \in R
    BY DEF Orders
  <2>2. f[x] \in Nat /\ f[y] \in Nat
    BY <1>1, <1>2
  <2> QED
    BY <2>1, <2>2, PlacesGrow
<1>4. f \in Injection(S, taken) /\ f \in Surjection(S, taken)
  BY <1>3 DEF Injection, Surjection, IsInjective
<1>5. IsFiniteSet(taken) /\ Cardinality(taken) = Cardinality(S)
  BY <1>1, <1>4, FS_Surjection
<1>6. taken = 1..Cardinality(S)
  <2>1. /\ IsFiniteSet(1..Cardinality(S)) /\ Cardinality(1..Cardinality(S)) = Cardinality(S)
    BY <1>1, FS_Interval
  <2>2. taken \in SUBSET (1..Cardinality(S))
    BY <1>2
  <2> QED
    BY <2>1, <2>2, <1>5, FS_Subset
<1> QED
  BY <1>6

(* Entries of a list are at the places they are taken from. *)
LEMMA EntriesOfList ==
  ASSUME NEW list, NEW places \in SUBSET (DOMAIN list), IsFiniteSet(places), places \subseteq Nat
  PROVE  /\ DOMAIN Entries(list, places) = 1..Cardinality(places)
         /\ Cardinality(places) \in Nat
         /\ \A n \in 1..Cardinality(places) : \E i \in places : Entries(list, places)[n] = list[i]
<1> DEFINE R == {p \in places \X places : p[1] <= p[2]}
<1>1. Orders(R, places)
  BY DEF Orders
<1>2. \A i \in places : {j \in places : j <= i} = Before(R, places, i)
  BY DEF Before
<1>3. ASSUME NEW n \in 1..Cardinality(places)
      PROVE  \E i \in places : Entries(list, places)[n] = list[i]
  <2>1. PICK k \in places : PlaceOf(R, places, k) = n
    BY <1>1, PlacesAreTaken
  <2>2. Cardinality({j \in places : j <= k}) = n
    BY <2>1, <1>2 DEF PlaceOf
  <2> DEFINE i == CHOOSE i \in places : Cardinality({j \in places : j <= i}) = n
  <2>3. i \in places
    BY <2>2
  <2>4. Entries(list, places)[n] = list[i]
    BY DEF Entries
  <2> QED
    BY <2>3, <2>4
<1> QED
  BY <1>3, FS_CardinalityType DEF Entries

(* A bucket's listing holds every object, and is newest first.             *)
IsListing(list, S) ==
  /\ DOMAIN list = 1..Cardinality(S) /\ Cardinality(S) \in Nat
  /\ \A n \in DOMAIN list : list[n] \in S
  /\ \A b \in S : \E n \in DOMAIN list : list[n] = b
  /\ \A m, n \in DOMAIN list : m < n => list[m].time >= list[n].time

(* The order of a stable sort by time. *)
StableOrder(s, N) ==
  {p \in (1..N) \X (1..N) : \/ s[p[1]].time > s[p[2]].time
                            \/ (s[p[1]].time = s[p[2]].time /\ p[1] <= p[2])}

LEMMA StablePairs ==
  ASSUME NEW s, NEW N, NEW i \in 1..N, NEW j \in 1..N
  PROVE  <<i, j>> \in StableOrder(s, N) <=> \/ s[i].time > s[j].time
                                           \/ (s[i].time = s[j].time /\ i <= j)
<1>1. <<i, j>> \in (1..N) \X (1..N) /\ <<i, j>>[1] = i /\ <<i, j>>[2] = j
  OBVIOUS
<1> QED
  BY <1>1, Zenon DEF StableOrder

LEMMA StableOrders ==
  ASSUME NEW s, NEW N \in Nat, \A i \in 1..N : s[i].time \in Int
  PROVE  Orders(StableOrder(s, N), 1..N)
<1> DEFINE Pair(i, j) == <<i, j>> \in StableOrder(s, N)
           Ahead(i, j) == s[i].time > s[j].time \/ (s[i].time = s[j].time /\ i <= j)
<1>1. ASSUME NEW i \in 1..N, NEW j \in 1..N PROVE Pair(i, j) <=> Ahead(i, j)
  BY StablePairs
<1>2. ASSUME NEW x \in 1..N, NEW y \in 1..N, NEW z \in 1..N
      PROVE  /\ Ahead(x, x)
             /\ x # y => (Ahead(x, y) <=> ~ Ahead(y, x))
             /\ Ahead(x, y) /\ Ahead(y, z) => Ahead(x, z)
  <2>1. s[x].time \in Int /\ s[y].time \in Int /\ s[z].time \in Int
    OBVIOUS
  <2> QED
    BY <2>1
<1> HIDE DEF Ahead
<1>3. ASSUME NEW x \in 1..N, NEW y \in 1..N, NEW z \in 1..N
      PROVE  /\ Pair(x, x)
             /\ x # y => (Pair(x, y) <=> ~ Pair(y, x))
             /\ Pair(x, y) /\ Pair(y, z) => Pair(x, z)
  BY <1>1, <1>2
<1> QED
  BY <1>3, Zenon DEF Orders

LEMMA ListingFacts ==
  ASSUME NEW S, IsFiniteSet(S), \A b \in S : b.time \in Int
  PROVE  IsListing(Listing(S), S)
<1> DEFINE s == SetToSeq(S)
           N == Cardinality(S)
           upto(i) == {j \in DOMAIN s : \/ s[j].time > s[i].time
                                        \/ (s[j].time = s[i].time /\ j <= i)}
           R == StableOrder(s, N)
           at(n) == CHOOSE i \in DOMAIN s : Cardinality(upto(i)) = n
<1>1. /\ N \in Nat /\ s \in [1..N -> S] /\ \A i, j \in 1..N : s[i] = s[j] => i = j
      /\ \A b \in S : \E i \in 1..N : s[i] = b
  <2>1. PICK g \in Bijection(1..N, S) : TRUE
    BY FS_CardinalityType DEF ExistsBijection
  <2>2. g \in [1..N -> S] /\ IsInjective(g)
    BY <2>1 DEF Bijection, Injection
  <2>3. s \in [1..N -> S] /\ IsInjective(s)
    BY <2>2 DEF SetToSeq
  <2>4. s \in Injection(1..N, S)
    BY <2>3 DEF Injection
  <2>5. N \in Nat /\ Cardinality(1..N) = N
    BY FS_CardinalityType, FS_Interval
  <2>6. s \in Surjection(1..N, S)
    BY <2>4, <2>5, FS_Injection
  <2> QED
    BY <2>3, <2>5, <2>6 DEF IsInjective, Surjection
<1> HIDE DEF s, N
<1>2. \A i \in 1..N : s[i].time \in Int
  BY <1>1
<1>3. Orders(R, 1..N)
  BY <1>1, <1>2, StableOrders
<1>4. IsFiniteSet(1..N) /\ Cardinality(1..N) = N
  BY <1>1, FS_Interval
<1>5. \A i \in 1..N : Cardinality(upto(i)) = PlaceOf(R, 1..N, i)
  <2> SUFFICES ASSUME NEW i \in 1..N PROVE Cardinality(upto(i)) = PlaceOf(R, 1..N, i)
    OBVIOUS
  <2>1. upto(i) = Before(R, 1..N, i)
    BY <1>1, StablePairs DEF Before
  <2> HIDE DEF upto, R
  <2> QED
    BY <2>1 DEF PlaceOf
<1> HIDE DEF R
<1>6. \A n \in 1..N : at(n) \in 1..N /\ PlaceOf(R, 1..N, at(n)) = n
  <2> SUFFICES ASSUME NEW n \in 1..N PROVE at(n) \in 1..N /\ PlaceOf(R, 1..N, at(n)) = n
    OBVIOUS
  <2>1. DOMAIN s = 1..N
    BY <1>1
  <2>2. PICK i \in 1..N : PlaceOf(R, 1..N, i) = n
    <3>1. n \in 1..Cardinality(1..N)
      BY <1>4
    <3> QED
      <4> DEFINE S0 == 1..N
      <4> HIDE DEF S0
      <4>1. \E x \in S0 : PlaceOf(R, S0, x) = n
        <5>1. n \in 1..Cardinality(S0) /\ Orders(R, S0) /\ IsFiniteSet(S0)
          BY <3>1, <1>3, <1>4 DEF S0
        <5> QED
          BY <5>1, PlacesAreTaken
      <4> QED
        BY <4>1 DEF S0
  <2>3. \E k \in DOMAIN s : Cardinality(upto(k)) = n
    BY <1>5, <2>1, <2>2
  <2> HIDE DEF upto
  <2> QED
    BY <1>5, <2>1, <2>3
<1>7. Listing(S) = [n \in 1..N |-> s[at(n)]]
  BY <1>1 DEF Listing, s
<1> HIDE DEF at
<1>8. \A b \in S : \E n \in 1..N : s[at(n)] = b
  <2> SUFFICES ASSUME NEW b \in S PROVE \E n \in 1..N : s[at(n)] = b
    OBVIOUS
  <2>1. PICK i \in 1..N : s[i] = b
    BY <1>1
  <2> DEFINE n == PlaceOf(R, 1..N, i)
             k == at(n)
  <2>2. n \in 1..N
    BY <1>3, <1>4, PlacesGrow
  <2>3. k \in 1..N /\ PlaceOf(R, 1..N, k) = n
    BY <1>6, <2>2
  <2>4. n \in Nat
    BY <2>2
  <2>5. k = i
    <3> SUFFICES ASSUME k # i PROVE FALSE
      OBVIOUS
    <3>1. <<k, i>> \in R \/ <<i, k>> \in R
      BY <2>3, <1>3 DEF Orders
    <3> HIDE DEF k
    <3>2. PlaceOf(R, 1..N, k) < n \/ n < PlaceOf(R, 1..N, k)
      BY <3>1, <2>3, <1>3, <1>4, PlacesGrow
    <3> QED
      BY <3>2, <2>3, <2>4
  <2> QED
    BY <2>1, <2>2, <2>5
<1>9. ASSUME NEW m \in 1..N, NEW n \in 1..N, m < n PROVE s[at(m)].time >= s[at(n)].time
  <2>1. at(m) \in 1..N /\ at(n) \in 1..N /\ m \in Nat /\ n \in Nat
    BY <1>6
  <2>2. at(m) # at(n)
    BY <1>6, <1>9
  <2>3. <<at(m), at(n)>> \in R
    <3>1. <<at(m), at(n)>> \in R \/ <<at(n), at(m)>> \in R
      BY <2>1, <2>2, <1>3 DEF Orders
    <3>2. \A i, j \in 1..N : i # j /\ <<i, j>> \in R => PlaceOf(R, 1..N, i) < PlaceOf(R, 1..N, j)
      BY <1>3, <1>4, PlacesGrow
    <3>3. <<at(n), at(m)>> \in R => n < m
      BY <2>1, <2>2, <3>2, <1>6
    <3> QED
      BY <3>1, <3>3, <2>1, <1>9
  <2> QED
    BY <2>1, <2>3, <1>2, StablePairs DEF R
<1>10. /\ DOMAIN Listing(S) = 1..N /\ \A n \in 1..N : Listing(S)[n] = s[at(n)]
  BY <1>7
<1>11. \A n \in 1..N : Listing(S)[n] \in S
  BY <1>1, <1>6, <1>10
<1>12. \A b \in S : \E n \in 1..N : Listing(S)[n] = b
  BY <1>8, <1>10
<1>13. \A m, n \in 1..N : m < n => Listing(S)[m].time >= Listing(S)[n].time
  BY <1>9, <1>10
<1> QED
  BY <1>1, <1>10, <1>11, <1>12, <1>13 DEF IsListing, N

(* In a set of places there is a first one. *)
LEMMA FirstPlace ==
  ASSUME NEW P \in SUBSET Nat, P # {}
  PROVE  \E i \in P : \A j \in P : i <= j
<1> DEFINE R == OpToRel(<, Nat)
<1>1. PICK i \in P : \A j \in P : ~ (<<j, i>> \in R)
  <2>1. IsWellFoundedOn(R, Nat)
    BY NatLessThanWellFounded, Zenon
  <2> HIDE DEF R
  <2> QED
    BY <2>1, WFMin
<1>2. \A j \in P : ~ (j < i)
  BY <1>1 DEF OpToRel
<1> QED
  BY <1>2

(* The first full backup of a listing is as young as any. *)
LEMMA NewestFullFacts ==
  ASSUME NEW S, NEW list \in Seq(S), IsListing(list, S), \A b \in S : b.time \in Int
  PROVE  /\ \A n \in NewestFull(list) : n \in S /\ IsFull(n)
         /\ \A d \in FullBackups(S) : \E n \in NewestFull(list) : n.time >= d.time
<1>1. DOMAIN list = 1..Len(list) /\ Len(list) \in Nat
  OBVIOUS
<1>2. \A n \in NewestFull(list) : n \in S /\ IsFull(n)
  BY <1>1 DEF NewestFull
<1>3. ASSUME NEW d \in FullBackups(S) PROVE \E n \in NewestFull(list) : n.time >= d.time
  <2> DEFINE P == {i \in 1..Len(list) : IsFull(list[i])}
  <2>1. PICK m \in 1..Len(list) : list[m] = d
    BY <1>1 DEF IsListing, FullBackups
  <2>2. m \in P
    BY <2>1 DEF FullBackups
  <2>3. PICK i \in P : \A j \in P : i <= j
    <3>1. P \in SUBSET Nat /\ P # {}
      BY <2>2
    <3> HIDE DEF P
    <3> QED
      BY <3>1, FirstPlace
  <2>4. \A k \in 1..(i - 1) : ~ IsFull(list[k])
    BY <1>1, <2>3
  <2>5. list[i] \in NewestFull(list)
    BY <2>4, <2>3 DEF NewestFull
  <2>6. list[i].time >= list[m].time
    <3>1. i <= m /\ i \in DOMAIN list /\ m \in DOMAIN list
      BY <1>1, <2>2, <2>3
    <3>2. i = m => list[i].time >= list[m].time
      BY <2>1 DEF FullBackups
    <3>3. i < m => list[i].time >= list[m].time
      BY <3>1 DEF IsListing
    <3> QED
      BY <3>1, <3>2, <3>3, <1>1
  <2> QED
    BY <2>1, <2>5, <2>6
<1> QED
  BY <1>2, <1>3

-----------------------------------------------------------------------------
(***************************************************************************)
(* The plan names backups of the list.                                     *)
(***************************************************************************)
Verdict(acc, S) ==
  /\ acc = [kept |-> acc.kept, planned |-> acc.planned, weeks |-> acc.weeks, months |-> acc.months]
  /\ acc.planned \in Seq(S)

IsJudged(g, list, today, L) ==
  g = [n \in 0..L |->
         IF n = 0 THEN [kept |-> << >>, planned |-> << >>, weeks |-> {}, months |-> {}]
         ELSE Judge(g[n - 1], list[n], NewestFull(list), today)]

LEMMA JudgeExtends ==
  ASSUME NEW list, NEW today, NEW L \in Nat, L # 0, NEW g, IsJudged(g, list, today, L - 1)
  PROVE  \E h : IsJudged(h, list, today, L)
<1> DEFINE J(f, n) == Judge(f[n - 1], list[n], NewestFull(list), today)
           none == [kept |-> << >>, planned |-> << >>, weeks |-> {}, months |-> {}]
           h == [n \in 0..L |-> IF n = L THEN J(g, L) ELSE g[n]]
<1>1. g = [n \in 0..(L - 1) |-> IF n = 0 THEN none ELSE J(g, n)]
  BY DEF IsJudged
<1> HIDE DEF none
<1>2. ASSUME NEW n \in 0..L PROVE h[n] = IF n = 0 THEN none ELSE J(h, n)
  <2>1. CASE n = 0
    <3>1. h[n] = g[n] /\ n \in 0..(L - 1)
      BY <2>1
    <3> QED
      BY <3>1, <1>1, <2>1
  <2>2. CASE n # 0
    <3>1. n - 1 \in 0..L /\ n - 1 # L /\ n \in Nat
      BY <2>2
    <3>2. h[n - 1] = g[n - 1]
      BY <3>1
    <3>3. n # L => n \in 0..(L - 1) /\ h[n] = g[n]
      OBVIOUS
    <3>4. n # L => g[n] = J(g, n)
      BY <3>3, <1>1, <2>2
    <3>5. n = L => h[n] = J(g, n)
      OBVIOUS
    <3>6. J(h, n) = J(g, n)
      BY <3>2
    <3> QED
      BY <3>3, <3>4, <3>5, <3>6, <2>2
  <2> QED
    BY <2>1, <2>2
<1>3. h = [n \in 0..L |-> IF n = 0 THEN none ELSE J(h, n)]
  <2>1. h = [n \in 0..L |-> h[n]]
    OBVIOUS
  <2> HIDE DEF h, J
  <2> QED
    BY <2>1, <1>2
<1>4. IsJudged(h, list, today, L)
  BY <1>3 DEF IsJudged, none
<1> QED
  BY <1>4

LEMMA JudgedExists ==
  ASSUME NEW list, NEW today, NEW L \in Nat
  PROVE  \E g : IsJudged(g, list, today, L)
<1> DEFINE Judges(n) == \E g : IsJudged(g, list, today, n)
           T == {n \in Nat : ~ Judges(n)}
<1>1. Judges(0)
  <2> DEFINE none == [kept |-> << >>, planned |-> << >>, weeks |-> {}, months |-> {}]
             g == [n \in 0..0 |-> none]
  <2>1. g = [n \in 0..0 |-> IF n = 0 THEN none
                            ELSE Judge(g[n - 1], list[n], NewestFull(list), today)]
    OBVIOUS
  <2> QED
    BY <2>1 DEF IsJudged
<1>2. \A n \in Nat : n # 0 /\ Judges(n - 1) => Judges(n)
  BY JudgeExtends
<1> HIDE DEF Judges
<1>3. T = {}
  <2> SUFFICES ASSUME T # {} PROVE FALSE
    OBVIOUS
  <2>1. PICK n \in T : \A j \in T : n <= j
    <3>1. T \in SUBSET Nat
      OBVIOUS
    <3> HIDE DEF T
    <3> QED
      BY <3>1, FirstPlace
  <2>2. n # 0 /\ n \in Nat
    BY <1>1
  <2>3. n - 1 \in Nat /\ ~ (n <= n - 1)
    BY <2>2
  <2>4. Judges(n - 1)
    BY <2>1, <2>3
  <2> QED
    BY <1>2, <2>2, <2>4
<1> QED
  BY <1>3 DEF Judges

LEMMA VerdictFields ==
  ASSUME NEW p, NEW q, NEW v, NEW m, NEW x
  PROVE  LET acc == [kept |-> p, planned |-> q, weeks |-> v, months |-> m] IN
         /\ [acc EXCEPT !.kept = x] = [kept |-> x, planned |-> q, weeks |-> v, months |-> m]
         /\ [acc EXCEPT !.planned = x] = [kept |-> p, planned |-> x, weeks |-> v, months |-> m]
OBVIOUS

LEMMA JudgeNames ==
  ASSUME NEW S, NEW acc, Verdict(acc, S), NEW b \in S, NEW newest, NEW today
  PROVE  Verdict(Judge(acc, b, newest, today), S)
<1>1. ASSUME NEW a, Verdict(a, S) PROVE Verdict(Keep(a, b), S) /\ Verdict(Drop(a, b), S)
  <2>1. Keep(a, b) = [kept |-> Append(a.kept, b), planned |-> a.planned,
                      weeks |-> a.weeks, months |-> a.months]
    <3>1. Keep(a, b) = [a EXCEPT !.kept = Append(a.kept, b)]
      BY Zenon DEF Keep
    <3> QED
      BY <3>1, <1>1, VerdictFields, Zenon DEF Verdict
  <2>2. Drop(a, b) = [kept |-> a.kept, planned |-> Append(a.planned, b),
                      weeks |-> a.weeks, months |-> a.months]
    <3>1. Drop(a, b) = [a EXCEPT !.planned = Append(a.planned, b)]
      BY Zenon DEF Drop
    <3> QED
      BY <3>1, <1>1, VerdictFields, Zenon DEF Verdict
  <2>3. Append(a.planned, b) \in Seq(S)
    BY <1>1 DEF Verdict
  <2> QED
    BY <2>1, <2>2, <2>3, <1>1 DEF Verdict
<1>2. ASSUME NEW x PROVE Verdict([acc EXCEPT !.weeks = x], S) /\ Verdict([acc EXCEPT !.months = x], S)
  BY DEF Verdict
<1>3. Verdict(TakeSlot(acc, b), S)
  BY <1>1, <1>2 DEF TakeSlot
<1> QED
  BY <1>1, <1>3 DEF Judge

LEMMA PlanIsOfList ==
  ASSUME NEW S, NEW list \in Seq(S), NEW today
  PROVE  CalculateRetentionPlan(list, today).planned \in Seq(S)
<1> DEFINE L == Len(list)
           g == CHOOSE g : IsJudged(g, list, today, L)
           T == {n \in 0..L : ~ Verdict(g[n], S)}
<1>1. L \in Nat /\ \A n \in 1..L : list[n] \in S
  OBVIOUS
<1>2. CalculateRetentionPlan(list, today) = g[L]
  BY DEF CalculateRetentionPlan, IsJudged
<1>3. IsJudged(g, list, today, L)
  BY <1>1, JudgedExists
<1> HIDE DEF g, L
<1>4. Verdict(g[0], S)
  <2>1. g[0] = [kept |-> << >>, planned |-> << >>, weeks |-> {}, months |-> {}]
    BY <1>1, <1>3 DEF IsJudged
  <2> QED
    BY <2>1 DEF Verdict
<1>5. ASSUME NEW n \in 1..L, Verdict(g[n - 1], S) PROVE Verdict(g[n], S)
  <2> DEFINE w == [m \in 0..L |->
               IF m = 0 THEN [kept |-> << >>, planned |-> << >>, weeks |-> {}, months |-> {}]
               ELSE Judge(g[m - 1], list[m], NewestFull(list), today)]
  <2>a. g = w
    BY <1>3 DEF IsJudged
  <2>b. w[n] = Judge(g[n - 1], list[n], NewestFull(list), today)
    BY <1>1
  <2>1. g[n] = Judge(g[n - 1], list[n], NewestFull(list), today)
    <3> HIDE DEF w
    <3> QED
      BY <2>a, <2>b
  <2> QED
    BY <2>1, <1>1, <1>5, JudgeNames
<1>6. T = {}
  <2> SUFFICES ASSUME T # {} PROVE FALSE
    OBVIOUS
  <2>1. PICK n \in T : \A j \in T : n <= j
    <3>1. T \in SUBSET Nat
      BY <1>1
    <3> HIDE DEF T
    <3> QED
      BY <3>1, FirstPlace
  <2>2. n \in 1..L /\ n - 1 \in 0..L /\ ~ (n <= n - 1)
    BY <1>1, <1>4, <2>1
  <2>3. Verdict(g[n - 1], S)
    BY <2>1, <2>2
  <2> QED
    BY <1>5, <2>2, <2>3
<1> QED
  <2>1. Verdict(g[L], S)
    BY <1>1, <1>6
  <2> QED
    BY <1>2, <2>1 DEF Verdict

-----------------------------------------------------------------------------
(***************************************************************************)
(* deleteBackup and cleanRetention: what a keeper has counted is still     *)
(* there when it removes, unless somebody else has taken it away; and what *)
(* it is about to remove is outlived.  A backup it has listed is never     *)
(* stored anew under its name, which is why the requests that made the     *)
(* listed objects have to be behind their uploads.                         *)
(***************************************************************************)
Early == {"idle", "joined", "comparing", "reading"}
Past(key) ==
  /\ key \in Exports => job[key].pc \notin Early
  /\ key \in Completes => complete[key].pc \notin {"idle", "copy"}

Working(k) == keeper[k].pc \in {"verify", "delete"}

Outlives(k, n, d) ==
  /\ n.time >= d.time
  /\ IF keeper[k].op = "deletion" THEN n.key # d.key ELSE n.key \in keeper[k].newest

Outlived(k) ==
  \A i \in DOMAIN keeper[k].plan : \A d \in FullBackups(stored) :
    d.key = keeper[k].plan[i] => \E n \in FullBackups(stored) : Outlives(k, n, d)

Surveyed(k) ==
  /\ IsFiniteSet(keeper[k].valid) /\ keeper[k].plan # << >>
  /\ \A i \in DOMAIN keeper[k].plan : Past(keeper[k].plan[i])
  /\ k \notin disturbed => Outlived(k) /\ \A key \in keeper[k].valid : Verifies(key)

Bucket ==
  /\ IsFiniteSet(stored)
  /\ \A b \in stored : b.key \in Names /\ (IsFull(b) <=> b.key \in FullNames)

Temporaries ==
  \A c \in Completes : complete[c].pc \in {"copy", "copied"} => complete[c].token \in Tokens

KeeperStates == {"idle", "verify", "delete", "done", "dead"}
KeeperOps == {"none", "deletion", "retention"}
KeeperRecord ==
  [pc : KeeperStates, op : KeeperOps, todo : Seq(FullNames), plan : Seq(Names),
   valid : SUBSET FullNames, newest : SUBSET FullNames]

KInv ==
  /\ Bucket /\ Temporaries /\ keeper \in [Keepers -> KeeperRecord]
  /\ \A k \in Keepers : Working(k) => Surveyed(k)

(* What every step does: no request goes back, and what is stored anew is  *)
(* of a request that was not behind its upload.                            *)
Advance ==
  /\ \A e \in Exports : job'[e].pc \in Early => job[e].pc \in Early
  /\ \A c \in Completes : complete'[c].pc \in {"idle", "copy"} => complete[c].pc \in {"idle", "copy"}

Arrivals ==
  /\ IsFiniteSet(stored')
  /\ \A b \in stored' \ stored :
       b.key \in Names /\ (IsFull(b) <=> b.key \in FullNames) /\ (IsFull(b) => ~ Past(b.key))

(* Nobody takes a full backup away under an undisturbed keeper. *)
Untouched(k) == Working(k) /\ k \notin disturbed' => FullBackups(stored) \subseteq stored'

LEMMA FullByName ==
  ASSUME Bucket, Arrivals
  PROVE  Bucket'
BY DEF Bucket, Arrivals

LEMMA PastStays ==
  ASSUME Advance, NEW key, Past(key)
  PROVE  Past(key)'
BY DEF Advance, Past

LEMMA SurveyedStays ==
  ASSUME Bucket, NEW k \in Keepers, keeper[k] \in KeeperRecord, Working(k) => Surveyed(k),
         keeper'[k] = keeper[k], disturbed \subseteq disturbed', Advance, Arrivals, Untouched(k)
  PROVE  Working(k)' => Surveyed(k)'
<1> SUFFICES ASSUME Working(k)' PROVE Surveyed(k)'
  OBVIOUS
<1>1. Working(k) /\ Surveyed(k)
  BY DEF Working
<1>2. (\A i \in DOMAIN keeper[k].plan : Past(keeper[k].plan[i]))'
  <2> SUFFICES ASSUME NEW i \in DOMAIN keeper'[k].plan, NEW key, key = keeper'[k].plan[i]
      PROVE  Past(key)'
    BY DEF Past
  <2>1. Past(key)
    BY <1>1 DEF Surveyed
  <2> QED
    BY <2>1, PastStays
<1>3. ASSUME k \notin disturbed' PROVE Outlived(k)' /\ \A key \in keeper'[k].valid : Verifies(key)'
  <2>1. k \notin disturbed /\ FullBackups(stored) \subseteq stored'
    BY <1>1, <1>3 DEF Untouched
  <2>2. ASSUME NEW key \in keeper'[k].valid PROVE Verifies(key)'
    <3>1. PICK b \in stored : b.key = key /\ b.closed
      BY <1>1, <2>1, <2>2 DEF Surveyed, Verifies
    <3>2. key \in FullNames
      BY <2>2 DEF KeeperRecord
    <3>3. b \in stored'
      BY <2>1, <3>1, <3>2 DEF Bucket, FullBackups
    <3> QED
      BY <3>1, <3>3 DEF Verifies
  <2>3. ASSUME NEW i \in DOMAIN keeper'[k].plan, NEW d \in FullBackups(stored'),
               d.key = keeper'[k].plan[i]
        PROVE  \E n \in FullBackups(stored') : Outlives(k, n, d)'
    <3>1. d \in FullBackups(stored)
      <4>1. Past(d.key)
        BY <1>1, <2>3 DEF Surveyed
      <4> QED
        BY <4>1, <2>3 DEF Arrivals, FullBackups
    <3>2. PICK n \in FullBackups(stored) : Outlives(k, n, d)
      BY <1>1, <2>1, <2>3, <3>1 DEF Surveyed, Outlived
    <3>3. n \in FullBackups(stored')
      BY <2>1 DEF FullBackups
    <3> QED
      BY <3>2, <3>3 DEF Outlives
  <2> QED
    BY <2>2, <2>3 DEF Outlived
<1> QED
  BY <1>1, <1>2, <1>3 DEF Surveyed

(* The steps that are not a keeper's. *)
LEMMA OthersKeep ==
  ASSUME KInv, keeper' = keeper, disturbed \subseteq disturbed', Advance, Arrivals, Temporaries',
         \A k \in Keepers : Untouched(k)
  PROVE  KInv'
<1>1. Bucket'
  BY FullByName DEF KInv
<1>2. ASSUME NEW k \in Keepers PROVE Working(k)' => Surveyed(k)'
  BY SurveyedStays DEF KInv
<1> QED
  BY <1>1, <1>2 DEF KInv

(* The steps of a keeper. *)
LEMMA KeeperMoves ==
  ASSUME KInv, NEW k \in Keepers, NEW x \in KeeperRecord, keeper' = [keeper EXCEPT ![k] = x],
         UNCHANGED <<job, complete>>, stored' \subseteq stored, disturbed \subseteq disturbed',
         \A j \in Keepers : j # k => Untouched(j),
         keeper'[k] = x => (Working(k)' => Surveyed(k)')
  PROVE  KInv'
<1>1. Advance /\ Temporaries'
  BY DEF Advance, KInv, Temporaries
<1>2. Arrivals
  BY FS_Subset DEF Arrivals, KInv, Bucket
<1>3. /\ keeper' \in [Keepers -> KeeperRecord] /\ keeper'[k] = x
      /\ \A j \in Keepers : j # k => keeper'[j] = keeper[j]
  BY DEF KInv
<1>4. ASSUME NEW j \in Keepers, j # k PROVE Working(j)' => Surveyed(j)'
  BY <1>1, <1>2, <1>3, <1>4, SurveyedStays DEF KInv
<1> QED
  BY <1>1, <1>2, <1>3, <1>4, FullByName DEF KInv

-----------------------------------------------------------------------------
(* Requests that do not remove full backups *)

LEMMA QuietBucket ==
  ASSUME KInv, stored' \subseteq stored
  PROVE  Arrivals
BY FS_Subset DEF Arrivals, KInv, Bucket

LEMMA QuietStep ==
  ASSUME KInv, stored' = stored, keeper' = keeper, disturbed' = disturbed, Advance, Temporaries'
  PROVE  KInv'
<1>1. Arrivals
  BY QuietBucket
<1>2. \A k \in Keepers : Untouched(k)
  BY DEF Untouched, FullBackups
<1> QED
  BY <1>1, <1>2, OthersKeep

LEMMA JobAdvances ==
  ASSUME IInv, KInv, NEW e \in Exports, NEW x, job' = [job EXCEPT ![e] = x], job[e].pc \in Early,
         complete' = complete
  PROVE  Advance /\ Temporaries'
<1>1. \A f \in Exports : f # e => job'[f] = job[f]
  BY DEF IInv, ExportsFit, JobShape
<1> QED
  BY <1>1 DEF Advance, KInv, Temporaries

LEMMA SettleAdvances ==
  ASSUME IInv, KInv, NEW e \in Exports, NEW pc \in {"failed", "answered", "unchanged"},
         Settle(e, pc), complete' = complete
  PROVE  Advance /\ Temporaries'
<1> DEFINE x == [job[e] EXCEPT !.pc = pc, !.latest = {}]
<1>1. job[e] = [pc |-> job[e].pc, holds |-> job[e].holds,
                since |-> job[e].since, latest |-> job[e].latest, missed |-> job[e].missed]
  BY DEF IInv, ExportsFit, JobShape
<1>2. x = [pc |-> pc, holds |-> job[e].holds, since |-> job[e].since, latest |-> {},
           missed |-> job[e].missed]
  BY <1>1, TwoFields, Zenon
<1>3. \A f \in Exports : job'[f] \in {x, job[f]}
  BY DEF Settle
<1> HIDE DEF x
<1>4. \A f \in Exports : job'[f].pc \in {pc, job[f].pc}
  BY <1>2, <1>3
<1> QED
  BY <1>4 DEF Advance, Early, KInv, Temporaries

LEMMA JobKeeps ==
  ASSUME IInv, KInv, NEW e \in Exports,
         \/ StartManual(e) \/ AbortUpload(e) \/ AnswerVerified(e) \/ CronJoins(e) \/ CronLists(e)
         \/ CronReuses(e) \/ CronExports(e)
  PROVE  KInv'
<1>1. /\ stored' = stored /\ keeper' = keeper /\ disturbed' = disturbed /\ complete' = complete
  BY DEF StartManual, AbortUpload, AnswerVerified, CronJoins, CronLists, CronReuses, CronExports,
    uploads
<1>2. CASE StartManual(e) \/ CronJoins(e) \/ CronLists(e) \/ CronExports(e)
  <2>1. job[e].pc \in Early
    BY <1>2 DEF Early, StartManual, CronJoins, CronLists, CronExports
  <2>2. \E x : job' = [job EXCEPT ![e] = x]
    BY <1>2 DEF StartManual, CronJoins, CronLists, CronExports, Begin
  <2> QED
    BY <1>1, <2>1, <2>2, JobAdvances, QuietStep
<1>3. CASE AbortUpload(e) \/ AnswerVerified(e) \/ CronReuses(e)
  <2>1. \E pc \in {"failed", "answered", "unchanged"} : Settle(e, pc)
    BY <1>3 DEF AbortUpload, AnswerVerified, CronReuses
  <2> QED
    BY <1>1, <2>1, SettleAdvances, QuietStep
<1> QED
  BY <1>2, <1>3

LEMMA FinishUploadKeeps ==
  ASSUME IInv, KInv, NEW e \in Exports, FinishUpload(e)
  PROVE  KInv'
<1>1. PICK closed \in BOOLEAN, missed \in SUBSET (job[e].holds \cap db) :
        stored' = stored \cup {Formal(e, Purpose(e), closed, (job[e].holds \cap db) \ missed)}
  BY DEF FinishUpload
<1> DEFINE o == Formal(e, Purpose(e), closed, (job[e].holds \cap db) \ missed)
<1>2. keeper' = keeper /\ disturbed' = disturbed /\ complete' = complete /\ job[e].pc = "reading"
  BY DEF FinishUpload, uploads
<1>3. o.key = e /\ IsFull(o)
  BY DEF Formal, IsFull
<1>4. stored' = stored \cup {o}
  BY <1>1
<1> HIDE DEF o
<1>5. e \in Names /\ e \in FullNames /\ ~ Past(e)
  BY <1>2 DEF Names, FullNames, Past, Early
<1>6. Arrivals
  <2>1. IsFiniteSet(stored')
    BY <1>4, FS_AddElement DEF KInv, Bucket
  <2> QED
    BY <2>1, <1>3, <1>4, <1>5 DEF Arrivals
<1>7. Advance /\ Temporaries'
  <2>1. \E x : job' = [job EXCEPT ![e] = x]
    BY DEF FinishUpload
  <2>2. job[e].pc \in Early
    BY <1>2 DEF Early
  <2> QED
    BY <1>2, <2>1, <2>2, JobAdvances
<1>8. \A k \in Keepers : Untouched(k)
  BY <1>4 DEF Untouched, FullBackups
<1> QED
  BY <1>2, <1>6, <1>7, <1>8, OthersKeep

LEMMA WithdrawKeeps ==
  ASSUME IInv, KInv, NEW e \in Exports, Withdraw(e)
  PROVE  KInv'
<1>1. /\ stored' \subseteq stored /\ keeper' = keeper /\ complete' = complete /\ Settle(e, "failed")
      /\ Disturb(Nobody)
  BY DEF Withdraw, Without, uploads
<1>2. Advance /\ Temporaries'
  BY <1>1, SettleAdvances
<1>3. Arrivals
  BY <1>1, QuietBucket
<1>4. disturbed \subseteq disturbed' /\ \A k \in Keepers : Untouched(k)
  BY <1>1, StoreAssumption DEF Disturb, Untouched, Working
<1> QED
  BY <1>1, <1>2, <1>3, <1>4, OthersKeep

(* Objects that tokens stand for are not full backups.                     *)
LEMMA TokensAreNotFull ==
  \A t \in Tokens : t \in Names /\ t \notin FullNames
<1>1. \A o \in {b \in Old : IsFull(b)} : o \in Old
  OBVIOUS
<1> QED
  BY <1>1, NamesAreDistinct DEF Names, FullNames

LEMMA ClientPutKeeps ==
  ASSUME IInv, KInv, NEW t \in Tokens, ClientPut(t)
  PROVE  KInv'
<1>1. PICK closed \in BOOLEAN, content \in {"full", "season"} :
        stored' = stored \cup {[Formal(t, "uploaded", closed, {})
                                EXCEPT !.dir = "uploads", !.content = content]}
  BY Zenon DEF ClientPut
<1> DEFINE o == [Formal(t, "uploaded", closed, {}) EXCEPT !.dir = "uploads", !.content = content]
<1>2. UNCHANGED <<keeper, disturbed, complete, job>>
  BY DEF ClientPut
<1>3. o.key = t /\ ~ IsFull(o)
  BY DEF Formal, IsFull
<1>4. stored' = stored \cup {o}
  BY <1>1
<1> HIDE DEF o
<1>5. Arrivals
  <2>1. IsFiniteSet(stored')
    BY <1>4, FS_AddElement DEF KInv, Bucket
  <2> QED
    BY <2>1, <1>3, <1>4, TokensAreNotFull DEF Arrivals
<1>6. Advance /\ Temporaries'
  BY <1>2 DEF Advance, KInv, Temporaries
<1>7. \A k \in Keepers : Untouched(k)
  BY <1>4 DEF Untouched, FullBackups
<1> QED
  BY <1>2, <1>5, <1>6, <1>7, OthersKeep

LEMMA CompleteAdvances ==
  ASSUME IInv, KInv, NEW c \in Completes, NEW x, complete' = [complete EXCEPT ![c] = x], job' = job,
         x.pc \in {"idle", "copy"} => complete[c].pc \in {"idle", "copy"},
         x.pc \in {"copy", "copied"} => x.token \in Tokens
  PROVE  Advance /\ Temporaries'
<1>1. complete'[c] = x /\ \A d \in Completes : d # c => complete'[d] = complete[d]
  BY DEF IInv, UploadsFit, UploadShapes
<1> QED
  BY <1>1 DEF Advance, KInv, Temporaries

(* What goes by the name of a token is not a full backup.                  *)
LEMMA TokensGo ==
  ASSUME KInv, NEW t \in Tokens, stored' \in {stored, Without(t)}
  PROVE  Arrivals /\ \A k \in Keepers : Untouched(k)
<1>1. stored' \subseteq stored
  BY DEF Without
<1>2. FullBackups(stored) \subseteq stored'
  BY TokensAreNotFull DEF FullBackups, Without, KInv, Bucket
<1> QED
  BY <1>1, <1>2, QuietBucket DEF Untouched

LEMMA AnswersKeep ==
  ASSUME IInv, KInv, NEW c \in Completes, NEW t \in Tokens,
         RefuseUpload(c, t) \/ UploadUnavailable(c, t) \/ AcceptUpload(c, t)
  PROVE  KInv'
<1>1. /\ keeper' = keeper /\ disturbed' = disturbed /\ job' = job /\ complete[c].pc = "idle"
      /\ stored' \in {stored, Without(t)}
  BY DEF RefuseUpload, UploadUnavailable, AcceptUpload, Without
<1>2. PICK pc \in {"failed", "copy"} : complete' = [complete EXCEPT ![c] = [pc |-> pc, token |-> t]]
  BY DEF RefuseUpload, UploadUnavailable, AcceptUpload
<1>3. Advance /\ Temporaries'
  BY <1>1, <1>2, CompleteAdvances
<1> QED
  BY <1>1, <1>3, TokensGo, OthersKeep

LEMMA CompletePc ==
  ASSUME IInv, NEW c \in Completes, NEW pc, complete' = [complete EXCEPT ![c].pc = pc]
  PROVE  complete' = [complete EXCEPT ![c] = [pc |-> pc, token |-> complete[c].token]]
<1>1. complete[c] = [pc |-> complete[c].pc, token |-> complete[c].token]
  BY DEF IInv, UploadsFit, UploadShapes
<1>2. [complete[c] EXCEPT !.pc = pc] = [pc |-> pc, token |-> complete[c].token]
  BY <1>1, CompleteFields, Zenon
<1> QED
  BY <1>2

LEMMA FinishUploadOfKeeps ==
  ASSUME IInv, KInv, NEW c \in Completes, FinishUploadOf(c)
  PROVE  KInv'
<1>1. /\ keeper' = keeper /\ disturbed' = disturbed /\ job' = job /\ complete[c].pc = "copied"
      /\ stored' \in {stored, Without(complete[c].token)}
  BY DEF FinishUploadOf, Without
<1>2. PICK pc \in {"answered", "failed"} : complete' = [complete EXCEPT ![c].pc = pc]
  BY DEF FinishUploadOf
<1>3. Advance /\ Temporaries'
  <2> DEFINE x == [pc |-> pc, token |-> complete[c].token]
  <2>1. complete' = [complete EXCEPT ![c] = x]
    BY <1>2, CompletePc
  <2>2. x.pc = pc
    OBVIOUS
  <2> HIDE DEF x
  <2> QED
    BY <1>1, <2>1, <2>2, CompleteAdvances
<1>4. complete[c].token \in Tokens
  BY <1>1 DEF KInv, Temporaries
<1> QED
  BY <1>1, <1>3, <1>4, TokensGo, OthersKeep

LEMMA CopyUploadKeeps ==
  ASSUME IInv, KInv, NEW c \in Completes, CopyUpload(c)
  PROVE  KInv'
<1> DEFINE source == {b \in stored : b.key = complete[c].token}
           copyOf(b) == [Formal(c, "uploaded", b.closed, b.holds) EXCEPT !.content = b.content]
<1>1. /\ keeper' = keeper /\ disturbed' = disturbed /\ job' = job /\ complete[c].pc = "copy"
      /\ stored' = stored \cup {copyOf(b) : b \in source}
  BY DEF CopyUpload
<1>2. \A b : copyOf(b).key = c /\ IsFull(copyOf(b))
  BY DEF Formal, IsFull
<1>3. PICK pc \in {"copied", "failed"} : complete' = [complete EXCEPT ![c].pc = pc]
  BY DEF CopyUpload
<1> HIDE DEF copyOf
<1>4. Advance /\ Temporaries'
  <2>1. complete[c].token \in Tokens
    BY <1>1 DEF KInv, Temporaries
  <2> QED
    BY <1>1, <1>3, <2>1, CompletePc, CompleteAdvances
<1>5. IsFiniteSet(stored')
  <2>1. IsFiniteSet(source)
    BY FS_Subset DEF KInv, Bucket
  <2> HIDE DEF source
  <2>2. IsFiniteSet({copyOf(b) : b \in source})
    <3> DEFINE f == [b \in source |-> copyOf(b)]
    <3>1. f \in Surjection(source, {copyOf(b) : b \in source})
      BY DEF Surjection
    <3> HIDE DEF f
    <3> QED
      BY <2>1, <3>1, FS_Surjection
  <2> QED
    BY <1>1, <2>2, FS_Union DEF KInv, Bucket, source
<1>6. c \in Names /\ c \in FullNames /\ ~ Past(c)
  BY <1>1 DEF Names, FullNames, Past
<1>7. Arrivals
  BY <1>1, <1>2, <1>5, <1>6 DEF Arrivals
<1>8. \A k \in Keepers : Untouched(k)
  BY <1>1 DEF Untouched, FullBackups
<1> QED
  BY <1>1, <1>4, <1>7, <1>8, OthersKeep

LEMMA UploadsKeep == ASSUME IInv, KInv, UploadNext PROVE KInv'
<1>1. ASSUME NEW t \in Tokens, InitUpload(t) PROVE KInv'
  BY <1>1, QuietStep DEF InitUpload, Advance, KInv, Temporaries
<1> QED
  BY <1>1, ClientPutKeeps, AnswersKeep, CopyUploadKeeps, FinishUploadOfKeeps DEF UploadNext

LEMMA RestoreRequestKeeps ==
  ASSUME IInv, KInv, NEW r \in Restores, RestoreNext(r)
  PROVE  KInv'
<1>1. /\ stored' = stored /\ keeper' = keeper /\ disturbed' = disturbed /\ complete' = complete
  BY DEF RestoreNext, ReadBackup, SnapshotFails, BeginTransaction, Commit, Rollback, uploads
<1>2. job' = job \/ (restore[r].pc = "idle" /\ \E x : job' = [job EXCEPT ![r] = x])
  BY DEF RestoreNext, ReadBackup, SnapshotFails, BeginTransaction, Commit, Rollback, Begin
<1>3. CASE job' = job
  BY <1>1, <1>3, QuietStep DEF Advance, KInv, Temporaries
<1>4. CASE restore[r].pc = "idle" /\ \E x : job' = [job EXCEPT ![r] = x]
  <2>1. job[r].pc \in Early /\ r \in Exports
    BY <1>4 DEF IInv, RestoresFit, RestoreFacts, Early, Exports
  <2> QED
    BY <1>1, <1>4, <2>1, JobAdvances, QuietStep
<1> QED
  BY <1>2, <1>3, <1>4

LEMMA WorldKeeps ==
  ASSUME KInv, DayPasses \/ UNCHANGED vars \/ \E c \in Changes : Change(c)
  PROVE  KInv'
<1>1. UNCHANGED <<stored, keeper, disturbed, job, complete>>
  BY DEF DayPasses, Change, vars, uploads
<1> QED
  BY <1>1, QuietStep DEF Advance, KInv, Temporaries

-----------------------------------------------------------------------------
(* Requests that remove full backups *)

LEMMA SequenceOf ==
  ASSUME NEW n \in Nat, NEW R, NEW s \in [1..n -> R]
  PROVE  s \in Seq(R) /\ Len(s) = n
OBVIOUS

(* A listing, and what is taken out of it, is a sequence of objects.       *)
LEMMA ListingIsSequence ==
  ASSUME NEW S, IsFiniteSet(S), \A b \in S : b.time \in Int
  PROVE  Listing(S) \in Seq(S) /\ IsListing(Listing(S), S)
<1>1. IsListing(Listing(S), S)
  BY ListingFacts
<1>2. Listing(S) = [n \in DOMAIN Listing(S) |-> Listing(S)[n]]
  BY DEF Listing
<1> DEFINE list == Listing(S)
           n == Cardinality(S)
<1> HIDE DEF list, n
<1>3. DOMAIN list = 1..n /\ n \in Nat /\ \A i \in 1..n : list[i] \in S
  BY <1>1 DEF IsListing, list, n
<1>4. list \in [1..n -> S]
  BY <1>2, <1>3 DEF list
<1> QED
  BY <1>1, <1>3, <1>4, SequenceOf DEF list

LEMMA EntriesSequence ==
  ASSUME NEW S, NEW list \in Seq(S), NEW R, NEW places \in SUBSET (DOMAIN list),
         \A i \in places : list[i] \in R
  PROVE  Entries(list, places) \in Seq(R)
<1>1. DOMAIN list = 1..Len(list) /\ Len(list) \in Nat
  OBVIOUS
<1>2. IsFiniteSet(places) /\ places \subseteq Nat
  <2>1. IsFiniteSet(1..Len(list)) /\ places \in SUBSET (1..Len(list))
    BY <1>1, FS_Interval
  <2>2. \A i \in 1..Len(list) : i \in Nat
    OBVIOUS
  <2>3. IsFiniteSet(places)
    BY <2>1, FS_Subset
  <2> QED
    BY <2>1, <2>2, <2>3
<1> DEFINE s == Entries(list, places)
           n == Cardinality(places)
<1>3. DOMAIN s = 1..n /\ n \in Nat /\ \A i \in 1..n : s[i] \in R
  BY <1>2, EntriesOfList
<1>4. s = [i \in 1..n |-> s[i]]
  BY DEF Entries
<1> HIDE DEF s, n
<1>5. s \in [1..n -> R]
  BY <1>3, <1>4
<1> QED
  BY <1>3, <1>5, SequenceOf DEF s

LEMMA KeysSequence ==
  ASSUME NEW S, NEW list \in Seq(S), NEW K, \A b \in S : b.key \in K
  PROVE  /\ KeySeq(list) \in Seq(K) /\ Len(KeySeq(list)) = Len(list)
         /\ \A i \in DOMAIN KeySeq(list) : \E b \in S : KeySeq(list)[i] = b.key
<1>1. DOMAIN list = 1..Len(list) /\ Len(list) \in Nat /\ \A i \in 1..Len(list) : list[i] \in S
  OBVIOUS
<1> DEFINE s == KeySeq(list)
<1>2. s \in [1..Len(list) -> K] /\ \A i \in 1..Len(list) : s[i] = list[i].key
  BY <1>1 DEF KeySeq
<1> HIDE DEF s
<1> QED
  BY <1>1, <1>2, SequenceOf DEF s

LEMMA RecordFields ==
  ASSUME NEW op \in KeeperOps, NEW todo \in Seq(FullNames), NEW plan \in Seq(Names),
         NEW valid \in SUBSET FullNames, NEW newest \in SUBSET FullNames, NEW pc \in KeeperStates
  PROVE  [pc |-> pc, op |-> op, todo |-> todo, plan |-> plan, valid |-> valid, newest |-> newest]
           \in KeeperRecord
BY DEF KeeperRecord

(* What is listed is behind its upload.                                    *)
LEMMA StoredIsPast ==
  ASSUME IInv, NEW b \in stored
  PROVE  Past(b.key)
BY DEF Past, Early, IInv, ExportsFit, ExportFacts, UploadsFit, UploadFacts

LEMMA StoredTimes ==
  ASSUME IInv
  PROVE  \A b \in stored : b.time \in Int
BY DEF IInv, Objects

LEMMA StartDeletionKeeps ==
  ASSUME IInv, KInv, NEW k \in Keepers, NEW target \in stored, StartDeletion(k, target)
  PROVE  KInv'
<1> DEFINE S == {b \in stored : b.dir = "database"}
           list == Listing(S)
           rest == Entries(list, {i \in DOMAIN list : IsFull(list[i]) /\ list[i] # target})
           x == [pc |-> "verify", op |-> "deletion", todo |-> KeySeq(rest),
                 plan |-> <<target.key>>, valid |-> {}, newest |-> {}]
<1>1. /\ target.dir = "database" /\ target \notin NewestFull(list)
      /\ keeper' = [keeper EXCEPT ![k] = x]
      /\ UNCHANGED <<stored, job, complete, disturbed>>
  BY DEF StartDeletion, uploads
<1>2. IsFiniteSet(S) /\ \A b \in S : b.time \in Int /\ b \in stored
  BY FS_Subset, StoredTimes DEF KInv, Bucket
<1> HIDE DEF S
<1>3. list \in Seq(S) /\ IsListing(list, S)
  BY <1>2, ListingIsSequence
<1> HIDE DEF list
<1>4. rest \in Seq(FullBackups(S))
  <2>1. \A i \in DOMAIN list : list[i] \in S
    BY <1>3
  <2> DEFINE places == {i \in DOMAIN list : IsFull(list[i]) /\ list[i] # target}
  <2>2. places \in SUBSET (DOMAIN list) /\ \A i \in places : list[i] \in FullBackups(S)
    BY <2>1 DEF FullBackups
  <2> HIDE DEF places
  <2>3. Entries(list, places) \in Seq(FullBackups(S))
    BY <1>3, <2>2, EntriesSequence
  <2> QED
    BY <2>3 DEF places
<1> HIDE DEF rest
<1>5. KeySeq(rest) \in Seq(FullNames)
  <2>1. \A b \in FullBackups(S) : b.key \in FullNames
    BY <1>2 DEF FullBackups, KInv, Bucket
  <2> QED
    BY <1>4, <2>1, KeysSequence
<1>6. target.key \in Names /\ Past(target.key)
  BY StoredIsPast DEF KInv, Bucket
<1>7. x \in KeeperRecord
  <2> DEFINE plan == <<target.key>>
             todo == KeySeq(rest)
  <2>1. plan \in Seq(Names) /\ todo \in Seq(FullNames)
    BY <1>5, <1>6
  <2> HIDE DEF plan, todo
  <2>a. "verify" \in KeeperStates /\ "deletion" \in KeeperOps
    BY DEF KeeperStates, KeeperOps
  <2>b. {} \in SUBSET FullNames
    OBVIOUS
  <2>2. [pc |-> "verify", op |-> "deletion", todo |-> todo, plan |-> plan, valid |-> {}, newest |-> {}]
          \in KeeperRecord
    BY <2>a, <2>b, <2>1, RecordFields, Zenon
  <2> QED
    BY <2>2 DEF plan, todo
<1>8. /\ x.op = "deletion" /\ x.plan = <<target.key>> /\ x.valid = {}
  OBVIOUS
<1> HIDE DEF x
<1>9. ASSUME keeper'[k] = x PROVE Surveyed(k)'
  <2>1. IsFiniteSet({})
    BY FS_EmptySet
  <2>2. DOMAIN keeper'[k].plan = {1} /\ keeper'[k].plan[1] = target.key /\ keeper'[k].plan # << >>
    BY <1>8, <1>9
  <2>3. Past(target.key)'
    BY <1>1, <1>6 DEF Past
  <2>4. ASSUME NEW d \in FullBackups(stored'), d.key = target.key
        PROVE  \E n \in FullBackups(stored') : Outlives(k, n, d)'
    <3>1. d = target
      BY <1>1, <2>4 DEF FullBackups, IInv, Objects
    <3>2. d \in FullBackups(S)
      BY <1>1, <2>4, <3>1 DEF FullBackups, S
    <3>3. PICK n \in NewestFull(list) : n.time >= d.time
      BY <1>2, <1>3, <3>2, NewestFullFacts
    <3>4. n \in S /\ IsFull(n) /\ n # target
      BY <1>1, <1>2, <1>3, <3>3, NewestFullFacts
    <3>5. n.key # d.key
      BY <1>2, <3>1, <3>4 DEF IInv, Objects
    <3> QED
      BY <1>1, <1>2, <1>8, <1>9, <3>3, <3>4, <3>5 DEF Outlives, FullBackups
  <2>5. Outlived(k)'
    BY <2>2, <2>4 DEF Outlived
  <2>6. (\A i \in DOMAIN keeper[k].plan : Past(keeper[k].plan[i]))'
    BY <2>2, <2>3 DEF Past
  <2> QED
    BY <1>8, <1>9, <2>1, <2>2, <2>5, <2>6 DEF Surveyed
<1>10. \A j \in Keepers : j # k => Untouched(j)
  BY <1>1 DEF Untouched, FullBackups
<1> QED
  BY <1>1, <1>7, <1>9, <1>10, KeeperMoves

LEMMA StartRetentionKeeps ==
  ASSUME IInv, KInv, NEW k \in Keepers, StartRetention(k)
  PROVE  KInv'
<1> DEFINE list == Listing(stored)
           plan == CalculateRetentionPlan(list, now).planned
           counts == \E i \in DOMAIN plan : plan[i].dir = "database"
           full == Entries(list, {i \in DOMAIN list : IsFull(list[i])})
           todo == IF counts THEN KeySeq(full) ELSE << >>
           newest == {b.key : b \in NewestFull(list)}
           x == [pc |-> "verify", op |-> "retention", todo |-> todo, plan |-> KeySeq(plan),
                 valid |-> {}, newest |-> newest]
<1>1. /\ plan # << >> /\ keeper' = [keeper EXCEPT ![k] = x]
      /\ UNCHANGED <<stored, job, complete, disturbed>>
  BY DEF StartRetention, uploads
<1>2. IsFiniteSet(stored) /\ \A b \in stored : b.time \in Int
  BY StoredTimes DEF KInv, Bucket
<1>3. list \in Seq(stored) /\ IsListing(list, stored)
  BY <1>2, ListingIsSequence
<1> HIDE DEF list
<1>4. plan \in Seq(stored)
  BY <1>3, PlanIsOfList
<1> HIDE DEF plan
<1>5. full \in Seq(FullBackups(stored))
  <2>1. \A i \in DOMAIN list : list[i] \in stored
    BY <1>3
  <2> DEFINE places == {i \in DOMAIN list : IsFull(list[i])}
  <2>2. places \in SUBSET (DOMAIN list) /\ \A i \in places : list[i] \in FullBackups(stored)
    BY <2>1 DEF FullBackups
  <2> HIDE DEF places
  <2>3. Entries(list, places) \in Seq(FullBackups(stored))
    BY <1>3, <2>2, EntriesSequence
  <2> QED
    BY <2>3 DEF places
<1> HIDE DEF full, counts
<1>6. todo \in Seq(FullNames)
  <2>1. \A b \in FullBackups(stored) : b.key \in FullNames
    BY DEF FullBackups, KInv, Bucket
  <2>2. KeySeq(full) \in Seq(FullNames)
    BY <1>5, <2>1, KeysSequence
  <2> QED
    BY <2>2
<1>7. /\ KeySeq(plan) \in Seq(Names) /\ KeySeq(plan) # << >>
      /\ \A i \in DOMAIN KeySeq(plan) : Past(KeySeq(plan)[i])
  <2>1. \A b \in stored : b.key \in Names
    BY DEF KInv, Bucket
  <2>2. /\ KeySeq(plan) \in Seq(Names) /\ Len(KeySeq(plan)) = Len(plan)
        /\ \A i \in DOMAIN KeySeq(plan) : \E b \in stored : KeySeq(plan)[i] = b.key
    BY <1>4, <2>1, KeysSequence
  <2>3. Len(plan) # 0
    BY <1>1, <1>4
  <2> DEFINE keys == KeySeq(plan)
  <2> HIDE DEF keys
  <2>4. keys # << >>
    BY <2>2, <2>3 DEF keys
  <2> QED
    BY <2>2, <2>4, StoredIsPast DEF keys
<1>8. /\ \A n \in NewestFull(list) : n \in stored /\ IsFull(n)
      /\ \A d \in FullBackups(stored) : \E n \in NewestFull(list) : n.time >= d.time
  BY <1>2, <1>3, NewestFullFacts
<1>9. newest \in SUBSET FullNames
  BY <1>8 DEF KInv, Bucket
<1>10. x \in KeeperRecord
  <2> DEFINE keys == KeySeq(plan)
  <2>1. keys \in Seq(Names)
    BY <1>7
  <2> HIDE DEF todo, newest, keys
  <2>a. "verify" \in KeeperStates /\ "retention" \in KeeperOps
    BY DEF KeeperStates, KeeperOps
  <2>b. {} \in SUBSET FullNames
    OBVIOUS
  <2>2. [pc |-> "verify", op |-> "retention", todo |-> todo, plan |-> keys, valid |-> {}, newest |-> newest]
          \in KeeperRecord
    BY <2>a, <2>b, <2>1, <1>6, <1>9, RecordFields, Zenon
  <2> QED
    BY <2>2 DEF keys
<1>11. /\ x.op = "retention" /\ x.plan = KeySeq(plan) /\ x.valid = {} /\ x.newest = newest
  OBVIOUS
<1> HIDE DEF x
<1>12. ASSUME keeper'[k] = x PROVE Surveyed(k)'
  <2>1. IsFiniteSet({})
    BY FS_EmptySet
  <2>2. ASSUME NEW d \in FullBackups(stored') PROVE \E n \in FullBackups(stored') : Outlives(k, n, d)'
    <3>1. PICK n \in NewestFull(list) : n.time >= d.time
      BY <1>1, <1>8
    <3>2. n.key \in newest /\ n \in FullBackups(stored')
      BY <1>1, <1>8, <3>1 DEF FullBackups
    <3> QED
      BY <1>11, <1>12, <3>1, <3>2 DEF Outlives
  <2>3. Outlived(k)'
    BY <2>2 DEF Outlived
  <2>4. (\A i \in DOMAIN keeper[k].plan : Past(keeper[k].plan[i]))'
    BY <1>1, <1>7, <1>11, <1>12 DEF Past
  <2> QED
    BY <1>7, <1>11, <1>12, <2>1, <2>3, <2>4 DEF Surveyed
<1>13. \A j \in Keepers : j # k => Untouched(j)
  BY <1>1 DEF Untouched, FullBackups
<1> QED
  BY <1>1, <1>10, <1>12, <1>13, KeeperMoves

LEMMA KeeperPc ==
  ASSUME NEW w \in KeeperRecord, NEW v \in KeeperStates
  PROVE  /\ [w EXCEPT !.pc = v] \in KeeperRecord
         /\ [w EXCEPT !.pc = v]
              = [pc |-> v, op |-> w.op, todo |-> w.todo, plan |-> w.plan, valid |-> w.valid,
                 newest |-> w.newest]
<1> DEFINE T == Seq(FullNames)
           P == Seq(Names)
<1>1. w \in [pc : KeeperStates, op : KeeperOps, todo : T, plan : P,
             valid : SUBSET FullNames, newest : SUBSET FullNames]
  BY DEF KeeperRecord
<1> HIDE DEF T, P
<1>3. KeeperRecord = [pc : KeeperStates, op : KeeperOps, todo : T, plan : P,
                      valid : SUBSET FullNames, newest : SUBSET FullNames]
  BY DEF KeeperRecord, T, P
<1> QED
  BY <1>1, <1>3

LEMMA KeeperTodo ==
  ASSUME NEW w \in KeeperRecord, NEW v \in Seq(FullNames)
  PROVE  /\ [w EXCEPT !.todo = v] \in KeeperRecord
         /\ [w EXCEPT !.todo = v]
              = [pc |-> w.pc, op |-> w.op, todo |-> v, plan |-> w.plan, valid |-> w.valid,
                 newest |-> w.newest]
<1> DEFINE T == Seq(FullNames)
           P == Seq(Names)
<1>1. w \in [pc : KeeperStates, op : KeeperOps, todo : T, plan : P,
             valid : SUBSET FullNames, newest : SUBSET FullNames]
  BY DEF KeeperRecord
<1>2. v \in T
  OBVIOUS
<1> HIDE DEF T, P
<1>3. KeeperRecord = [pc : KeeperStates, op : KeeperOps, todo : T, plan : P,
                      valid : SUBSET FullNames, newest : SUBSET FullNames]
  BY DEF KeeperRecord, T, P
<1> QED
  BY <1>1, <1>2, <1>3

LEMMA KeeperPlan ==
  ASSUME NEW w \in KeeperRecord, NEW v \in Seq(Names)
  PROVE  /\ [w EXCEPT !.plan = v] \in KeeperRecord
         /\ [w EXCEPT !.plan = v]
              = [pc |-> w.pc, op |-> w.op, todo |-> w.todo, plan |-> v, valid |-> w.valid,
                 newest |-> w.newest]
<1> DEFINE T == Seq(FullNames)
           P == Seq(Names)
<1>1. w \in [pc : KeeperStates, op : KeeperOps, todo : T, plan : P,
             valid : SUBSET FullNames, newest : SUBSET FullNames]
  BY DEF KeeperRecord
<1>2. v \in P
  OBVIOUS
<1> HIDE DEF T, P
<1>3. KeeperRecord = [pc : KeeperStates, op : KeeperOps, todo : T, plan : P,
                      valid : SUBSET FullNames, newest : SUBSET FullNames]
  BY DEF KeeperRecord, T, P
<1> QED
  BY <1>1, <1>2, <1>3

LEMMA KeeperValid ==
  ASSUME NEW w \in KeeperRecord, NEW v \in SUBSET FullNames
  PROVE  /\ [w EXCEPT !.valid = v] \in KeeperRecord
         /\ [w EXCEPT !.valid = v]
              = [pc |-> w.pc, op |-> w.op, todo |-> w.todo, plan |-> w.plan, valid |-> v,
                 newest |-> w.newest]
<1> DEFINE T == Seq(FullNames)
           P == Seq(Names)
<1>1. w \in [pc : KeeperStates, op : KeeperOps, todo : T, plan : P,
             valid : SUBSET FullNames, newest : SUBSET FullNames]
  BY DEF KeeperRecord
<1> HIDE DEF T, P
<1>3. KeeperRecord = [pc : KeeperStates, op : KeeperOps, todo : T, plan : P,
                      valid : SUBSET FullNames, newest : SUBSET FullNames]
  BY DEF KeeperRecord, T, P
<1> QED
  BY <1>1, <1>3

LEMMA IdleRecord ==
  /\ IdleKeeper \in KeeperRecord /\ IdleKeeper.pc = "idle"
  /\ [IdleKeeper EXCEPT !.pc = "done"] \in KeeperRecord
  /\ [IdleKeeper EXCEPT !.pc = "done"].pc = "done"
<1> DEFINE none == << >>
<1>1. none \in Seq(FullNames) /\ none \in Seq(Names)
  OBVIOUS
<1>2. {} \in SUBSET FullNames
  OBVIOUS
<1>3. "idle" \in KeeperStates /\ "done" \in KeeperStates /\ "none" \in KeeperOps
  BY DEF KeeperStates, KeeperOps
<1>4. IdleKeeper = [pc |-> "idle", op |-> "none", todo |-> none, plan |-> none, valid |-> {},
                    newest |-> {}]
  BY DEF IdleKeeper
<1> HIDE DEF none
<1>5. IdleKeeper \in KeeperRecord
  BY <1>1, <1>2, <1>3, <1>4, RecordFields, Zenon
<1>6. /\ [IdleKeeper EXCEPT !.pc = "done"] \in KeeperRecord
      /\ [IdleKeeper EXCEPT !.pc = "done"] =
           [pc |-> "done", op |-> IdleKeeper.op, todo |-> IdleKeeper.todo, plan |-> IdleKeeper.plan,
            valid |-> IdleKeeper.valid, newest |-> IdleKeeper.newest]
  BY <1>3, <1>5, KeeperPc
<1> QED
  BY <1>4, <1>5, <1>6

(* A keeper that ends, or reads one backup more.                           *)
LEMMA VerifyingKeeps ==
  ASSUME IInv, KInv, NEW k \in Keepers, VerifyNext(k) \/ VerifyUnavailable(k)
  PROVE  KInv'
<1> DEFINE w == keeper[k]
<1>1. UNCHANGED <<stored, job, complete, disturbed>> /\ w.pc = "verify"
  BY DEF VerifyNext, VerifyUnavailable, uploads
<1>2. w \in KeeperRecord /\ Surveyed(k) /\ DOMAIN keeper = Keepers
  BY <1>1 DEF KInv, Working
<1>3. w.todo \in Seq(FullNames) /\ w.plan \in Seq(Names) /\ w.valid \in SUBSET FullNames
  BY <1>2 DEF KeeperRecord
<1>4. \A j \in Keepers : j # k => Untouched(j)
  BY <1>1 DEF Untouched, FullBackups
<1>5. ASSUME NEW x \in KeeperRecord, keeper' = [keeper EXCEPT ![k] = x],
             x.pc \in {"verify", "delete"} =>
               /\ x.op = w.op /\ x.plan = w.plan /\ x.newest = w.newest
               /\ IsFiniteSet(x.valid)
               /\ \A key \in x.valid : key \in w.valid \/ Verifies(key)
      PROVE  KInv'
  <2>1. ASSUME keeper'[k] = x, Working(k)' PROVE Surveyed(k)'
    <3>1. /\ x.op = w.op /\ x.plan = w.plan /\ x.newest = w.newest
          /\ IsFiniteSet(x.valid)
          /\ \A key \in x.valid : key \in w.valid \/ Verifies(key)
      BY <1>5, <2>1 DEF Working
    <3>2. (\A i \in DOMAIN keeper[k].plan : Past(keeper[k].plan[i]))'
      BY <1>1, <1>2, <2>1, <3>1 DEF Past, Surveyed
    <3>3. k \notin disturbed' => Outlived(k)'
      BY <1>1, <1>2, <2>1, <3>1 DEF Outlived, Outlives, Surveyed
    <3>4. k \notin disturbed' => (\A key \in keeper[k].valid : Verifies(key))'
      BY <1>1, <1>2, <2>1, <3>1 DEF Verifies, Surveyed
    <3> QED
      BY <1>2, <2>1, <3>1, <3>2, <3>3, <3>4 DEF Surveyed
  <2> QED
    BY <1>1, <1>4, <1>5, <2>1, KeeperMoves
<1>6. CASE VerifyNext(k) /\ w.todo = << >>
  <2> DEFINE x == [w EXCEPT !.pc = "delete"]
  <2>1. keeper' = [keeper EXCEPT ![k] = x]
    BY <1>6 DEF VerifyNext
  <2>2. "delete" \in KeeperStates
    BY DEF KeeperStates
  <2>3. x \in KeeperRecord /\ x = [pc |-> "delete", op |-> w.op, todo |-> w.todo, plan |-> w.plan,
                                   valid |-> w.valid, newest |-> w.newest]
    BY <1>2, <2>2, KeeperPc
  <2> HIDE DEF x
  <2>4. /\ x.op = w.op /\ x.plan = w.plan /\ x.newest = w.newest /\ x.valid = w.valid
    BY <2>3
  <2> QED
    BY <1>2, <1>5, <2>1, <2>3, <2>4 DEF Surveyed
<1>7. CASE VerifyNext(k) /\ w.todo # << >>
  <2> DEFINE key == Head(w.todo)
             rest == Tail(w.todo)
             valid == IF Verifies(key) THEN w.valid \cup {key} ELSE w.valid
             y == [w EXCEPT !.todo = rest]
             x == [y EXCEPT !.valid = valid]
  <2>1. key \in FullNames /\ rest \in Seq(FullNames)
    BY <1>3, <1>7
  <2>2. keeper' = [keeper EXCEPT ![k] = [w EXCEPT !.todo = rest, !.valid = valid]]
    BY <1>7 DEF VerifyNext
  <2>3. valid \in SUBSET FullNames /\ IsFiniteSet(valid)
    BY <1>2, <1>3, <2>1, FS_AddElement DEF Surveyed
  <2>4. \A v \in valid : v \in w.valid \/ Verifies(v)
    BY DEF Verifies
  <2> HIDE DEF key, rest, valid
  <2>6. y \in KeeperRecord /\ y = [pc |-> w.pc, op |-> w.op, todo |-> rest, plan |-> w.plan,
                                   valid |-> w.valid, newest |-> w.newest]
    BY <1>2, <2>1, KeeperTodo
  <2>7. [w EXCEPT !.todo = rest, !.valid = valid] = x
    BY Zenon
  <2> HIDE DEF y
  <2>8. x \in KeeperRecord /\ x = [pc |-> y.pc, op |-> y.op, todo |-> y.todo, plan |-> y.plan,
                                   valid |-> valid, newest |-> y.newest]
    BY <2>3, <2>6, KeeperValid
  <2>9. keeper' = [keeper EXCEPT ![k] = x]
    BY <2>2, <2>7
  <2> HIDE DEF x
  <2>10. /\ x.op = w.op /\ x.plan = w.plan /\ x.newest = w.newest /\ x.valid = valid
    BY <2>6, <2>8
  <2> QED
    BY <1>5, <2>3, <2>4, <2>8, <2>9, <2>10
<1>8. CASE VerifyUnavailable(k) /\ keeper' = [keeper EXCEPT ![k] = [IdleKeeper EXCEPT !.pc = "done"]]
  <2> DEFINE x == [IdleKeeper EXCEPT !.pc = "done"]
  <2>1. x \in KeeperRecord /\ x.pc = "done" /\ keeper' = [keeper EXCEPT ![k] = x]
    BY <1>8, IdleRecord
  <2> HIDE DEF x
  <2> QED
    BY <1>5, <2>1
<1>9. CASE VerifyUnavailable(k) /\ keeper' = [keeper EXCEPT ![k].todo = Tail(@)]
  <2> DEFINE rest == Tail(w.todo)
             x == [w EXCEPT !.todo = rest]
  <2>1. rest \in Seq(FullNames)
    BY <1>3, <1>9 DEF VerifyUnavailable
  <2>2. keeper' = [keeper EXCEPT ![k] = x]
    BY <1>9
  <2> HIDE DEF rest
  <2>4. x \in KeeperRecord /\ x = [pc |-> w.pc, op |-> w.op, todo |-> rest, plan |-> w.plan,
                                   valid |-> w.valid, newest |-> w.newest]
    BY <1>2, <2>1, KeeperTodo
  <2> HIDE DEF x
  <2>5. /\ x.op = w.op /\ x.plan = w.plan /\ x.newest = w.newest /\ x.valid = w.valid
    BY <2>4
  <2> QED
    BY <1>2, <1>5, <2>2, <2>4, <2>5 DEF Surveyed
<1> QED
  BY <1>6, <1>7, <1>8, <1>9 DEF VerifyUnavailable

(* What comes after a backup of the plan: the next, or the end.            *)
LEMMA ProceedFacts ==
  ASSUME KInv, NEW k \in Keepers, keeper[k].pc = "delete"
  PROVE  /\ Proceed(k) \in KeeperRecord
         /\ \/ Proceed(k).pc = "done"
            \/ /\ Proceed(k).pc = "delete" /\ Proceed(k).op = keeper[k].op
               /\ keeper[k].op # "deletion"
               /\ Proceed(k).valid = keeper[k].valid /\ Proceed(k).newest = keeper[k].newest
               /\ Proceed(k).plan # << >>
               /\ \A i \in DOMAIN Proceed(k).plan : \E j \in DOMAIN keeper[k].plan :
                    Proceed(k).plan[i] = keeper[k].plan[j]
<1> DEFINE w == keeper[k]
           rest == Tail(w.plan)
           x == [w EXCEPT !.plan = rest]
<1>1. w \in KeeperRecord /\ Surveyed(k)
  BY DEF KInv, Working
<1>2. w.plan \in Seq(Names) /\ w.plan # << >>
  BY <1>1 DEF KeeperRecord, Surveyed
<1>3. CASE w.op = "deletion" \/ Len(w.plan) = 1
  <2>1. Proceed(k) = [IdleKeeper EXCEPT !.pc = "done"]
    BY <1>3 DEF Proceed
  <2> QED
    BY <2>1, IdleRecord
<1>4. CASE ~ (w.op = "deletion" \/ Len(w.plan) = 1)
  <2>1. Proceed(k) = x
    BY <1>4 DEF Proceed
  <2>2. /\ rest \in Seq(Names) /\ rest # << >>
        /\ \A i \in DOMAIN rest : \E j \in DOMAIN w.plan : rest[i] = w.plan[j]
    <3> DEFINE plan == w.plan
    <3>1. plan \in Seq(Names) /\ plan # << >> /\ Len(plan) # 1
      BY <1>2, <1>4
    <3> HIDE DEF plan
    <3>a. Len(plan) \in Nat /\ Len(plan) # 0
      BY <3>1
    <3>b. Tail(plan) \in Seq(Names)
      BY <3>1
    <3>2. Len(plan) \in Nat /\ Len(plan) >= 2 /\ Tail(plan) \in Seq(Names)
      <4> DEFINE n == Len(plan)
      <4>1. n \in Nat /\ n # 0 /\ n # 1
        BY <3>1, <3>a
      <4> HIDE DEF n
      <4>2. n >= 2
        BY <4>1
      <4> QED
        BY <4>2, <3>a, <3>b DEF n
    <3>3. Len(Tail(plan)) = Len(plan) - 1 /\ \A i \in 1..Len(Tail(plan)) : Tail(plan)[i] = plan[i + 1]
      BY <3>1, <3>2
    <3>4. Tail(plan) # << >>
      <4>1. Len(Tail(plan)) # 0
        BY <3>2, <3>3
      <4>2. Len(<< >>) = 0
        OBVIOUS
      <4> QED
        BY <4>1, <4>2, Zenon
    <3>5. DOMAIN Tail(plan) = 1..Len(Tail(plan)) /\ DOMAIN plan = 1..Len(plan)
      BY <3>1, <3>2
    <3>6. \A i \in DOMAIN Tail(plan) : i + 1 \in DOMAIN plan /\ Tail(plan)[i] = plan[i + 1]
      BY <3>2, <3>3, <3>5
    <3> QED
      BY <3>2, <3>4, <3>6 DEF plan
  <2> HIDE DEF rest
  <2>4. x \in KeeperRecord /\ x = [pc |-> w.pc, op |-> w.op, todo |-> w.todo, plan |-> rest,
                                   valid |-> w.valid, newest |-> w.newest]
    BY <1>1, <2>2, KeeperPlan
  <2> HIDE DEF x
  <2>5. x.pc = w.pc /\ x.op = w.op /\ x.valid = w.valid /\ x.newest = w.newest /\ x.plan = rest
    BY <2>4
  <2> QED
    BY <1>4, <2>1, <2>2, <2>4, <2>5
<1> QED
  BY <1>3, <1>4

(* The request goes on, with or without the object.                        *)
LEMMA ProceedKeeps ==
  ASSUME KInv, NEW k \in Keepers, keeper[k].pc = "delete",
         NEW x \in KeeperRecord, keeper' = [keeper EXCEPT ![k] = x],
         \/ x.pc = "done"
         \/ /\ x.pc = "delete" /\ x.op = keeper[k].op /\ x.newest = keeper[k].newest
            /\ x.plan # << >>
            /\ \A i \in DOMAIN x.plan : \E j \in DOMAIN keeper[k].plan : x.plan[i] = keeper[k].plan[j]
            /\ x.valid \subseteq keeper[k].valid
            /\ k \notin disturbed' =>
                 /\ \A key \in x.valid : Verifies(key)'
                 /\ \A n \in FullBackups(stored), d \in FullBackups(stored) :
                      Outlives(k, n, d) => n \in stored',
         UNCHANGED <<job, complete>>, stored' \subseteq stored, disturbed \subseteq disturbed',
         \A j \in Keepers : j # k => Untouched(j)
  PROVE  KInv'
<1>1. Surveyed(k)
  BY DEF KInv, Working
<1>2. ASSUME keeper'[k] = x, Working(k)' PROVE Surveyed(k)'
  <2>1. /\ x.op = keeper[k].op /\ x.newest = keeper[k].newest /\ x.plan # << >>
        /\ \A i \in DOMAIN x.plan : \E j \in DOMAIN keeper[k].plan : x.plan[i] = keeper[k].plan[j]
        /\ x.valid \subseteq keeper[k].valid
        /\ k \notin disturbed' =>
             /\ \A key \in x.valid : Verifies(key)'
             /\ \A n \in FullBackups(stored), d \in FullBackups(stored) :
                  Outlives(k, n, d) => n \in stored'
    BY <1>2 DEF Working
  <2>2. IsFiniteSet(x.valid)
    BY <1>1, <2>1, FS_Subset DEF Surveyed
  <2>3. (\A i \in DOMAIN keeper[k].plan : Past(keeper[k].plan[i]))'
    BY <1>1, <1>2, <2>1 DEF Past, Surveyed
  <2>4. ASSUME k \notin disturbed', NEW i \in DOMAIN x.plan, NEW d \in FullBackups(stored'),
               d.key = x.plan[i]
        PROVE  \E n \in FullBackups(stored') : Outlives(k, n, d)'
    <3>1. d \in FullBackups(stored) /\ k \notin disturbed
      BY <2>4 DEF FullBackups
    <3>2. PICK j \in DOMAIN keeper[k].plan : x.plan[i] = keeper[k].plan[j]
      BY <2>1, <2>4
    <3>3. PICK n \in FullBackups(stored) : Outlives(k, n, d)
      BY <1>1, <2>4, <3>1, <3>2 DEF Surveyed, Outlived
    <3>4. n \in FullBackups(stored')
      BY <2>1, <2>4, <3>1, <3>3 DEF FullBackups
    <3> QED
      BY <1>2, <2>1, <3>3, <3>4 DEF Outlives
  <2>5. k \notin disturbed' => Outlived(k)'
    BY <1>2, <2>4 DEF Outlived
  <2> QED
    BY <1>2, <2>1, <2>2, <2>3, <2>5 DEF Surveyed
<1> QED
  BY <1>2, KeeperMoves

LEMMA SkipKeeps ==
  ASSUME KInv, NEW k \in Keepers, Skip(k)
  PROVE  KInv'
<1> DEFINE x == Proceed(k)
<1>1. /\ keeper[k].pc = "delete" /\ keeper' = [keeper EXCEPT ![k] = x]
      /\ UNCHANGED <<stored, job, complete, disturbed>>
  BY DEF Skip, uploads
<1>2. \A j \in Keepers : j # k => Untouched(j)
  BY <1>1 DEF Untouched, FullBackups
<1>3. k \notin disturbed => \A key \in keeper[k].valid : Verifies(key)
  BY <1>1 DEF KInv, Working, Surveyed
<1>4. \A key : Verifies(key)' <=> Verifies(key)
  BY <1>1 DEF Verifies
<1>5. \A n \in FullBackups(stored) : n \in stored'
  BY <1>1 DEF FullBackups
<1>6. /\ x \in KeeperRecord
      /\ \/ x.pc = "done"
         \/ /\ x.pc = "delete" /\ x.op = keeper[k].op
            /\ x.valid = keeper[k].valid /\ x.newest = keeper[k].newest
            /\ x.plan # << >>
            /\ \A i \in DOMAIN x.plan : \E j \in DOMAIN keeper[k].plan : x.plan[i] = keeper[k].plan[j]
  BY <1>1, ProceedFacts
<1> HIDE DEF x
<1>7. stored' \subseteq stored /\ disturbed \subseteq disturbed'
  BY <1>1
<1> QED
  BY <1>1, <1>2, <1>3, <1>4, <1>5, <1>6, <1>7, ProceedKeeps

(* Whoever else has counted the full backup that goes is disturbed.        *)
LEMMA DeleteFrame ==
  ASSUME KInv, NEW k \in Keepers, Delete(k) \/ DeleteUnanswered(k)
  PROVE  /\ UNCHANGED <<job, complete>> /\ stored' = Without(Doomed(k)) /\ stored' \subseteq stored
         /\ disturbed \subseteq disturbed' /\ \A j \in Keepers : j # k => Untouched(j)
         /\ keeper[k].pc = "delete" /\ MayDelete(k)
<1>1. /\ UNCHANGED <<job, complete>> /\ stored' = Without(Doomed(k)) /\ keeper[k].pc = "delete"
      /\ MayDelete(k)
  BY DEF Delete, DeleteUnanswered, uploads
<1>2. CASE Delete(k)
  BY <1>1, <1>2 DEF Delete, Disturb, Untouched, Working, Without
<1>3. CASE DeleteUnanswered(k)
  BY <1>1, <1>3 DEF DeleteUnanswered, Untouched, Working, Without
<1> QED
  BY <1>1, <1>2, <1>3

LEMMA DeleteUnansweredKeeps ==
  ASSUME KInv, NEW k \in Keepers, DeleteUnanswered(k)
  PROVE  KInv'
<1> DEFINE x == Proceed(k)
<1>1. keeper' = [keeper EXCEPT ![k] = x] /\ k \in disturbed'
  BY DEF DeleteUnanswered
<1>2. /\ UNCHANGED <<job, complete>> /\ stored' \subseteq stored /\ keeper[k].pc = "delete"
      /\ disturbed \subseteq disturbed' /\ \A j \in Keepers : j # k => Untouched(j)
  BY DeleteFrame
<1>3. /\ x \in KeeperRecord
      /\ \/ x.pc = "done"
         \/ /\ x.pc = "delete" /\ x.op = keeper[k].op
            /\ x.valid = keeper[k].valid /\ x.newest = keeper[k].newest
            /\ x.plan # << >>
            /\ \A i \in DOMAIN x.plan : \E j \in DOMAIN keeper[k].plan : x.plan[i] = keeper[k].plan[j]
  BY <1>2, ProceedFacts
<1> HIDE DEF x
<1> QED
  BY <1>1, <1>2, <1>3, ProceedKeeps

LEMMA DeletingKeeps ==
  ASSUME KInv, NEW k \in Keepers, Delete(k)
  PROVE  KInv'
<1> DEFINE p == Proceed(k)
           valid == keeper[k].valid \ {Doomed(k)}
           q == [p EXCEPT !.valid = valid]
           x == IF p.pc = "done" THEN p ELSE [p EXCEPT !.valid = @ \ {Doomed(k)}]
<1>1. keeper' = [keeper EXCEPT ![k] = x]
  BY DEF Delete
<1>2. /\ UNCHANGED <<job, complete>> /\ stored' \subseteq stored /\ keeper[k].pc = "delete"
      /\ disturbed \subseteq disturbed' /\ \A j \in Keepers : j # k => Untouched(j)
      /\ stored' = Without(Doomed(k)) /\ MayDelete(k)
  BY DeleteFrame
<1>3. /\ p \in KeeperRecord
      /\ \/ p.pc = "done"
         \/ /\ p.pc = "delete" /\ p.op = keeper[k].op /\ keeper[k].op # "deletion"
            /\ p.valid = keeper[k].valid /\ p.newest = keeper[k].newest
            /\ p.plan # << >>
            /\ \A i \in DOMAIN p.plan : \E j \in DOMAIN keeper[k].plan : p.plan[i] = keeper[k].plan[j]
  BY <1>2, ProceedFacts
<1> HIDE DEF p
<1>4. CASE p.pc = "done"
  <2>1. keeper' = [keeper EXCEPT ![k] = p]
    BY <1>1, <1>4
  <2> QED
    BY <1>2, <1>3, <1>4, <2>1, ProceedKeeps
<1>5. CASE p.pc # "done"
  <2>1. /\ p.pc = "delete" /\ p.op = keeper[k].op /\ keeper[k].op # "deletion"
        /\ p.valid = keeper[k].valid /\ p.newest = keeper[k].newest
        /\ p.plan # << >>
        /\ \A i \in DOMAIN p.plan : \E j \in DOMAIN keeper[k].plan : p.plan[i] = keeper[k].plan[j]
    BY <1>3, <1>5
  <2>2. keeper' = [keeper EXCEPT ![k] = q]
    BY <1>1, <1>5, <2>1
  <2>3. /\ q \in KeeperRecord
        /\ q = [pc |-> p.pc, op |-> p.op, todo |-> p.todo, plan |-> p.plan, valid |-> valid,
                newest |-> p.newest]
    <3>1. valid \in SUBSET FullNames
      BY <1>3, <2>1 DEF KeeperRecord
    <3> HIDE DEF valid
    <3> QED
      BY <1>3, <3>1, KeeperValid
  <2> HIDE DEF q
  <2>4. q.pc = "delete" /\ q.op = keeper[k].op /\ q.newest = keeper[k].newest /\ q.plan = p.plan
        /\ q.valid = valid
    BY <2>1, <2>3
  <2>5. ASSUME k \notin disturbed', NEW key \in valid PROVE Verifies(key)'
    <3>1. Verifies(key) /\ key # Doomed(k)
      BY <1>2, <2>5 DEF KInv, Working, Surveyed
    <3> QED
      BY <1>2, <3>1 DEF Verifies, Without
  <2>6. ASSUME NEW n \in FullBackups(stored), NEW d, Outlives(k, n, d) PROVE n \in stored'
    <3>1. n.key \in keeper[k].newest
      BY <2>1, <2>6 DEF Outlives
    <3>2. n.key # Doomed(k)
      BY <1>2, <2>1, <3>1 DEF MayDelete
    <3> QED
      BY <1>2, <3>2 DEF Without, FullBackups
  <2>7. valid \subseteq keeper[k].valid
    OBVIOUS
  <2> HIDE DEF valid
  <2> QED
    BY <1>2, <2>1, <2>2, <2>3, <2>4, <2>5, <2>6, <2>7, ProceedKeeps
<1> QED
  BY <1>4, <1>5

(* The process ends: nobody works any more.                                *)
LEMMA CrashKeeps ==
  ASSUME IInv, KInv, Crash
  PROVE  KInv'
<1>1. UNCHANGED <<stored, disturbed>>
  BY DEF Crash
<1>2. Bucket'
  BY <1>1 DEF KInv, Bucket
<1>3. Temporaries'
  <2> SUFFICES ASSUME NEW c \in Completes PROVE complete'[c].pc \notin {"copy", "copied"}
    BY DEF Temporaries
  <2> DEFINE pc == Stopped(complete[c].pc, {"copy", "copied"})
  <2>1. complete'[c] = [complete[c] EXCEPT !.pc = pc]
    BY DEF Crash
  <2>2. complete[c] = [pc |-> complete[c].pc, token |-> complete[c].token]
    BY DEF IInv, UploadsFit, UploadShapes
  <2>3. pc \notin {"copy", "copied"}
    BY DEF Stopped
  <2> HIDE DEF pc
  <2>4. complete'[c] = [pc |-> pc, token |-> complete[c].token]
    BY <2>1, <2>2, CompleteFields, Zenon
  <2> QED
    BY <2>3, <2>4
<1>4. ASSUME NEW k \in Keepers PROVE keeper'[k] \in KeeperRecord /\ ~ Working(k)'
  <2> DEFINE w == keeper[k]
             pc == Stopped(w.pc, {"verify", "delete"})
  <2>1. keeper'[k] = [w EXCEPT !.pc = pc]
    BY DEF Crash
  <2>2. w \in KeeperRecord
    BY DEF KInv
  <2>4. pc \in KeeperStates /\ pc \notin {"verify", "delete"}
    BY <2>2 DEF Stopped, KeeperRecord, KeeperStates
  <2> HIDE DEF pc, w
  <2>5. /\ keeper'[k] \in KeeperRecord
        /\ keeper'[k] = [pc |-> pc, op |-> w.op, todo |-> w.todo, plan |-> w.plan,
                         valid |-> w.valid, newest |-> w.newest]
    BY <2>1, <2>2, <2>4, KeeperPc
  <2> QED
    BY <2>4, <2>5 DEF Working
<1>5. keeper' \in [Keepers -> KeeperRecord]
  <2>1. keeper' = [k \in Keepers |-> keeper'[k]]
    BY DEF Crash
  <2> QED
    BY <1>4, <2>1
<1> QED
  BY <1>2, <1>3, <1>4, <1>5 DEF KInv

LEMMA KeepersAtStart == Init => KInv
<1> SUFFICES ASSUME Init PROVE KInv
  OBVIOUS
<1>1. Bucket
  <2>1. \A b \in Old : b.key \in Names /\ (IsFull(b) => b.key \in FullNames)
    BY DEF Names, FullNames
  <2>2. ASSUME NEW b \in Old, b.key \in FullNames PROVE IsFull(b)
    <3>1. b.key \notin Exports \cup Completes
      BY NamesAreDistinct
    <3>2. PICK o \in {o \in Old : IsFull(o)} : o.key = b.key
      BY <2>2, <3>1 DEF FullNames
    <3> QED
      BY <3>2, StoreAssumption
  <2> QED
    BY <2>1, <2>2, StoreAssumption DEF Init, Bucket
<1>2. Temporaries
  BY DEF Init, Temporaries
<1>3. keeper = [k \in Keepers |-> IdleKeeper]
  BY DEF Init
<1> QED
  BY <1>1, <1>2, <1>3, IdleRecord DEF KInv, Working

LEMMA KeepersKeep ==
  ASSUME IInv, KInv, [Next]_vars
  PROVE  KInv'
<1>1. ASSUME NEW k \in Keepers, KeeperNext(k) PROVE KInv'
  BY <1>1, StartDeletionKeeps, StartRetentionKeeps, VerifyingKeeps, DeletingKeeps, SkipKeeps,
    DeleteUnansweredKeeps DEF KeeperNext
<1>2. ASSUME NEW e \in Exports, ExportNext(e) PROVE KInv'
  BY <1>2, JobKeeps, FinishUploadKeeps, WithdrawKeeps DEF ExportNext
<1>3. ASSUME NEW r \in Restores, RestoreNext(r) PROVE KInv'
  BY <1>3, RestoreRequestKeeps
<1>4. Quiet => UNCHANGED vars
  BY DEF Quiet
<1> QED
  BY <1>1, <1>2, <1>3, <1>4, WorldKeeps, CrashKeeps, UploadsKeep DEF Next

(* Two backups that have been counted are two that verify.                 *)
LEMMA TwoVerify ==
  ASSUME Bucket', NEW keys \in SUBSET FullNames, IsFiniteSet(keys), Cardinality(keys) >= 2,
         \A key \in keys : Verifies(key)'
  PROVE  Cardinality(ValidFull(stored')) >= 2
<1> DEFINE good == ValidFull(stored')
           f == [b \in good |-> b.key]
           taken == {b.key : b \in good}
<1>1. IsFiniteSet(good)
  <2>1. good \in SUBSET stored' /\ IsFiniteSet(stored')
    BY DEF ValidFull, FullBackups, Bucket
  <2> HIDE DEF good
  <2> QED
    BY <2>1, FS_Subset
<1>2. keys \in SUBSET taken
  <2> SUFFICES ASSUME NEW key \in keys PROVE \E b \in good : b.key = key
    OBVIOUS
  <2>1. PICK b \in stored' : b.key = key /\ b.closed
    BY DEF Verifies
  <2> QED
    BY <2>1 DEF ValidFull, FullBackups, Bucket
<1> HIDE DEF good
<1>3. f \in Surjection(good, taken)
  BY DEF Surjection
<1> HIDE DEF f
<1>4. IsFiniteSet(taken) /\ Cardinality(taken) <= Cardinality(good)
  BY <1>1, <1>3, FS_Surjection
<1> HIDE DEF taken
<1>5. Cardinality(keys) <= Cardinality(taken)
  BY <1>2, <1>4, FS_Subset
<1>6. Cardinality(keys) \in Nat /\ Cardinality(taken) \in Nat /\ Cardinality(good) \in Nat
  BY <1>1, <1>4, FS_CardinalityType
<1> QED
  BY <1>4, <1>5, <1>6 DEF good

(* Only a keeper's own removal changes the keeper and the bucket at once.  *)
LEMMA RemovalsAreDeletes ==
  ASSUME KInv, [Next]_vars, NEW k \in Keepers, KeeperRemoves(k)
  PROVE  Delete(k) \/ DeleteUnanswered(k)
<1>1. keeper'[k] # keeper[k] /\ stored' # stored
  BY DEF KeeperRemoves
<1>2. ~ UNCHANGED vars /\ ~ DayPasses /\ ~ Crash /\ ~ Quiet /\ ~ UploadNext
  <2>1. ~ UNCHANGED vars /\ ~ DayPasses /\ ~ Crash /\ ~ Quiet
    BY <1>1 DEF vars, DayPasses, Crash, Quiet
  <2>2. UploadNext => keeper' = keeper
    <3>1. ASSUME NEW t \in Tokens, InitUpload(t) \/ ClientPut(t) PROVE keeper' = keeper
      <4>1. InitUpload(t) => UNCHANGED keeper
        BY DEF InitUpload
      <4>2. ClientPut(t) => UNCHANGED keeper
        BY DEF ClientPut
      <4> QED
        BY <3>1, <4>1, <4>2
    <3>2. ASSUME NEW c \in Completes, CopyUpload(c) \/ FinishUploadOf(c) PROVE keeper' = keeper
      BY <3>2 DEF CopyUpload, FinishUploadOf
    <3>3. ASSUME NEW c \in Completes, NEW t \in Tokens,
                 RefuseUpload(c, t) \/ UploadUnavailable(c, t) \/ AcceptUpload(c, t)
          PROVE  keeper' = keeper
      BY <3>3 DEF RefuseUpload, UploadUnavailable, AcceptUpload
    <3> QED
      BY <3>1, <3>2, <3>3 DEF UploadNext
  <2> QED
    BY <1>1, <2>1, <2>2
<1>3. \A c \in Changes : ~ Change(c)
  BY <1>1 DEF Change
<1>4. \A e \in Exports : ~ ExportNext(e)
  BY <1>1 DEF ExportNext, StartManual, FinishUpload, AbortUpload, AnswerVerified, Withdraw,
    CronJoins, CronLists, CronReuses, CronExports
<1>5. \A r \in Restores : ~ RestoreNext(r)
  BY <1>1 DEF RestoreNext, ReadBackup, SnapshotFails, BeginTransaction, Commit, Rollback
<1>6. PICK j \in Keepers : KeeperNext(j)
  BY <1>2, <1>3, <1>4, <1>5 DEF Next
<1>7. Delete(j) \/ DeleteUnanswered(j)
  BY <1>1, <1>6 DEF KeeperNext, StartDeletion, StartRetention, VerifyNext, VerifyUnavailable, Skip
<1>8. \E x : keeper' = [keeper EXCEPT ![j] = x]
  BY <1>7 DEF Delete, DeleteUnanswered
<1>9. j = k
  BY <1>1, <1>8 DEF KInv
<1> QED
  BY <1>7, <1>9

LEMMA RemovalLeavesTwo ==
  ASSUME IInv, KInv, KInv', NEW k \in Keepers, Delete(k) \/ DeleteUnanswered(k), k \notin disturbed,
         ~ FullBackups(stored) \subseteq stored'
  PROVE  Cardinality(ValidFull(stored')) >= 2
<1>1. /\ keeper[k].pc = "delete" /\ MayDelete(k) /\ stored' = Without(Doomed(k))
  BY DeleteFrame
<1>2. Surveyed(k) /\ keeper[k].valid \in SUBSET FullNames
  BY <1>1 DEF KInv, Working, KeeperRecord
<1>3. Doomed(k) \in FullNames
  <2>1. PICK b \in FullBackups(stored) : b \notin stored'
    OBVIOUS
  <2> QED
    BY <1>1, <2>1 DEF Without, FullBackups, KInv, Bucket
<1> DEFINE keys == keeper[k].valid \ {Doomed(k)}
<1>4. Cardinality(keys) >= 2
  BY <1>1, <1>3 DEF MayDelete
<1>5. IsFiniteSet(keys) /\ keys \in SUBSET FullNames
  BY <1>2, FS_Subset DEF Surveyed
<1>6. ASSUME NEW key \in keys PROVE Verifies(key)'
  BY <1>1, <1>2, <1>6 DEF Surveyed, Verifies, Without
<1>7. Bucket'
  BY DEF KInv
<1> HIDE DEF keys
<1> QED
  BY <1>4, <1>5, <1>6, <1>7, TwoVerify

LEMMA RemovalIsOutlived ==
  ASSUME IInv, KInv, NEW k \in Keepers, Delete(k) \/ DeleteUnanswered(k), k \notin disturbed,
         NEW o \in FullBackups(stored)
  PROVE  \E b \in FullBackups(stored') : b.time >= o.time
<1>1. /\ keeper[k].pc = "delete" /\ MayDelete(k) /\ stored' = Without(Doomed(k))
  BY DeleteFrame
<1>2. Surveyed(k) /\ keeper[k] \in KeeperRecord
  BY <1>1 DEF KInv, Working
<1>3. CASE o.key # Doomed(k)
  <2>1. o \in FullBackups(stored') /\ o.time \in Int
    BY <1>1, <1>3, StoredTimes DEF Without, FullBackups
  <2> QED
    BY <2>1
<1>4. CASE o.key = Doomed(k)
  <2>1. 1 \in DOMAIN keeper[k].plan /\ keeper[k].plan[1] = o.key
    <3> DEFINE plan == keeper[k].plan
    <3>1. plan \in Seq(Names) /\ plan # << >>
      BY <1>2 DEF KeeperRecord, Surveyed
    <3>2. o.key = Head(plan)
      BY <1>4 DEF Doomed
    <3> HIDE DEF plan
    <3> QED
      BY <3>1, <3>2 DEF plan
  <2>2. PICK n \in FullBackups(stored) : Outlives(k, n, o)
    BY <1>2, <2>1 DEF Surveyed, Outlived
  <2>3. n.key # Doomed(k) /\ n.time >= o.time
    BY <1>1, <1>4, <2>2 DEF Outlives, MayDelete
  <2>4. n \in FullBackups(stored')
    BY <1>1, <2>3 DEF FullBackups, Without
  <2> QED
    BY <2>3, <2>4
<1> QED
  BY <1>3, <1>4

(* deleteBackup and cleanRetention: a request that removes a full backup   *)
(* and has not been disturbed before leaves two that verify, and every     *)
(* full backup is outlived by one that is as young.                        *)
THEOREM RestorePointsKept == Spec => RestorePointsStay
<1> DEFINE Kept == \A k \in Keepers : KeeperRemoves(k) /\ k \notin disturbed =>
             /\ ~ FullBackups(stored) \subseteq stored' => Cardinality(ValidFull(stored')) >= 2
             /\ \A o \in FullBackups(stored) : \E b \in FullBackups(stored') : b.time >= o.time
<1>1. IInv /\ KInv /\ [Next]_vars => KInv'
  BY KeepersKeep
<1>2. Spec => []KInv
  BY <1>1, KeepersAtStart, Inductive, PTL DEF Spec
<1>3. IInv /\ KInv /\ KInv' /\ [Next]_vars => [Kept]_vars
  <2> SUFFICES ASSUME IInv, KInv, KInv', [Next]_vars, NEW k \in Keepers, KeeperRemoves(k),
                      k \notin disturbed
      PROVE  /\ ~ FullBackups(stored) \subseteq stored' => Cardinality(ValidFull(stored')) >= 2
             /\ \A o \in FullBackups(stored) : \E b \in FullBackups(stored') : b.time >= o.time
    OBVIOUS
  <2>1. Delete(k) \/ DeleteUnanswered(k)
    BY RemovalsAreDeletes
  <2>2. ~ FullBackups(stored) \subseteq stored' => Cardinality(ValidFull(stored')) >= 2
    BY <2>1, RemovalLeavesTwo
  <2>3. \A o \in FullBackups(stored) : \E b \in FullBackups(stored') : b.time >= o.time
    BY <2>1, RemovalIsOutlived
  <2> QED
    BY <2>2, <2>3
<1> QED
  BY <1>2, <1>3, Inductive, PTL DEF Spec, RestorePointsStay

-----------------------------------------------------------------------------
(***************************************************************************)
(* BackupFormat: an export page by page, and the way of its file back.     *)
(***************************************************************************)
Places == 1..18
TableAt(n) == MandatoryTables[n]

IsRow(T, r) ==
  /\ r = [id |-> r.id, ref |-> r.ref, name |-> r.name] /\ r.id \in Nat \ {0}
  /\ T \in DOMAIN Keyed => r.ref \in [DOMAIN Keyed[T] -> Nat]
  /\ T \in DOMAIN CompositeKeys => \A f \in CompositeKeys[T] : r.ref[f] # 0

IsSequence(s) == s \in Seq(Range(s))

(* While others see the database as the services left it. *)
AtWork == phase \in {"filled", "exporting", "stored", "sent", "accepted", "refused", "restoring"}
Begun == AtWork /\ phase # "filled"

FormatTypes ==
  /\ phase \in {"filled", "exporting", "stored", "sent", "accepted", "refused",
                "restoring", "restored", "failed"}
  /\ table \in Places /\ last \in Nat
  /\ changed \in BOOLEAN /\ renamed \in BOOLEAN
  /\ data = [T \in AllTables |-> data[T]]
  /\ throughout = [T \in AllTables |-> throughout[T]]
  /\ gone = [T \in AllTables |-> gone[T]]
  /\ joined = [T \in AllTables |-> joined[T]]
  /\ written = [T \in AllTables |-> written[T]]
  /\ copy = [T \in Tables |-> copy[T]]

Database ==
  AtWork =>
    /\ \A T \in AllTables : IsFiniteSet(data[T]) /\ \A r \in data[T] : IsRow(T, r)
    /\ Unique(data) /\ (~ changed => Closed(data))

(* What is read is in the order of the ids, and behind the reader. *)
Ascending(s) == \A i, j \in DOMAIN s : i < j => s[i].id < s[j].id

Copies ==
  \A n \in Places :
    LET c == copy[TableAt(n)] IN
    /\ IsSequence(c) /\ Ascending(c)
    /\ \A i \in DOMAIN c : IsRow(TableAt(n), c[i])
    /\ phase \in {"filled", "exporting"} =>
         /\ n > table => c = << >>
         /\ n = table => \A i \in DOMAIN c : c[i].id <= last

NothingYet ==
  phase = "filled" => /\ table = 1 /\ last = 0 /\ ~ changed /\ cut = {}
                      /\ scope = 0

Flags == ~ changed => cut = {}

Undisturbed == scope = 0 \/ ~ changed

Since ==
  Begun => /\ phase = "exporting" => \A T \in AllTables : throughout[T] \subseteq data[T]
           /\ ~ changed => throughout = data

(* The row the next page starts from is there, or its table is lost. *)
CursorFacts ==
  phase = "exporting" /\ Undisturbed /\ last # 0 =>
    \A n \in Places : n = table => \/ TableAt(n) \in cut
                                  \/ \E r \in Listed(TableAt(n)) : r.id = last

Reached(n, r) == phase # "exporting" \/ n < table \/ (n = table /\ r.id <= last)

Copied ==
  Begun /\ Undisturbed =>
    \A n \in Places : \/ TableAt(n) \in cut
                      \/ \A r \in throughout[TableAt(n)] :
                           InScope(TableAt(n), r, scope) /\ Reached(n, r) =>
                             Exported(TableAt(n), r) \in Range(copy[TableAt(n)])

(* At rest, nothing but rows of the database is copied. *)
Sourced ==
  Begun /\ ~ changed =>
    \A n \in Places : \A i \in DOMAIN copy[TableAt(n)] :
      \E r \in data[TableAt(n)] : /\ InScope(TableAt(n), r, scope)
                                  /\ copy[TableAt(n)][i] = Exported(TableAt(n), r)

(* A row that was copied is still there under its name, or has given it    *)
(* up; and no two rows have had one name, if none has been taken over.     *)
Known(T) == gone[T] \cup data[T]

Alike(r, q) == r.id = q.id /\ r.name = q.name

Traced ==
  AtWork => \A n \in Places : \A i \in DOMAIN copy[TableAt(n)] :
              \E r \in Known(TableAt(n)) : Alike(r, copy[TableAt(n)][i])

NamesKept ==
  AtWork /\ ~ renamed =>
    \A T \in Tables : \A r, q \in Known(T) : r.name # "" /\ r.name = q.name => r.id = q.id

(* What joined while the restore went on is apart from all it restores. *)
Joining ==
  /\ AtWork /\ phase # "restoring" => joined = NoRows /\ written = NoRows
  /\ phase = "restoring" =>
       /\ Closed(joined) /\ \A T \in AllTables : joined[T] \subseteq data[T]
       /\ \A n \in Places : \A r \in joined[TableAt(n)] : \A i \in DOMAIN copy[TableAt(n)] :
            copy[TableAt(n)][i].id # r.id

ReadBack ==
  /\ phase \in {"filled", "exporting", "stored"} => damage = NoDamage
  /\ phase \notin {"filled", "exporting", "stored"} => damage \in Damages
  /\ phase = "refused" => ~ Accepted(ParseStream(File))
  /\ phase \in {"accepted", "restoring", "restored", "failed"} =>
       result = ParseStream(File) /\ Accepted(result)

Inserted(T) == {WithoutPutOff(T, r) : r \in Range(copy[T])}
PutBack ==
  /\ phase = "restoring" =>
       /\ step \in 1..19
       /\ written["TeamRegistration"] = {}
       /\ \A n \in Places : written[RestoreInsertOrder[n]] =
            IF n < step THEN Inserted(RestoreInsertOrder[n]) ELSE {}
  /\ phase = "restored" => \A T \in Tables : data[T] = Range(copy[T]) \cup joined[T]
  /\ phase = "failed" => renamed

FormatInvariant ==
  /\ FormatTypes /\ Database /\ Copies /\ NothingYet /\ Flags /\ Since /\ CursorFacts
  /\ Copied /\ Sourced /\ Traced /\ NamesKept /\ Joining /\ ReadBack /\ PutBack

(* Every table has one place in the file. *)
LEMMA PlacesOfTables ==
  /\ DOMAIN MandatoryTables = Places /\ Len(MandatoryTables) = 18
  /\ \A n \in Places : TableAt(n) \in Tables
  /\ \A T \in Tables : \E n \in Places : TableAt(n) = T
  /\ \A m, n \in Places : TableAt(m) = TableAt(n) => m = n
<1>1. DOMAIN MandatoryTables = Places /\ Len(MandatoryTables) = 18
  BY DEF MandatoryTables, Places
<1>2. \A n \in Places : TableAt(n) \in Tables
  BY <1>1 DEF TableAt, Tables, Range
<1>3. \A T \in Tables : \E n \in Places : TableAt(n) = T
  BY <1>1 DEF TableAt, Tables, Range
<1>4. \A m, n \in Places : TableAt(m) = TableAt(n) => m = n
  BY SMTT(30) DEF TableAt, Places, MandatoryTables
<1> QED
  BY <1>1, <1>2, <1>3, <1>4

(* The rank of a row among rows with different ids. *)
Rank(rows, r) == Cardinality({q \in rows : q.id <= r.id})
Apart(rows) == /\ IsFiniteSet(rows)
               /\ \A r \in rows : r.id \in Nat
               /\ \A r, q \in rows : r.id = q.id => r = q

LEMMA RankOrder ==
  ASSUME NEW rows, Apart(rows), NEW r \in rows, NEW q \in rows
  PROVE  /\ Rank(rows, r) \in 1..Cardinality(rows)
         /\ r.id < q.id => Rank(rows, r) < Rank(rows, q)
<1> DEFINE upto(x) == {y \in rows : y.id <= x.id}
<1>1. IsFiniteSet(rows) /\ Cardinality(rows) \in Nat
  BY FS_CardinalityType DEF Apart
<1>2. \A x : /\ IsFiniteSet(upto(x)) /\ Cardinality(upto(x)) \in Nat
             /\ Cardinality(upto(x)) <= Cardinality(rows)
  BY <1>1, FS_Subset, FS_CardinalityType
<1>3. Cardinality(upto(r)) # 0
  <2>1. r.id <= r.id
    BY DEF Apart
  <2> QED
    BY <2>1, <1>2, FS_EmptySet
<1>4. ASSUME r.id < q.id PROVE Cardinality(upto(r)) < Cardinality(upto(q))
  <2>1. upto(r) \in SUBSET upto(q)
    BY <1>4 DEF Apart
  <2>2. q \in upto(q) /\ q \notin upto(r)
    BY <1>4 DEF Apart
  <2>3. upto(r) # upto(q)
    BY <2>2
  <2>4. /\ Cardinality(upto(r)) <= Cardinality(upto(q))
        /\ Cardinality(upto(q)) = Cardinality(upto(r)) => upto(q) = upto(r)
    BY <1>2, <2>1, FS_Subset
  <2> QED
    BY <2>3, <2>4, <1>2
<1>5. Rank(rows, r) = Cardinality(upto(r)) /\ Rank(rows, q) = Cardinality(upto(q))
  BY DEF Rank
<1>6. /\ Cardinality(upto(r)) \in Nat /\ Cardinality(upto(q)) \in Nat
      /\ Cardinality(upto(r)) <= Cardinality(rows)
  BY <1>2
<1> HIDE DEF upto
<1> QED
  BY <1>1, <1>3, <1>4, <1>5, <1>6

(* Every rank is taken, by one row. *)
LEMMA NthRow ==
  ASSUME NEW rows, Apart(rows), NEW n \in 1..Cardinality(rows)
  PROVE  Nth(rows, n) \in rows /\ Rank(rows, Nth(rows, n)) = n
<1> DEFINE f == [r \in rows |-> Rank(rows, r)]
           ranks == {f[r] : r \in rows}
<1>1. IsFiniteSet(rows) /\ Cardinality(rows) \in Nat
  BY FS_CardinalityType DEF Apart
<1>2. \A r \in rows : f[r] \in 1..Cardinality(rows)
  BY RankOrder
<1>3. \A r, q \in rows : f[r] = f[q] => r = q
  <2> SUFFICES ASSUME NEW r \in rows, NEW q \in rows, f[r] = f[q], r # q PROVE FALSE
    OBVIOUS
  <2>1. r.id < q.id \/ q.id < r.id
    BY DEF Apart
  <2>2. f[r] \in Nat /\ f[q] \in Nat
    BY <1>1, <1>2
  <2> QED
    BY <2>1, <2>2, RankOrder
<1>4. f \in Injection(rows, ranks) /\ f \in Surjection(rows, ranks)
  BY <1>3 DEF Injection, Surjection, IsInjective
<1>5. IsFiniteSet(ranks) /\ Cardinality(ranks) = Cardinality(rows)
  BY <1>1, <1>4, FS_Surjection
<1>6. ranks = 1..Cardinality(rows)
  <2>1. /\ IsFiniteSet(1..Cardinality(rows))
        /\ Cardinality(1..Cardinality(rows)) = Cardinality(rows)
    BY <1>1, FS_Interval
  <2>2. ranks \in SUBSET (1..Cardinality(rows))
    BY <1>2
  <2> QED
    BY <2>1, <2>2, <1>5, FS_Subset
<1>7. \E r \in rows : Cardinality({q \in rows : q.id <= r.id}) = n
  <2>1. PICK r \in rows : f[r] = n
    BY <1>6
  <2> QED
    BY <2>1 DEF Rank
<1> QED
  BY <1>7 DEF Nth, Rank

LEMMA NthOfRank ==
  ASSUME NEW rows, Apart(rows), NEW r \in rows
  PROVE  Nth(rows, Rank(rows, r)) = r
<1> DEFINE n == Rank(rows, r)
           q == Nth(rows, n)
<1>1. n \in 1..Cardinality(rows)
  BY RankOrder
<1>2. q \in rows /\ Rank(rows, q) = n
  BY <1>1, NthRow
<1>3. ~ (r.id < q.id) /\ ~ (q.id < r.id)
  BY <1>1, <1>2, RankOrder
<1> QED
  BY <1>2, <1>3 DEF Apart

(* A page is the next rows after the skipped ones, in the order of their   *)
(* ids: it ends where they end, or is full.                                *)
LEMMA PageOfRows ==
  ASSUME NEW rows, Apart(rows), NEW skipped \in Nat
  PROVE  LET page == PageOf(rows, skipped)
         IN  /\ page \in Seq(rows) /\ Len(page) \in Nat /\ Len(page) <= PageSize
             /\ DOMAIN page = 1..Len(page)
             /\ \A i \in DOMAIN page : /\ page[i] \in rows
                                       /\ Rank(rows, page[i]) = skipped + i
             /\ \A r \in rows :
                  /\ Rank(rows, r) > skipped
                  /\ \/ Len(page) # PageSize
                     \/ r.id <= page[Len(page)].id
                  => \E i \in DOMAIN page : page[i] = r
<1> DEFINE card == Cardinality(rows)
           size == IF PageSize <= card - skipped THEN PageSize ELSE card - skipped
           page == PageOf(rows, skipped)
<1>0. card \in Nat /\ PageSize \in Nat \ {0}
  BY FS_CardinalityType, FormatAssumption DEF Apart
<1>1. Min({PageSize, card - skipped}) = size
  <2>1. size \in {PageSize, card - skipped} /\ \A y \in {PageSize, card - skipped} : size <= y
    BY <1>0
  <2>2. \A x \in {PageSize, card - skipped} :
          (\A y \in {PageSize, card - skipped} : x <= y) => x = size
    BY <2>1, <1>0
  <2> QED
    BY <2>1, <2>2 DEF Min
<1>2. page = [i \in 1..size |-> Nth(rows, skipped + i)]
  BY <1>1 DEF PageOf
<1> DEFINE n == IF size < 0 THEN 0 ELSE size
<1>3. n \in Nat /\ n <= PageSize /\ 1..size = 1..n
  BY <1>0
<1> HIDE DEF page
<1>4. \A i \in 1..n : /\ page[i] = Nth(rows, skipped + i)
                      /\ page[i] \in rows /\ Rank(rows, page[i]) = skipped + i
  <2> SUFFICES ASSUME NEW i \in 1..n
      PROVE  /\ page[i] = Nth(rows, skipped + i)
             /\ page[i] \in rows /\ Rank(rows, page[i]) = skipped + i
    OBVIOUS
  <2>1. skipped + i \in 1..card
    BY <1>0, <1>3
  <2>2. page[i] = Nth(rows, skipped + i)
    BY <1>2, <1>3
  <2> QED
    BY <2>1, <2>2, NthRow
<1>5. page \in Seq(rows) /\ Len(page) = n /\ DOMAIN page = 1..n
  <2> HIDE DEF n
  <2>1. page = [i \in 1..n |-> Nth(rows, skipped + i)]
    BY <1>2, <1>3
  <2>2. page \in [1..n -> rows]
    BY <2>1, <1>4
  <2> QED
    BY <2>2, <1>3
<1>6. ASSUME NEW r \in rows, Rank(rows, r) > skipped,
             Len(page) # PageSize \/ r.id <= page[Len(page)].id
      PROVE  \E i \in 1..n : page[i] = r
  <2> DEFINE k == Rank(rows, r)
  <2>1. k \in 1..card
    BY RankOrder
  <2>2. k - skipped <= n
    <3>1. CASE n # PageSize
      BY <3>1, <2>1, <1>0, <1>3
    <3>2. CASE n = PageSize
      <4>1. n \in 1..n
        BY <3>2, <1>0
      <4>2. page[n] \in rows /\ Rank(rows, page[n]) = skipped + n /\ r.id <= page[n].id
        BY <4>1, <1>4, <1>5, <1>6, <3>2
      <4>3. ~ (page[n].id < r.id)
        BY <4>2 DEF Apart
      <4>4. k <= skipped + n
        <5>1. CASE r.id < page[n].id
          BY <5>1, <4>2, <2>1, <1>3, RankOrder
        <5>2. CASE r.id = page[n].id
          <6>1. r = page[n]
            BY <5>2, <4>2 DEF Apart
          <6> QED
            BY <6>1, <4>2, <1>3
        <5> QED
          BY <5>1, <5>2, <4>2 DEF Apart
      <4> QED
        BY <4>4, <2>1, <1>3
    <3> QED
      BY <3>1, <3>2
  <2>3. k - skipped \in 1..n
    BY <2>1, <2>2, <1>0, <1>6
  <2>4. page[k - skipped] = Nth(rows, skipped + (k - skipped))
    BY <2>3, <1>4
  <2>5. skipped + (k - skipped) = k
    BY <2>1, <1>0
  <2>6. page[k - skipped] = r
    BY <2>4, <2>5, NthOfRank
  <2> HIDE DEF k
  <2> QED
    BY <2>3, <2>6
<1> QED
  BY <1>3, <1>4, <1>5, <1>6 DEF page

LEMMA RankAscends ==
  ASSUME NEW rows, Apart(rows), NEW r \in rows, NEW q \in rows,
         Rank(rows, r) < Rank(rows, q)
  PROVE  r.id < q.id
<1>1. Rank(rows, r) \in Nat /\ Rank(rows, q) \in Nat
  <2>1. Cardinality(rows) \in Nat
    BY FS_CardinalityType DEF Apart
  <2> QED
    BY <2>1, RankOrder
<1>2. ~ (q.id < r.id)
  BY <1>1, RankOrder
<1>3. q.id # r.id
  <2>1. q # r
    BY <1>1
  <2> QED
    BY <2>1 DEF Apart
<1> QED
  BY <1>2, <1>3 DEF Apart

(* A page goes on behind the reader, in the order of the ids; with its     *)
(* cursor there, nothing before its end is passed over.                    *)
PageIsRight(T, page) ==
  /\ page \in Seq(Listed(T)) /\ Len(page) \in Nat /\ DOMAIN page = 1..Len(page)
  /\ Ascending(page) /\ \A i \in DOMAIN page : page[i].id > last
  /\ last = 0 \/ (\E r \in Listed(T) : r.id = last) =>
       \A r \in Listed(T) :
         /\ r.id > last
         /\ Len(page) # PageSize \/ r.id <= page[Len(page)].id
         => \E i \in DOMAIN page : page[i] = r

LEMMA PageFacts ==
  ASSUME NEW T, Apart(data[T]), \A r \in data[T] : r.id > 0, last \in Nat
  PROVE  PageIsRight(T, Page(T))
<1>1. Apart(Listed(T)) /\ Apart(FromCursor(T))
  <2>1. Listed(T) \in SUBSET data[T] /\ FromCursor(T) \in SUBSET data[T]
    BY DEF Listed, FromCursor
  <2>2. IsFiniteSet(Listed(T)) /\ IsFiniteSet(FromCursor(T))
    BY <2>1, FS_Subset DEF Apart
  <2> QED
    BY <2>1, <2>2 DEF Apart
<1>2. ASSUME NEW rows, Apart(rows), NEW skipped \in Nat
      PROVE  Ascending(PageOf(rows, skipped))
  <2> DEFINE page == PageOf(rows, skipped)
  <2>1. /\ DOMAIN page = 1..Len(page) /\ Len(page) \in Nat
        /\ \A i \in DOMAIN page : page[i] \in rows /\ Rank(rows, page[i]) = skipped + i
    BY <1>2, PageOfRows
  <2> HIDE DEF page
  <2>2. ASSUME NEW i \in DOMAIN page, NEW j \in DOMAIN page, i < j
        PROVE  page[i].id < page[j].id
    <3>1. /\ page[i] \in rows /\ page[j] \in rows
          /\ Rank(rows, page[i]) = skipped + i /\ Rank(rows, page[j]) = skipped + j
      BY <2>1
    <3>2. skipped + i < skipped + j
      BY <2>1, <2>2
    <3>3. Rank(rows, page[i]) < Rank(rows, page[j])
      BY <3>1, <3>2
    <3> QED
      BY <1>2, <3>1, <3>3, RankAscends
  <2>3. Ascending(page)
    BY <2>2 DEF Ascending
  <2> QED
    BY <2>3 DEF page
<1>3. CASE last = 0
  <2> DEFINE page == PageOf(Listed(T), 0)
  <2>1. Page(T) = page
    BY <1>3 DEF Page
  <2>2. /\ page \in Seq(Listed(T)) /\ Len(page) \in Nat /\ DOMAIN page = 1..Len(page)
        /\ \A i \in DOMAIN page : page[i] \in Listed(T)
        /\ \A r \in Listed(T) :
             /\ Rank(Listed(T), r) > 0
             /\ Len(page) # PageSize \/ r.id <= page[Len(page)].id
             => \E i \in DOMAIN page : page[i] = r
    BY <1>1, PageOfRows
  <2>3. Ascending(page)
    BY <1>1, <1>2
  <2>4. \A r \in Listed(T) : r.id > 0 /\ Rank(Listed(T), r) > 0
    <3>1. Cardinality(Listed(T)) \in Nat
      BY <1>1, FS_CardinalityType DEF Apart
    <3>2. \A r \in Listed(T) : Rank(Listed(T), r) \in 1..Cardinality(Listed(T))
      BY <1>1, RankOrder
    <3> QED
      BY <3>1, <3>2 DEF Listed
  <2> HIDE DEF page
  <2> QED
    BY <2>1, <2>2, <2>3, <2>4, <1>3 DEF PageIsRight
<1>4. CASE last # 0 /\ CursorIsGone(T)
  <2>1. Page(T) = << >>
    BY <1>4 DEF Page
  <2>2. ~ \E r \in Listed(T) : r.id = last
    BY <1>4 DEF CursorIsGone, Listed
  <2>3. Ascending(<< >>)
    BY DEF Ascending
  <2> QED
    BY <2>1, <2>2, <2>3, <1>4 DEF PageIsRight
<1>5. CASE last # 0 /\ ~ CursorIsGone(T)
  <2> DEFINE rows == FromCursor(T)
             page == PageOf(rows, 1)
  <2>1. Page(T) = page
    BY <1>5 DEF Page
  <2>2. /\ page \in Seq(rows) /\ Len(page) \in Nat /\ DOMAIN page = 1..Len(page)
        /\ \A i \in DOMAIN page : page[i] \in rows /\ Rank(rows, page[i]) = 1 + i
        /\ \A r \in rows :
             /\ Rank(rows, r) > 1
             /\ Len(page) # PageSize \/ r.id <= page[Len(page)].id
             => \E i \in DOMAIN page : page[i] = r
    BY <1>1, PageOfRows
  <2>3. Ascending(page)
    BY <1>1, <1>2
  <2>4. rows \subseteq Listed(T) /\ \A r \in Listed(T) : r.id > last => r \in rows
    BY DEF FromCursor, Listed, Apart
  <2>5. \A r \in rows : r.id >= last /\ r.id \in Nat
    BY <1>1 DEF FromCursor, Apart
  <2>6. Cardinality(rows) \in Nat /\ \A r \in rows : Rank(rows, r) \in 1..Cardinality(rows)
    BY <1>1, FS_CardinalityType, RankOrder DEF Apart
  <2>7. page \in Seq(Listed(T))
    BY <2>2, <2>4
  <2> HIDE DEF rows, page
  <2>8. ASSUME NEW i \in DOMAIN page PROVE page[i].id > last
    <3>1. page[i] \in rows /\ Rank(rows, page[i]) = 1 + i
      BY <2>2
    <3>2. 1 \in 1..Cardinality(rows)
      BY <3>1, <2>6
    <3>3. Nth(rows, 1) \in rows /\ Rank(rows, Nth(rows, 1)) = 1
      BY <3>2, <1>1, NthRow DEF rows
    <3>4. Rank(rows, Nth(rows, 1)) < Rank(rows, page[i])
      BY <3>1, <3>3, <2>2
    <3>5. Nth(rows, 1).id < page[i].id
      BY <3>1, <3>3, <3>4, <1>1, RankAscends DEF rows
    <3> QED
      BY <3>1, <3>3, <3>5, <2>5
  <2>9. ASSUME NEW c \in Listed(T), c.id = last, NEW r \in Listed(T), r.id > last,
               Len(page) # PageSize \/ r.id <= page[Len(page)].id
        PROVE  \E i \in DOMAIN page : page[i] = r
    <3>1. c \in rows /\ r \in rows
      BY <2>9, <2>4 DEF rows, FromCursor
    <3>2. c.id < r.id
      BY <2>9, <3>1, <2>5
    <3>3. Rank(rows, c) < Rank(rows, r)
      BY <3>1, <3>2, <1>1, RankOrder DEF rows
    <3>4. Rank(rows, r) > 1
      BY <3>1, <3>3, <2>6
    <3> QED
      BY <3>1, <3>4, <2>2, <2>9
  <2> QED
    BY <2>1, <2>2, <2>3, <2>7, <2>8, <2>9, <1>5 DEF PageIsRight
<1> QED
  BY <1>3, <1>4, <1>5

LEMMA AllTablesNamed ==
  {"User", "MemberAccount", "Team", "Player", "Season", "Match", "Prediction",
       "Goal", "MatchEvent", "News", "AuditLog", "SeasonTeamProfile",
       "HistoryImportBatch", "SeasonDeletionApproval", "SeasonTeamPlayer",
       "MatchLineup", "SeasonGroupTeam", "PdfImportBatch"} \subseteq Tables
<1>1. /\ MandatoryTables[1] = "User" /\ MandatoryTables[2] = "MemberAccount"
      /\ MandatoryTables[3] = "Team" /\ MandatoryTables[4] = "Player"
      /\ MandatoryTables[5] = "Season" /\ MandatoryTables[6] = "Match"
      /\ MandatoryTables[7] = "Prediction" /\ MandatoryTables[8] = "Goal"
      /\ MandatoryTables[9] = "MatchEvent" /\ MandatoryTables[10] = "News"
      /\ MandatoryTables[11] = "AuditLog" /\ MandatoryTables[12] = "SeasonTeamProfile"
      /\ MandatoryTables[13] = "HistoryImportBatch"
      /\ MandatoryTables[14] = "SeasonDeletionApproval"
      /\ MandatoryTables[15] = "SeasonTeamPlayer" /\ MandatoryTables[16] = "MatchLineup"
      /\ MandatoryTables[17] = "SeasonGroupTeam" /\ MandatoryTables[18] = "PdfImportBatch"
  BY DEF MandatoryTables
<1>2. /\ 1 \in Places /\ 2 \in Places /\ 3 \in Places /\ 4 \in Places /\ 5 \in Places
      /\ 6 \in Places /\ 7 \in Places /\ 8 \in Places /\ 9 \in Places /\ 10 \in Places
      /\ 11 \in Places /\ 12 \in Places /\ 13 \in Places /\ 14 \in Places
      /\ 15 \in Places /\ 16 \in Places /\ 17 \in Places /\ 18 \in Places
  BY DEF Places
<1> QED
  BY <1>1, <1>2, PlacesOfTables DEF TableAt

LEMMA KeyedFields ==
  \A T \in DOMAIN Keyed : \A f \in DOMAIN Keyed[T] :
    Keyed[T][f] \in {"Team", "Match", "Season", "Player", "MemberAccount", "User"}
BY SMTT(60) DEF Keyed

(* The tables that have references, and those they refer to, are in the    *)
(* database.                                                               *)
LEMMA KeyedTables ==
  /\ DOMAIN Keyed = {"User", "Player", "Match", "Prediction", "Goal", "MatchEvent",
                     "SeasonTeamProfile", "SeasonDeletionApproval", "SeasonTeamPlayer",
                     "MatchLineup", "SeasonGroupTeam", "TeamRegistration"}
  /\ DOMAIN Keyed \subseteq Tables \cup {"TeamRegistration"}
  /\ \A T \in DOMAIN Keyed : \A f \in DOMAIN Keyed[T] : Keyed[T][f] \in Tables
<1>1. DOMAIN Keyed = {"User", "Player", "Match", "Prediction", "Goal", "MatchEvent",
                     "SeasonTeamProfile", "SeasonDeletionApproval", "SeasonTeamPlayer",
                     "MatchLineup", "SeasonGroupTeam", "TeamRegistration"}
  BY DEF Keyed
<1> QED
  BY <1>1, AllTablesNamed, KeyedFields

LEMMA ScopeStays ==
  ASSUME UNCHANGED <<data, scope>>
  PROVE  \A T, r : /\ InScope(T, r, scope)' <=> InScope(T, r, scope)
                   /\ Exported(T, r)' = Exported(T, r)
BY DEF InScope, OfMatches, MatchesOf, TeamOfSeason, PlayerOfSeason, UserOfSeason,
       OfSeason, Has, Exported

LEMMA WholeSite ==
  ASSUME scope = 0
  PROVE  /\ \A T, r : InScope(T, r, scope) /\ Exported(T, r) = r
         /\ \A T : Listed(T) = data[T]
BY DEF InScope, Exported, Listed

LEMMA WholeSiteNext ==
  ASSUME scope' = 0
  PROVE  /\ \A T, r : InScope(T, r, scope)' /\ Exported(T, r)' = r
         /\ \A T : Listed(T)' = data'[T]
BY DEF InScope, Exported, Listed

LEMMA TableKinds ==
  /\ Removable \subseteq AllTables /\ "Season" \in Tables /\ Tables \subseteq AllTables
  /\ "TeamRegistration" \in AllTables \ Tables
<1>1. Tables \subseteq AllTables
  BY DEF AllTables
<1>2. Removable \subseteq AllTables
  BY <1>1, AllTablesNamed DEF Removable
<1>3. "TeamRegistration" \notin Tables
  <2>1. \A n \in Places : TableAt(n) # "TeamRegistration"
    BY SMTT(30) DEF TableAt, Places, MandatoryTables
  <2> QED
    BY <2>1, PlacesOfTables
<1> QED
  BY <1>1, <1>2, <1>3, AllTablesNamed DEF AllTables

LEMMA CompositeFields ==
  /\ DOMAIN CompositeKeys \cap DOMAIN Unlinking = {}
  /\ {"Player", "Season"} \cap DOMAIN CompositeKeys = {}
  /\ \A T \in DOMAIN CompositeKeys : CompositeKeys[T] # {}
BY DEF CompositeKeys, Unlinking

LEMMA FormatStarts == FormatInit => FormatInvariant
<1> SUFFICES ASSUME FormatInit PROVE FormatInvariant
  OBVIOUS
<1>1. FormatTypes
  <2>1. /\ phase = "filled" /\ table = 1 /\ last = 0 /\ changed = FALSE /\ renamed = FALSE
        /\ data = NoRows /\ throughout = NoRows /\ gone = NoRows /\ joined = NoRows
        /\ written = NoRows /\ copy = [T \in Tables |-> << >>]
    BY DEF FormatInit
  <2>2. NoRows = [T \in AllTables |-> NoRows[T]]
    BY DEF NoRows
  <2>3. copy = [T \in Tables |-> copy[T]]
    BY <2>1
  <2>4. table \in Places /\ last \in Nat
    BY <2>1 DEF Places
  <2> QED
    BY <2>1, <2>2, <2>3, <2>4 DEF FormatTypes
<1>2. Database
  <2>1. \A T \in AllTables : data[T] = {}
    BY DEF FormatInit, NoRows
  <2>2. Unique(data)
    BY <2>1, TableKinds DEF Unique
  <2>3. Closed(data)
    <3>1. DOMAIN Keyed \subseteq AllTables
      BY TableKinds, KeyedTables
    <3> QED
      BY <2>1, <3>1 DEF Closed
  <2> QED
    BY <2>1, <2>2, <2>3, FS_EmptySet DEF Database
<1>3. \A n \in Places : copy[TableAt(n)] = << >>
  BY PlacesOfTables DEF FormatInit
<1>4. Copies /\ Traced
  <2>1. IsSequence(<< >>) /\ Ascending(<< >>) /\ DOMAIN << >> = {}
    BY DEF IsSequence, Ascending
  <2> QED
    BY <1>3, <2>1 DEF Copies, Traced
<1>5. NamesKept
  <2>1. \A T \in Tables : Known(T) = {}
    BY TableKinds DEF FormatInit, NoRows, Known
  <2> QED
    BY <2>1 DEF NamesKept
<1> QED
  BY <1>1, <1>2, <1>4, <1>5 DEF FormatInvariant, FormatInit, NothingYet, Flags, Since, Begun,
     CursorFacts, Copied, Sourced, Joining, ReadBack, PutBack

LEMMA FileStays ==
  ASSUME UNCHANGED <<scope, copy, damage>>
  PROVE  File' = File /\ ParseStream(File)' = ParseStream(File) /\ Damages' = Damages
<1>1. TablesWritten' = TablesWritten /\ CountsWritten' = CountsWritten /\ ScopeName' = ScopeName
  BY DEF TablesWritten, CountsWritten, ScopeName
<1>2. \A s, at : Edited(s, at)' = Edited(s, at)
  BY DEF Edited
<1>3. \A s : LastRowGone(s)' = LastRowGone(s) /\ Recounted(s)' = Recounted(s)
  BY DEF LastRowGone, Recounted
<1>4. Manifest' = Manifest
  BY <1>1 DEF Manifest, Edited, Recounted
<1>5. File' = File
  BY <1>1, <1>4 DEF File, Edited, LastRowGone
<1>6. ParseStream(File)' = ParseStream(File)
  BY <1>5 DEF ParseStream, Complete
<1> QED
  BY <1>5, <1>6 DEF Damages

(***************************************************************************)
(* What the services do to the database: any change of it that keeps the   *)
(* keys apart, takes over no name unseen, and notes what it takes away.    *)
(***************************************************************************)
LEMMA ChangeKeeps ==
  ASSUME FormatInvariant, phase \in {"filled"} \cup Serving,
         UNCHANGED <<phase, scope, table, last, copy, damage, result, step, written>>,
         FormatTypes', changed' = (changed \/ phase # "filled"),
         \A T \in AllTables : IsFiniteSet(data'[T]) /\ \A r \in data'[T] : IsRow(T, r),
         Unique(data'), phase = "filled" => Closed(data'),
         throughout' = Lasting(data'), cut \subseteq cut', phase # "exporting" => cut' = cut,
         phase = "exporting" =>
           \/ TableAt(table) \in cut'
           \/ \A r \in data[TableAt(table)] :
                r.id = last => \E q \in data'[TableAt(table)] : q.id = last,
         \A T \in Tables : \A r \in Known(T) : \E q \in Known(T)' : Alike(q, r),
         NamesKept', Joining'
  PROVE  FormatInvariant'
<1>1. /\ FormatTypes /\ Database /\ Copies /\ NothingYet /\ Flags /\ Since /\ CursorFacts
      /\ Copied /\ Sourced /\ Traced /\ NamesKept /\ Joining /\ ReadBack /\ PutBack
  BY DEF FormatInvariant
<1>2. AtWork /\ AtWork' /\ (Begun' <=> Begun) /\ (phase = "filled" <=> ~ Begun)
  BY DEF AtWork, Begun, Serving
<1>3. Database'
  BY <1>1, <1>2 DEF Database, FormatTypes
<1>4. Copies' /\ ReadBack'
  <2>1. ParseStream(File)' = ParseStream(File) /\ Damages' = Damages
    BY FileStays
  <2>2. Accepted(result)' <=> Accepted(result)
    BY DEF Accepted, Integrity
  <2>3. ReadBack'
    BY <1>1, <2>1, <2>2 DEF ReadBack, Serving
  <2> QED
    BY <1>1, <2>3 DEF Copies, TableAt
<1>5. NothingYet' /\ Flags' /\ PutBack'
  <2>1. phase # "restored" /\ phase # "failed"
    BY DEF Serving
  <2>2. \A T : Inserted(T)' = Inserted(T)
    BY DEF Inserted
  <2>3. PutBack'
    BY <1>1, <2>1, <2>2 DEF PutBack
  <2> QED
    BY <1>1, <2>3 DEF NothingYet, Flags, FormatTypes
<1>6. \A T \in AllTables : /\ throughout'[T] \subseteq throughout[T]
                           /\ phase = "exporting" => throughout'[T] \subseteq data'[T]
  BY DEF Lasting
<1>7. Since'
  BY <1>1, <1>2, <1>6 DEF Since, FormatTypes
<1>8. ASSUME phase # "filled", scope # 0 PROVE CursorFacts' /\ Copied'
  BY <1>8 DEF Undisturbed, CursorFacts, Copied
<1>9. ASSUME phase # "filled", scope = 0 PROVE CursorFacts' /\ Copied'
  <2>1. /\ \A T, r : InScope(T, r, scope) /\ Exported(T, r) = r
        /\ \A T, r : InScope(T, r, scope)' /\ Exported(T, r)' = r
        /\ \A T : Listed(T) = data[T] /\ Listed(T)' = data'[T]
    BY <1>9, WholeSite, WholeSiteNext
  <2>2. Undisturbed
    BY <1>9 DEF Undisturbed
  <2>3. CursorFacts'
    <3> SUFFICES ASSUME phase = "exporting", last # 0, NEW n \in Places, n = table,
                        TableAt(n) \notin cut'
        PROVE  \E r \in data'[TableAt(n)] : r.id = last
      BY <2>1 DEF CursorFacts, TableAt
    <3>1. TableAt(table) \notin cut
      OBVIOUS
    <3>2. PICK r \in data[TableAt(table)] : r.id = last
      BY <2>1, <2>2, <3>1, <1>1 DEF CursorFacts
    <3> QED
      BY <3>2
  <2>4. Copied'
    <3>1. \A n \in Places : throughout'[TableAt(n)] \subseteq throughout[TableAt(n)]
      BY <1>6, PlacesOfTables, TableKinds
    <3>2. \A n \in Places : \A r : Reached(n, r)' <=> Reached(n, r)
      BY DEF Reached
    <3> QED
      BY <2>1, <2>2, <3>1, <3>2, <1>1, <1>2 DEF Copied, TableAt
  <2> QED
    BY <2>3, <2>4
<1>10. ASSUME phase = "filled" PROVE CursorFacts' /\ Copied'
  BY <1>10, <1>2 DEF CursorFacts, Copied
<1>11. Sourced'
  BY <1>2 DEF Sourced
<1>12. Traced'
  <2> SUFFICES ASSUME NEW n \in Places, NEW i \in DOMAIN copy[TableAt(n)]
               PROVE  \E r \in Known(TableAt(n))' : Alike(r, copy[TableAt(n)][i])
    BY <1>2 DEF Traced, TableAt, Alike, Known
  <2>1. PICK r \in Known(TableAt(n)) : Alike(r, copy[TableAt(n)][i])
    BY <1>1, <1>2 DEF Traced
  <2>2. PICK q \in Known(TableAt(n))' : Alike(q, r)
    BY <2>1, PlacesOfTables
  <2> QED
    BY <2>1, <2>2 DEF Alike
<1> QED
  BY <1>3, <1>4, <1>5, <1>7, <1>8, <1>9, <1>10, <1>11, <1>12 DEF FormatInvariant

LEMMA SameKeyTurned == ASSUME NEW T, NEW r, NEW q PROVE SameKey(T, r, q) <=> SameKey(T, q, r)
BY DEF SameKey

LEMMA InsertKeeps ==
  ASSUME FormatInvariant, NEW T0 \in AllTables, NEW r0 \in Candidates[T0], InsertRow(T0, r0)
  PROVE  FormatInvariant'
<1>0. /\ phase \in {"filled"} \cup Serving /\ data' = [data EXCEPT ![T0] = @ \cup {r0}]
      /\ \A q \in data[T0] \cup written[T0] : ~ SameKey(T0, r0, q)
      /\ \A q \in gone[T0] : q.id # r0.id
      /\ T0 \in DOMAIN Keyed => \A f \in DOMAIN Keyed[T0] :
           r0.ref[f] = 0 \/ \E t \in Standing[Keyed[T0][f]] : t.id = r0.ref[f]
      /\ joined' = IF phase = "restoring" THEN [joined EXCEPT ![T0] = @ \cup {r0}] ELSE joined
      /\ changed' = (changed \/ phase # "filled") /\ renamed' = (renamed \/ TakesOver(T0, r0))
      /\ UNCHANGED <<phase, scope, table, last, copy, damage, result, step, written, throughout,
                     cut, gone>>
  BY DEF InsertRow, reading
<1>1. /\ FormatTypes /\ Database /\ NothingYet /\ Since /\ Traced /\ NamesKept /\ Joining
  BY DEF FormatInvariant
<1>2. /\ \A T \in AllTables : data'[T] = IF T = T0 THEN data[T] \cup {r0} ELSE data[T]
      /\ AtWork /\ AtWork'
  BY <1>0, <1>1 DEF FormatTypes, AtWork, Serving
<1>3. FormatTypes'
  <2>1. /\ data' = [T \in AllTables |-> data'[T]] /\ joined' = [T \in AllTables |-> joined'[T]]
        /\ renamed' \in BOOLEAN /\ changed' \in BOOLEAN
    BY <1>0, <1>1 DEF FormatTypes, TakesOver
  <2> QED
    BY <2>1, <1>0, <1>1 DEF FormatTypes
<1>4. IsRow(T0, r0)
  BY FormatAssumption DEF IsRow
<1>5. /\ \A T \in AllTables : IsFiniteSet(data[T]) /\ \A r \in data[T] : IsRow(T, r)
      /\ Unique(data)
  BY <1>1, <1>2 DEF Database
<1>6. \A T \in AllTables : IsFiniteSet(data'[T]) /\ \A r \in data'[T] : IsRow(T, r)
  <2>1. IsFiniteSet(data[T0] \cup {r0})
    BY <1>5, FS_AddElement
  <2> QED
    BY <1>2, <1>4, <1>5, <2>1
<1>7. Unique(data')
  BY <1>0, <1>2, <1>5, SameKeyTurned, TableKinds DEF Unique
<1>8. ASSUME phase = "filled" PROVE Closed(data')
  <2>1. Closed(data) /\ Standing = data
    BY <1>1, <1>2, <1>8 DEF Database, NothingYet, Standing
  <2>2. \A T \in AllTables : data[T] \subseteq data'[T]
    BY <1>2
  <2> SUFFICES ASSUME NEW T \in DOMAIN Keyed, NEW r \in data'[T], NEW f \in DOMAIN Keyed[T]
               PROVE  r.ref[f] = 0 \/ \E t \in data'[Keyed[T][f]] : t.id = r.ref[f]
    BY DEF Closed
  <2>3. T \in AllTables /\ Keyed[T][f] \in AllTables
    BY KeyedTables, TableKinds DEF AllTables
  <2>4. r \in data[T] \/ (T = T0 /\ r = r0)
    BY <2>3, <1>2
  <2>5. r.ref[f] = 0 \/ \E t \in data[Keyed[T][f]] : t.id = r.ref[f]
    BY <2>1, <2>4, <1>0 DEF Closed
  <2> QED
    BY <2>2, <2>3, <2>5
<1>9. throughout' = Lasting(data')
  <2>1. CASE phase = "exporting"
    <3>1. \A T \in AllTables : throughout[T] \cap data'[T] = throughout[T]
      BY <2>1, <1>1, <1>2 DEF Since, Begun
    <3>2. throughout = [T \in AllTables |-> throughout[T]]
      BY <1>1 DEF FormatTypes
    <3>3. [T \in AllTables |-> throughout[T] \cap data'[T]] = [T \in AllTables |-> throughout[T]]
      BY <3>1
    <3> QED
      BY <2>1, <3>2, <3>3, <1>0 DEF Lasting
  <2> QED
    BY <2>1, <1>0 DEF Lasting
<1>10. TableAt(table) \in AllTables
  BY <1>1, PlacesOfTables, TableKinds DEF FormatTypes
<1>11. \A T \in Tables : Known(T)' = IF T = T0 THEN Known(T) \cup {r0} ELSE Known(T)
  BY <1>0, <1>2, TableKinds DEF Known
<1>12. NamesKept'
  <2> SUFFICES ASSUME ~ renamed, \A x \in gone[T0] : r0.name # "" => x.name # r0.name,
                      NEW T \in Tables, NEW r \in Known(T)', NEW q \in Known(T)',
                      r.name # "", r.name = q.name
               PROVE  r.id = q.id
    BY <1>0 DEF NamesKept, TakesOver
  <2>1. \A x \in Known(T0) : r0.name # "" => x.name # r0.name
    BY <1>0 DEF Known, SameKey
  <2>2. /\ r \in Known(T) \/ (T = T0 /\ r = r0)
        /\ q \in Known(T) \/ (T = T0 /\ q = r0)
    BY <1>11
  <2>3. CASE r \in Known(T) /\ q \in Known(T)
    BY <2>3, <1>1, <1>2 DEF NamesKept
  <2>4. CASE T = T0 /\ r = r0 /\ q \in Known(T0)
    BY <2>1, <2>4
  <2>5. CASE T = T0 /\ q = r0 /\ r \in Known(T0)
    BY <2>1, <2>5
  <2>6. CASE r = q
    BY <2>6
  <2> QED
    BY <2>2, <2>3, <2>4, <2>5, <2>6
<1>13. Joining'
  <2>1. CASE phase # "restoring"
    BY <2>1, <1>0, <1>1, <1>2 DEF Joining
  <2>2. CASE phase = "restoring"
    <3>1. /\ Standing = joined /\ Closed(joined)
          /\ \A T \in AllTables :
               /\ joined[T] \subseteq data[T]
               /\ joined'[T] = IF T = T0 THEN joined[T] \cup {r0} ELSE joined[T]
      BY <2>2, <1>0, <1>1 DEF Standing, Joining, FormatTypes
    <3>2. Closed(joined')
      <4> SUFFICES ASSUME NEW T \in DOMAIN Keyed, NEW r \in joined'[T], NEW f \in DOMAIN Keyed[T]
                   PROVE  r.ref[f] = 0 \/ \E t \in joined'[Keyed[T][f]] : t.id = r.ref[f]
        BY DEF Closed
      <4>1. T \in AllTables /\ Keyed[T][f] \in AllTables
        BY KeyedTables, TableKinds DEF AllTables
      <4>2. r \in joined[T] \/ (T = T0 /\ r = r0)
        BY <4>1, <3>1
      <4>3. r.ref[f] = 0 \/ \E t \in joined[Keyed[T][f]] : t.id = r.ref[f]
        BY <4>2, <3>1, <1>0 DEF Closed
      <4> QED
        BY <4>1, <4>3, <3>1
    <3>3. \A T \in AllTables : joined'[T] \subseteq data'[T]
      BY <3>1, <1>2
    <3>4. ASSUME NEW n \in Places, NEW r \in joined'[TableAt(n)],
                 NEW i \in DOMAIN copy[TableAt(n)]
          PROVE  copy[TableAt(n)][i].id # r.id
      <4>0. TableAt(n) \in AllTables
        BY PlacesOfTables, TableKinds
      <4>1. CASE r \in joined[TableAt(n)]
        BY <4>1, <2>2, <1>1 DEF Joining
      <4>2. CASE TableAt(n) = T0 /\ r = r0
        <5>1. PICK q \in Known(T0) : Alike(q, copy[TableAt(n)][i])
          BY <4>2, <1>1, <1>2 DEF Traced
        <5>2. q.id # r0.id
          BY <1>0 DEF Known, SameKey
        <5> QED
          BY <5>1, <5>2, <4>2 DEF Alike
      <4> QED
        BY <4>0, <4>1, <4>2, <3>1
    <3> QED
      BY <3>2, <3>3, <3>4, <2>2, <1>0 DEF Joining, TableAt
  <2> QED
    BY <2>1, <2>2
<1>14. \A T \in Tables : \A r \in Known(T) : \E q \in Known(T)' : Alike(q, r)
  BY <1>11 DEF Alike
<1>15. \A r \in data[TableAt(table)] : r \in data'[TableAt(table)]
  BY <1>2, <1>10
<1> QED
  BY <1>0, <1>3, <1>6, <1>7, <1>8, <1>9, <1>12, <1>13, <1>14, <1>15, ChangeKeeps

(* A row without a reference that went is the same row. *)
LEMMA UnlinkedRow ==
  ASSUME NEW T, NEW r, NEW removed, IsRow(T, r)
  PROVE  /\ Alike(Unlinked(T, r, removed), r) /\ IsRow(T, Unlinked(T, r, removed))
         /\ T \in DOMAIN CompositeKeys => Unlinked(T, r, removed) = r
<1>1. CASE T \notin DOMAIN Unlinking
  BY <1>1 DEF Unlinked, Alike
<1>2. CASE T \in DOMAIN Unlinking
  <2> DEFINE left == [f \in DOMAIN r.ref |->
                        IF f \in Unlinking[T] /\ \E q \in removed[Keyed[T][f]] : q.id = r.ref[f]
                          THEN 0 ELSE r.ref[f]]
             e == [r EXCEPT !.ref = left]
  <2>1. Unlinked(T, r, removed) = e
    BY <1>2 DEF Unlinked
  <2>2. T \notin DOMAIN CompositeKeys /\ T \in DOMAIN Keyed
    BY <1>2, CompositeFields, KeyedTables DEF Unlinking
  <2>3. r = [id |-> r.id, ref |-> r.ref, name |-> r.name] /\ r.id \in Nat \ {0}
        /\ r.ref \in [DOMAIN Keyed[T] -> Nat]
    BY <2>2 DEF IsRow
  <2>4. left \in [DOMAIN Keyed[T] -> Nat]
    BY <2>3
  <2> HIDE DEF left
  <2>5. e = [id |-> r.id, ref |-> left, name |-> r.name]
    BY <2>3
  <2>6. e.id = r.id /\ e.name = r.name /\ e.ref = left
        /\ e = [id |-> e.id, ref |-> e.ref, name |-> e.name]
    BY <2>5
  <2> HIDE DEF e
  <2> QED
    BY <2>1, <2>2, <2>3, <2>4, <2>6 DEF IsRow, Alike
<1> QED
  BY <1>1, <1>2

LEMMA RemovedRows ==
  ASSUME NEW T0 \in AllTables, NEW r0 \in Standing[T0]
  PROVE  \A T \in AllTables : Removed(T0, r0)[T] \subseteq Standing[T]
<1> DEFINE first == [U \in AllTables |->
              IF U = T0 THEN {r0}
              ELSE IF U = "Match" /\ T0 = "Season"
                THEN {m \in Standing[U] : m.ref["seasonId"] = r0.id}
              ELSE {}]
<1>1. \A T \in AllTables : first[T] \subseteq Standing[T]
  OBVIOUS
<1> HIDE DEF first
<1>2. ASSUME NEW rows, \A T \in AllTables : rows[T] \subseteq Standing[T]
      PROVE  \A T \in AllTables : WithReferrers(rows)[T] \subseteq Standing[T]
  BY <1>2 DEF WithReferrers
<1>3. \A T \in AllTables : WithReferrers(first)[T] \subseteq Standing[T]
  BY <1>1, <1>2
<1>4. \A T \in AllTables : WithReferrers(WithReferrers(first))[T] \subseteq Standing[T]
  BY <1>2, <1>3
<1> QED
  BY <1>4 DEF Removed, first

LEMMA DeleteKeeps ==
  ASSUME FormatInvariant, NEW T0 \in Removable, NEW r0 \in data[T0], DeleteRow(T0, r0)
  PROVE  FormatInvariant'
<1> DEFINE removed == Removed(T0, r0)
           here == TableAt(table)
<1>0. /\ phase \in Serving /\ data' = WithoutRows(data, removed)
      /\ r0 \in Standing[T0]
      /\ joined' = WithoutRows(joined, removed) /\ Closed(joined')
      /\ throughout' = Lasting(data')
      /\ cut' = IF phase = "exporting" /\ \E q \in removed[here] : q.id = last
                  THEN cut \cup {here} ELSE cut
      /\ gone' = [U \in AllTables |-> gone[U] \cup removed[U]]
      /\ changed' = TRUE
      /\ UNCHANGED <<phase, scope, table, last, copy, damage, result, step, written, renamed>>
  BY DEF DeleteRow, reading, TableAt
<1>1. /\ FormatTypes /\ Database /\ NamesKept /\ Joining
  BY DEF FormatInvariant
<1>2. /\ T0 \in AllTables /\ here \in AllTables /\ AtWork /\ AtWork' /\ phase # "filled"
  BY <1>0, <1>1, PlacesOfTables, TableKinds DEF FormatTypes, AtWork, Serving
<1>3. \A T \in AllTables :
        /\ removed[T] \subseteq Standing[T]
        /\ data'[T] = {Unlinked(T, r, removed) : r \in data[T] \ removed[T]}
        /\ joined'[T] = {Unlinked(T, r, removed) : r \in joined[T] \ removed[T]}
        /\ gone'[T] = gone[T] \cup removed[T]
  <2>1. \A T \in AllTables : removed[T] \subseteq Standing[T]
    BY <1>0, <1>2, RemovedRows
  <2> HIDE DEF removed
  <2> QED
    BY <2>1, <1>0 DEF WithoutRows
<1> HIDE DEF removed
<1>4. \A T \in AllTables : Standing[T] \subseteq data[T] /\ removed[T] \subseteq data[T]
  BY <1>1, <1>3 DEF Standing, Joining
<1>5. /\ \A T \in AllTables : IsFiniteSet(data[T]) /\ \A r \in data[T] : IsRow(T, r)
      /\ Unique(data)
  BY <1>1, <1>2 DEF Database
<1>6. FormatTypes'
  <2>1. /\ data' = [T \in AllTables |-> data'[T]] /\ joined' = [T \in AllTables |-> joined'[T]]
        /\ gone' = [T \in AllTables |-> gone'[T]]
    BY <1>0 DEF WithoutRows
  <2>2. throughout' = [T \in AllTables |-> throughout'[T]]
    BY <1>0, <1>1 DEF Lasting, FormatTypes
  <2> QED
    BY <2>1, <2>2, <1>0, <1>1 DEF FormatTypes
<1>7. \A T \in AllTables : \A r \in data[T] :
        /\ Alike(Unlinked(T, r, removed), r) /\ IsRow(T, Unlinked(T, r, removed))
        /\ T \in DOMAIN CompositeKeys => Unlinked(T, r, removed) = r
  BY <1>5, UnlinkedRow
<1>8. \A T \in AllTables : IsFiniteSet(data'[T]) /\ \A r \in data'[T] : IsRow(T, r)
  <2> SUFFICES ASSUME NEW T \in AllTables
               PROVE  IsFiniteSet(data'[T]) /\ \A r \in data'[T] : IsRow(T, r)
    OBVIOUS
  <2>1. IsFiniteSet(data[T] \ removed[T])
    BY <1>5, FS_Subset
  <2>2. IsFiniteSet({Unlinked(T, r, removed) : r \in data[T] \ removed[T]})
    <3> DEFINE map == [r \in data[T] \ removed[T] |-> Unlinked(T, r, removed)]
               image == {Unlinked(T, r, removed) : r \in data[T] \ removed[T]}
    <3>1. map \in Surjection(data[T] \ removed[T], image)
      BY DEF Surjection
    <3> HIDE DEF map, image
    <3>2. IsFiniteSet(image)
      BY <2>1, <3>1, FS_Surjection
    <3> QED
      BY <3>2 DEF image
  <2>3. data'[T] = {Unlinked(T, r, removed) : r \in data[T] \ removed[T]}
    BY <1>3
  <2>4. \A r \in data[T] : IsRow(T, Unlinked(T, r, removed))
    BY <1>7
  <2> QED
    BY <2>2, <2>3, <2>4
<1>9. Unique(data')
  <2> SUFFICES ASSUME NEW T \in Tables, NEW x \in data'[T], NEW y \in data'[T], x # y
               PROVE  ~ SameKey(T, x, y)
    BY DEF Unique
  <2>0. T \in AllTables
    BY TableKinds
  <2>1. PICK r \in data[T] : x = Unlinked(T, r, removed)
    BY <2>0, <1>3
  <2>2. PICK q \in data[T] : y = Unlinked(T, q, removed)
    BY <2>0, <1>3
  <2>3. r # q /\ ~ SameKey(T, r, q)
    BY <2>1, <2>2, <1>5 DEF Unique
  <2>4. /\ Alike(x, r) /\ Alike(y, q)
        /\ T \in DOMAIN CompositeKeys => x = r /\ y = q
    BY <2>0, <2>1, <2>2, <1>7
  <2> QED
    BY <2>3, <2>4 DEF SameKey, Alike
<1>10. \A T \in Tables : \A r \in Known(T) : \E q \in Known(T)' : Alike(q, r)
  <2> SUFFICES ASSUME NEW T \in Tables, NEW r \in Known(T) PROVE \E q \in Known(T)' : Alike(q, r)
    OBVIOUS
  <2>0. T \in AllTables
    BY TableKinds
  <2>1. CASE r \in gone[T] \/ r \in removed[T]
    BY <2>0, <2>1, <1>3 DEF Known, Alike
  <2>2. CASE r \in data[T] \ removed[T]
    <3>1. Unlinked(T, r, removed) \in data'[T] /\ Alike(Unlinked(T, r, removed), r)
      BY <2>0, <2>2, <1>3, <1>7
    <3> QED
      BY <3>1 DEF Known
  <2> QED
    BY <2>1, <2>2 DEF Known
<1>11. \A T \in Tables : \A x \in Known(T)' : \E r \in Known(T) : Alike(x, r)
  <2> SUFFICES ASSUME NEW T \in Tables, NEW x \in Known(T)' PROVE \E r \in Known(T) : Alike(x, r)
    OBVIOUS
  <2>0. T \in AllTables
    BY TableKinds
  <2>1. CASE x \in gone'[T]
    BY <2>0, <2>1, <1>3, <1>4 DEF Known, Alike
  <2>2. CASE x \in data'[T]
    <3>1. PICK r \in data[T] : x = Unlinked(T, r, removed)
      BY <2>0, <2>2, <1>3
    <3> QED
      BY <2>0, <3>1, <1>7 DEF Known
  <2> QED
    BY <2>1, <2>2 DEF Known
<1>12. NamesKept'
  <2> SUFFICES ASSUME ~ renamed, NEW T \in Tables, NEW x \in Known(T)', NEW y \in Known(T)',
                      x.name # "", x.name = y.name
               PROVE  x.id = y.id
    BY <1>0 DEF NamesKept
  <2>1. PICK r \in Known(T) : Alike(x, r)
    BY <1>11
  <2>2. PICK q \in Known(T) : Alike(y, q)
    BY <1>11
  <2>3. r.name # "" /\ r.name = q.name => r.id = q.id
    BY <1>1, <1>2 DEF NamesKept
  <2> QED
    BY <2>1, <2>2, <2>3 DEF Alike
<1>13. Joining'
  <2>1. ASSUME phase # "restoring" PROVE joined' = NoRows /\ written' = NoRows
    <3>1. joined = NoRows /\ written = NoRows
      BY <2>1, <1>1, <1>2 DEF Joining
    <3>2. \A T \in AllTables : joined'[T] = {}
      BY <3>1, <1>3 DEF NoRows
    <3>3. joined' = [T \in AllTables |-> joined'[T]]
      BY <1>6 DEF FormatTypes
    <3> QED
      BY <3>1, <3>2, <3>3, <1>0 DEF NoRows
  <2>2. ASSUME phase = "restoring"
        PROVE  /\ \A T \in AllTables : joined'[T] \subseteq data'[T]
               /\ \A n \in Places : \A x \in joined'[TableAt(n)] :
                    \A i \in DOMAIN copy[TableAt(n)] : copy[TableAt(n)][i].id # x.id
    <3>1. \A T \in AllTables : joined[T] \subseteq data[T]
      BY <2>2, <1>1 DEF Joining
    <3>2. \A T \in AllTables : joined'[T] \subseteq data'[T]
      BY <3>1, <1>3
    <3>3. ASSUME NEW n \in Places, NEW x \in joined'[TableAt(n)],
                 NEW i \in DOMAIN copy[TableAt(n)]
          PROVE  copy[TableAt(n)][i].id # x.id
      <4>0. TableAt(n) \in AllTables
        BY PlacesOfTables, TableKinds
      <4>1. PICK r \in joined[TableAt(n)] : x = Unlinked(TableAt(n), r, removed)
        BY <4>0, <1>3
      <4>2. x.id = r.id
        BY <4>0, <4>1, <3>1, <1>7 DEF Alike
      <4> QED
        BY <4>1, <4>2, <2>2, <1>1 DEF Joining
    <3> QED
      BY <3>2, <3>3
  <2> QED
    BY <2>1, <2>2, <1>0 DEF Joining, TableAt
<1>14. here \in cut' \/ phase # "exporting"
       \/ \A r \in data[here] : r.id = last => \E q \in data'[here] : q.id = last
  <2> SUFFICES ASSUME here \notin cut', phase = "exporting", NEW r \in data[here], r.id = last
               PROVE  \E q \in data'[here] : q.id = last
    OBVIOUS
  <2>1. r \notin removed[here]
    BY <1>0
  <2>2. Unlinked(here, r, removed) \in data'[here] /\ Unlinked(here, r, removed).id = last
    BY <2>1, <1>2, <1>3, <1>7 DEF Alike
  <2> QED
    BY <2>2
<1> HIDE DEF here
<1>15. cut \subseteq cut' /\ (phase # "exporting" => cut' = cut)
  BY <1>0
<1> QED
  BY <1>0, <1>2, <1>6, <1>8, <1>9, <1>10, <1>12, <1>13, <1>14, <1>15, ChangeKeeps DEF here

LEMMA RenameKeeps ==
  ASSUME FormatInvariant, NEW r0 \in data["Season"], RenameSeason(r0)
  PROVE  FormatInvariant'
<1> DEFINE named == [r0 EXCEPT !.name = NewName]
           New(r) == IF r = r0 THEN named ELSE r
<1>0. /\ phase \in Serving
      /\ data' = [data EXCEPT !["Season"] = {New(r) : r \in data["Season"]}]
      /\ joined' = [joined EXCEPT !["Season"] = {New(r) : r \in joined["Season"]}]
      /\ \A q \in data["Season"] : q.name # NewName
      /\ throughout' = Lasting(data')
      /\ gone' = [gone EXCEPT !["Season"] = @ \cup {r0}]
      /\ changed' = TRUE /\ renamed' = (renamed \/ TakesOver("Season", named))
      /\ UNCHANGED <<phase, scope, table, last, copy, damage, result, step, written, cut>>
  BY DEF RenameSeason, reading
<1>1. /\ FormatTypes /\ Database /\ NamesKept /\ Joining
  BY DEF FormatInvariant
<1>2. /\ "Season" \in AllTables /\ "Season" \in Tables /\ AtWork /\ AtWork' /\ phase # "filled"
      /\ TableAt(table) \in AllTables
  BY <1>0, <1>1, PlacesOfTables, TableKinds DEF AtWork, Serving, FormatTypes
<1>3. \A T \in AllTables :
        /\ data'[T] = IF T = "Season" THEN {New(r) : r \in data[T]} ELSE data[T]
        /\ joined'[T] = IF T = "Season" THEN {New(r) : r \in joined[T]} ELSE joined[T]
        /\ gone'[T] = IF T = "Season" THEN gone[T] \cup {r0} ELSE gone[T]
  BY <1>0, <1>1 DEF FormatTypes
<1>4. FormatTypes'
  <2>1. /\ data' = [T \in AllTables |-> data'[T]] /\ joined' = [T \in AllTables |-> joined'[T]]
        /\ gone' = [T \in AllTables |-> gone'[T]] /\ renamed' \in BOOLEAN
    BY <1>0, <1>1 DEF FormatTypes, TakesOver
  <2>2. throughout' = [T \in AllTables |-> throughout'[T]]
    BY <1>0, <1>1 DEF Lasting, FormatTypes
  <2> QED
    BY <2>1, <2>2, <1>0, <1>1 DEF FormatTypes
<1>5. /\ \A T \in AllTables : IsFiniteSet(data[T]) /\ \A r \in data[T] : IsRow(T, r)
      /\ Unique(data)
  BY <1>1, <1>2 DEF Database
<1>6. named.id = r0.id /\ named.name = NewName /\ IsRow("Season", named)
  <2>1. IsRow("Season", r0)
    BY <1>2, <1>5
  <2>2. "Season" \notin DOMAIN Keyed /\ "Season" \notin DOMAIN CompositeKeys
    BY KeyedTables, CompositeFields
  <2>3. r0 = [id |-> r0.id, ref |-> r0.ref, name |-> r0.name]
    BY <2>1 DEF IsRow
  <2>4. named = [id |-> r0.id, ref |-> r0.ref, name |-> NewName]
    BY <2>3
  <2> QED
    BY <2>1, <2>2, <2>4 DEF IsRow
<1> HIDE DEF named
<1>7. \A r : New(r).id = r.id /\ (r # r0 => New(r) = r)
  BY <1>6
<1>8. \A T \in AllTables : IsFiniteSet(data'[T]) /\ \A r \in data'[T] : IsRow(T, r)
  <2>1. IsFiniteSet({New(r) : r \in data["Season"]})
    <3> DEFINE map == [r \in data["Season"] |-> New(r)]
               image == {New(r) : r \in data["Season"]}
    <3>1. map \in Surjection(data["Season"], image)
      BY DEF Surjection
    <3> HIDE DEF map, image
    <3>2. IsFiniteSet(image)
      BY <1>2, <1>5, <3>1, FS_Surjection
    <3> QED
      BY <3>2 DEF image
  <2>2. \A r \in data["Season"] : IsRow("Season", New(r))
    BY <1>2, <1>5, <1>6
  <2>3. data'["Season"] = {New(r) : r \in data["Season"]}
    BY <1>2, <1>3
  <2>4. \A T \in AllTables : T # "Season" => data'[T] = data[T]
    BY <1>3
  <2> HIDE DEF New
  <2> QED
    BY <2>1, <2>2, <2>3, <2>4, <1>5
<1>9. Unique(data')
  <2> SUFFICES ASSUME NEW T \in Tables, NEW x \in data'[T], NEW y \in data'[T], x # y
               PROVE  ~ SameKey(T, x, y)
    BY DEF Unique
  <2>0. T \in AllTables
    BY TableKinds
  <2>1. CASE T # "Season"
    BY <2>0, <2>1, <1>3, <1>5 DEF Unique
  <2>2. CASE T = "Season"
    <3>1. PICK r \in data[T] : x = New(r)
      BY <2>0, <2>2, <1>3
    <3>2. PICK q \in data[T] : y = New(q)
      BY <2>0, <2>2, <1>3
    <3>3. r # q /\ ~ SameKey(T, r, q) /\ T \notin DOMAIN CompositeKeys
      BY <3>1, <3>2, <2>2, <1>5, CompositeFields DEF Unique
    <3>4. r.id # q.id /\ ~ (r.name # "" /\ r.name = q.name)
      BY <3>3 DEF SameKey
    <3>5. q.name # NewName /\ r.name # NewName
      BY <3>1, <3>2, <2>2, <1>0
    <3>6. x.id # y.id
      BY <3>1, <3>2, <3>4, <1>7
    <3>7. ~ (x.name # "" /\ x.name = y.name)
      <4>1. r = r0 \/ q = r0 \/ (x = r /\ y = q)
        BY <3>1, <3>2
      <4> QED
        BY <4>1, <3>1, <3>2, <3>3, <3>4, <3>5, <1>6
    <3> QED
      BY <3>3, <3>6, <3>7 DEF SameKey
  <2> QED
    BY <2>1, <2>2
<1>10. \A T \in Tables : \A r \in Known(T) : \E q \in Known(T)' : Alike(q, r)
  <2> SUFFICES ASSUME NEW T \in Tables, NEW r \in Known(T) PROVE \E q \in Known(T)' : Alike(q, r)
    OBVIOUS
  <2>0. T \in AllTables
    BY TableKinds
  <2>1. CASE T # "Season"
    BY <2>0, <2>1, <1>3 DEF Known, Alike
  <2>2. CASE T = "Season"
    <3>1. r \in gone'[T] \/ (r \in data[T] /\ New(r) = r)
      BY <2>0, <2>2, <1>3 DEF Known
    <3>2. r \in Known(T)'
      BY <3>1, <2>0, <2>2, <1>3 DEF Known
    <3> QED
      BY <3>2 DEF Alike
  <2> QED
    BY <2>1, <2>2
<1>11. NamesKept'
  <2> SUFFICES ASSUME ~ renamed, \A x \in gone["Season"] : x.name # NewName,
                      NEW T \in Tables, NEW r \in Known(T)', NEW q \in Known(T)',
                      r.name # "", r.name = q.name
               PROVE  r.id = q.id
    BY <1>0, <1>6, FormatAssumption DEF NamesKept, TakesOver
  <2>0. T \in AllTables
    BY TableKinds
  <2>1. \A x \in Known(T)' : x \in Known(T) \/ (T = "Season" /\ x = named)
    <3>1. CASE T = "Season"
      <4>1. data'[T] = {New(x) : x \in data[T]} /\ gone'[T] = gone[T] \cup {r0}
        BY <2>0, <3>1, <1>3
      <4>2. ASSUME NEW x \in data'[T] PROVE x \in data[T] \/ x = named
        <5>1. PICK y \in data[T] : x = New(y)
          BY <4>1
        <5> QED
          BY <5>1
      <4>3. r0 \in data[T]
        BY <3>1
      <4> QED
        BY <4>1, <4>2, <4>3, <3>1 DEF Known
    <3>2. CASE T # "Season"
      BY <2>0, <3>2, <1>3 DEF Known
    <3> QED
      BY <3>1, <3>2
  <2>2. \A x \in Known("Season") : NewName # "" /\ x.name # NewName
    BY <1>0, FormatAssumption DEF Known
  <2>3. r \in Known(T) /\ q \in Known(T) => r.id = q.id
    BY <1>1, <1>2 DEF NamesKept
  <2> QED
    BY <2>1, <2>2, <2>3, <1>6
<1>12. Joining'
  <2>1. ASSUME phase # "restoring" PROVE joined' = NoRows /\ written' = NoRows
    <3>1. joined = NoRows /\ written = NoRows
      BY <2>1, <1>1, <1>2 DEF Joining
    <3>2. \A T \in AllTables : joined'[T] = {}
      BY <3>1, <1>3 DEF NoRows
    <3>3. joined' = [T \in AllTables |-> joined'[T]]
      BY <1>4 DEF FormatTypes
    <3> QED
      BY <3>1, <3>2, <3>3, <1>0 DEF NoRows
  <2>2. ASSUME phase = "restoring"
        PROVE  /\ Closed(joined') /\ \A T \in AllTables : joined'[T] \subseteq data'[T]
               /\ \A n \in Places : \A x \in joined'[TableAt(n)] :
                    \A i \in DOMAIN copy[TableAt(n)] : copy[TableAt(n)][i].id # x.id
    <3>1. /\ Closed(joined) /\ \A T \in AllTables : joined[T] \subseteq data[T]
          /\ \A n \in Places : \A r \in joined[TableAt(n)] :
               \A i \in DOMAIN copy[TableAt(n)] : copy[TableAt(n)][i].id # r.id
      BY <2>2, <1>1 DEF Joining
    <3>2. ASSUME NEW T \in AllTables PROVE joined'[T] \subseteq data'[T]
      <4>1. joined[T] \subseteq data[T]
        BY <3>1
      <4>2. \/ data'[T] = data[T] /\ joined'[T] = joined[T]
            \/ /\ data'[T] = {New(r) : r \in data[T]}
               /\ joined'[T] = {New(r) : r \in joined[T]}
        BY <1>3
      <4> HIDE DEF New
      <4> QED
        BY <4>1, <4>2
    <3>3. ASSUME NEW T \in AllTables
          PROVE  /\ \A x \in joined'[T] : \E r \in joined[T] : r.id = x.id
                 /\ \A r \in joined[T] : \E x \in joined'[T] : r.id = x.id
                 /\ T # "Season" => joined'[T] = joined[T]
      <4>1. \/ joined'[T] = joined[T]
            \/ T = "Season" /\ joined'[T] = {New(r) : r \in joined[T]}
        BY <1>3
      <4> HIDE DEF New
      <4> QED
        BY <4>1, <1>7
    <3>4. Closed(joined')
      <4> SUFFICES ASSUME NEW T \in DOMAIN Keyed, NEW r \in joined'[T], NEW f \in DOMAIN Keyed[T]
                   PROVE  r.ref[f] = 0 \/ \E t \in joined'[Keyed[T][f]] : t.id = r.ref[f]
        BY DEF Closed
      <4>1. T \in AllTables /\ Keyed[T][f] \in AllTables /\ T # "Season"
        BY KeyedTables, TableKinds DEF AllTables
      <4>2. r.ref[f] = 0 \/ \E t \in joined[Keyed[T][f]] : t.id = r.ref[f]
        BY <4>1, <3>1, <3>3 DEF Closed
      <4> QED
        BY <4>1, <4>2, <3>3
    <3>5. ASSUME NEW n \in Places, NEW x \in joined'[TableAt(n)],
                 NEW i \in DOMAIN copy[TableAt(n)]
          PROVE  copy[TableAt(n)][i].id # x.id
      <4>1. TableAt(n) \in AllTables
        BY PlacesOfTables, TableKinds
      <4> QED
        BY <4>1, <3>1, <3>3
    <3> QED
      BY <3>2, <3>4, <3>5
  <2> QED
    BY <2>1, <2>2, <1>0 DEF Joining, TableAt
<1>13. \A r \in data[TableAt(table)] : \E q \in data'[TableAt(table)] : q.id = r.id
  BY <1>2, <1>3, <1>7
<1> QED
  BY <1>0, <1>2, <1>4, <1>8, <1>9, <1>10, <1>11, <1>12, <1>13, ChangeKeeps

LEMMA BeginKeeps ==
  ASSUME FormatInvariant, NEW s, BeginExport(s)
  PROVE  FormatInvariant'
<1>0. /\ phase = "filled" /\ phase' = "exporting" /\ scope' = s /\ throughout' = data
      /\ UNCHANGED <<data, table, last, copy, damage, result, step, written, joined, cut, gone,
                     changed, renamed>>
  BY DEF BeginExport, transaction
<1>1. /\ FormatTypes /\ Database /\ Copies /\ NothingYet /\ Flags /\ Since /\ CursorFacts
      /\ Copied /\ Sourced /\ Traced /\ NamesKept /\ Joining /\ ReadBack /\ PutBack
  BY DEF FormatInvariant
<1>2. table = 1 /\ last = 0 /\ ~ changed /\ cut = {}
  BY <1>0, <1>1 DEF NothingYet
<1>3. \A n \in Places : copy[TableAt(n)] = << >>
  <2> SUFFICES ASSUME NEW n \in Places PROVE copy[TableAt(n)] = << >>
    OBVIOUS
  <2> DEFINE c == copy[TableAt(n)]
  <2>1. /\ IsSequence(c) /\ \A i \in DOMAIN c : c[i].id \in Nat \ {0}
        /\ n > table => c = << >>
        /\ n = table => \A i \in DOMAIN c : c[i].id <= last
    BY <1>0, <1>1 DEF Copies, IsRow
  <2> HIDE DEF c
  <2>2. CASE n = table
    <3>1. \A i \in DOMAIN c : FALSE
      BY <2>1, <2>2, <1>2
    <3>2. Len(c) \in Nat /\ DOMAIN c = 1..Len(c)
      BY <2>1 DEF IsSequence
    <3>3. Len(c) = 0
      BY <3>1, <3>2
    <3>4. c = << >>
      BY <3>3, <2>1 DEF IsSequence
    <3> QED
      BY <3>4 DEF c
  <2>3. CASE n # table
    BY <2>1, <2>3, <1>2 DEF Places, c
  <2> QED
    BY <2>2, <2>3
<1>4. \A n \in Places : DOMAIN copy[TableAt(n)] = {}
  BY <1>3
<1>5. FormatTypes' /\ Database'
  BY <1>0, <1>1 DEF FormatTypes, Database, AtWork
<1>6. Copies' /\ ReadBack'
  BY <1>0, <1>1 DEF Copies, ReadBack, TableAt
<1>7. NothingYet' /\ Flags' /\ PutBack'
  BY <1>0, <1>1 DEF NothingYet, Flags, PutBack
<1>8. Traced' /\ NamesKept' /\ Joining' /\ Sourced'
  BY <1>0, <1>1, <1>4 DEF Traced, NamesKept, Known, AtWork, Joining, Sourced, TableAt
<1>9. Since' /\ CursorFacts'
  BY <1>0, <1>2 DEF Since, CursorFacts
<1>10. Copied'
  <2>1. \A n \in Places : \A r \in data[TableAt(n)] : ~ Reached(n, r)'
    <3> SUFFICES ASSUME NEW n \in Places, NEW r \in data[TableAt(n)] PROVE ~ Reached(n, r)'
      OBVIOUS
    <3>1. r.id \in Nat \ {0}
      BY <1>0, <1>1, PlacesOfTables, TableKinds DEF Database, AtWork, IsRow
    <3> QED
      BY <3>1, <1>0, <1>2 DEF Reached, Places
  <2> QED
    BY <2>1, <1>0 DEF Copied, TableAt
<1> QED
  BY <1>5, <1>6, <1>7, <1>8, <1>9, <1>10 DEF FormatInvariant

(***************************************************************************)
(* Reading a page.                                                         *)
(***************************************************************************)
LEMMA RowIds ==
  ASSUME NEW T, NEW r, IsRow(T, r)
  PROVE  r.id \in Nat /\ r.id # 0 /\ r.id > 0
<1>1. r.id \in Nat \ {0}
  BY DEF IsRow
<1> QED
  BY <1>1

LEMMA ExportedRow ==
  ASSUME NEW T, NEW r, IsRow(T, r)
  PROVE  /\ Exported(T, r).id = r.id /\ Exported(T, r).name = r.name
         /\ IsRow(T, Exported(T, r))
         /\ T # "Player" => Exported(T, r) = r
<1>1. CASE Exported(T, r) = r
  BY <1>1
<1>2. CASE T = "Player" /\ Exported(T, r) = [r EXCEPT !.ref["suspendedAtMatchId"] = 0]
  <2> DEFINE e == [r EXCEPT !.ref["suspendedAtMatchId"] = 0]
  <2>1. r = [id |-> r.id, ref |-> r.ref, name |-> r.name]
    BY DEF IsRow
  <2>2. e = [id |-> r.id, ref |-> [r.ref EXCEPT !["suspendedAtMatchId"] = 0], name |-> r.name]
    BY <2>1
  <2>3. /\ e.id = r.id /\ e.name = r.name /\ e = [id |-> e.id, ref |-> e.ref, name |-> e.name]
        /\ e.ref = [r.ref EXCEPT !["suspendedAtMatchId"] = 0]
    BY <2>2
  <2> HIDE DEF e
  <2>4. ASSUME NEW D, r.ref \in [D -> Nat] PROVE e.ref \in [D -> Nat]
    <3>1. ASSUME NEW g \in [D -> Nat], NEW x PROVE [g EXCEPT ![x] = 0] \in [D -> Nat]
      OBVIOUS
    <3> QED
      BY <3>1, <2>3, <2>4
  <2>5. e.id = r.id /\ e.name = r.name /\ IsRow(T, e)
    BY <2>3, <2>4, <1>2, CompositeFields DEF IsRow
  <2> QED
    BY <2>5, <1>2 DEF e
<1> QED
  BY <1>1, <1>2 DEF Exported

IsJoined(u, s, t) ==
  /\ IsSequence(u) /\ Range(u) = Range(s) \cup Range(t)
  /\ Len(s) \in Nat /\ DOMAIN s = 1..Len(s)
  /\ Len(t) \in Nat /\ DOMAIN t = 1..Len(t)
  /\ DOMAIN u = 1..(Len(s) + Len(t))
  /\ \A i \in DOMAIN s : u[i] = s[i]
  /\ \A i \in DOMAIN t : u[Len(s) + i] = t[i]
  /\ \A i \in DOMAIN u :
       i \in DOMAIN s \/ (i - Len(s) \in DOMAIN t /\ i = Len(s) + (i - Len(s)))

LEMMA Joined ==
  ASSUME NEW s, NEW t, IsSequence(s), IsSequence(t)
  PROVE  IsJoined(s \o t, s, t)
<1>1. s \in Seq(Range(s)) /\ t \in Seq(Range(t))
  BY DEF IsSequence
<1> DEFINE u == s \o t
<1>2. /\ Len(s) \in Nat /\ DOMAIN s = 1..Len(s)
      /\ Len(t) \in Nat /\ DOMAIN t = 1..Len(t)
  BY <1>1
<1>3. /\ DOMAIN u = 1..(Len(s) + Len(t)) /\ Len(u) = Len(s) + Len(t)
      /\ \A i \in DOMAIN s : u[i] = s[i]
      /\ \A i \in DOMAIN t : u[Len(s) + i] = t[i]
  BY <1>1, <1>2
<1>4. s \in Seq(Range(s) \cup Range(t)) /\ t \in Seq(Range(s) \cup Range(t))
  BY <1>1
<1>5. u \in Seq(Range(s) \cup Range(t))
  BY <1>4
<1> HIDE DEF u
<1>6. \A i \in DOMAIN u : i \in DOMAIN s \/ (i - Len(s) \in DOMAIN t /\ i = Len(s) + (i - Len(s)))
  BY <1>2, <1>3
<1>7. Range(u) = Range(s) \cup Range(t)
  <2>1. \A x \in Range(u) : x \in Range(s) \cup Range(t)
    BY <1>3, <1>6 DEF Range
  <2>2. \A x \in Range(s) : x \in Range(u)
    BY <1>2, <1>3 DEF Range
  <2>3. \A x \in Range(t) : x \in Range(u)
    <3> SUFFICES ASSUME NEW i \in DOMAIN t PROVE t[i] \in Range(u)
      BY DEF Range
    <3>1. Len(s) + i \in DOMAIN u /\ u[Len(s) + i] = t[i]
      BY <1>2, <1>3
    <3> QED
      BY <3>1 DEF Range
  <2> QED
    BY <2>1, <2>2, <2>3
<1>8. IsSequence(u)
  BY <1>5, <1>7 DEF IsSequence
<1> QED
  BY <1>2, <1>3, <1>6, <1>7, <1>8 DEF IsJoined, u

LEMMA ReadKeeps ==
  ASSUME FormatInvariant, ReadPage
  PROVE  FormatInvariant'
<1> DEFINE T == TableAt(table)
           page == Page(T)
           fetched == [i \in DOMAIN page |-> Exported(T, page[i])]
<1>0. /\ phase = "exporting" /\ copy' = [copy EXCEPT ![T] = @ \o fetched]
      /\ \/ Len(page) = PageSize /\ UNCHANGED <<table, phase>> /\ last' = page[Len(page)].id
         \/ /\ Len(page) # PageSize /\ table < 18
            /\ table' = table + 1 /\ last' = 0 /\ phase' = phase
         \/ /\ Len(page) # PageSize /\ ~ (table < 18)
            /\ phase' = "stored" /\ UNCHANGED <<table, last>>
      /\ UNCHANGED <<data, scope, damage, result, step, written, joined, throughout, cut, gone,
                     changed, renamed>>
  BY PlacesOfTables DEF ReadPage, TableAt, history, transaction
<1>1. /\ FormatTypes /\ Database /\ Copies /\ NothingYet /\ Flags /\ Since /\ CursorFacts
      /\ Copied /\ Sourced /\ Traced /\ NamesKept /\ Joining /\ ReadBack /\ PutBack
  BY DEF FormatInvariant
<1>2. table \in Places /\ last \in Nat /\ table \in Int /\ T \in Tables /\ T \in AllTables
  BY <1>1, PlacesOfTables, TableKinds DEF FormatTypes, Places
<1>3. /\ \A r \in data[T] : IsRow(T, r) /\ r.id \in Nat /\ r.id > 0
      /\ Apart(data[T]) /\ Unique(data)
  <2>1. IsFiniteSet(data[T]) /\ (\A r \in data[T] : IsRow(T, r)) /\ Unique(data)
    BY <1>0, <1>1, <1>2 DEF Database, AtWork
  <2>2. \A r \in data[T] : r.id \in Nat /\ r.id > 0
    BY <2>1, RowIds
  <2> QED
    BY <2>1, <2>2, <1>2 DEF Apart, Unique, SameKey
<1>4. PageIsRight(T, page)
  BY <1>2, <1>3, PageFacts
<1> HIDE DEF page
<1>5. /\ Len(page) \in Nat /\ DOMAIN page = 1..Len(page) /\ Ascending(page)
      /\ \A i \in DOMAIN page : page[i] \in Listed(T) /\ page[i] \in data[T] /\ page[i].id > last
      /\ PageSize \in Nat \ {0}
  <2>1. PageSize \in Nat \ {0}
    BY FormatAssumption
  <2>2. /\ page \in Seq(Listed(T)) /\ Len(page) \in Nat /\ DOMAIN page = 1..Len(page)
        /\ Ascending(page) /\ \A i \in DOMAIN page : page[i].id > last
    BY <1>4 DEF PageIsRight
  <2>3. \A i \in DOMAIN page : page[i] \in Listed(T)
    BY <2>2
  <2> QED
    BY <2>1, <2>2, <2>3 DEF Listed
<1>6. /\ DOMAIN fetched = 1..Len(page) /\ Len(fetched) = Len(page) /\ IsSequence(fetched)
      /\ \A i \in DOMAIN page : /\ fetched[i] = Exported(T, page[i])
                                /\ fetched[i].id = page[i].id /\ IsRow(T, fetched[i])
  <2>1. fetched \in Seq(Range(fetched)) /\ DOMAIN fetched = 1..Len(page) /\ Len(fetched) = Len(page)
    <3>1. fetched \in [1..Len(page) -> Range(fetched)]
      BY <1>5 DEF Range
    <3> HIDE DEF fetched
    <3> QED
      BY <3>1, <1>5
  <2>2. \A i \in DOMAIN page : fetched[i].id = page[i].id /\ IsRow(T, fetched[i])
    BY <1>3, <1>5, ExportedRow
  <2> HIDE DEF fetched
  <2>3. IsSequence(fetched)
    BY <2>1 DEF IsSequence
  <2> QED
    BY <2>1, <2>2, <2>3 DEF fetched
<1>7. /\ IsSequence(copy[T]) /\ Ascending(copy[T])
      /\ \A i \in DOMAIN copy[T] : IsRow(T, copy[T][i]) /\ copy[T][i].id <= last
  BY <1>0, <1>1, <1>2 DEF Copies
<1> HIDE DEF fetched
<1> DEFINE new == copy[T] \o fetched
           k == Len(copy[T])
<1>8. /\ IsSequence(new) /\ Range(new) = Range(copy[T]) \cup Range(fetched)
      /\ k \in Nat /\ DOMAIN copy[T] = 1..k
      /\ DOMAIN new = 1..(k + Len(page))
      /\ \A i \in DOMAIN copy[T] : new[i] = copy[T][i]
      /\ \A i \in DOMAIN page : new[k + i] = fetched[i]
      /\ \A i \in DOMAIN new :
           i \in DOMAIN copy[T] \/ (i - k \in DOMAIN page /\ i = k + (i - k))
  <2>1. /\ IsSequence(copy[T]) /\ IsSequence(fetched) /\ Len(fetched) = Len(page)
        /\ DOMAIN fetched = DOMAIN page
    BY <1>5, <1>6, <1>7
  <2>2. IsJoined(new, copy[T], fetched)
    BY <2>1, Joined
  <2> HIDE DEF new
  <2> QED
    BY <2>1, <2>2, <1>5 DEF IsJoined
<1>9. /\ copy'[T] = new /\ copy' = [S \in Tables |-> copy'[S]]
      /\ \A n \in Places : n # table => copy'[TableAt(n)] = copy[TableAt(n)]
  BY <1>0, <1>1, <1>2, PlacesOfTables DEF FormatTypes
<1> HIDE DEF new
<1>10. \A i \in DOMAIN new : \/ i \in DOMAIN copy[T] /\ new[i] = copy[T][i]
                             \/ \E j \in DOMAIN page : i = k + j /\ new[i] = fetched[j]
  BY <1>8
<1>11. FormatTypes'
  <2>1. table' \in Places /\ last' \in Nat
    <3>1. CASE Len(page) = PageSize
      <4>1. Len(page) \in DOMAIN page
        BY <3>1, <1>5
      <4> QED
        BY <4>1, <3>1, <1>0, <1>2, <1>3, <1>5
    <3>2. CASE Len(page) # PageSize
      BY <3>2, <1>0, <1>2 DEF Places
    <3> QED
      BY <3>1, <3>2
  <2> QED
    BY <2>1, <1>0, <1>1, <1>9 DEF FormatTypes
<1>12. /\ Database' /\ NothingYet' /\ Flags' /\ ReadBack' /\ PutBack' /\ NamesKept' /\ Joining'
       /\ AtWork /\ AtWork'
  <2>1. AtWork /\ AtWork' /\ phase' \in {"exporting", "stored"}
    BY <1>0 DEF AtWork
  <2>2. Database' /\ NothingYet' /\ Flags' /\ ReadBack' /\ PutBack'
    BY <2>1, <1>0, <1>1 DEF Database, NothingYet, Flags, ReadBack, PutBack
  <2>3. \A S : Known(S)' = Known(S)
    BY <1>0 DEF Known
  <2>4. NamesKept'
    BY <2>1, <2>3, <1>0, <1>1 DEF NamesKept
  <2>5. Joining'
    BY <2>1, <1>0, <1>1 DEF Joining, NoRows
  <2> QED
    BY <2>1, <2>2, <2>4, <2>5
<1>13. Begun /\ Begun' /\ Since'
  BY <1>0, <1>1 DEF Begun, AtWork, Since
<1>14. \A S, r : /\ InScope(S, r, scope)' <=> InScope(S, r, scope)
                 /\ Exported(S, r)' = Exported(S, r)
  BY <1>0, ScopeStays
<1>15. Ascending(new) /\ \A i \in DOMAIN new : IsRow(T, new[i])
  <2>1. ASSUME NEW i \in DOMAIN new, NEW j \in DOMAIN new, i < j PROVE new[i].id < new[j].id
    <3>1. CASE i \in DOMAIN copy[T] /\ j \in DOMAIN copy[T]
      BY <3>1, <2>1, <1>7, <1>8 DEF Ascending
    <3>2. CASE i \in DOMAIN copy[T] /\ j \notin DOMAIN copy[T]
      <4>1. PICK m \in DOMAIN page : new[j] = fetched[m]
        BY <3>2, <1>10
      <4>2. new[i] = copy[T][i] /\ copy[T][i].id <= last /\ copy[T][i].id \in Nat
        BY <3>2, <1>7, <1>8 DEF IsRow
      <4>3. new[j].id = page[m].id /\ page[m].id > last /\ page[m].id \in Nat
        BY <4>1, <1>5, <1>6, <1>3
      <4> QED
        BY <4>2, <4>3, <1>2
    <3>3. CASE i \notin DOMAIN copy[T]
      <4>1. PICK m \in DOMAIN page : i = k + m /\ new[i] = fetched[m]
        BY <3>3, <1>10
      <4>2. j \notin DOMAIN copy[T]
        BY <2>1, <3>3, <1>8
      <4>3. PICK o \in DOMAIN page : j = k + o /\ new[j] = fetched[o]
        BY <4>2, <1>10
      <4>4. m < o
        BY <4>1, <4>3, <2>1, <1>5, <1>8
      <4> QED
        BY <4>1, <4>3, <4>4, <1>5, <1>6 DEF Ascending
    <3> QED
      BY <3>1, <3>2, <3>3
  <2> QED
    BY <2>1, <1>6, <1>7, <1>10 DEF Ascending
<1>16. Copies'
  <2>1. ASSUME NEW n \in Places
        PROVE  /\ IsSequence(copy'[TableAt(n)]) /\ Ascending(copy'[TableAt(n)])
               /\ \A i \in DOMAIN copy'[TableAt(n)] : IsRow(TableAt(n), copy'[TableAt(n)][i])
    BY <1>1, <1>8, <1>9, <1>15 DEF Copies
  <2>2. ASSUME NEW n \in Places, phase' \in {"filled", "exporting"}, n > table'
        PROVE  copy'[TableAt(n)] = << >>
    <3>1. n > table
      BY <2>2, <1>0, <1>2 DEF Places
    <3>2. copy[TableAt(n)] = << >>
      BY <3>1, <1>0, <1>1 DEF Copies
    <3> QED
      BY <3>1, <3>2, <1>2, <1>9
  <2>3. ASSUME NEW n \in Places, phase' \in {"filled", "exporting"}, n = table',
               NEW i \in DOMAIN copy'[TableAt(n)]
        PROVE  copy'[TableAt(n)][i].id <= last'
    <3>1. CASE Len(page) = PageSize
      <4>1. n = table /\ last' = page[Len(page)].id /\ Len(page) \in DOMAIN page
        BY <2>3, <3>1, <1>0, <1>5
      <4>2. i \in DOMAIN new /\ copy'[TableAt(n)][i] = new[i]
        BY <2>3, <4>1, <1>9
      <4>3. page[Len(page)].id > last /\ page[Len(page)].id \in Nat
        BY <4>1, <1>5, <1>3
      <4>4. CASE i \in DOMAIN copy[T] /\ new[i] = copy[T][i]
        <5>1. copy[T][i].id <= last /\ copy[T][i].id \in Nat
          BY <4>4, <1>7 DEF IsRow
        <5> QED
          BY <5>1, <4>1, <4>2, <4>3, <4>4, <1>2
      <4>5. ASSUME NEW j \in DOMAIN page, new[i] = fetched[j] PROVE new[i].id <= last'
        <5>1. new[i].id = page[j].id /\ page[j].id \in Nat
          BY <4>5, <1>3, <1>5, <1>6
        <5>2. j = Len(page) \/ j < Len(page)
          BY <4>5, <1>5
        <5>3. j < Len(page) => page[j].id < page[Len(page)].id
          BY <4>1, <4>5, <1>5 DEF Ascending
        <5> QED
          BY <5>1, <5>2, <5>3, <4>1, <4>3
      <4> QED
        BY <4>2, <4>4, <4>5, <1>10
    <3>2. CASE Len(page) # PageSize
      <4>1. n = table + 1
        BY <2>3, <3>2, <1>0
      <4>2. copy[TableAt(n)] = << >>
        BY <4>1, <1>0, <1>1, <1>2 DEF Copies
      <4>3. copy'[TableAt(n)] = << >>
        BY <4>1, <4>2, <1>2, <1>9
      <4>4. DOMAIN << >> = {}
        OBVIOUS
      <4> QED
        BY <2>3, <4>3, <4>4
    <3> QED
      BY <3>1, <3>2
  <2> QED
    BY <2>1, <2>2, <2>3 DEF Copies, TableAt
<1>17. CursorFacts'
  <2> SUFFICES ASSUME phase' = "exporting", last' # 0, NEW n \in Places, n = table'
      PROVE  (\E r \in Listed(TableAt(n)) : r.id = last)'
    BY DEF CursorFacts, TableAt
  <2>1. Len(page) = PageSize /\ last' = page[Len(page)].id /\ n = table
    BY <1>0
  <2>2. Len(page) \in DOMAIN page
    BY <2>1, <1>5
  <2>3. page[Len(page)] \in Listed(T)
    BY <2>2, <1>5
  <2>4. Listed(TableAt(n))' = Listed(TableAt(n))
    BY <1>0, <1>14 DEF Listed
  <2> QED
    BY <2>1, <2>3, <2>4
<1>18. Copied'
  <2> SUFFICES ASSUME Undisturbed, NEW n \in Places, TableAt(n) \notin cut,
                      NEW r \in throughout[TableAt(n)], InScope(TableAt(n), r, scope),
                      Reached(n, r)'
               PROVE  Exported(TableAt(n), r) \in Range(copy'[TableAt(n)])
    BY <1>0, <1>13, <1>14 DEF Copied, Undisturbed, TableAt
  <2>1. r \in data[TableAt(n)] /\ IsRow(TableAt(n), r) /\ r.id \in Nat \ {0}
    <3>1. TableAt(n) \in AllTables
      BY PlacesOfTables, TableKinds
    <3>2. r \in data[TableAt(n)]
      BY <3>1, <1>0, <1>1, <1>13 DEF Since
    <3> QED
      BY <3>1, <3>2, <1>0, <1>1 DEF Database, AtWork, IsRow
  <2>2. Reached(n, r) => Exported(TableAt(n), r) \in Range(copy[TableAt(n)])
    BY <1>1, <1>13 DEF Copied
  <2>3. CASE n # table
    <3>1. Reached(n, r)
      <4>1. n \in Int /\ table \in Int
        BY <1>2 DEF Places
      <4>2. CASE Len(page) = PageSize
        BY <4>2, <1>0, <2>3 DEF Reached
      <4>3. CASE Len(page) # PageSize /\ table < 18
        <5>1. phase' = "exporting" /\ table' = table + 1 /\ last' = 0
          BY <4>3, <1>0
        <5>2. ~ (r.id <= last')
          BY <5>1, <2>1
        <5>3. n < table'
          BY <5>1, <5>2 DEF Reached
        <5> QED
          BY <5>1, <5>3, <4>1, <2>3 DEF Reached
      <4>4. CASE Len(page) # PageSize /\ ~ (table < 18)
        BY <4>4, <4>1, <1>2, <2>3 DEF Reached, Places
      <4> QED
        BY <4>2, <4>3, <4>4
    <3> QED
      BY <3>1, <2>2, <2>3, <1>9
  <2>4. CASE n = table
    <3>1. CASE r.id <= last
      BY <3>1, <2>2, <2>4, <1>8, <1>9 DEF Reached
    <3>2. CASE ~ (r.id <= last)
      <4>1. r.id > last /\ r \in Listed(T)
        BY <3>2, <2>1, <2>4, <1>2 DEF Listed
      <4>2. last = 0 \/ \E q \in Listed(T) : q.id = last
        BY <1>0, <1>1, <2>4 DEF CursorFacts
      <4>3. Len(page) # PageSize \/ r.id <= page[Len(page)].id
        BY <1>0, <2>4, <1>2 DEF Reached
      <4>4. PICK i \in DOMAIN page : page[i] = r
        BY <4>1, <4>2, <4>3, <1>4 DEF PageIsRight
      <4>5. Exported(T, r) \in Range(fetched)
        BY <4>4, <1>5, <1>6 DEF Range
      <4> QED
        BY <4>5, <2>4, <1>8, <1>9
    <3> QED
      BY <3>1, <3>2
  <2> QED
    BY <2>3, <2>4
<1>19. Sourced'
  <2> SUFFICES ASSUME NEW n \in Places, ~ changed, NEW i \in DOMAIN copy'[TableAt(n)]
               PROVE  \E r \in data[TableAt(n)] : /\ InScope(TableAt(n), r, scope)
                                                  /\ copy'[TableAt(n)][i] = Exported(TableAt(n), r)
    BY <1>0, <1>14 DEF Sourced, TableAt
  <2>1. CASE i \in DOMAIN copy[TableAt(n)] /\ copy'[TableAt(n)][i] = copy[TableAt(n)][i]
    BY <2>1, <1>1, <1>13 DEF Sourced
  <2>2. ASSUME n = table, NEW j \in DOMAIN page, copy'[TableAt(n)][i] = fetched[j]
        PROVE  \E r \in data[TableAt(n)] : /\ InScope(TableAt(n), r, scope)
                                           /\ copy'[TableAt(n)][i] = Exported(TableAt(n), r)
    BY <2>2, <1>5, <1>6 DEF Listed
  <2> QED
    BY <2>1, <2>2, <1>9, <1>10
<1>20. Traced'
  <2> SUFFICES ASSUME NEW n \in Places, NEW i \in DOMAIN copy'[TableAt(n)]
               PROVE  \E r \in Known(TableAt(n)) : Alike(r, copy'[TableAt(n)][i])
    BY <1>0 DEF Traced, TableAt, Alike, Known
  <2>1. CASE i \in DOMAIN copy[TableAt(n)] /\ copy'[TableAt(n)][i] = copy[TableAt(n)][i]
    BY <2>1, <1>1, <1>12 DEF Traced
  <2>2. ASSUME n = table, NEW j \in DOMAIN page, copy'[TableAt(n)][i] = fetched[j]
        PROVE  \E r \in Known(TableAt(n)) : Alike(r, copy'[TableAt(n)][i])
    <3>1. page[j] \in data[TableAt(n)] /\ fetched[j] = Exported(T, page[j])
      BY <2>2, <1>5, <1>6
    <3>2. Exported(T, page[j]).id = page[j].id /\ Exported(T, page[j]).name = page[j].name
      <4>1. IsRow(T, page[j])
        BY <2>2, <3>1, <1>3
      <4> QED
        BY <4>1 DEF Exported, IsRow
    <3> QED
      BY <2>2, <3>1, <3>2 DEF Known, Alike
  <2> QED
    BY <2>1, <2>2, <1>9, <1>10
<1> QED
  BY <1>11, <1>12, <1>13, <1>16, <1>17, <1>18, <1>19, <1>20 DEF FormatInvariant

(***************************************************************************)
(* What the parser accepts is what was written.                            *)
(***************************************************************************)
FilePlan(tables) ==
  <<<<"formatVersion", "3.0">>, <<"timestamp", 0>>, <<"scope", ScopeName>>,
    <<"tables", tables>>, <<"manifest", Manifest>>>>

ManifestPlan(counts) ==
  <<<<"formatVersion", "3.0">>, <<"checksumAlgorithm", "sha256">>,
    <<"checksum", TablesWritten>>, <<"tables", counts>>, <<"scope", ScopeName>>>>

LEMMA Cut ==
  ASSUME NEW s, IsSequence(s), NEW a \in 1..(Len(s) + 1), NEW b \in 0..Len(s)
  PROVE  /\ SubSeq(s, a, b) \in Seq(Range(s))
         /\ \A i \in DOMAIN SubSeq(s, a, b) : \E j \in DOMAIN s : SubSeq(s, a, b)[i] = s[j]
<1>1. s \in Seq(Range(s)) /\ Len(s) \in Nat /\ DOMAIN s = 1..Len(s)
  BY DEF IsSequence
<1>2. SubSeq(s, a, b) \in Seq(Range(s))
  BY <1>1
<1>3. \A i \in DOMAIN SubSeq(s, a, b) : SubSeq(s, a, b)[i] \in Range(s)
  BY <1>2
<1> QED
  BY <1>2, <1>3 DEF Range

(* Damage takes a part away or repeats one, and makes up none. *)
LEMMA EditedParts ==
  ASSUME NEW s, IsSequence(s), NEW at, damage.at = at => damage.index \in 1..Len(s)
  PROVE  /\ IsSequence(Edited(s, at))
         /\ \A i \in DOMAIN Edited(s, at) : \E j \in DOMAIN s : Edited(s, at)[i] = s[j]
<1> DEFINE e == Edited(s, at)
           k == damage.index
<1>1. s \in Seq(Range(s)) /\ Len(s) \in Nat /\ DOMAIN s = 1..Len(s)
  BY DEF IsSequence
<1>2. ASSUME e \in Seq(Range(s)) PROVE IsSequence(e) /\ \A i \in DOMAIN e : \E j \in DOMAIN s : e[i] = s[j]
  <2> HIDE DEF e
  <2>1. \A i \in DOMAIN e : e[i] \in Range(s)
    BY <1>2
  <2>2. Len(e) \in Nat /\ DOMAIN e = 1..Len(e) /\ e = [i \in 1..Len(e) |-> e[i]]
    BY <1>2
  <2>3. e \in [1..Len(e) -> Range(e)]
    BY <2>2 DEF Range
  <2> QED
    BY <2>1, <2>2, <2>3 DEF IsSequence, Range
<1>3. CASE damage.at # at
  BY <1>1, <1>2, <1>3 DEF Edited
<1>4. CASE damage.at = at /\ damage.kind = "drop"
  <2>1. /\ SubSeq(s, 1, k - 1) \in Seq(Range(s)) /\ SubSeq(s, k + 1, Len(s)) \in Seq(Range(s))
    BY <1>1, <1>4, Cut
  <2>2. e = SubSeq(s, 1, k - 1) \o SubSeq(s, k + 1, Len(s))
    BY <1>4 DEF Edited, RemoveAt
  <2>3. e \in Seq(Range(s))
    BY <2>1, <2>2
  <2> QED
    BY <1>2, <2>3
<1>5. CASE damage.at = at /\ damage.kind # "drop"
  <2>1. /\ SubSeq(s, 1, k - 1) \in Seq(Range(s)) /\ SubSeq(s, k, Len(s)) \in Seq(Range(s))
        /\ <<s[k]>> \in Seq(Range(s))
    BY <1>1, <1>5, Cut
  <2>2. e = SubSeq(s, 1, k - 1) \o <<s[k]>> \o SubSeq(s, k, Len(s))
    BY <1>5 DEF Edited, InsertAt
  <2>3. e \in Seq(Range(s))
    BY <2>1, <2>2
  <2> QED
    BY <1>2, <2>3
<1> QED
  BY <1>3, <1>4, <1>5

LEMMA OneValue ==
  ASSUME NEW s, IsSequence(s), Distinct(s), NEW i \in DOMAIN s
  PROVE  ValueOf(s, s[i][1]) = s[i][2]
<1>1. Len(s) \in Nat /\ DOMAIN s = 1..Len(s) /\ i \in Nat
  BY DEF IsSequence
<1>2. \A j \in (i + 1)..Len(s) : s[j][1] # s[i][1]
  BY <1>1 DEF Distinct
<1>3. \A j \in DOMAIN s : s[j][1] = s[i][1] => j = i
  BY DEF Distinct
<1> DEFINE fits(j) == s[j][1] = s[i][1] /\ \A m \in (j + 1)..Len(s) : s[m][1] # s[i][1]
<1>4. (CHOOSE j \in DOMAIN s : fits(j)) = i
  <2>1. fits(i) /\ \A j \in DOMAIN s : fits(j) => j = i
    BY <1>2, <1>3
  <2> HIDE DEF fits
  <2> QED
    BY <2>1
<1> QED
  BY <1>4 DEF ValueOf

LEMMA PlansAreSequences ==
  ASSUME NEW v
  PROVE  /\ IsSequence(FilePlan(v)) /\ Len(FilePlan(v)) = 5 /\ DOMAIN FilePlan(v) = 1..5
         /\ \A j \in 1..5 : FilePlan(v)[j][1] = "tables" => FilePlan(v)[j][2] = v
         /\ \A j \in 1..5 : FilePlan(v)[j][1] = "manifest" => FilePlan(v)[j][2] = Manifest
         /\ \A j \in 1..5 : FilePlan(v)[j][1] = "scope" => FilePlan(v)[j][2] = ScopeName
         /\ IsSequence(ManifestPlan(v)) /\ Len(ManifestPlan(v)) = 5
         /\ DOMAIN ManifestPlan(v) = 1..5
         /\ \A j \in 1..5 : ManifestPlan(v)[j][1] = "checksum" => ManifestPlan(v)[j][2] = TablesWritten
         /\ \A j \in 1..5 : ManifestPlan(v)[j][1] = "tables" => ManifestPlan(v)[j][2] = v
<1>1. ASSUME NEW a, NEW b, NEW c, NEW d, NEW e
      PROVE  /\ IsSequence(<<a, b, c, d, e>>) /\ Len(<<a, b, c, d, e>>) = 5
             /\ DOMAIN <<a, b, c, d, e>> = 1..5
  <2> DEFINE s == <<a, b, c, d, e>>
  <2>1. DOMAIN s = 1..5 /\ Len(s) = 5 /\ s \in Seq({a, b, c, d, e})
    OBVIOUS
  <2> HIDE DEF s
  <2>2. s \in [1..5 -> Range(s)]
    BY <2>1 DEF Range
  <2>3. ASSUME NEW n \in Nat, NEW R, s \in [1..n -> R] PROVE s \in Seq(R)
    BY <2>3
  <2>4. IsSequence(s)
    BY <2>2, <2>3 DEF IsSequence
  <2> QED
    BY <2>1, <2>4 DEF s
<1>2. /\ \A j \in 1..5 : FilePlan(v)[j][1] = "tables" => FilePlan(v)[j][2] = v
      /\ \A j \in 1..5 : FilePlan(v)[j][1] = "manifest" => FilePlan(v)[j][2] = Manifest
      /\ \A j \in 1..5 : FilePlan(v)[j][1] = "scope" => FilePlan(v)[j][2] = ScopeName
  <2>1. \A j \in 1..5 : j = 1 \/ j = 2 \/ j = 3 \/ j = 4 \/ j = 5
    OBVIOUS
  <2> QED
    BY <2>1 DEF FilePlan
<1>3. /\ \A j \in 1..5 : ManifestPlan(v)[j][1] = "checksum" => ManifestPlan(v)[j][2] = TablesWritten
      /\ \A j \in 1..5 : ManifestPlan(v)[j][1] = "tables" => ManifestPlan(v)[j][2] = v
  <2>1. \A j \in 1..5 : j = 1 \/ j = 2 \/ j = 3 \/ j = 4 \/ j = 5
    OBVIOUS
  <2> QED
    BY <2>1 DEF ManifestPlan
<1>4. IsSequence(FilePlan(v)) /\ Len(FilePlan(v)) = 5 /\ DOMAIN FilePlan(v) = 1..5
  BY <1>1 DEF FilePlan
<1>5. IsSequence(ManifestPlan(v)) /\ Len(ManifestPlan(v)) = 5 /\ DOMAIN ManifestPlan(v) = 1..5
  BY <1>1 DEF ManifestPlan
<1> QED
  BY <1>2, <1>3, <1>4, <1>5

LEMMA TablesInFile ==
  ASSUME copy = [T \in Tables |-> copy[T]]
  PROVE  /\ DOMAIN TablesWritten = Places /\ Len(TablesWritten) = 18 /\ IsSequence(TablesWritten)
         /\ \A n \in Places : /\ TablesWritten[n][1] = TableAt(n)
                              /\ TablesWritten[n][2] = copy[TableAt(n)]
         /\ Keys(TablesWritten) = Tables /\ Distinct(TablesWritten)
         /\ \A T \in Tables : ValueOf(TablesWritten, T) = copy[T]
         /\ \A T \in Tables : RowsOf(TablesWritten, T) = Range(copy[T])
<1> DEFINE w == TablesWritten
<1>1. w = [n \in 1..18 |-> <<TableAt(n), copy[TableAt(n)]>>]
  BY PlacesOfTables DEF TablesWritten, TableAt, Places
<1> HIDE DEF w
<1>2. DOMAIN w = Places /\ Len(w) = 18 /\ w \in [1..18 -> Range(w)]
  BY <1>1 DEF Places, Range
<1>3. ASSUME NEW n \in Nat, NEW R, w \in [1..n -> R] PROVE w \in Seq(R)
  BY <1>3
<1>4. IsSequence(w)
  BY <1>2, <1>3 DEF IsSequence
<1>5. \A n \in Places : w[n][1] = TableAt(n) /\ w[n][2] = copy[TableAt(n)]
  BY <1>1 DEF Places
<1>6. Keys(w) = Tables /\ Distinct(w)
  BY <1>2, <1>5, PlacesOfTables DEF Keys, Distinct
<1>7. ASSUME NEW T \in Tables PROVE ValueOf(w, T) = copy[T]
  <2>1. PICK n \in Places : TableAt(n) = T
    BY PlacesOfTables
  <2> QED
    BY <2>1, <1>2, <1>4, <1>5, <1>6, OneValue
<1>8. ASSUME NEW T \in Tables PROVE RowsOf(w, T) = Range(copy[T])
  BY <1>6, <1>7 DEF RowsOf, ToSet, Range
<1> QED
  BY <1>2, <1>4, <1>5, <1>6, <1>7, <1>8 DEF w

DamageFits == damage \in Damages

LEMMA DamageRange ==
  ASSUME DamageFits
  PROVE  /\ damage.at \in {"top", "manifest"} => damage.index \in 1..5
         /\ damage.at \in {"tables", "counts"} => damage.index \in 1..18
<1>1. CASE damage \in [kind : {"drop", "double"}, at : {"top", "manifest"}, index : 1..5]
  BY <1>1
<1>2. CASE damage \in [kind : {"drop", "double"}, at : {"tables", "counts"}, index : {1, 6, 18}]
  BY <1>2
<1>3. ASSUME NEW H, damage \in [kind : {"drop", "double"}, at : {"row", "counted row"}, index : H]
      PROVE  damage.at \notin {"top", "manifest", "tables", "counts"}
  BY <1>3
<1>4. CASE damage \in {[kind |-> "cut", at |-> "end", index |-> 0], NoDamage}
  BY <1>4 DEF NoDamage
<1> QED
  BY <1>1, <1>2, <1>3, <1>4, Zenon DEF DamageFits, Damages

(* What the parser reads of an accepted file. *)
LEMMA AcceptedParts ==
  ASSUME copy = [T \in Tables |-> copy[T]], DamageFits, NEW p, p = ParseStream(File), Accepted(p)
  PROVE  /\ p.tables = TablesWritten /\ p.tables = ValueOf(File, "tables")
         /\ TablesAreRead(p.tables) /\ ReferencesHold(p.tables)
         /\ Keys(File) \subseteq TopLevelKeys /\ Distinct(File) /\ IsSequence(File)
         /\ {"formatVersion", "manifest", "tables"} \subseteq Keys(File)
         /\ p.manifest = Manifest /\ ValueOf(File, "manifest") = Manifest
         /\ {"checksum", "tables"} \subseteq Keys(Manifest)
         /\ ValueOf(Manifest, "checksum") = TablesWritten
         /\ Keys(ValueOf(Manifest, "tables")) = Tables
         /\ Counted(TablesWritten, ValueOf(Manifest, "tables"))
         /\ damage.kind # "cut"
         /\ p.scope = "full" => RowsOf(p.tables, "User") # {}
         /\ p.scope = IF ValueOr(File, "scope", "full") = "season" THEN "season" ELSE "full"
<1>1. PICK v : File = Edited(FilePlan(v), "top")
  BY DEF File, FilePlan
<1>2. /\ IsSequence(File)
      /\ \A i \in DOMAIN File : \E j \in 1..5 : File[i] = FilePlan(v)[j]
  BY <1>1, PlansAreSequences, EditedParts, DamageRange
<1>3. PICK c : Manifest = Edited(ManifestPlan(c), "manifest")
  BY DEF Manifest, ManifestPlan
<1>4. /\ IsSequence(Manifest)
      /\ \A i \in DOMAIN Manifest : \E j \in 1..5 : Manifest[i] = ManifestPlan(c)[j]
  BY <1>3, PlansAreSequences, EditedParts, DamageRange
<1>5. /\ ~ p.bad
      /\ Keys(File) \subseteq TopLevelKeys /\ Distinct(File)
      /\ p.tables = ValueOr(File, "tables", << >>) /\ p.manifest = ValueOr(File, "manifest", << >>)
      /\ TablesAreRead(p.tables) /\ ManifestIsRead(p.manifest)
      /\ Complete(p.tables, p.manifest)
      /\ p.version = ValueOr(File, "formatVersion", "")
      /\ p.scope = IF ValueOr(File, "scope", "full") = "season" THEN "season" ELSE "full"
  BY DEF ParseStream, Accepted
<1>6. /\ p.version = "3.0" /\ "checksum" \in Keys(p.manifest)
      /\ Counted(p.tables, ValueOf(p.manifest, "tables"))
      /\ p.scope = "full" => RowsOf(p.tables, "User") # {}
      /\ ValueOf(p.manifest, "checksum") = p.tables
      /\ ReferencesHold(p.tables)
  BY DEF Accepted, Integrity
<1>7. p.manifest # << >>
  <2>1. Keys(<< >>) = {}
    BY DEF Keys
  <2> QED
    BY <2>1, <1>6
<1>8. "manifest" \in Keys(File) /\ ValueOf(File, "manifest") = Manifest
  <2>1. "manifest" \in Keys(File)
    BY <1>5, <1>7 DEF ValueOr
  <2>2. PICK i \in DOMAIN File : File[i][1] = "manifest"
    BY <2>1 DEF Keys
  <2>3. File[i][2] = Manifest
    BY <2>2, <1>2, PlansAreSequences
  <2> QED
    BY <2>1, <2>2, <2>3, <1>2, <1>5, OneValue
<1>9. p.manifest = Manifest
  BY <1>5, <1>8 DEF ValueOr
<1>10. ValueOf(Manifest, "checksum") = TablesWritten
  <2>1. PICK i \in DOMAIN Manifest : Manifest[i][1] = "checksum"
    BY <1>6, <1>9 DEF Keys
  <2>2. Manifest[i][2] = TablesWritten
    BY <2>1, <1>4, PlansAreSequences
  <2>3. Distinct(Manifest)
    BY <1>5, <1>9 DEF ManifestIsRead
  <2> QED
    BY <2>1, <2>2, <2>3, <1>4, OneValue
<1>11. "tables" \in Keys(File) /\ p.tables = ValueOf(File, "tables")
  <2>1. p.tables # << >>
    <3>1. Keys(<< >>) = {} /\ Tables # {}
      BY TableKinds DEF Keys
    <3> QED
      BY <3>1, <1>5 DEF Complete
  <2> QED
    BY <2>1, <1>5 DEF ValueOr
<1>12. "formatVersion" \in Keys(File)
  BY <1>5, <1>6 DEF ValueOr
<1>13. /\ damage.kind # "cut" /\ "tables" \in Keys(Manifest)
       /\ Keys(ValueOf(Manifest, "tables")) = Tables
  BY <1>5, <1>7, <1>9 DEF Complete
<1> QED
  BY <1>2, <1>5, <1>6, <1>8, <1>9, <1>10, <1>11, <1>12, <1>13

LEMMA CompositeTables ==
  /\ DOMAIN CompositeKeys \subseteq Tables /\ DOMAIN CompositeKeys \subseteq DOMAIN Keyed
  /\ \A T \in DOMAIN CompositeKeys : CompositeKeys[T] \subseteq DOMAIN Keyed[T]
  /\ "Player" \notin DOMAIN CompositeKeys
<1>1. DOMAIN CompositeKeys = {"Prediction", "SeasonTeamProfile", "SeasonDeletionApproval",
                              "SeasonTeamPlayer", "MatchLineup", "SeasonGroupTeam"}
  BY DEF CompositeKeys
<1>2. DOMAIN CompositeKeys \subseteq DOMAIN Keyed /\ "TeamRegistration" \notin DOMAIN CompositeKeys
  BY <1>1, KeyedTables
<1>3. \A T \in DOMAIN CompositeKeys : CompositeKeys[T] \subseteq DOMAIN Keyed[T]
  <2>1. /\ CompositeKeys["Prediction"] \subseteq DOMAIN Keyed["Prediction"]
        /\ CompositeKeys["SeasonTeamProfile"] \subseteq DOMAIN Keyed["SeasonTeamProfile"]
        /\ CompositeKeys["SeasonDeletionApproval"] \subseteq DOMAIN Keyed["SeasonDeletionApproval"]
        /\ CompositeKeys["SeasonTeamPlayer"] \subseteq DOMAIN Keyed["SeasonTeamPlayer"]
        /\ CompositeKeys["MatchLineup"] \subseteq DOMAIN Keyed["MatchLineup"]
        /\ CompositeKeys["SeasonGroupTeam"] \subseteq DOMAIN Keyed["SeasonGroupTeam"]
    BY SMTT(60) DEF CompositeKeys, Keyed
  <2> QED
    BY <1>1, <2>1
<1> QED
  BY <1>1, <1>2, <1>3, KeyedTables

LEMMA MergedAlone ==
  ASSUME NEW s, IsSequence(s), Distinct(s)
  PROVE  Merged(s) = [n \in 1..Len(s) |-> <<s[n][1], s[n][2]>>]
<1> DEFINE firsts == {i \in DOMAIN s : \A j \in 1..(i - 1) : s[j][1] # s[i][1]}
           place(n) == CHOOSE i \in firsts : Cardinality({j \in firsts : j <= i}) = n
<1>1. Len(s) \in Nat /\ DOMAIN s = 1..Len(s)
  BY DEF IsSequence
<1>2. firsts = 1..Len(s)
  <2>1. ASSUME NEW i \in DOMAIN s, NEW j \in 1..(i - 1) PROVE s[j][1] # s[i][1]
    <3>1. j \in DOMAIN s /\ j # i
      BY <1>1, <2>1
    <3> QED
      BY <3>1 DEF Distinct
  <2> QED
    BY <1>1, <2>1
<1>3. \A i \in 1..Len(s) : Cardinality({j \in firsts : j <= i}) = i
  <2> SUFFICES ASSUME NEW i \in 1..Len(s) PROVE Cardinality({j \in firsts : j <= i}) = i
    OBVIOUS
  <2>1. {j \in firsts : j <= i} = 1..i
    BY <1>1, <1>2
  <2>2. Cardinality(1..i) = i
    BY FS_Interval
  <2> QED
    BY <2>1, <2>2
<1>4. Cardinality(firsts) = Len(s)
  <2>1. Cardinality(1..Len(s)) = IF 1 > Len(s) THEN 0 ELSE Len(s) - 1 + 1
    BY <1>1, FS_Interval
  <2> HIDE DEF firsts
  <2>2. Cardinality(1..Len(s)) = Len(s)
    BY <1>1, <2>1
  <2> QED
    BY <1>2, <2>2
<1> HIDE DEF firsts
<1>5. \A n \in 1..Len(s) : place(n) = n
  BY <1>2, <1>3
<1>6. Merged(s) = [n \in 1..Cardinality(firsts) |->
                     <<s[place(n)][1], ValueOf(s, s[place(n)][1])>>]
  BY DEF Merged, firsts
<1> HIDE DEF place
<1>7. \A n \in 1..Len(s) : ValueOf(s, s[n][1]) = s[n][2]
  BY <1>1, OneValue
<1> QED
  BY <1>4, <1>5, <1>6, <1>7

(* What passes is what was written, and passes the check in memory.        *)
LEMMA WholeAndAccepted ==
  ASSUME copy = [T \in Tables |-> copy[T]], DamageFits, NEW p, p = ParseStream(File), Accepted(p)
  PROVE  /\ \A T \in Tables : ValueOf(p.tables, T) = copy[T]
         /\ "checksumAlgorithm" \in Keys(Manifest) => MemoryAccepts(File)
<1> DEFINE counts == ValueOf(Manifest, "tables")
<1>1. /\ p.tables = TablesWritten /\ p.tables = ValueOf(File, "tables")
      /\ TablesAreRead(p.tables) /\ ReferencesHold(p.tables)
      /\ Keys(File) \subseteq TopLevelKeys /\ Distinct(File) /\ IsSequence(File)
      /\ {"formatVersion", "manifest", "tables"} \subseteq Keys(File)
      /\ p.manifest = Manifest /\ ValueOf(File, "manifest") = Manifest
      /\ {"checksum", "tables"} \subseteq Keys(Manifest)
      /\ ValueOf(Manifest, "checksum") = TablesWritten
      /\ Keys(counts) = Tables
      /\ Counted(TablesWritten, counts)
      /\ damage.kind # "cut"
      /\ p.scope = "full" => RowsOf(p.tables, "User") # {}
      /\ p.scope = IF ValueOr(File, "scope", "full") = "season" THEN "season" ELSE "full"
  BY AcceptedParts
<1>2. Merged(TablesWritten) = TablesWritten
  <2>1. Merged(TablesWritten) = [n \in 1..18 |-> <<TablesWritten[n][1], TablesWritten[n][2]>>]
    BY TablesInFile, MergedAlone
  <2>2. TablesWritten = [n \in 1..18 |-> <<TableAt(n), copy[TableAt(n)]>>]
    BY PlacesOfTables DEF TablesWritten, TableAt, Places
  <2> QED
    BY <2>1, <2>2
<1>3. MemoryScope(File) = "full" => RowsOf(p.tables, "User") # {}
  <2>1. CASE "scope" \in Keys(File)
    BY <2>1, <1>1 DEF MemoryScope, ValueOr
  <2>2. CASE "scope" \notin Keys(File)
    BY <2>2, <1>1 DEF ValueOr
  <2> QED
    BY <2>1, <2>2
<1>4. ASSUME NEW T \in DOMAIN CompositeKeys, NEW r \in RowsOf(TablesWritten, T),
             NEW q \in RowsOf(TablesWritten, T), r # q
      PROVE  \E f \in CompositeKeys[T] : r.ref[f] # q.ref[f]
  <2>1. T \in Tables
    BY CompositeTables
  <2>2. RowsOf(TablesWritten, T) = Range(copy[T])
    BY <2>1, TablesInFile
  <2>3. PICK i \in DOMAIN copy[T] : r = copy[T][i]
    BY <2>2 DEF Range
  <2>4. PICK j \in DOMAIN copy[T] : q = copy[T][j]
    BY <2>2 DEF Range
  <2>5. PICK n \in Places : TableAt(n) = T
    BY <2>1, PlacesOfTables
  <2>6. Staged(T, copy[T])
    BY <2>5, <1>1, TablesInFile DEF TablesAreRead
  <2> QED
    BY <2>3, <2>4, <2>6, <1>4 DEF Staged
<1>5. ASSUME "checksumAlgorithm" \in Keys(Manifest) PROVE MemoryAccepts(File)
  <2> DEFINE tables == Merged(ValueOf(File, "tables"))
  <2>1. tables = TablesWritten /\ Keys(tables) = Tables
    BY <1>1, <1>2, TablesInFile
  <2> HIDE DEF tables
  <2>2. /\ Keys(tables) = Tables /\ Tables \subseteq Keys(counts)
        /\ Counted(tables, counts)
        /\ MemoryScope(File) = "full" => RowsOf(tables, "User") # {}
        /\ tables = ValueOf(Manifest, "checksum")
        /\ ReferencesHold(tables)
        /\ \A T \in DOMAIN CompositeKeys : \A r, q \in RowsOf(tables, T) :
             r # q => \E f \in CompositeKeys[T] : r.ref[f] # q.ref[f]
    BY <1>1, <1>3, <1>4, <2>1
  <2>3. {"checksumAlgorithm", "checksum", "tables"} \subseteq Keys(Manifest)
    BY <1>1, <1>5
  <2> QED
    BY <1>1, <2>2, <2>3 DEF MemoryAccepts, tables
<1> QED
  BY <1>1, <1>5, TablesInFile

(***************************************************************************)
(* The stored file, and the restore.                                       *)
(***************************************************************************)
LEMMA SettledKeeps ==
  ASSUME FormatInvariant, phase \in {"stored", "sent", "accepted", "restoring"},
         phase' \in {"sent", "accepted", "refused", "restoring"},
         UNCHANGED <<data, scope, table, last, copy, joined, throughout, cut, gone, changed,
                     renamed>>,
         FormatTypes', Joining', ReadBack', PutBack'
  PROVE  FormatInvariant'
<1>1. /\ Database /\ Copies /\ NothingYet /\ Flags /\ Since /\ CursorFacts
      /\ Copied /\ Sourced /\ Traced /\ NamesKept
  BY DEF FormatInvariant
<1>2. AtWork /\ AtWork' /\ Begun /\ Begun'
  BY DEF AtWork, Begun
<1>3. \A S, r : /\ InScope(S, r, scope)' <=> InScope(S, r, scope)
                /\ Exported(S, r)' = Exported(S, r)
  BY ScopeStays
<1>4. Database' /\ Copies' /\ NothingYet' /\ Flags' /\ Since'
  BY <1>1, <1>2 DEF Database, Copies, NothingYet, Flags, Since, TableAt
<1>5. CursorFacts' /\ Traced' /\ NamesKept'
  BY <1>1, <1>2 DEF CursorFacts, Traced, NamesKept, Known, Alike, TableAt
<1>6. Copied'
  BY <1>1, <1>2, <1>3 DEF Copied, Undisturbed, Reached, TableAt
<1>7. Sourced'
  BY <1>1, <1>2, <1>3 DEF Sourced, TableAt
<1> QED
  BY <1>4, <1>5, <1>6, <1>7 DEF FormatInvariant

LEMMA DamageKeeps ==
  ASSUME FormatInvariant, NEW d \in Damages, Damage(d)
  PROVE  FormatInvariant'
<1>1. /\ phase = "stored" /\ phase' = "sent" /\ damage' = d
      /\ UNCHANGED <<data, scope, table, last, copy, result, step, written, joined, throughout,
                     cut, gone, changed, renamed>>
  BY DEF Damage, reading, transaction, history
<1>2. Damages' = Damages
  BY <1>1 DEF Damages
<1>3. ReadBack'
  BY <1>1, <1>2 DEF ReadBack
<1>4. FormatTypes' /\ Joining' /\ PutBack'
  BY <1>1 DEF FormatInvariant, FormatTypes, Joining, AtWork, PutBack
<1> QED
  BY <1>1, <1>3, <1>4, SettledKeeps

LEMMA VerifyKeeps ==
  ASSUME FormatInvariant, Verify
  PROVE  FormatInvariant'
<1>1. /\ phase = "sent" /\ result' = ParseStream(File)
      /\ phase' = IF Accepted(result') THEN "accepted" ELSE "refused"
      /\ UNCHANGED <<data, scope, table, last, copy, damage, step, written, joined, throughout,
                     cut, gone, changed, renamed>>
  BY DEF Verify, reading, transaction, history
<1>2. File' = File /\ ParseStream(File)' = ParseStream(File) /\ Damages' = Damages
  BY <1>1, FileStays
<1>3. damage \in Damages
  BY <1>1 DEF FormatInvariant, ReadBack
<1>4. Accepted(ParseStream(File))' <=> Accepted(ParseStream(File))
  BY <1>2 DEF Accepted, Integrity
<1>5. Accepted(result)' <=> Accepted(ParseStream(File))
  BY <1>1 DEF Accepted, Integrity
<1>6. ReadBack'
  BY <1>1, <1>2, <1>3, <1>4, <1>5 DEF ReadBack
<1>7. FormatTypes' /\ Joining' /\ PutBack'
  BY <1>1 DEF FormatInvariant, FormatTypes, Joining, AtWork, PutBack
<1> QED
  BY <1>1, <1>6, <1>7, SettledKeeps

LEMMA OrdersOfRestore ==
  /\ Len(RestoreInsertOrder) = 18
  /\ \A n \in Places : RestoreInsertOrder[n] \in Tables
  /\ \A T \in Tables : \E n \in Places : RestoreInsertOrder[n] = T
  /\ \A m, n \in Places : RestoreInsertOrder[m] = RestoreInsertOrder[n] => m = n
  /\ ToSet(RestoreDeleteOrder) = Tables
<1>1. Len(RestoreInsertOrder) = 18
  BY DEF RestoreInsertOrder
<1> DEFINE all == {"User", "MemberAccount", "Team", "Player", "Season", "Match", "Prediction",
       "Goal", "MatchEvent", "News", "AuditLog", "SeasonTeamProfile",
       "HistoryImportBatch", "SeasonDeletionApproval", "SeasonTeamPlayer",
       "MatchLineup", "SeasonGroupTeam", "PdfImportBatch"}
<1>2. \A n \in Places : TableAt(n) \in all
  BY SMTT(30) DEF Places, TableAt, MandatoryTables
<1>3. all \subseteq Tables
  BY AllTablesNamed
<1>4. Tables = all
  BY <1>2, <1>3, PlacesOfTables
<1>5. /\ RestoreInsertOrder[1] = "User" /\ RestoreInsertOrder[2] = "MemberAccount"
      /\ RestoreInsertOrder[3] = "Season" /\ RestoreInsertOrder[4] = "Team"
      /\ RestoreInsertOrder[5] = "Player" /\ RestoreInsertOrder[6] = "Match"
      /\ RestoreInsertOrder[7] = "SeasonTeamProfile" /\ RestoreInsertOrder[8] = "SeasonGroupTeam"
      /\ RestoreInsertOrder[9] = "SeasonTeamPlayer"
      /\ RestoreInsertOrder[10] = "SeasonDeletionApproval"
      /\ RestoreInsertOrder[11] = "MatchLineup" /\ RestoreInsertOrder[12] = "Goal"
      /\ RestoreInsertOrder[13] = "MatchEvent" /\ RestoreInsertOrder[14] = "Prediction"
      /\ RestoreInsertOrder[15] = "News" /\ RestoreInsertOrder[16] = "AuditLog"
      /\ RestoreInsertOrder[17] = "HistoryImportBatch" /\ RestoreInsertOrder[18] = "PdfImportBatch"
  BY DEF RestoreInsertOrder
<1>6. \A n \in Places : RestoreInsertOrder[n] \in all
  BY <1>5, SMTT(30) DEF Places
<1>7. \A T \in all : \E n \in Places : RestoreInsertOrder[n] = T
  <2>1. /\ 1 \in Places /\ 2 \in Places /\ 3 \in Places /\ 4 \in Places /\ 5 \in Places
        /\ 6 \in Places /\ 7 \in Places /\ 8 \in Places /\ 9 \in Places /\ 10 \in Places
        /\ 11 \in Places /\ 12 \in Places /\ 13 \in Places /\ 14 \in Places
        /\ 15 \in Places /\ 16 \in Places /\ 17 \in Places /\ 18 \in Places
    BY DEF Places
  <2> QED
    BY <1>5, <2>1
<1>8. \A m, n \in Places : RestoreInsertOrder[m] = RestoreInsertOrder[n] => m = n
  BY SMTT(30) DEF Places, RestoreInsertOrder
<1>9. ToSet(RestoreDeleteOrder) = all
  <2>1. DOMAIN RestoreDeleteOrder = 1..18
    BY DEF RestoreDeleteOrder
  <2>2. \A n \in 1..18 : RestoreDeleteOrder[n] \in all
    BY SMTT(30) DEF RestoreDeleteOrder
  <2>3. /\ RestoreDeleteOrder[1] = "MatchLineup" /\ RestoreDeleteOrder[2] = "SeasonTeamPlayer"
        /\ RestoreDeleteOrder[3] = "SeasonTeamProfile" /\ RestoreDeleteOrder[4] = "SeasonGroupTeam"
        /\ RestoreDeleteOrder[5] = "SeasonDeletionApproval" /\ RestoreDeleteOrder[6] = "Goal"
        /\ RestoreDeleteOrder[7] = "MatchEvent" /\ RestoreDeleteOrder[8] = "Prediction"
        /\ RestoreDeleteOrder[9] = "Player" /\ RestoreDeleteOrder[10] = "Match"
        /\ RestoreDeleteOrder[11] = "Team" /\ RestoreDeleteOrder[12] = "User"
        /\ RestoreDeleteOrder[13] = "MemberAccount" /\ RestoreDeleteOrder[14] = "Season"
        /\ RestoreDeleteOrder[15] = "News" /\ RestoreDeleteOrder[16] = "AuditLog"
        /\ RestoreDeleteOrder[17] = "HistoryImportBatch"
        /\ RestoreDeleteOrder[18] = "PdfImportBatch"
    BY DEF RestoreDeleteOrder
  <2>4. \A n \in 1..18 : RestoreDeleteOrder[n] \in ToSet(RestoreDeleteOrder)
    BY <2>1 DEF ToSet
  <2>5. all \subseteq ToSet(RestoreDeleteOrder)
    <3>1. /\ 1 \in 1..18 /\ 2 \in 1..18 /\ 3 \in 1..18 /\ 4 \in 1..18 /\ 5 \in 1..18
          /\ 6 \in 1..18 /\ 7 \in 1..18 /\ 8 \in 1..18 /\ 9 \in 1..18 /\ 10 \in 1..18
          /\ 11 \in 1..18 /\ 12 \in 1..18 /\ 13 \in 1..18 /\ 14 \in 1..18
          /\ 15 \in 1..18 /\ 16 \in 1..18 /\ 17 \in 1..18 /\ 18 \in 1..18
      OBVIOUS
    <3> QED
      BY <2>3, <2>4, <3>1
  <2> HIDE DEF all
  <2> QED
    BY <2>1, <2>2, <2>5 DEF ToSet
<1> QED
  BY <1>1, <1>4, <1>6, <1>7, <1>8, <1>9

(* A table is inserted after those it refers to, but for the references    *)
(* that are put off.                                                       *)
LEMMA OrderOfReferences ==
  ASSUME NEW n \in Places, NEW T, T = RestoreInsertOrder[n], T \in DOMAIN Keyed,
         NEW f \in DOMAIN Keyed[T]
  PROVE  \/ T \in DOMAIN PutOff /\ PutOff[T] = f
         \/ \E m \in Places : m < n /\ RestoreInsertOrder[m] = Keyed[T][f]
<1>0. \A k \in Places : RestoreInsertOrder[n] = RestoreInsertOrder[k] => n = k
  BY OrdersOfRestore
<1>1. /\ 1 \in Places /\ 2 \in Places /\ 3 \in Places /\ 4 \in Places /\ 5 \in Places
      /\ 6 \in Places
  BY DEF Places
<1>2. /\ RestoreInsertOrder[1] = "User" /\ RestoreInsertOrder[2] = "MemberAccount"
      /\ RestoreInsertOrder[3] = "Season" /\ RestoreInsertOrder[4] = "Team"
      /\ RestoreInsertOrder[5] = "Player" /\ RestoreInsertOrder[6] = "Match"
  BY DEF RestoreInsertOrder
<1>3. DOMAIN PutOff = {"Player", "Match", "User"} /\ PutOff["Player"] = "suspendedAtMatchId"
      /\ PutOff["Match"] = "mvpPlayerId" /\ PutOff["User"] = "teamId"
  BY DEF PutOff
<1>4. CASE T = "User"
  BY <1>3, <1>4 DEF Keyed
<1>5. CASE T = "Player"
  <2>1. n = 5
    BY <1>0, <1>1, <1>2, <1>5
  <2>2. f = "suspendedAtMatchId" \/ Keyed["Player"][f] = "Team"
    BY <1>5 DEF Keyed
  <2> QED
    BY <2>1, <2>2, <1>1, <1>2, <1>3, <1>5
<1>6. CASE T = "Match"
  <2>1. n = 6
    BY <1>0, <1>1, <1>2, <1>6
  <2>2. f = "mvpPlayerId" \/ Keyed["Match"][f] = "Team" \/ Keyed["Match"][f] = "Season"
    BY <1>6 DEF Keyed
  <2> QED
    BY <2>1, <2>2, <1>1, <1>2, <1>3, <1>6
<1>7. CASE T \notin {"User", "Player", "Match"}
  <2>1. T \notin {"MemberAccount", "Season", "Team"}
    BY KeyedTables
  <2>2. n > 6
    BY <1>2, <1>7, <2>1 DEF Places
  <2>3. Keyed[T][f] \in {"Team", "Match", "Season", "Player", "MemberAccount", "User"}
    BY KeyedFields
  <2>4. 1 < n /\ 2 < n /\ 3 < n /\ 4 < n /\ 5 < n /\ 6 < n
    BY <2>2 DEF Places
  <2>5. \E m \in {1, 2, 3, 4, 5, 6} : RestoreInsertOrder[m] = Keyed[T][f]
    BY <2>3, <1>2
  <2> QED
    BY <2>4, <2>5, <1>1
<1> QED
  BY <1>4, <1>5, <1>6, <1>7

(* What the restore works with. *)
LEMMA RowsToRestore ==
  ASSUME FormatInvariant, phase \in {"accepted", "restoring"}
  PROVE  /\ \A T \in Tables : RowsOf(result.tables, T) = Range(copy[T])
         /\ \A T \in Tables : \A r \in Range(copy[T]) : IsRow(T, r)
         /\ \A T \in Tables \cap DOMAIN Keyed : \A r \in Range(copy[T]) : \A f \in DOMAIN Keyed[T] :
              r.ref[f] = 0 \/ \E t \in Range(copy[Keyed[T][f]]) : t.id = r.ref[f]
         /\ \A T \in Tables : Staged(T, copy[T])
<1>1. /\ copy = [T \in Tables |-> copy[T]] /\ Copies
      /\ DamageFits /\ result = ParseStream(File) /\ Accepted(result)
  BY DEF FormatInvariant, FormatTypes, ReadBack, DamageFits
<1>2. result.tables = TablesWritten /\ TablesAreRead(result.tables) /\ ReferencesHold(result.tables)
  BY <1>1, AcceptedParts
<1>3. \A T \in Tables : RowsOf(result.tables, T) = Range(copy[T])
  BY <1>1, <1>2, TablesInFile
<1>4. \A T \in Tables : \A r \in Range(copy[T]) : IsRow(T, r)
  <2> SUFFICES ASSUME NEW T \in Tables, NEW i \in DOMAIN copy[T] PROVE IsRow(T, copy[T][i])
    BY DEF Range
  <2>1. PICK n \in Places : TableAt(n) = T
    BY PlacesOfTables
  <2> QED
    BY <2>1, <1>1 DEF Copies
<1>5. ASSUME NEW T \in Tables \cap DOMAIN Keyed, NEW r \in Range(copy[T]), NEW f \in DOMAIN Keyed[T]
      PROVE  r.ref[f] = 0 \/ \E t \in Range(copy[Keyed[T][f]]) : t.id = r.ref[f]
  <2>1. Keyed[T][f] \in Tables
    BY KeyedTables
  <2>2. r.ref[f] = 0 \/ \E t \in RowsOf(result.tables, Keyed[T][f]) : t.id = r.ref[f]
    BY <1>2, <1>3 DEF ReferencesHold
  <2> QED
    BY <2>1, <2>2, <1>3
<1>6. ASSUME NEW T \in Tables PROVE Staged(T, copy[T])
  <2>1. PICK n \in Places : TableAt(n) = T
    BY PlacesOfTables
  <2>2. /\ DOMAIN TablesWritten = Places
        /\ TablesWritten[n][1] = T /\ TablesWritten[n][2] = copy[T]
    BY <2>1, <1>1, TablesInFile
  <2> QED
    BY <2>2, <1>2 DEF TablesAreRead
<1> QED
  BY <1>3, <1>4, <1>5, <1>6

LEMMA PutOffRow ==
  ASSUME NEW T, NEW r, IsRow(T, r)
  PROVE  /\ WithoutPutOff(T, r).id = r.id /\ WithoutPutOff(T, r).name = r.name
         /\ T \notin DOMAIN PutOff => WithoutPutOff(T, r) = r
         /\ T \in DOMAIN PutOff => WithoutPutOff(T, r).ref[PutOff[T]] = 0
         /\ \A f : ~ (T \in DOMAIN PutOff /\ PutOff[T] = f) => WithoutPutOff(T, r).ref[f] = r.ref[f]
<1>1. CASE T \notin DOMAIN PutOff
  BY <1>1 DEF WithoutPutOff
<1>2. CASE T \in DOMAIN PutOff
  <2> DEFINE f == PutOff[T]
             e == [r EXCEPT !.ref[f] = 0]
  <2>1. WithoutPutOff(T, r) = e
    BY <1>2 DEF WithoutPutOff
  <2>2. T \in DOMAIN Keyed /\ f \in DOMAIN Keyed[T]
    <3>1. \/ T = "Player" /\ f = "suspendedAtMatchId"
          \/ T = "Match" /\ f = "mvpPlayerId"
          \/ T = "User" /\ f = "teamId"
      BY <1>2 DEF PutOff
    <3>2. /\ "suspendedAtMatchId" \in DOMAIN Keyed["Player"]
          /\ "mvpPlayerId" \in DOMAIN Keyed["Match"] /\ "teamId" \in DOMAIN Keyed["User"]
      BY DEF Keyed
    <3>3. T \in DOMAIN Keyed
      BY <3>1, KeyedTables
    <3> QED
      BY <3>1, <3>2, <3>3
  <2> HIDE DEF f
  <2>3. r = [id |-> r.id, ref |-> r.ref, name |-> r.name] /\ r.ref \in [DOMAIN Keyed[T] -> Nat]
    BY <2>2 DEF IsRow
  <2>4. e = [id |-> r.id, ref |-> [r.ref EXCEPT ![f] = 0], name |-> r.name]
    BY <2>3
  <2>5. /\ e.id = r.id /\ e.name = r.name /\ e.ref = [r.ref EXCEPT ![f] = 0]
    BY <2>4
  <2> HIDE DEF e
  <2>6. e.ref[f] = 0
    BY <2>2, <2>3, <2>5
  <2>7. \A g : g # f => e.ref[g] = r.ref[g]
    <3>1. ASSUME NEW D, NEW h \in [D -> Nat], NEW g, g # f PROVE [h EXCEPT ![f] = 0][g] = h[g]
      <4>1. CASE g \in D
        BY <4>1, <3>1
      <4>2. CASE g \notin D
        BY <4>2, <3>1
      <4> QED
        BY <4>1, <4>2
    <3> QED
      BY <3>1, <2>3, <2>5
  <2> QED
    BY <2>1, <2>5, <2>6, <2>7, <1>2 DEF f
<1> QED
  BY <1>1, <1>2

LEMMA CompositesAreWhole == \A T \in DOMAIN CompositeKeys : T \notin DOMAIN PutOff
<1>1. DOMAIN PutOff = {"Player", "Match", "User"}
  BY DEF PutOff
<1>2. {"Player", "Match", "User"} \cap DOMAIN CompositeKeys = {}
  BY DEF CompositeKeys
<1> QED
  BY <1>1, <1>2

LEMMA RowsAreApart ==
  ASSUME FormatInvariant, phase \in {"accepted", "restoring"}, ~ renamed,
         NEW T \in Tables, NEW r \in Range(copy[T]), NEW q \in Range(copy[T]), r # q
  PROVE  ~ SameKey(T, r, q) /\ ~ SameKey(T, WithoutPutOff(T, r), WithoutPutOff(T, q))
<1>1. PICK i \in DOMAIN copy[T] : r = copy[T][i]
  BY DEF Range
<1>2. PICK j \in DOMAIN copy[T] : q = copy[T][j]
  BY DEF Range
<1>3. PICK n \in Places : TableAt(n) = T
  BY PlacesOfTables
<1>4. i # j /\ Staged(T, copy[T]) /\ IsRow(T, r) /\ IsRow(T, q)
  BY <1>1, <1>2, RowsToRestore
<1>5. r.id # q.id
  BY <1>1, <1>2, <1>4 DEF Staged
<1>6. T \in DOMAIN CompositeKeys => \E f \in CompositeKeys[T] : r.ref[f] # q.ref[f]
  BY <1>1, <1>2, <1>4 DEF Staged
<1>7. r.name = "" \/ r.name # q.name
  <2>1. AtWork /\ Traced /\ NamesKept
    BY DEF FormatInvariant, AtWork
  <2>2. PICK a \in Known(T) : Alike(a, r)
    BY <2>1, <1>1, <1>3 DEF Traced
  <2>3. PICK b \in Known(T) : Alike(b, q)
    BY <2>1, <1>2, <1>3 DEF Traced
  <2> QED
    BY <2>1, <2>2, <2>3, <1>5 DEF NamesKept, Alike
<1>8. T \in DOMAIN CompositeKeys => T \notin DOMAIN PutOff
  BY CompositesAreWhole
<1>9. ~ SameKey(T, r, q)
  BY <1>5, <1>6, <1>7 DEF SameKey
<1>10. ~ SameKey(T, WithoutPutOff(T, r), WithoutPutOff(T, q))
  <2> DEFINE a == WithoutPutOff(T, r)
             b == WithoutPutOff(T, q)
  <2>1. /\ a.id = r.id /\ a.name = r.name /\ b.id = q.id /\ b.name = q.name
        /\ T \in DOMAIN CompositeKeys => a = r /\ b = q
    BY <1>4, <1>8, PutOffRow
  <2> HIDE DEF a, b
  <2>2. ~ SameKey(T, a, b)
    BY <2>1, <1>5, <1>6, <1>7 DEF SameKey
  <2> QED
    BY <2>2 DEF a, b
<1> QED
  BY <1>9, <1>10

(* The first tables in the order of the restore fit without the others. *)
LEMMA PrefixFits ==
  ASSUME FormatInvariant, phase = "restoring", NEW k \in 1..19, NEW d,
         \A m \in Places : d[RestoreInsertOrder[m]] =
           IF m < k THEN Inserted(RestoreInsertOrder[m]) ELSE {},
         d["TeamRegistration"] = {}
  PROVE  Closed(d) /\ (~ renamed => Unique(d))
<1>2. ASSUME NEW T \in DOMAIN Keyed, NEW r \in d[T], NEW f \in DOMAIN Keyed[T]
      PROVE  r.ref[f] = 0 \/ \E t \in d[Keyed[T][f]] : t.id = r.ref[f]
  <2>1. T \in Tables
    BY <1>2, KeyedTables
  <2>2. PICK m \in Places : RestoreInsertOrder[m] = T
    BY <2>1, OrdersOfRestore
  <2>3. m < k /\ d[T] = Inserted(T)
    BY <2>2, <1>2
  <2>4. PICK q \in Range(copy[T]) : r = WithoutPutOff(T, q)
    BY <2>3, <1>2 DEF Inserted
  <2>5. IsRow(T, q)
    BY <2>1, <2>4, RowsToRestore
  <2>6. CASE T \in DOMAIN PutOff /\ PutOff[T] = f
    BY <2>4, <2>5, <2>6, PutOffRow
  <2>7. CASE ~ (T \in DOMAIN PutOff /\ PutOff[T] = f)
    <3>1. r.ref[f] = q.ref[f]
      BY <2>4, <2>5, <2>7, PutOffRow
    <3>2. q.ref[f] = 0 \/ \E t \in Range(copy[Keyed[T][f]]) : t.id = q.ref[f]
      BY <2>1, <2>4, <1>2, RowsToRestore
    <3>3. PICK o \in Places : o < m /\ RestoreInsertOrder[o] = Keyed[T][f]
      BY <2>2, <2>7, OrderOfReferences
    <3>4. d[Keyed[T][f]] = Inserted(Keyed[T][f])
      <4>1. o < k
        BY <3>3, <2>3 DEF Places
      <4> QED
        BY <4>1, <3>3
    <3>5. ASSUME NEW t \in Range(copy[Keyed[T][f]]), t.id = q.ref[f]
          PROVE  \E u \in d[Keyed[T][f]] : u.id = r.ref[f]
      <4>1. IsRow(Keyed[T][f], t)
        BY <3>5, KeyedTables, RowsToRestore
      <4>2. WithoutPutOff(Keyed[T][f], t) \in d[Keyed[T][f]]
        BY <3>4, <3>5 DEF Inserted
      <4>3. WithoutPutOff(Keyed[T][f], t).id = t.id
        BY <4>1, PutOffRow
      <4> QED
        BY <4>2, <4>3, <3>1, <3>5
    <3> QED
      BY <3>1, <3>2, <3>5
  <2> QED
    BY <2>6, <2>7
<1>3. ASSUME ~ renamed, NEW T \in Tables, NEW r \in d[T], NEW q \in d[T], r # q
      PROVE  ~ SameKey(T, r, q)
  <2>1. PICK m \in Places : RestoreInsertOrder[m] = T
    BY OrdersOfRestore
  <2>2. d[T] = Inserted(T)
    BY <2>1, <1>3
  <2>3. PICK a \in Range(copy[T]) : r = WithoutPutOff(T, a)
    BY <2>2, <1>3 DEF Inserted
  <2>4. PICK b \in Range(copy[T]) : q = WithoutPutOff(T, b)
    BY <2>2, <1>3 DEF Inserted
  <2> QED
    BY <2>3, <2>4, <1>3, RowsAreApart
<1> QED
  BY <1>2, <1>3 DEF Closed, Unique

(* What joined does not stand in the way of rows of the file that fit      *)
(* together: its ids are new, and it refers to nothing that is restored.   *)
LEMMA JoinedFits ==
  ASSUME FormatInvariant, phase = "restoring", NEW w,
         Closed(w), ~ renamed => Unique(w), w["TeamRegistration"] = {},
         \A T \in Tables : \A r \in w[T] : \E c \in Range(copy[T]) :
           Alike(r, c) /\ (T \in DOMAIN CompositeKeys => r = c)
  PROVE  Closed(Rebuilt(w)) /\ (~ renamed => Unique(Rebuilt(w)))
<1> DEFINE d == Rebuilt(w)
<1>1. \A T \in AllTables : d[T] = joined[T] \cup w[T]
  BY DEF Rebuilt
<1> HIDE DEF d
<1>2. /\ Closed(joined) /\ \A T \in AllTables : joined[T] \subseteq data[T]
      /\ \A n \in Places : \A r \in joined[TableAt(n)] : \A i \in DOMAIN copy[TableAt(n)] :
           copy[TableAt(n)][i].id # r.id
      /\ AtWork /\ Traced /\ NamesKept /\ Database
  BY DEF FormatInvariant, Joining, AtWork
<1>3. /\ Unique(data) /\ \A T \in AllTables : \A r \in data[T] : IsRow(T, r)
  BY <1>2 DEF Database
<1>4. Closed(d)
  <2> SUFFICES ASSUME NEW T \in DOMAIN Keyed, NEW r \in d[T], NEW f \in DOMAIN Keyed[T]
               PROVE  r.ref[f] = 0 \/ \E t \in d[Keyed[T][f]] : t.id = r.ref[f]
    BY DEF Closed
  <2>1. T \in AllTables /\ Keyed[T][f] \in AllTables
    BY KeyedTables, TableKinds DEF AllTables
  <2>2. CASE r \in joined[T]
    BY <2>1, <2>2, <1>1, <1>2 DEF Closed
  <2>3. CASE r \in w[T]
    BY <2>1, <2>3, <1>1 DEF Closed
  <2> QED
    BY <2>1, <2>2, <2>3, <1>1
<1>5. ASSUME NEW T \in Tables, NEW r \in joined[T], NEW c \in Range(copy[T]) PROVE r.id # c.id
  <2>1. PICK n \in Places : TableAt(n) = T
    BY PlacesOfTables
  <2>2. PICK i \in DOMAIN copy[T] : c = copy[T][i]
    BY DEF Range
  <2> QED
    BY <2>1, <2>2, <1>2
<1>6. ASSUME ~ renamed, NEW T \in Tables, NEW r \in joined[T], NEW q \in w[T]
      PROVE  ~ SameKey(T, r, q) /\ ~ SameKey(T, q, r)
  <2>1. PICK c \in Range(copy[T]) : Alike(q, c) /\ (T \in DOMAIN CompositeKeys => q = c)
    OBVIOUS
  <2>2. r.id # q.id
    BY <2>1, <1>5 DEF Alike
  <2>3. T \in AllTables /\ r \in data[T] /\ IsRow(T, r)
    BY <1>2, <1>3, TableKinds
  <2>4. r.name = "" \/ r.name # q.name
    <3>1. PICK n \in Places : TableAt(n) = T
      BY PlacesOfTables
    <3>2. PICK a \in Known(T) : Alike(a, c)
      BY <3>1, <1>2 DEF Traced, Range
    <3>3. r \in Known(T)
      BY <2>3 DEF Known
    <3>4. r.name # "" /\ r.name = a.name => r.id = a.id
      BY <3>3, <1>2, <1>6 DEF NamesKept
    <3> QED
      BY <3>2, <3>3, <3>4, <2>1, <2>2 DEF Alike
  <2>5. ASSUME T \in DOMAIN CompositeKeys PROVE \E f \in CompositeKeys[T] : r.ref[f] # q.ref[f]
    <3>1. PICK f \in CompositeKeys[T] : f \in DOMAIN Keyed[T] /\ T \in DOMAIN Keyed
      BY <2>5, CompositeFields, CompositeTables
    <3>2. Keyed[T][f] \in Tables
      BY <3>1, KeyedTables
    <3>3. r.ref[f] # 0
      BY <2>3, <2>5, <3>1 DEF IsRow
    <3>4. PICK t \in joined[Keyed[T][f]] : t.id = r.ref[f]
      BY <3>1, <3>3, <1>2 DEF Closed
    <3>5. c.ref[f] = 0 \/ \E u \in Range(copy[Keyed[T][f]]) : u.id = c.ref[f]
      BY <3>1, RowsToRestore
    <3> QED
      BY <3>2, <3>3, <3>4, <3>5, <2>1, <2>5, <1>5
  <2>6. ~ SameKey(T, r, q)
    BY <2>2, <2>4, <2>5 DEF SameKey
  <2> QED
    BY <2>6, SameKeyTurned
<1>7. ASSUME ~ renamed, NEW T \in Tables, NEW r \in d[T], NEW q \in d[T], r # q
      PROVE  ~ SameKey(T, r, q)
  <2>1. T \in AllTables
    BY TableKinds
  <2>2. CASE r \in joined[T] /\ q \in joined[T]
    BY <2>1, <2>2, <1>2, <1>3, <1>7 DEF Unique
  <2>3. CASE r \in w[T] /\ q \in w[T]
    BY <2>3, <1>7 DEF Unique
  <2> QED
    BY <2>1, <2>2, <2>3, <1>1, <1>6, <1>7
<1> QED
  BY <1>4, <1>7 DEF Unique, d

LEMMA EndKeeps ==
  ASSUME FormatInvariant, phase = "restoring", phase' \in {"restored", "failed"},
         UNCHANGED <<reading, damage, result, transaction, history>>,
         data' = [T \in AllTables |-> data'[T]], PutBack'
  PROVE  FormatInvariant'
<1>1. /\ FormatTypes /\ Copies /\ Flags /\ ReadBack
      /\ UNCHANGED <<scope, table, last, copy, damage, result, written, joined, throughout, cut,
                     gone, changed, renamed>>
  BY DEF FormatInvariant, reading, transaction, history
<1>2. ~ AtWork' /\ ~ Begun'
  BY DEF AtWork, Begun
<1>3. /\ Database' /\ Since' /\ CursorFacts' /\ Copied' /\ Sourced' /\ NothingYet' /\ Traced'
      /\ NamesKept' /\ Joining'
  BY <1>2 DEF Database, Since, CursorFacts, Copied, Sourced, NothingYet, Traced, NamesKept, Joining
<1>4. FormatTypes' /\ Copies' /\ Flags'
  BY <1>1 DEF FormatTypes, Copies, Flags, TableAt
<1>5. ReadBack'
  <2>1. ParseStream(File)' = ParseStream(File) /\ Damages' = Damages
    BY <1>1, FileStays
  <2>2. Accepted(result)' <=> Accepted(result)
    BY <1>1 DEF Accepted, Integrity
  <2> QED
    BY <1>1, <2>1, <2>2 DEF ReadBack
<1> QED
  BY <1>3, <1>4, <1>5 DEF FormatInvariant

LEMMA ResultStays ==
  ASSUME FormatInvariant, phase \in {"accepted", "restoring"}, phase' = "restoring",
         UNCHANGED <<scope, copy, damage, result>>
  PROVE  ReadBack'
<1>1. ParseStream(File)' = ParseStream(File) /\ Damages' = Damages
  BY FileStays
<1>2. Accepted(result)' <=> Accepted(result)
  BY DEF Accepted, Integrity
<1> QED
  BY <1>1, <1>2 DEF FormatInvariant, ReadBack

LEMMA DeleteAllKeeps ==
  ASSUME FormatInvariant, DeleteAll
  PROVE  FormatInvariant'
<1>1. /\ phase = "accepted" /\ phase' = "restoring" /\ step' = 1
      /\ UNCHANGED <<data, scope, table, last, copy, damage, result, written, joined, throughout,
                     cut, gone, changed, renamed>>
  BY DEF DeleteAll, reading, history
<1>2. joined = NoRows /\ written = NoRows
  BY <1>1 DEF FormatInvariant, Joining, AtWork
<1>3. \A T \in AllTables : joined[T] = {} /\ written[T] = {}
  BY <1>2 DEF NoRows
<1>4. Joining'
  <2>1. Closed(joined)
    BY <1>3, KeyedTables, TableKinds DEF Closed, AllTables
  <2>2. Closed(joined')
    BY <2>1, <1>1
  <2>3. \A n \in Places : joined[TableAt(n)] = {}
    BY <1>3, PlacesOfTables, TableKinds
  <2> QED
    BY <2>2, <2>3, <1>1, <1>3 DEF Joining, TableAt
<1>5. PutBack'
  <2>1. \A n \in Places : written[RestoreInsertOrder[n]] = {}
    BY <1>3, OrdersOfRestore, TableKinds
  <2>2. written["TeamRegistration"] = {}
    BY <1>3, TableKinds
  <2> QED
    BY <2>1, <2>2, <1>1 DEF PutBack, Places
<1>6. FormatTypes' /\ ReadBack'
  BY <1>1, ResultStays DEF FormatInvariant, FormatTypes
<1> QED
  BY <1>1, <1>4, <1>5, <1>6, SettledKeeps

LEMMA InsertTableKeeps ==
  ASSUME FormatInvariant, InsertTable
  PROVE  FormatInvariant'
<1>1. PICK n \in Due :
        /\ \A m \in Due : n <= m
        /\ LET rows == [written EXCEPT ![RestoreInsertOrder[n]] =
                          {WithoutPutOff(RestoreInsertOrder[n], r) :
                             r \in RowsOf(result.tables, RestoreInsertOrder[n])}]
           IN  IF Taken(rows) THEN written' = rows /\ step' = n + 1 /\ UNCHANGED phase
               ELSE phase' = "failed" /\ UNCHANGED <<written, step>>
  BY DEF InsertTable
<1> DEFINE T == RestoreInsertOrder[n]
           d == [written EXCEPT ![T] = Inserted(T)]
<1>2. /\ phase = "restoring" /\ UNCHANGED <<data, reading, damage, result, joined, history>>
      /\ UNCHANGED <<scope, table, last, copy, throughout, cut, gone, changed, renamed>>
  BY DEF InsertTable, reading, history
<1>3. /\ step \in 1..19 /\ written["TeamRegistration"] = {}
      /\ \A m \in Places : written[RestoreInsertOrder[m]] =
           IF m < step THEN Inserted(RestoreInsertOrder[m]) ELSE {}
      /\ written = [S \in AllTables |-> written[S]] /\ data = [S \in AllTables |-> data[S]]
  BY <1>2 DEF FormatInvariant, PutBack, FormatTypes
<1>4. n \in Places /\ n >= step /\ n \in Int /\ T \in Tables /\ T \in AllTables
      /\ T # "TeamRegistration"
  BY <1>3, OrdersOfRestore, TableKinds DEF Due, Places
<1>5. \A S \in Tables : RowsOf(result.tables, S) = Range(copy[S])
  BY <1>2, RowsToRestore
<1>6. IF Taken(d) THEN written' = d /\ step' = n + 1 /\ UNCHANGED phase
      ELSE phase' = "failed" /\ UNCHANGED <<written, step>>
  BY <1>1, <1>4, <1>5 DEF Inserted
<1>7. \A m \in Places : d[RestoreInsertOrder[m]] =
        IF m < n + 1 THEN Inserted(RestoreInsertOrder[m]) ELSE {}
  <2> SUFFICES ASSUME NEW m \in Places
      PROVE  d[RestoreInsertOrder[m]] = IF m < n + 1 THEN Inserted(RestoreInsertOrder[m]) ELSE {}
    OBVIOUS
  <2>0. m \in Int /\ RestoreInsertOrder[m] \in Tables /\ RestoreInsertOrder[m] \in AllTables
    BY OrdersOfRestore, TableKinds DEF Places
  <2>1. CASE m = n
    BY <2>0, <2>1, <1>3, <1>4
  <2>2. CASE m # n
    <3>1. d[RestoreInsertOrder[m]] = written[RestoreInsertOrder[m]]
      <4>1. RestoreInsertOrder[m] # T
        BY <2>2, <1>4, OrdersOfRestore
      <4> QED
        BY <4>1, <1>3
    <3>2. CASE m < step
      BY <3>1, <3>2, <2>0, <1>3, <1>4
    <3>3. CASE ~ (m < step) /\ m < n
      <4>1. m \notin Due
        BY <3>3, <2>0, <1>1, <1>4
      <4>2. m \in step..18
        BY <3>3, <2>0, <1>3 DEF Places
      <4>3. Range(copy[RestoreInsertOrder[m]]) = {}
        BY <4>1, <4>2, <2>0, <1>5, OrdersOfRestore DEF Due
      <4>4. Inserted(RestoreInsertOrder[m]) = {}
        BY <4>3 DEF Inserted
      <4> QED
        BY <3>1, <3>3, <4>4, <2>0, <1>3, <1>4
    <3>4. CASE m > n
      BY <3>1, <3>4, <2>0, <1>3, <1>4
    <3> QED
      BY <3>2, <3>3, <3>4, <2>0, <2>2, <1>4
  <2> QED
    BY <2>1, <2>2
<1>8. d["TeamRegistration"] = {} /\ n + 1 \in 1..19
  BY <1>3, <1>4 DEF Places
<1>9. d = [S \in AllTables |-> d[S]]
  BY <1>3
<1> HIDE DEF d
<1>10. Closed(d) /\ (~ renamed => Unique(d))
  BY <1>2, <1>7, <1>8, PrefixFits
<1>11. \A S \in Tables : \A r \in d[S] : \E c \in Range(copy[S]) :
         Alike(r, c) /\ (S \in DOMAIN CompositeKeys => r = c)
  <2> SUFFICES ASSUME NEW S \in Tables, NEW r \in d[S]
               PROVE  \E c \in Range(copy[S]) :
                        Alike(r, c) /\ (S \in DOMAIN CompositeKeys => r = c)
    OBVIOUS
  <2>1. PICK m \in Places : RestoreInsertOrder[m] = S
    BY OrdersOfRestore
  <2>2. PICK c \in Range(copy[S]) : r = WithoutPutOff(S, c)
    <3>1. r \in Inserted(S)
      BY <2>1, <1>7
    <3> QED
      BY <3>1 DEF Inserted
  <2>3. IsRow(S, c)
    BY <1>2, RowsToRestore
  <2>4. S \in DOMAIN CompositeKeys => S \notin DOMAIN PutOff
    BY CompositesAreWhole
  <2> QED
    BY <2>2, <2>3, <2>4, PutOffRow DEF Alike
<1>12. Closed(Rebuilt(d)) /\ (~ renamed => Unique(Rebuilt(d)))
  BY <1>2, <1>8, <1>10, <1>11, JoinedFits
<1>13. CASE Taken(d)
  <2>1. written' = d /\ step' = n + 1 /\ phase' = "restoring"
    BY <1>2, <1>6, <1>13
  <2>2. \A m \in Places : written'[RestoreInsertOrder[m]] =
          IF m < step' THEN Inserted(RestoreInsertOrder[m])' ELSE {}
    BY <2>1, <1>2, <1>7 DEF Inserted
  <2>3. PutBack'
    BY <2>1, <2>2, <1>2, <1>3, <1>8 DEF PutBack
  <2>4. Joining' /\ FormatTypes' /\ ReadBack'
    BY <2>1, <1>2, <1>9, ResultStays DEF FormatInvariant, Joining, FormatTypes, TableAt
  <2> QED
    BY <2>1, <2>3, <2>4, <1>2, SettledKeeps
<1>14. CASE ~ Taken(d)
  <2>1. phase' = "failed" /\ written' = written /\ step' = step /\ renamed'
    BY <1>2, <1>6, <1>12, <1>14 DEF Taken
  <2>2. PutBack' /\ UNCHANGED transaction
    BY <2>1, <1>2 DEF PutBack, transaction
  <2> QED
    BY <2>1, <2>2, <1>2, <1>3, EndKeeps
<1> QED
  BY <1>13, <1>14

LEMMA RepairKeeps ==
  ASSUME FormatInvariant, RepairAndCommit
  PROVE  FormatInvariant'
<1> DEFINE d == [T \in AllTables |->
                  IF T \in DOMAIN PutOff THEN RowsOf(result.tables, T) ELSE written[T]]
<1>1. /\ phase = "restoring" /\ Due = {}
      /\ IF Taken(d) THEN data' = Rebuilt(d) /\ phase' = "restored"
         ELSE phase' = "failed" /\ UNCHANGED data
      /\ UNCHANGED <<reading, damage, result, transaction, history>>
      /\ UNCHANGED <<scope, copy, joined, renamed>>
  BY DEF RepairAndCommit, reading, history, transaction
<1>2. /\ step \in 1..19 /\ written["TeamRegistration"] = {}
      /\ \A m \in Places : written[RestoreInsertOrder[m]] =
           IF m < step THEN Inserted(RestoreInsertOrder[m]) ELSE {}
      /\ data = [S \in AllTables |-> data[S]]
  BY <1>1 DEF FormatInvariant, PutBack, FormatTypes
<1>3. /\ \A T \in Tables : RowsOf(result.tables, T) = Range(copy[T])
      /\ \A T \in Tables : \A r \in Range(copy[T]) : IsRow(T, r)
  BY <1>1, RowsToRestore
<1>4. d["TeamRegistration"] = {}
  <2>1. "TeamRegistration" \notin DOMAIN PutOff
    BY DEF PutOff
  <2> QED
    BY <2>1, <1>2, TableKinds
<1>5. \A T \in Tables : d[T] = Range(copy[T])
  <2> SUFFICES ASSUME NEW T \in Tables PROVE d[T] = Range(copy[T])
    OBVIOUS
  <2>0. T \in AllTables
    BY TableKinds
  <2>1. CASE T \in DOMAIN PutOff
    BY <2>0, <2>1, <1>3
  <2>2. CASE T \notin DOMAIN PutOff
    <3>1. d[T] = written[T]
      BY <2>0, <2>2
    <3>2. PICK m \in Places : RestoreInsertOrder[m] = T
      BY OrdersOfRestore
    <3>3. \A r \in Range(copy[T]) : WithoutPutOff(T, r) = r
      BY <2>2 DEF WithoutPutOff
    <3>4. Inserted(T) = Range(copy[T])
      BY <3>3 DEF Inserted
    <3>5. CASE m < step
      BY <3>1, <3>2, <3>4, <3>5, <1>2
    <3>6. CASE ~ (m < step)
      <4>1. m \in step..18
        BY <3>6, <1>2 DEF Places
      <4>2. Range(copy[T]) = {}
        BY <4>1, <3>2, <1>1, <1>3, OrdersOfRestore DEF Due
      <4> QED
        BY <4>2, <3>1, <3>2, <3>6, <1>2
    <3> QED
      BY <3>5, <3>6
  <2> QED
    BY <2>1, <2>2
<1>6. d = [T \in AllTables |-> d[T]]
  OBVIOUS
<1> HIDE DEF d
<1>7. Closed(d)
  <2>1. ASSUME NEW T \in DOMAIN Keyed, NEW r \in d[T], NEW f \in DOMAIN Keyed[T]
        PROVE  r.ref[f] = 0 \/ \E t \in d[Keyed[T][f]] : t.id = r.ref[f]
    <3>1. T \in Tables /\ Keyed[T][f] \in Tables
      BY <2>1, <1>4, KeyedTables
    <3>2. r \in Range(copy[T])
      BY <2>1, <3>1, <1>5
    <3>3. r.ref[f] = 0 \/ \E t \in Range(copy[Keyed[T][f]]) : t.id = r.ref[f]
      BY <2>1, <3>1, <3>2, <1>1, RowsToRestore
    <3> QED
      BY <3>1, <3>3, <1>5
  <2> QED
    BY <2>1 DEF Closed
<1>8. ~ renamed => Unique(d)
  <2>1. ASSUME ~ renamed, NEW T \in Tables, NEW r \in Range(copy[T]), NEW q \in Range(copy[T]), r # q
        PROVE  ~ SameKey(T, r, q)
    BY <2>1, <1>1, RowsAreApart
  <2> QED
    BY <2>1, <1>5 DEF Unique
<1>9. Closed(Rebuilt(d)) /\ (~ renamed => Unique(Rebuilt(d)))
  <2>1. \A T \in Tables : \A r \in d[T] : \E c \in Range(copy[T]) :
          Alike(r, c) /\ (T \in DOMAIN CompositeKeys => r = c)
    BY <1>5 DEF Alike
  <2> QED
    BY <2>1, <1>1, <1>4, <1>7, <1>8, JoinedFits
<1>10. CASE Taken(d)
  <2>1. data' = Rebuilt(d) /\ phase' = "restored"
    BY <1>1, <1>10
  <2>2. \A T \in Tables : data'[T] = Range(copy[T]) \cup joined[T]
    BY <2>1, <1>5, TableKinds DEF Rebuilt
  <2>3. PutBack'
    BY <2>1, <2>2, <1>1 DEF PutBack
  <2>4. data' = [T \in AllTables |-> data'[T]]
    BY <2>1 DEF Rebuilt
  <2> QED
    BY <2>1, <2>3, <2>4, <1>1, EndKeeps
<1>11. CASE ~ Taken(d)
  <2>1. phase' = "failed" /\ data' = data /\ renamed'
    BY <1>1, <1>9, <1>11 DEF Taken
  <2>2. PutBack'
    BY <2>1 DEF PutBack
  <2> QED
    BY <2>1, <2>2, <1>1, <1>2, EndKeeps
<1> QED
  BY <1>10, <1>11

(***************************************************************************)
(* The invariant, and what follows from it.                                *)
(***************************************************************************)
LEMMA FormatStep == FormatInvariant /\ [FormatNext]_formatVars => FormatInvariant'
<1> SUFFICES ASSUME FormatInvariant, [FormatNext]_formatVars PROVE FormatInvariant'
  OBVIOUS
<1>1. ASSUME NEW T \in AllTables, NEW r \in Candidates[T], InsertRow(T, r) PROVE FormatInvariant'
  BY <1>1, InsertKeeps
<1>2. ASSUME NEW T \in Removable, NEW r \in data[T], DeleteRow(T, r) PROVE FormatInvariant'
  BY <1>2, DeleteKeeps
<1>3. ASSUME NEW r \in data["Season"], RenameSeason(r) PROVE FormatInvariant'
  BY <1>3, RenameKeeps
<1>4. ASSUME NEW s \in Seasons, BeginExport(s) PROVE FormatInvariant'
  BY <1>4, BeginKeeps
<1>5. CASE ReadPage
  BY <1>5, ReadKeeps
<1>6. ASSUME NEW d \in Damages, Damage(d) PROVE FormatInvariant'
  BY <1>6, DamageKeeps
<1>7. CASE Verify
  BY <1>7, VerifyKeeps
<1>8. CASE DeleteAll
  BY <1>8, DeleteAllKeeps
<1>9. CASE InsertTable
  BY <1>9, InsertTableKeeps
<1>10. CASE RepairAndCommit
  BY <1>10, RepairKeeps
<1>11. CASE UNCHANGED formatVars
  <2>1. UNCHANGED <<data, phase, scope, table, last, copy, damage, result, step, written, joined,
                    throughout, cut, gone, changed, renamed>>
    BY <1>11 DEF formatVars
  <2>2. /\ FormatTypes /\ Database /\ Copies /\ NothingYet /\ Flags /\ Since /\ CursorFacts
        /\ Copied /\ Sourced /\ Traced /\ NamesKept /\ Joining /\ ReadBack /\ PutBack
    BY DEF FormatInvariant
  <2>3. (AtWork' <=> AtWork) /\ (Begun' <=> Begun)
    BY <2>1 DEF AtWork, Begun
  <2>4. \A S, r : /\ InScope(S, r, scope)' <=> InScope(S, r, scope)
                  /\ Exported(S, r)' = Exported(S, r)
    BY <2>1, ScopeStays
  <2>5. FormatTypes' /\ Database' /\ Copies' /\ NothingYet' /\ Flags' /\ Since'
    BY <2>1, <2>2, <2>3 DEF FormatTypes, Database, Copies, NothingYet, Flags, Since, TableAt
  <2>6. Traced' /\ NamesKept' /\ Joining' /\ PutBack'
    <3>1. \A S : Known(S)' = Known(S) /\ Inserted(S)' = Inserted(S)
      BY <2>1 DEF Known, Inserted
    <3>2. Traced' /\ NamesKept'
      BY <2>1, <2>2, <2>3, <3>1 DEF Traced, NamesKept, Alike, TableAt
    <3>3. Joining'
      BY <2>1, <2>2, <2>3 DEF Joining, NoRows, TableAt
    <3>4. PutBack'
      BY <2>1, <2>2, <3>1 DEF PutBack
    <3> QED
      BY <3>2, <3>3, <3>4
  <2>7. CursorFacts'
    <3>1. \A T : Listed(T)' = Listed(T)
      BY <2>1, <2>4 DEF Listed
    <3> QED
      BY <2>1, <2>2, <3>1 DEF CursorFacts, Undisturbed, TableAt
  <2>8. Copied'
    BY <2>1, <2>2, <2>3, <2>4 DEF Copied, Undisturbed, Reached, TableAt
  <2>9. Sourced'
    BY <2>1, <2>2, <2>3, <2>4 DEF Sourced, TableAt
  <2>10. ReadBack'
    <3>1. ParseStream(File)' = ParseStream(File) /\ Damages' = Damages
      BY <2>1, FileStays
    <3>2. Accepted(result)' <=> Accepted(result)
      BY <2>1 DEF Accepted, Integrity
    <3>3. Accepted(ParseStream(File))' <=> Accepted(ParseStream(File))
      BY <3>1 DEF Accepted, Integrity
    <3> QED
      BY <2>1, <2>2, <3>1, <3>2, <3>3 DEF ReadBack
  <2> QED
    BY <2>5, <2>6, <2>7, <2>8, <2>9, <2>10 DEF FormatInvariant
<1> QED
  BY <1>1, <1>2, <1>3, <1>4, <1>5, <1>6, <1>7, <1>8, <1>9, <1>10, <1>11 DEF FormatNext

LEMMA FormatHolds == FormatSpec => []FormatInvariant
BY FormatStarts, FormatStep, PTL DEF FormatSpec

(* The tables, flags and phases keep their types. *)
THEOREM FormatTypeSafe == FormatSpec => []FormatTypes
<1>1. FormatInvariant => FormatTypes
  BY DEF FormatInvariant
<1> QED
  BY <1>1, FormatHolds, PTL

(* A backup of the whole site misses no row that was there all the time,   *)
(* and holds none twice, whatever changes between two pages; only a table  *)
(* that lost the row a page starts from is cut short.                      *)
THEOREM NoRowIsMissed == FormatSpec => []NothingIsMissed
<1>1. FormatInvariant => NothingIsMissed
  <2> SUFFICES ASSUME FormatInvariant, phase \in {"stored", "sent", "accepted"}, scope = 0,
                      NEW T \in Tables
               PROVE  /\ T \in cut \/ throughout[T] \subseteq ToSet(copy[T])
                      /\ \A i, j \in DOMAIN copy[T] : copy[T][i].id = copy[T][j].id => i = j
    BY DEF NothingIsMissed
  <2>1. PICK n \in Places : TableAt(n) = T
    BY PlacesOfTables
  <2>2. T \in cut \/ throughout[T] \subseteq ToSet(copy[T])
    <3>1. Begun /\ Undisturbed
      BY DEF Begun, AtWork, Undisturbed
    <3>2. \A r \in throughout[T] : InScope(T, r, scope) /\ Reached(n, r) /\ Exported(T, r) = r
      BY WholeSite DEF Reached
    <3>3. ToSet(copy[T]) = Range(copy[T])
      BY DEF ToSet, Range
    <3> QED
      BY <2>1, <3>1, <3>2, <3>3 DEF FormatInvariant, Copied
  <2>3. ASSUME NEW i \in DOMAIN copy[T], NEW j \in DOMAIN copy[T],
               copy[T][i].id = copy[T][j].id
        PROVE  i = j
    <3>1. IsSequence(copy[T]) /\ Ascending(copy[T]) /\ IsRow(T, copy[T][i])
      BY <2>1 DEF FormatInvariant, Copies
    <3>2. i \in Nat /\ j \in Nat
      <4>1. copy[T] \in Seq(Range(copy[T]))
        BY <3>1 DEF IsSequence
      <4>2. DOMAIN copy[T] = 1..Len(copy[T]) /\ Len(copy[T]) \in Nat
        BY <4>1
      <4> QED
        BY <4>2
    <3>3. copy[T][i].id \in Nat
      BY <3>1, RowIds
    <3>4. ~ (i < j) /\ ~ (j < i)
      BY <3>1, <3>3, <2>3 DEF Ascending
    <3> QED
      BY <3>2, <3>4
  <2> QED
    BY <2>2, <2>3
<1> QED
  BY <1>1, FormatHolds, PTL

(* What passes the verification holds what was written, row for row, and   *)
(* the check in memory accepts it as well.                                 *)
THEOREM AcceptedAreWhole == FormatSpec => []AcceptedIsWhole
<1>1. FormatInvariant => AcceptedIsWhole
  <2> SUFFICES ASSUME FormatInvariant, phase = "accepted"
      PROVE  /\ \A T \in Tables : ValueOf(result.tables, T) = copy[T]
             /\ "checksumAlgorithm" \in Keys(Manifest) => MemoryAccepts(File)
    BY DEF AcceptedIsWhole
  <2>1. /\ copy = [T \in Tables |-> copy[T]] /\ DamageFits
        /\ result = ParseStream(File) /\ Accepted(result)
    BY DEF FormatInvariant, FormatTypes, ReadBack, DamageFits
  <2> QED
    BY <2>1, WholeAndAccepted
<1> QED
  BY <1>1, FormatHolds, PTL

(* The restore of an accepted backup breaks no reference and no unique     *)
(* column, unless a unique name changed hands since the backup was begun,  *)
(* and gives back all its tables beside what others added while it went on. *)
THEOREM AcceptedBackupsRestore == FormatSpec => []AcceptedRestores
<1>1. FormatInvariant => AcceptedRestores
  BY DEF FormatInvariant, PutBack, AcceptedRestores, ToSet, Range
<1> QED
  BY <1>1, FormatHolds, PTL

(***************************************************************************)
(* An export of a database at rest.                                        *)
(***************************************************************************)
MatchRows == {"Prediction", "Goal", "MatchEvent", "MatchLineup"}
SeasonRows == {"SeasonTeamProfile", "SeasonTeamPlayer", "SeasonGroupTeam"}

LEMMA KeyedUsers ==
  /\ DOMAIN Keyed["User"] = {"teamId"} /\ Keyed["User"]["teamId"] = "Team"
  /\ DOMAIN Keyed["Player"] = {"teamId", "suspendedAtMatchId"}
  /\ Keyed["Player"]["teamId"] = "Team" /\ Keyed["Player"]["suspendedAtMatchId"] = "Match"
BY DEF Keyed

LEMMA KeyedMatches ==
  /\ DOMAIN Keyed["Match"] = {"homeTeamId", "awayTeamId", "seasonId", "mvpPlayerId"}
  /\ Keyed["Match"]["homeTeamId"] = "Team" /\ Keyed["Match"]["awayTeamId"] = "Team"
  /\ Keyed["Match"]["seasonId"] = "Season" /\ Keyed["Match"]["mvpPlayerId"] = "Player"
BY DEF Keyed

LEMMA KeyedMatchRows ==
  /\ DOMAIN Keyed["Prediction"] = {"userId", "matchId"}
  /\ Keyed["Prediction"]["userId"] = "MemberAccount" /\ Keyed["Prediction"]["matchId"] = "Match"
  /\ DOMAIN Keyed["Goal"] = {"matchId", "playerId"}
  /\ Keyed["Goal"]["matchId"] = "Match" /\ Keyed["Goal"]["playerId"] = "Player"
  /\ DOMAIN Keyed["MatchEvent"] = {"matchId", "playerId", "subPlayerId", "assistPlayerId"}
  /\ Keyed["MatchEvent"]["matchId"] = "Match" /\ Keyed["MatchEvent"]["playerId"] = "Player"
  /\ Keyed["MatchEvent"]["subPlayerId"] = "Player"
  /\ Keyed["MatchEvent"]["assistPlayerId"] = "Player"
  /\ DOMAIN Keyed["MatchLineup"] = {"matchId", "playerId"}
  /\ Keyed["MatchLineup"]["matchId"] = "Match" /\ Keyed["MatchLineup"]["playerId"] = "Player"
BY DEF Keyed

LEMMA KeyedSeasonRows ==
  /\ DOMAIN Keyed["SeasonTeamProfile"] = {"seasonId", "teamId"}
  /\ Keyed["SeasonTeamProfile"]["seasonId"] = "Season"
  /\ Keyed["SeasonTeamProfile"]["teamId"] = "Team"
  /\ DOMAIN Keyed["SeasonGroupTeam"] = {"seasonId", "teamId"}
  /\ Keyed["SeasonGroupTeam"]["seasonId"] = "Season" /\ Keyed["SeasonGroupTeam"]["teamId"] = "Team"
  /\ DOMAIN Keyed["SeasonTeamPlayer"] = {"seasonId", "teamId", "playerId"}
  /\ Keyed["SeasonTeamPlayer"]["seasonId"] = "Season"
  /\ Keyed["SeasonTeamPlayer"]["teamId"] = "Team"
  /\ Keyed["SeasonTeamPlayer"]["playerId"] = "Player"
  /\ DOMAIN Keyed["SeasonDeletionApproval"] = {"seasonId", "approverId"}
  /\ Keyed["SeasonDeletionApproval"]["seasonId"] = "Season"
  /\ Keyed["SeasonDeletionApproval"]["approverId"] = "User"
BY DEF Keyed

(* The exception: who approved the deletion of the season and has a team.  *)
Approver == \E u \in data["User"] :
              /\ u.ref["teamId"] # 0
              /\ Has(OfSeason("SeasonDeletionApproval", scope), "approverId", u.id)

(* What a row of the season refers to is of the season; only suspensions   *)
(* go elsewhere, and are left out.                                         *)
LEMMA ScopeCloses ==
  ASSUME scope # 0, ~ Approver, Unique(data),
         NEW T \in DOMAIN Keyed \ {"TeamRegistration"}, NEW q \in data[T], InScope(T, q, scope),
         NEW f \in DOMAIN Keyed[T], ~ (T = "Player" /\ f = "suspendedAtMatchId"),
         NEW t \in data[Keyed[T][f]], t.id = q.ref[f], q.ref[f] # 0
  PROVE  InScope(Keyed[T][f], t, scope)
<1>1. ASSUME NEW m \in data["Match"], NEW n \in data["Match"], m.id = n.id PROVE m = n
  <2>1. "Match" \in Tables
    BY AllTablesNamed
  <2> QED
    BY <2>1, <1>1 DEF Unique, SameKey
<1>2. ASSUME NEW a \in data["Team"], NEW b \in data["Team"], a.id = b.id PROVE a = b
  <2>1. "Team" \in Tables
    BY AllTablesNamed
  <2> QED
    BY <2>1, <1>2 DEF Unique, SameKey
<1>3. CASE T = "User"
  <2>1. f = "teamId" /\ Keyed[T][f] = "Team"
    BY <1>3, KeyedUsers
  <2>2. UserOfSeason(q, scope)
    BY <1>3 DEF InScope
  <2>3. ~ Has(OfSeason("SeasonDeletionApproval", scope), "approverId", q.id)
    BY <1>3, <2>1 DEF Approver
  <2>4. PICK a \in data["Team"] : a.id = q.ref["teamId"] /\ TeamOfSeason(a, scope)
    BY <2>2, <2>3 DEF UserOfSeason
  <2>5. t = a
    BY <2>1, <2>4, <1>2
  <2> QED
    BY <2>1, <2>4, <2>5 DEF InScope
<1>4. CASE T = "Player"
  <2>1. f = "teamId" /\ Keyed[T][f] = "Team"
    BY <1>4, KeyedUsers
  <2>2. PlayerOfSeason(q, scope)
    BY <1>4 DEF InScope
  <2>3. TeamOfSeason(t, scope)
    BY <2>1, <2>2, <1>4 DEF TeamOfSeason
  <2> QED
    BY <2>1, <2>3 DEF InScope
<1>5. CASE T = "Match"
  <2>1. q \in MatchesOf(scope) /\ q.ref["seasonId"] = scope
    BY <1>5 DEF InScope, MatchesOf
  <2>2. CASE f \in {"homeTeamId", "awayTeamId"}
    <3>1. Keyed[T][f] = "Team"
      BY <1>5, <2>2, KeyedMatches
    <3>2. Has(MatchesOf(scope), f, t.id)
      BY <2>1 DEF Has
    <3>3. TeamOfSeason(t, scope)
      BY <2>2, <3>2 DEF TeamOfSeason
    <3> QED
      BY <3>1, <3>3 DEF InScope
  <2>3. CASE f = "seasonId"
    BY <1>5, <2>1, <2>3, KeyedMatches DEF InScope
  <2>4. CASE f = "mvpPlayerId"
    <3>1. Keyed[T][f] = "Player"
      BY <1>5, <2>4, KeyedMatches
    <3>2. Has(MatchesOf(scope), "mvpPlayerId", t.id)
      BY <2>1, <2>4 DEF Has
    <3>3. PlayerOfSeason(t, scope)
      BY <3>2 DEF PlayerOfSeason
    <3> QED
      BY <3>1, <3>3 DEF InScope
  <2> QED
    BY <1>5, <2>2, <2>3, <2>4, KeyedMatches
<1>6. CASE T \in MatchRows
  <2>1. q \in OfMatches(T, scope)
    BY <1>6 DEF InScope, MatchRows
  <2>2. CASE f = "matchId"
    <3>1. Keyed[T][f] = "Match"
      BY <1>6, <2>2, KeyedMatchRows DEF MatchRows
    <3>2. PICK m \in MatchesOf(scope) : m.id = q.ref["matchId"]
      BY <2>1 DEF OfMatches
    <3>3. t = m
      BY <3>1, <3>2, <2>2, <1>1 DEF MatchesOf
    <3> QED
      BY <3>1, <3>2, <3>3 DEF InScope, MatchesOf
  <2>3. CASE f # "matchId"
    <3>1. Has(OfMatches(T, scope), f, t.id)
      BY <2>1 DEF Has
    <3>2. CASE T = "Prediction"
      <4>1. f = "userId" /\ Keyed[T][f] = "MemberAccount"
        BY <2>3, <3>2, KeyedMatchRows
      <4> QED
        BY <3>1, <3>2, <4>1 DEF InScope
    <3>3. CASE T # "Prediction"
      <4>1. /\ Keyed[T][f] = "Player"
            /\ \/ T \in {"MatchLineup", "Goal"} /\ f = "playerId"
               \/ T = "MatchEvent" /\ f \in {"playerId", "subPlayerId", "assistPlayerId"}
        BY <1>6, <2>3, <3>3, KeyedMatchRows DEF MatchRows
      <4>2. PlayerOfSeason(t, scope)
        BY <3>1, <4>1 DEF PlayerOfSeason
      <4> QED
        BY <4>1, <4>2 DEF InScope
    <3> QED
      BY <3>2, <3>3
  <2> QED
    BY <2>2, <2>3
<1>7. CASE T \in SeasonRows \cup {"SeasonDeletionApproval"}
  <2>1. q \in OfSeason(T, scope) /\ q.ref["seasonId"] = scope
    BY <1>7 DEF InScope, OfSeason, SeasonRows
  <2>2. CASE f = "seasonId"
    <3>1. Keyed[T][f] = "Season"
      BY <1>7, <2>2, KeyedSeasonRows DEF SeasonRows
    <3> QED
      BY <3>1, <2>1, <2>2 DEF InScope
  <2>3. CASE f # "seasonId"
    <3>1. Has(OfSeason(T, scope), f, t.id)
      BY <2>1 DEF Has
    <3>2. CASE T = "SeasonDeletionApproval"
      <4>1. f = "approverId" /\ Keyed[T][f] = "User"
        BY <2>3, <3>2, KeyedSeasonRows
      <4>2. UserOfSeason(t, scope)
        BY <3>1, <3>2, <4>1 DEF UserOfSeason
      <4> QED
        BY <4>1, <4>2 DEF InScope
    <3>3. CASE T \in SeasonRows /\ f = "teamId"
      <4>1. Keyed[T][f] = "Team"
        BY <3>3, KeyedSeasonRows DEF SeasonRows
      <4>2. TeamOfSeason(t, scope)
        BY <3>1, <3>3 DEF TeamOfSeason, SeasonRows
      <4> QED
        BY <4>1, <4>2 DEF InScope
    <3>4. CASE T \in SeasonRows /\ f # "teamId"
      <4>1. T = "SeasonTeamPlayer" /\ f = "playerId" /\ Keyed[T][f] = "Player"
        BY <2>3, <3>4, KeyedSeasonRows DEF SeasonRows
      <4>2. PlayerOfSeason(t, scope)
        BY <3>1, <4>1 DEF PlayerOfSeason
      <4> QED
        BY <4>1, <4>2 DEF InScope
    <3> QED
      BY <1>7, <3>2, <3>3, <3>4
  <2> QED
    BY <2>2, <2>3
<1> QED
  BY <1>3, <1>4, <1>5, <1>6, <1>7, KeyedTables DEF MatchRows, SeasonRows

(* What an export of a database at rest has read. *)
AtRest == phase = "refused" /\ ~ changed /\ damage = NoDamage
Read(T) == {Exported(T, r) : r \in {x \in data[T] : InScope(T, x, scope)}}

LEMMA QuietCopies ==
  ASSUME FormatInvariant, AtRest
  PROVE  /\ Unique(data) /\ Closed(data) /\ ~ Accepted(ParseStream(File))
         /\ \A T \in AllTables : \A r \in data[T] : IsRow(T, r)
         /\ \A T \in Tables : Range(copy[T]) = Read(T) /\ IsSequence(copy[T]) /\ Ascending(copy[T])
<1>1. Begun /\ AtWork /\ Undisturbed /\ cut = {} /\ throughout = data
  BY DEF AtRest, Begun, AtWork, Undisturbed, FormatInvariant, Flags, Since
<1>2. /\ Unique(data) /\ Closed(data) /\ ~ Accepted(ParseStream(File))
      /\ \A T \in AllTables : \A r \in data[T] : IsRow(T, r)
  BY <1>1 DEF AtRest, FormatInvariant, Database, ReadBack
<1>3. ASSUME NEW T \in Tables
      PROVE  Range(copy[T]) = Read(T) /\ IsSequence(copy[T]) /\ Ascending(copy[T])
  <2>1. PICK n \in Places : TableAt(n) = T
    BY PlacesOfTables
  <2>2. IsSequence(copy[T]) /\ Ascending(copy[T])
    BY <2>1 DEF FormatInvariant, Copies
  <2>3. ASSUME NEW r \in data[T], InScope(T, r, scope) PROVE Exported(T, r) \in Range(copy[T])
    <3>1. Reached(n, r)
      BY DEF AtRest, Reached
    <3> QED
      BY <2>1, <2>3, <3>1, <1>1 DEF FormatInvariant, Copied
  <2>4. ASSUME NEW i \in DOMAIN copy[T] PROVE copy[T][i] \in Read(T)
    <3>1. PICK r \in data[T] : InScope(T, r, scope) /\ copy[T][i] = Exported(T, r)
      BY <2>1, <1>1 DEF AtRest, FormatInvariant, Sourced
    <3> QED
      BY <3>1 DEF Read
  <2> QED
    BY <2>2, <2>3, <2>4 DEF Read, Range
<1> QED
  BY <1>2, <1>3

LEMMA QuietIsStaged ==
  ASSUME FormatInvariant, AtRest, NEW T \in Tables
  PROVE  Staged(T, copy[T])
<1>1. /\ Unique(data) /\ \A r \in data[T] : IsRow(T, r)
      /\ Range(copy[T]) = Read(T) /\ IsSequence(copy[T]) /\ Ascending(copy[T])
  BY QuietCopies, TableKinds
<1> SUFFICES ASSUME NEW i \in DOMAIN copy[T], NEW j \in DOMAIN copy[T], i # j
             PROVE  /\ copy[T][i].id # copy[T][j].id
                    /\ T \in DOMAIN CompositeKeys =>
                         \E f \in CompositeKeys[T] : copy[T][i].ref[f] # copy[T][j].ref[f]
  BY DEF Staged
<1>2. PICK r \in data[T] : copy[T][i] = Exported(T, r)
  BY <1>1 DEF Read, Range
<1>3. PICK q \in data[T] : copy[T][j] = Exported(T, q)
  BY <1>1 DEF Read, Range
<1>4. /\ copy[T][i].id = r.id /\ copy[T][j].id = q.id /\ r.id \in Nat /\ q.id \in Nat
      /\ T # "Player" => copy[T][i] = r /\ copy[T][j] = q
  BY <1>1, <1>2, <1>3, ExportedRow, RowIds
<1>5. copy[T][i].id # copy[T][j].id
  <2>1. i \in Nat /\ j \in Nat
    <3>1. copy[T] \in Seq(Range(copy[T]))
      BY <1>1 DEF IsSequence
    <3>2. DOMAIN copy[T] = 1..Len(copy[T]) /\ Len(copy[T]) \in Nat
      BY <3>1
    <3> QED
      BY <3>2
  <2>2. i < j \/ j < i
    BY <2>1
  <2> QED
    BY <2>2, <1>1, <1>4 DEF Ascending
<1>6. ASSUME T \in DOMAIN CompositeKeys
      PROVE  \E f \in CompositeKeys[T] : copy[T][i].ref[f] # copy[T][j].ref[f]
  <2>1. copy[T][i] = r /\ copy[T][j] = q
    BY <1>4, <1>6, CompositeTables
  <2>2. r # q /\ ~ SameKey(T, r, q)
    BY <1>1, <1>5, <2>1 DEF Unique
  <2> QED
    BY <2>1, <2>2, <1>6 DEF SameKey
<1> QED
  BY <1>5, <1>6

LEMMA QuietReferences ==
  ASSUME FormatInvariant, AtRest, scope # 0 => ~ Approver,
         NEW T \in Tables \cap DOMAIN Keyed, NEW r \in Range(copy[T]), NEW f \in DOMAIN Keyed[T]
  PROVE  r.ref[f] = 0 \/ \E t \in Range(copy[Keyed[T][f]]) : t.id = r.ref[f]
<1>1. /\ Unique(data) /\ Closed(data)
      /\ \A S \in AllTables : \A x \in data[S] : IsRow(S, x)
      /\ \A S \in Tables : Range(copy[S]) = Read(S)
  BY QuietCopies
<1>2. PICK q \in data[T] : InScope(T, q, scope) /\ r = Exported(T, q)
  BY <1>1 DEF Read
<1>3. Keyed[T][f] \in Tables /\ T \in AllTables /\ Keyed[T][f] \in AllTables
      /\ T # "TeamRegistration"
  BY KeyedTables, TableKinds
<1>4. ASSUME NEW t \in data[Keyed[T][f]], InScope(Keyed[T][f], t, scope), t.id = r.ref[f]
      PROVE  \E x \in Range(copy[Keyed[T][f]]) : x.id = r.ref[f]
  <2>1. Exported(Keyed[T][f], t) \in Range(copy[Keyed[T][f]])
    BY <1>1, <1>3, <1>4 DEF Read
  <2>2. Exported(Keyed[T][f], t).id = t.id
    BY <1>1, <1>3, <1>4, ExportedRow
  <2> QED
    BY <2>1, <2>2, <1>4
<1>5. IsRow(T, q) /\ (q.ref[f] = 0 \/ \E t \in data[Keyed[T][f]] : t.id = q.ref[f])
  BY <1>1, <1>3 DEF Closed
<1>6. CASE scope = 0
  <2>1. r = q /\ \A t : InScope(Keyed[T][f], t, scope)
    BY <1>2, <1>6, WholeSite
  <2> QED
    BY <2>1, <1>4, <1>5
<1>7. CASE scope # 0 /\ ~ (T = "Player" /\ f = "suspendedAtMatchId")
  <2>1. r.ref[f] = q.ref[f]
    <3>1. CASE r = q
      BY <3>1
    <3>2. CASE T = "Player" /\ r = [q EXCEPT !.ref["suspendedAtMatchId"] = 0]
      <4>1. q = [id |-> q.id, ref |-> q.ref, name |-> q.name] /\ q.ref \in [DOMAIN Keyed[T] -> Nat]
        BY <1>5 DEF IsRow
      <4>2. r.ref = [q.ref EXCEPT !["suspendedAtMatchId"] = 0]
        BY <3>2, <4>1
      <4>3. f # "suspendedAtMatchId"
        BY <1>7, <3>2
      <4> QED
        BY <4>1, <4>2, <4>3
    <3> QED
      BY <3>1, <3>2, <1>2 DEF Exported
  <2>2. ASSUME NEW t \in data[Keyed[T][f]], t.id = q.ref[f], q.ref[f] # 0
        PROVE  InScope(Keyed[T][f], t, scope)
    BY <2>2, <1>1, <1>2, <1>3, <1>7, ScopeCloses
  <2> QED
    BY <2>1, <2>2, <1>4, <1>5
<1>8. CASE scope # 0 /\ T = "Player" /\ f = "suspendedAtMatchId"
  <2>0. Keyed[T][f] = "Match"
    BY <1>8, KeyedUsers
  <2>1. CASE \E m \in MatchesOf(scope) : m.id = q.ref["suspendedAtMatchId"]
    <3>1. r = q
      BY <2>1, <1>2 DEF Exported
    <3>2. PICK m \in MatchesOf(scope) : m.id = r.ref[f]
      BY <2>1, <3>1, <1>8
    <3>3. m \in data["Match"] /\ InScope("Match", m, scope)
      BY DEF MatchesOf, InScope
    <3> QED
      BY <3>2, <3>3, <2>0, <1>4
  <2>2. CASE ~ \E m \in MatchesOf(scope) : m.id = q.ref["suspendedAtMatchId"]
    <3>1. r = [q EXCEPT !.ref["suspendedAtMatchId"] = 0]
      BY <2>2, <1>2, <1>8 DEF Exported
    <3>2. q = [id |-> q.id, ref |-> q.ref, name |-> q.name] /\ q.ref \in [DOMAIN Keyed[T] -> Nat]
      BY <1>5 DEF IsRow
    <3>3. r.ref = [q.ref EXCEPT !["suspendedAtMatchId"] = 0]
      BY <3>1, <3>2
    <3> QED
      BY <3>2, <3>3, <1>8
  <2> QED
    BY <2>1, <2>2
<1> QED
  BY <1>6, <1>7, <1>8

LEMMA CountsInFile ==
  ASSUME \A T \in Tables : IsSequence(copy[T])
  PROVE  /\ Keys(CountsWritten) = Tables /\ Distinct(CountsWritten)
         /\ \A T \in Tables : ValueOf(CountsWritten, T) = Len(copy[T])
         /\ \A i \in DOMAIN CountsWritten : CountsWritten[i][2] >= 0
<1> DEFINE w == CountsWritten
<1>1. w = [n \in 1..18 |-> <<TableAt(n), Len(copy[TableAt(n)])>>]
  BY PlacesOfTables DEF CountsWritten, TableAt, Places
<1> HIDE DEF w
<1>2. DOMAIN w = Places /\ w \in [1..18 -> Range(w)]
  BY <1>1 DEF Places, Range
<1>3. ASSUME NEW n \in Nat, NEW R, w \in [1..n -> R] PROVE w \in Seq(R)
  BY <1>3
<1>4. IsSequence(w)
  BY <1>2, <1>3 DEF IsSequence
<1>5. \A n \in Places : w[n][1] = TableAt(n) /\ w[n][2] = Len(copy[TableAt(n)])
  BY <1>1 DEF Places
<1>6. Keys(w) = Tables /\ Distinct(w)
  <2>1. \A n \in Places : w[n][1] = TableAt(n)
    BY <1>5
  <2> QED
    BY <2>1, <1>2, PlacesOfTables DEF Keys, Distinct
<1>7. ASSUME NEW T \in Tables PROVE ValueOf(w, T) = Len(copy[T])
  <2>1. PICK n \in Places : TableAt(n) = T
    BY PlacesOfTables
  <2> QED
    BY <2>1, <1>2, <1>4, <1>5, <1>6, OneValue
<1>8. ASSUME NEW T \in Tables PROVE Len(copy[T]) \in Nat
  <2>1. copy[T] \in Seq(Range(copy[T]))
    BY DEF IsSequence
  <2> QED
    BY <2>1
<1>9. ASSUME NEW i \in DOMAIN w PROVE w[i][2] >= 0
  <2>1. TableAt(i) \in Tables /\ w[i][2] = Len(copy[TableAt(i)])
    BY <1>2, <1>5, PlacesOfTables
  <2> QED
    BY <2>1, <1>8
<1> QED
  BY <1>6, <1>7, <1>9 DEF w

(* A file that nothing was done to. *)
LEMMA PlainFile ==
  ASSUME damage = NoDamage
  PROVE  /\ File = FilePlan(TablesWritten) /\ Manifest = ManifestPlan(CountsWritten)
         /\ damage.kind # "cut"
<1>1. damage.at = "none" /\ damage.kind # "cut"
  BY DEF NoDamage
<1>2. Manifest = ManifestPlan(CountsWritten)
  BY <1>1 DEF Manifest, ManifestPlan, Edited
<1>3. File = FilePlan(TablesWritten)
  BY <1>1 DEF File, FilePlan, Edited
<1> QED
  BY <1>1, <1>2, <1>3

(* The names in a plan, and what stands under them. *)
LEMMA PlanValues ==
  ASSUME NEW v
  PROVE  /\ Keys(FilePlan(v)) = {"formatVersion", "timestamp", "scope", "tables", "manifest"}
         /\ Distinct(FilePlan(v))
         /\ ValueOf(FilePlan(v), "formatVersion") = "3.0"
         /\ ValueOf(FilePlan(v), "scope") = ScopeName
         /\ ValueOf(FilePlan(v), "tables") = v
         /\ ValueOf(FilePlan(v), "manifest") = Manifest
         /\ Keys(ManifestPlan(v)) =
              {"formatVersion", "checksumAlgorithm", "checksum", "tables", "scope"}
         /\ Distinct(ManifestPlan(v))
         /\ ValueOf(ManifestPlan(v), "checksum") = TablesWritten
         /\ ValueOf(ManifestPlan(v), "tables") = v
<1> DEFINE f == FilePlan(v)
           m == ManifestPlan(v)
<1>1. /\ IsSequence(f) /\ DOMAIN f = 1..5 /\ IsSequence(m) /\ DOMAIN m = 1..5
  BY PlansAreSequences
<1>2. /\ f[1] = <<"formatVersion", "3.0">> /\ f[2] = <<"timestamp", 0>>
      /\ f[3] = <<"scope", ScopeName>> /\ f[4] = <<"tables", v>>
      /\ f[5] = <<"manifest", Manifest>>
  BY DEF FilePlan
<1>3. /\ m[1] = <<"formatVersion", "3.0">> /\ m[2] = <<"checksumAlgorithm", "sha256">>
      /\ m[3] = <<"checksum", TablesWritten>> /\ m[4] = <<"tables", v>>
      /\ m[5] = <<"scope", ScopeName>>
  BY DEF ManifestPlan
<1> HIDE DEF f, m
<1>4. /\ f[1][1] = "formatVersion" /\ f[2][1] = "timestamp" /\ f[3][1] = "scope"
      /\ f[4][1] = "tables" /\ f[5][1] = "manifest"
      /\ f[1][2] = "3.0" /\ f[3][2] = ScopeName /\ f[4][2] = v /\ f[5][2] = Manifest
  BY <1>2
<1>5. /\ m[1][1] = "formatVersion" /\ m[2][1] = "checksumAlgorithm" /\ m[3][1] = "checksum"
      /\ m[4][1] = "tables" /\ m[5][1] = "scope"
      /\ m[3][2] = TablesWritten /\ m[4][2] = v
  BY <1>3
<1>6. \A i \in 1..5 : i = 1 \/ i = 2 \/ i = 3 \/ i = 4 \/ i = 5
  OBVIOUS
<1>7. 1 \in 1..5 /\ 2 \in 1..5 /\ 3 \in 1..5 /\ 4 \in 1..5 /\ 5 \in 1..5
  OBVIOUS
<1>8. Distinct(f) /\ Keys(f) = {"formatVersion", "timestamp", "scope", "tables", "manifest"}
  BY <1>1, <1>4, <1>6, <1>7 DEF Distinct, Keys
<1>9. Distinct(m) /\ Keys(m) = {"formatVersion", "checksumAlgorithm", "checksum", "tables", "scope"}
  BY <1>1, <1>5, <1>6, <1>7 DEF Distinct, Keys
<1>10. \A i \in 1..5 : ValueOf(f, f[i][1]) = f[i][2] /\ ValueOf(m, m[i][1]) = m[i][2]
  BY <1>1, <1>8, <1>9, OneValue
<1>11. /\ ValueOf(f, "formatVersion") = "3.0" /\ ValueOf(f, "scope") = ScopeName
       /\ ValueOf(f, "tables") = v /\ ValueOf(f, "manifest") = Manifest
  BY <1>4, <1>7, <1>10
<1>12. ValueOf(m, "checksum") = TablesWritten /\ ValueOf(m, "tables") = v
  BY <1>5, <1>7, <1>10
<1> QED
  BY <1>8, <1>9, <1>11, <1>12 DEF f, m

(* Every check of the verification passes on what was read at rest. *)
LEMMA QuietFilePasses ==
  ASSUME FormatInvariant, AtRest, scope # 0 => ~ Approver, scope = 0 => data["User"] # {}
  PROVE  FALSE
<1> DEFINE p == ParseStream(File)
<1>1. /\ copy = [T \in Tables |-> copy[T]] /\ damage = NoDamage
      /\ \A T \in Tables : Range(copy[T]) = Read(T) /\ IsSequence(copy[T])
      /\ ~ Accepted(p)
  BY QuietCopies DEF FormatInvariant, FormatTypes, AtRest
<1>2. /\ File = FilePlan(TablesWritten) /\ Manifest = ManifestPlan(CountsWritten)
      /\ damage.kind # "cut"
  BY <1>1, PlainFile
<1>3. /\ Keys(File) = {"formatVersion", "timestamp", "scope", "tables", "manifest"}
      /\ Distinct(File) /\ ValueOf(File, "formatVersion") = "3.0"
      /\ ValueOf(File, "scope") = ScopeName /\ ValueOf(File, "tables") = TablesWritten
      /\ ValueOf(File, "manifest") = Manifest
  BY <1>2, PlanValues
<1>4. /\ Keys(Manifest) = {"formatVersion", "checksumAlgorithm", "checksum", "tables", "scope"}
      /\ Distinct(Manifest) /\ ValueOf(Manifest, "checksum") = TablesWritten
      /\ ValueOf(Manifest, "tables") = CountsWritten
  BY <1>2, PlanValues
<1>5. /\ p.tables = TablesWritten /\ p.manifest = Manifest /\ p.version = "3.0"
      /\ p.scope = IF ScopeName = "season" THEN "season" ELSE "full"
      /\ p.bad <=> ~ (/\ Keys(File) \subseteq TopLevelKeys /\ Distinct(File)
                      /\ TablesAreRead(TablesWritten) /\ ManifestIsRead(Manifest)
                      /\ Complete(TablesWritten, Manifest))
  BY <1>3 DEF ParseStream, ValueOr
<1> HIDE DEF p
<1>6. TablesAreRead(TablesWritten)
  <2>1. ASSUME NEW i \in DOMAIN TablesWritten
        PROVE  Staged(TablesWritten[i][1], TablesWritten[i][2])
    <3>1. /\ TableAt(i) \in Tables /\ TablesWritten[i][1] = TableAt(i)
          /\ TablesWritten[i][2] = copy[TableAt(i)]
      BY <1>1, TablesInFile, PlacesOfTables
    <3> QED
      BY <3>1, QuietIsStaged
  <2> QED
    BY <1>1, <2>1, TablesInFile DEF TablesAreRead
<1>7. ManifestIsRead(Manifest)
  BY <1>1, <1>4, CountsInFile DEF ManifestIsRead
<1>8. Complete(TablesWritten, Manifest)
  BY <1>1, <1>2, <1>4, TablesInFile, CountsInFile DEF Complete
<1>9. ~ p.bad
  BY <1>3, <1>5, <1>6, <1>7, <1>8 DEF TopLevelKeys
<1>10. p.scope = "full" => RowsOf(p.tables, "User") # {}
  <2> SUFFICES ASSUME p.scope = "full" PROVE RowsOf(p.tables, "User") # {}
    OBVIOUS
  <2>1. scope = 0
    BY <1>5 DEF ScopeName
  <2>2. PICK u : u \in data["User"]
    BY <2>1
  <2>3. Exported("User", u) \in Read("User")
    BY <2>1, <2>2, WholeSite DEF Read
  <2>4. RowsOf(TablesWritten, "User") = Read("User")
    BY <1>1, AllTablesNamed, TablesInFile
  <2> QED
    BY <2>3, <2>4, <1>5
<1>11. Integrity(p)
  <2>1. Counted(TablesWritten, CountsWritten)
    BY <1>1, TablesInFile, CountsInFile DEF Counted
  <2> QED
    BY <2>1, <1>4, <1>5, <1>10 DEF Integrity
<1>12. ReferencesHold(TablesWritten)
  <2>1. \A T \in Tables : RowsOf(TablesWritten, T) = Range(copy[T])
    BY <1>1, TablesInFile
  <2>2. \A T \in DOMAIN Keyed : \A f \in DOMAIN Keyed[T] : Keyed[T][f] \in Tables
    BY KeyedTables
  <2>3. \A T \in Tables \cap DOMAIN Keyed : \A r \in Range(copy[T]) : \A f \in DOMAIN Keyed[T] :
          r.ref[f] = 0 \/ \E t \in Range(copy[Keyed[T][f]]) : t.id = r.ref[f]
    BY QuietReferences
  <2> QED
    BY <2>1, <2>2, <2>3 DEF ReferencesHold
<1>13. Accepted(p)
  BY <1>5, <1>9, <1>11, <1>12 DEF Accepted
<1> QED
  BY <1>1, <1>13 DEF p

(* The export of a database at rest passes its own verification, that of a *)
(* season too: unless the site has no account, or who approved the         *)
(* deletion of the season has a team.                                      *)
THEOREM QuietExportsPass == FormatSpec => []QuietExportIsAccepted
<1>1. FormatInvariant => QuietExportIsAccepted
  BY QuietFilePasses DEF QuietExportIsAccepted, AtRest, Approver
<1> QED
  BY <1>1, FormatHolds, PTL
=============================================================================
