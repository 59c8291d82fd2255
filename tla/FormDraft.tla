------------------------------ MODULE FormDraft ------------------------------
(***************************************************************************)
(* Form drafts and the images of what they become                          *)
(* (src/src/form-draft/form-draft.service.ts, form-draft-recovery.service, *)
(* src/src/team/team-asset-pipeline.service.ts and the reference check of  *)
(* src/src/upload/upload.service.ts).                                      *)
(*                                                                         *)
(* A draft is materialized: a compare-and-set claims it, the temporary     *)
(* image it names is copied to a formal key, one transaction writes the    *)
(* official record and the draft, and afterwards the temporary object is   *)
(* removed if nothing refers to it.  Team requests without a draft take    *)
(* the same way from the copy on.  A process that starts resets drafts     *)
(* that have been claimed for more than five minutes.                      *)
(*                                                                         *)
(* A handler copies and creates at most once, so the formal key and the    *)
(* record it makes are named by the handler.  A payload is what its        *)
(* handling depends on: the image it names, or how far it can be used.     *)
(***************************************************************************)
EXTENDS Integers, FiniteSets

CONSTANTS
  Drafts, Handlers,
  Savers,           \* concurrent PATCH requests of drafts
  Temps,            \* temporary images that have been uploaded
  Existing,         \* official records that were there before
  Inputs,           \* the payloads that clients send
  NoOne

Records == Existing \cup Handlers
Images == Temps \cup Handlers
Payloads == Images \cup {"PLAIN",    \* complete, no image
                         "BLANK",    \* too little to make a record
                         "ODD"}      \* a form type the service does not know
Usable == Payloads \ {"BLANK", "ODD"}

(* Mutant: a claimed draft can be claimed again. *)
ClaimableTwice == {"DRAFT", "FAILED", "MATERIALIZING"}

Claimable == {"DRAFT", "FAILED"}
Statuses == Claimable \cup {"NONE", "GONE", "MATERIALIZING", "MATERIALIZED"}

ASSUME NamesAssumption ==
  /\ NoOne \notin Drafts \cup Records \cup Temps
  /\ Temps \cap Handlers = {} /\ Existing \cap Handlers = {}
  /\ {"PLAIN", "BLANK", "ODD"} \cap Images = {}
  /\ Inputs \subseteq Payloads \ Handlers
  /\ IsFiniteSet(Handlers)

VARIABLES
  dstatus, payload, official,      \* the rows
  stale,                           \* updatedAt is more than five minutes ago
  record,                          \* the image of each official record
  stored,                          \* objects in the bucket
  pc, draft, target, image, temp,  \* the handlers
  udraft, upayload, uofficial,     \* what a PATCH has read
  \* history
  born,                            \* records made of a draft
  meddled,                         \* drafts reset under a running handler, or unlinked by a PATCH
  unanswered,                      \* handlers whose COMMIT took effect without an answer
  late                             \* drafts that a reference check could not see: they named the image
                                   \* after it, are being deleted, or could not be read

rows     == <<dstatus, payload, official, stale>>
handlers == <<pc, draft, target, image, temp>>
patches  == <<udraft, upayload, uofficial>>
history  == <<born, meddled, unanswered, late>>
vars == <<rows, record, stored, handlers, patches, history>>

Claiming == {"claimed", "blank", "read", "copied", "undo", "broken"}
Steps == Claiming \cup {"idle", "committed", "removing", "sweep", "sweeping", "row", "over"}

TypeOK ==
  /\ dstatus \in [Drafts -> Statuses]
  /\ payload \in [Drafts -> Payloads]
  /\ official \in [Drafts -> Records \cup {NoOne}]
  /\ stale \in [Drafts -> BOOLEAN]
  /\ record \in [Records -> Images \cup {"PLAIN", NoOne}]
  /\ stored \subseteq Images
  /\ pc \in [Handlers -> Steps]
  /\ draft \in [Handlers -> Drafts \cup {NoOne}]
  /\ target \in [Handlers -> Records \cup {NoOne}]
  /\ image \in [Handlers -> Payloads]
  /\ temp \in [Handlers -> Temps \cup {NoOne}]
  /\ udraft \in [Savers -> Drafts \cup {NoOne}]
  /\ upayload \in [Savers -> Payloads]
  /\ uofficial \in [Savers -> Records \cup {NoOne}]
  /\ born \in [Drafts -> SUBSET Records]
  /\ meddled \subseteq Drafts /\ unanswered \subseteq Handlers /\ late \subseteq Drafts

Init ==
  /\ dstatus = [d \in Drafts |-> "NONE"]
  /\ payload = [d \in Drafts |-> "BLANK"]
  /\ official = [d \in Drafts |-> NoOne]
  /\ stale = [d \in Drafts |-> FALSE]
  /\ record = [r \in Records |-> IF r \in Existing THEN "PLAIN" ELSE NoOne]
  /\ stored = Temps
  /\ pc = [h \in Handlers |-> "idle"]
  /\ draft = [h \in Handlers |-> NoOne]
  /\ target = [h \in Handlers |-> NoOne]
  /\ image = [h \in Handlers |-> "PLAIN"]
  /\ temp = [h \in Handlers |-> NoOne]
  /\ udraft = [s \in Savers |-> NoOne]
  /\ upayload = [s \in Savers |-> "BLANK"]
  /\ uofficial = [s \in Savers |-> NoOne]
  /\ born = [d \in Drafts |-> {}]
  /\ meddled = {} /\ unanswered = {} /\ late = {}

Exists(d) == dstatus[d] \notin {"NONE", "GONE"}
Known == {r \in Records : record[r] # NoOne}

(* The handlers that are removing the temporary image t. *)
Removing(t) == {h \in Handlers : pc[h] \in {"removing", "sweeping"} /\ temp[h] = t}

(* A row's payload is written: whoever names an image that has gone, or is *)
(* just being removed, has come too late for the reference check.          *)
NowNaming(d, p) ==
  IF p \in Temps /\ (p \notin stored \/ Removing(p) # {}) THEN late \cup {d} ELSE late \ {d}

(* What a client sends: of its own, or as the record it edits shows it. *)
Sent(r) == IF r \in Known THEN Inputs \cup {record[r]} ELSE Inputs

-----------------------------------------------------------------------------
(* saveDraft *)

CreateDraft(d) ==
  /\ dstatus[d] = "NONE"
  /\ \E o \in Existing \cup {NoOne} : \E p \in Sent(o) :
       /\ payload' = [payload EXCEPT ![d] = p]
       /\ official' = [official EXCEPT ![d] = o]
       /\ late' = NowNaming(d, p)
  /\ dstatus' = [dstatus EXCEPT ![d] = "DRAFT"]
  /\ UNCHANGED <<stale, record, stored, handlers, patches, born, meddled, unanswered>>

(* The PATCH reads the row ... *)
SaveRead(s, d) ==
  /\ udraft[s] = NoOne /\ Exists(d)
  /\ udraft' = [udraft EXCEPT ![s] = d]
  /\ upayload' = [upayload EXCEPT ![s] = payload[d]]
  /\ uofficial' = [uofficial EXCEPT ![s] = official[d]]
  /\ UNCHANGED <<rows, record, stored, handlers, history>>

(* ... and writes every column it may change, those the request leaves out *)
(* from what it has read.  A row deleted meanwhile makes it fail.          *)
SaveWrite(s) ==
  LET d == udraft[s] IN
  /\ d # NoOne
  /\ IF Exists(d)
     THEN \E p \in Inputs \cup {upayload[s]}, o \in Existing \cup {uofficial[s]} :
            /\ payload' = [payload EXCEPT ![d] = p]
            /\ official' = [official EXCEPT ![d] = o]
            /\ stale' = [stale EXCEPT ![d] = FALSE]
            /\ late' = NowNaming(d, p)
            /\ meddled' = IF born[d] # {} /\ o \notin born[d] THEN meddled \cup {d} ELSE meddled
     ELSE UNCHANGED <<payload, official, stale, late, meddled>>
  /\ udraft' = [udraft EXCEPT ![s] = NoOne]
  /\ upayload' = [upayload EXCEPT ![s] = "BLANK"]
  /\ uofficial' = [uofficial EXCEPT ![s] = NoOne]
  /\ UNCHANGED <<dstatus, record, stored, handlers, born, unanswered>>

-----------------------------------------------------------------------------
(* tryMaterialize *)

Claim(h, d) ==
  /\ pc[h] = "idle" /\ dstatus[d] \in Claimable
  /\ dstatus' = [dstatus EXCEPT ![d] = "MATERIALIZING"]
  /\ stale' = [stale EXCEPT ![d] = FALSE]
  /\ pc' = [pc EXCEPT ![h] = "claimed"]
  /\ draft' = [draft EXCEPT ![h] = d]
  /\ UNCHANGED <<payload, official, record, stored, target, image, temp, patches, history>>

(* The row is read again.  A draft of an unknown type ends the request and *)
(* stays claimed; one that is incomplete, or for which there is no season, *)
(* is put back; anything that throws makes it fail.                        *)
ReadDraft(h) ==
  LET d == draft[h] IN
  /\ pc[h] = "claimed"
  /\ image' = [image EXCEPT ![h] = payload[d]]
  /\ target' = [target EXCEPT ![h] = official[d]]
  /\ \/ /\ ~Exists(d) \/ payload[d] = "ODD"
        /\ pc' = [pc EXCEPT ![h] = "over"]
     \/ /\ Exists(d) /\ payload[d] # "ODD"
        /\ \E s \in {"blank", "broken"} : pc' = [pc EXCEPT ![h] = s]
     \/ /\ Exists(d) /\ payload[d] \in Usable
        /\ pc' = [pc EXCEPT ![h] = "read"]
  /\ UNCHANGED <<rows, record, stored, draft, temp, patches, history>>

(* A status written by id, whatever the row's status is by now. *)
SetStatus(d, s) ==
  IF d \in Drafts /\ Exists(d)
  THEN dstatus' = [dstatus EXCEPT ![d] = s] /\ stale' = [stale EXCEPT ![d] = FALSE]
  ELSE UNCHANGED <<dstatus, stale>>

PutBack(h) ==
  /\ pc[h] = "blank"
  /\ SetStatus(draft[h], "DRAFT")
  /\ pc' = [pc EXCEPT ![h] = "over"]
  /\ UNCHANGED <<payload, official, record, stored, draft, target, image, temp, patches, history>>

(* Mutant: a failed draft forgets its record. *)
MarkFailedUnlinked(h) ==
  /\ pc[h] = "broken"
  /\ SetStatus(draft[h], "FAILED")
  /\ official' = IF draft[h] \in Drafts THEN [official EXCEPT ![draft[h]] = NoOne] ELSE official
  /\ pc' = [pc EXCEPT ![h] = "over"]
  /\ UNCHANGED <<payload, record, stored, draft, target, image, temp, patches, history>>

MarkFailed(h) ==
  /\ pc[h] = "broken"
  /\ SetStatus(draft[h], "FAILED")
  /\ pc' = [pc EXCEPT ![h] = "over"]
  /\ UNCHANGED <<payload, official, record, stored, draft, target, image, temp, patches, history>>

(* A team created or updated without a draft. *)
BeginTeam(h) ==
  /\ pc[h] = "idle"
  /\ \E r \in Existing \cup {NoOne} : \E i \in Sent(r) \cap Usable :
       /\ image' = [image EXCEPT ![h] = i]
       /\ target' = [target EXCEPT ![h] = r]
  /\ pc' = [pc EXCEPT ![h] = "read"]
  /\ UNCHANGED <<rows, record, stored, draft, temp, patches, history>>

-----------------------------------------------------------------------------
(* prepareTeamAssets, the transaction, safeRollback *)

(* A temporary image is copied to the handler's formal key; another is     *)
(* taken as it is.  A copy may fail, with or without the object.           *)
Prepare(h) ==
  /\ pc[h] = "read"
  /\ \/ /\ image[h] \notin Temps
        /\ pc' = [pc EXCEPT ![h] = "copied"]
        /\ UNCHANGED <<stored, image, temp>>
     \/ /\ image[h] \in Temps \cap stored
        /\ stored' = stored \cup {h}
        /\ image' = [image EXCEPT ![h] = h]
        /\ temp' = [temp EXCEPT ![h] = image[h]]
        /\ pc' = [pc EXCEPT ![h] = "copied"]
     \/ /\ image[h] \in Temps
        /\ stored' \in {stored, IF image[h] \in stored THEN stored \cup {h} ELSE stored}
        /\ pc' = [pc EXCEPT ![h] = "broken"]
        /\ UNCHANGED <<image, temp>>
  /\ UNCHANGED <<rows, record, draft, target, patches, history>>

Copied(h) == temp[h] # NoOne          \* the handler has made a formal object

Made(h) == IF target[h] # NoOne THEN target[h] ELSE h

(* The transaction succeeds only if the record to update and the draft are *)
(* still there.  The draft gets the prepared payload; a match draft keeps  *)
(* the row's.                                                              *)
Written(h) ==
  LET d == draft[h] IN
  /\ pc[h] = "copied"
  /\ target[h] # NoOne => target[h] \in Known
  /\ record' = [record EXCEPT ![Made(h)] = image[h]]
  /\ IF d = NoOne THEN UNCHANGED <<rows, born, late>>
     ELSE /\ Exists(d)
          /\ dstatus' = [dstatus EXCEPT ![d] = "MATERIALIZED"]
          /\ official' = [official EXCEPT ![d] = Made(h)]
          /\ stale' = [stale EXCEPT ![d] = FALSE]
          /\ \/ payload' = [payload EXCEPT ![d] = image[h]] /\ late' = late \ {d}
             \/ image[h] = "PLAIN" /\ UNCHANGED <<payload, late>>
          /\ born' = IF Made(h) = h THEN [born EXCEPT ![d] = @ \cup {h}] ELSE born
  /\ UNCHANGED <<stored, draft, target, image, temp, patches, meddled>>

Commit(h) ==
  /\ Written(h)
  /\ pc' = [pc EXCEPT ![h] = IF Copied(h) THEN "committed" ELSE "over"]
  /\ UNCHANGED unanswered

(* The connection is lost after the COMMIT took effect. *)
CommitUnanswered(h) ==
  /\ Written(h)
  /\ pc' = [pc EXCEPT ![h] = "undo"]
  /\ unanswered' = unanswered \cup {h}

CommitFails(h) ==
  /\ pc[h] = "copied"
  /\ pc' = [pc EXCEPT ![h] = "undo"]
  /\ UNCHANGED <<rows, record, stored, draft, target, image, temp, patches, history>>

(* safeRollback deletes what this handler has copied, or logs that it could not. *)
Undo(h) ==
  /\ pc[h] = "undo"
  /\ stored' \in {stored, IF Copied(h) THEN stored \ {h} ELSE stored}
  /\ pc' = [pc EXCEPT ![h] = "broken"]
  /\ UNCHANGED <<rows, record, draft, target, image, temp, patches, history>>

-----------------------------------------------------------------------------
(* cleanupTempKeys: after the commit, from deleteDraft, or by itself *)

NoRecordHas(t) == \A r \in Records : record[r] # t

(* Mutant: only the official tables are asked. *)
UnreferencedByRecords(t, but) == NoRecordHas(t)

Unreferenced(t, but) ==
  /\ NoRecordHas(t)
  /\ \A d \in Drafts \ but : Exists(d) /\ dstatus[d] # "MATERIALIZED" => payload[d] # t

(* If the drafts cannot be read, they are taken not to name the image. *)
CheckRefs(h) ==
  LET t == temp[h]
      but == IF pc[h] = "sweep" THEN {draft[h]} ELSE {}
      goOn(ok) == pc' = [pc EXCEPT ![h] = IF pc[h] = "sweep" THEN IF ok THEN "sweeping" ELSE "row"
                                          ELSE IF ok THEN "removing" ELSE "over"] IN
  /\ pc[h] \in {"committed", "sweep"}
  /\ \/ goOn(Unreferenced(t, but)) /\ UNCHANGED late
     \/ goOn(NoRecordHas(t)) /\ late' = late \cup {d \in Drafts : payload[d] = t}
  /\ UNCHANGED <<rows, record, stored, draft, target, image, temp, patches, born, meddled, unanswered>>

(* A failed DELETE is only logged. *)
RemoveTemp(h) ==
  /\ pc[h] \in {"removing", "sweeping"}
  /\ stored' \in {stored, stored \ {temp[h]}}
  /\ pc' = [pc EXCEPT ![h] = IF pc[h] = "sweeping" THEN "row" ELSE "over"]
  /\ late' = IF pc[h] = "sweeping" THEN late \cup {draft[h]} ELSE late
  /\ UNCHANGED <<rows, record, draft, target, image, temp, patches, born, meddled, unanswered>>

(* Only keys of temporary images are cleaned up. *)
Cleanable(p) == p \in Temps

BeginDelete(h, d) ==
  /\ pc[h] = "idle" /\ Exists(d)
  /\ draft' = [draft EXCEPT ![h] = d]
  /\ temp' = [temp EXCEPT ![h] = IF Cleanable(payload[d]) THEN payload[d] ELSE NoOne]
  /\ pc' = [pc EXCEPT ![h] = IF Cleanable(payload[d]) THEN "sweep" ELSE "row"]
  /\ UNCHANGED <<rows, record, stored, target, image, patches, history>>

(* A client asks for a temporary image to be removed. *)
BeginCleanup(h, t) ==
  /\ pc[h] = "idle"
  /\ temp' = [temp EXCEPT ![h] = t]
  /\ pc' = [pc EXCEPT ![h] = "committed"]
  /\ UNCHANGED <<rows, record, stored, draft, target, image, patches, history>>

DeleteRow(h) ==
  /\ pc[h] = "row"
  /\ SetStatus(draft[h], "GONE")
  /\ pc' = [pc EXCEPT ![h] = "over"]
  /\ UNCHANGED <<payload, official, record, stored, draft, target, image, temp, patches, history>>

-----------------------------------------------------------------------------
(* Crashes, time and recovery *)

Crash(h) ==
  /\ pc[h] \notin {"idle", "over"}
  /\ pc' = [pc EXCEPT ![h] = "over"]
  /\ UNCHANGED <<rows, record, stored, draft, target, image, temp, patches, history>>

FiveMinutesPass(d) ==
  /\ dstatus[d] = "MATERIALIZING" /\ ~stale[d]
  /\ stale' = [stale EXCEPT ![d] = TRUE]
  /\ UNCHANGED <<dstatus, payload, official, record, stored, handlers, patches, history>>

Stuck == {d \in Drafts : dstatus[d] = "MATERIALIZING" /\ stale[d]}

(* A process starts and resets what looks abandoned. *)
Recover ==
  /\ Stuck # {}
  /\ dstatus' = [d \in Drafts |-> IF d \in Stuck THEN "DRAFT" ELSE dstatus[d]]
  /\ stale' = [d \in Drafts |-> IF d \in Stuck THEN FALSE ELSE stale[d]]
  /\ meddled' = meddled \cup {d \in Stuck : \E h \in Handlers : draft[h] = d /\ pc[h] \in Claiming}
  /\ UNCHANGED <<payload, official, record, stored, handlers, patches, born, unanswered, late>>

-----------------------------------------------------------------------------
Materialize(h) ==
  \/ ReadDraft(h) \/ PutBack(h) \/ MarkFailed(h) \/ BeginTeam(h) \/ Prepare(h)
  \/ Commit(h) \/ CommitUnanswered(h) \/ CommitFails(h) \/ Undo(h)
  \/ CheckRefs(h) \/ RemoveTemp(h) \/ DeleteRow(h) \/ Crash(h)

Next ==
  \/ \E h \in Handlers : Materialize(h) \/ \E t \in Temps : BeginCleanup(h, t)
  \/ \E h \in Handlers, d \in Drafts : Claim(h, d) \/ BeginDelete(h, d)
  \/ \E s \in Savers : SaveWrite(s)
  \/ \E s \in Savers, d \in Drafts : SaveRead(s, d)
  \/ \E d \in Drafts : CreateDraft(d) \/ FiveMinutesPass(d)
  \/ Recover

Spec == Init /\ [][Next]_vars

-----------------------------------------------------------------------------
(* Properties *)

(* A draft becomes one official record, however many requests claim it,    *)
(* fail, crash or lose the answer of their commit - unless a starting      *)
(* process resets it under a running request or a PATCH removes the link.  *)
OneRecord == \A d \in Drafts \ meddled : Cardinality(born[d]) <= 1

(* Whatever became of the request that made it, the record of a draft is   *)
(* linked to it: the next materialization updates it.                      *)
LinkedToItsRecord ==
  \A d \in Drafts \ meddled : born[d] # {} => official[d] \in born[d]

(* The image of an official record is in the bucket: compensation deletes  *)
(* only what its own, rolled back, transaction would have used.            *)
RecordImageKept ==
  \A r \in Records : record[r] \in Handlers => record[r] \in stored \cup unanswered

(* A draft that can still be materialized has its image, unless it named   *)
(* the image after the reference check had been made, could not be read by *)
(* it, is itself being deleted, was reset under a running request, or lost *)
(* a commit's answer.                                                      *)
DraftImageKept ==
  \A d \in Drafts \ (meddled \cup late) :
    /\ dstatus[d] \in Claimable /\ payload[d] \in Temps
    /\ \A h \in unanswered : draft[h] # d
    => payload[d] \in stored

(* No image in use is deleted: not by a compensation, nor by the cleanup   *)
(* after a materialization, nor by a deletion of a draft.                  *)
ImagesInUseKept == RecordImageKept /\ DraftImageKept
=============================================================================
