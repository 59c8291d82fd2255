------------------------------ MODULE PdfImport ------------------------------
(***************************************************************************)
(* The import of registration forms from PDF files                         *)
(* (src/src/import/pdf-import.service.ts, with copyObject and              *)
(* deleteByPrefix of src/src/upload/upload.service.ts).                    *)
(*                                                                         *)
(* A preview stores the images of the form under a temporary prefix and    *)
(* makes a batch.  A commit claims the batch, copies the images it names   *)
(* to the formal prefix of the batch and creates the teams in one          *)
(* transaction; when anything fails it deletes the formal prefix.  A       *)
(* cancellation, the cleanup that every preview starts beside itself, and  *)
(* the recovery of commits that have taken longer than ten minutes read a  *)
(* batch, delete a prefix and then write the row by its id, whatever the   *)
(* row says by then.                                                       *)
(*                                                                         *)
(* One user's batches are modelled: nobody sees another user's.            *)
(***************************************************************************)
EXTENDS Integers, FiniteSets

CONSTANTS
  Batches,      \* ids that previews draw
  Requests,     \* handlers, and the cleanups that previews leave running
  Forms,        \* contents of PDF files, told apart by their hash
  Extracted,    \* the images of a form
  Manual,       \* photos that staff put in their place
  NoBatch

Images == Extracted \cup Manual
Statuses == {"NONE", "PREVIEW", "COMMITTING", "COMMITTED", "FAILED", "CANCELLED", "EXPIRED"}

ASSUME PdfNames == /\ NoBatch \notin Batches
                   /\ Extracted \cap Manual = {}
                   /\ IsFiniteSet(Batches) /\ IsFiniteSet(Images)

VARIABLES
  row,          \* pdf_import_batches; shown: previewData, the images a client has been given
  temp, formal, \* what is stored under each batch's two prefixes
  made,         \* how often the teams of a batch have been created
  uses,         \* the images that these teams and players name
  req,
  \* history
  spoiled,      \* batches whose cancellation has begun, or whose row nobody answered for
  overwritten,  \* batches cancelled or expired after a commit had claimed them
  undercut,     \* batches that a recovery found under a running commit,
                \* or whose COMMIT took effect without an answer
  leftover      \* batches of which a deletion that answered well left images behind

stores == <<temp, formal>>
teams == <<made, uses>>
history == <<spoiled, overwritten, undercut, leftover>>
vars == <<row, stores, teams, req, history>>

Idle == [pc |-> "idle", batch |-> NoBatch, todo |-> {}, want |-> {}, found |-> {}, goal |-> "NONE", ok |-> FALSE]
Steps == {"idle", "uploading", "unwind", "photo", "copying", "tidy", "undo", "failing", "find", "clear", "mark"}

Rows == [status : Statuses, file : Forms, expired : BOOLEAN, overdue : BOOLEAN,
         cleanup : BOOLEAN, shown : SUBSET Images]
Handlers == [pc : Steps, batch : Batches \cup {NoBatch}, todo : SUBSET Images, want : SUBSET Images,
             found : SUBSET Batches, goal : Statuses, ok : BOOLEAN]

TypeOK ==
  /\ row \in [Batches -> Rows]
  /\ temp \in [Batches -> SUBSET Images] /\ formal \in [Batches -> SUBSET Images]
  /\ made \in [Batches -> Nat] /\ uses \in [Batches -> SUBSET Images]
  /\ req \in [Requests -> Handlers]
  /\ {spoiled, overwritten, undercut, leftover} \subseteq SUBSET Batches

Init ==
  /\ row \in [Batches -> {[status |-> "NONE", file |-> f, expired |-> FALSE, overdue |-> FALSE,
                           cleanup |-> FALSE, shown |-> {}] : f \in Forms}]
  /\ temp = [b \in Batches |-> {}] /\ formal = [b \in Batches |-> {}]
  /\ made = [b \in Batches |-> 0] /\ uses = [b \in Batches |-> {}]
  /\ req = [r \in Requests |-> Idle]
  /\ spoiled = {} /\ overwritten = {} /\ undercut = {} /\ leftover = {}

At(r, step) == req[r].pc = step
Goes(r, step) == req' = [req EXCEPT ![r].pc = step]
Ends(r) == req' = [req EXCEPT ![r] = Idle]
Closed(b, status) == [row[b] EXCEPT !.status = status, !.shown = {}]
Committing(r, b) == req[r].batch = b /\ req[r].pc \in {"copying", "undo", "failing"}

(***************************************************************************)
(* What deleteByPrefix may do to the images `had`: it takes them all, it   *)
(* throws after some, or it answers well although the store kept some,     *)
(* since nobody looks at the errors of a DeleteObjects answer.             *)
(***************************************************************************)
Deletion(had) == {[left |-> l, ok |-> o] : l \in SUBSET had, o \in BOOLEAN}

ClearTemp(b, d) == temp' = [temp EXCEPT ![b] = d.left] /\ UNCHANGED <<formal, leftover>>
ClearFormal(b, d) ==
  /\ formal' = [formal EXCEPT ![b] = d.left]
  /\ leftover' = IF d.ok /\ d.left # {} THEN leftover \cup {b} ELSE leftover
  /\ UNCHANGED temp

-----------------------------------------------------------------------------
(***************************************************************************)
(* Previews.  The same file gives the open batch it has, otherwise its     *)
(* images are stored before the row; when that fails they are deleted,     *)
(* while uploads that Promise.all no longer waits for may still land.      *)
(***************************************************************************)
Open(b) == row[b].status = "PREVIEW" /\ ~row[b].expired
OpenOf(f) == {b \in Batches : Open(b) /\ row[b].file = f}

(* An id nobody has drawn: no row, no object, no preview that works with it. *)
Drawable == {b \in Batches : row[b].status = "NONE" /\ temp[b] = {} /\ \A r \in Requests : req[r].batch # b}

BeginPreview(r, s, f) ==
  /\ r # s /\ At(r, "idle") /\ At(s, "idle")
  /\ \/ /\ OpenOf(f) # {}
        /\ Goes(s, "find")
     \/ /\ OpenOf(f) = {}
        /\ \E b \in Drawable :
             /\ row[b].file = f
             /\ req' = [req EXCEPT ![s].pc = "find",
                                   ![r] = [Idle EXCEPT !.pc = "uploading", !.batch = b, !.todo = Extracted]]
  /\ UNCHANGED <<row, stores, teams, history>>

UploadImage(r) ==
  /\ At(r, "uploading")
  /\ \E i \in req[r].todo :
       /\ temp' = [temp EXCEPT ![req[r].batch] = @ \cup {i}]
       /\ req' = [req EXCEPT ![r].todo = @ \ {i}]
  /\ UNCHANGED <<row, formal, teams, history>>

CreateBatch(r) ==
  /\ At(r, "uploading") /\ req[r].todo = {}
  /\ row' = [row EXCEPT ![req[r].batch].status = "PREVIEW", ![req[r].batch].shown = Extracted]
  /\ \/ Ends(r) /\ UNCHANGED spoiled
     \/ Goes(r, "unwind") /\ spoiled' = spoiled \cup {req[r].batch}
  /\ UNCHANGED <<stores, teams, overwritten, undercut, leftover>>

PreviewFails(r) ==
  /\ At(r, "uploading")
  /\ Goes(r, "unwind")
  /\ UNCHANGED <<row, stores, teams, history>>

Unwind(r) ==
  /\ At(r, "unwind")
  /\ \E d \in Deletion(temp[req[r].batch]), landing \in SUBSET req[r].todo :
       ClearTemp(req[r].batch, [d EXCEPT !.left = @ \cup landing])
  /\ Ends(r)
  /\ UNCHANGED <<row, teams, spoiled, overwritten, undercut>>

(* A photo replaces one of the form; only the status is looked at, before the conversion and the upload. *)
BeginPhoto(r, b) ==
  /\ At(r, "idle") /\ row[b].status = "PREVIEW"
  /\ \E i \in Manual \ temp[b] :
       req' = [req EXCEPT ![r] = [Idle EXCEPT !.pc = "photo", !.batch = b, !.todo = {i}]]
  /\ UNCHANGED <<row, stores, teams, history>>

PutPhoto(r) ==
  /\ At(r, "photo")
  /\ temp' = [temp EXCEPT ![req[r].batch] = @ \cup req[r].todo]
  /\ row' = [row EXCEPT ![req[r].batch].shown = @ \cup req[r].todo]
  /\ Ends(r)
  /\ UNCHANGED <<formal, teams, history>>

-----------------------------------------------------------------------------
(* Commits. *)
(* Mutant: the claim does not look at the status. *)
ClaimableTwice(b) == row[b].status \in {"PREVIEW", "COMMITTING"} /\ ~row[b].expired

Claimable(b) == Open(b)

BeginCommit(r, b) ==
  /\ At(r, "idle") /\ Claimable(b)
  /\ row' = [row EXCEPT ![b].status = "COMMITTING", ![b].overdue = FALSE]
  /\ \E named \in SUBSET row[b].shown :
       req' = [req EXCEPT ![r] = [Idle EXCEPT !.pc = "copying", !.batch = b, !.todo = named, !.want = named]]
  /\ UNCHANGED <<stores, teams, history>>

Copy(r) ==
  /\ At(r, "copying")
  /\ \E i \in req[r].todo \cap temp[req[r].batch] :
       /\ formal' = [formal EXCEPT ![req[r].batch] = @ \cup {i}]
       /\ \/ req' = [req EXCEPT ![r].todo = @ \ {i}]
          \/ Goes(r, "undo")                                    \* the copy is made, its answer is lost
  /\ UNCHANGED <<row, temp, teams, history>>

CreateTeams(r) ==
  /\ At(r, "copying") /\ req[r].todo = {}
  /\ LET b == req[r].batch IN
     /\ made' = [made EXCEPT ![b] = @ + 1]
     /\ uses' = [uses EXCEPT ![b] = @ \cup req[r].want]
     /\ row' = [row EXCEPT ![b] = Closed(b, "COMMITTED")]
     /\ \/ Goes(r, "tidy") /\ UNCHANGED undercut
        \/ Goes(r, "undo") /\ undercut' = undercut \cup {b}     \* COMMIT is answered by an error
  /\ UNCHANGED <<stores, spoiled, overwritten, leftover>>

(* A copy or the transaction fails: an image is gone, the store or the database is away. *)
CommitFails(r) ==
  /\ At(r, "copying")
  /\ Goes(r, "undo")
  /\ UNCHANGED <<row, stores, teams, history>>

Tidy(r) ==
  /\ At(r, "tidy")
  /\ \E d \in Deletion(temp[req[r].batch]) : ClearTemp(req[r].batch, d)
  /\ Ends(r)
  /\ UNCHANGED <<row, teams, spoiled, overwritten, undercut>>

Undo(r) ==
  /\ At(r, "undo")
  /\ \E d \in Deletion(formal[req[r].batch]) :
       /\ ClearFormal(req[r].batch, d)
       /\ req' = [req EXCEPT ![r].pc = "failing", ![r].ok = d.ok]
  /\ UNCHANGED <<row, teams, spoiled, overwritten, undercut>>

(* Mutant: a failed deletion is not written down. *)
FailForgetting(r) ==
  /\ At(r, "failing")
  /\ row' = [row EXCEPT ![req[r].batch] = [Closed(req[r].batch, "FAILED") EXCEPT !.cleanup = FALSE]]
  /\ Ends(r)
  /\ UNCHANGED <<stores, teams, history>>

Fail(r) ==
  /\ At(r, "failing")
  /\ \/ row' = [row EXCEPT ![req[r].batch] = [Closed(req[r].batch, "FAILED") EXCEPT !.cleanup = ~req[r].ok]]
     \/ UNCHANGED row                                           \* the update's error is swallowed
  /\ Ends(r)
  /\ UNCHANGED <<stores, teams, history>>

-----------------------------------------------------------------------------
(***************************************************************************)
(* Cancellation, cleanup of expired previews and recovery: each finds      *)
(* batches, and for one after the other deletes a prefix and writes the    *)
(* row.                                                                    *)
(***************************************************************************)
BeginCancel(r, b) ==
  /\ At(r, "idle") /\ row[b].status = "PREVIEW"
  /\ req' = [req EXCEPT ![r] = [Idle EXCEPT !.pc = "clear", !.found = {b}, !.goal = "CANCELLED"]]
  /\ spoiled' = spoiled \cup {b}
  /\ UNCHANGED <<row, stores, teams, overwritten, undercut, leftover>>

(* Mutant: previews are cleaned up before their time. *)
AnyPreview == {b \in Batches : row[b].status = "PREVIEW"}

ExpiredPreviews == {b \in Batches : row[b].status = "PREVIEW" /\ row[b].expired}

Find(r) ==
  /\ At(r, "find")
  /\ req' = [req EXCEPT ![r] = IF ExpiredPreviews = {} THEN Idle
                               ELSE [Idle EXCEPT !.pc = "clear", !.found = ExpiredPreviews, !.goal = "EXPIRED"]]
  /\ UNCHANGED <<row, stores, teams, history>>

Stuck == {b \in Batches : row[b].cleanup \/ (row[b].status = "COMMITTING" /\ row[b].overdue)}

BeginRecovery(r) ==
  /\ At(r, "idle") /\ Stuck # {}
  /\ req' = [req EXCEPT ![r] = [Idle EXCEPT !.pc = "clear", !.found = Stuck, !.goal = "FAILED"]]
  /\ undercut' = undercut \cup {b \in Stuck : \E q \in Requests : Committing(q, b)}
  /\ UNCHANGED <<row, stores, teams, spoiled, overwritten, leftover>>

Clear(r) ==
  /\ At(r, "clear")
  /\ \E b \in req[r].found :
       \E d \in Deletion(IF req[r].goal = "FAILED" THEN formal[b] ELSE temp[b]) :
         /\ IF req[r].goal = "FAILED" THEN ClearFormal(b, d) ELSE ClearTemp(b, d)
         /\ req' = [req EXCEPT ![r].pc = "mark", ![r].batch = b, ![r].found = @ \ {b}, ![r].ok = d.ok]
  /\ UNCHANGED <<row, teams, spoiled, overwritten, undercut>>

Mark(r) ==
  /\ At(r, "mark")
  /\ LET b == req[r].batch IN
     /\ row' = [row EXCEPT ![b] = [Closed(b, req[r].goal) EXCEPT
                                    !.cleanup = IF req[r].goal = "FAILED" THEN ~req[r].ok ELSE @]]
     /\ overwritten' = IF req[r].goal # "FAILED" /\ row[b].status # "PREVIEW" THEN overwritten \cup {b} ELSE overwritten
  /\ req' = [req EXCEPT ![r] = IF req[r].found = {} THEN Idle
                               ELSE [req[r] EXCEPT !.pc = "clear", !.batch = NoBatch]]
  /\ UNCHANGED <<stores, teams, spoiled, undercut, leftover>>

-----------------------------------------------------------------------------
(* The process of a handler dies, or its database call fails for good. *)
Dies(r) == ~At(r, "idle") /\ Ends(r) /\ UNCHANGED <<row, stores, teams, history>>

(* Thirty minutes after a preview, ten minutes after a claim. *)
Expires(b) == Open(b) /\ row' = [row EXCEPT ![b].expired = TRUE] /\ UNCHANGED <<stores, teams, req, history>>
BecomesOverdue(b) ==
  /\ row[b].status = "COMMITTING" /\ ~row[b].overdue
  /\ row' = [row EXCEPT ![b].overdue = TRUE]
  /\ UNCHANGED <<stores, teams, req, history>>

Next ==
  \/ \E r \in Requests :
       \/ UploadImage(r) \/ CreateBatch(r) \/ PreviewFails(r) \/ Unwind(r) \/ PutPhoto(r)
       \/ Copy(r) \/ CreateTeams(r) \/ CommitFails(r) \/ Tidy(r) \/ Undo(r) \/ Fail(r)
       \/ Find(r) \/ BeginRecovery(r) \/ Clear(r) \/ Mark(r) \/ Dies(r)
       \/ \E s \in Requests, f \in Forms : BeginPreview(r, s, f)
       \/ \E b \in Batches : BeginPhoto(r, b) \/ BeginCommit(r, b) \/ BeginCancel(r, b)
  \/ \E b \in Batches : Expires(b) \/ BecomesOverdue(b)

Spec == Init /\ [][Next]_vars

-----------------------------------------------------------------------------
(***************************************************************************)
(* A batch makes its teams at most once, however many commits,             *)
(* cancellations and recoveries meet on it, and the images these teams     *)
(* name stay stored: no failed second commit, recovery or cleanup takes    *)
(* them, unless the recovery came while the commit was still running, or   *)
(* the commit did not learn that it had succeeded (commitPdfBatch,         *)
(* recoverStuckBatches).                                                   *)
(***************************************************************************)
CommittedWhole ==
  \A b \in Batches : made[b] <= 1 /\ (b \in undercut \/ uses[b] \subseteq formal[b])

(***************************************************************************)
(* Images that were copied for teams that do not exist are never           *)
(* forgotten: at every moment the row is one a recovery finds, at once or  *)
(* when the claim is overdue.  Not so when a cancellation or a cleanup     *)
(* wrote over the claim, a recovery came too early, or the store kept what *)
(* it had promised to delete (commitPdfBatch's catch, recoverStuckBatches). *)
(***************************************************************************)
Recoverable ==
  \A b \in Batches : formal[b] # {} /\ made[b] = 0 =>
    \/ row[b].status = "COMMITTING" \/ row[b].cleanup
    \/ b \in overwritten \cup undercut \cup leftover

(***************************************************************************)
(* Every image that a preview gave its client is there until the preview   *)
(* expires, is committed, or a cancellation begins: what staff look at and *)
(* then commit can be copied (previewPdf, uploadBatchTempPhoto,            *)
(* lazyCleanupExpiredBatches).                                             *)
(***************************************************************************)
PreviewIsViewable ==
  \A b \in Batches : Open(b) /\ b \notin spoiled => row[b].shown \subseteq temp[b]
=============================================================================
