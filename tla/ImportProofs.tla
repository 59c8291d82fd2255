---------------------------- MODULE ImportProofs ----------------------------
(***************************************************************************)
(* Both imports, for every number of batches, requests, images and files.  *)
(*                                                                         *)
(* PDF files: a batch is claimed once in its life, because no status leads *)
(* back to a preview; everything else follows from who may still be        *)
(* working on it.                                                          *)
(*                                                                         *)
(* Season files: an import only creates rows with its own number, its undo *)
(* only deletes such rows and what hangs on them, and in a database whose  *)
(* foreign keys hold nothing older can hang on a newer row.                *)
(***************************************************************************)
EXTENDS PdfImport, HistoryImport, NaturalsInduction, WellFoundedInduction, TLAPS

(* A recovery has found the batch. *)
Recovering(r, b) == req[r].goal = "FAILED" /\ (b \in req[r].found \/ req[r].batch = b)

(* A batch by the status of its row, and by what has been made of it. *)
BatchFacts(b) ==
  /\ row[b].status = "NONE" =>
       /\ made[b] = 0 /\ formal[b] = {} /\ ~row[b].cleanup
       /\ \A r \in Requests :
            /\ b \notin req[r].found
            /\ req[r].batch = b => req[r].pc \in {"uploading", "unwind"} /\ req[r].goal = "NONE"
  /\ row[b].status = "PREVIEW" =>
       /\ made[b] = 0 /\ formal[b] = {} /\ ~row[b].cleanup
       /\ \A r \in Requests : ~Committing(r, b) /\ ~Recovering(r, b) /\ ~(At(r, "tidy") /\ req[r].batch = b)
  /\ row[b].status = "COMMITTING" => made[b] = 0
  /\ made[b] \in {0, 1} /\ (made[b] = 0 => uses[b] = {})
  /\ b \in undercut \/ uses[b] \subseteq formal[b]
  /\ row[b].cleanup /\ b \notin undercut => made[b] = 0 /\ \A r \in Requests : ~Committing(r, b)
  /\ formal[b] # {} /\ made[b] = 0 =>
       row[b].status = "COMMITTING" \/ row[b].cleanup \/ b \in overwritten \cup undercut \cup leftover
  /\ Open(b) /\ b \notin spoiled => row[b].shown \subseteq temp[b]

(* What a deletion that answered well has left. *)
Cleared(b) == formal[b] = {} \/ b \in leftover \cup undercut

(* A request by its step, and by the batch it works on. *)
RequestFacts(r) ==
  LET b == req[r].batch IN
  /\ req[r].pc \in Steps \ {"idle", "find", "clear"} => b \in Batches
  /\ At(r, "uploading") =>
       /\ row[b].status = "NONE" /\ Extracted \ req[r].todo \subseteq temp[b]
       /\ \A s \in Requests : req[s].batch = b => s = r
  /\ At(r, "unwind") => row[b].status = "NONE" \/ b \in spoiled
  /\ At(r, "copying") => made[b] = 0 /\ (b \in undercut \/ req[r].want \ req[r].todo \subseteq formal[b])
  /\ Committing(r, b) =>
       /\ made[b] = 0 \/ b \in undercut
       /\ row[b].status = "COMMITTING" \/ b \in overwritten \cup undercut
       /\ \A s \in Requests : Committing(s, b) => s = r
  /\ At(r, "failing") /\ req[r].ok => Cleared(b)
  /\ req[r].pc \in {"clear", "mark"} => req[r].goal \in {"CANCELLED", "EXPIRED", "FAILED"}
  /\ At(r, "mark") /\ req[r].goal = "FAILED" /\ req[r].ok => Cleared(b)
  /\ \A c \in Batches \ undercut : Recovering(r, c) =>
       made[c] = 0 /\ \A s \in Requests : ~Committing(s, c)
  /\ req[r].goal = "CANCELLED" => req[r].found \subseteq spoiled
  /\ req[r].goal = "EXPIRED" => \A c \in req[r].found : row[c].expired

IInv ==
  /\ TypeOK
  /\ \A b \in Batches : BatchFacts(b)
  /\ \A r \in Requests : RequestFacts(r)

-----------------------------------------------------------------------------
(* The fields of a request and of a row after a step that changes no other. *)
Became(r, pc, batch, todo, want, found, goal, ok) ==
  /\ \A q \in Requests \ {r} : req'[q] = req[q]
  /\ req'[r].pc = pc /\ req'[r].batch = batch /\ req'[r].todo = todo /\ req'[r].want = want
  /\ req'[r].found = found /\ req'[r].goal = goal /\ req'[r].ok = ok
  /\ req' \in [Requests -> Handlers]

RowBecame(b, status, file, expired, overdue, cleanup, shown) ==
  /\ \A c \in Batches \ {b} : row'[c] = row[c]
  /\ row'[b].status = status /\ row'[b].file = file /\ row'[b].expired = expired
  /\ row'[b].overdue = overdue /\ row'[b].cleanup = cleanup /\ row'[b].shown = shown
  /\ row' \in [Batches -> Rows]

(* The resting request is a request. *)
LEMMA IdleType == Idle \in Handlers
  BY DEF Idle, Handlers, Steps, Statuses

(* Init establishes the invariant. *)
LEMMA InductiveInit == Init => IInv
<1> SUFFICES ASSUME Init PROVE IInv
  OBVIOUS
<1>1. TypeOK
  <2>1. row \in [Batches -> Rows]
    <3>1. \A f \in Forms : [status |-> "NONE", file |-> f, expired |-> FALSE, overdue |-> FALSE,
                            cleanup |-> FALSE, shown |-> {}] \in Rows
      BY DEF Rows, Statuses
    <3>2. \A b \in Batches : row[b] \in Rows
      BY <3>1 DEF Init
    <3> QED
      BY <3>2 DEF Init
  <2> QED
    BY <2>1, IdleType DEF Init, TypeOK
<1>2. \A b \in Batches : row[b].status = "NONE" /\ ~row[b].cleanup
  BY DEF Init
<1>3. \A r \in Requests : req[r] = Idle
  BY DEF Init
<1>4. \A b \in Batches : BatchFacts(b)
  BY <1>2, <1>3, PdfNames DEF Init, BatchFacts, Idle, Open
<1>5. \A r \in Requests : RequestFacts(r)
  BY <1>3, PdfNames DEF RequestFacts, Idle, At, Recovering, Committing
<1> QED
  BY <1>1, <1>4, <1>5 DEF IInv

(* A request after one step of its own: where it goes, ends or starts. *)
LEMMA EndsShape == ASSUME TypeOK, NEW r \in Requests, Ends(r)
  PROVE  Became(r, "idle", NoBatch, {}, {}, {}, "NONE", FALSE)
  BY IdleType DEF Ends, TypeOK, Became, Idle

LEMMA ChangeShape ==
  ASSUME TypeOK, NEW r \in Requests, NEW h \in Handlers, req' = [req EXCEPT ![r] = h]
  PROVE  Became(r, h.pc, h.batch, h.todo, h.want, h.found, h.goal, h.ok)
  BY DEF TypeOK, Became

LEMMA GoesShape == ASSUME TypeOK, NEW r \in Requests, NEW p \in Steps, Goes(r, p)
  PROVE  Became(r, p, req[r].batch, req[r].todo, req[r].want, req[r].found, req[r].goal, req[r].ok)
  BY DEF TypeOK, Became, Goes, Handlers

LEMMA TodoShape ==
  ASSUME TypeOK, NEW r \in Requests, NEW i, req' = [req EXCEPT ![r].todo = @ \ {i}]
  PROVE  Became(r, req[r].pc, req[r].batch, req[r].todo \ {i}, req[r].want, req[r].found, req[r].goal,
                req[r].ok)
  BY DEF TypeOK, Became, Handlers

(* A commit begins. *)
LEMMA CommitShape ==
  ASSUME TypeOK, NEW r \in Requests, NEW p \in Steps, NEW b \in Batches,
         NEW t \in SUBSET Images, NEW w \in SUBSET Images,
         req' = [req EXCEPT ![r] = [Idle EXCEPT !.pc = p, !.batch = b, !.todo = t, !.want = w]]
  PROVE  Became(r, p, b, t, w, {}, "NONE", FALSE)
<1> DEFINE h == [Idle EXCEPT !.pc = p, !.batch = b, !.todo = t, !.want = w]
<1>1. h \in Handlers
  BY DEF Idle, Handlers, Statuses
<1>2. /\ h.pc = p /\ h.batch = b /\ h.todo = t /\ h.want = w
      /\ h.found = {} /\ h.goal = "NONE" /\ h.ok = FALSE
  BY DEF Idle
<1>3. req' = [req EXCEPT ![r] = h]
  OBVIOUS
<1> HIDE DEF h
<1>4. Became(r, h.pc, h.batch, h.todo, h.want, h.found, h.goal, h.ok)
  BY <1>1, <1>3, ChangeShape
<1> QED
  BY <1>2, <1>4

(* A preview or a photo begins. *)
LEMMA UploadShape ==
  ASSUME TypeOK, NEW r \in Requests, NEW p \in Steps, NEW b \in Batches, NEW t \in SUBSET Images,
         req' = [req EXCEPT ![r] = [Idle EXCEPT !.pc = p, !.batch = b, !.todo = t]]
  PROVE  Became(r, p, b, t, {}, {}, "NONE", FALSE)
<1> DEFINE h == [Idle EXCEPT !.pc = p, !.batch = b, !.todo = t]
<1>1. h \in Handlers
  BY DEF Idle, Handlers, Statuses
<1>2. /\ h.pc = p /\ h.batch = b /\ h.todo = t /\ h.want = {}
      /\ h.found = {} /\ h.goal = "NONE" /\ h.ok = FALSE
  BY DEF Idle
<1>3. req' = [req EXCEPT ![r] = h]
  OBVIOUS
<1> HIDE DEF h
<1>4. Became(r, h.pc, h.batch, h.todo, h.want, h.found, h.goal, h.ok)
  BY <1>1, <1>3, ChangeShape
<1> QED
  BY <1>2, <1>4

(* A cancellation, a cleanup or a recovery begins with the batches it found. *)
LEMMA FoundShape ==
  ASSUME TypeOK, NEW r \in Requests, NEW p \in Steps, NEW f \in SUBSET Batches, NEW g \in Statuses,
         req' = [req EXCEPT ![r] = [Idle EXCEPT !.pc = p, !.found = f, !.goal = g]]
  PROVE  Became(r, p, NoBatch, {}, {}, f, g, FALSE)
<1> DEFINE h == [Idle EXCEPT !.pc = p, !.found = f, !.goal = g]
<1>1. h \in Handlers
  BY DEF Idle, Handlers, Statuses
<1>2. /\ h.pc = p /\ h.batch = NoBatch /\ h.todo = {} /\ h.want = {}
      /\ h.found = f /\ h.goal = g /\ h.ok = FALSE
  BY DEF Idle
<1>3. req' = [req EXCEPT ![r] = h]
  OBVIOUS
<1> HIDE DEF h
<1>4. Became(r, h.pc, h.batch, h.todo, h.want, h.found, h.goal, h.ok)
  BY <1>1, <1>3, ChangeShape
<1> QED
  BY <1>2, <1>4

(* A deletion has answered, with or without a batch taken from those found; a batch is done with. *)
LEMMA AnswerShape ==
  ASSUME TypeOK, NEW r \in Requests, NEW p \in Steps, NEW o \in BOOLEAN,
         req' = [req EXCEPT ![r].pc = p, ![r].ok = o]
  PROVE  Became(r, p, req[r].batch, req[r].todo, req[r].want, req[r].found, req[r].goal, o)
<1>1. req[r] \in Handlers /\ req \in [Requests -> Handlers]
  BY DEF TypeOK
<1>2. req'[r] \in Handlers
  BY <1>1 DEF Handlers
<1> QED
  BY <1>1, <1>2 DEF Became, Handlers

LEMMA TakenShape ==
  ASSUME TypeOK, NEW r \in Requests, NEW p \in Steps, NEW b \in Batches, NEW o \in BOOLEAN,
         req' = [req EXCEPT ![r].pc = p, ![r].batch = b, ![r].found = @ \ {b}, ![r].ok = o]
  PROVE  Became(r, p, b, req[r].todo, req[r].want, req[r].found \ {b}, req[r].goal, o)
<1>1. req[r] \in Handlers /\ req \in [Requests -> Handlers]
  BY DEF TypeOK
<1>2. req'[r] \in Handlers
  BY <1>1 DEF Handlers
<1> QED
  BY <1>1, <1>2 DEF Became, Handlers

LEMMA NextShape ==
  ASSUME TypeOK, NEW r \in Requests,
         req' = [req EXCEPT ![r] = [req[r] EXCEPT !.pc = "clear", !.batch = NoBatch]]
  PROVE  Became(r, "clear", NoBatch, req[r].todo, req[r].want, req[r].found, req[r].goal, req[r].ok)
<1> DEFINE h == [req[r] EXCEPT !.pc = "clear", !.batch = NoBatch]
<1>1. req[r] \in Handlers
  BY DEF TypeOK
<1>2. h \in Handlers
  BY <1>1 DEF Handlers, Steps
<1>3. /\ h.pc = "clear" /\ h.batch = NoBatch /\ h.todo = req[r].todo /\ h.want = req[r].want
      /\ h.found = req[r].found /\ h.goal = req[r].goal /\ h.ok = req[r].ok
  BY <1>1 DEF Handlers
<1>4. req' = [req EXCEPT ![r] = h]
  OBVIOUS
<1> HIDE DEF h
<1> QED
  BY <1>2, <1>3, <1>4, ChangeShape

(* A row that is closed, with or without a note for the next recovery. *)
LEMMA ClosedShape ==
  ASSUME TypeOK, NEW b \in Batches, NEW s \in Statuses, NEW c \in BOOLEAN, NEW h,
         h = [Closed(b, s) EXCEPT !.cleanup = c]
  PROVE  row' = [row EXCEPT ![b] = h] =>
           RowBecame(b, s, row[b].file, row[b].expired, row[b].overdue, c, {})
<1>1. row[b] \in Rows /\ row \in [Batches -> Rows]
  BY DEF TypeOK
<1>2. h \in Rows
  BY <1>1 DEF Rows, Closed
<1>3. /\ h.status = s /\ h.file = row[b].file /\ h.expired = row[b].expired
      /\ h.overdue = row[b].overdue /\ h.cleanup = c /\ h.shown = {}
  BY <1>1 DEF Rows, Closed
<1> QED
  BY <1>1, <1>2, <1>3 DEF RowBecame

LEMMA CommittedShape ==
  ASSUME TypeOK, NEW b \in Batches, row' = [row EXCEPT ![b] = Closed(b, "COMMITTED")]
  PROVE  RowBecame(b, "COMMITTED", row[b].file, row[b].expired, row[b].overdue, row[b].cleanup, {})
<1> DEFINE h == Closed(b, "COMMITTED")
<1>1. row[b] \in Rows /\ row \in [Batches -> Rows]
  BY DEF TypeOK
<1>2. h \in Rows
  BY <1>1 DEF Rows, Closed, Statuses
<1>3. /\ h.status = "COMMITTED" /\ h.file = row[b].file /\ h.expired = row[b].expired
      /\ h.overdue = row[b].overdue /\ h.cleanup = row[b].cleanup /\ h.shown = {}
  BY <1>1 DEF Rows, Closed
<1>4. row' = [row EXCEPT ![b] = h]
  OBVIOUS
<1> HIDE DEF h
<1> QED
  BY <1>1, <1>2, <1>3, <1>4 DEF RowBecame

LEMMA ShownShape ==
  ASSUME TypeOK, NEW b \in Batches, NEW t \in SUBSET Images, row' = [row EXCEPT ![b].shown = @ \cup t]
  PROVE  RowBecame(b, row[b].status, row[b].file, row[b].expired, row[b].overdue, row[b].cleanup,
                   row[b].shown \cup t)
<1>1. row[b] \in Rows /\ row \in [Batches -> Rows]
  BY DEF TypeOK
<1>2. row'[b] \in Rows
  BY <1>1 DEF Rows
<1> QED
  BY <1>1, <1>2 DEF RowBecame, Rows

(* A row of which one or two fields change. *)
LEMMA FieldShape ==
  ASSUME TypeOK, NEW b \in Batches
  PROVE  /\ row' = [row EXCEPT ![b].expired = TRUE] =>
              RowBecame(b, row[b].status, row[b].file, TRUE, row[b].overdue, row[b].cleanup, row[b].shown)
         /\ row' = [row EXCEPT ![b].overdue = TRUE] =>
              RowBecame(b, row[b].status, row[b].file, row[b].expired, TRUE, row[b].cleanup, row[b].shown)
         /\ row' = [row EXCEPT ![b].status = "COMMITTING", ![b].overdue = FALSE] =>
              RowBecame(b, "COMMITTING", row[b].file, row[b].expired, FALSE, row[b].cleanup, row[b].shown)
         /\ row' = [row EXCEPT ![b].status = "PREVIEW", ![b].shown = Extracted] =>
              RowBecame(b, "PREVIEW", row[b].file, row[b].expired, row[b].overdue, row[b].cleanup,
                        Extracted)
<1>1. row[b] \in Rows /\ row \in [Batches -> Rows]
  BY DEF TypeOK
<1>2. ASSUME row' = [row EXCEPT ![b].expired = TRUE]
      PROVE  RowBecame(b, row[b].status, row[b].file, TRUE, row[b].overdue, row[b].cleanup, row[b].shown)
  BY <1>1, <1>2 DEF RowBecame, Rows
<1>3. ASSUME row' = [row EXCEPT ![b].overdue = TRUE]
      PROVE  RowBecame(b, row[b].status, row[b].file, row[b].expired, TRUE, row[b].cleanup, row[b].shown)
  BY <1>1, <1>3 DEF RowBecame, Rows
<1>4. ASSUME row' = [row EXCEPT ![b].status = "COMMITTING", ![b].overdue = FALSE]
      PROVE  RowBecame(b, "COMMITTING", row[b].file, row[b].expired, FALSE, row[b].cleanup, row[b].shown)
  BY <1>1, <1>4 DEF RowBecame, Rows, Statuses
<1>5. ASSUME row' = [row EXCEPT ![b].status = "PREVIEW", ![b].shown = Extracted]
      PROVE  RowBecame(b, "PREVIEW", row[b].file, row[b].expired, row[b].overdue, row[b].cleanup, Extracted)
  BY <1>1, <1>5 DEF RowBecame, Rows, Statuses, Images
<1> QED
  BY <1>2, <1>3, <1>4, <1>5

(* Every step keeps the invariant: what it does to a request and to a row, then the invariant's parts. *)
LEMMA InductiveStep == IInv /\ [Next]_vars => IInv'
<1> SUFFICES ASSUME IInv, [Next]_vars PROVE IInv'
  OBVIOUS
<1> USE PdfNames
<1>a. TypeOK /\ (\A b \in Batches : BatchFacts(b)) /\ (\A r \in Requests : RequestFacts(r))
  BY DEF IInv
<1>0. /\ row \in [Batches -> Rows] /\ req \in [Requests -> Handlers]
      /\ \A r \in Requests :
           req[r].todo \subseteq Images /\ req[r].want \subseteq Images /\ req[r].found \subseteq Batches
      /\ \A r \in Requests : req[r].pc \notin {"idle", "find", "clear"} => req[r].batch \in Batches
  BY <1>a DEF TypeOK, RequestFacts, Handlers
<1>t. TypeOK
  BY <1>a
<1> USE <1>t
<1>1. ASSUME NEW r \in Requests, UploadImage(r) PROVE IInv'
  <2>1. PICK i \in req[r].todo : /\ temp' = [temp EXCEPT ![req[r].batch] = @ \cup {i}]
                                 /\ req' = [req EXCEPT ![r].todo = @ \ {i}]
    BY <1>1 DEF UploadImage
  <2>2. Became(r, req[r].pc, req[r].batch, req[r].todo \ {i}, req[r].want, req[r].found, req[r].goal,
               req[r].ok)
    BY <2>1, TodoShape
  <2>3. TypeOK'
    BY <1>0, <1>1, <2>1, <2>2 DEF UploadImage, Became, RowBecame, TypeOK, At, stores, teams, history
  <2>4. \A c \in Batches : BatchFacts(c)'
    BY <1>a, <1>0, <1>1, <2>1, <2>2
       DEF UploadImage, Became, RowBecame, BatchFacts, RequestFacts, Committing, Recovering, Cleared, Open,
           At, stores, teams, history, TypeOK
  <2>5. \A q \in Requests : RequestFacts(q)'
    BY <1>a, <1>0, <1>1, <2>1, <2>2
       DEF UploadImage, Became, RowBecame, BatchFacts, RequestFacts, Committing, Recovering, Cleared, Open,
           At, stores, teams, history, TypeOK
  <2> QED
    BY <2>3, <2>4, <2>5 DEF IInv
<1>2. ASSUME NEW r \in Requests, CreateBatch(r) PROVE IInv'
  <2>1. RowBecame(req[r].batch, "PREVIEW", row[req[r].batch].file, row[req[r].batch].expired,
                  row[req[r].batch].overdue, row[req[r].batch].cleanup, Extracted)
    BY <1>2, <1>0, FieldShape DEF CreateBatch, At
  <2>2. \/ Became(r, "idle", NoBatch, {}, {}, {}, "NONE", FALSE) /\ spoiled' = spoiled
        \/ Became(r, "unwind", req[r].batch, req[r].todo, req[r].want, req[r].found, req[r].goal, req[r].ok)
           /\ spoiled' = spoiled \cup {req[r].batch}
    <3>1. ASSUME Ends(r) PROVE Became(r, "idle", NoBatch, {}, {}, {}, "NONE", FALSE)
      BY <3>1, EndsShape
    <3>2. ASSUME Goes(r, "unwind")
          PROVE Became(r, "unwind", req[r].batch, req[r].todo, req[r].want, req[r].found, req[r].goal,
                       req[r].ok)
      BY <3>2, GoesShape DEF Steps
    <3> QED
      BY <1>2, <3>1, <3>2 DEF CreateBatch
  <2>3. TypeOK'
    BY <1>0, <1>2, <2>1, <2>2 DEF CreateBatch, Became, RowBecame, TypeOK, At, stores, teams, history
  <2> DEFINE b == req[r].batch
  <2>4. /\ b \in Batches /\ row[b].status = "NONE" /\ made[b] = 0 /\ formal[b] = {} /\ ~row[b].cleanup
        /\ req[r].goal = "NONE" /\ Extracted \subseteq temp[b]
        /\ \A q \in Requests \ {r} : req[q].batch # b /\ b \notin req[q].found
        /\ b \notin req[r].found
    BY <1>a, <1>0, <1>2 DEF CreateBatch, At, Steps, RequestFacts, BatchFacts
  <2>5. /\ \A c \in Batches : /\ Committing(r, c)' => FALSE
                              /\ Recovering(r, c)' => Recovering(r, c)
        /\ \A q \in Requests \ {r} : req'[q] = req[q]
        /\ UNCHANGED <<temp, formal, made, uses, overwritten, undercut, leftover>>
        /\ spoiled \subseteq spoiled'
    BY <1>0, <1>2, <2>2 DEF CreateBatch, Became, Committing, Recovering, At, stores, teams
  <2>6. \A c \in Batches : BatchFacts(c)'
    <3> SUFFICES ASSUME NEW c \in Batches PROVE BatchFacts(c)'
      OBVIOUS
    <3>1. BatchFacts(c)
      BY <1>a
    <3>2. \A q \in Requests : /\ Committing(q, c)' => Committing(q, c)
                              /\ Recovering(q, c)' => Recovering(q, c)
                              /\ At(q, "tidy")' => At(q, "tidy") /\ req'[q].batch = req[q].batch
                              /\ c \in req'[q].found => c \in req[q].found
      BY <2>2, <2>5 DEF Became, Committing, Recovering, At
    <3>3. CASE c # b
      <4>1. row'[c] = row[c]
        BY <2>1, <3>3 DEF RowBecame
      <4>2. \A q \in Requests : req'[q].batch = c => req'[q] = req[q]
        BY <1>0, <2>2, <2>5, <3>3, PdfNames DEF Became
      <4> QED
        BY <2>5, <3>1, <3>2, <4>1, <4>2 DEF BatchFacts, Open
    <3>4. CASE c = b
      <4>1. /\ row'[c].status = "PREVIEW" /\ ~row'[c].cleanup /\ row'[c].shown = Extracted
        BY <2>1, <2>4, <3>4 DEF RowBecame
      <4>2. \A q \in Requests : ~Committing(q, c)' /\ ~Recovering(q, c)' /\ ~(At(q, "tidy")' /\ req'[q].batch = c)
        BY <2>2, <2>4, <2>5, <3>4 DEF Became, Committing, Recovering, At
      <4> QED
        BY <2>4, <2>5, <3>1, <3>4, <4>1, <4>2 DEF BatchFacts, Open
    <3> QED
      BY <3>3, <3>4
  <2>7. \A q \in Requests : RequestFacts(q)'
    <3>1. RequestFacts(r)'
      BY <1>a, <1>0, <1>2, <2>1, <2>2, <2>4, <2>5
         DEF Became, RowBecame, RequestFacts, Committing, Recovering, Cleared, At
    <3>2. ASSUME NEW q \in Requests \ {r} PROVE RequestFacts(q)'
      <4>1. RequestFacts(q) /\ req'[q] = req[q] /\ req[q].batch # b /\ b \notin req[q].found
        BY <1>a, <2>4, <2>5
      <4>2. \A c \in Batches : c # b => row'[c] = row[c]
        BY <2>1 DEF RowBecame
      <4> QED
        BY <1>0, <2>2, <2>4, <2>5, <4>1, <4>2
           DEF Became, RequestFacts, Committing, Recovering, Cleared, At
    <3> QED
      BY <3>1, <3>2
  <2> QED
    BY <2>3, <2>6, <2>7 DEF IInv
<1>3. ASSUME NEW r \in Requests, PreviewFails(r) PROVE IInv'
  <2>1. Became(r, "unwind", req[r].batch, req[r].todo, req[r].want, req[r].found, req[r].goal, req[r].ok)
    BY <1>3, GoesShape DEF PreviewFails, Steps
  <2>2. TypeOK'
    BY <1>0, <1>3, <2>1 DEF PreviewFails, Became, RowBecame, TypeOK, At, stores, teams, history
  <2>3. \A c \in Batches : BatchFacts(c)'
    BY <1>a, <1>0, <1>3, <2>1
       DEF PreviewFails, Became, RowBecame, BatchFacts, RequestFacts, Committing, Recovering, Cleared,
           Open, At, stores, teams, history, TypeOK
  <2>4. \A q \in Requests : RequestFacts(q)'
    BY <1>a, <1>0, <1>3, <2>1
       DEF PreviewFails, Became, RowBecame, BatchFacts, RequestFacts, Committing, Recovering, Cleared,
           Open, At, stores, teams, history, TypeOK
  <2> QED
    BY <2>2, <2>3, <2>4 DEF IInv
<1>4. ASSUME NEW r \in Requests, Unwind(r) PROVE IInv'
  <2>1. Became(r, "idle", NoBatch, {}, {}, {}, "NONE", FALSE)
    BY <1>4, EndsShape DEF Unwind
  <2>2. PICK left \in SUBSET Images : temp' = [temp EXCEPT ![req[r].batch] = left]
    <3>1. PICK d \in Deletion(temp[req[r].batch]), landing \in SUBSET req[r].todo :
            ClearTemp(req[r].batch, [d EXCEPT !.left = @ \cup landing])
      BY <1>4 DEF Unwind
    <3>2. d.left \cup landing \in SUBSET Images /\ [d EXCEPT !.left = @ \cup landing].left = d.left \cup landing
      BY <1>4, <1>0, <3>1 DEF Deletion, TypeOK, Unwind, At
    <3> QED
      BY <3>1, <3>2 DEF ClearTemp
  <2>3. TypeOK'
    BY <1>0, <1>4, <2>1, <2>2
       DEF Unwind, ClearTemp, Deletion, Became, RowBecame, TypeOK, At, stores, teams, history
  <2>4. \A c \in Batches : BatchFacts(c)'
    BY <1>a, <1>0, <1>4, <2>1, <2>2
       DEF Unwind, ClearTemp, Deletion, Became, RowBecame, BatchFacts, RequestFacts, Committing,
           Recovering, Cleared, Open, At, stores, teams, history, TypeOK
  <2>5. \A q \in Requests : RequestFacts(q)'
    BY <1>a, <1>0, <1>4, <2>1, <2>2
       DEF Unwind, ClearTemp, Deletion, Became, RowBecame, BatchFacts, RequestFacts, Committing,
           Recovering, Cleared, Open, At, stores, teams, history, TypeOK
  <2> QED
    BY <2>3, <2>4, <2>5 DEF IInv
<1>5. ASSUME NEW r \in Requests, PutPhoto(r) PROVE IInv'
  <2>1. RowBecame(req[r].batch, row[req[r].batch].status, row[req[r].batch].file,
                  row[req[r].batch].expired, row[req[r].batch].overdue, row[req[r].batch].cleanup,
                           row[req[r].batch].shown \cup req[r].todo)
    BY <1>5, <1>0, ShownShape DEF PutPhoto, At
  <2>2. Became(r, "idle", NoBatch, {}, {}, {}, "NONE", FALSE)
    BY <1>5, EndsShape DEF PutPhoto
  <2>3. TypeOK'
    BY <1>0, <1>5, <2>1, <2>2 DEF PutPhoto, Became, RowBecame, TypeOK, At, stores, teams, history
  <2>4. \A c \in Batches : BatchFacts(c)'
    BY <1>a, <1>0, <1>5, <2>1, <2>2
       DEF PutPhoto, Became, RowBecame, BatchFacts, RequestFacts, Committing, Recovering, Cleared, Open,
           At, stores, teams, history, TypeOK
  <2>5. \A q \in Requests : RequestFacts(q)'
    BY <1>a, <1>0, <1>5, <2>1, <2>2, SMTT(20)
       DEF PutPhoto, Became, RowBecame, BatchFacts, RequestFacts, Committing, Recovering, Cleared, Open,
           At, stores, teams, history, TypeOK
  <2> QED
    BY <2>3, <2>4, <2>5 DEF IInv
<1>6. ASSUME NEW r \in Requests, Copy(r) PROVE IInv'
  <2>1. PICK i \in req[r].todo \cap temp[req[r].batch] :
          /\ formal' = [formal EXCEPT ![req[r].batch] = @ \cup {i}]
          /\ req' = [req EXCEPT ![r].todo = @ \ {i}] \/ Goes(r, "undo")
    BY <1>6 DEF Copy
  <2>2. \/ Became(r, req[r].pc, req[r].batch, req[r].todo \ {i}, req[r].want, req[r].found, req[r].goal,
                  req[r].ok)
        \/ Became(r, "undo", req[r].batch, req[r].todo, req[r].want, req[r].found, req[r].goal, req[r].ok)
    BY <2>1, TodoShape, GoesShape DEF Steps
  <2>3. TypeOK'
    BY <1>0, <1>6, <2>1, <2>2 DEF Copy, Became, RowBecame, TypeOK, At, stores, teams, history
  <2>4. \A c \in Batches : BatchFacts(c)'
    BY <1>a, <1>0, <1>6, <2>1, <2>2
       DEF Copy, Became, RowBecame, BatchFacts, RequestFacts, Committing, Recovering, Cleared, Open, At,
           stores, teams, history, TypeOK
  <2>5. \A q \in Requests : RequestFacts(q)'
    BY <1>a, <1>0, <1>6, <2>1, <2>2
       DEF Copy, Became, RowBecame, BatchFacts, RequestFacts, Committing, Recovering, Cleared, Open, At,
           stores, teams, history, TypeOK
  <2> QED
    BY <2>3, <2>4, <2>5 DEF IInv
<1>7. ASSUME NEW r \in Requests, CreateTeams(r) PROVE IInv'
  <2>1. RowBecame(req[r].batch, "COMMITTED", row[req[r].batch].file, row[req[r].batch].expired,
                  row[req[r].batch].overdue, row[req[r].batch].cleanup, {})
    BY <1>7, <1>0, CommittedShape DEF CreateTeams, At
  <2>2. \/ Became(r, "tidy", req[r].batch, req[r].todo, req[r].want, req[r].found, req[r].goal, req[r].ok)
           /\ undercut' = undercut
        \/ Became(r, "undo", req[r].batch, req[r].todo, req[r].want, req[r].found, req[r].goal, req[r].ok)
           /\ undercut' = undercut \cup {req[r].batch}
    BY <1>7, GoesShape DEF CreateTeams, Steps
  <2>3. TypeOK'
    BY <1>0, <1>7, <2>1, <2>2 DEF CreateTeams, Became, RowBecame, TypeOK, At, stores, teams, history
  <2>4. \A c \in Batches : BatchFacts(c)'
    BY <1>a, <1>0, <1>7, <2>1, <2>2
       DEF CreateTeams, Became, RowBecame, BatchFacts, RequestFacts, Committing, Recovering, Cleared, Open,
           At, stores, teams, history, TypeOK
  <2>5. \A q \in Requests : RequestFacts(q)'
    BY <1>a, <1>0, <1>7, <2>1, <2>2, SMTT(20)
       DEF CreateTeams, Became, RowBecame, BatchFacts, RequestFacts, Committing, Recovering, Cleared, Open,
           At, stores, teams, history, TypeOK
  <2> QED
    BY <2>3, <2>4, <2>5 DEF IInv
<1>8. ASSUME NEW r \in Requests, CommitFails(r) PROVE IInv'
  <2>1. Became(r, "undo", req[r].batch, req[r].todo, req[r].want, req[r].found, req[r].goal, req[r].ok)
    BY <1>8, GoesShape DEF CommitFails, Steps
  <2>2. TypeOK'
    BY <1>0, <1>8, <2>1 DEF CommitFails, Became, RowBecame, TypeOK, At, stores, teams, history
  <2>3. \A c \in Batches : BatchFacts(c)'
    BY <1>a, <1>0, <1>8, <2>1
       DEF CommitFails, Became, RowBecame, BatchFacts, RequestFacts, Committing, Recovering, Cleared, Open,
           At, stores, teams, history, TypeOK
  <2>4. \A q \in Requests : RequestFacts(q)'
    BY <1>a, <1>0, <1>8, <2>1
       DEF CommitFails, Became, RowBecame, BatchFacts, RequestFacts, Committing, Recovering, Cleared, Open,
           At, stores, teams, history, TypeOK
  <2> QED
    BY <2>2, <2>3, <2>4 DEF IInv
<1>9. ASSUME NEW r \in Requests, Tidy(r) PROVE IInv'
  <2>1. Became(r, "idle", NoBatch, {}, {}, {}, "NONE", FALSE)
    BY <1>9, EndsShape DEF Tidy
  <2>2. PICK left \in SUBSET Images : temp' = [temp EXCEPT ![req[r].batch] = left]
    <3>1. PICK d \in Deletion(temp[req[r].batch]) : ClearTemp(req[r].batch, d)
      BY <1>9 DEF Tidy
    <3>2. d.left \in SUBSET Images
      BY <1>9, <1>0, <3>1 DEF Deletion, TypeOK, Tidy, At
    <3> QED
      BY <3>1, <3>2 DEF ClearTemp
  <2>3. TypeOK'
    BY <1>0, <1>9, <2>1, <2>2
       DEF Tidy, ClearTemp, Deletion, Became, RowBecame, TypeOK, At, stores, teams, history
  <2>4. \A c \in Batches : BatchFacts(c)'
    BY <1>a, <1>0, <1>9, <2>1, <2>2, SMTT(20)
       DEF Tidy, ClearTemp, Deletion, Became, RowBecame, BatchFacts, RequestFacts, Committing, Recovering,
           Cleared, Open, At, stores, teams, history, TypeOK
  <2>5. \A q \in Requests : RequestFacts(q)'
    BY <1>a, <1>0, <1>9, <2>1, <2>2, SMTT(20)
       DEF Tidy, ClearTemp, Deletion, Became, RowBecame, BatchFacts, RequestFacts, Committing, Recovering,
           Cleared, Open, At, stores, teams, history, TypeOK
  <2> QED
    BY <2>3, <2>4, <2>5 DEF IInv
<1>10. ASSUME NEW r \in Requests, Undo(r) PROVE IInv'
  <2>1. PICK d \in Deletion(formal[req[r].batch]) :
          /\ ClearFormal(req[r].batch, d)
          /\ req' = [req EXCEPT ![r].pc = "failing", ![r].ok = d.ok]
    BY <1>10 DEF Undo
  <2>2. d.ok \in BOOLEAN /\ d.left \subseteq formal[req[r].batch]
    BY DEF Deletion
  <2>3. Became(r, "failing", req[r].batch, req[r].todo, req[r].want, req[r].found, req[r].goal, d.ok)
    BY <2>1, <2>2, AnswerShape DEF Steps
  <2>4. TypeOK'
    BY <1>0, <1>10, <2>1, <2>2, <2>3
       DEF Undo, ClearFormal, Deletion, Became, RowBecame, TypeOK, At, stores, teams, history
  <2>5. \A c \in Batches : BatchFacts(c)'
    BY <1>a, <1>0, <1>10, <2>1, <2>2, <2>3
       DEF Undo, ClearFormal, Deletion, Became, RowBecame, BatchFacts, RequestFacts, Committing,
           Recovering, Cleared, Open, At, stores, teams, history, TypeOK
  <2>6. \A q \in Requests : RequestFacts(q)'
    BY <1>a, <1>0, <1>10, <2>1, <2>2, <2>3
       DEF Undo, ClearFormal, Deletion, Became, RowBecame, BatchFacts, RequestFacts, Committing,
           Recovering, Cleared, Open, At, stores, teams, history, TypeOK
  <2> QED
    BY <2>4, <2>5, <2>6 DEF IInv
<1>11. ASSUME NEW r \in Requests, Fail(r) PROVE IInv'
  <2>1. Became(r, "idle", NoBatch, {}, {}, {}, "NONE", FALSE)
    BY <1>11, EndsShape DEF Fail
  <2>2. \/ RowBecame(req[r].batch, "FAILED", row[req[r].batch].file, row[req[r].batch].expired,
                     row[req[r].batch].overdue, ~req[r].ok, {})
        \/ row' = row
    BY <1>11, <1>0, ClosedShape DEF Fail, At, Statuses
  <2>3. TypeOK'
    BY <1>0, <1>11, <2>1, <2>2 DEF Fail, Became, RowBecame, TypeOK, At, stores, teams, history
  <2>4. \A c \in Batches : BatchFacts(c)'
    <3> SUFFICES ASSUME NEW c \in Batches PROVE BatchFacts(c)'
      OBVIOUS
    <3>1. BatchFacts(c) /\ RequestFacts(r)
      BY <1>a
    <3>2. CASE c # req[r].batch
      BY <1>0, <1>11, <2>1, <2>2, <3>1, <3>2
         DEF Fail, Became, RowBecame, BatchFacts, Committing, Recovering, Open, At, stores, teams, history
    <3>3. CASE c = req[r].batch
      <4>1. /\ made[c] = 0 \/ c \in undercut
            /\ row[c].status = "COMMITTING" \/ c \in overwritten \cup undercut
            /\ \A q \in Requests : Committing(q, c) => q = r
            /\ req[r].ok => Cleared(c)
        BY <1>11, <3>1, <3>3 DEF Fail, At, RequestFacts, Committing
      <4>2. \A q \in Requests : ~Committing(q, c)'
        BY <2>1, <4>1 DEF Became, Committing
      <4>3. \A q \in Requests : Recovering(q, c)' => Recovering(q, c)
        BY <2>1 DEF Became, Recovering
      <4>4. CASE row' = row
        BY <1>11, <2>1, <3>1, <3>3, <4>2, <4>3, <4>4
           DEF Fail, Became, BatchFacts, Open, At, stores, teams, history
      <4>5. CASE row'[c].status = "FAILED" /\ row'[c].cleanup = ~req[r].ok
        BY <1>11, <3>1, <4>1, <4>2, <4>5 DEF Fail, BatchFacts, Cleared, Open, stores, teams, history
      <4> QED
        BY <2>2, <3>3, <4>4, <4>5 DEF RowBecame
    <3> QED
      BY <3>2, <3>3
  <2>5. \A q \in Requests : RequestFacts(q)'
    BY <1>a, <1>0, <1>11, <2>1, <2>2
       DEF Fail, Became, RowBecame, BatchFacts, RequestFacts, Committing, Recovering, Cleared, Open, At,
           stores, teams, history, TypeOK
  <2> QED
    BY <2>3, <2>4, <2>5 DEF IInv
<1>12. ASSUME NEW r \in Requests, Find(r) PROVE IInv'
  <2>1. \/ Became(r, "idle", NoBatch, {}, {}, {}, "NONE", FALSE)
        \/ Became(r, "clear", NoBatch, {}, {}, ExpiredPreviews, "EXPIRED", FALSE)
    <3>1. ExpiredPreviews \in SUBSET Batches /\ "clear" \in Steps /\ "EXPIRED" \in Statuses
      BY DEF ExpiredPreviews, Steps, Statuses
    <3> QED
      BY <1>12, <3>1, EndsShape, FoundShape DEF Find, Ends
  <2>2. TypeOK'
    BY <1>0, <1>12, <2>1 DEF Find, ExpiredPreviews, Became, RowBecame, TypeOK, At, stores, teams, history
  <2>3. \A c \in Batches : BatchFacts(c)'
    BY <1>a, <1>0, <1>12, <2>1
       DEF Find, ExpiredPreviews, Became, RowBecame, BatchFacts, RequestFacts, Committing, Recovering,
           Cleared, Open, At, stores, teams, history, TypeOK
  <2>4. \A q \in Requests : RequestFacts(q)'
    BY <1>a, <1>0, <1>12, <2>1, SMTT(20)
       DEF Find, ExpiredPreviews, Became, RowBecame, BatchFacts, RequestFacts, Committing, Recovering,
           Cleared, Open, At, stores, teams, history, TypeOK
  <2> QED
    BY <2>2, <2>3, <2>4 DEF IInv
<1>13. ASSUME NEW r \in Requests, BeginRecovery(r) PROVE IInv'
  <2>1. Became(r, "clear", NoBatch, {}, {}, Stuck, "FAILED", FALSE)
    <3>1. Stuck \in SUBSET Batches /\ "clear" \in Steps /\ "FAILED" \in Statuses
      BY DEF Stuck, Steps, Statuses
    <3> QED
      BY <1>13, <3>1, FoundShape DEF BeginRecovery
  <2>2. TypeOK'
    BY <1>0, <1>13, <2>1 DEF BeginRecovery, Stuck, Became, RowBecame, TypeOK, At, stores, teams, history
  <2>3. \A c \in Batches : BatchFacts(c)'
    BY <1>a, <1>0, <1>13, <2>1
       DEF BeginRecovery, Stuck, Became, RowBecame, BatchFacts, RequestFacts, Committing, Recovering,
           Cleared, Open, At, stores, teams, history, TypeOK
  <2>4. \A q \in Requests : RequestFacts(q)'
    BY <1>a, <1>0, <1>13, <2>1
       DEF BeginRecovery, Stuck, Became, RowBecame, BatchFacts, RequestFacts, Committing, Recovering,
           Cleared, Open, At, stores, teams, history, TypeOK
  <2> QED
    BY <2>2, <2>3, <2>4 DEF IInv
<1>14. ASSUME NEW r \in Requests, Clear(r) PROVE IInv'
  <2>1. PICK b \in req[r].found : \E d \in Deletion(IF req[r].goal = "FAILED" THEN formal[b] ELSE temp[b]) :
          /\ IF req[r].goal = "FAILED" THEN ClearFormal(b, d) ELSE ClearTemp(b, d)
          /\ req' = [req EXCEPT ![r].pc = "mark", ![r].batch = b, ![r].found = @ \ {b}, ![r].ok = d.ok]
    BY <1>14 DEF Clear
  <2>b. PICK d \in Deletion(IF req[r].goal = "FAILED" THEN formal[b] ELSE temp[b]) :
          /\ IF req[r].goal = "FAILED" THEN ClearFormal(b, d) ELSE ClearTemp(b, d)
          /\ req' = [req EXCEPT ![r].pc = "mark", ![r].batch = b, ![r].found = @ \ {b}, ![r].ok = d.ok]
    BY <2>1
  <2>2. d.ok \in BOOLEAN /\ d.left \subseteq (IF req[r].goal = "FAILED" THEN formal[b] ELSE temp[b])
    BY DEF Deletion
  <2>3. b \in Batches
    BY <1>0 DEF Handlers
  <2>4. Became(r, "mark", b, req[r].todo, req[r].want, req[r].found \ {b}, req[r].goal, d.ok)
    BY <2>b, <2>2, <2>3, TakenShape DEF Steps
  <2>5. TypeOK'
    BY <1>0, <1>14, <2>b, <2>1, <2>2, <2>3, <2>4
       DEF Clear, ClearTemp, ClearFormal, Deletion, Became, RowBecame, TypeOK, At, stores, teams, history
  <2>6. \A c \in Batches : BatchFacts(c)'
    BY <1>a, <1>0, <1>14, <2>b, <2>1, <2>2, <2>3, <2>4, SMTT(20)
       DEF Clear, ClearTemp, ClearFormal, Deletion, Became, RowBecame, BatchFacts, RequestFacts,
           Committing, Recovering, Cleared, Open, At, stores, teams, history, TypeOK
  <2>7. \A q \in Requests : RequestFacts(q)'
    <3> SUFFICES ASSUME NEW q \in Requests PROVE RequestFacts(q)'
      OBVIOUS
    <3>1. RequestFacts(q) /\ RequestFacts(r)
      BY <1>a
    <3>2. UNCHANGED <<row, made, uses, spoiled, overwritten, undercut>>
      BY <1>14 DEF Clear, teams
    <3>3. \A c : \A p \in Requests :
            (Recovering(p, c)' => Recovering(p, c)) /\ (Committing(p, c)' => Committing(p, c))
      BY <2>1, <2>4 DEF Became, Recovering, Committing
    <3>b. /\ req[q].pc = "failing" => req[q].batch \in Batches
          /\ req[q].pc = "mark" => req[q].batch \in Batches
      BY <1>0
    <3>4. Cleared(b)' \/ ~(req[r].goal = "FAILED" /\ d.ok)
      BY <1>a, <2>b, <2>3 DEF ClearFormal, Cleared, TypeOK
    <3>5. \A c \in Batches : Cleared(c) => Cleared(c)'
      BY <1>a, <2>b, <2>2, <2>3, <3>2 DEF ClearFormal, ClearTemp, Cleared, TypeOK
    <3>6. CASE q = r
      BY <1>14, <2>1, <2>3, <2>4, <3>1, <3>2, <3>3, <3>4, <3>6
         DEF Clear, Became, RequestFacts, Committing, At
    <3>7. CASE q # r
      <4>1. req'[q] = req[q] /\ \A p \in Requests : req'[p].batch = req[p].batch \/ (p = r /\ req'[p].batch = b)
        BY <2>4, <3>7 DEF Became
      <4>2. row[b].status # "NONE"
        BY <1>a, <1>14, <2>1, <2>3 DEF BatchFacts
      <4>3. CASE At(q, "uploading")
        <5>1. Extracted \ req[q].todo \subseteq temp'[req[q].batch] /\ req[q].batch # b
          BY <1>a, <1>0, <2>b, <2>3, <3>1, <4>2, <4>3 DEF RequestFacts, At, TypeOK, ClearTemp, ClearFormal
        <5> QED
          BY <3>1, <3>2, <3>3, <4>1, <4>3, <5>1 DEF RequestFacts, Committing, At
      <4>4. CASE ~At(q, "uploading")
        <5>1. At(q, "copying") /\ req[q].batch \notin undercut => formal'[req[q].batch] = formal[req[q].batch]
          BY <1>a, <1>0, <2>1, <2>b, <2>3, <3>1
             DEF RequestFacts, Recovering, Committing, At, TypeOK, ClearTemp, ClearFormal
        <5> QED
          BY <3>1, <3>2, <3>3, <3>b, <3>5, <4>1, <4>4, <5>1 DEF RequestFacts, Committing, At
      <4> QED
        BY <4>3, <4>4
    <3> QED
      BY <3>6, <3>7
  <2> QED
    BY <2>5, <2>6, <2>7 DEF IInv
<1>15. ASSUME NEW r \in Requests, Mark(r) PROVE IInv'
  <2>1. RowBecame(req[r].batch, req[r].goal, row[req[r].batch].file, row[req[r].batch].expired,
                  row[req[r].batch].overdue,
                           IF req[r].goal = "FAILED" THEN ~req[r].ok ELSE row[req[r].batch].cleanup, {})
    <3>1. /\ req[r].goal \in Statuses
          /\ (IF req[r].goal = "FAILED" THEN ~req[r].ok ELSE row[req[r].batch].cleanup) \in BOOLEAN
      BY <1>15, <1>0 DEF Mark, At, Handlers, Rows
    <3>2. Closed(req[r].batch, req[r].goal).cleanup = row[req[r].batch].cleanup
      BY <1>15, <1>0 DEF Mark, At, Closed, Rows
    <3> QED
      BY <1>15, <1>0, <3>1, <3>2, ClosedShape DEF Mark, At
  <2>2. \/ Became(r, "idle", NoBatch, {}, {}, {}, "NONE", FALSE)
        \/ Became(r, "clear", NoBatch, req[r].todo, req[r].want, req[r].found, req[r].goal, req[r].ok)
    BY <1>15, EndsShape, NextShape DEF Mark, Ends
  <2>3. TypeOK'
    BY <1>0, <1>15, <2>1, <2>2 DEF Mark, Became, RowBecame, TypeOK, At, stores, teams, history
  <2>4. \A c \in Batches : BatchFacts(c)'
    <3> SUFFICES ASSUME NEW c \in Batches PROVE BatchFacts(c)'
      OBVIOUS
    <3>1. BatchFacts(c) /\ RequestFacts(r)
      BY <1>a
    <3>2. CASE c # req[r].batch
      BY <1>0, <1>15, <2>1, <2>2, <3>1, <3>2, SMTT(20)
         DEF Mark, Became, RowBecame, BatchFacts, Committing, Recovering, Open, At, stores, teams, history
    <3>3. CASE c = req[r].batch
      <4>1. /\ req[r].goal \in {"CANCELLED", "EXPIRED", "FAILED"}
            /\ req[r].goal = "FAILED" /\ req[r].ok => Cleared(c)
            /\ req[r].goal = "FAILED" /\ c \notin undercut =>
                 made[c] = 0 /\ \A q \in Requests : ~Committing(q, c)
        BY <1>15, <3>1, <3>3 DEF Mark, At, RequestFacts, Recovering
      <4>2. \A q \in Requests : Committing(q, c)' => Committing(q, c)
        BY <2>2 DEF Became, Committing
      <4>3. row[c].status # "NONE"
        BY <1>15, <3>1, <3>3 DEF Mark, At, BatchFacts
      <4>4. row'[c].status = req[r].goal
            /\ row'[c].cleanup = IF req[r].goal = "FAILED" THEN ~req[r].ok ELSE row[c].cleanup
        BY <2>1, <3>3 DEF RowBecame
      <4> QED
        BY <1>15, <3>1, <3>3, <4>1, <4>2, <4>3, <4>4
           DEF Mark, BatchFacts, Cleared, Open, stores, teams, history
    <3> QED
      BY <3>2, <3>3
  <2>5. \A q \in Requests : RequestFacts(q)'
    BY <1>a, <1>0, <1>15, <2>1, <2>2, SMTT(20)
       DEF Mark, Became, RowBecame, BatchFacts, RequestFacts, Committing, Recovering, Cleared, Open, At,
           stores, teams, history, TypeOK
  <2> QED
    BY <2>3, <2>4, <2>5 DEF IInv
<1>16. ASSUME NEW r \in Requests, Dies(r) PROVE IInv'
  <2>1. Became(r, "idle", NoBatch, {}, {}, {}, "NONE", FALSE)
    BY <1>16, EndsShape DEF Dies
  <2>2. TypeOK'
    BY <1>0, <1>16, <2>1 DEF Dies, Became, RowBecame, TypeOK, At, stores, teams, history
  <2>3. \A c \in Batches : BatchFacts(c)'
    BY <1>a, <1>0, <1>16, <2>1
       DEF Dies, Became, RowBecame, BatchFacts, RequestFacts, Committing, Recovering, Cleared, Open, At,
           stores, teams, history, TypeOK
  <2>4. \A q \in Requests : RequestFacts(q)'
    BY <1>a, <1>0, <1>16, <2>1
       DEF Dies, Became, RowBecame, BatchFacts, RequestFacts, Committing, Recovering, Cleared, Open, At,
           stores, teams, history, TypeOK
  <2> QED
    BY <2>2, <2>3, <2>4 DEF IInv
<1>17. ASSUME NEW r \in Requests, NEW s \in Requests, NEW f \in Forms, BeginPreview(r, s, f) PROVE IInv'
  <2>0. r # s /\ At(r, "idle") /\ At(s, "idle") /\ UNCHANGED <<row, stores, teams, history>>
    BY <1>17 DEF BeginPreview
  <2>e. req'[s] = [req[s] EXCEPT !.pc = "find"]
    BY <1>17, <1>0, <2>0 DEF BeginPreview, Goes
  <2>s. \A q \in Requests \ {r, s} : req'[q] = req[q]
    BY <1>17, <1>0, <2>0 DEF BeginPreview, Goes
  <2>f. req' = [q \in Requests |-> req'[q]]
    BY <1>17, <1>0 DEF BeginPreview, Goes
  <2>1. /\ req'[s].pc = "find" /\ req'[s].batch = req[s].batch /\ req'[s].todo = req[s].todo
        /\ req'[s].want = req[s].want /\ req'[s].found = req[s].found /\ req'[s].goal = req[s].goal
        /\ req'[s].ok = req[s].ok /\ req'[s] \in Handlers
    <3>1. req[s] \in Handlers
      BY <1>0
    <3> QED
      BY <2>e, <3>1 DEF Handlers, Steps
  <2>2. \/ req'[r] = req[r]
        \/ /\ req'[r].pc = "uploading" /\ req'[r].todo = Extracted
           /\ req'[r].want = {} /\ req'[r].found = {} /\ req'[r].goal = "NONE" /\ ~req'[r].ok
           /\ req'[r].batch \in Batches /\ row[req'[r].batch].status = "NONE"
           /\ \A q \in Requests : req[q].batch # req'[r].batch
    <3>1. ASSUME NEW b \in Drawable, req'[r] = [Idle EXCEPT !.pc = "uploading", !.batch = b, !.todo = Extracted]
          PROVE  /\ req'[r].pc = "uploading" /\ req'[r].batch = b /\ req'[r].todo = Extracted
                 /\ req'[r].want = {} /\ req'[r].found = {} /\ req'[r].goal = "NONE" /\ ~req'[r].ok
      BY <3>1 DEF Idle
    <3>2. \/ req'[r] = req[r]
          \/ \E b \in Drawable : req'[r] = [Idle EXCEPT !.pc = "uploading", !.batch = b, !.todo = Extracted]
      BY <1>17, <1>0, <2>0 DEF BeginPreview, Goes
    <3> QED
      BY <3>1, <3>2 DEF Drawable
  <2>3. req'[r] \in Handlers
    <3>1. ASSUME NEW b \in Drawable
          PROVE  [Idle EXCEPT !.pc = "uploading", !.batch = b, !.todo = Extracted] \in Handlers
      BY DEF Idle, Handlers, Drawable, Steps, Statuses, Images
    <3> QED
      BY <1>17, <1>0, <2>0, <3>1 DEF BeginPreview, Goes
  <2>4. TypeOK'
    BY <1>0, <2>0, <2>s, <2>f, <2>1, <2>2, <2>3
       DEF Drawable, Became, RowBecame, TypeOK, At, stores, teams, history
  <2>5. \A c \in Batches : BatchFacts(c)'
    <3> SUFFICES ASSUME NEW c \in Batches PROVE BatchFacts(c)'
      OBVIOUS
    <3>1. BatchFacts(c)
      BY <1>a
    <3>2. ASSUME NEW q \in Requests
          PROVE  /\ c \in req'[q].found => c \in req[q].found
                 /\ req'[q].batch = c =>
                      \/ q = r /\ req'[q].pc = "uploading" /\ req'[q].goal = "NONE" /\ row[c].status = "NONE"
                      \/ req[q].batch = c /\ req'[q].goal = req[q].goal /\ (q = s \/ req'[q] = req[q])
                 /\ Recovering(q, c)' => Recovering(q, c)
                 /\ Committing(q, c)' => Committing(q, c)
      <4>1. CASE q = s
        BY <2>0, <2>s, <2>1, <2>2, <4>1 DEF Recovering, Committing
      <4>2. CASE q = r
        BY <2>0, <2>s, <2>1, <2>2, <4>2 DEF Drawable, Recovering, Committing
      <4>3. CASE q \notin {r, s}
        BY <2>0, <2>s, <2>1, <2>2, <4>3 DEF Recovering, Committing
      <4> QED
        BY <4>1, <4>2, <4>3
    <3>3. Open(c)' = Open(c)
      BY <2>0 DEF Open
    <3> QED
      BY <2>0, <2>s, <2>1, <2>2, <3>1, <3>2, <3>3 DEF BatchFacts, Drawable, At, stores, teams, history
  <2>6. \A q \in Requests : RequestFacts(q)'
    <3> SUFFICES ASSUME NEW q \in Requests PROVE RequestFacts(q)'
      OBVIOUS
    <3>1. RequestFacts(q)
      BY <1>a
    <3>2. UNCHANGED <<row, temp, formal, made, spoiled, overwritten, undercut, leftover>>
      BY <2>0 DEF stores, teams, history
    <3>3. \A c : \A p \in Requests :
            (Recovering(p, c)' => Recovering(p, c)) /\ (Committing(p, c)' => Committing(p, c))
      BY <2>0, <2>s, <2>1, <2>2 DEF Recovering, Committing
    <3>4. CASE req'[r] = req[r]
      <4>1. \A p \in Requests : req'[p].batch = req[p].batch
        BY <2>0, <2>s, <2>1, <2>2, <3>4
      <4> QED
        BY <2>0, <2>s, <2>1, <2>2, <3>1, <3>2, <3>3, <4>1 DEF RequestFacts, Committing, Cleared, At
    <3>5. CASE req'[r].pc = "uploading" /\ \A p \in Requests : req[p].batch # req'[r].batch
      <4>1. CASE q = r
        BY <2>0, <2>s, <2>1, <2>2, <3>2, <3>5, <4>1 DEF RequestFacts, Committing, Recovering, At
      <4>2. CASE q # r
        <5>1. req'[q].batch # req'[r].batch
          BY <2>0, <2>s, <2>1, <2>2, <3>5, <4>2
        <5>2. \A p \in Requests : req'[p].batch = req[p].batch \/ req'[p].batch # req'[q].batch
          BY <2>0, <2>s, <2>1, <2>2, <3>5, <4>2, <5>1
        <5> QED
          BY <2>0, <2>s, <2>1, <2>2, <3>1, <3>2, <3>3, <4>2, <5>1, <5>2
             DEF RequestFacts, Committing, Cleared, At
      <4> QED
        BY <4>1, <4>2
    <3> QED
      BY <2>2, <3>4, <3>5
  <2> QED
    BY <2>4, <2>5, <2>6 DEF IInv
<1>18. ASSUME NEW r \in Requests, NEW b \in Batches, BeginPhoto(r, b) PROVE IInv'
  <2>1. PICK i \in Manual \ temp[b] :
          req' = [req EXCEPT ![r] = [Idle EXCEPT !.pc = "photo", !.batch = b, !.todo = {i}]]
    BY <1>18 DEF BeginPhoto
  <2>2. Became(r, "photo", b, {i}, {}, {}, "NONE", FALSE)
    BY <2>1, UploadShape DEF Steps, Images
  <2>3. TypeOK'
    BY <1>0, <1>18, <2>1, <2>2 DEF BeginPhoto, Became, RowBecame, TypeOK, At, stores, teams, history
  <2>4. \A c \in Batches : BatchFacts(c)'
    BY <1>a, <1>0, <1>18, <2>1, <2>2
       DEF BeginPhoto, Became, RowBecame, BatchFacts, RequestFacts, Committing, Recovering, Cleared, Open,
           At, stores, teams, history, TypeOK
  <2>5. \A q \in Requests : RequestFacts(q)'
    BY <1>a, <1>0, <1>18, <2>1, <2>2
       DEF BeginPhoto, Became, RowBecame, BatchFacts, RequestFacts, Committing, Recovering, Cleared, Open,
           At, stores, teams, history, TypeOK
  <2> QED
    BY <2>3, <2>4, <2>5 DEF IInv
<1>19. ASSUME NEW r \in Requests, NEW b \in Batches, BeginCommit(r, b) PROVE IInv'
  <2>1. PICK named \in SUBSET row[b].shown :
          req' = [req EXCEPT ![r] = [Idle EXCEPT !.pc = "copying", !.batch = b, !.todo = named, !.want = named]]
    BY <1>19 DEF BeginCommit
  <2>2. named \in SUBSET Images
    BY <1>0 DEF Rows
  <2>3. Became(r, "copying", b, named, named, {}, "NONE", FALSE)
    BY <2>1, <2>2, CommitShape DEF Steps
  <2>4. RowBecame(b, "COMMITTING", row[b].file, row[b].expired, FALSE, row[b].cleanup, row[b].shown)
    BY <1>19, FieldShape DEF BeginCommit
  <2>5. TypeOK'
    BY <1>0, <1>19, <2>1, <2>2, <2>3, <2>4
       DEF BeginCommit, Claimable, Open, Became, RowBecame, TypeOK, At, stores, teams, history
  <2>6. \A c \in Batches : BatchFacts(c)'
    BY <1>a, <1>0, <1>19, <2>1, <2>2, <2>3, <2>4
       DEF BeginCommit, Claimable, Open, Became, RowBecame, BatchFacts, RequestFacts, Committing,
           Recovering, Cleared, Open, At, stores, teams, history, TypeOK
  <2>7. \A q \in Requests : RequestFacts(q)'
    BY <1>a, <1>0, <1>19, <2>1, <2>2, <2>3, <2>4
       DEF BeginCommit, Claimable, Open, Became, RowBecame, BatchFacts, RequestFacts, Committing,
           Recovering, Cleared, Open, At, stores, teams, history, TypeOK
  <2> QED
    BY <2>5, <2>6, <2>7 DEF IInv
<1>20. ASSUME NEW r \in Requests, NEW b \in Batches, BeginCancel(r, b) PROVE IInv'
  <2>1. Became(r, "clear", NoBatch, {}, {}, {b}, "CANCELLED", FALSE)
    BY <1>20, FoundShape DEF BeginCancel, Steps, Statuses
  <2>2. TypeOK'
    BY <1>0, <1>20, <2>1 DEF BeginCancel, Became, RowBecame, TypeOK, At, stores, teams, history
  <2>3. \A c \in Batches : BatchFacts(c)'
    BY <1>a, <1>0, <1>20, <2>1
       DEF BeginCancel, Became, RowBecame, BatchFacts, RequestFacts, Committing, Recovering, Cleared, Open,
           At, stores, teams, history, TypeOK
  <2>4. \A q \in Requests : RequestFacts(q)'
    BY <1>a, <1>0, <1>20, <2>1
       DEF BeginCancel, Became, RowBecame, BatchFacts, RequestFacts, Committing, Recovering, Cleared, Open,
           At, stores, teams, history, TypeOK
  <2> QED
    BY <2>2, <2>3, <2>4 DEF IInv
<1>21. ASSUME NEW b \in Batches, Expires(b) PROVE IInv'
  <2>1. RowBecame(b, row[b].status, row[b].file, TRUE, row[b].overdue, row[b].cleanup, row[b].shown)
    BY <1>21, FieldShape DEF Expires
  <2>2. TypeOK'
    BY <1>0, <1>21, <2>1 DEF Expires, Open, Became, RowBecame, TypeOK, At, stores, teams, history
  <2>3. \A c \in Batches : BatchFacts(c)'
    BY <1>a, <1>0, <1>21, <2>1
       DEF Expires, Open, Became, RowBecame, BatchFacts, RequestFacts, Committing, Recovering, Cleared,
           Open, At, stores, teams, history, TypeOK
  <2>4. \A q \in Requests : RequestFacts(q)'
    BY <1>a, <1>0, <1>21, <2>1
       DEF Expires, Open, Became, RowBecame, BatchFacts, RequestFacts, Committing, Recovering, Cleared,
           Open, At, stores, teams, history, TypeOK
  <2> QED
    BY <2>2, <2>3, <2>4 DEF IInv
<1>22. ASSUME NEW b \in Batches, BecomesOverdue(b) PROVE IInv'
  <2>1. RowBecame(b, row[b].status, row[b].file, row[b].expired, TRUE, row[b].cleanup, row[b].shown)
    BY <1>22, FieldShape DEF BecomesOverdue
  <2>2. TypeOK'
    BY <1>0, <1>22, <2>1 DEF BecomesOverdue, Became, RowBecame, TypeOK, At, stores, teams, history
  <2>3. \A c \in Batches : BatchFacts(c)'
    BY <1>a, <1>0, <1>22, <2>1
       DEF BecomesOverdue, Became, RowBecame, BatchFacts, RequestFacts, Committing, Recovering, Cleared,
           Open, At, stores, teams, history, TypeOK
  <2>4. \A q \in Requests : RequestFacts(q)'
    BY <1>a, <1>0, <1>22, <2>1
       DEF BecomesOverdue, Became, RowBecame, BatchFacts, RequestFacts, Committing, Recovering, Cleared,
           Open, At, stores, teams, history, TypeOK
  <2> QED
    BY <2>2, <2>3, <2>4 DEF IInv
<1>23. CASE UNCHANGED vars
  <2>1. TypeOK'
    BY <1>a, <1>23 DEF vars, stores, teams, history, TypeOK
  <2>2. \A b \in Batches : BatchFacts(b)'
    BY <1>a, <1>23 DEF vars, stores, teams, history, BatchFacts, Recovering, Committing, Open, At
  <2>3. \A r \in Requests : RequestFacts(r)'
    BY <1>a, <1>23 DEF vars, stores, teams, history, RequestFacts, Recovering, Cleared, Committing, At
  <2> QED
    BY <2>1, <2>2, <2>3 DEF IInv
<1> QED
  BY <1>1, <1>2, <1>3, <1>4, <1>5, <1>6, <1>7, <1>8, <1>9, <1>10, <1>11, <1>12,
     <1>13, <1>14, <1>15, <1>16, <1>17, <1>18, <1>19, <1>20, <1>21, <1>22, <1>23 DEF Next

(* The invariant holds of every run. *)
THEOREM Inductive == Spec => []IInv
<1>1. Init => IInv
  BY InductiveInit
<1>2. IInv /\ [Next]_vars => IInv'
  BY InductiveStep
<1> QED
  BY <1>1, <1>2, PTL DEF Spec

(* Rows, requests and stores keep their shape in every run (pdf-import.service.ts). *)
THEOREM TypeSafe == Spec => []TypeOK
<1>1. IInv => TypeOK
  BY DEF IInv
<1> QED
  BY <1>1, Inductive, PTL

(***************************************************************************)
(* A batch makes its teams at most once, and the images they name stay     *)
(* stored (commitPdfBatch, recoverStuckBatches): only a preview can be     *)
(* claimed and no status leads back to one, so a batch has one commit, and *)
(* a deletion that comes while it runs, or after a COMMIT it did not learn *)
(* of, has noted the batch in undercut.                                    *)
(***************************************************************************)
THEOREM TeamsOnce == Spec => []CommittedWhole
<1>1. IInv => CommittedWhole
  BY DEF IInv, BatchFacts, CommittedWhole
<1> QED
  BY <1>1, Inductive, PTL

(***************************************************************************)
(* Copies for teams that do not exist are always in a row that a recovery  *)
(* finds, save for the three reasons Recoverable names (commitPdfBatch's   *)
(* catch, recoverStuckBatches).                                            *)
(***************************************************************************)
THEOREM CopiesAreRecoverable == Spec => []Recoverable
<1>1. IInv => Recoverable
  BY DEF IInv, BatchFacts, Recoverable
<1> QED
  BY <1>1, Inductive, PTL

(***************************************************************************)
(* Every image that an open preview shows is stored, whatever cleanups and *)
(* failed previews run beside it (previewPdf, lazyCleanupExpiredBatches).  *)
(***************************************************************************)
THEOREM PreviewsAreViewable == Spec => []PreviewIsViewable
<1>1. IInv => PreviewIsViewable
  BY DEF IInv, BatchFacts, PreviewIsViewable
<1> QED
  BY <1>1, Inductive, PTL

-----------------------------------------------------------------------------
(* Season files and their undo. *)

(* The keys of a file, kind by kind. *)
LEMMA FileShapes ==
  ASSUME NEW file, NEW k \in KeysOf(file)
  PROVE  \/ \E s \in file.seasons : k = Season(s)
         \/ \E t \in TeamNames(file) : k = Team(t)
         \/ \E t \in TeamNames(file) : \E s \in SeasonNames(file, t) : k = Profile(s, t)
         \/ \E p \in file.players : k = Player(p)
         \/ \E p \in file.players : k = Link(SeasonOf[p], p)
         \/ \E m \in file.matches : k = Match(m)
  BY SMT DEF KeysOf

(* What no file holds.                                                     *)
Extras == {"lineup", "registration", "approval"}

LEMMA FileKinds == \A f \in DOMAIN Files : \A k \in KeysOf(Files[f]) : k[1] \in Kinds \ Extras
<1> SUFFICES ASSUME NEW f \in DOMAIN Files, NEW k \in KeysOf(Files[f])
             PROVE  k[1] \in Kinds \ Extras
  OBVIOUS
<1> DEFINE file == Files[f]
<1> HIDE DEF file
<1>1. k \in KeysOf(file)
  BY DEF file
<1>2. CASE \E s \in file.seasons : k = Season(s)
  BY <1>2 DEF Season, Kinds, Extras
<1>3. CASE \E t \in TeamNames(file) : k = Team(t)
  BY <1>3 DEF Team, Kinds, Extras
<1>4. CASE \E t \in TeamNames(file) : \E s \in SeasonNames(file, t) : k = Profile(s, t)
  BY <1>4 DEF Profile, Kinds, Extras
<1>5. CASE \E p \in file.players : k = Player(p)
  BY <1>5 DEF Player, Kinds, Extras
<1>6. CASE \E p \in file.players : k = Link(SeasonOf[p], p)
  BY <1>6 DEF Link, Kinds, Extras
<1>7. CASE \E m \in file.matches : k = Match(m)
  BY <1>7 DEF Match, Kinds, Extras
<1> QED
  BY <1>1, <1>2, <1>3, <1>4, <1>5, <1>6, <1>7, FileShapes

(* Every key is of one of the kinds. *)
LEMMA KeyKinds == \A k \in Keys : k[1] \in Kinds
<1> SUFFICES ASSUME NEW k \in Keys PROVE k[1] \in Kinds
  OBVIOUS
<1>1. (\E f \in DOMAIN Files : k \in KeysOf(Files[f])) \/ k \in DOMAIN Old \cup DOMAIN Strangers
  BY SMT DEF Keys
<1> QED
  BY <1>1, FileKinds, RowsAssumption

(* The keys of a file are keys. *)
LEMMA FileKeys == \A f \in DOMAIN Files : KeysOf(Files[f]) \subseteq Keys
  BY DEF Keys

(* Whom the rows of each kind point to. *)
LEMMA RefersKinds ==
  ASSUME NEW d, NEW k, NEW x \in Refers(d, k)
  PROVE  \/ x[1] = "season" /\ k[1] \in {"profile", "link", "match", "registration", "approval"}
         \/ x[1] = "team" /\ k[1] \in {"profile", "player", "link", "match", "registration"}
         \/ x[1] = "player" /\ k[1] \in {"link", "lineup"}
         \/ x[1] = "match" /\ k[1] = "lineup"
<1>1. CASE k[1] = "profile"
  BY <1>1 DEF Refers, Season, Team
<1>2. CASE k[1] = "player"
  BY <1>2 DEF Refers, Season, Team
<1>3. CASE k[1] = "link"
  BY <1>3 DEF Refers, Season, Team, Player
<1>4. CASE k[1] = "match"
  BY <1>4 DEF Refers, Season, Team
<1>5. CASE k[1] = "lineup"
  BY <1>5 DEF Refers, Match, Player
<1>6. CASE k[1] \in {"registration", "approval"}
  BY <1>6 DEF Refers, Season, Team
<1>7. CASE k[1] \notin {"profile", "player", "link", "match", "lineup", "registration", "approval"}
  BY <1>7 DEF Refers
<1> QED
  BY <1>1, <1>2, <1>3, <1>4, <1>5, <1>6, <1>7

(* Only the team of a player or a list entry is part of the row itself. *)
LEMMA RefersByKey ==
  ASSUME NEW d, NEW e, NEW k, k[1] \in {"player", "link"} => d[k].val = e[k].val
  PROVE  Refers(d, k) = Refers(e, k)
<1>1. CASE k[1] \in {"player", "link"}
  BY <1>1 DEF Refers
<1>2. CASE k[1] \notin {"player", "link"}
  BY <1>2 DEF Refers
<1> QED
  BY <1>1, <1>2

(* Everything else is in the key, whatever the row says. *)
LEMMA RefersButTeam ==
  ASSUME NEW d, NEW e, NEW k, NEW x \in Refers(d, k), x[1] # "team"
  PROVE  x \in Refers(e, k)
<1>1. CASE k[1] = "player"
  BY <1>1 DEF Refers, Team
<1>2. CASE k[1] = "link"
  BY <1>2 DEF Refers, Team, Season, Player
<1>3. CASE k[1] \notin {"player", "link"}
  BY <1>3, RefersByKey
<1> QED
  BY <1>1, <1>2, <1>3

(* What a player or a list entry with a given team points to. *)
LEMMA RefersTeam ==
  ASSUME NEW d, NEW k, k[1] \in {"player", "link"}
  PROVE  /\ Team(d[k].val) \in Refers(d, k)
         /\ \A x \in Refers(d, k) : x[1] = "team" => x = Team(d[k].val)
         /\ k[1] = "link" => Player(k[3]) \in Refers(d, k)
         /\ \A x \in Refers(d, k) : x[1] = "player" => x = Player(k[3])
  BY DEF Refers, Team, Season, Player

(* A cascade deletes rows and changes none. *)
LEMMA CascadeTypes ==
  ASSUME NEW d \in States, NEW ks
  PROVE  /\ Cascade(d, ks) \in States
         /\ \A k \in Keys : Cascade(d, ks)[k] \in {d[k], NoRow} /\ (k \in ks => Cascade(d, ks)[k] = NoRow)
  BY DEF Cascade, States

(* Nothing points to what points to these rows: it goes along, no more. *)
LEMMA CascadeOnce ==
  ASSUME NEW d, NEW ks, \A k \in Referring(d, ks) : k[1] \in Extras \cup {"link"}
  PROVE  Cascade(d, ks) = [k \in Keys |-> IF k \in ks \cup Referring(d, ks) THEN NoRow ELSE d[k]]
<1> DEFINE one == ks \cup Referring(d, ks)
<1>1. \A k \in Referring(d, ks) : k[1] \in Extras \cup {"link"}
  OBVIOUS
<1>2. Referring(d, one) = Referring(d, ks)
  <2>1. ASSUME NEW k \in There(d), NEW x \in Refers(d, k), x \in one PROVE x \in ks
    BY <1>1, <2>1, RefersKinds DEF Extras
  <2> QED
    BY <2>1 DEF Referring
<1>3. one \cup Referring(d, one) = one
  BY <1>2
<1>4. Cascade(d, ks) = [k \in Keys |-> IF k \in one THEN NoRow ELSE d[k]]
  <2> HIDE DEF one
  <2>1. Cascade(d, ks) = [k \in Keys |-> IF k \in (one \cup Referring(d, one)) \cup Referring(d, one \cup Referring(d, one))
                                         THEN NoRow ELSE d[k]]
    BY DEF Cascade, one
  <2> QED
    BY <1>3, <2>1
<1> QED
  BY <1>4

(* Seasons and teams point to nothing and stay unless they are deleted themselves. *)
LEMMA CascadeSources ==
  ASSUME NEW d, NEW ks, NEW k \in Keys, k[1] \in {"season", "team"}, k \notin ks
  PROVE  Cascade(d, ks)[k] = d[k]
<1>1. Refers(d, k) = {}
  BY RefersKinds
<1>2. \A any : k \notin Referring(d, any)
  BY <1>1 DEF Referring
<1> QED
  BY <1>2 DEF Cascade

(* No chain of rows is longer than the cascade: the foreign keys hold after it. *)
LEMMA CascadeWhole ==
  ASSUME NEW d \in States, NEW ks, Whole(d)
  PROVE  Whole(Cascade(d, ks))
<1> DEFINE one == ks \cup Referring(d, ks)
           two == one \cup Referring(d, one)
           all == two \cup Referring(d, two)
           c == Cascade(d, ks)
<1>1. c = [k \in Keys |-> IF k \in all THEN NoRow ELSE d[k]]
  BY DEF Cascade
<1> HIDE DEF c
<1>2. DOMAIN d = Keys /\ DOMAIN c = Keys
  BY <1>1 DEF States
<1> SUFFICES ASSUME NEW k \in There(c), NEW x \in Refers(c, k) PROVE x \in There(c)
  BY DEF c, Whole
<1>3. k \in Keys /\ k \notin all /\ c[k] = d[k] /\ k \in There(d)
  BY <1>1, <1>2 DEF There
<1>4. x \in Refers(d, k)
  BY <1>3, RefersByKey
<1>5. x \in There(d)
  BY <1>3, <1>4 DEF Whole
<1>6. x \notin all
  <2>1. x \notin two
    BY <1>3, <1>4 DEF Referring
  <2> SUFFICES ASSUME x \in Referring(d, two) PROVE FALSE
    BY <2>1
  <2>2. PICK y \in Refers(d, x) : y \in two
    BY DEF Referring
  <2>3. y \notin one
    BY <1>5, <2>1, <2>2 DEF Referring
  <2>4. PICK z \in Refers(d, y) : z \in one
    BY <2>2, <2>3 DEF Referring
  <2> HIDE DEF two
  <2>5. x[1] \in {"season", "team", "player", "match"}
    BY <1>4, RefersKinds
  <2>6. y[1] \in {"season", "team"}
    BY <2>2, <2>5, RefersKinds
  <2> QED
    BY <2>4, <2>6, RefersKinds
<1> QED
  BY <1>1, <1>2, <1>5, <1>6 DEF There

(* What batch n says of the database before and after its import. *)
ImportOf(b, n) ==
  /\ Whole(b.before)
  /\ \A k \in There(b.before) : b.before[k].born < n
  /\ \A k \in b.created : k \notin There(b.before) /\ k \in There(b.after) /\ b.after[k].born = n
  /\ \A k \in b.created : k[1] \notin Extras
  /\ \A k \in Keys \ b.created : k \in There(b.after) <=> k \in There(b.before)
  /\ \A k \in There(b.before) :
       /\ SameRow(b.after, b.before, k)
       /\ k \notin There(b.updated) /\ k[1] # "profile" => b.after[k] = b.before[k]
  /\ \A k \in There(b.updated) :
       /\ k \in There(b.before) /\ b.updated[k] = b.before[k] /\ k[1] \in Remembered
       /\ k[1] = "link" => Player(k[3]) \in There(b.updated)

(* The rows that are still those the import created. *)
Gone(n) == {k \in batches[n].created : k \in There(db) /\ db[k].born = n}

Ready(n) == HistoryTypeOK /\ n \in DOMAIN batches /\ ImportOf(batches[n], n) /\ CanPutBack(n) /\ Whole(db)

(***************************************************************************)
(* How far an undo has come when it has deleted the created rows of the    *)
(* kinds del and put back the updated ones of the kinds put.               *)
(***************************************************************************)
(* k hangs on a row that has been deleted. *)
Hangs(k, n, del) ==
  \E x \in Gone(n) :
    /\ x[1] \in del /\ x \in Refers(db, k)
    /\ \/ k[1] \in {"link", "lineup"} /\ x[1] \in {"player", "match"}
       \/ k[1] \in {"registration", "approval"} /\ x[1] \in {"team", "season"}

Stage(d, n, del, put) ==
  /\ d \in States /\ Whole(d)
  /\ \A k \in There(d) :
       /\ k \in There(db)
       /\ d[k] = IF k \in There(batches[n].updated) /\ k[1] \in put THEN batches[n].updated[k] ELSE db[k]
  /\ \A k \in There(db) \ There(d) :
       (k \in Gone(n) /\ k[1] \in del) \/ Hangs(k, n, del)
  /\ \A k \in Gone(n) : k[1] \in del \ {"team", "season"} => k \notin There(d)

(* The parts of a batch. *)
LEMMA BatchTypes ==
  ASSUME NEW n, Ready(n)
  PROVE  /\ batches[n].created \subseteq Keys
         /\ batches[n].updated \in States /\ batches[n].before \in States /\ batches[n].after \in States
         /\ db \in States
<1>1. batches \in Seq(Batch) /\ n \in DOMAIN batches /\ db \in States
  BY DEF Ready, HistoryTypeOK
<1>2. batches[n] \in Batch
  BY <1>1
<1> QED
  BY <1>1, <1>2 DEF Batch

(* A state is a function on the keys. *)
LEMMA StateDomain == \A d \in States : DOMAIN d = Keys /\ There(d) = {k \in Keys : d[k] # NoRow}
  BY DEF States, There

(* What was created was not there, so it was not updated. *)
LEMMA CreatedApart == ASSUME NEW n, Ready(n), NEW k \in Gone(n) PROVE k \notin There(batches[n].updated) /\ k \in Keys
  BY BatchTypes DEF Ready, ImportOf, Gone

(* Rows keep their identity through an undo. *)
LEMMA StageBorn ==
  ASSUME NEW n, Ready(n), NEW d, NEW del, NEW put, Stage(d, n, del, put), NEW k \in There(d)
  PROVE  d[k].born = db[k].born
  BY DEF Stage, Ready, CanPutBack, SameRow

(* The undo begins with the database as it is. *)
LEMMA StageBegins == ASSUME NEW n, Ready(n) PROVE Stage(db, n, {}, {})
  BY DEF Stage, Ready, HistoryTypeOK

(* deleteMany of created rows of a kind. *)
LEMMA DeletedStage ==
  ASSUME NEW n, Ready(n), NEW d, NEW del, NEW put, Stage(d, n, del, put),
         NEW kind \in {"match", "link", "profile", "player"}
  PROVE  Stage(Deleted(d, n, kind), n, del \cup {kind}, put)
<1> DEFINE ks == {k \in Kind(batches[n].created, kind) : d[k] # NoRow /\ d[k].born = n}
           c == Deleted(d, n, kind)
<1>1. c = Cascade(d, ks)
  BY DEF Deleted
<1>2. d \in States /\ DOMAIN d = Keys
  BY DEF Stage, States
<1>3. ks = {k \in Gone(n) : k[1] = kind /\ k \in There(d)}
  <2>1. ASSUME NEW k \in ks PROVE k \in Gone(n) /\ k[1] = kind /\ k \in There(d)
    <3>1. k \in batches[n].created /\ k[1] = kind /\ k \in There(d) /\ d[k].born = n
      BY <1>2, BatchTypes DEF Kind, There
    <3>2. k \in There(db)
      BY <3>1 DEF Stage
    <3>3. db[k].born = n
      BY <3>1, StageBorn
    <3> QED
      BY <3>1, <3>2, <3>3 DEF Gone
  <2>2. ASSUME NEW k \in Gone(n), k[1] = kind, k \in There(d) PROVE k \in ks
    <3>1. d[k].born = n
      BY <2>2, StageBorn DEF Gone
    <3>2. k \in Kind(batches[n].created, kind) /\ d[k] # NoRow
      BY <2>2 DEF Gone, Kind, There
    <3> QED
      BY <3>1, <3>2
  <2> QED
    BY <2>1, <2>2
<1> HIDE DEF ks, c
<1>4. \A k \in Referring(d, ks) : k[1] \in {"link", "lineup"} /\ kind \in {"player", "match"}
  BY <1>3, RefersKinds DEF Referring
<1>5. c = [k \in Keys |-> IF k \in ks \cup Referring(d, ks) THEN NoRow ELSE d[k]]
  BY <1>1, <1>4, CascadeOnce DEF Extras
<1>6. c \in States /\ Whole(c)
  BY <1>1, <1>2, CascadeTypes, CascadeWhole DEF Stage
<1>7. There(c) = There(d) \ (ks \cup Referring(d, ks)) /\ \A k \in There(c) : c[k] = d[k]
  BY <1>2, <1>5 DEF There
<1>8. ASSUME NEW k \in There(db) \ There(c)
      PROVE  (k \in Gone(n) /\ k[1] \in del \cup {kind}) \/ Hangs(k, n, del \cup {kind})
  <2>1. CASE k \notin There(d)
    BY <2>1 DEF Stage, Hangs
  <2>2. CASE k \in ks
    BY <1>3, <2>2
  <2>3. CASE k \in Referring(d, ks)
    <3>1. PICK x \in ks : x \in Refers(d, k)
      BY <2>3 DEF Referring
    <3>2. x \in Gone(n) /\ x[1] = kind /\ kind \in {"player", "match"} /\ k[1] \in {"link", "lineup"}
      BY <1>3, <1>4, <2>3, <3>1
    <3>3. x \in Refers(db, k)
      BY <3>1, <3>2, RefersButTeam
    <3> QED
      BY <3>2, <3>3 DEF Hangs
  <2> QED
    BY <1>7, <2>1, <2>2, <2>3
<1>9. ASSUME NEW k \in Gone(n), k[1] \in (del \cup {kind}) \ {"team", "season"} PROVE k \notin There(c)
  BY <1>3, <1>7, <1>9 DEF Stage
<1>10. \A k \in There(c) :
         /\ k \in There(db)
         /\ c[k] = IF k \in There(batches[n].updated) /\ k[1] \in put THEN batches[n].updated[k] ELSE db[k]
  BY <1>7 DEF Stage
<1> QED
  BY <1>6, <1>8, <1>9, <1>10 DEF Stage, c

(* update of the rows of a kind that were updated; players and list        *)
(* entries are put back before any player or team is deleted.              *)
LEMMA PutStage ==
  ASSUME NEW n, Ready(n), NEW d, NEW del, NEW put, Stage(d, n, del, put),
         NEW kind \in Remembered,
         kind \in {"player", "link"} => "player" \notin del /\ "team" \notin del
  PROVE  Stage(PutBack(d, n, kind), n, del, put \cup {kind})
<1> DEFINE b == batches[n]
           c == PutBack(d, n, kind)
<1>1. d \in States /\ DOMAIN d = Keys /\ DOMAIN db = Keys /\ b.updated \in States /\ DOMAIN b.updated = Keys
  BY BatchTypes, StateDomain DEF Stage
<1>2. c = [k \in Keys |-> IF k \in There(b.updated) /\ k[1] = kind THEN b.updated[k] ELSE d[k]]
  <2>1. c = [k \in Keys |-> IF k[1] = kind /\ b.updated[k] # NoRow THEN b.updated[k] ELSE d[k]]
    BY DEF PutBack
  <2>2. \A k \in Keys : k \in There(b.updated) <=> b.updated[k] # NoRow
    BY <1>1 DEF There
  <2> QED
    BY <2>1, <2>2
<1> HIDE DEF c
<1>3. c \in States
  BY <1>1, <1>2 DEF States
<1>4. ASSUME NEW k \in There(b.updated), k[1] = kind PROVE k \in There(d)
  <2>1. k \in There(db) /\ k \notin Gone(n)
    BY CreatedApart DEF Ready, CanPutBack, SameRow
  <2>2. kind = "link" => \A x \in Refers(db, k) : x[1] # "match"
    BY <1>4, RefersKinds
  <2> QED
    BY <1>4, <2>1, <2>2 DEF Stage, Hangs, Remembered
<1>5. There(c) = There(d)
  BY <1>1, <1>2, <1>4 DEF There
<1>6. ASSUME NEW k \in There(c), NEW x \in Refers(c, k) PROVE x \in There(c)
  <2>1. k \in There(d) /\ k \in Keys
    BY <1>1, <1>5 DEF There
  <2>2. CASE x[1] # "team"
    <3>1. x \in Refers(d, k)
      BY <2>2, RefersButTeam
    <3> QED
      BY <1>5, <2>1, <3>1 DEF Stage, Whole
  <2>3. CASE x[1] = "team" /\ (k[1] \notin {"player", "link"} \/ c[k] = d[k])
    <3>1. x \in Refers(d, k)
      BY <2>3, RefersByKey
    <3> QED
      BY <1>5, <2>1, <3>1 DEF Stage, Whole
  <2>4. CASE x[1] = "team" /\ k[1] \in {"player", "link"} /\ c[k] # d[k]
    <3>1. k \in There(b.updated) /\ k[1] = kind /\ c[k] = b.updated[k]
      BY <1>2, <2>1, <2>4
    <3>2. x = Team(b.updated[k].val)
      BY <2>4, <3>1, RefersTeam
    <3>3. x \in There(db)
      BY <2>4, <3>1, <3>2 DEF Ready, CanPutBack, SameRow
    <3>4. x \in There(d)
      <4>1. ~ Hangs(x, n, del)
        BY <2>4 DEF Hangs
      <4> QED
        BY <2>4, <3>1, <3>3, <4>1 DEF Stage
    <3> QED
      BY <1>5, <3>4
  <2> QED
    BY <2>2, <2>3, <2>4
<1>7. Whole(c)
  BY <1>6 DEF Whole
<1>8. \A k \in There(c) :
         /\ k \in There(db)
         /\ c[k] = IF k \in There(b.updated) /\ k[1] \in put \cup {kind} THEN b.updated[k] ELSE db[k]
  <2> SUFFICES ASSUME NEW k \in There(c)
               PROVE  /\ k \in There(db)
                      /\ c[k] = IF k \in There(b.updated) /\ k[1] \in put \cup {kind} THEN b.updated[k] ELSE db[k]
    OBVIOUS
  <2>1. k \in Keys /\ k \in There(db)
       /\ d[k] = IF k \in There(b.updated) /\ k[1] \in put THEN b.updated[k] ELSE db[k]
    BY <1>1, <1>5 DEF Stage, There
  <2> QED
    BY <1>2, <2>1
<1> QED
  BY <1>3, <1>5, <1>7, <1>8 DEF Stage, c

(* Something is left that keeps a team or a season. *)
Used(d, k) == \E o \in Referring(d, {k}) : o[1] \in InUse

(* d without created rows of a kind; those left are in use. *)
Freed(d, c, n, del, put, kind) ==
  /\ Stage(c, n, del \cup {kind}, put)
  /\ \A k \in Keys : k[1] \in InUse => c[k] = d[k]
  /\ \A k \in Keys : c[k] \in {d[k], NoRow}
  /\ \A k \in Gone(n) : k[1] = kind /\ k \in There(c) => Used(d, k)

(* deleteMany of created teams or seasons that are not in use: only        *)
(* registrations and approvals go along.                                   *)
LEMMA FreeStage ==
  ASSUME NEW n, Ready(n), NEW d, NEW del, NEW put, Stage(d, n, del, put),
         NEW kind \in {"team", "season"}
  PROVE  Freed(d, DeletedIfFree(d, n, kind), n, del, put, kind)
<1> DEFINE ks == {k \in Kind(batches[n].created, kind) :
                    /\ d[k] # NoRow /\ d[k].born = n
                    /\ \A o \in Referring(d, {k}) : o[1] \notin InUse}
           c == DeletedIfFree(d, n, kind)
           hanging == Referring(d, ks)
<1>1. c = Cascade(d, ks)
  BY DEF DeletedIfFree
<1>2. d \in States /\ DOMAIN d = Keys
  BY DEF Stage, States
<1>3. ks = {k \in Gone(n) : k[1] = kind /\ k \in There(d) /\ ~ Used(d, k)}
  <2>1. ASSUME NEW k \in ks PROVE k \in Gone(n) /\ k[1] = kind /\ k \in There(d) /\ ~ Used(d, k)
    <3>1. k \in batches[n].created /\ k[1] = kind /\ k \in There(d) /\ d[k].born = n /\ ~ Used(d, k)
      BY <1>2, BatchTypes DEF Kind, There, Used
    <3>2. k \in There(db)
      BY <3>1 DEF Stage
    <3>3. db[k].born = n
      BY <3>1, StageBorn
    <3> QED
      BY <3>1, <3>2, <3>3 DEF Gone
  <2>2. ASSUME NEW k \in Gone(n), k[1] = kind, k \in There(d), ~ Used(d, k) PROVE k \in ks
    <3>1. d[k].born = n
      BY <2>2, StageBorn DEF Gone
    <3>2. k \in Kind(batches[n].created, kind) /\ d[k] # NoRow
      BY <2>2 DEF Gone, Kind, There
    <3>3. \A o \in Referring(d, {k}) : o[1] \notin InUse
      BY <2>2 DEF Used
    <3> QED
      BY <3>1, <3>2, <3>3
  <2> QED
    BY <2>1, <2>2
<1> HIDE DEF ks, c
<1>4. ASSUME NEW k \in hanging
      PROVE  /\ k \in There(d) /\ k[1] \in {"registration", "approval"}
             /\ \E x \in ks : x \in Refers(d, k)
  <2>1. PICK x \in ks : k \in There(d) /\ x \in Refers(d, k)
    BY <1>4 DEF Referring
  <2>2. x \in Gone(n) /\ x[1] \in {"team", "season"} /\ ~ Used(d, x)
    BY <1>3, <2>1
  <2>3. k \in Referring(d, {x})
    BY <2>1 DEF Referring
  <2>4. k[1] \notin InUse
    BY <2>2, <2>3 DEF Used
  <2> QED
    BY <2>1, <2>2, <2>4, RefersKinds DEF InUse
<1>5. c = [k \in Keys |-> IF k \in ks \cup hanging THEN NoRow ELSE d[k]]
  <2>1. \A k \in hanging : k[1] \in Extras \cup {"link"}
    BY <1>4 DEF Extras
  <2> QED
    BY <1>1, <2>1, CascadeOnce
<1> HIDE DEF hanging
<1>6. c \in States /\ Whole(c)
  BY <1>1, <1>2, CascadeTypes, CascadeWhole DEF Stage
<1>7. There(c) = There(d) \ (ks \cup hanging) /\ \A k \in There(c) : c[k] = d[k]
  BY <1>2, <1>5 DEF There
<1>8. Stage(c, n, del \cup {kind}, put)
  <2>1. ASSUME NEW k \in There(db) \ There(c)
        PROVE  (k \in Gone(n) /\ k[1] \in del \cup {kind}) \/ Hangs(k, n, del \cup {kind})
    <3>1. CASE k \notin There(d)
      BY <3>1 DEF Stage, Hangs
    <3>2. CASE k \in ks
      BY <1>3, <3>2
    <3>3. CASE k \in hanging
      <4>1. k[1] \in {"registration", "approval"}
        BY <1>4, <3>3
      <4>2. PICK x \in ks : x \in Refers(d, k)
        BY <1>4, <3>3
      <4>3. x \in Gone(n) /\ x[1] = kind
        BY <1>3, <4>2
      <4>4. x \in Refers(db, k)
        BY <4>1, <4>2, RefersByKey
      <4> QED
        BY <4>1, <4>3, <4>4 DEF Hangs
    <3> QED
      BY <1>7, <2>1, <3>1, <3>2, <3>3
  <2>2. ASSUME NEW k \in Gone(n), k[1] \in (del \cup {kind}) \ {"team", "season"} PROVE k \notin There(c)
    BY <1>7, <2>2 DEF Stage
  <2>3. \A k \in There(c) :
           /\ k \in There(db)
           /\ c[k] = IF k \in There(batches[n].updated) /\ k[1] \in put THEN batches[n].updated[k] ELSE db[k]
    BY <1>7 DEF Stage
  <2> QED
    BY <1>6, <2>1, <2>2, <2>3 DEF Stage
<1>9. \A k \in Keys : k[1] \in InUse => c[k] = d[k]
  BY <1>3, <1>4, <1>5 DEF InUse
<1>10. \A k \in Keys : c[k] \in {d[k], NoRow}
  BY <1>5
<1>11. \A k \in Gone(n) : k[1] = kind /\ k \in There(c) => Used(d, k)
  BY <1>3, <1>7
<1> QED
  BY <1>8, <1>9, <1>10, <1>11 DEF c, Freed

(* The whole undo: it puts back what was updated, and of the created rows  *)
(* only teams and seasons in use are left.                                 *)
AllKinds == {"match"} \cup {"link"} \cup {"profile"} \cup {"player"} \cup {"team"} \cup {"season"}

LEMMA UndoneStage ==
  ASSUME NEW n, Ready(n)
  PROVE  /\ Stage(Undone(n), n, AllKinds, Remembered)
         /\ \A k \in Gone(n) : k \in There(Undone(n)) => Used(Undone(n), k)
<1> DEFINE m1 == Deleted(db, n, "match")
           m2 == PutBack(m1, n, "match")
           l1 == Deleted(m2, n, "link")
           l2 == PutBack(l1, n, "link")
           f == Deleted(l2, n, "profile")
           p1 == PutBack(f, n, "player")
           p2 == Deleted(p1, n, "player")
           t1 == PutBack(p2, n, "team")
           t2 == DeletedIfFree(t1, n, "team")
           u == DeletedIfFree(t2, n, "season")
           ks1 == {} \cup {"match"}
           ks2 == ks1 \cup {"link"}
           ks3 == ks2 \cup {"profile"}
           ks4 == ks3 \cup {"player"}
           ks5 == ks4 \cup {"team"}
           ps1 == {} \cup {"match"}
           ps2 == ps1 \cup {"link"}
           ps3 == ps2 \cup {"player"}
           ps4 == ps3 \cup {"team"}
<1>1. Undone(n) = u
  BY DEF Undone
<1>2. Stage(db, n, {}, {})
  BY StageBegins
<1> HIDE DEF m1
<1>3. Stage(m1, n, ks1, {})
  BY <1>2, DeletedStage DEF m1
<1> HIDE DEF m2
<1>4. Stage(m2, n, ks1, ps1)
  BY <1>3, PutStage DEF m2, Remembered
<1> HIDE DEF l1
<1>5. Stage(l1, n, ks2, ps1)
  BY <1>4, DeletedStage DEF l1
<1> HIDE DEF l2
<1>6. Stage(l2, n, ks2, ps2)
  <2>1. "player" \notin ks2 /\ "team" \notin ks2 /\ "link" \in Remembered
    BY DEF Remembered
  <2> HIDE DEF ks2, ps1
  <2> QED
    BY <1>5, <2>1, PutStage DEF l2
<1> HIDE DEF f
<1>7. Stage(f, n, ks3, ps2)
  <2> HIDE DEF ks2, ps2
  <2> QED
    BY <1>6, DeletedStage DEF f
<1> HIDE DEF p1
<1>8. Stage(p1, n, ks3, ps3)
  <2>1. "player" \notin ks3 /\ "team" \notin ks3 /\ "player" \in Remembered
    BY DEF Remembered
  <2> HIDE DEF ks3, ps2
  <2> QED
    BY <1>7, <2>1, PutStage DEF p1
<1> HIDE DEF p2
<1>9. Stage(p2, n, ks4, ps3)
  <2> HIDE DEF ks3, ps3
  <2> QED
    BY <1>8, DeletedStage DEF p2
<1> HIDE DEF t1
<1>10. Stage(t1, n, ks4, ps4)
  <2>1. "team" \in Remembered
    BY DEF Remembered
  <2> HIDE DEF ks4, ps3
  <2> QED
    BY <1>9, <2>1, PutStage DEF t1
<1>11. ps4 = Remembered /\ AllKinds = ks5 \cup {"season"}
  BY DEF Remembered, AllKinds
<1> HIDE DEF ks4, ps4
<1>12. /\ Stage(t2, n, ks5, ps4)
       /\ \A k \in Gone(n) : k[1] = "team" /\ k \in There(t2) => Used(t1, k)
       /\ \A k \in Keys : k[1] \in InUse => t2[k] = t1[k]
  <2> HIDE DEF t1, t2
  <2>1. t2 = DeletedIfFree(t1, n, "team") /\ "team" \in {"team", "season"}
    BY DEF t2
  <2>2. Freed(t1, t2, n, ks4, ps4, "team")
    BY <1>10, <2>1, FreeStage
  <2> QED
    BY <2>2 DEF Freed
<1> HIDE DEF t2, ks5
<1>13. /\ Stage(u, n, ks5 \cup {"season"}, ps4)
       /\ \A k \in Gone(n) : k[1] = "season" /\ k \in There(u) => Used(t2, k)
       /\ \A k \in Keys : k[1] \in InUse => u[k] = t2[k]
       /\ \A k \in Keys : u[k] \in {t2[k], NoRow}
  <2> HIDE DEF u
  <2>1. u = DeletedIfFree(t2, n, "season") /\ "season" \in {"team", "season"}
    BY DEF u
  <2>2. Freed(t2, u, n, ks5, ps4, "season")
    BY <1>12, <2>1, FreeStage
  <2> QED
    BY <2>2 DEF Freed
<1> HIDE DEF u, t1
<1>14. /\ DOMAIN t1 = Keys /\ DOMAIN t2 = Keys /\ DOMAIN u = Keys
       /\ There(t1) = {k \in Keys : t1[k] # NoRow}
       /\ There(t2) = {k \in Keys : t2[k] # NoRow}
       /\ There(u) = {k \in Keys : u[k] # NoRow}
  BY <1>10, <1>12, <1>13, StateDomain DEF Stage
<1>15. ASSUME NEW k, NEW d, DOMAIN d = Keys, Used(d, k),
              \A i \in Keys : i[1] \in InUse => u[i] = d[i]
       PROVE  Used(u, k)
  <2>1. PICK j \in Referring(d, {k}) : j[1] \in InUse
    BY <1>15 DEF Used
  <2>2. j \in There(d) /\ k \in Refers(d, j)
    BY <2>1 DEF Referring
  <2>3. j \in Keys /\ u[j] = d[j]
    BY <1>15, <2>1, <2>2 DEF There
  <2>4. j \in There(u)
    BY <1>14, <2>2, <2>3 DEF There
  <2>5. k \in Refers(u, j)
    BY <2>2, <2>3, RefersByKey
  <2> QED
    BY <2>1, <2>4, <2>5 DEF Referring, Used
<1>16. ASSUME NEW k \in Gone(n), k \in There(u) PROVE Used(u, k)
  <2>1. k \in Keys /\ k[1] \in Kinds
    BY CreatedApart, KeyKinds
  <2>2. k[1] \in {"team", "season"}
    <3>1. \A x : x \in Kinds => x \in ks5 \cup {"season"} \/ x \in Extras
      BY DEF Kinds, Extras, ks5, ks4
    <3>2. k[1] \notin Extras
      BY DEF Gone, Ready, ImportOf
    <3> QED
      BY <1>13, <1>16, <2>1, <3>1, <3>2 DEF Stage
  <2>3. CASE k[1] = "team"
    <3>1. k \in There(t2)
      BY <1>13, <1>14, <1>16, <2>1
    <3>2. \A i \in Keys : i[1] \in InUse => u[i] = t1[i]
      BY <1>12, <1>13
    <3> QED
      BY <1>12, <1>14, <1>15, <2>3, <3>1, <3>2
  <2>4. CASE k[1] = "season"
    BY <1>13, <1>14, <1>15, <1>16, <2>4
  <2> QED
    BY <2>2, <2>3, <2>4
<1> QED
  BY <1>1, <1>11, <1>13, <1>16

(* While no row that matters was lost, every import can still be undone. *)
Reversible ==
  \A n \in Completed :
    LET b == batches[n]
    IN  /\ \A k \in There(b.updated) : SameRow(db, b.updated, k)
        /\ \A k \in There(b.before) : k[1] = "team" => SameRow(db, b.before, k)

Numbered == \A k \in There(db) : db[k].born <= Len(batches)
Recorded == \A n \in DOMAIN batches : ImportOf(batches[n], n)
Read == \A u \in Undoers : undo[u] <= Len(batches)

(* Checked with TLC on the run imports. *)
HistoryInvariant ==
  HistoryTypeOK /\ Whole(db) /\ Numbered /\ Recorded /\ Read /\ (lost \/ Reversible)

(* What a file writes into a row is a value. *)
LEMMA FileValTypes ==
  ASSUME NEW name \in DOMAIN Files, NEW k \in KeysOf(Files[name])
  PROVE  FileVal(k, name) \in Vals
<1> DEFINE file == Files[name]
<1> HIDE DEF file
<1>1. k \in KeysOf(file)
  BY DEF file
<1>2. CASE k[1] = "season"
  BY <1>2 DEF FileVal, Vals
<1>3. CASE k[1] = "team"
  BY <1>3 DEF FileVal, Vals
<1>4. CASE k[1] = "profile"
  BY <1>4 DEF FileVal, Vals
<1>5. CASE k[1] = "match"
  BY <1>5 DEF FileVal, Vals
<1>6. CASE \E p \in file.players : k = Player(p) \/ k = Link(SeasonOf[p], p)
  <2>1. PICK p \in file.players : k = Player(p) \/ k = Link(SeasonOf[p], p)
    BY <1>6
  <2>2. p \in DOMAIN TeamOf
    BY <2>1, FilesAssumption DEF file
  <2>3. k[1] \in {"player", "link"} /\ k[Len(k)] = p
    BY <2>1 DEF Player, Link
  <2>4. FileVal(k, name) = TeamOf[p]
    BY <2>3 DEF FileVal
  <2> QED
    BY <2>2, <2>4 DEF Vals
<1>7. k[1] \in {"season", "team", "profile", "match"} \/ \E p \in file.players : k = Player(p) \/ k = Link(SeasonOf[p], p)
  BY <1>1, FileShapes DEF Season, Team, Profile, Match
<1> QED
  BY <1>2, <1>3, <1>4, <1>5, <1>6, <1>7

(* What the rows of a file point to is in the file: d has its values in    *)
(* the players and list entries.                                           *)
LEMMA FileWhole ==
  ASSUME NEW name \in DOMAIN Files, NEW k \in KeysOf(Files[name]), NEW d,
         k[1] \in {"player", "link"} => d[k].val = FileVal(k, name)
  PROVE  Refers(d, k) \subseteq KeysOf(Files[name])
<1> DEFINE file == Files[name]
<1> HIDE DEF file
<1>1. k \in KeysOf(file) /\ \A x \in file.players \cup file.matches : SeasonOf[x] \in file.seasons
  BY FilesAssumption DEF file
<1>2. \A s \in file.seasons : Season(s) \in KeysOf(file)
  BY DEF KeysOf
<1>3. \A t \in TeamNames(file) : Team(t) \in KeysOf(file)
  BY DEF KeysOf
<1>4. \A p \in file.players : Player(p) \in KeysOf(file) /\ TeamOf[p] \in TeamNames(file)
  BY DEF KeysOf, TeamNames
<1>5. \A m \in file.matches : TeamsOf[m][1] \in TeamNames(file) /\ TeamsOf[m][2] \in TeamNames(file)
  BY DEF TeamNames
<1>6. CASE \E s \in file.seasons : k = Season(s)
  BY <1>6 DEF Refers, Season
<1>7. CASE \E t \in TeamNames(file) : k = Team(t)
  BY <1>7 DEF Refers, Team
<1>8. CASE \E t \in TeamNames(file) : \E s \in SeasonNames(file, t) : k = Profile(s, t)
  <2>0. PICK t \in TeamNames(file) : \E s \in SeasonNames(file, t) : k = Profile(s, t)
    BY <1>8
  <2>1. PICK s \in SeasonNames(file, t) : k = Profile(s, t)
    BY <2>0
  <2>2. s \in file.seasons
    BY <1>1 DEF SeasonNames
  <2>3. Refers(d, k) = {Season(s), Team(t)}
    BY <2>1 DEF Refers, Profile
  <2> QED
    BY <1>2, <1>3, <2>2, <2>3 DEF file
<1>9. CASE \E p \in file.players : k = Player(p)
  <2>1. PICK p \in file.players : k = Player(p)
    BY <1>9
  <2>2. d[k].val = TeamOf[p]
    BY <2>1 DEF FileVal, Player
  <2>3. Refers(d, k) = {Team(TeamOf[p])}
    BY <2>1, <2>2 DEF Refers, Player
  <2> QED
    BY <1>3, <1>4, <2>3 DEF file
<1>10. CASE \E p \in file.players : k = Link(SeasonOf[p], p)
  <2>1. PICK p \in file.players : k = Link(SeasonOf[p], p)
    BY <1>10
  <2>2. d[k].val = TeamOf[p]
    BY <2>1 DEF FileVal, Link
  <2>3. Refers(d, k) = {Season(SeasonOf[p]), Player(p), Team(TeamOf[p])}
    BY <2>1, <2>2 DEF Refers, Link
  <2> QED
    BY <1>1, <1>2, <1>3, <1>4, <2>3 DEF file
<1>11. CASE \E m \in file.matches : k = Match(m)
  <2>1. PICK m \in file.matches : k = Match(m)
    BY <1>11
  <2>2. Refers(d, k) = {Season(SeasonOf[m]), Team(TeamsOf[m][1]), Team(TeamsOf[m][2])}
    BY <2>1 DEF Refers, Match
  <2> QED
    BY <1>1, <1>2, <1>3, <1>5, <2>2 DEF file
<1> QED
  BY <1>1, <1>6, <1>7, <1>8, <1>9, <1>10, <1>11, FileShapes

(* A list entry of a file comes with its player. *)
LEMMA FileLinks ==
  ASSUME NEW f \in DOMAIN Files, NEW k \in KeysOf(Files[f]), k[1] = "link"
  PROVE  Player(k[3]) \in KeysOf(Files[f])
<1> DEFINE file == Files[f]
<1> HIDE DEF file
<1>1. k \in KeysOf(file)
  BY DEF file
<1>2. \E p \in file.players : k = Link(SeasonOf[p], p)
  BY <1>1, FileShapes DEF Season, Team, Profile, Player, Match
<1>3. PICK p \in file.players : k = Link(SeasonOf[p], p)
  BY <1>2
<1>4. k[3] = p
  BY <1>3 DEF Link
<1> QED
  BY <1>4 DEF KeysOf, file

(* What an import does to a row that is in its file. *)
LEMMA UpsertedRow ==
  ASSUME NEW name \in DOMAIN Files, NEW k \in KeysOf(Files[name]), NEW n \in Nat, db \in States
  PROVE  LET r == Upserted(k, name, n)
         IN  /\ r \in Records
             /\ k \notin There(db) => r = Row(n, FileVal(k, name)) /\ r.born = n
             /\ k \in There(db) => r.born = db[k].born
             /\ k[1] = "season" /\ k \in There(db) => r = db[k]
             /\ k[1] # "season" => r.val = FileVal(k, name)
<1>1. k \in Keys /\ DOMAIN db = Keys /\ (k \in There(db) <=> db[k] # NoRow)
  BY FileKeys DEF States, There
<1>2. FileVal(k, name) \in Vals
  BY FileValTypes
<1>3. CASE k \notin There(db)
  <2>1. Upserted(k, name, n) = [born |-> n, val |-> FileVal(k, name)]
    BY <1>1, <1>3 DEF Upserted, Row
  <2> QED
    BY <1>2, <1>3, <2>1 DEF Records, Row
<1>4. CASE k \in There(db) /\ k[1] = "season"
  <2>1. Upserted(k, name, n) = db[k] /\ db[k] \in Records
    BY <1>1, <1>4 DEF Upserted, States
  <2> QED
    BY <1>4, <2>1
<1>5. CASE k \in There(db) /\ k[1] # "season"
  <2>1. Upserted(k, name, n) = [db[k] EXCEPT !.val = FileVal(k, name)] /\ db[k] \in Records
    BY <1>1, <1>5 DEF Upserted, States
  <2> QED
    BY <1>2, <1>5, <2>1 DEF Records
<1> QED
  BY <1>3, <1>4, <1>5

(* An import keeps the invariant and records what UndoRestores relies on.  *)
LEMMA ImportSafe ==
  ASSUME HistoryInvariant, NEW name \in DOMAIN Files, ImportFile(name)
  PROVE  HistoryInvariant'
<1> DEFINE n == Len(batches) + 1
           keys == KeysOf(Files[name])
           after == [k \in Keys |-> IF k \in keys THEN Upserted(k, name, n) ELSE db[k]]
           upd == [k \in Keys |-> IF k \in (keys \cap There(db)) /\ k[1] \in Remembered THEN db[k] ELSE NoRow]
           b == [status |-> "completed", created |-> keys \ (keys \cap There(db)),
                 updated |-> upd, before |-> db, after |-> after]
<1>1. /\ db \in States /\ DOMAIN db = Keys /\ batches \in Seq(Batch) /\ undo \in [Undoers -> Nat]
      /\ edits \in Nat /\ lost \in BOOLEAN /\ n \in Nat
      /\ Whole(db) /\ Numbered /\ Recorded /\ Read /\ (lost \/ Reversible)
  BY DEF HistoryInvariant, HistoryTypeOK, States
<1>2. db' = after /\ batches' = Append(batches, b) /\ undo' = undo /\ edits' = edits /\ lost' = lost
  BY DEF ImportFile
<1>3. keys \subseteq Keys
  BY FileKeys
<1> HIDE DEF after, upd, b, n, keys
<1>4. DOMAIN after = Keys /\ \A k \in Keys : after[k] = IF k \in keys THEN Upserted(k, name, n) ELSE db[k]
  BY DEF after
<1>5. \A k \in keys : after[k] \in Records /\ after[k] # NoRow /\ k \in There(after)
  <2> SUFFICES ASSUME NEW k \in keys PROVE after[k] \in Records
    BY <1>3, <1>4, RowsAssumption DEF There
  <2> QED
    BY <1>1, <1>3, <1>4, UpsertedRow DEF keys
<1>6. after \in States
  BY <1>1, <1>4, <1>5 DEF States, after
<1>7. There(after) = There(db) \cup keys
  BY <1>1, <1>3, <1>4, <1>5 DEF There
<1>8. \A k \in There(db) : SameRow(after, db, k)
  <2> SUFFICES ASSUME NEW k \in There(db) PROVE after[k].born = db[k].born
    BY <1>7 DEF SameRow
  <2>1. k \in Keys
    BY <1>1 DEF There
  <2> QED
    BY <1>1, <1>4, <2>1, UpsertedRow DEF keys
<1>9. \A k \in keys \ There(db) : after[k].born = n
  BY <1>1, <1>3, <1>4, UpsertedRow DEF keys
<1>10. Whole(after)
  <2> SUFFICES ASSUME NEW k \in There(after) PROVE Refers(after, k) \subseteq There(after)
    BY DEF Whole
  <2>1. CASE k \in keys
    <3>1. k[1] \in {"player", "link"} => after[k].val = FileVal(k, name)
      BY <1>1, <1>3, <1>4, <2>1, UpsertedRow DEF keys
    <3>2. Refers(after, k) \subseteq keys
      BY <2>1, <3>1, FileWhole DEF keys
    <3> QED
      BY <1>7, <3>2
  <2>2. CASE k \notin keys
    <3>1. k \in There(db) /\ k \in Keys /\ after[k] = db[k]
      BY <1>1, <1>4, <1>7, <2>2 DEF There
    <3>2. Refers(after, k) = Refers(db, k)
      BY <3>1, RefersByKey
    <3> QED
      BY <1>1, <1>7, <3>1, <3>2 DEF Whole
  <2> QED
    BY <2>1, <2>2
<1>11. /\ upd \in States
       /\ \A k \in There(upd) : k \in keys /\ k \in There(db) /\ k[1] \in Remembered /\ upd[k] = db[k]
       /\ \A k \in keys : k \in There(db) /\ k[1] \in Remembered => k \in There(upd)
  <2>1. upd \in States
    BY <1>1 DEF upd, States
  <2>2. ASSUME NEW k \in There(upd) PROVE k \in keys /\ k \in There(db) /\ k[1] \in Remembered /\ upd[k] = db[k]
    BY DEF There, upd
  <2>3. ASSUME NEW k \in keys, k \in There(db), k[1] \in Remembered PROVE k \in There(upd)
    BY <1>3, <2>3 DEF There, upd
  <2> QED
    BY <2>1, <2>2, <2>3
<1>12. /\ b.status = "completed" /\ b.created = keys \ There(db)
       /\ b.updated = upd /\ b.before = db /\ b.after = after
  BY DEF b
<1>13. b \in Batch
  BY <1>1, <1>3, <1>6, <1>11 DEF b, Batch
<1>14. ImportOf(b, n)
  <2>1. Whole(b.before) /\ \A k \in There(b.before) : b.before[k].born < n
    <3>1. \A k \in There(db) : db[k].born \in Nat
      <4> SUFFICES ASSUME NEW k \in There(db) PROVE db[k].born \in Nat
        OBVIOUS
      <4>1. k \in Keys /\ db[k] # NoRow
        BY <1>1 DEF There
      <4> QED
        BY <1>1, <4>1 DEF States, Records
    <3> QED
      BY <1>1, <1>12, <3>1 DEF Numbered, n
  <2>2. \A k \in b.created : k \notin There(b.before) /\ k \in There(b.after) /\ b.after[k].born = n
    BY <1>7, <1>9, <1>12
  <2>3. \A k \in b.created : k[1] \notin Extras
    BY <1>12, FileKinds DEF keys
  <2>4. \A k \in Keys \ b.created : k \in There(b.after) <=> k \in There(b.before)
    BY <1>7, <1>12
  <2>5. ASSUME NEW k \in There(b.before)
        PROVE  /\ SameRow(b.after, b.before, k)
               /\ k \notin There(b.updated) /\ k[1] # "profile" => b.after[k] = b.before[k]
    <3>1. k \in There(db) /\ k \in Keys /\ SameRow(after, db, k)
      BY <1>1, <1>8, <1>12 DEF There
    <3>2. CASE k \notin keys
      BY <1>4, <1>12, <3>1, <3>2
    <3>3. CASE k \in keys /\ k[1] = "season"
      BY <1>1, <1>4, <1>12, <3>1, <3>3, UpsertedRow DEF keys
    <3>4. CASE k \in keys /\ k[1] # "season"
      <4>1. k[1] \in Remembered \cup {"profile"}
        BY <3>4, FileKinds DEF keys, Kinds, Extras, Remembered
      <4> QED
        BY <1>11, <1>12, <3>1, <3>4, <4>1
    <3> QED
      BY <3>2, <3>3, <3>4
  <2>6. ASSUME NEW k \in There(b.updated)
        PROVE  /\ k \in There(b.before) /\ b.updated[k] = b.before[k] /\ k[1] \in Remembered
               /\ k[1] = "link" => Player(k[3]) \in There(b.updated)
    <3>1. k \in keys /\ k \in There(db) /\ k[1] \in Remembered /\ upd[k] = db[k]
      BY <1>11, <1>12
    <3>2. CASE k[1] = "link"
      <4>1. Player(k[3]) \in keys
        BY <3>1, <3>2, FileLinks DEF keys
      <4>2. Player(k[3]) \in There(db)
        BY <1>1, <3>1, <3>2, RefersTeam DEF Whole
      <4>3. Player(k[3])[1] \in Remembered
        BY DEF Player, Remembered
      <4> QED
        BY <1>11, <1>12, <3>1, <4>1, <4>2, <4>3
    <3> QED
      BY <1>12, <3>1, <3>2
  <2> QED
    BY <2>1, <2>2, <2>3, <2>4, <2>5, <2>6 DEF ImportOf
<1>15. /\ batches' \in Seq(Batch) /\ Len(batches') = n
       /\ \A m \in DOMAIN batches : batches'[m] = batches[m] /\ m <= Len(batches)
       /\ batches'[n] = b
       /\ \A m \in DOMAIN batches' : m \in DOMAIN batches \/ m = n
  BY <1>1, <1>2, <1>13 DEF n
<1>16. HistoryTypeOK'
  BY <1>1, <1>2, <1>6, <1>15 DEF HistoryTypeOK
<1>17. Numbered'
  <2> SUFFICES ASSUME NEW k \in There(after) PROVE after[k].born <= n
    BY <1>2, <1>15 DEF Numbered
  <2>1. k \in Keys /\ after[k] \in Records
    BY <1>4, <1>6 DEF There, States
  <2>2. after[k].born \in Nat
    BY <2>1 DEF Records
  <2>3. CASE k \in There(db)
    BY <1>1, <1>8, <2>2, <2>3 DEF SameRow, Numbered, n
  <2>4. CASE k \notin There(db)
    BY <1>1, <1>7, <1>9, <2>4
  <2> QED
    BY <2>3, <2>4
<1>18. Recorded'
  BY <1>1, <1>14, <1>15 DEF Recorded
<1>19. Read'
  <2>1. \A u \in Undoers : undo[u] \in Nat /\ undo[u] <= Len(batches)
    BY <1>1 DEF Read
  <2> QED
    BY <1>1, <1>2, <1>15, <2>1 DEF Read, n
<1>20. lost' \/ Reversible'
  <2> SUFFICES ASSUME ~ lost, NEW m \in DOMAIN batches', batches'[m].status = "completed"
               PROVE  /\ \A k \in There(batches'[m].updated) : SameRow(after, batches'[m].updated, k)
                      /\ \A k \in There(batches'[m].before) : k[1] = "team" => SameRow(after, batches'[m].before, k)
    BY <1>2 DEF Reversible, Completed
  <2>1. CASE m \in DOMAIN batches
    <3>1. /\ m \in Completed /\ batches'[m] = batches[m]
          /\ \A k \in There(batches[m].updated) : SameRow(db, batches[m].updated, k)
          /\ \A k \in There(batches[m].before) : k[1] = "team" => SameRow(db, batches[m].before, k)
      BY <1>1, <1>15, <2>1 DEF Reversible, Completed
    <3>2. \A e : \A k : SameRow(db, e, k) => SameRow(after, e, k)
      BY <1>8 DEF SameRow
    <3> QED
      BY <3>1, <3>2
  <2>2. CASE m = n
    <3>1. \A k \in There(upd) : SameRow(after, upd, k)
      BY <1>8, <1>11 DEF SameRow
    <3> QED
      BY <1>8, <1>12, <1>15, <2>2, <3>1
  <2> QED
    BY <1>15, <2>1, <2>2
<1> QED
  BY <1>2, <1>10, <1>16, <1>17, <1>18, <1>19, <1>20 DEF HistoryInvariant

(* Among completed imports there is a last one. *)
LEMMA LastIsLast ==
  ASSUME batches \in Seq(Batch), Completed # {}
  PROVE  LastCompleted \in Completed /\ \A m \in Completed : m <= LastCompleted
<1> DEFINE R == OpToRel(<, Nat)
           T == {Len(batches) - m : m \in Completed}
<1>1. Len(batches) \in Nat /\ \A m \in Completed : m \in Nat /\ m <= Len(batches)
  BY DEF Completed
<1>2. T \subseteq Nat /\ T # {}
  BY <1>1
<1>3. IsWellFoundedOn(R, Nat)
  BY NatLessThanWellFounded
<1>4. PICK x \in T : \A y \in T : ~ (<<y, x>> \in R)
  <2> HIDE DEF R, T
  <2> QED
    BY <1>2, <1>3, WFMin
<1>5. \A y \in T : ~ (y < x)
  BY <1>2, <1>4 DEF OpToRel
<1>6. PICK n \in Completed : x = Len(batches) - n
  OBVIOUS
<1>7. ASSUME NEW m \in Completed PROVE n >= m
  <2>1. ~ (Len(batches) - m < Len(batches) - n)
    BY <1>5, <1>6
  <2> QED
    BY <1>1, <2>1
<1>8. \E z \in Completed : \A m \in Completed : z >= m
  BY <1>7
<1>9. LastCompleted \in Completed /\ \A m \in Completed : LastCompleted >= m
  <2> DEFINE S == Completed
  <2>1. LastCompleted = CHOOSE z \in S : \A m \in S : z >= m
    BY DEF LastCompleted, Max
  <2> HIDE DEF S
  <2>2. \E z \in S : \A m \in S : z >= m
    BY <1>8 DEF S
  <2>3. LastCompleted \in S /\ \A m \in S : LastCompleted >= m
    BY <2>1, <2>2
  <2> QED
    BY <2>3 DEF S
<1> QED
  BY <1>1, <1>9

(* What an undo request has read can be undone unless it throws. *)
LEMMA UndoReady ==
  ASSUME HistoryInvariant, NEW u \in Undoers, undo[u] # 0, CanPutBack(undo[u])
  PROVE  Ready(undo[u])
<1>1. undo[u] \in Nat /\ undo[u] <= Len(batches) /\ batches \in Seq(Batch)
  BY DEF HistoryInvariant, HistoryTypeOK, Read
<1>2. undo[u] \in DOMAIN batches
  BY <1>1
<1> QED
  BY <1>2 DEF HistoryInvariant, Recorded, Ready

(* An undo keeps the invariant: the last one leaves the earlier ones       *)
(* possible, since what hangs on the rows it deletes is newer than they.   *)
LEMMA UndoSafe ==
  ASSUME HistoryInvariant, NEW u \in Undoers, UndoLast(u)
  PROVE  HistoryInvariant'
<1> DEFINE n == undo[u]
           after == Undone(n)
<1>1. n # 0 /\ CanPutBack(n)
  BY DEF UndoLast
<1>2. /\ db' = after /\ batches' = [batches EXCEPT ![n].status = "undone"]
      /\ undo' = [undo EXCEPT ![u] = 0]
      /\ lost' = (lost \/ Completed = {} \/ n # LastCompleted)
      /\ edits' = edits
  BY DEF UndoLast
<1>3. Ready(n)
  BY <1>1, UndoReady
<1>4. Stage(after, n, AllKinds, Remembered)
  BY <1>3, UndoneStage
<1>5. /\ HistoryTypeOK /\ batches \in Seq(Batch) /\ n \in DOMAIN batches
      /\ undo \in [Undoers -> Nat] /\ edits \in Nat /\ lost \in BOOLEAN
      /\ Whole(db) /\ Numbered /\ Recorded /\ Read /\ (lost \/ Reversible)
  BY <1>3 DEF HistoryInvariant, HistoryTypeOK, Ready
<1> HIDE DEF n, after
<1>6. \A k \in There(after) : k \in There(db) /\ after[k].born = db[k].born
  <2>1. \A k \in There(after) : k \in There(db)
    BY <1>4 DEF Stage
  <2> QED
    BY <1>3, <1>4, <2>1, StageBorn
<1>7. batches[n] \in Batch
  BY <1>5
<1>8. /\ DOMAIN batches' = DOMAIN batches /\ Len(batches') = Len(batches)
      /\ \A m \in DOMAIN batches : m # n => batches'[m] = batches[m]
      /\ batches'[n] = [batches[n] EXCEPT !.status = "undone"]
  BY <1>2, <1>5
<1>9. batches' \in Seq(Batch)
  <2>1. [batches[n] EXCEPT !.status = "undone"] \in Batch
    BY <1>7 DEF Batch
  <2> QED
    BY <1>2, <1>5, <2>1
<1>10. /\ batches'[n].status = "undone"
       /\ batches'[n].created = batches[n].created /\ batches'[n].updated = batches[n].updated
       /\ batches'[n].before = batches[n].before /\ batches'[n].after = batches[n].after
  BY <1>7, <1>8 DEF Batch
<1>11. HistoryTypeOK'
  <2>1. undo' \in [Undoers -> Nat]
    BY <1>2, <1>5
  <2>2. lost' \in BOOLEAN
    BY <1>2, <1>5
  <2>3. db' \in States
    BY <1>2, <1>4 DEF Stage
  <2> QED
    BY <1>2, <1>5, <1>9, <2>1, <2>2, <2>3 DEF HistoryTypeOK
<1>12. Whole(db)'
  BY <1>2, <1>4 DEF Stage
<1>13. Numbered'
  BY <1>2, <1>5, <1>6, <1>8 DEF Numbered
<1>14. Recorded'
  <2>1. ImportOf(batches[n], n) => ImportOf(batches'[n], n)
    BY <1>10 DEF ImportOf
  <2>2. \A m \in DOMAIN batches : ImportOf(batches'[m], m)
    BY <1>5, <1>8, <2>1 DEF Recorded
  <2> QED
    BY <1>8, <2>2 DEF Recorded
<1>15. Read'
  <2>1. \A v \in Undoers : undo'[v] \in {0, undo[v]}
    BY <1>2, <1>5
  <2>2. \A v \in Undoers : undo[v] \in Nat /\ undo[v] <= Len(batches)
    BY <1>5 DEF Read
  <2>3. Len(batches) \in Nat
    BY <1>5
  <2> QED
    BY <1>8, <2>1, <2>2, <2>3 DEF Read
<1>16. lost' \/ Reversible'
  <2> SUFFICES ASSUME ~ lost', NEW m \in DOMAIN batches', batches'[m].status = "completed"
               PROVE  /\ \A k \in There(batches'[m].updated) : SameRow(after, batches'[m].updated, k)
                      /\ \A k \in There(batches'[m].before) : k[1] = "team" => SameRow(after, batches'[m].before, k)
    BY <1>2 DEF Reversible, Completed
  <2>1. Reversible /\ Completed # {} /\ n = LastCompleted
    BY <1>2, <1>5
  <2>2. m # n /\ m \in Completed /\ batches'[m] = batches[m]
    <3>1. m # n
      BY <1>10
    <3> QED
      BY <1>8, <3>1 DEF Completed
  <2>3. m < n /\ m \in Nat /\ n \in Nat
    <3>1. m <= n
      BY <1>5, <2>1, <2>2, LastIsLast
    <3>2. m \in Nat /\ n \in Nat
      BY <1>5, <1>8
    <3> QED
      BY <2>2, <3>1, <3>2
  <2> DEFINE b == batches[m]
  <2>4. /\ \A k \in There(b.updated) : SameRow(db, b.updated, k)
        /\ \A k \in There(b.before) : k[1] = "team" => SameRow(db, b.before, k)
    BY <2>1, <2>2 DEF Reversible
  <2>5. ImportOf(b, m)
    BY <1>5, <2>2 DEF Recorded, Completed
  <2> HIDE DEF b
  <2>6. /\ \A k \in There(b.before) : b.before[k].born < m
        /\ \A k \in There(b.updated) :
             /\ k \in There(b.before) /\ b.updated[k] = b.before[k] /\ k[1] \in Remembered
             /\ k[1] = "link" => Player(k[3]) \in There(b.updated)
    BY <2>5 DEF ImportOf
  <2>7. \A k \in There(b.updated) : k \in There(db) /\ db[k].born # n
    <3> SUFFICES ASSUME NEW k \in There(b.updated) PROVE k \in There(db) /\ db[k].born # n
      OBVIOUS
    <3>1. k \in There(db) /\ db[k].born = b.before[k].born /\ db[k].born < m
      BY <2>4, <2>6 DEF SameRow
    <3> QED
      BY <2>3, <3>1
  <2>8. ASSUME NEW k \in There(b.updated) PROVE SameRow(after, b.updated, k)
    <3>1. k \notin Gone(n)
      BY <2>7 DEF Gone
    <3>2. k[1] \in Remembered /\ (k[1] = "link" => Player(k[3]) \in There(b.updated))
      BY <2>6
    <3>3. k \in There(after)
      <4> SUFFICES ASSUME k \notin There(after) PROVE FALSE
        OBVIOUS
      <4>1. Hangs(k, n, AllKinds)
        BY <1>4, <2>7, <3>1 DEF Stage
      <4>2. PICK x \in Gone(n) :
              /\ x \in Refers(db, k)
              /\ \/ k[1] \in {"link", "lineup"} /\ x[1] \in {"player", "match"}
                 \/ k[1] \in {"registration", "approval"} /\ x[1] \in {"team", "season"}
        BY <4>1 DEF Hangs
      <4>3. k[1] = "link" /\ x[1] \in {"player", "match"}
        BY <3>2, <4>2 DEF Remembered
      <4>4. x[1] = "player"
        BY <4>2, <4>3, RefersKinds
      <4>5. x = Player(k[3])
        BY <4>2, <4>3, <4>4, RefersTeam
      <4> QED
        BY <2>7, <3>2, <4>3, <4>5 DEF Gone
    <3> QED
      BY <1>6, <2>4, <3>3 DEF SameRow
  <2>9. ASSUME NEW k \in There(b.before), k[1] = "team" PROVE SameRow(after, b.before, k)
    <3>1. k \in There(db) /\ db[k].born = b.before[k].born /\ db[k].born < m
      BY <2>4, <2>6, <2>9 DEF SameRow
    <3>2. k \notin Gone(n)
      BY <2>3, <3>1 DEF Gone
    <3>3. k \in There(after)
      BY <1>4, <2>9, <3>1, <3>2 DEF Stage, Hangs
    <3> QED
      BY <1>6, <2>4, <2>9, <3>3 DEF SameRow
  <2> QED
    BY <2>2, <2>8, <2>9 DEF b
<1> QED
  BY <1>11, <1>12, <1>13, <1>14, <1>15, <1>16 DEF HistoryInvariant

(* Reading the last batch, and an undo that throws, leave the rows alone. *)
LEMMA ReadSafe ==
  ASSUME HistoryInvariant, NEW u \in Undoers, ReadLast(u) \/ UndoThrows(u)
  PROVE  HistoryInvariant'
<1>1. /\ HistoryTypeOK /\ batches \in Seq(Batch) /\ undo \in [Undoers -> Nat]
      /\ Whole(db) /\ Numbered /\ Recorded /\ Read /\ (lost \/ Reversible)
  BY DEF HistoryInvariant, HistoryTypeOK
<1>2. db' = db /\ batches' = batches /\ edits' = edits /\ lost' = lost
  BY DEF ReadLast, UndoThrows
<1>3. PICK x \in Nat : x <= Len(batches) /\ undo' = [undo EXCEPT ![u] = x]
  <2>1. CASE ReadLast(u)
    <3>1. Completed # {} /\ undo' = [undo EXCEPT ![u] = LastCompleted]
      BY <2>1 DEF ReadLast
    <3>2. LastCompleted \in DOMAIN batches
      BY <1>1, <3>1, LastIsLast DEF Completed
    <3>3. LastCompleted \in Nat /\ LastCompleted <= Len(batches)
      BY <1>1, <3>2
    <3> QED
      BY <3>1, <3>3
  <2>2. CASE UndoThrows(u)
    <3>1. undo' = [undo EXCEPT ![u] = 0]
      BY <2>2 DEF UndoThrows
    <3>2. 0 \in Nat /\ 0 <= Len(batches)
      BY <1>1
    <3> QED
      BY <3>1, <3>2
  <2> QED
    BY <2>1, <2>2
<1>4. HistoryTypeOK'
  BY <1>1, <1>2, <1>3 DEF HistoryTypeOK
<1>5. Read'
  BY <1>1, <1>2, <1>3 DEF Read
<1>6. Whole(db)' /\ Numbered' /\ Recorded' /\ (lost' \/ Reversible')
  BY <1>1, <1>2 DEF Numbered, Recorded, Reversible, Completed
<1> QED
  BY <1>4, <1>5, <1>6 DEF HistoryInvariant

(* What staff do keeps the foreign keys, adds no row with the number of an *)
(* import to come, and notes the loss of a row that was updated.           *)
LEMMA StaffSafe ==
  ASSUME HistoryInvariant, NEW k \in Keys, Staff(k)
  PROVE  HistoryInvariant'
<1>1. /\ HistoryTypeOK /\ batches \in Seq(Batch) /\ undo \in [Undoers -> Nat]
      /\ db \in States /\ DOMAIN db = Keys /\ edits \in Nat /\ lost \in BOOLEAN
      /\ Whole(db) /\ Numbered /\ Recorded /\ Read /\ (lost \/ Reversible)
  BY DEF HistoryInvariant, HistoryTypeOK, States
<1>2. batches' = batches /\ undo' = undo /\ edits' = edits + 1
  BY DEF Staff
<1>3. Len(batches) \in Nat
  BY <1>1
<1>4. ASSUME db' \in States, Whole(db'), lost' \in BOOLEAN,
             \A j \in There(db') : db'[j].born <= Len(batches),
             lost' \/ Reversible'
      PROVE  HistoryInvariant'
  <2>1. HistoryTypeOK'
    BY <1>1, <1>2, <1>4 DEF HistoryTypeOK
  <2>2. Numbered' /\ Recorded' /\ Read'
    BY <1>1, <1>2, <1>4 DEF Numbered, Recorded, Read
  <2> QED
    BY <1>4, <2>1, <2>2 DEF HistoryInvariant
<1>5. ASSUME \A n \in Completed : \A j :
               \/ j \in There(batches[n].updated) /\ SameRow(db, batches[n].updated, j)
               \/ j \in There(batches[n].before) /\ j[1] = "team" /\ SameRow(db, batches[n].before, j)
               => j \in There(db') /\ db'[j].born = db[j].born,
             ~ lost
      PROVE  Reversible'
  <2>1. Reversible
    BY <1>1, <1>5
  <2> SUFFICES ASSUME NEW n \in Completed
               PROVE  /\ \A j \in There(batches[n].updated) : SameRow(db', batches[n].updated, j)
                      /\ \A j \in There(batches[n].before) : j[1] = "team" => SameRow(db', batches[n].before, j)
    BY <1>2 DEF Reversible, Completed
  <2>2. /\ \A j \in There(batches[n].updated) : SameRow(db, batches[n].updated, j)
        /\ \A j \in There(batches[n].before) : j[1] = "team" => SameRow(db, batches[n].before, j)
    BY <2>1 DEF Reversible
  <2>3. ASSUME NEW j \in There(batches[n].updated) PROVE SameRow(db', batches[n].updated, j)
    BY <1>5, <2>2 DEF SameRow
  <2>4. ASSUME NEW j \in There(batches[n].before), j[1] = "team" PROVE SameRow(db', batches[n].before, j)
    BY <1>5, <2>2, <2>4 DEF SameRow
  <2> QED
    BY <2>3, <2>4
<1>6. CASE EditMatch(k)
  <2>1. k[1] = "match" /\ db[k] # NoRow /\ db' = [db EXCEPT ![k].val = "edited"] /\ lost' = lost
    BY <1>6 DEF EditMatch
  <2>2. db[k] \in Records /\ db' = [db EXCEPT ![k] = [db[k] EXCEPT !.val = "edited"]]
    BY <1>1, <2>1 DEF States
  <2>3. [db[k] EXCEPT !.val = "edited"] \in Records /\ [db[k] EXCEPT !.val = "edited"].born = db[k].born
    BY <2>2 DEF Records, Vals
  <2>4. db' \in States /\ DOMAIN db' = Keys
    BY <1>1, <2>2, <2>3 DEF States
  <2>5. There(db') = There(db) /\ \A j \in There(db) : db'[j].born = db[j].born /\ (j # k => db'[j] = db[j])
    BY <1>1, <2>1, <2>2, <2>3, <2>4, RowsAssumption DEF There
  <2>6. Whole(db')
    <3> SUFFICES ASSUME NEW j \in There(db') PROVE Refers(db', j) \subseteq There(db')
      BY DEF Whole
    <3>1. j \in There(db) /\ (j[1] \in {"player", "link"} => db'[j].val = db[j].val)
      BY <2>1, <2>5
    <3>2. Refers(db', j) = Refers(db, j)
      BY <3>1, RefersByKey
    <3> QED
      BY <1>1, <2>5, <3>1, <3>2 DEF Whole
  <2>7. \A j \in There(db') : db'[j].born <= Len(batches)
    BY <1>1, <2>5 DEF Numbered
  <2>8. lost' \/ Reversible'
    BY <1>5, <2>1, <2>5 DEF SameRow
  <2> QED
    BY <1>1, <1>4, <2>1, <2>4, <2>6, <2>7, <2>8
<1>7. CASE AddRow(k)
  <2>1. /\ k \in DOMAIN Strangers /\ db[k] = NoRow /\ lost' = lost
        /\ db' = [db EXCEPT ![k] = Row(0, Strangers[k])] /\ Refers(db', k) \subseteq There(db)
    BY <1>7 DEF AddRow
  <2>2. Row(0, Strangers[k]) \in Records /\ Row(0, Strangers[k]).born = 0
    BY <2>1 DEF Row, Records, Vals
  <2>3. db' \in States /\ DOMAIN db' = Keys
    BY <1>1, <2>1, <2>2 DEF States
  <2>4. /\ k \notin There(db) /\ There(db') = There(db) \cup {k} /\ db'[k].born = 0
        /\ \A j \in There(db) : db'[j] = db[j]
    BY <1>1, <2>1, <2>2, <2>3, RowsAssumption DEF There
  <2>5. Whole(db')
    <3> SUFFICES ASSUME NEW j \in There(db') PROVE Refers(db', j) \subseteq There(db')
      BY DEF Whole
    <3>1. CASE j = k
      BY <2>1, <2>4, <3>1
    <3>2. CASE j \in There(db)
      <4>1. Refers(db', j) = Refers(db, j)
        BY <2>4, <3>2, RefersByKey
      <4> QED
        BY <1>1, <2>4, <3>2, <4>1 DEF Whole
    <3> QED
      BY <2>4, <3>1, <3>2
  <2>6. \A j \in There(db') : db'[j].born <= Len(batches)
    BY <1>1, <1>3, <2>4 DEF Numbered
  <2>7. lost' \/ Reversible'
    BY <1>5, <2>1, <2>4 DEF SameRow
  <2> QED
    BY <1>1, <1>4, <2>1, <2>3, <2>5, <2>6, <2>7
<1>8. CASE RemoveForGood(k)
  <2>1. /\ k[1] \in {"link", "season"} /\ db' = Cascade(db, {k})
        /\ lost' = (lost \/ \E n \in DOMAIN batches :
                      \E o \in There(batches[n].updated) : db[o] # NoRow /\ db'[o] = NoRow)
    BY <1>8 DEF RemoveForGood
  <2>2. /\ db' \in States /\ DOMAIN db' = Keys
        /\ \A j \in Keys : db'[j] \in {db[j], NoRow}
    BY <1>1, <2>1, CascadeTypes DEF States
  <2>3. Whole(db')
    BY <1>1, <2>1, CascadeWhole
  <2>4. \A j \in There(db') : j \in There(db) /\ db'[j] = db[j]
    BY <1>1, <2>2 DEF There
  <2>5. \A j \in There(db') : db'[j].born <= Len(batches)
    BY <1>1, <2>4 DEF Numbered
  <2>6. lost' \in BOOLEAN
    BY <1>1, <2>1
  <2>7. ASSUME ~ lost' PROVE Reversible'
    <3>1. ~ lost /\ \A n \in DOMAIN batches : \A o \in There(batches[n].updated) : db[o] = NoRow \/ db'[o] # NoRow
      BY <2>1, <2>7
    <3>2. ASSUME NEW n \in Completed, NEW j \in There(batches[n].updated), SameRow(db, batches[n].updated, j)
          PROVE  j \in There(db') /\ db'[j].born = db[j].born
      <4>1. n \in DOMAIN batches /\ j \in Keys /\ db[j] # NoRow
        BY <1>1, <3>2 DEF Completed, SameRow, There
      <4>2. db'[j] # NoRow
        BY <3>1, <4>1
      <4> QED
        BY <2>2, <4>1, <4>2 DEF There
    <3>3. ASSUME NEW n \in Completed, NEW j, j[1] = "team", SameRow(db, batches[n].before, j)
          PROVE  j \in There(db') /\ db'[j].born = db[j].born
      <4>1. j \in Keys /\ db[j] # NoRow
        BY <1>1, <3>3 DEF SameRow, There
      <4>2. db'[j] = db[j]
        BY <2>1, <3>3, <4>1, CascadeSources
      <4> QED
        BY <2>2, <4>1, <4>2 DEF There
    <3> QED
      BY <1>5, <3>1, <3>2, <3>3
  <2> QED
    BY <1>4, <2>2, <2>3, <2>5, <2>6, <2>7
<1> QED
  BY <1>6, <1>7, <1>8 DEF Staff

(* The invariant holds at the start and every step keeps it. *)
LEMMA HistoryStarts == ASSUME HistoryInit PROVE HistoryInvariant
<1>1. /\ db = OldRows /\ batches = << >> /\ undo = [u \in Undoers |-> 0] /\ edits = 0 /\ lost = FALSE
  BY DEF HistoryInit
<1>2. OldRows \in States /\ \A k \in There(OldRows) : OldRows[k].born = 0
  <2>1. \A k \in DOMAIN Old : Row(0, Old[k]) \in Records /\ Row(0, Old[k]).born = 0
    BY DEF Row, Records, Vals
  <2>2. OldRows \in States
    BY <2>1 DEF OldRows, States
  <2>3. \A k \in There(OldRows) : OldRows[k].born = 0
    BY <2>1 DEF OldRows, There
  <2> QED
    BY <2>2, <2>3
<1>3. HistoryTypeOK
  <2>1. batches \in Seq(Batch)
    BY <1>1
  <2>2. undo \in [Undoers -> Nat]
    BY <1>1
  <2> QED
    BY <1>1, <1>2, <2>1, <2>2 DEF HistoryTypeOK
<1>4. Whole(db)
  BY <1>1, RowsAssumption
<1>5. Numbered /\ Recorded /\ Read
  BY <1>1, <1>2 DEF Numbered, Recorded, Read
<1>6. Reversible
  BY <1>1 DEF Reversible, Completed
<1> QED
  BY <1>3, <1>4, <1>5, <1>6 DEF HistoryInvariant

(* Every step keeps the invariant. *)
LEMMA HistorySteps ==
  ASSUME HistoryInvariant, [HistoryNext]_historyVars
  PROVE  HistoryInvariant'
<1>1. ASSUME NEW name \in DOMAIN Files, ImportFile(name) PROVE HistoryInvariant'
  BY <1>1, ImportSafe
<1>2. ASSUME NEW u \in Undoers, ReadLast(u) \/ UndoThrows(u) PROVE HistoryInvariant'
  BY <1>2, ReadSafe
<1>3. ASSUME NEW u \in Undoers, UndoLast(u) PROVE HistoryInvariant'
  BY <1>3, UndoSafe
<1>4. ASSUME NEW k \in Keys, Staff(k) PROVE HistoryInvariant'
  BY <1>4, StaffSafe
<1>5. CASE UNCHANGED historyVars
  BY <1>5 DEF historyVars, HistoryInvariant, HistoryTypeOK, Numbered, Recorded, Read, Reversible, Completed
<1> QED
  BY <1>1, <1>2, <1>3, <1>4, <1>5 DEF HistoryNext

(* The invariant holds in every reachable state. *)
LEMMA HistoryIsSafe == HistorySpec => []HistoryInvariant
<1>1. HistoryInit => HistoryInvariant
  BY HistoryStarts
<1>2. HistoryInvariant /\ [HistoryNext]_historyVars => HistoryInvariant'
  BY HistorySteps
<1> QED
  BY <1>1, <1>2, PTL DEF HistorySpec

(* What an import updated, and the teams it gives players back to, are     *)
(* there when it is the last one: undoLastImport (import.service.ts) does  *)
(* not throw, unless staff deleted such a row or an undo that read its     *)
(* batch too early has run.                                                *)
THEOREM UndoStaysPossible == HistorySpec => []UndoIsPossible
<1>1. ASSUME HistoryInvariant PROVE UndoIsPossible
  <2> DEFINE n == LastCompleted
             b == batches[n]
  <2> SUFFICES ASSUME Completed # {}, ~ lost PROVE CanPutBack(n)
    BY <1>1 DEF UndoIsPossible, HistoryInvariant
  <2>1. batches \in Seq(Batch) /\ Recorded /\ Reversible
    BY <1>1 DEF HistoryInvariant, HistoryTypeOK
  <2>2. n \in Completed
    BY <2>1, LastIsLast
  <2>3. ImportOf(b, n)
    BY <2>1, <2>2 DEF Recorded, Completed
  <2>4. /\ \A k \in There(b.updated) : SameRow(db, b.updated, k)
        /\ \A k \in There(b.before) : k[1] = "team" => SameRow(db, b.before, k)
    BY <2>1, <2>2 DEF Reversible
  <2> HIDE DEF n, b
  <2>5. ASSUME NEW k \in There(b.updated), k[1] \in {"player", "link"}
        PROVE  SameRow(db, b.before, Team(b.updated[k].val))
    <3>1. Whole(b.before) /\ k \in There(b.before) /\ b.updated[k] = b.before[k]
      BY <2>3 DEF ImportOf
    <3>2. Team(b.before[k].val) \in Refers(b.before, k)
      BY <2>5, RefersTeam
    <3>3. Team(b.updated[k].val) \in There(b.before)
      BY <3>1, <3>2 DEF Whole
    <3>4. Team(b.updated[k].val)[1] = "team"
      BY DEF Team
    <3> QED
      BY <2>4, <3>3, <3>4
  <2> QED
    BY <2>4, <2>5 DEF CanPutBack, b
<1> QED
  BY <1>1, HistoryIsSafe, PTL

(* The deletions of undoLastImport take nothing but rows its import        *)
(* created, the list entries and line-ups that hang on a player or a match *)
(* it created, and the registrations and approvals that hang on a team or  *)
(* a season it created, whatever was imported and edited in between.       *)
THEOREM UndoSparesBystanders == HistorySpec => UndoTakesNoBystander
<1> DEFINE Spares ==
      \A u \in Undoers : undo[u] # 0 /\ undo'[u] = 0 =>
        \A k \in There(db) \ There(db') :
          \/ k \in batches[undo[u]].created /\ db[k].born = undo[u]
          \/ /\ k[1] \in {"link", "lineup", "registration", "approval"}
             /\ Refers(db, k) \cap batches[undo[u]].created # {}
<1>1. ASSUME HistoryInvariant, [HistoryNext]_historyVars PROVE Spares
  <2> SUFFICES ASSUME NEW u \in Undoers, undo[u] # 0, undo'[u] = 0, NEW k \in There(db) \ There(db')
               PROVE  \/ k \in batches[undo[u]].created /\ db[k].born = undo[u]
                      \/ /\ k[1] \in {"link", "lineup", "registration", "approval"}
                         /\ Refers(db, k) \cap batches[undo[u]].created # {}
    OBVIOUS
  <2>1. undo \in [Undoers -> Nat]
    BY <1>1 DEF HistoryInvariant, HistoryTypeOK
  <2>2. undo' # undo /\ db' # db
    OBVIOUS
  <2>3. PICK v \in Undoers : UndoLast(v)
    BY <1>1, <2>2 DEF HistoryNext, historyVars, ImportFile, ReadLast, UndoThrows, Staff
  <2>4. v = u
    BY <2>1, <2>3 DEF UndoLast
  <2>5. CanPutBack(undo[u]) /\ db' = Undone(undo[u])
    BY <2>3, <2>4 DEF UndoLast
  <2>6. Stage(db', undo[u], AllKinds, Remembered)
    BY <1>1, <2>5, UndoReady, UndoneStage
  <2> QED
    BY <2>6 DEF Stage, Gone, Hangs
<1> QED
  BY <1>1, HistoryIsSafe, PTL DEF HistorySpec, UndoTakesNoBystander

(* The rows are as the import left them: then they are brought back.       *)
LEMMA RestoresRow ==
  ASSUME NEW n, Ready(n), Same(db, batches[n].after)
  PROVE  Same(Undone(n), batches[n].before)
<1> DEFINE b == batches[n]
           u == Undone(n)
<1>1. /\ Stage(u, n, AllKinds, Remembered)
      /\ \A k \in Gone(n) : k \in There(u) => Used(u, k)
  BY UndoneStage
<1>2. /\ b.created \subseteq Keys
      /\ DOMAIN db = Keys /\ DOMAIN b.updated = Keys /\ DOMAIN b.before = Keys /\ DOMAIN b.after = Keys
  BY BatchTypes, StateDomain
<1>3. ImportOf(b, n) /\ Same(db, b.after)
  BY DEF Ready
<1> HIDE DEF b, u
<1>4. /\ Whole(b.before)
      /\ \A k \in b.created : k \notin There(b.before) /\ k \in There(b.after) /\ b.after[k].born = n
      /\ \A k \in b.created : k[1] \notin Extras
      /\ \A k \in Keys \ b.created : k \in There(b.after) <=> k \in There(b.before)
      /\ \A k \in There(b.before) :
           /\ SameRow(b.after, b.before, k)
           /\ k \notin There(b.updated) /\ k[1] # "profile" => b.after[k] = b.before[k]
      /\ \A k \in There(b.updated) : k \in There(b.before) /\ b.updated[k] = b.before[k] /\ k[1] \in Remembered
  BY <1>3 DEF ImportOf
<1>5. DOMAIN u = Keys
  BY <1>1, StateDomain DEF Stage
<1>6. \A k \in Keys : (k \in There(db) <=> k \in There(b.after)) /\ (k \in There(db) => db[k].born = b.after[k].born)
                      /\ (k[1] # "profile" => db[k] = b.after[k])
  <2> SUFFICES ASSUME NEW k \in Keys
               PROVE  /\ k \in There(db) <=> k \in There(b.after)
                      /\ k \in There(db) => db[k].born = b.after[k].born
                      /\ k[1] # "profile" => db[k] = b.after[k]
    OBVIOUS
  <2>1. db[k] = b.after[k] \/ (k[1] = "profile" /\ SameRow(db, b.after, k))
    BY <1>3 DEF Same
  <2>2. CASE db[k] = b.after[k]
    BY <1>2, <2>2 DEF There
  <2>3. CASE k[1] = "profile" /\ SameRow(db, b.after, k)
    BY <2>3 DEF SameRow
  <2> QED
    BY <2>1, <2>2, <2>3
<1>7. ASSUME NEW k \in b.created PROVE k \in Gone(n)
  BY <1>2, <1>4, <1>6 DEF Gone, b
(* What stays and was not created is what it was. *)
<1>8. ASSUME NEW k \in There(u), k \notin b.created
      PROVE  /\ k \in There(b.before) /\ k \in Keys
             /\ k[1] # "profile" => u[k] = b.before[k]
             /\ k[1] = "profile" => SameRow(u, b.before, k)
  <2>1. /\ k \in Keys /\ k \in There(db)
        /\ u[k] = IF k \in There(b.updated) /\ k[1] \in Remembered THEN b.updated[k] ELSE db[k]
    BY <1>1, <1>5 DEF Stage, There, b
  <2>2. k \in There(b.before)
    BY <1>4, <1>6, <1>8, <2>1
  <2>3. CASE k \in There(b.updated)
    BY <1>4, <1>8, <2>1, <2>2, <2>3 DEF Remembered
  <2>4. CASE k \notin There(b.updated) /\ k[1] # "profile"
    BY <1>4, <1>6, <2>1, <2>2, <2>4
  <2>5. CASE k \notin There(b.updated) /\ k[1] = "profile"
    BY <1>4, <1>6, <1>8, <2>1, <2>2, <2>5 DEF SameRow
  <2> QED
    BY <2>1, <2>2, <2>3, <2>4, <2>5
<1>9. ASSUME NEW k \in b.created PROVE k \notin There(u)
  <2> SUFFICES ASSUME k \in There(u) PROVE FALSE
    OBVIOUS
  <2>1. PICK j : j \in There(u) /\ k \in Refers(u, j)
    BY <1>1, <1>7 DEF Referring, Used
  <2>2. j[1] \notin {"team", "season"}
    BY <2>1, RefersKinds
  <2>3. j \notin b.created
    <3> SUFFICES ASSUME j \in b.created PROVE FALSE
      OBVIOUS
    <3>1. j \in Gone(n) /\ j[1] \notin Extras /\ j[1] \in Kinds
      BY <1>2, <1>4, <1>7, KeyKinds
    <3>2. j[1] \in AllKinds
      BY <3>1 DEF Kinds, AllKinds, Extras
    <3> QED
      BY <1>1, <2>1, <2>2, <3>1, <3>2 DEF Stage
  <2>4. Refers(u, j) = Refers(b.before, j)
    BY <1>8, <2>1, <2>3, RefersByKey
  <2>5. Refers(b.before, j) \subseteq There(b.before)
    BY <1>4, <1>8, <2>1, <2>3 DEF Whole
  <2> QED
    BY <1>4, <2>1, <2>4, <2>5
(* What was there is not taken along: it points to nothing created. *)
<1>10. ASSUME NEW k \in There(b.before) PROVE k \in There(u)
  <2>1. k \in Keys /\ k \notin b.created /\ k \in There(db)
    BY <1>2, <1>4, <1>6 DEF There
  <2>2. k \notin Gone(n)
    BY <2>1 DEF Gone, b
  <2> SUFFICES ASSUME k \notin There(u) PROVE FALSE
    OBVIOUS
  <2>3. Hangs(k, n, AllKinds)
    BY <1>1, <2>1, <2>2 DEF Stage
  <2>4. PICK x \in Gone(n) :
          x \in Refers(db, k) /\ (x[1] # "team" \/ k[1] \in {"registration", "approval"})
    BY <2>3 DEF Hangs
  <2>5. x \in Refers(b.before, k)
    BY <2>4, RefersButTeam, RefersByKey
  <2>6. x \in There(b.before)
    BY <1>4, <2>5 DEF Whole
  <2> QED
    BY <1>4, <2>6 DEF Gone, b
<1>11. ASSUME NEW k \in Keys PROVE u[k] = b.before[k] \/ (k[1] = "profile" /\ SameRow(u, b.before, k))
  <2>1. CASE k \in There(u)
    BY <1>8, <1>9, <2>1
  <2>2. CASE k \notin There(u)
    <3>1. k \notin There(b.before)
      BY <1>10, <2>2
    <3> QED
      BY <1>2, <1>5, <2>2, <3>1 DEF There
  <2> QED
    BY <2>1, <2>2
<1> QED
  BY <1>11 DEF Same, u, b

(* Undoing the import that left the rows as they are brings back what was  *)
(* there before it: nothing it created remains, and undo of one import     *)
(* after the other goes back step by step.                                 *)
THEOREM UndoBringsBack == HistorySpec => UndoRestores
<1> DEFINE Restores ==
      \A n \in DOMAIN batches :
        /\ batches[n].status = "completed" /\ batches'[n].status = "undone"
        /\ Same(db, batches[n].after)
        => Same(db', batches[n].before)
<1>1. ASSUME HistoryInvariant, [HistoryNext]_historyVars PROVE Restores
  <2> SUFFICES ASSUME NEW n \in DOMAIN batches, batches[n].status = "completed", batches'[n].status = "undone",
                      Same(db, batches[n].after)
               PROVE  Same(db', batches[n].before)
    OBVIOUS
  <2>1. batches \in Seq(Batch) /\ undo \in [Undoers -> Nat]
    BY <1>1 DEF HistoryInvariant, HistoryTypeOK
  <2>2. batches'[n] # batches[n]
    OBVIOUS
  <2>3. ~ \E name \in DOMAIN Files : ImportFile(name)
    <3> SUFFICES ASSUME NEW name \in DOMAIN Files, ImportFile(name) PROVE FALSE
      OBVIOUS
    <3>1. \E x : batches' = Append(batches, x)
      BY DEF ImportFile
    <3> QED
      BY <2>1, <2>2, <3>1
  <2>4. PICK u \in Undoers : UndoLast(u)
    BY <1>1, <2>2, <2>3 DEF HistoryNext, historyVars, ReadLast, UndoThrows, Staff
  <2>5. /\ undo[u] # 0 /\ CanPutBack(undo[u]) /\ db' = Undone(undo[u])
        /\ batches' = [batches EXCEPT ![undo[u]].status = "undone"]
    BY <2>4 DEF UndoLast
  <2>6. n = undo[u]
    BY <2>1, <2>2, <2>5
  <2>7. Ready(n)
    BY <1>1, <2>5, <2>6, UndoReady
  <2> QED
    BY <2>5, <2>6, <2>7, RestoresRow
<1> QED
  BY <1>1, HistoryIsSafe, PTL DEF HistorySpec, UndoRestores
=============================================================================
