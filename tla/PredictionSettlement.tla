------------------------- MODULE PredictionSettlement -------------------------
(***************************************************************************)
(* The predictions on one match: members submit a choice, staff edit the   *)
(* match, and the edits settle or void the predictions                     *)
(* (src/src/prediction/prediction.service.ts and the transactions of       *)
(* src/src/match/match.service.ts that call it).                           *)
(*                                                                         *)
(* Transactions run at READ COMMITTED.  An edit locks the match row from   *)
(* its UPDATE on, and nobody sees its writes before it commits; settling   *)
(* reads the predictions and then writes them one by one by id, so what it *)
(* has read may be old when it writes.  A submission checks the match and  *)
(* then upserts, outside any transaction.                                  *)
(***************************************************************************)
EXTENDS Integers, FiniteSets

CONSTANTS
  Users,          \* approved members with a student id
  Edits,          \* concurrent PATCH handlers of the match
  Recalcs,        \* concurrent manual recalculations
  NoOne

Choices == {"HOME_WIN", "AWAY_WIN"}      \* and DRAW, which behaves alike
MatchStates == {"scheduled", "ongoing", "finished", "cancelled"}
Settled == {"CORRECT", "WRONG"}
Award == 3

ASSUME NoOneAssumption == NoOne \notin Edits

\* An edit and a recalculation are handlers of different endpoints.
ASSUME HandlersAssumption == Edits \cap Recalcs = {}

VARIABLES
  \* the match
  status, result, deleted,
  closed,                    \* less than five minutes before the kick-off
  lock,                      \* the edit that holds the row
  \* the predictions
  choice, pstatus, points,
  late,                      \* history: submitted after the match stopped accepting
  overtaken,                 \* history: a recalculation wrote by what it had read too early
  \* handlers
  spc, schoice,              \* submitPrediction
  epc, estatus, eresult,     \* update
  rpc, rresult,              \* recalculateMatchPredictions
  batch                      \* what a settlement has read: user -> choice

matchVars   == <<status, result, deleted, closed, lock>>
predVars    == <<choice, pstatus, points, late>>
submitVars  == <<spc, schoice>>
editVars    == <<epc, estatus, eresult>>
recalcVars  == <<rpc, rresult, overtaken>>
vars == <<matchVars, predVars, submitVars, editVars, recalcVars, batch>>

Batches == UNION {[us -> Choices] : us \in SUBSET Users}
None == [u \in {} |-> "HOME_WIN"]

TypeOK ==
  /\ status \in MatchStates /\ result \in Choices
  /\ deleted \in BOOLEAN /\ closed \in BOOLEAN
  /\ lock \in Edits \cup {NoOne}
  /\ choice \in [Users -> Choices]
  /\ pstatus \in [Users -> Settled \cup {"NONE", "PENDING", "VOID"}]
  /\ points \in [Users -> {0, Award}]
  /\ late \in [Users -> BOOLEAN]
  /\ spc \in [Users -> {"idle", "checked"}] /\ schoice \in [Users -> Choices]
  /\ epc \in [Edits -> {"idle", "read", "locked"}]
  /\ estatus \in [Edits -> MatchStates \cup {"KEEP"}] /\ eresult \in [Edits -> Choices]
  /\ rpc \in [Recalcs -> {"idle", "begun", "read"}] /\ rresult \in [Recalcs -> Choices]
  /\ overtaken \in BOOLEAN
  /\ batch \in [Edits \cup Recalcs -> Batches]

Init ==
  /\ status = "scheduled" /\ result = "HOME_WIN" /\ deleted = FALSE /\ closed = FALSE
  /\ lock = NoOne
  /\ choice = [u \in Users |-> "HOME_WIN"]
  /\ pstatus = [u \in Users |-> "NONE"]
  /\ points = [u \in Users |-> 0]
  /\ late = [u \in Users |-> FALSE]
  /\ spc = [u \in Users |-> "idle"] /\ schoice = [u \in Users |-> "HOME_WIN"]
  /\ epc = [e \in Edits |-> "idle"]
  /\ estatus = [e \in Edits |-> "KEEP"] /\ eresult = [e \in Edits |-> "HOME_WIN"]
  /\ rpc = [x \in Recalcs |-> "idle"] /\ rresult = [x \in Recalcs |-> "HOME_WIN"]
  /\ overtaken = FALSE
  /\ batch = [h \in Edits \cup Recalcs |-> None]

-----------------------------------------------------------------------------
(***************************************************************************)
(* submitPrediction                                                        *)
(***************************************************************************)

Open == status = "scheduled" /\ ~deleted /\ ~closed

CheckMatch(u, c) ==
  /\ spc[u] = "idle" /\ Open
  /\ spc' = [spc EXCEPT ![u] = "checked"]
  /\ schoice' = [schoice EXCEPT ![u] = c]
  /\ UNCHANGED <<matchVars, predVars, editVars, recalcVars, batch>>

\* Creates the prediction or resets it, whatever has become of it.
Upsert(u) ==
  /\ spc[u] = "checked"
  /\ choice' = [choice EXCEPT ![u] = schoice[u]]
  /\ pstatus' = [pstatus EXCEPT ![u] = "PENDING"]
  /\ points' = [points EXCEPT ![u] = 0]
  /\ late' = [late EXCEPT ![u] = status # "scheduled" \/ deleted \/ lock # NoOne]
  /\ spc' = [spc EXCEPT ![u] = "idle"]
  /\ schoice' = [schoice EXCEPT ![u] = "HOME_WIN"]
  /\ UNCHANGED <<matchVars, editVars, recalcVars, batch>>

-----------------------------------------------------------------------------
(***************************************************************************)
(* settleMatchPredictions and voidMatchPredictions                         *)
(***************************************************************************)

\* Mutant: what is settled once is never settled again.
ToSettlePending == [u \in {v \in Users : pstatus[v] = "PENDING"} |-> choice[u]]

\* The settlement reads everything that is not void.
ToSettle == [u \in {v \in Users : pstatus[v] \in Settled \cup {"PENDING"}} |-> choice[u]]

\* Row by row, by id: correct if the choice that was read is the outcome.
Settle(read, outcome) ==
  LET right == {u \in DOMAIN read : read[u] = outcome} IN
  /\ pstatus' = [u \in Users |-> IF u \in right THEN "CORRECT"
                                 ELSE IF u \in DOMAIN read THEN "WRONG" ELSE pstatus[u]]
  /\ points' = [u \in Users |-> IF u \in right THEN Award
                                ELSE IF u \in DOMAIN read THEN 0 ELSE points[u]]

\* Mutant: settled predictions are not voided.
VoidPending ==
  /\ pstatus' = [u \in Users |-> IF pstatus[u] = "PENDING" THEN "VOID" ELSE pstatus[u]]
  /\ UNCHANGED points

VoidAll ==
  /\ pstatus' = [u \in Users |-> IF pstatus[u] = "NONE" THEN "NONE" ELSE "VOID"]
  /\ points' = [u \in Users |-> 0]

\* The staff endpoint voids outside any transaction.
VoidPredictions ==
  /\ \E u \in Users : pstatus[u] \notin {"NONE", "VOID"}
  /\ VoidAll
  /\ UNCHANGED <<matchVars, choice, late, submitVars, editVars, recalcVars, batch>>

-----------------------------------------------------------------------------
(***************************************************************************)
(* update.  The score written is always computed: from the events or score *)
(* of the request, or else from the row as it was first read (settling by  *)
(* goal events is the same with the events as the score).                  *)
(***************************************************************************)

BeginEdit(e, s, r) ==
  /\ epc[e] = "idle"
  /\ epc' = [epc EXCEPT ![e] = "read"]
  /\ estatus' = [estatus EXCEPT ![e] = s]
  /\ eresult' = [eresult EXCEPT ![e] = IF r = "KEEP" THEN result ELSE r]
  /\ UNCHANGED <<matchVars, predVars, submitVars, recalcVars, batch>>

NewStatus(e) == IF estatus[e] = "KEEP" THEN status ELSE estatus[e]

\* UPDATE of the match row, then the settlement's read if it is now finished.
LockMatch(e) ==
  /\ epc[e] = "read" /\ lock = NoOne
  /\ lock' = e
  /\ epc' = [epc EXCEPT ![e] = "locked"]
  /\ batch' = [batch EXCEPT ![e] =
                 IF NewStatus(e) = "finished" /\ ~deleted THEN ToSettle ELSE None]
  /\ UNCHANGED <<status, result, deleted, closed, predVars, submitVars,
                 estatus, eresult, recalcVars>>

EndEdit(e) ==
  /\ lock' = NoOne
  /\ epc' = [epc EXCEPT ![e] = "idle"]
  /\ estatus' = [estatus EXCEPT ![e] = "KEEP"]
  /\ eresult' = [eresult EXCEPT ![e] = "HOME_WIN"]
  /\ batch' = [batch EXCEPT ![e] = None]
  /\ UNCHANGED <<deleted, choice, late, submitVars, recalcVars>>

\* A new match date may reopen the match for predictions.
CommitEdit(e, newDate) ==
  /\ epc[e] = "locked"
  /\ status' = NewStatus(e)
  /\ result' = eresult[e]
  /\ closed' = (closed /\ ~newDate)
  /\ IF NewStatus(e) = "cancelled" THEN VoidAll ELSE Settle(batch[e], eresult[e])
  /\ EndEdit(e)

\* Time-out, deadlock victim, or a later statement that fails.
AbortEdit(e) ==
  /\ epc[e] = "locked"
  /\ EndEdit(e)
  /\ UNCHANGED <<status, result, closed, pstatus, points>>

\* remove: soft deletion and voiding in one transaction; it waits for the row.
RemoveMatch ==
  /\ ~deleted /\ lock = NoOne
  /\ deleted' = TRUE
  /\ VoidAll
  /\ UNCHANGED <<status, result, closed, lock, choice, late, submitVars, editVars,
                 recalcVars, batch>>

-----------------------------------------------------------------------------
(***************************************************************************)
(* recalculateMatchPredictions: the status is checked before the           *)
(* transaction, which locks no match row.                                  *)
(***************************************************************************)

BeginRecalc(x) ==
  /\ rpc[x] = "idle" /\ status = "finished"
  /\ rpc' = [rpc EXCEPT ![x] = "begun"]
  /\ UNCHANGED <<matchVars, predVars, submitVars, editVars, rresult, overtaken, batch>>

ReadRecalc(x) ==
  /\ rpc[x] = "begun"
  /\ rpc' = [rpc EXCEPT ![x] = "read"]
  /\ rresult' = [rresult EXCEPT ![x] = result]
  /\ batch' = [batch EXCEPT ![x] = IF deleted THEN None ELSE ToSettle]
  /\ UNCHANGED <<matchVars, predVars, submitVars, editVars, overtaken>>

\* What was read no longer describes the match and its predictions.
Outdated(x) ==
  \/ deleted \/ status # "finished" \/ rresult[x] # result
  \/ \E u \in DOMAIN batch[x] : u \notin DOMAIN ToSettle \/ choice[u] # batch[x][u]

CommitRecalc(x) ==
  /\ rpc[x] = "read"
  /\ Settle(batch[x], rresult[x])
  /\ rpc' = [rpc EXCEPT ![x] = "idle"]
  /\ rresult' = [rresult EXCEPT ![x] = "HOME_WIN"]
  /\ batch' = [batch EXCEPT ![x] = None]
  /\ overtaken' = (overtaken \/ Outdated(x))
  /\ UNCHANGED <<matchVars, choice, late, submitVars, editVars>>

DeadlinePasses ==
  /\ ~closed
  /\ closed' = TRUE
  /\ UNCHANGED <<status, result, deleted, lock, predVars, submitVars, editVars,
                 recalcVars, batch>>

Next ==
  \/ \E u \in Users : (\E c \in Choices : CheckMatch(u, c)) \/ Upsert(u)
  \/ \E e \in Edits :
       \/ \E s \in MatchStates \cup {"KEEP"}, r \in Choices \cup {"KEEP"} : BeginEdit(e, s, r)
       \/ LockMatch(e)
       \/ \E newDate \in BOOLEAN : CommitEdit(e, newDate)
       \/ AbortEdit(e)
  \/ \E x \in Recalcs : BeginRecalc(x) \/ ReadRecalc(x) \/ CommitRecalc(x)
  \/ RemoveMatch \/ VoidPredictions \/ DeadlinePasses

Spec == Init /\ [][Next]_vars

-----------------------------------------------------------------------------
\* Between edits, every prediction of a finished match that was made in time
\* is settled by the match's result, re-edited scores, aborted and overlapping
\* edits included; only a recalculation that was overtaken can break it.
SettledByResult ==
  status = "finished" /\ lock = NoOne /\ ~overtaken => \A u \in Users :
     ~late[u] => /\ pstatus[u] # "PENDING"
                 /\ pstatus[u] = "CORRECT" => choice[u] = result /\ points[u] = Award
                 /\ pstatus[u] = "WRONG" => choice[u] # result /\ points[u] = 0

\* A cancelled or removed match pays nobody: the change of the match and the
\* voiding are one transaction ("soft deletion and voiding are handled in the
\* same transaction").
CalledOffPaysNothing ==
  (status = "cancelled" \/ deleted) /\ lock = NoOne => \A u \in Users : points[u] = 0

\* It is only an overtaken recalculation that brings points back: no edit,
\* submission or staff voiding does, in any order.
OnlyRecalcRevives == ~overtaken => CalledOffPaysNothing

\* "Predictions stop five minutes before the kick-off", and a match that is
\* not scheduled accepts none.
AcceptedOnlyWhileScheduled ==
  [][\A u \in Users : pstatus'[u] = "PENDING" /\ pstatus[u] # "PENDING" =>
       status = "scheduled"]_vars
=============================================================================
