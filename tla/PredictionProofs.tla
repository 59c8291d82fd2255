-------------------------- MODULE PredictionProofs --------------------------
(***************************************************************************)
(* The settlement of predictions for every number of members, edits and    *)
(* recalculations.  The invariant says what the properties say of a match  *)
(* nobody holds also for one an edit holds, and what that edit has read.   *)
(***************************************************************************)
EXTENDS PredictionSettlement, TLAPS

\* The row is held by the one edit that has written it.
LockIsHeld == \A e \in Edits : epc[e] = "locked" <=> lock = e

\* What a settlement by result r makes of a prediction made in time.
SettledFor(u, r) ==
  /\ pstatus[u] # "PENDING"
  /\ pstatus[u] = "CORRECT" => choice[u] = r /\ points[u] = Award
  /\ pstatus[u] = "WRONG" => choice[u] # r /\ points[u] = 0

Unpaid(u) == pstatus[u] \in {"NONE", "VOID"}

\* The edit settles nothing unless it finishes the match; what it has read is
\* still so for everyone who did not submit meanwhile.
ReadIsCurrent(e) ==
  IF NewStatus(e) = "finished" /\ ~deleted
  THEN \A u \in Users : ~late[u] =>
         /\ u \in DOMAIN batch[e] => batch[e][u] = choice[u]
         /\ ~overtaken /\ u \notin DOMAIN batch[e] => Unpaid(u)
  ELSE DOMAIN batch[e] = {}

SettledAlways ==
  status = "finished" /\ ~overtaken => \A u \in Users : ~late[u] => SettledFor(u, result)

RemovedIsVoid == deleted /\ ~overtaken => \A u \in Users : ~late[u] => Unpaid(u)

NothingPaid ==
  (status = "cancelled" \/ deleted) /\ ~overtaken => \A u \in Users : points[u] = 0

IInv ==
  /\ TypeOK
  /\ LockIsHeld
  /\ \A e \in Edits : epc[e] = "locked" => ReadIsCurrent(e)
  /\ SettledAlways
  /\ RemovedIsVoid
  /\ NothingPaid

-----------------------------------------------------------------------------
(* What a settlement reads is a batch of choices. *)
LEMMA ReadsBatch == TypeOK => ToSettle \in Batches /\ None \in Batches
<1> SUFFICES ASSUME TypeOK PROVE ToSettle \in Batches /\ None \in Batches
  OBVIOUS
<1>1. \A us \in SUBSET Users : [us -> Choices] \subseteq Batches
  BY DEF Batches
<1>2. None \in [{} -> Choices]
  BY DEF None
<1> DEFINE read == {v \in Users : pstatus[v] \in Settled \cup {"PENDING"}}
<1>3. ToSettle \in [read -> Choices]
  BY DEF ToSettle, TypeOK
<1>4. {} \in SUBSET Users /\ read \in SUBSET Users
  OBVIOUS
<1> QED
  BY <1>1, <1>2, <1>3, <1>4

(* Init establishes the invariant. *)
LEMMA InductiveInit == Init => IInv
<1> SUFFICES ASSUME Init PROVE IInv
  OBVIOUS
<1>1. TypeOK
  <2>1. None \in Batches
    BY DEF None, Batches
  <2> QED
    BY <2>1 DEF Init, TypeOK, MatchStates, Choices
<1>2. LockIsHeld /\ \A e \in Edits : epc[e] # "locked"
  BY NoOneAssumption DEF Init, LockIsHeld
<1>3. SettledAlways /\ RemovedIsVoid /\ NothingPaid
  BY DEF Init, SettledAlways, RemovedIsVoid, NothingPaid
<1> QED
  BY <1>1, <1>2, <1>3 DEF IInv

(* Every step keeps the types. *)
LEMMA TypeStep == TypeOK /\ [Next]_vars => TypeOK'
<1> SUFFICES ASSUME TypeOK, [Next]_vars PROVE TypeOK'
  OBVIOUS
<1>0. ToSettle \in Batches /\ None \in Batches
  BY ReadsBatch
<1> USE DEF TypeOK, MatchStates, Choices, Settled, Award, matchVars, predVars, submitVars, editVars,
        recalcVars
<1>1. ASSUME NEW u \in Users, NEW c \in Choices, CheckMatch(u, c) PROVE TypeOK'
  BY <1>1 DEF CheckMatch
<1>2. ASSUME NEW u \in Users, Upsert(u) PROVE TypeOK'
  BY <1>2 DEF Upsert
<1>3. ASSUME NEW e \in Edits, NEW s \in MatchStates \cup {"KEEP"}, NEW r \in Choices \cup {"KEEP"}, BeginEdit(e, s, r) PROVE TypeOK'
  BY <1>3 DEF BeginEdit
<1>4. ASSUME NEW e \in Edits, LockMatch(e) PROVE TypeOK'
  BY <1>4, <1>0 DEF LockMatch
<1>5. ASSUME NEW e \in Edits, NEW d \in BOOLEAN, CommitEdit(e, d) PROVE TypeOK'
  BY <1>5, <1>0 DEF CommitEdit, EndEdit, Settle, VoidAll, NewStatus
<1>6. ASSUME NEW e \in Edits, AbortEdit(e) PROVE TypeOK'
  BY <1>6, <1>0 DEF AbortEdit, EndEdit
<1>7. ASSUME NEW x \in Recalcs, BeginRecalc(x) PROVE TypeOK'
  BY <1>7 DEF BeginRecalc
<1>8. ASSUME NEW x \in Recalcs, ReadRecalc(x) PROVE TypeOK'
  BY <1>8, <1>0 DEF ReadRecalc
<1>9. ASSUME NEW x \in Recalcs, CommitRecalc(x) PROVE TypeOK'
  BY <1>9, <1>0 DEF CommitRecalc, Settle
<1>10. ASSUME RemoveMatch PROVE TypeOK'
  BY <1>10 DEF RemoveMatch, VoidAll
<1>11. ASSUME VoidPredictions PROVE TypeOK'
  BY <1>11 DEF VoidPredictions, VoidAll
<1>12. ASSUME DeadlinePasses PROVE TypeOK'
  BY <1>12 DEF DeadlinePasses
<1>13. CASE UNCHANGED vars
  BY <1>13 DEF vars
<1> HIDE DEF TypeOK
<1> QED
  BY <1>1, <1>2, <1>3, <1>4, <1>5, <1>6, <1>7, <1>8, <1>9, <1>10, <1>11, <1>12, <1>13 DEF Next

(* The invariant is kept by every step: what happens while an edit holds the  *)
(* row leaves what it has read true of those who were in time.                *)
LEMMA InductiveStep == IInv /\ [Next]_vars => IInv'
<1> SUFFICES ASSUME IInv, [Next]_vars PROVE IInv'
  OBVIOUS
<1>0. TypeOK /\ TypeOK'
  BY TypeStep DEF IInv
<1> USE <1>0, NoOneAssumption, HandlersAssumption
<1> USE DEF matchVars, predVars, submitVars, editVars, recalcVars
<1>1. ASSUME NEW u \in Users, NEW c \in Choices, CheckMatch(u, c) PROVE IInv'
  <2>1. LockIsHeld'
    BY <1>1 DEF CheckMatch, IInv, TypeOK, LockIsHeld
  <2>2. \A f \in Edits : epc'[f] = "locked" => ReadIsCurrent(f)'
    BY <1>1 DEF CheckMatch, IInv, TypeOK, LockIsHeld, ReadIsCurrent, NewStatus, Unpaid
  <2>3. SettledAlways'
    BY <1>1 DEF CheckMatch, IInv, TypeOK, LockIsHeld, SettledAlways, SettledFor, RemovedIsVoid, Unpaid, ReadIsCurrent
  <2>4. RemovedIsVoid'
    BY <1>1 DEF CheckMatch, IInv, TypeOK, LockIsHeld, RemovedIsVoid, Unpaid, ReadIsCurrent
  <2>5. NothingPaid'
    BY <1>1 DEF CheckMatch, IInv, TypeOK, LockIsHeld, NothingPaid, ReadIsCurrent
  <2> QED
    BY <2>1, <2>2, <2>3, <2>4, <2>5 DEF IInv
<1>2. ASSUME NEW u \in Users, Upsert(u) PROVE IInv'
  <2>1. LockIsHeld'
    BY <1>2 DEF Upsert, IInv, TypeOK, LockIsHeld
  <2>2. status # "scheduled" \/ deleted \/ lock # NoOne => late'[u]
    BY <1>2, ZenonT(30) DEF Upsert, TypeOK
  <2>3. \A v \in Users \ {u} : /\ late'[v] = late[v] /\ pstatus'[v] = pstatus[v]
                               /\ choice'[v] = choice[v] /\ points'[v] = points[v]
    BY <1>2 DEF Upsert, TypeOK
  <2>4. UNCHANGED <<matchVars, editVars, recalcVars, batch>>
    BY <1>2 DEF Upsert
  <2>5. ASSUME NEW f \in Edits, epc'[f] = "locked" PROVE ReadIsCurrent(f)'
    <3>1. lock = f /\ ReadIsCurrent(f)
      BY <2>4, <2>5 DEF IInv, LockIsHeld
    <3>2. ~late'[u] => FALSE
      BY <2>2, <3>1
    <3> QED
      BY <2>3, <2>4, <3>1, <3>2 DEF ReadIsCurrent, NewStatus, Unpaid
  <2>6. SettledAlways'
    BY <2>2, <2>3, <2>4 DEF IInv, SettledAlways, SettledFor
  <2>7. RemovedIsVoid'
    BY <2>2, <2>3, <2>4 DEF IInv, RemovedIsVoid, Unpaid
  <2>8. NothingPaid'
    BY <1>2 DEF Upsert, IInv, TypeOK, NothingPaid
  <2> QED
    BY <2>1, <2>5, <2>6, <2>7, <2>8 DEF IInv
<1>3. ASSUME NEW e \in Edits, NEW s \in MatchStates \cup {"KEEP"}, NEW r \in Choices \cup {"KEEP"}, BeginEdit(e, s, r) PROVE IInv'
  <2>1. LockIsHeld'
    BY <1>3 DEF BeginEdit, IInv, TypeOK, LockIsHeld
  <2>2. \A f \in Edits : epc'[f] = "locked" => ReadIsCurrent(f)'
    BY <1>3 DEF BeginEdit, IInv, TypeOK, LockIsHeld, ReadIsCurrent, NewStatus, Unpaid
  <2>3. SettledAlways'
    BY <1>3 DEF BeginEdit, IInv, TypeOK, LockIsHeld, SettledAlways, SettledFor, RemovedIsVoid, Unpaid, ReadIsCurrent
  <2>4. RemovedIsVoid'
    BY <1>3 DEF BeginEdit, IInv, TypeOK, LockIsHeld, RemovedIsVoid, Unpaid, ReadIsCurrent
  <2>5. NothingPaid'
    BY <1>3 DEF BeginEdit, IInv, TypeOK, LockIsHeld, NothingPaid, ReadIsCurrent
  <2> QED
    BY <2>1, <2>2, <2>3, <2>4, <2>5 DEF IInv
<1>4. ASSUME NEW e \in Edits, LockMatch(e) PROVE IInv'
  <2>1. LockIsHeld'
    BY <1>4 DEF LockMatch, IInv, TypeOK, LockIsHeld
  <2>2. ASSUME NEW f \in Edits, epc'[f] = "locked" PROVE ReadIsCurrent(f)'
    <3>1. f = e
      BY <1>4, <2>2 DEF LockMatch, IInv, TypeOK, LockIsHeld
    <3>2. NewStatus(e)' = NewStatus(e) /\ UNCHANGED <<deleted, late, choice, pstatus, overtaken>>
      BY <1>4 DEF LockMatch, NewStatus
    <3>3. CASE NewStatus(e) = "finished" /\ ~deleted
      <4>1. batch'[e] = ToSettle
        BY <1>4, <3>3 DEF LockMatch, TypeOK
      <4>2. \A u \in Users : u \in DOMAIN ToSettle => ToSettle[u] = choice[u]
        BY DEF ToSettle
      <4>3. \A u \in Users : u \notin DOMAIN ToSettle => Unpaid(u)
        BY DEF ToSettle, TypeOK, Unpaid
      <4> QED
        BY <3>1, <3>2, <3>3, <4>1, <4>2, <4>3 DEF ReadIsCurrent, Unpaid
    <3>4. CASE ~(NewStatus(e) = "finished" /\ ~deleted)
      BY <1>4, <3>1, <3>2, <3>4 DEF LockMatch, TypeOK, ReadIsCurrent, None
    <3> QED
      BY <3>3, <3>4
  <2>3. SettledAlways'
    BY <1>4 DEF LockMatch, IInv, TypeOK, LockIsHeld, SettledAlways, SettledFor, RemovedIsVoid, Unpaid, ReadIsCurrent
  <2>4. RemovedIsVoid'
    BY <1>4 DEF LockMatch, IInv, TypeOK, LockIsHeld, RemovedIsVoid, Unpaid, ReadIsCurrent
  <2>5. NothingPaid'
    BY <1>4 DEF LockMatch, IInv, TypeOK, LockIsHeld, NothingPaid, ReadIsCurrent
  <2> QED
    BY <2>1, <2>2, <2>3, <2>4, <2>5 DEF IInv
<1>5. ASSUME NEW e \in Edits, NEW d \in BOOLEAN, CommitEdit(e, d) PROVE IInv'
  <2>1. LockIsHeld'
    BY <1>5 DEF CommitEdit, EndEdit, Settle, VoidAll, IInv, TypeOK, LockIsHeld
  <2>2. \A f \in Edits : epc'[f] = "locked" => ReadIsCurrent(f)'
    BY <1>5 DEF CommitEdit, EndEdit, Settle, VoidAll, IInv, TypeOK, LockIsHeld, ReadIsCurrent, NewStatus, Unpaid
  <2>3. SettledAlways'
    <3> SUFFICES ASSUME NewStatus(e) = "finished", ~overtaken, NEW u \in Users, ~late[u]
                 PROVE SettledFor(u, result)'
      BY <1>5 DEF CommitEdit, EndEdit, SettledAlways, recalcVars, SettledFor
    <3>1. ReadIsCurrent(e)
      BY <1>5 DEF CommitEdit, IInv
    <3>2. Settle(batch[e], eresult[e]) /\ UNCHANGED <<choice, late>> /\ result' = eresult[e]
      BY <1>5 DEF CommitEdit, EndEdit
    <3>3. CASE u \in DOMAIN batch[e]
      <4>1. batch[e][u] = choice[u]
        BY <3>1, <3>3 DEF ReadIsCurrent
      <4> QED
        BY <3>2, <3>3, <4>1 DEF Settle, SettledFor
    <3>4. CASE u \notin DOMAIN batch[e]
      <4>1. Unpaid(u)
        BY <3>1, <3>4 DEF ReadIsCurrent, RemovedIsVoid, IInv
      <4> QED
        BY <3>2, <3>4, <4>1 DEF Settle, SettledFor, Unpaid
    <3> QED
      BY <3>3, <3>4
  <2>4. RemovedIsVoid'
    BY <1>5 DEF CommitEdit, EndEdit, Settle, VoidAll, IInv, TypeOK, LockIsHeld, RemovedIsVoid, Unpaid, ReadIsCurrent
  <2>5. NothingPaid'
    BY <1>5 DEF CommitEdit, EndEdit, Settle, VoidAll, IInv, TypeOK, LockIsHeld, NothingPaid, ReadIsCurrent
  <2> QED
    BY <2>1, <2>2, <2>3, <2>4, <2>5 DEF IInv
<1>6. ASSUME NEW e \in Edits, AbortEdit(e) PROVE IInv'
  <2>1. LockIsHeld'
    BY <1>6 DEF AbortEdit, EndEdit, IInv, TypeOK, LockIsHeld
  <2>2. \A f \in Edits : epc'[f] = "locked" => ReadIsCurrent(f)'
    BY <1>6 DEF AbortEdit, EndEdit, IInv, TypeOK, LockIsHeld, ReadIsCurrent, NewStatus, Unpaid
  <2>3. SettledAlways'
    BY <1>6 DEF AbortEdit, EndEdit, IInv, TypeOK, LockIsHeld, SettledAlways, SettledFor, RemovedIsVoid, Unpaid, ReadIsCurrent
  <2>4. RemovedIsVoid'
    BY <1>6 DEF AbortEdit, EndEdit, IInv, TypeOK, LockIsHeld, RemovedIsVoid, Unpaid, ReadIsCurrent
  <2>5. NothingPaid'
    BY <1>6 DEF AbortEdit, EndEdit, IInv, TypeOK, LockIsHeld, NothingPaid, ReadIsCurrent
  <2> QED
    BY <2>1, <2>2, <2>3, <2>4, <2>5 DEF IInv
<1>7. ASSUME NEW x \in Recalcs, BeginRecalc(x) PROVE IInv'
  <2>1. LockIsHeld'
    BY <1>7 DEF BeginRecalc, IInv, TypeOK, LockIsHeld
  <2>2. \A f \in Edits : epc'[f] = "locked" => ReadIsCurrent(f)'
    BY <1>7 DEF BeginRecalc, IInv, TypeOK, LockIsHeld, ReadIsCurrent, NewStatus, Unpaid
  <2>3. SettledAlways'
    BY <1>7 DEF BeginRecalc, IInv, TypeOK, LockIsHeld, SettledAlways, SettledFor, RemovedIsVoid, Unpaid, ReadIsCurrent
  <2>4. RemovedIsVoid'
    BY <1>7 DEF BeginRecalc, IInv, TypeOK, LockIsHeld, RemovedIsVoid, Unpaid, ReadIsCurrent
  <2>5. NothingPaid'
    BY <1>7 DEF BeginRecalc, IInv, TypeOK, LockIsHeld, NothingPaid, ReadIsCurrent
  <2> QED
    BY <2>1, <2>2, <2>3, <2>4, <2>5 DEF IInv
<1>8. ASSUME NEW x \in Recalcs, ReadRecalc(x) PROVE IInv'
  <2>1. LockIsHeld'
    BY <1>8 DEF ReadRecalc, IInv, TypeOK, LockIsHeld
  <2>2. \A f \in Edits : epc'[f] = "locked" => ReadIsCurrent(f)'
    BY <1>8 DEF ReadRecalc, IInv, TypeOK, LockIsHeld, ReadIsCurrent, NewStatus, Unpaid
  <2>3. SettledAlways'
    BY <1>8 DEF ReadRecalc, IInv, TypeOK, LockIsHeld, SettledAlways, SettledFor, RemovedIsVoid, Unpaid, ReadIsCurrent
  <2>4. RemovedIsVoid'
    BY <1>8 DEF ReadRecalc, IInv, TypeOK, LockIsHeld, RemovedIsVoid, Unpaid, ReadIsCurrent
  <2>5. NothingPaid'
    BY <1>8 DEF ReadRecalc, IInv, TypeOK, LockIsHeld, NothingPaid, ReadIsCurrent
  <2> QED
    BY <2>1, <2>2, <2>3, <2>4, <2>5 DEF IInv
<1>9. ASSUME NEW x \in Recalcs, CommitRecalc(x) PROVE IInv'
  <2>1. LockIsHeld'
    BY <1>9 DEF CommitRecalc, Settle, Outdated, ToSettle, Settled, IInv, TypeOK, LockIsHeld
  <2>2. ASSUME NEW f \in Edits, epc'[f] = "locked" PROVE ReadIsCurrent(f)'
    <3>1. ReadIsCurrent(f) /\ batch'[f] = batch[f] /\ NewStatus(f)' = NewStatus(f)
      BY <1>9, <2>2 DEF CommitRecalc, IInv, TypeOK, NewStatus
    <3>2. UNCHANGED <<deleted, late, choice>>
      BY <1>9 DEF CommitRecalc
    <3>3. ASSUME ~overtaken', NEW u \in Users, Unpaid(u) PROVE Unpaid(u)'
      <4>1. u \notin DOMAIN batch[x]
        BY <1>9, <3>3 DEF CommitRecalc, Outdated, ToSettle, Unpaid, Settled
      <4> QED
        BY <1>9, <3>3, <4>1 DEF CommitRecalc, Settle, Unpaid
    <3>4. overtaken => overtaken'
      BY <1>9 DEF CommitRecalc
    <3> QED
      BY <3>1, <3>2, <3>3, <3>4 DEF ReadIsCurrent
  <2>3. SettledAlways'
    BY <1>9 DEF CommitRecalc, Settle, Outdated, ToSettle, Settled, IInv, TypeOK, LockIsHeld, SettledAlways, SettledFor, RemovedIsVoid, Unpaid, ReadIsCurrent
  <2>4. RemovedIsVoid'
    BY <1>9 DEF CommitRecalc, Settle, Outdated, ToSettle, Settled, IInv, TypeOK, LockIsHeld, RemovedIsVoid, Unpaid, ReadIsCurrent
  <2>5. NothingPaid'
    BY <1>9 DEF CommitRecalc, Settle, Outdated, ToSettle, Settled, IInv, TypeOK, LockIsHeld, NothingPaid, ReadIsCurrent
  <2> QED
    BY <2>1, <2>2, <2>3, <2>4, <2>5 DEF IInv
<1>10. ASSUME RemoveMatch PROVE IInv'
  <2>1. LockIsHeld'
    BY <1>10 DEF RemoveMatch, VoidAll, IInv, TypeOK, LockIsHeld
  <2>2. \A f \in Edits : epc'[f] = "locked" => ReadIsCurrent(f)'
    BY <1>10 DEF RemoveMatch, VoidAll, IInv, TypeOK, LockIsHeld, ReadIsCurrent, NewStatus, Unpaid
  <2>3. SettledAlways'
    BY <1>10 DEF RemoveMatch, VoidAll, IInv, TypeOK, LockIsHeld, SettledAlways, SettledFor, RemovedIsVoid, Unpaid, ReadIsCurrent
  <2>4. RemovedIsVoid'
    BY <1>10 DEF RemoveMatch, VoidAll, IInv, TypeOK, LockIsHeld, RemovedIsVoid, Unpaid, ReadIsCurrent
  <2>5. NothingPaid'
    BY <1>10 DEF RemoveMatch, VoidAll, IInv, TypeOK, LockIsHeld, NothingPaid, ReadIsCurrent
  <2> QED
    BY <2>1, <2>2, <2>3, <2>4, <2>5 DEF IInv
<1>11. ASSUME VoidPredictions PROVE IInv'
  <2>1. LockIsHeld'
    BY <1>11 DEF VoidPredictions, VoidAll, IInv, TypeOK, LockIsHeld
  <2>2. \A f \in Edits : epc'[f] = "locked" => ReadIsCurrent(f)'
    BY <1>11 DEF VoidPredictions, VoidAll, IInv, TypeOK, LockIsHeld, ReadIsCurrent, NewStatus, Unpaid
  <2>3. SettledAlways'
    BY <1>11 DEF VoidPredictions, VoidAll, IInv, TypeOK, LockIsHeld, SettledAlways, SettledFor, RemovedIsVoid, Unpaid, ReadIsCurrent
  <2>4. RemovedIsVoid'
    BY <1>11 DEF VoidPredictions, VoidAll, IInv, TypeOK, LockIsHeld, RemovedIsVoid, Unpaid, ReadIsCurrent
  <2>5. NothingPaid'
    BY <1>11 DEF VoidPredictions, VoidAll, IInv, TypeOK, LockIsHeld, NothingPaid, ReadIsCurrent
  <2> QED
    BY <2>1, <2>2, <2>3, <2>4, <2>5 DEF IInv
<1>12. ASSUME DeadlinePasses PROVE IInv'
  <2>1. LockIsHeld'
    BY <1>12 DEF DeadlinePasses, IInv, TypeOK, LockIsHeld
  <2>2. \A f \in Edits : epc'[f] = "locked" => ReadIsCurrent(f)'
    BY <1>12 DEF DeadlinePasses, IInv, TypeOK, LockIsHeld, ReadIsCurrent, NewStatus, Unpaid
  <2>3. SettledAlways'
    BY <1>12 DEF DeadlinePasses, IInv, TypeOK, LockIsHeld, SettledAlways, SettledFor, RemovedIsVoid, Unpaid, ReadIsCurrent
  <2>4. RemovedIsVoid'
    BY <1>12 DEF DeadlinePasses, IInv, TypeOK, LockIsHeld, RemovedIsVoid, Unpaid, ReadIsCurrent
  <2>5. NothingPaid'
    BY <1>12 DEF DeadlinePasses, IInv, TypeOK, LockIsHeld, NothingPaid, ReadIsCurrent
  <2> QED
    BY <2>1, <2>2, <2>3, <2>4, <2>5 DEF IInv
<1>13. CASE UNCHANGED vars
  <2>1. LockIsHeld'
    BY <1>13 DEF vars, IInv, TypeOK, LockIsHeld
  <2>2. \A f \in Edits : epc'[f] = "locked" => ReadIsCurrent(f)'
    BY <1>13 DEF vars, IInv, TypeOK, LockIsHeld, ReadIsCurrent, NewStatus, Unpaid
  <2>3. SettledAlways'
    BY <1>13 DEF vars, IInv, TypeOK, LockIsHeld, SettledAlways, SettledFor, RemovedIsVoid, Unpaid, ReadIsCurrent
  <2>4. RemovedIsVoid'
    BY <1>13 DEF vars, IInv, TypeOK, LockIsHeld, RemovedIsVoid, Unpaid, ReadIsCurrent
  <2>5. NothingPaid'
    BY <1>13 DEF vars, IInv, TypeOK, LockIsHeld, NothingPaid, ReadIsCurrent
  <2> QED
    BY <2>1, <2>2, <2>3, <2>4, <2>5 DEF IInv
<1> QED
  BY <1>1, <1>2, <1>3, <1>4, <1>5, <1>6, <1>7, <1>8, <1>9, <1>10, <1>11, <1>12, <1>13 DEF Next

THEOREM Inductive == Spec => []IInv
  BY InductiveInit, InductiveStep, PTL DEF Spec

(* Type correctness for every number of members and handlers. *)
THEOREM TypeSafe == Spec => []TypeOK
<1>1. IInv => TypeOK
  BY DEF IInv
<1> QED
  BY <1>1, Inductive, PTL

(* Between edits every prediction made in time is settled by the result of   *)
(* the finished match, whatever edits overlapped, were repeated or aborted.  *)
THEOREM Settlement == Spec => []SettledByResult
<1>1. IInv => SettledByResult
  BY DEF IInv, SettledAlways, SettledFor, SettledByResult
<1> QED
  BY <1>1, Inductive, PTL

(* Only a recalculation that was overtaken brings points back to a match     *)
(* that is cancelled or removed.                                             *)
THEOREM PointsStayVoid == Spec => []OnlyRecalcRevives
<1>1. IInv => OnlyRecalcRevives
  BY DEF IInv, NothingPaid, OnlyRecalcRevives, CalledOffPaysNothing
<1> QED
  BY <1>1, Inductive, PTL
=============================================================================
