-------------------------- MODULE CampusCardProofs --------------------------
(***************************************************************************)
(* Safety of the campus-card ledger for every number of rows, accounts,    *)
(* handlers and cleanup runs.  The steps of the handlers, of the cleanup   *)
(* and of the environment are taken one by one in the order of Next.       *)
(***************************************************************************)
EXTENDS CampusCardRestore, FiniteSetTheorems, TLAPS

(* Init establishes the types. *)
LEMMA TypeInit == Init => TypeOK
<1> SUFFICES ASSUME Init PROVE TypeOK
  OBVIOUS
<1>1. AssetTypes
  BY DEF Init, AssetTypes, AssetStates
<1>2. MemberTypes
  BY LegacyAssumption DEF Init, MemberTypes, MemberStates
<1>3. RequestTypes
  BY DEF Init, RequestTypes, RequestSteps, Tries
<1>4. WorkerTypes
  BY DEF Init, WorkerTypes, WorkerSteps
<1> QED
  BY <1>1, <1>2, <1>3, <1>4 DEF TypeOK

(* A handler that ends leaves well-typed local variables. *)
LEMMA EndTypes == ASSUME RequestTypes, NEW r \in Requests, End(r) PROVE RequestTypes'
  BY DEF RequestTypes, RequestSteps, Tries, End

(* Every step of a handler, a cleanup run or the environment keeps the types. *)
LEMMA TypeStep == TypeOK /\ [Next]_vars => TypeOK'
<1> SUFFICES ASSUME TypeOK, [Next]_vars PROVE TypeOK'
  OBVIOUS
<1> USE DEF TypeOK, AssetTypes, MemberTypes, RequestTypes, WorkerTypes,
        AssetStates, MemberStates, RequestSteps, WorkerSteps, Tries,
        assetVars, storeVars, memberVars, reqVars, workVars
<1>1. ASSUME NEW r \in Requests, NEW m \in Members, BeginRegister(r, m) PROVE TypeOK'
  BY <1>1 DEF BeginRegister, Start
<1>2. ASSUME NEW r \in Requests, NEW m \in Members, BeginResubmit(r, m) PROVE TypeOK'
  BY <1>2 DEF BeginResubmit, Start
<1>3. ASSUME NEW r \in Requests, CountUnreleased(r) PROVE TypeOK'
  <2>1. CASE End(r)
    BY <1>3, <2>1, EndTypes DEF CountUnreleased
  <2>2. CASE ~End(r)
    BY <1>3, <2>2 DEF CountUnreleased
  <2> QED
    BY <2>1, <2>2
<1>4. ASSUME NEW r \in Requests, NEW a \in Assets, CreateStaging(r, a) PROVE TypeOK'
  BY <1>4 DEF CreateStaging
<1>5. ASSUME NEW r \in Requests, SerializationFailure(r) PROVE TypeOK'
  <2>1. CASE End(r)
    BY <1>5, <2>1, EndTypes DEF SerializationFailure
  <2>2. CASE ~End(r)
    <3>1. rtries[r] + 1 \in Nat
      BY <1>5, <2>2 DEF SerializationFailure
    <3>2. rtries' \in [Requests -> Nat]
      BY <1>5, <2>2, <3>1 DEF SerializationFailure
    <3>3. rpc' = [rpc EXCEPT ![r] = "reserve"]
      BY <1>5, <2>2 DEF SerializationFailure
    <3>5. rclash' = [rclash EXCEPT ![r] = FALSE]
      BY <1>5, <2>2 DEF SerializationFailure
    <3>4. UNCHANGED <<rmember, rbase, rasset, wrote, assetVars, storeVars, memberVars, workVars>>
      BY <1>5, <2>2 DEF SerializationFailure
    <3> QED
      BY <3>2, <3>3, <3>4, <3>5
  <2> QED
    BY <2>1, <2>2
<1>6. ASSUME NEW r \in Requests, StartWrite(r) PROVE TypeOK'
  BY <1>6 DEF StartWrite
<1>7. ASSUME NEW r \in Requests, LeaseRanOut(r) PROVE TypeOK'
  BY <1>7 DEF LeaseRanOut, Move
<1>8. ASSUME NEW r \in Requests, WriteAnswered(r) PROVE TypeOK'
  BY <1>8 DEF WriteAnswered, Move
<1>9. ASSUME NEW r \in Requests, Settle(r) PROVE TypeOK'
  BY <1>9 DEF Settle
<1>10. ASSUME NEW r \in Requests, ConfirmLease(r) PROVE TypeOK'
  BY <1>10 DEF ConfirmLease, Move
<1>11. ASSUME NEW r \in Requests, StageThrows(r) PROVE TypeOK'
  BY <1>11 DEF StageThrows, Move
<1>12. ASSUME NEW r \in Requests, PersistFailure(r) PROVE TypeOK'
  <2>1. RequestTypes'
    BY <1>12, EndTypes DEF PersistFailure
  <2>2. AssetTypes'
    <3>1. (state \in [Assets -> AssetStates])'
      BY <1>12 DEF PersistFailure, Release
    <3>2. (settled \in [Assets -> BOOLEAN])'
      BY <1>12, ZenonT(30) DEF PersistFailure, Release
    <3>3. (lease \in [Assets -> {"none", "live", "expired"}])'
      BY <1>12 DEF PersistFailure, Release
    <3>4. (due \in [Assets -> BOOLEAN])'
      BY <1>12, ZenonT(30) DEF PersistFailure, Release
    <3>5. (backoff \in [Assets -> BOOLEAN])'
      BY <1>12, ZenonT(30) DEF PersistFailure, Release
    <3>6. (owner \in [Assets -> Members \cup {NoOne}])'
      BY <1>12 DEF PersistFailure, Release
    <3>7. (version \in [Assets -> Nat])'
      BY <1>12 DEF PersistFailure, Release
    <3>8. (put \in [Assets -> {"none", "inflight", "landed", "lost"}] /\ stored \in SUBSET Assets)'
      BY <1>12 DEF PersistFailure, Release
    <3> QED
      BY <3>1, <3>2, <3>3, <3>4, <3>5, <3>6, <3>7, <3>8
  <2>3. MemberTypes'
    <3>1. (status \in [Members -> MemberStates])'
      BY <1>12 DEF PersistFailure, Release
    <3>2. (ver \in [Members -> Nat])'
      BY <1>12 DEF PersistFailure, Release
    <3>3. (comment \in [Members -> {"none", "returned", "expired", "restored"}])'
      BY <1>12 DEF PersistFailure, Release
    <3>4. (disabled \in [Members -> BOOLEAN])'
      BY <1>12 DEF PersistFailure, Release
    <3> QED
      BY <3>1, <3>2, <3>3, <3>4
  <2>4. WorkerTypes'
    BY <1>12 DEF PersistFailure, Release
  <2> QED
    BY <2>1, <2>2, <2>3, <2>4
<1>13. ASSUME NEW r \in Requests, RegisterAccount(r) PROVE TypeOK'
  <2>1. RequestTypes'
    BY <1>13, EndTypes DEF RegisterAccount
  <2>2. AssetTypes'
    BY <1>13 DEF RegisterAccount
  <2>3. MemberTypes'
    BY <1>13 DEF RegisterAccount
  <2>4. WorkerTypes'
    BY <1>13 DEF RegisterAccount
  <2> QED
    BY <2>1, <2>2, <2>3, <2>4
<1>14. ASSUME NEW r \in Requests, ResubmitCard(r) PROVE TypeOK'
  <2>1. RequestTypes'
    BY <1>14, EndTypes DEF ResubmitCard
  <2>2. AssetTypes'
    <3>0. rbase[r] + 1 \in Nat
      OBVIOUS
    <3>1. (state \in [Assets -> AssetStates])'
      BY <1>14 DEF ResubmitCard
    <3>2. (settled \in [Assets -> BOOLEAN])'
      BY <1>14 DEF ResubmitCard
    <3>3. (lease \in [Assets -> {"none", "live", "expired"}])'
      BY <1>14 DEF ResubmitCard
    <3>4. (due \in [Assets -> BOOLEAN])'
      BY <1>14 DEF ResubmitCard
    <3>5. (backoff \in [Assets -> BOOLEAN])'
      BY <1>14 DEF ResubmitCard
    <3>6. (owner \in [Assets -> Members \cup {NoOne}])'
      BY <1>14 DEF ResubmitCard
    <3>7. (version \in [Assets -> Nat])'
      BY <1>14, <3>0 DEF ResubmitCard
    <3>8. (put \in [Assets -> {"none", "inflight", "landed", "lost"}] /\ stored \in SUBSET Assets)'
      BY <1>14 DEF ResubmitCard
    <3> QED
      BY <3>1, <3>2, <3>3, <3>4, <3>5, <3>6, <3>7, <3>8
  <2>3. MemberTypes'
    <3>0. rbase[r] + 1 \in Nat
      OBVIOUS
    <3>1. (status \in [Members -> MemberStates])'
      BY <1>14 DEF ResubmitCard
    <3>2. (ver \in [Members -> Nat])'
      BY <1>14, <3>0 DEF ResubmitCard
    <3>3. (comment \in [Members -> {"none", "returned", "expired", "restored"}])'
      BY <1>14 DEF ResubmitCard
    <3>4. (disabled \in [Members -> BOOLEAN])'
      BY <1>14 DEF ResubmitCard
    <3> QED
      BY <3>1, <3>2, <3>3, <3>4
  <2>4. WorkerTypes'
    BY <1>14 DEF ResubmitCard
  <2> QED
    BY <2>1, <2>2, <2>3, <2>4
<1>15. ASSUME NEW r \in Requests, Abandon(r) PROVE TypeOK'
  <2>1. RequestTypes'
    BY <1>15, EndTypes DEF Abandon
  <2>2. AssetTypes'
    BY <1>15 DEF Abandon
  <2>3. MemberTypes'
    BY <1>15 DEF Abandon
  <2>4. WorkerTypes'
    BY <1>15 DEF Abandon
  <2> QED
    BY <2>1, <2>2, <2>3, <2>4
<1>16. ASSUME NEW w \in Workers, NEW m \in Members, ReviewApprove(w, m) PROVE TypeOK'
  BY <1>16 DEF ReviewApprove, Withdrawn
<1>17. ASSUME NEW w \in Workers, StartCleanup(w) PROVE TypeOK'
  BY <1>17 DEF StartCleanup, Turn
<1>18. ASSUME NEW w \in Workers, Sweep(w) PROVE TypeOK'
  BY <1>18 DEF Sweep, Orphans
<1>19. ASSUME NEW w \in Workers, SweepFails(w) PROVE TypeOK'
  BY <1>19 DEF SweepFails, Turn
<1>20. ASSUME NEW w \in Workers, Scan(w) PROVE TypeOK'
  BY <1>20 DEF Scan, Eligible
<1>21. ASSUME NEW w \in Workers, NEW a \in Assets, Claim(w, a) PROVE TypeOK'
  BY <1>21 DEF Claim
<1>22. ASSUME NEW w \in Workers, NEW a \in Assets, Skip(w, a) PROVE TypeOK'
  BY <1>22 DEF Skip
<1>23. ASSUME NEW w \in Workers, Demote(w) PROVE TypeOK'
  BY <1>23 DEF Demote
<1>24. ASSUME NEW w \in Workers, DeleteObject(w) PROVE TypeOK'
  BY <1>24 DEF DeleteObject
<1>25. ASSUME NEW w \in Workers, Head(w) PROVE TypeOK'
  BY <1>25 DEF Head, Turn
<1>26. ASSUME NEW w \in Workers, KeepQuota(w) PROVE TypeOK'
  BY <1>26 DEF KeepQuota, Continue
<1>27. ASSUME NEW w \in Workers, ReleaseQuota(w) PROVE TypeOK'
  BY <1>27 DEF ReleaseQuota, Continue
<1>28. ASSUME NEW w \in Workers, CleanupThrows(w) PROVE TypeOK'
  BY <1>28 DEF CleanupThrows, Turn
<1>29. ASSUME NEW w \in Workers, RetryLater(w) PROVE TypeOK'
  BY <1>29 DEF RetryLater, Continue
<1>30. ASSUME NEW w \in Workers, EndCleanup(w) PROVE TypeOK'
  BY <1>30 DEF EndCleanup, Rest
<1>31. ASSUME NEW w \in Workers, WorkerCrash(w) PROVE TypeOK'
  BY <1>31 DEF WorkerCrash, Rest
<1>32. ASSUME NEW a \in Assets, PutLands(a) PROVE TypeOK'
  BY <1>32 DEF PutLands
<1>33. ASSUME NEW a \in Assets, PutLost(a) PROVE TypeOK'
  BY <1>33 DEF PutLost
<1>34. ASSUME NEW m \in Members, ReviewReturn(m) PROVE TypeOK'
  BY <1>34 DEF ReviewReturn
<1>35. ASSUME NEW m \in Members, NEW b \in BOOLEAN, SetDisabled(m, b) PROVE TypeOK'
  BY <1>35 DEF SetDisabled
<1>36. ASSUME NEW a \in Assets, LeaseExpires(a) PROVE TypeOK'
  BY <1>36 DEF LeaseExpires
<1>37. ASSUME NEW a \in Assets, Mature(a) PROVE TypeOK'
  BY <1>37 DEF Mature
<1>38. ASSUME NEW a \in Assets, BackoffElapses(a) PROVE TypeOK'
  BY <1>38 DEF BackoffElapses
<1>39. CASE UNCHANGED vars
  BY <1>39 DEF vars
<1> QED
  BY <1>1, <1>2, <1>3, <1>4, <1>5, <1>6, <1>7, <1>8, <1>9, <1>10, <1>11, <1>12, <1>13,
     <1>14, <1>15, <1>16, <1>17, <1>18, <1>19, <1>20, <1>21, <1>22, <1>23, <1>24, <1>25,
     <1>26, <1>27, <1>28, <1>29, <1>30, <1>31, <1>32, <1>33, <1>34, <1>35, <1>36, <1>37,
     <1>38, <1>39, ZenonT(30) DEF Next, RequestStep, WorkerStep

-----------------------------------------------------------------------------
(* The inductive invariant behind the safety theorems. *)
Inductive == TypeOK /\ Custody /\ Progress /\ Objects /\ Claims

(* No row, no handler and no run: the invariant starts out true. *)
LEMMA InductiveInit == Init => Inductive
  BY TypeInit DEF Init, Inductive, Custody, Progress, Objects, Claims, Holding, Claimed

(* Steps that leave the cleanup runs alone keep their claims when no row
   leaves the hands of the cleanup, becomes free, or loses its settled mark. *)
LEMMA ClaimsKept ==
  ASSUME TypeOK, Claims, UNCHANGED workVars, stored' = stored,
         \A a \in Assets :
           /\ state[a] # "FREE" => state'[a] # "FREE"
           /\ state[a] \in {"DELETE_PENDING", "DELETED"} =>
                state'[a] \in {"DELETE_PENDING", "DELETED"}
           /\ settled[a] => settled'[a]
  PROVE  Claims'
  BY DEF TypeOK, WorkerTypes, Claims, Claimed, workVars

(* One step per action, one case per part of the invariant. *)
LEMMA InductiveStep == Inductive /\ [Next]_vars => Inductive'
<1> SUFFICES ASSUME Inductive, [Next]_vars PROVE Inductive'
  OBVIOUS
<1>0. TypeOK'
  BY TypeStep DEF Inductive
<1> USE NoOneAssumption DEF Inductive, TypeOK, AssetTypes, RequestTypes, WorkerTypes,
        Custody, Progress, Objects, Claims, Holding, Claimed,
        assetVars, storeVars, memberVars, reqVars, workVars
<1>1. ASSUME NEW r \in Requests, NEW m \in Members, BeginRegister(r, m) PROVE (Custody /\ Progress /\ Objects /\ Claims)'
  <2>1. Custody'
    BY <1>1 DEF BeginRegister, Start
  <2>2. Progress'
    BY <1>1 DEF BeginRegister, Start
  <2>3. Objects'
    BY <1>1 DEF BeginRegister, Start
  <2>4. Claims'
    BY <1>1 DEF BeginRegister, Start
  <2> QED
    BY <2>1, <2>2, <2>3, <2>4
<1>2. ASSUME NEW r \in Requests, NEW m \in Members, BeginResubmit(r, m) PROVE (Custody /\ Progress /\ Objects /\ Claims)'
  <2>1. Custody'
    BY <1>2 DEF BeginResubmit, Start
  <2>2. Progress'
    BY <1>2 DEF BeginResubmit, Start
  <2>3. Objects'
    BY <1>2 DEF BeginResubmit, Start
  <2>4. Claims'
    BY <1>2 DEF BeginResubmit, Start
  <2> QED
    BY <2>1, <2>2, <2>3, <2>4
<1>3. ASSUME NEW r \in Requests, CountUnreleased(r) PROVE (Custody /\ Progress /\ Objects /\ Claims)'
  <2>1. Custody'
    BY <1>3 DEF CountUnreleased, End
  <2>2. Progress'
    BY <1>3 DEF CountUnreleased, End
  <2>3. Objects'
    BY <1>3 DEF CountUnreleased, End
  <2>4. Claims'
    BY <1>3 DEF CountUnreleased, End
  <2> QED
    BY <2>1, <2>2, <2>3, <2>4
<1>4. ASSUME NEW r \in Requests, NEW a \in Assets, CreateStaging(r, a) PROVE (Custody /\ Progress /\ Objects /\ Claims)'
  <2>1. Custody'
    BY <1>4 DEF CreateStaging
  <2>2. Progress'
    BY <1>4 DEF CreateStaging
  <2>3. Objects'
    BY <1>4 DEF CreateStaging
  <2>4. Claims'
    BY <1>4 DEF CreateStaging
  <2> QED
    BY <2>1, <2>2, <2>3, <2>4
<1>5. ASSUME NEW r \in Requests, SerializationFailure(r) PROVE (Custody /\ Progress /\ Objects /\ Claims)'
  <2>1. Custody'
    BY <1>5 DEF SerializationFailure, End
  <2>2. Progress'
    BY <1>5 DEF SerializationFailure, End
  <2>3. Objects'
    BY <1>5 DEF SerializationFailure, End
  <2>4. Claims'
    BY <1>5 DEF SerializationFailure, End
  <2> QED
    BY <2>1, <2>2, <2>3, <2>4
<1>6. ASSUME NEW r \in Requests, StartWrite(r) PROVE (Custody /\ Progress /\ Objects /\ Claims)'
  <2>1. Custody'
    BY <1>6 DEF StartWrite
  <2>2. Progress'
    BY <1>6 DEF StartWrite
  <2>3. Objects'
    BY <1>6 DEF StartWrite
  <2>4. Claims'
    BY <1>6 DEF StartWrite
  <2> QED
    BY <2>1, <2>2, <2>3, <2>4
<1>7. ASSUME NEW r \in Requests, LeaseRanOut(r) PROVE (Custody /\ Progress /\ Objects /\ Claims)'
  <2>1. Custody'
    BY <1>7 DEF LeaseRanOut, Move
  <2>2. Progress'
    BY <1>7 DEF LeaseRanOut, Move
  <2>3. Objects'
    BY <1>7 DEF LeaseRanOut, Move
  <2>4. Claims'
    BY <1>7 DEF LeaseRanOut, Move
  <2> QED
    BY <2>1, <2>2, <2>3, <2>4
<1>8. ASSUME NEW r \in Requests, WriteAnswered(r) PROVE (Custody /\ Progress /\ Objects /\ Claims)'
  <2>1. Custody'
    BY <1>8 DEF WriteAnswered, Move
  <2>2. Progress'
    BY <1>8 DEF WriteAnswered, Move
  <2>3. Objects'
    BY <1>8 DEF WriteAnswered, Move
  <2>4. Claims'
    BY <1>8 DEF WriteAnswered, Move
  <2> QED
    BY <2>1, <2>2, <2>3, <2>4
<1>9. ASSUME NEW r \in Requests, Settle(r) PROVE (Custody /\ Progress /\ Objects /\ Claims)'
  <2>1. Custody'
    BY <1>9 DEF Settle
  <2>2. Progress'
    BY <1>9 DEF Settle
  <2>3. Objects'
    BY <1>9 DEF Settle
  <2>4. Claims'
    BY <1>9 DEF Settle
  <2> QED
    BY <2>1, <2>2, <2>3, <2>4
<1>10. ASSUME NEW r \in Requests, ConfirmLease(r) PROVE (Custody /\ Progress /\ Objects /\ Claims)'
  <2>1. Custody'
    BY <1>10 DEF ConfirmLease, Move
  <2>2. Progress'
    BY <1>10 DEF ConfirmLease, Move
  <2>3. Objects'
    BY <1>10 DEF ConfirmLease, Move
  <2>4. Claims'
    BY <1>10 DEF ConfirmLease, Move
  <2> QED
    BY <2>1, <2>2, <2>3, <2>4
<1>11. ASSUME NEW r \in Requests, StageThrows(r) PROVE (Custody /\ Progress /\ Objects /\ Claims)'
  <2>1. Custody'
    BY <1>11 DEF StageThrows, Move
  <2>2. Progress'
    BY <1>11 DEF StageThrows, Move
  <2>3. Objects'
    BY <1>11 DEF StageThrows, Move
  <2>4. Claims'
    BY <1>11 DEF StageThrows, Move
  <2> QED
    BY <2>1, <2>2, <2>3, <2>4
<1>12. ASSUME NEW r \in Requests, PersistFailure(r) PROVE (Custody /\ Progress /\ Objects /\ Claims)'
  <2>1. Custody'
    BY <1>12 DEF PersistFailure, End, Release
  <2>2. Progress'
    BY <1>12 DEF PersistFailure, End, Release
  <2>3. Objects'
    BY <1>12 DEF PersistFailure, End, Release
  <2>4. Claims'
    <3>1. \A a \in Assets :
            /\ state[a] # "FREE" => state'[a] # "FREE"
            /\ state[a] \in {"DELETE_PENDING", "DELETED"} =>
                 state'[a] \in {"DELETE_PENDING", "DELETED"}
            /\ settled[a] => settled'[a]
      BY <1>12 DEF PersistFailure, Release
    <3>2. UNCHANGED <<workVars, stored>>
      BY <1>12 DEF PersistFailure
    <3> QED
      BY <3>1, <3>2, ClaimsKept
  <2> QED
    BY <2>1, <2>2, <2>3, <2>4
<1>13. ASSUME NEW r \in Requests, RegisterAccount(r) PROVE (Custody /\ Progress /\ Objects /\ Claims)'
  <2>1. Custody'
    BY <1>13 DEF RegisterAccount, End
  <2>2. Progress'
    BY <1>13 DEF RegisterAccount, End
  <2>3. Objects'
    <3> DEFINE a == rasset[r]
    <3>1. a \in Assets /\ state[a] = "STAGING" /\ settled[a] /\ put[a] = "landed" /\ a \in stored
      BY <1>13 DEF RegisterAccount, Leased
    <3>2. state'[a] = "READY"
      BY <1>13, <3>1 DEF RegisterAccount
    <3>3. \A b \in Assets \ {a} :
             \/ state'[b] = state[b]
             \/ state[b] \notin {"FREE", "DELETED"} /\ state'[b] = "DELETE_PENDING"
      BY <1>13, <3>1 DEF RegisterAccount
    <3>4. UNCHANGED <<settled, put, stored, wpc, wscope, wbatch, wsettled, wasset>>
      BY <1>13 DEF RegisterAccount
    <3> HIDE DEF a
    <3> QED
      BY <3>1, <3>2, <3>3, <3>4
  <2>4. Claims'
    <3> DEFINE a == rasset[r]
    <3>1. a \in Assets /\ state[a] = "STAGING" /\ settled[a] /\ put[a] = "landed" /\ a \in stored
      BY <1>13 DEF RegisterAccount, Leased
    <3>2. state'[a] = "READY"
      BY <1>13, <3>1 DEF RegisterAccount
    <3>3. \A b \in Assets \ {a} :
             \/ state'[b] = state[b]
             \/ state[b] \notin {"FREE", "DELETED"} /\ state'[b] = "DELETE_PENDING"
      BY <1>13, <3>1 DEF RegisterAccount
    <3>4. UNCHANGED <<settled, put, stored, wpc, wscope, wbatch, wsettled, wasset>>
      BY <1>13 DEF RegisterAccount
    <3> HIDE DEF a
    <3> QED
      BY <3>1, <3>2, <3>3, <3>4, ClaimsKept
  <2> QED
    BY <2>1, <2>2, <2>3, <2>4
<1>14. ASSUME NEW r \in Requests, ResubmitCard(r) PROVE (Custody /\ Progress /\ Objects /\ Claims)'
  <2>1. Custody'
    BY <1>14 DEF ResubmitCard, End, Withdrawn
  <2>2. Progress'
    BY <1>14 DEF ResubmitCard, End, Withdrawn
  <2>3. Objects'
    <3> DEFINE a == rasset[r]
    <3>1. a \in Assets /\ state[a] = "STAGING" /\ settled[a] /\ put[a] = "landed" /\ a \in stored
      BY <1>14 DEF ResubmitCard, Withdrawn, Leased
    <3>2. state'[a] = "READY"
      BY <1>14, <3>1 DEF ResubmitCard, Withdrawn
    <3>3. \A b \in Assets \ {a} :
             \/ state'[b] = state[b]
             \/ state[b] \notin {"FREE", "DELETED"} /\ state'[b] = "DELETE_PENDING"
      BY <1>14, <3>1 DEF ResubmitCard, Withdrawn
    <3>4. UNCHANGED <<settled, put, stored, wpc, wscope, wbatch, wsettled, wasset>>
      BY <1>14 DEF ResubmitCard, Withdrawn
    <3> HIDE DEF a
    <3> QED
      BY <3>1, <3>2, <3>3, <3>4
  <2>4. Claims'
    <3> DEFINE a == rasset[r]
    <3>1. a \in Assets /\ state[a] = "STAGING" /\ settled[a] /\ put[a] = "landed" /\ a \in stored
      BY <1>14 DEF ResubmitCard, Withdrawn, Leased
    <3>2. state'[a] = "READY"
      BY <1>14, <3>1 DEF ResubmitCard, Withdrawn
    <3>3. \A b \in Assets \ {a} :
             \/ state'[b] = state[b]
             \/ state[b] \notin {"FREE", "DELETED"} /\ state'[b] = "DELETE_PENDING"
      BY <1>14, <3>1 DEF ResubmitCard, Withdrawn
    <3>4. UNCHANGED <<settled, put, stored, wpc, wscope, wbatch, wsettled, wasset>>
      BY <1>14 DEF ResubmitCard, Withdrawn
    <3> HIDE DEF a
    <3> QED
      BY <3>1, <3>2, <3>3, <3>4, ClaimsKept
  <2> QED
    BY <2>1, <2>2, <2>3, <2>4
<1>15. ASSUME NEW r \in Requests, Abandon(r) PROVE (Custody /\ Progress /\ Objects /\ Claims)'
  <2>1. Custody'
    BY <1>15 DEF Abandon, End
  <2>2. Progress'
    BY <1>15 DEF Abandon, End
  <2>3. Objects'
    BY <1>15 DEF Abandon, End
  <2>4. Claims'
    BY <1>15 DEF Abandon, End
  <2> QED
    BY <2>1, <2>2, <2>3, <2>4
<1>16. ASSUME NEW w \in Workers, NEW m \in Members, ReviewApprove(w, m) PROVE (Custody /\ Progress /\ Objects /\ Claims)'
  <2>1. Custody'
    BY <1>16 DEF ReviewApprove, Withdrawn
  <2>2. Progress'
    BY <1>16 DEF ReviewApprove, Withdrawn
  <2>3. Objects'
    BY <1>16 DEF ReviewApprove, Withdrawn
  <2>4. Claims'
    BY <1>16 DEF ReviewApprove, Withdrawn
  <2> QED
    BY <2>1, <2>2, <2>3, <2>4
<1>17. ASSUME NEW w \in Workers, StartCleanup(w) PROVE (Custody /\ Progress /\ Objects /\ Claims)'
  <2>1. Custody'
    BY <1>17 DEF StartCleanup, Turn
  <2>2. Progress'
    BY <1>17 DEF StartCleanup, Turn
  <2>3. Objects'
    BY <1>17 DEF StartCleanup, Turn
  <2>4. Claims'
    BY <1>17 DEF StartCleanup, Turn
  <2> QED
    BY <2>1, <2>2, <2>3, <2>4
<1>18. ASSUME NEW w \in Workers, Sweep(w) PROVE (Custody /\ Progress /\ Objects /\ Claims)'
  <2>1. Custody'
    BY <1>18 DEF Sweep, Orphans
  <2>2. Progress'
    BY <1>18 DEF Sweep, Orphans
  <2>3. Objects'
    BY <1>18 DEF Sweep, Orphans
  <2>4. Claims'
    BY <1>18 DEF Sweep, Orphans
  <2> QED
    BY <2>1, <2>2, <2>3, <2>4
<1>19. ASSUME NEW w \in Workers, SweepFails(w) PROVE (Custody /\ Progress /\ Objects /\ Claims)'
  <2>1. Custody'
    BY <1>19 DEF SweepFails, Turn
  <2>2. Progress'
    BY <1>19 DEF SweepFails, Turn
  <2>3. Objects'
    BY <1>19 DEF SweepFails, Turn
  <2>4. Claims'
    BY <1>19 DEF SweepFails, Turn
  <2> QED
    BY <2>1, <2>2, <2>3, <2>4
<1>20. ASSUME NEW w \in Workers, Scan(w) PROVE (Custody /\ Progress /\ Objects /\ Claims)'
  <2>1. Custody'
    BY <1>20 DEF Scan, Eligible
  <2>2. Progress'
    BY <1>20 DEF Scan, Eligible
  <2>3. Objects'
    BY <1>20 DEF Scan, Eligible
  <2>4. Claims'
    BY <1>20 DEF Scan, Eligible
  <2> QED
    BY <2>1, <2>2, <2>3, <2>4
<1>21. ASSUME NEW w \in Workers, NEW a \in Assets, Claim(w, a) PROVE (Custody /\ Progress /\ Objects /\ Claims)'
  <2>1. Custody'
    BY <1>21 DEF Claim
  <2>2. Progress'
    BY <1>21 DEF Claim
  <2>3. Objects'
    BY <1>21 DEF Claim
  <2>4. Claims'
    BY <1>21 DEF Claim
  <2> QED
    BY <2>1, <2>2, <2>3, <2>4
<1>22. ASSUME NEW w \in Workers, NEW a \in Assets, Skip(w, a) PROVE (Custody /\ Progress /\ Objects /\ Claims)'
  <2>1. Custody'
    BY <1>22 DEF Skip
  <2>2. Progress'
    BY <1>22 DEF Skip
  <2>3. Objects'
    BY <1>22 DEF Skip
  <2>4. Claims'
    BY <1>22 DEF Skip
  <2> QED
    BY <2>1, <2>2, <2>3, <2>4
<1>23. ASSUME NEW w \in Workers, Demote(w) PROVE (Custody /\ Progress /\ Objects /\ Claims)'
  <2>1. Custody'
    BY <1>23 DEF Demote
  <2>2. Progress'
    BY <1>23 DEF Demote
  <2>3. Objects'
    BY <1>23 DEF Demote
  <2>4. Claims'
    BY <1>23 DEF Demote
  <2> QED
    BY <2>1, <2>2, <2>3, <2>4
<1>24. ASSUME NEW w \in Workers, DeleteObject(w) PROVE (Custody /\ Progress /\ Objects /\ Claims)'
  <2>1. Custody'
    BY <1>24 DEF DeleteObject
  <2>2. Progress'
    BY <1>24 DEF DeleteObject
  <2>3. Objects'
    BY <1>24 DEF DeleteObject
  <2>4. Claims'
    BY <1>24 DEF DeleteObject
  <2> QED
    BY <2>1, <2>2, <2>3, <2>4
<1>25. ASSUME NEW w \in Workers, Head(w) PROVE (Custody /\ Progress /\ Objects /\ Claims)'
  <2>1. Custody'
    BY <1>25 DEF Head, Turn
  <2>2. Progress'
    BY <1>25 DEF Head, Turn
  <2>3. Objects'
    BY <1>25 DEF Head, Turn
  <2>4. Claims'
    BY <1>25 DEF Head, Turn
  <2> QED
    BY <2>1, <2>2, <2>3, <2>4
<1>26. ASSUME NEW w \in Workers, KeepQuota(w) PROVE (Custody /\ Progress /\ Objects /\ Claims)'
  <2>1. Custody'
    BY <1>26 DEF KeepQuota, Continue
  <2>2. Progress'
    BY <1>26 DEF KeepQuota, Continue
  <2>3. Objects'
    BY <1>26 DEF KeepQuota, Continue
  <2>4. Claims'
    BY <1>26 DEF KeepQuota, Continue
  <2> QED
    BY <2>1, <2>2, <2>3, <2>4
<1>27. ASSUME NEW w \in Workers, ReleaseQuota(w) PROVE (Custody /\ Progress /\ Objects /\ Claims)'
  <2>1. Custody'
    BY <1>27 DEF ReleaseQuota, Continue
  <2>2. Progress'
    BY <1>27 DEF ReleaseQuota, Continue
  <2>3. Objects'
    BY <1>27 DEF ReleaseQuota, Continue
  <2>4. Claims'
    BY <1>27 DEF ReleaseQuota, Continue
  <2> QED
    BY <2>1, <2>2, <2>3, <2>4
<1>28. ASSUME NEW w \in Workers, CleanupThrows(w) PROVE (Custody /\ Progress /\ Objects /\ Claims)'
  <2>1. Custody'
    BY <1>28 DEF CleanupThrows, Turn
  <2>2. Progress'
    BY <1>28 DEF CleanupThrows, Turn
  <2>3. Objects'
    BY <1>28 DEF CleanupThrows, Turn
  <2>4. Claims'
    BY <1>28 DEF CleanupThrows, Turn
  <2> QED
    BY <2>1, <2>2, <2>3, <2>4
<1>29. ASSUME NEW w \in Workers, RetryLater(w) PROVE (Custody /\ Progress /\ Objects /\ Claims)'
  <2>1. Custody'
    BY <1>29 DEF RetryLater, Continue
  <2>2. Progress'
    BY <1>29 DEF RetryLater, Continue
  <2>3. Objects'
    BY <1>29 DEF RetryLater, Continue
  <2>4. Claims'
    BY <1>29 DEF RetryLater, Continue
  <2> QED
    BY <2>1, <2>2, <2>3, <2>4
<1>30. ASSUME NEW w \in Workers, EndCleanup(w) PROVE (Custody /\ Progress /\ Objects /\ Claims)'
  <2>1. Custody'
    BY <1>30 DEF EndCleanup, Rest
  <2>2. Progress'
    BY <1>30 DEF EndCleanup, Rest
  <2>3. Objects'
    BY <1>30 DEF EndCleanup, Rest
  <2>4. Claims'
    BY <1>30 DEF EndCleanup, Rest
  <2> QED
    BY <2>1, <2>2, <2>3, <2>4
<1>31. ASSUME NEW w \in Workers, WorkerCrash(w) PROVE (Custody /\ Progress /\ Objects /\ Claims)'
  <2>1. Custody'
    BY <1>31 DEF WorkerCrash, Rest
  <2>2. Progress'
    BY <1>31 DEF WorkerCrash, Rest
  <2>3. Objects'
    BY <1>31 DEF WorkerCrash, Rest
  <2>4. Claims'
    BY <1>31 DEF WorkerCrash, Rest
  <2> QED
    BY <2>1, <2>2, <2>3, <2>4
<1>32. ASSUME NEW a \in Assets, PutLands(a) PROVE (Custody /\ Progress /\ Objects /\ Claims)'
  <2>1. Custody'
    BY <1>32 DEF PutLands
  <2>2. Progress'
    BY <1>32 DEF PutLands
  <2>3. Objects'
    BY <1>32 DEF PutLands
  <2>4. Claims'
    BY <1>32 DEF PutLands
  <2> QED
    BY <2>1, <2>2, <2>3, <2>4
<1>33. ASSUME NEW a \in Assets, PutLost(a) PROVE (Custody /\ Progress /\ Objects /\ Claims)'
  <2>1. Custody'
    BY <1>33 DEF PutLost
  <2>2. Progress'
    BY <1>33 DEF PutLost
  <2>3. Objects'
    BY <1>33 DEF PutLost
  <2>4. Claims'
    BY <1>33 DEF PutLost
  <2> QED
    BY <2>1, <2>2, <2>3, <2>4
<1>34. ASSUME NEW m \in Members, ReviewReturn(m) PROVE (Custody /\ Progress /\ Objects /\ Claims)'
  <2>1. Custody'
    BY <1>34 DEF ReviewReturn
  <2>2. Progress'
    BY <1>34 DEF ReviewReturn
  <2>3. Objects'
    BY <1>34 DEF ReviewReturn
  <2>4. Claims'
    BY <1>34 DEF ReviewReturn
  <2> QED
    BY <2>1, <2>2, <2>3, <2>4
<1>35. ASSUME NEW m \in Members, NEW b \in BOOLEAN, SetDisabled(m, b) PROVE (Custody /\ Progress /\ Objects /\ Claims)'
  <2>1. Custody'
    BY <1>35 DEF SetDisabled
  <2>2. Progress'
    BY <1>35 DEF SetDisabled
  <2>3. Objects'
    BY <1>35 DEF SetDisabled
  <2>4. Claims'
    BY <1>35 DEF SetDisabled
  <2> QED
    BY <2>1, <2>2, <2>3, <2>4
<1>36. ASSUME NEW a \in Assets, LeaseExpires(a) PROVE (Custody /\ Progress /\ Objects /\ Claims)'
  <2>1. Custody'
    BY <1>36 DEF LeaseExpires
  <2>2. Progress'
    BY <1>36 DEF LeaseExpires
  <2>3. Objects'
    BY <1>36 DEF LeaseExpires
  <2>4. Claims'
    BY <1>36 DEF LeaseExpires
  <2> QED
    BY <2>1, <2>2, <2>3, <2>4
<1>37. ASSUME NEW a \in Assets, Mature(a) PROVE (Custody /\ Progress /\ Objects /\ Claims)'
  <2>1. Custody'
    BY <1>37 DEF Mature
  <2>2. Progress'
    BY <1>37 DEF Mature
  <2>3. Objects'
    BY <1>37 DEF Mature
  <2>4. Claims'
    BY <1>37 DEF Mature
  <2> QED
    BY <2>1, <2>2, <2>3, <2>4
<1>38. ASSUME NEW a \in Assets, BackoffElapses(a) PROVE (Custody /\ Progress /\ Objects /\ Claims)'
  <2>1. Custody'
    BY <1>38 DEF BackoffElapses
  <2>2. Progress'
    BY <1>38 DEF BackoffElapses
  <2>3. Objects'
    BY <1>38 DEF BackoffElapses
  <2>4. Claims'
    BY <1>38 DEF BackoffElapses
  <2> QED
    BY <2>1, <2>2, <2>3, <2>4
<1>39. ASSUME UNCHANGED vars PROVE (Custody /\ Progress /\ Objects /\ Claims)'
  <2>1. Custody'
    BY <1>39 DEF vars
  <2>2. Progress'
    BY <1>39 DEF vars
  <2>3. Objects'
    BY <1>39 DEF vars
  <2>4. Claims'
    BY <1>39 DEF vars
  <2> QED
    BY <2>1, <2>2, <2>3, <2>4
<1> HIDE DEF TypeOK, AssetTypes, RequestTypes, WorkerTypes, Custody, Progress, Objects, Claims
<1> QED
  BY <1>0, <1>1, <1>2, <1>3, <1>4, <1>5, <1>6, <1>7, <1>8, <1>9, <1>10, <1>11, <1>12, <1>13,
     <1>14, <1>15, <1>16, <1>17, <1>18, <1>19, <1>20, <1>21, <1>22, <1>23, <1>24, <1>25,
     <1>26, <1>27, <1>28, <1>29, <1>30, <1>31, <1>32, <1>33, <1>34, <1>35, <1>36, <1>37,
     <1>38, <1>39 DEF Next, RequestStep, WorkerStep

(* The invariant holds of every reachable state. *)
LEMMA Invariant == Spec => []Inductive
<1> USE InductiveInit, InductiveStep
<1> QED
  BY PTL DEF Spec

(* Every reachable state is well typed. *)
THEOREM TypeSafe == Spec => []TypeOK
  BY Invariant, PTL DEF Inductive

(* The ledger releases a row only when its object is gone and no write of it
   is under way, for any number of handlers, cleanup runs and rows. *)
THEOREM ReleasedIsGone == Spec => []DeletedMeansGone
<1>1. Inductive => DeletedMeansGone
  BY DEF Inductive, Objects, DeletedMeansGone
<1> QED
  BY <1>1, Invariant, PTL

(* READY material is in the bucket, whatever the cleanup runs have read. *)
THEOREM MaterialIsThere == Spec => []ReadyIsStored
<1>1. Inductive => ReadyIsStored
  BY DEF Inductive, Objects, ReadyIsStored
<1> QED
  BY <1>1, Invariant, PTL

-----------------------------------------------------------------------------
(* No step leads out of the cleanup. *)
LEMMA FinalStep ==
  ASSUME Inductive, [Next]_vars, NEW a \in Assets
  PROVE  /\ state[a] = "DELETE_PENDING" => state'[a] \in {"DELETE_PENDING", "DELETED"}
         /\ state[a] = "DELETED" => state'[a] = "DELETED"
<1> DEFINE Final == /\ state[a] = "DELETE_PENDING" => state'[a] \in {"DELETE_PENDING", "DELETED"}
                    /\ state[a] = "DELETED" => state'[a] = "DELETED"
<1> USE DEF Inductive, TypeOK, AssetTypes, RequestTypes, WorkerTypes, assetVars
<1>1. ASSUME NEW r \in Requests, NEW m \in Members, BeginRegister(r, m) PROVE Final
  BY <1>1 DEF BeginRegister, Start
<1>2. ASSUME NEW r \in Requests, NEW m \in Members, BeginResubmit(r, m) PROVE Final
  BY <1>2 DEF BeginResubmit, Start
<1>3. ASSUME NEW r \in Requests, CountUnreleased(r) PROVE Final
  BY <1>3 DEF CountUnreleased, End
<1>4. ASSUME NEW r \in Requests, NEW c \in Assets, CreateStaging(r, c) PROVE Final
  BY <1>4 DEF CreateStaging
<1>5. ASSUME NEW r \in Requests, SerializationFailure(r) PROVE Final
  BY <1>5 DEF SerializationFailure, End
<1>6. ASSUME NEW r \in Requests, StartWrite(r) PROVE Final
  BY <1>6 DEF StartWrite
<1>7. ASSUME NEW r \in Requests, LeaseRanOut(r) PROVE Final
  BY <1>7 DEF LeaseRanOut, Move
<1>8. ASSUME NEW r \in Requests, WriteAnswered(r) PROVE Final
  BY <1>8 DEF WriteAnswered, Move
<1>9. ASSUME NEW r \in Requests, Settle(r) PROVE Final
  BY <1>9 DEF Settle
<1>10. ASSUME NEW r \in Requests, ConfirmLease(r) PROVE Final
  BY <1>10 DEF ConfirmLease, Move
<1>11. ASSUME NEW r \in Requests, StageThrows(r) PROVE Final
  BY <1>11 DEF StageThrows, Move
<1>12. ASSUME NEW r \in Requests, PersistFailure(r) PROVE Final
  BY <1>12 DEF PersistFailure, Release, Custody, Holding
<1>13. ASSUME NEW r \in Requests, RegisterAccount(r) PROVE Final
  BY <1>13 DEF RegisterAccount, Leased
<1>14. ASSUME NEW r \in Requests, ResubmitCard(r) PROVE Final
  BY <1>14 DEF ResubmitCard, Leased, Withdrawn
<1>15. ASSUME NEW r \in Requests, Abandon(r) PROVE Final
  BY <1>15 DEF Abandon, End
<1>16. ASSUME NEW w \in Workers, NEW m \in Members, ReviewApprove(w, m) PROVE Final
  BY <1>16 DEF ReviewApprove, Withdrawn
<1>17. ASSUME NEW w \in Workers, StartCleanup(w) PROVE Final
  BY <1>17 DEF StartCleanup, Turn
<1>18. ASSUME NEW w \in Workers, Sweep(w) PROVE Final
  BY <1>18 DEF Sweep, Orphans
<1>19. ASSUME NEW w \in Workers, SweepFails(w) PROVE Final
  BY <1>19 DEF SweepFails, Turn
<1>20. ASSUME NEW w \in Workers, Scan(w) PROVE Final
  BY <1>20 DEF Scan
<1>21. ASSUME NEW w \in Workers, NEW c \in Assets, Claim(w, c) PROVE Final
  BY <1>21 DEF Claim
<1>22. ASSUME NEW w \in Workers, NEW c \in Assets, Skip(w, c) PROVE Final
  BY <1>22 DEF Skip
<1>23. ASSUME NEW w \in Workers, Demote(w) PROVE Final
  BY <1>23 DEF Demote
<1>24. ASSUME NEW w \in Workers, DeleteObject(w) PROVE Final
  BY <1>24 DEF DeleteObject
<1>25. ASSUME NEW w \in Workers, Head(w) PROVE Final
  BY <1>25 DEF Head, Turn
<1>26. ASSUME NEW w \in Workers, KeepQuota(w) PROVE Final
  BY <1>26 DEF KeepQuota, Continue
<1>27. ASSUME NEW w \in Workers, ReleaseQuota(w) PROVE Final
  BY <1>27 DEF ReleaseQuota, Claims, Claimed
<1>28. ASSUME NEW w \in Workers, CleanupThrows(w) PROVE Final
  BY <1>28 DEF CleanupThrows, Turn
<1>29. ASSUME NEW w \in Workers, RetryLater(w) PROVE Final
  BY <1>29 DEF RetryLater, Continue
<1>30. ASSUME NEW w \in Workers, EndCleanup(w) PROVE Final
  BY <1>30 DEF EndCleanup, Rest
<1>31. ASSUME NEW w \in Workers, WorkerCrash(w) PROVE Final
  BY <1>31 DEF WorkerCrash, Rest
<1>32. ASSUME NEW c \in Assets, PutLands(c) PROVE Final
  BY <1>32 DEF PutLands
<1>33. ASSUME NEW c \in Assets, PutLost(c) PROVE Final
  BY <1>33 DEF PutLost
<1>34. ASSUME NEW m \in Members, ReviewReturn(m) PROVE Final
  BY <1>34 DEF ReviewReturn
<1>35. ASSUME NEW m \in Members, NEW b \in BOOLEAN, SetDisabled(m, b) PROVE Final
  BY <1>35 DEF SetDisabled
<1>36. ASSUME NEW c \in Assets, LeaseExpires(c) PROVE Final
  BY <1>36 DEF LeaseExpires
<1>37. ASSUME NEW c \in Assets, Mature(c) PROVE Final
  BY <1>37 DEF Mature
<1>38. ASSUME NEW c \in Assets, BackoffElapses(c) PROVE Final
  BY <1>38 DEF BackoffElapses
<1>39. ASSUME UNCHANGED vars PROVE Final
  BY <1>39 DEF vars
<1> HIDE DEF Final, Inductive
<1>40. Final
  BY <1>1, <1>2, <1>3, <1>4, <1>5, <1>6, <1>7, <1>8, <1>9, <1>10, <1>11, <1>12, <1>13,
     <1>14, <1>15, <1>16, <1>17, <1>18, <1>19, <1>20, <1>21, <1>22, <1>23, <1>24, <1>25,
     <1>26, <1>27, <1>28, <1>29, <1>30, <1>31, <1>32, <1>33, <1>34, <1>35, <1>36, <1>37,
     <1>38, <1>39 DEF Next, RequestStep, WorkerStep
<1> QED
  BY <1>40 DEF Final

(* Deleted material stays deleted and what cleanup has it keeps: neither a
   late settling write nor a failed run brings a row back. *)
THEOREM NothingComesBack == Spec => CleanupIsFinal
<1>1. Inductive /\ [Next]_vars =>
        [\A a \in Assets :
           /\ state[a] = "DELETE_PENDING" => state'[a] \in {"DELETE_PENDING", "DELETED"}
           /\ state[a] = "DELETED" => state'[a] = "DELETED"]_vars
  BY FinalStep
<1> QED
  BY <1>1, Invariant, PTL DEF Spec, CleanupIsFinal

-----------------------------------------------------------------------------
(* The quota.  A reservation counts in one step and creates in another; the
   aborts of overlapping transactions keep every count that can still commit
   valid, and only a creation adds a row. *)
Counted == QuotaSafe /\ CountsHold

(* The count of unreleased rows is a number. *)
LEMMA FiniteUnreleased == IsFiniteSet(Unreleased)
  BY AssetsAssumption, FS_Subset DEF Unreleased

(* Every other step leaves the unreleased rows or takes some away, and makes
   no count valid that was not. *)
LEMMA OthersOnlyRelease ==
  ASSUME Inductive, [Next]_vars,
         ~\E r \in Requests, a \in Assets : CreateStaging(r, a)
  PROVE  /\ Unreleased' \subseteq Unreleased
         /\ \A q \in Requests : rpc'[q] = "counted" /\ ~rclash'[q] =>
              (rpc[q] = "counted" /\ ~rclash[q]) \/ HasRoom
<1> DEFINE Rows == Unreleased' \subseteq Unreleased
           Counts == \A q \in Requests : rpc'[q] = "counted" /\ ~rclash'[q] =>
                       (rpc[q] = "counted" /\ ~rclash[q]) \/ HasRoom
<1> USE DEF Inductive, TypeOK, AssetTypes, RequestTypes, WorkerTypes, assetVars, reqVars
<1>1. ASSUME NEW r \in Requests, NEW m \in Members, BeginRegister(r, m) PROVE Rows /\ Counts
  BY <1>1 DEF BeginRegister, Unreleased, Start
<1>2. ASSUME NEW r \in Requests, NEW m \in Members, BeginResubmit(r, m) PROVE Rows /\ Counts
  BY <1>2 DEF BeginResubmit, Unreleased, Start
<1>3. ASSUME NEW r \in Requests, CountUnreleased(r) PROVE Rows /\ Counts
  BY <1>3 DEF CountUnreleased, Unreleased, End
<1>4. ASSUME NEW r \in Requests, SerializationFailure(r) PROVE Rows /\ Counts
  BY <1>4 DEF SerializationFailure, Unreleased, End
<1>5. ASSUME NEW r \in Requests, StartWrite(r) PROVE Rows /\ Counts
  BY <1>5 DEF StartWrite, Unreleased
<1>6. ASSUME NEW r \in Requests, LeaseRanOut(r) PROVE Rows /\ Counts
  BY <1>6 DEF LeaseRanOut, Unreleased, Move
<1>7. ASSUME NEW r \in Requests, WriteAnswered(r) PROVE Rows /\ Counts
  BY <1>7 DEF WriteAnswered, Unreleased, Move
<1>8. ASSUME NEW r \in Requests, Settle(r) PROVE Rows /\ Counts
  BY <1>8 DEF Settle, Unreleased
<1>9. ASSUME NEW r \in Requests, ConfirmLease(r) PROVE Rows /\ Counts
  BY <1>9 DEF ConfirmLease, Unreleased, Move
<1>10. ASSUME NEW r \in Requests, StageThrows(r) PROVE Rows /\ Counts
  BY <1>10 DEF StageThrows, Unreleased, Move
<1>11. ASSUME NEW r \in Requests, PersistFailure(r) PROVE Rows /\ Counts
  <2>1. Rows
    BY <1>11 DEF PersistFailure, Unreleased, Release, Custody, Holding
  <2>2. Counts
    BY <1>11 DEF PersistFailure, End
  <2> QED
    BY <2>1, <2>2
<1>12. ASSUME NEW r \in Requests, RegisterAccount(r) PROVE Rows /\ Counts
  <2>1. Rows
    BY <1>12 DEF RegisterAccount, Unreleased, Leased, Custody, Holding
  <2>2. Counts
    BY <1>12 DEF RegisterAccount, End
  <2> QED
    BY <2>1, <2>2
<1>13. ASSUME NEW r \in Requests, ResubmitCard(r) PROVE Rows /\ Counts
  <2>1. Rows
    BY <1>13 DEF ResubmitCard, Unreleased, Leased, Custody, Holding, Withdrawn
  <2>2. Counts
    BY <1>13 DEF ResubmitCard, End
  <2> QED
    BY <2>1, <2>2
<1>14. ASSUME NEW r \in Requests, Abandon(r) PROVE Rows /\ Counts
  BY <1>14 DEF Abandon, Unreleased, End
<1>15. ASSUME NEW w \in Workers, NEW m \in Members, ReviewApprove(w, m) PROVE Rows /\ Counts
  <2>1. Rows
    BY <1>15 DEF ReviewApprove, Unreleased, Withdrawn
  <2>2. Counts
    BY <1>15 DEF ReviewApprove
  <2> QED
    BY <2>1, <2>2
<1>16. ASSUME NEW w \in Workers, StartCleanup(w) PROVE Rows /\ Counts
  BY <1>16 DEF StartCleanup, Unreleased, Turn
<1>17. ASSUME NEW w \in Workers, Sweep(w) PROVE Rows /\ Counts
  <2>1. Rows
    BY <1>17 DEF Sweep, Unreleased, Orphans
  <2>2. Counts
    BY <1>17 DEF Sweep
  <2> QED
    BY <2>1, <2>2
<1>18. ASSUME NEW w \in Workers, SweepFails(w) PROVE Rows /\ Counts
  BY <1>18 DEF SweepFails, Unreleased, Turn
<1>19. ASSUME NEW w \in Workers, Scan(w) PROVE Rows /\ Counts
  BY <1>19 DEF Scan, Unreleased
<1>20. ASSUME NEW w \in Workers, NEW a \in Assets, Claim(w, a) PROVE Rows /\ Counts
  <2>1. Rows
    BY <1>20 DEF Claim, Unreleased, Claims
  <2>2. Counts
    BY <1>20 DEF Claim
  <2> QED
    BY <2>1, <2>2
<1>21. ASSUME NEW w \in Workers, NEW a \in Assets, Skip(w, a) PROVE Rows /\ Counts
  BY <1>21 DEF Skip, Unreleased
<1>22. ASSUME NEW w \in Workers, Demote(w) PROVE Rows /\ Counts
  BY <1>22 DEF Demote, Unreleased
<1>23. ASSUME NEW w \in Workers, DeleteObject(w) PROVE Rows /\ Counts
  BY <1>23 DEF DeleteObject, Unreleased
<1>24. ASSUME NEW w \in Workers, Head(w) PROVE Rows /\ Counts
  BY <1>24 DEF Head, Unreleased, Turn
<1>25. ASSUME NEW w \in Workers, KeepQuota(w) PROVE Rows /\ Counts
  BY <1>25 DEF KeepQuota, Unreleased, Continue
<1>26. ASSUME NEW w \in Workers, ReleaseQuota(w) PROVE Rows /\ Counts
  <2>1. Rows
    BY <1>26 DEF ReleaseQuota, Unreleased, Claims, Claimed
  <2>2. Counts
    BY <1>26 DEF ReleaseQuota, Continue
  <2> QED
    BY <2>1, <2>2
<1>27. ASSUME NEW w \in Workers, CleanupThrows(w) PROVE Rows /\ Counts
  BY <1>27 DEF CleanupThrows, Unreleased, Turn
<1>28. ASSUME NEW w \in Workers, RetryLater(w) PROVE Rows /\ Counts
  BY <1>28 DEF RetryLater, Unreleased, Continue
<1>29. ASSUME NEW w \in Workers, EndCleanup(w) PROVE Rows /\ Counts
  BY <1>29 DEF EndCleanup, Unreleased, Rest
<1>30. ASSUME NEW w \in Workers, WorkerCrash(w) PROVE Rows /\ Counts
  BY <1>30 DEF WorkerCrash, Unreleased, Rest
<1>31. ASSUME NEW a \in Assets, PutLands(a) PROVE Rows /\ Counts
  BY <1>31 DEF PutLands, Unreleased
<1>32. ASSUME NEW a \in Assets, PutLost(a) PROVE Rows /\ Counts
  BY <1>32 DEF PutLost, Unreleased
<1>33. ASSUME NEW m \in Members, ReviewReturn(m) PROVE Rows /\ Counts
  BY <1>33 DEF ReviewReturn, Unreleased
<1>34. ASSUME NEW m \in Members, NEW b \in BOOLEAN, SetDisabled(m, b) PROVE Rows /\ Counts
  BY <1>34 DEF SetDisabled, Unreleased
<1>35. ASSUME NEW a \in Assets, LeaseExpires(a) PROVE Rows /\ Counts
  BY <1>35 DEF LeaseExpires, Unreleased
<1>36. ASSUME NEW a \in Assets, Mature(a) PROVE Rows /\ Counts
  BY <1>36 DEF Mature, Unreleased
<1>37. ASSUME NEW a \in Assets, BackoffElapses(a) PROVE Rows /\ Counts
  BY <1>37 DEF BackoffElapses, Unreleased
<1>38. ASSUME UNCHANGED vars PROVE Rows /\ Counts
  BY <1>38 DEF vars, Unreleased
<1> HIDE DEF Rows, Counts, Inductive
<1>39. Rows /\ Counts
  BY <1>1, <1>2, <1>3, <1>4, <1>5, <1>6, <1>7, <1>8, <1>9, <1>10, <1>11, <1>12, <1>13,
     <1>14, <1>15, <1>16, <1>17, <1>18, <1>19, <1>20, <1>21, <1>22, <1>23, <1>24, <1>25,
     <1>26, <1>27, <1>28, <1>29, <1>30, <1>31, <1>32, <1>33, <1>34, <1>35, <1>36, <1>37,
     <1>38 DEF Next, RequestStep, WorkerStep
<1> QED
  BY <1>39 DEF Rows, Counts

(* The ledger starts empty. *)
LEMMA CountedInit == Init => Counted
<1> SUFFICES ASSUME Init PROVE Counted
  OBVIOUS
<1>1. Unreleased = {}
  BY DEF Init, Unreleased
<1>2. Cardinality(Unreleased) = 0
  BY <1>1, FS_EmptySet
<1> QED
  BY <1>2, BoundAssumption DEF Counted, QuotaSafe, CountsHold, Init

(* A reservation that may commit has room, and only it adds a row. *)
LEMMA CountedStep == Inductive /\ Counted /\ [Next]_vars => Counted'
<1> SUFFICES ASSUME Inductive, Counted, [Next]_vars PROVE Counted'
  OBVIOUS
<1>0. Cardinality(Unreleased) \in Nat
  BY FiniteUnreleased, FS_CardinalityType
<1>1. ASSUME NEW r \in Requests, NEW a \in Assets, CreateStaging(r, a) PROVE Counted'
  <2>1. Cardinality(Unreleased) < Quota
    BY <1>1 DEF CreateStaging, Counted, CountsHold, HasRoom
  <2>2. Unreleased' = Unreleased \cup {a} /\ a \notin Unreleased
    BY <1>1 DEF CreateStaging, Unreleased, Inductive, TypeOK, AssetTypes
  <2>3. Cardinality(Unreleased') = Cardinality(Unreleased) + 1
    BY <2>2, FiniteUnreleased, FS_AddElement
  <2>4. QuotaSafe'
    BY <1>0, <2>1, <2>3, BoundAssumption DEF QuotaSafe
  <2>5. CountsHold'
    BY <1>1 DEF CreateStaging, CountsHold, Inductive, TypeOK, RequestTypes
  <2> QED
    BY <2>4, <2>5 DEF Counted
<1>2. ASSUME ~\E r \in Requests, a \in Assets : CreateStaging(r, a) PROVE Counted'
  <2>1. Unreleased' \subseteq Unreleased
    BY <1>2, OthersOnlyRelease
  <2>2. Cardinality(Unreleased') <= Cardinality(Unreleased) /\ Cardinality(Unreleased') \in Nat
    BY <2>1, FiniteUnreleased, FS_Subset, FS_CardinalityType
  <2>3. QuotaSafe'
    BY <1>0, <2>2, BoundAssumption DEF Counted, QuotaSafe
  <2>4. HasRoom => HasRoom'
    BY <1>0, <2>2, BoundAssumption DEF HasRoom
  <2>5. CountsHold'
    BY <1>2, <2>4, OthersOnlyRelease DEF Counted, CountsHold
  <2> QED
    BY <2>3, <2>5 DEF Counted
<1> QED
  BY <1>1, <1>2

(* MAX_UNRELEASED_ASSETS bounds the ledger for every number of concurrent
   reservations. *)
THEOREM QuotaIsKept == Spec => []QuotaSafe
<1>1. Counted => QuotaSafe
  BY DEF Counted
<1> QED
  BY <1>1, Invariant, CountedInit, CountedStep, PTL DEF Spec


(***************************************************************************)
(* The ledger and the accounts fit each other: what a resubmission, a      *)
(* review, an expiry and a cleanup of one account do to each other.  The   *)
(* argument rests on versions: an account never goes back to a version,    *)
(* so a run that has found a row not under review may finish with it.      *)
(***************************************************************************)

(* Bound rows belong to accounts, and no two of an account share a version. *)
Bound ==
  \A a \in Assets :
    /\ state[a] \in {"FREE", "STAGING"} => owner[a] = NoOne
    /\ owner[a] # NoOne => /\ version[a] <= ver[owner[a]]
                           /\ status[owner[a]] \in {"PENDING", "CHANGES_REQUESTED", "APPROVED"}
    /\ \A b \in Assets \ {a} : owner[a] # NoOne /\ owner[b] = owner[a] => version[b] # version[a]

(* Material a reviewer can open is that of the account's version, and the account is not approved. *)
Current ==
  \A a \in Assets : state[a] = "READY" =>
    /\ owner[a] # NoOne /\ version[a] = ver[owner[a]]
    /\ status[owner[a]] # "APPROVED"

(* Nothing of the current version is ready where the account was told that it expired. *)
Expired ==
  \A a \in Assets : state[a] = "READY" => comment[owner[a]] # "expired"

(* A run that has come to the deletion of an object has returned the application that waited on it. *)
Returned ==
  \A w \in Workers : wpc[w] \in {"demoted", "removing", "removed"} => ~Waiting(wasset[w])

(* A request knows its account. *)
Applicant == \A r \in Requests : rpc[r] # "idle" => rmember[r] \in Members

Fitting == Bound /\ Current /\ PendingHasMaterial /\ Expired /\ Returned /\ Applicant

IInv == Inductive /\ Fitting

(* No row is bound and nobody has applied. *)
LEMMA FittingInit == Init => Fitting
  BY NoOneAssumption
     DEF Init, Fitting, Bound, Current, PendingHasMaterial, MaterialOf, Expired, Returned, Applicant

(***************************************************************************)
(* Steps that touch neither accounts nor bindings, bring a row at most     *)
(* closer to the cleanup, and let no run come closer to a deletion.        *)
(***************************************************************************)
LEMMA FittingKept ==
  ASSUME TypeOK, Fitting, UNCHANGED <<owner, version, status, ver, comment>>,
         \A a \in Assets : \/ state'[a] = state[a]
                           \/ state[a] = "FREE" /\ state'[a] = "STAGING"
                           \/ state[a] # "DELETED" /\ state'[a] = "DELETE_PENDING",
         \A w \in Workers : wpc'[w] \in {"demoted", "removing", "removed"} =>
                              wpc[w] \in {"demoted", "removing", "removed"} /\ wasset'[w] = wasset[w],
         \A r \in Requests : rpc'[r] # "idle" => rmember'[r] \in Members
  PROVE  Fitting'
<1> USE DEF Fitting, TypeOK, AssetTypes, MemberTypes
<1>1. Bound'
  BY DEF Bound
<1>2. Current'
  BY DEF Current
<1>3. PendingHasMaterial'
  BY DEF PendingHasMaterial, MaterialOf
<1>4. Expired'
  BY DEF Expired
<1>5. Returned'
  BY DEF Returned, Waiting
<1>6. Applicant'
  BY DEF Applicant
<1> QED
  BY <1>1, <1>2, <1>3, <1>4, <1>5, <1>6

(***************************************************************************)
(* A binding: the row becomes the material of a version the account has    *)
(* not had, and what the account had before goes to the cleanup.           *)
(***************************************************************************)
LEMMA FittingBound ==
  ASSUME TypeOK, Claims, Fitting, NEW m \in Members, NEW a \in Assets, NEW v \in Nat,
         state[a] = "STAGING",
         \A b \in Assets : owner[b] = m => version[b] < v,
         \A b \in Assets \ {a} : /\ state'[b] \in {state[b], "DELETE_PENDING"}
                                 /\ owner[b] = m => state'[b] \in {"DELETE_PENDING", "DELETED"}
                                 /\ owner[b] # m => state'[b] = state[b],
         state'[a] = "READY", UNCHANGED workVars,
         owner' = [owner EXCEPT ![a] = m], version' = [version EXCEPT ![a] = v],
         status' = [status EXCEPT ![m] = "PENDING"], ver' = [ver EXCEPT ![m] = v],
         comment' = [comment EXCEPT ![m] = "none"],
         \A r \in Requests : rpc'[r] # "idle" => rmember'[r] \in Members
  PROVE  Fitting'
<1> USE NoOneAssumption DEF TypeOK, AssetTypes, MemberTypes
<1>1. Bound'
  <2> SUFFICES ASSUME NEW b \in Assets
      PROVE  (/\ state[b] \in {"FREE", "STAGING"} => owner[b] = NoOne
              /\ owner[b] # NoOne => /\ version[b] <= ver[owner[b]]
                                     /\ status[owner[b]] \in {"PENDING", "CHANGES_REQUESTED", "APPROVED"}
              /\ \A c \in Assets \ {b} : owner[b] # NoOne /\ owner[c] = owner[b] => version[c] # version[b])'
    BY DEF Bound
  <2>1. CASE b = a
    BY <2>1 DEF Fitting, Bound
  <2>2. CASE b # a /\ owner[b] = m
    BY <2>2 DEF Fitting, Bound
  <2>3. CASE b # a /\ owner[b] # m
    BY <2>3 DEF Fitting, Bound
  <2> QED
    BY <2>1, <2>2, <2>3
<1>2. Current'
  BY DEF Fitting, Bound, Current
<1>3. PendingHasMaterial'
  <2> SUFFICES ASSUME NEW n \in Members, status'[n] = "PENDING"
      PROVE  \E b \in Assets : owner'[b] = n /\ version'[b] = ver'[n] /\ state'[b] \in {"READY", "DELETE_PENDING"}
    BY DEF PendingHasMaterial, MaterialOf
  <2>1. CASE n = m
    BY <2>1
  <2>2. CASE n # m
    <3>1. PICK b \in Assets : owner[b] = n /\ version[b] = ver[n] /\ state[b] \in {"READY", "DELETE_PENDING"}
      BY <2>2 DEF Fitting, PendingHasMaterial, MaterialOf
    <3> QED
      BY <2>2, <3>1
  <2> QED
    BY <2>1, <2>2
<1>4. Expired'
  BY DEF Fitting, Bound, Current, Expired
<1>5. Returned'
  <2> SUFFICES ASSUME NEW w \in Workers, wpc[w] \in {"demoted", "removing", "removed"} PROVE ~Waiting(wasset[w])'
    BY DEF Returned, workVars
  <2>1. wasset[w] \in Assets \ {a} /\ ~Waiting(wasset[w])
    BY DEF Fitting, Returned, Claims, Claimed
  <2> QED
    BY <2>1 DEF Fitting, Bound, Waiting, workVars
<1>6. Applicant'
  BY DEF Applicant
<1> QED
  BY <1>1, <1>2, <1>3, <1>4, <1>5, <1>6 DEF Fitting

(* One step per action; those that bind, review, return or release are taken apart. *)
LEMMA FittingStep == IInv /\ [Next]_vars => Fitting'
<1> SUFFICES ASSUME IInv, [Next]_vars PROVE Fitting'
  OBVIOUS
<1> USE NoOneAssumption DEF IInv, Inductive, TypeOK, AssetTypes, MemberTypes, RequestTypes, WorkerTypes,
      assetVars, storeVars, memberVars, reqVars, workVars
<1>1. ASSUME NEW r \in Requests, NEW m \in Members, BeginRegister(r, m) PROVE Fitting'
  BY <1>1, FittingKept DEF BeginRegister, Start, Fitting, Applicant
<1>2. ASSUME NEW r \in Requests, NEW m \in Members, BeginResubmit(r, m) PROVE Fitting'
  BY <1>2, FittingKept DEF BeginResubmit, Start, Fitting, Applicant
<1>3. ASSUME NEW r \in Requests, CountUnreleased(r) PROVE Fitting'
  BY <1>3, FittingKept DEF CountUnreleased, End, Fitting, Applicant
<1>4. ASSUME NEW r \in Requests, NEW a \in Assets, CreateStaging(r, a) PROVE Fitting'
  BY <1>4, FittingKept DEF CreateStaging, Fitting, Applicant
<1>5. ASSUME NEW r \in Requests, SerializationFailure(r) PROVE Fitting'
  BY <1>5, FittingKept DEF SerializationFailure, End, Fitting, Applicant
<1>6. ASSUME NEW r \in Requests, StartWrite(r) PROVE Fitting'
  BY <1>6, FittingKept DEF StartWrite, Fitting, Applicant
<1>7. ASSUME NEW r \in Requests, LeaseRanOut(r) PROVE Fitting'
  BY <1>7, FittingKept DEF LeaseRanOut, Move, Fitting, Applicant
<1>8. ASSUME NEW r \in Requests, WriteAnswered(r) PROVE Fitting'
  BY <1>8, FittingKept DEF WriteAnswered, Move, Fitting, Applicant
<1>9. ASSUME NEW r \in Requests, Settle(r) PROVE Fitting'
  BY <1>9, FittingKept DEF Settle, Fitting, Applicant
<1>10. ASSUME NEW r \in Requests, ConfirmLease(r) PROVE Fitting'
  BY <1>10, FittingKept DEF ConfirmLease, Move, Fitting, Applicant
<1>11. ASSUME NEW r \in Requests, StageThrows(r) PROVE Fitting'
  BY <1>11, FittingKept DEF StageThrows, Move, Fitting, Applicant
<1>12. ASSUME NEW r \in Requests, PersistFailure(r) PROVE Fitting'
  BY <1>12, FittingKept DEF PersistFailure, End, Release, Fitting, Applicant
<1>13. ASSUME NEW r \in Requests, RegisterAccount(r) PROVE Fitting'
  <2>1. rmember[r] \in Members /\ rasset[r] \in Assets
    BY <1>13 DEF RegisterAccount, Fitting, Applicant, Custody, Holding
  <2>2. \A b \in Assets : owner[b] # rmember[r]
    <3>1. status[rmember[r]] = "NONE"
      BY <1>13 DEF RegisterAccount
    <3> QED
      BY <2>1, <3>1 DEF Fitting, Bound
  <2>3. \A b \in Assets \ {rasset[r]} : state'[b] = state[b]
    BY <1>13, <2>1 DEF RegisterAccount
  <2>4. state[rasset[r]] = "STAGING" /\ state'[rasset[r]] = "READY"
    BY <1>13, <2>1 DEF RegisterAccount, Leased
  <2>5. \A q \in Requests : rpc'[q] # "idle" => rmember'[q] \in Members
    BY <1>13 DEF RegisterAccount, End, Fitting, Applicant
  <2>6. /\ UNCHANGED workVars
        /\ owner' = [owner EXCEPT ![rasset[r]] = rmember[r]] /\ version' = [version EXCEPT ![rasset[r]] = 1]
        /\ status' = [status EXCEPT ![rmember[r]] = "PENDING"] /\ ver' = [ver EXCEPT ![rmember[r]] = 1]
        /\ comment' = [comment EXCEPT ![rmember[r]] = "none"]
    BY <1>13 DEF RegisterAccount
  <2>7. TypeOK /\ Claims /\ Fitting
    OBVIOUS
  <2> HIDE DEF IInv, Inductive, TypeOK, AssetTypes, MemberTypes, RequestTypes, WorkerTypes,
        assetVars, storeVars, memberVars, reqVars, workVars
  <2> QED
    BY <2>1, <2>2, <2>3, <2>4, <2>5, <2>6, <2>7, FittingBound
<1>14. ASSUME NEW r \in Requests, ResubmitCard(r) PROVE Fitting'
  <2> DEFINE next == rbase[r] + 1
  <2>1. rmember[r] \in Members /\ rasset[r] \in Assets /\ next \in Nat
    BY <1>14 DEF ResubmitCard, Fitting, Applicant, Custody, Holding
  <2>2. \A b \in Assets : owner[b] = rmember[r] => version[b] < next
    BY <1>14, <2>1, SMTT(20) DEF ResubmitCard, Fitting, Bound
  <2>3. \A b \in Assets \ {rasset[r]} :
          /\ state'[b] \in {state[b], "DELETE_PENDING"}
          /\ owner[b] = rmember[r] => state'[b] \in {"DELETE_PENDING", "DELETED"}
          /\ owner[b] # rmember[r] => state'[b] = state[b]
    BY <1>14, <2>1 DEF ResubmitCard, Withdrawn, MaterialOf, Fitting, Bound
  <2>4. state[rasset[r]] = "STAGING" /\ state'[rasset[r]] = "READY"
    BY <1>14, <2>1 DEF ResubmitCard, Leased
  <2>5. \A q \in Requests : rpc'[q] # "idle" => rmember'[q] \in Members
    BY <1>14 DEF ResubmitCard, End, Fitting, Applicant
  <2>6. /\ UNCHANGED workVars
        /\ owner' = [owner EXCEPT ![rasset[r]] = rmember[r]] /\ version' = [version EXCEPT ![rasset[r]] = next]
        /\ status' = [status EXCEPT ![rmember[r]] = "PENDING"] /\ ver' = [ver EXCEPT ![rmember[r]] = next]
        /\ comment' = [comment EXCEPT ![rmember[r]] = "none"]
    BY <1>14 DEF ResubmitCard
  <2>7. TypeOK /\ Claims /\ Fitting
    OBVIOUS
  <2> HIDE DEF next, IInv, Inductive, TypeOK, AssetTypes, MemberTypes, RequestTypes, WorkerTypes,
        assetVars, storeVars, memberVars, reqVars, workVars
  <2> QED
    BY <2>1, <2>2, <2>3, <2>4, <2>5, <2>6, <2>7, FittingBound
<1>15. ASSUME NEW r \in Requests, Abandon(r) PROVE Fitting'
  BY <1>15, FittingKept DEF Abandon, End, Fitting, Applicant
<1>16. ASSUME NEW w \in Workers, NEW m \in Members, ReviewApprove(w, m) PROVE Fitting'
  <2>1. Bound'
    BY <1>16 DEF ReviewApprove, Withdrawn, Fitting, Bound, Current, Applicant
  <2>2. Current'
    <3> SUFFICES ASSUME NEW a \in Assets, state'[a] = "READY"
        PROVE  owner[a] # NoOne /\ version[a] = ver[owner[a]] /\ status'[owner[a]] # "APPROVED"
      BY <1>16 DEF ReviewApprove, Current
    <3>1. state[a] = "READY" /\ owner[a] # m
      BY <1>16 DEF ReviewApprove, Withdrawn, MaterialOf
    <3> QED
      BY <1>16, <3>1 DEF ReviewApprove, Fitting, Current
  <2>3. PendingHasMaterial'
    BY <1>16 DEF ReviewApprove, Withdrawn, Fitting, PendingHasMaterial, MaterialOf, Bound
  <2>4. Expired'
    BY <1>16 DEF ReviewApprove, Withdrawn, Fitting, Expired, Bound, Current
  <2>5. Returned'
    <3> SUFFICES ASSUME NEW v \in Workers, wpc'[v] \in {"demoted", "removing", "removed"}
        PROVE  ~Waiting(wasset[v])'
      BY <1>16 DEF ReviewApprove, Returned
    <3>1. wpc[v] \in {"demoted", "removing", "removed"} /\ wasset'[v] = wasset[v] /\ wasset[v] \in Assets
      BY <1>16 DEF ReviewApprove, Claims, Claimed
    <3>2. ~Waiting(wasset[v])
      BY <3>1 DEF Fitting, Returned
    <3> QED
      BY <1>16, <3>1, <3>2 DEF ReviewApprove, Waiting
  <2>6. Applicant'
    BY <1>16 DEF ReviewApprove, Withdrawn, Fitting, Applicant
  <2> QED
    BY <2>1, <2>2, <2>3, <2>4, <2>5, <2>6 DEF Fitting
<1>17. ASSUME NEW w \in Workers, StartCleanup(w) PROVE Fitting'
  BY <1>17, FittingKept DEF StartCleanup, Turn, Fitting, Applicant
<1>18. ASSUME NEW w \in Workers, Sweep(w) PROVE Fitting'
  BY <1>18, FittingKept DEF Sweep, Orphans, Fitting, Applicant
<1>19. ASSUME NEW w \in Workers, SweepFails(w) PROVE Fitting'
  BY <1>19, FittingKept DEF SweepFails, Turn, Fitting, Applicant
<1>20. ASSUME NEW w \in Workers, Scan(w) PROVE Fitting'
  BY <1>20, FittingKept DEF Scan, Eligible, Fitting, Applicant
<1>21. ASSUME NEW w \in Workers, NEW a \in Assets, Claim(w, a) PROVE Fitting'
  BY <1>21, FittingKept DEF Claim, Fitting, Applicant
<1>22. ASSUME NEW w \in Workers, NEW a \in Assets, Skip(w, a) PROVE Fitting'
  BY <1>22, FittingKept DEF Skip, Fitting, Applicant
<1>23. ASSUME NEW w \in Workers, Demote(w) PROVE Fitting'
  <2>1. Bound'
    BY <1>23 DEF Demote, Fitting, Bound, Current, Applicant
  <2>2. Current'
    BY <1>23 DEF Demote, Fitting, Bound, Current
  <2>3. PendingHasMaterial'
    BY <1>23 DEF Demote, Fitting, PendingHasMaterial, MaterialOf, Bound
  <2>4. Expired'
    <3> SUFFICES ASSUME NEW b \in Assets, state[b] = "READY", comment'[owner[b]] = "expired" PROVE FALSE
      BY <1>23 DEF Demote, Expired
    <3>1. wasset[w] \in Assets /\ state[wasset[w]] # "READY"
      BY <1>23 DEF Demote, Claims, Claimed
    <3>2. comment[owner[b]] # "expired" /\ owner[b] \in Members /\ version[b] = ver[owner[b]]
      BY DEF Fitting, Expired, Current
    <3>3. Waiting(wasset[w]) /\ owner[b] = owner[wasset[w]]
      BY <1>23, <3>1, <3>2 DEF Demote, Waiting
    <3> QED
      BY <3>1, <3>2, <3>3 DEF Waiting, Fitting, Bound
  <2>5. Returned'
    <3> SUFFICES ASSUME NEW v \in Workers, wpc'[v] \in {"demoted", "removing", "removed"}
        PROVE  ~Waiting(wasset[v])'
      BY <1>23 DEF Demote, Returned
    <3>1. wasset[v] \in Assets /\ wasset[w] \in Assets
      BY <1>23 DEF Demote, Claims, Claimed
    <3>2. CASE v = w
      BY <1>23, <3>1, <3>2 DEF Demote, Waiting
    <3>3. CASE v # w
      <4>1. ~Waiting(wasset[v])
        BY <1>23, <3>3 DEF Demote, Fitting, Returned
      <4> QED
        BY <1>23, <3>1, <4>1 DEF Demote, Waiting
    <3> QED
      BY <3>2, <3>3
  <2>6. Applicant'
    BY <1>23 DEF Demote, Fitting, Applicant
  <2> QED
    BY <2>1, <2>2, <2>3, <2>4, <2>5, <2>6 DEF Fitting
<1>24. ASSUME NEW w \in Workers, DeleteObject(w) PROVE Fitting'
  BY <1>24, FittingKept DEF DeleteObject, Fitting, Applicant
<1>25. ASSUME NEW w \in Workers, Head(w) PROVE Fitting'
  BY <1>25, FittingKept DEF Head, Turn, Fitting, Applicant
<1>26. ASSUME NEW w \in Workers, KeepQuota(w) PROVE Fitting'
  BY <1>26, FittingKept DEF KeepQuota, Continue, Fitting, Applicant
<1>27. ASSUME NEW w \in Workers, ReleaseQuota(w) PROVE Fitting'
  <2>1. Bound'
    BY <1>27 DEF ReleaseQuota, Continue, Fitting, Bound, Current, Applicant
  <2>2. Current'
    BY <1>27 DEF ReleaseQuota, Continue, Fitting, Bound, Current
  <2>3. PendingHasMaterial'
    <3> SUFFICES ASSUME NEW n \in Members, status[n] = "PENDING"
        PROVE  \E b \in Assets : owner[b] = n /\ version[b] = ver[n] /\ state'[b] \in {"READY", "DELETE_PENDING"}
      BY <1>27 DEF ReleaseQuota, Continue, PendingHasMaterial, MaterialOf
    <3>1. PICK b \in Assets : owner[b] = n /\ version[b] = ver[n] /\ state[b] \in {"READY", "DELETE_PENDING"}
      BY DEF Fitting, PendingHasMaterial, MaterialOf
    <3>2. b # wasset[w]
      BY <1>27, <3>1 DEF ReleaseQuota, Fitting, Returned, Waiting
    <3> QED
      BY <1>27, <3>1, <3>2 DEF ReleaseQuota
  <2>4. Expired'
    BY <1>27 DEF ReleaseQuota, Continue, Fitting, Expired, Bound, Current
  <2>5. Returned'
    BY <1>27 DEF ReleaseQuota, Continue, Fitting, Returned, Waiting, Bound
  <2>6. Applicant'
    BY <1>27 DEF ReleaseQuota, Continue, Fitting, Applicant
  <2> QED
    BY <2>1, <2>2, <2>3, <2>4, <2>5, <2>6 DEF Fitting
<1>28. ASSUME NEW w \in Workers, CleanupThrows(w) PROVE Fitting'
  BY <1>28, FittingKept DEF CleanupThrows, Turn, Fitting, Applicant
<1>29. ASSUME NEW w \in Workers, RetryLater(w) PROVE Fitting'
  BY <1>29, FittingKept DEF RetryLater, Continue, Fitting, Applicant
<1>30. ASSUME NEW w \in Workers, EndCleanup(w) PROVE Fitting'
  BY <1>30, FittingKept DEF EndCleanup, Rest, Fitting, Applicant
<1>31. ASSUME NEW w \in Workers, WorkerCrash(w) PROVE Fitting'
  BY <1>31, FittingKept DEF WorkerCrash, Rest, Fitting, Applicant
<1>32. ASSUME NEW a \in Assets, PutLands(a) PROVE Fitting'
  BY <1>32, FittingKept DEF PutLands, Fitting, Applicant
<1>33. ASSUME NEW a \in Assets, PutLost(a) PROVE Fitting'
  BY <1>33, FittingKept DEF PutLost, Fitting, Applicant
<1>34. ASSUME NEW m \in Members, ReviewReturn(m) PROVE Fitting'
  <2>1. Bound'
    BY <1>34 DEF ReviewReturn, Fitting, Bound, Current, Applicant
  <2>2. Current'
    BY <1>34 DEF ReviewReturn, Fitting, Bound, Current
  <2>3. PendingHasMaterial'
    BY <1>34 DEF ReviewReturn, Fitting, PendingHasMaterial, MaterialOf, Bound
  <2>4. Expired'
    BY <1>34 DEF ReviewReturn, Fitting, Expired, Bound, Current
  <2>5. Returned'
    BY <1>34 DEF ReviewReturn, Fitting, Returned, Waiting, Bound
  <2>6. Applicant'
    BY <1>34 DEF ReviewReturn, Fitting, Applicant
  <2> QED
    BY <2>1, <2>2, <2>3, <2>4, <2>5, <2>6 DEF Fitting
<1>35. ASSUME NEW m \in Members, NEW b \in BOOLEAN, SetDisabled(m, b) PROVE Fitting'
  BY <1>35, FittingKept DEF SetDisabled, Fitting, Applicant
<1>36. ASSUME NEW a \in Assets, LeaseExpires(a) PROVE Fitting'
  BY <1>36, FittingKept DEF LeaseExpires, Fitting, Applicant
<1>37. ASSUME NEW a \in Assets, Mature(a) PROVE Fitting'
  BY <1>37, FittingKept DEF Mature, Fitting, Applicant
<1>38. ASSUME NEW a \in Assets, BackoffElapses(a) PROVE Fitting'
  BY <1>38, FittingKept DEF BackoffElapses, Fitting, Applicant
<1>39. CASE UNCHANGED vars
  BY <1>39, FittingKept DEF vars, Fitting, Applicant
<1> QED
  BY <1>1, <1>2, <1>3, <1>4, <1>5, <1>6, <1>7, <1>8, <1>9, <1>10, <1>11, <1>12, <1>13, <1>14, <1>15, <1>16,
     <1>17, <1>18, <1>19, <1>20, <1>21, <1>22, <1>23, <1>24, <1>25, <1>26, <1>27, <1>28, <1>29, <1>30,
     <1>31, <1>32, <1>33, <1>34, <1>35, <1>36, <1>37, <1>38, <1>39
     DEF Next, RequestStep, WorkerStep

(* Both invariants hold of every run. *)
LEMMA MaterialInvariant == Spec => []IInv
<1>1. Init => IInv
  BY InductiveInit, FittingInit DEF IInv
<1>2. IInv /\ [Next]_vars => IInv'
  BY InductiveStep, FittingStep DEF IInv
<1> QED
  BY <1>1, <1>2, PTL DEF Spec

(***************************************************************************)
(* An account has at most one material a reviewer can open, of its own     *)
(* version and none once it is approved; what waits for a review has its   *)
(* row (register, resubmit, review and cleanup of member.service.ts).      *)
(***************************************************************************)
THEOREM LedgerFitsAccounts == Spec => []MaterialFits
<1>1. ASSUME IInv PROVE MaterialFits
  <2> USE <1>1 DEF IInv, Inductive, TypeOK, AssetTypes, MemberTypes, Fitting
  <2>1. SoleLiveMaterial
    BY DEF SoleLiveMaterial, Bound, Current
  <2>2. ApprovedMaterialWithdrawn
    BY NoOneAssumption DEF ApprovedMaterialWithdrawn, Bound, Current, AssetStates
  <2> QED
    BY <2>1, <2>2 DEF MaterialFits
<1> QED
  BY <1>1, MaterialInvariant, PTL

(* A user is told that the material expired only when it did (cleanup of member.service.ts). *)
THEOREM ToldTheTruth == Spec => []ExpiryIsTrue
<1>1. IInv => ExpiryIsTrue
  BY DEF IInv, Fitting, Expired, ExpiryIsTrue, MaterialOf
<1> QED
  BY <1>1, MaterialInvariant, PTL

-----------------------------------------------------------------------------
(***************************************************************************)
(* The ledger under restores.  A restore takes the accounts back, and with *)
(* them their versions, so an account may get a version again and the      *)
(* argument from versions is lost.  What remains is enough: all material   *)
(* goes to the cleanup and no application waits, so that one which waits   *)
(* later has got its row since, and no run has come to the row's object    *)
(* without returning the application first.                                *)
(***************************************************************************)

(* Only material that was bound has an owner. *)
Unbound == \A a \in Assets : state[a] \in {"FREE", "STAGING"} => owner[a] = NoOne

(* An application that waits has a row of its version that no run has come to delete. *)
UnderReview ==
  \A m \in Members : status[m] = "PENDING" => \E a \in MaterialOf(m) :
    /\ version[a] = ver[m] /\ state[a] \in {"READY", "DELETE_PENDING"}
    /\ \A w \in Workers : wasset[w] = a => wpc[w] \notin {"demoted", "removing", "removed"}

(* What is ready and was not missed by a restore is the only one of its account's version. *)
SoleButSlipped ==
  \A a \in Assets \ slipped : state[a] = "READY" =>
     /\ owner[a] \in Members
     /\ version[a] = ver[owner[a]]
     /\ status[owner[a]] \in {"PENDING", "CHANGES_REQUESTED"}
     /\ \A b \in Assets \ {a} : state[b] = "READY" => owner[b] # owner[a]

(* A row a restore has missed is that of an account, or of one that is gone. *)
SlippedBound == \A a \in slipped : owner[a] \in Members /\ status[owner[a]] # "NONE"

Carried == Unbound /\ SoleButSlipped /\ SlippedBound /\ UnderReview /\ Applicant

(* No row is bound and nobody has applied. *)
LEMMA CarriedInit == Init /\ slipped = {} => Carried
  BY NoOneAssumption DEF Init, Carried, Unbound, SoleButSlipped, SlippedBound, UnderReview, MaterialOf, Applicant

(***************************************************************************)
(* Steps that touch neither accounts nor bindings, bring a row at most     *)
(* closer to the cleanup, and let no run come closer to a deletion.        *)
(***************************************************************************)
LEMMA CarriedKept ==
  ASSUME TypeOK, Carried, UNCHANGED <<owner, version, status, ver, slipped>>,
         \A a \in Assets : \/ state'[a] = state[a]
                           \/ state[a] = "FREE" /\ state'[a] = "STAGING"
                           \/ state[a] # "DELETED" /\ state'[a] = "DELETE_PENDING",
         \A w \in Workers : wpc'[w] \in {"demoted", "removing", "removed"} =>
                              wpc[w] \in {"demoted", "removing", "removed"} /\ wasset'[w] = wasset[w],
         \A r \in Requests : rpc'[r] # "idle" => rmember'[r] \in Members
  PROVE  Carried'
<1> USE DEF Carried, TypeOK, AssetTypes, MemberTypes
<1>1. Unbound'
  BY DEF Unbound
<1>2. SoleButSlipped'
  BY DEF SoleButSlipped
<1>3. UnderReview'
  BY DEF UnderReview, MaterialOf
<1>4. Applicant'
  BY DEF Applicant
<1>5. SlippedBound'
  BY DEF SlippedBound
<1> QED
  BY <1>1, <1>2, <1>3, <1>4, <1>5

(***************************************************************************)
(* A binding: the row becomes the material of the account's next version,  *)
(* whatever the account had before is with the cleanup, and no run has     *)
(* heard of the row.                                                       *)
(***************************************************************************)
LEMMA CarriedBound ==
  ASSUME TypeOK, Claims, Carried, UNCHANGED slipped, NEW m \in Members, NEW a \in Assets, NEW v \in Nat,
         state[a] = "STAGING", state'[a] = "READY", UNCHANGED workVars,
         \A b \in Assets \ {a} : /\ owner[b] = m => state'[b] \in {"DELETE_PENDING", "DELETED"}
                                 /\ owner[b] # m => state'[b] = state[b],
         owner' = [owner EXCEPT ![a] = m], version' = [version EXCEPT ![a] = v],
         status' = [status EXCEPT ![m] = "PENDING"], ver' = [ver EXCEPT ![m] = v],
         \A r \in Requests : rpc'[r] # "idle" => rmember'[r] \in Members
  PROVE  Carried'
<1> USE NoOneAssumption DEF TypeOK, AssetTypes, MemberTypes
<1>1. Unbound'
  BY DEF Carried, Unbound
<1>2. SoleButSlipped'
  <2>1. \A b \in Assets \ {a} : state'[b] = "READY" => state[b] = "READY" /\ owner[b] # m
    OBVIOUS
  <2> QED
    BY <2>1 DEF Carried, SoleButSlipped
<1>3. UnderReview'
  <2> SUFFICES ASSUME NEW n \in Members, status'[n] = "PENDING"
      PROVE  \E b \in Assets : /\ owner'[b] = n /\ version'[b] = ver'[n]
                               /\ state'[b] \in {"READY", "DELETE_PENDING"}
                               /\ \A w \in Workers : wasset[w] = b =>
                                    wpc[w] \notin {"demoted", "removing", "removed"}
    BY DEF UnderReview, MaterialOf, workVars
  <2>1. CASE n = m
    <3>1. \A w \in Workers : wasset[w] = a => wpc[w] \notin {"demoted", "removing", "removed"}
      BY DEF Claims, Claimed
    <3> QED
      BY <2>1, <3>1
  <2>2. CASE n # m
    <3>1. PICK b \in Assets : /\ owner[b] = n /\ version[b] = ver[n]
                              /\ state[b] \in {"READY", "DELETE_PENDING"}
                              /\ \A w \in Workers : wasset[w] = b =>
                                   wpc[w] \notin {"demoted", "removing", "removed"}
      BY <2>2 DEF Carried, UnderReview, MaterialOf
    <3>2. b # a
      BY <3>1
    <3> QED
      BY <2>2, <3>1, <3>2
  <2> QED
    BY <2>1, <2>2
<1>4. Applicant'
  BY DEF Applicant
<1>5. SlippedBound'
  BY DEF Carried, Unbound, SlippedBound
<1> QED
  BY <1>1, <1>2, <1>3, <1>4, <1>5 DEF Carried

(* One step per action; those that bind, review, return or release are taken apart. *)
LEMMA CarriedStep == Inductive /\ Carried /\ [Next]_vars /\ UNCHANGED slipped => Carried'
<1> SUFFICES ASSUME Inductive, Carried, [Next]_vars, UNCHANGED slipped PROVE Carried'
  OBVIOUS
<1> USE NoOneAssumption DEF Inductive, TypeOK, AssetTypes, MemberTypes, RequestTypes, WorkerTypes,
      assetVars, storeVars, memberVars, reqVars, workVars
<1>1. ASSUME NEW r \in Requests, NEW m \in Members, BeginRegister(r, m) PROVE Carried'
  BY <1>1, CarriedKept DEF BeginRegister, Start, Carried, Applicant
<1>2. ASSUME NEW r \in Requests, NEW m \in Members, BeginResubmit(r, m) PROVE Carried'
  BY <1>2, CarriedKept DEF BeginResubmit, Start, Carried, Applicant
<1>3. ASSUME NEW r \in Requests, CountUnreleased(r) PROVE Carried'
  BY <1>3, CarriedKept DEF CountUnreleased, End, Carried, Applicant
<1>4. ASSUME NEW r \in Requests, NEW a \in Assets, CreateStaging(r, a) PROVE Carried'
  BY <1>4, CarriedKept DEF CreateStaging, Carried, Applicant
<1>5. ASSUME NEW r \in Requests, SerializationFailure(r) PROVE Carried'
  BY <1>5, CarriedKept DEF SerializationFailure, End, Carried, Applicant
<1>6. ASSUME NEW r \in Requests, StartWrite(r) PROVE Carried'
  BY <1>6, CarriedKept DEF StartWrite, Carried, Applicant
<1>7. ASSUME NEW r \in Requests, LeaseRanOut(r) PROVE Carried'
  BY <1>7, CarriedKept DEF LeaseRanOut, Move, Carried, Applicant
<1>8. ASSUME NEW r \in Requests, WriteAnswered(r) PROVE Carried'
  BY <1>8, CarriedKept DEF WriteAnswered, Move, Carried, Applicant
<1>9. ASSUME NEW r \in Requests, Settle(r) PROVE Carried'
  BY <1>9, CarriedKept DEF Settle, Carried, Applicant
<1>10. ASSUME NEW r \in Requests, ConfirmLease(r) PROVE Carried'
  BY <1>10, CarriedKept DEF ConfirmLease, Move, Carried, Applicant
<1>11. ASSUME NEW r \in Requests, StageThrows(r) PROVE Carried'
  BY <1>11, CarriedKept DEF StageThrows, Move, Carried, Applicant
<1>12. ASSUME NEW r \in Requests, PersistFailure(r) PROVE Carried'
  BY <1>12, CarriedKept DEF PersistFailure, End, Release, Carried, Applicant
<1>13. ASSUME NEW r \in Requests, RegisterAccount(r) PROVE Carried'
  <2>1. rmember[r] \in Members /\ rasset[r] \in Assets
    BY <1>13 DEF RegisterAccount, Carried, Applicant, Custody, Holding
  <2>2. \A b \in Assets : owner[b] = rmember[r] => state[b] \in {"DELETE_PENDING", "DELETED"}
    <3>1. status[rmember[r]] = "NONE"
      BY <1>13 DEF RegisterAccount
    <3>2. \A b \in Assets : owner[b] = rmember[r] => state[b] # "READY"
      BY <2>1, <3>1 DEF Carried, SoleButSlipped, SlippedBound
    <3>3. \A b \in Assets : owner[b] = rmember[r] => state[b] \notin {"FREE", "STAGING"}
      BY <2>1 DEF Carried, Unbound
    <3> QED
      BY <3>2, <3>3 DEF AssetStates
  <2>3. \A b \in Assets \ {rasset[r]} : /\ owner[b] = rmember[r] => state'[b] \in {"DELETE_PENDING", "DELETED"}
                                        /\ owner[b] # rmember[r] => state'[b] = state[b]
    BY <1>13, <2>1, <2>2 DEF RegisterAccount
  <2>4. state[rasset[r]] = "STAGING" /\ state'[rasset[r]] = "READY"
    BY <1>13, <2>1 DEF RegisterAccount, Leased
  <2>5. \A q \in Requests : rpc'[q] # "idle" => rmember'[q] \in Members
    BY <1>13 DEF RegisterAccount, End, Carried, Applicant
  <2>6. /\ UNCHANGED workVars
        /\ owner' = [owner EXCEPT ![rasset[r]] = rmember[r]] /\ version' = [version EXCEPT ![rasset[r]] = 1]
        /\ status' = [status EXCEPT ![rmember[r]] = "PENDING"] /\ ver' = [ver EXCEPT ![rmember[r]] = 1]
    BY <1>13 DEF RegisterAccount
  <2>7. TypeOK /\ Claims /\ Carried
    OBVIOUS
  <2> HIDE DEF Inductive, TypeOK, AssetTypes, MemberTypes, RequestTypes, WorkerTypes,
        assetVars, storeVars, memberVars, reqVars, workVars
  <2> QED
    BY <2>1, <2>3, <2>4, <2>5, <2>6, <2>7, CarriedBound
<1>14. ASSUME NEW r \in Requests, ResubmitCard(r) PROVE Carried'
  <2> DEFINE next == rbase[r] + 1
  <2>1. rmember[r] \in Members /\ rasset[r] \in Assets /\ next \in Nat
    BY <1>14 DEF ResubmitCard, Carried, Applicant, Custody, Holding
  <2>2. \A b \in Assets \ {rasset[r]} : /\ owner[b] = rmember[r] => state'[b] \in {"DELETE_PENDING", "DELETED"}
                                        /\ owner[b] # rmember[r] => state'[b] = state[b]
    BY <1>14, <2>1 DEF ResubmitCard, Withdrawn, MaterialOf, Carried, Unbound
  <2>3. state[rasset[r]] = "STAGING" /\ state'[rasset[r]] = "READY"
    BY <1>14, <2>1 DEF ResubmitCard, Leased
  <2>4. \A q \in Requests : rpc'[q] # "idle" => rmember'[q] \in Members
    BY <1>14 DEF ResubmitCard, End, Carried, Applicant
  <2>5. /\ UNCHANGED workVars
        /\ owner' = [owner EXCEPT ![rasset[r]] = rmember[r]] /\ version' = [version EXCEPT ![rasset[r]] = next]
        /\ status' = [status EXCEPT ![rmember[r]] = "PENDING"] /\ ver' = [ver EXCEPT ![rmember[r]] = next]
    BY <1>14 DEF ResubmitCard
  <2>6. TypeOK /\ Claims /\ Carried
    OBVIOUS
  <2> HIDE DEF next, Inductive, TypeOK, AssetTypes, MemberTypes, RequestTypes, WorkerTypes,
        assetVars, storeVars, memberVars, reqVars, workVars
  <2> QED
    BY <2>1, <2>2, <2>3, <2>4, <2>5, <2>6, CarriedBound
<1>15. ASSUME NEW r \in Requests, Abandon(r) PROVE Carried'
  BY <1>15, CarriedKept DEF Abandon, End, Carried, Applicant
<1>16. ASSUME NEW w \in Workers, NEW m \in Members, ReviewApprove(w, m) PROVE Carried'
  <2>1. Unbound'
    BY <1>16 DEF ReviewApprove, Withdrawn, Carried, Unbound
  <2>2. SoleButSlipped'
    <3>1. \A a \in Assets : state'[a] = "READY" => state[a] = "READY" /\ owner[a] # m
      BY <1>16 DEF ReviewApprove, Withdrawn, MaterialOf
    <3> QED
      BY <1>16, <3>1 DEF ReviewApprove, Carried, SoleButSlipped
  <2>3. UnderReview'
    BY <1>16 DEF ReviewApprove, Withdrawn, Carried, UnderReview, MaterialOf
  <2>4. Applicant'
    BY <1>16 DEF ReviewApprove, Carried, Applicant
  <2>5. SlippedBound'
    BY <1>16 DEF ReviewApprove, Carried, SlippedBound
  <2> QED
    BY <2>1, <2>2, <2>3, <2>4, <2>5 DEF Carried
<1>17. ASSUME NEW w \in Workers, StartCleanup(w) PROVE Carried'
  BY <1>17, CarriedKept DEF StartCleanup, Turn, Carried, Applicant
<1>18. ASSUME NEW w \in Workers, Sweep(w) PROVE Carried'
  BY <1>18, CarriedKept DEF Sweep, Orphans, Carried, Applicant
<1>19. ASSUME NEW w \in Workers, SweepFails(w) PROVE Carried'
  BY <1>19, CarriedKept DEF SweepFails, Turn, Carried, Applicant
<1>20. ASSUME NEW w \in Workers, Scan(w) PROVE Carried'
  BY <1>20, CarriedKept DEF Scan, Eligible, Carried, Applicant
<1>21. ASSUME NEW w \in Workers, NEW a \in Assets, Claim(w, a) PROVE Carried'
  BY <1>21, CarriedKept DEF Claim, Carried, Applicant
<1>22. ASSUME NEW w \in Workers, NEW a \in Assets, Skip(w, a) PROVE Carried'
  BY <1>22, CarriedKept DEF Skip, Carried, Applicant
<1>23. ASSUME NEW w \in Workers, Demote(w) PROVE Carried'
  <2>1. Unbound'
    BY <1>23 DEF Demote, Carried, Unbound
  <2>2. SoleButSlipped'
    BY <1>23 DEF Demote, Carried, SoleButSlipped
  <2>3. UnderReview'
    <3> SUFFICES ASSUME NEW n \in Members, status'[n] = "PENDING"
        PROVE  \E b \in Assets : /\ owner[b] = n /\ version[b] = ver[n]
                                 /\ state[b] \in {"READY", "DELETE_PENDING"}
                                 /\ \A v \in Workers : wasset[v] = b =>
                                      wpc'[v] \notin {"demoted", "removing", "removed"}
      BY <1>23 DEF Demote, UnderReview, MaterialOf
    <3>1. wasset[w] \in Assets
      BY <1>23 DEF Demote, Claims, Claimed
    <3>2. status[n] = "PENDING"
      BY <1>23, <3>1 DEF Demote, Waiting
    <3>3. PICK b \in Assets : /\ owner[b] = n /\ version[b] = ver[n]
                              /\ state[b] \in {"READY", "DELETE_PENDING"}
                              /\ \A v \in Workers : wasset[v] = b =>
                                   wpc[v] \notin {"demoted", "removing", "removed"}
      BY <3>2 DEF Carried, UnderReview, MaterialOf
    <3>4. b # wasset[w]
      <4> SUFFICES ASSUME b = wasset[w] PROVE FALSE
        OBVIOUS
      <4>1. Waiting(wasset[w]) /\ owner[wasset[w]] = n
        BY <3>2, <3>3 DEF Waiting
      <4> QED
        BY <1>23, <4>1 DEF Demote
    <3> QED
      BY <1>23, <3>3, <3>4 DEF Demote
  <2>4. Applicant'
    BY <1>23 DEF Demote, Carried, Applicant
  <2>5. SlippedBound'
    BY <1>23 DEF Demote, Carried, SlippedBound
  <2> QED
    BY <2>1, <2>2, <2>3, <2>4, <2>5 DEF Carried
<1>24. ASSUME NEW w \in Workers, DeleteObject(w) PROVE Carried'
  BY <1>24, CarriedKept DEF DeleteObject, Carried, Applicant
<1>25. ASSUME NEW w \in Workers, Head(w) PROVE Carried'
  BY <1>25, CarriedKept DEF Head, Turn, Carried, Applicant
<1>26. ASSUME NEW w \in Workers, KeepQuota(w) PROVE Carried'
  BY <1>26, CarriedKept DEF KeepQuota, Continue, Carried, Applicant
<1>27. ASSUME NEW w \in Workers, ReleaseQuota(w) PROVE Carried'
  <2>1. Unbound'
    BY <1>27 DEF ReleaseQuota, Continue, Carried, Unbound
  <2>2. SoleButSlipped'
    BY <1>27 DEF ReleaseQuota, Continue, Carried, SoleButSlipped
  <2>3. UnderReview'
    <3> SUFFICES ASSUME NEW n \in Members, status[n] = "PENDING"
        PROVE  \E b \in Assets : /\ owner[b] = n /\ version[b] = ver[n]
                                 /\ state'[b] \in {"READY", "DELETE_PENDING"}
                                 /\ \A v \in Workers : wasset'[v] = b =>
                                      wpc'[v] \notin {"demoted", "removing", "removed"}
      BY <1>27 DEF ReleaseQuota, Continue, UnderReview, MaterialOf
    <3>1. PICK b \in Assets : /\ owner[b] = n /\ version[b] = ver[n]
                              /\ state[b] \in {"READY", "DELETE_PENDING"}
                              /\ \A v \in Workers : wasset[v] = b =>
                                   wpc[v] \notin {"demoted", "removing", "removed"}
      BY DEF Carried, UnderReview, MaterialOf
    <3>2. b # wasset[w]
      BY <1>27, <3>1 DEF ReleaseQuota
    <3> QED
      BY <1>27, <3>1, <3>2 DEF ReleaseQuota, Continue
  <2>4. Applicant'
    BY <1>27 DEF ReleaseQuota, Continue, Carried, Applicant
  <2>5. SlippedBound'
    BY <1>27 DEF ReleaseQuota, Continue, Carried, SlippedBound
  <2> QED
    BY <2>1, <2>2, <2>3, <2>4, <2>5 DEF Carried
<1>28. ASSUME NEW w \in Workers, CleanupThrows(w) PROVE Carried'
  BY <1>28, CarriedKept DEF CleanupThrows, Turn, Carried, Applicant
<1>29. ASSUME NEW w \in Workers, RetryLater(w) PROVE Carried'
  BY <1>29, CarriedKept DEF RetryLater, Continue, Carried, Applicant
<1>30. ASSUME NEW w \in Workers, EndCleanup(w) PROVE Carried'
  BY <1>30, CarriedKept DEF EndCleanup, Rest, Carried, Applicant
<1>31. ASSUME NEW w \in Workers, WorkerCrash(w) PROVE Carried'
  BY <1>31, CarriedKept DEF WorkerCrash, Rest, Carried, Applicant
<1>32. ASSUME NEW a \in Assets, PutLands(a) PROVE Carried'
  BY <1>32, CarriedKept DEF PutLands, Carried, Applicant
<1>33. ASSUME NEW a \in Assets, PutLost(a) PROVE Carried'
  BY <1>33, CarriedKept DEF PutLost, Carried, Applicant
<1>34. ASSUME NEW m \in Members, ReviewReturn(m) PROVE Carried'
  <2>1. Unbound'
    BY <1>34 DEF ReviewReturn, Carried, Unbound
  <2>2. SoleButSlipped'
    BY <1>34 DEF ReviewReturn, Carried, SoleButSlipped
  <2>3. UnderReview'
    BY <1>34 DEF ReviewReturn, Carried, UnderReview, MaterialOf
  <2>4. Applicant'
    BY <1>34 DEF ReviewReturn, Carried, Applicant
  <2>5. SlippedBound'
    BY <1>34 DEF ReviewReturn, Carried, SlippedBound
  <2> QED
    BY <2>1, <2>2, <2>3, <2>4, <2>5 DEF Carried
<1>35. ASSUME NEW m \in Members, NEW b \in BOOLEAN, SetDisabled(m, b) PROVE Carried'
  BY <1>35, CarriedKept DEF SetDisabled, Carried, Applicant
<1>36. ASSUME NEW a \in Assets, LeaseExpires(a) PROVE Carried'
  BY <1>36, CarriedKept DEF LeaseExpires, Carried, Applicant
<1>37. ASSUME NEW a \in Assets, Mature(a) PROVE Carried'
  BY <1>37, CarriedKept DEF Mature, Carried, Applicant
<1>38. ASSUME NEW a \in Assets, BackoffElapses(a) PROVE Carried'
  BY <1>38, CarriedKept DEF BackoffElapses, Carried, Applicant
<1>39. CASE UNCHANGED vars
  BY <1>39, CarriedKept DEF vars, Carried, Applicant
<1> QED
  BY <1>1, <1>2, <1>3, <1>4, <1>5, <1>6, <1>7, <1>8, <1>9, <1>10, <1>11, <1>12, <1>13, <1>14, <1>15, <1>16,
     <1>17, <1>18, <1>19, <1>20, <1>21, <1>22, <1>23, <1>24, <1>25, <1>26, <1>27, <1>28, <1>29, <1>30,
     <1>31, <1>32, <1>33, <1>34, <1>35, <1>36, <1>37, <1>38, <1>39
     DEF Next, RequestStep, WorkerStep

(* A backup is a copy of the accounts. *)
Copies == [status : [Members -> MemberStates], ver : [Members -> Nat],
           comment : [Members -> {"none", "returned", "expired", "restored"}],
           disabled : [Members -> BOOLEAN]]

(***************************************************************************)
(* A running restore: the rows it has updated are still unreleased, for    *)
(* they are locked, and every other row that is not released was made      *)
(* since.                                                                  *)
(***************************************************************************)
Session ==
  /\ saved \in Copies
  /\ phase # "idle" => file \in Copies
  /\ held \subseteq Unreleased
  /\ removed \subseteq Members /\ fresh \subseteq Assets /\ slipped \subseteq Assets
  /\ phase # "idle" => \A a \in Assets \ (held \cup fresh) : state[a] = "DELETED"

Restorable == Inductive /\ Counted /\ Carried /\ Session

(* Nothing but the backup and the restore's own notes change. *)
LEMMA KeptByBackup ==
  Restorable /\ UNCHANGED <<vars, slipped>> => (Inductive /\ Counted /\ Carried)'
<1> SUFFICES ASSUME Restorable, UNCHANGED <<vars, slipped>> PROVE (Inductive /\ Counted /\ Carried)'
  OBVIOUS
<1>1. [Next]_vars
  OBVIOUS
<1> QED
  BY <1>1, InductiveStep, CountedStep, CarriedStep DEF Restorable

(* What others do while a restore runs leaves its rows where they are. *)
LEMMA SessionKept ==
  ASSUME Restorable, Next, UNCHANGED restoreVars, \A a \in held : UNCHANGED state[a]
  PROVE  Session'
<1> USE DEF Restorable, Session, restoreVars, savedVars, sessionVars
<1>1. \A a \in Assets : state[a] = "DELETED" => state'[a] = "DELETED"
  BY FinalStep
<1>2. held' \subseteq Unreleased'
  BY DEF Unreleased
<1> QED
  BY <1>1, <1>2

(* Time does not touch the state of a row. *)
LEMMA TimeKept == TimePasses => Next /\ UNCHANGED state
  BY DEF TimePasses, Next, LeaseExpires, Mature, BackoffElapses

(* A restore hands the rows it has updated to the cleanup and takes none from it. *)
LEMMA RestoreHandsOver ==
  ASSUME Restorable, CommitRestore, NEW a \in Assets
  PROVE  /\ state'[a] = IF a \in held THEN "DELETE_PENDING" ELSE state[a]
         /\ state'[a] = "FREE" <=> state[a] = "FREE"
         /\ state'[a] = "DELETED" <=> state[a] = "DELETED"
  BY DEF Restorable, Session, Inductive, TypeOK, AssetTypes, AssetStates, CommitRestore, Unreleased

(* The accounts that come back are accounts. *)
LEMMA RestoreTypes == ASSUME Restorable, CommitRestore PROVE TypeOK'
<1> USE DEF Restorable, Inductive, TypeOK, CommitRestore, reqVars, workVars, storeVars
<1>1. AssetTypes'
  BY DEF AssetTypes, AssetStates
<1>2. MemberTypes'
  <2>1. file \in Copies
    BY DEF Session
  <2> QED
    BY <2>1 DEF MemberTypes, MemberStates, Copies, BroughtBack, InFile
<1>3. RequestTypes'
  BY DEF RequestTypes
<1>4. WorkerTypes'
  BY DEF WorkerTypes
<1> QED
  BY <1>1, <1>2, <1>3, <1>4

(* What handlers and runs hold and have read stays true under a restore. *)
LEMMA RestoreInductive == ASSUME Restorable, CommitRestore PROVE Inductive'
<1>1. /\ Custody /\ Progress /\ Objects /\ Claims
      /\ UNCHANGED <<settled, storeVars, reqVars, workVars>>
  BY DEF Restorable, Inductive, CommitRestore
<1>2. \A a \in Assets : /\ state'[a] = IF a \in held THEN "DELETE_PENDING" ELSE state[a]
                        /\ state'[a] = "FREE" <=> state[a] = "FREE"
                        /\ state'[a] = "DELETED" <=> state[a] = "DELETED"
  BY RestoreHandsOver
<1>3. RequestTypes /\ WorkerTypes
  BY DEF Restorable, Inductive, TypeOK
<1>4. Custody'
  BY <1>1, <1>2, <1>3, NoOneAssumption DEF Custody, Holding, RequestTypes, reqVars
<1>5. Progress'
  BY <1>1 DEF Progress, reqVars, storeVars, Holding
<1>6. Objects'
  BY <1>1, <1>2 DEF Objects, storeVars
<1>7. Claims'
  BY <1>1, <1>2, <1>3 DEF Claims, Claimed, workVars, storeVars, WorkerTypes
<1> QED
  BY <1>4, <1>5, <1>6, <1>7, RestoreTypes DEF Inductive

(* A restore leaves the unreleased rows unreleased, none is added. *)
LEMMA RestoreCounted == ASSUME Restorable, CommitRestore PROVE Counted'
<1>1. Unreleased' = Unreleased
  BY RestoreHandsOver DEF Unreleased
<1>2. Counted /\ UNCHANGED reqVars
  BY DEF Restorable, CommitRestore
<1> QED
  BY <1>1, <1>2 DEF Counted, QuotaSafe, CountsHold, HasRoom, reqVars

(***************************************************************************)
(* After a restore, what is ready and was not missed is the material of an *)
(* account that the restore has not touched, and so is every application   *)
(* that waits.                                                             *)
(***************************************************************************)
LEMMA RestoreCarried == ASSUME Restorable, CommitRestore PROVE Carried'
<1> USE NoOneAssumption DEF Restorable, Inductive, TypeOK, AssetTypes, MemberTypes, Carried
<1> DEFINE written == removed \cup {m \in Members : InFile(m)}
<1>1. \A m \in written : status'[m] \notin {"NONE", "PENDING"}
  BY DEF CommitRestore, BroughtBack, InFile, Session
<1>2. \A m \in Members \ written : UNCHANGED <<status[m], ver[m]>>
  BY DEF CommitRestore
<1>3. \A a \in Assets : state'[a] = IF a \in held THEN "DELETE_PENDING" ELSE state[a]
  BY RestoreHandsOver
<1>4. /\ UNCHANGED <<owner, version, workVars, reqVars>>
      /\ slipped' = slipped \cup {a \in fresh : state[a] = "READY" /\ owner[a] \in removed}
      /\ phase = "deleted"
      /\ \A m \in Members \ removed : InFile(m) => ~Present(m)
  BY DEF CommitRestore
<1>5. Unbound'
  BY <1>3, <1>4 DEF Unbound
<1>6. SoleButSlipped'
  <2> SUFFICES ASSUME NEW a \in Assets, a \notin slipped', state'[a] = "READY"
      PROVE  /\ owner[a] \in Members /\ version[a] = ver'[owner[a]]
             /\ status'[owner[a]] \in {"PENDING", "CHANGES_REQUESTED"}
             /\ \A b \in Assets \ {a} : state'[b] = "READY" => owner[b] # owner[a]
    BY <1>4 DEF SoleButSlipped
  <2>1. a \notin held /\ a \in fresh /\ state[a] = "READY"
    BY <1>3, <1>4 DEF Session
  <2>2. a \notin slipped /\ owner[a] \notin removed
    BY <1>4, <2>1
  <2>3. /\ owner[a] \in Members /\ version[a] = ver[owner[a]]
        /\ status[owner[a]] \in {"PENDING", "CHANGES_REQUESTED"}
        /\ \A b \in Assets \ {a} : state[b] = "READY" => owner[b] # owner[a]
    BY <2>1, <2>2 DEF SoleButSlipped
  <2>4. owner[a] \notin written
    BY <1>4, <2>2, <2>3 DEF Present
  <2> QED
    BY <1>2, <1>3, <2>3, <2>4
<1>7. SlippedBound'
  <2>1. removed \subseteq Members
    BY DEF Session
  <2> QED
    BY <1>1, <1>2, <1>4, <2>1 DEF SlippedBound
<1>8. UnderReview'
  <2> SUFFICES ASSUME NEW m \in Members, status'[m] = "PENDING"
      PROVE  \E a \in Assets : /\ owner[a] = m /\ version[a] = ver'[m]
                               /\ state'[a] \in {"READY", "DELETE_PENDING"}
                               /\ \A w \in Workers : wasset[w] = a =>
                                    wpc[w] \notin {"demoted", "removing", "removed"}
    BY <1>4 DEF UnderReview, MaterialOf, workVars
  <2>1. m \notin written
    BY <1>1
  <2>2. status[m] = "PENDING" /\ ver'[m] = ver[m]
    BY <1>2, <2>1
  <2> QED
    BY <1>3, <2>2 DEF UnderReview, MaterialOf
<1>9. Applicant'
  BY <1>4 DEF Applicant, reqVars
<1> QED
  BY <1>5, <1>6, <1>7, <1>8, <1>9

(* The invariant of the ledger under restores, statement by statement. *)
LEMMA RestorableStep == Restorable /\ [RestoreNext]_<<vars, restoreVars>> => Restorable'
<1> SUFFICES ASSUME Restorable, [RestoreNext]_<<vars, restoreVars>> PROVE Restorable'
  OBVIOUS
<1> USE DEF restoreVars, savedVars, sessionVars
<1>1. CASE (TimePasses \/ (Next /\ Waits)) /\ UNCHANGED restoreVars
  <2>1. Next /\ \A a \in held : UNCHANGED state[a]
    BY <1>1, TimeKept DEF Waits
  <2>2. Inductive' /\ Counted' /\ Carried'
    BY <1>1, <2>1, InductiveStep, CountedStep, CarriedStep DEF Restorable
  <2> QED
    BY <1>1, <2>1, <2>2, SessionKept DEF Restorable
<1>2. CASE TakeBackup
  <2>1. UNCHANGED <<vars, sessionVars>>
    BY <1>2 DEF TakeBackup
  <2>2. Session'
    BY <1>2, <2>1 DEF TakeBackup, Accounts, Copies, Session, Restorable, Inductive, TypeOK, MemberTypes,
         Unreleased, vars, assetVars
  <2> QED
    BY <2>1, <2>2, KeptByBackup DEF Restorable
<1>3. CASE UpdateLedger
  <2>1. UNCHANGED <<vars, saved, removed, slipped>>
    BY <1>3 DEF UpdateLedger
  <2>2. held' = Unreleased /\ fresh' = {a \in Assets : state[a] = "FREE"} /\ file' = saved
    BY <1>3 DEF UpdateLedger, HandedOver
  <2>3. Session'
    BY <2>1, <2>2 DEF Session, Restorable, Unreleased, vars, assetVars
  <2> QED
    BY <2>1, <2>3, KeptByBackup DEF Restorable
<1>4. CASE DeleteAccounts
  <2>1. UNCHANGED <<vars, savedVars, file, held, fresh, slipped>> /\ phase = "handed"
        /\ removed' \subseteq Members
    BY <1>4 DEF DeleteAccounts
  <2>2. Session'
    BY <2>1 DEF Session, Restorable, Unreleased, vars, assetVars
  <2> QED
    BY <2>1, <2>2, KeptByBackup DEF Restorable
<1>5. CASE CommitRestore
  <2>1. Session'
    BY <1>5 DEF Session, Restorable, CommitRestore, EndRestore
  <2> QED
    BY <1>5, <2>1, RestoreInductive, RestoreCounted, RestoreCarried DEF Restorable
<1>6. CASE RollBack
  <2>1. Session' /\ UNCHANGED <<vars, slipped>>
    BY <1>6 DEF Session, Restorable, RollBack, EndRestore
  <2> QED
    BY <2>1, KeptByBackup DEF Restorable
<1>7. CASE UNCHANGED <<vars, restoreVars>>
  <2>1. Session'
    BY <1>7 DEF Session, Restorable, Unreleased, vars, assetVars
  <2> QED
    BY <1>7, <2>1, KeptByBackup DEF Restorable
<1> QED
  BY <1>1, <1>2, <1>3, <1>4, <1>5, <1>6, <1>7 DEF RestoreNext

(* The invariant holds however often backups are taken and restored. *)
LEMMA RestoredInvariant == RestoreSpec => []Restorable
<1>1. RestoreInit => Restorable
  <2> SUFFICES ASSUME RestoreInit PROVE Restorable
    OBVIOUS
  <2>1. Inductive /\ Counted /\ Carried
    BY InductiveInit, CountedInit, CarriedInit DEF RestoreInit
  <2> QED
    BY <2>1 DEF Restorable, Session, Copies, RestoreInit, Accounts, Inductive, TypeOK, MemberTypes
<1> QED
  BY <1>1, RestorableStep, PTL DEF RestoreSpec

(***************************************************************************)
(* Restores of any number of backups, with uploads, reviews and cleanups   *)
(* between their statements, never leave an application under review       *)
(* without its material, nor an account with material of another version   *)
(* or after its approval, but for rows bound between the ledger's update   *)
(* and the deletion of the accounts (backup-restore.service.ts with        *)
(* member.service.ts).                                                     *)
(***************************************************************************)
THEOREM RestoredLedgerFits == RestoreSpec => []RestoredMaterialFits
<1>1. ASSUME Restorable PROVE RestoredMaterialFits
  <2> USE <1>1 DEF Restorable, Inductive, TypeOK, AssetTypes, MemberTypes, Carried
  <2>1. \A a \in Assets \ slipped : owner[a] \in Members /\ status[owner[a]] = "APPROVED" =>
          state[a] \in {"DELETE_PENDING", "DELETED"}
    BY NoOneAssumption DEF SoleButSlipped, Unbound, AssetStates
  <2>2. PendingHasMaterial
    BY DEF PendingHasMaterial, UnderReview
  <2> QED
    BY <2>1, <2>2 DEF RestoredMaterialFits, SoleButSlipped
<1> QED
  BY <1>1, RestoredInvariant, PTL

(* Nor does a restore make the ledger release an object that is still there
   or coming, show one that is not, or exceed its quota. *)
THEOREM RestoredLedgerIsSafe == RestoreSpec => [](DeletedMeansGone /\ ReadyIsStored /\ QuotaSafe)
<1>1. Restorable => DeletedMeansGone /\ ReadyIsStored /\ QuotaSafe
  BY DEF Restorable, Inductive, Objects, Counted, DeletedMeansGone, ReadyIsStored
<1> QED
  BY <1>1, RestoredInvariant, PTL

(* No statement of a restore binds again what the cleanup had, or brings a released row back. *)
THEOREM RestoreBringsNothingBack == RestoreSpec => CleanupIsFinal
<1>1. Restorable /\ [RestoreNext]_<<vars, restoreVars>> =>
        [\A a \in Assets :
           /\ state[a] = "DELETE_PENDING" => state'[a] \in {"DELETE_PENDING", "DELETED"}
           /\ state[a] = "DELETED" => state'[a] = "DELETED"]_vars
  <2> SUFFICES ASSUME Restorable, [RestoreNext]_<<vars, restoreVars>>, NEW a \in Assets, vars' # vars
      PROVE  /\ state[a] = "DELETE_PENDING" => state'[a] \in {"DELETE_PENDING", "DELETED"}
             /\ state[a] = "DELETED" => state'[a] = "DELETED"
    OBVIOUS
  <2>1. CASE Next
    BY <2>1, FinalStep DEF Restorable
  <2>2. CASE CommitRestore
    BY <2>2, RestoreHandsOver
  <2> QED
    BY <2>1, <2>2, TimeKept DEF RestoreNext, TakeBackup, UpdateLedger, DeleteAccounts, RollBack
<1> QED
  BY <1>1, RestoredInvariant, PTL DEF RestoreSpec, CleanupIsFinal
=============================================================================
