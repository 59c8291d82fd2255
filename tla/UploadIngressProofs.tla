------------------------- MODULE UploadIngressProofs -------------------------
(***************************************************************************)
(* The limiter's accounting for every limit and every finite set of calls, *)
(* and the guard's for every schedule of its requests.                     *)
(***************************************************************************)
EXTENDS UploadIngress, FiniteSetTheorems, SequenceTheorems, TLAPS

Inside == {c \in Calls : at[c] = "inside"}

LimiterInv == LimiterTypeOK /\ CounterExact /\ NoLostWakeup /\ QueueExact

(* The sets that the counter and the wake-ups count are finite. *)
LEMMA FiniteSlots ==
  /\ IsFiniteSet(Inside) /\ IsFiniteSet(Woken)
  /\ Cardinality(Inside) \in Nat /\ Cardinality(Woken) \in Nat
  BY CallsAssumption, FS_Subset, FS_CardinalityType DEF Inside, Woken

Distinct(s) == \A j, k \in 1 .. Len(s) : s[j] = s[k] => j = k
Elements(s) == {s[j] : j \in 1 .. Len(s)}

(* An entry of a sequence without repetitions is gone once it is removed, and *)
(* the other entries stay.                                                    *)
LEMMA RemoveAtProperties ==
  ASSUME NEW S, NEW s \in Seq(S), NEW i \in 1 .. Len(s), Distinct(s),
         NEW t, t = RemoveAt(s, i)
  PROVE  /\ t \in Seq(S) /\ Len(t) = Len(s) - 1
         /\ Distinct(t) /\ Elements(t) = Elements(s) \ {s[i]}
<1> DEFINE l == SubSeq(s, 1, i - 1)
           r == SubSeq(s, i + 1, Len(s))
<1>1. /\ l \in Seq(S) /\ Len(l) = i - 1
      /\ \A j \in 1 .. i - 1 : l[j] = s[j]
  BY SubSeqProperties, LenProperties
<1>2. /\ r \in Seq(S) /\ Len(r) = Len(s) - i
      /\ \A j \in 1 .. Len(s) - i : r[j] = s[i + j]
  <2>1. \A j \in i + 1 .. Len(s) : s[j] \in S
    BY LenProperties
  <2>2. \A j \in 1 .. Len(s) - (i + 1) + 1 : r[j] = s[i + 1 + j - 1]
    BY <2>1, SubSeqProperties, LenProperties
  <2> QED
    BY <2>1, <2>2, SubSeqProperties, LenProperties
<1>3. t = l \o r
  BY DEF RemoveAt
<1>4. /\ t \in Seq(S) /\ Len(t) = Len(s) - 1
      /\ \A j \in 1 .. Len(s) - 1 : t[j] = IF j < i THEN s[j] ELSE s[j + 1]
  <2> HIDE DEF l, r
  <2>0. Len(s) \in Nat
    BY LenProperties
  <2>1. /\ t \in Seq(S) /\ Len(t) = Len(l) + Len(r)
        /\ \A j \in 1 .. Len(l) + Len(r) : t[j] = IF j <= Len(l) THEN l[j] ELSE r[j - Len(l)]
    <3>1. l \in Seq(S) /\ r \in Seq(S)
      BY <1>1, <1>2
    <3> QED
      BY <1>3, <3>1, ConcatProperties
  <2>2. Len(l) + Len(r) = Len(s) - 1
    BY <1>1, <1>2, <2>0
  <2>3. ASSUME NEW j \in 1 .. Len(s) - 1 PROVE t[j] = IF j < i THEN s[j] ELSE s[j + 1]
    <3>1. CASE j < i
      BY <1>1, <2>0, <2>1, <2>2, <3>1
    <3>2. CASE ~(j < i)
      <4>1. j - (i - 1) \in 1 .. Len(s) - i
        BY <2>0, <3>2
      <4>2. t[j] = r[j - (i - 1)]
        BY <1>1, <2>0, <2>1, <2>2, <3>2
      <4>3. i + (j - (i - 1)) = j + 1
        BY <2>0
      <4> QED
        BY <1>2, <3>2, <4>1, <4>2, <4>3
    <3> QED
      BY <3>1, <3>2
  <2> QED
    BY <2>1, <2>2, <2>3
<1> HIDE DEF l, r
<1>5. Len(s) \in Nat
  BY LenProperties
<1>6. Distinct(t)
  BY <1>4, <1>5 DEF Distinct
<1>7. ASSUME NEW j \in 1 .. Len(t) PROVE \E k \in 1 .. Len(s) : t[j] = s[k] /\ s[k] # s[i]
  BY <1>4, <1>5 DEF Distinct
<1>8. ASSUME NEW j \in 1 .. Len(s), s[j] # s[i] PROVE \E k \in 1 .. Len(t) : t[k] = s[j]
  <2>1. CASE j < i
    BY <1>4, <1>5, <2>1
  <2>2. CASE j > i
    <3>1. j - 1 \in 1 .. Len(t) /\ ~(j - 1 < i) /\ j - 1 + 1 = j
      BY <1>4, <1>5, <2>2
    <3> QED
      BY <1>4, <3>1
  <2> QED
    BY <1>5, <1>8, <2>1, <2>2
<1>9. Elements(t) = Elements(s) \ {s[i]}
  BY <1>7, <1>8 DEF Elements
<1> QED
  BY <1>4, <1>6, <1>9

-----------------------------------------------------------------------------
(* The limiter starts with nobody inside and nobody waiting. *)
LEMMA LimiterInductiveInit == LimiterInit => LimiterInv
<1> SUFFICES ASSUME LimiterInit PROVE LimiterInv
  OBVIOUS
<1>1. LimiterTypeOK
  BY EmptySeq DEF LimiterInit, LimiterTypeOK, CallSteps
<1>2. CounterExact
  <2>1. Inside = {}
    BY DEF LimiterInit, Inside
  <2> QED
    BY <2>1, FS_EmptySet DEF LimiterInit, CounterExact, Inside
<1>3. NoLostWakeup
  BY DEF LimiterInit, NoLostWakeup
<1>4. QueueExact
  <2>1. Len(queue) = 0
    BY DEF LimiterInit
  <2>2. {c \in Calls : at[c] = "waiting"} = {}
    BY DEF LimiterInit
  <2> QED
    BY <2>1, <2>2, LimitsAssumption DEF QueueExact
<1> QED
  BY <1>1, <1>2, <1>3, <1>4 DEF LimiterInv

(* A call that starts takes a slot below the limit. *)
LEMMA StartKeeps == ASSUME LimiterInv, NEW c \in Calls, Start(c) PROVE LimiterInv'
<1> USE DEF LimiterInv
<1>1. LimiterTypeOK'
  BY DEF Start, LimiterTypeOK, CallSteps
<1>2. Inside' = Inside \cup {c} /\ c \notin Inside
  BY DEF Start, Inside, LimiterTypeOK
<1>3. Woken' = Woken
  BY DEF Start, Woken, LimiterTypeOK
<1>4. CounterExact'
  BY <1>2, FiniteSlots, FS_AddElement DEF Start, CounterExact, Inside
<1>5. NoLostWakeup'
  BY <1>3, FiniteSlots, LimitsAssumption DEF Start, NoLostWakeup, LimiterTypeOK
<1>6. {d \in Calls : at'[d] = "waiting"} = {d \in Calls : at[d] = "waiting"}
  BY DEF Start, LimiterTypeOK
<1>7. QueueExact'
  BY <1>6 DEF Start, QueueExact
<1> QED
  BY <1>1, <1>4, <1>5, <1>7

(* A call queues at the end, behind calls that are not itself. *)
LEMMA EnqueueKeeps == ASSUME LimiterInv, NEW c \in Calls, Enqueue(c) PROVE LimiterInv'
<1> USE DEF LimiterInv
<1>1. /\ queue' \in Seq(Calls) /\ Len(queue') = Len(queue) + 1
      /\ \A i \in 1 .. Len(queue) : queue'[i] = queue[i]
      /\ queue'[Len(queue) + 1] = c
  BY AppendProperties DEF Enqueue, LimiterTypeOK
<1>2. LimiterTypeOK'
  BY <1>1 DEF Enqueue, LimiterTypeOK, CallSteps
<1>3. Inside' = Inside /\ Woken' = Woken
  BY DEF Enqueue, Inside, Woken, LimiterTypeOK
<1>4. CounterExact'
  BY <1>3 DEF Enqueue, CounterExact, Inside
<1>5. NoLostWakeup'
  BY <1>3, FiniteSlots, LimitsAssumption DEF Enqueue, NoLostWakeup, LimiterTypeOK
<1>6. QueueExact'
  <2>1. Len(queue) \in Nat
    BY LenProperties DEF LimiterTypeOK
  <2>2. {d \in Calls : at'[d] = "waiting"} = {d \in Calls : at[d] = "waiting"} \cup {c}
    BY DEF Enqueue, LimiterTypeOK
  <2>3. {queue'[i] : i \in 1 .. Len(queue')} = {queue[i] : i \in 1 .. Len(queue)} \cup {c}
    <3>1. ASSUME NEW i \in 1 .. Len(queue') PROVE queue'[i] \in {queue[j] : j \in 1 .. Len(queue)} \cup {c}
      BY <1>1, <2>1
    <3>2. ASSUME NEW i \in 1 .. Len(queue) PROVE i \in 1 .. Len(queue') /\ queue'[i] = queue[i]
      BY <1>1, <2>1
    <3>3. Len(queue) + 1 \in 1 .. Len(queue')
      BY <1>1, <2>1
    <3> QED
      BY <1>1, <3>1, <3>2, <3>3
  <2>4. Len(queue') <= MaxQueue
    BY <1>1, <2>1, LimitsAssumption DEF Enqueue
  <2>5. \A i \in 1 .. Len(queue) : queue[i] # c
    BY DEF Enqueue, QueueExact
  <2>6. \A i, j \in 1 .. Len(queue') : queue'[i] = queue'[j] => i = j
    BY <1>1, <2>1, <2>5 DEF QueueExact
  <2> QED
    BY <2>2, <2>3, <2>4, <2>6 DEF QueueExact
<1> QED
  BY <1>2, <1>4, <1>5, <1>6

(* A woken call takes the slot it was promised. *)
LEMMA ResumeKeeps == ASSUME LimiterInv, NEW c \in Calls, Resume(c) PROVE LimiterInv'
<1> USE DEF LimiterInv
<1>1. LimiterTypeOK'
  BY DEF Resume, LimiterTypeOK, CallSteps
<1>2. Inside' = Inside \cup {c} /\ c \notin Inside
  BY DEF Resume, Inside, LimiterTypeOK
<1>3. Woken' = Woken \ {c} /\ c \in Woken
  BY DEF Resume, Woken, LimiterTypeOK
<1>4. CounterExact'
  BY <1>2, FiniteSlots, FS_AddElement DEF Resume, CounterExact, Inside
<1>5. NoLostWakeup'
  <2>1. Cardinality(Woken') = Cardinality(Woken) - 1
    BY <1>3, FiniteSlots, FS_RemoveElement
  <2> QED
    BY <2>1, FiniteSlots DEF Resume, NoLostWakeup, LimiterTypeOK
<1>6. {d \in Calls : at'[d] = "waiting"} = {d \in Calls : at[d] = "waiting"}
  BY DEF Resume, LimiterTypeOK
<1>7. QueueExact'
  BY <1>6 DEF Resume, QueueExact
<1> QED
  BY <1>1, <1>4, <1>5, <1>7

(* A call that ends counts back, and promises its slot to the first waiter. *)
LEMMA LeaveKeeps == ASSUME LimiterInv, NEW c \in Calls, Leave(c) PROVE LimiterInv'
<1> USE DEF LimiterInv
<1>1. running > 0
  <2>1. c \in Inside
    BY DEF Leave, Inside
  <2>2. Cardinality(Inside) # 0
    BY <2>1, FiniteSlots, FS_EmptySet
  <2> QED
    BY <2>2, FiniteSlots DEF CounterExact, Inside
<1>2. running' = running - 1 /\ running' \in Nat
  BY <1>1 DEF Leave, LimiterTypeOK
<1>3. CASE queue = <<>>
  <2>1. LimiterTypeOK'
    BY <1>2, <1>3 DEF Leave, LimiterTypeOK, CallSteps
  <2>2. Inside' = Inside \ {c} /\ c \in Inside
    BY <1>3 DEF Leave, Inside, LimiterTypeOK
  <2>3. CounterExact'
    BY <1>2, <2>2, FiniteSlots, FS_RemoveElement DEF CounterExact, Inside
  <2>4. NoLostWakeup'
    BY <1>3 DEF Leave, NoLostWakeup
  <2>5. {d \in Calls : at'[d] = "waiting"} = {d \in Calls : at[d] = "waiting"}
    BY <1>3 DEF Leave, LimiterTypeOK
  <2>6. QueueExact'
    BY <1>3, <2>5 DEF Leave, QueueExact
  <2> QED
    BY <2>1, <2>3, <2>4, <2>6
<1>4. CASE queue # <<>>
  <2> DEFINE h == Head(queue)
  <2>1. /\ Len(queue) \in Nat \ {0} /\ h = queue[1]
        /\ Tail(queue) \in Seq(Calls) /\ Len(Tail(queue)) = Len(queue) - 1
        /\ \A i \in 1 .. Len(Tail(queue)) : Tail(queue)[i] = queue[i + 1]
    BY <1>4, HeadTailProperties, LenProperties, EmptySeq DEF LimiterTypeOK
  <2>2. h \in Calls /\ at[h] = "waiting" /\ h # c
    BY <2>1 DEF QueueExact, Leave
  <2> HIDE DEF h
  <2>3. /\ queue' = Tail(queue)
        /\ at' = [at EXCEPT ![c] = "out", ![h] = "woken"]
    BY <1>4 DEF Leave, h
  <2>4. LimiterTypeOK'
    BY <1>2, <2>1, <2>2, <2>3 DEF LimiterTypeOK, CallSteps
  <2>5. Inside' = Inside \ {c} /\ c \in Inside
    BY <2>2, <2>3 DEF Leave, Inside, LimiterTypeOK
  <2>6. CounterExact'
    BY <1>2, <2>5, FiniteSlots, FS_RemoveElement DEF CounterExact, Inside
  <2>7. Woken' = Woken \cup {h} /\ h \notin Woken
    BY <2>2, <2>3 DEF Leave, Woken, LimiterTypeOK
  <2>8. NoLostWakeup'
    <3>1. Cardinality(Woken') = Cardinality(Woken) + 1
      BY <2>7, FiniteSlots, FS_AddElement
    <3> QED
      BY <1>2, <1>4, <3>1, FiniteSlots, LimitsAssumption DEF NoLostWakeup, LimiterTypeOK
  <2>9. {d \in Calls : at'[d] = "waiting"} = {d \in Calls : at[d] = "waiting"} \ {h}
    BY <2>2, <2>3 DEF Leave, LimiterTypeOK
  <2>10. {queue'[i] : i \in 1 .. Len(queue')} = {queue[i] : i \in 1 .. Len(queue)} \ {h}
    <3>1. ASSUME NEW i \in 1 .. Len(queue')
          PROVE i + 1 \in 1 .. Len(queue) /\ queue'[i] = queue[i + 1] /\ queue'[i] # h
      BY <2>1, <2>3 DEF QueueExact
    <3>2. ASSUME NEW i \in 1 .. Len(queue), queue[i] # h
          PROVE i - 1 \in 1 .. Len(queue') /\ queue'[i - 1] = queue[i]
      <4>1. i # 1
        BY <2>1, <3>2
      <4>2. i - 1 \in 1 .. Len(queue') /\ i - 1 + 1 = i
        BY <2>1, <2>3, <4>1
      <4> QED
        BY <2>1, <2>3, <4>2
    <3> QED
      BY <3>1, <3>2
  <2>11. \A i, j \in 1 .. Len(queue') : queue'[i] = queue'[j] => i = j
    BY <2>1, <2>3 DEF QueueExact
  <2>12. QueueExact'
    <3>1. Len(queue') <= MaxQueue
      BY <2>1, <2>3, LimitsAssumption DEF QueueExact
    <3> QED
      BY <2>9, <2>10, <2>11, <3>1 DEF QueueExact
  <2> QED
    BY <2>4, <2>6, <2>8, <2>12
<1> QED
  BY <1>3, <1>4

(* A waiter that times out leaves the others in their order. *)
LEMMA TimeOutKeeps == ASSUME LimiterInv, NEW c \in Calls, TimeOut(c) PROVE LimiterInv'
<1> USE DEF LimiterInv
<1>0. Len(queue) \in Nat /\ DOMAIN queue = 1 .. Len(queue)
  BY LenProperties DEF LimiterTypeOK
<1>1. PICK i \in 1 .. Len(queue) : queue[i] = c /\ queue' = RemoveAt(queue, i)
  <2>1. \E i \in 1 .. Len(queue) : queue[i] = c
    BY DEF TimeOut, QueueExact
  <2>2. c \in Range(queue)
    BY <1>0, <2>1 DEF Range
  <2> QED
    BY <1>0, <2>2 DEF TimeOut
<1>2. /\ queue' \in Seq(Calls) /\ Len(queue') = Len(queue) - 1
      /\ Distinct(queue') /\ Elements(queue') = Elements(queue) \ {queue[i]}
  <2>1. queue \in Seq(Calls) /\ Distinct(queue)
    BY DEF LimiterTypeOK, QueueExact, Distinct
  <2> QED
    BY <1>1, <2>1, RemoveAtProperties
<1>3. LimiterTypeOK'
  BY <1>2 DEF TimeOut, LimiterTypeOK, CallSteps
<1>4. Inside' = Inside /\ Woken' = Woken
  BY DEF TimeOut, Inside, Woken, LimiterTypeOK
<1>5. CounterExact'
  BY <1>4 DEF TimeOut, CounterExact, Inside
<1>6. NoLostWakeup'
  <2>1. queue # <<>>
    BY <1>0, <1>1
  <2> QED
    BY <1>4, <2>1 DEF TimeOut, NoLostWakeup
<1>7. {d \in Calls : at'[d] = "waiting"} = {d \in Calls : at[d] = "waiting"} \ {c}
  BY DEF TimeOut, LimiterTypeOK
<1>8. QueueExact'
  <2>1. Len(queue') <= MaxQueue
    BY <1>0, <1>2, LimitsAssumption DEF QueueExact
  <2>2. Elements(queue) = {d \in Calls : at[d] = "waiting"}
    BY DEF QueueExact, Elements
  <2>3. Elements(queue') = {d \in Calls : at'[d] = "waiting"}
    BY <1>1, <1>2, <1>7, <2>2
  <2> QED
    BY <1>2, <2>1, <2>3 DEF QueueExact, Elements, Distinct
<1> QED
  BY <1>3, <1>5, <1>6, <1>8

(* Every step of the limiter keeps its accounts. *)
LEMMA LimiterInductiveStep == LimiterInv /\ [LimiterNext]_limiterVars => LimiterInv'
<1> SUFFICES ASSUME LimiterInv, [LimiterNext]_limiterVars PROVE LimiterInv'
  OBVIOUS
<1>1. CASE UNCHANGED limiterVars
  BY <1>1 DEF limiterVars, LimiterInv, LimiterTypeOK, CounterExact, NoLostWakeup, QueueExact, Woken
<1>2. ASSUME NEW c \in Calls, Refuse(c) PROVE LimiterInv'
  BY <1>1, <1>2 DEF Refuse
<1> QED
  BY <1>1, <1>2, StartKeeps, EnqueueKeeps, ResumeKeeps, LeaveKeeps, TimeOutKeeps DEF LimiterNext

(* The limiter by itself, as the password hashing and the image processing   *)
(* use it: counter, queue and wake-ups stay in step for every limit.         *)
THEOREM LimiterAccounts == LimiterSpec => []SlotsAccounted
<1>1. LimiterInv => SlotsAccounted
  BY DEF LimiterInv, SlotsAccounted
<1> QED
  BY <1>1, LimiterInductiveInit, LimiterInductiveStep, PTL DEF LimiterSpec

-----------------------------------------------------------------------------
GuardInv == GuardTypeOK /\ SlotsServeLiveRequests

IInv == LimiterInv /\ GuardInv

(* Each step of the guard is one step of the limiter or leaves it alone. *)
LEMMA GuardUsesLimiter == [Next]_vars => [LimiterNext]_limiterVars
  BY DEF Next, vars, LimiterNext, limiterVars, Enter, EnterFull, EnterGone, Wake, QueueTimeOut,
         GiveBack, Received, ConnectionEnds, CloseEvent, Deadline

(* Init establishes the guard's invariant. *)
LEMMA InductiveInit == Init => IInv
  BY LimiterInductiveInit DEF Init, IInv, GuardInv, GuardTypeOK, SlotsServeLiveRequests

(* A request that is refused holds no slot. *)
LEMMA RejectKeeps ==
  ASSUME GuardInv, NEW c \in Calls, Reject(c), gone' = gone,
         \A d \in Calls \ {c} : at[d] = "inside" => at'[d] = "inside"
  PROVE  GuardInv'
  BY DEF GuardInv, GuardTypeOK, SlotsServeLiveRequests, Reject, Close

(* A request that gets its slot holds it exactly if it passes. *)
LEMMA GotSlotKeeps ==
  ASSUME GuardInv, NEW c \in Calls, NEW timer \in BOOLEAN, GotSlot(c, timer), gone' = gone,
         at'[c] = "inside",
         \A d \in Calls \ {c} : at[d] = "inside" => at'[d] = "inside"
  PROVE  GuardInv'
<1>1. CASE Reject(c)
  BY <1>1, RejectKeeps
<1>2. CASE ~Reject(c)
  <2>1. /\ guard' = [guard EXCEPT ![c] = "passed"] /\ holds' = [holds EXCEPT ![c] = TRUE]
        /\ armed' = [armed EXCEPT ![c] = timer] /\ isClosed' = isClosed /\ ~isClosed[c]
    BY <1>2 DEF GotSlot, Over
  <2>2. GuardTypeOK'
    BY <2>1 DEF GuardInv, GuardTypeOK
  <2>3. /\ guard'[c] = "passed" /\ holds'[c] /\ isClosed'[c] = isClosed[c]
        /\ \A d \in Calls \ {c} : /\ guard'[d] = guard[d] /\ holds'[d] = holds[d]
                                 /\ isClosed'[d] = isClosed[d]
    BY <2>1 DEF GuardInv, GuardTypeOK
  <2>4. SlotsServeLiveRequests'
    BY <2>1, <2>3 DEF GuardInv, SlotsServeLiveRequests
  <2> QED
    BY <2>2, <2>4 DEF GuardInv
<1> QED
  BY <1>1, <1>2

(* Every step keeps the accounts of the limiter and of the guard. *)
LEMMA InductiveStep == IInv /\ [Next]_vars => IInv'
<1> SUFFICES ASSUME IInv, [Next]_vars PROVE IInv'
  OBVIOUS
<1>0. LimiterInv'
  BY LimiterInductiveStep, GuardUsesLimiter DEF IInv
<1> SUFFICES GuardInv'
  BY <1>0 DEF IInv
<1> USE DEF IInv, LimiterInv
<1>1. ASSUME NEW c \in Calls, NEW received \in BOOLEAN, Enter(c, received) PROVE GuardInv'
  <2>1. CASE Start(c)
    <3>1. at'[c] = "inside" /\ \A d \in Calls \ {c} : at'[d] = at[d]
      BY <2>1 DEF Start, LimiterTypeOK
    <3>2. at[c] = "out" /\ at'[c] # "waiting" /\ UNCHANGED gone
      BY <1>1, <2>1, <3>1 DEF Start, Enter
    <3>3. ~Enqueue(c)
      BY <2>1, LimitsAssumption DEF Start, Enqueue, LimiterTypeOK
    <3>4. GotSlot(c, ~received)
      BY <1>1, <3>3 DEF Enter
    <3> QED
      BY <3>1, <3>2, <3>4, GotSlotKeeps
  <2>2. CASE Enqueue(c)
    <3>1. ~Start(c)
      BY <2>2, LimitsAssumption DEF Start, Enqueue, LimiterTypeOK
    <3> QED
      BY <1>1, <2>2, <3>1
      DEF Enter, Enqueue, GuardInv, GuardTypeOK, SlotsServeLiveRequests, LimiterTypeOK
  <2> QED
    BY <1>1, <2>1, <2>2 DEF Enter
<1>2. ASSUME NEW c \in Calls, EnterFull(c) PROVE GuardInv'
  BY <1>2, RejectKeeps DEF EnterFull, Refuse, limiterVars
<1>3. ASSUME NEW c \in Calls, EnterGone(c) PROVE GuardInv'
  BY <1>3 DEF EnterGone, limiterVars, GuardInv, GuardTypeOK, SlotsServeLiveRequests
<1>4. ASSUME NEW c \in Calls, Wake(c) PROVE GuardInv'
  <2>1. at'[c] = "inside" /\ \A d \in Calls \ {c} : at'[d] = at[d]
    BY <1>4 DEF Wake, Resume, LimiterTypeOK
  <2>2. armed[c] \in BOOLEAN
    BY DEF GuardInv, GuardTypeOK
  <2> QED
    BY <1>4, <2>1, <2>2, GotSlotKeeps DEF Wake
<1>5. ASSUME NEW c \in Calls, QueueTimeOut(c) PROVE GuardInv'
  <2>1. \A d \in Calls \ {c} : at'[d] = at[d]
    BY <1>5 DEF QueueTimeOut, TimeOut, LimiterTypeOK
  <2> QED
    BY <1>5, <2>1, RejectKeeps DEF QueueTimeOut
<1>6. ASSUME NEW c \in Calls, GiveBack(c) PROVE GuardInv'
  <2>1. ASSUME NEW d \in Calls, d # c, at[d] = "inside" PROVE at'[d] = "inside"
    <3>1. CASE queue = <<>>
      BY <1>6, <2>1, <3>1 DEF GiveBack, Leave, LimiterTypeOK
    <3>2. CASE queue # <<>>
      <4>1. 1 \in 1 .. Len(queue) /\ Head(queue) = queue[1]
        BY <3>2, EmptySeq, HeadTailProperties DEF LimiterTypeOK
      <4>2. at[Head(queue)] = "waiting" /\ Head(queue) \in Calls
        BY <4>1 DEF QueueExact
      <4> QED
        BY <1>6, <2>1, <3>2, <4>2 DEF GiveBack, Leave, LimiterTypeOK
    <3> QED
      BY <3>1, <3>2
  <2> QED
    BY <1>6, <2>1 DEF GiveBack, guardVars, GuardInv, GuardTypeOK, SlotsServeLiveRequests
<1>7. ASSUME NEW c \in Calls, Received(c) PROVE GuardInv'
  BY <1>7 DEF Received, limiterVars, GuardInv, GuardTypeOK, SlotsServeLiveRequests
<1>8. ASSUME NEW c \in Calls, ConnectionEnds(c) PROVE GuardInv'
  BY <1>8 DEF ConnectionEnds, limiterVars, GuardInv, GuardTypeOK, SlotsServeLiveRequests
<1>9. ASSUME NEW c \in Calls, CloseEvent(c) PROVE GuardInv'
  BY <1>9 DEF CloseEvent, Close, limiterVars, GuardInv, GuardTypeOK, SlotsServeLiveRequests
<1>10. ASSUME NEW c \in Calls, Deadline(c) PROVE GuardInv'
  BY <1>10 DEF Deadline, Close, limiterVars, GuardInv, GuardTypeOK, SlotsServeLiveRequests
<1>11. CASE UNCHANGED vars
  BY <1>11 DEF vars, guardVars, limiterVars, GuardInv, GuardTypeOK, SlotsServeLiveRequests
<1> QED
  BY <1>1, <1>2, <1>3, <1>4, <1>5, <1>6, <1>7, <1>8, <1>9, <1>10, <1>11 DEF Next

THEOREM Inductive == Spec => []IInv
  BY InductiveInit, InductiveStep, PTL DEF Spec

(* Type correctness of the guard and of its limiter. *)
THEOREM TypeSafe == Spec => []TypeOK
<1>1. IInv => TypeOK
  BY DEF IInv, LimiterInv, GuardInv, TypeOK
<1> QED
  BY <1>1, Inductive, PTL

(* Whatever uploads do, the limiter behind the guard is used as its own      *)
(* specification says: the guard implements it.                              *)
THEOREM GuardImplementsLimiter == Spec => LimiterSpec
<1>1. Init => LimiterInit
  BY DEF Init
<1> QED
  BY <1>1, GuardUsesLimiter, PTL DEF Spec, LimiterSpec

(* Counter, queue and wake-ups stay in step under the guard's disconnects,   *)
(* deadlines and refusals, for every limit and every number of requests.     *)
THEOREM IngressAccounts == Spec => []SlotsAccounted
  BY GuardImplementsLimiter, LimiterAccounts, PTL

(* A slot belongs to the open requests the guard passed and to nobody else.  *)
THEOREM SlotsAreHeld == Spec => []SlotsServeLiveRequests
<1>1. IInv => SlotsServeLiveRequests
  BY DEF IInv, GuardInv
<1> QED
  BY <1>1, Inductive, PTL
=============================================================================
