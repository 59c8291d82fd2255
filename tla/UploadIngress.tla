---------------------------- MODULE UploadIngress ----------------------------
(***************************************************************************)
(* UploadIngressGuard: an upload request takes a slot of the ingress       *)
(* limiter before its body is read, and gives it back when the response is *)
(* finished, the connection closes or the 15 s receive deadline passes     *)
(* (src/src/members/upload-ingress.guard.ts).                              *)
(*                                                                         *)
(* The guard is the fn() of the limiter's call: entering it, looking at    *)
(* the connection and installing the release callback happen without an    *)
(* await in between.                                                       *)
(***************************************************************************)
EXTENDS ConcurrencyLimiter

VARIABLES
  guard,      \* per request: new, entered, passed (canActivate is true), refused
  gone,       \* req.destroyed or res.writableEnded: the connection is over
  isClosed,
  armed,      \* the receive deadline is running
  holds       \* releaseHeldSlot is set

guardVars == <<guard, gone, isClosed, armed, holds>>
vars == <<limiterVars, guardVars>>

GuardTypeOK ==
  /\ guard \in [Calls -> {"new", "entered", "passed", "refused"}]
  /\ gone \in [Calls -> BOOLEAN]
  /\ isClosed \in [Calls -> BOOLEAN]
  /\ armed \in [Calls -> BOOLEAN]
  /\ holds \in [Calls -> BOOLEAN]

TypeOK == LimiterTypeOK /\ GuardTypeOK

Init ==
  /\ LimiterInit
  /\ guard = [c \in Calls |-> "new"]
  /\ gone = [c \in Calls |-> FALSE]
  /\ isClosed = [c \in Calls |-> FALSE]
  /\ armed = [c \in Calls |-> FALSE]
  /\ holds = [c \in Calls |-> FALSE]

Over(c) == isClosed[c] \/ gone[c]

\* closeHandler: also what the catch block of the guard calls.
Close(c) ==
  /\ isClosed' = [isClosed EXCEPT ![c] = TRUE]
  /\ armed' = [armed EXCEPT ![c] = FALSE]
  /\ holds' = [holds EXCEPT ![c] = FALSE]

\* The guard refuses with a 503 and its catch block closes the request.
Reject(c) ==
  /\ guard' = [guard EXCEPT ![c] = "refused"]
  /\ Close(c)

\* Mutant: the connection is not looked at after queueing.
GotSlotUnchecked(c, timer) ==
  /\ guard' = [guard EXCEPT ![c] = "passed"]
  /\ holds' = [holds EXCEPT ![c] = TRUE]
  /\ armed' = [armed EXCEPT ![c] = timer]
  /\ UNCHANGED isClosed

\* The slot is obtained: a request that is over returns at once, any other
\* passes and keeps the slot until releaseHeldSlot is called.
GotSlot(c, timer) ==
  \/ Over(c) /\ Reject(c)
  \/ /\ ~Over(c)
     /\ guard' = [guard EXCEPT ![c] = "passed"]
     /\ holds' = [holds EXCEPT ![c] = TRUE]
     /\ armed' = [armed EXCEPT ![c] = timer]
     /\ UNCHANGED isClosed

-----------------------------------------------------------------------------
\* The request reaches the guard; the body may have arrived already (received).
Enter(c, received) ==
  /\ guard[c] = "new" /\ ~gone[c]
  /\ \/ Start(c) /\ GotSlot(c, ~received)
     \/ /\ Enqueue(c)
        /\ guard' = [guard EXCEPT ![c] = "entered"]
        /\ armed' = [armed EXCEPT ![c] = ~received]
        /\ UNCHANGED <<isClosed, holds>>
  /\ UNCHANGED gone

\* No slot and no place to wait.
EnterFull(c) == guard[c] = "new" /\ ~gone[c] /\ Refuse(c) /\ Reject(c) /\ UNCHANGED gone

EnterGone(c) ==
  /\ guard[c] = "new" /\ gone[c]
  /\ guard' = [guard EXCEPT ![c] = "refused"]
  /\ UNCHANGED <<limiterVars, gone, isClosed, armed, holds>>

Wake(c) == Resume(c) /\ GotSlot(c, armed[c]) /\ UNCHANGED gone

QueueTimeOut(c) == TimeOut(c) /\ Reject(c) /\ UNCHANGED gone

\* fn() has returned: immediately for a request that was over, otherwise once
\* the slot is released.
GiveBack(c) ==
  /\ ~holds[c]
  /\ Leave(c)
  /\ UNCHANGED guardVars

\* The whole body is in.
Received(c) ==
  /\ armed[c]
  /\ armed' = [armed EXCEPT ![c] = FALSE]
  /\ UNCHANGED <<limiterVars, guard, gone, isClosed, holds>>

\* The response is finished or the connection breaks, at any time; the event
\* follows, and reaches the guard only if it has registered its handlers.
ConnectionEnds(c) ==
  /\ ~gone[c]
  /\ gone' = [gone EXCEPT ![c] = TRUE]
  /\ UNCHANGED <<limiterVars, guard, isClosed, armed, holds>>

CloseEvent(c) ==
  /\ gone[c] /\ guard[c] # "new" /\ ~isClosed[c]
  /\ Close(c)
  /\ UNCHANGED <<limiterVars, guard, gone>>

\* Mutant: a body that trickles in starts the deadline again.
DeadlineReset(c) == armed[c] /\ UNCHANGED vars

Deadline(c) ==
  /\ armed[c]
  /\ gone' = [gone EXCEPT ![c] = TRUE]
  /\ Close(c)
  /\ UNCHANGED <<limiterVars, guard>>

Next ==
  \E c \in Calls :
    \/ \E received \in BOOLEAN : Enter(c, received)
    \/ EnterFull(c) \/ EnterGone(c) \/ Wake(c) \/ QueueTimeOut(c) \/ GiveBack(c)
    \/ Received(c) \/ ConnectionEnds(c) \/ CloseEvent(c) \/ Deadline(c)

Fairness ==
  \A c \in Calls :
    /\ WF_vars(Wake(c)) /\ WF_vars(QueueTimeOut(c)) /\ WF_vars(GiveBack(c))
    /\ WF_vars(CloseEvent(c)) /\ WF_vars(Deadline(c))

Spec == Init /\ [][Next]_vars /\ Fairness

-----------------------------------------------------------------------------
\* A slot belongs to the open requests that the guard passed and to nobody
\* else: nothing that ends while it queues, or between being woken and running,
\* leaves a slot behind, and no upload is handled outside the limiter.
SlotsServeLiveRequests ==
  \A c \in Calls :
    /\ holds[c] <=> guard[c] = "passed" /\ ~isClosed[c]
    /\ holds[c] => at[c] = "inside"

\* A slot does not stay with a connection that has ended, nor past the deadline
\* with a body that trickles in.
SlotsComeBack ==
  \A c \in Calls : at[c] = "inside" /\ (gone[c] \/ armed[c]) ~> at[c] = "out" \/ ~(gone[c] \/ armed[c])

\* Nobody waits for ever for a slot, and no slot stays with a dead or trickling
\* upload: queue time-outs, deadlines and disconnects each do their part.
EveryWaitEnds == NobodyWaitsForever /\ SlotsComeBack
=============================================================================
