-------------------------- MODULE ConcurrencyLimiter --------------------------
(***************************************************************************)
(* BoundedConcurrencyLimiter: at most maxConcurrent calls run, at most     *)
(* maxQueue wait, each for a limited time                                  *)
(* (src/src/common/concurrency-limiter.ts).                                *)
(*                                                                         *)
(* One event loop runs all of it, so the code between two awaits is one    *)
(* action.  Resolving a waiter only queues its continuation: the waiter    *)
(* increments the counter in a later microtask, and microtasks queued      *)
(* before it (new calls, other calls' finally blocks) run in between.      *)
(* Timers fire only when no microtask is left.                             *)
(***************************************************************************)
EXTENDS Integers, SequencesExt

CONSTANTS
  Calls,            \* calls of run(); a call may be made again once it ended
  MaxConcurrent,
  MaxQueue

ASSUME LimitsAssumption == MaxConcurrent \in Nat \ {0} /\ MaxQueue \in Nat

\* A process has finitely many calls under way.
ASSUME CallsAssumption == IsFiniteSet(Calls)

VARIABLES
  running,   \* the counter
  queue,     \* waiting calls, first come first served
  at         \* where each call is: out, waiting, woken or inside fn()

limiterVars == <<running, queue, at>>

CallSteps == {"out", "waiting", "woken", "inside"}

LimiterTypeOK ==
  /\ running \in Nat
  /\ queue \in Seq(Calls)
  /\ at \in [Calls -> CallSteps]

LimiterInit ==
  /\ running = 0
  /\ queue = <<>>
  /\ at = [c \in Calls |-> "out"]

\* Below the limit the call starts fn() at once.
Start(c) ==
  /\ at[c] = "out"
  /\ running < MaxConcurrent
  /\ running' = running + 1
  /\ at' = [at EXCEPT ![c] = "inside"]
  /\ UNCHANGED queue

Enqueue(c) ==
  /\ at[c] = "out"
  /\ running >= MaxConcurrent
  /\ Len(queue) < MaxQueue
  /\ queue' = Append(queue, c)
  /\ at' = [at EXCEPT ![c] = "waiting"]
  /\ UNCHANGED running

\* A full queue answers 503 and changes nothing.
Refuse(c) ==
  /\ at[c] = "out"
  /\ running >= MaxConcurrent
  /\ Len(queue) >= MaxQueue
  /\ UNCHANGED limiterVars

\* Mutant: the waiter inherits the slot without counting it.
ResumeInPlace(c) ==
  /\ at[c] = "woken"
  /\ at' = [at EXCEPT ![c] = "inside"]
  /\ UNCHANGED <<running, queue>>

\* The waiter's continuation.
Resume(c) ==
  /\ at[c] = "woken"
  /\ running' = running + 1
  /\ at' = [at EXCEPT ![c] = "inside"]
  /\ UNCHANGED queue

\* The finally block, after fn() resolved or rejected.
Leave(c) ==
  /\ at[c] = "inside"
  /\ running' = running - 1
  /\ IF queue = <<>>
     THEN at' = [at EXCEPT ![c] = "out"] /\ UNCHANGED queue
     ELSE /\ at' = [at EXCEPT ![c] = "out", ![Head(queue)] = "woken"]
          /\ queue' = Tail(queue)

Woken == {c \in Calls : at[c] = "woken"}

\* The timer looks for its entry (findIndex) and takes it out of the queue.
TimeOut(c) ==
  /\ at[c] = "waiting" /\ Woken = {}
  /\ IF c \in Range(queue)
     THEN \E i \in DOMAIN queue : queue[i] = c /\ queue' = RemoveAt(queue, i)
     ELSE UNCHANGED queue
  /\ at' = [at EXCEPT ![c] = "out"]
  /\ UNCHANGED running

LimiterNext ==
  \E c \in Calls :
    Start(c) \/ Enqueue(c) \/ Refuse(c) \/ Resume(c) \/ Leave(c) \/ TimeOut(c)

LimiterSpec == LimiterInit /\ [][LimiterNext]_limiterVars

-----------------------------------------------------------------------------
\* The counter is the number of calls inside fn(): no path through await,
\* throw and finally counts twice or forgets to count back.
CounterExact == running = Cardinality({c \in Calls : at[c] = "inside"})

\* Calls wait only while the slots are taken or promised: a wake-up is never
\* lost, whatever times out and whoever finishes together.
NoLostWakeup == queue # <<>> => running + Cardinality(Woken) >= MaxConcurrent

\* The queue holds exactly the waiting calls, within its limit, each once.
QueueExact ==
  /\ Len(queue) <= MaxQueue
  /\ {queue[i] : i \in 1 .. Len(queue)} = {c \in Calls : at[c] = "waiting"}
  /\ \A i, j \in 1 .. Len(queue) : queue[i] = queue[j] => i = j

\* Counter, queue and wake-ups stay in step, whatever throws, times out or is
\* refused between two awaits.
SlotsAccounted == CounterExact /\ NoLostWakeup /\ QueueExact

\* "Tasks run within the concurrency limit."
WithinLimit == running <= MaxConcurrent

\* A waiting call starts or is refused, even if nothing inside fn() ever ends
\* (continuations run and timers fire).
NobodyWaitsForever == \A c \in Calls : at[c] = "waiting" ~> at[c] \in {"inside", "out"}
=============================================================================
