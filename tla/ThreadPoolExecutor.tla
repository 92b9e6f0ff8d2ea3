------------------------- MODULE ThreadPoolExecutor -------------------------
(***************************************************************************)
(* The worker pool that runs the interceptor's callbacks                   *)
(* (src/server/thread_pool_executor.h): a queue under a mutex, a condition *)
(* variable, and a destructor that stops and joins the workers.            *)
(*                                                                         *)
(* A critical section of mu_ holds no blocking call, so it is one step.    *)
(* What the code does after it unlocks is a step of its own: notify_one,   *)
(* notify_all, the task itself.  A waiting worker may also wake up for no  *)
(* reason, as std::condition_variable allows.                              *)
(*                                                                         *)
(* The owner of the pool starts the destructor when no call of Schedule    *)
(* is in progress and makes none afterwards: an object under destruction   *)
(* takes no calls.                                                         *)
(***************************************************************************)
EXTENDS Integers, Sequences, FiniteSets

CONSTANTS
    Workers,    \* the threads of the pool
    Tasks       \* the callbacks scheduled; bound: each one once

ASSUME PoolAssumption ==
    /\ Workers # {}
    /\ IsFiniteSet(Workers)
    /\ IsFiniteSet(Tasks)

VARIABLES
    queue_,         \* tasks pushed and not yet taken
    stop_,          \* the destructor has begun
    state,          \* worker -> where it is in run()
    running,        \* worker -> the task it runs, as a set of at most one
    to_notify,      \* tasks whose Schedule has yet to call notify_one
    owner,          \* progress of the destructor
    runs            \* task -> how often it was started

poolVars == << queue_, stop_, state, running, to_notify, owner, runs >>

Queued == {queue_[i] : i \in DOMAIN queue_}
In(s) == {w \in Workers : state[w] = s}

PoolTypeOK ==
    /\ queue_ \in Seq(Tasks)
    /\ stop_ \in BOOLEAN
    /\ state \in [Workers -> {"ready", "waiting", "busy", "exited"}]
    /\ running \in [Workers -> SUBSET Tasks]
    /\ to_notify \subseteq Tasks
    /\ owner \in {"using", "notifying", "joining", "destroyed"}
    /\ runs \in [Tasks -> Nat]

PoolInit ==
    /\ queue_ = << >>
    /\ stop_ = FALSE
    /\ state = [w \in Workers |-> "ready"]
    /\ running = [w \in Workers |-> {}]
    /\ to_notify = {}
    /\ owner = "using"
    /\ runs = [t \in Tasks |-> 0]

-----------------------------------------------------------------------------
Unscheduled == {t \in Tasks : t \notin Queued /\ runs[t] = 0}

\* Mutant: only a push on an empty queue is worth a notification.
PushNotifyingFirst(t) ==
    /\ queue_' = Append(queue_, t)
    /\ to_notify' = IF queue_ = << >> THEN to_notify \cup {t} ELSE to_notify

\* The critical section of Schedule.
Push(t) ==
    /\ queue_' = Append(queue_, t)
    /\ to_notify' = to_notify \cup {t}

Schedule(t) ==
    /\ owner = "using"
    /\ t \in Unscheduled
    /\ Push(t)
    /\ UNCHANGED << stop_, state, running, owner, runs >>

\* The end of Schedule: one waiting worker wakes up, if there is one.
notify_one(t) ==
    /\ t \in to_notify
    /\ to_notify' = to_notify \ {t}
    /\ \/ In("waiting") = {} /\ UNCHANGED state
       \/ \E w \in In("waiting") : state' = [state EXCEPT ![w] = "ready"]
    /\ UNCHANGED << queue_, stop_, running, owner, runs >>

\* A worker holds mu_ and finds neither a task nor the stop flag.
Wait(w) ==
    /\ state[w] = "ready"
    /\ ~stop_
    /\ queue_ = << >>
    /\ state' = [state EXCEPT ![w] = "waiting"]
    /\ UNCHANGED << queue_, stop_, running, to_notify, owner, runs >>

Spurious(w) ==
    /\ state[w] = "waiting"
    /\ state' = [state EXCEPT ![w] = "ready"]
    /\ UNCHANGED << queue_, stop_, running, to_notify, owner, runs >>

\* Mutant: a stopping pool drops what is still queued.
LeaveAtOnce == stop_

\* run() returns only when the queue is drained.
MayLeave == stop_ /\ queue_ = << >>

Leave(w) ==
    /\ state[w] = "ready"
    /\ MayLeave
    /\ state' = [state EXCEPT ![w] = "exited"]
    /\ UNCHANGED << queue_, stop_, running, to_notify, owner, runs >>

\* Mutant: the front is read in one critical section and popped in another.
LeaveInQueue == queue_

\* What queue_.pop() leaves.
Popped == Tail(queue_)

\* A worker holds mu_, moves the first task out of the queue and unlocks.
Take(w) ==
    /\ state[w] = "ready"
    /\ queue_ # << >>
    /\ state' = [state EXCEPT ![w] = "busy"]
    /\ running' = [running EXCEPT ![w] = {Head(queue_)}]
    /\ runs' = [runs EXCEPT ![Head(queue_)] = @ + 1]
    /\ queue_' = Popped
    /\ UNCHANGED << stop_, to_notify, owner >>

\* fn() returns and the worker goes round its loop.
Finish(w) ==
    /\ state[w] = "busy"
    /\ state' = [state EXCEPT ![w] = "ready"]
    /\ running' = [running EXCEPT ![w] = {}]
    /\ UNCHANGED << queue_, stop_, to_notify, owner, runs >>

-----------------------------------------------------------------------------
(* ~ThreadPoolExecutor.                                                    *)

SetStop ==
    /\ owner = "using"
    /\ to_notify = {}
    /\ stop_' = TRUE
    /\ owner' = "notifying"
    /\ UNCHANGED << queue_, state, running, to_notify, runs >>

\* Mutant: notify_one in place of notify_all.
WakeOne ==
    \/ In("waiting") = {} /\ UNCHANGED state
    \/ \E w \in In("waiting") : state' = [state EXCEPT ![w] = "ready"]

WakeAll ==
    state' = [w \in Workers |-> IF state[w] = "waiting" THEN "ready" ELSE state[w]]

notify_all ==
    /\ owner = "notifying"
    /\ owner' = "joining"
    /\ WakeAll
    /\ UNCHANGED << queue_, stop_, running, to_notify, runs >>

Join ==
    /\ owner = "joining"
    /\ \A w \in Workers : state[w] = "exited"
    /\ owner' = "destroyed"
    /\ UNCHANGED << queue_, stop_, state, running, to_notify, runs >>

PoolNext ==
    \/ \E t \in Tasks : Schedule(t) \/ notify_one(t)
    \/ \E w \in Workers : Wait(w) \/ Spurious(w) \/ Leave(w) \/ Take(w) \/ Finish(w)
    \/ SetStop
    \/ notify_all
    \/ Join

PoolSpec == PoolInit /\ [][PoolNext]_poolVars

\* Every thread keeps running: each worker in its loop, the callers of Schedule
\* and of the destructor once they have begun.  Tasks return.  Nothing makes
\* the owner schedule or destroy, and no spurious wake-up need ever come.
PoolFairness ==
    /\ \A w \in Workers : WF_poolVars(Leave(w) \/ Take(w) \/ Wait(w) \/ Finish(w))
    /\ \A t \in Tasks : WF_poolVars(notify_one(t))
    /\ WF_poolVars(notify_all)
    /\ WF_poolVars(Join)

FairPoolSpec == PoolSpec /\ PoolFairness

-----------------------------------------------------------------------------
\* No wake-up is lost: while a worker sleeps, every queued task has a worker on
\* its way to the queue, or a notification still to come.
NoIdleBacklog ==
    In("waiting") # {} =>
        Len(queue_) <= Cardinality(In("ready")) + Cardinality(to_notify)

\* A task is started once, by one worker, and never again from the queue; and the
\* destructor returns only when every task scheduled has run to its end.
RunOnceThenDestroyed ==
    /\ \A t \in Tasks : runs[t] <= 1 /\ (t \in Queued => runs[t] = 0)
    /\ owner = "destroyed" => Queued = {} /\ \A w \in Workers : running[w] = {}

\* Every task scheduled runs in the end.
EveryTaskRuns == \A t \in Tasks : t \in Queued ~> runs[t] = 1

\* The destructor returns: no worker sleeps through the shutdown.
DestructorReturns == stop_ ~> owner = "destroyed"

-----------------------------------------------------------------------------
(* The parts of the inductive invariant behind these properties.           *)

\* A queued task is queued once and has not run; only a pushed task has a
\* notification to come.
QueueInv ==
    /\ \A i, j \in DOMAIN queue_ : queue_[i] = queue_[j] => i = j
    /\ \A i \in DOMAIN queue_ : runs[queue_[i]] = 0
    /\ \A t \in Tasks : runs[t] <= 1
    /\ \A t \in to_notify : runs[t] = 1 \/ \E i \in DOMAIN queue_ : queue_[i] = t

\* Workers leave a stopped and drained pool only, and the destructor returns after
\* the last of them.
ShutdownInv ==
    /\ owner = "using" <=> stop_ = FALSE
    /\ \A w \in Workers : state[w] = "exited" => stop_ = TRUE /\ queue_ = << >>
    /\ \A w \in Workers : state[w] # "busy" => running[w] = {}
    /\ owner = "destroyed" => \A w \in Workers : state[w] = "exited"

PoolInv ==
    /\ PoolTypeOK
    /\ QueueInv
    /\ ShutdownInv
    /\ NoIdleBacklog
=============================================================================
