-------------------------- MODULE ThreadPoolProofs --------------------------
(***************************************************************************)
(* Proofs about ThreadPoolExecutor, for every finite set of workers and    *)
(* of tasks.                                                               *)
(***************************************************************************)
EXTENDS ThreadPoolExecutor, TLAPS, FiniteSetTheorems

-----------------------------------------------------------------------------
(* Counting workers.                                                       *)

\* The workers in a given place, and the notifications to come, can be counted.
LEMMA Countable ==
    ASSUME PoolTypeOK, NEW s
    PROVE  /\ IsFiniteSet(In(s)) /\ Cardinality(In(s)) \in Nat
           /\ IsFiniteSet(to_notify) /\ Cardinality(to_notify) \in Nat
  <1>1. In(s) \subseteq Workers /\ to_notify \subseteq Tasks
    BY DEF In, PoolTypeOK
  <1>2. IsFiniteSet(In(s)) /\ IsFiniteSet(to_notify)
    BY <1>1, PoolAssumption, FS_Subset
  <1> QED BY <1>2, FS_CardinalityType

\* A worker that comes back to the queue is one more ready worker.
LEMMA BecomesReady ==
    ASSUME PoolTypeOK, NEW w \in Workers, state[w] # "ready",
           state' = [state EXCEPT ![w] = "ready"]
    PROVE  Cardinality(In("ready")') = Cardinality(In("ready")) + 1
  <1>1. In("ready")' = In("ready") \cup {w} /\ w \notin In("ready")
    BY DEF In, PoolTypeOK
  <1>2. IsFiniteSet(In("ready"))
    BY Countable
  <1> QED BY <1>1, <1>2, FS_AddElement

\* A worker that takes a task, sleeps or leaves is one ready worker fewer.
LEMMA NoLongerReady ==
    ASSUME PoolTypeOK, NEW w \in Workers, state[w] = "ready",
           NEW s, s # "ready", state' = [state EXCEPT ![w] = s]
    PROVE  Cardinality(In("ready")') = Cardinality(In("ready")) - 1
  <1>1. In("ready")' = In("ready") \ {w} /\ w \in In("ready")
    BY DEF In, PoolTypeOK
  <1>2. IsFiniteSet(In("ready"))
    BY Countable
  <1> QED BY <1>1, <1>2, FS_RemoveElement

-----------------------------------------------------------------------------
(* Schedule.                                                               *)

\* A push adds one task and one notification to come.
LEMMA SchedulePreserves ==
    ASSUME PoolInv, NEW t \in Tasks, Schedule(t)
    PROVE  PoolInv'
  <1> USE DEF PoolInv
  <1>1. /\ queue_' = Append(queue_, t) /\ to_notify' = to_notify \cup {t}
        /\ owner = "using" /\ runs[t] = 0
        /\ \A i \in DOMAIN queue_ : queue_[i] # t
        /\ UNCHANGED << stop_, state, running, owner, runs >>
    BY DEF Schedule, Push, Unscheduled, Queued
  <1>2. /\ queue_ \in Seq(Tasks) /\ Len(queue_) \in Nat
        /\ queue_' \in Seq(Tasks) /\ Len(queue_') = Len(queue_) + 1
        /\ DOMAIN queue_ = 1 .. Len(queue_) /\ DOMAIN queue_' = 1 .. (Len(queue_) + 1)
        /\ \A i \in 1 .. Len(queue_) : queue_'[i] = queue_[i]
        /\ queue_'[Len(queue_) + 1] = t
    BY <1>1 DEF PoolTypeOK
  <1>3. PoolTypeOK'
    BY <1>1, <1>2 DEF PoolTypeOK
  <1>4. QueueInv'
    <2>1. \A i, j \in DOMAIN queue_' : queue_'[i] = queue_'[j] => i = j
      BY <1>1, <1>2 DEF QueueInv
    <2>2. \A i \in DOMAIN queue_' : runs'[queue_'[i]] = 0
      BY <1>1, <1>2 DEF QueueInv
    <2>3. \A u \in to_notify' :
              runs'[u] = 1 \/ \E i \in DOMAIN queue_' : queue_'[i] = u
      BY <1>1, <1>2 DEF QueueInv
    <2> QED BY <1>1, <2>1, <2>2, <2>3 DEF QueueInv
  <1>5. ShutdownInv'
    BY <1>1 DEF ShutdownInv
  <1>6. NoIdleBacklog'
    <2>1. t \notin to_notify
      BY <1>1 DEF QueueInv
    <2>2. Cardinality(to_notify') = Cardinality(to_notify) + 1
      BY <1>1, <2>1, Countable, FS_AddElement
    <2>3. \A s : In(s)' = In(s)
      BY <1>1 DEF In
    <2> QED BY <1>2, <2>2, <2>3, Countable DEF NoIdleBacklog
  <1> QED BY <1>3, <1>4, <1>5, <1>6

\* A notification is used up only by waking a worker, if one sleeps.
LEMMA NotifyPreserves ==
    ASSUME PoolInv, NEW t \in Tasks, notify_one(t)
    PROVE  PoolInv'
  <1> USE DEF PoolInv
  <1>1. /\ t \in to_notify /\ to_notify' = to_notify \ {t}
        /\ UNCHANGED << queue_, stop_, running, owner, runs >>
    BY DEF notify_one
  <1>2. QueueInv'
    BY <1>1 DEF QueueInv
  <1>3. CASE In("waiting") = {} /\ UNCHANGED state
    <2>1. PoolTypeOK'
      BY <1>1, <1>3 DEF PoolTypeOK
    <2>2. ShutdownInv'
      BY <1>1, <1>3 DEF ShutdownInv
    <2>3. NoIdleBacklog'
      BY <1>3 DEF NoIdleBacklog, In
    <2> QED BY <1>2, <2>1, <2>2, <2>3
  <1>4. ASSUME NEW w \in In("waiting"), state' = [state EXCEPT ![w] = "ready"]
        PROVE  PoolInv'
    <2>1. w \in Workers /\ state[w] = "waiting"
      BY <1>4 DEF In
    <2>2. PoolTypeOK'
      BY <1>1, <1>4, <2>1 DEF PoolTypeOK
    <2>3. ShutdownInv'
      BY <1>1, <1>4, <2>1 DEF ShutdownInv, PoolTypeOK
    <2>4. Cardinality(In("ready")') = Cardinality(In("ready")) + 1
      BY <1>4, <2>1, BecomesReady
    <2>5. Cardinality(to_notify') = Cardinality(to_notify) - 1
      BY <1>1, Countable, FS_RemoveElement
    <2>6. In("waiting") # {} /\ Len(queue_) \in Nat
      BY <1>4 DEF PoolTypeOK
    <2>7. NoIdleBacklog'
      BY <1>1, <2>4, <2>5, <2>6, Countable DEF NoIdleBacklog
    <2> QED BY <1>2, <2>2, <2>3, <2>7
  <1> QED BY <1>3, <1>4 DEF notify_one

-----------------------------------------------------------------------------
(* The worker loop.                                                        *)

\* A worker goes to sleep only when nothing is queued.
LEMMA WaitPreserves ==
    ASSUME PoolInv, NEW w \in Workers, Wait(w)
    PROVE  PoolInv'
  <1> USE DEF PoolInv
  <1>1. PoolTypeOK'
    BY DEF Wait, PoolTypeOK
  <1>2. QueueInv'
    BY DEF Wait, QueueInv
  <1>3. ShutdownInv'
    BY DEF Wait, ShutdownInv, PoolTypeOK
  <1>4. NoIdleBacklog'
    <2>1. Len(queue_') = 0
      BY DEF Wait
    <2>2. Cardinality(In("ready")') \in Nat /\ Cardinality(to_notify') \in Nat
      <3>1. In("ready")' \subseteq Workers /\ to_notify' \subseteq Tasks
        BY <1>1 DEF In, PoolTypeOK
      <3> QED BY <3>1, PoolAssumption, FS_Subset, FS_CardinalityType
    <2> QED BY <2>1, <2>2 DEF NoIdleBacklog
  <1> QED BY <1>1, <1>2, <1>3, <1>4

\* A worker that wakes up for no reason is one more on its way to the queue.
LEMMA SpuriousPreserves ==
    ASSUME PoolInv, NEW w \in Workers, Spurious(w)
    PROVE  PoolInv'
  <1> USE DEF PoolInv
  <1>1. PoolTypeOK'
    BY DEF Spurious, PoolTypeOK
  <1>2. QueueInv'
    BY DEF Spurious, QueueInv
  <1>3. ShutdownInv'
    BY DEF Spurious, ShutdownInv, PoolTypeOK
  <1>4. NoIdleBacklog'
    <2>1. Cardinality(In("ready")') = Cardinality(In("ready")) + 1
      BY BecomesReady DEF Spurious
    <2>2. In("waiting") # {} /\ Len(queue_) \in Nat
      BY DEF Spurious, In, PoolTypeOK
    <2>3. UNCHANGED << queue_, to_notify >>
      BY DEF Spurious
    <2> QED BY <2>1, <2>2, <2>3, Countable DEF NoIdleBacklog
  <1> QED BY <1>1, <1>2, <1>3, <1>4

\* A worker leaves only a stopped and drained pool.
LEMMA LeavePreserves ==
    ASSUME PoolInv, NEW w \in Workers, Leave(w)
    PROVE  PoolInv'
  <1> USE DEF PoolInv
  <1>1. PoolTypeOK'
    BY DEF Leave, PoolTypeOK
  <1>2. QueueInv'
    BY DEF Leave, QueueInv
  <1>3. ShutdownInv'
    BY DEF Leave, MayLeave, ShutdownInv, PoolTypeOK
  <1>4. NoIdleBacklog'
    <2>1. Len(queue_') = 0
      BY DEF Leave, MayLeave
    <2>2. Cardinality(In("ready")') \in Nat /\ Cardinality(to_notify') \in Nat
      <3>1. In("ready")' \subseteq Workers /\ to_notify' \subseteq Tasks
        BY <1>1 DEF In, PoolTypeOK
      <3> QED BY <3>1, PoolAssumption, FS_Subset, FS_CardinalityType
    <2> QED BY <2>1, <2>2 DEF NoIdleBacklog
  <1> QED BY <1>1, <1>2, <1>3, <1>4

\* Taking a task uses one ready worker and starts a task that never ran.
LEMMA TakePreserves ==
    ASSUME PoolInv, NEW w \in Workers, Take(w)
    PROVE  PoolInv'
  <1> DEFINE t == Head(queue_)
  <1> USE DEF PoolInv
  <1>1. /\ queue_ \in Seq(Tasks) /\ queue_ # << >> /\ Len(queue_) \in Nat \ {0}
        /\ DOMAIN queue_ = 1 .. Len(queue_) /\ t = queue_[1] /\ t \in Tasks
    BY DEF Take, PoolTypeOK
  <1>2. /\ state[w] = "ready" /\ queue_' = Tail(queue_)
        /\ state' = [state EXCEPT ![w] = "busy"]
        /\ running' = [running EXCEPT ![w] = {t}]
        /\ runs' = [runs EXCEPT ![t] = @ + 1]
        /\ UNCHANGED << stop_, to_notify, owner >>
    BY DEF Take, Popped
  <1> HIDE DEF t
  <1>3. /\ queue_' \in Seq(Tasks) /\ Len(queue_') = Len(queue_) - 1
        /\ DOMAIN queue_' = 1 .. (Len(queue_) - 1)
        /\ \A i \in 1 .. (Len(queue_) - 1) : queue_'[i] = queue_[i + 1]
    BY <1>1, <1>2
  <1>4. PoolTypeOK'
    BY <1>1, <1>2, <1>3 DEF PoolTypeOK
  <1>5. QueueInv'
    <2>1. runs[t] = 0 /\ runs'[t] = 1 /\ \A u \in Tasks : u # t => runs'[u] = runs[u]
      BY <1>1, <1>2 DEF QueueInv, PoolTypeOK
    <2>2. \A i \in DOMAIN queue_' : queue_'[i] # t /\ queue_'[i] \in Tasks
      BY <1>1, <1>3 DEF QueueInv
    <2>3. \A i, j \in DOMAIN queue_' : queue_'[i] = queue_'[j] => i = j
      <3>1. SUFFICES ASSUME NEW i \in DOMAIN queue_', NEW j \in DOMAIN queue_',
                            queue_'[i] = queue_'[j]
                     PROVE  i = j
        OBVIOUS
      <3>2. i \in Int /\ j \in Int /\ i + 1 \in DOMAIN queue_ /\ j + 1 \in DOMAIN queue_
        BY <1>1, <1>3
      <3>3. queue_[i + 1] = queue_[j + 1]
        BY <1>3, <3>1
      <3>4. i + 1 = j + 1
        BY <3>2, <3>3 DEF QueueInv
      <3> QED BY <3>2, <3>4
    <2>4. \A i \in DOMAIN queue_' : runs'[queue_'[i]] = 0
      BY <1>1, <1>3, <2>1, <2>2 DEF QueueInv
    <2>5. \A u \in Tasks : runs'[u] <= 1
      BY <2>1 DEF QueueInv
    <2>6. ASSUME NEW u \in to_notify'
          PROVE  runs'[u] = 1 \/ \E i \in DOMAIN queue_' : queue_'[i] = u
      <3>1. u \in to_notify /\ u \in Tasks
        BY <1>2, <2>6 DEF PoolTypeOK
      <3>2. CASE u = t \/ runs[u] = 1
        BY <2>1, <3>1, <3>2
      <3>3. CASE u # t /\ runs[u] # 1
        <4>1. PICK k \in DOMAIN queue_ : queue_[k] = u
          BY <3>1, <3>3 DEF QueueInv
        <4>2. k - 1 \in DOMAIN queue_' /\ queue_'[k - 1] = u
          BY <1>1, <1>3, <3>3, <4>1
        <4> QED BY <4>2
      <3> QED BY <3>2, <3>3
    <2> QED BY <2>3, <2>4, <2>5, <2>6 DEF QueueInv
  <1>6. ShutdownInv'
    BY <1>1, <1>2 DEF ShutdownInv, PoolTypeOK
  <1>7. NoIdleBacklog'
    <2>1. Cardinality(In("ready")') = Cardinality(In("ready")) - 1
      BY <1>2, NoLongerReady
    <2>2. In("waiting")' = In("waiting")
      BY <1>2 DEF In, PoolTypeOK
    <2> QED BY <1>1, <1>2, <1>3, <2>1, <2>2, Countable DEF NoIdleBacklog
  <1> QED BY <1>4, <1>5, <1>6, <1>7

\* A worker that is done comes back to the queue.
LEMMA FinishPreserves ==
    ASSUME PoolInv, NEW w \in Workers, Finish(w)
    PROVE  PoolInv'
  <1> USE DEF PoolInv
  <1>1. PoolTypeOK'
    BY DEF Finish, PoolTypeOK
  <1>2. QueueInv'
    BY DEF Finish, QueueInv
  <1>3. ShutdownInv'
    BY DEF Finish, ShutdownInv, PoolTypeOK
  <1>4. NoIdleBacklog'
    <2>1. Cardinality(In("ready")') = Cardinality(In("ready")) + 1
      BY BecomesReady DEF Finish
    <2>2. In("waiting")' = In("waiting") /\ Len(queue_) \in Nat
      BY DEF Finish, In, PoolTypeOK
    <2>3. UNCHANGED << queue_, to_notify >>
      BY DEF Finish
    <2> QED BY <2>1, <2>2, <2>3, Countable DEF NoIdleBacklog
  <1> QED BY <1>1, <1>2, <1>3, <1>4

-----------------------------------------------------------------------------
(* The destructor.                                                         *)

\* The steps of the destructor: stop, wake everyone, join.
LEMMA DestructorPreserves ==
    ASSUME PoolInv, SetStop \/ notify_all \/ Join
    PROVE  PoolInv'
  <1> USE DEF PoolInv
  <1>1. CASE SetStop
    <2>1. PoolTypeOK'
      BY <1>1 DEF SetStop, PoolTypeOK
    <2>2. QueueInv'
      BY <1>1 DEF SetStop, QueueInv
    <2>3. ShutdownInv'
      BY <1>1 DEF SetStop, ShutdownInv
    <2>4. NoIdleBacklog'
      BY <1>1 DEF SetStop, NoIdleBacklog, In
    <2> QED BY <2>1, <2>2, <2>3, <2>4
  <1>2. CASE notify_all
    <2>1. PoolTypeOK'
      BY <1>2 DEF notify_all, WakeAll, PoolTypeOK
    <2>2. QueueInv'
      BY <1>2 DEF notify_all, QueueInv
    <2>3. ShutdownInv'
      BY <1>2 DEF notify_all, WakeAll, ShutdownInv, PoolTypeOK
    <2>4. In("waiting")' = {}
      BY <1>2 DEF notify_all, WakeAll, In, PoolTypeOK
    <2>5. NoIdleBacklog'
      BY <2>4 DEF NoIdleBacklog
    <2> QED BY <2>1, <2>2, <2>3, <2>5
  <1>3. CASE Join
    <2>1. PoolTypeOK'
      BY <1>3 DEF Join, PoolTypeOK
    <2>2. QueueInv'
      BY <1>3 DEF Join, QueueInv
    <2>3. ShutdownInv'
      BY <1>3 DEF Join, ShutdownInv
    <2>4. NoIdleBacklog'
      BY <1>3 DEF Join, NoIdleBacklog, In
    <2> QED BY <2>1, <2>2, <2>3, <2>4
  <1> QED BY <1>1, <1>2, <1>3

\* A stuttering step changes nothing.
LEMMA PoolStutter ==
    ASSUME PoolInv, UNCHANGED poolVars
    PROVE  PoolInv'
  BY DEF PoolInv, poolVars, PoolTypeOK, QueueInv, ShutdownInv, NoIdleBacklog, In

\* The pool keeps its inductive invariant.
LEMMA PoolInvariant == PoolSpec => []PoolInv
  <1>1. PoolInit => PoolInv
    <2> SUFFICES ASSUME PoolInit PROVE PoolInv
      OBVIOUS
    <2>1. PoolTypeOK
      <3>1. stop_ \in BOOLEAN
        BY Zenon DEF PoolInit
      <3> QED BY <3>1 DEF PoolInit, PoolTypeOK
    <2>2. QueueInv
      BY DEF PoolInit, QueueInv
    <2>3. ShutdownInv
      BY DEF PoolInit, ShutdownInv
    <2>4. In("waiting") = {}
      BY DEF PoolInit, In
    <2> QED BY <2>1, <2>2, <2>3, <2>4 DEF PoolInv, NoIdleBacklog
  <1>2. PoolInv /\ [PoolNext]_poolVars => PoolInv'
    BY SchedulePreserves, NotifyPreserves, WaitPreserves, SpuriousPreserves,
       LeavePreserves, TakePreserves, FinishPreserves, DestructorPreserves,
       PoolStutter DEF PoolNext
  <1> QED BY <1>1, <1>2, PTL DEF PoolSpec

\* No wake-up is lost, for any number of workers and tasks: while a worker sleeps
\* in cv_.wait, every queued task has a worker or a notification coming for it.
THEOREM NoWakeupLost == PoolSpec => []NoIdleBacklog
  <1>1. PoolInv => NoIdleBacklog
    BY DEF PoolInv
  <1> QED BY <1>1, PoolInvariant, PTL

\* Every task starts at most once, and the destructor returns only when all the
\* tasks scheduled have been taken and have ended, for any number of workers.
THEOREM DrainedOnDestruction == PoolSpec => []RunOnceThenDestroyed
  <1>1. PoolInv => RunOnceThenDestroyed
    <2> SUFFICES ASSUME PoolInv PROVE RunOnceThenDestroyed
      OBVIOUS
    <2>1. \A t \in Tasks : runs[t] <= 1 /\ (t \in Queued => runs[t] = 0)
      BY DEF PoolInv, QueueInv, Queued
    <2>2. ASSUME owner = "destroyed"
          PROVE  Queued = {} /\ \A w \in Workers : running[w] = {}
      <3>1. queue_ = << >>
        BY <2>2, PoolAssumption DEF PoolInv, ShutdownInv
      <3>2. \A w \in Workers : running[w] = {}
        BY <2>2 DEF PoolInv, ShutdownInv
      <3> QED BY <3>1, <3>2 DEF Queued
    <2> QED BY <2>1, <2>2 DEF RunOnceThenDestroyed
  <1> QED BY <1>1, PoolInvariant, PTL
=============================================================================
