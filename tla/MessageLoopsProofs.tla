------------------------ MODULE MessageLoopsProofs ------------------------
(***************************************************************************)
(* For every set of queues and every bound: the heaps have a top, the      *)
(* state is well typed, the merge links keep their shape, and a loop takes *)
(* the earliest task next.  Then the loops: none sleeps past the time its  *)
(* earliest task is due, and none touches an entry that is gone.  Both     *)
(* need to know where a loop stands when a client posts, merges or joins.  *)
(***************************************************************************)
EXTENDS MessageLoops, WellFoundedInduction, TLAPS

\* A nonempty set of naturals has a least element.
LEMMA NatMin ==
  ASSUME NEW S, S \subseteq Nat, S # {}
  PROVE  \E m \in S : \A n \in S : m <= n
<1> DEFINE R == OpToRel(<, Nat)
<1>1. IsWellFoundedOn(R, Nat)
  BY NatLessThanWellFounded
<1> HIDE DEF R
<1>2. PICK m \in S : \A n \in S : ~(<<n, m>> \in R)
  BY <1>1, WFMin
<1>3. \A n \in S : n < m => <<n, m>> \in R
  BY DEF R, OpToRel
<1>4. ASSUME NEW n \in S PROVE m <= n
  <2>1. ~(n < m)
    BY <1>2, <1>3
  <2> QED
    BY <2>1, S \subseteq Nat
<1> QED
  BY <1>4

\* The top of a nonempty heap is one of its tasks and no task of the heap is
\* earlier: priority_queue::top() with DelayedTask::operator>.
LEMMA HeapTopEarliest ==
  ASSUME NEW heap \in SUBSET Task, heap # {}
  PROVE  /\ HeapTop(heap) \in heap
         /\ \A u \in heap : ~Later(HeapTop(heap), u)
<1> DEFINE times == {t.time : t \in heap}
<1> USE TaskQueuesAssumption
<1>1. PICK m \in times : \A n \in times : m <= n
  <2>1. times \subseteq Nat /\ times # {}
    BY DEF Task, Times
  <2> HIDE DEF times
  <2> QED
    BY <2>1, NatMin
<1> DEFINE first  == {t \in heap : t.time = m}
           orders == {t.order : t \in first}
<1>2. PICK o \in orders : \A n \in orders : o <= n
  <2>1. orders \subseteq Nat /\ orders # {}
    BY <1>1 DEF Task, Times
  <2> HIDE DEF orders
  <2> QED
    BY <2>1, NatMin
<1>3. PICK t \in first : t.order = o
  BY <1>2
<1>4. ASSUME NEW u \in heap PROVE ~Later(t, u)
  <2>1. t.time = m /\ m <= u.time /\ t.time \in Nat /\ u.time \in Nat
        /\ t.order \in Nat /\ u.order \in Nat
    BY <1>1, <1>3 DEF Task, Times
  <2>2. u.time = m => t.order <= u.order
    BY <1>2, <1>3
  <2> QED
    BY <2>1, <2>2 DEF Later
<1>5. \E x \in heap : \A u \in heap : ~Later(x, u)
  BY <1>3, <1>4
<1> QED
  BY <1>5 DEF HeapTop

\* DelayedTask::operator> is a strict total order up to equal keys.
LEMMA LaterOrder ==
  ASSUME NEW t \in Task, NEW u \in Task
  PROVE  /\ Later(t, u) => ~Later(u, t)
         /\ \A v \in Task : ~Later(t, u) /\ ~Later(u, v) => ~Later(t, v)
BY TaskQueuesAssumption DEF Later, Task, Times

\* TypeOK without the timers, whose values come from the other variables.
SourcesOK ==
  /\ owner_of \in [Queues -> Queues \union {Unmerged}]
  /\ tasks \in [Queues -> SUBSET Task]
  /\ paused \in [Queues -> 0 .. MaxPauses]

\* The tasks of a source that are not paused.
Ready(q) == {t \in tasks[q] : t.grade = Primary \/ paused[q] = 0}

\* TaskSource::Top() of a source that is not empty is the earliest of its tasks
\* that are not paused.
LEMMA TopEarliest ==
  ASSUME SourcesOK, NEW q \in Queues
  PROVE  /\ IsEmpty(q) <=> Ready(q) = {}
         /\ ~IsEmpty(q) => Top(q) \in Ready(q) /\ \A t \in Ready(q) : ~Later(Top(q), t)
<1> USE TaskQueuesAssumption
<1> DEFINE P == PrimaryHeap(q)
           S == SecondaryHeap(q)
<1>1. P \in SUBSET Task /\ S \in SUBSET Task /\ paused[q] \in Nat
  BY DEF PrimaryHeap, SecondaryHeap, SourcesOK
<1>2. Ready(q) = IF paused[q] = 0 THEN P \union S ELSE P
  BY DEF Ready, PrimaryHeap, SecondaryHeap, SourcesOK, Task, Grades, Primary, Secondary
<1>3. P # {} => HeapTop(P) \in P /\ \A t \in P : ~Later(HeapTop(P), t)
  BY <1>1, HeapTopEarliest
<1>4. S # {} => HeapTop(S) \in S /\ \A t \in S : ~Later(HeapTop(S), t)
  BY <1>1, HeapTopEarliest
<1>5. IsEmpty(q) <=> Ready(q) = {}
  BY <1>2 DEF IsEmpty
<1>6. ASSUME ~IsEmpty(q)
      PROVE  Top(q) \in Ready(q) /\ \A t \in Ready(q) : ~Later(Top(q), t)
  <2>1. CASE paused[q] > 0 \/ S = {}
    <3>1. Top(q) = HeapTop(P) /\ Ready(q) = P /\ P # {}
      BY <1>1, <1>2, <1>5, <1>6, <2>1 DEF Top
    <3> QED BY <1>3, <3>1
  <2>2. CASE paused[q] = 0 /\ S # {} /\ P = {}
    <3>1. Top(q) = HeapTop(S) /\ Ready(q) = S
      BY <1>2, <2>2 DEF Top
    <3> QED BY <1>4, <2>2, <3>1
  <2>3. CASE paused[q] = 0 /\ S # {} /\ P # {}
    <3>1. Top(q) = IF Later(HeapTop(P), HeapTop(S)) THEN HeapTop(S) ELSE HeapTop(P)
      BY <2>3 DEF Top
    <3>2. HeapTop(P) \in Task /\ HeapTop(S) \in Task /\ Ready(q) = P \union S
      BY <1>1, <1>2, <1>3, <1>4, <2>3
    <3> HIDE DEF P, S
    <3>3. ASSUME NEW t \in P \union S PROVE ~Later(Top(q), t)
      <4>1. t \in Task
        BY <1>1
      <4> QED BY <1>3, <1>4, <2>3, <3>1, <3>2, <4>1, LaterOrder
    <3> QED BY <1>3, <1>4, <2>3, <3>1, <3>2, <3>3
  <2> QED BY <1>1, <2>1, <2>2, <2>3
<1> QED BY <1>5, <1>6

-----------------------------------------------------------------------------
NextTaskOK ==
  \A q \in Queues : HasPendingTasks(q) =>
    PeekQueue(q) \in Queues /\ PeekNextTask(q) \in tasks[PeekQueue(q)]

\* PeekNextTaskUnlocked: the task a loop with pending tasks would run next is
\* in the queue it is said to come from.
LEMMA PeekFindsTask == SourcesOK => NextTaskOK
<1> SUFFICES ASSUME SourcesOK, NEW q \in Queues, HasPendingTasks(q)
             PROVE  PeekQueue(q) \in Queues /\ PeekNextTask(q) \in tasks[PeekQueue(q)]
  BY DEF NextTaskOK
<1>1. owner_of[q] # Unmerged => owner_of[q] \in Queues
  BY DEF SourcesOK
<1>2. PeekQueue(q) \in Queues /\ ~IsEmpty(PeekQueue(q))
  BY <1>1 DEF HasPendingTasks, PeekQueue, Owns
<1>3. Top(PeekQueue(q)) \in tasks[PeekQueue(q)]
  BY <1>2, TopEarliest DEF Ready
<1> QED
  BY <1>2, <1>3 DEF PeekNextTask

\* A call that leaves sound sources behind and wakes some loops leaves sound
\* timers behind.
LEMMA WakeUpType ==
  ASSUME SourcesOK', timer \in [Queues -> 0 .. Never], NEW qs, WakeUp(qs)
  PROVE  timer' \in [Queues -> 0 .. Never]
<1>1. NextTaskOK'
  BY PeekFindsTask, PTL
<1>2. ASSUME NEW q \in Queues, HasPendingTasks(q)'
      PROVE  PeekNextTask(q)'.time \in 0 .. Never
  <2>1. PeekQueue(q)' \in Queues /\ PeekNextTask(q)' \in tasks'[PeekQueue(q)']
    BY <1>1, <1>2 DEF NextTaskOK
  <2>2. PeekNextTask(q)' \in Task
    BY <2>1 DEF SourcesOK
  <2> QED
    BY <2>2, TaskQueuesAssumption DEF Task, Times, Never
<1> QED
  BY <1>2 DEF WakeUp

\* Every call keeps the state well typed.
LEMMA TypeStep == TypeOK /\ [Next]_queueVars => TypeOK'
<1> SUFFICES ASSUME TypeOK, [Next]_queueVars PROVE TypeOK'
  OBVIOUS
<1> USE TaskQueuesAssumption
<1> USE DEF TypeOK
<1>1. ASSUME NEW q \in Queues, CreateTaskQueue(q) PROVE TypeOK'
  BY <1>1 DEF CreateTaskQueue
<1>2. ASSUME NEW q \in Queues, Dispose(q) PROVE TypeOK'
  BY <1>2 DEF Dispose
<1>3. ASSUME NEW q \in Queues, DisposeTasks(q) PROVE TypeOK'
  BY <1>3 DEF DisposeTasks
<1>4. ASSUME NEW q \in Queues, NEW time \in Times, NEW grade \in Grades,
             RegisterTask(q, time, grade)
      PROVE  TypeOK'
  <2>1. [order |-> order, time |-> time, grade |-> grade] \in Task
    BY DEF Task
  <2>2. SourcesOK' /\ order' \in 0 .. MaxTasks
    BY <1>4, <2>1 DEF RegisterTask, SourcesOK
  <2>3. timer' \in [Queues -> 0 .. Never]
    BY <1>4, <2>2, WakeUpType DEF RegisterTask
  <2> QED
    BY <1>4, <2>2, <2>3 DEF RegisterTask, SourcesOK
<1>5. ASSUME NEW q \in Queues, NEW at \in Times, NothingDue(q, at) \/ PopDue(q, at)
      PROVE  TypeOK'
  <2>1. HasPendingTasks(q)
    BY <1>5 DEF NothingDue, PopDue
  <2>2. PeekQueue(q) \in Queues /\ PeekNextTask(q) \in Task
    BY <2>1, PeekFindsTask DEF SourcesOK, NextTaskOK
  <2>3. PeekNextTask(q).time \in 0 .. Never
    BY <2>2 DEF Task, Times, Never
  <2> QED
    BY <1>5, <2>2, <2>3 DEF NothingDue, PopDue
<1>6. ASSUME NEW q \in Queues, NEW s \in Queues, Merge(q, s) PROVE TypeOK'
  <2>1. SourcesOK' /\ timer' \in [Queues -> 0 .. Never]
    BY <1>6, WakeUpType DEF Merge, SourcesOK
  <2> QED
    BY <1>6, <2>1 DEF Merge, SourcesOK
<1>7. ASSUME NEW q \in Queues, Unmerge(q) PROVE TypeOK'
  <2>1. owner_of[q] \in Queues
    BY <1>7 DEF Unmerge, Owns
  <2>2. SourcesOK' /\ timer' \in [Queues -> 0 .. Never]
    BY <1>7, WakeUpType DEF Unmerge, SourcesOK
  <2> QED
    BY <1>7, <2>1, <2>2 DEF Unmerge, SourcesOK
<1>8. ASSUME NEW q \in Queues, PauseSecondarySource(q) PROVE TypeOK'
  BY <1>8 DEF PauseSecondarySource
<1>9. ASSUME NEW q \in Queues, ResumeSecondarySource(q) PROVE TypeOK'
  <2>1. SourcesOK' /\ timer' \in [Queues -> 0 .. Never]
    BY <1>9, WakeUpType DEF ResumeSecondarySource, SourcesOK
  <2> QED
    BY <1>9, <2>1 DEF ResumeSecondarySource, SourcesOK
<1>10. CASE UNCHANGED queueVars
  BY <1>10 DEF queueVars
<1> QED
  BY <1>1, <1>2, <1>3, <1>4, <1>5, <1>6, <1>7, <1>8, <1>9, <1>10 DEF Next

\* The state of the task queues is well typed whatever the clients call: in
\* particular every time a loop is woken at is a target time of some task.
THEOREM TypeCorrect == Spec => []TypeOK
<1>1. Init => TypeOK
  BY TaskQueuesAssumption DEF Init, TypeOK, Never
<1> QED
  BY <1>1, TypeStep, PTL DEF Spec
-----------------------------------------------------------------------------
\* Every call keeps the merge links inverse to each other, free of chains and
\* within the live entries.
LEMMA TopologyStep == TypeOK /\ MergeTopology /\ [Next]_queueVars => MergeTopology'
<1> SUFFICES ASSUME TypeOK, MergeTopology, [Next]_queueVars PROVE MergeTopology'
  OBVIOUS
<1> USE TaskQueuesAssumption
<1> USE DEF MergeTopology, Owns, IsSubsumed
<1>1. ASSUME UNCHANGED <<owner_of, subsumed_by>>, entries \subseteq entries'
      PROVE  MergeTopology'
  BY <1>1
<1>2. ASSUME NEW q \in Queues, Dispose(q) PROVE MergeTopology'
  BY <1>2 DEF Dispose, ErasedWith, TypeOK
<1>3. ASSUME NEW q \in Queues, NEW s \in Queues, Merge(q, s) PROVE MergeTopology'
  BY <1>3 DEF Merge, TypeOK
<1>4. ASSUME NEW q \in Queues, Unmerge(q) PROVE MergeTopology'
  BY <1>4 DEF Unmerge, TypeOK
<1>5. ASSUME NEW q \in Queues,
             \/ CreateTaskQueue(q) \/ DisposeTasks(q)
             \/ \E time \in Times, grade \in Grades : RegisterTask(q, time, grade)
             \/ \E at \in Times : NothingDue(q, at) \/ PopDue(q, at)
             \/ PauseSecondarySource(q) \/ ResumeSecondarySource(q)
      PROVE  UNCHANGED <<owner_of, subsumed_by>> /\ entries \subseteq entries'
  BY <1>5 DEF CreateTaskQueue, DisposeTasks, RegisterTask, NothingDue, PopDue,
              PauseSecondarySource, ResumeSecondarySource
<1>6. CASE UNCHANGED queueVars
  BY <1>6, <1>1 DEF queueVars
<1> QED
  BY <1>1, <1>2, <1>3, <1>4, <1>5, <1>6 DEF Next

\* Whatever sequence of Merge, Unmerge and Dispose calls the clients make, a
\* queue is merged with at most one other, as its owner or as its subsumed
\* queue and never as both, the two entries agree about it, and neither
\* entry has been erased.
THEOREM TopologyCorrect == Spec => []MergeTopology
<1>1. Init => MergeTopology
  BY DEF Init, MergeTopology, Owns, IsSubsumed
<1> QED
  BY <1>1, TypeCorrect, TopologyStep, PTL DEF Spec
-----------------------------------------------------------------------------
(* What the queues keep under every client, and under the loops.           *)

\* A task is in one queue; order_ has not been given out yet.
TasksApart ==
  \A q \in Queues :
    /\ \A t \in tasks[q] : t.order < order
    /\ \A s \in Queues \ {q} : tasks[q] \intersect tasks[s] = {}

\* Nothing is left of a queue without an entry.
NoRemains == \A q \in Queues \ entries : tasks[q] = {}

QueueInv == TypeOK /\ MergeTopology /\ TasksApart /\ NoRemains

\* A step of a loop that is no call: its timer expires or is armed for now, and
\* tasks may be gone.
Rearms ==
  /\ \A q \in Queues : tasks'[q] \subseteq tasks[q]
  /\ tasks' \in [Queues -> SUBSET Task]
  /\ timer' \in [Queues -> 0 .. Never]
  /\ UNCHANGED <<created, entries, owner_of, subsumed_by, paused, order>>

\* Every call keeps tasks apart, and every other step of a loop does.
LEMMA ApartStep ==
  ASSUME QueueInv, [Next]_queueVars \/ Rearms
  PROVE  TasksApart' /\ NoRemains'
<1> USE DEF QueueInv, TypeOK
<1>1. ASSUME \A q \in Queues : tasks'[q] \subseteq tasks[q], order' = order,
             entries \subseteq entries'
      PROVE  TasksApart' /\ NoRemains'
  BY <1>1 DEF TasksApart, NoRemains
<1>2. ASSUME NEW q \in Queues, Dispose(q) PROVE TasksApart' /\ NoRemains'
  BY <1>2 DEF Dispose, ErasedWith, TasksApart, NoRemains
<1>3. ASSUME NEW q \in Queues, NEW time \in Times, NEW grade \in Grades,
             RegisterTask(q, time, grade)
      PROVE  TasksApart' /\ NoRemains'
  <2> DEFINE new == [order |-> order, time |-> time, grade |-> grade]
  <2>1. /\ q \in entries /\ entries' = entries /\ order' = order + 1 /\ order \in Nat
        /\ tasks' = [tasks EXCEPT ![q] = @ \union {new}]
    BY <1>3, TaskQueuesAssumption DEF RegisterTask
  <2>2. \A s \in Queues : new \notin tasks[s]
    BY <2>1 DEF TasksApart
  <2>3. \A s \in Queues : \A t \in tasks[s] : t.order < order /\ t.order \in Nat
    BY DEF TasksApart, Task
  <2>4. new.order = order
    OBVIOUS
  <2> HIDE DEF new
  <2>5. \A s \in Queues : tasks'[s] = IF s = q THEN tasks[q] \union {new} ELSE tasks[s]
    BY <2>1
  <2>6. \A s \in Queues : \A t \in tasks'[s] : t.order < order'
    BY <2>1, <2>3, <2>4, <2>5
  <2>7. \A s \in Queues : \A r \in Queues \ {s} : tasks'[s] \intersect tasks'[r] = {}
    BY <2>2, <2>5 DEF TasksApart
  <2>8. NoRemains'
    BY <2>1, <2>5 DEF NoRemains
  <2> QED BY <2>6, <2>7, <2>8 DEF TasksApart
<1>4. ASSUME NEW q \in Queues,
             \/ CreateTaskQueue(q) \/ DisposeTasks(q)
             \/ \E at \in Times : NothingDue(q, at) \/ PopDue(q, at)
             \/ \E s \in Queues : Merge(q, s)
             \/ Unmerge(q) \/ PauseSecondarySource(q) \/ ResumeSecondarySource(q)
      PROVE  TasksApart' /\ NoRemains'
  <2>1. /\ \A s \in Queues : tasks'[s] \subseteq tasks[s]
        /\ order' = order /\ entries \subseteq entries'
    BY <1>4 DEF CreateTaskQueue, DisposeTasks, NothingDue, PopDue, Merge, Unmerge,
                PauseSecondarySource, ResumeSecondarySource
  <2> QED BY <1>1, <2>1
<1>5. CASE UNCHANGED queueVars
  BY <1>1, <1>5 DEF queueVars
<1>6. CASE Rearms
  BY <1>1, <1>6 DEF Rearms
<1> QED BY <1>2, <1>3, <1>4, <1>5, <1>6 DEF Next

LEMMA QueueStep ==
  ASSUME QueueInv, [Next]_queueVars \/ Rearms
  PROVE  QueueInv'
<1>1. TypeOK' /\ MergeTopology'
  <2>1. CASE [Next]_queueVars
    BY <2>1, TypeStep, TopologyStep DEF QueueInv
  <2>2. CASE Rearms
    BY <2>2 DEF Rearms, QueueInv, TypeOK, MergeTopology, Owns, IsSubsumed
  <2> QED BY <2>1, <2>2
<1> QED BY <1>1, ApartStep DEF QueueInv

\* No task is in two queues, so what a loop is to run is what is ready in its
\* queue and in the queue that owns.
RunnableReady ==
  \A q \in Queues :
    /\ Runnable(q) = Ready(q) \union (IF Owns(q) THEN Ready(owner_of[q]) ELSE {})
    /\ Owns(q) => owner_of[q] \in Queues /\ owner_of[q] # q

LEMMA RunnableIsReady == QueueInv => RunnableReady
<1> SUFFICES ASSUME QueueInv, NEW q \in Queues
             PROVE  /\ Runnable(q) = Ready(q) \union (IF Owns(q) THEN Ready(owner_of[q]) ELSE {})
                    /\ Owns(q) => owner_of[q] \in Queues /\ owner_of[q] # q
  BY DEF RunnableReady
<1> USE TaskQueuesAssumption
<1> DEFINE s == owner_of[q]
<1>1. Owns(q) => s \in Queues /\ s # q
  BY DEF QueueInv, TypeOK, MergeTopology, Owns, IsSubsumed
<1>2. Owns(q) => tasks[q] \intersect tasks[s] = {}
  BY <1>1 DEF QueueInv, TasksApart
<1> HIDE DEF s
<1>3. CASE Owns(q)
  BY <1>1, <1>2, <1>3 DEF Runnable, Ready, s
<1>4. CASE ~Owns(q)
  BY <1>4 DEF Runnable, Ready
<1> QED BY <1>1, <1>3, <1>4 DEF s

\* In such a state the four heaps are searched right.
LEMMA PeekEarliest == QueueInv => PeekIsEarliest
<1> SUFFICES ASSUME QueueInv, NEW q \in entries, ~IsSubsumed(q)
             PROVE  /\ HasPendingTasks(q) <=> Runnable(q) # {}
                    /\ HasPendingTasks(q) =>
                         /\ PeekNextTask(q) \in Runnable(q)
                         /\ \A t \in Runnable(q) : ~Later(PeekNextTask(q), t)
  BY DEF PeekIsEarliest
<1> USE TaskQueuesAssumption
<1> DEFINE s == owner_of[q]
<1>1. q \in Queues /\ SourcesOK
  BY DEF QueueInv, TypeOK, SourcesOK
<1>2. Owns(q) => s \in Queues /\ s # q
  BY <1>1, RunnableIsReady DEF RunnableReady
<1>3. Runnable(q) = Ready(q) \union (IF Owns(q) THEN Ready(s) ELSE {})
  BY <1>1, RunnableIsReady DEF RunnableReady
<1>4. /\ IsEmpty(q) <=> Ready(q) = {}
      /\ ~IsEmpty(q) => Top(q) \in Ready(q) /\ \A t \in Ready(q) : ~Later(Top(q), t)
  BY <1>1, TopEarliest
<1>5. Owns(q) =>
        /\ IsEmpty(s) <=> Ready(s) = {}
        /\ ~IsEmpty(s) => Top(s) \in Ready(s) /\ \A t \in Ready(s) : ~Later(Top(s), t)
  BY <1>1, <1>2, TopEarliest
<1>6. Ready(q) \subseteq Task /\ (Owns(q) => Ready(s) \subseteq Task)
  BY <1>1, <1>2 DEF Ready, SourcesOK
<1>7. HasPendingTasks(q) <=> Runnable(q) # {}
  BY <1>3, <1>4, <1>5 DEF HasPendingTasks
<1>8. ASSUME HasPendingTasks(q)
      PROVE  /\ PeekNextTask(q) \in Runnable(q)
             /\ \A t \in Runnable(q) : ~Later(PeekNextTask(q), t)
  <2> HIDE DEF s
  <2>1. PeekNextTask(q) = IF Owns(q) /\ ~IsEmpty(s) /\ (IsEmpty(q) \/ Later(Top(q), Top(s)))
                          THEN Top(s) ELSE Top(q)
    BY DEF PeekNextTask, PeekQueue, s
  <2>2. ~IsEmpty(q) \/ (Owns(q) /\ ~IsEmpty(s))
    BY <1>8 DEF HasPendingTasks, s
  <2>3. CASE ~Owns(q) \/ IsEmpty(s)
    BY <1>3, <1>4, <1>5, <2>1, <2>2, <2>3
  <2>4. CASE Owns(q) /\ ~IsEmpty(s) /\ IsEmpty(q)
    BY <1>3, <1>4, <1>5, <2>1, <2>4
  <2>5. CASE Owns(q) /\ ~IsEmpty(s) /\ ~IsEmpty(q)
    <3>1. Top(q) \in Task /\ Top(s) \in Task
      BY <1>4, <1>5, <1>6, <2>5
    <3>2. ASSUME NEW t \in Runnable(q) PROVE ~Later(PeekNextTask(q), t)
      <4>1. t \in Task /\ (t \in Ready(q) \/ t \in Ready(s))
        BY <1>3, <1>6, <2>5
      <4> QED BY <1>4, <1>5, <2>1, <2>5, <3>1, <4>1, LaterOrder
    <3> QED BY <1>3, <1>4, <1>5, <2>1, <2>5, <3>2
  <2> QED BY <2>3, <2>4, <2>5
<1> QED BY <1>7, <1>8
-----------------------------------------------------------------------------
(* The loops around the queues.                                            *)

LoopTypes ==
  /\ now \in Times
  /\ pc \in [Queues -> {"absent", "start", "wait", "flush", "final", "dispose", "done", "gone"}]
  /\ from \in [Queues -> Times]
  /\ terminated \in [Queues -> BOOLEAN] /\ running \in [Queues -> BOOLEAN]
  /\ posting \in [Posters -> Queues \union {Nothing}]
  /\ joining \in [Queues -> {"no", "posting", "posted"}]

LEMMA LoopTypesStep ==
  ASSUME LoopTypes, [LoopsNext]_vars
  PROVE  LoopTypes'
<1> USE TaskQueuesAssumption, MessageLoopsAssumption DEF LoopTypes
<1>1. ASSUME NEW q \in Queues, LoopStep(q) PROVE LoopTypes'
  <2> USE DEF loopVars, clientVars
  <2>1. CASE DoRun(q) \/ LoopFails(q) \/ FinishRun(q)
    BY <2>1 DEF DoRun, LoopFails, Fails, FinishRun
  <2>2. CASE OnEventFired(q)
    BY <2>2 DEF OnEventFired
  <2>3. CASE FlushTask(q)
    <3>1. /\ terminated' \in [Queues -> BOOLEAN] /\ running' \in [Queues -> BOOLEAN]
          /\ UNCHANGED <<now, pc, from, clientVars>>
      BY <2>3 DEF FlushTask
    <3> QED BY <3>1
  <2>4. CASE FlushEnds(q)
    <3>1. UNCHANGED <<now, running, clientVars>> /\ AfterFlush(q)
      BY <2>4 DEF FlushEnds
    <3>2. \E at \in {"final", "dispose", "wait"} : pc' = [pc EXCEPT ![q] = at]
      BY <3>1 DEF AfterFlush
    <3>3. \/ terminated' = terminated /\ from' = from
          \/ terminated' = [terminated EXCEPT ![q] = TRUE] /\ from' = [from EXCEPT ![q] = now]
      BY <3>1, Zenon DEF AfterFlush
    <3>4. pc' \in [Queues -> {"absent", "start", "wait", "flush", "final", "dispose", "done", "gone"}]
      BY <3>2
    <3>5. from' \in [Queues -> Times]
      BY <3>3
    <3>6. terminated' \in [Queues -> BOOLEAN]
      <4>1. terminated \in [Queues -> BOOLEAN]
        OBVIOUS
      <4> QED BY ONLY <3>3, <4>1
    <3> QED BY <3>1, <3>4, <3>5, <3>6
  <2> QED BY <1>1, <2>1, <2>2, <2>3, <2>4 DEF LoopStep
<1>2. CASE ClientStep
  BY <1>2 DEF ClientStep, StartThread, Join, Destroy, DestroyFails, Fails, PauseResume,
              UnmergeLoops, MergeLoops, RegisterMicroTask, PostTaskCheck, loopVars, clientVars
<1>3. CASE PostStep
  BY <1>3 DEF PostStep, PostTaskRegister, JoinRegister, PostFails, Fails, loopVars, clientVars
<1>4. CASE Tick
  BY <1>4 DEF Tick, Times, loopVars, clientVars
<1>5. CASE UNCHANGED vars
  BY <1>5 DEF vars, loopVars, clientVars
<1> QED BY <1>1, <1>2, <1>3, <1>4, <1>5 DEF LoopsNext

\* What the loops and their clients do to the queues is a call, or an expired or
\* rearmed timer.
LEMMA LoopsCallQueues ==
  ASSUME QueueInv, LoopTypes, [LoopsNext]_vars
  PROVE  [Next]_queueVars \/ Rearms
<1> USE TaskQueuesAssumption, MessageLoopsAssumption
<1>1. ASSUME NEW q \in Queues, LoopStep(q) PROVE [Next]_queueVars \/ Rearms
  <2>1. CASE DoRun(q) \/ LoopFails(q)
    BY <2>1 DEF DoRun, LoopFails, Fails
  <2>2. CASE OnEventFired(q)
    BY <2>2 DEF OnEventFired, Rearms, QueueInv, TypeOK, Never
  <2>3. CASE FlushTask(q)
    <3>1. CASE PeekNextTask(q).order \in quitTasks
      <4>1. tasks' = [tasks EXCEPT ![PeekQueue(q)] = @ \ {PeekNextTask(q)}]
            /\ timer' = [timer EXCEPT ![q] = now]
            /\ UNCHANGED <<created, entries, owner_of, subsumed_by, paused, order>>
        BY <2>3, <3>1 DEF FlushTask
      <4>2. now \in 0 .. Never
        BY DEF LoopTypes, Times, Never
      <4> QED BY <4>1, <4>2 DEF Rearms, QueueInv, TypeOK
    <3>2. CASE PeekNextTask(q).order \notin quitTasks
      <4>1. PopDue(q, from[q]) /\ from[q] \in Times
        BY <2>3, <3>2 DEF FlushTask, LoopTypes
      <4> QED BY <4>1 DEF Next
    <3> QED BY <3>1, <3>2
  <2>4. CASE FlushEnds(q)
    <3>1. from[q] \in Times /\ (NothingPending(q) \/ NothingDue(q, from[q]))
      BY <2>4 DEF FlushEnds, LoopTypes
    <3> QED BY <3>1 DEF NothingPending, Next
  <2>5. CASE FinishRun(q)
    BY <2>5 DEF FinishRun, Next
  <2> QED BY <1>1, <2>1, <2>2, <2>3, <2>4, <2>5 DEF LoopStep
<1>2. CASE ClientStep
  <2>1. ASSUME NEW q \in Queues, StartThread(q) \/ Destroy(q) \/ PauseResume(q) \/ UnmergeLoops(q)
        PROVE  Next
    BY <2>1 DEF StartThread, Destroy, PauseResume, UnmergeLoops, Next
  <2>2. ASSUME NEW q \in Queues, NEW s \in Queues, MergeLoops(q, s) PROVE Next
    BY <2>2 DEF MergeLoops, Next
  <2>3. ASSUME NEW q \in Queues, NEW time \in Times, RegisterMicroTask(q, time) PROVE Next
    BY <2>3 DEF RegisterMicroTask, Next, Grades
  <2>4. ASSUME NEW q \in Queues, NEW p \in Posters, Join(q) \/ PostTaskCheck(p, q)
        PROVE  UNCHANGED queueVars
    BY <2>4 DEF Join, PostTaskCheck
  <2>5. ASSUME NEW q \in Queues, Join(q) \/ DestroyFails(q) PROVE UNCHANGED queueVars
    BY <2>5 DEF Join, DestroyFails, Fails
  <2> QED BY <1>2, <2>1, <2>2, <2>3, <2>4, <2>5 DEF ClientStep
<1>3. CASE PostStep
  <2>1. ASSUME NEW p \in Posters, NEW time \in Times, PostTaskRegister(p, time) PROVE Next
    <3>1. posting[p] \in Queues /\ RegisterTask(posting[p], time, Primary)
      BY <2>1 DEF PostTaskRegister, LoopTypes
    <3> QED BY <3>1 DEF Next, Grades
  <2>2. ASSUME NEW q \in Queues, JoinRegister(q) PROVE Next
    <3>1. RegisterTask(q, now, Primary) /\ now \in Times
      BY <2>2 DEF JoinRegister, LoopTypes
    <3> QED BY <3>1 DEF Next, Grades
  <2>3. ASSUME NEW q \in Queues, PostFails(q) PROVE UNCHANGED queueVars
    BY <2>3 DEF PostFails, Fails
  <2> QED BY <1>3, <2>1, <2>2, <2>3 DEF PostStep
<1>4. CASE Tick \/ UNCHANGED vars
  BY <1>4 DEF Tick, vars
<1> QED BY <1>1, <1>2, <1>3, <1>4 DEF LoopsNext

LoopsInv == QueueInv /\ LoopTypes

LEMMA LoopsInvInit == LoopsInit => LoopsInv
<1> USE TaskQueuesAssumption, MessageLoopsAssumption
<1>1. ASSUME LoopsInit PROVE QueueInv
  BY <1>1 DEF LoopsInit, Init, QueueInv, TypeOK, MergeTopology, TasksApart, NoRemains, Owns,
              IsSubsumed, Never
<1>2. ASSUME LoopsInit PROVE LoopTypes
  BY <1>2 DEF LoopsInit, LoopTypes, Times
<1> QED BY <1>1, <1>2 DEF LoopsInv

LEMMA LoopsInvStep == LoopsInv /\ [LoopsNext]_vars => LoopsInv'
BY LoopTypesStep, LoopsCallQueues, QueueStep DEF LoopsInv

\* GetNextTaskToRun finds the earliest task in (time, order) of the up to four
\* heaps a loop drains, in every state the loops and their clients can reach.
THEOREM EarliestTaskNext == LoopsSpec => []PeekIsEarliest
<1>1. LoopsInv => PeekIsEarliest
  BY PeekEarliest DEF LoopsInv
<1> QED BY <1>1, LoopsInvInit, LoopsInvStep, PTL DEF LoopsSpec

\* The merge links keep their shape also under the loops: threads that end,
\* destroy their loop or terminate while merged.
THEOREM LoopsTopology == LoopsSpec => []MergeTopology
<1>1. LoopsInv => MergeTopology
  BY DEF LoopsInv, QueueInv
<1> QED BY <1>1, LoopsInvInit, LoopsInvStep, PTL DEF LoopsSpec
-----------------------------------------------------------------------------
(* Nobody oversleeps.                                                      *)

Resting(q) == q \in entries /\ pc[q] \in {"start", "wait"} /\ ~IsSubsumed(q)
OnTime(q)  == \A t \in Runnable(q) : timer[q] <= t.time

\* A loop nobody disturbs stays on time.
LEMMA Undisturbed ==
  ASSUME QueueInv, QueueInv', NEW q \in Queues, Resting(q) => OnTime(q),
         Resting(q)' => Resting(q), timer'[q] = timer[q], owner_of'[q] = owner_of[q],
         Ready(q)' \subseteq Ready(q),
         Owns(q) => Ready(owner_of[q])' \subseteq Ready(owner_of[q])
  PROVE  Resting(q)' => OnTime(q)'
<1>1. Runnable(q)' \subseteq Runnable(q)
  <2>1. Runnable(q) = Ready(q) \union (IF Owns(q) THEN Ready(owner_of[q]) ELSE {})
    BY RunnableIsReady DEF RunnableReady
  <2>2. Runnable(q)' = Ready(q)' \union (IF Owns(q)' THEN Ready(owner_of[q])' ELSE {})
    <3>1. RunnableReady'
      BY RunnableIsReady, PTL
    <3> QED BY <3>1 DEF RunnableReady
  <2>3. Owns(q)' <=> Owns(q)
    BY DEF Owns
  <2> QED BY <2>1, <2>2, <2>3
<1> QED BY <1>1 DEF OnTime

\* A loop that is woken after a call is woken for its earliest task.
LEMMA WokenOnTime ==
  ASSUME QueueInv', NEW qs, NEW q \in Queues, q \in qs, WakeUp(qs), Resting(q)'
  PROVE  OnTime(q)'
<1>1. PeekIsEarliest'
  BY PeekEarliest, PTL
<1>2. /\ HasPendingTasks(q)' <=> Runnable(q)' # {}
      /\ HasPendingTasks(q)' => /\ PeekNextTask(q)' \in Runnable(q)'
                                /\ \A t \in Runnable(q)' : ~Later(PeekNextTask(q)', t)
  BY <1>1 DEF PeekIsEarliest, Resting
<1>3. Runnable(q)' \subseteq Task
  <2>1. RunnableReady'
    BY RunnableIsReady, PTL
  <2> QED BY <2>1 DEF RunnableReady, Ready, QueueInv, TypeOK
<1>4. HasPendingTasks(q)' => timer'[q] = PeekNextTask(q)'.time
  BY DEF WakeUp
<1>5. ASSUME NEW t \in Runnable(q)' PROVE timer'[q] <= t.time
  <2>1. HasPendingTasks(q)' /\ timer'[q] = PeekNextTask(q)'.time
    BY <1>2, <1>4, <1>5
  <2>2. PeekNextTask(q)' \in Task /\ t \in Task /\ ~Later(PeekNextTask(q)', t)
    BY <1>2, <1>3, <1>5, <2>1
  <2> QED BY <2>1, <2>2, TaskQueuesAssumption DEF Later, Task, Times
<1> QED BY <1>5 DEF OnTime

\* A loop's own step: it goes to sleep only when it has armed its timer for its
\* earliest task, or has none.
LEMMA LoopStaysOnTime ==
  ASSUME LoopsInv, LoopsInv', NEW q \in Queues, Resting(q) => OnTime(q),
         NEW x \in Queues, LoopStep(x)
  PROVE  Resting(q)' => OnTime(q)'
<1> USE DEF LoopsInv, Resting, Owns, IsSubsumed
<1>1. CASE DoRun(x) \/ LoopFails(x)
  <2>1. UNCHANGED queueVars /\ (Resting(q)' => Resting(q))
    BY <1>1 DEF DoRun, LoopFails, Fails, queueVars, loopVars, LoopTypes
  <2> QED BY <2>1, Undisturbed DEF queueVars, Ready
<1>2. CASE OnEventFired(x)
  <2>1. CASE q = x
    BY <1>2, <2>1 DEF OnEventFired, LoopTypes
  <2>2. CASE q # x
    BY <1>2, <2>2, Undisturbed DEF OnEventFired, Ready, LoopTypes, QueueInv, TypeOK
  <2> QED BY <2>1, <2>2
<1>3. CASE FlushTask(x)
  <2>1. CASE q = x
    BY <1>3, <2>1 DEF FlushTask, Flushing
  <2>2. CASE q # x
    <3>1. /\ timer'[q] = timer[q] /\ UNCHANGED <<entries, owner_of, subsumed_by, paused, pc>>
          /\ tasks' = [tasks EXCEPT ![PeekQueue(x)] = @ \ {PeekNextTask(x)}]
      BY <1>3, <2>2 DEF FlushTask, PopDue, QueueInv, TypeOK
    <3>2. \A r \in Queues : tasks'[r] \subseteq tasks[r]
      BY <3>1 DEF QueueInv, TypeOK
    <3>3. Owns(q) => owner_of[q] \in Queues
      BY DEF QueueInv, TypeOK
    <3> QED BY <3>1, <3>2, <3>3, Undisturbed DEF Ready
  <2> QED BY <2>1, <2>2
<1>4. CASE FlushEnds(x)
  <2>1. /\ UNCHANGED <<entries, owner_of, subsumed_by, paused, tasks>>
        /\ \A r \in Queues \ {x} : timer'[r] = timer[r]
        /\ \A r \in Queues \ {x} : pc'[r] = pc[r]
    BY <1>4 DEF FlushEnds, NothingPending, NothingDue, queueVars, QueueInv, TypeOK, AfterFlush,
                LoopTypes
  <2>2. CASE q # x
    BY <2>1, <2>2, Undisturbed DEF Ready
  <2>3. CASE q = x
    <3>1. SUFFICES ASSUME Resting(q)' PROVE OnTime(q)'
      OBVIOUS
    <3>2. q \in entries /\ ~IsSubsumed(q) /\ Runnable(q)' = Runnable(q)
      BY <2>1, <3>1 DEF Runnable
    <3>3. PeekIsEarliest
      BY PeekEarliest
    <3>4. CASE NothingPending(x)
      BY <2>3, <3>2, <3>3, <3>4 DEF NothingPending, PeekIsEarliest, OnTime
    <3>5. CASE NothingDue(x, from[x])
      <4>1. timer'[q] = PeekNextTask(q).time /\ HasPendingTasks(q)
        BY <2>3, <3>5 DEF NothingDue, QueueInv, TypeOK
      <4>2. /\ PeekNextTask(q) \in Runnable(q)
            /\ \A t \in Runnable(q) : ~Later(PeekNextTask(q), t)
        BY <3>2, <3>3, <4>1 DEF PeekIsEarliest
      <4>3. Runnable(q) \subseteq Task
        BY RunnableIsReady DEF RunnableReady, Ready, QueueInv, TypeOK
      <4>4. ASSUME NEW t \in Runnable(q) PROVE timer'[q] <= t.time
        BY <4>1, <4>2, <4>3, TaskQueuesAssumption DEF Later, Task, Times
      <4> QED BY <3>2, <4>4 DEF OnTime
    <3> QED BY <1>4, <3>4, <3>5 DEF FlushEnds
  <2> QED BY <2>2, <2>3
<1>5. CASE FinishRun(x)
  <2>1. /\ UNCHANGED <<entries, owner_of, subsumed_by, paused, timer>>
        /\ \A r \in Queues : tasks'[r] \subseteq tasks[r]
        /\ Resting(q)' => Resting(q)
    BY <1>5 DEF FinishRun, DisposeTasks, LoopTypes
  <2>2. Owns(q) => owner_of[q] \in Queues
    BY DEF QueueInv, TypeOK
  <2> QED BY <2>1, <2>2, Undisturbed DEF Ready
<1> QED BY <1>1, <1>2, <1>3, <1>4, <1>5 DEF LoopStep

\* RegisterTask wakes the loop that will run the task.
LEMMA RegisterOnTime ==
  ASSUME QueueInv, QueueInv', NEW q \in Queues, Resting(q) => OnTime(q),
         NEW x \in Queues, NEW time, NEW grade, RegisterTask(x, time, grade), UNCHANGED pc
  PROVE  Resting(q)' => OnTime(q)'
<1> DEFINE woken == IF IsSubsumed(x) THEN subsumed_by[x] ELSE x
<1>1. /\ WakeUp({woken}) /\ UNCHANGED <<entries, owner_of, subsumed_by, paused>>
      /\ \A r \in Queues \ {x} : tasks'[r] = tasks[r]
  BY DEF RegisterTask, QueueInv, TypeOK
<1>2. CASE q = woken
  BY <1>1, <1>2, WokenOnTime
<1>3. CASE q # woken
  <2>1. timer'[q] = timer[q]
    BY <1>1, <1>3 DEF WakeUp
  <2>2. Owns(q) => owner_of[q] \in Queues /\ owner_of[q] # x
    <3>1. Owns(q) => owner_of[q] \in Queues /\ subsumed_by[owner_of[q]] = q
      BY DEF QueueInv, TypeOK, MergeTopology, Owns
    <3>2. subsumed_by[x] = q => IsSubsumed(x)
      BY TaskQueuesAssumption DEF IsSubsumed
    <3> QED BY <1>3, <3>1, <3>2
  <2>3. CASE q = x
    BY <1>1, <1>3, <2>3 DEF Resting, IsSubsumed
  <2>4. CASE q # x
    BY <1>1, <2>1, <2>2, <2>4, Undisturbed DEF Ready, Resting, IsSubsumed
  <2> QED BY <2>3, <2>4
<1> QED BY <1>2, <1>3

\* The other calls: merging, pausing, disposing.
LEMMA CallOnTime ==
  ASSUME ~ResumeSubsumed, LoopsInv, LoopsInv', NEW q \in Queues, Resting(q) => OnTime(q),
         NEW x \in Queues,
         \/ StartThread(x) \/ Destroy(x) \/ PauseResume(x) \/ UnmergeLoops(x)
         \/ \E s \in Queues : MergeLoops(x, s)
  PROVE  Resting(q)' => OnTime(q)'
<1> USE TaskQueuesAssumption DEF LoopsInv
<1>0. Owns(q) => owner_of[q] \in Queues
  BY DEF QueueInv, TypeOK, Owns
<1>1. CASE StartThread(x)
  <2>1. CASE q = x
    <3>1. x \notin entries /\ tasks[x] = {} /\ tasks' = tasks /\ owner_of' = owner_of
      BY <1>1 DEF StartThread, CreateTaskQueue, QueueInv, TypeOK, NoRemains
    <3>2. ~Owns(x)
      BY <3>1 DEF QueueInv, MergeTopology
    <3>3. Runnable(q)' = {}
      BY <2>1, <3>1, <3>2 DEF Runnable, Owns
    <3> QED BY <3>3 DEF OnTime
  <2>2. CASE q # x
    <3>1. Resting(q)' => Resting(q)
      BY <1>1, <2>2 DEF StartThread, CreateTaskQueue, Resting, IsSubsumed, LoopTypes
    <3> QED BY <1>1, <3>1, Undisturbed DEF StartThread, CreateTaskQueue, Ready
  <2> QED BY <2>1, <2>2
<1>2. CASE Destroy(x)
  <2>1. CASE q \in ErasedWith(x)
    BY <1>2, <2>1 DEF Destroy, Dispose, Resting
  <2>2. CASE q \notin ErasedWith(x)
    <3>1. /\ Resting(q)' => Resting(q)
          /\ owner_of'[q] = owner_of[q] /\ timer'[q] = timer[q]
          /\ Ready(q)' = Ready(q)
      BY <1>2, <2>2 DEF Destroy, Dispose, Resting, IsSubsumed, Ready, LoopTypes, ErasedWith
    <3>2. Owns(q) => Ready(owner_of[q])' \subseteq Ready(owner_of[q])
      BY <1>0, <1>2, <3>1 DEF Destroy, Dispose, Ready
    <3> QED BY <3>1, <3>2, Undisturbed
  <2> QED BY <2>1, <2>2
<1>3. CASE PauseResume(x) /\ PauseSecondarySource(x)
  <2>1. /\ UNCHANGED <<entries, owner_of, subsumed_by, tasks, timer, pc>>
        /\ \A r \in Queues : paused'[r] = 0 => paused[r] = 0
    BY <1>3 DEF PauseResume, PauseSecondarySource, loopVars, QueueInv, TypeOK
  <2> QED BY <1>0, <2>1, Undisturbed DEF Ready, Resting, IsSubsumed
<1>4. CASE PauseResume(x) /\ ResumeSecondarySource(x) /\ ~IsSubsumed(x)
  <2>1. /\ UNCHANGED <<entries, owner_of, subsumed_by, tasks, pc>> /\ WakeUp({x})
        /\ \A r \in Queues \ {x} : paused'[r] = paused[r]
    BY <1>4 DEF PauseResume, ResumeSecondarySource, loopVars, QueueInv, TypeOK
  <2>2. CASE q = x
    BY <2>1, <2>2, WokenOnTime
  <2>3. CASE q # x
    <3>1. timer'[q] = timer[q]
      BY <2>1, <2>3 DEF WakeUp
    <3>2. Owns(q) => owner_of[q] # x
      BY <1>4 DEF QueueInv, MergeTopology, Owns, IsSubsumed
    <3> QED BY <1>0, <2>1, <2>3, <3>1, <3>2, Undisturbed DEF Ready, Resting, IsSubsumed
  <2> QED BY <2>2, <2>3
<1>5. CASE UnmergeLoops(x)
  <2> DEFINE s == owner_of[x]
  <2>1. /\ WakeUp({x, s}) /\ UNCHANGED <<entries, tasks, paused, pc>> /\ s \in Queues
        /\ \A r \in Queues \ {x} : owner_of'[r] = owner_of[r]
        /\ \A r \in Queues \ {s} : subsumed_by'[r] = subsumed_by[r]
    BY <1>5 DEF UnmergeLoops, Unmerge, loopVars, QueueInv, TypeOK, Owns
  <2>2. CASE q \in {x, s}
    BY <2>1, <2>2, WokenOnTime
  <2>3. CASE q \notin {x, s}
    <3>1. timer'[q] = timer[q]
      BY <2>1, <2>3 DEF WakeUp
    <3> QED BY <1>0, <2>1, <2>3, <3>1, Undisturbed DEF Ready, Resting, IsSubsumed, Owns
  <2> QED BY <2>2, <2>3
<1>6. ASSUME NEW s \in Queues, MergeLoops(x, s) PROVE Resting(q)' => OnTime(q)'
  <2>1. /\ WakeUp({x}) /\ UNCHANGED <<entries, tasks, paused, pc>>
        /\ \A r \in Queues \ {x} : owner_of'[r] = owner_of[r]
        /\ \A r \in Queues \ {s} : subsumed_by'[r] = subsumed_by[r]
        /\ subsumed_by'[s] = x
    BY <1>6 DEF MergeLoops, Merge, loopVars, QueueInv, TypeOK
  <2>2. CASE q = x
    BY <2>1, <2>2, WokenOnTime
  <2>3. CASE q = s
    BY <2>1, <2>3 DEF Resting, IsSubsumed
  <2>4. CASE q \notin {x, s}
    <3>1. timer'[q] = timer[q]
      BY <2>1, <2>4 DEF WakeUp
    <3> QED BY <1>0, <2>1, <2>4, <3>1, Undisturbed DEF Ready, Resting, IsSubsumed, Owns
  <2> QED BY <2>2, <2>3, <2>4
<1> QED BY <1>1, <1>2, <1>3, <1>4, <1>5, <1>6 DEF PauseResume

\* The loop of q sleeps past no task of q after a step, if it did not before.
LEMMA OversleepStep ==
  ASSUME ~ResumeSubsumed, LoopsInv, LoopsInv', NEW q \in Queues, Resting(q) => OnTime(q),
         [LoopsNext]_vars
  PROVE  Resting(q)' => OnTime(q)'
<1>1. ASSUME NEW x \in Queues, LoopStep(x) PROVE Resting(q)' => OnTime(q)'
  BY <1>1, LoopStaysOnTime
<1>2. ASSUME NEW x \in Queues,
             \/ StartThread(x) \/ Destroy(x) \/ PauseResume(x) \/ UnmergeLoops(x)
             \/ \E s \in Queues : MergeLoops(x, s)
      PROVE Resting(q)' => OnTime(q)'
  BY <1>2, CallOnTime
<1>3. ASSUME NEW x \in Queues, NEW time, RegisterMicroTask(x, time)
      PROVE Resting(q)' => OnTime(q)'
  BY <1>3, RegisterOnTime DEF RegisterMicroTask, LoopsInv, loopVars
<1>4. ASSUME NEW p \in Posters, NEW time, PostTaskRegister(p, time)
      PROVE Resting(q)' => OnTime(q)'
  <2>1. posting[p] \in Queues
    BY <1>4 DEF PostTaskRegister, LoopsInv, LoopTypes
  <2> QED BY <1>4, <2>1, RegisterOnTime DEF PostTaskRegister, LoopsInv, loopVars
<1>5. ASSUME NEW x \in Queues, JoinRegister(x) PROVE Resting(q)' => OnTime(q)'
  BY <1>5, RegisterOnTime DEF JoinRegister, LoopsInv, loopVars
<1>6. ASSUME UNCHANGED <<queueVars, pc>> PROVE Resting(q)' => OnTime(q)'
  BY <1>6 DEF queueVars, Resting, OnTime, Runnable, Owns, IsSubsumed
<1>7. ASSUME NEW x \in Queues, Join(x) PROVE Resting(q)' => OnTime(q)'
  BY <1>6, <1>7 DEF Join, loopVars
<1>8. ASSUME NEW p \in Posters, NEW x \in Queues, PostTaskCheck(p, x)
      PROVE Resting(q)' => OnTime(q)'
  BY <1>6, <1>8 DEF PostTaskCheck, loopVars
<1>9. CASE Tick \/ \E x \in Queues : DestroyFails(x) \/ PostFails(x)
  BY <1>6, <1>9 DEF Tick, DestroyFails, PostFails, Fails, loopVars
<1>10. CASE UNCHANGED vars
  BY <1>6, <1>10 DEF vars, loopVars
<1>11. CASE ClientStep
  BY <1>2, <1>3, <1>7, <1>8, <1>9, <1>11 DEF ClientStep
<1>12. CASE PostStep
  BY <1>4, <1>5, <1>9, <1>12 DEF PostStep
<1> QED BY <1>1, <1>9, <1>10, <1>11, <1>12 DEF LoopsNext

\* When no client resumes a queue that is subsumed, no loop oversleeps: the
\* timer of a loop that waits is armed no later than its earliest task is due,
\* whatever was registered, merged, unmerged, paused or resumed meanwhile.
THEOREM NoLoopOversleeps ==
  ASSUME ~ResumeSubsumed
  PROVE  LoopsSpec => []NoOversleep
<1> DEFINE Rested == \A q \in Queues : Resting(q) => OnTime(q)
<1>1. LoopsInit => Rested
  BY DEF LoopsInit, Init, Resting
<1>2. LoopsInv /\ LoopsInv' /\ Rested /\ [LoopsNext]_vars => Rested'
  <2>1. SUFFICES ASSUME LoopsInv, LoopsInv', Rested, [LoopsNext]_vars, NEW q \in Queues
                 PROVE  (Resting(q) => OnTime(q))'
    OBVIOUS
  <2>2. Resting(q) => OnTime(q)
    BY <2>1
  <2> QED BY <2>1, <2>2, OversleepStep
<1>3. LoopsInv /\ Rested => NoOversleep
  BY DEF LoopsInv, QueueInv, TypeOK, NoOversleep, Resting, OnTime
<1> QED BY <1>1, <1>2, <1>3, LoopsInvInit, LoopsInvStep, PTL DEF LoopsSpec
-----------------------------------------------------------------------------
(* No loop finds its queue erased or drained by another.                   *)

\* Loop q has stopped, or will stop without another Terminate task.
Ending(q) == \/ terminated[q]
             \/ pc[q] \in {"final", "dispose", "done"}
             \/ pc[q] \in {"wait", "flush"} /\ ~running[q]

\* The Terminate task of a loop is in its own queue and in no other.
QuitTasksOwn ==
  /\ \A n \in quitTasks : n \in Nat /\ n < order
  /\ \A q \in Queues : \A t \in tasks[q] : t.order \in quitTasks => joining[q] = "posted"

\* A loop ends only when it is joined, and a loop that is joined is not merged.
JoinsInOrder ==
  \A q \in Queues :
    /\ joining[q] # "no" => ~Owns(q) /\ ~IsSubsumed(q)
    /\ Ending(q) => joining[q] # "no"
    /\ Reachable(q) => q \in entries

LEMMA QuitTasksStep ==
  ASSUME LoopsInv, QuitTasksOwn, [LoopsNext]_vars
  PROVE  QuitTasksOwn'
<1> USE TaskQueuesAssumption DEF LoopsInv
<1>0. order \in Nat /\ \A q \in Queues : \A t \in tasks[q] : t.order < order /\ t.order \in Nat
  BY DEF QueueInv, TypeOK, TasksApart, Task
<1>1. ASSUME \A q \in Queues : tasks'[q] \subseteq tasks[q], order' = order, quitTasks' = quitTasks,
             \A q \in Queues : joining[q] = "posted" => joining'[q] = "posted"
      PROVE  QuitTasksOwn'
  BY <1>1 DEF QuitTasksOwn
<1>2. ASSUME NEW q \in Queues, NEW time, NEW grade, RegisterTask(q, time, grade),
             \/ quitTasks' = quitTasks /\ joining' = joining
             \/ /\ quitTasks' = quitTasks \union {order}
                /\ joining' = [joining EXCEPT ![q] = "posted"]
      PROVE  QuitTasksOwn'
  <2> DEFINE new == [order |-> order, time |-> time, grade |-> grade]
  <2>1. new.order = order
    OBVIOUS
  <2> HIDE DEF new
  <2>2. order' = order + 1 /\ \A r \in Queues : tasks'[r] = IF r = q THEN tasks[q] \union {new}
                                                                     ELSE tasks[r]
    BY <1>2 DEF RegisterTask, QueueInv, TypeOK, new
  <2>3. \A n \in quitTasks' : n \in Nat /\ n < order'
    BY <1>0, <1>2, <2>2 DEF QuitTasksOwn
  <2>4. order \notin quitTasks
    BY <1>0 DEF QuitTasksOwn
  <2>5. ASSUME NEW r \in Queues, NEW t \in tasks'[r], t.order \in quitTasks'
        PROVE  joining'[r] = "posted"
    <3>1. CASE t \in tasks[r]
      <4>1. t.order # order
        BY <1>0, <3>1
      <4> QED BY <1>2, <2>5, <3>1, <4>1 DEF QuitTasksOwn, LoopTypes
    <3>2. CASE t \notin tasks[r]
      <4>1. r = q /\ t.order = order
        BY <2>1, <2>2, <2>5, <3>2
      <4> QED BY <1>2, <2>4, <2>5, <4>1 DEF LoopTypes
    <3> QED BY <3>1, <3>2
  <2> QED BY <2>3, <2>5 DEF QuitTasksOwn
<1>3. ASSUME NEW q \in Queues, LoopStep(q) PROVE QuitTasksOwn'
  <2>1. /\ \A r \in Queues : tasks'[r] \subseteq tasks[r]
        /\ UNCHANGED <<order, quitTasks, joining>>
    <3> USE DEF queueVars, clientVars, QueueInv, TypeOK
    <3>1. CASE DoRun(q) \/ LoopFails(q) \/ OnEventFired(q) \/ FinishRun(q)
      BY <3>1 DEF DoRun, LoopFails, Fails, OnEventFired, FinishRun, DisposeTasks
    <3>2. CASE FlushTask(q)
      <4>1. tasks' = [tasks EXCEPT ![PeekQueue(q)] = @ \ {PeekNextTask(q)}]
            /\ UNCHANGED <<order, quitTasks, joining>>
        BY <3>2 DEF FlushTask, PopDue
      <4> QED BY <4>1
    <3>3. CASE FlushEnds(q)
      BY <3>3 DEF FlushEnds, NothingPending, NothingDue
    <3> QED BY <1>3, <3>1, <3>2, <3>3 DEF LoopStep
  <2> QED BY <1>1, <2>1
<1>4. ASSUME NEW q \in Queues,
             \/ StartThread(q) \/ Join(q) \/ Destroy(q) \/ PauseResume(q) \/ UnmergeLoops(q)
             \/ DestroyFails(q) \/ PostFails(q)
             \/ \E s \in Queues : MergeLoops(q, s)
             \/ \E p \in Posters : PostTaskCheck(p, q)
      PROVE  QuitTasksOwn'
  <2>1. /\ \A r \in Queues : tasks'[r] \subseteq tasks[r]
        /\ UNCHANGED <<order, quitTasks>>
        /\ \A r \in Queues : joining[r] = "posted" => joining'[r] = "posted"
    BY <1>4 DEF StartThread, CreateTaskQueue, Join, Destroy, Dispose, PauseResume,
       PauseSecondarySource, ResumeSecondarySource, UnmergeLoops, Unmerge, MergeLoops, Merge,
       PostTaskCheck, DestroyFails, PostFails, Fails, queueVars, clientVars, LoopTypes
  <2> QED BY <1>1, <2>1
<1>5. ASSUME NEW q \in Queues, NEW time, RegisterMicroTask(q, time) PROVE QuitTasksOwn'
  BY <1>2, <1>5 DEF RegisterMicroTask, clientVars
<1>6. ASSUME NEW p \in Posters, NEW time, PostTaskRegister(p, time) PROVE QuitTasksOwn'
  BY <1>2, <1>6 DEF PostTaskRegister, LoopTypes
<1>7. ASSUME NEW q \in Queues, JoinRegister(q) PROVE QuitTasksOwn'
  BY <1>2, <1>7 DEF JoinRegister
<1>8. CASE Tick \/ UNCHANGED vars
  BY <1>1, <1>8 DEF Tick, vars, queueVars, clientVars
<1>9. CASE ClientStep
  BY <1>4, <1>5, <1>9 DEF ClientStep
<1>10. CASE PostStep
  BY <1>4, <1>6, <1>7, <1>10 DEF PostStep
<1> QED BY <1>3, <1>8, <1>9, <1>10 DEF LoopsNext

\* A step of a loop keeps the joins in order.
LEMMA JoinsLoopStep ==
  ASSUME LoopsInv, QuitTasksOwn, JoinsInOrder, NEW x \in Queues, LoopStep(x)
  PROVE  JoinsInOrder'
<1> USE DEF LoopsInv
<1>1. UNCHANGED <<entries, owner_of, subsumed_by, joining>>
  BY DEF LoopStep, DoRun, OnEventFired, FlushTask, PopDue, FlushEnds, NothingPending, NothingDue,
         FinishRun, DisposeTasks, LoopFails, Fails, queueVars, clientVars
<1>2. SUFFICES ASSUME NEW q \in Queues
               PROVE  (Ending(q)' => joining[q] # "no") /\ (Reachable(q)' => Reachable(q))
  BY <1>1 DEF JoinsInOrder, Owns, IsSubsumed
<1>3. ASSUME q # x, \A r \in Queues \ {x} : /\ pc'[r] = pc[r] /\ running'[r] = running[r]
                                            /\ terminated'[r] = terminated[r]
      PROVE  (Ending(q)' => joining[q] # "no") /\ (Reachable(q)' => Reachable(q))
  BY <1>3 DEF JoinsInOrder, Ending, Reachable
<1>4. \A r \in Queues \ {x} : pc'[r] = pc[r]
  <2>1. \/ pc' = pc
        \/ \E at : pc' = [pc EXCEPT ![x] = at]
    BY DEF LoopStep, DoRun, OnEventFired, FlushTask, FlushEnds, AfterFlush, FinishRun, LoopFails,
           Fails, loopVars
  <2> QED BY <2>1 DEF LoopTypes
<1>5. \A r \in Queues \ {x} : running'[r] = running[r]
  <2>1. \/ running' = running
        \/ running' = [running EXCEPT ![x] = TRUE]
        \/ running' = [running EXCEPT ![x] = FALSE]
    BY Zenon DEF LoopStep, DoRun, OnEventFired, FlushTask, FlushEnds, FinishRun, LoopFails,
                 Fails, loopVars
  <2> QED BY <2>1 DEF LoopTypes
<1>6. \A r \in Queues \ {x} : terminated'[r] = terminated[r]
  <2>1. \/ terminated' = terminated
        \/ terminated' = [terminated EXCEPT ![x] = TRUE]
    BY Zenon DEF LoopStep, DoRun, OnEventFired, FlushTask, FlushEnds, AfterFlush, FinishRun,
                 LoopFails, Fails, loopVars
  <2> QED BY <2>1 DEF LoopTypes
<1>7. CASE q = x
  <2>1. CASE DoRun(x)
    <3>1. CASE terminated[x]
      BY <1>7, <2>1, <3>1 DEF DoRun, LoopTypes, JoinsInOrder, Ending, Reachable
    <3>2. CASE ~terminated[x]
      BY <1>7, <2>1, <3>2 DEF DoRun, LoopTypes, JoinsInOrder, Ending, Reachable
    <3> QED BY <3>1, <3>2
  <2>2. CASE OnEventFired(x)
    BY <1>7, <2>2 DEF OnEventFired, LoopTypes, JoinsInOrder, Ending, Reachable
  <2>3. CASE FlushTask(x)
    <3>1. CASE PeekNextTask(x).order \in quitTasks
      <4>1. q \in entries /\ HasPendingTasks(q) /\ pc' = pc
        BY <1>7, <2>3 DEF FlushTask
      <4>2. PeekQueue(q) \in Queues /\ PeekNextTask(q) \in tasks[PeekQueue(q)]
        BY <4>1, PeekFindsTask DEF QueueInv, TypeOK, SourcesOK, NextTaskOK
      <4>3. joining[PeekQueue(q)] = "posted"
        BY <1>7, <3>1, <4>2 DEF QuitTasksOwn
      <4>4. PeekQueue(q) = q
        <5>1. PeekQueue(q) # q => Owns(q) /\ PeekQueue(q) = owner_of[q]
          BY DEF PeekQueue
        <5>2. Owns(q) => subsumed_by[owner_of[q]] = q /\ q # Unmerged
          BY TaskQueuesAssumption DEF QueueInv, MergeTopology
        <5> QED BY <4>2, <4>3, <5>1, <5>2 DEF JoinsInOrder, IsSubsumed
      <4> QED BY <4>1, <4>3, <4>4 DEF Reachable
    <3>2. CASE PeekNextTask(x).order \notin quitTasks
      <4>1. UNCHANGED <<pc, terminated, running>>
        BY <2>3, <3>2 DEF FlushTask
      <4> QED BY <4>1 DEF JoinsInOrder, Ending, Reachable
    <3> QED BY <3>1, <3>2
  <2>4. CASE FlushEnds(x)
    <3>1. AfterFlush(x) /\ running' = running /\ Flushing(x)
      BY <2>4 DEF FlushEnds
    <3>2. CASE pc[x] = "flush" /\ running[x]
      <4>1. pc' = [pc EXCEPT ![x] = "wait"] /\ terminated' = terminated
        BY <3>1, <3>2 DEF AfterFlush
      <4> QED BY <1>7, <3>1, <3>2, <4>1 DEF LoopTypes, JoinsInOrder, Ending, Reachable
    <3>3. CASE ~(pc[x] = "flush" /\ running[x])
      <4>1. Ending(x) /\ Reachable(x)
        BY <3>1, <3>3 DEF Flushing, Ending, Reachable
      <4> QED BY <1>7, <4>1 DEF JoinsInOrder
    <3> QED BY <3>2, <3>3
  <2>5. CASE FinishRun(x)
    BY <1>7, <2>5 DEF FinishRun, JoinsInOrder, Ending, Reachable
  <2>6. CASE LoopFails(x)
    BY <2>6 DEF LoopFails, Fails, loopVars, JoinsInOrder, Ending, Reachable
  <2> QED BY <2>1, <2>2, <2>3, <2>4, <2>5, <2>6 DEF LoopStep
<1> QED BY <1>3, <1>4, <1>5, <1>6, <1>7

\* A step of a disciplined client keeps them in order.
LEMMA JoinsClientStep ==
  ASSUME Disciplined, LoopsInv, JoinsInOrder, ClientStep \/ PostStep \/ Tick \/ UNCHANGED vars
  PROVE  JoinsInOrder'
<1> USE DEF LoopsInv
<1>1. ASSUME UNCHANGED <<entries, owner_of, subsumed_by>>, UNCHANGED loopVars,
             \A q \in Queues : joining'[q] # "no" => joining[q] # "no",
             \A q \in Queues : joining[q] # "no" => joining'[q] # "no"
      PROVE  JoinsInOrder'
  BY <1>1 DEF JoinsInOrder, Owns, IsSubsumed, Ending, Reachable, loopVars
<1>2. ASSUME NEW x \in Queues, StartThread(x) PROVE JoinsInOrder'
  <2>1. /\ UNCHANGED <<owner_of, subsumed_by, joining, terminated, running>>
        /\ pc' = [pc EXCEPT ![x] = "start"] /\ entries' = entries \union {x}
    BY <1>2 DEF StartThread, CreateTaskQueue, clientVars
  <2> QED BY <2>1 DEF JoinsInOrder, Owns, IsSubsumed, Ending, Reachable, LoopTypes
<1>3. ASSUME NEW x \in Queues, Join(x) PROVE JoinsInOrder'
  <2>1. /\ UNCHANGED <<entries, owner_of, subsumed_by, loopVars>> /\ ~Owns(x) /\ ~IsSubsumed(x)
        /\ joining'[x] # "no" /\ \A q \in Queues \ {x} : joining'[q] = joining[q]
    BY <1>3 DEF Join, queueVars, LoopTypes
  <2> QED BY <2>1 DEF JoinsInOrder, Owns, IsSubsumed, Ending, Reachable, loopVars
<1>4. ASSUME NEW x \in Queues, Destroy(x) PROVE JoinsInOrder'
  <2>1. ErasedWith(x) = {x}
    BY <1>4 DEF Destroy, Released, JoinsInOrder, ErasedWith, Owns
  <2>2. /\ UNCHANGED <<joining, terminated, running>> /\ pc' = [pc EXCEPT ![x] = "gone"]
        /\ entries' = entries \ {x}
        /\ \A q \in Queues : owner_of'[q] = IF q = x THEN Unmerged ELSE owner_of[q]
        /\ \A q \in Queues : subsumed_by'[q] = IF q = x THEN Unmerged ELSE subsumed_by[q]
        /\ joining[x] # "no"
    BY <1>4, <2>1 DEF Destroy, Released, Dispose, clientVars
  <2> QED BY <2>2 DEF JoinsInOrder, Owns, IsSubsumed, Ending, Reachable, LoopTypes
<1>5. ASSUME NEW x \in Queues, PauseResume(x) PROVE JoinsInOrder'
  BY <1>1, <1>5 DEF PauseResume, PauseSecondarySource, ResumeSecondarySource, clientVars
<1>6. ASSUME NEW x \in Queues, UnmergeLoops(x) PROVE JoinsInOrder'
  <2>1. /\ UNCHANGED <<entries, joining, loopVars>>
        /\ owner_of' = [owner_of EXCEPT ![x] = Unmerged]
        /\ subsumed_by' = [subsumed_by EXCEPT ![owner_of[x]] = Unmerged]
    BY <1>6 DEF UnmergeLoops, Unmerge, clientVars
  <2> QED BY <2>1 DEF JoinsInOrder, Owns, IsSubsumed, Ending, Reachable, loopVars, QueueInv, TypeOK
<1>7. ASSUME NEW x \in Queues, NEW s \in Queues, MergeLoops(x, s) PROVE JoinsInOrder'
  <2>1. /\ UNCHANGED <<entries, joining, loopVars>> /\ joining[x] = "no" /\ joining[s] = "no"
        /\ owner_of' = [owner_of EXCEPT ![x] = s]
        /\ subsumed_by' = [subsumed_by EXCEPT ![s] = x]
    BY <1>7 DEF MergeLoops, Merge
  <2> QED BY <2>1 DEF JoinsInOrder, Owns, IsSubsumed, Ending, Reachable, loopVars, QueueInv, TypeOK
<1>8. ASSUME NEW x \in Queues, NEW time, RegisterMicroTask(x, time) PROVE JoinsInOrder'
  BY <1>1, <1>8 DEF RegisterMicroTask, RegisterTask, clientVars
<1>9. ASSUME NEW p \in Posters, NEW x \in Queues, PostTaskCheck(p, x) PROVE JoinsInOrder'
  BY <1>1, <1>9 DEF PostTaskCheck, queueVars
<1>10. ASSUME NEW p \in Posters, NEW time, PostTaskRegister(p, time) PROVE JoinsInOrder'
  BY <1>1, <1>10 DEF PostTaskRegister, RegisterTask
<1>11. ASSUME NEW x \in Queues, JoinRegister(x) PROVE JoinsInOrder'
  BY <1>1, <1>11 DEF JoinRegister, RegisterTask, LoopTypes
<1>12. CASE Tick \/ UNCHANGED vars \/ \E x \in Queues : DestroyFails(x) \/ PostFails(x)
  BY <1>1, <1>12 DEF Tick, DestroyFails, PostFails, Fails, vars, queueVars, clientVars
<1>13. CASE ClientStep
  BY <1>2, <1>3, <1>4, <1>5, <1>6, <1>7, <1>8, <1>9, <1>12, <1>13 DEF ClientStep
<1>14. CASE PostStep
  BY <1>10, <1>11, <1>12, <1>14 DEF PostStep
<1> QED BY <1>12, <1>13, <1>14

\* A loop that a thread is posting to has not been destroyed.
HeldLoops ==
  \A q \in Queues :
    joining[q] = "posting" \/ (\E p \in Posters : posting[p] = q) => Reachable(q)

LEMMA HeldStep ==
  ASSUME LoopsInv, HeldLoops, [LoopsNext]_vars
  PROVE  HeldLoops'
<1> USE MessageLoopsAssumption DEF LoopsInv, LoopTypes
<1>1. ASSUME UNCHANGED <<joining, posting>>, \A q \in Queues : Reachable(q) => Reachable(q)'
      PROVE  HeldLoops'
  BY <1>1 DEF HeldLoops
<1>2. ASSUME NEW x \in Queues, LoopStep(x) PROVE HeldLoops'
  <2>1. UNCHANGED <<joining, posting>>
    BY <1>2 DEF LoopStep, DoRun, OnEventFired, FlushTask, FlushEnds, FinishRun, LoopFails, Fails,
                clientVars
  <2>2. pc' = pc \/ \E at \in {"wait", "flush", "final", "dispose", "done"} :
                      pc' = [pc EXCEPT ![x] = at]
    BY <1>2 DEF LoopStep, DoRun, OnEventFired, FlushTask, FlushEnds, AfterFlush, FinishRun,
                LoopFails, Fails, loopVars
  <2> QED BY <1>1, <2>1, <2>2 DEF Reachable
<1>3. ASSUME UNCHANGED pc,
             \A q \in Queues : joining'[q] = "posting" => joining[q] = "posting" \/ Reachable(q),
             \A p \in Posters : posting'[p] \in {posting[p], Nothing}
                                \/ \E q \in Queues : posting'[p] = q /\ Reachable(q)
      PROVE  HeldLoops'
  BY <1>3 DEF HeldLoops, Reachable
<1>4. ASSUME NEW x \in Queues, StartThread(x) PROVE HeldLoops'
  BY <1>1, <1>4 DEF StartThread, Reachable, clientVars
<1>5. ASSUME NEW x \in Queues, Destroy(x) PROVE HeldLoops'
  BY <1>5 DEF Destroy, Released, Reachable, HeldLoops, clientVars
<1>6. ASSUME NEW x \in Queues,
             \/ Join(x) \/ DestroyFails(x) \/ PauseResume(x) \/ UnmergeLoops(x)
             \/ \E s \in Queues : MergeLoops(x, s)
             \/ \E time \in Times : RegisterMicroTask(x, time)
             \/ \E p \in Posters : PostTaskCheck(p, x)
             \/ JoinRegister(x) \/ PostFails(x)
      PROVE  HeldLoops'
  BY <1>3, <1>6 DEF Join, DestroyFails, PauseResume, UnmergeLoops, MergeLoops, RegisterMicroTask,
                    PostTaskCheck, JoinRegister, PostFails, Fails, loopVars, clientVars
<1>7. ASSUME NEW p \in Posters, NEW time, PostTaskRegister(p, time) PROVE HeldLoops'
  BY <1>3, <1>7 DEF PostTaskRegister, loopVars
<1>8. CASE Tick \/ UNCHANGED vars
  BY <1>3, <1>8 DEF Tick, vars, loopVars, clientVars
<1>9. CASE ClientStep
  BY <1>4, <1>5, <1>6, <1>9 DEF ClientStep
<1>10. CASE PostStep
  BY <1>6, <1>7, <1>10 DEF PostStep
<1> QED BY <1>2, <1>8, <1>9, <1>10 DEF LoopsNext

\* When clients never merge a loop that is being joined and never join one that
\* is merged, no loop touches an erased queue or disposes of one that another
\* loop drains, and neither does its destructor or a thread that posts to it.
THEOREM LoopsNeverFail ==
  ASSUME Disciplined
  PROVE  LoopsSpec => []NoFailure
<1> DEFINE FailInv == QuitTasksOwn /\ JoinsInOrder /\ HeldLoops /\ NoFailure
<1>1. LoopsInit => FailInv
  BY MessageLoopsAssumption DEF LoopsInit, Init, QuitTasksOwn, JoinsInOrder, HeldLoops, Owns,
     IsSubsumed, Ending, Reachable, NoFailure
<1>2. LoopsInv /\ FailInv /\ [LoopsNext]_vars => FailInv'
  <2>1. SUFFICES ASSUME LoopsInv, FailInv, [LoopsNext]_vars PROVE FailInv'
    OBVIOUS
  <2>2. QuitTasksOwn' /\ HeldLoops'
    BY <2>1, QuitTasksStep, HeldStep
  <2>3. JoinsInOrder'
    BY <2>1, JoinsLoopStep, JoinsClientStep DEF LoopsNext
  <2>4. NoFailure'
    <3>1. ASSUME NEW q \in Queues PROVE ~LoopFails(q) /\ ~DestroyFails(q) /\ ~PostFails(q)
      <4>1. ~LoopFails(q)
        BY <2>1 DEF LoopFails, Undisposable, JoinsInOrder, Reachable, Flushing, Ending
      <4>2. ~DestroyFails(q)
        BY <2>1 DEF DestroyFails, Released, Undisposable, JoinsInOrder, Reachable
      <4>3. ~PostFails(q)
        BY <2>1 DEF PostFails, HeldLoops, JoinsInOrder
      <4> QED BY <4>1, <4>2, <4>3
    <3>2. ASSUME NEW q \in Queues, LoopStep(q) PROVE failure' = failure
      BY <3>1, <3>2 DEF LoopStep, DoRun, OnEventFired, FlushTask, FlushEnds, FinishRun
    <3>3. ASSUME ClientStep \/ PostStep \/ Tick \/ UNCHANGED vars PROVE failure' = failure
      BY <3>1, <3>3 DEF ClientStep, PostStep, Tick, vars, StartThread, Join, Destroy, PauseResume,
         UnmergeLoops, MergeLoops, RegisterMicroTask, PostTaskCheck, PostTaskRegister, JoinRegister
    <3> QED BY <2>1, <3>2, <3>3 DEF LoopsNext, NoFailure
  <2> QED BY <2>2, <2>3, <2>4
<1> QED BY <1>1, <1>2, LoopsInvInit, LoopsInvStep, PTL DEF LoopsSpec
=============================================================================
