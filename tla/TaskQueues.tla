----------------------------- MODULE TaskQueues -----------------------------
(***************************************************************************)
(* base/message_loop_task_queues.cc, task_source.cc and delayed_task.cc:   *)
(* the container of all task queues of the process.  Every method holds    *)
(* queue_mutex_ from its first to its last statement, so a call is one     *)
(* action.  The wakeable of a queue is the timer of its message loop: a    *)
(* WakeUp replaces the time it is armed for (MessageLoopLinux::WakeUp,     *)
(* MessageLoopWin::WakeUp).                                                *)
(*                                                                         *)
(* A call with the id of an erased queue throws out of std::map::at, and a *)
(* false FML_DCHECK stops a debug build; the guards marked "caller" leave  *)
(* those calls to the clients' side, which MessageLoops models.            *)
(***************************************************************************)
EXTENDS Integers, FiniteSets

CONSTANTS Queues,       \* ids that CreateTaskQueue can hand out
          Unmerged,     \* _kUnmerged
          MaxTime,      \* bound: the clock and target times
          MaxTasks,     \* bound: tasks registered in a behaviour (order_)
          MaxPauses     \* bound: secondary_pause_requests_ of a queue

ASSUME TaskQueuesAssumption ==
  /\ Unmerged \notin Queues
  /\ MaxTime \in Nat /\ MaxTasks \in Nat /\ MaxPauses \in Nat

Times == 0 .. MaxTime
Never == MaxTime + 1    \* TimePoint::Max(), a timer that is not armed

\* kUserInteraction shares the primary heap with kUnspecified in every switch
\* over the grades, so one name stands for both.
Primary   == "kUnspecified"
Secondary == "kDartMicroTasks"
Grades    == {Primary, Secondary}

Task == [order : Nat, time : Times, grade : Grades]

VARIABLES created,      \* ids handed out so far (task_queue_id_counter_)
          entries,      \* ids with an entry in queue_entries_
          owner_of, subsumed_by,
          tasks,        \* tasks[q]: both heaps of q's task source
          paused,       \* secondary_pause_requests_
          order,        \* order_
          timer         \* time the loop of a queue is next woken at

queueVars == <<created, entries, owner_of, subsumed_by, tasks, paused, order, timer>>
-----------------------------------------------------------------------------
\* DelayedTask::operator>
Later(t, u) == IF t.time = u.time THEN t.order > u.order ELSE t.time > u.time

HeapTop(heap) == CHOOSE t \in heap : \A u \in heap : ~Later(t, u)

PrimaryHeap(q)   == {t \in tasks[q] : t.grade = Primary}
SecondaryHeap(q) == {t \in tasks[q] : t.grade = Secondary}

\* TaskSource::IsEmpty, with GetNumPendingTasks
IsEmpty(q) == PrimaryHeap(q) = {} /\ (paused[q] # 0 \/ SecondaryHeap(q) = {})

\* Mutant: the primary heap goes first, whatever its target time.
Top_primaryFirst(q) ==
  IF paused[q] > 0 \/ PrimaryHeap(q) # {}
  THEN HeapTop(PrimaryHeap(q)) ELSE HeapTop(SecondaryHeap(q))

\* TaskSource::Top
Top(q) ==
  LET p == HeapTop(PrimaryHeap(q))
      s == HeapTop(SecondaryHeap(q))
  IN  CASE paused[q] > 0 \/ SecondaryHeap(q) = {} -> p
        [] paused[q] = 0 /\ SecondaryHeap(q) # {} /\ PrimaryHeap(q) = {} -> s
        [] OTHER -> IF Later(p, s) THEN s ELSE p

IsSubsumed(q) == subsumed_by[q] # Unmerged
Owns(q)       == owner_of[q] # Unmerged

\* HasPendingTasksUnlocked: a subsumed queue has none, an owner also has those
\* of the queue it subsumed.
HasPendingTasks(q) ==
  /\ ~IsSubsumed(q)
  /\ ~IsEmpty(q) \/ (Owns(q) /\ ~IsEmpty(owner_of[q]))

\* PeekNextTaskUnlocked: the queue whose top runs next on q's thread.
PeekQueue(q) ==
  LET s == owner_of[q]
  IN  IF Owns(q) /\ ~IsEmpty(s) /\ (IsEmpty(q) \/ Later(Top(q), Top(s)))
      THEN s ELSE q

PeekNextTask(q) == Top(PeekQueue(q))

\* WakeUpUnlocked(q, GetNextWakeTimeUnlocked(q)), guarded by
\* HasPendingTasksUnlocked(q) in the state the call leaves behind.
WakeUp(qs) ==
  timer' = [q \in Queues |-> IF q \in qs /\ HasPendingTasks(q)'
                             THEN PeekNextTask(q)'.time ELSE timer[q]]
-----------------------------------------------------------------------------
Init == /\ created = {} /\ entries = {}
        /\ owner_of = [q \in Queues |-> Unmerged]
        /\ subsumed_by = [q \in Queues |-> Unmerged]
        /\ tasks = [q \in Queues |-> {}]
        /\ paused = [q \in Queues |-> 0]
        /\ order = 0
        /\ timer = [q \in Queues |-> Never]

\* MessageLoopImpl(): CreateTaskQueue, then SetWakeable before anyone else can
\* know the id.  Ids are never reused.
CreateTaskQueue(q) ==
  /\ q \notin created
  /\ created' = created \union {q}
  /\ entries' = entries \union {q}
  /\ UNCHANGED <<owner_of, subsumed_by, tasks, paused, order, timer>>

\* Mutant: the queue that is owned stays behind.
ErasedWith_self(q) == {q}

\* The entries erased with q: q and the queue it owns.
ErasedWith(q) == {q} \union ({owner_of[q]} \ {Unmerged})

\* Dispose: erase the entry and the entry of the queue it owns, with their
\* links, tasks and pause counts.
Dispose(q) ==
  /\ q \in entries /\ ~IsSubsumed(q)                            \* caller
  /\ entries' = entries \ ErasedWith(q)
  /\ owner_of'    = [x \in Queues |-> IF x \in ErasedWith(q) THEN Unmerged ELSE owner_of[x]]
  /\ subsumed_by' = [x \in Queues |-> IF x \in ErasedWith(q) THEN Unmerged ELSE subsumed_by[x]]
  /\ tasks'  = [x \in Queues |-> IF x \in ErasedWith(q) THEN {} ELSE tasks[x]]
  /\ paused' = [x \in Queues |-> IF x \in ErasedWith(q) THEN 0 ELSE paused[x]]
  /\ UNCHANGED <<created, order, timer>>

\* DisposeTasks: ShutDown the task source of q and of the queue it owns.
DisposeTasks(q) ==
  /\ q \in entries /\ ~IsSubsumed(q)                            \* caller
  /\ tasks' = [x \in Queues |-> IF x \in ErasedWith(q) THEN {} ELSE tasks[x]]
  /\ UNCHANGED <<created, entries, owner_of, subsumed_by, paused, order, timer>>

\* Mutant: the loop of the queue itself is woken, merged or not.
RegisterTask_wakesSelf(q, time, grade) ==
  /\ q \in entries /\ order < MaxTasks
  /\ order' = order + 1
  /\ tasks' = [tasks EXCEPT ![q] = @ \union
                 {[order |-> order, time |-> time, grade |-> grade]}]
  /\ UNCHANGED <<created, entries, owner_of, subsumed_by, paused>>
  /\ WakeUp({q})

\* RegisterTask: push, then wake the loop that runs q's tasks.
RegisterTask(q, time, grade) ==
  /\ q \in entries                                              \* caller
  /\ order < MaxTasks
  /\ order' = order + 1
  /\ tasks' = [tasks EXCEPT ![q] = @ \union
                 {[order |-> order, time |-> time, grade |-> grade]}]
  /\ UNCHANGED <<created, entries, owner_of, subsumed_by, paused>>
  /\ WakeUp({IF IsSubsumed(q) THEN subsumed_by[q] ELSE q})

\* GetNextTaskToRun when it answers nullptr for want of a pending task.
NothingPending(q) ==
  /\ q \in entries                                              \* caller
  /\ ~HasPendingTasks(q)
  /\ UNCHANGED queueVars

\* GetNextTaskToRun when the next task is not due at from_time: the loop is
\* armed for it and nullptr is returned.
NothingDue(q, from_time) ==
  /\ q \in entries                                              \* caller
  /\ HasPendingTasks(q)
  /\ PeekNextTask(q).time > from_time
  /\ timer' = [timer EXCEPT ![q] = PeekNextTask(q).time]
  /\ UNCHANGED <<created, entries, owner_of, subsumed_by, tasks, paused, order>>

\* GetNextTaskToRun when it returns a task: the loop is armed for the task
\* found before that task is popped from the heap of its grade.
PopDue(q, from_time) ==
  /\ q \in entries                                              \* caller
  /\ HasPendingTasks(q)
  /\ LET top == PeekNextTask(q)
     IN  /\ top.time <= from_time
         /\ timer' = [timer EXCEPT ![q] = top.time]
         /\ tasks' = [tasks EXCEPT ![PeekQueue(q)] = @ \ {top}]
  /\ UNCHANGED <<created, entries, owner_of, subsumed_by, paused, order>>

\* Merge when it changes something.  It answers true without a change when
\* owner = subsumed or owner already owns subsumed, and false when one of the
\* two is merged with another queue.
Merge(owner, subsumed) ==
  /\ owner # subsumed
  /\ {owner, subsumed} \subseteq entries                        \* caller
  /\ \A x \in {owner, subsumed} : ~Owns(x) /\ ~IsSubsumed(x)
  /\ owner_of' = [owner_of EXCEPT ![owner] = subsumed]
  /\ subsumed_by' = [subsumed_by EXCEPT ![subsumed] = owner]
  /\ UNCHANGED <<created, entries, tasks, paused, order>>
  /\ WakeUp({owner})

\* Unmerge when owner owns a queue (it answers false otherwise): both loops
\* are woken for what they have left.
Unmerge(owner) ==
  /\ owner \in entries                                          \* caller
  /\ Owns(owner)
  /\ subsumed_by' = [subsumed_by EXCEPT ![owner_of[owner]] = Unmerged]
  /\ owner_of' = [owner_of EXCEPT ![owner] = Unmerged]
  /\ UNCHANGED <<created, entries, tasks, paused, order>>
  /\ WakeUp({owner, owner_of[owner]})

PauseSecondarySource(q) ==
  /\ q \in entries                                              \* caller
  /\ paused[q] < MaxPauses
  /\ paused' = [paused EXCEPT ![q] = @ + 1]
  /\ UNCHANGED <<created, entries, owner_of, subsumed_by, tasks, order, timer>>

\* ResumeSecondarySource: the wake-up is for q itself, also when q is subsumed
\* and another loop runs its tasks.
ResumeSecondarySource(q) ==
  /\ q \in entries /\ paused[q] > 0                             \* caller
  /\ paused' = [paused EXCEPT ![q] = @ - 1]
  /\ UNCHANGED <<created, entries, owner_of, subsumed_by, tasks, order>>
  /\ WakeUp({q})

Next ==
  \E q \in Queues :
    \/ CreateTaskQueue(q) \/ Dispose(q) \/ DisposeTasks(q)
    \/ \E time \in Times, grade \in Grades : RegisterTask(q, time, grade)
    \/ \E now \in Times : NothingDue(q, now) \/ PopDue(q, now)
    \/ \E s \in Queues : Merge(q, s)
    \/ Unmerge(q)
    \/ PauseSecondarySource(q) \/ ResumeSecondarySource(q)

Spec == Init /\ [][Next]_queueVars
-----------------------------------------------------------------------------
TypeOK ==
  /\ entries \subseteq created /\ created \subseteq Queues
  /\ owner_of \in [Queues -> Queues \union {Unmerged}]
  /\ subsumed_by \in [Queues -> Queues \union {Unmerged}]
  /\ tasks \in [Queues -> SUBSET Task]
  /\ paused \in [Queues -> 0 .. MaxPauses]
  /\ order \in 0 .. MaxTasks
  /\ timer \in [Queues -> 0 .. Never]

\* The note on TaskQueueEntry ("exactly one of these will be _kUnmerged") and
\* invariant 3 of the class ("each task queue can only be merged and subsumed
\* once"): the two links are inverse to each other, never form a chain, never
\* a loop, and never lead to an erased entry.
MergeTopology ==
  \A q \in Queues :
    /\ Owns(q) => /\ subsumed_by[owner_of[q]] = q
                  /\ ~IsSubsumed(q)
                  /\ {q, owner_of[q]} \subseteq entries
    /\ IsSubsumed(q) => owner_of[subsumed_by[q]] = q

\* The tasks loop q is to run: its own and those of the queue it owns, without
\* the paused ones.
Runnable(q) ==
  {t \in tasks[q] \union (IF Owns(q) THEN tasks[owner_of[q]] ELSE {}) :
     t.grade = Primary \/ paused[IF t \in tasks[q] THEN q ELSE owner_of[q]] = 0}

\* Reference definition of GetNextTaskToRun: of the at most four heaps that
\* PeekNextTaskUnlocked and TaskSource::Top compare pairwise, the task chosen
\* is the earliest in (time, order), and HasPendingTasks says whether one exists.
PeekIsEarliest ==
  \A q \in entries : ~IsSubsumed(q) =>
    /\ HasPendingTasks(q) <=> Runnable(q) # {}
    /\ HasPendingTasks(q) =>
         /\ PeekNextTask(q) \in Runnable(q)
         /\ \A t \in Runnable(q) : ~Later(PeekNextTask(q), t)
=============================================================================
