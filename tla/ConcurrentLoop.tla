--------------------------- MODULE ConcurrentLoop ---------------------------
(***************************************************************************)
(* base/concurrent_message_loop.cc: a pool of worker threads that share    *)
(* tasks_ and have a private list thread_tasks_ each, under tasks_mutex_   *)
(* and one condition variable.  An action is what a thread does between    *)
(* taking and releasing the mutex, or one task it runs outside it.         *)
(***************************************************************************)
EXTENDS Integers, Sequences

CONSTANTS Workers,      \* the worker threads
          Callers,      \* the other threads that post
          PoolTasks,    \* closures given to PostTask
          AllTasks,     \* closures given to PostTaskToAllWorkers
          NoTask        \* the empty closure

ASSUME ConcurrentLoopAssumption ==
  /\ Workers # {} /\ Workers \intersect Callers = {}
  /\ PoolTasks \intersect AllTasks = {} /\ NoTask \notin PoolTasks

Threads == Workers \union Callers
Tasks   == PoolTasks \union AllTasks

VARIABLES tasks,        \* tasks_
          thread_tasks, \* thread_tasks_, <<>> for a worker without an entry
          shutdown,     \* shutdown_
          pc,           \* pc[w]: "lock" before taking the mutex, "asleep" in
                        \* wait(), "work" outside the mutex, "exited"
          task,         \* the closure a worker took from tasks_
          own_tasks,    \* the closures it took from its own list
          shutdown_now, \* what it read of shutdown_
          notifying,    \* threads between unlock() and notify_one()
          posted,       \* tasks a client has posted
          early,        \* those for all workers posted before shutdown
          ran           \* ran[t][x]: how often thread x has run task t

vars == <<tasks, thread_tasks, shutdown, pc, task, own_tasks, shutdown_now,
          notifying, posted, early, ran>>

Init ==
  /\ tasks = <<>> /\ thread_tasks = [w \in Workers |-> <<>>]
  /\ shutdown = FALSE
  /\ pc = [w \in Workers |-> "lock"]
  /\ task = [w \in Workers |-> NoTask]
  /\ own_tasks = [w \in Workers |-> <<>>]
  /\ shutdown_now = [w \in Workers |-> FALSE]
  /\ notifying = {} /\ posted = {} /\ early = {}
  /\ ran = [t \in Tasks |-> [x \in Threads |-> 0]]

\* A thread can call the loop outside its own use of it: a worker only from
\* inside a task.
CanCall(x) ==
  /\ x \notin notifying
  /\ x \in Workers => pc[x] = "work" /\ (task[x] # NoTask \/ own_tasks[x] # <<>>)

Runs(t, x) == ran' = [ran EXCEPT ![t][x] = @ + 1]

HasThreadTasks(w) == thread_tasks[w] # <<>>
-----------------------------------------------------------------------------
\* Mutant: nobody is notified.
PostTask_noNotify(x, t) ==
  /\ CanCall(x) /\ t \in PoolTasks \ posted
  /\ posted' = posted \union {t}
  /\ IF shutdown THEN Runs(t, x) /\ UNCHANGED tasks
                 ELSE tasks' = Append(tasks, t) /\ UNCHANGED ran
  /\ UNCHANGED <<notifying, thread_tasks, shutdown, pc, task, own_tasks, shutdown_now, early>>

\* PostTask up to unlock(); after shutdown the caller runs the task itself.
PostTask(x, t) ==
  /\ CanCall(x) /\ t \in PoolTasks \ posted
  /\ posted' = posted \union {t}
  /\ IF shutdown
     THEN Runs(t, x) /\ UNCHANGED <<tasks, notifying>>
     ELSE /\ tasks' = Append(tasks, t)
          /\ notifying' = notifying \union {x}
          /\ UNCHANGED ran
  /\ UNCHANGED <<thread_tasks, shutdown, pc, task, own_tasks, shutdown_now, early>>

\* notify_one(), after the mutex was released: any one sleeper, if there is one.
NotifyOne(x) ==
  /\ x \in notifying
  /\ notifying' = notifying \ {x}
  /\ LET asleep == {w \in Workers : pc[w] = "asleep"}
     IN  IF asleep = {} THEN UNCHANGED pc
         ELSE \E w \in asleep : pc' = [pc EXCEPT ![w] = "lock"]
  /\ UNCHANGED <<tasks, thread_tasks, shutdown, task, own_tasks, shutdown_now, posted, early, ran>>

\* notify_all()
WakeAll == pc' = [w \in Workers |-> IF pc[w] = "asleep" THEN "lock" ELSE pc[w]]

\* Mutant: one sleeper is woken instead of all.
PostTaskToAllWorkers_one(x, t) ==
  /\ CanCall(x) /\ t \in AllTasks \ posted
  /\ posted' = posted \union {t}
  /\ early' = IF shutdown THEN early ELSE early \union {t}
  /\ thread_tasks' = [w \in Workers |-> Append(thread_tasks[w], t)]
  /\ LET asleep == {w \in Workers : pc[w] = "asleep"}
     IN  IF asleep = {} THEN UNCHANGED pc
         ELSE \E w \in asleep : pc' = [pc EXCEPT ![w] = "lock"]
  /\ UNCHANGED <<tasks, shutdown, task, own_tasks, shutdown_now, notifying, ran>>

\* PostTaskToAllWorkers: no test of shutdown_, every worker's list grows.
PostTaskToAllWorkers(x, t) ==
  /\ CanCall(x) /\ t \in AllTasks \ posted
  /\ posted' = posted \union {t}
  /\ early' = IF shutdown THEN early ELSE early \union {t}
  /\ thread_tasks' = [w \in Workers |-> Append(thread_tasks[w], t)]
  /\ WakeAll
  /\ UNCHANGED <<tasks, shutdown, task, own_tasks, shutdown_now, notifying, ran>>

\* Mutant: sleepers are not told.
Terminate_silent(x) ==
  /\ CanCall(x) /\ ~shutdown
  /\ shutdown' = TRUE
  /\ UNCHANGED <<tasks, thread_tasks, pc, task, own_tasks, shutdown_now,
                 notifying, posted, early, ran>>

\* Terminate, called by a client or by the destructor before it joins.
Terminate(x) ==
  /\ CanCall(x) /\ ~shutdown
  /\ shutdown' = TRUE
  /\ WakeAll
  /\ UNCHANGED <<tasks, thread_tasks, task, own_tasks, shutdown_now, notifying,
                 posted, early, ran>>
-----------------------------------------------------------------------------
\* WorkerMain's wait(): the predicate is false, the worker sleeps.
Sleep(w) ==
  /\ pc[w] = "lock"
  /\ tasks = <<>> /\ ~shutdown /\ ~HasThreadTasks(w)
  /\ pc' = [pc EXCEPT ![w] = "asleep"]
  /\ UNCHANGED <<tasks, thread_tasks, shutdown, task, own_tasks, shutdown_now,
                 notifying, posted, early, ran>>

\* A condition variable may wake a waiter for no reason.
SpuriousWakeUp(w) ==
  /\ pc[w] = "asleep"
  /\ pc' = [pc EXCEPT ![w] = "lock"]
  /\ UNCHANGED <<tasks, thread_tasks, shutdown, task, own_tasks, shutdown_now,
                 notifying, posted, early, ran>>

\* Mutant: the task taken is left at the head of the queue.
TakeWork_noPop(w) ==
  /\ pc[w] = "lock"
  /\ tasks # <<>> \/ shutdown \/ HasThreadTasks(w)
  /\ shutdown_now' = [shutdown_now EXCEPT ![w] = shutdown]
  /\ task' = [task EXCEPT ![w] = IF tasks = <<>> THEN NoTask ELSE Head(tasks)]
  /\ own_tasks' = [own_tasks EXCEPT ![w] = thread_tasks[w]]
  /\ thread_tasks' = [thread_tasks EXCEPT ![w] = <<>>]
  /\ pc' = [pc EXCEPT ![w] = "work"]
  /\ UNCHANGED <<tasks, shutdown, notifying, posted, early, ran>>

\* The predicate holds: take at most one shared task and all own tasks.
TakeWork(w) ==
  /\ pc[w] = "lock"
  /\ tasks # <<>> \/ shutdown \/ HasThreadTasks(w)
  /\ shutdown_now' = [shutdown_now EXCEPT ![w] = shutdown]
  /\ IF tasks # <<>>
     THEN task' = [task EXCEPT ![w] = Head(tasks)] /\ tasks' = Tail(tasks)
     ELSE UNCHANGED <<task, tasks>>
  /\ own_tasks' = [own_tasks EXCEPT ![w] = thread_tasks[w]]
  /\ thread_tasks' = [thread_tasks EXCEPT ![w] = <<>>]
  /\ pc' = [pc EXCEPT ![w] = "work"]
  /\ UNCHANGED <<shutdown, notifying, posted, early, ran>>

\* The shared task runs first.
RunTask(w) ==
  /\ pc[w] = "work" /\ w \notin notifying
  /\ task[w] # NoTask
  /\ Runs(task[w], w)
  /\ task' = [task EXCEPT ![w] = NoTask]
  /\ UNCHANGED <<tasks, thread_tasks, shutdown, pc, own_tasks, shutdown_now,
                 notifying, posted, early>>

RunThreadTask(w) ==
  /\ pc[w] = "work" /\ w \notin notifying
  /\ task[w] = NoTask /\ own_tasks[w] # <<>>
  /\ Runs(Head(own_tasks[w]), w)
  /\ own_tasks' = [own_tasks EXCEPT ![w] = Tail(@)]
  /\ UNCHANGED <<tasks, thread_tasks, shutdown, pc, task, shutdown_now, notifying,
                 posted, early>>

\* Mutant: the worker looks at shutdown_ again, without the mutex.
EndRound_rereads(w) ==
  /\ pc[w] = "work" /\ w \notin notifying
  /\ task[w] = NoTask /\ own_tasks[w] = <<>>
  /\ pc' = [pc EXCEPT ![w] = IF shutdown THEN "exited" ELSE "lock"]
  /\ UNCHANGED <<tasks, thread_tasks, shutdown, task, own_tasks, shutdown_now,
                 notifying, posted, early, ran>>

EndRound(w) ==
  /\ pc[w] = "work" /\ w \notin notifying
  /\ task[w] = NoTask /\ own_tasks[w] = <<>>
  /\ pc' = [pc EXCEPT ![w] = IF shutdown_now[w] THEN "exited" ELSE "lock"]
  /\ UNCHANGED <<tasks, thread_tasks, shutdown, task, own_tasks, shutdown_now,
                 notifying, posted, early, ran>>

WorkerStep(w) == \/ Sleep(w) \/ TakeWork(w) \/ RunTask(w) \/ RunThreadTask(w)
                 \/ EndRound(w)

Next ==
  \/ \E w \in Workers : WorkerStep(w) \/ SpuriousWakeUp(w)
  \/ \E x \in Threads :
       \/ NotifyOne(x) \/ Terminate(x)
       \/ \E t \in PoolTasks : PostTask(x, t)
       \/ \E t \in AllTasks : PostTaskToAllWorkers(x, t)

\* The scheduler runs every worker that can run, and a thread inside PostTask
\* goes on to notify_one().  Nothing is assumed of clients or spurious wake-ups.
Fairness == /\ \A w \in Workers : WF_vars(WorkerStep(w))
            /\ \A x \in Threads : WF_vars(NotifyOne(x))

Spec == Init /\ [][Next]_vars
FairSpec == Spec /\ Fairness
-----------------------------------------------------------------------------
\* Where a pool task can be found: in the queue, in a worker's hands, or run.
Queued(t) == {i \in 1 .. Len(tasks) : tasks[i] = t}
Held(t)   == {w \in Workers : task[w] = t}
RanBy(t)  == {x \in Threads : ran[t][x] > 0}

InQueue(t) == Held(t) = {} /\ RanBy(t) = {} /\ \E i \in 1 .. Len(tasks) : Queued(t) = {i}
InHand(t)  == Queued(t) = {} /\ RanBy(t) = {} /\ \E w \in Workers : Held(t) = {w}
RanOnce(t) == /\ Queued(t) = {} /\ Held(t) = {}
              /\ \E x \in Threads : RanBy(t) = {x} /\ ran[t][x] = 1

\* A task given to PostTask is at any time in exactly one place, so it is run
\* at most once and by one thread, whatever the workers and shutdown do.
ExactlyOnePlace ==
  \A t \in PoolTasks :
    /\ t \in posted => InQueue(t) \/ InHand(t) \/ RanOnce(t)
    /\ t \notin posted => Queued(t) = {} /\ Held(t) = {} /\ RanBy(t) = {}

\* No lost wake-up: while there is something for a worker to take, either some
\* worker is on its way to the mutex or will return to it, or a poster still
\* has its notify_one() to do.  Own tasks and shutdown leave nobody asleep.
SomebodyComes ==
  /\ tasks # <<>> /\ ~shutdown =>
       notifying # {} \/ \E w \in Workers : pc[w] \in {"lock", "work"}
  /\ \A w \in Workers : pc[w] = "asleep" => ~shutdown /\ ~HasThreadTasks(w)

\* Where a task for all workers can be found, for worker w: in its list, among
\* the tasks it has taken, or run.
Listed(t, w) == {i \in 1 .. Len(thread_tasks[w]) : thread_tasks[w][i] = t}
Taken(t, w)  == {i \in 1 .. Len(own_tasks[w]) : own_tasks[w][i] = t}

IsListed(t, w) == /\ Taken(t, w) = {} /\ ran[t][w] = 0
                  /\ \E i \in 1 .. Len(thread_tasks[w]) : Listed(t, w) = {i}
IsTaken(t, w)  == /\ Listed(t, w) = {} /\ ran[t][w] = 0
                  /\ \E i \in 1 .. Len(own_tasks[w]) : Taken(t, w) = {i}
IsRun(t, w)    == Listed(t, w) = {} /\ Taken(t, w) = {} /\ ran[t][w] = 1

\* A task given to PostTaskToAllWorkers is for every worker in exactly one
\* place, and a worker that has left WorkerMain has run each one posted before
\* shutdown, though it may have read shutdown_ before the task was posted.
OwnTasksKept ==
  \A t \in AllTasks, w \in Workers :
    /\ t \in posted => IsListed(t, w) \/ IsTaken(t, w) \/ IsRun(t, w)
    /\ t \notin posted => Listed(t, w) = {} /\ Taken(t, w) = {} /\ ran[t][w] = 0
    /\ t \in early /\ pc[w] = "exited" => IsRun(t, w)

\* Every task in the queue is run unless the loop is shut down first.
PostedTasksRun ==
  \A t \in PoolTasks : t \in posted ~> RanBy(t) # {} \/ shutdown

\* A task given to all workers before shutdown is run by each of them once.
AllWorkersRun ==
  \A t \in AllTasks, w \in Workers :
    (t \in posted /\ ~shutdown) ~> ran[t][w] = 1

\* ~ConcurrentMessageLoop returns: after Terminate every worker can be joined.
WorkersExit == shutdown ~> \A w \in Workers : pc[w] = "exited"
=============================================================================
