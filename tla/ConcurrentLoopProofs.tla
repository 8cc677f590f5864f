------------------------ MODULE ConcurrentLoopProofs ------------------------
(***************************************************************************)
(* For every number of workers, callers and tasks: the pool never sleeps   *)
(* on work, a task given to PostTask is run at most once, by one thread,   *)
(* and one given to all workers before shutdown is run by each of them     *)
(* before it leaves.                                                       *)
(***************************************************************************)
EXTENDS ConcurrentLoop, TLAPS

\* The parts of TypeOK that the argument needs.
ControlOK ==
  /\ shutdown \in BOOLEAN
  /\ pc \in [Workers -> {"lock", "asleep", "work", "exited"}]
  /\ task \in [Workers -> PoolTasks \union {NoTask}]
  /\ own_tasks \in [Workers -> Seq(AllTasks)]
  /\ thread_tasks \in [Workers -> Seq(AllTasks)]
  /\ shutdown_now \in [Workers -> BOOLEAN]
  /\ tasks \in Seq(PoolTasks)

\* A worker cannot have read a shutdown that did not happen.
ShutdownWasRead == \A w \in Workers : shutdown_now[w] => shutdown

\* A worker only leaves once it has seen the shutdown, with empty hands.
CleanExit == \A w \in Workers : pc[w] = "exited" =>
               shutdown /\ shutdown_now[w] /\ task[w] = NoTask /\ own_tasks[w] = <<>>

\* The inductive invariant.  SomebodyComes alone is not inductive: that a
\* notify_one() may find nobody asleep is harmless only because no worker has
\* left, which takes CleanExit, which in turn takes ShutdownWasRead.
IInv == ControlOK /\ ShutdownWasRead /\ CleanExit /\ SomebodyComes

LEMMA InitIInv == Init => IInv
<1> SUFFICES ASSUME Init PROVE IInv
  OBVIOUS
<1>1. <<>> \in Seq(AllTasks) /\ <<>> \in Seq(PoolTasks)
  OBVIOUS
<1>2. ControlOK
  BY <1>1 DEF Init, ControlOK
<1>3. ShutdownWasRead /\ CleanExit /\ SomebodyComes
  BY DEF Init, ShutdownWasRead, CleanExit, SomebodyComes
<1> QED
  BY <1>2, <1>3 DEF IInv

\* Every step keeps the variables in their types.
LEMMA ControlStep == ControlOK /\ [Next]_vars => ControlOK'
<1> SUFFICES ASSUME ControlOK, [Next]_vars PROVE ControlOK'
  OBVIOUS
<1> USE DEF ControlOK
<1>1. ASSUME NEW x \in Threads, NEW t \in PoolTasks, PostTask(x, t) PROVE ControlOK'
  <2>1. tasks' \in Seq(PoolTasks)
    <3>1. Append(tasks, t) \in Seq(PoolTasks)
      OBVIOUS
    <3> QED
      BY <1>1, <3>1 DEF PostTask
  <2> QED
    BY <1>1, <2>1 DEF PostTask
<1>2. ASSUME NEW x \in Threads, NotifyOne(x) PROVE ControlOK'
  BY <1>2 DEF NotifyOne
<1>3. ASSUME NEW x \in Threads, NEW t \in AllTasks, PostTaskToAllWorkers(x, t)
      PROVE  ControlOK'
  BY <1>3 DEF PostTaskToAllWorkers, WakeAll
<1>4. ASSUME NEW x \in Threads, Terminate(x) PROVE ControlOK'
  BY <1>4 DEF Terminate, WakeAll
<1>5. ASSUME NEW w \in Workers, Sleep(w) \/ SpuriousWakeUp(w) \/ EndRound(w)
      PROVE  ControlOK'
  BY <1>5 DEF Sleep, SpuriousWakeUp, EndRound
<1>6. ASSUME NEW w \in Workers, TakeWork(w) PROVE ControlOK'
  <2>1. tasks # <<>> => Head(tasks) \in PoolTasks /\ Tail(tasks) \in Seq(PoolTasks)
    OBVIOUS
  <2>2. task' \in [Workers -> PoolTasks \union {NoTask}] /\ tasks' \in Seq(PoolTasks)
    BY <1>6, <2>1 DEF TakeWork
  <2>3. thread_tasks' \in [Workers -> Seq(AllTasks)]
    <3>1. <<>> \in Seq(AllTasks)
      OBVIOUS
    <3> QED
      BY <1>6, <3>1 DEF TakeWork
  <2> QED
    BY <1>6, <2>2, <2>3 DEF TakeWork
<1>7. ASSUME NEW w \in Workers, RunTask(w) \/ RunThreadTask(w) PROVE ControlOK'
  <2>1. CASE RunTask(w)
    BY <2>1 DEF RunTask
  <2>2. CASE RunThreadTask(w)
    <3>1. Tail(own_tasks[w]) \in Seq(AllTasks)
      BY <2>2 DEF RunThreadTask
    <3> QED
      BY <2>2, <3>1 DEF RunThreadTask
  <2> QED
    BY <1>7, <2>1, <2>2
<1>8. CASE UNCHANGED vars
  BY <1>8 DEF vars
<1> QED
  BY <1>1, <1>2, <1>3, <1>4, <1>5, <1>6, <1>7, <1>8 DEF Next, WorkerStep

\* Every step keeps the exits clean and the sleepers idle.
LEMMA SafetyStep == IInv /\ [Next]_vars =>
                      ShutdownWasRead' /\ CleanExit' /\ SomebodyComes'
<1> SUFFICES ASSUME IInv, [Next]_vars
             PROVE  ShutdownWasRead' /\ CleanExit' /\ SomebodyComes'
  OBVIOUS
<1> USE ConcurrentLoopAssumption
<1> USE DEF IInv, ControlOK, ShutdownWasRead, CleanExit, SomebodyComes, HasThreadTasks
<1> DEFINE Goal == ShutdownWasRead' /\ CleanExit' /\ SomebodyComes'
<1>1. ASSUME NEW x \in Threads, NEW t \in PoolTasks, PostTask(x, t) PROVE Goal
  BY <1>1 DEF PostTask
<1>2. ASSUME NEW x \in Threads, NotifyOne(x) PROVE Goal
  <2>1. CASE \E w \in Workers : pc[w] = "asleep"
    <3>1. PICK w \in Workers : pc[w] = "asleep" /\ pc' = [pc EXCEPT ![w] = "lock"]
      BY <1>2, <2>1 DEF NotifyOne
    <3> QED
      BY <1>2, <3>1 DEF NotifyOne
  <2>2. CASE ~\E w \in Workers : pc[w] = "asleep"
    <3>1. PICK w \in Workers : TRUE
      OBVIOUS
    <3>2. ~shutdown => pc[w] \in {"lock", "work"}
      BY <2>2
    <3>3. UNCHANGED <<pc, shutdown, shutdown_now, task, own_tasks, thread_tasks>>
      BY <1>2, <2>2 DEF NotifyOne
    <3> QED
      BY <3>2, <3>3
  <2> QED
    BY <2>1, <2>2
<1>3. ASSUME NEW x \in Threads, NEW t \in AllTasks, PostTaskToAllWorkers(x, t)
      PROVE  Goal
  BY <1>3 DEF PostTaskToAllWorkers, WakeAll
<1>4. ASSUME NEW x \in Threads, Terminate(x) PROVE Goal
  BY <1>4 DEF Terminate, WakeAll
<1>5. ASSUME NEW w \in Workers, Sleep(w) PROVE Goal
  BY <1>5 DEF Sleep
<1>6. ASSUME NEW w \in Workers, SpuriousWakeUp(w) PROVE Goal
  BY <1>6 DEF SpuriousWakeUp
<1>7. ASSUME NEW w \in Workers, TakeWork(w) PROVE Goal
  BY <1>7 DEF TakeWork
<1>8. ASSUME NEW w \in Workers, RunTask(w) PROVE Goal
  BY <1>8 DEF RunTask
<1>9. ASSUME NEW w \in Workers, RunThreadTask(w) PROVE Goal
  BY <1>9 DEF RunThreadTask
<1>10. ASSUME NEW w \in Workers, EndRound(w) PROVE Goal
  BY <1>10 DEF EndRound
<1>11. CASE UNCHANGED vars
  BY <1>11 DEF vars
<1> QED
  BY <1>1, <1>2, <1>3, <1>4, <1>5, <1>6, <1>7, <1>8, <1>9, <1>10, <1>11
     DEF Next, WorkerStep

LEMMA Invariance == Spec => []IInv
<1>1. IInv /\ [Next]_vars => IInv'
  BY ControlStep, SafetyStep DEF IInv
<1> QED BY InitIInv, <1>1, PTL DEF Spec

\* No lost wake-up in a pool of any size: as long as tasks_ is not empty and
\* the loop is not shut down, a worker or a notify_one() is on its way, and
\* nobody sleeps through shutdown or over tasks of its own.
THEOREM PoolNeverSleepsOnWork == Spec => []SomebodyComes
<1>1. IInv => SomebodyComes
  BY DEF IInv
<1> QED BY Invariance, <1>1, PTL
-----------------------------------------------------------------------------
(* One place for every task.                                               *)

\* A worker that holds a task has not gone back to the mutex, so that TakeWork
\* never overwrites a task that was not run.
HoldsAtWork == \A w \in Workers : task[w] # NoTask => pc[w] = "work"

RanOK == ran \in [Tasks -> [Threads -> Nat]]

PlaceInv == ControlOK /\ HoldsAtWork /\ RanOK /\ ExactlyOnePlace

LEMMA HandsStep == PlaceInv /\ [Next]_vars => HoldsAtWork' /\ RanOK'
<1> SUFFICES ASSUME PlaceInv, [Next]_vars PROVE HoldsAtWork' /\ RanOK'
  OBVIOUS
<1> USE DEF PlaceInv, ControlOK
<1>1. HoldsAtWork'
  <2>1. ASSUME NEW x \in Threads, NotifyOne(x) PROVE HoldsAtWork'
    BY <2>1 DEF NotifyOne, HoldsAtWork
  <2>2. ASSUME NEW x \in Threads, NEW t,
               PostTask(x, t) \/ PostTaskToAllWorkers(x, t) \/ Terminate(x) PROVE HoldsAtWork'
    BY <2>2 DEF PostTask, PostTaskToAllWorkers, Terminate, WakeAll, HoldsAtWork
  <2>3. ASSUME NEW x \in Threads, Terminate(x) PROVE HoldsAtWork'
    BY <2>3 DEF Terminate, WakeAll, HoldsAtWork
  <2>4. ASSUME NEW w \in Workers, Sleep(w) \/ SpuriousWakeUp(w) \/ EndRound(w) \/ RunTask(w)
        PROVE  HoldsAtWork'
    BY <2>4 DEF Sleep, SpuriousWakeUp, EndRound, RunTask, HoldsAtWork
  <2>5. ASSUME NEW w \in Workers, TakeWork(w) \/ RunThreadTask(w) PROVE HoldsAtWork'
    BY <2>5 DEF TakeWork, RunThreadTask, HoldsAtWork
  <2>6. CASE UNCHANGED vars
    BY <2>6 DEF vars, HoldsAtWork
  <2> QED BY <2>1, <2>2, <2>3, <2>4, <2>5, <2>6 DEF Next, WorkerStep
<1>2. RanOK'
  <2>1. ASSUME NEW t \in Tasks, NEW x \in Threads, Runs(t, x) PROVE RanOK'
    BY <2>1 DEF Runs, RanOK
  <2>2. ASSUME ran' = ran PROVE RanOK'
    BY <2>2 DEF RanOK
  <2>3. ASSUME NEW x \in Threads, NEW t \in PoolTasks, PostTask(x, t) PROVE RanOK'
    BY <2>1, <2>2, <2>3 DEF PostTask, Tasks
  <2>4. ASSUME NEW w \in Workers, RunTask(w) PROVE RanOK'
    BY <2>1, <2>4 DEF RunTask, Tasks, Threads
  <2>5. ASSUME NEW w \in Workers, RunThreadTask(w) PROVE RanOK'
    <3>1. Head(own_tasks[w]) \in AllTasks
      BY <2>5 DEF RunThreadTask
    <3> QED BY <2>1, <2>5, <3>1 DEF RunThreadTask, Tasks, Threads
  <2>6. ASSUME NEW x, NotifyOne(x) \/ Terminate(x) \/ Sleep(x) \/ SpuriousWakeUp(x)
                      \/ TakeWork(x) \/ EndRound(x) PROVE RanOK'
    BY <2>2, <2>6 DEF NotifyOne, Terminate, Sleep, SpuriousWakeUp, TakeWork, EndRound
  <2>7. ASSUME NEW x, NEW t, PostTaskToAllWorkers(x, t) PROVE RanOK'
    BY <2>2, <2>7 DEF PostTaskToAllWorkers
  <2>8. CASE UNCHANGED vars
    BY <2>2, <2>8 DEF vars
  <2> QED BY <2>3, <2>4, <2>5, <2>6, <2>7, <2>8 DEF Next, WorkerStep
<1> QED BY <1>1, <1>2

\* A task stays where it is when nothing that holds it changes.
LEMMA StaysInPlace ==
  ASSUME ExactlyOnePlace, NEW t \in PoolTasks, t \in posted' <=> t \in posted,
         Held(t)' = Held(t), RanBy(t)' = RanBy(t), ran'[t] = ran[t],
         \/ tasks' = tasks
         \/ Queued(t)' = {} /\ Queued(t) = {}
         \/ \E i \in 1 .. Len(tasks), j \in 1 .. Len(tasks') : Queued(t) = {i} /\ Queued(t)' = {j}
  PROVE  /\ t \in posted' => InQueue(t)' \/ InHand(t)' \/ RanOnce(t)'
         /\ t \notin posted' => Queued(t)' = {} /\ Held(t)' = {} /\ RanBy(t)' = {}
<1>1. Queued(t)' = {} <=> Queued(t) = {}
  BY DEF Queued
<1>2. (\E i \in 1 .. Len(tasks) : Queued(t) = {i}) => \E i \in 1 .. Len(tasks') : Queued(t)' = {i}
  BY DEF Queued
<1>3. CASE t \notin posted
  BY <1>1, <1>3 DEF ExactlyOnePlace
<1>4. CASE t \in posted /\ InQueue(t)
  BY <1>2, <1>4 DEF InQueue
<1>5. CASE t \in posted /\ InHand(t)
  BY <1>1, <1>5 DEF InHand
<1>6. CASE t \in posted /\ RanOnce(t)
  BY <1>1, <1>6 DEF RanOnce
<1> QED BY <1>3, <1>4, <1>5, <1>6 DEF ExactlyOnePlace

\* PostTask puts the task at the end of the queue, or runs it at once.
LEMMA PostPlaces ==
  ASSUME PlaceInv, NEW x \in Threads, NEW t \in PoolTasks, PostTask(x, t)
  PROVE  ExactlyOnePlace'
<1> USE DEF PlaceInv, ControlOK
<1>1. t \notin posted /\ posted' = posted \union {t} /\ task' = task
  BY DEF PostTask
<1>2. Queued(t) = {} /\ Held(t) = {} /\ RanBy(t) = {}
  BY <1>1 DEF ExactlyOnePlace
<1>3. \A s : Held(s)' = Held(s)
  BY <1>1 DEF Held
<1>4. CASE shutdown
  <2>1. tasks' = tasks /\ ran' = [ran EXCEPT ![t][x] = @ + 1]
    BY <1>4 DEF PostTask, Runs
  <2>2. \A s \in PoolTasks \ {t} : ran'[s] = ran[s] /\ RanBy(s)' = RanBy(s)
    BY <2>1 DEF RanOK, RanBy, Tasks
  <2>3. RanOnce(t)'
    <3>1. ran[t] \in [Threads -> Nat] /\ \A y \in Threads : ran[t][y] = 0
      BY <1>2 DEF RanBy, RanOK, Tasks
    <3>2. \A y \in Threads : ran'[t][y] = IF y = x THEN 1 ELSE 0
      BY <2>1, <3>1 DEF RanOK, Tasks
    <3>3. RanBy(t)' = {x} /\ ran'[t][x] = 1
      BY <3>2 DEF RanBy
    <3>4. Queued(t)' = {} /\ Held(t)' = {}
      BY <1>2, <1>3, <2>1 DEF Queued
    <3> QED BY <3>3, <3>4 DEF RanOnce
  <2>4. ASSUME NEW s \in PoolTasks \ {t}
        PROVE  /\ s \in posted' => InQueue(s)' \/ InHand(s)' \/ RanOnce(s)'
               /\ s \notin posted' => Queued(s)' = {} /\ Held(s)' = {} /\ RanBy(s)' = {}
    BY <1>1, <1>3, <2>1, <2>2, StaysInPlace
  <2> QED BY <1>1, <2>3, <2>4 DEF ExactlyOnePlace
<1>5. CASE ~shutdown
  <2>1. tasks' = Append(tasks, t) /\ ran' = ran
    BY <1>5 DEF PostTask
  <2>2. /\ Len(tasks') = Len(tasks) + 1 /\ Len(tasks) \in Nat
        /\ \A i \in 1 .. Len(tasks) : tasks'[i] = tasks[i]
        /\ tasks'[Len(tasks) + 1] = t
    BY <2>1
  <2>3. \A s : RanBy(s)' = RanBy(s)
    BY <2>1 DEF RanBy
  <2>4. Queued(t)' = {Len(tasks) + 1}
    <3>1. \A i \in 1 .. Len(tasks) : tasks[i] # t
      BY <1>2 DEF Queued
    <3>2. \A i \in 1 .. Len(tasks') : tasks'[i] = t <=> i = Len(tasks) + 1
      BY ONLY <2>2, <3>1
    <3>3. Len(tasks) + 1 \in 1 .. Len(tasks')
      BY ONLY <2>2
    <3> QED BY ONLY <3>2, <3>3 DEF Queued
  <2>5. InQueue(t)'
    <3>1. Len(tasks) + 1 \in 1 .. Len(tasks')
      BY ONLY <2>2
    <3> QED BY <1>2, <1>3, <2>3, <2>4, <3>1 DEF InQueue
  <2>6. ASSUME NEW s \in PoolTasks \ {t}
        PROVE  /\ s \in posted' => InQueue(s)' \/ InHand(s)' \/ RanOnce(s)'
               /\ s \notin posted' => Queued(s)' = {} /\ Held(s)' = {} /\ RanBy(s)' = {}
    <3>1. Queued(s)' = Queued(s)
      BY <2>2, <2>6 DEF Queued
    <3>2. (\E i \in 1 .. Len(tasks) : Queued(s) = {i}) \/ Queued(s) = {}
      BY DEF ExactlyOnePlace, InQueue, InHand, RanOnce
    <3>3. 1 .. Len(tasks) \subseteq 1 .. Len(tasks')
      BY <2>2
    <3> QED BY <1>1, <1>3, <2>1, <2>3, <3>1, <3>2, <3>3, StaysInPlace
  <2> QED BY <1>1, <2>5, <2>6 DEF ExactlyOnePlace
<1> QED BY <1>4, <1>5

\* TakeWork moves the head of the queue to a worker that holds nothing.
LEMMA TakePlaces ==
  ASSUME PlaceInv, NEW w \in Workers, TakeWork(w)
  PROVE  ExactlyOnePlace'
<1> USE ConcurrentLoopAssumption DEF PlaceInv, ControlOK
<1>1. posted' = posted /\ ran' = ran
  BY DEF TakeWork
<1>2. \A s : RanBy(s)' = RanBy(s)
  BY <1>1 DEF RanBy
<1>3. task[w] = NoTask
  BY DEF TakeWork, HoldsAtWork
<1>4. CASE tasks = <<>>
  <2>1. task' = task /\ tasks' = tasks
    BY <1>4 DEF TakeWork
  <2>2. \A s : Held(s)' = Held(s)
    BY <2>1 DEF Held
  <2> QED BY <1>1, <1>2, <2>1, <2>2, StaysInPlace DEF ExactlyOnePlace
<1>5. CASE tasks # <<>>
  <2>0. PICK t \in PoolTasks : t = Head(tasks)
    BY <1>5
  <2>1. task' = [task EXCEPT ![w] = t] /\ tasks' = Tail(tasks)
    BY <1>5, <2>0 DEF TakeWork
  <2>2. /\ t = tasks[1] /\ Len(tasks) \in Nat /\ Len(tasks) >= 1
        /\ Len(tasks') = Len(tasks) - 1
        /\ \A i \in 1 .. Len(tasks') : tasks'[i] = tasks[i + 1]
    BY <1>5, <2>0, <2>1
  <2>3. InQueue(t) /\ t \in posted
    <3>1. 1 \in Queued(t)
      BY <2>2 DEF Queued
    <3> QED BY <2>2, <3>1 DEF ExactlyOnePlace, InHand, RanOnce
  <2>4. Queued(t) = {1}
    <3>1. 1 \in Queued(t)
      BY <2>2 DEF Queued
    <3> QED BY <2>3, <3>1 DEF InQueue
  <2>5. InHand(t)'
    <3>1. Queued(t)' = {}
      <4>1. \A i \in 1 .. Len(tasks) : tasks[i] = t => i = 1
        BY <2>4 DEF Queued
      <4>2. \A i \in 1 .. Len(tasks') : tasks'[i] # t
        BY ONLY <2>2, <4>1
      <4> QED BY ONLY <4>2 DEF Queued
    <3>2. Held(t)' = {w}
      BY <2>1, <2>3 DEF Held, InQueue
    <3> QED BY <1>2, <2>3, <3>1, <3>2 DEF InHand, InQueue
  <2>6. ASSUME NEW s \in PoolTasks \ {t}
        PROVE  /\ s \in posted' => InQueue(s)' \/ InHand(s)' \/ RanOnce(s)'
               /\ s \notin posted' => Queued(s)' = {} /\ Held(s)' = {} /\ RanBy(s)' = {}
    <3>1. Held(s)' = Held(s)
      BY <1>3, <2>1, <2>6 DEF Held
    <3>2. (\E i \in 1 .. Len(tasks) : Queued(s) = {i}) \/ Queued(s) = {}
      BY DEF ExactlyOnePlace, InQueue, InHand, RanOnce
    <3>3. ASSUME Queued(s) = {} PROVE Queued(s)' = {}
      <4>1. \A i \in 1 .. Len(tasks) : tasks[i] # s
        BY <3>3 DEF Queued
      <4>2. \A i \in 1 .. Len(tasks') : tasks'[i] # s
        BY ONLY <2>2, <4>1
      <4> QED BY ONLY <4>2 DEF Queued
    <3>4. ASSUME NEW i \in 1 .. Len(tasks), Queued(s) = {i}
          PROVE  i - 1 \in 1 .. Len(tasks') /\ Queued(s)' = {i - 1}
      <4>1. tasks[i] = s /\ \A j \in 1 .. Len(tasks) : tasks[j] = s => j = i
        BY <3>4 DEF Queued
      <4>2. i # 1
        BY <2>2, <2>6, <4>1
      <4>3. i - 1 \in 1 .. Len(tasks') /\ \A j \in 1 .. Len(tasks') : tasks'[j] = s <=> j = i - 1
        BY ONLY <2>2, <4>1, <4>2, i \in 1 .. Len(tasks)
      <4> QED BY ONLY <4>3 DEF Queued
    <3> QED BY <1>1, <1>2, <3>1, <3>2, <3>3, <3>4, StaysInPlace
  <2> QED BY <1>1, <2>2, <2>3, <2>5, <2>6 DEF ExactlyOnePlace
<1> QED BY <1>4, <1>5

\* RunTask runs the task the worker holds and forgets it.
LEMMA RunPlaces ==
  ASSUME PlaceInv, NEW w \in Workers, RunTask(w)
  PROVE  ExactlyOnePlace'
<1> USE ConcurrentLoopAssumption DEF PlaceInv, ControlOK
<1>0. PICK t \in PoolTasks : t = task[w]
  BY DEF RunTask
<1>1. /\ posted' = posted /\ tasks' = tasks
      /\ ran' = [ran EXCEPT ![t][w] = @ + 1] /\ task' = [task EXCEPT ![w] = NoTask]
  BY <1>0 DEF RunTask, Runs
<1>2. w \in Held(t)
  BY <1>0 DEF Held
<1>3. t \in posted /\ InHand(t) /\ Held(t) = {w}
  BY <1>1, <1>2 DEF ExactlyOnePlace, InQueue, InHand, RanOnce
<1>4. RanOnce(t)'
  <2>1. ran[t] \in [Threads -> Nat] /\ w \in Threads /\ \A y \in Threads : ran[t][y] = 0
    <3>1. w \in Threads /\ t \in Tasks
      BY DEF Threads, Tasks
    <3>2. ran[t] \in [Threads -> Nat]
      BY <3>1 DEF RanOK
    <3>3. RanBy(t) = {}
      BY <1>3 DEF InHand
    <3> QED BY <3>1, <3>2, <3>3 DEF RanBy
  <2>2. \A y \in Threads : ran'[t][y] = IF y = w THEN 1 ELSE 0
    BY <1>1, <2>1 DEF RanOK, Tasks
  <2>3. Held(t)' = {}
    BY <1>1, <1>3 DEF Held
  <2>4. RanBy(t)' = {w} /\ ran'[t][w] = 1
    BY <2>1, <2>2 DEF RanBy
  <2>5. Queued(t)' = {}
    BY <1>1, <1>3 DEF InHand, Queued
  <2> QED BY <2>1, <2>3, <2>4, <2>5 DEF RanOnce
<1>5. ASSUME NEW s \in PoolTasks \ {t}
      PROVE  /\ s \in posted' => InQueue(s)' \/ InHand(s)' \/ RanOnce(s)'
             /\ s \notin posted' => Queued(s)' = {} /\ Held(s)' = {} /\ RanBy(s)' = {}
  <2>1. ran'[s] = ran[s] /\ RanBy(s)' = RanBy(s)
    BY <1>1 DEF RanOK, RanBy, Tasks
  <2>2. Held(s)' = Held(s)
    BY <1>0, <1>1 DEF Held
  <2> QED BY <1>1, <2>1, <2>2, StaysInPlace
<1> QED BY <1>1, <1>3, <1>4, <1>5 DEF ExactlyOnePlace

LEMMA PlacesKept == Spec => []PlaceInv
<1>1. Init => PlaceInv
  <2>1. ASSUME Init PROVE ControlOK
    BY <2>1, InitIInv DEF IInv
  <2>2. ASSUME Init PROVE HoldsAtWork /\ RanOK
    BY <2>2 DEF Init, HoldsAtWork, RanOK
  <2>3. ASSUME Init PROVE ExactlyOnePlace
    BY <2>3, ConcurrentLoopAssumption DEF Init, ExactlyOnePlace, Queued, Held, RanBy, Tasks
  <2> QED BY <2>1, <2>2, <2>3 DEF PlaceInv
<1>2. PlaceInv /\ [Next]_vars => PlaceInv'
  <2> SUFFICES ASSUME PlaceInv, [Next]_vars PROVE PlaceInv'
    OBVIOUS
  <2>1. ControlOK' /\ HoldsAtWork' /\ RanOK'
    BY ControlStep, HandsStep DEF PlaceInv
  <2>2. ASSUME UNCHANGED <<posted, task, tasks>>, \A t \in PoolTasks : ran'[t] = ran[t]
        PROVE  ExactlyOnePlace'
    <3>1. \A t \in PoolTasks : Held(t)' = Held(t) /\ RanBy(t)' = RanBy(t)
      BY <2>2 DEF Held, RanBy
    <3> QED BY <2>2, <3>1, StaysInPlace DEF PlaceInv, ExactlyOnePlace
  <2>3. ASSUME NEW w \in Workers, RunThreadTask(w) PROVE ExactlyOnePlace'
    <3>1. Head(own_tasks[w]) \in AllTasks
      BY <2>3 DEF RunThreadTask, PlaceInv, ControlOK
    <3>2. \A t \in PoolTasks : ran'[t] = ran[t]
      BY <2>3, <3>1, ConcurrentLoopAssumption DEF RunThreadTask, Runs, PlaceInv, RanOK, Tasks
    <3> QED BY <2>2, <2>3, <3>2 DEF RunThreadTask
  <2>4. ASSUME NEW x, NotifyOne(x) \/ Terminate(x) \/ Sleep(x) \/ SpuriousWakeUp(x) \/ EndRound(x)
        PROVE  ExactlyOnePlace'
    BY <2>2, <2>4 DEF NotifyOne, Terminate, Sleep, SpuriousWakeUp, EndRound
  <2>5. ASSUME NEW x, NEW t \in AllTasks, PostTaskToAllWorkers(x, t) PROVE ExactlyOnePlace'
    <3>1. \A s \in PoolTasks : s \in posted' <=> s \in posted
      BY <2>5, ConcurrentLoopAssumption DEF PostTaskToAllWorkers
    <3>2. UNCHANGED <<task, tasks, ran>>
      BY <2>5 DEF PostTaskToAllWorkers
    <3>3. \A s \in PoolTasks : Held(s)' = Held(s) /\ RanBy(s)' = RanBy(s)
      BY <3>2 DEF Held, RanBy
    <3> QED BY <3>1, <3>2, <3>3, StaysInPlace DEF PlaceInv, ExactlyOnePlace
  <2>6. ASSUME UNCHANGED vars PROVE ExactlyOnePlace'
    BY <2>2, <2>6 DEF vars
  <2>7. ExactlyOnePlace'
    BY <2>3, <2>4, <2>5, <2>6, PostPlaces, TakePlaces, RunPlaces DEF Next, WorkerStep
  <2> QED BY <2>1, <2>7 DEF PlaceInv
<1> QED BY <1>1, <1>2, PTL DEF Spec

\* A task given to PostTask is at any time in the queue, in one worker's hands
\* or run once by one thread, in a pool of any size.
THEOREM TasksRunAtMostOnce == Spec => []ExactlyOnePlace
<1>1. PlaceInv => ExactlyOnePlace
  BY DEF PlaceInv
<1> QED BY <1>1, PlacesKept, PTL
-----------------------------------------------------------------------------
(* The tasks for all workers.                                              *)

\* A worker that has tasks of its own has not gone back to the mutex.
OwnAtWork == \A w \in Workers : own_tasks[w] # <<>> => pc[w] = "work"

OnePlace(t, w) ==
  /\ t \in posted => IsListed(t, w) \/ IsTaken(t, w) \/ IsRun(t, w)
  /\ t \notin posted => Listed(t, w) = {} /\ Taken(t, w) = {} /\ ran[t][w] = 0

\* In its last round a worker has left no early task in its list.
LastRound ==
  \A t \in early : \A w \in Workers :
    pc[w] \in {"work", "exited"} /\ shutdown_now[w] => Listed(t, w) = {}

OwnInv == /\ OwnAtWork /\ LastRound /\ early \subseteq posted
          /\ \A t \in AllTasks, w \in Workers : OnePlace(t, w)

LEMMA OwnAtWorkStep ==
  ASSUME IInv, OwnAtWork, [Next]_vars
  PROVE  OwnAtWork'
<1> USE DEF IInv, ControlOK, OwnAtWork
<1>1. ASSUME NEW x \in Threads, NotifyOne(x) PROVE OwnAtWork'
  BY <1>1 DEF NotifyOne
<1>2. ASSUME NEW x \in Threads, NEW t, PostTask(x, t) \/ PostTaskToAllWorkers(x, t) PROVE OwnAtWork'
  BY <1>2 DEF PostTask, PostTaskToAllWorkers, WakeAll
<1>3. ASSUME NEW x \in Threads, Terminate(x) PROVE OwnAtWork'
  BY <1>3 DEF Terminate, WakeAll
<1>4. ASSUME NEW w \in Workers, Sleep(w) \/ SpuriousWakeUp(w) \/ EndRound(w) \/ RunTask(w)
      PROVE  OwnAtWork'
  BY <1>4 DEF Sleep, SpuriousWakeUp, EndRound, RunTask
<1>5. ASSUME NEW w \in Workers, TakeWork(w) \/ RunThreadTask(w) PROVE OwnAtWork'
  BY <1>5 DEF TakeWork, RunThreadTask
<1>6. CASE UNCHANGED vars
  BY <1>6 DEF vars
<1> QED BY <1>1, <1>2, <1>3, <1>4, <1>5, <1>6 DEF Next, WorkerStep

\* PostTaskToAllWorkers puts the task at the end of every list.
LEMMA PostAllPlaces ==
  ASSUME IInv, OwnInv, NEW x \in Threads, NEW t \in AllTasks, PostTaskToAllWorkers(x, t),
         NEW s \in AllTasks, NEW w \in Workers
  PROVE  OnePlace(s, w)' /\ (s # t => Listed(s, w)' = Listed(s, w))
<1> USE DEF IInv, ControlOK
<1> DEFINE old == thread_tasks[w]
           new == thread_tasks'[w]
<1>1. /\ t \notin posted /\ posted' = posted \union {t} /\ ran' = ran /\ own_tasks' = own_tasks
      /\ new = Append(old, t) /\ old \in Seq(AllTasks)
  BY DEF PostTaskToAllWorkers
<1>2. /\ Len(new) = Len(old) + 1 /\ Len(old) \in Nat /\ new[Len(old) + 1] = t
      /\ \A i \in 1 .. Len(old) : new[i] = old[i]
  BY <1>1
<1>3. Taken(s, w)' = Taken(s, w) /\ ran'[s][w] = ran[s][w] /\ OnePlace(s, w)
  BY <1>1 DEF Taken, OwnInv
<1>4. Listed(s, w) = {i \in 1 .. Len(old) : old[i] = s}
      /\ Listed(s, w)' = {i \in 1 .. Len(new) : new[i] = s}
  BY DEF Listed
<1> HIDE DEF old, new
<1>5. 1 .. Len(old) \subseteq 1 .. Len(new) /\ Len(old) + 1 \in 1 .. Len(new)
      /\ \A i \in 1 .. Len(new) : i \in 1 .. Len(old) \/ i = Len(old) + 1
  BY ONLY <1>2
<1>6. CASE s = t
  <2>1. Listed(s, w) = {} /\ Taken(s, w) = {} /\ ran[s][w] = 0
    BY <1>1, <1>3, <1>6 DEF OnePlace
  <2>2. Listed(s, w)' = {Len(old) + 1}
    BY ONLY <1>2, <1>4, <1>5, <1>6, <2>1
  <2>3. IsListed(s, w)'
    BY <1>3, <1>5, <2>1, <2>2 DEF IsListed, new
  <2> QED BY <1>1, <1>6, <2>3 DEF OnePlace
<1>7. CASE s # t
  <2>1. Listed(s, w)' = Listed(s, w)
    BY ONLY <1>2, <1>4, <1>5, <1>7
  <2>2. IsListed(s, w) => IsListed(s, w)'
    BY <1>3, <1>5, <2>1 DEF IsListed, old, new
  <2>3. IsTaken(s, w) => IsTaken(s, w)'
    BY <1>1, <1>3, <2>1 DEF IsTaken
  <2>4. IsRun(s, w) => IsRun(s, w)'
    BY <1>3, <2>1 DEF IsRun
  <2> QED BY <1>1, <1>3, <1>7, <2>1, <2>2, <2>3, <2>4 DEF OnePlace
<1> QED BY <1>6, <1>7

\* TakeWork hands the whole list to a worker that has none of its own left.
LEMMA TakeAllPlaces ==
  ASSUME IInv, OwnInv, NEW v \in Workers, TakeWork(v), NEW s \in AllTasks, NEW w \in Workers
  PROVE  OnePlace(s, w)' /\ Listed(s, v)' = {} /\ (w # v => Listed(s, w)' = Listed(s, w))
<1> USE DEF IInv, ControlOK
<1>1. /\ posted' = posted /\ ran' = ran /\ own_tasks[v] = <<>>
      /\ own_tasks' = [own_tasks EXCEPT ![v] = thread_tasks[v]]
      /\ thread_tasks' = [thread_tasks EXCEPT ![v] = <<>>]
  BY DEF TakeWork, OwnInv, OwnAtWork
<1>2. OnePlace(s, w)
  BY DEF OwnInv
<1>3. Listed(s, v)' = {}
  BY <1>1 DEF Listed
<1>4. CASE w # v
  <2>1. own_tasks'[w] = own_tasks[w] /\ thread_tasks'[w] = thread_tasks[w]
    BY <1>1, <1>4
  <2>2. Listed(s, w)' = Listed(s, w) /\ Taken(s, w)' = Taken(s, w)
    BY <2>1 DEF Listed, Taken
  <2>3. OnePlace(s, w)'
    BY <1>1, <1>2, <2>1, <2>2 DEF OnePlace, IsListed, IsTaken, IsRun
  <2> QED BY <1>3, <2>2, <2>3
<1>5. CASE w = v
  <2>1. own_tasks'[w] = thread_tasks[w] /\ Taken(s, w) = {}
    BY <1>1, <1>5 DEF Taken
  <2>2. Taken(s, w)' = Listed(s, w)
    BY <2>1 DEF Taken, Listed
  <2>3. IsListed(s, w) => IsTaken(s, w)'
    BY <1>1, <1>3, <1>5, <2>1, <2>2 DEF IsListed, IsTaken
  <2>4. IsRun(s, w) => IsRun(s, w)'
    BY <1>1, <1>3, <1>5, <2>2 DEF IsRun
  <2>5. ~IsTaken(s, w)
    BY <2>1 DEF IsTaken
  <2> QED BY <1>1, <1>2, <1>3, <1>5, <2>2, <2>3, <2>4, <2>5 DEF OnePlace
<1> QED BY <1>3, <1>4, <1>5

\* RunThreadTask runs the first of the tasks taken.
LEMMA RunOwnPlaces ==
  ASSUME IInv, RanOK, OwnInv, NEW v \in Workers, RunThreadTask(v),
         NEW s \in AllTasks, NEW w \in Workers
  PROVE  OnePlace(s, w)'
<1> USE DEF IInv, ControlOK
<1> DEFINE old == own_tasks[v]
           new == own_tasks'[v]
<1>0. old \in Seq(AllTasks) /\ old # <<>>
  BY DEF RunThreadTask
<1>1. PICK t \in AllTasks : t = Head(old)
  BY <1>0
<1>2. /\ posted' = posted /\ thread_tasks' = thread_tasks
      /\ ran' = [ran EXCEPT ![t][v] = @ + 1]
      /\ new = Tail(old) /\ \A u \in Workers \ {v} : own_tasks'[u] = own_tasks[u]
  BY <1>1 DEF RunThreadTask, Runs
<1>3. /\ Len(old) \in Nat /\ Len(old) >= 1 /\ old[1] = t /\ Len(new) = Len(old) - 1
      /\ \A i \in 1 .. Len(new) : new[i] = old[i + 1]
  BY <1>0, <1>1, <1>2
<1>4. v \in Threads /\ w \in Threads /\ t \in Tasks /\ s \in Tasks
  BY DEF Threads, Tasks
<1>5. /\ ran'[t][v] = ran[t][v] + 1 /\ ran[t][v] \in Nat
      /\ s # t \/ w # v => ran'[s][w] = ran[s][w]
  BY <1>2, <1>4 DEF RanOK
<1>6. OnePlace(s, w) /\ OnePlace(t, v) /\ Listed(s, w)' = Listed(s, w)
  BY <1>2 DEF OwnInv, Listed
<1>7. CASE w # v
  <2>1. own_tasks'[w] = own_tasks[w] /\ ran'[s][w] = ran[s][w]
    BY <1>2, <1>5, <1>7
  <2>2. Taken(s, w)' = Taken(s, w)
    BY <2>1 DEF Taken
  <2>3. IsListed(s, w)' <=> IsListed(s, w)
    BY <1>2, <1>6, <2>1, <2>2 DEF IsListed
  <2>4. IsTaken(s, w)' <=> IsTaken(s, w)
    BY <1>6, <2>1, <2>2 DEF IsTaken
  <2>5. IsRun(s, w)' <=> IsRun(s, w)
    BY <1>6, <2>1, <2>2 DEF IsRun
  <2> QED BY <1>2, <1>6, <2>1, <2>2, <2>3, <2>4, <2>5 DEF OnePlace
<1> SUFFICES ASSUME w = v PROVE OnePlace(s, v)'
  BY <1>7
<1>8. /\ Taken(s, v) = {i \in 1 .. Len(old) : old[i] = s}
      /\ Taken(s, v)' = {i \in 1 .. Len(new) : new[i] = s}
  BY DEF Taken
<1> HIDE DEF old, new
<1>9. CASE s = t
  <2>1. 1 \in Taken(s, v)
    BY <1>3, <1>8, <1>9
  <2>2. IsTaken(s, v) /\ s \in posted
    BY <1>6, <1>9, <2>1 DEF OnePlace, IsListed, IsRun
  <2>3. Taken(s, v) = {1}
    BY <2>1, <2>2 DEF IsTaken
  <2>4. \A i \in 1 .. Len(old) : old[i] = s => i = 1
    BY <1>8, <2>3
  <2>5. Taken(s, v)' = {}
    BY ONLY <1>3, <1>8, <2>4
  <2>6. IsRun(s, v)'
    BY <1>5, <1>6, <1>9, <2>2, <2>5 DEF IsRun, IsTaken
  <2> QED BY <1>2, <2>2, <2>6 DEF OnePlace
<1>10. CASE s # t
  <2>1. ASSUME Taken(s, v) = {} PROVE Taken(s, v)' = {}
    <3>1. \A i \in 1 .. Len(old) : old[i] # s
      BY <1>8, <2>1
    <3> QED BY ONLY <1>3, <1>8, <3>1
  <2>2. ASSUME NEW i \in 1 .. Len(old), Taken(s, v) = {i}
        PROVE  i - 1 \in 1 .. Len(new) /\ Taken(s, v)' = {i - 1}
    <3>1. old[i] = s /\ \A j \in 1 .. Len(old) : old[j] = s => j = i
      BY <1>8, <2>2
    <3>2. i # 1
      BY <1>3, <1>10, <3>1
    <3>3. i - 1 \in 1 .. Len(new) /\ \A j \in 1 .. Len(new) : new[j] = s <=> j = i - 1
      BY ONLY <1>3, <3>1, <3>2, i \in 1 .. Len(old)
    <3> QED BY ONLY <1>8, <3>3
  <2>3. IsTaken(s, v) => IsTaken(s, v)'
    BY <1>5, <1>6, <1>10, <2>2 DEF IsTaken, old, new
  <2>4. IsListed(s, v) => IsListed(s, v)'
    BY <1>2, <1>5, <1>6, <1>10, <2>1 DEF IsListed
  <2>5. IsRun(s, v) => IsRun(s, v)'
    BY <1>5, <1>6, <1>10, <2>1 DEF IsRun
  <2> QED BY <1>2, <1>5, <1>6, <1>10, <2>1, <2>3, <2>4, <2>5 DEF OnePlace
<1> QED BY <1>9, <1>10

\* The other steps touch no list and run no task for all.
LEMMA OwnUntouched ==
  ASSUME OwnInv, OwnAtWork', UNCHANGED <<thread_tasks, own_tasks, early>>, posted \subseteq posted',
         \A t \in AllTasks : t \in posted' => t \in posted,
         \A t \in AllTasks, w \in Workers : ran'[t][w] = ran[t][w],
         \A w \in Workers : pc'[w] \in {"work", "exited"} /\ shutdown_now'[w] =>
                              pc[w] \in {"work", "exited"} /\ shutdown_now[w]
  PROVE  OwnInv'
<1>1. \A t, w : Listed(t, w)' = Listed(t, w) /\ Taken(t, w)' = Taken(t, w)
  BY DEF Listed, Taken
<1>2. ASSUME NEW t \in AllTasks, NEW w \in Workers PROVE OnePlace(t, w)'
  BY <1>1 DEF OwnInv, OnePlace, IsListed, IsTaken, IsRun
<1>3. LastRound' /\ early' \subseteq posted'
  BY <1>1 DEF OwnInv, LastRound
<1> QED BY <1>2, <1>3 DEF OwnInv

LEMMA OwnStep ==
  ASSUME IInv, IInv', PlaceInv, OwnInv, [Next]_vars
  PROVE  OwnInv'
<1> USE ConcurrentLoopAssumption
<1>0. OwnAtWork' /\ RanOK /\ pc \in [Workers -> {"lock", "asleep", "work", "exited"}]
  BY OwnAtWorkStep DEF OwnInv, PlaceInv, ControlOK
<1>1. ASSUME NEW x \in Threads, NEW t \in AllTasks, PostTaskToAllWorkers(x, t) PROVE OwnInv'
  <2>1. \A s \in AllTasks, w \in Workers :
          OnePlace(s, w)' /\ (s # t => Listed(s, w)' = Listed(s, w))
    BY <1>1, PostAllPlaces
  <2>2. /\ early' = (IF shutdown THEN early ELSE early \union {t}) /\ t \notin posted
        /\ posted' = posted \union {t} /\ UNCHANGED <<shutdown_now, shutdown>>
        /\ \A w \in Workers : pc'[w] \in {"work", "exited"} => pc'[w] = pc[w]
    BY <1>0, <1>1 DEF PostTaskToAllWorkers, WakeAll
  <2>3. ASSUME NEW s \in early', NEW w \in Workers, pc'[w] \in {"work", "exited"}, shutdown_now'[w]
        PROVE  Listed(s, w)' = {}
    <3>1. shutdown /\ s \in early /\ s # t
      BY <2>2, <2>3 DEF IInv, ShutdownWasRead, OwnInv
    <3>2. Listed(s, w) = {}
      BY <2>2, <2>3, <3>1 DEF OwnInv, LastRound
    <3>3. CASE s \in AllTasks
      BY <2>1, <3>1, <3>2, <3>3
    <3>4. CASE s \notin AllTasks
      <4>1. thread_tasks'[w] \in Seq(AllTasks)
        BY DEF IInv, ControlOK
      <4>2. \A i \in 1 .. Len(thread_tasks'[w]) : thread_tasks'[w][i] \in AllTasks
        BY <4>1
      <4> QED BY <3>4, <4>2 DEF Listed
    <3> QED BY <3>3, <3>4
  <2>4. LastRound'
    BY <2>3 DEF LastRound
  <2>5. early' \subseteq posted'
    BY <2>2 DEF OwnInv
  <2> QED BY <1>0, <2>1, <2>4, <2>5 DEF OwnInv
<1>2. ASSUME NEW v \in Workers, TakeWork(v) PROVE OwnInv'
  <2>1. \A s \in AllTasks, w \in Workers : OnePlace(s, w)'
    BY <1>2, TakeAllPlaces
  <2>2. /\ UNCHANGED <<early, posted>> /\ thread_tasks' = [thread_tasks EXCEPT ![v] = <<>>]
        /\ \A w \in Workers \ {v} : pc'[w] = pc[w] /\ shutdown_now'[w] = shutdown_now[w]
    BY <1>2 DEF TakeWork, IInv, ControlOK
  <2>3. ASSUME NEW s \in early', NEW w \in Workers, pc'[w] \in {"work", "exited"}, shutdown_now'[w]
        PROVE  Listed(s, w)' = {}
    <3>1. CASE w = v
      BY <2>2, <3>1 DEF Listed, IInv, ControlOK
    <3>2. CASE w # v
      <4>1. thread_tasks'[w] = thread_tasks[w] /\ Listed(s, w) = {}
        BY <2>2, <2>3, <3>2 DEF IInv, ControlOK, OwnInv, LastRound
      <4> QED BY <4>1 DEF Listed
    <3> QED BY <3>1, <3>2
  <2>4. LastRound' /\ early' \subseteq posted'
    BY <2>2, <2>3 DEF LastRound, OwnInv
  <2> QED BY <1>0, <2>1, <2>4 DEF OwnInv
<1>3. ASSUME NEW v \in Workers, RunThreadTask(v) PROVE OwnInv'
  <2>1. \A s \in AllTasks, w \in Workers : OnePlace(s, w)'
    BY <1>0, <1>3, RunOwnPlaces
  <2>2. UNCHANGED <<early, posted, thread_tasks, pc, shutdown_now>>
    BY <1>3 DEF RunThreadTask
  <2>3. LastRound' /\ early' \subseteq posted'
    BY <2>2 DEF LastRound, OwnInv, Listed
  <2> QED BY <1>0, <2>1, <2>3 DEF OwnInv
<1>4. ASSUME NEW x \in Threads, NEW t \in PoolTasks, PostTask(x, t) PROVE OwnInv'
  <2>1. /\ UNCHANGED <<thread_tasks, own_tasks, early, pc, shutdown_now>>
        /\ posted' = posted \union {t} /\ (ran' = ran \/ Runs(t, x))
    BY <1>4 DEF PostTask
  <2>2. \A s \in AllTasks, w \in Workers : ran'[s][w] = ran[s][w]
    BY <1>0, <2>1 DEF Runs, RanOK, Tasks
  <2> QED BY <1>0, <2>1, <2>2, OwnUntouched
<1>5. ASSUME NEW v \in Workers, RunTask(v) PROVE OwnInv'
  <2>1. /\ UNCHANGED <<thread_tasks, own_tasks, early, posted, pc, shutdown_now>>
        /\ Runs(task[v], v) /\ task[v] \in PoolTasks
    BY <1>5 DEF RunTask, IInv, ControlOK
  <2>2. \A s \in AllTasks, w \in Workers : ran'[s][w] = ran[s][w]
    BY <1>0, <2>1 DEF Runs, RanOK, Tasks
  <2> QED BY <1>0, <2>1, <2>2, OwnUntouched
<1>6. ASSUME NEW x, \/ x \in Threads /\ (NotifyOne(x) \/ Terminate(x))
                    \/ x \in Workers /\ (Sleep(x) \/ SpuriousWakeUp(x) \/ EndRound(x))
                    \/ UNCHANGED vars
      PROVE  OwnInv'
  <2>1. UNCHANGED <<thread_tasks, own_tasks, early, posted, ran, shutdown_now>>
    BY <1>6 DEF NotifyOne, Terminate, Sleep, SpuriousWakeUp, EndRound, vars
  <2>2. \A w \in Workers : pc'[w] \in {"work", "exited"} => pc[w] \in {"work", "exited"}
    BY <1>0, <1>6 DEF NotifyOne, Terminate, WakeAll, Sleep, SpuriousWakeUp, EndRound, vars
  <2> QED BY <1>0, <2>1, <2>2, OwnUntouched
<1> QED BY <1>1, <1>2, <1>3, <1>4, <1>5, <1>6 DEF Next, WorkerStep

\* A task given to PostTaskToAllWorkers is for each worker once in its list, in
\* its hands or run, in a pool of any size, and a worker that has left has run
\* every one that was posted before shutdown.
THEOREM OwnTasksNotLost == Spec => []OwnTasksKept
<1>1. Init => OwnInv
  <2> SUFFICES ASSUME Init PROVE OwnInv
    OBVIOUS
  <2>1. OwnAtWork /\ LastRound /\ early \subseteq posted
    BY DEF Init, OwnAtWork, LastRound
  <2>2. ASSUME NEW t \in AllTasks, NEW w \in Workers PROVE OnePlace(t, w)
    BY DEF Init, OnePlace, Listed, Taken, Tasks, Threads
  <2> QED BY <2>1, <2>2 DEF OwnInv
<1>2. IInv /\ IInv' /\ PlaceInv /\ OwnInv /\ [Next]_vars => OwnInv'
  BY OwnStep
<1>3. IInv /\ OwnInv => OwnTasksKept
  <2> SUFFICES ASSUME IInv, OwnInv, NEW t \in AllTasks, NEW w \in Workers
               PROVE  OnePlace(t, w) /\ (t \in early /\ pc[w] = "exited" => IsRun(t, w))
    BY DEF OwnTasksKept, OnePlace
  <2>1. ASSUME t \in early, pc[w] = "exited" PROVE IsRun(t, w)
    <3>1. shutdown_now[w] /\ own_tasks[w] = <<>> /\ t \in posted
      BY <2>1 DEF IInv, CleanExit, OwnInv
    <3>2. Listed(t, w) = {} /\ Taken(t, w) = {}
      BY <2>1, <3>1 DEF OwnInv, LastRound, Taken
    <3> QED BY <3>1, <3>2 DEF OwnInv, OnePlace, IsListed, IsTaken
  <2> QED BY <2>1 DEF OwnInv
<1> QED BY <1>1, <1>2, <1>3, Invariance, PlacesKept, PTL DEF Spec
=============================================================================
