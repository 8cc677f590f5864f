---------------------------- MODULE MessageLoops ----------------------------
(***************************************************************************)
(* The message loops and their threads around TaskQueues:                  *)
(* base/message_loop_impl.cc, message_loop.cc, task_runner.cc, thread.cc   *)
(* and the platform loop (platform/linux/message_loop_linux.cc, which      *)
(* platform/win/message_loop_win.cc repeats).  Loop q is the loop of       *)
(* fml::Thread q and drains queue q.  The steps of a loop thread, of the   *)
(* threads that post, merge, pause or join, and of the clock interleave.   *)
(*                                                                         *)
(* The build modelled has FML_DCHECK on: a false assertion, like an        *)
(* exception out of std::map::at, ends the process and is recorded in      *)
(* failure.                                                                *)
(***************************************************************************)
EXTENDS TaskQueues

CONSTANTS Posters,        \* threads that call TaskRunner::PostTaskForTime
          Nothing,        \* what a poster that is not posting posts to
          Joinable,       \* bound: the loops whose thread may be joined
          Pausable,       \* bound: the queues whose secondary source is paused
          MaxMerges,      \* bound: successful Merge calls
          Disciplined,    \* clients never merge a loop that is being joined
                          \* and never join one that is merged
          ResumeSubsumed  \* clients may resume a queue while it is subsumed

ASSUME MessageLoopsAssumption ==
  /\ Nothing \notin Queues /\ Joinable \subseteq Queues /\ Pausable \subseteq Queues
  /\ MaxMerges \in Nat /\ Disciplined \in BOOLEAN /\ ResumeSubsumed \in BOOLEAN

VARIABLES now,            \* the clock
          pc,             \* where the thread of a loop is
          from,           \* FlushTasks' now
          terminated,     \* MessageLoopImpl::terminated_
          running,        \* MessageLoopLinux::running_
          posting,        \* loop a poster found not terminated, or Nothing
          joining,        \* progress of Thread::Join
          quitTasks,      \* orders of the tasks that call Terminate
          merges,         \* Merge calls so far
          failure         \* what ended the process, or "none"

loopVars == <<pc, from, terminated, running>>
clientVars == <<posting, joining, quitTasks, merges>>
vars == <<queueVars, now, loopVars, clientVars, failure>>

Alive == failure = "none"

LoopsInit ==
  /\ Init
  /\ now = 0
  /\ pc = [q \in Queues |-> "absent"]
  /\ from = [q \in Queues |-> 0]
  /\ terminated = [q \in Queues |-> FALSE]
  /\ running = [q \in Queues |-> FALSE]
  /\ posting = [p \in Posters |-> Nothing]
  /\ joining = [q \in Queues |-> "no"]
  /\ quitTasks = {} /\ merges = 0
  /\ failure = "none"
-----------------------------------------------------------------------------
(* The thread of loop q.                                                   *)

\* Thread(): the new thread makes its MessageLoop; its creator gets the task
\* runner through the latch only now.
StartThread(q) ==
  /\ pc[q] = "absent"
  /\ CreateTaskQueue(q)
  /\ pc' = [pc EXCEPT ![q] = "start"]
  /\ UNCHANGED <<now, from, terminated, running, clientVars, failure>>

\* DoRun up to the first wait of Run.
DoRun(q) ==
  /\ pc[q] = "start"
  /\ IF terminated[q]
     THEN pc' = [pc EXCEPT ![q] = "done"] /\ UNCHANGED running
     ELSE /\ pc' = [pc EXCEPT ![q] = "wait"]
          /\ running' = [running EXCEPT ![q] = TRUE]
  /\ UNCHANGED <<queueVars, now, from, terminated, clientVars, failure>>

\* The timer expires: TimerDrain, then FlushTasks reads the clock.
OnEventFired(q) ==
  /\ pc[q] = "wait" /\ timer[q] <= now
  /\ timer' = [timer EXCEPT ![q] = Never]
  /\ from' = [from EXCEPT ![q] = now]
  /\ pc' = [pc EXCEPT ![q] = "flush"]
  /\ UNCHANGED <<created, entries, owner_of, subsumed_by, tasks, paused, order,
                 now, terminated, running, clientVars, failure>>

Flushing(q) == pc[q] \in {"flush", "final"}

\* Mutant: the Terminate task leaves running_ on.
FlushTask_keepsRunning(q) ==
  /\ Flushing(q)
  /\ q \in entries /\ HasPendingTasks(q)
  /\ terminated' = [terminated EXCEPT ![q] = @ \/ PeekNextTask(q).order \in quitTasks]
  /\ PopDue(q, from[q])
  /\ UNCHANGED <<running, now, pc, from, clientVars, failure>>

\* FlushTasks runs one more task.  The task of Thread::Join terminates the
\* loop of the thread it runs on: DoTerminate sets terminated_, clears
\* running_ and wakes the loop now.
FlushTask(q) ==
  /\ Flushing(q)
  /\ q \in entries /\ HasPendingTasks(q)
  /\ LET top == PeekNextTask(q)
     IN  /\ top.time <= from[q]
         /\ IF top.order \in quitTasks
            THEN /\ terminated' = [terminated EXCEPT ![q] = TRUE]
                 /\ running' = [running EXCEPT ![q] = FALSE]
                 /\ tasks' = [tasks EXCEPT ![PeekQueue(q)] = @ \ {top}]
                 /\ timer' = [timer EXCEPT ![q] = now]
                 /\ UNCHANGED <<created, entries, owner_of, subsumed_by, paused, order>>
            ELSE PopDue(q, from[q]) /\ UNCHANGED <<terminated, running>>
  /\ UNCHANGED <<now, pc, from, clientVars, failure>>

\* Where FlushTasks returns to: Run's loop, or, when running_ is off, the rest
\* of DoRun, which sets terminated_ and flushes once more.
AfterFlush(q) ==
  IF pc[q] = "flush" /\ ~running[q]
  THEN /\ pc' = [pc EXCEPT ![q] = "final"]
       /\ terminated' = [terminated EXCEPT ![q] = TRUE]
       /\ from' = [from EXCEPT ![q] = now]
  ELSE /\ pc' = [pc EXCEPT ![q] = IF pc[q] = "final" THEN "dispose" ELSE "wait"]
       /\ UNCHANGED <<terminated, from>>

\* FlushTasks finds nothing to run now.
FlushEnds(q) ==
  /\ Flushing(q)
  /\ NothingPending(q) \/ NothingDue(q, from[q])
  /\ AfterFlush(q)
  /\ UNCHANGED <<now, running, clientVars, failure>>

\* Mutant: DoRun ends without DisposeTasks.
FinishRun_keepsTasks(q) ==
  /\ pc[q] = "dispose"
  /\ pc' = [pc EXCEPT ![q] = "done"]
  /\ UNCHANGED <<queueVars, now, from, terminated, running, clientVars, failure>>

\* The end of DoRun: pending tasks are dropped on the loop's thread.
FinishRun(q) ==
  /\ pc[q] = "dispose"
  /\ DisposeTasks(q)
  /\ pc' = [pc EXCEPT ![q] = "done"]
  /\ UNCHANGED <<now, from, terminated, running, clientVars, failure>>

\* Mutant: the loop is destroyed while its thread still drains the queue.
Destroy_early(q) ==
  /\ pc[q] \notin {"absent", "gone"} /\ joining[q] = "posted"
  /\ \A p \in Posters : posting[p] # q
  /\ Dispose(q)
  /\ UNCHANGED <<pc, now, from, terminated, running, clientVars, failure>>

\* The thread is joined and nobody holds the loop's task runner any more.
Released(q) ==
  /\ pc[q] = "done" /\ joining[q] = "posted"
  /\ \A p \in Posters : posting[p] # q

\* ~MessageLoopImpl
Destroy(q) ==
  /\ Released(q)
  /\ Dispose(q)
  /\ pc' = [pc EXCEPT ![q] = "gone"]
  /\ UNCHANGED <<now, from, terminated, running, clientVars, failure>>

\* Dispose and DisposeTasks end the process for a queue that was erased
\* (std::map::at throws) or that another one has subsumed (FML_DCHECK).
Undisposable(q) == q \notin entries \/ IsSubsumed(q)

Fails(q) ==
  /\ failure' = IF q \in entries THEN "dcheck" ELSE "out_of_range"
  /\ UNCHANGED <<queueVars, now, loopVars, clientVars>>

\* A step of the loop that finds its queue erased, or that cannot dispose of
\* its tasks.
LoopFails(q) ==
  /\ \/ Flushing(q) /\ q \notin entries
     \/ pc[q] = "dispose" /\ Undisposable(q)
  /\ Fails(q)

\* ~MessageLoopImpl of a loop whose queue cannot be disposed of.
DestroyFails(q) == Released(q) /\ Undisposable(q) /\ Fails(q)
-----------------------------------------------------------------------------
(* Other threads.                                                          *)

\* A task runner is in other hands once the loop's thread has signalled the
\* latch, and until ~MessageLoopImpl.
Reachable(q) == pc[q] \notin {"absent", "gone"}

\* A post may begin when the bound on tasks has room for it, for the posts
\* under way and for the Terminate tasks still to come.
RoomToPost ==
  order + Cardinality({p \in Posters : posting[p] # Nothing})
        + Cardinality({q \in Joinable : joining[q] # "posted"}) < MaxTasks

\* PostTask reads terminated_ without a lock; a terminated loop refuses.
PostTaskCheck(p, q) ==
  /\ posting[p] = Nothing /\ Reachable(q) /\ RoomToPost
  /\ ~terminated[q]
  /\ posting' = [posting EXCEPT ![p] = q]
  /\ UNCHANGED <<queueVars, now, loopVars, joining, quitTasks, merges, failure>>

PostTaskRegister(p, time) ==
  /\ posting[p] # Nothing
  /\ RegisterTask(posting[p], time, Primary)
  /\ posting' = [posting EXCEPT ![p] = Nothing]
  /\ UNCHANGED <<now, loopVars, joining, quitTasks, merges, failure>>

\* Thread::Join: the same two halves of PostTask for the Terminate task; what
\* follows is the wait for the thread.  joined_ makes it happen once.
Join(q) ==
  /\ q \in Joinable /\ joining[q] = "no" /\ Reachable(q)
  /\ Disciplined => ~Owns(q) /\ ~IsSubsumed(q)
  /\ joining' = [joining EXCEPT ![q] = IF terminated[q] THEN "posted" ELSE "posting"]
  /\ UNCHANGED <<queueVars, now, loopVars, posting, quitTasks, merges, failure>>

JoinRegister(q) ==
  /\ joining[q] = "posting"
  /\ RegisterTask(q, now, Primary)
  /\ quitTasks' = quitTasks \union {order}
  /\ joining' = [joining EXCEPT ![q] = "posted"]
  /\ UNCHANGED <<now, loopVars, posting, merges, failure>>

\* The second half of PostTask finds the queue erased: std::map::at throws.
PostFails(q) ==
  /\ q \notin entries
  /\ joining[q] = "posting" \/ \E p \in Posters : posting[p] = q
  /\ Fails(q)

\* Microtasks are registered with the queue directly.
RegisterMicroTask(q, time) ==
  /\ Reachable(q) /\ RoomToPost
  /\ RegisterTask(q, time, Secondary)
  /\ UNCHANGED <<now, loopVars, clientVars, failure>>

PauseResume(q) ==
  /\ Reachable(q) /\ q \in Pausable
  /\ \/ PauseSecondarySource(q)
     \/ (IsSubsumed(q) => ResumeSubsumed) /\ ResumeSecondarySource(q)
  /\ UNCHANGED <<now, loopVars, clientVars, failure>>

MergeLoops(owner, subsumed) ==
  /\ merges < MaxMerges
  /\ Disciplined => joining[owner] = "no" /\ joining[subsumed] = "no"
  /\ Merge(owner, subsumed)
  /\ merges' = merges + 1
  /\ UNCHANGED <<now, loopVars, posting, joining, quitTasks, failure>>

UnmergeLoops(owner) ==
  /\ Unmerge(owner)
  /\ UNCHANGED <<now, loopVars, clientVars, failure>>

Tick == /\ now < MaxTime /\ now' = now + 1
        /\ UNCHANGED <<queueVars, loopVars, clientVars, failure>>

LoopStep(q) ==
  Alive /\ \/ DoRun(q) \/ OnEventFired(q) \/ FlushTask(q) \/ FlushEnds(q)
           \/ FinishRun(q) \/ LoopFails(q)

ClientStep ==
  \/ \E q \in Queues : \/ StartThread(q) \/ Join(q)
                       \/ Destroy(q) \/ DestroyFails(q)
                       \/ PauseResume(q) \/ UnmergeLoops(q)
                       \/ \E s \in Queues : MergeLoops(q, s)
                       \/ \E time \in Times : RegisterMicroTask(q, time)
  \/ \E p \in Posters, q \in Queues : PostTaskCheck(p, q)

\* A thread inside PostTask does not stop there.
PostStep ==
  \/ \E p \in Posters, time \in Times : PostTaskRegister(p, time)
  \/ \E q \in Queues : JoinRegister(q) \/ PostFails(q)

LoopsNext ==
  \/ \E q \in Queues : LoopStep(q)
  \/ Alive /\ (ClientStep \/ PostStep \/ Tick)

\* Threads are scheduled and time passes; clients need do nothing.
Fairness ==
  /\ \A q \in Queues : WF_vars(LoopStep(q))
  /\ WF_vars(Alive /\ PostStep)
  /\ WF_vars(Alive /\ Tick)

LoopsSpec == LoopsInit /\ [][LoopsNext]_vars
FairLoopsSpec == LoopsSpec /\ Fairness
-----------------------------------------------------------------------------
\* No lost wake-up: a loop that sleeps while it has something to run is woken
\* no later than its earliest task is due, whatever was registered, merged,
\* unmerged, paused or resumed since it went to sleep ("Schedule a wake as
\* needed").
NoOversleep ==
  \A q \in entries :
    pc[q] \in {"start", "wait"} /\ ~IsSubsumed(q) =>
      \A t \in Runnable(q) : timer[q] <= t.time

\* A loop never touches a queue that was erased under it and never disposes of
\* one that another loop is draining, nor do the destructor of the loop and the
\* threads that post to it.
NoFailure == failure = "none"

\* Every task that is in a loop's queue before DoRun is over is run or dropped,
\* by the loop or by the one that subsumed it ("Check if there are expired
\* tasks", "Drop all pending tasks on the floor"): being merged, unmerged,
\* joined or terminated meanwhile strands none.
TasksAreHandled ==
  \A q \in Queues : \A n \in 0 .. MaxTasks - 1 :
    (pc[q] # "done" /\ \E t \in tasks[q] : t.order = n /\ t.grade = Primary)
      ~> \A t \in tasks[q] : t.order # n

\* Thread::Join returns: the Terminate task ends the loop it was posted to.
JoinReturns ==
  \A q \in Queues : joining[q] # "no" ~> pc[q] \in {"done", "gone"}
=============================================================================
