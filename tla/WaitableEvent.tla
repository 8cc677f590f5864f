---------------------------- MODULE WaitableEvent ----------------------------
(***************************************************************************)
(* base/synchronization/waitable_event.cc and count_down_latch.cc: the     *)
(* events threads hand over with.  A behaviour has one event, of one of    *)
(* three kinds: AutoResetWaitableEvent ("auto"), ManualResetWaitableEvent  *)
(* ("manual"), or the manual one inside a CountDownLatch ("latch").        *)
(*                                                                         *)
(* What a thread does between two points where it can lose the mutex is    *)
(* one action.  Signal() notifies while it holds the mutex, so it is two.  *)
(* std::condition_variable may wake a waiter for no reason, and wait_for   *)
(* may report a timeout to a waiter that was notified.  The timeouts       *)
(* themselves are left out: a timed waiter may time out at any time.       *)
(***************************************************************************)
EXTENDS Naturals, FiniteSets

CONSTANTS Threads,
          NoThread,       \* the mutex is free
          Ids,            \* signal_id_ is a number modulo Ids, 2^32 in the code
          MaxCount,       \* the largest count of a CountDownLatch
          MaxSignals,     \* bound: calls of Signal
          MaxResets,      \* bound: calls of Reset
          MaxWaits        \* bound: calls of Wait and WaitWithTimeout

ASSUME EventAssumption ==
  /\ NoThread \notin Threads
  /\ {Ids, MaxCount, MaxSignals, MaxResets, MaxWaits} \subseteq Nat
  /\ MaxSignals < Ids     \* no waiter sleeps through as many signals

VARIABLES kind,
          signaled,       \* signaled_
          signal_id,      \* signal_id_
          mutex,          \* the thread inside Signal, or NoThread
          count,          \* CountDownLatch::count_
          pc,             \* "idle" outside; "asleep" and "woken" in a wait;
                          \* "notify" and, in CountDown, "zero"
          timed,          \* the wait is WaitWithTimeout
          last,           \* last_signal_id
          alive,          \* the event was not destroyed
          signals, resets, waits,
          released,       \* waits that returned because of a signal
          owed,           \* threads in a wait since before the latest Signal
          swallowed       \* a waiter took the notification and timed out

state == <<signaled, signal_id, mutex, count>>
calls == <<pc, timed, last>>
bounds == <<signals, resets, waits>>
vars == <<kind, state, calls, alive, bounds, released, owed, swallowed>>

Waiting(t) == pc[t] \in {"asleep", "woken"}

\* The constructors: a latch for nothing is open at once.
Init ==
  /\ kind \in {"auto", "manual", "latch"}
  /\ count \in IF kind = "latch" THEN 0 .. MaxCount ELSE {0}
  /\ signaled = (kind = "latch" /\ count = 0)
  /\ signal_id = IF signaled THEN 1 ELSE 0
  /\ signals = IF signaled THEN 1 ELSE 0
  /\ mutex = NoThread /\ alive = TRUE
  /\ pc = [t \in Threads |-> "idle"]
  /\ timed = [t \in Threads |-> FALSE]
  /\ last = [t \in Threads |-> 0]
  /\ resets = 0 /\ waits = 0 /\ released = 0 /\ owed = {} /\ swallowed = FALSE
-----------------------------------------------------------------------------
Free == mutex = NoThread
Calls(t) == pc[t] = "idle" /\ alive

\* Mutant: the mutex is released before the notification.
SignalLock_unlocks(t) ==
  /\ Free
  /\ signaled' = TRUE
  /\ signal_id' = IF kind = "auto" THEN signal_id ELSE (signal_id + 1) % Ids
  /\ pc' = [pc EXCEPT ![t] = "notify"]
  /\ signals' = signals + 1
  /\ owed' = {u \in Threads : Waiting(u)}
  /\ UNCHANGED <<kind, mutex, count, timed, last, alive, resets, waits,
                 released, swallowed>>

\* Signal() up to the notification.
SignalLock(t) ==
  /\ Free /\ mutex' = t
  /\ signaled' = TRUE
  /\ signal_id' = IF kind = "auto" THEN signal_id ELSE (signal_id + 1) % Ids
  /\ pc' = [pc EXCEPT ![t] = "notify"]
  /\ signals' = signals + 1
  /\ owed' = {u \in Threads : Waiting(u)}
  /\ UNCHANGED <<kind, count, timed, last, alive, resets, waits, released, swallowed>>

Signal(t) == Calls(t) /\ kind # "latch" /\ signals < MaxSignals /\ SignalLock(t)

\* notify_one wakes one waiter, notify_all every one.
Wakes(u) ==
  [t \in Threads |-> IF pc[t] = "asleep" /\ (kind # "auto" \/ t = u) THEN "woken" ELSE pc[t]]

\* The rest of Signal(): some waiter, or all, and the mutex.
Notify(t) ==
  /\ pc[t] = "notify"
  /\ \E u \in Threads :
       /\ (\E v \in Threads : pc[v] = "asleep") => pc[u] = "asleep"
       /\ pc' = [Wakes(u) EXCEPT ![t] = "idle"]
  /\ mutex' = NoThread
  /\ UNCHANGED <<kind, signaled, signal_id, count, timed, last, alive, bounds,
                 released, owed, swallowed>>

Reset(t) ==
  /\ Calls(t) /\ kind # "latch" /\ Free /\ resets < MaxResets
  /\ signaled' = FALSE
  /\ resets' = resets + 1
  /\ UNCHANGED <<kind, signal_id, mutex, count, calls, alive, signals, waits,
                 released, owed, swallowed>>

\* Mutant: the last CountDown but one opens the latch.
Zero_early(n) == n <= 1

Zero(n) == n = 0

\* CountDownLatch::CountDown, up to the Signal.  Nobody counts below 0.
CountDown(t) ==
  /\ Calls(t) /\ kind = "latch" /\ count > 0                    \* caller
  /\ count' = count - 1
  /\ pc' = [pc EXCEPT ![t] = IF Zero(count') THEN "zero" ELSE "idle"]
  /\ UNCHANGED <<kind, signaled, signal_id, mutex, timed, last, alive, bounds,
                 released, owed, swallowed>>

SignalLatch(t) == pc[t] = "zero" /\ SignalLock(t)
-----------------------------------------------------------------------------
\* Mutant: WaitWithTimeout leaves the event signaled.
Return_signaled(t) ==
  /\ pc' = [pc EXCEPT ![t] = "idle"]
  /\ signaled' = (signaled /\ (kind # "auto" \/ timed[t]))
  /\ released' = released + 1 /\ owed' = owed \ {t}

\* A wait returns because of a signal, which an auto-reset event consumes.
Return(t) ==
  /\ pc' = [pc EXCEPT ![t] = "idle"]
  /\ signaled' = (signaled /\ kind # "auto")
  /\ released' = released + 1 /\ owed' = owed \ {t}

\* Mutant: the wait begins without a look at signaled_.
Wait_unchecked(t, timeout) ==
  /\ Calls(t) /\ Free /\ waits < MaxWaits /\ waits' = waits + 1
  /\ timed' = [timed EXCEPT ![t] = timeout]
  /\ last' = [last EXCEPT ![t] = signal_id]
  /\ pc' = [pc EXCEPT ![t] = "asleep"]
  /\ UNCHANGED <<kind, signaled, signal_id, mutex, count, alive, signals, resets,
                 released, owed, swallowed>>

\* Wait and WaitWithTimeout up to where they sleep.  The latch has no timed
\* wait.
Wait(t, timeout) ==
  /\ Calls(t) /\ Free /\ waits < MaxWaits /\ waits' = waits + 1
  /\ timeout => kind # "latch"
  /\ timed' = [timed EXCEPT ![t] = timeout]
  /\ last' = [last EXCEPT ![t] = signal_id]
  /\ IF signaled THEN Return(t)
     ELSE /\ pc' = [pc EXCEPT ![t] = "asleep"]
          /\ UNCHANGED <<signaled, released, owed>>
  /\ UNCHANGED <<kind, signal_id, mutex, count, alive, signals, resets, swallowed>>

\* Mutant: a woken waiter looks at signaled_ only.
Satisfied_flag(t) == signaled

\* What a woken waiter tests.
Satisfied(t) ==
  \/ kind = "auto" /\ signaled
  \/ kind # "auto" /\ signal_id # last[t]
  \/ kind # "auto" /\ timed[t] /\ signaled

\* The waiter has the mutex again: it returns, or the wake-up was not for it.
Wake(t) ==
  /\ pc[t] = "woken" /\ Free
  /\ IF Satisfied(t) THEN Return(t)
     ELSE /\ pc' = [pc EXCEPT ![t] = "asleep"]
          /\ UNCHANGED <<signaled, released, owed>>
  /\ UNCHANGED <<kind, signal_id, mutex, count, timed, last, alive, bounds, swallowed>>

\* WaitWithTimeout returns true: wait_for reported a timeout, whether or not
\* the waiter was notified too, or the wake-up came too late.
TimeOut(t) ==
  /\ Waiting(t) /\ timed[t] /\ Free
  /\ pc' = [pc EXCEPT ![t] = "idle"] /\ owed' = owed \ {t}
  /\ swallowed' = (swallowed \/ (pc[t] = "woken" /\ signaled))
  /\ UNCHANGED <<kind, state, timed, last, alive, bounds, released>>

SpuriousWakeUp(t) ==
  /\ pc[t] = "asleep"
  /\ pc' = [pc EXCEPT ![t] = "woken"]
  /\ UNCHANGED <<kind, state, timed, last, alive, bounds, released, owed, swallowed>>

\* Thread's constructor and the users of a latch keep the event on the stack:
\* it is gone when their wait has returned.  They expect one Signal and no
\* other waiter.
Destroy ==
  /\ alive /\ signals = 1 /\ released > 0
  /\ kind = "latch" => count = 0
  /\ \A t \in Threads : ~Waiting(t)
  /\ alive' = FALSE
  /\ UNCHANGED <<kind, state, calls, bounds, released, owed, swallowed>>

Step(t) == Notify(t) \/ SignalLatch(t) \/ Wake(t) \/ TimeOut(t)

Next ==
  \/ \E t \in Threads :
       \/ Signal(t) \/ Reset(t) \/ CountDown(t)
       \/ \E timeout \in BOOLEAN : Wait(t, timeout)
       \/ SpuriousWakeUp(t)
       \/ Step(t)
  \/ Destroy

\* A thread inside a call goes on, and timeouts expire; nobody has to call.
Spec == Init /\ [][Next]_vars /\ \A t \in Threads : WF_vars(Step(t))
-----------------------------------------------------------------------------
\* "Each Signal() unblocks exactly one Wait()": of an auto-reset event no more
\* waits return than there were signals, the pending one included.
OneWaitPerSignal ==
  kind = "auto" => released + (IF signaled THEN 1 ELSE 0) <= signals

\* No lost wake-up: while an auto-reset event is signaled nobody sleeps in
\* Wait() unless a thread is on its way that will take the signal or notify.
\* A timed waiter that took the notification and then timed out is the one
\* that does not keep this.
SignalIsTaken ==
  kind = "auto" /\ signaled /\ ~swallowed =>
    \A t \in Threads : pc[t] = "asleep" =>
      \E u \in Threads : pc[u] \in {"woken", "notify"}

\* "A waiting thread knows it was awoken if signal_id_ is different": every
\* thread that waits when a manual-reset event is signaled returns, also when
\* Reset() is called before it runs; a latch lets everybody go once the count
\* is 0.
WaitersReleased ==
  \A t \in Threads :
    kind # "auto" /\ Waiting(t) /\ (t \in owed \/ (kind = "latch" /\ count = 0))
      ~> ~Waiting(t)

\* CountDownLatch::Wait never returns before the last CountDown.
LatchWaitsForAll == kind = "latch" /\ count > 0 => released = 0 /\ ~signaled

\* Who returns from the wait may destroy the event or the latch: the thread
\* that signaled it does not touch it any more.
NotUsedAfterWait == ~alive => \A t \in Threads : pc[t] = "idle"
=============================================================================
