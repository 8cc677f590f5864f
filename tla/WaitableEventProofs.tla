------------------------ MODULE WaitableEventProofs ------------------------
(***************************************************************************)
(* For any number of threads, calls and counts: an auto-reset event is     *)
(* neither taken more often than it was signaled nor slept through, a      *)
(* latch does not open early, and who returns from a wait may destroy the  *)
(* event.  The inductive invariant says who is inside Signal, that nothing *)
(* a wait could take for a signal is there before the first one, and that  *)
(* a latch is signaled by the one thread that counted down to 0.           *)
(***************************************************************************)
EXTENDS WaitableEvent, TLAPS

Types ==
  /\ kind \in {"auto", "manual", "latch"}
  /\ signaled \in BOOLEAN /\ swallowed \in BOOLEAN /\ alive \in BOOLEAN
  /\ count \in Nat /\ signals \in Nat /\ released \in Nat /\ signal_id \in Nat
  /\ pc \in [Threads -> {"idle", "asleep", "woken", "notify", "zero"}]
  /\ timed \in [Threads -> BOOLEAN]
  /\ last \in [Threads -> Nat]

\* The mutex belongs to the thread inside Signal.
Inside == \A t \in Threads : pc[t] = "notify" <=> mutex = t

\* Before the first Signal nothing looks like one.
Quiet == signals = 0 => /\ released = 0 /\ ~signaled /\ signal_id = 0
                        /\ \A t \in Threads : last[t] = 0

\* Nobody returns while the first Signal still has the mutex.
First == signals = 1 => \A t \in Threads : pc[t] = "notify" => released = 0

\* One thread counted down to 0, and a latch above 0 was never signaled.
Last ==
  /\ kind = "latch" /\ count > 0 => signals = 0
  /\ \A t \in Threads : pc[t] = "zero" => kind = "latch" /\ count = 0 /\ signals = 0
  /\ \A t, u \in Threads : pc[t] = "zero" /\ pc[u] = "zero" => t = u

IInv == Types /\ Inside /\ Quiet /\ First /\ Last
-----------------------------------------------------------------------------
\* The signal of SignalLock is the first one, or comes after one: what Signal
\* does to each part of the invariant, whoever calls it.
LEMMA SignalKeepsIInv ==
  ASSUME IInv, NEW t \in Threads, SignalLock(t),
         pc[t] = "zero" \/ (pc[t] = "idle" /\ kind # "latch")
  PROVE  IInv'
<1> USE EventAssumption
<1>1. Types'
  <2>1. (signal_id + 1) % Ids \in Nat
    <3>1. Ids \in Nat \ {0} /\ signal_id + 1 \in Nat
      BY DEF IInv, Types
    <3> QED BY <3>1
  <2> QED BY <2>1 DEF IInv, Types, SignalLock
<1>2. Inside'
  BY DEF IInv, Types, Inside, SignalLock, Free
<1>3. Quiet'
  BY DEF IInv, Types, Quiet, SignalLock
<1>4. First'
  BY DEF IInv, Types, Quiet, First, SignalLock
<1>5. Last'
  BY DEF IInv, Types, Last, SignalLock
<1> QED BY <1>1, <1>2, <1>3, <1>4, <1>5 DEF IInv

\* A wait that returns found a signal, so there was one; it has the mutex, so
\* nobody is inside Signal.
LEMMA ReturnKeepsIInv ==
  ASSUME IInv, NEW t \in Threads, Free, Return(t), signals # 0,
         pc[t] \in {"idle", "woken"},
         UNCHANGED <<kind, signal_id, mutex, count, alive, signals, swallowed>>,
         timed' \in [Threads -> BOOLEAN], last' \in [Threads -> Nat]
  PROVE  IInv'
<1> USE EventAssumption
<1>1. Types'
  <2>1. signaled' \in BOOLEAN
    BY DEF Return
  <2>2. released' \in Nat /\ pc' \in [Threads -> {"idle", "asleep", "woken", "notify", "zero"}]
    BY DEF IInv, Types, Return
  <2> QED BY <2>1, <2>2 DEF IInv, Types
<1>2. Inside'
  BY DEF IInv, Types, Inside, Return, Free
<1>3. Quiet' /\ First' /\ Last'
  BY DEF IInv, Types, Inside, Free, Quiet, First, Last, Return
<1> QED BY <1>1, <1>2, <1>3 DEF IInv

\* The steps of a waiter that do not return because of a signal: it falls
\* asleep, wakes up, or times out.
LEMMA WaiterKeepsIInv ==
  ASSUME IInv, NEW t \in Threads, NEW p \in {"idle", "asleep", "woken"},
         pc[t] \in {"idle", "asleep", "woken"}, pc' = [pc EXCEPT ![t] = p],
         UNCHANGED <<kind, signaled, signal_id, mutex, count, alive, signals, released>>,
         swallowed' \in BOOLEAN, timed' \in [Threads -> BOOLEAN],
         last' \in [Threads -> Nat], signals = 0 => \A u \in Threads : last'[u] = 0
  PROVE  IInv'
<1>1. Types' /\ Inside' /\ Quiet'
  BY DEF IInv, Types, Inside, Quiet
<1>2. First' /\ Last'
  BY DEF IInv, Types, First, Last
<1> QED BY <1>1, <1>2 DEF IInv

\* The invariant holds at first and is kept by every step of every thread.
THEOREM Invariance == Spec => []IInv
<1>1. Init => IInv
  <2> SUFFICES ASSUME Init PROVE IInv
    OBVIOUS
  <2>1. signaled \in BOOLEAN /\ (signaled => signals = 1) /\ (count # 0 => signals = 0)
    BY DEF Init
  <2>2. count \in Nat /\ signals \in Nat /\ signal_id \in Nat
    BY EventAssumption DEF Init
  <2>3. Types
    BY <2>1, <2>2 DEF Init, Types
  <2>4. Inside /\ First
    BY EventAssumption DEF Init, Inside, First
  <2>5. Quiet
    BY <2>1 DEF Init, Quiet
  <2>6. Last
    <3>1. count > 0 => signals = 0
      BY <2>1, <2>2
    <3>2. \A t \in Threads : pc[t] # "zero"
      BY DEF Init
    <3> QED BY <3>1, <3>2 DEF Last
  <2> QED BY <2>3, <2>4, <2>5, <2>6 DEF IInv
<1>2. IInv /\ [Next]_vars => IInv'
  <2> SUFFICES ASSUME IInv, [Next]_vars PROVE IInv'
    OBVIOUS
  <2> USE EventAssumption
  <2>1. ASSUME NEW t \in Threads, Signal(t) PROVE IInv'
    BY <2>1, SignalKeepsIInv DEF Signal, Calls
  <2>2. ASSUME NEW t \in Threads, SignalLatch(t) PROVE IInv'
    BY <2>2, SignalKeepsIInv DEF SignalLatch
  <2>3. ASSUME NEW t \in Threads, Reset(t) PROVE IInv'
    BY <2>3 DEF Reset, calls, IInv, Types, Inside, Quiet, First, Last
  <2>4. ASSUME NEW t \in Threads, CountDown(t) PROVE IInv'
    <3>1. Types' /\ Inside'
      BY <2>4 DEF CountDown, Calls, bounds, IInv, Types, Inside
    <3>2. Quiet' /\ First'
      BY <2>4 DEF CountDown, Calls, bounds, IInv, Types, Quiet, First
    <3>3. Last'
      BY <2>4 DEF CountDown, Calls, Zero, bounds, IInv, Types, Last
    <3> QED BY <3>1, <3>2, <3>3 DEF IInv
  <2>5. ASSUME NEW t \in Threads, NEW timeout \in BOOLEAN, Wait(t, timeout) PROVE IInv'
    <3>1. /\ timed' \in [Threads -> BOOLEAN] /\ last' \in [Threads -> Nat]
          /\ signals = 0 => \A u \in Threads : last'[u] = 0
      BY <2>5 DEF Wait, IInv, Types, Quiet
    <3>2. CASE signaled
      <4>1. signals # 0 /\ pc[t] = "idle" /\ Free /\ Return(t)
        BY <2>5, <3>2 DEF Wait, Calls, IInv, Quiet
      <4> QED BY <2>5, <3>1, <4>1, ReturnKeepsIInv DEF Wait
    <3>3. CASE ~signaled
      <4>1. pc[t] = "idle" /\ pc' = [pc EXCEPT ![t] = "asleep"]
        BY <2>5, <3>3 DEF Wait, Calls
      <4>2. UNCHANGED <<kind, signaled, signal_id, mutex, count, alive, signals, released>>
        BY <2>5, <3>3 DEF Wait
      <4>3. swallowed' \in BOOLEAN
        BY <2>5 DEF Wait, IInv, Types
      <4> QED BY <3>1, <4>1, <4>2, <4>3, WaiterKeepsIInv
    <3> QED BY <3>2, <3>3
  <2>6. ASSUME NEW t \in Threads, Wake(t) PROVE IInv'
    <3>1. /\ timed' \in [Threads -> BOOLEAN] /\ last' \in [Threads -> Nat]
          /\ signals = 0 => \A u \in Threads : last'[u] = 0
      BY <2>6 DEF Wake, IInv, Types, Quiet
    <3>2. CASE Satisfied(t)
      <4>1. signals # 0
        BY <3>2 DEF Satisfied, IInv, Quiet
      <4>2. pc[t] = "woken" /\ Free /\ Return(t)
        BY <2>6, <3>2 DEF Wake
      <4> QED BY <2>6, <3>1, <4>1, <4>2, ReturnKeepsIInv DEF Wake, bounds
    <3>3. CASE ~Satisfied(t)
      <4>1. pc[t] = "woken" /\ pc' = [pc EXCEPT ![t] = "asleep"]
        BY <2>6, <3>3 DEF Wake
      <4>2. UNCHANGED <<kind, signaled, signal_id, mutex, count, alive, signals, released>>
        BY <2>6, <3>3 DEF Wake, bounds
      <4>3. swallowed' \in BOOLEAN
        BY <2>6 DEF Wake, IInv, Types
      <4> QED BY <3>1, <4>1, <4>2, <4>3, WaiterKeepsIInv
    <3> QED BY <3>2, <3>3
  <2>7. ASSUME NEW t \in Threads, TimeOut(t) PROVE IInv'
    <3>1. pc[t] \in {"asleep", "woken"} /\ pc' = [pc EXCEPT ![t] = "idle"]
      BY <2>7 DEF TimeOut, Waiting
    <3>2. UNCHANGED <<kind, signaled, signal_id, mutex, count, alive, signals, released,
                      timed, last>>
      BY <2>7 DEF TimeOut, state, bounds
    <3>3. swallowed' \in BOOLEAN
      BY <2>7 DEF TimeOut, IInv, Types
    <3>4. /\ timed' \in [Threads -> BOOLEAN] /\ last' \in [Threads -> Nat]
          /\ signals = 0 => \A u \in Threads : last'[u] = 0
      BY <3>2 DEF IInv, Types, Quiet
    <3> QED BY <3>1, <3>2, <3>3, <3>4, WaiterKeepsIInv
  <2>8. ASSUME NEW t \in Threads, SpuriousWakeUp(t) PROVE IInv'
    <3>1. pc[t] = "asleep" /\ pc' = [pc EXCEPT ![t] = "woken"]
      BY <2>8 DEF SpuriousWakeUp
    <3>2. UNCHANGED <<kind, signaled, signal_id, mutex, count, alive, signals, released,
                      timed, last, swallowed>>
      BY <2>8 DEF SpuriousWakeUp, state, bounds
    <3>3. /\ timed' \in [Threads -> BOOLEAN] /\ last' \in [Threads -> Nat]
          /\ swallowed' \in BOOLEAN
          /\ signals = 0 => \A u \in Threads : last'[u] = 0
      BY <3>2 DEF IInv, Types, Quiet
    <3> QED BY <3>1, <3>2, <3>3, WaiterKeepsIInv
  <2>9. ASSUME NEW t \in Threads, Notify(t) PROVE IInv'
    <3>1. PICK u \in Threads : pc' = [Wakes(u) EXCEPT ![t] = "idle"]
      BY <2>9 DEF Notify
    <3>2. Types'
      BY <2>9, <3>1 DEF Notify, Wakes, bounds, IInv, Types
    <3>3. \A v \in Threads : pc'[v] # "notify" /\ (pc'[v] = "zero" => pc[v] = "zero")
      BY <2>9, <3>1 DEF Notify, Wakes, IInv, Types, Inside
    <3>4. Inside'
      BY <2>9, <3>3 DEF Notify, Inside
    <3>5. Quiet' /\ First' /\ Last'
      BY <2>9, <3>3 DEF Notify, bounds, IInv, Quiet, First, Last
    <3> QED BY <3>2, <3>4, <3>5 DEF IInv
  <2>10. CASE Destroy
    BY <2>10 DEF Destroy, state, calls, bounds, IInv, Types, Inside, Quiet, First, Last
  <2>11. CASE UNCHANGED vars
    BY <2>11 DEF vars, state, calls, bounds, IInv, Types, Inside, Quiet, First, Last
  <2> QED BY <2>1, <2>2, <2>3, <2>4, <2>5, <2>6, <2>7, <2>8, <2>9, <2>10, <2>11
          DEF Next, Step
<1> QED BY <1>1, <1>2, PTL DEF Spec
-----------------------------------------------------------------------------
\* "Each Signal() unblocks exactly one Wait()": a wait that returns takes the
\* signal with it.
THEOREM OneWait == Spec => []OneWaitPerSignal
<1>1. Init => OneWaitPerSignal
  BY DEF Init, OneWaitPerSignal
<1>2. IInv /\ OneWaitPerSignal /\ [Next]_vars => OneWaitPerSignal'
  <2> SUFFICES ASSUME IInv, OneWaitPerSignal, [Next]_vars, kind' = "auto"
               PROVE  released' + (IF signaled' THEN 1 ELSE 0) <= signals'
    BY DEF OneWaitPerSignal
  <2> USE DEF IInv, Types, OneWaitPerSignal
  <2>1. ASSUME NEW t \in Threads, SignalLock(t)
        PROVE  released' + (IF signaled' THEN 1 ELSE 0) <= signals'
    <3>1. released <= signals /\ kind = "auto"
      BY <2>1 DEF SignalLock
    <3> QED BY <2>1, <3>1 DEF SignalLock
  <2>2. ASSUME NEW t \in Threads, Return(t), signaled, kind' = kind, signals' = signals
        PROVE  released' + (IF signaled' THEN 1 ELSE 0) <= signals'
    <3>1. released + 1 <= signals /\ released' = released + 1
      BY <2>2 DEF Return
    <3>2. ~signaled'
      BY <2>2 DEF Return
    <3> QED BY <2>2, <3>1, <3>2
  <2>3. CASE released' = released /\ signals' = signals /\ (signaled' => signaled) /\ kind' = kind
    BY <2>3
  <2>4. ASSUME NEW t \in Threads, NEW timeout \in BOOLEAN, Wait(t, timeout)
        PROVE  released' + (IF signaled' THEN 1 ELSE 0) <= signals'
    BY <2>2, <2>3, <2>4 DEF Wait
  <2>5. ASSUME NEW t \in Threads, Wake(t)
        PROVE  released' + (IF signaled' THEN 1 ELSE 0) <= signals'
    BY <2>2, <2>3, <2>5 DEF Wake, Satisfied, bounds
  <2>6. ASSUME NEW t \in Threads, Reset(t) \/ CountDown(t) \/ SpuriousWakeUp(t) \/ Notify(t)
                                   \/ TimeOut(t)
        PROVE  released' + (IF signaled' THEN 1 ELSE 0) <= signals'
    BY <2>3, <2>6 DEF Reset, CountDown, SpuriousWakeUp, Notify, TimeOut, state, bounds
  <2>7. CASE Destroy \/ UNCHANGED vars
    BY <2>3, <2>7 DEF Destroy, vars, state, bounds
  <2> QED BY <2>1, <2>4, <2>5, <2>6, <2>7 DEF Next, Step, Signal, SignalLatch
<1> QED BY <1>1, <1>2, Invariance, PTL DEF Spec

\* No lost wake-up: a thread that sleeps while an auto-reset event is signaled
\* has somebody on the way, unless a notified waiter timed out.
THEOREM NoLostSignal == Spec => []SignalIsTaken
<1>1. Init => SignalIsTaken
  BY DEF Init, SignalIsTaken
<1>2. IInv /\ SignalIsTaken /\ [Next]_vars => SignalIsTaken'
  <2> SUFFICES ASSUME IInv, SignalIsTaken, [Next]_vars,
                      kind' = "auto", signaled', ~swallowed',
                      NEW s \in Threads, pc'[s] = "asleep"
               PROVE  \E u \in Threads : pc'[u] \in {"woken", "notify"}
    BY DEF SignalIsTaken
  <2> USE DEF IInv, Types
  <2>1. ASSUME NEW t \in Threads, SignalLock(t)
        PROVE  \E u \in Threads : pc'[u] \in {"woken", "notify"}
    BY <2>1 DEF SignalLock
  <2>2. ASSUME NEW t \in Threads, Notify(t)
        PROVE  \E u \in Threads : pc'[u] \in {"woken", "notify"}
    <3>1. PICK u \in Threads :
            /\ (\E v \in Threads : pc[v] = "asleep") => pc[u] = "asleep"
            /\ pc' = [Wakes(u) EXCEPT ![t] = "idle"]
      BY <2>2 DEF Notify
    <3>2. pc[s] = "asleep" /\ pc[t] = "notify"
      BY <2>2, <3>1 DEF Notify, Wakes
    <3>3. pc'[u] = "woken"
      BY <3>1, <3>2 DEF Wakes
    <3> QED BY <3>3
  <2>3. ASSUME NEW t \in Threads, Reset(t) PROVE FALSE
    BY <2>3 DEF Reset
  <2>4. ASSUME NEW t \in Threads, NEW timeout \in BOOLEAN, Wait(t, timeout) PROVE FALSE
    BY <2>4 DEF Wait, Return
  <2>5. ASSUME NEW t \in Threads, Wake(t) PROVE FALSE
    BY <2>5 DEF Wake, Satisfied, Return
  <2>6. ASSUME NEW t \in Threads, TimeOut(t)
        PROVE  \E u \in Threads : pc'[u] \in {"woken", "notify"}
    <3>1. pc[s] = "asleep" /\ kind = "auto" /\ signaled /\ ~swallowed /\ pc[t] # "woken"
      BY <2>6 DEF TimeOut, state, Waiting
    <3>2. PICK u \in Threads : pc[u] \in {"woken", "notify"}
      BY <3>1 DEF SignalIsTaken
    <3>3. u # t
      BY <2>6, <3>1, <3>2 DEF TimeOut, Waiting
    <3> QED BY <2>6, <3>2, <3>3 DEF TimeOut
  <2>7. ASSUME NEW t \in Threads, SpuriousWakeUp(t)
        PROVE  \E u \in Threads : pc'[u] \in {"woken", "notify"}
    BY <2>7 DEF SpuriousWakeUp
  <2>8. ASSUME NEW t \in Threads, CountDown(t) PROVE FALSE
    BY <2>8 DEF CountDown
  <2>9. CASE Destroy \/ UNCHANGED vars
    BY <2>9 DEF Destroy, vars, state, calls, SignalIsTaken
  <2> QED BY <2>1, <2>2, <2>3, <2>4, <2>5, <2>6, <2>7, <2>8, <2>9
          DEF Next, Step, Signal, SignalLatch
<1> QED BY <1>1, <1>2, Invariance, PTL DEF Spec

\* CountDownLatch::Wait returns after the last CountDown, for every count.
THEOREM LatchOpensLast == Spec => []LatchWaitsForAll
<1>1. IInv => LatchWaitsForAll
  BY DEF IInv, Last, Quiet, LatchWaitsForAll
<1> QED BY <1>1, Invariance, PTL

\* The event can be destroyed by who returned from the wait for its one signal.
THEOREM DestroyIsSafe == Spec => []NotUsedAfterWait
<1>1. Init => NotUsedAfterWait
  BY DEF Init, NotUsedAfterWait
<1>2. IInv /\ NotUsedAfterWait /\ [Next]_vars => NotUsedAfterWait'
  <2> SUFFICES ASSUME IInv, NotUsedAfterWait, [Next]_vars, ~alive'
               PROVE  \A t \in Threads : pc'[t] = "idle"
    BY DEF NotUsedAfterWait
  <2>1. CASE Destroy
    <3>1. signals = 1 /\ released \in Nat /\ released > 0 /\ pc' = pc
      BY <2>1 DEF Destroy, calls, IInv, Types
    <3>2. \A t \in Threads : pc[t] \notin {"asleep", "woken", "notify", "zero"}
      BY <2>1, <3>1 DEF Destroy, Waiting, IInv, First, Last
    <3> QED BY <3>1, <3>2 DEF IInv, Types
  <2>2. ASSUME NEW t \in Threads, alive' = alive, pc[t] # "idle" PROVE FALSE
    BY <2>2 DEF NotUsedAfterWait
  <2>3. ASSUME NEW t \in Threads, alive' = alive, Calls(t) PROVE FALSE
    BY <2>3 DEF Calls
  <2>4. ASSUME NEW t \in Threads, Step(t) \/ SpuriousWakeUp(t) PROVE FALSE
    <3>1. pc[t] # "idle" /\ alive' = alive
      BY <2>4 DEF Step, SpuriousWakeUp, Notify, SignalLatch, SignalLock, Wake, TimeOut, Waiting
    <3> QED BY <3>1, <2>2
  <2>5. ASSUME NEW t \in Threads, NEW timeout \in BOOLEAN,
               Signal(t) \/ Reset(t) \/ CountDown(t) \/ Wait(t, timeout)
        PROVE  FALSE
    BY <2>5, <2>3 DEF Signal, SignalLock, Reset, CountDown, Wait
  <2>6. CASE UNCHANGED vars
    BY <2>6 DEF vars, calls, NotUsedAfterWait
  <2> QED BY <2>1, <2>4, <2>5, <2>6 DEF Next
<1> QED BY <1>1, <1>2, Invariance, PTL DEF Spec
=============================================================================
