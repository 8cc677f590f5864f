---------------------- MODULE RasterThreadMergerProofs ----------------------
(***************************************************************************)
(* For any number of threads and leases of any length: a platform thread   *)
(* that is told to rasterize owns the raster queue.  With one thread that  *)
(* manages the lease no FML_CHECK fails, and if nobody else enables and    *)
(* disables, lease and queues agree whenever no call is under way.  Each   *)
(* result adds to one invariant what holds at the points where a call has  *)
(* released the mutex or has not finished with the queues.                 *)
(***************************************************************************)
EXTENDS RasterThreadMerger, TLAPS

Types ==
  /\ lease_term \in Int /\ owns \in BOOLEAN /\ enabled \in BOOLEAN
  /\ pc \in [Renderers -> {"idle", "merging", "gap", "unmerging", "extend"}]
  /\ term \in [Renderers -> Nat]

\* What a thread inside the mutex has done so far.
Inside(r) ==
  /\ pc[r] \in {"merging", "unmerging"} => lock = r
  /\ pc[r] = "merging" => owns
  /\ pc[r] \in {"merging", "extend"} => term[r] > 0
  /\ pc[r] = "unmerging" => lease_term = 0

Sound == Types /\ (lease_term > 0 => owns) /\ \A r \in Renderers : Inside(r)

\* The steps that touch neither lease nor queues nor a renderer.
Aside == \/ \E t \in Togglers : ToggleBy(t)
         \/ WaitUntilMerged \/ SpuriousWakeUp \/ UNCHANGED vars

LEMMA AsideKeeps ==
  ASSUME Types, Aside
  PROVE  Types' /\ UNCHANGED <<lease_term, owns, lock, pc, call, term, failed>>
<1>1. CASE WaitUntilMerged \/ SpuriousWakeUp \/ UNCHANGED vars
  BY <1>1 DEF WaitUntilMerged, SpuriousWakeUp, vars, Types
<1>2. ASSUME NEW t \in Togglers, ToggleBy(t)
      PROVE  Types' /\ UNCHANGED <<lease_term, owns, lock, pc, call, term, failed>>
  <2>1. enabled' \in BOOLEAN /\ UNCHANGED <<lease_term, owns, lock, pc, call, term, failed>>
    BY <1>2 DEF ToggleBy, Enable, Disable
  <2> QED BY <2>1 DEF Types
<1> QED BY <1>1, <1>2 DEF Aside

\* A renderer's own steps, one by one.
RendererStep(r) ==
  \/ MergeWhenMerged(r) \/ SetLease(r) \/ UnMergeNow(r) \/ UnmergeQueues(r) \/ ExtendLeaseTo(r)
  \/ \E n \in 1 .. MaxLease : MergeQueues(r, n)
  \/ r \in Managers /\ (CallUnMergeNow(r) \/ DecrementLease(r))
  \/ r \in Managers /\ \E n \in 1 .. MaxLease : CallExtendLeaseTo(r, n)

LEMMA NextSteps == [Next]_vars => Aside \/ \E r \in Renderers : RendererStep(r)
BY MergerAssumption DEF Next, Continue, Aside, RendererStep

LEMMA SoundStep == Sound /\ [Next]_vars => Sound'
<1> SUFFICES ASSUME Sound, [Next]_vars PROVE Sound'
  OBVIOUS
<1> USE MergerAssumption
<1>1. CASE Aside
  BY <1>1, AsideKeeps DEF Sound, Inside
<1>2. ASSUME NEW r \in Renderers, RendererStep(r) PROVE Sound'
  <2> USE DEF Sound, Inside, Types, IsMergedUnSafe, Go, Free
  <2>1. CASE MergeWhenMerged(r)
    BY <2>1 DEF MergeWhenMerged
  <2>2. CASE SetLease(r)
    BY <2>2 DEF SetLease
  <2>3. CASE UnMergeNow(r)
    <3>1. CASE enabled
      BY <2>3, <3>1 DEF UnMergeNow
    <3>2. CASE ~enabled
      BY <2>3, <3>2 DEF UnMergeNow
    <3> QED BY <3>1, <3>2
  <2>4. CASE UnmergeQueues(r)
    <3>1. CASE owns
      <4>1. ~owns' /\ owns' \in BOOLEAN /\ pc' = [pc EXCEPT ![r] = "idle"]
            /\ UNCHANGED <<lease_term, enabled, term>> /\ pc[r] = "unmerging"
        BY <2>4, <3>1 DEF UnmergeQueues
      <4> QED BY <4>1
    <3>2. CASE ~owns
      BY <2>4, <3>2 DEF UnmergeQueues
    <3> QED BY <3>1, <3>2
  <2>5. CASE ExtendLeaseTo(r)
    BY <2>5 DEF ExtendLeaseTo
  <2>6. ASSUME NEW n \in 1 .. MaxLease, MergeQueues(r, n) PROVE Sound'
    BY <2>6 DEF MergeQueues
  <2>7. CASE CallUnMergeNow(r)
    BY <2>7 DEF CallUnMergeNow
  <2>8. CASE DecrementLease(r)
    BY <2>8 DEF DecrementLease
  <2>9. ASSUME NEW n \in 1 .. MaxLease, CallExtendLeaseTo(r, n) PROVE Sound'
    BY <2>9 DEF CallExtendLeaseTo
  <2> QED BY <1>2, <2>1, <2>2, <2>3, <2>4, <2>5, <2>6, <2>7, <2>8, <2>9 DEF RendererStep
<1> QED BY <1>1, <1>2, NextSteps

LEMMA SoundInit == Init => Sound
<1> SUFFICES ASSUME Init PROVE Sound
  OBVIOUS
<1>1. owns \in BOOLEAN /\ enabled \in BOOLEAN
  BY DEF Init
<1>2. lease_term \in Int /\ ~(lease_term > 0)
  BY DEF Init, kLeaseNotSet
<1> QED BY <1>1, <1>2 DEF Init, Sound, Types, Inside

\* For any threads that merge, extend, decrement, unmerge, enable and disable,
\* in any order: at no instant is the platform thread told to rasterize while
\* the raster queue is not its own.
THEOREM NeverRasterizesUnowned == Spec => []RasterizesWhatItOwns
<1>1. Sound => RasterizesWhatItOwns
  BY DEF Sound, RasterizesWhatItOwns, IsOnRasterizingThread, IsMergedUnSafe
<1> QED BY <1>1, SoundInit, SoundStep, PTL DEF Spec
-----------------------------------------------------------------------------
(* One manager.                                                            *)

\* Only the manager is ever about to unmerge or extend, and what it found when
\* it set out still holds.
Managed(m) ==
  /\ \A r \in Renderers : pc[r] \in {"gap", "unmerging", "extend"} => r = m
  /\ pc[m] \in {"gap", "unmerging"} => owns
  /\ pc[m] = "extend" => lease_term > 0

ManagedInv(m) == Sound /\ ~failed /\ Managed(m)

LEMMA ManagedStep ==
  ASSUME NEW m, Managers = {m}, Checked, ManagedInv(m), [Next]_vars
  PROVE  ManagedInv(m)'
<1> USE MergerAssumption
<1>0. Sound' /\ m \in Renderers
  BY SoundStep DEF ManagedInv
<1>1. SUFFICES ~failed' /\ Managed(m)'
  BY <1>0 DEF ManagedInv
<1>2. CASE Aside
  BY <1>2, AsideKeeps DEF ManagedInv, Sound, Managed
<1>3. ASSUME NEW r \in Renderers, RendererStep(r) PROVE ~failed' /\ Managed(m)'
  <2> USE <1>0 DEF ManagedInv, Sound, Managed, Inside, Types, IsMergedUnSafe, Go, Free
  <2>1. CASE MergeWhenMerged(r)
    BY <2>1 DEF MergeWhenMerged
  <2>2. CASE SetLease(r)
    BY <2>2 DEF SetLease
  <2>3. CASE UnMergeNow(r)
    BY <2>3 DEF UnMergeNow
  <2>4. CASE UnmergeQueues(r)
    <3>1. owns /\ r = m
      BY <2>4 DEF UnmergeQueues
    <3>2. ~failed' /\ pc' = [pc EXCEPT ![m] = "idle"]
      BY <2>4, <3>1 DEF UnmergeQueues
    <3> QED BY <3>2
  <2>5. CASE ExtendLeaseTo(r)
    <3>1. r = m /\ lease_term > 0
      BY <2>5 DEF ExtendLeaseTo
    <3>2. ~failed' /\ pc' = [pc EXCEPT ![m] = "idle"]
      BY <2>5, <3>1 DEF ExtendLeaseTo
    <3> QED BY <3>2
  <2>6. ASSUME NEW n \in 1 .. MaxLease, MergeQueues(r, n) PROVE ~failed' /\ Managed(m)'
    BY <2>6 DEF MergeQueues
  <2>7. CASE CallUnMergeNow(r) /\ r = m
    BY <2>7 DEF CallUnMergeNow
  <2>8. CASE DecrementLease(r) /\ r = m
    BY <2>8 DEF DecrementLease
  <2>9. ASSUME NEW n \in 1 .. MaxLease, CallExtendLeaseTo(r, n), r = m
        PROVE  ~failed' /\ Managed(m)'
    BY <2>9 DEF CallExtendLeaseTo
  <2> QED BY <1>3, <2>1, <2>2, <2>3, <2>4, <2>5, <2>6, <2>7, <2>8, <2>9 DEF RendererStep
<1> QED BY <1>2, <1>3, NextSteps

LEMMA ManagedInit ==
  ASSUME NEW m, Managers = {m}, Init
  PROVE  ManagedInv(m)
<1>1. m \in Renderers
  BY MergerAssumption
<1> QED BY <1>1, SoundInit DEF Init, ManagedInv, Managed

\* With one thread that manages the lease, asking IsMerged() before it extends
\* or unmerges, and any number of others that merge, enable or disable, also in
\* the gap before UnMergeNow: Unmerge finds the queues merged and ExtendLeaseTo
\* a lease.
THEOREM NoCheckFails ==
  ASSUME NEW CONSTANT m, Managers = {m}, Checked
  PROVE  Spec => []ChecksHold
<1>1. ManagedInv(m) => ChecksHold
  BY DEF ManagedInv, ChecksHold
<1>2. Init => ManagedInv(m)
  BY ManagedInit
<1>3. ManagedInv(m) /\ [Next]_vars => ManagedInv(m)'
  BY ManagedStep
<1> QED BY <1>1, <1>2, <1>3, PTL DEF Spec

\* Queues that are merged without a lease are about to be split or to get one;
\* when they are about to be split the merger is enabled.
Pending(m) ==
  /\ owns /\ lease_term <= 0 => \/ pc[m] \in {"gap", "unmerging"}
                                \/ \E r \in Renderers : pc[r] = "merging"
  /\ pc[m] = "gap" /\ lease_term <= 0 => enabled

LEMMA PendingStep ==
  ASSUME NEW m, Managers = {m}, Checked, Togglers \subseteq {m}, ManagedInv(m), Pending(m),
         [Next]_vars
  PROVE  Pending(m)'
<1> USE MergerAssumption
<1>0. m \in Renderers /\ lease_term \in Int
  BY DEF ManagedInv, Sound, Types
<1>1. CASE WaitUntilMerged \/ SpuriousWakeUp \/ UNCHANGED vars
  BY <1>1 DEF WaitUntilMerged, SpuriousWakeUp, vars, Pending
<1>2. ASSUME NEW t \in Togglers, ToggleBy(t) PROVE Pending(m)'
  <2>1. pc[m] = "idle" /\ UNCHANGED <<lease_term, owns, pc>>
    BY <1>0, <1>2 DEF ToggleBy, Enable, Disable
  <2> QED BY <2>1 DEF Pending
<1>3. ASSUME NEW r \in Renderers, RendererStep(r) PROVE Pending(m)'
  <2> USE <1>0 DEF ManagedInv, Sound, Managed, Inside, Types, IsMergedUnSafe, Go, Free, Pending
  <2>1. CASE MergeWhenMerged(r)
    BY <2>1 DEF MergeWhenMerged
  <2>2. CASE SetLease(r)
    <3>1. lease_term' > 0 /\ lease_term' \in Int
      BY <2>2 DEF SetLease
    <3> QED BY <3>1
  <2>3. CASE UnMergeNow(r)
    <3>1. r = m
      BY <2>3 DEF UnMergeNow
    <3>2. CASE enabled
      BY <2>3, <3>1, <3>2 DEF UnMergeNow
    <3>3. CASE ~enabled
      BY <2>3, <3>1, <3>3 DEF UnMergeNow
    <3> QED BY <3>2, <3>3
  <2>4. CASE UnmergeQueues(r)
    <3>1. r = m /\ owns
      BY <2>4 DEF UnmergeQueues
    <3>2. ~owns' /\ pc' = [pc EXCEPT ![m] = "idle"]
      BY <2>4, <3>1 DEF UnmergeQueues
    <3> QED BY <3>2
  <2>5. CASE ExtendLeaseTo(r)
    <3>1. r = m /\ lease_term > 0
      BY <2>5 DEF ExtendLeaseTo
    <3>2. lease_term' > 0 /\ lease_term' \in Int
      BY <2>5, <3>1 DEF ExtendLeaseTo
    <3> QED BY <3>2
  <2>6. ASSUME NEW n \in 1 .. MaxLease, MergeQueues(r, n) PROVE Pending(m)'
    BY <2>6 DEF MergeQueues
  <2>7. CASE CallUnMergeNow(r) /\ r = m
    BY <2>7 DEF CallUnMergeNow
  <2>8. CASE DecrementLease(r) /\ r = m
    BY <2>8 DEF DecrementLease
  <2>9. ASSUME NEW n \in 1 .. MaxLease, CallExtendLeaseTo(r, n), r = m PROVE Pending(m)'
    BY <2>9 DEF CallExtendLeaseTo
  <2> QED BY <1>3, <2>1, <2>2, <2>3, <2>4, <2>5, <2>6, <2>7, <2>8, <2>9 DEF RendererStep
<1> QED BY <1>1, <1>2, <1>3, NextSteps DEF Aside

\* If the thread that manages the lease is also the only one that enables and
\* disables, the platform thread is told the truth about who rasterizes
\* whenever no call is under way, however many threads merge.
THEOREM LeaseAndQueuesAgree ==
  ASSUME NEW CONSTANT m, Managers = {m}, Checked, Togglers \subseteq {m}
  PROVE  Spec => []LeaseMatchesQueues
<1> DEFINE Inv == ManagedInv(m) /\ Pending(m)
<1>1. Inv => LeaseMatchesQueues
  <2> SUFFICES ASSUME Inv, \A r \in Renderers : pc[r] = "idle"
               PROVE  IsOnRasterizingThread <=> owns
    BY DEF LeaseMatchesQueues
  <2>1. m \in Renderers /\ lease_term \in Int
    BY MergerAssumption DEF ManagedInv, Sound, Types
  <2> QED BY <2>1 DEF ManagedInv, Sound, Pending, IsOnRasterizingThread, IsMergedUnSafe
<1>2. Init => Inv
  BY ManagedInit DEF Init, Pending
<1>3. Inv /\ [Next]_vars => Inv'
  BY ManagedStep, PendingStep
<1> HIDE DEF Inv
<1> QED BY <1>1, <1>2, <1>3, PTL DEF Spec
=============================================================================
