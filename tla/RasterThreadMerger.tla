------------------------- MODULE RasterThreadMerger -------------------------
(***************************************************************************)
(* base/raster_thread_merger.cc: the lease under which the raster queue is *)
(* merged into the platform queue.  lease_term_mutex_ is held across the   *)
(* call into MessageLoopTaskQueues, but IsOnRasterizingThread reads the    *)
(* lease without it, so Merge/Unmerge and the assignment of lease_term_    *)
(* are steps of their own.  DecrementLease releases the mutex before it    *)
(* calls UnMergeNow.                                                       *)
(*                                                                         *)
(* The two queues are different (otherwise every method is a no-op), and   *)
(* nothing else merges them; owns is TaskQueues' owner_of[platform] = gpu. *)
(***************************************************************************)
EXTENDS Integers

CONSTANTS Renderers,    \* threads that merge
          Managers,     \* those that also extend, decrement and end the lease;
                        \* "UnMergeNow must be executed on the raster task
                        \* runner", which makes them one thread at a time
          Togglers,     \* threads that enable and disable
          Checked,      \* clients end or extend a lease only after IsMerged()
          Platform,     \* the platform thread, which may wait for a merge
          Nobody,
          MaxLease      \* bound: lease terms asked for

ASSUME MergerAssumption ==
  /\ MaxLease \in Nat \ {0}
  /\ Nobody \notin Renderers
  /\ Managers \subseteq Renderers
  /\ Checked \in BOOLEAN

kLeaseNotSet == -1

VARIABLES lease_term,   \* lease_term_
          enabled,      \* enabled_
          owns,         \* the platform queue owns the raster queue
          lock,         \* the renderer inside the mutex across steps, or Nobody
          pc,           \* pc[r]: "idle", "merging" after Merge(), "gap" before
                        \* UnMergeNow takes the mutex, "unmerging" before
                        \* Unmerge(), "extend" before ExtendLeaseTo takes it
          call,         \* the method pc[r] belongs to
          term,         \* lease_term argument of the call under way
          waiter,       \* the platform thread: "idle", "asleep" or "woken"
          failed        \* an FML_CHECK was false

vars == <<lease_term, enabled, owns, lock, pc, call, term, waiter, failed>>

IsMergedUnSafe == lease_term > 0

\* IsOnRasterizingThread() when the platform thread asks.
IsOnRasterizingThread == IsMergedUnSafe

Init ==
  /\ lease_term = kLeaseNotSet /\ enabled = TRUE /\ owns = FALSE
  /\ lock = Nobody
  /\ pc = [r \in Renderers |-> "idle"]
  /\ call = [r \in Renderers |-> "none"]
  /\ term = [r \in Renderers |-> 0]
  /\ waiter = "idle" /\ failed = FALSE

Free == lock = Nobody /\ ~failed

Go(r, at) == pc' = [pc EXCEPT ![r] = at]

\* merged_condition_.notify_one(): the platform thread is the only waiter.
Notify == waiter' = IF waiter = "asleep" THEN "woken" ELSE waiter
-----------------------------------------------------------------------------
\* MergeWithLease on merged threads only notifies.
MergeWhenMerged(r) ==
  /\ Free /\ pc[r] = "idle" /\ enabled /\ IsMergedUnSafe
  /\ Notify
  /\ UNCHANGED <<lease_term, enabled, owns, lock, pc, call, term, failed>>

\* Otherwise Merge(), which also succeeds when the queue is already owned ...
MergeQueues(r, n) ==
  /\ Free /\ pc[r] = "idle" /\ enabled /\ ~IsMergedUnSafe
  /\ owns' = TRUE
  /\ lock' = r
  /\ term' = [term EXCEPT ![r] = n]
  /\ Go(r, "merging")
  /\ UNCHANGED <<lease_term, enabled, call, waiter, failed>>

\* Mutant: the mutex is still held when the merge is over.
SetLease_keepsLock(r) ==
  /\ pc[r] = "merging"
  /\ lease_term' = term[r]
  /\ Notify
  /\ Go(r, "idle")
  /\ UNCHANGED <<lock, enabled, owns, call, term, failed>>

\* ... the callback, the lease, notify_one() and the end of the scope.
SetLease(r) ==
  /\ pc[r] = "merging"
  /\ lease_term' = term[r]
  /\ Notify
  /\ lock' = Nobody
  /\ Go(r, "idle")
  /\ UNCHANGED <<enabled, owns, call, term, failed>>

\* IsMerged(), then UnMergeNow: nothing keeps the answer true in between.  A
\* client that does not ask may call it at any time.
CallUnMergeNow(r) ==
  /\ Free /\ pc[r] = "idle"
  /\ Checked => IsMergedUnSafe                                   \* client
  /\ Go(r, "gap") /\ call' = [call EXCEPT ![r] = "UnMergeNow"]
  /\ UNCHANGED <<lease_term, enabled, owns, lock, term, waiter, failed>>

\* Mutant: the lease is left as it was.
UnMergeNow_keepsLease(r) ==
  /\ Free /\ pc[r] = "gap"
  /\ IF enabled THEN lock' = r /\ Go(r, "unmerging") ELSE Go(r, "idle") /\ UNCHANGED lock
  /\ UNCHANGED <<lease_term, enabled, owns, call, term, waiter, failed>>

\* UnMergeNow takes the mutex; disabled, it returns at once.
UnMergeNow(r) ==
  /\ Free /\ pc[r] = "gap"
  /\ IF enabled
     THEN lease_term' = 0 /\ lock' = r /\ Go(r, "unmerging")
     ELSE Go(r, "idle") /\ UNCHANGED <<lease_term, lock>>
  /\ UNCHANGED <<enabled, owns, call, term, waiter, failed>>

\* Mutant: Unmerge is called for both queues, as if each had to be freed.
UnmergeQueues_both(r) ==
  /\ pc[r] = "unmerging" /\ ~failed
  /\ owns' = FALSE /\ failed' = ~owns
  /\ UNCHANGED <<lock, pc, lease_term, enabled, call, term, waiter>>

\* Unmerge() and FML_CHECK(success).
UnmergeQueues(r) ==
  /\ pc[r] = "unmerging" /\ ~failed
  /\ IF owns THEN owns' = FALSE /\ lock' = Nobody /\ Go(r, "idle") /\ UNCHANGED failed
             ELSE failed' = TRUE /\ UNCHANGED <<owns, lock, pc>>
  /\ UNCHANGED <<lease_term, enabled, call, term, waiter>>

\* IsMerged(), then ExtendLeaseTo ...
CallExtendLeaseTo(r, n) ==
  /\ Free /\ pc[r] = "idle"
  /\ Checked => IsMergedUnSafe                                   \* client
  /\ Go(r, "extend") /\ term' = [term EXCEPT ![r] = n]
  /\ UNCHANGED <<lease_term, enabled, owns, lock, call, waiter, failed>>

\* ... which takes the mutex, and FML_DCHECK(IsMergedUnSafe()).
ExtendLeaseTo(r) ==
  /\ Free /\ pc[r] = "extend"
  /\ IF IsMergedUnSafe
     THEN /\ lease_term' = IF lease_term # kLeaseNotSet /\ term[r] > lease_term
                           THEN term[r] ELSE lease_term
          /\ Go(r, "idle") /\ UNCHANGED failed
     ELSE failed' = TRUE /\ UNCHANGED <<lease_term, pc>>
  /\ UNCHANGED <<enabled, owns, lock, call, term, waiter>>

\* Mutant: the end of the lease is not acted on.
DecrementLease_keeps(r) ==
  /\ Free /\ pc[r] = "idle" /\ IsMergedUnSafe /\ enabled
  /\ lease_term' = lease_term - 1
  /\ UNCHANGED <<enabled, owns, lock, pc, call, term, waiter, failed>>

\* DecrementLease on merged and enabled threads (otherwise it only answers):
\* when the lease ends the mutex is released and UnMergeNow called.
DecrementLease(r) ==
  /\ Free /\ pc[r] = "idle" /\ IsMergedUnSafe /\ enabled
  /\ lease_term' = lease_term - 1
  /\ IF lease_term' = 0
     THEN Go(r, "gap") /\ call' = [call EXCEPT ![r] = "DecrementLease"]
     ELSE UNCHANGED <<pc, call>>
  /\ UNCHANGED <<enabled, owns, lock, term, waiter, failed>>

Enable  == /\ Free /\ enabled' = TRUE
           /\ UNCHANGED <<lease_term, owns, lock, pc, call, term, waiter, failed>>
Disable == /\ Free /\ enabled' = FALSE
           /\ UNCHANGED <<lease_term, owns, lock, pc, call, term, waiter, failed>>

\* A renderer can enable and disable between its own calls.
ToggleBy(t) == (t \in Renderers => pc[t] = "idle") /\ (Enable \/ Disable)

\* WaitUntilMerged on the platform thread: the predicate is tested under the
\* mutex when the call begins and after every wake-up.
WaitUntilMerged ==
  /\ Free /\ Platform \notin Renderers
  /\ waiter \in {"idle", "woken"}
  /\ waiter' = IF IsMergedUnSafe THEN "idle" ELSE "asleep"
  /\ UNCHANGED <<lease_term, enabled, owns, lock, pc, call, term, failed>>

SpuriousWakeUp ==
  /\ waiter = "asleep" /\ waiter' = "woken"
  /\ UNCHANGED <<lease_term, enabled, owns, lock, pc, call, term, failed>>

\* What a renderer does inside a call it has begun.
Continue(r) == SetLease(r) \/ UnMergeNow(r) \/ UnmergeQueues(r) \/ ExtendLeaseTo(r)

Next ==
  \/ \E r \in Renderers :
       \/ MergeWhenMerged(r) \/ Continue(r)
       \/ \E n \in 1 .. MaxLease : MergeQueues(r, n)
  \/ \E r \in Managers :
       \/ CallUnMergeNow(r) \/ DecrementLease(r)
       \/ \E n \in 1 .. MaxLease : CallExtendLeaseTo(r, n)
  \/ \E t \in Togglers : ToggleBy(t)
  \/ WaitUntilMerged \/ SpuriousWakeUp

Spec == Init /\ [][Next]_vars

\* A renderer inside a call is scheduled, and so is a woken waiter.
FairSpec == /\ Spec
            /\ \A r \in Renderers : WF_vars(Continue(r))
            /\ WF_vars(waiter = "woken" /\ WaitUntilMerged)
-----------------------------------------------------------------------------
\* "When the threads are merged, platform thread owns rasterizing": whenever no
\* call is under way the answer the platform thread gets from the lease agrees
\* with the queues it drains.
LeaseMatchesQueues ==
  (\A r \in Renderers : pc[r] = "idle") => (IsOnRasterizingThread <=> owns)

\* IsOnRasterizingThread reads the lease without the mutex.  Whenever it is
\* asked, between any two steps of merges and unmerges by any number of
\* threads, a platform thread that is told to rasterize drains the raster
\* queue: the lease is set after Merge() and given up before Unmerge().
RasterizesWhatItOwns == IsOnRasterizingThread => owns

\* No FML_CHECK fails: Unmerge finds the queues merged and ExtendLeaseTo a
\* lease, also when other threads merge in the gap before UnMergeNow.
ChecksHold == ~failed

\* The platform thread never sleeps through a merge: a WaitUntilMerged that
\* begins or goes on under a lease returns, unless the lease ends first.
WaitReturns ==
  waiter # "idle" /\ IsMergedUnSafe ~> waiter = "idle" \/ ~IsMergedUnSafe

Returns(r) == pc[r] \in {"gap", "unmerging"} /\ pc'[r] = "idle"

\* "Returns kUnmergedNow if this call resulted in splitting the raster and
\* platform threads": when DecrementLease returns that, the queues are split.
UnmergedNowMeansSplit ==
  [][\A r \in Renderers :
       Returns(r) /\ call[r] = "DecrementLease" => ~owns']_vars
=============================================================================
