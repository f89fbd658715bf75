------------------------------- MODULE Event -------------------------------
(***************************************************************************)
(* sync::event, a manual-reset event.  A waiter is one co_await wait() or  *)
(* wait(token); set() and reset() may come from any thread at any time.    *)
(* The sections under mutex_ are one step each.                            *)
(***************************************************************************)
EXTENDS Waiter

VARIABLES
    signaled,   \* signaled_
    waiters     \* waiters_, oldest first

event == <<signaled, waiters>>
vars  == <<event, waiterVars>>

Init == signaled = FALSE /\ waiters = <<>> /\ WaiterInit

Begin(w, with_token) == BeginWait(w, with_token) /\ UNCHANGED event

(* await_ready; a signalled event completes wait(token) only if its         *)
(* cancellation did not come first.                                         *)
AwaitReady(w) ==
    /\ \/ /\ w \notin cancellable
          /\ Step(w, "ready", IF signaled THEN "completed" ELSE "suspend")
          /\ UNCHANGED wake
       \/ /\ w \in cancellable
          /\ Step(w, "ready", IF was_cancelled(wake[w]) \/ signaled
                              THEN "resume" ELSE "suspend")
          /\ wake' = IF signaled THEN [wake EXCEPT ![w] = claim_notification(@)]
                                 ELSE wake
    /\ UNCHANGED <<event, cancellable, queues>>

(* await_suspend of wait() looks again, then allocates its wake state ... *)
Recheck(w) ==
    /\ w \notin cancellable
    /\ Step(w, "suspend", IF signaled THEN "completed" ELSE "enqueue")
    /\ UNCHANGED <<event, cancellable, wake, queues>>

AllocationFails(w) ==
    /\ Step(w, "enqueue", "failed")
    /\ UNCHANGED <<event, cancellable, wake, queues>>

(* ... and enqueues, unless the event has been set meanwhile. *)
Enqueue(w) ==
    /\ \/ /\ signaled
          /\ Step(w, "enqueue", "completed")
          /\ UNCHANGED <<wake, waiters>>
       \/ /\ ~signaled
          /\ Step(w, "enqueue", "suspended")
          /\ wake' = [wake EXCEPT ![w] = set_handle(@)]
          /\ waiters' = push_back(waiters, w)
    /\ UNCHANGED <<signaled, cancellable, queues>>

(* await_suspend of wait(token): cancelled before, or inside the            *)
(* publication window; signalled; or enqueued.                              *)
AwaitSuspendToken(w) ==
    /\ w \in cancellable
    /\ \/ /\ was_cancelled(wake[w]) \/ ~signaled
          /\ Step(w, "suspend", "resume")
          /\ wake' = [wake EXCEPT ![w] = IF was_cancelled(@) THEN @
                                                             ELSE "cancelled_inline"]
          /\ UNCHANGED waiters
       \/ /\ ~was_cancelled(wake[w]) /\ signaled
          /\ Step(w, "suspend", "resume")
          /\ wake' = [wake EXCEPT ![w] = claim_notification(@)]
          /\ UNCHANGED waiters
       \/ /\ ~was_cancelled(wake[w]) /\ ~signaled
          /\ Step(w, "suspend", "suspended")
          /\ wake' = [wake EXCEPT ![w] =
                         unblock_after_publish(set_handle_blocked(@))]
          /\ waiters' = push_back(waiters, w)
    /\ UNCHANGED <<signaled, cancellable, queues>>

(* Mutant of set: the waiters are claimed before the storage for their      *)
(* wakes is reserved, and the allocation fails.                             *)
MutSet ==
    /\ signaled' = TRUE
    /\ waiters' = <<>>
    /\ LET popped == {v \in Waiters : is_linked(waiters, v) /\ Claimable(v)}
       IN  /\ wake' = [v \in Waiters |-> IF v \in popped THEN claim(v) ELSE wake[v]]
           /\ \/ to_schedule' = to_schedule \cup popped
              \/ UNCHANGED to_schedule
    /\ UNCHANGED <<cancellable, cancelling, scheduled, pc>>

(* set(): every waiter leaves the queue, those whose cancellation came      *)
(* first without being selected.  (When the storage for the wakes cannot be *)
(* reserved, set() throws before it changes anything.)                      *)
set ==
    /\ signaled' = TRUE
    /\ waiters' = <<>>
    /\ LET popped == {v \in Waiters : is_linked(waiters, v) /\ Claimable(v)}
       IN  /\ to_schedule' = to_schedule \cup popped
           /\ wake' = [v \in Waiters |-> IF v \in popped THEN claim(v) ELSE wake[v]]
    /\ UNCHANGED <<cancellable, cancelling, scheduled, pc>>

reset == signaled' = FALSE /\ UNCHANGED <<waiters, waiterVars>>

Dispatch(v) == ScheduleSelected(v) /\ UNCHANGED event

Resume(w) == ResumeHandle(w) /\ UNCHANGED event

(* await_resume, after the cancel callback is unregistered. *)
AwaitResume(w) ==
    /\ Unregistered(w)
    /\ Step(w, "resume", IF was_cancelled(wake[w]) THEN "cancelled" ELSE "completed")
    /\ waiters' = IF was_cancelled(wake[w]) THEN remove(waiters, w) ELSE waiters
    /\ UNCHANGED <<signaled, cancellable, wake, queues>>

Cancel(w) == RequestCancel(w) /\ UNCHANGED event

CancelSchedule(w) == ScheduleClaimed(w) /\ UNCHANGED event

(* ~event_waiter of a suspended frame that scheduling does not own yet. *)
Destroy(w) ==
    /\ MayBeDestroyed(w)
    /\ Step(w, "suspended", "destroyed")
    /\ waiters' = remove(waiters, w)
    /\ wake' = [wake EXCEPT ![w] = abandon(@)]
    /\ UNCHANGED <<signaled, cancellable, queues>>

(* A step of the operation of a waiter, or of the scheduler on its behalf. *)
Run(w) ==
    \/ AwaitReady(w) \/ Recheck(w) \/ Enqueue(w) \/ AwaitSuspendToken(w)
    \/ Resume(w)     \/ AwaitResume(w)

Next ==
    \/ set
    \/ reset
    \/ \E w \in Waiters :
        \/ \E t \in BOOLEAN : Begin(w, t)
        \/ Run(w)
        \/ AllocationFails(w)
        \/ Dispatch(w)
        \/ Cancel(w)
        \/ CancelSchedule(w)
        \/ Destroy(w)

(* Operations, callbacks and set() run to their end; the scheduler resumes. *)
Fairness ==
    \A w \in Waiters :
        WF_vars(Run(w)) /\ WF_vars(Dispatch(w)) /\ WF_vars(CancelSchedule(w))

Spec == Init /\ [][Next]_vars /\ Fairness

-----------------------------------------------------------------------------
(* Every variable has its type; a handle is scheduled at most once. *)
TypeOK ==
    /\ signaled \in BOOLEAN
    /\ waiters \in Seq(Waiters)
    /\ WaiterTypeOK

(* Nobody waits for an event that is set: set() and a waiter that is about  *)
(* to enqueue do not miss each other.                                       *)
NobodyWaitsWhenSet == signaled => waiters = <<>>

(* Whoever set() took from the queue is woken, even if reset() follows at   *)
(* once and although the wakes are scheduled after the lock is released.    *)
WakesAreExact == WakeIsComing(waiters) /\ OnlyLivingFrames(waiters)

(* The inductive invariant. *)
IndInv == TypeOK /\ WaiterInv(waiters) /\ NobodyWaitsWhenSet

(* Nobody waits whom set() selected or who was cancelled. *)
Served ==
    \A w \in Waiters :
        pc[w] = "suspended" => is_linked(waiters, w) /\ ~was_cancelled(wake[w])

=============================================================================
