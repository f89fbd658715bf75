------------------------- MODULE ConditionVariable -------------------------
(***************************************************************************)
(* sync::condition_variable with its users' lock.  A waiter is one wait()  *)
(* of any overload: with a lock (sync::mutex or a synchronous lockable) or *)
(* without one, with a cancel token or not.  The lock is what PermitPool   *)
(* promises of one permit: free or owned by one operation.  It is released *)
(* between the enqueueing of the waiter and the end of its publication     *)
(* window, so those are steps of their own.                                *)
(***************************************************************************)
EXTENDS Waiter

CONSTANT NoOwner   \* the lock is free

VARIABLES
    waiters,         \* waiters_, oldest first
    locked,          \* the waiters whose wait has a lock
    lock,            \* the operation that owns the lock
    lock_released    \* the waiters that released the lock in await_suspend

cv   == <<waiters, locked, lock, lock_released>>
vars == <<cv, waiterVars>>

Init ==
    /\ waiters = <<>>
    /\ locked = {}
    /\ lock = NoOwner
    /\ lock_released = {}
    /\ WaiterInit

(* The caller locks, if it uses a lock, and calls wait(). *)
Begin(w, with_token, with_lock) ==
    /\ with_lock => lock = NoOwner
    /\ lock' = IF with_lock THEN w ELSE lock
    /\ locked' = IF with_lock THEN locked \cup {w} ELSE locked
    /\ BeginWait(w, with_token)
    /\ UNCHANGED <<waiters, lock_released>>

(* await_ready: a wait cancelled before it began leaves the lock held. *)
AwaitReady(w) ==
    /\ Step(w, "ready", IF was_cancelled(wake[w]) THEN "resume" ELSE "suspend")
    /\ UNCHANGED <<cv, cancellable, wake, queues>>

(* await_suspend of wait_unlocked() needs no publication window. *)
SuspendUnlocked(w) ==
    /\ w \notin locked \cup cancellable
    /\ Step(w, "suspend", "suspended")
    /\ wake' = [wake EXCEPT ![w] = set_handle(@)]
    /\ waiters' = push_back(waiters, w)
    /\ UNCHANGED <<locked, lock, lock_released, cancellable, queues>>

(* Mutant of Prepare: the waiter is not enqueued before the lock is released. *)
MutPrepare(w) ==
    /\ w \in locked \cup cancellable
    /\ ~was_cancelled(wake[w])
    /\ Step(w, "suspend", IF w \in locked THEN "unlock" ELSE "unblock")
    /\ wake' = [wake EXCEPT ![w] = set_handle_blocked(@)]
    /\ UNCHANGED <<waiters, locked, lock, lock_released, cancellable, queues>>

(* The others enqueue with a blocked handle (prepare_blocked_wait); a       *)
(* cancellation that came first leaves the lock held ...                    *)
Prepare(w) ==
    /\ w \in locked \cup cancellable
    /\ \/ /\ was_cancelled(wake[w])
          /\ Step(w, "suspend", "resume")
          /\ UNCHANGED <<wake, waiters>>
       \/ /\ ~was_cancelled(wake[w])
          /\ Step(w, "suspend", IF w \in locked THEN "unlock" ELSE "unblock")
          /\ wake' = [wake EXCEPT ![w] = set_handle_blocked(@)]
          /\ waiters' = push_back(waiters, w)
    /\ UNCHANGED <<locked, lock, lock_released, cancellable, queues>>

(* ... then release the lock ... *)
Unlock(w) ==
    /\ Step(w, "unlock", "unblock")
    /\ lock' = NoOwner
    /\ lock_released' = lock_released \cup {w}
    /\ UNCHANGED <<waiters, locked, cancellable, wake, queues>>

(* ... and end the window.  A notification or a cancellation inside it      *)
(* completes the wait without suspending (finish_blocked_publication).      *)
Unblock(w) ==
    /\ \/ /\ wake[w] = "blocked"
          /\ Step(w, "unblock", "suspended")
          /\ wake' = [wake EXCEPT ![w] = unblock_after_publish(@)]
          /\ UNCHANGED waiters
       \/ /\ wake[w] # "blocked"
          /\ Step(w, "unblock", "resume")
          /\ waiters' = IF w \in cancellable THEN remove(waiters, w) ELSE waiters
          /\ UNCHANGED wake
    /\ UNCHANGED <<locked, lock, lock_released, cancellable, queues>>

(* Mutant of notify: a waiter that was cancelled uses the notification up. *)
MutNotify(all) ==
    LET cut == IF all THEN Len(waiters) ELSE 1
        popped == {waiters[i] : i \in {j \in 1..cut : Claimable(waiters[j])}}
    IN  /\ waiters # <<>>
        /\ waiters' = SubSeq(waiters, cut + 1, Len(waiters))
        /\ to_schedule' = to_schedule \cup popped
        /\ wake' = [v \in Waiters |-> IF v \in popped THEN claim(v) ELSE wake[v]]
        /\ UNCHANGED <<locked, lock, lock_released, cancellable, cancelling,
                       scheduled, pc>>

(* notify_one() pops waiters until it has selected one, notify_all() until  *)
(* the queue is empty; a cancelled waiter is dropped.                       *)
notify(all) ==
    \E cut \in 1..Len(waiters) :
        LET popped == {waiters[i] : i \in {j \in 1..cut : Claimable(waiters[j])}}
        IN  /\ IF all THEN cut = Len(waiters)
                      ELSE /\ \A i \in 1..(cut - 1) : ~Claimable(waiters[i])
                           /\ cut = Len(waiters) \/ Claimable(waiters[cut])
            /\ waiters' = SubSeq(waiters, cut + 1, Len(waiters))
            /\ to_schedule' = to_schedule \cup popped
            /\ wake' = [v \in Waiters |-> IF v \in popped THEN claim(v) ELSE wake[v]]
            /\ UNCHANGED <<locked, lock, lock_released, cancellable, cancelling,
                           scheduled, pc>>

notify_one == notify(FALSE)
notify_all == notify(TRUE)

Dispatch(v) == ScheduleSelected(v) /\ UNCHANGED cv

Resume(w) == ResumeHandle(w) /\ UNCHANGED cv

(* await_resume: a cancelled waiter takes itself out of the queue ... *)
AwaitResume(w) ==
    /\ Unregistered(w)
    /\ Step(w, "resume", IF w \in lock_released THEN "relock" ELSE "return")
    /\ waiters' = IF was_cancelled(wake[w]) THEN remove(waiters, w) ELSE waiters
    /\ UNCHANGED <<locked, lock, lock_released, cancellable, wake, queues>>

(* ... and whoever released the lock locks it again. *)
Relock(w) ==
    /\ lock = NoOwner
    /\ lock' = w
    /\ Step(w, "relock", "return")
    /\ UNCHANGED <<waiters, locked, lock_released, cancellable, wake, queues>>

(* The caller goes on and, some time, unlocks. *)
Return(w) ==
    /\ Step(w, "return", IF was_cancelled(wake[w]) THEN "cancelled" ELSE "completed")
    /\ lock' = IF w \in locked THEN NoOwner ELSE lock
    /\ UNCHANGED <<waiters, locked, lock_released, cancellable, wake, queues>>

Cancel(w) ==
    pc[w] \notin {"relock", "return"} /\ RequestCancel(w) /\ UNCHANGED cv

CancelSchedule(w) == ScheduleClaimed(w) /\ UNCHANGED cv

(* ~cv_waiter_base of a suspended frame that scheduling does not own yet. *)
Destroy(w) ==
    /\ MayBeDestroyed(w)
    /\ Step(w, "suspended", "destroyed")
    /\ waiters' = remove(waiters, w)
    /\ wake' = [wake EXCEPT ![w] = abandon(@)]
    /\ UNCHANGED <<locked, lock, lock_released, cancellable, queues>>

(* A step of the operation of a waiter, or of the scheduler on its behalf. *)
Run(w) ==
    \/ AwaitReady(w) \/ SuspendUnlocked(w) \/ Prepare(w)     \/ Unlock(w)
    \/ Unblock(w)    \/ Resume(w)          \/ AwaitResume(w) \/ Return(w)

Next ==
    \/ notify_one
    \/ notify_all
    \/ \E w \in Waiters :
        \/ \E t, l \in BOOLEAN : Begin(w, t, l)
        \/ Run(w)
        \/ Relock(w)
        \/ Dispatch(w)
        \/ Cancel(w)
        \/ CancelSchedule(w)
        \/ Destroy(w)

(* Operations, callbacks and notifiers run on; the scheduler resumes; the   *)
(* lock, queued in arrival order by sync::mutex, is strongly fair.          *)
Fairness ==
    \A w \in Waiters :
        /\ WF_vars(Run(w)) /\ WF_vars(Dispatch(w)) /\ WF_vars(CancelSchedule(w))
        /\ SF_vars(Relock(w))

Spec == Init /\ [][Next]_vars /\ Fairness

-----------------------------------------------------------------------------
(* Every variable has its type; a handle is scheduled at most once. *)
TypeOK ==
    /\ waiters \in Seq(Waiters)
    /\ locked \subseteq Waiters
    /\ lock \in Waiters \cup {NoOwner}
    /\ lock_released \subseteq locked
    /\ WaiterTypeOK

(* wait(lock) gives its caller back a lock it owns on every path: notified, *)
(* cancelled while suspended, cancelled or notified inside the publication  *)
(* window, and cancelled before it released the lock.  And from the moment  *)
(* the lock is released until it is notified or cancelled, the waiter is in *)
(* the queue: a notifier that takes the lock sees it.                       *)
LockDiscipline ==
    /\ \A w \in locked :
        lock = w <=> \/ pc[w] \in {"ready", "suspend", "unlock", "return"}
                     \/ pc[w] = "resume" /\ w \notin lock_released
    /\ \A w \in lock_released :
        wake[w] \in {"blocked", "waiting"} =>
            is_linked(waiters, w) \/ w \in to_schedule

(* Whoever is notified while suspended is woken, although the wake is       *)
(* scheduled after the lock and races the end of the publication window.    *)
WakesAreExact == WakeIsComing(waiters) /\ OnlyLivingFrames(waiters)

(* A notification with a waiter in the queue that still wants it selects    *)
(* one.                                                                     *)
SelectsSomebody ==
    LET eligible == {v \in Waiters : is_linked(waiters, v) /\ Claimable(v)}
    IN  Len(waiters') < Len(waiters) /\ pc' = pc /\ eligible # {} =>
            eligible \cap (to_schedule' \ to_schedule) # {}

(* notify_one() with a waiter that still wants it in the queue selects one: *)
(* cancelled waiters do not use the notification up.                        *)
NotifyReachesSomebody == [][SelectsSomebody]_vars

(* Where a wait is, with and without a lock. *)
LockInv ==
    /\ lock # NoOwner => lock \in locked
    /\ \A w \in locked : pc[w] # "start"
    /\ \A w \in Waiters : pc[w] \in {"unlock", "relock"} => w \in locked
    /\ \A w \in lock_released : pc[w] \notin {"ready", "suspend", "unlock"}
    /\ \A w \in locked \ lock_released : pc[w] \notin {"unblock", "suspended", "relock"}
    /\ \A w \in Waiters : pc[w] \notin {"enqueue", "claim"}

(* The inductive invariant. *)
IndInv == TypeOK /\ WaiterInv(waiters) /\ LockInv /\ LockDiscipline

(* Whoever was notified or cancelled has returned. *)
Served ==
    \A w \in Waiters :
        \/ pc[w] \in Ends \cup {"start"}
        \/ pc[w] = "suspended" /\ is_linked(waiters, w) /\ ~was_cancelled(wake[w])

=============================================================================
