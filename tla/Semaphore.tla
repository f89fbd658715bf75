----------------------------- MODULE Semaphore -----------------------------
(***************************************************************************)
(* sync::semaphore.  A waiter is one try_acquire(), co_await acquire() or  *)
(* co_await acquire(token).  Every operation but a cancel callback works   *)
(* on the semaphore under mutex_, so its critical section is one step; a   *)
(* cancellation that lands inside a section has the effect it would have   *)
(* had just before it, except where a disjunct says otherwise.             *)
(***************************************************************************)
EXTENDS Waiter, FiniteSets

CONSTANTS InitialCount,  \* initial_count
          MaxCount,      \* INT_MAX
          MaxReleased    \* bound: permits released in a behaviour

VARIABLES
    count,           \* count_
    waiters,         \* waiters_, oldest first
    grant_pending,   \* the waiters whose grant_pending is set
    released         \* how many permits were released

permits == <<count, waiters, grant_pending, released>>
vars    == <<permits, waiterVars>>

Init ==
    /\ count = InitialCount
    /\ waiters = <<>>
    /\ grant_pending = {}
    /\ released = 0
    /\ WaiterInit

Begin(w, with_token) == BeginWait(w, with_token) /\ UNCHANGED permits

(* The debit of try_acquire(); "else" is where it goes on without a permit. *)
TryAcquire(w, from, else) ==
    /\ \/ count > 0 /\ count' = count - 1 /\ Step(w, from, "completed")
       \/ count = 0 /\ count' = count     /\ Step(w, from, else)
    /\ UNCHANGED <<waiters, grant_pending, released, cancellable, wake, queues>>

try_acquire(w) == TryAcquire(w, "start", "refused")

AwaitReady(w) == w \notin cancellable /\ TryAcquire(w, "ready", "suspend")

(* await_ready of acquire(token) selects the result before it takes the     *)
(* permit; the operation is then complete or cancelled without suspending.  *)
AwaitReadyToken(w) ==
    /\ w \in cancellable
    /\ \/ /\ was_cancelled(wake[w])
          /\ Step(w, "ready", "resume")
          /\ UNCHANGED <<count, wake>>
       \/ /\ ~was_cancelled(wake[w]) /\ count = 0
          /\ Step(w, "ready", "suspend")
          /\ UNCHANGED <<count, wake>>
       \/ /\ ~was_cancelled(wake[w]) /\ count > 0
          /\ wake' = [wake EXCEPT ![w] = claim_notification(@)]
          /\ count' = count - 1
          /\ Step(w, "ready", "resume")
    /\ UNCHANGED <<waiters, cancellable, grant_pending, queues, released>>

(* claim_waiter_locked, called until n waiters are granted or the queue is  *)
(* empty: the first "cut" waiters leave the queue, and the permits nobody   *)
(* takes are added to "rest".  "pending" and "wk" are grant_pending and     *)
(* wake as the caller has changed them before.                              *)
claim_waiters(n, rest, pending, wk) ==
    \E cut \in 0..Len(waiters) :
        LET granted == {waiters[i] : i \in {j \in 1..cut : Claimable(waiters[j])}}
        IN  /\ Cardinality(granted) <= n
            /\ IF Cardinality(granted) < n THEN cut = Len(waiters)
                                           ELSE Claimable(waiters[cut])
            /\ waiters' = SubSeq(waiters, cut + 1, Len(waiters))
            /\ grant_pending' = pending \cup granted
            /\ to_schedule' = to_schedule \cup granted
            /\ count' = rest + (n - Cardinality(granted))
            /\ wake' = [v \in Waiters |-> IF v \in granted THEN claim(v)
                                                         ELSE wk[v]]

(* Mutant of release: the bound ignores the permits on their way. *)
MutRelease(n) ==
    /\ released + n <= MaxReleased
    /\ count + n <= MaxCount
    /\ released' = released + n
    /\ claim_waiters(n, count, grant_pending, wake)
    /\ UNCHANGED <<cancellable, cancelling, scheduled, pc>>

(* release(n); the caller keeps to the documented bound. *)
release(n) ==
    /\ released + n <= MaxReleased
    /\ count + Cardinality(grant_pending) + n <= MaxCount
    /\ released' = released + n
    /\ claim_waiters(n, count, grant_pending, wake)
    /\ UNCHANGED <<cancellable, cancelling, scheduled, pc>>

(* await_suspend of acquire() allocates its wake state, which may throw ... *)
AllocationFails(w) ==
    /\ w \notin cancellable
    /\ Step(w, "suspend", "failed")
    /\ UNCHANGED <<permits, cancellable, wake, queues>>

(* ... then takes a permit or enqueues. *)
AwaitSuspend(w) ==
    /\ w \notin cancellable
    /\ \/ /\ count > 0
          /\ count' = count - 1
          /\ Step(w, "suspend", "completed")
          /\ UNCHANGED <<wake, waiters>>
       \/ /\ count = 0
          /\ Step(w, "suspend", "suspended")
          /\ wake' = [wake EXCEPT ![w] = set_handle(@)]
          /\ waiters' = push_back(waiters, w)
          /\ UNCHANGED count
    /\ UNCHANGED <<cancellable, grant_pending, queues, released>>

(* await_suspend of acquire(token) finds itself cancelled, or the           *)
(* cancellation comes inside the publication window and it takes itself out *)
(* of the queue again ...                                                   *)
SuspendCancelled(w) ==
    /\ w \in cancellable
    /\ was_cancelled(wake[w]) \/ count = 0
    /\ Step(w, "suspend", "resume")
    /\ wake' = [wake EXCEPT ![w] = IF was_cancelled(@) THEN @ ELSE "cancelled_inline"]
    /\ UNCHANGED <<permits, cancellable, queues>>

(* ... or takes a permit ... *)
SuspendAcquire(w) ==
    /\ w \in cancellable
    /\ ~was_cancelled(wake[w])
    /\ count > 0
    /\ count' = count - 1
    /\ Step(w, "suspend", "resume")
    /\ wake' = [wake EXCEPT ![w] = claim_notification(@)]
    /\ UNCHANGED <<waiters, cancellable, grant_pending, queues, released>>

(* ... which it has to hand on when a cancellation comes before the claim ...*)
SuspendRecover(w) ==
    /\ w \in cancellable
    /\ ~was_cancelled(wake[w])
    /\ count > 0
    /\ Step(w, "suspend", "resume")
    /\ claim_waiters(1, count - 1, grant_pending,
                     [wake EXCEPT ![w] = "cancelled_inline"])
    /\ UNCHANGED <<cancellable, cancelling, scheduled, released>>

(* ... or enqueues. *)
SuspendPublish(w) ==
    /\ w \in cancellable
    /\ ~was_cancelled(wake[w])
    /\ count = 0
    /\ Step(w, "suspend", "suspended")
    /\ wake' = [wake EXCEPT ![w] = unblock_after_publish(set_handle_blocked(@))]
    /\ waiters' = push_back(waiters, w)
    /\ UNCHANGED <<count, cancellable, grant_pending, queues, released>>

Dispatch(v) == ScheduleSelected(v) /\ UNCHANGED permits

Resume(w) == ResumeHandle(w) /\ UNCHANGED permits

(* await_resume, after the cancel callback is unregistered. *)
AwaitResume(w) ==
    /\ Unregistered(w)
    /\ \/ /\ was_cancelled(wake[w])
          /\ Step(w, "resume", "cancelled")
          /\ waiters' = remove(waiters, w)
          /\ UNCHANGED grant_pending
       \/ /\ ~was_cancelled(wake[w])
          /\ Step(w, "resume", "completed")
          /\ grant_pending' = grant_pending \ {w}
          /\ UNCHANGED waiters
    /\ UNCHANGED <<count, cancellable, wake, queues, released>>

Cancel(w) == RequestCancel(w) /\ UNCHANGED permits

CancelSchedule(w) == ScheduleClaimed(w) /\ UNCHANGED permits

(* Mutant of Destroy: the permit of a granted waiter goes with its frame. *)
MutDestroy(w) ==
    /\ MayBeDestroyed(w)
    /\ Step(w, "suspended", "destroyed")
    /\ waiters' = remove(waiters, w)
    /\ wake' = [wake EXCEPT ![w] = abandon(@)]
    /\ grant_pending' = grant_pending \ {w}
    /\ UNCHANGED <<count, cancellable, queues, released>>

(* ~acquire_waiter of a suspended frame that scheduling does not own yet. *)
Destroy(w) ==
    /\ MayBeDestroyed(w)
    /\ Step(w, "suspended", "destroyed")
    /\ \/ /\ w \notin grant_pending
          /\ waiters' = remove(waiters, w)
          /\ wake' = [wake EXCEPT ![w] = abandon(@)]
          /\ UNCHANGED <<count, grant_pending, to_schedule>>
       \/ /\ w \in grant_pending
          /\ claim_waiters(1, count, grant_pending \ {w},
                           [wake EXCEPT ![w] = abandon(@)])
    /\ UNCHANGED <<cancellable, cancelling, scheduled, released>>

(* A step of the operation of a waiter, or of the scheduler on its behalf. *)
Run(w) ==
    \/ AwaitReady(w)       \/ AwaitReadyToken(w) \/ AwaitSuspend(w)
    \/ SuspendAcquire(w)   \/ SuspendRecover(w)  \/ SuspendPublish(w)
    \/ SuspendCancelled(w) \/ Resume(w)          \/ AwaitResume(w)

Next ==
    \/ \E n \in 1..MaxReleased : release(n)
    \/ \E w \in Waiters :
        \/ \E t \in BOOLEAN : Begin(w, t)
        \/ Run(w)
        \/ try_acquire(w)
        \/ AllocationFails(w)
        \/ Dispatch(w)
        \/ Cancel(w)
        \/ CancelSchedule(w)
        \/ Destroy(w)

(* Operations and cancel callbacks that have begun run on, releasing        *)
(* threads schedule what they selected, and the scheduler resumes.          *)
Fairness ==
    \A w \in Waiters :
        WF_vars(Run(w)) /\ WF_vars(Dispatch(w)) /\ WF_vars(CancelSchedule(w))

Spec == Init /\ [][Next]_vars /\ Fairness

-----------------------------------------------------------------------------
(* Every variable has its type; a handle is in the scheduler's queues at    *)
(* most once.                                                               *)
TypeOK ==
    /\ count \in 0..MaxCount
    /\ waiters \in Seq(Waiters)
    /\ grant_pending \subseteq Waiters
    /\ WaiterTypeOK
    /\ released \in 0..MaxReleased

(* The waiter has a permit, or has been granted one it will find when it is *)
(* resumed.                                                                 *)
Owns(w) ==
    \/ pc[w] = "completed"
    \/ pc[w] = "resume" /\ ~was_cancelled(wake[w])
    \/ w \in grant_pending

Owners == {w \in Waiters : Owns(w)}

Pool == INSTANCE PermitPool
            WITH Clients <- Waiters, Initial <- InitialCount,
                 available <- count, owners <- Owners, created <- released

(* The semaphore is a permit pool: whatever release(), cancellation and     *)
(* destruction of a granted waiter do, a permit is available or owned.      *)
ImplementsPool == Pool!Spec

(* A permit is available only if every queued waiter has been cancelled:    *)
(* release() and a waiter that is about to enqueue do not miss each other.  *)
NoStrandedWaiter ==
    count > 0 => \A i \in 1..Len(waiters) : was_cancelled(wake[waiters[i]])

(* Whoever release() pops is woken although the wake is scheduled after the *)
(* lock, racing cancellation and destruction, and nobody else is.           *)
WakesAreExact == WakeIsComing(waiters) /\ OnlyLivingFrames(waiters)

(* count_ never exceeds what the type of it can hold, although the permits  *)
(* of granted waiters whose frames are destroyed come back later.           *)
NoOverflow == count <= MaxCount

(* A granted waiter cannot be cancelled any more, and nobody is selected    *)
(* but by a grant; a publication window never outlives the section it opens *)
(* in; the permits that are available or on their way fit into count_.      *)
GrantInv ==
    /\ \A w \in Waiters :
        /\ wake[w] # "blocked"
        /\ w \in grant_pending <=>
            \/ /\ pc[w] = "suspended"
               /\ \/ wake[w] \in {"notification_claimed", "notification_scheduling"}
                  \/ wake[w] = "waiting" /\ w \in to_schedule
            \/ pc[w] = "resume" /\ wake[w] = "notification_scheduling"
    /\ IsFiniteSet(grant_pending)
    /\ count + Cardinality(grant_pending) <= MaxCount

(* The inductive invariant. *)
IndInv == TypeOK /\ WaiterInv(waiters) /\ GrantInv /\ NoStrandedWaiter

(* Nobody waits who was granted a permit or cancelled. *)
Served ==
    \A w \in Waiters :
        pc[w] = "suspended" => w \notin grant_pending /\ ~was_cancelled(wake[w])

=============================================================================
