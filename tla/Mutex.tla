------------------------------- MODULE Mutex -------------------------------
(***************************************************************************)
(* sync::mutex.  A waiter is one lock operation: a try_lock(), a           *)
(* co_await lock() or a co_await lock(token), followed by the unlock() of  *)
(* the acquisition.  A coroutine that locks twice is two waiters, since    *)
(* every co_await builds an awaiter and a wake_state of its own.           *)
(*                                                                         *)
(* What internal_mutex_ protects is atomic except where another thread     *)
(* works without it: try_lock compares and exchanges state_, and a cancel  *)
(* callback compares and exchanges the wake state of its waiter.  A        *)
(* critical section those can interleave with holds internal_mutex over    *)
(* several steps.  schedule_wake_state always runs after the critical      *)
(* section and is a step of its own.                                       *)
(***************************************************************************)
EXTENDS WakeState

CONSTANTS Waiters,   \* the lock operations
          NoWaiter   \* null

ASSUME NoWaiterAssumption == NoWaiter \notin Waiters

VARIABLES
    state,           \* state_: "free" (nullptr) or "held" (1, or an address)
    internal_mutex,  \* the waiter inside a section held over several steps
    waiters,         \* waiters_, oldest first
    kind,            \* which of the three operations a waiter is
    wake,            \* state_ of the waiter's wake_state
    suspended,       \* the waiters whose waiter_state_.suspended is set
    grant_pending,   \* the waiters whose waiter_state_.grant_pending is set
    to_schedule,     \* the local to_schedule of the thread running a waiter
    cancelling,      \* the waiters whose request_cancel has still to schedule
    scheduled,       \* how often a waiter's handle is in the scheduler's queues
    pc,              \* where the waiter's coroutine, or its destructor, is
    after            \* where it goes on after recover_cancelled_handoff_locked

vars == <<state, internal_mutex, waiters, kind, wake, suspended, grant_pending,
          to_schedule, cancelling, scheduled, pc, after>>

Kinds == {"try_lock", "lock", "lock_token"}

(* How an operation can end: unlocked (or try_lock refused), cancelled,     *)
(* bad_alloc from await_suspend, frame destroyed while suspended.           *)
Ends == {"finished", "cancelled", "failed", "destroyed"}

Locations ==
    Ends \cup {"start", "try_lock", "ready", "ready_token", "ready_try",
               "ready_claim", "unlock_ready", "suspend", "enqueue",
               "suspend_token", "suspend_cas", "suspend_claim",
               "suspend_publish", "suspend_unblock", "suspended", "resume",
               "unlink", "owner", "recover", "dispatch"}

Init ==
    /\ state = "free"
    /\ internal_mutex = NoWaiter
    /\ waiters = <<>>
    /\ kind = [w \in Waiters |-> "lock"]
    /\ wake = [w \in Waiters |-> "idle"]
    /\ suspended = {}
    /\ grant_pending = {}
    /\ to_schedule = [w \in Waiters |-> NoWaiter]
    /\ cancelling = {}
    /\ scheduled = [w \in Waiters |-> 0]
    /\ pc = [w \in Waiters |-> "start"]
    /\ after = [w \in Waiters |-> "finished"]

Step(w, from, to) == pc[w] = from /\ pc' = [pc EXCEPT ![w] = to]

(* The call: try_lock(), or the construction of one of the two awaiters. *)
Begin(w, k) ==
    /\ Step(w, "start", IF k = "lock" THEN "ready" ELSE
                        IF k = "lock_token" THEN "ready_token" ELSE "try_lock")
    /\ kind' = [kind EXCEPT ![w] = k]
    /\ UNCHANGED <<state, internal_mutex, waiters, wake, suspended,
                   grant_pending, to_schedule, cancelling, scheduled, after>>

(* The compare-exchange of state_ from null, wherever it is made: "then" is *)
(* where the waiter goes on when it took the lock, "else" when it did not.  *)
Exchange(w, from, then, else) ==
    /\ \/ state = "free" /\ state' = "held" /\ Step(w, from, then)
       \/ state = "held" /\ state' = state  /\ Step(w, from, else)
    /\ UNCHANGED <<internal_mutex, waiters, kind, wake, suspended,
                   grant_pending, to_schedule, cancelling, scheduled, after>>

try_lock(w) == Exchange(w, "try_lock", "owner", "finished")

AwaitReady(w) == Exchange(w, "ready", "resume", "suspend")

(* await_ready of lock(token) first looks for a cancellation ... *)
AwaitReadyToken(w) ==
    /\ Step(w, "ready_token",
            IF was_cancelled(wake[w]) THEN "resume" ELSE "ready_try")
    /\ UNCHANGED <<state, internal_mutex, waiters, kind, wake, suspended,
                   grant_pending, to_schedule, cancelling, scheduled, after>>

(* ... then tries the lock ... *)
AwaitReadyTry(w) == Exchange(w, "ready_try", "ready_claim", "suspend_token")

(* Mutant of AwaitReadyClaim: the lock is kept when cancellation came first. *)
MutAwaitReadyClaim(w) ==
    /\ Step(w, "ready_claim", "resume")
    /\ wake' = [wake EXCEPT ![w] = claim_notification(@)]
    /\ UNCHANGED <<state, internal_mutex, waiters, kind, suspended,
                   grant_pending, to_schedule, cancelling, scheduled, after>>

(* ... and, if it got it, claims the result; when a cancellation came first *)
(* the lock has to be unlocked again.                                       *)
AwaitReadyClaim(w) ==
    /\ Step(w, "ready_claim",
            IF claim_rejected(wake[w]) THEN "unlock_ready" ELSE "resume")
    /\ wake' = [wake EXCEPT ![w] = claim_notification(@)]
    /\ UNCHANGED <<state, internal_mutex, waiters, kind, suspended,
                   grant_pending, to_schedule, cancelling, scheduled, after>>

(* await_suspend of lock(): another attempt before the wake state is        *)
(* allocated ...                                                            *)
AwaitSuspend(w) == Exchange(w, "suspend", "resume", "enqueue")

(* ... the allocation may throw, leaving nothing behind ... *)
AllocationFails(w) ==
    /\ Step(w, "enqueue", "failed")
    /\ UNCHANGED <<state, internal_mutex, waiters, kind, wake, suspended,
                   grant_pending, to_schedule, cancelling, scheduled, after>>

(* ... and under internal_mutex_ a last attempt before the waiter is        *)
(* enqueued.                                                                *)
Enqueue(w) ==
    /\ internal_mutex = NoWaiter
    /\ \/ /\ state = "free"
          /\ state' = "held"
          /\ Step(w, "enqueue", "resume")
          /\ UNCHANGED <<wake, waiters, suspended>>
       \/ /\ state = "held"
          /\ Step(w, "enqueue", "suspended")
          /\ wake' = [wake EXCEPT ![w] = set_handle(@)]
          /\ waiters' = push_back(waiters, w)
          /\ suspended' = suspended \cup {w}
          /\ UNCHANGED state
    /\ UNCHANGED <<internal_mutex, kind, grant_pending, to_schedule,
                   cancelling, scheduled, after>>

(* await_suspend of lock(token) takes internal_mutex_ and returns at once   *)
(* when it finds the wait cancelled ...                                     *)
AwaitSuspendToken(w) ==
    /\ internal_mutex = NoWaiter
    /\ \/ /\ was_cancelled(wake[w])
          /\ Step(w, "suspend_token", "resume")
          /\ UNCHANGED internal_mutex
       \/ /\ ~was_cancelled(wake[w])
          /\ Step(w, "suspend_token", "suspend_cas")
          /\ internal_mutex' = w
    /\ UNCHANGED <<state, waiters, kind, wake, suspended, grant_pending,
                   to_schedule, cancelling, scheduled, after>>

(* ... tries the lock ... *)
SuspendExchange(w) ==
    Exchange(w, "suspend_cas", "suspend_claim", "suspend_publish")

(* ... claims the result if it got it, or hands the lock on when a          *)
(* cancellation was faster ...                                              *)
SuspendClaim(w) ==
    /\ \/ /\ ~claim_rejected(wake[w])
          /\ Step(w, "suspend_claim", "resume")
          /\ wake' = [wake EXCEPT ![w] = claim_notification(@)]
          /\ internal_mutex' = NoWaiter
          /\ UNCHANGED after
       \/ /\ claim_rejected(wake[w])
          /\ Step(w, "suspend_claim", "recover")
          /\ after' = [after EXCEPT ![w] = "resume"]
          /\ UNCHANGED <<wake, internal_mutex>>
    /\ UNCHANGED <<state, waiters, kind, suspended, grant_pending,
                   to_schedule, cancelling, scheduled>>

(* ... or publishes its handle, blocked, and enqueues ... *)
SuspendPublish(w) ==
    /\ \/ /\ set_handle_blocked(wake[w]) = wake[w]
          /\ Step(w, "suspend_publish", "resume")
          /\ internal_mutex' = NoWaiter
          /\ UNCHANGED <<wake, waiters, suspended>>
       \/ /\ set_handle_blocked(wake[w]) # wake[w]
          /\ Step(w, "suspend_publish", "suspend_unblock")
          /\ wake' = [wake EXCEPT ![w] = set_handle_blocked(@)]
          /\ waiters' = push_back(waiters, w)
          /\ suspended' = suspended \cup {w}
          /\ UNCHANGED internal_mutex
    /\ UNCHANGED <<state, kind, grant_pending, to_schedule, cancelling,
                   scheduled, after>>

(* Mutant of SuspendUnblock: the cancelled waiter stays in the queue. *)
MutSuspendUnblock(w) ==
    /\ internal_mutex' = NoWaiter
    /\ Step(w, "suspend_unblock",
            IF wake[w] = "blocked" THEN "suspended" ELSE "resume")
    /\ wake' = [wake EXCEPT ![w] = unblock_after_publish(@)]
    /\ suspended' = IF wake[w] = "blocked" THEN suspended ELSE suspended \ {w}
    /\ UNCHANGED <<state, waiters, kind, grant_pending, to_schedule,
                   cancelling, scheduled, after>>

(* ... and ends the publication window; when a cancellation came inside it  *)
(* the waiter takes itself out of the queue and does not suspend.           *)
SuspendUnblock(w) ==
    /\ internal_mutex' = NoWaiter
    /\ \/ /\ unblock_after_publish(wake[w]) # wake[w]
          /\ Step(w, "suspend_unblock", "suspended")
          /\ wake' = [wake EXCEPT ![w] = unblock_after_publish(@)]
          /\ UNCHANGED <<waiters, suspended>>
       \/ /\ unblock_after_publish(wake[w]) = wake[w]
          /\ Step(w, "suspend_unblock", "resume")
          /\ waiters' = remove(waiters, w)
          /\ suspended' = suspended \ {w}
          /\ UNCHANGED wake
    /\ UNCHANGED <<state, kind, grant_pending, to_schedule, cancelling,
                   scheduled, after>>

(* The scheduler takes the handle from its queues and resumes the coroutine. *)
Resume(w) ==
    /\ scheduled[w] > 0
    /\ scheduled' = [scheduled EXCEPT ![w] = @ - 1]
    /\ Step(w, "suspended", "resume")
    /\ UNCHANGED <<state, internal_mutex, waiters, kind, wake, suspended,
                   grant_pending, to_schedule, cancelling, after>>

(* await_resume.  That of lock(token) first unregisters the cancel callback,*)
(* which waits for a callback that is running.  (resumed only ever changes  *)
(* with grant_pending and says nothing more.)                               *)
AwaitResume(w) ==
    /\ w \notin cancelling
    /\ \/ /\ was_cancelled(wake[w])
          /\ Step(w, "resume", IF w \in suspended THEN "unlink" ELSE "cancelled")
          /\ UNCHANGED <<grant_pending, suspended>>
       \/ /\ ~was_cancelled(wake[w])
          /\ Step(w, "resume", "owner")
          /\ grant_pending' = grant_pending \ {w}
          /\ suspended' = suspended \ {w}
    /\ UNCHANGED <<state, internal_mutex, waiters, kind, wake, to_schedule,
                   cancelling, scheduled, after>>

(* The rest of await_resume of a waiter cancelled while it was suspended. *)
Unlink(w) ==
    /\ internal_mutex = NoWaiter
    /\ Step(w, "unlink", "cancelled")
    /\ waiters' = remove(waiters, w)
    /\ suspended' = suspended \ {w}
    /\ UNCHANGED <<state, internal_mutex, kind, wake, grant_pending,
                   to_schedule, cancelling, scheduled, after>>

(* unlock() by the owner, or by await_ready giving the lock back. *)
unlock(w) ==
    /\ internal_mutex = NoWaiter
    /\ internal_mutex' = w
    /\ \/ /\ Step(w, "owner", "recover")
          /\ after' = [after EXCEPT ![w] = "finished"]
       \/ /\ Step(w, "unlock_ready", "recover")
          /\ after' = [after EXCEPT ![w] = "resume"]
    /\ UNCHANGED <<state, waiters, kind, wake, suspended, grant_pending,
                   to_schedule, cancelling, scheduled>>

(* recover_cancelled_handoff_locked: a waiter taken from the queue gets the *)
(* lock, unless it can be cancelled and its cancellation came first ...     *)
Handoff(w) ==
    /\ pc[w] = "recover"
    /\ waiters # <<>>
    /\ LET v == front(waiters) IN
       \/ /\ kind[v] = "lock_token"
          /\ claim_rejected(wake[v])
          /\ UNCHANGED <<state, internal_mutex, wake, grant_pending,
                         to_schedule, pc>>
       \/ /\ kind[v] = "lock_token" => ~claim_rejected(wake[v])
          /\ wake' = IF kind[v] = "lock_token"
                     THEN [wake EXCEPT ![v] = claim_notification(@)]
                     ELSE wake
          /\ state' = "held"
          /\ grant_pending' = grant_pending \cup {v}
          /\ to_schedule' = [to_schedule EXCEPT ![w] = v]
          /\ internal_mutex' = NoWaiter
          /\ Step(w, "recover", "dispatch")
    /\ waiters' = pop_front(waiters)
    /\ UNCHANGED <<kind, suspended, cancelling, scheduled, after>>

(* ... and when no waiter is left the lock becomes free. *)
Release(w) ==
    /\ waiters = <<>>
    /\ state' = "free"
    /\ internal_mutex' = NoWaiter
    /\ Step(w, "recover", after[w])
    /\ UNCHANGED <<waiters, kind, wake, suspended, grant_pending, to_schedule,
                   cancelling, scheduled, after>>

(* schedule_wake_state(to_schedule), outside the critical section. *)
Dispatch(w) ==
    LET v == to_schedule[w] IN
    /\ Step(w, "dispatch", after[w])
    /\ wake' = [wake EXCEPT ![v] = schedule_selected(@)]
    /\ scheduled' = IF selected_schedules(wake[v])
                    THEN [scheduled EXCEPT ![v] = @ + 1]
                    ELSE scheduled
    /\ to_schedule' = [to_schedule EXCEPT ![w] = NoWaiter]
    /\ UNCHANGED <<state, internal_mutex, waiters, kind, suspended,
                   grant_pending, cancelling, after>>

(* The awaiter of lock(token) exists and its cancel callback is registered. *)
Registered(w) ==
    /\ kind[w] = "lock_token"
    /\ pc[w] \notin {"start", "unlink", "owner"} \cup Ends
    /\ pc[w] \in {"recover", "dispatch"} => after[w] = "resume"

(* The cancel callback of another thread: the compare-exchange of           *)
(* request_cancel ...                                                       *)
Cancel(w) ==
    /\ Registered(w)
    /\ request_cancel(wake[w]) # wake[w]
    /\ wake' = [wake EXCEPT ![w] = request_cancel(@)]
    /\ cancelling' = IF wake[w] = "waiting" THEN cancelling \cup {w}
                                            ELSE cancelling
    /\ UNCHANGED <<state, internal_mutex, waiters, kind, suspended,
                   grant_pending, to_schedule, scheduled, pc, after>>

(* ... and, for a waiter that was waiting, schedule_claimed. *)
CancelSchedule(w) ==
    /\ w \in cancelling
    /\ cancelling' = cancelling \ {w}
    /\ wake' = [wake EXCEPT ![w] = schedule_claimed(@)]
    /\ scheduled' = IF claimed_schedules(wake[w])
                    THEN [scheduled EXCEPT ![w] = @ + 1]
                    ELSE scheduled
    /\ UNCHANGED <<state, internal_mutex, waiters, kind, suspended,
                   grant_pending, to_schedule, pc, after>>

(* ~lock_waiter of a suspended frame.  The contract lets a frame be         *)
(* destroyed until scheduling owns its handle; the destructor has           *)
(* unregistered the cancel callback first, which waits for a running one.   *)
Destroy(w) ==
    /\ internal_mutex = NoWaiter
    /\ pc[w] = "suspended"
    /\ ~scheduling(wake[w])
    /\ w \notin cancelling
    /\ wake' = [wake EXCEPT ![w] = abandon(@)]
    /\ \/ /\ is_linked(waiters, w) \/ w \notin grant_pending
          /\ waiters' = remove(waiters, w)
          /\ Step(w, "suspended", "destroyed")
          /\ UNCHANGED <<internal_mutex, grant_pending, after>>
       \/ /\ ~is_linked(waiters, w) /\ w \in grant_pending
          /\ grant_pending' = grant_pending \ {w}
          /\ internal_mutex' = w
          /\ Step(w, "suspended", "recover")
          /\ after' = [after EXCEPT ![w] = "destroyed"]
          /\ UNCHANGED waiters
    /\ UNCHANGED <<state, kind, suspended, to_schedule, cancelling, scheduled>>

(* A step of the thread that runs the waiter's operation. *)
Run(w) ==
    \/ try_lock(w)        \/ AwaitReady(w)      \/ AwaitReadyToken(w)
    \/ AwaitReadyTry(w)   \/ AwaitReadyClaim(w) \/ AwaitSuspend(w)
    \/ Enqueue(w)         \/ AwaitSuspendToken(w)
    \/ SuspendExchange(w) \/ SuspendClaim(w)    \/ SuspendPublish(w)
    \/ SuspendUnblock(w)  \/ Resume(w)          \/ AwaitResume(w)
    \/ Unlink(w)          \/ unlock(w)          \/ Handoff(w)
    \/ Release(w)         \/ Dispatch(w)

Next ==
    \E w \in Waiters :
        \/ \E k \in Kinds : Begin(w, k)
        \/ Run(w)
        \/ AllocationFails(w)
        \/ Cancel(w)
        \/ CancelSchedule(w)
        \/ Destroy(w)

(* Threads run on, owners unlock, the scheduler resumes what it holds and a *)
(* cancel callback runs to its end; nobody has to begin, cancel or destroy. *)
Fairness == \A w \in Waiters : WF_vars(Run(w)) /\ WF_vars(CancelSchedule(w))

Spec == Init /\ [][Next]_vars /\ Fairness

-----------------------------------------------------------------------------
(* Every variable has its type; in particular a handle is in the            *)
(* scheduler's queues at most once, whatever unlock(), cancellation and     *)
(* destruction of the frame do concurrently.                                *)
TypeOK ==
    /\ state \in {"free", "held"}
    /\ internal_mutex \in Waiters \cup {NoWaiter}
    /\ waiters \in Seq(Waiters)
    /\ kind \in [Waiters -> Kinds]
    /\ wake \in [Waiters -> WakeStates]
    /\ suspended \subseteq Waiters
    /\ grant_pending \subseteq Waiters
    /\ to_schedule \in [Waiters -> Waiters \cup {NoWaiter}]
    /\ cancelling \subseteq Waiters
    /\ scheduled \in [Waiters -> {0, 1}]
    /\ pc \in [Waiters -> Locations]
    /\ after \in [Waiters -> {"finished", "resume", "destroyed"}]

(* The waiter owns the lock, or is answerable for it: it has been granted   *)
(* but not resumed, or it is the thread that is handing it on.              *)
Holds(w) ==
    \/ pc[w] \in {"ready_claim", "unlock_ready", "suspend_claim", "owner",
                  "recover"}
    \/ pc[w] = "resume" /\ ~was_cancelled(wake[w])
    \/ pc[w] = "suspended" /\ w \in grant_pending

(* state_ is held exactly while one waiter answers for the lock: the races  *)
(* of unlock(), cancellation and destruction of a granted waiter neither    *)
(* lose the ownership nor give it to two waiters.                           *)
OneHolder ==
    /\ \A v, w \in Waiters : Holds(v) /\ Holds(w) => v = w
    /\ state = "held" <=> \E w \in Waiters : Holds(w)

Pool == INSTANCE PermitPool
            WITH Clients <- Waiters, Initial <- 1, created <- 0,
                 available <- IF state = "free" THEN 1 ELSE 0,
                 owners <- {w \in Waiters : Holds(w)}

(* The mutex is a pool of one permit, and every change of ownership is one  *)
(* of the pool's.                                                           *)
ImplementsPool == Pool!Spec

(* Nobody waits in the queue of a free lock: a waiter that enqueues while   *)
(* the lock is being released is not forgotten.                             *)
NoStrandedWaiter == waiters # <<>> => state = "held"

(* A handle in the scheduler's queues belongs to a suspended, living frame  *)
(* that was granted the lock or cancelled: nothing resumes a coroutine that *)
(* runs, has finished or was destroyed.                                     *)
ScheduledIsSuspended ==
    \A w \in Waiters : scheduled[w] > 0 =>
        /\ pc[w] = "suspended"
        /\ w \in grant_pending <=> ~was_cancelled(wake[w])

(* Nobody waits: as long as owners unlock, every suspended waiter whose     *)
(* frame lives is resumed or destroyed, so this is always so again.         *)
Served == \A w \in Waiters : pc[w] # "suspended"

-----------------------------------------------------------------------------
(* The strengthening that makes OneHolder inductive.  First, what the       *)
(* location of a waiter says about its wake state ...                       *)
LocationInv ==
    \A w \in Waiters :
        /\ pc[w] = "start" => wake[w] = "idle"
        /\ pc[w] = "try_lock" => kind[w] = "try_lock" /\ wake[w] = "idle"
        /\ pc[w] \in {"ready", "suspend", "enqueue"} =>
               kind[w] = "lock" /\ wake[w] = "idle"
        /\ pc[w] \in {"ready_token", "ready_try", "ready_claim",
                      "suspend_token", "suspend_cas", "suspend_claim",
                      "suspend_publish"} =>
               kind[w] = "lock_token" /\ wake[w] \in {"idle", "cancelled_inline"}
        /\ pc[w] = "unlock_ready" => wake[w] = "cancelled_inline"
        /\ pc[w] = "suspend_unblock" =>
               kind[w] = "lock_token" /\ wake[w] \in {"blocked", "cancelled_inline"}
        /\ pc[w] = "suspended" =>
               wake[w] \in {"waiting", "notification_claimed",
                            "cancellation_claimed", "notification_scheduling",
                            "cancellation_scheduling"}
        /\ pc[w] = "resume" =>
               /\ wake[w] \notin {"blocked", "waiting"}
               /\ kind[w] = "lock_token" => wake[w] # "idle"
        /\ pc[w] \in {"recover", "dispatch"} /\ after[w] = "resume" =>
               wake[w] = "cancelled_inline"

(* ... a section held over several steps excludes every other one, and one  *)
(* that is about to enqueue knows the lock to be held ...                   *)
SectionInv ==
    \A w \in Waiters :
        /\ pc[w] \in {"suspend_cas", "suspend_claim", "suspend_publish",
                      "suspend_unblock", "recover"} => internal_mutex = w
        /\ pc[w] = "suspend_publish" => state = "held"

(* ... a queued waiter is queued once, has not been granted the lock and    *)
(* either waits or has been cancelled ...                                   *)
QueueInv ==
    /\ \A i, j \in 1..Len(waiters) : waiters[i] = waiters[j] => i = j
    /\ \A i \in 1..Len(waiters) :
           /\ waiters[i] \in suspended \ grant_pending
           /\ \/ pc[waiters[i]] = "suspend_unblock"
              \/ /\ pc[waiters[i]] = "suspended"
                 /\ kind[waiters[i]] # "lock_token" => wake[waiters[i]] = "waiting"
              \/ /\ pc[waiters[i]] \in {"resume", "unlink"}
                 /\ kind[waiters[i]] = "lock_token"
                 /\ was_cancelled(wake[waiters[i]])

(* ... a granted waiter cannot be cancelled any more ... *)
GrantInv ==
    \A w \in grant_pending :
        /\ pc[w] \in {"suspended", "resume"}
        /\ ~was_cancelled(wake[w])
        /\ kind[w] = "lock_token" => wake[w] # "waiting"

(* ... only the winner of the last compare-exchange schedules ... *)
WakeInv ==
    /\ \A w \in Waiters : scheduled[w] > 0 => scheduling(wake[w])
    /\ \A w \in cancelling :
           /\ pc[w] = "suspended"
           /\ w \notin grant_pending
           /\ wake[w] = "cancellation_claimed"

(* ... and the wake a thread is about to dispatch is still wanted, already  *)
(* done, or abandoned with its frame.                                       *)
DispatchInv ==
    \A w \in Waiters : pc[w] = "dispatch" =>
        /\ to_schedule[w] \in Waiters
        /\ LET v == to_schedule[w] IN
           \/ scheduling(wake[v]) \/ wake[v] = "abandoned"
           \/ /\ v \in grant_pending
              /\ pc[v] = "suspended"
              /\ wake[v] \in {"waiting", "notification_claimed"}

(* The inductive invariant: ownership of the lock, of the internal mutex    *)
(* and of each waiter's wake, at every step of every operation.             *)
IndInv ==
    /\ TypeOK
    /\ LocationInv
    /\ SectionInv
    /\ QueueInv
    /\ GrantInv
    /\ WakeInv
    /\ DispatchInv
    /\ ScheduledIsSuspended
    /\ OneHolder
    /\ NoStrandedWaiter

=============================================================================
