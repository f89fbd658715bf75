-------------------------------- MODULE Sync --------------------------------
(***************************************************************************)
(* A program with a mutex, a semaphore, an event, a condition variable and *)
(* a shared mutex.  They are independent: a behaviour uses one of them,    *)
(* "used", and the others stay as they were constructed.  What they        *)
(* promise alike is stated once, for whichever is used.                    *)
(***************************************************************************)
EXTENDS Mutex

CONSTANTS InitialCount, MaxCount, MaxReleased,    \* of the semaphore
          CvWaiters, NoOwner,                     \* of the condition variable
          SmWaiters, SmReaders,                   \* of the shared mutex
          TryOps, WaitOps, TokenOps, Nobody

ASSUME CountAssumption ==
    /\ InitialCount \in Nat /\ MaxCount \in Nat /\ MaxReleased \in Nat
    /\ InitialCount <= MaxCount

ASSUME NoOwnerAssumption == NoOwner \notin CvWaiters

VARIABLES
    used,
    p_count, p_waiters, p_grant_pending, p_released,
    p_cancellable, p_wake, p_to_schedule, p_cancelling, p_scheduled, p_pc,
    e_signaled, e_waiters,
    e_cancellable, e_wake, e_to_schedule, e_cancelling, e_scheduled, e_pc,
    c_waiters, c_locked, c_lock, c_lock_released,
    c_cancellable, c_wake, c_to_schedule, c_cancelling, c_scheduled, c_pc,
    s_readers, s_writer_active, s_writer_waiting, s_reader_waiters,
    s_writer_waiters, s_grant_pending, s_section, s_reserved,
    s_cancellable, s_wake, s_to_schedule, s_cancelling, s_scheduled, s_pc

Sem == INSTANCE Semaphore
        WITH count <- p_count, waiters <- p_waiters, grant_pending <- p_grant_pending,
             released <- p_released, cancellable <- p_cancellable, wake <- p_wake,
             to_schedule <- p_to_schedule, cancelling <- p_cancelling,
             scheduled <- p_scheduled, pc <- p_pc

Ev == INSTANCE Event
        WITH signaled <- e_signaled, waiters <- e_waiters, cancellable <- e_cancellable,
             wake <- e_wake, to_schedule <- e_to_schedule, cancelling <- e_cancelling,
             scheduled <- e_scheduled, pc <- e_pc

Cv == INSTANCE ConditionVariable
        WITH Waiters <- CvWaiters, waiters <- c_waiters, locked <- c_locked,
             lock <- c_lock, lock_released <- c_lock_released,
             cancellable <- c_cancellable, wake <- c_wake, to_schedule <- c_to_schedule,
             cancelling <- c_cancelling, scheduled <- c_scheduled, pc <- c_pc

Sm == INSTANCE SharedMutex
        WITH Waiters <- SmWaiters, Readers <- SmReaders,
             readers <- s_readers, writer_active <- s_writer_active,
             writer_waiting <- s_writer_waiting, reader_waiters <- s_reader_waiters,
             writer_waiters <- s_writer_waiters, grant_pending <- s_grant_pending,
             section <- s_section, reserved <- s_reserved, cancellable <- s_cancellable,
             wake <- s_wake, to_schedule <- s_to_schedule, cancelling <- s_cancelling,
             scheduled <- s_scheduled, pc <- s_pc

semVars == <<p_count, p_waiters, p_grant_pending, p_released, p_cancellable, p_wake,
             p_to_schedule, p_cancelling, p_scheduled, p_pc>>
eventVars == <<e_signaled, e_waiters, e_cancellable, e_wake, e_to_schedule,
               e_cancelling, e_scheduled, e_pc>>
cvVars == <<c_waiters, c_locked, c_lock, c_lock_released, c_cancellable, c_wake,
            c_to_schedule, c_cancelling, c_scheduled, c_pc>>
smVars == <<s_readers, s_writer_active, s_writer_waiting, s_reader_waiters,
            s_writer_waiters, s_grant_pending, s_section, s_reserved, s_cancellable,
            s_wake, s_to_schedule, s_cancelling, s_scheduled, s_pc>>
syncVars == <<used, vars, semVars, eventVars, cvVars, smVars>>

SyncInit ==
    /\ used \in {"mutex", "semaphore", "event", "condition_variable", "shared_mutex"}
    /\ Init /\ Sem!Init /\ Ev!Init /\ Cv!Init /\ Sm!Init

SyncNext ==
    /\ \/ used = "mutex" /\ Next /\ UNCHANGED <<semVars, eventVars, cvVars, smVars>>
       \/ used = "semaphore" /\ Sem!Next /\ UNCHANGED <<vars, eventVars, cvVars, smVars>>
       \/ used = "event" /\ Ev!Next /\ UNCHANGED <<vars, semVars, cvVars, smVars>>
       \/ used = "condition_variable" /\ Cv!Next
          /\ UNCHANGED <<vars, semVars, eventVars, smVars>>
       \/ used = "shared_mutex" /\ Sm!Next /\ UNCHANGED <<vars, semVars, eventVars, cvVars>>
    /\ UNCHANGED used

SyncSpec == SyncInit /\ [][SyncNext]_syncVars

-----------------------------------------------------------------------------
(* The inductive invariants of the mutex, the semaphore, the event and the  *)
(* condition variable: who answers for a lock or a permit, who is queued,   *)
(* and who has still to schedule whose wake, at every step of every         *)
(* operation, callback and destructor.                                      *)
InductiveInvariants == IndInv /\ Sem!IndInv /\ Ev!IndInv /\ Cv!IndInv

(* No wake of the semaphore is lost or misdirected: whoever release() takes *)
(* from the queue while it is suspended is woken, although the wake is      *)
(* scheduled after the lock is released and races with cancellation and     *)
(* destruction; no node or handle of a finished or destroyed frame is       *)
(* queued or scheduled; nobody waits beside an available permit; and the    *)
(* permits that come back from destroyed frames never overflow count_.      *)
SemaphoreIsSafe == Sem!WakesAreExact /\ Sem!NoStrandedWaiter /\ Sem!NoOverflow

(* The same of set() of the event, which wakes everybody and races with     *)
(* reset(): nobody is left waiting on an event that is set.                 *)
EventIsSafe == Ev!WakesAreExact /\ Ev!NobodyWaitsWhenSet

(* The same of notify; and wait(lock) gives its caller back a lock it owns  *)
(* on every path, and the waiter is in the queue from the moment it has     *)
(* released the lock until it is notified or cancelled.                     *)
ConditionVariableIsSafe == Cv!WakesAreExact /\ Cv!LockDiscipline

(* The same of the unlocks of the shared mutex; and WRITER_WAITING keeps    *)
(* new readers out exactly as long as a writer is queued.                   *)
SharedMutexIsSafe == Sm!WakesAreExact /\ Sm!PreferenceIsExact

(* No step of the shared mutex breaks the exclusion of readers and writers  *)
(* or the count of the owners, but for the retry of                         *)
(* finish_writer_removal_locked where its assertion fails.                  *)
ExclusionIsKept == [][Sm!ExclusionIsKept]_syncVars

(* Mutex and semaphore are pools of permits: whatever unlock(), release(),  *)
(* cancellation and destruction of a granted waiter do, a permit is         *)
(* available or owned, and changes hands by a step of the pool.             *)
PoolsAreImplemented == ImplementsPool /\ Sem!ImplementsPool

(* notify_one() with a waiter that still wants it in the queue selects one: *)
(* cancelled waiters do not use the notification up.                        *)
NotifyReachesSomebody == Cv!NotifyReachesSomebody

=============================================================================
