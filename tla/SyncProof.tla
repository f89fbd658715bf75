----------------------------- MODULE SyncProof -----------------------------
(***************************************************************************)
(* Proof that the synchronisation primitives keep their promises, for any  *)
(* sets of operations and any number of permits: the lemmas of the         *)
(* components put together for a program that uses one of them.            *)
(***************************************************************************)
EXTENDS Sync, MutexProof

-----------------------------------------------------------------------------
(* The primitives of Sync and those of the lemmas are the same modules with *)
(* the same substitutions.  First the events.                               *)

EvP == INSTANCE EventProof
        WITH signaled <- e_signaled, waiters <- e_waiters, cancellable <- e_cancellable,
             wake <- e_wake, to_schedule <- e_to_schedule, cancelling <- e_cancelling,
             scheduled <- e_scheduled, pc <- e_pc

(* The events start alike, ... *)
LEMMA SameEventInit == Ev!Init <=> EvP!Init
  BY ZenonT(30) DEF Ev!Init, EvP!Init, Ev!WaiterInit, EvP!WaiterInit

(* ... have the same invariant, ... *)
LEMMA SameEventInv ==
    (Ev!IndInv <=> EvP!IndInv) /\ (Ev!IndInv' <=> EvP!IndInv')
  BY ZenonT(30) DEF Ev!IndInv, EvP!IndInv, Ev!TypeOK, EvP!TypeOK, Ev!WaiterInv, EvP!WaiterInv,
         Ev!NobodyWaitsWhenSet, EvP!NobodyWaitsWhenSet, Ev!WaiterTypeOK,
         EvP!WaiterTypeOK, Ev!LocationInv, EvP!LocationInv, Ev!QueueInv, EvP!QueueInv,
         Ev!SelectedInv, EvP!SelectedInv, Ev!QueuedInv, EvP!QueuedInv, Ev!WakeStates,
         EvP!WakeStates, Ev!Locations, EvP!Locations, Ev!was_cancelled,
         EvP!was_cancelled, Ev!scheduling, EvP!scheduling, Ev!is_linked, EvP!is_linked,
         Ev!Ends, EvP!Ends

(* ... the same steps, ... *)
LEMMA SameEventStep == [Ev!Next]_eventVars => [EvP!Next]_(EvP!vars)
  BY ZenonT(30) DEF Ev!Next, EvP!Next, Ev!vars, EvP!vars, Ev!set, EvP!set, Ev!reset, EvP!reset,
         Ev!Begin, EvP!Begin, Ev!Run, EvP!Run, Ev!AllocationFails, EvP!AllocationFails,
         Ev!Dispatch, EvP!Dispatch, Ev!Cancel, EvP!Cancel, Ev!CancelSchedule,
         EvP!CancelSchedule, Ev!Destroy, EvP!Destroy, Ev!event, EvP!event,
         Ev!waiterVars, EvP!waiterVars, Ev!is_linked, EvP!is_linked, Ev!Claimable,
         EvP!Claimable, Ev!claim, EvP!claim, Ev!BeginWait, EvP!BeginWait,
         Ev!AwaitReady, EvP!AwaitReady, Ev!Recheck, EvP!Recheck, Ev!Enqueue,
         EvP!Enqueue, Ev!AwaitSuspendToken, EvP!AwaitSuspendToken, Ev!Resume,
         EvP!Resume, Ev!AwaitResume, EvP!AwaitResume, Ev!Step, EvP!Step, Ev!queues,
         EvP!queues, Ev!ScheduleSelected, EvP!ScheduleSelected, Ev!RequestCancel,
         EvP!RequestCancel, Ev!ScheduleClaimed, EvP!ScheduleClaimed, Ev!MayBeDestroyed,
         EvP!MayBeDestroyed, Ev!remove, EvP!remove, Ev!abandon, EvP!abandon,
         Ev!claim_rejected, EvP!claim_rejected, Ev!claim_notification,
         EvP!claim_notification, Ev!was_cancelled, EvP!was_cancelled, Ev!set_handle,
         EvP!set_handle, Ev!push_back, EvP!push_back, Ev!unblock_after_publish,
         EvP!unblock_after_publish, Ev!set_handle_blocked, EvP!set_handle_blocked,
         Ev!ResumeHandle, EvP!ResumeHandle, Ev!Unregistered, EvP!Unregistered,
         Ev!schedule_selected, EvP!schedule_selected, Ev!selected_schedules,
         EvP!selected_schedules, Ev!Ends, EvP!Ends, Ev!request_cancel,
         EvP!request_cancel, Ev!schedule_claimed, EvP!schedule_claimed,
         Ev!claimed_schedules, EvP!claimed_schedules, Ev!scheduling, EvP!scheduling, eventVars

(* ... and promise the same. *)
LEMMA SameEventSafe ==
    (EvP!WakesAreExact => Ev!WakesAreExact) /\ (EvP!NobodyWaitsWhenSet => Ev!NobodyWaitsWhenSet)
  BY ZenonT(30) DEF Ev!WakesAreExact, EvP!WakesAreExact, Ev!NobodyWaitsWhenSet,
         EvP!NobodyWaitsWhenSet, Ev!WakeIsComing, EvP!WakeIsComing,
         Ev!OnlyLivingFrames, EvP!OnlyLivingFrames, Ev!is_linked, EvP!is_linked,
         Ev!Ends, EvP!Ends

(* What the lemmas show of an event. *)
LEMMA EventKeeps ==
    /\ Ev!Init => Ev!IndInv
    /\ Ev!IndInv /\ [Ev!Next]_eventVars => Ev!IndInv'
    /\ Ev!IndInv => Ev!WakesAreExact /\ Ev!NobodyWaitsWhenSet
<1>1. Ev!Init => Ev!IndInv
  BY SameEventInit, SameEventInv, EvP!InitInv
<1>2. Ev!IndInv /\ [Ev!Next]_eventVars => Ev!IndInv'
  BY SameEventInv, SameEventStep, EvP!NextInv
<1>3. Ev!IndInv => Ev!WakesAreExact /\ Ev!NobodyWaitsWhenSet
  BY SameEventInv, EvP!Safe, SameEventSafe
<1> QED BY <1>1, <1>2, <1>3

-----------------------------------------------------------------------------
CvP == INSTANCE ConditionVariableProof
        WITH Waiters <- CvWaiters, waiters <- c_waiters, locked <- c_locked,
             lock <- c_lock, lock_released <- c_lock_released,
             cancellable <- c_cancellable, wake <- c_wake, to_schedule <- c_to_schedule,
             cancelling <- c_cancelling, scheduled <- c_scheduled, pc <- c_pc

(* The condition variables start alike, ... *)
LEMMA SameCvInit == Cv!Init <=> CvP!Init
  BY ZenonT(30) DEF Cv!Init, CvP!Init, Cv!WaiterInit, CvP!WaiterInit

(* ... have the same invariant, ... *)
LEMMA SameCvInv ==
    (Cv!IndInv <=> CvP!IndInv) /\ (Cv!IndInv' <=> CvP!IndInv')
  BY ZenonT(30) DEF Cv!IndInv, CvP!IndInv, Cv!TypeOK, CvP!TypeOK, Cv!WaiterInv, CvP!WaiterInv,
         Cv!LockInv, CvP!LockInv, Cv!LockDiscipline, CvP!LockDiscipline,
         Cv!WaiterTypeOK, CvP!WaiterTypeOK, Cv!LocationInv, CvP!LocationInv,
         Cv!QueueInv, CvP!QueueInv, Cv!SelectedInv, CvP!SelectedInv, Cv!QueuedInv,
         CvP!QueuedInv, Cv!is_linked, CvP!is_linked, Cv!WakeStates, CvP!WakeStates,
         Cv!Locations, CvP!Locations, Cv!was_cancelled, CvP!was_cancelled,
         Cv!scheduling, CvP!scheduling, Cv!Ends, CvP!Ends

(* ... the same steps, ... *)
LEMMA SameCvStep == [Cv!Next]_cvVars => [CvP!Next]_(CvP!vars)
  BY ZenonT(30) DEF Cv!Next, CvP!Next, Cv!vars, CvP!vars, Cv!notify_one, CvP!notify_one,
         Cv!notify_all, CvP!notify_all, Cv!Begin, CvP!Begin, Cv!Run, CvP!Run,
         Cv!Relock, CvP!Relock, Cv!Dispatch, CvP!Dispatch, Cv!Cancel, CvP!Cancel,
         Cv!CancelSchedule, CvP!CancelSchedule, Cv!Destroy, CvP!Destroy, Cv!cv, CvP!cv,
         Cv!waiterVars, CvP!waiterVars, Cv!notify, CvP!notify, Cv!BeginWait,
         CvP!BeginWait, Cv!AwaitReady, CvP!AwaitReady, Cv!SuspendUnlocked,
         CvP!SuspendUnlocked, Cv!Prepare, CvP!Prepare, Cv!Unlock, CvP!Unlock,
         Cv!Unblock, CvP!Unblock, Cv!Resume, CvP!Resume, Cv!AwaitResume,
         CvP!AwaitResume, Cv!Return, CvP!Return, Cv!Step, CvP!Step, Cv!queues,
         CvP!queues, Cv!ScheduleSelected, CvP!ScheduleSelected, Cv!RequestCancel,
         CvP!RequestCancel, Cv!ScheduleClaimed, CvP!ScheduleClaimed, Cv!MayBeDestroyed,
         CvP!MayBeDestroyed, Cv!remove, CvP!remove, Cv!abandon, CvP!abandon,
         Cv!Claimable, CvP!Claimable, Cv!claim, CvP!claim, Cv!was_cancelled,
         CvP!was_cancelled, Cv!set_handle, CvP!set_handle, Cv!push_back, CvP!push_back,
         Cv!set_handle_blocked, CvP!set_handle_blocked, Cv!unblock_after_publish,
         CvP!unblock_after_publish, Cv!ResumeHandle, CvP!ResumeHandle, Cv!Unregistered,
         CvP!Unregistered, Cv!schedule_selected, CvP!schedule_selected,
         Cv!selected_schedules, CvP!selected_schedules, Cv!Ends, CvP!Ends,
         Cv!request_cancel, CvP!request_cancel, Cv!schedule_claimed,
         CvP!schedule_claimed, Cv!claimed_schedules, CvP!claimed_schedules,
         Cv!scheduling, CvP!scheduling, Cv!is_linked, CvP!is_linked, Cv!claim_rejected,
         CvP!claim_rejected, Cv!claim_notification, CvP!claim_notification, cvVars

(* ... and promise the same. *)
LEMMA SameCvSafe ==
    (CvP!WakesAreExact => Cv!WakesAreExact) /\ (CvP!LockDiscipline => Cv!LockDiscipline)
  BY ZenonT(30) DEF Cv!WakesAreExact, CvP!WakesAreExact, Cv!LockDiscipline, CvP!LockDiscipline,
         Cv!WakeIsComing, CvP!WakeIsComing, Cv!OnlyLivingFrames, CvP!OnlyLivingFrames,
         Cv!is_linked, CvP!is_linked, Cv!Ends, CvP!Ends

(* What the lemmas show of a condition variable. *)
LEMMA ConditionVariableKeeps ==
    /\ Cv!Init => Cv!IndInv
    /\ Cv!IndInv /\ [Cv!Next]_cvVars => Cv!IndInv' /\ [Cv!SelectsSomebody]_(Cv!vars)
    /\ Cv!IndInv => Cv!WakesAreExact /\ Cv!LockDiscipline
<1>1. Cv!Init => Cv!IndInv
  BY SameCvInit, SameCvInv, CvP!InitInv, NoOwnerAssumption
<1>2. Cv!IndInv /\ [Cv!Next]_cvVars => Cv!IndInv'
  BY SameCvInv, SameCvStep, NoOwnerAssumption, CvP!NextInv
<1>3. ASSUME Cv!IndInv, [Cv!Next]_cvVars PROVE [Cv!SelectsSomebody]_(Cv!vars)
  <2>1. [CvP!SelectsSomebody]_(CvP!vars)
    BY <1>3, SameCvInv, SameCvStep, CvP!NotifyStep
  <2>2. CvP!SelectsSomebody => Cv!SelectsSomebody
    BY ZenonT(30) DEF Cv!SelectsSomebody, CvP!SelectsSomebody, Cv!is_linked, CvP!is_linked,
           Cv!Claimable, CvP!Claimable, Cv!claim_rejected, CvP!claim_rejected
  <2>3. UNCHANGED CvP!vars => UNCHANGED Cv!vars
    BY DEF Cv!vars, CvP!vars, Cv!cv, CvP!cv, Cv!waiterVars, CvP!waiterVars, Cv!queues,
           CvP!queues
  <2> QED BY <2>1, <2>2, <2>3
<1>4. Cv!IndInv => Cv!WakesAreExact /\ Cv!LockDiscipline
  BY SameCvInv, CvP!Safe, SameCvSafe
<1> QED BY <1>1, <1>2, <1>3, <1>4

-----------------------------------------------------------------------------
SemP == INSTANCE SemaphoreProof
        WITH count <- p_count, waiters <- p_waiters, grant_pending <- p_grant_pending,
             released <- p_released, cancellable <- p_cancellable, wake <- p_wake,
             to_schedule <- p_to_schedule, cancelling <- p_cancelling,
             scheduled <- p_scheduled, pc <- p_pc

(* The semaphores start alike, ... *)
LEMMA SameSemInit == Sem!Init <=> SemP!Init
  BY SMTT(30) DEF Sem!Init, SemP!Init, Sem!WaiterInit, SemP!WaiterInit

(* ... have the same invariant, ... *)
LEMMA SameSemInv ==
    (Sem!IndInv <=> SemP!IndInv) /\ (Sem!IndInv' <=> SemP!IndInv')
  BY SMTT(30) DEF Sem!IndInv, SemP!IndInv, Sem!TypeOK, SemP!TypeOK, Sem!WaiterInv,
         SemP!WaiterInv, Sem!GrantInv, SemP!GrantInv, Sem!NoStrandedWaiter,
         SemP!NoStrandedWaiter, Sem!WaiterTypeOK, SemP!WaiterTypeOK, Sem!LocationInv,
         SemP!LocationInv, Sem!QueueInv, SemP!QueueInv, Sem!SelectedInv,
         SemP!SelectedInv, Sem!QueuedInv, SemP!QueuedInv, Sem!was_cancelled,
         SemP!was_cancelled, Sem!WakeStates, SemP!WakeStates, Sem!Locations,
         SemP!Locations, Sem!scheduling, SemP!scheduling, Sem!is_linked,
         SemP!is_linked, Sem!Ends, SemP!Ends, Sem!Cardinality, SemP!Cardinality,
         Sem!IsFiniteSet, SemP!IsFiniteSet

(* ... the same steps, ... *)
LEMMA SameSemStep == [Sem!Next]_semVars => [SemP!Next]_(SemP!vars)
  BY ZenonT(30) DEF Sem!Next, SemP!Next, Sem!vars, SemP!vars, Sem!release, SemP!release,
         Sem!Begin, SemP!Begin, Sem!Run, SemP!Run, Sem!try_acquire, SemP!try_acquire,
         Sem!AllocationFails, SemP!AllocationFails, Sem!Dispatch, SemP!Dispatch,
         Sem!Cancel, SemP!Cancel, Sem!CancelSchedule, SemP!CancelSchedule, Sem!Destroy,
         SemP!Destroy, Sem!permits, SemP!permits, Sem!waiterVars, SemP!waiterVars,
         Sem!claim_waiters, SemP!claim_waiters, Sem!BeginWait, SemP!BeginWait,
         Sem!AwaitReady, SemP!AwaitReady, Sem!AwaitReadyToken, SemP!AwaitReadyToken,
         Sem!AwaitSuspend, SemP!AwaitSuspend, Sem!SuspendAcquire, SemP!SuspendAcquire,
         Sem!SuspendRecover, SemP!SuspendRecover, Sem!SuspendPublish,
         SemP!SuspendPublish, Sem!SuspendCancelled, SemP!SuspendCancelled, Sem!Resume,
         SemP!Resume, Sem!AwaitResume, SemP!AwaitResume, Sem!TryAcquire,
         SemP!TryAcquire, Sem!Step, SemP!Step, Sem!queues, SemP!queues,
         Sem!ScheduleSelected, SemP!ScheduleSelected, Sem!RequestCancel,
         SemP!RequestCancel, Sem!ScheduleClaimed, SemP!ScheduleClaimed,
         Sem!MayBeDestroyed, SemP!MayBeDestroyed, Sem!remove, SemP!remove, Sem!abandon,
         SemP!abandon, Sem!Claimable, SemP!Claimable, Sem!claim, SemP!claim,
         Sem!was_cancelled, SemP!was_cancelled, Sem!claim_notification,
         SemP!claim_notification, Sem!set_handle, SemP!set_handle, Sem!push_back,
         SemP!push_back, Sem!unblock_after_publish, SemP!unblock_after_publish,
         Sem!set_handle_blocked, SemP!set_handle_blocked, Sem!ResumeHandle,
         SemP!ResumeHandle, Sem!Unregistered, SemP!Unregistered, Sem!schedule_selected,
         SemP!schedule_selected, Sem!selected_schedules, SemP!selected_schedules,
         Sem!Ends, SemP!Ends, Sem!request_cancel, SemP!request_cancel,
         Sem!schedule_claimed, SemP!schedule_claimed, Sem!claimed_schedules,
         SemP!claimed_schedules, Sem!scheduling, SemP!scheduling, Sem!is_linked,
         SemP!is_linked, Sem!claim_rejected, SemP!claim_rejected, Sem!Cardinality,
         SemP!Cardinality, Sem!IsFiniteSet, SemP!IsFiniteSet, semVars

(* ... and promise the same. *)
LEMMA SameSemSafe ==
    /\ SemP!WakesAreExact => Sem!WakesAreExact
    /\ SemP!NoStrandedWaiter => Sem!NoStrandedWaiter
    /\ SemP!NoOverflow => Sem!NoOverflow
  BY ZenonT(30) DEF Sem!WakesAreExact, SemP!WakesAreExact, Sem!NoStrandedWaiter,
         SemP!NoStrandedWaiter, Sem!NoOverflow, SemP!NoOverflow, Sem!WakeIsComing,
         SemP!WakeIsComing, Sem!OnlyLivingFrames, SemP!OnlyLivingFrames,
         Sem!was_cancelled, SemP!was_cancelled, Sem!is_linked, SemP!is_linked,
         Sem!Ends, SemP!Ends

(* They count alike ... *)
LEMMA SamePoolCount == \A S : Sem!Pool!Cardinality(S) = SemP!Pool!Cardinality(S)
  BY DEF Sem!Pool!Cardinality, SemP!Pool!Cardinality

(* ... and map to the same permit pool. *)
LEMMA SamePool ==
    /\ SemP!Pool!Init => Sem!Pool!Init
    /\ SemP!PoolStep => [Sem!Pool!Next]_(Sem!Pool!vars)
<1>1. Sem!Owners = SemP!Owners /\ Sem!Owners' = SemP!Owners'
  BY DEF Sem!Owners, SemP!Owners, Sem!Owns, SemP!Owns, Sem!was_cancelled,
         SemP!was_cancelled
<1>2. SemP!Pool!Next => Sem!Pool!Next
  BY <1>1, SamePoolCount DEF Sem!Pool!Next, SemP!Pool!Next
<1>3. SemP!Pool!Init => Sem!Pool!Init
  BY <1>1 DEF Sem!Pool!Init, SemP!Pool!Init
<1> QED
  BY <1>1, <1>2, <1>3 DEF SemP!PoolStep, Sem!Pool!vars, SemP!Pool!vars

(* The assumptions on the permits are those of the semaphore's lemmas, ... *)
LEMMA CountsHold == SemP!Counts
  BY CountAssumption DEF SemP!Counts

(* ... and the library has the facts about sets that they need. *)
LEMMA SetFactsHold == SemP!SetFacts
<1>1. \A S : /\ SemP!IsFiniteSet(S) <=> IsFiniteSet(S)
             /\ SemP!Cardinality(S) = Cardinality(S)
  BY ZenonT(30) DEF SemP!Cardinality, Cardinality, SemP!IsFiniteSet, IsFiniteSet
<1>2. /\ IsFiniteSet({}) /\ Cardinality({}) = 0
      /\ \A x : IsFiniteSet({x}) /\ Cardinality({x}) = 1
      /\ \A S : IsFiniteSet(S) => Cardinality(S) \in Nat
  BY FS_EmptySet, FS_Singleton, FS_CardinalityType, ZenonT(30)
<1>3. \A S : \A T \in SUBSET S : IsFiniteSet(S)
        => IsFiniteSet(T) /\ Cardinality(T) <= Cardinality(S)
  BY FS_Subset, SMTT(30)
<1>4. \A S : \A x \in S : IsFiniteSet(S) => Cardinality(S \ {x}) = Cardinality(S) - 1
  BY FS_RemoveElement
<1>5. ASSUME NEW S, NEW T, IsFiniteSet(S), IsFiniteSet(T), S \cap T = {}
      PROVE  /\ IsFiniteSet(S \cup T)
             /\ Cardinality(S \cup T) = Cardinality(S) + Cardinality(T)
  BY <1>5, FS_Union, FS_EmptySet, FS_CardinalityType
<1>6. ASSUME NEW f, NEW n \in Nat, NEW S \in SUBSET (1..n)
      PROVE  IsFiniteSet(SemP!Taken(f, S))
  <2>1. IsFiniteSet(1..n)
    BY FS_Interval
  <2>2. IsFiniteSet(S)
    BY <2>1, FS_Subset, Zenon
  <2> DEFINE g == [i \in S |-> f[i]]
  <2>3. g \in Surjection(S, SemP!Taken(f, S))
    BY Zenon DEF Surjection, SemP!Taken
  <2> QED BY <2>2, <2>3, FS_Surjection
<1> HIDE DEF IsFiniteSet, Cardinality
<1> QED BY <1>1, <1>2, <1>3, <1>4, <1>5, <1>6, ZenonT(30) DEF SemP!SetFacts

(* What the lemmas show of a semaphore. *)
LEMMA SemaphoreKeeps ==
    /\ Sem!Init => Sem!IndInv /\ Sem!Pool!Init
    /\ Sem!IndInv /\ [Sem!Next]_semVars => Sem!IndInv' /\ [Sem!Pool!Next]_(Sem!Pool!vars)
    /\ Sem!IndInv => Sem!WakesAreExact /\ Sem!NoStrandedWaiter /\ Sem!NoOverflow
<1>1. Sem!Init => Sem!IndInv
  BY SameSemInit, SameSemInv, SemP!InitInv, CountsHold, SetFactsHold
<1>2. Sem!Init => Sem!Pool!Init
  BY SameSemInit, SemP!PoolInit, SamePool
<1>3. ASSUME Sem!IndInv, [Sem!Next]_semVars
      PROVE  Sem!IndInv' /\ [Sem!Pool!Next]_(Sem!Pool!vars)
  <2>1. SemP!IndInv' /\ SemP!PoolStep
    BY <1>3, SameSemInv, SameSemStep, CountsHold, SetFactsHold, SemP!StepKeeps, SMTT(30)
  <2> QED BY <2>1, SameSemInv, SamePool
<1>4. Sem!IndInv => Sem!WakesAreExact /\ Sem!NoStrandedWaiter /\ Sem!NoOverflow
  BY SameSemInv, SemP!Safe, CountsHold, SameSemSafe, SMTT(30)
<1> QED BY <1>1, <1>2, <1>3, <1>4, SMTT(30)

-----------------------------------------------------------------------------
(* The primitives together. *)

(* The invariants hold at first ... *)
LEMMA SyncInitInv == SyncInit => InductiveInvariants /\ Pool!Init /\ Sem!Pool!Init
  BY InitInv, PoolInit, SemaphoreKeeps, EventKeeps, ConditionVariableKeeps, SMTT(30)
  DEF SyncInit, InductiveInvariants

(* ... and are preserved by every step, which is one of the pool for the    *)
(* semaphore and reaches somebody for the condition variable: a step of the *)
(* program is a step of each primitive, or none.                            *)
LEMMA SyncNextInv ==
    InductiveInvariants /\ [SyncNext]_syncVars =>
        /\ InductiveInvariants'
        /\ [Sem!Pool!Next]_(Sem!Pool!vars)
        /\ [Cv!SelectsSomebody]_(Cv!vars)
<1> SUFFICES ASSUME InductiveInvariants, [SyncNext]_syncVars
             PROVE  /\ InductiveInvariants'
                    /\ [Sem!Pool!Next]_(Sem!Pool!vars)
                    /\ [Cv!SelectsSomebody]_(Cv!vars)
  BY ZenonT(30)
<1>1. [Next]_vars /\ [Sem!Next]_semVars /\ [Ev!Next]_eventVars /\ [Cv!Next]_cvVars
  BY ZenonT(30) DEF SyncNext, syncVars
<1> QED BY <1>1, NextInv, SemaphoreKeeps, EventKeeps, ConditionVariableKeeps
        DEF InductiveInvariants

(* The inductive invariants hold in every reachable state. *)
THEOREM SyncInvariant == SyncSpec => []InductiveInvariants
  BY SyncInitInv, SyncNextInv, PTL DEF SyncSpec

(* The mutex: state_ is held exactly while one waiter answers for the lock, *)
(* whatever unlock(), cancellation and destruction do concurrently.         *)
THEOREM MutexExcludes == SyncSpec => []OneHolder
<1>1. InductiveInvariants => OneHolder
  BY ZenonT(30) DEF InductiveInvariants, IndInv
<1> QED BY <1>1, SyncInvariant, PTL

(* The semaphore: whoever release() pops is woken, nobody waits beside a    *)
(* permit, and count_ never overflows.                                      *)
THEOREM SemaphoreSafety == SyncSpec => []SemaphoreIsSafe
<1>1. InductiveInvariants => SemaphoreIsSafe
  BY SemaphoreKeeps, SMTT(30) DEF InductiveInvariants, SemaphoreIsSafe
<1> QED BY <1>1, SyncInvariant, PTL

(* The event: whoever set() pops is woken, and nobody is left waiting on an *)
(* event that is set.                                                       *)
THEOREM EventSafety == SyncSpec => []EventIsSafe
<1>1. InductiveInvariants => EventIsSafe
  BY EventKeeps, SMTT(30) DEF InductiveInvariants, EventIsSafe
<1> QED BY <1>1, SyncInvariant, PTL

(* The condition variable: whoever is notified is woken, and wait(lock)     *)
(* returns with the lock on every path.                                     *)
THEOREM ConditionVariableSafety == SyncSpec => []ConditionVariableIsSafe
<1>1. InductiveInvariants => ConditionVariableIsSafe
  BY ConditionVariableKeeps, SMTT(30) DEF InductiveInvariants, ConditionVariableIsSafe
<1> QED BY <1>1, SyncInvariant, PTL

(* A notification with a waiter in the queue that still wants it selects    *)
(* one.                                                                     *)
THEOREM NotificationsReach == SyncSpec => NotifyReachesSomebody
  BY SyncInvariant, SyncNextInv, PTL
  DEF SyncSpec, NotifyReachesSomebody, Cv!NotifyReachesSomebody

(* Mutex and semaphore implement the permit pool. *)
THEOREM PoolRefinement == SyncSpec => PoolsAreImplemented
<1>1. InductiveInvariants /\ InductiveInvariants' /\ [SyncNext]_syncVars => [Pool!Next]_(Pool!vars)
  BY PoolStep, ZenonT(30) DEF InductiveInvariants
<1> QED
  BY <1>1, SyncInvariant, SyncInitInv, SyncNextInv, PTL
  DEF SyncSpec, PoolsAreImplemented, ImplementsPool, Pool!Spec, Sem!ImplementsPool,
      Sem!Pool!Spec

=============================================================================
