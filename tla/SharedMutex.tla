---------------------------- MODULE SharedMutex ----------------------------
(***************************************************************************)
(* sync::shared_mutex.  A waiter is one shared or exclusive lock operation *)
(* (try_lock*, lock*, lock*(token)) together with the unlock that ends it. *)
(* state_ is one word: its three fields may change in lock-free steps while*)
(* another thread is inside internal_mutex_.  A critical section is one    *)
(* step unless such a change inside it matters; "section" is the operation *)
(* inside one that takes several.  pending_writers_ is the length of the   *)
(* writers' queue.  READER_MASK is out of reach, as the contract demands.  *)
(***************************************************************************)
EXTENDS Waiter, FiniteSets

CONSTANTS Readers,   \* the waiters that lock shared
          TryOps, WaitOps, TokenOps,   \* the waiters that may try, wait
                     \* without a token, wait with one
          Nobody     \* no operation is inside a critical section

VARIABLES
    readers,           \* state_ & READER_MASK
    writer_active,     \* state_ & WRITER_ACTIVE
    writer_waiting,    \* state_ & WRITER_WAITING
    reader_waiters,    \* reader_waiters_, oldest first
    writer_waiters,    \* writer_waiters_, oldest first
    grant_pending,     \* the waiters whose grant_pending_ is set
    section,           \* who is inside internal_mutex_ for several steps
    reserved           \* the reader claimed in that section

state    == <<readers, writer_active, writer_waiting>>
waitings == <<reader_waiters, writer_waiters>>
inner    == <<section, reserved>>
vars     == <<state, waitings, grant_pending, inner, waiterVars>>

Init ==
    /\ readers = 0
    /\ writer_active = FALSE
    /\ writer_waiting = FALSE
    /\ reader_waiters = <<>>
    /\ writer_waiters = <<>>
    /\ grant_pending = {}
    /\ section = Nobody
    /\ reserved = {}
    /\ WaiterInit

(* The state_ word admits a reader, a writer. *)
AdmitsReader == ~writer_active /\ ~writer_waiting
AdmitsWriter == AdmitsReader /\ readers = 0
Admits(w)    == IF w \in Readers THEN AdmitsReader ELSE AdmitsWriter

(* The compare-exchange that adds a reader or sets WRITER_ACTIVE. *)
Acquire(w) ==
    /\ readers' = IF w \in Readers THEN readers + 1 ELSE readers
    /\ writer_active' = (w \notin Readers)

(* An operation with a token still has to claim its result. *)
Acquired(w) == IF w \in cancellable THEN "claim" ELSE "holding"

(* How an operation ends that has nothing left to do. *)
Outcome(s) == IF s = "abandoned" THEN "destroyed"
              ELSE IF was_cancelled(s) THEN "cancelled" ELSE "completed"

Grant(granted) ==
    /\ grant_pending' = grant_pending \cup granted
    /\ wake' = [v \in Waiters |-> IF v \in granted THEN claim(v) ELSE wake[v]]

-----------------------------------------------------------------------------
(* try_lock(), try_lock_shared() *)
try_lock(w) ==
    /\ w \in TryOps
    /\ \/ Admits(w)  /\ Acquire(w) /\ Step(w, "start", "holding")
       \/ ~Admits(w) /\ UNCHANGED <<readers, writer_active>>
                     /\ Step(w, "start", "refused")
    /\ UNCHANGED <<writer_waiting, waitings, grant_pending, inner, cancellable,
                   wake, queues>>

Begin(w, with_token) ==
    /\ w \in IF with_token THEN TokenOps ELSE WaitOps
    /\ BeginWait(w, with_token)
    /\ UNCHANGED <<state, waitings, grant_pending, inner>>

AwaitReady(w) ==
    /\ \/ /\ was_cancelled(wake[w])
          /\ Step(w, "ready", "resume")
          /\ UNCHANGED <<readers, writer_active>>
       \/ /\ ~was_cancelled(wake[w]) /\ Admits(w)
          /\ Acquire(w)
          /\ Step(w, "ready", Acquired(w))
       \/ /\ ~was_cancelled(wake[w]) /\ ~Admits(w)
          /\ Step(w, "ready", "suspend")
          /\ UNCHANGED <<readers, writer_active>>
    /\ UNCHANGED <<writer_waiting, waitings, grant_pending, inner, cancellable,
                   wake, queues>>

(* Ownership was acquired; if the cancellation came first it is given back. *)
Claim(w) ==
    /\ Step(w, "claim", IF claim_rejected(wake[w]) THEN "unlock" ELSE "holding")
    /\ wake' = [wake EXCEPT ![w] = claim_notification(@)]
    /\ UNCHANGED <<state, waitings, grant_pending, inner, cancellable, queues>>

(* await_suspend outside the lock: a token's handle is published, blocked,  *)
(* and a reader tries the lock-free path once more.                         *)
AwaitSuspend(w) ==
    /\ \/ /\ was_cancelled(wake[w])
          /\ Step(w, "suspend", "resume")
          /\ UNCHANGED <<readers, writer_active, wake>>
       \/ /\ ~was_cancelled(wake[w])
          /\ wake' = IF w \in cancellable
                     THEN [wake EXCEPT ![w] = set_handle_blocked(@)] ELSE wake
          /\ IF w \in Readers /\ AdmitsReader
             THEN Acquire(w) /\ Step(w, "suspend", Acquired(w))
             ELSE /\ Step(w, "suspend", "enqueue")
                  /\ UNCHANGED <<readers, writer_active>>
    /\ UNCHANGED <<writer_waiting, waitings, grant_pending, inner, cancellable,
                   queues>>

(* The wake state of an operation without a token is allocated now. *)
AllocationFails(w) ==
    /\ w \notin cancellable
    /\ Step(w, "enqueue", "failed")
    /\ UNCHANGED <<state, waitings, grant_pending, inner, cancellable, wake,
                   queues>>

(* End of the publication window of a waiter that has been enqueued. *)
Published(w) ==
    IF w \in cancellable THEN unblock_after_publish(wake[w]) ELSE set_handle(wake[w])

(* A reader's critical section: cancelled, admitted after all, or enqueued. *)
EnqueueReader(w) ==
    /\ w \in Readers
    /\ section = Nobody
    /\ \/ /\ was_cancelled(wake[w])
          /\ Step(w, "enqueue", "resume")
          /\ UNCHANGED <<readers, writer_active, reader_waiters, wake>>
       \/ /\ ~was_cancelled(wake[w]) /\ AdmitsReader
          /\ Acquire(w)
          /\ Step(w, "enqueue", Acquired(w))
          /\ UNCHANGED <<reader_waiters, wake>>
       \/ /\ ~was_cancelled(wake[w]) /\ ~AdmitsReader
          /\ Step(w, "enqueue", "suspended")
          /\ wake' = [wake EXCEPT ![w] = Published(w)]
          /\ reader_waiters' = push_back(reader_waiters, w)
          /\ UNCHANGED <<readers, writer_active>>
       \/ /\ w \in cancellable /\ wake[w] = "blocked" /\ ~AdmitsReader
          /\ Step(w, "enqueue", "resume")
          /\ wake' = [wake EXCEPT ![w] = "cancelled_inline"]
          /\ UNCHANGED <<readers, writer_active, reader_waiters>>
    /\ UNCHANGED <<writer_waiting, writer_waiters, grant_pending, inner,
                   cancellable, queues>>

(* A writer's critical section: it tries the lock ... *)
EnqueueWriter(w) ==
    /\ w \notin Readers
    /\ section = Nobody
    /\ \/ /\ was_cancelled(wake[w])
          /\ Step(w, "enqueue", "resume")
          /\ UNCHANGED <<readers, writer_active, section>>
       \/ /\ ~was_cancelled(wake[w]) /\ AdmitsWriter
          /\ Acquire(w)
          /\ Step(w, "enqueue", Acquired(w))
          /\ UNCHANGED section
       \/ /\ ~was_cancelled(wake[w]) /\ ~AdmitsWriter
          /\ Step(w, "enqueue", "prefer")
          /\ section' = w
          /\ UNCHANGED <<readers, writer_active>>
    /\ UNCHANGED <<writer_waiting, waitings, grant_pending, reserved,
                   cancellable, wake, queues>>

(* ... announces itself ... *)
Prefer(w) ==
    /\ Step(w, "prefer", "settle")
    /\ writer_waiting' = TRUE
    /\ UNCHANGED <<readers, writer_active, waitings, grant_pending, inner,
                   cancellable, wake, queues>>

(* finish_writer_removal_locked, called by w in a critical section that     *)
(* leaves "queue" as the writers' queue: with no writer left the preference *)
(* ends, and a parked reader is claimed for the compare-exchange to admit.  *)
finish_writer_removal(w, from, queue, wk) ==
    /\ writer_waiters' = queue
    /\ \/ /\ queue # <<>>
          /\ Step(w, from, Outcome(wk[w]))
          /\ section' = Nobody
          /\ wake' = wk
          /\ UNCHANGED <<writer_waiting, reader_waiters, grant_pending, reserved>>
       \/ /\ queue = <<>> /\ writer_active
          /\ Step(w, from, Outcome(wk[w]))
          /\ section' = Nobody
          /\ writer_waiting' = FALSE
          /\ wake' = wk
          /\ UNCHANGED <<reader_waiters, grant_pending, reserved>>
       \/ /\ queue = <<>> /\ ~writer_active
          /\ Step(w, from, "removal")
          /\ section' = w
          /\ reserved' = Claimed(reader_waiters)
          /\ reader_waiters' = Rest(reader_waiters)
          /\ grant_pending' = grant_pending \cup Claimed(reader_waiters)
          /\ wake' = [v \in Waiters |->
                        IF v \in Claimed(reader_waiters) THEN claim(v) ELSE wk[v]]
          /\ UNCHANGED writer_waiting
    /\ UNCHANGED <<readers, writer_active>>

(* ... and, if the last reader has not just left, enqueues; a cancellation  *)
(* inside the publication window takes it out again.                        *)
Settle(w) ==
    /\ \/ /\ readers = 0 /\ ~writer_active
          /\ Step(w, "settle", Acquired(w))
          /\ section' = Nobody
          /\ Acquire(w)
          /\ writer_waiting' = (writer_waiters # <<>>)
          /\ UNCHANGED <<waitings, grant_pending, reserved, wake>>
       \/ /\ readers > 0 \/ writer_active
          /\ ~was_cancelled(wake[w])
          /\ Step(w, "settle", "suspended")
          /\ section' = Nobody
          /\ wake' = [wake EXCEPT ![w] = Published(w)]
          /\ writer_waiters' = push_back(writer_waiters, w)
          /\ UNCHANGED <<state, reader_waiters, grant_pending, reserved>>
       \/ /\ readers > 0 \/ writer_active
          /\ was_cancelled(wake[w])
          /\ finish_writer_removal(w, "settle", writer_waiters, wake)
    /\ UNCHANGED <<cancellable, queues>>

(* Where a thread goes that has admitted a parked reader. *)
Continue(w, admitted, parked) ==
    IF admitted # {} /\ parked # <<>> THEN "wake_more" ELSE Outcome(wake[w])

(* Mutant of Removal: the preference outlives the last writer. *)
MutRemoval(w) ==
    /\ section = w
    /\ Step(w, "removal", Continue(w, reserved, reader_waiters))
    /\ readers' = readers + Cardinality(reserved)
    /\ to_schedule' = to_schedule \cup reserved
    /\ reserved' = {}
    /\ section' = Nobody
    /\ UNCHANGED <<writer_active, writer_waiting, waitings, grant_pending,
                   cancellable, wake, cancelling, scheduled>>

(* The compare-exchange loop of finish_writer_removal_locked, in a build    *)
(* without its assertion that no writer became active since the load.       *)
Removal(w) ==
    /\ section = w
    /\ Step(w, "removal", Continue(w, reserved, reader_waiters))
    /\ readers' = readers + Cardinality(reserved)
    /\ writer_waiting' = FALSE
    /\ to_schedule' = to_schedule \cup reserved
    /\ reserved' = {}
    /\ section' = Nobody
    /\ UNCHANGED <<writer_active, waitings, grant_pending, cancellable, wake,
                   cancelling, scheduled>>

-----------------------------------------------------------------------------
(* The owner unlocks. *)
Release(w) ==
    /\ Step(w, "holding", "unlock")
    /\ UNCHANGED <<state, waitings, grant_pending, inner, cancellable, wake, queues>>

(* unlock(): to the next writer, else to the parked readers.  Nobody else   *)
(* can change state_ while WRITER_ACTIVE is set.                            *)
unlock(w) ==
    /\ w \notin Readers
    /\ section = Nobody
    /\ \/ /\ Claimed(writer_waiters) # {}
          /\ Step(w, "unlock", Outcome(wake[w]))
          /\ Grant(Claimed(writer_waiters))
          /\ to_schedule' = to_schedule \cup Claimed(writer_waiters)
          /\ writer_waiters' = Rest(writer_waiters)
          /\ writer_waiting' = (Rest(writer_waiters) # <<>>)
          /\ UNCHANGED <<readers, writer_active, reader_waiters>>
       \/ /\ Claimed(writer_waiters) = {}
          /\ Step(w, "unlock", Continue(w, Claimed(reader_waiters), Rest(reader_waiters)))
          /\ Grant(Claimed(reader_waiters))
          /\ to_schedule' = to_schedule \cup Claimed(reader_waiters)
          /\ writer_waiters' = <<>>
          /\ reader_waiters' = Rest(reader_waiters)
          /\ readers' = Cardinality(Claimed(reader_waiters))
          /\ writer_active' = FALSE
          /\ writer_waiting' = FALSE
    /\ UNCHANGED <<inner, cancellable, cancelling, scheduled>>

(* unlock_shared(): the last reader hands over to a waiting writer ... *)
unlock_shared(w) ==
    /\ w \in Readers
    /\ readers' = readers - 1
    /\ Step(w, "unlock", IF readers = 1 /\ writer_waiting THEN "handoff"
                                                           ELSE Outcome(wake[w]))
    /\ UNCHANGED <<writer_active, writer_waiting, waitings, grant_pending, inner,
                   cancellable, wake, queues>>

(* Mutant of Handoff: ownership is not looked at again under the lock. *)
MutHandoff(w) ==
    /\ section = Nobody
    /\ Claimed(writer_waiters) # {}
    /\ Step(w, "handoff", Outcome(wake[w]))
    /\ Grant(Claimed(writer_waiters))
    /\ to_schedule' = to_schedule \cup Claimed(writer_waiters)
    /\ writer_waiters' = Rest(writer_waiters)
    /\ writer_active' = TRUE
    /\ writer_waiting' = (Rest(writer_waiters) # <<>>)
    /\ UNCHANGED <<readers, reader_waiters, inner, cancellable, cancelling, scheduled>>

(* ... unless a writer has taken the lock or readers have been admitted     *)
(* before it came into the critical section.                                *)
Handoff(w) ==
    /\ section = Nobody
    /\ \/ /\ readers > 0 \/ writer_active
          /\ Step(w, "handoff", Outcome(wake[w]))
          /\ UNCHANGED <<state, waitings, grant_pending, inner, wake, to_schedule>>
       \/ /\ readers = 0 /\ ~writer_active /\ Claimed(writer_waiters) # {}
          /\ Step(w, "handoff", Outcome(wake[w]))
          /\ Grant(Claimed(writer_waiters))
          /\ to_schedule' = to_schedule \cup Claimed(writer_waiters)
          /\ writer_waiters' = Rest(writer_waiters)
          /\ writer_active' = TRUE
          /\ writer_waiting' = (Rest(writer_waiters) # <<>>)
          /\ UNCHANGED <<readers, reader_waiters, inner>>
       \/ /\ readers = 0 /\ ~writer_active /\ Claimed(writer_waiters) = {}
          /\ finish_writer_removal(w, "handoff", <<>>, wake)
          /\ UNCHANGED to_schedule
    /\ UNCHANGED <<cancellable, cancelling, scheduled>>

(* wake_additional_readers: one turn of the loop. *)
wake_additional_readers(w) ==
    /\ section = Nobody
    /\ \/ /\ writer_waiters # <<>> \/ reader_waiters = <<>> \/ ~AdmitsReader
          /\ Step(w, "wake_more", Outcome(wake[w]))
          /\ UNCHANGED <<readers, reader_waiters, grant_pending, wake, to_schedule>>
       \/ /\ writer_waiters = <<>> /\ reader_waiters # <<>> /\ AdmitsReader
          /\ Step(w, "wake_more", IF Claimed(reader_waiters) = {} THEN Outcome(wake[w])
                                                                  ELSE "wake_more")
          /\ readers' = readers + Cardinality(Claimed(reader_waiters))
          /\ Grant(Claimed(reader_waiters))
          /\ to_schedule' = to_schedule \cup Claimed(reader_waiters)
          /\ reader_waiters' = Rest(reader_waiters)
    /\ UNCHANGED <<writer_active, writer_waiting, writer_waiters, inner,
                   cancellable, cancelling, scheduled>>

Dispatch(v) ==
    ScheduleSelected(v) /\ UNCHANGED <<state, waitings, grant_pending, inner>>

Resume(w) == ResumeHandle(w) /\ UNCHANGED <<state, waitings, grant_pending, inner>>

(* await_resume: a cancelled waiter leaves its queue, and the last writer   *)
(* to leave ends the preference.                                            *)
AwaitResume(w) ==
    /\ Unregistered(w)
    /\ is_linked(reader_waiters \o writer_waiters, w) => section = Nobody
    /\ \/ /\ ~was_cancelled(wake[w])
          /\ Step(w, "resume", "holding")
          /\ grant_pending' = grant_pending \ {w}
          /\ UNCHANGED <<state, waitings, inner, wake>>
       \/ /\ was_cancelled(wake[w]) /\ ~is_linked(writer_waiters, w)
          /\ Step(w, "resume", "cancelled")
          /\ reader_waiters' = remove(reader_waiters, w)
          /\ UNCHANGED <<state, writer_waiters, grant_pending, inner, wake>>
       \/ /\ was_cancelled(wake[w]) /\ is_linked(writer_waiters, w)
          /\ finish_writer_removal(w, "resume", remove(writer_waiters, w), wake)
    /\ UNCHANGED <<cancellable, queues>>

Cancel(w) ==
    /\ pc[w] \in {"ready", "claim", "suspend", "enqueue", "prefer", "settle", "suspended"}
    /\ RequestCancel(w)
    /\ UNCHANGED <<state, waitings, grant_pending, inner>>

CancelSchedule(w) ==
    ScheduleClaimed(w) /\ UNCHANGED <<state, waitings, grant_pending, inner>>

(* The destructor of the waiter of a suspended frame that scheduling does   *)
(* not own yet; a grant nobody will pick up is released.                    *)
Destroy(w) ==
    /\ MayBeDestroyed(w)
    /\ section = Nobody
    /\ \/ /\ is_linked(writer_waiters, w)
          /\ finish_writer_removal(w, "suspended", remove(writer_waiters, w),
                                   [wake EXCEPT ![w] = abandon(@)])
       \/ /\ ~is_linked(writer_waiters, w)
          /\ Step(w, "suspended", IF w \in grant_pending THEN "unlock" ELSE "destroyed")
          /\ reader_waiters' = remove(reader_waiters, w)
          /\ wake' = [wake EXCEPT ![w] = abandon(@)]
          /\ grant_pending' = grant_pending \ {w}
          /\ UNCHANGED <<state, writer_waiters, inner>>
    /\ UNCHANGED <<cancellable, queues>>

(* A step of the operation of a waiter, or of the scheduler on its behalf;  *)
(* owners unlock.                                                           *)
Run(w) ==
    \/ AwaitReady(w)    \/ Claim(w)         \/ AwaitSuspend(w) \/ EnqueueReader(w)
    \/ EnqueueWriter(w) \/ Prefer(w)        \/ Settle(w)       \/ Removal(w)
    \/ Release(w)       \/ unlock(w)        \/ Handoff(w)      \/ unlock_shared(w)
    \/ Resume(w)        \/ AwaitResume(w)   \/ wake_additional_readers(w)

Next ==
    \E w \in Waiters :
        \/ try_lock(w)
        \/ \E t \in BOOLEAN : Begin(w, t)
        \/ Run(w)
        \/ AllocationFails(w)
        \/ Dispatch(w)
        \/ Cancel(w)
        \/ CancelSchedule(w)
        \/ Destroy(w)

(* Operations and callbacks that have begun run on, and the scheduler       *)
(* resumes; internal_mutex_ is fair enough to let everybody in.             *)
Fairness ==
    \A w \in Waiters :
        SF_vars(Run(w)) /\ WF_vars(Dispatch(w)) /\ WF_vars(CancelSchedule(w))

Spec == Init /\ [][Next]_vars /\ Fairness

-----------------------------------------------------------------------------
(* The operation owns the lock, or was granted it and has not resumed. *)
Owns(w) ==
    \/ pc[w] \in {"claim", "holding", "unlock"}
    \/ pc[w] \in {"suspended", "resume"} /\ w \in grant_pending \ reserved

Sharing == {w \in Readers : Owns(w)}
Writing == {w \in Waiters \ Readers : Owns(w)}

(* Readers and a writer never own the lock together. *)
Exclusion == Sharing = {} \/ Writing = {}

(* state_ counts the owners: no reader and no WRITER_ACTIVE is left over.   *)
OwnersAreCounted ==
    /\ readers = Cardinality(Sharing)
    /\ Cardinality(Writing) = IF writer_active THEN 1 ELSE 0

(* assert(!(current & WRITER_ACTIVE)) in finish_writer_removal_locked.      *)
NoWriterInRemoval == \A w \in Waiters : pc[w] = "removal" => ~writer_active

(* On every path, lock-free ones and grants to waiters that are cancelled   *)
(* or destroyed included, readers and writers exclude each other and state_ *)
(* counts the owners; the retry of finish_writer_removal_locked is the only *)
(* step that can break it, and only where its assertion fails.              *)
ExclusionIsKept ==
    Exclusion /\ OwnersAreCounted /\ NoWriterInRemoval => (Exclusion /\ OwnersAreCounted)'

(* WRITER_WAITING keeps readers out while a writer is queued, and does not  *)
(* outlive the last of them.                                                *)
PreferenceIsExact ==
    section = Nobody /\ (\A w \in Waiters : pc[w] # "handoff") =>
        (writer_waiting <=> writer_waiters # <<>>)

(* Whoever is granted the lock while suspended is woken, and no node or     *)
(* handle of a finished or destroyed frame is queued or scheduled.          *)
WakesAreExact ==
    /\ \A w \in Waiters \ reserved :
        pc[w] = "suspended" /\ ~is_linked(reader_waiters \o writer_waiters, w) =>
            w \in to_schedule \cup cancelling \/ scheduled[w] = 1
    /\ OnlyLivingFrames(reader_waiters \o writer_waiters)

(* Nobody waits: as long as owners unlock and the assertion of              *)
(* finish_writer_removal_locked holds, every operation stops waiting,       *)
(* readers behind writers too.                                              *)
Served == \A w \in Waiters : pc[w] # "suspended"

=============================================================================
