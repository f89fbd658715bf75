------------------------------- MODULE Waiter -------------------------------
(***************************************************************************)
(* What the awaiters of the synchronisation primitives have in common.  A  *)
(* waiter is one operation: every co_await builds an awaiter and a         *)
(* wake_state of its own.  It may be built with a cancel token, whose      *)
(* callback is registered until await_resume or the destructor unregisters *)
(* it.  The primitive selects waiters under its lock and schedules them    *)
(* after it; a frame may be destroyed until scheduling owns its handle.    *)
(***************************************************************************)
EXTENDS WakeState

CONSTANT Waiters   \* the operations

VARIABLES
    cancellable,   \* the waiters with a cancel token
    wake,          \* state_ of the waiter's wake_state
    to_schedule,   \* waiters some thread has selected and still to schedule
    cancelling,    \* the waiters whose request_cancel has still to schedule
    scheduled,     \* how often a waiter's handle is in the scheduler's queues
    pc             \* where the waiter's coroutine is

queues     == <<to_schedule, cancelling, scheduled>>
waiterVars == <<cancellable, wake, queues, pc>>

(* How an operation can end: with its result, without trying to wait,       *)
(* cancelled, by bad_alloc, with the destruction of its suspended frame.    *)
Ends == {"completed", "refused", "cancelled", "failed", "destroyed"}
Locations ==
    Ends \cup {"start", "ready", "claim", "suspend", "enqueue", "unlock",
               "unblock", "suspended", "resume", "relock", "return",
               "holding", "prefer", "settle", "handoff", "removal", "wake_more",
               "locked", "publish", "refill", "refilling"}

WaiterInit ==
    /\ cancellable = {}
    /\ wake = [w \in Waiters |-> "idle"]
    /\ to_schedule = {}
    /\ cancelling = {}
    /\ scheduled = [w \in Waiters |-> 0]
    /\ pc = [w \in Waiters |-> "start"]

Step(w, from, to) == pc[w] = from /\ pc' = [pc EXCEPT ![w] = to]

(* The call: the awaiter is built and, with a token, registered. *)
BeginWait(w, with_token) ==
    /\ Step(w, "start", "ready")
    /\ cancellable' = IF with_token THEN cancellable \cup {w} ELSE cancellable
    /\ UNCHANGED <<wake, queues>>

(* Mutant of Claimable: a cancelled waiter is selected all the same. *)
MutClaimable(v) == v \in Waiters

(* The notifier takes waiter v from its queue; a cancellable waiter has to  *)
(* be claimed.                                                              *)
Claimable(v) == v \in cancellable => ~claim_rejected(wake[v])

claim(v) == IF v \in cancellable THEN claim_notification(wake[v]) ELSE wake[v]

(* The part of a queue that claim_*_locked pops: up to the first waiter     *)
(* that can be claimed.                                                     *)
Cut(queue) ==
    IF \E i \in 1..Len(queue) : Claimable(queue[i])
    THEN CHOOSE i \in 1..Len(queue) :
            /\ Claimable(queue[i])
            /\ \A j \in 1..(i - 1) : ~Claimable(queue[j])
    ELSE Len(queue) + 1

Claimed(queue) == {queue[i] : i \in {Cut(queue)} \cap (1..Len(queue))}

Rest(queue) == SubSeq(queue, Cut(queue) + 1, Len(queue))

(* schedule_wake_state, outside the critical section. *)
ScheduleSelected(v) ==
    /\ v \in to_schedule
    /\ to_schedule' = to_schedule \ {v}
    /\ wake' = [wake EXCEPT ![v] = schedule_selected(@)]
    /\ scheduled' = IF selected_schedules(wake[v])
                    THEN [scheduled EXCEPT ![v] = @ + 1] ELSE scheduled
    /\ UNCHANGED <<cancellable, cancelling, pc>>

(* The scheduler takes the handle from its queues and resumes the coroutine. *)
ResumeHandle(w) ==
    /\ scheduled[w] > 0
    /\ scheduled' = [scheduled EXCEPT ![w] = @ - 1]
    /\ Step(w, "suspended", "resume")
    /\ UNCHANGED <<cancellable, wake, to_schedule, cancelling>>

(* The cancel callback: the compare-exchange of request_cancel ... *)
RequestCancel(w) ==
    /\ w \in cancellable
    /\ pc[w] \notin {"start"} \cup Ends
    /\ request_cancel(wake[w]) # wake[w]
    /\ wake' = [wake EXCEPT ![w] = request_cancel(@)]
    /\ cancelling' = IF wake[w] = "waiting" THEN cancelling \cup {w}
                                            ELSE cancelling
    /\ UNCHANGED <<cancellable, to_schedule, scheduled, pc>>

(* ... and its schedule_claimed. *)
ScheduleClaimed(w) ==
    /\ w \in cancelling
    /\ cancelling' = cancelling \ {w}
    /\ wake' = [wake EXCEPT ![w] = schedule_claimed(@)]
    /\ scheduled' = IF claimed_schedules(wake[w])
                    THEN [scheduled EXCEPT ![w] = @ + 1] ELSE scheduled
    /\ UNCHANGED <<cancellable, to_schedule, pc>>

(* unregister() waits for a cancel callback that is running. *)
Unregistered(w) == w \notin cancelling

(* A suspended frame that scheduling does not own yet may be destroyed. *)
MayBeDestroyed(w) ==
    pc[w] = "suspended" /\ ~scheduling(wake[w]) /\ Unregistered(w)

WaiterTypeOK ==
    /\ cancellable \subseteq Waiters
    /\ wake \in [Waiters -> WakeStates]
    /\ to_schedule \subseteq Waiters
    /\ cancelling \subseteq Waiters
    /\ scheduled \in [Waiters -> {0, 1}]
    /\ pc \in [Waiters -> Locations]

(* A frame that is suspended and no longer queued has been selected, and    *)
(* the thread that selected it, the cancel callback or the scheduler still  *)
(* has its wake in hand.                                                    *)
WakeIsComing(queue) ==
    \A w \in Waiters :
        pc[w] = "suspended" /\ ~is_linked(queue, w) =>
            w \in to_schedule \cup cancelling \/ scheduled[w] = 1

(* A handle in the scheduler's queues belongs to a suspended, living frame, *)
(* and no node of a finished or destroyed frame is queued, and none twice.  *)
OnlyLivingFrames(queue) ==
    /\ \A w \in Waiters : scheduled[w] > 0 => pc[w] = "suspended"
    /\ \A i \in 1..Len(queue) :
        /\ pc[queue[i]] \notin {"start"} \cup Ends
        /\ \A j \in 1..Len(queue) : queue[i] = queue[j] => i = j

-----------------------------------------------------------------------------
(* What makes WakeIsComing and OnlyLivingFrames inductive.  First, what the *)
(* location of a waiter says about its wake state ...                       *)
LocationInv ==
    \A w \in Waiters :
        /\ pc[w] = "start" => wake[w] = "idle" /\ w \notin cancellable
        /\ pc[w] = "enqueue" => wake[w] = "idle" /\ w \notin cancellable
        /\ pc[w] \in {"ready", "suspend"} =>
               \/ wake[w] = "idle"
               \/ wake[w] = "cancelled_inline" /\ w \in cancellable
        /\ pc[w] \in {"unlock", "unblock"} =>
               \/ wake[w] \in {"blocked", "notified_inline"}
               \/ wake[w] = "cancelled_inline" /\ w \in cancellable
        /\ pc[w] = "suspended" =>
               wake[w] \in {"waiting", "notification_claimed", "cancellation_claimed",
                            "notification_scheduling", "cancellation_scheduling"}
        /\ pc[w] \in {"resume", "relock", "return"} =>
               wake[w] \in {"notified_inline", "cancelled_inline",
                            "notification_scheduling", "cancellation_scheduling"}
        /\ wake[w] = "blocked" => pc[w] \in {"unlock", "unblock"}
        /\ wake[w] \in {"waiting", "notification_claimed", "cancellation_claimed"} =>
               pc[w] = "suspended"

(* ... a queued waiter is queued once, has not been selected and waits or   *)
(* has been cancelled ...                                                   *)
QueueInv(queue) ==
    /\ \A i, j \in 1..Len(queue) : queue[i] = queue[j] => i = j
    /\ \A i \in 1..Len(queue) :
        /\ queue[i] \notin to_schedule
        /\ \/ wake[queue[i]] \in {"blocked", "waiting"}
           \/ /\ was_cancelled(wake[queue[i]])
              /\ queue[i] \in cancellable
              /\ pc[queue[i]] \in {"unlock", "unblock", "suspended", "resume"}

(* ... the winner of the last compare-exchange, and nobody else, has still  *)
(* to schedule ...                                                          *)
SelectedInv ==
    /\ \A w \in to_schedule :
        \/ wake[w] \in {"notified_inline", "abandoned"}
        \/ wake[w] = "notification_claimed" /\ w \in cancellable
        \/ wake[w] \in {"blocked", "waiting"} /\ w \notin cancellable
    /\ \A w \in cancelling : pc[w] = "suspended" /\ w \in cancellable
    /\ \A w \in Waiters :
        /\ wake[w] = "notification_claimed" => w \in to_schedule
        /\ wake[w] = "cancellation_claimed" <=> w \in cancelling
        /\ scheduled[w] > 0 <=> pc[w] = "suspended" /\ scheduling(wake[w])

(* ... and a waiter that nobody has selected is in the queue. *)
QueuedInv(queue) ==
    \A w \in Waiters :
        wake[w] \in {"blocked", "waiting"} => is_linked(queue, w) \/ w \in to_schedule

WaiterInv(queue) ==
    LocationInv /\ QueueInv(queue) /\ SelectedInv /\ QueuedInv(queue)

=============================================================================
