----------------------------- MODULE WakeState -----------------------------
(***************************************************************************)
(* The one-byte state machine of sync::detail::wake_state, shared by every *)
(* awaiter of the synchronisation layer.  Each member function is a single *)
(* compare-exchange (or a retry loop that ends in one), so it is modelled  *)
(* as a function from the state it finds to the state it leaves.           *)
(***************************************************************************)
EXTENDS Naturals, Sequences

(* The ten values of state_. *)
WakeStates ==
    {"idle", "blocked", "waiting", "notified_inline", "cancelled_inline",
     "notification_claimed", "cancellation_claimed",
     "notification_scheduling", "cancellation_scheduling", "abandoned"}

(* Publish the handle of a waiter that may be resumed at once. *)
set_handle(s) == IF s = "idle" THEN "waiting" ELSE s

(* Publish the handle while the awaiter is not yet safe to resume; the      *)
(* call succeeds exactly when it finds "idle".                              *)
set_handle_blocked(s) == IF s = "idle" THEN "blocked" ELSE s

(* End of the publication window; succeeds exactly when it finds "blocked". *)
unblock_after_publish(s) == IF s = "blocked" THEN "waiting" ELSE s

(* Select normal completion. *)
claim_notification(s) ==
    IF s \in {"idle", "blocked"} THEN "notified_inline"
    ELSE IF s = "waiting" THEN "notification_claimed" ELSE s

(* claim_notification returned wake_action::rejected. *)
claim_rejected(s) == s \notin {"idle", "blocked", "waiting"}

(* The compare-exchange of request_cancel; the scheduling that follows a    *)
(* claim from "waiting" is schedule_claimed.                                *)
request_cancel(s) ==
    IF s \in {"idle", "blocked"} THEN "cancelled_inline"
    ELSE IF s = "waiting" THEN "cancellation_claimed" ELSE s

(* Turn a claim into ownership of the scheduling of the handle. *)
schedule_claimed(s) ==
    IF s = "notification_claimed" THEN "notification_scheduling"
    ELSE IF s = "cancellation_claimed" THEN "cancellation_scheduling" ELSE s

(* schedule_claimed hands handle_ to the scheduler. *)
claimed_schedules(s) == s \in {"notification_claimed", "cancellation_claimed"}

(* Schedule an ordinary waiter, or one whose result was already claimed. *)
schedule_selected(s) ==
    IF s \in {"waiting", "notification_claimed"} THEN "notification_scheduling"
    ELSE IF s = "cancellation_claimed" THEN "cancellation_scheduling"
    ELSE IF s = "blocked" THEN "notified_inline" ELSE s

(* Mutant of selected_schedules: a waiter nobody claimed is not scheduled. *)
MutSelectedSchedules(s) == s \in {"notification_claimed", "cancellation_claimed"}

(* schedule_selected hands handle_ to the scheduler. *)
selected_schedules(s) ==
    s \in {"waiting", "notification_claimed", "cancellation_claimed"}

was_cancelled(s) ==
    s \in {"cancelled_inline", "cancellation_claimed", "cancellation_scheduling"}

(* The handle belongs to the scheduler: abandon can no longer take it back. *)
scheduling(s) == s \in {"notification_scheduling", "cancellation_scheduling"}

(* The frame is being destroyed. *)
abandon(s) == IF scheduling(s) THEN s ELSE "abandoned"

-----------------------------------------------------------------------------
(***************************************************************************)
(* detail::intrusive_list as a sequence of nodes.  A node is in at most    *)
(* one list and appears in it once.                                        *)
(***************************************************************************)
(* node->is_linked() *)
is_linked(list, node) == \E i \in 1..Len(list) : list[i] = node

push_back(list, node) == Append(list, node)

(* The list without node; a node that is not linked leaves it unchanged. *)
remove(list, node) ==
    IF is_linked(list, node)
    THEN LET at == CHOOSE i \in 1..Len(list) : list[i] = node
         IN  [i \in 1..(Len(list) - 1) |->
                IF i < at THEN list[i] ELSE list[i + 1]]
    ELSE list

(* pop_front returns the first node and leaves the others. *)
front(list) == Head(list)

pop_front(list) == Tail(list)

=============================================================================
