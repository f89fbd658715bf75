----------------------------- MODULE JoinHandle -----------------------------
(***************************************************************************)
(* The join state of a spawned task: its result is published once, and may *)
(* be awaited directly, observed with a deadline and a cancel token, or    *)
(* not at all; its destruction is observed by coroutines and threads.      *)
(* Every access to completion_state_, destruction_state_ and outcome_ and  *)
(* every section under the lock of a waiter slot is a step.                *)
(***************************************************************************)
EXTENDS CompletionWaiter, FiniteSets

CONSTANTS Observers

Notifiers == {"cancel", "timer"}
NoObserver == "no observer"

VARIABLES
    child, child_frame,  \* where the task is; does its frame exist?
    seen,                \* the observer flag that complete() found
    target, child_lease, \* what the child is about to wake, and its lease on it
    ready, observer, control, installed,  \* completion_state_ and the control block it points to
    waiter_slot,         \* waiter_
    destroyed, list_installed, listed, pending_wakes, \* destruction_state_, its list, what was swapped out of it
    kind, at,            \* what an observer does, and where it is
    outcome, own_slot,   \* its join_observation (or destruction observation)
    token, stage, lease, \* its token; the cancel callback and the timer that notify it
    result, handed       \* what it returned; how often it was scheduled

childVars == <<child, child_frame, seen, target, child_lease>>
stateVars == <<ready, observer, control, installed, waiter_slot>>
goneVars == <<destroyed, list_installed, listed, pending_wakes>>
obsVars == <<kind, at, result>>
noteVars == <<outcome, own_slot, token, stage, lease, handed>>
joinVars == <<childVars, stateVars, goneVars, obsVars, noteVars>>

JoinInit ==
    /\ child = "running" /\ child_frame = TRUE
    /\ seen = "none" /\ target = NoObserver /\ child_lease = 0
    /\ ready = FALSE /\ observer = "none" /\ control = NoObserver /\ installed = FALSE
    /\ waiter_slot = EmptySlot
    /\ destroyed = FALSE /\ list_installed = FALSE /\ listed = {} /\ pending_wakes = {}
    /\ kind = [o \in Observers |-> "none"] /\ at = [o \in Observers |-> "new"]
    /\ outcome = [o \in Observers |-> "none"] /\ own_slot = [o \in Observers |-> EmptySlot]
    /\ token = [o \in Observers |-> FALSE]
    /\ stage = [o \in Observers |-> [n \in Notifiers |-> "idle"]]
    /\ lease = [o \in Observers |-> [n \in Notifiers |-> 0]]
    /\ result = [o \in Observers |-> "none"] /\ handed = [o \in Observers |-> 0]

Move(o, where) == at' = [at EXCEPT ![o] = where] /\ UNCHANGED <<kind, result>>
Return(o, what) == at' = [at EXCEPT ![o] = "returned"] /\ result' = [result EXCEPT ![o] = what] /\ UNCHANGED kind
Hand(o) == handed' = [handed EXCEPT ![o] = @ + 1]

-----------------------------------------------------------------------------
(* The child.  complete(): result_ready is set and tells which kind of       *)
(* observer was reserved.                                                    *)
complete ==
    /\ child = "running"
    /\ ready' = TRUE /\ seen' = observer
    /\ child' = IF observer = "bounded" THEN "load" ELSE "take"
    /\ UNCHANGED <<child_frame, target, child_lease, observer, control, installed, waiter_slot,
                   goneVars, obsVars, noteVars>>

(* The observation behind the control block, if it is there already. *)
LoadObservation ==
    /\ child = "load"
    /\ target' = IF installed THEN control ELSE NoObserver
    /\ child' = IF target' = NoObserver THEN "take" ELSE "notify"
    /\ UNCHANGED <<child_frame, seen, child_lease, stateVars, goneVars, obsVars, noteVars>>

(* notify(): the first one to move outcome_ from pending wakes the waiter. *)
notify(o, what) == outcome' = [outcome EXCEPT ![o] = IF @ = "pending" THEN what ELSE @]

NotifyObservation ==
    /\ child = "notify"
    /\ notify(target, "completed")
    /\ child' = IF outcome[target] = "pending" THEN "wake" ELSE "take"
    /\ UNCHANGED <<child_frame, seen, target, child_lease, stateVars, goneVars, obsVars,
                   own_slot, token, stage, lease, handed>>

WakeObservation ==
    /\ child = "wake"
    /\ IF takes(own_slot[target], TRUE)
       THEN /\ own_slot' = [own_slot EXCEPT ![target] = take_if(@)]
            /\ child_lease' = own_slot[target].generation + 1
            /\ child' = "claim observation"
       ELSE child' = "take" /\ UNCHANGED <<own_slot, child_lease>>
    /\ UNCHANGED <<child_frame, seen, target, stateVars, goneVars, obsVars, outcome, token, stage,
                   lease, handed>>

ClaimOwn(o, generation) ==
    IF claims(own_slot[o], generation)
    THEN own_slot' = [own_slot EXCEPT ![o] = claim(@)] /\ Hand(o)
    ELSE UNCHANGED <<own_slot, handed>>

ClaimObservation ==
    /\ child = "claim observation" /\ child' = "take"
    /\ ClaimOwn(target, child_lease)
    /\ UNCHANGED <<child_frame, seen, target, child_lease, stateVars, goneVars, obsVars, outcome,
                   token, stage, lease>>

TakeWaiter ==
    /\ child = "take"
    /\ IF takes(waiter_slot, TRUE)
       THEN /\ waiter_slot' = take_if(waiter_slot)
            /\ target' = waiter_slot.waiter
            /\ child_lease' = waiter_slot.generation + 1
            /\ child' = "claim"
       ELSE child' = "final" /\ UNCHANGED <<waiter_slot, target, child_lease>>
    /\ UNCHANGED <<child_frame, seen, ready, observer, control, installed, goneVars, obsVars, noteVars>>

ClaimWaiter ==
    /\ child = "claim" /\ child' = "final"
    /\ IF claims(waiter_slot, child_lease)
       THEN waiter_slot' = claim(waiter_slot) /\ Hand(target)
       ELSE UNCHANGED <<waiter_slot, handed>>
    /\ UNCHANGED <<child_frame, seen, target, child_lease, ready, observer, control, installed,
                   goneVars, obsVars, outcome, own_slot, token, stage, lease>>

(* final_awaiter: the frame goes, then its destruction is published.  A frame *)
(* that is destroyed before it has ended publishes from its promise.          *)
final_awaiter ==
    /\ \/ child = "final" /\ child_frame' = FALSE
       \/ child = "running" /\ UNCHANGED child_frame
    /\ child' = "mark"
    /\ UNCHANGED <<seen, target, child_lease, stateVars, goneVars, obsVars, noteVars>>

mark_destroyed ==
    /\ child = "mark"
    /\ destroyed' = TRUE
    /\ child' = IF list_installed THEN "swap" ELSE "ended"
    /\ UNCHANGED <<child_frame, seen, target, child_lease, stateVars, list_installed, listed,
                   pending_wakes, obsVars, noteVars>>

(* notify_destroyed *)
SwapList ==
    /\ child = "swap" /\ child' = "each"
    /\ pending_wakes' = listed /\ listed' = {}
    /\ UNCHANGED <<child_frame, seen, target, child_lease, stateVars, destroyed, list_installed,
                   obsVars, noteVars>>

NextWake ==
    /\ child = "each"
    /\ \/ /\ pending_wakes = {} /\ child' = "ended"
          /\ UNCHANGED <<pending_wakes, target, child_lease, own_slot>>
       \/ \E o \in pending_wakes :
            /\ pending_wakes' = pending_wakes \ {o}
            /\ IF takes(own_slot[o], TRUE)
               THEN /\ own_slot' = [own_slot EXCEPT ![o] = take_if(@)]
                    /\ target' = o /\ child_lease' = own_slot[o].generation + 1
                    /\ child' = "claim each"
               ELSE UNCHANGED <<child, target, child_lease, own_slot>>
    /\ UNCHANGED <<child_frame, seen, stateVars, destroyed, list_installed, listed, obsVars,
                   outcome, token, stage, lease, handed>>

ClaimEach ==
    /\ child = "claim each" /\ child' = "each"
    /\ ClaimOwn(target, child_lease)
    /\ UNCHANGED <<child_frame, seen, target, child_lease, stateVars, goneVars, obsVars, outcome,
                   token, stage, lease>>

Child == \/ complete \/ LoadObservation \/ NotifyObservation \/ WakeObservation \/ ClaimObservation
         \/ TakeWaiter \/ ClaimWaiter \/ final_awaiter \/ mark_destroyed \/ SwapList \/ NextWake \/ ClaimEach

-----------------------------------------------------------------------------
(* An observer starts: co_await of the handle, wait() or wait_until(), or    *)
(* one of the waits for the destruction.  The result of an already finished  *)
(* task is taken by its single owner.                                        *)
Begin(o, k) ==
    /\ at[o] = "new"
    /\ k = "direct" => \A p \in Observers : kind[p] = "direct" => ~ready /\ at[p] # "new"
    /\ kind' = [kind EXCEPT ![o] = k]
    /\ LET fast == CASE k = "direct" /\ ready                       -> {"value"}
                     [] k = "bounded" /\ ready                      -> {"completed"}
                     [] k = "bounded" /\ ~ready /\ token[o]         -> {"cancelled"}
                     [] k = "bounded" /\ ~ready /\ ~token[o]        -> {"timed_out", "none"}
                     [] k \in {"async", "thread"} /\ destroyed      -> {"destroyed"}
                     [] OTHER                                       -> {"none"}
       IN  \E r \in fast :
            /\ result' = [result EXCEPT ![o] = r]
            /\ at' = [at EXCEPT ![o] = CASE r # "none"   -> "returned"
                                         [] k = "async"  -> "list"
                                         [] k = "thread" -> "blocked"
                                         [] OTHER        -> "reserve"]
    /\ UNCHANGED <<childVars, stateVars, goneVars, noteVars>>

(* reserve_result_observer: one at a time, another one is refused. *)
reserve_result_observer(o) ==
    /\ at[o] = "reserve"
    /\ IF observer # "none" THEN Move(o, "rejected") /\ UNCHANGED observer
       ELSE /\ observer' = kind[o]
            /\ Move(o, IF kind[o] = "direct" THEN "register" ELSE "recheck")
    /\ UNCHANGED <<childVars, ready, control, installed, waiter_slot, goneVars, noteVars>>

set_waiter(o) ==
    /\ at[o] = "register"
    /\ IF registers(waiter_slot, ready)
       THEN waiter_slot' = register_waiter(waiter_slot, o) /\ Move(o, "suspended")
       ELSE Move(o, "resumed") /\ UNCHANGED waiter_slot
    /\ UNCHANGED <<childVars, ready, observer, control, installed, goneVars, noteVars>>

Resume(o) ==
    /\ at[o] = "suspended" /\ handed[o] > 0
    /\ Move(o, IF kind[o] = "async" THEN "destroyed?" ELSE "resumed")
    /\ UNCHANGED <<childVars, stateVars, goneVars, noteVars>>

(* release_registration, and the result after it. *)
release_registration(o) ==
    /\ at[o] = "resumed" /\ kind[o] = "direct"
    /\ waiter_slot' = remove(waiter_slot, o)
    /\ at' = [at EXCEPT ![o] = "release"]
    /\ result' = [result EXCEPT ![o] = IF ready THEN "value" ELSE "nothing"]
    /\ UNCHANGED <<childVars, kind, ready, observer, control, installed, goneVars, noteVars>>

release_result_observer(o) ==
    /\ at[o] = "release"
    /\ observer' = "none"
    /\ Move(o, IF result[o] = "none" THEN "gone" ELSE "returned")
    /\ UNCHANGED <<childVars, ready, control, installed, waiter_slot, goneVars, noteVars>>

-----------------------------------------------------------------------------
(* observe_join_result after the reservation: complete() may have seen the   *)
(* flag before the observation can be found, so the state is read again.     *)
Recheck(o) ==
    /\ at[o] = "recheck"
    /\ IF ready THEN /\ at' = [at EXCEPT ![o] = "release"]
                     /\ result' = [result EXCEPT ![o] = "completed"]
                     /\ UNCHANGED <<kind, outcome>>
       ELSE Move(o, "install") /\ outcome' = [outcome EXCEPT ![o] = "pending"]
    /\ UNCHANGED <<childVars, stateVars, goneVars, own_slot, token, stage, lease, handed>>

install_result_observer(o) ==
    /\ at[o] = "install"
    /\ \/ ~installed /\ installed' = TRUE /\ UNCHANGED <<at, control>>
       \/ installed /\ control' = o /\ at' = [at EXCEPT ![o] = "confirm"] /\ UNCHANGED installed
    /\ UNCHANGED <<childVars, ready, observer, waiter_slot, goneVars, kind, result, noteVars>>

IsReady(o) == outcome[o] \notin {"pending", "publishing_failure"}

(* Mutant of Confirm: what complete() did meanwhile is not looked at. *)
MutConfirm(o) ==
    /\ at[o] = "confirm"
    /\ UNCHANGED outcome
    /\ at' = [at EXCEPT ![o] = IF IsReady(o) THEN "clean up" ELSE "set up"]
    /\ result' = [result EXCEPT ![o] = IF IsReady(o) THEN outcome[o] ELSE @]
    /\ UNCHANGED <<childVars, kind, stateVars, goneVars, own_slot, token, stage, lease, handed>>

Confirm(o) ==
    /\ at[o] = "confirm"
    /\ IF ready THEN notify(o, "completed") ELSE UNCHANGED outcome
    /\ at' = [at EXCEPT ![o] = IF IsReady(o)' THEN "clean up" ELSE "set up"]
    /\ result' = [result EXCEPT ![o] = IF IsReady(o)' THEN outcome'[o] ELSE @]
    /\ UNCHANGED <<childVars, kind, stateVars, goneVars, own_slot, token, stage, lease, handed>>

(* The cancel callback, which runs at once on a cancelled token, and the     *)
(* timer, which the scheduler may refuse.                                    *)
on_cancel(o) ==
    /\ at[o] = "set up" /\ stage[o]["cancel"] = "idle"
    /\ stage' = [stage EXCEPT ![o]["cancel"] = IF token[o] THEN "done" ELSE "armed"]
    /\ IF token[o] THEN notify(o, "cancelled") ELSE UNCHANGED outcome
    /\ UNCHANGED <<childVars, stateVars, goneVars, obsVars, own_slot, token, lease, handed>>

launch_timer(o) ==
    /\ at[o] = "set up" /\ stage[o]["cancel"] # "idle"
    /\ \/ UNCHANGED <<stage, outcome>>
       \/ outcome[o] = "pending" /\ stage' = [stage EXCEPT ![o]["timer"] = "armed"] /\ UNCHANGED outcome
       \/ outcome[o] = "pending" /\ notify(o, "failed") /\ UNCHANGED stage
    /\ Move(o, "await")
    /\ UNCHANGED <<childVars, stateVars, goneVars, own_slot, token, lease, handed>>

AwaitObservation(o) ==
    /\ at[o] = "await"
    /\ IF registers(own_slot[o], IsReady(o))
       THEN own_slot' = [own_slot EXCEPT ![o] = register_waiter(@, o)] /\ Move(o, "suspended")
       ELSE Move(o, "resumed") /\ UNCHANGED own_slot
    /\ UNCHANGED <<childVars, stateVars, goneVars, outcome, token, stage, lease, handed>>

(* Back: the result, abandon(), unregister() (which does not wait for a      *)
(* callback that is running), and the end of the timer, its frame included.  *)
Outcome(o) ==
    /\ at[o] = "resumed" /\ kind[o] = "bounded"
    /\ result' = [result EXCEPT ![o] = outcome[o]]
    /\ own_slot' = [own_slot EXCEPT ![o] = remove(@, o)]
    /\ at' = [at EXCEPT ![o] = "unregister"]
    /\ UNCHANGED <<childVars, stateVars, goneVars, kind, outcome, token, stage, lease, handed>>

Disarm(o) ==
    stage' = [stage EXCEPT ![o] = [n \in Notifiers |-> IF @[n] = "armed" THEN "done" ELSE @[n]]]

Unregister(o) ==
    /\ at[o] = "unregister"
    /\ Disarm(o)
    /\ Move(o, "join timer")
    /\ UNCHANGED <<childVars, stateVars, goneVars, outcome, own_slot, token, lease, handed>>

JoinTimer(o) ==
    /\ at[o] = "join timer" /\ stage[o]["timer"] \in {"idle", "done"}
    /\ Move(o, "clean up")
    /\ UNCHANGED <<childVars, stateVars, goneVars, noteVars>>

(* ~join_observer_reservation, up to the release of the flag. *)
CleanUp(o) ==
    /\ at[o] = "clean up"
    /\ control' = IF control = o THEN NoObserver ELSE control
    /\ Move(o, "release")
    /\ UNCHANGED <<childVars, ready, observer, installed, waiter_slot, goneVars, noteVars>>

(* A suspended observer's frame is destroyed: the outcome may have been      *)
(* decided by somebody who has not taken the waiter yet.  The timer is told  *)
(* to stop and not joined.                                                   *)
Abandon(o) ==
    /\ at[o] = "suspended" /\ handed[o] = 0
    /\ CASE kind[o] = "direct" ->
             /\ waiter_slot' = remove(waiter_slot, o) /\ Move(o, "release")
             /\ UNCHANGED <<outcome, own_slot, stage, listed>>
         [] kind[o] = "bounded" ->
             /\ notify(o, "abandoned")
             /\ own_slot' = [own_slot EXCEPT ![o] = remove(@, o)]
             /\ Disarm(o)
             /\ Move(o, "clean up") /\ UNCHANGED <<waiter_slot, listed>>
         [] kind[o] = "async" ->
             /\ listed' = listed \ {o} /\ own_slot' = [own_slot EXCEPT ![o] = remove(@, o)]
             /\ Move(o, "gone") /\ UNCHANGED <<waiter_slot, outcome, stage>>
    /\ UNCHANGED <<childVars, ready, observer, control, installed, destroyed, list_installed,
                   pending_wakes, token, lease, handed>>

(* What notifies an observation beside the child: the callback, once the    *)
(* token is cancelled, and the timer, whose sleep ends or throws.  fail()    *)
(* reserves the outcome before it publishes the exception.                   *)
Notify(o, n) ==
    /\ \/ /\ stage[o][n] = "armed" /\ (n = "cancel" => token[o])
          /\ \E next \in {"notify"} \cup {f \in {"fail"} : n = "timer"} :
                stage' = [stage EXCEPT ![o][n] = next]
          /\ UNCHANGED <<outcome, own_slot, lease, handed>>
       \/ /\ stage[o][n] = "fail"
          /\ notify(o, "publishing_failure")
          /\ stage' = [stage EXCEPT ![o][n] = IF outcome[o] = "pending" THEN "publish" ELSE "done"]
          /\ UNCHANGED <<own_slot, lease, handed>>
       \/ /\ stage[o][n] = "publish"
          /\ outcome' = [outcome EXCEPT ![o] = "failed"]
          /\ stage' = [stage EXCEPT ![o][n] = "take"]
          /\ UNCHANGED <<own_slot, lease, handed>>
       \/ /\ stage[o][n] = "notify"
          /\ notify(o, IF n = "cancel" THEN "cancelled" ELSE "timed_out")
          /\ stage' = [stage EXCEPT ![o][n] = IF outcome[o] = "pending" THEN "take" ELSE "done"]
          /\ UNCHANGED <<own_slot, lease, handed>>
       \/ /\ stage[o][n] = "take"
          /\ IF takes(own_slot[o], TRUE)
             THEN /\ own_slot' = [own_slot EXCEPT ![o] = take_if(@)]
                  /\ lease' = [lease EXCEPT ![o][n] = own_slot[o].generation + 1]
                  /\ stage' = [stage EXCEPT ![o][n] = "claim"]
             ELSE stage' = [stage EXCEPT ![o][n] = "done"] /\ UNCHANGED <<own_slot, lease>>
          /\ UNCHANGED <<outcome, handed>>
       \/ /\ stage[o][n] = "claim"
          /\ ClaimOwn(o, lease[o][n])
          /\ stage' = [stage EXCEPT ![o][n] = "done"]
          /\ UNCHANGED <<outcome, lease>>
    /\ UNCHANGED <<childVars, stateVars, goneVars, obsVars, token>>

RequestCancel(o) ==
    /\ ~token[o] /\ token' = [token EXCEPT ![o] = TRUE]
    /\ UNCHANGED <<childVars, stateVars, goneVars, obsVars, outcome, own_slot, stage, lease, handed>>

-----------------------------------------------------------------------------
(* wait_destroyed_async: the list is installed by a compare-exchange that    *)
(* fails when the task was destroyed or the list is there; a registration    *)
(* under the lock of the list looks again.                                   *)
async_destruction_waiters(o) ==
    /\ at[o] = "list"
    /\ IF list_installed \/ ~destroyed THEN list_installed' = TRUE /\ Move(o, "enlist")
       ELSE UNCHANGED list_installed /\ Move(o, "destroyed?")
    /\ UNCHANGED <<childVars, stateVars, destroyed, listed, pending_wakes, noteVars>>

Enlist(o) ==
    /\ at[o] = "enlist"
    /\ IF destroyed THEN Move(o, "destroyed?") /\ UNCHANGED <<listed, own_slot>>
       ELSE /\ listed' = listed \cup {o}
            /\ own_slot' = [own_slot EXCEPT ![o] = register_waiter(@, o)]
            /\ Move(o, "suspended")
    /\ UNCHANGED <<childVars, stateVars, destroyed, list_installed, pending_wakes, outcome, token,
                   stage, lease, handed>>

(* await_resume of the awaitable, and the wait of a thread. *)
Destroyed(o) ==
    /\ at[o] = "destroyed?" \/ (at[o] = "blocked" /\ destroyed)
    /\ Return(o, IF destroyed THEN "destroyed" ELSE "nothing")
    /\ own_slot' = [own_slot EXCEPT ![o] = remove(@, o)]
    /\ listed' = listed \ {o}
    /\ UNCHANGED <<childVars, stateVars, destroyed, list_installed, pending_wakes, outcome, token,
                   stage, lease, handed>>

Step(o) ==
    \/ reserve_result_observer(o) \/ set_waiter(o) \/ Resume(o) \/ release_registration(o)
    \/ release_result_observer(o) \/ Recheck(o) \/ install_result_observer(o) \/ Confirm(o)
    \/ on_cancel(o) \/ launch_timer(o) \/ AwaitObservation(o) \/ Outcome(o) \/ Unregister(o)
    \/ JoinTimer(o) \/ CleanUp(o) \/ async_destruction_waiters(o) \/ Enlist(o) \/ Destroyed(o)

JoinNext ==
    \/ Child
    \/ \E o \in Observers :
        \/ \E k \in {"direct", "bounded", "async", "thread"} : Begin(o, k)
        \/ Step(o) \/ Abandon(o) \/ RequestCancel(o)
        \/ \E n \in Notifiers : Notify(o, n)

(* A task that has ended completes its handle; a timer that has fired      *)
(* notifies.  Neither has to end or to fire.                                *)
ChildGoesOn == child # "running" /\ Child
TimerGoesOn(o) == stage[o]["timer"] # "armed" /\ Notify(o, "timer")

JoinFairness ==
    /\ WF_joinVars(ChildGoesOn)
    /\ \A o \in Observers : WF_joinVars(Step(o)) /\ WF_joinVars(Notify(o, "cancel"))
                            /\ WF_joinVars(TimerGoesOn(o))

JoinSpec == JoinInit /\ [][JoinNext]_joinVars /\ JoinFairness

-----------------------------------------------------------------------------
Holding == {"register", "recheck", "install", "confirm", "set up", "await", "suspended", "resumed",
            "unregister", "join timer", "clean up", "release"}
Holders == {o \in Observers : kind[o] \in {"direct", "bounded"} /\ at[o] \in Holding}

(* One observer of the result at a time, and the flag says so: a refused one *)
(* does not disturb it, and complete() finds the kind that is registered.    *)
ObserversAreExclusive ==
    /\ Cardinality(Holders) <= 1
    /\ observer = IF Holders = {} THEN "none" ELSE kind[CHOOSE o \in Holders : TRUE]

(* An observer is scheduled once, whoever selects its outcome, and never      *)
(* after its frame was destroyed.                                             *)
ObserversWakeOnce ==
    \A o \in Observers : /\ handed[o] <= 1
                         /\ at[o] = "gone" => handed[o] = 0

(* What an observer returns is so: a value or "completed" means a published  *)
(* result, "destroyed" that the frame of a finished task is gone, and a      *)
(* time-out or cancellation that the timer or the token was the reason.      *)
ObservationsAreHonest ==
    \A o \in Observers :
        /\ result[o] \notin {"nothing", "pending", "publishing_failure", "abandoned"}
        /\ result[o] \in {"value", "completed"} => ready
        /\ result[o] = "destroyed" => destroyed /\ (ready => ~child_frame)
        /\ result[o] = "cancelled" => token[o]

(* Nobody is forgotten: when the result is published, the token cancelled or *)
(* the frame destroyed, whoever is still suspended on it is scheduled or     *)
(* about to be found by the child, the callback or the timer.                *)
NobodyIsForgotten ==
    \A o \in Observers : at[o] = "suspended" /\ handed[o] = 0 =>
        LET noted == \E n \in Notifiers : stage[o][n] \in {"notify", "publish", "take", "claim"}
            searching == child \in {"load", "notify", "wake", "claim observation", "take", "claim"}
        IN  /\ kind[o] = "direct" /\ ready => searching
            /\ kind[o] = "bounded" /\ ready => searching \/ noted
            /\ kind[o] = "bounded" /\ token[o] => searching \/ noted \/ stage[o]["cancel"] = "armed"
            /\ kind[o] = "async" /\ destroyed => child \in {"swap", "each", "claim each"}

(* Nobody is left: a published result, a cancelled token and a destroyed    *)
(* frame have reached everyone who waits for them.                          *)
Served ==
    \A o \in Observers :
        /\ kind[o] \in {"direct", "bounded"} /\ (ready \/ (token[o] /\ kind[o] = "bounded")) =>
             at[o] \in {"returned", "rejected", "gone"}
        /\ destroyed /\ kind[o] \in {"async", "thread"} => at[o] \in {"returned", "gone"}

=============================================================================
