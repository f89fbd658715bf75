----------------------------- MODULE EventProof -----------------------------
(***************************************************************************)
(* Proof that IndInv is an inductive invariant of Event, for any set of    *)
(* waiters.                                                                *)
(***************************************************************************)
EXTENDS Event, WaiterProof

USE DEF Step, WaiterTypeOK, WakeStates, Locations, Ends, was_cancelled, scheduling

(* The invariant is that of the waiters and two facts about signaled. *)
LEMMA Parts ==
    ASSUME NEW queue, waiters = queue
    PROVE  IndInv <=> Good(queue) /\ signaled \in BOOLEAN /\ NobodyWaitsWhenSet
  BY DEF IndInv, TypeOK, Good

(* The same of the next state. *)
LEMMA PartsNext ==
    ASSUME NEW queue, waiters' = queue
    PROVE  IndInv' <=> Good(queue)' /\ signaled' \in BOOLEAN /\ NobodyWaitsWhenSet'
  BY DEF IndInv, TypeOK, Good, WaiterInv, QueueInv, QueuedInv

(* The event starts with nobody waiting. *)
LEMMA InitInv == Init => IndInv
  BY WaiterInitInv, Parts, ZenonT(30) DEF Init, NobodyWaitsWhenSet

(* Every step preserves the invariant. *)
LEMMA NextInv == IndInv /\ [Next]_vars => IndInv'
<1> SUFFICES ASSUME IndInv, [Next]_vars PROVE IndInv'
  OBVIOUS
<1>0. PICK queue, queue2 : queue = waiters /\ queue2 = waiters'
  OBVIOUS
<1>1. Good(queue) /\ signaled \in BOOLEAN /\ (signaled => queue = <<>>)
  BY <1>0, Parts DEF NobodyWaitsWhenSet
<1> DEFINE Kept == Good(queue2)' /\ signaled' \in BOOLEAN /\ (signaled' => queue2 = <<>>)
<1>2. SUFFICES Kept
  BY <1>0, PartsNext DEF NobodyWaitsWhenSet
<1>3. ASSUME NEW w \in Waiters, NEW t \in BOOLEAN, Begin(w, t)
      PROVE  Kept
  BY <1>0, <1>1, <1>3, BeginWaitInv DEF Begin, event
<1>4. ASSUME NEW w \in Waiters, AwaitReady(w)
      PROVE  Kept
  <2>1. UNCHANGED <<signaled, cancellable, to_schedule, cancelling, scheduled>> /\ queue2 = queue
    BY <1>0, <1>4 DEF AwaitReady, event, queues
  <2>2. wake \in [Waiters -> WakeStates] /\ LocationInv
    BY <1>1 DEF Good, WaiterInv
  <2>3. PICK to, s : Proceeds(w, to, s)
    <3>1. CASE w \notin cancellable
      <4>1. wake' = [wake EXCEPT ![w] = wake[w]]
        BY <1>4, <2>2, <3>1 DEF AwaitReady
      <4>2. Proceeds(w, IF signaled THEN "completed" ELSE "suspend", wake[w])
        BY <1>4, <2>1, <3>1, <4>1 DEF AwaitReady, Proceeds
      <4> QED BY <4>2
    <3>2. CASE w \in cancellable
      <4>1. pc[w] = "ready" /\ wake[w] \in {"idle", "cancelled_inline"}
        BY <1>4, <2>2, <3>2 DEF AwaitReady, LocationInv
      <4>2. wake' = [wake EXCEPT ![w] = IF signaled THEN claim_notification(wake[w])
                                                    ELSE wake[w]]
        BY <1>4, <2>2, <3>2 DEF AwaitReady
      <4>3. Proceeds(w, IF was_cancelled(wake[w]) \/ signaled THEN "resume" ELSE "suspend",
                     IF signaled THEN claim_notification(wake[w]) ELSE wake[w])
        BY <1>4, <2>1, <3>2, <4>1, <4>2 DEF AwaitReady, claim_notification, Proceeds
      <4> QED BY <4>3
    <3> QED BY <3>1, <3>2
  <2>4. Good(queue)'
    BY <1>1, <2>3, ProceedInv
  <2> QED BY <1>1, <2>1, <2>4
<1>5. ASSUME NEW w \in Waiters, Recheck(w) \/ AllocationFails(w)
      PROVE  Kept
  <2>1. /\ UNCHANGED <<signaled, cancellable, to_schedule, cancelling, scheduled>>
        /\ queue2 = queue
        /\ pc[w] \in {"suspend", "enqueue"}
    BY <1>0, <1>5 DEF Recheck, AllocationFails, event, queues
  <2>2. wake' = [wake EXCEPT ![w] = wake[w]]
    BY <1>1, <1>5 DEF Recheck, AllocationFails, Good
  <2>3. PICK to : Proceeds(w, to, wake[w])
    BY <1>5, <2>1, <2>2 DEF Recheck, AllocationFails, Proceeds
  <2>4. Good(queue)'
    BY <1>1, <2>3, ProceedInv
  <2> QED BY <1>1, <2>1, <2>4
<1>6. ASSUME NEW w \in Waiters, Enqueue(w)
      PROVE  Kept
  <2>1. UNCHANGED <<signaled, cancellable, to_schedule, cancelling, scheduled>> /\ pc[w] = "enqueue"
    BY <1>6 DEF Enqueue, queues
  <2>2. CASE signaled
    <3>1. queue2 = queue /\ pc' = [pc EXCEPT ![w] = "completed"]
      BY <1>0, <1>6, <2>2 DEF Enqueue
    <3>2. wake' = [wake EXCEPT ![w] = wake[w]]
      BY <1>1, <1>6, <2>2 DEF Enqueue, Good
    <3>3. Proceeds(w, "completed", wake[w])
      BY <2>1, <3>1, <3>2 DEF Proceeds
    <3>4. Good(queue)'
      BY <1>1, <3>3, ProceedInv
    <3> QED BY <1>1, <2>1, <3>1, <3>4
  <2>3. CASE ~signaled
    <3>1. /\ queue2 = push_back(queue, w)
          /\ pc' = [pc EXCEPT ![w] = "suspended"]
          /\ wake' = [wake EXCEPT ![w] = set_handle(wake[w])]
      BY <1>0, <1>6, <2>3 DEF Enqueue
    <3>2. wake[w] = "idle"
      BY <1>1, <2>1 DEF Good, WaiterInv, LocationInv
    <3>3. wake' = [wake EXCEPT ![w] = "waiting"]
      BY <3>1, <3>2 DEF set_handle
    <3>4. Publishes(w, "suspended", "waiting")
      BY <2>1, <3>1, <3>2, <3>3, ZenonT(30) DEF Publishes
    <3>5. Good(push_back(queue, w))'
      BY <1>1, <3>4, PublishInv
    <3> QED BY <1>1, <2>1, <2>3, <3>1, <3>5
  <2> QED BY <1>1, <2>2, <2>3
<1>7. ASSUME NEW w \in Waiters, AwaitSuspendToken(w)
      PROVE  Kept
  <2>1. /\ UNCHANGED <<signaled, cancellable, to_schedule, cancelling, scheduled>>
        /\ pc[w] = "suspend" /\ w \in cancellable
    BY <1>7 DEF AwaitSuspendToken, queues
  <2>2. wake \in [Waiters -> WakeStates] /\ wake[w] \in {"idle", "cancelled_inline"}
    BY <1>1, <2>1 DEF Good, WaiterInv, LocationInv
  <2>3. CASE pc' = [pc EXCEPT ![w] = "resume"]
    <3>1. queue2 = queue
      BY <1>0, <1>1, <1>7, <2>1, <2>3 DEF AwaitSuspendToken, Good
    <3>2. PICK s \in {"notified_inline", "cancelled_inline"} : wake' = [wake EXCEPT ![w] = s]
      BY <1>1, <1>7, <2>1, <2>2, <2>3 DEF AwaitSuspendToken, Good, claim_notification
    <3>3. Proceeds(w, "resume", s)
      BY <2>1, <2>3, <3>2 DEF Proceeds
    <3>4. Good(queue)'
      BY <1>1, <3>3, ProceedInv
    <3> QED BY <1>1, <2>1, <3>1, <3>4
  <2>4. CASE ~was_cancelled(wake[w]) /\ ~signaled /\ pc' = [pc EXCEPT ![w] = "suspended"]
    <3>1. queue2 = push_back(queue, w) /\ wake' = [wake EXCEPT ![w] = "waiting"]
      BY <1>0, <1>1, <1>7, <2>1, <2>2, <2>4
      DEF AwaitSuspendToken, Good, set_handle_blocked, unblock_after_publish
    <3>2. Publishes(w, "suspended", "waiting")
      BY <2>1, <2>2, <2>4, <3>1 DEF Publishes
    <3>3. Good(push_back(queue, w))'
      BY <1>1, <3>2, PublishInv
    <3> QED BY <1>1, <2>1, <2>4, <3>1, <3>3
  <2> QED BY <1>7, <2>3, <2>4 DEF AwaitSuspendToken
<1>8. ASSUME set
      PROVE  Kept
  <2>1. PICK popped : popped = {v \in Waiters : is_linked(waiters, v) /\ Claimable(v)}
    BY ZenonT(30)
  <2>2. /\ signaled' = TRUE /\ queue2 = <<>>
        /\ to_schedule' = to_schedule \cup popped
        /\ wake' = [v \in Waiters |-> IF v \in popped THEN claim(v) ELSE wake[v]]
        /\ UNCHANGED <<cancellable, cancelling, scheduled, pc>>
    BY <1>0, <1>8, <2>1 DEF set
  <2>3. Selection(queue, <<>>, popped)
    <3>1. \A i \in 1..Len(queue) : queue[i] \in Waiters
      BY <1>1 DEF Good
    <3> QED BY <1>0, <2>1, <3>1 DEF Selection, Distinct, is_linked
  <2>4. Selects(queue, popped, wake)
    BY <1>1, <2>2 DEF Selects, Good
  <2>5. Good(<<>>)'
    BY <1>1, <2>3, <2>4, SelectInv
  <2> QED BY <2>2, <2>5
<1>9. ASSUME reset
      PROVE  Kept
  <2>1. queue2 = queue /\ ~signaled' /\ UNCHANGED waiterVars
    BY <1>0, <1>9 DEF reset
  <2>2. Good(queue)'
    BY <1>1, <2>1, WaiterStutter
  <2> QED BY <1>9, <2>1, <2>2, ZenonT(30) DEF reset
<1>10. ASSUME NEW w \in Waiters, Dispatch(w) \/ Resume(w) \/ Cancel(w) \/ CancelSchedule(w)
       PROVE  Kept
  <2>1. queue2 = queue /\ signaled' = signaled
    BY <1>0, <1>10 DEF Dispatch, Resume, Cancel, CancelSchedule, event
  <2>2. Good(queue)'
    BY <1>1, <1>10, ScheduleSelectedInv, ResumeHandleInv, RequestCancelInv,
       ScheduleClaimedInv
    DEF Dispatch, Resume, Cancel, CancelSchedule
  <2> QED BY <1>1, <2>1, <2>2
<1>11. ASSUME NEW w \in Waiters, AwaitResume(w)
       PROVE  Kept
  <2>1. wake[w] \notin {"blocked", "waiting"} /\ pc[w] = "resume" /\ signaled' = signaled
    BY <1>1, <1>11 DEF AwaitResume, Good, WaiterInv, LocationInv
  <2>2. Departs(w, IF was_cancelled(wake[w]) THEN "cancelled" ELSE "completed")
    BY <1>11, <2>1 DEF AwaitResume, Departs, Unregistered, queues
  <2>3. Good(remove(queue, w))'
    BY <1>1, <2>2, DepartInv
  <2>4. queue2 = remove(queue, w)
    <3>1. CASE was_cancelled(wake[w])
      BY <1>0, <1>11, <3>1 DEF AwaitResume
    <3>2. CASE ~was_cancelled(wake[w])
      BY <1>0, <1>1, <1>11, <2>1, <3>2, NotLinked DEF AwaitResume
    <3> QED BY <3>1, <3>2
  <2>5. queue = <<>> => queue2 = <<>>
    BY <2>4 DEF remove, is_linked
  <2> QED BY <1>1, <2>1, <2>3, <2>4, <2>5
<1>12. ASSUME NEW w \in Waiters, Destroy(w)
       PROVE  Kept
  <2>1. Destroys(w) /\ queue2 = remove(queue, w) /\ signaled' = signaled
    BY <1>0, <1>12 DEF Destroy, Destroys, queues
  <2>2. Good(remove(queue, w))'
    BY <1>1, <2>1, DestroyFrameInv
  <2>3. queue = <<>> => queue2 = <<>>
    BY <2>1 DEF remove, is_linked
  <2> QED BY <1>1, <2>1, <2>2, <2>3
<1>13. CASE UNCHANGED vars
  <2>1. queue2 = queue /\ UNCHANGED signaled /\ UNCHANGED waiterVars
    BY <1>0, <1>13 DEF vars, event
  <2>2. Good(queue)'
    BY <1>1, <2>1, WaiterStutter
  <2> QED BY <1>1, <2>1, <2>2
<1> QED
  BY <1>3, <1>4, <1>5, <1>6, <1>7, <1>8, <1>9, <1>10, <1>11, <1>12, <1>13 DEF Next, Run

(* Whoever set() takes from the queue is woken, and nobody waits for an     *)
(* event that is set.                                                       *)
LEMMA Safe == IndInv => WakesAreExact /\ NobodyWaitsWhenSet
<1> SUFFICES ASSUME IndInv PROVE WakesAreExact
  BY DEF IndInv
<1>1. PICK queue : queue = waiters
  OBVIOUS
<1>2. Good(queue)
  BY <1>1, Parts
<1> QED BY <1>1, <1>2, GoodWakes DEF WakesAreExact

(* IndInv holds in every reachable state of an event. *)
THEOREM EventInvariant == Spec => []IndInv
  BY InitInv, NextInv, PTL DEF Spec

=============================================================================
