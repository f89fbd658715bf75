----------------------- MODULE ConditionVariableProof -----------------------
(***************************************************************************)
(* Proof that IndInv is an inductive invariant of ConditionVariable, for   *)
(* any set of waits, and that a notification reaches somebody.             *)
(***************************************************************************)
EXTENDS ConditionVariable, WaiterProof

USE DEF Step, Ends

(* The part of the invariant that is about the lock. *)
LockOK ==
    /\ locked \subseteq Waiters
    /\ lock \in Waiters \cup {NoOwner}
    /\ lock_released \subseteq locked
    /\ LockInv
    /\ \A w \in locked :
        lock = w <=> \/ pc[w] \in {"ready", "suspend", "unlock", "return"}
                     \/ pc[w] = "resume" /\ w \notin lock_released

(* The invariant is that of the waiters and that of the lock. *)
LEMMA Parts ==
    ASSUME NEW queue, waiters = queue PROVE IndInv <=> Good(queue) /\ LockOK
  BY DEF IndInv, TypeOK, Good, LockOK, LockDiscipline, WaiterInv, QueuedInv

(* The same of the next state. *)
LEMMA PartsNext ==
    ASSUME NEW queue, waiters' = queue PROVE IndInv' <=> Good(queue)' /\ LockOK'
  BY DEF IndInv, TypeOK, Good, LockOK, LockInv, LockDiscipline, WaiterInv, QueueInv,
         QueuedInv

(* At first nobody waits and the lock is free. *)
LEMMA InitInv == NoOwner \notin Waiters /\ Init => IndInv
<1> SUFFICES ASSUME NoOwner \notin Waiters, Init PROVE IndInv
  OBVIOUS
<1>1. Good(<<>>)
  BY WaiterInitInv DEF Init
<1>2. LockOK
  BY DEF Init, WaiterInit, LockOK, LockInv
<1> QED BY <1>1, <1>2, Parts DEF Init

(* A step of a wait that does not touch the lock. *)
LEMMA LockKept ==
    ASSUME NoOwner \notin Waiters, LockOK, pc \in [Waiters -> Locations],
           NEW w \in Waiters, NEW to, pc' = [pc EXCEPT ![w] = to],
           UNCHANGED <<locked, lock, lock_released>>,
           \/ pc[w] = "ready" /\ to \in {"suspend", "resume"}
           \/ pc[w] = "suspend" /\ to = "resume"
           \/ pc[w] = "suspend" /\ to = "unlock" /\ w \in locked
           \/ pc[w] = "suspend" /\ to \in {"unblock", "suspended"} /\ w \notin locked
           \/ pc[w] = "unblock" /\ to \in {"suspended", "resume"}
           \/ pc[w] = "suspended" /\ to \in {"resume"} \cup Ends
           \/ pc[w] = "resume" /\ to = "relock" /\ w \in lock_released
           \/ pc[w] = "resume" /\ to = "return" /\ w \notin lock_released
    PROVE  LockOK'
  BY DEF LockOK, LockInv

(* Steps that leave pc and the lock alone. *)
LEMMA LockStutter ==
    ASSUME LockOK, UNCHANGED <<locked, lock, lock_released, pc>> PROVE LockOK'
  BY DEF LockOK, LockInv

(* notify(all) pops the first "cut" waiters, selects those it can claim and *)
(* leaves the rest.                                                         *)
Notifies(all, queue, cut, chosen, rest) ==
    /\ cut \in 1..Len(queue)
    /\ rest = waiters'
    /\ chosen = {queue[i] : i \in {j \in 1..cut : Claimable(queue[j])}}
    /\ IF all THEN cut = Len(queue)
              ELSE /\ \A i \in 1..(cut - 1) : ~Claimable(queue[i])
                   /\ cut = Len(queue) \/ Claimable(queue[cut])
    /\ Selection(queue, rest, chosen)
    /\ Selects(queue, chosen, wake)
    /\ UNCHANGED <<locked, lock, lock_released, pc>>

(* So do notify_one() and notify_all(). *)
LEMMA NotifySelects ==
    ASSUME NEW queue, waiters = queue, Good(queue), NEW all \in BOOLEAN, notify(all)
    PROVE  \E cut, chosen, rest : Notifies(all, queue, cut, chosen, rest)
<1>1. PICK cut \in 1..Len(waiters) :
        LET popped == {waiters[i] : i \in {j \in 1..cut : Claimable(waiters[j])}}
        IN  /\ IF all THEN cut = Len(waiters)
                      ELSE /\ \A i \in 1..(cut - 1) : ~Claimable(waiters[i])
                           /\ cut = Len(waiters) \/ Claimable(waiters[cut])
            /\ waiters' = SubSeq(waiters, cut + 1, Len(waiters))
            /\ to_schedule' = to_schedule \cup popped
            /\ wake' = [v \in Waiters |-> IF v \in popped THEN claim(v) ELSE wake[v]]
            /\ UNCHANGED <<locked, lock, lock_released, cancellable, cancelling,
                           scheduled, pc>>
  BY DEF notify
<1>2. PICK chosen : chosen = {waiters[i] : i \in {j \in 1..cut : Claimable(waiters[j])}}
  BY ZenonT(30)
<1>3. PICK rest : rest = waiters'
  OBVIOUS
<1>4. /\ cut \in 1..Len(queue) /\ cut \in 0..Len(queue)
      /\ chosen = {queue[i] : i \in {j \in 1..cut : Claimable(queue[j])}}
      /\ rest = SubSeq(queue, cut + 1, Len(queue))
      /\ IF all THEN cut = Len(queue)
                ELSE /\ \A i \in 1..(cut - 1) : ~Claimable(queue[i])
                     /\ cut = Len(queue) \/ Claimable(queue[cut])
  BY <1>1, <1>2, <1>3 DEF Good
<1>5. Selection(queue, rest, chosen)
  BY <1>4, CutSelects, ZenonT(30)
<1>6. Selects(queue, chosen, wake)
  BY <1>1, <1>2 DEF Selects, Good, WaiterTypeOK
<1>7. Notifies(all, queue, cut, chosen, rest)
  BY <1>1, <1>3, <1>4, <1>5, <1>6 DEF Notifies
<1> QED BY <1>7

(* Every step preserves the invariant. *)
LEMMA NextInv == NoOwner \notin Waiters /\ IndInv /\ [Next]_vars => IndInv'
<1> SUFFICES ASSUME NoOwner \notin Waiters, IndInv, [Next]_vars PROVE IndInv'
  OBVIOUS
<1>0. PICK queue, queue2 : queue = waiters /\ queue2 = waiters'
  OBVIOUS
<1>1. Good(queue) /\ LockOK /\ pc \in [Waiters -> Locations]
  BY <1>0, Parts DEF Good, WaiterTypeOK
<1> DEFINE Kept == Good(queue2)' /\ LockOK'
<1>2. SUFFICES Kept
  BY <1>0, PartsNext
<1>3. ASSUME NEW w \in Waiters, NEW t \in BOOLEAN, NEW l \in BOOLEAN, Begin(w, t, l)
      PROVE  Kept
  <2>1. Good(queue)' /\ queue2 = queue
    BY <1>0, <1>1, <1>3, BeginWaitInv DEF Begin
  <2>2. LockOK'
    BY <1>1, <1>3 DEF Begin, BeginWait, LockOK, LockInv
  <2> QED BY <2>1, <2>2
<1>4. ASSUME NEW w \in Waiters, AwaitReady(w) PROVE Kept
  <2>1. /\ UNCHANGED <<locked, lock, lock_released, cancellable, to_schedule, cancelling,
                       scheduled>>
        /\ queue2 = queue /\ pc[w] = "ready"
    BY <1>0, <1>4 DEF AwaitReady, cv, queues
  <2>2. wake' = [wake EXCEPT ![w] = wake[w]]
    BY <1>1, <1>4 DEF AwaitReady, Good, WaiterTypeOK
  <2>3. CASE was_cancelled(wake[w])
    <3>1. pc' = [pc EXCEPT ![w] = "resume"]
      BY <1>4, <2>3 DEF AwaitReady
    <3>2. wake[w] = "cancelled_inline" /\ w \in cancellable
      BY <1>1, <2>1, <2>3 DEF Good, WaiterInv, LocationInv, was_cancelled
    <3>3. Proceeds(w, "resume", wake[w])
      BY <2>1, <2>2, <3>1, <3>2 DEF Proceeds
    <3> QED BY <1>1, <2>1, <3>1, <3>3, ProceedInv, LockKept, ZenonT(30)
  <2>4. CASE ~was_cancelled(wake[w])
    <3>1. pc' = [pc EXCEPT ![w] = "suspend"]
      BY <1>4, <2>4 DEF AwaitReady
    <3>2. Proceeds(w, "suspend", wake[w])
      BY <2>1, <2>2, <3>1 DEF Proceeds
    <3> QED BY <1>1, <2>1, <3>1, <3>2, ProceedInv, LockKept, ZenonT(30)
  <2> QED BY <2>3, <2>4
<1>5. ASSUME NEW w \in Waiters, SuspendUnlocked(w) PROVE Kept
  <2>1. /\ UNCHANGED <<locked, lock, lock_released, cancellable, to_schedule, cancelling,
                       scheduled>>
        /\ queue2 = push_back(queue, w) /\ pc[w] = "suspend"
        /\ w \notin cancellable /\ w \notin locked
        /\ pc' = [pc EXCEPT ![w] = "suspended"]
    BY <1>0, <1>5 DEF SuspendUnlocked, queues
  <2>2. wake[w] = "idle"
    BY <1>1, <2>1 DEF Good, WaiterInv, LocationInv
  <2>3. wake' = [wake EXCEPT ![w] = "waiting"]
    BY <1>5, <2>2 DEF SuspendUnlocked, set_handle
  <2>4. Publishes(w, "suspended", "waiting")
    BY <2>1, <2>2, <2>3 DEF Publishes
  <2> QED BY <1>1, <2>1, <2>4, PublishInv, LockKept, ZenonT(30)
<1>6. ASSUME NEW w \in Waiters, Prepare(w) PROVE Kept
  <2>1. /\ UNCHANGED <<locked, lock, lock_released, cancellable, to_schedule, cancelling,
                       scheduled>>
        /\ pc[w] = "suspend"
    BY <1>6 DEF Prepare, queues
  <2>2. CASE was_cancelled(wake[w])
    <3>1. pc' = [pc EXCEPT ![w] = "resume"] /\ queue2 = queue
      BY <1>0, <1>6, <2>2 DEF Prepare
    <3>2. wake' = [wake EXCEPT ![w] = wake[w]]
      BY <1>1, <1>6, <2>2 DEF Prepare, Good, WaiterTypeOK
    <3>3. wake[w] = "cancelled_inline" /\ w \in cancellable
      BY <1>1, <2>1, <2>2 DEF Good, WaiterInv, LocationInv, was_cancelled
    <3>4. Proceeds(w, "resume", wake[w])
      BY <2>1, <3>1, <3>2, <3>3 DEF Proceeds
    <3> QED BY <1>1, <2>1, <3>1, <3>4, ProceedInv, LockKept, ZenonT(30)
  <2>3. CASE ~was_cancelled(wake[w])
    <3>1. /\ queue2 = push_back(queue, w)
          /\ pc' = [pc EXCEPT ![w] = IF w \in locked THEN "unlock" ELSE "unblock"]
      BY <1>0, <1>6, <2>3 DEF Prepare
    <3>2. wake[w] = "idle"
      BY <1>1, <2>1, <2>3 DEF Good, WaiterInv, LocationInv, was_cancelled
    <3>3. wake' = [wake EXCEPT ![w] = "blocked"]
      BY <1>6, <2>3, <3>2 DEF Prepare, set_handle_blocked
    <3>4. Publishes(w, IF w \in locked THEN "unlock" ELSE "unblock", "blocked")
      BY <2>1, <3>1, <3>2, <3>3 DEF Publishes
    <3>5. Good(push_back(queue, w))'
      BY <1>1, <3>4, PublishInv
    <3>6. LockOK'
      BY <1>1, <2>1, <3>1, LockKept, ZenonT(30)
    <3> QED BY <3>1, <3>5, <3>6
  <2> QED BY <2>2, <2>3
<1>7. ASSUME NEW w \in Waiters, Unlock(w) PROVE Kept
  <2>1. queue2 = queue /\ Moves(w, "unlock", "unblock")
    BY <1>0, <1>7 DEF Unlock, Moves, queues
  <2>2. LockOK'
    BY <1>1, <1>7 DEF Unlock, LockOK, LockInv
  <2> QED BY <1>1, <2>1, <2>2, MoveInv
<1>8. ASSUME NEW w \in Waiters, Unblock(w) PROVE Kept
  <2>1. /\ UNCHANGED <<locked, lock, lock_released, cancellable, to_schedule, cancelling,
                       scheduled>>
        /\ pc[w] = "unblock"
    BY <1>8 DEF Unblock, queues
  <2>2. CASE wake[w] = "blocked"
    <3>1. /\ queue2 = queue
          /\ pc' = [pc EXCEPT ![w] = "suspended"]
          /\ wake' = [wake EXCEPT ![w] = "waiting"]
      BY <1>0, <1>8, <2>2 DEF Unblock, unblock_after_publish
    <3>2. Good(queue)'
      BY <1>1, <2>1, <2>2, <3>1, UnblockInv, ZenonT(30)
    <3> QED BY <1>1, <2>1, <3>1, <3>2, LockKept, ZenonT(30)
  <2>3. CASE wake[w] # "blocked"
    <3>1. w \notin cancelling /\ wake[w] # "waiting"
      BY <1>1, <2>1 DEF Good, WaiterInv, SelectedInv, LocationInv
    <3>2. pc' = [pc EXCEPT ![w] = "resume"] /\ wake' = wake
      BY <1>8, <2>3 DEF Unblock
    <3>3. Departs(w, "resume")
      BY <2>1, <2>3, <3>1, <3>2 DEF Departs
    <3>4. queue2 = remove(queue, w)
      BY <1>0, <1>1, <1>8, <2>3, <3>1, NotLinked DEF Unblock
    <3>5. Good(remove(queue, w))'
      BY <1>1, <3>3, DepartInv
    <3> QED BY <1>1, <2>1, <3>2, <3>4, <3>5, LockKept, ZenonT(30)
  <2> QED BY <2>2, <2>3
<1>9. ASSUME NEW all \in BOOLEAN, notify(all) PROVE Kept
  <2>0. PICK cut, chosen, rest : Notifies(all, queue, cut, chosen, rest)
    BY <1>0, <1>1, <1>9, NotifySelects
  <2>1. /\ rest = waiters'
        /\ Selection(queue, rest, chosen)
        /\ Selects(queue, chosen, wake)
        /\ UNCHANGED <<locked, lock, lock_released, pc>>
    BY <2>0 DEF Notifies
  <2>2. PICK wk : wk = wake
    OBVIOUS
  <2>3. Selects(queue, chosen, wk)
    BY <2>1, <2>2
  <2>4. Good(rest)'
    BY <1>1, <2>1, <2>3, SelectInv
  <2> QED BY <1>0, <1>1, <2>1, <2>4, LockStutter
<1>10. ASSUME NEW w \in Waiters, Dispatch(w) \/ Cancel(w) \/ CancelSchedule(w) PROVE Kept
  <2>1. queue2 = queue /\ UNCHANGED <<locked, lock, lock_released, pc>>
    BY <1>0, <1>10
    DEF Dispatch, Cancel, CancelSchedule, cv, ScheduleSelected, RequestCancel,
        ScheduleClaimed
  <2>2. Good(queue)'
    BY <1>1, <1>10, ScheduleSelectedInv, RequestCancelInv, ScheduleClaimedInv
    DEF Dispatch, Cancel, CancelSchedule
  <2> QED BY <1>1, <2>1, <2>2, LockStutter
<1>11. ASSUME NEW w \in Waiters, Resume(w) PROVE Kept
  <2>1. /\ queue2 = queue /\ UNCHANGED <<locked, lock, lock_released>>
        /\ pc[w] = "suspended" /\ pc' = [pc EXCEPT ![w] = "resume"]
    BY <1>0, <1>11 DEF Resume, ResumeHandle, cv
  <2>2. Good(queue)'
    BY <1>1, <1>11, ResumeHandleInv DEF Resume
  <2> QED BY <1>1, <2>1, <2>2, LockKept, ZenonT(30)
<1>12. ASSUME NEW w \in Waiters, AwaitResume(w) PROVE Kept
  <2>1. /\ UNCHANGED <<locked, lock, lock_released>>
        /\ pc[w] = "resume" /\ wake[w] \notin {"blocked", "waiting"}
        /\ pc' = [pc EXCEPT ![w] = IF w \in lock_released THEN "relock" ELSE "return"]
    BY <1>1, <1>12 DEF AwaitResume, Good, WaiterInv, LocationInv
  <2>2. Departs(w, IF w \in lock_released THEN "relock" ELSE "return")
    BY <1>12, <2>1 DEF AwaitResume, Departs, Unregistered, queues
  <2>3. queue2 = remove(queue, w)
    BY <1>0, <1>1, <1>12, <2>1, NotLinked DEF AwaitResume
  <2>4. Good(remove(queue, w))'
    BY <1>1, <2>2, DepartInv
  <2>5. LockOK'
    BY <1>1, <2>1, LockKept, ZenonT(30)
  <2> QED BY <2>3, <2>4, <2>5
<1>13. ASSUME NEW w \in Waiters, Relock(w) PROVE Kept
  <2>1. queue2 = queue /\ Moves(w, "relock", "return")
    BY <1>0, <1>13 DEF Relock, Moves, queues
  <2>2. LockOK'
    BY <1>1, <1>13 DEF Relock, LockOK, LockInv
  <2> QED BY <1>1, <2>1, <2>2, MoveInv
<1>14. ASSUME NEW w \in Waiters, Return(w) PROVE Kept
  <2>1. /\ queue2 = queue
        /\ Moves(w, "return", IF was_cancelled(wake[w]) THEN "cancelled" ELSE "completed")
    BY <1>0, <1>14 DEF Return, Moves, queues
  <2>2. LockOK'
    BY <1>1, <1>14 DEF Return, LockOK, LockInv
  <2> QED BY <1>1, <2>1, <2>2, MoveInv
<1>15. ASSUME NEW w \in Waiters, Destroy(w) PROVE Kept
  <2>1. /\ Destroys(w) /\ queue2 = remove(queue, w)
        /\ UNCHANGED <<locked, lock, lock_released>>
        /\ pc[w] = "suspended" /\ pc' = [pc EXCEPT ![w] = "destroyed"]
    BY <1>0, <1>15 DEF Destroy, Destroys, queues
  <2>2. Good(remove(queue, w))'
    BY <1>1, <2>1, DestroyFrameInv
  <2> QED BY <1>1, <2>1, <2>2, LockKept, ZenonT(30)
<1>16. CASE UNCHANGED vars
  <2>1. queue2 = queue /\ UNCHANGED waiterVars /\ UNCHANGED <<locked, lock, lock_released, pc>>
    BY <1>0, <1>16 DEF vars, cv, waiterVars
  <2> QED BY <1>1, <2>1, WaiterStutter, LockStutter
<1> QED
  BY ZenonT(30), <1>3, <1>4, <1>5, <1>6, <1>7, <1>8, <1>9, <1>10, <1>11, <1>12, <1>13, <1>14, <1>15,
     <1>16
  DEF Next, Run, notify_one, notify_all

(* Whoever is notified is woken, and wait(lock) returns with the lock. *)
LEMMA Safe == IndInv => WakesAreExact /\ LockDiscipline
<1> SUFFICES ASSUME IndInv PROVE WakesAreExact
  BY DEF IndInv
<1>1. PICK queue : queue = waiters
  OBVIOUS
<1>2. Good(queue)
  BY <1>1, Parts
<1> QED BY <1>1, <1>2, GoodWakes DEF WakesAreExact

(* A step that leaves every wait where it is and shortens the queue is a    *)
(* notification.                                                            *)
LEMMA OnlyNotifyPops ==
    ASSUME IndInv, Next, pc' = pc, Len(waiters') < Len(waiters)
    PROVE  \E all \in BOOLEAN : notify(all)
<1>0. waiters \in Seq(Waiters) /\ pc \in [Waiters -> Locations]
  BY DEF IndInv, TypeOK, WaiterTypeOK
<1>1. ASSUME NEW w \in Waiters, NEW from, NEW to, from # to, Step(w, from, to)
      PROVE  FALSE
  BY <1>0, <1>1
<1> HIDE DEF Step
<1>2. ASSUME NEW w \in Waiters
      PROVE  /\ ~(\E t, l \in BOOLEAN : Begin(w, t, l))
             /\ ~AwaitReady(w) /\ ~SuspendUnlocked(w) /\ ~Prepare(w) /\ ~Unlock(w)
             /\ ~Unblock(w) /\ ~Resume(w) /\ ~AwaitResume(w) /\ ~Relock(w) /\ ~Return(w)
             /\ ~Destroy(w)
  <2>1. ~(\E t, l \in BOOLEAN : Begin(w, t, l)) /\ ~AwaitReady(w) /\ ~SuspendUnlocked(w)
    BY <1>1 DEF Begin, BeginWait, AwaitReady, SuspendUnlocked
  <2>2. ~Prepare(w) /\ ~Unlock(w) /\ ~Unblock(w) /\ ~Resume(w)
    BY <1>1 DEF Prepare, Unlock, Unblock, Resume, ResumeHandle
  <2>3. ~AwaitResume(w) /\ ~Relock(w) /\ ~Return(w) /\ ~Destroy(w)
    BY <1>1 DEF AwaitResume, Relock, Return, Destroy
  <2> QED BY <2>1, <2>2, <2>3
<1>3. \A w \in Waiters : ~Dispatch(w) /\ ~Cancel(w) /\ ~CancelSchedule(w)
  <2>1. waiters' # waiters
    BY <1>0
  <2> QED BY <2>1 DEF Dispatch, Cancel, CancelSchedule, cv
<1> QED BY <1>2, <1>3, ZenonT(30) DEF Next, Run, notify_one, notify_all

(* A notification with a waiter in the queue that still wants it selects    *)
(* one.                                                                     *)
LEMMA NotifyStep == IndInv /\ [Next]_vars => [SelectsSomebody]_vars
<1> DEFINE eligible == {v \in Waiters : is_linked(waiters, v) /\ Claimable(v)}
<1> SUFFICES ASSUME IndInv, Next, Len(waiters') < Len(waiters), pc' = pc, eligible # {}
             PROVE  eligible \cap (to_schedule' \ to_schedule) # {}
  BY DEF SelectsSomebody
<1>0. PICK queue : queue = waiters
  OBVIOUS
<1>1. Good(queue)
  BY <1>0, Parts
<1>2. PICK all \in BOOLEAN : notify(all)
  BY OnlyNotifyPops
<1>3. PICK cut, chosen, rest : Notifies(all, queue, cut, chosen, rest)
  BY <1>0, <1>1, <1>2, NotifySelects
<1>4. PICK i \in 1..Len(queue) : Claimable(queue[i])
  BY <1>0 DEF is_linked
<1>5. \E j \in 1..cut : Claimable(queue[j])
  <2>1. CASE cut = Len(queue)
    BY <1>4, <2>1
  <2>2. CASE cut # Len(queue)
    <3>1. Claimable(queue[cut])
      BY <1>3, <2>2 DEF Notifies
    <3>2. cut \in 1..cut
      BY <1>1, <1>3 DEF Good, Notifies
    <3> QED BY <3>1, <3>2
  <2> QED BY <2>1, <2>2
<1>6. PICK j \in 1..cut : Claimable(queue[j])
  BY <1>5
<1>7. j \in 1..Len(queue) /\ queue[j] \in Waiters
  BY <1>1, <1>3 DEF Good, Notifies
<1>8. queue[j] \in eligible
  BY <1>0, <1>6, <1>7 DEF is_linked
<1>9. queue[j] \in to_schedule' /\ queue[j] \notin to_schedule
  BY <1>1, <1>3, <1>6, <1>7 DEF Notifies, Selects, Good, WaiterInv, QueueInv
<1> QED BY <1>8, <1>9

=============================================================================
