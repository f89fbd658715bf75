---------------------------- MODULE WaiterProof ----------------------------
(***************************************************************************)
(* What the steps that the awaiters share do to WaiterInv, for any set of  *)
(* operations and any queue.                                               *)
(***************************************************************************)
EXTENDS Waiter, Integers, TLAPS

-----------------------------------------------------------------------------
(* The lists of waiting nodes.                                            *)

(* No node is linked twice. *)
Distinct(list) == \A i, j \in 1..Len(list) : list[i] = list[j] => i = j

(* Removing a node from a list in which it appears once leaves the other    *)
(* nodes, each once, and the node unlinked.                                 *)
LEMMA RemoveProperties ==
    ASSUME NEW S, NEW list \in Seq(S), NEW x, Distinct(list)
    PROVE  /\ remove(list, x) \in Seq(S)
           /\ Distinct(remove(list, x))
           /\ \A i \in 1..Len(remove(list, x)) :
                 /\ remove(list, x)[i] # x
                 /\ \E j \in 1..Len(list) : remove(list, x)[i] = list[j]
           /\ list = <<>> => remove(list, x) = <<>>
<1>1. CASE ~is_linked(list, x)
  BY <1>1 DEF remove, is_linked, Distinct
<1>2. CASE is_linked(list, x)
  <2> DEFINE at == CHOOSE i \in 1..Len(list) : list[i] = x
             r == [i \in 1..(Len(list) - 1) |->
                     IF i < at THEN list[i] ELSE list[i + 1]]
  <2>1. at \in 1..Len(list) /\ list[at] = x
    BY <1>2 DEF is_linked
  <2>2. remove(list, x) = r
    BY <1>2 DEF remove
  <2>3. Len(list) \in Nat /\ Len(list) - 1 \in Nat /\ list # <<>>
    BY <2>1
  <2> HIDE DEF at
  <2>4. \A i \in 1..(Len(list) - 1) : r[i] \in S
    BY <2>1, <2>3
  <2>5. r \in Seq(S) /\ Len(r) = Len(list) - 1
    BY <2>3, <2>4
  <2>6. \A i \in 1..(Len(list) - 1) :
           \E j \in 1..Len(list) :
              r[i] = list[j] /\ j # at /\ j = IF i < at THEN i ELSE i + 1
    BY <2>1, <2>3
  <2>7. \A i \in 1..(Len(list) - 1) : r[i] # x
    BY <2>1, <2>6 DEF Distinct
  <2>8. Distinct(r)
    BY <2>1, <2>5, <2>6 DEF Distinct
  <2> QED BY <2>2, <2>3, <2>5, <2>6, <2>7, <2>8
<1> QED BY <1>1, <1>2

(* ... and every other node stays linked. *)
LEMMA RemoveKeeps ==
    ASSUME NEW S, NEW list \in Seq(S), NEW x, Distinct(list)
    PROVE  \A v : v # x /\ is_linked(list, v) => is_linked(remove(list, x), v)
<1>1. CASE ~is_linked(list, x)
  BY <1>1 DEF remove
<1>2. CASE is_linked(list, x)
  <2> DEFINE at == CHOOSE i \in 1..Len(list) : list[i] = x
             r == [i \in 1..(Len(list) - 1) |->
                     IF i < at THEN list[i] ELSE list[i + 1]]
  <2>1. at \in 1..Len(list) /\ list[at] = x
    BY <1>2 DEF is_linked
  <2>2. remove(list, x) = r
    BY <1>2 DEF remove
  <2>3. Len(list) \in Nat /\ Len(list) - 1 \in Nat
    BY <2>1
  <2> HIDE DEF at
  <2>4. r \in Seq(S) /\ Len(r) = Len(list) - 1
    BY <2>1, <2>3
  <2> SUFFICES ASSUME NEW v, v # x, is_linked(list, v) PROVE is_linked(r, v)
    BY <2>2
  <2>5. PICK i \in 1..Len(list) : list[i] = v
    BY DEF is_linked
  <2>6. CASE i < at
    BY <2>1, <2>4, <2>5, <2>6 DEF is_linked
  <2>7. CASE i > at
    <3>1. i - 1 \in 1..(Len(list) - 1) /\ r[i - 1] = v
      BY <2>1, <2>3, <2>5, <2>7
    <3> QED BY <2>4, <3>1 DEF is_linked
  <2> QED BY <2>1, <2>5, <2>6, <2>7
<1> QED BY <1>1, <1>2

(* Pushing a node that is not linked keeps the nodes distinct. *)
LEMMA PushProperties ==
    ASSUME NEW S, NEW list \in Seq(S), NEW x \in S, Distinct(list),
           ~is_linked(list, x)
    PROVE  /\ push_back(list, x) \in Seq(S)
           /\ Distinct(push_back(list, x))
           /\ \A i \in 1..Len(push_back(list, x)) :
                 \/ push_back(list, x)[i] = x
                 \/ \E j \in 1..Len(list) : push_back(list, x)[i] = list[j]
  BY DEF push_back, is_linked, Distinct

(* What is left of a list after its first nodes were popped. *)
LEMMA CutProperties ==
    ASSUME NEW S, NEW list \in Seq(S), Distinct(list), NEW cut \in 0..Len(list)
    PROVE  LET rest == SubSeq(list, cut + 1, Len(list))
           IN  /\ rest \in Seq(S)
               /\ Len(rest) = Len(list) - cut
               /\ \A i \in 1..Len(rest) : rest[i] = list[cut + i]
               /\ Distinct(rest)
               /\ \A i \in 1..Len(list) : is_linked(rest, list[i]) <=> i > cut
<1> DEFINE rest == SubSeq(list, cut + 1, Len(list))
<1>1. /\ rest \in Seq(S)
      /\ Len(rest) = Len(list) - cut
      /\ \A i \in 1..Len(rest) : rest[i] = list[cut + i]
  <2>1. Len(list) \in Int /\ cut + 1 \in Int /\ cut \in Nat /\ cut <= Len(list)
    OBVIOUS
  <2>2. \A i \in (cut + 1)..Len(list) : list[i] \in S
    BY <2>1
  <2>3. /\ rest \in Seq(S)
        /\ Len(rest) = IF cut + 1 <= Len(list) THEN Len(list) - (cut + 1) + 1 ELSE 0
        /\ \A i \in 1..(Len(list) - (cut + 1) + 1) : rest[i] = list[(cut + 1) + i - 1]
    BY <2>1, <2>2
  <2> HIDE DEF rest
  <2> QED BY <2>1, <2>3
<1> HIDE DEF rest
<1>2. Distinct(rest)
  <2>1. \A i \in 1..Len(rest) : cut + i \in 1..Len(list)
    BY <1>1
  <2>2. \A i, j \in 1..Len(rest) : cut + i = cut + j => i = j
    BY <1>1
  <2> QED BY <1>1, <2>1, <2>2 DEF Distinct
<1>3. ASSUME NEW i \in 1..Len(list) PROVE is_linked(rest, list[i]) <=> i > cut
  <2>1. ASSUME i > cut PROVE is_linked(rest, list[i])
    <3>1. i - cut \in 1..Len(rest) /\ rest[i - cut] = list[i]
      BY <1>1, <2>1
    <3> QED BY <3>1 DEF is_linked
  <2>2. ASSUME is_linked(rest, list[i]) PROVE i > cut
    BY <1>1, <2>2 DEF is_linked, Distinct
  <2> QED BY <2>1, <2>2
<1> QED BY <1>1, <1>2, <1>3 DEF rest

-----------------------------------------------------------------------------
(* The steps of an awaiter.                                               *)

USE DEF Step, WaiterTypeOK, WakeStates, Locations, Ends, was_cancelled, scheduling

(* A queue is one of the awaiters', and the invariant holds. *)
Good(queue) == queue \in Seq(Waiters) /\ WaiterTypeOK /\ WaiterInv(queue)

(* At first nobody waits. *)
LEMMA WaiterInitInv == WaiterInit => Good(<<>>)
  BY DEF WaiterInit, Good, WaiterInv, LocationInv, QueueInv, SelectedInv, QueuedInv,
         is_linked

(* So it stays while nothing happens to a waiter. *)
LEMMA WaiterStutter ==
    ASSUME NEW queue, Good(queue), UNCHANGED waiterVars
    PROVE  Good(queue)'
  BY DEF waiterVars, queues, Good, WaiterInv, LocationInv, QueueInv, SelectedInv, QueuedInv

(* The construction of an awaiter preserves the invariant. *)
LEMMA BeginWaitInv ==
    ASSUME NEW queue, Good(queue), NEW w \in Waiters, NEW t \in BOOLEAN, BeginWait(w, t)
    PROVE  Good(queue)'
<1>1. WaiterTypeOK'
  BY DEF Good, BeginWait, queues
<1>2. LocationInv' /\ QueuedInv(queue)'
  BY DEF Good, BeginWait, queues, WaiterInv, LocationInv, QueuedInv
<1>3. QueueInv(queue)'
  <2>1. \A i \in 1..Len(queue) : queue[i] \in Waiters
    BY DEF Good
  <2> QED BY <2>1 DEF Good, BeginWait, queues, WaiterInv, QueueInv, LocationInv
<1>4. SelectedInv'
  BY DEF Good, BeginWait, queues, WaiterInv, SelectedInv, LocationInv
<1> QED BY <1>1, <1>2, <1>3, <1>4 DEF Good, WaiterInv

(* schedule_wake_state preserves the invariant, also when the frame it was  *)
(* to wake has been destroyed.                                              *)
LEMMA ScheduleSelectedInv ==
    ASSUME NEW queue, Good(queue), NEW w \in Waiters, ScheduleSelected(w)
    PROVE  Good(queue)'
<1> USE DEF ScheduleSelected, selected_schedules, schedule_selected
<1>1. WaiterTypeOK'
  BY DEF Good, WaiterInv, SelectedInv
<1>2. LocationInv' /\ QueuedInv(queue)'
  BY DEF Good, WaiterInv, LocationInv, QueuedInv, SelectedInv
<1>3. QueueInv(queue)'
  <2>1. \A i \in 1..Len(queue) : queue[i] \in Waiters
    BY DEF Good
  <2> QED BY <2>1 DEF Good, WaiterInv, QueueInv
<1>4. SelectedInv'
  BY DEF Good, WaiterInv, SelectedInv, LocationInv
<1> QED BY <1>1, <1>2, <1>3, <1>4 DEF Good, WaiterInv

(* The resumption of a coroutine preserves the invariant. *)
LEMMA ResumeHandleInv ==
    ASSUME NEW queue, Good(queue), NEW w \in Waiters, ResumeHandle(w)
    PROVE  Good(queue)'
<1> USE DEF ResumeHandle
<1>1. WaiterTypeOK'
  BY DEF Good
<1>2. LocationInv' /\ QueuedInv(queue)'
  BY DEF Good, WaiterInv, LocationInv, QueuedInv, SelectedInv
<1>3. QueueInv(queue)'
  <2>1. \A i \in 1..Len(queue) : queue[i] \in Waiters
    BY DEF Good
  <2> QED BY <2>1 DEF Good, WaiterInv, QueueInv, SelectedInv
<1>4. SelectedInv'
  BY DEF Good, WaiterInv, SelectedInv, LocationInv
<1> QED BY <1>1, <1>2, <1>3, <1>4 DEF Good, WaiterInv

(* The compare-exchange of a cancel callback preserves the invariant,       *)
(* wherever the operation is.                                               *)
LEMMA RequestCancelInv ==
    ASSUME NEW queue, Good(queue), NEW w \in Waiters, RequestCancel(w)
    PROVE  Good(queue)'
<1> USE DEF RequestCancel, request_cancel
<1>1. WaiterTypeOK'
  BY DEF Good
<1>2. LocationInv' /\ QueuedInv(queue)'
  BY DEF Good, WaiterInv, LocationInv, QueuedInv
<1>3. QueueInv(queue)'
  <2>1. \A i \in 1..Len(queue) : queue[i] \in Waiters
    BY DEF Good
  <2> QED BY <2>1 DEF Good, WaiterInv, QueueInv, LocationInv
<1>4. SelectedInv'
  BY DEF Good, WaiterInv, SelectedInv, LocationInv
<1> QED BY <1>1, <1>2, <1>3, <1>4 DEF Good, WaiterInv

(* So does its schedule_claimed. *)
LEMMA ScheduleClaimedInv ==
    ASSUME NEW queue, Good(queue), NEW w \in Waiters, ScheduleClaimed(w)
    PROVE  Good(queue)'
<1> USE DEF ScheduleClaimed, schedule_claimed, claimed_schedules
<1>1. WaiterTypeOK'
  BY DEF Good, WaiterInv, SelectedInv
<1>2. LocationInv' /\ QueuedInv(queue)'
  BY DEF Good, WaiterInv, LocationInv, QueuedInv, SelectedInv
<1>3. QueueInv(queue)'
  <2>1. \A i \in 1..Len(queue) : queue[i] \in Waiters
    BY DEF Good
  <2> QED BY <2>1 DEF Good, WaiterInv, QueueInv, SelectedInv
<1>4. SelectedInv'
  BY DEF Good, WaiterInv, SelectedInv, LocationInv
<1> QED BY <1>1, <1>2, <1>3, <1>4 DEF Good, WaiterInv

(* try_acquire, await_ready and await_suspend where they do not enqueue:    *)
(* the operation goes on, ends, or resumes with a result it selected.       *)
Proceeds(w, to, s) ==
    /\ pc[w] \in {"start", "ready", "suspend", "enqueue"}
    /\ pc' = [pc EXCEPT ![w] = to]
    /\ wake' = [wake EXCEPT ![w] = s]
    /\ \/ to \in {"suspend"} \cup Ends /\ s = wake[w]
       \/ to = "enqueue" /\ s = wake[w] /\ w \notin cancellable
       \/ to = "resume" /\ s = "notified_inline"
       \/ to = "resume" /\ s = "cancelled_inline" /\ w \in cancellable
    /\ UNCHANGED <<cancellable, to_schedule, cancelling, scheduled>>

(* Such a step preserves the invariant. *)
LEMMA ProceedInv ==
    ASSUME NEW queue, Good(queue), NEW w \in Waiters, NEW to, NEW s, Proceeds(w, to, s)
    PROVE  Good(queue)'
<1> USE DEF Proceeds
<1>1. WaiterTypeOK'
  BY DEF Good
<1>2. wake[w] \in {"idle", "cancelled_inline"} /\ w \notin cancelling
  BY DEF Good, WaiterInv, LocationInv, SelectedInv
<1>3. ~is_linked(queue, w)
  BY <1>2 DEF Good, WaiterInv, QueueInv, is_linked
<1>4. LocationInv' /\ QueuedInv(queue)'
  BY <1>2 DEF Good, WaiterInv, LocationInv, QueuedInv
<1>5. QueueInv(queue)'
  <2>1. \A i \in 1..Len(queue) : queue[i] \in Waiters /\ queue[i] # w
    BY <1>3 DEF Good, is_linked
  <2> QED BY <2>1 DEF Good, WaiterInv, QueueInv
<1>6. SelectedInv'
  BY <1>2 DEF Good, WaiterInv, SelectedInv, LocationInv
<1> QED BY <1>1, <1>4, <1>5, <1>6 DEF Good, WaiterInv

(* await_suspend where it enqueues, with its publication window open or     *)
(* already closed.                                                          *)
Publishes(w, to, s) ==
    /\ pc[w] \in {"suspend", "enqueue"} /\ wake[w] = "idle"
    /\ pc' = [pc EXCEPT ![w] = to]
    /\ wake' = [wake EXCEPT ![w] = s]
    /\ \/ to = "suspended" /\ s = "waiting"
       \/ to \in {"unlock", "unblock"} /\ s = "blocked"
    /\ UNCHANGED <<cancellable, to_schedule, cancelling, scheduled>>

(* Such a step preserves the invariant, with the waiter in the queue. *)
LEMMA PublishInv ==
    ASSUME NEW queue, Good(queue), NEW w \in Waiters, NEW to, NEW s, Publishes(w, to, s)
    PROVE  Good(push_back(queue, w))'
<1> USE DEF Publishes
<1>1. WaiterTypeOK'
  BY DEF Good
<1>2. w \notin cancelling /\ w \notin to_schedule
  BY DEF Good, WaiterInv, LocationInv, SelectedInv
<1>3. ~is_linked(queue, w) /\ Distinct(queue) /\ queue \in Seq(Waiters)
  BY DEF Good, WaiterInv, QueueInv, is_linked, Distinct
<1> DEFINE longer == push_back(queue, w)
<1>4. /\ longer \in Seq(Waiters)
      /\ Distinct(longer)
      /\ \A i \in 1..Len(longer) :
            longer[i] = w \/ \E j \in 1..Len(queue) : longer[i] = queue[j]
  BY <1>3, PushProperties
<1>5. is_linked(longer, w) /\ \A v : is_linked(queue, v) => is_linked(longer, v)
  BY <1>3 DEF push_back, is_linked
<1> HIDE DEF longer
<1>6. LocationInv'
  BY DEF Good, WaiterInv, LocationInv
<1>7. QueuedInv(longer)'
  BY <1>5 DEF Good, WaiterInv, QueuedInv
<1>8. QueueInv(longer)'
  <2>1. \A i \in 1..Len(queue) : queue[i] \in Waiters /\ queue[i] # w
    BY <1>3 DEF Good, is_linked
  <2> QED BY <1>2, <1>4, <2>1 DEF Good, WaiterInv, QueueInv, Distinct
<1>9. SelectedInv'
  BY <1>2 DEF Good, WaiterInv, SelectedInv, LocationInv
<1> QED BY <1>1, <1>4, <1>6, <1>7, <1>8, <1>9 DEF Good, WaiterInv, longer

(* The end of the publication window of a waiter nobody has selected. *)
LEMMA UnblockInv ==
    ASSUME NEW queue, Good(queue), NEW w \in Waiters,
           pc[w] = "unblock", wake[w] = "blocked",
           pc' = [pc EXCEPT ![w] = "suspended"],
           wake' = [wake EXCEPT ![w] = "waiting"],
           UNCHANGED <<cancellable, to_schedule, cancelling, scheduled>>
    PROVE  Good(queue)'
<1>1. WaiterTypeOK'
  BY DEF Good
<1>2. LocationInv' /\ QueuedInv(queue)'
  BY DEF Good, WaiterInv, LocationInv, QueuedInv
<1>3. QueueInv(queue)'
  <2>1. \A i \in 1..Len(queue) : queue[i] \in Waiters
    BY DEF Good
  <2> QED BY <2>1 DEF Good, WaiterInv, QueueInv
<1>4. SelectedInv'
  BY DEF Good, WaiterInv, SelectedInv, LocationInv
<1> QED BY <1>1, <1>2, <1>3, <1>4 DEF Good, WaiterInv

(* await_resume, and await_suspend that finds itself notified or cancelled  *)
(* inside its publication window.                                           *)
Departs(w, to) ==
    /\ wake[w] # "blocked" /\ w \notin cancelling
    /\ pc' = [pc EXCEPT ![w] = to]
    /\ \/ to \in {"relock", "return"} \cup Ends /\ pc[w] = "resume"
       \/ to = "resume" /\ pc[w] = "unblock"
    /\ UNCHANGED <<cancellable, wake, to_schedule, cancelling, scheduled>>

(* Such a step preserves the invariant, if the node leaves the queue. *)
LEMMA DepartInv ==
    ASSUME NEW queue, Good(queue), NEW w \in Waiters, NEW to, Departs(w, to)
    PROVE  Good(remove(queue, w))'
<1> USE DEF Departs
<1>1. WaiterTypeOK'
  BY DEF Good
<1> DEFINE rest == remove(queue, w)
<1>2. queue \in Seq(Waiters) /\ Distinct(queue)
  BY DEF Good, WaiterInv, QueueInv, Distinct
<1>3. /\ rest \in Seq(Waiters)
      /\ Distinct(rest)
      /\ \A i \in 1..Len(rest) :
            rest[i] # w /\ \E j \in 1..Len(queue) : rest[i] = queue[j]
  BY <1>2, RemoveProperties
<1>4. \A v : v # w /\ is_linked(queue, v) => is_linked(rest, v)
  BY <1>2, RemoveKeeps
<1> HIDE DEF rest
<1>5. LocationInv'
  BY DEF Good, WaiterInv, LocationInv, SelectedInv
<1>6. QueuedInv(rest)'
  BY <1>4 DEF Good, WaiterInv, QueuedInv, LocationInv
<1>7. QueueInv(rest)'
  <2>1. \A i \in 1..Len(queue) : queue[i] \in Waiters
    BY DEF Good
  <2> QED BY <1>3, <2>1 DEF Good, WaiterInv, QueueInv, Distinct
<1>8. SelectedInv'
  BY DEF Good, WaiterInv, SelectedInv, LocationInv
<1> QED BY <1>1, <1>3, <1>5, <1>6, <1>7, <1>8 DEF Good, WaiterInv, rest

(* The steps of wait(lock) that only concern the lock. *)
Moves(w, from, to) ==
    /\ pc[w] = from /\ pc' = [pc EXCEPT ![w] = to]
    /\ \/ from = "unlock" /\ to = "unblock"
       \/ from = "relock" /\ to = "return"
       \/ from = "return" /\ to \in Ends
    /\ UNCHANGED <<cancellable, wake, to_schedule, cancelling, scheduled>>

(* Such a step preserves the invariant. *)
LEMMA MoveInv ==
    ASSUME NEW queue, Good(queue), NEW w \in Waiters, NEW from, NEW to, Moves(w, from, to)
    PROVE  Good(queue)'
<1> USE DEF Moves
<1>1. WaiterTypeOK'
  BY DEF Good
<1>2. LocationInv' /\ QueuedInv(queue)'
  BY DEF Good, WaiterInv, LocationInv, QueuedInv
<1>3. QueueInv(queue)'
  <2>1. \A i \in 1..Len(queue) : queue[i] \in Waiters
    BY DEF Good
  <2> QED BY <2>1 DEF Good, WaiterInv, QueueInv, LocationInv
<1>4. SelectedInv'
  BY DEF Good, WaiterInv, SelectedInv, LocationInv
<1> QED BY <1>1, <1>2, <1>3, <1>4 DEF Good, WaiterInv

(* A node that was neither waiting nor cancelled is not in the queue. *)
LEMMA NotLinked ==
    ASSUME NEW queue, Good(queue), NEW w \in Waiters,
           wake[w] \notin {"blocked", "waiting"},
           w \notin cancellable \/ ~was_cancelled(wake[w])
    PROVE  ~is_linked(queue, w) /\ remove(queue, w) = queue
  BY DEF Good, WaiterInv, QueueInv, is_linked, remove

(* The destruction of a suspended frame that scheduling does not own yet. *)
Destroys(w) ==
    /\ MayBeDestroyed(w)
    /\ pc' = [pc EXCEPT ![w] = "destroyed"]
    /\ wake' = [wake EXCEPT ![w] = abandon(@)]
    /\ UNCHANGED <<cancellable, to_schedule, cancelling, scheduled>>

(* It preserves the invariant, if the node leaves the queue. *)
LEMMA DestroyFrameInv ==
    ASSUME NEW queue, Good(queue), NEW w \in Waiters, Destroys(w)
    PROVE  Good(remove(queue, w))'
<1> USE DEF Destroys
<1> USE DEF MayBeDestroyed, Unregistered
<1>0. wake' = [wake EXCEPT ![w] = "abandoned"]
  BY DEF abandon
<1>1. WaiterTypeOK'
  BY <1>0 DEF Good
<1> DEFINE rest == remove(queue, w)
<1>2. queue \in Seq(Waiters) /\ Distinct(queue)
  BY DEF Good, WaiterInv, QueueInv, Distinct
<1>3. /\ rest \in Seq(Waiters)
      /\ Distinct(rest)
      /\ \A i \in 1..Len(rest) :
            rest[i] # w /\ \E j \in 1..Len(queue) : rest[i] = queue[j]
  BY <1>2, RemoveProperties
<1>4. \A v : v # w /\ is_linked(queue, v) => is_linked(rest, v)
  BY <1>2, RemoveKeeps
<1> HIDE DEF rest
<1>5. LocationInv'
  BY <1>0 DEF Good, WaiterInv, LocationInv, SelectedInv
<1>6. QueuedInv(rest)'
  BY <1>0, <1>4 DEF Good, WaiterInv, QueuedInv, LocationInv
<1>7. QueueInv(rest)'
  <2>1. \A i \in 1..Len(queue) : queue[i] \in Waiters
    BY DEF Good
  <2> QED BY <1>0, <1>3, <2>1 DEF Good, WaiterInv, QueueInv, Distinct
<1>8. SelectedInv'
  BY <1>0 DEF Good, WaiterInv, SelectedInv, LocationInv
<1> QED BY <1>1, <1>3, <1>5, <1>6, <1>7, <1>8 DEF Good, WaiterInv, rest

(* The primitive takes waiters from its queue and selects those it can      *)
(* claim.                                                                   *)
Selection(queue, rest, chosen) ==
    /\ chosen \in SUBSET Waiters
    /\ rest \in Seq(Waiters)
    /\ Distinct(rest)
    /\ \A i \in 1..Len(rest) : is_linked(queue, rest[i]) /\ rest[i] \notin chosen
    /\ \A v \in chosen : is_linked(queue, v) /\ Claimable(v)
    /\ \A i \in 1..Len(queue) :
         is_linked(rest, queue[i]) \/ queue[i] \in chosen \/ ~Claimable(queue[i])

(* In the same section it may have cancelled its own waiter or given up the *)
(* one whose frame is being destroyed.                                      *)
Selects(queue, chosen, wk) ==
    /\ wk \in [Waiters -> WakeStates]
    /\ to_schedule' = to_schedule \cup chosen
    /\ wake' = [v \in Waiters |-> IF v \in chosen THEN claim(v) ELSE wk[v]]
    /\ pc' \in [Waiters -> Locations]
    /\ \A v \in Waiters :
         \/ pc'[v] = pc[v] /\ wk[v] = wake[v]
         \/ /\ pc[v] = "suspend" /\ pc'[v] = "resume" /\ v \in cancellable
            /\ ~was_cancelled(wake[v]) /\ wk[v] = "cancelled_inline"
         \/ /\ MayBeDestroyed(v) /\ ~is_linked(queue, v)
            /\ pc'[v] = "destroyed" /\ wk[v] = "abandoned"
    /\ UNCHANGED <<cancellable, cancelling, scheduled>>

(* Such a step preserves the invariant. *)
LEMMA SelectInv ==
    ASSUME NEW queue, Good(queue), NEW rest, NEW chosen, NEW wk,
           Selection(queue, rest, chosen), Selects(queue, chosen, wk)
    PROVE  Good(rest)'
<1> USE DEF Selection, Selects
<1> USE DEF MayBeDestroyed, Unregistered
<1>1. \A v \in chosen : /\ wake[v] \in {"blocked", "waiting"}
                        /\ v \notin to_schedule
                        /\ wake'[v] = IF v \in cancellable
                                      THEN IF wake[v] = "blocked" THEN "notified_inline"
                                                                  ELSE "notification_claimed"
                                      ELSE wake[v]
                        /\ pc'[v] = pc[v]
  <2> SUFFICES ASSUME NEW v \in chosen
               PROVE  /\ wake[v] \in {"blocked", "waiting"}
                      /\ v \notin to_schedule
                      /\ wake'[v] = IF v \in cancellable
                                    THEN IF wake[v] = "blocked" THEN "notified_inline"
                                                                ELSE "notification_claimed"
                                    ELSE wake[v]
                      /\ pc'[v] = pc[v]
    BY ZenonT(30)
  <2>1. PICK i \in 1..Len(queue) : queue[i] = v
    BY DEF is_linked
  <2>2. wake[v] \in {"blocked", "waiting"} /\ v \notin to_schedule
    BY <2>1 DEF Good, WaiterInv, QueueInv, Claimable, claim_rejected
  <2>3. pc'[v] = pc[v]
    BY <2>2 DEF Good, WaiterInv, LocationInv
  <2> QED BY <2>2, <2>3 DEF claim, claim_notification
<1>2. \A v \in Waiters \ chosen : wake'[v] = wk[v]
  OBVIOUS
<1>3. wake' \in [Waiters -> WakeStates]
  BY <1>1, <1>2, ZenonT(30) DEF Good
<1>4. WaiterTypeOK'
  BY <1>3 DEF Good
<1>5. ASSUME NEW v \in Waiters
      PROVE  \/ pc'[v] = pc[v] /\ wake'[v] = wake[v] /\ v \notin chosen
             \/ v \in chosen
             \/ /\ pc[v] = "suspend" /\ pc'[v] = "resume" /\ v \in cancellable
                /\ wake[v] = "idle" /\ wake'[v] = "cancelled_inline" /\ v \notin chosen
             \/ /\ pc[v] = "suspended" /\ pc'[v] = "destroyed"
                /\ ~scheduling(wake[v]) /\ wake'[v] = "abandoned" /\ v \notin chosen
                /\ v \notin cancelling
  BY <1>2 DEF Good, WaiterInv, LocationInv
<1>6. LocationInv'
  <2> SUFFICES ASSUME NEW v \in Waiters PROVE LocationInv!(v)'
    BY DEF LocationInv
  <2>1. LocationInv!(v)
    BY DEF Good, WaiterInv, LocationInv
  <2> QED BY <1>1, <1>5, <2>1, ZenonT(30)
<1>7. QueuedInv(rest)'
  <2> SUFFICES ASSUME NEW v \in Waiters, wake'[v] \in {"blocked", "waiting"}, v \notin chosen
               PROVE  is_linked(rest, v) \/ v \in to_schedule
    BY DEF QueuedInv
  <2>1. wake[v] = wake'[v]
    BY <1>2
  <2>2. CASE is_linked(queue, v)
    BY <2>1, <2>2 DEF is_linked, Claimable, claim_rejected
  <2> QED BY <2>1, <2>2 DEF Good, WaiterInv, QueuedInv
<1>8. QueueInv(rest)'
  <2>1. \A i, j \in 1..Len(rest) : rest[i] = rest[j] => i = j
    BY DEF Distinct
  <2> SUFFICES ASSUME NEW i \in 1..Len(rest)
               PROVE  /\ rest[i] \notin to_schedule'
                      /\ \/ wake'[rest[i]] \in {"blocked", "waiting"}
                         \/ /\ was_cancelled(wake'[rest[i]])
                            /\ rest[i] \in cancellable'
                            /\ pc'[rest[i]] \in {"unlock", "unblock", "suspended", "resume"}
    BY <2>1 DEF QueueInv
  <2>2. PICK v \in Waiters : v = rest[i]
    OBVIOUS
  <2>3. v \notin chosen /\ is_linked(queue, v)
    BY <2>2
  <2>4. PICK j \in 1..Len(queue) : queue[j] = v
    BY <2>3 DEF is_linked
  <2>5. /\ v \notin to_schedule
        /\ \/ wake[v] \in {"blocked", "waiting"}
           \/ /\ was_cancelled(wake[v])
              /\ v \in cancellable
              /\ pc[v] \in {"unlock", "unblock", "suspended", "resume"}
    BY <2>4 DEF Good, WaiterInv, QueueInv
  <2>6. pc'[v] = pc[v] /\ wake'[v] = wake[v]
    BY <1>2, <2>3, <2>5 DEF Good, WaiterInv, LocationInv
  <2> QED BY <2>2, <2>3, <2>5, <2>6
<1>9. SelectedInv'
  <2>1. ASSUME NEW v \in to_schedule'
        PROVE  \/ wake'[v] \in {"notified_inline", "abandoned"}
               \/ wake'[v] = "notification_claimed" /\ v \in cancellable
               \/ wake'[v] \in {"blocked", "waiting"} /\ v \notin cancellable
    <3>1. CASE v \in chosen
      BY <1>1, <3>1, ZenonT(30)
    <3>2. CASE v \notin chosen
      <4>1. v \in to_schedule /\ v \in Waiters
        BY <2>1, <3>2 DEF Good
      <4>2. \/ wake[v] \in {"notified_inline", "abandoned"}
            \/ wake[v] = "notification_claimed" /\ v \in cancellable
            \/ wake[v] \in {"blocked", "waiting"} /\ v \notin cancellable
        BY <4>1 DEF Good, WaiterInv, SelectedInv
      <4> QED BY <1>5, <3>2, <4>1, <4>2
    <3> QED BY <3>1, <3>2
  <2>2. ASSUME NEW v \in cancelling PROVE pc'[v] = "suspended" /\ v \in cancellable
    BY <1>1, <1>5 DEF Good, WaiterInv, SelectedInv
  <2>3. ASSUME NEW v \in Waiters
        PROVE  /\ wake'[v] = "notification_claimed" => v \in to_schedule'
               /\ wake'[v] = "cancellation_claimed" <=> v \in cancelling
               /\ scheduled[v] > 0 <=> pc'[v] = "suspended" /\ scheduling(wake'[v])
    <3>1. /\ wake[v] = "notification_claimed" => v \in to_schedule
          /\ wake[v] = "cancellation_claimed" <=> v \in cancelling
          /\ scheduled[v] > 0 <=> pc[v] = "suspended" /\ scheduling(wake[v])
      BY DEF Good, WaiterInv, SelectedInv
    <3>2. CASE v \in chosen
      BY <1>1, <3>1, <3>2, ZenonT(30)
    <3>3. CASE v \notin chosen
      BY <1>5, <3>1, <3>3
    <3> QED BY <3>2, <3>3
  <2> QED BY <2>1, <2>2, <2>3 DEF SelectedInv
<1> QED BY <1>4, <1>6, <1>7, <1>8, <1>9 DEF Good, WaiterInv

(* Popping the first "cut" waiters and selecting those that can be claimed  *)
(* among them is such a selection.                                          *)
LEMMA CutSelects ==
    ASSUME NEW queue, Good(queue), NEW cut \in 0..Len(queue), NEW chosen, NEW rest,
           chosen = {queue[i] : i \in {j \in 1..cut : Claimable(queue[j])}},
           rest = SubSeq(queue, cut + 1, Len(queue))
    PROVE  Selection(queue, rest, chosen)
<1>1. queue \in Seq(Waiters) /\ Distinct(queue)
  BY DEF Good, WaiterInv, QueueInv, Distinct
<1>2. /\ rest \in Seq(Waiters)
      /\ Len(rest) = Len(queue) - cut
      /\ \A i \in 1..Len(rest) : rest[i] = queue[cut + i]
      /\ Distinct(rest)
      /\ \A i \in 1..Len(queue) : is_linked(rest, queue[i]) <=> i > cut
  BY <1>1, CutProperties
<1>3. \A j \in 1..cut : j \in 1..Len(queue) /\ queue[j] \in Waiters
  BY <1>1
<1>4. ASSUME NEW i \in 1..Len(rest)
      PROVE  is_linked(queue, rest[i]) /\ rest[i] \notin chosen
  <2>1. cut + i \in 1..Len(queue) /\ rest[i] = queue[cut + i]
    BY <1>1, <1>2
  <2>2. ASSUME NEW j \in 1..cut PROVE rest[i] # queue[j]
    BY <1>1, <1>3, <2>1 DEF Distinct
  <2> QED BY <2>1, <2>2 DEF is_linked
<1>5. ASSUME NEW v \in chosen PROVE is_linked(queue, v) /\ Claimable(v)
  BY <1>3, <1>5 DEF is_linked
<1>6. ASSUME NEW i \in 1..Len(queue), ~is_linked(rest, queue[i]), Claimable(queue[i])
      PROVE  queue[i] \in chosen
  <2>1. i \in 1..cut
    BY <1>2, <1>6
  <2> QED BY <1>6, <2>1
<1> QED BY <1>2, <1>3, <1>4, <1>5, <1>6, ZenonT(30) DEF Selection

(* What the invariant is for: every wake is on its way, and to a living     *)
(* frame.                                                                   *)
LEMMA GoodWakes ==
    ASSUME NEW queue, Good(queue)
    PROVE  WakeIsComing(queue) /\ OnlyLivingFrames(queue)
<1>1. WakeIsComing(queue)
  BY DEF Good, WaiterInv, LocationInv, SelectedInv, QueuedInv, WakeIsComing
<1>2. ASSUME NEW i \in 1..Len(queue) PROVE pc[queue[i]] \notin {"start"} \cup Ends
  <2>1. queue[i] \in Waiters
    BY DEF Good
  <2> QED BY <2>1, ZenonT(30) DEF Good, WaiterInv, LocationInv, QueueInv
<1>3. OnlyLivingFrames(queue)
  BY <1>2 DEF Good, WaiterInv, SelectedInv, QueueInv, OnlyLivingFrames
<1> QED BY <1>1, <1>3

=============================================================================
