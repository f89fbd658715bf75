----------------------------- MODULE MutexProof -----------------------------
(***************************************************************************)
(* Proof that IndInv is an inductive invariant of Mutex, for any set of    *)
(* lock operations.                                                        *)
(***************************************************************************)
EXTENDS Mutex, Integers, TLAPS

-----------------------------------------------------------------------------
(* The lists of waiting nodes.                                            *)

(* No node is linked twice. *)
Distinct(list) == \A i, j \in 1..Len(list) : list[i] = list[j] => i = j

(* Removing a node from a list in which it appears once leaves the other    *)
(* nodes, each once, and the node unlinked.                                 *)
LEMMA RemoveProperties ==
    ASSUME NEW S, NEW list \in Seq(S), NEW x, Distinct(list)
    PROVE  /\ remove(list, x) \in Seq(S)
           /\ Distinct(remove(list, x))
           /\ \A i \in 1..Len(remove(list, x)) :
                 /\ remove(list, x)[i] # x
                 /\ \E j \in 1..Len(list) : remove(list, x)[i] = list[j]
           /\ list = <<>> => remove(list, x) = <<>>
<1>1. CASE ~is_linked(list, x)
  BY <1>1, Zenon DEF remove, is_linked, Distinct
<1>2. CASE is_linked(list, x)
  <2> DEFINE at == CHOOSE i \in 1..Len(list) : list[i] = x
             r == [i \in 1..(Len(list) - 1) |->
                     IF i < at THEN list[i] ELSE list[i + 1]]
  <2>1. at \in 1..Len(list) /\ list[at] = x
    BY <1>2, Zenon DEF is_linked
  <2>2. remove(list, x) = r
    BY <1>2, Zenon DEF remove
  <2>3. Len(list) \in Nat /\ Len(list) - 1 \in Nat /\ list # <<>>
    BY <2>1
  <2> HIDE DEF at
  <2>4. \A i \in 1..(Len(list) - 1) : r[i] \in S
    BY <2>1, <2>3
  <2>5. r \in Seq(S) /\ Len(r) = Len(list) - 1
    BY <2>3, <2>4
  <2>6. \A i \in 1..(Len(list) - 1) :
           \E j \in 1..Len(list) :
              r[i] = list[j] /\ j # at /\ j = IF i < at THEN i ELSE i + 1
    BY <2>1, <2>3
  <2>7. \A i \in 1..(Len(list) - 1) : r[i] # x
    BY <2>1, <2>6, Zenon DEF Distinct
  <2>8. Distinct(r)
    BY <2>1, <2>5, <2>6 DEF Distinct
  <2> QED BY <2>2, <2>3, <2>5, <2>6, <2>7, <2>8
<1> QED BY <1>1, <1>2, Zenon

(* Pushing a node that is not linked keeps the nodes distinct. *)
LEMMA PushProperties ==
    ASSUME NEW S, NEW list \in Seq(S), NEW x \in S, Distinct(list),
           ~is_linked(list, x)
    PROVE  /\ push_back(list, x) \in Seq(S)
           /\ Distinct(push_back(list, x))
           /\ \A i \in 1..Len(push_back(list, x)) :
                 \/ push_back(list, x)[i] = x
                 \/ \E j \in 1..Len(list) : push_back(list, x)[i] = list[j]
  BY DEF push_back, is_linked, Distinct

(* Popping the first node leaves the others and unlinks it. *)
LEMMA PopProperties ==
    ASSUME NEW S, NEW list \in Seq(S), Distinct(list), list # <<>>
    PROVE  /\ front(list) \in S
           /\ front(list) = list[1]
           /\ 1 \in 1..Len(list)
           /\ pop_front(list) \in Seq(S)
           /\ Distinct(pop_front(list))
           /\ \A i \in 1..Len(pop_front(list)) :
                 /\ pop_front(list)[i] # front(list)
                 /\ \E j \in 1..Len(list) : pop_front(list)[i] = list[j]
  BY DEF front, pop_front, Distinct

-----------------------------------------------------------------------------
(* The steps of the mutex.                                                 *)

(* The conjuncts of the inductive invariant and the sets they speak of. *)
USE DEF Step, TypeOK, Kinds, WakeStates, Locations, Ends, was_cancelled,
        scheduling

(* The initial state satisfies the inductive invariant. *)
LEMMA InitInv == Init => IndInv
  BY NoWaiterAssumption
  DEF Init, IndInv, LocationInv, SectionInv, QueueInv, GrantInv, WakeInv,
      DispatchInv, ScheduledIsSuspended, OneHolder, NoStrandedWaiter, Holds

(* The queue after a waiter was enqueued. *)
LEMMA EnqueueQueue ==
    ASSUME IndInv, NEW w \in Waiters,
           pc[w] \in {"enqueue", "suspend_publish"}, pc'[w] \in {"suspended", "suspend_unblock"},
           pc'[w] = "suspended" /\ kind[w] # "lock_token" => wake'[w] = "waiting",
           waiters' = push_back(waiters, w),
           suspended' = suspended \cup {w},
           \A v \in Waiters \ {w} : pc'[v] = pc[v] /\ wake'[v] = wake[v],
           UNCHANGED <<kind, grant_pending>>
    PROVE  waiters' \in Seq(Waiters) /\ QueueInv'
<1>1. waiters \in Seq(Waiters) /\ Distinct(waiters) /\ ~is_linked(waiters, w)
  BY ZenonT(30) DEF IndInv, QueueInv, Distinct, is_linked
<1>2. /\ waiters' \in Seq(Waiters)
      /\ Distinct(waiters')
      /\ \A i \in 1..Len(waiters') :
            \/ waiters'[i] = w
            \/ \E j \in 1..Len(waiters) : waiters'[i] = waiters[j]
  BY <1>1, PushProperties
<1>3. \A j \in 1..Len(waiters) : waiters[j] \in Waiters /\ waiters[j] # w
  BY <1>1 DEF is_linked
<1>4. w \notin grant_pending
  BY Zenon DEF IndInv, GrantInv
<1> DEFINE Waits(v) == /\ v \in suspended' \ grant_pending'
                       /\ \/ pc'[v] = "suspend_unblock"
                          \/ /\ pc'[v] = "suspended"
                             /\ kind'[v] # "lock_token" => wake'[v] = "waiting"
                          \/ /\ pc'[v] \in {"resume", "unlink"}
                             /\ kind'[v] = "lock_token"
                             /\ was_cancelled(wake'[v])
<1>5. Waits(w)
  BY <1>4
<1>6. \A j \in 1..Len(waiters) : Waits(waiters[j])
  BY <1>3 DEF IndInv, QueueInv
<1> HIDE DEF Waits
<1>7. \A i \in 1..Len(waiters') : Waits(waiters'[i])
  BY <1>2, <1>5, <1>6
<1> USE DEF Waits
<1> QED BY <1>2, <1>7, Zenon DEF QueueInv, Distinct

(* The queue after a waiter took itself out of it. *)
LEMMA RemoveQueue ==
    ASSUME IndInv, NEW w \in Waiters,
           waiters' = remove(waiters, w),
           suspended \ {w} \subseteq suspended',
           grant_pending' = grant_pending,
           \A v \in Waiters \ {w} : pc'[v] = pc[v] /\ wake'[v] = wake[v],
           UNCHANGED kind
    PROVE  /\ waiters' \in Seq(Waiters)
           /\ QueueInv'
           /\ waiters = <<>> => waiters' = <<>>
<1>1. waiters \in Seq(Waiters) /\ Distinct(waiters)
  BY Zenon DEF IndInv, QueueInv, Distinct
<1>2. /\ waiters' \in Seq(Waiters)
      /\ Distinct(waiters')
      /\ \A i \in 1..Len(waiters') :
            /\ waiters'[i] # w
            /\ \E j \in 1..Len(waiters) : waiters'[i] = waiters[j]
      /\ waiters = <<>> => waiters' = <<>>
  BY <1>1, RemoveProperties
<1>3. \A j \in 1..Len(waiters) : waiters[j] \in Waiters
  BY <1>1
<1> QED BY <1>2, <1>3 DEF IndInv, QueueInv, Distinct

(* A waiter that is neither suspended nor leaving the queue is in none of    *)
(* the structures through which others reach it: whatever it does to itself, *)
(* the queue, the grants and the wakes stay as they are.                    *)
LEMMA RunningStep ==
    ASSUME IndInv, NEW w \in Waiters,
           pc[w] \notin {"suspended", "suspend_unblock", "resume", "unlink",
                         "dispatch"},
           pc'[w] # "dispatch",
           wake'[w] = wake[w]
              \/ ~(scheduling(wake[w]) \/ wake[w] = "abandoned"),
           \A v \in Waiters \ {w} :
              pc'[v] = pc[v] /\ wake'[v] = wake[v] /\ kind'[v] = kind[v],
           UNCHANGED <<waiters, suspended, grant_pending, to_schedule,
                       cancelling, scheduled>>
    PROVE  /\ QueueInv' /\ GrantInv' /\ WakeInv'
           /\ DispatchInv' /\ ScheduledIsSuspended'
<1>1. /\ w \notin grant_pending /\ w \notin cancelling
      /\ ~(scheduled[w] > 0)
      /\ grant_pending \subseteq Waiters /\ cancelling \subseteq Waiters
  BY Zenon DEF IndInv, GrantInv, WakeInv, ScheduledIsSuspended
<1>2. \A i \in 1..Len(waiters) : waiters[i] \in Waiters /\ waiters[i] # w
  BY ZenonT(30) DEF IndInv, QueueInv
<1> HIDE DEF TypeOK, was_cancelled, scheduling
<1>3. QueueInv'
  <2>1. \A i \in 1..Len(waiters) :
           /\ pc'[waiters[i]] = pc[waiters[i]]
           /\ wake'[waiters[i]] = wake[waiters[i]]
           /\ kind'[waiters[i]] = kind[waiters[i]]
    BY <1>2, Zenon
  <2> QED BY <2>1 DEF IndInv, QueueInv
<1>4. GrantInv' /\ WakeInv' /\ ScheduledIsSuspended'
  BY <1>1, ZenonT(30) DEF IndInv, GrantInv, WakeInv, ScheduledIsSuspended
<1>5. DispatchInv'
  BY <1>1, ZenonT(30) DEF IndInv, DispatchInv
<1> QED BY <1>3, <1>4, <1>5

(* The locked part of await_suspend of lock() preserves the invariant. *)
LEMMA EnqueueInv == ASSUME IndInv, NEW w \in Waiters, Enqueue(w) PROVE IndInv'
<1>1. CASE state = "free"
  <2>1. TypeOK'
    BY <1>1 DEF Enqueue, IndInv
  <2>2. LocationInv' /\ SectionInv'
    BY <1>1, NoWaiterAssumption DEF Enqueue, IndInv, LocationInv, SectionInv
  <2>3. QueueInv' /\ GrantInv' /\ WakeInv' /\ DispatchInv' /\ ScheduledIsSuspended'
    BY <1>1, RunningStep DEF Enqueue, IndInv
  <2>4. OneHolder' /\ NoStrandedWaiter'
    BY <1>1
    DEF Enqueue, IndInv, LocationInv, OneHolder, NoStrandedWaiter, Holds
  <2> QED BY <2>1, <2>2, <2>3, <2>4, Zenon DEF IndInv
<1>2. CASE state = "held"
  <2>1. waiters' \in Seq(Waiters) /\ QueueInv'
    BY <1>2, EnqueueQueue DEF Enqueue, IndInv, LocationInv, set_handle
  <2>2. /\ pc[w] = "enqueue" /\ wake[w] = "idle"
        /\ pc' = [pc EXCEPT ![w] = "suspended"]
        /\ wake' = [wake EXCEPT ![w] = "waiting"]
        /\ UNCHANGED <<state, internal_mutex, kind, grant_pending,
                       to_schedule, cancelling, scheduled, after>>
        /\ suspended' = suspended \cup {w}
    BY <1>2 DEF Enqueue, IndInv, LocationInv, set_handle
  <2>3. w \notin grant_pending /\ w \notin cancelling /\ ~(scheduled[w] > 0)
    BY <2>2, Zenon DEF IndInv, GrantInv, WakeInv, ScheduledIsSuspended
  <2>4. TypeOK'
    BY <2>1, <2>2 DEF IndInv
  <2>5. LocationInv' /\ SectionInv'
    BY <2>2 DEF IndInv, LocationInv, SectionInv
  <2>6. GrantInv' /\ WakeInv' /\ ScheduledIsSuspended'
    BY <2>2, <2>3 DEF IndInv, GrantInv, WakeInv, ScheduledIsSuspended
  <2>7. DispatchInv'
    BY <2>2, <2>3 DEF IndInv, DispatchInv
  <2>8. OneHolder' /\ NoStrandedWaiter'
    <3>1. \A v \in Waiters : Holds(v)' <=> Holds(v)
      BY <2>2, <2>3 DEF IndInv, Holds
    <3> QED BY <1>2, <2>2, <3>1 DEF IndInv, OneHolder, NoStrandedWaiter
  <2> QED BY <2>1, <2>4, <2>5, <2>6, <2>7, <2>8, Zenon DEF IndInv
<1> QED BY <1>1, <1>2 DEF IndInv

(* Claiming the result of an acquisition inside await_suspend, or handing   *)
(* the lock on when the cancellation came first, preserves the invariant.   *)
LEMMA SuspendClaimInv ==
    ASSUME IndInv, NEW w \in Waiters, SuspendClaim(w) PROVE IndInv'
<1>1. TypeOK'
  BY DEF SuspendClaim, IndInv, claim_notification
<1>2. LocationInv' /\ SectionInv'
  BY NoWaiterAssumption
  DEF SuspendClaim, IndInv, LocationInv, SectionInv, claim_notification,
      claim_rejected
<1>3. QueueInv' /\ GrantInv' /\ WakeInv' /\ DispatchInv' /\ ScheduledIsSuspended'
  <2>1. /\ pc[w] = "suspend_claim" /\ pc'[w] \in {"resume", "recover"}
        /\ wake[w] \in {"idle", "cancelled_inline"}
        /\ \A v \in Waiters \ {w} : pc'[v] = pc[v] /\ wake'[v] = wake[v]
        /\ UNCHANGED <<waiters, kind, suspended, grant_pending, to_schedule,
                       cancelling, scheduled>>
    BY DEF SuspendClaim, IndInv, LocationInv
  <2> QED BY <2>1, RunningStep
<1>4. OneHolder' /\ NoStrandedWaiter'
  <2>1. \A v \in Waiters : Holds(v)' <=> Holds(v)
    BY DEF SuspendClaim, IndInv, Holds, claim_notification, claim_rejected
  <2> QED
    BY <2>1 DEF SuspendClaim, IndInv, OneHolder, NoStrandedWaiter
<1> QED BY <1>1, <1>2, <1>3, <1>4, Zenon DEF IndInv

(* Publishing the handle of a cancellable waiter preserves the invariant. *)
LEMMA SuspendPublishInv ==
    ASSUME IndInv, NEW w \in Waiters, SuspendPublish(w) PROVE IndInv'
<1>1. CASE wake[w] # "idle"
  <2>1. /\ pc[w] = "suspend_publish" /\ wake[w] = "cancelled_inline"
        /\ pc' = [pc EXCEPT ![w] = "resume"]
        /\ internal_mutex' = NoWaiter
        /\ UNCHANGED <<state, waiters, kind, wake, suspended, grant_pending,
                       to_schedule, cancelling, scheduled, after>>
    BY <1>1 DEF SuspendPublish, IndInv, LocationInv, set_handle_blocked
  <2>2. TypeOK'
    BY <2>1, NoWaiterAssumption DEF IndInv
  <2>3. LocationInv' /\ SectionInv'
    BY <2>1 DEF IndInv, LocationInv, SectionInv
  <2>4. QueueInv' /\ GrantInv' /\ WakeInv' /\ DispatchInv' /\ ScheduledIsSuspended'
    BY <2>1, RunningStep DEF IndInv
  <2>5. OneHolder' /\ NoStrandedWaiter'
    BY <2>1 DEF IndInv, OneHolder, NoStrandedWaiter, Holds
  <2> QED BY <2>2, <2>3, <2>4, <2>5, Zenon DEF IndInv
<1>2. CASE wake[w] = "idle"
  <2>1. waiters' \in Seq(Waiters) /\ QueueInv'
    BY <1>2, EnqueueQueue DEF SuspendPublish, IndInv, set_handle_blocked
  <2>2. /\ pc[w] = "suspend_publish" /\ kind[w] = "lock_token"
        /\ state = "held"
        /\ pc' = [pc EXCEPT ![w] = "suspend_unblock"]
        /\ wake' = [wake EXCEPT ![w] = "blocked"]
        /\ UNCHANGED <<state, internal_mutex, kind, grant_pending,
                       to_schedule, cancelling, scheduled, after>>
        /\ suspended' = suspended \cup {w}
    BY <1>2
    DEF SuspendPublish, IndInv, LocationInv, SectionInv, set_handle_blocked
  <2>3. w \notin grant_pending /\ w \notin cancelling /\ ~(scheduled[w] > 0)
    BY <2>2, Zenon DEF IndInv, GrantInv, WakeInv, ScheduledIsSuspended
  <2>4. TypeOK'
    BY <2>1, <2>2 DEF IndInv
  <2>5. LocationInv' /\ SectionInv'
    BY <2>2 DEF IndInv, LocationInv, SectionInv
  <2>6. GrantInv' /\ WakeInv' /\ ScheduledIsSuspended'
    BY <2>2, <2>3 DEF IndInv, GrantInv, WakeInv, ScheduledIsSuspended
  <2>7. DispatchInv'
    BY <1>2, <2>2, <2>3 DEF IndInv, DispatchInv
  <2>8. OneHolder' /\ NoStrandedWaiter'
    <3>1. \A v \in Waiters : Holds(v)' <=> Holds(v)
      BY <2>2, <2>3 DEF IndInv, Holds
    <3> QED BY <2>2, <3>1 DEF IndInv, OneHolder, NoStrandedWaiter
  <2> QED BY <2>1, <2>4, <2>5, <2>6, <2>7, <2>8, Zenon DEF IndInv
<1> QED BY <1>1, <1>2

(* The end of the publication window preserves the invariant. *)
LEMMA SuspendUnblockInv ==
    ASSUME IndInv, NEW w \in Waiters, SuspendUnblock(w) PROVE IndInv'
<1>0. w \notin grant_pending /\ w \notin cancelling /\ ~(scheduled[w] > 0)
  BY DEF SuspendUnblock, IndInv, GrantInv, WakeInv, ScheduledIsSuspended
<1>1. CASE wake[w] = "blocked"
  <2>1. /\ pc[w] = "suspend_unblock" /\ kind[w] = "lock_token"
        /\ pc' = [pc EXCEPT ![w] = "suspended"]
        /\ wake' = [wake EXCEPT ![w] = "waiting"]
        /\ internal_mutex' = NoWaiter
        /\ UNCHANGED <<state, waiters, kind, suspended, grant_pending,
                       to_schedule, cancelling, scheduled, after>>
    BY <1>1 DEF SuspendUnblock, IndInv, LocationInv, unblock_after_publish
  <2>2. TypeOK'
    BY <2>1, NoWaiterAssumption DEF IndInv
  <2>3. LocationInv' /\ SectionInv'
    BY <2>1 DEF IndInv, LocationInv, SectionInv
  <2>4. QueueInv'
    BY <2>1 DEF IndInv, QueueInv
  <2>5. GrantInv' /\ WakeInv' /\ ScheduledIsSuspended'
    BY <1>0, <2>1 DEF IndInv, GrantInv, WakeInv, ScheduledIsSuspended
  <2>6. DispatchInv'
    BY <1>0, <1>1, <2>1 DEF IndInv, DispatchInv
  <2>7. OneHolder' /\ NoStrandedWaiter'
    <3>1. \A v \in Waiters : Holds(v)' <=> Holds(v)
      BY <1>0, <2>1 DEF IndInv, Holds
    <3> QED BY <2>1, <3>1 DEF IndInv, OneHolder, NoStrandedWaiter
  <2> QED BY <2>2, <2>3, <2>4, <2>5, <2>6, <2>7, Zenon DEF IndInv
<1>2. CASE wake[w] # "blocked"
  <2>1. /\ waiters' \in Seq(Waiters)
        /\ QueueInv'
        /\ waiters = <<>> => waiters' = <<>>
    BY <1>2, RemoveQueue DEF SuspendUnblock, IndInv, unblock_after_publish
  <2>2. /\ pc[w] = "suspend_unblock" /\ wake[w] = "cancelled_inline"
        /\ pc' = [pc EXCEPT ![w] = "resume"]
        /\ internal_mutex' = NoWaiter
        /\ suspended' = suspended \ {w}
        /\ UNCHANGED <<state, kind, wake, grant_pending, to_schedule,
                       cancelling, scheduled, after>>
    BY <1>2 DEF SuspendUnblock, IndInv, LocationInv, unblock_after_publish
  <2>3. TypeOK'
    BY <2>1, <2>2, NoWaiterAssumption DEF IndInv
  <2>4. LocationInv' /\ SectionInv'
    BY <2>2 DEF IndInv, LocationInv, SectionInv
  <2>5. GrantInv' /\ WakeInv' /\ ScheduledIsSuspended' /\ DispatchInv'
    BY <1>0, <2>2
    DEF IndInv, GrantInv, WakeInv, ScheduledIsSuspended, DispatchInv
  <2>6. OneHolder' /\ NoStrandedWaiter'
    <3>1. /\ ~Holds(w)' /\ ~Holds(w)
          /\ \A v \in Waiters \ {w} : Holds(v)' <=> Holds(v)
      BY <2>2 DEF IndInv, Holds
    <3> QED BY <2>1, <2>2, <3>1 DEF IndInv, OneHolder, NoStrandedWaiter
  <2> QED BY <2>1, <2>3, <2>4, <2>5, <2>6, Zenon DEF IndInv
<1> QED BY <1>1, <1>2

(* await_resume preserves the invariant. *)
LEMMA AwaitResumeInv ==
    ASSUME IndInv, NEW w \in Waiters, AwaitResume(w) PROVE IndInv'
<1>1. TypeOK' /\ LocationInv' /\ SectionInv' /\ GrantInv' /\ WakeInv'
  BY DEF AwaitResume, IndInv, LocationInv, SectionInv, GrantInv, WakeInv
<1>2. QueueInv'
  <2>1. \A i \in 1..Len(waiters) : waiters[i] \in Waiters
    BY DEF IndInv
  <2> QED BY <2>1 DEF AwaitResume, IndInv, QueueInv
<1>3. DispatchInv' /\ ScheduledIsSuspended' /\ NoStrandedWaiter'
  BY DEF AwaitResume, IndInv, DispatchInv, ScheduledIsSuspended,
         NoStrandedWaiter
<1>4. OneHolder'
  <2>1. \A v \in Waiters : Holds(v)' <=> Holds(v)
    BY DEF AwaitResume, IndInv, Holds
  <2> QED BY <2>1, Zenon DEF AwaitResume, IndInv, OneHolder
<1> QED BY <1>1, <1>2, <1>3, <1>4, Zenon DEF IndInv

(* The unlinking of a cancelled waiter preserves the invariant. *)
LEMMA UnlinkInv == ASSUME IndInv, NEW w \in Waiters, Unlink(w) PROVE IndInv'
<1>1. /\ waiters' \in Seq(Waiters)
      /\ QueueInv'
      /\ waiters = <<>> => waiters' = <<>>
  BY RemoveQueue, Zenon DEF Unlink, IndInv
<1>2. TypeOK' /\ LocationInv' /\ SectionInv' /\ GrantInv' /\ WakeInv'
  BY <1>1 DEF Unlink, IndInv, LocationInv, SectionInv, GrantInv, WakeInv
<1>3. DispatchInv' /\ ScheduledIsSuspended' /\ OneHolder'
  BY DEF Unlink, IndInv, DispatchInv, ScheduledIsSuspended, OneHolder, Holds
<1>4. NoStrandedWaiter'
  BY <1>1, Zenon DEF Unlink, IndInv, NoStrandedWaiter
<1> QED BY <1>1, <1>2, <1>3, <1>4, Zenon DEF IndInv

(* A cancel callback preserves the invariant wherever it comes in. *)
LEMMA CancelInv == ASSUME IndInv, NEW w \in Waiters, Cancel(w) PROVE IndInv'
<1>1. wake[w] \in {"idle", "blocked", "waiting"} /\ kind[w] = "lock_token"
  BY Zenon DEF Cancel, Registered, request_cancel
<1>2. \/ wake'[w] = "cancelled_inline" /\ wake[w] \in {"idle", "blocked"}
      \/ wake'[w] = "cancellation_claimed" /\ wake[w] = "waiting"
  BY <1>1, Zenon DEF Cancel, IndInv, request_cancel
<1>3. TypeOK'
  BY Zenon DEF Cancel, IndInv, request_cancel
<1>4. pc[w] \in {"ready_token", "ready_try", "ready_claim", "suspend_token",
                 "suspend_cas", "suspend_claim", "suspend_publish",
                 "suspend_unblock", "suspended"}
  BY <1>1, Zenon DEF Cancel, Registered, IndInv, LocationInv
<1>5. LocationInv' /\ SectionInv'
  BY <1>1, <1>2, <1>4, SMTT(30) DEF Cancel, IndInv, LocationInv, SectionInv
<1>6. QueueInv' /\ GrantInv' /\ WakeInv'
  BY <1>1, <1>2, <1>4, SMTT(30)
  DEF Cancel, IndInv, LocationInv, QueueInv, GrantInv, WakeInv
<1>7. DispatchInv' /\ ScheduledIsSuspended' /\ NoStrandedWaiter'
  BY <1>1, <1>2, <1>4, SMTT(30)
  DEF Cancel, IndInv, GrantInv, WakeInv, DispatchInv, ScheduledIsSuspended,
      NoStrandedWaiter
<1>8. OneHolder'
  BY <1>4 DEF Cancel, IndInv, OneHolder, Holds
<1> QED BY <1>3, <1>5, <1>6, <1>7, <1>8, Zenon DEF IndInv

(* A step of recover_cancelled_handoff_locked preserves the invariant. *)
LEMMA HandoffInv == ASSUME IndInv, NEW w \in Waiters, Handoff(w) PROVE IndInv'
<1>1. waiters \in Seq(Waiters) /\ Distinct(waiters) /\ waiters # <<>>
  BY Zenon DEF Handoff, IndInv, QueueInv, Distinct
<1>0. PICK v \in Waiters : v = front(waiters)
  BY <1>1, PopProperties, Zenon
<1>2. /\ v = waiters[1]
      /\ 1 \in 1..Len(waiters)
      /\ waiters' \in Seq(Waiters)
      /\ Distinct(waiters')
      /\ \A i \in 1..Len(waiters') :
            /\ waiters'[i] # v
            /\ \E j \in 1..Len(waiters) : waiters'[i] = waiters[j]
  BY <1>0, <1>1, PopProperties DEF Handoff
<1>3. \A j \in 1..Len(waiters) : waiters[j] \in Waiters
  BY <1>1, SMTT(30)
<1>4. CASE kind[v] = "lock_token" /\ claim_rejected(wake[v])
  <2>1. UNCHANGED <<state, internal_mutex, kind, wake, suspended,
                    grant_pending, to_schedule, cancelling, scheduled, pc,
                    after>>
    BY <1>0, <1>4, Zenon DEF Handoff
  <2>2. QueueInv'
    BY <1>2, <1>3, <2>1 DEF IndInv, QueueInv, Distinct
  <2>3. state = "held"
    BY Zenon DEF Handoff, IndInv, OneHolder, Holds
  <2> QED
    BY <1>2, <2>1, <2>2, <2>3, SMTT(30)
    DEF IndInv, LocationInv, SectionInv, GrantInv, WakeInv, DispatchInv,
        ScheduledIsSuspended, OneHolder, NoStrandedWaiter, Holds
<1>5. CASE kind[v] = "lock_token" => ~claim_rejected(wake[v])
  <2>1. /\ wake' = [wake EXCEPT ![v] = IF kind[v] = "lock_token"
                                       THEN claim_notification(wake[v])
                                       ELSE wake[v]]
        /\ state' = "held"
        /\ grant_pending' = grant_pending \cup {v}
        /\ to_schedule' = [to_schedule EXCEPT ![w] = v]
        /\ internal_mutex' = NoWaiter
        /\ pc[w] = "recover"
        /\ pc' = [pc EXCEPT ![w] = "dispatch"]
        /\ UNCHANGED <<kind, suspended, cancelling, scheduled, after>>
    BY <1>0, <1>5 DEF Handoff, IndInv
  <2>2. /\ v # w
        /\ v \notin grant_pending
        /\ pc[v] = "suspended"
        /\ wake[v] = "waiting"
    <3>1. internal_mutex = w /\ pc[v] # "suspend_unblock"
      BY <2>1, Zenon DEF IndInv, SectionInv
    <3>2. /\ v \notin grant_pending
          /\ \/ /\ pc[v] = "suspended"
                /\ kind[v] # "lock_token" => wake[v] = "waiting"
             \/ kind[v] = "lock_token" /\ was_cancelled(wake[v])
      BY <1>2, <3>1, Zenon DEF IndInv, QueueInv
    <3> QED BY <1>5, <2>1, <3>2, Zenon DEF IndInv, LocationInv, claim_rejected
  <2>3. /\ wake'[v] = IF kind[v] = "lock_token" THEN "notification_claimed"
                                                ELSE "waiting"
        /\ \A u \in Waiters \ {v} : wake'[u] = wake[u]
        /\ wake' \in [Waiters -> WakeStates]
    BY <1>2, <2>1, <2>2, ZenonT(30) DEF IndInv, claim_notification
  <2>4. TypeOK'
    BY <1>2, <2>1, <2>3, SMTT(30) DEF IndInv
  <2>5. LocationInv' /\ SectionInv'
    BY <1>2, <2>1, <2>2, <2>3, SMTT(30) DEF IndInv, LocationInv, SectionInv
  <2>6. QueueInv'
    BY <1>2, <1>3, <2>1, <2>2, <2>3, SMTT(30) DEF IndInv, QueueInv, Distinct
  <2>7. GrantInv' /\ WakeInv' /\ ScheduledIsSuspended' /\ NoStrandedWaiter'
    BY <1>2, <2>1, <2>2, <2>3, SMTT(30)
    DEF IndInv, GrantInv, WakeInv, ScheduledIsSuspended, NoStrandedWaiter
  <2>8. DispatchInv'
    BY <1>2, <2>1, <2>2, <2>3 DEF IndInv, DispatchInv
  <2>9. OneHolder'
    <3>1. Holds(w) /\ ~Holds(w)' /\ Holds(v)'
      BY <1>2, <2>1, <2>2, Zenon DEF IndInv, Holds
    <3>2. \A u \in Waiters \ {v, w} : Holds(u)' <=> Holds(u)
      BY <2>1, <2>3 DEF IndInv, Holds
    <3> QED BY <1>2, <2>1, <3>1, <3>2, ZenonT(30) DEF IndInv, OneHolder
  <2> QED BY <2>4, <2>5, <2>6, <2>7, <2>8, <2>9, Zenon DEF IndInv
<1> QED BY <1>4, <1>5, Zenon

(* The destruction of a suspended frame preserves the invariant. *)
LEMMA DestroyInv == ASSUME IndInv, NEW w \in Waiters, Destroy(w) PROVE IndInv'
<1>1. wake' = [wake EXCEPT ![w] = "abandoned"]
  BY Zenon DEF Destroy, IndInv, abandon
<1>2. CASE is_linked(waiters, w) \/ w \notin grant_pending
  <2>1. /\ waiters' = remove(waiters, w)
        /\ pc' = [pc EXCEPT ![w] = "destroyed"]
        /\ UNCHANGED <<state, internal_mutex, kind, suspended, grant_pending,
                       to_schedule, cancelling, scheduled, after>>
    BY <1>2, Zenon DEF Destroy
  <2>2. /\ waiters' \in Seq(Waiters)
        /\ QueueInv'
        /\ waiters = <<>> => waiters' = <<>>
    BY <1>1, <2>1, RemoveQueue, Zenon DEF IndInv
  <2>3. pc[w] = "suspended" /\ w \notin grant_pending /\ w \notin cancelling
    BY <1>2 DEF Destroy, IndInv, QueueInv, is_linked
  <2>4. scheduled[w] = 0
    BY SMTT(30) DEF Destroy, IndInv, WakeInv
  <2>5. TypeOK' /\ LocationInv' /\ SectionInv' /\ GrantInv'
    BY <1>1, <2>1, <2>2, <2>3, SMTT(30)
    DEF IndInv, LocationInv, SectionInv, GrantInv
  <2>6. WakeInv' /\ DispatchInv' /\ ScheduledIsSuspended' /\ NoStrandedWaiter'
    BY <1>1, <2>1, <2>2, <2>3, <2>4, SMTT(30)
    DEF IndInv, WakeInv, DispatchInv, ScheduledIsSuspended, NoStrandedWaiter
  <2>7. OneHolder'
    <3>1. \A v \in Waiters : Holds(v)' <=> Holds(v)
      BY <1>1, <2>1, <2>3, ZenonT(30) DEF IndInv, Holds
    <3> QED BY <2>1, <3>1, Zenon DEF IndInv, OneHolder
  <2> QED BY <2>2, <2>5, <2>6, <2>7, Zenon DEF IndInv
<1>3. CASE ~is_linked(waiters, w) /\ w \in grant_pending
  <2>1. /\ grant_pending' = grant_pending \ {w}
        /\ internal_mutex = NoWaiter
        /\ internal_mutex' = w
        /\ pc[w] = "suspended"
        /\ pc' = [pc EXCEPT ![w] = "recover"]
        /\ after' = [after EXCEPT ![w] = "destroyed"]
        /\ w \notin cancelling
        /\ UNCHANGED <<state, waiters, kind, suspended, to_schedule,
                       cancelling, scheduled>>
    BY <1>3, Zenon DEF Destroy
  <2>2. scheduled[w] = 0
    BY DEF Destroy, IndInv, WakeInv
  <2>3. TypeOK' /\ LocationInv' /\ SectionInv' /\ GrantInv'
    BY <1>1, <2>1, NoWaiterAssumption, SMTT(30)
    DEF IndInv, LocationInv, SectionInv, GrantInv
  <2>4. QueueInv'
    <3>1. \A i \in 1..Len(waiters) : waiters[i] \in Waiters /\ waiters[i] # w
      BY <1>3 DEF IndInv, is_linked
    <3> QED BY <1>1, <2>1, <3>1 DEF IndInv, QueueInv
  <2>5. WakeInv' /\ DispatchInv' /\ ScheduledIsSuspended' /\ NoStrandedWaiter'
    BY <1>1, <2>1, <2>2, SMTT(30)
    DEF IndInv, WakeInv, DispatchInv, ScheduledIsSuspended, NoStrandedWaiter
  <2>6. OneHolder'
    <3>1. \A v \in Waiters : Holds(v)' <=> Holds(v)
      BY <1>1, <1>3, <2>1, ZenonT(30) DEF IndInv, Holds
    <3> QED BY <2>1, <3>1, Zenon DEF IndInv, OneHolder
  <2> QED BY <2>3, <2>4, <2>5, <2>6, Zenon DEF IndInv
<1> QED BY <1>2, <1>3, Zenon

(* Every step preserves the invariant. *)
LEMMA NextInv == IndInv /\ [Next]_vars => IndInv'
<1> SUFFICES ASSUME IndInv, [Next]_vars PROVE IndInv'
  BY Zenon
<1>1. ASSUME NEW w \in Waiters, NEW k \in Kinds, Begin(w, k) PROVE IndInv'
  <2>1. TypeOK'
    BY <1>1 DEF Begin, IndInv
  <2>2. LocationInv' /\ SectionInv'
    BY <1>1, NoWaiterAssumption DEF Begin, IndInv, LocationInv, SectionInv
  <2>3. QueueInv' /\ GrantInv' /\ WakeInv' /\ DispatchInv' /\ ScheduledIsSuspended'
    BY <1>1, RunningStep DEF Begin, IndInv
  <2>4. OneHolder' /\ NoStrandedWaiter'
    BY <1>1 DEF Begin, IndInv, LocationInv, GrantInv, OneHolder, NoStrandedWaiter, Holds
  <2> QED BY <2>1, <2>2, <2>3, <2>4, Zenon DEF IndInv
<1>2. ASSUME NEW w \in Waiters, try_lock(w) PROVE IndInv'
  <2>1. TypeOK'
    BY <1>2 DEF try_lock, Exchange, IndInv
  <2>2. LocationInv' /\ SectionInv'
    BY <1>2, NoWaiterAssumption DEF try_lock, Exchange, IndInv, LocationInv, SectionInv
  <2>3. QueueInv' /\ GrantInv' /\ WakeInv' /\ DispatchInv' /\ ScheduledIsSuspended'
    BY <1>2, RunningStep DEF try_lock, Exchange, IndInv
  <2>4. OneHolder' /\ NoStrandedWaiter'
    BY <1>2 DEF try_lock, Exchange, IndInv, LocationInv, GrantInv, OneHolder, NoStrandedWaiter, Holds
  <2> QED BY <2>1, <2>2, <2>3, <2>4, Zenon DEF IndInv
<1>3. ASSUME NEW w \in Waiters, AwaitReady(w) PROVE IndInv'
  <2>1. TypeOK'
    BY <1>3 DEF AwaitReady, Exchange, IndInv
  <2>2. LocationInv' /\ SectionInv'
    BY <1>3, NoWaiterAssumption DEF AwaitReady, Exchange, IndInv, LocationInv, SectionInv
  <2>3. QueueInv' /\ GrantInv' /\ WakeInv' /\ DispatchInv' /\ ScheduledIsSuspended'
    BY <1>3, RunningStep DEF AwaitReady, Exchange, IndInv
  <2>4. OneHolder' /\ NoStrandedWaiter'
    BY <1>3 DEF AwaitReady, Exchange, IndInv, LocationInv, GrantInv, OneHolder, NoStrandedWaiter, Holds
  <2> QED BY <2>1, <2>2, <2>3, <2>4, Zenon DEF IndInv
<1>4. ASSUME NEW w \in Waiters, AwaitReadyToken(w) PROVE IndInv'
  <2>1. TypeOK'
    BY <1>4 DEF AwaitReadyToken, IndInv
  <2>2. LocationInv' /\ SectionInv'
    BY <1>4, NoWaiterAssumption DEF AwaitReadyToken, IndInv, LocationInv, SectionInv
  <2>3. QueueInv' /\ GrantInv' /\ WakeInv' /\ DispatchInv' /\ ScheduledIsSuspended'
    BY <1>4, RunningStep DEF AwaitReadyToken, IndInv
  <2>4. OneHolder' /\ NoStrandedWaiter'
    BY <1>4 DEF AwaitReadyToken, IndInv, LocationInv, GrantInv, OneHolder, NoStrandedWaiter, Holds
  <2> QED BY <2>1, <2>2, <2>3, <2>4, Zenon DEF IndInv
<1>5. ASSUME NEW w \in Waiters, AwaitReadyTry(w) PROVE IndInv'
  <2>1. TypeOK'
    BY <1>5 DEF AwaitReadyTry, Exchange, IndInv
  <2>2. LocationInv' /\ SectionInv'
    BY <1>5, NoWaiterAssumption DEF AwaitReadyTry, Exchange, IndInv, LocationInv, SectionInv
  <2>3. QueueInv' /\ GrantInv' /\ WakeInv' /\ DispatchInv' /\ ScheduledIsSuspended'
    BY <1>5, RunningStep DEF AwaitReadyTry, Exchange, IndInv
  <2>4. OneHolder' /\ NoStrandedWaiter'
    BY <1>5 DEF AwaitReadyTry, Exchange, IndInv, LocationInv, GrantInv, OneHolder, NoStrandedWaiter, Holds
  <2> QED BY <2>1, <2>2, <2>3, <2>4, Zenon DEF IndInv
<1>6. ASSUME NEW w \in Waiters, AwaitReadyClaim(w) PROVE IndInv'
  <2>1. TypeOK'
    BY <1>6 DEF AwaitReadyClaim, claim_rejected, claim_notification, IndInv
  <2>2. LocationInv' /\ SectionInv'
    BY <1>6, NoWaiterAssumption DEF AwaitReadyClaim, claim_rejected, claim_notification, IndInv, LocationInv, SectionInv
  <2>3. QueueInv' /\ GrantInv' /\ WakeInv' /\ DispatchInv' /\ ScheduledIsSuspended'
    BY <1>6, RunningStep DEF AwaitReadyClaim, claim_rejected, claim_notification, IndInv, LocationInv
  <2>4. OneHolder' /\ NoStrandedWaiter'
    BY <1>6 DEF AwaitReadyClaim, claim_rejected, claim_notification, IndInv, LocationInv, GrantInv, OneHolder, NoStrandedWaiter, Holds
  <2> QED BY <2>1, <2>2, <2>3, <2>4, Zenon DEF IndInv
<1>7. ASSUME NEW w \in Waiters, AwaitSuspend(w) PROVE IndInv'
  <2>1. TypeOK'
    BY <1>7 DEF AwaitSuspend, Exchange, IndInv
  <2>2. LocationInv' /\ SectionInv'
    BY <1>7, NoWaiterAssumption DEF AwaitSuspend, Exchange, IndInv, LocationInv, SectionInv
  <2>3. QueueInv' /\ GrantInv' /\ WakeInv' /\ DispatchInv' /\ ScheduledIsSuspended'
    BY <1>7, RunningStep DEF AwaitSuspend, Exchange, IndInv
  <2>4. OneHolder' /\ NoStrandedWaiter'
    BY <1>7 DEF AwaitSuspend, Exchange, IndInv, LocationInv, GrantInv, OneHolder, NoStrandedWaiter, Holds
  <2> QED BY <2>1, <2>2, <2>3, <2>4, Zenon DEF IndInv
<1>8. ASSUME NEW w \in Waiters, AllocationFails(w) PROVE IndInv'
  <2>1. TypeOK'
    BY <1>8 DEF AllocationFails, IndInv
  <2>2. LocationInv' /\ SectionInv'
    BY <1>8, NoWaiterAssumption DEF AllocationFails, IndInv, LocationInv, SectionInv
  <2>3. QueueInv' /\ GrantInv' /\ WakeInv' /\ DispatchInv' /\ ScheduledIsSuspended'
    BY <1>8, RunningStep DEF AllocationFails, IndInv
  <2>4. OneHolder' /\ NoStrandedWaiter'
    BY <1>8 DEF AllocationFails, IndInv, LocationInv, GrantInv, OneHolder, NoStrandedWaiter, Holds
  <2> QED BY <2>1, <2>2, <2>3, <2>4, Zenon DEF IndInv
<1>9. ASSUME NEW w \in Waiters, AwaitSuspendToken(w) PROVE IndInv'
  <2>1. TypeOK'
    BY <1>9 DEF AwaitSuspendToken, IndInv
  <2>2. LocationInv' /\ SectionInv'
    BY <1>9, NoWaiterAssumption DEF AwaitSuspendToken, IndInv, LocationInv, SectionInv
  <2>3. QueueInv' /\ GrantInv' /\ WakeInv' /\ DispatchInv' /\ ScheduledIsSuspended'
    BY <1>9, RunningStep DEF AwaitSuspendToken, IndInv
  <2>4. OneHolder' /\ NoStrandedWaiter'
    BY <1>9 DEF AwaitSuspendToken, IndInv, LocationInv, GrantInv, OneHolder, NoStrandedWaiter, Holds
  <2> QED BY <2>1, <2>2, <2>3, <2>4, Zenon DEF IndInv
<1>10. ASSUME NEW w \in Waiters, SuspendExchange(w) PROVE IndInv'
  <2>1. TypeOK'
    BY <1>10 DEF SuspendExchange, Exchange, IndInv
  <2>2. LocationInv' /\ SectionInv'
    BY <1>10, NoWaiterAssumption DEF SuspendExchange, Exchange, IndInv, LocationInv, SectionInv
  <2>3. QueueInv' /\ GrantInv' /\ WakeInv' /\ DispatchInv' /\ ScheduledIsSuspended'
    BY <1>10, RunningStep DEF SuspendExchange, Exchange, IndInv
  <2>4. OneHolder' /\ NoStrandedWaiter'
    BY <1>10 DEF SuspendExchange, Exchange, IndInv, LocationInv, GrantInv, OneHolder, NoStrandedWaiter, Holds
  <2> QED BY <2>1, <2>2, <2>3, <2>4, Zenon DEF IndInv
<1>11. ASSUME NEW w \in Waiters, Resume(w) PROVE IndInv'
  <2>1. TypeOK'
    BY <1>11, NoWaiterAssumption DEF Resume, IndInv, WakeInv, ScheduledIsSuspended, DispatchInv
  <2>2. LocationInv' /\ SectionInv'
    BY <1>11 DEF Resume, IndInv, LocationInv, SectionInv, WakeInv, DispatchInv
  <2>3. QueueInv'
    BY <1>11 DEF Resume, IndInv, QueueInv, WakeInv, ScheduledIsSuspended, DispatchInv
  <2>4. GrantInv' /\ WakeInv'
    BY <1>11 DEF Resume, IndInv, LocationInv, GrantInv, WakeInv, ScheduledIsSuspended, DispatchInv
  <2>5. DispatchInv' /\ ScheduledIsSuspended'
    BY <1>11 DEF Resume, IndInv, GrantInv, WakeInv, DispatchInv, ScheduledIsSuspended
  <2>6. OneHolder' /\ NoStrandedWaiter'
    BY <1>11 DEF Resume, IndInv, GrantInv, ScheduledIsSuspended, OneHolder, NoStrandedWaiter, Holds
  <2> QED BY <2>1, <2>2, <2>3, <2>4, <2>5, <2>6, Zenon DEF IndInv
<1>12. ASSUME NEW w \in Waiters, unlock(w) PROVE IndInv'
  <2>1. TypeOK'
    BY <1>12 DEF unlock, IndInv
  <2>2. LocationInv' /\ SectionInv'
    BY <1>12, NoWaiterAssumption DEF unlock, IndInv, LocationInv, SectionInv
  <2>3. QueueInv' /\ GrantInv' /\ WakeInv' /\ DispatchInv' /\ ScheduledIsSuspended'
    <3>1. pc[w] \in {"owner", "unlock_ready"} /\ pc'[w] = "recover"
      BY <1>12 DEF unlock, IndInv
    <3>2. /\ \A v \in Waiters \ {w} : pc'[v] = pc[v]
          /\ UNCHANGED <<waiters, kind, wake, suspended, grant_pending,
                         to_schedule, cancelling, scheduled>>
      BY <1>12 DEF unlock, IndInv
    <3> HIDE DEF TypeOK
    <3> QED BY <3>1, <3>2, RunningStep
  <2>4. OneHolder' /\ NoStrandedWaiter'
    BY <1>12 DEF unlock, IndInv, LocationInv, GrantInv, OneHolder, NoStrandedWaiter, Holds
  <2> QED BY <2>1, <2>2, <2>3, <2>4, Zenon DEF IndInv
<1>13. ASSUME NEW w \in Waiters, Release(w) PROVE IndInv'
  <2>1. TypeOK'
    BY <1>13 DEF Release, IndInv
  <2>2. LocationInv' /\ SectionInv'
    BY <1>13, NoWaiterAssumption DEF Release, IndInv, LocationInv, SectionInv
  <2>3. QueueInv' /\ GrantInv' /\ WakeInv' /\ DispatchInv' /\ ScheduledIsSuspended'
    <3>1. pc[w] = "recover" /\ pc'[w] # "dispatch"
      BY <1>13 DEF Release, IndInv
    <3>2. /\ \A v \in Waiters \ {w} : pc'[v] = pc[v]
          /\ UNCHANGED <<waiters, kind, wake, suspended, grant_pending,
                         to_schedule, cancelling, scheduled>>
      BY <1>13 DEF Release, IndInv
    <3> HIDE DEF TypeOK
    <3> QED BY <3>1, <3>2, RunningStep
  <2>4. OneHolder' /\ NoStrandedWaiter'
    BY <1>13 DEF Release, IndInv, LocationInv, GrantInv, OneHolder, NoStrandedWaiter, Holds
  <2> QED BY <2>1, <2>2, <2>3, <2>4, Zenon DEF IndInv
<1>14. ASSUME NEW w \in Waiters, Dispatch(w) PROVE IndInv'
  <2>1. TypeOK'
    BY <1>14, NoWaiterAssumption DEF Dispatch, schedule_selected, selected_schedules, IndInv, WakeInv, ScheduledIsSuspended, DispatchInv
  <2>2. LocationInv' /\ SectionInv'
    BY <1>14 DEF Dispatch, schedule_selected, selected_schedules, IndInv, LocationInv, SectionInv, WakeInv, DispatchInv
  <2>3. QueueInv'
    BY <1>14 DEF Dispatch, schedule_selected, selected_schedules, IndInv, QueueInv, WakeInv, ScheduledIsSuspended, DispatchInv
  <2>4. GrantInv' /\ WakeInv'
    BY <1>14 DEF Dispatch, schedule_selected, selected_schedules, IndInv, LocationInv, GrantInv, WakeInv, ScheduledIsSuspended, DispatchInv
  <2>5. DispatchInv' /\ ScheduledIsSuspended'
    BY <1>14 DEF Dispatch, schedule_selected, selected_schedules, IndInv, GrantInv, WakeInv, DispatchInv, ScheduledIsSuspended
  <2>6. OneHolder' /\ NoStrandedWaiter'
    BY <1>14 DEF Dispatch, schedule_selected, selected_schedules, IndInv, LocationInv, DispatchInv, OneHolder, NoStrandedWaiter, Holds
  <2> QED BY <2>1, <2>2, <2>3, <2>4, <2>5, <2>6, Zenon DEF IndInv
<1>15. ASSUME NEW w \in Waiters, CancelSchedule(w) PROVE IndInv'
  <2>1. TypeOK'
    BY <1>15, NoWaiterAssumption DEF CancelSchedule, schedule_claimed, claimed_schedules, IndInv, WakeInv, ScheduledIsSuspended, DispatchInv
  <2>2. LocationInv' /\ SectionInv'
    BY <1>15 DEF CancelSchedule, schedule_claimed, claimed_schedules, IndInv, LocationInv, SectionInv, WakeInv, DispatchInv
  <2>3. QueueInv'
    BY <1>15 DEF CancelSchedule, schedule_claimed, claimed_schedules, IndInv, QueueInv, WakeInv, ScheduledIsSuspended, DispatchInv
  <2>4. GrantInv' /\ WakeInv'
    BY <1>15 DEF CancelSchedule, schedule_claimed, claimed_schedules, IndInv, LocationInv, GrantInv, WakeInv, ScheduledIsSuspended, DispatchInv
  <2>5. DispatchInv' /\ ScheduledIsSuspended'
    BY <1>15 DEF CancelSchedule, schedule_claimed, claimed_schedules, IndInv, GrantInv, WakeInv, DispatchInv, ScheduledIsSuspended
  <2>6. OneHolder' /\ NoStrandedWaiter'
    BY <1>15 DEF CancelSchedule, schedule_claimed, claimed_schedules, IndInv, WakeInv, OneHolder, NoStrandedWaiter, Holds
  <2> QED BY <2>1, <2>2, <2>3, <2>4, <2>5, <2>6, Zenon DEF IndInv
<1>16. CASE UNCHANGED vars
  <2> HIDE DEF was_cancelled, scheduling
  <2> QED
    BY <1>16
    DEF vars, IndInv, LocationInv, SectionInv, QueueInv, GrantInv, WakeInv,
        DispatchInv, ScheduledIsSuspended, OneHolder, NoStrandedWaiter, Holds
<1> QED
  BY Zenon, <1>1, <1>2, <1>3, <1>4, <1>5, <1>6, <1>7, <1>8, <1>9, <1>10, <1>11,
     <1>12, <1>13, <1>14, <1>15, <1>16, EnqueueInv, SuspendClaimInv,
     SuspendPublishInv, SuspendUnblockInv, AwaitResumeInv, UnlinkInv,
     HandoffInv, CancelInv, DestroyInv
  DEF Next, Run

(* IndInv holds in every reachable state, for any set of lock operations. *)
THEOREM IndInvHolds == Spec => []IndInv
  BY InitInv, NextInv, PTL DEF Spec

(* The types, and with them that unlock(), cancellation and destruction     *)
(* together put a handle into the scheduler's queues at most once.          *)
THEOREM TypeCorrect == Spec => []TypeOK
<1>1. IndInv => TypeOK
  BY Zenon DEF IndInv
<1> QED BY <1>1, IndInvHolds, PTL

(* state_ is held exactly while one lock operation answers for the lock. *)
THEOREM MutualExclusion == Spec => []OneHolder
<1>1. IndInv => OneHolder
  BY Zenon DEF IndInv
<1> QED BY <1>1, IndInvHolds, PTL

(* No lock operation is queued while the lock is free. *)
THEOREM NobodyStranded == Spec => []NoStrandedWaiter
<1>1. IndInv => NoStrandedWaiter
  BY Zenon DEF IndInv
<1> QED BY <1>1, IndInvHolds, PTL

(* Only suspended, living frames are in the scheduler's queues. *)
THEOREM ResumptionIsSafe == Spec => []ScheduledIsSuspended
<1>1. IndInv => ScheduledIsSuspended
  BY Zenon DEF IndInv
<1> QED BY <1>1, IndInvHolds, PTL

-----------------------------------------------------------------------------
(* At first the lock is the permit nobody owns. *)
LEMMA PoolInit == Init => Pool!Init
<1> SUFFICES ASSUME Init PROVE Pool!Init
  BY Zenon
<1>1. \A w \in Waiters : ~Holds(w)
  BY DEF Init, Holds
<1> QED BY <1>1 DEF Init, Pool!Init

INSTANCE FiniteSetTheorems

(* The pool counts sets as usual. *)
LEMMA PoolCounts ==
    /\ Pool!Cardinality({}) = 0
    /\ \A x : Pool!Cardinality({x}) = 1
<1>1. \A S : Pool!Cardinality(S) = Cardinality(S)
  BY Zenon DEF Pool!Cardinality, Cardinality
<1> QED BY <1>1, FS_EmptySet, FS_Singleton, Zenon

(* Whoever gives the lock to whom, it is a step of a pool with one permit.  *)
LEMMA PoolStep == IndInv /\ IndInv' => [Pool!Next]_(Pool!vars)
<1> SUFFICES ASSUME IndInv, IndInv' PROVE Pool!Next
  BY Zenon
<1> DEFINE O == {w \in Waiters : Holds(w)}
           P == {w \in Waiters : Holds(w)'}
           Free(S) == IF S = {} THEN 1 ELSE 0
<1>1. /\ \A v, w \in O : v = w
      /\ state \in {"free", "held"} /\ (state = "held" <=> O # {})
  BY DEF IndInv, TypeOK, OneHolder
<1>2. /\ \A v, w \in P : v = w
      /\ state' \in {"free", "held"} /\ (state' = "held" <=> P # {})
  BY DEF IndInv, TypeOK, OneHolder
<1>3. /\ Free(P) = Free(O) + Pool!Cardinality(O \ P) - Pool!Cardinality(P \ O)
      /\ Pool!Cardinality(O \ P) \in {0, 1} /\ Pool!Cardinality(P \ O) \in {0, 1}
  <2> HIDE DEF O, P
  <2>1. CASE O = {} /\ P = {}
    <3>1. O \ P = {} /\ P \ O = {}
      BY <2>1, Zenon
    <3> QED BY <2>1, <3>1, PoolCounts
  <2>2. CASE O = {} /\ P # {}
    <3>1. PICK p : P = {p}
      BY <1>2, <2>2
    <3>2. O \ P = {} /\ P \ O = {p}
      BY <2>2, <3>1, Zenon
    <3> QED BY <2>2, <3>2, PoolCounts, SMTT(30)
  <2>3. CASE O # {} /\ P = {}
    <3>1. PICK o : O = {o}
      BY <1>1, <2>3
    <3>2. O \ P = {o} /\ P \ O = {}
      BY <2>3, <3>1, Zenon
    <3> QED BY <2>3, <3>2, PoolCounts
  <2>4. CASE O # {} /\ P # {}
    <3>1. PICK o, p : O = {o} /\ P = {p}
      BY <1>1, <1>2, <2>4
    <3>2. CASE o = p
      <4>1. O \ P = {} /\ P \ O = {}
        BY <3>1, <3>2, Zenon
      <4> QED BY <2>4, <4>1, PoolCounts
    <3>3. CASE o # p
      <4>1. O \ P = {o} /\ P \ O = {p}
        BY <3>1, <3>3
      <4>2. Pool!Cardinality(O \ P) = 1 /\ Pool!Cardinality(P \ O) = 1
        BY <4>1, PoolCounts, Zenon
      <4> QED BY <2>4, <4>2
    <3> QED BY <3>2, <3>3, Zenon
  <2> QED BY <2>1, <2>2, <2>3, <2>4, Zenon
<1>4. /\ Free(O) = IF state = "free" THEN 1 ELSE 0
      /\ Free(P) = IF state' = "free" THEN 1 ELSE 0
  BY <1>1, <1>2, Zenon
<1>5. Free(O) \in {0, 1} /\ Free(P) \in {0, 1}
  BY Zenon
<1> QED BY <1>3, <1>4, <1>5 DEF Pool!Next

(* The mutex implements a pool of one permit. *)
THEOREM MutexIsPool == Spec => ImplementsPool
  BY IndInvHolds, PoolInit, PoolStep, NextInv, PTL DEF Spec, ImplementsPool, Pool!Spec

=============================================================================
