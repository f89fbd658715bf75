------------------------------ MODULE Channel ------------------------------
(***************************************************************************)
(* sync::channel: rendezvous (capacity 0), bounded or unbounded.  A waiter *)
(* is one send or receive operation; a sender sends itself as the value.   *)
(* Only receivers of a bounded channel work outside mutex_: they claim a   *)
(* position of the ring and publish the slot later, so the ring may be     *)
(* physically full while it is logically not.  Sections under mutex_ are   *)
(* one step, but for the two in which such a receiver may take a value     *)
(* between two looks at the ring: recv(token) that has found the ring not  *)
(* empty, and close() that empties it.                                     *)
(* The ring is what LockfreeRing implements: a queue of values from        *)
(* position "tail" on.                                                     *)
(***************************************************************************)
EXTENDS Waiter, FiniteSets, TLC

CONSTANTS Senders, Receivers,
          Capacities,  \* the capacities a channel is constructed with
          Unbounded,   \* the value of capacity_ that means no bound
          Modes,       \* what is called: "wait" (or try), "token" (or try_recv)
          TokenSends,  \* by how many senders at most in the second case
          None         \* no value

VARIABLES
    capacity,          \* capacity_, which never changes
    mode,              \* what is called in this behaviour
    queue,             \* queue_
    ring, tail,        \* the values in ring_ and the position of the first
    unpublished,       \* positions claimed by receivers, slot not yet reusable
    send_waiters, recv_waiters,
    closed,            \* closed_
    closing,           \* close() has set closed_ and not yet drained
    mutex,             \* who holds mutex_ for several steps: a receiver, close()
    success,           \* the senders whose value was accepted
    got,               \* what a receiver received
    at,                \* the position a receiver has claimed, 0 when none
    budget,            \* refill_budget of a receiver
    token_cancelled,   \* the receivers whose token was cancelled (they go round)
    immune             \* receivers that consume a notification (no token)

buffer == <<queue, ring, tail, unpublished>>
lists  == <<send_waiters, recv_waiters>>
shut   == <<closed, closing, mutex>>
local  == <<success, got, at, budget, token_cancelled, immune>>
state  == <<buffer, lists, shut, local, waiterVars>>
vars   == <<capacity, mode, state>>

IsBounded    == capacity # 0 /\ capacity # Unbounded
IsUnbounded  == capacity = Unbounded
IsRendezvous == capacity = 0

(* The number of slots: the capacity, at least 2, rounded to a power of 2. *)
RingSize ==
    CHOOSE n \in {2^k : k \in 1..8} :
        n >= capacity /\ \A m \in {2^k : k \in 1..8} : m >= capacity => n <= m

Init ==
    /\ capacity \in Capacities
    /\ mode \in Modes
    /\ queue = <<>>
    /\ ring = <<>>
    /\ tail = 0
    /\ unpublished = {}
    /\ send_waiters = <<>>
    /\ recv_waiters = <<>>
    /\ closed = FALSE
    /\ closing = FALSE
    /\ mutex = None
    /\ success = {}
    /\ got = [r \in Receivers |-> None]
    /\ at = [r \in Receivers |-> 0]
    /\ budget = [r \in Receivers |-> 0]
    /\ token_cancelled = {}
    /\ immune = {}
    /\ WaiterInit

(* mutex_ can be taken. *)
Free == mutex = None

(* The slot of the next push has been given back by its last receiver. *)
can_push ==
    LET last == tail + Len(ring) - RingSize
    IN  last < tail /\ last \notin unpublished

HasRoom == Len(ring) < capacity /\ can_push

(* A sender need not wait. *)
CanAccept ==
    \/ IsUnbounded
    \/ IsBounded /\ HasRoom
    \/ IsRendezvous /\ Claimed(recv_waiters) # {}

(* Values enter the channel, and waiters are taken from the queues. *)
Accept(values) ==
    IF IsBounded THEN ring' = ring \o values /\ UNCHANGED <<queue, tail, unpublished>>
                 ELSE queue' = queue \o values /\ UNCHANGED <<ring, tail, unpublished>>

Select(selected, wk) ==
    /\ to_schedule' = to_schedule \cup selected
    /\ wake' = [v \in Waiters |-> IF v \in selected THEN claim(v) ELSE wk[v]]

-----------------------------------------------------------------------------
(* A push, if the channel takes the value now, wakes one receiver.          *)
(* "then" and "else" are where the sender goes on.                          *)
Push(s, from, then, else, wk) ==
    /\ pc[s] = from /\ Free
    /\ \/ /\ CanAccept
          /\ Step(s, from, then)
          /\ Accept(<<s>>)
          /\ success' = success \cup {s}
          /\ Select(Claimed(recv_waiters), wk)
          /\ recv_waiters' = Rest(recv_waiters)
       \/ /\ ~CanAccept
          /\ Step(s, from, else)
          /\ recv_waiters' = IF IsRendezvous THEN <<>> ELSE recv_waiters
          /\ UNCHANGED <<buffer, success, wake, to_schedule>>
    /\ UNCHANGED <<send_waiters, shut, got, at, budget, token_cancelled, immune,
                   cancellable, cancelling, scheduled>>

try_send(s) ==
    \/ ~closed /\ Push(s, "start", "completed", "refused", wake)
    \/ /\ closed
       /\ Step(s, "start", "refused")
       /\ UNCHANGED <<buffer, lists, shut, local, cancellable, wake, queues>>

Begin(w, with_token) ==
    BeginWait(w, with_token) /\ UNCHANGED <<buffer, lists, shut, local>>

(* send() tries before it waits, unless it has to meet a receiver;          *)
(* send(token) begins with await_ready.                                     *)
send(s) ==
    \/ /\ s \notin cancellable /\ ~closed /\ ~IsRendezvous
       /\ Push(s, "ready", "completed", "suspend", wake)
    \/ /\ s \in cancellable \/ closed \/ IsRendezvous
       /\ Step(s, "ready", IF s \in cancellable
                           THEN IF was_cancelled(wake[s]) THEN "resume" ELSE "suspend"
                           ELSE IF closed THEN "refused" ELSE "suspend")
       /\ UNCHANGED <<buffer, lists, shut, local, cancellable, wake, queues>>

Claiming(w) == IF w \in cancellable THEN claim_notification(wake[w]) ELSE wake[w]

(* await_suspend of a sender: closed or cancelled, accepted after all,      *)
(* cancelled after it has selected a receiver, or enqueued.                 *)
SuspendSender(s) ==
    \/ /\ Step(s, "suspend", "resume")
       /\ Free /\ (closed \/ was_cancelled(wake[s]))
       /\ wake' = [wake EXCEPT ![s] = Claiming(s)]
       /\ UNCHANGED <<buffer, lists, shut, local, cancellable, queues>>
    \/ /\ pc[s] = "suspend" /\ ~closed /\ ~was_cancelled(wake[s]) /\ CanAccept
       /\ Push(s, "suspend", "resume", "resume", [wake EXCEPT ![s] = Claiming(s)])
    \/ /\ Step(s, "suspend", "resume")
       /\ Free /\ ~closed /\ ~was_cancelled(wake[s]) /\ CanAccept
       /\ IsRendezvous /\ s \in cancellable
       /\ Select(Claimed(recv_waiters), [wake EXCEPT ![s] = "cancelled_inline"])
       /\ recv_waiters' = Rest(recv_waiters)
       /\ UNCHANGED <<buffer, send_waiters, shut, local, cancellable, cancelling,
                      scheduled>>
    \/ /\ Step(s, "suspend", "unblock")
       /\ Free /\ ~closed /\ ~was_cancelled(wake[s]) /\ ~CanAccept
       /\ wake' = [wake EXCEPT ![s] = set_handle_blocked(@)]
       /\ send_waiters' = push_back(send_waiters, s)
       /\ recv_waiters' = IF IsRendezvous THEN <<>> ELSE recv_waiters
       /\ UNCHANGED <<buffer, shut, local, cancellable, queues>>

(* Mutant of Unblock: it suspends although the window was lost. *)
MutUnblock(w) ==
    /\ Step(w, "unblock", "suspended")
    /\ wake' = [wake EXCEPT ![w] = unblock_after_publish(@)]
    /\ UNCHANGED <<buffer, lists, shut, local, cancellable, queues>>

(* The end of the publication window of a sender or a receiver. *)
Unblock(w) ==
    /\ \/ /\ Step(w, "unblock", "suspended")
          /\ wake[w] = "blocked"
          /\ wake' = [wake EXCEPT ![w] = unblock_after_publish(@)]
          /\ UNCHANGED lists
       \/ /\ Step(w, "unblock", "resume")
          /\ Free /\ wake[w] # "blocked"
          /\ send_waiters' = remove(send_waiters, w)
          /\ recv_waiters' = remove(recv_waiters, w)
          /\ UNCHANGED wake
    /\ UNCHANGED <<buffer, shut, local, cancellable, queues>>

(* await_resume of a sender. *)
ResumeSender(s) ==
    /\ pc[s] = "resume" /\ Unregistered(s)
    /\ is_linked(send_waiters, s) => Free
    /\ Step(s, "resume", IF was_cancelled(wake[s]) THEN "cancelled"
                         ELSE IF s \in success THEN "completed" ELSE "refused")
    /\ send_waiters' = IF was_cancelled(wake[s]) THEN remove(send_waiters, s)
                                                 ELSE send_waiters
    /\ UNCHANGED <<buffer, recv_waiters, shut, local, cancellable, wake, queues>>

-----------------------------------------------------------------------------
(* Where a receiver ends. *)
Result(value) == IF value = None THEN "refused" ELSE "completed"

(* A receiver outside the lock claims the first position of the ring. *)
ClaimPosition(r, from) ==
    /\ ring # <<>>
    /\ Step(r, from, "publish")
    /\ got' = [got EXCEPT ![r] = Head(ring)]
    /\ at' = [at EXCEPT ![r] = tail]
    /\ ring' = Tail(ring)
    /\ tail' = tail + 1
    /\ unpublished' = unpublished \cup {tail}
    /\ UNCHANGED <<queue, lists, shut, success, budget, token_cancelled, immune,
                   cancellable, wake, queues>>

(* It has moved the value out and gives the slot back. *)
Publish(r) ==
    /\ Step(r, "publish", "refill")
    /\ unpublished' = unpublished \ {at[r]}
    /\ at' = [at EXCEPT ![r] = 0]
    /\ UNCHANGED <<queue, ring, tail, lists, shut, success, got, budget, token_cancelled,
                   immune, cancellable, wake, queues>>

(* refill_senders_after_pop: a snapshot of the room there is ... *)
refill(r) ==
    /\ Free
    /\ Step(r, "refill", IF send_waiters = <<>> \/ Len(ring) >= capacity
                         THEN Result(got[r]) ELSE "refilling")
    /\ budget' = [budget EXCEPT ![r] = IF send_waiters # <<>> /\ Len(ring) < capacity
                                       THEN capacity - Len(ring) ELSE 0]
    /\ UNCHANGED <<buffer, lists, shut, success, got, at, token_cancelled, immune,
                   cancellable, wake, queues>>

(* ... and one waiting sender after the other enters the ring. *)
RefillOne(r) ==
    /\ pc[r] = "refilling" /\ Free
    /\ budget' = [budget EXCEPT ![r] = IF @ > 0 THEN @ - 1 ELSE 0]
    /\ \/ /\ budget[r] = 0 \/ ~HasRoom
          /\ Step(r, "refilling", Result(got[r]))
          /\ UNCHANGED <<buffer, lists, success, wake, to_schedule>>
       \/ /\ budget[r] > 0 /\ HasRoom /\ Claimed(send_waiters) = {}
          /\ Step(r, "refilling", Result(got[r]))
          /\ send_waiters' = <<>>
          /\ UNCHANGED <<buffer, recv_waiters, success, wake, to_schedule>>
       \/ \E s \in Claimed(send_waiters) :
          /\ budget[r] > 0 /\ HasRoom
          /\ Step(r, "refilling", "refilling")
          /\ Accept(<<s>>)
          /\ success' = success \cup {s}
          /\ Select({s} \cup Claimed(recv_waiters), wake)
          /\ send_waiters' = Rest(send_waiters)
          /\ recv_waiters' = Rest(recv_waiters)
    /\ UNCHANGED <<shut, got, at, token_cancelled, immune, cancellable, cancelling,
                   scheduled>>

(* The value a receiver takes under the lock: from the ring or the queue,   *)
(* else from a waiting sender, else what close() left in the queue.         *)
TakeLocked(r, from, refillTo, wk) ==
    /\ pc[r] = from /\ Free
    /\ \/ /\ IsBounded /\ ring # <<>>
          /\ got' = [got EXCEPT ![r] = Head(ring)]
          /\ ring' = Tail(ring)
          /\ tail' = tail + 1
          /\ Step(r, from, refillTo)
          /\ wake' = wk
          /\ UNCHANGED <<queue, send_waiters, success, to_schedule>>
       \/ /\ queue # <<>> /\ (IsBounded => ring = <<>> /\ Claimed(send_waiters) = {} /\ closed)
          /\ got' = [got EXCEPT ![r] = Head(queue)]
          /\ queue' = Tail(queue)
          /\ Step(r, from, "completed")
          /\ wake' = wk
          /\ UNCHANGED <<ring, tail, send_waiters, success, to_schedule>>
       \/ \E s \in Claimed(send_waiters) :
          /\ IF IsBounded THEN ring = <<>> ELSE queue = <<>>
          /\ got' = [got EXCEPT ![r] = s]
          /\ success' = success \cup {s}
          /\ Select({s}, wk)
          /\ send_waiters' = Rest(send_waiters)
          /\ Step(r, from, "completed")
          /\ UNCHANGED <<queue, ring, tail>>
    /\ UNCHANGED <<unpublished, recv_waiters, shut, at, budget, token_cancelled,
                   immune, cancellable, cancelling, scheduled>>

(* There is a value for a receiver. *)
CanTake ==
    \/ ring # <<>>
    \/ Claimed(send_waiters) # {}
    \/ queue # <<>> /\ (IsBounded => closed)

(* try_recv() outside the lock, or under it. *)
try_recv(r) ==
    \/ IsBounded /\ ClaimPosition(r, "start")
    \/ IsBounded /\ ring = <<>> /\ closed /\ queue # <<>>
       /\ TakeLocked(r, "start", "refill", wake)
    \/ ~IsBounded /\ TakeLocked(r, "start", "completed", wake)
    \/ /\ Step(r, "start", "refused")
       /\ IF IsBounded THEN ring = <<>> /\ (queue = <<>> \/ ~closed) ELSE ~CanTake
       /\ (IsBounded /\ ~closed) \/ Free
       /\ send_waiters' = IF IsRendezvous THEN <<>> ELSE send_waiters
       /\ UNCHANGED <<buffer, recv_waiters, shut, local, cancellable, wake, queues>>

(* recv() on a bounded channel looks into the ring before it locks. *)
recv(r) ==
    /\ r \notin cancellable
    /\ \/ IsBounded /\ ClaimPosition(r, "ready")
       \/ /\ ring = <<>>
          /\ Step(r, "ready", "locked")
          /\ UNCHANGED <<buffer, lists, shut, local, cancellable, wake, queues>>

RecvLocked(r) ==
    \/ TakeLocked(r, "locked", "refill", wake)
    \/ /\ Step(r, "locked", IF closed THEN "refused" ELSE "suspend")
       /\ Free /\ ~CanTake
       /\ send_waiters' = <<>>
       /\ UNCHANGED <<buffer, recv_waiters, shut, local, cancellable, wake, queues>>

(* A new awaiter: a token that was cancelled cancels it at once. *)
Fresh(r) == IF r \in token_cancelled THEN "cancelled_inline" ELSE "idle"

(* The turn was for nothing: recv(token) goes round with a new awaiter. *)
Retry(r, from) ==
    /\ Step(r, from, "ready")
    /\ wake' = [wake EXCEPT ![r] = Fresh(r)]
    /\ immune' = immune \ {r}
    /\ UNCHANGED <<buffer, recv_waiters, success, got, at, budget, token_cancelled,
                   cancellable, queues>>

(* One turn of recv(token) under the lock. *)
RecvToken(r) ==
    /\ pc[r] = "ready" /\ r \in cancellable /\ Free
    /\ LET offered == ring # <<>> \/ send_waiters # <<>> \/ queue # <<>> \/ closed
       IN  \/ /\ offered /\ was_cancelled(wake[r])
              /\ Step(r, "ready", "cancelled")
              /\ UNCHANGED <<buffer, lists, shut, local, cancellable, wake, queues>>
           \/ /\ ~was_cancelled(wake[r]) /\ ring # <<>>
              /\ Step(r, "ready", "popping")
              /\ wake' = [wake EXCEPT ![r] = claim_notification(@)]
              /\ mutex' = r
              /\ UNCHANGED <<buffer, lists, closed, closing, local, cancellable, queues>>
           \/ /\ ~was_cancelled(wake[r]) /\ ring = <<>>
              /\ TakeLocked(r, "ready", "completed", [wake EXCEPT ![r] = claim_notification(@)])
           \/ /\ ~was_cancelled(wake[r]) /\ ~CanTake /\ send_waiters # <<>>
              /\ Retry(r, "ready")
              /\ send_waiters' = <<>>
              /\ UNCHANGED shut
           \/ /\ ~was_cancelled(wake[r]) /\ ~CanTake /\ send_waiters = <<>> /\ closed
              /\ Step(r, "ready", "refused")
              /\ UNCHANGED <<buffer, lists, shut, local, cancellable, wake, queues>>
           \/ /\ ~offered /\ r \in immune
              /\ Retry(r, "ready")
              /\ UNCHANGED <<send_waiters, shut>>
           \/ /\ ~offered /\ r \notin immune
              /\ Step(r, "ready", IF was_cancelled(wake[r]) THEN "resume" ELSE "suspend")
              /\ UNCHANGED <<buffer, lists, shut, local, cancellable, wake, queues>>

(* It pops the ring, which a receiver outside the lock may have emptied     *)
(* since.                                                                   *)
PopLocked(r) ==
    /\ mutex = r
    /\ mutex' = None
    /\ \/ /\ ring # <<>>
          /\ Step(r, "popping", IF send_waiters = <<>> THEN "completed" ELSE "refill")
          /\ got' = [got EXCEPT ![r] = Head(ring)]
          /\ ring' = Tail(ring)
          /\ tail' = tail + 1
          /\ UNCHANGED <<queue, unpublished, recv_waiters, success, at, budget,
                         token_cancelled, immune, cancellable, wake, queues>>
       \/ ring = <<>> /\ Retry(r, "popping")
    /\ UNCHANGED <<send_waiters, closed, closing>>

(* await_suspend of a receiver: something came up, cancelled, or enqueued. *)
SuspendReceiver(r) ==
    LET offered == \/ closed
                   \/ IF IsBounded THEN ring # <<>> \/ send_waiters # <<>>
                      ELSE queue # <<>> \/ (IsRendezvous /\ send_waiters # <<>>)
    IN  /\ pc[r] = "suspend" /\ Free
        /\ \/ /\ offered \/ was_cancelled(wake[r])
              /\ Step(r, "suspend", "resume")
              /\ wake' = [wake EXCEPT ![r] = IF offered THEN Claiming(r) ELSE @]
              /\ UNCHANGED recv_waiters
           \/ /\ ~offered /\ ~was_cancelled(wake[r])
              /\ Step(r, "suspend", "unblock")
              /\ wake' = [wake EXCEPT ![r] = set_handle_blocked(@)]
              /\ recv_waiters' = push_back(recv_waiters, r)
        /\ UNCHANGED <<buffer, send_waiters, shut, local, cancellable, queues>>

(* await_resume of a receiver, which goes round with a new awaiter (a       *)
(* notifier that still holds the old one finds nothing to schedule); with a *)
(* token it consumes the notification first.                                *)
ResumeReceiver(r) ==
    /\ pc[r] = "resume" /\ Unregistered(r)
    /\ is_linked(recv_waiters, r) => Free
    /\ \/ /\ was_cancelled(wake[r])
          /\ Step(r, "resume", "cancelled")
          /\ recv_waiters' = remove(recv_waiters, r)
          /\ UNCHANGED <<wake, to_schedule, immune>>
       \/ /\ ~was_cancelled(wake[r])
          /\ Step(r, "resume", "ready")
          /\ wake' = [wake EXCEPT ![r] = "idle"]
          /\ to_schedule' = to_schedule \ {r}
          /\ immune' = IF r \in cancellable THEN immune \cup {r} ELSE immune
          /\ UNCHANGED recv_waiters
    /\ UNCHANGED <<buffer, send_waiters, shut, success, got, at, budget,
                   token_cancelled, cancellable, cancelling, scheduled>>

-----------------------------------------------------------------------------
(* close(): the flag first ... *)
close ==
    /\ ~closed
    /\ closed' = TRUE
    /\ closing' = TRUE
    /\ UNCHANGED <<mutex, buffer, lists, local, waiterVars>>

ClaimableOf(list) == SelectSeq(list, Claimable)

(* ... then, under the lock, what is in the ring goes into the queue, value *)
(* by value, beside receivers that pop the ring themselves ...              *)
DrainRing ==
    /\ closing /\ mutex \in {None, "close"} /\ ring # <<>>
    /\ mutex' = "close"
    /\ queue' = Append(queue, Head(ring))
    /\ ring' = Tail(ring)
    /\ tail' = tail + 1
    /\ UNCHANGED <<unpublished, lists, closed, closing, local, waiterVars>>

(* Mutant of Drain: the senders that wait overtake what was in the ring. *)
MutDrainOrder ==
    LET senders == ClaimableOf(send_waiters)
    IN  /\ closing /\ mutex \in {None, "close"} /\ ring = <<>>
        /\ closing' = FALSE
        /\ mutex' = None
        /\ queue' = senders \o queue
        /\ success' = success \cup {s \in Senders : is_linked(senders, s)}
        /\ Select({w \in Waiters : is_linked(senders \o ClaimableOf(recv_waiters), w)}, wake)
        /\ send_waiters' = <<>>
        /\ recv_waiters' = <<>>
        /\ UNCHANGED <<ring, tail, unpublished, closed, got, at, budget, token_cancelled,
                       immune, cancellable, cancelling, scheduled, pc>>

(* ... then what the waiting senders hold, and everybody is woken. *)
Drain ==
    LET senders == ClaimableOf(send_waiters)
    IN  /\ closing /\ mutex \in {None, "close"} /\ ring = <<>>
        /\ closing' = FALSE
        /\ mutex' = None
        /\ queue' = queue \o senders
        /\ success' = success \cup {s \in Senders : is_linked(senders, s)}
        /\ Select({w \in Waiters : is_linked(senders \o ClaimableOf(recv_waiters), w)}, wake)
        /\ send_waiters' = <<>>
        /\ recv_waiters' = <<>>
        /\ UNCHANGED <<ring, tail, unpublished, closed, got, at, budget, token_cancelled,
                       immune, cancellable, cancelling, scheduled, pc>>

(* Scheduling a selected waiter; when the frame of a selected receiver is   *)
(* gone the notification goes to the next (schedule_receiver_or_retry).     *)
Dispatch(v) ==
    \/ /\ ~(v \in Receivers /\ wake[v] = "abandoned")
       /\ ScheduleSelected(v)
       /\ UNCHANGED <<buffer, lists, shut, local>>
    \/ /\ v \in Receivers /\ wake[v] = "abandoned" /\ v \in to_schedule /\ Free
       /\ to_schedule' = (to_schedule \ {v}) \cup Claimed(recv_waiters)
       /\ wake' = [w \in Waiters |->
                     IF w \in Claimed(recv_waiters) THEN claim(w) ELSE wake[w]]
       /\ recv_waiters' = Rest(recv_waiters)
       /\ UNCHANGED <<buffer, send_waiters, shut, local, cancellable, cancelling,
                      scheduled, pc>>

Resume(w) == ResumeHandle(w) /\ UNCHANGED <<buffer, lists, shut, local>>

(* The token is cancelled; a receiver that consumes a notification does not *)
(* listen.                                                                  *)
Cancel(w) ==
    /\ w \in cancellable \ token_cancelled
    /\ pc[w] \notin {"start"} \cup Ends
    /\ w \in Senders => request_cancel(wake[w]) # wake[w]
    /\ token_cancelled' = token_cancelled \cup ({w} \cap Receivers)
    /\ IF w \in immune
       THEN UNCHANGED <<wake, cancelling>>
       ELSE /\ wake' = [wake EXCEPT ![w] = request_cancel(@)]
            /\ cancelling' = IF wake[w] = "waiting" THEN cancelling \cup {w} ELSE cancelling
    /\ UNCHANGED <<buffer, lists, shut, success, got, at, budget, immune, cancellable,
                   to_schedule, scheduled, pc>>

CancelSchedule(w) == ScheduleClaimed(w) /\ UNCHANGED <<buffer, lists, shut, local>>

(* The destructor of the awaiter of a suspended frame that scheduling does  *)
(* not own yet.                                                             *)
Destroy(w) ==
    /\ MayBeDestroyed(w) /\ Free
    /\ Step(w, "suspended", "destroyed")
    /\ send_waiters' = remove(send_waiters, w)
    /\ recv_waiters' = remove(recv_waiters, w)
    /\ wake' = [wake EXCEPT ![w] = abandon(@)]
    /\ UNCHANGED <<buffer, shut, local, cancellable, queues>>

RunSender(s) == send(s) \/ SuspendSender(s) \/ Unblock(s) \/ Resume(s) \/ ResumeSender(s)

RunReceiver(r) ==
    \/ recv(r)      \/ RecvLocked(r) \/ RecvToken(r) \/ PopLocked(r)       \/ Publish(r)
    \/ refill(r)    \/ RefillOne(r)  \/ Unblock(r)   \/ SuspendReceiver(r) \/ Resume(r)
    \/ ResumeReceiver(r)

(* Bounds: which calls are made in one behaviour, and how many senders have *)
(* tokens.                                                                  *)
Call ==
    \/ mode = "wait" /\ \E w \in Waiters : Begin(w, FALSE)
    \/ mode = "wait" /\ \E s \in Senders : try_send(s)
    \/ mode = "token" /\ \E w \in Waiters :
            /\ w \in Senders => Cardinality(Senders \cap cancellable) < TokenSends
            /\ Begin(w, TRUE)
    \/ \E r \in Receivers : try_recv(r)

Operate ==
    \/ Call
    \/ close
    \/ DrainRing \/ Drain
    \/ \E s \in Senders : RunSender(s)
    \/ \E r \in Receivers : RunReceiver(r)
    \/ \E w \in Waiters :
        \/ Dispatch(w)
        \/ Cancel(w)
        \/ CancelSchedule(w)
        \/ Destroy(w)

Next == Operate /\ UNCHANGED <<capacity, mode>>

(* Operations, callbacks and close() run to their end; the scheduler        *)
(* resumes.                                                                 *)
Fairness ==
    /\ WF_state(DrainRing \/ Drain)
    /\ \A s \in Senders : WF_state(RunSender(s))
    /\ \A r \in Receivers : WF_state(RunReceiver(r))
    /\ \A w \in Waiters : WF_state(Dispatch(w)) /\ WF_state(CancelSchedule(w))

Spec == Init /\ [][Next]_vars /\ Fairness

(* Operations of one kind are interchangeable where only safety is asked. *)
Symmetry == Permutations(Senders) \cup Permutations(Receivers)
SafeSpec == Init /\ [][Next]_vars

-----------------------------------------------------------------------------
items == queue \o ring
taken == [s \in Senders |-> Cardinality({r \in Receivers : got[r] = s})]

Values == INSTANCE Fifo WITH Values <- Senders

(* A receiver outside the lock pops the ring while close() has moved older  *)
(* values from it into the queue.                                           *)
Overtakes ==
    /\ mutex = "close" /\ queue # <<>> /\ ring # <<>>
    /\ items' = queue \o Tail(ring)
    /\ taken' = [taken EXCEPT ![Head(ring)] = @ + 1]

(* The channel is a queue: whatever path a value takes (ring, queue, direct *)
(* handoff, refill, drain by close), values are received in the order they  *)
(* were accepted, each by one receiver, and none is lost.  The one          *)
(* exception is close() of a bounded channel: a receiver that pops the ring *)
(* beside it overtakes the values it has already moved.                     *)
FifoButForClose == Values!Init /\ [][Values!Next \/ Overtakes]_<<items, taken>>

(* The result an operation reports is what happened to the value: a         *)
(* cancelled or refused send has not transferred it, a completed one has;   *)
(* a cancelled receive has consumed nothing.  What was accepted fits: a     *)
(* bounded channel never holds more than its capacity, and has an overflow  *)
(* queue only after it was closed.                                          *)
ResultsAreHonest ==
    /\ IsBounded => Len(ring) <= capacity /\ (~closed => queue = <<>>)
    /\ \A s \in Senders :
        LET accepted == is_linked(items, s) \/ taken[s] > 0
        IN  /\ pc[s] \in {"cancelled", "refused"} => ~accepted
            /\ pc[s] = "completed" => accepted
    /\ \A r \in Receivers : pc[r] = "cancelled" => got[r] = None

(* A sender waits beside room in the ring only as long as a receiver has a  *)
(* slot to give back or is refilling: however late and in whatever order    *)
(* slots are given back, the last one continues what the others stopped.    *)
RoomIsOffered ==
    (\E s \in Senders : pc[s] = "suspended" /\ is_linked(send_waiters, s) /\ Claimable(s)) =>
        \/ ~IsBounded \/ closed \/ Len(ring) >= capacity
        \/ \E r \in Receivers : pc[r] \in {"publish", "refill", "refilling"}

(* Whoever is selected while suspended is woken, no node or handle of a     *)
(* finished or destroyed frame is queued or scheduled, and room is offered. *)
WakesAreExact ==
    LET waiting == send_waiters \o recv_waiters
    IN  WakeIsComing(waiting) /\ OnlyLivingFrames(waiting) /\ RoomIsOffered

(* No receiver waits beside a value, no sender beside room in the ring or a *)
(* waiting receiver, and nobody on a closed channel.                        *)
Served ==
    LET waiting(S) == \E w \in S : pc[w] = "suspended"
    IN  /\ waiting(Receivers) => items = <<>> /\ ~closed
        /\ waiting(Senders) =>
             /\ ~closed /\ ~waiting(Receivers)
             /\ IsBounded => Len(ring) >= capacity

=============================================================================
