------------------------------- MODULE Worker -------------------------------
(***************************************************************************)
(* runtime::worker_thread: the loop of one worker, the threads that submit *)
(* tasks and maintenance nodes to it, the eventfd wake-up they share, the  *)
(* transfer of inbox and overflow into the local deque, retirement, stop   *)
(* and the queue_size() snapshot.  The queues are what MpscQueue and       *)
(* ChaseLevDeque implement.  A task in "yielding" yields for ever.         *)
(***************************************************************************)
EXTENDS Naturals, Sequences, FiniteSets, SequencesExt

CONSTANTS Tasks,           \* coroutines submitted from other threads
          Yielding,        \* those that may yield instead of finishing
          Nodes,           \* owner_maintenance nodes
          InboxCapacity,   \* mpsc_queue::capacity
          Quantum          \* external_service_quantum_

VARIABLES
    yielding,                   \* the tasks that yield for ever in this behaviour
    inbox, overflow, deque,     \* inbox_, overflow_, queue_ (owner's end last)
    moving,                     \* the batch swapped out of overflow_
    overflow_size,              \* overflow_size_
    incoming, retry,            \* maintenance_incoming_, maintenance_retry_
    maintenance_count,
    schedule_mutex,             \* who is inside it
    transfer_mutex,             \* held by the worker or a reader
    running, draining,          \* running_, draining_
    shutdown,                   \* the scheduler itself is being stopped
    submission_wake_pending,    \* submission_wake_pending_
    notified,                   \* the eventfd is readable
    to_notify,                  \* request_stop or enter_draining_mode has to wake
    producer,                   \* where each submission is
    pc, ret,                    \* where the worker is, where drain_inbox returns to
    dispatched,                 \* tasks_executed_local_ % Quantum
    done,                       \* tasks that ran to their end or moved to another worker
    reader                      \* a queue_size() snapshot

queues      == <<inbox, overflow, deque, moving, overflow_size>>
maintenance == <<incoming, retry, maintenance_count>>
flags       == <<running, draining, shutdown, submission_wake_pending, notified, to_notify>>
control     == <<pc, ret, dispatched>>
state == <<queues, maintenance, schedule_mutex, transfer_mutex, flags, producer,
           control, done, reader>>
vars == <<yielding, state>>

Free == "free"
Submissions == Tasks \cup Nodes

Init ==
    /\ yielding \in SUBSET Yielding
    /\ inbox = <<>> /\ overflow = <<>> /\ deque = <<>> /\ moving = <<>>
    /\ overflow_size = 0
    /\ incoming = {} /\ retry = {} /\ maintenance_count = 0
    /\ schedule_mutex = Free
    /\ transfer_mutex = Free
    /\ running = TRUE
    /\ draining = FALSE
    /\ shutdown = FALSE
    /\ submission_wake_pending = FALSE
    /\ notified = FALSE
    /\ to_notify = FALSE
    /\ producer = [x \in Submissions |-> "new"]
    /\ pc = "loop" /\ ret = "loop" /\ dispatched = 0
    /\ done = {}
    /\ reader = [pc |-> "idle", total |-> 0, before |-> {}]

Pending == ToSet(inbox) \cup ToSet(overflow) \cup ToSet(moving) \cup ToSet(deque)

Goto(x, from, to) == producer[x] \in from /\ producer' = [producer EXCEPT ![x] = to]

-----------------------------------------------------------------------------
(* schedule(): under schedule_mutex_, which stays held until the wake. *)
try_push(t) ==
    /\ schedule_mutex = Free
    /\ \/ /\ ~running
          /\ Goto(t, {"new", "retry"}, "rejected")
          /\ UNCHANGED <<inbox, schedule_mutex>>
       \/ /\ running /\ Len(inbox) >= InboxCapacity
          /\ Goto(t, {"new"}, "retry")
          /\ UNCHANGED <<inbox, schedule_mutex>>
       \/ /\ running /\ Len(inbox) < InboxCapacity
          /\ Goto(t, {"new", "retry"}, "wake")
          /\ inbox' = Append(inbox, t)
          /\ schedule_mutex' = t
    /\ UNCHANGED <<overflow, deque, moving, overflow_size, maintenance, transfer_mutex,
                   flags, control, done, reader>>

(* After its retries it spills into the overflow queue, or cannot allocate. *)
Spill(t) ==
    /\ schedule_mutex = Free
    /\ \/ /\ Goto(t, {"retry"}, "rejected")
          /\ UNCHANGED <<overflow, overflow_size, schedule_mutex>>
       \/ /\ running
          /\ Goto(t, {"retry"}, "wake")
          /\ overflow' = Append(overflow, t)
          /\ overflow_size' = overflow_size + 1
          /\ schedule_mutex' = t
    /\ UNCHANGED <<inbox, deque, moving, maintenance, transfer_mutex, flags, control,
                   done, reader>>

submit_maintenance(n) ==
    /\ schedule_mutex = Free
    /\ \/ /\ ~running
          /\ Goto(n, {"new"}, "rejected")
          /\ UNCHANGED <<maintenance, schedule_mutex>>
       \/ /\ running
          /\ Goto(n, {"new"}, "wake")
          /\ maintenance_count' = maintenance_count + 1
          /\ incoming' = incoming \cup {n}
          /\ schedule_mutex' = n
          /\ UNCHANGED retry
    /\ UNCHANGED <<queues, transfer_mutex, flags, control, done, reader>>

(* wake_for_submission(): the first producer since the last reset notifies. *)
wake_for_submission(x) ==
    /\ Goto(x, {"wake"}, IF submission_wake_pending THEN "accepted" ELSE "notify")
    /\ submission_wake_pending' = TRUE
    /\ schedule_mutex' = IF submission_wake_pending THEN Free ELSE schedule_mutex
    /\ UNCHANGED <<queues, maintenance, transfer_mutex, running, draining, shutdown,
                   notified, to_notify, control, done, reader>>

Notify(x) ==
    /\ Goto(x, {"notify"}, "accepted")
    /\ notified' = TRUE
    /\ schedule_mutex' = Free
    /\ UNCHANGED <<queues, maintenance, transfer_mutex, running, draining, shutdown,
                   submission_wake_pending, to_notify, control, done, reader>>

(* request_stop() and enter_draining_mode(): a flag under the mutex ... *)
request_stop ==
    /\ schedule_mutex = Free /\ ~shutdown
    /\ shutdown' = TRUE
    /\ running' = FALSE
    /\ to_notify' = (to_notify \/ running)
    /\ UNCHANGED <<queues, maintenance, schedule_mutex, transfer_mutex, draining,
                   submission_wake_pending, notified, producer, control, done, reader>>

enter_draining_mode ==
    /\ schedule_mutex = Free /\ ~draining
    /\ draining' = TRUE
    /\ to_notify' = TRUE
    /\ UNCHANGED <<queues, maintenance, schedule_mutex, transfer_mutex, running, shutdown,
                   submission_wake_pending, notified, producer, control, done, reader>>

(* ... then a wake. *)
wake ==
    /\ to_notify
    /\ to_notify' = FALSE
    /\ notified' = TRUE
    /\ UNCHANGED <<queues, maintenance, schedule_mutex, transfer_mutex, running, draining,
                   shutdown, submission_wake_pending, producer, control, done, reader>>

-----------------------------------------------------------------------------
Worker(from, to) == pc = from /\ pc' = to /\ UNCHANGED <<ret, dispatched>>

has_external_submission == inbox # <<>> \/ overflow_size > 0 \/ incoming # {}

(* service_maintenance(): attempts either end or are put aside for later. *)
Service ==
    \E finished \in SUBSET (incoming \cup retry) :
        /\ retry' = (incoming \cup retry) \ finished
        /\ incoming' = {}
        /\ maintenance_count' = maintenance_count - Cardinality(finished)

(* The loop: after running_ was cleared the worker drains. *)
Loop ==
    /\ \/ running /\ Worker("loop", "mode") /\ Service
       \/ ~running /\ Worker("loop", "drain") /\ UNCHANGED maintenance
    /\ UNCHANGED <<queues, schedule_mutex, transfer_mutex, flags, producer, done, reader>>

(* Enter drain_inbox(), to continue at "then". *)
EnterTransfer(from, then) ==
    pc = from /\ pc' = "transfer" /\ ret' = then /\ UNCHANGED dispatched

Mode ==
    /\ IF draining THEN EnterTransfer("mode", "redistribute") ELSE Worker("mode", "next")
    /\ UNCHANGED <<queues, maintenance, schedule_mutex, transfer_mutex, flags, producer,
                   done, reader>>

(* Pop from the owner's end and run; a yield pushes the task back. *)
RunTask(then, atQuantum) ==
    /\ deque # <<>>
    /\ deque' = IF Last(deque) \in yielding THEN deque ELSE Front(deque)
    /\ done' = IF Last(deque) \in yielding THEN done ELSE done \cup {Last(deque)}
    /\ dispatched' = (dispatched + 1) % Quantum
    /\ pc' = IF (dispatched + 1) % Quantum = 0 THEN atQuantum ELSE then
    /\ UNCHANGED <<inbox, overflow, moving, overflow_size, ret>>

(* get_next_task(): the local deque, then the other queues, then idle. *)
NextTask ==
    /\ \/ pc \in {"next", "next2"} /\ RunTask("loop", "compete")
       \/ deque = <<>> /\ EnterTransfer("next", "next2") /\ UNCHANGED <<queues, done>>
       \/ deque = <<>> /\ Worker("next2", "idle") /\ UNCHANGED <<queues, done>>
    /\ UNCHANGED <<maintenance, schedule_mutex, transfer_mutex, flags, producer, reader>>

(* service_competing_work(), after every Quantum tasks. *)
Compete ==
    /\ IF has_external_submission THEN EnterTransfer("compete", "loop")
                                  ELSE Worker("compete", "loop")
    /\ UNCHANGED <<queues, maintenance, schedule_mutex, transfer_mutex, flags, producer,
                   done, reader>>

(* drain_inbox(): nothing to do, or take transfer_mutex_. *)
Transfer ==
    /\ \/ /\ inbox = <<>> /\ overflow_size = 0
          /\ Worker("transfer", ret)
          /\ UNCHANGED transfer_mutex
       \/ /\ inbox # <<>> \/ overflow_size > 0
          /\ transfer_mutex = Free
          /\ transfer_mutex' = "worker"
          /\ Worker("transfer", "inbox")
    /\ UNCHANGED <<queues, maintenance, schedule_mutex, flags, producer, done, reader>>

(* The inbox one by one, then the whole overflow queue. *)
PopInbox ==
    /\ \/ /\ inbox # <<>>
          /\ Worker("inbox", "inbox")
          /\ deque' = Append(deque, Head(inbox))
          /\ inbox' = Tail(inbox)
          /\ UNCHANGED <<overflow, moving>>
       \/ /\ inbox = <<>>
          /\ Worker("inbox", "moving")
          /\ moving' = overflow
          /\ overflow' = <<>>
          /\ UNCHANGED <<inbox, deque>>
    /\ UNCHANGED <<overflow_size, maintenance, schedule_mutex, transfer_mutex, flags,
                   producer, done, reader>>

(* The whole batch, then its account; queue_size() is kept out meanwhile. *)
PushMoved ==
    /\ Worker("moving", "account")
    /\ deque' = deque \o moving
    /\ moving' = <<>>
    /\ overflow_size' = overflow_size - Len(moving)
    /\ UNCHANGED <<inbox, overflow, maintenance, schedule_mutex, transfer_mutex, flags,
                   producer, done, reader>>

EndTransfer ==
    /\ Worker("account", ret)
    /\ transfer_mutex' = Free
    /\ UNCHANGED <<queues, maintenance, schedule_mutex, flags, producer, done, reader>>

(* Mutant of ResetWake: the flag is not cleared before the poll. *)
MutResetWake ==
    /\ Worker("idle", IF has_external_submission THEN "loop" ELSE "recheck")
    /\ UNCHANGED <<queues, maintenance, schedule_mutex, transfer_mutex, flags, producer,
                   done, reader>>

(* poll_io_when_idle(): give the wake back, look again, block. *)
ResetWake ==
    /\ Worker("idle", "recheck")
    /\ submission_wake_pending' = FALSE
    /\ UNCHANGED <<queues, maintenance, schedule_mutex, transfer_mutex, running, draining,
                   shutdown, notified, to_notify, producer, done, reader>>

Recheck ==
    /\ Worker("recheck", IF has_external_submission THEN "loop" ELSE "poll")
    /\ UNCHANGED <<queues, maintenance, schedule_mutex, transfer_mutex, flags, producer,
                   done, reader>>

(* The poll returns when it is notified or after its timeout. *)
Poll ==
    /\ Worker("poll", "loop")
    /\ notified' = FALSE
    /\ UNCHANGED <<queues, maintenance, schedule_mutex, transfer_mutex, running, draining,
                   shutdown, submission_wake_pending, to_notify, producer, done, reader>>

-----------------------------------------------------------------------------
(* run_or_redistribute_retiring_task(): another worker takes the newest     *)
(* task; when the whole scheduler is stopped it runs here.                  *)
HandOver ==
    /\ ~shutdown
    /\ deque # <<>>
    /\ deque' = Front(deque)
    /\ done' = done \cup {Last(deque)}
    /\ UNCHANGED <<inbox, overflow, moving, overflow_size>>

(* redistribute_tasks() of a draining worker stops when it is empty, when   *)
(* nobody takes the task, or after a quantum.                               *)
Redistribute ==
    /\ \/ Worker("redistribute", "redistribute") /\ HandOver
       \/ pc = "redistribute" /\ shutdown /\ RunTask("redistribute", "retire")
       \/ Worker("redistribute", "retire") /\ UNCHANGED <<queues, done>>
    /\ UNCHANGED <<maintenance, schedule_mutex, transfer_mutex, flags, producer, reader>>

(* It retires under the mutex, unless I/O or maintenance is pending. *)
Retire ==
    /\ \/ /\ schedule_mutex = Free /\ maintenance_count = 0
          /\ Worker("retire", "drain")
          /\ running' = FALSE
       \/ /\ Worker("retire", "idle")
          /\ UNCHANGED running
    /\ UNCHANGED <<queues, maintenance, schedule_mutex, transfer_mutex, draining, shutdown,
                   submission_wake_pending, notified, to_notify, producer, done, reader>>

(* Mutant of Drain: what arrived in the inbox meanwhile is not fetched. *)
MutDrain ==
    /\ Worker("drain", "drain2")
    /\ Service
    /\ UNCHANGED <<queues, schedule_mutex, transfer_mutex, flags, producer, done, reader>>

(* The drain phase after the loop, until nothing is left. *)
Drain ==
    /\ EnterTransfer("drain", "drain2")
    /\ Service
    /\ UNCHANGED <<queues, schedule_mutex, transfer_mutex, flags, producer, done, reader>>

DrainTask ==
    /\ \/ Worker("drain2", "drain") /\ HandOver
       \/ pc = "drain2" /\ shutdown /\ RunTask("drain", "drain")
       \/ ~shutdown /\ deque # <<>> /\ Worker("drain2", "drain") /\ UNCHANGED <<queues, done>>
       \/ deque = <<>> /\ Worker("drain2", "abandon") /\ UNCHANGED <<queues, done>>
    /\ UNCHANGED <<maintenance, schedule_mutex, transfer_mutex, flags, producer, reader>>

abandon_maintenance ==
    /\ Worker("abandon", "exited")
    /\ incoming' = {} /\ retry' = {}
    /\ maintenance_count' = maintenance_count - Cardinality(incoming \cup retry)
    /\ UNCHANGED <<queues, schedule_mutex, transfer_mutex, flags, producer, done, reader>>

(* Another worker, which saw running_ some time ago, steals the oldest task. *)
steal_task ==
    /\ deque # <<>>
    /\ deque' = Tail(deque)
    /\ done' = done \cup {Head(deque)}
    /\ UNCHANGED <<inbox, overflow, moving, overflow_size, maintenance, schedule_mutex,
                   transfer_mutex, flags, producer, control, reader>>

-----------------------------------------------------------------------------
(* queue_size(): a transfer in progress counts as work, else the queues are *)
(* read one after the other, under transfer_mutex_.                         *)
ReaderStep(from, to, total) ==
    /\ reader.pc = from
    /\ reader' = [reader EXCEPT !.pc = to, !.total = total]

queue_size ==
    /\ \/ /\ reader.pc = "idle"
          /\ reader' = [pc |-> IF transfer_mutex = Free THEN "deque" ELSE "read",
                        total |-> IF transfer_mutex = Free THEN 0 ELSE 1,
                        before |-> Pending]
          /\ transfer_mutex' = IF transfer_mutex = Free THEN "reader" ELSE transfer_mutex
       \/ ReaderStep("deque", "inbox", Len(deque)) /\ UNCHANGED transfer_mutex
       \/ ReaderStep("inbox", "overflow", reader.total + Len(inbox)) /\ UNCHANGED transfer_mutex
       \/ ReaderStep("overflow", "maintenance", reader.total + overflow_size)
          /\ UNCHANGED transfer_mutex
       \/ ReaderStep("maintenance", "read", reader.total + maintenance_count)
          /\ transfer_mutex' = Free
    /\ UNCHANGED <<queues, maintenance, schedule_mutex, flags, producer, control, done>>

Submit(x) ==
    \/ x \in Tasks /\ (try_push(x) \/ Spill(x))
    \/ x \in Nodes /\ submit_maintenance(x)
    \/ wake_for_submission(x)
    \/ Notify(x)

run ==
    \/ Loop \/ Mode \/ NextTask \/ Compete \/ Transfer \/ PopInbox \/ PushMoved
    \/ EndTransfer \/ ResetWake \/ Recheck \/ Poll \/ Redistribute \/ Retire \/ Drain
    \/ DrainTask \/ abandon_maintenance

Operate ==
    \/ \E x \in Submissions : Submit(x)
    \/ request_stop \/ enter_draining_mode \/ wake
    \/ run
    \/ steal_task
    \/ queue_size

Next == Operate /\ UNCHANGED yielding

(* The draining worker hands a task over and is not refused. *)
HandsOn == HandOver /\ (Redistribute \/ DrainTask)

(* The worker, its waker and readers run; a producer that holds the mutex   *)
(* goes on; a draining worker is not refused by the others for ever.        *)
Fairness ==
    /\ WF_state(run)
    /\ WF_state(wake)
    /\ WF_state(queue_size)
    /\ \A x \in Submissions : WF_state(wake_for_submission(x)) /\ WF_state(Notify(x))
    /\ SF_state(HandsOn)

Spec == Init /\ [][Next]_vars /\ Fairness

-----------------------------------------------------------------------------
(* The worker never blocks in the poll beside a submission unless the       *)
(* eventfd is readable or the submitting thread is about to write it: no    *)
(* submission has to wait for the poll's timeout.                           *)
NoLostWake ==
    /\ pc = "poll" /\ has_external_submission =>
        notified \/ \E x \in Submissions : producer[x] \in {"wake", "notify"}
    /\ pc = "poll" /\ ~running => notified \/ to_notify

(* A task that was accepted is never lost or doubled: it is in one queue,   *)
(* once, or done; and when the worker has exited, whatever raced with its   *)
(* stop, all are done and no maintenance node is left.                      *)
NothingLeftBehind ==
    /\ IsInjective(inbox \o overflow \o moving \o deque)
    /\ Pending \cap done = {}
    /\ \A t \in Tasks : producer[t] \in {"wake", "notify", "accepted"} => t \in Pending \cup done
    /\ pc = "exited" => Pending = {} /\ maintenance_count = 0 /\ incoming = {}

(* queue_size() never misses a task that was there from before it began     *)
(* until after it ended, although tasks move between the queues it reads.   *)
NoFalseIdle ==
    reader.pc = "read" /\ reader.total = 0 => reader.before \cap Pending = {}

(* A worker that was asked to stop, or that retired, has exited: nothing    *)
(* that is submitted, stolen or handed over keeps it, unless a task yields  *)
(* for ever.  And no task that was submitted from another thread is left in *)
(* the inbox or the overflow, even beside a task that keeps the worker busy *)
(* by yielding.                                                             *)
Served ==
    /\ ~running /\ yielding = {} => pc = "exited"
    /\ inbox \o overflow \o moving = <<>>

=============================================================================
