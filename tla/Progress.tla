------------------------------ MODULE Progress ------------------------------
(***************************************************************************)
(* Liveness.  The parts of the library that promise that something happens *)
(* in the end, side by side, with the fairness their scheduling justifies: *)
(* synchronisation primitives, channel, cancellation, task groups, join    *)
(* handles, a worker, the scheduler, the blocking pool, the autoscaler,    *)
(* sockets, an HTTP connection, a WebSocket with heartbeat and the SSE     *)
(* client.  A behaviour uses one part, "used", and x1, x2, ... hold the    *)
(* variables of that part in the order of its module.  Constants of the    *)
(* halves of a module that are not used here are empty.                    *)
(***************************************************************************)
EXTENDS Naturals, FiniteSets

CONSTANTS
    Waiters, NoWaiter, NoOwner,                   \* of Mutex, ConditionVariable,
    InitialCount, MaxCount, MaxReleased,          \*   Event and Semaphore
    Ops, Readers, TryOps, WaitOps, TokenOps, NoSharedOp,   \* of SharedMutex
    Senders, Receivers, Capacities, Unbounded, Modes, NoChannelValue,   \* of Channel
    Threads, Sources, Callbacks,                  \* of CancelToken and Scheduler
    Children, Limits,                             \* of TaskGroup
    Observers,                                    \* of JoinHandle
    Tasks, Yielding, Nodes, InboxCapacity, Quantum,   \* of Worker
    SchedTasks, Raw, MaxWorkers, InitialWorkers,  \* of Scheduler
    PoolJobs, PoolThreads, Closer, QueueLimit,    \* of the blocking pool
    MaxPending, ScPool,                           \* of the autoscaler
    SockBytes,                                    \* of sockets
    HsRequests, HsKeepAlive,                      \* of HttpServer
    WsTimeouts,                                   \* of WebSocket
    ScEvents, ScAttempts, ScConnects, ScAuto      \* of the SSE client

(* What a callback of a token does: nothing, unregister a callback, cancel  *)
(* a source.                                                                *)
TokenBodies ==
    {[op |-> "none"]} \cup {[op |-> "unregister", c |-> c] : c \in Callbacks}
        \cup {[op |-> "cancel", s |-> s] : s \in Sources}

VARIABLES used, x1, x2, x3, x4, x5, x6, x7, x8, x9, x10, x11, x12, x13, x14, x15, x16,
          x17, x18, x19, x20, x21, x22, x23

Mx == INSTANCE Mutex
        WITH state <- x1, internal_mutex <- x2, waiters <- x3, kind <- x4, wake <- x5,
             suspended <- x6, grant_pending <- x7, to_schedule <- x8, cancelling <- x9,
             scheduled <- x10, pc <- x11, after <- x12

Sem == INSTANCE Semaphore
        WITH cancellable <- x1, wake <- x2, to_schedule <- x3, cancelling <- x4,
             scheduled <- x5, pc <- x6, count <- x7, waiters <- x8,
             grant_pending <- x9, released <- x10

Ev == INSTANCE Event
        WITH cancellable <- x1, wake <- x2, to_schedule <- x3, cancelling <- x4,
             scheduled <- x5, pc <- x6, signaled <- x7, waiters <- x8

Cv == INSTANCE ConditionVariable
        WITH cancellable <- x1, wake <- x2, to_schedule <- x3, cancelling <- x4,
             scheduled <- x5, pc <- x6, waiters <- x7, locked <- x8, lock <- x9,
             lock_released <- x10

Sm == INSTANCE SharedMutex
        WITH Waiters <- Ops, Nobody <- NoSharedOp, cancellable <- x1, wake <- x2, to_schedule <- x3,
             cancelling <- x4, scheduled <- x5, pc <- x6, readers <- x7,
             writer_active <- x8, writer_waiting <- x9, reader_waiters <- x10,
             writer_waiters <- x11, grant_pending <- x12, section <- x13,
             reserved <- x14

Chan == INSTANCE Channel
        WITH Waiters <- Senders \cup Receivers, None <- NoChannelValue, cancellable <- x1,
             wake <- x2,
             to_schedule <- x3, cancelling <- x4, scheduled <- x5, pc <- x6,
             capacity <- x7, queue <- x8, ring <- x9, tail <- x10, unpublished <- x11,
             send_waiters <- x12, recv_waiters <- x13, closed <- x14, closing <- x15,
             success <- x16, got <- x17, at <- x18, budget <- x19,
             token_cancelled <- x20, immune <- x21, mutex <- x22,
             mode <- x23, TokenSends <- 0

Tokens == INSTANCE CancelToken
        WITH Bodies <- TokenBodies, body <- x1, source <- x2, cancelled <- x3,
             head <- x4, phase <- x5, identity <- x6, payload <- x7, active <- x8,
             handles <- x9, stack <- x10

Groups == INSTANCE TaskGroup
        WITH config <- x1, draining <- x2, accepting <- x3, owner <- x4, handed <- x5,
             slot <- x6, pc <- x7, lease <- x8, outstanding <- x9, owns <- x10,
             permits <- x11, cancelled <- x12, told <- x13, posted <- x14,
             first <- x15, failures <- x16, threw <- x17, report <- x18

Joins == INSTANCE JoinHandle
        WITH child <- x1, child_frame <- x2, seen <- x3, target <- x4,
             child_lease <- x5, ready <- x6, observer <- x7, control <- x8,
             installed <- x9, waiter_slot <- x10, destroyed <- x11,
             list_installed <- x12, listed <- x13, pending_wakes <- x14, kind <- x15,
             at <- x16, outcome <- x17, own_slot <- x18, token <- x19, stage <- x20,
             lease <- x21, result <- x22, handed <- x23

Loop == INSTANCE Worker
        WITH yielding <- x1, inbox <- x2, overflow <- x3, deque <- x4, moving <- x5,
             overflow_size <- x6, incoming <- x7, retry <- x8, maintenance_count <- x9,
             schedule_mutex <- x10, transfer_mutex <- x11, running <- x12,
             draining <- x13, shutdown <- x14, submission_wake_pending <- x15,
             notified <- x16, to_notify <- x17, producer <- x18, pc <- x19, ret <- x20,
             dispatched <- x21, done <- x22, reader <- x23

Sched == INSTANCE Scheduler
        WITH Tasks <- SchedTasks, running <- x1, shutdown_started <- x2,
             graceful <- x3, teardown <- x4, resizing <- x5, deferred <- x6,
             pool_stopped <- x7, num_threads <- x8, live <- x9, draining <- x10,
             thread <- x11, retired <- x12, draining_slots <- x13,
             workers_mutex <- x14, join_mutex <- x15, task <- x16, at <- x17,
             lease <- x18, call <- x19

Super == INSTANCE Supervision
        WITH up <- x1, visible <- x2, awake <- x3, leaving <- x4, where <- x5,
             place <- x6, user_affinity <- x7, pins <- x8, pin_owner <- x9,
             active_pins <- x10, guard <- x11, stolen <- x12,
             Jobs <- PoolJobs, Leased <- {}, RtTasks <- {}, RtLocal <- {}, RtWorkers <- 0, SvListeners <- {},
             SvConns <- {}, SvStops <- 0, scaler <- x1, scaler_pc <- x2, config <- x3,
             cfg <- x4, load <- x5, pool <- x6, sampled <- x7, idle_for <- x8,
             progressed <- x9, asleep <- x10, stuck_for <- x11, low_for <- x12,
             layout <- x1, site <- x2, listener <- x3, conn <- x4, stopper <- x5,
             host <- x6, stopped <- x1, pool_queue <- x2, pool_thread <- x3, on <- x4,
             job <- x5, resume_state <- x6, frame <- x7, closing <- x8,
             owner_up <- x9, ending <- x13, growing <- x14

Nets == INSTANCE Net
        WITH Resolvers <- {}, Bounded <- {}, DomainLimit <- 0, MaxChanges <- 0,
             transport <- x1, want <- x2, stage <- x3, stoken <- x4,
             cancellable_ <- x5, progress <- x6, early <- x7, result_ <- x8, afd <- x9,
             sfd <- x10, lfd <- x11, closing <- x12, accepted <- x13, lost <- x14,
             opened <- x15, closed <- x16, peer <- x17, call <- x18, at <- x19,
             got <- x20, moved <- x21, answer <- x22, completion <- x23, rpc <- x1, use_cache <- x2,
             cache <- x3, world <- x4, outstanding <- x5, jphase <- x6, jobs <- x7,
             poolq <- x8, found <- x9, looked <- x10, verdict <- x11

Server == INSTANCE HttpServer
        WITH BwBytes <- 0, RtComponents <- {}, RtLength <- 0, RtRoutes <- 0,
             hserv <- x1, hwatch <- x2, hclient <- x3, hstop <- x4, bresp <- x1,
             bwr <- x2, bop <- x3, bdog <- x4, bwire <- x5, benv <- x6, rtable <- x1,
             rpath <- x2, rfound <- x3,
             HmHeaders <- {}, HmLine <- 0, HmLines <- 0, hmsg <- x1, htext <- x2,
             hparser <- x3

Ws == INSTANCE WebSocket
        WITH WfMax <- 0, WfFrames <- 0, WfBytes <- 0, WcLimit <- 0, WcConnects <- 0, WcMessages <- 0,
             wconn <- x1, wact <- x2, wbeat <- x3, wtask <- x4, wpeer <- x5,
             wjob <- x1, wpar <- x2, wsent <- x3, wtaken <- x4, wtext <- x5, wcl <- x1,
             wcall <- x2, wserver <- x3

Events == INSTANCE Sse
        WITH SpMax <- 0, SpText <- 0, SpBatch <- 0, SpData <- 0, scl <- x1,
             scall <- x2, sgot <- x3, sclose <- x4, pjob <- x1, pparser <- x2,
             ptext <- x3, ptaken <- x4, pwriter <- x5

progressVars == <<used, x1, x2, x3, x4, x5, x6, x7, x8, x9, x10, x11, x12, x13, x14,
                  x15, x16, x17, x18, x19, x20, x21, x22, x23>>

\* The variables beyond the first n are not those of the part in use.
Unused(n) ==
    /\ IF n <= 4 THEN x5 = 0 ELSE TRUE
    /\ IF n <= 5 THEN x6 = 0 ELSE TRUE
    /\ IF n <= 6 THEN x7 = 0 ELSE TRUE
    /\ IF n <= 7 THEN x8 = 0 ELSE TRUE
    /\ IF n <= 8 THEN x9 = 0 ELSE TRUE
    /\ IF n <= 9 THEN x10 = 0 ELSE TRUE
    /\ IF n <= 10 THEN x11 = 0 ELSE TRUE
    /\ IF n <= 11 THEN x12 = 0 ELSE TRUE
    /\ IF n <= 12 THEN x13 = 0 ELSE TRUE
    /\ IF n <= 13 THEN x14 = 0 ELSE TRUE
    /\ IF n <= 14 THEN x15 = 0 ELSE TRUE
    /\ IF n <= 15 THEN x16 = 0 ELSE TRUE
    /\ IF n <= 16 THEN x17 = 0 ELSE TRUE
    /\ IF n <= 17 THEN x18 = 0 ELSE TRUE
    /\ IF n <= 18 THEN x19 = 0 ELSE TRUE
    /\ IF n <= 19 THEN x20 = 0 ELSE TRUE
    /\ IF n <= 20 THEN x21 = 0 ELSE TRUE
    /\ IF n <= 21 THEN x22 = 0 ELSE TRUE
    /\ IF n <= 22 THEN x23 = 0 ELSE TRUE

ProgressInit ==
    \/ used = "mutex" /\ Mx!Init /\ Unused(12)
    \/ used = "semaphore" /\ Sem!Init /\ Unused(10)
    \/ used = "event" /\ Ev!Init /\ Unused(8)
    \/ used = "condition_variable" /\ Cv!Init /\ Unused(10)
    \/ used = "shared_mutex" /\ Sm!Init /\ Unused(14)
    \/ used = "channel" /\ Chan!Init /\ Unused(23)
    \/ used = "cancel_token" /\ Tokens!Init /\ Unused(10)
    \/ used = "task_group" /\ Groups!Init /\ Unused(18)
    \/ used = "join_handle" /\ Joins!JoinInit /\ Unused(23)
    \/ used = "worker" /\ Loop!Init /\ Unused(23)
    \/ used = "scheduler" /\ Sched!SchedInit /\ Unused(19)
    \/ used = "blocking_pool" /\ Super!PoolInit /\ Unused(9)
    \/ used = "autoscaler" /\ Super!ScInit /\ Unused(12)
    \/ used = "socket" /\ Nets!SockInit /\ Unused(23)
    \/ used = "http_server" /\ Server!HsInit /\ Unused(4)
    \/ used = "websocket" /\ Ws!WsInit /\ Unused(5)
    \/ used = "sse_client" /\ Events!ScInit /\ Unused(4)

(* Bounds: nobody takes a queue_size() snapshot of the worker (x23), and    *)
(* only plain reads are made on the socket.                                 *)
OnlyReads == x19'["out"] = "off" /\ ~x18'["in"].vec

ProgressNext ==
    /\ \/ used = "mutex" /\ Mx!Next
          /\ UNCHANGED <<x13, x14, x15, x16, x17, x18, x19, x20, x21, x22, x23>>
       \/ used = "semaphore" /\ Sem!Next
          /\ UNCHANGED <<x11, x12, x13, x14, x15, x16, x17, x18, x19, x20, x21, x22,
                           x23>>
       \/ used = "event" /\ Ev!Next
          /\ UNCHANGED <<x9, x10, x11, x12, x13, x14, x15, x16, x17, x18, x19, x20,
                           x21, x22, x23>>
       \/ used = "condition_variable" /\ Cv!Next
          /\ UNCHANGED <<x11, x12, x13, x14, x15, x16, x17, x18, x19, x20, x21, x22,
                           x23>>
       \/ used = "shared_mutex" /\ Sm!Next
          /\ UNCHANGED <<x15, x16, x17, x18, x19, x20, x21, x22, x23>>
       \/ used = "channel" /\ Chan!Next
       \/ used = "cancel_token" /\ Tokens!Next
          /\ UNCHANGED <<x11, x12, x13, x14, x15, x16, x17, x18, x19, x20, x21, x22,
                           x23>>
       \/ used = "task_group" /\ Groups!Next
          /\ UNCHANGED <<x19, x20, x21, x22, x23>>
       \/ used = "join_handle" /\ Joins!JoinNext
       \/ used = "worker" /\ Loop!Next /\ x23' = x23
       \/ used = "scheduler" /\ Sched!SchedNext
          /\ UNCHANGED <<x20, x21, x22, x23>>
       \/ used = "blocking_pool" /\ Super!PoolNext
          /\ UNCHANGED <<x10, x11, x12, x13, x14, x15, x16, x17, x18, x19, x20,
                           x21, x22, x23>>
       \/ used = "autoscaler" /\ Super!ScNext
          /\ UNCHANGED <<x13, x14, x15, x16, x17, x18, x19, x20, x21, x22, x23>>
       \/ used = "socket" /\ Nets!SockNext /\ OnlyReads
       \/ used = "http_server" /\ Server!HsNext
          /\ UNCHANGED <<x5, x6, x7, x8, x9, x10, x11, x12, x13, x14, x15, x16, x17,
                           x18, x19, x20, x21, x22, x23>>
       \/ used = "websocket" /\ Ws!WsNext
          /\ UNCHANGED <<x6, x7, x8, x9, x10, x11, x12, x13, x14, x15, x16, x17, x18,
                           x19, x20, x21, x22, x23>>
       \/ used = "sse_client" /\ Events!ScNext
          /\ UNCHANGED <<x5, x6, x7, x8, x9, x10, x11, x12, x13, x14, x15, x16, x17,
                           x18, x19, x20, x21, x22, x23>>
    /\ UNCHANGED used

-----------------------------------------------------------------------------
(* Operations that have begun run on, threads schedule whom they have       *)
(* selected, cancel callbacks and close() run to their end; owners unlock.  *)
(* Whoever waits for a lock that others hold for a moment gets it: every    *)
(* operation is made once, so weak fairness is enough.                      *)
SyncFairness ==
    /\ \A w \in Waiters :
         /\ WF_(Mx!vars)(used = "mutex" /\ Mx!Run(w))
         /\ WF_(Mx!vars)(used = "mutex" /\ Mx!CancelSchedule(w))
         /\ WF_(Sem!vars)(used = "semaphore" /\ Sem!Run(w))
         /\ WF_(Sem!vars)(used = "semaphore" /\ Sem!Dispatch(w))
         /\ WF_(Sem!vars)(used = "semaphore" /\ Sem!CancelSchedule(w))
         /\ WF_(Ev!vars)(used = "event" /\ Ev!Run(w))
         /\ WF_(Ev!vars)(used = "event" /\ Ev!Dispatch(w))
         /\ WF_(Ev!vars)(used = "event" /\ Ev!CancelSchedule(w))
         /\ WF_(Cv!vars)(used = "condition_variable" /\ (Cv!Run(w) \/ Cv!Relock(w)))
         /\ WF_(Cv!vars)(used = "condition_variable" /\ Cv!Dispatch(w))
         /\ WF_(Cv!vars)(used = "condition_variable" /\ Cv!CancelSchedule(w))
    /\ \A w \in Ops :
         /\ WF_(Sm!vars)(used = "shared_mutex" /\ Sm!Run(w))
         /\ WF_(Sm!vars)(used = "shared_mutex" /\ Sm!Dispatch(w))
         /\ WF_(Sm!vars)(used = "shared_mutex" /\ Sm!CancelSchedule(w))
    /\ WF_(Chan!state)(used = "channel" /\ (Chan!DrainRing \/ Chan!Drain))
    /\ \A s \in Senders : WF_(Chan!state)(used = "channel" /\ Chan!RunSender(s))
    /\ \A r \in Receivers : WF_(Chan!state)(used = "channel" /\ Chan!RunReceiver(r))
    /\ \A w \in Senders \cup Receivers :
         /\ WF_(Chan!state)(used = "channel" /\ Chan!Dispatch(w))
         /\ WF_(Chan!state)(used = "channel" /\ Chan!CancelSchedule(w))

(* Threads run, children and bodies end, a task that ended completes its    *)
(* handle.                                                                  *)
CoroFairness ==
    /\ \A t \in Threads : WF_(Tokens!vars)(used = "cancel_token" /\ Tokens!Run(t))
    /\ \A c \in Children :
         /\ WF_(Groups!state)(used = "task_group" /\ Groups!ChildRuns(c))
         /\ WF_(Groups!state)(used = "task_group" /\ Groups!Propagate(c))
    /\ WF_(Groups!state)(used = "task_group" /\ Groups!OwnerRuns)
    /\ WF_(Groups!state)(used = "task_group" /\ Groups!RunPosted)
    /\ WF_(Joins!joinVars)(used = "join_handle" /\ Joins!ChildGoesOn)
    /\ \A o \in Observers :
         /\ WF_(Joins!joinVars)(used = "join_handle" /\ Joins!Step(o))
         /\ WF_(Joins!joinVars)(used = "join_handle" /\ Joins!Notify(o, "cancel"))
         /\ WF_(Joins!joinVars)(used = "join_handle" /\ Joins!TimerGoesOn(o))

(* Workers, pool threads and callers run, tasks and jobs end, leases are    *)
(* given back; a draining worker is not refused by the others for ever.     *)
RuntimeFairness ==
    /\ WF_(Loop!state)(used = "worker" /\ Loop!run)
    /\ WF_(Loop!state)(used = "worker" /\ Loop!wake)
    /\ \A x \in Tasks \cup Nodes :
         /\ WF_(Loop!state)(used = "worker" /\ Loop!wake_for_submission(x))
         /\ WF_(Loop!state)(used = "worker" /\ Loop!Notify(x))
    /\ SF_(Loop!state)(used = "worker" /\ Loop!HandsOn)
    /\ \A c \in Sched!Callers : WF_(Sched!schedVars)(used = "scheduler" /\ Sched!CallSteps(c))
    /\ \A i \in Sched!Slots : WF_(Sched!schedVars)(used = "scheduler" /\ Sched!WorkerSteps(i))
    /\ \A t \in SchedTasks :
         /\ SF_(Sched!schedVars)(used = "scheduler" /\ Sched!Finish(t))
         /\ WF_(Sched!schedVars)(used = "scheduler" /\ Sched!resume_blocking(t))
         /\ WF_(Sched!schedVars)(used = "scheduler" /\ Sched!release_lease(t))
    /\ \A j \in PoolJobs :
         /\ WF_(Super!poolVars)(used = "blocking_pool" /\ Super!JobSteps(j))
         /\ WF_(Super!poolVars)(used = "blocking_pool" /\ Super!Resume(j))
         /\ WF_(Super!poolVars)(used = "blocking_pool" /\ Super!Leave(j))
    /\ \A p \in PoolThreads : WF_(Super!poolVars)(used = "blocking_pool" /\ Super!worker_loop(p))
    /\ \A r \in Super!Runners : WF_(Super!poolVars)(used = "blocking_pool" /\ Super!Next_task(r))
    /\ WF_(Super!poolVars)(used = "blocking_pool" /\ Super!JoinThread)
    /\ WF_(Super!poolVars)(used = "blocking_pool" /\ Super!DrainInline)
    /\ WF_(Super!scVars)(used = "autoscaler" /\ Super!Tick)
    /\ WF_(Super!scVars)(used = "autoscaler" /\ Super!StopGoesOn)

(* Resumed coroutines run on, timers fire, handlers leave a connection that *)
(* ended.  A network operation may last for ever unless it has a timeout or *)
(* its token is cancelled; poll does not report readiness for ever in vain. *)
NetworkFairness ==
    /\ WF_(Nets!sockVars)(used = "socket" /\ Nets!tcp_read)
    /\ WF_(Nets!sockVars)(used = "socket" /\ Nets!uds_read)
    /\ WF_(Nets!sockVars)(used = "socket" /\ Nets!Awaits)
    /\ WF_(Server!hsVars)(used = "http_server" /\ Server!start_handshake)
    /\ WF_(Server!hsVars)(used = "http_server" /\ Server!handshake)
    /\ WF_(Server!hsVars)(used = "http_server" /\ Server!handshake_done)
    /\ WF_(Server!hsVars)(used = "http_server" /\ Server!watchdog_fires)
    /\ WF_(Server!hsVars)(used = "http_server" /\ Server!watchdog_stops)
    /\ WF_(Server!hsVars)(used = "http_server" /\ Server!next_request)
    /\ WF_(Server!hsVars)(used = "http_server" /\ Server!read_request)
    /\ WF_(Server!hsVars)(used = "http_server" /\ Server!stop_watchdog)
    /\ WF_(Server!hsVars)(used = "http_server" /\ Server!send_error_response)
    /\ WF_(Server!hsVars)(used = "http_server" /\ Server!route_request)
    /\ WF_(Server!hsVars)(used = "http_server" /\ Server!dispatch_reply)
    /\ \A a \in Ws!Users : /\ WF_(Ws!wsVars)(used = "websocket" /\ Ws!lock(a))
                           /\ WF_(Ws!wsVars)(used = "websocket" /\ Ws!write(a))
    /\ WF_(Ws!wsVars)(used = "websocket" /\ Ws!receive_step)
    /\ WF_(Ws!wsVars)(used = "websocket" /\ Ws!interval_ends)
    /\ WF_(Ws!wsVars)(used = "websocket" /\ Ws!deadline_passes)
    /\ WF_(Ws!wsVars)(used = "websocket" /\ Ws!try_lock)
    /\ WF_(Ws!wsVars)(used = "websocket" /\ Ws!write_ping)
    /\ WF_(Ws!wsVars)(used = "websocket" /\ Ws!await_pong)
    /\ WF_(Ws!wsVars)(used = "websocket" /\ Ws!stop_heartbeat)
    /\ WF_(Ws!wsVars)(used = "websocket" /\ Ws!finish)
    /\ WF_(Ws!wsVars)(used = "websocket" /\ Ws!handler_leaves)
    /\ WF_(Events!scVars)(used = "sse_client" /\ Events!GoesOn)
    /\ WF_(Events!scVars)(used = "sse_client" /\ Events!ConnectGivesUp)
    /\ WF_(Events!scVars)(used = "sse_client" /\ Events!ReadGivesUp)

ProgressSpec ==
    /\ ProgressInit /\ [][ProgressNext]_progressVars
    /\ SyncFairness /\ CoroFairness /\ RuntimeFairness /\ NetworkFairness

-----------------------------------------------------------------------------
(* Nobody waits for what is there or has been decided. *)
Served ==
    /\ used = "mutex" => Mx!Served
    /\ used = "semaphore" => Sem!Served
    /\ used = "event" => Ev!Served
    /\ used = "condition_variable" => Cv!Served
    /\ used = "shared_mutex" => Sm!Served
    /\ used = "channel" => Chan!Served
    /\ used = "cancel_token" => Tokens!Served
    /\ used = "task_group" => Groups!Served
    /\ used = "join_handle" => Joins!Served
    /\ used = "worker" => Loop!Served
    /\ used = "scheduler" => Sched!Served
    /\ used = "blocking_pool" => Super!Served
    /\ used = "autoscaler" => Super!ScServed
    /\ used = "socket" => Nets!SockServed
    /\ used = "http_server" => Server!HsServed
    /\ used = "websocket" => Ws!WsServed
    /\ used = "sse_client" => Events!SseServed

(* However operations, cancellation, destruction, close, stop and resize    *)
(* interleave, nobody is left waiting: it is always so again that every     *)
(* wait that could end has ended.                                           *)
EverybodyIsServed == []<>Served

=============================================================================
