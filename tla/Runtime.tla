------------------------------- MODULE Runtime -------------------------------
(***************************************************************************)
(* The parts of elio/runtime side by side: the loop of a worker, the       *)
(* scheduler with its shutdowns and resizes, the blocking pool, the        *)
(* routing of tasks to workers, the autoscaler, serve() with the listeners *)
(* and connections under it, and the object cache.  They are checked one   *)
(* at a time: a behaviour uses one part, "used", and x1, x2, ... hold the  *)
(* variables of that part in the order of its module.                      *)
(***************************************************************************)
EXTENDS Naturals, FiniteSets, TLC

CONSTANTS
    Tasks,                                        \* of Worker and Scheduler
    Yielding, Nodes, InboxCapacity, Quantum,      \* of Worker
    Threads, Raw, MaxWorkers, InitialWorkers,     \* of Scheduler
    Jobs, Leased, PoolThreads, Closer, QueueLimit, \* of the blocking pool
    RtTasks, RtLocal, RtWorkers,                  \* of routing
    MaxPending, ScPool,                           \* of Autoscaler
    SvListeners, SvConns, SvStops,                \* of Servers
    OcActors, OcEntries                           \* of ObjectCache

VARIABLES used, x1, x2, x3, x4, x5, x6, x7, x8, x9, x10, x11, x12, x13, x14, x15, x16,
          x17, x18, x19, x20, x21, x22, x23

Loop == INSTANCE Worker
        WITH yielding <- x1, inbox <- x2, overflow <- x3, deque <- x4, moving <- x5,
             overflow_size <- x6, incoming <- x7, retry <- x8, maintenance_count <- x9,
             schedule_mutex <- x10, transfer_mutex <- x11, running <- x12,
             draining <- x13, shutdown <- x14, submission_wake_pending <- x15,
             notified <- x16, to_notify <- x17, producer <- x18, pc <- x19, ret <- x20,
             dispatched <- x21, done <- x22, reader <- x23

Sched == INSTANCE Scheduler
        WITH running <- x1, shutdown_started <- x2, graceful <- x3, teardown <- x4,
             resizing <- x5, deferred <- x6, pool_stopped <- x7, num_threads <- x8,
             live <- x9, draining <- x10, thread <- x11, retired <- x12,
             draining_slots <- x13, workers_mutex <- x14, join_mutex <- x15,
             task <- x16, at <- x17, lease <- x18, call <- x19

Super == INSTANCE Supervision
        WITH scaler <- x1, scaler_pc <- x2, config <- x3, cfg <- x4, load <- x5,
             pool <- x6, sampled <- x7, idle_for <- x8, progressed <- x9, asleep <- x10,
             stuck_for <- x11, low_for <- x12, layout <- x1, site <- x2, listener <- x3,
             conn <- x4, stopper <- x5, host <- x6, stopped <- x1, pool_queue <- x2,
             pool_thread <- x3, on <- x4, job <- x5, resume_state <- x6, frame <- x7,
             closing <- x8, owner_up <- x9, up <- x1, visible <- x2, awake <- x3, leaving <- x4,
             where <- x5, place <- x6, user_affinity <- x7, pins <- x8, pin_owner <- x9,
             active_pins <- x10, guard <- x11, stolen <- x12,
             ending <- x13, growing <- x14

Cache == INSTANCE ObjectCache
        WITH oentry <- x1, oindex <- x2, oact <- x3, ocache <- x4

runtimeVars == <<used, x1, x2, x3, x4, x5, x6, x7, x8, x9, x10, x11, x12, x13, x14,
                 x15, x16, x17, x18, x19, x20, x21, x22, x23>>

\* The variables beyond the first n are not those of the part in use.
Unused(n) ==
    /\ IF n <= 4 THEN x5 = 0 ELSE TRUE
    /\ IF n <= 5 THEN x6 = 0 ELSE TRUE
    /\ IF n <= 6 THEN x7 = 0 ELSE TRUE
    /\ IF n <= 7 THEN x8 = 0 ELSE TRUE
    /\ IF n <= 8 THEN x9 = 0 ELSE TRUE
    /\ IF n <= 9 THEN x10 = 0 ELSE TRUE
    /\ IF n <= 10 THEN x11 = 0 ELSE TRUE
    /\ IF n <= 11 THEN x12 = 0 ELSE TRUE
    /\ IF n <= 12 THEN x13 = 0 ELSE TRUE
    /\ IF n <= 13 THEN x14 = 0 ELSE TRUE
    /\ IF n <= 14 THEN x15 = 0 ELSE TRUE
    /\ IF n <= 15 THEN x16 = 0 ELSE TRUE
    /\ IF n <= 16 THEN x17 = 0 ELSE TRUE
    /\ IF n <= 17 THEN x18 = 0 ELSE TRUE
    /\ IF n <= 18 THEN x19 = 0 ELSE TRUE
    /\ IF n <= 19 THEN x20 = 0 ELSE TRUE
    /\ IF n <= 20 THEN x21 = 0 ELSE TRUE
    /\ IF n <= 21 THEN x22 = 0 ELSE TRUE
    /\ IF n <= 22 THEN x23 = 0 ELSE TRUE

RuntimeInit ==
    \/ used = "worker" /\ Loop!Init /\ Unused(23)
    \/ used = "scheduler" /\ Sched!SchedInit /\ Unused(19)
    \/ used = "blocking_pool" /\ Super!PoolInit /\ Unused(9)
    \/ used = "routing" /\ Super!RtInit /\ Unused(14)
    \/ used = "autoscaler" /\ Super!ScInit /\ Unused(12)
    \/ used = "servers" /\ Super!SvInit /\ Unused(6)
    \/ used = "object_cache" /\ Cache!OcInit /\ Unused(4)

RuntimeNext ==
    \/ /\ used = "worker" /\ Loop!Next
       /\ UNCHANGED <<used>>
    \/ /\ used = "scheduler" /\ Sched!SchedNext
       /\ UNCHANGED <<used, x20, x21, x22, x23>>
    \/ /\ used = "blocking_pool" /\ Super!PoolNext
       /\ UNCHANGED <<used, x10, x11, x12, x13, x14, x15, x16, x17, x18, x19, x20,
                      x21, x22, x23>>
    \/ /\ used = "routing" /\ Super!RtNext
       /\ UNCHANGED <<used, x15, x16, x17, x18, x19, x20, x21, x22, x23>>
    \/ /\ used = "autoscaler" /\ Super!ScNext
       /\ UNCHANGED <<used, x13, x14, x15, x16, x17, x18, x19, x20, x21, x22, x23>>
    \/ /\ used = "servers" /\ Super!SvNext
       /\ UNCHANGED <<used, x7, x8, x9, x10, x11, x12, x13, x14, x15, x16, x17, x18,
                      x19, x20, x21, x22, x23>>
    \/ /\ used = "object_cache" /\ Cache!OcNext
       /\ UNCHANGED <<used, x5, x6, x7, x8, x9, x10, x11, x12, x13, x14, x15, x16, x17,
                      x18, x19, x20, x21, x22, x23>>

RuntimeSpec == RuntimeInit /\ [][RuntimeNext]_runtimeVars

(* The threads outside the scheduler are alike. *)
RuntimeSymmetry == Permutations(Threads)

-----------------------------------------------------------------------------
(* What was accepted is never lost, doubled or left behind: a task or node  *)
(* submitted to a worker that stops or retires, a task admitted by a        *)
(* scheduler that shuts down, a job queued in a pool that closes.  Nor do   *)
(* the counts that a shutdown, wait_for_idle() or a resize relies on ever   *)
(* miss a task that is moved between the queues or the workers they add up. *)
NothingIsLost ==
    /\ used = "worker" => Loop!NothingLeftBehind /\ Loop!NoFalseIdle
    /\ used = "scheduler" => Sched!NoTaskIsLost /\ Sched!NoInvisibleLoad
    /\ used = "blocking_pool" => Super!NobodyIsStranded

(* Nobody sleeps beside what it waits for: a worker beside a submission, a  *)
(* caller of the object cache beside an entry nobody constructs or a borrow *)
(* that was the last.                                                       *)
NoWakeIsLost ==
    /\ used = "worker" => Loop!NoLostWake
    /\ used = "object_cache" => Cache!NobodyWaitsForNothing

(* Whatever runs, runs where it may: a leased or pinned worker stays, a     *)
(* coroutine with I/O in flight is resumed on the worker that polls for it, *)
(* a thread is joined by one caller, and a pool never touches a frame that  *)
(* is gone.                                                                 *)
WorkersOutliveTheirWork ==
    /\ used = "scheduler" => Sched!SchedTypeOK /\ Sched!LeaseHolds /\ Sched!JoinsAreExclusive
    /\ used = "routing" => Super!RunsWhereItMust /\ Super!PinsKeepWorkers
    /\ used = "blocking_pool" => Super!HandleIsAlive

(* A shutdown or stop() that has returned is one: nothing tracked runs on,  *)
(* no handler uses a server that serve() has left, every listener that a    *)
(* stop overtook was told.                                                  *)
StopsAreHonest ==
    /\ used = "scheduler" => Sched!ShutdownIsHonest
    /\ used = "servers" => Super!NoUseAfterReturn /\ Super!StopReachesAll

(* Borrows of a cached object are counted, and an idle entry is either on   *)
(* the list from which it is reclaimed or about to be.                      *)
BorrowsAreSafe ==
    used = "object_cache" => Cache!BorrowsAreCounted /\ Cache!IdleIsReclaimable

(* The autoscaler scales within the limits it has read and on samples it    *)
(* has seen, and reports only a worker that made no progress as blocked.    *)
ScalerIsHonest ==
    [][used = "autoscaler" => Super!ScalesWithinLimits /\ Super!BlockedIsBlocked]_runtimeVars

=============================================================================
