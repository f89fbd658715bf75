----------------------------- MODULE Scheduler -----------------------------
(***************************************************************************)
(* runtime::scheduler: admission of tasks, start(), the graceful and the   *)
(* forced shutdown, set_thread_count() and the retirement of the workers   *)
(* it removes.  The queue of a worker is a set here (module Worker has its *)
(* details), and the blocking pool is the one of module Supervision:       *)
(* shutdown() of the pool returns when every accepted job has resumed its  *)
(* caller.  A caller is a thread of the program or a task that calls       *)
(* shutdown_force() on the worker that runs it.                            *)
(***************************************************************************)
EXTENDS Naturals, FiniteSets

CONSTANTS Threads,       \* threads outside the scheduler, one call each
          Tasks, Raw,    \* Raw: those of spawn(handle), which are not counted while they run
          MaxWorkers,    \* MAX_THREADS
          InitialWorkers

VARIABLES
    running, shutdown_started,   \* running_, shutdown_started_
    graceful, teardown,          \* graceful_drain_in_progress_, shutdown_teardown_in_progress_
    resizing, deferred,          \* resize_in_progress_, shutdown_deferred_by_resize_
    pool_stopped,                \* blocking_pool: stopped
    num_threads,
    live, draining,              \* workers with running_, with draining_
    thread,                      \* the thread of each worker
    retired, draining_slots,     \* draining_workers_, draining_slots_
    workers_mutex, join_mutex,   \* who holds them
    task, at, lease,             \* where each task is; its worker; the worker it has leased
    call                         \* where each caller is

flags     == <<running, shutdown_started, graceful, teardown, resizing, deferred, pool_stopped>>
workers   == <<num_threads, live, draining, thread, retired, draining_slots>>
mutexes   == <<workers_mutex, join_mutex>>
tasks     == <<task, at, lease>>
schedVars == <<flags, workers, mutexes, tasks, call>>

Slots == 0..(MaxWorkers - 1)
Nowhere == MaxWorkers
Unheld == "unheld"
Callers == Threads \cup Tasks
own(c) == c \in Tasks

Ready == [pc |-> "ready", todo |-> {}, i |-> 0, count |-> 0, drained |-> "no"]

SchedInit ==
    /\ running = FALSE /\ shutdown_started = FALSE
    /\ graceful = FALSE /\ teardown = FALSE
    /\ resizing = FALSE /\ deferred = FALSE
    /\ pool_stopped = FALSE
    /\ num_threads = InitialWorkers
    /\ live = {} /\ draining = {}
    /\ thread = [i \in Slots |-> "none"]
    /\ retired = {} /\ draining_slots = {}
    /\ workers_mutex = Unheld /\ join_mutex = Unheld
    /\ task = [t \in Tasks |-> "new"]
    /\ at = [t \in Tasks |-> Nowhere]
    /\ lease = [t \in Tasks |-> Nowhere]
    /\ call = [c \in Callers |-> Ready]

Visible == 0..(num_threads - 1)

(* schedule() of a worker accepts while its running_ is set. *)
Accepting == Visible \cap live

(* worker_pending_load_ and the tracked tasks: what wait_for_idle() waits for. *)
active_tasks ==
    \/ \E t \in Tasks : task[t] = "queued" \/ (task[t] \in {"blocked", "running"} /\ t \notin Raw)
    \/ \E t \in Tasks : lease[t] \in Visible \cup draining_slots

Busy(i) == \E t \in Tasks : task[t] = "running" /\ at[t] = i

At(c, from) == call[c].pc = from
Goto(c, to) == call' = [call EXCEPT ![c].pc = to]
return(c)   == Goto(c, "returned")

Put(t, where, i) ==
    /\ task' = [task EXCEPT ![t] = where]
    /\ at' = [at EXCEPT ![t] = i]

-----------------------------------------------------------------------------
(* start(): not before a resize has ended, and never after a shutdown. *)
start ==
    /\ ~resizing /\ ~shutdown_started /\ ~running
    /\ running' = TRUE
    /\ live' = live \cup Visible
    /\ thread' = [i \in Slots |-> IF i \in Visible THEN "loop" ELSE thread[i]]
    /\ UNCHANGED <<shutdown_started, graceful, teardown, resizing, deferred, pool_stopped,
                   num_threads, draining, retired, draining_slots, mutexes, tasks, call>>

(* try_initial_admission_ and do_spawn: go(), spawn() and their variants    *)
(* from any thread.  A rejected task is destroyed.                          *)
go(t) ==
    /\ task[t] = "new"
    /\ IF shutdown_started \/ ~running \/ Accepting = {}
       THEN Put(t, "rejected", Nowhere)
       ELSE \E i \in Accepting : Put(t, "queued", i)
    /\ UNCHANGED <<lease, flags, workers, mutexes, call>>

(* try_linked_admission_: a structured child of a task that runs. *)
LinkedAdmission == running /\ (shutdown_started => graceful /\ ~teardown)

do_go_task_linked(p, t) ==
    /\ task[p] = "running" /\ At(p, "ready") /\ task[t] = "new" /\ t \notin Raw
    /\ IF ~LinkedAdmission \/ Accepting = {}
       THEN Put(t, "rejected", Nowhere)
       ELSE \E i \in Accepting : Put(t, "queued", i)
    /\ UNCHANGED <<lease, flags, workers, mutexes, call>>

(* acquire_external_lease by the running task; release() by any thread. *)
acquire_external_lease(t) ==
    /\ task[t] = "running" /\ At(t, "ready") /\ lease[t] = Nowhere
    /\ ~shutdown_started /\ running
    /\ at[t] \in Accepting \ draining
    /\ lease' = [lease EXCEPT ![t] = at[t]]
    /\ UNCHANGED <<task, at, flags, workers, mutexes, call>>

release_lease(t) ==
    /\ lease[t] # Nowhere
    /\ lease' = [lease EXCEPT ![t] = Nowhere]
    /\ UNCHANGED <<task, at, flags, workers, mutexes, call>>

(* spawn_blocking: the pool accepts the job, or the task gets an exception  *)
(* and goes on; and the job ends and gives its caller back.                 *)
submit_blocking(t) ==
    /\ task[t] = "running" /\ At(t, "ready")
    /\ running /\ ~pool_stopped
    /\ Put(t, "blocked", Nowhere)
    /\ UNCHANGED <<lease, flags, workers, mutexes, call>>

(* A caller with a lease goes back to the worker it has leased              *)
(* (external_worker_wakeup::schedule), which drops it silently once that    *)
(* worker was stopped; any other one to whichever worker accepts.           *)
resume_blocking(t) ==
    /\ task[t] = "blocked"
    /\ \/ /\ lease[t] # Nowhere
          /\ Put(t, IF lease[t] \in live THEN "queued" ELSE "stranded", lease[t])
       \/ /\ lease[t] = Nowhere /\ running /\ Accepting # {}
          /\ \E i \in Accepting : Put(t, "queued", i)
       \/ /\ lease[t] = Nowhere /\ (~running \/ Accepting = {})
          /\ Put(t, "stranded", Nowhere)
    /\ UNCHANGED <<lease, flags, workers, mutexes, call>>

-----------------------------------------------------------------------------
(* The loop of worker i: take a task of its own or of another one ... *)
get_next_task(i) ==
    /\ thread[i] = "loop" /\ i \in live \ draining /\ ~Busy(i)
    /\ \E t \in Tasks :
        /\ task[t] = "queued"
        /\ at[t] = i \/ (at[t] \in Accepting /\ lease[t] = Nowhere)
        /\ Put(t, "running", i)
    /\ UNCHANGED <<lease, flags, workers, mutexes, call>>

(* ... while it drains, run_or_redistribute_retiring_task.  After the loop, *)
(* a worker that retires does the same; one that stops runs what it has.    *)
run_or_redistribute_retiring_task(i) ==
    /\ ~Busy(i)
    /\ \/ thread[i] = "loop" /\ i \in live \cap draining
       \/ thread[i] = "retiring"
    /\ \E t \in Tasks :
        /\ task[t] = "queued" /\ at[t] = i
        /\ \/ lease[t] = i /\ Put(t, "running", i)
           \/ lease[t] # i /\ running /\ \E j \in Accepting : Put(t, "queued", j)
           \/ lease[t] # i /\ ~running /\ Put(t, "running", i)
    /\ UNCHANGED <<lease, flags, workers, mutexes, call>>

RunAtStop(i) ==
    /\ thread[i] = "stopping" /\ ~Busy(i)
    /\ \E t \in Tasks : task[t] = "queued" /\ at[t] = i /\ Put(t, "running", i)
    /\ UNCHANGED <<lease, flags, workers, mutexes, call>>

(* Mutant of Retire: a leased worker retires. *)
MutRetire(i) ==
    /\ thread[i] = "loop" /\ i \in live \cap draining /\ ~Busy(i)
    /\ live' = live \ {i}
    /\ UNCHANGED <<flags, num_threads, draining, thread, retired, draining_slots,
                   mutexes, tasks, call>>

Retire(i) ==
    /\ thread[i] = "loop" /\ i \in live \cap draining /\ ~Busy(i)
    /\ \A t \in Tasks : lease[t] # i
    /\ live' = live \ {i}
    /\ UNCHANGED <<flags, num_threads, draining, thread, retired, draining_slots,
                   mutexes, tasks, call>>

(* The loop ends; whether it retires or stops is read once. *)
LeaveLoop(i) ==
    /\ thread[i] = "loop" /\ i \notin live /\ ~Busy(i)
    /\ thread' = [thread EXCEPT ![i] = IF running THEN "retiring" ELSE "stopping"]
    /\ UNCHANGED <<flags, num_threads, live, draining, retired, draining_slots,
                   mutexes, tasks, call>>

Exit(i) ==
    /\ thread[i] \in {"retiring", "stopping"} /\ ~Busy(i)
    /\ ~\E t \in Tasks : task[t] = "queued" /\ at[t] = i
    /\ thread' = [thread EXCEPT ![i] = "exited"]
    /\ UNCHANGED <<flags, num_threads, live, draining, retired, draining_slots,
                   mutexes, tasks, call>>

(* The task returns; shutdown_force() that it called has returned before. *)
Finish(t) ==
    /\ task[t] = "running" /\ call[t].pc \in {"ready", "returned"}
    /\ Put(t, "done", Nowhere)
    /\ UNCHANGED <<lease, flags, workers, mutexes, call>>

-----------------------------------------------------------------------------
(* shutdown(timeout): called from a thread that is no worker. *)
shutdown(c) ==
    /\ ~own(c) /\ At(c, "ready")
    /\ call' = [call EXCEPT ![c].pc = IF running THEN "close" ELSE "force",
                            ![c].drained = IF running THEN "no" ELSE "stopped"]
    /\ UNCHANGED <<flags, workers, mutexes, tasks>>

CloseAdmission(c) ==
    /\ At(c, "close") /\ Goto(c, "idle")
    /\ graceful' = (graceful \/ ~shutdown_started)
    /\ shutdown_started' = TRUE
    /\ UNCHANGED <<running, teardown, resizing, deferred, pool_stopped, workers, mutexes, tasks>>

(* wait_for_idle(): everything has ended, or the workers were stopped by    *)
(* somebody else or (timed) the deadline has passed.                        *)
wait_for_idle(c, timed) ==
    /\ At(c, "idle")
    /\ \/ ~active_tasks /\ Goto(c, "seal")
       \/ active_tasks /\ (~running \/ timed) /\ Goto(c, "force")
    /\ UNCHANGED <<flags, workers, mutexes, tasks>>

(* Mutant of Seal: the count is not read again under the mutex. *)
MutSeal(c) ==
    /\ At(c, "seal")
    /\ graceful' = FALSE
    /\ call' = [call EXCEPT ![c].pc = "force", ![c].drained = "sealed"]
    /\ UNCHANGED <<running, shutdown_started, teardown, resizing, deferred, pool_stopped,
                   workers, mutexes, tasks>>

(* Under shutdown_mutex_: still idle, then nothing may be admitted any more. *)
Seal(c) ==
    /\ At(c, "seal")
    /\ IF active_tasks
       THEN Goto(c, "idle") /\ UNCHANGED graceful
       ELSE /\ graceful' = FALSE
            /\ call' = [call EXCEPT ![c].pc = "force", ![c].drained = "sealed"]
    /\ UNCHANGED <<running, shutdown_started, teardown, resizing, deferred, pool_stopped,
                   workers, mutexes, tasks>>

(* shutdown_force(), also by a running task. *)
shutdown_force(c) ==
    /\ At(c, "ready") /\ (own(c) => task[c] = "running")
    /\ Goto(c, "force")
    /\ UNCHANGED <<flags, workers, mutexes, tasks>>

(* Its first section under shutdown_mutex_. *)
ClaimTeardown(c) ==
    /\ At(c, "force")
    /\ \/ /\ teardown
          /\ Goto(c, IF own(c) THEN "returned" ELSE "await_teardown")
          /\ UNCHANGED <<shutdown_started, graceful, teardown, deferred>>
       \/ /\ ~teardown
          /\ shutdown_started' = TRUE /\ graceful' = FALSE
          /\ deferred' = (deferred \/ (resizing /\ own(c)))
          /\ teardown' = (~resizing /\ running)
          /\ Goto(c, CASE resizing /\ own(c)            -> "returned"
                       [] resizing /\ ~own(c)           -> "await_resize"
                       [] ~resizing /\ running          -> "close_pool"
                       [] ~resizing /\ ~running /\ own(c)  -> "returned"
                       [] ~resizing /\ ~running /\ ~own(c) -> "join")
    /\ UNCHANGED <<running, resizing, pool_stopped, workers, mutexes, tasks>>

(* The waits of shutdown_cv_. *)
Awake(c) ==
    /\ \/ At(c, "await_teardown") /\ ~teardown /\ Goto(c, "join")
       \/ At(c, "await_resize") /\ ~resizing /\ Goto(c, "force")
    /\ UNCHANGED <<flags, workers, mutexes, tasks>>

(* blocking_pool::shutdown(): it rejects, and returns when it is drained. *)
ClosePool(c) ==
    /\ At(c, "close_pool") /\ Goto(c, "drain_pool")
    /\ pool_stopped' = TRUE
    /\ UNCHANGED <<running, shutdown_started, graceful, teardown, resizing, deferred,
                   workers, mutexes, tasks>>

(* ... and running_ is cleared after that. *)
DrainPool(c) ==
    /\ At(c, "drain_pool") /\ \A t \in Tasks : task[t] # "blocked"
    /\ call' = [call EXCEPT ![c].pc = "stop", ![c].todo = Visible]
    /\ running' = FALSE
    /\ UNCHANGED <<shutdown_started, graceful, teardown, resizing, deferred, pool_stopped,
                   workers, mutexes, tasks>>

-----------------------------------------------------------------------------
(* perform_shutdown_teardown_: stop() of one visible worker after the       *)
(* other, and in join_remaining_workers_ of all.  A worker does not join    *)
(* itself, and the thread of a worker that retires is joined elsewhere.     *)
Stop(c, i, next) ==
    /\ live' = live \ {i}
    /\ call' = [call EXCEPT ![c].pc = IF (own(c) /\ at[c] = i) \/ i \in retired \/ thread[i] = "none"
                                      THEN @ ELSE next,
                            ![c].i = i, ![c].todo = @ \ {i}]

Join(c, i, next) ==
    /\ thread[i] = "exited"
    /\ thread' = [thread EXCEPT ![i] = "none"]
    /\ Goto(c, next)

Least(S) == CHOOSE i \in S : \A j \in S : i <= j

StopWorker(c) ==
    /\ \/ At(c, "stop") /\ call[c].todo # {} /\ Stop(c, Least(call[c].todo), "stop_join")
       \/ At(c, "rejoin") /\ call[c].todo # {} /\ Stop(c, Least(call[c].todo), "rejoin_join")
    /\ UNCHANGED <<flags, num_threads, draining, thread, retired, draining_slots, mutexes, tasks>>

JoinWorker(c) ==
    /\ \/ At(c, "stop_join") /\ Join(c, call[c].i, "stop")
       \/ At(c, "rejoin_join") /\ Join(c, call[c].i, "rejoin")
    /\ UNCHANGED <<flags, num_threads, live, draining, retired, draining_slots, mutexes, tasks>>

(* drain_remaining_tasks() of the joined workers destroys what is left; then *)
(* workers_mutex_ is taken for the workers that retire.                      *)
drain_remaining_tasks(c) ==
    /\ At(c, "stop") /\ call[c].todo = {} /\ workers_mutex = Unheld
    /\ workers_mutex' = c
    /\ task' = [t \in Tasks |->
                  IF task[t] = "queued" /\ at[t] \in Visible /\ (own(c) => at[t] # at[c])
                  THEN "destroyed" ELSE task[t]]
    /\ call' = [call EXCEPT ![c].pc = "list", ![c].todo = retired]
    /\ UNCHANGED <<flags, workers, join_mutex, at, lease>>

(* leave_draining_mode() and clear_draining_slot_ after the join. *)
Forget(i) ==
    /\ draining' = draining \ {i}
    /\ draining_slots' = draining_slots \ {i}
    /\ retired' = retired \ {i}

StopRetired(c) ==
    /\ At(c, "list") /\ call[c].todo # {}
    /\ LET i == Least(call[c].todo) IN
        /\ live' = live \ {i}
        /\ call' = [call EXCEPT ![c].pc = IF own(c) /\ at[c] = i THEN @ ELSE "list_join",
                                ![c].i = i, ![c].todo = @ \ {i}]
    /\ UNCHANGED <<flags, num_threads, draining, thread, retired, draining_slots, mutexes, tasks>>

JoinRetired(c) ==
    /\ \/ At(c, "list_join") /\ Join(c, call[c].i, "list")
       \/ At(c, "relist_join") /\ Join(c, call[c].i, "relist")
       \/ At(c, "reap_join") /\ Join(c, call[c].i, "reap")
    /\ Forget(call[c].i)
    /\ UNCHANGED <<flags, num_threads, live, mutexes, tasks>>

finish_shutdown_teardown(c) ==
    /\ At(c, "list") /\ call[c].todo = {}
    /\ workers_mutex' = Unheld
    /\ teardown' = FALSE
    /\ Goto(c, IF own(c) THEN "returned" ELSE "join")
    /\ UNCHANGED <<running, shutdown_started, graceful, resizing, deferred, pool_stopped,
                   workers, join_mutex, tasks>>

EnterJoin(c) ==
    /\ At(c, "join") /\ join_mutex = Unheld
    /\ join_mutex' = c
    /\ call' = [call EXCEPT ![c].pc = "rejoin", ![c].todo = Slots]
    /\ UNCHANGED workers_mutex

(* join_remaining_workers_, one caller at a time. *)
join_remaining_workers(c) ==
    /\ \/ EnterJoin(c)
       \/ /\ At(c, "rejoin") /\ call[c].todo = {} /\ workers_mutex = Unheld
          /\ workers_mutex' = c
          /\ call' = [call EXCEPT ![c].pc = "relist", ![c].todo = retired]
          /\ UNCHANGED join_mutex
       \/ /\ At(c, "relist") /\ call[c].todo # {}
          /\ LET i == Least(call[c].todo) IN
              call' = [call EXCEPT ![c].pc = "relist_join", ![c].i = i, ![c].todo = @ \ {i}]
          /\ UNCHANGED mutexes
       \/ /\ At(c, "relist") /\ call[c].todo = {}
          /\ workers_mutex' = Unheld /\ join_mutex' = Unheld
          /\ return(c)
    /\ UNCHANGED <<flags, workers, tasks>>

-----------------------------------------------------------------------------
(* set_thread_count(count), outside the workers. *)
set_thread_count(c, count) ==
    /\ ~own(c) /\ At(c, "ready")
    /\ ~resizing \/ shutdown_started
    /\ IF shutdown_started
       THEN Goto(c, "adjusted") /\ UNCHANGED resizing
       ELSE /\ resizing' = TRUE
            /\ call' = [call EXCEPT ![c].pc = "resize", ![c].count = count]
    /\ UNCHANGED <<running, shutdown_started, graceful, teardown, deferred, pool_stopped,
                   workers, mutexes, tasks>>

(* Under workers_mutex_; mark_draining_range_ comes before num_threads_. *)
ResizeLock(c) ==
    /\ At(c, "resize") /\ workers_mutex = Unheld
    /\ LET count == call[c].count IN
        IF count = num_threads
        THEN Goto(c, "resized") /\ UNCHANGED <<workers_mutex, draining_slots>>
        ELSE /\ workers_mutex' = c
             /\ call' = [call EXCEPT ![c].pc = IF count < num_threads THEN "shrink" ELSE "grow",
                                     ![c].todo = num_threads..(count - 1)]
             /\ draining_slots' = IF running THEN draining_slots \cup (count..(num_threads - 1))
                                             ELSE draining_slots
    /\ UNCHANGED <<flags, num_threads, live, draining, thread, retired, join_mutex, tasks>>

Shrink(c) ==
    /\ At(c, "shrink")
    /\ num_threads' = call[c].count
    /\ call' = [call EXCEPT ![c].pc = "reap", ![c].todo = retired]
    /\ UNCHANGED <<flags, live, draining, thread, retired, draining_slots, mutexes, tasks>>

(* reap_draining_workers_: joins those that have stopped running. *)
reap_draining_workers(c) ==
    /\ At(c, "reap") /\ call[c].todo # {}
    /\ LET i == Least(call[c].todo) IN
        call' = [call EXCEPT ![c].pc = IF i \in live THEN "reap" ELSE "reap_join",
                             ![c].i = i, ![c].todo = @ \ {i}]
    /\ UNCHANGED <<flags, workers, mutexes, tasks>>

(* enter_draining_mode() and detach_thread() of the removed workers. *)
enter_draining_mode(c) ==
    /\ At(c, "reap") /\ call[c].todo = {}
    /\ draining' = draining \cup draining_slots
    /\ retired' = draining_slots
    /\ workers_mutex' = Unheld
    /\ Goto(c, "resized")
    /\ UNCHANGED <<flags, num_threads, live, thread, draining_slots, join_mutex, tasks>>

(* Growing: a slot whose old worker still drains is waited for; the worker   *)
(* is told to stop when a shutdown has started meanwhile.                    *)
wait_for_draining_worker(c) ==
    /\ \/ /\ At(c, "grow") /\ call[c].todo # {} /\ Least(call[c].todo) \in retired
          /\ call' = [call EXCEPT ![c].pc = "grow_wait", ![c].i = Least(call[c].todo)]
          /\ UNCHANGED <<live, draining, thread, retired, draining_slots>>
       \/ /\ At(c, "grow_wait") /\ call[c].i \in live /\ shutdown_started
          /\ live' = live \ {call[c].i}
          /\ UNCHANGED <<draining, thread, retired, draining_slots, call>>
       \/ /\ At(c, "grow_wait") /\ call[c].i \notin live
          /\ Join(c, call[c].i, "grow")
          /\ Forget(call[c].i)
          /\ UNCHANGED live
    /\ UNCHANGED <<flags, num_threads, mutexes, tasks>>

try_start_worker_during_resize(c) ==
    /\ At(c, "grow") /\ call[c].todo # {}
    /\ LET i == Least(call[c].todo) IN
        /\ i \notin retired
        /\ IF shutdown_started \/ ~running
           THEN UNCHANGED <<live, thread>>
           ELSE live' = live \cup {i} /\ thread' = [thread EXCEPT ![i] = "loop"]
        /\ call' = [call EXCEPT ![c].todo = @ \ {i}]
    /\ UNCHANGED <<flags, num_threads, draining, retired, draining_slots, mutexes, tasks>>

Grown(c) ==
    /\ At(c, "grow") /\ call[c].todo = {}
    /\ num_threads' = call[c].count
    /\ workers_mutex' = Unheld
    /\ Goto(c, "resized")
    /\ UNCHANGED <<flags, live, draining, thread, retired, draining_slots, join_mutex, tasks>>

(* finish_resize_, and the shutdown a worker has left to this thread. *)
finish_resize(c) ==
    /\ At(c, "resized")
    /\ resizing' = FALSE /\ deferred' = FALSE
    /\ Goto(c, IF deferred THEN "force" ELSE "adjusted")
    /\ UNCHANGED <<running, shutdown_started, graceful, teardown, pool_stopped,
                   workers, mutexes, tasks>>

-----------------------------------------------------------------------------
CallSteps(c) ==
    \/ CloseAdmission(c) \/ wait_for_idle(c, FALSE) \/ Seal(c)
    \/ ClaimTeardown(c) \/ Awake(c) \/ ClosePool(c) \/ DrainPool(c)
    \/ StopWorker(c) \/ JoinWorker(c) \/ drain_remaining_tasks(c)
    \/ StopRetired(c) \/ JoinRetired(c) \/ finish_shutdown_teardown(c)
    \/ join_remaining_workers(c)
    \/ ResizeLock(c) \/ Shrink(c) \/ reap_draining_workers(c) \/ enter_draining_mode(c)
    \/ wait_for_draining_worker(c) \/ try_start_worker_during_resize(c) \/ Grown(c)
    \/ finish_resize(c)

WorkerSteps(i) ==
    \/ get_next_task(i) \/ run_or_redistribute_retiring_task(i) \/ RunAtStop(i)
    \/ Retire(i) \/ LeaveLoop(i) \/ Exit(i)

SchedNext ==
    \/ start
    \/ \E t \in Tasks : go(t) \/ acquire_external_lease(t) \/ release_lease(t)
                        \/ submit_blocking(t) \/ resume_blocking(t) \/ Finish(t)
                        \/ \E p \in Tasks : do_go_task_linked(p, t)
    \/ \E i \in Slots : WorkerSteps(i)
    \/ \E c \in Callers : CallSteps(c) \/ shutdown(c) \/ shutdown_force(c)
                          \/ wait_for_idle(c, TRUE)
    \/ \E c \in Threads, n \in 1..MaxWorkers : set_thread_count(c, n)

(* Threads run, tasks and blocking jobs end, leases are given back. *)
SchedFairness ==
    /\ \A c \in Callers : WF_schedVars(CallSteps(c))
    /\ \A i \in Slots : WF_schedVars(WorkerSteps(i))
    /\ \A t \in Tasks : SF_schedVars(Finish(t)) /\ WF_schedVars(resume_blocking(t))
                        /\ WF_schedVars(release_lease(t))

SchedSpec == SchedInit /\ [][SchedNext]_schedVars /\ SchedFairness

-----------------------------------------------------------------------------
SchedTypeOK ==
    /\ live \subseteq Slots /\ draining \subseteq Slots
    /\ retired \subseteq Slots /\ draining_slots \subseteq Slots
    /\ num_threads \in 1..MaxWorkers
    /\ thread \in [Slots -> {"none", "loop", "retiring", "stopping", "exited"}]
    /\ at \in [Tasks -> 0..MaxWorkers] /\ lease \in [Tasks -> 0..MaxWorkers]

(* An admitted task is never lost: it is not destroyed by                    *)
(* drain_remaining_tasks(), never queued where no thread will run it, and    *)
(* not dropped by a blocking job that finds no worker.  One caller is: the   *)
(* one that leased a worker which a growing resize stopped although the      *)
(* graceful shutdown, begun meanwhile, still waits for that caller.          *)
NoTaskIsLost ==
    \A t \in Tasks :
        /\ task[t] # "destroyed"
        /\ task[t] = "stranded" => at[t] # Nowhere /\ shutdown_started
        /\ task[t] = "queued" => thread[at[t]] \in {"loop", "retiring", "stopping"}

(* shutdown() decides that everything has drained when nothing it tracks is  *)
(* left, and a task that still runs untracked cannot add a child after that; *)
(* any shutdown of a thread outside the scheduler returns after the last     *)
(* worker thread has ended.                                                  *)
ShutdownIsHonest ==
    \A c \in Threads :
        /\ call[c].drained = "sealed" =>
            \A t \in Tasks \ Raw : task[t] \notin {"queued", "blocked", "running"}
        /\ At(c, "returned") => \A i \in Slots : thread[i] = "none"

(* The load that wait_for_idle() adds up misses no worker: what is queued is *)
(* on a visible slot or on one marked as draining, also while a resize moves *)
(* the boundary, and so is a leased worker until a shutdown begins.          *)
NoInvisibleLoad ==
    \A t \in Tasks :
        /\ task[t] = "queued" => at[t] \in Visible \cup draining_slots
        /\ lease[t] # Nowhere /\ ~shutdown_started => lease[t] \in Visible \cup draining_slots

(* A thread is joined by one caller at a time, and the thread object of a    *)
(* worker is not overwritten while it is joinable.                           *)
Joining == {"stop_join", "rejoin_join", "list_join", "relist_join", "reap_join", "grow_wait"}
JoinsAreExclusive ==
    \A c, d \in Callers :
        c # d /\ call[c].pc \in Joining /\ call[d].pc \in Joining => call[c].i # call[d].i

(* A leased worker keeps running until the lease is released or a shutdown   *)
(* has begun: a resize that waits for its slot then stops it at once.        *)
LeaseHolds ==
    \A t \in Tasks : lease[t] # Nowhere /\ ~shutdown_started => lease[t] \in live

(* What the comment of shutdown() says: tasks that are suspended on I/O when *)
(* the drain begins complete, so the worker that polls for them runs on.     *)
DrainKeepsIo ==
    \A t \in Tasks : lease[t] # Nowhere /\ graceful => lease[t] \in live

(* No call is under way: shutdowns, resizes and the shutdown a task         *)
(* requests on its own worker do not wait for one another for ever, and a   *)
(* shutdown that a worker deferred to a resize is carried out.              *)
Served ==
    /\ \A c \in Callers : call[c].pc \in {"ready", "returned", "adjusted"}
    /\ deferred => ~running

=============================================================================
