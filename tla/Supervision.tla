---------------------------- MODULE Supervision -----------------------------
(***************************************************************************)
(* This module holds what the scheduler rests on and what runs beside it:  *)
(* the autoscaler, the serve loops, the placement of coroutines on workers *)
(* and the blocking pool.  Its parts have their own variables; modules     *)
(* that use one of them leave the others out.                              *)
(***************************************************************************)
EXTENDS Naturals, Sequences, FiniteSets, FiniteSetsExt

-----------------------------------------------------------------------------
(***************************************************************************)
(* runtime::autoscaler: the thread that samples the load of a scheduler    *)
(* once a tick and resizes its pool, while the configuration changes, the  *)
(* program resizes the pool itself, and stop() is called.  Durations are   *)
(* counted in ticks, up to one more than the delay they are compared with. *)
(***************************************************************************)
CONSTANTS MaxPending,      \* bound of the load
          ScPool           \* MAX_THREADS

(* The two configurations update_config() switches between. *)
Configs == {[over |-> 1, idle |-> 4, delay |-> 1, min |-> 1, max |-> ScPool - 1],
            [over |-> 0, idle |-> 2, delay |-> 0, min |-> 2, max |-> ScPool]}
MaxDelay == 2
Pool == 1..ScPool

VARIABLES
    scaler, scaler_pc,     \* running_; where the thread is
    config, cfg,           \* config_ and the copy of this tick
    load,                  \* pending_tasks() as sampled
    pool, sampled,         \* num_threads(): now, and as sampled
    idle_for,              \* ticks since last_idle_time
    progressed, asleep,    \* has the first worker executed a task since its last sample; is it idle?
    stuck_for,             \* what block_observations_ say of it: ticks, or none
    low_for                \* ticks for which the load was below the threshold (for the property)

scVars == <<scaler, scaler_pc, config, cfg, load, pool, sampled, idle_for,
            progressed, asleep, stuck_for, low_for>>

NoObservation == MaxDelay + 1
Cap(n) == IF n > MaxDelay THEN MaxDelay ELSE n

ScInit ==
    /\ scaler = "off" /\ scaler_pc = "none"
    /\ config = CHOOSE c \in Configs : c.min = 1
    /\ cfg = config
    /\ load = 0
    /\ pool = 1 /\ sampled = 1
    /\ idle_for = 0 /\ low_for = 0
    /\ progressed = FALSE /\ asleep = TRUE
    /\ stuck_for = NoObservation

-----------------------------------------------------------------------------
start_scaler ==
    /\ scaler = "off" /\ scaler_pc = "none"
    /\ scaler' = "on" /\ scaler_pc' = "tick"
    /\ stuck_for' = NoObservation
    /\ idle_for' = 0 /\ low_for' = 0
    /\ UNCHANGED <<config, cfg, load, pool, sampled, progressed, asleep>>

(* stop(): the flag, and the join that returns when the thread has ended. *)
stop_scaler ==
    /\ \/ scaler = "on" /\ scaler' = "stopping" /\ UNCHANGED scaler_pc
       \/ scaler = "stopping" /\ scaler_pc = "ended" /\ scaler' = "off" /\ scaler_pc' = "none"
    /\ UNCHANGED <<config, cfg, load, pool, sampled, idle_for, progressed, asleep,
                   stuck_for, low_for>>

update_config ==
    /\ \E c \in Configs : config' = c
    /\ UNCHANGED <<scaler, scaler_pc, cfg, load, pool, sampled, idle_for, progressed,
                   asleep, stuck_for, low_for>>

(* The head of the loop: stop, or copy the configuration and sample. *)
Sample ==
    /\ scaler_pc = "tick"
    /\ IF scaler = "on"
       THEN /\ scaler_pc' = "overload" /\ cfg' = config
            /\ \E pending \in 0..MaxPending : load' = pending
            /\ sampled' = pool
            /\ low_for' = IF load' < config.idle THEN low_for ELSE 0
       ELSE scaler_pc' = "ended" /\ UNCHANGED <<cfg, load, sampled, low_for>>
    /\ UNCHANGED <<scaler, config, pool, idle_for, progressed, asleep, stuck_for>>

(* compute_scale_up_step *)
compute_scale_up_step(p, n, c) ==
    IF p <= c.over \/ n >= c.max THEN 0
    ELSE LET overload == IF c.over = 0 THEN 1 ELSE c.over
             ratio == (p + overload - 1) \div overload
             step == IF ratio > 1 THEN ratio - 1 ELSE 1
         IN  Min({step, c.max - n})

(* set_thread_count() of the scheduler: between 1 and MAX_THREADS. *)
set_thread_count(n) == pool' = Max({1, Min({n, ScPool})})

(* handle_default_overload, with the count of the sample, and the trigger    *)
(* on_overload, which reads it again.                                        *)
Overload(now) ==
    /\ scaler_pc = "overload" /\ scaler_pc' = "idle"
    /\ LET step == compute_scale_up_step(load, now, cfg) IN
        IF step > 0 THEN set_thread_count(now + step) ELSE UNCHANGED pool
    /\ UNCHANGED <<scaler, config, cfg, load, sampled, idle_for, progressed, asleep,
                   stuck_for, low_for>>

(* Mutant of below_idle_with_hysteresis: no hysteresis and no delay. *)
MutBelow_idle(now) == now > cfg.min

below_idle(now) == load * 2 < cfg.idle /\ idle_for > cfg.delay /\ now > cfg.min

(* handle_default_idle and the trigger on_idle. *)
IdleTrigger(now) ==
    /\ scaler_pc = "idle" /\ scaler_pc' = "block"
    /\ IF below_idle(now) THEN set_thread_count(now - 1) ELSE UNCHANGED pool
    /\ UNCHANGED <<scaler, config, cfg, load, sampled, idle_for, progressed, asleep,
                   stuck_for, low_for>>

(* worker_progress_observation::sample: since when the worker has been busy  *)
(* with the same task.                                                       *)
sample ==
    CASE asleep                                            -> NoObservation
      [] ~asleep /\ (progressed \/ stuck_for = NoObservation) -> 0
      [] OTHER                                             -> stuck_for

(* The trigger on_block, then last_idle_time and the sleep of one tick. *)
Block ==
    /\ scaler_pc = "block" /\ scaler_pc' = "tick"
    /\ stuck_for' = IF sample = NoObservation THEN NoObservation ELSE Cap(sample + 1)
    /\ progressed' = FALSE
    /\ idle_for' = IF load >= cfg.idle THEN 1 ELSE Cap(idle_for + 1)
    /\ low_for' = IF load >= cfg.idle THEN 1 ELSE Cap(low_for + 1)
    /\ UNCHANGED <<scaler, config, cfg, load, pool, sampled, asleep>>

(* The scheduler and the program beside it. *)
Elsewhere ==
    /\ \/ \E n \in Pool : pool' = n /\ UNCHANGED <<progressed, asleep>>
       \/ progressed' = TRUE /\ asleep' \in BOOLEAN /\ UNCHANGED pool
    /\ UNCHANGED <<scaler, scaler_pc, config, cfg, load, sampled, idle_for, stuck_for, low_for>>

Tick == Sample \/ (\E n \in {sampled, pool} : Overload(n) \/ IdleTrigger(n)) \/ Block

ScNext == start_scaler \/ stop_scaler \/ update_config \/ Tick \/ Elsewhere

(* stop() that has begun goes on. *)
StopGoesOn == scaler = "stopping" /\ stop_scaler

ScSpec == ScInit /\ [][ScNext]_scVars /\ WF_scVars(Tick) /\ WF_scVars(StopGoesOn)

-----------------------------------------------------------------------------
(* What the autoscaler sets lies within the limits of the configuration its  *)
(* tick has copied, even when the pool was resized under it, and it removes  *)
(* a worker only when no sample of the last idle_delay was at the threshold. *)
ScalesWithinLimits ==
    /\ scaler_pc = "overload" /\ scaler_pc' = "idle" /\ pool' # pool =>
         pool' <= cfg.max /\ load > cfg.over
    /\ scaler_pc = "idle" /\ scaler_pc' = "block" /\ pool' # pool =>
         pool' >= cfg.min /\ load < cfg.idle /\ low_for > cfg.delay

(* A worker is reported as blocked only if it executed nothing and was busy  *)
(* for the whole time.                                                       *)
BlockedIsBlocked ==
    scaler_pc = "block" /\ scaler_pc' = "tick" /\ progressed => stuck_for' \in {NoObservation, 1}

(* stop() has returned. *)
ScServed == scaler # "stopping"

-----------------------------------------------------------------------------
(***************************************************************************)
(* The accept loops of http::server and websocket::ws_server (both have    *)
(* the same), their stop(), the lifetime of connection handlers, and the   *)
(* callers that run servers to their end: serve(), serve_all() and run().  *)
(***************************************************************************)
CONSTANTS SvListeners,  \* listen tasks, as numbers from 1 on
          SvConns,      \* connections a peer opens
          SvStops       \* stop() calls besides the one of serve()

VARIABLES layout,       \* "own": a server for each listener; "shared": one for all
          site,         \* the servers, by number
          listener,     \* the listen tasks
          conn,         \* the connection handlers
          stopper,      \* another thread that calls stop()
          host          \* serve()/serve_all() and run() around it

svVars == <<layout, site, listener, conn, stopper, host>>

Owner(l) == IF layout = "own" THEN l ELSE 1
Sites == IF layout = "own" THEN SvListeners ELSE {1}

SvInit ==
    /\ layout \in {"own", "shared"}
    /\ site = [v \in SvListeners |-> [running |-> FALSE, epoch |-> 0, active |-> 0]]
    /\ listener = [l \in SvListeners |->
                     [pc |-> "unborn", epoch |-> 0, source |-> "none", got |-> FALSE]]
    /\ conn = [c \in SvConns |-> [pc |-> "none", of |-> 0]]
    /\ stopper = [pc |-> "idle", of |-> 0, copy |-> {}, left |-> SvStops]
    /\ host = [pc |-> "spawn", next |-> 1, copy |-> {}, error |-> "none",
               signalled |-> "no"]

-----------------------------------------------------------------------------
(* A source is alive while its loop or a connection accepted by it has it. *)
SourceLives(l) ==
    \/ listener[l].source # "none" /\ listener[l].pc \in {"loop", "accept", "check", "register"}
    \/ \E c \in SvConns : conn[c].of = l /\ conn[c].pc \in {"posted", "running"}

(* cancel_active_accepts, under its lock: the epoch moves on, running_ is  *)
(* cleared and the live sources are collected ...                          *)
stop_locked(v) ==
    site' = [site EXCEPT ![v].epoch = @ + 1, ![v].running = FALSE]

collect(v) ==
    {l \in SvListeners : Owner(l) = v /\ listener[l].source = "live" /\ SourceLives(l)}

(* ... and cancelled after it. *)
cancel_sources(copy) ==
    listener' = [l \in SvListeners |->
                   IF l \in copy THEN [listener[l] EXCEPT !.source = "cancelled"]
                   ELSE listener[l]]

stop ==
    /\ UNCHANGED <<layout, conn, host>>
    /\ \/ /\ stopper.pc = "idle" /\ stopper.left > 0
          /\ host.pc \in {"wait", "stop", "stopping"}
          /\ \E v \in Sites :
                /\ stop_locked(v)
                /\ stopper' = [stopper EXCEPT !.pc = "cancel", !.of = v, !.copy = collect(v)]
          /\ UNCHANGED listener
       \/ /\ stopper.pc = "cancel"
          /\ cancel_sources(stopper.copy)
          /\ stopper' = [pc |-> "idle", of |-> 0, copy |-> {}, left |-> stopper.left - 1]
          /\ UNCHANGED site

-----------------------------------------------------------------------------
(* listen and listen_tls: the epoch is read when the call is made, which   *)
(* for a task spawned with a callable is when the task first runs.  A      *)
(* callable may also throw.                                                *)
listen(l) ==
    /\ listener[l].pc = "spawned"
    /\ \/ listener' = [listener EXCEPT ![l].pc = "bind", ![l].epoch = site[Owner(l)].epoch]
       \/ layout = "own" /\ listener' = [listener EXCEPT ![l].pc = "threw"]
    /\ UNCHANGED <<layout, site, conn, stopper, host>>

(* listen_impl: the bind may fail; begin_accept_loop refuses a loop that a *)
(* stop() has overtaken.                                                   *)
begin_accept_loop(l) ==
    IF site[Owner(l)].epoch # listener[l].epoch
    THEN listener' = [listener EXCEPT ![l].pc = "done"] /\ UNCHANGED site
    ELSE /\ listener' = [listener EXCEPT ![l].pc = "loop", ![l].source = "live"]
         /\ site' = [site EXCEPT ![Owner(l)].running = TRUE]

bind(l) ==
    /\ listener[l].pc = "bind"
    /\ \/ listener' = [listener EXCEPT ![l].pc = "done"] /\ UNCHANGED site
       \/ begin_accept_loop(l)
    /\ UNCHANGED <<layout, conn, stopper, host>>

loop(l) ==
    /\ listener[l].pc = "loop"
    /\ listener' = [listener EXCEPT ![l].pc = IF site[Owner(l)].running THEN "accept" ELSE "done"]
    /\ UNCHANGED <<layout, site, conn, stopper, host>>

(* An accept ends with a connection, with an error or by cancellation. *)
accept(l) ==
    /\ listener[l].pc = "accept"
    /\ \/ \E c \in SvConns : conn[c].pc = "none"
          /\ listener' = [listener EXCEPT ![l].pc = "check", ![l].got = TRUE]
       \/ listener' = [listener EXCEPT ![l].pc = "check", ![l].got = FALSE]
    /\ UNCHANGED <<layout, site, conn, stopper, host>>

accept_loop_should_stop(l) ==
    /\ listener[l].pc = "check"
    /\ IF ~site[Owner(l)].running \/ listener[l].source = "cancelled"
       THEN /\ site' = [site EXCEPT ![Owner(l)].running = FALSE]
            /\ listener' = [listener EXCEPT ![l].pc = "done", ![l].got = FALSE]
       ELSE /\ listener' = [listener EXCEPT ![l].pc = IF listener[l].got THEN "register" ELSE "loop",
                                            ![l].got = FALSE]
            /\ UNCHANGED site
    /\ UNCHANGED <<layout, conn, stopper, host>>

(* The handler is counted before it is spawned. *)
register_connection(l) ==
    /\ listener[l].pc = "register"
    /\ \E c \in SvConns :
          /\ conn[c].pc = "none"
          /\ conn' = [conn EXCEPT ![c] = [pc |-> "posted", of |-> l]]
    /\ site' = [site EXCEPT ![Owner(l)].active = @ + 1]
    /\ listener' = [listener EXCEPT ![l].pc = "loop"]
    /\ UNCHANGED <<layout, stopper, host>>

(* handle_connection_guarded: the guard goes with the handler's frame. *)
run_connection(c) ==
    /\ \/ /\ conn[c].pc = "posted"
          /\ conn' = [conn EXCEPT ![c].pc = "running"]
          /\ UNCHANGED site
       \/ /\ conn[c].pc = "running"
          /\ conn' = [conn EXCEPT ![c].pc = "gone"]
          /\ site' = [site EXCEPT ![Owner(conn[c].of)].active = @ - 1]
    /\ UNCHANGED <<layout, listener, stopper, host>>

(* The four accept loops do the same; here listener 1 is that of an HTTP   *)
(* server, 2 its TLS one or, with a server of its own, a WebSocket one.    *)
Serving(l) ==
    bind(l) \/ loop(l) \/ accept(l) \/ accept_loop_should_stop(l) \/ register_connection(l)

listen_impl(l) == l = 1 /\ Serving(l)
listen_tls_impl(l) == l # 1 /\ layout = "shared" /\ Serving(l)
ws_listen_impl(l) == l # 1 /\ layout = "own" /\ Serving(l)

-----------------------------------------------------------------------------
Last == Cardinality(Sites)
NextOr(pc) == IF host.next < Last THEN [host EXCEPT !.next = @ + 1]
              ELSE [host EXCEPT !.next = 1, !.pc = pc]

(* serve_all: listen tasks first, then the signal, then stop() of each ... *)
serve_all_spawn ==
    /\ host.pc = "spawn"
    /\ listener' = [l \in SvListeners |-> [listener[l] EXCEPT !.pc = "spawned"]]
    /\ host' = [host EXCEPT !.pc = "wait"]
    /\ UNCHANGED <<layout, site, conn, stopper>>

wait_shutdown_signal ==
    /\ host.pc = "wait"
    /\ host' = [host EXCEPT !.pc = "stop"]
    /\ UNCHANGED <<layout, site, listener, conn, stopper>>

serve_all_stop ==
    /\ UNCHANGED <<layout, conn, stopper>>
    /\ \/ /\ host.pc = "stop"
          /\ stop_locked(host.next)
          /\ host' = [host EXCEPT !.pc = "stopping", !.copy = collect(host.next)]
          /\ UNCHANGED listener
       \/ /\ host.pc = "stopping"
          /\ cancel_sources(host.copy)
          /\ host' = [(IF host.next < Last
                       THEN [host EXCEPT !.next = @ + 1, !.pc = "stop"]
                       ELSE [host EXCEPT !.next = 1, !.pc = "join"]) EXCEPT !.copy = {}]
          /\ UNCHANGED site

(* ... then the listen tasks are awaited one by one; the first one that    *)
(* failed ends this ...                                                    *)
Joined == IF layout = "own" THEN {host.next} ELSE SvListeners

serve_all_join ==
    /\ host.pc = "join"
    /\ \/ /\ \A l \in Joined : listener[l].pc = "done"
          /\ host' = NextOr("drain")
       \/ /\ \E l \in Joined : listener[l].pc = "threw"
          /\ host' = [host EXCEPT !.next = 1, !.pc = "drain", !.error = "listen"]
    /\ UNCHANGED <<layout, site, listener, conn, stopper>>

(* ... and the counts are polled until each has been zero. *)
wait_active_connections_drained ==
    /\ host.pc = "drain"
    /\ site[host.next].active = 0
    /\ host' = NextOr("return")
    /\ UNCHANGED <<layout, site, listener, conn, stopper>>

(* completion_wrapper and run: the outcome is signalled, the main thread   *)
(* shuts the scheduler down and only then returns or throws it.            *)
completion_wrapper ==
    /\ host.pc = "return" /\ host.signalled = "no"
    /\ host' = [host EXCEPT !.signalled = IF host.error = "none" THEN "result" ELSE "exception"]
    /\ UNCHANGED <<layout, site, listener, conn, stopper>>

run_returns ==
    /\ \/ /\ host.pc = "return" /\ host.signalled # "no"
          /\ host' = [host EXCEPT !.pc = "shutdown"]
       \/ /\ host.pc = "shutdown"
          /\ host' = [host EXCEPT !.pc = "exit"]
    /\ UNCHANGED <<layout, site, listener, conn, stopper>>

-----------------------------------------------------------------------------
SvNext ==
    \/ stop
    \/ \E l \in SvListeners : \/ listen(l) \/ listen_impl(l) \/ listen_tls_impl(l)
                              \/ ws_listen_impl(l)
    \/ \E c \in SvConns : run_connection(c)
    \/ serve_all_spawn \/ wait_shutdown_signal \/ serve_all_stop \/ serve_all_join
    \/ wait_active_connections_drained \/ completion_wrapper \/ run_returns

SvSpec == SvInit /\ [][SvNext]_svVars

-----------------------------------------------------------------------------
Accepting(l) == listener[l].pc \in {"loop", "accept", "check", "register"}
Open(c) == conn[c].pc \in {"posted", "running"}

(* When serve() or serve_all() returns, what it served may be destroyed:   *)
(* no listen task and no connection handler uses a server any more, unless *)
(* a listen callable threw, which lets serve_all() return past the others. *)
(* The error is what run() then reports.                                   *)
NoUseAfterReturn ==
    /\ host.pc \in {"return", "shutdown", "exit"} /\ host.error = "none" =>
          /\ \A l \in SvListeners : listener[l].pc = "done"
          /\ \A c \in SvConns : ~Open(c)
    /\ \A v \in Sites :
          site[v].active = Cardinality({c \in SvConns : Open(c) /\ Owner(conn[c].of) = v})
    /\ host.pc = "exit" => (host.signalled = "exception" <=> host.error = "listen")

(* Once no stop() is under way, every listen call that one overtook has    *)
(* been told, and so has every connection such a call accepted, also when  *)
(* its loop had left before.                                               *)
StopReachesAll ==
    (stopper.pc = "idle" /\ host.pc # "stopping") =>
        \A l \in SvListeners :
            (listener[l].source = "live" /\ SourceLives(l)) =>
                listener[l].epoch = site[Owner(l)].epoch

-----------------------------------------------------------------------------
(***************************************************************************)
(* Where the scheduler puts a coroutine that becomes runnable: active I/O  *)
(* pins, worker-local tasks and user affinity, from schedule_handle() and  *)
(* try_schedule() through stealing to the redistribution by a worker that  *)
(* retires, while the pool is resized or shut down.  A pin belongs to an   *)
(* operation guard; the context counts it too (active_pins).               *)
(***************************************************************************)
CONSTANTS RtTasks, RtLocal,     \* RtLocal: maintenance tasks, local to worker 0
          RtWorkers             \* MAX_THREADS

VARIABLES
    up, visible,       \* running_ and num_threads_ of the scheduler
    awake, leaving,    \* workers with running_, with draining_
    where, place,      \* each task: suspended, queued, running ... and at which worker
    user_affinity,
    pins, pin_owner,   \* active_io_pins_ and io_owner_worker_
    active_pins,       \* of the context of each worker
    guard,             \* of each worker: guards that have released the task, not the context
    stolen,            \* the task a thief holds
    ending,            \* shutdown_started_
    growing            \* a set_thread_count() that grows waits for the slot it adds

rtVars == <<up, visible, awake, leaving, where, place, user_affinity, pins, pin_owner,
            active_pins, guard, stolen, ending, growing>>
rtWorkers == <<up, visible, awake, leaving, ending, growing>>
rtPins == <<pins, pin_owner, active_pins, guard>>

Ids == 0..(RtWorkers - 1)
None == RtWorkers
MaxPins == 2

RtInit ==
    /\ up = TRUE /\ visible = RtWorkers
    /\ awake = Ids /\ leaving = {}
    /\ where = [t \in RtTasks |-> "suspended"]
    /\ place = [t \in RtTasks |-> None]
    /\ user_affinity = [t \in RtTasks |-> IF t \in RtLocal THEN 0 ELSE None]
    /\ pins = [t \in RtTasks |-> 0] /\ pin_owner = [t \in RtTasks |-> None]
    /\ active_pins = [w \in Ids |-> 0]
    /\ guard = [w \in Ids |-> 0] /\ stolen = [w \in Ids |-> None]
    /\ ending = FALSE /\ growing = FALSE

Seen == 0..(visible - 1)
Pinned(t) == pins[t] > 0
effective_affinity(t) == IF Pinned(t) THEN pin_owner[t] ELSE user_affinity[t]
RunsSomething(w) == \E t \in RtTasks : where[t] = "running" /\ place[t] = w
Idle(w) == ~RunsSomething(w) /\ stolen[w] = None

Queue(t, w) ==
    /\ where' = [where EXCEPT ![t] = "queued"]
    /\ place' = [place EXCEPT ![t] = w]

Run(t, w) ==
    /\ where' = [where EXCEPT ![t] = "running"]
    /\ place' = [place EXCEPT ![t] = w]

LeaveWorker(t, how) ==
    /\ where' = [where EXCEPT ![t] = how]
    /\ place' = [place EXCEPT ![t] = None]

(* Nobody takes it: it stays suspended for ever, or is destroyed.  The place *)
(* keeps the worker it was pinned to.                                        *)
Lose(t, how) ==
    /\ where' = [where EXCEPT ![t] = how]
    /\ place' = [place EXCEPT ![t] = IF Pinned(t) THEN pin_owner[t] ELSE None]

clear_affinity(t) == user_affinity' = [user_affinity EXCEPT ![t] = None]

-----------------------------------------------------------------------------
(* do_spawn and schedule_active_io_pin_: the workers that take the task.    *)
(* None of them: it is rejected.                                            *)
do_spawn_targets(t) ==
    LET a == effective_affinity(t) IN
    CASE Pinned(t)                                      -> {pin_owner[t]} \cap awake
      [] ~Pinned(t) /\ t \in RtLocal                    -> {a} \cap awake
      [] ~Pinned(t) /\ t \notin RtLocal /\ a \in awake \cap Seen -> {a}
      [] OTHER                                          -> awake \cap Seen

(* ... and what becomes of the affinity. *)
do_spawn(t) ==
    /\ \E w \in do_spawn_targets(t) : Queue(t, w)
    /\ IF ~Pinned(t) /\ t \notin RtLocal /\ user_affinity[t] \in Seen \ awake
       THEN clear_affinity(t) ELSE UNCHANGED user_affinity

(* do_enqueue_to_(a): the worker itself, or do_spawn. *)
do_enqueue_to(t, a) ==
    IF ~Pinned(t) /\ t \notin RtLocal /\ a \in awake
    THEN Queue(t, a) /\ UNCHANGED user_affinity
    ELSE do_spawn(t)

(* try_schedule_current_worker_local_(rejection_fallback) on worker w. *)
fits_current_worker(t, w) ==
    CASE Pinned(t)                        -> pin_owner[t] = w
      [] ~Pinned(t) /\ t \in RtLocal      -> user_affinity[t] = w
      [] OTHER                            -> user_affinity[t] \in {None, w} \cup (Ids \ Seen)

(* has_live_schedule_target_ *)
has_live_schedule_target(t) ==
    CASE Pinned(t)                        -> pin_owner[t] \in awake
      [] ~Pinned(t) /\ t \in RtLocal      -> user_affinity[t] \in awake
      [] OTHER                            -> awake \cap Seen # {}

(* The local route that try_schedule() prefers: not for a movable task on a  *)
(* worker that drains, has stopped or is out of range.                       *)
prefers_current_worker(t, w) ==
    /\ fits_current_worker(t, w)
    /\ Pinned(t) \/ t \in RtLocal \/ w \in (awake \cap Seen) \ leaving

(* A look at the local route clears an affinity that is out of range. *)
forget_affinity(t) ==
    IF ~Pinned(t) /\ t \notin RtLocal /\ user_affinity[t] \in Ids \ Seen
    THEN clear_affinity(t) ELSE UNCHANGED user_affinity

(* schedule_handle() by a task on worker w: the preferred local route,       *)
(* do_spawn(), the local route as the fallback, until the task is queued or  *)
(* nobody is left to take it; and try_schedule() by a thread outside (None). *)
schedule_handle(t, w) ==
    /\ where[t] = "suspended"
    /\ w = None \/ \E s \in RtTasks : where[s] = "running" /\ place[s] = w
    /\ \/ /\ w # None /\ up /\ prefers_current_worker(t, w)
          /\ Queue(t, w) /\ forget_affinity(t)
       \/ /\ w # None /\ up /\ ~prefers_current_worker(t, w)
          /\ \E v \in do_spawn_targets(t) : Queue(t, v)
          /\ IF ~Pinned(t) /\ t \notin RtLocal /\ user_affinity[t] \in Ids \ (awake \cap Seen)
             THEN clear_affinity(t) ELSE UNCHANGED user_affinity
       \/ w = None /\ up /\ do_spawn(t)
       \/ /\ w # None /\ ~(up /\ do_spawn_targets(t) # {})
          /\ fits_current_worker(t, w)
          /\ Queue(t, w) /\ forget_affinity(t)
       \/ /\ ~(up /\ has_live_schedule_target(t))
          /\ w = None \/ ~fits_current_worker(t, w)
          /\ Lose(t, "dropped") /\ UNCHANGED user_affinity
    /\ UNCHANGED <<rtWorkers, rtPins, stolen>>

-----------------------------------------------------------------------------
(* A worker takes a task of its own queue ... *)
pop(w) ==
    /\ w \in awake /\ w \notin leaving /\ Idle(w)
    /\ \E t \in RtTasks : where[t] = "queued" /\ place[t] = w /\ Run(t, w)
    /\ UNCHANGED <<rtWorkers, user_affinity, rtPins, stolen>>

(* ... or one of another worker's (steal_task) and then looks at it. *)
steal_task(w) ==
    /\ w \in awake /\ w \notin leaving /\ Idle(w)
    /\ ~\E t \in RtTasks : where[t] = "queued" /\ place[t] = w
    /\ \E t \in RtTasks :
        /\ where[t] = "queued" /\ place[t] \in (awake \cap Seen) \ {w}
        /\ stolen' = [stolen EXCEPT ![w] = t]
        /\ where' = [where EXCEPT ![t] = "stolen"]
        /\ UNCHANGED place       \* the victim
    /\ UNCHANGED <<rtWorkers, user_affinity, rtPins>>

(* try_steal: it runs the task if it may, hands it to its owner, or gives it *)
(* back.                                                                     *)
try_steal(w) ==
    /\ stolen[w] # None
    /\ LET t == stolen[w]
           a == effective_affinity(t) IN
        \/ /\ IF Pinned(t) \/ t \in RtLocal THEN a = w ELSE a \in {None, w}
           /\ Run(t, w) /\ UNCHANGED user_affinity
        \/ /\ Pinned(t) /\ a # w
           /\ \/ a \in awake /\ Queue(t, a)
              \/ a \notin awake /\ place[t] \in awake /\ Queue(t, place[t])
              \/ a \notin awake /\ place[t] \notin awake /\ Lose(t, "destroyed")
           /\ UNCHANGED user_affinity
        \/ /\ ~Pinned(t) /\ t \in RtLocal /\ a # w
           /\ IF up /\ a \in Seen \cap awake THEN Queue(t, a) ELSE Lose(t, "destroyed")
           /\ UNCHANGED user_affinity
        \/ /\ ~Pinned(t) /\ t \notin RtLocal /\ a \notin {None, w}
           /\ \/ a \in Seen /\ up /\ do_enqueue_to(t, a)
              \/ /\ a \notin Seen \/ ~up \/ (a \notin awake /\ awake \cap Seen = {})
                 /\ Run(t, w) /\ clear_affinity(t)
    /\ stolen' = [stolen EXCEPT ![w] = None]
    /\ UNCHANGED <<rtWorkers, rtPins>>

(* What a task does while it runs: it starts an operation on its worker's    *)
(* context, changes its affinity, suspends, or ends with no guard left.      *)
acquire_io_pin(t) ==
    /\ where[t] = "running" /\ t \notin RtLocal /\ active_pins[place[t]] < MaxPins
    /\ Pinned(t) => pin_owner[t] = place[t]
    /\ pins' = [pins EXCEPT ![t] = @ + 1]
    /\ pin_owner' = [pin_owner EXCEPT ![t] = place[t]]
    /\ active_pins' = [active_pins EXCEPT ![place[t]] = @ + 1]
    /\ UNCHANGED <<rtWorkers, where, place, user_affinity, guard, stolen>>

set_affinity(t) ==
    /\ where[t] = "running" /\ t \notin RtLocal
    /\ \E a \in Ids \cup {None} : user_affinity' = [user_affinity EXCEPT ![t] = a]
    /\ UNCHANGED <<rtWorkers, where, place, rtPins, stolen>>

suspend(t) ==
    /\ where[t] = "running"
    /\ \/ LeaveWorker(t, "suspended")
       \/ pins[t] = 0 /\ LeaveWorker(t, "done")
    /\ UNCHANGED <<rtWorkers, user_affinity, rtPins, stolen>>

(* io_operation_guard::release(), by any thread: the task's pin ... *)
release_pin(t) ==
    /\ Pinned(t)
    /\ pins' = [pins EXCEPT ![t] = @ - 1]
    /\ guard' = [guard EXCEPT ![pin_owner[t]] = @ + 1]
    /\ UNCHANGED <<rtWorkers, where, place, user_affinity, pin_owner, active_pins, stolen>>

(* ... and then the context's. *)
release_context ==
    /\ \E w \in Ids :
        /\ guard[w] > 0
        /\ guard' = [guard EXCEPT ![w] = @ - 1]
        /\ active_pins' = [active_pins EXCEPT ![w] = @ - 1]
    /\ UNCHANGED <<rtWorkers, where, place, user_affinity, pins, pin_owner, stolen>>

-----------------------------------------------------------------------------
(* set_thread_count: the last worker is removed, or its slot added again.    *)
(* wait_for_draining_worker_ then waits until its old worker has retired; a  *)
(* shutdown that begins meanwhile makes it stop that worker, pinned or not,  *)
(* and no new one is started.                                                *)
Empty(w) == Idle(w) /\ ~\E t \in RtTasks : where[t] = "queued" /\ place[t] = w

resize ==
    /\ \/ /\ up /\ ~ending /\ ~growing /\ visible > 1
          /\ visible' = visible - 1 /\ leaving' = leaving \cup {visible - 1}
          /\ UNCHANGED <<awake, growing>>
       \/ /\ up /\ ~ending /\ ~growing /\ visible < RtWorkers
          /\ growing' = TRUE
          /\ UNCHANGED <<visible, awake, leaving>>
       \/ /\ growing /\ ending /\ visible \in awake
          /\ awake' = awake \ {visible}
          /\ UNCHANGED <<visible, leaving, growing>>
       \/ /\ growing /\ visible \notin awake /\ Empty(visible)
          /\ visible' = visible + 1 /\ leaving' = leaving \ {visible}
          /\ awake' = IF ending THEN awake ELSE awake \cup {visible}
          /\ growing' = FALSE
    /\ UNCHANGED <<up, ending, where, place, user_affinity, rtPins, stolen>>

(* run_or_redistribute_retiring_task *)
run_or_redistribute(w) ==
    /\ Idle(w) /\ (w \in leaving \/ w \notin awake)
    /\ \E t \in RtTasks :
        /\ where[t] = "queued" /\ place[t] = w
        /\ \/ /\ \/ Pinned(t) /\ pin_owner[t] = w
                 \/ ~Pinned(t) /\ t \in RtLocal /\ user_affinity[t] = w
                 \/ ~up /\ (~Pinned(t) \/ w \notin awake)
              /\ Run(t, w) /\ UNCHANGED user_affinity
           \/ /\ up /\ ~(Pinned(t) /\ pin_owner[t] = w)
              /\ do_spawn(t)
    /\ UNCHANGED <<rtWorkers, rtPins, stolen>>

retire(w) ==
    /\ w \in awake \cap leaving /\ Idle(w) /\ active_pins[w] = 0
    /\ awake' = awake \ {w}
    /\ UNCHANGED <<up, visible, leaving, ending, growing, where, place, user_affinity, rtPins,
                   stolen>>

(* A shutdown begins; when no resize is under way, running_ is cleared, and  *)
(* then the workers stop one after the other.                                *)
workers_stop ==
    /\ \/ ~ending /\ ending' = TRUE /\ UNCHANGED <<up, awake>>
       \/ ending /\ ~growing /\ up /\ up' = FALSE /\ UNCHANGED <<ending, awake>>
       \/ ~up /\ \E w \in awake : awake' = awake \ {w} /\ UNCHANGED <<up, ending>>
    /\ UNCHANGED <<visible, leaving, growing, where, place, user_affinity, rtPins, stolen>>

RtNext ==
    \/ \E t \in RtTasks :
        \/ \E w \in Ids \cup {None} : schedule_handle(t, w)
        \/ acquire_io_pin(t) \/ set_affinity(t) \/ suspend(t) \/ release_pin(t)
    \/ \E w \in Ids : pop(w) \/ steal_task(w) \/ try_steal(w) \/ run_or_redistribute(w) \/ retire(w)
    \/ release_context \/ resize \/ workers_stop

RtSpec == RtInit /\ [][RtNext]_rtVars

-----------------------------------------------------------------------------
(* A coroutine with I/O in flight runs on the worker whose context polls for *)
(* it, a maintenance task on its own worker, whoever scheduled, stole or     *)
(* redistributed it.                                                         *)
RunsWhereItMust ==
    \A t \in RtTasks : where[t] = "running" =>
        /\ Pinned(t) => pin_owner[t] = place[t]
        /\ t \in RtLocal /\ ~Pinned(t) => place[t] = user_affinity[t]

(* The worker a pin points to does not retire, also while a guard is being   *)
(* released, until a shutdown begins; and while the scheduler runs it drops  *)
(* or destroys no coroutine, but for one pinned to a worker that a growing   *)
(* resize has stopped because the shutdown began meanwhile.                  *)
PinsKeepWorkers ==
    up => \A t \in RtTasks :
        /\ Pinned(t) /\ ~ending => pin_owner[t] \in awake
        /\ where[t] \in {"dropped", "destroyed"} =>
            ending /\ place[t] # None /\ place[t] \notin awake

-----------------------------------------------------------------------------
(***************************************************************************)
(* runtime::blocking_pool and the awaitable of spawn_blocking(): the queue *)
(* of a pool and its threads, shutdown() by a thread of the program or by  *)
(* a job, and the claim protocol between the thread that ends a job and    *)
(* the destruction of the frame that waits for it.  A job is one           *)
(* spawn_blocking() call; without a scheduler it gets a thread of its own. *)
(***************************************************************************)
CONSTANTS Jobs,
          Leased,          \* the jobs whose caller has leased its worker
          PoolThreads,     \* the threads of the pool, at least one
          Closer,          \* a thread outside that calls shutdown()
          QueueLimit       \* queue_limit_ of the bounded calls

VARIABLES
    stopped, pool_queue,
    pool_thread,     \* where each thread of the pool is
    on,              \* the job each pool thread runs (a job runs it itself when standalone)
    job,             \* where each job is
    resume_state,    \* "alive", "resuming", "dead", "done"
    frame,           \* the coroutine that waits
    closing,         \* the first shutdown() call: who, where it is, what is left to do
    owner_up         \* the leased worker runs

poolVars == <<stopped, pool_queue, pool_thread, on, job, resume_state, frame, closing, owner_up>>

NoJob == "none"
Runners == PoolThreads \cup {Closer}

(* The scheduler runs until the pool's shutdown() has returned, see          *)
(* Scheduler!DrainPool.                                                      *)
sched_running == closing.at # "returned"

PoolInit ==
    /\ stopped = FALSE /\ pool_queue = <<>>
    /\ pool_thread = [p \in PoolThreads |-> "head"]
    /\ on = [r \in Runners |-> NoJob]
    /\ job = [j \in Jobs |-> "new"]
    /\ resume_state = [j \in Jobs |-> "alive"]
    /\ frame = [j \in Jobs |-> "running"]
    /\ closing = [at |-> "none", by |-> NoJob, todo |-> {}, remaining |-> <<>>]
    /\ owner_up = TRUE

-----------------------------------------------------------------------------
(* submit() under the pool's mutex; a rejection leaves the coroutine        *)
(* running with an exception.                                               *)
submit(j) ==
    IF stopped
    THEN job' = [job EXCEPT ![j] = "rejected"] /\ UNCHANGED <<pool_queue, frame>>
    ELSE /\ pool_queue' = Append(pool_queue, j)
         /\ job' = [job EXCEPT ![j] = "queued"]
         /\ frame' = [frame EXCEPT ![j] = "suspended"]

submit_bounded(j) ==
    IF stopped \/ Len(pool_queue) >= QueueLimit
    THEN job' = [job EXCEPT ![j] = "rejected"] /\ UNCHANGED <<pool_queue, frame>>
    ELSE /\ pool_queue' = Append(pool_queue, j)
         /\ job' = [job EXCEPT ![j] = "queued"]
         /\ frame' = [frame EXCEPT ![j] = "suspended"]

(* await_suspend: on a worker (a scheduler that has stopped rejects at once), *)
(* or on a thread of its own.                                                *)
await_suspend(j) ==
    /\ job[j] = "new" /\ frame[j] = "running"
    /\ \/ sched_running /\ (submit(j) \/ submit_bounded(j))
       \/ ~sched_running /\ job' = [job EXCEPT ![j] = "rejected"] /\ UNCHANGED <<pool_queue, frame>>
       \/ /\ job' = [job EXCEPT ![j] = "standalone"]
          /\ frame' = [frame EXCEPT ![j] = "suspended"]
          /\ UNCHANGED pool_queue
    /\ UNCHANGED <<stopped, pool_thread, on, resume_state, closing, owner_up>>

-----------------------------------------------------------------------------
(* worker_loop: the test at its head, and the wait with what follows.  A    *)
(* thread may leave although jobs are queued.                               *)
worker_loop(p) ==
    /\ \/ /\ pool_thread[p] = "head"
          /\ pool_thread' = [pool_thread EXCEPT ![p] = IF stopped THEN "exited" ELSE "wait"]
          /\ UNCHANGED <<pool_queue, on, job>>
       \/ /\ pool_thread[p] = "wait" /\ pool_queue # <<>>
          /\ on' = [on EXCEPT ![p] = Head(pool_queue)]
          /\ job' = [job EXCEPT ![Head(pool_queue)] = "running"]
          /\ pool_queue' = Tail(pool_queue)
          /\ pool_thread' = [pool_thread EXCEPT ![p] = "run"]
       \/ /\ pool_thread[p] = "wait" /\ stopped /\ pool_queue = <<>>
          /\ pool_thread' = [pool_thread EXCEPT ![p] = "exited"]
          /\ UNCHANGED <<pool_queue, on, job>>
    /\ UNCHANGED <<stopped, resume_state, frame, closing, owner_up>>

(* Jobs that some thread executes at present. *)
Executing(j) == job[j] = "standalone" \/ \E r \in Runners : on[r] = j /\ job[j] = "running"
Inline(j) == \A r \in Runners : on[r] # j

(* f() has returned: the work claims the right to resume, unless the frame   *)
(* is gone.                                                                  *)
Claim(j) ==
    /\ Executing(j)
    /\ IF resume_state[j] = "alive"
       THEN /\ resume_state' = [resume_state EXCEPT ![j] = "resuming"]
            /\ job' = [job EXCEPT ![j] = "claimed"]
       ELSE job' = [job EXCEPT ![j] = "finished"] /\ UNCHANGED resume_state
    /\ UNCHANGED <<stopped, pool_queue, pool_thread, on, frame, closing, owner_up>>

(* Where the dispatch puts the caller: with a lease on the worker that owns  *)
(* it, which drops it once it has stopped (it stops some time after the      *)
(* scheduler); else on the scheduler if it runs, or inline if there is none. *)
Continuation(j) ==
    CASE Inline(j)                                   -> {"inline"}
      [] ~Inline(j) /\ j \in Leased /\ ~owner_up     -> {"stranded"}
      [] ~Inline(j) /\ j \in Leased /\ owner_up      -> {"scheduled"} \cup
                                                       (IF sched_running THEN {} ELSE {"stranded"})
      [] OTHER -> {IF sched_running THEN "scheduled" ELSE "stranded"}

Dispatch(j) ==
    /\ job[j] = "claimed"
    /\ job' = [job EXCEPT ![j] = "dispatched"]
    /\ \E to \in Continuation(j) : frame' = [frame EXCEPT ![j] = to]
    /\ UNCHANGED <<stopped, pool_queue, pool_thread, on, resume_state, closing, owner_up>>

(* The store of kDone, after caller.resume() has returned when it was inline. *)
Done(j) ==
    /\ job[j] = "dispatched" /\ frame[j] # "inline"
    /\ resume_state' = [resume_state EXCEPT ![j] = "done"]
    /\ job' = [job EXCEPT ![j] = "finished"]
    /\ UNCHANGED <<stopped, pool_queue, pool_thread, on, frame, closing, owner_up>>

(* The thread goes on. *)
Next_task(r) ==
    /\ on[r] # NoJob /\ job[on[r]] = "finished"
    /\ on' = [on EXCEPT ![r] = NoJob]
    /\ pool_thread' = IF r \in PoolThreads THEN [pool_thread EXCEPT ![r] = "head"] ELSE pool_thread
    /\ UNCHANGED <<stopped, pool_queue, job, resume_state, frame, closing, owner_up>>

(* A graceful shutdown has begun and a resize waits for the slot of the      *)
(* leased worker: it stops that worker before the pool is closed.            *)
StopOwner ==
    /\ owner_up /\ Leased # {} /\ closing.at = "none"
    /\ owner_up' = FALSE
    /\ UNCHANGED <<stopped, pool_queue, pool_thread, on, job, resume_state, frame, closing>>

-----------------------------------------------------------------------------
Resume(j) ==
    /\ frame[j] = "scheduled"
    /\ frame' = [frame EXCEPT ![j] = "resumed"]
    /\ UNCHANGED <<stopped, pool_queue, pool_thread, on, job, resume_state, closing, owner_up>>

(* ~blocking_awaitable: at the end of the co_await, or with a frame that is  *)
(* destroyed while it is suspended.  It claims the state, or waits for kDone *)
(* unless it runs inside the inline resume.                                  *)
destroy_awaitable(j) ==
    /\ \/ frame[j] \in {"resumed", "inline"}
       \/ frame[j] = "suspended" /\ resume_state[j] = "alive"
       \/ frame[j] = "running" /\ job[j] = "rejected"
    /\ \/ resume_state[j] = "alive" /\ resume_state' = [resume_state EXCEPT ![j] = "dead"]
       \/ resume_state[j] = "resuming" /\ frame[j] = "inline" /\ UNCHANGED resume_state
       \/ resume_state[j] = "done" /\ UNCHANGED resume_state
    /\ frame' = [frame EXCEPT ![j] = "gone"]
    /\ UNCHANGED <<stopped, pool_queue, pool_thread, on, job, closing, owner_up>>

-----------------------------------------------------------------------------
(* shutdown(): the first call, by the outside thread or by a job on its pool *)
(* thread (which ends its own claim after that); later calls return at once. *)
shutdown_pool(who) ==
    /\ closing.at = "none"
    /\ who = Closer \/ \E p \in PoolThreads : on[p] = who /\ job[who] = "running"
    /\ stopped' = TRUE
    /\ closing' = [at |-> "join", by |-> who, todo |-> PoolThreads, remaining |-> <<>>]
    /\ UNCHANGED <<pool_queue, pool_thread, on, job, resume_state, frame, owner_up>>

(* join() of one thread after the other, detach() of its own. *)
JoinThread ==
    /\ closing.at = "join"
    /\ \E p \in closing.todo :
        /\ pool_thread[p] = "exited" \/ (closing.by # Closer /\ on[p] = closing.by)
        /\ closing' = [closing EXCEPT !.todo = @ \ {p}]
    /\ UNCHANGED <<stopped, pool_queue, pool_thread, on, job, resume_state, frame, owner_up>>

(* The queue is taken as it is, and runs on the thread that closes. *)
DrainInline ==
    /\ \/ /\ closing.at = "join" /\ closing.todo = {}
          /\ closing' = [closing EXCEPT !.at = "drain", !.remaining = pool_queue]
          /\ pool_queue' = <<>>
          /\ UNCHANGED <<on, job>>
       \/ /\ closing.at = "drain" /\ on[Closer] = NoJob /\ closing.remaining # <<>>
          /\ on' = [on EXCEPT ![Closer] = Head(closing.remaining)]
          /\ job' = [job EXCEPT ![Head(closing.remaining)] = "running"]
          /\ closing' = [closing EXCEPT !.remaining = Tail(@)]
          /\ UNCHANGED pool_queue
       \/ /\ closing.at = "drain" /\ on[Closer] = NoJob /\ closing.remaining = <<>>
          /\ closing' = [closing EXCEPT !.at = "returned"]
          /\ UNCHANGED <<pool_queue, on, job>>
    /\ UNCHANGED <<stopped, pool_thread, resume_state, frame, owner_up>>

InShutdown(j) == closing.at \in {"join", "drain"} /\ closing.by = j

JobSteps(j) == (~InShutdown(j) /\ Claim(j)) \/ Dispatch(j) \/ Done(j)

PoolNext ==
    \/ \E j \in Jobs : await_suspend(j) \/ JobSteps(j) \/ Resume(j) \/ destroy_awaitable(j)
    \/ \E p \in PoolThreads : worker_loop(p)
    \/ \E r \in Runners : Next_task(r)
    \/ \E w \in Jobs \cup {Closer} : shutdown_pool(w)
    \/ JoinThread \/ DrainInline \/ StopOwner

(* A resumed coroutine goes on and ends its co_await. *)
Leave(j) == frame[j] # "suspended" /\ destroy_awaitable(j)

(* Threads run, f() returns, a resumed coroutine ends its co_await. *)
PoolFairness ==
    /\ \A j \in Jobs : WF_poolVars(JobSteps(j)) /\ WF_poolVars(Resume(j))
                       /\ WF_poolVars(Leave(j))
    /\ \A p \in PoolThreads : WF_poolVars(worker_loop(p))
    /\ \A r \in Runners : WF_poolVars(Next_task(r))
    /\ WF_poolVars(JoinThread) /\ WF_poolVars(DrainInline)

PoolSpec == PoolInit /\ [][PoolNext]_poolVars /\ PoolFairness

-----------------------------------------------------------------------------
(* The handle is touched, from the claim to kDone, only while the frame      *)
(* exists; only the inline resume may end inside it.                         *)
HandleIsAlive ==
    \A j \in Jobs :
        /\ job[j] = "claimed" => frame[j] = "suspended"
        /\ job[j] = "dispatched" /\ ~Inline(j) => frame[j] # "gone"

(* Nobody is left suspended by a pool that shuts down: when shutdown() has   *)
(* returned, every accepted job has run and its caller is in the scheduler,  *)
(* except the one whose job called shutdown() itself and one whose leased    *)
(* worker was stopped before.                                                *)
NobodyIsStranded ==
    /\ closing.at = "returned" => \A j \in Jobs : job[j] # "queued"
    /\ \A j \in Jobs : frame[j] = "stranded" => closing.by = j \/ (j \in Leased /\ ~owner_up)

(* No accepted job is left, whatever races with shutdown(), each ended the  *)
(* wait for it, and shutdown() has returned.                                *)
Served ==
    /\ \A j \in Jobs : job[j] = "finished" => frame[j] \in {"gone", "stranded"}
    /\ \A j \in Jobs : job[j] \notin {"queued", "claimed", "dispatched"}
    /\ closing.at \in {"none", "returned"}

=============================================================================
