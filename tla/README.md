# Verification of Elio

TLA+ modules for Elio (a header-only C++20 coroutine library,
`include/elio/`), TLC configurations that check them on small instances, and
TLAPS proofs for the synchronisation primitives and the lock-free queues that
cover every number of operations, threads, permits and slots. `PROJECT.json` is
the index: which definition models which lines, which run checks which
property, which hazards the properties are for, which theorem states which
property.

## The system and its parts

| Layer | Source | What it does |
| --- | --- | --- |
| Runtime | `runtime/` | worker threads with Chase-Lev deques and MPSC inboxes, stealing, idle/wake protocol, shutdown, resizing, blocking pool, worker leases, autoscaler, `serve` |
| Coroutines | `coro/` | tasks, generators, join handles, task groups, `when_all`/`when_any`, time-outs, cancel tokens |
| Synchronisation | `sync/` | mutex, shared mutex, semaphore, event, condition variable, channel, lock-free ring, object cache |
| I/O | `io/`, `time/`, `signal/` | epoll and io_uring backends, operation states, timers, file transfers, signalfd |
| Network | `net/`, `tls/` | TCP and Unix sockets, resolver, TLS streams |
| Protocols | `http/`, `rpc/`, `rdma*/` | HTTP/1 client and server, pools, HTTP/2, WebSocket, server-sent events, RPC, RDMA |
| Leaves | `hash/`, `log/` | checksums and digests, logging |

How they interact: an awaiter suspends its coroutine and publishes the handle.
Another thread selects the result (a notification, a completion, a
cancellation), and whoever wins the last compare-exchange gives the handle to
the scheduler, through a worker's inbox or local deque; the worker resumes it.
A frame may be destroyed while it is suspended, so every one of these steps has
to cope with a frame that is gone. Most properties here are about that chain:
nothing is selected twice, lost, resumed dead, or left asleep.

## Modules

| Module | Models | State and actions |
| --- | --- | --- |
| `WakeState` | `sync/detail/wake_state.hpp`, `detail/intrusive_list.hpp` | the ten states of the byte and each member function as a function on it; a list of waiters as a sequence |
| `Waiter` | what the awaiters of the primitives share | construction, claim, scheduling outside the lock, the cancel callback, resumption, destruction; extended by the primitives |
| `Mutex` | `sync/mutex.hpp` | every access to `state_` and to the wake state that another thread can interleave with is a step |
| `Semaphore`, `Event`, `ConditionVariable` | the headers of these names | a critical section is a step; the lock of a condition variable is what `PermitPool` promises for one permit |
| `SharedMutex` | `sync/shared_mutex.hpp` | the three fields of `state_`, both queues, the lock-free paths, the hand-over of the last reader, the removal of a queued writer in two steps |
| `Channel` | `sync/channel.hpp` | rendezvous, bounded and unbounded; receivers of a bounded channel claim a ring position and give the slot back in separate steps; `close()` holds the lock while it moves the ring value by value |
| `ObjectCache` | `sync/object_cache.hpp` | one key: coalesced construction, borrows, release, eviction, the sweeper |
| `LockfreeRing`, `MpscQueue`, `ChaseLevDeque` | the three lock-free queues | one atomic access is a step |
| `CancelToken` | `coro/cancel_token.hpp` | threads with a stack of calls: `on_cancel`, `cancel`, the dispatch of callbacks (which call back), `unregister` with its waiting rules, parent links |
| `CompletionWaiter` | `coro/detail/completion_waiter.hpp` | the slot and its generation-numbered leases as functions |
| `TaskGroup` | `coro/task_group.hpp` | spawn, permits, failures, cancellation, join, scope, destruction |
| `JoinHandle` | the join state of a spawned task | publication, direct and bounded observation, timer and cancel callback, destruction waits |
| `Task` | tasks, generators, `task_handle`, `when_all`, `when_any`, `with_timeout` | frames and their execution context, the four outcomes (a value is moved out by the first await of a handle), the combinators on top of a group |
| `Worker` | `runtime/worker_thread.hpp` and the worker's part of `runtime/scheduler.hpp` | submission with spill, wake-up, run loop, transfer, drain, retirement, stop, `queue_size()` |
| `Scheduler` | the life cycle in `runtime/scheduler.hpp`, leases | admission, start, graceful drain and its seal, forced teardown, growing and shrinking |
| `Supervision` | blocking pool, placement, autoscaler, `serve` | four parts with variables of their own |
| `IoContext` | `io/`, `time/` | awaitables and operation states, the epoll and the io_uring backend behind one interface, file transfers, timers |
| `Net`, `Tls` | `net/`, `tls/tls_stream.hpp` | sockets and their loops, the resolver; handshake, read, write, output pump, close |
| `Rpc`, `HttpClient`, `HttpServer`, `WebSocket`, `Sse` | `rpc/`, `http/` | calls, sessions and servers; pool, dialling and exchange; connection, body writer, router and parsers; frames, connection and client; events and client |
| `PermitPool`, `Fifo`, `Deque` | abstract specifications | what mutex and semaphore; ring, inbox and channel; and the deque are shown to implement |
| `Sync`, `Queues`, `Coro`, `Runtime`, `Network`, `Protocols`, `Progress` | the compositions | one run each over the behaviours of several parts |
| `...Proof` | | the theorems, see below |

A module that holds several parts gives each its own variables, with a prefix
(`Sc`, `Ws`, `Hp`, ...). The compositions let a behaviour use one part, `used`,
because those parts share no state; where parts do interact (tokens and groups,
completion slots and join handles, channel and ring, condition variable and
lock, the two backends and their operations) one module models both sides. What
the parts promise alike is stated once, over whichever part is used.

Conventions. A *waiter* is one `co_await` (or one `try_` call): it is used once,
because every `co_await` builds an awaiter of its own. A section under a
`std::mutex` is one step unless a lock-free access of another thread inside it
makes a difference; then it is held over several. What the code does after the
unlock (scheduling) is a step of its own. A frame may be destroyed while
suspended until scheduling owns its handle, which is what `abandon` assumes.
Delays and time-outs pass at any time. `Mut...` operators are the definitions
next to them with a plausible mistake; they are used by nothing and show that
each property can fail.

Memory. The queues and `state_` words are modelled with sequentially consistent
accesses. The code orders the accesses that matter with `seq_cst` fences or
acquire/release pairs on the very word that decides; weak-memory outcomes that
these orders admit are not explored.

## Runs

Sizes are distinct states. Every passing run ends within four minutes with two
workers.

| Run | Instance | States | What it shows |
| --- | --- | --- | --- |
| `sync` | 3 operations on the mutex, the semaphore (1 permit at first, at most 2, 3 released) and the event; 2 waits on the condition variable; 2 readers and 2 writers on the shared mutex | 536,426 | one owner, exact wakes, conserved permits as `PermitPool` says, nobody asleep beside a permit, a set event or a free lock, the lock owned again on each path out of `wait`, a notification not swallowed by cancelled waiters, writer preference; and the inductive invariants the proofs use |
| `queues` | rings of 2 slots, 4 values; a deque that grows once, 4 items, 2 thieves | 1,050,241 | ring and inbox implement `Fifo`, the deque implements `Deque`; slots have one owner, no buffer is read after it was deleted |
| `channel` | 3 senders, 2 receivers, capacities 0, 1, 2 and unbounded; plain calls, or calls with a token | 1,119,505 | `Fifo` as abstract specification but for pops beside `close()`, honest results, exact wakes, the capacity, room offered to waiting senders |
| `coro` | 2 threads, 2 sources, 2 callbacks with any body; 2 children, limits 0 and 1; 2 observers; 3 task frames and a generator on 2 workers; 3 consumers, 3 branches | 3,096,051 | nothing runs after `unregister()` returned, joins are woken once and only when all have left, outcomes are what happened, the current frame is the running one |
| `runtime` | a worker with an inbox of 1, 2 tasks, 1 node; 2 threads shutting down and resizing 2 workers; 3 jobs on a pool of 1 thread and 1 place, one of a caller that leases its worker; 2 listeners, 2 connections; 3 users of the object cache | 4,067,979 | accepted work runs or is handed back, no lost wake, leases and pins hold, a stop that returned is one, borrows are counted |
| `network` | 2 operations on 1 descriptor over epoll or a ring of 2 entries; files of 3 bytes, chunks of 2; 3 lookups under a limit of 1 | 2,382,444 | every waiting operation is held once by its backend, counts are exact, cancellation hits its own operation, no byte and no descriptor is lost |
| `protocols` | 3 RPC calls over 2 ids, 2 sessions; 3 HTTP operations on 2 routes under 5 settings of the pool; 3 requests; 3 WebSocket frames, texts of 4 bytes, 3 messages over 2 connects; HTTP messages of up to 2 header lines cut anywhere; 3 events, 2 attempts | 2,145,748 | what is written is read back, frames stay whole, answers reach their calls, limits and shutdowns are exact, the first outcome stays |
| `tls` | a reader, a writer, a closer, 1 unit of input, an output budget of 1 | 1,041,047 | nobody waits for an output nobody sends, a success was one |
| `progress` | 17 parts, smaller instances | 417,699 | under the fairness below, every wait that could end ends |
| `shared_mutex_exclusion`, `release_early`, `graceful_drain` | see `PROJECT.json` | violation | see Findings |

Why these bounds. Two waiters make a hand-over, the third makes a queue in which
somebody behind a cancelled or destroyed one has to be found. Queues of two
slots and four values go round twice, so stale positions and sequence numbers
meet a later round; the deque's four items make it grow while a thief holds the
old buffer. An inbox of one slot makes the second submission spill, a pool of
one place makes the third job wait or be refused. Two children are enough for
the count to reach zero, be reopened and reach zero again. Two operations on
one descriptor share an epoll registration; a submission ring of two entries
fills up while a batch is prepared. Two RPC ids and three calls make ids wrap
while an answer is late, and let an answer carry the id of another call. The
settings of the HTTP pool are chosen for their limits: two callers who wait for
one connection (a departing waiter has a successor), a third who finds the queue
full while a connection is dialled, two routes that compete for the connection
or for the only bucket, and a pool without limits. A WebSocket message limit of two with
three frames reaches the limit within one frame and by accumulation. Texts of
two or three units, cut into reads anywhere, put every cut of a frame between
two reads. The condition variable was also run with three waits (1,650,641
states in all, four minutes); its properties hold there, and are proved for any
number of waits.

Symmetry is used in `channel`, `coro` (observers), `runtime` (threads), `network`
and `protocols` (calls with a token, HTTP operations), which check no liveness.
`CHECK_DEADLOCK FALSE` everywhere: operations are used once, so behaviours end.

Fairness, all in `Progress`. Weak fairness of the steps of an operation, a
dispatch, a cancel callback, a watchdog or a shutdown that has begun says that
threads keep running and that the scheduler resumes what it was given; timers
fire. Nothing forces an operation to begin, a token to be cancelled, a frame to
be destroyed, a peer to answer or an allocation to fail. Owners of a lock
unlock it; children, jobs and handlers end. Strong fairness is assumed twice: a
retiring worker that offers a task to another worker again and again is
accepted once, and a task of the scheduler that can run on a worker again and
again does so. Everything else is made once and needs weak fairness only. That
the shared mutex serves everybody is shown for the behaviours in which the assertion of
`finish_writer_removal_locked` holds.

## Findings

* `shared_mutex_exclusion`: `finish_writer_removal_locked` relies on
  `WRITER_WAITING` keeping writers out between its load of `state_` and its
  compare-exchange. When the last reader's hand-over comes late, another thread
  has cleared the flag already; a writer then takes the lock in between, and the
  retry admits a reader beside it. A debug build stops at the assertion of line
  942. `ExclusionIsKept` shows that this retry is the only step that can break
  exclusion.
* `release_early`: `object_cache::release()` waits for other borrows with an
  `if`. A borrow that begins between its check and its wait makes it register;
  the end of an older borrow then wakes it while the new one is in use.
* `graceful_drain`: a resize that waits for a retired worker asks it to stop as
  soon as a shutdown has begun, also a draining one, so a task suspended on I/O
  there loses the worker that polls for it, although `shutdown()` is documented
  to wait for such tasks. The continuation of a caller who waits for a blocking
  job on that worker is lost in the same way.

Exceptions that properties name, because the code behaves so:

* `FifoButForClose`: `close()` of a bounded channel moves the ring into the queue
  value by value, and a receiver that pops the ring beside it overtakes the
  values moved before. Nothing is lost or received twice.
* `ConnectedIsConnected`: a `uds_connect` that met a full backlog, see below.
* `NobodySleepsInVain`: an operation parked on a descriptor that was closed with
  `::close` behind its backend's back stays parked until the number is used
  again, as the comment at `io/io_awaitables.hpp:935` says. `IoContext` marks such
  a registration `Lost`.
* `WorkersOutliveTheirWork` and `NothingIsLost`: once a shutdown has begun, a
  growing resize stops a retired worker although a coroutine is pinned to it
  (`runtime/scheduler.hpp:1304`). What is pinned there, or holds a lease there for
  a blocking job, is not resumed any more (`graceful_drain` above).
* `ReusedIsClean`: a body withheld by `Expect: 100-continue` and not begun when the
  final response comes does not keep its connection from the pool
  (`http/http_client.hpp:1291`, 1326). A body that was begun does.

Remarks without a run, met while reading the code for the models:

* `serve()` spawns `listen_func` through a wrapper (`runtime/scheduler.hpp:129`)
  that calls it when the task first runs, so `listen()` reads `stop_epoch_`
  (`http/http_server.hpp:454`) then: after a `stop()` that came earlier the
  listener starts all the same, and `serve()` waits for it. The fold of
  `serve_all` (`runtime/serve.hpp:317`) awaits no handle behind one that threw.
* TLS `write`: when the output is retired between the checks of
  `tls/tls_stream.hpp:460` and 1200, line 468 lets the `ESHUTDOWN` pass and the
  retry fails the transport with `EIO`, while `wiki/API-Reference.md:4808`
  promises `ESHUTDOWN` without a transport failure.
* `sse_client`: a connect or a reconnection in progress overwrites the state
  `closed` ("Permanently closed", `http/sse_client.hpp:55`) in lines 707 and 770,
  and so does the end of a receive in lines 516 and 520.
* `uds_connect` takes `EAGAIN` of a full backlog for a connection in progress
  (`net/uds.hpp:1030`) and may hand out a socket that is not connected, while
  line 1147 says that connect failures return `nullopt`.
* A heartbeat whose ping does not go out because a close has begun ends without
  closing the socket (`http/websocket_server.hpp:460`, 478, 309), while
  `wiki/WebSocket-SSE.md:109` says that the connection then fails closed. A ping
  given up half-written may precede a Close frame.
* The comment at `io/epoll_backend.hpp:781` says that the entry of a descriptor
  is gone before its number is used again; the `::close` of
  `io/io_awaitables.hpp:916` leaves an entry with parked operations, which the
  comment above that function describes as repaired later.
* `yield()` puts a coroutine on the end of the deque its owner pops from
  (`time/timer.hpp:457`), so without a thief older tasks there do not run, while
  `wiki/API-Reference.md:5392` says that it yields to other coroutines.
* An `accept` completed for a frame that was destroyed leaves its descriptor
  open.
* `mpsc_queue` admits a capacity of 1 at compile time; its only use has 4096
  (`runtime/worker_thread.hpp:79`).

## Proofs

Checked with tlapm 1.4.5 (Z3, Zenon, LS4). The theorems hold for every value of
the constants that satisfies the assumptions named below; TLC evaluates those
in the runs `sync` and `queues`. Each invariant was an invariant of a TLC run
before its proof was begun.

| Theorem | States |
| --- | --- |
| `MutexProof!IndInvHolds`, `TypeCorrect` | the inductive invariant and the types of the mutex, among them that a handle is scheduled at most once |
| `MutexProof!MutualExclusion` | `OneHolder`: a held lock has exactly one operation that answers for it, a free one has none |
| `MutexProof!NobodyStranded`, `ResumptionIsSafe` | nobody is queued while the lock is free; a handle in the scheduler belongs to a suspended frame |
| `MutexProof!MutexIsPool` | the mutex implements `PermitPool` with one permit |
| `EventProof!EventInvariant` | the inductive invariant of the event alone |
| `SyncProof!SyncInvariant` | `InductiveInvariants`: those of mutex, semaphore, event and condition variable |
| `SyncProof!MutexExcludes`, `SemaphoreSafety`, `EventSafety`, `ConditionVariableSafety` | `OneHolder`, `SemaphoreIsSafe`, `EventIsSafe`, `ConditionVariableIsSafe` of the run `sync` |
| `SyncProof!NotificationsReach` | `NotifyReachesSomebody`, an action property: a notification with a waiter that still wants it in the queue selects one |
| `SyncProof!PoolRefinement` | `PoolsAreImplemented`: mutex and semaphore refine `PermitPool` step by step |
| `QueuesProof!QueuesInvariant` | the inductive invariants of the ring, the inbox and the deque's memory |
| `QueuesProof!RingIsExclusive` | `SlotsAreExclusive`: a slot of the ring belongs to one thread at a time |
| `QueuesProof!QueuesRefineFifo` | `QueuesAreFifo`: ring and inbox refine `Fifo`, atomic access by atomic access |
| `QueuesProof!DequeMemoryIsSafe` | `NoUseAfterFree`: no thief reads a buffer that was deleted |

Assumptions. `NoWaiterAssumption`, `NoOwnerAssumption`: null is not an
operation. `CountAssumption`: the permits are naturals and the semaphore starts
with no more than `count_` holds. `QueuesAssumption`: at least two slots (the
ring's constructor enforces it, `lockfree_ring.hpp:51`), producers are not
consumers, null is not a value. Capacities need not be powers of two: the
proofs use the remainder, which is what the mask computes for a power of two.
`DequeAssumption`: finitely many thieves, a first buffer of at least two slots.
`RingProof` states its lemmas under a hypothesis of its own, `RingAssumption`,
which `QueuesProof!RingIsUsed` derives for the ring as `Queues` uses it.

### The argument for the primitives

`OneHolder` alone is not inductive. A grant makes a *suspended* operation the
owner, so the invariant of the mutex has to know that a granted waiter cannot be
cancelled any more (`GrantInv`), that a queued waiter is queued once, not
granted, and waiting or cancelled (`QueueInv`), what the wake state can be at
each point of an operation (`LocationInv`), that a section held over several
steps excludes the others and that one about to enqueue knows the lock to be
held (`SectionInv`), that only the winner of the last compare-exchange schedules
(`WakeInv`), and that a wake about to be dispatched is wanted, done or abandoned
with its frame (`DispatchInv`). The proof has a lemma for each action that
touches the queue or a wake state, on top of three lemmas about sequences
without repetitions, and one step of `NextInv` for each other action.

The other primitives share their awaiters, so they share the core of their
invariant, `Waiter!WaiterInv(queue)`: location and wake state agree, the queue
holds each waiter once and none that was selected, the winner of the last
compare-exchange and nobody else has still to schedule, and whoever is neither
selected nor cancelled is queued. `WaiterProof` shows once how a step of one
waiter, a selection of queued waiters, a dispatch, a cancellation and the
destruction of a frame preserve it. What a primitive adds is short: for the
event, that nobody queued is uncancelled while it is set; for the condition
variable, who owns the lock at each point of a wait (`LockInv`); for the
semaphore, that `grant_pending` is exactly the set of waiters that were granted
a permit they have not found yet, and that the permits available or on their way
fit into `count_` (`GrantInv`). The latter needs cardinalities; the facts about
finite sets that are used are collected in `SetFacts`, a hypothesis of the
lemmas of `SemaphoreProof` that `SyncProof!SetFactsHold` derives from the
library's theorems.

The refinements map the owners of the pool to the operations that answer for a
permit, granted but suspended ones included. Every step then takes an available
permit, returns one, passes one from an owner to another, or leaves owners and
permits alone (`PoolStep` for the mutex, `StepKeeps` for the semaphore).

### The argument for the queues

A slot's role is decided by its position in the current round and its sequence
number, so the invariant of the ring describes the window of positions from
`tail_` to `tail_ + capacity` (`PositionInv`: before `head_` a slot is claimed or
full, from there on it is free or still being emptied by a consumer of the round
before), what a thread finds in a slot it has claimed (`ClaimInv`), and that what
a thread learned from the sequence number still holds when its compare-exchange
succeeds (`ExchangeInv`). Two facts of arithmetic carry it: positions less than
a round apart have different slots, and a position has the same slot in the next
round. `SlotsAreExclusive` follows. The abstract queue is read off the window:
the value at a position is in its slot or about to be written by the producer
that claimed it. A claim of `head_` puts a value, a claim of `tail_` takes the
oldest, and every other atomic access leaves the queue as it is; that each
value leaves once needs `ValueInv`. The inbox has the same shape with one
consumer, which takes an item when it advances `head_`.

The deque deletes retired buffers when `active_thieves` is zero. `MemoryInv` says
that the counter is the number of thieves inside `steal()`, that the buffer such
a thief is about to read is the current one or retired, and that retired and
deleted buffers are apart. `NoUseAfterFree` contains it.

### What stays with TLC

* All liveness: fairness and `ENABLED` are outside the prover's reach.
* `ImplementsDeque`: the contents of a deque that has grown depend on the sizes
  of its buffers, which double, and on copies made by a loop; both need
  induction over data, which the installed provers cannot instantiate.
* `SharedMutexIsSafe` and `ExclusionIsKept`: exclusion itself does not hold, see
  Findings, so what can be proved is the behaviour up to that step.
* The parsers and encoders of HTTP, WebSocket and server-sent events, which
  are recursive operators over sequences.
* `Channel` and the coroutine, runtime, network, protocol and TLS modules: no
  inductive invariant has been worked out for them.

## Not modelled

Within modelled parts: allocation failures other than those of an awaiter's
wake state, of `event::set()` and of `TaskGroup`'s permits and failure list (so
not those of a channel's queue and its `close()`); exceptions of cancel
callbacks; saturation of the 62-bit reader count; wrap of 64-bit positions; a
scheduler that is destroyed under a living task group (the documentation
forbids it); stealing by the modelled worker, pinned tasks and I/O leases in
`Worker` (placement and leases are in `Supervision` and `Scheduler`);
`SSL_ERROR_WANT_WRITE`, which the output BIO of a TLS stream never reports.

Not modelled at all, with the reasons in `PROJECT.json`: HTTP/2 and RDMA, whose
state belongs to nghttp2 and to a driver; signals, TLS contexts and tunnels;
hash functions, logging, and wrappers over system calls.
