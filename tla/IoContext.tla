----------------------------- MODULE IoContext ------------------------------
(***************************************************************************)
(* This module holds an io_context: the awaitables of its operations, the  *)
(* epoll and the io_uring backend, the context over either of them; and    *)
(* the file operations built on it.  Its parts have their own variables;   *)
(* modules that use one of them leave the others out.                      *)
(***************************************************************************)
EXTENDS Integers, FiniteSets, SequencesExt

-----------------------------------------------------------------------------
(***************************************************************************)
(* What every I/O awaitable shares (io/io_awaitables.hpp, io/io_backend.hpp,*)
(* time/timer.hpp): the heap-allocated op_state that is handed to the       *)
(* backend, its three phases, the guard that pins the worker, and the       *)
(* cancellation state whose key is the ADDRESS of the op_state.  Addresses  *)
(* (Cells) are reused, so a stale key can name somebody else's operation.   *)
(*                                                                         *)
(* The owner thread runs coroutines, polls and executes cancellations; any  *)
(* thread may cancel a token or destroy a suspended frame whose operation   *)
(* is still pending.                                                        *)
(***************************************************************************)
CONSTANTS IoOps,      \* one co_await each
          Cells,      \* addresses of op_states
          Fds         \* descriptor numbers

VARIABLES frame,      \* the awaiting coroutine
          request,    \* what it asked for
          cell, mem,  \* the address of its op_state; who lives at an address
          phase, guard,
          token,      \* its cancel token is cancelled
          registered, \* its callback is registered with the token
          cancelled,  \* io_cancel_state::cancelled (and maintenance_published)
          queued,     \* the owner's maintenance list holds its cancel state
          gate,       \* io_cancel_key_gate::state_
          key,        \* io_cancel_state::op
          attempt,    \* the operation whose cancellation the owner executes
          deferred    \* handles a backend call has still to resume, in order

awaitVars == <<frame, request, cell, mem, phase, guard, token,
               registered, cancelled, queued, gate, key, attempt, deferred>>

NoCell == "nullptr"
Nobody == "nobody"
NoRequest == [dir |-> "none", fd |-> Nobody, regular |-> FALSE, cancellable |-> FALSE]

executing == 1
retired == 2

----------------------------------------------------------------------------
\* The awaitables, as what tells them apart for a backend: the direction they
\* wait for, whether a regular file is served inline, whether they have a token.

Ask(dir, fd, regular, cancellable) ==
    [dir |-> dir, fd |-> fd, regular |-> regular, cancellable |-> cancellable]

async_read(fd)    == Ask("in", fd, TRUE, FALSE)
async_write(fd)   == Ask("out", fd, TRUE, FALSE)
async_recv(fd)    == Ask("in", fd, FALSE, FALSE)
async_send(fd)    == Ask("out", fd, FALSE, FALSE)
async_accept(fd)  == Ask("in", fd, FALSE, FALSE)
async_connect(fd) == Ask("connect", fd, FALSE, FALSE)
async_close(fd)   == Ask("close", fd, FALSE, FALSE)
async_readv(fd)   == Ask("in", fd, TRUE, FALSE)
async_writev(fd)  == Ask("out", fd, TRUE, FALSE)
async_sendmsg(fd) == Ask("out", fd, FALSE, FALSE)
async_poll(fd)    == {Ask(d, fd, TRUE, FALSE) : d \in {"in", "out"}}
native_file_operation(fd) == Ask("file", fd, FALSE, FALSE)
sleep_awaitable   == Ask("timeout", Nobody, FALSE, FALSE)

batch_read(fd)    == Ask("batch", fd, FALSE, FALSE)
batch_write(fd)   == Ask("batch", fd, FALSE, FALSE)

cancellable_async_recv(fd)    == Ask("in", fd, FALSE, TRUE)
cancellable_async_send(fd)    == Ask("out", fd, FALSE, TRUE)
cancellable_async_connect(fd) == Ask("connect", fd, FALSE, TRUE)
cancellable_async_poll(fd)    == {Ask(d, fd, TRUE, TRUE) : d \in {"in", "out"}}
cancellable_sleep_awaitable   == Ask("timeout", Nobody, FALSE, TRUE)

Requests(fd) ==
    [read |-> {async_read(fd), async_readv(fd)},
     write |-> {async_write(fd), async_writev(fd)},
     recv |-> {async_recv(fd), async_accept(fd)},
     send |-> {async_send(fd), async_sendmsg(fd)},
     connect |-> {async_connect(fd)},
     close |-> {async_close(fd)},
     poll |-> async_poll(fd),
     file |-> {native_file_operation(fd)},
     batch |-> {batch_read(fd), batch_write(fd)},
     sleep |-> {sleep_awaitable},
     recv_or_cancel |-> {cancellable_async_recv(fd)},
     send_or_cancel |-> {cancellable_async_send(fd)},
     connect_or_cancel |-> {cancellable_async_connect(fd)},
     poll_or_cancel |-> cancellable_async_poll(fd),
     sleep_or_cancel |-> {cancellable_sleep_awaitable}]

----------------------------------------------------------------------------
AwaitInit ==
    /\ frame = [o \in IoOps |-> "idle"]
    /\ request = [o \in IoOps |-> NoRequest]
    /\ cell = [o \in IoOps |-> NoCell]
    /\ mem = [c \in Cells |-> Nobody]
    /\ phase = [o \in IoOps |-> "pending"]
    /\ guard = [o \in IoOps |-> FALSE]
    /\ token = [o \in IoOps |-> FALSE]
    /\ registered = [o \in IoOps |-> FALSE]
    /\ cancelled = [o \in IoOps |-> FALSE]
    /\ queued = [o \in IoOps |-> FALSE]
    /\ gate = [o \in IoOps |-> 0]
    /\ key = [o \in IoOps |-> NoCell]
    /\ attempt = Nobody
    /\ deferred = <<>>

\* The owner is inside an await_suspend.
Suspending == {o \in IoOps : frame[o] \in {"starting", "staged"}}
\* The owner is back in its run loop / a coroutine is running on it.
InLoop == deferred = <<>> /\ attempt = Nobody /\ Suspending = {}
              /\ \A o \in IoOps : frame[o] # "retrying"
InBody == attempt = Nobody /\ Suspending = {}

Retired(g) == IF g < retired THEN g + retired ELSE g

\* The first half of await_suspend for a request whose name is in menu: the token is looked at, the cancel state is
\* made and its callback registered.  A token that is cancelled already ends the
\* wait at once.
begin_wait(o, menu) ==
    /\ frame[o] = "idle" /\ InBody
    /\ \E fd \in Fds : \E name \in menu : \E r \in Requests(fd)[name] :
          \/ /\ r.cancellable
             /\ token' = [token EXCEPT ![o] = TRUE]
             /\ frame' = [frame EXCEPT ![o] = "done"]
             /\ UNCHANGED <<request, registered>>
          \/ /\ frame' = [frame EXCEPT ![o] = "starting"]
             /\ request' = [request EXCEPT ![o] = r]
             /\ registered' = [registered EXCEPT ![o] = r.cancellable]
             /\ UNCHANGED token
    /\ UNCHANGED <<cell, mem, phase, guard, cancelled, queued, gate, key, attempt, deferred>>

\* The token was cancelled while the callback was being registered.
give_up_wait(o) ==
    /\ frame[o] = "starting" /\ request[o].cancellable /\ token[o]
    /\ frame' = [frame EXCEPT ![o] = "done"]
    /\ registered' = [registered EXCEPT ![o] = FALSE]
    /\ gate' = [gate EXCEPT ![o] = Retired(@)]
    /\ UNCHANGED <<request, cell, mem, phase, guard, token, cancelled, queued, key, attempt, deferred>>

\* setup_op_state: the state is allocated and pins the worker; the cancel state
\* learns its address.
setup_op_state(o) ==
    /\ frame[o] = "starting" /\ ~(request[o].cancellable /\ token[o])
    /\ \E c \in Cells :
         /\ mem[c] = Nobody
         /\ cell' = [cell EXCEPT ![o] = c]
         /\ mem' = [mem EXCEPT ![c] = o]
         /\ key' = IF request[o].cancellable THEN [key EXCEPT ![o] = c] ELSE key
    /\ guard' = [guard EXCEPT ![o] = TRUE]
    /\ frame' = [frame EXCEPT ![o] = "staged"]
    /\ UNCHANGED <<request, phase, token, registered, cancelled, queued, gate, attempt, deferred>>

\* clear_op_state and what surrounds it when a backend refused the request (or
\* threw): the state is freed, the key withdrawn, the callback unregistered.
clear_op_state(o) ==
    /\ mem' = [mem EXCEPT ![cell[o]] = Nobody]
    /\ guard' = [guard EXCEPT ![o] = FALSE]
    /\ key' = [key EXCEPT ![o] = NoCell]
    /\ registered' = [registered EXCEPT ![o] = FALSE]

\* The refused coroutine goes on at once; await_resume retires the key.
Refuse(o) ==
    /\ clear_op_state(o)
    /\ frame' = [frame EXCEPT ![o] = "done"]
    /\ gate' = [gate EXCEPT ![o] = Retired(@)]
    /\ UNCHANGED <<request, cell, phase, token, cancelled, queued, attempt, deferred>>

\* The request was accepted: the coroutine stays suspended.  recheck_io_cancel
\* finds a cancellation published already, because the worker is known.
Suspend(o) ==
    /\ frame' = [frame EXCEPT ![o] = "suspended"]
    /\ UNCHANGED <<request, cell, mem, phase, guard, token, registered, cancelled,
                   queued, gate, key, attempt, deferred>>

\* request_io_cancel, called by the token's callback on any thread: the first
\* call gives the cancel state to the owner's maintenance list.
request_io_cancel(o) ==
    /\ token[o] /\ registered[o] /\ ~cancelled[o]
    /\ cancelled' = [cancelled EXCEPT ![o] = TRUE]
    /\ queued' = [queued EXCEPT ![o] = TRUE]
    /\ UNCHANGED <<frame, request, cell, mem, phase, guard, token, registered,
                   gate, key, attempt, deferred>>

\* A token nobody listens to makes no difference.
CancelToken(o) ==
    /\ ~token[o] /\ registered[o]
    /\ token' = [token EXCEPT ![o] = TRUE]
    /\ UNCHANGED <<frame, request, cell, mem, phase, guard, registered, cancelled,
                   queued, gate, key, attempt, deferred>>

\* attempt_io_cancel, first half: the gate is claimed, or the attempt is over
\* because the key has been retired.
try_claim_for_executor(o) ==
    /\ queued[o] /\ InLoop
    /\ IF gate[o] = 0
       THEN /\ gate' = [gate EXCEPT ![o] = executing] /\ attempt' = o
            /\ UNCHANGED queued
       ELSE queued' = [queued EXCEPT ![o] = FALSE] /\ UNCHANGED <<gate, attempt>>
    /\ UNCHANGED <<frame, request, cell, mem, phase, guard, token, registered,
                   cancelled, key, deferred>>

\* attempt_io_cancel, second half, once the backend has answered: a refused
\* attempt releases the gate and is tried again after the next poll.
finish_attempt(o, accepted) ==
    /\ attempt' = Nobody
    /\ IF accepted
       THEN gate' = [gate EXCEPT ![o] = Retired(@)] /\ queued' = [queued EXCEPT ![o] = FALSE]
       ELSE gate' = [gate EXCEPT ![o] = IF @ = executing THEN 0 ELSE @] /\ UNCHANGED queued

\* The coroutines of s that a backend call will resume.
Claimed(s) == SelectSeq(s, LAMBDA o : phase[o] = "pending")

\* A backend takes the operations of s out: a pending
\* one is completed and will be resumed, the state of an orphaned one is freed.
claim_resume(s) ==
    LET S == Range(s)
        dead == {o \in S : phase[o] = "orphaned"}
    IN  /\ phase' = [o \in IoOps |-> IF o \in S \ dead THEN "completed" ELSE phase[o]]
        /\ mem' = [c \in Cells |-> IF \E o \in dead : cell[o] = c THEN Nobody ELSE mem[c]]
        /\ guard' = [o \in IoOps |-> guard[o] /\ o \notin S]

\* Resumption of a claimed coroutine: await_resume unregisters the callback,
\* retires the key and reads the result; the awaitable frees the state.
resume_deferred ==
    /\ deferred # <<>> /\ InBody
    /\ LET o == Head(deferred) IN
         /\ frame' = [frame EXCEPT ![o] = "done"]
         /\ registered' = [registered EXCEPT ![o] = FALSE]
         /\ gate' = [gate EXCEPT ![o] = Retired(@)]
         /\ mem' = [mem EXCEPT ![cell[o]] = Nobody]
    /\ deferred' = Tail(deferred)
    /\ UNCHANGED <<request, cell, phase, guard, token, cancelled, queued, key, attempt>>

\* The frame is destroyed while its operation is pending (by any thread): the key
\* is retired, the callback unregistered, the state left to the backend.
destroy_awaitable(o) ==
    /\ frame[o] = "suspended" /\ phase[o] = "pending"
    /\ frame' = [frame EXCEPT ![o] = "gone"]
    /\ gate' = [gate EXCEPT ![o] = IF request[o].cancellable THEN Retired(@) ELSE @]
    /\ registered' = [registered EXCEPT ![o] = FALSE]
    /\ phase' = [phase EXCEPT ![o] = "orphaned"]
    /\ UNCHANGED <<request, cell, mem, guard, token, cancelled, queued, key, attempt, deferred>>

-----------------------------------------------------------------------------
(***************************************************************************)
(* io/epoll_backend.hpp under the awaitables of IoOperation.  Operations   *)
(* are parked per descriptor, in the timer queue, or already finished in    *)
(* ready_ops_; the kernel keeps a registration per open file, which it      *)
(* drops when somebody closes the descriptor behind the backend's back and  *)
(* the number is recycled.  A coroutine that a call resumes runs inside the *)
(* call and may call the backend again.                                     *)
(***************************************************************************)
CONSTANT Menu       \* the requests coroutines make

VARIABLES fd_states,        \* per descriptor: parked operations and registration
          ready_ops,        \* operations finished by prepare(), in order
          timer_queue,
          pending_count, pending_sync_ops,
          files,            \* what the kernel has behind a descriptor number
          interest,         \* directions the kernel's registration reports, or Lost:
                            \* it went with a file that was closed without the backend
          blocking          \* sleeps the blocking pool serves

epollOnly == <<fd_states, ready_ops, timer_queue, pending_count, pending_sync_ops,
               files, interest, blocking>>
epollVars == <<awaitVars, epollOnly>>

\* An erased entry is a fresh one: emplace() makes it again.
fd_state == [ops |-> <<>>, registered |-> FALSE, kind |-> "unknown"]
Parked(fd) == Range(fd_states[fd].ops)
Synchronous(o) == request[o].dir = "close"
Inert(s) == s.ops = <<>> /\ ~s.registered
Holding(o) == {fd \in Fds : o \in Parked(fd)}

EpollInit ==
    /\ AwaitInit
    /\ fd_states = [fd \in Fds |-> fd_state]
    /\ ready_ops = <<>> /\ timer_queue = {}
    /\ pending_count = 0 /\ pending_sync_ops = 0
    /\ files = [fd \in Fds |-> "socket"]
    /\ interest = [fd \in Fds |-> {}]
    /\ blocking = {}

Way(r) == IF r.dir = "connect" THEN "out" ELSE r.dir
SyncIn(s) == Cardinality({o \in Range(s) : Synchronous(o)})
cancelKept == <<request, cell, token, registered, cancelled, queued, gate, key, attempt>>

----------------------------------------------------------------------------
\* As if the finished operation were not counted.
MutQueue_ready_op(o) ==
    /\ Suspend(o)
    /\ ready_ops' = Append(ready_ops, o)
    /\ UNCHANGED <<timer_queue, pending_count, pending_sync_ops, files, interest, blocking>>

\* queue_ready_op: finished inside prepare(), to be reported by poll().
queue_ready_op(o) ==
    /\ Suspend(o)
    /\ ready_ops' = Append(ready_ops, o)
    /\ pending_count' = pending_count + 1
    /\ UNCHANGED <<timer_queue, pending_sync_ops, files, interest, blocking>>

\* epoll_ctl accepts: the operation is parked under its descriptor.
park(o, fd, s) ==
    /\ Suspend(o)
    /\ fd_states' = [fd_states EXCEPT ![fd] =
                       [s EXCEPT !.ops = Append(@, o), !.registered = TRUE]]
    /\ interest' = [interest EXCEPT ![fd] = @ \union {Way(request[o])}]
    /\ pending_count' = pending_count + 1
    /\ UNCHANGED <<ready_ops, timer_queue, pending_sync_ops, files, blocking>>

\* fstat or epoll_ctl fails: prepare() returns false.
fail_registration(o, fd, s) ==
    /\ Refuse(o)
    /\ fd_states' = [fd_states EXCEPT ![fd] = IF Inert(s) THEN fd_state ELSE s]
    /\ UNCHANGED <<ready_ops, timer_queue, pending_count, pending_sync_ops, files, interest,
                   blocking>>

\* fail_fd_state_ops and the erasure of the entry: everything parked under the
\* descriptor ends with -ECANCELED.
fail_fd_state_ops(fd) ==
    /\ claim_resume(fd_states[fd].ops)
    /\ deferred' = Claimed(fd_states[fd].ops) \o deferred
    /\ fd_states' = [fd_states EXCEPT ![fd] = fd_state]
    /\ pending_count' = pending_count - Len(fd_states[fd].ops)
    /\ pending_sync_ops' = pending_sync_ops - SyncIn(fd_states[fd].ops)
    /\ UNCHANGED <<ready_ops, timer_queue, blocking>>

\* The entry says "registered", the kernel has no registration for the file that
\* has the number now (MOD fails with ENOENT or EPERM).
Lost == {"lost"}
Phantom(fd) == fd_states[fd].registered /\ interest[fd] \in {{}, Lost}

\* prepare() for an operation with an fd_state.  A regular file is served inline,
\* after a probe the entry remembers.  What is parked under a phantom belongs to a
\* dead file: it is failed, and prepare() starts again when those coroutines ran.
prepare_fd(o, fd) ==
    LET r == request[o]
        unprobed == r.regular /\ fd_states[fd].kind = "unknown"
        probed == IF unprobed
                  THEN [fd_states[fd] EXCEPT !.kind = IF files[fd] = "file" THEN "regular"
                                                      ELSE "other"]
                  ELSE fd_states[fd]
    IN  CASE unprobed /\ files[fd] = "closed" -> fail_registration(o, fd, fd_states[fd])
          [] r.regular /\ probed.kind = "regular" /\ ~(unprobed /\ files[fd] = "closed") ->
               queue_ready_op(o) /\ fd_states' = [fd_states EXCEPT ![fd] = probed]
          [] OTHER ->
               \/ ~Phantom(fd) /\ files[fd] = "socket" /\ park(o, fd, probed)
               \/ (~Phantom(fd) \/ files[fd] = "closed") /\ fail_registration(o, fd, probed)
               \/ /\ Phantom(fd) /\ files[fd] # "closed"
                  /\ fail_fd_state_ops(fd)
                  /\ frame' = [frame EXCEPT ![o] = "retrying"]
                  /\ interest' = [interest EXCEPT ![fd] = {}]
                  /\ UNCHANGED <<cancelKept, files>>

\* A sleep whose timeout cannot be prepared goes to the blocking pool, if that
\* accepts it.
sleep_fallback(o) ==
    /\ \/ /\ clear_op_state(o)
          /\ frame' = [frame EXCEPT ![o] = "suspended"]
          /\ blocking' = blocking \union {o}
          /\ UNCHANGED <<request, cell, phase, token, cancelled, queued, gate, attempt,
                         deferred>>
       \/ Refuse(o) /\ UNCHANGED blocking
    /\ UNCHANGED <<fd_states, ready_ops, timer_queue, pending_count, pending_sync_ops, files,
                   interest>>

prepare(o) ==
    /\ frame[o] = "staged" \/ (frame[o] = "retrying" /\ InBody /\ deferred = <<>>)
    /\ LET r == request[o] IN
       \/ /\ r.dir = "timeout"
          /\ \/ /\ Suspend(o)
                /\ timer_queue' = timer_queue \union {o}
                /\ pending_count' = pending_count + 1
                /\ UNCHANGED <<fd_states, ready_ops, pending_sync_ops, files, interest, blocking>>
             \/ sleep_fallback(o)
       \/ r.dir = "file" /\ fail_registration(o, r.fd, fd_states[r.fd])
       \/ /\ r.dir = "close" /\ Suspend(o)
          /\ fd_states' = [fd_states EXCEPT ![r.fd].ops = Append(@, o)]
          /\ pending_sync_ops' = pending_sync_ops + 1
          /\ pending_count' = pending_count + 1
          /\ UNCHANGED <<ready_ops, timer_queue, files, interest, blocking>>
       \/ /\ r.dir = "batch"     \* run_batch_..._segment: served inline
          /\ Refuse(o)
          /\ UNCHANGED epollOnly
       \/ r.dir = "connect" /\ queue_ready_op(o) /\ UNCHANGED fd_states
       \/ r.dir \in {"in", "out", "connect"} /\ prepare_fd(o, r.fd)

----------------------------------------------------------------------------
\* drain_sync_ops: each close that is parked ends everything else parked under its
\* descriptor, then the descriptor, then itself.
Closing == {fd \in Fds : SyncIn(fd_states[fd].ops) > 0}
drain_sync_ops ==
    LET ends == FlattenSeq(SetToSeq({fd_states[fd].ops : fd \in Closing}))
    IN  /\ claim_resume(ends)
        /\ deferred' = Claimed(ends) \o deferred
        /\ fd_states' = [fd \in Fds |-> IF fd \in Closing THEN fd_state ELSE fd_states[fd]]
        /\ files' = [fd \in Fds |-> IF fd \in Closing THEN "closed" ELSE files[fd]]
        /\ interest' = [fd \in Fds |-> IF fd \in Closing THEN {} ELSE interest[fd]]
        /\ pending_sync_ops' = pending_sync_ops - SyncIn(ends)
        /\ pending_count' = pending_count - Len(ends)
        /\ UNCHANGED <<frame, cancelKept, ready_ops, timer_queue, blocking>>

\* submit(), called by the run loop and by a coroutine that goes to sleep.
submit == InBody /\ pending_sync_ops > 0 /\ drain_sync_ops

\* poll() with finished operations: they are all claimed and their inert entries
\* dropped before the first of them is resumed.
poll_ready ==
    /\ InLoop /\ pending_sync_ops = 0 /\ ready_ops # <<>>
    /\ claim_resume(ready_ops)
    /\ deferred' = Claimed(ready_ops) \o deferred
    /\ fd_states' = [fd \in Fds |->
         IF Inert(fd_states[fd]) /\ \E o \in Range(ready_ops) : request[o].fd = fd
         THEN fd_state ELSE fd_states[fd]]
    /\ pending_count' = pending_count - Len(ready_ops)
    /\ ready_ops' = <<>>
    /\ UNCHANGED <<frame, cancelKept, timer_queue, pending_sync_ops, files, interest, blocking>>

\* poll() that waits: the expired timers T, and for every reported descriptor the
\* first parked operation of each ready direction.
FirstOf(fd, dir) ==
    LET s == SelectSeq(fd_states[fd].ops, LAMBDA o : Way(request[o]) = dir)
    IN  IF s = <<>> THEN {} ELSE {Head(s)}
\* As if every parked operation of a ready direction had its turn and the others
\* of the entry were forgotten with it.
MutPoll_events(T, E) ==
    LET done(fd) == UNION {FirstOf(fd, dir) : dir \in E[fd]}
        all == T \union UNION {done(fd) : fd \in Fds}
        erased == {fd \in Fds : E[fd] # {}}
    IN  /\ InLoop /\ pending_sync_ops = 0 /\ ready_ops = <<>> /\ all # {}
        /\ claim_resume(SetToSeq(all))
        /\ deferred' = Claimed(SetToSeq(all)) \o deferred
        /\ fd_states' = [fd \in Fds |-> IF fd \in erased THEN fd_state ELSE fd_states[fd]]
        /\ interest' = [fd \in Fds |-> IF fd \in erased THEN {} ELSE interest[fd]]
        /\ timer_queue' = timer_queue \ T
        /\ pending_count' = pending_count - Cardinality(all)
        /\ UNCHANGED <<frame, cancelKept, ready_ops, pending_sync_ops, files, blocking>>

poll_events(T, E) ==
    LET done(fd) == UNION {FirstOf(fd, dir) : dir \in E[fd]}
        left(fd) == SelectSeq(fd_states[fd].ops, LAMBDA o : o \notin done(fd))
        all == T \union UNION {done(fd) : fd \in Fds}
        erased == {fd \in Fds : E[fd] # {} /\ left(fd) = <<>>}
    IN  /\ InLoop /\ pending_sync_ops = 0 /\ ready_ops = <<>> /\ all # {}
        /\ claim_resume(SetToSeq(all))
        /\ deferred' = Claimed(SetToSeq(all)) \o deferred
        /\ fd_states' = [fd \in Fds |-> IF fd \in erased THEN fd_state
                                        ELSE [fd_states[fd] EXCEPT !.ops = left(fd)]]
        /\ interest' = [fd \in Fds |-> IF fd \in erased THEN {} ELSE interest[fd]]
        /\ timer_queue' = timer_queue \ T
        /\ pending_count' = pending_count - Cardinality(all)
        /\ UNCHANGED <<frame, cancelKept, ready_ops, pending_sync_ops, files, blocking>>

\* The directions the kernel may report: what it has a registration for.
Events == {E \in [Fds -> SUBSET {"in", "out"}] : \A fd \in Fds : E[fd] \subseteq interest[fd]}

\* cancel() by key, run by attempt_io_cancel: a parked operation or a timer is
\* taken out and resumed; one that is finished already is left alone.
cancel(o) ==
    /\ attempt = o
    /\ LET victim == IF key[o] = NoCell THEN Nobody ELSE mem[key[o]]
           live == victim # Nobody /\ phase[victim] = "pending"
           parked == IF victim = Nobody THEN {} ELSE Holding(victim)
           found == victim # Nobody /\ (parked # {} \/ victim \in timer_queue)
           left(fd) == SelectSeq(fd_states[fd].ops, LAMBDA p : p # victim)
           erased == {fd \in parked : left(fd) = <<>>}
       IN  /\ IF found
              THEN /\ claim_resume(<<victim>>)
                   /\ deferred' = Claimed(<<victim>>) \o deferred
                   /\ pending_count' = pending_count - 1
                   /\ pending_sync_ops' = pending_sync_ops
                                            - (IF Synchronous(victim) THEN 1 ELSE 0)
              ELSE UNCHANGED <<phase, mem, guard, deferred, pending_count,
                               pending_sync_ops>>
           /\ finish_attempt(o, found /\ live)
           /\ fd_states' = [fd \in Fds |->
                IF fd \in erased THEN fd_state
                ELSE IF fd \in parked THEN [fd_states[fd] EXCEPT !.ops = left(fd)]
                ELSE fd_states[fd]]
           /\ interest' = [fd \in Fds |-> IF fd \in erased THEN {} ELSE interest[fd]]
           /\ timer_queue' = timer_queue \ {victim}
    /\ UNCHANGED <<frame, request, cell, token, registered, cancelled, key, ready_ops, files,
                   blocking>>

\* close_fd_from_owner: a stream is destroyed on the worker.
close_fd_from_owner(fd) ==
    /\ InBody /\ files[fd] # "closed"
    /\ fail_fd_state_ops(fd)
    /\ files' = [files EXCEPT ![fd] = "closed"]
    /\ interest' = [interest EXCEPT ![fd] = {}]
    /\ UNCHANGED <<frame, cancelKept>>

\* close_fd_for_destructor and streams destroyed off the worker: a plain close,
\* behind the backend's back.  The registration goes with the file; whatever is
\* parked under the number stays parked.
close_fd_for_destructor(fd) ==
    /\ files[fd] # "closed"
    /\ files' = [files EXCEPT ![fd] = "closed"]
    /\ interest' = [interest EXCEPT ![fd] = IF fd_states[fd].registered THEN Lost ELSE {}]
    /\ UNCHANGED <<awaitVars, fd_states, ready_ops, timer_queue, pending_count,
                   pending_sync_ops, blocking>>

\* The number is used again, for a socket or a regular file.
Reopen(fd) ==
    /\ files[fd] = "closed"
    /\ \E k \in {"socket", "file"} : files' = [files EXCEPT ![fd] = k]
    /\ UNCHANGED <<awaitVars, fd_states, ready_ops, timer_queue, pending_count,
                   pending_sync_ops, interest, blocking>>

\* The blocking pool has slept long enough, or saw the token: it retires the key
\* and gives the coroutine to the scheduler.
resume_via_scheduler(o) ==
    /\ o \in blocking
    /\ blocking' = blocking \ {o}
    /\ gate' = [gate EXCEPT ![o] = Retired(@)]
    /\ frame' = [frame EXCEPT ![o] = "done"]
    /\ UNCHANGED <<request, cell, mem, phase, guard, token, registered, cancelled, queued, key,
                   attempt, deferred, fd_states, ready_ops, timer_queue, pending_count,
                   pending_sync_ops, files, interest>>

----------------------------------------------------------------------------
AwaitStep(o) ==
    \/ begin_wait(o, Menu) \/ give_up_wait(o) \/ setup_op_state(o)
    \/ request_io_cancel(o) \/ CancelToken(o) \/ try_claim_for_executor(o)
    \/ o \notin blocking /\ destroy_awaitable(o)

EpollNext ==
    \/ /\ \/ \E o \in IoOps : AwaitStep(o)
          \/ resume_deferred
       /\ UNCHANGED epollOnly
    \/ \E o \in IoOps : prepare(o) \/ cancel(o) \/ resume_via_scheduler(o)
    \/ submit \/ poll_ready
    \/ \E T \in SUBSET timer_queue, E \in Events : poll_events(T, E)
    \/ \E fd \in Fds : close_fd_from_owner(fd) \/ close_fd_for_destructor(fd) \/ Reopen(fd)

EpollSpec == EpollInit /\ [][EpollNext]_epollVars

----------------------------------------------------------------------------
\* Where the backend keeps an operation.
Kept(o) == Cardinality(Holding(o)) + (IF o \in Range(ready_ops) THEN 1 ELSE 0)
             + (IF o \in timer_queue THEN 1 ELSE 0)

\* Whoever is suspended on I/O will be found, and found once: its operation is
\* pending in exactly one container, or claimed and in the list of coroutines to
\* resume, or with the blocking pool.  An orphaned state stays reachable until it
\* is freed, and a freed one is reachable from nowhere.
EveryWaitIsKept ==
    \A o \in IoOps :
       /\ frame[o] = "suspended" =>
             IF o \in blocking THEN Kept(o) = 0
             ELSE IF phase[o] = "pending" THEN Kept(o) = 1 /\ o \notin Range(deferred)
             ELSE Kept(o) = 0 /\ Cardinality({i \in DOMAIN deferred : deferred[i] = o}) = 1
       /\ Kept(o) > 0 => mem[cell[o]] = o /\ Kept(o) = 1
       /\ (phase[o] = "orphaned" /\ mem[cell[o]] = o) => Kept(o) = 1
       /\ guard[o] => mem[cell[o]] = o

\* pending_count() and the short cut of drain_sync_ops count exactly what is kept.
CountsAreExact ==
    /\ pending_count = Cardinality({o \in IoOps : Kept(o) > 0})
    /\ pending_sync_ops = Cardinality({o \in IoOps : Holding(o) # {} /\ Synchronous(o)})

\* A cancellation in progress names the operation it was made for, although frames
\* are destroyed by other threads and addresses are reused.
CancelsItsOwn ==
    \A o \in IoOps : (attempt = o /\ key[o] # NoCell) => mem[key[o]] = o

\* A coroutine parked for readiness is one the kernel will report on: the file its
\* descriptor stands for is registered for its direction.  The exception is the
\* documented one: a file closed off the worker took the registration with it, and
\* until the number is prepared again its waiters stay parked; no waiter of the
\* file that has the number since is among them.
ParkedIsReported ==
    \A fd \in Fds : \A o \in Parked(fd) :
       (frame[o] = "suspended" /\ ~Synchronous(o) /\ phase[o] = "pending") =>
          Way(request[o]) \in interest[fd] \/ interest[fd] = Lost

-----------------------------------------------------------------------------
(***************************************************************************)
(* io/io_uring_backend.hpp under the awaitables of IoOperation.  Requests   *)
(* are staged in the submission queue, handed to the kernel in order, and   *)
(* come back as completions in any order.  A cancellation is a request of   *)
(* its own that names an address; a batch is one coroutine with several     *)
(* requests; one request polls the eventfd by which other threads end a     *)
(* blocking poll().                                                         *)
(***************************************************************************)
CONSTANTS RingMenu,   \* the requests coroutines make
          SqDepth,    \* places in the submission queue
          Segments    \* requests of a batch

VARIABLES sq, kernel, cq,    \* staged; in the kernel (a set); completed
          pending_ops, wake_poll_pending,
          completed,         \* batch_state::completed
          wake_fd,           \* the eventfd is readable
          poller             \* where the owner is inside poll()

ringOnly == <<sq, kernel, cq, pending_ops, wake_poll_pending, completed, wake_fd, poller>>
ringVars == <<awaitVars, ringOnly>>

Sqe(t, o, n) == [type |-> t, op |-> o, n |-> n]
Wake == Sqe("wake", Nobody, 0)

RingInit ==
    /\ AwaitInit
    /\ sq = <<>> /\ kernel = {Wake} /\ cq = <<>>
    /\ pending_ops = 0 /\ wake_poll_pending = TRUE
    /\ completed = [o \in IoOps |-> 0]
    /\ wake_fd = FALSE /\ poller = "out"

RingIdle == InLoop /\ poller = "out"
RingBody == InBody /\ poller = "out"

----------------------------------------------------------------------------
\* The kernel takes the first k staged requests, in order.  A cancellation acts at
\* once on the request whose user_data is the address it names.
io_uring_submit(s, k) ==
    LET now == SubSeq(s, 1, k)
        cancels == {i \in 1 .. k : now[i].type = "cancel"}
        hit == {x \in kernel \union Range(now) :
                  /\ x.type = "op"
                  /\ \E i \in cancels : /\ cell[x.op] = now[i].op
                                        /\ x \in kernel \union Range(SubSeq(now, 1, i - 1))}
        taken == {e \in Range(now) : e.type # "cancel"}
    IN  [sq |-> SubSeq(s, k + 1, Len(s)),
         kernel |-> (kernel \union taken) \ hit,
         posted |-> SetToSeq(hit) \o SelectSeq(now, LAMBDA e : e.type = "cancel")]
SetRing(r) == sq' = r.sq /\ kernel' = r.kernel /\ cq' = cq \o r.posted
Some == 0 .. Len(sq)

\* io_uring_get_sqe with the flush-and-retry of prepare(), cancel(), submit_close_async
\* and the wake poll: e is staged, or the queue is still full.
stage(e) ==
    IF Len(sq) < SqDepth
    THEN sq' = Append(sq, e) /\ UNCHANGED <<kernel, cq>>
    ELSE \E k \in 1 .. Len(sq) : LET r == io_uring_submit(sq, k) IN
            SetRing([r EXCEPT !.sq = Append(@, e)])
StillFull == Len(sq) = SqDepth

\* prepare(): staged, or refused because the queue is full, the request is invalid
\* or the file operation is not supported.
ring_prepare(o) ==
    /\ frame[o] = "staged" /\ request[o].dir # "batch"
    /\ \/ /\ Suspend(o)
          /\ stage(Sqe("op", o, 0))
          /\ pending_ops' = pending_ops + 1
       \/ /\ StillFull \/ request[o].dir = "file"
          /\ Refuse(o) /\ UNCHANGED <<sq, kernel, cq, pending_ops>>
    /\ UNCHANGED <<wake_poll_pending, completed, wake_fd, poller>>

\* submit_batch_io_uring: as many requests as the queue has places, the others fail
\* at once; with none the batch is completed inline.  The ring is then submitted,
\* which may fail or be short.
submit_batch(o) ==
    /\ frame[o] = "staged" /\ request[o].dir = "batch"
    /\ LET room == SqDepth - Len(sq)
           n == IF room < Segments THEN room ELSE Segments
           staged == sq \o [i \in 1 .. n |-> Sqe("segment", o, i)]
       IN  IF n = 0
           THEN Refuse(o) /\ UNCHANGED <<sq, kernel, cq, pending_ops, completed>>
           ELSE /\ Suspend(o)
                /\ completed' = [completed EXCEPT ![o] = Segments - n]
                /\ pending_ops' = pending_ops + n
                /\ \E k \in 0 .. Len(staged) : SetRing(io_uring_submit(staged, k))
    /\ UNCHANGED <<wake_poll_pending, wake_fd, poller>>

\* submit(), from the run loop or from a coroutine that goes to sleep.
ring_submit ==
    /\ RingBody /\ sq # <<>>
    /\ \E k \in Some : SetRing(io_uring_submit(sq, k))
    /\ UNCHANGED <<awaitVars, pending_ops, wake_poll_pending, completed, wake_fd, poller>>

\* cancel(): a request with the key, without a coroutine of its own.
ring_cancel(o) ==
    /\ attempt = o
    /\ \/ /\ key[o] # NoCell
          /\ stage(Sqe("cancel", key[o], 0))
          /\ pending_ops' = pending_ops + 1
          /\ finish_attempt(o, TRUE)
       \/ /\ key[o] = NoCell \/ StillFull
          /\ finish_attempt(o, FALSE) /\ UNCHANGED <<sq, kernel, cq, pending_ops>>
    /\ UNCHANGED <<frame, request, cell, mem, phase, guard, token, registered, cancelled,
                   key, deferred, wake_poll_pending, completed, wake_fd, poller>>

----------------------------------------------------------------------------
\* try_submit_wake_poll: staged and submitted, or left for the next poll().
\* It follows c, the completions that are left to be processed.
try_submit_wake_poll(c) ==
    \/ /\ ~StillFull
       /\ wake_poll_pending' = TRUE
       /\ \E k \in 0 .. Len(sq) + 1 : LET r == io_uring_submit(Append(sq, Wake), k) IN
             sq' = r.sq /\ kernel' = r.kernel /\ cq' = c \o r.posted
    \/ StillFull /\ wake_poll_pending' = FALSE /\ cq' = c /\ UNCHANGED <<sq, kernel>>

\* poll(): the staged requests are submitted until none is left or no progress is
\* made; a missing wake poll is installed; only then may the call block.
poll_submit ==
    /\ RingIdle
    /\ \E k \in Some : SetRing(io_uring_submit(sq, k))
    /\ poller' = "rearm"
    /\ UNCHANGED <<awaitVars, pending_ops, wake_poll_pending, completed, wake_fd>>

io_uring_poll_can_block(submissions_ready, wake_pending) == submissions_ready /\ wake_pending

poll_rearm ==
    /\ poller = "rearm"
    /\ IF wake_poll_pending
       THEN UNCHANGED <<sq, kernel, cq, wake_poll_pending>>
       ELSE try_submit_wake_poll(cq)
    /\ poller' = IF io_uring_poll_can_block(sq' = <<>>, wake_poll_pending')
                 THEN "blocked" ELSE "reap"
    /\ UNCHANGED <<awaitVars, pending_ops, completed, wake_fd>>

\* io_uring_wait_cqe returns; with a time-out or a zero time-out it need not wait.
wait_cqe ==
    /\ poller = "blocked" /\ cq # <<>>
    /\ poller' = "reap"
    /\ UNCHANGED <<awaitVars, sq, kernel, cq, pending_ops, wake_poll_pending, completed, wake_fd>>

\* process_completion of the first completion.
Done(o) ==
    /\ claim_resume(<<o>>)
    /\ deferred' = deferred \o Claimed(<<o>>)
cancelUntouched == <<frame, request, cell, token, registered, cancelled, queued, gate, key,
                     attempt>>
NothingDone == UNCHANGED <<phase, mem, guard, deferred>>

dispatch_batch_completion(o) ==
    /\ completed' = [completed EXCEPT ![o] = @ + 1]
    /\ IF completed[o] + 1 = Segments THEN Done(o) ELSE NothingDone

process_completion ==
    /\ poller = "reap" /\ cq # <<>>
    /\ LET e == Head(cq) IN
         IF e = Wake
         THEN /\ wake_fd' = FALSE
              /\ try_submit_wake_poll(Tail(cq))
              /\ NothingDone /\ UNCHANGED <<pending_ops, completed>>
         ELSE /\ pending_ops' = pending_ops - 1
              /\ cq' = Tail(cq)
              /\ CASE e.type = "op" -> Done(e.op) /\ UNCHANGED completed
                   [] e.type = "segment" -> dispatch_batch_completion(e.op)
                   [] OTHER -> NothingDone /\ UNCHANGED completed
              /\ UNCHANGED <<sq, kernel, wake_poll_pending, wake_fd>>
    /\ UNCHANGED <<cancelUntouched, poller>>

reaped ==
    /\ poller = "reap" /\ cq = <<>>
    /\ poller' = "out"
    /\ UNCHANGED <<awaitVars, sq, kernel, cq, pending_ops, wake_poll_pending, completed, wake_fd>>

\* submit_close_async: a descriptor closed by a destructor, without a coroutine;
\* staged, after a flush when the queue is full, and submitted, which may fail or be
\* short.  Bound: one such close is on its way at a time.
CloseSqe == Sqe("close", Nobody, 0)
submit_close_async ==
    /\ RingBody /\ CloseSqe \notin Range(sq) \union kernel \union Range(cq)
    /\ \E k \in (IF StillFull THEN 1 ELSE 0) .. Len(sq) + 1 :
          SetRing(io_uring_submit(Append(sq, CloseSqe), k))
    /\ pending_ops' = pending_ops + 1
    /\ UNCHANGED <<awaitVars, wake_poll_pending, completed, wake_fd, poller>>

\* notify() of another thread, and the kernel finishing requests in any order.
notify ==
    /\ ~wake_fd /\ wake_fd' = TRUE
    /\ UNCHANGED <<awaitVars, sq, kernel, cq, pending_ops, wake_poll_pending, completed, poller>>
Complete(e) ==
    /\ e \in kernel /\ (e = Wake => wake_fd)
    /\ kernel' = kernel \ {e}
    /\ cq' = Append(cq, e)
    /\ UNCHANGED <<awaitVars, sq, pending_ops, wake_poll_pending, completed, wake_fd, poller>>

----------------------------------------------------------------------------
RingAwaitStep(o) ==
    \/ RingBody /\ begin_wait(o, RingMenu)
    \/ give_up_wait(o) \/ setup_op_state(o)
    \/ request_io_cancel(o) \/ CancelToken(o) \/ destroy_awaitable(o)
    \/ RingIdle /\ try_claim_for_executor(o)

RingNext ==
    \/ /\ \/ \E o \in IoOps : RingAwaitStep(o)
          \/ poller = "out" /\ resume_deferred
       /\ UNCHANGED ringOnly
    \/ \E o \in IoOps : ring_prepare(o) \/ submit_batch(o) \/ ring_cancel(o)
    \/ ring_submit \/ poll_submit \/ poll_rearm \/ wait_cqe \/ process_completion \/ reaped
    \/ submit_close_async \/ notify
    \/ \E e \in kernel : Complete(e)

RingSpec == RingInit /\ [][RingNext]_ringVars

----------------------------------------------------------------------------
InRing(e) == Cardinality({i \in DOMAIN sq : sq[i] = e}) + (IF e \in kernel THEN 1 ELSE 0)
               + Cardinality({i \in DOMAIN cq : cq[i] = e})
Requested(o) == IF request[o].dir = "batch"
                THEN FoldSet(LAMBDA i, n : n + InRing(Sqe("segment", o, i)), 0, 1 .. Segments)
                ELSE InRing(Sqe("op", o, 0))

\* The ring keeps every suspended coroutine: its requests are on the way, all of
\* them, or it is in the list of coroutines to resume, once.  An orphaned state
\* lives exactly as long as a request of it is on the way.
RingKeepsWaits ==
    \A o \in IoOps :
       LET owed == IF request[o].dir = "batch" THEN Segments - completed[o] ELSE 1 IN
       /\ frame[o] = "suspended" =>
             IF phase[o] = "pending" THEN Requested(o) = owed /\ owed > 0
             ELSE Requested(o) = 0
                    /\ Cardinality({i \in DOMAIN deferred : deferred[i] = o}) = 1
       /\ Requested(o) > 0 => mem[cell[o]] = o
       /\ (phase[o] = "orphaned" /\ mem[cell[o]] = o) => Requested(o) > 0
       /\ guard[o] => mem[cell[o]] = o

\* pending_ops_ counts the requests on the way, without the wake poll.
RingCountIsExact ==
    pending_ops = Cardinality({i \in DOMAIN sq : sq[i] # Wake})
                    + Cardinality(kernel \ {Wake})
                    + Cardinality({i \in DOMAIN cq : cq[i] # Wake})

\* A staged cancellation reaches the operation it was made for or none: nothing
\* between it and the kernel's end of the queue reuses its address.
StagedCancelsAreFresh ==
    \A i \in DOMAIN sq : sq[i].type = "cancel" =>
       \A o \in IoOps : (\E j \in 1 .. i - 1 : sq[j] = Sqe("op", o, 0) /\ cell[o] = sq[i].op)
                            => key[o] = sq[i].op /\ gate[o] >= executing

\* poll() blocks only while the kernel holds the wake poll, so that notify() of
\* another thread ends the wait, and with nothing left behind in the queue.
SleepCanBeEnded ==
    poller = "blocked" => sq = <<>> /\ InRing(Wake) = 1

-----------------------------------------------------------------------------
(***************************************************************************)
(* io/io_context.hpp: a context has one of the two backends for its life.  *)
(* What both promise to the coroutines is stated here once.                *)
(***************************************************************************)
VARIABLE backend

contextVars == <<backend, awaitVars, epollOnly, ringOnly>>

\* The constructor takes io_uring, or epoll when that is asked for or io_uring
\* cannot be set up.
ContextInit ==
    /\ backend \in {"epoll", "io_uring"}
    /\ EpollInit /\ RingInit

ContextNext ==
    /\ \/ backend = "epoll" /\ EpollNext /\ UNCHANGED ringOnly
       \/ backend = "io_uring" /\ RingNext /\ UNCHANGED epollOnly
    /\ UNCHANGED backend

ContextSpec == ContextInit /\ [][ContextNext]_contextVars

----------------------------------------------------------------------------
\* Whoever is suspended on I/O is kept by the backend exactly once, until it is in
\* the list of coroutines to resume; the state of a destroyed frame lives as long
\* as the backend can reach it (EveryWaitIsKept, RingKeepsWaits).
EveryWaitIsHeld == IF backend = "epoll" THEN EveryWaitIsKept ELSE RingKeepsWaits

\* has_pending() and pending_count(), by which a worker decides to poll, to sleep
\* or to retire, count exactly the operations the backend holds.
PendingIsExact == IF backend = "epoll" THEN CountsAreExact ELSE RingCountIsExact

\* A cancellation key names the operation it was taken from, also when another
\* thread destroys the frame during the attempt and the address is used again;
\* a cancellation staged in the ring cannot overtake the reuse.
CancelHitsItsOwn == CancelsItsOwn /\ (backend = "io_uring" => StagedCancelsAreFresh)

\* Nobody sleeps unheard: a coroutine parked for readiness is registered with the
\* kernel for the file its descriptor stands for now, and poll() blocks only while
\* the kernel holds the wake poll.
SleepsAreHeard ==
    IF backend = "epoll" THEN ParkedIsReported ELSE SleepCanBeEnded

-----------------------------------------------------------------------------
(***************************************************************************)
(* File helpers (io/file_helpers.hpp), positional transfers                 *)
(* (io/file_transfer.hpp) and sync/allocate/truncate                        *)
(* (io/file_operations.hpp).  One call runs while somebody else may append  *)
(* to the file.  The kernel may move fewer bytes than asked for, be         *)
(* interrupted or fail; a step is one loop iteration with the completion    *)
(* of its operation.                                                        *)
(***************************************************************************)
CONSTANTS FileBytes,     \* size of the caller's buffer or data
          FileLimit,     \* bound on the length of the file
          FileMaxOffset, \* file_transfer_max_offset
          FileChunk      \* most bytes of one operation

VARIABLES call,          \* the helper that runs
          offset,        \* where a positional transfer begins
          total,         \* bytes transferred so far
          capacity,      \* capacity of read_file's buffer
          moved,         \* bytes the kernel moved: <<place in buffer, place in file>>
          length,        \* length of the file
          descriptor,    \* the descriptor a helper opened itself
          ftoken,        \* the token is cancelled
          executed,      \* how often the file operation's syscall ran, and where
          answer

fileVars == <<call, offset, total, capacity, moved, length, descriptor, ftoken,
              executed, answer>>

Transfers == {"pread_some", "pwrite_some", "pread_exactly", "pwrite_exactly"}
Writes == {"pwrite_some", "pwrite_exactly"}
Exact == {"pread_exactly", "pwrite_exactly"}
Helpers == {"read_file", "write_file", "append_file"}
FileOperations == {"sync_file", "allocate_file_range", "truncate_file"}

Running == call # "none" /\ answer = "none"

FileInit ==
    /\ call = "none" /\ answer = "none"
    /\ offset = 0 /\ total = 0 /\ capacity = 0
    /\ moved = <<>>
    /\ length \in 0 .. FileLimit - 1
    /\ descriptor = "none"
    /\ ftoken = FALSE
    /\ executed = <<>>

\* co_return: fd_guard closes what a helper opened.
finish(a) ==
    /\ answer' = a
    /\ descriptor' = IF descriptor = "open" THEN "closed" ELSE descriptor

\* The kernel moves n bytes between place b of the buffer and place f of the file.
Move(b, f, n) == moved' = moved \o [i \in 1 .. n |-> <<b + i, f + i>>]

EINTR == -4
EIO == -5
ECANCELED == -125

\* What an operation on c bytes at place f may complete with.
ReadCompletions(f, c) ==
    {EINTR, ECANCELED, EIO} \cup
    IF f >= length \/ c = 0 THEN {0} ELSE 1 .. Min({c, length - f})
WriteCompletions(f, c) ==
    {EINTR, ECANCELED, EIO, 0} \cup 1 .. Min({c, FileLimit - f})

Moves(r) == r > 0
Grown(f, n) == IF f + n > length THEN f + n ELSE length

----------------------------------------------------------------------------
\* Helpers on paths.

open_file(c) ==
    /\ call = "none" /\ call' = c
    /\ \/ /\ answer' = "failed"                           \* open() fails
          /\ UNCHANGED <<descriptor, length, capacity>>
       \/ /\ descriptor' = "open"
          /\ length' = IF c = "write_file" THEN 0 ELSE length
          /\ capacity' = IF length > 0 THEN length ELSE 1  \* fstat, reserve
          /\ UNCHANGED answer
    /\ UNCHANGED <<offset, total, moved, ftoken, executed>>

\* read_file: a failure after the first bytes gives what there is.
read_file ==
    /\ Running /\ call = "read_file"
    /\ LET room == IF total >= capacity THEN 2 * capacity ELSE capacity
           c == Min({room - total, FileChunk})
       IN /\ capacity' = room
          /\ \E r \in ReadCompletions(total, c) :
               IF Moves(r)
               THEN /\ total' = total + r /\ Move(total, total, r)
                    /\ UNCHANGED <<answer, descriptor>>
               ELSE /\ finish(IF r # 0 /\ total = 0 THEN "failed"
                              ELSE IF r # 0 THEN "partial" ELSE "done")
                    /\ UNCHANGED <<total, moved>>
    /\ UNCHANGED <<call, offset, length, ftoken, executed>>

\* write_file at its own count, append_file where the file ends by then.
write_file ==
    /\ Running /\ call \in {"write_file", "append_file"}
    /\ LET c == Min({FileBytes - total, FileChunk})
           f == IF call = "append_file" THEN length ELSE total
       IN IF total < FileBytes
          THEN \E r \in WriteCompletions(f, c) :
                 IF Moves(r)
                 THEN /\ total' = total + r /\ Move(total, f, r)
                      /\ length' = Grown(f, r)
                      /\ UNCHANGED <<answer, descriptor>>
                 ELSE finish("failed") /\ UNCHANGED <<total, moved, length>>
          ELSE finish("done") /\ UNCHANGED <<total, moved, length>>
    /\ UNCHANGED <<call, offset, capacity, ftoken, executed>>

----------------------------------------------------------------------------
\* Positional transfers.

begin_transfer(c, at) ==
    /\ call = "none" /\ call' = c
    /\ offset' = at
    /\ answer' = IF at > FileMaxOffset \/ FileBytes > FileMaxOffset - at
                 THEN "EOVERFLOW" ELSE "none"
    /\ UNCHANGED <<total, capacity, moved, length, descriptor, ftoken, executed>>

MutTransfer_file_range ==
    /\ Running /\ call \in Transfers /\ total < FileBytes
    /\ \E r \in IF call \in Writes THEN WriteCompletions(offset, FileBytes - total)
                ELSE ReadCompletions(offset, FileBytes - total) :
         IF Moves(r)
         THEN /\ total' = total + r /\ Move(total, offset, r)
              /\ length' = IF call \in Writes THEN Grown(offset, r) ELSE length
              /\ answer' = IF call \in Exact /\ total' < FileBytes THEN "none" ELSE "done"
         ELSE /\ answer' = IF r = 0 THEN "eof" ELSE "EIO"
              /\ UNCHANGED <<total, moved, length>>
    /\ UNCHANGED <<call, offset, capacity, descriptor, ftoken, executed>>

\* One iteration of transfer_file_range: the token is looked at before each
\* operation, an interrupted one is repeated, the others end the transfer.
transfer_file_range ==
    /\ Running /\ call \in Transfers
    /\ IF total >= FileBytes
       THEN answer' = "done" /\ UNCHANGED <<total, moved, length>>
       ELSE IF ftoken
       THEN answer' = "cancelled" /\ UNCHANGED <<total, moved, length>>
       ELSE LET c == Min({FileBytes - total, FileChunk})
                f == offset + total
            IN \E r \in IF call \in Writes THEN WriteCompletions(f, c)
                        ELSE ReadCompletions(f, c) :
                 \/ /\ r = EINTR
                    /\ UNCHANGED <<answer, total, moved, length>>
                 \/ /\ r \in {ECANCELED, EIO, 0}
                    /\ answer' = CASE r = ECANCELED -> "cancelled"
                                   [] r = 0 /\ call \notin Writes -> "eof"
                                   [] OTHER -> "EIO"
                    /\ UNCHANGED <<total, moved, length>>
                 \/ /\ Moves(r)
                    /\ total' = total + r /\ Move(total, f, r)
                    /\ length' = IF call \in Writes THEN Grown(f, r) ELSE length
                    /\ answer' = IF call \in Exact THEN "none" ELSE "done"
    /\ UNCHANGED <<call, offset, capacity, descriptor, ftoken, executed>>

----------------------------------------------------------------------------
\* Sync, allocate, truncate: native when the backend can, else one job of the
\* blocking pool, which may refuse it, run it, or (a pool that closes) give it
\* back to run on the worker itself.

execute_file_syscall(where) == executed' = Append(executed, where)

native_operation_runs ==
    /\ execute_file_syscall("kernel")
    /\ answer' \in {"done", "EIO"}

\* The job that a pool thread (or the worker, when the pool closes) runs.
work(where) ==
    IF ftoken THEN answer' = "cancelled" /\ UNCHANGED executed
    ELSE IF where = "worker" THEN answer' = "EAGAIN" /\ UNCHANGED executed
    ELSE execute_file_syscall(where) /\ answer' \in {"done", "EIO"}

\* Validation, then the way the operation takes.
dispatch_file_operation(c, at, bytes, buffers, on_worker, native) ==
    /\ call = "none"
    /\ offset' = at
    /\ \/ /\ answer' = CASE buffers = 0 -> "EINVAL"
                          [] at > FileMaxOffset \/ bytes > FileMaxOffset - at -> "EOVERFLOW"
                          [] c = "allocate_file_range" /\ bytes = 0 -> "EINVAL"
                          [] ftoken -> "cancelled"
                          [] ~on_worker -> "ENOTSUP"
                          [] OTHER -> "none"
          /\ answer' # "none"
          /\ call' = c /\ UNCHANGED executed
       \/ /\ buffers > 0 /\ at <= FileMaxOffset /\ bytes <= FileMaxOffset - at
          /\ c = "allocate_file_range" => bytes > 0
          /\ ~ftoken /\ on_worker
          /\ \/ native /\ native_operation_runs /\ call' = c
             \/ answer' = "EAGAIN" /\ call' = c /\ UNCHANGED executed
             \/ ~native /\ call' = "job" /\ UNCHANGED <<answer, executed>>
    /\ UNCHANGED <<total, capacity, moved, length, descriptor, ftoken>>

\* The accepted job runs.
run_work ==
    /\ Running /\ call = "job"
    /\ \E where \in {"pool", "worker"} : work(where)
    /\ UNCHANGED <<call, offset, total, capacity, moved, length, descriptor, ftoken>>

----------------------------------------------------------------------------
\* The outside.

FileCancel ==
    /\ ~ftoken /\ answer = "none"
    /\ ftoken' = TRUE
    /\ UNCHANGED <<call, offset, total, capacity, moved, length, descriptor,
                   executed, answer>>

OthersAppend ==
    /\ Running /\ call \in Transfers \cup Helpers
    /\ length < FileLimit
    /\ length' = length + 1
    /\ UNCHANGED <<call, offset, total, capacity, moved, descriptor, ftoken,
                   executed, answer>>

FileNext ==
    \/ \E c \in Helpers : open_file(c)
    \/ read_file \/ write_file
    \/ \E c \in Transfers, at \in 0 .. FileMaxOffset + 1 : begin_transfer(c, at)
    \/ transfer_file_range
    \/ \E c \in FileOperations, at \in 0 .. FileMaxOffset + 1,
          bytes \in {0, FileBytes}, buffers \in 0 .. 1, w, n \in BOOLEAN :
          dispatch_file_operation(c, at, bytes, buffers, w, n)
    \/ run_work
    \/ FileCancel \/ OthersAppend

FileSpec == FileInit /\ [][FileNext]_fileVars

----------------------------------------------------------------------------
\* A transfer through short, interrupted and failing operations moves each byte
\* of the buffer once and in order, positional ones between the same places of
\* buffer and file; the count it reports is what was moved; success of an exact
\* one means all of it, "eof" that the file ends there.
TransfersAreExact ==
    /\ Len(moved) = total
    /\ \A i \in DOMAIN moved : moved[i][1] = i
    /\ call \in Transfers \cup {"read_file", "write_file"} =>
         \A i \in DOMAIN moved : moved[i][2] = offset + i
    /\ call \in Exact \cup {"write_file", "append_file"} /\ answer = "done" =>
         total = FileBytes
    /\ answer = "eof" => total < FileBytes /\ offset + total >= length
    /\ call = "read_file" /\ answer = "done" => total = length

\* A file operation reports success or an error of the system call exactly when
\* the call ran, once, and never on a worker; refused and cancelled ones have no
\* effect.  A helper closes its descriptor on every way out.
FileOperationsRunOnce ==
    /\ answer # "none" /\ call \in FileOperations \cup {"job"} =>
         Len(executed) = IF answer \in {"done", "EIO"} THEN 1 ELSE 0
    /\ \A i \in DOMAIN executed : executed[i] # "worker"
    /\ answer # "none" => descriptor # "open"

FilesAreHonest == TransfersAreExact /\ FileOperationsRunOnce

=============================================================================
