-------------------------------- MODULE Net ---------------------------------
(***************************************************************************)
(* This module holds sockets of elio/net and the resolver.  Its parts have *)
(* their own variables; modules that use one of them leave the others out. *)
(***************************************************************************)
EXTENDS Integers, FiniteSets, SequencesExt

-----------------------------------------------------------------------------
(***************************************************************************)
(* TCP and Unix-domain sockets (net/tcp.hpp, net/uds.hpp) and the wrapper   *)
(* net::stream (net/stream.hpp): connecting or accepting with a token, who  *)
(* owns the descriptor on every way out, and the loops around recv and      *)
(* send.  One reader and one writer use the stream at the same time.        *)
(* What an operation does inside a backend is modelled in IoOperation and   *)
(* the backends; here it completes.                                         *)
(***************************************************************************)
CONSTANT SockBytes    \* bytes a call wants to transfer

VARIABLES transport,  \* "tcp" or "uds"
          want,       \* "connect" or "accept"
          stage,      \* where the awaitable is
          stoken,     \* the token is cancelled
          cancellable_, progress, early, result_,   \* members of the awaitable
          afd, sfd, lfd,      \* fd_ of awaitable, stream and listener: open or not
          closing,    \* an async_close is under way
          accepted,   \* a completed accept has not been resumed yet
          lost,       \* descriptors nobody owns
          opened, closed,     \* how many the kernel opened and closed
          peer,       \* what the kernel knows of the connection
          call, at, got, answer,   \* the transfers, one per direction
          moved, completion        \* bytes the kernel moved, and what it completed with

connVars == <<transport, want, stage, stoken, cancellable_, progress, early, result_,
              afd, sfd, lfd, closing, accepted, lost, opened, closed, peer>>
callVars == <<call, at, got, answer, moved, completion>>
sockVars == <<connVars, callVars>>

Directions == {"in", "out"}
ENODATA == -61
EAGAIN == -11
EINTR == -4
ECANCELED == -125
ECONNRESET == -104
ENOTCONN == -107

\* Names of the calls: exact ones loop until all bytes are there, token ones
\* have a cancel token.
Calls == [exact : BOOLEAN, token : BOOLEAN, vec : BOOLEAN]
NoCall == [exact |-> FALSE, token |-> FALSE, vec |-> FALSE]

SockInit ==
    /\ transport \in {"tcp", "uds"}
    /\ want = "none" /\ stage = "idle" /\ stoken = FALSE
    /\ cancellable_ = FALSE /\ progress = FALSE /\ early = FALSE /\ result_ = "none"
    /\ afd = FALSE /\ sfd = FALSE /\ lfd = FALSE /\ closing = FALSE /\ accepted = FALSE
    /\ lost = 0 /\ opened = 0 /\ closed = 0 /\ peer = "none"
    /\ call = [d \in Directions |-> NoCall]
    /\ at = [d \in Directions |-> "off"]
    /\ got = [d \in Directions |-> 0]
    /\ moved = [d \in Directions |-> 0]
    /\ answer = [d \in Directions |-> 0]
    /\ completion = [d \in Directions |-> 0]

----------------------------------------------------------------------------
\* Listening and beginning to wait.

\* bind_impl: the descriptor is closed again when bind or listen fails.
bind ==
    /\ stage = "idle" /\ ~lfd /\ opened = 0
    /\ opened' = opened + 1
    /\ \/ lfd' = TRUE /\ closed' = closed
       \/ lfd' = FALSE /\ closed' = closed + 1
    /\ UNCHANGED <<transport, want, stage, stoken, cancellable_, progress, early, result_,
                   afd, sfd, closing, accepted, lost, peer, callVars>>

\* await_suspend up to the registration of the cancel callback.
begin(w, c) ==
    /\ stage = "idle" /\ (w = "accept" => lfd)
    /\ want' = w /\ cancellable_' = c
    /\ IF c /\ stoken
       THEN /\ stage' = "resumed" /\ result_' = "cancelled"
            /\ early' = (w = "connect")
       ELSE stage' = "registered" /\ UNCHANGED <<result_, early>>
    /\ UNCHANGED <<transport, stoken, progress, afd, sfd, lfd, closing, accepted, lost,
                   opened, closed, peer, callVars>>

\* The token was cancelled while the callback was registered.
AlreadyCancelled ==
    /\ stage = "registered" /\ cancellable_ /\ stoken
    /\ stage' = "resumed" /\ result_' = "cancelled" /\ early' = (want = "connect")
    /\ UNCHANGED <<transport, want, stoken, cancellable_, progress, afd, sfd, lfd, closing,
                   accepted, lost, opened, closed, peer, callVars>>

\* What connect(2) answers: a full backlog of a Unix socket is EAGAIN and
\* nothing is under way then.
connect_outcomes ==
    {"connected", "failed", "connecting"} \cup
    IF transport = "uds" THEN {"backlog full"} ELSE {}

\* socket() and connect(): EINPROGRESS and, for Unix sockets, EAGAIN wait.
connect ==
    /\ stage = "registered" /\ want = "connect" /\ ~(cancellable_ /\ stoken)
    /\ \/ /\ stage' = "resumed" /\ result_' = "failed"        \* socket() fails
          /\ UNCHANGED <<progress, afd, opened, closed, peer>>
       \/ /\ opened' = opened + 1
          /\ \E k \in connect_outcomes :
               /\ peer' = k
               /\ \/ /\ k = "connected" /\ result_' = "ok" /\ stage' = "resumed"
                     /\ afd' = TRUE /\ UNCHANGED <<progress, closed>>
                  \/ /\ k = "failed" /\ result_' = "failed" /\ stage' = "resumed"
                     /\ closed' = closed + 1 /\ UNCHANGED <<progress, afd>>
                  \/ /\ k \in {"connecting", "backlog full"} /\ progress' = TRUE
                     /\ afd' = TRUE /\ stage' = "open" /\ UNCHANGED <<result_, closed>>
    /\ UNCHANGED <<transport, want, stoken, cancellable_, early, sfd, lfd, closing,
                   accepted, lost, callVars>>

\* The rest of await_suspend: a cancellation seen by now and a backend that
\* refuses give the descriptor back; else the coroutine is suspended.
prepare ==
    /\ \/ stage = "open"
       \/ stage = "registered" /\ want = "accept" /\ ~(cancellable_ /\ stoken)
    /\ \/ /\ \/ cancellable_ /\ stoken /\ result_' = "cancelled"
             \/ result_' = "failed"
          /\ stage' = "resumed"
          /\ afd' = FALSE /\ closed' = closed + IF afd THEN 1 ELSE 0
       \/ /\ stage' = "suspended"
          /\ UNCHANGED <<result_, afd, closed>>
    /\ UNCHANGED <<transport, want, stoken, cancellable_, progress, early, sfd, lfd,
                   closing, accepted, lost, opened, peer, callVars>>

----------------------------------------------------------------------------
\* Completion and resumption.

KernelConnects ==
    /\ peer = "connecting"
    /\ peer' \in {"connected", "refused"}
    /\ UNCHANGED <<transport, want, stage, stoken, cancellable_, progress, early, result_,
                   afd, sfd, lfd, closing, accepted, lost, opened, closed, callVars>>

\* The poll of a connecting socket completes when it is writable, which an
\* unconnected Unix socket is at once; an accept completes with a descriptor.
\* An operation whose frame is gone completes all the same.
Completes ==
    /\ stage \in {"suspended", "orphaned"}
    /\ \/ /\ want = "connect" /\ peer # "connecting" /\ stage = "suspended"
          /\ result_' = "ok" /\ stage' = "resumed"
          /\ UNCHANGED <<accepted, lost, opened>>
       \/ /\ want = "accept" /\ opened' = opened + 1 /\ result_' = "ok"
          /\ IF stage = "suspended"
             THEN accepted' = TRUE /\ stage' = "resumed" /\ UNCHANGED lost
             ELSE lost' = lost + 1 /\ stage' = "over" /\ UNCHANGED accepted
       \/ /\ cancellable_ /\ stoken
          /\ result_' = "cancelled"
          /\ stage' = IF stage = "suspended" THEN "resumed" ELSE "over"
          /\ UNCHANGED <<accepted, lost, opened>>
    /\ UNCHANGED <<transport, want, stoken, cancellable_, progress, early, afd, sfd, lfd,
                   closing, closed, peer, callVars>>

\* getsockopt(SO_ERROR), then finalize_cancellable_io_result.
ConnectResult ==
    IF early THEN "cancelled"
    ELSE IF progress /\ result_ = "ok" /\ peer = "refused" THEN "failed"
    ELSE result_

\* await_resume: the descriptor moves into the stream, or is closed.
await_resume ==
    /\ stage = "resumed"
    /\ stage' = "over"
    /\ LET r == IF want = "connect" THEN ConnectResult ELSE result_
           mine == IF want = "connect" THEN afd ELSE accepted
       IN /\ result_' = r
          /\ sfd' = (r = "ok")
          /\ closed' = closed + IF r # "ok" /\ mine THEN 1 ELSE 0
    /\ afd' = FALSE /\ accepted' = FALSE
    /\ UNCHANGED <<transport, want, stoken, cancellable_, progress, early, lfd, closing,
                   lost, opened, peer, callVars>>

\* The suspended frame is destroyed: the destructor of the awaitable closes what
\* it still owns, its operation is left to the backend.
destroy_awaitable ==
    /\ stage = "suspended"
    /\ stage' = "orphaned"
    /\ closed' = closed + IF afd THEN 1 ELSE 0
    /\ afd' = FALSE
    /\ UNCHANGED <<transport, want, stoken, cancellable_, progress, early, result_, sfd,
                   lfd, closing, accepted, lost, opened, peer, callVars>>

----------------------------------------------------------------------------
\* Closing.

Quiet == \A d \in Directions : at[d] \in {"off", "over"}

\* close(): fd_ is given up before the asynchronous close begins.
close ==
    /\ sfd /\ Quiet
    /\ sfd' = FALSE /\ closing' = TRUE
    /\ UNCHANGED <<transport, want, stage, stoken, cancellable_, progress, early, result_,
                   afd, lfd, accepted, lost, opened, closed, peer, callVars>>

Closes ==
    /\ closing
    /\ closing' = FALSE /\ closed' = closed + 1
    /\ UNCHANGED <<transport, want, stage, stoken, cancellable_, progress, early, result_,
                   afd, sfd, lfd, accepted, lost, opened, peer, callVars>>

\* close_sync of a stream (destruction, move assignment) and of a listener.
close_sync ==
    /\ \/ sfd /\ Quiet /\ sfd' = FALSE /\ UNCHANGED lfd
       \/ lfd /\ stage \notin {"suspended", "orphaned"} /\ lfd' = FALSE /\ UNCHANGED sfd
    /\ closed' = closed + 1
    /\ UNCHANGED <<transport, want, stage, stoken, cancellable_, progress, early, result_,
                   afd, closing, accepted, lost, opened, peer, callVars>>

\* shutdown_socket, finish_write, or the peer goes away.
shutdown_socket ==
    /\ sfd /\ peer # "down"
    /\ peer' = "down"
    /\ UNCHANGED <<transport, want, stage, stoken, cancellable_, progress, early, result_,
                   afd, sfd, lfd, closing, accepted, lost, opened, closed, callVars>>

CancelToken ==
    /\ ~stoken /\ stoken' = TRUE
    /\ UNCHANGED <<transport, want, stage, cancellable_, progress, early, result_,
                   afd, sfd, lfd, closing, accepted, lost, opened, closed, peer, callVars>>

----------------------------------------------------------------------------
\* The loops around recv, send and sendmsg.

\* net::stream passes the call on; a stream that holds nothing answers ENOTCONN.
\* uds_stream::writev takes no token.
begin_call(d, c) ==
    /\ at[d] = "off" /\ stage = "over"
    /\ c.vec => d = "out" /\ ~c.exact /\ (transport = "uds" => ~c.token)
    /\ call' = [call EXCEPT ![d] = c]
    /\ IF sfd THEN at' = [at EXCEPT ![d] = "loop"] /\ UNCHANGED answer
       ELSE /\ at' = [at EXCEPT ![d] = "over"]
            /\ answer' = [answer EXCEPT ![d] = ENOTCONN]
    /\ UNCHANGED <<connVars, got, moved, completion>>

\* Whether read_exactly or write_exactly goes on after result r of a round.
\* Without a token, uds_stream repeats an interrupted one.
tcp_exactly(d, r) == r > 0 /\ got[d] + r < SockBytes
uds_exactly(d, r) ==
    \/ r > 0 /\ got[d] + r < SockBytes
    \/ r = EINTR /\ ~call[d].token

\* The end of read/write: the result of a plain call, a round of an exact one,
\* for which the end of the stream is an error.
Return(d, r) ==
    LET exact == call[d].exact
        on    == exact /\ IF transport = "tcp" THEN tcp_exactly(d, r) ELSE uds_exactly(d, r)
    IN /\ got' = [got EXCEPT ![d] = IF r > 0 THEN @ + r ELSE @]
       /\ at' = [at EXCEPT ![d] = IF on THEN "loop" ELSE "over"]
       /\ answer' = [answer EXCEPT ![d] = CASE on                        -> @
                                            [] ~on /\ exact /\ r = 0     -> ENODATA
                                            [] ~on /\ exact /\ r > 0     -> SockBytes
                                            [] OTHER                     -> r]

\* The head of the loop: a token that is cancelled by now ends the call, else
\* the operation is in flight.
submit_transfer(d) ==
    /\ at[d] = "loop"
    /\ IF call[d].token /\ stoken
       THEN Return(d, ECANCELED)
       ELSE at' = [at EXCEPT ![d] = "in flight"] /\ UNCHANGED <<got, answer>>
    /\ UNCHANGED <<connVars, call, moved, completion>>

\* What the operation completes with: bytes moved, end of stream, an error.  A
\* cancelled one may still complete with bytes.
Completions(d) ==
    {EAGAIN, EINTR, ECONNRESET} \cup
    (IF peer = "down" THEN (IF d = "in" THEN {0} ELSE {}) ELSE 1 .. SockBytes - got[d]) \cup
    (IF call[d].token /\ stoken THEN {ECANCELED} ELSE {})

KernelTransfers(d) ==
    /\ at[d] = "in flight"
    /\ at' = [at EXCEPT ![d] = "completed"]
    /\ \E r \in Completions(d) :
        /\ completion' = [completion EXCEPT ![d] = r]
        /\ moved' = [moved EXCEPT ![d] = IF r > 0 THEN @ + r ELSE @]
    /\ UNCHANGED <<connVars, call, got, answer>>

\* The coroutine goes on, later: EAGAIN waits for readiness and EINTR tries again,
\* but not in uds_stream::writev; everything else is the result, also when the
\* token was cancelled after the completion.
transfer(d) ==
    /\ at[d] = "completed"
    /\ completion' = [completion EXCEPT ![d] = 0]
    /\ LET r     == completion[d]
           loops == ~(call[d].vec /\ transport = "uds")
       IN \/ loops /\ r = EAGAIN /\ at' = [at EXCEPT ![d] = "poll"] /\ UNCHANGED <<got, answer>>
          \/ loops /\ r = EINTR /\ at' = [at EXCEPT ![d] = "loop"] /\ UNCHANGED <<got, answer>>
          \/ (loops => r \notin {EAGAIN, EINTR}) /\ Return(d, r)
    /\ UNCHANGED <<connVars, call, moved>>

\* The wait for readiness: writev repeats an interrupted one, the others return it.
wait_ready(d) ==
    /\ at[d] = "poll"
    /\ \/ at' = [at EXCEPT ![d] = "loop"] /\ UNCHANGED <<got, answer>>
       \/ call[d].token /\ stoken /\ Return(d, ECANCELED)
       \/ Return(d, ECONNRESET)
       \/ ~call[d].vec /\ Return(d, EINTR)
    /\ UNCHANGED <<connVars, call, moved, completion>>

Transfer(d) == submit_transfer(d) \/ KernelTransfers(d) \/ transfer(d) \/ wait_ready(d)

\* The members of the classes, each a use of what both share.
tcp_read  == transport = "tcp" /\ Transfer("in")
tcp_write == transport = "tcp" /\ Transfer("out")
uds_read  == transport = "uds" /\ Transfer("in")
uds_write == transport = "uds" /\ Transfer("out")

tcp_bind == transport = "tcp" /\ bind
uds_bind == transport = "uds" /\ bind

tcp_accept == transport = "tcp" /\ want = "accept" /\ prepare
uds_accept == transport = "uds" /\ want = "accept" /\ prepare
tcp_accepted == transport = "tcp" /\ want = "accept" /\ await_resume
uds_accepted == transport = "uds" /\ want = "accept" /\ await_resume

tcp_connect == transport = "tcp" /\ (connect \/ (want = "connect" /\ prepare))
uds_connect == transport = "uds" /\ (connect \/ (want = "connect" /\ prepare))
tcp_connected == transport = "tcp" /\ want = "connect" /\ await_resume
uds_connected == transport = "uds" /\ want = "connect" /\ await_resume

Awaits ==
    \/ AlreadyCancelled \/ KernelConnects \/ Completes
    \/ tcp_accept \/ uds_accept \/ tcp_accepted \/ uds_accepted
    \/ tcp_connect \/ uds_connect \/ tcp_connected \/ uds_connected

SockNext ==
    \/ tcp_bind \/ uds_bind \/ \E w \in {"connect", "accept"}, c \in BOOLEAN : begin(w, c)
    \/ Awaits \/ destroy_awaitable
    \/ close \/ Closes \/ close_sync \/ shutdown_socket \/ CancelToken
    \/ \E d \in Directions, c \in Calls : begin_call(d, c)
    \/ tcp_read \/ tcp_write \/ uds_read \/ uds_write

\* Threads keep running; poll does not report readiness for ever in vain.
SockFairness ==
    /\ WF_sockVars(tcp_read) /\ WF_sockVars(tcp_write)
    /\ WF_sockVars(uds_read) /\ WF_sockVars(uds_write)
    /\ WF_sockVars(Awaits)

SockSpec == SockInit /\ [][SockNext]_sockVars
SockFairSpec == SockSpec /\ SockFairness

----------------------------------------------------------------------------
Holders == {h \in {"awaitable", "stream", "listener", "closing", "result"} :
              CASE h = "awaitable" -> afd
                [] h = "stream" -> sfd
                [] h = "listener" -> lfd
                [] h = "closing" -> closing
                [] h = "result" -> accepted}

\* On every path of bind, connect, accept, cancellation, destruction and close
\* an open descriptor has exactly one owner and is closed once; the only one
\* that nobody closes is a connection accepted for a frame that was destroyed.
DescriptorsAreOwned ==
    /\ opened - closed = Cardinality(Holders) + lost
    /\ lost > 0 => want = "accept" /\ stage = "over"

\* A stream that connect hands out is connected (or was), but for the full
\* backlog of a Unix socket; a wait that was cancelled before it began never
\* hands one out.
ConnectedIsConnected ==
    stage = "over" /\ want = "connect" /\ result_ = "ok" =>
        /\ peer \in {"connected", "down"} \/ (peer = "backlog full" /\ transport = "uds")
        /\ ~early

\* Bytes that were moved are reported, also when the token is cancelled while the
\* operation is in flight or after it has completed: what the loop has counted is
\* what the kernel moved once the coroutine has gone on, a plain call that reports
\* an error has moved nothing, an exact one that reports success all of it; and
\* only a call whose token is cancelled reports a cancellation.
NoBytesAreLost ==
    \A d \in Directions :
        /\ at[d] # "completed" => got[d] = moved[d]
        /\ at[d] = "over" /\ answer[d] < 0 /\ ~call[d].exact => moved[d] = 0
        /\ at[d] = "over" /\ answer[d] >= 0 => moved[d] = answer[d]
        /\ answer[d] > 0 /\ call[d].exact => answer[d] = SockBytes
        /\ answer[d] = ECANCELED => call[d].token /\ stoken

\* A wait or transfer with a token has ended once the token is cancelled, whatever
\* the socket does.
SockServed ==
    stoken => /\ \A d \in Directions : call[d].token => at[d] \in {"off", "over"}
              /\ cancellable_ => stage \in {"idle", "over", "orphaned"}

-----------------------------------------------------------------------------
(***************************************************************************)
(* Name resolution: resolve_all (net/resolve.hpp) and the bounded wait      *)
(* (net/resolve_wait.hpp) over owned jobs (net/detail/resolve_job.hpp).     *)
(* A bounded caller may leave at its deadline or by cancellation while its  *)
(* job is queued or runs on the blocking pool; the job owns its admission   *)
(* until it is gone.  All callers ask for one name; what the name server    *)
(* answers may change.                                                      *)
(***************************************************************************)
CONSTANTS Resolvers,      \* one call of resolve_all each
          Bounded,        \* those with a deadline or token
          DomainLimit,    \* capacity of the resolve_domain
          MaxChanges      \* bound on changes at the name server

VARIABLES rpc,            \* where a caller is
          use_cache,
          cache,          \* the entry of the name: none, an answer or an error
          world,          \* what the name server answers now, and how often it changed
          outstanding,    \* dns_admission_state::outstanding_
          jphase,         \* dns_job_state::phase_
          jobs,           \* owned jobs alive: in the pool's queue or running
          poolq, found,   \* queue of the pool; result a job published
          looked,         \* a lookup was made for the caller
          verdict         \* what the caller got

rsVars == <<rpc, use_cache, cache, world, outstanding, jphase, jobs, poolq, found, looked, verdict>>

None == "none"
Answers == {"address", "error"}

RsInit ==
    /\ rpc = [r \in Resolvers |-> "idle"]
    /\ use_cache = [r \in Resolvers |-> FALSE]
    /\ cache = None
    /\ world = [answer |-> "address", changes |-> 0]
    /\ outstanding = 0
    /\ jphase = [r \in Resolvers |-> "queued"]
    /\ jobs = {}
    /\ poolq = <<>>
    /\ found = [r \in Resolvers |-> None]
    /\ looked = [r \in Resolvers |-> FALSE]
    /\ verdict = [r \in Resolvers |-> None]

Answer(r, v) ==
    /\ verdict' = [verdict EXCEPT ![r] = v]
    /\ rpc' = [rpc EXCEPT ![r] = "done"]

\* try_get: an entry that has not expired answers at once, good or bad.
\* A literal address never gets here.
try_get(r) ==
    /\ rpc[r] = "idle"
    /\ \E c \in BOOLEAN :
          /\ use_cache' = [use_cache EXCEPT ![r] = c]
          /\ IF c /\ cache # None THEN Answer(r, cache)
             ELSE rpc' = [rpc EXCEPT ![r] = "admit"] /\ UNCHANGED verdict
    /\ UNCHANGED <<cache, world, outstanding, jphase, jobs, poolq, found, looked>>

\* A token or deadline that has passed, or a caller that is not on a worker.
Refused(r) ==
    /\ r \in Bounded /\ rpc[r] \in {"idle", "admit"}
    /\ \E v \in {"cancelled", "timed_out", "refused"} : Answer(r, v)
    /\ UNCHANGED <<use_cache, cache, world, outstanding, jphase, jobs, poolq, found, looked>>

\* try_make_owned_dns_job: no job above the limit of the domain.
try_make_owned_dns_job(r) ==
    /\ rpc[r] = "admit" /\ r \in Bounded
    /\ IF outstanding < DomainLimit
       THEN /\ outstanding' = outstanding + 1
            /\ jobs' = jobs \cup {r}
            /\ rpc' = [rpc EXCEPT ![r] = "submit"]
            /\ UNCHANGED verdict
       ELSE Answer(r, "refused") /\ UNCHANGED <<outstanding, jobs>>
    /\ UNCHANGED <<use_cache, cache, world, jphase, poolq, found, looked>>

\* The job is destroyed with the last reference, and its lease with it.
Destroyed(r) ==
    /\ jobs' = jobs \ {r}
    /\ outstanding' = outstanding - 1

\* submit_bounded: the pool takes the job, refuses it (the departure guard
\* marks it), or is closing and runs it here, where it is rejected.
submit(r) ==
    /\ rpc[r] = "submit"
    /\ \/ /\ poolq' = Append(poolq, r)
          /\ rpc' = [rpc EXCEPT ![r] = "wait"]
          /\ UNCHANGED <<verdict, jphase, jobs, outstanding, found>>
       \/ /\ Answer(r, "refused") /\ Destroyed(r)
          /\ jphase' = [jphase EXCEPT ![r] = "discarded"]
          /\ UNCHANGED <<poolq, found>>
       \/ /\ found' = [found EXCEPT ![r] = "rejected"]
          /\ jphase' = [jphase EXCEPT ![r] = "retired"]
          /\ Destroyed(r)
          /\ rpc' = [rpc EXCEPT ![r] = "wait"]
          /\ UNCHANGED <<poolq, verdict>>
    /\ UNCHANGED <<use_cache, cache, world, looked>>

\* Without deadline and token the lookup is a plain spawn_blocking.
resolve_all(r) ==
    /\ rpc[r] = "admit" /\ r \notin Bounded
    /\ poolq' = Append(poolq, r)
    /\ rpc' = [rpc EXCEPT ![r] = "wait"]
    /\ UNCHANGED <<use_cache, cache, world, outstanding, jphase, jobs, found, looked, verdict>>

----------------------------------------------------------------------------
\* The pool.

\* owned_dns_job::run begins: a job whose caller has left is not looked up.
run ==
    /\ poolq # <<>>
    /\ LET r == Head(poolq)
       IN /\ IF r \in Bounded /\ jphase[r] # "queued"
             THEN /\ jphase' = [jphase EXCEPT ![r] = "retired"]
                  /\ Destroyed(r)
                  /\ UNCHANGED <<looked, found>>
             ELSE /\ jphase' = [jphase EXCEPT ![r] = "running"]
                  /\ looked' = [looked EXCEPT ![r] = TRUE]
                  /\ found' = [found EXCEPT ![r] = world.answer]
                  /\ UNCHANGED <<jobs, outstanding>>
          /\ poolq' = Tail(poolq)
    /\ UNCHANGED <<rpc, use_cache, cache, world, verdict>>

\* The result is published; the job is destroyed after that.
publish(r) ==
    /\ jphase[r] = "running"
    /\ jphase' = [jphase EXCEPT ![r] = "retired"]
    /\ UNCHANGED <<rpc, use_cache, cache, world, outstanding, jobs, poolq, found, looked, verdict>>

drop_job(r) ==
    /\ r \in jobs /\ jphase[r] = "retired"
    /\ Destroyed(r)
    /\ UNCHANGED <<rpc, use_cache, cache, world, jphase, poolq, found, looked, verdict>>

----------------------------------------------------------------------------
\* The caller's end.

\* store, unless the job was rejected locally (cacheable is false then).
store(r) ==
    cache' = IF use_cache[r] /\ found[r] \in Answers THEN found[r] ELSE cache

\* observe_join_result: the result is there.
resolved(r) ==
    /\ rpc[r] = "wait" /\ jphase[r] = "retired" /\ found[r] # None
    /\ store(r)
    /\ Answer(r, IF found[r] = "rejected" THEN "refused" ELSE found[r])
    /\ UNCHANGED <<use_cache, world, outstanding, jphase, jobs, poolq, found, looked>>

\* Deadline or token win: the caller leaves, a queued job is discarded.
depart(r) ==
    /\ rpc[r] = "wait" /\ r \in Bounded
    /\ \E v \in {"cancelled", "timed_out"} : Answer(r, v)
    /\ jphase' = [jphase EXCEPT ![r] = IF @ = "queued" THEN "discarded" ELSE @]
    /\ UNCHANGED <<use_cache, cache, world, outstanding, jobs, poolq, found, looked>>

\* An entry expires, is invalidated or cleared.
invalidate ==
    /\ cache # None /\ cache' = None
    /\ UNCHANGED <<rpc, use_cache, world, outstanding, jphase, jobs, poolq, found, looked, verdict>>

NameServerChanges ==
    /\ world.changes < MaxChanges
    /\ \E a \in Answers : world' = [answer |-> a, changes |-> world.changes + 1]
    /\ UNCHANGED <<rpc, use_cache, cache, outstanding, jphase, jobs, poolq, found, looked, verdict>>

RsNext ==
    \/ \E r \in Resolvers : try_get(r) \/ Refused(r) \/ try_make_owned_dns_job(r)
                              \/ submit(r) \/ resolve_all(r) \/ publish(r) \/ drop_job(r)
                              \/ resolved(r) \/ depart(r)
    \/ run \/ invalidate \/ NameServerChanges

RsSpec == RsInit /\ [][RsNext]_rsVars

----------------------------------------------------------------------------
\* Admission counts the jobs that are alive, whether or not anybody still waits
\* for them, stays within the limit, and comes back when they are gone.
AdmissionIsExact ==
    /\ outstanding = Cardinality(jobs)
    /\ outstanding <= DomainLimit
    /\ \A r \in jobs : rpc[r] = "submit" \/ jphase[r] \in {"running", "retired"} \/ r \in ToSet(poolq)

\* A local refusal, a time-out or a cancellation never becomes a cached answer,
\* and a caller reports an answer only if a lookup or the cache gave it.
CacheIsHonest ==
    /\ cache \in Answers \cup {None}
    /\ cache # None => \E r \in Resolvers : looked[r] /\ found[r] = cache /\ rpc[r] = "done"
    /\ \A r \in Resolvers : verdict[r] \in Answers =>
         \E q \in Resolvers : looked[q] /\ found[q] = verdict[r]

\* Nobody is looked up for a caller that left while the job was queued.
NobodyAsksInVain ==
    \A r \in Bounded : jphase[r] = "discarded" => ~looked[r]

ResolverIsSound == AdmissionIsExact /\ CacheIsHonest /\ NobodyAsksInVain

=============================================================================
