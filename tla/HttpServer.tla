----------------------------- MODULE HttpServer -----------------------------
(***************************************************************************)
(* This module holds the HTTP/1 server: a connection, the writing of a     *)
(* response body, the router and the message parsers.  Its parts have      *)
(* their own variables; modules that use one of them leave the others out. *)
(***************************************************************************)
EXTENDS Integers, SequencesExt

-----------------------------------------------------------------------------
(***************************************************************************)
(* One connection of the HTTP server (http/http_server.hpp): the TLS       *)
(* handshake and each request's read under a watchdog, routing with the    *)
(* exception fallbacks, interim responses, the keep-alive decision and     *)
(* dispatch_reply.  The client may send several requests at once, stop     *)
(* sending, send what is malformed or too large, or leave; stop() cancels  *)
(* the connection's token.  How a response is written is BodyWriter.       *)
(***************************************************************************)
CONSTANTS HsRequests,    \* requests a client sends
          HsKeepAlive    \* max_keep_alive_requests

VARIABLES hserv,   \* the connection's task
          hwatch,  \* the watchdog of the handshake or of the read in progress
          hclient, \* the client, and what it was sent
          hstop    \* stop(): running_ and the connection's token

hsVars == <<hserv, hwatch, hclient, hstop>>

HsInit ==
    /\ hserv \in [pc : {"handshake", "loop"}, count : {0}, keep : {FALSE}, ok : {FALSE},
                  req : {"none"}, sealed : {FALSE}, buffered : {0}, timed : BOOLEAN]
    /\ hwatch = [pc |-> "off", stop |-> FALSE, fired |-> FALSE]
    /\ hclient = [asked |-> 0, answered |-> 0, begun |-> 0, mode |-> "ok", ended |-> FALSE,
                  after |-> FALSE]
    /\ hstop = FALSE

cancelled == hstop
shut == hwatch.fired

Arm == hwatch' = [pc |-> IF hserv.timed THEN "sleep" ELSE "off", stop |-> FALSE,
                  fired |-> hwatch.fired]
\* stop_watchdog: cancel the timer, then wait for its task.
Joined == hwatch.pc \in {"off", "done"}
Goto(pc) == hserv' = [hserv EXCEPT !.pc = pc]

-----------------------------------------------------------------------------
(* perform_tls_handshake_with_timeout.                                      *)

start_handshake ==
    /\ hserv.pc = "handshake" /\ Goto("shaking") /\ Arm
    /\ UNCHANGED <<hclient, hstop>>
handshake ==
    /\ hserv.pc = "shaking"
    /\ \E ok \in BOOLEAN :
         /\ ok => hclient.mode = "ok" /\ ~shut
         /\ ~ok => hclient.mode # "silent" \/ shut \/ cancelled
         /\ hserv' = [hserv EXCEPT !.pc = "shook", !.ok = ok]
    /\ hwatch' = [hwatch EXCEPT !.stop = TRUE]
    /\ UNCHANGED <<hclient, hstop>>
handshake_done ==
    /\ hserv.pc = "shook" /\ Joined
    /\ Goto(IF hserv.ok /\ ~hwatch.fired THEN "loop" ELSE "done")
    /\ UNCHANGED <<hwatch, hclient, hstop>>

\* The timer of a read or of the handshake fires: the socket is shut down, unless
\* the handshake is already done.
watchdog_fires ==
    /\ hwatch.pc = "sleep"
    /\ hwatch' = [hwatch EXCEPT !.pc = "done",
                    !.fired = @ \/ hserv.pc \notin {"shook"}]
    /\ UNCHANGED <<hserv, hclient, hstop>>
watchdog_stops ==
    /\ hwatch.pc = "sleep" /\ hwatch.stop
    /\ hwatch' = [hwatch EXCEPT !.pc = "done"]
    /\ UNCHANGED <<hserv, hclient, hstop>>

-----------------------------------------------------------------------------
(* handle_requests: reading.                                                *)

\* running_, the token and the number of requests are tested before each request.
next_request ==
    /\ hserv.pc = "loop"
    /\ IF ~cancelled /\ hserv.count < HsKeepAlive
       THEN /\ hserv' = [hserv EXCEPT !.pc = "read", !.req = "none", !.sealed = FALSE]
            /\ Arm
       ELSE Goto("done") /\ UNCHANGED hwatch
    /\ UNCHANGED <<hclient, hstop>>

Stop(pc, req) ==
    /\ hserv' = [hserv EXCEPT !.pc = pc, !.req = req]
    /\ hwatch' = [hwatch EXCEPT !.stop = TRUE]
\* Buffered bytes of a pipelined request are parsed first; otherwise a read ends
\* with bytes, the end of input, the token, or the watchdog's shutdown.
read_request ==
    /\ hserv.pc = "read"
    /\ \/ /\ hserv.buffered > 0
          /\ hserv' = [hserv EXCEPT !.pc = "stop", !.req = "complete", !.buffered = @ - 1]
          /\ hwatch' = [hwatch EXCEPT !.stop = TRUE]
          /\ hclient' = [hclient EXCEPT !.begun = @ + 1]
       \/ /\ hserv.buffered = 0 /\ (shut \/ cancelled \/ hclient.mode = "left")
          /\ Stop("stop", "none") /\ UNCHANGED hclient
       \/ /\ hserv.buffered = 0 /\ hclient.mode = "ok" /\ ~shut
          /\ \/ \E r \in {"bad", "too_large"} : Stop("stop", r) /\ UNCHANGED hclient
             \/ \E n \in 1..(HsRequests - hclient.asked) :
                  /\ hserv' = [hserv EXCEPT !.pc = "stop", !.req = "complete",
                                            !.buffered = n - 1]
                  /\ hwatch' = [hwatch EXCEPT !.stop = TRUE]
                  /\ hclient' = [hclient EXCEPT !.asked = @ + n, !.begun = @ + 1]
    /\ UNCHANGED hstop

\* The watchdog is joined; one that fired ends the connection without an answer.
stop_watchdog ==
    /\ hserv.pc = "stop" /\ Joined
    /\ hwatch' = [hwatch EXCEPT !.pc = "off", !.stop = FALSE]
    /\ Goto(CASE hserv.req \in {"bad", "too_large"} -> "refuse"
              [] hserv.req = "complete" /\ ~hwatch.fired -> "route"
              [] OTHER -> "done")
    /\ UNCHANGED <<hclient, hstop>>

CanWrite == hclient.mode = "ok" /\ ~shut /\ ~cancelled
\* send_error_response: 400 or 413 with Connection: close.
send_error_response ==
    /\ hserv.pc = "refuse" /\ Goto("done")
    /\ hclient' = IF CanWrite THEN [hclient EXCEPT !.after = @ \/ hclient.ended, !.ended = TRUE]
                  ELSE hclient
    /\ UNCHANGED <<hwatch, hstop>>

-----------------------------------------------------------------------------
(* Routing and answering.                                                   *)

\* context::send_interim, by the handler or by a task it started: refused with
\* EALREADY once the final response is selected.
send_interim ==
    /\ hserv.pc \in {"route", "dispatch"} /\ ~hserv.sealed /\ CanWrite
    /\ hclient' = [hclient EXCEPT !.after = @ \/ hserv.sealed]
    /\ UNCHANGED <<hserv, hwatch, hstop>>

\* route_request answers, or an exception is turned into the error handler's or
\* the 500 response; then the context is sealed and keep-alive decided: the request
\* asks for it, it is not the last one allowed, and the server is not stopping.
route_request ==
    /\ hserv.pc = "route"
    /\ \E close \in BOOLEAN :
         hserv' = [hserv EXCEPT !.pc = "dispatch", !.sealed = TRUE,
                     !.keep = ~close /\ hserv.count + 1 < HsKeepAlive /\ ~cancelled]
    /\ UNCHANGED <<hwatch, hclient, hstop>>

\* dispatch_reply: an ordinary response that is sent, reusable or not; one that
\* fails part-way; or a tunnel, which takes the connection over.
dispatch_reply ==
    /\ hserv.pc = "dispatch"
    /\ \/ /\ CanWrite
          /\ \E reuse \in BOOLEAN :
               /\ reuse => hserv.keep
               /\ hclient' = [hclient EXCEPT !.after = @ \/ hclient.ended,
                                !.answered = @ + 1, !.ended = ~reuse]
               /\ hserv' = [hserv EXCEPT !.pc = IF reuse THEN "loop" ELSE "done",
                              !.count = IF reuse THEN @ + 1 ELSE @]
       \/ /\ hclient' = [hclient EXCEPT !.ended = TRUE]
          /\ Goto("done")
    /\ UNCHANGED <<hwatch, hstop>>

\* serve_connection: stop() clears running_ and cancels the token.
stop ==
    /\ ~hstop /\ hstop' = TRUE /\ UNCHANGED <<hserv, hwatch, hclient>>
client_leaves ==
    /\ hclient.mode = "ok"
    /\ \E m \in {"silent", "left"} : hclient' = [hclient EXCEPT !.mode = m]
    /\ UNCHANGED <<hserv, hwatch, hstop>>

HsNext ==
    \/ start_handshake \/ handshake \/ handshake_done \/ watchdog_fires \/ watchdog_stops
    \/ next_request \/ read_request \/ stop_watchdog \/ send_error_response
    \/ send_interim \/ route_request \/ dispatch_reply \/ stop \/ client_leaves
\* Handlers and writes end (a write that blocks has a timeout); timers fire.
HsFairness ==
    /\ WF_hsVars(start_handshake) /\ WF_hsVars(handshake) /\ WF_hsVars(handshake_done)
    /\ WF_hsVars(watchdog_fires) /\ WF_hsVars(watchdog_stops) /\ WF_hsVars(next_request)
    /\ WF_hsVars(read_request) /\ WF_hsVars(stop_watchdog) /\ WF_hsVars(send_error_response)
    /\ WF_hsVars(route_request) /\ WF_hsVars(dispatch_reply)
HsSpec == HsInit /\ [][HsNext]_hsVars /\ HsFairness

-----------------------------------------------------------------------------
(* Properties.                                                              *)

\* Every request that is begun gets one final response at most and the next one is
\* begun only after it; nothing follows a response that ends the connection, no
\* interim follows the final one, and the client is told which response is last.
RequestsAreAnsweredInTurn ==
    /\ hclient.answered <= hclient.begun /\ hclient.begun <= hclient.answered + 1
    /\ hserv.pc = "loop" => hclient.begun = hclient.answered /\ ~hclient.ended
    /\ ~hclient.after
    /\ hserv.count <= HsKeepAlive
    /\ hserv.pc = "loop" => hserv.count < HsKeepAlive

\* The watchdog refers to the stream of the connection's frame: it never outlives
\* the read it guards, nor the connection.
ServerWatchdogIsJoined ==
    hserv.pc \in {"refuse", "route", "dispatch", "loop", "done"} => hwatch.pc # "sleep"

\* A connection has ended after stop(), and after its client fell silent when there
\* is a keep-alive timeout.
HsServed == hstop \/ (hclient.mode = "silent" /\ hserv.timed) => hserv.pc = "done"

-----------------------------------------------------------------------------
(***************************************************************************)
(* Sending one HTTP response: prepare_response chooses the framing,        *)
(* send_response drives a body_writer (headers, the producer's or the      *)
(* complete body, the ending), and each operation of the writer races its  *)
(* transport against two cancellation tokens and a watchdog; the first to  *)
(* claim the outcome wins.  Bytes are counted; a header block, a chunk     *)
(* prefix or suffix and the terminal chunk are one byte each.              *)
(***************************************************************************)
CONSTANT BwBytes       \* largest body that is described or written

VARIABLES bresp,   \* the response: its description, plan, and send_response
          bwr,     \* body_writer
          bop,     \* the operation in perform()
          bdog,    \* its watchdog
          bwire,   \* what the peer got
          benv     \* tokens and the deadline

bwVars == <<bresp, bwr, bop, bdog, bwire, benv>>

None == -1
-----------------------------------------------------------------------------
(* prepare_response.                                                        *)

\* Why a response is refused whatever its lengths say: a Transfer-Encoding of its
\* own, a status outside 200..599, a success for CONNECT; or its producer has run.
Faults == {"transfer_encoding", "status", "connect", "produced"}
Describable ==
    [fault : {"none"},
     head : BOOLEAN, code : {200, 204, 205, 304}, old : BOOLEAN, stream : BOOLEAN,
     length : {None} \cup 0..BwBytes, manual : {None, 0, 1}, represented : {None, 1},
     delimited : BOOLEAN, close : BOOLEAN, allow : BOOLEAN]
Faulty ==
    [fault : Faults,
     head : {FALSE}, code : {200}, old : {FALSE}, stream : BOOLEAN,
     length : {0, 1}, manual : {None}, represented : {None},
     delimited : {FALSE}, close : {FALSE}, allow : {TRUE}]
Descriptions == Describable \cup Faulty

\* Only a streaming_response has a producer that can have run.
can_produce(d) == d.fault # "produced" \/ ~d.stream

bodyless(d) == d.head \/ d.code \in {204, 205, 304}
wire_length(d) ==
    IF ~bodyless(d) THEN IF d.delimited THEN None ELSE d.length
    ELSE CASE d.code = 205 -> 0
           [] d.code = 204 -> None
           [] OTHER -> IF d.represented # None THEN d.represented
                       ELSE IF d.code = 304 THEN d.manual ELSE d.length
\* A manual Content-Length must agree with the length that goes on the wire.
invalid(d) ==
    \/ d.fault \in Faults \ {"produced"}
    \/ ~d.stream /\ d.length = None
    \/ bodyless(d) /\ d.code # 204 /\ d.manual # None /\ d.manual # wire_length(d)
    \/ ~bodyless(d) /\ d.manual # None /\ (d.delimited \/ d.manual # d.length)
    \/ ~bodyless(d) /\ d.delimited /\ d.length # None
framing(d) ==
    CASE bodyless(d) -> "none"
      [] ~bodyless(d) /\ d.delimited -> "close_delimited"
      [] ~bodyless(d) /\ ~d.delimited /\ d.length # None -> "content_length"
      [] OTHER -> IF d.old THEN "close_delimited" ELSE "chunked"
prepare_response(d) ==
    [framing |-> framing(d),
     expected |-> IF bodyless(d) THEN 0 ELSE d.length,
     producer |-> ~bodyless(d) /\ d.stream,
     reusable |-> d.allow /\ framing(d) # "close_delimited" /\ ~d.close]

-----------------------------------------------------------------------------
NoOperation == [pc |-> "off", kind |-> "none", left |-> 0, size |-> 0,
                winner |-> "pending", framed |-> 0]
BwInit ==
    /\ \E d \in Descriptions :
         bresp = [pc |-> "plan", desc |-> d, plan |-> prepare_response(d),
                  answer |-> "none", reused |-> FALSE]
    /\ bwr \in [phase : {"headers"}, confirmed : {0}, result : {"ok"}, timeout : BOOLEAN]
    /\ bop = NoOperation
    /\ bdog = [pc |-> "off", stop |-> FALSE]
    /\ bwire = [head |-> FALSE, payload |-> 0, chunk |-> 0, last |-> FALSE]
    /\ benv = [cancelled |-> FALSE, late |-> FALSE]

plan == bresp.plan
\* The description is not needed once the plan is made.
Planned == CHOOSE d \in Describable : ~invalid(d)

MutFail(w, e) == [w EXCEPT !.result = e, !.phase = "failed"]
\* fail(): the first failure sticks.
fail(w, e) == IF w.phase = "failed" THEN w ELSE [w EXCEPT !.result = e, !.phase = "failed"]

Answer(w, reuse) ==
    bresp' = [bresp EXCEPT !.pc = "done", !.answer = w.result,
                           !.reused = reuse /\ w.result = "ok"]

-----------------------------------------------------------------------------
(* perform.                                                                 *)

\* The checks before any byte is written; n is the size of the operation.
refusal(kind, n) ==
    CASE (kind = "headers") # (bwr.phase = "headers") -> "invalid_state"
      [] benv.cancelled -> "cancelled"
      [] kind = "body" /\ plan.expected # None /\ n > plan.expected - bwr.confirmed ->
           "length_mismatch"
      [] kind = "finish" /\ plan.expected # None /\ bwr.confirmed # plan.expected ->
           "length_mismatch"
      [] OTHER -> "none"

\* chunked: prefix and suffix travel with the payload of a batch.
Overhead(kind) == IF kind = "body" /\ plan.framing = "chunked" THEN 2 ELSE 0
Start(kind, n) ==
    /\ LET size == IF n = 0 THEN 0 ELSE n + Overhead(kind) IN
       bop' = [pc |-> "write", kind |-> kind, left |-> size, size |-> size,
               winner |-> "pending", framed |-> size - n]
    /\ bdog' = [pc |-> IF n > 0 /\ bwr.timeout THEN "sleep" ELSE "off", stop |-> FALSE]
    /\ benv' = [benv EXCEPT !.late = FALSE]

\* A failed writer answers its first failure; a refused operation fails it.
begin_operation(kind, n) ==
    IF bwr.phase = "failed" \/ refusal(kind, n) # "none"
    THEN /\ bwr' = fail(bwr, refusal(kind, n))
         /\ bop' = [bop EXCEPT !.pc = "returned", !.kind = kind]
         /\ UNCHANGED <<bdog, benv>>
    ELSE Start(kind, n) /\ UNCHANGED bwr

\* The operation has its arbitration and its registrations.
Working == {"write", "flight", "join"}
\* arbitration::claim: only a pending outcome can be claimed.
claim(o, w) == IF o.winner = "pending" THEN [o EXCEPT !.winner = w] ELSE o

\* Bytes of prefix and suffix are not confirmed as body bytes.
confirm(n) ==
    IF bop.kind # "body" THEN bwr
    ELSE IF bop.framed = 0 THEN [bwr EXCEPT !.confirmed = @ + n]
    ELSE LET first == IF bwire.chunk = 0 THEN 1 ELSE 0
             last == IF n = bop.left THEN 1 ELSE 0
         IN  [bwr EXCEPT !.confirmed = @ + n - first - last]
\* The peer's view: how much of the payload is among the first x bytes of a chunk.
PayloadAt(x) ==
    IF bop.framed = 0 THEN x ELSE IF x = 0 THEN 0
    ELSE IF x = bop.size THEN x - 2 ELSE x - 1
Wire(n) ==
    CASE bop.kind = "headers" -> [bwire EXCEPT !.head = TRUE]
      [] bop.kind = "finish" -> [bwire EXCEPT !.last = TRUE]
      [] OTHER -> [bwire EXCEPT
                     !.payload = @ + PayloadAt(bop.size - bop.left + n)
                                   - PayloadAt(bop.size - bop.left),
                     !.chunk = IF bop.framed = 0 \/ n = bop.left THEN 0 ELSE 1]

\* The loop looks at the outcome and the clock before it calls the transport.
Late == bdog.pc # "off" /\ benv.late
call_transport ==
    /\ bop.pc = "write" /\ bop.left > 0 /\ bop.winner = "pending" /\ ~Late
    /\ bop' = [bop EXCEPT !.pc = "flight"]
    /\ UNCHANGED <<bresp, bwr, bdog, bwire, benv>>

\* The transport took some of the bytes, or failed (as it does when the winner of
\* the outcome stops it); bytes it took count even when the outcome was claimed
\* while it was under way.
transport ==
    /\ bop.pc = "flight"
    /\ \/ \E n \in 1..bop.left :
            /\ bwr' = confirm(n) /\ bwire' = Wire(n)
            /\ bop' = [bop EXCEPT !.pc = "write", !.left = @ - n]
       \/ /\ bop' = [claim(bop, "error") EXCEPT !.pc = "write"]
          /\ UNCHANGED <<bwr, bwire>>
    /\ UNCHANGED <<bresp, bdog, benv>>

\* The loop ends: a last look at the clock, then success is claimed.
end_loop ==
    /\ bop.pc = "write" /\ (bop.left = 0 \/ bop.winner # "pending" \/ Late)
    /\ bop' = [claim(IF Late THEN claim(bop, "timed_out") ELSE bop,
                     "success") EXCEPT !.pc = "join"]
    /\ bdog' = [bdog EXCEPT !.stop = TRUE]
    /\ UNCHANGED <<bresp, bwr, bwire, benv>>

\* The watchdog is joined before the outcome is read.
finish_operation ==
    /\ bop.pc = "join" /\ bdog.pc \in {"off", "done"}
    /\ bop' = [bop EXCEPT !.pc = "returned"]
    /\ bdog' = [pc |-> "off", stop |-> FALSE]
    /\ bwr' = IF bop.winner # "success" THEN fail(bwr, bop.winner)
              ELSE IF bop.kind = "headers" THEN [bwr EXCEPT !.phase = "open"]
              ELSE IF bop.kind = "finish" THEN [bwr EXCEPT !.phase = "finished"] ELSE bwr
    /\ UNCHANGED <<bresp, bwire, benv>>

watchdog ==
    /\ bdog.pc = "sleep"
    /\ \/ bdog.stop /\ UNCHANGED bop
       \/ benv.late /\ bop' = claim(bop, "timed_out")
    /\ bdog' = [bdog EXCEPT !.pc = "done"]
    /\ UNCHANGED <<bresp, bwr, bwire, benv>>
deadline_passes ==
    /\ bdog.pc = "sleep" /\ ~benv.late
    /\ benv' = [benv EXCEPT !.late = TRUE]
    /\ UNCHANGED <<bresp, bwr, bop, bdog, bwire>>
\* Either token: the registrations of an operation in progress interrupt it.
cancel ==
    /\ ~benv.cancelled /\ bresp.pc # "done"
    /\ benv' = [benv EXCEPT !.cancelled = TRUE]
    /\ bop' = IF bop.pc \in Working THEN claim(bop, "cancelled") ELSE bop
    /\ UNCHANGED <<bresp, bwr, bdog, bwire>>

-----------------------------------------------------------------------------
(* send_response.                                                           *)

send_headers ==
    /\ bresp.pc = "plan"
    /\ IF ~can_produce(bresp.desc) \/ invalid(bresp.desc)
       THEN /\ bresp' = [bresp EXCEPT !.pc = "done", !.desc = Planned,
                           !.answer = IF can_produce(bresp.desc) THEN "invalid_response"
                                      ELSE "invalid_state"]
            /\ UNCHANGED <<bwr, bop, bdog, benv>>
       ELSE /\ begin_operation("headers", 1)
            /\ bresp' = [bresp EXCEPT !.pc = "headers", !.desc = Planned]
    /\ UNCHANGED bwire

Ret == bop.pc = "returned"
Off == bop' = NoOperation

headers_sent ==
    /\ bresp.pc = "headers" /\ Ret /\ Off
    /\ IF bwr.phase = "failed" THEN Answer(bwr, FALSE)
       ELSE bresp' = [bresp EXCEPT !.pc = IF plan.producer THEN "produce"
                                          ELSE IF plan.framing # "none" THEN "body"
                                          ELSE "finish"]
    /\ UNCHANGED <<bwr, bdog, bwire, benv>>

\* The producer writes pieces as it likes, also after a write has failed, returns,
\* or fails itself.
produce ==
    /\ bresp.pc = "produce" /\ bop.pc \in {"off", "returned"}
    /\ \/ \E n \in 0..BwBytes :
            /\ bwr.confirmed + n <= BwBytes + 1
            /\ begin_operation("body", n)
            /\ UNCHANGED bresp
       \/ Off /\ bresp' = [bresp EXCEPT !.pc = "finish"] /\ UNCHANGED <<bwr, bdog, benv>>
       \/ /\ Off
          /\ bwr' = fail(bwr, "producer_error")
          /\ Answer(bwr', FALSE)
          /\ UNCHANGED <<bdog, benv>>
    /\ UNCHANGED bwire

write_complete ==
    /\ bresp.pc = "body" /\ bop.pc = "off"
    /\ begin_operation("body", plan.expected)
    /\ UNCHANGED <<bresp, bwire>>
complete_sent ==
    /\ bresp.pc = "body" /\ Ret /\ Off
    /\ IF bwr.phase = "failed" THEN Answer(bwr, FALSE)
       ELSE bresp' = [bresp EXCEPT !.pc = "finish"]
    /\ UNCHANGED <<bwr, bdog, bwire, benv>>

\* The ending is the terminal chunk, or nothing.
send_ending ==
    /\ bresp.pc = "finish" /\ bop.pc = "off"
    /\ begin_operation("finish", IF plan.framing = "chunked" THEN 1 ELSE 0)
    /\ UNCHANGED <<bresp, bwire>>
ending_sent ==
    /\ bresp.pc = "finish" /\ Ret /\ Off
    /\ Answer(bwr, plan.reusable)
    /\ UNCHANGED <<bwr, bdog, bwire, benv>>

BwNext ==
    \/ send_headers \/ headers_sent \/ produce \/ write_complete \/ complete_sent
    \/ send_ending \/ ending_sent \/ call_transport \/ transport \/ end_loop
    \/ finish_operation \/ watchdog \/ deadline_passes \/ cancel
BwSpec == BwInit /\ [][BwNext]_bwVars

-----------------------------------------------------------------------------
(* Properties.                                                              *)

\* The framing a peer sees: what a request and a status say has no body has none on
\* the wire; every other response has a length, chunks (never to an HTTP/1.0 peer)
\* or ends with the connection, which is then not offered for reuse.
PlanIsFramed ==
    bresp.pc = "plan" /\ ~invalid(bresp.desc) =>
      LET d == bresp.desc IN
      /\ plan.framing = "none" <=> bodyless(d)
      /\ plan.framing = "content_length" => wire_length(d) # None /\ plan.expected = wire_length(d)
      /\ plan.framing = "chunked" => ~d.old /\ wire_length(d) = None /\ d.manual = None
      /\ plan.reusable => plan.framing # "close_delimited" /\ d.allow /\ ~d.close
      /\ d.manual # None /\ d.code # 204 => wire_length(d) = d.manual

\* A response reported as sent went out whole: the promised length, or whole chunks
\* and the terminal one; only such a response leaves the connection reusable.
SentIsComplete ==
    bresp.pc = "done" =>
      /\ bresp.answer = "ok" =>
           /\ bwire.head /\ bwire.chunk = 0
           /\ plan.expected # None => bwire.payload = plan.expected
           /\ bwire.last <=> plan.framing = "chunked"
      /\ bresp.reused => bresp.answer = "ok" /\ plan.reusable
      /\ bop.pc = "off" /\ bdog.pc = "off"

\* confirmed_body_bytes is what the peer was sent of the body, framing excluded,
\* and never more than was promised.
ConfirmedIsExact ==
    /\ bwr.confirmed = bwire.payload
    /\ plan.expected # None => bwr.confirmed <= plan.expected

\* A writer that failed sends nothing more and keeps its first failure, whatever
\* its producer goes on to write; an operation whose outcome was claimed keeps that
\* outcome, and calls the transport no more.
FailureSticks ==
    /\ bwr.phase = "failed" => bwire' = bwire /\ bwr' = bwr
    /\ bop.winner # "pending" /\ bop.pc \in Working =>
         /\ bop'.pc \in Working => bop'.winner = bop.winner
         /\ bop.pc # "flight" => bwire' = bwire

-----------------------------------------------------------------------------
(***************************************************************************)
(* The HTTP and WebSocket routers: patterns are split at their slashes     *)
(* into literal, parameter and wildcard segments, a path is matched        *)
(* segment by segment, routes are tried in the order of registration.      *)
(* Patterns and paths are sequences of components; "" is an empty one.     *)
(***************************************************************************)
CONSTANTS RtComponents,   \* the component texts that occur, "" among them
          RtLength,       \* components of a pattern or of a path
          RtRoutes        \* routes registered

VARIABLES rtable,   \* routes_, in order
          rpath,    \* the path of a request
          rfound    \* what find_route and find_ws_route answered

routerVars == <<rtable, rpath, rfound>>

\* add_route and websocket(): ":x" is a parameter, "*" a wildcard, which must be
\* last; registering another pattern throws.
Params == {":a", ":b"}
Wild == "*"
add_route(p) == \A i \in 1..(Len(p) - 1) : p[i] # Wild

segment_kind(seg) == IF seg \in Params THEN "param" ELSE IF seg = Wild THEN "wildcard" ELSE "literal"

\* One segment against one component: matched or not, and what it captures.
matches_one(seg, comp) ==
    CASE segment_kind(seg) = "literal" -> comp = seg
      [] segment_kind(seg) = "param" -> comp # ""
      [] OTHER -> TRUE

\* How far the loop of match() gets: the first segment that ends it.
steps(p, path) ==
    CHOOSE n \in 0..Len(p) :
      /\ \A i \in 1..n : segment_kind(p[i]) # "wildcard" /\ i <= Len(path) /\ matches_one(p[i], path[i])
      /\ n = Len(p) \/ segment_kind(p[n + 1]) = "wildcard" \/ n = Len(path)
         \/ ~matches_one(p[n + 1], path[n + 1])
match(p, path) ==
    LET n == steps(p, path) IN
    IF n < Len(p) THEN segment_kind(p[n + 1]) = "wildcard" /\ n < Len(path)
    ELSE n = Len(path)
\* The captures of the steps taken, later ones of the same name over earlier ones.
captures(p, path, before) ==
    FoldLeft(LAMBDA m, i : IF segment_kind(p[i]) = "param" THEN [m EXCEPT ![p[i]] = path[i]] ELSE m,
             before, [i \in 1..steps(p, path) |-> i])

NoParams == [x \in Params |-> ""]
\* find_route leaves the captures of routes that matched in part in place.
find_route(table, path) ==
    LET hits == {i \in 1..Len(table) : match(table[i], path)}
        last == IF hits = {} THEN Len(table) ELSE CHOOSE i \in hits : \A j \in hits : i <= j
    IN  [route |-> IF hits = {} THEN 0 ELSE last,
         params |-> FoldLeft(LAMBDA m, i : captures(table[i], path, m), NoParams,
                             [i \in 1..last |-> i])]
\* ws_route::match is route::match without a method to compare.
ws_match(p, path) == match(p, path)
\* find_ws_route starts every candidate with none.
find_ws_route(table, path) ==
    LET hits == {i \in 1..Len(table) : ws_match(table[i], path)} IN
    IF hits = {} THEN [route |-> 0, params |-> NoParams]
    ELSE LET first == CHOOSE i \in hits : \A j \in hits : i <= j IN
         [route |-> first, params |-> captures(table[first], path, NoParams)]

-----------------------------------------------------------------------------
Texts == UNION {[1..n -> RtComponents] : n \in 1..RtLength}
Patterns == {<<"">> \o t : t \in UNION {[1..n -> RtComponents \cup Params \cup {Wild}] :
                                          n \in 1..(RtLength - 1)}}
Answers == [asked |-> TRUE, http |-> find_route(rtable, rpath), ws |-> find_ws_route(rtable, rpath)]
Nothing == [route |-> 0, params |-> NoParams]

RouterInit ==
    /\ rtable = <<>>
    /\ rpath \in Texts
    /\ rfound = [asked |-> FALSE, http |-> Nothing, ws |-> Nothing]
register ==
    /\ Len(rtable) < RtRoutes
    /\ \E p \in Patterns : add_route(p) /\ rtable' = Append(rtable, p)
    /\ rfound' = [asked |-> FALSE, http |-> Nothing, ws |-> Nothing]
    /\ UNCHANGED rpath
request ==
    /\ rtable # <<>> /\ rfound' = Answers
    /\ UNCHANGED <<rtable, rpath>>
RouterNext == register \/ request
RouterSpec == RouterInit /\ [][RouterNext]_routerVars

-----------------------------------------------------------------------------
(* Properties.                                                              *)

\* What a pattern means: its components equal the path's, a parameter stands for
\* one component that is not empty, a final wildcard for one or more of any kind.
Means(p, path) ==
    LET wild == p[Len(p)] = Wild
        n == IF wild THEN Len(p) - 1 ELSE Len(p)
    IN  /\ IF wild THEN Len(path) > n ELSE Len(path) = n
        /\ \A i \in 1..n : IF p[i] \in Params THEN path[i] # "" ELSE p[i] = path[i]
\* A request is given to the first route whose pattern it matches, by both routers;
\* its parameters are the components of the path in their places.
RoutesAreRight ==
    /\ \A i \in 1..Len(rtable) : \A j \in 1..(Len(rtable[i]) - 1) : rtable[i][j] # Wild
    /\ \A r \in {rfound.http, rfound.ws} : r.route # 0 =>
         LET p == rtable[r.route] IN
         /\ Means(p, rpath)
         /\ \A i \in 1..(r.route - 1) : ~Means(rtable[i], rpath)
         /\ \A i \in 1..Len(p) : p[i] \in Params =>
              \E k \in i..Len(p) : p[k] = p[i] /\ r.params[p[i]] = rpath[k]
    /\ rfound.asked /\ (rfound.http.route = 0 \/ rfound.ws.route = 0) =>
         \A i \in 1..Len(rtable) : ~Means(rtable[i], rpath)
    /\ rfound.ws.route # 0 =>
         \A x \in Params : rfound.ws.params[x] # "" =>
           \E i \in 1..Len(rtable[rfound.ws.route]) : rtable[rfound.ws.route][i] = x

-----------------------------------------------------------------------------
(***************************************************************************)
(* The HTTP/1 message parsers of http/http_parser.hpp: request_parser, and *)
(* response_decoder under response_parser, fed with a text in arbitrary    *)
(* pieces.  A text is a sequence of tokens: "cr" and "lf" are the bytes of *)
(* the line ending, every other token stands for one stretch of characters *)
(* that the parsers do not take apart further (a start line, a header      *)
(* line, a chunk size, a byte of a body).  Lengths are counted in tokens.  *)
(***************************************************************************)
CONSTANTS
    HmHeaders,      \* max_headers_
    HmLine,         \* max_header_size_
    HmLines         \* header lines of a message after its first one

VARIABLES hmsg, htext, hparser

hmVars == <<hmsg, htext, hparser>>

Crlf == <<"cr", "lf">>

\* The start lines: the method and version of a request, the code of a response.
Requests ==
    [get11 |-> [method |-> "GET", version |-> 11],
     get10 |-> [method |-> "GET", version |-> 10],
     connect11 |-> [method |-> "CONNECT", version |-> 11]]
Codes == [s200 |-> 200, s204 |-> 204, s101 |-> 101]

\* The header lines that is_valid_header_name and is_valid_header_value accept,
\* and the lengths that Content-Length may carry (-1: content_length() gives
\* nullopt).
Lengths == [cl0 |-> 0, cl1 |-> 1, clx |-> -1]
Codings == {"chunked", "gzip"}
HeaderTokens == {"host", "other"} \cup Codings \cup DOMAIN Lengths
Sizes == [n0 |-> 0, n1 |-> 1, n2 |-> 2]

-----------------------------------------------------------------------------
\* std::string::find("\r\n") in the buffer, and the two parts it separates.

Ends(b) == {i \in 1..Len(b) - 1 : SubSeq(b, i, i + 1) = Crlf}
HasLine(b) == Ends(b) # {}
LineEnd(b) == Min(Ends(b))
LineOf(b) == SubSeq(b, 1, LineEnd(b) - 1)
AfterLine(b) == SubSeq(b, LineEnd(b) + 2, Len(b))

buffered_line_size(b) == IF b # <<>> /\ Last(b) = "cr" THEN Len(b) - 1 ELSE Len(b)

IsHeader(line) == Len(line) = 1 /\ line[1] \in HeaderTokens

\* parse_chunk_size_line(): hexadecimal digits, then nothing but extensions.
parse_chunk_size_line(line) ==
    IF Len(line) = 1 /\ line[1] \in DOMAIN Sizes THEN Sizes[line[1]] ELSE -1

-----------------------------------------------------------------------------
\* class headers, as the sequence of the lines it was given.

contains(fields, tokens) == \E i \in 1..Len(fields) : fields[i] \in tokens
Selected(fields, tokens) == SelectSeq(fields, LAMBDA t : t \in tokens)

\* A repeated Content-Length with the same value is dropped.
add(fields, t) ==
    IF t \in DOMAIN Lengths /\ contains(fields, DOMAIN Lengths) THEN fields
    ELSE Append(fields, t)

set(fields, t) ==
    Append(SelectSeq(fields, LAMBDA f : ~(f \in DOMAIN Lengths /\ t \in DOMAIN Lengths)), t)

content_length(fields) == Lengths[Selected(fields, DOMAIN Lengths)[1]]

\* Transfer-Encoding lines are joined with commas; the last coding counts.
is_chunked(fields) == Last(Selected(fields, Codings)) = "chunked"

Conflicts(fields, t) ==
    t \in DOMAIN Lengths /\ contains(fields, DOMAIN Lengths \ {t})

-----------------------------------------------------------------------------
Fresh == [state |-> "start_line", start |-> "", method |-> "", fields |-> <<>>,
          count |-> 0, remaining |-> 0, line |-> <<>>, body |-> <<>>, buffer |-> <<>>]

Ended(p) == p.state \in {"complete", "error"}
set_error(p) == [p EXCEPT !.state = "error"]

\* request_parser::parse_request_line().
parse_request_line(p) ==
    IF ~HasLine(p.buffer) THEN p
    ELSE LET line == LineOf(p.buffer) IN
         IF Len(line) = 1 /\ line[1] \in DOMAIN Requests
         THEN [p EXCEPT !.start = line[1], !.state = "headers", !.buffer = AfterLine(@)]
         ELSE set_error(p)

\* The empty line of request_parser::parse_headers(): how the body is framed.
request_framing(p) ==
    LET te == contains(p.fields, Codings)
        cl == contains(p.fields, DOMAIN Lengths)
        length == content_length(p.fields)
        start == Requests[p.start]
        hosts == Len(Selected(p.fields, {"host"}))
        q == [p EXCEPT !.buffer = AfterLine(@)]
    IN CASE te /\ cl -> set_error(q)
         [] ~(te /\ cl) /\ start.version = 11 /\ hosts # 1 -> set_error(q)
         [] OTHER ->
            IF start.method = "CONNECT"
            THEN IF te \/ (cl /\ length # 0) THEN set_error(q)
                 ELSE [q EXCEPT !.state = "complete"]
            ELSE IF te
            THEN IF is_chunked(p.fields) THEN [q EXCEPT !.state = "chunk_size"] ELSE set_error(q)
            ELSE IF cl
            THEN IF length = -1 THEN set_error(q)
                 ELSE [q EXCEPT !.remaining = length,
                                !.state = IF length > 0 THEN "body" ELSE "complete"]
            ELSE [q EXCEPT !.state = "complete"]

\* One turn of the loop of request_parser::parse_headers().
MutParse_headers(p) ==
    LET line == LineOf(p.buffer) IN
    CASE ~HasLine(p.buffer) ->
            IF Len(p.buffer) > HmLine THEN set_error(p) ELSE p
      [] HasLine(p.buffer) /\ line = <<>> -> request_framing(p)
      [] OTHER ->
            IF Len(line) > HmLine \/ ~IsHeader(line) \/ Conflicts(p.fields, line[1])
               \/ p.count >= HmHeaders
            THEN set_error(p)
            ELSE [p EXCEPT !.fields = add(@, line[1]), !.count = @ + 1,
                           !.buffer = AfterLine(@)]
parse_headers(p) ==
    LET line == LineOf(p.buffer) IN
    CASE ~HasLine(p.buffer) ->
            IF buffered_line_size(p.buffer) > HmLine THEN set_error(p) ELSE p
      [] HasLine(p.buffer) /\ line = <<>> -> request_framing(p)
      [] OTHER ->
            IF Len(line) > HmLine \/ ~IsHeader(line) \/ Conflicts(p.fields, line[1])
               \/ p.count >= HmHeaders
            THEN set_error(p)
            ELSE [p EXCEPT !.fields = add(@, line[1]), !.count = @ + 1,
                           !.buffer = AfterLine(@)]

\* request_parser::parse_body().
parse_body(p) ==
    LET n == IF p.remaining < Len(p.buffer) THEN p.remaining ELSE Len(p.buffer)
    IN [p EXCEPT !.body = @ \o SubSeq(p.buffer, 1, n), !.remaining = @ - n,
                 !.buffer = SubSeq(@, n + 1, Len(@)),
                 !.state = IF n = p.remaining THEN "complete" ELSE "body"]

\* request_parser::parse_chunk_size().
parse_chunk_size(p) ==
    LET line == LineOf(p.buffer)
        size == parse_chunk_size_line(line)
    IN IF ~HasLine(p.buffer)
       THEN IF buffered_line_size(p.buffer) > HmLine THEN set_error(p) ELSE p
       ELSE IF Len(line) > HmLine \/ size = -1 THEN set_error(p)
       ELSE [p EXCEPT !.remaining = size, !.buffer = AfterLine(@),
                      !.state = IF size = 0 THEN "trailers" ELSE "chunk_data"]

\* request_parser::parse_chunk_data(): a chunk is taken with its line ending.
parse_chunk_data(p) ==
    LET n == p.remaining IN
    IF Len(p.buffer) < n + 2 THEN p
    ELSE IF SubSeq(p.buffer, n + 1, n + 2) # Crlf THEN set_error(p)
    ELSE [p EXCEPT !.body = @ \o SubSeq(p.buffer, 1, n), !.remaining = 0,
                   !.buffer = SubSeq(@, n + 3, Len(@)), !.state = "chunk_size"]

\* request_parser::parse_chunk_trailer().
parse_chunk_trailer(p) ==
    LET line == LineOf(p.buffer) IN
    CASE ~HasLine(p.buffer) ->
            IF buffered_line_size(p.buffer) > HmLine THEN set_error(p) ELSE p
      [] HasLine(p.buffer) /\ line = <<>> ->
            [p EXCEPT !.buffer = AfterLine(@), !.state = "complete"]
      [] OTHER ->
            IF Len(line) > HmLine \/ p.count >= HmHeaders \/ ~IsHeader(line)
            THEN set_error(p)
            ELSE [p EXCEPT !.count = @ + 1, !.buffer = AfterLine(@)]

request_step(p) ==
    CASE p.state = "start_line" -> parse_request_line(p)
      [] p.state = "headers" -> parse_headers(p)
      [] p.state = "body" -> parse_body(p)
      [] p.state = "chunk_size" -> parse_chunk_size(p)
      [] p.state = "chunk_data" -> parse_chunk_data(p)
      [] p.state = "trailers" -> parse_chunk_trailer(p)

-----------------------------------------------------------------------------
\* response_decoder, which takes its input byte by byte.

handoff(p) ==
    \/ Codes[p.start] = 101
    \/ p.method = "CONNECT" /\ Codes[p.start] \in 200..299

status_forbids_response_body(code) == code \in 100..199 \cup {204, 205, 304}

select_framing(p) ==
    LET te == contains(p.fields, Codings)
        cl == contains(p.fields, DOMAIN Lengths)
        length == content_length(p.fields)
    IN IF handoff(p) \/ p.method = "HEAD" \/ status_forbids_response_body(Codes[p.start])
       THEN [p EXCEPT !.state = "complete"]
       ELSE IF te /\ cl THEN set_error(p)
       ELSE IF te
       THEN IF Selected(p.fields, Codings) = <<"chunked">>
            THEN [p EXCEPT !.state = "chunk_size"] ELSE set_error(p)
       ELSE IF cl
       THEN IF length = -1 THEN set_error(p)
            ELSE [p EXCEPT !.remaining = length,
                           !.state = IF length = 0 THEN "complete" ELSE "body"]
       ELSE [p EXCEPT !.state = "close_body"]

\* response_decoder::process_line() on a header line.
response_header(p, line) ==
    LET tunnel == p.method = "CONNECT" /\ Codes[p.start] \in 200..299
                  /\ line[1] \in DOMAIN Lengths
    IN IF ~IsHeader(line) \/ (~tunnel /\ Conflicts(p.fields, line[1])) \/ p.count >= HmHeaders
       THEN set_error(p)
       ELSE [p EXCEPT !.count = @ + 1,
                      !.fields = IF tunnel THEN set(@, line[1]) ELSE add(@, line[1])]

process_line(p, line) ==
    CASE p.state = "start_line" ->
            IF Len(line) = 1 /\ line[1] \in DOMAIN Codes
            THEN [p EXCEPT !.start = line[1], !.state = "headers"] ELSE set_error(p)
      [] p.state = "chunk_size" ->
            LET size == parse_chunk_size_line(line) IN
            IF size = -1 THEN set_error(p)
            ELSE [p EXCEPT !.remaining = size,
                           !.state = IF size = 0 THEN "trailers" ELSE "chunk_data"]
      [] p.state = "trailers" ->
            IF line = <<>> THEN [p EXCEPT !.state = "complete"]
            ELSE IF p.count >= HmHeaders \/ ~IsHeader(line) THEN set_error(p)
            ELSE [p EXCEPT !.count = @ + 1]
      [] p.state = "headers" ->
            IF line = <<>> THEN select_framing(p) ELSE response_header(p, line)

\* The states of decode() that hand out body bytes.
decode_body(p) ==
    LET n == IF p.state = "close_body" \/ Len(p.buffer) < p.remaining
             THEN Len(p.buffer) ELSE p.remaining
        left == IF p.state = "close_body" THEN 0 ELSE p.remaining - n
    IN [p EXCEPT !.body = @ \o SubSeq(p.buffer, 1, n),
                 !.buffer = SubSeq(@, n + 1, Len(@)), !.remaining = left,
                 !.state = IF p.state = "close_body" \/ left > 0 THEN @
                           ELSE IF p.state = "body" THEN "complete" ELSE "chunk_cr"]

\* The line ending after a chunk, a byte at a time.
decode_ending(p) ==
    IF Head(p.buffer) # (IF p.state = "chunk_cr" THEN "cr" ELSE "lf") THEN set_error(p)
    ELSE [p EXCEPT !.buffer = Tail(@),
                   !.state = IF p.state = "chunk_cr" THEN "chunk_lf" ELSE "chunk_size"]

\* The states of decode() that collect a line.
decode_line(p) ==
    LET ch == Head(p.buffer)
        q == [p EXCEPT !.buffer = Tail(@)]
        half == p.line # <<>> /\ Last(p.line) = "cr"
    IN IF half # (ch = "lf") THEN set_error(q)
       ELSE IF ch = "lf" THEN process_line([q EXCEPT !.line = <<>>], Front(p.line))
       ELSE IF ch # "cr" /\ Len(p.line) >= HmLine THEN set_error(q)
       ELSE [q EXCEPT !.line = Append(@, ch)]

response_step(p) ==
    CASE p.buffer = <<>> -> p
      [] p.buffer # <<>> /\ p.state \in {"body", "close_body", "chunk_data"} -> decode_body(p)
      [] p.buffer # <<>> /\ p.state \in {"chunk_cr", "chunk_lf"} -> decode_ending(p)
      [] OTHER -> decode_line(p)

-----------------------------------------------------------------------------
\* parse(): the buffered text is taken step by step until a step has to wait
\* for more, or the message has ended.
RECURSIVE run(_, _)
run(kind, p) ==
    LET q == IF Ended(p) THEN p
             ELSE IF kind = "request" THEN request_step(p) ELSE response_step(p)
    IN IF q = p THEN p ELSE run(kind, q)

\* response_parser::finish_eof(): a body that ends with the connection is done,
\* any other unfinished message is an error.
finish_eof(p) ==
    IF Ended(p) THEN p
    ELSE [p EXCEPT !.state = IF @ = "close_body" THEN "complete" ELSE "error"]

\* reset(): what was read beyond the message stays for the next one.
reset(p) == [Fresh EXCEPT !.buffer = p.line \o p.buffer]

-----------------------------------------------------------------------------
\* Messages: a start line, header lines and whatever text follows the head.

HeaderLines ==
    {<<t>> : t \in HeaderTokens} \cup {<<"n1">>, <<"other", "other">>, <<"cr">>}

\* The texts after the head: as a chunked body, each is either whole (data,
\* then rest, with so many trailer lines), cut short or malformed.
Chunk(size, data) == <<size>> \o Crlf \o data \o Crlf
End == <<"n0">> \o Crlf
Whole(text, data, trailers, rest) ==
    [text |-> text \o rest, data |-> data, trailers |-> trailers, rest |-> rest,
     chunked |-> "complete"]
Other(text, chunked) ==
    [text |-> text, data |-> <<>>, trailers |-> 0, rest |-> <<>>, chunked |-> chunked]
Tails ==
    {Whole(Chunk("n1", <<"x">>) \o End \o Crlf, <<"x">>, 0, <<"get10">>),
     Whole(Chunk("n2", <<"x", "cr">>) \o Chunk("n1", <<"lf">>) \o End \o Crlf,
           <<"x", "cr", "lf">>, 0, <<>>),
     Whole(End \o <<"other">> \o Crlf \o Crlf, <<>>, 1, <<"cr">>),
     Other(<<>>, "short"), Other(<<"x">>, "short"), Other(<<"n2">> \o Crlf \o <<"x">>, "short"),
     Other(Chunk("n1", <<"x", "x">>), "error"), Other(<<"x", "x">> \o Crlf, "error"),
     Other(End \o <<"n1">> \o Crlf, "error")}

\* Requests as they come and ones that start with a Host line; "host" and "other"
\* are alike to the decoder of responses.
Hosted(lines) == <<<<"host">>>> \o lines
Jobs ==
    [kind : {"request"}, method : {""}, start : DOMAIN Requests \cup {"x"},
     lines : SeqOf(HeaderLines, HmLines)
             \cup {Hosted(s) : s \in SeqOf({<<"other">>, <<"cl1">>, <<"chunked">>}, HmLines)},
     tail : Tails]
    \cup
    [kind : {"response"}, method : {"GET", "HEAD", "CONNECT"}, start : DOMAIN Codes \cup {"x"},
     lines : SeqOf(HeaderLines \ {<<"host">>}, HmLines), tail : Tails]

TextOf(j) ==
    <<j.start>> \o Crlf \o FlattenSeq([i \in 1..Len(j.lines) |-> j.lines[i] \o Crlf])
    \o Crlf \o j.tail.text

\* "left" is what the parser was not given yet.
HmInit ==
    /\ hmsg \in Jobs
    /\ htext = [left |-> TextOf(hmsg), eof |-> FALSE, reset |-> FALSE]
    /\ hparser = [Fresh EXCEPT !.method = hmsg.method]

\* The connection delivers the next n bytes.
parse ==
    /\ ~Ended(hparser) /\ ~htext.reset /\ ~htext.eof
    /\ \E n \in 1..Len(htext.left) :
          /\ hparser' = run(hmsg.kind,
                            [hparser EXCEPT !.buffer = @ \o SubSeq(htext.left, 1, n)])
          /\ htext' = [htext EXCEPT !.left = SubSeq(@, n + 1, Len(@))]
    /\ UNCHANGED hmsg

end_of_input ==
    /\ hmsg.kind = "response" /\ ~Ended(hparser) /\ ~htext.reset /\ ~htext.eof
    /\ htext.left = <<>>
    /\ hparser' = finish_eof(hparser)
    /\ htext' = [htext EXCEPT !.eof = TRUE]
    /\ UNCHANGED hmsg

next_message ==
    /\ hparser.state = "complete"
    /\ hparser' = reset(hparser)
    /\ htext' = [htext EXCEPT !.reset = TRUE]
    /\ UNCHANGED hmsg

HmNext == parse \/ end_of_input \/ next_message

HmSpec == HmInit /\ [][HmNext]_hmVars

-----------------------------------------------------------------------------
\* What the framing rules make of a message, from its parts alone.

Names(j, tokens) == {i \in 1..Len(j.lines) : j.lines[i][1] \in tokens}
Values(j, tokens) == {j.lines[i][1] : i \in Names(j, tokens)}
IsTunnel(j) ==
    IF j.kind = "request" THEN j.start = "connect11"
    ELSE j.start = "s101" \/ (j.method = "CONNECT" /\ j.start \in {"s200", "s204"})
NoBody(j) == j.kind = "response" /\ (j.method = "HEAD" \/ j.start \in {"s101", "s204"})

MalformedHead(j) ==
    \/ j.start = "x"
    \/ \E i \in 1..Len(j.lines) : ~IsHeader(j.lines[i])
    \/ Len(j.lines) > HmHeaders
    \/ /\ Cardinality(Values(j, DOMAIN Lengths)) > 1
       /\ ~(j.kind = "response" /\ j.method = "CONNECT" /\ j.start \in {"s200", "s204"})
    \/ /\ j.kind = "request"
       /\ \/ Names(j, Codings) # {} /\ Names(j, DOMAIN Lengths) # {}
          \/ j.start # "get10" /\ Cardinality(Names(j, {"host"})) # 1
          \/ j.start = "connect11" /\ Values(j, DOMAIN Lengths \cup Codings) \notin {{}, {"cl0"}}

ChunksAccepted(j) ==
    IF j.kind = "request"
    THEN \E i \in Names(j, {"chunked"}) : \A k \in Names(j, Codings) : k <= i
    ELSE Cardinality(Names(j, Codings)) = 1 /\ Values(j, Codings) = {"chunked"}

Outcome(kind, body, rest) == [kind |-> kind, body |-> body, rest |-> rest]
NoMessage(kind) == Outcome(kind, <<>>, <<>>)

ByLength(text, n) ==
    IF n = -1 THEN NoMessage("error")
    ELSE IF Len(text) < n THEN NoMessage("short")
    ELSE Outcome("complete", SubSeq(text, 1, n), SubSeq(text, n + 1, Len(text)))

ByChunks(j) ==
    IF ~ChunksAccepted(j) THEN NoMessage("error")
    ELSE IF Len(j.lines) + j.tail.trailers > HmHeaders THEN NoMessage("error")
    ELSE Outcome(j.tail.chunked, j.tail.data, j.tail.rest)

Expected(j) ==
    IF MalformedHead(j) THEN NoMessage("error")
    ELSE IF IsTunnel(j) \/ NoBody(j) THEN Outcome("complete", <<>>, j.tail.text)
    ELSE IF Names(j, Codings) # {} /\ Names(j, DOMAIN Lengths) # {} THEN NoMessage("error")
    ELSE IF Names(j, Codings) # {} THEN ByChunks(j)
    ELSE IF Names(j, DOMAIN Lengths) # {}
    THEN ByLength(j.tail.text, Lengths[CHOOSE t \in Values(j, DOMAIN Lengths) : TRUE])
    ELSE IF j.kind = "request" THEN Outcome("complete", <<>>, j.tail.text)
    ELSE Outcome("until_eof", j.tail.text, <<>>)

\* However the connection cuts the text into pieces, the parsers end a message
\* exactly where its framing ends it, with exactly its body, and what was read
\* beyond it is still there; a malformed or truncated message is never taken for
\* a complete one, and a complete one is never refused.
MessagesAreReadExactly ==
    LET e == Expected(hmsg)
        left == htext.left
    IN /\ hparser.state = "complete" =>
            /\ e.kind = "complete" \/ (e.kind = "until_eof" /\ htext.eof)
            /\ hparser.body = e.body
            /\ hparser.line \o hparser.buffer \o left = e.rest
       /\ hparser.state = "error" => e.kind = "error" \/ (e.kind = "short" /\ htext.eof)
       /\ (left = <<>> /\ ~Ended(hparser) /\ ~htext.reset) =>
            e.kind \in {"short", "until_eof"}
       /\ htext.reset => hparser.buffer \o left = e.rest

=============================================================================
