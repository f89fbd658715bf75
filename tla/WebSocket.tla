----------------------------- MODULE WebSocket ------------------------------
(***************************************************************************)
(* This module holds WebSocket: frames and their parser, a connection of   *)
(* the server and the client.  Its parts have their own variables; modules *)
(* that use one of them leave the others out.                              *)
(***************************************************************************)
EXTENDS Integers, FiniteSets, SequencesExt

-----------------------------------------------------------------------------
(***************************************************************************)
(* WebSocket framing (http/websocket_frame.hpp): the incremental           *)
(* frame_parser, the encoders, UTF-8 validation and close codes.  A frame  *)
(* is its header and what its payload is to the parser (length, whether    *)
(* the text so far is well formed); it arrives in pieces.  wjob says which *)
(* of the algorithms a behaviour exercises.                                *)
(***************************************************************************)
CONSTANTS WfMax,       \* max_message_size_ (0 = unbounded)
          WfFrames,    \* frames a peer sends in one behaviour
          WfBytes      \* bytes of a text that is validated

VARIABLES wjob,    \* "parse", "utf8" or "codes"
          wpar,    \* frame_parser
          wsent,   \* the frames the peer sent, and how much of the last one arrived
          wtaken,  \* what the owner of the parser took, in order
          wtext    \* bytes under validation, or a header and a close code

wfVars == <<wjob, wpar, wsent, wtaken, wtext>>

Control == {"close", "ping", "pong"}
is_control_frame(op) == op \in Control
is_valid_opcode(op) == op # "reserved"

\* form: bytes of the length field (1, 3 or 9); len 2^63 stands for its top bit.
TopBit == 70000
Lengths == {0, 1, 2, 125, 126, 65535, 65536, TopBit}
header_error(f) ==
    \/ ~is_valid_opcode(f.op) \/ f.rsv
    \/ f.form = 3 /\ f.len < 126
    \/ f.form = 9 /\ (f.len = TopBit \/ f.len <= 65535)
    \/ is_control_frame(f.op) /\ (f.len > 125 \/ ~f.fin)

\* parse_frame_header on the first `part` pieces of a frame: first byte, second
\* byte, whole header, whole frame.
parse_frame_header(f, part) ==
    CASE part = 0 -> "more"
      [] part >= 1 /\ (~is_valid_opcode(f.op) \/ f.rsv) -> "error"
      [] part \in 1..2 /\ is_valid_opcode(f.op) /\ ~f.rsv ->
           IF part = 2 /\ f.form = 1 /\ header_error(f) THEN "error" ELSE "more"
      [] OTHER -> IF header_error(f) THEN "error" ELSE "header"

encode_form(n) == IF n <= 125 THEN 1 ELSE IF n <= 65535 THEN 3 ELSE 9
\* encode_frame throws for a control frame that is fragmented or too long.
encode_throws(op, fin, n) == is_control_frame(op) /\ (~fin \/ n > 125)
encode_frame(op, fin, mask, n) ==
    [op |-> op, fin |-> fin, rsv |-> FALSE, masked |-> mask,
     form |-> encode_form(n), len |-> n, wellformed |-> TRUE]

-----------------------------------------------------------------------------
(* frame_parser.                                                            *)

Fresh(role) ==
    [role |-> role, at |-> 1, initial |-> FALSE, size |-> 0, frames |-> <<>>,
     type |-> "none", queue |-> <<>>, error |-> "none"]

wrong_mask(p, f) == (p.role = "server" /\ ~f.masked) \/ (p.role = "client" /\ f.masked)
wrong_sequence(p, f) ==
    ~is_control_frame(f.op) /\ (f.op = "cont") # p.initial
too_large(p, f) ==
    ~is_control_frame(f.op) /\ WfMax > 0 /\ (p.size > WfMax \/ f.len > WfMax - p.size)

Failed(p, code) == [p EXCEPT !.error = code]
\* A whole frame leaves the buffer: a control frame is queued as it is, a data
\* frame extends the message, the last one queues it.
accept_frame(p, f) ==
    LET start == IF f.op = "cont" THEN p
                 ELSE [p EXCEPT !.size = 0, !.frames = <<>>, !.type = f.op,
                                !.initial = TRUE]
        grown == [start EXCEPT !.size = @ + f.len, !.frames = Append(@, p.at),
                               !.at = @ + 1]
    IN  IF is_control_frame(f.op)
        THEN [p EXCEPT !.queue = Append(@, [kind |-> f.op, frames |-> <<p.at>>]),
                       !.at = @ + 1]
        ELSE IF ~f.fin THEN grown
        ELSE IF grown.type = "text" /\ ~f.wellformed THEN Failed(p, "invalid_data")
        ELSE [grown EXCEPT !.queue = Append(@, [kind |-> grown.type, frames |-> grown.frames]),
                           !.size = 0, !.frames = <<>>, !.type = "none", !.initial = FALSE]

\* One round of process_buffer on the frame at p.at, of which `part` pieces are in.
process_frame(p, f, part) ==
    LET h == parse_frame_header(f, part) IN
    CASE p.error # "none" \/ h = "more" -> p
      [] h = "error" -> Failed(p, "protocol_error")
      [] OTHER -> IF wrong_mask(p, f) \/ wrong_sequence(p, f) THEN Failed(p, "protocol_error")
                  ELSE IF too_large(p, f) THEN Failed(p, "too_large")
                  ELSE IF part < 4 THEN p ELSE accept_frame(p, f)
\* process_buffer: every frame that arrived, then the piece of the last one.
process_buffer(p, frames, part) ==
    FoldLeft(LAMBDA q, i : process_frame(q, frames[i], IF i = Len(frames) THEN part ELSE 4),
             p, [k \in 1..(Len(frames) - p.at + 1) |-> p.at + k - 1])

\* What a peer sends: any header; text is well formed or not once it is complete.
PeerFrames ==
    [op : {"text", "binary", "cont"}, fin : BOOLEAN, rsv : {FALSE},
     masked : {TRUE}, form : {1}, len : {0, 1}, wellformed : BOOLEAN]
    \cup [op : {"ping"}, fin : BOOLEAN, rsv : {FALSE}, masked : {TRUE}, form : {1},
          len : {1}, wellformed : {TRUE}]
    \cup [op : {"close", "text", "reserved"}, fin : {TRUE}, rsv : BOOLEAN,
          masked : BOOLEAN, form : {1, 3, 9}, len : {2, 126}, wellformed : {TRUE}]

\* Bytes that finish p pieces of the next frames arrive in one read.
parse ==
    /\ wjob = "parse" /\ wpar.error = "none"
    /\ \E part \in 1..4 :
         \/ /\ wsent.frames # <<>> /\ part > wsent.part
            /\ wsent' = [wsent EXCEPT !.part = part]
         \/ /\ wsent.part = 4 /\ Len(wsent.frames) < WfFrames
            /\ \E f \in PeerFrames :
                 wsent' = [frames |-> Append(wsent.frames, f), part |-> part]
    /\ wpar' = process_buffer(wpar, wsent'.frames, wsent'.part)
    /\ UNCHANGED <<wjob, wtaken, wtext>>

\* get_next_control_frame and get_next_message: the oldest item of the queue.
get_next ==
    /\ wjob = "parse" /\ wpar.queue # <<>>
    /\ wtaken' = Append(wtaken, Head(wpar.queue))
    /\ wpar' = [wpar EXCEPT !.queue = Tail(@)]
    /\ UNCHANGED <<wjob, wsent, wtext>>

-----------------------------------------------------------------------------
(* is_valid_utf8.                                                           *)

width(c) ==
    CASE c <= 127 -> 1 [] c \in 192..223 -> 2 [] c \in 224..239 -> 3
      [] c \in 240..247 -> 4 [] OTHER -> 0
trail_ok(s, i, n) == \A j \in (i+1)..(i+n-1) : s[j] \in 128..191
\* d is the second byte: overlong forms, surrogates, values past 10FFFF.
range_ok(c, d) ==
    ~(c < 194 /\ c > 127) /\ ~(c = 224 /\ d < 160) /\ ~(c = 237 /\ d >= 160)
    /\ ~(c = 240 /\ d < 144) /\ ~(c = 244 /\ d > 143) /\ c <= 244
\* v[i]: the text from byte i on is well formed.
is_valid_utf8(s) ==
    LET v[i \in 1..(Len(s) + 4)] ==
          IF i > Len(s) THEN i = Len(s) + 1
          ELSE LET n == width(s[i]) IN
               /\ n > 0 /\ i + n - 1 <= Len(s)
               /\ trail_ok(s, i, n)
               /\ n = 1 \/ range_ok(s[i], s[i+1])
               /\ v[i + n]
    IN  v[1]

EdgeBytes == {127, 128, 143, 144, 159, 160, 191, 193, 194, 223, 224, 237, 239, 240,
              244, 245, 255}
append_byte ==
    /\ wjob = "utf8" /\ Len(wtext) < WfBytes
    /\ \E b \in EdgeBytes : wtext' = Append(wtext, b)
    /\ UNCHANGED <<wjob, wpar, wsent, wtaken>>

\* The definition of UTF-8: a text splits into characters, each the shortest
\* encoding of a code point that is not a surrogate.
Value(s) ==
    CASE Len(s) = 1 -> IF s[1] < 128 THEN s[1] ELSE -1
      [] Len(s) = 2 -> IF s[1] \in 192..223 THEN (s[1] - 192) * 64 + s[2] - 128 ELSE -1
      [] Len(s) = 3 -> IF s[1] \in 224..239
                       THEN (s[1] - 224) * 4096 + (s[2] - 128) * 64 + s[3] - 128 ELSE -1
      [] Len(s) = 4 -> IF s[1] \in 240..247
                       THEN (s[1] - 240) * 262144 + (s[2] - 128) * 4096
                            + (s[3] - 128) * 64 + s[4] - 128 ELSE -1
      [] OTHER -> -1
Least == <<0, 128, 2048, 65536>>
Character(s) ==
    /\ Len(s) \in 1..4 /\ \A j \in 2..Len(s) : s[j] \in 128..191
    /\ Value(s) >= Least[Len(s)] /\ Value(s) <= 1114111 /\ Value(s) \notin 55296..57343
WellFormed(s) ==
    LET w[n \in 0..Len(s)] ==
          n = 0 \/ \E k \in 1..n : k <= 4 /\ w[n - k] /\ Character(SubSeq(s, n - k + 1, n))
    IN  w[Len(s)]

-----------------------------------------------------------------------------
(* Close codes.                                                             *)

is_valid_close_code(c) == c \in 1000..1003 \/ c \in 1007..1014 \/ c \in 3000..4999
NoStatus == 1005
ProtocolError == 1002
parse_close_payload(n, c, reason_ok) ==
    CASE n = 0 -> NoStatus
      [] n = 1 -> ProtocolError
      [] OTHER -> IF is_valid_close_code(c) /\ (n > 2 => reason_ok) THEN c ELSE ProtocolError
encode_close_frame(c) == IF c \in {1005, 1006, 1015} THEN ProtocolError ELSE c
\* The answer of handle_control_frame to a close frame.
close_response(c) == encode_close_frame(IF c = NoStatus THEN 1000 ELSE c)

CodeEdges == {0, 999, 1000, 1003, 1004, 1005, 1006, 1007, 1014, 1015, 1016, 2999, 3000,
              4999, 5000, 65535}

-----------------------------------------------------------------------------
WfInit ==
    /\ wjob \in {"parse", "utf8", "codes"}
    /\ wpar \in {Fresh(r) : r \in IF wjob = "parse" THEN {"server", "client"} ELSE {"server"}}
    /\ wsent = [frames |-> <<>>, part |-> 4] /\ wtaken = <<>>
    /\ wtext = <<>>

WfNext == parse \/ get_next \/ append_byte
WfSpec == WfInit /\ [][WfNext]_wfVars

-----------------------------------------------------------------------------
(* Properties.                                                              *)

Data(i) == ~is_control_frame(wsent.frames[i].op)
Before(i) == {j \in 1..(i - 1) : Data(j)}
\* Frame i continues a message: the data frame before it did not end one.
Open(i) == Before(i) # {} /\ ~wsent.frames[CHOOSE j \in Before(i) : \A k \in Before(i) : k <= j].fin
\* The data frames of the message to which frame i belongs, up to i.
Parts(i) ==
    LET first == CHOOSE j \in Before(i) \cup {i} :
                   /\ wsent.frames[j].op # "cont"
                   /\ \A k \in (j + 1)..i : Data(k) => wsent.frames[k].op = "cont"
    IN  SetToSortSeq({j \in first..i : Data(j)}, <)
Total(s) == FoldLeft(LAMBDA n, j : n + wsent.frames[j].len, 0, s)
Refused(i) ==
    LET f == wsent.frames[i]
        parts == Parts(i)
    IN  \/ header_error(f) \/ (wpar.role = "server") # f.masked
        \/ Data(i) /\ \/ (f.op = "cont") # Open(i)
                      \/ WfMax > 0 /\ Total(parts) > WfMax
                      \/ f.fin /\ ~f.wellformed /\ wsent.frames[Head(parts)].op = "text"
Item(i) ==
    IF Data(i) THEN [kind |-> wsent.frames[Head(Parts(i))].op, frames |-> Parts(i)]
    ELSE [kind |-> wsent.frames[i].op, frames |-> <<i>>]
\* However the bytes are cut into reads, the owner of a frame_parser is given what
\* the frames before the first offending one mean: control frames between the
\* fragments of a message in their places, each message whole and once, none of it
\* after an error; and the offending frame is refused once it is complete.
ParserIsExact ==
    wjob = "parse" =>
      LET all == Len(wsent.frames)
          good == CHOOSE n \in 0..all :
                    (\A i \in 1..n : ~Refused(i)) /\ (n < all => Refused(n + 1))
          whole == IF all = good /\ wsent.part < 4 THEN good - 1 ELSE good
          ends == SetToSortSeq({i \in 1..whole : Data(i) => wsent.frames[i].fin}, <)
      IN  /\ wtaken \o wpar.queue = [k \in DOMAIN ends |-> Item(ends[k])]
          /\ wpar.error # "none" => good < all
          /\ good < all /\ wsent.part = 4 => wpar.error # "none"

\* is_valid_utf8 accepts exactly the well-formed texts, although it tests bytes.
Utf8IsExact == wjob = "utf8" => (is_valid_utf8(wtext) <=> WellFormed(wtext))

\* What the encoders write the parser accepts, at every boundary of the length
\* field, and a close frame is answered with a code that may be on the wire and
\* that the other side reads back as it was meant.
EncodersMatchParsers ==
    wjob = "codes" =>
      /\ \A op \in Control \cup {"text", "binary"}, m \in BOOLEAN, n \in Lengths \ {TopBit} :
           ~encode_throws(op, TRUE, n) => ~header_error(encode_frame(op, TRUE, m, n))
      /\ \A n \in 0..3, c \in CodeEdges, ok \in BOOLEAN :
           LET code == close_response(parse_close_payload(n, c, ok)) IN
           /\ code \notin {1004, 1005, 1006, 1015}
           /\ parse_close_payload(2, code, TRUE) = code

-----------------------------------------------------------------------------
(***************************************************************************)
(* A connection of the WebSocket server (http/websocket_server.hpp): the   *)
(* request read under a watchdog, the upgrade, and then one ws_connection  *)
(* used by its route handler (which receives, sends and closes), by        *)
(* another task of the application (which sends and closes) and by the     *)
(* heartbeat.  Frames go out in pieces under send_mutex_.  The peer may    *)
(* send anything, reset the connection, or fall silent and stop reading.   *)
(***************************************************************************)
CONSTANT WsTimeouts    \* ping_timeout settings tried: subset of BOOLEAN

VARIABLES wconn,   \* ws_connection and what is on the wire
          wact,    \* what each actor is doing with the connection
          wbeat,   \* run_heartbeat
          wtask,   \* handle_request and its watchdog
          wpeer    \* the peer

wsVars == <<wconn, wact, wbeat, wtask, wpeer>>

Users == {"handler", "app"}
Idle == [pc |-> "idle", frame |-> "none", sent |-> 0, then |-> "idle"]

WsInit ==
    /\ wconn = [state |-> "connecting", mutex |-> <<>>, pongs |-> FALSE, shut |-> FALSE,
                cut |-> FALSE, broken |-> FALSE, closes |-> 0]
    /\ wact = [a \in Users |-> Idle]
    /\ wbeat = [pc |-> "off", sent |-> 0, late |-> FALSE, cancel |-> FALSE]
    /\ wtask \in [pc : {"read"}, dog : {"off", "armed"}, interval : BOOLEAN,
                  timeout : WsTimeouts]
    /\ wpeer = [mode |-> "ok", item |-> "none"]

is_open == wconn.state = "open"
dead == wconn.shut \/ wpeer.mode = "reset"

-----------------------------------------------------------------------------
(* handle_request up to the upgrade.                                        *)

watchdog_fires ==
    /\ wtask.dog = "armed" /\ wtask.pc = "read"
    /\ wtask' = [wtask EXCEPT !.dog = "fired"]
    /\ wconn' = [wconn EXCEPT !.shut = TRUE]
    /\ UNCHANGED <<wact, wbeat, wpeer>>

\* stop_watchdog cancels the timer and joins it before anything else is done.
stop_watchdog(pc) == [wtask EXCEPT !.pc = pc, !.dog = "off"]

\* The read loop: end of input, cancellation, an error, too many bytes, or a
\* request; a timer that fired meanwhile ends the connection without an answer.
read_request ==
    /\ wtask.pc = "read"
    /\ \E r \in {"failed", "too_large", "bad", "request"} :
         /\ wtask.dog = "fired" \/ dead => r # "too_large" /\ r # "bad"
         /\ wtask' = stop_watchdog(IF r = "request" /\ wtask.dog # "fired"
                                   THEN "upgrade" ELSE "done")
    /\ UNCHANGED <<wconn, wact, wbeat, wpeer>>

\* find_ws_route, validate_upgrade_request, the 101 response and the bytes that
\* came with the request; other requests are answered once, with no keep-alive.
upgrade ==
    /\ wtask.pc = "upgrade"
    /\ \/ wtask' = [wtask EXCEPT !.pc = "done"] /\ UNCHANGED <<wconn, wact, wbeat>>
       \/ /\ ~dead
          /\ wconn' = [wconn EXCEPT !.state = "open"]
          /\ wtask' = [wtask EXCEPT !.pc = "run"]
          /\ wbeat' = [wbeat EXCEPT !.pc = IF wtask.interval THEN "interval" ELSE "off"]
          /\ UNCHANGED wact
       \/ /\ ~dead
          /\ wconn' = [wconn EXCEPT !.state = "closing"]
          /\ wtask' = [wtask EXCEPT !.pc = "end"]
          /\ wact' = [wact EXCEPT !["handler"] =
                        [Idle EXCEPT !.pc = "lock", !.frame = "close", !.then = "closed"]]
          /\ UNCHANGED wbeat
    /\ UNCHANGED wpeer

-----------------------------------------------------------------------------
(* Sending.                                                                 *)

\* send_raw: the waiters of send_mutex_ are served in order.
lock(a) ==
    /\ wact[a].pc = "lock"
    /\ wconn' = [wconn EXCEPT !.mutex = Append(@, a)]
    /\ wact' = [wact EXCEPT ![a].pc = "write"]
    /\ UNCHANGED <<wbeat, wtask, wpeer>>

\* A piece goes out: it is garbage to the peer when a frame before it was given up.
Out(c) == [c EXCEPT !.broken = @ \/ wconn.cut]
Unlock(c) == [c EXCEPT !.mutex = Tail(@)]

\* What follows the frame: the caller goes on, or the connection is closed.
Sent(a, c) ==
    /\ wconn' = IF wact[a].then = "closed" THEN [c EXCEPT !.state = "closed"] ELSE c
    /\ wact' = [wact EXCEPT ![a] = IF wact[a].then = "loop" THEN [Idle EXCEPT !.pc = "loop"]
                                   ELSE Idle]

write(a) ==
    /\ wact[a].pc = "write" /\ Head(wconn.mutex) = a
    /\ \/ dead /\ Sent(a, Unlock(wconn))
       \/ /\ ~dead /\ wpeer.mode = "ok" /\ wact[a].sent = 0
          /\ wconn' = Out(wconn)
          /\ wact' = [wact EXCEPT ![a].sent = 1]
       \/ /\ ~dead /\ wpeer.mode = "ok"
          /\ Sent(a, Unlock([Out(wconn) EXCEPT
                               !.closes = @ + (IF wact[a].frame = "close" THEN 1 ELSE 0)]))
    /\ UNCHANGED <<wbeat, wtask, wpeer>>

\* send_text, send_binary, send_ping, send_pong: checked before the lock is taken.
send(a) ==
    /\ wtask.pc = "run" /\ wact[a].pc = "idle" /\ is_open
    /\ wact' = [wact EXCEPT ![a] = [Idle EXCEPT !.pc = "lock", !.frame = "data"]]
    /\ UNCHANGED <<wconn, wbeat, wtask, wpeer>>

\* The compare-and-swap to closing lets one actor send the Close frame.
start_close(a, then) ==
    /\ wconn' = [wconn EXCEPT !.state = "closing"]
    /\ wact' = [wact EXCEPT ![a] = [Idle EXCEPT !.pc = "lock", !.frame = "close",
                                                !.then = then]]
close(a) ==
    /\ wtask.pc = "run" /\ wact[a].pc = "idle" /\ is_open
    /\ start_close(a, "closed")
    /\ UNCHANGED <<wbeat, wtask, wpeer>>

-----------------------------------------------------------------------------
(* receive and handle_control_frame.                                        *)

Returns == wact' = [wact EXCEPT !["handler"] = Idle]
Closed == wconn' = [wconn EXCEPT !.state = "closed"]

receive ==
    /\ wtask.pc = "run" /\ wact["handler"].pc = "idle"
    /\ wconn.state \in {"open", "closing"}
    /\ wact' = [wact EXCEPT !["handler"].pc = "loop"]
    /\ UNCHANGED <<wconn, wbeat, wtask, wpeer>>

fail_connection == IF is_open THEN start_close("handler", "closed") ELSE Closed /\ Returns
\* A ping is answered while the connection is open, a close frame unless one went out.
handle_control_frame(op) ==
    CASE op = "pong" -> wconn' = [wconn EXCEPT !.pongs = TRUE] /\ UNCHANGED wact
      [] op = "ping" ->
           /\ wact' = IF is_open
                      THEN [wact EXCEPT !["handler"] = [Idle EXCEPT !.pc = "lock",
                                                          !.frame = "pong", !.then = "loop"]]
                      ELSE wact
           /\ UNCHANGED wconn
      [] op = "close" -> IF is_open THEN start_close("handler", "closed") ELSE Closed /\ Returns

\* The loop: leave when closed, else handle the next frame or wait for one.
receive_step ==
    /\ wact["handler"].pc = "loop"
    /\ IF wconn.state = "closed" THEN Returns /\ UNCHANGED <<wconn, wpeer>>
       ELSE IF dead THEN Closed /\ Returns /\ UNCHANGED wpeer
       ELSE /\ wpeer.item # "none"
            /\ wpeer' = [wpeer EXCEPT !.item = "none"]
            /\ CASE wpeer.item = "message" -> Returns /\ UNCHANGED wconn
                 [] wpeer.item = "eof" -> Closed /\ Returns
                 [] wpeer.item = "bad" -> fail_connection
                 [] OTHER -> handle_control_frame(wpeer.item)
    /\ UNCHANGED <<wbeat, wtask>>

-----------------------------------------------------------------------------
(* run_heartbeat.                                                           *)

BeatEnds == wbeat' = [wbeat EXCEPT !.pc = "done", !.sent = 0, !.late = FALSE]
Stopped == wbeat.cancel \/ ~is_open
\* A ping that was not sent in time: the connection is closed and shut down,
\* unless the heartbeat was told to stop or the connection is no longer open.
fail_closed(c) ==
    /\ BeatEnds
    /\ wconn' = IF ~Stopped /\ wtask.timeout
                THEN [c EXCEPT !.state = "closed", !.shut = TRUE] ELSE c

interval_ends ==
    /\ wbeat.pc = "interval"
    /\ IF Stopped THEN BeatEnds /\ UNCHANGED wconn
       ELSE /\ wbeat' = [wbeat EXCEPT !.pc = "try", !.late = FALSE]
            /\ wconn' = [wconn EXCEPT !.pongs = FALSE]
    /\ UNCHANGED <<wact, wtask, wpeer>>

deadline_passes ==
    /\ wbeat.pc \in {"try", "write", "await"} /\ wtask.timeout /\ ~wbeat.late
    /\ wbeat' = [wbeat EXCEPT !.late = TRUE]
    /\ UNCHANGED <<wconn, wact, wtask, wpeer>>

\* send_raw_until and send_raw_cancellable poll the mutex, they never queue on it.
try_lock ==
    /\ wbeat.pc = "try"
    /\ IF wconn.mutex = <<>>
       THEN /\ wconn' = [wconn EXCEPT !.mutex = <<"beat">>]
            /\ wbeat' = [wbeat EXCEPT !.pc = "write"]
       ELSE (Stopped \/ wbeat.late) /\ fail_closed(wconn)
    /\ UNCHANGED <<wact, wtask, wpeer>>

\* The ping goes out in pieces; told to stop, or too late, the rest is given up.
write_ping ==
    /\ wbeat.pc = "write" /\ Head(wconn.mutex) = "beat"
    /\ \/ /\ Stopped \/ wbeat.late \/ dead
          /\ fail_closed([Unlock(wconn) EXCEPT !.cut = @ \/ wbeat.sent = 1])
       \/ /\ ~Stopped /\ ~wbeat.late /\ ~dead /\ wpeer.mode = "ok"
          /\ \/ /\ wbeat.sent = 0
                /\ wconn' = Out(wconn) /\ wbeat' = [wbeat EXCEPT !.sent = 1]
             \/ /\ wconn' = Unlock(Out(wconn))
                /\ wbeat' = [wbeat EXCEPT !.sent = 0,
                               !.pc = IF wtask.timeout THEN "await" ELSE "interval"]
    /\ UNCHANGED <<wact, wtask, wpeer>>

await_pong ==
    /\ wbeat.pc = "await"
    /\ \/ Stopped /\ BeatEnds /\ UNCHANGED wconn
       \/ /\ ~Stopped /\ wbeat.late
          /\ IF wconn.pongs
             THEN wbeat' = [wbeat EXCEPT !.pc = "interval", !.late = FALSE] /\ UNCHANGED wconn
             ELSE fail_closed(wconn)
    /\ UNCHANGED <<wact, wtask, wpeer>>

-----------------------------------------------------------------------------
(* The end of handle_request.                                               *)

\* The handler returns or throws; tasks it shared the connection with are over.
handler_returns ==
    /\ wtask.pc = "run" /\ \A a \in Users : wact[a].pc = "idle"
    /\ wtask' = [wtask EXCEPT !.pc = "stop"]
    /\ wbeat' = [wbeat EXCEPT !.cancel = TRUE]
    /\ UNCHANGED <<wconn, wact, wpeer>>

\* stop_heartbeat joins it; a connection still open is closed with a Close frame.
stop_heartbeat ==
    /\ wtask.pc = "stop" /\ wbeat.pc \in {"off", "done"}
    /\ wtask' = [wtask EXCEPT !.pc = "end"]
    /\ IF is_open THEN start_close("handler", "closed") ELSE UNCHANGED <<wconn, wact>>
    /\ UNCHANGED <<wbeat, wpeer>>

finish ==
    /\ wtask.pc = "end" /\ wact["handler"].pc = "idle"
    /\ wtask' = [wtask EXCEPT !.pc = "done"]
    /\ UNCHANGED <<wconn, wact, wbeat, wpeer>>

-----------------------------------------------------------------------------
(* The peer.                                                                *)

peer_sends ==
    /\ wpeer.mode = "ok" /\ wpeer.item = "none" /\ wtask.pc = "run"
    /\ \E i \in {"message", "ping", "pong", "close", "bad", "eof"} :
         wpeer' = [wpeer EXCEPT !.item = i]
    /\ UNCHANGED <<wconn, wact, wbeat, wtask>>
peer_fails ==
    /\ wpeer.mode = "ok"
    /\ \E m \in {"reset", "silent"} : wpeer' = [wpeer EXCEPT !.mode = m]
    /\ UNCHANGED <<wconn, wact, wbeat, wtask>>

Progress ==
    \/ watchdog_fires \/ read_request \/ upgrade
    \/ (\E a \in Users : lock(a) \/ write(a)) \/ receive_step
    \/ interval_ends \/ deadline_passes \/ try_lock \/ write_ping \/ await_pong
    \/ stop_heartbeat \/ finish
WsNext ==
    \/ Progress \/ receive \/ handler_returns \/ peer_sends \/ peer_fails
    \/ \E a \in Users : send(a) \/ close(a)

handler_leaves == wconn.state = "closed" /\ handler_returns

\* Every started step is carried on; the handler leaves a connection that ended.
WsFairness ==
    /\ \A a \in Users : WF_wsVars(lock(a)) /\ WF_wsVars(write(a))
    /\ WF_wsVars(receive_step)
    /\ WF_wsVars(interval_ends) /\ WF_wsVars(deadline_passes) /\ WF_wsVars(try_lock)
    /\ WF_wsVars(write_ping) /\ WF_wsVars(await_pong)
    /\ WF_wsVars(stop_heartbeat) /\ WF_wsVars(finish)
    /\ WF_wsVars(handler_leaves)
WsSpec == WsInit /\ [][WsNext]_wsVars /\ WsFairness

-----------------------------------------------------------------------------
(* Properties.                                                              *)

\* Frames of the handler, of other tasks and of the heartbeat do not interleave,
\* one Close frame is sent at most, and only a ping that the heartbeat gave up
\* half-way is ever followed by other bytes.
WsFramesStayWhole ==
    /\ \A a \in Users, b \in Users :
         wact[a].sent = 1 /\ wact[b].sent = 1 => a = b
    /\ wbeat.sent = 1 => \A a \in Users : wact[a].sent = 0
    /\ wconn.closes <= 1
    /\ wconn.broken => wconn.cut

\* Watchdog and heartbeat use the stream and the connection of handle_request's
\* frame: neither is left when it returns, and the watchdog not after the upgrade.
WsTasksAreJoined ==
    /\ wtask.pc # "read" => wtask.dog = "off"
    /\ wtask.pc \in {"end", "done"} => wbeat.pc \in {"off", "done"}
    /\ wtask.pc = "done" => wconn.mutex = <<>> /\ \A a \in Users : wact[a].pc = "idle"

\* With a heartbeat and a timeout, a peer that fell silent does not keep the
\* connection open, even while a send to it blocks with the send mutex held; and a
\* connection that the heartbeat shut down is given back by its handler.
WsServed ==
    /\ wpeer.mode = "silent" /\ wtask.interval /\ wtask.timeout => ~is_open
    /\ wconn.shut => wtask.pc \notin {"run", "end"}

-----------------------------------------------------------------------------
(***************************************************************************)
(* The WebSocket client (http/websocket_client.hpp), used by one caller    *)
(* who connects, receives, sends, closes and connects again; a caller's    *)
(* token may be cancelled and the handshake deadline may pass at any time. *)
(* The server answers the handshake as it likes and sends any frames.      *)
(***************************************************************************)
CONSTANTS WcLimit,     \* handshake header limit, in interim responses
          WcConnects,  \* connection attempts
          WcMessages   \* messages a server sends on one connection

VARIABLES wcl,      \* ws_client; got and rest: perform_handshake's response_parser
          wcall,    \* the caller's operation: its token, deadline and result
          wserver   \* the server, and how many messages it has sent

wcVars == <<wcl, wcall, wserver>>

NoMessage == [kind |-> "none", conn |-> 0, n |-> 0]

WcInit ==
    /\ wcl = [pc |-> "idle", state |-> "connecting", stream |-> 0, attempt |-> 0,
              queue |-> <<>>, error |-> FALSE, got |-> "none", rest |-> <<>>,
              interims |-> 0, closes |-> 0, given |-> 0]
    /\ wcall = [op |-> "none", token |-> FALSE, late |-> FALSE, timed |-> FALSE,
                answer |-> "none", errno |-> "none", message |-> NoMessage]
    /\ wserver = [up |-> TRUE, sent |-> 0]

cancelled == wcall.token

\* What the server writes, as the parsers tell it apart.  A message is known by its
\* connection and its number there.
Written(kinds) ==
    [i \in DOMAIN kinds |->
       [kind |-> kinds[i], conn |-> wcl.attempt,
        n |-> wserver.sent + Cardinality({j \in 1..i : kinds[j] = "message"})]]
Messages(kinds) == Cardinality({j \in DOMAIN kinds : kinds[j] = "message"})
\* Frames of one read, the last of which may violate the protocol.
FrameKinds ==
    LET good == UNION {[1..n -> {"message", "ping", "close"}] : n \in 0..2}
    IN  good \union {Append(f, "bad") : f \in good}
\* One read of the handshake: interim responses, then nothing, a part of a response,
\* or a final one and the frames behind it.
AnswerKinds ==
    LET interims == {[i \in 1..n |-> "interim"] : n \in 0..2}
        last == {<<>>, <<"part">>, <<"garbage">>, <<"other">>, <<"wrong">>}
                  \union {<<"101">> \o f : f \in FrameKinds}
    IN  {i \o l : i \in interims, l \in last} \ {<<>>}

\* connect() and receive() return; state and stream are as the code leaves them.
Return(c, answer, e) ==
    /\ wcl' = [c EXCEPT !.pc = "idle", !.got = "none", !.rest = <<>>]
    /\ wcall' = [wcall EXCEPT !.answer = answer, !.errno = e, !.op = "none"]
ConnectFails(e) ==
    Return([wcl EXCEPT !.state = "closed", !.stream = 0], "false", e)
\* Before the dial succeeds the stream of an earlier connection is left as it is.
RefuseCall(e) == Return([wcl EXCEPT !.state = "closed"], "false", e)

-----------------------------------------------------------------------------
(* connect_impl.                                                            *)

\* A new attempt starts with a fresh parser.
connect ==
    /\ wcl.pc = "idle" /\ wcl.attempt < WcConnects
    /\ \E t \in BOOLEAN, d \in BOOLEAN :
         wcall' = [op |-> "connect", token |-> t, late |-> FALSE, timed |-> d,
                   answer |-> "none", errno |-> "none", message |-> NoMessage]
    /\ wcl' = [wcl EXCEPT !.pc = "checks", !.state = "connecting", !.attempt = @ + 1,
                          !.queue = <<>>, !.error = FALSE, !.interims = 0, !.closes = 0,
                          !.given = 0]
    /\ UNCHANGED wserver

\* The URL, the User-Agent, Origin and subprotocol values, then the token again.
connect_checks ==
    /\ wcl.pc = "checks"
    /\ \/ cancelled /\ RefuseCall("ECANCELED")
       \/ ~cancelled /\ RefuseCall("EINVAL")
       \/ ~cancelled /\ wcl' = [wcl EXCEPT !.pc = "dial"] /\ UNCHANGED wcall
    /\ UNCHANGED wserver

connect_dial ==
    /\ wcl.pc = "dial"
    /\ \/ cancelled /\ RefuseCall("ECANCELED") /\ UNCHANGED wserver
       \/ RefuseCall("ECONNREFUSED") /\ UNCHANGED wserver
       \/ /\ ~cancelled
          /\ wcl' = [wcl EXCEPT !.pc = "send", !.stream = wcl.attempt]
          /\ wserver' = [up |-> TRUE, sent |-> 0] /\ UNCHANGED wcall

-----------------------------------------------------------------------------
(* perform_handshake.                                                       *)

send_handshake ==
    /\ wcl.pc = "send"
    /\ \/ cancelled /\ ConnectFails("ECANCELED")
       \/ ~wserver.up /\ ConnectFails("ECONNRESET")
       \/ ConnectFails("EINVAL")
       \/ wserver.up /\ wcl' = [wcl EXCEPT !.pc = "loop"] /\ UNCHANGED wcall
    /\ UNCHANGED wserver

\* response_parser::parse: up to the end of a response, the bytes behind it kept.
Parsed(c, bytes) ==
    IF Head(bytes).kind = "part" THEN [c EXCEPT !.pc = "loop", !.got = "none", !.rest = <<>>]
    ELSE [c EXCEPT !.pc = "loop", !.got = Head(bytes).kind, !.rest = Tail(bytes)]

\* The top of the loop.  An interim response is skipped as long as those skipped fit
\* the header limit, and the bytes behind it are parsed before more are read.
handshake_loop ==
    /\ wcl.pc = "loop"
    /\ LET skipped == [wcl EXCEPT !.interims = @ + 1, !.got = "none", !.rest = <<>>] IN
       CASE wcl.got \in {"101", "other", "wrong"} ->
              wcl' = [wcl EXCEPT !.pc = "check"] /\ UNCHANGED wcall
         [] wcl.got = "interim" /\ wcl.interims + 1 > WcLimit -> ConnectFails("EMSGSIZE")
         [] wcl.got = "interim" /\ wcl.interims + 1 <= WcLimit /\ ~cancelled /\ wcl.rest # <<>> ->
              IF Head(wcl.rest).kind = "garbage" THEN ConnectFails("EBADMSG")
              ELSE wcl' = Parsed(skipped, wcl.rest) /\ UNCHANGED wcall
         [] OTHER ->
              IF cancelled THEN ConnectFails("ECANCELED")
              ELSE IF wcall.timed /\ wcall.late THEN ConnectFails("ETIMEDOUT")
              ELSE /\ wcl' = [(IF wcl.got = "interim" THEN skipped ELSE wcl) EXCEPT !.pc = "read"]
                   /\ UNCHANGED wcall
    /\ UNCHANGED wserver

\* A read beside its watchdog; a watchdog that fired decides, whatever was read.  A
\* response that is not complete when the header limit is reached is refused.
handshake_read ==
    /\ wcl.pc = "read"
    /\ \/ /\ \/ wcall.timed /\ wcall.late /\ ConnectFails("ETIMEDOUT")
             \/ cancelled /\ ConnectFails("ECANCELED")
             \/ ~wserver.up /\ ConnectFails("ECONNRESET")
          /\ UNCHANGED wserver
       \/ /\ wserver.up
          /\ \E kinds \in AnswerKinds :
               /\ wserver.sent + Messages(kinds) <= WcMessages
               /\ wserver' = [wserver EXCEPT !.sent = @ + Messages(kinds)]
               /\ \/ kinds[1] = "garbage" /\ ConnectFails("EBADMSG")
                  \/ kinds = <<"part">> /\ ConnectFails("EMSGSIZE")
                  \/ /\ kinds[1] # "garbage"
                     /\ wcl' = Parsed(wcl, Written(kinds)) /\ UNCHANGED wcall

\* frame_parser::parse (see process_buffer): the frames before the first bad one.
Fed(c, frames) ==
    [c EXCEPT !.queue = @ \o SelectSeq(frames, LAMBDA f : f.kind # "bad"),
              !.error = \E i \in DOMAIN frames : frames[i].kind = "bad"]

\* The final status, Upgrade, Connection, Sec-WebSocket-Accept and the subprotocol,
\* then the frames that came with the response.
check_handshake ==
    /\ wcl.pc = "check"
    /\ LET fed == Fed(wcl, wcl.rest) IN
       IF wcl.got # "101" THEN ConnectFails("EBADMSG")
       ELSE IF fed.error
       THEN wcl' = [fed EXCEPT !.pc = "refuse", !.state = "closing"] /\ UNCHANGED wcall
       ELSE Return([fed EXCEPT !.state = "open"], "true", "none")
    /\ UNCHANGED wserver
\* fail_connection inside the handshake sends a Close frame before connect fails.
refuse_frames ==
    /\ wcl.pc = "refuse"
    /\ ConnectFails("EBADMSG")
    /\ UNCHANGED wserver

-----------------------------------------------------------------------------
(* receive_impl, send_raw and close.                                        *)

client_receive ==
    /\ wcl.pc = "idle"
    /\ \E t \in BOOLEAN :
         wcall' = [wcall EXCEPT !.op = "receive", !.token = t, !.answer = "none",
                                !.errno = "none", !.message = NoMessage]
    /\ wcl' = [wcl EXCEPT !.pc = "receive"]
    /\ UNCHANGED wserver

Nothing(state, e) == Return([wcl EXCEPT !.state = state], "nothing", e)
receive_loop ==
    /\ wcl.pc = "receive"
    /\ IF wcl.state \notin {"open", "closing"} THEN Nothing(wcl.state, "none")
       ELSE IF cancelled THEN Nothing(wcl.state, "ECANCELED")
       ELSE wcl' = [wcl EXCEPT !.pc = "frames"] /\ UNCHANGED wcall
    /\ UNCHANGED wserver

\* The queued frames in wire order: control frames are handled (a Pong or a Close is
\* sent on an open connection), a message is returned; with none more is read.  A
\* parser with an error is not met here: its connection ended where it was found.
receive_frames ==
    /\ wcl.pc = "frames"
    /\ LET next == IF wcl.queue = <<>> THEN NoMessage ELSE Head(wcl.queue)
           popped == [wcl EXCEPT !.queue = Tail(@)]
           Step(c) == wcl' = c /\ UNCHANGED wcall
       IN  CASE next.kind = "ping" -> Step([popped EXCEPT !.pc =
                                             IF wcl.state = "open" THEN "pong" ELSE "frames"])
             [] next.kind = "close" ->
                  Step(IF wcl.state = "open"
                       THEN [popped EXCEPT !.pc = "answer", !.state = "closing"]
                       ELSE [popped EXCEPT !.state = "closed"])
             [] next.kind \notin {"ping", "close"} /\ wcl.state = "closed" ->
                  Nothing("closed", "none")
             [] next.kind = "message" /\ wcl.state # "closed" ->
                  /\ wcl' = [popped EXCEPT !.pc = "idle", !.given = @ + 1]
                  /\ wcall' = [wcall EXCEPT !.answer = "message", !.op = "none",
                                            !.message = next]
             [] OTHER -> Step([wcl EXCEPT !.pc = "wait"])
    /\ UNCHANGED wserver

\* The read: frames, the end of the stream, or the caller's cancellation.  A frame
\* that violates the protocol ends the connection before those that came with it.
receive_read ==
    /\ wcl.pc = "wait"
    /\ \/ /\ \/ cancelled /\ Nothing(wcl.state, "ECANCELED")
             \/ ~wserver.up /\ Nothing("closed", "none")
          /\ UNCHANGED wserver
       \/ /\ wserver.up
          /\ \E kinds \in FrameKinds \ {<<>>} :
               /\ wserver.sent + Messages(kinds) <= WcMessages
               /\ wserver' = [wserver EXCEPT !.sent = @ + Messages(kinds)]
               /\ LET fed == Fed(wcl, Written(kinds)) IN
                  wcl' = IF fed.error THEN [fed EXCEPT !.pc = "fail", !.state = "closing"]
                         ELSE [fed EXCEPT !.pc = "receive"]
          /\ UNCHANGED wcall

send_pong ==
    /\ wcl.pc = "pong"
    /\ wcl' = [wcl EXCEPT !.pc = "frames"]
    /\ UNCHANGED <<wcall, wserver>>
\* The Close answer of handle_control_frame and the Close of fail_connection.
answer_close ==
    /\ wcl.pc = "answer"
    /\ wcl' = [wcl EXCEPT !.pc = "frames", !.state = "closed", !.closes = @ + 1]
    /\ UNCHANGED <<wcall, wserver>>
fail_connection_sent ==
    /\ wcl.pc = "fail"
    /\ Return([wcl EXCEPT !.state = "closed", !.closes = @ + 1], "nothing", "none")
    /\ UNCHANGED wserver

client_close ==
    /\ wcl.pc = "idle" /\ wcl.state = "open"
    /\ wcl' = [wcl EXCEPT !.pc = "closing", !.state = "closing"]
    /\ UNCHANGED <<wcall, wserver>>
finish_close ==
    /\ wcl.pc = "closing"
    /\ wcl' = [wcl EXCEPT !.pc = "idle", !.state = "closed", !.stream = 0,
                          !.closes = @ + 1]
    /\ UNCHANGED <<wcall, wserver>>

-----------------------------------------------------------------------------
(* The environment.                                                         *)

client_cancel ==
    /\ wcall.op # "none" /\ ~wcall.token
    /\ wcall' = [wcall EXCEPT !.token = TRUE] /\ UNCHANGED <<wcl, wserver>>
client_deadline_passes ==
    /\ wcall.op = "connect" /\ wcall.timed /\ ~wcall.late
    /\ wcl.pc \in {"loop", "read", "check"}
    /\ wcall' = [wcall EXCEPT !.late = TRUE] /\ UNCHANGED <<wcl, wserver>>
server_leaves ==
    /\ wserver.up /\ wcl.stream # 0
    /\ wserver' = [wserver EXCEPT !.up = FALSE] /\ UNCHANGED <<wcl, wcall>>

WcNext ==
    \/ connect \/ connect_checks \/ connect_dial \/ send_handshake \/ handshake_loop
    \/ handshake_read \/ check_handshake \/ refuse_frames \/ client_receive
    \/ receive_loop \/ receive_frames \/ receive_read \/ send_pong \/ answer_close
    \/ fail_connection_sent \/ client_close \/ finish_close \/ client_cancel \/ client_deadline_passes \/ server_leaves
WcSpec == WcInit /\ [][WcNext]_wcVars

-----------------------------------------------------------------------------
(* Properties.                                                              *)

\* connect() answers true only with an open connection of its own; after false its
\* stream is gone, the state is closed and errno names the cause; and the interim
\* responses it skipped stayed within the limit.
WsConnectsHonestly ==
    wcl.pc = "idle" =>
      /\ wcall.answer = "false" =>
           /\ wcl.state = "closed" /\ wcl.stream # wcl.attempt
           /\ wcall.errno = "ECANCELED" => wcall.token
           /\ wcall.errno = "ETIMEDOUT" => wcall.late
      /\ wcl.state = "open" => wcl.stream = wcl.attempt /\ ~wcl.error /\ wcl.closes = 0
      /\ wcl.interims <= WcLimit

\* A receive is given the messages of the connection that is open, every one of them
\* once and in the order they were sent, whatever reads they came with: the response
\* to the handshake, an interim one before it, or control frames around them.  None
\* of an earlier connection is left in the parser, and no connection gets two Close
\* frames.
WsConnectionsAreSeparate ==
    LET waiting == SelectSeq(wcl.queue, LAMBDA f : f.kind = "message") IN
    /\ wcall.answer = "message" => wcall.message.conn = wcl.attempt /\ wcall.message.n = wcl.given
    /\ wcl.pc = "idle" /\ wcl.state = "open" =>
         /\ wserver.sent = wcl.given + Len(waiting)
         /\ \A i \in DOMAIN waiting : waiting[i].conn = wcl.attempt /\ waiting[i].n = wcl.given + i
    /\ wcl.closes <= 1

=============================================================================
