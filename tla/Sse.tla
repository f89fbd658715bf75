-------------------------------- MODULE Sse ---------------------------------
(***************************************************************************)
(* This module holds server-sent events: the event stream and the client.  *)
(* Its parts have their own variables; modules that use one of them leave  *)
(* the others out.                                                         *)
(***************************************************************************)
EXTENDS Integers, SequencesExt

-----------------------------------------------------------------------------
(***************************************************************************)
(* Server-sent events as text: the incremental event_parser of the client, *)
(* event_writer and serialize_event of the server.  A text is a sequence   *)
(* of symbols: the first symbol of a line is its field ("d" data, "i" id,  *)
(* anything else a field or comment that is ignored), the rest its value.  *)
(***************************************************************************)
CONSTANTS SpMax,      \* max_buffer_size_ of the parser
          SpText,     \* symbols a server sends
          SpBatch,    \* descriptors of one writev (24 in the code)
          SpData      \* symbols of the data of an event that is written

VARIABLES pjob,      \* "parse" or "write"
          pparser,   \* event_parser
          ptext,     \* the text it was fed
          ptaken,    \* the events taken from it
          pwriter    \* event_writer and what went through it

spVars == <<pjob, pparser, ptext, ptaken, pwriter>>

CR == "cr"
LF == "lf"
Terminators == {CR, LF}

-----------------------------------------------------------------------------
(* event_parser.                                                            *)

NoEvent == [data |-> <<>>, id |-> <<>>, has_id |-> FALSE]
FreshParser(max) ==
    [max |-> max, buffer |-> <<>>, current |-> NoEvent, events |-> <<>>, last |-> <<>>,
     skip |-> FALSE, failed |-> FALSE]

append_would_exceed_limit(p, current, size, extra) ==
    \/ size > p.max \/ size + extra > p.max
    \/ current > p.max - (size + extra)
\* What was parsed but not taken yet is dropped with the rest.
fail(p) == [FreshParser(p.max) EXCEPT !.last = p.last, !.failed = TRUE]

dispatch(p) ==
    LET e == p.current
        named == IF e.has_id THEN [p EXCEPT !.last = e.id] ELSE p
        done == [named EXCEPT !.current = NoEvent]
    IN  IF e.data = <<>> THEN done
        ELSE [done EXCEPT !.events = Append(@, [e EXCEPT !.data = Front(@)])]
field(p, name, value) ==
    CASE name = "d" -> IF append_would_exceed_limit(p, Len(p.current.data), Len(value), 1)
                       THEN fail(p)
                       ELSE [p EXCEPT !.current.data = @ \o value \o <<LF>>]
      [] name = "i" -> [p EXCEPT !.current.id = value, !.current.has_id = TRUE]
      [] OTHER -> p
\* process_buffer on the one line that `rest` completes.
process_buffer(p, rest, terminal_cr) ==
    LET line == p.buffer \o rest
        q == [p EXCEPT !.buffer = <<>>, !.skip = terminal_cr]
    IN  IF Len(line) > p.max THEN fail(p)
        ELSE IF line = <<>> THEN dispatch(q) ELSE field(q, Head(line), Tail(line))

RECURSIVE parse_lines(_, _)
parse_lines(p, data) ==
    IF data = <<>> \/ p.failed THEN p
    ELSE LET ends == {i \in 1..Len(data) : data[i] \in Terminators}
             t == IF ends = {} THEN 0 ELSE CHOOSE i \in ends : \A j \in ends : i <= j
             pair == t # 0 /\ data[t] = CR /\ t < Len(data) /\ data[t + 1] = LF
             consume == IF pair THEN t + 1 ELSE t
         IN  IF t = 0
             THEN IF append_would_exceed_limit(p, Len(p.buffer), Len(data), 0) THEN fail(p)
                  ELSE [p EXCEPT !.buffer = @ \o data]
             ELSE IF append_would_exceed_limit(p, Len(p.buffer), t - 1, 0) THEN fail(p)
             ELSE parse_lines(process_buffer(p, SubSeq(data, 1, t - 1),
                                             consume = Len(data) /\ data[consume] = CR),
                              SubSeq(data, consume + 1, Len(data)))
\* A chunk: the line feed of a pair whose carriage return ended the last one is skipped.
parse(p, data) ==
    IF p.failed \/ data = <<>> THEN p
    ELSE parse_lines([p EXCEPT !.skip = FALSE],
                     IF p.skip /\ Head(data) = LF THEN Tail(data) ELSE data)

Symbols == {"d", "i"} \cup Terminators
Chunks == UNION {[1..n -> Symbols] : n \in 1..3}
feed ==
    /\ pjob = "parse" /\ ~pparser.failed
    /\ \E c \in Chunks :
         /\ Len(ptext) + Len(c) <= SpText
         /\ ptext' = ptext \o c
         /\ pparser' = parse(pparser, c)
    /\ UNCHANGED <<pjob, ptaken, pwriter>>
get_event ==
    /\ pjob = "parse" /\ pparser.events # <<>>
    /\ ptaken' = Append(ptaken, Head(pparser.events))
    /\ pparser' = [pparser EXCEPT !.events = Tail(@)]
    /\ UNCHANGED <<pjob, ptext, pwriter>>

-----------------------------------------------------------------------------
(* event_writer and serialize_event.                                        *)

\* The lines of a value, split at CR, LF and CR LF.
RECURSIVE append_lines(_)
append_lines(text) ==
    LET ends == {i \in 1..Len(text) : text[i] \in Terminators} IN
    IF ends = {} THEN <<text>>
    ELSE LET t == CHOOSE i \in ends : \A j \in ends : i <= j
             pair == text[t] = CR /\ t < Len(text) /\ text[t + 1] = LF
         IN  <<SubSeq(text, 1, t - 1)>>
             \o append_lines(SubSeq(text, IF pair THEN t + 2 ELSE t + 1, Len(text)))

invalid_field(v) == \E i \in 1..Len(v) : v[i] \in Terminators
FieldBuffers(name, value) == <<<<name>>, value, <<LF>>>>

\* emit_lines: descriptors are collected and flushed before the array is full.
emit_lines(fields, lines) ==
    LET step(acc, l) ==
          LET full == Len(acc.batch) + 3 > SpBatch
              a == IF full THEN [sent |-> Append(acc.sent, acc.batch), batch |-> <<>>] ELSE acc
          IN  [a EXCEPT !.batch = @ \o FieldBuffers("d", l)]
        end == FoldLeft(step, [sent |-> <<>>, batch |-> fields], lines)
        last == IF Len(end.batch) = SpBatch
                THEN [sent |-> Append(end.sent, end.batch), batch |-> <<>>] ELSE end
    IN  Append(last.sent, Append(last.batch, <<LF>>))
encode_event(e) ==
    emit_lines((IF e.has_id THEN FieldBuffers("i", e.id) ELSE <<>>)
               \o (IF e.type # <<>> THEN FieldBuffers("t", e.type) ELSE <<>>),
               append_lines(e.data))
\* The older encoder: an id or type that spans lines, or is empty, is left out.
serialize_event(e) ==
    (IF e.id # <<>> /\ ~invalid_field(e.id) THEN <<"i">> \o e.id \o <<LF>> ELSE <<>>)
    \o (IF e.type # <<>> /\ ~invalid_field(e.type) THEN <<"t">> \o e.type \o <<LF>> ELSE <<>>)
    \o FlattenSeq([i \in 1..Len(append_lines(e.data)) |->
                     <<"d">> \o append_lines(e.data)[i] \o <<LF>>])
    \o <<LF>>

Values == {<<>>, <<"x">>, <<LF>>}
Written == [data : UNION {[1..n -> {"x"} \cup Terminators] : n \in 0..SpData},
            id : Values, has_id : BOOLEAN, type : Values]
\* The transport may fail at any batch; the first failure stays.
send_event ==
    /\ pjob = "write" /\ pwriter.tried < 2
    /\ \E e \in Written :
         /\ e.has_id \/ e.id = <<>>
         /\ LET batches == encode_event(e)
                bad == (e.has_id /\ invalid_field(e.id)) \/ invalid_field(e.type)
            IN  IF pwriter.result # "ok" \/ bad
                THEN pwriter' = [pwriter EXCEPT !.result = IF @ = "ok" THEN "invalid" ELSE @,
                                                !.tried = @ + 1]
                ELSE \E n \in 0..Len(batches) :
                       pwriter' =
                         [result |-> IF n = Len(batches) THEN "ok" ELSE "failed",
                          out |-> pwriter.out \o FlattenSeq(FlattenSeq(SubSeq(batches, 1, n))),
                          whole |-> IF n = Len(batches) THEN Append(pwriter.whole, e)
                                    ELSE pwriter.whole,
                          widest |-> LET s == {Len(batches[i]) : i \in 1..Len(batches)} \cup {pwriter.widest}
                                     IN  CHOOSE m \in s : \A k \in s : k <= m,
                          tried |-> pwriter.tried + 1]
    /\ UNCHANGED <<pjob, pparser, ptext, ptaken>>

SpInit ==
    /\ pjob \in {"parse", "write"}
    /\ pparser = FreshParser(SpMax)
    /\ ptext = <<>> /\ ptaken = <<>>
    /\ pwriter = [result |-> "ok", out |-> <<>>, whole |-> <<>>, widest |-> 0, tried |-> 0]
SpNext == feed \/ get_event \/ send_event
SpSpec == SpInit /\ [][SpNext]_spVars

-----------------------------------------------------------------------------
(* The format: a terminator is a line feed, a carriage return, or both.     *)

Starts(text) == {i \in 1..Len(text) : /\ text[i] \in Terminators
                                      /\ ~(text[i] = LF /\ i > 1 /\ text[i - 1] = CR)}
LineOf(text, i) ==
    SubSeq(text, 1 + (LET before == {j \in 1..(i - 1) : text[j] \in Terminators}
                      IN  IF before = {} THEN 0 ELSE CHOOSE j \in before : \A k \in before : k <= j),
           i - 1)
InOrder(S) == [k \in 1..Cardinality(S) |-> CHOOSE i \in S : Cardinality({j \in S : j <= i}) = k]
Lines(text) ==
    LET at == InOrder(Starts(text)) IN [k \in 1..Len(at) |-> LineOf(text, at[k])]
Pending(text) == LineOf(text, Len(text) + 1)
\* Blocks: the lines between empty ones; only complete blocks make events.
Blanks(ls) == {k \in 1..Len(ls) : ls[k] = <<>>}
Block(ls, k) ==
    LET before == {j \in Blanks(ls) : j < k}
        from == IF before = {} THEN 0 ELSE CHOOSE j \in before : \A i \in before : i <= j
    IN  SubSeq(ls, from + 1, k - 1)
DataOf(block) ==
    LET ds == SelectSeq(block, LAMBDA l : l[1] = "d")
    IN  FlattenSeq([i \in 1..Len(ds) |-> Tail(ds[i]) \o <<LF>>])
IdsOf(block) == SelectSeq(block, LAMBDA l : l[1] = "i")
EventsOf(text) ==
    LET ls == Lines(text)
        at == InOrder({k \in Blanks(ls) : DataOf(Block(ls, k)) # <<>>})
    IN  [i \in 1..Len(at) |->
           LET b == Block(ls, at[i]) IN
           [data |-> Front(DataOf(b)), has_id |-> IdsOf(b) # <<>>,
            id |-> IF IdsOf(b) = <<>> THEN <<>> ELSE Tail(Last(IdsOf(b)))]]
TooLong(text) ==
    LET ls == Lines(text) IN
    \/ Len(Pending(text)) > SpMax
    \/ \E k \in 1..Len(ls) : Len(ls[k]) > SpMax
    \/ \E k \in 1..(Len(ls) + 1) :
         (k > Len(ls) \/ ls[k] = <<>>) /\ Len(DataOf(Block(ls, k))) > SpMax

\* However the text is cut into chunks, the parser delivers the events of the text,
\* in order and once each, and fails exactly when a line or the data of an event is
\* over the limit (event_parser::parse, process_buffer).
ParsesAnyChunks ==
    pjob = "parse" =>
      /\ pparser.failed <=> TooLong(ptext)
      /\ ~pparser.failed => ptaken \o pparser.events = EventsOf(ptext)
      /\ pparser.failed => IsPrefix(ptaken, EventsOf(ptext))

Normalised(e) == [data |-> FlattenSeq([i \in 1..Len(append_lines(e.data)) |->
                            append_lines(e.data)[i] \o (IF i < Len(append_lines(e.data))
                                                        THEN <<LF>> ELSE <<>>)]),
                  has_id |-> e.has_id, id |-> e.id]
\* What the writer sent whole is what a parser reads, line ends normalised; nothing
\* follows a failure; the descriptors of a batch fit its array; the older encoder
\* agrees where it has the id (event_writer::emit_lines, serialize_event).
WrittenIsRead ==
    pjob = "write" =>
      /\ pwriter.widest <= SpBatch
      /\ EventsOf(pwriter.out) = [i \in 1..Len(pwriter.whole) |-> Normalised(pwriter.whole[i])]
      /\ parse(FreshParser(100), pwriter.out).events = EventsOf(pwriter.out)
      /\ \A i \in 1..Len(pwriter.whole) :
           LET e == pwriter.whole[i]
               read == parse(FreshParser(100), serialize_event(e)).events
           IN  Len(read) = 1 /\ read[1].data = Normalised(e).data
               /\ read[1].has_id = (e.id # <<>>)

-----------------------------------------------------------------------------
(***************************************************************************)
(* sse::sse_client: connect(), receive() with its automatic reconnection,  *)
(* close() from another coroutine.  The server numbers its events and      *)
(* resumes after the Last-Event-ID it is sent; what a body slice holds is  *)
(* how many whole events it completes and whether another one is begun.    *)
(***************************************************************************)
CONSTANTS ScEvents,     \* events of the server
          ScAttempts,   \* max_reconnect_attempts
          ScConnects,   \* connect() calls
          ScAuto        \* values of auto_reconnect

VARIABLES scl,      \* the client: state_, stream_, parser_, current_retry_ms_
          scall,    \* the connect() or receive() in progress
          sgot,     \* events delivered
          sclose    \* the close() calls

scVars == <<scl, scall, sgot, sclose>>

NoCall == [pc |-> "idle", what |-> "none", cancelled |-> FALSE, attempts |-> 0]

ScInit ==
    /\ scl = [state |-> "disconnected", stream |-> "none", queue |-> 0, last |-> 0, at |-> 0,
              partial |-> FALSE, dirty |-> FALSE, mixed |-> FALSE, failed |-> FALSE, cancelled |-> FALSE, connects |-> 0]
    /\ scall = NoCall
    /\ sgot = [n |-> 0, whole |-> TRUE]
    /\ sclose = [pc |-> "idle", called |-> FALSE, during |-> FALSE]

cancelled == scall.cancelled \/ scl.cancelled
Return == scall' = NoCall
State(s) == scl' = [scl EXCEPT !.state = s]
\* What carries on when do_connect ends without a connection: the call, or the loop of
\* try_reconnect.
ConnectEnds(c) ==
    IF scall.what = "connect"
    THEN Return /\ scl' = [c EXCEPT !.state = "disconnected"]
    ELSE scall' = [scall EXCEPT !.pc = "again"] /\ scl' = [c EXCEPT !.state = "reconnecting"]

-----------------------------------------------------------------------------
(* connect() and do_connect().                                              *)

connect ==
    /\ scall.pc = "idle" /\ scl.connects < ScConnects
    /\ scall' = [NoCall EXCEPT !.pc = "dial", !.what = "connect"]
    /\ scl' = [scl EXCEPT !.state = "connecting", !.cancelled = FALSE, !.connects = @ + 1]
    /\ sclose' = [sclose EXCEPT !.called = FALSE, !.during = FALSE]
    /\ UNCHANGED sgot

\* do_connect obeys the token of connect() and that of the call that reconnects.
connect_token == scl.cancelled \/ scall.cancelled
\* Invalid header values, a failed or cancelled client_connect; else a new stream.
dial ==
    /\ scall.pc = "dial"
    /\ \/ ConnectEnds(scl)
       \/ /\ ~connect_token
          /\ scall' = [scall EXCEPT !.pc = "send"]
          /\ scl' = [scl EXCEPT !.stream = "open"]
    /\ UNCHANGED <<sgot, sclose>>
fail_connect == ConnectEnds([scl EXCEPT !.stream = "none"])
send_request ==
    /\ scall.pc = "send"
    /\ \/ fail_connect
       \/ /\ scl.stream = "open" /\ ~connect_token
          /\ scall' = [scall EXCEPT !.pc = "headers"] /\ UNCHANGED scl
    /\ UNCHANGED <<sgot, sclose>>
\* The head of the final response: refused, late, cut or cancelled, or an event stream.
read_headers ==
    /\ scall.pc = "headers"
    /\ \/ fail_connect
       \/ /\ scl.stream = "open" /\ ~connect_token
          /\ scl' = [scl EXCEPT !.state = "connected", !.at = scl.last,
                                !.dirty = scl.partial]
          /\ IF scall.what = "connect" THEN Return
             ELSE scall' = [scall EXCEPT !.pc = "loop"]
    /\ UNCHANGED <<sgot, sclose>>

-----------------------------------------------------------------------------
(* receive().                                                               *)

receive ==
    /\ scall.pc = "idle" /\ scl.connects > 0
    /\ scall' = [NoCall EXCEPT !.pc = "loop", !.what = "receive"]
    /\ UNCHANGED <<scl, sgot, sclose>>
\* Events that were parsed are delivered before anything is read.
receive_loop ==
    /\ scall.pc = "loop"
    /\ IF scl.state # "connected" \/ cancelled THEN Return /\ UNCHANGED <<scl, sgot>>
       ELSE IF scl.queue > 0
       THEN /\ sgot' = [n |-> scl.last - scl.queue + 1, whole |-> sgot.whole /\ ~scl.mixed]
            /\ scl' = [scl EXCEPT !.queue = @ - 1, !.mixed = FALSE]
            /\ Return
       ELSE scall' = [scall EXCEPT !.pc = "read"] /\ UNCHANGED <<scl, sgot>>
    /\ UNCHANGED sclose

\* A slice of the body is parsed; the id of an event counts when the event is complete.
read_body ==
    /\ scall.pc = "read" /\ scl.stream = "open"
    /\ \/ \E n \in 0..2, part \in BOOLEAN :
            /\ scl.at + n <= ScEvents /\ (part => scl.at + n < ScEvents) /\ ~scl.failed
            /\ scl' = [scl EXCEPT !.queue = n, !.last = scl.at + n, !.at = @ + n,
                                  !.partial = part \/ (n = 0 /\ @),
                                  !.dirty = n = 0 /\ @, !.mixed = n > 0 /\ scl.dirty]
            /\ scall' = [scall EXCEPT !.pc = "loop"]
       \/ /\ scl' = [scl EXCEPT !.failed = TRUE, !.queue = 0, !.partial = FALSE, !.dirty = FALSE,
                                !.state = "disconnected"]
          /\ Return
    /\ UNCHANGED <<sgot, sclose>>
\* parser_.reset() keeps the last id and the interval the server asked for.
reset(c) == [c EXCEPT !.queue = 0, !.partial = FALSE, !.dirty = FALSE, !.failed = FALSE]
\* The body ended or the read failed.
read_ends ==
    /\ scall.pc = "read"
    /\ \/ cancelled /\ Return /\ UNCHANGED scl
       \/ cancelled /\ Return /\ State("disconnected")
       \/ /\ ~cancelled
          /\ \E auto \in ScAuto :
               IF auto /\ scl.state # "closed"
               THEN /\ scl' = reset([scl EXCEPT !.state = "reconnecting"])
                    /\ scall' = [scall EXCEPT !.pc = "drop", !.attempts = 0]
               ELSE Return /\ State("disconnected")
    /\ UNCHANGED <<sgot, sclose>>

\* try_reconnect: the old stream is closed before the first interval.
drop_stream ==
    /\ scall.pc = "drop"
    /\ scl' = [scl EXCEPT !.stream = "none"]
    /\ scall' = [scall EXCEPT !.pc = "again"]
    /\ UNCHANGED <<sgot, sclose>>
GiveUp == Return /\ State("disconnected")
try_reconnect ==
    /\ scall.pc = "again"
    /\ IF scl.state # "reconnecting" \/ cancelled \/ scall.attempts + 1 > ScAttempts
       THEN GiveUp
       ELSE scall' = [scall EXCEPT !.pc = "sleep", !.attempts = @ + 1] /\ UNCHANGED scl
    /\ UNCHANGED <<sgot, sclose>>
wake_up ==
    /\ scall.pc = "sleep"
    /\ IF cancelled \/ scl.state # "reconnecting" THEN GiveUp
       ELSE State("connecting") /\ scall' = [scall EXCEPT !.pc = "dial"]
    /\ UNCHANGED <<sgot, sclose>>

-----------------------------------------------------------------------------
(* close(), cancellation.                                                   *)

close ==
    /\ sclose.pc = "idle" /\ scl.connects > 0
    /\ State("closed")
    /\ sclose' = [pc |-> "stream", called |-> TRUE,
                   during |-> scall.pc \in {"dial", "send", "headers"}]
    /\ UNCHANGED <<scall, sgot>>
close_stream ==
    /\ sclose.pc = "stream"
    /\ scl' = [scl EXCEPT !.stream = IF @ = "open" THEN "shut" ELSE @]
    /\ sclose' = [sclose EXCEPT !.pc = "done"]
    /\ UNCHANGED <<scall, sgot>>
cancel ==
    /\ scall.pc # "idle"
    /\ \/ ~scall.cancelled /\ scall' = [scall EXCEPT !.cancelled = TRUE] /\ UNCHANGED scl
       \/ ~scl.cancelled /\ scl' = [scl EXCEPT !.cancelled = TRUE] /\ UNCHANGED scall
    /\ UNCHANGED <<sgot, sclose>>

ScStep == dial \/ send_request \/ read_headers \/ receive_loop \/ read_ends
          \/ drop_stream \/ try_reconnect \/ wake_up \/ close_stream
ScNext == connect \/ receive \/ read_body \/ ScStep \/ close \/ cancel
\* Resumed coroutines run on and intervals end.  A network operation may last for ever
\* (its timeouts are optional) until a token it was given is cancelled.
GoesOn == receive_loop \/ drop_stream \/ try_reconnect \/ wake_up \/ close_stream
ConnectGivesUp == connect_token /\ (dial \/ send_request \/ read_headers)
ReadGivesUp == cancelled /\ read_ends
ScFairness ==
    WF_scVars(GoesOn) /\ WF_scVars(ConnectGivesUp) /\ WF_scVars(ReadGivesUp)
ScSpec == ScInit /\ [][ScNext]_scVars /\ ScFairness

-----------------------------------------------------------------------------
\* Events are delivered in the order of the server, none left out and none twice,
\* across every reconnection; and an event is what the server sent, unless the client
\* was connected again after a connection that ended inside an event (receive_impl,
\* sync_last_event_id_from_parser, try_reconnect).
SseEventsInOrder ==
    /\ sgot.n = scl.last - scl.queue
    /\ ~sgot.whole => scl.connects > 1

\* close() ends the client, also out of a pending read or a reconnection that waits:
\* only a connection attempt that was under way overtakes it (close, try_reconnect).
SseCloseHolds == sclose.called /\ ~sclose.during => scl.state # "connected"

\* A cancelled call has returned, also out of a reconnection (receive_impl,
\* do_connect).
SseServed == scall.cancelled => scall.pc = "idle"

=============================================================================
