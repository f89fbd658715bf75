-------------------------------- MODULE Tls --------------------------------
(***************************************************************************)
(* A TLS stream: one reader and one writer call it at the same time, an    *)
(* output pump of its own sends the ciphertext, a timer bounds the closing *)
(* of a whole session, and one abort may come from elsewhere.  The         *)
(* generation number of the code is only compared for equality, so a       *)
(* caller keeps whether it is still the one it looked at (`fresh`).  A     *)
(* record of ciphertext is a unit of output.  OpenSSL is what it answers;  *)
(* the output BIO never asks for a retry, so WANT_WRITE does not occur.    *)
(***************************************************************************)
EXTENDS Integers, Sequences

CONSTANTS TlsTcp,       \* the protocol versions that run over a TCP stream
          TlsBudget,    \* records the output may retain
          TlsInput      \* records the input BIO may hold

VARIABLES session,      \* protocol version, kind of the lower stream
          out,          \* the output BIO and what decides over it
          close,        \* close_state, handshake_complete_ and write_pending_
          input,        \* what wait_read put into the input BIO
          wire,         \* the peer's side of the lower stream
          caller,       \* reader, writer and abort
          pump,         \* where the output pump is
          poll,         \* read_mutex_ and read_poll_
          timer,        \* the watchdog of a whole-session close
          owes          \* what an actor does after it left the lock

tlsVars == <<session, out, close, input, wire, caller, pump, poll, timer, owes>>

Callers == {"reader", "writer"}

Actors == Callers \cup {"pump"}

Idle == [pc |-> "idle", op |-> "none", fin |-> FALSE, drv |-> FALSE,
         whole |-> FALSE, then |-> "return", fresh |-> FALSE, wm |-> 0,
         token |-> FALSE, res |-> "none"]

TlsInit ==
    /\ session \in {[version |-> v, tcp |-> v \in TlsTcp] : v \in {"1.2", "1.3"}}
    /\ out = [err |-> "none", retired |-> FALSE, pending |-> 0,
              active |-> FALSE, shut |-> FALSE, slots |-> 0]
    /\ close = [shook |-> FALSE, pending |-> FALSE, write |-> FALSE,
                peer |-> FALSE, whole |-> FALSE, driving |-> FALSE,
                done |-> FALSE, flushed |-> FALSE, err |-> "none",
                released |-> FALSE]
    /\ input = <<>>
    /\ wire = "open"
    /\ caller = [a \in Callers \cup {"abort"} |-> Idle]
    /\ pump = "off"
    /\ poll = [lock |-> "none", by |-> "none", cancelled |-> FALSE]
    /\ timer = [at |-> "off", cancelled |-> FALSE, passed |-> FALSE]
    /\ owes = [a \in Actors |-> {}]

operation_error ==
    IF out.err # "none" THEN out.err
    ELSE IF out.retired THEN "ESHUTDOWN" ELSE "none"

Owe(a, what) == owes' = [owes EXCEPT ![a] = @ \cup what]

At(a, pc) == caller[a].pc = pc /\ (a \in Actors => owes[a] = {})

Go(a, pc) == caller' = [caller EXCEPT ![a].pc = pc, ![a].fresh = FALSE, ![a].wm = 0]

Cancelled(a) == IF caller[a].drv THEN timer.cancelled ELSE caller[a].token

(* output_bio_state::fail: the error stays; which one it is is left out.   *)
Broken(o) == [o EXCEPT !.err = "error"]

(* What fail does before it notifies: the reader's poll, the lower stream  *)
(* and the pump are told.                                                  *)
Failed(o) == [Broken(o) EXCEPT !.shut = TRUE]

fail(a) ==
    /\ out' = Failed(out)
    /\ poll' = [poll EXCEPT !.cancelled = @ \/ poll.by # "none"]
    /\ Owe(a, {"notify"})

(* The output BIO takes a record: a TCP stream with nothing queued may     *)
(* send it at once; otherwise it is retained within the budget.            *)
accept(o) ==
    (IF o.pending = 0 /\ session.tcp THEN {o, Broken(o)} ELSE {})
    \cup {IF o.pending < TlsBudget THEN [o EXCEPT !.pending = @ + 1] ELSE Broken(o)}

-----------------------------------------------------------------------------
(* start_output() launches the pump unless it runs, nothing is queued or   *)
(* the output has ended; a launch that is refused fails the transport.     *)
start_output(o) ==
    IF o.active \/ operation_error # "none" \/ o.pending = 0 THEN {<<o, pump>>}
    ELSE {<<[o EXCEPT !.active = TRUE], "lock">>,
          <<[Failed(o) EXCEPT !.active = TRUE], "ending">>}

(* notify_progress(): a new generation, every waiter for a change is       *)
(* woken, a TCP read is interrupted, and who settles is woken once the     *)
(* pump has stopped.                                                       *)
MutNotify_progress(callers) ==
    [c \in DOMAIN callers |-> [callers[c] EXCEPT !.fresh = FALSE]]

notify_progress(callers) ==
    [c \in DOMAIN callers |->
        [callers[c] EXCEPT !.fresh = FALSE,
                           !.pc = IF @ = "settlewait" /\ ~out.active THEN "settled" ELSE @]]

InterruptRead == [poll EXCEPT !.cancelled = @ \/ (session.tcp /\ poll.by # "none")]

(* fail() of the timer, of a token's callback and of abort(). *)
FailAndNotify(callers) ==
    /\ out' = Failed(out)
    /\ poll' = [poll EXCEPT !.cancelled = @ \/ poll.by # "none"]
    /\ caller' = notify_progress(callers)

(* What follows the section under the lock: first the start, then the news. *)
(* A launch that is refused also interrupts the reader, whatever it reads.  *)
AfterLock(a) ==
    /\ owes[a] # {}
    /\ owes' = [owes EXCEPT ![a] = {}]
    /\ \E p \in IF "start" \in owes[a] THEN start_output(out) ELSE {<<out, pump>>} :
        /\ out' = p[1] /\ pump' = p[2]
        /\ IF p[1].shut # out.shut
           THEN /\ caller' = notify_progress(caller)
                /\ poll' = [poll EXCEPT !.cancelled = @ \/ poll.by # "none"]
           ELSE IF "notify" \in owes[a]
           THEN caller' = notify_progress(caller) /\ poll' = InterruptRead
           ELSE UNCHANGED <<caller, poll>>
    /\ UNCHANGED <<session, close, input, wire, timer>>

(* One round of the pump under its lock: cancelled, finished, or sending.  *)
pump_round ==
    /\ pump = "lock" /\ owes["pump"] = {}
    /\ \/ /\ out.shut
          /\ fail("pump")
          /\ pump' = "ending"
       \/ /\ out.pending = 0 \/ out.err # "none"
          /\ out' = [out EXCEPT !.active = FALSE]
          /\ Owe("pump", {"notify"})
          /\ pump' = "off"
          /\ UNCHANGED poll
       \/ /\ out.pending > 0 /\ out.err = "none"
          /\ pump' = "sending"
          /\ UNCHANGED <<out, poll, owes>>
    /\ UNCHANGED <<session, close, input, wire, caller, timer>>

(* The lower write took the head block, was interrupted, or failed.  What  *)
(* it took is consumed even when the transport has failed meanwhile.       *)
pump_sent ==
    /\ pump = "sending"
    /\ \/ /\ out' = [out EXCEPT !.pending = @ - 1]
          /\ caller' = [a \in DOMAIN caller |->
                           [caller[a] EXCEPT !.wm = IF @ > 0 THEN @ - 1 ELSE 0]]
          /\ Owe("pump", {"notify"})
          /\ UNCHANGED poll
       \/ fail("pump") /\ UNCHANGED caller
    /\ pump' = "lock"
    /\ UNCHANGED <<session, close, input, wire, timer>>

(* The end of the pump after a failure, or of a launch that failed. *)
pump_end ==
    /\ pump = "ending" /\ owes["pump"] = {}
    /\ out' = [out EXCEPT !.active = FALSE]
    /\ pump' = "off"
    /\ Owe("pump", {"notify"})
    /\ UNCHANGED <<session, close, input, wire, caller, poll, timer>>

-----------------------------------------------------------------------------
(* The result a caller reports: a sticky error, or what its call means.    *)
(* Of the calls that returned only the good results are remembered.        *)
Outcome(a, o) ==
    IF o.err # "none" THEN o.err
    ELSE CASE caller[a].op = "read" -> "eof"
           [] caller[a].op = "write" -> "ESHUTDOWN"
           [] OTHER -> "ok"

Return(a, r) ==
    caller' = [caller EXCEPT ![a] =
                  IF a # "abort" /\ (r \notin {"ok", "eof"} \/ caller[a].op = "handshake")
                  THEN Idle
                  ELSE [Idle EXCEPT !.pc = "returned", !.op = caller[a].op, !.res = r,
                                    !.wm = caller[a].wm]]

(* The awaiting coroutine takes the result. *)
collect(a) ==
    /\ At(a, "returned")
    /\ caller' = [caller EXCEPT ![a] = IF a = "abort" THEN [Idle EXCEPT !.op = "abort"] ELSE Idle]
    /\ UNCHANGED <<session, out, close, input, wire, pump, poll, timer, owes>>

(* An operation failed with e: the transport fails and the pump is         *)
(* settled; a close that was under way goes on to its end (`publish`).     *)
Settle(a) ==
    caller' = [caller EXCEPT ![a].pc = IF caller[a].drv THEN "end" ELSE "settle",
                             ![a].fresh = FALSE, ![a].wm = 0,
                             ![a].then = IF caller[a].fin THEN "publish" ELSE "return"]

fail_io(a, e) ==
    IF e = "ESHUTDOWN" /\ ~caller[a].fin
    THEN Return(a, "ESHUTDOWN") /\ UNCHANGED <<out, poll, owes>>
    ELSE fail(a) /\ Settle(a)

(* settle_output(): waits in one of three slots, which are used once each, *)
(* for the pump to stop.                                                   *)
settle_output(a) ==
    /\ At(a, "settle")
    /\ IF out.active
       THEN /\ out' = [out EXCEPT !.slots = @ + 1]
            /\ Go(a, "settlewait")
       ELSE Go(a, "settled") /\ UNCHANGED out
    /\ UNCHANGED <<session, close, input, wire, pump, poll, timer, owes>>

settled(a) ==
    /\ At(a, "settled")
    /\ IF caller[a].then = "publish" THEN Go(a, "publish")
                                     ELSE Return(a, Outcome(a, out))
    /\ UNCHANGED <<session, out, close, input, wire, pump, poll, timer, owes>>

-----------------------------------------------------------------------------
(* wait_read(): the lock of the readers, unless the token is cancelled. *)
read_lock(a) ==
    /\ At(a, "rlock")
    /\ \/ /\ poll.lock = "none"
          /\ poll' = [poll EXCEPT !.lock = a]
          /\ caller' = [caller EXCEPT ![a].pc = "rpub"]
          /\ UNCHANGED <<out, owes>>
       \/ Cancelled(a) /\ fail_io(a, "error")
    /\ UNCHANGED <<session, close, input, wire, pump, timer>>

Unlocked(p) == [p EXCEPT !.lock = "none", !.by = "none", !.cancelled = FALSE]

ReadFailed(a) ==
    /\ out' = Failed(out)
    /\ poll' = Unlocked(poll)
    /\ Owe(a, {"notify"})
    /\ Settle(a)

(* The poll is published only if no progress was made since the SSL call. *)
read_publish(a) ==
    /\ At(a, "rpub")
    /\ \/ /\ out.err # "none"
          /\ ReadFailed(a)
       \/ /\ out.err = "none" /\ ~caller[a].fresh
          /\ poll' = Unlocked(poll)
          /\ Go(a, "top")
          /\ UNCHANGED <<out, owes>>
       \/ /\ out.err = "none" /\ caller[a].fresh
          /\ poll' = [poll EXCEPT !.by = a, !.cancelled = Cancelled(a)]
          /\ caller' = [caller EXCEPT ![a].pc = "rio", ![a].fresh = FALSE]
          /\ UNCHANGED <<out, owes>>
    /\ UNCHANGED <<session, close, input, wire, pump, timer>>

(* The lower read delivered something. *)
read_delivered(a) ==
    /\ At(a, "rio")
    /\ wire = "open" /\ ~out.shut /\ Len(input) < TlsInput
    /\ \E unit \in {"data", "alert"} :
          /\ wire' = IF unit = "data" THEN wire ELSE "alert"
          /\ IF out.err # "none"
             THEN ReadFailed(a) /\ UNCHANGED input
             ELSE /\ input' = Append(input, unit)
                  /\ poll' = Unlocked(poll)
                  /\ Owe(a, {"notify"})
                  /\ Go(a, "top")
                  /\ UNCHANGED out
    /\ UNCHANGED <<session, close, pump, timer>>

(* The lower read found the end of the stream, which is never an alert. *)
MutRead_ended(a) ==
    /\ At(a, "rio")
    /\ wire' = IF wire = "open" THEN "eof" ELSE wire
    /\ poll' = Unlocked(poll)
    /\ input' = Append(input, "alert")
    /\ Owe(a, {"notify"})
    /\ Go(a, "top")
    /\ UNCHANGED <<session, out, close, pump, timer>>

read_ended(a) ==
    /\ At(a, "rio")
    /\ wire' = IF wire = "open" THEN "eof" ELSE wire
    /\ ReadFailed(a)
    /\ UNCHANGED <<session, close, input, pump, timer>>

(* The lower read was cancelled: by the caller's token, which fails the    *)
(* transport, or by progress elsewhere, which is a reason to look again.   *)
read_interrupted(a) ==
    /\ At(a, "rio")
    /\ poll.cancelled
    /\ IF out.err # "none" \/ Cancelled(a) THEN ReadFailed(a)
       ELSE /\ poll' = Unlocked(poll)
            /\ Owe(a, {"notify"})
            /\ Go(a, "top")
            /\ UNCHANGED out
    /\ UNCHANGED <<session, close, input, wire, pump, timer>>

wait_read(a) ==
    read_lock(a) \/ read_publish(a) \/ read_delivered(a) \/ read_ended(a) \/ read_interrupted(a)

(* WANT_READ: what was seen at the call decides whether to sleep. *)
Retry(a) == caller' = [caller EXCEPT ![a].pc = "rlock", ![a].fresh = TRUE]

-----------------------------------------------------------------------------
(* flush_to(): until what the call accepted has been sent. *)
Flushed(a) ==
    IF caller[a].drv
    THEN close' = [close EXCEPT !.flushed = TRUE] /\ Go(a, "drain")
    ELSE Return(a, "ok") /\ UNCHANGED close

flush_to(a) ==
    /\ \/ At(a, "flush")
       \/ At(a, "flushwait") /\ (~caller[a].fresh \/ Cancelled(a))
    /\ IF caller[a].wm = 0
       THEN Flushed(a) /\ UNCHANGED <<out, poll, owes>>
       ELSE IF out.err # "none"
       THEN fail_io(a, "error") /\ UNCHANGED close
       ELSE IF caller[a].pc = "flushwait" /\ caller[a].fresh
       THEN fail_io(a, "error") /\ UNCHANGED close
       ELSE /\ caller' = [caller EXCEPT ![a].pc = "flushwait", ![a].fresh = TRUE]
            /\ UNCHANGED <<out, poll, owes, close>>
    /\ UNCHANGED <<session, input, wire, pump, timer>>

-----------------------------------------------------------------------------
(* An operation begins.  Reads and writes need the handshake, shutdown()   *)
(* is serialised against everything.  A token that is cancelled already    *)
(* ends a call before it touches the session, except for a finish and for  *)
(* a read while the whole session is being closed, which joins the close.  *)
(* The bound: a call that begins after a failure runs alone.               *)
Begin(a, op, cancelled) ==
    /\ At(a, "idle") /\ ~close.released
    /\ op \in (IF a = "reader" THEN {"handshake", "read"} ELSE {"write", "finish", "shutdown"})
    /\ (op = "handshake") # close.shook
    /\ \A b \in Callers \ {a} :
          caller[b].pc # "idle" => "shutdown" \notin {op, caller[b].op}
    /\ out.err # "none" => \A b \in Callers : At(b, "idle")
    /\ cancelled => op = "finish" \/ (op = "read" /\ close.whole)
    /\ caller' = [caller EXCEPT ![a] = [Idle EXCEPT !.op = op, !.pc = "top",
                                                   !.token = cancelled]]
    /\ UNCHANGED <<session, out, close, input, wire, pump, poll, timer, owes>>

(* A whole-session close, once selected, is joined by the caller. *)
JoinClose(a) ==
    caller' = [caller EXCEPT ![a].pc = "fin0", ![a].fin = TRUE]

(* handshake(): callers serialise it, here the reader makes it. *)
handshake(a) ==
    /\ At(a, "top") /\ caller[a].op = "handshake"
    /\ \/ /\ caller[a].token
          /\ fail_io(a, "error")
          /\ UNCHANGED close
       \/ /\ operation_error # "none"
          /\ fail_io(a, operation_error)
          /\ UNCHANGED close
       \/ /\ ~caller[a].token /\ operation_error = "none"
          /\ \E o \in {out} \cup accept(out) :
                /\ \/ /\ o.err = "none"
                      /\ close' = [close EXCEPT !.shook = TRUE]
                      /\ Return(a, "ok")
                      /\ out' = o /\ UNCHANGED poll
                      /\ Owe(a, {"start", "notify"})
                   \/ /\ o.err = "none"
                      /\ Retry(a)
                      /\ out' = o /\ UNCHANGED <<poll, close>>
                      /\ Owe(a, {"start"})
                   \/ /\ out' = Failed(o)
                      /\ Settle(a)
                      /\ UNCHANGED <<poll, close>>
                      /\ Owe(a, {"notify"})
    /\ UNCHANGED <<session, input, wire, pump, timer>>

(* select_close_locked(): writing ends, and TLS 1.2 closes the session. *)
select_close(c, force) ==
    LET whole == force \/ session.version = "1.2"
    IN  [c EXCEPT !.write = TRUE, !.whole = @ \/ whole,
                  !.done = @ /\ ~(whole /\ ~c.whole)]

(* The answers of SSL_read: plaintext, the peer's alert, or WANT_READ. *)
Sought(a) ==
    \/ /\ ~close.peer /\ input # <<>> /\ Head(input) = "data"
       /\ input' = Tail(input)
       /\ Owe(a, {"start", "notify"})
       /\ Return(a, "ok")
       /\ UNCHANGED close
    \/ /\ close.peer \/ (input # <<>> /\ Head(input) = "alert")
       /\ Owe(a, IF close.peer THEN {} ELSE {"start", "notify"})
       /\ IF session.version = "1.2"
          THEN /\ close' = select_close([close EXCEPT !.peer = TRUE], TRUE)
               /\ JoinClose(a)
          ELSE /\ close' = [close EXCEPT !.peer = TRUE]
               /\ Return(a, "eof")
       /\ UNCHANGED input
    \/ /\ ~close.peer /\ input = <<>>
       /\ Retry(a)
       /\ Owe(a, {"start"})
       /\ UNCHANGED <<input, close>>

(* read() and call_read(): the checks and the SSL call, which may also find *)
(* a record that is not valid.                                              *)
read(a) ==
    /\ At(a, "top") /\ caller[a].op = "read" /\ ~caller[a].fin
    /\ IF close.whole
       THEN JoinClose(a) /\ UNCHANGED <<out, poll, owes, input, close>>
       ELSE IF operation_error # "none"
       THEN fail_io(a, operation_error) /\ UNCHANGED <<input, close>>
       ELSE IF caller[a].token
       THEN fail_io(a, "error") /\ UNCHANGED <<input, close>>
       ELSE \/ ~close.peer /\ input # <<>> /\ fail_io(a, "error") /\ UNCHANGED <<input, close>>
            \/ /\ UNCHANGED <<out, poll>>
               /\ Sought(a)
    /\ UNCHANGED <<session, wire, pump, timer>>

(* write(): the checks at the head of its loop. *)
write(a) ==
    /\ At(a, "top") /\ caller[a].op = "write" /\ ~caller[a].fin
    /\ IF operation_error # "none" THEN fail_io(a, operation_error)
       ELSE IF caller[a].token THEN fail_io(a, "error")
       ELSE Go(a, "call") /\ UNCHANGED <<out, poll, owes>>
    /\ UNCHANGED <<session, close, input, wire, pump, timer>>

(* call_write() and what write() does with its answer.  A session that was *)
(* retired in between is reported as a failed SSL call.  SSL_write may ask *)
(* for input, and in TLS 1.2 come across the peer's alert there: that      *)
(* selects the close of the session, which the writer joins unless its     *)
(* record was taken.                                                       *)
AlertSeen(c) == {c} \cup
    (IF session.version = "1.2" /\ input # <<>> /\ Head(input) = "alert"
     THEN {select_close([c EXCEPT !.peer = TRUE], TRUE)} ELSE {})

call_write(a) ==
    /\ At(a, "call")
    /\ IF operation_error # "none"
       THEN fail_io(a, "error") /\ UNCHANGED close
       ELSE IF close.write
       THEN Return(a, "ESHUTDOWN") /\ UNCHANGED <<out, poll, owes, close>>
       ELSE \/ \E o \in accept(out) :
                 /\ UNCHANGED poll
                 /\ close' \in AlertSeen([close EXCEPT !.pending = FALSE])
                 /\ IF o.err = "none"
                    THEN /\ out' = o
                         /\ Owe(a, {"start", "notify"})
                         /\ caller' = [caller EXCEPT ![a].pc = "flush",
                                                     ![a].wm = o.pending]
                    ELSE /\ out' = Failed(o)
                         /\ Owe(a, {"notify"})
                         /\ Settle(a)
            \/ /\ close' \in AlertSeen([close EXCEPT !.pending = TRUE])
               /\ IF close'.whole
                  THEN JoinClose(a) /\ Owe(a, {"start", "notify"})
                  ELSE Retry(a) /\ Owe(a, {"start"})
               /\ UNCHANGED <<out, poll>>
    /\ UNCHANGED <<session, input, wire, pump, timer>>

-----------------------------------------------------------------------------
(* finish_write_impl(), first section: a failed transport is reported, a   *)
(* token cancelled before any closing is local, a close that was completed *)
(* is reported again; otherwise this call drives the close or joins it.    *)
FinishBegin(a) ==
    /\ At(a, "top") /\ caller[a].op \in {"finish", "shutdown"} /\ ~caller[a].fin
    /\ IF close.shook
       THEN JoinClose(a)
       ELSE Return(a, "ENOTCONN")
    /\ UNCHANGED <<session, out, close, input, wire, pump, poll, timer, owes>>

finish_enter(a) ==
    /\ At(a, "fin0")
    /\ LET c == select_close(close, caller[a].op = "shutdown")
       IN  IF out.err # "none"
           THEN /\ fail(a)
                /\ caller' = [caller EXCEPT ![a].pc = "settle", ![a].then = "return"]
                /\ UNCHANGED <<close, timer>>
           ELSE IF caller[a].token /\ ~close.write
           THEN Return(a, "error") /\ UNCHANGED <<out, close, poll, timer, owes>>
           ELSE IF c.done
           THEN /\ close' = c
                /\ Return(a, Outcome(a, out))
                /\ UNCHANGED <<out, poll, timer, owes>>
           ELSE IF c.driving
           THEN /\ close' = c
                /\ Go(a, "join")
                /\ Owe(a, {"notify"})
                /\ UNCHANGED <<out, poll, timer>>
           ELSE /\ close' = [c EXCEPT !.driving = TRUE]
                /\ out' = IF close.pending THEN Broken(out) ELSE out
                /\ Owe(a, {"notify"})
                /\ caller' = [caller EXCEPT ![a].pc = "arm", ![a].drv = TRUE,
                                            ![a].whole = c.whole]
                /\ UNCHANGED <<poll, timer>>
    /\ UNCHANGED <<session, input, wire, pump>>

(* The driver hooks its token and, for a whole session, starts the timer.  *)
finish_arm(a) ==
    /\ At(a, "arm")
    /\ timer' = [timer EXCEPT !.at = IF caller[a].whole THEN "sleep" ELSE @,
                              !.cancelled = caller[a].token]
    /\ Go(a, "drive")
    /\ IF caller[a].token THEN fail(a) ELSE UNCHANGED <<out, poll, owes>>
    /\ UNCHANGED <<session, close, input, wire, pump>>

(* A caller that joins the close of another looks for its end. *)
finish_join(a) ==
    /\ \/ At(a, "join")
       \/ At(a, "joinwait") /\ (~caller[a].fresh \/ caller[a].token)
    /\ IF close.done
       THEN /\ IF out.err # "none"
               THEN caller' = [caller EXCEPT ![a].pc = "settle", ![a].then = "return"]
               ELSE Return(a, Outcome(a, out))
            /\ UNCHANGED <<out, poll, owes>>
       ELSE IF caller[a].pc = "joinwait" /\ caller[a].fresh
       THEN fail_io(a, "error")
       ELSE /\ caller' = [caller EXCEPT ![a].pc = "joinwait", ![a].fresh = TRUE]
            /\ UNCHANGED <<out, poll, owes>>
    /\ UNCHANGED <<session, close, input, wire, pump, timer>>

(* The driver's loop: errors, the deadline and cancellation first, then    *)
(* close_notify is made once and flushed.                                  *)
finish_drive(a) ==
    /\ \/ At(a, "drive")
       \/ At(a, "top") /\ caller[a].drv
    /\ IF out.err # "none" \/ timer.cancelled \/ (timer.passed /\ caller[a].whole)
       THEN /\ fail(a)
            /\ Settle(a)
            /\ UNCHANGED close
       ELSE IF close.flushed
       THEN Go(a, "drain") /\ UNCHANGED <<out, poll, owes, close>>
       ELSE \E o \in accept(out) :
               /\ UNCHANGED poll
               /\ IF o.err = "none"
                  THEN /\ out' = o
                       /\ UNCHANGED close
                       /\ Owe(a, {"start"})
                       /\ caller' = [caller EXCEPT ![a].pc = "flush",
                                                   ![a].wm = o.pending]
                  ELSE /\ out' = Failed(o)
                       /\ Owe(a, {"notify"})
                       /\ Settle(a)
                       /\ UNCHANGED close
    /\ UNCHANGED <<session, input, wire, pump, timer>>

(* A whole session is read to the peer's alert, discarding its data. *)
finish_drain(a) ==
    /\ At(a, "drain")
    /\ IF ~caller[a].whole \/ close.peer
       THEN Go(a, "end") /\ UNCHANGED <<close, input, owes>>
       ELSE IF input = <<>>
       THEN Retry(a) /\ Owe(a, {"start"}) /\ UNCHANGED <<close, input>>
       ELSE IF Head(input) = "data"
       THEN /\ input' = Tail(input)
            /\ Owe(a, {"start", "notify"})
            /\ Go(a, "drive")
            /\ UNCHANGED close
       ELSE /\ close' = [close EXCEPT !.peer = TRUE]
            /\ Go(a, "end")
            /\ Owe(a, {"start"})
            /\ UNCHANGED input
    /\ UNCHANGED <<session, out, wire, pump, poll, timer>>

(* The end of the driver: the timer is cancelled and joined, and the       *)
(* output of a whole session is retired.                                   *)
finish_end(a) ==
    /\ At(a, "end")
    /\ timer' = [timer EXCEPT !.cancelled = TRUE]
    /\ Go(a, "reap")
    /\ UNCHANGED <<session, out, close, input, wire, pump, poll, owes>>

finish_reap(a) ==
    /\ At(a, "reap") /\ timer.at = "off"
    /\ out' = [out EXCEPT !.retired = @ \/ caller[a].whole]
    /\ caller' = [caller EXCEPT ![a].pc = IF out.err # "none" \/ caller[a].whole
                                         THEN "settle" ELSE "publish",
                                ![a].then = "publish"]
    /\ UNCHANGED <<session, close, input, wire, pump, poll, timer, owes>>

(* The last section: the driver publishes the result of the close. *)
finish_publish(a) ==
    /\ At(a, "publish")
    /\ close' = IF caller[a].drv
                THEN [close EXCEPT !.driving = FALSE, !.done = TRUE, !.err = out.err,
                                   !.shook = @ /\ caller[a].op # "shutdown"]
                ELSE close
    /\ Owe(a, {"notify"})
    /\ Return(a, Outcome(a, out))
    /\ timer' = IF caller[a].drv THEN [timer EXCEPT !.cancelled = FALSE] ELSE timer
    /\ UNCHANGED <<session, out, input, wire, pump, poll>>

finish_write_impl(a) ==
    \/ FinishBegin(a) \/ finish_enter(a) \/ finish_arm(a) \/ finish_join(a)
    \/ finish_drive(a) \/ finish_drain(a) \/ finish_end(a) \/ finish_reap(a)
    \/ finish_publish(a)

-----------------------------------------------------------------------------
(* close_watchdog(): the deadline passes, the timer notices, or it is      *)
(* cancelled by the driver that has finished.                              *)
deadline ==
    /\ timer.at = "sleep" /\ ~timer.passed
    /\ timer' = [timer EXCEPT !.passed = TRUE]
    /\ UNCHANGED <<session, out, close, input, wire, caller, pump, poll, owes>>

close_watchdog ==
    /\ timer.at = "sleep"
    /\ \/ /\ timer.passed
          /\ FailAndNotify(caller)
          /\ timer' = [timer EXCEPT !.at = "off", !.cancelled = TRUE]
       \/ /\ timer.cancelled
          /\ timer' = [timer EXCEPT !.at = "off"]
          /\ UNCHANGED <<out, poll, caller>>
    /\ UNCHANGED <<session, close, input, wire, pump, owes>>

(* The bound on interruptions: one at a time, tokens before a failure. *)
Quiet == caller["abort"].op = "none" /\ \A a \in Callers : ~caller[a].token

(* A token is cancelled; the callback of a driver fails the transport, the *)
(* one of a poll interrupts the lower read.                                *)
cancel(a) ==
    /\ Quiet /\ out.err = "none" /\ caller[a].pc \notin {"idle", "returned"}
    /\ caller[a].op # "shutdown"
    /\ IF caller[a].drv /\ caller[a].pc \notin {"arm", "reap", "settle", "settlewait",
                                               "settled", "publish"}
       THEN /\ FailAndNotify([caller EXCEPT ![a].token = TRUE])
            /\ timer' = [timer EXCEPT !.cancelled = TRUE]
       ELSE /\ caller' = [caller EXCEPT ![a].token = TRUE]
            /\ poll' = [poll EXCEPT !.cancelled = @ \/ poll.by = a]
            /\ UNCHANGED <<out, timer>>
    /\ UNCHANGED <<session, close, input, wire, pump, owes>>

(* abort_and_settle() of somebody who keeps the transport, while it is     *)
(* read and written.                                                       *)
abort_and_settle ==
    /\ Quiet /\ \A a \in Callers : caller[a].pc \notin {"idle", "returned", "settled"}
    /\ FailAndNotify([caller EXCEPT !["abort"].pc = "settle", !["abort"].op = "abort"])
    /\ UNCHANGED <<session, close, input, wire, pump, timer, owes>>

(* release_ssl(): the stream goes; close_notify is tried once, without     *)
(* waiting, and the transport fails.                                       *)
release_ssl ==
    /\ ~close.released
    /\ \A a \in Callers : At(a, "idle")
    /\ close' = [close EXCEPT !.released = TRUE]
    /\ \E o \in (IF close.shook /\ ~close.flushed /\ ~close.pending /\ out.err = "none"
                 THEN accept(out) ELSE {out}) :
          out' = Failed(o)
    /\ Owe("reader", {"notify"})
    /\ UNCHANGED <<session, input, wire, caller, pump, poll, timer>>

-----------------------------------------------------------------------------
CallerStep(a) ==
    \/ handshake(a) \/ read(a) \/ write(a) \/ call_write(a)
    \/ flush_to(a) \/ finish_write_impl(a)

SettleStep(a) == settle_output(a) \/ settled(a) \/ collect(a)

PumpStep == pump_round \/ pump_sent \/ pump_end

TlsNext ==
    \/ \E a \in Callers : \/ \E op \in {"handshake", "read", "write", "finish", "shutdown"},
                                  cancelled \in BOOLEAN : Begin(a, op, cancelled)
                           \/ CallerStep(a) \/ wait_read(a) \/ cancel(a)
    \/ \E a \in Callers \cup {"abort"} : SettleStep(a)
    \/ \E a \in Actors : AfterLock(a)
    \/ PumpStep \/ deadline \/ close_watchdog \/ abort_and_settle \/ release_ssl

TlsSpec == TlsInit /\ [][TlsNext]_tlsVars

-----------------------------------------------------------------------------
Owed == \E a \in Actors : owes[a] # {}

(* Nobody sleeps in vain: who waits for output to be sent has a running    *)
(* pump or somebody about to start one or to tell of the end, who joins a  *)
(* close has a driver, and who settles has a pump that will stop.  As       *)
(* await_suspend of a settlement asserts, the output has then ended, no     *)
(* pump starts again, and the three slots are enough although none is       *)
(* reused.                                                                  *)
TlsNobodySleepsInVain ==
    \A a \in DOMAIN caller :
        LET c == caller[a]
        IN  /\ (c.pc = "flushwait" /\ c.fresh) => (out.active \/ Owed)
            /\ (c.pc = "flushwait" /\ c.fresh
                  /\ (c.wm = 0 \/ out.err # "none")) => Owed
            /\ (c.pc = "joinwait" /\ c.fresh) =>
                   IF close.done THEN Owed
                   ELSE \E d \in Callers \ {a} : caller[d].drv
            /\ c.pc = "settlewait" =>
                   (out.active \/ Owed) /\ operation_error # "none" /\ out.slots <= 3

(* Results are honest: a write that succeeded has been sent, the end of    *)
(* the stream is only reported for the peer's alert, a finished close has  *)
(* its close_notify sent, and of a whole session it has the peer's alert.  *)
TlsResultsAreHonest ==
    /\ \A a \in Callers : caller[a].pc = "returned" =>
          /\ (caller[a].op = "write" /\ caller[a].res = "ok") => caller[a].wm = 0
          /\ (caller[a].op = "read" /\ caller[a].res = "eof") =>
                close.peer /\ wire = "alert"
          /\ (caller[a].op \in {"finish", "shutdown"} /\ caller[a].res = "ok") =>
                close.flushed
    /\ (close.done /\ close.err = "none" /\ close.whole) => (close.peer /\ out.retired)

=============================================================================
