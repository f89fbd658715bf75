-------------------------------- MODULE Rpc ---------------------------------
(***************************************************************************)
(* This module holds the RPC client, the session of a server and the       *)
(* server.  Its parts have their own variables; modules that use one of    *)
(* them leave the others out.                                              *)
(***************************************************************************)
EXTENDS Naturals, FiniteSets

-----------------------------------------------------------------------------
(***************************************************************************)
(* The RPC client (rpc/rpc_client.hpp): calls, pings and one-way messages  *)
(* share a connection.  A request is in the pending table from its         *)
(* reservation to the end of its coroutine.  A response, the timer, the    *)
(* caller's token and close() compete for its completion.  Frames are      *)
(* written under send_mutex_; one that was cut off ends the stream.  The   *)
(* server is what the protocol allows it: it answers a request at most     *)
(* once, at any later time, and may ping.                                  *)
(***************************************************************************)
CONSTANTS RcCalls,      \* operations, each used once
          RcPlain,      \* those that are pings or one-way messages
          RcIds         \* the ids on the wire are 1..RcIds, one to a shard

VARIABLES calls,        \* what a coroutine knows, its pending_request included
          client,       \* the members of rpc_client
          closer,       \* the one call of close() that gets through
          receiver,     \* the receive loop
          server        \* requests it may still answer

rcVars == <<calls, client, closer, receiver, server>>

Ids == 1..RcIds
Nobody == "nobody"

(* An answer: the request it is for, with its kind and id. *)
Answer(c, kind, id) == [to |-> c, kind |-> kind, id |-> id]
NoAnswer == Answer(Nobody, "none", 0)

Fresh == [pc |-> "idle", kind |-> "call", id |-> 0, error |-> "none",
          given |-> NoAnswer, sent |-> FALSE, token |-> FALSE, tell |-> "no"]

RcInit ==
    /\ calls = [c \in RcCalls |-> Fresh]
    /\ client = [closed |-> FALSE, shut |-> FALSE, table |-> [i \in Ids |-> Nobody],
                 count |-> 0, next |-> 0, sender |-> Nobody, torn |-> FALSE,
                 spoiled |-> FALSE]
    /\ closer = [by |-> Nobody, at |-> 0, taken |-> {}]
    /\ receiver = [pc |-> "read", got |-> Nobody, from |-> NoAnswer]
    /\ server = {}

is_connected == ~client.closed

Set(c, r) == calls' = [calls EXCEPT ![c] = r]

(* try_complete and publish_completion: the first to come decides. *)
is_completed(p) == p.error # "none"

Complete(p, error, given) ==
    IF is_completed(p) THEN p ELSE [p EXCEPT !.error = error, !.given = given]

(* operation_cancel: the timer and the token stop what the call waits for. *)
Stopped(p) == p.error \in {"timeout", "cancelled"}

(* pending_eraser: whatever way a coroutine ends, the entry under its id    *)
(* goes, if close() has not taken it; a one-way message has no eraser.      *)
erase_pending_request(k, p) ==
    IF p.kind # "oneway" /\ p.id \in Ids /\ (p.id \in Ids => k.table[p.id] # Nobody)
    THEN [k EXCEPT !.table[p.id] = Nobody, !.count = @ - 1] ELSE k

(* What is remembered of a coroutine that has ended: whether it was        *)
(* cancelled, and its frame while the server may answer it.                *)
Ended(c, error, tell) ==
    [Fresh EXCEPT !.pc = "done", !.error = IF error = "cancelled" THEN error ELSE "over",
                  !.kind = IF c \in server THEN calls[c].kind ELSE @,
                  !.id = IF c \in server THEN calls[c].id ELSE @,
                  !.tell = tell]

Return(c, error) ==
    /\ Set(c, Ended(c, error, "no"))
    /\ client' = erase_pending_request(client, calls[c])

-----------------------------------------------------------------------------
(* The checks before anything is reserved. *)
Begin(c, kind) ==
    /\ calls[c].pc = "idle" /\ (kind = "call") = (c \notin RcPlain)
    /\ IF is_connected
       THEN Set(c, [calls[c] EXCEPT !.pc = "reserve", !.kind = kind])
       ELSE Set(c, Ended(c, "closed", "no"))
    /\ UNCHANGED <<client, closer, receiver, server>>

(* Ids come in turn and wrap; an id that is pending is skipped, for one    *)
(* attempt more than there are pending requests.                           *)
Candidate(k) == ((client.next + k - 1) % RcIds) + 1

Attempts == client.count + 1

FreeAttempts == {k \in 1..Attempts : client.table[Candidate(k)] = Nobody}

Least(S) == CHOOSE k \in S : \A j \in S : k <= j

(* reserve_pending_request and, for a message without response,            *)
(* next_unoccupied_request_id.                                             *)
reserve_pending_request(c) ==
    /\ calls[c].pc = "reserve"
    /\ IF FreeAttempts = {}
       THEN /\ Set(c, Ended(c, "internal", "no"))
            /\ client' = [client EXCEPT !.next = @ + Attempts]
       ELSE LET k == Least(FreeAttempts)
                id == Candidate(k)
                keep == calls[c].kind # "oneway"
            IN  /\ Set(c, [calls[c] EXCEPT !.id = id,
                              !.pc = IF calls[c].kind = "call" THEN "recheck" ELSE "lock"])
                /\ client' = [client EXCEPT !.next = @ + k,
                                            !.table[id] = IF keep THEN c ELSE @,
                                            !.count = IF keep THEN @ + 1 ELSE @]
    /\ UNCHANGED <<closer, receiver, server>>

(* close() may have drained the table before the reservation.  Then the    *)
(* token is hooked and the timer of the call is started.                   *)
recheck(c) ==
    /\ calls[c].pc = "recheck"
    /\ IF is_connected
       THEN /\ Set(c, [(IF calls[c].token THEN Complete(calls[c], "cancelled", NoAnswer)
                        ELSE calls[c]) EXCEPT !.pc = "lock", !.token = FALSE])
            /\ UNCHANGED client
       ELSE Return(c, "closed")
    /\ UNCHANGED <<closer, receiver, server>>

(* lock_send_mutex_for_call tries until the operation is stopped. *)
lock_send_mutex_for_call(c) ==
    /\ calls[c].pc = "lock" /\ calls[c].kind = "call"
    /\ \/ /\ client.sender = Nobody /\ ~Stopped(calls[c])
          /\ client' = [client EXCEPT !.sender = c]
          /\ Set(c, [calls[c] EXCEPT !.pc = "write"])
       \/ /\ Stopped(calls[c])
          /\ Set(c, [calls[c] EXCEPT !.pc = "wait"])
          /\ UNCHANGED client
    /\ UNCHANGED <<closer, receiver, server>>

-----------------------------------------------------------------------------
(* write_frame: the whole frame, or only a part of it.  `spoiled` says     *)
(* that a frame followed one that had been cut off.                        *)
WriteWhole(k) == [k EXCEPT !.sender = Nobody, !.spoiled = @ \/ k.torn]

WriteCut(k) == [k EXCEPT !.torn = TRUE]

write_call_frame(c) ==
    /\ calls[c].pc = "write" /\ calls[c].kind = "call"
    /\ \/ /\ is_completed(calls[c])
          /\ client' = [client EXCEPT !.sender = Nobody]
          /\ Set(c, [calls[c] EXCEPT !.pc = "wait"])
          /\ UNCHANGED <<closer, server>>
       \/ /\ ~is_completed(calls[c]) /\ ~client.shut
          /\ client' = WriteWhole(client)
          /\ Set(c, [calls[c] EXCEPT !.pc = "wait", !.sent = TRUE])
          /\ server' = server \cup {c}
          /\ UNCHANGED closer
       \/ /\ ~is_completed(calls[c]) /\ client.shut
          /\ Set(c, [calls[c] EXCEPT !.pc = "broken"])
          /\ UNCHANGED <<client, closer, server>>
    /\ UNCHANGED receiver

(* A token that is cancelled while the frame is being written cuts it off. *)
cut_call_frame(c) ==
    /\ calls[c].pc = "write" /\ calls[c].kind = "call"
    /\ ~is_completed(calls[c]) /\ ~client.shut
    /\ \E why \in {"timeout", "cancelled"} :
          Set(c, [Complete(calls[c], why, NoAnswer) EXCEPT !.pc = "broken"])
    /\ client' = WriteCut(client)
    /\ UNCHANGED <<closer, receiver, server>>

(* close(): the first caller takes the entries of one shard after the      *)
(* other and completes them afterwards.                                    *)
Close(by, k) ==
    IF k.closed THEN /\ client' = k /\ UNCHANGED closer
    ELSE /\ client' = [k EXCEPT !.closed = TRUE, !.shut = TRUE]
         /\ closer' = [by |-> by, at |-> 1, taken |-> {}]

(* A frame that was not written closes the connection, under the lock.     *)
MutWrite_failed(c) ==
    /\ calls[c].pc = "broken"
    /\ Set(c, [Complete(calls[c], "closed", NoAnswer) EXCEPT !.pc = "wait"])
    /\ client' = [client EXCEPT !.sender = Nobody]
    /\ UNCHANGED <<closer, receiver, server>>

write_failed(c) ==
    /\ calls[c].pc = "broken"
    /\ Close(c, client)
    /\ Set(c, [calls[c] EXCEPT !.pc = "closing"])
    /\ UNCHANGED <<receiver, server>>

close_returned(c) ==
    /\ calls[c].pc = "closing" /\ closer.by # c
    /\ Set(c, [Complete(calls[c], "closed", NoAnswer) EXCEPT !.pc = "wait"])
    /\ client' = [client EXCEPT !.sender = Nobody]
    /\ UNCHANGED <<closer, receiver, server>>

close ==
    /\ Close("other", client) /\ ~client.closed
    /\ UNCHANGED <<calls, receiver, server>>

close_shard ==
    /\ closer.by # Nobody /\ closer.at \in Ids
    /\ closer' = [closer EXCEPT !.at = @ + 1,
                                !.taken = @ \cup ({client.table[closer.at]} \ {Nobody})]
    /\ client' = [client EXCEPT !.table[closer.at] = Nobody]
    /\ UNCHANGED <<calls, receiver, server>>

close_complete ==
    /\ closer.by # Nobody /\ closer.at > RcIds
    /\ client' = [client EXCEPT !.count = @ - Cardinality(closer.taken)]
    /\ calls' = [c \in RcCalls |-> IF c \in closer.taken
                                   THEN Complete(calls[c], "closed", NoAnswer)
                                   ELSE calls[c]]
    /\ closer' = [by |-> Nobody, at |-> 0, taken |-> {}]
    /\ UNCHANGED <<receiver, server>>

-----------------------------------------------------------------------------
(* ping and send_oneway write without a token and do not close. *)
write_plain_frame(c) ==
    /\ calls[c].pc = "lock" /\ calls[c].kind # "call" /\ client.sender = Nobody
    /\ \/ /\ ~client.shut
          /\ IF calls[c].kind = "ping"
             THEN /\ Set(c, [calls[c] EXCEPT !.pc = "wait"])
                  /\ server' = server \cup {c}
                  /\ client' = WriteWhole(client)
             ELSE /\ Set(c, Ended(c, "success", "no"))
                  /\ client' = WriteWhole(client)
                  /\ UNCHANGED server
       \/ /\ client.shut
          /\ Return(c, "failed")
          /\ UNCHANGED server
    /\ UNCHANGED <<closer, receiver>>

(* The timer of a call or ping, and the caller's token. *)
timeout(c) ==
    /\ calls[c].pc \in (IF calls[c].kind = "call" THEN {"lock", "wait"} ELSE {"wait"})
    /\ ~is_completed(calls[c])
    /\ Set(c, Complete(calls[c], "timeout", NoAnswer))
    /\ UNCHANGED <<client, closer, receiver, server>>

cancel(c) ==
    /\ calls[c].kind = "call"
    /\ \/ /\ calls[c].pc \in {"reserve", "recheck"} /\ ~calls[c].token
          /\ Set(c, [calls[c] EXCEPT !.token = TRUE])
       \/ /\ calls[c].pc \in {"lock", "wait"} /\ ~is_completed(calls[c])
          /\ Set(c, Complete(calls[c], "cancelled", NoAnswer))
    /\ UNCHANGED <<client, closer, receiver, server>>

(* The coroutine resumes with its completion: the timer is stopped, and a  *)
(* call that was cancelled after it had been sent tells the server.        *)
finish(c) ==
    /\ calls[c].pc = "wait" /\ is_completed(calls[c])
    /\ Set(c, Ended(c, calls[c].error,
                    IF calls[c].error # "cancelled" THEN "no"
                    ELSE IF calls[c].sent THEN "check" ELSE "unsent"))
    /\ client' = erase_pending_request(client, calls[c])
    /\ UNCHANGED <<closer, receiver, server>>

(* The caller destroys the coroutine while it awaits its completion. *)
destroy(c) ==
    /\ calls[c].pc = "wait"
    /\ Return(c, "destroyed")
    /\ UNCHANGED <<closer, receiver, server>>

(* send_cancel_frame, a task of its own. *)
send_cancel_frame(c) ==
    /\ \/ /\ calls[c].tell = "check"
          /\ Set(c, [calls[c] EXCEPT !.tell = IF is_connected THEN "lock" ELSE "void"])
          /\ UNCHANGED client
       \/ /\ calls[c].tell = "lock" /\ client.sender = Nobody
          /\ IF is_connected /\ ~client.shut
             THEN client' = WriteWhole(client) ELSE UNCHANGED client
          /\ Set(c, [calls[c] EXCEPT !.tell = "void"])
    /\ UNCHANGED <<closer, receiver, server>>

-----------------------------------------------------------------------------
(* handle_response, handle_pong: the entry under the lock of its shard, if *)
(* it is of the right kind; it is completed after the unlock.              *)
MutHandle_response(c) ==
    LET p == client.table[calls[c].id]
    IN  receiver' = IF p = Nobody THEN receiver
                    ELSE [pc |-> "complete", got |-> p,
                          from |-> Answer(c, calls[c].kind, calls[c].id)]

handle_response(c) ==
    LET p == client.table[calls[c].id]
    IN  receiver' = IF p # Nobody /\ (p # Nobody => calls[p].kind = calls[c].kind)
                    THEN [pc |-> "complete", got |-> p,
                          from |-> Answer(c, calls[c].kind, calls[c].id)]
                    ELSE receiver

(* receive_loop: an answer, a ping, which the loop answers itself once it  *)
(* has the lock, or no frame at the end of the stream.                     *)
receive_frame ==
    /\ receiver.pc = "read"
    /\ \/ /\ ~is_connected
          /\ receiver' = [receiver EXCEPT !.pc = "ended"]
          /\ UNCHANGED <<client, closer, server>>
       \/ \E c \in server :
             /\ server' = server \ {c}
             /\ handle_response(c)
             /\ UNCHANGED <<client, closer>>
       \/ /\ client.sender = Nobody
          /\ client' = IF client.shut THEN client ELSE WriteWhole(client)
          /\ UNCHANGED <<receiver, closer, server>>
       \/ /\ Close("other", client)
          /\ receiver' = [receiver EXCEPT !.pc = "ended"]
          /\ UNCHANGED server
    /\ UNCHANGED calls

(* The watchdog of a read shuts the socket down and does not close. *)
read_deadline ==
    /\ receiver.pc = "read" /\ ~client.shut
    /\ client' = [client EXCEPT !.shut = TRUE]
    /\ UNCHANGED <<calls, closer, receiver, server>>

complete_response ==
    /\ receiver.pc = "complete"
    /\ Set(receiver.got, Complete(calls[receiver.got], "success", receiver.from))
    /\ receiver' = [pc |-> "read", got |-> Nobody, from |-> NoAnswer]
    /\ UNCHANGED <<client, closer, server>>

-----------------------------------------------------------------------------
RcNext ==
    \/ \E c \in RcCalls :
          \/ \E kind \in {"call", "ping", "oneway"} : Begin(c, kind)
          \/ reserve_pending_request(c) \/ recheck(c) \/ lock_send_mutex_for_call(c)
          \/ write_call_frame(c) \/ cut_call_frame(c) \/ write_failed(c)
          \/ close_returned(c) \/ write_plain_frame(c) \/ timeout(c) \/ cancel(c)
          \/ finish(c) \/ destroy(c) \/ send_cancel_frame(c)
    \/ close \/ close_shard \/ close_complete
    \/ receive_frame \/ read_deadline \/ complete_response

RcSpec == RcInit /\ [][RcNext]_rcVars

-----------------------------------------------------------------------------
Waiting(c) == calls[c].pc \in {"recheck", "lock", "write", "broken", "closing", "wait"}

(* The pending table holds one request under an id and only requests that  *)
(* are under way; the count, which bounds the search for a free id, is     *)
(* never below it, so that a reservation fails only when every id is       *)
(* taken; and when everything has returned nothing is left behind.         *)
PendingIsExact ==
    /\ \A i \in Ids : client.table[i] # Nobody =>
          calls[client.table[i]].id = i /\ Waiting(client.table[i])
    /\ client.count >= Cardinality({i \in Ids : client.table[i] # Nobody})
    /\ \A c \in RcCalls : calls[c].pc = "reserve" /\ FreeAttempts = {} =>
          \A i \in Ids : client.table[i] # Nobody
    /\ (closer.by = Nobody /\ \A c \in RcCalls : ~Waiting(c)) => client.count = 0

(* A call succeeds only with an answer, to a request of its kind and of    *)
(* its id; until the ids wrap, to its own request, whatever order the      *)
(* answers come in.  A call that waits after close() has finished has been *)
(* completed, and the server hears of a call that was cancelled while the  *)
(* connection lasts.                                                       *)
RpcCallsAreHonest ==
    /\ \A c \in RcCalls : calls[c].pc # "done" =>
          /\ (calls[c].error = "success") = (calls[c].given # NoAnswer)
          /\ calls[c].given # NoAnswer =>
                /\ calls[c].given.kind = calls[c].kind /\ calls[c].given.id = calls[c].id
                /\ client.next <= RcIds => calls[c].given.to = c
    /\ (client.closed /\ closer.by = Nobody) =>
          \A c \in RcCalls : calls[c].pc = "wait" => is_completed(calls[c])
    /\ \A c \in RcCalls :
          (c \in server /\ calls[c].pc = "done" /\ calls[c].error = "cancelled")
             => calls[c].tell \notin {"no", "unsent"}

(* A response, the timer, the caller's token and close() compete for a     *)
(* request: what the first of them decided is what its coroutine returns,  *)
(* also when the others come before it runs again.                         *)
FirstOutcomeStays ==
    \A c \in RcCalls : is_completed(calls[c]) /\ calls'[c].pc # "done" =>
       calls'[c].error = calls[c].error /\ calls'[c].given = calls[c].given

(* Nothing follows a frame that was cut off. *)
FramesStayWhole == ~client.spoiled

-----------------------------------------------------------------------------
(***************************************************************************)
(* One session of the RPC server (rpc_session of rpc/rpc_server.hpp): a    *)
(* read loop that dispatches requests into a task scope, their handlers,   *)
(* the frames they write under send_mutex_, pongs and overload rejections, *)
(* and close(), which anybody may call at any time.                        *)
(***************************************************************************)
CONSTANTS RsRequests,   \* requests the peer sends, each once
          RsIds,        \* ids they carry; the peer may repeat one
          RsLimit       \* max_in_flight_requests_per_session, 0 for none

VARIABLES reqs,         \* request tasks
          extra,        \* the task of a pong and that of a rejection
          sess,         \* members of rpc_session
          closing_at,   \* how far the one close() that got through is
          scope         \* the read loop and its task group

rpcsVars == <<reqs, extra, sess, closing_at, scope>>

Extras == {"pong", "reject"}
Tasks == RsRequests \cup Extras

FreshRequest == [pc |-> "none", id |-> 0, quiet |-> FALSE, cancelled |-> FALSE,
          frames |-> 0, cleanup |-> "none"]

RpcsInit ==
    /\ reqs = [r \in RsRequests |-> FreshRequest]
    /\ extra = [e \in Extras |-> "none"]
    /\ sess = [closed |-> FALSE, active |-> {}, lock |-> "none", writes |-> 0,
               deferred |-> FALSE, stop_writes |-> FALSE, shut |-> "no"]
    /\ closing_at = "no"
    /\ scope = [reader |-> "read", cancelled |-> FALSE, over |-> FALSE]

-----------------------------------------------------------------------------
(* close(): the first caller stops the frame being written, asks for the   *)
(* shutdown of the stream, and cancels every active request.               *)
session_close(s) ==
    IF s.closed THEN sess' = s /\ UNCHANGED closing_at
    ELSE sess' = [s EXCEPT !.closed = TRUE] /\ closing_at' = "writes"

(* The end of a frame write does the shutdown that had been deferred. *)
request_stream_shutdown(s) ==
    IF s.writes = 0 THEN [s EXCEPT !.shut = "close"]
                    ELSE [s EXCEPT !.deferred = TRUE]

begin_frame_write(s) == [s EXCEPT !.writes = @ + 1]

finish_frame_write(s) ==
    IF s.writes = 1 /\ s.deferred
    THEN [s EXCEPT !.writes = 0, !.deferred = FALSE, !.shut = "close"]
    ELSE [s EXCEPT !.writes = @ - 1]

(* The requests whose cancel source is cancelled with the table. *)
cancel_all_active_requests ==
    /\ reqs' = [r \in RsRequests |-> [reqs[r] EXCEPT !.cancelled = @ \/ r \in sess.active]]
    /\ sess' = [sess EXCEPT !.active = {}]

close_step ==
    /\ \/ /\ closing_at = "writes"
          /\ sess' = [sess EXCEPT !.stop_writes = TRUE]
          /\ closing_at' = "shutdown"
          /\ UNCHANGED reqs
       \/ /\ closing_at = "shutdown"
          /\ sess' = request_stream_shutdown(sess)
          /\ closing_at' = "requests"
          /\ UNCHANGED reqs
       \/ /\ closing_at = "requests"
          /\ cancel_all_active_requests
          /\ closing_at' = "done"
    /\ UNCHANGED <<extra, scope>>

(* stop() of the server, or the cancellation of the task that runs it. *)
close_from_outside ==
    /\ ~sess.closed /\ ~scope.over
    /\ session_close(sess)
    /\ UNCHANGED <<reqs, extra, scope>>

-----------------------------------------------------------------------------
(* reserve_active_request under the lock of the table. *)
InTable(id) == \E r \in sess.active : reqs[r].id = id

MutReserve_active_request(id) ==
    IF InTable(id) THEN "duplicate"
    ELSE IF RsLimit # 0 /\ Cardinality(sess.active) >= RsLimit THEN "limited"
    ELSE "reserved"

reserve_active_request(id) ==
    IF sess.closed THEN "closed"
    ELSE IF InTable(id) THEN "duplicate"
    ELSE IF RsLimit # 0 /\ Cardinality(sess.active) >= RsLimit THEN "limited"
    ELSE "reserved"

(* A flag admits one task of its kind at a time. *)
schedule_pong ==
    extra' = [extra EXCEPT !["pong"] = IF @ = "none" THEN "send" ELSE @]

(* An excess request without response is dropped, one with a response is   *)
(* rejected unless a rejection is still being written.                     *)
reject_overloaded_request(quiet) ==
    extra' = [extra EXCEPT !["reject"] = IF @ = "none" /\ ~quiet THEN "send" ELSE @]

dispatch_request(r, id, quiet) ==
    CASE reserve_active_request(id) = "reserved" ->
            /\ reqs' = [reqs EXCEPT ![r] = [FreshRequest EXCEPT !.pc = "handler", !.id = id,
                                                        !.quiet = quiet]]
            /\ sess' = [sess EXCEPT !.active = @ \cup {r}]
            /\ UNCHANGED <<extra, closing_at>>
      [] reserve_active_request(id) = "duplicate" ->
            /\ session_close(sess)
            /\ reqs' = [reqs EXCEPT ![r].pc = "gone"]
            /\ UNCHANGED extra
      [] reserve_active_request(id) = "limited" ->
            /\ \/ reject_overloaded_request(quiet) /\ UNCHANGED <<sess, closing_at>>
               \/ session_close(sess) /\ UNCHANGED extra
            /\ reqs' = [reqs EXCEPT ![r].pc = "gone"]
      [] OTHER ->
            /\ reqs' = [reqs EXCEPT ![r].pc = "gone"]
            /\ UNCHANGED <<extra, sess, closing_at>>

cancel_request(id) ==
    reqs' = [r \in RsRequests |->
                [reqs[r] EXCEPT !.cancelled = @ \/ (r \in sess.active /\ reqs[r].id = id)]]

(* run_scope: frames are read until the session is closed or none comes.   *)
(* A frame that arrives with the shutdown is still delivered.              *)
read_frame ==
    /\ scope.reader = "read"
    /\ \/ sess.closed /\ scope' = [scope EXCEPT !.reader = "close"]
          /\ UNCHANGED <<reqs, extra, sess, closing_at>>
       \/ scope' = [scope EXCEPT !.reader = "close"]
          /\ UNCHANGED <<reqs, extra, sess, closing_at>>
       \/ /\ UNCHANGED scope
          /\ \/ \E r \in RsRequests, id \in RsIds, quiet \in BOOLEAN :
                   reqs[r].pc = "none" /\ dispatch_request(r, id, quiet)
             \/ schedule_pong /\ UNCHANGED <<reqs, sess, closing_at>>
             \/ \E id \in RsIds : cancel_request(id) /\ UNCHANGED <<extra, sess, closing_at>>

(* The watchdog of a read shuts the stream down, writes or not. *)
session_read_deadline ==
    /\ scope.reader = "read" /\ sess.shut = "no"
    /\ sess' = [sess EXCEPT !.shut = "deadline"]
    /\ UNCHANGED <<reqs, extra, closing_at, scope>>

(* After the loop: close, cancel what is active, cancel the group. *)
end_of_reads ==
    /\ \/ /\ scope.reader = "close"
          /\ session_close(sess)
          /\ scope' = [scope EXCEPT !.reader = IF sess.closed THEN "cancel" ELSE "closing"]
          /\ UNCHANGED reqs
       \/ /\ scope.reader = "closing" /\ closing_at = "done"
          /\ scope' = [scope EXCEPT !.reader = "cancel"]
          /\ UNCHANGED <<reqs, sess, closing_at>>
       \/ /\ scope.reader = "cancel"
          /\ cancel_all_active_requests
          /\ scope' = [scope EXCEPT !.reader = "left", !.cancelled = TRUE]
          /\ UNCHANGED closing_at
    /\ UNCHANGED extra

-----------------------------------------------------------------------------
(* handle_request: the handler ends with or without a result that wants    *)
(* cleaning up; without response the cleanup is at once.                   *)
handle_request(r) ==
    /\ reqs[r].pc = "handler"
    /\ \E cleanup \in {"none", "due"} :
          reqs' = [reqs EXCEPT ![r].pc = IF reqs[r].quiet THEN "end" ELSE "send",
                               ![r].cleanup = IF cleanup = "due" /\ reqs[r].quiet
                                              THEN "done" ELSE cleanup]
    /\ UNCHANGED <<extra, sess, closing_at, scope>>

(* The lease of a request ends with its task: its own entry is erased. *)
erase_active_request(r) ==
    /\ reqs[r].pc = "end"
    /\ sess' = [sess EXCEPT !.active = @ \ {r}]
    /\ reqs' = [reqs EXCEPT ![r] = [FreshRequest EXCEPT !.pc = "gone"]]
    /\ UNCHANGED <<extra, closing_at, scope>>

(* send_frame, for a request, a pong or a rejection. *)
AtTask(t) == IF t \in RsRequests THEN reqs[t].pc ELSE extra[t]

MoveTask(t, pc, sent) ==
    IF t \in RsRequests
    THEN /\ reqs' = [reqs EXCEPT ![t].pc = pc,
                                 ![t].frames = IF sent THEN @ + 1 ELSE @,
                                 ![t].cleanup = IF sent /\ @ = "due" THEN "done" ELSE @]
         /\ UNCHANGED extra
    ELSE /\ extra' = [extra EXCEPT ![t] = IF pc = "end" THEN "none" ELSE pc]
         /\ UNCHANGED reqs

send_frame_lock(t) ==
    /\ AtTask(t) = "send"
    /\ \/ /\ sess.closed \/ scope.cancelled
          /\ MoveTask(t, "end", FALSE)
          /\ UNCHANGED sess
       \/ /\ sess.lock = "none"
          /\ sess' = [sess EXCEPT !.lock = t]
          /\ MoveTask(t, "begin", FALSE)
    /\ UNCHANGED <<closing_at, scope>>

send_frame_begin(t) ==
    /\ AtTask(t) = "begin"
    /\ IF sess.closed
       THEN sess' = [sess EXCEPT !.lock = "none"] /\ MoveTask(t, "end", FALSE)
       ELSE sess' = begin_frame_write(sess) /\ MoveTask(t, "write", FALSE)
    /\ UNCHANGED <<closing_at, scope>>

(* The frame is written, unless it is stopped or the stream is shut. *)
send_frame_write(t) ==
    /\ AtTask(t) = "write"
    /\ \/ sess.shut = "no" /\ MoveTask(t, "end", TRUE)
       \/ (sess.shut # "no" \/ sess.stop_writes) /\ MoveTask(t, "end", FALSE)
    /\ sess' = [finish_frame_write(sess) EXCEPT !.lock = "none"]
    /\ UNCHANGED <<closing_at, scope>>

(* run(): the scope is joined when every child has left. *)
run_ends ==
    /\ scope.reader = "left" /\ ~scope.over
    /\ \A r \in RsRequests : reqs[r].pc \in {"none", "gone"}
    /\ \A e \in Extras : extra[e] = "none"
    /\ scope' = [scope EXCEPT !.over = TRUE]
    /\ UNCHANGED <<reqs, extra, sess, closing_at>>

-----------------------------------------------------------------------------
RpcsNext ==
    \/ close_step \/ close_from_outside \/ read_frame \/ session_read_deadline
    \/ end_of_reads \/ run_ends
    \/ \E r \in RsRequests : handle_request(r) \/ erase_active_request(r)
    \/ \E t \in Tasks : send_frame_lock(t) \/ send_frame_begin(t) \/ send_frame_write(t)

RpcsSpec == RpcsInit /\ [][RpcsNext]_rpcsVars

-----------------------------------------------------------------------------
Live(r) == reqs[r].pc \in {"handler", "send", "begin", "write", "end"}

(* close() never shuts the stream down under a frame, and its shutdown is  *)
(* not forgotten: once close() has passed and no frame is being written,   *)
(* the stream is down, which is what ends the read.                        *)
ShutdownIsOrderly ==
    /\ sess.shut = "close" => sess.writes = 0
    /\ (closing_at \in {"requests", "done"} /\ sess.writes = 0) => sess.shut = "close"

(* Once close() has returned, every handler that still runs has been told, *)
(* and before it none is left out of the table, so that at most RsLimit    *)
(* requests are in flight.                                                 *)
CloseReachesHandlers ==
    /\ closing_at = "done" => \A r \in RsRequests : Live(r) => reqs[r].cancelled
    /\ closing_at \in {"no", "writes", "shutdown", "requests"} /\ scope.reader # "left" =>
          \A r \in RsRequests : Live(r) => r \in sess.active
    /\ (RsLimit # 0 /\ ~sess.closed) => Cardinality({r \in RsRequests : Live(r)}) <= RsLimit

(* A request is answered at most once and never without response wanted,   *)
(* its cleanup runs only behind its frame, and a session that is over has  *)
(* nothing under way and its stream down.                                  *)
AnswersAreOrderly ==
    /\ \A r \in RsRequests :
          /\ reqs[r].frames <= (IF reqs[r].quiet THEN 0 ELSE 1)
          /\ reqs[r].cleanup = "done" => reqs[r].quiet \/ reqs[r].frames = 1
    /\ scope.over => /\ sess.lock = "none" /\ sess.writes = 0 /\ sess.active = {}
                     /\ closing_at = "done" => sess.shut = "close"

-----------------------------------------------------------------------------
(***************************************************************************)
(* rpc_server of rpc/rpc_server.hpp: the accept loop of serve(), sessions  *)
(* handed to handle_client(), the slots max_sessions limits, the registry  *)
(* stop() goes through, and the guard that releases both.                  *)
(***************************************************************************)
CONSTANTS RvSessions,   \* connections
          RvMax,        \* max_sessions, 0 for no limit
          RvServes      \* how often serve() is called, one call after another

VARIABLES rserver,      \* running_, the accept source, the registry
          acceptor,     \* the serve() call
          rsession,     \* sessions and their guards
          rstop         \* a stop() call and the sessions it found

rvVars == <<rserver, acceptor, rsession, rstop>>

NoSession == [pc |-> "none", served |-> FALSE, closed |-> FALSE]

RvInit ==
    /\ rserver = [running |-> FALSE, cancelled |-> FALSE, active |-> 0, sessions |-> {},
                  handlers |-> 0, frozen |-> FALSE]
    /\ acceptor = [pc |-> "idle", session |-> {}, left |-> RvServes]
    /\ rsession = [s \in RvSessions |-> NoSession]
    /\ rstop = [pc |-> "idle", before |-> {}, copy |-> {}, left |-> 1]

-----------------------------------------------------------------------------
(* A method may be registered until the first serve() or handle_client()   *)
(* freezes the table; its id only once.                                    *)
insert_handler ==
    /\ ~rserver.frozen /\ rserver.handlers = 0
    /\ rserver' = [rserver EXCEPT !.handlers = @ + 1]
    /\ UNCHANGED <<acceptor, rsession, rstop>>

register_method == insert_handler

freeze_handlers(v) == [v EXCEPT !.frozen = TRUE]

SlotFree == RvMax = 0 \/ rserver.active < RvMax

try_reserve_session_slot(v) == [v EXCEPT !.active = @ + 1]

(* session_lifetime_guard: the registry entry goes first, then the slot. *)
MutUntrack(s) == /\ rsession[s].pc = "ended"
              /\ rserver' = rserver
              /\ rsession' = [rsession EXCEPT ![s].pc = "slot"]
              /\ UNCHANGED <<acceptor, rstop>>

untrack(s) ==
    /\ rsession[s].pc = "ended"
    /\ rserver' = [rserver EXCEPT !.sessions = @ \ {s}]
    /\ rsession' = [rsession EXCEPT ![s].pc = "slot"]
    /\ UNCHANGED <<acceptor, rstop>>

release_slot(s) ==
    /\ rsession[s].pc = "slot"
    /\ rserver' = [rserver EXCEPT !.active = @ - 1]
    /\ rsession' = [rsession EXCEPT ![s].pc = "gone"]
    /\ UNCHANGED <<acceptor, rstop>>

-----------------------------------------------------------------------------
(* serve: a new accept source, then running_. *)
reset_accept_cancel_source ==
    /\ acceptor.pc = "idle" /\ acceptor.left > 0
    /\ rserver' = [freeze_handlers(rserver) EXCEPT !.cancelled = FALSE]
    /\ acceptor' = [acceptor EXCEPT !.pc = "start", !.left = @ - 1]
    /\ UNCHANGED <<rsession, rstop>>

serve_start ==
    /\ acceptor.pc = "start"
    /\ rserver' = [rserver EXCEPT !.running = TRUE]
    /\ acceptor' = [acceptor EXCEPT !.pc = "accept"]
    /\ UNCHANGED <<rsession, rstop>>

(* while (running_) accept: a connection, an error or a cancellation. *)
serve_accept ==
    /\ acceptor.pc = "accept"
    /\ \/ ~rserver.running /\ acceptor' = [acceptor EXCEPT !.pc = "idle"]
       \/ /\ rserver.running
          /\ \/ acceptor' = [acceptor EXCEPT !.pc = "check"]
             \/ \E s \in RvSessions : rsession[s].pc = "none"
                                      /\ acceptor' = [acceptor EXCEPT !.pc = "check", !.session = {s}]
    /\ UNCHANGED <<rserver, rsession, rstop>>

(* The stream of a stopped loop, or beyond the limit, is dropped. *)
accept_loop_should_stop ==
    /\ acceptor.pc = "check"
    /\ IF ~rserver.running \/ rserver.cancelled
       THEN /\ rserver' = [rserver EXCEPT !.running = FALSE]
            /\ acceptor' = [acceptor EXCEPT !.pc = "idle", !.session = {}]
       ELSE /\ acceptor' = [acceptor EXCEPT !.pc = IF acceptor.session = {} THEN "accept"
                                                   ELSE "reserve"]
            /\ UNCHANGED rserver
    /\ UNCHANGED <<rsession, rstop>>

serve_reserve ==
    /\ acceptor.pc = "reserve"
    /\ \E s \in acceptor.session :
          IF SlotFree
          THEN /\ rserver' = try_reserve_session_slot(rserver)
               /\ rsession' = [rsession EXCEPT ![s] = [NoSession EXCEPT !.pc = "created",
                                                                       !.served = TRUE]]
               /\ acceptor' = [acceptor EXCEPT !.pc = "track"]
          ELSE /\ rsession' = [rsession EXCEPT ![s].pc = "gone"]
               /\ acceptor' = [acceptor EXCEPT !.pc = "accept", !.session = {}]
               /\ UNCHANGED rserver
    /\ UNCHANGED rstop

(* track_session_if_running tests running_ under the lock of the registry; *)
(* a session that comes too late is closed and its guard lets go.          *)
track_session_if_running ==
    /\ acceptor.pc = "track"
    /\ \E s \in acceptor.session :
          IF rserver.running
          THEN /\ rserver' = [rserver EXCEPT !.sessions = @ \cup {s}]
               /\ rsession' = [rsession EXCEPT ![s].pc = "running"]
               /\ acceptor' = [acceptor EXCEPT !.pc = "accept", !.session = {}]
          ELSE /\ rsession' = [rsession EXCEPT ![s].pc = "slot", ![s].closed = TRUE]
               /\ acceptor' = [acceptor EXCEPT !.pc = "idle", !.session = {}]
               /\ UNCHANGED rserver
    /\ UNCHANGED rstop

(* handle_client: a stream of the caller's, whether running_ or not. *)
handle_client(s) ==
    /\ \/ /\ rsession[s].pc = "none" /\ s \notin acceptor.session
          /\ IF SlotFree
             THEN /\ rserver' = freeze_handlers(try_reserve_session_slot(rserver))
                  /\ rsession' = [rsession EXCEPT ![s].pc = "created"]
             ELSE /\ rserver' = freeze_handlers(rserver)
                  /\ rsession' = [rsession EXCEPT ![s].pc = "gone"]
       \/ /\ rsession[s].pc = "created" /\ ~rsession[s].served
          /\ rserver' = [rserver EXCEPT !.sessions = @ \cup {s}]
          /\ rsession' = [rsession EXCEPT ![s].pc = "running"]
    /\ UNCHANGED <<acceptor, rstop>>

(* run_session until the peer leaves or the session is closed. *)
run_session(s) ==
    /\ rsession[s].pc = "running"
    /\ rsession' = [rsession EXCEPT ![s].pc = "ended"]
    /\ UNCHANGED <<rserver, acceptor, rstop>>

-----------------------------------------------------------------------------
LiveSession(s) == rsession[s].pc \in {"created", "running", "ended"}

(* stop: running_, the accept source, a copy of the registry, close(). *)
stop ==
    /\ UNCHANGED acceptor
    /\ \/ /\ rstop.pc = "idle" /\ rstop.left > 0
          /\ rserver' = [rserver EXCEPT !.running = FALSE]
          /\ rstop' = [pc |-> "cancel", copy |-> {}, left |-> rstop.left - 1,
                       before |-> {s \in RvSessions : LiveSession(s) /\ rsession[s].served}]
          /\ UNCHANGED rsession
       \/ /\ rstop.pc = "cancel"
          /\ rserver' = [rserver EXCEPT !.cancelled = TRUE]
          /\ rstop' = [rstop EXCEPT !.pc = "copy"]
          /\ UNCHANGED rsession
       \/ /\ rstop.pc = "copy"
          /\ rstop' = [rstop EXCEPT !.pc = "close", !.copy = rserver.sessions]
          /\ UNCHANGED <<rserver, rsession>>
       \/ /\ rstop.pc = "close" /\ rstop.copy # {}
          /\ \E s \in rstop.copy :
                /\ rsession' = [rsession EXCEPT ![s].closed = TRUE]
                /\ rstop' = [rstop EXCEPT !.copy = @ \ {s}]
          /\ UNCHANGED rserver
       \/ /\ rstop.pc = "close" /\ rstop.copy = {}
          /\ rstop' = [rstop EXCEPT !.pc = "idle"]
          /\ UNCHANGED <<rserver, rsession>>

-----------------------------------------------------------------------------
RvNext ==
    \/ register_method \/ reset_accept_cancel_source \/ serve_start \/ serve_accept
    \/ accept_loop_should_stop \/ serve_reserve \/ track_session_if_running \/ stop
    \/ \E s \in RvSessions : handle_client(s) \/ run_session(s) \/ untrack(s) \/ release_slot(s)

RvSpec == RvInit /\ [][RvNext]_rvVars

-----------------------------------------------------------------------------
(* The slots taken are the sessions whose guard has not let go, never more *)
(* than max_sessions, and the registry holds none of a guard that is gone. *)
SlotsAreExact ==
    /\ rserver.active = Cardinality({s \in RvSessions : LiveSession(s) \/ rsession[s].pc = "slot"})
    /\ RvMax # 0 => rserver.active <= RvMax
    /\ \A s \in rserver.sessions : rsession[s].pc \in {"running", "ended"}

(* When stop() has returned, every session that serve() had accepted       *)
(* before it has been closed or is over, tracked or not when stop() ran.   *)
StopClosesSessions ==
    rstop.pc = "idle" =>
        \A s \in rstop.before : rsession[s].pc = "running" => rsession[s].closed

=============================================================================
