------------------------------ MODULE Protocols ------------------------------
(***************************************************************************)
(* The parts of elio/rpc and elio/http side by side: RPC client, session   *)
(* and server; HTTP connection pool, dialling, exchange, server, message   *)
(* parsers, response bodies and router; WebSocket frames, connection and   *)
(* client; SSE events and client.  They are checked one at a time: a       *)
(* behaviour uses one part, "used", and x1, x2, ... hold the variables of  *)
(* that part in the order of its module.                                   *)
(***************************************************************************)
EXTENDS Naturals, FiniteSets, TLC

CONSTANTS
    RcCalls, RcPlain, RcIds,                   \* of RpcClient
    RsRequests, RsIds, RsLimit,                \* of RpcSession
    RvSessions, RvMax, RvServes,               \* of RpcServer
    HpOps, HpRoutes, HpTls,                    \* of HttpPool
    HdAddresses, HdInterims,                   \* of HttpDial
    HxRedirects, HxInterims,                   \* of HttpExchange
    HsRequests, HsKeepAlive,                   \* of HttpServer
    HmHeaders, HmLine, HmLines,                \* of message parsers
    BwBytes,                                   \* of BodyWriter
    RtComponents, RtLength, RtRoutes,          \* of Router
    WfMax, WfFrames, WfBytes,                  \* of WsFrames
    WsTimeouts,                                \* of WebSocket
    WcLimit, WcConnects, WcMessages,           \* of WsClient
    SpMax, SpText, SpBatch, SpData,            \* of SseEvents
    ScEvents, ScAttempts, ScConnects, ScAuto   \* of SseClient

(* Limits of the HTTP pool: connections in all, per route and being        *)
(* dialled, callers that may wait, route buckets; one idle connection.     *)
Limits(live, route, dials, waiters, buckets, ops, asked) ==
    [live |-> live, route |-> route, dials |-> dials, idleRoute |-> 1, idleTotal |-> 1,
     waiters |-> waiters, buckets |-> buckets, ops |-> ops, asked |-> asked]

(* Two callers who wait for one connection; a caller who finds the queue   *)
(* full and a dial under way; routes that compete for the connection, and  *)
(* for the one bucket; and a pool without limits.                          *)
PoolLimits ==
    {Limits(1, 1, 1, 2, 1, 3, HpRoutes \ HpTls), Limits(2, 2, 1, 1, 1, 3, HpRoutes \ HpTls),
     Limits(1, 1, 1, 1, 2, 2, HpRoutes), Limits(2, 1, 1, 1, 1, 2, HpRoutes),
     Limits(1, 1, 1, 0, 0, 2, HpRoutes)}

VARIABLES used, x1, x2, x3, x4, x5, x6, x7, x8, x9

Calls == INSTANCE Rpc
        WITH calls <- x1, client <- x2, closer <- x3, receiver <- x4, server <- x5,
             reqs <- x1, extra <- x2, sess <- x3, closing_at <- x4, scope <- x5,
             rserver <- x1, acceptor <- x2, rsession <- x3, rstop <- x4

Client == INSTANCE HttpClient
        WITH HpLimits <- PoolLimits, hlimits <- x1, hpool <- x2, hop <- x3,
             debts <- x4, anchor <- x5, roots <- x6, aged <- x7, xport <- x8,
             shutter <- x9, hdial <- x1, hdog <- x2, hsock <- x3, hclock <- x4,
             xreq <- x1, xch <- x2, xdog <- x3, xtime <- x4

Server == INSTANCE HttpServer
        WITH hserv <- x1, hwatch <- x2, hclient <- x3, hstop <- x4, bresp <- x1,
             bwr <- x2, bop <- x3, bdog <- x4, bwire <- x5, benv <- x6, rtable <- x1,
             rpath <- x2, rfound <- x3, hmsg <- x1, htext <- x2, hparser <- x3

Ws == INSTANCE WebSocket
        WITH wjob <- x1, wpar <- x2, wsent <- x3, wtaken <- x4, wtext <- x5,
             wconn <- x1, wact <- x2, wbeat <- x3, wtask <- x4, wpeer <- x5, wcl <- x1,
             wcall <- x2, wserver <- x3

Events == INSTANCE Sse
        WITH pjob <- x1, pparser <- x2, ptext <- x3, ptaken <- x4, pwriter <- x5,
             scl <- x1, scall <- x2, sgot <- x3, sclose <- x4

protocolsVars == <<used, x1, x2, x3, x4, x5, x6, x7, x8, x9>>

\* The variables beyond the first n are not those of the part in use.
Unused(n) ==
    /\ IF n <= 3 THEN x4 = 0 ELSE TRUE
    /\ IF n <= 4 THEN x5 = 0 ELSE TRUE
    /\ IF n <= 5 THEN x6 = 0 ELSE TRUE
    /\ IF n <= 6 THEN x7 = 0 ELSE TRUE
    /\ IF n <= 7 THEN x8 = 0 ELSE TRUE
    /\ IF n <= 8 THEN x9 = 0 ELSE TRUE

ProtocolsInit ==
    \/ used = "rpc_client" /\ Calls!RcInit /\ Unused(5)
    \/ used = "rpc_session" /\ Calls!RpcsInit /\ Unused(5)
    \/ used = "rpc_server" /\ Calls!RvInit /\ Unused(4)
    \/ used = "http_pool" /\ Client!HpInit /\ Unused(9)
    \/ used = "http_dial" /\ Client!HdInit /\ Unused(4)
    \/ used = "http_exchange" /\ Client!HxInit /\ Unused(4)
    \/ used = "http_server" /\ Server!HsInit /\ Unused(4)
    \/ used = "body_writer" /\ Server!BwInit /\ Unused(6)
    \/ used = "router" /\ Server!RouterInit /\ Unused(3)
    \/ used = "http_messages" /\ Server!HmInit /\ Unused(3)
    \/ used = "ws_frames" /\ Ws!WfInit /\ Unused(5)
    \/ used = "websocket" /\ Ws!WsInit /\ Unused(5)
    \/ used = "ws_client" /\ Ws!WcInit /\ Unused(3)
    \/ used = "sse_events" /\ Events!SpInit /\ Unused(5)
    \/ used = "sse_client" /\ Events!ScInit /\ Unused(4)

ProtocolsNext ==
    \/ /\ used = "rpc_client" /\ Calls!RcNext
       /\ UNCHANGED <<used, x6, x7, x8, x9>>
    \/ /\ used = "rpc_session" /\ Calls!RpcsNext
       /\ UNCHANGED <<used, x6, x7, x8, x9>>
    \/ /\ used = "rpc_server" /\ Calls!RvNext
       /\ UNCHANGED <<used, x5, x6, x7, x8, x9>>
    \/ /\ used = "http_pool" /\ Client!HpNext
       /\ UNCHANGED <<used>>
    \/ /\ used = "http_dial" /\ Client!HdNext
       /\ UNCHANGED <<used, x5, x6, x7, x8, x9>>
    \/ /\ used = "http_exchange" /\ Client!HxNext
       /\ UNCHANGED <<used, x5, x6, x7, x8, x9>>
    \/ /\ used = "http_server" /\ Server!HsNext
       /\ UNCHANGED <<used, x5, x6, x7, x8, x9>>
    \/ /\ used = "body_writer" /\ Server!BwNext
       /\ UNCHANGED <<used, x7, x8, x9>>
    \/ /\ used = "router" /\ Server!RouterNext
       /\ UNCHANGED <<used, x4, x5, x6, x7, x8, x9>>
    \/ /\ used = "http_messages" /\ Server!HmNext
       /\ UNCHANGED <<used, x4, x5, x6, x7, x8, x9>>
    \/ /\ used = "ws_frames" /\ Ws!WfNext
       /\ UNCHANGED <<used, x6, x7, x8, x9>>
    \/ /\ used = "websocket" /\ Ws!WsNext
       /\ UNCHANGED <<used, x6, x7, x8, x9>>
    \/ /\ used = "ws_client" /\ Ws!WcNext
       /\ UNCHANGED <<used, x4, x5, x6, x7, x8, x9>>
    \/ /\ used = "sse_events" /\ Events!SpNext
       /\ UNCHANGED <<used, x6, x7, x8, x9>>
    \/ /\ used = "sse_client" /\ Events!ScNext
       /\ UNCHANGED <<used, x5, x6, x7, x8, x9>>

(* The calls of the RPC client that are of a kind are interchangeable, and *)
(* so are the operations of the HTTP pool; no behaviour has both.          *)
ProtocolsSymmetry == Permutations(RcCalls \ RcPlain) \union Permutations(HpOps)

ProtocolsSpec == ProtocolsInit /\ [][ProtocolsNext]_protocolsVars

-----------------------------------------------------------------------------
(* Parsers and encoders agree with the format they implement however the    *)
(* input is cut into reads: HTTP messages, WebSocket frames and their UTF-8 *)
(* check, server-sent events, routes; and what an encoder writes its parser *)
(* reads back.                                                              *)
WireFormatIsExact ==
    /\ used = "http_messages" => Server!MessagesAreReadExactly
    /\ used = "router" => Server!RoutesAreRight
    /\ used = "ws_frames" =>
         Ws!ParserIsExact /\ Ws!Utf8IsExact /\ Ws!EncodersMatchParsers
    /\ used = "sse_events" => Events!ParsesAnyChunks /\ Events!WrittenIsRead

(* Writers that share a connection never cut each other short: frames of    *)
(* RPC calls and of a WebSocket stay whole, a response body is framed as    *)
(* announced and counted exactly, a request body is sent by one of the two  *)
(* who may send it.                                                         *)
MessagesStayWhole ==
    /\ used = "rpc_client" => Calls!FramesStayWhole
    /\ used = "websocket" => Ws!WsFramesStayWhole
    /\ used = "body_writer" =>
         Server!PlanIsFramed /\ Server!SentIsComplete /\ Server!ConfirmedIsExact
    /\ used = "http_exchange" => Client!UploadsOnce

(* An answer belongs to its question and says what happened: of RPC calls   *)
(* and requests, of HTTP requests on one connection, of connects, received  *)
(* messages and events across reconnections.                                *)
AnswersAreTheirs ==
    /\ used = "rpc_client" => Calls!PendingIsExact /\ Calls!RpcCallsAreHonest
    /\ used = "rpc_session" => Calls!AnswersAreOrderly
    /\ used = "http_server" => Server!RequestsAreAnsweredInTurn
    /\ used = "http_dial" => Client!DialsAreHonest
    /\ used = "ws_client" => Ws!WsConnectsHonestly /\ Ws!WsConnectionsAreSeparate
    /\ used = "sse_client" => Events!SseEventsInOrder

(* Limits hold and are not leaked: sessions of an RPC server, connections   *)
(* of the HTTP pool (where nobody queues while one could be had) and the    *)
(* sockets dialled under its permits.                                       *)
LimitsAreExact ==
    /\ used = "rpc_server" => Calls!SlotsAreExact
    /\ used = "http_pool" =>
         /\ Client!CapacityIsExact
         /\ Client!ConnectionsAreFresh
         /\ Client!NobodyWaitsBesideCapacity
    /\ used = "http_dial" => Client!OneSocketPerPermit

(* Shutdown is orderly: what was stopped or closed leaves no session,       *)
(* handler, helper task or idle connection behind and reports the stop.     *)
ShutdownIsOrderly ==
    /\ used = "rpc_session" =>
         Calls!ShutdownIsOrderly /\ Calls!CloseReachesHandlers
    /\ used = "rpc_server" => Calls!StopClosesSessions
    /\ used = "http_pool" => Client!ShutdownSettles
    /\ used = "http_dial" => Client!StopsAreTold
    /\ used = "http_server" => Server!ServerWatchdogIsJoined
    /\ used = "websocket" => Ws!WsTasksAreJoined
    /\ used = "sse_client" => Events!SseCloseHolds

(* An outcome once reached stays and is the right one: the first of answer, *)
(* timeout, cancellation and disconnect decides an RPC call, a failed body  *)
(* writer sends nothing more and keeps its first failure whatever the       *)
(* producer goes on to write, an HTTP call fails with its own cancellation  *)
(* or deadline only, and a connection goes back to the pool only after a    *)
(* complete exchange, never with a request body cut short.                  *)
OutcomesStick ==
    [][/\ used = "rpc_client" => Calls!FirstOutcomeStays
       /\ used = "body_writer" => Server!FailureSticks
       /\ used = "http_exchange" => Client!ReusedIsClean /\ Client!ErrorsAreTheCallers]_protocolsVars

=============================================================================
