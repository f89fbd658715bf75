------------------------------- MODULE Network -------------------------------
(***************************************************************************)
(* The parts of elio/io and elio/net side by side: an I/O context over     *)
(* epoll or io_uring, file operations, TCP and Unix sockets and the        *)
(* resolver.  They are checked one at a time: a behaviour uses one part,   *)
(* "used", and x1, x2, ... hold the variables of that part in the order of *)
(* its module.                                                             *)
(***************************************************************************)
EXTENDS Naturals, FiniteSets, TLC

CONSTANTS
    IoOps, Cells, Fds, Menu,                          \* of IoContext
    RingMenu, SqDepth, Segments,
    FileBytes, FileLimit, FileMaxOffset, FileChunk,   \* of file operations
    SockBytes,                                        \* of Socket
    Resolvers, Bounded, DomainLimit, MaxChanges       \* of Resolver

VARIABLES used, x1, x2, x3, x4, x5, x6, x7, x8, x9, x10, x11, x12, x13, x14, x15, x16,
          x17, x18, x19, x20, x21, x22, x23, x24, x25, x26, x27, x28, x29, x30, x31

Io == INSTANCE IoContext
        WITH frame <- x1, request <- x2, cell <- x3, mem <- x4, phase <- x5,
             guard <- x6, token <- x7, registered <- x8, cancelled <- x9, queued <- x10,
             gate <- x11, key <- x12, attempt <- x13, deferred <- x14, fd_states <- x15,
             ready_ops <- x16, timer_queue <- x17, pending_count <- x18,
             pending_sync_ops <- x19, files <- x20, interest <- x21, blocking <- x22,
             sq <- x23, kernel <- x24, cq <- x25, pending_ops <- x26,
             wake_poll_pending <- x27, completed <- x28, wake_fd <- x29, poller <- x30,
             backend <- x31, call <- x1, offset <- x2, total <- x3, capacity <- x4,
             moved <- x5, length <- x6, descriptor <- x7, ftoken <- x8, executed <- x9,
             answer <- x10

Nets == INSTANCE Net
        WITH transport <- x1, want <- x2, stage <- x3, stoken <- x4,
             cancellable_ <- x5, progress <- x6, early <- x7, result_ <- x8, afd <- x9,
             sfd <- x10, lfd <- x11, closing <- x12, accepted <- x13, lost <- x14,
             opened <- x15, closed <- x16, peer <- x17, call <- x18, at <- x19,
             got <- x20, moved <- x21, answer <- x22, completion <- x23, rpc <- x1, use_cache <- x2,
             cache <- x3, world <- x4, outstanding <- x5, jphase <- x6, jobs <- x7,
             poolq <- x8, found <- x9, looked <- x10, verdict <- x11

networkVars == <<used, x1, x2, x3, x4, x5, x6, x7, x8, x9, x10, x11, x12, x13, x14,
                 x15, x16, x17, x18, x19, x20, x21, x22, x23, x24, x25, x26, x27, x28,
                 x29, x30, x31>>

\* The variables beyond the first n are not those of the part in use.
Unused(n) ==
    /\ IF n <= 10 THEN x11 = 0 ELSE TRUE
    /\ IF n <= 11 THEN x12 = 0 ELSE TRUE
    /\ IF n <= 12 THEN x13 = 0 ELSE TRUE
    /\ IF n <= 13 THEN x14 = 0 ELSE TRUE
    /\ IF n <= 14 THEN x15 = 0 ELSE TRUE
    /\ IF n <= 15 THEN x16 = 0 ELSE TRUE
    /\ IF n <= 16 THEN x17 = 0 ELSE TRUE
    /\ IF n <= 17 THEN x18 = 0 ELSE TRUE
    /\ IF n <= 18 THEN x19 = 0 ELSE TRUE
    /\ IF n <= 19 THEN x20 = 0 ELSE TRUE
    /\ IF n <= 20 THEN x21 = 0 ELSE TRUE
    /\ IF n <= 21 THEN x22 = 0 ELSE TRUE
    /\ IF n <= 22 THEN x23 = 0 ELSE TRUE
    /\ IF n <= 23 THEN x24 = 0 ELSE TRUE
    /\ IF n <= 24 THEN x25 = 0 ELSE TRUE
    /\ IF n <= 25 THEN x26 = 0 ELSE TRUE
    /\ IF n <= 26 THEN x27 = 0 ELSE TRUE
    /\ IF n <= 27 THEN x28 = 0 ELSE TRUE
    /\ IF n <= 28 THEN x29 = 0 ELSE TRUE
    /\ IF n <= 29 THEN x30 = 0 ELSE TRUE
    /\ IF n <= 30 THEN x31 = 0 ELSE TRUE

NetworkInit ==
    \/ used = "io_context" /\ Io!ContextInit /\ Unused(31)
    \/ used = "file_io" /\ Io!FileInit /\ Unused(10)
    \/ used = "socket" /\ Nets!SockInit /\ Unused(23)
    \/ used = "resolver" /\ Nets!RsInit /\ Unused(11)

NetworkNext ==
    \/ /\ used = "io_context" /\ Io!ContextNext
       /\ UNCHANGED <<used>>
    \/ /\ used = "file_io" /\ Io!FileNext
       /\ UNCHANGED <<used, x11, x12, x13, x14, x15, x16, x17, x18, x19, x20, x21, x22,
                      x23, x24, x25, x26, x27, x28, x29, x30, x31>>
    \/ /\ used = "socket" /\ Nets!SockNext
       /\ UNCHANGED <<used, x24, x25, x26, x27, x28, x29, x30, x31>>
    \/ /\ used = "resolver" /\ Nets!RsNext
       /\ UNCHANGED <<used, x12, x13, x14, x15, x16, x17, x18, x19, x20, x21, x22, x23,
                      x24, x25, x26, x27, x28, x29, x30, x31>>

NetworkSpec == NetworkInit /\ [][NetworkNext]_networkVars

(* I/O operations and the addresses of their states are interchangeable. *)
Symmetry == Permutations(IoOps) \cup Permutations(Cells)

-----------------------------------------------------------------------------
(* Whoever waits will be told: an operation in flight is held by its        *)
(* backend, exactly once, until it is resumed, and poll() sleeps only where *)
(* the kernel or a wake can end it.                                         *)
NobodySleepsInVain ==
    used = "io_context" => Io!EveryWaitIsHeld /\ Io!SleepsAreHeard

(* What is counted is there: the operations by which a worker decides to    *)
(* sleep or retire, and a cancellation reaches the counted operation it was *)
(* meant for and no other; the lookups admitted; the open descriptors (each *)
(* with one owner, closed once).                                            *)
CountsAreExact ==
    /\ used = "io_context" => Io!PendingIsExact /\ Io!CancelHitsItsOwn
    /\ used = "socket" => Nets!DescriptorsAreOwned
    /\ used = "resolver" => Nets!AdmissionIsExact

(* What a call reports is what happened: bytes moved and sent, connections  *)
(* made, ends of stream, names found; and what was cancelled or refused     *)
(* before it began has no effect.                                           *)
ResultsAreHonest ==
    /\ used = "file_io" => Io!TransfersAreExact /\ Io!FileOperationsRunOnce
    /\ used = "socket" => Nets!NoBytesAreLost /\ Nets!ConnectedIsConnected
    /\ used = "resolver" => Nets!CacheIsHonest /\ Nets!NobodyAsksInVain

=============================================================================
