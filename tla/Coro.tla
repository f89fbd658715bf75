-------------------------------- MODULE Coro --------------------------------
(***************************************************************************)
(* The parts of elio/coro side by side: cancellation tokens, task groups   *)
(* and scopes, join handles, task frames and generators, task handles, and *)
(* when_all, when_any and with_timeout.  They are checked one at a time: a *)
(* behaviour uses one part, "used", and x1, x2, ... hold the variables of  *)
(* that part in the order of its module.                                   *)
(***************************************************************************)
EXTENDS Naturals, FiniteSets, TLC

CONSTANTS
    Threads, Sources, Callbacks, Cancelled,       \* of CancelToken
    Children, Limits,                             \* of TaskGroup
    Observers,                                    \* of JoinHandle
    Workers, TaskFrames, Isolated, Generators,    \* of Task: frames,
    Consumers, Branches                           \* its handles and combinators

(* What a callback of a token may do: unregister a callback, cancel one of  *)
(* the sources in Cancelled, or be the link to another source.              *)
TokenBodies ==
    {[op |-> "none"]} \cup {[op |-> "unregister", c |-> c] : c \in Callbacks}
        \cup {[op |-> "cancel", s |-> s] : s \in Cancelled}
        \cup {[op |-> "link", s |-> s] : s \in Sources}

VARIABLES used, x1, x2, x3, x4, x5, x6, x7, x8, x9, x10, x11, x12, x13, x14, x15, x16,
          x17, x18, x19, x20, x21, x22, x23

Tokens == INSTANCE CancelToken
        WITH Bodies <- TokenBodies, body <- x1, source <- x2, cancelled <- x3,
             head <- x4, phase <- x5, identity <- x6, payload <- x7, active <- x8,
             handles <- x9, stack <- x10

Groups == INSTANCE TaskGroup
        WITH config <- x1, draining <- x2, accepting <- x3, owner <- x4, handed <- x5,
             slot <- x6, pc <- x7, lease <- x8, outstanding <- x9, owns <- x10,
             permits <- x11, cancelled <- x12, told <- x13, posted <- x14,
             first <- x15, failures <- x16, threw <- x17, report <- x18

Joins == INSTANCE JoinHandle
        WITH child <- x1, child_frame <- x2, seen <- x3, target <- x4,
             child_lease <- x5, ready <- x6, observer <- x7, control <- x8,
             installed <- x9, waiter_slot <- x10, destroyed <- x11,
             list_installed <- x12, listed <- x13, pending_wakes <- x14, kind <- x15,
             at <- x16, outcome <- x17, own_slot <- x18, token <- x19, stage <- x20,
             lease <- x21, result <- x22, handed <- x23

Tsk == INSTANCE Task
        WITH life <- x1, maker <- x2, parent <- x3, cont <- x4, context <- x5,
             cancelled <- x6, links <- x7, pin <- x8, current <- x9, runs <- x10,
             slot <- x11, sent <- x12, got <- x13, status <- x1, payload <- x2,
             producer <- x3, wake <- x4, th_waiter <- x5, th_at <- x6, th_result <- x7,
             th_handed <- x8, notified <- x9, cancel_wanted <- x10, comb <- x1,
             caller <- x2, launched <- x3, branch <- x4, group_cancelled <- x5,
             parent_cancelled <- x6, winner <- x7, won <- x8, first <- x9,
             failures <- x10, reported <- x11, answer <- x12

coroVars == <<used, x1, x2, x3, x4, x5, x6, x7, x8, x9, x10, x11, x12, x13, x14, x15,
              x16, x17, x18, x19, x20, x21, x22, x23>>

\* The variables beyond the first n are not those of the part in use.
Unused(n) ==
    /\ IF n <= 10 THEN x11 = 0 ELSE TRUE
    /\ IF n <= 11 THEN x12 = 0 ELSE TRUE
    /\ IF n <= 12 THEN x13 = 0 ELSE TRUE
    /\ IF n <= 13 THEN x14 = 0 ELSE TRUE
    /\ IF n <= 14 THEN x15 = 0 ELSE TRUE
    /\ IF n <= 15 THEN x16 = 0 ELSE TRUE
    /\ IF n <= 16 THEN x17 = 0 ELSE TRUE
    /\ IF n <= 17 THEN x18 = 0 ELSE TRUE
    /\ IF n <= 18 THEN x19 = 0 ELSE TRUE
    /\ IF n <= 19 THEN x20 = 0 ELSE TRUE
    /\ IF n <= 20 THEN x21 = 0 ELSE TRUE
    /\ IF n <= 21 THEN x22 = 0 ELSE TRUE
    /\ IF n <= 22 THEN x23 = 0 ELSE TRUE

CoroInit ==
    \/ used = "cancel_token" /\ Tokens!Init /\ Unused(10)
    \/ used = "task_group" /\ Groups!Init /\ Unused(18)
    \/ used = "join_handle" /\ Joins!JoinInit /\ Unused(23)
    \/ used = "task" /\ Tsk!TaskInit /\ Unused(13)
    \/ used = "task_handle" /\ Tsk!ThInit /\ Unused(10)
    \/ used = "combinators" /\ Tsk!CombInit /\ Unused(12)

CoroNext ==
    \/ /\ used = "cancel_token" /\ Tokens!Next
       /\ UNCHANGED <<used, x11, x12, x13, x14, x15, x16, x17, x18, x19, x20, x21, x22,
                      x23>>
    \/ /\ used = "task_group" /\ Groups!Next
       /\ UNCHANGED <<used, x19, x20, x21, x22, x23>>
    \/ /\ used = "join_handle" /\ Joins!JoinNext
       /\ UNCHANGED <<used>>
    \/ /\ used = "task" /\ Tsk!TaskNext
       /\ UNCHANGED <<used, x14, x15, x16, x17, x18, x19, x20, x21, x22, x23>>
    \/ /\ used = "task_handle" /\ Tsk!ThNext
       /\ UNCHANGED <<used, x11, x12, x13, x14, x15, x16, x17, x18, x19, x20, x21, x22,
                      x23>>
    \/ /\ used = "combinators" /\ Tsk!CombNext
       /\ UNCHANGED <<used, x13, x14, x15, x16, x17, x18, x19, x20, x21, x22, x23>>

CoroSpec == CoroInit /\ [][CoroNext]_coroVars

(* The observers of a join handle are interchangeable. *)
ObserverSymmetry == Permutations(Observers)

-----------------------------------------------------------------------------
(* A callback of a cancellation token never runs with destroyed captures,   *)
(* on two threads at once or from a list it has left.                       *)
CallbacksRunAlive == used = "cancel_token" => Tokens!RunsAlive

(* When unregister() has returned, the callback is over or will never run;  *)
(* and a link that the child has detached does not cancel the child.        *)
UnregisterIsFinal ==
    [][used = "cancel_token" => Tokens!UnregisterIsFinal /\ Tokens!ClosedGateHolds]_coroVars

(* Whoever joins is resumed once, alive, and only when those it joins are   *)
(* done: the owner of a group or scope, the observers of a join handle (of  *)
(* which one may take the result), the caller of a combinator.              *)
JoinsAreExact ==
    /\ used = "task_group" => Groups!JoinIsExact
    /\ used = "join_handle" => Joins!ObserversAreExclusive /\ Joins!ObserversWakeOnce
    /\ used = "combinators" => Tsk!BranchesAreJoined

(* What a join, an observer, a handle or a combinator reports is what       *)
(* happened: no exception or failure is swallowed, the winner is the first, *)
(* and a result is never reported before it is there.                       *)
OutcomesAreHonest ==
    /\ used = "task_group" => Groups!NoSilentFailure
    /\ used = "join_handle" => Joins!ObservationsAreHonest
    /\ used = "task_handle" => Tsk!HandleIsHonest
    /\ used = "combinators" => Tsk!AnswersAreRight /\ Tsk!NoExceptionIsSwallowed

(* Nobody waits for what has happened, and no permit of a group is lost or  *)
(* invented: registering as a waiter and completing do not miss each other. *)
NobodyIsForgotten ==
    /\ used = "task_group" => Groups!LimitHolds
    /\ used = "join_handle" => Joins!NobodyIsForgotten
    /\ used = "task_handle" => Tsk!NobodyMissesTheOutcome

(* The current frame of a worker is the one that runs there, cancellation   *)
(* reaches every frame awaited below a cancelled one unless it is isolated, *)
(* and a generator delivers each value once.                                *)
FramesAreInContext ==
    used = "task" =>
        /\ Tsk!CurrentFrameIsRunning
        /\ Tsk!CancellationReachesDown
        /\ Tsk!GeneratorsDeliver

=============================================================================
