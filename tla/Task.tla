-------------------------------- MODULE Task --------------------------------
(***************************************************************************)
(* This module holds tasks: frames and their context, the handle of a      *)
(* spawned task and the combinators.  Its parts have their own variables;  *)
(* modules that use one of them leave the others out.                      *)
(***************************************************************************)
EXTENDS CompletionWaiter, Naturals, Sequences, FiniteSets

-----------------------------------------------------------------------------
(***************************************************************************)
(* coro::task, coro::generator and promise_base: frames that create, await *)
(* and resume each other on threads between which they migrate.  Each      *)
(* thread has a current_frame_, which finds the execution context (and     *)
(* with it the cancel token) of the running code.  A frame is created,     *)
(* awaited and destroyed once; a generator is asked for values repeatedly. *)
(* An exception goes the way of the result and is not told apart from it.  *)
(***************************************************************************)
CONSTANTS Workers,      \* threads
          TaskFrames,   \* frames of task<T>
          Isolated,     \* those among them with an isolated context
          Generators    \* frames of generator<T>

Frame == TaskFrames \cup Generators
NoFrame == "no frame"
MaxYields == 2

VARIABLES
    life,        \* "none", "created", "running", "suspended", "ready", "calling", "done", "dead"
    maker,       \* the frame that holds the object
    parent,      \* parent_
    cont,        \* continuation_ or consumer_
    context,     \* execution_context_: the frame it was made for
    cancelled,   \* the contexts that were cancelled
    links,       \* pairs of contexts: cancellation goes from the first to the second
    pin,         \* the worker an operation of a context is pinned to
    current,     \* current_frame_
    runs,        \* the frame whose code the thread executes
    slot, sent, got  \* value_, how many values were yielded, what the consumer has seen

taskVars == <<life, maker, parent, cont, context, cancelled, links, pin, current, runs, slot, sent, got>>
moveVars == <<maker, context, cancelled, links, pin, slot, sent, got>>

TaskInit ==
    /\ life = [f \in Frame |-> "none"]
    /\ maker = [f \in Frame |-> NoFrame]
    /\ parent = [f \in Frame |-> NoFrame] /\ cont = [f \in Frame |-> NoFrame]
    /\ context = [f \in Frame |-> NoFrame]
    /\ cancelled = {} /\ links = {}
    /\ pin = [f \in Frame |-> 0]
    /\ current = [w \in Workers |-> NoFrame] /\ runs = [w \in Workers |-> NoFrame]
    /\ slot = [f \in Frame |-> 0] /\ sent = [f \in Frame |-> 0] /\ got = [f \in Frame |-> <<>>]

(* The destructor of a frame destroys the objects it holds. *)
Held(f) == {g \in Frame : g = f \/ maker[g] = f
                          \/ (maker[g] # NoFrame /\ maker[maker[g]] = f)}

(* The constructor of the promise makes f the current frame, with the one    *)
(* before as its parent; the constructor of task or generator undoes it.     *)
leave_creation_context(w, f) ==
    /\ UNCHANGED current
    /\ parent' = [parent EXCEPT ![f] = NoFrame]

(* promise_base: a nested task gets its context when it is awaited. *)
Create(w, f) ==
    /\ life[f] = "none" /\ life' = [life EXCEPT ![f] = "created"]
    /\ maker' = [maker EXCEPT ![f] = runs[w]]
    /\ runs[w] # NoFrame => ~\E g \in Frame : maker[g] = runs[w] /\ life[g] = "created"
    /\ runs[w] = NoFrame => f \in TaskFrames \ Isolated
    /\ leave_creation_context(w, f)
    /\ context' = [context EXCEPT ![f] = IF current[w] = NoFrame \/ f \in Generators THEN f ELSE NoFrame]
    /\ UNCHANGED <<cont, cancelled, links, pin, runs, slot, sent, got>>

(* A task that was created outside of any is given to the scheduler. *)
Spawn(f) ==
    /\ life[f] = "created" /\ maker[f] = NoFrame
    /\ life' = [life EXCEPT ![f] = "ready"]
    /\ UNCHANGED <<maker, parent, cont, context, cancelled, links, pin, current, runs, slot, sent, got>>

(* run_task, with the scope that makes the resumed frame the current one; a   *)
(* consumer that was scheduled takes the value out in its await_resume.       *)
run_task(w, f) ==
    /\ runs[w] = NoFrame /\ life[f] = "ready"
    /\ pin[context[f]] \in {0, w}
    /\ life' = [life EXCEPT ![f] = "running"]
    /\ runs' = [runs EXCEPT ![w] = f]
    /\ current' = [current EXCEPT ![w] = f]
    /\ slot' = [g \in Frame |-> IF cont[g] = f THEN 0 ELSE slot[g]]
    /\ got' = [g \in Frame |-> IF cont[g] = f /\ slot[g] # 0 THEN Append(got[g], slot[g]) ELSE got[g]]
    /\ UNCHANGED <<parent, cont, maker, context, cancelled, links, pin, sent>>

Leave(w) == runs' = [runs EXCEPT ![w] = NoFrame] /\ current' = [current EXCEPT ![w] = NoFrame]

(* The running frame waits for something that is not a frame; the operation  *)
(* may pin its context to this worker until it completes.                    *)
Suspend(w) ==
    /\ runs[w] # NoFrame
    /\ life' = [life EXCEPT ![runs[w]] = "suspended"]
    /\ \E p \in {0, w} : pin' = [pin EXCEPT ![context[runs[w]]] = p]
    /\ Leave(w)
    /\ UNCHANGED <<maker, parent, cont, context, cancelled, links, slot, sent, got>>

Complete(f) ==
    /\ life[f] = "suspended"
    /\ life' = [life EXCEPT ![f] = "ready"]
    /\ UNCHANGED <<maker, parent, cont, context, cancelled, links, pin, current, runs, slot, sent, got>>

Unpin(f) ==
    /\ pin[f] # 0 /\ life[f] = "running"
    /\ pin' = [pin EXCEPT ![f] = 0]
    /\ UNCHANGED <<life, maker, parent, cont, context, cancelled, links, current, runs, slot, sent, got>>

(* bind_isolated_direct_await_context: a context of its own that cancellation *)
(* reaches from the parent's.                                                 *)
bind_isolated_direct_await_context(f, p) ==
    /\ context' = [context EXCEPT ![f] = f]
    /\ links' = links \cup {<<context[p], f>>}
    /\ cancelled' = IF context[p] \in cancelled THEN cancelled \cup {f} ELSE cancelled

(* Mutant of bind_direct_await_context: an awaited task keeps a context of   *)
(* its own.                                                                  *)
MutBind_direct_await_context(f, p) ==
    /\ context' = [context EXCEPT ![f] = f]
    /\ UNCHANGED <<links, cancelled>>

bind_direct_await_context(f, p) ==
    /\ context' = [context EXCEPT ![f] = context[p]]
    /\ UNCHANGED <<links, cancelled>>

(* await_suspend of a task. *)
await_suspend(w, f) ==
    /\ runs[w] # NoFrame /\ maker[f] = runs[w] /\ life[f] = "created" /\ f \in TaskFrames
    /\ IF f \in Isolated THEN bind_isolated_direct_await_context(f, runs[w])
       ELSE bind_direct_await_context(f, runs[w])
    /\ cont' = [cont EXCEPT ![f] = runs[w]]
    /\ parent' = [parent EXCEPT ![f] = runs[w]]
    /\ life' = [life EXCEPT ![runs[w]] = "calling", ![f] = "running"]
    /\ current' = [current EXCEPT ![w] = f]
    /\ runs' = [runs EXCEPT ![w] = f]
    /\ UNCHANGED <<maker, pin, slot, sent, got>>

(* transfer_to_continuation: the continuation runs here, unless an operation  *)
(* of its context is pinned to another worker.                                *)
transfer_to_continuation(w, f, g, after) ==
    IF pin[context[g]] \in {0, w}
    THEN /\ life' = [after EXCEPT ![g] = "running"]
         /\ runs' = [runs EXCEPT ![w] = g]
         /\ current' = [current EXCEPT ![w] = IF @ = f THEN parent[f] ELSE @]
    ELSE life' = [after EXCEPT ![g] = "ready"] /\ Leave(w)

(* final_awaiter and, in the parent, await_resume: the child leaves the       *)
(* frame context, is detached and destroyed with what it holds.               *)
Finish(w) ==
    LET f == runs[w] g == cont[f] IN
    /\ f \in TaskFrames /\ g # NoFrame
    /\ transfer_to_continuation(w, f, g, [h \in Frame |-> IF h \in Held(f) THEN "dead" ELSE life[h]])
    /\ parent' = [parent EXCEPT ![f] = NoFrame]
    /\ UNCHANGED <<maker, cont, context, cancelled, links, pin, slot, sent, got>>

(* A detached task destroys itself. *)
FinishRoot(w) ==
    /\ runs[w] # NoFrame /\ cont[runs[w]] = NoFrame
    /\ life' = [h \in Frame |-> IF h \in Held(runs[w]) THEN "dead" ELSE life[h]]
    /\ pin' = [pin EXCEPT ![context[runs[w]]] = 0]
    /\ Leave(w)
    /\ UNCHANGED <<maker, parent, cont, context, cancelled, links, slot, sent, got>>

-----------------------------------------------------------------------------
(* generator::next: the producer runs as a frame called by the consumer. *)
next(w, f) ==
    /\ f \in Generators /\ runs[w] # NoFrame /\ maker[f] = runs[w]
    /\ life[f] \in {"created", "yielded"}
    /\ cont' = [cont EXCEPT ![f] = runs[w]]
    /\ parent' = [parent EXCEPT ![f] = current[w]]
    /\ IF pin[context[f]] \in {0, w}
       THEN /\ life' = [life EXCEPT ![runs[w]] = "calling", ![f] = "running"]
            /\ current' = [current EXCEPT ![w] = f]
            /\ runs' = [runs EXCEPT ![w] = f]
       ELSE life' = [life EXCEPT ![runs[w]] = "calling", ![f] = "ready"] /\ Leave(w)
    /\ UNCHANGED moveVars

(* yield_value stores the value and transfers to the consumer, whose          *)
(* await_resume takes it out.                                                 *)
yield_value(w) ==
    LET f == runs[w] g == cont[f] IN
    /\ f \in Generators /\ sent[f] < MaxYields
    /\ sent' = [sent EXCEPT ![f] = @ + 1]
    /\ transfer_to_continuation(w, f, g, [life EXCEPT ![f] = "yielded"])
    /\ IF runs'[w] = g
       THEN slot' = [slot EXCEPT ![f] = 0] /\ got' = [got EXCEPT ![f] = Append(@, sent[f] + 1)]
       ELSE slot' = [slot EXCEPT ![f] = sent[f] + 1] /\ UNCHANGED got
    /\ UNCHANGED <<maker, parent, cont, context, cancelled, links, pin>>

FinishGenerator(w) ==
    LET f == runs[w] g == cont[f] IN
    /\ f \in Generators
    /\ transfer_to_continuation(w, f, g,
         [h \in Frame |-> IF h = f THEN "done" ELSE IF h \in Held(f) THEN "dead" ELSE life[h]])
    /\ UNCHANGED <<maker, parent, cont, context, cancelled, links, pin, slot, sent, got>>

(* request_cancel of the root's context, and what is linked to it. *)
request_cancel(c) ==
    /\ c \in TaskFrames /\ context[c] = c /\ c \notin cancelled
    /\ cancelled' = cancelled \cup {c} \cup {d \in Frame : <<c, d>> \in links}
                     \cup {e \in Frame : \E d \in Frame : <<c, d>> \in links /\ <<d, e>> \in links}
    /\ UNCHANGED <<life, maker, parent, cont, context, links, pin, current, runs, slot, sent, got>>

(* The owner destroys a suspended root: the whole chain below it goes. *)
DestroyRoot(f) ==
    /\ maker[f] = NoFrame /\ life[f] \in {"created", "suspended", "calling"}
    /\ \A g \in Held(f) : life[g] \in {"none", "created", "suspended", "calling", "yielded", "done", "dead"}
    /\ life' = [h \in Frame |-> IF h \in Held(f) THEN "dead" ELSE life[h]]
    /\ UNCHANGED <<maker, parent, cont, context, cancelled, links, pin, current, runs, slot, sent, got>>

TaskNext ==
    \/ \E w \in Workers :
        \/ Suspend(w) \/ Finish(w) \/ FinishRoot(w) \/ yield_value(w) \/ FinishGenerator(w)
        \/ \E f \in Frame : Create(w, f) \/ run_task(w, f) \/ await_suspend(w, f) \/ next(w, f)
    \/ \E f \in Frame : Spawn(f) \/ Complete(f) \/ Unpin(f) \/ request_cancel(f) \/ DestroyRoot(f)

TaskSpec == TaskInit /\ [][TaskNext]_taskVars

-----------------------------------------------------------------------------
(* The current frame of a thread is the one whose code it executes, on        *)
(* whatever thread that frame was created or suspended, and never one that    *)
(* was destroyed.                                                             *)
CurrentFrameIsRunning ==
    \A w \in Workers : current[w] = runs[w] /\ (current[w] # NoFrame => life[current[w]] = "running")

(* What a task awaits is reached by the cancellation of the task: it shares   *)
(* its context or is linked to it, at any depth; a generator has its own.     *)
CancellationReachesDown ==
    \A f \in TaskFrames : cont[f] # NoFrame /\ life[f] \in {"running", "suspended", "ready", "calling"} =>
        (context[cont[f]] \in cancelled => context[f] \in cancelled)

(* A consumer sees every value once and in the order they were yielded.       *)
GeneratorsDeliver ==
    \A f \in Generators : /\ got[f] = [i \in 1..Len(got[f]) |-> i]
                          /\ life[f] = "running" => Len(got[f]) = sent[f]

-----------------------------------------------------------------------------
(***************************************************************************)
(* coro::detail::task_state and coro::task_handle: a producer publishes    *)
(* one of four outcomes under mutex_, then wakes the registered coroutine  *)
(* and the threads in wait(); consumers poll, block, await or give up.     *)
(***************************************************************************)
CONSTANTS Consumers

Done == {"completed", "logic_failed", "exception", "cancelled"}

VARIABLES
    status, payload,   \* status_; which of value_, failure_, exception_ is filled
    producer, wake,    \* where the producer is, and its lease
    th_waiter,         \* waiter_
    th_at, th_result,  \* where a consumer is, what it got
    th_handed,         \* how often it was scheduled
    notified,          \* consumers blocked in cv_.wait that have been woken
    cancel_wanted      \* cancel_requested_

thVars == <<status, payload, producer, wake, th_waiter, th_at, th_result, th_handed, notified, cancel_wanted>>

NoResult == [status |-> "none", payload |-> "none", awaited |-> FALSE]

ThInit ==
    /\ status = "pending" /\ payload = "none"
    /\ producer = "running" /\ wake = [to |-> Nobody, generation |-> 0]
    /\ th_waiter = EmptySlot
    /\ th_at = [c \in Consumers |-> "new"] /\ th_result = [c \in Consumers |-> NoResult]
    /\ th_handed = [c \in Consumers |-> 0]
    /\ notified = {} /\ cancel_wanted = FALSE

is_done == status \in Done

(* What is stored for each outcome. *)
Filled(s) == CASE s = "completed"    -> "value"
               [] s = "logic_failed" -> "failure"
               [] s = "exception"    -> "exception"
               [] s = "cancelled"    -> "none"

(* set_value, set_failure, set_exception, set_cancelled: the section under   *)
(* mutex_.                                                                   *)
set_outcome(s) ==
    /\ producer = "running" /\ producer' = "take"
    /\ s = "cancelled" => cancel_wanted
    /\ status' = s /\ payload' = Filled(s)
    /\ UNCHANGED <<wake, th_waiter, th_at, th_result, th_handed, notified, cancel_wanted>>

(* notify_waiter, then cv_.notify_all. *)
TakeWake ==
    /\ producer = "take"
    /\ IF takes(th_waiter, TRUE)
       THEN /\ th_waiter' = take_if(th_waiter)
            /\ wake' = [to |-> th_waiter.waiter, generation |-> th_waiter.generation + 1]
            /\ producer' = "claim"
       ELSE producer' = "notify" /\ UNCHANGED <<th_waiter, wake>>
    /\ UNCHANGED <<status, payload, th_at, th_result, th_handed, notified, cancel_wanted>>

ClaimWake ==
    /\ producer = "claim" /\ producer' = "notify"
    /\ IF claims(th_waiter, wake.generation)
       THEN th_waiter' = claim(th_waiter) /\ th_handed' = [th_handed EXCEPT ![wake.to] = @ + 1]
       ELSE UNCHANGED <<th_waiter, th_handed>>
    /\ UNCHANGED <<status, payload, wake, th_at, th_result, notified, cancel_wanted>>

NotifyAll ==
    /\ producer = "notify" /\ producer' = "ended"
    /\ notified' = notified \cup {c \in Consumers : th_at[c] = "blocked"}
    /\ UNCHANGED <<status, payload, wake, th_waiter, th_at, th_result, th_handed, cancel_wanted>>

(* get_result, under mutex_: a copy of the stored outcome. *)
get_result == IF is_done THEN [status |-> status, payload |-> payload, awaited |-> FALSE]
              ELSE [status |-> "exception", payload |-> "not done", awaited |-> FALSE]

(* What wait() and wait_for() return is the status alone. *)
StatusOnly == [status |-> status, payload |-> "unread", awaited |-> FALSE]

Got(c, r) == th_result' = [th_result EXCEPT ![c] = r] /\ th_at' = [th_at EXCEPT ![c] = "returned"]
Go(c, where) == th_at' = [th_at EXCEPT ![c] = where] /\ UNCHANGED th_result

(* A consumer polls (get_result, try_get), or enters wait() or co_await. *)
Poll(c) ==
    /\ th_at[c] = "new" /\ Got(c, get_result)
    /\ UNCHANGED <<status, payload, producer, wake, th_waiter, th_handed, notified, cancel_wanted>>

wait(c) ==
    /\ th_at[c] = "new"
    /\ IF is_done THEN Got(c, StatusOnly) ELSE Go(c, "blocked")
    /\ UNCHANGED <<status, payload, producer, wake, th_waiter, th_handed, notified, cancel_wanted>>

(* cv_.wait returns on a notification; wait_for also after its time-out. *)
WaitReturns(c) ==
    /\ th_at[c] = "blocked"
    /\ \/ c \in notified /\ is_done /\ Got(c, StatusOnly)
       \/ Got(c, StatusOnly)
    /\ UNCHANGED <<status, payload, producer, wake, th_waiter, th_handed, notified, cancel_wanted>>

await(c) ==
    /\ th_at[c] = "new"
    /\ Go(c, IF is_done THEN "resumed" ELSE "register")
    /\ UNCHANGED <<status, payload, producer, wake, th_waiter, th_handed, notified, cancel_wanted>>

set_waiter(c) ==
    /\ th_at[c] = "register"
    /\ IF registers(th_waiter, is_done)
       THEN th_waiter' = register_waiter(th_waiter, c) /\ Go(c, "suspended")
       ELSE Go(c, "resumed") /\ UNCHANGED th_waiter
    /\ UNCHANGED <<status, payload, producer, wake, th_handed, notified, cancel_wanted>>

(* await_resume, under mutex_: a value is moved out of the shared state, so   *)
(* that whoever looks later finds a moved-from one.                           *)
await_resume(c) ==
    /\ th_at[c] = "resumed" \/ (th_at[c] = "suspended" /\ th_handed[c] = 1)
    /\ Got(c, [get_result EXCEPT !.awaited = TRUE])
    /\ payload' = IF status = "completed" THEN "moved" ELSE payload
    /\ th_waiter' = remove(th_waiter, c)
    /\ UNCHANGED <<status, producer, wake, th_handed, notified, cancel_wanted>>

(* The awaiter's frame is destroyed. *)
DropAwaiter(c) ==
    /\ th_at[c] = "suspended" /\ th_handed[c] = 0
    /\ th_waiter' = remove(th_waiter, c)
    /\ Go(c, "gone")
    /\ UNCHANGED <<status, payload, producer, wake, th_handed, notified, cancel_wanted>>

handle_request_cancel ==
    /\ ~cancel_wanted /\ cancel_wanted' = TRUE
    /\ UNCHANGED <<status, payload, producer, wake, th_waiter, th_at, th_result, th_handed, notified>>

Producer == (\E s \in Done : set_outcome(s)) \/ TakeWake \/ ClaimWake \/ NotifyAll
Consumer(c) == set_waiter(c) \/ await_resume(c)

ThNext ==
    \/ Producer \/ handle_request_cancel
    \/ \E c \in Consumers : Poll(c) \/ wait(c) \/ WaitReturns(c) \/ await(c) \/ Consumer(c) \/ DropAwaiter(c)

ThSpec == ThInit /\ [][ThNext]_thVars

-----------------------------------------------------------------------------
(* A consumer gets the one outcome; only polling, a time-out and a second    *)
(* awaiter end before the task is done.  A failure or exception is copied to  *)
(* everyone; the value is moved to one awaiter, and only after that does      *)
(* anybody find it moved-from.                                                *)
HandleIsHonest ==
    LET owners == {c \in Consumers : th_result[c].awaited /\ th_result[c].payload = "value"}
    IN  /\ Cardinality(owners) <= 1
        /\ \A c \in Consumers :
            /\ th_handed[c] <= 1
            /\ th_at[c] = "gone" => th_handed[c] = 0
            /\ th_result[c] # NoResult =>
                 LET r == th_result[c]
                 IN  CASE r.payload = "not done" -> r.status = "exception"
                       [] r.payload = "unread"   -> r.status \in {"pending", status}
                       [] r.payload = "moved"    -> r.status = "completed" /\ owners \ {c} # {}
                       [] OTHER                  -> r.status = status /\ r.payload = Filled(status)

(* Whoever is registered or blocked when the outcome is stored will be woken. *)
NobodyMissesTheOutcome ==
    \A c \in Consumers : is_done =>
        /\ th_at[c] = "blocked" => c \in notified \/ producer \in {"take", "claim", "notify"}
        /\ th_at[c] = "suspended" => th_handed[c] = 1 \/ producer \in {"take", "claim"}

-----------------------------------------------------------------------------
(***************************************************************************)
(* when_all, when_any and with_timeout: branches are launched into a task  *)
(* group, run concurrently, fail or are cancelled together, and are joined *)
(* before the combinator returns.  The group is what TaskGroup shows it to *)
(* be: the first failure cancels the siblings, a child that was cancelled  *)
(* before it started does not run, join() waits for all and rethrows the   *)
(* first failure.                                                          *)
(***************************************************************************)
CONSTANTS Branches      \* 1..n; with_timeout: 1 is the callable, 2 the timer

Timer == 2
NoWinner == 0

VARIABLES
    comb,               \* which combinator, "none" before the call
    caller, launched,   \* where it is, and how many branches the group has accepted
    branch,             \* where each branch is
    group_cancelled, parent_cancelled,
    winner, won,        \* winner_index_ with winner_claimed_; result_ or exception_
    first, failures,    \* the failures of the group
    reported,           \* what the unhandled-exception handler was given
    answer              \* what the combinator returned or threw

combVars == <<comb, caller, launched, branch, group_cancelled, parent_cancelled, winner, won, first,
              failures, reported, answer>>

CombInit ==
    /\ comb = "none" /\ caller = "idle" /\ launched = 0
    /\ branch = [b \in Branches |-> "new"]
    /\ group_cancelled = FALSE /\ parent_cancelled = FALSE
    /\ winner = NoWinner /\ won = "nothing"
    /\ first = NoWinner /\ failures = {} /\ reported = {}
    /\ answer = "none"

Call(k) ==
    /\ comb = "none" /\ comb' = k
    /\ caller' = "launching"
    /\ UNCHANGED <<launched, branch, group_cancelled, parent_cancelled, winner, won, first, failures,
                   reported, answer>>

Offered == IF comb = "timeout" THEN {1, Timer} ELSE Branches

(* spawn_when_all_children, spawn_when_any_children: one after the other; the *)
(* transfer of a callable may throw, which cancels the group.                 *)
Launch ==
    /\ caller = "launching"
    /\ \/ /\ launched < Cardinality(Offered)
          /\ launched' = launched + 1
          /\ branch' = [branch EXCEPT ![launched + 1] = "queued"]
          /\ UNCHANGED <<caller, group_cancelled, answer>>
       \/ /\ launched < Cardinality(Offered)
          /\ caller' = "joining" /\ answer' = "launch failure" /\ group_cancelled' = TRUE
          /\ UNCHANGED <<launched, branch>>
       \/ /\ launched = Cardinality(Offered) /\ caller' = "joining"
          /\ UNCHANGED <<launched, branch, group_cancelled, answer>>
    /\ UNCHANGED <<comb, parent_cancelled, winner, won, first, failures, reported>>

(* Cancellation of the caller reaches the group. *)
CancelParent ==
    /\ ~parent_cancelled /\ parent_cancelled' = TRUE
    /\ group_cancelled' = TRUE
    /\ UNCHANGED <<comb, caller, launched, branch, winner, won, first, failures, reported, answer>>

(* A branch runs, unless it is cancelled before; the timer of with_timeout    *)
(* returns "expired", or "was cancelled" when it is woken by a cancellation.  *)
RunBranch(b) ==
    /\ \/ branch[b] = "queued" /\ branch' \in {[branch EXCEPT ![b] = s] : s \in
            {"running"} \cup (IF group_cancelled THEN {"skipped"} ELSE {})}
       \/ branch[b] = "running" /\ branch' \in {[branch EXCEPT ![b] = s] : s \in
            IF comb = "timeout" /\ b = Timer
            THEN {"expired"} \cup (IF group_cancelled THEN {"was cancelled"} ELSE {})
            ELSE {"value", "threw"}}
    /\ UNCHANGED <<comb, caller, launched, group_cancelled, parent_cancelled, winner, won, first,
                   failures, reported, answer>>

(* The end of a when_all branch: its slot is filled, or the group stores the  *)
(* failure and cancels the siblings.                                          *)
LeaveAll(b) ==
    /\ comb = "all" /\ branch[b] \in {"value", "threw"}
    /\ branch' = [branch EXCEPT ![b] = IF branch[b] = "value" THEN "filled" ELSE "failed"]
    /\ IF branch[b] = "threw"
       THEN /\ failures' = failures \cup {b}
            /\ first' = IF first = NoWinner THEN b ELSE first
            /\ group_cancelled' = TRUE
       ELSE UNCHANGED <<failures, first, group_cancelled>>
    /\ UNCHANGED <<comb, caller, launched, parent_cancelled, winner, won, reported, answer>>

(* resolve and resolve_exception: the compare-exchange decides the winner; a  *)
(* loser's exception goes to the handler.  Storing the result may throw.      *)
resolve(b) ==
    /\ comb \in {"any", "timeout"} /\ branch[b] \in {"value", "threw", "expired", "was cancelled"}
    /\ IF winner = NoWinner
       THEN /\ winner' = b /\ won' \in {branch[b], "threw"}
            /\ branch' = [branch EXCEPT ![b] = "claimed"]
            /\ UNCHANGED reported
       ELSE /\ reported' = IF branch[b] = "threw" THEN reported \cup {b} ELSE reported
            /\ branch' = [branch EXCEPT ![b] = "lost"]
            /\ UNCHANGED <<winner, won>>
    /\ UNCHANGED <<comb, caller, launched, group_cancelled, parent_cancelled, first, failures, answer>>

(* The winner cancels the others, and leaves. *)
CancelLosers(b) ==
    /\ branch[b] = "claimed" /\ branch' = [branch EXCEPT ![b] = "won"]
    /\ group_cancelled' = TRUE
    /\ UNCHANGED <<comb, caller, launched, parent_cancelled, winner, won, first, failures, reported, answer>>

Ended == {"new", "skipped", "filled", "failed", "lost", "won"}

Join ==
    /\ caller = "joining" /\ \A b \in Branches : branch[b] \in Ended
    /\ caller' = "joined"
    /\ UNCHANGED <<comb, launched, branch, group_cancelled, parent_cancelled, winner, won, first,
                   failures, reported, answer>>

(* report_secondary_when_all_failures *)
report_secondary(primary) == reported \cup (failures \ {primary})

(* The end of when_all. *)
ReturnAll ==
    /\ comb = "all" /\ caller = "joined" /\ caller' = "returned"
    /\ reported' = report_secondary(IF answer = "launch failure" THEN NoWinner ELSE first)
    /\ answer' = CASE answer # "none"    -> answer
                   [] answer = "none" /\ first # NoWinner -> "failure"
                   [] answer = "none" /\ first = NoWinner ->
                        IF \A b \in Branches : branch[b] = "filled" THEN "values" ELSE "combinator_cancelled"
    /\ UNCHANGED <<comb, launched, branch, group_cancelled, parent_cancelled, winner, won, first, failures>>

take_timeout_branch(r) == IF r = "was cancelled" THEN "combinator_cancelled" ELSE "timed_out"

(* The end of when_any, and what with_timeout makes of it. *)
ReturnAny ==
    /\ comb \in {"any", "timeout"} /\ caller = "joined" /\ caller' = "returned"
    /\ answer' = CASE answer # "none"                         -> answer
                   [] answer = "none" /\ winner = NoWinner    -> "combinator_cancelled"
                   [] answer = "none" /\ winner # NoWinner /\ won = "threw" -> "failure"
                   [] answer = "none" /\ winner # NoWinner /\ won # "threw" ->
                        IF comb = "timeout" /\ winner = Timer THEN take_timeout_branch(won) ELSE "value"
    /\ UNCHANGED <<comb, launched, branch, group_cancelled, parent_cancelled, winner, won, first,
                   failures, reported>>

CombNext ==
    \/ \E k \in {"all", "any", "timeout"} : Call(k)
    \/ Launch \/ CancelParent \/ Join \/ ReturnAll \/ ReturnAny
    \/ \E b \in Branches : RunBranch(b) \/ LeaveAll(b) \/ resolve(b) \/ CancelLosers(b)

CombSpec == CombInit /\ [][CombNext]_combVars

-----------------------------------------------------------------------------
(* Nothing a branch captured is used after the combinator has returned.       *)
BranchesAreJoined == caller = "returned" => \A b \in Branches : branch[b] \in Ended

(* The answer is the winner's and stays it, all values are there, a time-out  *)
(* has expired, and a cancelled combinator had a cancelled caller.            *)
AnswersAreRight ==
    caller = "returned" =>
        /\ answer = "values" => \A b \in Branches : branch[b] = "filled"
        /\ answer = "value" => branch[winner] = "won" /\ won \in {"value", "expired", "was cancelled"}
        /\ answer = "timed_out" => branch[Timer] = "won" /\ won = "expired"
        /\ answer = "combinator_cancelled" => parent_cancelled
        /\ answer = "failure" => (comb = "all" /\ first # NoWinner) \/ won = "threw"
        /\ Cardinality({b \in Branches : branch[b] = "won"}) <= 1

(* No exception of a branch is swallowed: it is thrown to the caller or given *)
(* to the handler.  A launch failure of when_any takes precedence.            *)
NoExceptionIsSwallowed ==
    caller = "returned" /\ answer # "launch failure" =>
        \A b \in failures : b \in reported \/ (answer = "failure" /\ first = b)

=============================================================================
