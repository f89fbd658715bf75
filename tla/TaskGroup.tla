----------------------------- MODULE TaskGroup -----------------------------
(***************************************************************************)
(* coro::task_group and coro::task_scope: children are spawned into a      *)
(* group by workers of its scheduler and by other threads, run under a     *)
(* limit on the number of concurrent bodies, fail, are cancelled together  *)
(* and leave; the owner joins them or is destroyed before.  Sections under *)
(* task_group::mutex_, children_mutex_, failures_mutex_ and the lock of    *)
(* the waiter slot are one step each.  The semaphore that enforces the     *)
(* limit is the permit pool that sync::semaphore implements.               *)
(***************************************************************************)
EXTENDS CompletionWaiter, FiniteSets

CONSTANTS Children,  \* the children that may be spawned
          Limits     \* the values of max_concurrency; 0 means no limit

VARIABLES
    config,       \* options_ and whether the group belongs to a task_scope
    draining,     \* the scheduler drains for a shutdown: only workers may spawn
    accepting,    \* accepting_
    owner,        \* where the owner of the group is
    handed,       \* how often the owner's handle was given to the scheduler
    slot,         \* all_done_waiter_
    pc,           \* where each child is
    lease,        \* the lease on the owner's wake that a child holds
    outstanding,  \* outstanding_children_
    owns,         \* the children with owns_permit
    permits,      \* permits_->count()
    cancelled,    \* the group's cancellation source was cancelled
    told,         \* the children whose own token is cancelled
    posted,       \* a cancellation was posted to the scheduler by a thread
    first,        \* first_failure_
    failures,     \* failures_
    threw,        \* the children whose body threw
    report        \* the failures the join or the scope has thrown

state == <<draining, accepting, owner, handed, slot, pc, lease, outstanding, owns,
           permits, cancelled, told, posted, first, failures, threw, report>>
vars == <<config, state>>

Config == [fail_fast : BOOLEAN, limit : Limits, scope : BOOLEAN]

NoFailure == "none"

Init ==
    /\ config \in Config
    /\ draining = FALSE
    /\ accepting = TRUE
    /\ owner = IF config.scope THEN "body" ELSE "open"
    /\ handed = 0
    /\ slot = EmptySlot
    /\ pc = [c \in Children |-> "new"]
    /\ lease = [c \in Children |-> 0]
    /\ outstanding = 0
    /\ owns = {}
    /\ permits = config.limit
    /\ cancelled = FALSE
    /\ told = {}
    /\ posted = FALSE
    /\ first = NoFailure
    /\ failures = {}
    /\ threw = {}
    /\ report = {}

Goto(c, where) == pc' = [pc EXCEPT ![c] = where]

cancelVars == <<cancelled, posted>>
failureVars == <<first, failures>>
ownerVars == <<accepting, owner, handed, slot, report>>

(* Mutant of append_failure: only the vector keeps the failure. *)
MutAppendFailure(f) ==
    /\ first' = first
    /\ failures' \in {failures, failures \cup {f}}

(* append_failure: the vector may fail to grow, the first failure is kept. *)
append_failure(f) ==
    /\ first' = IF first = NoFailure THEN f ELSE first
    /\ failures' \in {failures, failures \cup {f}}

(* store_failure returns whether the siblings have to be cancelled. *)
CancelsSiblings == config.fail_fast /\ first = NoFailure

(* request_cancel on a worker cancels at once; another thread posts it to   *)
(* the scheduler, which rejects it once it is shutting down.                *)
Rejected(by) == by = "thread" /\ draining

request_cancel(by) ==
    IF by = "worker"
    THEN cancelled' = TRUE /\ UNCHANGED posted
    ELSE posted' = (posted \/ ~draining) /\ UNCHANGED cancelled

(* request_cancel_noexcept keeps the rejection as a failure of the group. *)
request_cancel_noexcept(by) ==
    /\ request_cancel(by)
    /\ IF Rejected(by) THEN append_failure("dispatch") ELSE UNCHANGED failureVars

-----------------------------------------------------------------------------
(* spawn: the child is registered and offered to the scheduler under        *)
(* mutex_; a rejected one is destroyed, which takes it off the count again. *)
spawn(c, by) ==
    /\ accepting /\ pc[c] = "new"
    /\ IF Rejected(by)
       THEN /\ append_failure(c)
            /\ Goto(c, IF CancelsSiblings THEN "rejected" ELSE "done")
            /\ UNCHANGED <<outstanding, told>>
       ELSE /\ outstanding' = outstanding + 1
            /\ told' = IF cancelled THEN told \cup {c} ELSE told
            /\ Goto(c, "queued")
            /\ UNCHANGED failureVars
    /\ UNCHANGED <<draining, ownerVars, lease, owns, permits, cancelVars, threw>>

(* The thread whose child was rejected cancels the siblings after mutex_. *)
SpawnCancels(c) ==
    /\ pc[c] = "rejected"
    /\ request_cancel_noexcept("thread")
    /\ Goto(c, "done")
    /\ UNCHANGED <<draining, ownerVars, lease, outstanding, owns, permits, told, threw>>

(* run_child_ begins: a child that is already cancelled does not start. *)
Start(c) ==
    /\ pc[c] = "queued"
    /\ Goto(c, IF c \in told THEN "ending"
               ELSE IF config.limit = 0 THEN "body" ELSE "acquiring")
    /\ UNCHANGED <<draining, ownerVars, lease, outstanding, owns, permits,
                   cancelVars, told, failureVars, threw>>

(* acquire(token) ends with a permit or cancelled. *)
AcquirePermit(c) ==
    /\ pc[c] = "acquiring"
    /\ \/ /\ permits > 0
          /\ permits' = permits - 1
          /\ owns' = owns \cup {c}
          /\ Goto(c, "body")
       \/ /\ c \in told
          /\ Goto(c, "ending")
          /\ UNCHANGED <<permits, owns>>
    /\ UNCHANGED <<draining, ownerVars, lease, outstanding, cancelVars, told, failureVars, threw>>

(* What follows the body of a child. *)
Leave(c) == IF c \in owns THEN "releasing" ELSE "ending"

BodyReturns(c) ==
    /\ pc[c] = "body"
    /\ Goto(c, Leave(c))
    /\ UNCHANGED <<draining, ownerVars, lease, outstanding, owns, permits,
                   cancelVars, told, failureVars, threw>>

(* record_failure *)
BodyThrows(c) ==
    /\ pc[c] = "body"
    /\ threw' = threw \cup {c}
    /\ append_failure(c)
    /\ Goto(c, IF CancelsSiblings THEN "cancelling" ELSE Leave(c))
    /\ UNCHANGED <<draining, ownerVars, lease, outstanding, owns, permits, cancelVars, told>>

(* The child, on a worker, cancels its siblings. *)
CancelSiblings(c) ==
    /\ pc[c] = "cancelling"
    /\ request_cancel_noexcept("worker")
    /\ Goto(c, Leave(c))
    /\ UNCHANGED <<draining, ownerVars, lease, outstanding, owns, permits, told, threw>>

(* release_permit: release() needs memory when somebody waits; when it      *)
(* fails the permit is lost, and so all who wait for one are cancelled.     *)
release_permit(c) ==
    /\ pc[c] = "releasing"
    /\ owns' = owns \ {c}
    /\ \/ permits' = permits + 1 /\ Goto(c, "ending") /\ UNCHANGED failureVars
       \/ /\ \E d \in Children : pc[d] = "acquiring"
          /\ append_failure("release")
          /\ Goto(c, "cancelling")
          /\ UNCHANGED permits
    /\ UNCHANGED <<draining, ownerVars, lease, outstanding, cancelVars, told, threw>>

-----------------------------------------------------------------------------
(* The frame of the child is destroyed: it lets go of the group's state ... *)
Finish(c) ==
    /\ pc[c] = "ending"
    /\ Goto(c, "finishing")
    /\ UNCHANGED <<draining, ownerVars, lease, outstanding, owns, permits,
                   cancelVars, told, failureVars, threw>>

(* ... and only then leaves the count.                                      *)
child_finished(c) ==
    /\ pc[c] = "finishing"
    /\ outstanding' = outstanding - 1
    /\ Goto(c, IF outstanding = 1 THEN "last" ELSE "done")
    /\ UNCHANGED <<draining, ownerVars, lease, owns, permits, cancelVars, told, failureVars, threw>>

(* Mutant of TakeWaiter: the count is not looked at again. *)
MutTakeWaiter(c) ==
    /\ pc[c] = "last"
    /\ IF takes(slot, TRUE)
       THEN /\ slot' = take_if(slot)
            /\ lease' = [lease EXCEPT ![c] = slot'.generation]
            /\ Goto(c, "leased")
       ELSE Goto(c, "done") /\ UNCHANGED <<slot, lease>>
    /\ UNCHANGED <<draining, accepting, owner, handed, report, outstanding, owns, permits,
                   cancelVars, told, failureVars, threw>>

(* The child that found zero selects the waiter if the count is still zero: *)
(* others may have been spawned since.                                      *)
TakeWaiter(c) ==
    /\ pc[c] = "last"
    /\ IF takes(slot, outstanding = 0)
       THEN /\ slot' = take_if(slot)
            /\ lease' = [lease EXCEPT ![c] = slot'.generation]
            /\ Goto(c, "leased")
       ELSE Goto(c, "done") /\ UNCHANGED <<slot, lease>>
    /\ UNCHANGED <<draining, accepting, owner, handed, report, outstanding, owns, permits,
                   cancelVars, told, failureVars, threw>>

(* resume_task_group_join_waiter: claim the handle and schedule it. *)
resume_join_waiter(c) ==
    /\ pc[c] = "leased"
    /\ IF claims(slot, lease[c])
       THEN slot' = claim(slot) /\ handed' = handed + 1
       ELSE UNCHANGED <<slot, handed>>
    /\ lease' = [lease EXCEPT ![c] = 0]
    /\ Goto(c, "done")
    /\ UNCHANGED <<draining, accepting, owner, report, outstanding, owns, permits,
                   cancelVars, told, failureVars, threw>>

-----------------------------------------------------------------------------
(* begin_join_ and await_ready. *)
begin_join ==
    /\ owner = "open"
    /\ accepting' = FALSE
    /\ owner' = IF outstanding = 0 THEN "resuming" ELSE "suspending"
    /\ UNCHANGED <<draining, handed, slot, report, pc, lease, outstanding, owns, permits,
                   cancelVars, told, failureVars, threw>>

await_suspend ==
    /\ owner = "suspending"
    /\ IF registers(slot, outstanding = 0)
       THEN slot' = register_waiter(slot, "owner") /\ owner' = "suspended"
       ELSE owner' = "resuming" /\ UNCHANGED slot
    /\ UNCHANGED <<draining, accepting, handed, report, pc, lease, outstanding, owns, permits,
                   cancelVars, told, failureVars, threw>>

(* A worker resumes the owner. *)
ResumeJoin ==
    /\ handed > 0 /\ owner = "suspended"
    /\ handed' = handed - 1
    /\ owner' = "resuming"
    /\ UNCHANGED <<draining, accepting, slot, report, pc, lease, outstanding, owns, permits,
                   cancelVars, told, failureVars, threw>>

(* What join() throws, and task_scope after it when its body failed. *)
JoinFailures ==
    IF ~config.fail_fast /\ failures # {} THEN failures ELSE {first} \ {NoFailure}

finish_join ==
    /\ owner = "resuming"
    /\ owner' = "joined"
    /\ report' = IF config.fail_fast /\ report # {} THEN report ELSE report \cup JoinFailures
    /\ UNCHANGED <<draining, accepting, handed, slot, pc, lease, outstanding, owns, permits,
                   cancelVars, told, failureVars, threw>>

(* The body of a task_scope returns or throws; a failure cancels the group. *)
ScopeReturns ==
    /\ owner = "body"
    /\ owner' = "open"
    /\ UNCHANGED <<draining, accepting, handed, slot, report, pc, lease, outstanding, owns,
                   permits, cancelVars, told, failureVars, threw>>

ScopeThrows(by) ==
    /\ owner = "body"
    /\ owner' = "open"
    /\ report' = {"body"}
    /\ request_cancel_noexcept(by)
    /\ UNCHANGED <<draining, accepting, handed, slot, pc, lease, outstanding, owns,
                   permits, told, threw>>

(* The owner is destroyed, suspended in join() or before it: the waiter     *)
(* leaves the slot and the group's destructor cancels what still runs.      *)
Destroy(by) ==
    /\ owner \in {"body", "suspended"} \/ (owner = "open" /\ ~config.scope)
    /\ handed = 0
    /\ slot' = remove(slot, "owner")
    /\ accepting' = FALSE
    /\ owner' = "gone"
    /\ IF outstanding = 0 THEN UNCHANGED <<cancelVars, failureVars>>
                          ELSE request_cancel_noexcept(by)
    /\ UNCHANGED <<draining, handed, report, pc, lease, outstanding, owns, permits, told, threw>>

(* request_cancel() of the program, or of the token the group is linked to. *)
Cancel(by) ==
    /\ owner # "gone" /\ ~cancelled
    /\ request_cancel(by)
    /\ UNCHANGED <<draining, ownerVars, pc, lease, outstanding, owns, permits,
                   told, failureVars, threw>>

(* The posted task runs on a worker. *)
RunPosted ==
    /\ posted
    /\ posted' = FALSE
    /\ cancelled' = TRUE
    /\ UNCHANGED <<draining, ownerVars, pc, lease, outstanding, owns, permits,
                   told, failureVars, threw>>

(* The cancellation reaches the children one by one, through their links. *)
Propagate(c) ==
    /\ cancelled /\ c \notin told /\ pc[c] \notin {"new", "rejected", "done"}
    /\ told' = told \cup {c}
    /\ UNCHANGED <<draining, ownerVars, pc, lease, outstanding, owns, permits,
                   cancelVars, failureVars, threw>>

Shutdown ==
    /\ ~draining
    /\ draining' = TRUE
    /\ UNCHANGED <<ownerVars, pc, lease, outstanding, owns, permits,
                   cancelVars, told, failureVars, threw>>

Callers == {"worker", "thread"}

ChildRuns(c) ==
    \/ Start(c)
    \/ AcquirePermit(c)
    \/ BodyReturns(c) \/ BodyThrows(c)
    \/ CancelSiblings(c)
    \/ release_permit(c)
    \/ Finish(c) \/ child_finished(c) \/ TakeWaiter(c) \/ resume_join_waiter(c)
    \/ SpawnCancels(c)

OwnerRuns == await_suspend \/ ResumeJoin \/ finish_join

Operate ==
    \/ \E c \in Children : ChildRuns(c) \/ Propagate(c) \/ \E by \in Callers : spawn(c, by)
    \/ OwnerRuns \/ begin_join \/ ScopeReturns \/ RunPosted \/ Shutdown
    \/ \E by \in Callers : ScopeThrows(by) \/ Destroy(by) \/ Cancel(by)

Next == Operate /\ UNCHANGED config

(* Workers run what is scheduled, threads go on, and bodies end. *)
Fairness ==
    /\ \A c \in Children : WF_state(ChildRuns(c)) /\ WF_state(Propagate(c))
    /\ WF_state(OwnerRuns)
    /\ WF_state(RunPosted)

Spec == Init /\ [][Next]_vars /\ Fairness

-----------------------------------------------------------------------------
(* The children whose frame may still touch the state of the group. *)
Inside == {c \in Children : pc[c] \notin {"new", "rejected", "finishing", "last", "leased", "done"}}

(* join() goes on exactly once, when no child is left and none holds the    *)
(* group's state any more: child_finished may be overtaken by new children  *)
(* and by the destruction of the owner, and no claim may hand a handle to   *)
(* the scheduler that is not that of a suspended living owner.              *)
JoinIsExact ==
    /\ outstanding = Cardinality({c \in Children : c \in Inside \/ pc[c] = "finishing"})
    /\ owner \in {"resuming", "joined"} => outstanding = 0 /\ ~accepting
    /\ handed > 0 => handed = 1 /\ owner = "suspended" /\ outstanding = 0

(* max_concurrency bounds the bodies that run, and cancelled waits neither  *)
(* keep a permit nor invent one.                                            *)
LimitHolds ==
    config.limit # 0 =>
        /\ {c \in Children : pc[c] = "body"} \subseteq owns
        /\ Cardinality(owns) + permits <= config.limit
        /\ Cardinality(owns) + permits < config.limit => first # NoFailure

(* No failure is swallowed: a join or a scope that ends normally had no     *)
(* child whose body threw or that was rejected, and what it throws is the   *)
(* failure of somebody.                                                     *)
NoSilentFailure ==
    owner = "joined" =>
        /\ report = {} => threw = {} /\ first = NoFailure
        /\ report \subseteq failures \cup {first, "body"}

(* No join() waits: it returns although children are added, cancelled,      *)
(* starved of a lost permit or rejected by a scheduler that shuts down.     *)
Served == owner \notin {"suspending", "suspended", "resuming"}

=============================================================================
