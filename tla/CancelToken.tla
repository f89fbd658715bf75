---------------------------- MODULE CancelToken ----------------------------
(***************************************************************************)
(* coro::cancel_source, cancel_token, cancel_registration and the links    *)
(* from a parent task's token to its child (task_parent_registration).     *)
(* Threads call on_cancel(), cancel() and unregister(); a callback runs on *)
(* the thread that cancels and may itself cancel or unregister, so a       *)
(* thread has a stack of calls.  Sections under cancel_state::mutex are    *)
(* one step; the phase of a node is atomic.                                *)
(***************************************************************************)
EXTENDS Naturals, Sequences, SequencesExt

(* What a callback does: nothing, unregister a callback, cancel a source    *)
(* or, for the link from a parent task, cancel the child's source.          *)
CONSTANTS Threads, Sources, Callbacks,
          Bodies    \* what a callback may do

VARIABLES
    body, source,   \* what each callback does and the source it waits for
    cancelled,      \* the sources that are cancelled
    head,           \* head: the registered nodes of a source, newest first
    phase,          \* dispatch_phase
    identity,       \* dispatcher_identity
    payload,        \* the nodes whose callable has not been destroyed
    active,         \* the links whose gate is open
    handles,        \* the nodes whose registration the program holds
    stack           \* the calls each thread is in, innermost last

vars == <<body, source, cancelled, head, phase, identity, payload, active, handles, stack>>

NoDispatcher == "none"

Init ==
    /\ body \in [Callbacks -> Bodies]
    /\ source \in [Callbacks -> Sources]
    /\ cancelled = {}
    /\ head = [s \in Sources |-> <<>>]
    /\ phase = [c \in Callbacks |-> "new"]
    /\ identity = [c \in Callbacks |-> NoDispatcher]
    /\ payload = {}
    /\ active = {}
    /\ handles = {}
    /\ stack = [t \in Threads |-> <<>>]

IsLink(c) == body[c].op = "link"
Top(t) == Last(stack[t])
In(t, op) == stack[t] # <<>> /\ Top(t).op = op
Call(t, frame) == stack' = [stack EXCEPT ![t] = Append(@, frame)]
Return(t) == stack' = [stack EXCEPT ![t] = Front(@)]
Continue(t, frame) == stack' = [stack EXCEPT ![t] = Append(Front(@), frame)]

(* current_callback_dispatcher: the scope of the innermost callback. *)
Dispatcher(t) ==
    LET running == SelectSeq(stack[t], LAMBDA f : f.op = "dispatch")
    IN  IF running = <<>> THEN NoDispatcher ELSE Last(running).by

Running(c) == [op |-> "dispatch", c |-> c, by |-> c, called |-> FALSE]

-----------------------------------------------------------------------------
(* on_cancel: the callback is invoked at once if the source is cancelled. *)
on_cancel(t, c) ==
    LET s == source[c]
    IN  /\ stack[t] = <<>>
        /\ phase[c] = "new"
        /\ payload' = payload \cup {c}
        /\ active' = IF IsLink(c) THEN active \cup {c} ELSE active
        /\ IF s \in cancelled
           THEN /\ phase' = [phase EXCEPT ![c] = "invoking"]
                /\ Call(t, Running(c))
                /\ UNCHANGED <<head, handles>>
           ELSE /\ phase' = [phase EXCEPT ![c] = "registered"]
                /\ head' = [head EXCEPT ![s] = <<c>> \o @]
                /\ handles' = handles \cup {c}
                /\ UNCHANGED stack
        /\ UNCHANGED <<body, source, cancelled, identity>>

(* trigger: claim every registered callback and go through them.            *)
Triggered(s) == [op |-> "trigger", s |-> s, list |-> head[s]]

Trigger(s) ==
    LET claimed == {c \in ToSet(head[s]) : phase[c] = "registered"}
    IN  /\ s \notin cancelled
        /\ cancelled' = cancelled \cup {s}
        /\ head' = [head EXCEPT ![s] = <<>>]
        /\ phase' = [c \in Callbacks |-> IF c \in claimed THEN "claimed" ELSE phase[c]]
        /\ identity' = [c \in Callbacks |-> IF c \in claimed THEN s ELSE identity[c]]

cancel(t, s) ==
    /\ stack[t] = <<>>
    /\ Trigger(s) /\ Call(t, Triggered(s))
    /\ UNCHANGED <<body, source, payload, active, handles>>

(* Mutant of dispatch: a callback that was unregistered runs all the same. *)
MutDispatch(t) ==
    /\ In(t, "trigger")
    /\ Top(t).list # <<>>
    /\ LET c == Head(Top(t).list)
       IN  /\ phase' = [phase EXCEPT ![c] = "invoking"]
           /\ stack' = [stack EXCEPT ![t] =
                 Append(Front(@), [Top(t) EXCEPT !.list = Tail(@)])
                 \o <<[Running(c) EXCEPT !.by = Top(t).s]>>]
    /\ UNCHANGED <<body, source, cancelled, head, identity, payload, active, handles>>

(* dispatch of the next node of the list: it may have been unregistered. *)
dispatch(t) ==
    /\ In(t, "trigger")
    /\ Top(t).list # <<>>
    /\ LET c == Head(Top(t).list)
           rest == [Top(t) EXCEPT !.list = Tail(@)]
       IN  IF phase[c] \in {"registered", "claimed"}
           THEN /\ phase' = [phase EXCEPT ![c] = "invoking"]
                /\ stack' = [stack EXCEPT ![t] =
                     Append(Front(@), rest) \o <<[Running(c) EXCEPT !.by = Top(t).s]>>]
           ELSE Continue(t, rest) /\ UNCHANGED phase
    /\ UNCHANGED <<body, source, cancelled, head, identity, payload, active, handles>>

EndTrigger(t) ==
    /\ In(t, "trigger")
    /\ Top(t).list = <<>>
    /\ Return(t)
    /\ UNCHANGED <<body, source, cancelled, head, phase, identity, payload, active, handles>>

(* The callback calls what it calls: the frame below notes that it did. *)
FromBody(t, frame) ==
    stack' = [stack EXCEPT ![t] = Append(Front(@), [Top(t) EXCEPT !.called = TRUE]) \o <<frame>>]

(* The list removal of remove_callback. *)
Unlinked(c) == [head EXCEPT ![source[c]] = SelectSeq(@, LAMBDA d : d # c)]

(* task_parent_registration::unregister: close the gate and, if the mutex   *)
(* happens to be free, unlink the node.                                     *)
Close(c) ==
    /\ handles' = handles \ {c}
    /\ active' = active \ {c}
    /\ head' \in {head, Unlinked(c)}

Invoke(t) ==
    /\ In(t, "dispatch") /\ ~Top(t).called
    /\ LET b == body[Top(t).c]
           Nothing == Continue(t, [Top(t) EXCEPT !.called = TRUE])
                      /\ UNCHANGED <<cancelled, head, phase, identity, handles>>
       IN  \/ b.op = "none" /\ Nothing /\ UNCHANGED active
           \/ /\ b.op = "unregister" /\ b.c \notin handles
              /\ Nothing /\ UNCHANGED active
           \/ /\ b.op = "unregister" /\ b.c \in handles /\ IsLink(b.c)
              /\ Close(b.c)
              /\ Continue(t, [Top(t) EXCEPT !.called = TRUE])
              /\ UNCHANGED <<cancelled, phase, identity>>
           \/ /\ b.op = "unregister" /\ b.c \in handles /\ ~IsLink(b.c)
              /\ handles' = handles \ {b.c}
              /\ head' = Unlinked(b.c)
              /\ FromBody(t, [op |-> "unregister", c |-> b.c])
              /\ UNCHANGED <<cancelled, phase, identity, active>>
           \/ /\ b.op = "cancel" /\ UNCHANGED active
              /\ IF b.s \in cancelled THEN Nothing
                 ELSE Trigger(b.s) /\ FromBody(t, Triggered(b.s)) /\ UNCHANGED handles
           \/ /\ b.op = "link" /\ active' = active \ {Top(t).c}
              /\ IF b.s \in cancelled \/ Top(t).c \notin active THEN Nothing
                 ELSE Trigger(b.s) /\ FromBody(t, Triggered(b.s)) /\ UNCHANGED handles
    /\ UNCHANGED <<body, source, payload>>

(* The callback has returned: its captures die, waiters are woken. *)
Complete(t) ==
    /\ In(t, "dispatch") /\ Top(t).called
    /\ payload' = payload \ {Top(t).c}
    /\ phase' = [phase EXCEPT ![Top(t).c] = "completed"]
    /\ Return(t)
    /\ UNCHANGED <<body, source, cancelled, head, identity, active, handles>>

-----------------------------------------------------------------------------
(* unregister() of a callback, outside any callback. *)
unregister(t, c) ==
    /\ stack[t] = <<>>
    /\ c \in handles /\ ~IsLink(c)
    /\ handles' = handles \ {c}
    /\ head' = Unlinked(c)
    /\ Call(t, [op |-> "unregister", c |-> c])
    /\ UNCHANGED <<body, source, cancelled, phase, identity, payload, active>>

(* unregister_and_wait may still prevent the callback ... *)
Suppresses(t, c) ==
    \/ phase[c] = "registered"
    \/ phase[c] = "claimed" /\ identity[c] = Dispatcher(t)

(* Mutant of MustWait: it only waits for a callback that has started. *)
MutMustWaitLess(t, c) == phase[c] = "invoking" /\ Dispatcher(t) = NoDispatcher

(* ... or has to wait for it, which a callback never does. *)
MustWait(t, c) == phase[c] \in {"claimed", "invoking"} /\ Dispatcher(t) = NoDispatcher

unregister_and_wait(t) ==
    /\ In(t, "unregister")
    /\ LET c == Top(t).c
       IN  IF Suppresses(t, c)
           THEN /\ phase' = [phase EXCEPT ![c] = "unregistered"]
                /\ payload' = payload \ {c}
           ELSE ~MustWait(t, c) /\ UNCHANGED <<phase, payload>>
    /\ Return(t)
    /\ UNCHANGED <<body, source, cancelled, head, identity, active, handles>>

(* The child lets go of its link, outside any callback. *)
Detach(t, c) ==
    /\ stack[t] = <<>>
    /\ c \in handles /\ IsLink(c)
    /\ Close(c)
    /\ UNCHANGED <<body, source, cancelled, phase, identity, payload, stack>>

Run(t) ==
    \/ dispatch(t)
    \/ EndTrigger(t)
    \/ Invoke(t)
    \/ Complete(t)
    \/ unregister_and_wait(t)

Next ==
    \E t \in Threads :
        \/ \E c \in Callbacks : on_cancel(t, c) \/ unregister(t, c) \/ Detach(t, c)
        \/ \E s \in Sources : cancel(t, s)
        \/ Run(t)

(* Threads run; a thread that waits for a phase is woken when it changes. *)
Fairness == \A t \in Threads : WF_vars(Run(t))

Spec == Init /\ [][Next]_vars /\ Fairness

-----------------------------------------------------------------------------
Frames(t) == {stack[t][i] : i \in 1..Len(stack[t])}

(* Captures live while the callback runs: dispatch never invokes a callable *)
(* that unregister() or another thread has destroyed, a callback is run by  *)
(* one thread at a time, and only a node that can still be claimed is in    *)
(* the list of a source.                                                    *)
RunsAlive ==
    /\ \A t \in Threads : \A f \in Frames(t) :
        f.op = "dispatch" =>
            /\ f.c \in payload /\ phase[f.c] = "invoking"
            /\ \A u \in Threads \ {t} : \A g \in Frames(u) :
                g.op = "dispatch" => g.c # f.c
    /\ \A s \in Sources : \A i \in 1..Len(head[s]) :
        phase[head[s][i]] = "registered" /\ s \notin cancelled

(* When unregister() called outside any callback has returned, the callback *)
(* is over or will never run, so the caller may destroy what it refers to.  *)
UnregisterIsFinal ==
    \A t \in Threads, c \in Callbacks :
        (/\ stack[t] = <<[op |-> "unregister", c |-> c]>> /\ stack'[t] = <<>>)
            => phase'[c] \in {"completed", "unregistered"}

(* A link that the child has detached does not cancel the child any more,   *)
(* although its node may still be in the parent's list.                     *)
ClosedGateHolds ==
    \A t \in Threads, c \in Callbacks :
        (/\ In(t, "dispatch") /\ Top(t).c = c /\ IsLink(c)
         /\ Len(stack'[t]) > Len(stack[t]))
            => c \in handles \/ Top(t).by = c

(* cancel(), on_cancel() and unregister() have returned, whatever the       *)
(* callbacks unregister or cancel on whichever threads, and every callback  *)
(* that cancel() selected was run or suppressed by a callback of the same   *)
(* dispatch.                                                                *)
Served ==
    /\ \A t \in Threads : stack[t] = <<>>
    /\ \A c \in Callbacks : phase[c] # "claimed"

=============================================================================
