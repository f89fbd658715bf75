----------------------------- MODULE HttpClient -----------------------------
(***************************************************************************)
(* This module holds the HTTP/1 client: its connection pool, the dialling  *)
(* of a connection and the exchange of request and response on it.  Its    *)
(* parts have their own variables; modules that use one of them leave the  *)
(* others out.                                                             *)
(***************************************************************************)
EXTENDS Integers, FiniteSets, SequencesExt

-----------------------------------------------------------------------------
(***************************************************************************)
(* The connections of an HTTP transport: operation and connection leases,  *)
(* the bounded pool that admits them and the unlimited idle pool, clear()  *)
(* and shutdown().  A connection is named after the operation that dialled *)
(* it.  What a `change` still has to do after the unlock (retired          *)
(* connections, notifications) is kept in `debts` with the thread that     *)
(* owes it: that thread goes on when it owes nothing.  A TLS connection    *)
(* keeps its permit and its operation in the retirement root until its     *)
(* pump has settled.  Cancellation and deadlines may strike at each check. *)
(***************************************************************************)
CONSTANTS HpOps, HpRoutes, HpTls, HpLimits

VARIABLES hlimits,   \* the limits in force (buckets = 0: none), and how many
                     \* operations ask for which routes
          hpool,     \* bounded_pool::state and the nodes of its waiters
          hop,       \* the operations
          debts,     \* what threads have to do after an unlock
          anchor,    \* operation held by the retirement root of a connection
          roots,     \* retirement roots whose connection is gone
          aged,      \* idle connections past the idle timeout
          xport,     \* transport::state
          shutter    \* the caller of shutdown()

hpVars == <<hlimits, hpool, hop, debts, anchor, roots, aged, xport, shutter>>

NoConn == "none"
Home == CHOOSE r \in HpRoutes : TRUE
Bounded == hlimits.buckets > 0
Secure(r) == r \in HpTls

HpInit ==
    /\ hlimits \in HpLimits
    /\ hpool = [closing |-> FALSE, live |-> 0, idles |-> 0, dialing |-> 0,
                routes |-> {}, of |-> [r \in HpRoutes |-> 0],
                idle |-> [r \in HpRoutes |-> <<>>], waiters |-> <<>>,
                selected |-> [o \in HpOps |-> NoConn], ready |-> {}]
    /\ hop = [o \in HpOps |-> [pc |-> "new", route |-> Home,
                               gen |-> 0, permit |-> "none", conn |-> NoConn]]
    /\ debts = {}
    /\ anchor = [c \in HpOps |-> NoConn]
    /\ roots = {}
    /\ aged = {}
    /\ xport = [active |-> 0, generation |-> 0, closing |-> FALSE,
                settled |-> TRUE, sets |-> 0]
    /\ shutter = "new"

-----------------------------------------------------------------------------
(* bounded_pool::state, as functions on [pool, out]: the pool and what the  *)
(* change still owes.                                                       *)

Change(p) == [pool |-> p, out |-> {}]
Waiting(p, r) == \E i \in 1 .. Len(p.waiters) : hop[p.waiters[i]].route = r

prune_empty(s) ==
    [s EXCEPT !.pool.routes = {r \in @ : s.pool.of[r] > 0 \/ Waiting(s.pool, r)}]

\* The first n[r] idle connections of every route r become retired entries.
Detach(s, n) ==
    [s EXCEPT
       !.pool.idle = [r \in HpRoutes |-> SubSeq(@[r], n[r] + 1, Len(@[r]))],
       !.pool.idles = @ - MapThenSumSet(LAMBDA r : n[r], HpRoutes),
       !.out = @ \cup UNION {{[kind |-> "retired", it |-> s.pool.idle[r][i],
                               route |-> r, cap |-> "held"]
                              : i \in 1 .. n[r]} : r \in HpRoutes}]

Only(q, k) == [r \in HpRoutes |-> IF r = q THEN k ELSE 0]

expire(s) ==
    prune_empty(Detach(s, [r \in HpRoutes |->
        Cardinality({i \in 1 .. Len(s.pool.idle[r]) :
                        \A j \in 1 .. i : s.pool.idle[r][j] \in aged})]))

\* available() retires an idle connection of another route when the total is
\* reached; the map's order decides which, and two routes leave one choice.
Spare(p) == {r \in HpRoutes : p.idle[r] # <<>>}
evict(s, r) ==
    IF /\ s.pool.idle[r] = <<>>
       /\ s.pool.of[r] < hlimits.route /\ s.pool.dialing < hlimits.dials
       /\ s.pool.live >= hlimits.live /\ Spare(s.pool) # {}
    THEN Detach(s, Only(CHOOSE q \in Spare(s.pool) : TRUE, 1))
    ELSE s
available(p, r) ==
    \/ p.idle[r] # <<>>
    \/ /\ p.of[r] < hlimits.route /\ p.dialing < hlimits.dials
       /\ p.live < hlimits.live

\* The grant is what the route's front was before: NoConn asks for a dial.
reserve(p, r) ==
    IF p.idle[r] = <<>>
    THEN [p EXCEPT !.of[r] = @ + 1, !.live = @ + 1, !.dialing = @ + 1]
    ELSE [p EXCEPT !.idle[r] = Tail(@), !.idles = @ - 1]
Grant(p, r) == IF p.idle[r] = <<>> THEN "dial" ELSE Head(p.idle[r])

note(o) == [kind |-> "note", it |-> o, route |-> hop[o].route, cap |-> "none"]

RECURSIVE serve_waiters(_)
serve_waiters(s) ==
    IF s.pool.waiters = <<>> THEN prune_empty(s)
    ELSE LET o == Head(s.pool.waiters)
             r == hop[o].route
             e == evict(s, r)
         IN IF ~available(e.pool, r) THEN prune_empty(e)
            ELSE serve_waiters(
                   [pool |-> [reserve(e.pool, r) EXCEPT !.waiters = Tail(@),
                                              !.selected[o] = Grant(e.pool, r)],
                    out |-> e.out \cup {note(o)}])
dispatch(s) == serve_waiters(expire(s))

\* permit::reset and permit::dial_complete on the pool.
permit_reset(p, r, cap) ==
    dispatch(Change([p EXCEPT !.live = @ - 1, !.of[r] = @ - 1,
                              !.dialing = IF cap = "dialing" THEN @ - 1 ELSE @]))
dial_complete(p) == dispatch(Change([p EXCEPT !.dialing = @ - 1]))

\* The change s ends under thread t, which also owes `more`.
Owe(t, s, more) ==
    /\ hpool' = s.pool
    /\ debts' = debts \cup {[by |-> t, do |-> d] : d \in s.out \cup more}
Free(t) == \A d \in debts : d.by # t
Moved(o, pc) == hop' = [hop EXCEPT ![o].pc = pc]
Done(o) == [hop[o] EXCEPT !.pc = "done", !.route = Home]
Permit(o) == [kind |-> "permit", it |-> o, route |-> hop[o].route,
              cap |-> hop[o].permit]

-----------------------------------------------------------------------------
(* transport::state: the operations that are registered.                    *)

finish(x, n) ==
    [x EXCEPT !.active = @ - n,
              !.sets = IF n > 0 /\ x.active = n THEN @ + 1 ELSE @]

\* settled.set(), outside the lock.
set_settled ==
    /\ xport.sets > 0
    /\ xport' = [xport EXCEPT !.settled = TRUE, !.sets = @ - 1]
    /\ shutter' = IF shutter = "waiting" THEN "check" ELSE shutter
    /\ UNCHANGED <<hlimits, hpool, hop, debts, anchor, roots, aged>>

\* A cancelled token or a passed deadline may end it before the pool is asked.
try_acquire_lease(o) ==
    /\ hop[o].pc = "new"
    /\ Cardinality({p \in HpOps : hop[p].pc # "new"}) < hlimits.ops
    /\ \E r \in hlimits.asked :
         IF xport.closing
         THEN hop' = [hop EXCEPT ![o] = Done(o)] /\ UNCHANGED xport
         ELSE /\ \E pc \in {"acquire", "leave"} :
                   hop' = [hop EXCEPT ![o].pc = pc, ![o].route = r,
                                      ![o].gen = xport.generation]
              /\ xport' = [xport EXCEPT !.active = @ + 1,
                             !.settled = IF xport.active = 0 THEN FALSE ELSE @]
    /\ UNCHANGED <<hlimits, hpool, debts, anchor, roots, aged, shutter>>

\* A full route table gives up a route that is only idle.
Replaceable(s) == {q \in s.pool.routes : ~Waiting(s.pool, q)
                     /\ s.pool.of[q] = Len(s.pool.idle[q])}
make_room(s, r) ==
    IF r \notin s.pool.routes /\ Cardinality(s.pool.routes) >= hlimits.buckets
       /\ Replaceable(s) # {}
    THEN LET q == CHOOSE q \in Replaceable(s) : TRUE
         IN Detach(s, Only(q, Len(s.pool.idle[q])))
    ELSE s

\* One round of the loop of acquire_owned, under the pool's mutex.
acquire_owned(o) ==
    LET r == hop[o].route
        s == make_room(expire(Change(hpool)), r)
        full == r \notin s.pool.routes
                /\ Cardinality(s.pool.routes) >= hlimits.buckets
        b == [s EXCEPT !.pool.routes = @ \cup {r}]
        e == IF b.pool.waiters = <<>> THEN evict(b, r) ELSE b
        Leaves(c, pc) == Owe(o, c, {}) /\ Moved(o, pc)
    IN /\ hop[o].pc = "acquire" /\ Free(o) /\ Bounded
       /\ CASE hpool.closing -> Moved(o, "refused") /\ UNCHANGED <<hpool, debts>>
            [] ~hpool.closing /\ full /\ s.out # {} -> Leaves(s, "acquire")
            [] ~hpool.closing /\ full /\ s.out = {} -> Leaves(s, "refused")
            [] ~hpool.closing /\ ~full /\ e.pool.waiters = <<>> /\ available(e.pool, r) ->
                 /\ Owe(o, [e EXCEPT !.pool = reserve(e.pool, r)], {})
                 /\ hop' = [hop EXCEPT ![o].pc = "admitted",
                        ![o].permit = IF Grant(e.pool, r) = "dial" THEN "dialing"
                                      ELSE "held",
                        ![o].conn = IF Grant(e.pool, r) = "dial" THEN NoConn
                                    ELSE Grant(e.pool, r)]
            [] OTHER ->
                 IF e.out # {} /\ e.pool.waiters = <<>> THEN Leaves(e, "acquire")
                 ELSE IF Len(e.pool.waiters) >= hlimits.waiters
                 THEN Leaves(prune_empty(e), "refused")
                 ELSE Leaves([e EXCEPT !.pool.waiters = Append(@, o)], "waiting")
       /\ UNCHANGED <<hlimits, anchor, roots, aged, xport, shutter>>

\* observe_join_result answers: the node was selected, or closed.
take_selected(o) ==
    /\ hop[o].pc = "waiting" /\ Free(o) /\ o \in hpool.ready
    /\ IF hpool.selected[o] = "shut"
       THEN Moved(o, "refused") /\ UNCHANGED hpool
       ELSE /\ hop' = [hop EXCEPT ![o].pc = "admitted",
                    ![o].permit = IF hpool.selected[o] = "dial" THEN "dialing" ELSE "held",
                    ![o].conn = IF hpool.selected[o] = "dial" THEN NoConn
                                ELSE hpool.selected[o]]
            /\ hpool' = [hpool EXCEPT !.selected[o] = NoConn]
    /\ UNCHANGED <<hlimits, debts, anchor, roots, aged, xport, shutter>>

\* ... or the wait was cancelled or timed out, selected or not.
leave_queue(o) ==
    /\ hop[o].pc = "waiting" /\ Free(o)
    /\ Moved(o, "refused")
    /\ UNCHANGED <<hlimits, hpool, debts, anchor, roots, aged, xport, shutter>>

\* ~departure: unlinks the node, recovers what was selected for it, dispatches.
departure(o) ==
    /\ hop[o].pc \in {"refused", "admitted"} /\ Free(o)
    /\ LET got == hpool.selected[o]
           r == hop[o].route
           p == [hpool EXCEPT !.waiters = SelectSeq(@, LAMBDA w : w # o),
                              !.selected[o] = NoConn]
       IN Owe(o, dispatch(Change(p)),
              CASE got \in {NoConn, "shut"} -> {}
                [] got = "dial" -> {[kind |-> "permit", it |-> o, route |-> r,
                                     cap |-> "dialing"]}
                [] OTHER -> {[kind |-> "retired", it |-> got, route |-> r,
                              cap |-> "held"]})
    /\ Moved(o, IF hop[o].pc = "refused" THEN "leave" ELSE "granted")
    /\ UNCHANGED <<hlimits, anchor, roots, aged, xport, shutter>>

\* The unlimited pool: route_idle_pool::take drops what is too old.
take_idle(o) ==
    LET r == hop[o].route
        old == {i \in 1 .. Len(hpool.idle[r]) :
                   \A j \in 1 .. i : hpool.idle[r][j] \in aged}
        rest == SubSeq(hpool.idle[r], Cardinality(old) + 1, Len(hpool.idle[r]))
    IN /\ hop[o].pc = "acquire" /\ Free(o) /\ ~Bounded
       /\ Owe(o, Change([hpool EXCEPT
                   !.idle[r] = IF rest = <<>> THEN <<>> ELSE Tail(rest)]),
              {[kind |-> "retired", it |-> hpool.idle[r][i], route |-> r,
                cap |-> "none"] : i \in old})
       /\ hop' = [hop EXCEPT ![o].pc = "granted",
                             ![o].conn = IF rest = <<>> THEN NoConn ELSE Head(rest)]
       /\ UNCHANGED <<hlimits, anchor, roots, aged, xport, shutter>>

-----------------------------------------------------------------------------
(* The rest of acquire_owned_result, and the connection lease.              *)

\* The lease of an idle connection: its root drops the operation it kept.
adopt_idle(o) ==
    /\ hop[o].pc = "granted" /\ Free(o) /\ hop[o].conn # NoConn
    /\ \E pc \in {"using", "retire"} :
         LET c == hop[o].conn IN
         IF Secure(hop[o].route)
         THEN /\ anchor' = [anchor EXCEPT ![c] = o]
              /\ xport' = finish(xport, 1)
              /\ hop' = [hop EXCEPT ![o].pc = pc, ![anchor[c]] = Done(anchor[c])]
         ELSE Moved(o, pc) /\ UNCHANGED <<anchor, xport>>
    /\ UNCHANGED <<hlimits, hpool, debts, roots, aged, shutter>>

\* No idle connection: cancelled or late, or dial.  A secure dial has moved the
\* permit and the operation into the retirement root already.
start_dial(o) ==
    /\ hop[o].pc = "granted" /\ Free(o) /\ hop[o].conn = NoConn
    /\ \E pc \in {"dialing", "leave"} :
         /\ hop' = [hop EXCEPT ![o].pc = pc,
                       ![o].permit = IF pc = "leave" THEN "none" ELSE @]
         /\ debts' = IF pc = "leave" /\ hop[o].permit # "none"
                     THEN debts \cup {[by |-> o, do |-> Permit(o)]} ELSE debts
    /\ UNCHANGED <<hlimits, hpool, anchor, roots, aged, xport, shutter>>

dial_fails(o) ==
    /\ hop[o].pc = "dialing"
    /\ IF Secure(hop[o].route)
       THEN /\ roots' = roots \cup {[conn |-> o, route |-> hop[o].route,
                                     cap |-> hop[o].permit, op |-> o]}
            /\ hop' = [hop EXCEPT ![o].pc = "lent", ![o].permit = "none"]
            /\ UNCHANGED <<hpool, debts>>
       ELSE /\ hop' = [hop EXCEPT ![o].pc = "leave", ![o].permit = "none"]
            /\ IF Bounded
               THEN Owe(o, dial_complete(hpool),
                        {[Permit(o) EXCEPT !.cap = "held"]})
               ELSE UNCHANGED <<hpool, debts>>
            /\ UNCHANGED roots
    /\ UNCHANGED <<hlimits, anchor, aged, xport, shutter>>

dial_succeeds(o) ==
    /\ hop[o].pc = "dialing"
    /\ hop' = [hop EXCEPT ![o].pc = "using", ![o].conn = o,
                          ![o].permit = IF Bounded THEN "held" ELSE "none"]
    /\ anchor' = [anchor EXCEPT ![o] = IF Secure(hop[o].route) THEN o ELSE @]
    /\ IF Bounded THEN Owe(o, dial_complete(hpool), {}) ELSE UNCHANGED <<hpool, debts>>
    /\ UNCHANGED <<hlimits, roots, aged, xport, shutter>>

\* connection_lease::retire.
retire(o) ==
    /\ hop[o].pc \in {"using", "retire"} /\ Free(o)
    /\ hop' = [hop EXCEPT ![o].pc = IF Secure(hop[o].route) THEN "lent" ELSE "leave",
                          ![o].permit = "none", ![o].conn = NoConn]
    /\ IF Secure(hop[o].route)
       THEN /\ roots' = roots \cup {[conn |-> hop[o].conn, route |-> hop[o].route,
                                     cap |-> hop[o].permit, op |-> o]}
            /\ UNCHANGED debts
       ELSE /\ debts' = IF Bounded THEN debts \cup {[by |-> o, do |-> Permit(o)]}
                        ELSE debts
            /\ UNCHANGED roots
    /\ UNCHANGED <<hlimits, hpool, anchor, aged, xport, shutter>>

\* bounded_pool::retain and route_idle_pool::retain: is there room?
retain(p, r) ==
    /\ ~p.closing
    /\ Len(p.idle[r]) < hlimits.idleRoute
    /\ Bounded => p.idles < hlimits.idleTotal

Reusable(o) == ~xport.closing /\ hop[o].gen = xport.generation

\* connection_lease::return_reusable, under the transport's mutex.
return_reusable(o) ==
    LET r == hop[o].route
        p == [hpool EXCEPT !.idle[r] = Append(@, hop[o].conn),
                           !.idles = IF Bounded THEN @ + 1 ELSE @]
    IN /\ hop[o].pc = "using" /\ Free(o)
       /\ IF Reusable(o) /\ retain(hpool, r)
          THEN /\ Owe(o, IF Bounded THEN dispatch(Change(p)) ELSE Change(p), {})
               /\ hop' = [hop EXCEPT ![o].pc = IF Secure(r) THEN "lent" ELSE "leave",
                                     ![o].permit = "none", ![o].conn = NoConn]
          ELSE Moved(o, "retire") /\ UNCHANGED <<hpool, debts>>
       /\ aged' = aged \ {hop[o].conn}
       /\ UNCHANGED <<hlimits, anchor, roots, xport, shutter>>

\* The operation lease ends with the operation, unless a root holds it.
operation_finish(o) ==
    /\ hop[o].pc = "leave" /\ Free(o)
    /\ xport' = finish(xport, 1)
    /\ hop' = [hop EXCEPT ![o] = Done(o)]
    /\ UNCHANGED <<hlimits, hpool, debts, anchor, roots, aged, shutter>>

-----------------------------------------------------------------------------
(* What is done after an unlock, by the roots, and to the whole transport.  *)

\* A retired entry is destroyed, a permit reset, a waiter notified.
settle_debt ==
    \E d \in debts :
      LET i == d.do IN
        /\ CASE i.kind = "note" ->
                  /\ hpool' = [hpool EXCEPT !.ready = @ \cup {i.it}]
                  /\ debts' = debts \ {d}
                  /\ UNCHANGED roots
             [] i.kind = "retired" /\ Secure(i.route) ->
                  /\ roots' = roots \cup {[conn |-> i.it, route |-> i.route,
                                           cap |-> i.cap, op |-> anchor[i.it]]}
                  /\ debts' = debts \ {d}
                  /\ UNCHANGED hpool
             [] OTHER ->
                  LET s == IF i.cap = "none" THEN Change(hpool)
                           ELSE permit_reset(hpool, i.route, i.cap)
                  IN /\ hpool' = s.pool
                     /\ debts' = (debts \ {d})
                                   \cup {[by |-> d.by, do |-> x] : x \in s.out}
                     /\ UNCHANGED roots
        /\ UNCHANGED <<hlimits, hop, anchor, aged, xport, shutter>>

\* route_retirement is destroyed when the pump has settled: first the permit...
root_releases ==
    \E k \in roots :
      /\ k.cap # "none"
      /\ Owe("root", permit_reset(hpool, k.route, k.cap), {})
      /\ roots' = (roots \ {k}) \cup {[k EXCEPT !.cap = "none"]}
      /\ UNCHANGED <<hlimits, hop, anchor, aged, xport, shutter>>
\* ... then the operation.
root_finishes ==
    \E k \in roots :
      /\ k.cap = "none" /\ Free("root")
      /\ roots' = roots \ {k}
      /\ xport' = finish(xport, 1)
      /\ hop' = [hop EXCEPT ![k.op] = Done(k.op)]
      /\ anchor' = [anchor EXCEPT ![k.conn] = NoConn]
      /\ UNCHANGED <<hlimits, hpool, debts, aged, shutter>>

\* The idle timeout passes for everything idle now.
time_passes ==
    /\ aged # UNION {Range(hpool.idle[r]) : r \in HpRoutes}
    /\ aged' = UNION {Range(hpool.idle[r]) : r \in HpRoutes}
    /\ UNCHANGED <<hlimits, hpool, hop, debts, anchor, roots, xport, shutter>>

\* bounded_pool::clear, and detach() of the unlimited pool.
pool_clear(close) ==
    LET n == [r \in HpRoutes |-> Len(hpool.idle[r])]
        d == Detach(Change(hpool), n)
        s == IF Bounded
             THEN prune_empty([d EXCEPT !.pool.closing = @ \/ close])
             ELSE [pool |-> [d.pool EXCEPT !.idles = 0],
                   out |-> {[i EXCEPT !.cap = "none"] : i \in d.out}]
    IN IF ~Bounded THEN s
       ELSE IF ~s.pool.closing THEN dispatch(s)
       ELSE prune_empty(
              [pool |-> [s.pool EXCEPT !.waiters = <<>>,
                  !.selected = [o \in HpOps |->
                     IF o \in Range(s.pool.waiters) THEN "shut" ELSE @[o]]],
               out |-> s.out \cup {note(o) : o \in Range(s.pool.waiters)}])

clear ==
    /\ xport.generation = 0 /\ Free("clear")
    /\ xport' = [xport EXCEPT !.generation = 1]
    /\ Owe("clear", pool_clear(FALSE), {})
    /\ UNCHANGED <<hlimits, hop, anchor, roots, aged, shutter>>

shutdown ==
    /\ shutter = "new"
    /\ shutter' = "check"
    /\ xport' = [xport EXCEPT !.closing = TRUE]
    /\ Owe("shutdown", pool_clear(TRUE), {})
    /\ UNCHANGED <<hlimits, hop, anchor, roots, aged>>

\* The loop of shutdown: nothing active, or reset the event and wait.
await_settled ==
    /\ shutter = "check" /\ Free("shutdown")
    /\ IF xport.active = 0
       THEN shutter' = "completed" /\ UNCHANGED xport
       ELSE shutter' = "wait" /\ xport' = [xport EXCEPT !.settled = FALSE]
    /\ UNCHANGED <<hlimits, hpool, hop, debts, anchor, roots, aged>>
\* settled.wait(token)
wait_settled ==
    /\ shutter = "wait"
    /\ shutter' = IF xport.settled THEN "check" ELSE "waiting"
    /\ UNCHANGED <<hlimits, hpool, hop, debts, anchor, roots, aged, xport>>
\* A cancelled shutdown() may be called again.
cancel_shutdown ==
    /\ shutter \in {"wait", "waiting"}
    /\ shutter' = "new"
    /\ UNCHANGED <<hlimits, hpool, hop, debts, anchor, roots, aged, xport>>

-----------------------------------------------------------------------------
OpStep(o) ==
    \/ try_acquire_lease(o) \/ acquire_owned(o)
    \/ take_selected(o) \/ leave_queue(o) \/ departure(o) \/ take_idle(o)
    \/ adopt_idle(o) \/ start_dial(o) \/ dial_fails(o) \/ dial_succeeds(o)
    \/ retire(o) \/ return_reusable(o) \/ operation_finish(o)

HpNext ==
    \/ \E o \in HpOps : OpStep(o)
    \/ set_settled \/ settle_debt \/ root_releases \/ root_finishes \/ time_passes
    \/ clear \/ shutdown \/ await_settled \/ wait_settled \/ cancel_shutdown

HpSpec == HpInit /\ [][HpNext]_hpVars

-----------------------------------------------------------------------------
(* Properties.                                                              *)

Owed == {d.do : d \in debts}
Holders(r, caps) ==
    Cardinality({o \in HpOps : hop[o].route = r /\ hop[o].permit \in caps})
    + Cardinality({o \in HpOps : hop[o].route = r /\ hpool.selected[o] \notin {NoConn, "shut"}
                     /\ (IF hpool.selected[o] = "dial" THEN "dialing" ELSE "held") \in caps})
    + Cardinality({i \in Owed : i.route = r /\ i.cap \in caps})
    + Cardinality({k \in roots : k.route = r /\ k.cap \in caps})

\* The pool's counters are the permits that exist: held by an operation, by a
\* grant nobody has taken yet, by an idle connection, by a retired one or by a
\* retirement root; and they stay within the limits, whoever is cancelled, times
\* out or clears the pool in between.
CapacityIsExact ==
    Bounded =>
      /\ \A r \in HpRoutes :
           hpool.of[r] = Holders(r, {"held", "dialing"}) + Len(hpool.idle[r])
      /\ hpool.live = MapThenSumSet(LAMBDA r : hpool.of[r], HpRoutes)
      /\ hpool.dialing = MapThenSumSet(LAMBDA r : Holders(r, {"dialing"}), HpRoutes)
      /\ hpool.idles = MapThenSumSet(LAMBDA r : Len(hpool.idle[r]), HpRoutes)
      /\ hpool.live <= hlimits.live /\ hpool.dialing <= hlimits.dials
      /\ \A r \in HpRoutes : hpool.of[r] <= hlimits.route
      /\ hpool.idles <= hlimits.idleTotal

\* When no permit is on its way back, the first waiter cannot be served: no idle
\* connection of its route, and no room to dial even by retiring another route's.
NobodyWaitsBesideCapacity ==
    Bounded /\ hpool.waiters # <<>> /\ (\A i \in Owed : i.cap = "none") =>
      LET r == hop[Head(hpool.waiters)].route IN
        /\ hpool.idle[r] = <<>>
        /\ \/ hpool.of[r] >= hlimits.route \/ hpool.dialing >= hlimits.dials
           \/ hpool.live >= hlimits.live /\ Spare(hpool) = {}

Used(c) ==
    Cardinality({o \in HpOps : hop[o].conn = c})
    + Cardinality({o \in HpOps : hpool.selected[o] = c})
    + Cardinality({r \in HpRoutes : c \in Range(hpool.idle[r])})
    + Cardinality({i \in Owed : i.kind = "retired" /\ i.it = c})

\* A connection has one user, and one that was handed back before clear() (or by
\* an operation that began before it) is never idle afterwards; nothing is idle
\* once the transport is closing.
ConnectionsAreFresh ==
    /\ \A c \in HpOps : Used(c) <= 1
    /\ \A r \in HpRoutes : \A c \in Range(hpool.idle[r]) :
         ~xport.closing /\ hop[c].gen = xport.generation

\* shutdown() completes only when every operation has ended and no connection is
\* left to an operation or a root; and it does not sleep on when the last one has
\* ended, although settled is reset and set without a common lock.
ShutdownSettles ==
    /\ xport.active = Cardinality({o \in HpOps : hop[o].pc \notin {"new", "done"}})
    /\ shutter = "completed" =>
         /\ \A o \in HpOps : hop[o].pc \in {"new", "done"}
         /\ roots = {}
    /\ shutter = "waiting" => xport.active > 0 \/ xport.sets > 0

-----------------------------------------------------------------------------
(***************************************************************************)
(* How the HTTP client sets up a connection: resolution, the addresses in  *)
(* turn, TLS to the first hop, CONNECT through a proxy and TLS to the      *)
(* origin, under a deadline that a watchdog task enforces.  The permit of  *)
(* a secure connection travels with its retirement, which the TLS root     *)
(* keeps until its pump has settled.  A socket is named by the attempt     *)
(* that opened it.                                                         *)
(***************************************************************************)
CONSTANTS HdAddresses,   \* how many addresses the host resolves to
          HdInterims     \* max_informational_responses of the proxy profile

VARIABLES hdial,    \* client_connect_result_impl and connect_proxy_route
          hdog,     \* setup_watchdog_task, later route_watchdog_task
          hsock,    \* the sockets: "none", "open" or "settling"
          hclock    \* the deadline, the caller's token

hdVars == <<hdial, hdog, hsock, hclock>>

HdInit ==
    /\ hdial \in [mode : {"direct", "forward", "tunnel"}, secure : BOOLEAN,
                  enforced : BOOLEAN, pc : {"resolve"}, at : {0}, layer : {"none"},
                  last : {"ECONNREFUSED"}, handshaken : {TRUE}, interims : {0},
                  cap : {"caller"}, answer : {"none"}]
    /\ hdog = [pc |-> "off", expired |-> FALSE, stop |-> FALSE, op |-> FALSE]
    /\ hsock = [a \in 1 .. HdAddresses |-> "none"]
    /\ hclock = [late |-> FALSE, cancelled |-> FALSE]

Goes(pc) == hdial' = [hdial EXCEPT !.pc = pc]
Ends(e) == hdial' = [hdial EXCEPT !.pc = "stop", !.answer = e]
Stopped == hdog.op \/ hclock.cancelled
Attempt == hdial.at
Sock(s) == hsock' = [hsock EXCEPT ![Attempt] = s]

-----------------------------------------------------------------------------
(* client_connect_result_impl.                                              *)

\* Checks before and after resolve_all; then the watchdog is started.  ETIMEDOUT is
\* the acquisition deadline's; EHOSTUNREACH stands for what the resolver reports
\* (the end of its own dns_timeout too), ECONNREFUSED for what the kernel reports.
resolve ==
    /\ hdial.pc = "resolve"
    /\ \/ hclock.cancelled /\ hdial' = [hdial EXCEPT !.pc = "done", !.answer = "ECANCELED"]
          /\ UNCHANGED hdog
       \/ hclock.late /\ hdial' = [hdial EXCEPT !.pc = "done", !.answer = "ETIMEDOUT"]
          /\ UNCHANGED hdog
       \/ hdial' = [hdial EXCEPT !.pc = "done", !.answer = "EHOSTUNREACH"]
          /\ UNCHANGED hdog
       \/ /\ ~hclock.cancelled /\ ~hclock.late
          /\ hdial' = [hdial EXCEPT !.pc = "address",
                                    !.cap = IF hdial.secure THEN "root" ELSE @]
          /\ hdog' = IF hdial.enforced THEN [hdog EXCEPT !.pc = "sleep"] ELSE hdog
    /\ UNCHANGED <<hsock, hclock>>

\* stopped_error: the deadline goes before the token.
stopped_error ==
    IF hdog.expired \/ hclock.late THEN "ETIMEDOUT"
    ELSE IF hclock.cancelled THEN "ECANCELED" ELSE "none"

\* The next address (next_rotation_offset only decides where the round starts).
next_address ==
    /\ hdial.pc = "address"
    /\ IF Attempt = HdAddresses THEN Ends(hdial.last)
       ELSE hdial' = [hdial EXCEPT !.pc = "connect", !.at = @ + 1]
    /\ UNCHANGED <<hdog, hsock, hclock>>

connect_tcp ==
    /\ hdial.pc = "connect"
    /\ \/ /\ stopped_error # "none" /\ Ends(stopped_error) /\ UNCHANGED hsock
       \/ /\ stopped_error = "none"
          /\ \/ /\ \E e \in {"ECONNREFUSED"} \cup (IF Stopped THEN {"ECANCELED"} ELSE {}) :
                     hdial' = [hdial EXCEPT !.pc = "address",
                                            !.last = IF hdial.handshaken THEN e ELSE @]
                /\ UNCHANGED hsock
             \/ /\ Sock("open")
                /\ IF hdial.secure THEN hdial' = [hdial EXCEPT !.pc = "handshake",
                                                               !.layer = "tcp"]
                   ELSE hdial' = [hdial EXCEPT !.pc = "stop", !.layer = "tcp",
                                               !.answer = "ok"]
    /\ UNCHANGED <<hdog, hclock>>

\* The handshake with the first hop; a stream that fails is aborted and settled.
handshake ==
    /\ hdial.pc = "handshake"
    /\ \/ /\ stopped_error # "none"
          /\ Sock("settling")
          /\ hdial' = [hdial EXCEPT !.pc = "root", !.layer = "none",
                                    !.answer = stopped_error]
       \/ /\ stopped_error = "none"
          /\ \/ /\ Sock("settling")
                /\ \E e \in {"EPROTO"} \cup (IF Stopped THEN {"ECANCELED"} ELSE {}) :
                     hdial' = [hdial EXCEPT !.pc = "root", !.layer = "none", !.last = e,
                                            !.handshaken = FALSE]
             \/ /\ hdial' = [hdial EXCEPT !.pc = "stop", !.layer = "tls", !.answer = "ok"]
                /\ UNCHANGED hsock
    /\ UNCHANGED <<hdog, hclock>>

\* root_released->wait(): the next address waits until the last root let go.
root_released ==
    /\ hdial.pc = "root" /\ hsock[Attempt] = "none"
    /\ Goes(IF hdial.answer = "none" THEN "address" ELSE "stop")
    /\ UNCHANGED <<hdog, hsock, hclock>>

-----------------------------------------------------------------------------
(* The watchdogs.                                                           *)

\* setup_watchdog_task and route_watchdog_task: flag first, then cancel.
watchdog_fires ==
    /\ hdog.pc = "sleep"
    /\ \/ hclock.late /\ hdog' = [hdog EXCEPT !.pc = "done", !.expired = TRUE, !.op = TRUE]
       \/ hdog.stop /\ hdog' = [hdog EXCEPT !.pc = "done"]
    /\ UNCHANGED <<hdial, hsock, hclock>>

stop_timer ==
    /\ hdial.pc \in {"stop", "tunnel_stop"} /\ ~hdog.stop
    /\ hdog' = [hdog EXCEPT !.stop = TRUE]
    /\ UNCHANGED <<hdial, hsock, hclock>>

Joined(pc) == hdial.pc = pc /\ hdog.stop /\ hdog.pc \in {"off", "done"}

\* The watchdog is joined; a failure of its own (it threw) takes the connection
\* down, otherwise the result stands, and a direct route takes its permit back.
finish_setup ==
    /\ Joined("stop")
    /\ \/ /\ hdog.pc = "done"
          /\ hdial' = [hdial EXCEPT !.pc = "done", !.answer = "exception", !.layer = "none"]
          /\ hsock' = IF hdial.answer # "ok" THEN hsock
                      ELSE [hsock EXCEPT ![Attempt] =
                              IF hdial.secure THEN "settling" ELSE "none"]
       \/ /\ hdial' = IF hdial.answer # "ok" THEN [hdial EXCEPT !.pc = "done"]
                      ELSE IF hdial.mode = "direct"
                      THEN [hdial EXCEPT !.pc = "done", !.cap = "caller"]
                      ELSE [hdial EXCEPT !.pc = "proxy", !.answer = "none"]
          /\ UNCHANGED hsock
    /\ hdog' = [hdog EXCEPT !.pc = IF @ = "done" THEN "off" ELSE @, !.stop = FALSE, !.op = FALSE]
    /\ UNCHANGED hclock

-----------------------------------------------------------------------------
(* connect_proxy_route.                                                     *)

\* The established stream is given up; a secure one settles.
Drop(e) ==
    /\ Sock(IF hdial.secure \/ hdial.layer \in {"origin", "channel"} THEN "settling" ELSE "none")
    /\ hdial' = [hdial EXCEPT !.pc = "done", !.answer = e, !.layer = "none"]

proxy_connected ==
    /\ hdial.pc = "proxy"
    /\ \/ hclock.cancelled /\ Drop("ECANCELED") /\ UNCHANGED hdog
       \/ hclock.late /\ Drop("ETIMEDOUT") /\ UNCHANGED hdog
       \/ hdial.secure /\ Drop("EPROTONOSUPPORT") /\ UNCHANGED hdog
       \/ /\ ~hclock.cancelled /\ ~hclock.late
          /\ IF hdial.mode = "forward"
             THEN /\ hdial' = [hdial EXCEPT !.pc = "done", !.answer = "ok", !.cap = "caller"]
                  /\ UNCHANGED hdog
             ELSE /\ Goes("negotiate")
                  /\ hdog' = [hdog EXCEPT !.pc = IF hdial.enforced THEN "sleep" ELSE "off"]
          /\ UNCHANGED hsock
    /\ UNCHANGED hclock

\* negotiate_connect: each write and read may stop; interims are bounded; only a
\* 2xx hands the connection over, with what was read ahead.
negotiate_connect ==
    /\ hdial.pc = "negotiate"
    /\ \/ \E e \in {"EPIPE", "EMSGSIZE", "EBADMSG", "EACCES", "ECONNREFUSED"}
                   \cup (IF Stopped THEN {"ECANCELED"} ELSE {})
                   \cup (IF hclock.late THEN {"ETIMEDOUT"} ELSE {}) :
            hdial' = [hdial EXCEPT !.pc = "tunnel_stop", !.answer = e]
       \/ /\ hdial.interims < HdInterims
          /\ hdial' = [hdial EXCEPT !.interims = @ + 1]
       \/ hdial' = [hdial EXCEPT !.pc = "origin", !.layer = "channel", !.cap = "root"]
    /\ UNCHANGED <<hdog, hsock, hclock>>

\* finish_origin_tls: set up TLS inside the tunnel, or abort and settle it.
finish_origin_tls ==
    /\ hdial.pc = "origin"
    /\ \/ \E e \in {"EPROTO", "EPROTONOSUPPORT"} \cup (IF Stopped THEN {"ECANCELED"} ELSE {}) :
            hdial' = [hdial EXCEPT !.pc = "tunnel_stop", !.answer = e]
       \/ hdial' = [hdial EXCEPT !.pc = "tunnel_stop", !.answer = "ok", !.layer = "origin"]
    /\ UNCHANGED <<hdog, hsock, hclock>>

\* A result that came late, or after the caller cancelled, is not handed out.
departure_error ==
    IF hdog.expired \/ (hdial.enforced /\ hclock.late) THEN "ETIMEDOUT"
    ELSE IF hclock.cancelled THEN "ECANCELED" ELSE "none"

\* await_route_operation has joined its watchdog; then the route's own decision.
finish_tunnel ==
    /\ Joined("tunnel_stop")
    /\ \/ hdog.pc = "done" /\ Drop("exception")
       \/ departure_error # "none" /\ Drop(departure_error)
       \/ departure_error = "none" /\ hdial.answer # "ok" /\ Drop(hdial.answer)
       \/ /\ departure_error = "none" /\ hdial.answer = "ok"
          /\ hdial' = [hdial EXCEPT !.pc = "done", !.cap = "caller"]
          /\ UNCHANGED hsock
    /\ hdog' = [hdog EXCEPT !.pc = IF @ = "done" THEN "off" ELSE @, !.stop = FALSE]
    /\ UNCHANGED hclock

-----------------------------------------------------------------------------
\* The pump of an aborted TLS stream settles and its root releases the socket,
\* and with the last reference to the retirement the permit.
root_settles ==
    \E a \in 1 .. HdAddresses :
      /\ hsock[a] = "settling"
      /\ hsock' = [hsock EXCEPT ![a] = "none"]
      /\ UNCHANGED <<hdial, hdog, hclock>>
deadline_passes ==
    /\ ~hclock.late
    /\ hclock' = [hclock EXCEPT !.late = TRUE]
    /\ UNCHANGED <<hdial, hdog, hsock>>
cancel_dial ==
    /\ ~hclock.cancelled
    /\ hclock' = [hclock EXCEPT !.cancelled = TRUE]
    /\ UNCHANGED <<hdial, hdog, hsock>>

HdNext ==
    \/ resolve \/ next_address \/ connect_tcp \/ handshake \/ root_released
    \/ watchdog_fires \/ stop_timer \/ finish_setup \/ proxy_connected
    \/ negotiate_connect \/ finish_origin_tls \/ finish_tunnel
    \/ root_settles \/ deadline_passes \/ cancel_dial

HdSpec == HdInit /\ [][HdNext]_hdVars

-----------------------------------------------------------------------------
(* Properties.                                                              *)

\* One permit never stands for two sockets: the next address is dialled only when
\* the TLS root of the last one has released its socket.
OneSocketPerPermit ==
    Cardinality({a \in 1 .. HdAddresses : hsock[a] # "none"}) <= 1

\* What a dial hands out is set up to the last layer, under a permit that is back
\* with the caller; what fails hands out nothing and keeps no socket open; and no
\* watchdog outlives the call that started it.
DialsAreHonest ==
    hdial.pc = "done" =>
      /\ hdog.pc = "off"
      /\ IF hdial.answer = "ok"
         THEN /\ hsock[Attempt] = "open" /\ hdial.cap = "caller"
              /\ hdial.layer = IF hdial.mode = "tunnel" THEN "origin"
                               ELSE IF hdial.secure THEN "tls" ELSE "tcp"
         ELSE \A a \in 1 .. HdAddresses : hsock[a] # "open"

\* A dial fails with ETIMEDOUT or ECANCELED only if the deadline passed or the
\* caller cancelled, although the watchdog stops the operation by cancelling it;
\* and a dial that ended after the watchdog expired is not answered with success.
StopsAreTold ==
    hdial.pc = "done" =>
      /\ hdial.answer = "ETIMEDOUT" => hclock.late
      /\ hdial.answer = "ECANCELED" => hclock.cancelled
      /\ hdial.answer = "ok" /\ hdial.mode = "tunnel" => ~hdog.expired

-----------------------------------------------------------------------------
(***************************************************************************)
(* One call of the HTTP client: the exchange of request and response on a  *)
(* leased connection, the Expect: 100-continue hand-shake, the response    *)
(* watchdog that runs beside a read and may upload the withheld body, the  *)
(* redirects, and the decision to reuse or retire the connection.  The     *)
(* peer sends what it likes, one message part per read.                    *)
(***************************************************************************)
CONSTANTS HxRedirects,   \* max_redirects
          HxInterims     \* informational responses the limit admits

VARIABLES xreq,    \* the call: its configuration, redirects, answer
          xch,     \* exchange_state and the reader
          xdog,    \* response_watchdog_task of the read in progress
          xtime    \* deadlines that have passed, and the caller's token

hxVars == <<xreq, xch, xdog, xtime>>

NoDog == [pc |-> "off", first |-> FALSE, stop |-> FALSE, expired |-> FALSE]
Lease(defer) ==
    [pc |-> "send", pending |-> defer, written |-> "head", writer |-> "main",
     final |-> FALSE, phase |-> "head", interims |-> 0, upFinal |-> FALSE,
     got |-> "none", rc |-> FALSE, failed |-> FALSE, completed |-> FALSE,
     expectExpired |-> FALSE, fallback |-> "none", lease |-> "active",
     kind |-> "none", eof |-> FALSE, extra |-> FALSE]

HxInit ==
    /\ xreq \in [mode : {"buffered", "stream"}, expect : BOOLEAN, bounded : BOOLEAN,
                 enforced : BOOLEAN, first : BOOLEAN, redirects : {0},
                 answer : {"none"}]
    /\ xreq.bounded => xreq.expect
    /\ xreq.first => xreq.bounded
    /\ xreq.bounded /\ ~xreq.enforced => xreq.first
    /\ xch = [Lease(FALSE) EXCEPT !.pc = "prepare", !.writer = "none", !.lease = "none"]
    /\ xdog = NoDog
    /\ xtime = [expect |-> FALSE, response |-> FALSE, cancelled |-> FALSE]

Answers(e) == xreq' = [xreq EXCEPT !.answer = e]

\* The call ends with an error: exchange_state is destroyed, the lease retires.
Fail(e) ==
    /\ Answers(e)
    /\ xch' = [xch EXCEPT !.pc = "done", !.writer = "none",
                          !.lease = IF @ = "active" THEN "retired" ELSE @]
    /\ UNCHANGED <<xdog, xtime>>

-----------------------------------------------------------------------------
(* Sending.                                                                 *)

\* prepare_exchange: token, target and method checks, the lease, serialisation.
prepare_exchange ==
    /\ xch.pc = "prepare"
    /\ \/ xtime.cancelled /\ Fail("ECANCELED")
       \/ Fail("EINVAL")
       \/ Fail("ECONNREFUSED")
       \/ /\ ~xtime.cancelled
          /\ xch' = Lease(xreq.expect)
          /\ xtime' = [xtime EXCEPT !.expect = FALSE, !.response = FALSE]
          /\ UNCHANGED <<xreq, xdog>>

\* write_request_data: how a write may end, for the token it was given.
write_request_data(stopped) ==
    {"ok", "EPIPE"} \cup (IF xreq.enforced /\ xtime.response THEN {"ETIMEDOUT"} ELSE {})
                    \cup (IF stopped THEN {"ECANCELED"} ELSE {})

send_initial ==
    /\ xch.pc = "send"
    /\ \E w \in write_request_data(xtime.cancelled) :
         IF w # "ok" THEN Fail(w)
         ELSE /\ xch' = [xch EXCEPT
                   !.pc = IF xch.pending /\ ~xreq.bounded THEN "fallback" ELSE "next",
                   !.written = IF xch.pending THEN "head" ELSE "all",
                   !.writer = "none"]
              /\ UNCHANGED <<xreq, xdog, xtime>>

\* send_pending_body takes the body before it writes it.
send_pending_body(who) ==
    [xch EXCEPT !.pending = FALSE, !.writer = who, !.written = "part",
                !.upFinal = xch.final]

begin_upload ==
    /\ xch.pc = "fallback"
    /\ IF ~xch.pending THEN xch' = [xch EXCEPT !.pc = "next"] /\ UNCHANGED <<xreq, xdog, xtime>>
       ELSE IF xreq.enforced /\ xtime.response THEN Fail("ETIMEDOUT")
       ELSE /\ xch' = [send_pending_body("main") EXCEPT !.pc = "upload"]
            /\ UNCHANGED <<xreq, xdog, xtime>>
end_upload ==
    /\ xch.pc = "upload"
    /\ \E w \in write_request_data(xtime.cancelled) :
         IF w # "ok" THEN Fail(w)
         ELSE /\ xch' = [xch EXCEPT !.pc = "next", !.written = "all", !.writer = "none"]
              /\ UNCHANGED <<xreq, xdog, xtime>>

-----------------------------------------------------------------------------
(* receive_data: a read beside its watchdog.                                *)

\* The loop of next() and of read_with(): nothing buffered, so receive more.
next_part ==
    /\ xch.pc = "next"
    /\ IF xtime.cancelled THEN Fail("ECANCELED")
       ELSE IF xch.eof THEN Fail("EBADMSG")
       ELSE xch' = [xch EXCEPT !.pc = "receive"] /\ UNCHANGED <<xreq, xdog, xtime>>

waiting_expect == xch.pending /\ xreq.bounded
receive_data ==
    /\ xch.pc = "receive"
    /\ IF xreq.enforced /\ xtime.response
       THEN xch' = [xch EXCEPT !.pc = "got", !.got = "ETIMEDOUT"] /\ UNCHANGED xdog
       ELSE IF waiting_expect /\ xtime.expect
       THEN /\ xch' = [xch EXCEPT !.pc = "got", !.got = "ETIMEDOUT",
                                  !.expectExpired = TRUE]
            /\ UNCHANGED xdog
       ELSE /\ xch' = [xch EXCEPT !.pc = "reading", !.expectExpired = FALSE,
                         !.rc = xtime.cancelled, !.failed = FALSE, !.completed = FALSE]
            /\ xdog' = IF xreq.enforced \/ waiting_expect
                       THEN [NoDog EXCEPT !.pc = "sleep",
                                          !.first = waiting_expect /\ xreq.first]
                       ELSE NoDog
    /\ UNCHANGED <<xreq, xtime>>

\* What the peer may send next (the interims are bounded by the caller's limit).
Parts ==
    CASE xch.phase = "head" ->
           {"100", "103", "final", "final_close", "redirect", "redirect_get", "handoff"}
      [] xch.phase = "body" -> {"chunk", "end", "end_extra"}

\* conn_.read(..., read_cancel) ends; a failure is noted before the watchdog is told.
read_completes ==
    /\ xch.pc = "reading"
    /\ \E r \in Parts \cup {"eof", "ECONNRESET"}
                \cup (IF xch.rc THEN {"ECANCELED"} ELSE {}) :
         xch' = [xch EXCEPT !.pc = "read", !.got = r, !.failed = r \notin Parts]
    /\ UNCHANGED <<xreq, xdog, xtime>>

stop_watchdog ==
    /\ xch.pc = "read"
    /\ xch' = [xch EXCEPT !.pc = "join", !.completed = TRUE,
                          !.rc = @ \/ xch.got \notin Parts,
                          !.failed = xch.got \notin Parts]
    /\ xdog' = [xdog EXCEPT !.stop = TRUE]
    /\ UNCHANGED <<xreq, xtime>>

join_watchdog ==
    /\ xch.pc = "join" /\ xdog.pc \in {"off", "done"}
    /\ xch' = [xch EXCEPT !.pc = "got", !.got = IF xdog.expired THEN "ETIMEDOUT" ELSE @]
    /\ xdog' = NoDog
    /\ UNCHANGED <<xreq, xtime>>

-----------------------------------------------------------------------------
(* response_watchdog_task.                                                  *)

DogEnds == xdog' = [xdog EXCEPT !.pc = "done"]
watchdog_wakes ==
    /\ xdog.pc = "sleep"
    /\ \/ xdog.stop /\ DogEnds /\ UNCHANGED xch
       \/ /\ IF xdog.first THEN xtime.expect ELSE xtime.response
          /\ CASE xch.completed -> DogEnds /\ UNCHANGED xch
               [] ~xch.completed /\ ~xdog.first ->
                    xdog' = [xdog EXCEPT !.pc = "expire"] /\ UNCHANGED xch
               [] ~xch.completed /\ xdog.first /\ ~xch.pending ->
                    xdog' = [xdog EXCEPT !.pc = "uploaded"] /\ UNCHANGED xch
               [] OTHER ->
                    IF xreq.enforced /\ xtime.response
                    THEN /\ xch' = [xch EXCEPT !.pending = FALSE, !.rc = TRUE,
                                               !.fallback = "ETIMEDOUT"]
                         /\ DogEnds
                    ELSE /\ xch' = send_pending_body("dog")
                         /\ xdog' = [xdog EXCEPT !.pc = "upload"]
    /\ UNCHANGED <<xreq, xtime>>

\* An upload stopped because the read failed does not replace the read's error.
watchdog_uploads ==
    /\ xdog.pc = "upload"
    /\ \E w \in write_request_data(xch.rc) :
         IF w = "ok"
         THEN /\ xch' = [xch EXCEPT !.written = "all", !.writer = "none"]
              /\ xdog' = [xdog EXCEPT !.pc = "uploaded"]
         ELSE /\ xch' = [xch EXCEPT !.writer = "none", !.rc = TRUE,
                           !.fallback = IF w = "ETIMEDOUT" \/ ~xch.failed THEN w ELSE @]
              /\ DogEnds
    /\ UNCHANGED <<xreq, xtime>>

watchdog_waits_on ==
    /\ xdog.pc = "uploaded"
    /\ \/ (~xreq.enforced \/ xch.completed \/ xdog.stop) /\ DogEnds
       \/ /\ xreq.enforced /\ ~xch.completed /\ xtime.response
          /\ xdog' = [xdog EXCEPT !.pc = "expire"]
    /\ UNCHANGED <<xreq, xch, xtime>>

watchdog_expires ==
    /\ xdog.pc = "expire"
    /\ xdog' = [xdog EXCEPT !.pc = "done", !.expired = TRUE]
    /\ xch' = [xch EXCEPT !.rc = TRUE]
    /\ UNCHANGED <<xreq, xtime>>

-----------------------------------------------------------------------------
(* next(): what a part means.                                               *)

Interim == {"100", "103"}
Heads == {"final", "final_close", "redirect", "redirect_get"}
Errors == {"ETIMEDOUT", "ECONNRESET", "ECANCELED"}

\* A failed read: the watchdog's error first; an expired Expect starts the upload.
next_failed ==
    /\ xch.pc = "got" /\ xch.got \in Errors
    /\ IF xch.fallback # "none" THEN Fail(xch.fallback)
       ELSE IF xch.expectExpired /\ xch.pending /\ ~xtime.cancelled
       THEN xch' = [xch EXCEPT !.pc = "fallback"] /\ UNCHANGED <<xreq, xdog, xtime>>
       ELSE Fail(xch.got)

\* finish_eof: a head or a delimited body that is cut short is an error; a body
\* that the close delimits is complete.
next_eof ==
    /\ xch.pc = "got" /\ xch.got = "eof"
    /\ IF xch.fallback # "none" THEN Fail(xch.fallback)
       ELSE \/ Fail("EBADMSG")
            \/ /\ xch.phase = "body"
               /\ xch' = [xch EXCEPT !.pc = "complete", !.eof = TRUE]
               /\ UNCHANGED <<xreq, xdog, xtime>>

next_headers ==
    /\ xch.pc = "got" /\ xch.got \in Heads /\ xch.fallback = "none"
    /\ xch' = [xch EXCEPT !.pc = "head", !.final = TRUE, !.phase = "body",
                          !.pending = FALSE, !.kind = xch.got]
    /\ UNCHANGED <<xreq, xdog, xtime>>

next_interim ==
    /\ xch.pc = "got" /\ xch.got \in Interim /\ xch.fallback = "none"
    /\ IF xch.interims >= HxInterims THEN Fail("EMSGSIZE")
       ELSE /\ xch' = [xch EXCEPT !.interims = @ + 1,
                                  !.pc = IF xch.got = "100" THEN "fallback" ELSE "next"]
            /\ UNCHANGED <<xreq, xdog, xtime>>

next_refused ==
    /\ xch.pc = "got" /\ xch.got \notin (Errors \cup {"eof"})
    /\ \/ xch.fallback # "none" /\ Fail(xch.fallback)
       \/ xch.fallback = "none" /\ xch.got = "handoff" /\ Fail("EBADMSG")

next_body ==
    /\ xch.pc = "got" /\ xch.got \in {"chunk", "end", "end_extra"}
    /\ xch.fallback = "none"
    /\ \/ xch.got = "chunk" /\ Fail("EMSGSIZE")
       \/ /\ xch' = [xch EXCEPT !.pc = IF xch.got = "chunk" THEN "next" ELSE "complete",
                                !.extra = xch.got = "end_extra"]
          /\ UNCHANGED <<xreq, xdog, xtime>>

-----------------------------------------------------------------------------
(* send_request, with_response_impl and make_redirect.                      *)

\* make_redirect decides from the status, the count and the location; "redirect"
\* keeps method and body, "redirect_get" turns into a GET without one.
make_redirect ==
    /\ xch.kind \in {"redirect", "redirect_get"}
    /\ xreq.redirects < HxRedirects

follow(disposition) ==
    /\ xreq' = [xreq EXCEPT !.redirects = @ + 1,
                            !.expect = @ /\ xch.kind = "redirect",
                            !.bounded = @ /\ xch.kind = "redirect"]
    /\ xch' = [Lease(FALSE) EXCEPT !.pc = "prepare", !.writer = "none",
                                   !.lease = disposition]
    /\ UNCHANGED <<xdog, xtime>>

\* The head is known: the streaming call follows a redirect at once, or gives
\* the body to its handler, which may stop reading.  The buffered call reads on;
\* it remembers the head by its kind.
on_head ==
    /\ xch.pc = "head"
    /\ IF xreq.mode = "stream" /\ make_redirect THEN follow("retired")
       ELSE \/ /\ xch' = [xch EXCEPT !.pc = "next"]
               /\ UNCHANGED <<xreq, xdog, xtime>>
            \/ /\ xreq.mode = "stream"
               /\ \E e \in {"response", "exception"} : Fail(e)

reusable == ~xch.eof /\ ~xch.extra /\ xch.kind # "final_close"

\* finish(token), then the answer or, for a buffered call, the redirect.
finish_exchange ==
    /\ xch.pc = "complete"
    /\ IF xreq.mode = "stream" /\ xtime.cancelled THEN Fail("ECANCELED")
       ELSE LET d == IF ~xtime.cancelled /\ reusable THEN "returned" ELSE "retired" IN
            IF xreq.mode = "buffered" /\ make_redirect THEN follow(d)
            ELSE
               /\ Answers("response")
               /\ xch' = [xch EXCEPT !.pc = "done", !.lease = d]
               /\ UNCHANGED <<xdog, xtime>>

-----------------------------------------------------------------------------
(* Time and the caller.                                                     *)

expect_deadline ==
    /\ ~xtime.expect /\ xreq.bounded
    /\ xreq.first \/ xtime.response
    /\ xtime' = [xtime EXCEPT !.expect = TRUE]
    /\ UNCHANGED <<xreq, xch, xdog>>
response_deadline ==
    /\ ~xtime.response /\ xreq.enforced /\ (xreq.first => xtime.expect)
    /\ xtime' = [xtime EXCEPT !.response = TRUE]
    /\ UNCHANGED <<xreq, xch, xdog>>
\* The callback of receive_data forwards it to the read.
cancel_call ==
    /\ ~xtime.cancelled
    /\ xtime' = [xtime EXCEPT !.cancelled = TRUE]
    /\ xch' = [xch EXCEPT !.rc = @ \/ xch.pc \in {"reading", "read", "join"}]
    /\ UNCHANGED <<xreq, xdog>>

HxNext ==
    \/ prepare_exchange \/ send_initial \/ begin_upload \/ end_upload \/ next_part
    \/ receive_data \/ read_completes \/ stop_watchdog \/ join_watchdog
    \/ watchdog_wakes \/ watchdog_uploads \/ watchdog_waits_on \/ watchdog_expires
    \/ next_failed \/ next_eof \/ next_headers \/ next_interim \/ next_refused
    \/ next_body \/ on_head \/ finish_exchange
    \/ expect_deadline \/ response_deadline \/ cancel_call

HxSpec == HxInit /\ [][HxNext]_hxVars

-----------------------------------------------------------------------------
(* Properties.                                                              *)

\* The withheld body is uploaded at most once, by one writer, and not begun when
\* the final response's head has been seen, although caller and watchdog both
\* may upload it; and outside a read no watchdog is left.
UploadsOnce ==
    /\ xdog.pc = "upload" <=> xch.writer = "dog"
    /\ xch.writer = "dog" => xch.pc \in {"reading", "read", "join"} /\ ~xch.pending
    /\ ~xch.upFinal
    /\ xch.written = "all" => ~xch.pending
    /\ xdog.pc # "off" => xch.pc \in {"reading", "read", "join"}

\* A connection goes back to the pool only after a complete response that keeps it
\* alive, without bytes left over, and never with a request body cut short: it was
\* written whole, or not begun because the final response came first (reusable()
\* pools the connection of a withheld body that will never be sent).
ReusedIsClean ==
    xch.lease = "active" /\ xch'.lease = "returned" =>
      /\ xch.final /\ xch.kind # "final_close" /\ ~xch.eof /\ ~xch.extra
      /\ xch.written # "part" /\ xch.writer = "none" /\ xdog.pc = "off"

\* A call that failed with ECANCELED was cancelled, one that failed with ETIMEDOUT
\* ran past its response deadline (or was cancelled as its Expect wait expired):
\* the errors by which caller, read and watchdog stop each other do not reach the
\* caller.
ErrorsAreTheCallers ==
    /\ xreq'.redirects <= HxRedirects
    /\ xreq'.answer = "ECANCELED" => xtime.cancelled
    /\ xreq'.answer = "ETIMEDOUT" => xtime.response \/ xtime.cancelled

=============================================================================
