---------------------------- MODULE ObjectCache ----------------------------
(***************************************************************************)
(* sync::object_cache: get-or-create with coalesced construction, counted  *)
(* borrows, release() of the value by the last borrower, eviction, and the *)
(* sweeper.  One key and its shard; its reclaim list is the set of entries *)
(* marked listed (the order of the list decides nothing).  Delays and      *)
(* times to live pass at any time, so what depends on them is a choice.    *)
(***************************************************************************)
EXTENDS Integers, FiniteSets

CONSTANTS OcActors,    \* coroutines that use the cache
          OcEntries    \* entries alive at a time (1..n)

VARIABLES oentry,   \* the entries
          oindex,   \* the entry map[key] holds, 0 when none
          oact,     \* what each actor does, on which entry
          ocache    \* the cache object and its sweeper

ocVars == <<oentry, oindex, oact, ocache>>

NoEntry ==
    [state |-> "none", refs |-> 0, value |-> FALSE, evict |-> FALSE, requested |-> FALSE,
     slot |-> FALSE, listed |-> FALSE]
Out == [pc |-> "out", e |-> 0]

OcInit ==
    /\ oentry = [e \in OcEntries |-> NoEntry]
    /\ oindex = 0
    /\ oact = [a \in OcActors |-> Out]
    /\ ocache = [up |-> TRUE, sweep |-> "off"]

internals_live == ocache.up \/ ocache.sweep \in {"listed", "ttl"}
Goto(a, pc, e) == oact' = [oact EXCEPT ![a] = [pc |-> pc, e |-> e]]
In(a, pc) == oact[a].pc = pc
\* An entry nobody points to is freed.
fresh == {e \in OcEntries : e # oindex /\ \A a \in OcActors : oact[a].e # e}

reclaim_push_back(x) == [x EXCEPT !.listed = TRUE]
reclaim_unlink(x) == [x EXCEPT !.listed = FALSE]
is_ttl_expired == BOOLEAN

-----------------------------------------------------------------------------
(* get().                                                                   *)

\* The sweeper is started once; the scheduler may refuse it.
ensure_sweep_running ==
    IF ocache.sweep = "off" THEN \E s \in {"off", "sleep"} : ocache' = [ocache EXCEPT !.sweep = s]
    ELSE UNCHANGED ocache
get(a) ==
    /\ In(a, "out") /\ ocache.up
    /\ ensure_sweep_running
    /\ Goto(a, "look", 0)
    /\ UNCHANGED <<oentry, oindex>>

\* One pass under the shard's mutex: borrow, wait for the constructor, or construct.
look(a) ==
    /\ In(a, "look")
    /\ \E late \in is_ttl_expired :
       LET e == oindex
           there == e # 0
           st == IF there THEN oentry[e].state ELSE "none"
           stale == there /\ ((st = "ready" /\ late) \/ st = "failed")
           dropped == IF stale /\ st = "ready"
                      THEN [oentry EXCEPT ![e] = reclaim_unlink([@ EXCEPT !.evict = TRUE])]
                      ELSE oentry
       IN  IF there /\ ~stale
           THEN /\ IF st = "ready"
                   THEN /\ Goto(a, "hold", e)
                        /\ oentry' = [oentry EXCEPT ![e] =
                                        reclaim_unlink([@ EXCEPT !.refs = @ + 1])]
                   ELSE Goto(a, "wait", e) /\ UNCHANGED oentry
                /\ UNCHANGED oindex
           ELSE \E n \in fresh :
                  /\ \A m \in fresh : n <= m
                  /\ oentry' = [dropped EXCEPT ![n] = [NoEntry EXCEPT !.state = "constructing"]]
                  /\ oindex' = n /\ Goto(a, "construct", n)
    /\ UNCHANGED ocache

\* The ready event was set: only an entry that is still indexed is borrowed.
await_ready(a) ==
    /\ In(a, "wait") /\ oentry[oact[a].e].state # "constructing"
    /\ LET e == oact[a].e IN
       IF oentry[e].state = "failed" THEN Goto(a, "out", 0) /\ UNCHANGED oentry
       ELSE IF oindex # e THEN Goto(a, "look", 0) /\ UNCHANGED oentry
       ELSE /\ oentry' = [oentry EXCEPT ![e] = reclaim_unlink([@ EXCEPT !.refs = @ + 1])]
            /\ Goto(a, "hold", e)
    /\ UNCHANGED <<oindex, ocache>>

construct_ok(a) ==
    /\ In(a, "construct")
    /\ LET e == oact[a].e IN
       /\ oentry' = [oentry EXCEPT ![e].value = TRUE, ![e].refs = @ + 1, ![e].state = "ready"]
       /\ Goto(a, "hold", e)
    /\ UNCHANGED <<oindex, ocache>>
\* The factory throws: the waiters are told before the entry leaves the index.
construct_fails(a) ==
    /\ In(a, "construct")
    /\ oentry' = [oentry EXCEPT ![oact[a].e].state = "failed"]
    /\ Goto(a, "erase", oact[a].e)
    /\ UNCHANGED <<oindex, ocache>>
erase_failed(a) ==
    /\ In(a, "erase")
    /\ oindex' = IF oindex = oact[a].e THEN 0 ELSE oindex
    /\ Goto(a, "out", 0)
    /\ UNCHANGED <<oentry, ocache>>
\* The frame is destroyed during construction: construction_guard does both.
guard_erases(a) ==
    /\ In(a, "construct")
    /\ oindex' = IF oindex = oact[a].e THEN 0 ELSE oindex
    /\ Goto(a, "unwind", oact[a].e)
    /\ UNCHANGED <<oentry, ocache>>
guard_fails(a) ==
    /\ In(a, "unwind")
    /\ oentry' = [oentry EXCEPT ![oact[a].e].state = "failed"]
    /\ Goto(a, "out", 0)
    /\ UNCHANGED <<oindex, ocache>>

-----------------------------------------------------------------------------
(* borrow.                                                                  *)

\* reset(): the one before last wakes a releaser, the last makes the entry idle.
reset(a) ==
    /\ In(a, "hold")
    /\ LET e == oact[a].e
           prev == oentry[e].refs
       IN  /\ oentry' = [oentry EXCEPT ![e].refs = @ - 1]
           /\ IF prev = 2 THEN Goto(a, "take", e)
              ELSE IF prev = 1 THEN Goto(a, "idle", e) ELSE Goto(a, "out", 0)
    /\ UNCHANGED <<oindex, ocache>>
take_waiter(a) ==
    /\ In(a, "take")
    /\ LET e == oact[a].e
           woken == {b \in OcActors : oact[b].e = e /\ oact[b].pc \in {"confirm", "parked"}
                                      /\ oentry[e].slot}
       IN  /\ oact' = [b \in OcActors |->
                         IF b = a THEN Out
                         ELSE IF b \in woken THEN [oact[b] EXCEPT !.pc = "extract"]
                         ELSE oact[b]]
           /\ oentry' = [oentry EXCEPT ![e].slot = FALSE]
    /\ UNCHANGED <<oindex, ocache>>
enqueue_for_reclaim(a) ==
    /\ In(a, "idle")
    /\ LET e == oact[a].e IN
       oentry' = IF /\ internals_live /\ oindex = e /\ oentry[e].refs = 0
                    /\ ~oentry[e].listed /\ ~oentry[e].evict
                 THEN [oentry EXCEPT ![e] = reclaim_push_back(@)] ELSE oentry
    /\ Goto(a, "out", 0)
    /\ UNCHANGED <<oindex, ocache>>

remove_from_index(e) ==
    /\ oentry' = IF internals_live THEN [oentry EXCEPT ![e] = reclaim_unlink(@)] ELSE oentry
    /\ oindex' = IF internals_live /\ oindex = e THEN 0 ELSE oindex
mark_evict(a) ==
    /\ In(a, "hold")
    /\ LET e == oact[a].e IN
       /\ oentry' = [oentry EXCEPT ![e].evict = TRUE]
       /\ Goto(a, IF oentry[e].evict THEN "hold" ELSE "evicting", e)
    /\ UNCHANGED <<oindex, ocache>>
evicting(a) ==
    /\ In(a, "evicting")
    /\ remove_from_index(oact[a].e)
    /\ Goto(a, "hold", oact[a].e)
    /\ UNCHANGED ocache

\* release(): one releaser per entry; it waits until it is the last borrower.
MutRelease(a) ==
    /\ In(a, "hold")
    /\ oentry' = [oentry EXCEPT ![oact[a].e].requested = TRUE]
    /\ Goto(a, "unindex", oact[a].e)
    /\ UNCHANGED <<oindex, ocache>>
release(a) ==
    /\ In(a, "hold")
    /\ LET e == oact[a].e IN
       /\ oentry' = [oentry EXCEPT ![e].requested = TRUE]
       /\ Goto(a, IF oentry[e].requested THEN "hold" ELSE "unindex", e)
    /\ UNCHANGED <<oindex, ocache>>
unindex(a) ==
    /\ In(a, "unindex")
    /\ remove_from_index(oact[a].e)
    /\ Goto(a, "check", oact[a].e)
    /\ UNCHANGED ocache
last_borrower(a) ==
    /\ In(a, "check")
    /\ Goto(a, IF oentry[oact[a].e].refs > 1 THEN "publish" ELSE "extract", oact[a].e)
    /\ UNCHANGED <<oentry, oindex, ocache>>
\* register_waiter publishes the waiter, then looks again before it parks.
publish(a) ==
    /\ In(a, "publish")
    /\ oentry' = [oentry EXCEPT ![oact[a].e].slot = TRUE]
    /\ Goto(a, "confirm", oact[a].e)
    /\ UNCHANGED <<oindex, ocache>>
confirm(a) ==
    /\ In(a, "confirm")
    /\ LET e == oact[a].e
           last == oentry[e].refs = 1
       IN  /\ oentry' = [oentry EXCEPT ![e].slot = @ /\ ~last]
           /\ Goto(a, IF last THEN "extract" ELSE "parked", e)
    /\ UNCHANGED <<oindex, ocache>>
\* The frame of a parked release() is destroyed: its borrow is held as before.
abandon(a) ==
    /\ In(a, "parked") /\ oentry[oact[a].e].slot
    /\ oentry' = [oentry EXCEPT ![oact[a].e].slot = FALSE]
    /\ Goto(a, "hold", oact[a].e)
    /\ UNCHANGED <<oindex, ocache>>
extract(a) ==
    /\ In(a, "extract")
    /\ oentry' = [oentry EXCEPT ![oact[a].e].value = FALSE, ![oact[a].e].refs = @ - 1]
    /\ Goto(a, "out", 0)
    /\ UNCHANGED <<oindex, ocache>>

-----------------------------------------------------------------------------
(* Eviction, the sweeper, the end of the cache.                             *)

evict ==
    /\ ocache.up /\ oindex # 0
    /\ oentry' = [oentry EXCEPT ![oindex] = reclaim_unlink([@ EXCEPT !.evict = TRUE])]
    /\ oindex' = 0
    /\ UNCHANGED <<oact, ocache>>

sweep_starts ==
    /\ ocache.sweep = "sleep"
    /\ ocache' = [ocache EXCEPT !.sweep = IF ocache.up THEN "listed" ELSE "done"]
    /\ UNCHANGED <<oentry, oindex, oact>>
\* First pass: entries of the reclaim list that are borrowed again leave it, those
\* past their delay or time to live leave the index too.
sweep_listed ==
    /\ ocache.sweep = "listed"
    /\ \E gone \in SUBSET {e \in OcEntries : oentry[e].listed /\ oentry[e].refs = 0} :
         /\ oentry' = [e \in OcEntries |->
                         IF e \in gone \/ oentry[e].refs > 0 THEN reclaim_unlink(oentry[e])
                         ELSE oentry[e]]
         /\ oindex' = IF oindex \in gone THEN 0 ELSE oindex
    /\ ocache' = [ocache EXCEPT !.sweep = "ttl"]
    /\ UNCHANGED oact
\* Second pass: every ready entry past its time to live is evicted, borrowed or not.
\* A cache destroyed during the sweep ends with it.
sweep_ttl ==
    /\ ocache.sweep = "ttl"
    /\ \E late \in is_ttl_expired :
         LET old == late /\ oindex # 0 /\ oentry[oindex].state = "ready" IN
         /\ oentry' = IF old THEN [oentry EXCEPT ![oindex] =
                                     reclaim_unlink([@ EXCEPT !.evict = TRUE])]
                      ELSE IF ocache.up THEN oentry
                      ELSE [e \in OcEntries |-> reclaim_unlink(oentry[e])]
         /\ oindex' = IF old \/ ~ocache.up THEN 0 ELSE oindex
    /\ ocache' = [ocache EXCEPT !.sweep = "sleep"]
    /\ UNCHANGED oact
\* ~object_cache, which nobody may be calling; borrows outlive it.
destroy ==
    /\ ocache.up
    /\ \A a \in OcActors : oact[a].pc \notin {"look", "wait", "construct", "erase", "unwind"}
    /\ ocache' = [ocache EXCEPT !.up = FALSE]
    /\ IF ocache.sweep \in {"listed", "ttl"} THEN UNCHANGED <<oentry, oindex>>
       ELSE /\ oindex' = 0
            /\ oentry' = [e \in OcEntries |-> reclaim_unlink(oentry[e])]
    /\ UNCHANGED oact
OcStep(a) ==
    \/ get(a) \/ look(a) \/ await_ready(a) \/ construct_ok(a) \/ construct_fails(a)
    \/ erase_failed(a) \/ guard_erases(a) \/ guard_fails(a) \/ reset(a) \/ take_waiter(a)
    \/ enqueue_for_reclaim(a) \/ mark_evict(a) \/ evicting(a) \/ release(a) \/ unindex(a)
    \/ last_borrower(a) \/ publish(a) \/ confirm(a) \/ abandon(a) \/ extract(a)
OcNext ==
    \/ \E a \in OcActors : OcStep(a)
    \/ evict \/ sweep_starts \/ sweep_listed \/ sweep_ttl \/ destroy
OcSpec == OcInit /\ [][OcNext]_ocVars

-----------------------------------------------------------------------------
At(pcs, e) == {a \in OcActors : oact[a].pc \in pcs /\ oact[a].e = e}
Borrowers(e) == At({"hold", "evicting", "unindex", "check", "publish", "confirm", "parked",
                    "extract"}, e)

\* The count of an entry is the number of its borrows, and a borrower has a value
\* to use unless a release() of the entry was begun (get, reset, release).
BorrowsAreCounted ==
    \A e \in OcEntries :
      /\ oentry[e].refs = Cardinality(Borrowers(e))
      /\ Borrowers(e) # {} /\ ~oentry[e].requested => oentry[e].value
      /\ Cardinality(At({"unindex", "check", "publish", "confirm", "parked", "extract"}, e)) <= 1

\* "object_cache release waits for other borrows" (tests/unit/test_object_cache.cpp):
\* the value is taken out only when the releaser is the last borrower.
ReleaseWaitsForOthers ==
    \A e \in OcEntries : At({"extract"}, e) # {} => Cardinality(Borrowers(e)) = 1

\* The list holds raw pointers: an entry on it is owned by the index.  An indexed
\* entry that nobody borrows is on the list, or about to be, so that the sweeper
\* reaches it; one marked for eviction leaves the index.
IdleIsReclaimable ==
    /\ \A e \in OcEntries : oentry[e].listed => oindex = e /\ oentry[e].state = "ready"
    /\ oindex # 0 /\ oentry[oindex].state = "ready" =>
         /\ oentry[oindex].refs = 0 /\ ~oentry[oindex].evict =>
              oentry[oindex].listed \/ At({"idle"}, oindex) # {}
         /\ oentry[oindex].evict => At({"evicting"}, oindex) # {}

\* Construction is coalesced: the key is under construction twice at once only when
\* the first entry was evicted; nobody waits for an entry that nobody constructs, nor
\* for other borrowers when it is the last one (get_impl, construction_guard, release).
NobodyWaitsForNothing ==
    /\ \A e \in OcEntries :
         oentry[e].state = "constructing" =>
           /\ Cardinality(At({"construct", "unwind"}, e)) = 1
           /\ oindex = e \/ oentry[e].evict \/ At({"unwind"}, e) # {}
    /\ \A a \in OcActors :
         /\ oact[a].pc = "wait" => oentry[oact[a].e].state # "none"
         /\ oact[a].pc = "parked" =>
              oentry[oact[a].e].refs > 1 \/ At({"take"}, oact[a].e) # {}
============================================================================
