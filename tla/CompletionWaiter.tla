-------------------------- MODULE CompletionWaiter --------------------------
(***************************************************************************)
(* coro::detail::completion_waiter_slot: one place for the coroutine that  *)
(* waits for a completion.  Each operation runs under the lock of the slot *)
(* and is a function on its state.  A producer first selects the waiter    *)
(* (take_if, which returns a lease) and later claims its handle; the       *)
(* waiter may be destroyed in between.                                     *)
(***************************************************************************)
EXTENDS Naturals

Nobody == "nobody"

EmptySlot == [waiter |-> Nobody, generation |-> 0]

(* Odd generations hold a selected wake. *)
selected(slot) == slot.generation % 2 = 1

(* register_waiter returns true, and registers w, unless it is ready. *)
registers(slot, ready) == ~ready /\ slot.waiter = Nobody

register_waiter(slot, w) == [slot EXCEPT !.waiter = w]

(* take_if returns a lease for the generation it moves to. *)
takes(slot, ready) == slot.waiter # Nobody /\ ~selected(slot) /\ ready

take_if(slot) == [slot EXCEPT !.generation = @ + 1]

(* claim of a lease returns the handle if its generation is still selected. *)
claims(slot, generation) == selected(slot) /\ slot.generation = generation

claim(slot) == [waiter |-> Nobody, generation |-> slot.generation + 1]

(* The destructor of the waiter. *)
remove(slot, w) ==
    IF slot.waiter # w THEN slot
    ELSE [waiter     |-> Nobody,
          generation |-> slot.generation + (IF selected(slot) THEN 1 ELSE 0)]

=============================================================================
