-------------------------------- MODULE Fifo --------------------------------
(***************************************************************************)
(* What a queue between producers and consumers promises: the values come  *)
(* out in the order they went in, each once, and none is lost.             *)
(***************************************************************************)
EXTENDS Naturals, Sequences

CONSTANT Values   \* what can be put, each at most once

VARIABLES items,   \* the values in the queue, oldest first
          taken    \* how often each value has been taken

Init == items = <<>> /\ taken = [v \in Values |-> 0]

(* Values that were never in the queue are put into it. *)
Put ==
    /\ \E n \in 1..Len(items') :
        /\ SubSeq(items', 1, Len(items') - n) = items
        /\ \A i \in (Len(items') - n + 1)..Len(items') :
            /\ items'[i] \in Values /\ taken[items'[i]] = 0
            /\ \A j \in 1..(i - 1) : items'[j] # items'[i]
    /\ UNCHANGED taken

(* The oldest value is taken out. *)
Take ==
    /\ items # <<>>
    /\ items' = Tail(items)
    /\ taken' = [taken EXCEPT ![Head(items)] = @ + 1]

(* A value passes from its producer to a consumer through the empty queue. *)
Pass ==
    /\ items = <<>>
    /\ UNCHANGED items
    /\ \E v \in Values : taken[v] = 0 /\ taken' = [taken EXCEPT ![v] = 1]

Next == Put \/ Take \/ Pass

Spec == Init /\ [][Next]_<<items, taken>>

=============================================================================
