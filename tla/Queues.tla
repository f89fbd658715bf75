------------------------------- MODULE Queues -------------------------------
(***************************************************************************)
(* The lock-free queues side by side: the work-stealing deque of a worker, *)
(* its inbox and the ring of a bounded channel.  They are checked one at a *)
(* time: a behaviour uses one of them, "used", and the others stay as they *)
(* were constructed.                                                       *)
(***************************************************************************)
EXTENDS ChaseLevDeque

CONSTANTS Producers, Consumers,         \* of the ring
          PushesEach,                   \* the values a producer pushes
          Submitters,                   \* the producers of the inbox
          SlotCount,                    \* the capacity of the ring and the inbox
          Nothing                       \* no value

(* A ring has at least two slots, which its constructor sees to; a thread   *)
(* of the ring pushes or pops.                                              *)
ASSUME QueuesAssumption ==
    /\ SlotCount \in Nat \ {0, 1}
    /\ PushesEach \in Nat
    /\ Producers \cap Consumers = {}
    /\ Nothing \notin (Producers \X (1..PushesEach)) \cup Submitters

(* The values of the ring: the i-th that producer p pushes. *)
RingWork == [p \in Producers |-> [i \in 1..PushesEach |-> <<p, i>>]]

VARIABLES
    used,
    r_head, r_tail, r_sequence, r_value, r_at, r_pushed, r_got, r_taken, r_pc,
    i_head, i_tail, i_sequence, i_data, i_at, i_item, i_taken, i_pc, i_consumer

Ring == INSTANCE LockfreeRing
          WITH Work <- RingWork, Capacity <- SlotCount, None <- Nothing,
               head <- r_head, tail <- r_tail, sequence <- r_sequence,
               value <- r_value, at <- r_at, pushed <- r_pushed, got <- r_got,
               taken <- r_taken, pc <- r_pc

Inbox == INSTANCE MpscQueue
           WITH Producers <- Submitters, Capacity <- SlotCount, None <- Nothing,
                head <- i_head, tail <- i_tail, sequence <- i_sequence,
                data <- i_data, at <- i_at, item <- i_item, taken <- i_taken,
                pc <- i_pc, consumer <- i_consumer

ringVars == <<r_head, r_tail, r_sequence, r_value, r_at, r_pushed, r_got, r_taken, r_pc>>
inboxVars == <<i_head, i_tail, i_sequence, i_data, i_at, i_item, i_taken, i_pc, i_consumer>>
queueVars == <<used, vars, ringVars, inboxVars>>

QueuesInit ==
    /\ used \in {"deque", "ring", "inbox"}
    /\ Init /\ Ring!Init /\ Inbox!Init

QueuesNext ==
    /\ \/ used = "deque" /\ Next /\ UNCHANGED <<ringVars, inboxVars>>
       \/ used = "ring" /\ Ring!Next /\ UNCHANGED <<vars, inboxVars>>
       \/ used = "inbox" /\ Inbox!Next /\ UNCHANGED <<vars, ringVars>>
    /\ UNCHANGED used

QueuesSpec == QueuesInit /\ [][QueuesNext]_queueVars

-----------------------------------------------------------------------------
(* A slot of the ring belongs to one thread: nobody writes a value another  *)
(* has not yet moved out, and nobody reads one that is not there.  The      *)
(* inductive invariants of the ring and the inbox say why.                  *)
SlotsAreExclusive == Ring!SlotsAreExclusive /\ Ring!IndInv /\ Inbox!IndInv

(* Ring and inbox are queues: values go in in the order positions are       *)
(* claimed and come out once, in that order.                                *)
QueuesAreFifo == Ring!ImplementsFifo /\ Inbox!ImplementsFifo

=============================================================================
