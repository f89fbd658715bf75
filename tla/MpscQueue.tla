----------------------------- MODULE MpscQueue -----------------------------
(***************************************************************************)
(* runtime::mpsc_queue, a worker's inbox: many producers, one consumer.    *)
(* One atomic access of the code to a step.  Each producer pushes one item *)
(* (itself), trying again when the queue was full.                         *)
(***************************************************************************)
EXTENDS Integers, Sequences, FiniteSets

CONSTANTS Producers,
          Capacity,   \* a power of two
          None        \* no item

VARIABLES
    head, tail,        \* head_, tail_
    sequence, data,    \* the slots
    at,                \* pos: the position a producer works on
    item,              \* the item the consumer has loaded
    taken,             \* how often each item was popped
    pc, consumer       \* program counters

slots == <<sequence, data>>
vars  == <<head, tail, slots, at, item, taken, pc, consumer>>

Slots == 0..(Capacity - 1)
Slot(pos) == pos % Capacity

Init ==
    /\ head = 0
    /\ tail = 0
    /\ sequence = [s \in Slots |-> s]
    /\ data = [s \in Slots |-> None]
    /\ at = [p \in Producers |-> 0]
    /\ item = None
    /\ taken = [p \in Producers |-> 0]
    /\ pc = [p \in Producers |-> "idle"]
    /\ consumer = "idle"

Goto(p, from, to) == pc[p] = from /\ pc' = [pc EXCEPT ![p] = to]

(* push(): load tail_, when it starts and when another producer was faster. *)
LoadTail(p) ==
    /\ Goto(p, "idle", "sequence")
    /\ at' = [at EXCEPT ![p] = tail]
    /\ UNCHANGED <<head, tail, slots, item, taken, consumer>>

(* The slot is free, or the queue is full, or the position is stale. *)
LoadSequence(p) ==
    /\ Goto(p, "sequence", IF sequence[Slot(at[p])] = at[p] THEN "exchange" ELSE "idle")
    /\ UNCHANGED <<head, tail, slots, at, item, taken, consumer>>

(* Mutant of Exchange: tail_ is advanced without comparing. *)
MutExchange(p) ==
    /\ Goto(p, "exchange", "write")
    /\ tail' = at[p] + 1
    /\ UNCHANGED <<head, slots, at, item, taken, consumer>>

(* compare_exchange_weak on tail_; a failure, which need not have a reason, *)
(* reloads it.                                                              *)
Exchange(p) ==
    /\ \/ /\ tail = at[p]
          /\ tail' = at[p] + 1
          /\ Goto(p, "exchange", "write")
          /\ UNCHANGED at
       \/ /\ Goto(p, "exchange", "sequence")
          /\ at' = [at EXCEPT ![p] = tail]
          /\ UNCHANGED tail
    /\ UNCHANGED <<head, slots, item, taken, consumer>>

Write(p) ==
    /\ Goto(p, "write", "publish")
    /\ data' = [data EXCEPT ![Slot(at[p])] = p]
    /\ UNCHANGED <<head, tail, sequence, at, item, taken, consumer>>

Publish(p) ==
    /\ Goto(p, "publish", "done")
    /\ sequence' = [sequence EXCEPT ![Slot(at[p])] = at[p] + 1]
    /\ UNCHANGED <<head, tail, data, at, item, taken, consumer>>

-----------------------------------------------------------------------------
(* empty(): the first slot has not been published. *)
empty == sequence[Slot(head)] < head + 1

(* pop(): load the item, ... *)
Pop ==
    /\ consumer = "idle" /\ ~empty
    /\ item' = data[Slot(head)]
    /\ consumer' = "release"
    /\ UNCHANGED <<head, tail, slots, at, taken, pc>>

(* ... give the slot to the next round and advance head_. *)
Release ==
    /\ consumer = "release"
    /\ sequence' = [sequence EXCEPT ![Slot(head)] = head + Capacity]
    /\ consumer' = "advance"
    /\ UNCHANGED <<head, tail, data, at, item, taken, pc>>

Advance ==
    /\ consumer = "advance"
    /\ head' = head + 1
    /\ taken' = [taken EXCEPT ![item] = @ + 1]
    /\ item' = None
    /\ consumer' = "idle"
    /\ UNCHANGED <<tail, slots, at, pc>>

push(p) == LoadTail(p) \/ LoadSequence(p) \/ Exchange(p) \/ Write(p) \/ Publish(p)
pop == Pop \/ Release \/ Advance

Next == pop \/ \E p \in Producers : push(p)

Spec == Init /\ [][Next]_vars

-----------------------------------------------------------------------------
(* As in the ring, every slot has one position in a window of the queue's   *)
(* capacity.  The window begins at head_, or after it once the consumer has *)
(* given the first slot back and not yet advanced: its next round may       *)
(* already be claimed then.                                                 *)
first == IF consumer = "advance" THEN head + 1 ELSE head

Claims(p) == pc[p] \in {"write", "publish"}

TypeInv ==
    /\ head \in Nat /\ tail \in Nat
    /\ sequence \in [Slots -> Nat]
    /\ data \in [Slots -> Producers \cup {None}]
    /\ at \in [Producers -> Nat]
    /\ item \in Producers \cup {None}
    /\ taken \in [Producers -> Nat]
    /\ pc \in [Producers -> {"idle", "sequence", "exchange", "write", "publish", "done"}]
    /\ consumer \in {"idle", "release", "advance"}

(* A position before tail_ is claimed or published, one from tail_ on free. *)
PositionInv ==
    /\ first <= tail /\ tail <= first + Capacity
    /\ \A j \in first..(tail - 1) :
        \/ sequence[Slot(j)] = j /\ \E p \in Producers : Claims(p) /\ at[p] = j
        \/ /\ sequence[Slot(j)] = j + 1
           /\ data[Slot(j)] \in Producers /\ pc[data[Slot(j)]] = "done"
    /\ \A j \in tail..(first + Capacity - 1) : sequence[Slot(j)] = j

(* A claimed slot has one producer, which finds it as its last step left it. *)
ClaimInv ==
    /\ \A p \in Producers : Claims(p) =>
        /\ at[p] \in first..(tail - 1)
        /\ sequence[Slot(at[p])] = at[p]
        /\ pc[p] = "publish" => data[Slot(at[p])] = p
    /\ \A p, q \in Producers : p # q /\ Claims(p) /\ Claims(q) => at[p] # at[q]

(* The slot a producer found free is free when its exchange succeeds. *)
ExchangeInv ==
    \A p \in Producers :
        /\ at[p] <= tail
        /\ pc[p] = "exchange" /\ at[p] = tail => sequence[Slot(tail)] = tail

(* The consumer holds the item of the first position, and an item that was  *)
(* loaded or popped is one whose push is over.                              *)
ConsumerInv ==
    /\ consumer = "idle" <=> item = None
    /\ item # None => pc[item] = "done"
    /\ consumer = "release" => head < tail /\ sequence[Slot(head)] = head + 1
    /\ \A p \in Producers : taken[p] # 0 => pc[p] = "done"

IndInv == TypeInv /\ PositionInv /\ ClaimInv /\ ExchangeInv /\ ConsumerInv

-----------------------------------------------------------------------------
(* The item at a position, which its producer may still have to write and   *)
(* the consumer may already have loaded.                                    *)
ItemAt(pos) ==
    IF pos = head /\ item # None THEN item
    ELSE IF \E p \in Producers : pc[p] = "write" /\ at[p] = pos
         THEN CHOOSE p \in Producers : pc[p] = "write" /\ at[p] = pos
         ELSE data[Slot(pos)]

content == [i \in 1..(tail - head) |-> ItemAt(head + i - 1)]

Inbox == INSTANCE Fifo WITH Values <- Producers, items <- content

(* The inbox is a queue: items come out once, in the order of tail_. *)
ImplementsFifo == Inbox!Spec

=============================================================================
