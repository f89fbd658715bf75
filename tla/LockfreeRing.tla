---------------------------- MODULE LockfreeRing ----------------------------
(***************************************************************************)
(* sync::LockfreeMPMCRing, one atomic access of the code to a step.  Any   *)
(* number of threads push and pop; a thread pushes the values of its list  *)
(* "work" one after the other, or pops.  Positions are natural numbers:    *)
(* 2^64 operations are out of reach.                                       *)
(***************************************************************************)
EXTENDS Naturals, Integers, Sequences, FiniteSets

CONSTANTS Producers, Consumers,
          Capacity,    \* capacity_, a power of two
          Work,        \* the values each producer pushes, in order
          None         \* no value

VARIABLES
    head, tail,        \* head_, tail_
    sequence, value,   \* the slots
    at,                \* the position a thread works on (its local head/tail)
    pushed,            \* how many values a producer has pushed
    got,               \* the value a consumer has moved out
    taken,             \* how often each value was claimed by a consumer
    pc

slots == <<sequence, value>>
vars  == <<head, tail, slots, at, pushed, got, taken, pc>>

Threads == Producers \cup Consumers
Slots   == 0..(Capacity - 1)
Values  == UNION {{Work[p][i] : i \in 1..Len(Work[p])} : p \in Producers}

Slot(pos) == pos % Capacity

(* What the code sees to, and the model: the ring has at least two slots, a *)
(* thread pushes or pops, and no value is pushed twice.                     *)
RingAssumption ==
    /\ Capacity \in Nat \ {0, 1}
    /\ Producers \cap Consumers = {}
    /\ \A p \in Producers : Len(Work[p]) \in Nat
    /\ \A p, q \in Producers : \A i \in 1..Len(Work[p]), j \in 1..Len(Work[q]) :
        Work[p][i] = Work[q][j] => p = q /\ i = j
    /\ None \notin Values

Init ==
    /\ head = 0
    /\ tail = 0
    /\ sequence = [s \in Slots |-> s]
    /\ value = [s \in Slots |-> None]
    /\ at = [t \in Threads |-> 0]
    /\ pushed = [p \in Producers |-> 0]
    /\ got = [c \in Consumers |-> None]
    /\ taken = [v \in Values |-> 0]
    /\ pc = [t \in Threads |-> "idle"]

Goto(t, from, to) == pc[t] = from /\ pc' = [pc EXCEPT ![t] = to]

(* Load head_ or tail_, at the beginning and after losing a race. *)
LoadPosition(t) ==
    /\ t \in Producers => pushed[t] < Len(Work[t])
    /\ Goto(t, "idle", "sequence")
    /\ at' = [at EXCEPT ![t] = IF t \in Producers THEN head ELSE tail]
    /\ UNCHANGED <<head, tail, slots, pushed, got, taken>>

(* Load the slot's sequence number: the slot is ours to claim, or the ring  *)
(* is full or empty, or another thread was faster.                          *)
LoadSequence(t) ==
    LET diff == sequence[Slot(at[t])] - (IF t \in Producers THEN at[t] ELSE at[t] + 1)
    IN  /\ Goto(t, "sequence", IF diff = 0 THEN "exchange" ELSE "idle")
        /\ UNCHANGED <<head, tail, slots, at, pushed, got, taken>>

(* Mutant of PushExchange: head_ is advanced without comparing. *)
MutPushExchange(p) ==
    /\ Goto(p, "exchange", "write")
    /\ head' = at[p] + 1
    /\ UNCHANGED <<tail, slots, at, pushed, got, taken>>

(* compare_exchange_weak on head_; a failure, which need not have a reason, *)
(* reloads it.                                                              *)
PushExchange(p) ==
    /\ \/ /\ head = at[p]
          /\ head' = at[p] + 1
          /\ Goto(p, "exchange", "write")
          /\ UNCHANGED at
       \/ /\ Goto(p, "exchange", "sequence")
          /\ at' = [at EXCEPT ![p] = head]
          /\ UNCHANGED head
    /\ UNCHANGED <<tail, slots, pushed, got, taken>>

PushWrite(p) ==
    /\ Goto(p, "write", "publish")
    /\ value' = [value EXCEPT ![Slot(at[p])] = Work[p][pushed[p] + 1]]
    /\ UNCHANGED <<head, tail, sequence, at, pushed, got, taken>>

PushPublish(p) ==
    /\ Goto(p, "publish", "idle")
    /\ sequence' = [sequence EXCEPT ![Slot(at[p])] = at[p] + 1]
    /\ pushed' = [pushed EXCEPT ![p] = @ + 1]
    /\ UNCHANGED <<head, tail, value, at, got, taken>>

(* compare_exchange_weak on tail_, likewise. *)
PopExchange(c) ==
    /\ \/ /\ tail = at[c]
          /\ tail' = at[c] + 1
          /\ Goto(c, "exchange", "read")
          /\ taken' = [taken EXCEPT ![value[Slot(at[c])]] = @ + 1]
          /\ UNCHANGED at
       \/ /\ Goto(c, "exchange", "sequence")
          /\ at' = [at EXCEPT ![c] = tail]
          /\ UNCHANGED <<tail, taken>>
    /\ UNCHANGED <<head, slots, pushed, got>>

(* Move the value out of the slot. *)
PopRead(c) ==
    /\ Goto(c, "read", "publish")
    /\ got' = [got EXCEPT ![c] = value[Slot(at[c])]]
    /\ value' = [value EXCEPT ![Slot(at[c])] = None]
    /\ UNCHANGED <<head, tail, sequence, at, pushed, taken>>

(* Offer the slot to the producer of the next round. *)
PopPublish(c) ==
    /\ Goto(c, "publish", "idle")
    /\ sequence' = [sequence EXCEPT ![Slot(at[c])] = at[c] + Capacity]
    /\ got' = [got EXCEPT ![c] = None]
    /\ UNCHANGED <<head, tail, value, at, pushed, taken>>

Push(p) == LoadPosition(p) \/ LoadSequence(p) \/ PushExchange(p)
           \/ PushWrite(p) \/ PushPublish(p)

Pop(c) == LoadPosition(c) \/ LoadSequence(c) \/ PopExchange(c)
          \/ PopRead(c) \/ PopPublish(c)

Next == (\E p \in Producers : Push(p)) \/ (\E c \in Consumers : Pop(c))

Spec == Init /\ [][Next]_vars

-----------------------------------------------------------------------------
(* The window of positions from tail_ to tail_ + capacity has one position  *)
(* for every slot; the next four definitions say what a slot holds by its   *)
(* position in the window, and together they are inductive.                 *)
Claims(t) == pc[t] \in {"write", "read", "publish"}

(* The position in the window of the slot a thread has claimed. *)
Window(t) == IF t \in Producers THEN at[t] ELSE at[t] + Capacity

TypeInv ==
    /\ head \in Nat /\ tail \in Nat
    /\ sequence \in [Slots -> Nat]
    /\ value \in [Slots -> Values \cup {None}]
    /\ at \in [Threads -> Nat]
    /\ pushed \in [Producers -> Nat]
    /\ taken \in [Values -> Nat]
    /\ pc \in [Threads -> {"idle", "sequence", "exchange", "write", "read", "publish"}]
    /\ \A p \in Producers : /\ pc[p] # "read" /\ pushed[p] <= Len(Work[p])
                            /\ pc[p] # "idle" => pushed[p] < Len(Work[p])
    /\ \A c \in Consumers : pc[c] # "write"

(* A slot before head_ is claimed or full, one from head_ on is free or     *)
(* claimed: none is lost.                                                   *)
PositionInv ==
    /\ tail <= head /\ head <= tail + Capacity
    /\ \A j \in tail..(head - 1) :
        \/ sequence[Slot(j)] = j /\ \E p \in Producers : Claims(p) /\ at[p] = j
        \/ sequence[Slot(j)] = j + 1 /\ value[Slot(j)] # None
    /\ \A j \in head..(tail + Capacity - 1) :
        \/ sequence[Slot(j)] = j /\ value[Slot(j)] = None
        \/ /\ sequence[Slot(j)] = j - Capacity + 1
           /\ \E c \in Consumers : Claims(c) /\ at[c] = j - Capacity

(* The thread that claimed a slot finds it as its last step left it. *)
ClaimInv ==
    /\ \A p \in Producers : Claims(p) =>
        /\ at[p] \in tail..(head - 1)
        /\ sequence[Slot(at[p])] = at[p]
        /\ value[Slot(at[p])] = IF pc[p] = "write" THEN None ELSE Work[p][pushed[p] + 1]
    /\ \A c \in Consumers : Claims(c) =>
        /\ at[c] < tail /\ head <= at[c] + Capacity
        /\ sequence[Slot(at[c])] = at[c] + 1
        /\ value[Slot(at[c])] = None <=> pc[c] = "publish"
    /\ \A t, u \in Threads : t # u /\ Claims(t) /\ Claims(u) => Window(t) # Window(u)

(* What a thread learned from the sequence number still holds when its      *)
(* compare-exchange succeeds: nobody else could change it in between, and   *)
(* the position a thread has loaded is never ahead of the counter.          *)
ExchangeInv ==
    /\ \A p \in Producers : at[p] <= head
    /\ \A c \in Consumers : at[c] <= tail
    /\ \A p \in Producers : pc[p] = "exchange" /\ at[p] = head => sequence[Slot(head)] = head
    /\ \A c \in Consumers : pc[c] = "exchange" /\ at[c] = tail => sequence[Slot(tail)] = tail + 1

(* Values that were published or popped are ones that were pushed. *)
Pushed == UNION {{Work[p][i] : i \in 1..pushed[p]} : p \in Producers}

ValueInv ==
    /\ \A j \in tail..(head - 1) : sequence[Slot(j)] = j + 1 => value[Slot(j)] \in Pushed
    /\ \A v \in Values : taken[v] # 0 => v \in Pushed

IndInv == TypeInv /\ PositionInv /\ ClaimInv /\ ExchangeInv /\ ValueInv

-----------------------------------------------------------------------------
(* The value at a position between tail_ and head_: in its slot, or about   *)
(* to be written by the producer that claimed the position.                 *)
ValueAt(pos) ==
    IF \E p \in Producers : pc[p] = "write" /\ at[p] = pos
    THEN LET p == CHOOSE q \in Producers : pc[q] = "write" /\ at[q] = pos
         IN  Work[p][pushed[p] + 1]
    ELSE value[Slot(pos)]

content == [i \in 1..(head - tail) |-> ValueAt(tail + i - 1)]

Queue == INSTANCE Fifo WITH items <- content

(* The ring is a queue: values go in in the order positions are claimed at  *)
(* head_ and come out in that order at tail_.                               *)
ImplementsFifo == Queue!Spec

(* A slot belongs to one thread: nobody writes a value another has not yet  *)
(* moved out, and nobody reads one that is not there.                       *)
SlotsAreExclusive ==
    /\ head - tail <= Capacity
    /\ \A p \in Producers : pc[p] = "write" => value[Slot(at[p])] = None
    /\ \A c \in Consumers : pc[c] = "read" => value[Slot(at[c])] # None
    /\ \A t, u \in Threads : t # u /\ pc[t] \in {"write", "read", "publish"}
            /\ pc[u] \in {"write", "read", "publish"} => Slot(at[t]) # Slot(at[u])

=============================================================================
