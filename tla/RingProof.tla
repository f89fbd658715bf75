----------------------------- MODULE RingProof -----------------------------
(***************************************************************************)
(* The ring's inductive invariant and its refinement of a FIFO queue, step *)
(* by step, for every number of threads, every capacity and any number of  *)
(* values.                                                                 *)
(***************************************************************************)
EXTENDS LockfreeRing, TLAPS

-----------------------------------------------------------------------------
(* A position is mapped to its slot by the remainder modulo the capacity.  *)

(* Quotient and remainder. *)
LEMMA DivMod ==
    ASSUME NEW N \in Nat, N > 0, NEW j \in Nat
    PROVE  j = N * (j \div N) + (j % N) /\ (j \div N) \in Nat /\ (j % N) \in 0..(N - 1)
  OBVIOUS

(* Multiples of N that are less than N apart are equal. *)
LEMMA CloseMultiples ==
    ASSUME NEW N \in Nat, N > 0, NEW q \in Int, NEW r \in Int,
           N * r - N * q < N, N * q - N * r < N
    PROVE  r = q
  OBVIOUS

(* The first round. *)
LEMMA FirstRound ==
    ASSUME NEW N \in Nat, N > 0, NEW j \in 0..(N - 1)
    PROVE  (j % N) = j
  OBVIOUS

(* Two positions less than a round apart have different slots. *)
LEMMA DifferentSlots ==
    ASSUME NEW N \in Nat, N > 0, NEW j \in Nat, NEW k \in Nat,
           (j % N) = (k % N), j - k < N, k - j < N
    PROVE  j = k
  <1>1. N * (j \div N) - N * (k \div N) = j - k
    BY DivMod
  <1>2. (j \div N) \in Int /\ (k \div N) \in Int
    BY DivMod
  <1>3. (j \div N) = (k \div N)
    BY <1>1, <1>2, CloseMultiples
  <1> QED
    BY <1>1, <1>3

(* A position has the same slot in the next round. *)
LEMMA NextRound ==
    ASSUME NEW N \in Nat, N > 0, NEW j \in Nat
    PROVE  ((j + N) % N) = (j % N)
  <1> DEFINE a == j \div N
             b == (j + N) \div N
             r == j % N
             s == (j + N) % N
  <1>1. j = N * a + r /\ a \in Int /\ r \in 0..(N - 1)
    BY DivMod
  <1>2. j + N = N * b + s /\ b \in Int /\ s \in 0..(N - 1)
    BY DivMod
  <1> HIDE DEF a, b, r, s
  <1>3. a + 1 \in Int /\ N * (a + 1) = N * a + N
    BY <1>1
  <1>4. N * (a + 1) - N * b < N /\ N * b - N * (a + 1) < N /\ N * b \in Int /\ N * a \in Int
    BY <1>1, <1>2, <1>3
  <1>5. a + 1 = b
    BY <1>2, <1>3, <1>4, CloseMultiples, Zenon
  <1>6. s = r
    BY <1>1, <1>2, <1>3, <1>5
  <1> QED
    BY <1>6, Zenon DEF r, s

-----------------------------------------------------------------------------
(* Sequences, as functions on an initial segment of the naturals.          *)

LEMMA FunctionIsSeq ==
    ASSUME NEW S, NEW n \in Nat, NEW f \in [1..n -> S]
    PROVE  f \in Seq(S) /\ Len(f) = n
  OBVIOUS

(* One value was put at the end. *)
LEMMA PutLast ==
    ASSUME NEW S, NEW n \in Nat, NEW f \in [1..n -> S], NEW g \in [1..(n + 1) -> S],
           \A i \in 1..n : g[i] = f[i]
    PROVE  Len(g) = n + 1 /\ SubSeq(g, 1, Len(g) - 1) = f
  <1>1. f \in Seq(S) /\ Len(f) = n
    BY FunctionIsSeq, Zenon
  <1>2. Len(g) = n + 1 /\ g \in Seq(S)
    BY FunctionIsSeq
  <1>3. /\ SubSeq(g, 1, n) \in Seq(S)
        /\ Len(SubSeq(g, 1, n)) = n
        /\ \A i \in 1..n : SubSeq(g, 1, n)[i] = g[i]
    BY <1>2
  <1>4. SubSeq(g, 1, n) = f
    BY <1>1, <1>3
  <1> QED
    BY <1>2, <1>4

(* The first value was taken. *)
LEMMA TakeFirst ==
    ASSUME NEW S, NEW n \in Nat, n > 0, NEW f \in [1..n -> S], NEW g \in [1..(n - 1) -> S],
           \A i \in 1..(n - 1) : g[i] = f[i + 1]
    PROVE  f # <<>> /\ g = Tail(f) /\ Head(f) = f[1]
  <1>1. f \in Seq(S) /\ Len(f) = n
    BY FunctionIsSeq, Zenon
  <1>2. g \in Seq(S) /\ Len(g) = n - 1
    BY FunctionIsSeq
  <1>3. f # <<>>
    BY <1>1
  <1>4. /\ Head(f) = f[1] /\ Tail(f) \in Seq(S) /\ Len(Tail(f)) = n - 1
        /\ \A i \in 1..(n - 1) : Tail(f)[i] = f[i + 1]
    BY <1>1, <1>3
  <1>5. g = Tail(f)
    BY <1>2, <1>4
  <1> QED
    BY <1>3, <1>4, <1>5, Zenon

-----------------------------------------------------------------------------
(* The ring.                                                               *)

LEMMA Sizes ==
    ASSUME RingAssumption
    PROVE  Capacity \in Nat /\ Capacity >= 2 /\ Producers \cap Consumers = {}
  BY DEF RingAssumption

LEMMA RingSlot ==
    ASSUME RingAssumption
    PROVE  /\ \A j \in Nat : Slot(j) \in Slots /\ Slot(j + Capacity) = Slot(j)
           /\ \A j, k \in Nat : Slot(j) = Slot(k) /\ j - k < Capacity /\ k - j < Capacity => j = k
  <1>1. Capacity > 0
    BY Sizes
  <1>2. ASSUME NEW j \in Nat
        PROVE  Slot(j) \in Slots /\ Slot(j + Capacity) = Slot(j)
    BY <1>1, Sizes, DivMod, NextRound, Zenon DEF Slot, Slots
  <1>3. ASSUME NEW j \in Nat, NEW k \in Nat, Slot(j) = Slot(k),
               j - k < Capacity, k - j < Capacity
        PROVE  j = k
    BY <1>1, <1>3, Sizes, DifferentSlots, Zenon DEF Slot
  <1> QED
    BY <1>2, <1>3, Zenon

(* The values are the entries of the lists, each there once. *)
LEMMA RingValues ==
    ASSUME RingAssumption
    PROVE  /\ None \notin Values
           /\ \A p \in Producers : Len(Work[p]) \in Nat
           /\ \A p \in Producers : \A i \in 1..Len(Work[p]) : Work[p][i] \in Values
           /\ \A p, q \in Producers : \A i \in 1..Len(Work[p]), j \in 1..Len(Work[q]) :
                Work[p][i] = Work[q][j] => p = q /\ i = j
  <1>1. ASSUME NEW p \in Producers, NEW i \in 1..Len(Work[p])
        PROVE  Work[p][i] \in Values
    <2> DEFINE OfProducer(q) == {Work[q][k] : k \in 1..Len(Work[q])}
    <2>1. Work[p][i] \in OfProducer(p)
      BY Zenon
    <2> HIDE DEF OfProducer
    <2>2. Work[p][i] \in UNION {OfProducer(q) : q \in Producers}
      BY <2>1, Zenon
    <2> QED
      BY <2>2, Zenon DEF Values, OfProducer
  <1> QED
    BY <1>1, Zenon DEF RingAssumption

(* What has been pushed. *)
LEMMA RingPushed ==
    \A v : v \in Pushed
        <=> \E p \in Producers : \E i \in 1..pushed[p] : v = Work[p][i]
  <1>1. \A v : v \in Pushed
              <=> \E p \in Producers : v \in {Work[p][i] : i \in 1..pushed[p]}
    BY Zenon DEF Pushed
  <1>2. ASSUME NEW p \in Producers, NEW v
        PROVE  v \in {Work[p][i] : i \in 1..pushed[p]}
                    <=> \E i \in 1..pushed[p] : v = Work[p][i]
    BY Zenon
  <1> QED
    BY <1>1, <1>2

(* What has been pushed after a step. *)
LEMMA RingPushedNext ==
    \A v : v \in Pushed'
        <=> \E p \in Producers : \E i \in 1..pushed'[p] : v = Work[p][i]
  <1>1. \A v : v \in Pushed'
              <=> \E p \in Producers : v \in {Work[p][i] : i \in 1..pushed'[p]}
    BY Zenon DEF Pushed
  <1>2. ASSUME NEW p \in Producers, NEW v
        PROVE  v \in {Work[p][i] : i \in 1..pushed'[p]}
                    <=> \E i \in 1..pushed'[p] : v = Work[p][i]
    BY Zenon
  <1> QED
    BY <1>1, <1>2

(* The next value of a producer that is pushing. *)
LEMMA RingFresh ==
    ASSUME RingAssumption, TypeInv, NEW p \in Producers, pc[p] # "idle"
    PROVE  /\ pushed[p] + 1 \in 1..Len(Work[p]) /\ pushed[p] \in Nat /\ Len(Work[p]) \in Nat
           /\ Work[p][pushed[p] + 1] \in Values
           /\ Work[p][pushed[p] + 1] # None
  <1>1. pushed[p] \in Nat /\ pushed[p] < Len(Work[p]) /\ Len(Work[p]) \in Nat
    BY RingValues, Zenon DEF TypeInv
  <1>2. pushed[p] + 1 \in 1..Len(Work[p])
    BY <1>1
  <1> QED
    BY <1>1, <1>2, RingValues

(* A thread looks for a position: it has claimed none and claims none. *)
Looks(t, place, position) ==
    /\ t \in Threads /\ pc[t] \in {"idle", "sequence", "exchange"}
    /\ place \in {"idle", "sequence", "exchange"} /\ position \in Nat
    /\ position <= IF t \in Producers THEN head ELSE tail
    /\ pc' = [pc EXCEPT ![t] = place]
    /\ at' = [at EXCEPT ![t] = position]
    /\ UNCHANGED <<head, tail, sequence, value, pushed, taken>>
    /\ t \in Producers => (place # "idle" => pushed[t] < Len(Work[t]))
    /\ place = "exchange" =>
        sequence[Slot(position)] = IF t \in Producers THEN position ELSE position + 1

(* Looking for a position disturbs nobody. *)
LEMMA RingLooks ==
    ASSUME RingAssumption, IndInv, NEW t, NEW place, NEW position, Looks(t, place, position)
    PROVE  IndInv'
  <1> USE DEF IndInv
  <1>1. \A u \in Threads : /\ Claims(u)' <=> Claims(u)
                           /\ Claims(u) => at'[u] = at[u] /\ pc'[u] = pc[u]
                           /\ Claims(u) => Window(u)' = Window(u)
    BY Zenon DEF Looks, Claims, TypeInv, Window
  <1>2. TypeInv'
    BY RingValues, Zenon DEF Looks, TypeInv, Threads
  <1>3. PositionInv'
    BY <1>1 DEF Looks, PositionInv, Threads
  <1>4. ClaimInv'
    BY <1>1 DEF Looks, ClaimInv, Threads
  <1>5. ExchangeInv'
    BY Sizes, Zenon DEF Looks, ExchangeInv, TypeInv, Threads
  <1>6. ValueInv'
    BY RingPushed DEF Looks, ValueInv, Pushed
  <1> QED
    BY <1>2, <1>3, <1>4, <1>5, <1>6, Zenon

(* Which steps only look. *)
LEMMA RingLooking ==
    ASSUME RingAssumption, IndInv, NEW t \in Threads,
           \/ LoadPosition(t) \/ LoadSequence(t)
           \/ t \in Producers /\ PushExchange(t) /\ pc'[t] = "sequence"
           \/ t \in Consumers /\ PopExchange(t) /\ pc'[t] = "sequence"
    PROVE  \E place, position : Looks(t, place, position)
  <1> USE DEF IndInv, TypeInv
  <1> USE RingValues
  <1>1. CASE LoadPosition(t)
    <2> Looks(t, "sequence", IF t \in Producers THEN head ELSE tail)
      BY <1>1 DEF LoadPosition, Goto, Looks, slots
    <2> QED
      BY Zenon
  <1>2. CASE LoadSequence(t)
    <2> DEFINE place == IF sequence[Slot(at[t])] - (IF t \in Producers THEN at[t] ELSE at[t] + 1) = 0
                        THEN "exchange" ELSE "idle"
    <2>1. /\ at[t] \in Nat /\ sequence[Slot(at[t])] \in Nat
          /\ at[t] <= IF t \in Producers THEN head ELSE tail
      BY RingSlot, Zenon DEF ExchangeInv, Threads
    <2>2. at' = [at EXCEPT ![t] = at[t]]
      BY <1>2, Zenon DEF LoadSequence
    <2>3. place = "exchange" => sequence[Slot(at[t])]
                                    = IF t \in Producers THEN at[t] ELSE at[t] + 1
      BY <2>1
    <2>4. /\ pc[t] = "sequence" /\ pc' = [pc EXCEPT ![t] = place]
          /\ UNCHANGED <<head, tail, sequence, value, pushed, taken>>
      BY <1>2, Zenon DEF LoadSequence, Goto, slots
    <2>5. place \in {"idle", "sequence", "exchange"}
      BY Zenon
    <2> HIDE DEF place
    <2>6. Looks(t, place, at[t])
      BY <2>1, <2>2, <2>3, <2>4, <2>5, Zenon DEF Looks
    <2> QED
      BY <2>6, Zenon
  <1>3. CASE t \in Producers /\ PushExchange(t) /\ pc'[t] = "sequence"
    <2>1. /\ pc[t] = "exchange" /\ pc' = [pc EXCEPT ![t] = "sequence"]
          /\ at' = [at EXCEPT ![t] = head]
          /\ UNCHANGED <<head, tail, sequence, value, pushed, taken>>
      BY <1>3, Zenon DEF PushExchange, Goto, slots
    <2>2. pushed[t] < Len(Work[t])
      BY <1>3, <2>1, Sizes, RingFresh, Zenon
    <2>3. head \in Nat
      BY Zenon
    <2>4. Looks(t, "sequence", head)
      BY <1>3, <2>1, <2>2, <2>3 DEF Looks
    <2> QED
      BY <2>4, Zenon
  <1>4. CASE t \in Consumers /\ PopExchange(t) /\ pc'[t] = "sequence"
    <2>1. /\ pc[t] = "exchange" /\ pc' = [pc EXCEPT ![t] = "sequence"]
          /\ at' = [at EXCEPT ![t] = tail]
          /\ UNCHANGED <<head, tail, sequence, value, pushed, taken>>
      BY <1>4, ZenonT(30) DEF PopExchange, Goto, slots
    <2>2. Looks(t, "sequence", tail)
      BY <1>4, <2>1, Sizes DEF Looks
    <2> QED
      BY <2>2, Zenon
  <1> QED
    BY <1>1, <1>2, <1>3, <1>4, Zenon

(* A producer claims the position at head_, whose slot is free. *)
LEMMA RingClaimsHead ==
    ASSUME RingAssumption, IndInv, NEW p \in Producers, PushExchange(p), pc'[p] = "write"
    PROVE  IndInv'
  <1> USE DEF IndInv
  <1> USE Sizes
  <1>1. /\ head \in Nat /\ tail \in Nat /\ p \in Threads
        /\ at[p] = head /\ pc[p] = "exchange"
        /\ head' = head + 1 /\ pc' = [pc EXCEPT ![p] = "write"]
        /\ UNCHANGED <<tail, sequence, value, at, pushed, taken>>
    BY Zenon DEF PushExchange, Goto, slots, TypeInv, Threads
  <1>2. sequence[Slot(head)] = head
    BY <1>1, Zenon DEF ExchangeInv
  <1>3. tail <= head /\ head < tail + Capacity
    <2>1. tail <= head /\ head <= tail + Capacity
      BY Zenon DEF PositionInv
    <2>2. ASSUME head = tail + Capacity
          PROVE  FALSE
      <3>1. Slot(head) = Slot(tail)
        BY <1>1, <2>2, RingSlot, Zenon
      <3>2. tail \in tail..(head - 1)
        BY <1>1, <2>2
      <3>3. sequence[Slot(tail)] = tail \/ sequence[Slot(tail)] = tail + 1
        BY <3>2, Zenon DEF PositionInv
      <3> QED
        BY <1>1, <1>2, <2>2, <3>1, <3>3
    <2> QED
      BY <1>1, <2>1, <2>2
  <1>4. value[Slot(head)] = None
    <2>1. head \in head..(tail + Capacity - 1)
      BY <1>1, <1>3
    <2>2. \/ value[Slot(head)] = None
          \/ sequence[Slot(head)] = head - Capacity + 1
      BY <2>1, Zenon DEF PositionInv
    <2> QED
      BY <1>1, <1>2, <2>2
  <1>5. ASSUME NEW c \in Consumers, Claims(c)
        PROVE  head + 1 <= at[c] + Capacity
    <2>1. at[c] \in Nat
      BY Zenon DEF TypeInv, Threads
    <2>2. head <= at[c] + Capacity /\ sequence[Slot(at[c])] = at[c] + 1
      BY <1>5, Zenon DEF ClaimInv
    <2>3. head # at[c] + Capacity
      BY <1>1, <1>2, <2>1, <2>2, RingSlot
    <2> QED
      BY <1>1, <2>1, <2>2, <2>3
  <1>6. \A u \in Threads : /\ Claims(u)' <=> (Claims(u) \/ u = p)
                           /\ u # p => pc'[u] = pc[u]
                           /\ Window(u)' = Window(u)
    BY <1>1, Zenon DEF Claims, TypeInv, Window
  <1>7. pc'[p] = "write" /\ Claims(p)' /\ ~Claims(p)
    BY <1>1, Zenon DEF TypeInv, Claims
  <1>8. TypeInv'
    BY <1>1, Sizes DEF TypeInv, Threads
  <1>9. PositionInv'
    <2>1. ASSUME NEW j \in tail..head
          PROVE  \/ /\ sequence[Slot(j)] = j
                    /\ \E q \in Producers : Claims(q)' /\ at[q] = j
                 \/ sequence[Slot(j)] = j + 1 /\ value[Slot(j)] # None
      <3>1. CASE j = head
        BY <1>1, <1>2, <1>7, <3>1, Zenon
      <3>2. CASE j # head
        <4> j \in tail..(head - 1)
          BY <1>1, <3>2
        <4> QED
          BY <1>6, Zenon DEF PositionInv, Threads
      <3> QED
        BY <3>1, <3>2, Zenon
    <2>2. ASSUME NEW j \in (head + 1)..(tail + Capacity - 1)
          PROVE  \/ sequence[Slot(j)] = j /\ value[Slot(j)] = None
                 \/ /\ sequence[Slot(j)] = j - Capacity + 1
                    /\ \E c \in Consumers : Claims(c)' /\ at[c] = j - Capacity
      <3> j \in head..(tail + Capacity - 1)
        BY <1>1
      <3> QED
        BY <1>6, Zenon DEF PositionInv, Threads
    <2>3. head' - 1 = head
      BY <1>1
    <2> QED
      BY <1>1, <1>3, <2>1, <2>2, <2>3 DEF PositionInv
  <1>10. ClaimInv'
    <2>1. ASSUME NEW q \in Producers, Claims(q)'
          PROVE  /\ at[q] \in tail..head
                 /\ sequence[Slot(at[q])] = at[q]
                 /\ value[Slot(at[q])]
                        = IF pc'[q] = "write" THEN None ELSE Work[q][pushed[q] + 1]
      <3>1. CASE q = p
        BY <1>1, <1>2, <1>3, <1>4, <1>7, <3>1
      <3>2. CASE q # p
        <4>1. Claims(q) /\ pc'[q] = pc[q]
          BY <1>6, <2>1, <3>2, Zenon DEF Threads
        <4> QED
          BY <1>1, <4>1 DEF ClaimInv
      <3> QED
        BY <3>1, <3>2, Zenon
    <2>2. ASSUME NEW c \in Consumers, Claims(c)'
          PROVE  /\ at[c] < tail /\ head + 1 <= at[c] + Capacity
                 /\ sequence[Slot(at[c])] = at[c] + 1
                 /\ value[Slot(at[c])] = None <=> pc'[c] = "publish"
      <3>1. c # p
        BY Sizes, Zenon
      <3>2. Claims(c) /\ pc'[c] = pc[c]
        BY <1>6, <2>2, <3>1, Zenon DEF Threads
      <3> QED
        BY <1>5, <3>2, Zenon DEF ClaimInv
    <2>3. ASSUME NEW t \in Threads, t # p, Claims(t)
          PROVE  Window(t) # Window(p)
      <3>1. Window(p) = head
        BY <1>1, Zenon DEF Window
      <3>2. CASE t \in Producers
        BY <1>1, <2>3, <3>1, <3>2 DEF ClaimInv, Window
      <3>3. CASE t \in Consumers
        <4>1. t \notin Producers /\ at[t] \in Nat
          BY <3>3, Sizes, Zenon DEF TypeInv
        <4> QED
          BY <1>1, <1>5, <2>3, <3>1, <3>3, <4>1 DEF Window
      <3> QED
        BY <3>2, <3>3, Zenon DEF Threads
    <2>4. \A t, u \in Threads : t # u /\ Claims(t)' /\ Claims(u)'
                => Window(t)' # Window(u)'
      BY <1>1, <1>6, <2>3 DEF ClaimInv
    <2>5. head' - 1 = head
      BY <1>1
    <2> QED
      BY <1>1, <2>1, <2>2, <2>4, <2>5, Zenon DEF ClaimInv
  <1>11. ExchangeInv'
    BY <1>1, Sizes DEF ExchangeInv, TypeInv, Threads
  <1>12. ValueInv'
    <2>1. \A j \in tail..head : sequence[Slot(j)] = j + 1
                => value[Slot(j)] \in Pushed
      BY <1>1, <1>2 DEF ValueInv
    <2>2. head' - 1 = head /\ Pushed' = Pushed
      BY <1>1 DEF Pushed
    <2> QED
      BY <1>1, <2>1, <2>2, Zenon DEF ValueInv
  <1> QED
    BY <1>8, <1>9, <1>10, <1>11, <1>12, Zenon

(* Claimed slots are apart from each other and from the rest of the window. *)
LEMMA RingApart ==
    ASSUME RingAssumption, IndInv, NEW t \in Threads, Claims(t)
    PROVE  /\ at[t] \in Nat /\ head \in Nat /\ tail \in Nat
           /\ Slot(at[t]) \in Slots
           /\ t \in Producers => at[t] \in tail..(head - 1) /\ Window(t) = at[t]
           /\ t \in Consumers => /\ at[t] + Capacity \in head..(tail + Capacity - 1)
                                 /\ Window(t) = at[t] + Capacity
           /\ Slot(Window(t)) = Slot(at[t])
           /\ Window(t) \in tail..(tail + Capacity - 1)
           /\ \A j \in tail..(tail + Capacity - 1) :
                Slot(j) = Slot(at[t]) => j = Window(t)
  <1> USE DEF IndInv
  <1> USE Sizes
  <1>1. /\ at[t] \in Nat /\ head \in Nat /\ tail \in Nat
        /\ tail <= head /\ head <= tail + Capacity
        /\ Slot(at[t]) \in Slots
    BY RingSlot, Zenon DEF TypeInv, PositionInv
  <1>2. t \in Producers => at[t] \in tail..(head - 1) /\ Window(t) = at[t]
    BY Zenon DEF ClaimInv, Window
  <1>3. t \in Consumers => /\ at[t] + Capacity \in head..(tail + Capacity - 1)
                           /\ Window(t) = at[t] + Capacity
    BY <1>1, Sizes DEF ClaimInv, Window
  <1>4. /\ Slot(Window(t)) = Slot(at[t])
        /\ Window(t) \in tail..(tail + Capacity - 1)
    BY <1>1, <1>2, <1>3, RingSlot DEF Threads
  <1>5. ASSUME NEW j \in tail..(tail + Capacity - 1), Slot(j) = Slot(at[t])
        PROVE  j = Window(t)
    <2>1. j \in Nat /\ Window(t) \in Nat
      BY <1>1, <1>4
    <2>2. j - Window(t) < Capacity /\ Window(t) - j < Capacity
      BY <1>1, <1>4, <2>1
    <2> QED
      BY <1>4, <1>5, <2>1, <2>2, RingSlot, Zenon
  <1> QED
    BY <1>1, <1>2, <1>3, <1>4, <1>5, Zenon

(* Two threads never claim the same slot. *)
LEMMA RingExclusive ==
    ASSUME RingAssumption, IndInv, NEW t \in Threads, NEW u \in Threads, t # u,
           Claims(t), Claims(u)
    PROVE  Slot(at[t]) # Slot(at[u])
  <1>1. /\ Window(u) \in tail..(tail + Capacity - 1)
        /\ Slot(Window(u)) = Slot(at[u])
    BY RingApart, Zenon
  <1>2. Window(t) # Window(u)
    BY Zenon DEF IndInv, ClaimInv
  <1> QED
    BY <1>1, <1>2, RingApart, Zenon

(* The producer writes its value into the slot it claimed. *)
LEMMA RingWrites ==
    ASSUME RingAssumption, IndInv, NEW p \in Producers, PushWrite(p)
    PROVE  IndInv'
  <1> DEFINE v == Work[p][pushed[p] + 1]
             s == Slot(at[p])
  <1>1. /\ pc[p] = "write" /\ p \in Threads /\ p \notin Consumers
        /\ pc' = [pc EXCEPT ![p] = "publish"]
        /\ value' = [value EXCEPT ![s] = v]
        /\ UNCHANGED <<head, tail, sequence, at, pushed, taken>>
    BY Sizes, Zenon DEF PushWrite, Goto, Threads
  <1>2. v \in Values /\ v # None
    BY <1>1, RingFresh, Zenon DEF IndInv
  <1>3. Claims(p) /\ s \in Slots /\ sequence[s] = at[p]
    BY <1>1, RingApart, Zenon DEF Claims, IndInv, ClaimInv
  <1> HIDE DEF v
  <1>4. /\ value \in [Slots -> Values \cup {None}]
        /\ value'[s] = v
        /\ \A x \in Slots : x # s => value'[x] = value[x]
    BY <1>1, <1>3, Zenon DEF IndInv, TypeInv
  <1> HIDE DEF s
  <1>5. \A u \in Threads : /\ Claims(u)' <=> Claims(u)
                           /\ u # p => pc'[u] = pc[u]
                           /\ Window(u)' = Window(u)
    BY <1>1, Zenon DEF Claims, IndInv, TypeInv, Window
  <1>6. \A j \in tail..(tail + Capacity - 1) :
            Slot(j) \in Slots /\ (Slot(j) = s => j = at[p])
    <2>1. /\ Window(p) = at[p] /\ tail \in Nat
          /\ \A j \in tail..(tail + Capacity - 1) : Slot(j) = s => j = Window(p)
      BY <1>1, <1>3, RingApart, Zenon DEF s
    <2>2. \A j \in tail..(tail + Capacity - 1) : j \in Nat
      BY <2>1
    <2> QED
      BY <2>1, <2>2, RingSlot, Zenon
  <1>7. at[p] \in tail..(head - 1) /\ tail \in Nat /\ head \in Nat
        /\ head <= tail + Capacity
    BY <1>1, <1>3, RingApart, Zenon DEF IndInv, PositionInv
  <1>8. TypeInv'
    BY <1>1, <1>2, <1>4, Zenon DEF IndInv, TypeInv, Threads
  <1>9. PositionInv'
    <2>1. ASSUME NEW j \in tail..(head - 1)
          PROVE  \/ /\ sequence[Slot(j)] = j
                    /\ \E q \in Producers : Claims(q)' /\ at[q] = j
                 \/ sequence[Slot(j)] = j + 1 /\ value'[Slot(j)] # None
      <3>1. Slot(j) \in Slots
        BY <1>6, <1>7, Sizes
      <3> QED
        BY <1>2, <1>4, <1>5, <3>1, Zenon DEF IndInv, PositionInv, Threads
    <2>2. ASSUME NEW j \in head..(tail + Capacity - 1)
          PROVE  \/ sequence[Slot(j)] = j /\ value'[Slot(j)] = None
                 \/ /\ sequence[Slot(j)] = j - Capacity + 1
                    /\ \E c \in Consumers : Claims(c)' /\ at[c] = j - Capacity
      <3>1. Slot(j) \in Slots /\ Slot(j) # s
        BY <1>6, <1>7, Sizes
      <3> QED
        BY <1>4, <1>5, <3>1, Zenon DEF IndInv, PositionInv, Threads
    <2> QED
      BY <1>1, <2>1, <2>2, Zenon DEF IndInv, PositionInv
  <1>10. ClaimInv'
    <2>1. ASSUME NEW q \in Producers, Claims(q)'
          PROVE  /\ at[q] \in tail..(head - 1)
                 /\ sequence[Slot(at[q])] = at[q]
                 /\ value'[Slot(at[q])]
                        = IF pc'[q] = "write" THEN None ELSE Work[q][pushed[q] + 1]
      <3>1. CASE q = p
        BY <1>1, <1>3, <1>4, <1>7, <3>1, Zenon DEF s, v, IndInv, TypeInv
      <3>2. CASE q # p
        <4>1. q \in Threads /\ Claims(q) /\ pc'[q] = pc[q]
          BY <1>5, <2>1, <3>2, Zenon DEF Threads
        <4>2. Slot(at[q]) # s /\ Slot(at[q]) \in Slots
          BY <1>1, <1>3, <3>2, <4>1, RingExclusive, RingApart, Zenon DEF s
        <4> QED
          BY <1>4, <4>1, <4>2, Zenon DEF IndInv, ClaimInv
      <3> QED
        BY <3>1, <3>2, Zenon
    <2>2. ASSUME NEW c \in Consumers, Claims(c)'
          PROVE  /\ at[c] < tail /\ head <= at[c] + Capacity
                 /\ sequence[Slot(at[c])] = at[c] + 1
                 /\ value'[Slot(at[c])] = None <=> pc'[c] = "publish"
      <3>1. c # p /\ c \in Threads /\ Claims(c) /\ pc'[c] = pc[c]
        BY <1>1, <1>5, <2>2, Zenon DEF Threads
      <3>2. Slot(at[c]) # s /\ Slot(at[c]) \in Slots
        BY <1>1, <1>3, <3>1, RingExclusive, RingApart, Zenon DEF s
      <3> QED
        BY <1>4, <3>1, <3>2, Zenon DEF IndInv, ClaimInv
    <2> QED
      BY <1>1, <1>5, <2>1, <2>2 DEF IndInv, ClaimInv
  <1>11. ExchangeInv'
    BY <1>1, Zenon DEF IndInv, ExchangeInv, TypeInv, Threads
  <1>12. ValueInv'
    <2>1. ASSUME NEW j \in tail..(head - 1), sequence[Slot(j)] = j + 1
          PROVE  value'[Slot(j)] \in Pushed
      <3>1. Slot(j) \in Slots /\ Slot(j) # s
        BY <1>3, <1>6, <1>7, <2>1, Sizes
      <3> QED
        BY <1>4, <2>1, <3>1, Zenon DEF IndInv, ValueInv
    <2>2. Pushed' = Pushed
      BY <1>1 DEF Pushed
    <2> QED
      BY <1>1, <2>1, <2>2, Zenon DEF IndInv, ValueInv
  <1> QED
    BY <1>8, <1>9, <1>10, <1>11, <1>12, Zenon DEF IndInv

(* The producer publishes the slot. *)
LEMMA RingPublishes ==
    ASSUME RingAssumption, IndInv, NEW p \in Producers, PushPublish(p)
    PROVE  IndInv'
  <1> DEFINE v == Work[p][pushed[p] + 1]
             s == Slot(at[p])
  <1>1. /\ pc[p] = "publish" /\ p \in Threads /\ p \notin Consumers
        /\ pc' = [pc EXCEPT ![p] = "idle"]
        /\ sequence' = [sequence EXCEPT ![s] = at[p] + 1]
        /\ pushed' = [pushed EXCEPT ![p] = pushed[p] + 1]
        /\ UNCHANGED <<head, tail, value, at, taken>>
    BY Sizes, Zenon DEF PushPublish, Goto, Threads
  <1>2. v # None /\ pushed[p] \in Nat
    BY <1>1, RingFresh, Zenon DEF IndInv
  <1>3. Claims(p) /\ s \in Slots /\ sequence[s] = at[p] /\ value[s] = v
    BY <1>1, RingApart, Zenon DEF Claims, IndInv, ClaimInv
  <1>4. /\ sequence \in [Slots -> Nat]
        /\ sequence'[s] = at[p] + 1
        /\ \A x \in Slots : x # s => sequence'[x] = sequence[x]
    BY <1>1, <1>3, Zenon DEF IndInv, TypeInv
  <1> HIDE DEF s
  <1>5. \A u \in Threads : /\ Claims(u)' <=> (Claims(u) /\ u # p)
                           /\ u # p => pc'[u] = pc[u]
                           /\ Window(u)' = Window(u)
    BY <1>1, Zenon DEF Claims, IndInv, TypeInv, Window
  <1>6. \A j \in tail..(tail + Capacity - 1) :
            Slot(j) \in Slots /\ (Slot(j) = s => j = at[p])
    <2>1. /\ Window(p) = at[p] /\ tail \in Nat
          /\ \A j \in tail..(tail + Capacity - 1) : Slot(j) = s => j = Window(p)
      BY <1>1, <1>3, RingApart, Zenon DEF s
    <2>2. \A j \in tail..(tail + Capacity - 1) : j \in Nat
      BY <2>1
    <2> QED
      BY <2>1, <2>2, RingSlot
  <1>7. at[p] \in tail..(head - 1) /\ tail \in Nat /\ head \in Nat
        /\ head <= tail + Capacity
    BY <1>1, <1>3, RingApart, Zenon DEF IndInv, PositionInv
  <1>8. TypeInv'
    <2>1. pushed' \in [Producers -> Nat]
      BY <1>1, <1>2 DEF IndInv, TypeInv
    <2>2. sequence' \in [Slots -> Nat]
      <3>1. at[p] + 1 \in Nat
        BY <1>7
      <3> QED
        BY <1>1, <1>4, <3>1, Zenon
    <2>3. ASSUME NEW q \in Producers
          PROVE  /\ pc'[q] # "read" /\ pushed'[q] <= Len(Work[q])
                 /\ pc'[q] # "idle" => pushed'[q] < Len(Work[q])
      <3>1. Len(Work[q]) \in Nat
        BY RingValues, Sizes, Zenon
      <3> QED
        BY <1>1, <3>1 DEF IndInv, TypeInv, Threads
    <2> HIDE DEF v
    <2> QED
      BY <1>1, <2>1, <2>2, <2>3, Zenon DEF IndInv, TypeInv, Threads
  <1> HIDE DEF v
  <1>9. PositionInv'
    <2>1. ASSUME NEW j \in tail..(head - 1)
          PROVE  \/ /\ sequence'[Slot(j)] = j
                    /\ \E q \in Producers : Claims(q)' /\ at[q] = j
                 \/ sequence'[Slot(j)] = j + 1 /\ value[Slot(j)] # None
      <3>1. CASE j = at[p]
        BY <1>2, <1>3, <1>4, <3>1, Zenon DEF s
      <3>2. CASE j # at[p]
        <4>1. Slot(j) \in Slots /\ Slot(j) # s
          BY <1>6, <1>7, <3>2, Sizes
        <4>2. sequence'[Slot(j)] = sequence[Slot(j)]
          BY <1>4, <4>1, Zenon
        <4> QED
          BY <1>5, <3>2, <4>2, Zenon DEF IndInv, PositionInv, Threads
      <3> QED
        BY <3>1, <3>2, Zenon
    <2>2. ASSUME NEW j \in head..(tail + Capacity - 1)
          PROVE  \/ sequence'[Slot(j)] = j /\ value[Slot(j)] = None
                 \/ /\ sequence'[Slot(j)] = j - Capacity + 1
                    /\ \E c \in Consumers : Claims(c)' /\ at[c] = j - Capacity
      <3>1. Slot(j) \in Slots /\ Slot(j) # s
        BY <1>6, <1>7, Sizes
      <3>2. sequence'[Slot(j)] = sequence[Slot(j)]
        BY <1>4, <3>1, Zenon
      <3> QED
        BY <1>1, <1>5, <3>2, Zenon DEF IndInv, PositionInv, Threads
    <2> QED
      BY <1>1, <2>1, <2>2, Zenon DEF IndInv, PositionInv
  <1>10. ClaimInv'
    <2>1. ASSUME NEW q \in Producers, Claims(q)'
          PROVE  /\ at[q] \in tail..(head - 1)
                 /\ sequence'[Slot(at[q])] = at[q]
                 /\ value[Slot(at[q])]
                        = IF pc'[q] = "write" THEN None ELSE Work[q][pushed'[q] + 1]
      <3>1. q # p /\ q \in Threads /\ Claims(q) /\ pc'[q] = pc[q]
        BY <1>5, <2>1, Zenon DEF Threads
      <3>2. Slot(at[q]) # s /\ Slot(at[q]) \in Slots
        BY <1>1, <1>3, <3>1, RingExclusive, RingApart, Zenon DEF s
      <3>3. pushed'[q] = pushed[q]
        BY <1>1, <3>1, Zenon DEF IndInv, TypeInv
      <3> QED
        BY <1>4, <3>1, <3>2, <3>3, Zenon DEF IndInv, ClaimInv
    <2>2. ASSUME NEW c \in Consumers, Claims(c)'
          PROVE  /\ at[c] < tail /\ head <= at[c] + Capacity
                 /\ sequence'[Slot(at[c])] = at[c] + 1
                 /\ value[Slot(at[c])] = None <=> pc'[c] = "publish"
      <3>1. c # p /\ c \in Threads /\ Claims(c) /\ pc'[c] = pc[c]
        BY <1>1, <1>5, <2>2, Zenon DEF Threads
      <3>2. Slot(at[c]) # s /\ Slot(at[c]) \in Slots
        BY <1>1, <1>3, <3>1, RingExclusive, RingApart, Zenon DEF s
      <3> QED
        BY <1>4, <3>1, <3>2, Zenon DEF IndInv, ClaimInv
    <2> QED
      BY <1>1, <1>5, <2>1, <2>2, SMTT(30) DEF IndInv, ClaimInv
  <1>11. ExchangeInv'
    <2>1. sequence[Slot(head)] = head
            => sequence'[Slot(head)] = head
      BY <1>3, <1>4, <1>7, RingSlot
    <2>2. sequence[Slot(tail)] = tail + 1
            => sequence'[Slot(tail)] = tail + 1
      <3>1. tail \in tail..(tail + Capacity - 1)
        BY <1>7, Sizes
      <3> QED
        BY <1>3, <1>4, <1>6, <1>7, <3>1, Zenon
    <2> QED
      BY <1>1, <2>1, <2>2, Zenon DEF IndInv, ExchangeInv, TypeInv, Threads
  <1>12. ValueInv'
    <2>1. Pushed \subseteq Pushed' /\ v \in Pushed'
      <3>1. \A q \in Producers : 1..pushed[q] \subseteq 1..pushed'[q]
        BY <1>1, <1>2 DEF IndInv, TypeInv
      <3>2. pushed[p] + 1 \in 1..pushed'[p]
        BY <1>1, <1>2 DEF IndInv, TypeInv
      <3>3. \A w : w \in Pushed'
                <=> \E q \in Producers : \E i \in 1..pushed'[q] : w = Work[q][i]
        BY RingPushedNext, Zenon
      <3>4. v \in Pushed'
        BY <3>2, <3>3, Zenon DEF v
      <3> QED
        BY <3>1, <3>3, <3>4, RingPushed, Zenon
    <2>2. ASSUME NEW j \in tail..(head - 1), sequence'[Slot(j)] = j + 1
          PROVE  value[Slot(j)] \in Pushed'
      <3>1. CASE j = at[p]
        BY <1>3, <2>1, <3>1, Zenon DEF s
      <3>2. CASE j # at[p]
        <4>1. Slot(j) \in Slots /\ Slot(j) # s
          BY <1>6, <1>7, <3>2, Sizes
        <4>2. sequence'[Slot(j)] = sequence[Slot(j)]
          BY <1>4, <4>1
        <4> QED
          BY <2>1, <2>2, <4>2, Zenon DEF IndInv, ValueInv
      <3> QED
        BY <3>1, <3>2, Zenon
    <2> QED
      BY <1>1, <2>1, <2>2, Zenon DEF IndInv, ValueInv
  <1> QED
    BY <1>8, <1>9, <1>10, <1>11, <1>12 DEF IndInv

(* A consumer claims the position at tail_, whose slot is full. *)
LEMMA RingClaimsTail ==
    ASSUME RingAssumption, IndInv, NEW c \in Consumers, PopExchange(c), pc'[c] = "read"
    PROVE  /\ IndInv'
           /\ tail < head /\ sequence[Slot(tail)] = tail + 1
           /\ value[Slot(tail)] \in Values
  <1> DEFINE v == value[Slot(tail)]
  <1> USE DEF IndInv
  <1> USE Sizes
  <1>1. /\ head \in Nat /\ tail \in Nat /\ c \in Threads /\ c \notin Producers
        /\ at[c] = tail /\ pc[c] = "exchange"
        /\ tail' = tail + 1 /\ pc' = [pc EXCEPT ![c] = "read"]
        /\ taken' = [taken EXCEPT ![v] = taken[v] + 1]
        /\ UNCHANGED <<head, sequence, value, at, pushed>>
    BY Sizes, Zenon DEF PopExchange, Goto, slots, TypeInv, Threads
  <1>2. sequence[Slot(tail)] = tail + 1
    BY <1>1, Zenon DEF ExchangeInv
  <1>3. tail < head /\ head <= tail + Capacity
    <2>1. tail <= head /\ head <= tail + Capacity
      BY Zenon DEF PositionInv
    <2>2. ASSUME head = tail
          PROVE  FALSE
      <3>1. tail \in head..(tail + Capacity - 1)
        BY <1>1, <2>2
      <3>2. \/ sequence[Slot(tail)] = tail
            \/ sequence[Slot(tail)] = tail - Capacity + 1
        BY <3>1, Zenon DEF PositionInv
      <3> QED
        BY <1>1, <1>2, <3>2
    <2> QED
      BY <1>1, <2>1, <2>2
  <1>4. v # None /\ v \in Values /\ v \in Pushed
    <2>1. tail \in tail..(head - 1)
      BY <1>1, <1>3
    <2>2. v # None
      BY <1>1, <1>2, <2>1 DEF PositionInv
    <2>3. v \in Pushed
      BY <1>2, <2>1, Zenon DEF ValueInv
    <2> QED
      BY <1>1, <2>2, <2>3, RingSlot, Zenon DEF TypeInv
  <1> HIDE DEF v
  <1>5. ASSUME NEW p \in Producers, Claims(p)
        PROVE  at[p] \in (tail + 1)..(head - 1)
    <2>1. at[p] \in tail..(head - 1) /\ sequence[Slot(at[p])] = at[p]
      BY <1>5, Zenon DEF ClaimInv
    <2>2. at[p] # tail
      BY <1>1, <1>2, <2>1
    <2> QED
      BY <1>1, <2>1, <2>2
  <1>6. \A u \in Threads : /\ Claims(u)' <=> (Claims(u) \/ u = c)
                           /\ u # c => pc'[u] = pc[u]
                           /\ Window(u)' = Window(u)
    BY <1>1, Zenon DEF Claims, TypeInv, Window
  <1>7. pc'[c] = "read" /\ Claims(c)' /\ ~Claims(c)
    BY <1>1, Zenon DEF TypeInv, Claims
  <1>8. TypeInv'
    <2>1. taken' \in [Values -> Nat]
      BY <1>1, <1>4 DEF TypeInv
    <2> QED
      BY <1>1, <2>1 DEF TypeInv, Threads
  <1>9. PositionInv'
    <2>1. ASSUME NEW j \in (tail + 1)..(head - 1)
          PROVE  \/ /\ sequence[Slot(j)] = j
                    /\ \E q \in Producers : Claims(q)' /\ at[q] = j
                 \/ sequence[Slot(j)] = j + 1 /\ value[Slot(j)] # None
      <3> j \in tail..(head - 1)
        BY <1>1
      <3> QED
        BY <1>6, Zenon DEF PositionInv, Threads
    <2>2. ASSUME NEW j \in head..(tail + Capacity)
          PROVE  \/ sequence[Slot(j)] = j /\ value[Slot(j)] = None
                 \/ /\ sequence[Slot(j)] = j - Capacity + 1
                    /\ \E d \in Consumers : Claims(d)' /\ at[d] = j - Capacity
      <3>1. CASE j = tail + Capacity
        <4>1. Slot(j) = Slot(tail) /\ j - Capacity = tail
          BY <1>1, <3>1, RingSlot
        <4> QED
          BY <1>1, <1>2, <1>7, <4>1, Zenon
      <3>2. CASE j # tail + Capacity
        <4> j \in head..(tail + Capacity - 1)
          BY <1>1, <3>2
        <4> QED
          BY <1>6, Zenon DEF PositionInv, Threads
      <3> QED
        BY <3>1, <3>2, Zenon
    <2>3. tail' + Capacity - 1 = tail + Capacity
      BY <1>1, SMTT(30)
    <2> QED
      BY <1>1, <1>3, <2>1, <2>2, <2>3, SMTT(30) DEF PositionInv
  <1>10. ClaimInv'
    <2>1. ASSUME NEW q \in Producers, Claims(q)'
          PROVE  /\ at[q] \in (tail + 1)..(head - 1)
                 /\ sequence[Slot(at[q])] = at[q]
                 /\ value[Slot(at[q])]
                        = IF pc'[q] = "write" THEN None ELSE Work[q][pushed[q] + 1]
      <3>1. Claims(q) /\ pc'[q] = pc[q]
        BY <1>1, <1>6, <2>1, Zenon DEF Threads
      <3> QED
        BY <1>5, <3>1, Zenon DEF ClaimInv
    <2>2. ASSUME NEW d \in Consumers, Claims(d)'
          PROVE  /\ at[d] < tail + 1 /\ head <= at[d] + Capacity
                 /\ sequence[Slot(at[d])] = at[d] + 1
                 /\ value[Slot(at[d])] = None <=> pc'[d] = "publish"
      <3>1. CASE d = c
        BY <1>1, <1>2, <1>3, <1>4, <1>7, <3>1 DEF v
      <3>2. CASE d # c
        <4>1. Claims(d) /\ pc'[d] = pc[d] /\ at[d] \in Nat
          BY <1>6, <2>2, <3>2, Zenon DEF Threads, TypeInv
        <4>2. at[d] < tail + 1
          BY <1>1, <4>1 DEF ClaimInv
        <4> QED
          BY <4>1, <4>2, Zenon DEF ClaimInv
      <3> QED
        BY <3>1, <3>2, Zenon
    <2>3. ASSUME NEW t \in Threads, t # c, Claims(t)
          PROVE  Window(t) # Window(c)
      <3>1. Window(c) = tail + Capacity
        BY <1>1, Zenon DEF Window
      <3>2. Window(t) \in tail..(tail + Capacity - 1)
        BY <2>3, RingApart, Zenon
      <3> QED
        BY <1>1, <3>1, <3>2
    <2>4. \A t, u \in Threads : t # u /\ Claims(t)' /\ Claims(u)'
                => Window(t)' # Window(u)'
      BY <1>1, <1>6, <2>3 DEF ClaimInv
    <2> QED
      BY <1>1, <2>1, <2>2, <2>4, Zenon DEF ClaimInv
  <1>11. ExchangeInv'
    BY <1>1 DEF ExchangeInv, TypeInv, Threads
  <1>12. ValueInv'
    <2>1. \A j \in (tail + 1)..(head - 1) : sequence[Slot(j)] = j + 1
                => value[Slot(j)] \in Pushed
      BY <1>1 DEF ValueInv
    <2>2. Pushed' = Pushed
      BY <1>1 DEF Pushed
    <2>3. \A w \in Values : taken'[w] # 0 => w \in Pushed
      BY <1>1, <1>4, Zenon DEF ValueInv, TypeInv
    <2> QED
      BY <1>1, <2>1, <2>2, <2>3, Zenon DEF ValueInv
  <1> QED
    BY <1>2, <1>3, <1>4, <1>8, <1>9, <1>10, <1>11, <1>12, Zenon DEF v

(* The consumer moves the value out of the slot it claimed. *)
LEMMA RingReads ==
    ASSUME RingAssumption, IndInv, NEW c \in Consumers, PopRead(c)
    PROVE  IndInv'
  <1> DEFINE s == Slot(at[c])
  <1>1. /\ pc[c] = "read" /\ c \in Threads /\ c \notin Producers
        /\ pc' = [pc EXCEPT ![c] = "publish"]
        /\ value' = [value EXCEPT ![s] = None]
        /\ UNCHANGED <<head, tail, sequence, at, pushed, taken>>
    BY Sizes, Zenon DEF PopRead, Goto, Threads
  <1>3. Claims(c) /\ s \in Slots /\ sequence[s] = at[c] + 1
    BY <1>1, RingApart, Zenon DEF Claims, IndInv, ClaimInv
  <1>4. /\ value \in [Slots -> Values \cup {None}]
        /\ value'[s] = None
        /\ \A x \in Slots : x # s => value'[x] = value[x]
    BY <1>1, <1>3, Zenon DEF IndInv, TypeInv
  <1> HIDE DEF s
  <1>5. \A u \in Threads : /\ Claims(u)' <=> Claims(u)
                           /\ u # c => pc'[u] = pc[u]
                           /\ Window(u)' = Window(u)
    BY <1>1, Zenon DEF Claims, IndInv, TypeInv, Window
  <1>6. \A j \in tail..(tail + Capacity - 1) :
            Slot(j) \in Slots /\ (Slot(j) = s => j = at[c] + Capacity)
    <2>1. /\ Window(c) = at[c] + Capacity /\ tail \in Nat
          /\ \A j \in tail..(tail + Capacity - 1) : Slot(j) = s => j = Window(c)
      BY <1>1, <1>3, RingApart, Zenon DEF s
    <2>2. \A j \in tail..(tail + Capacity - 1) : j \in Nat
      BY <2>1
    <2> QED
      BY <2>1, <2>2, RingSlot, Zenon
  <1>7. /\ at[c] + Capacity \in head..(tail + Capacity - 1) /\ at[c] \in Nat
        /\ tail \in Nat /\ head \in Nat
        /\ tail <= head /\ head <= tail + Capacity
    BY <1>1, <1>3, RingApart, Zenon DEF IndInv, PositionInv
  <1>8. TypeInv'
    BY <1>1, <1>4, Zenon DEF IndInv, TypeInv, Threads
  <1>9. PositionInv'
    <2>1. ASSUME NEW j \in tail..(head - 1)
          PROVE  \/ /\ sequence[Slot(j)] = j
                    /\ \E q \in Producers : Claims(q)' /\ at[q] = j
                 \/ sequence[Slot(j)] = j + 1 /\ value'[Slot(j)] # None
      <3>1. Slot(j) \in Slots /\ Slot(j) # s
        BY <1>6, <1>7, Sizes
      <3> QED
        BY <1>4, <1>5, <3>1, Zenon DEF IndInv, PositionInv, Threads
    <2>2. ASSUME NEW j \in head..(tail + Capacity - 1)
          PROVE  \/ sequence[Slot(j)] = j /\ value'[Slot(j)] = None
                 \/ /\ sequence[Slot(j)] = j - Capacity + 1
                    /\ \E d \in Consumers : Claims(d)' /\ at[d] = j - Capacity
      <3>1. Slot(j) \in Slots
        BY <1>6, <1>7, Sizes, SMTT(30)
      <3> QED
        BY <1>4, <1>5, <3>1, Zenon DEF IndInv, PositionInv, Threads
    <2> QED
      BY <1>1, <2>1, <2>2, Zenon DEF IndInv, PositionInv
  <1>10. ClaimInv'
    <2>1. ASSUME NEW q \in Producers, Claims(q)'
          PROVE  /\ at[q] \in tail..(head - 1)
                 /\ sequence[Slot(at[q])] = at[q]
                 /\ value'[Slot(at[q])]
                        = IF pc'[q] = "write" THEN None ELSE Work[q][pushed[q] + 1]
      <3>1. q # c /\ q \in Threads /\ Claims(q) /\ pc'[q] = pc[q]
        BY <1>1, <1>5, <2>1, Zenon DEF Threads
      <3>2. Slot(at[q]) # s /\ Slot(at[q]) \in Slots
        BY <1>1, <1>3, <3>1, RingExclusive, RingApart, Zenon DEF s
      <3> QED
        BY <1>4, <3>1, <3>2, Zenon DEF IndInv, ClaimInv
    <2>2. ASSUME NEW d \in Consumers, Claims(d)'
          PROVE  /\ at[d] < tail /\ head <= at[d] + Capacity
                 /\ sequence[Slot(at[d])] = at[d] + 1
                 /\ value'[Slot(at[d])] = None <=> pc'[d] = "publish"
      <3>1. CASE d = c
        <4>1. pc'[c] = "publish"
          BY <1>1, Zenon DEF IndInv, TypeInv
        <4> QED
          BY <1>3, <1>4, <3>1, <4>1, Zenon DEF s, IndInv, ClaimInv
      <3>2. CASE d # c
        <4>1. d \in Threads /\ Claims(d) /\ pc'[d] = pc[d]
          BY <1>5, <2>2, <3>2, Zenon DEF Threads
        <4>2. Slot(at[d]) # s /\ Slot(at[d]) \in Slots
          BY <1>1, <1>3, <3>2, <4>1, RingExclusive, RingApart, Zenon DEF s
        <4> QED
          BY <1>4, <4>1, <4>2, Zenon DEF IndInv, ClaimInv
      <3> QED
        BY <3>1, <3>2, Zenon
    <2> QED
      BY <1>1, <1>5, <2>1, <2>2, SMTT(30) DEF IndInv, ClaimInv
  <1>11. ExchangeInv'
    BY <1>1, Zenon DEF IndInv, ExchangeInv, TypeInv, Threads
  <1>12. ValueInv'
    <2>1. ASSUME NEW j \in tail..(head - 1), sequence[Slot(j)] = j + 1
          PROVE  value'[Slot(j)] \in Pushed
      <3>1. Slot(j) \in Slots /\ Slot(j) # s
        BY <1>6, <1>7, Sizes
      <3> QED
        BY <1>4, <2>1, <3>1, Zenon DEF IndInv, ValueInv
    <2>2. Pushed' = Pushed
      BY <1>1 DEF Pushed
    <2> QED
      BY <1>1, <2>1, <2>2, Zenon DEF IndInv, ValueInv
  <1> QED
    BY <1>8, <1>9, <1>10, <1>11, <1>12 DEF IndInv

(* The consumer offers the slot to the next round. *)
LEMMA RingFrees ==
    ASSUME RingAssumption, IndInv, NEW c \in Consumers, PopPublish(c)
    PROVE  IndInv'
  <1> DEFINE s == Slot(at[c])
  <1>1. /\ pc[c] = "publish" /\ c \in Threads /\ c \notin Producers
        /\ pc' = [pc EXCEPT ![c] = "idle"]
        /\ sequence' = [sequence EXCEPT ![s] = at[c] + Capacity]
        /\ UNCHANGED <<head, tail, value, at, pushed, taken>>
    BY Sizes, Zenon DEF PopPublish, Goto, Threads
  <1>3. /\ Claims(c) /\ s \in Slots /\ sequence[s] = at[c] + 1
        /\ value[s] = None
    BY <1>1, RingApart, Zenon DEF Claims, IndInv, ClaimInv
  <1>4. /\ sequence \in [Slots -> Nat]
        /\ sequence'[s] = at[c] + Capacity
        /\ \A x \in Slots : x # s => sequence'[x] = sequence[x]
    BY <1>1, <1>3, Zenon DEF IndInv, TypeInv
  <1> HIDE DEF s
  <1>5. \A u \in Threads : /\ Claims(u)' <=> (Claims(u) /\ u # c)
                           /\ u # c => pc'[u] = pc[u]
                           /\ Window(u)' = Window(u)
    BY <1>1, Zenon DEF Claims, IndInv, TypeInv, Window
  <1>6. \A j \in tail..(tail + Capacity - 1) :
            Slot(j) \in Slots /\ (Slot(j) = s => j = at[c] + Capacity)
    <2>1. /\ Window(c) = at[c] + Capacity /\ tail \in Nat
          /\ \A j \in tail..(tail + Capacity - 1) : Slot(j) = s => j = Window(c)
      BY <1>1, <1>3, RingApart, Zenon DEF s
    <2>2. \A j \in tail..(tail + Capacity - 1) : j \in Nat
      BY <2>1
    <2> QED
      BY <2>1, <2>2, RingSlot
  <1>7. /\ at[c] + Capacity \in head..(tail + Capacity - 1) /\ at[c] \in Nat
        /\ tail \in Nat /\ head \in Nat
        /\ tail <= head /\ head <= tail + Capacity
    BY <1>1, <1>3, RingApart, Zenon DEF IndInv, PositionInv
  <1>8. TypeInv'
    <2>1. sequence' \in [Slots -> Nat]
      <3>1. at[c] + Capacity \in Nat
        BY <1>7, Sizes
      <3> QED
        BY <1>1, <1>4, <3>1, Zenon
    <2> QED
      BY <1>1, <2>1, Zenon DEF IndInv, TypeInv, Threads
  <1>9. PositionInv'
    <2>1. ASSUME NEW j \in tail..(head - 1)
          PROVE  \/ /\ sequence'[Slot(j)] = j
                    /\ \E q \in Producers : Claims(q)' /\ at[q] = j
                 \/ sequence'[Slot(j)] = j + 1 /\ value[Slot(j)] # None
      <3>1. Slot(j) \in Slots /\ Slot(j) # s
        BY <1>6, <1>7, Sizes
      <3>2. sequence'[Slot(j)] = sequence[Slot(j)]
        BY <1>4, <3>1, Zenon
      <3> QED
        BY <1>1, <1>5, <3>2, Zenon DEF IndInv, PositionInv, Threads
    <2>2. ASSUME NEW j \in head..(tail + Capacity - 1)
          PROVE  \/ sequence'[Slot(j)] = j /\ value[Slot(j)] = None
                 \/ /\ sequence'[Slot(j)] = j - Capacity + 1
                    /\ \E d \in Consumers : Claims(d)' /\ at[d] = j - Capacity
      <3>1. CASE j = at[c] + Capacity
        <4>1. Slot(j) = s
          BY <1>7, <3>1, RingSlot, Zenon DEF s
        <4> QED
          BY <1>3, <1>4, <3>1, <4>1, Zenon
      <3>2. CASE j # at[c] + Capacity
        <4>1. Slot(j) \in Slots /\ Slot(j) # s
          BY <1>6, <1>7, <3>2, Sizes
        <4>2. sequence'[Slot(j)] = sequence[Slot(j)]
          BY <1>4, <4>1, Zenon
        <4>3. at[c] # j - Capacity
          BY <1>7, <3>2, Sizes, SMTT(30)
        <4> QED
          BY <1>5, <4>2, <4>3, Zenon DEF IndInv, PositionInv, Threads
      <3> QED
        BY <3>1, <3>2, Zenon
    <2> QED
      BY <1>1, <2>1, <2>2, Zenon DEF IndInv, PositionInv
  <1>10. ClaimInv'
    <2>1. ASSUME NEW q \in Producers, Claims(q)'
          PROVE  /\ at[q] \in tail..(head - 1)
                 /\ sequence'[Slot(at[q])] = at[q]
                 /\ value[Slot(at[q])]
                        = IF pc'[q] = "write" THEN None ELSE Work[q][pushed[q] + 1]
      <3>1. q # c /\ q \in Threads /\ Claims(q) /\ pc'[q] = pc[q]
        BY <1>1, <1>5, <2>1, Zenon DEF Threads
      <3>2. Slot(at[q]) # s /\ Slot(at[q]) \in Slots
        BY <1>1, <1>3, <3>1, RingExclusive, RingApart, Zenon DEF s
      <3> QED
        BY <1>4, <3>1, <3>2, Zenon DEF IndInv, ClaimInv
    <2>2. ASSUME NEW d \in Consumers, Claims(d)'
          PROVE  /\ at[d] < tail /\ head <= at[d] + Capacity
                 /\ sequence'[Slot(at[d])] = at[d] + 1
                 /\ value[Slot(at[d])] = None <=> pc'[d] = "publish"
      <3>1. d # c /\ d \in Threads /\ Claims(d) /\ pc'[d] = pc[d]
        BY <1>5, <2>2, Zenon DEF Threads
      <3>2. Slot(at[d]) # s /\ Slot(at[d]) \in Slots
        BY <1>1, <1>3, <3>1, RingExclusive, RingApart, Zenon DEF s
      <3> QED
        BY <1>4, <3>1, <3>2, Zenon DEF IndInv, ClaimInv
    <2> QED
      BY <1>1, <1>5, <2>1, <2>2, SMTT(30) DEF IndInv, ClaimInv
  <1>11. ExchangeInv'
    <2>1. sequence[Slot(head)] = head
            => sequence'[Slot(head)] = head
      <3>1. head \in tail..(tail + Capacity - 1)
        BY <1>7, Sizes
      <3> QED
        BY <1>3, <1>4, <1>6, <1>7, <3>1, Sizes, Zenon
    <2>2. sequence[Slot(tail)] = tail + 1
            => sequence'[Slot(tail)] = tail + 1
      <3>1. tail \in tail..(tail + Capacity - 1)
        BY <1>7, Sizes
      <3> QED
        BY <1>3, <1>4, <1>6, <1>7, <3>1, Sizes
    <2> QED
      BY <1>1, <2>1, <2>2, Zenon DEF IndInv, ExchangeInv, TypeInv, Threads
  <1>12. ValueInv'
    <2>1. ASSUME NEW j \in tail..(head - 1), sequence'[Slot(j)] = j + 1
          PROVE  value[Slot(j)] \in Pushed
      <3>1. Slot(j) \in Slots /\ Slot(j) # s
        BY <1>6, <1>7, Sizes
      <3>2. sequence'[Slot(j)] = sequence[Slot(j)]
        BY <1>4, <3>1
      <3> QED
        BY <2>1, <3>2, Zenon DEF IndInv, ValueInv
    <2>2. Pushed' = Pushed
      BY <1>1 DEF Pushed
    <2> QED
      BY <1>1, <2>1, <2>2, Zenon DEF IndInv, ValueInv
  <1> QED
    BY <1>8, <1>9, <1>10, <1>11, <1>12 DEF IndInv

(* The ring as it is constructed. *)
LEMMA RingInit ==
    ASSUME RingAssumption, Init
    PROVE  IndInv
  <1> USE DEF Init
  <1> USE Sizes
  <1>1. TypeInv
    BY DEF TypeInv, Slots, Threads
  <1>2. \A t \in Threads : ~Claims(t)
    BY Zenon DEF Claims
  <1>3. PositionInv
    <2>1. ASSUME NEW j \in 0..(Capacity - 1)
          PROVE  Slot(j) = j /\ j \in Slots
      <3>1. (j % Capacity) = j
        BY FirstRound
      <3> QED
        BY <3>1, Zenon DEF Slot, Slots
    <2> QED
      BY <2>1 DEF PositionInv
  <1>4. ClaimInv
    BY <1>2, Zenon DEF ClaimInv, Threads
  <1>5. ExchangeInv
    BY DEF ExchangeInv, Threads
  <1>6. ValueInv
    BY DEF ValueInv
  <1> QED
    BY <1>1, <1>3, <1>4, <1>5, <1>6, Zenon DEF IndInv

(* Every step of the ring keeps its invariant. *)
LEMMA RingStep ==
    ASSUME RingAssumption, IndInv, [Next]_(vars)
    PROVE  IndInv'
  <1>1. ASSUME NEW p \in Producers, Push(p)
        PROVE  IndInv'
    <2>1. p \in Threads
      BY Zenon DEF Threads
    <2>2. CASE LoadPosition(p) \/ LoadSequence(p)
      BY <2>1, <2>2, RingLooking, RingLooks, Zenon
    <2>3. CASE PushExchange(p)
      <3>1. pc'[p] = "write" \/ pc'[p] = "sequence"
        BY <2>1, <2>3, Zenon DEF PushExchange, Goto, IndInv, TypeInv
      <3> QED
        BY <2>1, <2>3, <3>1, RingLooking, RingLooks, RingClaimsHead, Zenon
    <2> QED
      BY <1>1, <2>2, <2>3, RingWrites, RingPublishes, Zenon DEF Push
  <1>2. ASSUME NEW c \in Consumers, Pop(c)
        PROVE  IndInv'
    <2>1. c \in Threads
      BY Zenon DEF Threads
    <2>2. CASE LoadPosition(c) \/ LoadSequence(c)
      BY <2>1, <2>2, RingLooking, RingLooks, Zenon
    <2>3. CASE PopExchange(c)
      <3>1. pc'[c] = "read" \/ pc'[c] = "sequence"
        BY <2>1, <2>3, Zenon DEF PopExchange, Goto, IndInv, TypeInv
      <3> QED
        BY <2>1, <2>3, <3>1, RingLooking, RingLooks, RingClaimsTail, Zenon
    <2> QED
      BY <1>2, <2>2, <2>3, RingReads, RingFrees DEF Pop
  <1>3. ASSUME UNCHANGED vars
        PROVE  IndInv'
    BY <1>3 DEF vars, slots, IndInv, TypeInv, PositionInv, ClaimInv,
        ExchangeInv, ValueInv, Claims, Window, Pushed
  <1> QED
    BY <1>1, <1>2, <1>3, Zenon DEF Next

(* What the ring promises of its slots follows from the invariant. *)
LEMMA RingSlotsAreExclusive ==
    ASSUME RingAssumption, IndInv
    PROVE  SlotsAreExclusive
  <1>1. head - tail <= Capacity
    BY Sizes DEF IndInv, TypeInv, PositionInv
  <1>2. ASSUME NEW p \in Producers, pc[p] = "write"
        PROVE  value[Slot(at[p])] = None
    BY <1>2, Zenon DEF IndInv, ClaimInv, Claims, Threads
  <1>3. ASSUME NEW c \in Consumers, pc[c] = "read"
        PROVE  value[Slot(at[c])] # None
    BY <1>3, Zenon DEF IndInv, ClaimInv, Claims, Threads
  <1>4. ASSUME NEW t \in Threads, NEW u \in Threads, t # u,
               pc[t] \in {"write", "read", "publish"}, pc[u] \in {"write", "read", "publish"}
        PROVE  Slot(at[t]) # Slot(at[u])
    BY <1>4, RingExclusive, Zenon DEF Claims
  <1> QED
    BY <1>1, <1>2, <1>3, <1>4, Zenon DEF SlotsAreExclusive

-----------------------------------------------------------------------------
(* The ring is a queue.                                                    *)

(* The value at a position that is being written, and at another one. *)
LEMMA RingWriter ==
    ASSUME RingAssumption, IndInv, NEW p \in Producers, pc[p] = "write", NEW j, at[p] = j
    PROVE  ValueAt(j) = Work[p][pushed[p] + 1]
  <1>1. ASSUME NEW q \in Producers, pc[q] = "write", at[q] = j
        PROVE  q = p
    BY <1>1, Zenon DEF IndInv, ClaimInv, Claims, Window, Threads
  <1> DEFINE w == CHOOSE q \in Producers : pc[q] = "write" /\ at[q] = j
  <1>2. w \in Producers /\ pc[w] = "write" /\ at[w] = j
    BY Zenon
  <1>3. w = p
    BY <1>1, <1>2, Zenon
  <1>4. ValueAt(j) = Work[w][pushed[w] + 1]
    BY Zenon DEF ValueAt
  <1> QED
    BY <1>3, <1>4, Zenon

LEMMA RingWriterNext ==
    ASSUME RingAssumption, IndInv', NEW p \in Producers, pc'[p] = "write", NEW j, at'[p] = j
    PROVE  ValueAt(j)' = Work[p][pushed'[p] + 1]
  <1>1. ASSUME NEW q \in Producers, pc'[q] = "write", at'[q] = j
        PROVE  q = p
    BY <1>1, Zenon DEF IndInv, ClaimInv, Claims, Window, Threads
  <1> DEFINE w == CHOOSE q \in Producers : pc'[q] = "write" /\ at'[q] = j
  <1>2. w \in Producers /\ pc'[w] = "write" /\ at'[w] = j
    BY Zenon
  <1>3. w = p
    BY <1>1, <1>2, Zenon
  <1>4. ValueAt(j)' = Work[w][pushed'[w] + 1]
    BY Zenon DEF ValueAt
  <1> QED
    BY <1>3, <1>4, Zenon

LEMMA RingNoWriter ==
    ASSUME NEW j, \A q \in Producers : ~(pc[q] = "write" /\ at[q] = j)
    PROVE  ValueAt(j) = value[Slot(j)]
  BY Zenon DEF ValueAt

LEMMA RingNoWriterNext ==
    ASSUME NEW j, \A q \in Producers : ~(pc'[q] = "write" /\ at'[q] = j)
    PROVE  ValueAt(j)' = value'[Slot(j)]
  BY Zenon DEF ValueAt, Slot

(* What the queue holds: values that were pushed, or that are being pushed. *)
LEMMA RingHolds ==
    ASSUME RingAssumption, IndInv, NEW j \in tail..(head - 1)
    PROVE  /\ ValueAt(j) \in Values
           /\ \/ ValueAt(j) \in Pushed
              \/ \E q \in Producers : /\ pc[q] \in {"write", "publish"}
                                      /\ ValueAt(j) = Work[q][pushed[q] + 1]
  <1>1. CASE \E q \in Producers : pc[q] = "write" /\ at[q] = j
    <2>1. PICK q \in Producers : pc[q] = "write" /\ at[q] = j
      BY <1>1, Zenon
    <2>2. ValueAt(j) = Work[q][pushed[q] + 1]
      BY <2>1, RingWriter, Zenon
    <2>3. Work[q][pushed[q] + 1] \in Values
      BY <2>1, RingFresh, Zenon DEF IndInv
    <2> QED
      BY <2>1, <2>2, <2>3, Zenon
  <1>2. CASE \A q \in Producers : ~(pc[q] = "write" /\ at[q] = j)
    <2>1. ValueAt(j) = value[Slot(j)]
      BY <1>2, RingNoWriter, Zenon
    <2>2. CASE sequence[Slot(j)] = j + 1 /\ value[Slot(j)] # None
      <3>1. value[Slot(j)] \in Pushed
        BY <2>2, Zenon DEF IndInv, ValueInv
      <3>2. Slot(j) \in Slots
        BY RingSlot DEF IndInv, TypeInv
      <3> QED
        BY <2>1, <2>2, <3>1, <3>2, Zenon DEF IndInv, TypeInv
    <2>3. CASE \E q \in Producers : Claims(q) /\ at[q] = j
      <3>1. PICK q \in Producers : Claims(q) /\ at[q] = j
        BY <2>3, Zenon
      <3>2. pc[q] = "publish"
        BY <1>2, <3>1, Zenon DEF Claims, IndInv, TypeInv
      <3>3. value[Slot(j)] = Work[q][pushed[q] + 1]
        BY <3>1, <3>2, Zenon DEF IndInv, ClaimInv
      <3>4. Work[q][pushed[q] + 1] \in Values
        BY <3>2, RingFresh, Zenon DEF IndInv
      <3> QED
        BY <2>1, <3>2, <3>3, <3>4, Zenon
    <2> QED
      BY <2>2, <2>3, Zenon DEF IndInv, PositionInv
  <1> QED
    BY <1>1, <1>2, Zenon

(* A value that is about to be put is new. *)
LEMMA RingNew ==
    ASSUME RingAssumption, IndInv, NEW p \in Producers, pc[p] = "exchange"
    PROVE  /\ taken[Work[p][pushed[p] + 1]] = 0
           /\ \A j \in tail..(head - 1) : ValueAt(j) # Work[p][pushed[p] + 1]
  <1> DEFINE v == Work[p][pushed[p] + 1]
  <1>1. v \in Values /\ pushed[p] \in Nat /\ pushed[p] + 1 \in 1..Len(Work[p])
    BY RingFresh, Zenon DEF IndInv
  <1>2. v \notin Pushed
    <2>1. SUFFICES ASSUME NEW q \in Producers, NEW i \in 1..pushed[q], v = Work[q][i]
                   PROVE  FALSE
      BY RingPushed, Zenon
    <2>2. pushed[q] \in Nat /\ pushed[q] <= Len(Work[q]) /\ Len(Work[q]) \in Nat
      BY RingValues, Zenon DEF IndInv, TypeInv
    <2>3. i \in 1..Len(Work[q])
      BY <2>2
    <2>4. q = p /\ i = pushed[p] + 1
      BY <1>1, <2>1, <2>3, RingValues
    <2> QED
      BY <1>1, <2>4
  <1> HIDE DEF v
  <1>3. taken[v] = 0
    BY <1>1, <1>2, Zenon DEF IndInv, ValueInv
  <1>4. ASSUME NEW j \in tail..(head - 1), ValueAt(j) = v
        PROVE  FALSE
    <2>1. PICK q \in Producers : /\ pc[q] \in {"write", "publish"}
                                 /\ v = Work[q][pushed[q] + 1]
      BY <1>2, <1>4, RingHolds, Zenon
    <2>2. pushed[q] + 1 \in 1..Len(Work[q])
      BY <2>1, RingFresh, Zenon DEF IndInv
    <2>3. q = p
      BY <1>1, <2>1, <2>2, RingValues DEF v
    <2> QED
      BY <2>1, <2>3, Zenon
  <1> QED
    BY <1>3, <1>4, Zenon DEF v

(* Steps that leave every position between tail_ and head_ as it is. *)
LEMMA RingQuiet ==
    ASSUME RingAssumption, IndInv, IndInv', NEW j \in tail..(head - 1),
           \A q \in Producers : pc[q] = "write" /\ at[q] = j
                                    <=> pc'[q] = "write" /\ at'[q] = j,
           \A q \in Producers : pc[q] = "write" => pushed'[q] = pushed[q],
           \/ value'[Slot(j)] = value[Slot(j)]
           \/ \E q \in Producers : pc[q] = "write" /\ at[q] = j
    PROVE  ValueAt(j)' = ValueAt(j)
  <1>1. CASE \E q \in Producers : pc[q] = "write" /\ at[q] = j
    <2>1. PICK q \in Producers : pc[q] = "write" /\ at[q] = j
      BY <1>1, Zenon
    <2>2. ValueAt(j) = Work[q][pushed[q] + 1]
      BY <2>1, RingWriter, Zenon
    <2>3. ValueAt(j)' = Work[q][pushed'[q] + 1]
      BY <2>1, RingWriterNext, Zenon
    <2> QED
      BY <2>1, <2>2, <2>3, Zenon
  <1>2. CASE \A q \in Producers : ~(pc[q] = "write" /\ at[q] = j)
    BY <1>2, RingNoWriter, RingNoWriterNext, Zenon
  <1> QED
    BY <1>1, <1>2, Zenon

(* The values between tail_ and head_, and whether one was claimed. *)
RingKeeps == \A j \in tail..(head - 1) : ValueAt(j)' = ValueAt(j)

RingPuts(p) ==
    /\ tail' = tail /\ head' = head + 1 /\ taken' = taken
    /\ pc[p] = "exchange"
    /\ \A j \in Nat : j = head => ValueAt(j)' = Work[p][pushed[p] + 1]

RingTakes ==
    /\ head' = head /\ tail' = tail + 1 /\ tail < head
    /\ taken' = [taken EXCEPT ![ValueAt(tail)] = @ + 1]

(* What each step of the ring does to them. *)
LEMMA RingMoves ==
    ASSUME RingAssumption, IndInv, IndInv', Next
    PROVE  /\ RingKeeps
           /\ \/ UNCHANGED <<head, tail, taken>>
              \/ \E p \in Producers : RingPuts(p)
              \/ RingTakes
  <1>1. ASSUME NEW t \in Threads, NEW place, NEW position, Looks(t, place, position)
        PROVE  RingKeeps /\ UNCHANGED <<head, tail, taken>>
    <2>1. \A q \in Producers : /\ pc'[q] = "write" <=> pc[q] = "write"
                               /\ pc[q] = "write" => at'[q] = at[q]
      BY <1>1, Zenon DEF Looks, IndInv, TypeInv, Threads
    <2>2. UNCHANGED <<head, tail, value, pushed, taken>>
      BY <1>1, Zenon DEF Looks
    <2> QED
      BY <2>1, <2>2, RingQuiet, Zenon DEF RingKeeps
  <1>2. ASSUME NEW p \in Producers, PushExchange(p), pc'[p] = "write"
        PROVE  RingKeeps /\ RingPuts(p)
    <2>1. /\ at[p] = head /\ pc[p] = "exchange" /\ head \in Nat /\ tail \in Nat
          /\ head' = head + 1 /\ pc' = [pc EXCEPT ![p] = "write"]
          /\ UNCHANGED <<tail, value, at, pushed, taken>>
      BY <1>2, Zenon DEF PushExchange, Goto, slots, IndInv, TypeInv, Threads
    <2>2. \A q \in Producers : pc'[q] = "write" <=> pc[q] = "write" \/ q = p
      BY <1>2, <2>1, Zenon DEF IndInv, TypeInv, Threads
    <2>3. RingKeeps
      BY <2>1, <2>2, RingQuiet DEF RingKeeps
    <2>4. ASSUME NEW j, j = head
          PROVE  ValueAt(j)' = Work[p][pushed[p] + 1]
      BY <1>2, <2>1, <2>4, RingWriterNext, Zenon
    <2> QED
      BY <2>1, <2>3, <2>4, Zenon DEF RingPuts
  <1>3. ASSUME NEW p \in Producers, PushWrite(p)
        PROVE  RingKeeps /\ UNCHANGED <<head, tail, taken>>
    <2>1. /\ pc[p] = "write" /\ pc' = [pc EXCEPT ![p] = "publish"]
          /\ value' = [value EXCEPT ![Slot(at[p])] = Work[p][pushed[p] + 1]]
          /\ UNCHANGED <<head, tail, at, pushed, taken>>
      BY <1>3, Zenon DEF PushWrite, Goto
    <2>2. \A q \in Producers : pc'[q] = "write" <=> pc[q] = "write" /\ q # p
      BY <2>1, Zenon DEF IndInv, TypeInv, Threads
    <2>3. /\ Claims(p) /\ p \in Threads /\ Window(p) = at[p]
          /\ Slot(at[p]) \in Slots /\ tail \in Nat /\ head \in Nat
          /\ head <= tail + Capacity
      BY <2>1, RingApart, Zenon DEF Claims, Threads, IndInv, PositionInv
    <2>4. ASSUME NEW j \in tail..(head - 1)
          PROVE  ValueAt(j)' = ValueAt(j)
      <3>1. CASE j = at[p]
        <4>1. ValueAt(j) = Work[p][pushed[p] + 1]
          BY <2>1, <3>1, RingWriter, Zenon
        <4>2. ASSUME NEW q \in Producers, pc'[q] = "write", at'[q] = j
              PROVE  FALSE
          <5>1. q # p /\ pc[q] = "write" /\ at[q] = at[p]
            BY <2>1, <2>2, <3>1, <4>2, Zenon
          <5> QED
            BY <2>3, <5>1, Zenon DEF IndInv, ClaimInv, Claims, Window, Threads
        <4>3. ValueAt(j)' = value'[Slot(j)]
          BY <4>2, RingNoWriterNext, Zenon
        <4>4. value'[Slot(j)] = Work[p][pushed[p] + 1]
          BY <2>1, <2>3, <3>1, Zenon DEF IndInv, TypeInv
        <4> QED
          BY <4>1, <4>3, <4>4, Zenon
      <3>2. CASE j # at[p]
        <4>1. j \in tail..(tail + Capacity - 1) /\ j \in Nat
          BY <2>3, Sizes
        <4>2. Slot(j) # Slot(at[p]) /\ Slot(j) \in Slots
          BY <2>3, <3>2, <4>1, RingApart, RingSlot, Zenon
        <4>3. value'[Slot(j)] = value[Slot(j)]
          BY <2>1, <4>2, Zenon DEF IndInv, TypeInv
        <4> QED
          BY <2>1, <2>2, <3>2, <4>3, RingQuiet, Zenon
      <3> QED
        BY <3>1, <3>2, Zenon
    <2> QED
      BY <2>1, <2>4, Zenon DEF RingKeeps
  <1>4. ASSUME NEW p \in Producers, PushPublish(p)
        PROVE  RingKeeps /\ UNCHANGED <<head, tail, taken>>
    <2>1. /\ pc[p] = "publish" /\ pc' = [pc EXCEPT ![p] = "idle"]
          /\ pushed' = [pushed EXCEPT ![p] = pushed[p] + 1]
          /\ UNCHANGED <<head, tail, value, at, taken>>
      BY <1>4, Zenon DEF PushPublish, Goto
    <2>2. \A q \in Producers : /\ pc'[q] = "write" <=> pc[q] = "write"
                               /\ pc[q] = "write" => pushed'[q] = pushed[q]
      BY <2>1, Zenon DEF IndInv, TypeInv, Threads
    <2> QED
      BY <2>1, <2>2, RingQuiet, Zenon DEF RingKeeps
  <1>5. ASSUME NEW c \in Consumers, PopExchange(c), pc'[c] = "read"
        PROVE  RingKeeps /\ RingTakes
    <2>1. /\ at[c] = tail /\ head \in Nat /\ tail \in Nat /\ c \notin Producers
          /\ tail' = tail + 1 /\ pc' = [pc EXCEPT ![c] = "read"]
          /\ taken' = [taken EXCEPT ![value[Slot(tail)]] = @ + 1]
          /\ UNCHANGED <<head, value, at, pushed>>
      BY <1>5, Sizes, Zenon
         DEF PopExchange, Goto, slots, IndInv, TypeInv, Threads
    <2>2. \A q \in Producers : pc'[q] = "write" <=> pc[q] = "write"
      BY <2>1, Zenon DEF IndInv, TypeInv, Threads
    <2>3. RingKeeps
      BY <2>1, <2>2, RingQuiet, Zenon DEF RingKeeps
    <2>4. tail < head /\ sequence[Slot(tail)] = tail + 1
      BY <1>5, RingClaimsTail, Zenon
    <2>5. \A q \in Producers : ~(pc[q] = "write" /\ at[q] = tail)
      <3>1. \A q \in Producers : pc[q] = "write" => sequence[Slot(at[q])] = at[q]
        BY Zenon DEF IndInv, ClaimInv, Claims
      <3> QED
        BY <2>1, <2>4, <3>1, SMTT(30)
    <2>6. ValueAt(tail) = value[Slot(tail)]
      BY <2>5, Zenon DEF ValueAt
    <2> QED
      BY <2>1, <2>3, <2>4, <2>6, Zenon DEF RingTakes
  <1>6. ASSUME NEW c \in Consumers, PopRead(c)
        PROVE  RingKeeps /\ UNCHANGED <<head, tail, taken>>
    <2>1. /\ pc[c] = "read" /\ pc' = [pc EXCEPT ![c] = "publish"] /\ c \notin Producers
          /\ value' = [value EXCEPT ![Slot(at[c])] = None]
          /\ UNCHANGED <<head, tail, at, pushed, taken>>
      BY <1>6, Sizes, Zenon DEF PopRead, Goto
    <2>2. \A q \in Producers : pc'[q] = "write" <=> pc[q] = "write"
      BY <2>1, Zenon DEF IndInv, TypeInv, Threads
    <2>3. /\ Claims(c) /\ c \in Threads
          /\ tail \in Nat /\ head \in Nat /\ head <= tail + Capacity
          /\ Window(c) \in head..(tail + Capacity - 1)
      BY <2>1, RingApart DEF Claims, Threads, IndInv, PositionInv
    <2>4. ASSUME NEW j \in tail..(head - 1)
          PROVE  ValueAt(j)' = ValueAt(j)
      <3>1. j \in tail..(tail + Capacity - 1) /\ j \in Nat /\ j # Window(c)
        BY <2>3, Sizes
      <3>2. Slot(j) # Slot(at[c]) /\ Slot(j) \in Slots
        BY <2>3, <3>1, RingApart, RingSlot, Zenon
      <3>3. value'[Slot(j)] = value[Slot(j)]
        BY <2>1, <3>2, Zenon DEF IndInv, TypeInv
      <3> QED
        BY <2>1, <2>2, <3>3, RingQuiet, Zenon
    <2> QED
      BY <2>1, <2>4, Zenon DEF RingKeeps
  <1>7. ASSUME NEW c \in Consumers, PopPublish(c)
        PROVE  RingKeeps /\ UNCHANGED <<head, tail, taken>>
    <2>1. /\ pc[c] = "publish" /\ pc' = [pc EXCEPT ![c] = "idle"] /\ c \notin Producers
          /\ UNCHANGED <<head, tail, value, at, pushed, taken>>
      BY <1>7, Sizes, Zenon DEF PopPublish, Goto
    <2>2. \A q \in Producers : pc'[q] = "write" <=> pc[q] = "write"
      BY <2>1, Zenon DEF IndInv, TypeInv, Threads
    <2> QED
      BY <2>1, <2>2, RingQuiet, Zenon DEF RingKeeps
  <1>8. ASSUME NEW p \in Producers, Push(p)
        PROVE  /\ RingKeeps
               /\ UNCHANGED <<head, tail, taken>> \/ RingPuts(p)
    <2>1. p \in Threads
      BY Zenon DEF Threads
    <2>2. CASE LoadPosition(p) \/ LoadSequence(p)
      BY <1>1, <2>1, <2>2, RingLooking, Zenon
    <2>3. CASE PushExchange(p)
      <3>1. pc'[p] = "write" \/ pc'[p] = "sequence"
        BY <2>1, <2>3, Zenon DEF PushExchange, Goto, IndInv, TypeInv
      <3> QED
        BY <1>1, <1>2, <2>1, <2>3, <3>1, RingLooking, Zenon
    <2> QED
      BY <1>3, <1>4, <1>8, <2>2, <2>3, Zenon DEF Push
  <1>9. ASSUME NEW c \in Consumers, Pop(c)
        PROVE  /\ RingKeeps
               /\ UNCHANGED <<head, tail, taken>> \/ RingTakes
    <2>1. c \in Threads
      BY Zenon DEF Threads
    <2>2. CASE LoadPosition(c) \/ LoadSequence(c)
      BY <1>1, <2>1, <2>2, RingLooking, Zenon
    <2>3. CASE PopExchange(c)
      <3>1. pc'[c] = "read" \/ pc'[c] = "sequence"
        BY <2>1, <2>3, Zenon DEF PopExchange, Goto, IndInv, TypeInv
      <3> QED
        BY <1>1, <1>5, <2>1, <2>3, <3>1, RingLooking, Zenon
    <2> QED
      BY <1>6, <1>7, <1>9, <2>2, <2>3, Zenon DEF Pop
  <1> QED
    BY <1>8, <1>9, Zenon DEF Next

(* The ring implements the queue: a claim of head_ puts a value, a claim of *)
(* tail_ takes one, and no other step changes the queue.                    *)
LEMMA RingFifoStep ==
    ASSUME RingAssumption, IndInv, IndInv', [Next]_(vars)
    PROVE  [Queue!Next]_<<content, taken>>
  <1>1. CASE UNCHANGED vars
    BY <1>1, Zenon DEF vars, slots, content, ValueAt
  <1>2. CASE Next
    <2>1. PICK before, after, n, m, first, second :
              /\ before = content /\ after = content'
              /\ n = head - tail /\ first = tail
              /\ m = head' - tail' /\ second = tail'
      BY Zenon
    <2>2. /\ n \in Nat /\ first \in Nat /\ head = first + n /\ tail = first
      BY <2>1 DEF IndInv, TypeInv, PositionInv
    <2>3. \A i \in 1..n : /\ before[i] = ValueAt(first + i - 1)
                          /\ first + i - 1 \in tail..(head - 1)
      BY <2>1, <2>2 DEF content
    <2>4. before \in [1..n -> Values]
      <3>1. \A i \in 1..n : before[i] \in Values
        BY <2>3, RingHolds, Zenon
      <3> QED
        BY <2>1, <3>1, Zenon DEF content
    <2>5. after = [i \in 1..m |-> ValueAt(second + i - 1)']
      BY <2>1, Zenon DEF content, ValueAt
    <2>6. RingKeeps
      BY <1>2, RingMoves, Zenon
    <2>7. CASE UNCHANGED <<head, tail, taken>>
      <3>1. m = n /\ second = first
        BY <2>1, <2>7, Zenon
      <3>2. \A i \in 1..n : after[i] = before[i]
        BY <2>3, <2>5, <2>6, <3>1, Zenon DEF RingKeeps
      <3>3. after = before
        BY <2>4, <2>5, <3>1, <3>2, Zenon
      <3> QED
        BY <2>1, <2>7, <3>3, Zenon
    <2>8. ASSUME NEW p \in Producers, RingPuts(p)
          PROVE  Queue!Put
      <3> DEFINE v == Work[p][pushed[p] + 1]
      <3>1. m = n + 1 /\ second = first /\ taken' = taken
        BY <2>1, <2>2, <2>8 DEF RingPuts
      <3>2. \A i \in 1..n : after[i] = before[i]
        BY <2>2, <2>3, <2>5, <2>6, <3>1 DEF RingKeeps
      <3>3. after[n + 1] = v
        BY <2>2, <2>5, <2>8, <3>1 DEF RingPuts
      <3>4. v \in Values /\ taken[v] = 0
        BY <2>8, RingFresh, RingNew, Zenon DEF RingPuts, IndInv
      <3>5. \A i \in 1..n : before[i] # v
        BY <2>3, <2>8, RingNew, Zenon DEF RingPuts
      <3> HIDE DEF v
      <3>6. after \in [1..(n + 1) -> Values]
        <4>1. \A i \in 1..(n + 1) : after[i] \in Values
          BY <2>2, <2>4, <3>2, <3>3, <3>4
        <4> QED
          BY <2>5, <3>1, <4>1, Zenon
      <3>7. Len(after) = n + 1 /\ SubSeq(after, 1, Len(after) - 1) = before
        BY <2>2, <2>4, <3>2, <3>6, PutLast
      <3>8. ASSUME NEW i \in (Len(after) - 1 + 1)..Len(after)
            PROVE  /\ after[i] \in Values /\ taken[after[i]] = 0
                   /\ \A j \in 1..(i - 1) : after[j] # after[i]
        <4>1. i = n + 1
          BY <2>2, <3>7
        <4> QED
          BY <2>2, <3>2, <3>3, <3>4, <3>5, <4>1
      <3>9. 1 \in 1..Len(after)
        BY <2>2, <3>7
      <3> QED
        BY <2>1, <3>1, <3>7, <3>8, <3>9, Zenon DEF Queue!Put
    <2>9. ASSUME RingTakes
          PROVE  Queue!Take
      <3>1. m = n - 1 /\ second = first + 1 /\ n > 0
        BY <2>1, <2>2, <2>9 DEF RingTakes
      <3>2. ASSUME NEW i \in 1..(n - 1)
            PROVE  after[i] = before[i + 1]
        <4>1. /\ i + 1 \in 1..n /\ second + i - 1 = first + (i + 1) - 1 /\ i \in 1..m
              /\ first + (i + 1) - 1 \in Nat
          BY <2>2, <3>1
        <4>2. after[i] = ValueAt(second + i - 1)'
          BY <2>5, <4>1, Zenon
        <4>3. before[i + 1] = ValueAt(second + i - 1) /\ second + i - 1 \in tail..(head - 1)
          BY <2>3, <4>1, Zenon
        <4> QED
          BY <2>6, <4>2, <4>3, Zenon DEF RingKeeps
      <3>3. after \in [1..(n - 1) -> Values]
        <4>1. \A i \in 1..(n - 1) : i + 1 \in 1..n
          BY <2>2
        <4>2. \A i \in 1..(n - 1) : after[i] \in Values
          BY <2>4, <3>2, <4>1, Zenon
        <4> QED
          BY <2>5, <3>1, <4>2, Zenon
      <3>4. before # <<>> /\ after = Tail(before) /\ Head(before) = before[1]
        BY <2>2, <2>4, <3>1, <3>2, <3>3, TakeFirst
      <3>5. before[1] = ValueAt(tail)
        BY <2>2, <2>3, <3>1
      <3>6. taken' = [taken EXCEPT ![Head(before)] = @ + 1]
        BY <2>9, <3>4, <3>5, Zenon DEF RingTakes
      <3> QED
        BY <2>1, <3>4, <3>6, Zenon DEF Queue!Take
    <2> QED
      BY <1>2, <2>7, <2>8, <2>9, RingMoves, Zenon DEF Queue!Next
  <1> QED
    BY <1>1, <1>2, Zenon

=============================================================================
