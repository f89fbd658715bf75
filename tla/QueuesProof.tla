---------------------------- MODULE QueuesProof ----------------------------
(***************************************************************************)
(* Theorems about the lock-free queues, for every number of threads, every *)
(* capacity and any number of values: the inbox, the deque's memory, and,  *)
(* with what RingProof shows of the ring, the queues together.             *)
(***************************************************************************)
EXTENDS Queues, Integers, TLAPS

-----------------------------------------------------------------------------
(* A position is mapped to its slot by the remainder modulo the capacity.  *)

(* Quotient and remainder. *)
LEMMA DivMod ==
    ASSUME NEW N \in Nat, N > 0, NEW j \in Nat
    PROVE  j = N * (j \div N) + (j % N) /\ (j \div N) \in Nat /\ (j % N) \in 0..(N - 1)
  OBVIOUS

(* Multiples of N that are less than N apart are equal. *)
LEMMA CloseMultiples ==
    ASSUME NEW N \in Nat, N > 0, NEW q \in Int, NEW r \in Int,
           N * r - N * q < N, N * q - N * r < N
    PROVE  r = q
  OBVIOUS

(* Two positions less than a round apart have different slots. *)
LEMMA DifferentSlots ==
    ASSUME NEW N \in Nat, N > 0, NEW j \in Nat, NEW k \in Nat,
           (j % N) = (k % N), j - k < N, k - j < N
    PROVE  j = k
  <1>1. N * (j \div N) - N * (k \div N) = j - k
    BY DivMod
  <1>2. (j \div N) \in Int /\ (k \div N) \in Int
    BY DivMod
  <1>3. (j \div N) = (k \div N)
    BY <1>1, <1>2, CloseMultiples
  <1> QED
    BY <1>1, <1>3

(* A position has the same slot in the next round. *)
LEMMA NextRound ==
    ASSUME NEW N \in Nat, N > 0, NEW j \in Nat
    PROVE  ((j + N) % N) = (j % N)
  <1> DEFINE a == j \div N
             b == (j + N) \div N
             r == j % N
             s == (j + N) % N
  <1>1. j = N * a + r /\ a \in Int /\ r \in 0..(N - 1)
    BY DivMod
  <1>2. j + N = N * b + s /\ b \in Int /\ s \in 0..(N - 1)
    BY DivMod
  <1> HIDE DEF a, b, r, s
  <1>3. a + 1 \in Int /\ N * (a + 1) = N * a + N
    BY <1>1
  <1>4. N * (a + 1) - N * b < N /\ N * b - N * (a + 1) < N /\ N * b \in Int /\ N * a \in Int
    BY <1>1, <1>2, <1>3
  <1>5. a + 1 = b
    BY <1>2, <1>3, <1>4, CloseMultiples, Zenon
  <1>6. s = r
    BY <1>1, <1>2, <1>3, <1>5
  <1> QED
    BY <1>6, Zenon DEF r, s

-----------------------------------------------------------------------------
(* Sequences, as functions on an initial segment of the naturals.          *)

LEMMA FunctionIsSeq ==
    ASSUME NEW S, NEW n \in Nat, NEW f \in [1..n -> S]
    PROVE  f \in Seq(S) /\ Len(f) = n
  OBVIOUS

(* One value was put at the end. *)
LEMMA PutLast ==
    ASSUME NEW S, NEW n \in Nat, NEW f \in [1..n -> S], NEW g \in [1..(n + 1) -> S],
           \A i \in 1..n : g[i] = f[i]
    PROVE  Len(g) = n + 1 /\ SubSeq(g, 1, Len(g) - 1) = f
  <1>1. f \in Seq(S) /\ Len(f) = n
    BY FunctionIsSeq, Zenon
  <1>2. Len(g) = n + 1 /\ g \in Seq(S)
    BY FunctionIsSeq
  <1>3. /\ SubSeq(g, 1, n) \in Seq(S)
        /\ Len(SubSeq(g, 1, n)) = n
        /\ \A i \in 1..n : SubSeq(g, 1, n)[i] = g[i]
    BY <1>2
  <1>4. SubSeq(g, 1, n) = f
    BY <1>1, <1>3
  <1> QED
    BY <1>2, <1>4

(* The first value was taken. *)
LEMMA TakeFirst ==
    ASSUME NEW S, NEW n \in Nat, n > 0, NEW f \in [1..n -> S], NEW g \in [1..(n - 1) -> S],
           \A i \in 1..(n - 1) : g[i] = f[i + 1]
    PROVE  f # <<>> /\ g = Tail(f) /\ Head(f) = f[1]
  <1>1. f \in Seq(S) /\ Len(f) = n
    BY FunctionIsSeq, Zenon
  <1>2. g \in Seq(S) /\ Len(g) = n - 1
    BY FunctionIsSeq
  <1>3. f # <<>>
    BY <1>1
  <1>4. /\ Head(f) = f[1] /\ Tail(f) \in Seq(S) /\ Len(Tail(f)) = n - 1
        /\ \A i \in 1..(n - 1) : Tail(f)[i] = f[i + 1]
    BY <1>1, <1>3
  <1>5. g = Tail(f)
    BY <1>2, <1>4
  <1> QED
    BY <1>3, <1>4, <1>5, Zenon

-----------------------------------------------------------------------------
LEMMA Sizes == SlotCount \in Nat /\ SlotCount >= 2 /\ PushesEach \in Nat
  BY QueuesAssumption

-----------------------------------------------------------------------------
(* The inbox.                                                              *)

LEMMA InboxSlot ==
    /\ \A j \in Nat : Inbox!Slot(j) \in Inbox!Slots /\ Inbox!Slot(j + SlotCount) = Inbox!Slot(j)
    /\ \A j, k \in Nat : Inbox!Slot(j) = Inbox!Slot(k) /\ j - k < SlotCount /\ k - j < SlotCount
                            => j = k
  <1>1. SlotCount > 0
    BY Sizes
  <1>2. ASSUME NEW j \in Nat
        PROVE  Inbox!Slot(j) \in Inbox!Slots /\ Inbox!Slot(j + SlotCount) = Inbox!Slot(j)
    BY <1>1, Sizes, DivMod, NextRound, Zenon DEF Inbox!Slot, Inbox!Slots
  <1>3. ASSUME NEW j \in Nat, NEW k \in Nat, Inbox!Slot(j) = Inbox!Slot(k),
               j - k < SlotCount, k - j < SlotCount
        PROVE  j = k
    BY <1>1, <1>3, Sizes, DifferentSlots, Zenon DEF Inbox!Slot
  <1> QED
    BY <1>2, <1>3, Zenon

(* The window of the inbox, and its slots. *)
LEMMA InboxWindow ==
    ASSUME Inbox!IndInv
    PROVE  /\ i_head \in Nat /\ i_tail \in Nat /\ Inbox!first \in Nat
           /\ i_head <= Inbox!first /\ Inbox!first <= i_head + 1
           /\ Inbox!first <= i_tail /\ i_tail <= Inbox!first + SlotCount
           /\ \A j \in Inbox!first..(Inbox!first + SlotCount - 1) :
                /\ j \in Nat /\ Inbox!Slot(j) \in Inbox!Slots
                /\ \A k \in Inbox!first..(Inbox!first + SlotCount - 1) :
                        Inbox!Slot(j) = Inbox!Slot(k) => j = k
  <1>1. /\ i_head \in Nat /\ i_tail \in Nat /\ Inbox!first \in Nat
        /\ i_head <= Inbox!first /\ Inbox!first <= i_head + 1
        /\ Inbox!first <= i_tail /\ i_tail <= Inbox!first + SlotCount
    BY DEF Inbox!IndInv, Inbox!TypeInv, Inbox!PositionInv, Inbox!first
  <1>2. ASSUME NEW j \in Inbox!first..(Inbox!first + SlotCount - 1)
        PROVE  j \in Nat /\ Inbox!Slot(j) \in Inbox!Slots
    BY <1>1, InboxSlot, Sizes
  <1>3. ASSUME NEW j \in Inbox!first..(Inbox!first + SlotCount - 1),
               NEW k \in Inbox!first..(Inbox!first + SlotCount - 1),
               Inbox!Slot(j) = Inbox!Slot(k)
        PROVE  j = k
    <2>1. j \in Nat /\ k \in Nat /\ j - k < SlotCount /\ k - j < SlotCount
      BY <1>1, Sizes
    <2> QED
      BY <1>3, <2>1, InboxSlot, Zenon
  <1> QED
    BY <1>1, <1>2, <1>3, Zenon

(* A producer looks for a position. *)
Seeks(p, place, position) ==
    /\ p \in Submitters /\ i_pc[p] \in {"idle", "sequence", "exchange"}
    /\ place \in {"idle", "sequence", "exchange"} /\ position \in Nat
    /\ position <= i_tail
    /\ i_pc' = [i_pc EXCEPT ![p] = place]
    /\ i_at' = [i_at EXCEPT ![p] = position]
    /\ UNCHANGED <<i_head, i_tail, i_sequence, i_data, i_item, i_taken, i_consumer>>
    /\ place = "exchange" => i_sequence[Inbox!Slot(position)] = position

LEMMA InboxSeeks ==
    ASSUME Inbox!IndInv, NEW p, NEW place, NEW position, Seeks(p, place, position)
    PROVE  Inbox!IndInv'
  <1> USE DEF Inbox!IndInv
  <1>1. \A q \in Submitters : /\ Inbox!Claims(q)' <=> Inbox!Claims(q)
                              /\ Inbox!Claims(q) => i_at'[q] = i_at[q] /\ i_pc'[q] = i_pc[q]
                              /\ i_pc'[q] = "done" <=> i_pc[q] = "done"
    BY Zenon DEF Seeks, Inbox!Claims, Inbox!TypeInv
  <1>2. Inbox!TypeInv'
    BY Zenon DEF Seeks, Inbox!TypeInv
  <1>3. Inbox!PositionInv'
    BY <1>1 DEF Seeks, Inbox!PositionInv, Inbox!first
  <1>4. Inbox!ClaimInv'
    BY <1>1 DEF Seeks, Inbox!ClaimInv, Inbox!first
  <1>5. Inbox!ExchangeInv'
    BY Zenon DEF Seeks, Inbox!ExchangeInv, Inbox!TypeInv
  <1>6. Inbox!ConsumerInv'
    BY <1>1, Zenon DEF Seeks, Inbox!ConsumerInv, Inbox!TypeInv
  <1> QED
    BY <1>2, <1>3, <1>4, <1>5, <1>6, ZenonT(30)

LEMMA InboxSeeking ==
    ASSUME Inbox!IndInv, NEW p \in Submitters,
           \/ Inbox!LoadTail(p) \/ Inbox!LoadSequence(p)
           \/ Inbox!Exchange(p) /\ i_pc'[p] = "sequence"
    PROVE  \E place, position : Seeks(p, place, position)
  <1> USE DEF Inbox!IndInv, Inbox!TypeInv
  <1>1. CASE Inbox!LoadTail(p)
    <2>1. Seeks(p, "sequence", i_tail)
      BY <1>1 DEF Inbox!LoadTail, Inbox!Goto, Seeks, Inbox!slots
    <2> QED
      BY <2>1, Zenon
  <1>2. CASE Inbox!LoadSequence(p)
    <2> DEFINE place == IF i_sequence[Inbox!Slot(i_at[p])] = i_at[p] THEN "exchange" ELSE "idle"
    <2>1. i_at[p] \in Nat /\ i_at[p] <= i_tail
      BY Zenon DEF Inbox!ExchangeInv
    <2>2. i_at' = [i_at EXCEPT ![p] = i_at[p]]
      BY <1>2, Zenon DEF Inbox!LoadSequence
    <2>3. /\ i_pc[p] = "sequence" /\ i_pc' = [i_pc EXCEPT ![p] = place]
          /\ UNCHANGED <<i_head, i_tail, i_sequence, i_data, i_item, i_taken, i_consumer>>
      BY <1>2, Zenon DEF Inbox!LoadSequence, Inbox!Goto, Inbox!slots
    <2>4. Seeks(p, place, i_at[p])
      BY <2>1, <2>2, <2>3, Zenon DEF Seeks
    <2> QED
      BY <2>4, Zenon
  <1>3. CASE Inbox!Exchange(p) /\ i_pc'[p] = "sequence"
    <2>1. /\ i_pc[p] = "exchange" /\ i_pc' = [i_pc EXCEPT ![p] = "sequence"]
          /\ i_at' = [i_at EXCEPT ![p] = i_tail]
          /\ UNCHANGED <<i_head, i_tail, i_sequence, i_data, i_item, i_taken, i_consumer>>
      BY <1>3, Zenon DEF Inbox!Exchange, Inbox!Goto, Inbox!slots
    <2>2. Seeks(p, "sequence", i_tail)
      BY <2>1 DEF Seeks
    <2> QED
      BY <2>2
  <1> QED
    BY <1>1, <1>2, <1>3, Zenon

(* A producer claims the position at tail_, whose slot is free. *)
LEMMA InboxClaims ==
    ASSUME Inbox!IndInv, NEW p \in Submitters, Inbox!Exchange(p), i_pc'[p] = "write"
    PROVE  Inbox!IndInv'
  <1> USE DEF Inbox!IndInv
  <1>1. /\ i_at[p] = i_tail /\ i_pc[p] = "exchange"
        /\ i_tail' = i_tail + 1 /\ i_pc' = [i_pc EXCEPT ![p] = "write"]
        /\ UNCHANGED <<i_head, i_sequence, i_data, i_at, i_item, i_taken, i_consumer>>
    BY Zenon DEF Inbox!Exchange, Inbox!Goto, Inbox!slots, Inbox!TypeInv
  <1>2. i_sequence[Inbox!Slot(i_tail)] = i_tail
    BY <1>1, Zenon DEF Inbox!ExchangeInv
  <1>3. i_tail < Inbox!first + SlotCount
    <2>1. ASSUME i_tail = Inbox!first + SlotCount
          PROVE  FALSE
      <3>1. Inbox!Slot(i_tail) = Inbox!Slot(Inbox!first)
        BY <2>1, InboxWindow, InboxSlot, ZenonT(30)
      <3>2. Inbox!first \in Inbox!first..(i_tail - 1)
        BY <2>1, InboxWindow, Sizes
      <3>3. \/ i_sequence[Inbox!Slot(Inbox!first)] = Inbox!first
            \/ i_sequence[Inbox!Slot(Inbox!first)] = Inbox!first + 1
        BY <3>2, Zenon DEF Inbox!PositionInv
      <3> QED
        BY <1>2, <2>1, <3>1, <3>3, InboxWindow, Sizes
    <2> QED
      BY <2>1, InboxWindow, Sizes
  <1>4. \A q \in Submitters : /\ Inbox!Claims(q)' <=> (Inbox!Claims(q) \/ q = p)
                              /\ q # p => i_pc'[q] = i_pc[q]
                              /\ i_pc'[q] = "done" <=> i_pc[q] = "done"
    BY <1>1, Zenon DEF Inbox!Claims, Inbox!TypeInv
  <1>5. /\ Inbox!first' = Inbox!first /\ i_tail' - 1 = i_tail
        /\ i_pc'[p] = "write" /\ Inbox!Claims(p)' /\ ~Inbox!Claims(p)
    BY <1>1, InboxWindow DEF Inbox!first, Inbox!Claims, Inbox!TypeInv
  <1>6. Inbox!TypeInv'
    BY <1>1 DEF Inbox!TypeInv
  <1>7. Inbox!PositionInv'
    <2>1. ASSUME NEW j \in Inbox!first..i_tail
          PROVE  \/ /\ i_sequence[Inbox!Slot(j)] = j
                    /\ \E q \in Submitters : Inbox!Claims(q)' /\ i_at[q] = j
                 \/ /\ i_sequence[Inbox!Slot(j)] = j + 1
                    /\ i_data[Inbox!Slot(j)] \in Submitters /\ i_pc'[i_data[Inbox!Slot(j)]] = "done"
      <3>1. CASE j = i_tail
        BY <1>1, <1>2, <1>5, <3>1, Zenon
      <3>2. CASE j # i_tail
        <4> j \in Inbox!first..(i_tail - 1)
          BY <3>2, InboxWindow
        <4> QED
          BY <1>4, Zenon DEF Inbox!PositionInv
      <3> QED
        BY <3>1, <3>2, Zenon
    <2>2. \A j \in (i_tail + 1)..(Inbox!first + SlotCount - 1) : i_sequence[Inbox!Slot(j)] = j
      BY InboxWindow, Sizes DEF Inbox!PositionInv
    <2>3. Inbox!first <= i_tail + 1 /\ i_tail + 1 <= Inbox!first + SlotCount
      BY <1>3, InboxWindow, Sizes
    <2> QED
      BY <1>1, <1>5, <2>1, <2>2, <2>3, ZenonT(30) DEF Inbox!PositionInv
  <1>8. Inbox!ClaimInv'
    <2>1. ASSUME NEW q \in Submitters, Inbox!Claims(q)'
          PROVE  /\ i_at[q] \in Inbox!first..i_tail
                 /\ i_sequence[Inbox!Slot(i_at[q])] = i_at[q]
                 /\ i_pc'[q] = "publish" => i_data[Inbox!Slot(i_at[q])] = q
      <3>1. CASE q = p
        BY <1>1, <1>2, <1>5, <3>1, InboxWindow
      <3>2. CASE q # p
        <4>1. Inbox!Claims(q) /\ i_pc'[q] = i_pc[q]
          BY <1>4, <2>1, <3>2, Zenon
        <4>2. i_at[q] \in Inbox!first..(i_tail - 1)
          BY <4>1, Zenon DEF Inbox!ClaimInv
        <4> QED
          BY <4>1, <4>2, InboxWindow DEF Inbox!ClaimInv
      <3> QED
        BY <3>1, <3>2, Zenon
    <2>2. \A q \in Submitters : Inbox!Claims(q) => i_at[q] # i_at[p]
      BY <1>1, InboxWindow DEF Inbox!ClaimInv
    <2>3. \A q, u \in Submitters : q # u /\ Inbox!Claims(q)' /\ Inbox!Claims(u)' => i_at[q] # i_at[u]
      BY <1>4, <2>2, Zenon DEF Inbox!ClaimInv
    <2> QED
      BY <1>1, <1>5, <2>1, <2>3, Zenon DEF Inbox!ClaimInv
  <1>9. Inbox!ExchangeInv'
    BY <1>1, InboxWindow DEF Inbox!ExchangeInv, Inbox!TypeInv
  <1>10. Inbox!ConsumerInv'
    <2>1. i_head < i_tail => i_head < i_tail + 1
      BY InboxWindow
    <2> QED
      BY <1>1, <1>4, <2>1, Zenon DEF Inbox!ConsumerInv, Inbox!TypeInv
  <1> QED
    BY <1>6, <1>7, <1>8, <1>9, <1>10, Zenon

(* Two producers never claim the same slot. *)
LEMMA InboxExclusive ==
    ASSUME Inbox!IndInv, NEW p \in Submitters, Inbox!Claims(p)
    PROVE  /\ i_at[p] \in Inbox!first..(i_tail - 1) /\ i_sequence[Inbox!Slot(i_at[p])] = i_at[p]
           /\ Inbox!Slot(i_at[p]) \in Inbox!Slots
           /\ \A j \in Inbox!first..(Inbox!first + SlotCount - 1) :
                Inbox!Slot(j) = Inbox!Slot(i_at[p]) => j = i_at[p]
           /\ \A q \in Submitters : q # p /\ Inbox!Claims(q)
                => Inbox!Slot(i_at[q]) # Inbox!Slot(i_at[p]) /\ Inbox!Slot(i_at[q]) \in Inbox!Slots
  <1>1. i_at[p] \in Inbox!first..(i_tail - 1) /\ i_sequence[Inbox!Slot(i_at[p])] = i_at[p]
    BY Zenon DEF Inbox!IndInv, Inbox!ClaimInv
  <1>2. \A q \in Submitters : Inbox!Claims(q)
                => i_at[q] \in Inbox!first..(Inbox!first + SlotCount - 1)
    <2>1. \A q \in Submitters : Inbox!Claims(q) => i_at[q] \in Inbox!first..(i_tail - 1)
      BY Zenon DEF Inbox!IndInv, Inbox!ClaimInv
    <2> QED
      BY <2>1, InboxWindow, Sizes
  <1>3. \A q \in Submitters : q # p /\ Inbox!Claims(q) => i_at[q] # i_at[p]
    BY Zenon DEF Inbox!IndInv, Inbox!ClaimInv
  <1> QED
    BY <1>1, <1>2, <1>3, InboxWindow, Zenon

(* The producer stores its item in the slot it claimed. *)
LEMMA InboxWrites ==
    ASSUME Inbox!IndInv, NEW p \in Submitters, Inbox!Write(p)
    PROVE  Inbox!IndInv'
  <1> DEFINE s == Inbox!Slot(i_at[p])
  <1>1. /\ i_pc[p] = "write" /\ i_pc' = [i_pc EXCEPT ![p] = "publish"]
        /\ i_data' = [i_data EXCEPT ![s] = p]
        /\ UNCHANGED <<i_head, i_tail, i_sequence, i_at, i_item, i_taken, i_consumer>>
    BY Zenon DEF Inbox!Write, Inbox!Goto
  <1>2. Inbox!Claims(p)
    BY <1>1, Zenon DEF Inbox!Claims
  <1>3. s \in Inbox!Slots /\ i_sequence[s] = i_at[p]
    BY <1>2, InboxExclusive, Zenon
  <1>4. /\ i_data \in [Inbox!Slots -> Submitters \cup {Nothing}]
        /\ i_data'[s] = p /\ \A x \in Inbox!Slots : x # s => i_data'[x] = i_data[x]
    BY <1>1, <1>3, Zenon DEF Inbox!IndInv, Inbox!TypeInv
  <1> HIDE DEF s
  <1>5. \A q \in Submitters : /\ Inbox!Claims(q)' <=> Inbox!Claims(q)
                              /\ q # p => i_pc'[q] = i_pc[q]
                              /\ i_pc'[q] = "done" <=> i_pc[q] = "done"
    BY <1>1, Zenon DEF Inbox!Claims, Inbox!IndInv, Inbox!TypeInv
  <1>6. Inbox!first' = Inbox!first
    BY <1>1, Zenon DEF Inbox!first
  <1>7. Inbox!TypeInv'
    BY <1>1, <1>4, Zenon DEF Inbox!IndInv, Inbox!TypeInv
  <1>8. Inbox!PositionInv'
    <2>1. ASSUME NEW j \in Inbox!first..(i_tail - 1)
          PROVE  \/ /\ i_sequence[Inbox!Slot(j)] = j
                    /\ \E q \in Submitters : Inbox!Claims(q)' /\ i_at[q] = j
                 \/ /\ i_sequence[Inbox!Slot(j)] = j + 1
                    /\ i_data'[Inbox!Slot(j)] \in Submitters
                    /\ i_pc'[i_data'[Inbox!Slot(j)]] = "done"
      <3>1. CASE j = i_at[p]
        BY <1>2, <1>3, <1>5, <3>1, ZenonT(30) DEF s
      <3>2. CASE j # i_at[p]
        <4>1. j \in Inbox!first..(Inbox!first + SlotCount - 1)
          BY InboxWindow, Sizes
        <4>2. Inbox!Slot(j) # s /\ Inbox!Slot(j) \in Inbox!Slots
          BY <1>2, <3>2, <4>1, InboxExclusive, InboxWindow, Zenon DEF s
        <4> QED
          BY <1>4, <1>5, <4>2, ZenonT(30) DEF Inbox!IndInv, Inbox!PositionInv
      <3> QED
        BY <3>1, <3>2, Zenon
    <2> QED
      BY <1>1, <1>6, <2>1, ZenonT(30) DEF Inbox!IndInv, Inbox!PositionInv
  <1>9. Inbox!ClaimInv'
    <2>1. ASSUME NEW q \in Submitters, Inbox!Claims(q)'
          PROVE  /\ i_at[q] \in Inbox!first..(i_tail - 1)
                 /\ i_sequence[Inbox!Slot(i_at[q])] = i_at[q]
                 /\ i_pc'[q] = "publish" => i_data'[Inbox!Slot(i_at[q])] = q
      <3>1. CASE q = p
        BY <1>2, <1>3, <1>4, <3>1, InboxExclusive, Zenon DEF s
      <3>2. CASE q # p
        <4>1. Inbox!Claims(q) /\ i_pc'[q] = i_pc[q]
          BY <1>5, <2>1, <3>2, Zenon
        <4>2. Inbox!Slot(i_at[q]) # s /\ Inbox!Slot(i_at[q]) \in Inbox!Slots
          BY <1>2, <3>2, <4>1, InboxExclusive, Zenon DEF s
        <4> QED
          BY <1>4, <4>1, <4>2, Zenon DEF Inbox!IndInv, Inbox!ClaimInv
      <3> QED
        BY <3>1, <3>2, Zenon
    <2> QED
      BY <1>1, <1>5, <1>6, <2>1, ZenonT(30) DEF Inbox!IndInv, Inbox!ClaimInv
  <1>10. Inbox!ExchangeInv'
    BY <1>1, Zenon DEF Inbox!IndInv, Inbox!ExchangeInv, Inbox!TypeInv
  <1>11. Inbox!ConsumerInv'
    BY <1>1, <1>5, Zenon DEF Inbox!IndInv, Inbox!ConsumerInv, Inbox!TypeInv
  <1> QED
    BY <1>7, <1>8, <1>9, <1>10, <1>11, Zenon DEF Inbox!IndInv

(* The producer publishes the slot. *)
LEMMA InboxPublishes ==
    ASSUME Inbox!IndInv, NEW p \in Submitters, Inbox!Publish(p)
    PROVE  Inbox!IndInv'
  <1> DEFINE s == Inbox!Slot(i_at[p])
  <1>1. /\ i_pc[p] = "publish" /\ i_pc' = [i_pc EXCEPT ![p] = "done"]
        /\ i_sequence' = [i_sequence EXCEPT ![s] = i_at[p] + 1]
        /\ UNCHANGED <<i_head, i_tail, i_data, i_at, i_item, i_taken, i_consumer>>
    BY Zenon DEF Inbox!Publish, Inbox!Goto
  <1>2. Inbox!Claims(p)
    BY <1>1, Zenon DEF Inbox!Claims
  <1>3. /\ s \in Inbox!Slots /\ i_sequence[s] = i_at[p] /\ i_data[s] = p
        /\ i_at[p] \in Inbox!first..(i_tail - 1)
    BY <1>1, <1>2, InboxExclusive, Zenon DEF Inbox!IndInv, Inbox!ClaimInv
  <1>4. /\ i_sequence \in [Inbox!Slots -> Nat]
        /\ i_sequence'[s] = i_at[p] + 1
        /\ \A x \in Inbox!Slots : x # s => i_sequence'[x] = i_sequence[x]
    BY <1>1, <1>3, Zenon DEF Inbox!IndInv, Inbox!TypeInv
  <1> HIDE DEF s
  <1>5. \A q \in Submitters : /\ Inbox!Claims(q)' <=> (Inbox!Claims(q) /\ q # p)
                              /\ q # p => i_pc'[q] = i_pc[q]
                              /\ i_pc'[q] = "done" <=> (i_pc[q] = "done" \/ q = p)
    BY <1>1, Zenon DEF Inbox!Claims, Inbox!IndInv, Inbox!TypeInv
  <1>6. Inbox!first' = Inbox!first
    BY <1>1, Zenon DEF Inbox!first
  <1>7. Inbox!TypeInv'
    <2>1. i_at[p] + 1 \in Nat
      BY <1>3, InboxWindow
    <2> QED
      BY <1>1, <2>1, Zenon DEF Inbox!IndInv, Inbox!TypeInv
  <1>8. Inbox!PositionInv'
    <2>1. ASSUME NEW j \in Inbox!first..(i_tail - 1)
          PROVE  \/ /\ i_sequence'[Inbox!Slot(j)] = j
                    /\ \E q \in Submitters : Inbox!Claims(q)' /\ i_at[q] = j
                 \/ /\ i_sequence'[Inbox!Slot(j)] = j + 1
                    /\ i_data[Inbox!Slot(j)] \in Submitters
                    /\ i_pc'[i_data[Inbox!Slot(j)]] = "done"
      <3>1. CASE j = i_at[p]
        BY <1>3, <1>4, <1>5, <3>1, Zenon DEF s
      <3>2. CASE j # i_at[p]
        <4>1. j \in Inbox!first..(Inbox!first + SlotCount - 1)
          BY InboxWindow, Sizes
        <4>2. Inbox!Slot(j) # s /\ Inbox!Slot(j) \in Inbox!Slots
          BY <1>2, <3>2, <4>1, InboxExclusive, InboxWindow DEF s
        <4>3. i_sequence'[Inbox!Slot(j)] = i_sequence[Inbox!Slot(j)]
          BY <1>4, <4>2, Zenon
        <4> QED
          BY <1>5, <3>2, <4>3, Zenon DEF Inbox!IndInv, Inbox!PositionInv
      <3> QED
        BY <3>1, <3>2, Zenon
    <2>2. ASSUME NEW j \in i_tail..(Inbox!first + SlotCount - 1)
          PROVE  i_sequence'[Inbox!Slot(j)] = j
      <3>1. j \in Inbox!first..(Inbox!first + SlotCount - 1) /\ j # i_at[p]
        BY <1>3, InboxWindow, Sizes
      <3>2. Inbox!Slot(j) # s /\ Inbox!Slot(j) \in Inbox!Slots
        BY <1>2, <3>1, InboxExclusive, InboxWindow, Zenon DEF s
      <3> QED
        BY <1>4, <3>2, Zenon DEF Inbox!IndInv, Inbox!PositionInv
    <2> QED
      BY <1>1, <1>6, <2>1, <2>2, ZenonT(30) DEF Inbox!IndInv, Inbox!PositionInv
  <1>9. Inbox!ClaimInv'
    <2>1. ASSUME NEW q \in Submitters, Inbox!Claims(q)'
          PROVE  /\ i_at[q] \in Inbox!first..(i_tail - 1)
                 /\ i_sequence'[Inbox!Slot(i_at[q])] = i_at[q]
                 /\ i_pc'[q] = "publish" => i_data[Inbox!Slot(i_at[q])] = q
      <3>1. q # p /\ Inbox!Claims(q) /\ i_pc'[q] = i_pc[q]
        BY <1>5, <2>1, Zenon
      <3>2. Inbox!Slot(i_at[q]) # s /\ Inbox!Slot(i_at[q]) \in Inbox!Slots
        BY <1>2, <3>1, InboxExclusive, Zenon DEF s
      <3> QED
        BY <1>4, <3>1, <3>2, Zenon DEF Inbox!IndInv, Inbox!ClaimInv
    <2> QED
      BY <1>1, <1>5, <1>6, <2>1, ZenonT(30) DEF Inbox!IndInv, Inbox!ClaimInv
  <1>10. Inbox!ExchangeInv'
    <2>1. i_sequence[Inbox!Slot(i_tail)] = i_tail => i_sequence'[Inbox!Slot(i_tail)] = i_tail
      BY <1>3, <1>4, InboxWindow, InboxSlot
    <2> QED
      BY <1>1, <2>1, Zenon DEF Inbox!IndInv, Inbox!ExchangeInv, Inbox!TypeInv
  <1>11. Inbox!ConsumerInv'
    <2>1. ASSUME i_consumer = "release"
          PROVE  i_sequence'[Inbox!Slot(i_head)] = i_head + 1
      <3>1. i_head \in Inbox!first..(Inbox!first + SlotCount - 1)
        BY <2>1, InboxWindow, Sizes DEF Inbox!first
      <3>2. i_sequence[Inbox!Slot(i_head)] = i_head + 1
        BY <2>1, Zenon DEF Inbox!IndInv, Inbox!ConsumerInv
      <3>3. Inbox!Slot(i_head) # s /\ Inbox!Slot(i_head) \in Inbox!Slots
        BY <1>2, <1>3, <3>1, <3>2, InboxExclusive, InboxWindow DEF s
      <3> QED
        BY <1>4, <3>2, <3>3, Zenon
    <2> QED
      BY <1>1, <1>5, <2>1, Zenon DEF Inbox!IndInv, Inbox!ConsumerInv, Inbox!TypeInv
  <1> QED
    BY <1>7, <1>8, <1>9, <1>10, <1>11 DEF Inbox!IndInv

(* The consumer loads the item at head_, which was published. *)
LEMMA InboxPops ==
    ASSUME Inbox!IndInv, Inbox!Pop
    PROVE  /\ Inbox!IndInv'
           /\ i_head < i_tail /\ i_sequence[Inbox!Slot(i_head)] = i_head + 1
  <1>1. /\ i_consumer = "idle" /\ ~(i_sequence[Inbox!Slot(i_head)] < i_head + 1)
        /\ i_item' = i_data[Inbox!Slot(i_head)] /\ i_consumer' = "release"
        /\ UNCHANGED <<i_head, i_tail, i_sequence, i_data, i_at, i_taken, i_pc>>
    BY Zenon DEF Inbox!Pop, Inbox!empty, Inbox!slots
  <1>2. Inbox!first = i_head /\ Inbox!first' = i_head
    BY <1>1, Zenon DEF Inbox!first
  <1>3. i_head < i_tail
    <2>1. ASSUME i_head = i_tail
          PROVE  FALSE
      <3>1. i_head \in i_tail..(Inbox!first + SlotCount - 1)
        BY <1>2, <2>1, InboxWindow, Sizes
      <3>2. i_sequence[Inbox!Slot(i_head)] = i_head
        BY <3>1, Zenon DEF Inbox!IndInv, Inbox!PositionInv
      <3> QED
        BY <1>1, <3>2, InboxWindow
    <2> QED
      BY <1>2, <2>1, InboxWindow
  <1>4. /\ i_sequence[Inbox!Slot(i_head)] = i_head + 1
        /\ i_data[Inbox!Slot(i_head)] \in Submitters /\ i_pc[i_data[Inbox!Slot(i_head)]] = "done"
    <2>1. i_head \in Inbox!first..(i_tail - 1)
      BY <1>2, <1>3, InboxWindow
    <2>2. i_sequence[Inbox!Slot(i_head)] # i_head
      BY <1>1, InboxWindow
    <2> QED
      BY <2>1, <2>2, Zenon DEF Inbox!IndInv, Inbox!PositionInv
  <1>5. \A q \in Submitters : Inbox!Claims(q)' <=> Inbox!Claims(q)
    BY <1>1, Zenon DEF Inbox!Claims
  <1>6. Inbox!TypeInv'
    BY <1>1, <1>4, Zenon DEF Inbox!IndInv, Inbox!TypeInv
  <1>7. Inbox!PositionInv' /\ Inbox!ClaimInv'
    BY <1>1, <1>2, <1>5, ZenonT(30) DEF Inbox!IndInv, Inbox!PositionInv, Inbox!ClaimInv
  <1>8. Inbox!ExchangeInv'
    BY <1>1, Zenon DEF Inbox!IndInv, Inbox!ExchangeInv
  <1>9. Inbox!ConsumerInv'
    BY <1>1, <1>3, <1>4, QueuesAssumption, Zenon DEF Inbox!IndInv, Inbox!ConsumerInv
  <1> QED
    BY <1>3, <1>4, <1>6, <1>7, <1>8, <1>9, Zenon DEF Inbox!IndInv

(* The consumer gives the slot to the next round before it advances. *)
LEMMA InboxReleases ==
    ASSUME Inbox!IndInv, Inbox!Release
    PROVE  Inbox!IndInv'
  <1> DEFINE s == Inbox!Slot(i_head)
  <1>1. /\ i_consumer = "release" /\ i_consumer' = "advance"
        /\ i_sequence' = [i_sequence EXCEPT ![s] = i_head + SlotCount]
        /\ UNCHANGED <<i_head, i_tail, i_data, i_at, i_item, i_taken, i_pc>>
    BY Zenon DEF Inbox!Release
  <1>2. Inbox!first = i_head /\ Inbox!first' = i_head + 1
    BY <1>1, Zenon DEF Inbox!first
  <1>3. /\ i_head < i_tail /\ i_sequence[s] = i_head + 1
        /\ i_head \in Inbox!first..(Inbox!first + SlotCount - 1) /\ s \in Inbox!Slots
    <2>1. i_head < i_tail /\ i_sequence[s] = i_head + 1
      BY <1>1, Zenon DEF Inbox!IndInv, Inbox!ConsumerInv
    <2>2. i_head \in Inbox!first..(Inbox!first + SlotCount - 1)
      BY <1>2, InboxWindow, Sizes
    <2> QED
      BY <2>1, <2>2, InboxWindow, Zenon
  <1>4. /\ i_sequence \in [Inbox!Slots -> Nat]
        /\ i_sequence'[s] = i_head + SlotCount
        /\ \A x \in Inbox!Slots : x # s => i_sequence'[x] = i_sequence[x]
    BY <1>1, <1>3, Zenon DEF Inbox!IndInv, Inbox!TypeInv
  <1>5. \A j \in (i_head + 1)..(i_head + SlotCount - 1) :
            /\ Inbox!Slot(j) # s /\ Inbox!Slot(j) \in Inbox!Slots
            /\ i_sequence'[Inbox!Slot(j)] = i_sequence[Inbox!Slot(j)]
    <2>1. \A j \in (i_head + 1)..(i_head + SlotCount - 1) :
            j \in Inbox!first..(Inbox!first + SlotCount - 1) /\ j # i_head
      BY <1>2, InboxWindow, Sizes
    <2> QED
      BY <1>3, <1>4, <2>1, InboxWindow, Zenon
  <1> HIDE DEF s
  <1>6. \A q \in Submitters : Inbox!Claims(q)' <=> Inbox!Claims(q)
    BY <1>1, Zenon DEF Inbox!Claims
  <1>7. Inbox!TypeInv'
    <2>1. i_head + SlotCount \in Nat
      BY InboxWindow, Sizes
    <2> QED
      BY <1>1, <2>1, Zenon DEF Inbox!IndInv, Inbox!TypeInv
  <1>8. Inbox!PositionInv'
    <2>1. ASSUME NEW j \in (i_head + 1)..(i_tail - 1)
          PROVE  \/ /\ i_sequence'[Inbox!Slot(j)] = j
                    /\ \E q \in Submitters : Inbox!Claims(q)' /\ i_at[q] = j
                 \/ /\ i_sequence'[Inbox!Slot(j)] = j + 1
                    /\ i_data[Inbox!Slot(j)] \in Submitters
                    /\ i_pc[i_data[Inbox!Slot(j)]] = "done"
      <3>1. j \in (i_head + 1)..(i_head + SlotCount - 1) /\ j \in Inbox!first..(i_tail - 1)
        BY <1>2, InboxWindow, Sizes
      <3> QED
        BY <1>5, <1>6, <3>1, Zenon DEF Inbox!IndInv, Inbox!PositionInv
    <2>2. ASSUME NEW j \in i_tail..(i_head + SlotCount)
          PROVE  i_sequence'[Inbox!Slot(j)] = j
      <3>1. CASE j = i_head + SlotCount
        BY <1>4, <3>1, InboxWindow, InboxSlot, Zenon DEF s
      <3>2. CASE j # i_head + SlotCount
        <4>1. /\ j \in (i_head + 1)..(i_head + SlotCount - 1)
              /\ j \in i_tail..(Inbox!first + SlotCount - 1)
          BY <1>2, <1>3, <3>2, InboxWindow, Sizes
        <4> QED
          BY <1>5, <4>1, Zenon DEF Inbox!IndInv, Inbox!PositionInv
      <3> QED
        BY <3>1, <3>2, Zenon
    <2>3. /\ i_head + 1 <= i_tail /\ i_tail <= i_head + 1 + SlotCount
          /\ i_head + 1 + SlotCount - 1 = i_head + SlotCount
      BY <1>2, <1>3, InboxWindow, Sizes
    <2> QED
      BY <1>1, <1>2, <2>1, <2>2, <2>3, Zenon DEF Inbox!PositionInv
  <1>9. Inbox!ClaimInv'
    <2>1. ASSUME NEW q \in Submitters, Inbox!Claims(q)'
          PROVE  /\ i_at[q] \in (i_head + 1)..(i_tail - 1)
                 /\ i_sequence'[Inbox!Slot(i_at[q])] = i_at[q]
                 /\ i_pc[q] = "publish" => i_data[Inbox!Slot(i_at[q])] = q
      <3>1. Inbox!Claims(q)
        BY <1>6, <2>1, Zenon
      <3>2. i_at[q] \in Inbox!first..(i_tail - 1) /\ i_sequence[Inbox!Slot(i_at[q])] = i_at[q]
        BY <3>1, Zenon DEF Inbox!IndInv, Inbox!ClaimInv
      <3>3. i_at[q] # i_head
        BY <1>3, <3>2, InboxWindow DEF s
      <3>4. /\ i_at[q] \in (i_head + 1)..(i_tail - 1)
            /\ i_at[q] \in (i_head + 1)..(i_head + SlotCount - 1)
        BY <1>2, <3>2, <3>3, InboxWindow, Sizes
      <3> QED
        BY <1>5, <3>1, <3>2, <3>4, Zenon DEF Inbox!IndInv, Inbox!ClaimInv
    <2> QED
      BY <1>1, <1>2, <1>6, <2>1, Zenon DEF Inbox!IndInv, Inbox!ClaimInv
  <1>10. Inbox!ExchangeInv'
    <2>1. ASSUME i_sequence[Inbox!Slot(i_tail)] = i_tail
          PROVE  i_sequence'[Inbox!Slot(i_tail)] = i_tail
      <3>1. CASE Inbox!Slot(i_tail) = s
        <4>1. i_tail = i_head + 1
          BY <1>3, <2>1, <3>1, ZenonT(30)
        <4>2. i_tail \in (i_head + 1)..(i_head + SlotCount - 1)
          BY <4>1, InboxWindow, Sizes
        <4> QED
          BY <1>5, <3>1, <4>2, ZenonT(30)
      <3>2. CASE Inbox!Slot(i_tail) # s
        BY <1>4, <2>1, <3>2, InboxWindow, InboxSlot, Zenon
      <3> QED
        BY <3>1, <3>2, Zenon
    <2> QED
      BY <1>1, <2>1, Zenon DEF Inbox!IndInv, Inbox!ExchangeInv, Inbox!TypeInv
  <1>11. Inbox!ConsumerInv'
    BY <1>1, Zenon DEF Inbox!IndInv, Inbox!ConsumerInv
  <1> QED
    BY <1>7, <1>8, <1>9, <1>10, <1>11, Zenon DEF Inbox!IndInv

(* The consumer advances head_ and returns the item. *)
LEMMA InboxAdvances ==
    ASSUME Inbox!IndInv, Inbox!Advance
    PROVE  Inbox!IndInv'
  <1>1. /\ i_consumer = "advance" /\ i_consumer' = "idle"
        /\ i_head' = i_head + 1 /\ i_item' = Nothing
        /\ i_taken' = [i_taken EXCEPT ![i_item] = i_taken[i_item] + 1]
        /\ UNCHANGED <<i_tail, i_sequence, i_data, i_at, i_pc>>
    BY Zenon DEF Inbox!Advance, Inbox!slots
  <1>2. Inbox!first' = Inbox!first
    BY <1>1, Zenon DEF Inbox!first
  <1>3. i_item \in Submitters /\ i_pc[i_item] = "done"
    BY <1>1, Zenon DEF Inbox!IndInv, Inbox!TypeInv, Inbox!ConsumerInv
  <1>4. \A q \in Submitters : Inbox!Claims(q)' <=> Inbox!Claims(q)
    BY <1>1, Zenon DEF Inbox!Claims
  <1>5. Inbox!TypeInv'
    BY <1>1, <1>3 DEF Inbox!IndInv, Inbox!TypeInv
  <1>6. Inbox!PositionInv' /\ Inbox!ClaimInv'
    BY <1>1, <1>2, <1>4, ZenonT(30) DEF Inbox!IndInv, Inbox!PositionInv, Inbox!ClaimInv
  <1>7. Inbox!ExchangeInv'
    BY <1>1, Zenon DEF Inbox!IndInv, Inbox!ExchangeInv
  <1>8. Inbox!ConsumerInv'
    BY <1>1, <1>3, Zenon DEF Inbox!IndInv, Inbox!TypeInv, Inbox!ConsumerInv
  <1> QED
    BY <1>5, <1>6, <1>7, <1>8, Zenon DEF Inbox!IndInv

(* The inbox as it is constructed. *)
LEMMA InboxInit ==
    ASSUME Inbox!Init
    PROVE  Inbox!IndInv
  <1> USE DEF Inbox!Init
  <1> USE Sizes
  <1>1. Inbox!TypeInv
    BY DEF Inbox!TypeInv, Inbox!Slots
  <1>2. (\A q \in Submitters : ~Inbox!Claims(q)) /\ Inbox!first = 0
    BY Zenon DEF Inbox!Claims, Inbox!first
  <1>3. Inbox!PositionInv
    <2>1. ASSUME NEW j \in 0..(SlotCount - 1)
          PROVE  Inbox!Slot(j) = j /\ j \in Inbox!Slots
      BY DEF Inbox!Slot, Inbox!Slots
    <2> QED
      BY <1>2, <2>1 DEF Inbox!PositionInv
  <1>4. Inbox!ClaimInv
    BY <1>2, Zenon DEF Inbox!ClaimInv
  <1>5. Inbox!ExchangeInv /\ Inbox!ConsumerInv
    BY DEF Inbox!ExchangeInv, Inbox!ConsumerInv
  <1> QED
    BY <1>1, <1>3, <1>4, <1>5, Zenon DEF Inbox!IndInv

(* Every step of the inbox keeps its invariant. *)
LEMMA InboxStep ==
    ASSUME Inbox!IndInv, [Inbox!Next]_(Inbox!vars)
    PROVE  Inbox!IndInv'
  <1>1. ASSUME NEW p \in Submitters, Inbox!push(p)
        PROVE  Inbox!IndInv'
    <2>1. CASE Inbox!LoadTail(p) \/ Inbox!LoadSequence(p)
      BY <2>1, InboxSeeking, InboxSeeks, Zenon
    <2>2. CASE Inbox!Exchange(p)
      <3>1. i_pc'[p] = "write" \/ i_pc'[p] = "sequence"
        BY <2>2, Zenon DEF Inbox!Exchange, Inbox!Goto, Inbox!IndInv, Inbox!TypeInv
      <3> QED
        BY <2>2, <3>1, InboxSeeking, InboxSeeks, InboxClaims, ZenonT(30)
    <2> QED
      BY <1>1, <2>1, <2>2, InboxWrites, InboxPublishes, Zenon DEF Inbox!push
  <1>2. ASSUME UNCHANGED Inbox!vars
        PROVE  Inbox!IndInv'
    BY <1>2 DEF Inbox!vars, Inbox!slots, Inbox!IndInv, Inbox!TypeInv, Inbox!PositionInv,
        Inbox!ClaimInv, Inbox!ExchangeInv, Inbox!ConsumerInv, Inbox!Claims, Inbox!first
  <1> QED
    BY <1>1, <1>2, InboxPops, InboxReleases, InboxAdvances, ZenonT(30) DEF Inbox!Next, Inbox!pop

-----------------------------------------------------------------------------
(* The inbox is a queue.                                                   *)

(* The item at a position is the one the consumer has loaded, or its        *)
(* producer has still to store it, or it is in the slot.                    *)
Holds(j, v) ==
    \/ j = i_head /\ i_item # Nothing /\ v = i_item
    \/ /\ ~(j = i_head /\ i_item # Nothing)
       /\ v \in Submitters /\ i_pc[v] = "write" /\ i_at[v] = j
    \/ /\ ~(j = i_head /\ i_item # Nothing)
       /\ \A q \in Submitters : ~(i_pc[q] = "write" /\ i_at[q] = j)
       /\ v = i_data[Inbox!Slot(j)]

LEMMA InboxItem ==
    ASSUME Inbox!IndInv, NEW j, NEW v, Holds(j, v)
    PROVE  Inbox!ItemAt(j) = v
  <1>1. CASE j = i_head /\ i_item # Nothing
    BY <1>1, Zenon DEF Holds, Inbox!ItemAt
  <1>2. CASE /\ ~(j = i_head /\ i_item # Nothing)
             /\ v \in Submitters /\ i_pc[v] = "write" /\ i_at[v] = j
    <2> DEFINE w == CHOOSE q \in Submitters : i_pc[q] = "write" /\ i_at[q] = j
    <2>1. w \in Submitters /\ i_pc[w] = "write" /\ i_at[w] = j
      BY <1>2, Zenon
    <2>2. w = v
      BY <1>2, <2>1, Zenon DEF Inbox!IndInv, Inbox!ClaimInv, Inbox!Claims
    <2>3. Inbox!ItemAt(j) = w
      BY <1>2, Zenon DEF Inbox!ItemAt
    <2> QED
      BY <2>2, <2>3, Zenon
  <1> QED
    BY <1>1, <1>2, Zenon DEF Holds, Inbox!ItemAt

LEMMA InboxItemNext ==
    ASSUME Inbox!IndInv', NEW j, NEW v, Holds(j, v)'
    PROVE  Inbox!ItemAt(j)' = v
  <1>1. CASE j = i_head' /\ i_item' # Nothing
    BY <1>1, Zenon DEF Holds, Inbox!ItemAt
  <1>2. CASE /\ ~(j = i_head' /\ i_item' # Nothing)
             /\ v \in Submitters /\ i_pc'[v] = "write" /\ i_at'[v] = j
    <2> DEFINE w == CHOOSE q \in Submitters : i_pc'[q] = "write" /\ i_at'[q] = j
    <2>1. w \in Submitters /\ i_pc'[w] = "write" /\ i_at'[w] = j
      BY <1>2, Zenon
    <2>2. w = v
      BY <1>2, <2>1, Zenon DEF Inbox!IndInv, Inbox!ClaimInv, Inbox!Claims
    <2>3. Inbox!ItemAt(j)' = w
      BY <1>2, Zenon DEF Inbox!ItemAt
    <2> QED
      BY <2>2, <2>3, Zenon
  <1> QED
    BY <1>1, <1>2, Zenon DEF Holds, Inbox!ItemAt, Inbox!Slot

(* Every position holds one item, that of a producer that has claimed it. *)
LEMMA InboxHolds ==
    ASSUME Inbox!IndInv, NEW j \in i_head..(i_tail - 1)
    PROVE  /\ Holds(j, Inbox!ItemAt(j))
           /\ Inbox!ItemAt(j) \in Submitters
           /\ i_pc[Inbox!ItemAt(j)] \in {"write", "publish", "done"}
  <1>1. PICK v : Holds(j, v)
    BY Zenon DEF Holds
  <1>2. Inbox!ItemAt(j) = v
    BY <1>1, InboxItem, Zenon
  <1>3. v \in Submitters /\ i_pc[v] \in {"write", "publish", "done"}
    <2>1. CASE j = i_head /\ i_item # Nothing
      BY <1>1, <2>1, ZenonT(30) DEF Holds, Inbox!IndInv, Inbox!TypeInv, Inbox!ConsumerInv
    <2>2. CASE v \in Submitters /\ i_pc[v] = "write"
      BY <2>2, Zenon
    <2>3. CASE /\ ~(j = i_head /\ i_item # Nothing)
               /\ \A q \in Submitters : ~(i_pc[q] = "write" /\ i_at[q] = j)
               /\ v = i_data[Inbox!Slot(j)]
      <3>1. j \in Inbox!first..(i_tail - 1)
        BY <2>3, InboxWindow DEF Inbox!first, Inbox!IndInv, Inbox!ConsumerInv
      <3>2. ASSUME NEW q \in Submitters, Inbox!Claims(q), i_at[q] = j
            PROVE  v = q /\ i_pc[q] = "publish"
        BY <2>3, <3>2, Zenon DEF Inbox!IndInv, Inbox!ClaimInv, Inbox!Claims
      <3> QED
        BY <2>3, <3>1, <3>2, ZenonT(30) DEF Inbox!IndInv, Inbox!PositionInv
    <2> QED
      BY <1>1, <2>1, <2>2, <2>3, ZenonT(30) DEF Holds
  <1> QED
    BY <1>1, <1>2, <1>3, Zenon

(* A step keeps the items it does not take. *)
InboxKeeps ==
    \A j, v : j \in i_head..(i_tail - 1) /\ j \in i_head'..(i_tail' - 1) /\ Holds(j, v) => Holds(j, v)'

InboxPuts(p) ==
    /\ i_head' = i_head /\ i_tail' = i_tail + 1 /\ i_taken' = i_taken
    /\ i_pc[p] = "exchange"
    /\ \A j \in Nat : j = i_tail => Holds(j, p)'

InboxTakes ==
    /\ i_tail' = i_tail /\ i_head' = i_head + 1 /\ i_head < i_tail
    /\ Holds(i_head, i_item)
    /\ i_taken' = [i_taken EXCEPT ![i_item] = @ + 1]

LEMMA InboxMoves ==
    ASSUME Inbox!IndInv, Inbox!IndInv', Inbox!Next
    PROVE  /\ InboxKeeps
           /\ \/ UNCHANGED <<i_head, i_tail, i_taken>>
              \/ \E p \in Submitters : InboxPuts(p)
              \/ InboxTakes
  <1>1. ASSUME NEW p \in Submitters, NEW place, NEW position, Seeks(p, place, position)
        PROVE  InboxKeeps /\ UNCHANGED <<i_head, i_tail, i_taken>>
    <2>1. \A q \in Submitters : /\ i_pc'[q] = "write" <=> i_pc[q] = "write"
                                /\ i_pc[q] = "write" => i_at'[q] = i_at[q]
      BY <1>1, Zenon DEF Seeks, Inbox!IndInv, Inbox!TypeInv
    <2>2. UNCHANGED <<i_head, i_tail, i_data, i_item, i_taken>>
      BY <1>1, Zenon DEF Seeks
    <2> QED
      BY <2>1, <2>2, ZenonT(30) DEF InboxKeeps, Holds
  <1>2. ASSUME NEW p \in Submitters, Inbox!Exchange(p), i_pc'[p] = "write"
        PROVE  InboxKeeps /\ InboxPuts(p)
    <2>1. /\ i_at[p] = i_tail /\ i_pc[p] = "exchange" /\ i_tail \in Nat /\ i_head \in Nat
          /\ i_tail' = i_tail + 1 /\ i_pc' = [i_pc EXCEPT ![p] = "write"]
          /\ UNCHANGED <<i_head, i_data, i_at, i_item, i_taken, i_consumer>>
      BY <1>2, Zenon DEF Inbox!Exchange, Inbox!Goto, Inbox!slots, Inbox!IndInv, Inbox!TypeInv
    <2>2. \A q \in Submitters : i_pc'[q] = "write" <=> i_pc[q] = "write" \/ q = p
      BY <1>2, <2>1, Zenon DEF Inbox!IndInv, Inbox!TypeInv
    <2>3. InboxKeeps
      <3>1. ASSUME NEW j \in i_head..(i_tail - 1), NEW v, Holds(j, v)
            PROVE  Holds(j, v)'
        <4>1. j # i_at[p]
          BY <2>1
        <4> QED
          BY <2>1, <2>2, <3>1, <4>1, Zenon DEF Holds
      <3> QED
        BY <3>1, Zenon DEF InboxKeeps
    <2>4. ~(i_tail = i_head /\ i_item # Nothing)
      BY InboxWindow DEF Inbox!first, Inbox!IndInv, Inbox!ConsumerInv, Inbox!TypeInv
    <2>5. ASSUME NEW j \in Nat, j = i_tail
          PROVE  Holds(j, p)'
      BY <2>1, <2>2, <2>4, <2>5, Zenon DEF Holds
    <2> QED
      BY <2>1, <2>3, <2>5, Zenon DEF InboxPuts
  <1>3. ASSUME NEW p \in Submitters, Inbox!Write(p)
        PROVE  InboxKeeps /\ UNCHANGED <<i_head, i_tail, i_taken>>
    <2>1. /\ i_pc[p] = "write" /\ i_pc' = [i_pc EXCEPT ![p] = "publish"]
          /\ i_data' = [i_data EXCEPT ![Inbox!Slot(i_at[p])] = p]
          /\ UNCHANGED <<i_head, i_tail, i_at, i_item, i_taken, i_consumer>>
      BY <1>3, Zenon DEF Inbox!Write, Inbox!Goto
    <2>2. \A q \in Submitters : i_pc'[q] = "write" <=> i_pc[q] = "write" /\ q # p
      BY <2>1, Zenon DEF Inbox!IndInv, Inbox!TypeInv
    <2>3. Inbox!Claims(p)
      BY <2>1, Zenon DEF Inbox!Claims
    <2>4. ASSUME NEW j \in i_head..(i_tail - 1), NEW v, Holds(j, v)
          PROVE  Holds(j, v)'
      <3>1. CASE j = i_head /\ i_item # Nothing
        BY <2>1, <2>4, <3>1, Zenon DEF Holds
      <3>2. CASE ~(j = i_head /\ i_item # Nothing)
        <4>1. j \in Inbox!first..(Inbox!first + SlotCount - 1) /\ j \in Nat
          BY <3>2, InboxWindow, Sizes DEF Inbox!first, Inbox!IndInv, Inbox!ConsumerInv
        <4>2. CASE j = i_at[p]
          <5>1. v = p
            BY <2>1, <2>4, <3>2, <4>2, ZenonT(30) DEF Holds, Inbox!IndInv, Inbox!ClaimInv, Inbox!Claims
          <5>2. i_data'[Inbox!Slot(j)] = p
            BY <2>1, <2>3, <4>2, InboxExclusive, Zenon DEF Inbox!IndInv, Inbox!TypeInv
          <5>3. ASSUME NEW q \in Submitters, i_pc'[q] = "write", i_at'[q] = j
                PROVE  FALSE
            BY <2>1, <2>2, <4>2, <5>3 DEF Inbox!IndInv, Inbox!ClaimInv, Inbox!Claims
          <5> QED
            BY <2>1, <3>2, <5>1, <5>2, <5>3, Zenon DEF Holds, Inbox!Slot
        <4>3. CASE j # i_at[p]
          <5>1. Inbox!Slot(j) # Inbox!Slot(i_at[p]) /\ Inbox!Slot(j) \in Inbox!Slots
            BY <2>3, <4>1, <4>3, InboxExclusive, InboxSlot, Zenon
          <5>2. i_data'[Inbox!Slot(j)] = i_data[Inbox!Slot(j)]
            BY <2>1, <5>1, Zenon DEF Inbox!IndInv, Inbox!TypeInv
          <5> QED
            BY <2>1, <2>2, <2>4, <3>2, <4>3, <5>2, Zenon DEF Holds
        <4> QED
          BY <4>2, <4>3, Zenon
      <3> QED
        BY <3>1, <3>2, Zenon
    <2> QED
      BY <2>1, <2>4, Zenon DEF InboxKeeps
  <1>4. ASSUME NEW p \in Submitters, Inbox!Publish(p)
        PROVE  InboxKeeps /\ UNCHANGED <<i_head, i_tail, i_taken>>
    <2>1. /\ i_pc[p] = "publish" /\ i_pc' = [i_pc EXCEPT ![p] = "done"]
          /\ UNCHANGED <<i_head, i_tail, i_data, i_at, i_item, i_taken>>
      BY <1>4, Zenon DEF Inbox!Publish, Inbox!Goto
    <2>2. \A q \in Submitters : i_pc'[q] = "write" <=> i_pc[q] = "write"
      BY <2>1, Zenon DEF Inbox!IndInv, Inbox!TypeInv
    <2> QED
      BY <2>1, <2>2, Zenon DEF InboxKeeps, Holds
  <1>5. ASSUME Inbox!Pop
        PROVE  InboxKeeps /\ UNCHANGED <<i_head, i_tail, i_taken>>
    <2>1. /\ i_item = Nothing /\ i_item' = i_data[Inbox!Slot(i_head)] /\ i_item' # Nothing
          /\ UNCHANGED <<i_head, i_tail, i_data, i_at, i_pc, i_taken>>
      BY <1>5, Zenon DEF Inbox!Pop, Inbox!slots, Inbox!IndInv, Inbox!ConsumerInv
    <2>2. i_sequence[Inbox!Slot(i_head)] = i_head + 1 /\ i_head \in Nat
      BY <1>5, InboxPops, InboxWindow, Zenon
    <2>3. \A q \in Submitters : ~(i_pc[q] = "write" /\ i_at[q] = i_head)
      <3>1. \A q \in Submitters : i_pc[q] = "write" /\ i_at[q] = i_head
                                     => i_sequence[Inbox!Slot(i_head)] = i_head
        BY Zenon DEF Inbox!IndInv, Inbox!ClaimInv, Inbox!Claims
      <3>2. i_head + 1 # i_head
        BY <2>2
      <3> QED
        BY <2>2, <3>1, <3>2, Zenon
    <2> QED
      BY <2>1, <2>3, Zenon DEF InboxKeeps, Holds
  <1>6. ASSUME Inbox!Release
        PROVE  InboxKeeps /\ UNCHANGED <<i_head, i_tail, i_taken>>
    BY <1>6, ZenonT(30) DEF Inbox!Release, InboxKeeps, Holds
  <1>7. ASSUME Inbox!Advance
        PROVE  InboxKeeps /\ InboxTakes
    <2>1. /\ i_consumer = "advance" /\ i_head' = i_head + 1 /\ i_item' = Nothing
          /\ i_taken' = [i_taken EXCEPT ![i_item] = i_taken[i_item] + 1]
          /\ UNCHANGED <<i_tail, i_data, i_at, i_pc>>
      BY <1>7, Zenon DEF Inbox!Advance, Inbox!slots
    <2>2. i_item # Nothing /\ i_head \in Nat /\ i_tail \in Nat /\ i_head < i_tail
      BY <2>1, InboxWindow, SMTT(30) DEF Inbox!first, Inbox!IndInv, Inbox!ConsumerInv
    <2>3. ASSUME NEW j \in (i_head + 1)..(i_tail - 1), NEW v, Holds(j, v)
          PROVE  Holds(j, v)'
      <3>1. j # i_head
        BY <2>2
      <3> QED
        BY <2>1, <2>3, <3>1, Zenon DEF Holds
    <2>4. Holds(i_head, i_item)
      BY <2>2, Zenon DEF Holds
    <2> QED
      BY <2>1, <2>2, <2>3, <2>4, Zenon DEF InboxKeeps, InboxTakes
  <1>8. ASSUME NEW p \in Submitters, Inbox!push(p)
        PROVE  /\ InboxKeeps
               /\ UNCHANGED <<i_head, i_tail, i_taken>> \/ InboxPuts(p)
    <2>1. CASE Inbox!LoadTail(p) \/ Inbox!LoadSequence(p)
      BY <1>1, <2>1, InboxSeeking, Zenon
    <2>2. CASE Inbox!Exchange(p)
      <3>1. i_pc'[p] = "write" \/ i_pc'[p] = "sequence"
        BY <2>2, Zenon DEF Inbox!Exchange, Inbox!Goto, Inbox!IndInv, Inbox!TypeInv
      <3> QED
        BY <1>1, <1>2, <2>2, <3>1, InboxSeeking, ZenonT(30)
    <2> QED
      BY <1>3, <1>4, <1>8, <2>1, <2>2, ZenonT(30) DEF Inbox!push
  <1> QED
    BY <1>5, <1>6, <1>7, <1>8, Zenon DEF Inbox!Next, Inbox!pop

(* A value whose position is being claimed was never in the inbox. *)
LEMMA InboxNew ==
    ASSUME Inbox!IndInv, NEW p \in Submitters, i_pc[p] = "exchange"
    PROVE  /\ i_taken[p] = 0
           /\ \A j \in i_head..(i_tail - 1) : Inbox!ItemAt(j) # p
  BY InboxHolds, Zenon DEF Inbox!IndInv, Inbox!ConsumerInv

(* The inbox implements the queue: a claim of tail_ puts an item, an        *)
(* advance of head_ takes one, and no other step changes the queue.         *)
LEMMA InboxFifoStep ==
    ASSUME Inbox!IndInv, Inbox!IndInv', [Inbox!Next]_(Inbox!vars)
    PROVE  [Inbox!Inbox!Next]_<<Inbox!content, i_taken>>
  <1>1. CASE UNCHANGED Inbox!vars
    BY <1>1, Zenon DEF Inbox!vars, Inbox!slots, Inbox!content, Inbox!ItemAt
  <1>2. CASE Inbox!Next
    <2>1. PICK before, after, n, m, first, second :
              /\ before = Inbox!content /\ after = Inbox!content'
              /\ n = i_tail - i_head /\ first = i_head
              /\ m = i_tail' - i_head' /\ second = i_head'
      BY Zenon
    <2>2. /\ n \in Nat /\ first \in Nat /\ i_tail = first + n /\ i_head = first
      BY <2>1, InboxWindow
    <2>3. \A i \in 1..n : /\ before[i] = Inbox!ItemAt(first + i - 1)
                          /\ first + i - 1 \in i_head..(i_tail - 1)
      BY <2>1, <2>2 DEF Inbox!content
    <2>4. before \in [1..n -> Submitters]
      <3>1. \A i \in 1..n : before[i] \in Submitters
        BY <2>3, InboxHolds, Zenon
      <3> QED
        BY <2>1, <3>1, Zenon DEF Inbox!content
    <2>5. after = [i \in 1..m |-> Inbox!ItemAt(second + i - 1)']
      BY <2>1, Zenon DEF Inbox!content, Inbox!ItemAt
    <2>6. ASSUME NEW j \in i_head..(i_tail - 1), j \in i_head'..(i_tail' - 1)
          PROVE  Inbox!ItemAt(j)' = Inbox!ItemAt(j)
      <3>1. PICK v : v = Inbox!ItemAt(j)
        BY Zenon
      <3>2. Holds(j, v)
        BY <3>1, InboxHolds, Zenon
      <3>3. Holds(j, v)'
        BY <1>2, <2>6, <3>2, InboxMoves, Zenon DEF InboxKeeps
      <3> QED
        BY <3>1, <3>3, InboxItemNext, Zenon
    <2>7. CASE UNCHANGED <<i_head, i_tail, i_taken>>
      <3>1. m = n /\ second = first
        BY <2>1, <2>7, Zenon
      <3>2. \A i \in 1..n : after[i] = before[i]
        BY <2>3, <2>5, <2>6, <2>7, <3>1, Zenon
      <3>3. after = before
        BY <2>4, <2>5, <3>1, <3>2, Zenon
      <3> QED
        BY <2>1, <2>7, <3>3, Zenon
    <2>8. ASSUME NEW p \in Submitters, InboxPuts(p)
          PROVE  Inbox!Inbox!Put
      <3>1. /\ m = n + 1 /\ second = first /\ i_taken' = i_taken
            /\ i_head' = first /\ i_tail' = first + n + 1
        BY <2>1, <2>2, <2>8 DEF InboxPuts
      <3>2. \A i \in 1..n : after[i] = before[i]
        BY <2>2, <2>3, <2>5, <2>6, <3>1
      <3>3. after[n + 1] = p
        <4>1. PICK j \in Nat : j = i_tail
          BY <2>2
        <4>2. Inbox!ItemAt(j)' = p
          BY <2>8, <4>1, InboxItemNext, Zenon DEF InboxPuts
        <4>3. n + 1 \in 1..m /\ second + (n + 1) - 1 = j
          BY <2>2, <3>1, <4>1
        <4> QED
          BY <2>5, <4>2, <4>3, Zenon
      <3>4. i_taken[p] = 0 /\ \A i \in 1..n : before[i] # p
        BY <2>3, <2>8, InboxNew, Zenon DEF InboxPuts
      <3>5. after \in [1..(n + 1) -> Submitters]
        <4>1. \A i \in 1..(n + 1) : after[i] \in Submitters
          BY <2>2, <2>4, <3>2, <3>3
        <4> QED
          BY <2>5, <3>1, <4>1, Zenon
      <3>6. Len(after) = n + 1 /\ SubSeq(after, 1, Len(after) - 1) = before
        BY <2>2, <2>4, <3>2, <3>5, PutLast
      <3>7. ASSUME NEW i \in (Len(after) - 1 + 1)..Len(after)
            PROVE  /\ after[i] \in Submitters /\ i_taken[after[i]] = 0
                   /\ \A j \in 1..(i - 1) : after[j] # after[i]
        <4>1. i = n + 1
          BY <2>2, <3>6
        <4> QED
          BY <2>2, <3>2, <3>3, <3>4, <4>1
      <3>8. 1 \in 1..Len(after)
        BY <2>2, <3>6
      <3> QED
        BY <2>1, <3>1, <3>6, <3>7, <3>8, ZenonT(30) DEF Inbox!Inbox!Put
    <2>9. ASSUME InboxTakes
          PROVE  Inbox!Inbox!Take
      <3>1. m = n - 1 /\ second = first + 1 /\ n > 0 /\ i_head' = second /\ i_tail' = i_tail
        BY <2>1, <2>2, <2>9 DEF InboxTakes
      <3>2. ASSUME NEW i \in 1..(n - 1)
            PROVE  after[i] = before[i + 1]
        <4>1. /\ i + 1 \in 1..n /\ second + i - 1 = first + (i + 1) - 1 /\ i \in 1..m
              /\ second + i - 1 \in i_head'..(i_tail' - 1)
          BY <2>2, <3>1
        <4>2. after[i] = Inbox!ItemAt(second + i - 1)'
          BY <2>5, <4>1, Zenon
        <4>3. before[i + 1] = Inbox!ItemAt(second + i - 1) /\ second + i - 1 \in i_head..(i_tail - 1)
          BY <2>3, <4>1, Zenon
        <4> QED
          BY <2>6, <4>1, <4>2, <4>3, Zenon
      <3>3. after \in [1..(n - 1) -> Submitters]
        <4>1. \A i \in 1..(n - 1) : i + 1 \in 1..n
          BY <2>2
        <4>2. \A i \in 1..(n - 1) : after[i] \in Submitters
          BY <2>4, <3>2, <4>1, ZenonT(30)
        <4> QED
          BY <2>5, <3>1, <4>2, ZenonT(30)
      <3>4. before # <<>> /\ after = Tail(before) /\ Head(before) = before[1]
        BY <2>2, <2>4, <3>1, <3>2, <3>3, TakeFirst
      <3>5. before[1] = i_item
        BY <2>2, <2>3, <2>9, <3>1, InboxItem DEF InboxTakes
      <3>6. i_taken' = [i_taken EXCEPT ![Head(before)] = @ + 1]
        BY <2>9, <3>4, <3>5, Zenon DEF InboxTakes
      <3> QED
        BY <2>1, <3>4, <3>6, Zenon DEF Inbox!Inbox!Take
    <2> QED
      BY <1>2, <2>7, <2>8, <2>9, InboxMoves, ZenonT(30) DEF Inbox!Inbox!Next
  <1> QED
    BY <1>1, <1>2, ZenonT(30)

-----------------------------------------------------------------------------
(* The deque's memory.                                                     *)

INSTANCE FiniteSetTheorems

(* The thieves inside steal(). *)
Inside == {h \in Thieves : thief[h].pc # "idle"}

LEMMA InsideIsFinite == IsFiniteSet(Inside) /\ IsFiniteSet(Inside')
  BY DequeAssumption, FS_Subset, Zenon DEF Inside

(* A counter of zero: nobody is inside. *)
LEMMA NobodyInside ==
    ASSUME MemoryInv, active_thieves = 0
    PROVE  \A h \in Thieves : thief[h].pc = "idle"
  <1>1. Cardinality(Inside) = 0
    BY Zenon DEF MemoryInv, Inside
  <1>2. Inside = {}
    BY <1>1, InsideIsFinite, FS_EmptySet, Zenon
  <1> QED
    BY <1>2, Zenon DEF Inside

LEMMA DequeMemoryInit ==
    ASSUME Init
    PROVE  MemoryInv
  <1>1. {h \in Thieves : thief[h].pc # "idle"} = {}
    BY Zenon DEF Init
  <1>2. Cardinality({h \in Thieves : thief[h].pc # "idle"}) = 0
    BY <1>1, FS_EmptySet, ZenonT(30)
  <1>3. slots = [k \in 1..buffer |-> slots[k]]
    BY DEF Init
  <1> QED
    BY <1>2, <1>3 DEF Init, MemoryInv

(* The owner's steps that leave buffers and thieves alone. *)
LEMMA OwnerMoves ==
    ASSUME MemoryInv, NEW pc, owner.pc # "gone", pc # "gone",
           "pc" \in DOMAIN owner', owner'.pc = pc,
           UNCHANGED <<memory, active_thieves, thief>>
    PROVE  MemoryInv'
  BY ZenonT(30) DEF MemoryInv, memory

(* A thief's steps between the announcement and the end of steal(). *)
LEMMA ThiefMoves ==
    ASSUME MemoryInv, NEW h \in Thieves, NEW to,
           thief[h].pc # "idle", to.pc # "idle",
           {"pc", "t", "b", "buf", "item"} \subseteq DOMAIN to,
           to.pc = "item" => to.buf = buffer,
           thief' = [thief EXCEPT ![h] = to],
           UNCHANGED <<memory, active_thieves, owner>>
    PROVE  MemoryInv'
  <1>1. /\ thief' = [g \in Thieves |-> thief'[g]] /\ thief'[h] = to
        /\ \A g \in Thieves : g # h => thief'[g] = thief[g]
    BY Zenon DEF MemoryInv
  <1>2. {g \in Thieves : thief'[g].pc # "idle"} = {g \in Thieves : thief[g].pc # "idle"}
    BY <1>1, ZenonT(30)
  <1>3. owner.pc # "gone"
    BY Zenon DEF MemoryInv
  <1> QED
    BY <1>1, <1>2, <1>3, ZenonT(30) DEF MemoryInv, memory

(* A new buffer becomes the current one. *)
LEMMA DequeGrows ==
    ASSUME MemoryInv, Grow
    PROVE  MemoryInv'
  <1>1. PICK contents :
          /\ slots' = Append(slots, contents)
          /\ buffer' = Len(slots) + 1
          /\ old_buffers' = old_buffers \cup {buffer}
          /\ owner.pc = "grow" /\ owner' = [owner EXCEPT !.pc = "reclaim"]
          /\ UNCHANGED <<freed, active_thieves, thief>>
    BY Zenon DEF Grow, OwnerAt, OwnerTo
  <1> DEFINE S == {slots[k] : k \in 1..buffer}
  <1>2. slots \in [1..buffer -> S]
    BY Zenon DEF MemoryInv
  <1>3. slots \in Seq(S) /\ Len(slots) = buffer
    BY <1>2, FunctionIsSeq DEF MemoryInv
  <1>4. buffer' = buffer + 1 /\ buffer \in Nat
    BY <1>1, <1>3, Zenon DEF MemoryInv
  <1>5. slots' = [k \in 1..buffer' |-> slots'[k]]
    <2> HIDE DEF S
    <2>1. slots \in Seq(S \cup {contents}) /\ contents \in S \cup {contents}
      BY <1>3
    <2>2. slots' \in Seq(S \cup {contents}) /\ Len(slots') = Len(slots) + 1
      BY <1>1, <2>1
    <2> QED
      BY <1>3, <1>4, <2>2
  <1>6. owner.pc # "gone" /\ owner'.pc = "reclaim" /\ "pc" \in DOMAIN owner'
    BY <1>1, Zenon DEF MemoryInv
  <1>7. buffer' \notin old_buffers' \cup freed' /\ old_buffers' \cup freed' \subseteq 1..buffer'
    BY <1>1, <1>4 DEF MemoryInv
  <1>8. old_buffers' \cap freed' = {}
    BY <1>1, <1>6, Zenon DEF MemoryInv
  <1>9. /\ \A h \in Thieves : thief'[h].pc = "item" => thief'[h].buf \in old_buffers' \cup {buffer'}
        /\ buffer' \in Nat \ {0}
    BY <1>1, <1>4 DEF MemoryInv
  <1>10. /\ thief' = [h \in Thieves |-> thief'[h]]
         /\ \A h \in Thieves : {"pc", "t", "b", "buf", "item"} \subseteq DOMAIN thief'[h]
         /\ active_thieves' = Cardinality({h \in Thieves : thief'[h].pc # "idle"})
    BY <1>1, ZenonT(30) DEF MemoryInv
  <1> QED
    BY <1>5, <1>6, <1>7, <1>8, <1>9, <1>10, ZenonT(30) DEF MemoryInv

(* Retired buffers are deleted only while no thief is inside. *)
LEMMA DequeReclaims ==
    ASSUME MemoryInv, Reclaim
    PROVE  MemoryInv'
  <1>1. owner.pc # "gone" /\ owner'.pc = "store" /\ "pc" \in DOMAIN owner'
    BY Zenon DEF Reclaim, OwnerAt, OwnerTo, MemoryInv
  <1>2. CASE active_thieves = 0
    BY <1>1, <1>2, NobodyInside, Zenon DEF Reclaim, MemoryInv
  <1>3. CASE active_thieves # 0
    BY <1>1, <1>3, ZenonT(30) DEF Reclaim, MemoryInv
  <1> QED
    BY <1>2, <1>3, Zenon

(* The item goes into the current buffer. *)
LEMMA DequeStores ==
    ASSUME MemoryInv, Store
    PROVE  MemoryInv'
  <1>1. owner.pc # "gone" /\ owner'.pc = "publish" /\ "pc" \in DOMAIN owner'
    BY Zenon DEF Store, OwnerAt, OwnerTo, MemoryInv
  <1>2. slots' = [k \in 1..buffer |-> slots'[k]]
    BY Zenon DEF Store, MemoryInv
  <1> QED
    BY <1>1, <1>2, ZenonT(30) DEF Store, MemoryInv

LEMMA DequeIsDestroyed ==
    ASSUME MemoryInv, Destroy
    PROVE  MemoryInv'
  <1>1. owner.pc = "idle" /\ owner'.pc = "gone" /\ "pc" \in DOMAIN owner'
    BY Zenon DEF Destroy, OwnerAt, OwnerTo, MemoryInv
  <1> QED
    BY <1>1, NobodyInside DEF Destroy, MemoryInv

(* A thief announces itself and leaves. *)
LEMMA ThiefEnters ==
    ASSUME MemoryInv, NEW h \in Thieves, StealBegin(h)
    PROVE  MemoryInv'
  <1> DEFINE to == [thief[h] EXCEPT !.pc = "top"]
  <1>1. to.pc = "top" /\ {"pc", "t", "b", "buf", "item"} \subseteq DOMAIN to
    BY Zenon DEF MemoryInv
  <1>2. /\ thief[h].pc = "idle" /\ thief' = [thief EXCEPT ![h] = to] /\ owner.pc # "gone"
        /\ active_thieves' = active_thieves + 1 /\ UNCHANGED <<memory, owner>>
    BY Zenon DEF StealBegin, ThiefStep, OwnerAt
  <1> HIDE DEF to
  <1>3. /\ thief' = [g \in Thieves |-> thief'[g]] /\ thief'[h] = to
        /\ \A g \in Thieves : g # h => thief'[g] = thief[g]
    BY <1>2, Zenon DEF MemoryInv
  <1>4. Inside' = Inside \cup {h} /\ h \notin Inside
    BY <1>1, <1>2, <1>3, Zenon DEF Inside
  <1>5. Cardinality(Inside') = Cardinality(Inside) + 1
    BY <1>4, InsideIsFinite, FS_AddElement, Zenon
  <1> QED
    BY <1>1, <1>2, <1>3, <1>5, Zenon DEF MemoryInv, Inside, memory

LEMMA ThiefLeaves ==
    ASSUME MemoryInv, NEW h \in Thieves, StealEnd(h)
    PROVE  MemoryInv'
  <1> DEFINE to == [pc |-> "idle", t |-> 0, b |-> 0, buf |-> 1, item |-> None]
  <1>1. to.pc = "idle" /\ {"pc", "t", "b", "buf", "item"} \subseteq DOMAIN to
    BY Zenon
  <1>2. /\ thief[h].pc = "leave" /\ thief' = [thief EXCEPT ![h] = to]
        /\ active_thieves' = active_thieves - 1 /\ UNCHANGED <<memory, owner>>
    BY ZenonT(30) DEF StealEnd, ThiefStep
  <1> HIDE DEF to
  <1>3. /\ thief' = [g \in Thieves |-> thief'[g]] /\ thief'[h] = to
        /\ \A g \in Thieves : g # h => thief'[g] = thief[g]
    BY <1>2, ZenonT(30) DEF MemoryInv
  <1>4. Inside' = Inside \ {h} /\ h \in Inside
    BY <1>1, <1>2, <1>3, ZenonT(30) DEF Inside
  <1>5. Cardinality(Inside') = Cardinality(Inside) - 1
    BY <1>4, InsideIsFinite, FS_RemoveElement, ZenonT(30)
  <1> QED
    BY <1>1, <1>2, <1>3, <1>5, Zenon DEF MemoryInv, Inside, memory

(* Every step of the deque keeps its memory safe. *)
LEMMA DequeMemoryStep ==
    ASSUME MemoryInv, [Next]_vars
    PROVE  MemoryInv'
  <1>1. CASE PushBegin
    <2>1. PICK pc : owner'.pc = pc /\ pc \in {"grow", "store"} /\ "pc" \in DOMAIN owner'
      BY <1>1, ZenonT(30) DEF PushBegin
    <2> QED
      BY <1>1, <2>1, OwnerMoves, ZenonT(30) DEF PushBegin, OwnerAt
  <1>2. CASE PushEnd \/ PopBegin \/ PopTop \/ PopLast \/ PopEnd
    <2>1. /\ owner.pc # "gone" /\ "pc" \in DOMAIN owner'
          /\ UNCHANGED <<memory, active_thieves, thief>>
      BY <1>2, ZenonT(30) DEF PushEnd, PopBegin, PopTop, PopLast, PopEnd, OwnerAt, OwnerTo, MemoryInv
    <2>2. owner'.pc \in {"idle", "top", "last", "restore"}
      BY <1>2, ZenonT(30) DEF PushEnd, PopBegin, PopTop, PopLast, PopEnd, OwnerAt, OwnerTo, MemoryInv
    <2> QED
      BY <2>1, <2>2, OwnerMoves, ZenonT(30)
  <1>3. ASSUME NEW h \in Thieves,
               StealTop(h) \/ StealBottom(h) \/ StealBuffer(h) \/ StealItem(h) \/ StealExchange(h)
        PROVE  MemoryInv'
    <2>1. PICK to : to = thief'[h]
      BY ZenonT(30)
    <2>2. /\ thief[h].pc # "idle" /\ thief' = [thief EXCEPT ![h] = to]
          /\ UNCHANGED <<memory, active_thieves, owner>>
      BY <1>3, <2>1, ZenonT(30) DEF StealTop, StealBottom, StealBuffer, StealItem, StealExchange, ThiefStep,
         MemoryInv
    <2>3. /\ to.pc # "idle"
          /\ to.pc = "item" => to.buf = buffer
          /\ {"pc", "t", "b", "buf", "item"} \subseteq DOMAIN to
      <3>1. CASE StealTop(h)
        BY <2>1, <3>1, ZenonT(30) DEF StealTop, ThiefStep, MemoryInv
      <3>2. CASE StealBottom(h)
        BY <2>1, <3>2, ZenonT(30) DEF StealBottom, ThiefStep, MemoryInv
      <3>3. CASE StealBuffer(h)
        BY <2>1, <3>3, ZenonT(30) DEF StealBuffer, ThiefStep, MemoryInv
      <3>4. CASE StealItem(h)
        BY <2>1, <3>4, ZenonT(30) DEF StealItem, ThiefStep, MemoryInv
      <3>5. CASE StealExchange(h)
        BY <2>1, <3>5, ZenonT(30) DEF StealExchange, ThiefStep, MemoryInv
      <3> QED
        BY <1>3, <3>1, <3>2, <3>3, <3>4, <3>5, Zenon
    <2> QED
      BY <2>2, <2>3, ThiefMoves, ZenonT(30)
  <1>4. CASE UNCHANGED vars
    BY <1>4, Zenon DEF vars, memory, MemoryInv
  <1> QED
    BY Zenon, <1>1, <1>2, <1>3, <1>4, DequeGrows, DequeReclaims, DequeStores, DequeIsDestroyed,
       ThiefEnters, ThiefLeaves DEF Next, push, pop, steal

-----------------------------------------------------------------------------
(* The ring, of which RingProof speaks.                                    *)

RingP == INSTANCE RingProof
           WITH Work <- RingWork, Capacity <- SlotCount, None <- Nothing,
                head <- r_head, tail <- r_tail, sequence <- r_sequence,
                value <- r_value, at <- r_at, pushed <- r_pushed, got <- r_got,
                taken <- r_taken, pc <- r_pc

(* The values: producer p pushes <<p, 1>>, <<p, 2>> and so on. *)
LEMMA RingValues ==
    /\ Ring!Values = Producers \X (1..PushesEach)
    /\ Nothing \notin Ring!Values
    /\ \A p \in Producers : Len(RingWork[p]) = PushesEach
    /\ \A p \in Producers : \A i \in 1..PushesEach : RingWork[p][i] = <<p, i>>
  <1>1. \A p \in Producers : RingWork[p] = [i \in 1..PushesEach |-> <<p, i>>]
    BY Zenon DEF RingWork
  <1>2. ASSUME NEW p \in Producers
        PROVE  Len(RingWork[p]) = PushesEach
    <2>1. \A i \in 1..PushesEach : <<p, i>> \in Producers \X (1..PushesEach)
      BY ZenonT(30)
    <2>2. [i \in 1..PushesEach |-> <<p, i>>] \in [1..PushesEach -> Producers \X (1..PushesEach)]
      BY <2>1, ZenonT(30)
    <2>3. RingWork[p] \in [1..PushesEach -> Producers \X (1..PushesEach)]
      BY <1>1, <2>2, ZenonT(30)
    <2> QED
      BY <2>3, FunctionIsSeq, Sizes
  <1>3. \A p \in Producers : \A i \in 1..PushesEach : RingWork[p][i] = <<p, i>>
    BY <1>1, ZenonT(30)
  <1>4. Ring!Values = Producers \X (1..PushesEach)
    <2>1. \A v : v \in Ring!Values
                 <=> \E p \in Producers : \E i \in 1..PushesEach : v = <<p, i>>
      <3> DEFINE Of(p) == {RingWork[p][i] : i \in 1..Len(RingWork[p])}
      <3>1. \A v : v \in Ring!Values <=> \E p \in Producers : v \in Of(p)
        BY Zenon DEF Ring!Values
      <3>2. ASSUME NEW p \in Producers, NEW v
            PROVE  v \in Of(p) <=> \E i \in 1..PushesEach : v = <<p, i>>
        BY <1>2, <1>3, Zenon
      <3> HIDE DEF Of
      <3> QED
        BY <3>1, <3>2, Zenon
    <2>2. \A v : v \in Producers \X (1..PushesEach)
                 <=> \E p \in Producers : \E i \in 1..PushesEach : v = <<p, i>>
      OBVIOUS
    <2>3. \A v : v \in Ring!Values <=> v \in Producers \X (1..PushesEach)
      BY <2>1, <2>2, Zenon
    <2> QED
      BY <2>3, ZenonT(30)
  <1> QED
    BY <1>2, <1>3, <1>4, QueuesAssumption, Zenon

(* The ring is used as RingProof assumes. *)
LEMMA RingIsUsed == RingP!RingAssumption
  <1>1. /\ SlotCount \in Nat \ {0, 1} /\ Producers \cap Consumers = {}
        /\ \A p \in Producers : Len(RingWork[p]) \in Nat
    BY RingValues, Sizes, QueuesAssumption, Zenon
  <1>2. \A p, q \in Producers : \A i \in 1..PushesEach, j \in 1..PushesEach :
            RingWork[p][i] = RingWork[q][j] => p = q /\ i = j
    BY RingValues
  <1>3. ASSUME NEW p \in Producers, NEW q \in Producers,
               NEW i \in 1..Len(RingWork[p]), NEW j \in 1..Len(RingWork[q]),
               RingWork[p][i] = RingWork[q][j]
        PROVE  p = q /\ i = j
    <2>1. i \in 1..PushesEach /\ j \in 1..PushesEach
      BY RingValues, Zenon
    <2> QED
      BY <1>2, <1>3, <2>1, Zenon
  <1>4. Nothing \notin RingP!Values
    BY RingValues, Zenon DEF Ring!Values, RingP!Values
  <1> QED
    BY <1>1, <1>3, <1>4, Zenon DEF RingP!RingAssumption

(* The ring starts alike, ... *)
LEMMA SameRingInit == Ring!Init <=> RingP!Init
  BY Zenon DEF Ring!Init, RingP!Init, Ring!Slots, RingP!Slots, Ring!Threads, RingP!Threads,
         Ring!Values, RingP!Values

(* ... has the same invariant, ... *)
LEMMA SameRingInv == (Ring!IndInv <=> RingP!IndInv) /\ (Ring!IndInv' <=> RingP!IndInv')
  BY Zenon DEF Ring!IndInv, RingP!IndInv, Ring!TypeInv, RingP!TypeInv, Ring!PositionInv,
         RingP!PositionInv, Ring!ClaimInv, RingP!ClaimInv, Ring!ExchangeInv,
         RingP!ExchangeInv, Ring!ValueInv, RingP!ValueInv, Ring!Slots, RingP!Slots,
         Ring!Values, RingP!Values, Ring!Threads, RingP!Threads, Ring!Slot, RingP!Slot,
         Ring!Claims, RingP!Claims, Ring!Window, RingP!Window, Ring!Pushed, RingP!Pushed

(* ... takes the same steps, ... *)
LEMMA SameRingStep == [Ring!Next]_(Ring!vars) => [RingP!Next]_(RingP!vars)
  <1> USE DEF Ring!Goto, RingP!Goto, Ring!Slot, RingP!Slot, Ring!slots, RingP!slots
  <1>1. \A t : Ring!LoadPosition(t) => RingP!LoadPosition(t)
    BY ZenonT(30) DEF Ring!LoadPosition, RingP!LoadPosition
  <1>2. \A t : Ring!LoadSequence(t) => RingP!LoadSequence(t)
    BY ZenonT(30) DEF Ring!LoadSequence, RingP!LoadSequence
  <1>3. \A t : Ring!PushExchange(t) => RingP!PushExchange(t)
    BY ZenonT(30) DEF Ring!PushExchange, RingP!PushExchange
  <1>4. \A t : Ring!PushWrite(t) => RingP!PushWrite(t)
    BY ZenonT(30) DEF Ring!PushWrite, RingP!PushWrite
  <1>5. \A t : Ring!PushPublish(t) => RingP!PushPublish(t)
    BY ZenonT(30) DEF Ring!PushPublish, RingP!PushPublish
  <1>6. \A t : Ring!PopExchange(t) => RingP!PopExchange(t)
    BY ZenonT(30) DEF Ring!PopExchange, RingP!PopExchange
  <1>7. \A t : Ring!PopRead(t) => RingP!PopRead(t)
    BY ZenonT(30) DEF Ring!PopRead, RingP!PopRead
  <1>8. \A t : Ring!PopPublish(t) => RingP!PopPublish(t)
    BY ZenonT(30) DEF Ring!PopPublish, RingP!PopPublish
  <1>9. UNCHANGED Ring!vars => UNCHANGED RingP!vars
    BY ZenonT(30) DEF Ring!vars, RingP!vars
  <1> QED
    BY <1>1, <1>2, <1>3, <1>4, <1>5, <1>6, <1>7, <1>8, <1>9, Zenon
    DEF Ring!Next, RingP!Next, Ring!Push, RingP!Push, Ring!Pop, RingP!Pop

(* ... promises the same, ... *)
LEMMA SameRingExclusive == RingP!SlotsAreExclusive => Ring!SlotsAreExclusive
  BY ZenonT(30) DEF Ring!SlotsAreExclusive, RingP!SlotsAreExclusive, Ring!Slot, RingP!Slot,
         Ring!Threads, RingP!Threads

(* ... and has the same content. *)
LEMMA SameRingContent ==
    /\ RingP!content = Ring!content /\ RingP!content' = Ring!content'
    /\ RingP!Values = Ring!Values
  BY ZenonT(30) DEF Ring!content, RingP!content, Ring!Values, RingP!Values, Ring!ValueAt,
         RingP!ValueAt, Ring!Slot, RingP!Slot

LEMMA SameRingQueue ==
    [RingP!Queue!Next]_<<RingP!content, r_taken>> => [Ring!Queue!Next]_<<Ring!content, r_taken>>
  BY SameRingContent
     DEF Ring!Queue!Next, RingP!Queue!Next, Ring!Queue!Put, RingP!Queue!Put,
         Ring!Queue!Take, RingP!Queue!Take, Ring!Queue!Pass, RingP!Queue!Pass

-----------------------------------------------------------------------------
(* The queues together: one of them moves, the others stay.                *)

QueuesInv == Ring!IndInv /\ Inbox!IndInv /\ MemoryInv

LEMMA OneQueueMoves ==
    ASSUME [QueuesNext]_queueVars
    PROVE  [Next]_vars /\ [Ring!Next]_(Ring!vars) /\ [Inbox!Next]_(Inbox!vars)
  <1>1. UNCHANGED ringVars => UNCHANGED Ring!vars
    BY ZenonT(30) DEF ringVars, Ring!vars, Ring!slots
  <1>2. UNCHANGED inboxVars => UNCHANGED Inbox!vars
    BY ZenonT(30) DEF inboxVars, Inbox!vars, Inbox!slots
  <1> QED
    BY <1>1, <1>2, Zenon DEF QueuesNext, queueVars

(* The inductive invariants of the ring, the inbox and the deque's memory   *)
(* hold in every reachable state.                                           *)
THEOREM QueuesInvariant == QueuesSpec => []QueuesInv
  <1>1. QueuesInit => QueuesInv
    <2> SUFFICES ASSUME QueuesInit PROVE QueuesInv
      BY Zenon
    <2>1. Init /\ Ring!Init /\ Inbox!Init
      BY Zenon DEF QueuesInit
    <2>2. Ring!IndInv
      BY <2>1, RingIsUsed, SameRingInit, SameRingInv, RingP!RingInit, Zenon
    <2> QED
      BY <2>1, <2>2, InboxInit, DequeMemoryInit, Zenon DEF QueuesInv
  <1>2. QueuesInv /\ [QueuesNext]_queueVars => QueuesInv'
    <2> SUFFICES ASSUME QueuesInv, [QueuesNext]_queueVars PROVE QueuesInv'
      BY Zenon
    <2>1. [Next]_vars /\ [Ring!Next]_(Ring!vars) /\ [Inbox!Next]_(Inbox!vars)
      BY OneQueueMoves, Zenon
    <2>2. Ring!IndInv /\ Inbox!IndInv /\ MemoryInv
      BY Zenon DEF QueuesInv
    <2>3. Ring!IndInv'
      BY <2>1, <2>2, RingIsUsed, SameRingInv, SameRingStep, RingP!RingStep, Zenon
    <2>4. Inbox!IndInv' /\ MemoryInv'
      BY <2>1, <2>2, InboxStep, DequeMemoryStep, Zenon
    <2> QED
      BY <2>3, <2>4, Zenon DEF QueuesInv
  <1> QED
    BY <1>1, <1>2, PTL DEF QueuesSpec

(* A slot of the ring belongs to one thread, for any number of producers,   *)
(* consumers and slots: nobody writes a value another has not yet moved     *)
(* out, and nobody reads one that is not there.                             *)
THEOREM RingIsExclusive == QueuesSpec => []SlotsAreExclusive
  <1>1. Ring!IndInv => Ring!SlotsAreExclusive
    BY RingIsUsed, SameRingInv, SameRingExclusive, RingP!RingSlotsAreExclusive, Zenon
  <1>2. QueuesInv => SlotsAreExclusive
    BY <1>1, ZenonT(30) DEF QueuesInv, SlotsAreExclusive
  <1> QED
    BY <1>2, QueuesInvariant, PTL

(* Ring and inbox implement the abstract queue: claiming a position puts a  *)
(* value, the consumer's claim or advance takes the oldest, and every other *)
(* atomic step leaves the queue as it is.                                   *)
THEOREM QueuesRefineFifo == QueuesSpec => QueuesAreFifo
  <1>1. Ring!Init => Ring!Queue!Init
    <2>1. Ring!Init => Ring!content = <<>>
      BY DEF Ring!Init, Ring!content
    <2> QED
      BY <2>1, ZenonT(30) DEF Ring!Init, Ring!Queue!Init
  <1>2. Inbox!Init => Inbox!Inbox!Init
    <2>1. Inbox!Init => Inbox!content = <<>>
      BY DEF Inbox!Init, Inbox!content
    <2> QED
      BY <2>1, Zenon DEF Inbox!Init, Inbox!Inbox!Init
  <1>3. QueuesInit => Ring!Queue!Init /\ Inbox!Inbox!Init
    BY <1>1, <1>2, Zenon DEF QueuesInit
  <1>4. QueuesInv /\ QueuesInv' /\ [QueuesNext]_queueVars
          => /\ [Ring!Queue!Next]_<<Ring!content, r_taken>>
             /\ [Inbox!Inbox!Next]_<<Inbox!content, i_taken>>
    <2> SUFFICES ASSUME QueuesInv, QueuesInv', [QueuesNext]_queueVars
                 PROVE  /\ [Ring!Queue!Next]_<<Ring!content, r_taken>>
                        /\ [Inbox!Inbox!Next]_<<Inbox!content, i_taken>>
      BY Zenon
    <2>1. [Ring!Next]_(Ring!vars) /\ [Inbox!Next]_(Inbox!vars)
      BY OneQueueMoves, Zenon
    <2>2. /\ Ring!IndInv /\ Ring!IndInv'
          /\ Inbox!IndInv /\ Inbox!IndInv'
      BY Zenon DEF QueuesInv
    <2>3. [RingP!Queue!Next]_<<RingP!content, r_taken>>
      BY <2>1, <2>2, RingIsUsed, SameRingInv, SameRingStep, RingP!RingFifoStep, Zenon
    <2> QED
      BY <2>1, <2>2, <2>3, SameRingQueue, InboxFifoStep, Zenon
  <1> QED
    BY <1>3, <1>4, QueuesInvariant, PTL
    DEF QueuesSpec, QueuesAreFifo, Ring!ImplementsFifo, Ring!Queue!Spec, Inbox!ImplementsFifo,
        Inbox!Inbox!Spec

(* No thread reads a buffer of the deque that was deleted, for any number   *)
(* of thieves and however often the deque grows while they steal.           *)
THEOREM DequeMemoryIsSafe == QueuesSpec => []NoUseAfterFree
  <1>1. MemoryInv => NoUseAfterFree
    BY ZenonT(30) DEF MemoryInv, NoUseAfterFree
  <1>2. QueuesInv => NoUseAfterFree
    BY <1>1, ZenonT(30) DEF QueuesInv
  <1> QED
    BY <1>2, QueuesInvariant, PTL

=============================================================================
