--------------------------- MODULE SemaphoreProof ---------------------------
(***************************************************************************)
(* Proof that IndInv is an inductive invariant of Semaphore and that a     *)
(* semaphore implements a permit pool, for any set of operations and any   *)
(* number of permits.                                                      *)
(***************************************************************************)
EXTENDS Semaphore, WaiterProof

USE DEF Step, Ends

(* What the constructor and release() require of the permits. *)
Counts ==
    /\ InitialCount \in Nat /\ MaxCount \in Nat /\ MaxReleased \in Nat
    /\ InitialCount <= MaxCount

(* The waiter has been granted a permit it has not found yet. *)
Granted(w) ==
    \/ /\ pc[w] = "suspended"
       /\ \/ wake[w] \in {"notification_claimed", "notification_scheduling"}
          \/ wake[w] = "waiting" /\ w \in to_schedule
    \/ pc[w] = "resume" /\ wake[w] = "notification_scheduling"

(* The part of the invariant that is about the permits ... *)
PermitsOK ==
    /\ count \in 0..MaxCount
    /\ released \in 0..MaxReleased
    /\ grant_pending \subseteq Waiters
    /\ IsFiniteSet(grant_pending)
    /\ count + Cardinality(grant_pending) <= MaxCount
    /\ \A w \in Waiters :
        wake[w] # "blocked" /\ (w \in grant_pending <=> Granted(w))

(* ... and about the queue. *)
NoneStranded(queue) ==
    count > 0 => \A i \in 1..Len(queue) : was_cancelled(wake[queue[i]])

Taken(list, S) == {list[i] : i \in S}

(* The facts about finite sets that the proofs need, which SyncProof takes  *)
(* from the library: few of its theorems are needed here.                   *)
SetFacts ==
    /\ IsFiniteSet({}) /\ Cardinality({}) = 0
    /\ \A x : IsFiniteSet({x}) /\ Cardinality({x}) = 1
    /\ \A S : IsFiniteSet(S) => Cardinality(S) \in Nat
    /\ \A S : \A T \in SUBSET S : IsFiniteSet(S)
        => IsFiniteSet(T) /\ Cardinality(T) <= Cardinality(S)
    /\ \A S : \A x \in S : IsFiniteSet(S) => Cardinality(S \ {x}) = Cardinality(S) - 1
    /\ \A S, T : IsFiniteSet(S) /\ IsFiniteSet(T) /\ S \cap T = {}
        => /\ IsFiniteSet(S \cup T)
           /\ Cardinality(S \cup T) = Cardinality(S) + Cardinality(T)
    /\ \A f : \A n \in Nat : \A S \in SUBSET (1..n) : IsFiniteSet(Taken(f, S))

LEMMA EmptySet ==
    ASSUME SetFacts PROVE IsFiniteSet({}) /\ Cardinality({}) = 0
  BY Zenon DEF SetFacts

LEMMA Singleton ==
    ASSUME SetFacts, NEW x PROVE IsFiniteSet({x}) /\ Cardinality({x}) = 1
  BY Zenon DEF SetFacts

LEMMA CardinalityType ==
    ASSUME SetFacts, NEW S, IsFiniteSet(S) PROVE Cardinality(S) \in Nat
  BY Zenon DEF SetFacts

LEMMA Subset ==
    ASSUME SetFacts, NEW S, NEW T \in SUBSET S, IsFiniteSet(S)
    PROVE  IsFiniteSet(T) /\ Cardinality(T) <= Cardinality(S)
  BY Zenon DEF SetFacts

LEMMA RemoveElement ==
    ASSUME SetFacts, NEW S, NEW x \in S, IsFiniteSet(S)
    PROVE  Cardinality(S \ {x}) = Cardinality(S) - 1
  BY Zenon DEF SetFacts

(* The invariant is that of the waiters, the permits and the queue. *)
LEMMA Parts ==
    ASSUME NEW queue, waiters = queue
    PROVE  IndInv <=> Good(queue) /\ PermitsOK /\ NoneStranded(queue)
  BY Zenon DEF IndInv, TypeOK, Good, PermitsOK, NoneStranded, GrantInv, Granted,
         NoStrandedWaiter

(* The same of the next state. *)
LEMMA PartsNext ==
    ASSUME NEW queue, waiters' = queue
    PROVE  IndInv' <=> Good(queue)' /\ PermitsOK' /\ NoneStranded(queue)'
<1>1. WaiterInv(waiters)' <=> WaiterInv(queue)'
  BY ZenonT(30) DEF WaiterInv, QueueInv, QueuedInv
<1> QED
  BY <1>1, Zenon DEF IndInv, TypeOK, Good, PermitsOK, NoneStranded, GrantInv, Granted,
         NoStrandedWaiter

(* At first nobody waits and every permit is available. *)
LEMMA InitInv == SetFacts /\ Counts /\ Init => IndInv
<1> SUFFICES ASSUME SetFacts, Counts, Init PROVE IndInv
  BY Zenon
<1>1. Good(<<>>)
  BY WaiterInitInv, Zenon DEF Init
<1>2. PermitsOK
  BY EmptySet DEF Counts, Init, WaiterInit, PermitsOK, Granted
<1>3. NoneStranded(<<>>)
  BY DEF NoneStranded
<1> QED BY <1>1, <1>2, <1>3, Parts, Zenon DEF Init

-----------------------------------------------------------------------------
(* What a finite queue gives: the waiters taken from its first part are     *)
(* finitely many.                                                           *)
LEMMA TakenAreFinite ==
    ASSUME SetFacts, NEW queue, NEW cut \in Nat, NEW P \in SUBSET (1..cut),
           NEW taken, taken = {queue[i] : i \in P}
    PROVE  IsFiniteSet(taken) /\ Cardinality(taken) \in Nat
<1>1. IsFiniteSet(Taken(queue, P))
  BY Zenon DEF SetFacts
<1> QED BY <1>1, CardinalityType, Zenon DEF Taken

(* Permits handed to others than those that have one on its way. *)
LEMMA DisjointUnion ==
    ASSUME SetFacts, NEW S, NEW T, IsFiniteSet(S), IsFiniteSet(T), S \cap T = {}
    PROVE  /\ IsFiniteSet(S \cup T)
           /\ Cardinality(S \cup T) = Cardinality(S) + Cardinality(T)
           /\ Cardinality(S) \in Nat /\ Cardinality(T) \in Nat
  BY Zenon DEF SetFacts

(* claim_waiters(n, rest, pending, wk) grants a permit to the waiters in    *)
(* "granted", leaves "left" queued, and keeps what nobody takes.            *)
Grants(n, rest, pending, wk, queue, granted, left) ==
    /\ left = waiters'
    /\ Selection(queue, left, granted)
    /\ IsFiniteSet(granted) /\ Cardinality(granted) \in 0..n
    /\ Cardinality(granted) < n => left = <<>>
    /\ count' = rest + (n - Cardinality(granted))
    /\ grant_pending' = pending \cup granted
    /\ to_schedule' = to_schedule \cup granted
    /\ wake' = [v \in Waiters |-> IF v \in granted THEN claim(v) ELSE wk[v]]

(* So it does. *)
LEMMA ClaimGrants ==
    ASSUME SetFacts, NEW queue, waiters = queue, Good(queue), NEW n \in Nat, NEW rest,
           NEW pending, NEW wk, claim_waiters(n, rest, pending, wk)
    PROVE  \E granted, left : Grants(n, rest, pending, wk, queue, granted, left)
<1>1. PICK cut \in 0..Len(waiters) :
        LET granted == {waiters[i] : i \in {j \in 1..cut : Claimable(waiters[j])}}
        IN  /\ Cardinality(granted) <= n
            /\ IF Cardinality(granted) < n THEN cut = Len(waiters)
                                           ELSE Claimable(waiters[cut])
            /\ waiters' = SubSeq(waiters, cut + 1, Len(waiters))
            /\ grant_pending' = pending \cup granted
            /\ to_schedule' = to_schedule \cup granted
            /\ count' = rest + (n - Cardinality(granted))
            /\ wake' = [v \in Waiters |-> IF v \in granted THEN claim(v)
                                                         ELSE wk[v]]
  BY Zenon DEF claim_waiters
<1>2. PICK P \in SUBSET (1..cut) : P = {j \in 1..cut : Claimable(queue[j])}
  BY Zenon
<1>3. PICK granted, left : granted = {queue[i] : i \in P} /\ left = waiters'
  BY Zenon
<1>4. /\ granted = {queue[i] : i \in {j \in 1..cut : Claimable(queue[j])}}
      /\ granted = {waiters[i] : i \in {j \in 1..cut : Claimable(waiters[j])}}
  BY <1>2, <1>3, Zenon
<1>5. cut \in Nat /\ cut \in 0..Len(queue) /\ Len(queue) \in Nat
  BY DEF Good
<1>6. IsFiniteSet(granted) /\ Cardinality(granted) \in Nat
  BY <1>2, <1>3, <1>5, TakenAreFinite, Zenon
<1>7. /\ Cardinality(granted) <= n
      /\ Cardinality(granted) < n => cut = Len(queue)
      /\ left = SubSeq(queue, cut + 1, Len(queue))
      /\ grant_pending' = pending \cup granted
      /\ to_schedule' = to_schedule \cup granted
      /\ count' = rest + (n - Cardinality(granted))
      /\ wake' = [v \in Waiters |-> IF v \in granted THEN claim(v) ELSE wk[v]]
  BY <1>1, <1>3, <1>4, Zenon
<1>8. Selection(queue, left, granted)
  BY <1>4, <1>5, <1>7, CutSelects, Zenon
<1>9. ASSUME Cardinality(granted) < n PROVE left = <<>>
  <2>1. cut = Len(queue)
    BY <1>7, <1>9, Zenon
  <2> QED BY <1>5, <1>7, <2>1 DEF Good
<1>10. Grants(n, rest, pending, wk, queue, granted, left)
  BY <1>3, <1>6, <1>7, <1>8, <1>9 DEF Grants
<1> QED BY <1>10, Zenon



(* A grant keeps the permits in order when those it starts from are.        *)
LEMMA GrantKeeps ==
    ASSUME SetFacts, NEW queue, Good(queue), PermitsOK, NEW n \in Nat \ {0}, NEW rest \in Nat,
           NEW pending, NEW wk, NEW granted, NEW left,
           pending = {v \in grant_pending : pc'[v] # "destroyed"},
           rest + n + Cardinality(pending) <= MaxCount, MaxCount \in Nat,
           rest > 0 => \A i \in 1..Len(queue) : was_cancelled(wake[queue[i]]),
           released' \in 0..MaxReleased,
           Grants(n, rest, pending, wk, queue, granted, left),
           Selects(queue, granted, wk)
    PROVE  Good(left)' /\ PermitsOK' /\ NoneStranded(left)'
<1>1. /\ Selection(queue, left, granted)
      /\ IsFiniteSet(granted) /\ Cardinality(granted) \in 0..n
      /\ Cardinality(granted) < n => left = <<>>
      /\ count' = rest + (n - Cardinality(granted))
      /\ grant_pending' = pending \cup granted
  BY Zenon DEF Grants
<1>2. Good(left)'
  BY <1>1, SelectInv, Zenon
<1>3. ASSUME NEW v \in granted
      PROVE  /\ v \in Waiters /\ ~Granted(v) /\ Granted(v)'
             /\ pc[v] = "suspended" /\ wake[v] = "waiting" /\ v \notin to_schedule
             /\ \E i \in 1..Len(queue) : queue[i] = v /\ ~was_cancelled(wake[queue[i]])
  <2>1. v \in Waiters /\ is_linked(queue, v) /\ Claimable(v)
    BY <1>1, Zenon DEF Selection
  <2>2. PICK i \in 1..Len(queue) : queue[i] = v
    BY <2>1, Zenon DEF is_linked
  <2>3. wake[v] = "waiting" /\ v \notin to_schedule
    BY <2>1, <2>2, Zenon DEF Good, WaiterInv, QueueInv, Claimable, claim_rejected, PermitsOK,
                      was_cancelled
  <2>4. pc[v] = "suspended"
    BY <2>1, <2>3, Zenon DEF Good, WaiterInv, LocationInv
  <2>5. pc'[v] = "suspended"
    BY <2>1, <2>3, <2>4, Zenon DEF Selects
  <2>6. wake'[v] \in {"waiting", "notification_claimed"} /\ v \in to_schedule'
    BY <2>1, <2>3, Zenon DEF Selects, claim, claim_notification
  <2> QED BY <2>1, <2>2, <2>3, <2>4, <2>5, <2>6, ZenonT(30) DEF Granted, was_cancelled
<1>4. ASSUME NEW v \in Waiters, v \notin granted
      PROVE  wake'[v] # "blocked" /\ (v \in pending <=> Granted(v)')
  <2>1. wake'[v] = wk[v] /\ (v \in to_schedule' <=> v \in to_schedule)
    BY <1>4, Zenon DEF Selects
  <2>2. v \in grant_pending <=> Granted(v)
    BY Zenon DEF PermitsOK
  <2>3. \/ pc'[v] = pc[v] /\ wk[v] = wake[v]
        \/ pc[v] = "suspend" /\ pc'[v] = "resume" /\ wk[v] = "cancelled_inline"
        \/ pc'[v] = "destroyed" /\ wk[v] = "abandoned"
    BY Zenon DEF Selects
  <2> QED BY <2>1, <2>2, <2>3, Zenon DEF Granted, PermitsOK
<1>5. /\ IsFiniteSet(pending) /\ pending \subseteq Waiters
      /\ granted \subseteq Waiters /\ pending \cap granted = {}
  <2>1. IsFiniteSet(pending) /\ pending \subseteq Waiters
    BY Subset, Zenon DEF PermitsOK
  <2> QED BY <1>3, <2>1, Zenon DEF PermitsOK
<1>6. Cardinality(pending \cup granted) = Cardinality(pending) + Cardinality(granted)
      /\ IsFiniteSet(pending \cup granted)
      /\ Cardinality(pending) \in Nat
  BY <1>1, <1>5, DisjointUnion, Zenon
<1>7. count' \in 0..MaxCount /\ count' + Cardinality(grant_pending') <= MaxCount
  BY <1>1, <1>6
<1>8. ASSUME NEW v \in Waiters
      PROVE  wake'[v] # "blocked" /\ (v \in grant_pending' <=> Granted(v)')
  BY <1>1, <1>3, <1>4, Zenon DEF Granted
<1>9. PermitsOK'
  BY <1>1, <1>5, <1>6, <1>7, <1>8, Zenon DEF PermitsOK
<1>10. NoneStranded(left)'
  <2>1. CASE Cardinality(granted) < n
    BY <1>1, <2>1 DEF NoneStranded
  <2>2. CASE Cardinality(granted) = n
    <3>1. granted # {}
      BY <2>2, EmptySet, Zenon
    <3>2. rest = 0
      BY <1>3, <3>1
    <3> QED BY <1>1, <2>2, <3>2 DEF NoneStranded
  <2> QED BY <1>1, <2>1, <2>2
<1> QED BY <1>2, <1>9, <1>10, Zenon

(* A step of one waiter that grants nothing. *)
OneStep(w, to, s) ==
    /\ pc' = [pc EXCEPT ![w] = to]
    /\ wake' = [wake EXCEPT ![w] = s]
    /\ UNCHANGED <<cancellable, to_schedule, cancelling, scheduled, grant_pending, released>>

(* It keeps the permits in order.                                           *)
LEMMA PermitsKept ==
    ASSUME SetFacts, PermitsOK, NEW w \in Waiters, NEW to, NEW s,
           pc \in [Waiters -> Locations], wake \in [Waiters -> WakeStates],
           OneStep(w, to, s),
           count' = count \/ (count > 0 /\ count' = count - 1),
           s # "blocked", Granted(w)' <=> Granted(w), MaxCount \in Nat
    PROVE  PermitsOK'
<1> USE DEF OneStep
<1>1. Cardinality(grant_pending) \in Nat
  BY CardinalityType, Zenon DEF PermitsOK
<1>2. count' \in 0..MaxCount /\ count' + Cardinality(grant_pending') <= MaxCount
  BY <1>1 DEF PermitsOK
<1>3. ASSUME NEW v \in Waiters
      PROVE  wake'[v] # "blocked" /\ (v \in grant_pending' <=> Granted(v)')
  BY ZenonT(30) DEF PermitsOK, Granted
<1> QED BY <1>2, <1>3, Zenon DEF PermitsOK

-----------------------------------------------------------------------------
(* A step as the permit pool sees it. *)
PoolStep == [Pool!Next]_(Pool!vars)

(* The pool counts as the semaphore does. *)
LEMMA PoolCounts == \A S : Pool!Cardinality(S) = Cardinality(S)
  BY Zenon DEF Pool!Cardinality, Cardinality, Pool!IsFiniteSet, IsFiniteSet

(* Owners change with the permits that leave and reach the semaphore.       *)
LEMMA PoolMoves ==
    ASSUME PermitsOK, NEW lost, NEW won, Owners \ Owners' = lost, Owners' \ Owners = won,
           Cardinality(lost) \in Nat, Cardinality(won) \in Nat,
           released' \in Nat, released' >= released, count' \in Nat,
           count' = count + (released' - released) + Cardinality(lost) - Cardinality(won)
    PROVE  PoolStep
<1>1. Owners' \subseteq Waiters
  BY Zenon DEF Owners
<1>2. /\ Pool!Cardinality(Owners \ Owners') = Cardinality(lost)
      /\ Pool!Cardinality(Owners' \ Owners) = Cardinality(won)
  BY PoolCounts, Zenon
<1>3. count' >= 0
  OBVIOUS
<1>4. Pool!Next
  BY <1>1, <1>2, <1>3, Zenon DEF Pool!Next
<1> QED BY <1>4, Zenon DEF PoolStep

(* No owner changes. *)
LEMMA PoolQuiet ==
    ASSUME UNCHANGED <<count, released>>, \A v \in Waiters : Owns(v)' <=> Owns(v)
    PROVE  PoolStep
<1>1. Owners' = Owners
  BY Zenon DEF Owners
<1> QED BY <1>1, Zenon DEF PoolStep, Pool!vars

(* A waiter takes an available permit. *)
LEMMA PoolAcquire ==
    ASSUME SetFacts, PermitsOK, NEW w \in Waiters, ~Owns(w), Owns(w)', count > 0, count' = count - 1,
           released' = released, \A v \in Waiters \ {w} : Owns(v)' <=> Owns(v)
    PROVE  PoolStep
<1>1. Owners \ Owners' = {} /\ Owners' \ Owners = {w}
  BY Zenon DEF Owners
<1>2. Cardinality({}) = 0 /\ Cardinality({w}) = 1
  BY EmptySet, Singleton, Zenon
<1>3. count \in Nat /\ released \in Nat /\ count' \in Nat
  BY DEF PermitsOK
<1> QED BY <1>1, <1>2, <1>3, PoolMoves

(* Waiters that own nothing are granted a permit, while the frame of one    *)
(* that was granted one may be destroyed.                                   *)
LEMMA PoolGrant ==
    ASSUME SetFacts, NEW queue, Good(queue), PermitsOK, PermitsOK', NEW n \in Nat, NEW rest \in Nat,
           NEW pending, NEW wk, NEW granted, NEW left, NEW lost,
           lost \subseteq grant_pending, IsFiniteSet(lost),
           pending = grant_pending \ lost,
           \A v \in lost : pc'[v] = "destroyed",
           \A v \in Waiters : pc'[v] = "destroyed" => ~Owns(v) \/ v \in lost,
           released' >= released,
           rest + n = count + (released' - released) + Cardinality(lost),
           Grants(n, rest, pending, wk, queue, granted, left),
           Selects(queue, granted, wk)
    PROVE  PoolStep
<1>1. /\ Selection(queue, left, granted)
      /\ IsFiniteSet(granted) /\ Cardinality(granted) \in 0..n
      /\ count' = rest + (n - Cardinality(granted))
      /\ grant_pending' = pending \cup granted
  BY Zenon DEF Grants
<1>2. ASSUME NEW v \in granted
      PROVE  v \in Waiters /\ ~Owns(v) /\ v \in grant_pending'
  <2>1. v \in Waiters /\ is_linked(queue, v) /\ Claimable(v)
    BY <1>1, Zenon DEF Selection
  <2>2. PICK i \in 1..Len(queue) : queue[i] = v
    BY <2>1, Zenon DEF is_linked
  <2>3. wake[v] = "waiting" /\ v \notin to_schedule
    BY <2>1, <2>2, Zenon DEF Good, WaiterInv, QueueInv, Claimable, claim_rejected, PermitsOK,
                      was_cancelled
  <2>4. pc[v] = "suspended"
    BY <2>1, <2>3, Zenon DEF Good, WaiterInv, LocationInv
  <2> QED BY <1>1, <2>1, <2>3, <2>4, Zenon DEF Owns, PermitsOK, Granted
<1>3. ASSUME NEW v \in Waiters, v \notin granted
      PROVE  Owns(v)' <=> Owns(v) /\ v \notin lost
  <2>1. wake'[v] = wk[v] /\ (v \in grant_pending' <=> v \in grant_pending /\ v \notin lost)
    BY <1>1, <1>3, Zenon DEF Selects
  <2>2. \/ pc'[v] = pc[v] /\ wk[v] = wake[v]
        \/ /\ pc[v] = "suspend" /\ pc'[v] = "resume" /\ wk[v] = "cancelled_inline"
        \/ pc'[v] = "destroyed" /\ wk[v] = "abandoned"
    BY Zenon DEF Selects
  <2>3. v \in grant_pending => pc[v] \in {"suspended", "resume"}
    BY Zenon DEF PermitsOK, Granted
  <2>4. v \in grant_pending' => pc'[v] \in {"suspended", "resume"}
    BY Zenon DEF PermitsOK, Granted
  <2> QED BY <2>1, <2>2, <2>3, <2>4, Zenon DEF Owns, was_cancelled
<1>4. lost \subseteq Owners
  BY Zenon DEF Owners, Owns, PermitsOK
<1>5. Owners \ Owners' = lost /\ Owners' \ Owners = granted
  BY <1>2, <1>3, <1>4, Zenon DEF Owners, Owns
<1>6. /\ Cardinality(lost) \in Nat /\ count \in Nat /\ released \in Nat
      /\ count' \in Nat /\ released' \in Nat
  BY CardinalityType DEF PermitsOK
<1>7. count' = count + (released' - released) + Cardinality(lost) - Cardinality(granted)
  BY <1>1, <1>6
<1> QED BY <1>1, <1>5, <1>6, <1>7, PoolMoves

-----------------------------------------------------------------------------
(* The permits after a step of one waiter that owns as much as before ...   *)
LEMMA QuietStep ==
    ASSUME SetFacts, NEW queue, Good(queue), PermitsOK, MaxCount \in Nat, NEW w \in Waiters, NEW to, NEW s,
           OneStep(w, to, s), count' = count, s # "blocked",
           Granted(w)' <=> Granted(w), Owns(w)' <=> Owns(w)
    PROVE  PermitsOK' /\ PoolStep
<1>1. pc \in [Waiters -> Locations] /\ wake \in [Waiters -> WakeStates]
  BY Zenon DEF Good, WaiterTypeOK
<1>2. PermitsOK'
  BY <1>1, PermitsKept, Zenon
<1>3. \A v \in Waiters : Owns(v)' <=> Owns(v)
  BY <1>1, Zenon DEF OneStep, Owns
<1>4. UNCHANGED <<count, released>>
  BY Zenon DEF OneStep
<1> QED BY <1>2, <1>3, <1>4, PoolQuiet, Zenon

(* ... or takes an available permit. *)
LEMMA AcquireStep ==
    ASSUME SetFacts, NEW queue, Good(queue), PermitsOK, MaxCount \in Nat, NEW w \in Waiters, NEW to, NEW s,
           OneStep(w, to, s), count > 0, count' = count - 1, s # "blocked",
           pc[w] \in {"start", "ready", "suspend"},
           to = "completed" \/ (to = "resume" /\ s = "notified_inline")
    PROVE  PermitsOK' /\ PoolStep
<1>1. pc \in [Waiters -> Locations] /\ wake \in [Waiters -> WakeStates]
  BY Zenon DEF Good, WaiterTypeOK
<1>2. ~Granted(w) /\ ~Owns(w) /\ ~Granted(w)' /\ Owns(w)'
  BY <1>1, Zenon DEF OneStep, Granted, Owns, PermitsOK, was_cancelled
<1>3. PermitsOK'
  BY <1>1, <1>2, PermitsKept, Zenon
<1>4. \A v \in Waiters \ {w} : Owns(v)' <=> Owns(v)
  BY <1>1, Zenon DEF OneStep, Owns
<1>5. released' = released
  BY Zenon DEF OneStep
<1> QED BY <1>2, <1>3, <1>4, <1>5, PoolAcquire, ZenonT(30)

(* What a waiter does before it waits, except to take a permit. *)
LEMMA UnownedStep ==
    ASSUME SetFacts, NEW queue, Good(queue), PermitsOK, MaxCount \in Nat, NEW w \in Waiters, NEW to, NEW s,
           OneStep(w, to, s), count' = count, s # "blocked",
           pc[w] \in {"start", "ready", "suspend"},
           \/ to \notin {"suspended", "resume", "completed"}
           \/ to = "resume" /\ s = "cancelled_inline"
           \/ to = "suspended" /\ s = "waiting" /\ w \notin to_schedule
    PROVE  PermitsOK' /\ PoolStep
<1>1. pc \in [Waiters -> Locations] /\ wake \in [Waiters -> WakeStates]
  BY Zenon DEF Good, WaiterTypeOK
<1>2. ~Granted(w) /\ ~Owns(w) /\ w \notin grant_pending
  BY Zenon DEF Granted, Owns, PermitsOK
<1>3. ~Granted(w)' /\ ~Owns(w)'
  BY <1>1, <1>2, Zenon DEF OneStep, Granted, Owns, was_cancelled
<1> QED BY <1>2, <1>3, QuietStep, Zenon

(* A waiter that has not begun to wait is not queued. *)
LEMMA EarlyNotLinked ==
    ASSUME NEW queue, Good(queue), NEW w \in Waiters, pc[w] \in {"start", "ready", "suspend"}
    PROVE  ~is_linked(queue, w) /\ w \notin to_schedule /\ w \notin cancelling
  BY ZenonT(30) DEF Good, WaiterInv, LocationInv, QueueInv, SelectedInv, is_linked

(* While no permit becomes available, the queue stays as it should be, if   *)
(* only waiters outside it change.                                          *)
LEMMA StrandedKept ==
    ASSUME NEW queue, Good(queue), NoneStranded(queue), PermitsOK, NEW w \in Waiters, NEW s,
           ~is_linked(queue, w) \/ was_cancelled(s),
           wake' = [wake EXCEPT ![w] = s], count' = count \/ (count > 0 /\ count' = count - 1)
    PROVE  NoneStranded(queue)'
<1>1. \A i \in 1..Len(queue) : queue[i] \in Waiters
  BY DEF Good
<1> QED BY <1>1 DEF NoneStranded, Good, is_linked, PermitsOK

(* The same with the waiter taken out of the queue. *)
LEMMA StrandedRemoved ==
    ASSUME NEW queue, Good(queue), NoneStranded(queue), NEW w \in Waiters, NEW s,
           wake' = [wake EXCEPT ![w] = s], count' = count
    PROVE  NoneStranded(remove(queue, w))'
<1> DEFINE rest == remove(queue, w)
<1>1. queue \in Seq(Waiters) /\ Distinct(queue)
  BY Zenon DEF Good, WaiterInv, QueueInv, Distinct
<1>2. /\ rest \in Seq(Waiters)
      /\ \A i \in 1..Len(rest) :
            rest[i] # w /\ \E j \in 1..Len(queue) : rest[i] = queue[j]
  BY <1>1, RemoveProperties
<1> HIDE DEF rest
<1>3. \A i \in 1..Len(queue) : queue[i] \in Waiters
  BY <1>1
<1>4. NoneStranded(rest)'
  BY <1>2, <1>3 DEF NoneStranded, Good
<1> QED BY <1>4, Zenon DEF rest

(* Every step preserves the invariant, and is a step of the permit pool or  *)
(* none.                                                                    *)
LEMMA StepKeeps ==
    SetFacts /\ Counts /\ IndInv /\ [Next]_vars => IndInv' /\ PoolStep
<1> SUFFICES ASSUME SetFacts, Counts, IndInv, [Next]_vars PROVE IndInv' /\ PoolStep
  BY Zenon
<1>0. PICK queue, queue2 : queue = waiters /\ queue2 = waiters'
  BY Zenon
<1>1. Good(queue) /\ PermitsOK /\ NoneStranded(queue)
  BY <1>0, Parts, Zenon
<1>2. /\ MaxCount \in Nat /\ count \in Nat
      /\ pc \in [Waiters -> Locations] /\ wake \in [Waiters -> WakeStates]
  BY <1>1 DEF Counts, PermitsOK, Good, WaiterTypeOK
<1> DEFINE Kept == Good(queue2)' /\ PermitsOK' /\ NoneStranded(queue2)' /\ PoolStep
<1> USE DEF queues
<1>3. SUFFICES Kept
  BY <1>0, PartsNext, Zenon
<1>4. ASSUME NEW w \in Waiters, NEW to, NEW s, Proceeds(w, to, s), OneStep(w, to, s),
             queue2 = queue, pc[w] \in {"start", "ready", "suspend"},
             \/ /\ count' = count
                /\ \/ to \in {"suspend", "refused", "failed"}
                   \/ to = "resume" /\ s = "cancelled_inline"
             \/ /\ count > 0 /\ count' = count - 1
                /\ to = "completed" \/ (to = "resume" /\ s = "notified_inline")
      PROVE  Kept
  <2>1. wake[w] \in {"idle", "cancelled_inline"} /\ s # "blocked"
    BY <1>1, <1>4, Zenon DEF Good, WaiterInv, LocationInv, Proceeds
  <2>2. Good(queue)'
    BY <1>1, <1>4, ProceedInv, Zenon
  <2>3. ~is_linked(queue, w)
    BY <1>1, <1>4, EarlyNotLinked, Zenon
  <2>4. NoneStranded(queue)'
    <3>1. wake' = [wake EXCEPT ![w] = s]
      BY <1>4, Zenon DEF OneStep
    <3> QED BY <1>1, <1>4, <2>3, <3>1, StrandedKept, ZenonT(30)
  <2>5. CASE count' = count
    <3>1. \/ to \notin {"suspended", "resume", "completed"}
          \/ to = "resume" /\ s = "cancelled_inline"
      BY <1>2, <1>4, <2>5
    <3>2. PermitsOK' /\ PoolStep
      BY <1>1, <1>2, <1>4, <2>1, <2>5, <3>1, UnownedStep, ZenonT(30)
    <3> QED BY <1>4, <2>2, <2>4, <3>2, Zenon
  <2>6. CASE count > 0 /\ count' = count - 1
    <3>1. to = "completed" \/ (to = "resume" /\ s = "notified_inline")
      BY <1>2, <1>4, <2>6
    <3>2. PermitsOK' /\ PoolStep
      BY <1>1, <1>2, <1>4, <2>1, <2>6, <3>1, AcquireStep, ZenonT(30)
    <3> QED BY <1>4, <2>2, <2>4, <3>2
  <2> QED BY <1>4, <2>5, <2>6, Zenon
<1>5. ASSUME NEW w \in Waiters, NEW t \in BOOLEAN, Begin(w, t) PROVE Kept
  <2>1. Good(queue)' /\ queue2 = queue
    BY <1>0, <1>1, <1>5, BeginWaitInv, Zenon DEF Begin, permits
  <2>2. /\ pc[w] = "start" /\ pc' = [pc EXCEPT ![w] = "ready"]
        /\ UNCHANGED <<wake, to_schedule, grant_pending, count, released>>
    BY <1>5, Zenon DEF Begin, BeginWait, permits
  <2>3. PermitsOK' /\ NoneStranded(queue)'
    BY <1>1, <1>2, <2>2, Zenon DEF PermitsOK, Granted, NoneStranded
  <2>4. \A v \in Waiters : Owns(v)' <=> Owns(v)
    BY <1>2, <2>2, Zenon DEF Owns
  <2> QED BY <2>1, <2>2, <2>3, <2>4, PoolQuiet, Zenon
<1>6. ASSUME NEW w \in Waiters, NEW from \in {"start", "ready"}, NEW else,
             else = IF from = "start" THEN "refused" ELSE "suspend",
             TryAcquire(w, from, else)
      PROVE  Kept
  <2>1. /\ wake' = [wake EXCEPT ![w] = wake[w]] /\ queue2 = queue /\ pc[w] = from
        /\ UNCHANGED <<cancellable, grant_pending, to_schedule, cancelling, scheduled, released>>
    BY <1>0, <1>2, <1>6, Zenon DEF TryAcquire
  <2>2. CASE count > 0
    <3>1. count' = count - 1 /\ pc' = [pc EXCEPT ![w] = "completed"]
      BY <1>2, <1>6, <2>2, SMTT(30) DEF TryAcquire
    <3>2. Proceeds(w, "completed", wake[w]) /\ OneStep(w, "completed", wake[w])
      BY <1>6, <2>1, <3>1, Zenon DEF Proceeds, OneStep
    <3> QED BY <1>4, <2>1, <2>2, <3>1, <3>2, Zenon
  <2>3. CASE count = 0
    <3>1. count' = count /\ pc' = [pc EXCEPT ![w] = else]
      BY <1>2, <1>6, <2>3 DEF TryAcquire
    <3>2. Proceeds(w, else, wake[w]) /\ OneStep(w, else, wake[w])
      BY <1>6, <2>1, <3>1, Zenon DEF Proceeds, OneStep
    <3> QED BY <1>4, <1>6, <2>1, <3>1, <3>2, Zenon
  <2> QED BY <1>2, <2>2, <2>3, SMTT(30)
<1>7. ASSUME NEW w \in Waiters, AwaitReadyToken(w) PROVE Kept
  <2>1. /\ queue2 = queue /\ pc[w] = "ready" /\ w \in cancellable
        /\ UNCHANGED <<cancellable, grant_pending, to_schedule, cancelling, scheduled, released>>
        /\ wake[w] \in {"idle", "cancelled_inline"}
    BY <1>0, <1>1, <1>7, ZenonT(30) DEF AwaitReadyToken, Good, WaiterInv, LocationInv
  <2>2. CASE was_cancelled(wake[w])
    <3>1. wake[w] = "cancelled_inline" /\ count' = count
      BY <1>7, <2>1, <2>2, Zenon DEF AwaitReadyToken, was_cancelled
    <3>2. Proceeds(w, "resume", wake[w]) /\ OneStep(w, "resume", wake[w])
      BY <1>2, <1>7, <2>1, <2>2, <3>1, Zenon DEF AwaitReadyToken, Proceeds, OneStep
    <3> QED BY <1>4, <2>1, <3>1, <3>2, Zenon
  <2>3. CASE ~was_cancelled(wake[w]) /\ count = 0
    <3>1. Proceeds(w, "suspend", wake[w]) /\ OneStep(w, "suspend", wake[w]) /\ count' = count
      BY <1>2, <1>7, <2>1, <2>3, SMTT(30) DEF AwaitReadyToken, Proceeds, OneStep
    <3> QED BY <1>4, <2>1, <3>1, Zenon
  <2>4. CASE ~was_cancelled(wake[w]) /\ count > 0
    <3>1. wake' = [wake EXCEPT ![w] = "notified_inline"] /\ count' = count - 1
      BY <1>7, <2>1, <2>4, SMTT(30) DEF AwaitReadyToken, claim_notification, was_cancelled
    <3>2. Proceeds(w, "resume", "notified_inline") /\ OneStep(w, "resume", "notified_inline")
      BY <1>7, <2>1, <2>4, <3>1, SMTT(30) DEF AwaitReadyToken, Proceeds, OneStep
    <3> QED BY <1>4, <2>1, <2>4, <3>1, <3>2, Zenon
  <2> QED BY <1>2, <2>2, <2>3, <2>4, SMTT(30)
<1>8. ASSUME NEW w \in Waiters, AllocationFails(w) PROVE Kept
  <2>1. /\ Proceeds(w, "failed", wake[w]) /\ OneStep(w, "failed", wake[w])
        /\ queue2 = queue /\ count' = count /\ pc[w] = "suspend"
    BY <1>0, <1>2, <1>8, Zenon DEF AllocationFails, Proceeds, OneStep, permits
  <2> QED BY <1>4, <2>1, Zenon
<1>9. ASSUME NEW w \in Waiters, pc[w] = "suspend", wake[w] = "idle", count = 0, count' = 0,
             Publishes(w, "suspended", "waiting"), OneStep(w, "suspended", "waiting"),
             queue2 = push_back(queue, w)
      PROVE  Kept
  <2>1. Good(push_back(queue, w))'
    BY <1>1, <1>9, PublishInv, Zenon
  <2>2. NoneStranded(queue2)'
    BY <1>9 DEF NoneStranded
  <2>3. w \notin to_schedule
    BY <1>1, <1>9, EarlyNotLinked, Zenon
  <2>4. PermitsOK' /\ PoolStep
    BY <1>1, <1>2, <1>9, <2>3, UnownedStep, Zenon
  <2> QED BY <1>9, <2>1, <2>2, <2>4, Zenon
<1>10. ASSUME NEW w \in Waiters, AwaitSuspend(w) PROVE Kept
  <2>1. /\ pc[w] = "suspend" /\ w \notin cancellable /\ wake[w] = "idle"
        /\ UNCHANGED <<cancellable, grant_pending, to_schedule, cancelling, scheduled, released>>
    BY <1>1, <1>10, Zenon DEF AwaitSuspend, Good, WaiterInv, LocationInv
  <2>2. CASE count > 0
    <3>1. /\ pc' = [pc EXCEPT ![w] = "completed"] /\ wake' = [wake EXCEPT ![w] = wake[w]]
          /\ count' = count - 1 /\ queue2 = queue
      BY <1>0, <1>2, <1>10, <2>2, SMTT(30) DEF AwaitSuspend
    <3>2. Proceeds(w, "completed", wake[w]) /\ OneStep(w, "completed", wake[w])
      BY <2>1, <3>1, Zenon DEF Proceeds, OneStep
    <3> QED BY <1>4, <2>1, <2>2, <3>1, <3>2, Zenon
  <2>3. CASE count = 0
    <3>1. /\ pc' = [pc EXCEPT ![w] = "suspended"] /\ wake' = [wake EXCEPT ![w] = "waiting"]
          /\ count' = 0 /\ queue2 = push_back(queue, w)
      BY <1>0, <1>2, <1>10, <2>1, <2>3, SMTT(30) DEF AwaitSuspend, set_handle
    <3>2. Publishes(w, "suspended", "waiting") /\ OneStep(w, "suspended", "waiting")
      BY <2>1, <3>1, Zenon DEF Publishes, OneStep
    <3> QED BY <1>9, <2>1, <2>3, <3>1, <3>2, Zenon
  <2> QED BY <1>2, <2>2, <2>3, SMTT(30)
<1>11. ASSUME NEW w \in Waiters, SuspendPublish(w) PROVE Kept
  <2>1. /\ pc[w] = "suspend" /\ wake[w] = "idle" /\ count = 0 /\ count' = 0
        /\ queue2 = push_back(queue, w)
        /\ UNCHANGED <<cancellable, grant_pending, to_schedule, cancelling, scheduled, released>>
    BY <1>0, <1>1, <1>11, Zenon DEF SuspendPublish, Good, WaiterInv, LocationInv, was_cancelled
  <2>2. pc' = [pc EXCEPT ![w] = "suspended"] /\ wake' = [wake EXCEPT ![w] = "waiting"]
    BY <1>11, <2>1, Zenon DEF SuspendPublish, set_handle_blocked, unblock_after_publish
  <2>3. Publishes(w, "suspended", "waiting") /\ OneStep(w, "suspended", "waiting")
    BY <2>1, <2>2, Zenon DEF Publishes, OneStep
  <2> QED BY <1>9, <2>1, <2>3, Zenon
<1>12. ASSUME NEW w \in Waiters, SuspendCancelled(w) PROVE Kept
  <2>1. /\ pc[w] = "suspend" /\ wake[w] \in {"idle", "cancelled_inline"} /\ w \in cancellable
        /\ count' = count /\ queue2 = queue /\ pc' = [pc EXCEPT ![w] = "resume"]
        /\ UNCHANGED <<cancellable, grant_pending, to_schedule, cancelling, scheduled, released>>
    BY <1>0, <1>1, <1>12, Zenon DEF SuspendCancelled, permits, Good, WaiterInv, LocationInv
  <2>2. wake' = [wake EXCEPT ![w] = "cancelled_inline"]
    BY <1>12, <2>1, Zenon DEF SuspendCancelled, was_cancelled
  <2>3. Proceeds(w, "resume", "cancelled_inline") /\ OneStep(w, "resume", "cancelled_inline")
    BY <2>1, <2>2, Zenon DEF Proceeds, OneStep
  <2> QED BY <1>4, <2>1, <2>3, Zenon
<1>13. ASSUME NEW w \in Waiters, SuspendAcquire(w) PROVE Kept
  <2>1. /\ pc[w] = "suspend" /\ wake[w] = "idle" /\ w \in cancellable
        /\ count > 0 /\ count' = count - 1 /\ queue2 = queue
        /\ pc' = [pc EXCEPT ![w] = "resume"]
        /\ UNCHANGED <<cancellable, grant_pending, to_schedule, cancelling, scheduled, released>>
    BY <1>0, <1>1, <1>13, ZenonT(30) DEF SuspendAcquire, Good, WaiterInv, LocationInv, was_cancelled
  <2>2. wake' = [wake EXCEPT ![w] = "notified_inline"]
    BY <1>13, <2>1, Zenon DEF SuspendAcquire, claim_notification
  <2>3. Proceeds(w, "resume", "notified_inline") /\ OneStep(w, "resume", "notified_inline")
    BY <2>1, <2>2, Zenon DEF Proceeds, OneStep
  <2> QED BY <1>4, <2>1, <2>3, Zenon
<1>14. ASSUME NEW n \in 1..MaxReleased, release(n) PROVE Kept
  <2>1. /\ UNCHANGED <<cancellable, cancelling, scheduled, pc>>
        /\ released' = released + n /\ released + n <= MaxReleased
        /\ count + Cardinality(grant_pending) + n <= MaxCount
    BY <1>14, Zenon DEF release
  <2>2. n \in Nat \ {0} /\ MaxReleased \in Nat
    BY DEF Counts
  <2>3. PICK rest, pending, wk : rest = count /\ pending = grant_pending /\ wk = wake
    BY Zenon
  <2>4. claim_waiters(n, rest, pending, wk)
    BY <1>14, <2>3, Zenon DEF release
  <2>5. PICK granted, left : Grants(n, rest, pending, wk, queue, granted, left)
    BY <1>0, <1>1, <2>2, <2>4, ClaimGrants, ZenonT(30)
  <2>6. Selects(queue, granted, wk)
    BY <1>2, <2>1, <2>3, <2>5, ZenonT(30) DEF Grants, Selects
  <2>7. pending = {v \in grant_pending : pc'[v] # "destroyed"}
    BY <1>1, <2>1, <2>3, Zenon DEF PermitsOK, Granted
  <2>8. rest + n + Cardinality(pending) <= MaxCount /\ released' \in 0..MaxReleased
    <3>1. Cardinality(grant_pending) \in Nat /\ released \in Nat
      BY <1>1, CardinalityType DEF PermitsOK
    <3> QED BY <1>2, <2>1, <2>2, <2>3, <3>1, SMTT(30)
  <2>9. rest > 0 => \A i \in 1..Len(queue) : was_cancelled(wake[queue[i]])
    BY <1>1, <2>3, ZenonT(30) DEF NoneStranded
  <2>10. Good(left)' /\ PermitsOK' /\ NoneStranded(left)'
    BY <1>1, <1>2, <2>2, <2>3, <2>5, <2>6, <2>7, <2>8, <2>9, GrantKeeps, ZenonT(30)
  <2>11. PoolStep
    <3>1. PICK lost : lost = {}
      BY Zenon
    <3>2. IsFiniteSet(lost) /\ Cardinality(lost) = 0
      BY <3>1, EmptySet, ZenonT(30)
    <3>3. lost \subseteq grant_pending /\ pending = grant_pending \ lost
      BY <2>3, <3>1, Zenon
    <3>4. \A v \in lost : pc'[v] = "destroyed"
      BY <3>1, Zenon
    <3>5. \A v \in Waiters : pc'[v] = "destroyed" => ~Owns(v) \/ v \in lost
      BY <1>1, <2>1, Zenon DEF Owns, PermitsOK, Granted
    <3>6. /\ released' >= released
          /\ rest + n = count + (released' - released) + Cardinality(lost)
      <4>1. released \in Nat
        BY <1>1 DEF PermitsOK
      <4> QED BY <1>2, <2>1, <2>2, <2>3, <3>2, <4>1, SMTT(30)
    <3> QED BY <1>1, <1>2, <2>2, <2>3, <2>5, <2>6, <2>10, <3>2, <3>3, <3>4, <3>5, <3>6, PoolGrant, ZenonT(30)
  <2>12. queue2 = left
    BY <1>0, <2>5, ZenonT(30) DEF Grants
  <2> QED BY <2>10, <2>11, <2>12, Zenon
<1>15. ASSUME NEW w \in Waiters, SuspendRecover(w) PROVE Kept
  <2>1. /\ UNCHANGED <<cancellable, cancelling, scheduled, released>>
        /\ pc[w] = "suspend" /\ pc' = [pc EXCEPT ![w] = "resume"]
        /\ w \in cancellable /\ ~was_cancelled(wake[w]) /\ count > 0
    BY <1>15, Zenon DEF SuspendRecover
  <2>2. PICK rest, pending, wk :
           /\ rest = count - 1 /\ pending = grant_pending
           /\ wk = [wake EXCEPT ![w] = "cancelled_inline"]
    BY Zenon
  <2>3. claim_waiters(1, rest, pending, wk) /\ rest \in Nat
    BY <1>2, <1>15, <2>1, <2>2 DEF SuspendRecover
  <2>4. PICK granted, left : Grants(1, rest, pending, wk, queue, granted, left)
    BY <1>0, <1>1, <2>3, ClaimGrants, Zenon
  <2>5. Selects(queue, granted, wk)
    <3>1. /\ to_schedule' = to_schedule \cup granted
          /\ wake' = [v \in Waiters |-> IF v \in granted THEN claim(v) ELSE wk[v]]
      BY <2>4, Zenon DEF Grants
    <3>2. wk \in [Waiters -> WakeStates] /\ pc' \in [Waiters -> Locations]
      BY <1>2, <2>1, <2>2, Zenon DEF WakeStates, Locations
    <3>3. ASSUME NEW v \in Waiters
          PROVE  \/ pc'[v] = pc[v] /\ wk[v] = wake[v]
                 \/ /\ pc[v] = "suspend" /\ pc'[v] = "resume" /\ v \in cancellable
                    /\ ~was_cancelled(wake[v]) /\ wk[v] = "cancelled_inline"
      BY <1>2, <2>1, <2>2, Zenon
    <3> QED BY <2>1, <3>1, <3>2, <3>3, Zenon DEF Selects
  <2>6. pending = {v \in grant_pending : pc'[v] # "destroyed"}
    BY <1>1, <1>2, <2>1, <2>2, Zenon DEF PermitsOK, Granted
  <2>7. rest + 1 + Cardinality(pending) <= MaxCount /\ released' \in 0..MaxReleased
    <3>1. Cardinality(grant_pending) \in Nat
      BY <1>1, CardinalityType, Zenon DEF PermitsOK
    <3> QED BY <1>1, <1>2, <2>1, <2>2, <3>1, SMTT(30) DEF PermitsOK
  <2>8. rest > 0 => \A i \in 1..Len(queue) : was_cancelled(wake[queue[i]])
    BY <1>1, <2>1, Zenon DEF NoneStranded
  <2>9. Good(left)' /\ PermitsOK' /\ NoneStranded(left)'
    BY <1>1, <1>2, <2>3, <2>4, <2>5, <2>6, <2>7, <2>8, GrantKeeps, SMTT(30)
  <2>10. PoolStep
    <3>1. PICK lost : lost = {}
      BY Zenon
    <3>2. IsFiniteSet(lost) /\ Cardinality(lost) = 0
      BY <3>1, EmptySet, Zenon
    <3>3. lost \subseteq grant_pending /\ pending = grant_pending \ lost
      BY <2>2, <3>1, Zenon
    <3>4. \A v \in lost : pc'[v] = "destroyed"
      BY <3>1, Zenon
    <3>5. \A v \in Waiters : pc'[v] = "destroyed" => ~Owns(v) \/ v \in lost
      BY <1>1, <1>2, <2>1, Zenon DEF Owns, PermitsOK, Granted
    <3>6. /\ released' >= released
          /\ rest + 1 = count + (released' - released) + Cardinality(lost)
      <4>1. released \in Nat
        BY <1>1 DEF PermitsOK
      <4> QED BY <1>2, <2>1, <2>2, <3>2, <4>1, SMTT(30)
    <3> QED BY <1>1, <1>2, <2>3, <2>4, <2>5, <2>9, <3>2, <3>3, <3>4, <3>5, <3>6, PoolGrant, Zenon
  <2>11. queue2 = left
    BY <1>0, <2>4, Zenon DEF Grants
  <2> QED BY <2>9, <2>10, <2>11, ZenonT(30)
<1>16. ASSUME NEW w \in Waiters, Dispatch(w) PROVE Kept
  <2>1. Good(queue)' /\ queue2 = queue /\ UNCHANGED <<count, released, grant_pending, pc>>
    BY <1>0, <1>1, <1>16, ScheduleSelectedInv, ZenonT(30) DEF Dispatch, permits, ScheduleSelected
  <2>2. /\ w \in to_schedule /\ to_schedule' = to_schedule \ {w}
        /\ wake' = [wake EXCEPT ![w] = schedule_selected(wake[w])]
    BY <1>16, Zenon DEF Dispatch, ScheduleSelected
  <2>3. Granted(w)' <=> Granted(w)
    BY <1>1, <1>2, <2>1, <2>2 DEF Granted, schedule_selected, Good, WaiterInv, SelectedInv,
                                  LocationInv
  <2>4. wake'[w] # "blocked"
    BY <1>1, <1>2, <2>2, Zenon DEF PermitsOK, schedule_selected
  <2>5. ASSUME NEW v \in Waiters \ {w} PROVE wake'[v] = wake[v] /\ (Granted(v)' <=> Granted(v))
    BY <1>2, <2>1, <2>2, Zenon DEF Granted
  <2>6. PermitsOK'
    <3>1. ASSUME NEW v \in Waiters
          PROVE  wake'[v] # "blocked" /\ (v \in grant_pending' <=> Granted(v)')
      BY <1>1, <2>1, <2>3, <2>4, <2>5, Zenon DEF PermitsOK
    <3> QED BY <1>1, <2>1, <3>1, Zenon DEF PermitsOK
  <2>7. NoneStranded(queue)'
    <3>1. ~is_linked(queue, w)
      BY <1>1, <2>2, Zenon DEF Good, WaiterInv, QueueInv, is_linked
    <3> QED BY <1>1, <2>1, <2>2, <3>1, StrandedKept, Zenon
  <2>8. Owns(w)' <=> Owns(w)
    <3>1. pc[w] = "resume" => wake[w] = "notified_inline"
      BY <1>1, <2>2, Zenon DEF Good, WaiterInv, SelectedInv, LocationInv
    <3>2. pc[w] = "resume" => wake'[w] = wake[w]
      BY <1>2, <2>2, <3>1, Zenon DEF schedule_selected
    <3> QED BY <2>1, <3>2, Zenon DEF Owns
  <2>9. \A v \in Waiters : Owns(v)' <=> Owns(v)
    BY <2>1, <2>5, <2>8, Zenon DEF Owns
  <2> QED BY <2>1, <2>6, <2>7, <2>9, PoolQuiet, ZenonT(30)
<1>17. ASSUME NEW w \in Waiters, Cancel(w) PROVE Kept
  <2>1. /\ Good(queue)' /\ queue2 = queue
        /\ UNCHANGED <<count, released, grant_pending, pc, to_schedule>>
    BY <1>0, <1>1, <1>17, RequestCancelInv, Zenon DEF Cancel, permits, RequestCancel
  <2>2. PICK s : s = request_cancel(wake[w])
    BY Zenon
  <2>3. /\ w \in cancellable /\ wake[w] \in {"idle", "blocked", "waiting"}
        /\ wake' = [wake EXCEPT ![w] = s]
        /\ s \in {"cancelled_inline", "cancellation_claimed"}
        /\ s = "cancelled_inline" <=> wake[w] # "waiting"
        /\ pc[w] # "completed"
    BY <1>17, <2>2, Zenon DEF Cancel, RequestCancel, request_cancel
  <2>4. ~Granted(w) /\ ~Owns(w) /\ ~Granted(w)' /\ ~Owns(w)'
    BY <1>1, <1>2, <2>1, <2>3, SMTT(30) DEF Granted, Owns, Good, WaiterInv, SelectedInv, LocationInv,
                                  PermitsOK, was_cancelled
  <2>5. ASSUME NEW v \in Waiters \ {w}
        PROVE  /\ wake'[v] = wake[v] /\ (Granted(v)' <=> Granted(v))
               /\ Owns(v)' <=> Owns(v)
    BY <1>2, <2>1, <2>3, Zenon DEF Granted, Owns
  <2>6. PermitsOK'
    <3>1. ASSUME NEW v \in Waiters
          PROVE  wake'[v] # "blocked" /\ (v \in grant_pending' <=> Granted(v)')
      BY <1>1, <1>2, <2>1, <2>3, <2>4, <2>5, Zenon DEF PermitsOK
    <3> QED BY <1>1, <2>1, <3>1, Zenon DEF PermitsOK
  <2>7. NoneStranded(queue)'
    <3>1. was_cancelled(s)
      BY <2>3, Zenon DEF was_cancelled
    <3> QED BY <1>1, <2>1, <2>3, <3>1, StrandedKept, Zenon
  <2>8. \A v \in Waiters : Owns(v)' <=> Owns(v)
    BY <2>4, <2>5, Zenon
  <2> QED BY <2>1, <2>6, <2>7, <2>8, PoolQuiet, Zenon
<1>18. ASSUME NEW w \in Waiters, CancelSchedule(w) PROVE Kept
  <2>1. /\ Good(queue)' /\ queue2 = queue
        /\ UNCHANGED <<count, released, grant_pending, pc, to_schedule>>
    BY <1>0, <1>1, <1>18, ScheduleClaimedInv, Zenon DEF CancelSchedule, permits, ScheduleClaimed
  <2>2. wake[w] = "cancellation_claimed" /\ pc[w] = "suspended"
    BY <1>1, <1>18, Zenon DEF CancelSchedule, ScheduleClaimed, Good, WaiterInv, SelectedInv
  <2>3. wake' = [wake EXCEPT ![w] = "cancellation_scheduling"]
    BY <1>18, <2>2, Zenon DEF CancelSchedule, ScheduleClaimed, schedule_claimed
  <2>4. ~Granted(w) /\ ~Owns(w) /\ ~Granted(w)' /\ ~Owns(w)'
    BY <1>1, <1>2, <2>1, <2>2, <2>3, Zenon DEF Granted, Owns, PermitsOK
  <2>5. ASSUME NEW v \in Waiters \ {w}
        PROVE  /\ wake'[v] = wake[v] /\ (Granted(v)' <=> Granted(v))
               /\ Owns(v)' <=> Owns(v)
    BY <1>2, <2>1, <2>3, Zenon DEF Granted, Owns
  <2>6. PermitsOK'
    <3>1. ASSUME NEW v \in Waiters
          PROVE  wake'[v] # "blocked" /\ (v \in grant_pending' <=> Granted(v)')
      BY <1>1, <1>2, <2>1, <2>3, <2>4, <2>5, Zenon DEF PermitsOK
    <3> QED BY <1>1, <2>1, <3>1 DEF PermitsOK
  <2>7. NoneStranded(queue)'
    <3>1. was_cancelled("cancellation_scheduling")
      BY Zenon DEF was_cancelled
    <3> QED BY <1>1, <2>1, <2>3, <3>1, StrandedKept, ZenonT(30)
  <2>8. \A v \in Waiters : Owns(v)' <=> Owns(v)
    BY <2>4, <2>5
  <2> QED BY <2>1, <2>6, <2>7, <2>8, PoolQuiet
<1>19. ASSUME NEW w \in Waiters, Resume(w) PROVE Kept
  <2>1. /\ Good(queue)' /\ queue2 = queue
        /\ UNCHANGED <<count, released, grant_pending, wake, to_schedule>>
        /\ pc[w] = "suspended" /\ pc' = [pc EXCEPT ![w] = "resume"] /\ scheduled[w] > 0
    BY <1>0, <1>1, <1>19, ResumeHandleInv, ZenonT(30) DEF Resume, permits, ResumeHandle
  <2>2. wake[w] \in {"notification_scheduling", "cancellation_scheduling"}
    BY <1>1, <2>1, Zenon DEF Good, WaiterInv, SelectedInv, scheduling
  <2>3. /\ Granted(w)' <=> Granted(w)
        /\ Owns(w)' <=> Owns(w)
    BY <1>1, <1>2, <2>1, <2>2, Zenon DEF Granted, Owns, PermitsOK, was_cancelled
  <2>4. ASSUME NEW v \in Waiters \ {w}
        PROVE  (Granted(v)' <=> Granted(v)) /\ (Owns(v)' <=> Owns(v))
    BY <1>2, <2>1, Zenon DEF Granted, Owns
  <2>5. PermitsOK'
    <3>1. ASSUME NEW v \in Waiters
          PROVE  wake'[v] # "blocked" /\ (v \in grant_pending' <=> Granted(v)')
      BY <1>1, <2>1, <2>3, <2>4, Zenon DEF PermitsOK
    <3> QED BY <1>1, <2>1, <3>1, Zenon DEF PermitsOK
  <2>6. NoneStranded(queue)'
    BY <1>1, <2>1, Zenon DEF NoneStranded
  <2>7. \A v \in Waiters : Owns(v)' <=> Owns(v)
    BY <2>3, <2>4, Zenon
  <2> QED BY <2>1, <2>5, <2>6, <2>7, PoolQuiet, ZenonT(30)
<1>20. ASSUME NEW w \in Waiters, AwaitResume(w) PROVE Kept
  <2>1. /\ pc[w] = "resume" /\ w \notin cancelling
        /\ UNCHANGED <<count, cancellable, wake, to_schedule, cancelling, scheduled, released>>
        /\ wake[w] \notin {"blocked", "waiting"}
    BY <1>1, <1>20, Zenon DEF AwaitResume, Unregistered, Good, WaiterInv, LocationInv
  <2>2. PICK to : /\ pc' = [pc EXCEPT ![w] = to]
                  /\ to = IF was_cancelled(wake[w]) THEN "cancelled" ELSE "completed"
    BY <1>20, Zenon DEF AwaitResume
  <2>3. Departs(w, to)
    BY <2>1, <2>2, Zenon DEF Departs
  <2>4. queue2 = remove(queue, w)
    BY <1>0, <1>1, <1>20, <2>1, NotLinked, ZenonT(30) DEF AwaitResume
  <2>5. Good(remove(queue, w))'
    BY <1>1, <2>3, DepartInv, Zenon
  <2>6. NoneStranded(remove(queue, w))'
    <3>1. wake' = [wake EXCEPT ![w] = wake[w]]
      BY <1>2, <2>1, ZenonT(30)
    <3> QED BY <1>1, <2>1, <3>1, StrandedRemoved, ZenonT(30)
  <2>7. grant_pending' = grant_pending \ {w}
    BY <1>1, <1>20, <2>1, ZenonT(30) DEF AwaitResume, PermitsOK, Granted, was_cancelled
  <2>8. ASSUME NEW v \in Waiters
        PROVE  /\ v \in grant_pending' <=> Granted(v)'
               /\ Owns(v)' <=> Owns(v)
    <3>1. CASE v = w
      BY <1>1, <1>2, <2>1, <2>2, <2>7, <3>1, ZenonT(30) DEF Granted, Owns, PermitsOK, was_cancelled
    <3>2. CASE v # w
      BY <1>1, <1>2, <2>1, <2>2, <2>7, <3>2, ZenonT(30) DEF Granted, Owns, PermitsOK
    <3> QED BY <3>1, <3>2, ZenonT(30)
  <2>9. PermitsOK'
    <3>1. /\ IsFiniteSet(grant_pending \ {w}) /\ Cardinality(grant_pending) \in Nat
          /\ Cardinality(grant_pending \ {w}) \in Nat
          /\ Cardinality(grant_pending \ {w}) <= Cardinality(grant_pending)
      BY <1>1, Subset, CardinalityType, Zenon DEF PermitsOK
    <3>2. IsFiniteSet(grant_pending') /\ count' + Cardinality(grant_pending') <= MaxCount
      BY <1>1, <1>2, <2>1, <2>7, <3>1, SMTT(30) DEF PermitsOK
    <3> QED BY <1>1, <2>1, <2>7, <2>8, <3>2, ZenonT(30) DEF PermitsOK
  <2> QED BY <2>1, <2>4, <2>5, <2>6, <2>8, <2>9, PoolQuiet, ZenonT(30)
<1>21. ASSUME NEW w \in Waiters, Destroy(w), w \notin grant_pending PROVE Kept
  <2>1. /\ MayBeDestroyed(w) /\ pc[w] = "suspended" /\ pc' = [pc EXCEPT ![w] = "destroyed"]
        /\ wake' = [wake EXCEPT ![w] = abandon(wake[w])]
        /\ queue2 = remove(queue, w) /\ count' = count
        /\ UNCHANGED <<grant_pending, cancellable, to_schedule, cancelling, scheduled, released>>
    BY <1>0, <1>21, Zenon DEF Destroy
  <2>2. abandon(wake[w]) = "abandoned"
    BY <2>1, Zenon DEF MayBeDestroyed, abandon
  <2>3. Destroys(w)
    BY <2>1, Zenon DEF Destroys
  <2>4. Good(remove(queue, w))'
    BY <1>1, <2>3, DestroyFrameInv, Zenon
  <2>5. NoneStranded(remove(queue, w))'
    BY <1>1, <2>1, StrandedRemoved, Zenon
  <2>6. OneStep(w, "destroyed", "abandoned")
    BY <2>1, <2>2, Zenon DEF OneStep
  <2>7. ~Granted(w) /\ ~Owns(w) /\ ~Granted(w)' /\ ~Owns(w)'
    BY <1>1, <1>2, <1>21, <2>1, Zenon DEF Granted, Owns, PermitsOK
  <2>8. PermitsOK' /\ PoolStep
    BY <1>1, <1>2, <2>1, <2>6, <2>7, QuietStep, Zenon
  <2> QED BY <2>1, <2>4, <2>5, <2>8, Zenon
<1>22. ASSUME NEW w \in Waiters, Destroy(w), w \in grant_pending PROVE Kept
  <2>1. /\ UNCHANGED <<cancellable, cancelling, scheduled, released>>
        /\ MayBeDestroyed(w) /\ pc[w] = "suspended" /\ pc' = [pc EXCEPT ![w] = "destroyed"]
    BY <1>22, Zenon DEF Destroy
  <2>2. PICK rest, pending, wk :
           /\ rest = count /\ pending = grant_pending \ {w}
           /\ wk = [wake EXCEPT ![w] = abandon(wake[w])]
    BY Zenon
  <2>3. claim_waiters(1, rest, pending, wk) /\ rest \in Nat
    BY <1>2, <1>22, <2>2, Zenon DEF Destroy
  <2>4. PICK granted, left : Grants(1, rest, pending, wk, queue, granted, left)
    BY <1>0, <1>1, <2>3, ClaimGrants
  <2>5. Selects(queue, granted, wk)
    <3>1. /\ to_schedule' = to_schedule \cup granted
          /\ wake' = [v \in Waiters |-> IF v \in granted THEN claim(v) ELSE wk[v]]
      BY <2>4 DEF Grants
    <3>2. abandon(wake[w]) = "abandoned"
      BY <2>1, Zenon DEF MayBeDestroyed, abandon
    <3>3. wk \in [Waiters -> WakeStates] /\ pc' \in [Waiters -> Locations]
      BY <1>2, <2>1, <2>2, <3>2, Zenon DEF WakeStates, Locations
    <3>4. ~is_linked(queue, w)
      BY <1>1, <1>22, Zenon DEF PermitsOK, Granted, Good, WaiterInv, QueueInv, is_linked, was_cancelled
    <3>5. ASSUME NEW v \in Waiters
          PROVE  \/ pc'[v] = pc[v] /\ wk[v] = wake[v]
                 \/ /\ MayBeDestroyed(v) /\ ~is_linked(queue, v)
                    /\ pc'[v] = "destroyed" /\ wk[v] = "abandoned"
      BY <1>2, <2>1, <2>2, <3>2, <3>4, ZenonT(30)
    <3> QED BY <2>1, <3>1, <3>3, <3>5, Zenon DEF Selects
  <2>6. pending = {v \in grant_pending : pc'[v] # "destroyed"}
    <3>1. \A v \in grant_pending : v \in Waiters /\ pc[v] # "destroyed"
      BY <1>1, Zenon DEF PermitsOK, Granted
    <3> QED BY <1>2, <2>1, <2>2, <3>1, ZenonT(30)
  <2>7. rest + 1 + Cardinality(pending) <= MaxCount /\ released' \in 0..MaxReleased
    <3>1. /\ Cardinality(grant_pending) \in Nat
          /\ Cardinality(grant_pending \ {w}) = Cardinality(grant_pending) - 1
      BY <1>1, <1>22, CardinalityType, RemoveElement, ZenonT(30) DEF PermitsOK
    <3> QED BY <1>1, <1>2, <2>1, <2>2, <3>1, SMTT(30) DEF PermitsOK
  <2>8. rest > 0 => \A i \in 1..Len(queue) : was_cancelled(wake[queue[i]])
    BY <1>1, <2>2, ZenonT(30) DEF NoneStranded
  <2>9. Good(left)' /\ PermitsOK' /\ NoneStranded(left)'
    BY <1>1, <1>2, <2>3, <2>4, <2>5, <2>6, <2>7, <2>8, GrantKeeps
  <2>10. PoolStep
    <3>1. PICK lost : lost = {w}
      BY Zenon
    <3>2. IsFiniteSet(lost) /\ Cardinality(lost) = 1
      BY <3>1, Singleton, Zenon
    <3>3. lost \subseteq grant_pending /\ pending = grant_pending \ lost
      BY <1>22, <2>2, <3>1, Zenon
    <3>4. \A v \in lost : pc'[v] = "destroyed"
      BY <1>2, <2>1, <3>1, Zenon
    <3>5. \A v \in Waiters : pc'[v] = "destroyed" => ~Owns(v) \/ v \in lost
      BY <1>1, <1>2, <2>1, <3>1, ZenonT(30) DEF Owns, PermitsOK, Granted
    <3>6. /\ released' >= released
          /\ rest + 1 = count + (released' - released) + Cardinality(lost)
      <4>1. released \in Nat
        BY <1>1 DEF PermitsOK
      <4> QED BY <1>2, <2>1, <2>2, <3>2, <4>1, SMTT(30)
    <3> QED BY <1>1, <1>2, <2>3, <2>4, <2>5, <2>9, <3>2, <3>3, <3>4, <3>5, <3>6, PoolGrant, ZenonT(30)
  <2>11. queue2 = left
    BY <1>0, <2>4 DEF Grants
  <2> QED BY <2>9, <2>10, <2>11
<1>23. CASE UNCHANGED vars
  <2>1. /\ UNCHANGED waiterVars /\ queue2 = queue
        /\ UNCHANGED <<count, grant_pending, released, pc, wake, to_schedule>>
    BY <1>0, <1>23, Zenon DEF vars, permits, waiterVars
  <2>2. Good(queue)'
    BY <1>1, <2>1, WaiterStutter, Zenon
  <2>3. PermitsOK' /\ NoneStranded(queue)'
    BY <1>1, <2>1, Zenon DEF PermitsOK, Granted, NoneStranded
  <2>4. \A v \in Waiters : Owns(v)' <=> Owns(v)
    BY <2>1, Zenon DEF Owns
  <2> QED BY <2>1, <2>2, <2>3, <2>4, PoolQuiet, ZenonT(30)
<1>24. ASSUME NEW w \in Waiters, try_acquire(w) \/ AwaitReady(w) PROVE Kept
  BY <1>6, <1>24, Zenon DEF try_acquire, AwaitReady
<1> QED
  BY Zenon, <1>5, <1>7, <1>8, <1>10, <1>11, <1>12, <1>13, <1>14, <1>15, <1>16, <1>17, <1>18,
     <1>19, <1>20, <1>21, <1>22, <1>23, <1>24
  DEF Next, Run

(* The invariant implies what is claimed of a semaphore: whoever release()  *)
(* pops is woken and nobody else, no waiter is left behind beside an        *)
(* available permit, and count_ never overflows.                            *)
LEMMA Safe == Counts /\ IndInv => WakesAreExact /\ NoStrandedWaiter /\ NoOverflow
<1> SUFFICES ASSUME Counts, IndInv PROVE WakesAreExact /\ NoStrandedWaiter /\ NoOverflow
  BY Zenon
<1>1. PICK queue : queue = waiters
  BY Zenon
<1>2. Good(queue)
  BY <1>1, Parts, Zenon
<1>3. WakeIsComing(queue) /\ OnlyLivingFrames(queue)
  BY <1>2, GoodWakes, Zenon
<1>4. NoOverflow
  BY DEF IndInv, TypeOK, NoOverflow, Counts
<1> QED BY <1>1, <1>3, <1>4, Zenon DEF WakesAreExact, IndInv

(* At first every permit is in the pool. *)
LEMMA PoolInit == Init => Pool!Init
  BY Zenon DEF Init, WaiterInit, Pool!Init, Owners, Owns

=============================================================================
