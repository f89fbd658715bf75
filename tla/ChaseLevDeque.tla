--------------------------- MODULE ChaseLevDeque ---------------------------
(***************************************************************************)
(* runtime::chase_lev_deque, one atomic access of the code to a step, in   *)
(* the order the seq_cst fences enforce.  The owner pushes the items 1, 2, *)
(* ... and pops, thieves steal.  Buffers are numbered in the order they    *)
(* are allocated; each has twice the slots of the one before.              *)
(***************************************************************************)
EXTENDS Naturals, FiniteSets, Sequences

CONSTANTS Thieves,
          InitialCapacity,   \* slots of the first buffer, a power of two
          MaxItems           \* how many items are pushed (bound)

ASSUME DequeAssumption ==
    /\ IsFiniteSet(Thieves)
    /\ InitialCapacity \in Nat \ {0, 1}
    /\ MaxItems \in Nat

VARIABLES
    top, bottom,       \* top_, bottom_
    buffer,            \* buffer_: the number of the current buffer
    slots,             \* the contents of every buffer that was allocated
    old_buffers,       \* old_buffers_
    freed,             \* the buffers that were deleted
    active_thieves,    \* active_thieves_
    pushed,            \* how many items the owner has begun to push
    owner,             \* the owner's pc and its locals b and t
    thief,             \* a thief's pc and its locals t, b, buf and item
    taken              \* how often each item was popped or stolen

memory == <<buffer, slots, old_buffers, freed>>
vars == <<top, bottom, memory, active_thieves, pushed, owner, thief, taken>>

None == 0
Items == 1..MaxItems
SlotsOf(k) == InitialCapacity * 2^(k - 1)
Load(k, pos) == slots[k][pos % SlotsOf(k)]
Taken(x) == [taken EXCEPT ![x] = @ + 1]
Empty(k) == [i \in 0..(SlotsOf(k) - 1) |-> None]

Init ==
    /\ top = 0
    /\ bottom = 0
    /\ buffer = 1
    /\ slots = <<Empty(1)>>
    /\ old_buffers = {}
    /\ freed = {}
    /\ active_thieves = 0
    /\ pushed = 0
    /\ owner = [pc |-> "idle", b |-> 0, t |-> 0]
    /\ thief = [h \in Thieves |-> [pc |-> "idle", t |-> 0, b |-> 0, buf |-> 1, item |-> None]]
    /\ taken = [x \in Items |-> 0]

OwnerAt(from) == owner.pc = from
OwnerTo(to) == owner' = [owner EXCEPT !.pc = to]

-----------------------------------------------------------------------------
(* push(): load both ends; a full buffer is replaced first. *)
PushBegin ==
    /\ OwnerAt("idle")
    /\ pushed < MaxItems
    /\ pushed' = pushed + 1
    /\ owner' = [pc |-> IF bottom - top >= SlotsOf(buffer) - 1 THEN "grow" ELSE "store",
                 b |-> bottom, t |-> top]
    /\ UNCHANGED <<top, bottom, memory, active_thieves, thief, taken>>

(* resize(): copy what is between t and b and publish the new buffer. *)
Grow ==
    LET new == Len(slots) + 1
        copied == {pos % SlotsOf(new) : pos \in owner.t..(owner.b - 1)}
    IN  /\ OwnerAt("grow")
        /\ slots' = Append(slots, [i \in 0..(SlotsOf(new) - 1) |->
                        IF i \in copied
                        THEN Load(buffer, CHOOSE pos \in owner.t..(owner.b - 1) :
                                              pos % SlotsOf(new) = i)
                        ELSE None])
        /\ buffer' = new
        /\ old_buffers' = old_buffers \cup {buffer}
        /\ OwnerTo("reclaim")
        /\ UNCHANGED <<top, bottom, freed, active_thieves, pushed, thief, taken>>

(* Mutant of Reclaim: old buffers are deleted at once. *)
MutReclaim ==
    /\ OwnerAt("reclaim")
    /\ freed' = freed \cup old_buffers
    /\ old_buffers' = {}
    /\ OwnerTo("store")
    /\ UNCHANGED <<top, bottom, buffer, slots, active_thieves, pushed, thief, taken>>

(* Old buffers are deleted when no thief is inside steal(). *)
Reclaim ==
    /\ OwnerAt("reclaim")
    /\ freed' = IF active_thieves = 0 THEN freed \cup old_buffers ELSE freed
    /\ old_buffers' = IF active_thieves = 0 THEN {} ELSE old_buffers
    /\ OwnerTo("store")
    /\ UNCHANGED <<top, bottom, buffer, slots, active_thieves, pushed, thief, taken>>

Store ==
    /\ OwnerAt("store")
    /\ slots' = [slots EXCEPT ![buffer][owner.b % SlotsOf(buffer)] = pushed]
    /\ OwnerTo("publish")
    /\ UNCHANGED <<top, bottom, buffer, old_buffers, freed, active_thieves, pushed,
                   thief, taken>>

PushEnd ==
    /\ OwnerAt("publish")
    /\ bottom' = owner.b + 1
    /\ OwnerTo("idle")
    /\ UNCHANGED <<top, memory, active_thieves, pushed, thief, taken>>

-----------------------------------------------------------------------------
(* pop(): reserve the last position ... *)
PopBegin ==
    /\ OwnerAt("idle")
    /\ bottom # 0
    /\ bottom' = bottom - 1
    /\ owner' = [owner EXCEPT !.pc = "top", !.b = bottom - 1]
    /\ UNCHANGED <<top, memory, active_thieves, pushed, thief, taken>>

(* ... then load top_: the item is ours, or contended, or there is none. *)
PopTop ==
    /\ OwnerAt("top")
    /\ owner' = [owner EXCEPT !.t = top,
                              !.pc = IF top < owner.b THEN "idle"
                                     ELSE IF top = owner.b THEN "last" ELSE "restore"]
    /\ taken' = IF top < owner.b THEN Taken(Load(buffer, owner.b)) ELSE taken
    /\ UNCHANGED <<top, bottom, memory, active_thieves, pushed, thief>>

(* Mutant of PopLast: the owner does not race for the last item. *)
MutPopLast ==
    /\ OwnerAt("last")
    /\ top' = owner.t + 1
    /\ taken' = Taken(Load(buffer, owner.b))
    /\ OwnerTo("restore")
    /\ UNCHANGED <<bottom, memory, active_thieves, pushed, thief>>

(* The last item goes to whoever advances top_. *)
PopLast ==
    /\ OwnerAt("last")
    /\ IF top = owner.t
       THEN top' = top + 1 /\ taken' = Taken(Load(buffer, owner.b))
       ELSE UNCHANGED <<top, taken>>
    /\ OwnerTo("restore")
    /\ UNCHANGED <<bottom, memory, active_thieves, pushed, thief>>

PopEnd ==
    /\ OwnerAt("restore")
    /\ bottom' = owner.b + 1
    /\ OwnerTo("idle")
    /\ UNCHANGED <<top, memory, active_thieves, pushed, thief, taken>>

(* The destructor waits for the thieves that are inside steal(). *)
Destroy ==
    /\ OwnerAt("idle") /\ pushed = MaxItems
    /\ active_thieves = 0
    /\ freed' = freed \cup old_buffers \cup {buffer}
    /\ old_buffers' = {}
    /\ OwnerTo("gone")
    /\ UNCHANGED <<top, bottom, buffer, slots, active_thieves, pushed, thief, taken>>

-----------------------------------------------------------------------------
ThiefStep(h, from, to) == thief[h].pc = from /\ thief' = [thief EXCEPT ![h] = to]

(* steal(): announce, load top_, bottom_, the buffer and the item. *)
StealBegin(h) ==
    /\ ~OwnerAt("gone")
    /\ ThiefStep(h, "idle", [thief[h] EXCEPT !.pc = "top"])
    /\ active_thieves' = active_thieves + 1
    /\ UNCHANGED <<top, bottom, memory, pushed, owner, taken>>

StealTop(h) ==
    /\ ThiefStep(h, "top", [thief[h] EXCEPT !.pc = "bottom", !.t = top])
    /\ UNCHANGED <<top, bottom, memory, active_thieves, pushed, owner, taken>>

StealBottom(h) ==
    /\ ThiefStep(h, "bottom", [thief[h] EXCEPT !.b = bottom,
                    !.pc = IF thief[h].t < bottom THEN "buffer" ELSE "leave"])
    /\ UNCHANGED <<top, bottom, memory, active_thieves, pushed, owner, taken>>

StealBuffer(h) ==
    /\ ThiefStep(h, "buffer", [thief[h] EXCEPT !.pc = "item", !.buf = buffer])
    /\ UNCHANGED <<top, bottom, memory, active_thieves, pushed, owner, taken>>

StealItem(h) ==
    /\ ThiefStep(h, "item", [thief[h] EXCEPT !.pc = "exchange",
                                             !.item = Load(thief[h].buf, thief[h].t)])
    /\ UNCHANGED <<top, bottom, memory, active_thieves, pushed, owner, taken>>

(* The item is ours if top_ has not moved. *)
StealExchange(h) ==
    /\ ThiefStep(h, "exchange", [thief[h] EXCEPT !.pc = "leave"])
    /\ IF top = thief[h].t
       THEN top' = top + 1 /\ taken' = Taken(thief[h].item)
       ELSE UNCHANGED <<top, taken>>
    /\ UNCHANGED <<bottom, memory, active_thieves, pushed, owner>>

StealEnd(h) ==
    /\ ThiefStep(h, "leave", [pc |-> "idle", t |-> 0, b |-> 0, buf |-> 1, item |-> None])
    /\ active_thieves' = active_thieves - 1
    /\ UNCHANGED <<top, bottom, memory, pushed, owner, taken>>

push == PushBegin \/ Grow \/ Reclaim \/ Store \/ PushEnd
pop  == PopBegin \/ PopTop \/ PopLast \/ PopEnd

steal(h) ==
    \/ StealBegin(h) \/ StealTop(h) \/ StealBottom(h) \/ StealBuffer(h)
    \/ StealItem(h) \/ StealExchange(h) \/ StealEnd(h)

Next == push \/ pop \/ Destroy \/ \E h \in Thieves : steal(h)

Spec == Init /\ [][Next]_vars

-----------------------------------------------------------------------------
(* The items in the deque: while the owner has reserved the last position   *)
(* and not yet seen top_, that item is still there.                         *)
content ==
    LET end == IF owner.pc \in {"top", "last"} THEN owner.b + 1 ELSE bottom
    IN  [i \in 1..(IF end > top THEN end - top ELSE 0) |-> Load(buffer, top + i - 1)]

WorkStealing == INSTANCE Deque

(* The deque is a deque: whatever the interleaving of the owner and the     *)
(* thieves, every item leaves once, at the right end.                       *)
ImplementsDeque == WorkStealing!Spec

(* A buffer is current, retired or deleted, and only the destructor deletes *)
(* the current one.  A thief that is about to read a buffer reads the        *)
(* current one or one that is retired, and none is left after destruction.  *)
MemoryInv ==
    /\ buffer \in Nat \ {0}
    /\ slots = [k \in 1..buffer |-> slots[k]]
    /\ old_buffers \cup freed \subseteq 1..buffer
    /\ old_buffers \cap freed = {}
    /\ "pc" \in DOMAIN owner
    /\ owner.pc # "gone" => buffer \notin old_buffers \cup freed
    /\ thief = [h \in Thieves |-> thief[h]]
    /\ \A h \in Thieves :
        /\ {"pc", "t", "b", "buf", "item"} \subseteq DOMAIN thief[h]
        /\ thief[h].pc = "item" => thief[h].buf \in old_buffers \cup {buffer}
        /\ owner.pc = "gone" => thief[h].pc = "idle"
    /\ active_thieves = Cardinality({h \in Thieves : thief[h].pc # "idle"})

(* No thread reads a buffer that was deleted, and every thief inside        *)
(* steal() is counted, so that buffers are not kept for ever either.        *)
NoUseAfterFree ==
    /\ owner.pc # "gone" => buffer \notin freed
    /\ \A h \in Thieves : thief[h].pc = "item" => thief[h].buf \notin freed
    /\ MemoryInv

=============================================================================
