------------------------------- MODULE Deque -------------------------------
(***************************************************************************)
(* What a work-stealing deque promises: the owner adds and takes at the    *)
(* back, thieves take at the front, and every item is taken at most once.  *)
(***************************************************************************)
EXTENDS Naturals, Sequences

CONSTANT Items   \* what can be pushed, each at most once

VARIABLES content,   \* the items in the deque, oldest first
          taken      \* how often each item has been taken

Init == content = <<>> /\ taken = [x \in Items |-> 0]

Push ==
    /\ \E x \in Items :
        /\ taken[x] = 0
        /\ \A i \in 1..Len(content) : content[i] # x
        /\ content' = Append(content, x)
    /\ UNCHANGED taken

Pop ==
    /\ content # <<>>
    /\ content' = SubSeq(content, 1, Len(content) - 1)
    /\ taken' = [taken EXCEPT ![content[Len(content)]] = @ + 1]

Steal ==
    /\ content # <<>>
    /\ content' = Tail(content)
    /\ taken' = [taken EXCEPT ![Head(content)] = @ + 1]

Next == Push \/ Pop \/ Steal

Spec == Init /\ [][Next]_<<content, taken>>

=============================================================================
