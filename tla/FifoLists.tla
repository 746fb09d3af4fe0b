------------------------------ MODULE FifoLists ------------------------------
(***************************************************************************)
(* What list.h promises its clients: each list is a sequence of nodes, a   *)
(* node is in at most one list, insert_tail and insert_head add at an end, *)
(* pop and peek answer the first node, list_remove takes a node out of the *)
(* middle and leaves the order of the others alone, clear_list empties.    *)
(* No pointer appears here; List implements this module.                   *)
(***************************************************************************)
EXTENDS SequencesExt, Integers

CONSTANTS Lists, Nodes, NULL

VARIABLES q,    \* the nodes of each list, first to last
          ret   \* what the last operation answered

fifo == <<q, ret>>

Unlinked(n) == \A l \in Lists : ~ Contains(q[l], n)

Init == /\ q = [l \in Lists |-> <<>>]
        /\ ret = NULL

InsertTail(l, n) == /\ Unlinked(n)
                    /\ q' = [q EXCEPT ![l] = Append(@, n)]
                    /\ ret' = NULL

InsertHead(l, n) == /\ Unlinked(n)
                    /\ q' = [q EXCEPT ![l] = Cons(n, @)]
                    /\ ret' = NULL

ListRemove(l, n) == /\ Contains(q[l], n)
                    /\ q' = [q EXCEPT ![l] = RemoveFirst(@, n)]
                    /\ ret' = NULL

RemoveUnlinked(n) == /\ Unlinked(n)
                     /\ q' = q
                     /\ ret' = NULL

Pop(l) == /\ q[l] # <<>>
          /\ q' = [q EXCEPT ![l] = Tail(@)]
          /\ ret' = Head(q[l])

PopEmpty(l) == /\ q[l] = <<>>
               /\ q' = q
               /\ ret' = NULL

Peek(l) == /\ q' = q
           /\ ret' = IF q[l] = <<>> THEN NULL ELSE Head(q[l])

ListContains(l, n) == /\ q' = q
                      /\ ret' = IF Contains(q[l], n) THEN 1 ELSE 0

\* clear_list answers 0, and only once the list is empty.
Cleared(l) == /\ q[l] = <<>>
              /\ q' = q
              /\ ret' = 0

Next == \/ \E l \in Lists :
             \/ Pop(l) \/ PopEmpty(l) \/ Peek(l) \/ Cleared(l)
             \/ \E n \in Nodes : \/ InsertTail(l, n) \/ InsertHead(l, n)
                                 \/ ListRemove(l, n) \/ ListContains(l, n)
        \/ \E n \in Nodes : RemoveUnlinked(n)

Spec == Init /\ [][Next]_fifo
=============================================================================
