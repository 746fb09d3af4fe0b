------------------------------- MODULE MCList -------------------------------
(* Two lists and three nodes: a node can leave one list for the other, and *)
(* a list has a first, a middle and a last node.                           *)
EXTENDS List
CONSTANTS l1, l2, n1, n2, n3
MCLists == {l1, l2}
MCNodes == {n1, n2, n3}
=============================================================================
