------------------------------ MODULE MCMemory ------------------------------
(* Idle, init and a child; regions of five pages, so a heap of two pages;   *)
(* a small program and one with a page more; frames for two small programs. *)
EXTENDS Memory
CONSTANTS idle, init, a
MCProcs == {idle, init, a}
MCPrograms == {[image |-> {0}, top |-> 1, stack_npg |-> 1],
               [image |-> {0, 1}, top |-> 2, stack_npg |-> 1]}
(* A heap of no page; a break inside the page for temporary mappings, so a  *)
(* heap of both; and a break that is refused.                               *)
MCKernelBrks == {[page |-> 1, inside |-> FALSE], [page |-> 3, inside |-> TRUE],
                 [page |-> 4, inside |-> FALSE]}
(* Below region 1; down to its start; a page more than a small program; up  *)
(* to the top; and two pages above it.                                      *)
MCUserBrks == {3, 5, 7, 10, 12}
(* The top of region 1, and low enough to refuse the break above it.        *)
MCUserSps == {6, 9}
=============================================================================
