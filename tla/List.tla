-------------------------------- MODULE List --------------------------------
(***************************************************************************)
(* list.c: circular doubly linked lists with a sentinel, whose nodes are   *)
(* embedded in the PCBs (queue_node, children_node).  The address of a     *)
(* list's sentinel `head' is written as the list itself.  The kernel runs  *)
(* with interrupts off, so an operation is one step, except clear_list,    *)
(* whose loop takes one step per pop.                                      *)
(*                                                                         *)
(* The clients' discipline is assumed here (pcb.c keeps it with the state  *)
(* field, see Process): a node is inserted only while it is in no list,    *)
(* and removed only from the list it is in, or, after an earlier removal,  *)
(* from none.  q is a history variable: the sequence each list stands for. *)
(***************************************************************************)
EXTENDS SequencesExt, FiniteSets, Integers

CONSTANTS Lists,    \* the lists: the four queues, a PCB's children, wait lists
          Nodes,    \* the embedded list_node_t's
          NULL,     \* the null pointer
          Garbage   \* what malloc left in a node no list has held yet

ASSUME PointersDiffer ==
  /\ Lists \cap Nodes = {}
  /\ NULL \notin Lists \cup Nodes
  /\ Garbage \notin Lists \cup Nodes \cup {NULL}

ASSUME NodesFinite == IsFiniteSet(Nodes)   \* they are in memory

VARIABLES next, prev,  \* list_node_t.next and .prev of nodes and sentinels
          count,       \* list_t.count
          ret,         \* what the last operation answered
          clearing,    \* the list in clear_list's loop, or NULL
          q            \* history: the nodes each list stands for

vars == <<next, prev, count, ret, clearing, q>>

Addr == Lists \cup Nodes

Unlinked(n) == \A l \in Lists : \A i \in 1..Len(q[l]) : q[l][i] # n

list_is_empty(l) == count[l] = 0

(* list_init on every list; the nodes are as malloc returned them. *)
Init == /\ next = [a \in Addr |-> IF a \in Lists THEN a ELSE Garbage]
        /\ prev = [a \in Addr |-> IF a \in Lists THEN a ELSE Garbage]
        /\ count = [l \in Lists |-> 0]
        /\ ret = NULL
        /\ clearing = NULL
        /\ q = [l \in Lists |-> <<>>]

insert_tail(l, n) ==
  /\ clearing = NULL
  /\ Unlinked(n)
  /\ next' = [next EXCEPT ![n] = l, ![prev[l]] = n]
  /\ prev' = [prev EXCEPT ![n] = prev[l], ![l] = n]
  /\ count' = [count EXCEPT ![l] = @ + 1]
  /\ q' = [q EXCEPT ![l] = Append(@, n)]
  /\ ret' = NULL
  /\ UNCHANGED clearing

insert_head(l, n) ==
  /\ clearing = NULL
  /\ Unlinked(n)
  /\ prev' = [prev EXCEPT ![n] = l, ![next[l]] = n]
  /\ next' = [next EXCEPT ![n] = next[l], ![l] = n]
  /\ count' = [count EXCEPT ![l] = @ + 1]
  /\ q' = [q EXCEPT ![l] = Cons(n, @)]
  /\ ret' = NULL
  /\ UNCHANGED clearing

\* Mutant of list_remove: the successor keeps its prev pointer.
list_removeOneWay(l, n, i) ==
  /\ clearing = NULL
  /\ q[l][i] = n
  /\ next[n] # NULL /\ prev[n] # NULL
  /\ next' = [next EXCEPT ![prev[n]] = next[n], ![n] = NULL]
  /\ prev' = [prev EXCEPT ![n] = NULL]
  /\ count' = [count EXCEPT ![l] = @ - 1]
  /\ q' = [q EXCEPT ![l] = RemoveAt(@, i)]
  /\ ret' = NULL
  /\ UNCHANGED clearing

(* The node is at place i of the list. *)
list_remove(l, n, i) ==
  /\ clearing = NULL
  /\ q[l][i] = n
  /\ next[n] # NULL /\ prev[n] # NULL
  /\ next' = [next EXCEPT ![prev[n]] = next[n], ![n] = NULL]
  /\ prev' = [prev EXCEPT ![next[n]] = prev[n], ![n] = NULL]
  /\ count' = [count EXCEPT ![l] = @ - 1]
  /\ q' = [q EXCEPT ![l] = RemoveAt(@, i)]
  /\ ret' = NULL
  /\ UNCHANGED clearing

(* The sanity check: a node that was taken out before is left alone. *)
list_remove_broken(n) ==
  /\ clearing = NULL
  /\ Unlinked(n)
  /\ next[n] = NULL \/ prev[n] = NULL
  /\ ret' = NULL
  /\ UNCHANGED <<next, prev, count, clearing, q>>

\* Mutant of Unlink: the head is read after it has moved.
UnlinkReadLate(l) ==
  /\ next' = [next EXCEPT ![l] = next[next[l]], ![next[l]] = NULL]
  /\ prev' = [prev EXCEPT ![next[next[l]]] = l, ![next[l]] = NULL]
  /\ count' = [count EXCEPT ![l] = @ - 1]
  /\ q' = [q EXCEPT ![l] = Tail(@)]
  /\ ret' = next'[l]

(* pop without its return: also the body of clear_list's loop. *)
Unlink(l) ==
  /\ next' = [next EXCEPT ![l] = next[next[l]], ![next[l]] = NULL]
  /\ prev' = [prev EXCEPT ![next[next[l]]] = l, ![next[l]] = NULL]
  /\ count' = [count EXCEPT ![l] = @ - 1]
  /\ q' = [q EXCEPT ![l] = Tail(@)]
  /\ ret' = next[l]

pop(l) == /\ clearing = NULL
          /\ ~ list_is_empty(l)
          /\ Unlink(l)
          /\ UNCHANGED clearing

pop_empty(l) == /\ clearing = NULL
                /\ list_is_empty(l)
                /\ ret' = NULL
                /\ UNCHANGED <<next, prev, count, clearing, q>>

\* Mutant of peek: the other end of the list.
peekLast(l) == /\ clearing = NULL
               /\ ret' = IF list_is_empty(l) THEN NULL ELSE prev[l]
               /\ UNCHANGED <<next, prev, count, clearing, q>>

peek(l) == /\ clearing = NULL
           /\ ret' = IF list_is_empty(l) THEN NULL ELSE next[l]
           /\ UNCHANGED <<next, prev, count, clearing, q>>

(* The k-th node the traversal of l reaches (the sentinel for k = 0). *)
Walk(l, k) ==
  LET walk[j \in Nat] == IF j = 0 THEN l
                         ELSE IF walk[j - 1] \in Addr THEN next[walk[j - 1]]
                         ELSE walk[j - 1]
  IN walk[k]

(* The traversal meets n before it is back at the sentinel. *)
list_contains(l, n) ==
  /\ clearing = NULL
  /\ ret' = IF \E k \in 1..Cardinality(Nodes) :
                  /\ Walk(l, k) = n
                  /\ \A j \in 1..k : Walk(l, j) # l
            THEN 1 ELSE 0
  /\ UNCHANGED <<next, prev, count, clearing, q>>

(* clear_list: pop while count > 0, then answer 0. *)
clear_list(l) == /\ clearing = NULL
                 /\ clearing' = l
                 /\ UNCHANGED <<next, prev, count, ret, q>>

\* Mutant of clear_list_pop: the loop looks at the head without taking it out.
clear_list_peek(l) == /\ clearing = l
                      /\ count[l] > 0
                      /\ ret' = next[l]
                      /\ UNCHANGED <<next, prev, count, clearing, q>>

clear_list_pop(l) == /\ clearing = l
                     /\ count[l] > 0
                     /\ Unlink(l)
                     /\ UNCHANGED clearing

clear_list_done(l) == /\ clearing = l
                      /\ ~ count[l] > 0
                      /\ clearing' = NULL
                      /\ ret' = 0
                      /\ UNCHANGED <<next, prev, count, q>>

ClearStep == \E l \in Lists : clear_list_pop(l) \/ clear_list_done(l)

Next == \/ ClearStep
        \/ \E l \in Lists :
             \/ pop(l) \/ pop_empty(l) \/ peek(l) \/ clear_list(l)
             \/ \E n \in Nodes : \/ insert_tail(l, n) \/ insert_head(l, n)
                                 \/ list_contains(l, n)
                                 \/ \E i \in 1..Len(q[l]) : list_remove(l, n, i)
        \/ \E n \in Nodes : list_remove_broken(n)

(* A loop of the kernel runs on: no interrupt takes the processor away. *)
Spec == Init /\ [][Next]_vars /\ WF_vars(ClearStep)
-----------------------------------------------------------------------------
(* A sentinel is never handed out as a node, and no counter drops below 0.  *)
TypeOK == /\ next \in [Addr -> Addr \cup {NULL, Garbage}]
          /\ prev \in [Addr -> Addr \cup {NULL, Garbage}]
          /\ count \in [Lists -> Nat]
          /\ ret \in Nodes \cup {NULL, 0, 1}
          /\ clearing \in Lists \cup {NULL}
          /\ q \in [Lists -> Seq(Nodes)]

(* The i-th stop on the way around l when it holds s, the sentinel at both ends. *)
Stop(l, s, i) == IF i = 0 \/ i = Len(s) + 1 THEN l ELSE s[i]

(* Every list's nodes are chained both ways and counted.  An insertion or   *)
(* a removal that leaves one of its four pointers or the counter behind     *)
(* shows only in a later operation, often on another node.                  *)
Chain(l) == /\ count[l] = Len(q[l])
            /\ \A i \in 0..Len(q[l]) :
                  /\ next[Stop(l, q[l], i)] = Stop(l, q[l], i + 1)
                  /\ prev[Stop(l, q[l], i + 1)] = Stop(l, q[l], i)

Chained == \A l \in Lists : Chain(l)

(* No node is in two lists, or twice in one: the single queue_node of a PCB *)
(* makes this the condition on which every queue of the kernel rests.       *)
Exclusive == \A l, m \in Lists : \A i \in 1..Len(q[l]), j \in 1..Len(q[m]) :
                q[l][i] = q[m][j] => l = m /\ i = j

(* The chain of pointers stands for q. *)
Represents == Chained /\ Exclusive

(* What the pointers of l say, read along next for count steps. *)
Contents(l) == [k \in 1..count[l] |-> Walk(l, k)]

(* The pointer operations implement FIFO lists. *)
Fifo == INSTANCE FifoLists WITH q <- [l \in Lists |-> Contents(l)]
ImplementsFifo == Fifo!Spec

(* clear_list's loop ends: count reaches 0 and the caller gets its answer.  *)
ClearEnds == (clearing # NULL) ~> (clearing = NULL)
=============================================================================
