----------------------------- MODULE ListProofs -----------------------------
(* The pointers of list.c stand for sequences, however many lists and      *)
(* nodes there are: TypeOK and Represents are inductive together.          *)
EXTENDS List, SeqLemmas, FiniteSetTheorems

IInv == TypeOK /\ Represents

(* Under IInv the stops of all lists are distinct addresses, but for the    *)
(* two ends of one list, which are its sentinel.                            *)
LEMMA Stops ==
  ASSUME IInv
  PROVE  /\ \A l \in Lists : Len(q[l]) \in Nat
         /\ \A l \in Lists : \A i \in 0..(Len(q[l]) + 1) : Stop(l, q[l], i) \in Addr
         /\ \A l, m \in Lists : l # m =>
              \A i \in 0..(Len(q[l]) + 1), j \in 0..(Len(q[m]) + 1) :
                 Stop(l, q[l], i) # Stop(m, q[m], j)
         /\ \A l \in Lists : \A i, j \in 0..Len(q[l]) :
              i # j => /\ Stop(l, q[l], i) # Stop(l, q[l], j)
                       /\ Stop(l, q[l], i + 1) # Stop(l, q[l], j + 1)
         /\ \A n \in Nodes : Unlinked(n) =>
              \A l \in Lists : \A i \in 0..(Len(q[l]) + 1) : Stop(l, q[l], i) # n
         /\ \A l \in Lists : \A i \in 1..Len(q[l]) : Stop(l, q[l], i) \in Nodes
<1>1. \A l \in Lists : q[l] \in Seq(Nodes)
  BY DEF IInv, TypeOK
<1>2. \A l \in Lists : /\ Len(q[l]) \in Nat
                       /\ \A i \in 1..Len(q[l]) : q[l][i] \in Nodes
  BY <1>1, LenProperties, ElementOfSeq
<1>3. \A l \in Lists : \A i \in 0..(Len(q[l]) + 1) :
         \/ (i = 0 \/ i = Len(q[l]) + 1) /\ Stop(l, q[l], i) = l
         \/ i \in 1..Len(q[l]) /\ Stop(l, q[l], i) = q[l][i] /\ q[l][i] \in Nodes
  BY <1>2 DEF Stop
<1>4. \A l \in Lists : l \notin Nodes
  BY PointersDiffer
<1>5. Exclusive
  BY DEF IInv, Represents
<1>6. ASSUME NEW l \in Lists, NEW i \in 0..Len(q[l]), NEW j \in 0..Len(q[l]), i # j
      PROVE  /\ Stop(l, q[l], i) # Stop(l, q[l], j)
             /\ Stop(l, q[l], i + 1) # Stop(l, q[l], j + 1)
  <2>1. Len(q[l]) \in Nat
    BY <1>2
  <2>2. \A x, y \in 1..Len(q[l]) : q[l][x] = q[l][y] => x = y
    BY <1>5 DEF Exclusive
  <2>3. \A x \in 1..Len(q[l]) : q[l][x] # l
    BY <1>2, <1>4
  <2>4. Stop(l, q[l], i) # Stop(l, q[l], j)
    BY <2>1, <2>2, <2>3, <1>6 DEF Stop
  <2>5. Stop(l, q[l], i + 1) # Stop(l, q[l], j + 1)
    BY <2>1, <2>2, <2>3, <1>6 DEF Stop
  <2> QED
    BY <2>4, <2>5
<1>7. ASSUME NEW l \in Lists, NEW m \in Lists, l # m,
             NEW i \in 0..(Len(q[l]) + 1), NEW j \in 0..(Len(q[m]) + 1)
      PROVE  Stop(l, q[l], i) # Stop(m, q[m], j)
  BY <1>3, <1>4, <1>5, <1>7 DEF Exclusive
<1>8. ASSUME NEW n \in Nodes, Unlinked(n), NEW l \in Lists, NEW i \in 0..(Len(q[l]) + 1)
      PROVE  Stop(l, q[l], i) # n
  BY <1>3, <1>4, <1>8 DEF Unlinked
<1> QED
  BY <1>2, <1>3, <1>6, <1>7, <1>8 DEF Addr

(* A list none of whose stops is written keeps its chain.                   *)
LEMMA ChainKept ==
  ASSUME IInv, NEW m \in Lists,
         q'[m] = q[m], count'[m] = count[m],
         \A i \in 0..(Len(q[m]) + 1) : /\ next'[Stop(m, q[m], i)] = next[Stop(m, q[m], i)]
                                       /\ prev'[Stop(m, q[m], i)] = prev[Stop(m, q[m], i)]
  PROVE  Chain(m)'
<1>1. Len(q[m]) \in Nat
  BY Stops
<1>2. \A i \in 0..(Len(q[m]) + 1) : Stop(m, q'[m], i) = Stop(m, q[m], i)
  BY DEF Stop
<1>3. Chain(m)
  BY DEF IInv, Represents, Chained
<1> QED
  BY <1>1, <1>2, <1>3 DEF Chain

(* list_init leaves every list empty and well chained.                      *)
LEMMA InitIInv == Init => IInv
<1> SUFFICES ASSUME Init PROVE IInv
  OBVIOUS
<1>1. TypeOK
  BY PointersDiffer DEF Init, TypeOK, Addr
<1>2. \A l \in Lists : Len(q[l]) = 0
  BY DEF Init
<1> QED
  BY <1>1, <1>2 DEF Init, IInv, Represents, Chained, Chain, Exclusive, Stop, Addr

(* Linking the node n in as the i-th of the list l; insert_tail and         *)
(* insert_head are the two ends.                                            *)
LEMMA Insertion ==
  ASSUME IInv, NEW l \in Lists, NEW n \in Nodes, Unlinked(n),
         NEW i \in 1..(Len(q[l]) + 1),
         next' = [next EXCEPT ![n] = Stop(l, q[l], i), ![Stop(l, q[l], i - 1)] = n],
         prev' = [prev EXCEPT ![n] = Stop(l, q[l], i - 1), ![Stop(l, q[l], i)] = n],
         count' = [count EXCEPT ![l] = @ + 1],
         q' \in [Lists -> Seq(Nodes)],
         \A m \in Lists \ {l} : q'[m] = q[m],
         Len(q'[l]) = Len(q[l]) + 1,
         \A j \in 1..(Len(q[l]) + 1) :
            q'[l][j] = IF j < i THEN q[l][j] ELSE IF j = i THEN n ELSE q[l][j - 1],
         ret' = NULL, clearing' = clearing
  PROVE  IInv'
<1> DEFINE last == Len(q[l])
           a == Stop(l, q[l], i - 1)
           b == Stop(l, q[l], i)
<1>1. last \in Nat /\ i \in 0..(last + 1) /\ i - 1 \in 0..(last + 1) /\ i - 1 \in 0..last
  BY Stops
<1>2. /\ n \in Addr /\ l \in Addr
      /\ a \in Addr /\ a # n
      /\ b \in Addr /\ b # n
      /\ next \in [Addr -> Addr \cup {NULL, Garbage}]
      /\ prev \in [Addr -> Addr \cup {NULL, Garbage}]
      /\ count \in [Lists -> Nat]
  BY <1>1, Stops DEF Addr, IInv, TypeOK
<1>3. /\ next' = [next EXCEPT ![n] = b, ![a] = n]
      /\ prev' = [prev EXCEPT ![n] = a, ![b] = n]
  OBVIOUS
<1> HIDE DEF a, b
<1>4. TypeOK'
  <2>1. next' \in [Addr -> Addr \cup {NULL, Garbage}]
    BY <1>2, <1>3
  <2>2. prev' \in [Addr -> Addr \cup {NULL, Garbage}]
    BY <1>2, <1>3
  <2>3. count' \in [Lists -> Nat]
    BY <1>2
  <2> QED
    BY <2>1, <2>2, <2>3 DEF IInv, TypeOK
<1>5. Exclusive'
  <2> SUFFICES ASSUME NEW c \in Lists, NEW d \in Lists,
                      NEW j \in 1..Len(q'[c]), NEW k \in 1..Len(q'[d]),
                      q'[c][j] = q'[d][k]
               PROVE  c = d /\ j = k
    BY DEF Exclusive
  <2> DEFINE old(m, k0) == IF m = l /\ k0 > i THEN k0 - 1 ELSE k0
  <2>1. ASSUME NEW m \in Lists, NEW k0 \in 1..Len(q'[m])
        PROVE  \/ /\ ~ (m = l /\ k0 = i)
                  /\ old(m, k0) \in 1..Len(q[m])
                  /\ q'[m][k0] = q[m][old(m, k0)]
                  /\ q'[m][k0] # n
               \/ m = l /\ k0 = i /\ q'[m][k0] = n
    <3>1. CASE m # l
      <4>1. q'[m] = q[m] /\ old(m, k0) = k0
        BY <3>1
      <4>2. \A p \in 1..Len(q[m]) : q[m][p] # n
        BY DEF Unlinked
      <4>3. k0 \in 1..Len(q[m]) /\ q'[m][k0] = q[m][k0] /\ ~ (m = l /\ k0 = i)
        BY <4>1, <3>1
      <4>4. q[m][k0] # n
        BY <4>2, <4>3
      <4>5. q'[m][k0] # n
        BY <4>3, <4>4
      <4> HIDE DEF old
      <4> QED
        BY <4>1, <4>3, <4>5
    <3>2. CASE m = l /\ k0 < i
      <4> k0 \in 1..(last + 1)
        BY <3>2
      <4>1. old(m, k0) = k0 /\ k0 \in 1..Len(q[l]) /\ q'[l][k0] = q[l][k0]
        BY <3>2, <1>1
      <4> QED
        BY <4>1, <3>2, <1>1 DEF Unlinked
    <3>3. CASE m = l /\ k0 = i
      BY <3>3
    <3>4. CASE m = l /\ k0 > i
      <4>1. old(m, k0) = k0 - 1 /\ k0 - 1 \in 1..Len(q[l]) /\ q'[l][k0] = q[l][k0 - 1]
        BY <3>4, <1>1
      <4> QED
        BY <4>1, <3>4, <1>1 DEF Unlinked
    <3> QED
      BY <1>1, <3>1, <3>2, <3>3, <3>4
  <2>2. Exclusive
    BY DEF IInv, Represents
  <2>3. CASE q'[c][j] = n
    BY <2>1, <2>3
  <2>4. CASE q'[c][j] # n
    <3>1. /\ old(c, j) \in 1..Len(q[c]) /\ old(d, k) \in 1..Len(q[d])
          /\ q[c][old(c, j)] = q[d][old(d, k)]
          /\ ~ (c = l /\ j = i) /\ ~ (d = l /\ k = i)
      BY <2>1, <2>4
    <3> HIDE DEF old
    <3>2. c = d /\ old(c, j) = old(d, k)
      BY <3>1, <2>2 DEF Exclusive
    <3>3. j \in Int /\ k \in Int
      BY Stops
    <3> QED
      BY <3>1, <3>2, <3>3, <1>1 DEF old
  <2> QED
    BY <2>3, <2>4
<1>6. ASSUME NEW m \in Lists, m # l PROVE Chain(m)'
  <2>1. \A j \in 0..(Len(q[m]) + 1) : Stop(m, q[m], j) \notin {n, a, b}
    BY <1>1, <1>6, Stops DEF a, b
  <2>2. \A j \in 0..(Len(q[m]) + 1) :
           /\ next'[Stop(m, q[m], j)] = next[Stop(m, q[m], j)]
           /\ prev'[Stop(m, q[m], j)] = prev[Stop(m, q[m], j)]
    BY <2>1, <1>2, <1>3, <1>6, Stops
  <2> QED
    BY <2>2, <1>2, <1>6, ChainKept
<1>7. Chain(l)'
  <2>1. /\ \A j \in 0..(i - 1) : Stop(l, q'[l], j) = Stop(l, q[l], j)
        /\ Stop(l, q'[l], i) = n
        /\ \A j \in i..(last + 1) : Stop(l, q'[l], j + 1) = Stop(l, q[l], j)
    <3>1. ASSUME NEW j \in 0..(i - 1)
          PROVE  Stop(l, q'[l], j) = Stop(l, q[l], j)
      BY <1>1 DEF Stop
    <3>2. Stop(l, q'[l], i) = n
      BY <1>1 DEF Stop
    <3>3. ASSUME NEW j \in i..(last + 1)
          PROVE  Stop(l, q'[l], j + 1) = Stop(l, q[l], j)
      <4>1. CASE j = last + 1
        BY <4>1, <1>1 DEF Stop
      <4>2. CASE j # last + 1
        <5>1. j + 1 \in 1..(last + 1) /\ j + 1 > i /\ (j + 1) - 1 = j /\ j \in 1..last
          BY <4>2, <1>1
        <5>2. q'[l][j + 1] = q[l][j]
          BY <5>1, <1>1
        <5> QED
          BY <5>1, <5>2, <1>1 DEF Stop
      <4> QED
        BY <4>1, <4>2
    <3> QED
      BY <3>1, <3>2, <3>3
  <2>2. Chain(l)
    BY DEF IInv, Represents, Chained
  <2>3. ASSUME NEW j \in 0..last, j # i - 1
        PROVE  /\ next'[Stop(l, q[l], j)] = Stop(l, q[l], j + 1)
               /\ prev'[Stop(l, q[l], j + 1)] = Stop(l, q[l], j)
    <3>1. j \in 0..(last + 1) /\ j + 1 \in 0..(last + 1)
      BY <1>1
    <3>2. /\ Stop(l, q[l], j) \in Addr
          /\ Stop(l, q[l], j) # n
          /\ Stop(l, q[l], j) # Stop(l, q[l], i - 1)
          /\ Stop(l, q[l], j + 1) \in Addr
          /\ Stop(l, q[l], j + 1) # n
          /\ Stop(l, q[l], j + 1) # Stop(l, q[l], (i - 1) + 1)
      BY <3>1, <2>3, <1>1, Stops
    <3>3. /\ next'[Stop(l, q[l], j)] = next[Stop(l, q[l], j)]
          /\ prev'[Stop(l, q[l], j + 1)] = prev[Stop(l, q[l], j + 1)]
      <4>1. (i - 1) + 1 = i
        BY <1>1
      <4> QED
        BY <4>1, <3>2, <1>2, <1>3 DEF a, b
    <3> QED
      BY <3>3, <2>2 DEF Chain
  <2>4. /\ next'[a] = n /\ next'[n] = b
        /\ prev'[n] = a /\ prev'[b] = n
    BY <1>2, <1>3
  <2>5. count'[l] = Len(q'[l])
    BY <2>2, <1>2 DEF Chain
  <2>6. ASSUME NEW j \in 0..(last + 1)
        PROVE  /\ next'[Stop(l, q'[l], j)] = Stop(l, q'[l], j + 1)
               /\ prev'[Stop(l, q'[l], j + 1)] = Stop(l, q'[l], j)
    <3>1. CASE j < i - 1
      <4>1. j \in 0..last /\ j # i - 1 /\ j \in 0..(i - 1) /\ j + 1 \in 0..(i - 1)
        BY <3>1, <1>1
      <4> QED
        BY <4>1, <2>1, <2>3
    <3>2. CASE j = i - 1
      BY <3>2, <2>1, <2>4, <1>1 DEF a
    <3>3. CASE j = i
      BY <3>3, <2>1, <2>4, <1>1 DEF b
    <3>4. CASE j > i
      <4>1. /\ j - 1 \in 0..last /\ j - 1 # i - 1
            /\ j - 1 \in i..(last + 1) /\ j \in i..(last + 1)
            /\ (j - 1) + 1 = j
        BY <3>4, <1>1
      <4>2. /\ Stop(l, q'[l], j) = Stop(l, q[l], j - 1)
            /\ Stop(l, q'[l], j + 1) = Stop(l, q[l], j)
        BY <4>1, <2>1
      <4>3. /\ next'[Stop(l, q[l], j - 1)] = Stop(l, q[l], (j - 1) + 1)
            /\ prev'[Stop(l, q[l], (j - 1) + 1)] = Stop(l, q[l], j - 1)
        BY <4>1, <2>3
      <4> QED
        BY <4>1, <4>2, <4>3
    <3> QED
      BY <1>1, <3>1, <3>2, <3>3, <3>4
  <2> QED
    BY <2>5, <2>6 DEF Chain
<1> QED
  BY <1>4, <1>5, <1>6, <1>7 DEF IInv, Represents, Chained

(* insert_tail keeps the invariant: Insertion at the end.                   *)
LEMMA InsertTailIInv ==
  ASSUME IInv, NEW l \in Lists, NEW n \in Nodes, insert_tail(l, n)
  PROVE  IInv'
<1> DEFINE i == Len(q[l]) + 1
<1>1. /\ q[l] \in Seq(Nodes) /\ i \in 1..(Len(q[l]) + 1)
      /\ q'[l] = Append(q[l], n)
      /\ \A m \in Lists \ {l} : q'[m] = q[m]
      /\ q' \in [Lists -> Seq(Nodes)]
  BY Stops DEF insert_tail, IInv, TypeOK
<1>2. /\ Len(q'[l]) = Len(q[l]) + 1
      /\ \A j \in 1..(Len(q[l]) + 1) :
            q'[l][j] = IF j < i THEN q[l][j] ELSE IF j = i THEN n ELSE q[l][j - 1]
  BY <1>1, Stops, AppendProperties
<1>3. /\ Chain(l) /\ Len(q[l]) \in Nat
      /\ i - 1 = Len(q[l])
      /\ Stop(l, q[l], i) = l
  BY Stops DEF IInv, Represents, Chained, Stop
<1>4. prev[l] = Stop(l, q[l], i - 1)
  BY <1>3 DEF Chain
<1>5. /\ Unlinked(n)
      /\ next' = [next EXCEPT ![n] = Stop(l, q[l], i), ![Stop(l, q[l], i - 1)] = n]
      /\ prev' = [prev EXCEPT ![n] = Stop(l, q[l], i - 1), ![Stop(l, q[l], i)] = n]
      /\ count' = [count EXCEPT ![l] = @ + 1]
      /\ ret' = NULL /\ clearing' = clearing
  BY <1>3, <1>4 DEF insert_tail
<1> HIDE DEF i
<1> QED
  BY <1>1, <1>2, <1>5, Insertion

(* insert_head keeps the invariant: Insertion at the front.                 *)
LEMMA InsertHeadIInv ==
  ASSUME IInv, NEW l \in Lists, NEW n \in Nodes, insert_head(l, n)
  PROVE  IInv'
<1> DEFINE s == Cons(n, q[l])
<1>1. q \in [Lists -> Seq(Nodes)] /\ q[l] \in Seq(Nodes) /\ Len(q[l]) \in Nat
  BY Stops DEF IInv, TypeOK
<1>2. /\ s \in Seq(Nodes)
      /\ Len(s) = Len(q[l]) + 1
      /\ s[1] = n
      /\ \A j \in 1..Len(q[l]) : s[j + 1] = q[l][j]
  BY <1>1, ConsProperties
<1>3. q' = [q EXCEPT ![l] = s]
  BY DEF insert_head
<1> HIDE DEF s
<1>4. /\ q' \in [Lists -> Seq(Nodes)]
      /\ q'[l] = s
      /\ \A m \in Lists \ {l} : q'[m] = q[m]
  BY <1>1, <1>2, <1>3
<1>5. ASSUME NEW j \in 1..(Len(q[l]) + 1)
      PROVE  q'[l][j] = IF j < 1 THEN q[l][j] ELSE IF j = 1 THEN n ELSE q[l][j - 1]
  <2>1. CASE j = 1
    BY <2>1, <1>2, <1>4
  <2>2. CASE j # 1
    <3>1. j - 1 \in 1..Len(q[l]) /\ (j - 1) + 1 = j /\ ~ (j < 1)
      BY <2>2, <1>1
    <3> QED
      BY <2>2, <3>1, <1>2, <1>4
  <2> QED
    BY <2>1, <2>2
<1>6. /\ Chain(l)
      /\ Stop(l, q[l], 1 - 1) = l
      /\ Stop(l, q[l], 0) = l
  BY DEF IInv, Represents, Chained, Stop
<1>7. next[l] = Stop(l, q[l], 1)
  BY <1>1, <1>6 DEF Chain
<1>8. /\ Unlinked(n)
      /\ next' = [next EXCEPT ![n] = Stop(l, q[l], 1), ![Stop(l, q[l], 1 - 1)] = n]
      /\ prev' = [prev EXCEPT ![n] = Stop(l, q[l], 1 - 1), ![Stop(l, q[l], 1)] = n]
      /\ count' = [count EXCEPT ![l] = @ + 1]
      /\ ret' = NULL /\ clearing' = clearing
  BY <1>6, <1>7 DEF insert_head
<1>9. 1 \in 1..(Len(q[l]) + 1) /\ Len(q'[l]) = Len(q[l]) + 1
  BY <1>1, <1>2, <1>4
<1> QED
  BY <1>4, <1>5, <1>8, <1>9, Insertion

(* Unlinking the i-th node of the list l: list_remove, and pop with i = 1.  *)
LEMMA Removal ==
  ASSUME IInv, NEW l \in Lists, NEW i \in 1..Len(q[l]), NEW n \in Nodes,
         n = Stop(l, q[l], i),
         next' = [next EXCEPT ![Stop(l, q[l], i - 1)] = Stop(l, q[l], i + 1),
                              ![n] = NULL],
         prev' = [prev EXCEPT ![Stop(l, q[l], i + 1)] = Stop(l, q[l], i - 1),
                              ![n] = NULL],
         count' = [count EXCEPT ![l] = @ - 1],
         q' = [q EXCEPT ![l] = RemoveAt(@, i)],
         ret' \in Nodes \cup {NULL, 0, 1}, clearing' = clearing
  PROVE  IInv'
<1> DEFINE last == Len(q[l])
           a == Stop(l, q[l], i - 1)
           b == Stop(l, q[l], i + 1)
           t == RemoveAt(q[l], i)
<1>1. /\ last \in Nat \ {0} /\ i \in 1..last
      /\ i - 1 \in 0..last /\ i \in 0..last /\ i + 1 \in 0..(last + 1)
      /\ q \in [Lists -> Seq(Nodes)] /\ q[l] \in Seq(Nodes)
  BY Stops DEF IInv, TypeOK
<1>2. /\ t \in Seq(Nodes)
      /\ Len(t) = last - 1
      /\ \A j \in 1..(last - 1) : t[j] = IF j < i THEN q[l][j] ELSE q[l][j + 1]
  BY <1>1, RemoveAtProperties
<1>3. q' = [q EXCEPT ![l] = t]
  OBVIOUS
<1>4. /\ next' = [next EXCEPT ![a] = b, ![n] = NULL]
      /\ prev' = [prev EXCEPT ![b] = a, ![n] = NULL]
  OBVIOUS
<1>5. /\ a \in Addr /\ a # n /\ b \in Addr /\ b # n /\ n \in Addr
  <2>1. Stop(l, q[l], i - 1) # Stop(l, q[l], i)
    BY <1>1, Stops
  <2>2. Stop(l, q[l], (i - 1) + 1) # Stop(l, q[l], i + 1)
    BY <1>1, Stops
  <2>3. (i - 1) + 1 = i
    BY <1>1
  <2> QED
    BY <1>1, <2>1, <2>2, <2>3, Stops DEF Addr
<1>6. /\ next \in [Addr -> Addr \cup {NULL, Garbage}]
      /\ prev \in [Addr -> Addr \cup {NULL, Garbage}]
      /\ count \in [Lists -> Nat] /\ count[l] = last
      /\ Chain(l) /\ Exclusive
  BY DEF IInv, TypeOK, Represents, Chained, Chain
<1> HIDE DEF a, b, t
<1>7. /\ q' \in [Lists -> Seq(Nodes)]
      /\ q'[l] = t
      /\ \A m \in Lists \ {l} : q'[m] = q[m]
  BY <1>1, <1>2, <1>3
<1>8. TypeOK'
  <2>1. next' \in [Addr -> Addr \cup {NULL, Garbage}]
    BY <1>4, <1>5, <1>6
  <2>2. prev' \in [Addr -> Addr \cup {NULL, Garbage}]
    BY <1>4, <1>5, <1>6
  <2>3. count' \in [Lists -> Nat]
    BY <1>1, <1>6
  <2> QED
    BY <2>1, <2>2, <2>3, <1>7 DEF IInv, TypeOK
<1>9. Exclusive'
  <2> SUFFICES ASSUME NEW c \in Lists, NEW d \in Lists,
                      NEW j \in 1..Len(q'[c]), NEW k \in 1..Len(q'[d]),
                      q'[c][j] = q'[d][k]
               PROVE  c = d /\ j = k
    BY DEF Exclusive
  <2> DEFINE old(m, k0) == IF m = l /\ k0 >= i THEN k0 + 1 ELSE k0
  <2>1. ASSUME NEW m \in Lists, NEW k0 \in 1..Len(q'[m])
        PROVE  /\ old(m, k0) \in 1..Len(q[m])
               /\ q'[m][k0] = q[m][old(m, k0)]
    <3>1. CASE m # l
      <4>1. q'[m] = q[m] /\ old(m, k0) = k0
        BY <3>1, <1>7
      <4> QED
        BY <4>1
    <3>2. CASE m = l /\ k0 < i
      <4>1. old(m, k0) = k0 /\ k0 \in 1..last /\ k0 \in 1..(last - 1)
        BY <3>2, <1>1, <1>2, <1>7
      <4> QED
        BY <4>1, <3>2, <1>2, <1>7
    <3>3. CASE m = l /\ k0 >= i
      <4>1. /\ old(m, k0) = k0 + 1 /\ k0 + 1 \in 1..last
            /\ k0 \in 1..(last - 1) /\ ~ (k0 < i)
        BY <3>3, <1>1, <1>2, <1>7
      <4> QED
        BY <4>1, <3>3, <1>2, <1>7
    <3> QED
      BY <1>1, <1>2, <1>7, <3>1, <3>2, <3>3
  <2> HIDE DEF old
  <2>2. c = d /\ old(c, j) = old(d, k)
    <3>1. /\ old(c, j) \in 1..Len(q[c]) /\ old(d, k) \in 1..Len(q[d])
          /\ q[c][old(c, j)] = q[d][old(d, k)]
      BY <2>1
    <3>2. \A x \in 1..Len(q[c]), y \in 1..Len(q[d]) :
             q[c][x] = q[d][y] => c = d /\ x = y
      BY <1>6 DEF Exclusive
    <3> QED
      BY <3>1, <3>2
  <2>3. j \in Int /\ k \in Int
    OBVIOUS
  <2> QED
    BY <2>2, <2>3, <1>1 DEF old
<1>10. ASSUME NEW m \in Lists, m # l PROVE Chain(m)'
  <2>1. \A j \in 0..(Len(q[m]) + 1) : Stop(m, q[m], j) \notin {n, a, b}
    <3>1. i - 1 \in 0..(last + 1) /\ i \in 0..(last + 1)
      BY <1>1
    <3>2. ASSUME NEW j \in 0..(Len(q[m]) + 1)
          PROVE  /\ Stop(m, q[m], j) # Stop(l, q[l], i)
                 /\ Stop(m, q[m], j) # Stop(l, q[l], i - 1)
                 /\ Stop(m, q[m], j) # Stop(l, q[l], i + 1)
      BY <3>1, <1>1, <1>10, Stops
    <3> QED
      BY <3>2 DEF a, b
  <2>2. \A j \in 0..(Len(q[m]) + 1) :
           /\ next'[Stop(m, q[m], j)] = next[Stop(m, q[m], j)]
           /\ prev'[Stop(m, q[m], j)] = prev[Stop(m, q[m], j)]
    BY <2>1, <1>4, <1>5, <1>6, <1>10, Stops
  <2> QED
    BY <2>2, <1>6, <1>7, <1>10, ChainKept
<1>11. Chain(l)'
  <2>1. /\ \A j \in 0..(i - 1) : Stop(l, t, j) = Stop(l, q[l], j)
        /\ \A j \in i..last : Stop(l, t, j) = Stop(l, q[l], j + 1)
    <3>1. ASSUME NEW j \in 0..(i - 1)
          PROVE  Stop(l, t, j) = Stop(l, q[l], j)
      <4>1. CASE j = 0
        BY <4>1 DEF Stop
      <4>2. CASE j # 0
        <5>1. j \in 1..(last - 1) /\ j < i
          BY <4>2, <1>1
        <5>2. t[j] = q[l][j]
          BY <5>1, <1>2
        <5>3. j # last /\ j # last + 1
          BY <5>1, <1>1
        <5> QED
          BY <4>2, <5>2, <5>3, <1>1, <1>2 DEF Stop
      <4> QED
        BY <4>1, <4>2
    <3>2. ASSUME NEW j \in i..last
          PROVE  Stop(l, t, j) = Stop(l, q[l], j + 1)
      <4>1. CASE j = last
        BY <4>1, <1>1, <1>2 DEF Stop
      <4>2. CASE j # last
        <5>1. j \in 1..(last - 1) /\ ~ (j < i)
          BY <4>2, <1>1
        <5>2. t[j] = q[l][j + 1]
          BY <5>1, <1>2
        <5>3. j # 0 /\ j # (last - 1) + 1 /\ j + 1 # 0 /\ j + 1 # last + 1
          BY <5>1, <1>1
        <5> QED
          BY <5>2, <5>3, <1>2 DEF Stop
      <4> QED
        BY <4>1, <4>2
    <3> QED
      BY <3>1, <3>2
  <2>2. ASSUME NEW j \in 0..last, j # i - 1, j # i
        PROVE  /\ next'[Stop(l, q[l], j)] = Stop(l, q[l], j + 1)
               /\ prev'[Stop(l, q[l], j + 1)] = Stop(l, q[l], j)
    <3>1. /\ j \in 0..(last + 1) /\ j + 1 \in 0..(last + 1)
          /\ (i - 1) + 1 = i
      BY <1>1
    <3>2. /\ Stop(l, q[l], j) \in Addr
          /\ Stop(l, q[l], j) # Stop(l, q[l], i - 1)
          /\ Stop(l, q[l], j) # Stop(l, q[l], i)
          /\ Stop(l, q[l], j + 1) \in Addr
          /\ Stop(l, q[l], j + 1) # Stop(l, q[l], (i - 1) + 1)
          /\ Stop(l, q[l], j + 1) # Stop(l, q[l], i + 1)
      BY <3>1, <2>2, <1>1, Stops
    <3>3. /\ next'[Stop(l, q[l], j)] = next[Stop(l, q[l], j)]
          /\ prev'[Stop(l, q[l], j + 1)] = prev[Stop(l, q[l], j + 1)]
      BY <3>1, <3>2, <1>4, <1>5, <1>6 DEF a, b
    <3> QED
      BY <3>3, <1>6 DEF Chain
  <2>3. next'[a] = b /\ prev'[b] = a
    BY <1>4, <1>5, <1>6
  <2>4. count'[l] = Len(t)
    BY <1>1, <1>2, <1>6
  <2>5. ASSUME NEW j \in 0..(last - 1)
        PROVE  /\ next'[Stop(l, t, j)] = Stop(l, t, j + 1)
               /\ prev'[Stop(l, t, j + 1)] = Stop(l, t, j)
    <3>1. CASE j < i - 1
      <4>1. /\ j \in 0..last /\ j # i - 1 /\ j # i
            /\ j \in 0..(i - 1) /\ j + 1 \in 0..(i - 1)
        BY <3>1, <1>1
      <4> QED
        BY <4>1, <2>1, <2>2
    <3>2. CASE j = i - 1
      <4>1. /\ i - 1 \in 0..(i - 1) /\ i \in i..last /\ (i - 1) + 1 = i
        BY <1>1
      <4>2. Stop(l, t, i - 1) = a /\ Stop(l, t, i) = b
        BY <4>1, <2>1 DEF a, b
      <4> QED
        BY <3>2, <4>1, <4>2, <2>3
    <3>3. CASE j >= i
      <4>1. /\ j + 1 \in 0..last /\ j + 1 # i - 1 /\ j + 1 # i
            /\ j \in i..last /\ j + 1 \in i..last
        BY <3>3, <1>1
      <4>2. /\ Stop(l, t, j) = Stop(l, q[l], j + 1)
            /\ Stop(l, t, j + 1) = Stop(l, q[l], (j + 1) + 1)
        BY <4>1, <2>1
      <4>3. /\ next'[Stop(l, q[l], j + 1)] = Stop(l, q[l], (j + 1) + 1)
            /\ prev'[Stop(l, q[l], (j + 1) + 1)] = Stop(l, q[l], j + 1)
        BY <4>1, <2>2
      <4> QED
        BY <4>2, <4>3
    <3> QED
      BY <1>1, <3>1, <3>2, <3>3
  <2>6. \A j \in 0..Len(t) : /\ next'[Stop(l, t, j)] = Stop(l, t, j + 1)
                             /\ prev'[Stop(l, t, j + 1)] = Stop(l, t, j)
    BY <2>5, <1>2
  <2> QED
    BY <2>4, <2>6, <1>7 DEF Chain
<1> QED
  BY <1>8, <1>9, <1>10, <1>11 DEF IInv, Represents, Chained

(* list_remove keeps the invariant: Removal at any place.                   *)
LEMMA ListRemoveIInv ==
  ASSUME IInv, NEW l \in Lists, NEW n \in Nodes, NEW i \in 1..Len(q[l]),
         list_remove(l, n, i)
  PROVE  IInv'
<1>1. /\ Len(q[l]) \in Nat /\ Chain(l) /\ q[l][i] = n
      /\ i - 1 \in 0..Len(q[l]) /\ i \in 0..Len(q[l]) /\ (i - 1) + 1 = i
      /\ i # 0 /\ i # Len(q[l]) + 1
  BY Stops DEF list_remove, IInv, Represents, Chained
<1>2. n = Stop(l, q[l], i)
  BY <1>1 DEF Stop
<1>3. next[n] = Stop(l, q[l], i + 1) /\ prev[n] = Stop(l, q[l], i - 1)
  <2>1. next[Stop(l, q[l], i)] = Stop(l, q[l], i + 1)
    BY <1>1 DEF Chain
  <2>2. prev[Stop(l, q[l], (i - 1) + 1)] = Stop(l, q[l], i - 1)
    BY <1>1 DEF Chain
  <2> QED
    BY <1>1, <1>2, <2>1, <2>2
<1>4. /\ next' = [next EXCEPT ![Stop(l, q[l], i - 1)] = Stop(l, q[l], i + 1),
                              ![n] = NULL]
      /\ prev' = [prev EXCEPT ![Stop(l, q[l], i + 1)] = Stop(l, q[l], i - 1),
                              ![n] = NULL]
      /\ count' = [count EXCEPT ![l] = @ - 1]
      /\ q' = [q EXCEPT ![l] = RemoveAt(@, i)]
      /\ ret' \in Nodes \cup {NULL, 0, 1} /\ clearing' = clearing
  BY <1>3 DEF list_remove
<1> QED
  BY <1>2, <1>4, Removal

(* pop, and a turn of clear_list's loop, keep the invariant.                *)
LEMMA UnlinkIInv ==
  ASSUME IInv, NEW l \in Lists, count[l] # 0, Unlink(l), clearing' = clearing
  PROVE  IInv'
<1> DEFINE n == Stop(l, q[l], 1)
<1>1. /\ Len(q[l]) \in Nat \ {0} /\ Chain(l)
      /\ 1 \in 1..Len(q[l]) /\ 0 \in 0..Len(q[l]) /\ 1 \in 0..Len(q[l])
      /\ q[l] \in Seq(Nodes) /\ q[l] # <<>>
  BY Stops DEF Chain, IInv, TypeOK, Represents, Chained
<1>2. n \in Nodes
  BY <1>1, Stops
<1>3. Stop(l, q[l], 0) = l
  BY DEF Stop
<1>4. next[l] = n /\ next[n] = Stop(l, q[l], 2)
  <2>1. next[Stop(l, q[l], 0)] = Stop(l, q[l], 0 + 1)
    BY <1>1 DEF Chain
  <2>2. next[Stop(l, q[l], 1)] = Stop(l, q[l], 1 + 1)
    BY <1>1 DEF Chain
  <2> QED
    BY <1>3, <2>1, <2>2
<1>5. RemoveAt(q[l], 1) = Tail(q[l])
  <2>1. SubSeq(q[l], 1, 1 - 1) = <<>>
    BY SubSeqEmpty
  <2>2. Tail(q[l]) = SubSeq(q[l], 1 + 1, Len(q[l])) /\ Tail(q[l]) \in Seq(Nodes)
    BY <1>1, TailIsSubSeq, HeadTailProperties
  <2> QED
    BY <2>1, <2>2, ConcatEmptySeq DEF RemoveAt
<1>6. /\ next' = [next EXCEPT ![Stop(l, q[l], 1 - 1)] = Stop(l, q[l], 1 + 1),
                              ![n] = NULL]
      /\ prev' = [prev EXCEPT ![Stop(l, q[l], 1 + 1)] = Stop(l, q[l], 1 - 1),
                              ![n] = NULL]
      /\ count' = [count EXCEPT ![l] = @ - 1]
      /\ q' = [q EXCEPT ![l] = RemoveAt(@, 1)]
      /\ ret' \in Nodes \cup {NULL, 0, 1}
  <2> HIDE DEF n
  <2>1. Stop(l, q[l], 1 - 1) = l /\ Stop(l, q[l], 1 + 1) = next[n]
    BY <1>3, <1>4
  <2> QED
    BY <2>1, <1>2, <1>4, <1>5 DEF Unlink
<1> QED
  BY <1>1, <1>2, <1>6, Removal

(* The pointers, the counter and the answers are well-formed, and the       *)
(* pointers stand for q, after any step of the module.                      *)
LEMMA NextIInv == IInv /\ [Next]_vars => IInv'
<1> SUFFICES ASSUME IInv, [Next]_vars PROVE IInv'
  OBVIOUS
<1>1. ASSUME q' = q, next' = next, prev' = prev, count' = count,
             clearing' \in Lists \cup {NULL}, ret' \in Nodes \cup {NULL, 0, 1}
      PROVE  IInv'
  BY <1>1 DEF IInv, TypeOK, Represents, Chained, Chain, Exclusive
<1>2. CASE UNCHANGED vars
  BY <1>1, <1>2 DEF vars, IInv, TypeOK
<1>3. ASSUME NEW l \in Lists, clear_list_pop(l) PROVE IInv'
  BY <1>3, UnlinkIInv DEF clear_list_pop, IInv, TypeOK
<1>4. ASSUME NEW l \in Lists, clear_list_done(l) PROVE IInv'
  BY <1>1, <1>4 DEF clear_list_done
<1>5. ASSUME NEW l \in Lists, pop(l) PROVE IInv'
  BY <1>5, UnlinkIInv DEF pop, list_is_empty
<1>6. ASSUME NEW l \in Lists, pop_empty(l) PROVE IInv'
  BY <1>1, <1>6 DEF pop_empty, IInv, TypeOK
<1>7. ASSUME NEW l \in Lists, peek(l) PROVE IInv'
  <2>1. ASSUME ~ list_is_empty(l) PROVE next[l] \in Nodes
    <3>1. /\ Len(q[l]) \in Nat /\ Chain(l) /\ 0 \in 0..Len(q[l]) /\ 1 \in 1..Len(q[l])
      BY <2>1, Stops DEF list_is_empty, Chain, IInv, Represents, Chained
    <3>2. next[Stop(l, q[l], 0)] = Stop(l, q[l], 0 + 1) /\ Stop(l, q[l], 0) = l
      BY <3>1 DEF Chain, Stop
    <3>3. Stop(l, q[l], 1) \in Nodes
      BY <3>1, Stops
    <3> QED
      BY <3>2, <3>3
  <2> QED
    BY <1>1, <1>7, <2>1 DEF peek, IInv, TypeOK
<1>8. ASSUME NEW l \in Lists, clear_list(l) PROVE IInv'
  BY <1>1, <1>8 DEF clear_list, IInv, TypeOK
<1>9. ASSUME NEW l \in Lists, NEW n \in Nodes, list_contains(l, n) PROVE IInv'
  BY <1>1, <1>9 DEF list_contains, IInv, TypeOK
<1>10. ASSUME NEW n \in Nodes, list_remove_broken(n) PROVE IInv'
  BY <1>1, <1>10 DEF list_remove_broken, IInv, TypeOK
<1> QED
  BY <1>2, <1>3, <1>4, <1>5, <1>6, <1>7, <1>8, <1>9, <1>10,
     InsertTailIInv, InsertHeadIInv, ListRemoveIInv DEF Next, ClearStep

LEMMA Always == Spec => []IInv
  BY InitIInv, NextIInv, PTL DEF Spec

(* next, prev, head, tail and count keep their types: a node points at nodes,*)
(* and count neither wraps below 0 nor passes the number of nodes.          *)
THEOREM ListTypes == Spec => []TypeOK
<1>1. IInv => TypeOK
  BY DEF IInv
<1> QED
  BY <1>1, Always, PTL

(* The pointer manipulation of list.c (insert_tail .. clear_list) represents*)
(* the sequences its clients believe in, for any lists and any nodes.       *)
THEOREM ListCorrect == Spec => []Represents
<1>1. IInv => Represents
  BY DEF IInv
<1> QED
  BY <1>1, Always, PTL
-----------------------------------------------------------------------------
(* The refinement: what the pointers say, read along next, is q, and every  *)
(* operation does with it what FifoLists says.                              *)

LEMMA EuclidIs ==
  ASSUME NEW n \in Nat \ {0}, NEW d \in Nat, NEW r \in 0..(n - 1)
  PROVE  (n * d + r) % n = r
  OBVIOUS

(* Going round a lap of n places.                                           *)
LEMMA NextPlace ==
  ASSUME NEW n \in Nat \ {0}, NEW j \in Nat
  PROVE  /\ j % n \in 0..(n - 1)
         /\ (j + 1) % n = IF j % n = n - 1 THEN 0 ELSE (j % n) + 1
<1> DEFINE d == j \div n
           r == j % n
<1>1. d \in Nat /\ r \in 0..(n - 1) /\ j = n * d + r
  OBVIOUS
<1> HIDE DEF d, r
<1>2. CASE r = n - 1
  <2>1. j + 1 = n * (d + 1) + 0 /\ d + 1 \in Nat /\ 0 \in 0..(n - 1)
    BY <1>1, <1>2
  <2>2. (j + 1) % n = 0
    BY <2>1, EuclidIs
  <2> QED
    BY <1>1, <1>2, <2>2 DEF r
<1>3. CASE r # n - 1
  <2>1. j + 1 = n * d + (r + 1) /\ r + 1 \in 0..(n - 1)
    BY <1>1, <1>3
  <2>2. (j + 1) % n = r + 1
    BY <1>1, <2>1, EuclidIs
  <2> QED
    BY <1>1, <1>3, <2>2 DEF r
<1> QED
  BY <1>2, <1>3

(* A traversal meets the stops of the list in order, and is back at the     *)
(* sentinel after the last.                                                 *)
LEMMA WalkStops ==
  ASSUME IInv, NEW l \in Lists, NEW k \in 0..(Len(q[l]) + 1)
  PROVE  Walk(l, k) = Stop(l, q[l], k)
<1> DEFINE last == Len(q[l])
           lap == last + 1
           walk == CHOOSE f : f = [j \in Nat |-> IF j = 0 THEN l
                                     ELSE IF f[j - 1] \in Addr THEN next[f[j - 1]]
                                     ELSE f[j - 1]]
           round == [j \in Nat |-> Stop(l, q[l], j % lap)]
<1>1. last \in Nat /\ lap \in Nat \ {0} /\ Chain(l)
  BY Stops DEF IInv, Represents, Chained
<1>2. Stop(l, q[l], 0) = l /\ Stop(l, q[l], lap) = l
  BY DEF Stop
<1>3. \A i \in 0..last : /\ Stop(l, q[l], i) \in Addr
                          /\ next[Stop(l, q[l], i)] = Stop(l, q[l], i + 1)
  BY <1>1, Stops DEF Chain
<1>4. round = [j \in Nat |-> IF j = 0 THEN l
                             ELSE IF round[j - 1] \in Addr THEN next[round[j - 1]]
                             ELSE round[j - 1]]
  <2> HIDE DEF lap
  <2>1. round[0] = l
    <3>1. 0 % lap = 0
      BY <1>1, EuclidIs
    <3> QED
      BY <3>1, <1>2
  <2>2. ASSUME NEW j \in Nat \ {0}
        PROVE  round[j - 1] \in Addr /\ round[j] = next[round[j - 1]]
    <3> DEFINE i == (j - 1) % lap
    <3>1. j - 1 \in Nat /\ (j - 1) + 1 = j
      OBVIOUS
    <3>2. /\ i \in 0..(lap - 1)
          /\ j % lap = IF i = lap - 1 THEN 0 ELSE i + 1
      BY <1>1, <3>1, NextPlace
    <3>3. round[j - 1] = Stop(l, q[l], i) /\ round[j] = Stop(l, q[l], j % lap)
      BY <3>1
    <3> HIDE DEF i, round
    <3>4. i \in 0..last /\ (i = lap - 1 => i + 1 = lap)
      BY <1>1, <3>2 DEF lap
    <3>5. Stop(l, q[l], j % lap) = Stop(l, q[l], i + 1)
      BY <1>2, <3>2, <3>4
    <3> QED
      BY <1>3, <3>3, <3>4, <3>5
  <2>3. \A j \in Nat : round[j] = IF j = 0 THEN l
                             ELSE IF round[j - 1] \in Addr THEN next[round[j - 1]]
                             ELSE round[j - 1]
    <3> HIDE DEF round
    <3> QED
      BY <2>1, <2>2
  <2> QED
    BY <2>3, Zenon
<1>5. walk = [j \in Nat |-> IF j = 0 THEN l
                            ELSE IF walk[j - 1] \in Addr THEN next[walk[j - 1]]
                            ELSE walk[j - 1]]
  <2> HIDE DEF round
  <2> QED
    BY <1>4
<1>6. \A j \in Nat : Walk(l, j) = walk[j]
  BY DEF Walk
<1> HIDE DEF walk, round
<1>7. \A j \in 0..lap : walk[j] = Stop(l, q[l], j)
  <2> DEFINE Wrong == {j \in 0..lap : walk[j] # Stop(l, q[l], j)}
  <2> SUFFICES ASSUME Wrong # {} PROVE FALSE
    OBVIOUS
  <2>1. PICK j \in Wrong : \A i \in Wrong : j <= i
    <3>1. Wrong \in SUBSET Nat
      BY <1>1
    <3> HIDE DEF Wrong
    <3> QED
      BY <3>1, LeastNatural
  <2>2. j \in 0..lap /\ walk[j] # Stop(l, q[l], j)
    OBVIOUS
  <2>3. walk[0] = l
    BY <1>5
  <2>4. /\ j # 0 /\ j \in Nat /\ j - 1 \in Nat /\ j - 1 \in 0..last
        /\ (j - 1) + 1 = j /\ j - 1 \in 0..lap /\ ~ (j <= j - 1)
    BY <1>1, <1>2, <2>2, <2>3
  <2>5. walk[j - 1] = Stop(l, q[l], j - 1)
    BY <2>1, <2>4
  <2>6. walk[j] = IF walk[j - 1] \in Addr THEN next[walk[j - 1]] ELSE walk[j - 1]
    <3> HIDE DEF Wrong
    <3> QED
      BY <1>5, <2>4
  <2> QED
    BY <1>3, <2>2, <2>4, <2>5, <2>6
<1> QED
  BY <1>1, <1>6, <1>7

LEMMA ContentsIsQ ==
  ASSUME IInv
  PROVE  [l \in Lists |-> Contents(l)] = q
<1>1. ASSUME NEW l \in Lists
      PROVE  Contents(l) = q[l]
  <2>1. /\ q[l] \in Seq(Nodes) /\ Len(q[l]) \in Nat /\ count[l] = Len(q[l])
    BY Stops DEF IInv, TypeOK, Represents, Chained, Chain
  <2>2. \A k \in 1..Len(q[l]) : Walk(l, k) = q[l][k]
    BY <2>1, WalkStops DEF Stop
  <2>3. q[l] = [k \in 1..Len(q[l]) |-> q[l][k]]
    BY <2>1
  <2> QED
    BY <2>1, <2>2, <2>3 DEF Contents
<1>2. q = [l \in Lists |-> q[l]]
  BY DEF IInv, TypeOK
<1> QED
  BY <1>1, <1>2

(* FifoLists has its own instances of the operators on sequences.           *)
LEMMA FifoOperators ==
  /\ \A s, e : Fifo!Contains(s, e) <=> \E i \in 1..Len(s) : s[i] = e
  /\ \A s, e : Fifo!Cons(e, s) = Cons(e, s)
  /\ \A s, e : Fifo!RemoveFirst(s, e) = RemoveFirst(s, e)
<1>1. \A s, e : Fifo!Contains(s, e) <=> \E i \in 1..Len(s) : s[i] = e
  BY DEF Fifo!Contains
<1>2. \A s, e : Fifo!Cons(e, s) = Cons(e, s)
  BY DEF Fifo!Cons, Cons
<1>3. \A s, e : Fifo!RemoveFirst(s, e) = RemoveFirst(s, e)
  BY DEF Fifo!RemoveFirst, RemoveFirst, Fifo!RemoveAt, RemoveAt,
         Fifo!SelectInSeq, SelectInSeq, Fifo!Min, Min
<1> QED
  BY <1>1, <1>2, <1>3

LEMMA ContentsPrimed ==
  IInv' => ([l \in Lists |-> Contents(l)] = q)'
<1>1. IInv => [l \in Lists |-> Contents(l)] = q
  BY ContentsIsQ
<1> QED
  BY <1>1, PTL

LEMMA ContentsNow ==
  ASSUME IInv, IInv'
  PROVE  /\ [l \in Lists |-> Contents(l)] = q
         /\ [l \in Lists |-> Contents(l)'] = q'
BY ContentsIsQ, ContentsPrimed

LEMMA InsertsMap ==
  ASSUME IInv, IInv', NEW l \in Lists, NEW n \in Nodes,
         insert_tail(l, n) \/ insert_head(l, n)
  PROVE  Fifo!InsertTail(l, n) \/ Fifo!InsertHead(l, n)
<1>1. /\ [m \in Lists |-> Contents(m)] = q
      /\ [m \in Lists |-> Contents(m)'] = q'
  BY ContentsNow
<1> QED
  BY <1>1, FifoOperators
  DEF insert_tail, insert_head, Unlinked, Fifo!InsertTail, Fifo!InsertHead, Fifo!Unlinked

(* list_remove of the i-th node: it is nowhere else, so FifoLists takes     *)
(* out the same.                                                            *)
LEMMA ListRemoveMaps ==
  ASSUME IInv, IInv', NEW l \in Lists, NEW n \in Nodes,
         NEW i \in 1..Len(q[l]), list_remove(l, n, i)
  PROVE  Fifo!ListRemove(l, n)
<1>1. /\ q[l][i] = n /\ q[l] \in Seq(Nodes)
      /\ q' = [q EXCEPT ![l] = RemoveAt(@, i)] /\ ret' = NULL
  BY DEF list_remove, IInv, TypeOK
<1>2. Once(q[l])
  BY DEF IInv, Represents, Exclusive, Once
<1>3. RemoveFirst(q[l], n) = RemoveAt(q[l], i)
  BY <1>1, <1>2, RemoveFirstIs
<1>4. /\ [m \in Lists |-> Contents(m)] = q
      /\ [m \in Lists |-> Contents(m)'] = q'
  BY ContentsNow
<1> QED
  BY <1>1, <1>3, <1>4, FifoOperators DEF Fifo!ListRemove

(* Of a node that is in no list, both leave q alone.                        *)
LEMMA RemoveBrokenMaps ==
  ASSUME IInv, IInv', NEW n \in Nodes, list_remove_broken(n)
  PROVE  Fifo!RemoveUnlinked(n)
<1>1. /\ [m \in Lists |-> Contents(m)] = q
      /\ [m \in Lists |-> Contents(m)'] = q'
  BY ContentsNow
<1> QED
  BY <1>1, FifoOperators
  DEF list_remove_broken, Unlinked, Fifo!RemoveUnlinked, Fifo!Unlinked

(* The head of a list that is not empty is behind its sentinel.             *)
LEMMA HeadIs ==
  ASSUME IInv, NEW l \in Lists
  PROVE  /\ count[l] = 0 <=> q[l] = <<>>
         /\ count[l] > 0 <=> q[l] # <<>>
         /\ q[l] # <<>> => next[l] = Head(q[l])
<1>1. /\ q[l] \in Seq(Nodes) /\ Len(q[l]) \in Nat /\ Chain(l)
  BY Stops DEF IInv, TypeOK, Represents, Chained
<1>2. /\ count[l] = Len(q[l]) /\ next[Stop(l, q[l], 0)] = Stop(l, q[l], 0 + 1)
  BY <1>1 DEF Chain
<1>3. Len(q[l]) = 0 <=> q[l] = <<>>
  BY <1>1, EmptySeq
<1> QED
  BY <1>1, <1>2, <1>3 DEF Stop

LEMMA HeadsMap ==
  ASSUME IInv, IInv', NEW l \in Lists,
         \/ pop(l) \/ pop_empty(l) \/ peek(l)
         \/ clear_list_pop(l) \/ clear_list_done(l)
  PROVE  Fifo!Pop(l) \/ Fifo!PopEmpty(l) \/ Fifo!Peek(l) \/ Fifo!Cleared(l)
<1>1. CASE pop(l) \/ clear_list_pop(l)
  BY <1>1, ContentsNow, HeadIs
  DEF pop, clear_list_pop, list_is_empty, Unlink, Fifo!Pop
<1>2. CASE pop_empty(l)
  BY <1>2, ContentsNow, HeadIs DEF pop_empty, list_is_empty, Fifo!PopEmpty
<1>3. CASE peek(l)
  BY <1>3, ContentsNow, HeadIs DEF peek, list_is_empty, Fifo!Peek
<1>4. CASE clear_list_done(l)
  BY <1>4, ContentsNow, HeadIs DEF clear_list_done, Fifo!Cleared
<1> QED
  BY <1>1, <1>2, <1>3, <1>4

(* A list is not longer than there are nodes: the traversal's bound.        *)
LEMMA LenBounded ==
  ASSUME IInv, NEW l \in Lists
  PROVE  Cardinality(Nodes) \in Nat /\ Len(q[l]) <= Cardinality(Nodes)
<1>1. Len(q[l]) \in Nat /\ q[l] \in [1..Len(q[l]) -> Nodes]
  BY LenProperties DEF IInv, TypeOK
<1>2. q[l] \in Injection(1..Len(q[l]), Nodes)
  BY <1>1 DEF Injection, IsInjective, IInv, Represents, Exclusive
<1>3. IsFiniteSet(Nodes) /\ Cardinality(Nodes) \in Nat
  BY NodesFinite, FS_CardinalityType
<1>4. Cardinality(1..Len(q[l])) = Len(q[l])
  BY <1>1, FS_Interval
<1> QED
  BY <1>1, <1>2, <1>3, <1>4, FS_Injection

LEMMA ListContainsMaps ==
  ASSUME IInv, IInv', NEW l \in Lists, NEW n \in Nodes, list_contains(l, n)
  PROVE  Fifo!ListContains(l, n)
<1> DEFINE last == Len(q[l])
           Met == \E k \in 1..Cardinality(Nodes) :
                     Walk(l, k) = n /\ \A j \in 1..k : Walk(l, j) # l
<1>1. /\ last \in Nat /\ Cardinality(Nodes) \in Nat /\ last <= Cardinality(Nodes)
  BY Stops, LenBounded
<1>2. /\ \A k \in 1..last : Walk(l, k) = q[l][k] /\ Walk(l, k) # l
      /\ Walk(l, last + 1) = l
  <2>1. \A k \in 1..(last + 1) : Walk(l, k) = Stop(l, q[l], k)
    BY <1>1, WalkStops
  <2>2. \A k \in 1..last : Stop(l, q[l], k) = q[l][k] /\ Stop(l, q[l], k) \in Nodes
    BY <1>1, Stops DEF Stop
  <2>3. Stop(l, q[l], last + 1) = l /\ l \notin Nodes
    BY PointersDiffer DEF Stop
  <2> QED
    BY <1>1, <2>1, <2>2, <2>3
<1>3. Met <=> \E k \in 1..last : q[l][k] = n
  <2>1. ASSUME NEW k \in 1..Cardinality(Nodes), Walk(l, k) = n, \A j \in 1..k : Walk(l, j) # l
        PROVE  k \in 1..last /\ q[l][k] = n
    <3>1. ~ (last + 1 \in 1..k)
      BY <1>2, <2>1
    <3> QED
      BY <1>1, <1>2, <2>1, <3>1
  <2>2. ASSUME NEW k \in 1..last, q[l][k] = n
        PROVE  Met
    <3>1. k \in 1..Cardinality(Nodes) /\ Walk(l, k) = n /\ \A j \in 1..k : Walk(l, j) # l
      BY <1>1, <1>2, <2>2
    <3> QED
      BY <3>1
  <2> QED
    BY <2>1, <2>2
<1>4. q' = q /\ ret' = IF Met THEN 1 ELSE 0
  BY DEF list_contains
<1> QED
  BY <1>3, <1>4, ContentsNow, FifoOperators DEF Fifo!ListContains

LEMMA NextMapsToFifo ==
  ASSUME IInv, IInv', [Next]_vars
  PROVE  [Fifo!Next]_(Fifo!fifo)
<1>1. CASE UNCHANGED vars \/ \E l \in Lists : clear_list(l)
  BY <1>1, ContentsNow DEF vars, clear_list, Fifo!fifo
<1>2. ASSUME NEW l \in Lists,
             \/ pop(l) \/ pop_empty(l) \/ peek(l)
             \/ clear_list_pop(l) \/ clear_list_done(l)
      PROVE  Fifo!Next
  BY <1>2, HeadsMap DEF Fifo!Next
<1>3. ASSUME NEW l \in Lists, NEW n \in Nodes,
             \/ insert_tail(l, n) \/ insert_head(l, n) \/ list_contains(l, n)
             \/ \E i \in 1..Len(q[l]) : list_remove(l, n, i)
      PROVE  Fifo!Next
  BY <1>3, InsertsMap, ListRemoveMaps, ListContainsMaps DEF Fifo!Next
<1>4. ASSUME NEW n \in Nodes, list_remove_broken(n)
      PROVE  [Fifo!Next]_(Fifo!fifo)
  BY <1>4, RemoveBrokenMaps DEF Fifo!Next
<1> QED
  BY <1>1, <1>2, <1>3, <1>4 DEF Next, ClearStep

(* The pointers are a refinement of the sequences list.h promises: whatever *)
(* its clients see of a list, its order and the answers, is FifoLists'.     *)
THEOREM FifoRefined == Spec => ImplementsFifo
<1>1. Init => Fifo!Init
  BY InitIInv, ContentsIsQ DEF Init, Fifo!Init
<1>2. IInv /\ IInv' /\ [Next]_vars => [Fifo!Next]_(Fifo!fifo)
  BY NextMapsToFifo
<1> QED
  BY <1>1, <1>2, InitIInv, NextIInv, PTL DEF Spec, ImplementsFifo, Fifo!Spec
=============================================================================
