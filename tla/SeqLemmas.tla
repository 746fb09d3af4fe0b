----------------------------- MODULE SeqLemmas -----------------------------
(* Facts about the sequences that stand for the kernel's lists: what        *)
(* insertion and removal do to their elements and their order; and the      *)
(* least number principle, for what is defined by recursion.                *)
EXTENDS SequencesExt, SequenceTheorems, WellFoundedInduction, TLAPS

(* list_remove's sequence: the i-th element is left out, the others keep    *)
(* their order.                                                            *)
LEMMA RemoveAtProperties ==
  ASSUME NEW S, NEW s \in Seq(S), NEW i \in 1..Len(s)
  PROVE  /\ RemoveAt(s, i) \in Seq(S)
         /\ Len(RemoveAt(s, i)) = Len(s) - 1
         /\ \A j \in 1..(Len(s) - 1) :
               RemoveAt(s, i)[j] = IF j < i THEN s[j] ELSE s[j + 1]
<1>1. \A j \in 1..Len(s) : s[j] \in S
  BY ElementOfSeq
<1>2. /\ SubSeq(s, 1, i - 1) \in Seq(S)
      /\ Len(SubSeq(s, 1, i - 1)) = i - 1
      /\ \A j \in 1..(i - 1) : SubSeq(s, 1, i - 1)[j] = s[j]
  BY <1>1, SubSeqProperties, LenProperties
<1>3. /\ SubSeq(s, i + 1, Len(s)) \in Seq(S)
      /\ Len(SubSeq(s, i + 1, Len(s))) = Len(s) - i
      /\ \A j \in 1..(Len(s) - i) : SubSeq(s, i + 1, Len(s))[j] = s[j + i]
  BY <1>1, SubSeqProperties, LenProperties
<1> DEFINE a == SubSeq(s, 1, i - 1)
           b == SubSeq(s, i + 1, Len(s))
<1>4. /\ a \o b \in Seq(S)
      /\ Len(a \o b) = Len(a) + Len(b)
      /\ \A j \in 1..(Len(a) + Len(b)) :
            (a \o b)[j] = IF j <= Len(a) THEN a[j] ELSE b[j - Len(a)]
  <2> HIDE DEF a, b
  <2> QED
    BY <1>2, <1>3, ConcatProperties DEF a, b
<1>5. Len(s) \in Nat
  BY LenProperties
<1>6. RemoveAt(s, i) = a \o b
  BY DEF RemoveAt
<1>7. /\ Len(a) = i - 1 /\ \A j \in 1..(i - 1) : a[j] = s[j]
      /\ Len(b) = Len(s) - i /\ \A j \in 1..(Len(s) - i) : b[j] = s[j + i]
  BY <1>2, <1>3
<1> HIDE DEF a, b
<1>8. ASSUME NEW j \in 1..(Len(s) - 1)
      PROVE  (a \o b)[j] = IF j < i THEN s[j] ELSE s[j + 1]
  <2>1. CASE j < i
    BY <2>1, <1>4, <1>5, <1>7
  <2>2. CASE ~ (j < i)
    <3>1. (a \o b)[j] = b[j - (i - 1)]
      BY <2>2, <1>4, <1>5, <1>7
    <3>2. b[j - (i - 1)] = s[j - (i - 1) + i]
      BY <2>2, <1>5, <1>7
    <3> QED
      BY <2>2, <3>1, <3>2
  <2> QED
    BY <2>1, <2>2
<1> QED
  BY <1>4, <1>5, <1>6, <1>7, <1>8

(* insert_head's sequence.                                                 *)
LEMMA ConsProperties ==
  ASSUME NEW S, NEW s \in Seq(S), NEW e \in S
  PROVE  /\ Cons(e, s) \in Seq(S)
         /\ Len(Cons(e, s)) = Len(s) + 1
         /\ Cons(e, s)[1] = e
         /\ \A j \in 1..Len(s) : Cons(e, s)[j + 1] = s[j]
<1>1. <<e>> \in Seq(S) /\ Len(<<e>>) = 1 /\ <<e>>[1] = e
  OBVIOUS
<1> QED
  BY <1>1, ConcatProperties, LenProperties DEF Cons

-----------------------------------------------------------------------------
(* Queues without repetition.                                              *)
At(q, p) == \E i \in 1..Len(q) : q[i] = p

Once(q) == \A i, j \in 1..Len(q) : q[i] = q[j] => i = j

(* insert_tail of an element that is not in the queue.                      *)
LEMMA AppendOnce ==
  ASSUME NEW S, NEW q \in Seq(S), NEW e \in S, Once(q), ~ At(q, e)
  PROVE  /\ Append(q, e) \in Seq(S)
         /\ Once(Append(q, e))
         /\ \A p : At(Append(q, e), p) <=> At(q, p) \/ p = e
<1>1. /\ Append(q, e) \in Seq(S)
      /\ Len(Append(q, e)) = Len(q) + 1
      /\ \A i \in 1..Len(q) : Append(q, e)[i] = q[i]
      /\ Append(q, e)[Len(q) + 1] = e
  BY AppendProperties
<1>2. Len(q) \in Nat
  BY LenProperties
<1>3. 1..(Len(q) + 1) = (1..Len(q)) \cup {Len(q) + 1}
  BY <1>2
<1> QED
  BY <1>1, <1>2, <1>3 DEF At, Once

(* pop: the head of a queue leaves it.                                      *)
LEMMA TailOnce ==
  ASSUME NEW S, NEW q \in Seq(S), q # <<>>, Once(q)
  PROVE  /\ Head(q) \in S
         /\ At(q, Head(q))
         /\ Tail(q) \in Seq(S)
         /\ Once(Tail(q))
         /\ \A p : At(Tail(q), p) <=> At(q, p) /\ p # Head(q)
<1>1. /\ Tail(q) \in Seq(S)
      /\ Len(Tail(q)) = Len(q) - 1
      /\ \A i \in 1..(Len(q) - 1) : Tail(q)[i] = q[i + 1]
      /\ Head(q) \in S /\ Head(q) = q[1]
  BY HeadTailProperties
<1>2. Len(q) \in Nat \ {0}
  BY LenProperties, EmptySeq
<1>3. Once(Tail(q))
  BY <1>1, <1>2 DEF Once
<1>4. ASSUME NEW p
      PROVE  At(Tail(q), p) <=> At(q, p) /\ p # Head(q)
  <2>1. ASSUME NEW i \in 1..(Len(q) - 1), Tail(q)[i] = p
        PROVE  At(q, p) /\ p # Head(q)
    BY <1>1, <1>2, <2>1 DEF At, Once
  <2>2. ASSUME NEW i \in 1..Len(q), q[i] = p, p # Head(q)
        PROVE  At(Tail(q), p)
    <3>1. i - 1 \in 1..(Len(q) - 1)
      BY <1>1, <1>2, <2>2
    <3> QED
      BY <1>1, <2>2, <3>1 DEF At
  <2> QED
    BY <1>1, <2>1, <2>2 DEF At
<1> QED
  BY <1>1, <1>2, <1>3, <1>4 DEF At

(* list_remove of an element that is in the queue.                          *)
LEMMA RemoveFirstIs ==
  ASSUME NEW S, NEW q \in Seq(S), Once(q), NEW k \in 1..Len(q)
  PROVE  RemoveFirst(q, q[k]) = RemoveAt(q, k)
<1>1. Len(q) \in Nat
  BY LenProperties
<1>2. {i \in 1..Len(q) : q[i] = q[k]} = {k}
  BY DEF Once
<1>3. \A x : x \in {k} /\ (\A y \in {k} : x <= y) <=> x = k
  BY <1>1
<1> QED
  BY <1>2, <1>3 DEF RemoveFirst, SelectInSeq, Min

LEMMA RemoveOnce ==
  ASSUME NEW S, NEW q \in Seq(S), NEW e \in S, Once(q), At(q, e)
  PROVE  /\ RemoveFirst(q, e) \in Seq(S)
         /\ Once(RemoveFirst(q, e))
         /\ \A p : At(RemoveFirst(q, e), p) <=> At(q, p) /\ p # e
<1>1. PICK k \in 1..Len(q) : q[k] = e
  BY DEF At
<1>2. Len(q) \in Nat
  BY LenProperties
<1>4. RemoveFirst(q, e) = RemoveAt(q, k)
  BY <1>1, RemoveFirstIs
<1>5. /\ RemoveAt(q, k) \in Seq(S)
      /\ Len(RemoveAt(q, k)) = Len(q) - 1
      /\ \A j \in 1..(Len(q) - 1) :
            RemoveAt(q, k)[j] = IF j < k THEN q[j] ELSE q[j + 1]
  BY RemoveAtProperties
<1> DEFINE r == RemoveAt(q, k)
<1> HIDE DEF r
<1>6. /\ Len(r) = Len(q) - 1
      /\ \A j \in 1..(Len(q) - 1) : j < k => r[j] = q[j]
      /\ \A j \in 1..(Len(q) - 1) : ~ (j < k) => r[j] = q[j + 1]
  BY <1>5 DEF r
<1>7. Once(r)
  BY <1>1, <1>2, <1>6 DEF Once
<1>8. ASSUME NEW p
      PROVE  At(r, p) <=> At(q, p) /\ p # e
  <2>1. ASSUME NEW j \in 1..(Len(q) - 1), r[j] = p
        PROVE  At(q, p) /\ p # e
    <3>1. CASE j < k
      BY <1>1, <1>2, <1>6, <2>1, <3>1 DEF At, Once
    <3>2. CASE ~ (j < k)
      BY <1>1, <1>2, <1>6, <2>1, <3>2 DEF At, Once
    <3> QED
      BY <3>1, <3>2
  <2>2. ASSUME NEW i \in 1..Len(q), q[i] = p, p # e
        PROVE  At(r, p)
    <3>1. CASE i < k
      BY <1>1, <1>2, <1>6, <2>2, <3>1 DEF At
    <3>2. CASE i > k
      <4>1. i - 1 \in 1..(Len(q) - 1) /\ ~ (i - 1 < k)
        BY <1>1, <1>2, <3>2
      <4>2. r[i - 1] = q[i - 1 + 1]
        BY <1>6, <4>1
      <4> QED
        BY <1>2, <1>6, <2>2, <4>1, <4>2 DEF At
    <3> QED
      BY <1>1, <1>2, <2>2, <3>1, <3>2
  <2> QED
    BY <1>6, <2>1, <2>2 DEF At
<1> QED
  BY <1>4, <1>5, <1>7, <1>8 DEF r

(* The woken go behind the ready.                                           *)
LEMMA ConcatOnce ==
  ASSUME NEW S, NEW q \in Seq(S), NEW t \in Seq(S), Once(q), Once(t),
         \A p : ~ (At(q, p) /\ At(t, p))
  PROVE  /\ q \o t \in Seq(S)
         /\ Once(q \o t)
         /\ \A p : At(q \o t, p) <=> At(q, p) \/ At(t, p)
<1>1. /\ q \o t \in Seq(S)
      /\ Len(q \o t) = Len(q) + Len(t)
      /\ \A i \in 1..(Len(q) + Len(t)) :
            (q \o t)[i] = IF i <= Len(q) THEN q[i] ELSE t[i - Len(q)]
  BY ConcatProperties
<1>2. Len(q) \in Nat /\ Len(t) \in Nat
  BY LenProperties
<1> DEFINE c == q \o t
<1> HIDE DEF c
<1>3. /\ Len(c) = Len(q) + Len(t)
      /\ \A i \in 1..Len(q) : c[i] = q[i]
      /\ \A i \in 1..Len(t) : c[Len(q) + i] = t[i]
  BY <1>1, <1>2 DEF c
<1>4. ASSUME NEW i \in 1..Len(c)
      PROVE  \/ i \in 1..Len(q)
             \/ i - Len(q) \in 1..Len(t) /\ c[i] = t[i - Len(q)]
  <2>1. CASE i > Len(q)
    <3>1. i - Len(q) \in 1..Len(t)
      BY <1>2, <1>3, <2>1
    <3>2. c[Len(q) + (i - Len(q))] = t[i - Len(q)]
      BY <1>3, <3>1
    <3> QED
      BY <1>2, <1>3, <3>1, <3>2
  <2> QED
    BY <1>2, <1>3, <2>1
<1>5. ASSUME NEW i \in 1..Len(c), NEW j \in 1..Len(c), c[i] = c[j]
      PROVE  i = j
  <2>1. CASE i \in 1..Len(q) /\ j \in 1..Len(q)
    BY <1>3, <1>5, <2>1 DEF Once
  <2>2. CASE i \in 1..Len(q) /\ j \notin 1..Len(q)
    <3>1. At(q, c[i]) /\ At(t, c[j])
      BY <1>3, <1>4, <2>2 DEF At
    <3> QED
      BY <1>5, <3>1
  <2>3. CASE i \notin 1..Len(q) /\ j \in 1..Len(q)
    <3>1. At(t, c[i]) /\ At(q, c[j])
      BY <1>3, <1>4, <2>3 DEF At
    <3> QED
      BY <1>5, <3>1
  <2>4. CASE i \notin 1..Len(q) /\ j \notin 1..Len(q)
    <3>1. /\ i - Len(q) \in 1..Len(t) /\ c[i] = t[i - Len(q)]
          /\ j - Len(q) \in 1..Len(t) /\ c[j] = t[j - Len(q)]
      BY <1>4, <2>4
    <3>2. i - Len(q) = j - Len(q)
      BY <1>5, <3>1 DEF Once
    <3> QED
      BY <1>2, <1>3, <3>2
  <2> QED
    BY <2>1, <2>2, <2>3, <2>4
<1>6. \A p : At(c, p) <=> At(q, p) \/ At(t, p)
  <2>1. ASSUME NEW p, NEW i \in 1..Len(t), t[i] = p
        PROVE  At(c, p)
    <3>1. Len(q) + i \in 1..Len(c)
      BY <1>2, <1>3
    <3> QED
      BY <1>3, <2>1, <3>1 DEF At
  <2>2. ASSUME NEW p, NEW i \in 1..Len(q), q[i] = p
        PROVE  At(c, p)
    <3>1. i \in 1..Len(c)
      BY <1>2, <1>3
    <3> QED
      BY <1>3, <2>2, <3>1 DEF At
  <2>3. ASSUME NEW p, NEW i \in 1..Len(c), c[i] = p
        PROVE  At(q, p) \/ At(t, p)
    BY <1>3, <1>4, <2>3 DEF At
  <2> QED
    BY <2>1, <2>2, <2>3 DEF At
<1> QED
  BY <1>1, <1>5, <1>6 DEF c, Once

(* A line that is joined at its end, and one whose first element leaves.    *)
LEMMA JoinedAtEnd ==
  ASSUME NEW S, NEW q \in Seq(S), NEW t \in Seq(S)
  PROVE  IsPrefix(q, q \o t)
<1>1. Len(q) \in Nat /\ Len(t) \in Nat /\ Len(q \o t) = Len(q) + Len(t)
  BY LenProperties, ConcatProperties
<1>2. SubSeq(q \o t, 1, Len(q)) = q
  BY SubSeqOfConcat1, SubSeqFull
<1>3. SubSeq(q, 1, Len(q)) = q
  BY SubSeqFull
<1> QED
  BY <1>1, <1>2, <1>3 DEF IsPrefix

LEMMA JoinedByOne ==
  ASSUME NEW S, NEW q \in Seq(S), NEW e \in S
  PROVE  IsPrefix(q, Append(q, e)) /\ IsPrefix(q, q)
<1>1. Append(q, e) = q \o <<e>> /\ <<e>> \in Seq(S)
  BY AppendIsConcat
<1>2. q = q \o <<>> /\ <<>> \in Seq(S)
  BY ConcatEmptySeq
<1> QED
  BY <1>1, <1>2, JoinedAtEnd

LEMMA HeadLeavesFirst ==
  ASSUME NEW S, NEW q \in Seq(S), q # <<>>, NEW t \in Seq(S)
  PROVE  /\ q \o t # <<>> /\ Head(q \o t) = Head(q)
         /\ IsPrefix(Tail(q), Tail(q \o t))
<1>1. /\ Len(q) \in Nat \ {0} /\ Len(t) \in Nat
      /\ q \o t \in Seq(S) /\ Len(q \o t) = Len(q) + Len(t)
      /\ \A i \in 1..(Len(q) + Len(t)) :
            (q \o t)[i] = IF i <= Len(q) THEN q[i] ELSE t[i - Len(q)]
  BY LenProperties, EmptySeq, ConcatProperties
<1>2. q \o t # <<>> /\ Head(q \o t) = Head(q)
  BY <1>1
<1>3. /\ Tail(q) \in Seq(S) /\ Len(Tail(q)) = Len(q) - 1
      /\ \A i \in 1..Len(Tail(q)) : Tail(q)[i] = q[i + 1]
  BY <1>1, HeadTailProperties
<1>4. /\ Tail(q \o t) \in Seq(S) /\ Len(Tail(q \o t)) = Len(q \o t) - 1
      /\ \A i \in 1..Len(Tail(q \o t)) : Tail(q \o t)[i] = (q \o t)[i + 1]
  BY <1>1, <1>2, HeadTailProperties
<1>5. Tail(q \o t) = Tail(q) \o t
  <2>1. /\ Tail(q) \o t \in Seq(S) /\ Len(Tail(q) \o t) = Len(q) - 1 + Len(t)
        /\ \A i \in 1..(Len(q) - 1 + Len(t)) :
              (Tail(q) \o t)[i] = IF i <= Len(q) - 1 THEN Tail(q)[i] ELSE t[i - (Len(q) - 1)]
    BY <1>3, ConcatProperties
  <2> DEFINE a == Tail(q \o t)
             b == Tail(q) \o t
  <2> HIDE DEF a, b
  <2>2. /\ a \in Seq(S) /\ b \in Seq(S) /\ Len(a) = Len(b) /\ Len(a) = Len(q) - 1 + Len(t)
    BY <1>1, <1>4, <2>1 DEF a, b
  <2>3. ASSUME NEW i \in 1..Len(a)
        PROVE  a[i] = b[i]
    <3>1. a[i] = IF i + 1 <= Len(q) THEN q[i + 1] ELSE t[i + 1 - Len(q)]
      BY <1>1, <1>4, <2>2 DEF a
    <3>2. b[i] = IF i <= Len(q) - 1 THEN Tail(q)[i] ELSE t[i - (Len(q) - 1)]
      BY <2>1, <2>2 DEF b
    <3>3. i <= Len(q) - 1 => Tail(q)[i] = q[i + 1]
      BY <1>1, <1>3, <2>2
    <3>4. i \in Nat /\ Len(q) \in Nat /\ i + 1 - Len(q) = i - (Len(q) - 1)
      BY <1>1, <2>2
    <3> QED
      BY <3>1, <3>2, <3>3, <3>4
  <2> QED
    BY <2>2, <2>3, SeqEqual DEF a, b
<1> QED
  BY <1>2, <1>3, <1>5, JoinedAtEnd

(* The least number principle, for a set of numbers.                        *)
LEMMA LeastNatural ==
  ASSUME NEW T \in SUBSET Nat, T # {}
  PROVE  \E x \in T : \A y \in T : x <= y
<1> DEFINE R == {ss \in Nat \X Nat : ss[1] < ss[2]}
<1>1. IsWellFoundedOn(R, Nat)
  BY NatLessThanWellFounded DEF OpToRel
<1>2. PICK x \in T : \A y \in T : ~ (<<y, x>> \in R)
  <2> HIDE DEF R
  <2> QED
    BY <1>1, WFMin
<1>3. \A y \in T : ~ (y < x)
  BY <1>2
<1> QED
  BY <1>3
=============================================================================
