---------------------------- MODULE SchedProofs ----------------------------
(* What the abstract scheduler's steps keep, for the components on it: a    *)
(* process is ready, delayed or dead, and in its list once; nobody joins    *)
(* the lists but those the step is about, and nobody ready is overtaken.    *)
EXTENDS Sched, SeqLemmas, FiniteSetTheorems

States6 == {"DEFAULT", "RUNNING", "READY", "DELAYED", "BLOCKED", "ZOMBIE"}

(* A queue_node is in zombie_queue.                                         *)
Dead(p) == p \in Procs /\ state[p] = "ZOMBIE"

SchedOK == /\ current \in Procs
           /\ state \in [Procs -> States6]
           /\ ready \in Seq(Procs) /\ Once(ready)
           /\ delayed \subseteq Procs
           /\ \A p : ~ (At(ready, p) /\ p \in delayed)
           /\ \A p : Dead(p) => ~ At(ready, p) /\ p \notin delayed

(* A queue_node is in ready_queue or delay_queue.                           *)
Listed(p) == At(ready, p) \/ p \in delayed

(* At and Once are what the modules write with ToSet and IsInjective.       *)
LEMMA AtIsMember ==
  ASSUME NEW S, NEW q \in Seq(S)
  PROVE  /\ \A p : p \in ToSet(q) <=> At(q, p)
         /\ Once(q) <=> IsInjective(q)
  BY LenProperties DEF ToSet, At, Once, IsInjective

(* What SetToSeqs answers: each element at most once, and nothing else.     *)
LEMMA SetToSeqsOnce ==
  ASSUME NEW S, NEW W \in SUBSET S, IsFiniteSet(W), NEW w \in SetToSeqs(W)
  PROVE  w \in Seq(S) /\ Once(w) /\ \A p : At(w, p) => p \in W
<1>1. Cardinality(W) \in Nat
  BY FS_CardinalityType
<1>2. /\ w \in [1..Cardinality(W) -> W]
      /\ \A i, j \in 1..Cardinality(W) : i # j => w[i] # w[j]
  BY DEF SetToSeqs
<1>3. w \in Seq(S) /\ Len(w) = Cardinality(W)
  BY <1>1, <1>2
<1> QED
  BY <1>2, <1>3 DEF Once, At

(* schedule takes the first of the ready, or idle.                          *)
LEMMA ScheduleTakes ==
  ASSUME Idle \in Procs,
         NEW r \in Seq(Procs), Once(r), NEW st \in [Procs -> States6],
         schedule(r, st)
  PROVE  /\ current' \in Procs
         /\ state' \in [Procs -> States6]
         /\ ready' \in Seq(Procs) /\ Once(ready')
         /\ \A p : At(ready', p) => At(r, p)
         /\ \A p \in Procs : state'[p] \in {st[p], "RUNNING"}
<1>1. CASE r = <<>>
  BY <1>1 DEF schedule, States6
<1>2. CASE r # <<>>
  <2>1. Head(r) \in Procs /\ Tail(r) \in Seq(Procs) /\ Once(Tail(r))
    BY <1>2, TailOnce
  <2>2. \A p : At(Tail(r), p) => At(r, p)
    BY <1>2, TailOnce
  <2> QED
    BY <1>2, <2>1, <2>2 DEF schedule, States6
<1> QED
  BY <1>1, <1>2

(* The current process leaves for delay_queue, or for good.                 *)
LEMMA LeavesKeeps ==
  ASSUME Idle \in Procs, SchedOK, ~ Listed(current), Delay \/ Exit
  PROVE  /\ SchedOK'
         /\ \A p : Listed(p)' => Listed(p) \/ p = current
         /\ \A p : Dead(p)' => Dead(p) \/ p = current
<1>1. PICK s \in States6 :
        /\ Leaves(s)
        /\ delayed' = IF s = "ZOMBIE" THEN delayed ELSE delayed \cup {current}
  <2>1. CASE Delay
    BY <2>1 DEF Delay, States6
  <2>2. CASE Exit
    BY <2>2 DEF Exit, States6
  <2> QED
    BY <2>1, <2>2
<1>2. [state EXCEPT ![current] = s] \in [Procs -> States6]
  BY DEF SchedOK
<1>3. /\ current' \in Procs
      /\ state' \in [Procs -> States6]
      /\ ready' \in Seq(Procs) /\ Once(ready')
      /\ \A p : At(ready', p) => At(ready, p)
      /\ \A p \in Procs : state'[p] \in {[state EXCEPT ![current] = s][p], "RUNNING"}
  BY <1>1, <1>2, ScheduleTakes DEF Leaves, SchedOK
<1>4. \A p : Dead(p)' => IF p = current THEN s = "ZOMBIE" ELSE Dead(p)
  <2>1. \A p \in Procs : state'[p] \in {IF p = current THEN s ELSE state[p], "RUNNING"}
    BY <1>3 DEF SchedOK
  <2> QED
    BY <2>1 DEF Dead
<1>5. \A p : Dead(p)' => ~ At(ready', p) /\ p \notin delayed'
  BY <1>1, <1>3, <1>4 DEF SchedOK, Listed
<1> QED
  BY <1>1, <1>3, <1>4, <1>5 DEF SchedOK, Listed

(* The clock moves processes from one list to the other.                    *)
LEMMA TickKeeps ==
  ASSUME Idle \in Procs, IsFiniteSet(Procs), SchedOK, Tick
  PROVE  /\ SchedOK'
         /\ \A p : Listed(p)' => Listed(p)
         /\ \A p : Dead(p)' => Dead(p)
<1> DEFINE st(W) == [p \in Procs |-> IF p \in W THEN "READY" ELSE state[p]]
<1>0. PICK W \in SUBSET delayed : \E w \in SetToSeqs(W) :
        /\ delayed' = delayed \ W
        /\ \/ schedule(ready \o w, [st(W) EXCEPT ![current] = "DEFAULT"])
           \/ ready' = ready \o w /\ state' = st(W) /\ UNCHANGED current
  BY DEF Tick
<1>1. PICK w \in SetToSeqs(W) :
        /\ delayed' = delayed \ W
        /\ \/ schedule(ready \o w, [st(W) EXCEPT ![current] = "DEFAULT"])
           \/ ready' = ready \o w /\ state' = st(W) /\ UNCHANGED current
  BY <1>0
<1>2. W \in SUBSET Procs /\ IsFiniteSet(W)
  BY FS_Subset DEF SchedOK
<1>3. w \in Seq(Procs) /\ Once(w) /\ \A p : At(w, p) => p \in W
  BY <1>2, SetToSeqsOnce
<1>4. \A p : ~ (At(ready, p) /\ At(w, p))
  BY <1>3 DEF SchedOK
<1> DEFINE r == ready \o w
<1>5. /\ r \in Seq(Procs)
      /\ Once(r)
      /\ \A p : At(r, p) <=> At(ready, p) \/ At(w, p)
  BY <1>3, <1>4, ConcatOnce DEF SchedOK
<1>6. st(W) \in [Procs -> States6] /\ [st(W) EXCEPT ![current] = "DEFAULT"] \in [Procs -> States6]
  BY DEF SchedOK, States6
<1>9. \A p \in Procs : st(W)[p] \in {state[p], "READY"}
  OBVIOUS
<1> HIDE DEF r, st
<1>7. /\ current' \in Procs
      /\ state' \in [Procs -> States6]
      /\ ready' \in Seq(Procs) /\ Once(ready')
      /\ \A p : At(ready', p) => At(r, p)
      /\ \A p : Dead(p)' => Dead(p)
  <2>1. CASE schedule(ready \o w, [st(W) EXCEPT ![current] = "DEFAULT"])
    <3>1. /\ current' \in Procs
          /\ state' \in [Procs -> States6]
          /\ ready' \in Seq(Procs) /\ Once(ready')
          /\ \A p : At(ready', p) => At(r, p)
          /\ \A p \in Procs : state'[p] \in {[st(W) EXCEPT ![current] = "DEFAULT"][p], "RUNNING"}
      BY <1>5, <1>6, <2>1, ScheduleTakes DEF r
    <3>2. \A p \in Procs : state'[p] \in {state[p], "READY", "DEFAULT", "RUNNING"}
      BY <1>6, <1>9, <3>1
    <3> QED
      BY <3>1, <3>2 DEF Dead
  <2>2. CASE ready' = ready \o w /\ state' = st(W) /\ UNCHANGED current
    BY <1>5, <1>6, <1>9, <2>2 DEF r, SchedOK, Dead
  <2> QED
    BY <1>1, <2>1, <2>2
<1>8. \A p : At(ready', p) => At(ready, p) \/ p \in W
  BY <1>3, <1>5, <1>7
<1>10. delayed' = delayed \ W
  BY <1>1
<1>11. \A p : Dead(p)' => ~ At(ready', p) /\ p \notin delayed'
  BY <1>7, <1>8, <1>10 DEF SchedOK
<1> QED
  BY <1>1, <1>7, <1>8, <1>10, <1>11 DEF SchedOK, Listed

(* At boot, or with all processes forked, nobody is delayed.                *)
LEMMA AllForkedOK ==
  ASSUME Idle \in Procs, IsFiniteSet(Procs), AllForked
  PROVE  SchedOK
<1> DEFINE W == Procs \ {Idle, current}
<1>1. W \in SUBSET Procs /\ IsFiniteSet(W)
  BY FS_Subset
<1>2. ready \in SetToSeqs(W)
  BY DEF AllForked
<1> HIDE DEF W
<1>3. ready \in Seq(Procs) /\ Once(ready)
  BY <1>1, <1>2, SetToSeqsOnce
<1> QED
  BY <1>3 DEF AllForked, SchedOK, States, States6, Dead
-----------------------------------------------------------------------------
(* The order in which the ready run.                                        *)
LEMMA ReadyGrows ==
  ASSUME ready \in Seq(Procs), NEW t \in Seq(Procs), ready' = ready \o t
  PROVE  ReadyInLine
BY JoinedAtEnd DEF ReadyInLine, Joined

LEMMA ReadyStays ==
  ASSUME ready \in Seq(Procs), ready' = ready
  PROVE  ReadyInLine
<1>1. ready \o <<>> = ready /\ <<>> \in Seq(Procs)
  BY ConcatEmptySeq
<1> QED
  BY <1>1, ReadyGrows

LEMMA ScheduleInLine ==
  ASSUME ready \in Seq(Procs), NEW t \in Seq(Procs), NEW st, schedule(ready \o t, st)
  PROVE  ReadyInLine
<1> DEFINE r == ready \o t
<1>1. r \in Seq(Procs) /\ (ready = <<>> => r = t)
  BY ConcatProperties, ConcatEmptySeq
<1>2. CASE ready = <<>>
  <2>1. ready' \in Seq(Procs)
    <3>1. r # <<>> => Tail(r) \in Seq(Procs)
      BY <1>1, HeadTailProperties
    <3> HIDE DEF r
    <3>2. ready' = IF r = <<>> THEN r ELSE Tail(r)
      BY DEF schedule, r
    <3> QED
      BY <1>1, <3>1, <3>2
  <2>2. ready \o ready' = ready'
    BY <1>2, <2>1, ConcatEmptySeq
  <2> QED
    BY <2>1, <2>2, ReadyGrows
<1>3. CASE ready # <<>>
  <2>1. r # <<>> /\ Head(r) = Head(ready) /\ IsPrefix(Tail(ready), Tail(r))
    BY <1>3, HeadLeavesFirst
  <2> QED
    BY <1>3, <2>1 DEF schedule, ReadyInLine, HeadLeaves
<1> QED
  BY <1>2, <1>3

LEMMA SchedInLine ==
  ASSUME IsFiniteSet(Procs), SchedOK, Delay \/ Exit \/ Tick
  PROVE  ReadyInLine
<1>1. ready \in Seq(Procs)
  BY DEF SchedOK
<1>2. CASE Delay \/ Exit
  <2>1. PICK st : schedule(ready, st)
    BY <1>2 DEF Delay, Exit, Leaves
  <2>2. ready \o <<>> = ready /\ <<>> \in Seq(Procs)
    BY <1>1, ConcatEmptySeq
  <2> QED
    BY <1>1, <2>1, <2>2, ScheduleInLine
<1>3. CASE Tick
  <2>0. PICK W \in SUBSET delayed : \E w \in SetToSeqs(W) :
          ready' = ready \o w \/ \E st : schedule(ready \o w, st)
    BY <1>3 DEF Tick
  <2>1. PICK w \in SetToSeqs(W) : ready' = ready \o w \/ \E st : schedule(ready \o w, st)
    BY <2>0
  <2>2. w \in Seq(Procs)
    <3>1. W \in SUBSET Procs /\ IsFiniteSet(W)
      BY FS_Subset DEF SchedOK
    <3> QED
      BY <3>1, SetToSeqsOnce
  <2> QED
    BY <1>1, <2>1, <2>2, ReadyGrows, ScheduleInLine
<1> QED
  BY <1>2, <1>3
=============================================================================
