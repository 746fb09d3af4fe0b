--------------------------- MODULE ProcessProofs ---------------------------
(* What the handlers do to the queues of pcb.c: SchedInv says that they     *)
(* agree with the state field of every PCB and that exactly the current     *)
(* process is RUNNING.  A context switch to idle puts RUNNING over idle's   *)
(* state, so the queues stay right only because idle is in none of them,    *)
(* which in turn rests on idle never being forked, a child or a parent.     *)
(*                                                                          *)
(* A Fork keeps SchedInv only if the PCB it is handed was not freed in a    *)
(* queue (SparesIdle, and no "relinked"); FamilyProofs has the invariant    *)
(* that says which PCBs can be freed where, and the theorems.               *)
EXTENDS Process, SeqLemmas

USE DEF PROCESS_DEFAULT, PROCESS_RUNNING, PROCESS_READY, PROCESS_DELAYED,
        PROCESS_BLOCKED, PROCESS_ZOMBIE

Disciplined(st, qu) ==
  /\ st \in [Procs -> State]
  /\ qu \in [Queued -> Seq(Procs)]
  /\ \A s \in Queued : Once(qu[s]) /\ \A p \in Procs : st[p] = s <=> At(qu[s], p)

(* Between the deselection of the current process and the switch. *)
NoneRuns(st) == /\ \A p \in Procs : st[p] # PROCESS_RUNNING
                /\ st[Idle] = PROCESS_DEFAULT

Runs(st, c) == /\ c \in Procs
               /\ \A p \in Procs : st[p] = PROCESS_RUNNING <=> p = c
               /\ st[Idle] \in {PROCESS_DEFAULT, PROCESS_RUNNING}

(* Idle is alive, and related to no process. *)
IdleAlone == /\ heap[Idle] = "live"
             /\ \A p \in Procs : parent[p] # Idle

SchedInv == /\ Disciplined(state, queue)
            /\ Runs(state, current)
            /\ parent \in [Procs -> Procs \cup {NULL}]
            /\ heap \in [Procs -> {"unused", "live", "freed"}]
            /\ IdleAlone

(* A PCB that malloc may hand out was not left ready, delayed or blocked.   *)
SparesIdle ==
  \A p \in Procs : heap[p] # "live" => state[p] \in {PROCESS_DEFAULT, PROCESS_ZOMBIE}
-----------------------------------------------------------------------------
(* What the queue operations do to a disciplined pair of state and queues.  *)

(* add_to_*_queue of a process in no queue.                                 *)
LEMMA Enqueue ==
  ASSUME NEW st, NEW qu, Disciplined(st, qu),
         NEW s \in Queued, NEW p \in Procs, st[p] \notin Queued
  PROVE  Disciplined([st EXCEPT ![p] = s], [qu EXCEPT ![s] = Append(@, p)])
<1>1. ~ At(qu[s], p)
  BY DEF Disciplined
<1>2. qu[s] \in Seq(Procs) /\ Once(qu[s])
  BY DEF Disciplined
<1>3. /\ Append(qu[s], p) \in Seq(Procs)
      /\ Once(Append(qu[s], p))
      /\ \A x : At(Append(qu[s], p), x) <=> At(qu[s], x) \/ x = p
  BY <1>1, <1>2, AppendOnce
<1> DEFINE r == Append(qu[s], p)
           st2 == [st EXCEPT ![p] = s]
           qu2 == [qu EXCEPT ![s] = r]
<1>4. st2 \in [Procs -> State] /\ qu2 \in [Queued -> Seq(Procs)]
  BY <1>3 DEF Disciplined, State
<1>5. ASSUME NEW u \in Queued
      PROVE  Once(qu2[u]) /\ \A x \in Procs : st2[x] = u <=> At(qu2[u], x)
  <2>1. CASE u = s
    <3>1. qu2[u] = r
      BY <2>1 DEF Disciplined
    <3>2. \A x \in Procs : st2[x] = u <=> st[x] = s \/ x = p
      BY <2>1 DEF Disciplined
    <3> HIDE DEF r, st2, qu2
    <3> QED
      BY <1>3, <3>1, <3>2 DEF Disciplined, r
  <2>2. CASE u # s
    <3>1. qu2[u] = qu[u]
      BY <2>2 DEF Disciplined
    <3>2. \A x \in Procs : st2[x] = u <=> st[x] = u
      BY <2>2 DEF Disciplined
    <3> HIDE DEF st2, qu2
    <3> QED
      BY <3>1, <3>2 DEF Disciplined
  <2> QED
    BY <2>1, <2>2
<1> HIDE DEF st2, qu2
<1>6. Disciplined(st2, qu2)
  BY <1>4, <1>5 DEF Disciplined
<1> QED
  BY <1>6 DEF st2, qu2

(* A process leaves its queue, to run (pop in schedule) or to be linked     *)
(* elsewhere (remove_from_*_queue).                                         *)
LEMMA Dequeue ==
  ASSUME NEW st, NEW qu, Disciplined(st, qu),
         NEW s \in Queued, NEW p \in Procs, st[p] = s,
         NEW t \in State \ Queued,
         NEW r \in Seq(Procs), Once(r), \A x : At(r, x) <=> At(qu[s], x) /\ x # p
  PROVE  Disciplined([st EXCEPT ![p] = t], [qu EXCEPT ![s] = r])
<1> DEFINE st2 == [st EXCEPT ![p] = t]
           qu2 == [qu EXCEPT ![s] = r]
<1>1. st2 \in [Procs -> State] /\ qu2 \in [Queued -> Seq(Procs)]
  BY DEF Disciplined
<1>2. ASSUME NEW u \in Queued
      PROVE  Once(qu2[u]) /\ \A x \in Procs : st2[x] = u <=> At(qu2[u], x)
  <2>1. CASE u = s
    <3>1. qu2[u] = r
      BY <2>1 DEF Disciplined
    <3>2. \A x \in Procs : st2[x] = u <=> st[x] = s /\ x # p
      BY <2>1 DEF Disciplined
    <3> HIDE DEF st2, qu2
    <3> QED
      BY <3>1, <3>2 DEF Disciplined
  <2>2. CASE u # s
    <3>1. qu2[u] = qu[u]
      BY <2>2 DEF Disciplined
    <3>2. \A x \in Procs : st2[x] = u <=> st[x] = u
      BY <2>2 DEF Disciplined
    <3> HIDE DEF st2, qu2
    <3> QED
      BY <3>1, <3>2 DEF Disciplined
  <2> QED
    BY <2>1, <2>2
<1> HIDE DEF st2, qu2
<1>3. Disciplined(st2, qu2)
  BY <1>1, <1>2 DEF Disciplined
<1> QED
  BY <1>3 DEF st2, qu2

(* A process in no queue gets another state without a queue.                *)
LEMMA Relabel ==
  ASSUME NEW st, NEW qu, Disciplined(st, qu),
         NEW p \in Procs, st[p] \notin Queued, NEW t \in State \ Queued
  PROVE  Disciplined([st EXCEPT ![p] = t], qu)
<1> DEFINE st2 == [st EXCEPT ![p] = t]
<1>1. st2 \in [Procs -> State]
  BY DEF Disciplined
<1>2. \A u \in Queued, x \in Procs : st2[x] = u <=> st[x] = u
  BY DEF Disciplined
<1> HIDE DEF st2
<1>3. Disciplined(st2, qu)
  BY <1>1, <1>2 DEF Disciplined
<1> QED
  BY <1>3 DEF st2

(* add_to_*_queue: nothing but an unqueued process in state DEFAULT moves.  *)
LEMMA AddToKeeps ==
  ASSUME NEW S, Disciplined(S.state, S.queue), NEW s \in Queued, NEW p \in Procs
  PROVE  /\ Disciplined(AddTo(S, s, p).state, AddTo(S, s, p).queue)
         /\ \A q \in Procs : AddTo(S, s, p).state[q] =
               IF q = p /\ S.state[p] = PROCESS_DEFAULT THEN s ELSE S.state[q]
<1>1. CASE S.state[p] # PROCESS_DEFAULT
  BY <1>1 DEF AddTo
<1>2. CASE S.state[p] = PROCESS_DEFAULT
  <2>1. Disciplined([S.state EXCEPT ![p] = s], [S.queue EXCEPT ![s] = Append(@, p)])
    BY <1>2, Enqueue DEF Queued
  <2>2. \A q \in Procs : [S.state EXCEPT ![p] = s][q] = IF q = p THEN s ELSE S.state[q]
    BY DEF Disciplined
  <2>3. /\ AddTo(S, s, p).state = [S.state EXCEPT ![p] = s]
        /\ AddTo(S, s, p).queue = [S.queue EXCEPT ![s] = Append(@, p)]
    BY <1>2 DEF AddTo
  <2> QED
    BY <1>2, <2>1, <2>2, <2>3
<1> QED
  BY <1>1, <1>2

(* remove_from_*_queue: nothing but a process in that queue moves.          *)
LEMMA RemoveFromKeeps ==
  ASSUME NEW S, Disciplined(S.state, S.queue), NEW s \in Queued, NEW p \in Procs
  PROVE  /\ Disciplined(RemoveFrom(S, s, p).state, RemoveFrom(S, s, p).queue)
         /\ \A q \in Procs : RemoveFrom(S, s, p).state[q] =
               IF q = p /\ S.state[p] = s THEN PROCESS_DEFAULT ELSE S.state[q]
<1>1. CASE S.state[p] # s
  BY <1>1 DEF RemoveFrom
<1>2. CASE S.state[p] = s
  <2> DEFINE r == RemoveFirst(S.queue[s], p)
  <2>1. S.queue[s] \in Seq(Procs) /\ Once(S.queue[s]) /\ At(S.queue[s], p)
    BY <1>2 DEF Disciplined
  <2>2. r \in Seq(Procs) /\ Once(r) /\ \A x : At(r, x) <=> At(S.queue[s], x) /\ x # p
    BY <2>1, RemoveOnce
  <2>3. PROCESS_DEFAULT \in State \ Queued
    BY DEF State, Queued
  <2> HIDE DEF r
  <2>4. Disciplined([S.state EXCEPT ![p] = PROCESS_DEFAULT], [S.queue EXCEPT ![s] = r])
    BY <1>2, <2>2, <2>3, Dequeue
  <2>5. \A q \in Procs : [S.state EXCEPT ![p] = PROCESS_DEFAULT][q] =
           IF q = p THEN PROCESS_DEFAULT ELSE S.state[q]
    BY DEF Disciplined
  <2>6. /\ RemoveFrom(S, s, p).state = [S.state EXCEPT ![p] = PROCESS_DEFAULT]
        /\ RemoveFrom(S, s, p).queue = [S.queue EXCEPT ![s] = r]
    BY <1>2 DEF RemoveFrom, r
  <2> QED
    BY <1>2, <2>4, <2>5, <2>6
<1> QED
  BY <1>1, <1>2

(* KCSwitch to the head of ready_queue, or to idle.                         *)
LEMMA Switch ==
  ASSUME NEW S, Disciplined(S.state, S.queue), NoneRuns(S.state)
  PROVE  /\ Disciplined([S.state EXCEPT ![NextProcess(S)] = PROCESS_RUNNING],
                        IF S.queue[PROCESS_READY] = <<>> THEN S.queue
                        ELSE [S.queue EXCEPT ![PROCESS_READY] = Tail(@)])
         /\ Runs([S.state EXCEPT ![NextProcess(S)] = PROCESS_RUNNING], NextProcess(S))
<1> DEFINE n == NextProcess(S)
           ready == S.queue[PROCESS_READY]
           st == [S.state EXCEPT ![n] = PROCESS_RUNNING]
<1>1. /\ PROCESS_READY \in Queued
      /\ PROCESS_RUNNING \in State \ Queued
      /\ PROCESS_DEFAULT \notin Queued
  BY DEF State, Queued
<1>2. ready \in Seq(Procs) /\ Once(ready)
  BY <1>1 DEF Disciplined
<1>3. Idle \in Procs
  BY ProcessAssumption
<1>4. CASE ready = <<>>
  <2>1. n = Idle
    BY <1>4 DEF NextProcess
  <2>2. Disciplined(st, S.queue)
    BY <1>1, <1>3, <2>1, Relabel DEF NoneRuns
  <2>3. Runs(st, n)
    BY <1>3, <2>1 DEF Runs, NoneRuns, Disciplined
  <2> QED
    BY <1>4, <2>2, <2>3
<1>5. CASE ready # <<>>
  <2>1. n = Head(ready)
    BY <1>5 DEF NextProcess
  <2>2. /\ n \in Procs /\ At(ready, n)
        /\ Tail(ready) \in Seq(Procs) /\ Once(Tail(ready))
        /\ \A x : At(Tail(ready), x) <=> At(ready, x) /\ x # n
    BY <1>2, <1>5, <2>1, TailOnce
  <2>3. S.state[n] = PROCESS_READY
    BY <1>1, <2>2 DEF Disciplined
  <2> HIDE DEF n
  <2>4. Disciplined(st, [S.queue EXCEPT ![PROCESS_READY] = Tail(ready)])
    BY <1>1, <2>2, <2>3, Dequeue
  <2>5. Runs(st, n)
    BY <1>3, <2>2 DEF Runs, NoneRuns, Disciplined
  <2> QED
    BY <1>5, <2>4, <2>5 DEF n
<1> QED
  BY <1>4, <1>5

(* A walk over part of a queue in its order meets each of its members once. *)
LEMMA InOrderOnce ==
  ASSUME NEW A \in SUBSET Procs, NEW s \in Seq(Procs), Once(s), NEW t \in InOrder(A, s)
  PROVE  /\ t \in Seq(Procs)
         /\ Once(t)
         /\ \A x : At(t, x) <=> x \in A
<1>1. PICK n \in 0..Len(s) : t \in [1..n -> A]
  BY DEF InOrder
<1>2. n \in Nat
  BY <1>1, LenProperties
<1>3. t \in Seq(A) /\ Len(t) = n
  BY <1>1, <1>2, IsASeq, LenProperties
<1>4. t \in Seq(Procs)
  BY <1>3, SeqMonotonic
<1>5. \A i, j \in 1..Len(t) : i < j =>
         \E k, m \in 1..Len(s) : k < m /\ s[k] = t[i] /\ s[m] = t[j]
  BY DEF InOrder
<1>6. ASSUME NEW i \in 1..Len(t), NEW j \in 1..Len(t), i < j
      PROVE  t[i] # t[j]
  <2>1. PICK k \in 1..Len(s), m \in 1..Len(s) : k < m /\ s[k] = t[i] /\ s[m] = t[j]
    BY <1>5, <1>6
  <2>2. k # m
    BY <2>1, LenProperties
  <2> QED
    BY <2>1, <2>2 DEF Once
<1>7. Once(t)
  <2>1. \A i, j \in 1..Len(t) : i < j \/ j < i \/ i = j
    BY <1>2, <1>3
  <2> QED
    BY <1>6, <2>1 DEF Once
<1>8. \A x \in A : At(t, x)
  BY DEF InOrder, At
<1>9. \A i \in 1..Len(t) : t[i] \in A
  BY <1>1, <1>3
<1> QED
  BY <1>4, <1>7, <1>8, <1>9 DEF At

(* update_delayed_processes: delay_queue keeps rest, and ready_queue gets   *)
(* woken behind its own.                                                    *)
LEMMA WakeKeeps ==
  ASSUME NEW st, NEW qu, Disciplined(st, qu),
         NEW rest \in Seq(Procs), Once(rest), NEW woken \in Seq(Procs), Once(woken),
         \A x : At(rest, x) \/ At(woken, x) <=> At(qu[PROCESS_DELAYED], x),
         \A x : ~ (At(rest, x) /\ At(woken, x))
  PROVE  Disciplined([p \in Procs |-> IF p \in ToSet(woken) THEN PROCESS_READY ELSE st[p]],
                     [qu EXCEPT ![PROCESS_DELAYED] = rest, ![PROCESS_READY] = @ \o woken])
<1> DEFINE W == ToSet(woken)
           r == qu[PROCESS_READY] \o woken
           st2 == [p \in Procs |-> IF p \in W THEN PROCESS_READY ELSE st[p]]
           qu2 == [qu EXCEPT ![PROCESS_DELAYED] = rest, ![PROCESS_READY] = r]
<1>1. \A x : x \in W <=> At(woken, x)
  BY LenProperties DEF ToSet, At
<1>2. PROCESS_READY \in Queued /\ PROCESS_DELAYED \in Queued /\ Queued \subseteq State
  BY DEF Queued, State
<1>3. \A x : ~ (At(qu[PROCESS_READY], x) /\ At(woken, x))
  <2>1. ASSUME NEW x, At(qu[PROCESS_READY], x), At(woken, x)
        PROVE  FALSE
    <3>1. x \in Procs
      BY <2>1 DEF At
    <3>2. st[x] = PROCESS_READY /\ st[x] = PROCESS_DELAYED
      BY <1>2, <2>1, <3>1 DEF Disciplined
    <3> QED
      BY <3>2
  <2> QED
    BY <2>1
<1>4. qu[PROCESS_READY] \in Seq(Procs) /\ Once(qu[PROCESS_READY])
  BY <1>2 DEF Disciplined
<1>5. /\ r \in Seq(Procs) /\ Once(r)
      /\ \A x : At(r, x) <=> At(qu[PROCESS_READY], x) \/ At(woken, x)
  BY <1>3, <1>4, ConcatOnce
<1> HIDE DEF W, r
<1>6. st2 \in [Procs -> State] /\ qu2 \in [Queued -> Seq(Procs)]
  BY <1>2, <1>5 DEF Disciplined
<1>7. \A x \in Procs : At(woken, x) => st[x] = PROCESS_DELAYED
  BY <1>2 DEF Disciplined
<1>8. ASSUME NEW u \in Queued
      PROVE  Once(qu2[u]) /\ \A x \in Procs : st2[x] = u <=> At(qu2[u], x)
  <2>1. CASE u = PROCESS_READY
    <3>1. qu2[u] = r
      BY <1>2, <2>1 DEF Disciplined
    <3>2. \A x \in Procs : st2[x] = u <=> At(woken, x) \/ st[x] = PROCESS_READY
      BY <1>1, <2>1
    <3> HIDE DEF st2, qu2
    <3> QED
      BY <1>2, <1>5, <3>1, <3>2 DEF Disciplined
  <2>2. CASE u = PROCESS_DELAYED
    <3>1. qu2[u] = rest
      BY <1>2, <2>2 DEF Disciplined
    <3>2. \A x \in Procs : st2[x] = u <=> ~ At(woken, x) /\ st[x] = PROCESS_DELAYED
      BY <1>1, <2>2
    <3> HIDE DEF st2, qu2
    <3> QED
      BY <1>2, <3>1, <3>2 DEF Disciplined
  <2>3. CASE u \notin {PROCESS_READY, PROCESS_DELAYED}
    <3>1. qu2[u] = qu[u]
      BY <1>2, <2>3 DEF Disciplined
    <3>2. \A x \in Procs : st2[x] = u <=> st[x] = u
      BY <1>1, <1>7, <2>3
    <3> HIDE DEF st2, qu2
    <3> QED
      BY <3>1, <3>2 DEF Disciplined
  <2> QED
    BY <2>1, <2>2, <2>3
<1> HIDE DEF st2, qu2
<1>9. Disciplined(st2, qu2)
  BY <1>6, <1>8 DEF Disciplined
<1> QED
  BY <1>9 DEF st2, qu2, W, r
-----------------------------------------------------------------------------
(* The handlers.                                                            *)

(* KernelStart leaves the queues disciplined and idle running.              *)
LEMMA InitSchedInv == Init => SchedInv
<1> SUFFICES ASSUME Init PROVE SchedInv
  OBVIOUS
<1>1. Idle \in Procs /\ Init1 \in Procs /\ Idle # Init1 /\ NULL \notin Procs
  BY ProcessAssumption
<1>2. /\ Len(<<Init1>>) = 1 /\ <<Init1>>[1] = Init1 /\ <<Init1>> \in Seq(Procs)
      /\ Len(<<>>) = 0 /\ <<>> \in Seq(Procs)
  BY <1>1
<1>3. state \in [Procs -> State] /\ queue \in [Queued -> Seq(Procs)]
  BY <1>1, <1>2 DEF Init, State, Queued
<1>4. ASSUME NEW s \in Queued
      PROVE  Once(queue[s]) /\ \A p \in Procs : state[p] = s <=> At(queue[s], p)
  <2>1. CASE s = PROCESS_READY
    <3>1. queue[s] = <<Init1>>
      BY <2>1 DEF Init
    <3>2. \A p \in Procs : state[p] = s <=> p = Init1
      BY <1>1, <2>1 DEF Init
    <3> QED
      BY <1>2, <3>1, <3>2 DEF Once, At
  <2>2. CASE s # PROCESS_READY
    <3>1. queue[s] = <<>>
      BY <2>2 DEF Init
    <3>2. \A p \in Procs : state[p] # s
      BY <1>1, <2>2 DEF Init, Queued
    <3> QED
      BY <1>2, <3>1, <3>2 DEF Once, At
  <2> QED
    BY <2>1, <2>2
<1>5. Disciplined(state, queue)
  BY <1>3, <1>4 DEF Disciplined
<1>6. Runs(state, current)
  BY <1>1 DEF Init, Runs
<1>7. IdleAlone /\ parent \in [Procs -> Procs \cup {NULL}]
      /\ heap \in [Procs -> {"unused", "live", "freed"}]
  BY <1>1 DEF Init, IdleAlone
<1> QED
  BY <1>5, <1>6, <1>7 DEF SchedInv

(* schedule, from any handler.                                              *)
LEMMA ScheduleKeeps ==
  ASSUME NEW S, Disciplined(S.state, S.queue), NoneRuns(S.state),
         NEW h, NEW regs, NEW kst, schedule(S, h, regs, kst)
  PROVE  Disciplined(state', queue') /\ Runs(state', current')
<1>1. /\ current' = NextProcess(S)
      /\ state' = [S.state EXCEPT ![NextProcess(S)] = PROCESS_RUNNING]
      /\ queue' = IF S.queue[PROCESS_READY] = <<>> THEN S.queue
                  ELSE [S.queue EXCEPT ![PROCESS_READY] = Tail(@)]
  BY DEF schedule
<1> QED
  BY <1>1, Switch

(* The current process loses RUNNING, and nobody has it.                    *)
LEMMA DeselectKeeps ==
  ASSUME SchedInv
  PROVE  LET S == SetState(System, current, PROCESS_DEFAULT) IN
         /\ Disciplined(S.state, S.queue)
         /\ NoneRuns(S.state)
         /\ S.state[current] = PROCESS_DEFAULT
         /\ \A q \in Procs : q # current => S.state[q] = state[q]
<1> DEFINE st == [state EXCEPT ![current] = PROCESS_DEFAULT]
           S == SetState(System, current, PROCESS_DEFAULT)
<1>1. S.state = st /\ S.queue = queue
  BY DEF SetState, System
<1>2. /\ Disciplined(state, queue) /\ current \in Procs
      /\ \A p \in Procs : state[p] = PROCESS_RUNNING <=> p = current
      /\ state[Idle] \in {PROCESS_DEFAULT, PROCESS_RUNNING}
  BY DEF SchedInv, Runs
<1>3. state[current] \notin Queued /\ PROCESS_DEFAULT \in State \ Queued
  BY <1>2 DEF State, Queued
<1>4. Disciplined(st, queue)
  BY <1>2, <1>3, Relabel
<1>5. Idle \in Procs
  BY ProcessAssumption
<1>6. /\ st[current] = PROCESS_DEFAULT
      /\ \A q \in Procs : q # current => st[q] = state[q]
  BY <1>2 DEF Disciplined
<1>7. NoneRuns(st)
  BY <1>2, <1>5, <1>6 DEF NoneRuns
<1> HIDE DEF st, S
<1>8. /\ Disciplined(S.state, S.queue) /\ NoneRuns(S.state)
      /\ S.state[current] = PROCESS_DEFAULT
      /\ \A q \in Procs : q # current => S.state[q] = state[q]
  BY <1>1, <1>4, <1>6, <1>7
<1> QED
  BY <1>8 DEF S

(* Wait and Delay: the current process goes to a queue, and another runs.   *)
LEMMA LeaveKeeps ==
  ASSUME SchedInv, current # Idle, NEW s \in Queued, NEW h, NEW regs, NEW kst,
         schedule(AddTo(SetState(System, current, PROCESS_DEFAULT), s, current), h, regs, kst)
  PROVE  Disciplined(state', queue') /\ Runs(state', current')
<1> DEFINE S == SetState(System, current, PROCESS_DEFAULT)
           T == AddTo(S, s, current)
<1>1. /\ Disciplined(S.state, S.queue) /\ NoneRuns(S.state)
      /\ S.state[current] = PROCESS_DEFAULT
  BY DeselectKeeps
<1>2. current \in Procs /\ Idle \in Procs
  BY ProcessAssumption DEF SchedInv, Runs
<1> HIDE DEF S
<1>3. /\ Disciplined(T.state, T.queue)
      /\ \A q \in Procs : T.state[q] = IF q = current THEN s ELSE S.state[q]
  BY <1>1, <1>2, AddToKeeps
<1>4. schedule(T, h, regs, kst)
  BY DEF S
<1> HIDE DEF T
<1>5. NoneRuns(T.state)
  BY <1>1, <1>2, <1>3 DEF NoneRuns, Queued
<1> QED
  BY <1>3, <1>4, <1>5, ScheduleKeeps

(* SysExit: the parent may move to ready_queue before another process runs. *)
LEMMA SysExitKeeps ==
  ASSUME SchedInv, NEW status, SysExit(status)
  PROVE  SchedInv'
<1> DEFINE S == SetState(System, current, PROCESS_DEFAULT)
           par == parent[current]
           R == RemoveFrom(S, PROCESS_BLOCKED, par)
           T == AddTo(R, PROCESS_READY, par)
<1>1. /\ Disciplined(S.state, S.queue) /\ NoneRuns(S.state)
      /\ S.state[current] = PROCESS_DEFAULT
  BY DeselectKeeps DEF SysExit, InUser
<1>2. /\ current \in Procs /\ Idle \in Procs /\ current # Idle /\ NULL \notin Procs
      /\ state[Idle] \in {PROCESS_DEFAULT, PROCESS_RUNNING}
      /\ parent \in [Procs -> Procs \cup {NULL}]
      /\ heap \in [Procs -> {"unused", "live", "freed"}]
      /\ IdleAlone
  BY ProcessAssumption DEF SchedInv, Runs, SysExit, InUser
<1>3. PROCESS_BLOCKED \in Queued /\ PROCESS_READY \in Queued /\ PROCESS_ZOMBIE \in Queued
  BY DEF Queued
<1>4. /\ parent' = Orphaned
      /\ heap' = [q \in Procs |-> IF Freed(q) \/ (q = current /\ Wakes) THEN "freed" ELSE heap[q]]
  BY DEF SysExit
<1>5. Disciplined(state', queue') /\ Runs(state', current')
  <2>1. CASE Wakes
    <3>1. par \in Procs /\ par # Idle
      BY <1>2, <2>1 DEF Wakes, IdleAlone
    <3> HIDE DEF S, par
    <3>2. /\ Disciplined(R.state, R.queue)
          /\ \A q \in Procs : R.state[q] =
                IF q = par /\ S.state[par] = PROCESS_BLOCKED THEN PROCESS_DEFAULT ELSE S.state[q]
      BY <1>1, <1>3, <3>1, RemoveFromKeeps
    <3> HIDE DEF R
    <3>3. /\ Disciplined(T.state, T.queue)
          /\ \A q \in Procs : T.state[q] =
                IF q = par /\ R.state[par] = PROCESS_DEFAULT THEN PROCESS_READY ELSE R.state[q]
      BY <1>3, <3>1, <3>2, AddToKeeps
    <3>4. NoneRuns(T.state)
      BY <1>1, <1>2, <3>1, <3>2, <3>3 DEF NoneRuns
    <3>5. PICK regs, kst : schedule(T, "dead", regs, kst)
      BY <2>1 DEF SysExit, S, R, par
    <3> HIDE DEF T
    <3> QED
      BY <3>3, <3>4, <3>5, ScheduleKeeps
  <2>2. CASE ~ Wakes
    <3>1. schedule(AddTo(S, PROCESS_ZOMBIE, current), "dead", reg0, kstatus)
      BY <2>2 DEF SysExit
    <3> QED
      BY <1>2, <1>3, <3>1, LeaveKeeps
  <2> QED
    BY <2>1, <2>2
<1>6. parent' \in [Procs -> Procs \cup {NULL}] /\ \A p \in Procs : parent'[p] # Idle
  BY <1>2, <1>4 DEF Orphaned, IdleAlone
<1>7. ~ Freed(Idle)
  BY <1>2 DEF Freed
<1>8. heap' \in [Procs -> {"unused", "live", "freed"}] /\ heap'[Idle] = "live"
  BY <1>2, <1>4, <1>7 DEF IdleAlone
<1> QED
  BY <1>5, <1>6, <1>8 DEF SchedInv, IdleAlone

(* SysFork: the child is not idle, nor the one that forks.                  *)
LEMMA ForkChildMoves ==
  ASSUME SchedInv, SparesIdle, NEW child \in Procs, ForkChild(child)
  PROVE  /\ child # current /\ state[child] \in {PROCESS_DEFAULT, PROCESS_ZOMBIE}
         /\ state' = [state EXCEPT ![child] = PROCESS_READY]
         /\ queue' = [queue EXCEPT ![PROCESS_READY] = Append(@, child)]
         /\ Runs(state', current')
         /\ parent' \in [Procs -> Procs \cup {NULL}]
         /\ heap' \in [Procs -> {"unused", "live", "freed"}]
         /\ IdleAlone'
<1> DEFINE D == SetState(System, child, PROCESS_DEFAULT)
<1>1. /\ current \in Procs /\ Idle \in Procs /\ current # Idle
      /\ Disciplined(state, queue) /\ state \in [Procs -> State]
      /\ \A p \in Procs : state[p] = PROCESS_RUNNING <=> p = current
      /\ state[Idle] \in {PROCESS_DEFAULT, PROCESS_RUNNING}
      /\ parent \in [Procs -> Procs \cup {NULL}]
      /\ heap \in [Procs -> {"unused", "live", "freed"}]
      /\ heap[Idle] = "live" /\ \A p \in Procs : parent[p] # Idle
  BY ProcessAssumption DEF SchedInv, Disciplined, Runs, ForkChild, InUser, IdleAlone
<1>2. /\ heap[child] # "live" /\ current' = current
      /\ state' = AddTo(D, PROCESS_READY, child).state
      /\ queue' = AddTo(D, PROCESS_READY, child).queue
      /\ parent' = [parent EXCEPT ![child] = current]
      /\ heap' = [heap EXCEPT ![child] = "live"]
  BY DEF ForkChild
<1>3. state[child] \in {PROCESS_DEFAULT, PROCESS_ZOMBIE}
  BY <1>2 DEF SparesIdle
<1>4. child # Idle /\ child # current
  BY <1>1, <1>2, <1>3
<1>5. /\ state' = [state EXCEPT ![child] = PROCESS_READY]
      /\ queue' = [queue EXCEPT ![PROCESS_READY] = Append(@, child)]
  <2>1. D.state = [state EXCEPT ![child] = PROCESS_DEFAULT] /\ D.queue = queue
    BY DEF SetState, System
  <2> HIDE DEF D
  <2>2. D.state[child] = PROCESS_DEFAULT
    BY <1>1, <2>1
  <2>3. /\ AddTo(D, PROCESS_READY, child).state = [D.state EXCEPT ![child] = PROCESS_READY]
        /\ AddTo(D, PROCESS_READY, child).queue
              = [D.queue EXCEPT ![PROCESS_READY] = Append(@, child)]
    BY <2>2 DEF AddTo
  <2>4. [D.state EXCEPT ![child] = PROCESS_READY] = [state EXCEPT ![child] = PROCESS_READY]
    BY <1>1, <2>1
  <2> QED
    BY <1>2, <2>1, <2>3, <2>4
<1>6. Runs(state', current')
  BY <1>1, <1>2, <1>4, <1>5 DEF Runs
<1>7. /\ parent' \in [Procs -> Procs \cup {NULL}]
      /\ \A p \in Procs : parent'[p] # Idle
      /\ heap' \in [Procs -> {"unused", "live", "freed"}]
      /\ heap'[Idle] = "live"
  BY <1>1, <1>2, <1>4
<1> QED
  BY <1>3, <1>4, <1>5, <1>6, <1>7 DEF IdleAlone

(* SysFork with a PCB that is linked nowhere: it is queued once.            *)
LEMMA ForkChildKeeps ==
  ASSUME SchedInv, SparesIdle, NEW child \in Procs, ForkChild(child), ~ Linked(child)
  PROVE  SchedInv'
<1>1. /\ state[child] \in {PROCESS_DEFAULT, PROCESS_ZOMBIE}
      /\ state' = [state EXCEPT ![child] = PROCESS_READY]
      /\ queue' = [queue EXCEPT ![PROCESS_READY] = Append(@, child)]
      /\ Runs(state', current')
      /\ parent' \in [Procs -> Procs \cup {NULL}]
      /\ heap' \in [Procs -> {"unused", "live", "freed"}]
      /\ IdleAlone'
  BY ForkChildMoves
<1>2. Disciplined(state, queue)
  BY DEF SchedInv
<1>3. state[child] \notin Queued
  <2> SUFFICES ASSUME state[child] \in Queued
               PROVE  FALSE
    OBVIOUS
  <2>1. /\ queue[state[child]] \in Seq(Procs)
        /\ At(queue[state[child]], child)
    BY <1>2 DEF Disciplined
  <2>2. child \in ToSet(queue[state[child]])
    BY <2>1, LenProperties DEF ToSet, At
  <2> QED
    BY <2>2 DEF Linked
<1>4. Disciplined(state', queue')
  <2>1. PROCESS_READY \in Queued
    BY DEF Queued
  <2> QED
    BY <1>1, <1>2, <1>3, <2>1, Enqueue
<1> QED
  BY <1>1, <1>4 DEF SchedInv, IdleAlone

(* SysWait with a zombie child: it leaves zombie_queue and is freed.        *)
LEMMA WaitReapsKeeps ==
  ASSUME SchedInv, NEW z \in Procs, WaitReaps(z)
  PROVE  SchedInv'
<1> DEFINE S == RemoveFrom(System, PROCESS_ZOMBIE, z)
<1>1. /\ current \in Procs /\ Idle \in Procs
      /\ Disciplined(state, queue)
      /\ \A p \in Procs : state[p] = PROCESS_RUNNING <=> p = current
      /\ state[Idle] \in {PROCESS_DEFAULT, PROCESS_RUNNING}
      /\ heap \in [Procs -> {"unused", "live", "freed"}]
      /\ heap[Idle] = "live" /\ parent' = parent /\ current' = current
  BY ProcessAssumption DEF SchedInv, Runs, IdleAlone, WaitReaps, Return
<1>2. /\ state' = S.state /\ queue' = S.queue
      /\ heap' = [heap EXCEPT ![z] = "freed"]
      /\ state[z] = PROCESS_ZOMBIE
  BY DEF WaitReaps, FirstZombie
<1>3. System.state = state /\ System.queue = queue /\ PROCESS_ZOMBIE \in Queued
  BY DEF System, Queued
<1>4. /\ Disciplined(S.state, S.queue)
      /\ \A q \in Procs : S.state[q] = IF q = z THEN PROCESS_DEFAULT ELSE state[q]
  BY <1>1, <1>2, <1>3, RemoveFromKeeps
<1> HIDE DEF S
<1>5. z # Idle /\ z # current
  BY <1>1, <1>2
<1>6. Runs(state', current')
  BY <1>1, <1>2, <1>4, <1>5 DEF Runs
<1>7. heap' \in [Procs -> {"unused", "live", "freed"}] /\ heap'[Idle] = "live"
  BY <1>1, <1>2, <1>5
<1>8. Disciplined(state', queue')
  BY <1>2, <1>4
<1> QED
  BY <1>1, <1>6, <1>7, <1>8 DEF SchedInv, IdleAlone

(* The clock tick: the woken are queued; a process whose time slice is over *)
(* is in no queue and not RUNNING when another is switched in.              *)
LEMMA ClockKeeps ==
  ASSUME SchedInv, clock_handler
  PROVE  SchedInv'
<1> DEFINE A == {p \in Delayed : delay_ticks[p] # 1}
           B == {p \in Delayed : delay_ticks[p] = 1}
<1>1. PICK rest \in InOrder(A, queue[PROCESS_DELAYED]),
           woken \in InOrder(B, queue[PROCESS_DELAYED]) :
        LET S == Updated(rest, woken) IN
        \/ \E regs : schedule(SetState(S, current, PROCESS_DEFAULT), "clock", regs, kstatus)
        \/ state' = S.state /\ queue' = S.queue /\ current' = current
  BY DEF clock_handler
<1>2. /\ current \in Procs /\ Idle \in Procs
      /\ Disciplined(state, queue)
      /\ \A p \in Procs : state[p] = PROCESS_RUNNING <=> p = current
      /\ state[Idle] \in {PROCESS_DEFAULT, PROCESS_RUNNING}
  BY ProcessAssumption DEF SchedInv, Runs
<1>3. PROCESS_DELAYED \in Queued /\ PROCESS_DEFAULT \in State \ Queued
  BY DEF Queued, State
<1>4. queue[PROCESS_DELAYED] \in Seq(Procs) /\ Once(queue[PROCESS_DELAYED])
  BY <1>2, <1>3 DEF Disciplined
<1>5. \A x : x \in Delayed <=> At(queue[PROCESS_DELAYED], x)
  BY <1>4, LenProperties DEF Delayed, Members, ToSet, At
<1>6. A \in SUBSET Procs /\ B \in SUBSET Procs
  BY <1>4, <1>5 DEF At
<1>7. \A x : (x \in A \/ x \in B <=> x \in Delayed) /\ ~ (x \in A /\ x \in B)
  OBVIOUS
<1> HIDE DEF A, B
<1>8. rest \in Seq(Procs) /\ Once(rest) /\ \A x : At(rest, x) <=> x \in A
  BY <1>4, <1>6, InOrderOnce
<1>9. woken \in Seq(Procs) /\ Once(woken) /\ \A x : At(woken, x) <=> x \in B
  BY <1>4, <1>6, InOrderOnce
<1> DEFINE S == Updated(rest, woken)
<1>10. Disciplined(S.state, S.queue)
  <2>1. /\ \A x : At(rest, x) \/ At(woken, x) <=> At(queue[PROCESS_DELAYED], x)
        /\ \A x : ~ (At(rest, x) /\ At(woken, x))
    BY <1>5, <1>7, <1>8, <1>9
  <2>2. Disciplined([p \in Procs |-> IF p \in ToSet(woken) THEN PROCESS_READY ELSE state[p]],
                    [queue EXCEPT ![PROCESS_DELAYED] = rest, ![PROCESS_READY] = @ \o woken])
    BY <1>2, <1>8, <1>9, <2>1, WakeKeeps
  <2> QED
    BY <2>2 DEF Updated
<1>11. \A p \in Procs : \/ S.state[p] = state[p]
                        \/ S.state[p] = PROCESS_READY /\ state[p] = PROCESS_DELAYED
  <2>1. \A p \in Procs : p \in ToSet(woken) => At(woken, p)
    BY LenProperties DEF ToSet, At
  <2>2. \A p \in Procs : At(woken, p) => state[p] = PROCESS_DELAYED
    BY <1>2, <1>3, <1>5, <1>7, <1>9 DEF Disciplined
  <2> QED
    BY <2>1, <2>2 DEF Updated
<1> HIDE DEF S
<1>12. Runs(S.state, current)
  BY <1>2, <1>11 DEF Runs
<1>13. Disciplined(state', queue') /\ Runs(state', current')
  <2>1. CASE \E regs : schedule(SetState(S, current, PROCESS_DEFAULT), "clock", regs, kstatus)
    <3> DEFINE T == SetState(S, current, PROCESS_DEFAULT)
    <3>1. T.state = [S.state EXCEPT ![current] = PROCESS_DEFAULT] /\ T.queue = S.queue
      BY DEF SetState
    <3>2. S.state[current] \notin Queued
      BY <1>12 DEF Runs, Queued
    <3>3. Disciplined([S.state EXCEPT ![current] = PROCESS_DEFAULT], S.queue)
      BY <1>2, <1>3, <1>10, <3>2, Relabel
    <3>4. NoneRuns([S.state EXCEPT ![current] = PROCESS_DEFAULT])
      BY <1>2, <1>10, <1>12 DEF NoneRuns, Runs, Disciplined
    <3>5. PICK regs : schedule(T, "clock", regs, kstatus)
      BY <2>1
    <3> HIDE DEF T
    <3>6. Disciplined(T.state, T.queue) /\ NoneRuns(T.state)
      BY <3>1, <3>3, <3>4
    <3> QED
      BY <3>5, <3>6, ScheduleKeeps
  <2>2. CASE state' = S.state /\ queue' = S.queue /\ current' = current
    BY <1>10, <1>12, <2>2
  <2> QED
    BY <1>1, <2>1, <2>2 DEF S
<1>14. parent' = parent /\ heap' = heap
  BY DEF clock_handler
<1> QED
  BY <1>13, <1>14 DEF SchedInv, IdleAlone

(* No handler, and no fault of one, breaks the queues, but that Fork.       *)
LEMMA NextSchedInv ==
  SchedInv /\ SparesIdle /\ [Next]_vars /\ fault' # "relinked" => SchedInv'
<1> SUFFICES ASSUME SchedInv, SparesIdle, [Next]_vars, fault' # "relinked"
             PROVE  SchedInv'
  OBVIOUS
<1> DEFINE Same == UNCHANGED <<state, queue, current, parent, heap>>
<1>0. ASSUME Same PROVE SchedInv'
  BY <1>0 DEF SchedInv, IdleAlone
<1>1. CASE SysFork
  <2>1. CASE \E child \in Procs : ForkChild(child)
    <3>1. PICK child \in Procs : ForkChild(child)
      BY <2>1
    <3>2. ~ Linked(child)
      BY <3>1 DEF ForkChild
    <3> QED
      BY <3>1, <3>2, ForkChildKeeps
  <2>2. CASE ForkNoMemory
    BY <1>0, <2>2 DEF ForkNoMemory, Faults
  <2>3. CASE ForkAsChild
    BY <1>0, <2>3 DEF ForkAsChild, Return
  <2> QED
    BY <1>1, <2>1, <2>2, <2>3 DEF SysFork
<1>2. CASE SysWait
  <2>1. CASE WaitNoChildren
    BY <1>0, <2>1 DEF WaitNoChildren, Return
  <2>2. CASE \E z \in Procs : WaitReaps(z)
    BY <2>2, WaitReapsKeeps
  <2>3. CASE WaitBlocks
    <3>1. current # Idle /\ parent' = parent /\ heap' = heap
      BY <2>3 DEF WaitBlocks, InUser
    <3>2. PICK h, regs, kst : schedule(AddTo(SetState(System, current, PROCESS_DEFAULT),
                                             PROCESS_BLOCKED, current), h, regs, kst)
      BY <2>3 DEF WaitBlocks
    <3>3. Disciplined(state', queue') /\ Runs(state', current')
      <4>1. PROCESS_BLOCKED \in Queued
        BY DEF Queued
      <4> QED
        BY <3>1, <3>2, <4>1, LeaveKeeps
    <3> QED
      BY <3>1, <3>3 DEF SchedInv, IdleAlone
  <2> QED
    BY <1>2, <2>1, <2>2, <2>3 DEF SysWait
<1>3. CASE SysDelay
  <2>1. CASE DelayReturns
    BY <1>0, <2>1 DEF DelayReturns, Return
  <2>2. CASE \E delay \in 0..MaxDelay : Delays(delay)
    <3>1. current # Idle /\ parent' = parent /\ heap' = heap
      BY <2>2 DEF Delays, InUser
    <3>2. PICK regs : schedule(AddTo(SetState(System, current, PROCESS_DEFAULT),
                                     PROCESS_DELAYED, current), "delay", regs, kstatus)
      BY <2>2 DEF Delays
    <3>3. Disciplined(state', queue') /\ Runs(state', current')
      <4>1. PROCESS_DELAYED \in Queued
        BY DEF Queued
      <4> QED
        BY <3>1, <3>2, <4>1, LeaveKeeps
    <3> QED
      BY <3>1, <3>3 DEF SchedInv, IdleAlone
  <2> QED
    BY <1>3, <2>1, <2>2 DEF SysDelay
<1>4. CASE clock_handler
  BY <1>4, ClockKeeps
<1>5. CASE illegal_handler \/ math_handler \/ \E status \in Statuses : SysExit(status)
  BY <1>5, SysExitKeeps DEF illegal_handler, math_handler
<1>6. CASE ExitFaults
  BY <1>0, <1>6 DEF ExitFaults, Faults
<1>7. CASE UNCHANGED vars
  BY <1>0, <1>7 DEF vars
<1> QED
  BY <1>1, <1>2, <1>3, <1>4, <1>5, <1>6, <1>7 DEF Next
=============================================================================
