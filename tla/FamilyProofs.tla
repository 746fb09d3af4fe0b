---------------------------- MODULE FamilyProofs ----------------------------
(* Parents, children and what Wait answers (syscalls.c, pcb.c), however     *)
(* many processes there are; and, from it, that Process implements Sched.   *)
(*                                                                          *)
(* Inv holds until a Fork is handed a PCB that is still linked somewhere;   *)
(* Ind, which adds what holds even then, is inductive.  The parts of Inv    *)
(* are stated over bare values, because a handler that schedules is two     *)
(* moves: what it does, up to schedule, and the switch, with the tail of    *)
(* the handler that is resumed.                                             *)
EXTENDS ProcessProofs, FiniteSetTheorems

USE DEF PROCESS_DEFAULT, PROCESS_RUNNING, PROCESS_READY, PROCESS_DELAYED,
        PROCESS_BLOCKED, PROCESS_ZOMBIE

(* A list of children leads to PCBs that were malloc'ed for its owner, and  *)
(* the parent pointer of a PCB that was not freed to one that is alive.     *)
Family(st, hp, pa, ch) ==
  /\ \A p \in Procs : hp[p] # "live" => st[p] \in {PROCESS_DEFAULT, PROCESS_ZOMBIE}
  /\ \A p, q \in Procs : At(ch[q], p) => pa[p] = q /\ hp[p] # "unused"
  /\ \A p \in Procs : pa[p] # p
  /\ \A p \in Procs : hp[p] = "live" /\ pa[p] # NULL =>
        hp[pa[p]] = "live" /\ st[pa[p]] # PROCESS_ZOMBIE /\ At(ch[pa[p]], p)

(* What each state says of the fields: who is blocked waits for a child and *)
(* none is a zombie, who is delayed has ticks left, a zombie has a status.  *)
StateOK(st, ch, wt, dt, ec) ==
  /\ \A p \in Procs : st[p] = PROCESS_BLOCKED =>
        wt[p] /\ \A c \in Procs : At(ch[p], c) => st[c] # PROCESS_ZOMBIE
  /\ \A p \in Procs : st[p] = PROCESS_DELAYED => dt[p] # 0
  /\ \A p \in Procs : st[p] = PROCESS_ZOMBIE => ec[p] \in Statuses

Gone(c, st, hp) == hp[c] = "freed" /\ st[c] = PROCESS_DEFAULT

(* Who is suspended in SysWait is blocked, or has been given the pid and    *)
(* the status of a child that is gone, that it still lists (so that its PCB *)
(* is linked) and that no Wait has returned.                                *)
Answered(p, st, rg, ks, hp, pa, ch, ec, co) ==
  \/ st[p] = PROCESS_BLOCKED /\ rg[p] = "kstatus"
  \/ /\ st[p] = PROCESS_READY
     /\ rg[p] \in Procs /\ Gone(rg[p], st, hp) /\ pa[rg[p]] = p /\ At(ch[p], rg[p])
     /\ ks[p] = ec[rg[p]] /\ ks[p] \in Statuses
     /\ \A r \in co : r.child # rg[p]

AnswersOK(st, rs, rg, ks, hp, pa, ch, ec, co) ==
  \A p \in Procs : rs[p] = "wait" => Answered(p, st, rg, ks, hp, pa, ch, ec, co)

CollectedOK(st, hp, pa, ec, co) ==
  /\ co \subseteq [by : Procs, child : Procs, status : Statuses]
  /\ \A r \in co : Gone(r.child, st, hp) /\ pa[r.child] \in {r.by, NULL} /\ r.status = ec[r.child]
  /\ \A r, t \in co : r.child = t.child => r = t

Handlers == {"none", "boot", "fork", "wait", "wait to NULL", "delay", "clock", "dead"}

PcbFields ==
  /\ children \in [Procs -> Seq(Procs)]
  /\ waiting_for_children \in [Procs -> BOOLEAN]
  /\ delay_ticks \in [Procs -> 0..MaxDelay]
  /\ exit_code \in [Procs -> Statuses \cup {NULL}]
  /\ should_fork \in [Procs -> BOOLEAN]

ContextFields ==
  /\ run_time \in 0..(DEFAULT_TIMESLICE + 1)
  /\ reg0 \in [Procs -> RegValue]
  /\ kstatus \in [Procs -> Statuses \cup {NULL}]
  /\ resume \in [Procs -> Handlers]
  /\ fault \in {"none", "NULL child_pcb", "NULL status_ptr", "stale status_ptr"}

Inv ==
  /\ SchedInv /\ PcbFields /\ ContextFields
  /\ Family(state, heap, parent, children)
  /\ StateOK(state, children, waiting_for_children, delay_ticks, exit_code)
  /\ AnswersOK(state, resume, reg0, kstatus, heap, parent, children, exit_code, collected)
  /\ CollectedOK(state, heap, parent, exit_code, collected)

(* A Fork has linked a node a second time, which no step follows.           *)
Relinked == /\ fault = "relinked"
            /\ TypeOK /\ OneRunning /\ ExitedNeverRuns /\ ParentAlive

Ind == Inv \/ Relinked
-----------------------------------------------------------------------------
LEMMA ChildrenAt ==
  ASSUME PcbFields, NEW p \in Procs, NEW c
  PROVE  /\ c \in ToSet(children[p]) <=> At(children[p], c)
         /\ At(children[p], c) => c \in Procs
<1>1. children[p] \in Seq(Procs)
  BY DEF PcbFields
<1> QED
  BY <1>1, LenProperties DEF ToSet, At

LEMMA InvImplies ==
  ASSUME Inv
  PROVE  /\ TypeOK /\ ExitedNeverRuns /\ ParentAlive /\ NoLostWakeup /\ WaitExact
         /\ QueueDiscipline /\ OneRunning /\ fault # "relinked"
<1>1. current \in Procs /\ state \in [Procs -> State] /\ queue \in [Queued -> Seq(Procs)]
  BY DEF Inv, SchedInv, Disciplined, Runs
<1>2. TypeOK
  BY <1>1 DEF TypeOK, Inv, SchedInv, PcbFields, ContextFields, Handlers, CollectedOK
<1>3. ExitedNeverRuns
  <2>1. /\ heap \in [Procs -> {"unused", "live", "freed"}]
        /\ \A p \in Procs : heap[p] # "live" => state[p] \in {PROCESS_DEFAULT, PROCESS_ZOMBIE}
        /\ state[current] = PROCESS_RUNNING
    BY <1>1 DEF Inv, SchedInv, Runs, Family
  <2> SUFFICES ASSUME NEW p \in Procs, heap[p] = "freed" \/ state[p] = PROCESS_ZOMBIE
               PROVE  /\ p # current
                      /\ state[p] \notin {PROCESS_READY, PROCESS_DELAYED, PROCESS_BLOCKED}
    BY DEF ExitedNeverRuns, Exited
  <2>2. state[p] \in {PROCESS_DEFAULT, PROCESS_ZOMBIE}
    BY <2>1
  <2>3. p # current
    BY <2>1, <2>2
  <2> QED
    BY <2>2, <2>3
<1>4. ParentAlive
  <2> SUFFICES ASSUME NEW p \in Procs, heap[p] = "live", parent[p] # NULL
               PROVE  /\ heap[parent[p]] = "live"
                      /\ state[parent[p]] # PROCESS_ZOMBIE
                      /\ p \in ToSet(children[parent[p]])
    BY DEF ParentAlive
  <2>1. parent[p] \in Procs
    BY DEF Inv, SchedInv
  <2> QED
    BY <2>1, ChildrenAt DEF Inv, Family
<1>5. \A p, c \in Procs : heap[c] = "live" /\ parent[c] = p => At(children[p], c)
  BY ProcessAssumption DEF Inv, Family
<1>6. NoLostWakeup
  <2> SUFFICES ASSUME NEW p \in Procs, state[p] = PROCESS_BLOCKED
               PROVE  /\ waiting_for_children[p]
                      /\ \A c \in Procs :
                           c \in ToSet(children[p]) \/ (heap[c] = "live" /\ parent[c] = p)
                              => state[c] # PROCESS_ZOMBIE
    BY DEF NoLostWakeup
  <2> QED
    BY <1>5, ChildrenAt DEF Inv, StateOK
<1>7. WaitExact
  <2>1. \A r \in collected : Gone(r.child, state, heap) /\ parent[r.child] \in {r.by, NULL}
                             /\ r.status = exit_code[r.child]
    BY DEF Inv, CollectedOK
  <2>2. \A r, u \in collected : r.child = u.child => r = u
    BY DEF Inv, CollectedOK
  <2>3. \A p, c \in Procs : c \in ToSet(children[p]) => parent[c] = p
    BY ChildrenAt DEF Inv, Family
  <2> QED
    BY <2>1, <2>2, <2>3 DEF WaitExact, Gone
<1>8. QueueDiscipline
  <2>1. Disciplined(state, queue)
    BY DEF Inv, SchedInv
  <2> QED
    BY <2>1 DEF Disciplined, At, Once, QueueDiscipline, LinkedOnce
<1>9. OneRunning /\ fault # "relinked"
  BY DEF Inv, SchedInv, Runs, OneRunning, ContextFields
<1> QED
  BY <1>2, <1>3, <1>4, <1>6, <1>7, <1>8, <1>9

(* Boot: idle and init have no relatives, and nobody has waited.            *)
LEMMA InitInv == Init => Inv
<1> SUFFICES ASSUME Init
             PROVE  Inv
  OBVIOUS
<1>1. SchedInv
  BY InitSchedInv
<1>2. /\ Idle \in Procs /\ NULL \notin Procs
      /\ 0 \in 0..MaxDelay /\ 0 \in 0..(DEFAULT_TIMESLICE + 1)
  BY ProcessAssumption
<1>3. PcbFields
  BY <1>2 DEF Init, PcbFields
<1>4. ContextFields
  BY <1>2 DEF Init, ContextFields, RegValue, Handlers
<1>5. \A p, c \in Procs : ~ At(children[p], c)
  BY DEF Init, At
<1>6. Family(state, heap, parent, children)
  BY <1>2, <1>5 DEF Init, Family
<1>7. \A p \in Procs : state[p] \notin {PROCESS_BLOCKED, PROCESS_DELAYED, PROCESS_ZOMBIE}
  <2> SUFFICES ASSUME NEW p \in Procs
               PROVE  state[p] \notin {PROCESS_BLOCKED, PROCESS_DELAYED, PROCESS_ZOMBIE}
    OBVIOUS
  <2>1. state[p] = CASE p = Idle -> PROCESS_RUNNING
                     [] p = Init1 -> PROCESS_READY
                     [] OTHER -> PROCESS_DEFAULT
    BY DEF Init
  <2>2. CASE p = Idle
    BY <2>1, <2>2, ProcessAssumption
  <2>3. CASE p = Init1
    BY <2>1, <2>3, ProcessAssumption
  <2>4. CASE p # Idle /\ p # Init1
    BY <2>1, <2>4
  <2> QED
    BY <2>2, <2>3, <2>4
<1>8. StateOK(state, children, waiting_for_children, delay_ticks, exit_code)
  BY <1>7 DEF StateOK
<1>9. \A p \in Procs : resume[p] # "wait"
  BY DEF Init
<1>10. /\ AnswersOK(state, resume, reg0, kstatus, heap, parent, children,
                    exit_code, collected)
       /\ CollectedOK(state, heap, parent, exit_code, collected)
  BY <1>9 DEF Init, AnswersOK, CollectedOK
<1> QED
  BY <1>1, <1>3, <1>4, <1>6, <1>8, <1>10 DEF Inv
-----------------------------------------------------------------------------
(* The current process: it runs, so it is alive and suspended nowhere.      *)
LEMMA CurrentLives ==
  ASSUME Inv
  PROVE  /\ current \in Procs /\ state[current] = PROCESS_RUNNING
         /\ heap[current] = "live" /\ resume[current] # "wait"
         /\ \A p \in Procs : state[p] = PROCESS_RUNNING <=> p = current
<1>1. /\ current \in Procs /\ state[current] = PROCESS_RUNNING
      /\ \A p \in Procs : state[p] = PROCESS_RUNNING <=> p = current
  BY DEF Inv, SchedInv, Runs
<1>2. heap[current] = "live"
  <2>1. \A p \in Procs : heap[p] # "live" => state[p] \in {PROCESS_DEFAULT, PROCESS_ZOMBIE}
    BY DEF Inv, Family
  <2> QED
    BY <1>1, <2>1
<1>3. resume[current] # "wait"
  <2>1. \A p \in Procs : resume[p] = "wait" => state[p] \in {PROCESS_BLOCKED, PROCESS_READY}
    BY DEF Inv, AnswersOK, Answered
  <2> QED
    BY <1>1, <2>1
<1> QED
  BY <1>1, <1>2, <1>3

(* schedule, from the states S of an unfinished handler.                    *)
LEMMA SwitchIs ==
  ASSUME NEW S, Disciplined(S.state, S.queue),
         NEW h, NEW regs, NEW kst, schedule(S, h, regs, kst)
  PROVE  \E next \in Procs :
           /\ next = Idle \/ S.state[next] = PROCESS_READY
           /\ S.queue[PROCESS_READY] # <<>> => S.state[next] = PROCESS_READY
           /\ \A q \in Procs : state'[q] = IF q = next THEN PROCESS_RUNNING ELSE S.state[q]
           /\ run_time' = 0
           /\ resume' = [resume EXCEPT ![current] = h, ![next] = "none"]
           /\ reg0' = [regs EXCEPT ![next] = IF resume[next] = "fork" THEN next ELSE @]
           /\ kstatus' = kst
           /\ collected' = IF resume[next] = "wait"
                           THEN collected \cup {[by |-> next, child |-> regs[next],
                                                 status |-> kst[next]]}
                           ELSE collected
           /\ fault' \in {"NULL status_ptr", fault}
<1> DEFINE next == NextProcess(S)
           ready == S.queue[PROCESS_READY]
<1>1. next \in Procs /\ (ready = <<>> => next = Idle)
      /\ (ready # <<>> => S.state[next] = PROCESS_READY)
  <2>1. PROCESS_READY \in Queued /\ Idle \in Procs
    BY ProcessAssumption DEF Queued
  <2>2. ready \in Seq(Procs) /\ Once(ready)
        /\ \A p \in Procs : S.state[p] = PROCESS_READY <=> At(ready, p)
    BY <2>1 DEF Disciplined
  <2>3. CASE ready = <<>>
    BY <2>1, <2>3 DEF NextProcess
  <2>4. CASE ready # <<>>
    <3>1. next = Head(ready)
      BY <2>4 DEF NextProcess
    <3>2. Head(ready) \in Procs /\ At(ready, Head(ready))
      BY <2>2, <2>4, TailOnce
    <3> QED
      BY <2>2, <2>4, <3>1, <3>2
  <2> QED
    BY <2>3, <2>4
<1>2. state' = [S.state EXCEPT ![next] = PROCESS_RUNNING] /\ S.state \in [Procs -> State]
  BY DEF schedule, Disciplined
<1>3. /\ run_time' = 0
      /\ resume' = [resume EXCEPT ![current] = h, ![next] = "none"]
      /\ reg0' = [regs EXCEPT ![next] = IF resume[next] = "fork" THEN next ELSE @]
      /\ kstatus' = kst
      /\ collected' = IF resume[next] = "wait"
                      THEN collected \cup {[by |-> next, child |-> regs[next],
                                            status |-> kst[next]]}
                      ELSE collected
      /\ fault' \in {"NULL status_ptr", fault}
  BY DEF schedule
<1> HIDE DEF next
<1> QED
  BY <1>1, <1>2, <1>3

(* The switch completes a handler that left everything but the choice of    *)
(* the next process in order: with the tail of SysWait, if it is resumed,   *)
(* the child that is returned was never returned before.                    *)
LEMMA SwitchInv ==
  ASSUME Inv, SchedInv', PcbFields',
         NEW S, Disciplined(S.state, S.queue), NoneRuns(S.state),
         NEW h \in Handlers, NEW regs \in [Procs -> RegValue],
         NEW kst \in [Procs -> Statuses \cup {NULL}],
         schedule(S, h, regs, kst),
         S.state[current] # PROCESS_READY,
         current = Idle => S.queue[PROCESS_READY] # <<>>,
         Family(S.state, heap', parent', children'),
         StateOK(S.state, children', waiting_for_children', delay_ticks', exit_code'),
         AnswersOK(S.state, [resume EXCEPT ![current] = h], regs, kst,
                   heap', parent', children', exit_code', collected),
         CollectedOK(S.state, heap', parent', exit_code', collected)
  PROVE  Inv'
<1> DEFINE rs == [resume EXCEPT ![current] = h]
<1>1. PICK n \in Procs :
           /\ n = Idle \/ S.state[n] = PROCESS_READY
           /\ S.queue[PROCESS_READY] # <<>> => S.state[n] = PROCESS_READY
           /\ \A q \in Procs : state'[q] = IF q = n THEN PROCESS_RUNNING ELSE S.state[q]
           /\ run_time' = 0
           /\ resume' = [resume EXCEPT ![current] = h, ![n] = "none"]
           /\ reg0' = [regs EXCEPT ![n] = IF resume[n] = "fork" THEN n ELSE @]
           /\ kstatus' = kst
           /\ collected' = IF resume[n] = "wait"
                           THEN collected \cup {[by |-> n, child |-> regs[n],
                                                 status |-> kst[n]]}
                           ELSE collected
           /\ fault' \in {"NULL status_ptr", fault}
  BY SwitchIs
<1>2. n # current /\ current \in Procs
  BY <1>1, CurrentLives
<1>3. heap'[n] = "live"
  <2>1. heap'[Idle] = "live"
    BY DEF SchedInv, IdleAlone
  <2>2. \A p \in Procs : heap'[p] # "live" => S.state[p] \in {PROCESS_DEFAULT, PROCESS_ZOMBIE}
    BY DEF Family
  <2> QED
    BY <1>1, <2>1, <2>2
<1>4. ContextFields'
  <2>1. resume \in [Procs -> Handlers] /\ "none" \in Handlers
        /\ fault \in {"none", "NULL child_pcb", "NULL status_ptr", "stale status_ptr"}
    BY DEF Inv, ContextFields, Handlers
  <2>2. resume' \in [Procs -> Handlers]
    BY <1>1, <2>1
  <2>3. 0 \in 0..(DEFAULT_TIMESLICE + 1)
    BY ProcessAssumption
  <2>4. n \in RegValue
    BY DEF RegValue
  <2>5. reg0' \in [Procs -> RegValue]
    BY <1>1, <2>4
  <2> QED
    BY <1>1, <2>1, <2>2, <2>3, <2>5 DEF ContextFields
<1>5. Family(state', heap', parent', children')
  <2>1. \A p \in Procs : heap'[p] # "live" => state'[p] \in {PROCESS_DEFAULT, PROCESS_ZOMBIE}
    BY <1>1, <1>3 DEF Family
  <2>2. \A p \in Procs : S.state[p] # PROCESS_ZOMBIE => state'[p] # PROCESS_ZOMBIE
    BY <1>1
  <2>3. parent' \in [Procs -> Procs \cup {NULL}]
    BY DEF SchedInv
  <2> QED
    BY <2>1, <2>2, <2>3 DEF Family
<1>6. StateOK(state', children', waiting_for_children', delay_ticks', exit_code')
  <2>1. \A p \in Procs : /\ state'[p] # PROCESS_RUNNING => state'[p] = S.state[p]
                         /\ state'[p] = PROCESS_ZOMBIE => S.state[p] = PROCESS_ZOMBIE
    BY <1>1
  <2> QED
    BY <2>1 DEF StateOK
<1>7. \A p \in Procs : resume'[p] = "wait" =>
          /\ p # n /\ rs[p] = "wait" /\ state'[p] = S.state[p]
          /\ reg0'[p] = regs[p] /\ kstatus'[p] = kst[p]
  <2>1. resume \in [Procs -> Handlers]
    BY DEF Inv, ContextFields
  <2> QED
    BY <1>1, <1>2, <2>1
<1>8. \A c \in Procs : Gone(c, S.state, heap') => Gone(c, state', heap')
  BY <1>1, <1>3 DEF Gone
<1>9. resume[n] = "wait" =>
        /\ regs[n] \in Procs /\ Gone(regs[n], S.state, heap') /\ parent'[regs[n]] = n
        /\ kst[n] = exit_code'[regs[n]] /\ kst[n] \in Statuses
        /\ \A r \in collected : r.child # regs[n]
  <2>1. resume[n] = "wait" => rs[n] = "wait"
    <3>1. resume \in [Procs -> Handlers]
      BY DEF Inv, ContextFields
    <3> QED
      BY <1>2, <3>1
  <2>2. S.state[n] # PROCESS_BLOCKED
    BY <1>1 DEF NoneRuns
  <2> HIDE DEF rs
  <2> QED
    BY <2>1, <2>2 DEF AnswersOK, rs, Answered
<1>10. AnswersOK(state', resume', reg0', kstatus', heap', parent', children',
                 exit_code', collected')
  <2> SUFFICES ASSUME NEW p \in Procs, resume'[p] = "wait"
               PROVE  Answered(p, state', reg0', kstatus', heap', parent', children',
                               exit_code', collected')
    BY DEF AnswersOK
  <2>1. /\ p # n /\ rs[p] = "wait" /\ state'[p] = S.state[p]
        /\ reg0'[p] = regs[p] /\ kstatus'[p] = kst[p]
    BY <1>7
  <2> HIDE DEF rs
  <2>2. Answered(p, S.state, regs, kst, heap', parent', children', exit_code', collected)
    BY <2>1 DEF AnswersOK, rs
  <2>3. CASE S.state[p] = PROCESS_BLOCKED /\ regs[p] = "kstatus"
    BY <2>1, <2>3 DEF Answered
  <2>4. CASE /\ S.state[p] = PROCESS_READY
             /\ regs[p] \in Procs /\ Gone(regs[p], S.state, heap') /\ parent'[regs[p]] = p
             /\ At(children'[p], regs[p])
             /\ kst[p] = exit_code'[regs[p]] /\ kst[p] \in Statuses
             /\ \A r \in collected : r.child # regs[p]
    <3>1. Gone(regs[p], state', heap')
      BY <1>8, <2>4
    <3>2. \A r \in collected' : r.child # regs[p]
      <4>1. resume[n] = "wait" => regs[n] # regs[p]
        BY <1>9, <2>1, <2>4
      <4> DEFINE new == [by |-> n, child |-> regs[n], status |-> kst[n]]
      <4>2. new.child = regs[n]
        OBVIOUS
      <4>3. collected' = IF resume[n] = "wait" THEN collected \cup {new} ELSE collected
        BY <1>1
      <4> HIDE DEF new
      <4> QED
        BY <2>4, <4>1, <4>2, <4>3
    <3> QED
      BY <2>1, <2>4, <3>1, <3>2 DEF Answered
  <2> QED
    BY <2>2, <2>3, <2>4 DEF Answered
<1>11. CollectedOK(state', heap', parent', exit_code', collected')
  <2>1. /\ collected \subseteq [by : Procs, child : Procs, status : Statuses]
        /\ \A r \in collected : /\ Gone(r.child, S.state, heap')
                                /\ parent'[r.child] \in {r.by, NULL}
                                /\ r.status = exit_code'[r.child]
        /\ \A r, t \in collected : r.child = t.child => r = t
    BY DEF CollectedOK
  <2>2. \A r \in collected : r.child \in Procs /\ Gone(r.child, state', heap')
    BY <1>8, <2>1
  <2>3. CASE resume[n] # "wait"
    BY <1>1, <2>1, <2>2, <2>3 DEF CollectedOK
  <2>4. CASE resume[n] = "wait"
    <3> DEFINE new == [by |-> n, child |-> regs[n], status |-> kst[n]]
    <3>1. new \in [by : Procs, child : Procs, status : Statuses]
      BY <1>9, <2>4
    <3>2. /\ Gone(new.child, state', heap') /\ parent'[new.child] = new.by
          /\ new.status = exit_code'[new.child] /\ \A r \in collected : r.child # new.child
      BY <1>8, <1>9, <2>4
    <3>3. collected' = collected \cup {new}
      BY <1>1, <2>4
    <3> HIDE DEF new
    <3> QED
      BY <2>1, <2>2, <3>1, <3>2, <3>3 DEF CollectedOK
  <2> QED
    BY <2>3, <2>4
<1> QED
  BY <1>4, <1>5, <1>6, <1>10, <1>11 DEF Inv
-----------------------------------------------------------------------------
(* Handlers that touch nothing but the current process's own registers and  *)
(* flag, and the faults.                                                    *)
LEMMA LocalKeeps ==
  ASSUME Inv,
         UNCHANGED <<current, state, queue, parent, children, waiting_for_children,
                     delay_ticks, exit_code, run_time, kstatus, resume, heap, collected>>,
         should_fork' \in [Procs -> BOOLEAN],
         reg0' \in [Procs -> RegValue],
         \A p \in Procs : p # current => reg0'[p] = reg0[p],
         fault' \in {fault, "NULL child_pcb", "stale status_ptr"}
  PROVE  Inv'
<1>1. SchedInv' /\ PcbFields' /\ ContextFields'
  BY DEF Inv, SchedInv, IdleAlone, PcbFields, ContextFields
<1>2. AnswersOK(state, resume, reg0', kstatus, heap, parent, children, exit_code, collected)
  <2>1. resume[current] # "wait"
    BY CurrentLives
  <2>2. \A p \in Procs : resume[p] = "wait" => reg0'[p] = reg0[p]
    BY <2>1
  <2> SUFFICES ASSUME NEW p \in Procs, resume[p] = "wait"
               PROVE  Answered(p, state, reg0', kstatus, heap, parent, children,
                               exit_code, collected)
    BY DEF AnswersOK
  <2>3. Answered(p, state, reg0, kstatus, heap, parent, children, exit_code, collected)
    BY DEF Inv, AnswersOK
  <2> QED
    BY <2>2, <2>3 DEF Answered
<1> QED
  BY <1>1, <1>2 DEF Inv

(* Handlers that exit nobody: the states st before the switch differ from   *)
(* state for the current process, and for processes the clock woke.         *)
LEMMA QuietMid ==
  ASSUME Inv,
         NEW st \in [Procs -> State], NEW h, NEW rg, NEW ks,
         \A q \in Procs : q # current =>
            /\ st[q] = state[q] \/ (state[q] = PROCESS_DELAYED /\ st[q] = PROCESS_READY)
            /\ rg[q] = reg0[q] /\ ks[q] = kstatus[q],
         st[current] # PROCESS_ZOMBIE,
         h = "wait" => st[current] = PROCESS_BLOCKED /\ rg[current] = "kstatus"
  PROVE  /\ Family(st, heap, parent, children)
         /\ AnswersOK(st, [resume EXCEPT ![current] = h], rg, ks,
                      heap, parent, children, exit_code, collected)
         /\ CollectedOK(st, heap, parent, exit_code, collected)
         /\ \A q \in Procs : st[q] = PROCESS_ZOMBIE <=> state[q] = PROCESS_ZOMBIE
<1>1. /\ current \in Procs /\ state[current] = PROCESS_RUNNING
      /\ heap[current] = "live" /\ resume[current] # "wait"
  BY CurrentLives
<1>2. \A q \in Procs : st[q] = PROCESS_ZOMBIE <=> state[q] = PROCESS_ZOMBIE
  BY <1>1
<1>3. parent \in [Procs -> Procs \cup {NULL}]
  BY DEF Inv, SchedInv
<1>4. Family(state, heap, parent, children)
  BY DEF Inv
<1>5. Family(st, heap, parent, children)
  <2>1. \A p \in Procs : heap[p] # "live" => st[p] \in {PROCESS_DEFAULT, PROCESS_ZOMBIE}
    <3>1. \A p \in Procs : heap[p] # "live" => /\ p # current
                                            /\ state[p] \in {PROCESS_DEFAULT, PROCESS_ZOMBIE}
      BY <1>1, <1>4 DEF Family
    <3> QED
      BY <3>1
  <2> QED
    BY <1>2, <1>3, <1>4, <2>1 DEF Family
<1>6. \A c \in Procs : Gone(c, state, heap) => Gone(c, st, heap)
  BY <1>1 DEF Gone
<1>7. AnswersOK(st, [resume EXCEPT ![current] = h], rg, ks, heap, parent, children,
                exit_code, collected)
  <2> DEFINE rs == [resume EXCEPT ![current] = h]
  <2> SUFFICES ASSUME NEW p \in Procs, rs[p] = "wait"
               PROVE  Answered(p, st, rg, ks, heap, parent, children, exit_code, collected)
    BY DEF AnswersOK
  <2>1. resume \in [Procs -> Handlers]
    BY DEF Inv, ContextFields
  <2>2. CASE p = current
    BY <1>1, <2>1, <2>2 DEF Answered
  <2>3. CASE p # current
    <3>1. resume[p] = "wait" /\ rg[p] = reg0[p] /\ ks[p] = kstatus[p]
      BY <2>1, <2>3
    <3>2. Answered(p, state, reg0, kstatus, heap, parent, children, exit_code, collected)
      BY <3>1 DEF Inv, AnswersOK
    <3>3. state[p] \in {PROCESS_BLOCKED, PROCESS_READY} => st[p] = state[p]
      BY <2>3
    <3> QED
      BY <1>6, <3>1, <3>2, <3>3 DEF Answered
  <2> QED
    BY <2>2, <2>3
<1>8. CollectedOK(st, heap, parent, exit_code, collected)
  <2>1. CollectedOK(state, heap, parent, exit_code, collected)
    BY DEF Inv
  <2>2. \A r \in collected : r.child \in Procs
    BY <2>1 DEF CollectedOK
  <2> QED
    BY <1>6, <2>1, <2>2 DEF CollectedOK
<1> QED
  BY <1>2, <1>5, <1>7, <1>8

(* find_zombie_child answers NULL only if no child is a zombie.             *)
LEMMA NoFirstZombie ==
  ASSUME PcbFields, NEW p \in Procs, ~ \E z \in Procs : FirstZombie(p, z)
  PROVE  \A c \in Procs : At(children[p], c) => state[c] # PROCESS_ZOMBIE
<1> DEFINE Z == {i \in 1..Len(children[p]) : state[children[p][i]] = PROCESS_ZOMBIE}
<1>1. children[p] \in Seq(Procs) /\ Len(children[p]) \in Nat
  BY LenProperties DEF PcbFields
<1>2. Z = {}
  <2> SUFFICES ASSUME Z # {}
               PROVE  FALSE
    OBVIOUS
  <2>1. Z \subseteq Nat
    BY <1>1
  <2>2. PICK m \in Z : \A i \in Z : ~ (<<i, m>> \in OpToRel(<, Nat))
    <3> HIDE DEF Z
    <3> QED
      BY <2>1, NatLessThanWellFounded, WFMin
  <2>3. \A i, j \in Nat : i < j => <<i, j>> \in OpToRel(<, Nat)
    BY Zenon DEF OpToRel
  <2>4. \A i \in Z : ~ (i < m)
    BY <2>1, <2>2, <2>3
  <2>5. m \in 1..Len(children[p]) /\ state[children[p][m]] = PROCESS_ZOMBIE
    OBVIOUS
  <2>6. \A j \in 1..(m - 1) : j \in 1..Len(children[p]) /\ j < m
    BY <1>1, <2>5
  <2>7. \A j \in 1..(m - 1) : state[children[p][j]] # PROCESS_ZOMBIE
    BY <2>4, <2>6
  <2>8. children[p][m] \in Procs
    BY <1>1, <2>5
  <2> QED
    BY <2>5, <2>7, <2>8 DEF FirstZombie
<1> QED
  BY <1>2 DEF At
-----------------------------------------------------------------------------
(* The handlers.                                                            *)

(* Wait finds a zombie: it was returned to nobody before.                   *)
LEMMA WaitReapsInv ==
  ASSUME Inv, SchedInv', NEW z \in Procs, WaitReaps(z)
  PROVE  Inv'
<1>1. /\ current \in Procs /\ state[current] = PROCESS_RUNNING
      /\ heap[current] = "live" /\ resume[current] # "wait"
  BY CurrentLives
<1>2. /\ heap' = [heap EXCEPT ![z] = "freed"]
      /\ collected' = collected \cup {[by |-> current, child |-> z, status |-> exit_code[z]]}
      /\ reg0' = [reg0 EXCEPT ![current] = z]
      /\ state' = RemoveFrom(System, PROCESS_ZOMBIE, z).state
      /\ UNCHANGED <<current, run_time, kstatus, resume, parent, children,
                     waiting_for_children, delay_ticks, exit_code, should_fork, fault>>
      /\ FirstZombie(current, z)
  BY DEF WaitReaps, Return
<1>3. At(children[current], z) /\ state[z] = PROCESS_ZOMBIE
  BY <1>2 DEF FirstZombie, At
<1>4. /\ state \in [Procs -> State] /\ heap \in [Procs -> {"unused", "live", "freed"}]
      /\ parent \in [Procs -> Procs \cup {NULL}]
  BY DEF Inv, SchedInv, Disciplined
<1>5. /\ \A q \in Procs : state'[q] = IF q = z THEN PROCESS_DEFAULT ELSE state[q]
      /\ \A q \in Procs : heap'[q] = IF q = z THEN "freed" ELSE heap[q]
  <2>1. state' = [state EXCEPT ![z] = PROCESS_DEFAULT]
    BY <1>2, <1>3 DEF RemoveFrom, System
  <2> QED
    BY <1>2, <1>4, <2>1
<1>6. PcbFields' /\ ContextFields'
  <2>1. z \in RegValue
    BY DEF RegValue
  <2> QED
    BY <1>2, <2>1 DEF Inv, PcbFields, ContextFields
<1>7. /\ Family(state, heap, parent, children)
      /\ StateOK(state, children, waiting_for_children, delay_ticks, exit_code)
      /\ AnswersOK(state, resume, reg0, kstatus, heap, parent, children,
                   exit_code, collected)
      /\ CollectedOK(state, heap, parent, exit_code, collected)
  BY DEF Inv
<1>8. Family(state', heap', parent, children)
  <2>1. /\ \A q \in Procs : state[q] # PROCESS_ZOMBIE => state'[q] # PROCESS_ZOMBIE
        /\ \A q \in Procs : heap'[q] = "live" => heap[q] = "live"
        /\ \A q \in Procs : state[q] # PROCESS_ZOMBIE => heap'[q] = heap[q]
    BY <1>3, <1>5
  <2>2. \A q \in Procs : heap'[q] # "live" => state'[q] \in {PROCESS_DEFAULT, PROCESS_ZOMBIE}
    BY <1>5, <1>7 DEF Family
  <2>3. \A q \in Procs : heap[q] # "unused" => heap'[q] # "unused"
    BY <1>5
  <2> QED
    BY <1>4, <1>7, <2>1, <2>2, <2>3 DEF Family
<1>9. StateOK(state', children, waiting_for_children, delay_ticks, exit_code)
  BY <1>5, <1>7 DEF StateOK
<1>10. \A c \in Procs : Gone(c, state, heap) => c # z /\ Gone(c, state', heap')
  BY <1>3, <1>5 DEF Gone
<1> DEFINE new == [by |-> current, child |-> z, status |-> exit_code[z]]
<1>11. /\ new.by = current /\ new.child = z /\ new.status = exit_code[z]
       /\ collected' = collected \cup {new}
  BY <1>2
<1>12. AnswersOK(state', resume, reg0', kstatus, heap', parent, children,
                 exit_code, collected')
  <2> SUFFICES ASSUME NEW p \in Procs, resume[p] = "wait"
               PROVE  Answered(p, state', reg0', kstatus, heap', parent, children,
                               exit_code, collected')
    BY DEF AnswersOK
  <2> HIDE DEF new
  <2>1. Answered(p, state, reg0, kstatus, heap, parent, children, exit_code, collected)
    BY <1>7 DEF AnswersOK
  <2>2. reg0'[p] = reg0[p]
    <3>1. p # current /\ reg0 \in [Procs -> RegValue]
      BY <1>1 DEF Inv, ContextFields
    <3> QED
      BY <1>2, <3>1
  <2>3. state'[p] = state[p]
    BY <1>3, <1>5, <2>1 DEF Answered
  <2> QED
    BY <1>10, <1>11, <2>1, <2>2, <2>3 DEF Answered
<1>13. CollectedOK(state', heap', parent, exit_code, collected')
  <2>1. new \in [by : Procs, child : Procs, status : Statuses]
    BY <1>1, <1>3, <1>7 DEF StateOK
  <2>2. parent[z] = current /\ Gone(z, state', heap')
    BY <1>1, <1>3, <1>5, <1>7 DEF Family, Gone
  <2> HIDE DEF new
  <2>3. /\ collected \subseteq [by : Procs, child : Procs, status : Statuses]
        /\ \A r \in collected : /\ r.child \in Procs /\ Gone(r.child, state, heap)
                                /\ parent[r.child] \in {r.by, NULL}
                                /\ r.status = exit_code[r.child]
        /\ \A r, t \in collected : r.child = t.child => r = t
    BY <1>7 DEF CollectedOK
  <2>4. \A r \in collected : r.child # z /\ Gone(r.child, state', heap')
    BY <1>10, <2>3
  <2> QED
    BY <1>11, <2>1, <2>2, <2>3, <2>4 DEF CollectedOK
<1> QED
  BY <1>2, <1>6, <1>8, <1>9, <1>12, <1>13 DEF Inv

(* The current process in a queue of its own choice, before the switch.     *)
LEMMA LeaveIs ==
  ASSUME Inv, current # Idle, NEW s \in Queued
  PROVE  LET T == AddTo(SetState(System, current, PROCESS_DEFAULT), s, current) IN
         /\ Disciplined(T.state, T.queue) /\ NoneRuns(T.state)
         /\ T.state \in [Procs -> State]
         /\ \A q \in Procs : T.state[q] = IF q = current THEN s ELSE state[q]
<1> DEFINE S == SetState(System, current, PROCESS_DEFAULT)
           T == AddTo(S, s, current)
<1>1. /\ Disciplined(S.state, S.queue) /\ NoneRuns(S.state)
      /\ S.state[current] = PROCESS_DEFAULT
      /\ \A q \in Procs : q # current => S.state[q] = state[q]
  BY DeselectKeeps DEF Inv
<1>2. current \in Procs /\ Idle \in Procs
  BY ProcessAssumption, CurrentLives
<1> HIDE DEF S
<1>3. /\ Disciplined(T.state, T.queue)
      /\ \A q \in Procs : T.state[q] = IF q = current THEN s ELSE S.state[q]
  BY <1>1, <1>2, AddToKeeps
<1> HIDE DEF T
<1>4. NoneRuns(T.state)
  BY <1>1, <1>2, <1>3 DEF NoneRuns, Queued
<1>5. \A q \in Procs : T.state[q] = IF q = current THEN s ELSE state[q]
  BY <1>1, <1>3
<1>6. T.state \in [Procs -> State]
  BY <1>3 DEF Disciplined
<1> QED
  BY <1>3, <1>4, <1>5, <1>6 DEF T, S

(* Wait blocks: no child is a zombie, and the next exit will see the flag.  *)
LEMMA WaitBlocksInv ==
  ASSUME Inv, SchedInv', WaitBlocks
  PROVE  Inv'
<1> DEFINE T == AddTo(SetState(System, current, PROCESS_DEFAULT), PROCESS_BLOCKED, current)
<1>1. /\ current # Idle
      /\ ~ \E z \in Procs : FirstZombie(current, z)
      /\ waiting_for_children' = [waiting_for_children EXCEPT ![current] = TRUE]
      /\ UNCHANGED <<parent, children, delay_ticks, exit_code, should_fork, heap>>
  BY DEF WaitBlocks, InUser
<1>2. PICK status_ptr \in {NULL, "user"}, kstatus_ptr \in {ZERO, "kstatus"} :
        schedule(T, IF status_ptr = NULL \/ kstatus_ptr = ZERO THEN "wait to NULL" ELSE "wait",
                 [reg0 EXCEPT ![current] = kstatus_ptr], [kstatus EXCEPT ![current] = NULL])
  BY DEF WaitBlocks
<1> DEFINE h == IF status_ptr = NULL \/ kstatus_ptr = ZERO THEN "wait to NULL" ELSE "wait"
           rg == [reg0 EXCEPT ![current] = kstatus_ptr]
           ks == [kstatus EXCEPT ![current] = NULL]
<1>3. /\ Disciplined(T.state, T.queue) /\ NoneRuns(T.state)
      /\ T.state \in [Procs -> State]
      /\ \A q \in Procs : T.state[q] = IF q = current THEN PROCESS_BLOCKED ELSE state[q]
  <2>1. PROCESS_BLOCKED \in Queued
    BY DEF Queued
  <2> QED
    BY <1>1, <2>1, LeaveIs
<1>4. schedule(T, h, rg, ks)
  BY <1>2
<1> HIDE DEF T
<1>5. current \in Procs
  BY CurrentLives
<1>6. /\ h \in Handlers /\ rg \in [Procs -> RegValue] /\ ks \in [Procs -> Statuses \cup {NULL}]
      /\ h = "wait" => rg[current] = "kstatus"
      /\ \A q \in Procs : q # current => rg[q] = reg0[q] /\ ks[q] = kstatus[q]
  BY <1>5 DEF Inv, ContextFields, Handlers, RegValue, ZERO
<1>7. PcbFields'
  BY <1>1 DEF Inv, PcbFields
<1> HIDE DEF h, rg, ks
<1>8. /\ Family(T.state, heap, parent, children)
      /\ AnswersOK(T.state, [resume EXCEPT ![current] = h], rg, ks,
                   heap, parent, children, exit_code, collected)
      /\ CollectedOK(T.state, heap, parent, exit_code, collected)
      /\ \A q \in Procs : T.state[q] = PROCESS_ZOMBIE <=> state[q] = PROCESS_ZOMBIE
  <2>1. /\ T.state[current] # PROCESS_ZOMBIE
        /\ h = "wait" => T.state[current] = PROCESS_BLOCKED /\ rg[current] = "kstatus"
    BY <1>3, <1>5, <1>6
  <2>2. \A q \in Procs : q # current =>
           /\ T.state[q] = state[q] \/ (state[q] = PROCESS_DELAYED /\ T.state[q] = PROCESS_READY)
           /\ rg[q] = reg0[q] /\ ks[q] = kstatus[q]
    BY <1>3, <1>6
  <2> QED
    BY <1>3, <2>1, <2>2, QuietMid
<1>9. StateOK(T.state, children', waiting_for_children', delay_ticks', exit_code')
  <2>1. \A c \in Procs : At(children[current], c) => state[c] # PROCESS_ZOMBIE
    BY <1>1, <1>5, NoFirstZombie DEF Inv
  <2>2. StateOK(state, children, waiting_for_children, delay_ticks, exit_code)
    BY DEF Inv
  <2>3. waiting_for_children'[current]
        /\ \A q \in Procs : q # current => waiting_for_children'[q] = waiting_for_children[q]
    BY <1>1, <1>5 DEF Inv, PcbFields
  <2> QED
    BY <1>1, <1>3, <1>8, <2>1, <2>2, <2>3 DEF StateOK
<1>10. T.state[current] # PROCESS_READY
  BY <1>3, <1>5
<1> QED
  BY <1>1, <1>3, <1>4, <1>6, <1>7, <1>8, <1>9, <1>10, SwitchInv

(* Delay: with a positive argument, so the ticks that are left are.         *)
LEMMA DelaysInv ==
  ASSUME Inv, SchedInv', NEW delay \in 0..MaxDelay, Delays(delay)
  PROVE  Inv'
<1> DEFINE T == AddTo(SetState(System, current, PROCESS_DEFAULT), PROCESS_DELAYED, current)
           rg == [reg0 EXCEPT ![current] = ZERO]
<1>1. /\ current # Idle /\ delay # 0
      /\ delay_ticks' = [delay_ticks EXCEPT ![current] = delay]
      /\ schedule(T, "delay", rg, kstatus)
      /\ UNCHANGED <<parent, children, waiting_for_children, exit_code, should_fork, heap>>
  BY DEF Delays, InUser
<1>2. /\ Disciplined(T.state, T.queue) /\ NoneRuns(T.state)
      /\ T.state \in [Procs -> State]
      /\ \A q \in Procs : T.state[q] = IF q = current THEN PROCESS_DELAYED ELSE state[q]
  <2>1. PROCESS_DELAYED \in Queued
    BY DEF Queued
  <2> QED
    BY <1>1, <2>1, LeaveIs
<1> HIDE DEF T
<1>3. current \in Procs
  BY CurrentLives
<1>4. /\ "delay" \in Handlers /\ rg \in [Procs -> RegValue]
      /\ kstatus \in [Procs -> Statuses \cup {NULL}]
      /\ \A q \in Procs : q # current => rg[q] = reg0[q]
  BY <1>3 DEF Inv, ContextFields, Handlers, RegValue, ZERO
<1>5. PcbFields'
  BY <1>1 DEF Inv, PcbFields
<1> HIDE DEF rg
<1>6. /\ Family(T.state, heap, parent, children)
      /\ AnswersOK(T.state, [resume EXCEPT ![current] = "delay"], rg, kstatus,
                   heap, parent, children, exit_code, collected)
      /\ CollectedOK(T.state, heap, parent, exit_code, collected)
      /\ \A q \in Procs : T.state[q] = PROCESS_ZOMBIE <=> state[q] = PROCESS_ZOMBIE
  BY <1>2, <1>3, <1>4, QuietMid
<1>7. StateOK(T.state, children', waiting_for_children', delay_ticks', exit_code')
  <2>1. StateOK(state, children, waiting_for_children, delay_ticks, exit_code)
    BY DEF Inv
  <2>2. /\ delay_ticks'[current] # 0
        /\ \A q \in Procs : q # current => delay_ticks'[q] = delay_ticks[q]
    BY <1>1, <1>3 DEF Inv, PcbFields
  <2> QED
    BY <1>1, <1>2, <1>6, <2>1, <2>2 DEF StateOK
<1>8. T.state[current] # PROCESS_READY
  BY <1>2, <1>3
<1> QED
  BY <1>1, <1>2, <1>4, <1>5, <1>6, <1>7, <1>8, SwitchInv

(* Fork, whichever PCB it is handed: the child has no relatives but its     *)
(* parent, which is running.  (Unless the PCB was linked, those that list   *)
(* it are its parent, and a parent that waits was not answered with it.)    *)
LEMMA ForkChildIs ==
  ASSUME Inv, NEW child \in Procs, ForkChild(child)
  PROVE  /\ PcbFields'
         /\ run_time' = run_time /\ kstatus' = kstatus
         /\ reg0' \in [Procs -> RegValue] /\ resume' \in [Procs -> Handlers]
         /\ SparesIdle' /\ ParentAlive'
         /\ ~ Linked(child) => Family(state', heap', parent', children')
         /\ StateOK(state', children', waiting_for_children', delay_ticks', exit_code')
         /\ ~ Linked(child) =>
               AnswersOK(state', resume', reg0', kstatus', heap', parent', children',
                         exit_code', collected')
         /\ CollectedOK(state', heap', parent', exit_code', collected')
<1>1. /\ current \in Procs /\ state[current] = PROCESS_RUNNING
      /\ heap[current] = "live" /\ resume[current] # "wait"
  BY CurrentLives
<1>2. /\ heap[child] # "live"
      /\ heap' = [heap EXCEPT ![child] = "live"]
      /\ parent' = [parent EXCEPT ![child] = current]
      /\ children' = [children EXCEPT ![child] = <<>>, ![current] = Append(@, child)]
      /\ waiting_for_children' = [waiting_for_children EXCEPT ![child] = FALSE]
      /\ delay_ticks' = [delay_ticks EXCEPT ![child] = 0]
      /\ exit_code' = [exit_code EXCEPT ![child] = NULL]
      /\ should_fork' = [should_fork EXCEPT ![child] = FALSE]
      /\ reg0' = [reg0 EXCEPT ![current] = child, ![child] = reg0[current]]
      /\ resume' = [resume EXCEPT ![child] = "fork"]
      /\ collected' = {r \in collected : r.child # child}
      /\ UNCHANGED <<current, run_time, kstatus>>
  BY DEF ForkChild
<1>3. /\ state \in [Procs -> State] /\ heap \in [Procs -> {"unused", "live", "freed"}]
      /\ parent \in [Procs -> Procs \cup {NULL}] /\ NULL \notin Procs
  BY ProcessAssumption DEF Inv, SchedInv, Disciplined
<1>4. /\ Family(state, heap, parent, children)
      /\ StateOK(state, children, waiting_for_children, delay_ticks, exit_code)
      /\ AnswersOK(state, resume, reg0, kstatus, heap, parent, children,
                   exit_code, collected)
      /\ CollectedOK(state, heap, parent, exit_code, collected)
      /\ PcbFields /\ ContextFields /\ SparesIdle
  BY DEF Inv, Family, SparesIdle
<1>5. /\ child # current /\ state[child] \in {PROCESS_DEFAULT, PROCESS_ZOMBIE}
      /\ state' = [state EXCEPT ![child] = PROCESS_READY]
  BY <1>4, ForkChildMoves DEF Inv
<1>6. \A q \in Procs :
        /\ q # child => /\ state'[q] = state[q] /\ heap'[q] = heap[q]
                        /\ parent'[q] = parent[q] /\ exit_code'[q] = exit_code[q]
                        /\ waiting_for_children'[q] = waiting_for_children[q]
                        /\ delay_ticks'[q] = delay_ticks[q]
  BY <1>2, <1>3, <1>4, <1>5 DEF PcbFields
<1>7. heap'[child] = "live" /\ parent'[child] = current /\ state'[child] = PROCESS_READY
  BY <1>2, <1>3, <1>5
<1>8. \A q, c \in Procs : At(children'[q], c) <=>
         q # child /\ (At(children[q], c) \/ (q = current /\ c = child))
  <2>1. children[current] \in Seq(Procs) /\ children \in [Procs -> Seq(Procs)]
    BY <1>1, <1>4 DEF PcbFields
  <2>2. /\ children'[current] = Append(children[current], child) /\ children'[child] = <<>>
        /\ \A q \in Procs : q # current /\ q # child => children'[q] = children[q]
    BY <1>1, <1>2, <1>5, <2>1
  <2> DEFINE l == children[current]
  <2>3. /\ Len(Append(l, child)) = Len(l) + 1 /\ Len(l) \in Nat
        /\ \A i \in 1..Len(l) : Append(l, child)[i] = l[i]
        /\ Append(l, child)[Len(l) + 1] = child
    BY <2>1, AppendProperties, LenProperties
  <2>4. 1..(Len(l) + 1) = (1..Len(l)) \cup {Len(l) + 1}
    BY <2>3
  <2>5. \A c : At(Append(l, child), c) <=> At(l, c) \/ c = child
    BY <2>3, <2>4 DEF At
  <2>6. \A c : ~ At(<<>>, c)
    BY DEF At
  <2> QED
    BY <1>5, <2>2, <2>5, <2>6
<1>9. PcbFields'
  <2>1. Append(children[current], child) \in Seq(Procs) /\ <<>> \in Seq(Procs)
    BY <1>1, <1>4, AppendProperties DEF PcbFields
  <2>2. 0 \in 0..MaxDelay
    BY ProcessAssumption
  <2>3. children' \in [Procs -> Seq(Procs)]
    BY <1>1, <1>2, <1>4, <1>5, <2>1 DEF PcbFields
  <2> QED
    BY <1>2, <1>4, <2>2, <2>3 DEF PcbFields
<1>10. reg0' \in [Procs -> RegValue] /\ resume' \in [Procs -> Handlers]
  <2>1. child \in RegValue /\ reg0[current] \in RegValue /\ "fork" \in Handlers
    BY <1>1, <1>4 DEF ContextFields, RegValue, Handlers
  <2> QED
    BY <1>2, <1>4, <2>1 DEF ContextFields
<1>11. /\ \A p \in Procs : heap'[p] # "live" => state'[p] \in {PROCESS_DEFAULT, PROCESS_ZOMBIE}
       /\ \A p \in Procs : parent'[p] # p
  BY <1>4, <1>5, <1>6, <1>7 DEF Family
<1>12. ASSUME NEW p \in Procs, heap'[p] = "live", parent'[p] # NULL
       PROVE  /\ heap'[parent'[p]] = "live" /\ state'[parent'[p]] # PROCESS_ZOMBIE
              /\ At(children'[parent'[p]], p)
  <2>1. CASE p = child
    BY <1>1, <1>5, <1>6, <1>7, <1>8, <2>1
  <2>2. CASE p # child
    <3>1. heap[p] = "live" /\ parent'[p] = parent[p] /\ parent[p] \in Procs
      BY <1>3, <1>6, <1>12, <2>2
    <3>2. /\ heap[parent[p]] = "live" /\ state[parent[p]] # PROCESS_ZOMBIE
          /\ At(children[parent[p]], p)
      BY <1>4, <1>12, <3>1 DEF Family
    <3> QED
      BY <1>2, <1>6, <1>8, <3>1, <3>2
  <2> QED
    BY <2>1, <2>2
<1>13. ParentAlive'
  <2> SUFFICES ASSUME NEW p \in Procs, heap'[p] = "live", parent'[p] # NULL
               PROVE  /\ heap'[parent'[p]] = "live" /\ state'[parent'[p]] # PROCESS_ZOMBIE
                      /\ p \in ToSet(children'[parent'[p]])
    BY DEF ParentAlive
  <2>1. parent'[p] \in Procs /\ children' \in [Procs -> Seq(Procs)]
    BY <1>1, <1>2, <1>3, <1>9 DEF PcbFields
  <2>2. At(children'[parent'[p]], p) => p \in ToSet(children'[parent'[p]])
    BY <2>1, LenProperties DEF ToSet, At
  <2> QED
    BY <1>12, <2>2
<1>14. ASSUME ~ Linked(child)
       PROVE  \A q \in Procs : ~ At(children[q], child)
  BY <1>4, <1>14, ChildrenAt DEF Linked
<1>15. ASSUME ~ Linked(child)
       PROVE  Family(state', heap', parent', children')
  <2>1. ASSUME NEW p \in Procs, NEW q \in Procs, At(children'[q], p)
        PROVE  parent'[p] = q /\ heap'[p] # "unused"
    <3>1. CASE p = child
      BY <1>7, <1>8, <1>14, <1>15, <2>1, <3>1
    <3>2. CASE p # child
      <4>1. At(children[q], p)
        BY <1>8, <2>1, <3>2
      <4>2. parent[p] = q /\ heap[p] # "unused"
        BY <1>4, <4>1 DEF Family
      <4> QED
        BY <1>6, <3>2, <4>2
    <3> QED
      BY <3>1, <3>2
  <2> QED
    BY <1>11, <1>12, <2>1 DEF Family
<1>16. StateOK(state', children', waiting_for_children', delay_ticks', exit_code')
  <2>1. ASSUME NEW p \in Procs, state'[p] = PROCESS_BLOCKED
        PROVE  /\ waiting_for_children'[p]
               /\ \A c \in Procs : At(children'[p], c) => state'[c] # PROCESS_ZOMBIE
    <3>1. p # child /\ p # current /\ state[p] = PROCESS_BLOCKED
      BY <1>1, <1>6, <1>7, <2>1
    <3>2. /\ waiting_for_children[p]
          /\ \A c \in Procs : At(children[p], c) => state[c] # PROCESS_ZOMBIE
      BY <1>4, <3>1 DEF StateOK
    <3> QED
      BY <1>6, <1>7, <1>8, <3>1, <3>2
  <2>2. \A p \in Procs : state'[p] = PROCESS_DELAYED => delay_ticks'[p] # 0
    BY <1>4, <1>6, <1>7 DEF StateOK
  <2>3. \A p \in Procs : state'[p] = PROCESS_ZOMBIE => exit_code'[p] \in Statuses
    BY <1>4, <1>6, <1>7 DEF StateOK
  <2> QED
    BY <2>1, <2>2, <2>3 DEF StateOK
<1>17. \A c \in Procs : c # child =>
          /\ Gone(c, state, heap) => Gone(c, state', heap')
          /\ parent'[c] = parent[c] /\ exit_code'[c] = exit_code[c]
  BY <1>6 DEF Gone
<1>18. ASSUME ~ Linked(child)
       PROVE  AnswersOK(state', resume', reg0', kstatus', heap', parent', children',
                        exit_code', collected')
  <2> SUFFICES ASSUME NEW p \in Procs, resume'[p] = "wait"
               PROVE  Answered(p, state', reg0', kstatus, heap', parent', children',
                               exit_code', collected')
    BY <1>2 DEF AnswersOK
  <2>1. resume \in [Procs -> Handlers] /\ reg0 \in [Procs -> RegValue]
    BY <1>4 DEF ContextFields
  <2>2. p # child /\ p # current /\ resume[p] = "wait"
    BY <1>1, <1>2, <2>1
  <2>3. reg0'[p] = reg0[p] /\ state'[p] = state[p]
    BY <1>1, <1>2, <1>6, <2>1, <2>2
  <2>4. Answered(p, state, reg0, kstatus, heap, parent, children, exit_code, collected)
    BY <1>4, <2>2 DEF AnswersOK
  <2>5. CASE state[p] = PROCESS_BLOCKED /\ reg0[p] = "kstatus"
    BY <2>3, <2>5 DEF Answered
  <2>6. CASE ~ (state[p] = PROCESS_BLOCKED /\ reg0[p] = "kstatus")
    <3>1. /\ state[p] = PROCESS_READY
          /\ reg0[p] \in Procs /\ Gone(reg0[p], state, heap) /\ parent[reg0[p]] = p
          /\ At(children[p], reg0[p])
          /\ kstatus[p] = exit_code[reg0[p]] /\ kstatus[p] \in Statuses
          /\ \A r \in collected : r.child # reg0[p]
      BY <2>4, <2>6 DEF Answered
    <3>2. reg0[p] # child
      BY <1>14, <1>18, <3>1
    <3>3. /\ Gone(reg0[p], state', heap') /\ parent'[reg0[p]] = p
          /\ exit_code'[reg0[p]] = exit_code[reg0[p]] /\ At(children'[p], reg0[p])
      BY <1>8, <1>17, <2>2, <3>1, <3>2
    <3>4. \A r \in collected' : r.child # reg0[p]
      BY <1>2, <3>1
    <3> QED
      BY <2>3, <3>1, <3>3, <3>4 DEF Answered
  <2> QED
    BY <2>5, <2>6
<1>19. CollectedOK(state', heap', parent', exit_code', collected')
  <2>1. collected' \subseteq collected /\ \A r \in collected' : r.child # child
    BY <1>2
  <2>2. /\ collected \subseteq [by : Procs, child : Procs, status : Statuses]
        /\ \A r \in collected : /\ r.child \in Procs /\ Gone(r.child, state, heap)
                                /\ parent[r.child] \in {r.by, NULL}
                                /\ r.status = exit_code[r.child]
        /\ \A r, u \in collected : r.child = u.child => r = u
    BY <1>4 DEF CollectedOK
  <2>3. \A r \in collected' : /\ Gone(r.child, state', heap')
                              /\ parent'[r.child] \in {r.by, NULL}
                              /\ r.status = exit_code'[r.child]
    BY <1>17, <2>1, <2>2
  <2> QED
    BY <2>1, <2>2, <2>3 DEF CollectedOK
<1> QED
  BY <1>2, <1>9, <1>10, <1>11, <1>13, <1>15, <1>16, <1>18, <1>19 DEF SparesIdle

LEMMA ForkChildInv ==
  ASSUME Inv, SchedInv', NEW child \in Procs, ForkChild(child), ~ Linked(child)
  PROVE  Inv'
<1>1. fault' = fault
  BY DEF ForkChild
<1>2. ContextFields'
  BY <1>1, ForkChildIs DEF Inv, ContextFields
<1> QED
  BY <1>2, ForkChildIs DEF Inv

(* Fork with a PCB that is still linked: it is not a running one.           *)
LEMMA ForkRelinks ==
  ASSUME Inv, NEW child \in Procs, ForkChild(child), Linked(child)
  PROVE  Relinked'
<1>1. /\ PcbFields' /\ SparesIdle' /\ ParentAlive'
      /\ run_time' = run_time /\ kstatus' = kstatus
      /\ reg0' \in [Procs -> RegValue] /\ resume' \in [Procs -> Handlers]
      /\ CollectedOK(state', heap', parent', exit_code', collected')
  BY ForkChildIs
<1>2. /\ state' = [state EXCEPT ![child] = PROCESS_READY]
      /\ queue' = [queue EXCEPT ![PROCESS_READY] = Append(@, child)]
      /\ Runs(state', current')
      /\ parent' \in [Procs -> Procs \cup {NULL}]
      /\ heap' \in [Procs -> {"unused", "live", "freed"}]
  BY ForkChildMoves DEF Inv, Family, SparesIdle
<1>3. state' \in [Procs -> State] /\ queue' \in [Queued -> Seq(Procs)]
  <2>1. /\ state \in [Procs -> State] /\ queue \in [Queued -> Seq(Procs)]
        /\ PROCESS_READY \in State /\ PROCESS_READY \in Queued
    BY DEF Inv, SchedInv, Disciplined, State, Queued
  <2>2. Append(queue[PROCESS_READY], child) \in Seq(Procs)
    BY <2>1, AppendProperties
  <2> QED
    BY <1>2, <2>1, <2>2
<1>4. fault' = "relinked"
  BY DEF ForkChild
<1>5. TypeOK'
  <2>1. current' \in Procs /\ run_time' \in 0..(DEFAULT_TIMESLICE + 1)
        /\ kstatus' \in [Procs -> Statuses \cup {NULL}]
    BY <1>1, <1>2 DEF Runs, Inv, ContextFields
  <2> QED
    BY <1>1, <1>2, <1>3, <1>4, <2>1 DEF TypeOK, PcbFields, Handlers, CollectedOK
<1>6. OneRunning'
  BY <1>2 DEF Runs, OneRunning
<1>7. ExitedNeverRuns'
  <2> SUFFICES ASSUME NEW p \in Procs, heap'[p] = "freed" \/ state'[p] = PROCESS_ZOMBIE
               PROVE  /\ p # current'
                      /\ state'[p] \notin {PROCESS_READY, PROCESS_DELAYED, PROCESS_BLOCKED}
    BY DEF ExitedNeverRuns, Exited
  <2>1. state'[p] \in {PROCESS_DEFAULT, PROCESS_ZOMBIE}
    BY <1>1 DEF SparesIdle
  <2> QED
    BY <1>6, <2>1 DEF OneRunning
<1> QED
  BY <1>1, <1>4, <1>5, <1>6, <1>7 DEF Relinked

(* Who an exit moves, and whom it answers: a waiting parent.               *)
ExitMoves(st, rg, ks, status) ==
  /\ st[current] = IF Wakes THEN PROCESS_DEFAULT ELSE PROCESS_ZOMBIE
  /\ \A q \in Procs : q # current =>
        \/ st[q] = state[q] /\ rg[q] = reg0[q] /\ ks[q] = kstatus[q]
        \/ /\ Wakes /\ q = parent[current]
           /\ \/ st[q] = state[q] /\ state[q] # PROCESS_BLOCKED
              \/ st[q] = PROCESS_READY /\ state[q] \in {PROCESS_BLOCKED, PROCESS_DEFAULT}
           /\ rg[q] = current
           /\ reg0[q] = "kstatus" => ks[q] = status

(* terminate_process up to schedule.  The exiting process and its zombie    *)
(* children are out of every other list, so what is freed is the parent,    *)
(* the child and the answer of nobody else.                                 *)
LEMMA ExitMid ==
  ASSUME Inv, NEW status \in Statuses,
         exit_code' = [exit_code EXCEPT ![current] = status],
         children' = [children EXCEPT ![current] = <<>>],
         parent' = Orphaned,
         \A q \in Procs : heap'[q] = IF Freed(q) \/ (q = current /\ Wakes) THEN "freed"
                                   ELSE heap[q],
         UNCHANGED <<waiting_for_children, delay_ticks>>,
         NEW st, NEW rg, NEW ks, ExitMoves(st, rg, ks, status),
         Wakes => reg0[parent[current]] \in {ZERO, "kstatus"}
  PROVE  /\ Family(st, heap', parent', children')
         /\ StateOK(st, children', waiting_for_children', delay_ticks', exit_code')
         /\ AnswersOK(st, [resume EXCEPT ![current] = "dead"], rg, ks,
                      heap', parent', children', exit_code', collected)
         /\ CollectedOK(st, heap', parent', exit_code', collected)
<1> USE DEF ExitMoves
<1>1. /\ current \in Procs /\ state[current] = PROCESS_RUNNING
      /\ heap[current] = "live" /\ resume[current] # "wait"
  BY CurrentLives
<1>2. /\ heap \in [Procs -> {"unused", "live", "freed"}]
      /\ parent \in [Procs -> Procs \cup {NULL}] /\ NULL \notin Procs
      /\ children \in [Procs -> Seq(Procs)]
      /\ exit_code \in [Procs -> Statuses \cup {NULL}]
      /\ waiting_for_children \in [Procs -> BOOLEAN]
  BY ProcessAssumption DEF Inv, SchedInv, PcbFields
<1>3. /\ Family(state, heap, parent, children)
      /\ StateOK(state, children, waiting_for_children, delay_ticks, exit_code)
      /\ AnswersOK(state, resume, reg0, kstatus, heap, parent, children,
                   exit_code, collected)
      /\ CollectedOK(state, heap, parent, exit_code, collected)
  BY DEF Inv
<1>4. \A q \in Procs : Freed(q) <=> At(children[current], q) /\ state[q] = PROCESS_ZOMBIE
  BY <1>1, ChildrenAt DEF Freed, Inv
<1>5. \A q \in Procs : parent'[q] = IF At(children[current], q) /\ state[q] # PROCESS_ZOMBIE
                                   THEN NULL ELSE parent[q]
  <2>1. \A q \in Procs : q \in ToSet(children[current]) <=> At(children[current], q)
    BY <1>1, ChildrenAt DEF Inv
  <2> QED
    BY <1>4, <2>1 DEF Orphaned
<1>6. \A q \in Procs : heap'[q] = IF At(children[current], q) /\ state[q] = PROCESS_ZOMBIE
                                 THEN "freed"
                                 ELSE IF q = current /\ Wakes THEN "freed" ELSE heap[q]
  BY <1>4
<1>7. /\ children'[current] = <<>> /\ exit_code'[current] = status
      /\ \A q \in Procs : q # current => /\ children'[q] = children[q]
                                       /\ exit_code'[q] = exit_code[q]
  BY <1>1, <1>2
<1>8. ~ \E x : At(<<>>, x)
  BY DEF At
<1>9. /\ \A p, q \in Procs : At(children[q], p) => parent[p] = q /\ heap[p] # "unused"
      /\ \A p \in Procs : parent[p] # p
      /\ \A p \in Procs : heap[p] # "live" => state[p] \in {PROCESS_DEFAULT, PROCESS_ZOMBIE}
      /\ \A p \in Procs : heap[p] = "live" /\ parent[p] # NULL =>
            /\ heap[parent[p]] = "live" /\ state[parent[p]] # PROCESS_ZOMBIE
            /\ At(children[parent[p]], p)
  BY <1>3 DEF Family
<1>10. Wakes => /\ parent[current] \in Procs /\ parent[current] # current
                /\ heap[parent[current]] = "live"
                /\ state[parent[current]] # PROCESS_ZOMBIE
                /\ waiting_for_children[parent[current]]
  BY <1>1, <1>2, <1>9 DEF Wakes
<1>11. /\ \A q \in Procs : q # current => (st[q] = PROCESS_ZOMBIE <=> state[q] = PROCESS_ZOMBIE)
       /\ \A q \in Procs : q # current /\ st[q] = PROCESS_DELAYED => state[q] = PROCESS_DELAYED
       /\ \A q \in Procs : q # current /\ st[q] = PROCESS_BLOCKED => state[q] = PROCESS_BLOCKED
  BY <1>10
<1>12. Family(st, heap', parent', children')
  <2>1. ASSUME NEW p \in Procs, heap'[p] # "live"
        PROVE  st[p] \in {PROCESS_DEFAULT, PROCESS_ZOMBIE}
    <3>1. CASE p = current
      BY <3>1
    <3>2. CASE p # current /\ state[p] = PROCESS_ZOMBIE
      BY <1>11, <3>2
    <3>3. CASE p # current /\ state[p] # PROCESS_ZOMBIE
      <4>1. heap[p] # "live"
        BY <1>6, <2>1, <3>3
      <4> QED
        BY <1>9, <1>10, <3>3, <4>1
    <3> QED
      BY <3>1, <3>2, <3>3
  <2>2. ASSUME NEW p \in Procs, NEW q \in Procs, At(children'[q], p)
        PROVE  parent'[p] = q /\ heap'[p] # "unused"
    <3>1. q # current /\ At(children[q], p)
      BY <1>7, <1>8, <2>2
    <3>2. ~ At(children[current], p)
      BY <1>1, <1>9, <3>1
    <3> QED
      BY <1>5, <1>6, <1>9, <3>1, <3>2
  <2>3. \A p \in Procs : parent'[p] # p
    BY <1>2, <1>5, <1>9
  <2>4. ASSUME NEW p \in Procs, heap'[p] = "live", parent'[p] # NULL
        PROVE  /\ heap'[parent'[p]] = "live" /\ st[parent'[p]] # PROCESS_ZOMBIE
               /\ At(children'[parent'[p]], p)
    <3>1. heap[p] = "live" /\ ~ At(children[current], p)
      BY <1>5, <1>6, <2>4
    <3>2. parent'[p] = parent[p] /\ parent[p] \in Procs
      BY <1>2, <1>5, <2>4, <3>1
    <3>3. /\ heap[parent[p]] = "live" /\ state[parent[p]] # PROCESS_ZOMBIE
          /\ At(children[parent[p]], p)
      BY <1>9, <2>4, <3>1, <3>2
    <3>4. parent[p] # current
      BY <3>1, <3>3
    <3>5. heap'[parent[p]] = "live"
      BY <1>6, <3>2, <3>3, <3>4
    <3> QED
      BY <1>7, <1>11, <3>2, <3>3, <3>4, <3>5
  <2> QED
    BY <2>1, <2>2, <2>3, <2>4 DEF Family
<1>13. StateOK(st, children', waiting_for_children', delay_ticks', exit_code')
  <2>1. ASSUME NEW p \in Procs, st[p] = PROCESS_BLOCKED
        PROVE  /\ waiting_for_children'[p]
               /\ \A c \in Procs : At(children'[p], c) => st[c] # PROCESS_ZOMBIE
    <3>1. p # current /\ state[p] = PROCESS_BLOCKED
      BY <1>11, <2>1
    <3>2. /\ waiting_for_children[p]
          /\ \A c \in Procs : At(children[p], c) => state[c] # PROCESS_ZOMBIE
      BY <1>3, <3>1 DEF StateOK
    <3>3. At(children[p], current) => Wakes
      BY <1>1, <1>2, <1>9, <3>2 DEF Wakes
    <3>4. children'[p] = children[p]
      BY <1>7, <3>1
    <3> QED
      BY <1>11, <3>2, <3>3, <3>4
  <2>2. \A p \in Procs : st[p] = PROCESS_DELAYED => delay_ticks'[p] # 0
    BY <1>3, <1>11 DEF StateOK
  <2>3. \A p \in Procs : st[p] = PROCESS_ZOMBIE => exit_code'[p] \in Statuses
    <3>1. \A p \in Procs : state[p] = PROCESS_ZOMBIE => exit_code[p] \in Statuses
      BY <1>3 DEF StateOK
    <3> QED
      BY <1>7, <1>11, <3>1
  <2> QED
    BY <2>1, <2>2, <2>3 DEF StateOK
<1>14. \A c \in Procs : Gone(c, state, heap) =>
          /\ c # current /\ Gone(c, st, heap')
          /\ exit_code'[c] = exit_code[c]
          /\ parent'[c] \in {parent[c], NULL}
          /\ parent[c] # current => parent'[c] = parent[c]
  <2> SUFFICES ASSUME NEW c \in Procs, heap[c] = "freed", state[c] = PROCESS_DEFAULT
               PROVE  /\ c # current /\ st[c] = PROCESS_DEFAULT /\ heap'[c] = "freed"
                      /\ exit_code'[c] = exit_code[c]
                      /\ parent'[c] \in {parent[c], NULL}
                      /\ parent[c] # current => parent'[c] = parent[c]
    BY DEF Gone
  <2>1. c # current
    BY <1>1
  <2>2. st[c] = PROCESS_DEFAULT
    BY <1>10, <2>1
  <2>3. heap'[c] = "freed"
    BY <1>6
  <2>4. parent'[c] \in {parent[c], NULL} /\ (parent[c] # current => parent'[c] = parent[c])
    BY <1>1, <1>5, <1>9
  <2> QED
    BY <1>7, <2>1, <2>2, <2>3, <2>4
<1>15. AnswersOK(st, [resume EXCEPT ![current] = "dead"], rg, ks,
                 heap', parent', children', exit_code', collected)
  <2> SUFFICES ASSUME NEW p \in Procs, [resume EXCEPT ![current] = "dead"][p] = "wait"
               PROVE  Answered(p, st, rg, ks, heap', parent', children',
                               exit_code', collected)
    BY DEF AnswersOK
  <2>1. p # current /\ resume[p] = "wait"
    <3>1. resume \in [Procs -> Handlers]
      BY DEF Inv, ContextFields
    <3> QED
      BY <1>1, <3>1
  <2>2. Answered(p, state, reg0, kstatus, heap, parent, children, exit_code, collected)
    BY <1>3, <2>1 DEF AnswersOK
  <2>3. CASE st[p] = state[p] /\ rg[p] = reg0[p] /\ ks[p] = kstatus[p]
    <3>1. CASE state[p] = PROCESS_BLOCKED /\ reg0[p] = "kstatus"
      BY <2>3, <3>1 DEF Answered
    <3>2. CASE state[p] # PROCESS_BLOCKED \/ reg0[p] # "kstatus"
      <4>1. /\ state[p] = PROCESS_READY
            /\ reg0[p] \in Procs /\ Gone(reg0[p], state, heap) /\ parent[reg0[p]] = p
            /\ At(children[p], reg0[p])
            /\ kstatus[p] = exit_code[reg0[p]] /\ kstatus[p] \in Statuses
            /\ \A r \in collected : r.child # reg0[p]
        BY <2>2, <3>2 DEF Answered
      <4>2. Gone(reg0[p], st, heap') /\ parent'[reg0[p]] = p
            /\ exit_code'[reg0[p]] = exit_code[reg0[p]]
            /\ At(children'[p], reg0[p])
        BY <1>7, <1>14, <2>1, <4>1
      <4> QED
        BY <2>3, <4>1, <4>2 DEF Answered
    <3> QED
      BY <3>1, <3>2
  <2>4. CASE /\ Wakes /\ p = parent[current]
             /\ \/ st[p] = state[p] /\ state[p] # PROCESS_BLOCKED
                \/ st[p] = PROCESS_READY /\ state[p] \in {PROCESS_BLOCKED, PROCESS_DEFAULT}
             /\ rg[p] = current
             /\ reg0[p] = "kstatus" => ks[p] = status
    <3>1. reg0[p] \notin Procs
      BY <2>4, ProcessAssumption DEF ZERO
    <3>2. state[p] = PROCESS_BLOCKED /\ reg0[p] = "kstatus"
      BY <2>2, <3>1 DEF Answered
    <3>3. st[p] = PROCESS_READY /\ rg[p] = current /\ ks[p] = status
      BY <2>4, <3>2
    <3>4. Gone(current, st, heap')
      BY <1>1, <1>6, <2>4 DEF Gone
    <3>5. parent'[current] = p /\ At(children'[p], current)
      <4>1. parent[current] = p /\ ~ At(children[current], current)
        BY <1>1, <1>9, <2>4
      <4>2. At(children[p], current)
        BY <1>1, <1>2, <1>9, <4>1
      <4> QED
        BY <1>1, <1>5, <1>7, <2>1, <4>1, <4>2
    <3>6. \A r \in collected : r.child # current
      BY <1>1, <1>3 DEF CollectedOK, Gone
    <3> QED
      BY <1>1, <1>7, <3>3, <3>4, <3>5, <3>6 DEF Answered
  <2> QED
    BY <2>1, <2>3, <2>4
<1>16. CollectedOK(st, heap', parent', exit_code', collected)
  <2>1. /\ collected \subseteq [by : Procs, child : Procs, status : Statuses]
        /\ \A r \in collected : /\ r.child \in Procs /\ Gone(r.child, state, heap)
                                /\ parent[r.child] \in {r.by, NULL}
                                /\ r.status = exit_code[r.child]
        /\ \A r, t \in collected : r.child = t.child => r = t
    BY <1>3 DEF CollectedOK
  <2>2. \A r \in collected : /\ Gone(r.child, st, heap')
                             /\ parent'[r.child] \in {r.by, NULL}
                             /\ r.status = exit_code'[r.child]
    BY <1>14, <2>1
  <2> QED
    BY <2>1, <2>2 DEF CollectedOK
<1> QED
  BY <1>12, <1>13, <1>15, <1>16

(* Exit: a waiting parent leaves blocked_queue with the answer, or the      *)
(* current process becomes a zombie.                                        *)
LEMMA SysExitInv ==
  ASSUME Inv, SchedInv', NEW status \in Statuses, SysExit(status)
  PROVE  Inv'
<1> DEFINE par == parent[current]
           S == SetState(System, current, PROCESS_DEFAULT)
           R == RemoveFrom(S, PROCESS_BLOCKED, par)
           T == IF Wakes THEN AddTo(R, PROCESS_READY, par) ELSE AddTo(S, PROCESS_ZOMBIE, current)
           rg == IF Wakes THEN [reg0 EXCEPT ![par] = current] ELSE reg0
           ks == IF Wakes /\ reg0[par] = "kstatus" THEN [kstatus EXCEPT ![par] = status]
                 ELSE kstatus
<1>1. /\ current # Idle
      /\ Wakes => reg0[par] \in {ZERO, "kstatus"}
      /\ exit_code' = [exit_code EXCEPT ![current] = status]
      /\ children' = [children EXCEPT ![current] = <<>>]
      /\ parent' = Orphaned
      /\ heap' = [q \in Procs |-> IF Freed(q) \/ (q = current /\ Wakes) THEN "freed" ELSE heap[q]]
      /\ UNCHANGED <<waiting_for_children, delay_ticks, should_fork>>
  BY DEF SysExit, InUser
<1>2. schedule(T, "dead", rg, ks)
  BY DEF SysExit
<1>3. /\ current \in Procs /\ Idle \in Procs /\ state[current] = PROCESS_RUNNING
      /\ Wakes => par \in Procs /\ par # current /\ par # Idle
  <2>1. current \in Procs /\ Idle \in Procs /\ state[current] = PROCESS_RUNNING
    BY ProcessAssumption, CurrentLives
  <2>2. /\ parent \in [Procs -> Procs \cup {NULL}]
        /\ \A p \in Procs : parent[p] # p
        /\ \A p \in Procs : parent[p] # Idle
    BY DEF Inv, SchedInv, IdleAlone, Family
  <2> QED
    BY <2>1, <2>2 DEF Wakes
<1>4. /\ Disciplined(S.state, S.queue) /\ NoneRuns(S.state)
      /\ S.state[current] = PROCESS_DEFAULT
      /\ \A q \in Procs : q # current => S.state[q] = state[q]
  BY DeselectKeeps DEF Inv
<1>5. PROCESS_BLOCKED \in Queued /\ PROCESS_READY \in Queued /\ PROCESS_ZOMBIE \in Queued
  BY DEF Queued
<1> HIDE DEF S
<1>6. Wakes => /\ Disciplined(T.state, T.queue)
               /\ \A q \in Procs : T.state[q] =
                     IF q = par /\ S.state[par] \in {PROCESS_BLOCKED, PROCESS_DEFAULT}
                     THEN PROCESS_READY ELSE S.state[q]
  <2> SUFFICES ASSUME Wakes
               PROVE  /\ Disciplined(T.state, T.queue)
                      /\ \A q \in Procs : T.state[q] =
                            IF q = par /\ S.state[par] \in {PROCESS_BLOCKED, PROCESS_DEFAULT}
                            THEN PROCESS_READY ELSE S.state[q]
    OBVIOUS
  <2>1. par \in Procs
    BY <1>3
  <2> HIDE DEF par
  <2>2. /\ Disciplined(R.state, R.queue)
        /\ \A q \in Procs : R.state[q] =
              IF q = par /\ S.state[par] = PROCESS_BLOCKED THEN PROCESS_DEFAULT ELSE S.state[q]
    BY <1>4, <1>5, <2>1, RemoveFromKeeps
  <2> HIDE DEF R
  <2> DEFINE U == AddTo(R, PROCESS_READY, par)
  <2>3. /\ Disciplined(U.state, U.queue)
        /\ \A q \in Procs : U.state[q] =
              IF q = par /\ R.state[par] = PROCESS_DEFAULT THEN PROCESS_READY ELSE R.state[q]
    BY <1>5, <2>1, <2>2, AddToKeeps
  <2>4. T = U
    OBVIOUS
  <2> HIDE DEF T, U
  <2> QED
    BY <2>1, <2>2, <2>3, <2>4
<1>7. ~ Wakes => /\ Disciplined(T.state, T.queue)
                 /\ \A q \in Procs : T.state[q] = IF q = current THEN PROCESS_ZOMBIE
                                                 ELSE S.state[q]
  <2> DEFINE U == AddTo(S, PROCESS_ZOMBIE, current)
  <2>1. ~ Wakes => T = U
    OBVIOUS
  <2> HIDE DEF T
  <2>2. /\ Disciplined(U.state, U.queue)
        /\ \A q \in Procs : U.state[q] = IF q = current /\ S.state[current] = PROCESS_DEFAULT
                                        THEN PROCESS_ZOMBIE ELSE S.state[q]
    BY <1>3, <1>4, <1>5, AddToKeeps
  <2> HIDE DEF U
  <2> QED
    BY <1>4, <2>1, <2>2
<1> HIDE DEF T
<1>8. /\ Disciplined(T.state, T.queue) /\ T.state \in [Procs -> State]
      /\ T.state[current] = IF Wakes THEN PROCESS_DEFAULT ELSE PROCESS_ZOMBIE
      /\ NoneRuns(T.state)
  <2>1. Disciplined(T.state, T.queue)
    BY <1>6, <1>7
  <2>2. T.state \in [Procs -> State]
    BY <2>1 DEF Disciplined
  <2>3. T.state[current] = IF Wakes THEN PROCESS_DEFAULT ELSE PROCESS_ZOMBIE
    BY <1>3, <1>4, <1>6, <1>7
  <2>4. NoneRuns(T.state)
    BY <1>1, <1>3, <1>4, <1>6, <1>7 DEF NoneRuns
  <2> QED
    BY <2>1, <2>2, <2>3, <2>4
<1>9. /\ rg \in [Procs -> RegValue] /\ ks \in [Procs -> Statuses \cup {NULL}]
      /\ "dead" \in Handlers
  <2>1. current \in RegValue
    BY <1>3 DEF RegValue
  <2> QED
    BY <2>1 DEF Inv, ContextFields, Handlers
<1>10. \A q \in Procs : q # current =>
          \/ T.state[q] = state[q] /\ rg[q] = reg0[q] /\ ks[q] = kstatus[q]
          \/ /\ Wakes /\ q = par
             /\ \/ T.state[q] = state[q] /\ state[q] # PROCESS_BLOCKED
                \/ T.state[q] = PROCESS_READY /\ state[q] \in {PROCESS_BLOCKED, PROCESS_DEFAULT}
             /\ rg[q] = current
             /\ reg0[q] = "kstatus" => ks[q] = status
  <2> SUFFICES ASSUME NEW q \in Procs, q # current
               PROVE  \/ T.state[q] = state[q] /\ rg[q] = reg0[q] /\ ks[q] = kstatus[q]
                      \/ /\ Wakes /\ q = par
                         /\ \/ T.state[q] = state[q] /\ state[q] # PROCESS_BLOCKED
                            \/ /\ T.state[q] = PROCESS_READY
                               /\ state[q] \in {PROCESS_BLOCKED, PROCESS_DEFAULT}
                         /\ rg[q] = current
                         /\ reg0[q] = "kstatus" => ks[q] = status
    OBVIOUS
  <2>1. S.state[q] = state[q]
    BY <1>4
  <2>2. reg0 \in [Procs -> RegValue] /\ kstatus \in [Procs -> Statuses \cup {NULL}]
    BY DEF Inv, ContextFields
  <2>3. CASE ~ Wakes
    BY <1>7, <2>1, <2>3
  <2>4. CASE Wakes /\ q # par
    BY <1>6, <2>1, <2>2, <2>4
  <2>5. CASE Wakes /\ q = par
    <3>1. rg[q] = current /\ (reg0[q] = "kstatus" => ks[q] = status)
      BY <2>2, <2>5
    <3> HIDE DEF rg, ks
    <3> QED
      BY <1>6, <2>1, <2>5, <3>1
  <2> QED
    BY <2>3, <2>4, <2>5
<1>11. PcbFields'
  <2>1. <<>> \in Seq(Procs)
    OBVIOUS
  <2> QED
    BY <1>1, <2>1 DEF Inv, PcbFields
<1> HIDE DEF rg, ks
<1>12. /\ Family(T.state, heap', parent', children')
       /\ StateOK(T.state, children', waiting_for_children', delay_ticks', exit_code')
       /\ AnswersOK(T.state, [resume EXCEPT ![current] = "dead"], rg, ks,
                    heap', parent', children', exit_code', collected)
       /\ CollectedOK(T.state, heap', parent', exit_code', collected)
  <2>1. /\ waiting_for_children' = waiting_for_children /\ delay_ticks' = delay_ticks
        /\ exit_code' = [exit_code EXCEPT ![current] = status]
        /\ children' = [children EXCEPT ![current] = <<>>]
        /\ parent' = Orphaned
        /\ Wakes => reg0[parent[current]] \in {ZERO, "kstatus"}
    BY <1>1
  <2>2. \A q \in Procs : heap'[q] = IF Freed(q) \/ (q = current /\ Wakes) THEN "freed"
                                  ELSE heap[q]
    BY <1>1
  <2>3. ExitMoves(T.state, rg, ks, status)
    BY <1>8, <1>10 DEF ExitMoves
  <2> QED
    BY <2>1, <2>2, <2>3, ExitMid
<1>13. T.state[current] # PROCESS_READY
  BY <1>8
<1> QED
  BY <1>1, <1>2, <1>8, <1>9, <1>11, <1>12, <1>13, SwitchInv

LEMMA StateKeeps ==
  ASSUME StateOK(state, children, waiting_for_children, delay_ticks, exit_code),
         NEW st, NEW ticks,
         \A q \in Procs : /\ st[q] = PROCESS_BLOCKED => state[q] = PROCESS_BLOCKED
                          /\ st[q] = PROCESS_ZOMBIE <=> state[q] = PROCESS_ZOMBIE
                          /\ st[q] = PROCESS_DELAYED => ticks[q] # 0
  PROVE  StateOK(st, children, waiting_for_children, ticks, exit_code)
<1>1. ASSUME NEW p \in Procs, st[p] = PROCESS_BLOCKED
      PROVE  /\ waiting_for_children[p]
             /\ \A c \in Procs : At(children[p], c) => st[c] # PROCESS_ZOMBIE
  <2>1. state[p] = PROCESS_BLOCKED
    BY <1>1
  <2>2. /\ waiting_for_children[p]
        /\ \A c \in Procs : At(children[p], c) => state[c] # PROCESS_ZOMBIE
    BY <2>1 DEF StateOK
  <2>3. \A c \in Procs : st[c] = PROCESS_ZOMBIE => state[c] = PROCESS_ZOMBIE
    OBVIOUS
  <2> QED
    BY <2>2, <2>3
<1>2. \A p \in Procs : st[p] = PROCESS_ZOMBIE => exit_code[p] \in Statuses
  BY DEF StateOK
<1> QED
  BY <1>1, <1>2 DEF StateOK

StillDelayed == {p \in Delayed : delay_ticks[p] # 1}
Due == {p \in Delayed : delay_ticks[p] = 1}

(* The clock, up to the switch: delay_queue and ready_queue, and the current *)
(* process in neither.                                                      *)
LEMMA UpdatedIs ==
  ASSUME Inv,
         NEW rest \in InOrder(StillDelayed, queue[PROCESS_DELAYED]),
         NEW woken \in InOrder(Due, queue[PROCESS_DELAYED])
  PROVE  LET S == Updated(rest, woken)
             T == SetState(S, current, PROCESS_DEFAULT) IN
         /\ \A x : x \in Delayed <=> x \in Procs /\ state[x] = PROCESS_DELAYED
         /\ woken \in Seq(Procs) /\ Once(woken)
         /\ ToSet(woken) \subseteq Delayed /\ ToSet(rest) = Delayed \ ToSet(woken)
         /\ Disciplined(S.state, S.queue)
         /\ \A q \in Procs : S.state[q] =
               IF state[q] = PROCESS_DELAYED /\ delay_ticks[q] = 1 THEN PROCESS_READY
               ELSE state[q]
         /\ T.queue = S.queue /\ T.state = [S.state EXCEPT ![current] = PROCESS_DEFAULT]
         /\ \A q \in Procs : T.state[q] = IF q = current THEN PROCESS_DEFAULT ELSE S.state[q]
         /\ Disciplined(T.state, T.queue) /\ NoneRuns(T.state)
<1> DEFINE S == Updated(rest, woken)
           T == SetState(S, current, PROCESS_DEFAULT)
<1>3. /\ current \in Procs /\ state[current] = PROCESS_RUNNING
      /\ \A p \in Procs : state[p] = PROCESS_RUNNING <=> p = current
  BY CurrentLives
<1>4. /\ Disciplined(state, queue) /\ Idle \in Procs
      /\ state[Idle] \in {PROCESS_DEFAULT, PROCESS_RUNNING}
      /\ PROCESS_DELAYED \in Queued /\ PROCESS_DEFAULT \in State \ Queued
  BY ProcessAssumption DEF Inv, SchedInv, Runs, Queued, State
<1>5. queue[PROCESS_DELAYED] \in Seq(Procs) /\ Once(queue[PROCESS_DELAYED])
  BY <1>4 DEF Disciplined
<1>6. \A x : x \in Delayed <=> x \in Procs /\ state[x] = PROCESS_DELAYED
  <2>1. \A x : x \in Delayed <=> At(queue[PROCESS_DELAYED], x)
    BY <1>5, LenProperties DEF Delayed, ToSet, At
  <2>2. \A x : At(queue[PROCESS_DELAYED], x) => x \in Procs
    BY <1>5, LenProperties DEF At
  <2> QED
    BY <1>4, <2>1, <2>2 DEF Disciplined
<1>7. StillDelayed \in SUBSET Procs /\ Due \in SUBSET Procs
  BY <1>6 DEF StillDelayed, Due
<1>8. /\ \A x : (x \in StillDelayed \/ x \in Due <=> x \in Delayed) /\ ~ (x \in StillDelayed /\ x \in Due)
      /\ \A x : x \in Due <=> x \in Delayed /\ delay_ticks[x] = 1
  BY DEF StillDelayed, Due
<1>10. rest \in Seq(Procs) /\ Once(rest) /\ \A x : At(rest, x) <=> x \in StillDelayed
  BY <1>5, <1>7, InOrderOnce
<1>11. woken \in Seq(Procs) /\ Once(woken) /\ \A x : At(woken, x) <=> x \in Due
  BY <1>5, <1>7, InOrderOnce
<1>12. \A x : x \in ToSet(woken) <=> x \in Due
  BY <1>11, LenProperties DEF ToSet, At
<1>13. Disciplined(S.state, S.queue)
  <2>1. /\ \A x : At(rest, x) \/ At(woken, x) <=> At(queue[PROCESS_DELAYED], x)
        /\ \A x : ~ (At(rest, x) /\ At(woken, x))
    <3>1. \A x : x \in Delayed <=> At(queue[PROCESS_DELAYED], x)
      BY <1>5, LenProperties DEF Delayed, ToSet, At
    <3> QED
      BY <1>8, <1>10, <1>11, <3>1
  <2>2. Disciplined([p \in Procs |-> IF p \in ToSet(woken) THEN PROCESS_READY ELSE state[p]],
                    [queue EXCEPT ![PROCESS_DELAYED] = rest, ![PROCESS_READY] = @ \o woken])
    BY <1>4, <1>10, <1>11, <2>1, WakeKeeps
  <2> QED
    BY <2>2 DEF Updated
<1>14. \A q \in Procs : S.state[q] =
          IF state[q] = PROCESS_DELAYED /\ delay_ticks[q] = 1 THEN PROCESS_READY ELSE state[q]
  BY <1>6, <1>8, <1>12 DEF Updated
<1> HIDE DEF S
<1>15. T.queue = S.queue /\ T.state = [S.state EXCEPT ![current] = PROCESS_DEFAULT]
  BY DEF SetState
<1> HIDE DEF T
<1>16. \A q \in Procs : T.state[q] = IF q = current THEN PROCESS_DEFAULT ELSE S.state[q]
  BY <1>13, <1>15 DEF Disciplined
<1>17. Disciplined(T.state, T.queue)
  <2>1. S.state[current] \notin Queued
    BY <1>3, <1>14 DEF Queued
  <2> QED
    BY <1>3, <1>4, <1>13, <1>15, <2>1, Relabel
<1>18. NoneRuns(T.state)
  BY <1>3, <1>4, <1>14, <1>16 DEF NoneRuns
<1>19. ToSet(woken) \subseteq Delayed /\ ToSet(rest) = Delayed \ ToSet(woken)
  <2>1. \A x : x \in ToSet(rest) <=> x \in StillDelayed
    BY <1>10, LenProperties DEF ToSet, At
  <2> QED
    BY <1>8, <1>12, <2>1
<1> QED
  BY <1>6, <1>11, <1>13, <1>14, <1>15, <1>16, <1>17, <1>18, <1>19 DEF S, T

(* The clock: whoever stays in Delay had more than one tick left.           *)
LEMMA ClockInv ==
  ASSUME Inv, SchedInv', clock_handler
  PROVE  Inv'
<1> DEFINE over == run_time + 1 > time_slice(current)
<1>1. /\ delay_ticks' = [p \in Procs |-> IF p \in Delayed THEN delay_ticks[p] - 1
                                         ELSE delay_ticks[p]]
      /\ UNCHANGED <<parent, children, waiting_for_children, exit_code, should_fork, heap>>
  BY DEF clock_handler
<1>2. PICK rest \in InOrder(StillDelayed, queue[PROCESS_DELAYED]),
           woken \in InOrder(Due, queue[PROCESS_DELAYED]) :
        LET S == Updated(rest, woken) IN
        \/ /\ S.queue[PROCESS_READY] # <<>>
           /\ \E r \in {ZERO, "user"} :
                schedule(SetState(S, current, PROCESS_DEFAULT), "clock",
                         [reg0 EXCEPT ![current] = r], kstatus)
        \/ /\ state' = S.state /\ queue' = S.queue
           /\ run_time' = IF over THEN time_slice(current) + 1 ELSE run_time + 1
           /\ UNCHANGED <<current, resume, reg0, kstatus, collected, fault>>
  BY DEF clock_handler, StillDelayed, Due
<1> DEFINE S == Updated(rest, woken)
           T == SetState(S, current, PROCESS_DEFAULT)
<1>3. /\ current \in Procs /\ state[current] = PROCESS_RUNNING
      /\ resume[current] # "wait"
  BY CurrentLives
<1>4. /\ \A x : x \in Delayed <=> x \in Procs /\ state[x] = PROCESS_DELAYED
      /\ Disciplined(S.state, S.queue)
      /\ \A q \in Procs : S.state[q] =
            IF state[q] = PROCESS_DELAYED /\ delay_ticks[q] = 1 THEN PROCESS_READY ELSE state[q]
      /\ T.queue = S.queue
      /\ \A q \in Procs : T.state[q] = IF q = current THEN PROCESS_DEFAULT ELSE S.state[q]
      /\ Disciplined(T.state, T.queue) /\ NoneRuns(T.state)
  BY UpdatedIs
<1> HIDE DEF S, T
<1>5. PcbFields'
  <2>1. \A p \in Procs : state[p] = PROCESS_DELAYED => delay_ticks[p] # 0
    BY DEF Inv, StateOK
  <2>2. delay_ticks \in [Procs -> 0..MaxDelay] /\ MaxDelay \in Nat
    BY ProcessAssumption DEF Inv, PcbFields
  <2>3. \A p \in Procs : delay_ticks'[p] \in 0..MaxDelay
    <3> SUFFICES ASSUME NEW p \in Procs
                 PROVE  delay_ticks'[p] \in 0..MaxDelay
      OBVIOUS
    <3>1. delay_ticks[p] \in 0..MaxDelay
      BY <2>2
    <3>2. CASE p \in Delayed
      <4>1. delay_ticks'[p] = delay_ticks[p] - 1 /\ delay_ticks[p] # 0
        BY <1>1, <1>4, <2>1, <3>2
      <4> QED
        BY <2>2, <3>1, <4>1
    <3>3. CASE p \notin Delayed
      BY <1>1, <3>1, <3>3
    <3> QED
      BY <3>2, <3>3
  <2>4. delay_ticks' \in [Procs -> 0..MaxDelay]
    BY <1>1, <2>3
  <2> QED
    BY <1>1, <2>4 DEF Inv, PcbFields
<1>6. \A q \in Procs : S.state[q] = PROCESS_DELAYED => delay_ticks'[q] # 0
  <2> SUFFICES ASSUME NEW q \in Procs, S.state[q] = PROCESS_DELAYED
               PROVE  delay_ticks'[q] # 0
    OBVIOUS
  <2>1. state[q] = PROCESS_DELAYED /\ delay_ticks[q] # 1
    BY <1>4
  <2>2. delay_ticks'[q] = delay_ticks[q] - 1
    BY <1>1, <1>4, <2>1
  <2>3. delay_ticks[q] \in 0..MaxDelay /\ MaxDelay \in Nat
    BY ProcessAssumption DEF Inv, PcbFields
  <2> QED
    BY <2>1, <2>2, <2>3
<1>7. StateOK(state, children, waiting_for_children, delay_ticks, exit_code)
  BY DEF Inv
<1>8. CASE \E r \in {ZERO, "user"} :
               /\ S.queue[PROCESS_READY] # <<>>
               /\ schedule(T, "clock", [reg0 EXCEPT ![current] = r], kstatus)
  <2>1. PICK r \in {ZERO, "user"} :
               /\ S.queue[PROCESS_READY] # <<>>
               /\ schedule(T, "clock", [reg0 EXCEPT ![current] = r], kstatus)
    BY <1>8
  <2> DEFINE rg == [reg0 EXCEPT ![current] = r]
             st == T.state
  <2>2. /\ rg \in [Procs -> RegValue] /\ "clock" \in Handlers
        /\ kstatus \in [Procs -> Statuses \cup {NULL}]
        /\ \A q \in Procs : q # current => rg[q] = reg0[q]
    BY <1>3 DEF Inv, ContextFields, Handlers, RegValue, ZERO
  <2>3. schedule(T, "clock", rg, kstatus)
    BY <2>1
  <2>4. /\ st \in [Procs -> State] /\ st[current] = PROCESS_DEFAULT
        /\ \A q \in Procs : q # current =>
              st[q] = state[q] \/ (state[q] = PROCESS_DELAYED /\ st[q] = PROCESS_READY)
    BY <1>3, <1>4 DEF Disciplined
  <2>5. \A q \in Procs : /\ st[q] = PROCESS_BLOCKED => state[q] = PROCESS_BLOCKED
                         /\ st[q] = PROCESS_DELAYED => S.state[q] = PROCESS_DELAYED
    BY <1>4
  <2>6. st = T.state
    OBVIOUS
  <2> HIDE DEF rg, st
  <2>7. /\ Family(st, heap, parent, children)
        /\ AnswersOK(st, [resume EXCEPT ![current] = "clock"], rg, kstatus,
                     heap, parent, children, exit_code, collected)
        /\ CollectedOK(st, heap, parent, exit_code, collected)
        /\ \A q \in Procs : st[q] = PROCESS_ZOMBIE <=> state[q] = PROCESS_ZOMBIE
    BY <2>2, <2>4, QuietMid
  <2>8. StateOK(st, children', waiting_for_children', delay_ticks', exit_code')
    BY <1>1, <1>6, <1>7, <2>5, <2>7, StateKeeps
  <2>9. st[current] # PROCESS_READY /\ T.queue[PROCESS_READY] # <<>>
    BY <1>4, <2>1, <2>4
  <2> QED
    BY <1>1, <1>4, <1>5, <2>2, <2>3, <2>6, <2>7, <2>8, <2>9, SwitchInv
<1>9. CASE /\ state' = S.state
           /\ run_time' = IF over THEN time_slice(current) + 1 ELSE run_time + 1
           /\ UNCHANGED <<current, resume, reg0, kstatus, collected, fault>>
  <2>1. run_time' \in 0..(DEFAULT_TIMESLICE + 1)
    <3>1. run_time \in 0..(DEFAULT_TIMESLICE + 1) /\ DEFAULT_TIMESLICE \in Nat \ {0}
      BY ProcessAssumption DEF Inv, ContextFields
    <3>2. time_slice(current) \in 1..DEFAULT_TIMESLICE
      BY <3>1 DEF time_slice
    <3>3. over <=> run_time + 1 > time_slice(current)
      OBVIOUS
    <3> HIDE DEF over
    <3> QED
      BY <1>9, <3>1, <3>2, <3>3
  <2>2. ContextFields'
    BY <1>9, <2>1 DEF Inv, ContextFields
  <2>3. /\ state' \in [Procs -> State] /\ state'[current] = PROCESS_RUNNING
        /\ \A q \in Procs : q # current =>
              state'[q] = state[q] \/ (state[q] = PROCESS_DELAYED /\ state'[q] = PROCESS_READY)
    BY <1>3, <1>4, <1>9 DEF Disciplined
  <2> DEFINE h == resume[current]
             rs == [resume EXCEPT ![current] = h]
  <2>4. h # "wait" /\ rs = resume
    BY <1>3 DEF Inv, ContextFields
  <2> HIDE DEF h
  <2>5. /\ Family(state', heap, parent, children)
        /\ AnswersOK(state', rs, reg0, kstatus, heap, parent, children,
                     exit_code, collected)
        /\ CollectedOK(state', heap, parent, exit_code, collected)
        /\ \A q \in Procs : state'[q] = PROCESS_ZOMBIE <=> state[q] = PROCESS_ZOMBIE
    BY <2>3, <2>4, QuietMid
  <2>6. \A q \in Procs : /\ state'[q] = PROCESS_BLOCKED => state[q] = PROCESS_BLOCKED
                         /\ state'[q] = PROCESS_DELAYED => S.state[q] = PROCESS_DELAYED
    BY <1>4, <1>9
  <2>7. StateOK(state', children', waiting_for_children', delay_ticks', exit_code')
    BY <1>1, <1>6, <1>7, <2>5, <2>6, StateKeeps
  <2> HIDE DEF rs
  <2> QED
    BY <1>1, <1>5, <1>9, <2>2, <2>4, <2>5, <2>7 DEF Inv
<1> QED
  BY <1>2, <1>8, <1>9 DEF S, T

(* No handler, and no fault of one, breaks a family but that Fork.          *)
LEMMA NextInv == Inv /\ [Next]_vars /\ fault' # "relinked" => Inv'
<1> SUFFICES ASSUME Inv, [Next]_vars, fault' # "relinked"
             PROVE  Inv'
  OBVIOUS
<1>0. SchedInv'
  BY NextSchedInv DEF Inv, Family, SparesIdle
<1>1. /\ current \in Procs /\ reg0 \in [Procs -> RegValue]
      /\ should_fork \in [Procs -> BOOLEAN]
  BY CurrentLives DEF Inv, PcbFields, ContextFields
<1>2. /\ ZERO \in RegValue /\ "ERROR" \in RegValue
      /\ \A v \in RegValue : /\ [reg0 EXCEPT ![current] = v] \in [Procs -> RegValue]
                             /\ \A p \in Procs : p # current =>
                                   [reg0 EXCEPT ![current] = v][p] = reg0[p]
  BY <1>1 DEF RegValue, ZERO
<1>3. ASSUME NEW v \in RegValue, Return(v), should_fork' \in [Procs -> BOOLEAN],
             UNCHANGED <<state, queue, parent, children, waiting_for_children,
                         delay_ticks, exit_code, heap, fault, collected>>
      PROVE  Inv'
  <2>1. /\ reg0' \in [Procs -> RegValue]
        /\ \A p \in Procs : p # current => reg0'[p] = reg0[p]
        /\ UNCHANGED <<current, run_time, kstatus, resume>>
    BY <1>2, <1>3 DEF Return
  <2> QED
    BY <1>3, <2>1, LocalKeeps
<1>4. ASSUME NEW f \in {"NULL child_pcb", "stale status_ptr"}, Faults(f)
      PROVE  Inv'
  BY <1>1, <1>4, LocalKeeps DEF Faults
<1>5. CASE SysFork
  <2>1. CASE \E child \in Procs : ForkChild(child)
    <3>1. PICK child \in Procs : ForkChild(child)
      BY <2>1
    <3>2. ~ Linked(child)
      BY <3>1 DEF ForkChild
    <3> QED
      BY <1>0, <3>1, <3>2, ForkChildInv
  <2>2. CASE ForkNoMemory
    BY <1>4, <2>2 DEF ForkNoMemory
  <2>3. CASE ForkAsChild
    <3>1. should_fork' \in [Procs -> BOOLEAN]
      BY <1>1, <2>3 DEF ForkAsChild
    <3> QED
      BY <1>2, <1>3, <2>3, <3>1 DEF ForkAsChild
  <2> QED
    BY <1>5, <2>1, <2>2, <2>3 DEF SysFork
<1>6. CASE SysWait
  <2>1. CASE WaitNoChildren
    BY <1>1, <1>2, <1>3, <2>1 DEF WaitNoChildren
  <2>2. CASE \E z \in Procs : WaitReaps(z)
    BY <1>0, <2>2, WaitReapsInv
  <2>3. CASE WaitBlocks
    BY <1>0, <2>3, WaitBlocksInv
  <2> QED
    BY <1>6, <2>1, <2>2, <2>3 DEF SysWait
<1>7. CASE SysDelay
  <2>1. CASE DelayReturns
    <3>1. PICK v \in {ZERO, "ERROR"} : Return(v)
      BY <2>1 DEF DelayReturns
    <3> QED
      BY <1>1, <1>2, <1>3, <2>1, <3>1 DEF DelayReturns
  <2>2. CASE \E delay \in 0..MaxDelay : Delays(delay)
    BY <1>0, <2>2, DelaysInv
  <2> QED
    BY <1>7, <2>1, <2>2 DEF SysDelay
<1>8. CASE clock_handler
  BY <1>0, <1>8, ClockInv
<1>9. CASE illegal_handler \/ math_handler \/ \E status \in Statuses : SysExit(status)
  BY <1>0, <1>9, SysExitInv, ProcessAssumption DEF illegal_handler, math_handler
<1>10. CASE ExitFaults
  BY <1>4, <1>10 DEF ExitFaults
<1>11. CASE UNCHANGED vars
  BY <1>1, <1>11, LocalKeeps DEF vars
<1> QED
  BY <1>5, <1>6, <1>7, <1>8, <1>9, <1>10, <1>11 DEF Next

(* Only a Fork that is handed a linked PCB makes the fault "relinked".      *)
LEMMA RelinkingStep ==
  ASSUME Inv, [Next]_vars, fault' = "relinked"
  PROVE  ~ clock_handler /\ \E child \in Procs : ForkChild(child) /\ Linked(child)
<1>1. fault # "relinked"
  BY DEF Inv, ContextFields
<1>2. ASSUME NEW S, NEW h, NEW regs, NEW kst, schedule(S, h, regs, kst)
      PROVE  FALSE
  BY <1>1, <1>2 DEF schedule
<1>3. ~ clock_handler
  BY <1>1, <1>2 DEF clock_handler
<1>4. \A status : ~ SysExit(status)
  BY <1>2 DEF SysExit
<1>5. ~ SysWait
  BY <1>1, <1>2 DEF SysWait, WaitNoChildren, WaitReaps, WaitBlocks
<1>6. ~ SysDelay
  BY <1>1, <1>2 DEF SysDelay, DelayReturns, Delays
<1>7. ~ ExitFaults /\ ~ ForkNoMemory /\ ~ ForkAsChild /\ ~ UNCHANGED vars
  BY <1>1 DEF ExitFaults, ForkNoMemory, ForkAsChild, Faults, vars
<1>8. \E child \in Procs : ForkChild(child)
  BY <1>3, <1>4, <1>5, <1>6, <1>7 DEF Next, SysFork, illegal_handler, math_handler
<1> QED
  BY <1>1, <1>3, <1>8 DEF ForkChild

(* After that Fork no handler runs.                                         *)
LEMMA RelinkedStays == Relinked /\ [Next]_vars => UNCHANGED vars /\ Relinked'
<1> SUFFICES ASSUME Relinked, [Next]_vars
             PROVE  UNCHANGED vars /\ Relinked'
  OBVIOUS
<1>1. fault # "none"
  BY DEF Relinked
<1>2. ~ InUser /\ ~ clock_handler
  BY <1>1 DEF InUser, clock_handler
<1>3. ~ Next
  BY <1>2 DEF Next, SysFork, ForkChild, ForkNoMemory, ForkAsChild, SysWait, WaitNoChildren,
              WaitReaps, WaitBlocks, SysDelay, DelayReturns, Delays, illegal_handler,
              math_handler, SysExit, ExitFaults
<1>4. UNCHANGED vars
  BY <1>3
<1> QED
  BY <1>4 DEF vars, Relinked, TypeOK, OneRunning, ExitedNeverRuns, Exited, ParentAlive

LEMMA NextInd == Ind /\ [Next]_vars => Ind'
<1>1. Inv /\ [Next]_vars => Inv' \/ Relinked'
  BY NextInv, RelinkingStep, ForkRelinks
<1> QED
  BY <1>1, RelinkedStays DEF Ind

LEMMA Always == Spec => []Ind
<1>1. Init => Ind
  BY InitInv DEF Ind
<1> QED
  BY <1>1, NextInd, PTL DEF Spec

LEMMA IndImplies ==
  Ind => /\ TypeOK /\ QueueDiscipline /\ OneRunning /\ ExitedNeverRuns
         /\ ParentAlive /\ NoLostWakeup /\ WaitExact
<1>1. Inv => /\ TypeOK /\ QueueDiscipline /\ OneRunning /\ ExitedNeverRuns
             /\ ParentAlive /\ NoLostWakeup /\ WaitExact
  BY InvImplies
<1>2. Relinked => /\ TypeOK /\ QueueDiscipline /\ OneRunning /\ ExitedNeverRuns
                  /\ ParentAlive /\ NoLostWakeup /\ WaitExact
  BY DEF Relinked, QueueDiscipline, NoLostWakeup, WaitExact
<1> QED
  BY <1>1, <1>2 DEF Ind

(* Until a Fork is handed a PCB that is still linked somewhere: with any    *)
(* number of processes, each of the four queues lists exactly the processes *)
(* in its state, each once, through SysFork, SysExit, SysWait, SysDelay,    *)
(* the aborts of the traps and the clock's wake-ups and switches.           *)
THEOREM QueuesRight == Spec => []QueueDiscipline
<1>1. Ind => QueueDiscipline
  BY IndImplies
<1> QED
  BY <1>1, Always, PTL

(* KCSwitch and schedule leave exactly the current process RUNNING.         *)
THEOREM CurrentRuns == Spec => []OneRunning
<1>1. Ind => OneRunning
  BY IndImplies
<1> QED
  BY <1>1, Always, PTL

(* Every PCB field and every saved register keeps its type, with any number *)
(* of processes, whatever pcb.c and the handlers do in which order.         *)
THEOREM ProcessTypes == Spec => []TypeOK
<1>1. Ind => TypeOK
  BY IndImplies
<1> QED
  BY <1>1, Always, PTL

(* A process that SysExit ended neither runs nor waits to run: what SysWait *)
(* and terminate_process free is not made ready by a tick or an exit, until *)
(* it is a new process's PCB.                                               *)
THEOREM DeadStayDead == Spec => []ExitedNeverRuns
<1>1. Ind => ExitedNeverRuns
  BY IndImplies
<1> QED
  BY <1>1, Always, PTL

(* The parent pointer that SysExit and terminate_process follow is of a PCB *)
(* that was not freed, of a process that lists the child and did not exit.  *)
THEOREM ParentsLive == Spec => []ParentAlive
<1>1. Ind => ParentAlive
  BY IndImplies
<1> QED
  BY <1>1, Always, PTL

(* Nobody sleeps in SysWait on a child that is a zombie already, whichever  *)
(* of SysWait and the child's SysExit comes first: until a Fork is handed a *)
(* PCB that is still in another parent's list of children.  Only then can   *)
(* the list (find_zombie_child) and the parent pointers (terminate_process) *)
(* part: this is the premise of NoLostWakeup.                               *)
THEOREM NoWakeupLost == Spec => []NoLostWakeup
<1>1. Ind => NoLostWakeup
  BY IndImplies
<1> QED
  BY <1>1, Always, PTL

(* SysWait answers an exit at most once, to the parent of who exited, with  *)
(* the status it exited with, through any reuse of PCBs that are in no list *)
(* any more; a Fork that is handed one still listed is the premise's end.   *)
THEOREM WaitsAnswered == Spec => []WaitExact
<1>1. Ind => WaitExact
  BY IndImplies
<1> QED
  BY <1>1, Always, PTL
-----------------------------------------------------------------------------
(* Each handler is a step of the abstract scheduler, or none.               *)

(* Any order of a walk over delay_queue is one Sched allows.                *)
LEMMA OnceIsSetToSeqs ==
  ASSUME NEW w \in Seq(Procs), Once(w)
  PROVE  w \in SetToSeqs(ToSet(w))
<1> DEFINE n == Len(w)
           W == ToSet(w)
<1>1. n \in Nat /\ w \in [1..n -> W] /\ \A p : p \in W <=> \E i \in 1..n : w[i] = p
  BY LenProperties DEF ToSet
<1>2. w \in Injection(1..n, W) /\ w \in Surjection(1..n, W)
  BY <1>1 DEF Once, Injection, IsInjective, Surjection
<1>3. ExistsBijection(1..n, W)
  BY <1>2 DEF ExistsBijection, Bijection
<1> HIDE DEF n, W
<1>4. IsFiniteSet(1..n) /\ Cardinality(1..n) = n
  <2>1. 1 \in Int /\ n \in Int /\ (1 > n => n = 0) /\ n - 1 + 1 = n
    BY <1>1
  <2> QED
    BY <2>1, FS_Interval
<1>5. Cardinality(W) = n
  BY <1>3, <1>4, FS_Bijection
<1>6. \A i, j \in 1..n : i # j => w[i] # w[j]
  BY DEF Once, n
<1> QED
  BY <1>1, <1>5, <1>6 DEF SetToSeqs, W

LEMMA SameOperators ==
  /\ \A s : Scheduler!ToSet(s) = ToSet(s)
  /\ \A S : Scheduler!SetToSeqs(S) = SetToSeqs(S)
  /\ \A s, t : Scheduler!IsPrefix(s, t) = IsPrefix(s, t)
<1>1. \A s : Scheduler!ToSet(s) = ToSet(s)
  BY DEF Scheduler!ToSet, ToSet
<1>2. \A S : Scheduler!SetToSeqs(S) = SetToSeqs(S)
  <2>1. \A S : Scheduler!Cardinality(S) = Cardinality(S)
    BY Zenon DEF Scheduler!Cardinality, Cardinality
  <2> QED
    BY <2>1 DEF Scheduler!SetToSeqs, SetToSeqs
<1>3. \A s, t : Scheduler!IsPrefix(s, t) = IsPrefix(s, t)
  BY DEF Scheduler!IsPrefix, IsPrefix
<1> QED
  BY <1>1, <1>2, <1>3

LEMMA AppendSet ==
  ASSUME NEW q \in Seq(Procs), NEW p \in Procs
  PROVE  ToSet(Append(q, p)) = ToSet(q) \cup {p}
<1>1. /\ Len(Append(q, p)) = Len(q) + 1 /\ Len(q) \in Nat
      /\ \A i \in 1..Len(q) : Append(q, p)[i] = q[i]
      /\ Append(q, p)[Len(q) + 1] = p
  BY AppendProperties, LenProperties
<1>2. 1..(Len(q) + 1) = (1..Len(q)) \cup {Len(q) + 1}
  BY <1>1
<1>3. \A x : x \in ToSet(q) <=> \E i \in 1..Len(q) : q[i] = x
  BY <1>1, LenProperties DEF ToSet
<1>4. \A x : x \in ToSet(Append(q, p)) <=> \E i \in 1..(Len(q) + 1) : Append(q, p)[i] = x
  <2>1. Append(q, p) \in Seq(Procs)
    BY AppendProperties
  <2> QED
    BY <1>1, <2>1, LenProperties DEF ToSet
<1> QED
  BY <1>1, <1>2, <1>3, <1>4

LEMMA SwitchMaps ==
  ASSUME NEW S, Disciplined(S.state, S.queue),
         NEW h, NEW regs, NEW kst, schedule(S, h, regs, kst)
  PROVE  /\ Scheduler!schedule(S.queue[PROCESS_READY], S.state)
         /\ Delayed' = ToSet(S.queue[PROCESS_DELAYED])
<1>1. S.queue \in [Queued -> Seq(Procs)] /\ PROCESS_READY \in Queued /\ PROCESS_DELAYED \in Queued
  BY DEF Disciplined, Queued
<1>2. /\ current' = NextProcess(S)
      /\ state' = [S.state EXCEPT ![NextProcess(S)] = PROCESS_RUNNING]
      /\ queue' = IF S.queue[PROCESS_READY] = <<>> THEN S.queue
                  ELSE [S.queue EXCEPT ![PROCESS_READY] = Tail(@)]
  BY DEF schedule
<1>3. /\ queue'[PROCESS_READY] = IF S.queue[PROCESS_READY] = <<>> THEN S.queue[PROCESS_READY]
                                 ELSE Tail(S.queue[PROCESS_READY])
      /\ queue'[PROCESS_DELAYED] = S.queue[PROCESS_DELAYED]
  BY <1>1, <1>2
<1>4. Scheduler!schedule(S.queue[PROCESS_READY], S.state)
  BY <1>2, <1>3 DEF Scheduler!schedule, NextProcess
<1>5. Delayed' = ToSet(S.queue[PROCESS_DELAYED])
  BY <1>3 DEF Delayed
<1> QED
  BY <1>4, <1>5

LEMMA LeaveMaps ==
  ASSUME Inv, NEW s \in Queued, s # PROCESS_READY,
         NEW h, NEW regs, NEW kst, current # Idle,
         schedule(AddTo(SetState(System, current, PROCESS_DEFAULT), s, current), h, regs, kst)
  PROVE  /\ Scheduler!Leaves(s)
         /\ Delayed' = IF s = PROCESS_DELAYED THEN Delayed \cup {current} ELSE Delayed
<1> DEFINE S == SetState(System, current, PROCESS_DEFAULT)
           T == AddTo(S, s, current)
<1>1. /\ current \in Procs /\ Disciplined(state, queue)
      /\ PROCESS_READY \in Queued /\ PROCESS_DELAYED \in Queued
  BY CurrentLives DEF Inv, SchedInv, Queued
<1>2. state \in [Procs -> State] /\ queue \in [Queued -> Seq(Procs)]
  BY <1>1 DEF Disciplined
<1>3. S.state = [state EXCEPT ![current] = PROCESS_DEFAULT] /\ S.queue = queue
  BY DEF SetState, System
<1> HIDE DEF S
<1>4. T = [state |-> [S.state EXCEPT ![current] = s],
           queue |-> [S.queue EXCEPT ![s] = Append(@, current)]]
  <2>1. S.state[current] = PROCESS_DEFAULT
    BY <1>1, <1>2, <1>3
  <2> QED
    BY <2>1 DEF AddTo
<1>5. T.state = [state EXCEPT ![current] = s] /\ T.queue = [queue EXCEPT ![s] = Append(@, current)]
  <2>1. [[state EXCEPT ![current] = PROCESS_DEFAULT] EXCEPT ![current] = s]
           = [state EXCEPT ![current] = s]
    BY <1>1, <1>2
  <2>2. T.state = [S.state EXCEPT ![current] = s] /\ T.queue = [S.queue EXCEPT ![s] = Append(@, current)]
    BY <1>4
  <2> HIDE DEF T
  <2> QED
    BY <1>3, <2>1, <2>2
<1>6. schedule(T, h, regs, kst) /\ Disciplined(T.state, T.queue)
  BY LeaveIs DEF S
<1> HIDE DEF T
<1>7. /\ Scheduler!schedule(T.queue[PROCESS_READY], T.state)
      /\ Delayed' = ToSet(T.queue[PROCESS_DELAYED])
  BY <1>6, SwitchMaps
<1>8. T.queue[PROCESS_READY] = queue[PROCESS_READY]
  BY <1>1, <1>2, <1>5
<1>9. Scheduler!Leaves(s)
  BY <1>5, <1>7, <1>8 DEF Scheduler!Leaves
<1>10. CASE s = PROCESS_DELAYED
  <2>1. T.queue[PROCESS_DELAYED] = Append(queue[PROCESS_DELAYED], current)
    BY <1>1, <1>2, <1>5, <1>10
  <2>2. ToSet(Append(queue[PROCESS_DELAYED], current)) = ToSet(queue[PROCESS_DELAYED]) \cup {current}
    BY <1>1, <1>2, AppendSet
  <2> QED
    BY <1>7, <1>9, <1>10, <2>1, <2>2 DEF Delayed
<1>11. CASE s # PROCESS_DELAYED
  <2>1. T.queue[PROCESS_DELAYED] = queue[PROCESS_DELAYED]
    BY <1>1, <1>2, <1>5, <1>11
  <2> QED
    BY <1>7, <1>9, <1>11, <2>1 DEF Delayed
<1> QED
  BY <1>10, <1>11

LEMMA InitMaps == Init => Scheduler!SchedInit
<1> SUFFICES ASSUME Init
             PROVE  Scheduler!SchedInit
  OBVIOUS
<1>1. Init1 \in Procs \ {Idle}
  BY ProcessAssumption
<1>2. queue[PROCESS_READY] = <<Init1>> /\ queue[PROCESS_DELAYED] = <<>> /\ current = Idle
  BY DEF Init, Queued
<1>3. ToSet(<<Init1>>) = {Init1} /\ ToSet(<<>>) = {}
  BY DEF ToSet
<1>4. Delayed = {}
  BY <1>2, <1>3 DEF Delayed
<1>5. state = Scheduler!States(Idle, queue[PROCESS_READY])
  <2>1. \A q \in Procs : state[q] = IF q = Idle THEN PROCESS_RUNNING
                                   ELSE IF q = Init1 THEN PROCESS_READY ELSE PROCESS_DEFAULT
    <3> SUFFICES ASSUME NEW q \in Procs
                 PROVE  state[q] = IF q = Idle THEN PROCESS_RUNNING
                                   ELSE IF q = Init1 THEN PROCESS_READY ELSE PROCESS_DEFAULT
      OBVIOUS
    <3>1. state[q] = CASE q = Idle -> PROCESS_RUNNING
                       [] q = Init1 -> PROCESS_READY
                       [] OTHER -> PROCESS_DEFAULT
      BY DEF Init
    <3> QED
      BY <1>1, <3>1
  <2>2. \A q \in Procs : q \in ToSet(queue[PROCESS_READY]) <=> q = Init1
    BY <1>2, <1>3
  <2>3. state = [q \in Procs |-> state[q]]
    BY DEF Init
  <2>4. \A q \in Procs : state[q] = Scheduler!States(Idle, queue[PROCESS_READY])[q]
    <3> SUFFICES ASSUME NEW q \in Procs
                 PROVE  state[q] = IF q = Idle THEN "RUNNING"
                                   ELSE IF q \in ToSet(queue[PROCESS_READY]) THEN "READY"
                                   ELSE "DEFAULT"
      BY SameOperators DEF Scheduler!States
    <3> QED
      BY <2>1, <2>2
  <2> QED
    BY <2>3, <2>4 DEF Scheduler!States
<1> QED
  BY <1>1, <1>2, <1>4, <1>5 DEF Scheduler!SchedInit

(* Fork, and Wait of a zombie.                                              *)
LEMMA ForkChildMaps ==
  ASSUME Inv, NEW child \in Procs, ForkChild(child)
  PROVE  current # Idle /\ Scheduler!Fork(child)
<1>1. current # Idle /\ current' = current
  BY DEF ForkChild, InUser
<1>2. /\ state[child] \in {PROCESS_DEFAULT, PROCESS_ZOMBIE}
      /\ state' = [state EXCEPT ![child] = PROCESS_READY]
      /\ queue' = [queue EXCEPT ![PROCESS_READY] = Append(@, child)]
  BY ForkChildMoves DEF Inv, Family, SparesIdle
<1>3. /\ queue \in [Queued -> Seq(Procs)]
      /\ PROCESS_READY \in Queued /\ PROCESS_DELAYED \in Queued
  BY DEF Inv, SchedInv, Disciplined, Queued
<1>4. /\ queue'[PROCESS_READY] = Append(queue[PROCESS_READY], child)
      /\ queue'[PROCESS_DELAYED] = queue[PROCESS_DELAYED]
  BY <1>2, <1>3
<1>5. Delayed' = Delayed
  BY <1>4 DEF Delayed
<1> QED
  BY <1>1, <1>2, <1>4, <1>5 DEF Scheduler!Fork

LEMMA WaitReapsMaps ==
  ASSUME Inv, NEW z \in Procs, WaitReaps(z)
  PROVE  current # Idle /\ Scheduler!Reap(z)
<1>1. /\ current # Idle /\ current' = current /\ state[z] = PROCESS_ZOMBIE
      /\ state' = RemoveFrom(System, PROCESS_ZOMBIE, z).state
      /\ queue' = RemoveFrom(System, PROCESS_ZOMBIE, z).queue
  BY DEF WaitReaps, InUser, FirstZombie, Return
<1>2. /\ state' = [state EXCEPT ![z] = PROCESS_DEFAULT]
      /\ queue' = [queue EXCEPT ![PROCESS_ZOMBIE] = RemoveFirst(@, z)]
  BY <1>1 DEF RemoveFrom, System
<1>3. /\ queue \in [Queued -> Seq(Procs)] /\ PROCESS_READY \in Queued
      /\ PROCESS_DELAYED \in Queued /\ PROCESS_ZOMBIE \in Queued
  BY DEF Inv, SchedInv, Disciplined, Queued
<1>4. /\ queue'[PROCESS_READY] = queue[PROCESS_READY]
      /\ queue'[PROCESS_DELAYED] = queue[PROCESS_DELAYED]
  BY <1>2, <1>3
<1>5. Delayed' = Delayed
  BY <1>4 DEF Delayed
<1> QED
  BY <1>1, <1>2, <1>4, <1>5 DEF Scheduler!Reap

(* A switch in which nobody wakes is one of Tick's, if another is ready,    *)
(* and otherwise the abstract exit that wakes idle.                         *)
LEMMA SwitchTicks ==
  ASSUME state \in [Procs -> State], queue[PROCESS_READY] \in Seq(Procs),
         queue[PROCESS_READY] # <<>>,
         Scheduler!schedule(queue[PROCESS_READY], [state EXCEPT ![current] = PROCESS_DEFAULT]),
         Delayed' = Delayed
  PROVE  Scheduler!Tick
<1> DEFINE r == queue[PROCESS_READY]
<1>1. <<>> \in SetToSeqs({})
  <2>1. <<>> \in Seq(Procs) /\ Once(<<>>) /\ ToSet(<<>>) = {}
    BY DEF Once, ToSet
  <2> QED
    BY <2>1, OnceIsSetToSeqs
<1>2. /\ r \o <<>> = r
      /\ [p \in Procs |-> IF p \in {} THEN "READY" ELSE state[p]] = state
      /\ Delayed \ {} = Delayed
  OBVIOUS
<1>3. /\ r \o <<>> # <<>> /\ Delayed' = Delayed \ {}
      /\ Scheduler!schedule(r \o <<>>, [[p \in Procs |-> IF p \in {} THEN "READY" ELSE state[p]]
                                         EXCEPT ![current] = "DEFAULT"])
  BY <1>2
<1> SUFFICES \E W \in SUBSET Delayed : \E w \in SetToSeqs(W) :
               /\ Delayed' = Delayed \ W
               /\ r \o w # <<>>
               /\ Scheduler!schedule(r \o w, [[p \in Procs |-> IF p \in W THEN "READY" ELSE state[p]]
                                              EXCEPT ![current] = "DEFAULT"])
  BY SameOperators DEF Scheduler!Tick
<1> WITNESS {} \in SUBSET Delayed
<1> WITNESS <<>> \in SetToSeqs({})
<1> QED
  BY <1>3

LEMMA IdleWakes ==
  ASSUME state \in [Procs -> State], Idle \in Procs, current # Idle,
         state[Idle] = PROCESS_DEFAULT, queue[PROCESS_READY] = <<>>,
         Scheduler!schedule(<<>>, [state EXCEPT ![current] = PROCESS_DEFAULT]),
         Delayed' = Delayed
  PROVE  Scheduler!ExitTo(Idle)
<1> DEFINE st == [state EXCEPT ![current] = PROCESS_DEFAULT]
           r == Append(<<>>, Idle)
<1>1. r # <<>> /\ Head(r) = Idle /\ Tail(r) = <<>>
  OBVIOUS
<1>2. /\ current' = Idle /\ queue'[PROCESS_READY] = <<>>
      /\ state' = [st EXCEPT ![Idle] = PROCESS_RUNNING]
  BY DEF Scheduler!schedule
<1>3. [[state EXCEPT ![current] = "DEFAULT", ![Idle] = "READY"] EXCEPT ![Idle] = "RUNNING"]
         = [st EXCEPT ![Idle] = PROCESS_RUNNING]
  OBVIOUS
<1> HIDE DEF st, r
<1>4. Scheduler!schedule(r, [state EXCEPT ![current] = "DEFAULT", ![Idle] = "READY"])
  BY <1>1, <1>2, <1>3 DEF Scheduler!schedule
<1> QED
  BY <1>4 DEF Scheduler!ExitTo, r

(* Exit.  A parent that is flagged as waiting but ready or delayed is not   *)
(* moved: what is left of the exit is a switch out of the current process,  *)
(* which with nothing ready Sched takes as the wake-up of idle.             *)
LEMMA SysExitMaps ==
  ASSUME Inv, NEW status, SysExit(status)
  PROVE  /\ current # Idle
         /\ Scheduler!Exit \/ Scheduler!Tick \/ \E p \in Procs : Scheduler!ExitTo(p)
<1> DEFINE S == SetState(System, current, PROCESS_DEFAULT)
           par == parent[current]
           R == RemoveFrom(S, PROCESS_BLOCKED, par)
           T == AddTo(R, PROCESS_READY, par)
           st == [state EXCEPT ![current] = PROCESS_DEFAULT]
           ready == queue[PROCESS_READY]
<1>1. /\ current \in Procs /\ current # Idle /\ Idle \in Procs
      /\ heap[current] = "live" /\ state[current] = PROCESS_RUNNING
      /\ \A p \in Procs : state[p] = PROCESS_RUNNING <=> p = current
  BY CurrentLives, ProcessAssumption DEF SysExit, InUser
<1>2. /\ Disciplined(state, queue) /\ state[Idle] \in {PROCESS_DEFAULT, PROCESS_RUNNING}
      /\ parent \in [Procs -> Procs \cup {NULL}]
      /\ PROCESS_READY \in Queued /\ PROCESS_DELAYED \in Queued
      /\ PROCESS_BLOCKED \in Queued /\ PROCESS_ZOMBIE \in Queued
  BY DEF Inv, SchedInv, Runs, Queued
<1>3. state \in [Procs -> State] /\ queue \in [Queued -> Seq(Procs)]
  BY <1>2 DEF Disciplined
<1>4. Disciplined(S.state, S.queue) /\ S.state = st /\ S.queue = queue
  BY DeselectKeeps DEF Inv, SetState, System
<1> HIDE DEF S
<1>5. CASE ~ Wakes
  <2>1. schedule(AddTo(S, PROCESS_ZOMBIE, current), "dead", reg0, kstatus)
    BY <1>5 DEF SysExit, S
  <2>2. Scheduler!Leaves(PROCESS_ZOMBIE) /\ Delayed' = Delayed
    BY <1>1, <1>2, <2>1, LeaveMaps DEF S
  <2> QED
    BY <1>1, <2>2 DEF Scheduler!Exit
<1>6. CASE Wakes
  <2>1. /\ par \in Procs /\ par # current
        /\ state[par] \in {PROCESS_BLOCKED, PROCESS_DEFAULT, PROCESS_READY, PROCESS_DELAYED}
    <3>1. par \in Procs /\ par # NULL
      BY <1>1, <1>2, <1>6 DEF Wakes
    <3>2. parent[current] # current /\ state[parent[current]] # PROCESS_ZOMBIE
      BY <1>1, <3>1 DEF Inv, Family
    <3>3. state[par] \in State /\ state[par] # PROCESS_RUNNING
      BY <1>1, <1>3, <3>1, <3>2
    <3> QED
      BY <3>1, <3>2, <3>3 DEF State, Queued
  <2>2. PICK regs, kst : schedule(T, "dead", regs, kst)
    BY <1>6 DEF SysExit, S, R, par
  <2>3. S.state[par] = state[par] /\ Idle # current
    BY <1>1, <1>3, <1>4, <2>1
  <2> HIDE DEF par
  <2>4. Disciplined(R.state, R.queue)
    BY <1>2, <1>4, <2>1, RemoveFromKeeps
  <2>5. Disciplined(T.state, T.queue)
    <3> HIDE DEF R
    <3> QED
      BY <1>2, <2>1, <2>4, AddToKeeps
  <2>6. /\ Scheduler!schedule(T.queue[PROCESS_READY], T.state)
        /\ Delayed' = ToSet(T.queue[PROCESS_DELAYED])
    <3> HIDE DEF T
    <3> QED
      BY <2>2, <2>5, SwitchMaps
  <2>7. CASE state[par] \in {PROCESS_BLOCKED, PROCESS_DEFAULT}
    <3>1. /\ R.state[par] = PROCESS_DEFAULT
          /\ [R.state EXCEPT ![par] = PROCESS_READY] = [st EXCEPT ![par] = PROCESS_READY]
          /\ R.queue[PROCESS_READY] = ready /\ R.queue[PROCESS_DELAYED] = queue[PROCESS_DELAYED]
          /\ R.queue \in [Queued -> Seq(Procs)]
      <4>1. CASE state[par] = PROCESS_BLOCKED
        <5>1. /\ R.state = [st EXCEPT ![par] = PROCESS_DEFAULT]
              /\ R.queue = [queue EXCEPT ![PROCESS_BLOCKED] = RemoveFirst(@, par)]
          BY <1>4, <2>3, <4>1 DEF RemoveFrom
        <5>2. R.queue \in [Queued -> Seq(Procs)]
          BY <2>4 DEF Disciplined
        <5> HIDE DEF R
        <5>3. R.queue[PROCESS_READY] = ready /\ R.queue[PROCESS_DELAYED] = queue[PROCESS_DELAYED]
          BY <1>2, <1>3, <5>1
        <5>4. st \in [Procs -> State]
          BY <1>3 DEF State
        <5> HIDE DEF st
        <5>5. [[st EXCEPT ![par] = PROCESS_DEFAULT] EXCEPT ![par] = PROCESS_READY]
                 = [st EXCEPT ![par] = PROCESS_READY]
          BY <2>1, <5>4
        <5> QED
          BY <2>1, <5>1, <5>2, <5>3, <5>4, <5>5
      <4>2. CASE state[par] = PROCESS_DEFAULT
        <5>1. R = S
          BY <2>3, <4>2 DEF RemoveFrom
        <5> QED
          BY <1>3, <1>4, <2>3, <4>2, <5>1
      <4> QED
        BY <2>7, <4>1, <4>2
    <3> HIDE DEF R, st
    <3>2. /\ T.state = [st EXCEPT ![par] = PROCESS_READY]
          /\ T.queue = [R.queue EXCEPT ![PROCESS_READY] = Append(@, par)]
      BY <3>1 DEF AddTo
    <3> HIDE DEF T
    <3>3. /\ T.queue[PROCESS_READY] = Append(ready, par)
          /\ T.queue[PROCESS_DELAYED] = queue[PROCESS_DELAYED]
      BY <1>2, <3>1, <3>2
    <3>4. [state EXCEPT ![current] = "DEFAULT", ![par] = "READY"] = [st EXCEPT ![par] = PROCESS_READY]
      BY DEF st
    <3>5. Scheduler!ExitTo(par)
      BY <2>6, <2>7, <3>2, <3>3, <3>4 DEF Scheduler!ExitTo, Delayed
    <3> QED
      BY <1>1, <2>1, <3>5
  <2>8. CASE state[par] \in {PROCESS_READY, PROCESS_DELAYED}
    <3>1. R = S
      BY <2>3, <2>8 DEF RemoveFrom
    <3>2. T = S
      BY <2>3, <2>8, <3>1 DEF AddTo
    <3>3. Scheduler!schedule(ready, st) /\ Delayed' = Delayed
      <4> HIDE DEF T
      <4> QED
        BY <1>4, <2>6, <3>2 DEF Delayed
    <3>4. CASE ready # <<>>
      BY <1>1, <1>2, <1>3, <3>3, <3>4, SwitchTicks
    <3>5. CASE ready = <<>>
      <4>1. Scheduler!ExitTo(Idle)
        BY <1>1, <1>2, <1>3, <3>3, <3>5, IdleWakes
      <4> QED
        BY <1>1, <4>1
    <3> QED
      BY <3>4, <3>5
  <2> QED
    BY <2>1, <2>7, <2>8
<1> QED
  BY <1>5, <1>6

LEMMA TickIs ==
  ASSUME NEW W \in SUBSET Delayed, NEW w \in Scheduler!SetToSeqs(W),
         Delayed' = Delayed \ W,
         LET r == queue[PROCESS_READY] \o w
             st == [p \in Procs |-> IF p \in W THEN "READY" ELSE state[p]] IN
         \/ r # <<>> /\ Scheduler!schedule(r, [st EXCEPT ![current] = "DEFAULT"])
         \/ queue'[PROCESS_READY] = r /\ state' = st /\ UNCHANGED current
  PROVE  Scheduler!Tick
<1> SUFFICES \E V \in SUBSET Delayed : \E v \in Scheduler!SetToSeqs(V) :
               LET r == queue[PROCESS_READY] \o v
                   st == [p \in Procs |-> IF p \in V THEN "READY" ELSE state[p]]
               IN /\ Delayed' = Delayed \ V
                  /\ \/ r # <<>> /\ Scheduler!schedule(r, [st EXCEPT ![current] = "DEFAULT"])
                     \/ queue'[PROCESS_READY] = r /\ state' = st /\ UNCHANGED current
  BY DEF Scheduler!Tick
<1> WITNESS W \in SUBSET Delayed
<1> WITNESS w \in Scheduler!SetToSeqs(W)
<1> QED
  OBVIOUS

(* The clock: the woken leave delay_queue together, in some order.          *)
LEMMA ClockMaps ==
  ASSUME Inv, clock_handler
  PROVE  Scheduler!Tick
<1>1. PICK rest \in InOrder(StillDelayed, queue[PROCESS_DELAYED]),
           woken \in InOrder(Due, queue[PROCESS_DELAYED]) :
        LET S == Updated(rest, woken) IN
        \/ /\ S.queue[PROCESS_READY] # <<>>
           /\ \E r \in {ZERO, "user"} :
                schedule(SetState(S, current, PROCESS_DEFAULT), "clock",
                         [reg0 EXCEPT ![current] = r], kstatus)
        \/ state' = S.state /\ queue' = S.queue /\ UNCHANGED current
  BY DEF clock_handler, StillDelayed, Due
<1> DEFINE S == Updated(rest, woken)
           T == SetState(S, current, PROCESS_DEFAULT)
           W == ToSet(woken)
           st == [p \in Procs |-> IF p \in W THEN "READY" ELSE state[p]]
           r == queue[PROCESS_READY] \o woken
<1>2. /\ woken \in Seq(Procs) /\ Once(woken)
      /\ W \subseteq Delayed /\ ToSet(rest) = Delayed \ W
      /\ Disciplined(S.state, S.queue) /\ Disciplined(T.state, T.queue)
      /\ T.queue = S.queue /\ T.state = [S.state EXCEPT ![current] = PROCESS_DEFAULT]
  BY UpdatedIs
<1>3. W \in SUBSET Delayed /\ woken \in Scheduler!SetToSeqs(W)
  BY <1>2, OnceIsSetToSeqs, SameOperators
<1>4. /\ S.state = st
      /\ S.queue[PROCESS_READY] = r /\ S.queue[PROCESS_DELAYED] = rest
  <2>1. queue \in [Queued -> Seq(Procs)] /\ PROCESS_READY \in Queued /\ PROCESS_DELAYED \in Queued
    BY DEF Inv, SchedInv, Disciplined, Queued
  <2>2. S.queue = [queue EXCEPT ![PROCESS_DELAYED] = rest, ![PROCESS_READY] = @ \o woken]
    BY DEF Updated
  <2>3. S.state = st
    BY DEF Updated
  <2> HIDE DEF S, st
  <2> QED
    BY <2>1, <2>2, <2>3
<1> HIDE DEF S
<1>5. \/ S.queue[PROCESS_READY] # <<>> /\ \E regs : schedule(T, "clock", regs, kstatus)
      \/ state' = S.state /\ queue' = S.queue /\ UNCHANGED current
  BY <1>1 DEF S
<1> HIDE DEF T, W, st, r
<1>6. CASE S.queue[PROCESS_READY] # <<>> /\ \E regs : schedule(T, "clock", regs, kstatus)
  <2>1. /\ Scheduler!schedule(T.queue[PROCESS_READY], T.state)
        /\ Delayed' = ToSet(T.queue[PROCESS_DELAYED])
    BY <1>2, <1>6, SwitchMaps
  <2>2. /\ r # <<>> /\ Delayed' = Delayed \ W
        /\ Scheduler!schedule(r, [st EXCEPT ![current] = "DEFAULT"])
    BY <1>2, <1>4, <1>6, <2>1
  <2> QED
    BY <1>3, <2>2, TickIs DEF st, r
<1>7. CASE state' = S.state /\ queue' = S.queue /\ UNCHANGED current
  <2>1. /\ Delayed' = Delayed \ W /\ queue'[PROCESS_READY] = r
        /\ state' = st /\ current' = current
    BY <1>2, <1>4, <1>7 DEF Delayed
  <2> QED
    BY <1>3, <2>1, TickIs DEF st, r
<1> QED
  BY <1>5, <1>6, <1>7

LEMMA NextMaps ==
  ASSUME Inv, [Next]_vars
  PROVE  [Scheduler!SchedNext]_(Scheduler!sched)
<1> DEFINE Same == UNCHANGED <<current, state, queue>>
<1>0. ASSUME Same PROVE [Scheduler!SchedNext]_(Scheduler!sched)
  BY <1>0 DEF Scheduler!sched, Delayed
<1>1. CASE SysFork
  <2>1. CASE \E child \in Procs : ForkChild(child)
    BY <1>0, <2>1, ForkChildMaps DEF Scheduler!SchedNext
  <2>2. CASE ForkNoMemory
    BY <1>0, <2>2 DEF ForkNoMemory, Faults
  <2>3. CASE ForkAsChild
    BY <1>0, <2>3 DEF ForkAsChild, Return
  <2> QED
    BY <1>1, <2>1, <2>2, <2>3 DEF SysFork
<1>2. CASE SysWait
  <2>1. CASE WaitNoChildren
    BY <1>0, <2>1 DEF WaitNoChildren, Return
  <2>2. CASE \E z \in Procs : WaitReaps(z)
    BY <2>2, WaitReapsMaps DEF Scheduler!SchedNext
  <2>3. CASE WaitBlocks
    <3>1. PICK h, regs, kst : schedule(AddTo(SetState(System, current, PROCESS_DEFAULT),
                                             PROCESS_BLOCKED, current), h, regs, kst)
      BY <2>3 DEF WaitBlocks
    <3>2. current # Idle /\ PROCESS_BLOCKED \in Queued
      BY <2>3 DEF WaitBlocks, InUser, Queued
    <3>3. Scheduler!Wait
      BY <3>1, <3>2, LeaveMaps DEF Scheduler!Wait
    <3> QED
      BY <3>2, <3>3 DEF Scheduler!SchedNext
  <2> QED
    BY <1>2, <2>1, <2>2, <2>3 DEF SysWait
<1>3. CASE SysDelay
  <2>1. CASE DelayReturns
    BY <1>0, <2>1 DEF DelayReturns, Return
  <2>2. CASE \E delay \in 0..MaxDelay : Delays(delay)
    <3>1. PICK regs : schedule(AddTo(SetState(System, current, PROCESS_DEFAULT),
                                     PROCESS_DELAYED, current), "delay", regs, kstatus)
      BY <2>2 DEF Delays
    <3>2. current # Idle /\ PROCESS_DELAYED \in Queued
      BY <2>2 DEF Delays, InUser, Queued
    <3>3. Scheduler!Delay
      BY <3>1, <3>2, LeaveMaps DEF Scheduler!Delay
    <3> QED
      BY <3>2, <3>3 DEF Scheduler!SchedNext
  <2> QED
    BY <1>3, <2>1, <2>2 DEF SysDelay
<1>4. CASE clock_handler
  BY <1>4, ClockMaps DEF Scheduler!SchedNext
<1>5. CASE illegal_handler \/ math_handler \/ \E status \in Statuses : SysExit(status)
  BY <1>5, SysExitMaps DEF illegal_handler, math_handler, Scheduler!SchedNext
<1>6. CASE ExitFaults
  BY <1>0, <1>6 DEF ExitFaults, Faults
<1>7. CASE UNCHANGED vars
  BY <1>0, <1>7 DEF vars
<1> QED
  BY <1>1, <1>2, <1>3, <1>4, <1>5, <1>6, <1>7 DEF Next

(* The process system calls and the clock, with all their PCB fields, do    *)
(* nothing that the scheduler Sync and Pipe are built on does not allow.    *)
THEOREM SchedRefined == Spec => ImplementsSched
<1>1. Init => Scheduler!SchedInit
  BY InitMaps
<1>2. Ind /\ [Next]_vars => [Scheduler!SchedNext]_(Scheduler!sched)
  <2>1. Inv /\ [Next]_vars => [Scheduler!SchedNext]_(Scheduler!sched)
    BY NextMaps
  <2>2. UNCHANGED vars => UNCHANGED Scheduler!sched
    BY DEF vars, Scheduler!sched, Delayed
  <2> QED
    BY <2>1, <2>2, RelinkedStays DEF Ind
<1> QED
  BY <1>1, <1>2, Always, PTL DEF Spec, ImplementsSched, Scheduler!Spec
-----------------------------------------------------------------------------
(* The order of ready_queue, of every step that Sched allows.               *)
Ready == queue[PROCESS_READY]

LEMMA ReadyGrows ==
  ASSUME Ready \in Seq(Procs), NEW t \in Seq(Procs), queue'[PROCESS_READY] = Ready \o t
  PROVE  Scheduler!ReadyInLine
BY JoinedAtEnd, SameOperators DEF Ready, Scheduler!ReadyInLine, Scheduler!Joined

LEMMA ScheduleInLine ==
  ASSUME Ready \in Seq(Procs), NEW t \in Seq(Procs), NEW st,
         Scheduler!schedule(Ready \o t, st)
  PROVE  Scheduler!ReadyInLine
<1> DEFINE r == Ready \o t
<1>1. r \in Seq(Procs) /\ (Ready = <<>> => r = t)
  BY ConcatProperties, ConcatEmptySeq
<1>2. /\ current' = IF r = <<>> THEN Idle ELSE Head(r)
      /\ queue'[PROCESS_READY] = IF r = <<>> THEN r ELSE Tail(r)
  BY DEF Scheduler!schedule, Ready
<1>3. CASE Ready = <<>>
  <2> HIDE DEF r
  <2>1. queue'[PROCESS_READY] \in Seq(Procs)
    <3>1. r # <<>> => Tail(r) \in Seq(Procs)
      BY <1>1, HeadTailProperties
    <3> QED
      BY <1>1, <1>2, <3>1
  <2>2. Ready \o queue'[PROCESS_READY] = queue'[PROCESS_READY]
    BY <1>3, <2>1, ConcatEmptySeq
  <2> QED
    BY <2>1, <2>2, ReadyGrows
<1>4. CASE Ready # <<>>
  <2>1. r # <<>> /\ Head(r) = Head(Ready) /\ IsPrefix(Tail(Ready), Tail(r))
    BY <1>4, HeadLeavesFirst
  <2> HIDE DEF r
  <2>2. current' = Head(Ready) /\ IsPrefix(Tail(Ready), queue'[PROCESS_READY])
    BY <1>2, <2>1
  <2> QED
    BY <1>4, <2>2, SameOperators DEF Ready, Scheduler!ReadyInLine, Scheduler!HeadLeaves
<1> QED
  BY <1>3, <1>4

LEMMA TickInLine ==
  ASSUME queue \in [Queued -> Seq(Procs)], Scheduler!Tick
  PROVE  Scheduler!ReadyInLine
<1>1. Ready \in Seq(Procs) /\ queue[PROCESS_DELAYED] \in Seq(Procs)
  BY DEF Ready, Queued
<1>2. PICK W \in SUBSET Delayed : \E w \in SetToSeqs(W) :
        queue'[PROCESS_READY] = Ready \o w \/ \E st : Scheduler!schedule(Ready \o w, st)
  BY SameOperators DEF Scheduler!Tick, Ready
<1>3. PICK w \in SetToSeqs(W) :
        queue'[PROCESS_READY] = Ready \o w \/ \E st : Scheduler!schedule(Ready \o w, st)
  BY <1>2
<1>4. w \in Seq(Procs)
  <2> DEFINE d == queue[PROCESS_DELAYED]
             n == Len(d)
  <2>1. /\ n \in Nat /\ d \in [1..n -> Procs]
        /\ Delayed = {d[i] : i \in 1..n}
    <3>1. d \in [1..n -> Procs] /\ n \in Nat /\ DOMAIN d = 1..n
      BY <1>1, LenProperties
    <3> QED
      BY <3>1 DEF Delayed, ToSet
  <2> HIDE DEF d, n
  <2>2. d \in Surjection(1..n, Delayed) /\ Delayed \subseteq Procs
    BY <2>1 DEF Surjection
  <2>3. IsFiniteSet(Delayed)
    <3>1. IsFiniteSet(1..n)
      BY <2>1, FS_Interval
    <3> QED
      BY <2>2, <3>1, FS_Surjection
  <2>4. IsFiniteSet(W) /\ W \subseteq Procs
    BY <2>2, <2>3, FS_Subset
  <2>5. Cardinality(W) \in Nat
    BY <2>4, FS_CardinalityType
  <2>6. w \in [1..Cardinality(W) -> W]
    BY DEF SetToSeqs
  <2> QED
    BY <2>4, <2>5, <2>6
<1> QED
  BY <1>1, <1>3, <1>4, ReadyGrows, ScheduleInLine

LEMMA SchedNextInLine ==
  ASSUME Inv, [Scheduler!SchedNext]_(Scheduler!sched)
  PROVE  Scheduler!ReadyInLine
<1>1. queue \in [Queued -> Seq(Procs)] /\ Ready \in Seq(Procs)
  BY DEF Inv, SchedInv, Disciplined, Ready, Queued
<1>2. Ready \o <<>> = Ready /\ <<>> \in Seq(Procs)
  BY <1>1, ConcatEmptySeq
<1>3. CASE Scheduler!Tick
  BY <1>1, <1>3, TickInLine
<1>4. CASE Scheduler!Delay \/ Scheduler!Wait \/ Scheduler!Exit
  <2>1. PICK st : Scheduler!schedule(Ready, st)
    BY <1>4 DEF Scheduler!Delay, Scheduler!Wait, Scheduler!Exit, Scheduler!Leaves, Ready
  <2> QED
    BY <1>1, <1>2, <2>1, ScheduleInLine
<1>5. ASSUME NEW p \in Procs, Scheduler!ExitTo(p) \/ Scheduler!Fork(p)
      PROVE  Scheduler!ReadyInLine
  <2>1. Append(Ready, p) = Ready \o <<p>> /\ <<p>> \in Seq(Procs)
    BY <1>1, AppendIsConcat
  <2>2. CASE Scheduler!ExitTo(p)
    <3>1. PICK st : Scheduler!schedule(Append(Ready, p), st)
      BY <2>2 DEF Scheduler!ExitTo, Ready
    <3> QED
      BY <1>1, <2>1, <3>1, ScheduleInLine
  <2>3. CASE Scheduler!Fork(p)
    BY <1>1, <2>1, <2>3, ReadyGrows DEF Scheduler!Fork, Ready
  <2> QED
    BY <1>5, <2>2, <2>3
<1>6. CASE queue'[PROCESS_READY] = Ready
  BY <1>1, <1>2, <1>6, ReadyGrows
<1>7. CASE (\E z \in Procs : Scheduler!Reap(z)) \/ UNCHANGED Scheduler!sched
  BY <1>6, <1>7 DEF Scheduler!Reap, Scheduler!sched, Ready
<1> QED
  BY <1>3, <1>4, <1>5, <1>7 DEF Scheduler!SchedNext

(* pcb_enqueue puts a process behind those in ready_queue, and schedule     *)
(* takes its head: no system call and no clock tick, whatever it wakes,     *)
(* lets one that is ready overtake another.                                 *)
THEOREM ReadyIsFair == Spec => NoOvertaking
<1>1. Ind /\ [Next]_vars => [Scheduler!ReadyInLine]_(Scheduler!sched)
  <2>1. Inv /\ [Next]_vars => [Scheduler!ReadyInLine]_(Scheduler!sched)
    BY NextMaps, SchedNextInLine
  <2>2. UNCHANGED vars => UNCHANGED Scheduler!sched
    BY DEF vars, Scheduler!sched, Delayed
  <2> QED
    BY <2>1, <2>2, RelinkedStays DEF Ind
<1> QED
  BY <1>1, Always, PTL DEF Spec, NoOvertaking
-----------------------------------------------------------------------------
(* How long a process waits.                                                *)
Spent(run) == IF run > DEFAULT_TIMESLICE THEN DEFAULT_TIMESLICE ELSE run

LEMMA PlaceIs ==
  ASSUME NEW r, Once(r), NEW i \in 1..Len(r)
  PROVE  (CHOOSE j \in 1..Len(r) : r[j] = r[i]) = i
BY DEF Once

(* What TicksLeft comes to, in a state and in the next one.                 *)
LEMMA TicksNow ==
  ASSUME Inv, NEW p \in Procs
  PROVE  /\ state[p] = PROCESS_DELAYED => TicksLeft(p) = delay_ticks[p] + Cardinality(Procs) * Turn
         /\ \A i \in 1..Len(Ready) : Ready[i] = p =>
               state[p] = PROCESS_READY /\ TicksLeft(p) = i * Turn - Spent(run_time)
<1>1. Once(Ready) /\ (state[p] = PROCESS_READY <=> At(Ready, p))
  BY DEF Inv, SchedInv, Disciplined, Ready, Queued
<1>2. ASSUME NEW i \in 1..Len(Ready), Ready[i] = p
      PROVE  state[p] = PROCESS_READY /\ TicksLeft(p) = i * Turn - Spent(run_time)
  <2>1. state[p] = PROCESS_READY
    BY <1>1, <1>2 DEF At
  <2>2. Place(p) = (CHOOSE j \in 1..Len(Ready) : Ready[j] = p)
    BY DEF Place, Ready
  <2>3. Place(p) = i
    BY <1>1, <1>2, <2>2, PlaceIs
  <2> QED
    BY <2>1, <2>3 DEF TicksLeft, Spent
<1> QED
  BY <1>2 DEF TicksLeft

(* Who is ready, which holds after a Fork that relinked its child, too.     *)
ReadyOnce == /\ Once(Ready)
             /\ \A p \in Procs : state[p] = PROCESS_READY <=> At(Ready, p)

LEMMA ReadyOnceNext == Inv' => ReadyOnce'
BY DEF ReadyOnce, Inv, SchedInv, Disciplined, Ready, Queued

LEMMA TicksNext ==
  ASSUME ReadyOnce', NEW p \in Procs
  PROVE  /\ state'[p] = PROCESS_DELAYED =>
               TicksLeft(p)' = delay_ticks'[p] + Cardinality(Procs) * Turn
         /\ \A i \in 1..Len(Ready') : Ready'[i] = p =>
               state'[p] = PROCESS_READY /\ TicksLeft(p)' = i * Turn - Spent(run_time')
<1>1. Once(Ready') /\ (state'[p] = PROCESS_READY <=> At(Ready', p))
  BY DEF ReadyOnce
<1>2. ASSUME NEW i \in 1..Len(Ready'), Ready'[i] = p
      PROVE  state'[p] = PROCESS_READY /\ TicksLeft(p)' = i * Turn - Spent(run_time')
  <2>1. state'[p] = PROCESS_READY
    BY <1>1, <1>2 DEF At
  <2>2. Place(p)' = (CHOOSE j \in 1..Len(Ready') : Ready'[j] = p)
    BY DEF Place, Ready
  <2>3. Place(p)' = i
    BY <1>1, <1>2, <2>2, PlaceIs
  <2> QED
    BY <2>1, <2>3 DEF TicksLeft, Spent
<1> QED
  BY <1>2 DEF TicksLeft

(* Arithmetic of turns.                                                     *)
LEMMA TurnFacts ==
  /\ Turn \in Nat /\ Turn = DEFAULT_TIMESLICE + 1 /\ DEFAULT_TIMESLICE \in Nat \ {0}
  /\ Cardinality(Procs) \in Nat
  /\ \A i \in Nat : i * Turn \in Nat /\ (i - 1) * Turn = i * Turn - Turn
  /\ \A i \in Nat \ {0} : i * Turn >= Turn
  /\ \A i, k \in Nat : i <= k => i * Turn <= k * Turn
  /\ \A t \in Nat : Spent(t) \in 0..DEFAULT_TIMESLICE
<1>1. Turn \in Nat /\ Turn = DEFAULT_TIMESLICE + 1 /\ DEFAULT_TIMESLICE \in Nat \ {0}
  BY ProcessAssumption DEF Turn
<1>2. Cardinality(Procs) \in Nat
  BY ProcessAssumption, FS_CardinalityType
<1>3. ASSUME NEW n \in Nat
      PROVE  /\ \A i \in Nat : i * n \in Nat /\ (i - 1) * n = i * n - n
             /\ \A i \in Nat \ {0} : i * n >= n
             /\ \A i, k \in Nat : i <= k => i * n <= k * n
  OBVIOUS
<1>4. \A t \in Nat : Spent(t) \in 0..DEFAULT_TIMESLICE
  BY <1>1 DEF Spent
<1> QED
  BY <1>1, <1>2, <1>3, <1>4

(* Whoever was first runs, the others are a place nearer.                   *)
LEMMA PlaceAfterSwitch ==
  ASSUME NEW T, Disciplined(T.state, T.queue),
         NEW h, NEW regs, NEW kst, schedule(T, h, regs, kst),
         NEW i \in 1..Len(T.queue[PROCESS_READY])
  PROVE  LET p == T.queue[PROCESS_READY][i] IN
         \/ state'[p] = PROCESS_RUNNING
         \/ i > 1 /\ i - 1 \in 1..Len(Ready') /\ Ready'[i - 1] = p
<1> DEFINE r == T.queue[PROCESS_READY]
<1>1. r \in Seq(Procs) /\ r # <<>> /\ r[i] \in Procs /\ T.queue \in [Queued -> Seq(Procs)]
  BY DEF Disciplined, Queued
<1>2. /\ Ready' = Tail(r)
      /\ state' = [T.state EXCEPT ![Head(r)] = PROCESS_RUNNING]
  BY <1>1 DEF schedule, NextProcess, Ready, Queued
<1> HIDE DEF r
<1>3. CASE i = 1
  <2>1. r[i] = Head(r) /\ T.state \in [Procs -> State]
    BY <1>1, <1>3 DEF Disciplined
  <2> QED
    BY <1>1, <1>2, <2>1 DEF r
<1>4. CASE i > 1
  <2>1. Len(Tail(r)) = Len(r) - 1 /\ \A j \in 1..Len(Tail(r)) : Tail(r)[j] = r[j + 1]
    BY <1>1, HeadTailProperties
  <2>2. i \in 1..Len(r) /\ Len(r) \in Nat
    BY <1>1, LenProperties DEF r
  <2> QED
    BY <1>2, <1>4, <2>1, <2>2 DEF r
<1> QED
  BY <1>3, <1>4

(* A handler that ends in schedule and left those who wait where they were. *)
LEMMA SwitchShortens ==
  ASSUME Inv, Inv', NEW T, Disciplined(T.state, T.queue),
         NEW h, NEW regs, NEW kst, schedule(T, h, regs, kst),
         NEW t \in Seq(Procs), T.queue[PROCESS_READY] = Ready \o t,
         NEW p \in Procs, Waiting(p), T.state[p] = state[p],
         delay_ticks'[p] \in 0..delay_ticks[p]
  PROVE  \/ state'[p] = PROCESS_RUNNING
         \/ /\ Waiting(p)'
            /\ TicksLeft(p)' <= TicksLeft(p)
            /\ delay_ticks'[p] < delay_ticks[p] \/ state[p] = PROCESS_READY =>
                  TicksLeft(p)' < TicksLeft(p)
<1>0. /\ Ready \in Seq(Procs) /\ Len(Ready) \in Nat
      /\ run_time \in Nat /\ run_time' = 0
      /\ delay_ticks[p] \in Nat
      /\ (state[p] = PROCESS_READY => At(Ready, p))
  <2>1. Ready \in Seq(Procs) /\ (state[p] = PROCESS_READY => At(Ready, p))
    BY DEF Inv, SchedInv, Disciplined, Ready, Queued
  <2>2. run_time \in Nat /\ delay_ticks[p] \in Nat
    <3>1. run_time \in 0..(DEFAULT_TIMESLICE + 1) /\ delay_ticks[p] \in 0..MaxDelay
      BY DEF Inv, ContextFields, PcbFields
    <3> QED
      BY <3>1, ProcessAssumption
  <2>3. run_time' = 0
    BY DEF schedule
  <2> QED
    BY <2>1, <2>2, <2>3, LenProperties
<1>1. CASE state[p] = PROCESS_READY
  <2>1. PICK i \in 1..Len(Ready) : Ready[i] = p
    BY <1>0, <1>1 DEF At
  <2>2. i \in 1..Len(Ready \o t) /\ (Ready \o t)[i] = p
    BY <1>0, <2>1, ConcatProperties, LenProperties
  <2>3. \/ state'[p] = PROCESS_RUNNING
        \/ i > 1 /\ i - 1 \in 1..Len(Ready') /\ Ready'[i - 1] = p
    BY <2>2, PlaceAfterSwitch
  <2>4. TicksLeft(p) = i * Turn - Spent(run_time)
    BY <2>1, TicksNow
  <2>5. CASE i > 1 /\ i - 1 \in 1..Len(Ready') /\ Ready'[i - 1] = p
    <3>1. state'[p] = PROCESS_READY /\ TicksLeft(p)' = (i - 1) * Turn - Spent(run_time')
      BY <2>5, TicksNext, ReadyOnceNext
    <3>2. Spent(run_time') = 0
      BY <1>0, TurnFacts DEF Spent
    <3>3. i \in Nat /\ (i - 1) * Turn = i * Turn - Turn /\ i * Turn \in Nat
      BY <1>0, TurnFacts
    <3>4. TicksLeft(p)' < TicksLeft(p) /\ TicksLeft(p)' \in Int /\ TicksLeft(p) \in Int
      <4>1. /\ Spent(run_time) \in 0..DEFAULT_TIMESLICE /\ Turn = DEFAULT_TIMESLICE + 1
            /\ DEFAULT_TIMESLICE \in Nat
        BY <1>0, TurnFacts
      <4> DEFINE x == i * Turn
      <4> HIDE DEF x
      <4>2. TicksLeft(p) = x - Spent(run_time) /\ TicksLeft(p)' = x - Turn - 0 /\ x \in Nat
        BY <2>4, <3>1, <3>2, <3>3 DEF x
      <4> QED
        BY <4>1, <4>2
    <3> QED
      BY <3>1, <3>4 DEF Waiting
  <2> QED
    BY <2>3, <2>5
<1>2. CASE state[p] = PROCESS_DELAYED
  <2>1. state'[p] \in {PROCESS_RUNNING, PROCESS_DELAYED}
    <3>1. /\ T.state \in [Procs -> State]
          /\ state' = [T.state EXCEPT ![NextProcess(T)] = PROCESS_RUNNING]
      BY DEF schedule, Disciplined
    <3> QED
      BY <1>2, <3>1
  <2>2. CASE state'[p] = PROCESS_DELAYED
    <3> DEFINE x == Cardinality(Procs) * Turn
    <3>1. x \in Nat
      BY TurnFacts
    <3> HIDE DEF x
    <3>2. TicksLeft(p) = delay_ticks[p] + x /\ TicksLeft(p)' = delay_ticks'[p] + x
      BY <1>2, <2>2, TicksNow, TicksNext, ReadyOnceNext DEF x
    <3>3. /\ TicksLeft(p)' <= TicksLeft(p)
          /\ delay_ticks'[p] < delay_ticks[p] => TicksLeft(p)' < TicksLeft(p)
      BY <1>0, <3>1, <3>2
    <3> QED
      BY <1>2, <2>2, <3>3 DEF Waiting
  <2> QED
    BY <2>1, <2>2
<1> QED
  BY <1>1, <1>2 DEF Waiting

(* What add_to_* and remove_from_* do to ready_queue and to who waits.      *)
LEMMA ReadyAfterAdd ==
  ASSUME NEW S, Disciplined(S.state, S.queue), NEW s \in Queued, NEW p \in Procs
  PROVE  LET T == AddTo(S, s, p) IN
         /\ T.queue[PROCESS_READY] \in {S.queue[PROCESS_READY], Append(S.queue[PROCESS_READY], p)}
         /\ s # PROCESS_READY => T.queue[PROCESS_READY] = S.queue[PROCESS_READY]
<1>1. S.queue \in [Queued -> Seq(Procs)] /\ PROCESS_READY \in Queued
  BY DEF Disciplined, Queued
<1>2. CASE S.state[p] # PROCESS_DEFAULT
  BY <1>2 DEF AddTo
<1>3. CASE S.state[p] = PROCESS_DEFAULT
  <2>1. AddTo(S, s, p).queue = [S.queue EXCEPT ![s] = Append(@, p)]
    BY <1>3 DEF AddTo
  <2> QED
    BY <1>1, <2>1
<1> QED
  BY <1>2, <1>3

LEMMA ReadyAfterRemove ==
  ASSUME NEW S, Disciplined(S.state, S.queue), NEW s \in Queued, s # PROCESS_READY, NEW p \in Procs
  PROVE  RemoveFrom(S, s, p).queue[PROCESS_READY] = S.queue[PROCESS_READY]
<1>1. S.queue \in [Queued -> Seq(Procs)] /\ PROCESS_READY \in Queued
  BY DEF Disciplined, Queued
<1>2. CASE S.state[p] # s
  BY <1>2 DEF RemoveFrom
<1>3. CASE S.state[p] = s
  <2>1. RemoveFrom(S, s, p).queue = [S.queue EXCEPT ![s] = RemoveFirst(@, p)]
    BY <1>3 DEF RemoveFrom
  <2> QED
    BY <1>1, <2>1
<1> QED
  BY <1>2, <1>3

(* Wait and Delay leave the ready queue as it is.                           *)
LEMMA LeaveShortens ==
  ASSUME Inv, Inv', NEW s \in Queued, s # PROCESS_READY,
         NEW h, NEW regs, NEW kst, current # Idle,
         schedule(AddTo(SetState(System, current, PROCESS_DEFAULT), s, current), h, regs, kst),
         NEW p \in Procs, Waiting(p), delay_ticks'[p] = delay_ticks[p]
  PROVE  \/ state'[p] = PROCESS_RUNNING
         \/ Waiting(p)' /\ TicksLeft(p)' <= TicksLeft(p)
<1> DEFINE S == SetState(System, current, PROCESS_DEFAULT)
           T == AddTo(S, s, current)
<1>1. /\ current \in Procs /\ state[current] = PROCESS_RUNNING
      /\ Disciplined(S.state, S.queue) /\ S.queue = queue
  BY CurrentLives, DeselectKeeps DEF Inv, SetState, System
<1>2. /\ Disciplined(T.state, T.queue)
      /\ \A q \in Procs : T.state[q] = IF q = current THEN s ELSE state[q]
  BY LeaveIs
<1> HIDE DEF S
<1>3. T.queue[PROCESS_READY] = Ready
  BY <1>1, ReadyAfterAdd DEF Ready
<1>4. schedule(T, h, regs, kst)
  BY DEF S
<1> HIDE DEF T
<1>5. Ready \o <<>> = Ready /\ <<>> \in Seq(Procs) /\ delay_ticks[p] \in 0..delay_ticks[p]
  <2>1. Ready \in Seq(Procs)
    BY DEF Inv, SchedInv, Disciplined, Ready, Queued
  <2>2. delay_ticks[p] \in 0..MaxDelay /\ MaxDelay \in Nat
    BY ProcessAssumption DEF Inv, PcbFields
  <2> QED
    BY <2>1, <2>2, ConcatEmptySeq
<1>6. T.state[p] = state[p]
  BY <1>1, <1>2 DEF Waiting
<1> QED
  BY <1>2, <1>3, <1>4, <1>5, <1>6, SwitchShortens

(* Exit puts the parent it wakes behind who is ready already.               *)
LEMMA ExitShortens ==
  ASSUME Inv, Inv', NEW status, SysExit(status), NEW p \in Procs, Waiting(p)
  PROVE  \/ state'[p] = PROCESS_RUNNING
         \/ Waiting(p)' /\ TicksLeft(p)' <= TicksLeft(p)
<1> DEFINE S == SetState(System, current, PROCESS_DEFAULT)
           par == parent[current]
           R == RemoveFrom(S, PROCESS_BLOCKED, par)
           T == AddTo(R, PROCESS_READY, par)
<1>1. /\ current \in Procs /\ current # Idle /\ state[current] = PROCESS_RUNNING
      /\ Disciplined(S.state, S.queue) /\ S.queue = queue
      /\ \A q \in Procs : q # current => S.state[q] = state[q]
      /\ PROCESS_READY \in Queued /\ PROCESS_BLOCKED \in Queued /\ PROCESS_ZOMBIE \in Queued
  BY CurrentLives, DeselectKeeps DEF Inv, SetState, System, SysExit, InUser, Queued
<1>2. delay_ticks' = delay_ticks
  BY DEF SysExit
<1>3. CASE ~ Wakes
  <2>1. PICK h, regs, kst : schedule(AddTo(S, PROCESS_ZOMBIE, current), h, regs, kst)
    BY <1>3 DEF SysExit, S
  <2> QED
    BY <1>1, <1>2, <2>1, LeaveShortens DEF S
<1>4. CASE Wakes
  <2>1. par \in Procs
    BY <1>1, <1>4 DEF Wakes, Inv, SchedInv
  <2>2. PICK h, regs, kst : schedule(T, h, regs, kst)
    BY <1>4 DEF SysExit, S, R, T, par
  <2> HIDE DEF par, S
  <2>3. /\ Disciplined(R.state, R.queue) /\ R.queue[PROCESS_READY] = Ready
        /\ \A q \in Procs : R.state[q] =
              IF q = par /\ S.state[par] = PROCESS_BLOCKED THEN PROCESS_DEFAULT ELSE S.state[q]
    <3>1. R.queue[PROCESS_READY] = S.queue[PROCESS_READY]
      BY <1>1, <2>1, ReadyAfterRemove
    <3>2. /\ Disciplined(R.state, R.queue)
          /\ \A q \in Procs : R.state[q] =
                IF q = par /\ S.state[par] = PROCESS_BLOCKED THEN PROCESS_DEFAULT ELSE S.state[q]
      BY <1>1, <2>1, RemoveFromKeeps
    <3> QED
      BY <1>1, <3>1, <3>2 DEF Ready
  <2> HIDE DEF R
  <2>4. /\ Disciplined(T.state, T.queue)
        /\ T.queue[PROCESS_READY] \in {Ready, Append(Ready, par)}
        /\ \A q \in Procs : T.state[q] =
              IF q = par /\ R.state[par] = PROCESS_DEFAULT THEN PROCESS_READY ELSE R.state[q]
    BY <1>1, <2>1, <2>3, AddToKeeps, ReadyAfterAdd
  <2> HIDE DEF T
  <2>5. T.state[p] = state[p]
    BY <1>1, <2>1, <2>3, <2>4 DEF Waiting
  <2>6. /\ Ready \in Seq(Procs) /\ delay_ticks'[p] \in 0..delay_ticks[p]
    <3>1. delay_ticks[p] \in 0..MaxDelay /\ MaxDelay \in Nat
      BY ProcessAssumption DEF Inv, PcbFields
    <3> QED
      BY <1>2, <3>1 DEF Inv, SchedInv, Disciplined, Ready, Queued
  <2>7. PICK t \in Seq(Procs) : T.queue[PROCESS_READY] = Ready \o t
    <3>1. Ready \o <<>> = Ready /\ <<>> \in Seq(Procs)
      BY <2>6, ConcatEmptySeq
    <3>2. Append(Ready, par) = Ready \o <<par>> /\ <<par>> \in Seq(Procs)
      BY <2>1, <2>6, AppendIsConcat
    <3> QED
      BY <2>4, <3>1, <3>2
  <2> QED
    BY <2>2, <2>4, <2>5, <2>6, <2>7, SwitchShortens
<1> QED
  BY <1>3, <1>4

(* A handler that returns to its caller leaves who waits where it is.       *)
LEMMA ReturnKeeps ==
  ASSUME Inv, ReadyOnce', run_time' = run_time,
         NEW p \in Procs, Waiting(p), state'[p] = state[p],
         delay_ticks'[p] = delay_ticks[p],
         NEW t \in Seq(Procs), Ready' = Ready \o t
  PROVE  Waiting(p)' /\ TicksLeft(p)' <= TicksLeft(p)
<1>1. Waiting(p)'
  BY DEF Waiting
<1>2. Ready \in Seq(Procs) /\ (state[p] = PROCESS_READY => At(Ready, p))
  BY DEF Inv, SchedInv, Disciplined, Ready, Queued
<1>3. run_time \in Nat /\ delay_ticks[p] \in Nat
  <2>1. run_time \in 0..(DEFAULT_TIMESLICE + 1) /\ delay_ticks[p] \in 0..MaxDelay
    BY DEF Inv, ContextFields, PcbFields
  <2> QED
    BY <2>1, ProcessAssumption
<1>4. CASE state[p] = PROCESS_READY
  <2>1. PICK i \in 1..Len(Ready) : Ready[i] = p
    BY <1>2, <1>4 DEF At
  <2>2. i \in 1..Len(Ready') /\ Ready'[i] = p /\ i \in Nat
    BY <1>2, <2>1, ConcatProperties, LenProperties
  <2>3. TicksLeft(p)' = TicksLeft(p) /\ TicksLeft(p) = i * Turn - Spent(run_time)
    BY <2>1, <2>2, TicksNow, TicksNext
  <2>4. i * Turn \in Nat /\ Spent(run_time) \in 0..DEFAULT_TIMESLICE /\ DEFAULT_TIMESLICE \in Nat
    BY <1>3, <2>2, TurnFacts
  <2>5. TicksLeft(p) \in Int
    BY <2>3, <2>4
  <2> QED
    BY <1>1, <2>3, <2>5
<1>5. CASE state[p] = PROCESS_DELAYED
  <2> DEFINE x == Cardinality(Procs) * Turn
  <2>1. x \in Nat
    BY TurnFacts
  <2> HIDE DEF x
  <2>2. TicksLeft(p)' = TicksLeft(p) /\ TicksLeft(p) = delay_ticks[p] + x
    BY <1>5, TicksNow, TicksNext DEF x
  <2>3. TicksLeft(p) \in Int
    BY <1>3, <2>1, <2>2
  <2> QED
    BY <1>1, <2>2, <2>3
<1> QED
  BY <1>4, <1>5 DEF Waiting

LEMMA ForkKeeps ==
  ASSUME Inv, NEW child \in Procs, ForkChild(child), NEW p \in Procs, Waiting(p)
  PROVE  Waiting(p)' /\ TicksLeft(p)' <= TicksLeft(p)
<1>1. /\ state[child] \in {PROCESS_DEFAULT, PROCESS_ZOMBIE}
      /\ state' = [state EXCEPT ![child] = PROCESS_READY]
      /\ queue' = [queue EXCEPT ![PROCESS_READY] = Append(@, child)]
      /\ run_time' = run_time /\ delay_ticks' = [delay_ticks EXCEPT ![child] = 0]
  BY ForkChildMoves DEF Inv, Family, SparesIdle, ForkChild
<1>2. /\ queue \in [Queued -> Seq(Procs)] /\ PROCESS_READY \in Queued
      /\ Ready \in Seq(Procs) /\ state \in [Procs -> State] /\ Once(Ready)
      /\ \A q \in Procs : state[q] = PROCESS_READY <=> At(Ready, q)
      /\ delay_ticks \in [Procs -> 0..MaxDelay]
  BY DEF Inv, SchedInv, Disciplined, PcbFields, Ready, Queued
<1>3. p # child /\ state'[p] = state[p] /\ delay_ticks'[p] = delay_ticks[p]
  BY <1>1, <1>2 DEF Waiting
<1>4. Ready' = Append(Ready, child)
  BY <1>1, <1>2 DEF Ready
<1>5. ReadyOnce'
  <2>1. ~ At(Ready, child)
    BY <1>1, <1>2
  <2>2. Once(Ready') /\ \A q : At(Ready', q) <=> At(Ready, q) \/ q = child
    BY <1>2, <1>4, <2>1, AppendOnce
  <2>3. \A q \in Procs : state'[q] = PROCESS_READY <=> state[q] = PROCESS_READY \/ q = child
    BY <1>1, <1>2
  <2> QED
    BY <1>2, <2>2, <2>3 DEF ReadyOnce
<1>6. Append(Ready, child) = Ready \o <<child>> /\ <<child>> \in Seq(Procs)
  BY <1>2, AppendIsConcat
<1> QED
  BY <1>1, <1>3, <1>4, <1>5, <1>6, ReturnKeeps

LEMMA ReapKeeps ==
  ASSUME Inv, Inv', NEW z \in Procs, WaitReaps(z), NEW p \in Procs, Waiting(p)
  PROVE  Waiting(p)' /\ TicksLeft(p)' <= TicksLeft(p)
<1>1. /\ state[z] = PROCESS_ZOMBIE
      /\ state' = RemoveFrom(System, PROCESS_ZOMBIE, z).state
      /\ queue' = RemoveFrom(System, PROCESS_ZOMBIE, z).queue
      /\ run_time' = run_time /\ delay_ticks' = delay_ticks
  BY DEF WaitReaps, FirstZombie, Return
<1>2. /\ queue \in [Queued -> Seq(Procs)] /\ PROCESS_READY \in Queued /\ PROCESS_ZOMBIE \in Queued
      /\ Ready \in Seq(Procs) /\ state \in [Procs -> State]
  BY DEF Inv, SchedInv, Disciplined, Ready, Queued
<1>3. /\ state' = [state EXCEPT ![z] = PROCESS_DEFAULT]
      /\ queue' = [queue EXCEPT ![PROCESS_ZOMBIE] = RemoveFirst(@, z)]
  BY <1>1 DEF RemoveFrom, System
<1>4. state'[p] = state[p]
  BY <1>1, <1>2, <1>3 DEF Waiting
<1>5. Ready' = Ready \o <<>> /\ <<>> \in Seq(Procs)
  <2>1. Ready' = Ready
    BY <1>2, <1>3 DEF Ready
  <2> QED
    BY <1>2, <2>1, ConcatEmptySeq
<1> QED
  BY <1>1, <1>4, <1>5, ReturnKeeps, ReadyOnceNext

(* A queue is not longer than there are processes.                          *)
LEMMA QueueBounded ==
  ASSUME NEW r \in Seq(Procs), Once(r)
  PROVE  Len(r) \in Nat /\ Cardinality(Procs) \in Nat /\ Len(r) <= Cardinality(Procs)
<1>1. Len(r) \in Nat /\ r \in [1..Len(r) -> Procs]
  BY LenProperties
<1>2. r \in Injection(1..Len(r), Procs)
  BY <1>1 DEF Injection, IsInjective, Once
<1>3. IsFiniteSet(Procs) /\ Cardinality(Procs) \in Nat
  BY ProcessAssumption, FS_CardinalityType
<1>4. Cardinality(1..Len(r)) = Len(r)
  BY <1>1, FS_Interval
<1> QED
  BY <1>1, <1>2, <1>3, <1>4, FS_Injection

(* Whoever wakes is at a place of ready_queue for which the Turns of all    *)
(* processes were allowed.                                                  *)
LEMMA WokenShortens ==
  ASSUME Inv, Inv', NEW p \in Procs, state[p] = PROCESS_DELAYED, delay_ticks[p] = 1,
         NEW i \in Nat, i <= Cardinality(Procs), i \in 1..Len(Ready'), Ready'[i] = p
  PROVE  Waiting(p)' /\ TicksLeft(p)' < TicksLeft(p)
<1> DEFINE x == Cardinality(Procs) * Turn
           y == i * Turn
<1>1. x \in Nat /\ y \in Nat /\ y <= x
  BY TurnFacts
<1>2. run_time' \in Nat
  <2>1. run_time' \in 0..(DEFAULT_TIMESLICE + 1)
    BY DEF Inv, ContextFields
  <2> QED
    BY <2>1, ProcessAssumption
<1>3. Spent(run_time') \in 0..DEFAULT_TIMESLICE /\ DEFAULT_TIMESLICE \in Nat
  BY <1>2, TurnFacts
<1>4. state'[p] = PROCESS_READY /\ TicksLeft(p)' = y - Spent(run_time')
  BY TicksNext, ReadyOnceNext
<1>5. TicksLeft(p) = 1 + x
  BY TicksNow
<1> HIDE DEF x, y
<1>6. TicksLeft(p)' < TicksLeft(p)
  BY <1>1, <1>3, <1>4, <1>5
<1> QED
  BY <1>4, <1>6 DEF Waiting

(* A tick brings everyone who waits nearer, whoever it wakes and whether it *)
(* switches or not: it does not only if the running process has used up its *)
(* time and nobody is ready.                                                *)
LEMMA ClockShortens ==
  ASSUME Inv, Inv', clock_handler, NEW p \in Procs, Waiting(p)
  PROVE  \/ state'[p] = PROCESS_RUNNING
         \/ Waiting(p)' /\ TicksLeft(p)' < TicksLeft(p)
<1> DEFINE over == run_time + 1 > time_slice(current)
<1>1. PICK rest \in InOrder(StillDelayed, queue[PROCESS_DELAYED]),
           woken \in InOrder(Due, queue[PROCESS_DELAYED]) :
        LET S == Updated(rest, woken) IN
        \/ \E h, regs, kst : schedule(SetState(S, current, PROCESS_DEFAULT), h, regs, kst)
        \/ /\ ~ (over /\ S.queue[PROCESS_READY] # <<>>)
           /\ state' = S.state /\ queue' = S.queue
           /\ run_time' = IF over THEN time_slice(current) + 1 ELSE run_time + 1
  BY DEF clock_handler, StillDelayed, Due
<1> DEFINE S == Updated(rest, woken)
           T == SetState(S, current, PROCESS_DEFAULT)
           switches == \E h, regs, kst : schedule(T, h, regs, kst)
           goesOn == /\ ~ (over /\ S.queue[PROCESS_READY] # <<>>)
                     /\ state' = S.state /\ queue' = S.queue
                     /\ run_time' = IF over THEN time_slice(current) + 1 ELSE run_time + 1
<1>2. switches \/ goesOn
  BY <1>1
<1>3. /\ \A q : q \in Delayed <=> q \in Procs /\ state[q] = PROCESS_DELAYED
      /\ woken \in Seq(Procs)
      /\ Disciplined(S.state, S.queue)
      /\ \A q \in Procs : S.state[q] =
            IF state[q] = PROCESS_DELAYED /\ delay_ticks[q] = 1 THEN PROCESS_READY ELSE state[q]
      /\ T.queue = S.queue
      /\ \A q \in Procs : T.state[q] = IF q = current THEN PROCESS_DEFAULT ELSE S.state[q]
      /\ Disciplined(T.state, T.queue)
  BY UpdatedIs
<1>4. S.queue[PROCESS_READY] = Ready \o woken /\ Ready \in Seq(Procs)
  <2>1. queue \in [Queued -> Seq(Procs)] /\ PROCESS_READY \in Queued /\ PROCESS_DELAYED \in Queued
    BY DEF Inv, SchedInv, Disciplined, Queued
  <2>2. S.queue = [queue EXCEPT ![PROCESS_DELAYED] = rest, ![PROCESS_READY] = @ \o woken]
    BY DEF Updated
  <2> HIDE DEF S
  <2> QED
    BY <2>1, <2>2 DEF Ready
<1> HIDE DEF S, T
<1>5. current \in Procs /\ state[current] = PROCESS_RUNNING /\ p # current
  BY CurrentLives DEF Waiting
<1>6. T.state[p] = S.state[p]
  BY <1>3, <1>5
<1>7. /\ delay_ticks[p] \in Nat
      /\ delay_ticks'[p] = IF state[p] = PROCESS_DELAYED THEN delay_ticks[p] - 1 ELSE delay_ticks[p]
      /\ state[p] = PROCESS_DELAYED => delay_ticks[p] # 0
  <2>1. delay_ticks[p] \in 0..MaxDelay /\ MaxDelay \in Nat
    BY ProcessAssumption DEF Inv, PcbFields
  <2>2. delay_ticks' = [q \in Procs |-> IF q \in Delayed THEN delay_ticks[q] - 1
                                        ELSE delay_ticks[q]]
    BY DEF clock_handler
  <2>3. state[p] = PROCESS_DELAYED => delay_ticks[p] # 0
    BY DEF Inv, StateOK
  <2> QED
    BY <1>3, <2>1, <2>2, <2>3
<1>8. run_time \in Nat /\ DEFAULT_TIMESLICE \in Nat /\ time_slice(current) \in 1..DEFAULT_TIMESLICE
  <2>1. run_time \in 0..(DEFAULT_TIMESLICE + 1) /\ DEFAULT_TIMESLICE \in Nat \ {0}
    BY ProcessAssumption DEF Inv, ContextFields
  <2> QED
    BY <2>1 DEF time_slice
<1>9. CASE state[p] = PROCESS_DELAYED /\ delay_ticks[p] = 1
  <2> DEFINE r == S.queue[PROCESS_READY]
  <2>1. r \in Seq(Procs) /\ Once(r) /\ At(r, p)
    <3>1. S.state[p] = PROCESS_READY /\ PROCESS_READY \in Queued
      BY <1>3, <1>9 DEF Queued
    <3> QED
      BY <1>3, <3>1 DEF Disciplined
  <2>2. PICK i \in 1..Len(r) : r[i] = p
    BY <2>1 DEF At
  <2>3. i \in Nat /\ i <= Cardinality(Procs) /\ Cardinality(Procs) \in Nat
    <3>1. Len(r) \in Nat /\ Cardinality(Procs) \in Nat /\ Len(r) <= Cardinality(Procs)
      BY <2>1, QueueBounded
    <3> HIDE DEF r
    <3> QED
      BY <3>1
  <2>4. CASE switches
    <3>1. \/ state'[p] = PROCESS_RUNNING
          \/ i > 1 /\ i - 1 \in 1..Len(Ready') /\ Ready'[i - 1] = p
      <4>1. PICK h, regs, kst : schedule(T, h, regs, kst)
        BY <2>4
      <4>2. i \in 1..Len(T.queue[PROCESS_READY]) /\ T.queue[PROCESS_READY][i] = p
        BY <1>3, <2>2
      <4> QED
        BY <1>3, <4>1, <4>2, PlaceAfterSwitch
    <3>2. ASSUME i > 1, i - 1 \in 1..Len(Ready'), Ready'[i - 1] = p
          PROVE  Waiting(p)' /\ TicksLeft(p)' < TicksLeft(p)
      <4>1. i - 1 \in Nat /\ i - 1 <= Cardinality(Procs)
        BY <2>3, <3>2
      <4> QED
        BY <1>9, <3>2, <4>1, WokenShortens
    <3> QED
      BY <3>1, <3>2
  <2>5. CASE goesOn
    <3>1. Ready' = r
      BY <2>5 DEF Ready
    <3> QED
      BY <1>9, <2>2, <2>3, <3>1, WokenShortens
  <2> QED
    BY <1>2, <2>4, <2>5
<1>10. CASE ~ (state[p] = PROCESS_DELAYED /\ delay_ticks[p] = 1)
  <2>1. S.state[p] = state[p]
    BY <1>3, <1>10
  <2>2. CASE switches
    <3>1. PICK h, regs, kst : schedule(T, h, regs, kst)
      BY <2>2
    <3>2. T.queue[PROCESS_READY] = Ready \o woken /\ T.state[p] = state[p]
      BY <1>3, <1>4, <1>6, <2>1
    <3>3. delay_ticks'[p] \in 0..delay_ticks[p]
      BY <1>7
    <3>4. delay_ticks'[p] < delay_ticks[p] \/ state[p] = PROCESS_READY
      BY <1>7 DEF Waiting
    <3> QED
      BY <1>3, <3>1, <3>2, <3>3, <3>4, SwitchShortens
  <2>3. CASE goesOn
    <3>1. state'[p] = state[p] /\ Ready' = Ready \o woken
      BY <1>4, <2>1, <2>3 DEF Ready
    <3>2. CASE state[p] = PROCESS_READY
      <4>1. At(Ready, p)
        BY <3>2 DEF Inv, SchedInv, Disciplined, Ready, Queued
      <4>2. PICK i \in 1..Len(Ready) : Ready[i] = p
        BY <4>1 DEF At
      <4>3. i \in 1..Len(Ready') /\ Ready'[i] = p /\ i \in Nat
        BY <1>3, <1>4, <3>1, <4>2, ConcatProperties, LenProperties
      <4>4. ~ over
        <5>1. S.queue[PROCESS_READY] # <<>>
          BY <1>4, <3>1, <4>3
        <5> QED
          BY <2>3, <5>1
      <4>5. run_time' = run_time + 1 /\ run_time + 1 <= DEFAULT_TIMESLICE
        <5>1. run_time' = run_time + 1
          BY <2>3, <4>4
        <5> QED
          BY <1>8, <4>4, <5>1
      <4>6. Spent(run_time') = run_time + 1 /\ Spent(run_time) = run_time
        BY <1>8, <4>5 DEF Spent
      <4> DEFINE y == i * Turn
      <4>7. y \in Nat
        BY <4>3, TurnFacts
      <4>8. TicksLeft(p) = y - run_time /\ TicksLeft(p)' = y - (run_time + 1)
        BY <4>2, <4>3, <4>6, TicksNow, TicksNext, ReadyOnceNext
      <4> HIDE DEF y
      <4>9. TicksLeft(p)' < TicksLeft(p)
        BY <1>8, <4>7, <4>8
      <4> QED
        BY <3>1, <3>2, <4>9 DEF Waiting
    <3>3. CASE state[p] = PROCESS_DELAYED
      <4> DEFINE x == Cardinality(Procs) * Turn
      <4>1. x \in Nat
        BY TurnFacts
      <4>2. TicksLeft(p) = delay_ticks[p] + x /\ TicksLeft(p)' = delay_ticks'[p] + x
        BY <3>1, <3>3, TicksNow, TicksNext, ReadyOnceNext
      <4> HIDE DEF x
      <4>3. TicksLeft(p)' < TicksLeft(p)
        BY <1>7, <3>3, <4>1, <4>2
      <4> QED
        BY <3>1, <3>3, <4>3 DEF Waiting
    <3> QED
      BY <3>2, <3>3 DEF Waiting
  <2> QED
    BY <1>2, <2>2, <2>3
<1> QED
  BY <1>9, <1>10

LEMMA TicksPositive ==
  ASSUME Inv, NEW p \in Procs, Waiting(p)
  PROVE  TicksLeft(p) \in Nat \ {0}
<1>1. CASE state[p] = PROCESS_DELAYED
  <2> DEFINE x == Cardinality(Procs) * Turn
  <2>1. x \in Nat
    BY TurnFacts
  <2>2. TicksLeft(p) = delay_ticks[p] + x
    BY <1>1, TicksNow
  <2>3. delay_ticks[p] \in 0..MaxDelay /\ MaxDelay \in Nat /\ delay_ticks[p] # 0
    BY <1>1, ProcessAssumption DEF Inv, PcbFields, StateOK
  <2> HIDE DEF x
  <2> QED
    BY <2>1, <2>2, <2>3
<1>2. CASE state[p] = PROCESS_READY
  <2>1. Ready \in Seq(Procs) /\ At(Ready, p)
    BY <1>2 DEF Inv, SchedInv, Disciplined, Ready, Queued
  <2>2. PICK i \in 1..Len(Ready) : Ready[i] = p
    BY <2>1 DEF At
  <2>3. i \in Nat \ {0}
    BY <2>1, <2>2, LenProperties
  <2> DEFINE y == i * Turn
  <2>4. y \in Nat /\ y >= Turn /\ Turn = DEFAULT_TIMESLICE + 1 /\ DEFAULT_TIMESLICE \in Nat
    BY <2>3, TurnFacts
  <2>5. TicksLeft(p) = y - Spent(run_time)
    BY <2>2, TicksNow
  <2>6. Spent(run_time) \in 0..DEFAULT_TIMESLICE
    <3>1. run_time \in 0..(DEFAULT_TIMESLICE + 1)
      BY DEF Inv, ContextFields
    <3>2. run_time \in Nat
      BY <2>4, <3>1
    <3> QED
      BY <3>2, TurnFacts
  <2> HIDE DEF y
  <2> QED
    BY <2>4, <2>5, <2>6
<1> QED
  BY <1>1, <1>2 DEF Waiting

LEMMA NextShortens ==
  ASSUME Inv, Inv', [Next]_vars, NEW p \in Procs, Waiting(p), ~ clock_handler
  PROVE  \/ state'[p] = PROCESS_RUNNING
         \/ Waiting(p)' /\ TicksLeft(p)' <= TicksLeft(p)
<1>1. ASSUME UNCHANGED <<state, queue, run_time, delay_ticks>>
      PROVE  Waiting(p)' /\ TicksLeft(p)' <= TicksLeft(p)
  <2>1. Ready' = Ready \o <<>> /\ <<>> \in Seq(Procs)
    <3>1. Ready \in Seq(Procs) /\ Ready' = Ready
      BY <1>1 DEF Inv, SchedInv, Disciplined, Ready, Queued
    <3> QED
      BY <3>1, ConcatEmptySeq
  <2> QED
    BY <1>1, <2>1, ReturnKeeps, ReadyOnceNext
<1>2. CASE SysFork
  <2>1. CASE \E child \in Procs : ForkChild(child)
    BY <2>1, ForkKeeps
  <2>2. CASE ForkNoMemory
    BY <1>1, <2>2 DEF ForkNoMemory, Faults
  <2>3. CASE ForkAsChild
    BY <1>1, <2>3 DEF ForkAsChild, Return
  <2> QED
    BY <1>2, <2>1, <2>2, <2>3 DEF SysFork
<1>3. CASE SysWait
  <2>1. CASE WaitNoChildren
    BY <1>1, <2>1 DEF WaitNoChildren, Return
  <2>2. CASE \E z \in Procs : WaitReaps(z)
    BY <2>2, ReapKeeps
  <2>3. CASE WaitBlocks
    <3>1. PICK h, regs, kst : schedule(AddTo(SetState(System, current, PROCESS_DEFAULT),
                                             PROCESS_BLOCKED, current), h, regs, kst)
      BY <2>3 DEF WaitBlocks
    <3>2. current # Idle /\ PROCESS_BLOCKED \in Queued /\ delay_ticks' = delay_ticks
      BY <2>3 DEF WaitBlocks, InUser, Queued
    <3> QED
      BY <3>1, <3>2, LeaveShortens
  <2> QED
    BY <1>3, <2>1, <2>2, <2>3 DEF SysWait
<1>4. CASE SysDelay
  <2>1. CASE DelayReturns
    BY <1>1, <2>1 DEF DelayReturns, Return
  <2>2. CASE \E delay \in 0..MaxDelay : Delays(delay)
    <3>1. PICK delay \in 0..MaxDelay : Delays(delay)
      BY <2>2
    <3>2. PICK regs : schedule(AddTo(SetState(System, current, PROCESS_DEFAULT),
                                     PROCESS_DELAYED, current), "delay", regs, kstatus)
      BY <3>1 DEF Delays
    <3>3. current # Idle /\ PROCESS_DELAYED \in Queued
      BY <3>1 DEF Delays, InUser, Queued
    <3>4. delay_ticks'[p] = delay_ticks[p]
      <4>1. p # current
        BY CurrentLives DEF Waiting
      <4> QED
        BY <3>1, <4>1 DEF Delays, Inv, PcbFields
    <3> QED
      BY <3>2, <3>3, <3>4, LeaveShortens
  <2> QED
    BY <1>4, <2>1, <2>2 DEF SysDelay
<1>5. CASE illegal_handler \/ math_handler \/ \E status \in Statuses : SysExit(status)
  BY <1>5, ExitShortens DEF illegal_handler, math_handler
<1>6. CASE ExitFaults
  BY <1>1, <1>6 DEF ExitFaults, Faults
<1>7. CASE UNCHANGED vars
  BY <1>1, <1>7 DEF vars
<1> QED
  BY <1>2, <1>3, <1>4, <1>5, <1>6, <1>7 DEF Next

(* A process that is ready or in Delay is a bounded number of clock ticks   *)
(* from running: clock_handler brings it nearer, a time slice is at most    *)
(* DEFAULT_TIMESLICE ticks, and no system call puts it further back.        *)
THEOREM WaitIsBounded == Spec => BoundedWait
<1>1. ASSUME Inv, Inv', [Next]_vars, NEW p \in Procs, Waiting(p)
      PROVE  TicksLeft(p) > 0 /\ WaitShortens(p)
  <2>1. TicksLeft(p) \in Nat \ {0}
    BY <1>1, TicksPositive
  <2>2. CASE clock_handler
    <3>1. \/ state'[p] = PROCESS_RUNNING
          \/ Waiting(p)' /\ TicksLeft(p)' < TicksLeft(p)
      BY <1>1, <2>2, ClockShortens
    <3> QED
      BY <2>1, <2>2, <3>1 DEF WaitShortens
  <2>3. CASE ~ clock_handler
    <3>1. \/ state'[p] = PROCESS_RUNNING
          \/ Waiting(p)' /\ TicksLeft(p)' <= TicksLeft(p)
      BY <1>1, <2>3, NextShortens
    <3> QED
      BY <2>1, <2>3, <3>1 DEF WaitShortens
  <2> QED
    BY <2>2, <2>3
<1>2. ASSUME Inv, Relinked', [Next]_vars, NEW p \in Procs, Waiting(p)
      PROVE  TicksLeft(p) > 0 /\ WaitShortens(p)
  <2>1. TicksLeft(p) \in Nat \ {0}
    BY <1>2, TicksPositive
  <2>2. PICK child \in Procs : ForkChild(child)
    BY <1>2, RelinkingStep DEF Relinked
  <2>3. Waiting(p)' /\ TicksLeft(p)' <= TicksLeft(p)
    BY <1>2, <2>2, ForkKeeps
  <2>4. ~ clock_handler
    BY <1>2, RelinkingStep DEF Relinked
  <2> QED
    BY <2>1, <2>3, <2>4 DEF WaitShortens
<1>3. Ind /\ Ind' /\ [Next]_vars =>
        [\A p \in Procs : Waiting(p) => TicksLeft(p) > 0 /\ WaitShortens(p)]_vars
  BY <1>1, <1>2, RelinkedStays DEF Ind
<1> QED
  BY <1>3, Always, PTL DEF Spec, BoundedWait
=============================================================================
