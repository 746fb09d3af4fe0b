------------------------------- MODULE Process -------------------------------
(***************************************************************************)
(* Processes and scheduling: the PCB queues (pcb.c), the process system    *)
(* calls and schedule (syscalls.c), the clock, illegal and math traps      *)
(* (traps.c), the context switch (context_switch.c) and the boot           *)
(* (kernel.c).  A trap handler runs with interrupts off from the trap to   *)
(* the return to user mode, so a handler is one step; a handler that calls *)
(* schedule ends with the tail of the handler in which the process it      *)
(* switches to was suspended (resume).                                     *)
(*                                                                         *)
(* A PCB stands for its process and its pid.  A freed PCB keeps its        *)
(* contents until malloc hands it out again, to the next Fork; it is not   *)
(* handed out as anything else.                                            *)
(***************************************************************************)
EXTENDS SequencesExt, Integers

CONSTANTS Procs,              \* the PCBs the kernel heap has room for
          Idle, Init1,        \* idle_process and the first user process
          NULL,
          DEFAULT_TIMESLICE,  \* pcb.h
          Statuses, ERROR,    \* exit statuses; ERROR is one
          MaxDelay            \* bound on the argument of Delay

ASSUME ProcessAssumption ==
  /\ IsFiniteSet(Procs) /\ Idle \in Procs /\ Init1 \in Procs /\ Idle # Init1
  /\ NULL \notin Procs
  /\ Procs \cap {"0", "ERROR", "kstatus", "user"} = {}   \* see RegValue
  /\ DEFAULT_TIMESLICE \in Nat \ {0}
  /\ ERROR \in Statuses
  /\ MaxDelay \in Nat

\* state_t
PROCESS_DEFAULT == "DEFAULT"
PROCESS_RUNNING == "RUNNING"
PROCESS_READY   == "READY"
PROCESS_DELAYED == "DELAYED"
PROCESS_BLOCKED == "BLOCKED"
PROCESS_ZOMBIE  == "ZOMBIE"

\* The states that have a queue: ready_queue, delay_queue, blocked_queue, zombie_queue.
Queued == {PROCESS_READY, PROCESS_DELAYED, PROCESS_BLOCKED, PROCESS_ZOMBIE}
State  == Queued \cup {PROCESS_DEFAULT, PROCESS_RUNNING}

VARIABLES
  current,    \* current_process
  state,      \* pcb.state
  queue,      \* the four queues, by the state of their members
  parent,     \* pcb.parent
  children,   \* pcb.children
  waiting_for_children, delay_ticks, exit_code, should_fork,  \* pcb fields
  run_time,   \* current_process->run_time; a switch sets it to 0
  reg0,       \* regs[0] of the saved (for current: the live) user context
  kstatus,    \* the int SysWait's kstatus_ptr points to
  resume,     \* the handler a descheduled process is suspended in
  heap,       \* PCB: "unused", "live" (malloc'ed) or "freed"
  fault,      \* the bad pointer the kernel wrote through, "relinked", or "none"
  collected   \* history: what Wait has returned, until the child's PCB is a new one's

vars == <<current, state, queue, parent, children, waiting_for_children,
          delay_ticks, exit_code, should_fork, run_time, reg0, kstatus,
          resume, heap, fault, collected>>

\* Values of regs[0] that are not a pid; ZERO is also the NULL pointer.
ZERO == "0"
RegValue == Procs \cup {ZERO, "ERROR", "kstatus", "user"}

(* What add_to_* and remove_from_* work on. *)
System == [state |-> state, queue |-> queue]

\* Mutant of AddTo: no test of the state.
AddToUnchecked(S, s, p) ==
  [state |-> [S.state EXCEPT ![p] = s],
   queue |-> [S.queue EXCEPT ![s] = Append(@, p)]]

AddTo(S, s, p) ==
  IF S.state[p] # PROCESS_DEFAULT THEN S
  ELSE [state |-> [S.state EXCEPT ![p] = s],
        queue |-> [S.queue EXCEPT ![s] = Append(@, p)]]

RemoveFrom(S, s, p) ==
  IF S.state[p] # s THEN S
  ELSE [state |-> [S.state EXCEPT ![p] = PROCESS_DEFAULT],
        queue |-> [S.queue EXCEPT ![s] = RemoveFirst(@, p)]]

(* The handlers set the state of a process directly, too. *)
\* Mutant of SetState: the assignment is forgotten.
SetStateForgotten(S, p, s) == S

SetState(S, p, s) == [S EXCEPT !.state[p] = s]

(* The sequences that list exactly the members of A in the order of s. *)
InOrder(A, s) ==
  { t \in UNION {[1..n -> A] : n \in 0..Len(s)} :
      /\ \A p \in A : \E i \in 1..Len(t) : t[i] = p
      /\ \A i, j \in 1..Len(t) : i < j =>
            \E k, m \in 1..Len(s) : k < m /\ s[k] = t[i] /\ s[m] = t[j] }

\* Mutant of time_slice: switched out one tick late.
time_sliceLate(p) == IF p = Idle THEN 2 ELSE DEFAULT_TIMESLICE + 1

time_slice(p) == IF p = Idle THEN 1 ELSE DEFAULT_TIMESLICE

(* KernelStart: idle runs, init is the only ready process. *)
Init ==
  /\ current = Idle
  /\ state = [p \in Procs |-> CASE p = Idle -> PROCESS_RUNNING
                                [] p = Init1 -> PROCESS_READY
                                [] OTHER -> PROCESS_DEFAULT]
  /\ queue = [s \in Queued |-> IF s = PROCESS_READY THEN <<Init1>> ELSE <<>>]
  /\ parent = [p \in Procs |-> NULL]
  /\ children = [p \in Procs |-> <<>>]
  /\ waiting_for_children = [p \in Procs |-> FALSE]
  /\ delay_ticks = [p \in Procs |-> 0]
  /\ exit_code = [p \in Procs |-> NULL]
  /\ should_fork = [p \in Procs |-> TRUE]
  /\ run_time = 0
  /\ reg0 = [p \in Procs |-> ZERO]
  /\ kstatus = [p \in Procs |-> NULL]
  /\ resume = [p \in Procs |-> IF p = Init1 THEN "boot" ELSE "none"]
  /\ heap = [p \in Procs |-> IF p \in {Idle, Init1} THEN "live" ELSE "unused"]
  /\ fault = "none"
  /\ collected = {}

(* schedule and KCSwitch from S, the running process suspended in handler h *)
(* with the registers regs; then the rest of the handler the next process   *)
(* was suspended in.  SysWait's copies the status; a forked child is in     *)
(* SysFork, whose tail gives it its own pid.                                *)
\* Mutant of NextProcess: with nothing ready, the same process goes on.
NextProcessStays(S) == IF S.queue[PROCESS_READY] = <<>> THEN current
                       ELSE Head(S.queue[PROCESS_READY])

NextProcess(S) == IF S.queue[PROCESS_READY] = <<>> THEN Idle
                  ELSE Head(S.queue[PROCESS_READY])

schedule(S, h, regs, kst) ==
  LET next == NextProcess(S) IN
  /\ current' = next
  /\ state' = [S.state EXCEPT ![next] = PROCESS_RUNNING]
  /\ queue' = IF S.queue[PROCESS_READY] = <<>> THEN S.queue
              ELSE [S.queue EXCEPT ![PROCESS_READY] = Tail(@)]
  /\ run_time' = 0
  /\ resume' = [resume EXCEPT ![current] = h, ![next] = "none"]
  /\ reg0' = [regs EXCEPT ![next] = IF resume[next] = "fork" THEN next ELSE @]
  /\ kstatus' = kst
  /\ collected' = IF resume[next] = "wait"
                  THEN collected \cup {[by |-> next, child |-> regs[next],
                                        status |-> kst[next]]}
                  ELSE collected
  /\ fault' = IF resume[next] = "wait to NULL" THEN "NULL status_ptr" ELSE fault

(* A user process traps.  DoIdle makes no system call. *)
InUser == fault = "none" /\ current # Idle

(* The kernel writes through a bad pointer: nothing runs after that.        *)
Faults(f) == /\ fault' = f
             /\ UNCHANGED <<current, state, queue, parent, children,
                  waiting_for_children, delay_ticks, exit_code, should_fork,
                  run_time, reg0, kstatus, resume, heap, collected>>

Return(v) == /\ reg0' = [reg0 EXCEPT ![current] = v]
             /\ UNCHANGED <<current, run_time, kstatus, resume>>

(* A node of the PCB is linked: its queue_node in a queue, its              *)
(* children_node in a list of children.                                     *)
Linked(p) == \/ \E s \in Queued : p \in ToSet(queue[s])
             \/ \E q \in Procs : p \in ToSet(children[q])

(* SysFork; the child of an earlier Fork only spends its should_fork flag.  *)
(* malloc may give create_pcb a PCB that was freed while a node of it was   *)
(* linked: Fork links that node a second time and breaks both lists.  The   *)
(* kernel goes on with them, and is not followed there.                     *)
(* create_pcb's NULL is not checked: child_pcb->should_fork faults.         *)
ForkChild(child) ==
  LET S == AddTo(SetState(System, child, PROCESS_DEFAULT), PROCESS_READY, child) IN
  /\ InUser /\ should_fork[current]
  /\ heap[child] # "live"
  /\ heap' = [heap EXCEPT ![child] = "live"]
  /\ parent' = [parent EXCEPT ![child] = current]
  /\ children' = [children EXCEPT ![child] = <<>>, ![current] = Append(@, child)]
  /\ waiting_for_children' = [waiting_for_children EXCEPT ![child] = FALSE]
  /\ delay_ticks' = [delay_ticks EXCEPT ![child] = 0]
  /\ exit_code' = [exit_code EXCEPT ![child] = NULL]
  /\ should_fork' = [should_fork EXCEPT ![child] = FALSE]
  /\ state' = S.state /\ queue' = S.queue
  /\ current' = current /\ reg0' = [reg0 EXCEPT ![current] = child, ![child] = reg0[current]]
  /\ resume' = [resume EXCEPT ![child] = "fork"]
  /\ fault' = IF Linked(child) THEN "relinked" ELSE fault
  /\ collected' = {r \in collected : r.child # child}
  /\ UNCHANGED <<run_time, kstatus>>

ForkNoMemory == /\ InUser /\ should_fork[current]
                /\ Faults("NULL child_pcb")

ForkAsChild == /\ InUser /\ ~ should_fork[current]
               /\ should_fork' = [should_fork EXCEPT ![current] = TRUE]
               /\ Return(ZERO)
               /\ UNCHANGED <<state, queue, parent, children, waiting_for_children,
                              delay_ticks, exit_code, heap, fault, collected>>

SysFork == (\E child \in Procs : ForkChild(child)) \/ ForkNoMemory \/ ForkAsChild

(* terminate_process and schedule.  Zombie children are freed where they    *)
(* are, in zombie_queue; the others become orphans.  A parent whose         *)
(* waiting_for_children is set gets the status and the pid through its      *)
(* saved regs[0], and the PCB is freed at once.                             *)
Freed(q) == q \in ToSet(children[current]) /\ state[q] = PROCESS_ZOMBIE

\* Mutant of Orphaned: the children keep the pointer.
OrphanedNot == parent

Orphaned == [q \in Procs |-> IF q \in ToSet(children[current]) /\ ~ Freed(q)
                             THEN NULL ELSE parent[q]]

Wakes == parent[current] # NULL /\ waiting_for_children[parent[current]]

SysExit(status) ==
  LET p == current
      par == parent[p]
      S == SetState(System, p, PROCESS_DEFAULT)
  IN /\ InUser
     /\ Wakes => reg0[par] \in {ZERO, "kstatus"}
     /\ exit_code' = [exit_code EXCEPT ![p] = status]
     /\ children' = [children EXCEPT ![p] = <<>>]
     /\ parent' = Orphaned
     /\ heap' = [q \in Procs |-> IF Freed(q) \/ (q = p /\ Wakes) THEN "freed"
                                 ELSE heap[q]]
     /\ IF Wakes
        THEN schedule(AddTo(RemoveFrom(S, PROCESS_BLOCKED, par), PROCESS_READY, par),
                      "dead", [reg0 EXCEPT ![par] = p],
                      IF reg0[par] = "kstatus"
                      THEN [kstatus EXCEPT ![par] = status] ELSE kstatus)
        ELSE schedule(AddTo(S, PROCESS_ZOMBIE, p), "dead", reg0, kstatus)
     /\ UNCHANGED <<waiting_for_children, delay_ticks, should_fork>>

(* The parent is no longer in Wait: its regs[0] is not a status pointer.    *)
ExitFaults == /\ InUser
              /\ Wakes /\ reg0[parent[current]] \notin {ZERO, "kstatus"}
              /\ Faults("stale status_ptr")

(* Abort: Exit(ERROR). *)
illegal_handler == SysExit(ERROR)
math_handler == SysExit(ERROR)

(* find_zombie_child's choice: the first child in state ZOMBIE. *)
\* Mutant of FirstZombie: only the oldest child is looked at.
FirstZombieOldest(p, z) ==
  /\ children[p] # <<>> /\ children[p][1] = z
  /\ state[z] = PROCESS_ZOMBIE

FirstZombie(p, z) ==
  \E i \in 1..Len(children[p]) :
     /\ children[p][i] = z
     /\ state[z] = PROCESS_ZOMBIE
     /\ \A j \in 1..(i - 1) : state[children[p][j]] # PROCESS_ZOMBIE

WaitNoChildren == /\ InUser
                  /\ children[current] = <<>>
                  /\ Return("ERROR")
                  /\ UNCHANGED <<state, queue, parent, children, waiting_for_children,
                       delay_ticks, exit_code, should_fork, heap, fault, collected>>

\* Mutant of WaitReaps: the zombie is not taken out of zombie_queue.
WaitReapsLinked(z) ==
  /\ InUser
  /\ FirstZombie(current, z)
  /\ heap' = [heap EXCEPT ![z] = "freed"]
  /\ collected' = collected \cup {[by |-> current, child |-> z, status |-> exit_code[z]]}
  /\ Return(z)
  /\ UNCHANGED <<state, queue, parent, children, waiting_for_children, delay_ticks,
                 exit_code, should_fork, fault>>

(* The child is freed but stays in the list of children. *)
WaitReaps(z) ==
  LET S == RemoveFrom(System, PROCESS_ZOMBIE, z) IN
  /\ InUser
  /\ FirstZombie(current, z)
  /\ state' = S.state /\ queue' = S.queue
  /\ heap' = [heap EXCEPT ![z] = "freed"]
  /\ collected' = collected \cup {[by |-> current, child |-> z, status |-> exit_code[z]]}
  /\ Return(z)
  /\ UNCHANGED <<parent, children, waiting_for_children, delay_ticks, exit_code,
                 should_fork, fault>>

(* status_ptr is NULL or not; malloc gives a kstatus_ptr or NULL.           *)
WaitBlocks ==
  /\ InUser
  /\ children[current] # <<>>
  /\ ~ \E z \in Procs : FirstZombie(current, z)
  /\ waiting_for_children' = [waiting_for_children EXCEPT ![current] = TRUE]
  /\ \E status_ptr \in {NULL, "user"}, kstatus_ptr \in {ZERO, "kstatus"} :
       schedule(AddTo(SetState(System, current, PROCESS_DEFAULT), PROCESS_BLOCKED, current),
                IF status_ptr = NULL \/ kstatus_ptr = ZERO THEN "wait to NULL" ELSE "wait",
                [reg0 EXCEPT ![current] = kstatus_ptr],
                [kstatus EXCEPT ![current] = NULL])
  /\ UNCHANGED <<parent, children, delay_ticks, exit_code, should_fork, heap>>

SysWait == WaitNoChildren \/ (\E z \in Procs : WaitReaps(z)) \/ WaitBlocks

DelayReturns == /\ InUser
                /\ \E v \in {ZERO, "ERROR"} : Return(v)
                /\ UNCHANGED <<state, queue, parent, children, waiting_for_children,
                     delay_ticks, exit_code, should_fork, heap, fault, collected>>

\* Mutant of Delays: 0 is delayed as well.
DelaysZero(delay) ==
  /\ InUser
  /\ delay_ticks' = [delay_ticks EXCEPT ![current] = delay]
  /\ schedule(AddTo(SetState(System, current, PROCESS_DEFAULT), PROCESS_DELAYED, current),
              "delay", [reg0 EXCEPT ![current] = ZERO], kstatus)
  /\ UNCHANGED <<parent, children, waiting_for_children, exit_code, should_fork, heap>>

Delays(delay) ==
  /\ InUser
  /\ delay > 0
  /\ delay_ticks' = [delay_ticks EXCEPT ![current] = delay]
  /\ schedule(AddTo(SetState(System, current, PROCESS_DEFAULT), PROCESS_DELAYED, current),
              "delay", [reg0 EXCEPT ![current] = ZERO], kstatus)
  /\ UNCHANGED <<parent, children, waiting_for_children, exit_code, should_fork, heap>>

(* A negative delay is an error, 0 returns at once. *)
SysDelay == DelayReturns \/ \E delay \in 0..MaxDelay : Delays(delay)

(* update_delayed_processes, then the time slice.  A process that has used  *)
(* it up is switched out, in no queue.  run_time stops counting where the   *)
(* comparison no longer changes.                                            *)
Delayed == ToSet(queue[PROCESS_DELAYED])

\* Mutant of Updated: the woken go to the head of ready_queue.
UpdatedAtHead(rest, woken) ==
  [state |-> [p \in Procs |-> IF p \in ToSet(woken) THEN PROCESS_READY ELSE state[p]],
   queue |-> [queue EXCEPT ![PROCESS_DELAYED] = rest, ![PROCESS_READY] = woken \o @]]

Updated(rest, woken) ==
  [state |-> [p \in Procs |-> IF p \in ToSet(woken) THEN PROCESS_READY ELSE state[p]],
   queue |-> [queue EXCEPT ![PROCESS_DELAYED] = rest, ![PROCESS_READY] = @ \o woken]]

clock_handler ==
  /\ fault = "none"
  /\ delay_ticks' = [p \in Procs |-> IF p \in Delayed THEN delay_ticks[p] - 1
                                     ELSE delay_ticks[p]]
  /\ \E rest \in InOrder({p \in Delayed : delay_ticks[p] # 1}, queue[PROCESS_DELAYED]),
        woken \in InOrder({p \in Delayed : delay_ticks[p] = 1}, queue[PROCESS_DELAYED]) :
       LET S == Updated(rest, woken)
           over == run_time + 1 > time_slice(current)
       IN \/ /\ over /\ S.queue[PROCESS_READY] # <<>>
             /\ \E r \in {ZERO, "user"} :
                  schedule(SetState(S, current, PROCESS_DEFAULT), "clock",
                           [reg0 EXCEPT ![current] = r], kstatus)
          \/ /\ ~ (over /\ S.queue[PROCESS_READY] # <<>>)
             /\ state' = S.state /\ queue' = S.queue
             /\ run_time' = IF over THEN time_slice(current) + 1 ELSE run_time + 1
             /\ UNCHANGED <<current, resume, reg0, kstatus, collected, fault>>
  /\ UNCHANGED <<parent, children, waiting_for_children, exit_code, should_fork, heap>>

Next == \/ SysFork \/ SysWait \/ SysDelay \/ clock_handler
        \/ illegal_handler \/ math_handler \/ ExitFaults
        \/ \E status \in Statuses : SysExit(status)

(* The clock interrupts forever, whatever the processes do. *)
Spec == Init /\ [][Next]_vars /\ WF_vars(clock_handler)
-----------------------------------------------------------------------------
Members(s) == ToSet(queue[s])

Exited(p) == heap[p] = "freed" \/ state[p] = PROCESS_ZOMBIE

TypeOK ==
  /\ current \in Procs
  /\ state \in [Procs -> State]
  /\ queue \in [Queued -> Seq(Procs)]
  /\ parent \in [Procs -> Procs \cup {NULL}]
  /\ children \in [Procs -> Seq(Procs)]
  /\ waiting_for_children \in [Procs -> BOOLEAN]
  /\ delay_ticks \in [Procs -> 0..MaxDelay]
  /\ exit_code \in [Procs -> Statuses \cup {NULL}]
  /\ should_fork \in [Procs -> BOOLEAN]
  /\ run_time \in 0..(DEFAULT_TIMESLICE + 1)
  /\ reg0 \in [Procs -> RegValue]
  /\ kstatus \in [Procs -> Statuses \cup {NULL}]
  /\ resume \in [Procs -> {"none", "boot", "fork", "wait", "wait to NULL",
                           "delay", "clock", "dead"}]
  /\ heap \in [Procs -> {"unused", "live", "freed"}]
  /\ fault \in {"none", "relinked", "NULL child_pcb", "NULL status_ptr", "stale status_ptr"}
  /\ collected \subseteq [by : Procs, child : Procs, status : Statuses]

(* The state field says which queue a PCB is linked in, and it is linked    *)
(* once: what add_to_*_queue and remove_from_*_queue rely on when they test *)
(* the state before they touch queue_node.                                  *)
LinkedOnce ==
  /\ \A s \in Queued : \A p \in Procs :
        state[p] = s <=> \E i \in 1..Len(queue[s]) : queue[s][i] = p
  /\ \A s \in Queued : \A i, j \in 1..Len(queue[s]) :
        queue[s][i] = queue[s][j] => i = j

(* No handler breaks that but a Fork that is handed a PCB which was freed   *)
(* in zombie_queue.                                                         *)
QueueDiscipline == fault # "relinked" => LinkedOnce

(* Exactly the current process is in state RUNNING, through every switch    *)
(* and every resumption of a suspended handler.                             *)
OneRunning == \A p \in Procs : state[p] = PROCESS_RUNNING <=> p = current

(* terminate_process frees the memory a process runs on before it is done   *)
(* scheduling: a process that exited must never be the next one, and must   *)
(* never be made ready by a clock tick or a child's exit.                   *)
ExitedNeverRuns == \A p \in Procs : Exited(p) =>
                      /\ p # current
                      /\ state[p] \notin {PROCESS_READY, PROCESS_DELAYED, PROCESS_BLOCKED}

(* terminate_process follows process->parent without a check: the parent of *)
(* a process that has not exited is a PCB that was not freed, of a process  *)
(* that has not exited and knows the child.                                 *)
ParentAlive ==
  \A p \in Procs : heap[p] = "live" /\ parent[p] # NULL =>
     /\ heap[parent[p]] = "live"
     /\ state[parent[p]] # PROCESS_ZOMBIE
     /\ p \in ToSet(children[parent[p]])

(* No wake-up is lost between find_zombie_child and terminate_process: a    *)
(* process blocked in Wait has no zombie child, that it lists or that has   *)
(* it for a parent.  Until a PCB is handed out again that is still in a     *)
(* list of children: the child in it may then be orphaned by the exit of    *)
(* another process, and its own exit wakes nobody.                          *)
NoLostWakeup ==
  fault # "relinked" =>
    \A p \in Procs : state[p] = PROCESS_BLOCKED =>
      /\ waiting_for_children[p]
      /\ \A c \in Procs : c \in ToSet(children[p]) \/ (heap[c] = "live" /\ parent[c] = p)
                           => state[c] # PROCESS_ZOMBIE

(* What Wait returned, by either path, is the exit of a child of the        *)
(* caller, with the status it exited with; no other Wait has returned it    *)
(* and, as it is no ZOMBIE any more, none will until its PCB is a new       *)
(* process's.  Nobody else's list of children has that PCB in it then: it   *)
(* is no other caller's to find.                                            *)
WaitExact ==
  fault # "relinked" =>
    /\ \A r \in collected : /\ heap[r.child] = "freed"
                            /\ state[r.child] = PROCESS_DEFAULT
                            /\ parent[r.child] \in {r.by, NULL}
                            /\ r.status = exit_code[r.child]
    /\ \A r, t \in collected : r.child = t.child => r = t
    /\ \A p, q, c \in Procs :
         c \in ToSet(children[p]) /\ heap[c] = "live" /\ parent[c] = q => p = q

(* All of it comes to the scheduling of Sched, whatever the handlers do     *)
(* with parents, children, ticks and suspended handlers.                    *)
Scheduler == INSTANCE Sched WITH ready <- queue[PROCESS_READY], delayed <- Delayed
ImplementsSched == Scheduler!Spec

(* Whoever is in the ready queue is ahead of those who come later, through  *)
(* every call that adds to it and all that a clock tick wakes at once; with *)
(* a clock that ticks, that is why it runs again (RunsAgain).               *)
NoOvertaking == [][Scheduler!ReadyInLine]_(Scheduler!sched)

(* The clock ticks after which a process that is ready or in Delay runs, at *)
(* most: each of those before it keeps the processor for Turn ticks.        *)
Turn == DEFAULT_TIMESLICE + 1

Waiting(p) == state[p] \in {PROCESS_READY, PROCESS_DELAYED}

Place(p) == CHOOSE i \in 1..Len(queue[PROCESS_READY]) : queue[PROCESS_READY][i] = p

TicksLeft(p) ==
  IF state[p] = PROCESS_DELAYED
  THEN delay_ticks[p] + Cardinality(Procs) * Turn
  ELSE Place(p) * Turn - (IF run_time > DEFAULT_TIMESLICE THEN DEFAULT_TIMESLICE ELSE run_time)

(* A wait is bounded: no handler takes a process out of it but to run it or *)
(* makes it longer, and each clock tick makes it shorter.                   *)
WaitShortens(p) ==
  \/ state'[p] = PROCESS_RUNNING
  \/ /\ Waiting(p)'
     /\ IF clock_handler THEN TicksLeft(p)' < TicksLeft(p)
                         ELSE TicksLeft(p)' <= TicksLeft(p)

BoundedWait ==
  [][\A p \in Procs : Waiting(p) => TicksLeft(p) > 0 /\ WaitShortens(p)]_vars

(* A process that is ready or in Delay runs again, however the others       *)
(* compute, delay, fork and exit, unless the kernel faults first.           *)
RunsAgain == \A p \in Procs \ {Idle} :
  state[p] \in {PROCESS_READY, PROCESS_DELAYED}
     ~> (state[p] = PROCESS_RUNNING \/ fault # "none")

(* The next three, and LinkedOnce ("for any add_to_{}_queue call make sure  *)
(* the process is either (1) new or (2) had remove_from_{}_queue called on  *)
(* it", pcb.c), are what the comments of the source say, and do not hold.   *)

(* "current_process should already be put into a different queue at this    *)
(* point" (schedule): a process that has not exited runs or is in a queue.  *)
NobodyLost == \A p \in Procs \ {Idle} :
  heap[p] = "live" => p = current \/ state[p] \in Queued

(* "Check to see if the process has any children. If not return an error"   *)
(* (SysWait): whoever is blocked in Wait has a child that can still exit.   *)
BlockedCanWake == \A p \in Procs :
  state[p] = PROCESS_BLOCKED => \E c \in ToSet(children[p]) : ~ Exited(c)

(* "Set return to 0 for when the process is done delaying" (SysDelay).      *)
DelayReturnsZero == \A p \in Procs : resume[p] = "delay" => reg0[p] = ZERO
=============================================================================
