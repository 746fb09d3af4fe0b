-------------------------------- MODULE Sched --------------------------------
(***************************************************************************)
(* What the kernel's scheduling comes to, without PCB fields, parents and  *)
(* tick counts: who runs, who is ready in which order, who is delayed.     *)
(* Process implements it (there the ready list is ready_queue, and so on); *)
(* Sync and Pipe put their wait lists next to it.                          *)
(***************************************************************************)
EXTENDS SequencesExt, Integers

CONSTANTS Procs, Idle   \* the PCBs; idle_process

VARIABLES current, state, ready, delayed

sched == <<current, state, ready, delayed>>

(* The states of processes when p runs and the sequence r is ready. *)
States(p, r) == [q \in Procs |-> IF q = p THEN "RUNNING"
                                 ELSE IF q \in ToSet(r) THEN "READY" ELSE "DEFAULT"]

(* Idle runs, and the first user process is ready. *)
SchedInit ==
  /\ current = Idle
  /\ \E init \in Procs \ {Idle} : ready = <<init>>
  /\ state = States(Idle, ready)
  /\ delayed = {}

(* The first user process has forked the others and runs. *)
AllForked ==
  /\ current \in Procs \ {Idle}
  /\ ready \in SetToSeqs(Procs \ {Idle, current})
  /\ state = States(current, ready)
  /\ delayed = {}

(* schedule and KCSwitch, from the ready list r and the states st. *)
schedule(r, st) ==
  LET next == IF r = <<>> THEN Idle ELSE Head(r) IN
  /\ current' = next
  /\ state' = [st EXCEPT ![next] = "RUNNING"]
  /\ ready' = IF r = <<>> THEN r ELSE Tail(r)

(* The current process becomes s: delayed, waiting for a child or dead. *)
Leaves(s) == schedule(ready, [state EXCEPT ![current] = s])

Delay == Leaves("DELAYED") /\ delayed' = delayed \cup {current}

Wait == Leaves("BLOCKED") /\ UNCHANGED delayed

Exit == Leaves("ZOMBIE") /\ UNCHANGED delayed

(* An exit that a parent waits for: the parent is blocked, or was lost. *)
ExitTo(par) ==
  /\ state[par] \in {"BLOCKED", "DEFAULT"}
  /\ schedule(Append(ready, par), [state EXCEPT ![current] = "DEFAULT", ![par] = "READY"])
  /\ UNCHANGED delayed

(* A new PCB, or one that was freed, perhaps as a zombie nobody waited for. *)
Fork(child) ==
  /\ state[child] \in {"DEFAULT", "ZOMBIE"}
  /\ state' = [state EXCEPT ![child] = "READY"]
  /\ ready' = Append(ready, child)
  /\ UNCHANGED <<current, delayed>>

Reap(z) == /\ state[z] = "ZOMBIE"
           /\ state' = [state EXCEPT ![z] = "DEFAULT"]
           /\ UNCHANGED <<current, ready, delayed>>

(* The clock: some of the delayed become ready, in some order; a process    *)
(* out of its slice is switched out if another is ready, into no list.      *)
Tick ==
  \E W \in SUBSET delayed : \E w \in SetToSeqs(W) :
    LET r == ready \o w
        st == [p \in Procs |-> IF p \in W THEN "READY" ELSE state[p]]
    IN /\ delayed' = delayed \ W
       /\ \/ r # <<>> /\ schedule(r, [st EXCEPT ![current] = "DEFAULT"])
          \/ ready' = r /\ state' = st /\ UNCHANGED current

SchedNext == \/ Tick
             \/ current # Idle /\ ( \/ Delay \/ Wait \/ Exit
                                    \/ \E p \in Procs : ExitTo(p) \/ Fork(p) \/ Reap(p) )

Spec == SchedInit /\ [][SchedNext]_sched
-----------------------------------------------------------------------------
(* What a line may do: it is joined at its end, and only its head leaves.   *)
Joined(line, new) == IsPrefix(line, new)
HeadLeaves(line, new) == line # <<>> /\ IsPrefix(Tail(line), new)

(* Nobody in the ready list is overtaken or forgotten: who leaves it is the *)
(* first, and runs.                                                         *)
ReadyInLine ==
  \/ Joined(ready, ready')
  \/ HeadLeaves(ready, ready') /\ current' = Head(ready)
=============================================================================
