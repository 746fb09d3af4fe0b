# The Yalnix kernel: models, checks and proofs

TLA+ modules for the kernel in `src/`: a single-processor teaching kernel with
processes, a round-robin scheduler, locks, condition variables and pipes. Every
definition is translated from the code; `PROJECT.json` names the lines (`map`).

To repeat: `tlc -config MCProcess.cfg MCProcess` for a run, `tlapm
ProcessProofs.tla` for the proofs of a module.

## The system

| part | code | state it keeps | operations | how it interacts |
|---|---|---|---|---|
| lists | `list.c` | circular chain with a sentinel and a count, nodes inside the PCBs | insert at both ends, remove, pop, peek, contains, clear | every queue, children list and wait list below |
| process queues | `pcb.c` | ready, delay, blocked and zombie queue; a PCB's `state` | `add_to_*`, `remove_from_*`, `update_delayed_processes` | one `queue_node` per PCB: a PCB is in one queue |
| processes | `syscalls.c`, `pcb.c` | parent, children, exit code, `waiting_for_children`, saved contexts | Fork, Exit, Wait, Delay, GetPID | Exit finds the waiting parent through `parent`; Wait finds zombies through `children` |
| scheduler | `syscalls.c:schedule`, `context_switch.c`, `traps.c` | `current_process`, `run_time` | the clock trap, `schedule`, `KCSwitch`, `KCCopy` | a descheduled process is suspended in the middle of the handler that called `schedule` |
| locks, cvars, ids | `sync.c` | `sync_table`, `id_used`, counter; owner and wait list of a lock | Init, Acquire, Release, Wait, Signal, Broadcast, Reclaim | wait lists use `queue_node` too; hand-over through the ready queue |
| pipes | `sync.c` | ring buffer, wait lists of readers and writers | Init, Read, Write, Reclaim, and the two drain loops, which call each other | requests in the PCB, buffers malloc'ed by the system call |
| frames, page tables | `frames.c`, `memory.c`, `context_switch.c`, `pcb.c` | frame bitmap, region 0 and region 1 tables, kernel stack frames, `kernel_brk` | allocate, free, `SetKernelBrk`, copy for Fork, free for Exit, `map_kernel_stack` | Brk, Exec, Fork, Exit and every `malloc` take frames from one bitmap |
| loading, Brk | `load_program.c`, `syscalls.c` | `brk`, the stack pointer | Exec, the first program, Brk | give an address space back and take another, page by page |
| terminals | `traps.c`, `syscalls.c` | - | comments without code | - |
| boot | `kernel.c`, `memory.c` | - | KernelStart | makes idle and init |

What is hard here. The kernel runs with interrupts off, so a handler is not
interrupted; but it may call `schedule` half-way, and then every other handler
may run before its second half does. A wake-up has to be exact between a
handler that looks and then blocks and another that looks and then wakes. One
`queue_node` serves every list, and the functions that move it are silent when
the state field is not what they expect. PCBs are freed while other PCBs still
point to them or a list still runs through them, and malloc may hand them out
again. The hazards are listed, each at its line, in `PROJECT.json`.

What makes each part correct:

- lists: pointers, back pointers and count always describe one sequence, and no
  node is in two lists;
- queues and scheduler: the state field agrees with the queues as long as no PCB is
  handed out that is still linked, exactly the current process is RUNNING, an exited process never runs, a ready or delayed
  one does again, after those that were ready before it, in a bounded number of ticks;
- processes: a parent pointer leads to a live parent; up to the same point, no wake-up
  is lost and Wait answers each exit once and with its status;
- locks: mutual exclusion, nobody waits for a lock that is free, waiters are served
  in turn, ids are exact; a `queue_node` gets into a second list only by a
  call of the waiter itself;
- pipes: bytes come out in the order they were put in, no reader is left in front of
  bytes, those who wait keep their places, the drain loops end;
- memory: a frame is mapped by one page, of one owner; the bitmap marks exactly
  the frames that somebody maps, and those the code leaks in two places (a
  SetKernelBrk that failed half-way, a Brk above region 1); the
  kernel's image and idle keep their frames, the pages below the kernel's break are
  mapped, and the kernel runs on the stack of the process that is current.

## The modules

| module | models | extends |
|---|---|---|
| `FifoLists` | what `list.h` promises: lists as sequences | |
| `List` | `list.c`, pointer by pointer; implements `FifoLists` | |
| `Sched` | the abstract scheduler: who runs, the ready list, who is delayed | |
| `Process` | `pcb.c`, Fork/Exit/Wait/Delay, the traps, the switch; implements `Sched` | |
| `Sync` | locks, cvars and ids | `Sched` |
| `Pipe` | one pipe and its system calls | `Sched` |
| `Frames` | what `frames.h` promises: a frame is free or one owner's | |
| `Memory` | the bitmap, the heap, address spaces and kernel stacks, through Fork, Brk, Exec, Exit and the switch; implements `Frames` | |
| `SeqLemmas` | facts about sequences the proofs share | |
| `SchedProofs` | what the scheduler's steps keep, for the components on it | `Sched`, `SeqLemmas` |
| `ListProofs`, `ProcessProofs`, `SyncProofs`, `PipeProofs`, `MemoryProofs` | theorems about a module each | that module |
| `FamilyProofs` | parents, children and Wait; that `Process` implements `Sched`; the order and length of waiting | `ProcessProofs` |
| `MCList`, `MCProcess`, `MCSync`, `MCPipe`, `MCMemory` | the small instances | |

**List.** `next`, `prev` and `count` are the fields of the C structures, over
the addresses of nodes and sentinels. One action per function; `clear_list`
takes a step per turn of its loop. `q`, the sequence a list stands for, is a
history variable. A node no list has held has `Garbage` pointers, as `malloc`
leaves them, so `list_remove`'s sanity check is only met by a node that was
taken out before. The clients' discipline (insert a node that is in no list,
remove it from the list it is in) is a guard here. Whether the clients keep to it is
a question to them: `QueueDiscipline`, `LinkedOnce` and `OneList` of the modules below.

**Process.** One variable per PCB field that control depends on, one for the
four queues, and `resume`: the handler a process is suspended in. An action is
a whole handler: it ends with `schedule`, which is the switch *and* the tail of
the handler the next process was suspended in (the second half of Wait copies
the status; a forked child finishes SysFork with its own pid in `regs[0]`, as
KCCopy cloned it in the middle of that function). `System` bundles states and
queues so that `AddTo` and `RemoveFrom` compose in the order of the code's calls.
`heap` says which PCBs were malloc'ed and freed. A freed PCB keeps its contents,
so what the code still reads there is what the code left there, until Fork gets it
from malloc again, for which any PCB that is not in use will do. If it is still
linked by then (in `zombie_queue`, where Exit freed it, or in the children list of a
parent that reaped it), Fork's links break both lists. That step is in the
model, as the code takes it, with the fault `relinked`; what list.c does with broken
lists after it is not. `QueueDiscipline`, `NoLostWakeup` and `WaitExact` hold up to that step,
and the run `process_reuse` shows that there is such a step. Where the kernel writes through NULL or through a pointer
that is none any more (Fork without memory, a NULL status pointer, a stale
waiting flag) `fault` is set and nothing runs any more. Which order the clock
wakes delayed processes in is the order of the delay queue (`InOrder`), stated
as a set of sequences so that proofs need no recursion.

**Sched** keeps none of this: it is what `Process` comes to for a component that
only needs to be scheduled. `Process` implements it (`ImplementsSched`): the run
`process` shows it on an instance, the theorem `SchedRefined` proves it for any
number of processes. `Sync` and `Pipe` are built on it.

**Sync.** One action per outcome of a call. `SyncLockAcquire` answers
`PCB_BLOCKED`, `SysLockAcquire` tests for `PROCESS_BLOCKED`, so a waiter goes on
running with its `queue_node` in a wait list; the model follows it through the
call that links the node a second time, Delay, Exit or Acquire, and stops
there (`relinked`), as it does where a handler works on an object of the wrong
type or follows a NULL owner (`fault`). That such calls are the only way to link a
node twice is `LinkedByCaller`; that they happen is the run `sync_relinked`. An id that is in range and unused stands
for those out of range, too: `GetCheckSync` treats them the same.

**Pipe.** `buffer`, positions and count as in `pipe_t`; `loop` says which drain
function is running, and each turn of its loop is a step (the functions call
each other only as their last act, so there is no stack to keep). `stream` is
a history variable: the bytes put in and not yet taken. The bytes of a freed
kernel buffer are `Junk`. There is one id: `made` says whether a pipe has it.
SyncReclaim takes whoever waits out of the lists and makes nobody ready; what it
leaves in their PCBs is not read before it is written again, so a request's
fields are kept only while it waits. They are kept as they are when the caller of an
earlier write, still in line, writes again: `write_loc` is set by every write, so the
pending request moves, back or past its end. A call whose length is negative
is followed to where it faults (`NegativeRead`, `NegativeWrite`); one that links the
caller's node twice, as in `Sync`. A call on the id while no pipe has it
changes nothing (it loses its kernel buffer).

**Memory.** `used` is the bitmap and `pte` who maps what: for a process its
region 1 table and the frames of its kernel stack (`kernel_stack_frames`, at the
stack's pages), for `Kernel` region 0 below the stack. `kstack` is the part of
region 0 the switch rewrites. `kernel_brk` is an address: a page, and whether it lies
inside it, since SetKernelBrk rounds down; `brk` and `sp` are page numbers, Brk's
argument is the page its address is rounded up to. schedule saves the stack pointer the
process has by then, any of `UserSps`.
A handler is one step: no other runs in between, whatever it allocates.
`allocate_frame` takes the lowest free frame, so a loop of calls gives a known
set of pages a known set of frames and stops where the bitmap is full: Fork may
stop in the copy of the address space (`CopyPageTable` then stores ERROR as a
frame number and copies the page there) or at the kernel stack (the kernel
halts), Brk and SetKernelBrk with some of the pages, Exec with part of a
program. Three history variables say what the code leaves behind: `stale`, an Exec
has left a page valid whose frame it freed (`free_userspace` clears a copy of each
entry), `lost`, the frames a SetKernelBrk that failed had mapped and the next
call wrote over, and `past`, the frames a Brk above region 1 took for entries past the
end of `region1_pt`. Those writes go to whatever lies there, and the model ends with
them. A page that is left behind may come to share a frame with another
process; from there on what the machine does is not what its programs say, and
the model ends (`Sound`). Boot takes frames in `KernelStart`'s order: image and
idle's stack at the frames of their own numbers, idle's page, init's stack, init's
program. Protections, contents, the TLB and the `VMEM` switch are left out:
they say nothing of who owns a frame.

## The runs

| run | instance | distinct states | question |
|---|---|---|---|
| `list` | 2 lists, 3 nodes | 1,290 | do pointers chain what was inserted, do the operations act as FIFO lists, does `clear_list` end? |
| `process` | idle, init, 2 more; time slice 2, delays up to 2, 2 statuses | 755,268 | do all safety properties, the bound on waiting and the refinement of `Sched` hold, PCBs being used again? |
| `process_live` | the same with time slice 1, 1 status, no symmetry | 290,858 | does a ready or delayed process run again? |
| `sync` | idle, 3 processes, 2 ids | 392,241 | are ids exact, locks exclusive, waiters behind an owner and served in order, and who links a node twice? |
| `pipe` | idle, 3 processes, buffer 2, requests up to 3 | 762,175 | is the ring buffer a stream, are readers served and places in line kept, who links a node twice, do the loops end, and with less to do after each turn? |
| `memory` | idle, init, a child; regions of 5 pages, 10 frames, 2 programs | 83,709 | does every frame have one owner or none, but for the known leaks, whatever fails where, and is every handler a trade with the free frames? |

The bounds are chosen for the cases. Three nodes make a first, a middle and a
last one, and two lists let a node move. Init and two more PCBs make siblings, a
grandchild, an orphan, a parent that exits before, while and after its child
does, a reaped child that is still in the list, and PCBs that are used a second
time, linked or not. A delay of 2 outlasts a
tick. Time slice 2 lets a process go on after one tick and be preempted after more. Three
processes at a lock are an owner and two waiters; two ids make an id be
reclaimed and handed out again while another is in use. A buffer of 2 with
requests up to 3 wraps around, overfills and is left half read. Ten frames are
enough for idle, two small programs with their stacks and one page more: Fork
fails in the copy and at the stack, Exec of the larger program and Brk fail
half-way, and a heap of two pages (`KernelBrks`: none, both with the break inside
the page for temporary mappings, one too many) fails
with one mapped. `UserBrks` are a page below region 1, for the unsigned
wrap-around, its first page, a page above a small program, the top, and two
pages above it; `UserSps` are the top of region 1 and a page low enough to refuse the
break above it.
`DEFAULT_TIMESLICE`, `MAX_SYNCS`, `PIPE_BUFFER_LEN`, `MAX_PT_LEN` and the number of frames are larger in the code;
no guard depends on their value but by comparison. `CHECK_DEADLOCK` is off where
`fault` or `halted` can be set: the kernel has stopped there, or is followed no further. `MaxDelay`, `MaxLen`,
`KernelBrks`, `UserBrks`, `UserSps`, `Programs` and the sets of PCBs and ids are the only bounds; `run_time` stops counting where its
comparison with the time slice can no longer change.

Each property is also run against a mutant of the code (the definitions marked
"Mutant of"), which it must catch: a forgotten state test in
`add_to_*_queue`, a waiter left in its list at hand-over, and so on.

Six more runs check what a comment of the source says and end in a
counterexample (`findings` quotes the lines):

| run | what the code does |
|---|---|
| `process_lost` | a preempted process is in no queue: it never runs again |
| `process_reuse` | a zombie freed by its parent's Exit stays in `zombie_queue`; Fork gets its PCB and links it again |
| `process_children` | reaped children stay in `children`; Wait blocks on dead ones |
| `process_delay` | `waiting_for_children` is never reset; a child's exit overwrites the answer of the parent's Delay |
| `sync_relinked` | Acquire of a held lock does not stop the caller, whose next call links its node a second time |
| `pipe_standoff` | a reader and a writer wait in one pipe |

What is more has no run of its own, because the system stops there, because what the
source says is not about a state the models keep, or because the property that would
say it is another's negation. Where a line of the source says otherwise, it is named:

- Fork does not look for the NULL `create_pcb` may answer (`ForkNoMemory`), and
  maps and copies to frame ERROR when the frames run out (`ForkNoFrame`);
- `GetCheckSync` lets objects of another type pass (`WrongType`), Release of a
  free lock reads the pid of a NULL owner (`ReleaseNotOwned`), and CvarWait takes
  both ids from one register and so always fails (`CvarWaitOnLock`,
  `CvarWaitOnCvar`);
- the kernel buffer of a read or write that waits has been freed (`Junk`), and
  the drain functions store counts in the saved `regs[0]` of processes that
  went on long ago. `syscalls.c:295` and `310` ("only reached after being
  rescheduled") and `sync.c:130` ("the writer will make sure the reader is
  woken, written to") say how it was meant: the reader has returned with Junk
  by then, and `Pipe` has no user memory in which a later run could look;
- a write puts its bytes in front of those a waiting writer has left
  (`SysPipeWrite`), and a second write of a writer in line moves its first;
- free_userspace clears a copy of each page table entry, though
  `load_program.c:168` is "for every valid page, free the pfn and mark the page
  invalid": a page of the old program that the new one does not write over stays
  valid, and its frame is free (`stale`);
- Brk never writes `brk`, and the loop that should free pages frees none
  (`BrkDown`); it compares with an absolute page, so that a break may lie in
  or above the stack and above region 1 (`past`), where `syscalls.c:167` is "not
  above the stack or below the base of the heap" and `Documentation/Yalnix
  Reqs.md:270` says that the heap should not "grow into the user stack";
- a SetKernelBrk that fails half-way loses frames at the next call (`lost`);
  `memory.c:111` says it "should ideally free" them;
- SysExec goes on in user mode whatever LoadProgram answers, ERROR or KILL,
  though `load_program.c:123` is "committed to either loading succesfully or
  killing the process" (`Exec`, `ExecNoBuffer`);
- `memory_handler` neither grows the stack nor ends the process, as `Yalnix
  Reqs.md:251` and `272` ask and `traps.c:16` suggests: it changes no state a
  run could look at;
- `check_zombies` is never called, so orphaned zombies stay.

In the models these are the faults and history variables named, or the action that
is not there.

**Fairness.** `Process`: weak fairness of `clock_handler`, the hardware clock,
which interrupts user code and idle alike. Nothing is assumed of
processes: they may compute for ever. `List` and `Pipe`: weak fairness of the
running loop, which no interrupt takes the processor from. `Sync` has none, and
no liveness property: with `PCB_BLOCKED` mistaken, a waiter does not wait, and an owner may exit. `Memory`
has none: nothing in it waits.

## The proofs

Every invariant and every action property that a run checks is a theorem, and so
are the three refinements; `PROJECT.json` (`theorems`) says which is which. They
hold for any sets of processes, nodes, lists, ids, frames and programs, and any
lengths, that satisfy the module's assumption. Each component has one inductive
invariant, shown once (`Always`, in each module of proofs), and from it each property
a theorem of its own.

| component | assumed | inductive invariant | what it adds to the properties, and why |
|---|---|---|---|
| `ListProofs` | pointers, NULL and Garbage differ (`PointersDiffer`); the nodes are finite (`NodesFinite`) | `IInv` | nothing but types: that no node is in two lists is what lets an insertion in one leave the others alone |
| `ProcessProofs` (lemmas only) | `ProcessAssumption`: finitely many PCBs, idle and init are two of them, none is NULL or another value of `regs[0]` | `SchedInv` | `schedule` switches to idle without looking where idle is. So idle is always DEFAULT or RUNNING, so Exit never wakes it, so it is nobody's parent; so its PCB is never freed and Fork never gets it (`IdleAlone`); a PCB that is not in use is DEFAULT or a zombie, so Fork, which sets its state first, changes no other queue (`SparesIdle`) |
| `FamilyProofs` | the same | `Ind`: `Inv`, or a Fork has linked a node twice (`Relinked`). `Inv` is `SchedInv` with `Family`, `StateOK`, `AnswersOK`, `CollectedOK` | children lists and parent pointers agree while the PCB was not freed; who is suspended in Wait is blocked, or ready with the pid and status of a child that is gone and that no Wait has returned |
| `SyncProofs` | `SyncAssumption`: NULL is neither a process nor an object | `SyncInv`, or a caller has linked its node twice | a waiter's `waiting_lock_id` is the lock whose list it is in, and a waiter is neither ready nor delayed: that keeps the lists apart |
| `PipeProofs` | `PipeAssumption`: a buffer of at least a byte, Junk is no byte | `PipeInv`, or the last call that is followed was made (`Stopped`) | who waits is in one list; the fields of requests are in range whatever a second write does to them |
| `MemoryProofs` | `MemoryAssumption`: region 1's layout, more frames than pages in a region, a word in which two regions do not overflow | `Inv` | live processes have a whole kernel stack and dead ones map nothing; it splits what holds always from what holds until an Exec has left a page behind |

How the arguments go:

- **Invariants.** A handler that schedules is two moves, what it does and then
  the switch with the tail of the handler that is resumed, and between them the state
  is none of `Spec`'s. So the parts of the invariants of `ProcessProofs` and
  `FamilyProofs` are stated over bare values, with a lemma for each move (`Enqueue`,
  `Dequeue`, `Relabel`, `WakeKeeps`, `Switch`; `ExitMid`, `QuietMid`, `SwitchInv`) and one
  for each handler. In `SyncProofs` every call writes one entry of the table
  (`EntryStep`), or an entry and an id, or none. In `PipeProofs` the two moves on
  the buffer are `PutKeeps` and `TakeKeeps`, on arithmetic modulo the
  length (`SlotSlot`, `AheadSlot`): a slot of the old bytes is never less than the
  free space ahead of the write position. In `MemoryProofs` every handler is made
  of two moves on one owner's table, to write free frames over pages and to clear
  pages and free their frames.
- **The last step.** A property without a premise on `fault` must hold in the
  state after a relinking call too, where the invariant does not. So the inductive
  invariants of `FamilyProofs`, `SyncProofs` and `PipeProofs` have two cases: the
  kernel is well, or it is stopped and what the properties say of that state is
  true. For `QueueDiscipline`, `NoLostWakeup` and `WaitExact` that is nothing; types,
  parents, who runs and the action properties survive.
- **Refinements.** `FifoRefined`: `List`, pointer by pointer, implements `FifoLists`.
  The invariant says what every list is; the rest is that each function answers what
  its sequence would. `list_contains` follows `next` until it is back at the
  sentinel. The walk's k-th stop is shown to be the k-th node (`WalkStops`: the walk is
  a function on the naturals, since going round and round the ring is one, and if
  a stop were wrong, there would be a first one, `LeastNatural`), and a list is not longer than there are nodes.
  `SchedRefined`: `Process` implements `Sched`. The case worth reading is an Exit whose
  parent's waiting flag is stale: a lost parent is woken (`ExitTo`), but one that is
  ready or delayed is in no blocked queue and is left where it is, so all that happens
  is a switch, which is a Tick that wakes nobody, or, with nothing ready, `ExitTo(Idle)`.
  `MemoryTrades`: `Memory` implements `Frames`.
- **Order.** `NoOvertaking` of `Process` and `Sync`, `ServedInLine` of `Pipe`: in every step a
  queue either gets more at its end or loses its head, and the head goes where it should (the
  processor, the lock, the ready queue). `SchedInLine` shows it once of `Sched`'s
  steps; `Process` has it by its refinement. A reclaimed lock or pipe ends its lines.
- **Bounds on waiting.** Two action properties are the measures behind two of the
  liveness properties. `BoundedWait` (theorem `WaitIsBounded`): a process at place *i* of the ready queue runs
  within *i* time slices, less what the current process has used up, and a delayed
  one within its ticks and then a time slice of every process; every clock tick
  makes that number smaller, whether it switches or not and whoever it wakes, and no
  other handler makes it larger. It rests on the order of `ready_queue`, on there
  being no more places than processes (`QueueBounded`), and on a process that has used up its
  time going on only if nobody is ready. `DrainShrinks` (theorem `DrainsAreBounded`): each turn
  of the drain loops shortens a list, or brings their mutual calls nearer to the end, which rests on a
  writer that does not fit having filled the buffer (`PartlyFills`).
- **Who links twice.** `LinkedByCaller`, in `Sync` and `Pipe` (theorem
  `OnlyCallersRelink`): up to a call of a process whose own node is in a list, each
  handler moves nodes between the lists one by one, so that nodes stay in one.

What stays with TLC is liveness: `RunsAgain`, `ClearEnds` and `DrainEnds`. For the
first and the last the safety half is the theorem above, and what is missing is only that
weak fairness takes the next tick or turn; the provers here do not reason about
fairness. The lemmas about sequences (`SeqLemmas`) rest on the library's theorems about
sequences, those about the scheduler's steps (`SchedProofs`) on `SeqLemmas`.

## Not modelled

- The terminal calls and their interrupt handlers: comments without code.
- `memory_handler`: it prints and returns, so it is a step that changes nothing.
- `remove_child`, `check_zombies`, `list_contains_pid`, `unmap_page`: never called.
- Of `LoadProgram`: opening and parsing the executable, whose failures come
  before anything is changed, the buffer of the arguments, and what is read
  into the pages. Of boot: the set-up of registers and tables, and a boot that
  fails. Trace output and the test programs.
- In `Process`: what happens after a Fork has linked a node twice.
- In `Memory`: contents and protections of pages, the TLB, SetKernelBrk before virtual
  memory is on (how much malloc takes before that is up to the library), what the
  writes past the end of a page table destroy, a kernel in which two owners share a
  frame, and a machine whose `pmem_size` is not `NUM_VPN` pages: the code sizes the
  bitmap by one and searches it by the other.
- In `Pipe`: the byte count in `regs[0]`, which SysPipeRead's caller never sees, and
  the failures of Init, which are in `Sync`. In `Sync` and `Pipe`: what
  happens after a node is in two lists, or after a negative length.
- Of the values a user process may pass, a bad pointer to Wait: the kernel
  writes to it as it is.

## Plan

Written first, because most of the kernel hangs on them: the lists, then the
processes and the scheduler, then what blocks on them, then memory and the
proofs about all of them. Left:

1. `Sync` and `Pipe` with Wait and Fork of the abstract scheduler; user registers,
   for the counts the pipe calls store in them.
2. `Memory` with the contents of pages, for what Fork and the copy of a kernel
   stack promise.
