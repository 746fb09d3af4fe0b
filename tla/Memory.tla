-------------------------------- MODULE Memory --------------------------------
(***************************************************************************)
(* Physical frames and who maps them: the bitmap (frames.c), the kernel's  *)
(* heap (SetKernelBrk, memory.c), the copy of an address space for Fork    *)
(* (context_switch.c), Brk and Exec (syscalls.c, load_program.c), and what *)
(* Exit gives back (pcb.c).  allocate_frame may find nothing at any point. *)
(*                                                                         *)
(* A page is a virtual page number: region 0 is 0..MAX_PT_LEN-1, with the  *)
(* kernel stack on top and the page for temporary mappings below it;       *)
(* region 1 is MAX_PT_LEN..2*MAX_PT_LEN-1.  A handler is one step.  Which  *)
(* ready process schedule picks is Process's concern: here any live one.   *)
(***************************************************************************)
EXTENDS Integers, FiniteSets

CONSTANTS Procs, Idle, Init1, Kernel, NONE,
          MAX_PT_LEN,           \* pages of a region
          KERNEL_STACK_BASE,    \* first page of the kernel stack
          ORIG_BRK,             \* _orig_kernel_brk_page
          NUM_VPN,              \* frames
          WORD,                 \* range of an unsigned int
          Programs,             \* executables: see ProgramType
          KernelBrks, UserBrks, \* bounds: what SetKernelBrk and Brk are asked for
          UserSps               \* bound: the pages a user's stack pointer may be in

(* An executable: its text and data pages and the end of its data, counted *)
(* from the start of region 1, and the pages of its initial stack.         *)
ProgramType == [image : SUBSET (0..(MAX_PT_LEN - 1)), top : 0..MAX_PT_LEN,
                stack_npg : 1..MAX_PT_LEN]

(* An address of region 0: its page, and whether it lies inside that page   *)
(* and not at its start.                                                    *)
Address == [page : Nat, inside : BOOLEAN]

ADDR_TO_PAGE_NUM(addr) == addr.page

ASSUME MemoryAssumption ==
  /\ Idle \in Procs /\ Init1 \in Procs /\ Idle # Init1
  /\ Kernel \notin Procs
  /\ MAX_PT_LEN \in Nat /\ NUM_VPN \in Nat /\ WORD \in Nat \ {0}
  /\ ORIG_BRK \in Nat /\ KERNEL_STACK_BASE \in Nat
  /\ ORIG_BRK < KERNEL_STACK_BASE
  /\ KERNEL_STACK_BASE < MAX_PT_LEN
  /\ MAX_PT_LEN < NUM_VPN
  /\ NONE \notin 0..(NUM_VPN - 1)
  /\ Programs \subseteq ProgramType
  /\ \A g \in Programs : \A i \in g.image : i < g.top
  /\ KernelBrks \subseteq Address
  /\ \A addr \in KernelBrks : ORIG_BRK <= ADDR_TO_PAGE_NUM(addr)
  /\ UserBrks \subseteq 0..(WORD - 1) /\ UserSps \subseteq 0..(WORD - 1)

Frame   == 0..(NUM_VPN - 1)
Page    == 0..(2 * MAX_PT_LEN - 1)
Region1 == MAX_PT_LEN..(2 * MAX_PT_LEN - 1)
KStack  == KERNEL_STACK_BASE..(MAX_PT_LEN - 1)
TempPage == KERNEL_STACK_BASE - 1    \* TEMP_MAPPING_VADDR
Holders == Procs \cup {Kernel}

VARIABLES
  used,        \* the frames whose bit in frame_bitMap is 1
  pte,         \* pte[p]: region1_pt and kernel_stack of p; pte[Kernel]:
               \* region0_pt below the kernel stack.  NONE is an invalid entry
  kstack,      \* region0_pt, the entries of the kernel stack
  kernel_brk,  \* an address
  brk,         \* pcb.brk, as a page of region 1 (counted from 0)
  sp,          \* the page of pcb.user_context.sp, as schedule or Exec left it
  current, live,
  halted,      \* "none", or why the machine has stopped
  stale,       \* history: Exec has left a page valid whose frame it freed
  lost,        \* history: frames whose only entry SetKernelBrk wrote over
  past         \* history: frames whose entry Brk wrote past the end of region1_pt

vars == <<used, pte, kstack, kernel_brk, brk, sp, current, live, halted,
          stale, lost, past>>

Mapped(t) == {t[v] : v \in Page} \ {NONE}
Valid(t, S) == {v \in S : t[v] # NONE}
Empty == [v \in Page |-> NONE]

(* map_page for each page of f.                                            *)
Map(t, f) == [v \in Page |-> IF v \in DOMAIN f THEN f[v] ELSE t[v]]

Unmap(t, S) == [v \in Page |-> IF v \in S THEN NONE ELSE t[v]]

(* A loop that calls allocate_frame for each of the pages S in ascending   *)
(* order, from the bitmap B, until it answers ERROR: each call takes the   *)
(* lowest free frame.  A set of one function, from the pages that got one. *)
Served(S, B) == {v \in S : Cardinality({w \in S : w < v}) < Cardinality(Frame \ B)}

Lowest(n, B) == {f \in Frame \ B : Cardinality({g \in Frame \ B : g < f}) < n}

allocate_frame(S, B) ==
  {a \in [Served(S, B) -> Lowest(Cardinality(S), B)] :
     \A v, w \in Served(S, B) : v < w => a[v] < a[w]}

Taken(f) == {f[v] : v \in DOMAIN f}

(* free_frame for each frame of F; a frame that is free already stays so.  *)
free_frames(B, F) == B \ F

StackPages(n) == (2 * MAX_PT_LEN - n)..(2 * MAX_PT_LEN - 1)
ImagePages(g) == {MAX_PT_LEN + i : i \in g.image}

(* KernelStart: the pages below ORIG_BRK and idle's kernel stack are mapped *)
(* to the frames of the same number, the rest is allocated in this order:  *)
(* idle's page, init's kernel stack, init's program.  The library's malloc *)
(* is taken to have left kernel_brk where the kernel's image ends.         *)
Init ==
  LET image == 0..(ORIG_BRK - 1)
      B == image \cup KStack
  IN /\ \E g \in Programs :
        \E d \in allocate_frame({2 * MAX_PT_LEN - 1}, B) :
        \E f \in allocate_frame(KStack \cup ImagePages(g) \cup StackPages(g.stack_npg),
                                B \cup Taken(d)) :
          /\ KStack \cup ImagePages(g) \cup StackPages(g.stack_npg) = DOMAIN f
          /\ used = B \cup Taken(d) \cup Taken(f)
          /\ pte = [h \in Holders |->
                      CASE h = Kernel -> Map(Empty, [v \in image |-> v])
                        [] h = Idle   -> Map(Map(Empty, [v \in KStack |-> v]), d)
                        [] h = Init1  -> Map(Empty, f)
                        [] OTHER      -> Empty]
          /\ brk = [p \in Procs |-> IF p = Init1 THEN g.top ELSE 0]
          /\ sp = [p \in Procs |-> IF p = Init1 THEN 2 * MAX_PT_LEN - g.stack_npg
                                   ELSE 2 * MAX_PT_LEN - 1]
     /\ kstack = [v \in KStack |-> v]
     /\ kernel_brk = [page |-> ORIG_BRK, inside |-> FALSE]
     /\ current = Idle
     /\ live = {Idle, Init1}
     /\ halted = "none"
     /\ stale = FALSE
     /\ lost = {}
     /\ past = {}

(* Two owners of one frame write over each other's data or stacks: what the *)
(* machine does from then on is not what its programs say, and is followed  *)
(* no further.                                                              *)
Sound == \A h, g \in Holders : h # g => Mapped(pte[h]) \cap Mapped(pte[g]) = {}

Running == halted = "none" /\ Sound

InUser == Running /\ current # Idle

(* KCSwitch to next: map_kernel_stack copies its entries to region 0.      *)
\* Mutant of KCSwitch: map_kernel_stack is not called.
KCSwitchUnmapped(next) == current' = next /\ kstack' = kstack

KCSwitch(next) ==
  /\ current' = next
  /\ kstack' = [v \in KStack |-> pte[next][v]]

(* Where the stack pointer of the current process may be by now: idle's    *)
(* loop never leaves its one page.                                         *)
LiveSps == IF current = Idle THEN {sp[Idle]} ELSE UserSps

(* schedule, from the clock or a system call that blocks.                  *)
Schedule(next) ==
  /\ Running
  /\ next \in live \ {current}
  /\ KCSwitch(next)
  /\ \E s \in LiveSps : sp' = [sp EXCEPT ![current] = s]
  /\ UNCHANGED <<used, pte, kernel_brk, brk, live, halted, stale, lost, past>>

(* The kernel stops: Halt, or a copy to a frame that does not exist.       *)
Halts(why) ==
  /\ halted' = why
  /\ UNCHANGED <<used, pte, kstack, kernel_brk, brk, sp, current, live, stale,
                 lost, past>>

(* SetKernelBrk(addr), called by malloc in any system call.  malloc does   *)
(* not ask for less than it had at boot.  The page addr lies in is not     *)
(* mapped, and may be the page for temporary mappings.  An error half-way  *)
(* leaves the pages mapped and kernel_brk where it was: the next call      *)
(* writes over them.                                                       *)
\* Mutant of BrkRefused: the page for temporary mappings becomes heap.
BrkRefusedLate(addr) == ADDR_TO_PAGE_NUM(addr) > KERNEL_STACK_BASE

BrkRefused(addr) == ADDR_TO_PAGE_NUM(addr) >= KERNEL_STACK_BASE

(* The pages the loops over the pages from one address to another visit.   *)
Between(low, high) == ADDR_TO_PAGE_NUM(low)..(ADDR_TO_PAGE_NUM(high) - 1)

KernelBrkUp(addr) ==
  LET new == Between(kernel_brk, addr) IN
  /\ InUser /\ ~ BrkRefused(addr)
  /\ ADDR_TO_PAGE_NUM(addr) >= ADDR_TO_PAGE_NUM(kernel_brk)
  /\ \E f \in allocate_frame(new, used) :
       /\ used' = used \cup Taken(f)
       /\ pte' = [pte EXCEPT ![Kernel] = Map(@, f)]
       /\ lost' = lost \cup {pte[Kernel][v] : v \in Valid(pte[Kernel], DOMAIN f)}
       /\ kernel_brk' = IF DOMAIN f = new THEN addr ELSE kernel_brk
  /\ UNCHANGED <<kstack, brk, sp, current, live, halted, stale, past>>

\* Mutant of KernelBrkDown: the frames are not freed.
KernelBrkDownLeaks(addr) ==
  /\ InUser /\ ~ BrkRefused(addr)
  /\ ADDR_TO_PAGE_NUM(addr) < ADDR_TO_PAGE_NUM(kernel_brk)
  /\ pte' = [pte EXCEPT ![Kernel] = Unmap(@, Between(addr, kernel_brk))]
  /\ kernel_brk' = addr
  /\ UNCHANGED <<used, kstack, brk, sp, current, live, halted, stale, lost, past>>

KernelBrkDown(addr) ==
  LET gone == Between(addr, kernel_brk) IN
  /\ InUser /\ ~ BrkRefused(addr)
  /\ ADDR_TO_PAGE_NUM(addr) < ADDR_TO_PAGE_NUM(kernel_brk)
  /\ used' = free_frames(used, {pte[Kernel][v] : v \in Valid(pte[Kernel], gone)})
  /\ pte' = [pte EXCEPT ![Kernel] = Unmap(@, gone)]
  /\ kernel_brk' = addr
  /\ UNCHANGED <<kstack, brk, sp, current, live, halted, stale, lost, past>>

(* SysFork: CopyPageTable, then InitializeKernelStack, then KCCopy, which   *)
(* copies the kernel stack through the temporary mapping as CopyPageTable   *)
(* does with each page; both leave it invalid.  The child's brk stays NULL. *)
\* Mutant of Copied: the child gets the parent's frames.
CopiedShared(f) == [v \in Page |-> IF v \in DOMAIN f THEN pte[current][v] ELSE NONE]

Copied(f) == Map(Empty, f)

Fork(child) ==
  /\ InUser /\ child \notin live
  /\ \E f \in allocate_frame(Valid(pte[current], Region1), used) :
     \E k \in allocate_frame(KStack, used \cup Taken(f)) :
       /\ DOMAIN f = Valid(pte[current], Region1)
       /\ DOMAIN k = KStack
       /\ used' = used \cup Taken(f) \cup Taken(k)
       /\ pte' = [pte EXCEPT ![child] = Map(Copied(f), k),
                             ![Kernel] = Unmap(@, {TempPage})]
       /\ brk' = [brk EXCEPT ![child] = 0]
       /\ live' = live \cup {child}
  /\ \E s \in UserSps : sp' = [sp EXCEPT ![child] = s]
  /\ UNCHANGED <<kstack, kernel_brk, current, halted, stale, lost, past>>

(* No frame for a page of the copy: ERROR is stored as its frame number and *)
(* the page is copied there.  None for the stack: Halt.                     *)
ForkNoFrame ==
  /\ InUser /\ Procs \ live # {}
  /\ \E f \in allocate_frame(Valid(pte[current], Region1), used) :
     \E k \in allocate_frame(KStack, used \cup Taken(f)) :
       \/ /\ DOMAIN f # Valid(pte[current], Region1)
          /\ Halts("copy to frame ERROR")
       \/ /\ DOMAIN f = Valid(pte[current], Region1) /\ DOMAIN k # KStack
          /\ Halts("Halt")

(* SysBrk to the address whose page, rounded up, is a.  The comparison with *)
(* the stack pointer is of a region-1 page with an absolute one: a break    *)
(* may lie above the stack, and above region 1.  Pages that are valid       *)
(* already are passed over, brk is not written, and the loop that frees     *)
(* stops where it starts.  Beyond region 1 the loop reads and writes past   *)
(* the end of region1_pt: what is there may look valid or not, and what an  *)
(* entry written there destroys is followed no further.                     *)
BrkPage(a) == (a - MAX_PT_LEN) % WORD

BrkUp(a) ==
  LET new == {MAX_PT_LEN + i : i \in brk[current]..(BrkPage(a) - 1)}
      inside == new \cap Page
  IN
  /\ InUser
  /\ BrkPage(a) < sp[current] /\ BrkPage(a) > brk[current]
  /\ \E beyond \in SUBSET (new \ Page) :
     \E f \in allocate_frame((inside \ Valid(pte[current], inside)) \cup beyond, used) :
       /\ used' = used \cup Taken(f)
       /\ pte' = [pte EXCEPT ![current] = Map(@, f)]
       /\ past' = {f[v] : v \in DOMAIN f \ Page}
       /\ halted' = IF past' = {} THEN halted ELSE "wrote past region1_pt"
  /\ UNCHANGED <<kstack, kernel_brk, brk, sp, current, live, stale, lost>>

Freed(cbrk, nbrk) == {i \in 0..(cbrk - 1) : \A j \in i..(cbrk - 1) : j < nbrk}

BrkDown(a) ==
  LET gone == {MAX_PT_LEN + i : i \in Freed(brk[current], BrkPage(a))} IN
  /\ InUser
  /\ BrkPage(a) < brk[current]
  /\ used' = free_frames(used, {pte[current][v] : v \in Valid(pte[current], gone)})
  /\ pte' = [pte EXCEPT ![current] = Unmap(@, gone)]
  /\ UNCHANGED <<kstack, kernel_brk, brk, sp, current, live, halted, stale, lost, past>>

(* SysExec and LoadProgram past its checks.  free_userspace frees the       *)
(* frames of the old pages and leaves the entries as they are; the new      *)
(* pages are written over them until a frame is missing.  Reading the file  *)
(* may fail after that.  SysExec goes on in every case.                     *)
\* Mutant of Reloaded: the pages of the old program keep their frames.
ReloadedKept(f) == used \cup Taken(f)

Reloaded(f) == free_frames(used, {pte[current][v] : v \in Valid(pte[current], Region1)})
                 \cup Taken(f)

Exec(g) ==
  LET p == current
      old == Valid(pte[p], Region1)
      new == ImagePages(g) \cup StackPages(g.stack_npg)
  IN /\ InUser
     /\ g.stack_npg + g.top < MAX_PT_LEN
     /\ \E f \in allocate_frame(new, used \ {pte[p][v] : v \in old}) :
          /\ used' = Reloaded(f)
          /\ pte' = [pte EXCEPT ![p] = Map(@, f)]
          /\ brk' = [brk EXCEPT ![p] = IF ImagePages(g) \subseteq DOMAIN f
                                       THEN g.top ELSE @]
          /\ sp' = [sp EXCEPT ![p] = 2 * MAX_PT_LEN - g.stack_npg]
          /\ stale' = (stale \/ ~ (old \subseteq DOMAIN f))
     /\ UNCHANGED <<kstack, kernel_brk, current, live, halted, lost, past>>

(* LoadProgram gets no buffer for the arguments: it has set sp already.    *)
ExecNoBuffer(g) ==
  /\ InUser
  /\ g.stack_npg + g.top < MAX_PT_LEN
  /\ sp' = [sp EXCEPT ![current] = 2 * MAX_PT_LEN - g.stack_npg]
  /\ UNCHANGED <<used, pte, kstack, kernel_brk, brk, current, live, halted, stale,
                 lost, past>>

(* SysExit, or a trap that ends the process: free_process_memory, then      *)
(* schedule.                                                                *)
\* Mutant of Returned: the stack's frames are looked up in region 0 after the switch.
ReturnedAfter(p) == {pte[p][v] : v \in Valid(pte[p], Region1)}
                      \cup {kstack'[v] : v \in KStack}

Returned(p) == Mapped(pte[p])

Exit(next) ==
  LET p == current IN
  /\ InUser
  /\ next \in live \ {p}
  /\ KCSwitch(next)
  /\ used' = free_frames(used, Returned(p))
  /\ pte' = [pte EXCEPT ![p] = Empty]
  /\ brk' = [brk EXCEPT ![p] = 0]
  /\ sp' = [sp EXCEPT ![p] = 2 * MAX_PT_LEN - 1]
  /\ live' = live \ {p}
  /\ UNCHANGED <<kernel_brk, halted, stale, lost, past>>

Next == \/ \E p \in Procs : Schedule(p) \/ Fork(p) \/ Exit(p)
        \/ ForkNoFrame
        \/ \E addr \in KernelBrks : KernelBrkUp(addr) \/ KernelBrkDown(addr)
        \/ \E a \in UserBrks : BrkUp(a) \/ BrkDown(a)
        \/ \E g \in Programs : Exec(g) \/ ExecNoBuffer(g)

Spec == Init /\ [][Next]_vars
-----------------------------------------------------------------------------
TypeOK ==
  /\ used \subseteq Frame
  /\ pte \in [Holders -> [Page -> Frame \cup {NONE}]]
  /\ kstack \in [KStack -> Frame]
  /\ kernel_brk \in Address /\ ADDR_TO_PAGE_NUM(kernel_brk) \in ORIG_BRK..TempPage
  /\ brk \in [Procs -> 0..MAX_PT_LEN]
  /\ sp \in [Procs -> Region1 \cup UserSps]
  /\ current \in live /\ live \subseteq Procs
  /\ halted \in {"none", "Halt", "copy to frame ERROR", "wrote past region1_pt"}
  /\ stale \in BOOLEAN
  /\ lost \subseteq Frame /\ past \subseteq Frame

(* Fork, Exec, Brk and SetKernelBrk take frames in four different loops,    *)
(* any of which may stop half-way, and Exit gives them back: no frame is    *)
(* ever mapped by two pages - of two processes, of a process and the        *)
(* kernel, of a stack and a program - unless an Exec left a page behind.    *)
FramesNotShared ==
  ~ stale =>
    \A h, g \in Holders : \A v, w \in Page :
      pte[h][v] # NONE /\ pte[h][v] = pte[g][w] => h = g /\ v = w

(* A frame is marked used if and only if a page maps it, except for what    *)
(* the code leaks in two places: the entries of a SetKernelBrk that failed  *)
(* half-way, written over by the next one (memory.c:111 says they should    *)
(* have been freed), and the entries Brk wrote past the end of region1_pt.  *)
(* No other failure half-way leaks a frame, and Exit gives everything back. *)
FramesAccounted ==
  ~ stale => /\ used = (UNION {Mapped(pte[h]) : h \in Holders}) \cup lost \cup past
             /\ \A h \in Holders : Mapped(pte[h]) \cap (lost \cup past) = {}

(* Exec may leave pages behind whose frames are freed, and Exit frees them  *)
(* again: even then, up to the point where two holders share a frame, those *)
(* of the kernel's image and of idle stay marked used and mapped once.      *)
KernelFrames == 0..(ORIG_BRK - 1) \cup Mapped(pte[Idle])

BootFramesKept ==
  /\ KernelFrames \subseteq used
  /\ \A h \in Holders \ {Idle} : \A v \in Page :
       pte[h][v] \in KernelFrames => h = Kernel /\ v < ORIG_BRK /\ pte[h][v] = v

(* Every page that lies wholly below kernel_brk is mapped, however often    *)
(* SetKernelBrk ran out of frames, and the page for temporary mappings, one *)
(* below the kernel stack, never is: no Fork unmaps a page of the heap.     *)
(* Nothing is said of the page a break lies inside: SetKernelBrk rounds     *)
(* down and does not map it.                                                *)
HeapMapped ==
  /\ \A v \in 0..(ADDR_TO_PAGE_NUM(kernel_brk) - 1) : pte[Kernel][v] # NONE
  /\ pte[Kernel][TempPage] = NONE

(* The kernel runs on the stack of the process that is current, and that    *)
(* process has not given its memory back.                                   *)
OwnStack == /\ pte[current] # Empty
            /\ \A v \in KStack : kstack[v] = pte[current][v]

(* What each handler does to the frames is a trade of one owner with the    *)
(* free ones, as long as no Exec has left a page behind.  Frames that Brk   *)
(* took for entries past region1_pt count as its caller's.                  *)
Owner == [f \in Frame |->
            IF f \notin used THEN NONE
            ELSE IF \E p \in Procs : f \in Mapped(pte[p])
                 THEN CHOOSE p \in Procs : f \in Mapped(pte[p])
            ELSE IF f \in past THEN current ELSE Kernel]

Abstract == INSTANCE Frames WITH Owners <- Holders, Nobody <- NONE, owner <- Owner

TradesOnly == [][stale' \/ Abstract!Next \/ UNCHANGED Owner]_vars
=============================================================================
