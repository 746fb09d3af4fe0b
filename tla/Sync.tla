-------------------------------- MODULE Sync --------------------------------
(***************************************************************************)
(* Locks, condition variables and the table of their ids (sync.c), with    *)
(* the system calls that reach them (syscalls.c), next to the scheduler of *)
(* Sched: Delay, Exit and the clock decide who calls next.                 *)
(*                                                                         *)
(* SyncLockAcquire tells its caller it is blocked with PCB_BLOCKED, which  *)
(* is not the PROCESS_BLOCKED SysLockAcquire tests for: the caller goes on *)
(* in user mode while its queue_node is in the lock's wait list.  Its next *)
(* Delay, Exit or Acquire links the node in a second list, which breaks    *)
(* the chains of both (List says what a list needs): the call is made, and *)
(* the kernel is not followed past it (fault).                             *)
(*                                                                         *)
(* Abstracted: how long a Delay lasts, and regs[0] but for the answer of   *)
(* the last system call.  Fork and Wait are in Process.                    *)
(***************************************************************************)
EXTENDS Sched, FiniteSets

CONSTANTS NULL,
          MAX_SYNCS            \* sync.h: ids are 0..MAX_SYNCS-1

Ids == 0..(MAX_SYNCS - 1)

\* sync_type_t
LOCK == "LOCK"
CVAR == "CVAR"

\* What lock_t and cvar_t hold.
Objects == [type : {LOCK, CVAR}, locked : BOOLEAN, owner : Procs \cup {NULL},
            waiters : Seq(Procs)]

ASSUME SyncAssumption == /\ IsFiniteSet(Procs) /\ Idle \in Procs
                         /\ NULL \notin Procs /\ NULL \notin Objects
                         /\ MAX_SYNCS \in Nat \ {0}

\* Answers: SUCCESS is 0, PCB_BLOCKED the 30 of sync.h.
SUCCESS == "SUCCESS"
ERROR == "ERROR"
PCB_BLOCKED == "PCB_BLOCKED"

VARIABLES
  sync_table,              \* id -> the object, or NULL
  id_used, global_sync_counter,
  waiting_lock_id,         \* pcb.waiting_lock_id, -1 for none
  answer,                  \* what the last system call returned
  fault,                   \* how the kernel went wrong, or "none"
  holds                    \* history: the locks a process was told it has

ids == <<sync_table, id_used, global_sync_counter>>
vars == <<sched, ids, waiting_lock_id, answer, fault, holds>>

\* A lock_t; of a cvar_t, whose wait list stays empty, only the type.
NewObject(type) == [type |-> type, locked |-> FALSE, owner |-> NULL, waiters |-> <<>>]

Init ==
  /\ AllForked
  /\ sync_table = [i \in Ids |-> NULL]
  /\ id_used = [i \in Ids |-> 0]
  /\ global_sync_counter = 0
  /\ waiting_lock_id = [p \in Procs |-> -1]
  /\ answer = SUCCESS
  /\ fault = "none"
  /\ holds = [p \in Procs |-> {}]

Valid(id) == id \in Ids /\ sync_table[id] # NULL
Is(id, type) == Valid(id) /\ sync_table[id].type = type
OfWrongType(id, type) == Valid(id) /\ sync_table[id].type # type

(* A queue_node is in a list. *)
Linked(p) == \/ p \in ToSet(ready) \cup delayed
             \/ \E i \in Ids : Valid(i) /\ p \in ToSet(sync_table[i].waiters)

(* A user process is in a system call. *)
Calls == fault = "none" /\ current # Idle

Answers(a) == answer' = a /\ UNCHANGED fault

Fails == /\ Answers(ERROR)
         /\ UNCHANGED <<sched, ids, waiting_lock_id, holds>>

Faults(f) == /\ fault' = f
             /\ UNCHANGED <<sched, ids, waiting_lock_id, answer, holds>>
-----------------------------------------------------------------------------
(* The caller's queue_node is put in a list, which breaks that list and the *)
(* one it is in already, if there is one.                                   *)
LinksCaller == fault' = IF Linked(current) THEN "relinked" ELSE fault

SysDelay == /\ Calls
            /\ Delay
            /\ LinksCaller
            /\ answer' = SUCCESS
            /\ UNCHANGED <<ids, waiting_lock_id, holds>>

(* The process dies with its locks. *)
SysExit == /\ Calls
           /\ Exit
           /\ LinksCaller
           /\ UNCHANGED <<ids, waiting_lock_id, answer, holds>>

clock_handler == /\ fault = "none"
                 /\ Tick
                 /\ UNCHANGED <<ids, waiting_lock_id, answer, fault, holds>>
-----------------------------------------------------------------------------
(* Ids and objects.                                                        *)
Full == global_sync_counter >= MAX_SYNCS

FreeIds == {i \in Ids : id_used[i] = 0}

\* The lowest free one.
GetNewID == CHOOSE i \in FreeIds : \A j \in FreeIds : i <= j

\* Mutant of InitFails: the id is taken before the allocation that fails.
InitFailsLate == /\ Calls /\ ~ Full
                 /\ id_used' = [id_used EXCEPT ![GetNewID] = 1]
                 /\ global_sync_counter' = global_sync_counter + 1
                 /\ Answers(ERROR)
                 /\ UNCHANGED <<sched, sync_table, waiting_lock_id, holds>>

(* The table is full, or there is no memory for the sync_obj_t. *)
InitFails == Calls /\ Fails

(* The lock_t or cvar_t is written to even when malloc returned NULL. *)
InitFaults == Calls /\ ~ Full /\ Faults("NULL object")

(* SyncInitLock and SyncInitCvar. *)
SyncInit(type) ==
  /\ Calls /\ ~ Full
  /\ sync_table' = [sync_table EXCEPT ![GetNewID] = NewObject(type)]
  /\ id_used' = [id_used EXCEPT ![GetNewID] = 1]
  /\ global_sync_counter' = global_sync_counter + 1
  /\ Answers(SUCCESS)
  /\ UNCHANGED <<sched, waiting_lock_id, holds>>

\* Mutant of SyncReclaim: any id is freed, used or not.
SyncReclaimUnchecked(id) ==
  /\ Calls
  /\ sync_table' = [sync_table EXCEPT ![id] = NULL]
  /\ id_used' = [id_used EXCEPT ![id] = 0]
  /\ global_sync_counter' = global_sync_counter - 1
  /\ holds' = [p \in Procs |-> holds[p] \ {id}]
  /\ Answers(SUCCESS)
  /\ UNCHANGED <<sched, waiting_lock_id>>

(* The object and its id are free again; who waits in it is forgotten. *)
SyncReclaim(id) ==
  /\ Calls
  /\ Valid(id)
  /\ sync_table' = [sync_table EXCEPT ![id] = NULL]
  /\ id_used' = [id_used EXCEPT ![id] = 0]
  /\ global_sync_counter' = global_sync_counter - 1
  /\ holds' = [p \in Procs |-> holds[p] \ {id}]
  /\ Answers(SUCCESS)
  /\ UNCHANGED <<sched, waiting_lock_id>>

(* GetCheckSync: an id without an object is refused, an object of another   *)
(* type only reported; the caller works on it as if it had the type.        *)
BadId(id) == Calls /\ ~ Valid(id) /\ Fails

WrongType(id, type) == Calls /\ OfWrongType(id, type) /\ Faults("wrong type")
-----------------------------------------------------------------------------
(* Locks.                                                                  *)
\* Mutant of AcquireFree: the lock is thought free when nobody waits.
AcquireUncontended(id) ==
  /\ Calls
  /\ Is(id, LOCK) /\ sync_table[id].waiters = <<>>
  /\ sync_table' = [sync_table EXCEPT ![id].locked = TRUE, ![id].owner = current]
  /\ holds' = [holds EXCEPT ![current] = @ \cup {id}]
  /\ Answers(SUCCESS)
  /\ UNCHANGED <<sched, id_used, global_sync_counter, waiting_lock_id>>

AcquireFree(id) ==
  /\ Calls
  /\ Is(id, LOCK) /\ ~ sync_table[id].locked
  /\ sync_table' = [sync_table EXCEPT ![id].locked = TRUE, ![id].owner = current]
  /\ holds' = [holds EXCEPT ![current] = @ \cup {id}]
  /\ Answers(SUCCESS)
  /\ UNCHANGED <<sched, id_used, global_sync_counter, waiting_lock_id>>

(* The caller waits, and is still the current process. *)
AcquireHeld(id) ==
  /\ Calls
  /\ Is(id, LOCK) /\ sync_table[id].locked
  /\ sync_table' = [sync_table EXCEPT ![id].waiters = Append(@, current)]
  /\ state' = [state EXCEPT ![current] = "BLOCKED"]
  /\ waiting_lock_id' = [waiting_lock_id EXCEPT ![current] = id]
  /\ LinksCaller
  /\ answer' = PCB_BLOCKED
  /\ UNCHANGED <<current, ready, delayed, id_used, global_sync_counter, holds>>

Owned(id) == Is(id, LOCK) /\ sync_table[id].owner = current

\* Mutant of HandOver: the next owner stays in the wait list.
HandOverPeeked(id) ==
  LET next == Head(sync_table[id].waiters) IN
  /\ sync_table' = [sync_table EXCEPT ![id].owner = next]
  /\ ready' = Append(ready, next)
  /\ state' = [state EXCEPT ![next] = "READY"]
  /\ waiting_lock_id' = [waiting_lock_id EXCEPT ![next] = -1]

\* Mutant of HandOver: the list is taken from at its other end.
HandOverLast(id) ==
  LET w == sync_table[id].waiters
      next == Last(w) IN
  /\ sync_table' = [sync_table EXCEPT ![id].waiters = Front(w), ![id].owner = next]
  /\ ready' = Append(ready, next)
  /\ state' = [state EXCEPT ![next] = "READY"]
  /\ waiting_lock_id' = [waiting_lock_id EXCEPT ![next] = -1]

(* The first waiter becomes the owner and ready. *)
HandOver(id) ==
  LET next == Head(sync_table[id].waiters) IN
  /\ sync_table' = [sync_table EXCEPT ![id].waiters = Tail(@), ![id].owner = next]
  /\ ready' = Append(ready, next)
  /\ state' = [state EXCEPT ![next] = "READY"]
  /\ waiting_lock_id' = [waiting_lock_id EXCEPT ![next] = -1]

ReleaseToWaiter(id) ==
  /\ Calls
  /\ Owned(id) /\ sync_table[id].waiters # <<>>
  /\ HandOver(id)
  /\ holds' = [holds EXCEPT ![current] = @ \ {id}]
  /\ Answers(SUCCESS)
  /\ UNCHANGED <<current, delayed, id_used, global_sync_counter>>

\* Mutant of ReleaseFree: the waiters are not looked at.
ReleaseForgetsWaiters(id) ==
  /\ Calls
  /\ Owned(id)
  /\ sync_table' = [sync_table EXCEPT ![id].locked = FALSE, ![id].owner = NULL]
  /\ holds' = [holds EXCEPT ![current] = @ \ {id}]
  /\ Answers(SUCCESS)
  /\ UNCHANGED <<sched, id_used, global_sync_counter, waiting_lock_id>>

ReleaseFree(id) ==
  /\ Calls
  /\ Owned(id) /\ sync_table[id].waiters = <<>>
  /\ sync_table' = [sync_table EXCEPT ![id].locked = FALSE, ![id].owner = NULL]
  /\ holds' = [holds EXCEPT ![current] = @ \ {id}]
  /\ Answers(SUCCESS)
  /\ UNCHANGED <<sched, id_used, global_sync_counter, waiting_lock_id>>

(* The check for the owner prints lock->owner->pid. *)
ReleaseNotOwned(id) ==
  /\ Calls
  /\ Is(id, LOCK) /\ sync_table[id].owner # current
  /\ IF sync_table[id].owner = NULL THEN Faults("NULL owner") ELSE Fails
-----------------------------------------------------------------------------
(* Condition variables.                                                    *)

(* SyncCvarSignal and SyncCvarBroadcast: nobody ever waits, see CvarWait.  *)
SyncCvarSignal(id) ==
  /\ Calls
  /\ Is(id, CVAR)
  /\ Answers(SUCCESS)
  /\ UNCHANGED <<sched, ids, waiting_lock_id, holds>>

(* SysCvarWait reads both ids from regs[0] and GetCheckSync lets a cvar_t   *)
(* pass for a lock_t: what then is its owner is a pointer of the empty wait *)
(* list, never the current process, and every CvarWait is refused.          *)
CvarWaitOnCvar(cvar_id) ==
  /\ Calls
  /\ Is(cvar_id, CVAR)
  /\ Answers(ERROR)
  /\ UNCHANGED <<sched, ids, waiting_lock_id, holds>>

(* With a lock's id, it is the lock itself that is taken for the cvar_t.    *)
CvarWaitOnLock(cvar_id) ==
  /\ Is(cvar_id, LOCK)
  /\ \/ ReleaseNotOwned(cvar_id)
     \/ Calls /\ Owned(cvar_id) /\ Faults("wrong type")

SysLockAcquire(id) == \/ BadId(id) \/ WrongType(id, LOCK) \/ AcquireFree(id)
                      \/ AcquireHeld(id)

SysLockRelease(id) == \/ BadId(id) \/ WrongType(id, LOCK) \/ ReleaseFree(id)
                      \/ ReleaseToWaiter(id) \/ ReleaseNotOwned(id)

SysSignal(id) == BadId(id) \/ WrongType(id, CVAR) \/ SyncCvarSignal(id)

SysCvarWait(cvar_id) ==
  BadId(cvar_id) \/ CvarWaitOnCvar(cvar_id) \/ CvarWaitOnLock(cvar_id)

SysReclaim(id) == BadId(id) \/ SyncReclaim(id)

Next == \/ clock_handler \/ SysDelay \/ SysExit
        \/ InitFails \/ InitFaults \/ SyncInit(LOCK) \/ SyncInit(CVAR)
        \/ \E id \in Ids : \/ SysLockAcquire(id) \/ SysLockRelease(id)
                           \/ SysSignal(id) \/ SysReclaim(id) \/ SysCvarWait(id)

SyncSpec == Init /\ [][Next]_vars
-----------------------------------------------------------------------------
Locks == {id \in Ids : Is(id, LOCK)}

(* Types; the counter neither wraps below 0 nor passes MAX_SYNCS.          *)
TypeOK ==
  /\ current \in Procs
  /\ state \in [Procs -> {"DEFAULT", "RUNNING", "READY", "DELAYED", "BLOCKED", "ZOMBIE"}]
  /\ ready \in Seq(Procs)
  /\ delayed \subseteq Procs
  /\ sync_table \in [Ids -> Objects \cup {NULL}]
  /\ id_used \in [Ids -> {0, 1}]
  /\ global_sync_counter \in 0..MAX_SYNCS
  /\ waiting_lock_id \in [Procs -> Ids \cup {-1}]
  /\ answer \in {SUCCESS, ERROR, PCB_BLOCKED}
  /\ fault \in {"none", "NULL object", "NULL owner", "wrong type", "relinked"}
  /\ holds \in [Procs -> SUBSET Ids]

(* An id is used exactly while its table entry is set, and the counter      *)
(* counts the used ones, through every failure of an Init: otherwise Inits  *)
(* fail with ids to spare, or write the entry of id ERROR.                  *)
IdsExact == /\ \A i \in Ids : id_used[i] = 1 <=> sync_table[i] # NULL
            /\ global_sync_counter = Cardinality({i \in Ids : id_used[i] = 1})

(* Mutual exclusion: a process that Acquire told it has the lock, and that  *)
(* has not released it, is its owner.                                       *)
MutualExclusion == \A p \in Procs : \A id \in holds[p] :
  Is(id, LOCK) /\ sync_table[id].locked /\ sync_table[id].owner = p

(* A lock somebody waits for is held, in the name of a process: no Release  *)
(* leaves waiters in front of a free lock, which nobody would hand on to    *)
(* them.  (The owner need not be alive: SysExit keeps its locks.)           *)
WaitersBehindOwner == \A id \in Locks :
  LET lock == sync_table[id] IN
  /\ lock.locked <=> lock.owner # NULL
  /\ lock.waiters # <<>> => lock.locked

Zombies == {p \in Procs : state[p] = "ZOMBIE"}

(* What a comment of the source asks for, and does not hold: "for any       *)
(* add_to_{}_queue call make sure the process is either (1) new or (2) had  *)
(* remove_from_{}_queue called on it" (pcb.c).  A queue_node is in one      *)
(* list, once: ready_queue, delay_queue, zombie_queue or one wait list.     *)
OneList ==
  /\ IsInjective(ready)
  /\ ToSet(ready) \cap delayed = {} /\ Zombies \cap (ToSet(ready) \cup delayed) = {}
  /\ \A id \in Locks :
       LET w == sync_table[id].waiters IN
       /\ IsInjective(w)
       /\ ToSet(w) \cap (ToSet(ready) \cup delayed \cup Zombies) = {}
       /\ \A other \in Locks \ {id} : ToSet(w) \cap ToSet(sync_table[other].waiters) = {}

(* Only a process that calls while it is itself in a list, which Acquire    *)
(* let go on, puts a node in a second one: hand-overs, the clock and a      *)
(* reclaimed lock, whose waiters stay as they are, never do.                *)
LinkedByCaller == [][OneList' \/ Linked(current)]_vars

(* Nobody is overtaken: while somebody waits for a lock, only the first of  *)
(* them can become its owner, and does so as the next process made ready;   *)
(* the others keep their places, until the lock is reclaimed.               *)
LineOf(id) ==
  LET lock == sync_table[id] IN
  \/ ~ Valid(id)'
  \/ Joined(lock.waiters, lock.waiters') /\ (lock.waiters # <<>> => lock.owner' = lock.owner)
  \/ /\ HeadLeaves(lock.waiters, lock.waiters')
     /\ lock.owner' = Head(lock.waiters)
     /\ ready' = Append(ready, Head(lock.waiters))

NoOvertaking == [][ReadyInLine /\ \A id \in Locks : LineOf(id)]_vars
=============================================================================
