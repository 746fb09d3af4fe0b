---------------------------- MODULE SyncProofs ----------------------------
(* Ids, locks and wait lists (sync.c) are right with any number of          *)
(* processes and ids.                                                       *)
(*                                                                          *)
(* SyncInv holds until a process that is in a list links itself in another: *)
(* that a waiter's waiting_lock_id is the lock it waits for keeps the wait  *)
(* lists apart from each other, and that a waiter is neither ready, delayed *)
(* nor dead keeps them apart from the scheduler's lists.  Ind is inductive: *)
(* of the state after such a call, the last one followed, it says less.     *)
EXTENDS Sync, SchedProofs

USE DEF LOCK, CVAR

(* The entry l of a lock, whose id is id, beside the waiting_lock_id wl.    *)
LockOK(l, id, wl) ==
  /\ l.locked <=> l.owner # NULL
  /\ l.waiters # <<>> => l.locked
  /\ Once(l.waiters)
  /\ \A p : At(l.waiters, p) => wl[p] = id

SyncInv == /\ TypeOK
           /\ SchedOK
           /\ IdsExact
           /\ MutualExclusion
           /\ \A id \in Locks : LockOK(sync_table[id], id, waiting_lock_id)
           /\ \A id \in Locks : \A p :
                At(sync_table[id].waiters, p) => ~ Listed(p) /\ ~ Dead(p)

Relinked == /\ fault = "relinked"
            /\ TypeOK /\ IdsExact /\ MutualExclusion /\ WaitersBehindOwner

Ind == SyncInv \/ Relinked

LEMMA LinkedIs ==
  ASSUME TypeOK, NEW p
  PROVE  Linked(p) <=> \/ Listed(p)
                       \/ \E i \in Ids : Valid(i) /\ At(sync_table[i].waiters, p)
<1>1. ready \in Seq(Procs)
  BY DEF TypeOK
<1>2. \A i \in Ids : Valid(i) => sync_table[i].waiters \in Seq(Procs)
  BY DEF TypeOK, Valid, Objects
<1>3. p \in ToSet(ready) <=> At(ready, p)
  BY <1>1, AtIsMember
<1>4. ASSUME NEW i \in Ids, Valid(i)
      PROVE  p \in ToSet(sync_table[i].waiters) <=> At(sync_table[i].waiters, p)
  BY <1>2, <1>4, AtIsMember
<1> QED
  BY <1>3, <1>4 DEF Linked, Listed

(* Nobody holds anything that is not a lock's id, and a lock's entry is one. *)
LEMMA LockFacts ==
  ASSUME SyncInv, NEW id \in Ids, Is(id, LOCK)
  PROVE  /\ id \in Locks
         /\ sync_table[id] \in Objects
         /\ sync_table[id].waiters \in Seq(Procs)
         /\ LockOK(sync_table[id], id, waiting_lock_id)
         /\ \A p : At(sync_table[id].waiters, p) => ~ Listed(p) /\ ~ Dead(p)
<1>1. id \in Locks
  BY DEF Locks
<1>2. sync_table[id] \in Objects
  BY DEF SyncInv, TypeOK, Is, Valid
<1> QED
  BY <1>1, <1>2 DEF SyncInv, Objects

LEMMA InvImplies ==
  ASSUME SyncInv
  PROVE  TypeOK /\ IdsExact /\ MutualExclusion /\ WaitersBehindOwner /\ OneList
<1>1. ready \in Seq(Procs)
  BY DEF SyncInv, TypeOK
<1>2. IsInjective(ready) /\ \A p : p \in ToSet(ready) <=> At(ready, p)
  BY <1>1, AtIsMember DEF SyncInv, SchedOK
<1>3. ASSUME NEW id \in Locks
      PROVE  /\ LockOK(sync_table[id], id, waiting_lock_id)
             /\ \A p : At(sync_table[id].waiters, p) => ~ Listed(p) /\ ~ Dead(p)
             /\ IsInjective(sync_table[id].waiters)
             /\ \A p : p \in ToSet(sync_table[id].waiters) <=> At(sync_table[id].waiters, p)
  <2>1. id \in Ids /\ Is(id, LOCK)
    BY DEF Locks
  <2>2. sync_table[id].waiters \in Seq(Procs) /\ LockOK(sync_table[id], id, waiting_lock_id)
    BY <2>1, LockFacts
  <2> QED
    BY <2>1, <2>2, LockFacts, AtIsMember DEF LockOK
<1>4. WaitersBehindOwner
  BY <1>3 DEF WaitersBehindOwner, LockOK
<1>5. OneList
  <2>1. ToSet(ready) \cap delayed = {} /\ Zombies \cap (ToSet(ready) \cup delayed) = {}
    BY <1>2 DEF SyncInv, SchedOK, Dead, Zombies
  <2>2. ASSUME NEW id \in Locks
        PROVE  ToSet(sync_table[id].waiters) \cap (ToSet(ready) \cup delayed \cup Zombies) = {}
    BY <1>2, <1>3 DEF Listed, Dead, Zombies
  <2>3. ASSUME NEW id \in Locks, NEW other \in Locks \ {id}
        PROVE  ToSet(sync_table[id].waiters) \cap ToSet(sync_table[other].waiters) = {}
    BY <1>3 DEF LockOK
  <2> QED
    BY <1>2, <1>3, <2>1, <2>2, <2>3 DEF OneList
<1> QED
  BY <1>4, <1>5 DEF SyncInv

LEMMA InitInv == Init => SyncInv
<1> SUFFICES ASSUME Init
             PROVE  SyncInv
  OBVIOUS
<1>1. SchedOK
  BY SyncAssumption, AllForkedOK DEF Init
<1>2. TypeOK
  BY <1>1, SyncAssumption DEF Init, TypeOK, SchedOK, States6, Ids, SUCCESS
<1>3. \A i \in Ids : ~ Is(i, LOCK)
  BY DEF Init, Is, Valid
<1>4. IdsExact
  <2>1. {i \in Ids : id_used[i] = 1} = {}
    BY DEF Init
  <2> QED
    BY <2>1, FS_EmptySet DEF Init, IdsExact
<1> QED
  BY <1>1, <1>2, <1>3, <1>4 DEF SyncInv, MutualExclusion, Locks, Init
-----------------------------------------------------------------------------
(* The table, the ids and who holds what are left alone, and only a process *)
(* that waits for no lock joins the scheduler's lists.                      *)
LEMMA SchedStep ==
  ASSUME SyncInv, SchedOK',
         UNCHANGED <<ids, waiting_lock_id, holds>>,
         answer' \in {SUCCESS, ERROR, PCB_BLOCKED},
         fault' \in {"none", "NULL object", "NULL owner", "wrong type", "relinked"},
         \A p : Listed(p)' => Listed(p) \/ ~ Linked(p),
         \A p : Dead(p)' => Dead(p) \/ ~ Linked(p)
  PROVE  SyncInv'
<1>1. TypeOK'
  BY DEF SyncInv, TypeOK, SchedOK, States6, ids
<1>2. IdsExact' /\ MutualExclusion' /\ Locks' = Locks
  BY DEF SyncInv, IdsExact, MutualExclusion, Locks, Is, Valid, ids
<1>3. ASSUME NEW id \in Locks, NEW p, At(sync_table[id].waiters, p)
      PROVE  ~ Listed(p)' /\ ~ Dead(p)'
  <2>1. id \in Ids /\ Valid(id) /\ TypeOK /\ ~ Listed(p) /\ ~ Dead(p)
    BY <1>3 DEF Locks, Is, SyncInv
  <2>2. Linked(p)
    BY <1>3, <2>1, LinkedIs
  <2> QED
    BY <2>1, <2>2
<1>4. \A id \in Locks : LockOK(sync_table[id], id, waiting_lock_id)
  BY DEF SyncInv
<1> QED
  BY <1>1, <1>2, <1>3, <1>4 DEF SyncInv, ids

(* The entry of one lock becomes l.                                         *)
LEMMA EntryStep ==
  ASSUME SyncInv, SchedOK',
         NEW id \in Ids, Is(id, LOCK),
         NEW l \in Objects, l.type = LOCK,
         sync_table' = [sync_table EXCEPT ![id] = l],
         UNCHANGED <<id_used, global_sync_counter, fault>>,
         waiting_lock_id' \in [Procs -> Ids \cup {-1}],
         answer' \in {SUCCESS, ERROR, PCB_BLOCKED},
         holds' \in [Procs -> SUBSET Ids],
         LockOK(l, id, waiting_lock_id'),
         \A p : Dead(p)' => Dead(p),
         \A p : At(l.waiters, p) => ~ Listed(p)' /\ ~ Dead(p)',
         \A i \in Locks \ {id} : \A p : At(sync_table[i].waiters, p) =>
            ~ Listed(p)' /\ waiting_lock_id'[p] = waiting_lock_id[p],
         \A p \in Procs : \A i \in holds'[p] :
            IF i = id THEN l.locked /\ l.owner = p ELSE i \in holds[p]
  PROVE  SyncInv'
<1>1. /\ sync_table' \in [Ids -> Objects \cup {NULL}]
      /\ sync_table'[id] = l
      /\ \A i \in Ids \ {id} : sync_table'[i] = sync_table[i]
  BY DEF SyncInv, TypeOK
<1>2. TypeOK'
  BY <1>1 DEF SyncInv, TypeOK, SchedOK, States6
<1>3. l # NULL /\ sync_table[id] # NULL
  BY SyncAssumption DEF Is, Valid
<1>4. IdsExact'
  BY <1>1, <1>3 DEF SyncInv, IdsExact
<1>5. Is(id, LOCK)' /\ \A i \in Ids \ {id} : Is(i, LOCK)' <=> Is(i, LOCK)
  BY <1>1, <1>3 DEF Is, Valid
<1>6. Locks' = Locks /\ id \in Locks
  BY <1>5 DEF Locks
<1>7. MutualExclusion'
  <2> SUFFICES ASSUME NEW p \in Procs, NEW i \in holds'[p]
               PROVE  (Is(i, LOCK) /\ sync_table[i].locked /\ sync_table[i].owner = p)'
    BY DEF MutualExclusion
  <2>1. CASE i = id
    BY <1>1, <1>5, <2>1
  <2>2. CASE i # id
    <3>1. i \in Ids /\ Is(i, LOCK) /\ sync_table[i].locked /\ sync_table[i].owner = p
      BY <2>2 DEF SyncInv, MutualExclusion, Is, Valid
    <3> QED
      BY <1>1, <1>5, <2>2, <3>1
  <2> QED
    BY <2>1, <2>2
<1>8. ASSUME NEW i \in Locks
      PROVE  /\ LockOK(sync_table'[i], i, waiting_lock_id')
             /\ \A p : At(sync_table'[i].waiters, p) => ~ Listed(p)' /\ ~ Dead(p)'
  <2>1. CASE i = id
    BY <1>1, <2>1
  <2>2. CASE i # id
    <3>1. /\ sync_table'[i] = sync_table[i] /\ LockOK(sync_table[i], i, waiting_lock_id)
          /\ \A p : At(sync_table[i].waiters, p) => ~ Dead(p)
      BY <1>1, <2>2 DEF Locks, SyncInv
    <3> QED
      BY <2>2, <3>1 DEF LockOK
  <2> QED
    BY <2>1, <2>2
<1> QED
  BY <1>2, <1>4, <1>6, <1>7, <1>8 DEF SyncInv
-----------------------------------------------------------------------------
(* GetNewID finds a free id as long as the table is not full: the counter   *)
(* is exact, so not all are used, and a set of naturals has a least one.    *)
LEMMA NewID ==
  ASSUME TypeOK, IdsExact, ~ Full
  PROVE  GetNewID \in Ids /\ id_used[GetNewID] = 0 /\ sync_table[GetNewID] = NULL
<1> DEFINE U == {i \in Ids : id_used[i] = 1}
<1>1. IsFiniteSet(Ids) /\ Cardinality(Ids) = MAX_SYNCS
  BY SyncAssumption, FS_Interval DEF Ids
<1>2. U # Ids
  <2>1. global_sync_counter = Cardinality(U)
    BY DEF IdsExact
  <2>2. global_sync_counter \in Int
    <3>1. global_sync_counter \in 0..MAX_SYNCS
      BY DEF TypeOK
    <3> QED
      BY <3>1, SyncAssumption
  <2> HIDE DEF U
  <2> QED
    BY <1>1, <2>1, <2>2, SyncAssumption DEF Full
<1>3. FreeIds \subseteq Ids /\ FreeIds # {}
  BY <1>2 DEF FreeIds, TypeOK
<1>4. FreeIds \subseteq Nat
  BY <1>3 DEF Ids
<1>6. \E m \in FreeIds : \A j \in FreeIds : m <= j
  BY <1>3, <1>4, LeastNatural
<1>7. GetNewID \in FreeIds
  BY <1>6 DEF GetNewID
<1>8. \A i \in Ids : id_used[i] = 1 <=> sync_table[i] # NULL
  BY DEF IdsExact
<1> QED
  BY <1>3, <1>7, <1>8 DEF FreeIds

(* One id more, or one less, is used, and the counter follows.              *)
LEMMA CountUp ==
  ASSUME TypeOK, IdsExact, NEW id \in Ids, id_used[id] = 0,
         id_used' = [id_used EXCEPT ![id] = 1],
         global_sync_counter' = global_sync_counter + 1
  PROVE  /\ global_sync_counter' = Cardinality({i \in Ids : id_used'[i] = 1})
         /\ global_sync_counter' \in 0..MAX_SYNCS
<1> DEFINE U == {i \in Ids : id_used[i] = 1}
           V == {i \in Ids : id_used'[i] = 1}
<1>1. IsFiniteSet(Ids) /\ Cardinality(Ids) = MAX_SYNCS
  BY SyncAssumption, FS_Interval DEF Ids
<1>2. V = U \cup {id} /\ id \notin U
  <2>1. \A i \in Ids : id_used'[i] = IF i = id THEN 1 ELSE id_used[i]
    BY DEF TypeOK
  <2> QED
    BY <2>1
<1>3. IsFiniteSet(U) /\ V \in SUBSET Ids
  BY <1>1, FS_Subset
<1>4. global_sync_counter = Cardinality(U)
  BY DEF IdsExact
<1> HIDE DEF U, V
<1>5. Cardinality(V) = Cardinality(U) + 1
  BY <1>2, <1>3, FS_AddElement
<1>6. Cardinality(V) <= MAX_SYNCS /\ Cardinality(V) \in Nat
  BY <1>1, <1>3, FS_Subset, FS_CardinalityType
<1> QED
  BY <1>4, <1>5, <1>6, SyncAssumption DEF V

LEMMA CountDown ==
  ASSUME TypeOK, IdsExact, NEW id \in Ids, id_used[id] = 1,
         id_used' = [id_used EXCEPT ![id] = 0],
         global_sync_counter' = global_sync_counter - 1
  PROVE  /\ global_sync_counter' = Cardinality({i \in Ids : id_used'[i] = 1})
         /\ global_sync_counter' \in 0..MAX_SYNCS
<1> DEFINE U == {i \in Ids : id_used[i] = 1}
           V == {i \in Ids : id_used'[i] = 1}
<1>1. IsFiniteSet(Ids) /\ Cardinality(Ids) = MAX_SYNCS
  BY SyncAssumption, FS_Interval DEF Ids
<1>2. V = U \ {id} /\ id \in U
  <2>1. \A i \in Ids : id_used'[i] = IF i = id THEN 0 ELSE id_used[i]
    BY DEF TypeOK
  <2> QED
    BY <2>1
<1>3. IsFiniteSet(U) /\ V \in SUBSET Ids
  BY <1>1, FS_Subset
<1>4. global_sync_counter = Cardinality(U)
  BY DEF IdsExact
<1> HIDE DEF U, V
<1>5. Cardinality(V) = Cardinality(U) - 1
  BY <1>2, <1>3, FS_RemoveElement
<1>6. Cardinality(V) <= MAX_SYNCS /\ Cardinality(V) \in Nat
  BY <1>1, <1>3, FS_Subset, FS_CardinalityType
<1> QED
  BY <1>4, <1>5, <1>6, SyncAssumption DEF V

LEMMA InitKeeps ==
  ASSUME SyncInv, NEW type \in {LOCK, CVAR}, SyncInit(type)
  PROVE  SyncInv'
<1> DEFINE id == GetNewID
           l == NewObject(type)
<1>1. id \in Ids /\ id_used[id] = 0 /\ sync_table[id] = NULL
  BY NewID DEF SyncInit, SyncInv
<1> HIDE DEF id
<1>2. /\ l \in Objects /\ l # NULL
      /\ l.type = type /\ l.locked = FALSE /\ l.owner = NULL /\ l.waiters = <<>>
  <2>1. l \in Objects
    BY EmptySeq DEF NewObject, Objects
  <2> QED
    BY <2>1, SyncAssumption DEF NewObject
<1>3. /\ sync_table' = [sync_table EXCEPT ![id] = l]
      /\ id_used' = [id_used EXCEPT ![id] = 1]
      /\ global_sync_counter' = global_sync_counter + 1
      /\ UNCHANGED <<sched, waiting_lock_id, holds, fault>> /\ answer' = SUCCESS
  BY DEF SyncInit, Answers, id
<1>4. /\ global_sync_counter' = Cardinality({i \in Ids : id_used'[i] = 1})
      /\ global_sync_counter' \in 0..MAX_SYNCS
  BY <1>1, <1>3, CountUp DEF SyncInv
<1> HIDE DEF l
<1>5. /\ sync_table' \in [Ids -> Objects \cup {NULL}]
      /\ sync_table'[id] = l
      /\ \A i \in Ids \ {id} : sync_table'[i] = sync_table[i]
  BY <1>1, <1>2, <1>3 DEF SyncInv, TypeOK
<1>6. TypeOK' /\ SchedOK'
  BY <1>3, <1>4, <1>5 DEF SyncInv, TypeOK, SchedOK, Dead, sched
<1>7. IdsExact'
  BY <1>1, <1>2, <1>3, <1>4, <1>5 DEF SyncInv, IdsExact, TypeOK
<1>8. \A i \in Ids \ {id} : Is(i, LOCK)' <=> Is(i, LOCK)
  BY <1>5 DEF Is, Valid
<1>9. ~ Is(id, LOCK)
  BY <1>1 DEF Is, Valid
<1>10. MutualExclusion'
  <2> SUFFICES ASSUME NEW p \in Procs, NEW i \in holds'[p]
               PROVE  (Is(i, LOCK) /\ sync_table[i].locked /\ sync_table[i].owner = p)'
    BY DEF MutualExclusion
  <2>1. Is(i, LOCK) /\ sync_table[i].locked /\ sync_table[i].owner = p
    BY <1>3 DEF SyncInv, MutualExclusion
  <2>2. i \in Ids \ {id}
    BY <1>9, <2>1 DEF Is, Valid
  <2> QED
    BY <1>5, <1>8, <2>1, <2>2
<1>11. ASSUME NEW i \in Locks'
       PROVE  /\ LockOK(sync_table'[i], i, waiting_lock_id')
              /\ \A p : At(sync_table'[i].waiters, p) => ~ Listed(p)' /\ ~ Dead(p)'
  <2>1. CASE i = id
    <3>1. \A p : ~ At(l.waiters, p)
      BY <1>2 DEF At
    <3> QED
      BY <1>2, <1>5, <2>1, <3>1 DEF LockOK, Once
  <2>2. CASE i # id
    <3>1. i \in Locks /\ sync_table'[i] = sync_table[i]
      BY <1>5, <1>8, <2>2 DEF Locks
    <3> QED
      BY <1>3, <3>1 DEF SyncInv, sched, Listed, Dead
  <2> QED
    BY <2>1, <2>2
<1> QED
  BY <1>6, <1>7, <1>10, <1>11 DEF SyncInv

(* Who waited is in no list, and nobody holds the id any more.              *)
LEMMA ReclaimKeeps ==
  ASSUME SyncInv, NEW id \in Ids, SyncReclaim(id)
  PROVE  SyncInv'
<1>1. id_used[id] = 1
  BY DEF SyncReclaim, Valid, SyncInv, IdsExact
<1>2. /\ sync_table' = [sync_table EXCEPT ![id] = NULL]
      /\ id_used' = [id_used EXCEPT ![id] = 0]
      /\ global_sync_counter' = global_sync_counter - 1
      /\ holds' = [p \in Procs |-> holds[p] \ {id}]
      /\ UNCHANGED <<sched, waiting_lock_id, fault>> /\ answer' = SUCCESS
  BY DEF SyncReclaim, Answers
<1>3. /\ global_sync_counter' = Cardinality({i \in Ids : id_used'[i] = 1})
      /\ global_sync_counter' \in 0..MAX_SYNCS
  BY <1>1, <1>2, CountDown DEF SyncInv
<1>4. /\ sync_table' \in [Ids -> Objects \cup {NULL}]
      /\ sync_table'[id] = NULL
      /\ \A i \in Ids \ {id} : sync_table'[i] = sync_table[i]
  BY <1>2 DEF SyncInv, TypeOK
<1>5. TypeOK' /\ SchedOK'
  BY <1>2, <1>3, <1>4 DEF SyncInv, TypeOK, SchedOK, Dead, sched
<1>6. IdsExact'
  <2>1. \A i \in Ids : id_used'[i] = IF i = id THEN 0 ELSE id_used[i]
    BY <1>2 DEF SyncInv, TypeOK
  <2>2. \A i \in Ids : id_used[i] = 1 <=> sync_table[i] # NULL
    BY DEF SyncInv, IdsExact
  <2>3. \A i \in Ids : id_used'[i] = 1 <=> sync_table'[i] # NULL
    BY <1>4, <2>1, <2>2
  <2> QED
    BY <1>3, <2>3 DEF IdsExact
<1>7. ~ Is(id, LOCK)' /\ \A i \in Ids \ {id} : Is(i, LOCK)' <=> Is(i, LOCK)
  BY <1>4 DEF Is, Valid
<1>8. MutualExclusion'
  <2> SUFFICES ASSUME NEW p \in Procs, NEW i \in holds'[p]
               PROVE  (Is(i, LOCK) /\ sync_table[i].locked /\ sync_table[i].owner = p)'
    BY DEF MutualExclusion
  <2>1. i # id /\ Is(i, LOCK) /\ sync_table[i].locked /\ sync_table[i].owner = p
    BY <1>2 DEF SyncInv, MutualExclusion
  <2>2. i \in Ids \ {id}
    BY <2>1 DEF Is, Valid
  <2> QED
    BY <1>4, <1>7, <2>1, <2>2
<1>9. ASSUME NEW i \in Locks'
      PROVE  i \in Locks /\ sync_table'[i] = sync_table[i]
  BY <1>4, <1>7, <1>9 DEF Locks
<1> QED
  BY <1>2, <1>5, <1>6, <1>8, <1>9 DEF SyncInv, sched, Listed, Dead
-----------------------------------------------------------------------------
(* What the lock actions find: the caller is no idle process, and whether   *)
(* its queue_node is in no wait list if it is not Linked.                   *)
LEMMA NotLinked ==
  ASSUME SyncInv, NEW p, ~ Linked(p)
  PROVE  ~ Listed(p) /\ \A i \in Locks : ~ At(sync_table[i].waiters, p)
  BY LinkedIs DEF SyncInv, Locks, Is

LEMMA AcquireFreeKeeps ==
  ASSUME SyncInv, NEW id \in Ids, AcquireFree(id)
  PROVE  SyncInv'
<1> DEFINE l == [sync_table[id] EXCEPT !.locked = TRUE, !.owner = current]
<1>1. /\ Is(id, LOCK) /\ sync_table[id].locked = FALSE
      /\ holds' = [holds EXCEPT ![current] = @ \cup {id}]
      /\ answer' = SUCCESS
      /\ UNCHANGED <<sched, id_used, global_sync_counter, waiting_lock_id, fault>>
  <2>1. sync_table[id].locked \in BOOLEAN
    BY LockFacts DEF AcquireFree, Objects
  <2> QED
    BY <2>1 DEF AcquireFree, Answers
<1>2. sync_table' = [sync_table EXCEPT ![id] = l]
  BY DEF AcquireFree
<1>3. /\ sync_table[id] \in Objects
      /\ LockOK(sync_table[id], id, waiting_lock_id)
      /\ \A p : At(sync_table[id].waiters, p) => ~ Listed(p) /\ ~ Dead(p)
  BY <1>1, LockFacts
<1>4. current \in Procs /\ current # NULL
  BY SyncAssumption DEF SyncInv, SchedOK
<1>5. /\ l \in Objects /\ l.type = LOCK
      /\ l.locked = TRUE /\ l.owner = current /\ l.waiters = sync_table[id].waiters
  BY <1>1, <1>3, <1>4 DEF Objects, Is
<1> HIDE DEF l
<1>6. LockOK(l, id, waiting_lock_id')
  BY <1>1, <1>3, <1>4, <1>5 DEF LockOK
<1>7. holds \in [Procs -> SUBSET Ids] /\ holds' \in [Procs -> SUBSET Ids]
  BY <1>1 DEF SyncInv, TypeOK
<1>8. \A p \in Procs : id \notin holds[p]
  BY <1>1 DEF SyncInv, MutualExclusion
<1>9. \A p \in Procs : \A i \in holds'[p] :
         IF i = id THEN l.locked /\ l.owner = p ELSE i \in holds[p]
  BY <1>1, <1>4, <1>5, <1>7, <1>8
<1>10. SchedOK' /\ \A p : (Listed(p)' <=> Listed(p)) /\ (Dead(p)' <=> Dead(p))
  BY <1>1 DEF SyncInv, SchedOK, sched, Listed, Dead
<1>11. \A i \in Locks \ {id} : \A p : At(sync_table[i].waiters, p) =>
          ~ Listed(p)' /\ waiting_lock_id'[p] = waiting_lock_id[p]
  BY <1>1, <1>10 DEF SyncInv
<1>12. waiting_lock_id' \in [Procs -> Ids \cup {-1}]
  BY <1>1 DEF SyncInv, TypeOK
<1>13. \A p : At(l.waiters, p) => ~ Listed(p)' /\ ~ Dead(p)'
  BY <1>3, <1>5, <1>10
<1>14. /\ Is(id, LOCK) /\ answer' \in {SUCCESS, ERROR, PCB_BLOCKED}
       /\ UNCHANGED <<id_used, global_sync_counter, fault>>
  BY <1>1
<1> QED
  BY <1>2, <1>5, <1>6, <1>7, <1>9, <1>10, <1>11, <1>12, <1>13, <1>14, EntryStep

(* A caller that was in no list joins this one.                             *)
LEMMA AcquireHeldKeeps ==
  ASSUME SyncInv, NEW id \in Ids, AcquireHeld(id), ~ Linked(current)
  PROVE  SyncInv'
<1> DEFINE w == Append(sync_table[id].waiters, current)
           l == [sync_table[id] EXCEPT !.waiters = w]
<1>1. /\ Is(id, LOCK) /\ sync_table[id].locked
      /\ state' = [state EXCEPT ![current] = "BLOCKED"]
      /\ waiting_lock_id' = [waiting_lock_id EXCEPT ![current] = id]
      /\ answer' = PCB_BLOCKED
      /\ UNCHANGED <<current, ready, delayed, id_used, global_sync_counter, holds, fault>>
  BY DEF AcquireHeld, LinksCaller
<1>2. sync_table' = [sync_table EXCEPT ![id] = l]
  BY DEF AcquireHeld
<1>3. /\ sync_table[id] \in Objects
      /\ sync_table[id].waiters \in Seq(Procs)
      /\ LockOK(sync_table[id], id, waiting_lock_id)
      /\ \A p : At(sync_table[id].waiters, p) => ~ Listed(p) /\ ~ Dead(p)
  BY <1>1, LockFacts
<1>4. current \in Procs /\ waiting_lock_id \in [Procs -> Ids \cup {-1}]
  BY DEF SyncInv, SchedOK, TypeOK
<1>5. ~ Listed(current) /\ \A i \in Locks : ~ At(sync_table[i].waiters, current)
  BY NotLinked
<1>6. id \in Locks
  BY <1>1 DEF Locks
<1>7. /\ w \in Seq(Procs)
      /\ Once(w)
      /\ \A p : At(w, p) <=> At(sync_table[id].waiters, p) \/ p = current
  BY <1>3, <1>4, <1>5, <1>6, AppendOnce DEF LockOK
<1> HIDE DEF w
<1>8. /\ l \in Objects /\ l.type = LOCK
      /\ l.locked = TRUE /\ l.owner = sync_table[id].owner /\ l.waiters = w
  BY <1>1, <1>3, <1>7 DEF Objects, Is
<1> HIDE DEF l
<1>9. /\ SchedOK' /\ \A p : Listed(p)' <=> Listed(p)
      /\ \A p : Dead(p)' <=> Dead(p) /\ p # current
  BY <1>1 DEF SyncInv, SchedOK, States6, Listed, Dead
<1>10. LockOK(l, id, waiting_lock_id')
  <2>1. \A p : At(w, p) => p \in Procs
    BY <1>7 DEF At
  <2>2. \A p : At(w, p) => waiting_lock_id'[p] = id
    BY <1>1, <1>3, <1>4, <1>7, <2>1 DEF LockOK
  <2> QED
    BY <1>1, <1>3, <1>7, <1>8, <2>2 DEF LockOK
<1>11. \A p : At(l.waiters, p) => ~ Listed(p)' /\ ~ Dead(p)'
  BY <1>3, <1>5, <1>7, <1>8, <1>9
<1>12. \A p \in Procs : \A i \in holds'[p] :
         IF i = id THEN l.locked /\ l.owner = p ELSE i \in holds[p]
  BY <1>1, <1>8 DEF SyncInv, MutualExclusion
<1>13. ASSUME NEW i \in Locks \ {id}, NEW p, At(sync_table[i].waiters, p)
       PROVE  ~ Listed(p)' /\ waiting_lock_id'[p] = waiting_lock_id[p]
  BY <1>1, <1>4, <1>5, <1>9, <1>13 DEF SyncInv
<1>14. waiting_lock_id' \in [Procs -> Ids \cup {-1}] /\ holds' \in [Procs -> SUBSET Ids]
  BY <1>1, <1>4 DEF SyncInv, TypeOK
<1> QED
  BY <1>1, <1>2, <1>8, <1>9, <1>10, <1>11, <1>12, <1>13, <1>14, EntryStep

(* The first waiter leaves the list, and is ready and the owner.            *)
LEMMA ReleaseToWaiterKeeps ==
  ASSUME SyncInv, NEW id \in Ids, ReleaseToWaiter(id)
  PROVE  SyncInv'
<1> DEFINE old == sync_table[id].waiters
           next == Head(old)
           l == [sync_table[id] EXCEPT !.waiters = Tail(@), !.owner = next]
<1>1. /\ Is(id, LOCK) /\ sync_table[id].owner = current /\ old # <<>>
      /\ ready' = Append(ready, next)
      /\ state' = [state EXCEPT ![next] = "READY"]
      /\ waiting_lock_id' = [waiting_lock_id EXCEPT ![next] = -1]
      /\ holds' = [holds EXCEPT ![current] = @ \ {id}]
      /\ answer' = SUCCESS
      /\ UNCHANGED <<current, delayed, id_used, global_sync_counter, fault>>
  BY DEF ReleaseToWaiter, HandOver, Owned, Answers
<1>2. sync_table' = [sync_table EXCEPT ![id] = l]
  BY DEF ReleaseToWaiter, HandOver
<1>3. /\ id \in Locks
      /\ sync_table[id] \in Objects
      /\ old \in Seq(Procs)
      /\ LockOK(sync_table[id], id, waiting_lock_id)
      /\ \A p : At(old, p) => ~ Listed(p) /\ ~ Dead(p)
  BY <1>1, LockFacts
<1>4. /\ next \in Procs
      /\ At(old, next)
      /\ Tail(old) \in Seq(Procs)
      /\ Once(Tail(old))
      /\ \A p : At(Tail(old), p) <=> At(old, p) /\ p # next
  BY <1>1, <1>3, TailOnce DEF LockOK
<1>5. next # NULL /\ current \in Procs
  BY <1>4, SyncAssumption DEF SyncInv, SchedOK
<1>6. /\ l \in Objects /\ l.type = LOCK
      /\ l.locked = sync_table[id].locked /\ l.owner = next /\ l.waiters = Tail(old)
  BY <1>1, <1>3, <1>4 DEF Objects, Is
<1>7. l.locked /\ \A p : At(old, p) => waiting_lock_id[p] = id
  BY <1>1, <1>3, <1>6 DEF LockOK
<1> HIDE DEF l, next, old
<1>8. /\ ready' \in Seq(Procs) /\ Once(ready')
      /\ \A p : At(ready', p) <=> At(ready, p) \/ p = next
  BY <1>1, <1>3, <1>4, AppendOnce DEF SyncInv, SchedOK, Listed
<1>9. /\ SchedOK' /\ \A p : Listed(p)' <=> Listed(p) \/ p = next
      /\ \A p : Dead(p)' <=> Dead(p) /\ p # next
  BY <1>1, <1>3, <1>4, <1>8 DEF SyncInv, SchedOK, States6, Listed, Dead
<1>10. waiting_lock_id \in [Procs -> Ids \cup {-1}]
  BY DEF SyncInv, TypeOK
<1>11. LockOK(l, id, waiting_lock_id')
  <2>1. \A p : At(old, p) => p \in Procs
    BY <1>3 DEF At
  <2>2. \A p : At(Tail(old), p) => waiting_lock_id'[p] = id
    BY <1>1, <1>4, <1>7, <1>10, <2>1
  <2> QED
    BY <1>4, <1>5, <1>6, <1>7, <2>2 DEF LockOK
<1>12. \A p : At(l.waiters, p) => ~ Listed(p)' /\ ~ Dead(p)'
  BY <1>3, <1>4, <1>6, <1>9
<1>13. holds \in [Procs -> SUBSET Ids] /\ holds' \in [Procs -> SUBSET Ids]
  BY <1>1 DEF SyncInv, TypeOK
<1>14. \A p \in Procs : id \in holds[p] => p = current
  BY <1>1 DEF SyncInv, MutualExclusion
<1>15. \A p \in Procs : \A i \in holds'[p] :
         IF i = id THEN l.locked /\ l.owner = p ELSE i \in holds[p]
  BY <1>1, <1>5, <1>13, <1>14
<1>16. ASSUME NEW i \in Locks \ {id}, NEW p, At(sync_table[i].waiters, p)
       PROVE  ~ Listed(p)' /\ waiting_lock_id'[p] = waiting_lock_id[p]
  <2>1. waiting_lock_id[p] = i /\ ~ Listed(p)
    BY <1>16 DEF SyncInv, LockOK
  <2>2. p # next
    BY <1>4, <1>7, <2>1
  <2>3. i \in Ids /\ Is(i, LOCK)
    BY DEF Locks
  <2>4. sync_table[i].waiters \in Seq(Procs)
    BY <2>3, LockFacts
  <2>5. p \in Procs
    BY <1>16, <2>4 DEF At
  <2> QED
    BY <1>1, <1>9, <1>10, <2>1, <2>2, <2>5
<1>17. waiting_lock_id' \in [Procs -> Ids \cup {-1}]
  BY <1>1, <1>10
<1>18. SchedOK' /\ \A p : Dead(p)' => Dead(p)
  BY <1>9
<1>19. Is(id, LOCK) /\ answer' = SUCCESS /\ UNCHANGED <<id_used, global_sync_counter, fault>>
  BY <1>1
<1> QED
  BY <1>2, <1>6, <1>11, <1>12, <1>13, <1>15, <1>16, <1>17, <1>18, <1>19, EntryStep

LEMMA ReleaseFreeKeeps ==
  ASSUME SyncInv, NEW id \in Ids, ReleaseFree(id)
  PROVE  SyncInv'
<1> DEFINE l == [sync_table[id] EXCEPT !.locked = FALSE, !.owner = NULL]
<1>1. /\ Is(id, LOCK) /\ sync_table[id].owner = current
      /\ sync_table[id].waiters = <<>>
      /\ holds' = [holds EXCEPT ![current] = @ \ {id}]
      /\ answer' = SUCCESS
      /\ UNCHANGED <<sched, id_used, global_sync_counter, waiting_lock_id, fault>>
  BY DEF ReleaseFree, Owned, Answers
<1>2. sync_table' = [sync_table EXCEPT ![id] = l]
  BY DEF ReleaseFree
<1>3. sync_table[id] \in Objects
  BY <1>1, LockFacts
<1>4. /\ l \in Objects /\ l.type = LOCK
      /\ l.locked = FALSE /\ l.owner = NULL /\ l.waiters = <<>>
  BY <1>1, <1>3 DEF Objects, Is
<1> HIDE DEF l
<1>5. LockOK(l, id, waiting_lock_id') /\ \A p : ~ At(l.waiters, p)
  BY <1>4 DEF LockOK, Once, At
<1>6. holds \in [Procs -> SUBSET Ids] /\ holds' \in [Procs -> SUBSET Ids]
  BY <1>1 DEF SyncInv, TypeOK
<1>7. \A p \in Procs : id \in holds[p] => p = current
  BY <1>1 DEF SyncInv, MutualExclusion
<1>8. \A p \in Procs : \A i \in holds'[p] : i # id /\ i \in holds[p]
  BY <1>1, <1>6, <1>7
<1>9. SchedOK' /\ \A p : (Listed(p)' <=> Listed(p)) /\ (Dead(p)' <=> Dead(p))
  BY <1>1 DEF SyncInv, SchedOK, sched, Listed, Dead
<1>10. \A i \in Locks \ {id} : \A p : At(sync_table[i].waiters, p) =>
          ~ Listed(p)' /\ waiting_lock_id'[p] = waiting_lock_id[p]
  BY <1>1, <1>9 DEF SyncInv
<1>11. waiting_lock_id' \in [Procs -> Ids \cup {-1}]
  BY <1>1 DEF SyncInv, TypeOK
<1> QED
  BY <1>1, <1>2, <1>4, <1>5, <1>6, <1>8, <1>9, <1>10, <1>11, EntryStep
-----------------------------------------------------------------------------
(* A call that fails, or faults, or does nothing but answer.                *)
LEMMA QuietKeeps ==
  ASSUME SyncInv,
         \/ Fails \/ \E f \in {"NULL object", "NULL owner", "wrong type"} : Faults(f)
         \/ \E id \in Ids : SyncCvarSignal(id) \/ CvarWaitOnCvar(id)
  PROVE  SyncInv'
<1>1. /\ UNCHANGED <<sched, ids, waiting_lock_id, holds>>
      /\ answer' \in {SUCCESS, ERROR, answer}
      /\ fault' \in {fault, "NULL object", "NULL owner", "wrong type"}
  BY DEF Fails, Faults, SyncCvarSignal, CvarWaitOnCvar, Answers
<1>2. SchedOK' /\ \A p : (Listed(p)' <=> Listed(p)) /\ (Dead(p)' <=> Dead(p))
  BY <1>1 DEF SyncInv, SchedOK, sched, Listed, Dead
<1>3. /\ answer' \in {SUCCESS, ERROR, PCB_BLOCKED}
      /\ fault' \in {"none", "NULL object", "NULL owner", "wrong type", "relinked"}
  BY <1>1 DEF SyncInv, TypeOK
<1> QED
  BY <1>1, <1>2, <1>3, SchedStep

LEMMA SchedulerKeeps ==
  ASSUME SyncInv, SysDelay \/ SysExit \/ clock_handler,
         clock_handler \/ ~ Linked(current)
  PROVE  SyncInv'
<1>1. /\ UNCHANGED <<ids, waiting_lock_id, holds>>
      /\ answer' \in {SUCCESS, answer} /\ fault' = fault
  BY DEF SysDelay, SysExit, clock_handler, LinksCaller
<1>2. /\ SchedOK' /\ \A p : Listed(p)' => Listed(p) \/ ~ Linked(p)
      /\ \A p : Dead(p)' => Dead(p) \/ ~ Linked(p)
  <2>1. CASE clock_handler
    BY <2>1, SyncAssumption, TickKeeps DEF clock_handler, SyncInv
  <2>2. CASE (SysDelay \/ SysExit) /\ ~ Linked(current)
    <3>1. Delay \/ Exit
      BY <2>2 DEF SysDelay, SysExit
    <3>2. ~ Listed(current)
      BY <2>2, NotLinked
    <3>3. /\ SchedOK' /\ \A p : Listed(p)' => Listed(p) \/ p = current
          /\ \A p : Dead(p)' => Dead(p) \/ p = current
      BY <3>1, <3>2, SyncAssumption, LeavesKeeps DEF SyncInv
    <3> QED
      BY <2>2, <3>3
  <2> QED
    BY <2>1, <2>2
<1>3. /\ answer' \in {SUCCESS, ERROR, PCB_BLOCKED}
      /\ fault' \in {"none", "NULL object", "NULL owner", "wrong type", "relinked"}
  BY <1>1 DEF SyncInv, TypeOK
<1> QED
  BY <1>1, <1>2, <1>3, SchedStep

(* The one way out of SyncInv: the caller is in a list and joins another.   *)
LinksAgain == /\ Linked(current)
              /\ SysDelay \/ SysExit \/ \E id \in Ids : AcquireHeld(id)

LEMMA RelinkOK ==
  ASSUME SyncInv, LinksAgain
  PROVE  Relinked'
<1>1. /\ fault' = "relinked" /\ answer' \in {SUCCESS, PCB_BLOCKED, answer}
      /\ UNCHANGED <<id_used, global_sync_counter, holds>>
  BY DEF LinksAgain, SysDelay, SysExit, AcquireHeld, LinksCaller, ids
<1>2. TypeOK /\ IdsExact /\ MutualExclusion /\ WaitersBehindOwner /\ SchedOK
  BY InvImplies DEF SyncInv
<1>3. CASE SysDelay \/ SysExit
  <2>1. UNCHANGED <<ids, waiting_lock_id>> /\ (Delay \/ Exit)
    BY <1>3 DEF SysDelay, SysExit
  <2>2. TypeOK'
    <3>1. PICK st \in States6 : Leaves(st) /\ delayed' \in {delayed, delayed \cup {current}}
      BY <2>1 DEF Delay, Exit, States6
    <3>2. [state EXCEPT ![current] = st] \in [Procs -> States6]
      BY <1>2 DEF SchedOK
    <3>3. current' \in Procs /\ state' \in [Procs -> States6] /\ ready' \in Seq(Procs)
      BY <1>2, <3>1, <3>2, ScheduleTakes, SyncAssumption DEF Leaves, SchedOK
    <3> QED
      BY <1>1, <1>2, <2>1, <3>1, <3>3 DEF TypeOK, States6, SchedOK, ids
  <2> QED
    BY <1>1, <1>2, <2>1, <2>2
    DEF Relinked, IdsExact, MutualExclusion, WaitersBehindOwner, Locks, Is, Valid, ids
<1>4. ASSUME NEW id \in Ids, AcquireHeld(id)
      PROVE  Relinked'
  <2> DEFINE w == Append(sync_table[id].waiters, current)
             l == [sync_table[id] EXCEPT !.waiters = w]
  <2>1. /\ Is(id, LOCK) /\ sync_table[id].locked
        /\ sync_table' = [sync_table EXCEPT ![id] = l]
        /\ state' = [state EXCEPT ![current] = "BLOCKED"]
        /\ waiting_lock_id' = [waiting_lock_id EXCEPT ![current] = id]
        /\ UNCHANGED <<current, ready, delayed>>
    BY <1>4 DEF AcquireHeld
  <2>2. w \in Seq(Procs)
    BY <1>2, <2>1, LockFacts, AppendProperties DEF SchedOK
  <2> HIDE DEF w
  <2>3. /\ l \in Objects /\ l # NULL /\ sync_table[id] # NULL /\ l.type = LOCK
        /\ l.locked = sync_table[id].locked /\ l.owner = sync_table[id].owner
        /\ sync_table[id].type = LOCK
    BY <2>1, <2>2, LockFacts, SyncAssumption DEF Objects, Is, Valid
  <2> HIDE DEF l
  <2>4. /\ sync_table' \in [Ids -> Objects \cup {NULL}]
        /\ sync_table'[id] = l
        /\ \A i \in Ids \ {id} : sync_table'[i] = sync_table[i]
    BY <1>2, <2>1, <2>3 DEF TypeOK
  <2>5. TypeOK'
    BY <1>1, <1>2, <2>1, <2>4 DEF TypeOK
  <2>6. \A i \in Ids : Is(i, LOCK)' <=> Is(i, LOCK)
    BY <2>3, <2>4 DEF Is, Valid
  <2>7. IdsExact'
    BY <1>1, <1>2, <2>3, <2>4 DEF IdsExact
  <2>8. MutualExclusion'
    <3> SUFFICES ASSUME NEW p \in Procs, NEW i \in holds'[p]
                 PROVE  (Is(i, LOCK) /\ sync_table[i].locked /\ sync_table[i].owner = p)'
      BY DEF MutualExclusion
    <3>1. i \in Ids /\ Is(i, LOCK) /\ sync_table[i].locked /\ sync_table[i].owner = p
      BY <1>1, <1>2 DEF MutualExclusion, Is, Valid
    <3>2. CASE i = id
      BY <2>3, <2>4, <2>6, <3>1, <3>2
    <3>3. CASE i # id
      BY <2>4, <2>6, <3>1, <3>3
    <3> QED
      BY <3>2, <3>3
  <2>9. WaitersBehindOwner'
    <3> SUFFICES ASSUME NEW i \in Locks'
                 PROVE  /\ sync_table'[i].locked <=> sync_table'[i].owner # NULL
                        /\ sync_table'[i].waiters # <<>> => sync_table'[i].locked
      BY DEF WaitersBehindOwner
    <3>1. i \in Locks /\ i \in Ids
      BY <2>6 DEF Locks
    <3>2. /\ sync_table[i].locked <=> sync_table[i].owner # NULL
          /\ sync_table[i].waiters # <<>> => sync_table[i].locked
      BY <1>2, <3>1 DEF WaitersBehindOwner
    <3>3. CASE i = id
      BY <2>1, <2>3, <2>4, <3>2, <3>3
    <3>4. CASE i # id
      BY <2>4, <3>1, <3>2, <3>4
    <3> QED
      BY <3>3, <3>4
  <2> QED
    BY <1>1, <2>5, <2>7, <2>8, <2>9 DEF Relinked
<1> QED
  BY <1>3, <1>4 DEF LinksAgain

(* Every other step keeps SyncInv.                                          *)
LEMMA NextKeeps ==
  ASSUME SyncInv, [Next]_vars
  PROVE  SyncInv' \/ LinksAgain
<1> SUFFICES ASSUME ~ LinksAgain
             PROVE  SyncInv'
  OBVIOUS
<1> DEFINE Quiet ==
      \/ Fails \/ \E f \in {"NULL object", "NULL owner", "wrong type"} : Faults(f)
      \/ \E id \in Ids : SyncCvarSignal(id) \/ CvarWaitOnCvar(id)
<1>0. ASSUME Quiet PROVE SyncInv'
  BY <1>0, QuietKeeps
<1>1. CASE clock_handler \/ SysDelay \/ SysExit
  BY <1>1, SchedulerKeeps DEF LinksAgain
<1>2. CASE InitFails \/ InitFaults
  BY <1>0, <1>2 DEF InitFails, InitFaults
<1>3. CASE SyncInit(LOCK) \/ SyncInit(CVAR)
  BY <1>3, InitKeeps
<1>4. ASSUME NEW id \in Ids, BadId(id) \/ WrongType(id, LOCK) \/ WrongType(id, CVAR)
      PROVE  SyncInv'
  BY <1>0, <1>4 DEF BadId, WrongType
<1>5. ASSUME NEW id \in Ids, ReleaseNotOwned(id)
      PROVE  SyncInv'
  BY <1>0, <1>5 DEF ReleaseNotOwned
<1>6. ASSUME NEW id \in Ids, SysLockAcquire(id)
      PROVE  SyncInv'
  <2>1. AcquireHeld(id) => ~ Linked(current)
    BY DEF LinksAgain
  <2> QED
    BY <1>4, <1>6, <2>1, AcquireFreeKeeps, AcquireHeldKeeps DEF SysLockAcquire
<1>7. ASSUME NEW id \in Ids, SysLockRelease(id)
      PROVE  SyncInv'
  BY <1>4, <1>5, <1>7, ReleaseFreeKeeps, ReleaseToWaiterKeeps DEF SysLockRelease
<1>8. ASSUME NEW id \in Ids, SysSignal(id)
      PROVE  SyncInv'
  BY <1>0, <1>4, <1>8 DEF SysSignal
<1>9. ASSUME NEW id \in Ids, SysReclaim(id)
      PROVE  SyncInv'
  BY <1>4, <1>9, ReclaimKeeps DEF SysReclaim
<1>10. ASSUME NEW id \in Ids, SysCvarWait(id)
       PROVE  SyncInv'
  <2>1. CASE CvarWaitOnLock(id)
    BY <1>0, <1>5, <2>1 DEF CvarWaitOnLock
  <2> QED
    BY <1>0, <1>4, <1>10, <2>1 DEF SysCvarWait
<1>11. CASE UNCHANGED vars
  <2>1. UNCHANGED <<sched, ids, waiting_lock_id, answer, fault, holds>>
    BY <1>11 DEF vars
  <2>2. SchedOK' /\ \A p : (Listed(p)' <=> Listed(p)) /\ (Dead(p)' <=> Dead(p))
    BY <2>1 DEF SyncInv, SchedOK, sched, Listed, Dead
  <2>3. answer' = answer /\ fault' = fault
    BY <2>1
  <2> QED
    BY <2>1, <2>2, <2>3, SchedStep DEF SyncInv, TypeOK
<1> QED
  BY <1>1, <1>2, <1>3, <1>6, <1>7, <1>8, <1>9, <1>10, <1>11 DEF Next

-----------------------------------------------------------------------------
(* The order in which a lock is handed on.                                  *)
LEMMA LineStays ==
  ASSUME SyncInv, NEW id \in Locks,
         \/ ~ Valid(id)'
         \/ /\ sync_table'[id].waiters = sync_table[id].waiters
            /\ sync_table[id].waiters # <<>> => sync_table'[id].owner = sync_table[id].owner
  PROVE  LineOf(id)
<1>1. sync_table[id].waiters \in Seq(Procs)
  BY LockFacts DEF Locks
<1>2. IsPrefix(sync_table[id].waiters, sync_table[id].waiters)
  <2>1. sync_table[id].waiters \o <<>> = sync_table[id].waiters /\ <<>> \in Seq(Procs)
    BY <1>1, ConcatEmptySeq
  <2> QED
    BY <1>1, <2>1, JoinedAtEnd
<1> QED
  BY <1>2 DEF LineOf, Joined

(* A step on the entry of an id leaves the lines of the others alone.       *)
LEMMA OtherLines ==
  ASSUME SyncInv, NEW id \in Ids, NEW l, sync_table' = [sync_table EXCEPT ![id] = l],
         NEW other \in Locks \ {id}
  PROVE  LineOf(other)
<1>1. sync_table'[other] = sync_table[other]
  BY DEF Locks, SyncInv, TypeOK
<1> QED
  BY <1>1, LineStays

LEMMA ReleaseInLine ==
  ASSUME SyncInv, NEW id \in Ids, ReleaseToWaiter(id)
  PROVE  ReadyInLine /\ \A other \in Locks : LineOf(other)
<1> DEFINE w == sync_table[id].waiters
           l == [sync_table[id] EXCEPT !.waiters = Tail(w), !.owner = Head(w)]
<1>1. /\ id \in Locks /\ w \in Seq(Procs) /\ w # <<>> /\ sync_table[id] \in Objects
  BY LockFacts DEF ReleaseToWaiter, Owned
<1>2. Head(w) \in Procs /\ Tail(w) \in Seq(Procs)
  BY <1>1, HeadTailProperties
<1>3. sync_table' = [sync_table EXCEPT ![id] = l] /\ ready' = Append(ready, Head(w))
  BY DEF ReleaseToWaiter, HandOver
<1>4. ready \in Seq(Procs) /\ sync_table \in [Ids -> Objects \cup {NULL}]
  BY DEF SyncInv, TypeOK
<1>5. ReadyInLine
  BY <1>2, <1>3, <1>4, JoinedByOne DEF ReadyInLine, Joined
<1>6. sync_table'[id].waiters = Tail(w) /\ sync_table'[id].owner = Head(w)
  <2>1. sync_table'[id] = l
    BY <1>3, <1>4
  <2>2. l.waiters = Tail(w) /\ l.owner = Head(w)
    BY <1>1 DEF Objects
  <2> HIDE DEF l
  <2> QED
    BY <2>1, <2>2
<1>7. IsPrefix(Tail(w), Tail(w))
  <2>1. Tail(w) \o <<>> = Tail(w) /\ <<>> \in Seq(Procs)
    BY <1>2, ConcatEmptySeq
  <2> QED
    BY <1>2, <2>1, JoinedAtEnd
<1>8. LineOf(id)
  BY <1>1, <1>3, <1>6, <1>7 DEF LineOf, HeadLeaves
<1>9. \A other \in Locks \ {id} : LineOf(other)
  <2> HIDE DEF l
  <2> QED
    BY <1>3, OtherLines
<1> QED
  BY <1>5, <1>8, <1>9

LEMMA AcquireInLine ==
  ASSUME SyncInv, NEW id \in Ids, AcquireFree(id) \/ AcquireHeld(id) \/ ReleaseFree(id)
  PROVE  ReadyInLine /\ \A other \in Locks : LineOf(other)
<1>1. /\ id \in Locks /\ sync_table[id] \in Objects /\ sync_table[id].waiters \in Seq(Procs)
      /\ sync_table[id].waiters # <<>> => sync_table[id].locked
  BY LockFacts DEF AcquireFree, AcquireHeld, ReleaseFree, Owned, LockOK
<1>2. /\ ready' = ready /\ ready \in Seq(Procs) /\ current \in Procs
      /\ sync_table \in [Ids -> Objects \cup {NULL}]
  BY DEF AcquireFree, AcquireHeld, ReleaseFree, sched, SyncInv, TypeOK
<1>3. PICK l : /\ sync_table' = [sync_table EXCEPT ![id] = l]
               /\ \/ /\ l.waiters = sync_table[id].waiters
                     /\ sync_table[id].waiters = <<>>
                  \/ /\ l.waiters = Append(sync_table[id].waiters, current)
                     /\ l.owner = sync_table[id].owner
  <2>1. CASE AcquireFree(id) \/ ReleaseFree(id)
    <3>1. sync_table[id].waiters = <<>>
      BY <1>1, <2>1 DEF AcquireFree, ReleaseFree
    <3> DEFINE l(b, p) == [sync_table[id] EXCEPT !.locked = b, !.owner = p]
    <3>2. \A b, p : l(b, p).waiters = sync_table[id].waiters
      BY <1>1 DEF Objects
    <3>3. CASE AcquireFree(id)
      <4>1. sync_table' = [sync_table EXCEPT ![id] = l(TRUE, current)]
        BY <3>3 DEF AcquireFree
      <4> HIDE DEF l
      <4> QED
        BY <3>1, <3>2, <4>1
    <3>4. CASE ReleaseFree(id)
      <4>1. sync_table' = [sync_table EXCEPT ![id] = l(FALSE, NULL)]
        BY <3>4 DEF ReleaseFree
      <4> HIDE DEF l
      <4> QED
        BY <3>1, <3>2, <4>1
    <3> QED
      BY <2>1, <3>3, <3>4
  <2>2. CASE AcquireHeld(id)
    <3> DEFINE l == [sync_table[id] EXCEPT !.waiters = Append(@, current)]
    <3>1. sync_table' = [sync_table EXCEPT ![id] = l]
      BY <2>2 DEF AcquireHeld
    <3>2. l.waiters = Append(sync_table[id].waiters, current) /\ l.owner = sync_table[id].owner
      BY <1>1 DEF Objects
    <3> HIDE DEF l
    <3> QED
      BY <3>1, <3>2
  <2> QED
    BY <2>1, <2>2
<1>4. sync_table'[id] = l
  BY <1>2, <1>3
<1>5. LineOf(id)
  <2>1. CASE l.waiters = sync_table[id].waiters /\ sync_table[id].waiters = <<>>
    BY <1>1, <1>4, <2>1, LineStays
  <2>2. CASE /\ l.waiters = Append(sync_table[id].waiters, current)
             /\ l.owner = sync_table[id].owner
    <3>1. IsPrefix(sync_table[id].waiters, Append(sync_table[id].waiters, current))
      BY <1>1, <1>2, JoinedByOne
    <3> QED
      BY <1>4, <2>2, <3>1 DEF LineOf, Joined
  <2> QED
    BY <1>3, <2>1, <2>2
<1>6. \A other \in Locks \ {id} : LineOf(other)
  BY <1>3, OtherLines
<1> QED
  BY <1>2, <1>5, <1>6, ReadyStays

LEMMA IdsInLine ==
  ASSUME SyncInv,
         SyncInit(LOCK) \/ SyncInit(CVAR) \/ \E id \in Ids : SyncReclaim(id)
  PROVE  ReadyInLine /\ \A other \in Locks : LineOf(other)
<1>1. ready' = ready /\ ready \in Seq(Procs) /\ sync_table \in [Ids -> Objects \cup {NULL}]
  BY DEF SyncInit, SyncReclaim, sched, SyncInv, TypeOK
<1>2. CASE SyncInit(LOCK) \/ SyncInit(CVAR)
  <2>1. PICK l : sync_table' = [sync_table EXCEPT ![GetNewID] = l]
    BY <1>2 DEF SyncInit
  <2>2. GetNewID \in Ids /\ GetNewID \notin Locks
    BY <1>2, NewID DEF SyncInit, SyncInv, Locks, Is, Valid
  <2> QED
    BY <1>1, <2>1, <2>2, OtherLines, ReadyStays
<1>3. ASSUME NEW id \in Ids, SyncReclaim(id)
      PROVE  \A other \in Locks : LineOf(other)
  <2>1. sync_table' = [sync_table EXCEPT ![id] = NULL]
    BY <1>3 DEF SyncReclaim
  <2>2. ~ Valid(id)'
    BY <1>1, <2>1 DEF Valid
  <2> QED
    BY <2>1, <2>2, OtherLines, LineStays DEF Locks
<1> QED
  BY <1>1, <1>2, <1>3, ReadyStays

LEMMA NextInLine ==
  ASSUME SyncInv, [Next]_vars
  PROVE  ReadyInLine /\ \A id \in Locks : LineOf(id)
<1>0. ASSUME UNCHANGED sync_table PROVE \A id \in Locks : LineOf(id)
  BY <1>0, LineStays
<1>1. ASSUME UNCHANGED <<sched, sync_table>>
      PROVE  ReadyInLine /\ \A id \in Locks : LineOf(id)
  BY <1>0, <1>1, ReadyStays DEF sched, SyncInv, TypeOK
<1>2. CASE clock_handler \/ SysDelay \/ SysExit
  <2>1. UNCHANGED sync_table /\ (Delay \/ Exit \/ Tick)
    BY <1>2 DEF clock_handler, SysDelay, SysExit, ids
  <2> QED
    BY <1>0, <2>1, SchedInLine, SyncAssumption DEF SyncInv
<1>3. CASE \/ Fails \/ \E f : Faults(f)
           \/ \E id \in Ids : SyncCvarSignal(id) \/ CvarWaitOnCvar(id)
  BY <1>1, <1>3 DEF Fails, Faults, SyncCvarSignal, CvarWaitOnCvar, ids
<1>4. CASE InitFails \/ InitFaults
  BY <1>3, <1>4 DEF InitFails, InitFaults
<1>5. ASSUME NEW id \in Ids,
             \/ BadId(id) \/ WrongType(id, LOCK) \/ WrongType(id, CVAR)
             \/ ReleaseNotOwned(id) \/ CvarWaitOnLock(id)
      PROVE  ReadyInLine /\ \A other \in Locks : LineOf(other)
  BY <1>3, <1>5 DEF BadId, WrongType, ReleaseNotOwned, CvarWaitOnLock
<1>6. ASSUME NEW id \in Ids,
             \/ SysLockAcquire(id) \/ SysLockRelease(id) \/ SysReclaim(id)
             \/ SysSignal(id) \/ SysCvarWait(id)
      PROVE  ReadyInLine /\ \A other \in Locks : LineOf(other)
  BY <1>3, <1>5, <1>6, AcquireInLine, ReleaseInLine, IdsInLine
  DEF SysLockAcquire, SysLockRelease, SysReclaim, SysSignal, SysCvarWait
<1>7. CASE SyncInit(LOCK) \/ SyncInit(CVAR)
  BY <1>7, IdsInLine
<1>8. CASE UNCHANGED vars
  BY <1>1, <1>8 DEF vars, ids
<1> QED
  BY <1>2, <1>4, <1>6, <1>7, <1>8 DEF Next
-----------------------------------------------------------------------------
(* After the kernel linked a node twice, nothing is followed.               *)
LEMMA RelinkedEnds ==
  ASSUME Relinked, [Next]_vars
  PROVE  UNCHANGED vars
<1>1. ~ Calls /\ fault # "none"
  BY DEF Relinked, Calls
<1>2. ~ Next
  BY <1>1 DEF Next, clock_handler, SysDelay, SysExit, InitFails, InitFaults, SyncInit,
              SysLockAcquire, SysLockRelease, SysSignal, SysReclaim, SysCvarWait, BadId,
              WrongType, AcquireFree, AcquireHeld, ReleaseFree, ReleaseToWaiter,
              ReleaseNotOwned, SyncCvarSignal, SyncReclaim, CvarWaitOnCvar, CvarWaitOnLock
<1> QED
  BY <1>2

LEMMA NextInd == Ind /\ [Next]_vars => Ind'
<1> SUFFICES ASSUME Ind, [Next]_vars
             PROVE  Ind'
  OBVIOUS
<1>1. CASE SyncInv
  BY <1>1, NextKeeps, RelinkOK DEF Ind
<1>2. CASE Relinked
  <2>1. UNCHANGED <<sched, ids, waiting_lock_id, answer, fault, holds>>
    BY <1>2, RelinkedEnds DEF vars
  <2> QED
    BY <1>2, <2>1 DEF Ind, Relinked, TypeOK, IdsExact, MutualExclusion, WaitersBehindOwner,
                      Locks, Is, Valid, ids, sched
<1> QED
  BY <1>1, <1>2 DEF Ind

LEMMA IndImplies ==
  ASSUME Ind
  PROVE  TypeOK /\ IdsExact /\ MutualExclusion /\ WaitersBehindOwner
  BY InvImplies DEF Ind, Relinked

LEMMA Always == SyncSpec => []Ind
<1>1. Init => Ind
  BY InitInv DEF Ind
<1> QED
  BY <1>1, NextInd, PTL DEF SyncSpec

(* However many processes use however many ids: every variable keeps its    *)
(* type, and with it global_sync_counter stays in 0..MAX_SYNCS.             *)
THEOREM SyncTypes == SyncSpec => []TypeOK
<1>1. Ind => TypeOK
  BY IndImplies
<1> QED
  BY <1>1, Always, PTL

(* GetNewID and SyncReclaim keep id_used, sync_table and the counter        *)
(* together: an id is used exactly while its entry is set, and counted.     *)
THEOREM IdsRight == SyncSpec => []IdsExact
<1>1. Ind => IdsExact
  BY IndImplies
<1> QED
  BY <1>1, Always, PTL

(* A process that SyncLockAcquire told it has the lock owns it until it     *)
(* releases it or the lock is reclaimed, whoever calls what in between.     *)
THEOREM LocksExclude == SyncSpec => []MutualExclusion
<1>1. Ind => MutualExclusion
  BY IndImplies
<1> QED
  BY <1>1, Always, PTL

(* SyncLockRelease never leaves a waiter in front of a free lock: a lock    *)
(* with waiters has an owner, whom a later hand-over, if there is one, goes *)
(* through.  It does not say that the owner lives, or ever releases.        *)
THEOREM NobodyBehindAFreeLock == SyncSpec => []WaitersBehindOwner
<1>1. Ind => WaitersBehindOwner
  BY IndImplies
<1> QED
  BY <1>1, Always, PTL

(* A queue_node gets into a second list only by SysDelay, SysExit or        *)
(* SysLockAcquire of the very process it belongs to, while that is in one:  *)
(* no hand-over, clock tick or SyncReclaim ever links a node twice.         *)
THEOREM OnlyCallersRelink == SyncSpec => LinkedByCaller
<1>0. SyncInv' => OneList'
  <2>1. SyncInv => OneList
    BY InvImplies
  <2> QED
    BY <2>1, PTL
<1>1. Ind /\ [Next]_vars => [OneList' \/ Linked(current)]_vars
  <2> SUFFICES ASSUME Ind, [Next]_vars
               PROVE  [OneList' \/ Linked(current)]_vars
    OBVIOUS
  <2>1. CASE SyncInv
    BY <1>0, <2>1, NextKeeps DEF LinksAgain
  <2>2. CASE Relinked
    BY <2>2, RelinkedEnds
  <2> QED
    BY <2>1, <2>2 DEF Ind
<1> QED
  BY <1>1, Always, PTL DEF SyncSpec, LinkedByCaller

(* SyncLockAcquire appends, SyncLockRelease takes the head and readies it,  *)
(* schedule takes the head of ready_queue: no step lets one overtake.       *)
THEOREM LocksAreFair == SyncSpec => NoOvertaking
<1>1. Ind /\ [Next]_vars => [ReadyInLine /\ \A id \in Locks : LineOf(id)]_vars
  <2>1. SyncInv /\ [Next]_vars => [ReadyInLine /\ \A id \in Locks : LineOf(id)]_vars
    BY NextInLine
  <2>2. Relinked /\ [Next]_vars => UNCHANGED vars
    BY RelinkedEnds
  <2> QED
    BY <2>1, <2>2 DEF Ind
<1> QED
  BY <1>1, Always, PTL DEF SyncSpec, NoOvertaking
=============================================================================
