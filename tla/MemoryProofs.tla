----------------------------- MODULE MemoryProofs -----------------------------
(***************************************************************************)
(* The ownership of frames, for any number of processes, frames and pages. *)
(* Every handler is made of two moves on the page table of one holder h:   *)
(* write pages over with frames that were free, and free the frames of     *)
(* pages it makes invalid.  Each move keeps each part of the invariant;    *)
(* the parts are stated over a bare table T, bitmap U and lost set L.      *)
(***************************************************************************)
EXTENDS Memory, TLAPS

Tables == [Holders -> [Page -> Frame \cup {NONE}]]

Unique(T) == \A h, g \in Holders : \A v, w \in Page :
               T[h][v] # NONE /\ T[h][v] = T[g][w] => h = g /\ v = w

Exact(T, U, L) == /\ U = (UNION {Mapped(T[h]) : h \in Holders}) \cup L
                  /\ \A h \in Holders : Mapped(T[h]) \cap L = {}

Image == 0..(ORIG_BRK - 1)

Boot(T, U) ==
  /\ Image \cup Mapped(T[Idle]) \subseteq U
  /\ \A h \in Holders \ {Idle} : \A v \in Page :
       T[h][v] \in Image \cup Mapped(T[Idle]) =>
         h = Kernel /\ v < ORIG_BRK /\ T[h][v] = v

(* Pages of S mapped to frames outside B, no two to the same.              *)
Fresh(f, S, B) ==
  /\ DOMAIN f \subseteq S
  /\ f \in [DOMAIN f -> Frame]
  /\ \A v \in DOMAIN f : f[v] \notin B
  /\ \A v, w \in DOMAIN f : f[v] = f[w] => v = w

Write(T, h, f) == [T EXCEPT ![h] = Map(T[h], f)]
Clear(T, h, S) == [T EXCEPT ![h] = Unmap(T[h], S)]
At(T, h, S) == {T[h][v] : v \in Valid(T[h], S)}

(* The loops of allocate_frame give each page a frame of its own that was  *)
(* free.                                                                   *)
LEMMA AllocFresh ==
  ASSUME NEW S \in SUBSET Int, NEW B, NEW f \in allocate_frame(S, B)
  PROVE  Fresh(f, S, B)
<1>1. f \in [Served(S, B) -> Lowest(Cardinality(S), B)]
      /\ \A v, w \in Served(S, B) : v < w => f[v] < f[w]
  BY DEF allocate_frame
<1>2. DOMAIN f = Served(S, B) /\ Served(S, B) \subseteq S
  BY <1>1 DEF Served
<1>3. Lowest(Cardinality(S), B) \subseteq Frame \ B
  BY DEF Lowest
<1>4. f \in [DOMAIN f -> Frame] /\ \A v \in DOMAIN f : f[v] \notin B /\ f[v] \in Frame
  BY <1>1, <1>2, <1>3
<1>5. \A v, w \in DOMAIN f : f[v] = f[w] => v = w
  <2> SUFFICES ASSUME NEW v \in DOMAIN f, NEW w \in DOMAIN f, f[v] = f[w]
               PROVE  v = w
    OBVIOUS
  <2>1. v \in Int /\ w \in Int /\ f[v] \in Int /\ f[w] \in Int
    BY <1>2, <1>4, MemoryAssumption DEF Frame
  <2>2. ~ (v < w) /\ ~ (w < v)
    BY <1>1, <1>2, <2>1
  <2> QED BY <2>1, <2>2
<1> QED BY <1>2, <1>4, <1>5 DEF Fresh

(* A table after a move.                                                   *)
LEMMA WriteTable ==
  ASSUME NEW T \in Tables, NEW h \in Holders, NEW f,
         Fresh(f, Page, {})
  PROVE  /\ Write(T, h, f) \in Tables
         /\ \A g \in Holders : g # h => Write(T, h, f)[g] = T[g]
         /\ \A v \in Page : Write(T, h, f)[h][v] = IF v \in DOMAIN f THEN f[v] ELSE T[h][v]
<1>1. \A v \in DOMAIN f : f[v] \in Frame
  BY DEF Fresh
<1>2. Map(T[h], f) \in [Page -> Frame \cup {NONE}]
  BY <1>1 DEF Map, Tables
<1> QED BY <1>2 DEF Write, Tables, Map

LEMMA ClearTable ==
  ASSUME NEW T \in Tables, NEW h \in Holders, NEW S
  PROVE  /\ Clear(T, h, S) \in Tables
         /\ \A g \in Holders : g # h => Clear(T, h, S)[g] = T[g]
         /\ \A v \in Page : Clear(T, h, S)[h][v] = IF v \in S THEN NONE ELSE T[h][v]
BY DEF Clear, Unmap, Tables

(* Writing pages over with free frames shares none.                        *)
LEMMA WriteUnique ==
  ASSUME NEW T \in Tables, NEW h \in Holders, NEW f, NEW U, NEW L,
         Fresh(f, Page, U), Unique(T), Exact(T, U, L)
  PROVE  Unique(Write(T, h, f))
<1> DEFINE X == Write(T, h, f)
<1>0. Fresh(f, Page, {})
  BY DEF Fresh
<1>1. /\ \A g \in Holders : g # h => X[g] = T[g]
      /\ \A v \in Page : X[h][v] = IF v \in DOMAIN f THEN f[v] ELSE T[h][v]
  BY <1>0, WriteTable
<1>2. \A g \in Holders, v \in Page : T[g][v] # NONE => T[g][v] \in U
  BY DEF Exact, Mapped
<1>3. \A v \in DOMAIN f : f[v] \notin U /\ f[v] \in Frame /\ f[v] # NONE
  BY MemoryAssumption DEF Fresh, Frame
<1> HIDE DEF X
<1> SUFFICES ASSUME NEW g \in Holders, NEW i \in Holders, NEW v \in Page, NEW w \in Page,
                    X[g][v] # NONE, X[g][v] = X[i][w]
             PROVE  g = i /\ v = w
  BY DEF Unique, X
<1> DEFINE New(j, u) == j = h /\ u \in DOMAIN f
<1>4. \A j \in Holders, u \in Page : ~ New(j, u) => X[j][u] = T[j][u]
  BY <1>1
<1>5. \A j \in Holders, u \in Page : New(j, u) => X[j][u] = f[u]
  BY <1>1
<1> HIDE DEF New
<1>6. CASE New(g, v) /\ New(i, w)
  <2>1. f[v] = f[w]
    BY <1>6, <1>5
  <2> QED BY <2>1, <1>6 DEF Fresh, New
<1>7. CASE New(g, v) /\ ~ New(i, w)
  <2>1. f[v] = T[i][w] /\ T[i][w] # NONE
    BY <1>7, <1>5, <1>4
  <2>2. f[v] \notin U
    BY <1>7, <1>3 DEF New
  <2> QED BY <2>1, <2>2, <1>2
<1>8. CASE ~ New(g, v) /\ New(i, w)
  <2>1. f[w] = T[g][v] /\ T[g][v] # NONE
    BY <1>8, <1>5, <1>4
  <2>2. f[w] \notin U
    BY <1>8, <1>3 DEF New
  <2> QED BY <2>1, <2>2, <1>2
<1>9. CASE ~ New(g, v) /\ ~ New(i, w)
  BY <1>9, <1>4 DEF Unique
<1> QED BY <1>6, <1>7, <1>8, <1>9

(* The bitmap stays exact when the frames taken are marked and the entries *)
(* written over are counted as lost.                                       *)
LEMMA WriteExact ==
  ASSUME NEW T \in Tables, NEW h \in Holders, NEW f, NEW U, NEW L,
         Fresh(f, Page, U), Unique(T), Exact(T, U, L)
  PROVE  Exact(Write(T, h, f), U \cup Taken(f), L \cup At(T, h, DOMAIN f))
<1> DEFINE X == Write(T, h, f)
           K == L \cup At(T, h, DOMAIN f)
<1>0. Fresh(f, Page, {})
  BY DEF Fresh
<1>1. /\ X \in Tables
      /\ \A g \in Holders : g # h => X[g] = T[g]
      /\ \A v \in Page : X[h][v] = IF v \in DOMAIN f THEN f[v] ELSE T[h][v]
  BY <1>0, WriteTable
<1>2. \A g \in Holders, v \in Page : T[g][v] # NONE => T[g][v] \in U /\ T[g][v] \notin L
  BY DEF Exact, Mapped
<1>3. /\ DOMAIN f \subseteq Page
      /\ \A v \in DOMAIN f : f[v] \notin U /\ f[v] \in Frame /\ f[v] # NONE
  BY MemoryAssumption DEF Fresh, Frame
<1>4. \A c : c \in K <=> c \in L \/ \E v \in DOMAIN f : T[h][v] # NONE /\ T[h][v] = c
  BY DEF At, Valid
<1>5. L \subseteq U
  BY DEF Exact
<1> HIDE DEF X, K
<1>6. \A c : c \in U <=> c \in L \/ \E g \in Holders, v \in Page : T[g][v] # NONE /\ T[g][v] = c
  BY DEF Exact, Mapped
<1>7. ASSUME NEW c
      PROVE  c \in U \cup Taken(f)
               <=> c \in K \/ \E g \in Holders, v \in Page : X[g][v] # NONE /\ X[g][v] = c
  <2>1. ASSUME c \in U PROVE c \in K \/ \E g \in Holders, v \in Page : X[g][v] # NONE /\ X[g][v] = c
    <3>1. CASE c \in L
      BY <3>1, <1>4
    <3>2. ASSUME NEW g \in Holders, NEW v \in Page, T[g][v] # NONE, T[g][v] = c
          PROVE  c \in K \/ X[g][v] = c
      BY <3>2, <1>1, <1>4
    <3> QED BY <2>1, <3>1, <3>2, <1>6
  <2>2. ASSUME c \in Taken(f) PROVE \E g \in Holders, v \in Page : X[g][v] # NONE /\ X[g][v] = c
    <3>1. PICK v \in DOMAIN f : c = f[v]
      BY <2>2 DEF Taken
    <3> QED BY <3>1, <1>1, <1>3
  <2>3. ASSUME c \in K PROVE c \in U
    BY <2>3, <1>4, <1>5, <1>2, <1>3
  <2>4. ASSUME NEW g \in Holders, NEW v \in Page, X[g][v] # NONE, X[g][v] = c
        PROVE  c \in U \cup Taken(f)
    <3>1. CASE g = h /\ v \in DOMAIN f
      BY <3>1, <2>4, <1>1 DEF Taken
    <3>2. CASE ~ (g = h /\ v \in DOMAIN f)
      BY <3>2, <2>4, <1>1, <1>2
    <3> QED BY <3>1, <3>2
  <2> QED BY <2>1, <2>2, <2>3, <2>4
<1>8. ASSUME NEW g \in Holders, NEW v \in Page, X[g][v] # NONE
      PROVE  X[g][v] \notin K
  <2>1. CASE g = h /\ v \in DOMAIN f
    <3>1. X[g][v] \notin U
      BY <2>1, <1>1, <1>3
    <3>2. \A c \in K : c \in U
      BY <1>4, <1>5, <1>2, <1>3
    <3> QED BY <3>1, <3>2
  <2>2. CASE ~ (g = h /\ v \in DOMAIN f)
    <3>1. X[g][v] = T[g][v]
      BY <2>2, <1>1
    <3>2. X[g][v] \notin L
      BY <3>1, <1>8, <1>2
    <3>3. ASSUME NEW w \in DOMAIN f, T[h][w] # NONE, T[h][w] = X[g][v] PROVE FALSE
      <4>1. w \in Page
        BY <1>3
      <4>2. T[h][w] # NONE /\ T[h][w] = T[g][v]
        BY <3>3, <3>1
      <4> HIDE <3>3
      <4>3. h = g /\ w = v
        BY <4>1, <4>2 DEF Unique
      <4> QED BY <4>3, <2>2
    <3> QED BY <3>2, <3>3, <1>4
  <2> QED BY <2>1, <2>2
<1>9. U \cup Taken(f) = (UNION {Mapped(X[g]) : g \in Holders}) \cup K
  BY <1>7 DEF Mapped
<1>10. \A g \in Holders : Mapped(X[g]) \cap K = {}
  BY <1>8 DEF Mapped
<1> QED BY <1>9, <1>10 DEF Exact, X, K

(* Making pages invalid shares nothing, and the bitmap stays exact when     *)
(* their frames are freed.                                                 *)
LEMMA ClearExact ==
  ASSUME NEW T \in Tables, NEW h \in Holders, NEW S \in SUBSET Page, NEW U, NEW L,
         Unique(T), Exact(T, U, L)
  PROVE  /\ Unique(Clear(T, h, S))
         /\ Exact(Clear(T, h, S), U \ At(T, h, S), L)
<1> DEFINE X == Clear(T, h, S)
           V == U \ At(T, h, S)
<1>1. /\ \A g \in Holders : g # h => X[g] = T[g]
      /\ \A v \in Page : X[h][v] = IF v \in S THEN NONE ELSE T[h][v]
  BY ClearTable
<1>2. \A c : c \in U <=> c \in L \/ \E g \in Holders, v \in Page : T[g][v] # NONE /\ T[g][v] = c
  BY DEF Exact, Mapped
<1>3. \A g \in Holders, v \in Page : T[g][v] # NONE => T[g][v] \notin L
  BY DEF Exact, Mapped
<1>4. \A c : c \in V <=> c \in U /\ ~ \E v \in S : T[h][v] # NONE /\ T[h][v] = c
  BY DEF At, Valid
<1> HIDE DEF X, V
<1>5. \A g \in Holders, v \in Page : X[g][v] # NONE =>
         X[g][v] = T[g][v] /\ ~ (g = h /\ v \in S)
  BY <1>1
<1>6. Unique(X)
  BY <1>5 DEF Unique
<1>7. ASSUME NEW c
      PROVE  c \in V <=> c \in L \/ \E g \in Holders, v \in Page : X[g][v] # NONE /\ X[g][v] = c
  <2>1. ASSUME c \in L PROVE c \in V
    BY <2>1, <1>2, <1>3, <1>4
  <2>2. ASSUME c \in V, c \notin L
        PROVE  \E g \in Holders, v \in Page : X[g][v] # NONE /\ X[g][v] = c
    <3>1. PICK g \in Holders, v \in Page : T[g][v] # NONE /\ T[g][v] = c
      BY <2>2, <1>2, <1>4
    <3>2. ~ (g = h /\ v \in S)
      BY <3>1, <2>2, <1>4
    <3>3. X[g][v] = T[g][v]
      BY <3>2, <1>1
    <3> QED BY <3>1, <3>3
  <2>3. ASSUME NEW g \in Holders, NEW v \in Page, X[g][v] # NONE, X[g][v] = c
        PROVE  c \in V
    <3>1. T[g][v] = c /\ T[g][v] # NONE /\ ~ (g = h /\ v \in S)
      BY <2>3, <1>5
    <3>2. ASSUME NEW w \in S, T[h][w] # NONE, T[h][w] = c PROVE FALSE
      <4>1. T[h][w] # NONE /\ T[h][w] = T[g][v]
        BY <3>1, <3>2
      <4>2. h = g /\ w = v
        BY <4>1 DEF Unique
      <4> QED BY <4>2, <3>1
    <3> QED BY <3>1, <3>2, <1>2, <1>4
  <2> QED BY <2>1, <2>2, <2>3
<1>8. \A g \in Holders : Mapped(X[g]) \cap L = {}
  BY <1>5, <1>3 DEF Mapped
<1>9. V = (UNION {Mapped(X[g]) : g \in Holders}) \cup L
  BY <1>7 DEF Mapped
<1> QED BY <1>6, <1>8, <1>9 DEF Exact, X, V

(* The frames of the boot, through a write, a page made invalid and a free. *)
LEMMA WriteBoot ==
  ASSUME NEW T \in Tables, NEW h \in Holders \ {Idle}, NEW f, NEW U,
         Fresh(f, Page, U), Boot(T, U)
  PROVE  Boot(Write(T, h, f), U \cup Taken(f))
<1> DEFINE X == Write(T, h, f)
<1>0. Fresh(f, Page, {})
  BY DEF Fresh
<1>1. /\ \A g \in Holders : g # h => X[g] = T[g]
      /\ \A v \in Page : X[h][v] = IF v \in DOMAIN f THEN f[v] ELSE T[h][v]
  BY <1>0, WriteTable
<1>2. X[Idle] = T[Idle]
  BY <1>1, MemoryAssumption DEF Holders
<1>3. \A v \in DOMAIN f : f[v] \notin U
  BY DEF Fresh
<1> HIDE DEF X
<1>4. ASSUME NEW g \in Holders \ {Idle}, NEW v \in Page,
             X[g][v] \in Image \cup Mapped(T[Idle])
      PROVE  g = Kernel /\ v < ORIG_BRK /\ X[g][v] = v
  <2>1. X[g][v] \in U
    BY <1>4 DEF Boot
  <2>2. X[g][v] = T[g][v]
    BY <2>1, <1>1, <1>3
  <2> QED BY <2>2, <1>4 DEF Boot
<1>5. Boot(X, U \cup Taken(f))
  BY <1>2, <1>4 DEF Boot
<1> QED BY <1>5 DEF X

LEMMA ClearBoot ==
  ASSUME NEW T \in Tables, NEW h \in Holders \ {Idle}, NEW S \in SUBSET Page, NEW U,
         Boot(T, U)
  PROVE  Boot(Clear(T, h, S), U)
<1> DEFINE X == Clear(T, h, S)
<1>1. /\ \A g \in Holders : g # h => X[g] = T[g]
      /\ \A v \in Page : X[h][v] = IF v \in S THEN NONE ELSE T[h][v]
  BY ClearTable
<1>2. X[Idle] = T[Idle]
  BY <1>1, MemoryAssumption DEF Holders
<1>3. NONE \notin Image \cup Mapped(T[Idle])
  BY MemoryAssumption DEF Image, Mapped
<1> HIDE DEF X
<1>4. ASSUME NEW g \in Holders \ {Idle}, NEW v \in Page,
             X[g][v] \in Image \cup Mapped(T[Idle])
      PROVE  g = Kernel /\ v < ORIG_BRK /\ X[g][v] = v
  <2>1. X[g][v] = T[g][v]
    BY <1>4, <1>1, <1>3
  <2> QED BY <2>1, <1>4 DEF Boot
<1>5. Boot(X, U)
  BY <1>2, <1>4 DEF Boot
<1> QED BY <1>5 DEF X

(* Freeing what a process maps, or the kernel above its image, frees none   *)
(* of them.                                                                *)
LEMMA FreeBoot ==
  ASSUME NEW T \in Tables, NEW h \in Holders \ {Idle}, NEW S \in SUBSET Page, NEW U,
         Boot(T, U), h = Kernel => \A v \in S : ~ (v < ORIG_BRK)
  PROVE  Boot(T, U \ At(T, h, S))
BY DEF Boot, At, Valid

(* Where no page is mapped twice, the frames of the boot are as Boot says.  *)
LEMMA BootOfUnique ==
  ASSUME NEW T \in Tables, NEW U, NEW L,
         Unique(T), Exact(T, U, L), \A v \in Image : T[Kernel][v] = v
  PROVE  Boot(T, U)
<1>1. Kernel \in Holders /\ Idle \in Holders /\ Kernel # Idle
  BY MemoryAssumption DEF Holders
<1>2. \A v \in Image : v \in Page /\ v # NONE /\ v < ORIG_BRK
  BY MemoryAssumption DEF Image, Page
<1>3. \A g \in Holders, v \in Page : T[g][v] # NONE => T[g][v] \in U
  BY DEF Exact, Mapped
<1>4. Image \cup Mapped(T[Idle]) \subseteq U
  BY <1>1, <1>2, <1>3 DEF Mapped
<1>5. ASSUME NEW g \in Holders \ {Idle}, NEW v \in Page, T[g][v] \in Image
      PROVE  g = Kernel /\ v < ORIG_BRK /\ T[g][v] = v
  <2>1. T[g][v] # NONE /\ T[g][v] = T[Kernel][T[g][v]] /\ T[g][v] \in Page
    BY <1>5, <1>2
  <2>2. g = Kernel /\ v = T[g][v]
    BY <2>1, <1>1 DEF Unique
  <2> QED BY <2>2, <1>5, <1>2
<1>6. ASSUME NEW g \in Holders \ {Idle}, NEW v \in Page, T[g][v] \in Mapped(T[Idle])
      PROVE  FALSE
  <2>1. PICK w \in Page : T[g][v] = T[Idle][w] /\ T[g][v] # NONE
    BY <1>6 DEF Mapped
  <2>2. g = Idle
    BY <2>1, <1>1 DEF Unique
  <2> QED BY <2>2
<1> QED BY <1>4, <1>5, <1>6 DEF Boot
-----------------------------------------------------------------------------
(* The inductive invariant.  What is not a property of Memory: a process   *)
(* that has not exited has a stack to run on, one that has exited maps     *)
(* nothing, idle never exits, and nothing is run after Brk has written     *)
(* past a page table.                                                      *)
Inv ==
  /\ TypeOK
  /\ Idle \in live
  /\ \A p \in live : \A v \in KStack : pte[p][v] # NONE
  /\ \A p \in Procs \ live : pte[p] = Empty
  /\ \A v \in KStack : kstack[v] = pte[current][v]
  /\ HeapMapped
  /\ Boot(pte, used)
  /\ halted = "none" => past = {}
  /\ past \subseteq used
  /\ ~ stale => Unique(pte) /\ Exact(pte, used \ past, lost)

(* Where the parts of an address space lie.                                *)
LEMMA Layout ==
  /\ Kernel \in Holders /\ Idle \in Holders /\ Init1 \in Holders
  /\ Kernel # Idle /\ Kernel # Init1 /\ Idle # Init1
  /\ Kernel \in Holders \ {Idle} /\ \A p \in Procs : p \in Holders /\ p # Kernel
  /\ Image \subseteq Frame /\ KStack \subseteq Frame
  /\ Image \subseteq Page /\ KStack \subseteq Page /\ Region1 \subseteq Page
  /\ TempPage \in Page /\ TempPage \in Nat /\ KERNEL_STACK_BASE \in KStack
  /\ \A v \in Image : v \notin KStack /\ v \notin Region1 /\ v < ORIG_BRK /\ v # TempPage
  /\ \A v \in KStack : v \notin Region1 /\ v # TempPage
  /\ TempPage \notin Region1
  /\ NONE \notin Frame
BY MemoryAssumption DEF Holders, Image, Frame, KStack, Page, Region1, TempPage

LEMMA ProgramPages ==
  ASSUME NEW g \in Programs
  PROVE  /\ ImagePages(g) \subseteq Region1 /\ StackPages(g.stack_npg) \subseteq Region1
         /\ g.top \in 0..MAX_PT_LEN /\ 2 * MAX_PT_LEN - g.stack_npg \in Region1
<1>1. /\ g.image \subseteq 0..(MAX_PT_LEN - 1)
      /\ g.top \in 0..MAX_PT_LEN /\ g.stack_npg \in 1..MAX_PT_LEN
  BY MemoryAssumption DEF ProgramType
<1>2. ImagePages(g) \subseteq Region1
  BY <1>1, MemoryAssumption DEF ImagePages, Region1
<1>3. StackPages(g.stack_npg) \subseteq Region1
  BY <1>1, MemoryAssumption DEF StackPages, Region1
<1>4. 2 * MAX_PT_LEN - g.stack_npg \in Region1
  BY <1>1, MemoryAssumption DEF Region1
<1> QED BY <1>1, <1>2, <1>3, <1>4

LEMMA InvImplies ==
  ASSUME Inv
  PROVE  /\ TypeOK /\ FramesNotShared /\ FramesAccounted
         /\ BootFramesKept /\ HeapMapped /\ OwnStack
<1>1. FramesNotShared /\ FramesAccounted
  <2> SUFFICES ASSUME ~ stale PROVE FramesNotShared /\ FramesAccounted
    BY DEF FramesNotShared, FramesAccounted
  <2>1. Unique(pte) /\ Exact(pte, used \ past, lost) /\ past \subseteq used
    BY DEF Inv
  <2> QED BY <2>1 DEF Unique, Exact, FramesNotShared, FramesAccounted
<1>2. BootFramesKept
  BY DEF Inv, Boot, BootFramesKept, KernelFrames, Image
<1>3. OwnStack
  <2>1. current \in live
    BY DEF Inv, TypeOK
  <2>2. pte[current][KERNEL_STACK_BASE] # NONE
    BY <2>1, Layout DEF Inv
  <2>3. Empty[KERNEL_STACK_BASE] = NONE
    BY Layout DEF Empty
  <2> QED BY <2>2, <2>3 DEF Inv, OwnStack
<1> QED BY <1>1, <1>2, <1>3 DEF Inv

(* The boot: the image and idle's stack where they lie, then idle's page,  *)
(* then init.                                                              *)
LEMMA InitInv ==
  ASSUME Init
  PROVE  Inv
<1> DEFINE B == Image \cup KStack
           T0 == [h \in Holders |->
                    CASE h = Kernel -> Map(Empty, [v \in Image |-> v])
                      [] h = Idle   -> Map(Empty, [v \in KStack |-> v])
                      [] OTHER      -> Empty]
<1>1. PICK g \in Programs :
        \E d \in allocate_frame({2 * MAX_PT_LEN - 1}, B) :
        \E f \in allocate_frame(KStack \cup ImagePages(g) \cup StackPages(g.stack_npg),
                                B \cup Taken(d)) :
          /\ KStack \cup ImagePages(g) \cup StackPages(g.stack_npg) = DOMAIN f
          /\ used = B \cup Taken(d) \cup Taken(f)
          /\ pte = [h \in Holders |->
                      CASE h = Kernel -> Map(Empty, [v \in Image |-> v])
                        [] h = Idle   -> Map(Map(Empty, [v \in KStack |-> v]), d)
                        [] h = Init1  -> Map(Empty, f)
                        [] OTHER      -> Empty]
          /\ brk = [p \in Procs |-> IF p = Init1 THEN g.top ELSE 0]
          /\ sp = [p \in Procs |-> IF p = Init1 THEN 2 * MAX_PT_LEN - g.stack_npg
                                   ELSE 2 * MAX_PT_LEN - 1]
  BY DEF Init, Image
<1> DEFINE S == KStack \cup ImagePages(g) \cup StackPages(g.stack_npg)
<1>2. PICK d \in allocate_frame({2 * MAX_PT_LEN - 1}, B) :
        \E f \in allocate_frame(S, B \cup Taken(d)) :
          /\ S = DOMAIN f
          /\ used = B \cup Taken(d) \cup Taken(f)
          /\ pte = [h \in Holders |->
                      CASE h = Kernel -> Map(Empty, [v \in Image |-> v])
                        [] h = Idle   -> Map(Map(Empty, [v \in KStack |-> v]), d)
                        [] h = Init1  -> Map(Empty, f)
                        [] OTHER      -> Empty]
  BY <1>1
<1>3. PICK f \in allocate_frame(S, B \cup Taken(d)) :
          /\ S = DOMAIN f
          /\ used = B \cup Taken(d) \cup Taken(f)
          /\ pte = [h \in Holders |->
                      CASE h = Kernel -> Map(Empty, [v \in Image |-> v])
                        [] h = Idle   -> Map(Map(Empty, [v \in KStack |-> v]), d)
                        [] h = Init1  -> Map(Empty, f)
                        [] OTHER      -> Empty]
  BY <1>2
<1>4. /\ ImagePages(g) \subseteq Region1 /\ StackPages(g.stack_npg) \subseteq Region1
      /\ g.top \in 0..MAX_PT_LEN /\ 2 * MAX_PT_LEN - g.stack_npg \in Region1
  BY ProgramPages
<1>5. S \subseteq Page /\ {2 * MAX_PT_LEN - 1} \subseteq Page
  <2>1. S \subseteq Page
    BY <1>4, Layout
  <2>2. 2 * MAX_PT_LEN - 1 \in Page
    BY MemoryAssumption DEF Page
  <2> QED BY <2>1, <2>2
<1>6. Fresh(d, Page, B) /\ Fresh(f, Page, B \cup Taken(d))
  <2>1. Fresh(d, {2 * MAX_PT_LEN - 1}, B) /\ Fresh(f, S, B \cup Taken(d))
    BY <1>5, AllocFresh
  <2> QED BY <2>1, <1>5 DEF Fresh
<1>7. d \in [DOMAIN d -> Frame] /\ DOMAIN d \subseteq {2 * MAX_PT_LEN - 1}
  <2>1. Fresh(d, {2 * MAX_PT_LEN - 1}, B)
    BY <1>5, AllocFresh
  <2> QED BY <2>1 DEF Fresh
<1>8. 2 * MAX_PT_LEN - 1 \notin KStack
  BY MemoryAssumption DEF KStack
<1> DEFINE T1 == Write(T0, Idle, d)
           T2 == Write(T1, Init1, f)
<1>9. T0 \in Tables
  BY Layout DEF Tables, Map, Empty
<1>10. \A h \in Holders, v \in Page : T0[h][v] =
          IF h = Kernel THEN IF v \in Image THEN v ELSE NONE
          ELSE IF h = Idle THEN IF v \in KStack THEN v ELSE NONE
          ELSE NONE
  <2> SUFFICES ASSUME NEW h \in Holders, NEW v \in Page
               PROVE  T0[h][v] =
                        IF h = Kernel THEN IF v \in Image THEN v ELSE NONE
                        ELSE IF h = Idle THEN IF v \in KStack THEN v ELSE NONE
                        ELSE NONE
    OBVIOUS
  <2>1. CASE h = Kernel
    <3>1. T0[h] = Map(Empty, [u \in Image |-> u])
      BY <2>1, Layout
    <3> QED BY <3>1, <2>1 DEF Map, Empty
  <2>2. CASE h = Idle
    <3>1. T0[h] = Map(Empty, [u \in KStack |-> u])
      BY <2>2, Layout
    <3> QED BY <3>1, <2>2, Layout DEF Map, Empty
  <2>3. CASE h # Kernel /\ h # Idle
    <3>1. T0[h] = Empty
      BY <2>3
    <3> QED BY <3>1, <2>3 DEF Empty
  <2> QED BY <2>1, <2>2, <2>3
<1> HIDE DEF T0
<1>11. Unique(T0)
  BY <1>10, Layout DEF Unique
<1>12. Exact(T0, B, {})
  <2>1. ASSUME NEW c, c \in B PROVE \E h \in Holders : c \in Mapped(T0[h])
    <3>1. CASE c \in Image
      <4>1. T0[Kernel][c] = c /\ c # NONE /\ c \in Page
        BY <3>1, <1>10, Layout
      <4> QED BY <4>1, Layout DEF Mapped
    <3>2. CASE c \in KStack
      <4>1. T0[Idle][c] = c /\ c # NONE /\ c \in Page
        BY <3>2, <1>10, Layout
      <4> QED BY <4>1, Layout DEF Mapped
    <3> QED BY <2>1, <3>1, <3>2
  <2>2. \A h \in Holders : Mapped(T0[h]) \subseteq B
    BY <1>10 DEF Mapped
  <2> QED BY <2>1, <2>2 DEF Exact
<1>13. At(T0, Idle, DOMAIN d) = {}
  BY <1>7, <1>8, <1>5, <1>10, Layout DEF At, Valid
<1>14. T1 \in Tables /\ Unique(T1) /\ Exact(T1, B \cup Taken(d), {})
  <2>1. Fresh(d, Page, {})
    BY <1>6 DEF Fresh
  <2>2. T1 \in Tables
    BY <2>1, <1>9, Layout, WriteTable
  <2>3. Unique(T1)
    BY <1>6, <1>9, <1>11, <1>12, Layout, WriteUnique
  <2>4. Exact(T1, B \cup Taken(d), {} \cup At(T0, Idle, DOMAIN d))
    BY <1>6, <1>9, <1>11, <1>12, Layout, WriteExact
  <2> QED BY <2>2, <2>3, <2>4, <1>13
<1>15. \A v \in Page : T1[Init1][v] = NONE
  BY <1>9, <1>10, Layout DEF Write, Tables
<1>16. At(T1, Init1, DOMAIN f) = {}
  BY <1>15, <1>5, <1>3 DEF At, Valid
<1>17. T2 \in Tables /\ Unique(T2) /\ Exact(T2, used, {})
  <2>1. Fresh(f, Page, {})
    BY <1>6 DEF Fresh
  <2>2. T2 \in Tables
    BY <2>1, <1>14, Layout, WriteTable
  <2>3. Unique(T2)
    BY <1>6, <1>14, Layout, WriteUnique
  <2>4. Exact(T2, B \cup Taken(d) \cup Taken(f), {} \cup At(T1, Init1, DOMAIN f))
    BY <1>6, <1>14, Layout, WriteExact
  <2> QED BY <2>2, <2>3, <2>4, <1>16, <1>3
<1>18. pte = T2
  <2>1. T1 = [T0 EXCEPT ![Idle] = Map(Map(Empty, [v \in KStack |-> v]), d)]
    BY Layout DEF Write, T0
  <2>2. T2 = [T1 EXCEPT ![Init1] = Map(Empty, f)]
    BY Layout DEF Write, T0
  <2> HIDE DEF T1, T2
  <2>3. T2 = [h \in Holders |->
                      CASE h = Kernel -> Map(Empty, [v \in Image |-> v])
                        [] h = Idle   -> Map(Map(Empty, [v \in KStack |-> v]), d)
                        [] h = Init1  -> Map(Empty, f)
                        [] OTHER      -> Empty]
    BY <2>1, <2>2, Layout DEF T0
  <2> QED BY <2>3, <1>3
<1>19. /\ \A v \in Page : pte[Kernel][v] = IF v \in Image THEN v ELSE NONE
       /\ \A v \in Page : v \in KStack => pte[Idle][v] = v
       /\ \A v \in Page : v \in S => pte[Init1][v] = f[v]
       /\ \A p \in Procs \ {Idle, Init1} : pte[p] = Empty
  <2>1. \A v \in KStack : v \notin DOMAIN d
    BY <1>7, <1>8
  <2> QED BY <2>1, <1>3, Layout, MemoryAssumption DEF Map, Empty, Holders
<1>20. Boot(pte, used)
  <2>1. \A v \in Image : pte[Kernel][v] = v
    BY <1>19, Layout
  <2> QED BY <2>1, <1>17, <1>18, BootOfUnique
<1>21. \A v \in KStack : f[v] \in Frame
  BY <1>3, <1>6 DEF Fresh
<1> HIDE DEF T1, T2
<1>22. used \subseteq Frame
  BY <1>6, <1>3, Layout DEF Fresh, Taken
<1>23. TypeOK
  <2>1. kstack \in [KStack -> Frame]
    BY Layout DEF Init
  <2>2. kernel_brk \in Address /\ ADDR_TO_PAGE_NUM(kernel_brk) \in ORIG_BRK..TempPage
    BY MemoryAssumption DEF Init, TempPage, Address, ADDR_TO_PAGE_NUM
  <2>4. brk \in [Procs -> 0..MAX_PT_LEN] /\ sp \in [Procs -> Region1 \cup UserSps]
    BY <1>4, <1>1, MemoryAssumption DEF Region1
  <2>5. current \in live /\ live \subseteq Procs
    BY MemoryAssumption DEF Init
  <2>6. pte \in [Holders -> [Page -> Frame \cup {NONE}]]
    BY <1>17, <1>18 DEF Tables
  <2> QED BY <2>1, <2>2, <2>4, <2>5, <2>6, <1>22 DEF TypeOK, Init
<1>24. HeapMapped
  <2>1. ADDR_TO_PAGE_NUM(kernel_brk) = ORIG_BRK
    BY DEF Init, ADDR_TO_PAGE_NUM
  <2>2. \A v \in 0..(ADDR_TO_PAGE_NUM(kernel_brk) - 1) : pte[Kernel][v] # NONE
    BY <2>1, <1>19, Layout DEF Image
  <2>3. pte[Kernel][TempPage] = NONE
    BY <1>19, Layout
  <2> QED BY <2>2, <2>3 DEF HeapMapped
<1>25. \A p \in live : \A v \in KStack : pte[p][v] # NONE
  BY <1>19, <1>21, Layout DEF Init
<1>26. \A v \in KStack : kstack[v] = pte[current][v]
  BY <1>19, Layout DEF Init
<1>27. Idle \in live /\ \A p \in Procs \ live : pte[p] = Empty
  BY <1>19 DEF Init
<1>28. past = {} /\ Unique(pte) /\ Exact(pte, used, lost)
  BY <1>17, <1>18 DEF Init
<1>29. past \subseteq used /\ Exact(pte, used \ past, lost)
  <2>1. used \ {} = used
    OBVIOUS
  <2> QED BY <2>1, <1>28
<1> QED BY <1>20, <1>23, <1>24, <1>25, <1>26, <1>27, <1>28, <1>29 DEF Inv

(* The invariant after a move, from what the lemmas say of its parts.      *)
LEMMA InvAfter ==
  ASSUME TypeOK',
         (Idle \in live)',
         (\A p \in live : \A v \in KStack : pte[p][v] # NONE)',
         (\A p \in Procs \ live : pte[p] = Empty)',
         (\A v \in KStack : kstack[v] = pte[current][v])',
         HeapMapped',
         Boot(pte', used'),
         past' = {},
         ~ stale' => Unique(pte') /\ Exact(pte', used', lost')
  PROVE  Inv'
<1>1. used' \ past' = used' /\ past' \subseteq used'
  OBVIOUS
<1> QED BY <1>1 DEF Inv

LEMMA InvFacts ==
  ASSUME Inv
  PROVE  /\ pte \in Tables
         /\ \A h \in Holders, v \in Page : pte[h][v] \in Frame \cup {NONE}
         /\ current \in live /\ live \subseteq Procs
         /\ kernel_brk \in Address
         /\ ADDR_TO_PAGE_NUM(kernel_brk) \in ORIG_BRK..TempPage
         /\ used \subseteq Frame /\ lost \subseteq Frame
BY DEF Inv, TypeOK, Tables

(* While the machine runs, nothing has been written past a page table.     *)
LEMMA InvRunning ==
  ASSUME Inv, Running
  PROVE  past = {} /\ (~ stale => Unique(pte) /\ Exact(pte, used, lost))
<1>1. past = {}
  BY DEF Inv, Running
<1>2. used \ past = used
  BY <1>1
<1> QED BY <1>1, <1>2 DEF Inv

(* A move that leaves the stacks where they are.                           *)
LEMMA StacksKept ==
  ASSUME Inv, UNCHANGED <<live, current, kstack>>,
         \A p \in Procs : \A v \in KStack : pte'[p][v] = pte[p][v],
         \A p \in Procs \ live : pte'[p] = pte[p]
  PROVE  /\ (Idle \in live)'
         /\ (\A p \in live : \A v \in KStack : pte[p][v] # NONE)'
         /\ (\A p \in Procs \ live : pte[p] = Empty)'
         /\ (\A v \in KStack : kstack[v] = pte[current][v])'
<1>1. current \in Procs /\ live \subseteq Procs
  BY InvFacts
<1> QED BY <1>1 DEF Inv

LEMMA ScheduleInv ==
  ASSUME Inv, NEW next \in Procs, Schedule(next)
  PROVE  Inv'
<1>1. /\ kstack' = [v \in KStack |-> pte[next][v]] /\ current' = next /\ next \in live
      /\ Running
      /\ UNCHANGED <<used, pte, kernel_brk, brk, live, halted, stale, lost, past>>
  BY DEF Schedule, KCSwitch
<1>2. \A v \in KStack : pte[next][v] \in Frame
  <2>1. next \in Holders /\ \A v \in KStack : v \in Page /\ pte[next][v] # NONE
    BY <1>1, Layout DEF Inv
  <2> QED BY <2>1, InvFacts
<1>3. TypeOK'
  <2>1. sp' \in [Procs -> Region1 \cup UserSps]
    <3>1. sp \in [Procs -> Region1 \cup UserSps]
      BY DEF Inv, TypeOK
    <3>2. sp[Idle] \in Region1 \cup UserSps
      BY <3>1, MemoryAssumption
    <3>3. LiveSps \subseteq Region1 \cup UserSps
      BY <3>2 DEF LiveSps
    <3> QED BY <3>1, <3>3 DEF Schedule
  <2> QED BY <2>1, <1>1, <1>2 DEF Inv, TypeOK
<1>4. HeapMapped'
  BY <1>1 DEF Inv, HeapMapped
<1>5. past' = {} /\ (~ stale' => Unique(pte') /\ Exact(pte', used', lost'))
  BY <1>1, InvRunning
<1> QED BY <1>1, <1>3, <1>4, <1>5, InvAfter DEF Inv

LEMMA ForkNoFrameInv ==
  ASSUME Inv, ForkNoFrame
  PROVE  Inv'
<1>1. /\ halted' \in {"Halt", "copy to frame ERROR"}
      /\ UNCHANGED <<used, pte, kstack, kernel_brk, brk, sp, current, live, stale,
                     lost, past>>
  BY DEF ForkNoFrame, Halts
<1>2. TypeOK'
  BY <1>1 DEF Inv, TypeOK
<1>3. HeapMapped'
  BY <1>1 DEF Inv, HeapMapped
<1>4. past' = {} /\ (~ stale' => Unique(pte') /\ Exact(pte', used', lost'))
  BY <1>1, InvRunning DEF ForkNoFrame, InUser
<1> QED BY <1>1, <1>2, <1>3, <1>4, InvAfter DEF Inv

(* SetKernelBrk.                                                           *)
LEMMA KernelBrkUpInv ==
  ASSUME Inv, NEW addr \in KernelBrks, KernelBrkUp(addr)
  PROVE  Inv'
<1> DEFINE new == Between(kernel_brk, addr)
           low == ADDR_TO_PAGE_NUM(kernel_brk)
           high == ADDR_TO_PAGE_NUM(addr)
<1>0. Running /\ past' = past
  BY DEF KernelBrkUp, InUser
<1>1. PICK f \in allocate_frame(new, used) :
        /\ used' = used \cup Taken(f)
        /\ pte' = [pte EXCEPT ![Kernel] = Map(@, f)]
        /\ lost' = lost \cup {pte[Kernel][v] : v \in Valid(pte[Kernel], DOMAIN f)}
        /\ kernel_brk' = IF DOMAIN f = new THEN addr ELSE kernel_brk
  BY DEF KernelBrkUp
<1>2. /\ UNCHANGED <<kstack, brk, sp, current, live, halted, stale>>
      /\ high >= low /\ high < KERNEL_STACK_BASE
      /\ low \in ORIG_BRK..TempPage /\ high \in Nat /\ ORIG_BRK <= high
      /\ addr \in Address
  <2>1. addr \in Address /\ ORIG_BRK <= high
    BY MemoryAssumption
  <2>2. high \in Nat
    BY <2>1 DEF Address, ADDR_TO_PAGE_NUM
  <2> HIDE DEF high, low
  <2>3. high < KERNEL_STACK_BASE
    <3>1. high \in Int /\ KERNEL_STACK_BASE \in Int
      BY <2>2, MemoryAssumption
    <3>2. ~ (high >= KERNEL_STACK_BASE)
      BY DEF KernelBrkUp, BrkRefused, high
    <3> QED BY <3>1, <3>2
  <2>4. low \in ORIG_BRK..TempPage
    BY InvFacts DEF low
  <2>5. high >= low /\ UNCHANGED <<kstack, brk, sp, current, live, halted, stale>>
    BY DEF KernelBrkUp, high, low
  <2> QED BY <2>1, <2>2, <2>3, <2>4, <2>5
<1>3. new \subseteq Page /\ new \subseteq Int /\ high \in ORIG_BRK..TempPage
      /\ TempPage \notin new /\ new = low..(high - 1)
  <2>1. new = low..(high - 1)
    BY DEF Between
  <2> HIDE DEF new, low, high
  <2> QED BY <2>1, <1>2, MemoryAssumption DEF TempPage, Page
<1> HIDE DEF new, low, high
<1>4. Fresh(f, new, used)
  BY <1>1, <1>3, AllocFresh
<1>5. Fresh(f, Page, used) /\ Fresh(f, Page, {})
  BY <1>3, <1>4 DEF Fresh
<1>6. pte' = Write(pte, Kernel, f) /\ lost' = lost \cup At(pte, Kernel, DOMAIN f)
  BY <1>1 DEF Write, At
<1>7. pte \in Tables
  BY InvFacts
<1>8. /\ pte' \in Tables
      /\ \A g \in Holders : g # Kernel => pte'[g] = pte[g]
      /\ \A v \in Page : pte'[Kernel][v] = IF v \in DOMAIN f THEN f[v] ELSE pte[Kernel][v]
  BY <1>5, <1>6, <1>7, Layout, WriteTable
<1>9. Boot(pte', used')
  <2>1. Boot(pte, used)
    BY DEF Inv
  <2>2. Boot(Write(pte, Kernel, f), used \cup Taken(f))
    BY <2>1, <1>5, <1>7, Layout, WriteBoot
  <2> QED BY <2>2, <1>1, <1>6
<1>10. ASSUME ~ stale' PROVE Unique(pte') /\ Exact(pte', used', lost')
  <2>1. Unique(pte) /\ Exact(pte, used, lost)
    BY <1>0, <1>10, <1>2, InvRunning
  <2>2. Unique(Write(pte, Kernel, f))
    BY <2>1, <1>5, <1>7, Layout, WriteUnique
  <2>3. Exact(Write(pte, Kernel, f), used \cup Taken(f), lost \cup At(pte, Kernel, DOMAIN f))
    BY <2>1, <1>5, <1>7, Layout, WriteExact
  <2> QED BY <2>2, <2>3, <1>1, <1>6
<1>11. \A v \in DOMAIN f : f[v] \in Frame /\ f[v] # NONE
  BY <1>4, Layout DEF Fresh
<1>12. \A p \in Procs : p \in Holders /\ p # Kernel
  BY MemoryAssumption DEF Holders
<1>13. HeapMapped'
  <2>1. pte'[Kernel][TempPage] = NONE
    BY <1>3, <1>4, <1>8, Layout DEF Fresh, Inv, HeapMapped
  <2>2. ASSUME NEW v \in 0..(ADDR_TO_PAGE_NUM(kernel_brk') - 1)
        PROVE  pte'[Kernel][v] # NONE
    <3>1. \/ DOMAIN f = new /\ v \in 0..(high - 1)
          \/ v \in 0..(low - 1)
      BY <1>1 DEF high, low
    <3>2. v \in Page
      BY <3>1, <1>2, <1>3, MemoryAssumption DEF Page, TempPage
    <3>3. v \in DOMAIN f \/ v \in 0..(low - 1)
      BY <3>1, <1>2, <1>3, MemoryAssumption
    <3>4. v \in 0..(low - 1) => pte[Kernel][v] # NONE
      BY DEF Inv, HeapMapped, low
    <3> QED BY <3>2, <3>3, <3>4, <1>8, <1>11
  <2> QED BY <2>1, <2>2 DEF HeapMapped
<1>14. TypeOK'
  <2>1. used' \subseteq Frame
    BY <1>1, <1>11 DEF Taken, Inv, TypeOK
  <2>2. lost' \subseteq Frame
    <3>1. DOMAIN f \subseteq Page
      BY <1>5 DEF Fresh
    <3> QED BY <3>1, <1>1, Layout, InvFacts DEF Valid
  <2>3. kernel_brk' \in Address /\ ADDR_TO_PAGE_NUM(kernel_brk') \in ORIG_BRK..TempPage
    <3>1. high \in ORIG_BRK..TempPage /\ low \in ORIG_BRK..TempPage
      BY <1>2, <1>3
    <3>2. kernel_brk' = addr \/ kernel_brk' = kernel_brk
      BY <1>1
    <3> QED BY <3>1, <3>2, <1>2, InvFacts DEF high, low
  <2> QED BY <2>1, <2>2, <2>3, <1>0, <1>2, <1>8 DEF Inv, TypeOK, Tables
<1>15. (\A p \in live : \A v \in KStack : pte[p][v] # NONE)'
       /\ (\A p \in Procs \ live : pte[p] = Empty)'
       /\ (\A v \in KStack : kstack[v] = pte[current][v])'
       /\ (Idle \in live)'
  BY <1>2, <1>8, <1>12, StacksKept
<1>16. past' = {}
  BY <1>0, InvRunning
<1> QED BY <1>9, <1>10, <1>13, <1>14, <1>15, <1>16, InvAfter

LEMMA KernelBrkDownInv ==
  ASSUME Inv, NEW addr \in KernelBrks, KernelBrkDown(addr)
  PROVE  Inv'
<1> DEFINE gone == Between(addr, kernel_brk)
           low == ADDR_TO_PAGE_NUM(addr)
           high == ADDR_TO_PAGE_NUM(kernel_brk)
<1>0. Running
  BY DEF KernelBrkDown, InUser
<1>1. /\ used' = used \ At(pte, Kernel, gone)
      /\ pte' = Clear(pte, Kernel, gone)
      /\ kernel_brk' = addr /\ low < high
      /\ UNCHANGED <<kstack, brk, sp, current, live, halted, stale, lost, past>>
  BY DEF KernelBrkDown, free_frames, At, Clear
<1>2. /\ high \in ORIG_BRK..TempPage /\ low \in Nat /\ ORIG_BRK <= low
      /\ addr \in Address /\ gone = low..(high - 1)
  BY InvFacts, MemoryAssumption DEF Address, ADDR_TO_PAGE_NUM, Between
<1> HIDE DEF gone, low, high
<1>3. low \in ORIG_BRK..TempPage /\ gone \subseteq Page /\ \A v \in gone : ~ (v < ORIG_BRK)
  BY <1>1, <1>2, MemoryAssumption DEF TempPage, Page
<1>4. pte \in Tables
  BY InvFacts
<1>5. /\ pte' \in Tables
      /\ \A g \in Holders : g # Kernel => pte'[g] = pte[g]
      /\ \A v \in Page : pte'[Kernel][v] = IF v \in gone THEN NONE ELSE pte[Kernel][v]
  <2>1. Kernel \in Holders
    BY Layout
  <2> QED BY <2>1, <1>1, <1>4, ClearTable
<1>6. Boot(pte', used')
  <2>1. Boot(pte, used')
    BY <1>1, <1>3, <1>4, Layout, FreeBoot DEF Inv
  <2> QED BY <2>1, <1>1, <1>3, <1>4, Layout, ClearBoot
<1>7. ~ stale' => Unique(pte') /\ Exact(pte', used', lost')
  BY <1>0, <1>1, <1>3, <1>4, Layout, ClearExact, InvRunning
<1>8. \A p \in Procs : p \in Holders /\ p # Kernel
  BY MemoryAssumption DEF Holders
<1>9. HeapMapped'
  <2>1. pte'[Kernel][TempPage] = NONE
    BY <1>5, Layout DEF Inv, HeapMapped
  <2>2. ASSUME NEW v \in 0..(ADDR_TO_PAGE_NUM(kernel_brk') - 1)
        PROVE  pte'[Kernel][v] # NONE
    <3>1. v \in 0..(low - 1)
      BY <1>1 DEF low
    <3>2. v \in Page /\ v \notin gone /\ v \in 0..(high - 1)
      BY <3>1, <1>1, <1>2, MemoryAssumption DEF Page, TempPage
    <3> QED BY <3>2, <1>5 DEF Inv, HeapMapped, high
  <2> QED BY <2>1, <2>2 DEF HeapMapped
<1>10. TypeOK'
  <2>1. kernel_brk' \in Address /\ ADDR_TO_PAGE_NUM(kernel_brk') \in ORIG_BRK..TempPage
    BY <1>1, <1>2, <1>3 DEF low
  <2> QED BY <2>1, <1>1, <1>5 DEF Inv, TypeOK, Tables
<1>11. (\A p \in live : \A v \in KStack : pte[p][v] # NONE)'
       /\ (\A p \in Procs \ live : pte[p] = Empty)'
       /\ (\A v \in KStack : kstack[v] = pte[current][v])'
       /\ (Idle \in live)'
  BY <1>1, <1>5, <1>8, StacksKept
<1>12. past' = {}
  BY <1>0, <1>1, InvRunning
<1> QED BY <1>6, <1>7, <1>9, <1>10, <1>11, <1>12, InvAfter

(* The user's handlers run for a process that is neither idle nor the      *)
(* kernel.                                                                 *)
LEMMA User ==
  ASSUME Inv, InUser
  PROVE  /\ current \in Procs /\ current \in Holders \ {Idle}
         /\ current # Kernel /\ current # Idle
         /\ past = {} /\ (~ stale => Unique(pte) /\ Exact(pte, used, lost))
BY InvFacts, InvRunning, Layout DEF InUser

(* SysBrk: frames that were free, for pages of region 1 that were invalid   *)
(* and for what lies past the table.                                       *)
LEMMA BrkUpShape ==
  ASSUME Inv, NEW a \in UserBrks, BrkUp(a)
  PROVE  \E f : /\ f \in [DOMAIN f -> Frame]
                /\ \A v \in DOMAIN f : f[v] \notin used
                /\ \A v, w \in DOMAIN f : f[v] = f[w] => v = w
                /\ \A v \in DOMAIN f \cap Page : v \in Region1 /\ pte[current][v] = NONE
                /\ used' = used \cup Taken(f)
                /\ pte' = [pte EXCEPT ![current] = Map(@, f)]
                /\ past' = {f[v] : v \in DOMAIN f \ Page}
                /\ halted' = IF past' = {} THEN halted ELSE "wrote past region1_pt"
<1> DEFINE new == {MAX_PT_LEN + i : i \in brk[current]..(BrkPage(a) - 1)}
           inside == new \cap Page
<1>1. PICK beyond \in SUBSET (new \ Page) :
        \E f \in allocate_frame((inside \ Valid(pte[current], inside)) \cup beyond, used) :
           /\ used' = used \cup Taken(f)
           /\ pte' = [pte EXCEPT ![current] = Map(@, f)]
           /\ past' = {f[v] : v \in DOMAIN f \ Page}
           /\ halted' = IF past' = {} THEN halted ELSE "wrote past region1_pt"
  BY DEF BrkUp
<1> DEFINE S == (inside \ Valid(pte[current], inside)) \cup beyond
<1>2. PICK f \in allocate_frame(S, used) :
           /\ used' = used \cup Taken(f)
           /\ pte' = [pte EXCEPT ![current] = Map(@, f)]
           /\ past' = {f[v] : v \in DOMAIN f \ Page}
           /\ halted' = IF past' = {} THEN halted ELSE "wrote past region1_pt"
  BY <1>1
<1>3. brk[current] \in 0..MAX_PT_LEN
  BY User DEF BrkUp, Inv, TypeOK
<1>4. new \subseteq Int /\ inside \subseteq Region1
  <2>1. MAX_PT_LEN \in Nat /\ brk[current] \in Nat
    BY <1>3, MemoryAssumption
  <2>2. \A v \in new : v \in Int /\ MAX_PT_LEN <= v
    <3> SUFFICES ASSUME NEW i \in brk[current]..(BrkPage(a) - 1)
                 PROVE  MAX_PT_LEN + i \in Int /\ MAX_PT_LEN <= MAX_PT_LEN + i
      OBVIOUS
    <3> HIDE DEF new
    <3>1. i \in Int /\ brk[current] <= i
      OBVIOUS
    <3> QED BY <2>1, <3>1
  <2> HIDE DEF new
  <2> QED BY <2>1, <2>2 DEF Page, Region1
<1>5. S \subseteq Int /\ \A v \in S \cap Page : v \in Region1 /\ pte[current][v] = NONE
  <2> HIDE DEF new
  <2> QED BY <1>4 DEF Valid
<1> HIDE DEF S
<1>6. Fresh(f, S, used)
  BY <1>5, AllocFresh
<1> QED BY <1>2, <1>5, <1>6 DEF Fresh

LEMMA BrkUpInv ==
  ASSUME Inv, NEW a \in UserBrks, BrkUp(a)
  PROVE  /\ Inv'
         /\ \A c \in past' : c \notin used
<1>1. PICK f : /\ f \in [DOMAIN f -> Frame]
               /\ \A v \in DOMAIN f : f[v] \notin used
               /\ \A v, w \in DOMAIN f : f[v] = f[w] => v = w
               /\ \A v \in DOMAIN f \cap Page : v \in Region1 /\ pte[current][v] = NONE
               /\ used' = used \cup Taken(f)
               /\ pte' = [pte EXCEPT ![current] = Map(@, f)]
               /\ past' = {f[v] : v \in DOMAIN f \ Page}
               /\ halted' = IF past' = {} THEN halted ELSE "wrote past region1_pt"
  BY BrkUpShape
<1>2. /\ UNCHANGED <<kstack, kernel_brk, brk, sp, current, live, stale, lost>>
      /\ current \in Procs /\ current \in Holders \ {Idle} /\ current # Kernel
      /\ past = {} /\ (~ stale => Unique(pte) /\ Exact(pte, used, lost))
  BY User DEF BrkUp
<1> DEFINE e == [v \in DOMAIN f \cap Page |-> f[v]]
<1>3. /\ DOMAIN e = DOMAIN f \cap Page
      /\ \A v \in DOMAIN e : e[v] = f[v]
      /\ e \in [DOMAIN e -> Frame]
  BY <1>1
<1>4. Map(pte[current], f) = Map(pte[current], e)
  BY <1>3 DEF Map
<1>5. Taken(f) = Taken(e) \cup past' /\ Taken(e) \cap past' = {}
  <2>1. \A c : c \in Taken(f) <=> \E v \in DOMAIN f : c = f[v]
    BY DEF Taken
  <2>2. \A c : c \in Taken(e) <=> \E v \in DOMAIN f \cap Page : c = f[v]
    BY <1>3 DEF Taken
  <2>3. \A c : c \in past' <=> \E v \in DOMAIN f \ Page : c = f[v]
    BY <1>1
  <2>4. \A c : c \in Taken(f) <=> c \in Taken(e) \/ c \in past'
    BY <2>1, <2>2, <2>3
  <2>5. ASSUME NEW c, c \in Taken(e), c \in past' PROVE FALSE
    <3>1. PICK v \in DOMAIN f \cap Page : c = f[v]
      BY <2>2, <2>5
    <3>2. PICK w \in DOMAIN f \ Page : c = f[w]
      BY <2>3, <2>5
    <3>3. v = w
      BY <3>1, <3>2, <1>1
    <3> QED BY <3>3
  <2> QED BY <2>4, <2>5
<1> HIDE DEF e
<1>6. Fresh(e, Page, used) /\ Fresh(e, Page, {})
  BY <1>1, <1>3 DEF Fresh
<1>7. pte' = Write(pte, current, e) /\ At(pte, current, DOMAIN e) = {}
  BY <1>1, <1>3, <1>4 DEF Write, At, Valid
<1>8. pte \in Tables
  BY InvFacts
<1>9. /\ pte' \in Tables
      /\ \A g \in Holders : g # current => pte'[g] = pte[g]
      /\ \A v \in Page : pte'[current][v] = IF v \in DOMAIN e THEN e[v] ELSE pte[current][v]
  BY <1>2, <1>6, <1>7, <1>8, WriteTable
<1>10. /\ \A c \in past' : c \notin used /\ c \in Frame
       /\ used' = used \cup Taken(e) \cup past' /\ used' \ past' = used \cup Taken(e)
       /\ used' \subseteq Frame
  <2>1. \A c \in past' : c \notin used /\ c \in Frame
    BY <1>1
  <2>2. \A c \in Taken(f) : c \in Frame
    BY <1>1 DEF Taken
  <2> QED BY <2>1, <2>2, <1>1, <1>5, InvFacts
<1>11. Boot(pte', used')
  <2>1. Boot(pte, used)
    BY DEF Inv
  <2>2. Boot(Write(pte, current, e), used \cup Taken(e))
    BY <2>1, <1>2, <1>6, <1>8, WriteBoot
  <2> QED BY <2>2, <1>7, <1>10 DEF Boot
<1>12. ASSUME ~ stale' PROVE Unique(pte') /\ Exact(pte', used' \ past', lost')
  <2>1. Unique(pte) /\ Exact(pte, used, lost)
    BY <1>12, <1>2
  <2>2. Unique(Write(pte, current, e))
    BY <2>1, <1>2, <1>6, <1>8, WriteUnique
  <2>3. Exact(Write(pte, current, e), used \cup Taken(e), lost \cup At(pte, current, DOMAIN e))
    BY <2>1, <1>2, <1>6, <1>8, WriteExact
  <2>4. Exact(Write(pte, current, e), used \cup Taken(e), lost)
    BY <2>3, <1>7
  <2> QED BY <2>2, <2>4, <1>2, <1>7, <1>10
<1>13. HeapMapped'
  BY <1>2, <1>9, Layout DEF Inv, HeapMapped
<1>14. TypeOK'
  <2>1. halted' \in {"none", "Halt", "copy to frame ERROR", "wrote past region1_pt"}
    BY <1>1 DEF Inv, TypeOK
  <2> QED BY <2>1, <1>2, <1>9, <1>10 DEF Inv, TypeOK, Tables
<1>15. /\ \A p \in Procs : \A v \in KStack : pte'[p][v] = pte[p][v]
       /\ \A p \in Procs \ live : pte'[p] = pte[p]
  <2>1. \A v \in KStack : v \notin DOMAIN e
    BY <1>1, <1>3, Layout
  <2>2. \A v \in KStack : pte'[current][v] = pte[current][v]
    BY <2>1, <1>9, Layout
  <2> QED BY <2>2, <1>9, Layout, InvFacts
<1>16. /\ (Idle \in live)'
       /\ (\A p \in live : \A v \in KStack : pte[p][v] # NONE)'
       /\ (\A p \in Procs \ live : pte[p] = Empty)'
       /\ (\A v \in KStack : kstack[v] = pte[current][v])'
  BY <1>2, <1>15, StacksKept
<1>17. (halted' = "none" => past' = {}) /\ past' \subseteq used'
  BY <1>1, <1>10
<1> QED BY <1>10, <1>11, <1>12, <1>13, <1>14, <1>16, <1>17 DEF Inv

LEMMA BrkDownInv ==
  ASSUME Inv, NEW a \in UserBrks, BrkDown(a)
  PROVE  Inv'
<1> DEFINE gone == {MAX_PT_LEN + i : i \in Freed(brk[current], BrkPage(a))}
<1>1. /\ used' = used \ At(pte, current, gone)
      /\ pte' = Clear(pte, current, gone)
      /\ UNCHANGED <<kstack, kernel_brk, brk, sp, current, live, halted, stale, lost,
                     past>>
  BY DEF BrkDown, free_frames, At, Clear
<1>2. current \in Procs /\ current \in Holders \ {Idle} /\ current # Kernel
      /\ past = {} /\ (~ stale => Unique(pte) /\ Exact(pte, used, lost))
  BY User DEF BrkDown
<1>3. gone \subseteq Region1
  <2>1. brk[current] \in 0..MAX_PT_LEN
    BY <1>2 DEF Inv, TypeOK
  <2> QED BY <2>1, MemoryAssumption DEF Freed, Region1
<1> HIDE DEF gone
<1>4. pte \in Tables /\ gone \in SUBSET Page
  BY <1>3, InvFacts, Layout
<1>5. /\ pte' \in Tables
      /\ \A g \in Holders : g # current => pte'[g] = pte[g]
      /\ \A v \in Page : pte'[current][v] = IF v \in gone THEN NONE ELSE pte[current][v]
  BY <1>1, <1>2, <1>4, ClearTable
<1>6. Boot(pte', used')
  <2>1. Boot(pte, used)
    BY DEF Inv
  <2>2. Boot(pte, used')
    BY <2>1, <1>1, <1>2, <1>4, FreeBoot
  <2> QED BY <2>2, <1>1, <1>2, <1>4, ClearBoot
<1>7. ASSUME ~ stale' PROVE Unique(pte') /\ Exact(pte', used', lost')
  <2>1. Unique(pte) /\ Exact(pte, used, lost)
    BY <1>7, <1>1, <1>2
  <2> QED BY <2>1, <1>1, <1>2, <1>4, ClearExact
<1>8. HeapMapped'
  BY <1>1, <1>2, <1>5, Layout DEF Inv, HeapMapped
<1>9. TypeOK'
  BY <1>1, <1>5 DEF Inv, TypeOK, Tables
<1>10. /\ \A p \in Procs : \A v \in KStack : pte'[p][v] = pte[p][v]
       /\ \A p \in Procs \ live : pte'[p] = pte[p]
  <2>1. \A v \in KStack : pte'[current][v] = pte[current][v]
    BY <1>3, <1>5, Layout
  <2> QED BY <2>1, <1>5, Layout, InvFacts
<1> QED BY <1>1, <1>2, <1>6, <1>7, <1>8, <1>9, <1>10, StacksKept, InvAfter

(* Exec: the old pages are freed, then written over.  Unless one is left,   *)
(* that is the same as making them invalid first.                          *)
LEMMA ExecInv ==
  ASSUME Inv, NEW g \in Programs, Exec(g)
  PROVE  Inv'
<1> DEFINE p == current
           old == Valid(pte[p], Region1)
           new == ImagePages(g) \cup StackPages(g.stack_npg)
           U == used \ At(pte, p, Region1)
<1>1. PICK f \in allocate_frame(new, U) :
        /\ used' = U \cup Taken(f)
        /\ pte' = [pte EXCEPT ![p] = Map(@, f)]
        /\ brk' = [brk EXCEPT ![p] = IF ImagePages(g) \subseteq DOMAIN f THEN g.top ELSE @]
        /\ sp' = [sp EXCEPT ![p] = 2 * MAX_PT_LEN - g.stack_npg]
        /\ stale' = (stale \/ ~ (old \subseteq DOMAIN f))
  BY DEF Exec, Reloaded, free_frames, At
<1>2. /\ UNCHANGED <<kstack, kernel_brk, current, live, halted, lost, past>>
      /\ p \in Procs /\ p \in Holders \ {Idle} /\ p # Kernel
      /\ past = {} /\ (~ stale => Unique(pte) /\ Exact(pte, used, lost))
  BY User DEF Exec
<1>3. new \subseteq Region1 /\ new \subseteq Page
  BY ProgramPages, Layout
<1> HIDE DEF new, U
<1>4. Fresh(f, new, U)
  BY <1>3, AllocFresh
<1>5. Fresh(f, Page, U) /\ Fresh(f, Page, {}) /\ DOMAIN f \subseteq Region1
  BY <1>3, <1>4 DEF Fresh
<1>6. pte' = Write(pte, p, f)
  BY <1>1 DEF Write
<1>7. pte \in Tables /\ Region1 \in SUBSET Page
  BY InvFacts, Layout
<1> HIDE DEF p
<1>8. /\ pte' \in Tables
      /\ \A h \in Holders : h # p => pte'[h] = pte[h]
      /\ \A v \in Page : pte'[p][v] = IF v \in DOMAIN f THEN f[v] ELSE pte[p][v]
  BY <1>2, <1>5, <1>6, <1>7, WriteTable
<1>9. Boot(pte', used')
  <2>1. Boot(pte, used)
    BY DEF Inv
  <2>2. Boot(pte, U)
    BY <2>1, <1>2, <1>7, FreeBoot DEF U
  <2>3. Boot(Write(pte, p, f), U \cup Taken(f))
    BY <2>2, <1>2, <1>5, <1>7, WriteBoot
  <2> QED BY <2>3, <1>1, <1>6
<1>10. ASSUME ~ stale' PROVE Unique(pte') /\ Exact(pte', used', lost')
  <2> DEFINE X == Clear(pte, p, Region1)
  <2>1. Unique(pte) /\ Exact(pte, used, lost) /\ old \subseteq DOMAIN f
    BY <1>10, <1>1, <1>2
  <2>2. /\ X \in Tables
        /\ \A h \in Holders : h # p => X[h] = pte[h]
        /\ \A v \in Page : X[p][v] = IF v \in Region1 THEN NONE ELSE pte[p][v]
    BY <1>2, <1>7, ClearTable
  <2>3. Unique(X) /\ Exact(X, U, lost)
    BY <2>1, <1>2, <1>7, ClearExact DEF U
  <2> HIDE DEF X
  <2>4. Unique(Write(X, p, f))
    BY <2>2, <2>3, <1>2, <1>5, WriteUnique
  <2>5. Exact(Write(X, p, f), U \cup Taken(f), lost \cup At(X, p, DOMAIN f))
    BY <2>2, <2>3, <1>2, <1>5, WriteExact
  <2>6. At(X, p, DOMAIN f) = {}
    BY <2>2, <1>5, <1>7 DEF At, Valid
  <2>7. Write(X, p, f) = pte'
    <3>1. /\ Write(X, p, f) \in Tables
          /\ \A h \in Holders : h # p => Write(X, p, f)[h] = X[h]
          /\ \A v \in Page : Write(X, p, f)[p][v] = IF v \in DOMAIN f THEN f[v] ELSE X[p][v]
      BY <2>2, <1>2, <1>5, WriteTable
    <3>2. \A v \in Page : v \in Region1 /\ v \notin DOMAIN f => pte[p][v] = NONE
      BY <2>1 DEF Valid
    <3>3. \A v \in Page : Write(X, p, f)[p][v] = pte'[p][v]
      BY <3>1, <3>2, <2>2, <1>8
    <3>4. \A h \in Holders : h # p => Write(X, p, f)[h] = pte'[h]
      BY <3>1, <2>2, <1>8
    <3> HIDE DEF X
    <3>5. \A h \in Holders : Write(X, p, f)[h] \in [Page -> Frame \cup {NONE}]
                             /\ pte'[h] \in [Page -> Frame \cup {NONE}]
      BY <3>1, <1>8 DEF Tables
    <3>6. Write(X, p, f)[p] = pte'[p]
      BY <3>3, <3>5, <1>2
    <3> QED BY <3>1, <3>4, <3>6, <1>8 DEF Tables
  <2>8. Exact(pte', used', lost')
    BY <2>5, <2>6, <2>7, <1>1, <1>2
  <2> QED BY <2>4, <2>7, <2>8
<1>11. HeapMapped'
  BY <1>2, <1>8, Layout DEF Inv, HeapMapped
<1>12. TypeOK'
  <2>1. used' \subseteq Frame
    BY <1>1, <1>4, InvFacts DEF Taken, Fresh, U
  <2>2. brk' \in [Procs -> 0..MAX_PT_LEN] /\ sp' \in [Procs -> Region1 \cup UserSps]
    BY <1>1, <1>2, ProgramPages DEF Inv, TypeOK
  <2>3. stale' \in BOOLEAN
    BY <1>1 DEF Inv, TypeOK
  <2> QED BY <2>1, <2>2, <2>3, <1>2, <1>8 DEF Inv, TypeOK, Tables
<1>13. /\ \A q \in Procs : \A v \in KStack : pte'[q][v] = pte[q][v]
       /\ \A q \in Procs \ live : pte'[q] = pte[q]
  <2>1. \A v \in KStack : pte'[p][v] = pte[p][v]
    BY <1>5, <1>8, Layout
  <2> QED BY <2>1, <1>8, Layout, InvFacts DEF p
<1> QED BY <1>2, <1>9, <1>10, <1>11, <1>12, <1>13, StacksKept, InvAfter

LEMMA ExecNoBufferInv ==
  ASSUME Inv, NEW g \in Programs, ExecNoBuffer(g)
  PROVE  Inv'
<1>1. /\ sp' = [sp EXCEPT ![current] = 2 * MAX_PT_LEN - g.stack_npg]
      /\ UNCHANGED <<used, pte, kstack, kernel_brk, brk, current, live, halted, stale,
                     lost, past>>
      /\ past = {} /\ (~ stale => Unique(pte) /\ Exact(pte, used, lost))
  BY User DEF ExecNoBuffer
<1>2. TypeOK'
  <2>1. sp' \in [Procs -> Region1 \cup UserSps]
    BY <1>1, ProgramPages DEF Inv, TypeOK
  <2> QED BY <2>1, <1>1 DEF Inv, TypeOK
<1>3. HeapMapped'
  BY <1>1 DEF Inv, HeapMapped
<1> QED BY <1>1, <1>2, <1>3, InvAfter DEF Inv

LEMMA ExitInv ==
  ASSUME Inv, NEW next \in Procs, Exit(next)
  PROVE  Inv'
<1> DEFINE p == current
<1>1. /\ used' = used \ At(pte, p, Page)
      /\ pte' = Clear(pte, p, Page)
      /\ kstack' = [v \in KStack |-> pte[next][v]] /\ current' = next
      /\ next \in live /\ next # p
      /\ brk' = [brk EXCEPT ![p] = 0] /\ sp' = [sp EXCEPT ![p] = 2 * MAX_PT_LEN - 1]
      /\ live' = live \ {p}
      /\ UNCHANGED <<kernel_brk, halted, stale, lost, past>>
  <2>1. Mapped(pte[p]) = At(pte, p, Page)
    BY DEF Mapped, At, Valid
  <2>2. Unmap(pte[p], Page) = Empty
    BY DEF Unmap, Empty
  <2> QED BY <2>1, <2>2 DEF Exit, KCSwitch, Returned, free_frames, Clear
<1>2. p \in Procs /\ p \in Holders \ {Idle} /\ p # Kernel /\ p # Idle
      /\ past = {} /\ (~ stale => Unique(pte) /\ Exact(pte, used, lost))
  BY User DEF Exit
<1>3. pte \in Tables /\ Page \in SUBSET Page
  BY InvFacts
<1>4. /\ pte' \in Tables
      /\ \A h \in Holders : h # p => pte'[h] = pte[h]
      /\ \A v \in Page : pte'[p][v] = NONE
  BY <1>1, <1>2, <1>3, ClearTable
<1>5. pte'[p] = Empty
  BY <1>2, <1>4 DEF Tables, Empty
<1> HIDE DEF p
<1>6. Boot(pte', used')
  <2>1. Boot(pte, used)
    BY DEF Inv
  <2>2. Boot(pte, used')
    BY <2>1, <1>1, <1>2, <1>3, FreeBoot
  <2> QED BY <2>2, <1>1, <1>2, <1>3, ClearBoot
<1>7. ASSUME ~ stale' PROVE Unique(pte') /\ Exact(pte', used', lost')
  <2>1. Unique(pte) /\ Exact(pte, used, lost)
    BY <1>7, <1>1, <1>2
  <2> QED BY <2>1, <1>1, <1>2, <1>3, ClearExact
<1>8. HeapMapped'
  BY <1>1, <1>2, <1>4, Layout DEF Inv, HeapMapped
<1>9. \A v \in KStack : v \in Page /\ pte[next][v] # NONE /\ pte[next][v] \in Frame
  BY <1>1, Layout, InvFacts DEF Inv
<1>10. TypeOK'
  <2>1. 2 * MAX_PT_LEN - 1 \in Region1 /\ 0 \in 0..MAX_PT_LEN
    BY MemoryAssumption DEF Region1
  <2>2. brk' \in [Procs -> 0..MAX_PT_LEN] /\ sp' \in [Procs -> Region1 \cup UserSps]
    BY <2>1, <1>1, <1>2 DEF Inv, TypeOK
  <2>3. kstack' \in [KStack -> Frame]
    BY <1>1, <1>9
  <2> QED BY <2>2, <2>3, <1>1, <1>4 DEF Inv, TypeOK, Tables
<1>11. (\A v \in KStack : kstack[v] = pte[current][v])'
  BY <1>1, <1>4, Layout
<1>12. (Idle \in live)' /\ (\A q \in live : \A v \in KStack : pte[q][v] # NONE)'
  <2>1. \A q \in live' : q # p /\ q \in live /\ q \in Procs
    BY <1>1, InvFacts
  <2>2. \A q \in live' : pte'[q] = pte[q]
    BY <2>1, <1>4, Layout
  <2>3. Idle \in live'
    BY <1>1, <1>2 DEF Inv
  <2> QED BY <2>1, <2>2, <2>3 DEF Inv
<1>13. (\A q \in Procs \ live : pte[q] = Empty)'
  BY <1>1, <1>4, <1>5, Layout DEF Inv
<1> QED BY <1>1, <1>2, <1>6, <1>7, <1>8, <1>10, <1>11, <1>12, <1>13, InvAfter

(* Fork writes the copy, then the stack, to the empty table of the child.   *)
LEMMA ForkInv ==
  ASSUME Inv, NEW child \in Procs, Fork(child)
  PROVE  Inv'
<1> DEFINE S == Valid(pte[current], Region1)
<1>1. PICK f \in allocate_frame(S, used) :
        \E k \in allocate_frame(KStack, used \cup Taken(f)) :
          /\ DOMAIN f = S
          /\ DOMAIN k = KStack
          /\ used' = used \cup Taken(f) \cup Taken(k)
          /\ pte' = [pte EXCEPT ![child] = Map(Map(Empty, f), k),
                                ![Kernel] = Unmap(@, {TempPage})]
          /\ brk' = [brk EXCEPT ![child] = 0]
          /\ live' = live \cup {child}
  BY DEF Fork, Copied
<1>2. PICK k \in allocate_frame(KStack, used \cup Taken(f)) :
          /\ DOMAIN f = S
          /\ DOMAIN k = KStack
          /\ used' = used \cup Taken(f) \cup Taken(k)
          /\ pte' = [pte EXCEPT ![child] = Map(Map(Empty, f), k),
                                ![Kernel] = Unmap(@, {TempPage})]
          /\ brk' = [brk EXCEPT ![child] = 0]
          /\ live' = live \cup {child}
  BY <1>1
<1>3. /\ UNCHANGED <<kstack, kernel_brk, current, halted, stale, lost, past>>
      /\ child \notin live /\ child # Idle /\ child # Kernel
      /\ child \in Holders \ {Idle} /\ pte[child] = Empty
      /\ past = {} /\ (~ stale => Unique(pte) /\ Exact(pte, used, lost))
  <2>1. past = {} /\ (~ stale => Unique(pte) /\ Exact(pte, used, lost))
    BY User DEF Fork
  <2> QED BY <2>1, Layout DEF Fork, Inv
<1>4. S \subseteq Page /\ S \subseteq Region1
  BY Layout DEF Valid
<1> HIDE DEF S
<1>5. Fresh(f, S, used) /\ Fresh(k, KStack, used \cup Taken(f))
  BY <1>4, Layout, AllocFresh
<1>6. /\ Fresh(f, Page, used) /\ Fresh(f, Page, {})
      /\ Fresh(k, Page, used \cup Taken(f)) /\ Fresh(k, Page, {})
  BY <1>4, <1>5, Layout DEF Fresh
<1>7. pte \in Tables
  BY InvFacts
<1> DEFINE X == Write(pte, child, f)
           Y == Write(X, child, k)
<1>8. /\ X \in Tables
      /\ \A h \in Holders : h # child => X[h] = pte[h]
      /\ \A v \in Page : X[child][v] = IF v \in DOMAIN f THEN f[v] ELSE NONE
  <2>1. \A v \in Page : pte[child][v] = NONE
    BY <1>3 DEF Empty
  <2> QED BY <2>1, <1>3, <1>6, <1>7, WriteTable
<1> HIDE DEF X
<1>9. /\ Y \in Tables
      /\ \A h \in Holders : h # child => Y[h] = X[h]
      /\ \A v \in Page : Y[child][v] = IF v \in DOMAIN k THEN k[v] ELSE X[child][v]
  BY <1>3, <1>6, <1>8, WriteTable
<1> HIDE DEF Y
<1>10. pte' = Y
  <2>1. Unmap(pte[Kernel], {TempPage}) = pte[Kernel]
    <3>1. pte[Kernel] \in [Page -> Frame \cup {NONE}]
      BY <1>7, Layout DEF Tables
    <3>2. \A v \in Page : v \in {TempPage} => pte[Kernel][v] = NONE
      BY DEF Inv, HeapMapped
    <3> QED BY <3>1, <3>2 DEF Unmap
  <2>2. \A h \in Holders : h # child => pte'[h] = pte[h]
    BY <2>1, <1>2, <1>3, <1>7 DEF Tables
  <2>3. pte'[child] = Map(Map(Empty, f), k)
    BY <1>2, <1>3, <1>7 DEF Tables
  <2>4. \A v \in Page : pte'[child][v] = Y[child][v]
    BY <2>3, <1>8, <1>9 DEF Map, Empty
  <2>5. pte'[child] = Y[child]
    BY <2>3, <2>4, <1>3, <1>9 DEF Tables, Map
  <2>6. \A h \in Holders : pte'[h] = Y[h]
    BY <2>2, <2>5, <1>8, <1>9
  <2>7. pte' = [h \in Holders |-> pte'[h]]
    BY <1>2, <1>7 DEF Tables
  <2> QED BY <2>6, <2>7, <1>9 DEF Tables
<1>11. At(pte, child, DOMAIN f) = {} /\ At(X, child, DOMAIN k) = {}
  <2>1. At(pte, child, DOMAIN f) = {}
    BY <1>2, <1>3, <1>4 DEF At, Valid, Empty
  <2>2. \A v \in KStack : X[child][v] = NONE
    BY <1>2, <1>4, <1>8, Layout
  <2> QED BY <2>1, <2>2, <1>2 DEF At, Valid
<1>12. Boot(pte', used')
  <2>1. Boot(pte, used)
    BY DEF Inv
  <2>2. Boot(X, used \cup Taken(f))
    BY <2>1, <1>3, <1>6, <1>7, WriteBoot DEF X
  <2>3. Boot(Y, used \cup Taken(f) \cup Taken(k))
    BY <2>2, <1>3, <1>6, <1>8, WriteBoot DEF Y
  <2> QED BY <2>3, <1>2, <1>10
<1>13. ASSUME ~ stale' PROVE Unique(pte') /\ Exact(pte', used', lost')
  <2>1. Unique(pte) /\ Exact(pte, used, lost)
    BY <1>13, <1>3
  <2>2. Unique(X)
    BY <2>1, <1>3, <1>6, <1>7, WriteUnique DEF X
  <2>3. Exact(X, used \cup Taken(f), lost \cup At(pte, child, DOMAIN f))
    BY <2>1, <1>3, <1>6, <1>7, WriteExact DEF X
  <2>4. Exact(X, used \cup Taken(f), lost)
    BY <2>3, <1>11
  <2>5. Unique(Y)
    BY <2>2, <2>4, <1>3, <1>6, <1>8, WriteUnique DEF Y
  <2>6. Exact(Y, used \cup Taken(f) \cup Taken(k), lost \cup At(X, child, DOMAIN k))
    BY <2>2, <2>4, <1>3, <1>6, <1>8, WriteExact DEF Y
  <2>7. Exact(Y, used \cup Taken(f) \cup Taken(k), lost)
    BY <2>6, <1>11
  <2> QED BY <2>5, <2>7, <1>2, <1>3, <1>10
<1>14. \A h \in Holders : h # child => pte'[h] = pte[h]
  BY <1>8, <1>9, <1>10
<1>15. HeapMapped'
  BY <1>3, <1>14, Layout DEF Inv, HeapMapped
<1>16. TypeOK'
  <2>1. used' \subseteq Frame
    BY <1>2, <1>5, InvFacts DEF Taken, Fresh
  <2>2. brk' \in [Procs -> 0..MAX_PT_LEN] /\ sp' \in [Procs -> Region1 \cup UserSps]
    <3>1. 0 \in 0..MAX_PT_LEN
      BY MemoryAssumption
    <3>2. PICK q \in UserSps : sp' = [sp EXCEPT ![child] = q]
      BY DEF Fork
    <3>3. brk \in [Procs -> 0..MAX_PT_LEN] /\ sp \in [Procs -> Region1 \cup UserSps]
      BY DEF Inv, TypeOK
    <3> QED BY <3>1, <3>2, <3>3, <1>2
  <2>3. current' \in live' /\ live' \subseteq Procs
    BY <1>2, <1>3, InvFacts
  <2>4. pte' \in [Holders -> [Page -> Frame \cup {NONE}]]
    BY <1>9, <1>10 DEF Tables
  <2> QED BY <2>1, <2>2, <2>3, <2>4, <1>3 DEF Inv, TypeOK
<1>17. \A v \in KStack : pte'[child][v] # NONE
  <2>1. \A v \in KStack : pte'[child][v] = k[v] /\ k[v] \in Frame
    BY <1>2, <1>5, <1>9, <1>10, Layout DEF Fresh
  <2> QED BY <2>1, Layout
<1>18. (\A p \in live : \A v \in KStack : pte[p][v] # NONE)'
  <2>1. \A p \in live : p \in Holders /\ p # child
    BY <1>3, InvFacts, Layout
  <2>2. \A p \in live : \A v \in KStack : pte'[p][v] # NONE
    BY <2>1, <1>14 DEF Inv
  <2> QED BY <2>2, <1>2, <1>17
<1>19. (\A p \in Procs \ live : pte[p] = Empty)' /\ (Idle \in live)'
  BY <1>2, <1>14, Layout DEF Inv
<1>20. (\A v \in KStack : kstack[v] = pte[current][v])'
  <2>1. pte'[current] = pte[current]
    BY <1>3, <1>14, InvFacts, Layout
  <2> QED BY <2>1, <1>3 DEF Inv
<1> QED BY <1>3, <1>12, <1>13, <1>15, <1>16, <1>18, <1>19, <1>20, InvAfter

LEMMA NextInv ==
  ASSUME Inv, [Next]_vars
  PROVE  Inv'
<1>1. ASSUME NEW p \in Procs, Schedule(p) PROVE Inv'
  BY <1>1, ScheduleInv
<1>2. ASSUME NEW p \in Procs, Fork(p) PROVE Inv'
  BY <1>2, ForkInv
<1>3. ASSUME NEW p \in Procs, Exit(p) PROVE Inv'
  BY <1>3, ExitInv
<1>4. CASE ForkNoFrame
  BY <1>4, ForkNoFrameInv
<1>5. ASSUME NEW addr \in KernelBrks, KernelBrkUp(addr) PROVE Inv'
  BY <1>5, KernelBrkUpInv
<1>6. ASSUME NEW addr \in KernelBrks, KernelBrkDown(addr) PROVE Inv'
  BY <1>6, KernelBrkDownInv
<1>7. ASSUME NEW a \in UserBrks, BrkUp(a) PROVE Inv'
  BY <1>7, BrkUpInv
<1>8. ASSUME NEW a \in UserBrks, BrkDown(a) PROVE Inv'
  BY <1>8, BrkDownInv
<1>9. ASSUME NEW g \in Programs, Exec(g) PROVE Inv'
  BY <1>9, ExecInv
<1>10. ASSUME NEW g \in Programs, ExecNoBuffer(g) PROVE Inv'
  BY <1>10, ExecNoBufferInv
<1>11. CASE UNCHANGED vars
  BY <1>11 DEF vars, Inv, TypeOK, HeapMapped
<1> QED BY <1>1, <1>2, <1>3, <1>4, <1>5, <1>6, <1>7, <1>8, <1>9, <1>10, <1>11 DEF Next

LEMMA Always == Spec => []Inv
  BY InitInv, NextInv, PTL DEF Spec

(* Page tables, brk and frame bitmap keep their types, for every machine    *)
(* size and set of processes and programs.                                  *)
THEOREM MemoryTypes == Spec => []TypeOK
<1>1. Inv => TypeOK
  BY InvImplies
<1> QED
  BY <1>1, Always, PTL

(* No frame is in two page tables, or twice in one: allocate_frame hands out*)
(* only what is free, until an Exec leaves a page behind.                   *)
THEOREM FramesOwnedOnce == Spec => []FramesNotShared
<1>1. Inv => FramesNotShared
  BY InvImplies
<1> QED
  BY <1>1, Always, PTL

(* A frame is marked used exactly while a page table has it or it is one    *)
(* that a failed SetKernelBrk lost or that Brk took for an entry past the   *)
(* end of region1_pt, until an Exec leaves a page behind: no loop of Fork,  *)
(* Exec, Brk or Exit loses another, wherever it stops and whatever break is *)
(* asked for.                                                               *)
THEOREM FramesCounted == Spec => []FramesAccounted
<1>1. Inv => FramesAccounted
  BY InvImplies
<1> QED
  BY <1>1, Always, PTL

(* The frames of the kernel's image and of idle are never freed or taken,   *)
(* after an Exec that left pages behind either, until two holders share a   *)
(* frame: the model ends there.                                             *)
THEOREM BootFramesStay == Spec => []BootFramesKept
<1>1. Inv => BootFramesKept
  BY InvImplies
<1> QED
  BY <1>1, Always, PTL

(* SetKernelBrk keeps every page that lies wholly below kernel_brk mapped,  *)
(* however often it runs out of frames, and stays off the page that         *)
(* CopyPageTable and KCCopy map for themselves.  It rounds down: of the     *)
(* page a break lies inside the theorem says nothing, and SetKernelBrk does *)
(* not map it.                                                              *)
THEOREM HeapStaysMapped == Spec => []HeapMapped
<1>1. Inv => HeapMapped
  BY InvImplies
<1> QED
  BY <1>1, Always, PTL

(* The kernel stack pages of region 0 are the current process's own after   *)
(* every KCSwitch and KCCopy.                                               *)
THEOREM RunsOnOwnStack == Spec => []OwnStack
<1>1. Inv => OwnStack
  BY InvImplies
<1> QED
  BY <1>1, Always, PTL
-----------------------------------------------------------------------------
(* Owner, over a table and a bitmap.                                       *)
OwnerOf(T, U) ==
  [f \in Frame |->
     IF f \notin U THEN NONE
     ELSE IF \E p \in Procs : f \in Mapped(T[p])
          THEN CHOOSE p \in Procs : f \in Mapped(T[p])
          ELSE Kernel]

(* The three kinds of frames.                                              *)
LEMMA OwnerCases ==
  ASSUME NEW T, NEW U, NEW L, NEW f \in Frame, Unique(T), Exact(T, U, L)
  PROVE  /\ OwnerOf(T, U)[f] \in Holders \cup {NONE}
         /\ f \notin U => OwnerOf(T, U)[f] = NONE
         /\ \A p \in Procs : f \in Mapped(T[p]) => OwnerOf(T, U)[f] = p
         /\ f \in U /\ (\A p \in Procs : f \notin Mapped(T[p])) =>
              OwnerOf(T, U)[f] = Kernel /\ f \in Mapped(T[Kernel]) \cup L
<1>1. CASE f \notin U
  <2>1. \A p \in Procs : f \notin Mapped(T[p])
    BY <1>1, Layout DEF Exact
  <2> QED BY <1>1, <2>1 DEF OwnerOf
<1>2. ASSUME NEW p \in Procs, f \in Mapped(T[p])
      PROVE  OwnerOf(T, U)[f] = p /\ f \in U
  <2>1. f \in U
    BY <1>2, Layout DEF Exact
  <2>2. \A q \in Procs : f \in Mapped(T[q]) => q = p
    <3> SUFFICES ASSUME NEW q \in Procs, f \in Mapped(T[q]) PROVE q = p
      OBVIOUS
    <3>1. PICK v \in Page : T[p][v] = f /\ f # NONE
      BY <1>2 DEF Mapped
    <3>2. PICK w \in Page : T[q][w] = f
      BY DEF Mapped
    <3>3. p \in Holders /\ q \in Holders
      BY Layout
    <3> QED BY <3>1, <3>2, <3>3 DEF Unique
  <2>3. (CHOOSE q \in Procs : f \in Mapped(T[q])) = p
    BY <2>2, <1>2
  <2>4. OwnerOf(T, U)[f] = CHOOSE q \in Procs : f \in Mapped(T[q])
    BY <2>1, <1>2 DEF OwnerOf
  <2> QED BY <2>1, <2>3, <2>4
<1>3. CASE f \in U /\ \A p \in Procs : f \notin Mapped(T[p])
  <2>1. OwnerOf(T, U)[f] = Kernel
    BY <1>3 DEF OwnerOf
  <2>2. f \in Mapped(T[Kernel]) \cup L
    BY <1>3 DEF Exact, Holders
  <2> QED BY <1>3, <2>1, <2>2, Layout
<1> QED BY <1>1, <1>2, <1>3, Layout

(* Where only one holder's table changes, and the lost frames only with the *)
(* kernel's, the others keep what they own.                                *)
LEMMA OthersKeep ==
  ASSUME NEW T, NEW U, NEW L, NEW T2, NEW U2, NEW L2, NEW h \in Holders, NEW f \in Frame,
         Unique(T), Exact(T, U, L), Unique(T2), Exact(T2, U2, L2),
         \A g \in Holders : g # h => T2[g] = T[g],
         h # Kernel => L2 = L,
         OwnerOf(T, U)[f] \notin {NONE, h}
  PROVE  OwnerOf(T2, U2)[f] = OwnerOf(T, U)[f]
<1>1. f \in U
  BY OwnerCases
<1>2. CASE \E p \in Procs : f \in Mapped(T[p])
  <2>1. PICK p \in Procs : f \in Mapped(T[p])
    BY <1>2
  <2>2. OwnerOf(T, U)[f] = p
    BY <2>1, OwnerCases
  <2>3. f \in Mapped(T2[p])
    BY <2>1, <2>2, Layout
  <2>4. \A q \in Procs : f \in Mapped(T2[q]) => OwnerOf(T2, U2)[f] = q
    BY OwnerCases
  <2>5. OwnerOf(T2, U2)[f] = p
    BY <2>3, <2>4
  <2> QED BY <2>2, <2>5
<1>3. CASE \A p \in Procs : f \notin Mapped(T[p])
  <2>1. OwnerOf(T, U)[f] = Kernel /\ f \in Mapped(T[Kernel]) \cup L
    BY <1>1, <1>3, OwnerCases
  <2>2. f \in Mapped(T2[Kernel]) \cup L2
    BY <2>1, Layout
  <2>3. f \in U2
    BY <2>2, Layout DEF Exact
  <2>4. ASSUME NEW p \in Procs, f \in Mapped(T2[p]) PROVE FALSE
    <3>1. PICK v \in Page : T2[p][v] = f /\ f # NONE
      BY <2>4 DEF Mapped
    <3>2. f \notin L2
      BY <2>4, Layout DEF Exact
    <3>3. PICK w \in Page : T2[Kernel][w] = f
      BY <2>2, <3>2 DEF Mapped
    <3>4. T2[p][v] # NONE /\ T2[p][v] = T2[Kernel][w] /\ p \in Holders /\ p # Kernel
          /\ Kernel \in Holders
      BY <3>1, <3>3, Layout
    <3> HIDE <3>1, <3>3
    <3>5. p = Kernel
      BY <3>4 DEF Unique
    <3> QED BY <3>4, <3>5
  <2> QED BY <2>1, <2>3, <2>4, OwnerCases
<1> QED BY <1>2, <1>3

(* Owner is that, but for the frames Brk took for no page.                 *)
OwnerFacts ==
  \A f \in Frame : /\ f \notin past => Owner[f] = OwnerOf(pte, used \ past)[f]
                   /\ f \in past => Owner[f] = current

LEMMA OwnerIs == Inv /\ ~ stale => OwnerFacts
<1> SUFFICES ASSUME Inv, ~ stale, NEW f \in Frame
             PROVE  /\ f \notin past => Owner[f] = OwnerOf(pte, used \ past)[f]
                    /\ f \in past => Owner[f] = current
  BY DEF OwnerFacts
<1>1. Exact(pte, used \ past, lost) /\ past \subseteq used
  BY DEF Inv
<1>2. f \in past => \A p \in Procs : f \notin Mapped(pte[p])
  BY <1>1, Layout DEF Exact
<1>3. f \in past => Owner[f] = current
  BY <1>1, <1>2 DEF Owner
<1>4. f \notin past => Owner[f] = OwnerOf(pte, used \ past)[f]
  BY DEF Owner, OwnerOf
<1> QED BY <1>3, <1>4

(* Every handler changes the table of one holder.                          *)
LEMMA OneHolder ==
  ASSUME Inv, Next
  PROVE  /\ \E h \in Holders :
              /\ \A g \in Holders : g # h => pte'[g] = pte[g]
              /\ h # Kernel => lost' = lost
              /\ past' # {} => h = current /\ current' = current
         /\ \A c \in past' : c \notin used
         /\ past = {}
         /\ stale => stale'
<1>0. pte \in Tables /\ Kernel \in Holders /\ current \in Holders
  BY InvFacts, Layout
<1>1. ASSUME NEW p \in Procs, Schedule(p)
      PROVE  pte' = pte /\ stale' = stale /\ past' = past /\ lost' = lost
  BY <1>1 DEF Schedule
<1>2. ASSUME ForkNoFrame
      PROVE  pte' = pte /\ lost' = lost /\ stale' = stale /\ past' = past
  BY <1>2 DEF ForkNoFrame, Halts
<1>3. ASSUME NEW p \in Procs, Fork(p)
      PROVE  /\ \A g \in Holders : g # p => pte'[g] = pte[g]
             /\ lost' = lost /\ stale' = stale /\ past' = past
  <2>1. PICK t : pte' = [pte EXCEPT ![p] = t, ![Kernel] = Unmap(@, {TempPage})]
    BY <1>3 DEF Fork
  <2>2. Unmap(pte[Kernel], {TempPage}) = pte[Kernel]
    <3>1. pte[Kernel] \in [Page -> Frame \cup {NONE}]
      BY <1>0 DEF Tables
    <3>2. \A v \in Page : v \in {TempPage} => pte[Kernel][v] = NONE
      BY DEF Inv, HeapMapped
    <3> QED BY <3>1, <3>2 DEF Unmap
  <2> QED BY <1>0, <1>3, <2>1, <2>2, Layout DEF Fork, Tables
<1>4. ASSUME NEW p \in Procs, Exit(p)
      PROVE  /\ \A g \in Holders : g # current => pte'[g] = pte[g]
             /\ lost' = lost /\ stale' = stale /\ past' = past
  BY <1>4, <1>0 DEF Exit, Tables
<1>5. ASSUME NEW addr \in KernelBrks, KernelBrkUp(addr) \/ KernelBrkDown(addr)
      PROVE  /\ \A g \in Holders : g # Kernel => pte'[g] = pte[g]
             /\ stale' = stale /\ past' = past
  BY <1>5, <1>0 DEF KernelBrkUp, KernelBrkDown, Tables
<1>6. ASSUME NEW a \in UserBrks, BrkUp(a)
      PROVE  /\ \A g \in Holders : g # current => pte'[g] = pte[g]
             /\ lost' = lost /\ stale' = stale /\ current' = current
             /\ \A c \in past' : c \notin used
  <2>1. \A c \in past' : c \notin used
    BY <1>6, BrkUpInv
  <2> QED BY <2>1, <1>6, <1>0 DEF BrkUp, Tables
<1>7. ASSUME NEW a \in UserBrks, BrkDown(a)
      PROVE  /\ \A g \in Holders : g # current => pte'[g] = pte[g]
             /\ lost' = lost /\ stale' = stale /\ past' = past
  BY <1>7, <1>0 DEF BrkDown, Tables
<1>8. ASSUME NEW g \in Programs, Exec(g)
      PROVE  /\ \A i \in Holders : i # current => pte'[i] = pte[i]
             /\ lost' = lost /\ (stale => stale') /\ past' = past
  BY <1>8, <1>0 DEF Exec, Tables
<1>9. ASSUME NEW g \in Programs, ExecNoBuffer(g)
      PROVE  pte' = pte /\ lost' = lost /\ stale' = stale /\ past' = past
  BY <1>9 DEF ExecNoBuffer
<1>10. past = {}
  <2>1. Running
    BY DEF Next, Schedule, Fork, Exit, ForkNoFrame, KernelBrkUp, KernelBrkDown,
           BrkUp, BrkDown, Exec, ExecNoBuffer, InUser
  <2> QED BY <2>1, InvRunning
<1> QED BY <1>0, <1>1, <1>2, <1>3, <1>4, <1>5, <1>6, <1>7, <1>8, <1>9, <1>10, Layout
        DEF Next

LEMMA NextTrades ==
  ASSUME Inv, Inv', Next, ~ stale', OwnerFacts, OwnerFacts'
  PROVE  Abstract!Next
<1>1. PICK h \in Holders : /\ \A g \in Holders : g # h => pte'[g] = pte[g]
                           /\ h # Kernel => lost' = lost
                           /\ past' # {} => h = current /\ current' = current
  BY OneHolder
<1>2. ~ stale /\ past = {} /\ \A c \in past' : c \notin used
  BY OneHolder
<1> DEFINE U2 == used' \ past'
           A == OwnerOf(pte, used)
           B == OwnerOf(pte', U2)
<1>3. /\ Unique(pte) /\ Exact(pte, used, lost)
      /\ Unique(pte') /\ Exact(pte', U2, lost')
  <2>1. used \ past = used
    BY <1>2
  <2> QED BY <1>2, <2>1 DEF Inv
<1>4. /\ \A f \in Frame : Owner[f] = A[f]
      /\ \A f \in Frame : f \notin past' => Owner'[f] = B[f]
      /\ \A f \in Frame : f \in past' => Owner'[f] = current'
  <2>1. used \ past = used
    BY <1>2
  <2> QED BY <1>2, <2>1 DEF OwnerFacts
<1> HIDE DEF U2
<1>5. ASSUME NEW f \in Frame, A[f] # B[f]
      PROVE  A[f] \in {NONE, h} /\ B[f] \in {NONE, h}
  <2>1. A[f] \in {NONE, h}
    BY <1>1, <1>3, <1>5, OthersKeep
  <2>2. (\A g \in Holders : g # h => pte[g] = pte'[g]) /\ (h # Kernel => lost = lost')
    BY <1>1
  <2>3. B[f] \in {NONE, h}
    BY <2>2, <1>3, <1>5, OthersKeep
  <2> QED BY <2>1, <2>3
<1>6. \A f \in Frame : f \in past' => A[f] = NONE /\ Owner'[f] = h /\ f \notin used
  <2>1. \A f \in Frame : f \notin used => A[f] = NONE
    BY DEF OwnerOf
  <2> QED BY <2>1, <1>1, <1>2, <1>4
<1>7. \A f \in Frame : Owner'[f] # Owner[f] =>
         Owner[f] \in {NONE, h} /\ Owner'[f] \in {NONE, h}
  BY <1>4, <1>5, <1>6
<1>8. Owner' \in [Frame -> Holders \cup {NONE}]
  <2>1. \A f \in Frame : B[f] \in Holders \cup {NONE}
    BY <1>3, OwnerCases
  <2>2. \A f \in Frame : Owner'[f] \in Holders \cup {NONE}
    BY <2>1, <1>4, <1>6
  <2>3. Owner' = [f \in Frame |-> Owner'[f]]
    BY DEF Owner
  <2> QED BY <2>2, <2>3
<1>9. Abstract!Trade(h)
  BY <1>7, <1>8 DEF Abstract!Trade
<1> QED BY <1>9 DEF Abstract!Next

(* Memory implements Frames, for every machine and every break a program   *)
(* asks for: until an Exec leaves a page behind, every handler is a trade  *)
(* of one owner with the free frames.                                      *)
THEOREM MemoryTrades == Spec => TradesOnly
<1>1. Inv' /\ ~ stale' => OwnerFacts'
  BY OwnerIs, PTL
<1>2. Inv /\ Inv' /\ [Next]_vars => [stale' \/ Abstract!Next \/ UNCHANGED Owner]_vars
  <2> SUFFICES ASSUME Inv, Inv', Next, ~ stale' PROVE Abstract!Next
    OBVIOUS
  <2>1. ~ stale
    BY OneHolder
  <2> QED BY <1>1, <2>1, OwnerIs, NextTrades
<1> QED BY <1>2, Always, PTL DEF Spec, TradesOnly
=============================================================================
