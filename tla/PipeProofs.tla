---------------------------- MODULE PipeProofs ----------------------------
(* The ring buffer of a pipe is the stream of bytes put in and not taken,   *)
(* whatever its length, and nobody is left in front of bytes.               *)
(*                                                                          *)
(* PipeInv holds until a process that is in a list links itself in another, *)
(* or a negative len is met; Ind, which is inductive, says of the state     *)
(* after such a call, the last one followed, what is still true.  A turn of *)
(* a loop may leave readers in front of bytes, but not stop there.          *)
EXTENDS Pipe, SchedProofs

(* pipe_t's fields: in range, and as the stream says.                       *)
RingOK == /\ buffer \in [Slots -> Bytes]
          /\ read_pos \in Slots /\ write_pos \in Slots
          /\ bytes_in_buffer \in 0..PIPE_BUFFER_LEN
          /\ stream \in Seq(Bytes)
          /\ bytes_in_buffer = Len(stream)
          /\ write_pos = Slot(read_pos, bytes_in_buffer)
          /\ \A i \in 1..Len(stream) : buffer[Slot(read_pos, i - 1)] = stream[i]

(* The request fields.                                                      *)
RequestsOK == /\ pipe_buffer \in [Procs -> {NULL, "kbuf", "freed"}]
              /\ pipe_len \in [Procs -> 0..MaxLen]
              /\ write_loc \in [Procs -> 0..MaxLen]

(* A process is in at most one of the lists, once.                          *)
WaitersOK == /\ readers \in Seq(Procs) /\ Once(readers)
             /\ writers \in Seq(Procs) /\ Once(writers)
             /\ \A p : ~ (At(readers, p) /\ At(writers, p))
             /\ \A p : At(readers, p) \/ At(writers, p) => ~ Listed(p) /\ ~ Dead(p)

PipeInv == /\ SchedOK
           /\ RingOK
           /\ RequestsOK
           /\ WaitersOK
           /\ made \in BOOLEAN
           /\ loop \in {"none", "drain readers", "drain writers"}
           /\ fault = "none"
           /\ ReadersServed

(* After the last call that is followed.                                    *)
Stopped == /\ fault \in {"relinked", "negative len"}
           /\ TypeOK /\ RingIsStream /\ ReadersServed

Ind == PipeInv \/ Stopped
-----------------------------------------------------------------------------
(* Slots, and how far a slot is ahead of another, around the end.           *)
N == PIPE_BUFFER_LEN

Ahead(s, pos) == (s - pos) % N

LEMMA Turn ==
  ASSUME NEW n \in Nat \ {0}, NEW a \in Int, -n <= a, a < 2 * n
  PROVE  a % n = IF a < 0 THEN a + n ELSE IF a < n THEN a ELSE a - n
  OBVIOUS

LEMMA SlotIs ==
  ASSUME NEW r \in Slots, NEW i \in 0..N
  PROVE  Slot(r, i) = IF r + i < N THEN r + i ELSE r + i - N
<1>1. N \in Nat \ {0} /\ r \in Int /\ 0 <= r /\ r < N
  BY PipeAssumption DEF Slots, N
<1>2. i \in Int /\ 0 <= i /\ i <= N
  BY <1>1
<1>3. r + i \in Int /\ -N <= r + i /\ r + i < 2 * N
  BY <1>1, <1>2
<1> DEFINE a == r + i
<1>4. a \in Int /\ -N <= a /\ a < 2 * N /\ 0 <= a
  BY <1>1, <1>2, <1>3
<1> HIDE DEF a
<1>5. a % N = IF a < 0 THEN a + N ELSE IF a < N THEN a ELSE a - N
  BY <1>1, <1>4, Turn
<1>6. a % N = IF r + i < N THEN r + i ELSE r + i - N
  BY <1>1, <1>4, <1>5 DEF a
<1>7. Slot(r, i) = a % N
  BY DEF Slot, N, a
<1> QED
  BY <1>6, <1>7

LEMMA AheadIs ==
  ASSUME NEW s \in Slots, NEW w \in Slots
  PROVE  Ahead(s, w) = IF s < w THEN s - w + N ELSE s - w
<1>1. N \in Nat \ {0} /\ s \in Int /\ 0 <= s /\ s < N /\ w \in Int /\ 0 <= w /\ w < N
  BY PipeAssumption DEF Slots, N
<1>2. s - w \in Int /\ -N <= s - w /\ s - w < 2 * N
  BY <1>1
<1> DEFINE a == s - w
<1>3. a \in Int /\ -N <= a /\ a < 2 * N /\ a < N
  BY <1>1, <1>2
<1> HIDE DEF a
<1>4. a % N = IF a < 0 THEN a + N ELSE a
  BY <1>1, <1>3, Turn
<1>5. a % N = IF s < w THEN s - w + N ELSE s - w
  BY <1>1, <1>4 DEF a
<1> QED
  BY <1>5 DEF Ahead, a

LEMMA SlotFacts ==
  ASSUME NEW r \in Slots, NEW i \in 0..N, NEW s \in Slots
  PROVE  Slot(r, i) \in Slots /\ Ahead(s, r) \in 0..(N - 1)
<1>1. N \in Nat \ {0} /\ Slots = 0..(N - 1) /\ r \in Int /\ 0 <= r /\ r < N
  BY PipeAssumption DEF Slots, N
<1>2. Slot(r, i) \in Slots
  BY <1>1, SlotIs
<1>3. Ahead(s, r) = IF s < r THEN s - r + N ELSE s - r
  BY AheadIs
<1> QED
  BY <1>1, <1>2, <1>3

LEMMA SlotSlot ==
  ASSUME NEW r \in Slots, NEW i \in 0..N, NEW j \in 0..N, i + j <= N
  PROVE  Slot(Slot(r, i), j) = Slot(r, i + j)
<1>1. N \in Nat \ {0} /\ Slots = 0..(N - 1) /\ r \in Int /\ 0 <= r /\ r < N
  BY PipeAssumption DEF Slots, N
<1>2. Slot(r, i) = IF r + i < N THEN r + i ELSE r + i - N
  BY SlotIs
<1>3. Slot(r, i) \in Slots
  BY SlotFacts
<1>4. Slot(Slot(r, i), j) = IF Slot(r, i) + j < N THEN Slot(r, i) + j ELSE Slot(r, i) + j - N
  BY <1>3, SlotIs
<1>5. i + j \in 0..N
  BY <1>1
<1>6. Slot(r, i + j) = IF r + (i + j) < N THEN r + (i + j) ELSE r + (i + j) - N
  BY <1>5, SlotIs
<1> QED
  BY <1>1, <1>2, <1>4, <1>6

LEMMA AheadSlot ==
  ASSUME NEW r \in Slots, NEW i \in 0..N, NEW j \in 0..N
  PROVE  /\ i < j => Ahead(Slot(r, i), Slot(r, j)) = N - (j - i)
         /\ i < N /\ j <= i => Ahead(Slot(r, i), Slot(r, j)) = i - j
<1>1. N \in Nat \ {0} /\ Slots = 0..(N - 1) /\ r \in Int /\ 0 <= r /\ r < N
  BY PipeAssumption DEF Slots, N
<1>2. /\ Slot(r, i) = IF r + i < N THEN r + i ELSE r + i - N
      /\ Slot(r, j) = IF r + j < N THEN r + j ELSE r + j - N
  BY SlotIs
<1>3. Slot(r, i) \in Slots /\ Slot(r, j) \in Slots
  BY SlotFacts
<1>4. Ahead(Slot(r, i), Slot(r, j)) = IF Slot(r, i) < Slot(r, j) THEN Slot(r, i) - Slot(r, j) + N
                                      ELSE Slot(r, i) - Slot(r, j)
  BY <1>3, AheadIs
<1> QED
  BY <1>1, <1>2, <1>4

(* The writing loops, when the bytes fit: none of the old ones is written   *)
(* over.                                                                    *)
LEMMA PutKeeps ==
  ASSUME RingOK, NEW data \in Seq(Bytes), Len(data) <= Space, Put(data)
  PROVE  RingOK' /\ bytes_in_buffer' = bytes_in_buffer + Len(data)
<1> DEFINE b == bytes_in_buffer
           k == Len(data)
<1>1. N \in Nat \ {0} /\ Slots = 0..(N - 1)
  BY PipeAssumption DEF N, Slots
<1>2. /\ b \in 0..N /\ k \in Nat /\ b + k <= N
      /\ read_pos \in Slots /\ write_pos \in Slots
      /\ stream \in Seq(Bytes) /\ b = Len(stream)
      /\ write_pos = Slot(read_pos, b)
      /\ \A i \in 1..b : buffer[Slot(read_pos, i - 1)] = stream[i]
  BY <1>1, LenProperties DEF RingOK, Space, N
<1>3. /\ read_pos' = read_pos /\ bytes_in_buffer' = b + k
      /\ write_pos' = Slot(write_pos, k)
      /\ stream' = stream \o data
      /\ buffer' = [s \in Slots |-> IF Ahead(s, write_pos) < k
                                    THEN data[Ahead(s, write_pos) + 1] ELSE buffer[s]]
  BY DEF Put, Ahead, N
<1>4. /\ stream' \in Seq(Bytes) /\ Len(stream') = b + k
      /\ \A i \in 1..(b + k) : stream'[i] = IF i <= b THEN stream[i] ELSE data[i - b]
  BY <1>2, <1>3, ConcatProperties
<1>5. \A i \in 1..k : data[i] \in Bytes
  BY ElementOfSeq
<1>6. buffer \in [Slots -> Bytes]
  BY DEF RingOK
<1> HIDE DEF b, k
<1>7. k \in 0..N /\ b + k \in 0..N
  BY <1>1, <1>2
<1>8. write_pos' \in Slots /\ write_pos' = Slot(read_pos', b + k)
  <2>1. Slot(Slot(read_pos, b), k) = Slot(read_pos, b + k)
    BY <1>2, <1>7, SlotSlot
  <2>2. Slot(read_pos, b + k) \in Slots
    BY <1>2, <1>7, SlotFacts
  <2> QED
    BY <1>2, <1>3, <2>1, <2>2
<1>9. \A s \in Slots : Ahead(s, write_pos) \in 0..(N - 1)
  BY <1>2, SlotFacts
<1>10. buffer' \in [Slots -> Bytes]
  <2>1. ASSUME NEW s \in Slots, Ahead(s, write_pos) < k
        PROVE  data[Ahead(s, write_pos) + 1] \in Bytes
    <3>1. PICK d \in 0..(N - 1) : Ahead(s, write_pos) = d
      BY <1>9
    <3>2. d + 1 \in 1..k
      BY <1>1, <1>7, <2>1, <3>1
    <3> QED
      BY <1>5, <3>1, <3>2
  <2> QED
    BY <1>3, <1>6, <2>1
<1>11. ASSUME NEW i \in 1..(b + k)
       PROVE  buffer'[Slot(read_pos', i - 1)] = stream'[i]
  <2> DEFINE s == Slot(read_pos, i - 1)
             j == i - 1
  <2>1. j \in 0..(N - 1) /\ j \in 0..N
    BY <1>1, <1>7
  <2>2. s \in Slots
    BY <1>2, <2>1, SlotFacts
  <2>3. buffer'[s] = IF Ahead(s, write_pos) < k THEN data[Ahead(s, write_pos) + 1]
                                                ELSE buffer[s]
    BY <1>3, <2>2
  <2>4. CASE i <= b
    <3>1. Ahead(s, write_pos) = N - (b - j)
      <4>1. j < b
        BY <1>2, <2>4
      <4>2. b \in 0..N
        BY <1>2
      <4>3. Ahead(Slot(read_pos, j), Slot(read_pos, b)) = N - (b - j)
        BY <1>2, <2>1, <4>1, <4>2, AheadSlot
      <4> QED
        BY <1>2, <4>3
    <3>2. ~ (Ahead(s, write_pos) < k)
      BY <1>1, <1>2, <1>7, <2>4, <3>1
    <3>3. i \in 1..b
      BY <1>2, <2>4
    <3> QED
      BY <1>2, <1>3, <1>4, <2>3, <2>4, <3>2, <3>3
  <2>5. CASE ~ (i <= b)
    <3>1. Ahead(s, write_pos) = j - b
      <4>1. b <= j /\ b \in 0..N /\ j < N
        BY <1>1, <1>2, <2>1, <2>5
      <4>2. Ahead(Slot(read_pos, j), Slot(read_pos, b)) = j - b
        BY <1>2, <2>1, <4>1, AheadSlot
      <4> QED
        BY <1>2, <4>2
    <3>2. Ahead(s, write_pos) < k /\ Ahead(s, write_pos) + 1 = i - b
      BY <1>1, <1>2, <1>7, <2>5, <3>1
    <3> QED
      BY <1>3, <1>4, <2>3, <2>5, <3>2
  <2> QED
    BY <2>4, <2>5
<1>12. \A i \in 1..Len(stream') : buffer'[Slot(read_pos', i - 1)] = stream'[i]
  BY <1>4, <1>11
<1> QED
  BY <1>2, <1>3, <1>4, <1>7, <1>8, <1>10, <1>12 DEF RingOK, N, b, k

(* The reading loops take from the front of the stream.                     *)
LEMMA TakeKeeps ==
  ASSUME RingOK, NEW m \in 0..bytes_in_buffer, Take(m)
  PROVE  RingOK' /\ bytes_in_buffer' = bytes_in_buffer - m
<1> DEFINE b == bytes_in_buffer
<1>1. N \in Nat \ {0}
  BY PipeAssumption DEF N
<1>2. /\ b \in 0..N /\ m \in 0..b
      /\ read_pos \in Slots /\ write_pos \in Slots
      /\ stream \in Seq(Bytes) /\ b = Len(stream)
      /\ write_pos = Slot(read_pos, b)
      /\ \A i \in 1..b : buffer[Slot(read_pos, i - 1)] = stream[i]
  BY DEF RingOK, N
<1>3. /\ read_pos' = Slot(read_pos, m) /\ bytes_in_buffer' = b - m
      /\ write_pos' = write_pos /\ buffer' = buffer
      /\ stream' = SubSeq(stream, m + 1, b)
  BY <1>2 DEF Take
<1>4. \A i \in 1..b : stream[i] \in Bytes
  BY <1>2, ElementOfSeq
<1> HIDE DEF b
<1>5. m \in 0..N /\ b - m \in 0..N
  BY <1>1, <1>2
<1>6. /\ stream' \in Seq(Bytes) /\ Len(stream') = b - m
      /\ \A i \in 1..(b - m) : stream'[i] = stream[m + i]
  <2>1. m + 1 \in Int /\ b \in Int /\ \A i \in (m + 1)..b : stream[i] \in Bytes
    BY <1>1, <1>2, <1>4
  <2>2. /\ SubSeq(stream, m + 1, b) \in Seq(Bytes)
        /\ Len(SubSeq(stream, m + 1, b)) = IF m + 1 <= b THEN b - (m + 1) + 1 ELSE 0
        /\ \A i \in 1..(b - (m + 1) + 1) : SubSeq(stream, m + 1, b)[i] = stream[(m + 1) + i - 1]
    BY <2>1, SubSeqProperties
  <2>3. b - (m + 1) + 1 = b - m
    BY <1>1, <1>2
  <2>4. Len(SubSeq(stream, m + 1, b)) = b - m
    BY <1>1, <1>2, <2>2
  <2>5. \A i \in 1..(b - m) : (m + 1) + i - 1 = m + i
    BY <1>1, <1>2
  <2> QED
    BY <1>3, <2>2, <2>3, <2>4, <2>5
<1>7. read_pos' \in Slots
  BY <1>2, <1>3, <1>5, SlotFacts
<1>8. write_pos' = Slot(read_pos', b - m)
  <2>1. m + (b - m) = b /\ m + (b - m) <= N
    BY <1>1, <1>2
  <2>2. Slot(Slot(read_pos, m), b - m) = Slot(read_pos, m + (b - m))
    BY <1>2, <1>5, <2>1, SlotSlot
  <2> QED
    BY <1>2, <1>3, <2>1, <2>2
<1>9. ASSUME NEW i \in 1..(b - m)
      PROVE  buffer'[Slot(read_pos', i - 1)] = stream'[i]
  <2>1. i - 1 \in 0..N /\ m + (i - 1) <= N /\ m + (i - 1) = (m + i) - 1 /\ m + i \in 1..b
    BY <1>1, <1>2
  <2>2. Slot(read_pos', i - 1) = Slot(read_pos, (m + i) - 1)
    BY <1>2, <1>3, <1>5, <2>1, SlotSlot
  <2> QED
    BY <1>2, <1>3, <1>6, <2>1, <2>2
<1>10. \A i \in 1..Len(stream') : buffer'[Slot(read_pos', i - 1)] = stream'[i]
  BY <1>6, <1>9
<1>11. buffer' \in [Slots -> Bytes]
  BY <1>3 DEF RingOK
<1> QED
  BY <1>2, <1>3, <1>5, <1>6, <1>7, <1>8, <1>10, <1>11 DEF RingOK, N, b
-----------------------------------------------------------------------------
(* Lists and requests.                                                      *)
LEMMA LinkedIs ==
  ASSUME PipeInv, NEW p
  PROVE  Linked(p) <=> Listed(p) \/ At(readers, p) \/ At(writers, p)
<1>1. ready \in Seq(Procs) /\ readers \in Seq(Procs) /\ writers \in Seq(Procs)
  BY DEF PipeInv, SchedOK, WaitersOK
<1>2. /\ p \in ToSet(ready) <=> At(ready, p)
      /\ p \in ToSet(readers) <=> At(readers, p)
      /\ p \in ToSet(writers) <=> At(writers, p)
  BY <1>1, AtIsMember
<1> QED
  BY <1>2 DEF Linked, Listed

LEMMA InvImplies ==
  ASSUME PipeInv
  PROVE  TypeOK /\ RingIsStream /\ ReadersServed /\ OneList
<1>1. ready \in Seq(Procs) /\ readers \in Seq(Procs) /\ writers \in Seq(Procs)
  BY DEF PipeInv, SchedOK, WaitersOK
<1>2. \A p : /\ p \in ToSet(ready) <=> At(ready, p)
             /\ p \in ToSet(readers) <=> At(readers, p)
             /\ p \in ToSet(writers) <=> At(writers, p)
  BY <1>1, AtIsMember
<1>3. IsInjective(ready) /\ IsInjective(readers) /\ IsInjective(writers)
  BY <1>1, AtIsMember DEF PipeInv, SchedOK, WaitersOK
<1>4. bytes_in_buffer \in Nat /\ bytes_in_buffer <= PIPE_BUFFER_LEN
  <2>1. PIPE_BUFFER_LEN \in Nat
    BY PipeAssumption
  <2>2. bytes_in_buffer \in 0..PIPE_BUFFER_LEN
    BY DEF PipeInv, RingOK
  <2> QED
    BY <2>1, <2>2
<1>5. TypeOK
  BY <1>1, <1>4 DEF TypeOK, PipeInv, SchedOK, States6, RingOK, RequestsOK
<1>6. OneList
  BY <1>2, <1>3 DEF OneList, PipeInv, SchedOK, WaitersOK, Listed, Dead, Zombies
<1> QED
  BY <1>5, <1>6 DEF PipeInv, RingOK, RingIsStream

(* A pipe that is new, or reclaimed, is the empty stream.                   *)
LEMMA EmptyPipe ==
  /\ NewBuffer \in [Slots -> Bytes] /\ 0 \in Slots /\ 0 \in 0..PIPE_BUFFER_LEN
  /\ Slot(0, 0) = 0
  /\ <<>> \in Seq(Bytes) /\ Len(<<>>) = 0 /\ \A p : ~ At(<<>>, p)
  /\ <<>> \in Seq(Procs) /\ Once(<<>>)
  /\ NoRequest \in [Procs -> {NULL, "kbuf", "freed"}]
  /\ NoBytes \in [Procs -> 0..MaxLen]
<1>1. NewBuffer \in [Slots -> Bytes]
  BY DEF NewBuffer, Bytes
<1>2. 0 \in Slots /\ 0 \in 0..PIPE_BUFFER_LEN
  BY PipeAssumption DEF Slots
<1>3. Slot(0, 0) = 0
  BY <1>2, PipeAssumption, SlotIs DEF N
<1>4. NoRequest \in [Procs -> {NULL, "kbuf", "freed"}] /\ NoBytes \in [Procs -> 0..MaxLen]
  BY PipeAssumption DEF NoRequest, NoBytes
<1> QED
  BY <1>1, <1>2, <1>3, <1>4 DEF At, Once

LEMMA InitInv == Init => PipeInv
<1> SUFFICES ASSUME Init
             PROVE  PipeInv
  OBVIOUS
<1>1. SchedOK
  BY PipeAssumption, AllForkedOK DEF Init
<1>2. RingOK
  BY EmptyPipe DEF Init, RingOK
<1>3. RequestsOK /\ WaitersOK
  BY EmptyPipe DEF Init, RequestsOK, WaitersOK
<1> QED
  BY <1>1, <1>2, <1>3 DEF Init, PipeInv, ReadersServed

(* A waiter leaves its list for ready_queue.                                *)
LEMMA MakesReadyKeeps ==
  ASSUME SchedOK, NEW p \in Procs, ~ Listed(p), MakesReady(p)
  PROVE  /\ SchedOK' /\ \A q : Listed(q)' <=> Listed(q) \/ q = p
         /\ \A q : Dead(q)' => Dead(q)
<1>1. /\ ready' \in Seq(Procs) /\ Once(ready')
      /\ \A q : At(ready', q) <=> At(ready, q) \/ q = p
  BY AppendOnce DEF MakesReady, SchedOK, Listed
<1>2. \A q : Dead(q)' <=> Dead(q) /\ q # p
  BY DEF MakesReady, SchedOK, Dead
<1> QED
  BY <1>1, <1>2 DEF MakesReady, SchedOK, States6, Listed

(* The numbers, as such.                                                    *)
LEMMA SpaceIs ==
  ASSUME RingOK
  PROVE  /\ bytes_in_buffer \in Nat /\ Space \in Nat
         /\ bytes_in_buffer + Space = PIPE_BUFFER_LEN
<1>1. PIPE_BUFFER_LEN \in Nat
  BY PipeAssumption
<1>2. bytes_in_buffer \in 0..PIPE_BUFFER_LEN
  BY DEF RingOK
<1> QED
  BY <1>1, <1>2 DEF Space

LEMMA SmallerIs ==
  ASSUME NEW m \in Nat, NEW n \in Nat
  PROVE  Smaller(m, n) \in 0..m /\ Smaller(m, n) \in 0..n
  BY DEF Smaller

LEMMA RequestIs ==
  ASSUME RequestsOK, NEW p \in Procs
  PROVE  /\ pipe_len[p] \in Nat /\ pipe_len[p] <= MaxLen
         /\ write_loc[p] \in Nat /\ write_loc[p] <= MaxLen
<1>1. MaxLen \in Nat
  BY PipeAssumption
<1>2. pipe_len[p] \in 0..MaxLen /\ write_loc[p] \in 0..MaxLen
  BY DEF RequestsOK
<1> QED
  BY <1>1, <1>2

(* What a writer has left: its bytes, what is in the freed buffer, or none. *)
LEMMA RestIs ==
  ASSUME RequestsOK, NEW p \in Procs
  PROVE  /\ Rest(p) \in Seq(Bytes)
         /\ Rest(p) # <<>> => /\ Len(Rest(p)) = pipe_len[p] - write_loc[p]
                              /\ write_loc[p] < pipe_len[p]
<1> DEFINE w == write_loc[p]
           k == pipe_len[p] - w
<1>1. w \in Nat /\ k \in Int /\ w + k <= MaxLen
  BY PipeAssumption DEF RequestsOK
<1> DEFINE e(i) == IF pipe_buffer[p] = "kbuf" THEN w + i ELSE Junk
<1>2. Rest(p) = [i \in 1..k |-> e(i)]
  BY DEF Rest
<1>0. k > 0 => write_loc[p] < pipe_len[p]
  <2>1. write_loc[p] \in Nat /\ pipe_len[p] \in Nat
    BY RequestIs
  <2> QED
    BY <2>1
<1> HIDE DEF w, k
<1>3. \A i \in 1..k : e(i) \in Bytes
  BY <1>1, PipeAssumption DEF Bytes
<1> HIDE DEF e
<1>4. CASE k > 0
  <2>1. k \in Nat
    BY <1>1, <1>4
  <2>2. [i \in 1..k |-> e(i)] \in Seq(Bytes) /\ Len([i \in 1..k |-> e(i)]) = k
    BY <1>3, <2>1
  <2> QED
    BY <1>0, <1>2, <1>4, <2>2 DEF k, w
<1>5. CASE ~ (k > 0)
  <2>1. 1..k = 1..0
    BY <1>1, <1>5
  <2>2. [i \in 1..0 |-> e(i)] = <<>>
    OBVIOUS
  <2>3. Rest(p) = <<>>
    BY <1>2, <2>1, <2>2
  <2> QED
    BY <2>3
<1> QED
  BY <1>4, <1>5
-----------------------------------------------------------------------------
(* The steps outside the loops.                                             *)
LEMMA SchedulerKeeps ==
  ASSUME PipeInv, SysDelay \/ SysExit \/ clock_handler,
         clock_handler \/ ~ Linked(current)
  PROVE  PipeInv'
<1>1. UNCHANGED <<made, pipe, requests, loop, fault>>
  BY DEF SysDelay, SysExit, clock_handler, LinksCaller
<1>2. /\ SchedOK' /\ \A p : Listed(p)' => Listed(p) \/ ~ Linked(p)
      /\ \A p : Dead(p)' => Dead(p) \/ ~ Linked(p)
  <2>1. CASE clock_handler
    BY <2>1, PipeAssumption, TickKeeps DEF clock_handler, PipeInv
  <2>2. CASE (SysDelay \/ SysExit) /\ ~ Linked(current)
    <3>1. Delay \/ Exit
      BY <2>2 DEF SysDelay, SysExit
    <3>2. ~ Listed(current)
      BY <2>2, LinkedIs
    <3>3. /\ SchedOK' /\ \A p : Listed(p)' => Listed(p) \/ p = current
          /\ \A p : Dead(p)' => Dead(p) \/ p = current
      BY <3>1, <3>2, PipeAssumption, LeavesKeeps DEF PipeInv
    <3> QED
      BY <2>2, <3>3
  <2> QED
    BY <2>1, <2>2
<1>3. WaitersOK'
  BY <1>1, <1>2, LinkedIs DEF PipeInv, WaitersOK, requests
<1> QED
  BY <1>1, <1>2, <1>3
  DEF PipeInv, RingOK, RequestsOK, ReadersServed, pipe, requests

LEMMA InitPipeKeeps ==
  ASSUME PipeInv, SyncInitPipe
  PROVE  PipeInv'
  BY DEF SyncInitPipe, PipeInv, SchedOK, RingOK, RequestsOK, WaitersOK,
         ReadersServed, Listed, Dead, sched, pipe, requests

LEMMA ReclaimKeeps ==
  ASSUME PipeInv, SyncReclaim
  PROVE  PipeInv'
<1>1. SchedOK' /\ UNCHANGED <<loop, fault>> /\ made' = FALSE
  BY DEF SyncReclaim, PipeInv, SchedOK, Dead, sched
<1>2. RingOK'
  BY EmptyPipe DEF SyncReclaim, RingOK
<1>3. RequestsOK' /\ WaitersOK'
  BY EmptyPipe DEF SyncReclaim, RequestsOK, WaitersOK
<1>4. ReadersServed'
  BY DEF SyncReclaim, ReadersServed
<1> QED
  BY <1>1, <1>2, <1>3, <1>4 DEF PipeInv

(* A caller that was in no list joins the readers.                          *)
LEMMA ReadWaitsKeeps ==
  ASSUME PipeInv, NEW len \in 0..MaxLen, ReadWaits(len), ~ Linked(current)
  PROVE  PipeInv'
<1>1. /\ bytes_in_buffer = 0
      /\ pipe_buffer' = [pipe_buffer EXCEPT ![current] = "freed"]
      /\ pipe_len' = [pipe_len EXCEPT ![current] = len]
      /\ readers' = Append(readers, current)
      /\ state' = [state EXCEPT ![current] = "BLOCKED"]
      /\ UNCHANGED <<current, ready, delayed, made, pipe, writers, write_loc, loop, fault>>
  BY DEF ReadWaits, LinksCaller
<1>2. ~ Listed(current) /\ ~ At(readers, current) /\ ~ At(writers, current)
  BY LinkedIs
<1>3. /\ current \in Procs /\ SchedOK' /\ \A p : Listed(p)' <=> Listed(p)
      /\ \A p : Dead(p)' => Dead(p) /\ p # current
  BY <1>1 DEF PipeInv, SchedOK, States6, Listed, Dead
<1>4. /\ readers' \in Seq(Procs) /\ Once(readers')
      /\ \A p : At(readers', p) <=> At(readers, p) \/ p = current
  BY <1>1, <1>2, <1>3, AppendOnce DEF PipeInv, WaitersOK
<1>5. WaitersOK'
  BY <1>1, <1>2, <1>3, <1>4 DEF PipeInv, WaitersOK
<1>6. RequestsOK'
  BY <1>1 DEF PipeInv, RequestsOK
<1>7. RingOK' /\ ReadersServed'
  BY <1>1 DEF PipeInv, RingOK, ReadersServed, pipe
<1> QED
  BY <1>1, <1>3, <1>5, <1>6, <1>7 DEF PipeInv

LEMMA ReadTakesKeeps ==
  ASSUME PipeInv, NEW len \in 0..MaxLen, ReadTakes(len)
  PROVE  PipeInv'
<1>1. Smaller(len, bytes_in_buffer) \in 0..bytes_in_buffer
  <2>1. len \in Nat
    BY PipeAssumption
  <2>2. bytes_in_buffer \in Nat
    BY SpaceIs DEF PipeInv
  <2> QED
    BY <2>1, <2>2, SmallerIs
<1>2. RingOK'
  BY <1>1, TakeKeeps DEF ReadTakes, PipeInv
<1>3. UNCHANGED <<sched, made, requests, fault>> /\ loop' = "drain writers"
  BY DEF ReadTakes
<1> QED
  BY <1>2, <1>3
  DEF PipeInv, SchedOK, RequestsOK, WaitersOK, ReadersServed, Listed, Dead, sched, requests

(* What a write does to the buffer and to the request fields, whoever calls.*)
LEMMA WriteRequests ==
  ASSUME PipeInv, NEW len \in 0..MaxLen, SysPipeWrite(len)
  PROVE  RingOK' /\ RequestsOK' /\ loop' = "drain readers"
<1> DEFINE n == Smaller(len, PIPE_BUFFER_LEN - bytes_in_buffer)
<1>1. n \in Nat /\ n <= MaxLen /\ n <= Space /\ n \in 0..MaxLen
  <2>1. len \in Nat /\ len <= MaxLen
    BY PipeAssumption
  <2>2. Space \in Nat
    BY SpaceIs DEF PipeInv
  <2>3. n = Smaller(len, Space)
    BY DEF Space
  <2>4. n \in 0..len /\ n \in 0..Space
    BY <2>1, <2>3, <2>2, SmallerIs
  <2> HIDE DEF n
  <2> QED
    BY <2>1, <2>4, <2>2, PipeAssumption
<1>2. /\ Put([i \in 1..n |-> i])
      /\ write_loc' = [write_loc EXCEPT ![current] =
                         IF n < len \/ current \in ToSet(writers) THEN n ELSE 0]
      /\ \/ /\ pipe_buffer' = [pipe_buffer EXCEPT ![current] = "kbuf"]
            /\ pipe_len' = [pipe_len EXCEPT ![current] = len]
         \/ UNCHANGED <<pipe_buffer, pipe_len>>
      /\ loop' = "drain readers"
  BY DEF SysPipeWrite
<1> HIDE DEF n
<1>3. RingOK'
  <2>1. \A i \in 1..n : i \in Bytes
    BY <1>1, PipeAssumption DEF Bytes
  <2>2. [i \in 1..n |-> i] \in Seq(Bytes) /\ Len([i \in 1..n |-> i]) = n
    BY <1>1, <2>1
  <2> QED
    BY <1>1, <1>2, <2>2, PutKeeps DEF PipeInv
<1>4. RequestsOK'
  <2>1. 0 \in 0..MaxLen
    BY PipeAssumption
  <2>2. write_loc' \in [Procs -> 0..MaxLen]
    BY <1>1, <1>2, <2>1 DEF PipeInv, RequestsOK
  <2>3. /\ pipe_buffer' \in [Procs -> {NULL, "kbuf", "freed"}]
        /\ pipe_len' \in [Procs -> 0..MaxLen]
    BY <1>2 DEF PipeInv, RequestsOK
  <2> QED
    BY <2>2, <2>3 DEF RequestsOK
<1> QED
  BY <1>2, <1>3, <1>4

(* A caller that was in no list joins the writers, if it joins a list.      *)
WriteJoins == /\ writers' = Append(writers, current)
              /\ state' = [state EXCEPT ![current] = "BLOCKED"]
              /\ LinksCaller

LEMMA WriteKeeps ==
  ASSUME PipeInv, NEW len \in 0..MaxLen, SysPipeWrite(len), ~ (WriteJoins /\ Linked(current))
  PROVE  PipeInv'
<1>1. /\ RingOK' /\ RequestsOK' /\ loop' = "drain readers"
      /\ WriteJoins \/ UNCHANGED <<writers, state, fault>>
      /\ UNCHANGED <<current, ready, delayed, made, readers>>
  BY WriteRequests DEF SysPipeWrite, WriteJoins
<1>2. CASE UNCHANGED <<writers, state, fault>>
  BY <1>1, <1>2 DEF PipeInv, SchedOK, WaitersOK, ReadersServed, Listed, Dead
<1>3. CASE WriteJoins
  <2>0. ~ Linked(current) /\ fault' = fault
    BY <1>3 DEF WriteJoins, LinksCaller
  <2>1. ~ Listed(current) /\ ~ At(readers, current) /\ ~ At(writers, current)
    BY <2>0, LinkedIs
  <2>2. /\ current \in Procs /\ SchedOK' /\ \A p : Listed(p)' <=> Listed(p)
        /\ \A p : Dead(p)' => Dead(p) /\ p # current
    BY <1>1, <1>3 DEF WriteJoins, PipeInv, SchedOK, States6, Listed, Dead
  <2>3. /\ writers' \in Seq(Procs) /\ Once(writers')
        /\ \A p : At(writers', p) <=> At(writers, p) \/ p = current
    BY <1>3, <2>1, <2>2, AppendOnce DEF WriteJoins, PipeInv, WaitersOK
  <2>4. WaitersOK'
    BY <1>1, <2>1, <2>2, <2>3 DEF PipeInv, WaitersOK
  <2> QED
    BY <1>1, <2>0, <2>2, <2>4 DEF PipeInv, ReadersServed
<1> QED
  BY <1>1, <1>2, <1>3
-----------------------------------------------------------------------------
(* The drain functions.                                                     *)
LEMMA DrainReaderKeeps ==
  ASSUME PipeInv, DrainReader
  PROVE  PipeInv'
<1> DEFINE h == Head(readers)
<1>1. /\ h \in Procs /\ At(readers, h) /\ ~ Listed(h)
      /\ Tail(readers) \in Seq(Procs) /\ Once(Tail(readers))
      /\ \A p : At(Tail(readers), p) <=> At(readers, p) /\ p # h
  BY TailOnce DEF DrainReader, PipeInv, WaitersOK
<1>2. /\ Take(Smaller(pipe_len[h], bytes_in_buffer))
      /\ readers' = Tail(readers)
      /\ pipe_buffer' = [pipe_buffer EXCEPT ![h] = NULL]
      /\ pipe_len' = [pipe_len EXCEPT ![h] = 0]
      /\ MakesReady(h)
      /\ loop = "drain readers"
      /\ UNCHANGED <<made, writers, write_loc, loop, fault>>
  BY DEF DrainReader
<1> HIDE DEF h
<1>3. RingOK'
  <2>1. pipe_len[h] \in Nat /\ bytes_in_buffer \in Nat
    BY <1>1, SpaceIs, RequestIs DEF PipeInv
  <2>2. Smaller(pipe_len[h], bytes_in_buffer) \in 0..bytes_in_buffer
    BY <2>1, SmallerIs
  <2> QED
    BY <1>2, <2>2, TakeKeeps DEF PipeInv
<1>4. /\ SchedOK' /\ \A p : Listed(p)' <=> Listed(p) \/ p = h
      /\ \A p : Dead(p)' => Dead(p)
  BY <1>1, <1>2, MakesReadyKeeps DEF PipeInv
<1>5. WaitersOK'
  BY <1>1, <1>2, <1>4 DEF PipeInv, WaitersOK
<1>6. RequestsOK'
  <2>1. 0 \in 0..MaxLen
    BY PipeAssumption
  <2> QED
    BY <1>2, <2>1 DEF PipeInv, RequestsOK
<1> QED
  BY <1>2, <1>3, <1>4, <1>5, <1>6 DEF PipeInv, ReadersServed

(* Only the loop ends, and with it the call.                                *)
LEMMA LoopEndKeeps ==
  ASSUME PipeInv, DrainReadersEnd \/ DrainWritersDone
  PROVE  PipeInv'
<1>1. UNCHANGED <<sched, made, pipe, readers, writers, pipe_len, write_loc, fault>>
  BY DEF DrainReadersEnd, DrainWritersDone
<1>2. \/ loop' \in {"drain readers", "drain writers"} /\ UNCHANGED pipe_buffer
      \/ Returns /\ (readers # <<>> => bytes_in_buffer = 0)
  BY DEF DrainReadersEnd, DrainWritersDone, DrainWritersEnd
<1>3. RequestsOK'
  BY <1>1, <1>2 DEF PipeInv, RequestsOK, Returns
<1>4. SchedOK' /\ RingOK' /\ WaitersOK'
  BY <1>1 DEF PipeInv, SchedOK, RingOK, WaitersOK, Listed, Dead, sched, pipe
<1>5. loop' \in {"none", "drain readers", "drain writers"} /\ ReadersServed'
  BY <1>1, <1>2 DEF Returns, ReadersServed, pipe
<1> QED
  BY <1>1, <1>3, <1>4, <1>5 DEF PipeInv

LEMMA DrainWriterKeeps ==
  ASSUME PipeInv, DrainWriter
  PROVE  PipeInv'
<1> DEFINE w == Head(writers)
<1>1. /\ w \in Procs /\ At(writers, w) /\ ~ Listed(w)
      /\ Tail(writers) \in Seq(Procs) /\ Once(Tail(writers))
      /\ \A p : At(Tail(writers), p) <=> At(writers, p) /\ p # w
  BY TailOnce DEF DrainWriter, WriterFits, PipeInv, WaitersOK
<1>2. /\ Put(Rest(w)) /\ Len(Rest(w)) <= Space
      /\ write_loc' = [write_loc EXCEPT ![w] = 0]
      /\ pipe_buffer' = [pipe_buffer EXCEPT ![w] = NULL]
      /\ pipe_len' = [pipe_len EXCEPT ![w] = 0]
      /\ writers' = Tail(writers)
      /\ MakesReady(w)
      /\ loop = "drain writers"
      /\ UNCHANGED <<made, readers, loop, fault>>
  BY DEF DrainWriter, WriterFits
<1> HIDE DEF w
<1>3. RingOK'
  BY <1>1, <1>2, RestIs, PutKeeps DEF PipeInv
<1>4. /\ SchedOK' /\ \A p : Listed(p)' <=> Listed(p) \/ p = w
      /\ \A p : Dead(p)' => Dead(p)
  BY <1>1, <1>2, MakesReadyKeeps DEF PipeInv
<1>5. WaitersOK'
  BY <1>1, <1>2, <1>4 DEF PipeInv, WaitersOK
<1>6. RequestsOK'
  <2>1. 0 \in 0..MaxLen
    BY PipeAssumption
  <2> QED
    BY <1>2, <2>1 DEF PipeInv, RequestsOK
<1> QED
  BY <1>2, <1>3, <1>4, <1>5, <1>6 DEF PipeInv, ReadersServed

(* A request that does not fit fills the buffer.                            *)
LEMMA PartlyFills ==
  ASSUME PipeInv, DrainWriterPartly
  PROVE  /\ RingOK' /\ bytes_in_buffer' = PIPE_BUFFER_LEN
         /\ LET w == Head(writers) IN
            write_loc[w] + Space < pipe_len[w] /\ write_loc[w] + Space \in 0..MaxLen
<1> DEFINE w == Head(writers)
           rest == Rest(w)
           data == SubSeq(rest, 1, Space)
<1>1. w \in Procs /\ At(writers, w)
  BY TailOnce DEF DrainWriterPartly, PipeInv, WaitersOK
<1>2. Put(data) /\ ~ (Len(rest) <= Space)
  BY DEF DrainWriterPartly, WriterFits
<1>4. Space \in Nat /\ bytes_in_buffer + Space = PIPE_BUFFER_LEN
  BY SpaceIs DEF PipeInv
<1>3. rest \in Seq(Bytes) /\ Len(rest) = pipe_len[w] - write_loc[w]
  <2>1. Len(<<>>) <= Space
    BY <1>4
  <2>2. rest # <<>>
    BY <1>2, <2>1
  <2> QED
    BY <1>1, <2>2, RestIs DEF PipeInv
<1> HIDE DEF w, rest
<1>5. write_loc[w] + Space < pipe_len[w] /\ write_loc[w] + Space \in 0..MaxLen
  <2>1. write_loc[w] \in Nat /\ pipe_len[w] \in Nat /\ pipe_len[w] <= MaxLen
    BY <1>1, RequestIs DEF PipeInv
  <2> QED
    BY <1>2, <1>3, <1>4, <2>1, PipeAssumption
<1>6. data \in Seq(Bytes) /\ Len(data) = Space
  <2>1. \A i \in 1..Len(rest) : rest[i] \in Bytes
    BY <1>3, ElementOfSeq
  <2>2. Len(rest) \in Nat
    BY <1>3, LenProperties
  <2>3. \A i \in 1..Space : rest[i] \in Bytes
    BY <1>2, <1>4, <2>1, <2>2
  <2> QED
    BY <1>3, <1>4, <2>3, SubSeqProperties
<1> HIDE DEF data
<1>7. RingOK' /\ bytes_in_buffer' = bytes_in_buffer + Len(data)
  <2>1. Len(data) <= Space
    BY <1>4, <1>6
  <2> QED
    BY <1>2, <1>6, <2>1, PutKeeps DEF PipeInv
<1> QED
  BY <1>4, <1>5, <1>6, <1>7 DEF w

(* The buffer is full then, and not empty: it has a length.                 *)
LEMMA DrainWriterPartlyKeeps ==
  ASSUME PipeInv, DrainWriterPartly
  PROVE  PipeInv'
<1> DEFINE w == Head(writers)
<1>1. w \in Procs /\ At(writers, w)
  BY TailOnce DEF DrainWriterPartly, PipeInv, WaitersOK
<1>2. /\ write_loc' = [write_loc EXCEPT ![w] = @ + Space]
      /\ DrainWritersEnd(PIPE_BUFFER_LEN)
      /\ UNCHANGED <<sched, made, readers, writers, pipe_len, fault>>
  BY DEF DrainWriterPartly
<1>3. write_loc[w] + Space < pipe_len[w] /\ write_loc[w] + Space \in 0..MaxLen
  BY PartlyFills
<1>4. RingOK'
  BY PartlyFills
<1> HIDE DEF w
<1>5. \/ loop' = "drain readers" /\ UNCHANGED pipe_buffer
      \/ Returns /\ readers = <<>>
  BY <1>2, PipeAssumption DEF DrainWritersEnd
<1>6. RequestsOK'
  <2>1. write_loc' \in [Procs -> 0..MaxLen]
    BY <1>1, <1>2, <1>3 DEF PipeInv, RequestsOK
  <2>2. pipe_buffer' \in [Procs -> {NULL, "kbuf", "freed"}]
    BY <1>5 DEF PipeInv, RequestsOK, Returns
  <2> QED
    BY <1>2, <2>1, <2>2 DEF PipeInv, RequestsOK
<1>7. SchedOK' /\ WaitersOK'
  BY <1>2 DEF PipeInv, SchedOK, WaitersOK, Listed, Dead, sched
<1>8. loop' \in {"none", "drain readers", "drain writers"} /\ ReadersServed'
  BY <1>2, <1>5 DEF Returns, ReadersServed
<1> QED
  BY <1>2, <1>4, <1>6, <1>7, <1>8 DEF PipeInv

-----------------------------------------------------------------------------
(* The two ways out of PipeInv.                                             *)
LinksAgain ==
  /\ loop = "none" /\ Linked(current)
  /\ \/ SysDelay \/ SysExit
     \/ \E len \in 0..MaxLen : ReadWaits(len) \/ (SysPipeWrite(len) /\ WriteJoins)

Negative == NegativeWrite \/ \E n \in 1..MaxLen : NegativeRead(n)

LEMMA RelinkOK ==
  ASSUME PipeInv, LinksAgain
  PROVE  Stopped'
<1>0. /\ TypeOK /\ RingIsStream /\ ReadersServed /\ SchedOK
      /\ current \in Procs /\ readers \in Seq(Procs) /\ writers \in Seq(Procs)
  BY InvImplies DEF PipeInv, SchedOK, WaitersOK
<1>1. fault' = "relinked"
  BY DEF LinksAgain, SysDelay, SysExit, ReadWaits, WriteJoins, LinksCaller
<1>2. CASE SysDelay \/ SysExit
  <2>1. UNCHANGED <<made, pipe, requests, loop>>
    BY <1>2 DEF SysDelay, SysExit
  <2>2. PICK st \in States6 : Leaves(st) /\ delayed' \in {delayed, delayed \cup {current}}
    BY <1>2 DEF SysDelay, SysExit, Delay, Exit, States6
  <2>3. [state EXCEPT ![current] = st] \in [Procs -> States6]
    BY <1>0 DEF SchedOK
  <2>4. current' \in Procs /\ state' \in [Procs -> States6] /\ ready' \in Seq(Procs)
    BY <1>0, <2>2, <2>3, ScheduleTakes, PipeAssumption DEF Leaves, SchedOK
  <2>5. TypeOK'
    BY <1>0, <1>1, <2>1, <2>2, <2>4 DEF PipeInv, TypeOK, States6, pipe, requests
  <2> QED
    BY <1>0, <1>1, <2>1, <2>5 DEF PipeInv, Stopped, RingIsStream, ReadersServed, pipe, requests
<1>3. ASSUME NEW len \in 0..MaxLen, ReadWaits(len)
      PROVE  Stopped'
  <2>1. Append(readers, current) \in Seq(Procs)
    BY <1>0, AppendProperties
  <2>2. TypeOK'
    BY <1>0, <1>1, <1>3, <2>1 DEF PipeInv, ReadWaits, TypeOK, pipe
  <2> QED
    BY <1>0, <1>1, <1>3, <2>2 DEF PipeInv, Stopped, ReadWaits, RingIsStream, ReadersServed, pipe
<1>4. ASSUME NEW len \in 0..MaxLen, SysPipeWrite(len), WriteJoins
      PROVE  Stopped'
  <2>1. RingOK' /\ RequestsOK' /\ loop' = "drain readers"
    BY <1>4, WriteRequests
  <2>2. bytes_in_buffer' \in Nat /\ bytes_in_buffer' <= PIPE_BUFFER_LEN
    <3>1. PIPE_BUFFER_LEN \in Nat
      BY PipeAssumption
    <3>2. bytes_in_buffer' \in 0..PIPE_BUFFER_LEN
      BY <2>1 DEF RingOK
    <3> QED
      BY <3>1, <3>2
  <2>3. Append(writers, current) \in Seq(Procs)
    BY <1>0, AppendProperties
  <2>4. /\ current' \in Procs /\ state' \in [Procs -> States6]
        /\ ready' \in Seq(Procs) /\ delayed' \subseteq Procs
        /\ made' \in BOOLEAN /\ readers' \in Seq(Procs) /\ writers' \in Seq(Procs)
    BY <1>0, <1>4, <2>3 DEF SysPipeWrite, WriteJoins, TypeOK, States6
  <2>5. TypeOK'
    BY <1>1, <2>1, <2>2, <2>4 DEF TypeOK, RingOK, RequestsOK, States6
  <2> QED
    BY <1>1, <2>1, <2>5 DEF Stopped, RingOK, RingIsStream, ReadersServed
<1> QED
  BY <1>2, <1>3, <1>4 DEF LinksAgain

LEMMA NegativeOK ==
  ASSUME PipeInv, Negative
  PROVE  Stopped' /\ UNCHANGED <<sched, readers, writers>>
<1>0. TypeOK /\ RingIsStream /\ ReadersServed
  BY InvImplies
<1>1. CASE NegativeWrite
  BY <1>0, <1>1
  DEF NegativeWrite, Stopped, PipeInv, TypeOK, RingIsStream, ReadersServed, sched, pipe, requests
<1>2. ASSUME NEW n \in 1..MaxLen, NegativeRead(n)
      PROVE  Stopped' /\ UNCHANGED <<sched, readers, writers>>
  <2>1. bytes_in_buffer' \in Nat
    <3>1. bytes_in_buffer \in Nat
      BY SpaceIs DEF PipeInv
    <3>2. MaxLen \in Nat
      BY PipeAssumption
    <3>3. n \in Nat
      BY <3>2
    <3>4. bytes_in_buffer' \in {0, bytes_in_buffer + n}
      BY <1>2 DEF NegativeRead
    <3> QED
      BY <3>1, <3>3, <3>4
  <2>2. /\ UNCHANGED <<sched, made, buffer, read_pos, write_pos, stream, requests, loop>>
        /\ fault' = "negative len" /\ (bytes_in_buffer = 0 => bytes_in_buffer' = 0)
    BY <1>2 DEF NegativeRead
  <2>3. TypeOK'
    BY <1>0, <2>1, <2>2 DEF TypeOK, sched, requests
  <2> QED
    BY <1>0, <2>2, <2>3 DEF Stopped, RingIsStream, ReadersServed, requests
<1> QED
  BY <1>1, <1>2 DEF Negative

(* Every other step keeps PipeInv.                                          *)
LEMMA NextKeeps ==
  ASSUME PipeInv, [Next]_vars
  PROVE  PipeInv' \/ LinksAgain \/ Negative
<1> SUFFICES ASSUME ~ LinksAgain, ~ Negative
             PROVE  PipeInv'
  OBVIOUS
<1>1. CASE Drain
  BY <1>1, DrainReaderKeeps, LoopEndKeeps, DrainWriterKeeps, DrainWriterPartlyKeeps DEF Drain
<1>2. CASE clock_handler \/ SysDelay \/ SysExit
  BY <1>2, SchedulerKeeps DEF LinksAgain, SysDelay, SysExit, Calls
<1>3. CASE SyncInitPipe \/ SyncReclaim
  BY <1>3, InitPipeKeeps, ReclaimKeeps
<1>4. ASSUME NEW len \in 0..MaxLen, ReadWaits(len) \/ ReadTakes(len) \/ SysPipeWrite(len)
      PROVE  PipeInv'
  <2>1. loop = "none"
    BY <1>4 DEF ReadWaits, ReadTakes, SysPipeWrite, OnPipe, Calls
  <2>2. /\ ReadWaits(len) => ~ Linked(current)
        /\ SysPipeWrite(len) => ~ (WriteJoins /\ Linked(current))
    BY <2>1 DEF LinksAgain
  <2> QED
    BY <1>4, <2>2, ReadWaitsKeeps, ReadTakesKeeps, WriteKeeps
<1>5. CASE UNCHANGED vars
  BY <1>5 DEF vars, PipeInv, SchedOK, RingOK, RequestsOK, WaitersOK,
              ReadersServed, Listed, Dead, sched, pipe, requests
<1> QED
  BY <1>1, <1>2, <1>3, <1>4, <1>5 DEF Next, Negative

(* After a call that breaks a list or faults, nothing is followed.          *)
LEMMA StoppedEnds ==
  ASSUME Stopped, [Next]_vars
  PROVE  UNCHANGED vars
<1>1. ~ Calls /\ fault # "none" /\ ~ OnPipe
  BY DEF Stopped, Calls, OnPipe
<1>2. ~ Next
  BY <1>1 DEF Next, Drain, clock_handler, SysDelay, SysExit, SyncInitPipe, SyncReclaim,
              ReadWaits, ReadTakes, SysPipeWrite, NegativeRead, NegativeWrite
<1> QED
  BY <1>2

LEMMA NextInd == Ind /\ [Next]_vars => Ind'
<1> SUFFICES ASSUME Ind, [Next]_vars
             PROVE  Ind'
  OBVIOUS
<1>1. CASE PipeInv
  BY <1>1, NextKeeps, RelinkOK, NegativeOK DEF Ind
<1>2. CASE Stopped
  <2>1. UNCHANGED <<sched, made, pipe, requests, loop, fault>>
    BY <1>2, StoppedEnds DEF vars
  <2> QED
    BY <1>2, <2>1
    DEF Ind, Stopped, TypeOK, RingIsStream, ReadersServed, sched, pipe, requests
<1> QED
  BY <1>1, <1>2 DEF Ind

LEMMA Always == PipeSpec => []Ind
<1>1. Init => Ind
  BY InitInv DEF Ind
<1> QED
  BY <1>1, NextInd, PTL DEF PipeSpec

LEMMA IndImplies ==
  ASSUME Ind
  PROVE  TypeOK /\ RingIsStream /\ ReadersServed
  BY InvImplies DEF Ind, Stopped
-----------------------------------------------------------------------------
(* The order of the lines.                                                  *)
LEMMA LineStays ==
  ASSUME NEW line \in Seq(Procs)
  PROVE  InLine(line, line) /\ \A p \in Procs : InLine(line, Append(line, p))
<1>1. line \o <<>> = line /\ <<>> \in Seq(Procs)
  BY ConcatEmptySeq
<1>2. IsPrefix(line, line)
  BY <1>1, JoinedAtEnd
<1> QED
  BY <1>2, JoinedByOne DEF InLine, Joined

LEMMA HeadServed ==
  ASSUME ready \in Seq(Procs), NEW line \in Seq(Procs), line # <<>>, MakesReady(Head(line))
  PROVE  ReadyInLine /\ InLine(line, Tail(line))
<1>1. Head(line) \in Procs /\ Tail(line) \in Seq(Procs)
  BY HeadTailProperties
<1>2. Tail(line) \o <<>> = Tail(line) /\ <<>> \in Seq(Procs)
  BY <1>1, ConcatEmptySeq
<1>3. IsPrefix(Tail(line), Tail(line))
  BY <1>1, <1>2, JoinedAtEnd
<1>4. ready' = Append(ready, Head(line))
  BY DEF MakesReady
<1> QED
  BY <1>1, <1>3, <1>4, JoinedByOne DEF ReadyInLine, Joined, InLine, HeadLeaves

LEMMA NextInLine ==
  ASSUME PipeInv, [Next]_vars
  PROVE  ReadyInLine /\ InLine(readers, readers') /\ InLine(writers, writers')
<1>0. /\ ready \in Seq(Procs) /\ readers \in Seq(Procs) /\ writers \in Seq(Procs)
      /\ current \in Procs /\ SchedOK
  BY DEF PipeInv, SchedOK, WaitersOK
<1>1. CASE clock_handler \/ SysDelay \/ SysExit
  <2>1. UNCHANGED <<readers, writers>> /\ (Delay \/ Exit \/ Tick)
    BY <1>1 DEF clock_handler, SysDelay, SysExit, requests
  <2> QED
    BY <1>0, <2>1, SchedInLine, LineStays, PipeAssumption
<1>2. CASE UNCHANGED <<ready, readers, writers>>
  BY <1>0, <1>2, ReadyStays, LineStays
<1>3. CASE DrainReader
  <2>1. /\ readers # <<>> /\ MakesReady(Head(readers))
        /\ readers' = Tail(readers) /\ writers' = writers
    BY <1>3 DEF DrainReader
  <2> QED
    BY <1>0, <2>1, HeadServed, LineStays
<1>4. CASE DrainWriter
  <2>1. /\ writers # <<>> /\ MakesReady(Head(writers))
        /\ writers' = Tail(writers) /\ readers' = readers
    BY <1>4 DEF DrainWriter, WriterFits
  <2> QED
    BY <1>0, <2>1, HeadServed, LineStays
<1>5. CASE DrainReadersEnd \/ DrainWriterPartly \/ DrainWritersDone
  BY <1>2, <1>5 DEF DrainReadersEnd, DrainWriterPartly, DrainWritersDone, sched
<1>6. CASE SyncInitPipe \/ NegativeWrite \/ \E n \in 1..MaxLen : NegativeRead(n)
  BY <1>2, <1>6 DEF SyncInitPipe, NegativeWrite, NegativeRead, sched, requests
<1>7. CASE SyncReclaim
  <2>1. ready' = ready /\ ~ made'
    BY <1>7 DEF SyncReclaim, sched
  <2> QED
    BY <1>0, <2>1, ReadyStays DEF InLine
<1>8. ASSUME NEW len \in 0..MaxLen, ReadWaits(len) \/ ReadTakes(len) \/ SysPipeWrite(len)
      PROVE  ReadyInLine /\ InLine(readers, readers') /\ InLine(writers, writers')
  <2>1. /\ ready' = ready
        /\ readers' = readers \/ readers' = Append(readers, current)
        /\ writers' = writers \/ writers' = Append(writers, current)
    BY <1>8 DEF ReadWaits, ReadTakes, SysPipeWrite, sched, requests
  <2> QED
    BY <1>0, <2>1, ReadyStays, LineStays
<1>9. CASE UNCHANGED vars
  BY <1>2, <1>9 DEF vars, sched, requests
<1> QED
  BY <1>1, <1>3, <1>4, <1>5, <1>6, <1>7, <1>8, <1>9 DEF Next, Drain
-----------------------------------------------------------------------------
(* What is left to the drain functions.                                     *)
Phase(l, b) == CASE l = "none" -> 0
                 [] l = "drain writers" -> 2
                 [] OTHER -> IF b = 0 THEN 3 ELSE 1

PhaseIs(l, b, f) ==
  /\ f \in {0, 1, 2, 3}
  /\ l = "none" => f = 0
  /\ l = "drain writers" => f = 2
  /\ l = "drain readers" => (b = 0 => f = 3) /\ (b # 0 => f = 1)

LEMMA TurnsNow ==
  ASSUME PipeInv
  PROVE  /\ TurnsLeft = 4 * (Len(readers) + Len(writers)) + Phase(loop, bytes_in_buffer)
         /\ Len(readers) \in Nat /\ Len(writers) \in Nat
         /\ bytes_in_buffer \in Nat
         /\ PhaseIs(loop, bytes_in_buffer, Phase(loop, bytes_in_buffer))
<1>1. /\ loop \in {"none", "drain readers", "drain writers"}
      /\ readers \in Seq(Procs) /\ writers \in Seq(Procs)
  BY DEF PipeInv, WaitersOK
<1>2. bytes_in_buffer \in Nat
  BY SpaceIs DEF PipeInv
<1>3. PhaseIs(loop, bytes_in_buffer, Phase(loop, bytes_in_buffer))
  <2>1. CASE loop = "none"
    <3>1. Phase(loop, bytes_in_buffer) = 0
      BY <2>1 DEF Phase
    <3> QED
      BY <2>1, <3>1 DEF PhaseIs
  <2>2. CASE loop = "drain writers"
    <3>1. Phase(loop, bytes_in_buffer) = 2
      BY <2>2 DEF Phase
    <3> QED
      BY <2>2, <3>1 DEF PhaseIs
  <2>3. CASE loop = "drain readers"
    <3>1. Phase(loop, bytes_in_buffer) = IF bytes_in_buffer = 0 THEN 3 ELSE 1
      BY <2>3 DEF Phase
    <3>2. Phase(loop, bytes_in_buffer) \in {1, 3} /\ (bytes_in_buffer = 0 => Phase(loop, bytes_in_buffer) = 3)
          /\ (bytes_in_buffer # 0 => Phase(loop, bytes_in_buffer) = 1)
      BY <1>2, <3>1
    <3> QED
      BY <2>3, <3>2 DEF PhaseIs
  <2> QED
    BY <1>1, <2>1, <2>2, <2>3
<1> QED
  BY <1>1, <1>2, <1>3, LenProperties DEF TurnsLeft, Phase

LEMMA TurnsNext ==
  ASSUME PipeInv'
  PROVE  /\ TurnsLeft' = 4 * (Len(readers') + Len(writers')) + Phase(loop', bytes_in_buffer')
         /\ Len(readers') \in Nat /\ Len(writers') \in Nat
         /\ bytes_in_buffer' \in Nat
         /\ PhaseIs(loop', bytes_in_buffer', Phase(loop', bytes_in_buffer'))
<1>1. /\ loop' \in {"none", "drain readers", "drain writers"}
      /\ readers' \in Seq(Procs) /\ writers' \in Seq(Procs)
  BY DEF PipeInv, WaitersOK
<1>2. bytes_in_buffer' \in Nat
  <2>1. PIPE_BUFFER_LEN \in Nat
    BY PipeAssumption
  <2>2. bytes_in_buffer' \in 0..PIPE_BUFFER_LEN
    BY DEF PipeInv, RingOK
  <2> QED
    BY <2>1, <2>2
<1>3. PhaseIs(loop', bytes_in_buffer', Phase(loop', bytes_in_buffer'))
  <2>1. CASE loop' = "none"
    <3>1. Phase(loop', bytes_in_buffer') = 0
      BY <2>1 DEF Phase
    <3> QED
      BY <2>1, <3>1 DEF PhaseIs
  <2>2. CASE loop' = "drain writers"
    <3>1. Phase(loop', bytes_in_buffer') = 2
      BY <2>2 DEF Phase
    <3> QED
      BY <2>2, <3>1 DEF PhaseIs
  <2>3. CASE loop' = "drain readers"
    <3>1. Phase(loop', bytes_in_buffer') = IF bytes_in_buffer' = 0 THEN 3 ELSE 1
      BY <2>3 DEF Phase
    <3>2. Phase(loop', bytes_in_buffer') \in {1, 3} /\ (bytes_in_buffer' = 0 => Phase(loop', bytes_in_buffer') = 3)
          /\ (bytes_in_buffer' # 0 => Phase(loop', bytes_in_buffer') = 1)
      BY <1>2, <3>1
    <3> QED
      BY <2>3, <3>2 DEF PhaseIs
  <2> QED
    BY <1>1, <2>1, <2>2, <2>3
<1> QED
  BY <1>1, <1>2, <1>3, LenProperties DEF TurnsLeft, Phase

(* A list is shorter by one, or the loop is nearer to its end.              *)
LEMMA TurnTaken ==
  ASSUME PipeInv, PipeInv',
         \/ /\ Len(readers') + Len(writers') = Len(readers) + Len(writers) - 1
            /\ Phase(loop', bytes_in_buffer') <= Phase(loop, bytes_in_buffer) + 2
         \/ /\ readers' = readers /\ writers' = writers
            /\ Phase(loop', bytes_in_buffer') < Phase(loop, bytes_in_buffer)
  PROVE  TurnsLeft' < TurnsLeft
<1> DEFINE f == Phase(loop, bytes_in_buffer)
           g == Phase(loop', bytes_in_buffer')
<1>1. f \in {0, 1, 2, 3} /\ g \in {0, 1, 2, 3}
  BY TurnsNow, TurnsNext DEF PhaseIs
<1>2. /\ TurnsLeft = 4 * (Len(readers) + Len(writers)) + f
      /\ Len(readers) \in Nat /\ Len(writers) \in Nat
  BY TurnsNow
<1>3. /\ TurnsLeft' = 4 * (Len(readers') + Len(writers')) + g
      /\ Len(readers') \in Nat /\ Len(writers') \in Nat
  BY TurnsNext
<1> HIDE DEF f, g
<1>4. \/ Len(readers') + Len(writers') = Len(readers) + Len(writers) - 1 /\ g <= f + 2
      \/ Len(readers') + Len(writers') = Len(readers) + Len(writers) /\ g < f
  BY DEF f, g
<1> QED
  BY <1>1, <1>2, <1>3, <1>4

LEMMA DrainShortens ==
  ASSUME PipeInv, PipeInv', Drain
  PROVE  TurnsLeft' < TurnsLeft
<1> DEFINE f == Phase(loop, bytes_in_buffer)
           g == Phase(loop', bytes_in_buffer')
<1>0. /\ readers \in Seq(Procs) /\ writers \in Seq(Procs)
      /\ Len(readers) \in Nat /\ Len(writers) \in Nat
      /\ bytes_in_buffer \in Nat /\ bytes_in_buffer' \in Nat
      /\ PhaseIs(loop, bytes_in_buffer, f) /\ PhaseIs(loop', bytes_in_buffer', g)
  BY TurnsNow, TurnsNext DEF PipeInv, WaitersOK
<1>1. ASSUME Len(readers') + Len(writers') = Len(readers) + Len(writers) - 1, g <= f + 2
      PROVE  TurnsLeft' < TurnsLeft
  BY <1>1, TurnTaken
<1>2. ASSUME readers' = readers, writers' = writers, g < f
      PROVE  TurnsLeft' < TurnsLeft
  BY <1>2, TurnTaken
<1> HIDE DEF f, g
<1>3. CASE DrainReader
  <2>1. /\ readers # <<>> /\ readers' = Tail(readers) /\ writers' = writers
        /\ bytes_in_buffer # 0 /\ loop = "drain readers"
    <3>1. bytes_in_buffer > 0
      BY <1>3 DEF DrainReader
    <3>2. bytes_in_buffer # 0
      BY <1>0, <3>1
    <3> QED
      BY <1>3, <3>2 DEF DrainReader
  <2>2. Len(readers') = Len(readers) - 1 /\ Len(writers') = Len(writers)
    BY <1>0, <2>1, HeadTailProperties
  <2>3. f = 1 /\ g \in {0, 1, 2, 3}
    BY <1>0, <2>1 DEF PhaseIs
  <2>4. g <= f + 2
    BY <2>3
  <2> QED
    BY <1>0, <1>1, <2>2, <2>4
<1>4. CASE DrainWriter
  <2>1. /\ writers # <<>> /\ writers' = Tail(writers) /\ readers' = readers
        /\ loop = "drain writers" /\ loop' = loop
    BY <1>4 DEF DrainWriter, WriterFits
  <2>2. Len(writers') = Len(writers) - 1 /\ Len(readers') = Len(readers)
    BY <1>0, <2>1, HeadTailProperties
  <2>3. f = 2 /\ g = 2
    BY <1>0, <2>1 DEF PhaseIs
  <2>4. g <= f + 2
    BY <2>3
  <2> QED
    BY <1>0, <1>1, <2>2, <2>4
<1>5. CASE DrainReadersEnd
  <2>1. /\ readers' = readers /\ writers' = writers /\ loop = "drain readers"
        /\ \/ bytes_in_buffer = 0 /\ loop' = "drain writers"
           \/ loop' = "none"
    BY <1>5 DEF DrainReadersEnd, Returns
  <2>2. f \in {1, 3} /\ ((f = 3 /\ g = 2) \/ g = 0)
    BY <1>0, <2>1 DEF PhaseIs
  <2>3. g < f
    BY <2>2
  <2> QED
    BY <1>2, <2>1, <2>3
<1>6. CASE DrainWritersDone
  <2>1. /\ readers' = readers /\ writers' = writers /\ loop = "drain writers"
        /\ \/ bytes_in_buffer' # 0 /\ loop' = "drain readers"
           \/ loop' = "none"
    BY <1>6 DEF DrainWritersDone, DrainWritersEnd, Returns, pipe
  <2>2. f = 2 /\ g \in {0, 1}
    BY <1>0, <2>1 DEF PhaseIs
  <2>3. g < f
    BY <2>2
  <2> QED
    BY <1>2, <2>1, <2>3
<1>7. CASE DrainWriterPartly
  <2>1. /\ readers' = readers /\ writers' = writers /\ loop = "drain writers"
        /\ loop' \in {"drain readers", "none"}
    BY <1>7 DEF DrainWriterPartly, DrainWritersEnd, Returns
  <2>2. bytes_in_buffer' # 0
    BY <1>7, PartlyFills, PipeAssumption
  <2>3. f = 2 /\ g \in {0, 1}
    BY <1>0, <2>1, <2>2 DEF PhaseIs
  <2>4. g < f
    BY <2>3
  <2> QED
    BY <1>2, <2>1, <2>4
<1> QED
  BY <1>3, <1>4, <1>5, <1>6, <1>7 DEF Drain
-----------------------------------------------------------------------------
(* However long the buffer is and whoever reads and writes, with any len:   *)
(* every field of pipe_t and of the requests keeps its range, and of them   *)
(* only bytes_in_buffer leaves it, by a read with a negative len, which     *)
(* then faults.                                                             *)
THEOREM PipeTypes == PipeSpec => []TypeOK
<1>1. Ind => TypeOK
  BY IndImplies
<1> QED
  BY <1>1, Always, PTL

(* The copying loops of SyncReadPipe, SyncWritePipe and the drains keep the *)
(* circular buffer equal to the bytes that were put in and not yet taken,   *)
(* in order, wherever they stop and wrap around, until a negative len.      *)
THEOREM PipeIsStream == PipeSpec => []RingIsStream
<1>1. Ind => RingIsStream
  BY IndImplies
<1> QED
  BY <1>1, Always, PTL

(* When SyncDrainReaders and SyncDrainWriters have called each other to the *)
(* end, no reader waits in front of bytes.                                  *)
THEOREM NoReaderLeft == PipeSpec => []ReadersServed
<1>1. Ind => ReadersServed
  BY IndImplies
<1> QED
  BY <1>1, Always, PTL

(* A queue_node gets into a second list only by SysDelay, SysExit,          *)
(* SysPipeRead or SysPipeWrite of the very process it belongs to, while     *)
(* that is in one: the drains, which pop waiters, make them ready and put   *)
(* one back, never link a node twice.                                       *)
THEOREM OnlyCallersRelink == PipeSpec => LinkedByCaller
<1>0. PipeInv' => OneList'
  <2>1. PipeInv => OneList
    BY InvImplies
  <2> QED
    BY <2>1, PTL
<1>1. Ind /\ [Next]_vars => [OneList' \/ (loop = "none" /\ Linked(current))]_vars
  <2> SUFFICES ASSUME Ind, [Next]_vars
               PROVE  [OneList' \/ (loop = "none" /\ Linked(current))]_vars
    OBVIOUS
  <2>1. CASE PipeInv
    <3>1. CASE Negative
      <4>1. UNCHANGED <<sched, readers, writers>> /\ OneList
        BY <2>1, <3>1, NegativeOK, InvImplies
      <4> QED
        BY <4>1 DEF OneList, Zombies, sched
    <3> QED
      BY <1>0, <2>1, <3>1, NextKeeps DEF LinksAgain
  <2>2. CASE Stopped
    BY <2>2, StoppedEnds
  <2> QED
    BY <2>1, <2>2 DEF Ind
<1> QED
  BY <1>1, Always, PTL DEF PipeSpec, LinkedByCaller

(* SyncReadPipe and SyncWritePipe append to their line, the drains take the *)
(* head and ready it, a writer served in part keeps its place: of those who *)
(* wait, none leaves before those that waited before it.  (A new write's    *)
(* bytes may go before a waiting writer's: it does not wait in line.)       *)
THEOREM WaitersKeepTheirPlace == PipeSpec => ServedInLine
<1>1. Ind /\ [Next]_vars
        => [ReadyInLine /\ InLine(readers, readers') /\ InLine(writers, writers')]_vars
  <2>1. PipeInv /\ [Next]_vars
          => [ReadyInLine /\ InLine(readers, readers') /\ InLine(writers, writers')]_vars
    BY NextInLine
  <2>2. Stopped /\ [Next]_vars => UNCHANGED vars
    BY StoppedEnds
  <2> QED
    BY <2>1, <2>2 DEF Ind
<1> QED
  BY <1>1, Always, PTL DEF PipeSpec, ServedInLine

(* Every turn of SyncDrainReaders and SyncDrainWriters leaves less to do:   *)
(* each waiter is served once, and between two of them the one loop calls   *)
(* the other at most twice.  They cannot call each other for ever.          *)
THEOREM DrainsAreBounded == PipeSpec => DrainShrinks
<1>1. Ind /\ [Next]_vars => [Drain => TurnsLeft' < TurnsLeft]_vars
  <2> SUFFICES ASSUME Ind, [Next]_vars, Drain
               PROVE  TurnsLeft' < TurnsLeft
    OBVIOUS
  <2>1. PipeInv
    BY DEF Ind, Stopped, Drain
  <2>2. PipeInv'
    BY <2>1, DrainReaderKeeps, LoopEndKeeps, DrainWriterKeeps, DrainWriterPartlyKeeps DEF Drain
  <2> QED
    BY <2>1, <2>2, DrainShortens
<1> QED
  BY <1>1, Always, PTL DEF PipeSpec, DrainShrinks
=============================================================================
