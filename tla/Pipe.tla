-------------------------------- MODULE Pipe --------------------------------
(***************************************************************************)
(* A pipe (sync.c) and the system calls on it (syscalls.c), next to the    *)
(* scheduler of Sched.  The two drain functions call each other, always as *)
(* the last thing they do: loop says which of them is running, and a turn  *)
(* of its loop is a step.  No interrupt comes until it is "none" again.    *)
(*                                                                         *)
(* SyncReadPipe and SyncWritePipe answer PCB_BLOCKED, SysPipeRead and      *)
(* SysPipeWrite test for PROCESS_BLOCKED: a caller that waits frees its    *)
(* kernel buffer and goes on in user mode.  What a freed buffer holds is   *)
(* Junk; it is not handed out again.  As in Sync, a call that puts a       *)
(* queue_node into a second list is the last one followed (fault).         *)
(*                                                                         *)
(* The request fields of a PCB (pipe_buffer, pipe_len, write_loc) are kept *)
(* only while it waits: what a finished request leaves there is not read   *)
(* before it is set again.                                                 *)
(*                                                                         *)
(* The i-th byte of a write is i.  One id: a pipe is made, used, reclaimed *)
(* with whoever waits in it, and made again.  A call on an id without an   *)
(* object changes nothing (it loses its kernel buffer).                    *)
(***************************************************************************)
EXTENDS Sched, FiniteSets

CONSTANTS NULL, Junk,
          PIPE_BUFFER_LEN,
          MaxLen             \* bound on the length of a read or a write

ASSUME PipeAssumption == /\ IsFiniteSet(Procs) /\ Idle \in Procs /\ NULL \notin Procs
                         /\ PIPE_BUFFER_LEN \in Nat \ {0} /\ MaxLen \in Nat
                         /\ Junk \notin 1..MaxLen

VARIABLES
  made,                   \* the id's entry in sync_table is set
  buffer, read_pos, write_pos, bytes_in_buffer, readers, writers,   \* pipe_t
  pipe_buffer,            \* pcb.pipe_buffer: NULL, "kbuf" or "freed"
  pipe_len, write_loc,    \* pcb fields
  loop,                   \* the drain function that is running, or "none"
  fault,
  stream                  \* history: the bytes put in the pipe and not yet taken

pipe == <<buffer, read_pos, write_pos, bytes_in_buffer, stream>>
requests == <<readers, writers, pipe_buffer, pipe_len, write_loc>>
vars == <<sched, made, pipe, requests, loop, fault>>

Slots == 0..(PIPE_BUFFER_LEN - 1)
Bytes == 1..MaxLen \cup {Junk}

Smaller(m, n) == IF m < n THEN m ELSE n

\* As SyncInitPipe makes it; what it does not set is uninitialized, so Junk.
NewBuffer == [i \in Slots |-> Junk]

NoRequest == [p \in Procs |-> NULL]
NoBytes == [p \in Procs |-> 0]

Init ==
  /\ AllForked
  /\ made = FALSE
  /\ buffer = NewBuffer
  /\ read_pos = 0 /\ write_pos = 0 /\ bytes_in_buffer = 0
  /\ readers = <<>> /\ writers = <<>>
  /\ pipe_buffer = NoRequest
  /\ pipe_len = NoBytes
  /\ write_loc = NoBytes
  /\ stream = <<>>
  /\ loop = "none"
  /\ fault = "none"

\* The slot i places on, around the end.
Slot(pos, i) == (pos + i) % PIPE_BUFFER_LEN

\* Mutant of Put: the end of the buffer is not wrapped around.
PutStraight(data) ==
  LET n == Smaller(Len(data), PIPE_BUFFER_LEN - write_pos) IN
  /\ buffer' = [s \in Slots |-> IF s - write_pos \in 0..(n - 1)
                                THEN data[s - write_pos + 1] ELSE buffer[s]]
  /\ write_pos' = Slot(write_pos, Len(data))
  /\ bytes_in_buffer' = bytes_in_buffer + Len(data)
  /\ stream' = stream \o data
  /\ UNCHANGED read_pos

(* The writing loops. *)
Put(data) ==
  /\ buffer' = [s \in Slots |->
       LET i == (s - write_pos) % PIPE_BUFFER_LEN IN
       IF i < Len(data) THEN data[i + 1] ELSE buffer[s]]
  /\ write_pos' = Slot(write_pos, Len(data))
  /\ bytes_in_buffer' = bytes_in_buffer + Len(data)
  /\ stream' = stream \o data
  /\ UNCHANGED read_pos

(* The reading loops. *)
Take(n) ==
  /\ read_pos' = Slot(read_pos, n)
  /\ bytes_in_buffer' = bytes_in_buffer - n
  /\ stream' = SubSeq(stream, n + 1, Len(stream))
  /\ UNCHANGED <<buffer, write_pos>>

Linked(p) == p \in ToSet(ready) \cup delayed \cup ToSet(readers) \cup ToSet(writers)

Calls == fault = "none" /\ loop = "none" /\ current # Idle

OnPipe == Calls /\ made

LinksCaller == fault' = IF Linked(current) THEN "relinked" ELSE fault
-----------------------------------------------------------------------------
(* The scheduler.                                                          *)
SysDelay == /\ Calls
            /\ Delay
            /\ LinksCaller
            /\ UNCHANGED <<made, pipe, requests, loop>>

SysExit == /\ Calls
           /\ Exit
           /\ LinksCaller
           /\ UNCHANGED <<made, pipe, requests, loop>>

clock_handler == /\ fault = "none" /\ loop = "none"
                 /\ Tick
                 /\ UNCHANGED <<made, pipe, requests, loop, fault>>
-----------------------------------------------------------------------------
(* The system calls.                                                       *)

(* What is made is empty, as Init and SyncReclaim leave it.  A table that   *)
(* is full, and the other failures, are in Sync.                            *)
SyncInitPipe ==
  /\ Calls /\ ~ made
  /\ made' = TRUE
  /\ UNCHANGED <<sched, pipe, requests, loop, fault>>

(* The bytes in the pipe are lost with it.  Who waits is taken out of the   *)
(* lists, and its state stays as it is.                                     *)
SyncReclaim ==
  /\ OnPipe
  /\ made' = FALSE
  /\ buffer' = NewBuffer
  /\ read_pos' = 0 /\ write_pos' = 0 /\ bytes_in_buffer' = 0
  /\ readers' = <<>> /\ writers' = <<>>
  /\ pipe_buffer' = NoRequest
  /\ pipe_len' = NoBytes
  /\ write_loc' = NoBytes
  /\ stream' = <<>>
  /\ UNCHANGED <<sched, loop, fault>>

(* Nothing to read: the caller is put in line and returns with Junk. *)
ReadWaits(len) ==
  /\ OnPipe
  /\ bytes_in_buffer = 0
  /\ pipe_buffer' = [pipe_buffer EXCEPT ![current] = "freed"]
  /\ pipe_len' = [pipe_len EXCEPT ![current] = len]
  /\ readers' = Append(readers, current)
  /\ state' = [state EXCEPT ![current] = "BLOCKED"]
  /\ LinksCaller
  /\ UNCHANGED <<current, ready, delayed, made, pipe, writers, write_loc, loop>>

ReadTakes(len) ==
  /\ OnPipe
  /\ bytes_in_buffer # 0
  /\ Take(Smaller(len, bytes_in_buffer))
  /\ loop' = "drain writers"
  /\ UNCHANGED <<sched, made, requests, fault>>

(* What does not fit waits, behind the other writers; in the meantime the   *)
(* bytes are in a buffer that lasts as long as the call.  write_loc is set  *)
(* by every write: that of a writer still in line moves its old request.    *)
SysPipeWrite(len) ==
  LET n == Smaller(len, PIPE_BUFFER_LEN - bytes_in_buffer) IN
  /\ OnPipe
  /\ Put([i \in 1..n |-> i])
  /\ write_loc' = [write_loc EXCEPT ![current] =
                     IF n < len \/ current \in ToSet(writers) THEN n ELSE 0]
  /\ IF n < len
     THEN /\ pipe_buffer' = [pipe_buffer EXCEPT ![current] = "kbuf"]
          /\ pipe_len' = [pipe_len EXCEPT ![current] = len]
          /\ writers' = Append(writers, current)
          /\ state' = [state EXCEPT ![current] = "BLOCKED"]
          /\ LinksCaller
     ELSE UNCHANGED <<pipe_buffer, pipe_len, writers, state, fault>>
  /\ loop' = "drain readers"
  /\ UNCHANGED <<current, ready, delayed, made, readers>>

(* No len is refused.  Of a negative one malloc makes NULL, which memcpy    *)
(* faults on at the end of a read, or before the pipe is seen of a write;   *)
(* but a read of bytes that are there has put back -n of them by then.  The *)
(* drains in between are not followed, nor is the caller, which a read of   *)
(* an empty pipe has put in line before the kernel faults.                  *)
NegativeRead(n) ==
  /\ OnPipe
  /\ bytes_in_buffer' = IF bytes_in_buffer = 0 THEN 0 ELSE bytes_in_buffer + n
  /\ fault' = "negative len"
  /\ UNCHANGED <<sched, made, buffer, read_pos, write_pos, stream, requests, loop>>

NegativeWrite ==
  /\ Calls
  /\ fault' = "negative len"
  /\ UNCHANGED <<sched, made, pipe, requests, loop>>
-----------------------------------------------------------------------------
(* The drain functions.                                                    *)

MakesReady(p) == /\ state' = [state EXCEPT ![p] = "READY"]
                 /\ ready' = Append(ready, p)
                 /\ UNCHANGED <<current, delayed>>

\* The end of the system call: the caller's kernel buffer is freed.
Returns == /\ loop' = "none"
           /\ pipe_buffer' = [pipe_buffer EXCEPT ![current] =
                                IF @ = "kbuf" THEN "freed" ELSE @]

\* Mutant of DrainReader: the reader gets all it asked for.
DrainReaderAll ==
  /\ loop = "drain readers"
  /\ bytes_in_buffer > 0 /\ readers # <<>>
  /\ Take(pipe_len[Head(readers)])
  /\ readers' = Tail(readers)
  /\ pipe_buffer' = [pipe_buffer EXCEPT ![Head(readers)] = NULL]
  /\ pipe_len' = [pipe_len EXCEPT ![Head(readers)] = 0]
  /\ MakesReady(Head(readers))
  /\ UNCHANGED <<made, writers, write_loc, loop, fault>>

DrainReader ==
  /\ loop = "drain readers"
  /\ bytes_in_buffer > 0 /\ readers # <<>>
  /\ Take(Smaller(pipe_len[Head(readers)], bytes_in_buffer))
  /\ readers' = Tail(readers)
  /\ pipe_buffer' = [pipe_buffer EXCEPT ![Head(readers)] = NULL]
  /\ pipe_len' = [pipe_len EXCEPT ![Head(readers)] = 0]
  /\ MakesReady(Head(readers))
  /\ UNCHANGED <<made, writers, write_loc, loop, fault>>

(* It goes on to the writers if there are readers left. *)
DrainReadersEnd ==
  /\ loop = "drain readers"
  /\ bytes_in_buffer = 0 \/ readers = <<>>
  /\ IF bytes_in_buffer < PIPE_BUFFER_LEN /\ readers # <<>>
     THEN loop' = "drain writers" /\ UNCHANGED pipe_buffer
     ELSE Returns
  /\ UNCHANGED <<sched, made, pipe, readers, writers, pipe_len, write_loc, fault>>

(* The bytes of p's request that are not in the pipe yet, as they are in    *)
(* memory now; none, if write_loc was moved past its end.                   *)
Rest(p) == [i \in 1..(pipe_len[p] - write_loc[p]) |->
              IF pipe_buffer[p] = "kbuf" THEN write_loc[p] + i ELSE Junk]

Space == PIPE_BUFFER_LEN - bytes_in_buffer

WriterFits == writers # <<>> /\ Len(Rest(Head(writers))) <= Space

\* Mutant of DrainWriter: the writer is not taken out of the list.
DrainWriterPeeked ==
  LET w == Head(writers) IN
  /\ loop = "drain writers"
  /\ WriterFits
  /\ Put(Rest(w))
  /\ write_loc' = [write_loc EXCEPT ![w] = 0]
  /\ pipe_buffer' = [pipe_buffer EXCEPT ![w] = NULL]
  /\ pipe_len' = [pipe_len EXCEPT ![w] = 0]
  /\ MakesReady(w)
  /\ UNCHANGED <<made, readers, writers, loop, fault>>

DrainWriter ==
  LET w == Head(writers) IN
  /\ loop = "drain writers"
  /\ WriterFits
  /\ Put(Rest(w))
  /\ write_loc' = [write_loc EXCEPT ![w] = 0]
  /\ pipe_buffer' = [pipe_buffer EXCEPT ![w] = NULL]
  /\ pipe_len' = [pipe_len EXCEPT ![w] = 0]
  /\ writers' = Tail(writers)
  /\ MakesReady(w)
  /\ UNCHANGED <<made, readers, loop, fault>>

\* Mutant of DrainWritersEnd: the readers are forgotten.
DrainWritersOnly(bytes) == Returns

\* bytes is what the buffer holds then.
DrainWritersEnd(bytes) ==
  IF bytes # 0 /\ readers # <<>>
  THEN loop' = "drain readers" /\ UNCHANGED pipe_buffer
  ELSE Returns

\* Mutant of DrainWriterPartly: the loop goes on with a full buffer.
DrainWriterPartlyOn ==
  LET w == Head(writers) IN
  /\ loop = "drain writers"
  /\ writers # <<>> /\ ~ WriterFits
  /\ Put(SubSeq(Rest(w), 1, Space))
  /\ write_loc' = [write_loc EXCEPT ![w] = @ + Space]
  /\ UNCHANGED <<sched, made, readers, writers, pipe_buffer, pipe_len, loop, fault>>

\* Mutant of DrainWriterPartly: what is left waits behind the others.
DrainWriterPartlyRotates ==
  LET w == Head(writers) IN
  /\ loop = "drain writers"
  /\ writers # <<>> /\ ~ WriterFits
  /\ Put(SubSeq(Rest(w), 1, Space))
  /\ write_loc' = [write_loc EXCEPT ![w] = @ + Space]
  /\ writers' = Append(Tail(writers), w)
  /\ DrainWritersEnd(PIPE_BUFFER_LEN)
  /\ UNCHANGED <<sched, made, readers, pipe_len, fault>>

(* The first writer's request does not fit: it stays first. *)
DrainWriterPartly ==
  LET w == Head(writers) IN
  /\ loop = "drain writers"
  /\ writers # <<>> /\ ~ WriterFits
  /\ Put(SubSeq(Rest(w), 1, Space))
  /\ write_loc' = [write_loc EXCEPT ![w] = @ + Space]
  /\ DrainWritersEnd(PIPE_BUFFER_LEN)
  /\ UNCHANGED <<sched, made, readers, writers, pipe_len, fault>>

DrainWritersDone ==
  /\ loop = "drain writers"
  /\ writers = <<>>
  /\ DrainWritersEnd(bytes_in_buffer)
  /\ UNCHANGED <<sched, made, pipe, readers, writers, pipe_len, write_loc, fault>>

Drain == /\ fault = "none"
         /\ DrainReader \/ DrainReadersEnd \/ DrainWriter \/ DrainWriterPartly \/ DrainWritersDone

Next == \/ Drain
        \/ SyncInitPipe \/ SyncReclaim
        \/ clock_handler \/ SysDelay \/ SysExit
        \/ \E len \in 0..MaxLen : ReadWaits(len) \/ ReadTakes(len) \/ SysPipeWrite(len)
        \/ NegativeWrite \/ \E n \in 1..MaxLen : NegativeRead(n)

(* The kernel runs its loops to the end. *)
PipeSpec == Init /\ [][Next]_vars /\ WF_vars(Drain)
-----------------------------------------------------------------------------
(* Types; the count is in the buffer's range until a read with a negative   *)
(* len puts bytes back.                                                     *)
TypeOK ==
  /\ current \in Procs
  /\ state \in [Procs -> {"DEFAULT", "RUNNING", "READY", "DELAYED", "BLOCKED", "ZOMBIE"}]
  /\ ready \in Seq(Procs) /\ delayed \subseteq Procs
  /\ made \in BOOLEAN
  /\ buffer \in [Slots -> Bytes]
  /\ read_pos \in Slots /\ write_pos \in Slots
  /\ bytes_in_buffer \in Nat
  /\ fault # "negative len" => bytes_in_buffer <= PIPE_BUFFER_LEN
  /\ readers \in Seq(Procs) /\ writers \in Seq(Procs)
  /\ pipe_buffer \in [Procs -> {NULL, "kbuf", "freed"}]
  /\ pipe_len \in [Procs -> 0..MaxLen]
  /\ write_loc \in [Procs -> 0..MaxLen]
  /\ loop \in {"none", "drain readers", "drain writers"}
  /\ fault \in {"none", "relinked", "negative len"}
  /\ stream \in Seq(Bytes)

(* The ring buffer is the stream: no byte is lost, doubled or overtaken by  *)
(* another, wherever reads, writes and drains stop and wrap around.         *)
RingIsStream == fault # "negative len" =>
  /\ bytes_in_buffer = Len(stream)
  /\ write_pos = Slot(read_pos, bytes_in_buffer)
  /\ \A i \in 1..Len(stream) : buffer[Slot(read_pos, i - 1)] = stream[i]

(* No reader is left waiting in front of bytes.                             *)
ReadersServed == loop = "none" /\ readers # <<>> => bytes_in_buffer = 0

Zombies == {p \in Procs : state[p] = "ZOMBIE"}

(* A queue_node is in one list, once.                                       *)
OneList ==
  /\ IsInjective(ready) /\ IsInjective(readers) /\ IsInjective(writers)
  /\ ToSet(readers) \cap ToSet(writers) = {}
  /\ ToSet(ready) \cap (delayed \cup ToSet(readers) \cup ToSet(writers)) = {}
  /\ delayed \cap (ToSet(readers) \cup ToSet(writers)) = {}
  /\ Zombies \cap (ToSet(ready) \cup delayed \cup ToSet(readers) \cup ToSet(writers)) = {}

(* Only a process that calls while it is itself in a list, which a read or  *)
(* a write that waits let go on, puts a node in a second one: the drains,   *)
(* which take whole lists apart and put what is left back, never do.        *)
LinkedByCaller == [][OneList' \/ (loop = "none" /\ Linked(current))]_vars

(* Who waits is served in line: until the pipe is reclaimed, a reader or a  *)
(* writer keeps its place behind those that waited before it, while they    *)
(* are served in parts, and who leaves is the first and becomes ready.  (A  *)
(* new write does not wait in line: SyncWritePipe puts its bytes in what    *)
(* room there is, also before those of a writer that waits.)                *)
InLine(line, new) ==
  \/ Joined(line, new)
  \/ HeadLeaves(line, new) /\ ready' = Append(ready, Head(line))
  \/ ~ made'

ServedInLine ==
  [][ReadyInLine /\ InLine(readers, readers') /\ InLine(writers, writers')]_vars

(* What is left for the drain functions to do: who waits may be served, and *)
(* before that each of the two may run once.                                *)
TurnsLeft ==
  4 * (Len(readers) + Len(writers)) +
  CASE loop = "none" -> 0
    [] loop = "drain writers" -> 2
    [] OTHER -> IF bytes_in_buffer = 0 THEN 3 ELSE 1

(* Every turn of their loops leaves less of it: they call each other only   *)
(* so often, and the depth of the kernel stack they need is bounded.        *)
DrainShrinks == [][Drain => TurnsLeft' < TurnsLeft]_vars

(* The drain functions do not call each other forever, unless they are      *)
(* started on a list that is broken.                                        *)
DrainEnds == loop # "none" ~> (loop = "none" \/ fault = "relinked")

(* What a comment of the source says, and does not hold:                    *)
(* "blocks if nothing is available / otherwise reads whatever is and        *)
(* returns" (SyncReadPipe): readers do not wait while a writer has bytes.   *)
NoStandoff == loop = "none" => readers = <<>> \/ writers = <<>>
=============================================================================
