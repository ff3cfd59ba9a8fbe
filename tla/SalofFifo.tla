----------------------------- MODULE SalofFifo ------------------------------
(***************************************************************************)
(* The asynchronous log of src/common/log: threads format their entries    *)
(* into one static buffer and write it to a ring (salof, salof_fifo_write),*)
(* one task reads the ring and prints (salof_handler, salof_fifo_read).    *)
(* Writers exclude each other with a mutex, the reader takes no lock: it   *)
(* is kept apart from them by the two counters alone.  A byte is named by  *)
(* the thread whose text it is.                                            *)
(***************************************************************************)
EXTENDS Naturals, Sequences

CONSTANTS Writers,    \* threads that log
          NULL,
          Request,    \* SALOF_FIFO_SIZE
          BuffSize,   \* SALOF_BUFF_SIZE, of the entries and of _out_buff
          Width,      \* width of the counters in and out, in bits
          MaxPosts    \* bound on the semaphore

\* 2^k, of which the proofs need the recursive definition.
Power2[k \in Nat] == IF k = 0 THEN 1 ELSE 2 * Power2[k - 1]

ASSUME WritersAssumption == NULL \notin Writers
ASSUME RequestAssumption == Request \in Nat /\ Request > 1 /\ BuffSize \in Nat \ {0}
ASSUME WidthAssumption == Width \in Nat /\ MaxPosts \in Nat \ {0} /\ Request < Power2[Width]

VARIABLES
    format,     \* _salof_format_buff: whose text it holds
    ring,       \* fifo->buff
    in, out,    \* the counters
    mutex,      \* the holder of fifo->mutex, or NULL
    sem,        \* the count of fifo->sem
    writer,     \* where each writer is, and the length it writes
    reader,     \* where the task is, and the length it reads
    outBuff,    \* _out_buff
    output,     \* what salof_out prints, until the task waits for more
    waits       \* the port: salof_mutex_pend and salof_sem_pend wait as long as
                \* it takes (Linux), or as long as the caller says, which is not
                \* at all in salof_handler

ringVars == <<ring, in, out>>
readerVars == <<reader, outBuff, output>>
vars == <<format, ringVars, mutex, sem, writer, readerVars, waits>>

Wrap == Power2[Width]
Powers == {Power2[k] : k \in 0..Width}

min(a, b) == IF a < b THEN a ELSE b

\* The size that was asked for, which the counters do not wrap round with.
Mutant_align(x) == x
\* The largest power of two that is smaller than x, which is not a power of two.
salof_fifo_align(x) == CHOOSE p \in Powers : p < x /\ x <= 2 * p

\* salof_fifo_create.
Size == IF Request \in Powers THEN Request ELSE salof_fifo_align(Request)

\* The unsigned difference of the counters; the place of a counter in the ring.
Used == (in + Wrap - out) % Wrap
Place(i) == i % Size

\* Where the ring wraps round: how many of n bytes from counter i go before it.
First(i, n) == min(n, Size - Place(i))

-----------------------------------------------------------------------------
(* Writers.                                                                *)

At(w, pc) == writer[w].pc = pc
Goto(w, pc) == writer' = [writer EXCEPT ![w].pc = pc]

\* salof formats its entry, without a lock; another thread may format over it.
salof(w) ==
    /\ At(w, "idle")
    /\ sem < MaxPosts
    /\ \E n \in 1..BuffSize :
          /\ format' = w
          /\ writer' = [writer EXCEPT ![w] = [pc |-> "pend", len |-> n]]
    /\ UNCHANGED <<ringVars, mutex, sem, readerVars>>

\* salof_fifo_write: the mutex, and how much of the entry there is room for.
salof_fifo_write(w) ==
    /\ At(w, "pend")
    /\ mutex = NULL
    /\ mutex' = w
    /\ writer' = [writer EXCEPT ![w].pc = "copy", ![w].len = min(@, Size - Used)]
    /\ UNCHANGED <<format, ringVars, sem, readerVars>>

\* The mutex is not free in time.  On Linux salof_mutex_pend waits.
salof_mutex_pend_fails(w) ==
    /\ ~waits
    /\ At(w, "pend")
    /\ mutex # NULL
    /\ writer' = [writer EXCEPT ![w] = [pc |-> "idle", len |-> 0]]
    /\ UNCHANGED <<format, ringVars, mutex, sem, readerVars>>

\* The two memcpy, to the end of the ring and to its beginning.
write_copy(w) ==
    /\ At(w, "copy")
    /\ ring' = [i \in DOMAIN ring |->
                  IF i >= Place(in) /\ i < Place(in) + First(in, writer[w].len) THEN format ELSE ring[i]]
    /\ Goto(w, "wrap")
    /\ UNCHANGED <<format, in, out, mutex, sem, readerVars>>

write_wrap(w) ==
    /\ At(w, "wrap")
    /\ ring' = [i \in DOMAIN ring |->
                  IF i < writer[w].len - First(in, writer[w].len) THEN format ELSE ring[i]]
    /\ Goto(w, "in")
    /\ UNCHANGED <<format, in, out, mutex, sem, readerVars>>

\* The counter, and the mutex is given back.
write_in(w) ==
    /\ At(w, "in")
    /\ in' = (in + writer[w].len) % Wrap
    /\ mutex' = NULL
    /\ Goto(w, "signal")
    /\ UNCHANGED <<format, ring, out, sem, readerVars>>

\* The semaphore is binary, as the FreeRTOS port creates it.
Mutant_sem_post(w) ==
    /\ At(w, "signal")
    /\ sem' = 1
    /\ writer' = [writer EXCEPT ![w] = [pc |-> "idle", len |-> 0]]
    /\ UNCHANGED <<format, ringVars, mutex, readerVars>>
salof_sem_post(w) ==
    /\ At(w, "signal")
    /\ sem' = sem + 1
    /\ writer' = [writer EXCEPT ![w] = [pc |-> "idle", len |-> 0]]
    /\ UNCHANGED <<format, ringVars, mutex, readerVars>>

-----------------------------------------------------------------------------
(* The task.                                                               *)

\* salof_fifo_read: the semaphore, whose result is not looked at, ...
salof_sem_pend ==
    /\ reader.pc = "pend"
    /\ waits => sem > 0
    /\ sem' = IF sem > 0 THEN sem - 1 ELSE 0
    /\ reader' = [reader EXCEPT !.pc = "read"]
    /\ output' = <<>>
    /\ UNCHANGED <<format, ringVars, mutex, writer, outBuff>>

\* ... how much there is, ...
salof_fifo_read ==
    /\ reader.pc = "read"
    /\ reader' = [pc |-> "copy", len |-> min(BuffSize, Used)]
    /\ UNCHANGED <<format, ringVars, mutex, sem, writer, outBuff, output>>

\* ... the two memcpy ...
read_copy ==
    /\ reader.pc = "copy"
    /\ outBuff' = [i \in 1..First(out, reader.len) |-> ring[Place(out) + i - 1]]
    /\ reader' = [reader EXCEPT !.pc = "wrap"]
    /\ UNCHANGED <<format, ringVars, mutex, sem, writer, output>>

read_wrap ==
    /\ reader.pc = "wrap"
    /\ outBuff' = outBuff \o [i \in 1..(reader.len - First(out, reader.len)) |-> ring[i - 1]]
    /\ reader' = [reader EXCEPT !.pc = "out"]
    /\ UNCHANGED <<format, ringVars, mutex, sem, writer, output>>

\* ... and the counter.  salof_handler then prints what it has read, which no
\* other thread can see.
salof_handler ==
    /\ reader.pc = "out"
    /\ out' = (out + reader.len) % Wrap
    /\ output' = outBuff
    /\ outBuff' = <<>>
    /\ reader' = [pc |-> "pend", len |-> 0]
    /\ UNCHANGED <<format, ring, in, mutex, sem, writer>>

-----------------------------------------------------------------------------
\* salof_init.
Init ==
    /\ format = NULL
    /\ ring = [i \in 0..(Size - 1) |-> NULL]
    /\ in = 0 /\ out = 0
    /\ mutex = NULL /\ sem = 0
    /\ writer = [w \in Writers |-> [pc |-> "idle", len |-> 0]]
    /\ reader = [pc |-> "pend", len |-> 0]
    /\ outBuff = <<>> /\ output = <<>>
    /\ waits \in BOOLEAN

\* A thread inside salof.
Logging(w) ==
    \/ salof_fifo_write(w) \/ salof_mutex_pend_fails(w)
    \/ write_copy(w) \/ write_wrap(w) \/ write_in(w)
    \/ salof_sem_post(w)

salof_task ==
    \/ salof_sem_pend \/ salof_fifo_read
    \/ read_copy \/ read_wrap \/ salof_handler

Next ==
    /\ UNCHANGED waits
    /\ \/ \E w \in Writers : salof(w) \/ Logging(w)
       \/ salof_task

\* The task and a thread inside a call keep running.
Spec == Init /\ [][Next]_vars /\ WF_vars(salof_task /\ UNCHANGED waits)
        /\ \A w \in Writers : WF_vars(Logging(w) /\ UNCHANGED waits)

-----------------------------------------------------------------------------
(* Properties.                                                             *)

\* The bytes between the counters.
InRing == [i \in 1..Used |-> ring[Place(out + i - 1)]]

Queue == INSTANCE LogQueue WITH Capacity <- Size, queue <- InRing, output <- output

\* The lock-free side of the log is a queue: whatever a writer has added to the
\* ring comes out once and in order, although the task copies from the ring
\* while writers copy into it, and although the ring and the counters wrap
\* round (salof_fifo_write against salof_fifo_read).
RingIsQueue == Queue!Spec

\* What is in the ring is read without waiting for another entry: there is a
\* post of the semaphore for every entry, even one that no longer fits, and a
\* read takes as much as the longest entry (salof_sem_post, salof_handler).
NothingStuck == (in # out) ~> (reader.pc = "out" /\ reader.len > 0)
=============================================================================
