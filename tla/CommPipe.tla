------------------------------ MODULE CommPipe ------------------------------
(***************************************************************************)
(* The pipe between two threads (include/commpipe.h), which carries the    *)
(* requests of the file systems, of uaehf.device and of the signals that   *)
(* host threads send to the Amiga.                                         *)
(*                                                                         *)
(* A ring of words with two indexes.  The reader sleeps on a semaphore     *)
(* when the ring is empty and is only woken when Chunks words are there or *)
(* the writer asks for it (no_buffer); the writer sleeps on another when   *)
(* the ring is full.  A semaphore guards the indexes, except that a writer *)
(* that sees reader_waiting does "no need to do all the locking".          *)
(*                                                                         *)
(* The calls are in steps between which the other thread runs; what others *)
(* cannot see - a word stored before the index is moved, what happens      *)
(* under the lock to what is only read under it - is part of a step        *)
(* before or after it.  Writers take turns: their callers see to that.     *)
(***************************************************************************)
EXTENDS Naturals, Sequences

CONSTANTS
    Size, Chunks,   \* arguments of init_comm_pipe
    Word,           \* what is sent
    NoWord,         \* the memory of malloc
    Writers         \* the threads that write

ASSUME PipeAssumption ==
    /\ Size \in Nat /\ Chunks \in Nat
    /\ 0 < Chunks /\ Chunks < Size
    /\ NoWord \notin Word

VARIABLES
    data, rdp, wrp,
    lock, reader_wait, writer_wait,   \* semaphores
    reader_waiting, writer_waiting,   \* flags
    wpc, word, no_buffer, nxwrp,      \* each writer's call and its variables
    rpc, got                          \* the reader's call and its result

ring     == <<data, rdp, wrp>>
waiting  == <<reader_wait, writer_wait, reader_waiting, writer_waiting>>
args     == <<word, no_buffer, nxwrp>>
reader   == <<rpc, got>>
pipeVars == <<ring, lock, waiting, wpc, args, reader>>

WriterPc == {"idle", "lock", "sleep", "relock", "index", "wake", "fastIndex",
             "fastWake"}
ReaderPc == {"idle", "sleep", "relock"}

Places == 0 .. Size - 1
\* Mutant: the index does not wrap round.
MutSucc(i) == i + 1
Succ(i) == (i + 1) % Size

PipeInit ==
    /\ data = [i \in Places |-> NoWord] /\ rdp = 0 /\ wrp = 0
    /\ lock = 1 /\ reader_wait = 0 /\ writer_wait = 0
    /\ reader_waiting = FALSE /\ writer_waiting = FALSE
    /\ wpc = [w \in Writers |-> "idle"]
    /\ word = [w \in Writers |-> NoWord]
    /\ no_buffer = [w \in Writers |-> FALSE]
    /\ nxwrp = [w \in Writers |-> 0]
    /\ rpc = "idle" /\ got = NoWord

\* Words in the ring, as maybe_wake_reader counts them.
Count == (wrp + Size - rdp) % Size

comm_pipe_has_data == rdp # wrp

Goto(w, pc) == wpc' = [wpc EXCEPT ![w] = pc]

-----------------------------------------------------------------------------
(* write_comm_pipe_pt.                                                     *)

\* The word is stored where the next reader looks for it; it does not find it
\* there before the index has been moved.
Stored(x) == data' = [data EXCEPT ![wrp] = x]

\* "No need to do all the locking" if the reader waits.
BeginWrite(w, x, nb) ==
    /\ wpc[w] = "idle"
    /\ word' = [word EXCEPT ![w] = x]
    /\ no_buffer' = [no_buffer EXCEPT ![w] = nb]
    /\ nxwrp' = [nxwrp EXCEPT ![w] = Succ(wrp)]
    /\ \/ reader_waiting /\ Stored(x) /\ Goto(w, "fastIndex")
       \/ ~reader_waiting /\ UNCHANGED data /\ Goto(w, "lock")
    /\ UNCHANGED <<rdp, wrp, lock, waiting, reader>>

\* The pipe is full: the lock is given back before the writer sleeps.
FindFull(w) ==
    /\ wpc[w] = "lock" /\ lock = 1 /\ nxwrp[w] = rdp
    /\ writer_waiting' = TRUE
    /\ Goto(w, "sleep")
    /\ UNCHANGED <<ring, lock, reader_wait, writer_wait, reader_waiting, args,
                   reader>>

\* Mutant: a full pipe is not noticed.
MutFindRoom(w) ==
    /\ wpc[w] = "lock" /\ lock = 1
    /\ lock' = 0
    /\ Stored(word[w])
    /\ Goto(w, "index")
    /\ UNCHANGED <<rdp, wrp, waiting, args, reader>>

FindRoom(w) ==
    /\ wpc[w] = "lock" /\ lock = 1 /\ nxwrp[w] # rdp
    /\ lock' = 0
    /\ Stored(word[w])
    /\ Goto(w, "index")
    /\ UNCHANGED <<rdp, wrp, waiting, args, reader>>

WriterWakes(w) ==
    /\ wpc[w] = "sleep" /\ writer_wait > 0
    /\ writer_wait' = writer_wait - 1
    /\ Goto(w, "relock")
    /\ UNCHANGED <<ring, lock, reader_wait, reader_waiting, writer_waiting,
                   args, reader>>

\* A writer that has slept does not look at the indexes again.
WriterRelocks(w) ==
    /\ wpc[w] = "relock" /\ lock = 1
    /\ lock' = 0
    /\ Stored(word[w])
    /\ Goto(w, "index")
    /\ UNCHANGED <<rdp, wrp, waiting, args, reader>>

SetIndex(w) ==
    /\ wpc[w] \in {"index", "fastIndex"}
    /\ wrp' = nxwrp[w]
    /\ Goto(w, IF wpc[w] = "index" THEN "wake" ELSE "fastWake")
    /\ UNCHANGED <<data, rdp, lock, waiting, args, reader>>

\* maybe_wake_reader's condition.
Wake(w) == reader_waiting /\ (no_buffer[w] \/ Count >= Chunks)

\* maybe_wake_reader, and the lock is given back if it was taken.
EndWrite(w) ==
    /\ wpc[w] \in {"wake", "fastWake"}
    /\ reader_waiting' = (reader_waiting /\ ~Wake(w))
    /\ reader_wait' = IF Wake(w) THEN reader_wait + 1 ELSE reader_wait
    /\ lock' = IF wpc[w] = "wake" THEN 1 ELSE lock
    /\ Goto(w, "idle")
    /\ UNCHANGED <<ring, writer_wait, writer_waiting, args, reader>>

WriteSteps(w) ==
    \/ FindFull(w) \/ FindRoom(w) \/ WriterWakes(w) \/ WriterRelocks(w)
    \/ SetIndex(w) \/ EndWrite(w)

-----------------------------------------------------------------------------
(* read_comm_pipe_pt_blocking.                                             *)

FindEmpty ==
    /\ rpc = "idle" /\ lock = 1 /\ rdp = wrp
    /\ reader_waiting' = TRUE
    /\ rpc' = "sleep"
    /\ UNCHANGED <<ring, lock, reader_wait, writer_wait, writer_waiting, wpc,
                   args, got>>

ReaderWakes ==
    /\ rpc = "sleep" /\ reader_wait > 0
    /\ reader_wait' = reader_wait - 1
    /\ rpc' = "relock"
    /\ UNCHANGED <<ring, lock, writer_wait, reader_waiting, writer_waiting,
                   wpc, args, got>>

\* Mutant: a waiting writer is only woken when the pipe is empty.
MutEndRead ==
    /\ \/ rpc = "idle" /\ rdp # wrp
       \/ rpc = "relock"
    /\ lock = 1
    /\ got' = data[rdp]
    /\ rdp' = Succ(rdp)
    /\ writer_waiting' = FALSE
    /\ writer_wait' = IF writer_waiting /\ rdp' = wrp THEN writer_wait + 1
                                                     ELSE writer_wait
    /\ rpc' = "idle"
    /\ UNCHANGED <<data, wrp, lock, reader_wait, reader_waiting, wpc, args>>

\* Under the lock: the oldest word is taken and a waiting writer is woken.  A
\* reader that has slept does not look at the indexes again.
EndRead ==
    /\ \/ rpc = "idle" /\ rdp # wrp
       \/ rpc = "relock"
    /\ lock = 1
    /\ got' = data[rdp]
    /\ rdp' = Succ(rdp)
    /\ writer_waiting' = FALSE
    /\ writer_wait' = IF writer_waiting THEN writer_wait + 1 ELSE writer_wait
    /\ rpc' = "idle"
    /\ UNCHANGED <<data, wrp, lock, reader_wait, reader_waiting, wpc, args>>

ReadSteps == FindEmpty \/ ReaderWakes \/ EndRead

-----------------------------------------------------------------------------
\* One word after another, by one writer at a time.
PipeNext ==
    \/ \E w \in Writers :
          \/ /\ \A v \in Writers : wpc[v] = "idle"
             /\ \E x \in Word, nb \in BOOLEAN : BeginWrite(w, x, nb)
          \/ WriteSteps(w)
    \/ ReadSteps

PipeSpec == PipeInit /\ [][PipeNext]_pipeVars

-----------------------------------------------------------------------------
\* The variables keep their types.
PipeTypeOK ==
    /\ data \in [Places -> Word \cup {NoWord}]
    /\ rdp \in Places /\ wrp \in Places
    /\ lock \in {0, 1}
    /\ reader_wait \in {0, 1} /\ writer_wait \in {0, 1}
    /\ reader_waiting \in BOOLEAN /\ writer_waiting \in BOOLEAN
    /\ wpc \in [Writers -> WriterPc]
    /\ word \in [Writers -> Word \cup {NoWord}]
    /\ no_buffer \in [Writers -> BOOLEAN]
    /\ nxwrp \in [Writers -> Places]
    /\ rpc \in ReaderPc /\ got \in Word \cup {NoWord}

\* The words in the ring, the oldest first.
Held == [i \in 1 .. Count |-> data[(rdp + i - 1) % Size]]

\* The pipe implements the abstract queue: no word is lost, repeated,
\* overtaken or overwritten, although half of the writes take no lock and a
\* reader that wakes does not look again whether there is a word.
Fifo == INSTANCE BoundedFifo WITH fifo <- Held, Entry <- Word,
                                  Capacity <- Size - 1
FifoSpec == Fifo!Spec

\* Nobody sleeps for want of a wake-up: a reader sleeps, unwoken, only while
\* fewer than a chunk of words is there and no write asks to pass them on,
\* and a writer only until a word has been taken.
NoLostWakeUp ==
    /\ rpc = "sleep" /\ reader_wait = 0 =>
           /\ reader_waiting
           /\ Count >= Chunks => \E w \in Writers : wpc[w] \in {"wake", "fastWake"}
    /\ \A w \in Writers :
           wpc[w] = "sleep" /\ writer_wait = 0 =>
               writer_waiting /\ nxwrp[w] = rdp

\* A writer that is in write_comm_pipe_pt is the only one.
OneWriter ==
    \A v, w \in Writers : wpc[v] # "idle" /\ wpc[w] # "idle" => v = w

\* It will move the index past its word, and not onto the reader's.
IndexAhead ==
    \A w \in Writers :
        /\ wpc[w] \in {"lock", "sleep", "relock", "index", "fastIndex"} =>
               word[w] \in Word /\ nxwrp[w] = Succ(wrp)
        /\ wpc[w] \in {"index", "fastIndex"} =>
               data[wrp] = word[w] /\ nxwrp[w] # rdp
        /\ wpc[w] = "relock" => nxwrp[w] # rdp
        /\ wpc[w] = "sleep" => (nxwrp[w] = rdp <=> writer_wait = 0)
        /\ wpc[w] \in {"wake", "fastWake"} => rdp # wrp

\* The semaphores and flags tell where the two sides are.
FlagsTrue ==
    /\ lock = 0 <=> \E w \in Writers : wpc[w] \in {"index", "wake"}
    /\ \A w \in Writers : wpc[w] \in {"fastIndex", "fastWake"} => reader_waiting
    /\ reader_waiting <=> rpc = "sleep" /\ reader_wait = 0
    /\ reader_wait = 1 => rpc = "sleep"
    /\ writer_waiting <=> writer_wait = 0 /\ \E w \in Writers : wpc[w] = "sleep"
    /\ writer_wait = 1 => \E w \in Writers : wpc[w] = "sleep"

\* A reader that has been woken finds a word; one that waits has less than a
\* chunk, or is about to be woken.
ReaderServed ==
    /\ rpc = "relock" \/ (rpc = "sleep" /\ reader_wait = 1) => rdp # wrp
    /\ reader_waiting /\ Count >= Chunks =>
           \E w \in Writers : wpc[w] \in {"wake", "fastWake"}

\* The inductive invariant: why the indexes that are not looked at again, by
\* whoever has slept or takes no lock, are the right ones.
PipeInv == PipeTypeOK /\ OneWriter /\ IndexAhead /\ FlagsTrue /\ ReaderServed
=============================================================================
