---------------------------- MODULE DeniseQueue -----------------------------
(***************************************************************************)
(* The line queue between the chipset emulation, which runs on the CPU     *)
(* thread, and the thread that draws (src/core/drawing.cpp,                *)
(* src/core/custom.cpp).                                                   *)
(*                                                                         *)
(* The CPU thread fills entry rga_queue_write of a ring of                 *)
(* DENISE_RGA_SLOT_CHUNKS entries, increments the counter and posts        *)
(* write_sem; the draw thread draws entry rga_queue_read, increments that  *)
(* counter and posts read_sem.  Nothing but the two counters protects the  *)
(* entries.  An entry names a range of rga_denise[], a second ring that    *)
(* the CPU thread writes as the beam moves and that has no counter at all: *)
(* only the number of entries in flight keeps the writer from catching up. *)
(* Drawing touches the frame buffer, which the CPU thread locks and        *)
(* unlocks (thread_debug_lock).                                            *)
(*                                                                         *)
(* Counters and beam positions are not masked here until they index an     *)
(* array; the code's 32-bit counters wrap at a multiple of both masks.     *)
(***************************************************************************)
EXTENDS Integers, Sequences

CONSTANTS
    DENISE_RGA_SLOT_CHUNKS, \* entries of rga_queue
    LineLen,                \* longest line, in slots of rga_denise
    Types,                  \* the entry types that are queued
    SemMax,                 \* bound: the semaphores count no further
    MaxWrites,              \* bound: entries queued in a behaviour
    MaxCycle                \* bound: slots of rga_denise written

Chunks == DENISE_RGA_SLOT_CHUNKS

ASSUME DeniseAssumption ==
    /\ Chunks \in Nat /\ Chunks > 1
    /\ LineLen \in Nat /\ LineLen > 0
    /\ Types \subseteq 0 .. 7
    /\ SemMax \in Nat /\ SemMax > 0
    /\ MaxWrites \in Nat /\ MaxCycle \in Nat

\* Mutant: a ring of beam slots for a single line.
MutSlotTotal == LineLen

\* Each chunk of rga_denise has room for the longest line.
DENISE_RGA_SLOT_TOTAL == Chunks * LineLen

NoLockTypes == {4, 5, 6}   \* drawn without the frame buffer
LineTypes   == {0, 3, 4}   \* name a range of rga_denise and end a line

\* An entry of the queue; `final` is finalseg, the line ends with it.
Entry == [type : 0 .. 7, startpos : Nat, endpos : Nat, final : BOOLEAN]

\* The zeros of the static array.
NoEntry == [type |-> 0, startpos |-> 0, endpos |-> 0, final |-> FALSE]

VARIABLES
    rga_queue,              \* the ring of entries
    rga_queue_read, rga_queue_write,
    read_sem, write_sem,
    thread_debug_lock,      \* the frame buffer is locked for drawing
    quit_program,
    rga_denise_cycle,       \* beam position, where the CPU thread writes
    rga_denise_cycle_start, \* where the current line began
    cpu,                    \* program counter of the CPU thread
    item,                   \* the entry it is about to queue
    denise                  \* program counter of the draw thread

queueVars == <<rga_queue, rga_queue_read, rga_queue_write, read_sem, write_sem>>
beamVars  == <<rga_denise_cycle, rga_denise_cycle_start>>
vars == <<queueVars, beamVars, thread_debug_lock, quit_program, cpu, item,
          denise>>

CpuPc    == {"run", "wait", "fill", "publish", "post", "flush", "unlock",
             "reset"}
DenisePc == {"check", "sleep", "draw", "advance", "post"}

Masked(n) == n % Chunks

Post(sem) == IF sem < SemMax THEN sem + 1 ELSE sem

Init ==
    /\ rga_queue = [i \in 0 .. Chunks - 1 |-> NoEntry]
    /\ rga_queue_read = 0 /\ rga_queue_write = 0
    /\ read_sem = 1 /\ write_sem = 1
    /\ thread_debug_lock = FALSE
    /\ quit_program = FALSE
    /\ rga_denise_cycle = 0 /\ rga_denise_cycle_start = 0
    /\ cpu = "run"
    /\ item = NoEntry
    /\ denise = "check"

-----------------------------------------------------------------------------
(* The CPU thread.                                                         *)

\* The beam moves to the next slot of rga_denise.
BeamMoves ==
    /\ cpu = "run" /\ rga_denise_cycle < MaxCycle
    /\ rga_denise_cycle + 1 - rga_denise_cycle_start < LineLen
    /\ rga_denise_cycle' = rga_denise_cycle + 1
    /\ UNCHANGED <<queueVars, rga_denise_cycle_start, thread_debug_lock,
                   quit_program, cpu, item, denise>>

\* A line that needs the frame buffer is dropped while it is not locked, or
\* once the program quits (waitqueue).
Dropped(t) == t \notin NoLockTypes /\ (quit_program \/ ~thread_debug_lock)

\* next_denise_rga follows the entry that ends a line.
NextLine(e) == IF e.final THEN rga_denise_cycle ELSE rga_denise_cycle_start

\* One of the *_queue functions is called.
Queue(t, final) ==
    /\ cpu = "run" /\ rga_queue_write < MaxWrites
    /\ t \in LineTypes \ {0} => final
    /\ t \notin LineTypes => ~final
    /\ LET e == [type |-> t, startpos |-> rga_denise_cycle_start,
                 endpos |-> rga_denise_cycle, final |-> final]
       IN IF Dropped(t)
          THEN /\ rga_denise_cycle_start' = NextLine(e)
               /\ UNCHANGED <<cpu, item>>
          ELSE /\ cpu' = "wait"
               /\ item' = e
               /\ UNCHANGED rga_denise_cycle_start
    /\ UNCHANGED <<queueVars, rga_denise_cycle, thread_debug_lock,
                   quit_program, denise>>

\* Mutant: the last free entry is handed out as well.
MutFull == rga_queue_write - rga_queue_read > Chunks

\* Mutant: the counters meet before one more entry is in the ring.
MutFullAtMost == rga_queue_write - rga_queue_read >= Chunks

Full == Masked(rga_queue_write + 1) = Masked(rga_queue_read)

\* waitqueue_nolock finds room, or takes a token of read_sem and looks again
\* (a time-out of uae_sem_trywait_delay changes nothing).
WaitQueue ==
    /\ cpu = "wait"
    /\ IF Full
       THEN /\ read_sem > 0
            /\ read_sem' = read_sem - 1
            /\ UNCHANGED cpu
       ELSE /\ cpu' = "fill"
            /\ UNCHANGED read_sem
    /\ UNCHANGED <<rga_queue, rga_queue_read, rga_queue_write, write_sem,
                   beamVars, thread_debug_lock, quit_program, item, denise>>

FillEntry ==
    /\ cpu = "fill"
    /\ rga_queue' = [rga_queue EXCEPT ![Masked(rga_queue_write)] = item]
    /\ cpu' = "publish"
    /\ UNCHANGED <<rga_queue_read, rga_queue_write, read_sem, write_sem,
                   beamVars, thread_debug_lock, quit_program, item, denise>>

\* addtowritequeue: the counter first, then the semaphore.
Publish ==
    /\ cpu = "publish"
    /\ rga_queue_write' = rga_queue_write + 1
    /\ cpu' = "post"
    /\ UNCHANGED <<rga_queue, rga_queue_read, read_sem, write_sem, beamVars,
                   thread_debug_lock, quit_program, item, denise>>

\* Mutant: the draw thread is not told.
MutPostWrite ==
    /\ cpu = "post"
    /\ rga_denise_cycle_start' = NextLine(item)
    /\ cpu' = "run"
    /\ UNCHANGED <<queueVars, rga_denise_cycle, thread_debug_lock,
                   quit_program, item, denise>>

PostWrite ==
    /\ cpu = "post"
    /\ write_sem' = Post(write_sem)
    /\ rga_denise_cycle_start' = NextLine(item)
    /\ cpu' = "run"
    /\ UNCHANGED <<rga_queue, rga_queue_read, rga_queue_write, read_sem,
                   rga_denise_cycle, thread_debug_lock, quit_program, item,
                   denise>>

\* draw_denise_line_queue_flush is called, by itself or by end_draw_denise,
\* which does nothing unless the frame buffer is locked.
StartFlush(pc) ==
    /\ cpu = "run"
    /\ pc = "unlock" => thread_debug_lock
    /\ cpu' = pc
    /\ UNCHANGED <<queueVars, beamVars, thread_debug_lock, quit_program, item,
                   denise>>

\* custom_reset is called: with the display locked or not, and from m68k_go,
\* which clears quit_program, or from elsewhere.
StartReset ==
    /\ cpu = "run"
    /\ cpu' = "reset"
    /\ quit_program' \in {quit_program, FALSE}
    /\ UNCHANGED <<queueVars, beamVars, thread_debug_lock, item, denise>>

\* The flush is over: the caller goes on.
Flushed ==
    /\ cpu' = "run"
    /\ thread_debug_lock' = (thread_debug_lock /\ cpu = "flush")
    /\ IF cpu = "reset"
       THEN rga_denise_cycle' = 0 /\ rga_denise_cycle_start' = 0
       ELSE UNCHANGED beamVars

\* Mutant: the flush returns with the first token.
MutFlushOnce ==
    /\ cpu \in {"flush", "unlock", "reset"}
    /\ read_sem > 0
    /\ read_sem' = read_sem - 1
    /\ Flushed
    /\ UNCHANGED <<rga_queue, rga_queue_read, rga_queue_write, write_sem,
                   quit_program, item, denise>>

Flush ==
    /\ cpu \in {"flush", "unlock", "reset"}
    /\ IF rga_queue_read = rga_queue_write
       THEN Flushed /\ UNCHANGED read_sem
       ELSE /\ read_sem > 0
            /\ read_sem' = read_sem - 1
            /\ UNCHANGED <<cpu, thread_debug_lock, beamVars>>
    /\ UNCHANGED <<rga_queue, rga_queue_read, rga_queue_write, write_sem,
                   quit_program, item, denise>>

\* start_draw_denise; lockscr may fail, and then nothing changes.
StartDraw ==
    /\ cpu = "run" /\ ~thread_debug_lock
    /\ thread_debug_lock' = TRUE
    /\ UNCHANGED <<queueVars, beamVars, quit_program, cpu, item, denise>>

\* uae_quit, uae_reset: quit_program is no longer 0.
Quit ==
    /\ ~quit_program
    /\ quit_program' = TRUE
    /\ UNCHANGED <<queueVars, beamVars, thread_debug_lock, cpu, item, denise>>

-----------------------------------------------------------------------------
(* The draw thread: read_denise_line_queue for ever.                       *)

Empty == rga_queue_read = rga_queue_write

\* It looks at the counters, and sleeps on write_sem while they are equal.
Look ==
    /\ denise = "check"
    /\ denise' = IF Empty THEN "sleep" ELSE "draw"
    /\ UNCHANGED <<queueVars, beamVars, thread_debug_lock, quit_program, cpu,
                   item>>

Wake ==
    /\ denise = "sleep" /\ write_sem > 0
    /\ write_sem' = write_sem - 1
    /\ denise' = "check"
    /\ UNCHANGED <<rga_queue, rga_queue_read, rga_queue_write, read_sem,
                   beamVars, thread_debug_lock, quit_program, cpu, item>>

\* The entry being drawn.
ThisLine == rga_queue[Masked(rga_queue_read)]

DrawEntry ==
    /\ denise = "draw"
    /\ denise' = "advance"
    /\ UNCHANGED <<queueVars, beamVars, thread_debug_lock, quit_program, cpu,
                   item>>

Advance ==
    /\ denise = "advance"
    /\ rga_queue_read' = rga_queue_read + 1
    /\ denise' = "post"
    /\ UNCHANGED <<rga_queue, rga_queue_write, read_sem, write_sem, beamVars,
                   thread_debug_lock, quit_program, cpu, item>>

PostRead ==
    /\ denise = "post"
    /\ read_sem' = Post(read_sem)
    /\ denise' = "check"
    /\ UNCHANGED <<rga_queue, rga_queue_read, rga_queue_write, write_sem,
                   beamVars, thread_debug_lock, quit_program, cpu, item>>

-----------------------------------------------------------------------------
\* What the CPU thread chooses to do, the calls it is in the middle of, and
\* the draw thread.
CpuCalls == \/ BeamMoves
            \/ \E t \in Types, final \in BOOLEAN : Queue(t, final)
            \/ \E pc \in {"flush", "unlock"} : StartFlush(pc)
            \/ StartReset
            \/ StartDraw
            \/ Quit
CpuSteps == WaitQueue \/ FillEntry \/ Publish \/ PostWrite \/ Flush
Denise   == Look \/ Wake \/ DrawEntry \/ Advance \/ PostRead

Next == CpuCalls \/ CpuSteps \/ Denise

Spec == Init /\ [][Next]_vars

\* Both threads are scheduled; which calls the CPU makes is its own affair.
FairSpec == Spec /\ WF_vars(CpuSteps) /\ WF_vars(Denise)

-----------------------------------------------------------------------------
InFlight == rga_queue_write - rga_queue_read

\* The entries in flight, the oldest first.
Queued == [i \in 1 .. InFlight |-> rga_queue[Masked(rga_queue_read + i - 1)]]

\* The variables keep their types.
TypeOK ==
    /\ rga_queue \in [0 .. Chunks - 1 -> Entry]
    /\ rga_queue_read \in Nat /\ rga_queue_write \in Nat
    /\ read_sem \in 0 .. SemMax /\ write_sem \in 0 .. SemMax
    /\ thread_debug_lock \in BOOLEAN /\ quit_program \in BOOLEAN
    /\ rga_denise_cycle \in Nat /\ rga_denise_cycle_start \in Nat
    /\ cpu \in CpuPc /\ denise \in DenisePc
    /\ item \in Entry

\* The CPU thread never fills the entry that the draw thread is reading.
EntryStable ==
    ~(/\ cpu = "fill" /\ denise \in {"draw", "advance"}
      /\ Masked(rga_queue_write) = Masked(rga_queue_read))

\* Nothing that needs the frame buffer is drawn while it is not locked:
\* "queue processed without lock!" is never logged.
DrawsUnderLock ==
    (denise \in {"draw", "advance"} /\ ThisLine.type \notin NoLockTypes)
        => thread_debug_lock

\* While lines are queued and not dropped.
Running == ~quit_program /\ cpu # "reset"

\* The beam never catches up with a slot of rga_denise that an entry in
\* flight still has to read (while the program quits, lines are dropped and
\* it may).
RgaStable ==
    Running =>
        \A i \in 1 .. InFlight :
            LET e == Queued[i]
            IN e.type \notin NoLockTypes =>
                   rga_denise_cycle < e.startpos + DENISE_RGA_SLOT_TOTAL

\* A call of the CPU thread returns: it is never blocked for ever.
CpuReturns == (cpu # "run") ~> (cpu = "run")

\* The queue implements the abstract one: lines are drawn one by one in the
\* order in which they were queued, and with fair threads all of them are.
Fifo == INSTANCE BoundedFifo WITH fifo <- Queued, Capacity <- Chunks - 1
FifoSpec     == Fifo!Spec
FifoFairSpec == Fifo!FairSpec

-----------------------------------------------------------------------------
(* The inductive invariant behind EntryStable, DrawsUnderLock, RgaStable   *)
(* and the refinement.                                                     *)

\* Counter values of the entries in flight, and the entry at a counter value.
Pending == rga_queue_read .. rga_queue_write - 1
EntryAt(k) == rga_queue[Masked(k)]

\* At most Chunks - 1 entries are in flight, one less while another is being
\* queued, and the draw thread only draws when there is one.
Bounds ==
    /\ rga_queue_read <= rga_queue_write
    /\ InFlight <= Chunks - 1
    /\ cpu \in {"fill", "publish"} => InFlight < Chunks - 1
    /\ denise \in {"draw", "advance"} => InFlight > 0

\* The entry that the CPU thread is queueing.
ItemFilled == cpu = "publish" => EntryAt(rga_queue_write) = item

\* The frame buffer is locked while an entry that needs it is in flight.
LockHeld ==
    ~thread_debug_lock =>
        /\ \A k \in Pending : EntryAt(k).type \in NoLockTypes
        /\ cpu \in {"wait", "fill", "publish"} => item.type \in NoLockTypes

\* How many entries since counter value k have ended their lines.
Ended(k) == rga_queue_write - k - (IF cpu = "post" THEN 1 ELSE 0)

\* The current line is short, it is the line of the entry being queued, and
\* it began at most one line length per entry after the ones in flight.
BeamNear ==
    /\ rga_denise_cycle_start <= rga_denise_cycle
    /\ rga_denise_cycle < rga_denise_cycle_start + LineLen
    /\ cpu \in {"wait", "fill", "publish"} =>
           item.startpos = rga_denise_cycle_start
    /\ Running =>
           \A k \in Pending :
               EntryAt(k).type \notin NoLockTypes =>
                   rga_denise_cycle_start
                       <= EntryAt(k).startpos + Ended(k) * LineLen

\* The invariant that the proofs are by induction on.
IInv == TypeOK /\ Bounds /\ ItemFilled /\ LockHeld /\ BeamNear
=============================================================================
