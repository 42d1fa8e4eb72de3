----------------------------- MODULE AudioRing ------------------------------
(***************************************************************************)
(* The sound output of LeanUAE (src/od-leopard/leuae-audio.c): the         *)
(* emulation thread puts samples into a ring with leuae_audio_submit, the  *)
(* thread of CoreAudio takes them out in audio_callback.  There is no      *)
(* lock: each side moves one of the two indexes and reads the other.       *)
(*                                                                         *)
(* Only volatile orders the accesses of a thread, and it does not order    *)
(* the memcpy against the store of the index.  InOrder is TRUE for builds  *)
(* and machines that keep that order all the same.                         *)
(***************************************************************************)
EXTENDS Integers, Sequences

CONSTANTS
    BYTES_PER_FRAME,
    RING_SIZE,     \* bytes in the ring
    Capacity,      \* mAudioDataBytesCapacity of a buffer
    NUM_BUFS,
    MaxFrames,     \* bound: frames submitted at once
    InOrder

ASSUME AudioAssumption ==
    /\ BYTES_PER_FRAME \in Nat \ {0}
    /\ RING_SIZE \in Nat \ {0} /\ RING_SIZE % BYTES_PER_FRAME = 0
    /\ Capacity \in Nat \ {0} /\ Capacity % BYTES_PER_FRAME = 0
    /\ {NUM_BUFS, MaxFrames} \subseteq Nat \ {0}
    /\ InOrder \in BOOLEAN

\* A sample byte is known by its number; numbers come round after two rings.
Silence == -1
Numbers == 2 * RING_SIZE
Byte    == 0 .. Numbers - 1
Places  == 0 .. RING_SIZE - 1

VARIABLES
    g_ring, g_ring_write, g_ring_read,
    opened,      \* g_queue # NULL
    g_running,
    buffers,     \* buffers enqueued with CoreAudio
    sent,        \* number of the next sample byte
    emu,         \* the call of leuae_audio_submit in progress
    cb,          \* the call of audio_callback in progress
    data         \* mAudioData of the last buffer filled

\* A call in progress: the accesses to shared memory still to be made, the
\* index it began with and the bytes it moves.
Call == [todo : SUBSET {"copy", "index", "enqueue"}, at : Places,
         bytes : 0 .. RING_SIZE]

vars == <<g_ring, g_ring_write, g_ring_read, opened, g_running, buffers, sent,
          emu, cb, data>>
ring == <<g_ring, g_ring_write, g_ring_read>>
queue == <<opened, g_running, buffers>>

NoCall == [todo |-> {}, at |-> 0, bytes |-> 0]
Idle(call) == call.todo = {}

Silent == [i \in 1 .. Capacity |-> Silence]
Least(a, b) == IF a < b THEN a ELSE b

\* The place of the ring that is i bytes after `at`.
Place(at, i) == (at + i) % RING_SIZE
Region(call) == {Place(call.at, i) : i \in 0 .. call.bytes - 1}

Init ==
    /\ g_ring = [p \in Places |-> Silence]
    /\ g_ring_write = 0 /\ g_ring_read = 0
    /\ opened = FALSE /\ g_running = FALSE /\ buffers = 0
    /\ sent = 0
    /\ emu = NoCall /\ cb = NoCall
    /\ data = Silent

ring_available == IF g_ring_write >= g_ring_read
                  THEN g_ring_write - g_ring_read
                  ELSE RING_SIZE - g_ring_read + g_ring_write

-----------------------------------------------------------------------------
(* The emulation thread.                                                   *)

\* Mutant: the gap that tells a full ring from an empty one is left out.
MutRoom == RING_SIZE - ring_available

Room == RING_SIZE - ring_available - BYTES_PER_FRAME

\* leuae_audio_submit: how much goes in, rounded down to whole frames.  A full
\* ring, or a paused or closed output, takes nothing.
leuae_audio_submit(frame_count) ==
    LET bytes == Least(frame_count * BYTES_PER_FRAME, Room)
        whole == (bytes \div BYTES_PER_FRAME) * BYTES_PER_FRAME
    IN /\ Idle(emu)
       /\ opened /\ g_running
       /\ bytes > 0
       /\ emu' = [todo |-> {"copy", "index"}, at |-> g_ring_write,
                  bytes |-> whole]
       /\ sent' = (sent + whole) % Numbers
       /\ UNCHANGED <<ring, queue, cb, data>>

\* ring_write: both parts of the memcpy.
WriteCopies ==
    /\ "copy" \in emu.todo
    /\ g_ring' = [p \in Places |->
                     LET i == (p - emu.at) % RING_SIZE
                     IN IF i < emu.bytes THEN (sent - emu.bytes + i) % Numbers
                        ELSE g_ring[p]]
    /\ emu' = [emu EXCEPT !.todo = @ \ {"copy"}]
    /\ UNCHANGED <<g_ring_write, g_ring_read, queue, sent, cb, data>>

\* ring_write: the index.
WriteIndex ==
    /\ "index" \in emu.todo
    /\ InOrder => "copy" \notin emu.todo
    /\ g_ring_write' = Place(emu.at, emu.bytes)
    /\ emu' = [emu EXCEPT !.todo = @ \ {"index"}]
    /\ UNCHANGED <<g_ring, g_ring_read, queue, sent, cb, data>>

-----------------------------------------------------------------------------
(* The thread of CoreAudio.                                                *)

\* audio_callback: a buffer has been played, and there are these bytes to
\* fill it with.  CoreAudio plays between AudioQueueStart and AudioQueuePause,
\* which is when g_running is set; the callback itself does not look at it.
audio_callback ==
    /\ Idle(cb)
    /\ g_running /\ buffers > 0
    /\ buffers' = buffers - 1
    /\ cb' = [todo |-> {"copy", "index", "enqueue"}, at |-> g_ring_read,
              bytes |-> Least(ring_available, Capacity)]
    /\ UNCHANGED <<ring, opened, g_running, sent, emu, data>>

\* The bytes in the ring that the call moves, filled up with silence.
Filled(call) == [i \in 1 .. Capacity |->
                    IF i <= call.bytes THEN g_ring[Place(call.at, i - 1)]
                    ELSE Silence]

\* ring_read and memset: the data.
CallbackCopies ==
    /\ "copy" \in cb.todo
    /\ data' = Filled(cb)
    /\ cb' = [cb EXCEPT !.todo = @ \ {"copy"}]
    /\ UNCHANGED <<ring, queue, sent, emu>>

\* Mutant: the bytes are given free before they are copied.
MutCallbackIndex ==
    /\ "index" \in cb.todo
    /\ g_ring_read' = Place(cb.at, cb.bytes)
    /\ cb' = [cb EXCEPT !.todo = @ \ {"index"}]
    /\ UNCHANGED <<g_ring, g_ring_write, queue, sent, emu, data>>

\* ring_read: the index.
CallbackIndex ==
    /\ "index" \in cb.todo
    /\ InOrder => "copy" \notin cb.todo
    /\ g_ring_read' = Place(cb.at, cb.bytes)
    /\ cb' = [cb EXCEPT !.todo = @ \ {"index"}]
    /\ UNCHANGED <<g_ring, g_ring_write, queue, sent, emu, data>>

\* Mutant: on an underrun the buffer is not given back.
MutCallbackEnqueues ==
    /\ cb.todo = {"enqueue"}
    /\ buffers' = IF cb.bytes > 0 THEN buffers + 1 ELSE buffers
    /\ cb' = NoCall
    /\ UNCHANGED <<ring, opened, g_running, sent, emu, data>>

\* AudioQueueEnqueueBuffer.
CallbackEnqueues ==
    /\ cb.todo = {"enqueue"}
    /\ buffers' = buffers + 1
    /\ cb' = NoCall
    /\ UNCHANGED <<ring, opened, g_running, sent, emu, data>>

-----------------------------------------------------------------------------
(* Control, on the emulation thread.                                       *)

\* leuae_audio_init; when CoreAudio does not start, the output stays closed.
leuae_audio_init ==
    /\ Idle(emu) /\ ~opened
    /\ g_ring' = [p \in Places |-> Silence]
    /\ g_ring_write' = 0 /\ g_ring_read' = 0
    /\ sent' = 0
    /\ \E started \in BOOLEAN :
          /\ opened' = started /\ g_running' = started
          /\ buffers' = IF started THEN NUM_BUFS ELSE 0
    /\ UNCHANGED <<emu, cb, data>>

\* A callback that has begun goes on.
leuae_audio_stop ==
    /\ Idle(emu) /\ opened /\ g_running
    /\ g_running' = FALSE
    /\ UNCHANGED <<ring, opened, buffers, sent, emu, cb, data>>

leuae_audio_resume ==
    /\ Idle(emu) /\ opened /\ ~g_running
    /\ g_running' = TRUE
    /\ UNCHANGED <<ring, opened, buffers, sent, emu, cb, data>>

\* AudioQueueStop waits for the callback.
leuae_audio_close ==
    /\ Idle(emu) /\ opened
    /\ Idle(cb)
    /\ opened' = FALSE /\ g_running' = FALSE /\ buffers' = 0
    /\ UNCHANGED <<ring, sent, emu, cb, data>>

-----------------------------------------------------------------------------
Writes   == WriteCopies \/ WriteIndex
Callback == CallbackCopies \/ CallbackIndex \/ CallbackEnqueues
Control  == leuae_audio_init \/ leuae_audio_stop \/ leuae_audio_resume
            \/ leuae_audio_close

Next == \/ \E n \in 1 .. MaxFrames : leuae_audio_submit(n)
        \/ Writes \/ audio_callback \/ Callback \/ Control

Spec == Init /\ [][Next]_vars

\* Calls return, and CoreAudio plays the buffers it has.
FairSpec == Spec /\ WF_vars(Writes) /\ WF_vars(Callback) /\ WF_vars(audio_callback)

-----------------------------------------------------------------------------
\* The types of the variables; the indexes stay within the ring and at the
\* beginning of a frame.
TypeOK ==
    /\ g_ring \in [Places -> Byte \cup {Silence}]
    /\ g_ring_write \in Places /\ g_ring_write % BYTES_PER_FRAME = 0
    /\ g_ring_read \in Places /\ g_ring_read % BYTES_PER_FRAME = 0
    /\ {opened, g_running} \subseteq BOOLEAN
    /\ buffers \in 0 .. NUM_BUFS
    /\ sent \in Byte
    /\ emu \in Call /\ cb \in Call
    /\ data \in [1 .. Capacity -> Byte \cup {Silence}]

\* While ring_write and ring_read both copy, they copy different bytes: neither
\* memcpy touches what the other does.
CopiesApart ==
    ("copy" \in emu.todo /\ "copy" \in cb.todo)
        => Region(emu) \cap Region(cb) = {}

\* What leuae_audio_submit counted as free still is when it moves the index:
\* the callback can only have made more room.
RoomKept ==
    "index" \in emu.todo =>
        /\ emu.at = g_ring_write
        /\ emu.bytes > 0 /\ emu.bytes % BYTES_PER_FRAME = 0
        /\ ring_available + emu.bytes + BYTES_PER_FRAME <= RING_SIZE

\* What the callback counted as filled still is when it moves the index.
BytesKept ==
    "index" \in cb.todo =>
        /\ cb.at = g_ring_read
        /\ cb.bytes % BYTES_PER_FRAME = 0
        /\ cb.bytes <= ring_available /\ cb.bytes <= Capacity

\* Where the stores keep their order, a side that still copies has not moved
\* its index.
IndexLast ==
    InOrder => \A call \in {emu, cb} :
                   "copy" \in call.todo => "index" \in call.todo

\* CoreAudio has the buffers, but for the one the callback fills, and a closed
\* output is at rest.
BuffersKept ==
    /\ ~Idle(cb) => "enqueue" \in cb.todo /\ buffers < NUM_BUFS
    /\ g_running => opened
    /\ ~opened => Idle(cb)

\* Why the indexes need no lock: what one thread found out about the other's
\* index stays true, or becomes truer, until it moves its own.
RingInv == TypeOK /\ RoomKept /\ BytesKept /\ IndexLast /\ BuffersKept

\* Bytes in the ring that no callback has taken, the oldest first.
Waiting ==
    LET first == IF "index" \in cb.todo THEN Place(cb.at, cb.bytes)
                 ELSE g_ring_read
    IN [i \in 1 .. (g_ring_write - first) % RING_SIZE |->
           g_ring[Place(first, i - 1)]]

\* The ring and the callback together are a stream of samples: what a callback
\* finds is in its buffer when it gives that to CoreAudio, in order, with
\* silence only when the ring had no more.
Stream == INSTANCE SampleStream
              WITH Frame    <- BYTES_PER_FRAME,
                   Capacity <- RING_SIZE - BYTES_PER_FRAME,
                   Block    <- Capacity,
                   sent     <- IF "index" \in emu.todo
                               THEN (sent - emu.bytes) % Numbers ELSE sent,
                   stream   <- Waiting,
                   block    <- IF "copy" \in cb.todo THEN Filled(cb) ELSE data
StreamSpec == Stream!Spec

\* The samples of a buffer given to CoreAudio follow one another: there is no
\* crack, and silence only after the last sample.
Seamless ==
    cb.todo = {"enqueue"} =>
        \A i \in 1 .. cb.bytes :
            /\ data[i] # Silence
            /\ i > 1 => data[i] = (data[i - 1] + 1) % Numbers

\* Every sample that was accepted is played unless the output is paused or
\* closed: underruns do not make CoreAudio run out of buffers.
Played ==
    \A n \in Byte :
        (\E i \in DOMAIN Waiting : Waiting[i] = n)
            ~> (~g_running \/ \A i \in DOMAIN Waiting : Waiting[i] # n)
=============================================================================
