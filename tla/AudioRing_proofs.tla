-------------------------- MODULE AudioRing_proofs ---------------------------
(***************************************************************************)
(* Proofs about AudioRing for every size of the ring, of a buffer and of a *)
(* frame, and any number of buffers.                                       *)
(***************************************************************************)
EXTENDS AudioRing, SequenceTheorems, TLAPS

-----------------------------------------------------------------------------
(* Whole frames.                                                           *)

Whole(n) == n % BYTES_PER_FRAME = 0

LEMMA Sizes ==
    /\ BYTES_PER_FRAME \in Nat /\ BYTES_PER_FRAME > 0
    /\ RING_SIZE \in Nat /\ RING_SIZE >= BYTES_PER_FRAME /\ Whole(RING_SIZE)
    /\ Capacity \in Nat /\ Capacity > 0 /\ Whole(Capacity)
    /\ NUM_BUFS \in Nat /\ NUM_BUFS > 0 /\ MaxFrames \in Nat
<1>1. /\ BYTES_PER_FRAME \in Nat /\ BYTES_PER_FRAME > 0
      /\ RING_SIZE \in Nat /\ RING_SIZE > 0 /\ Whole(RING_SIZE)
      /\ Capacity \in Nat /\ Capacity > 0 /\ Whole(Capacity)
      /\ NUM_BUFS \in Nat /\ NUM_BUFS > 0 /\ MaxFrames \in Nat
  BY AudioAssumption, SMT DEF Whole
<1>2. RING_SIZE < BYTES_PER_FRAME => RING_SIZE % BYTES_PER_FRAME = RING_SIZE
  <2> DEFINE p == RING_SIZE \div BYTES_PER_FRAME
             r == RING_SIZE % BYTES_PER_FRAME
  <2>1. /\ p \in Nat /\ r \in 0 .. BYTES_PER_FRAME - 1
        /\ RING_SIZE = BYTES_PER_FRAME * p + r
    BY <1>1, SMT
  <2> HIDE DEF p, r
  <2>2. p > 0 => BYTES_PER_FRAME * p >= BYTES_PER_FRAME  BY <1>1, <2>1, SMT
  <2>3. p = 0 => r = RING_SIZE  BY <1>1, <2>1, SMT
  <2> QED  BY <1>1, <2>1, <2>2, <2>3, SMT DEF r
<1> QED  BY <1>1, <1>2, SMT DEF Whole

\* A number of bytes is whole frames when it is some number of frames.
LEMMA WholeIs ==
    ASSUME NEW n \in Int
    PROVE  Whole(n) <=> \E k \in Int : n = BYTES_PER_FRAME * k
<1> DEFINE B == BYTES_PER_FRAME
           p == n \div B
           r == n % B
<1>1. B \in Nat /\ B > 0  BY Sizes
<1>2. p \in Int /\ r \in 0 .. B - 1 /\ n = B * p + r  BY <1>1, SMT
<1>3. Whole(n) <=> r = 0  BY DEF Whole
<1> HIDE DEF B, p, r
<1>4. ASSUME r = 0 PROVE \E k \in Int : n = B * k
  BY <1>1, <1>2, <1>4, SMT
<1>5. ASSUME NEW k \in Int, n = B * k PROVE r = 0
  <2>1. r = B * (k - p)  BY <1>1, <1>2, <1>5, SMT
  <2>2. k - p > 0 => B * (k - p) >= B  BY <1>1, <1>2, SMT
  <2>3. k - p < 0 => B * (k - p) < 0  BY <1>1, <1>2, SMT
  <2> QED  BY <1>1, <1>2, <2>1, <2>2, <2>3, SMT
<1> QED  BY <1>3, <1>4, <1>5 DEF B

\* Whole frames stay whole in sums and differences.
LEMMA WholeSums ==
    ASSUME NEW m \in Int, NEW n \in Int, Whole(m), Whole(n)
    PROVE  Whole(m + n) /\ Whole(m - n)
<1>1. PICK j \in Int : m = BYTES_PER_FRAME * j  BY WholeIs
<1>2. PICK k \in Int : n = BYTES_PER_FRAME * k  BY WholeIs
<1>3. /\ m + n = BYTES_PER_FRAME * (j + k)
      /\ m - n = BYTES_PER_FRAME * (j - k)
  BY <1>1, <1>2, Sizes, SMT
<1> QED  BY <1>3, WholeIs, SMT

\* Rounding down to whole frames leaves whole frames alone.
LEMMA WholeStays ==
    ASSUME NEW n \in Nat, Whole(n)
    PROVE  (n \div BYTES_PER_FRAME) * BYTES_PER_FRAME = n
<1> DEFINE B == BYTES_PER_FRAME
           p == n \div B
<1>1. B \in Nat /\ B > 0  BY Sizes
<1>2. p \in Int /\ n = B * p + (n % B)  BY <1>1, SMT
<1>3. n % B = 0  BY DEF Whole
<1> HIDE DEF p
<1>4. p * B = n  BY <1>1, <1>2, <1>3, SMT
<1> QED  BY <1>4 DEF p

\* Two amounts of whole frames differ by a frame at least.
LEMMA FrameApart ==
    ASSUME NEW m \in Int, NEW n \in Int, Whole(m), Whole(n), m < n
    PROVE  m + BYTES_PER_FRAME <= n
<1>1. PICK j \in Int : m = BYTES_PER_FRAME * j  BY WholeIs
<1>2. PICK k \in Int : n = BYTES_PER_FRAME * k  BY WholeIs
<1>3. k <= j => BYTES_PER_FRAME * k <= BYTES_PER_FRAME * j
  BY Sizes, SMT
<1>4. k > j => BYTES_PER_FRAME * k >= BYTES_PER_FRAME * j + BYTES_PER_FRAME
  <2>1. BYTES_PER_FRAME * k - BYTES_PER_FRAME * j = BYTES_PER_FRAME * (k - j)
    BY Sizes, SMT
  <2>2. k > j => BYTES_PER_FRAME * (k - j) >= BYTES_PER_FRAME
    BY Sizes, SMT
  <2>3. /\ BYTES_PER_FRAME * k \in Int /\ BYTES_PER_FRAME * j \in Int
        /\ BYTES_PER_FRAME * (k - j) \in Int
    BY Sizes, SMT
  <2> QED  BY <2>1, <2>2, <2>3, Sizes, SMT
<1> QED  BY <1>1, <1>2, <1>3, <1>4, Sizes, SMT

-----------------------------------------------------------------------------
(* Places of the ring.                                                     *)

\* Up to one round away on either side, the remainder is one round off.
LEMMA RoundOf ==
    ASSUME NEW m \in Nat, m > 0, NEW n \in Int, n >= -m, n < 2 * m
    PROVE  n % m = IF n < 0 THEN n + m ELSE IF n < m THEN n ELSE n - m
<1> DEFINE p == n \div m
           r == n % m
<1>1. p \in Int /\ r \in 0 .. m - 1 /\ n = m * p + r  BY SMT
<1> HIDE DEF p, r
<1>2. CASE p = 0  BY <1>1, <1>2, SMT DEF r
<1>3. CASE p = 1  BY <1>1, <1>3, SMT DEF r
<1>4. CASE p = -1  BY <1>1, <1>4, SMT DEF r
<1>5. CASE p > 1
  <2>1. m * (p - 2) >= 0 /\ m * (p - 2) = m * p - 2 * m  BY <1>1, <1>5, SMT
  <2> QED  BY <2>1, <1>1, SMT
<1>6. CASE p < -1
  <2>1. m * (p + 2) <= 0 /\ m * (p + 2) = m * p + 2 * m  BY <1>1, <1>6, SMT
  <2> QED  BY <2>1, <1>1, SMT
<1> QED  BY <1>1, <1>2, <1>3, <1>4, <1>5, <1>6, SMT

LEMMA OneRound ==
    ASSUME NEW n \in Int, n >= -RING_SIZE, n < 2 * RING_SIZE
    PROVE  n % RING_SIZE = IF n < 0 THEN n + RING_SIZE
                           ELSE IF n < RING_SIZE THEN n ELSE n - RING_SIZE
<1>1. RING_SIZE \in Nat /\ RING_SIZE > 0  BY Sizes, SMT
<1> QED  BY <1>1, RoundOf

\* The place of the ring some bytes after a place.
LEMMA PlaceIs ==
    ASSUME NEW at \in Places, NEW i \in 0 .. RING_SIZE
    PROVE  /\ Place(at, i) \in Places
           /\ Place(at, i) = IF at + i < RING_SIZE THEN at + i
                                                  ELSE at + i - RING_SIZE
           /\ Whole(at) /\ Whole(i) => Whole(Place(at, i))
<1>1. /\ RING_SIZE \in Nat /\ RING_SIZE > 0 /\ Whole(RING_SIZE)
      /\ at \in Nat /\ at < RING_SIZE /\ i \in Nat /\ i <= RING_SIZE
  BY Sizes, SMT DEF Places
<1>2. Place(at, i) = IF at + i < RING_SIZE THEN at + i ELSE at + i - RING_SIZE
  BY <1>1, OneRound, SMT DEF Place
<1>3. ASSUME Whole(at), Whole(i) PROVE Whole(Place(at, i))
  <2>1. Whole(at + i)  BY <1>1, <1>3, WholeSums
  <2>2. Whole(at + i - RING_SIZE)
    <3>1. at + i \in Int /\ RING_SIZE \in Int  BY <1>1, SMT
    <3> QED  BY <1>1, <2>1, <3>1, WholeSums
  <2> QED  BY <1>2, <2>1, <2>2
<1> QED  BY <1>1, <1>2, <1>3, SMT DEF Places

\* What is in the ring is whole frames, and less than the whole ring.
LEMMA AvailableIs ==
    ASSUME g_ring_write \in Places, g_ring_read \in Places,
           Whole(g_ring_write), Whole(g_ring_read)
    PROVE  ring_available \in Places /\ Whole(ring_available)
<1>1. /\ RING_SIZE \in Nat /\ Whole(RING_SIZE)
      /\ g_ring_write \in Int /\ g_ring_read \in Int
      /\ RING_SIZE \in Int /\ RING_SIZE - g_ring_read \in Int
  BY Sizes, SMT DEF Places
<1>2. /\ Whole(g_ring_write - g_ring_read)
      /\ Whole(RING_SIZE - g_ring_read)
  BY <1>1, WholeSums
<1>3. Whole(RING_SIZE - g_ring_read + g_ring_write)
  BY <1>1, <1>2, WholeSums
<1>4. ring_available \in Places
  BY Sizes, SMT DEF ring_available, Places
<1> QED  BY <1>2, <1>3, <1>4 DEF ring_available

-----------------------------------------------------------------------------
(* The inductive invariant.                                                *)

\* The types in pieces, so that each prover sees what it can use.
LEMMA Types ==
    ASSUME TypeOK
    PROVE  /\ g_ring \in [Places -> Byte \cup {Silence}]
           /\ g_ring_write \in Places /\ Whole(g_ring_write)
           /\ g_ring_read \in Places /\ Whole(g_ring_read)
           /\ opened \in BOOLEAN /\ g_running \in BOOLEAN
           /\ buffers \in 0 .. NUM_BUFS /\ sent \in Byte
           /\ emu.todo \in SUBSET {"copy", "index", "enqueue"}
           /\ emu.at \in Places /\ emu.bytes \in 0 .. RING_SIZE
           /\ cb.todo \in SUBSET {"copy", "index", "enqueue"}
           /\ cb.at \in Places /\ cb.bytes \in 0 .. RING_SIZE
           /\ data \in [1 .. Capacity -> Byte \cup {Silence}]
  BY DEF TypeOK, Call, Whole

\* A number that has come round is one of the numbers of sample bytes.
LEMMA NumbersCome ==
    ASSUME NEW n \in Int
    PROVE  n % Numbers \in Byte
<1>1. Numbers \in Nat /\ Numbers > 0  BY Sizes, SMT DEF Numbers
<1> HIDE DEF Numbers
<1> QED  BY <1>1, SMT DEF Byte

\* What leuae_audio_submit takes is whole frames already: the rounding only
\* matters for a number of frames that overflows.
LEMMA SubmitIs ==
    ASSUME RingInv, NEW n \in 1 .. MaxFrames, leuae_audio_submit(n)
    PROVE  \E bytes \in 1 .. RING_SIZE :
               /\ Whole(bytes)
               /\ ring_available + bytes + BYTES_PER_FRAME <= RING_SIZE
               /\ emu' = [todo |-> {"copy", "index"}, at |-> g_ring_write,
                          bytes |-> bytes]
               /\ sent' = (sent + bytes) % Numbers
<1> DEFINE bytes == Least(n * BYTES_PER_FRAME, Room)
<1>1. /\ ring_available \in Places /\ Whole(ring_available)
      /\ Room = RING_SIZE - ring_available - BYTES_PER_FRAME
  BY AvailableIs, Types DEF RingInv, Room
<1>2. ring_available \in Int /\ RING_SIZE \in Int /\ BYTES_PER_FRAME \in Int
  BY <1>1, Sizes, SMT DEF Places
<1>3. Whole(n * BYTES_PER_FRAME) /\ n * BYTES_PER_FRAME \in Int
  <2>1. n * BYTES_PER_FRAME = BYTES_PER_FRAME * n /\ n \in Int
    BY <1>2, SMT
  <2>2. BYTES_PER_FRAME * n \in Int  BY <1>2, SMT
  <2> QED  BY <2>1, <2>2, WholeIs
<1>4. Whole(Room) /\ Room \in Int
  <2>1. Whole(RING_SIZE - ring_available)  BY <1>1, <1>2, Sizes, WholeSums
  <2>2. Whole(BYTES_PER_FRAME)
    <3>1. BYTES_PER_FRAME = BYTES_PER_FRAME * 1  BY <1>2, SMT
    <3> QED  BY <1>2, <3>1, WholeIs
  <2>3. RING_SIZE - ring_available \in Int  BY <1>2, SMT
  <2> QED  BY <1>1, <1>2, <2>1, <2>2, <2>3, WholeSums, SMT
<1>5. bytes > 0  BY DEF leuae_audio_submit
<1>6. Whole(bytes) /\ bytes \in Int /\ bytes <= Room
  <2>1. bytes = n * BYTES_PER_FRAME \/ bytes = Room  BY DEF Least
  <2>2. bytes <= Room  BY <1>3, <1>4, SMT DEF Least
  <2> QED  BY <1>3, <1>4, <2>1, <2>2
<1> HIDE DEF bytes
<1>7. bytes \in Nat  BY <1>5, <1>6, SMT
<1>8. (bytes \div BYTES_PER_FRAME) * BYTES_PER_FRAME = bytes
  BY <1>6, <1>7, WholeStays
<1>9. /\ emu' = [todo |-> {"copy", "index"}, at |-> g_ring_write,
                 bytes |-> bytes]
      /\ sent' = (sent + bytes) % Numbers
  BY <1>8 DEF leuae_audio_submit, bytes
<1>10. /\ bytes \in 1 .. RING_SIZE
       /\ ring_available + bytes + BYTES_PER_FRAME <= RING_SIZE
  <2>1. ring_available >= 0  BY <1>1, Sizes, SMT DEF Places
  <2> QED  BY <1>1, <1>2, <1>5, <1>6, <2>1, Sizes, SMT
<1> QED  BY <1>6, <1>9, <1>10

\* A new output is empty and at rest.
LEMMA InitRingInv == Init => RingInv
<1> SUFFICES ASSUME Init PROVE RingInv  OBVIOUS
<1>1. /\ 0 \in Places /\ 0 \in Byte /\ Whole(0) /\ 0 \in 0 .. RING_SIZE
      /\ 0 \in 0 .. NUM_BUFS
  <2>1. Whole(0)
    <3>1. 0 = BYTES_PER_FRAME * 0 /\ 0 \in Int  BY Sizes, SMT
    <3> QED  BY <3>1, WholeIs
  <2> QED  BY <2>1, Sizes, SMT DEF Places, Byte, Numbers
<1>2. NoCall \in Call /\ NoCall.todo = {}  BY <1>1 DEF NoCall, Call
<1>3. TypeOK  BY <1>1, <1>2 DEF Init, TypeOK, Whole, Silent
<1>4. RoomKept /\ BytesKept /\ IndexLast
  BY <1>2 DEF Init, RoomKept, BytesKept, IndexLast
<1>5. BuffersKept  BY <1>2 DEF Init, BuffersKept, Idle
<1> QED  BY <1>3, <1>4, <1>5 DEF RingInv

\* When ring_write moves its index there is more in the ring by what it
\* copied, and not more than there is room for.
LEMMA WriteIndexMoves ==
    ASSUME RingInv, WriteIndex
    PROVE  /\ g_ring_write' \in Places /\ Whole(g_ring_write')
           /\ g_ring_read' = g_ring_read
           /\ ring_available' = ring_available + emu.bytes
           /\ g_ring_write' = IF g_ring_write + emu.bytes < RING_SIZE
                              THEN g_ring_write + emu.bytes
                              ELSE g_ring_write + emu.bytes - RING_SIZE
<1>1. /\ emu.at = g_ring_write /\ emu.bytes > 0 /\ Whole(emu.bytes)
      /\ ring_available + emu.bytes + BYTES_PER_FRAME <= RING_SIZE
      /\ g_ring_write' = Place(emu.at, emu.bytes)
      /\ g_ring_read' = g_ring_read
  BY DEF RingInv, RoomKept, WriteIndex, Whole
<1>2. /\ g_ring_write \in Places /\ Whole(g_ring_write)
      /\ g_ring_read \in Places /\ emu.bytes \in 0 .. RING_SIZE
  BY Types DEF RingInv
<1>3. /\ g_ring_write' \in Places /\ Whole(g_ring_write')
      /\ g_ring_write' = IF g_ring_write + emu.bytes < RING_SIZE
                         THEN g_ring_write + emu.bytes
                         ELSE g_ring_write + emu.bytes - RING_SIZE
  BY <1>1, <1>2, PlaceIs
<1>4. ring_available' = ring_available + emu.bytes
  BY <1>1, <1>2, <1>3, Sizes, SMT DEF ring_available, Places
<1> QED  BY <1>1, <1>3, <1>4

\* When the callback moves its index there is less in the ring by what it
\* copied.
LEMMA CallbackIndexMoves ==
    ASSUME RingInv, CallbackIndex
    PROVE  /\ g_ring_read' \in Places /\ Whole(g_ring_read')
           /\ g_ring_write' = g_ring_write
           /\ ring_available' = ring_available - cb.bytes
           /\ g_ring_read' = Place(cb.at, cb.bytes)
<1>1. /\ cb.at = g_ring_read /\ Whole(cb.bytes)
      /\ cb.bytes <= ring_available
      /\ g_ring_read' = Place(cb.at, cb.bytes)
      /\ g_ring_write' = g_ring_write
  BY DEF RingInv, BytesKept, CallbackIndex, Whole
<1>2. /\ g_ring_read \in Places /\ Whole(g_ring_read)
      /\ g_ring_write \in Places /\ cb.bytes \in 0 .. RING_SIZE
  BY Types DEF RingInv
<1>3. /\ g_ring_read' \in Places /\ Whole(g_ring_read')
      /\ g_ring_read' = IF g_ring_read + cb.bytes < RING_SIZE
                        THEN g_ring_read + cb.bytes
                        ELSE g_ring_read + cb.bytes - RING_SIZE
  BY <1>1, <1>2, PlaceIs
<1>4. ring_available' = ring_available - cb.bytes
  BY <1>1, <1>2, <1>3, Sizes, SMT DEF ring_available, Places
<1> QED  BY <1>1, <1>3, <1>4

\* leuae_audio_submit has not written anything yet.
LEMMA SubmitKeeps ==
    ASSUME RingInv, NEW n \in 1 .. MaxFrames, leuae_audio_submit(n)
    PROVE  RingInv'
<1>1. PICK bytes \in 1 .. RING_SIZE :
          /\ Whole(bytes)
          /\ ring_available + bytes + BYTES_PER_FRAME <= RING_SIZE
          /\ emu' = [todo |-> {"copy", "index"}, at |-> g_ring_write,
                     bytes |-> bytes]
          /\ sent' = (sent + bytes) % Numbers
  BY SubmitIs
<1>2. UNCHANGED <<g_ring, g_ring_write, g_ring_read, opened, g_running, buffers,
                  cb, data>>
  BY DEF leuae_audio_submit, ring, queue
<1>3. sent' \in Byte
  <2>1. sent + bytes \in Int  BY Types, Sizes, SMT DEF RingInv, Byte, Numbers
  <2> QED  BY <1>1, <2>1, NumbersCome
<1>4. emu' \in Call
  <2>1. g_ring_write \in Places /\ bytes \in 0 .. RING_SIZE
    BY Types, Sizes, SMT DEF RingInv
  <2> QED  BY <1>1, <2>1 DEF Call
<1>5. TypeOK'  BY <1>2, <1>3, <1>4 DEF RingInv, TypeOK
<1>6. ring_available' = ring_available  BY <1>2 DEF ring_available
<1>7. RoomKept'
  <2>1. /\ emu'.at = g_ring_write /\ emu'.bytes = bytes
        /\ bytes > 0
    BY <1>1, Sizes, SMT
  <2> QED  BY <1>1, <1>2, <1>6, <2>1 DEF RoomKept, Whole
<1>8. BytesKept'  BY <1>2, <1>6 DEF RingInv, BytesKept
<1>9. IndexLast'  BY <1>1, <1>2 DEF RingInv, IndexLast
<1>10. BuffersKept'  BY <1>2 DEF RingInv, BuffersKept, Idle
<1> QED  BY <1>5, <1>7, <1>8, <1>9, <1>10 DEF RingInv

\* Both parts of ring_write.
LEMMA WritesKeep == ASSUME RingInv, Writes PROVE RingInv'
<1>1. UNCHANGED <<g_ring_read, opened, g_running, buffers, sent, cb, data>>
  BY DEF Writes, WriteCopies, WriteIndex, queue
<1>2. /\ emu' = [emu EXCEPT !.todo = emu'.todo]
      /\ emu'.todo \in SUBSET emu.todo
      /\ emu'.at = emu.at /\ emu'.bytes = emu.bytes
      /\ emu' \in Call
  BY DEF Writes, WriteCopies, WriteIndex, RingInv, TypeOK, Call
<1>3. CASE WriteCopies
  <2>1. /\ UNCHANGED <<g_ring_write>>
        /\ emu'.todo = emu.todo \ {"copy"}
    BY <1>3 DEF WriteCopies, RingInv, TypeOK, Call
  <2>2. g_ring' \in [Places -> Byte \cup {Silence}]
    <3> DEFINE at(p) == (p - emu.at) % RING_SIZE
               num(p) == (sent - emu.bytes + at(p)) % Numbers
    <3>1. ASSUME NEW p \in Places PROVE num(p) \in Byte
      <4>1. /\ p \in Int /\ emu.at \in Int /\ emu.bytes \in Int /\ sent \in Int
            /\ RING_SIZE \in Nat /\ RING_SIZE > 0
        BY <3>1, Types, Sizes, SMT DEF RingInv, Places, Byte, Numbers
      <4>2. at(p) \in Int  BY <4>1, SMT
      <4>3. sent - emu.bytes + at(p) \in Int
        <5> HIDE DEF at
        <5> QED  BY <4>1, <4>2, SMT
      <4> QED  BY <4>3, NumbersCome
    <3>2. g_ring' = [p \in Places |-> IF at(p) < emu.bytes THEN num(p)
                                      ELSE g_ring[p]]
      BY <1>3 DEF WriteCopies
    <3>3. \A p \in Places : g_ring[p] \in Byte \cup {Silence}
      BY Types DEF RingInv
    <3> HIDE DEF at, num
    <3> QED  BY <3>1, <3>2, <3>3
  <2>3. TypeOK'  BY <1>1, <1>2, <2>1, <2>2 DEF RingInv, TypeOK
  <2>4. RoomKept' /\ BytesKept'
    BY <1>1, <1>2, <2>1 DEF RingInv, RoomKept, BytesKept, ring_available
  <2>5. IndexLast'  BY <1>1, <2>1 DEF RingInv, IndexLast
  <2>6. BuffersKept'  BY <1>1 DEF RingInv, BuffersKept, Idle
  <2> QED  BY <2>3, <2>4, <2>5, <2>6 DEF RingInv
<1>4. CASE WriteIndex
  <2>1. /\ UNCHANGED <<g_ring>>
        /\ emu'.todo = emu.todo \ {"index"}
        /\ InOrder => "copy" \notin emu.todo
    BY <1>4 DEF WriteIndex, RingInv, TypeOK, Call
  <2>2. /\ g_ring_write' \in Places /\ Whole(g_ring_write')
        /\ ring_available' = ring_available + emu.bytes
    BY <1>4, WriteIndexMoves
  <2>3. TypeOK'  BY <1>1, <1>2, <2>1, <2>2 DEF RingInv, TypeOK, Whole
  <2>4. RoomKept'  BY <2>1 DEF RoomKept
  <2>5. BytesKept'
    <3>1. ring_available \in Int /\ emu.bytes \in Nat
      BY Types, AvailableIs, Sizes, SMT DEF RingInv, Places
    <3>2. /\ "index" \in cb.todo => cb.bytes <= ring_available
          /\ cb.bytes \in Int
      BY Types, Sizes, SMT DEF RingInv, BytesKept
    <3>3. "index" \in cb.todo => cb.bytes <= ring_available'
      BY <2>2, <3>1, <3>2, SMT
    <3> QED  BY <1>1, <3>3 DEF RingInv, BytesKept
  <2>6. IndexLast'  BY <1>1, <2>1 DEF RingInv, IndexLast
  <2>7. BuffersKept'  BY <1>1 DEF RingInv, BuffersKept, Idle
  <2> QED  BY <2>3, <2>4, <2>5, <2>6, <2>7 DEF RingInv
<1> QED  BY <1>3, <1>4 DEF Writes

\* audio_callback takes what is there, a buffer at most.
LEMMA BeginCallbackKeeps ==
    ASSUME RingInv, audio_callback
    PROVE  RingInv' /\ cb'.bytes = Least(ring_available, Capacity)
<1>1. /\ UNCHANGED <<g_ring, g_ring_write, g_ring_read, opened, g_running, sent,
                     emu, data>>
      /\ buffers' = buffers - 1 /\ buffers > 0 /\ g_running
      /\ cb' = [todo |-> {"copy", "index", "enqueue"}, at |-> g_ring_read,
                bytes |-> Least(ring_available, Capacity)]
  BY DEF audio_callback, ring
<1>2. ring_available \in Places /\ Whole(ring_available)
  BY Types, AvailableIs DEF RingInv
<1>3. /\ Least(ring_available, Capacity) \in 0 .. RING_SIZE
      /\ Whole(Least(ring_available, Capacity))
      /\ Least(ring_available, Capacity) <= ring_available
      /\ Least(ring_available, Capacity) <= Capacity
  <2>1. CASE ring_available < Capacity
    BY <1>2, <2>1, Sizes, SMT DEF Least, Places
  <2>2. CASE ~ (ring_available < Capacity)
    <3>1. Least(ring_available, Capacity) = Capacity  BY <2>2 DEF Least
    <3> QED  BY <1>2, <2>2, <3>1, Sizes, SMT DEF Places
  <2> QED  BY <2>1, <2>2
<1>4. buffers' \in 0 .. NUM_BUFS /\ buffers' < NUM_BUFS
  BY <1>1, Types, Sizes, SMT DEF RingInv
<1>5. /\ cb'.todo = {"copy", "index", "enqueue"} /\ cb'.at = g_ring_read
      /\ cb'.bytes = Least(ring_available, Capacity)
  BY <1>1
<1>6. TypeOK'
  <2>1. cb' \in Call  BY <1>1, <1>3, Types DEF RingInv, Call
  <2> QED  BY <1>1, <1>4, <2>1 DEF RingInv, TypeOK
<1>7. ring_available' = ring_available  BY <1>1 DEF ring_available
<1>8. RoomKept'  BY <1>1, <1>7 DEF RingInv, RoomKept
<1>9. BytesKept'  BY <1>1, <1>3, <1>5, <1>7 DEF BytesKept, Whole
<1>10. IndexLast'  BY <1>1, <1>5 DEF RingInv, IndexLast
<1>11. BuffersKept'  BY <1>1, <1>4, <1>5 DEF RingInv, BuffersKept
<1> QED  BY <1>5, <1>6, <1>8, <1>9, <1>10, <1>11 DEF RingInv

\* The callback under way.
LEMMA CallbackKeeps == ASSUME RingInv, Callback PROVE RingInv'
<1>1. UNCHANGED <<g_ring, g_ring_write, opened, g_running, sent, emu>>
  BY DEF Callback, CallbackCopies, CallbackIndex, CallbackEnqueues, ring, queue
<1>2. CASE CallbackCopies
  <2>1. /\ UNCHANGED <<g_ring_read, buffers>>
        /\ cb' = [cb EXCEPT !.todo = cb.todo \ {"copy"}]
        /\ data' = Filled(cb)
    BY <1>2 DEF CallbackCopies, ring, queue
  <2>2. /\ cb'.todo = cb.todo \ {"copy"} /\ cb'.at = cb.at
        /\ cb'.bytes = cb.bytes /\ cb' \in Call
    BY <2>1 DEF RingInv, TypeOK, Call
  <2>3. data' \in [1 .. Capacity -> Byte \cup {Silence}]
    <3>1. ASSUME NEW i \in 1 .. Capacity, i <= cb.bytes
          PROVE  g_ring[Place(cb.at, i - 1)] \in Byte \cup {Silence}
      <4>1. /\ i - 1 \in 0 .. RING_SIZE /\ cb.at \in Places
        BY <3>1, Types, Sizes, SMT DEF RingInv
      <4>2. Place(cb.at, i - 1) \in Places  BY <4>1, PlaceIs
      <4> QED  BY <4>2, Types DEF RingInv
    <3> QED  BY <2>1, <3>1 DEF Filled
  <2>4. TypeOK'  BY <1>1, <2>1, <2>2, <2>3 DEF RingInv, TypeOK
  <2>5. ring_available' = ring_available  BY <1>1, <2>1 DEF ring_available
  <2>6. RoomKept'  BY <1>1, <2>5 DEF RingInv, RoomKept
  <2>7. BytesKept'  BY <2>1, <2>2, <2>5 DEF RingInv, BytesKept
  <2>8. IndexLast'  BY <1>1, <2>2 DEF RingInv, IndexLast
  <2>9. BuffersKept'  BY <1>1, <2>1, <2>2 DEF RingInv, BuffersKept, Idle
  <2> QED  BY <2>4, <2>6, <2>7, <2>8, <2>9 DEF RingInv
<1>3. CASE CallbackIndex
  <2>1. /\ UNCHANGED <<buffers, data>>
        /\ cb' = [cb EXCEPT !.todo = cb.todo \ {"index"}]
        /\ InOrder => "copy" \notin cb.todo
    BY <1>3 DEF CallbackIndex, queue
  <2>2. /\ cb'.todo = cb.todo \ {"index"} /\ cb'.at = cb.at
        /\ cb'.bytes = cb.bytes /\ cb' \in Call
    BY <2>1 DEF RingInv, TypeOK, Call
  <2>3. /\ g_ring_read' \in Places /\ Whole(g_ring_read')
        /\ ring_available' = ring_available - cb.bytes
    BY <1>3, CallbackIndexMoves
  <2>4. TypeOK'  BY <1>1, <2>1, <2>2, <2>3 DEF RingInv, TypeOK, Whole
  <2>5. RoomKept'
    <3>1. /\ ring_available \in Int /\ cb.bytes \in Nat
          /\ emu.bytes \in Int
      BY Types, AvailableIs, Sizes, SMT DEF RingInv, Places
    <3>2. "index" \in emu.todo =>
              ring_available + emu.bytes + BYTES_PER_FRAME <= RING_SIZE
      BY DEF RingInv, RoomKept
    <3>3. "index" \in emu.todo =>
              ring_available' + emu.bytes + BYTES_PER_FRAME <= RING_SIZE
      BY <2>3, <3>1, <3>2, Sizes, SMT
    <3> QED  BY <1>1, <3>3 DEF RingInv, RoomKept
  <2>6. BytesKept'  BY <2>2 DEF BytesKept
  <2>7. IndexLast'  BY <1>1, <2>1, <2>2 DEF RingInv, IndexLast
  <2>8. BuffersKept'  BY <1>1, <2>1, <2>2 DEF RingInv, BuffersKept, Idle
  <2> QED  BY <2>4, <2>5, <2>6, <2>7, <2>8 DEF RingInv
<1>4. CASE CallbackEnqueues
  <2>1. /\ UNCHANGED <<g_ring_read, data>>
        /\ cb' = NoCall /\ buffers' = buffers + 1 /\ ~Idle(cb)
    BY <1>4 DEF CallbackEnqueues, ring, Idle
  <2>2. buffers' \in 0 .. NUM_BUFS
    BY <2>1, Types, Sizes, SMT DEF RingInv, BuffersKept
  <2>3. cb' \in Call /\ cb'.todo = {}
    BY <2>1, Sizes, SMT DEF NoCall, Call, Places
  <2>4. TypeOK'  BY <1>1, <2>1, <2>2, <2>3 DEF RingInv, TypeOK
  <2>5. ring_available' = ring_available  BY <1>1, <2>1 DEF ring_available
  <2>6. RoomKept'  BY <1>1, <2>5 DEF RingInv, RoomKept
  <2>7. BytesKept' /\ BuffersKept'
    BY <1>1, <2>3 DEF RingInv, BytesKept, BuffersKept, Idle
  <2>8. IndexLast'  BY <1>1, <2>3 DEF RingInv, IndexLast
  <2> QED  BY <2>4, <2>6, <2>7, <2>8 DEF RingInv
<1> QED  BY <1>2, <1>3, <1>4 DEF Callback

\* Control steps find the emulation thread between two calls of
\* leuae_audio_submit.
LEMMA ControlKeeps == ASSUME RingInv, Control PROVE RingInv'
<1>1. Idle(emu) /\ UNCHANGED <<emu, cb, data>>
  BY DEF Control, leuae_audio_init, leuae_audio_stop, leuae_audio_resume,
         leuae_audio_close
<1>2. RoomKept'  BY <1>1 DEF RoomKept, Idle
<1>3. IndexLast'  BY <1>1 DEF RingInv, IndexLast
<1>4. CASE leuae_audio_init
  <2>1. /\ ~opened /\ g_ring' = [p \in Places |-> Silence]
        /\ g_ring_write' = 0 /\ g_ring_read' = 0 /\ sent' = 0
    BY <1>4 DEF leuae_audio_init
  <2>2. PICK started \in BOOLEAN :
            /\ opened' = started /\ g_running' = started
            /\ buffers' = IF started THEN NUM_BUFS ELSE 0
    BY <1>4 DEF leuae_audio_init
  <2>3. Idle(cb)  BY <2>1 DEF RingInv, BuffersKept
  <2>4. /\ 0 \in Places /\ 0 \in Byte /\ Whole(0) /\ buffers' \in 0 .. NUM_BUFS
    <3>1. 0 = BYTES_PER_FRAME * 0 /\ 0 \in Int  BY Sizes, SMT
    <3>2. Whole(0)  BY <3>1, WholeIs
    <3> QED  BY <2>2, <3>2, Sizes, SMT DEF Places, Byte, Numbers
  <2>5. TypeOK'  BY <1>1, <2>1, <2>2, <2>4 DEF RingInv, TypeOK, Whole
  <2>6. BytesKept'  BY <1>1, <2>3 DEF BytesKept, Idle
  <2>7. BuffersKept'  BY <1>1, <2>2, <2>3 DEF BuffersKept, Idle
  <2> QED  BY <1>2, <1>3, <2>5, <2>6, <2>7 DEF RingInv
<1>5. CASE leuae_audio_stop \/ leuae_audio_resume
  <2>1. /\ opened /\ g_running' \in BOOLEAN
        /\ UNCHANGED <<g_ring, g_ring_write, g_ring_read, opened, buffers, sent>>
    BY <1>5 DEF leuae_audio_stop, leuae_audio_resume, ring
  <2>2. TypeOK'  BY <1>1, <2>1 DEF RingInv, TypeOK
  <2>3. BytesKept'
    BY <1>1, <2>1 DEF RingInv, BytesKept, ring_available
  <2>4. BuffersKept'  BY <1>1, <2>1 DEF RingInv, BuffersKept, Idle
  <2> QED  BY <1>2, <1>3, <2>2, <2>3, <2>4 DEF RingInv
<1>6. CASE leuae_audio_close
  <2>1. /\ Idle(cb) /\ opened' = FALSE /\ g_running' = FALSE /\ buffers' = 0
        /\ UNCHANGED <<g_ring, g_ring_write, g_ring_read, sent>>
    BY <1>6 DEF leuae_audio_close, ring
  <2>2. 0 \in 0 .. NUM_BUFS  BY Sizes, SMT
  <2>3. TypeOK'  BY <1>1, <2>1, <2>2 DEF RingInv, TypeOK
  <2>4. BytesKept' /\ BuffersKept'
    BY <1>1, <2>1 DEF BytesKept, BuffersKept, Idle
  <2> QED  BY <1>2, <1>3, <2>3, <2>4 DEF RingInv
<1> QED  BY <1>4, <1>5, <1>6 DEF Control

LEMMA NextRingInv == RingInv /\ [Next]_vars => RingInv'
<1> SUFFICES ASSUME RingInv, [Next]_vars PROVE RingInv'  OBVIOUS
<1>1. CASE UNCHANGED vars
  BY <1>1 DEF RingInv, TypeOK, RoomKept, BytesKept, IndexLast, BuffersKept,
              ring_available, Idle, vars
<1> QED  BY <1>1, SubmitKeeps, WritesKeep, BeginCallbackKeeps, CallbackKeeps,
            ControlKeeps
         DEF Next

\* The strengthened invariant: what each thread found out about the other's
\* index holds until it moves its own, for any ring and in whatever order the
\* accesses to memory happen.
THEOREM Inductive == Spec => []RingInv
  BY InitRingInv, NextRingInv, PTL DEF Spec

\* The types, with the indexes at the beginning of a frame.
THEOREM TypeCorrect == Spec => []TypeOK
<1>1. RingInv => TypeOK  BY DEF RingInv
<1> QED  BY <1>1, Inductive, PTL

-----------------------------------------------------------------------------
(* Both threads copy at once.                                              *)

\* The bytes that are written and those that are read lie apart in the ring.
LEMMA RegionsApart ==
    ASSUME RingInv, "index" \in emu.todo, "index" \in cb.todo,
           NEW i \in 0 .. emu.bytes - 1, NEW j \in 0 .. cb.bytes - 1
    PROVE  Place(emu.at, i) # Place(cb.at, j)
<1>1. /\ g_ring_write \in Places /\ g_ring_read \in Places
      /\ emu.bytes \in 0 .. RING_SIZE /\ cb.bytes \in 0 .. RING_SIZE
  BY Types DEF RingInv
<1>2. /\ emu.at = g_ring_write /\ cb.at = g_ring_read
      /\ ring_available + emu.bytes + BYTES_PER_FRAME <= RING_SIZE
      /\ cb.bytes <= ring_available
  BY DEF RingInv, RoomKept, BytesKept
<1>3. i \in 0 .. RING_SIZE /\ j \in 0 .. RING_SIZE  BY <1>1, Sizes, SMT
<1>4. /\ Place(emu.at, i) = IF g_ring_write + i < RING_SIZE
                            THEN g_ring_write + i
                            ELSE g_ring_write + i - RING_SIZE
      /\ Place(cb.at, j) = IF g_ring_read + j < RING_SIZE
                           THEN g_ring_read + j
                           ELSE g_ring_read + j - RING_SIZE
  BY <1>1, <1>2, <1>3, PlaceIs
<1> QED  BY <1>1, <1>2, <1>4, Sizes, SMT DEF ring_available, Places

\* Where stores are seen in their order, the two memcpy never touch the same
\* byte.
THEOREM CopiesNeverMeet == ASSUME InOrder PROVE Spec => []CopiesApart
<1>1. RingInv => CopiesApart
  <2> SUFFICES ASSUME RingInv, "copy" \in emu.todo, "copy" \in cb.todo
               PROVE  Region(emu) \cap Region(cb) = {}
    BY DEF CopiesApart
  <2>1. "index" \in emu.todo /\ "index" \in cb.todo
    BY DEF RingInv, IndexLast
  <2> QED  BY <2>1, RegionsApart DEF Region
<1> QED  BY <1>1, Inductive, PTL

-----------------------------------------------------------------------------
(* The ring is a stream of samples.                                        *)

\* What ring_write has copied is there when its index moves over it.
CopyMade ==
    "index" \in emu.todo /\ "copy" \notin emu.todo =>
        \A i \in 0 .. emu.bytes - 1 :
            g_ring[Place(emu.at, i)] = (sent - emu.bytes + i) % Numbers

\* The place of the oldest byte that no callback has taken.
First == IF "index" \in cb.todo THEN Place(cb.at, cb.bytes) ELSE g_ring_read
Left  == (g_ring_write - First) % RING_SIZE

LEMMA LeftIs ==
    ASSUME RingInv
    PROVE  /\ First \in Places /\ Left \in Places
           /\ Left = IF "index" \in cb.todo THEN ring_available - cb.bytes
                     ELSE ring_available
           /\ Left = IF First <= g_ring_write THEN g_ring_write - First
                     ELSE g_ring_write - First + RING_SIZE
<1>1. /\ g_ring_write \in Places /\ g_ring_read \in Places
      /\ cb.bytes \in 0 .. RING_SIZE
      /\ "index" \in cb.todo =>
             cb.at = g_ring_read /\ cb.bytes <= ring_available
  BY Types DEF RingInv, BytesKept
<1>2. First = IF "index" \in cb.todo
              THEN IF g_ring_read + cb.bytes < RING_SIZE
                   THEN g_ring_read + cb.bytes
                   ELSE g_ring_read + cb.bytes - RING_SIZE
              ELSE g_ring_read
  BY <1>1, PlaceIs DEF First
<1>3. First \in Places  BY <1>1, PlaceIs DEF First
<1>4. /\ g_ring_write - First \in Int /\ g_ring_write - First >= -RING_SIZE
      /\ g_ring_write - First < RING_SIZE
  BY <1>1, <1>3, Sizes, SMT DEF Places
<1>5. Left = IF First <= g_ring_write THEN g_ring_write - First
             ELSE g_ring_write - First + RING_SIZE
  BY <1>1, <1>3, <1>4, OneRound, Sizes, SMT DEF Left, Places
<1>6. Left = IF "index" \in cb.todo THEN ring_available - cb.bytes
             ELSE ring_available
  BY <1>1, <1>2, <1>5, Sizes, SMT DEF ring_available, Places
<1> QED  BY <1>1, <1>3, <1>5, <1>6, Sizes, SMT DEF Places

\* Waiting is a sequence of as many bytes.
LEMMA WaitingIs ==
    ASSUME RingInv
    PROVE  /\ Waiting \in Seq(Byte \cup {Silence}) /\ Len(Waiting) = Left
           /\ Waiting = [i \in 1 .. Left |-> g_ring[Place(First, i - 1)]]
           /\ \A i \in 1 .. Left : /\ Place(First, i - 1) \in Places
                                   /\ Waiting[i] = g_ring[Place(First, i - 1)]
<1>1. /\ Left \in Nat /\ First \in Places
      /\ \A i \in 1 .. Left : i - 1 \in 0 .. RING_SIZE
  BY LeftIs, Sizes, SMT DEF Places
<1>2. \A i \in 1 .. Left : Place(First, i - 1) \in Places
  BY <1>1, PlaceIs
<1>3. Waiting = [i \in 1 .. Left |-> g_ring[Place(First, i - 1)]]
  BY DEF Waiting, First, Left
<1>4. Waiting \in [1 .. Left -> Byte \cup {Silence}]
  BY <1>2, <1>3, Types DEF RingInv
<1>5. Waiting \in Seq(Byte \cup {Silence})  BY <1>1, <1>4, SeqDef
<1>6. Len(Waiting) = Left
  <2> DEFINE m == Len(Waiting)
             n == Left
  <2>1. m \in Nat /\ n \in Nat /\ 1 .. m = 1 .. n
    <3>1. DOMAIN Waiting = 1 .. n  BY <1>3
    <3>2. m \in Nat /\ DOMAIN Waiting = 1 .. m  BY <1>5, LenProperties
    <3> QED  BY <1>1, <3>1, <3>2
  <2> HIDE DEF m, n
  <2>2. m = n  BY <2>1, SMT
  <2> QED  BY <2>2 DEF m, n
<1> QED  BY <1>2, <1>3, <1>5, <1>6

\* Copying makes the bytes of the region what their numbers say and leaves
\* the rest of the ring alone.
LEMMA CopiedIs ==
    ASSUME RingInv, InOrder, WriteCopies
    PROVE  /\ "index" \in emu.todo
           /\ \A i \in 0 .. emu.bytes - 1 :
                  g_ring'[Place(emu.at, i)] = (sent - emu.bytes + i) % Numbers
           /\ \A p \in Places : p \notin Region(emu) => g_ring'[p] = g_ring[p]
<1>1. /\ "copy" \in emu.todo
      /\ g_ring' = [p \in Places |->
                       LET i == (p - emu.at) % RING_SIZE
                       IN IF i < emu.bytes
                          THEN (sent - emu.bytes + i) % Numbers ELSE g_ring[p]]
  BY DEF WriteCopies
<1>2. "index" \in emu.todo  BY <1>1 DEF RingInv, IndexLast
<1>3. /\ emu.at \in Places /\ emu.bytes \in Nat /\ emu.bytes <= RING_SIZE
      /\ RING_SIZE \in Nat /\ RING_SIZE > 0
  BY Types, Sizes, SMT DEF RingInv
<1>4. ASSUME NEW i \in 0 .. emu.bytes - 1
      PROVE  g_ring'[Place(emu.at, i)] = (sent - emu.bytes + i) % Numbers
  <2> DEFINE p == Place(emu.at, i)
  <2>1. i \in 0 .. RING_SIZE /\ i \in Nat /\ i < emu.bytes  BY <1>3, SMT
  <2>2. /\ p \in Places
        /\ p = IF emu.at + i < RING_SIZE THEN emu.at + i
                                         ELSE emu.at + i - RING_SIZE
    BY <1>3, <2>1, PlaceIs
  <2> HIDE DEF p
  <2>3. (p - emu.at) % RING_SIZE = i
    <3> DEFINE x == (p - emu.at) % RING_SIZE
    <3>1. /\ p - emu.at \in Int /\ p - emu.at >= -RING_SIZE
          /\ p - emu.at < RING_SIZE
      BY <1>3, <2>1, <2>2, SMT DEF Places
    <3>2. x = IF p - emu.at < 0 THEN p - emu.at + RING_SIZE ELSE p - emu.at
      BY <1>3, <3>1, OneRound, SMT
    <3> HIDE DEF x
    <3>3. x = i
      <4>1. emu.at \in Int /\ p \in Int  BY <1>3, <2>2, SMT DEF Places
      <4>2. CASE emu.at + i < RING_SIZE  BY <1>3, <2>1, <2>2, <3>2, <4>1, <4>2, SMT
      <4>3. CASE ~ (emu.at + i < RING_SIZE)
        <5>1. i < RING_SIZE  BY <1>3, <2>1, SMT
        <5>2. p = emu.at + i - RING_SIZE  BY <2>2, <4>3
        <5>3. p - emu.at < 0 /\ p - emu.at + RING_SIZE = i
          BY <1>3, <2>1, <4>1, <5>1, <5>2, SMT
        <5> QED  BY <3>2, <5>3
      <4> QED  BY <4>2, <4>3
    <3> QED  BY <3>3 DEF x
  <2>4. g_ring'[p] = (sent - emu.bytes + i) % Numbers
    BY <1>1, <2>1, <2>2, <2>3
  <2> QED  BY <2>4 DEF p
<1>5. ASSUME NEW p \in Places, p \notin Region(emu)
      PROVE  g_ring'[p] = g_ring[p]
  <2> DEFINE i == (p - emu.at) % RING_SIZE
  <2>1. /\ p - emu.at \in Int /\ p - emu.at >= -RING_SIZE
        /\ p - emu.at < RING_SIZE
    BY <1>3, SMT DEF Places
  <2>2. i = IF p - emu.at < 0 THEN p - emu.at + RING_SIZE ELSE p - emu.at
    BY <1>3, <2>1, OneRound, SMT
  <2> HIDE DEF i
  <2>3. ASSUME i < emu.bytes PROVE FALSE
    <3>1. i \in 0 .. emu.bytes - 1 /\ i \in 0 .. RING_SIZE
      BY <1>3, <2>1, <2>2, <2>3, SMT DEF Places
    <3>2. Place(emu.at, i) = IF emu.at + i < RING_SIZE THEN emu.at + i
                                                       ELSE emu.at + i - RING_SIZE
      BY <1>3, <3>1, PlaceIs
    <3>3. Place(emu.at, i) = p
      BY <1>3, <2>2, <3>1, <3>2, SMT DEF Places
    <3> QED  BY <1>5, <3>1, <3>3 DEF Region
  <2> QED  BY <1>1, <2>3 DEF i
<1> QED  BY <1>2, <1>4, <1>5

LEMMA NextCopyMade ==
    ASSUME InOrder, RingInv, CopyMade, [Next]_vars
    PROVE  CopyMade'
<1>1. ASSUME NEW n \in 1 .. MaxFrames, leuae_audio_submit(n) PROVE CopyMade'
  <2>1. "copy" \in emu'.todo  BY <1>1 DEF leuae_audio_submit
  <2> QED  BY <2>1 DEF CopyMade
<1>2. CASE WriteCopies
  <2>1. emu'.at = emu.at /\ emu'.bytes = emu.bytes /\ sent' = sent
    BY <1>2 DEF WriteCopies, RingInv, TypeOK, Call
  <2> QED  BY <1>2, <2>1, CopiedIs DEF CopyMade, Place
<1>3. CASE WriteIndex
  <2>1. "index" \notin emu'.todo
    BY <1>3 DEF WriteIndex, RingInv, TypeOK, Call
  <2> QED  BY <2>1 DEF CopyMade
<1>4. CASE audio_callback \/ Callback \/ UNCHANGED vars
  <2>1. UNCHANGED <<emu, sent, g_ring>>
    BY <1>4 DEF audio_callback, Callback, CallbackCopies, CallbackIndex,
                CallbackEnqueues, ring, vars
  <2> QED  BY <2>1 DEF CopyMade, Place
<1>5. CASE Control
  <2>1. Idle(emu) /\ emu' = emu
    BY <1>5 DEF Control, leuae_audio_init, leuae_audio_stop,
                leuae_audio_resume, leuae_audio_close
  <2> QED  BY <2>1 DEF CopyMade, Idle
<1> QED  BY <1>1, <1>2, <1>3, <1>4, <1>5 DEF Next, Writes

-----------------------------------------------------------------------------
(* The steps of the stream.                                                *)

SentNow == IF "index" \in emu.todo THEN (sent - emu.bytes) % Numbers ELSE sent
Block   == IF "copy" \in cb.todo THEN Filled(cb) ELSE data

\* Numbers of bytes that lie close together can be counted from each other.
LEMMA CountOn ==
    ASSUME NEW s \in Byte, NEW b \in 0 .. RING_SIZE, NEW i \in 0 .. RING_SIZE
    PROVE  /\ (((s - b) % Numbers) + i) % Numbers = (s - b + i) % Numbers
           /\ (((s + b) % Numbers) - b) % Numbers = s
           /\ (s - b + b) % Numbers = s
<1>1. /\ Numbers \in Nat /\ Numbers > 0 /\ Numbers = 2 * RING_SIZE
      /\ RING_SIZE \in Nat /\ s \in Nat /\ s < Numbers
  BY Sizes, SMT DEF Numbers, Byte
<1> HIDE DEF Numbers
<1>2. ASSUME NEW n \in Int, n >= -RING_SIZE, n < 2 * Numbers
      PROVE  n % Numbers = IF n < 0 THEN n + Numbers
                           ELSE IF n < Numbers THEN n ELSE n - Numbers
  <2>1. n >= -Numbers  BY <1>1, <1>2, SMT
  <2> QED  BY <1>1, <1>2, <2>1, RoundOf
<1>3. /\ (s - b) % Numbers = IF s - b < 0 THEN s - b + Numbers ELSE s - b
      /\ (s + b) % Numbers = IF s + b < Numbers THEN s + b ELSE s + b - Numbers
      /\ (s - b + i) % Numbers = IF s - b + i < 0 THEN s - b + i + Numbers
                                 ELSE IF s - b + i < Numbers THEN s - b + i
                                 ELSE s - b + i - Numbers
      /\ (s - b + b) % Numbers = s
  BY <1>1, <1>2, SMT
<1> DEFINE u == (s - b) % Numbers
           v == (s + b) % Numbers
           t == (s - b + i) % Numbers
<1>4. u \in Int /\ v \in Int /\ t \in Int  BY <1>1, <1>3, SMT
<1>5. /\ u = IF s - b < 0 THEN s - b + Numbers ELSE s - b
      /\ v = IF s + b < Numbers THEN s + b ELSE s + b - Numbers
      /\ t = IF s - b + i < 0 THEN s - b + i + Numbers
             ELSE IF s - b + i < Numbers THEN s - b + i
             ELSE s - b + i - Numbers
  BY <1>3
<1> HIDE DEF u, v, t
<1>6. (u + i) % Numbers = t
  <2>1. u + i \in Int /\ u + i >= -RING_SIZE /\ u + i < 2 * Numbers
    BY <1>1, <1>5, SMT
  <2> DEFINE n == u + i
  <2>2. n \in Int /\ n >= -RING_SIZE /\ n < 2 * Numbers  BY <2>1
  <2> HIDE DEF n
  <2>3. n % Numbers = IF n < 0 THEN n + Numbers
                      ELSE IF n < Numbers THEN n ELSE n - Numbers
    BY <1>2, <2>2
  <2> QED  BY <1>1, <1>5, <2>3, SMT DEF n
<1>7. (v - b) % Numbers = s
  <2>1. v - b \in Int /\ v - b >= -RING_SIZE /\ v - b < 2 * Numbers
    BY <1>1, <1>5, SMT
  <2> DEFINE n == v - b
  <2>2. n \in Int /\ n >= -RING_SIZE /\ n < 2 * Numbers  BY <2>1
  <2> HIDE DEF n
  <2>3. n % Numbers = IF n < 0 THEN n + Numbers
                      ELSE IF n < Numbers THEN n ELSE n - Numbers
    BY <1>2, <2>2
  <2> QED  BY <1>1, <1>5, <2>3, SMT DEF n
<1> QED  BY <1>3, <1>6, <1>7 DEF u, v, t

\* The bytes that wait lie apart from the region that is being written.
LEMMA WaitingApart ==
    ASSUME RingInv, "index" \in emu.todo, NEW i \in 1 .. Left
    PROVE  Place(First, i - 1) \notin Region(emu)
<1> SUFFICES ASSUME NEW j \in 0 .. emu.bytes - 1,
                    Place(First, i - 1) = Place(emu.at, j)
             PROVE  FALSE
  BY DEF Region
<1> DEFINE at == emu.at
           bytes == emu.bytes
           f == First
           left == Left
           avail == ring_available
<1>1. /\ at = g_ring_write /\ at \in Places /\ f \in Places /\ left \in Places
      /\ bytes \in 0 .. RING_SIZE
      /\ left = IF f <= at THEN at - f ELSE at - f + RING_SIZE
  BY LeftIs, Types DEF RingInv, RoomKept
<1>2. left + bytes + BYTES_PER_FRAME <= RING_SIZE
  <2>1. avail \in Places  BY Types, AvailableIs DEF RingInv
  <2>2. avail + bytes + BYTES_PER_FRAME <= RING_SIZE  BY DEF RingInv, RoomKept
  <2>3. left <= avail
    <3>1. left = IF "index" \in cb.todo THEN avail - cb.bytes ELSE avail
      BY LeftIs
    <3>2. cb.bytes \in 0 .. RING_SIZE  BY Types DEF RingInv
    <3> QED  BY <2>1, <3>1, <3>2, Sizes, SMT DEF Places
  <2> HIDE DEF avail, left, bytes
  <2> QED  BY <1>1, <2>1, <2>2, <2>3, Sizes, SMT DEF Places
<1>3. /\ i - 1 \in 0 .. RING_SIZE /\ j \in 0 .. RING_SIZE
      /\ i - 1 < left /\ j < bytes /\ i - 1 \in Nat /\ j \in Nat
  BY <1>1, Sizes, SMT DEF Places
<1>4. /\ Place(f, i - 1) = IF f + (i - 1) < RING_SIZE THEN f + (i - 1)
                           ELSE f + (i - 1) - RING_SIZE
      /\ Place(at, j) = IF at + j < RING_SIZE THEN at + j
                        ELSE at + j - RING_SIZE
  BY <1>1, <1>3, PlaceIs
<1>5. Place(f, i - 1) = Place(at, j)  OBVIOUS
<1> HIDE DEF at, bytes, f, left
<1> QED  BY <1>1, <1>2, <1>3, <1>4, <1>5, Sizes, SMT DEF Places

\* The number and the waiting bytes are as before when neither an index nor
\* the memory has changed.
LEMMA StreamStays ==
    ASSUME UNCHANGED <<g_ring, g_ring_write, g_ring_read, cb>>
    PROVE  Waiting' = Waiting
  BY DEF Waiting, Place

\* A call of leuae_audio_submit begins: nothing has gone in yet.
LEMMA SubmitStutters ==
    ASSUME RingInv, NEW n \in 1 .. MaxFrames, leuae_audio_submit(n)
    PROVE  UNCHANGED <<SentNow, Waiting, Block>>
<1>1. PICK bytes \in 1 .. RING_SIZE :
          /\ emu' = [todo |-> {"copy", "index"}, at |-> g_ring_write,
                     bytes |-> bytes]
          /\ sent' = (sent + bytes) % Numbers
  BY SubmitIs
<1>2. /\ UNCHANGED <<g_ring, g_ring_write, g_ring_read, cb, data>>
      /\ "index" \notin emu.todo
  BY DEF leuae_audio_submit, ring, Idle
<1>3. SentNow' = (sent' - bytes) % Numbers
  <2>1. "index" \in emu'.todo /\ emu'.bytes = bytes  BY <1>1
  <2> QED  BY <2>1 DEF SentNow
<1>4. (((sent + bytes) % Numbers) - bytes) % Numbers = sent
  <2>1. sent \in Byte /\ bytes \in 0 .. RING_SIZE
    BY Types, Sizes, SMT DEF RingInv
  <2> QED  BY <2>1, CountOn
<1>5. SentNow = sent  BY <1>2 DEF SentNow
<1>6. Block' = Block  BY <1>2 DEF Block, Filled, Place
<1> QED  BY <1>1, <1>2, <1>3, <1>4, <1>5, <1>6, StreamStays

\* The bytes that are being written are in no one's sight.
LEMMA WriteCopiesStutters ==
    ASSUME RingInv, InOrder, WriteCopies
    PROVE  UNCHANGED <<SentNow, Waiting, Block>>
<1>1. /\ UNCHANGED <<g_ring_write, g_ring_read, cb, data, sent>>
      /\ emu'.bytes = emu.bytes
      /\ "index" \in emu'.todo <=> "index" \in emu.todo
  BY DEF WriteCopies, RingInv, TypeOK, Call
<1>2. /\ "index" \in emu.todo
      /\ \A p \in Places : p \notin Region(emu) => g_ring'[p] = g_ring[p]
  BY CopiedIs
<1>3. SentNow' = SentNow  BY <1>1 DEF SentNow
<1>4. Waiting' = Waiting
  <2>1. First' = First /\ Left' = Left  BY <1>1 DEF First, Left, Place
  <2>2. Waiting' = [i \in 1 .. Left |-> g_ring'[Place(First, i - 1)]]
    BY <1>1, <2>1 DEF Waiting, First, Left, Place
  <2>3. \A i \in 1 .. Left :
            /\ Place(First, i - 1) \in Places
            /\ Place(First, i - 1) \notin Region(emu)
    BY <1>2, WaitingIs, WaitingApart
  <2> QED  BY <1>2, <2>2, <2>3, WaitingIs
<1>5. Block' = Block
  <2>1. CASE "copy" \notin cb.todo  BY <1>1, <2>1 DEF Block
  <2>2. CASE "copy" \in cb.todo
    <3>1. "index" \in cb.todo  BY <2>2 DEF RingInv, IndexLast
    <3>2. ASSUME NEW i \in 1 .. Capacity, i <= cb.bytes
          PROVE  g_ring'[Place(cb.at, i - 1)] = g_ring[Place(cb.at, i - 1)]
      <4>1. /\ i - 1 \in 0 .. cb.bytes - 1 /\ i - 1 \in 0 .. RING_SIZE
            /\ cb.at \in Places
        BY <3>2, Types, Sizes, SMT DEF RingInv
      <4>2. Place(cb.at, i - 1) \in Places  BY <4>1, PlaceIs
      <4>3. Place(cb.at, i - 1) \notin Region(emu)
        BY <1>2, <3>1, <4>1, RegionsApart DEF Region
      <4> QED  BY <1>2, <4>2, <4>3
    <3>3. Filled(cb)' = Filled(cb)
      BY <1>1, <3>2 DEF Filled, Place
    <3> QED  BY <1>1, <2>2, <3>3 DEF Block
  <2> QED  BY <2>1, <2>2
<1> QED  BY <1>3, <1>4, <1>5

\* The same as formulas, for the state after a step.
LeftKnown ==
    /\ Left \in Places
    /\ Left = IF "index" \in cb.todo THEN ring_available - cb.bytes
              ELSE ring_available

WaitingKnown ==
    /\ Waiting \in Seq(Byte \cup {Silence}) /\ Len(Waiting) = Left
    /\ \A i \in 1 .. Left : Waiting[i] = g_ring[Place(First, i - 1)]

LEMMA StreamKnown == RingInv => LeftKnown /\ WaitingKnown
<1> SUFFICES ASSUME RingInv PROVE LeftKnown /\ WaitingKnown  OBVIOUS
<1>1. LeftKnown  BY LeftIs DEF LeftKnown
<1>2. WaitingKnown  BY WaitingIs DEF WaitingKnown
<1> QED  BY <1>1, <1>2

\* Moving the index of ring_write accepts the frames in one step.
LEMMA WriteIndexAccepts ==
    ASSUME RingInv, RingInv', InOrder, CopyMade, WriteIndex
    PROVE  Stream!Accepted
<1> DEFINE S == Byte \cup {Silence}
           n == emu.bytes
           w == emu.at
           f == First
           left == Left
           old == SentNow
           q == Waiting
           a == [i \in 1 .. n |-> (old + i - 1) % Numbers]
           r == q \o a
<1>1. /\ "index" \in emu.todo /\ "copy" \notin emu.todo
      /\ emu'.todo = emu.todo \ {"index"}
      /\ UNCHANGED <<g_ring, g_ring_read, cb, data, sent>>
  BY DEF WriteIndex, RingInv, TypeOK, Call
<1>2. /\ w = g_ring_write /\ n > 0 /\ n % BYTES_PER_FRAME = 0
      /\ ring_available + n + BYTES_PER_FRAME <= RING_SIZE
  BY <1>1 DEF RingInv, RoomKept
<1>3. /\ n \in 0 .. RING_SIZE /\ w \in Places /\ sent \in Byte
      /\ ring_available \in Places
  BY Types, AvailableIs DEF RingInv
<1>4. /\ f \in Places /\ left \in Places
      /\ left = IF f <= w THEN w - f ELSE w - f + RING_SIZE
      /\ left <= ring_available
  <2>1. /\ f \in Places /\ left \in Places
        /\ left = IF "index" \in cb.todo THEN ring_available - cb.bytes
                  ELSE ring_available
        /\ left = IF f <= w THEN w - f ELSE w - f + RING_SIZE
    BY <1>2, LeftIs
  <2>2. cb.bytes \in 0 .. RING_SIZE  BY Types DEF RingInv
  <2>3. left <= ring_available
    <3> DEFINE avail == ring_available
    <3>1. avail \in Places  BY <1>3
    <3>2. left = IF "index" \in cb.todo THEN avail - cb.bytes ELSE avail
      BY <2>1
    <3> HIDE DEF left, avail
    <3>3. left <= avail  BY <2>2, <3>1, <3>2, Sizes, SMT DEF Places
    <3> QED  BY <3>3 DEF avail
  <2> QED  BY <2>1, <2>3
<1>5. LeftKnown' /\ WaitingKnown'  BY StreamKnown, PTL
<1>6. First' = f /\ left + n \in Places /\ Left' = left + n
  <2> DEFINE avail == ring_available
             left2 == Left'
             c == cb.bytes
  <2>1. First' = First  BY <1>1 DEF First, Place
  <2>2. ring_available' = avail + n  BY WriteIndexMoves
  <2>3. /\ left = IF "index" \in cb.todo THEN avail - c ELSE avail
        /\ left2 = IF "index" \in cb.todo THEN (avail + n) - c ELSE avail + n
        /\ left2 \in Places /\ left \in Places /\ c \in 0 .. RING_SIZE
        /\ n \in 0 .. RING_SIZE /\ avail \in Places
    <3>1. left = IF "index" \in cb.todo THEN avail - c ELSE avail  BY LeftIs
    <3>2. /\ left2 \in Places
          /\ left2 = IF "index" \in cb'.todo THEN ring_available' - cb'.bytes
                     ELSE ring_available'
      BY <1>5 DEF LeftKnown
    <3>3. left2 = IF "index" \in cb.todo THEN (avail + n) - c ELSE avail + n
      <4>1. cb'.todo = cb.todo /\ cb'.bytes = c  BY <1>1
      <4>2. ring_available' = avail + n  BY <2>2
      <4>3. CASE "index" \in cb.todo  BY <3>2, <4>1, <4>2, <4>3
      <4>4. CASE "index" \notin cb.todo  BY <3>2, <4>1, <4>2, <4>4
      <4> QED  BY <4>3, <4>4
    <3>4. c \in 0 .. RING_SIZE  BY Types DEF RingInv
    <3> QED  BY <1>3, <1>4, <3>1, <3>2, <3>3, <3>4
  <2> HIDE DEF avail, left2, left, n, c
  <2>4. left2 = left + n  BY <2>3, Sizes, SMT DEF Places
  <2>5. left + n \in Places  BY <2>3, <2>4
  <2> QED  BY <2>1, <2>4, <2>5 DEF left2, f
<1>7. /\ q \in Seq(S) /\ Len(q) = left
      /\ \A i \in 1 .. left : q[i] = g_ring[Place(f, i - 1)]
  BY StreamKnown DEF WaitingKnown
<1>8. /\ q' \in Seq(S) /\ Len(q') = left + n
      /\ \A i \in 1 .. left + n : q'[i] = g_ring[Place(f, i - 1)]
  BY <1>1, <1>5, <1>6 DEF WaitingKnown, Place
<1>9. old \in Byte /\ old = (sent - n) % Numbers
  <2>1. sent - n \in Int
    <3> HIDE DEF n
    <3> QED  BY <1>3, Sizes, SMT DEF Byte, Numbers
  <2>2. old = (sent - n) % Numbers  BY <1>1 DEF SentNow
  <2> QED  BY <2>1, <2>2, NumbersCome
<1>10. ASSUME NEW i \in 1 .. n
       PROVE  /\ a[i] \in Byte
              /\ a[i] = g_ring[Place(w, i - 1)]
              /\ a[i] = (old + (i - 1)) % Numbers
  <2>1. /\ i - 1 \in 0 .. n - 1 /\ i - 1 \in 0 .. RING_SIZE
        /\ old + i - 1 = old + (i - 1) /\ old + i - 1 \in Int
    <3> HIDE DEF n, old
    <3> QED  BY <1>3, <1>9, Sizes, SMT DEF Byte, Numbers
  <2>2. g_ring[Place(w, i - 1)] = (sent - n + (i - 1)) % Numbers
    BY <1>1, <2>1 DEF CopyMade
  <2>3. a[i] = (old + i - 1) % Numbers  OBVIOUS
  <2>4. (old + (i - 1)) % Numbers = (sent - n + (i - 1)) % Numbers
    BY <1>3, <1>9, <2>1, CountOn
  <2>5. (old + i - 1) % Numbers \in Byte  BY <2>1, NumbersCome
  <2> QED  BY <2>1, <2>2, <2>3, <2>4, <2>5
<1>11. a \in Seq(S) /\ Len(a) = n
  <2>1. n \in Nat
    <3> HIDE DEF n
    <3> QED  BY <1>3, Sizes, SMT
  <2>2. a \in [1 .. n -> S]  BY <1>10
  <2>3. a \in Seq(S)  BY <2>1, <2>2, SeqDef, ZenonT(40)
  <2>4. DOMAIN a = 1 .. n  OBVIOUS
  <2>5. Len(a) \in Nat /\ DOMAIN a = 1 .. Len(a)  BY <2>3, LenProperties
  <2>6. Len(a) = n
    <3> DEFINE m == Len(a)
    <3>1. m \in Nat /\ n \in Nat /\ 1 .. m = 1 .. n  BY <2>1, <2>4, <2>5
    <3> HIDE DEF m, n, a
    <3>2. m = n  BY <3>1, SMT
    <3> QED  BY <3>2 DEF m
  <2> QED  BY <2>3, <2>6
<1>12. /\ r \in Seq(S) /\ Len(r) = left + n
       /\ \A i \in 1 .. left + n : r[i] = IF i <= left THEN q[i] ELSE a[i - left]
  <2> HIDE DEF S, q, a
  <2>1. /\ r \in Seq(S) /\ Len(r) = Len(q) + Len(a)
        /\ \A i \in 1 .. Len(q) + Len(a) :
               r[i] = IF i <= Len(q) THEN q[i] ELSE a[i - Len(q)]
    <3>1. q \in Seq(S) /\ a \in Seq(S)  BY <1>7, <1>11
    <3> QED  BY <3>1, ConcatProperties
  <2> HIDE DEF r, left, n
  <2> QED  BY <1>7, <1>11, <2>1
<1>13. ASSUME NEW i \in 1 .. left + n PROVE q'[i] = r[i]
  <2>1. q'[i] = g_ring[Place(f, i - 1)]  BY <1>8
  <2>2. CASE i <= left
    <3>1. i \in 1 .. left
      <4> HIDE DEF left, n
      <4> QED  BY <1>3, <1>4, <2>2, Sizes, SMT DEF Places
    <3> QED  BY <1>7, <1>12, <2>1, <2>2, <3>1
  <2>3. CASE ~ (i <= left)
    <3> DEFINE k == i - left
    <3>1. /\ k \in 1 .. n /\ i - 1 \in 0 .. RING_SIZE /\ k - 1 \in 0 .. RING_SIZE
      <4> HIDE DEF left, n
      <4> QED  BY <1>3, <1>4, <1>6, <2>3, Sizes, SMT DEF Places
    <3>2. Place(f, i - 1) = Place(w, k - 1)
      <4>1. /\ Place(f, i - 1) = IF f + (i - 1) < RING_SIZE THEN f + (i - 1)
                                 ELSE f + (i - 1) - RING_SIZE
            /\ Place(w, k - 1) = IF w + (k - 1) < RING_SIZE THEN w + (k - 1)
                                 ELSE w + (k - 1) - RING_SIZE
        BY <1>3, <1>4, <3>1, PlaceIs
      <4> HIDE DEF f, w, left, n
      <4>2. left + n \in Places /\ n \in Nat /\ i \in Int
        BY <1>3, <1>4, <1>6, Sizes, SMT DEF Places
      <4>3. /\ f \in Places /\ w \in Places /\ left \in Places
            /\ left = IF f <= w THEN w - f ELSE w - f + RING_SIZE
        BY <1>3, <1>4
      <4>4. CASE f <= w  BY <2>3, <4>1, <4>2, <4>3, <4>4, Sizes, SMT DEF Places
      <4>5. CASE ~ (f <= w)
        <5>1. f + (i - 1) >= RING_SIZE \/ f + (i - 1) < RING_SIZE
          BY <4>2, <4>3, Sizes, SMT DEF Places
        <5>2. f + (i - 1) - RING_SIZE = w + (k - 1)
          BY <2>3, <4>2, <4>3, <4>5, Sizes, SMT DEF Places
        <5>3. f + (i - 1) >= RING_SIZE /\ w + (k - 1) < RING_SIZE
          BY <2>3, <4>2, <4>3, <4>5, <3>1, <5>2, Sizes, SMT DEF Places
        <5> QED  BY <4>1, <4>2, <4>3, <5>2, <5>3, Sizes, SMT DEF Places
      <4> QED  BY <4>4, <4>5
    <3>3. a[k] = g_ring[Place(w, k - 1)]  BY <1>10, <3>1
    <3> QED  BY <1>12, <2>1, <2>3, <3>2, <3>3
  <2> QED  BY <2>2, <2>3
<1>14. q' = r
  <2> HIDE DEF q, r
  <2> QED  BY <1>8, <1>12, <1>13, SeqEqual
<1>15. SentNow' = (old + n) % Numbers
  <2>1. SentNow' = sent  BY <1>1 DEF SentNow
  <2>2. (old + n) % Numbers = (sent - n + n) % Numbers
    BY <1>3, <1>9, CountOn
  <2>3. (sent - n + n) % Numbers = sent
    <3>1. 0 \in 0 .. RING_SIZE  BY Sizes, SMT
    <3> QED  BY <1>3, <3>1, CountOn
  <2> QED  BY <2>1, <2>2, <2>3
<1>16. /\ n \in 1 .. RING_SIZE - BYTES_PER_FRAME
       /\ Len(q) + n <= RING_SIZE - BYTES_PER_FRAME
  <2> DEFINE avail == ring_available
  <2>1. /\ left <= avail /\ avail + n + BYTES_PER_FRAME <= RING_SIZE
        /\ avail \in Places /\ n > 0
    BY <1>2, <1>3, <1>4
  <2> HIDE DEF left, n, avail
  <2>2. /\ n \in 1 .. RING_SIZE - BYTES_PER_FRAME
        /\ left + n <= RING_SIZE - BYTES_PER_FRAME
    BY <1>3, <1>4, <2>1, Sizes, SMT DEF Places
  <2> QED  BY <1>7, <2>2
<1>17. Block' = Block
  BY <1>1 DEF Block, Filled, Place
<1> QED  BY <1>2, <1>14, <1>15, <1>16, <1>17
         DEF Stream!Accepted, SentNow, Block

\* The places of a region can be counted from any place in it.
LEMMA PlaceOn ==
    ASSUME NEW at \in Places, NEW m \in 0 .. RING_SIZE, NEW i \in Nat,
           m + i <= RING_SIZE
    PROVE  Place(Place(at, m), i) = Place(at, m + i)
<1>1. /\ i \in 0 .. RING_SIZE /\ m + i \in 0 .. RING_SIZE
      /\ at \in Int /\ m \in Int /\ i \in Int
  BY Sizes, SMT DEF Places
<1> DEFINE p == Place(at, m)
           r == Place(p, i)
           s == Place(at, m + i)
<1>2. /\ p \in Places
      /\ p = IF at + m < RING_SIZE THEN at + m ELSE at + m - RING_SIZE
  BY PlaceIs
<1>3. /\ r = IF p + i < RING_SIZE THEN p + i ELSE p + i - RING_SIZE
      /\ s = IF at + (m + i) < RING_SIZE THEN at + (m + i)
             ELSE at + (m + i) - RING_SIZE
  BY <1>1, <1>2, PlaceIs
<1> HIDE DEF p, r, s
<1>4. r = s  BY <1>1, <1>2, <1>3, Sizes, SMT DEF Places
<1> QED  BY <1>4 DEF r, s, p

\* A callback takes the block at once: what it will copy is what waits now.
LEMMA CallbackHands ==
    ASSUME RingInv, RingInv', audio_callback
    PROVE  Stream!Handed
<1> DEFINE S == Byte \cup {Silence}
           q == Waiting
           left == Left
           f == g_ring_read
           n == IF Len(q) < Capacity THEN Len(q) ELSE Capacity
           r == SubSeq(q, n + 1, Len(q))
<1>1. /\ Idle(cb)
      /\ UNCHANGED <<g_ring, g_ring_write, g_ring_read, emu, sent, data>>
      /\ cb'.todo = {"copy", "index", "enqueue"} /\ cb'.at = f
      /\ cb'.bytes = Least(ring_available, Capacity)
  BY DEF audio_callback, ring
<1>2. /\ "index" \notin cb.todo /\ "copy" \notin cb.todo /\ First = f
      /\ f \in Places
  BY <1>1, Types DEF RingInv, Idle, First
<1>3. /\ left \in Places /\ left = ring_available
      /\ q \in Seq(S) /\ Len(q) = left
      /\ \A i \in 1 .. left : q[i] = g_ring[Place(f, i - 1)]
  BY <1>2, StreamKnown DEF LeftKnown, WaitingKnown
<1>4. /\ cb'.bytes = n /\ n \in 0 .. RING_SIZE /\ n <= left
      /\ n = IF left < Capacity THEN left ELSE Capacity
  <2>1. cb'.bytes = n  BY <1>1, <1>3 DEF Least
  <2>2. n = IF left < Capacity THEN left ELSE Capacity  BY <1>3
  <2>3. n \in 0 .. RING_SIZE /\ n <= left
    <3> HIDE DEF n, left
    <3> QED  BY <1>3, <2>2, Sizes, SMT DEF Places
  <2> QED  BY <2>1, <2>2, <2>3
<1>5. /\ First' = Place(f, n) /\ Left' = left - n /\ left - n \in Places
  <2>1. First' = Place(f, n)  BY <1>1, <1>4 DEF First, Place
  <2>2. ring_available' = ring_available  BY <1>1 DEF ring_available
  <2>3. LeftKnown'  BY StreamKnown, PTL
  <2>4. Left' = left - n
    BY <1>1, <1>3, <1>4, <2>2, <2>3 DEF LeftKnown
  <2>5. left - n \in Places
    <3> HIDE DEF n, left
    <3> QED  BY <1>3, <1>4, Sizes, SMT DEF Places
  <2> QED  BY <2>1, <2>4, <2>5
<1>6. /\ q' \in Seq(S) /\ Len(q') = left - n
      /\ \A i \in 1 .. left - n : q'[i] = g_ring[Place(Place(f, n), i - 1)]
  <2>1. WaitingKnown'  BY StreamKnown, PTL
  <2> QED  BY <1>1, <1>5, <2>1 DEF WaitingKnown, Place
<1>7. /\ r \in Seq(S) /\ Len(r) = left - n
      /\ \A i \in 1 .. left - n : r[i] = q[n + i]
  <2>1. /\ n + 1 \in Int /\ Len(q) \in Int
        /\ Len(q) - (n + 1) + 1 = left - n
        /\ (IF n + 1 <= Len(q) THEN Len(q) - (n + 1) + 1 ELSE 0) = left - n
        /\ \A i \in 1 .. left - n : n + 1 + i - 1 = n + i
    <3> HIDE DEF n, left, q
    <3> QED  BY <1>3, <1>4, Sizes, SMT DEF Places
  <2>2. \A i \in n + 1 .. Len(q) : q[i] \in S
    <3>1. \A i \in n + 1 .. Len(q) : i \in 1 .. Len(q)
      <4> HIDE DEF n, left, q
      <4> QED  BY <1>3, <1>4, Sizes, SMT DEF Places
    <3> HIDE DEF q, S
    <3> QED  BY <1>3, <3>1, LenProperties
  <2> HIDE DEF n, q, S
  <2>3. /\ r \in Seq(S)
        /\ Len(r) = IF n + 1 <= Len(q) THEN Len(q) - (n + 1) + 1 ELSE 0
        /\ \A i \in 1 .. Len(q) - (n + 1) + 1 : r[i] = q[n + 1 + i - 1]
    BY <2>1, <2>2, SubSeqProperties
  <2> HIDE DEF r
  <2> QED  BY <2>1, <2>3
<1>8. ASSUME NEW i \in 1 .. left - n PROVE q'[i] = r[i]
  <2>1. /\ n + i \in 1 .. left /\ i - 1 \in Nat /\ n + (i - 1) <= RING_SIZE
        /\ (n + i) - 1 = n + (i - 1)
    <3> HIDE DEF n, left
    <3> QED  BY <1>3, <1>4, Sizes, SMT DEF Places
  <2>2. r[i] = g_ring[Place(f, (n + i) - 1)]  BY <1>3, <1>7, <2>1
  <2>3. Place(Place(f, n), i - 1) = Place(f, n + (i - 1))
    BY <1>2, <1>4, <2>1, PlaceOn
  <2> QED  BY <1>6, <2>1, <2>2, <2>3
<1>9. q' = r
  <2> HIDE DEF q, r, S
  <2> QED  BY <1>6, <1>7, <1>8, SeqEqual
<1>10. Block' = [i \in 1 .. Capacity |-> IF i <= n THEN q[i] ELSE Silence]
  <2>1. Block' = [i \in 1 .. Capacity |->
                     IF i <= n THEN g_ring[Place(f, i - 1)] ELSE Silence]
    BY <1>1, <1>4 DEF Block, Filled, Place
  <2>2. ASSUME NEW i \in 1 .. Capacity, i <= n
        PROVE  q[i] = g_ring[Place(f, i - 1)]
    <3>1. i \in 1 .. left
      <4> HIDE DEF n, left
      <4> QED  BY <1>3, <1>4, <2>2, Sizes, SMT DEF Places
    <3> QED  BY <1>3, <3>1
  <2> HIDE DEF n, q
  <2> QED  BY <2>1, <2>2
<1>11. SentNow' = SentNow  BY <1>1 DEF SentNow
<1> QED  BY <1>9, <1>10, <1>11 DEF Stream!Handed, SentNow, Block

\* The callback fills its buffer with what it took.
LEMMA CallbackStutters ==
    ASSUME RingInv, InOrder, Callback
    PROVE  UNCHANGED <<SentNow, Waiting, Block>>
<1>1. UNCHANGED <<g_ring, g_ring_write, emu, sent>>
  BY DEF Callback, CallbackCopies, CallbackIndex, CallbackEnqueues, ring
<1>2. SentNow' = SentNow  BY <1>1 DEF SentNow
<1>3. CASE CallbackCopies
  <2>1. /\ "copy" \in cb.todo /\ data' = Filled(cb) /\ UNCHANGED g_ring_read
        /\ cb'.todo = cb.todo \ {"copy"} /\ cb'.at = cb.at
        /\ cb'.bytes = cb.bytes
    BY <1>3 DEF CallbackCopies, ring, RingInv, TypeOK, Call
  <2>2. "index" \in cb'.todo <=> "index" \in cb.todo  BY <2>1
  <2>3. Waiting' = Waiting  BY <1>1, <2>1, <2>2 DEF Waiting, Place
  <2>4. Block' = Block  BY <2>1 DEF Block
  <2> QED  BY <1>2, <2>3, <2>4
<1>4. CASE CallbackIndex
  <2>1. /\ "index" \in cb.todo /\ "copy" \notin cb.todo
        /\ g_ring_read' = Place(cb.at, cb.bytes) /\ data' = data
        /\ cb'.todo = cb.todo \ {"index"}
    BY <1>4 DEF CallbackIndex, RingInv, TypeOK, Call
  <2>2. "index" \notin cb'.todo /\ "copy" \notin cb'.todo  BY <2>1
  <2>3. Waiting' = Waiting  BY <1>1, <2>1, <2>2 DEF Waiting, Place
  <2>4. Block' = Block  BY <2>1, <2>2 DEF Block
  <2> QED  BY <1>2, <2>3, <2>4
<1>5. CASE CallbackEnqueues
  <2>1. /\ cb.todo = {"enqueue"} /\ cb'.todo = {}
        /\ UNCHANGED <<g_ring_read, data>>
    BY <1>5 DEF CallbackEnqueues, NoCall, ring
  <2>2. Waiting' = Waiting  BY <1>1, <2>1 DEF Waiting, Place
  <2>3. Block' = Block  BY <2>1 DEF Block
  <2> QED  BY <1>2, <2>2, <2>3
<1> QED  BY <1>3, <1>4, <1>5 DEF Callback

\* Pausing, resuming and closing leave the stream alone; opening empties it.
LEMMA ControlReopens ==
    ASSUME RingInv, RingInv', Control
    PROVE  Stream!Reopened \/ UNCHANGED <<SentNow, Waiting, Block>>
<1>1. UNCHANGED <<emu, cb, data>> /\ Idle(emu)
  BY DEF Control, leuae_audio_init, leuae_audio_stop, leuae_audio_resume,
         leuae_audio_close
<1>2. CASE leuae_audio_init
  <2>1. /\ ~opened /\ g_ring_write' = 0 /\ g_ring_read' = 0 /\ sent' = 0
    BY <1>2 DEF leuae_audio_init
  <2>2. "index" \notin cb.todo /\ "copy" \notin cb.todo
    BY <2>1 DEF RingInv, BuffersKept, Idle
  <2>3. SentNow' = 0  BY <1>1, <2>1 DEF SentNow, Idle
  <2>4. Block' = Block  BY <1>1, <2>2 DEF Block
  <2>5. Waiting' = << >>
    <3>1. LeftKnown' /\ WaitingKnown'  BY StreamKnown, PTL
    <3>2. ring_available' = 0
      BY <2>1, SMT DEF ring_available
    <3>3. Left' = 0  BY <1>1, <2>2, <3>1, <3>2 DEF LeftKnown
    <3>4. Waiting' \in Seq(Byte \cup {Silence}) /\ Len(Waiting') = 0
      BY <3>1, <3>3 DEF WaitingKnown
    <3> DEFINE q == Waiting'
               S == Byte \cup {Silence}
    <3>5. q \in Seq(S) /\ Len(q) = 0  BY <3>4
    <3> HIDE DEF q, S
    <3>6. q = << >>
      <4>1. q # << >> => Len(q) \in Nat \ {0}  BY <3>5, EmptySeq
      <4> QED  BY <3>5, <4>1, SMT
    <3> QED  BY <3>6 DEF q
  <2> QED  BY <2>3, <2>4, <2>5 DEF Stream!Reopened, SentNow, Block
<1>3. CASE leuae_audio_stop \/ leuae_audio_resume \/ leuae_audio_close
  <2>1. UNCHANGED <<g_ring, g_ring_write, g_ring_read, sent>>
    BY <1>3 DEF leuae_audio_stop, leuae_audio_resume, leuae_audio_close, ring
  <2>2. SentNow' = SentNow /\ Block' = Block
    BY <1>1, <2>1 DEF SentNow, Block, Filled, Place
  <2> QED  BY <1>1, <2>1, <2>2, StreamStays
<1> QED  BY <1>2, <1>3 DEF Control

\* Where stores are seen in their order, the ring without a lock is a stream of
\* samples: they are played in order, each once, and silence only when nothing
\* waits.
THEOREM ImplementsStream == ASSUME InOrder PROVE Spec => StreamSpec
<1>1. Init => Stream!Init
  <2> SUFFICES ASSUME Init PROVE Stream!Init  OBVIOUS
  <2>1. /\ emu.todo = {} /\ cb.todo = {} /\ sent = 0 /\ data = Silent
        /\ g_ring_write = 0 /\ g_ring_read = 0
    BY DEF Init, NoCall
  <2>2. RingInv  BY InitRingInv
  <2>3. Waiting = << >>
    <3>1. ring_available = 0  BY <2>1, SMT DEF ring_available
    <3>2. Left = 0  BY <2>1, <2>2, <3>1, LeftIs
    <3>3. Waiting \in Seq(Byte \cup {Silence}) /\ Len(Waiting) = 0
      BY <2>2, <3>2, WaitingIs
    <3> DEFINE q == Waiting
               S == Byte \cup {Silence}
    <3>4. q \in Seq(S) /\ Len(q) = 0  BY <3>3
    <3> HIDE DEF q, S
    <3>5. q # << >> => Len(q) \in Nat \ {0}  BY <3>4, EmptySeq
    <3>6. q = << >>  BY <3>4, <3>5, SMT
    <3> QED  BY <3>6 DEF q
  <2> QED  BY <2>1, <2>3 DEF Stream!Init, Silent
<1>2. Init => CopyMade  BY DEF Init, NoCall, CopyMade
<1>3. RingInv /\ RingInv' /\ CopyMade /\ [Next]_vars
          => CopyMade' /\ [Stream!Next]_(Stream!vars)
  <2> SUFFICES ASSUME RingInv, RingInv', CopyMade, [Next]_vars
               PROVE  CopyMade' /\ [Stream!Next]_(Stream!vars)
    OBVIOUS
  <2>1. CopyMade'  BY NextCopyMade
  <2>2. ASSUME UNCHANGED <<SentNow, Waiting, Block>>
        PROVE  UNCHANGED Stream!vars
    BY <2>2 DEF Stream!vars, SentNow, Block
  <2>3. CASE UNCHANGED vars
    <3>1. UNCHANGED <<SentNow, Waiting, Block>>
      BY <2>3, StreamStays DEF vars, SentNow, Block, Filled, Place
    <3> QED  BY <2>1, <2>2, <3>1
  <2>4. ASSUME NEW n \in 1 .. MaxFrames, leuae_audio_submit(n)
        PROVE  UNCHANGED Stream!vars
    BY <2>2, <2>4, SubmitStutters
  <2>5. CASE WriteCopies  BY <2>1, <2>2, <2>5, WriteCopiesStutters
  <2>6. CASE WriteIndex  BY <2>1, <2>6, WriteIndexAccepts DEF Stream!Next
  <2>7. CASE audio_callback  BY <2>1, <2>7, CallbackHands DEF Stream!Next
  <2>8. CASE Callback  BY <2>1, <2>2, <2>8, CallbackStutters
  <2>9. CASE Control  BY <2>1, <2>2, <2>9, ControlReopens DEF Stream!Next
  <2> QED  BY <2>1, <2>3, <2>4, <2>5, <2>6, <2>7, <2>8, <2>9 DEF Next, Writes
<1> QED  BY <1>1, <1>2, <1>3, Inductive, PTL
         DEF Spec, StreamSpec, Stream!Spec
=============================================================================
