------------------------- MODULE DeniseQueue_proofs -------------------------
(***************************************************************************)
(* Proofs about DeniseQueue for every ring size, line length and bound.    *)
(***************************************************************************)
EXTENDS DeniseQueue, SequenceTheorems, TLAPS

-----------------------------------------------------------------------------
(* Masked indexes.                                                         *)

\* Division with remainder by the ring size.
LEMMA Division ==
    ASSUME NEW n \in Nat
    PROVE  /\ n \div Chunks \in Nat
           /\ Masked(n) \in 0 .. Chunks - 1
           /\ n = Chunks * (n \div Chunks) + Masked(n)
  BY DeniseAssumption, SMT DEF Masked

\* Scaling by the ring size keeps strict order.
LEMMA Scale ==
    ASSUME NEW c \in Nat, NEW p \in Int, NEW q \in Int, p < q
    PROVE  c * p + c <= c * q
<1>1. c * (q - p - 1) >= 0  BY SMT
<1>2. c * (q - p - 1) = c * q - c * p - c  BY SMT
<1> QED  BY <1>1, <1>2, SMT

\* Counters less than a ring apart that have the same mask are equal.
LEMMA MaskedInjective ==
    ASSUME NEW a \in Nat, NEW b \in Nat, a <= b, b - a < Chunks,
           Masked(a) = Masked(b)
    PROVE  a = b
<1> DEFINE p == a \div Chunks
           q == b \div Chunks
<1>1. /\ p \in Nat /\ q \in Nat
      /\ a = Chunks * p + Masked(a)
      /\ b = Chunks * q + Masked(b)
      /\ Masked(a) \in 0 .. Chunks - 1
  BY Division
<1>2. Chunks \in Nat /\ Chunks > 1  BY DeniseAssumption
<1> HIDE DEF p, q
<1>3. CASE p < q
  <2>1. Chunks * p + Chunks <= Chunks * q  BY <1>1, <1>2, <1>3, Scale
  <2>2. Chunks * p \in Int /\ Chunks * q \in Int  BY <1>1, <1>2, SMT
  <2> QED  BY <2>1, <2>2, <1>1, <1>2, SMT
<1>4. CASE q < p
  <2>1. Chunks * q + Chunks <= Chunks * p  BY <1>1, <1>2, <1>4, Scale
  <2>2. Chunks * p \in Int /\ Chunks * q \in Int  BY <1>1, <1>2, SMT
  <2> QED  BY <2>1, <2>2, <1>1, <1>2, SMT
<1>5. CASE p = q  BY <1>1, <1>5
<1> QED  BY <1>1, <1>3, <1>4, <1>5, SMT

\* A counter and the one a whole ring later have the same mask.
LEMMA MaskedPeriodic ==
    ASSUME NEW a \in Nat
    PROVE  Masked(a + Chunks) = Masked(a)
<1> DEFINE p == a \div Chunks
           q == (a + Chunks) \div Chunks
<1>1. Chunks \in Nat /\ Chunks > 1 /\ a + Chunks \in Nat
  BY DeniseAssumption, SMT
<1>2. /\ p \in Nat /\ q \in Nat
      /\ a = Chunks * p + Masked(a)
      /\ a + Chunks = Chunks * q + Masked(a + Chunks)
      /\ Masked(a) \in 0 .. Chunks - 1
      /\ Masked(a + Chunks) \in 0 .. Chunks - 1
  BY <1>1, Division
<1> HIDE DEF p, q
<1>3. /\ Chunks * (p + 1) = Chunks * p + Chunks
      /\ Chunks * p \in Int /\ Chunks * q \in Int
  BY <1>1, <1>2, SMT
<1>4. CASE q < p + 1
  <2>1. Chunks * q + Chunks <= Chunks * (p + 1)  BY <1>1, <1>2, <1>4, Scale
  <2> QED  BY <2>1, <1>1, <1>2, <1>3, SMT
<1>5. CASE p + 1 < q
  <2>1. Chunks * (p + 1) + Chunks <= Chunks * q  BY <1>1, <1>2, <1>5, Scale
  <2> QED  BY <2>1, <1>1, <1>2, <1>3, SMT
<1>6. CASE q = p + 1  BY <1>6, <1>1, <1>2, <1>3, SMT
<1> QED  BY <1>2, <1>4, <1>5, <1>6, SMT

-----------------------------------------------------------------------------
(* Type correctness.                                                       *)

\* drawing_init leaves every variable in its type.
LEMMA InitTypeOK == Init => TypeOK
<1> SUFFICES ASSUME Init PROVE TypeOK  OBVIOUS
<1>1. NoEntry \in Entry  BY SMT DEF NoEntry, Entry
<1>2. rga_queue \in [0 .. Chunks - 1 -> Entry]  BY <1>1 DEF Init
<1>3. read_sem \in 0 .. SemMax /\ write_sem \in 0 .. SemMax
  BY DeniseAssumption, SMT DEF Init
<1>4. item \in Entry  BY <1>1 DEF Init
<1>5. thread_debug_lock \in BOOLEAN /\ quit_program \in BOOLEAN  BY DEF Init
<1> QED  BY <1>2, <1>3, <1>4, <1>5, SMT DEF Init, TypeOK, CpuPc, DenisePc

\* No step of either thread leaves the types: read_sem and write_sem are only
\* taken when positive.
LEMMA NextTypeOK == TypeOK /\ [Next]_vars => TypeOK'
<1> SUFFICES ASSUME TypeOK, [Next]_vars PROVE TypeOK'  OBVIOUS
<1> USE DeniseAssumption DEF TypeOK, CpuPc, DenisePc, vars, queueVars, beamVars
<1>1. CASE BeamMoves  BY <1>1, SMT DEF BeamMoves
<1>2. ASSUME NEW t \in Types, NEW final \in BOOLEAN, Queue(t, final)
      PROVE  TypeOK'
  <2>1. t \in 0 .. 7  BY SMT
  <2>2. [type |-> t, startpos |-> rga_denise_cycle_start,
         endpos |-> rga_denise_cycle, final |-> final] \in Entry
    BY <2>1, SMT DEF Entry
  <2> QED  BY <1>2, <2>2, SMT DEF Queue, NextLine
<1>3. ASSUME NEW pc \in {"flush", "unlock"}, StartFlush(pc)
      PROVE  TypeOK'
  BY <1>3, SMT DEF StartFlush
<1>4. CASE StartDraw  BY <1>4, SMT DEF StartDraw
<1>17. CASE StartReset
  <2>1. quit_program' \in BOOLEAN  BY <1>17, Zenon DEF StartReset
  <2>2. /\ cpu' = "reset"
        /\ UNCHANGED <<queueVars, beamVars, thread_debug_lock, item, denise>>
    BY <1>17, Zenon DEF StartReset
  <2> QED  BY <2>1, <2>2, SMT
<1>5. CASE Quit       BY <1>5, SMT DEF Quit
<1>6. CASE WaitQueue  BY <1>6, SMT DEF WaitQueue
<1>7. CASE FillEntry
  <2>1. Masked(rga_queue_write) \in 0 .. Chunks - 1  BY Division
  <2> QED  BY <1>7, <2>1, SMT DEF FillEntry
<1>8. CASE Publish    BY <1>8, SMT DEF Publish
<1>9. CASE PostWrite
  <2>1. Post(write_sem) \in 0 .. SemMax  BY SMT DEF Post
  <2>2. NextLine(item) \in Nat  BY DEF NextLine
  <2> QED  BY <1>9, <2>1, <2>2, SMT DEF PostWrite
<1>10. CASE Flush
  <2>1. thread_debug_lock' \in BOOLEAN  BY <1>10, Zenon DEF Flush, Flushed
  <2> QED  BY <1>10, <2>1, SMT DEF Flush, Flushed
<1>11. CASE Look      BY <1>11, SMT DEF Look
<1>12. CASE Wake      BY <1>12, SMT DEF Wake
<1>13. CASE DrawEntry BY <1>13, SMT DEF DrawEntry
<1>14. CASE Advance   BY <1>14, SMT DEF Advance
<1>15. CASE PostRead  BY <1>15, SMT DEF PostRead, Post
<1>16. CASE UNCHANGED vars  BY <1>16, SMT
<1> QED  BY <1>1, <1>2, <1>3, <1>4, <1>5, <1>6, <1>7, <1>8, <1>9, <1>10,
            <1>11, <1>12, <1>13, <1>14, <1>15, <1>16, <1>17
         DEF Next, CpuCalls, CpuSteps, Denise

\* Every variable of the queue keeps its type: the counters never go below
\* zero and the program counters stay within the calls that are modelled.
THEOREM TypeCorrect == Spec => []TypeOK
  BY InitTypeOK, NextTypeOK, PTL DEF Spec

-----------------------------------------------------------------------------
(* The inductive invariant, one part at a time.                            *)

\* The invariant holds when the draw thread is started.
LEMMA InitIInv == Init => IInv
<1> SUFFICES ASSUME Init PROVE IInv  OBVIOUS
<1>1. TypeOK  BY InitTypeOK
<1>2. Bounds  BY DeniseAssumption, SMT DEF Init, Bounds, InFlight
<1>3. Pending = {}  BY SMT DEF Init, Pending
<1>4. ItemFilled /\ LockHeld  BY <1>3 DEF Init, ItemFilled, LockHeld
<1>5. BeamNear  BY <1>3, DeniseAssumption, SMT DEF Init, BeamNear
<1> QED  BY <1>1, <1>2, <1>4, <1>5 DEF IInv

\* A ring that is not full has room for one more entry.
LEMMA RoomWhenNotFull ==
    ASSUME TypeOK, Bounds, ~Full
    PROVE  InFlight < Chunks - 1
<1>1. /\ rga_queue_read \in Nat /\ rga_queue_write \in Nat
      /\ Chunks \in Nat /\ Chunks > 1
  BY DeniseAssumption DEF TypeOK
<1>2. CASE InFlight = Chunks - 1
  <2>1. rga_queue_write + 1 = rga_queue_read + Chunks
    BY <1>1, <1>2, SMT DEF InFlight
  <2>2. Full  BY <1>1, <2>1, MaskedPeriodic DEF Full
  <2> QED  BY <2>2
<1> QED  BY <1>1, <1>2, SMT DEF Bounds, InFlight

\* The counters stay less than a ring apart, whichever thread moves.
LEMMA NextBounds == TypeOK /\ Bounds /\ [Next]_vars => Bounds'
<1> SUFFICES ASSUME TypeOK, Bounds, [Next]_vars PROVE Bounds'  OBVIOUS
<1>0. /\ rga_queue_read \in Nat /\ rga_queue_write \in Nat
      /\ Chunks \in Nat /\ Chunks > 1
  BY DeniseAssumption DEF TypeOK
<1> USE DEF Bounds, InFlight, vars, queueVars, beamVars
<1>1. CASE BeamMoves  BY <1>1, SMT DEF BeamMoves
<1>2. ASSUME NEW t \in Types, NEW final \in BOOLEAN, Queue(t, final)
      PROVE  Bounds'
  BY <1>2, SMT DEF Queue
<1>3. ASSUME NEW pc \in {"flush", "unlock"}, StartFlush(pc)
      PROVE  Bounds'
  BY <1>3, SMT DEF StartFlush
<1>4. CASE StartDraw  BY <1>4, SMT DEF StartDraw
<1>17. CASE StartReset
  <2>1. /\ cpu' = "reset"
        /\ UNCHANGED <<queueVars, denise>>
    BY <1>17, Zenon DEF StartReset
  <2> QED  BY <2>1, SMT
<1>5. CASE Quit       BY <1>5, SMT DEF Quit
<1>6. CASE WaitQueue  BY <1>6, RoomWhenNotFull, SMT DEF WaitQueue
<1>7. CASE FillEntry  BY <1>7, SMT DEF FillEntry
<1>8. CASE Publish    BY <1>0, <1>8, SMT DEF Publish
<1>9. CASE PostWrite  BY <1>9, SMT DEF PostWrite
<1>10. CASE Flush     BY <1>10, SMT DEF Flush, Flushed
<1>11. CASE Look      BY <1>0, <1>11, SMT DEF Look, Empty
<1>12. CASE Wake      BY <1>12, SMT DEF Wake
<1>13. CASE DrawEntry BY <1>13, SMT DEF DrawEntry
<1>14. CASE Advance   BY <1>0, <1>14, SMT DEF Advance
<1>15. CASE PostRead  BY <1>15, SMT DEF PostRead
<1>16. CASE UNCHANGED vars  BY <1>16, SMT
<1> QED  BY <1>1, <1>2, <1>3, <1>4, <1>5, <1>6, <1>7, <1>8, <1>9, <1>10,
            <1>11, <1>12, <1>13, <1>14, <1>15, <1>16, <1>17
         DEF Next, CpuCalls, CpuSteps, Denise

\* Filling an entry writes the one at the write counter and leaves those in
\* flight alone.
LEMMA FillKeepsPending ==
    ASSUME TypeOK, Bounds, FillEntry
    PROVE  /\ EntryAt(rga_queue_write)' = item
           /\ \A k \in Pending : EntryAt(k)' = EntryAt(k)
<1>1. /\ rga_queue_read \in Nat /\ rga_queue_write \in Nat
      /\ Chunks \in Nat /\ Chunks > 1
      /\ rga_queue \in [0 .. Chunks - 1 -> Entry]
      /\ Masked(rga_queue_write) \in 0 .. Chunks - 1
  BY DeniseAssumption, Division DEF TypeOK
<1>2. rga_queue' = [rga_queue EXCEPT ![Masked(rga_queue_write)] = item]
  BY DEF FillEntry
<1>3. rga_queue_write' = rga_queue_write  BY DEF FillEntry
<1>4. EntryAt(rga_queue_write)' = item
  BY <1>1, <1>2, <1>3 DEF EntryAt
<1>5. ASSUME NEW k \in Pending PROVE EntryAt(k)' = EntryAt(k)
  <2>1. /\ k \in Nat /\ k < rga_queue_write
        /\ rga_queue_write - k < Chunks
    BY <1>1, SMT DEF Pending, Bounds, InFlight
  <2>2. Masked(k) # Masked(rga_queue_write)
    BY <1>1, <2>1, MaskedInjective, SMT
  <2>3. Masked(k) \in 0 .. Chunks - 1  BY <2>1, Division
  <2> QED  BY <1>1, <1>2, <2>2, <2>3 DEF EntryAt
<1> QED  BY <1>4, <1>5

\* Nothing but FillEntry writes the ring before the entry is published.
LEMMA NextItemFilled ==
    TypeOK /\ Bounds /\ ItemFilled /\ [Next]_vars => ItemFilled'
<1> SUFFICES ASSUME TypeOK, Bounds, ItemFilled, [Next]_vars
             PROVE  ItemFilled'
  OBVIOUS
<1> USE DEF ItemFilled, EntryAt, vars, queueVars, beamVars
<1>1. CASE FillEntry
  <2>1. EntryAt(rga_queue_write)' = item  BY <1>1, FillKeepsPending
  <2> QED  BY <1>1, <2>1 DEF FillEntry
<1>2. CASE CpuCalls
  BY <1>2 DEF CpuCalls, BeamMoves, Queue, StartFlush, StartReset, StartDraw, Quit
<1>3. CASE WaitQueue \/ Publish \/ PostWrite \/ Flush
  BY <1>3, SMT DEF WaitQueue, Publish, PostWrite, Flush, Flushed
<1>4. CASE Denise
  BY <1>4, SMT DEF Denise, Look, Wake, DrawEntry, Advance, PostRead
<1>5. CASE UNCHANGED vars  BY <1>5, SMT
<1> QED  BY <1>1, <1>2, <1>3, <1>4, <1>5 DEF Next, CpuSteps

\* What the draw thread does leaves the ring and the write counter alone, and
\* at most drops the oldest entry in flight.
LEMMA DrawThreadKeepsEntries ==
    ASSUME TypeOK, Denise
    PROVE  /\ Pending' \subseteq Pending
           /\ \A k \in Pending : EntryAt(k)' = EntryAt(k)
           /\ UNCHANGED <<rga_queue_write, beamVars, thread_debug_lock,
                          quit_program, cpu, item>>
<1>1. rga_queue_read \in Nat /\ rga_queue_write \in Nat  BY DEF TypeOK
<1> QED  BY <1>1, SMT DEF Denise, Look, Wake, DrawEntry, Advance, PostRead,
            Pending, EntryAt, queueVars, beamVars

\* Publishing adds the filled entry to those in flight.
LEMMA PublishAddsItem ==
    ASSUME TypeOK, Bounds, ItemFilled, Publish
    PROVE  /\ Pending' = Pending \cup {rga_queue_write}
           /\ rga_queue_write \notin Pending
           /\ rga_queue'[Masked(rga_queue_write)] = item
           /\ \A k \in Pending : EntryAt(k)' = EntryAt(k)
<1>1. rga_queue_read \in Nat /\ rga_queue_write \in Nat
      /\ rga_queue_read <= rga_queue_write
  BY DEF TypeOK, Bounds
<1>2. /\ rga_queue' = rga_queue
      /\ rga_queue_read' = rga_queue_read
      /\ rga_queue_write' = rga_queue_write + 1
  BY DEF Publish
<1>3. EntryAt(rga_queue_write) = item  BY DEF Publish, ItemFilled
<1>4. /\ Pending' = Pending \cup {rga_queue_write}
      /\ rga_queue_write \notin Pending
  BY <1>1, <1>2, SMT DEF Pending
<1>5. rga_queue[Masked(rga_queue_write)] = item  BY <1>3 DEF EntryAt
<1> QED  BY <1>2, <1>4, <1>5 DEF EntryAt

\* The frame buffer is not unlocked while an entry that needs it is in flight.
LEMMA NextLockHeld ==
    TypeOK /\ Bounds /\ ItemFilled /\ LockHeld /\ [Next]_vars => LockHeld'
<1> SUFFICES ASSUME TypeOK, Bounds, ItemFilled, LockHeld, [Next]_vars
             PROVE  LockHeld'
  OBVIOUS
<1> USE DEF LockHeld, vars, queueVars, beamVars
<1>1. CASE BeamMoves \/ Quit
  BY <1>1, SMT DEF BeamMoves, Quit, Pending, EntryAt
<1>10. CASE StartReset
  BY <1>10, Zenon DEF StartReset, Pending, EntryAt
<1>2. ASSUME NEW t \in Types, NEW final \in BOOLEAN, Queue(t, final)
      PROVE  LockHeld'
  BY <1>2 DEF Queue, Dropped, Pending, EntryAt
<1>3. CASE (\E pc \in {"flush", "unlock"} : StartFlush(pc)) \/ StartDraw
  BY <1>3, SMT DEF StartFlush, StartDraw, Pending, EntryAt
<1>4. CASE WaitQueue \/ PostWrite
  BY <1>4, SMT DEF WaitQueue, PostWrite, Pending, EntryAt
<1>5. CASE FillEntry
  <2>1. \A k \in Pending : EntryAt(k)' = EntryAt(k)
    BY <1>5, FillKeepsPending
  <2>2. Pending' = Pending  BY <1>5 DEF FillEntry, Pending
  <2> QED  BY <1>5, <2>1, <2>2 DEF FillEntry
<1>6. CASE Publish
  <2>1. /\ Pending' = Pending \cup {rga_queue_write}
        /\ rga_queue'[Masked(rga_queue_write)] = item
        /\ \A k \in Pending : EntryAt(k)' = EntryAt(k)
    BY <1>6, PublishAddsItem
  <2> QED  BY <1>6, <2>1 DEF Publish, EntryAt
<1>7. CASE Flush
  <2>1. CASE rga_queue_read = rga_queue_write
    <3>1. rga_queue_read \in Nat  BY DEF TypeOK
    <3>2. Pending' = {}  BY <1>7, <2>1, <3>1, SMT DEF Flush, Flushed, Pending
    <3> QED  BY <1>7, <2>1, <3>2 DEF Flush, Flushed
  <2>2. CASE rga_queue_read # rga_queue_write
    BY <1>7, <2>2 DEF Flush, Pending, EntryAt
  <2> QED  BY <2>1, <2>2
<1>8. CASE Denise  BY <1>8, DrawThreadKeepsEntries
<1>9. CASE UNCHANGED vars  BY <1>9, SMT DEF Pending, EntryAt
<1> QED  BY <1>1, <1>2, <1>3, <1>4, <1>5, <1>6, <1>7, <1>8, <1>9,
            <1>10
         DEF Next, CpuCalls, CpuSteps

\* BeamNear says of each entry in flight what this says of one.
Near(k) == EntryAt(k).type \notin NoLockTypes =>
               rga_denise_cycle_start
                   <= EntryAt(k).startpos + Ended(k) * LineLen

\* One line more.
LEMMA OneMoreLine ==
    ASSUME NEW n \in Int
    PROVE  /\ n * LineLen \in Int
           /\ (n + 1) * LineLen = n * LineLen + LineLen
  BY DeniseAssumption, SMT

\* The beam stays within a line of the current start, which stays within a
\* line per queued entry of the starts of the entries in flight.
LEMMA NextBeamNear ==
    IInv /\ [Next]_vars => BeamNear'
<1> SUFFICES ASSUME IInv, [Next]_vars PROVE BeamNear'  OBVIOUS
<1>0. /\ rga_queue_read \in Nat /\ rga_queue_write \in Nat
      /\ rga_denise_cycle \in Nat /\ rga_denise_cycle_start \in Nat
      /\ item \in Entry
      /\ LineLen \in Nat /\ LineLen > 0
      /\ TypeOK /\ Bounds /\ ItemFilled /\ LockHeld /\ BeamNear
  BY DeniseAssumption DEF IInv, TypeOK
<1> USE DEF vars, queueVars, beamVars, Running
<1>1. CASE BeamMoves
  BY <1>0, <1>1, SMT DEF BeamMoves, BeamNear, Pending, EntryAt, Ended
<1>2. ASSUME NEW t \in Types, NEW final \in BOOLEAN, Queue(t, final)
      PROVE  BeamNear'
  <2> DEFINE e == [type |-> t, startpos |-> rga_denise_cycle_start,
                   endpos |-> rga_denise_cycle, final |-> final]
  <2>1. /\ cpu = "run" /\ rga_denise_cycle' = rga_denise_cycle
        /\ UNCHANGED <<rga_queue, rga_queue_read, rga_queue_write,
                       thread_debug_lock, quit_program>>
    BY <1>2 DEF Queue
  <2>2. /\ Pending' = Pending
        /\ \A k \in Pending : EntryAt(k)' = EntryAt(k)
    BY <2>1 DEF Pending, EntryAt
  <2>3. CASE Dropped(t)
    <3>1. /\ cpu' = "run"
          /\ \/ rga_denise_cycle_start' = rga_denise_cycle_start
             \/ rga_denise_cycle_start' = rga_denise_cycle
      BY <1>2, <2>1, <2>3 DEF Queue, NextLine
    <3>2. Running => \A k \in Pending : EntryAt(k).type \in NoLockTypes
      BY <1>0, <2>3 DEF Dropped, LockHeld
    <3> QED  BY <1>0, <2>1, <2>2, <3>1, <3>2, SMT DEF BeamNear
  <2>4. CASE ~Dropped(t)
    <3>1. /\ cpu' = "wait" /\ item' = e
          /\ rga_denise_cycle_start' = rga_denise_cycle_start
      BY <1>2, <2>4 DEF Queue
    <3>2. item'.startpos = rga_denise_cycle_start'  BY <3>1
    <3>3. \A k \in Pending : Ended(k)' = Ended(k)
      BY <2>1, <3>1 DEF Ended
    <3> HIDE DEF e
    <3> QED  BY <1>0, <2>1, <2>2, <3>1, <3>2, <3>3 DEF BeamNear
  <2> QED  BY <2>3, <2>4
<1>3. CASE (\E pc \in {"flush", "unlock"} : StartFlush(pc))
             \/ StartDraw \/ Quit
  BY <1>0, <1>3, SMT DEF StartFlush, StartDraw, Quit, BeamNear, Pending,
                         EntryAt, Ended
<1>11. CASE StartReset
  <2>1. /\ cpu = "run" /\ cpu' = "reset"
        /\ UNCHANGED beamVars
    BY <1>11, Zenon DEF StartReset
  <2> QED  BY <1>0, <2>1 DEF BeamNear
<1>4. CASE WaitQueue
  BY <1>0, <1>4, SMT DEF WaitQueue, BeamNear, Pending, EntryAt, Ended
<1>5. CASE FillEntry
  <2>1. /\ Pending' = Pending
        /\ \A k \in Pending : /\ EntryAt(k)' = EntryAt(k)
                              /\ Ended(k)' = Ended(k)
    BY <1>0, <1>5, FillKeepsPending DEF FillEntry, Pending, Ended
  <2> QED  BY <1>0, <1>5, <2>1 DEF FillEntry, BeamNear
<1>6. CASE Publish
  <2>1. /\ Pending' = Pending \cup {rga_queue_write}
        /\ rga_queue'[Masked(rga_queue_write)] = item
        /\ \A k \in Pending : EntryAt(k)' = EntryAt(k)
    BY <1>0, <1>6, PublishAddsItem
  <2>2. /\ cpu = "publish" /\ cpu' = "post"
        /\ rga_queue_write' = rga_queue_write + 1
        /\ UNCHANGED <<rga_denise_cycle, rga_denise_cycle_start,
                       quit_program, item>>
        /\ item.startpos = rga_denise_cycle_start
    BY <1>0, <1>6 DEF Publish, BeamNear
  <2>3. ASSUME Running, NEW k \in Pending PROVE Near(k)'
    <3>1. k \in Int  BY <1>0, SMT DEF Pending
    <3>2. Ended(k)' = Ended(k)  BY <1>0, <2>2, <3>1, SMT DEF Ended
    <3> QED  BY <1>0, <2>1, <2>2, <2>3, <3>2 DEF BeamNear, Near
  <2>4. ASSUME NEW w \in {rga_queue_write} PROVE Near(w)'
    <3>1. Ended(w)' = 0  BY <1>0, <2>2, SMT DEF Ended
    <3>2. EntryAt(w)' = item  BY <2>1 DEF EntryAt
    <3>3. Ended(w)' * LineLen = 0  BY <1>0, <3>1, SMT
    <3> QED  BY <1>0, <2>2, <3>2, <3>3, SMT DEF Near
  <2>5. Running' => Running  BY <2>2
  <2>6. Running' => \A k \in Pending' : Near(k)'
    BY <2>1, <2>3, <2>4, <2>5
  <2>7. /\ rga_denise_cycle_start' <= rga_denise_cycle'
        /\ rga_denise_cycle' < rga_denise_cycle_start' + LineLen
    BY <1>0, <2>2 DEF BeamNear
  <2> QED  BY <2>2, <2>6, <2>7 DEF BeamNear, Near
<1>7. CASE PostWrite
  <2>1. /\ cpu = "post" /\ cpu' = "run"
        /\ UNCHANGED <<rga_queue, rga_queue_read, rga_queue_write,
                       rga_denise_cycle, quit_program>>
        /\ \/ rga_denise_cycle_start' = rga_denise_cycle_start
           \/ rga_denise_cycle_start' = rga_denise_cycle
    BY <1>7 DEF PostWrite, NextLine
  <2>2. /\ Pending' = Pending
        /\ \A k \in Pending : EntryAt(k)' = EntryAt(k)
    BY <2>1 DEF Pending, EntryAt
  <2>3. ASSUME Running, NEW k \in Pending PROVE Near(k)'
    <3>1. k \in Int /\ Ended(k) \in Int  BY <1>0, SMT DEF Pending, Ended
    <3>2. Ended(k)' = Ended(k) + 1  BY <1>0, <2>1, <3>1, SMT DEF Ended
    <3>3. /\ Ended(k) * LineLen \in Int
          /\ Ended(k)' * LineLen = Ended(k) * LineLen + LineLen
      BY <3>1, <3>2, OneMoreLine
    <3>4. rga_queue[Masked(k)] \in Entry
      <4>1. k \in Nat  BY <1>0, SMT DEF Pending
      <4> QED  BY <1>0, <4>1, Division DEF TypeOK
    <3>5. EntryAt(k).startpos \in Nat  BY <3>4, SMT DEF Entry, EntryAt
    <3>6. Near(k)  BY <1>0, <2>3 DEF BeamNear, Near
    <3>7. rga_denise_cycle_start' < rga_denise_cycle_start + LineLen
      BY <1>0, <2>1, SMT DEF BeamNear
    <3>8. EntryAt(k)' = EntryAt(k)  BY <2>2
    <3>9. rga_denise_cycle_start' \in Nat  BY <1>0, <2>1
    <3>10. ASSUME EntryAt(k).type \notin NoLockTypes
           PROVE  rga_denise_cycle_start'
                      <= EntryAt(k).startpos + Ended(k)' * LineLen
      <4>1. rga_denise_cycle_start
                <= EntryAt(k).startpos + Ended(k) * LineLen
        BY <3>6, <3>10 DEF Near
      <4> QED  BY <1>0, <4>1, <3>3, <3>5, <3>7, <3>9, SMT
    <3> QED  BY <3>8, <3>10 DEF Near
  <2>4. Running' => \A k \in Pending' : Near(k)'
    BY <2>1, <2>2, <2>3
  <2>5. /\ rga_denise_cycle_start' <= rga_denise_cycle'
        /\ rga_denise_cycle' < rga_denise_cycle_start' + LineLen
    BY <1>0, <2>1, SMT DEF BeamNear
  <2> QED  BY <2>1, <2>4, <2>5 DEF BeamNear, Near
<1>8. CASE Flush
  <2>1. /\ cpu \notin {"wait", "fill", "publish", "post"}
        /\ cpu' \notin {"wait", "fill", "publish", "post"}
        /\ UNCHANGED <<rga_queue, rga_queue_read, rga_queue_write,
                       quit_program>>
    BY <1>8 DEF Flush, Flushed
  <2>2. CASE cpu = "reset" /\ rga_queue_read = rga_queue_write
    <3>1. rga_denise_cycle' = 0 /\ rga_denise_cycle_start' = 0
      BY <1>8, <2>2 DEF Flush, Flushed
    <3>2. Pending' = {}  BY <1>0, <2>1, <2>2, SMT DEF Pending
    <3> QED  BY <1>0, <2>1, <3>1, <3>2, SMT DEF BeamNear
  <2>3. CASE ~(cpu = "reset" /\ rga_queue_read = rga_queue_write)
    <3>1. UNCHANGED beamVars /\ (Running' => Running)
      BY <1>8, <2>1, <2>3 DEF Flush, Flushed, Running
    <3> QED  BY <1>0, <2>1, <3>1 DEF BeamNear, Pending, EntryAt, Ended
  <2> QED  BY <2>2, <2>3
<1>9. CASE Denise
  <2>1. /\ Pending' \subseteq Pending
        /\ \A k \in Pending : EntryAt(k)' = EntryAt(k)
        /\ UNCHANGED <<rga_queue_write, beamVars, quit_program, cpu, item>>
    BY <1>0, <1>9, DrawThreadKeepsEntries
  <2>2. \A k \in Pending : Ended(k)' = Ended(k)  BY <2>1 DEF Ended
  <2> QED  BY <1>0, <2>1, <2>2 DEF BeamNear
<1>10. CASE UNCHANGED vars
  BY <1>0, <1>10 DEF BeamNear, Pending, EntryAt, Ended
<1> QED  BY <1>1, <1>2, <1>3, <1>4, <1>5, <1>6, <1>7, <1>8, <1>9, <1>10,
            <1>11
         DEF Next, CpuCalls, CpuSteps

\* Every step preserves the invariant as a whole.
LEMMA NextIInv == IInv /\ [Next]_vars => IInv'
  BY NextTypeOK, NextBounds, NextItemFilled, NextLockHeld, NextBeamNear
  DEF IInv

\* The inductive invariant of the queue: the entries in flight and the beam
\* stay in the relation that the ring sizes of custom.h are chosen for.
THEOREM Inductive == Spec => []IInv
  BY InitIInv, NextIInv, PTL DEF Spec

-----------------------------------------------------------------------------
(* What it gives.                                                          *)

\* The CPU thread never writes the entry that the draw thread is reading,
\* although waitqueue_nolock compares masked counters without any lock.
THEOREM EntriesStable == Spec => []EntryStable
<1>1. IInv => EntryStable
  <2> SUFFICES ASSUME IInv, cpu = "fill", denise \in {"draw", "advance"},
                      Masked(rga_queue_write) = Masked(rga_queue_read)
               PROVE  FALSE
    BY DEF EntryStable
  <2>1. /\ rga_queue_read \in Nat /\ rga_queue_write \in Nat
        /\ Chunks \in Nat
        /\ rga_queue_read < rga_queue_write
        /\ rga_queue_write - rga_queue_read < Chunks
    BY DeniseAssumption, SMT DEF IInv, TypeOK, Bounds, InFlight
  <2> QED  BY <2>1, MaskedInjective, SMT
<1> QED  BY <1>1, Inductive, PTL

\* Every entry that is drawn and needs the frame buffer is drawn while it is
\* locked: end_draw_denise empties the queue before it unlocks.
THEOREM DrawnUnderLock == Spec => []DrawsUnderLock
<1>1. IInv => DrawsUnderLock
  <2> SUFFICES ASSUME IInv, denise \in {"draw", "advance"},
                      ~thread_debug_lock
               PROVE  ThisLine.type \in NoLockTypes
    BY DEF DrawsUnderLock
  <2>1. rga_queue_read \in Pending
    BY SMT DEF IInv, TypeOK, Bounds, InFlight, Pending
  <2>2. EntryAt(rga_queue_read).type \in NoLockTypes
    BY <2>1 DEF IInv, LockHeld
  <2> QED  BY <2>2 DEF EntryAt, ThisLine
<1> QED  BY <1>1, Inductive, PTL

\* Longer distances scale to longer stretches of rga_denise.
LEMMA LinesMonotone ==
    ASSUME NEW m \in Int, NEW n \in Int, m <= n
    PROVE  m * LineLen <= n * LineLen
<1>1. LineLen \in Nat  BY DeniseAssumption
<1>2. (n - m) * LineLen >= 0  BY <1>1, SMT
<1>3. (n - m) * LineLen = n * LineLen - m * LineLen  BY <1>1, SMT
<1> QED  BY <1>1, <1>2, <1>3, SMT

\* The ring of beam slots has no counter of its own; that its reader is never
\* overtaken follows from the bound on the entries in flight and the length
\* of a line.
THEOREM RgaNotOvertaken == Spec => []RgaStable
<1>1. IInv => RgaStable
  <2> SUFFICES ASSUME IInv, Running, NEW i \in 1 .. InFlight,
                      Queued[i].type \notin NoLockTypes
               PROVE  rga_denise_cycle
                          < Queued[i].startpos + DENISE_RGA_SLOT_TOTAL
    BY DEF RgaStable
  <2> DEFINE k == rga_queue_read + i - 1
  <2>1. /\ rga_queue_read \in Nat /\ rga_queue_write \in Nat
        /\ rga_denise_cycle \in Nat /\ rga_denise_cycle_start \in Nat
        /\ Chunks \in Nat /\ LineLen \in Nat
        /\ InFlight \in Nat /\ InFlight <= Chunks - 1
    BY DeniseAssumption, SMT DEF IInv, TypeOK, Bounds, InFlight
  <2>2. k \in Pending /\ k \in Nat  BY <2>1, SMT DEF Pending, InFlight
  <2>3. Queued[i] = EntryAt(k)  BY DEF Queued, EntryAt
  <2>4. rga_denise_cycle_start <= EntryAt(k).startpos + Ended(k) * LineLen
    BY <2>2, <2>3 DEF IInv, BeamNear
  <2>5. Ended(k) \in Int /\ Ended(k) <= Chunks - 1
    BY <2>1, <2>2, SMT DEF Ended, InFlight
  <2>6. Ended(k) * LineLen <= (Chunks - 1) * LineLen
    BY <2>1, <2>5, LinesMonotone, SMT
  <2>7. /\ Ended(k) * LineLen \in Int
        /\ (Chunks - 1) * LineLen \in Int
        /\ DENISE_RGA_SLOT_TOTAL = (Chunks - 1) * LineLen + LineLen
    BY <2>1, <2>5, SMT DEF DENISE_RGA_SLOT_TOTAL
  <2>8. EntryAt(k).startpos \in Nat
    <3>1. rga_queue[Masked(k)] \in Entry
      BY <2>2, Division DEF IInv, TypeOK
    <3> QED  BY <3>1, SMT DEF Entry, EntryAt
  <2>9. rga_denise_cycle < rga_denise_cycle_start + LineLen
    BY DEF IInv, BeamNear
  <2>10. DENISE_RGA_SLOT_TOTAL \in Int  BY <2>1, <2>7
  <2> HIDE DEF k
  <2> QED
    BY <2>1, <2>3, <2>4, <2>6, <2>7, <2>8, <2>9, <2>10, SMT
<1> QED  BY <1>1, Inductive, PTL

-----------------------------------------------------------------------------
(* The queue implements the abstract one.                                  *)

\* Queued is a sequence of entries, one for each in flight.
QueuedIsSeq ==
    /\ InFlight \in Nat
    /\ Queued \in Seq(Entry)
    /\ Len(Queued) = InFlight
    /\ \A i \in 1 .. InFlight :
           Queued[i] = rga_queue[Masked(rga_queue_read + i - 1)]

\* The entries in flight form a sequence of the counters' distance.
LEMMA QueuedSeq == IInv => QueuedIsSeq
<1> SUFFICES ASSUME IInv PROVE QueuedIsSeq  OBVIOUS
<1>1. /\ rga_queue_read \in Nat /\ rga_queue_write \in Nat
      /\ rga_queue \in [0 .. Chunks - 1 -> Entry]
      /\ InFlight \in Nat
  BY SMT DEF IInv, TypeOK, Bounds, InFlight
<1>2. ASSUME NEW i \in 1 .. InFlight
      PROVE  rga_queue[Masked(rga_queue_read + i - 1)] \in Entry
  <2>1. rga_queue_read + i - 1 \in Nat  BY <1>1, SMT
  <2>2. Masked(rga_queue_read + i - 1) \in 0 .. Chunks - 1
    BY <2>1, Division
  <2> QED  BY <1>1, <2>2
<1>3. Queued \in [1 .. InFlight -> Entry]  BY <1>2 DEF Queued
<1>4. Queued \in Seq(Entry)  BY <1>1, <1>3, SeqDef
<1>5. Len(Queued) \in Nat /\ DOMAIN Queued = 1 .. Len(Queued)
  BY <1>4, LenProperties
<1>6. DOMAIN Queued = 1 .. InFlight  BY <1>3
<1>7. Len(Queued) = InFlight
  <2> DEFINE m == Len(Queued)
             n == InFlight
  <2>1. m \in Nat /\ n \in Nat /\ 1 .. m = 1 .. n  BY <1>1, <1>5, <1>6
  <2> HIDE DEF m, n
  <2>2. m = n  BY <2>1, SMT
  <2> QED  BY <2>2 DEF m, n
<1> QED  BY <1>1, <1>4, <1>7 DEF Queued, QueuedIsSeq

\* Publishing appends the entry to the abstract queue.
LEMMA PublishIsPut ==
    ASSUME IInv, IInv', Publish
    PROVE  Fifo!Put
<1> DEFINE q == Queued
           r == Append(Queued, item)
<1>1. /\ rga_queue_read \in Nat /\ rga_queue_write \in Nat
      /\ item \in Entry
      /\ InFlight < Chunks - 1
  BY SMT DEF IInv, TypeOK, Bounds, Publish
<1>2. /\ rga_queue' = rga_queue
      /\ rga_queue_read' = rga_queue_read
      /\ rga_queue_write' = rga_queue_write + 1
      /\ rga_queue[Masked(rga_queue_write)] = item
  BY DEF Publish, IInv, ItemFilled, EntryAt
<1>3. /\ InFlight \in Nat
      /\ q \in Seq(Entry) /\ Len(q) = InFlight
      /\ \A i \in 1 .. InFlight :
             q[i] = rga_queue[Masked(rga_queue_read + i - 1)]
  BY QueuedSeq DEF QueuedIsSeq
<1>4. /\ q' \in Seq(Entry) /\ Len(q') = InFlight'
      /\ \A i \in 1 .. InFlight' :
             q'[i] = rga_queue'[Masked(rga_queue_read' + i - 1)]
  <2>1. QueuedIsSeq'  BY QueuedSeq, PTL
  <2> QED  BY <2>1 DEF QueuedIsSeq
<1>5. InFlight' = InFlight + 1  BY <1>1, <1>2, SMT DEF InFlight
<1>6. /\ r \in Seq(Entry) /\ Len(r) = InFlight + 1
      /\ \A i \in 1 .. InFlight : r[i] = q[i]
      /\ r[InFlight + 1] = item
  BY <1>1, <1>3, AppendProperties
<1>7. ASSUME NEW i \in 1 .. InFlight + 1 PROVE q'[i] = r[i]
  <2>1. q'[i] = rga_queue[Masked(rga_queue_read + i - 1)]
    BY <1>2, <1>4, <1>5
  <2>2. CASE i = InFlight + 1
    <3>1. rga_queue_read + i - 1 = rga_queue_write
      BY <1>1, <2>2, SMT DEF InFlight
    <3> QED  BY <1>2, <1>6, <2>1, <2>2, <3>1
  <2>3. CASE i # InFlight + 1
    <3>1. i \in 1 .. InFlight  BY <1>3, <2>3, SMT
    <3> QED  BY <1>3, <1>6, <2>1, <3>1
  <2> QED  BY <2>2, <2>3
<1> HIDE DEF r, q
<1>8. q' = r  BY <1>4, <1>5, <1>6, <1>7, SeqEqual
<1>9. Fifo!Newest(q') = item
  BY <1>3, <1>6, <1>8, SMT DEF Fifo!Newest
<1>10. q' # << >>  BY <1>3, <1>6, <1>8, EmptySeq, SMT
<1> QED  BY <1>1, <1>3, <1>8, <1>9, <1>10 DEF Fifo!Put, q, r

\* Advancing the read counter removes the oldest entry.
LEMMA AdvanceIsTake ==
    ASSUME IInv, IInv', Advance
    PROVE  Fifo!Take
<1> DEFINE q == Queued
<1>1. /\ rga_queue_read \in Nat /\ rga_queue_write \in Nat
      /\ InFlight > 0
  BY SMT DEF IInv, TypeOK, Bounds, Advance
<1>2. /\ rga_queue' = rga_queue
      /\ rga_queue_read' = rga_queue_read + 1
      /\ rga_queue_write' = rga_queue_write
  BY DEF Advance
<1>3. /\ InFlight \in Nat
      /\ q \in Seq(Entry) /\ Len(q) = InFlight
      /\ \A i \in 1 .. InFlight :
             q[i] = rga_queue[Masked(rga_queue_read + i - 1)]
  BY QueuedSeq DEF QueuedIsSeq
<1>4. /\ q' \in Seq(Entry) /\ Len(q') = InFlight'
      /\ \A i \in 1 .. InFlight' :
             q'[i] = rga_queue'[Masked(rga_queue_read' + i - 1)]
  <2>1. QueuedIsSeq'  BY QueuedSeq, PTL
  <2> QED  BY <2>1 DEF QueuedIsSeq
<1>5. InFlight' = InFlight - 1  BY <1>1, <1>2, SMT DEF InFlight
<1> HIDE DEF q
<1>6. q # << >>  BY <1>1, <1>3, EmptySeq
<1>7. /\ Tail(q) \in Seq(Entry) /\ Len(Tail(q)) = InFlight - 1
      /\ \A i \in 1 .. InFlight - 1 : Tail(q)[i] = q[i + 1]
  BY <1>3, <1>6, HeadTailProperties
<1>8. ASSUME NEW i \in 1 .. InFlight - 1 PROVE q'[i] = Tail(q)[i]
  <2>1. q'[i] = rga_queue[Masked(rga_queue_read + 1 + i - 1)]
    BY <1>2, <1>4, <1>5
  <2>2. i + 1 \in 1 .. InFlight  BY <1>3, SMT
  <2>3. Tail(q)[i] = rga_queue[Masked(rga_queue_read + (i + 1) - 1)]
    BY <1>3, <1>7, <2>2
  <2>4. rga_queue_read + 1 + i - 1 = rga_queue_read + (i + 1) - 1
    BY <1>1, SMT
  <2> QED  BY <2>1, <2>3, <2>4
<1>9. q' = Tail(q)  BY <1>4, <1>5, <1>7, <1>8, SeqEqual
<1> QED  BY <1>6, <1>9 DEF Fifo!Take, q

\* No other step changes the abstract queue.
LEMMA OthersStutter ==
    ASSUME IInv, [Next]_vars, ~Publish, ~Advance
    PROVE  UNCHANGED Queued
<1>1. CASE FillEntry
  <2>1. /\ rga_queue_read \in Nat /\ rga_queue_write \in Nat
        /\ \A k \in Pending : rga_queue'[Masked(k)] = rga_queue[Masked(k)]
    BY <1>1, FillKeepsPending DEF IInv, TypeOK, EntryAt
  <2>2. InFlight' = InFlight /\ rga_queue_read' = rga_queue_read
    BY <1>1 DEF FillEntry, InFlight
  <2>3. ASSUME NEW i \in 1 .. InFlight
        PROVE  rga_queue'[Masked(rga_queue_read + i - 1)]
                   = rga_queue[Masked(rga_queue_read + i - 1)]
    <3>1. rga_queue_read + i - 1 \in Pending
      BY <2>1, SMT DEF Pending, InFlight
    <3> QED  BY <2>1, <3>1
  <2> QED  BY <2>2, <2>3 DEF Queued
<1>2. CASE UNCHANGED <<rga_queue, rga_queue_read, rga_queue_write>>
  BY <1>2 DEF Queued, InFlight
<1>3. CASE UNCHANGED vars  BY <1>2, <1>3 DEF vars, queueVars
<1>4. CASE CpuCalls
  BY <1>2, <1>4
  DEF CpuCalls, BeamMoves, Queue, StartFlush, StartReset, StartDraw, Quit, queueVars
<1>5. CASE WaitQueue \/ PostWrite \/ Flush
  BY <1>2, <1>5 DEF WaitQueue, PostWrite, Flush
<1>6. CASE Look \/ Wake \/ DrawEntry \/ PostRead
  BY <1>2, <1>6 DEF Look, Wake, DrawEntry, PostRead, queueVars
<1> QED  BY <1>1, <1>3, <1>4, <1>5, <1>6 DEF Next, CpuSteps, Denise

\* Lines are drawn in the order in which they were queued, each once, and at
\* most Chunks - 1 are in flight: the ring with its two counters and its two
\* semaphores is a bounded FIFO.
THEOREM ImplementsFifo == Spec => FifoSpec
<1>1. Init => Fifo!Init
  <2> SUFFICES ASSUME Init PROVE Queued = << >>  BY DEF Fifo!Init
  <2>1. IInv  BY InitIInv
  <2>2. InFlight = 0  BY SMT DEF Init, InFlight
  <2> QED  BY <2>1, <2>2, QueuedSeq, EmptySeq DEF QueuedIsSeq
<1>2. IInv /\ IInv' /\ [Next]_vars => [Fifo!Next]_Queued
  <2> SUFFICES ASSUME IInv, IInv', [Next]_vars PROVE [Fifo!Next]_Queued
    OBVIOUS
  <2>1. CASE Publish  BY <2>1, PublishIsPut DEF Fifo!Next
  <2>2. CASE Advance  BY <2>2, AdvanceIsTake DEF Fifo!Next
  <2> QED  BY <2>1, <2>2, OthersStutter
<1> QED  BY <1>1, <1>2, Inductive, PTL DEF Spec, FifoSpec, Fifo!Spec

-----------------------------------------------------------------------------
(* Nobody sleeps for ever.  Both threads look at the counters first and      *)
(* sleep on a semaphore afterwards; these are the parts of CpuReturns and    *)
(* FifoFairSpec that are about safety.                                       *)

\* The draw thread sleeps with a line in the queue only while the CPU thread
\* is about to tell it, or has told it.
DrawerTold == denise = "sleep" /\ ~Empty => cpu = "post" \/ write_sem > 0

\* The CPU thread waits on read_sem: for room, or for the queue to be empty.
CpuSleeps ==
    /\ read_sem = 0
    /\ \/ cpu = "wait" /\ Full
       \/ cpu \in {"flush", "unlock", "reset"} /\ ~Empty

\* While the CPU thread waits, the draw thread is at work on an entry, or will
\* wake up for one, and then posts read_sem.
CpuWokenLater == CpuSleeps => denise # "sleep" \/ write_sem > 0

\* A full queue has entries.
LEMMA FullHasEntries == ASSUME IInv, Full PROVE ~Empty
<1> SUFFICES ASSUME Empty PROVE FALSE  OBVIOUS
<1>1. rga_queue_write \in Nat /\ Chunks \in Nat /\ Chunks > 1
  BY DeniseAssumption DEF IInv, TypeOK
<1>2. Masked(rga_queue_write) = Masked(rga_queue_write + 1)
  BY DEF Full, Empty
<1>3. rga_queue_write = rga_queue_write + 1
  BY <1>1, <1>2, MaskedInjective, SMT
<1> QED  BY <1>1, <1>3, SMT

\* The queue becomes non-empty before the semaphore is posted, and the draw
\* thread only falls asleep when it has seen it empty.
LEMMA NextDrawerTold == IInv /\ DrawerTold /\ [Next]_vars => DrawerTold'
<1> SUFFICES ASSUME IInv, DrawerTold, [Next]_vars PROVE DrawerTold'
  OBVIOUS
<1>1. SemMax \in Nat /\ SemMax > 0  BY DeniseAssumption
<1>2. write_sem \in 0 .. SemMax  BY DEF IInv, TypeOK
<1>3. ASSUME UNCHANGED <<rga_queue_read, rga_queue_write, write_sem, denise>>,
             cpu = "post" => cpu' = "post"
      PROVE  DrawerTold'
  BY <1>3 DEF DrawerTold, Empty
<1>4. CASE CpuCalls
  BY <1>3, <1>4 DEF CpuCalls, BeamMoves, Queue, StartFlush, StartReset,
                    StartDraw, Quit, queueVars
<1>5. CASE WaitQueue \/ FillEntry \/ Flush
  BY <1>3, <1>5 DEF WaitQueue, FillEntry, Flush, Flushed
<1>6. CASE Publish  BY <1>6 DEF Publish, DrawerTold
<1>7. CASE PostWrite
  BY <1>1, <1>2, <1>7, SMT DEF PostWrite, Post, DrawerTold
<1>8. CASE Look  BY <1>8, SMT DEF Look, DrawerTold, Empty, queueVars
<1>9. CASE Wake \/ DrawEntry \/ Advance \/ PostRead
  BY <1>9 DEF Wake, DrawEntry, Advance, PostRead, DrawerTold
<1>10. CASE UNCHANGED vars  BY <1>3, <1>10 DEF vars, queueVars
<1> QED  BY <1>4, <1>5, <1>6, <1>7, <1>8, <1>9, <1>10
         DEF Next, CpuSteps, Denise

\* No wake-up is lost between the two threads, although the counters are read
\* without a lock and the semaphores posted later: a line that is queued is
\* noticed by the draw thread.
THEOREM LinesNoticed == Spec => []DrawerTold
<1>1. Init => DrawerTold  BY DEF Init, DrawerTold
<1> QED  BY <1>1, NextDrawerTold, Inductive, PTL DEF Spec

\* The two threads never wait for each other: while one waits for room, or for
\* the queue to be flushed, the other has an entry to draw and will post.
THEOREM NoDeadlock == Spec => []CpuWokenLater
<1>1. ASSUME IInv, DrawerTold PROVE CpuWokenLater
  <2>1. CpuSleeps => ~Empty /\ cpu # "post"
    BY <1>1, FullHasEntries DEF CpuSleeps
  <2> QED  BY <1>1, <2>1 DEF CpuWokenLater, DrawerTold
<1> QED  BY <1>1, LinesNoticed, Inductive, PTL
=============================================================================
