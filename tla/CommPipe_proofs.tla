--------------------------- MODULE CommPipe_proofs ---------------------------
(***************************************************************************)
(* Proofs about CommPipe for every size of the ring, every chunk, any      *)
(* words and any number of writers.                                        *)
(***************************************************************************)
EXTENDS CommPipe, SequenceTheorems, TLAPS

-----------------------------------------------------------------------------
(* Places of the ring.                                                     *)

\* Up to two rounds, the remainder is what is left after one.
LEMMA OneRound ==
    ASSUME NEW n \in Nat, n < 2 * Size
    PROVE  n % Size = IF n < Size THEN n ELSE n - Size
<1> DEFINE p == n \div Size
           r == n % Size
<1>1. Size \in Nat /\ Size > 1  BY PipeAssumption, SMT
<1>2. p \in Nat /\ r \in 0 .. Size - 1 /\ n = Size * p + r
  BY <1>1, SMT
<1> HIDE DEF p, r
<1>3. CASE p = 0  BY <1>1, <1>2, <1>3, SMT DEF r
<1>4. CASE p = 1  BY <1>1, <1>2, <1>4, SMT DEF r
<1>5. CASE p > 1
  <2>1. Size * (p - 2) >= 0 /\ Size * (p - 2) = Size * p - 2 * Size
    BY <1>1, <1>2, <1>5, SMT
  <2> QED  BY <2>1, <1>1, <1>2, SMT
<1> QED  BY <1>2, <1>3, <1>4, <1>5, SMT

\* The place after a place.
LEMMA SuccIs ==
    ASSUME NEW i \in Places
    PROVE  /\ Succ(i) \in Places
           /\ Succ(i) = IF i = Size - 1 THEN 0 ELSE i + 1
           /\ Succ(i) # i
<1>1. /\ Size \in Nat /\ Size > 1
      /\ i + 1 \in Nat /\ i + 1 < 2 * Size /\ i < Size
  BY PipeAssumption, SMT DEF Places
<1>2. (i + 1) % Size = IF i + 1 < Size THEN i + 1 ELSE i + 1 - Size
  BY <1>1, OneRound, SMT DEF Places
<1> QED  BY <1>1, <1>2, SMT DEF Places, Succ

\* The words in the ring, counted from the reader's index to the writer's.
LEMMA CountIs ==
    ASSUME rdp \in Places, wrp \in Places
    PROVE  /\ Count \in Places
           /\ Count = IF rdp <= wrp THEN wrp - rdp ELSE wrp + Size - rdp
           /\ Count = 0 <=> rdp = wrp
<1>1. /\ Size \in Nat /\ Size > 1
      /\ wrp + Size - rdp \in Nat /\ wrp + Size - rdp < 2 * Size
      /\ rdp < Size /\ wrp < Size /\ rdp \in Nat /\ wrp \in Nat
  BY PipeAssumption, SMT DEF Places
<1>2. Count = IF wrp + Size - rdp < Size THEN wrp + Size - rdp
                                          ELSE wrp + Size - rdp - Size
  BY <1>1, OneRound, SMT DEF Count
<1> QED  BY <1>1, <1>2, SMT DEF Places

-----------------------------------------------------------------------------
(* Type correctness.                                                       *)

\* init_comm_pipe leaves every variable in its type.
LEMMA InitPipeTypeOK == PipeInit => PipeTypeOK
<1>1. 0 \in Places  BY PipeAssumption, SMT DEF Places
<1> SUFFICES ASSUME PipeInit PROVE PipeTypeOK  OBVIOUS
<1>2. data \in [Places -> Word \cup {NoWord}]  BY DEF PipeInit
<1>3. wpc \in [Writers -> WriterPc]  BY DEF PipeInit, WriterPc
<1>4. word \in [Writers -> Word \cup {NoWord}]  BY DEF PipeInit
<1>5. no_buffer \in [Writers -> BOOLEAN]  BY DEF PipeInit
<1>6. nxwrp \in [Writers -> Places]  BY <1>1 DEF PipeInit
<1>7. reader_waiting \in BOOLEAN /\ writer_waiting \in BOOLEAN  BY DEF PipeInit
<1>8. /\ rdp \in Places /\ wrp \in Places /\ lock \in {0, 1}
      /\ reader_wait \in {0, 1} /\ writer_wait \in {0, 1}
      /\ rpc \in ReaderPc /\ got \in Word \cup {NoWord}
  BY <1>1 DEF PipeInit, ReaderPc
<1> QED  BY <1>2, <1>3, <1>4, <1>5, <1>6, <1>7, <1>8 DEF PipeTypeOK

\* No step of either thread leaves the types: the indexes stay in the ring and
\* the semaphores that count wake-ups never exceed one.
LEMMA NextPipeTypeOK == PipeInv /\ [PipeNext]_pipeVars => PipeTypeOK'
<1> SUFFICES ASSUME PipeInv, [PipeNext]_pipeVars PROVE PipeTypeOK'  OBVIOUS
<1> USE DEF PipeInv, PipeTypeOK, WriterPc, ReaderPc
<1>1. ASSUME NEW w \in Writers, NEW x \in Word, NEW nb \in BOOLEAN,
             BeginWrite(w, x, nb)
      PROVE  PipeTypeOK'
  <2>1. nxwrp' \in [Writers -> Places]
    BY <1>1, SuccIs DEF BeginWrite
  <2>2. no_buffer' \in [Writers -> BOOLEAN]  BY <1>1, Zenon DEF BeginWrite
  <2>3. data' \in [Places -> Word \cup {NoWord}]  BY <1>1 DEF BeginWrite, Stored
  <2>4. wpc' \in [Writers -> WriterPc]  BY <1>1 DEF BeginWrite, Goto
  <2>5. word' \in [Writers -> Word \cup {NoWord}]  BY <1>1 DEF BeginWrite
  <2>6. /\ UNCHANGED <<rdp, wrp, lock, reader_wait, writer_wait, rpc, got>>
        /\ UNCHANGED <<reader_waiting, writer_waiting>>
    BY <1>1 DEF BeginWrite, waiting, reader
  <2> QED  BY <2>1, <2>2, <2>3, <2>4, <2>5, <2>6
<1>2. ASSUME NEW w \in Writers, FindFull(w) PROVE PipeTypeOK'
  BY <1>2 DEF FindFull, Goto, ring, args, reader
<1>3. ASSUME NEW w \in Writers, FindRoom(w) \/ WriterRelocks(w)
      PROVE  PipeTypeOK'
  <2>1. data' \in [Places -> Word \cup {NoWord}]
    BY <1>3 DEF FindRoom, WriterRelocks, Stored
  <2> QED  BY <1>3, <2>1
           DEF FindRoom, WriterRelocks, Goto, waiting, args, reader
<1>4. ASSUME NEW w \in Writers, WriterWakes(w) PROVE PipeTypeOK'
  BY <1>4 DEF WriterWakes, Goto, ring, args, reader
<1>5. ASSUME NEW w \in Writers, SetIndex(w) PROVE PipeTypeOK'
  BY <1>5 DEF SetIndex, Goto, waiting, args, reader
<1>6. ASSUME NEW w \in Writers, EndWrite(w) PROVE PipeTypeOK'
  <2>1. Wake(w) => reader_wait = 0  BY DEF Wake, FlagsTrue
  <2>2. reader_wait' \in {0, 1}  BY <1>6, <2>1 DEF EndWrite
  <2>3. reader_waiting' \in BOOLEAN  BY <1>6 DEF EndWrite
  <2> QED  BY <1>6, <2>2, <2>3 DEF EndWrite, Goto, ring, args, reader
<1>7. CASE FindEmpty  BY <1>7 DEF FindEmpty, ring, args
<1>8. CASE ReaderWakes  BY <1>8 DEF ReaderWakes, ring, args
<1>9. CASE EndRead
  <2>1. rdp' \in Places  BY <1>9, SuccIs DEF EndRead
  <2>2. writer_wait' \in {0, 1}  BY <1>9 DEF EndRead, FlagsTrue
  <2> QED  BY <1>9, <2>1, <2>2 DEF EndRead, args
<1>10. CASE UNCHANGED pipeVars
  BY <1>10 DEF pipeVars, ring, waiting, args, reader
<1> QED  BY <1>1, <1>2, <1>3, <1>4, <1>5, <1>6, <1>7, <1>8, <1>9, <1>10
         DEF PipeNext, WriteSteps, ReadSteps

-----------------------------------------------------------------------------
(* The inductive invariant.                                                *)

\* A new pipe is empty and nobody uses it.
LEMMA InitPipeInv == PipeInit => PipeInv
<1> SUFFICES ASSUME PipeInit PROVE PipeInv  OBVIOUS
<1>1. PipeTypeOK  BY InitPipeTypeOK
<1>2. OneWriter /\ IndexAhead  BY DEF PipeInit, OneWriter, IndexAhead
<1>3. FlagsTrue  BY DEF PipeInit, FlagsTrue
<1>4. ReaderServed  BY DEF PipeInit, ReaderServed
<1> QED  BY <1>1, <1>2, <1>3, <1>4 DEF PipeInv

\* A writer only begins when the others are done.
LEMMA NextOneWriter == PipeInv /\ [PipeNext]_pipeVars => OneWriter'
<1> SUFFICES ASSUME PipeInv, [PipeNext]_pipeVars PROVE OneWriter'  OBVIOUS
<1> USE DEF OneWriter
<1>1. OneWriter /\ wpc \in [Writers -> WriterPc]  BY DEF PipeInv, PipeTypeOK
<1>2. ASSUME NEW w \in Writers, NEW x \in Word, NEW nb \in BOOLEAN,
             \A v \in Writers : wpc[v] = "idle", BeginWrite(w, x, nb)
      PROVE  OneWriter'
  BY <1>1, <1>2 DEF BeginWrite, Goto
<1>3. ASSUME NEW w \in Writers, WriteSteps(w) PROVE OneWriter'
  <2>1. wpc[w] # "idle"
    BY <1>3 DEF WriteSteps, FindFull, FindRoom, WriterWakes, WriterRelocks,
                SetIndex, EndWrite
  <2>2. \E pc \in WriterPc : Goto(w, pc)
    BY <1>3 DEF WriteSteps, FindFull, FindRoom, WriterWakes, WriterRelocks,
                SetIndex, EndWrite, WriterPc
  <2> QED  BY <1>1, <2>1, <2>2 DEF Goto
<1>4. CASE ReadSteps \/ UNCHANGED pipeVars
  <2>1. wpc' = wpc
    BY <1>4 DEF ReadSteps, FindEmpty, ReaderWakes, EndRead, pipeVars
  <2> QED  BY <1>1, <2>1
<1> QED  BY <1>2, <1>3, <1>4 DEF PipeNext

\* The index a writer has computed stays the next one, and one that is not
\* compared with the reader's again stays different from it.
LEMMA NextIndexAhead == PipeInv /\ [PipeNext]_pipeVars => IndexAhead'
<1> SUFFICES ASSUME PipeInv, [PipeNext]_pipeVars PROVE IndexAhead'  OBVIOUS
<1> USE DEF PipeInv, PipeTypeOK, IndexAhead, WriterPc
<1>1. ASSUME NEW w \in Writers, NEW x \in Word, NEW nb \in BOOLEAN,
             \A v \in Writers : wpc[v] = "idle", BeginWrite(w, x, nb)
      PROVE  IndexAhead'
  <2>1. /\ word'[w] = x /\ nxwrp'[w] = Succ(wrp)
        /\ wrp' = wrp /\ rdp' = rdp
        /\ \A v \in Writers \ {w} : wpc'[v] = "idle"
    BY <1>1 DEF BeginWrite, Goto
  <2>2. CASE reader_waiting
    <3>1. wpc'[w] = "fastIndex" /\ data'[wrp] = x
      BY <1>1, <2>2 DEF BeginWrite, Goto, Stored
    <3>2. Count < Chunks  BY <1>1, <2>2, CountIs, PipeAssumption, SMT
                          DEF ReaderServed, Places
    <3>3. Succ(wrp) # rdp
      <4>1. /\ Count = IF rdp <= wrp THEN wrp - rdp ELSE wrp + Size - rdp
            /\ Succ(wrp) = IF wrp = Size - 1 THEN 0 ELSE wrp + 1
        BY CountIs, SuccIs
      <4> QED  BY <3>2, <4>1, PipeAssumption, SMT DEF Places
    <3> QED  BY <1>1, <2>1, <3>1, <3>3
  <2>3. CASE ~reader_waiting
    <3>1. wpc'[w] = "lock"  BY <1>1, <2>3 DEF BeginWrite, Goto
    <3> QED  BY <1>1, <2>1, <3>1
  <2> QED  BY <2>2, <2>3
<1>2. ASSUME NEW w \in Writers, FindFull(w) PROVE IndexAhead'
  <2>1. writer_wait = 0  BY <1>2 DEF FindFull, FlagsTrue, OneWriter
  <2> QED  BY <1>2, <2>1 DEF FindFull, Goto, ring, args, OneWriter
<1>3. ASSUME NEW w \in Writers, FindRoom(w) \/ WriterRelocks(w)
      PROVE  IndexAhead'
  <2>1. /\ nxwrp[w] # rdp /\ word[w] \in Word /\ nxwrp[w] = Succ(wrp)
        /\ wpc[w] # "idle"
    BY <1>3 DEF FindRoom, WriterRelocks
  <2>2. /\ wpc' = [wpc EXCEPT ![w] = "index"]
        /\ data' = [data EXCEPT ![wrp] = word[w]]
        /\ UNCHANGED <<rdp, wrp, writer_wait, word, nxwrp>>
    BY <1>3 DEF FindRoom, WriterRelocks, Goto, Stored, waiting, args
  <2>3. data'[wrp] = word[w]  BY <2>2
  <2>4. \A v \in Writers \ {w} : wpc[v] = "idle"  BY <2>1 DEF OneWriter
  <2> QED  BY <2>1, <2>2, <2>3, <2>4
<1>4. ASSUME NEW w \in Writers, WriterWakes(w) PROVE IndexAhead'
  BY <1>4 DEF WriterWakes, Goto, ring, args, OneWriter
<1>5. ASSUME NEW w \in Writers, SetIndex(w) PROVE IndexAhead'
  <2>1. /\ \A v \in Writers \ {w} : wpc'[v] = "idle"
        /\ wpc'[w] \in {"wake", "fastWake"}
        /\ wrp' = nxwrp[w] /\ rdp' = rdp
    BY <1>5 DEF SetIndex, Goto, OneWriter
  <2> QED  BY <1>5, <2>1 DEF SetIndex
<1>6. ASSUME NEW w \in Writers, EndWrite(w) PROVE IndexAhead'
  <2>1. \A v \in Writers : wpc'[v] = "idle"
    BY <1>6 DEF EndWrite, Goto, OneWriter
  <2> QED  BY <2>1
<1>7. CASE FindEmpty \/ ReaderWakes \/ UNCHANGED pipeVars
  <2>1. UNCHANGED <<ring, writer_wait, wpc, args>>
    BY <1>7 DEF FindEmpty, ReaderWakes, pipeVars, waiting
  <2> QED  BY <2>1 DEF ring, args
<1>8. CASE EndRead
  <2>1. /\ rdp # wrp /\ rdp' = Succ(rdp)
        /\ \A w \in Writers : wpc[w] \notin {"index", "wake"}
    BY <1>8 DEF EndRead, FlagsTrue, ReaderServed
  <2>2. ~reader_waiting /\ \A w \in Writers : wpc[w] \notin {"fastIndex", "fastWake"}
    BY <1>8 DEF EndRead, FlagsTrue
  <2>3. Succ(rdp) # Succ(wrp) /\ Succ(rdp) # rdp
    BY <2>1, SuccIs, PipeAssumption, SMT DEF Places
  <2>4. UNCHANGED <<data, wrp, wpc, word, nxwrp>>  BY <1>8 DEF EndRead, args
  <2>5. ASSUME NEW w \in Writers, wpc[w] = "sleep"
        PROVE  nxwrp[w] # rdp' /\ writer_wait' # 0
    <3>1. nxwrp[w] # rdp'  BY <2>1, <2>3, <2>5
    <3>2. writer_wait' # 0
      BY <1>8, <2>5 DEF EndRead, FlagsTrue
    <3> QED  BY <3>1, <3>2
  <2> QED  BY <2>1, <2>2, <2>3, <2>4, <2>5
<1> QED  BY <1>1, <1>2, <1>3, <1>4, <1>5, <1>6, <1>7, <1>8
         DEF PipeNext, WriteSteps, ReadSteps

\* The semaphores and flags go on telling where the two sides are.
LEMMA NextFlagsTrue == PipeInv /\ [PipeNext]_pipeVars => FlagsTrue'
<1> SUFFICES ASSUME PipeInv, [PipeNext]_pipeVars PROVE FlagsTrue'  OBVIOUS
<1> USE DEF PipeInv, PipeTypeOK, FlagsTrue, WriterPc, ReaderPc
<1>1. ASSUME NEW w \in Writers, NEW x \in Word, NEW nb \in BOOLEAN,
             \A v \in Writers : wpc[v] = "idle", BeginWrite(w, x, nb)
      PROVE  FlagsTrue'
  BY <1>1 DEF BeginWrite, Goto, waiting, reader
<1>2. ASSUME NEW w \in Writers, FindFull(w) PROVE FlagsTrue'
  <2>1. \A v \in Writers \ {w} : wpc[v] = "idle"  BY <1>2 DEF FindFull, OneWriter
  <2>2. writer_wait = 0  BY <1>2, <2>1 DEF FindFull
  <2> QED  BY <1>2, <2>1, <2>2 DEF FindFull, Goto, reader
<1>3. ASSUME NEW w \in Writers, FindRoom(w) \/ WriterRelocks(w)
      PROVE  FlagsTrue'
  <2>1. \A v \in Writers \ {w} : wpc[v] = "idle"
    BY <1>3 DEF FindRoom, WriterRelocks, OneWriter
  <2> QED  BY <1>3, <2>1 DEF FindRoom, WriterRelocks, Goto, waiting, reader
<1>4. ASSUME NEW w \in Writers, WriterWakes(w) PROVE FlagsTrue'
  <2>1. \A v \in Writers \ {w} : wpc[v] = "idle"
    BY <1>4 DEF WriterWakes, OneWriter
  <2> QED  BY <1>4, <2>1 DEF WriterWakes, Goto, reader
<1>5. ASSUME NEW w \in Writers, SetIndex(w) PROVE FlagsTrue'
  <2>1. \A v \in Writers \ {w} : wpc[v] = "idle"  BY <1>5 DEF SetIndex, OneWriter
  <2> QED  BY <1>5, <2>1 DEF SetIndex, Goto, waiting, reader
<1>6. ASSUME NEW w \in Writers, EndWrite(w) PROVE FlagsTrue'
  <2>1. \A v \in Writers : wpc'[v] = "idle"
    BY <1>6 DEF EndWrite, Goto, OneWriter
  <2>2. lock' = 1
    <3>1. CASE wpc[w] = "wake"  BY <1>6, <3>1 DEF EndWrite
    <3>2. CASE wpc[w] = "fastWake"
      BY <1>6, <3>2 DEF EndWrite, OneWriter
    <3> QED  BY <1>6, <3>1, <3>2 DEF EndWrite
  <2>3. UNCHANGED <<writer_wait, writer_waiting, rpc>>
        /\ \A v \in Writers : wpc[v] # "sleep"
    BY <1>6 DEF EndWrite, reader, OneWriter
  <2>4. /\ reader_waiting' <=> rpc' = "sleep" /\ reader_wait' = 0
        /\ reader_wait' = 1 => rpc' = "sleep"
    <3>1. CASE Wake(w)  BY <1>6, <2>3, <3>1 DEF EndWrite, Wake
    <3>2. CASE ~Wake(w)  BY <1>6, <2>3, <3>2 DEF EndWrite
    <3> QED  BY <3>1, <3>2
  <2> QED  BY <2>1, <2>2, <2>3, <2>4
<1>7. CASE FindEmpty  BY <1>7 DEF FindEmpty
<1>8. CASE ReaderWakes  BY <1>8 DEF ReaderWakes
<1>9. CASE EndRead  BY <1>9 DEF EndRead
<1>10. CASE UNCHANGED pipeVars  BY <1>10 DEF pipeVars, waiting, reader
<1> QED  BY <1>1, <1>2, <1>3, <1>4, <1>5, <1>6, <1>7, <1>8, <1>9, <1>10
         DEF PipeNext, WriteSteps, ReadSteps

\* A reader is never left asleep over a chunk of words, nor woken for nothing.
LEMMA NextReaderServed == PipeInv /\ [PipeNext]_pipeVars => ReaderServed'
<1> SUFFICES ASSUME PipeInv, [PipeNext]_pipeVars PROVE ReaderServed'  OBVIOUS
<1> USE DEF PipeInv, PipeTypeOK, ReaderServed, WriterPc, ReaderPc
<1>1. ASSUME NEW w \in Writers, NEW x \in Word, NEW nb \in BOOLEAN,
             \A v \in Writers : wpc[v] = "idle", BeginWrite(w, x, nb)
      PROVE  ReaderServed'
  BY <1>1 DEF BeginWrite, Goto, waiting, reader, Count
<1>2. ASSUME NEW w \in Writers,
             FindFull(w) \/ FindRoom(w) \/ WriterWakes(w) \/ WriterRelocks(w)
      PROVE  ReaderServed'
  <2>1. /\ UNCHANGED <<rdp, wrp, reader_wait, reader_waiting, rpc>>
        /\ wpc[w] \notin {"wake", "fastWake"}
        /\ \E pc \in WriterPc : Goto(w, pc)
    BY <1>2 DEF FindFull, FindRoom, WriterWakes, WriterRelocks, waiting,
                reader, ring
  <2> QED  BY <2>1 DEF Goto, Count
<1>5. ASSUME NEW w \in Writers, SetIndex(w) PROVE ReaderServed'
  <2>1. wpc'[w] \in {"wake", "fastWake"}  BY <1>5 DEF SetIndex, Goto
  <2>2. rdp' # wrp'  BY <1>5 DEF SetIndex, IndexAhead
  <2> QED  BY <2>1, <2>2
<1>6. ASSUME NEW w \in Writers, EndWrite(w) PROVE ReaderServed'
  <2>1. /\ rdp # wrp /\ UNCHANGED <<rdp, wrp, rpc>>
        /\ reader_waiting' => Count < Chunks
    <3>1. rdp # wrp /\ UNCHANGED <<rdp, wrp, rpc>>
      BY <1>6 DEF EndWrite, ring, reader, IndexAhead
    <3>2. Count \in Places  BY CountIs
    <3>3. reader_waiting' => ~(Count >= Chunks)  BY <1>6 DEF EndWrite, Wake
    <3> QED  BY <3>1, <3>2, <3>3, PipeAssumption, SMT DEF Places
  <2>2. Count' = Count /\ Count \in Places  BY <2>1, CountIs DEF Count
  <2> QED  BY <2>1, <2>2, PipeAssumption, SMT DEF Places
<1>7. CASE FindEmpty
  <2>1. Count' = 0  BY <1>7, CountIs DEF FindEmpty, ring, Count
  <2>2. rpc' = "sleep" /\ reader_wait' = 0
    BY <1>7 DEF FindEmpty, FlagsTrue
  <2> QED  BY <2>1, <2>2, PipeAssumption, SMT
<1>8. CASE ReaderWakes
  BY <1>8 DEF ReaderWakes, ring, Count, FlagsTrue
<1>9. CASE EndRead
  BY <1>9 DEF EndRead, FlagsTrue
<1>10. CASE UNCHANGED pipeVars
  BY <1>10 DEF pipeVars, ring, waiting, reader, Count
<1> QED  BY <1>1, <1>2, <1>5, <1>6, <1>7, <1>8, <1>9, <1>10
         DEF PipeNext, WriteSteps, ReadSteps

\* Whatever the threads do, the flags, semaphores and indexes of the pipe agree
\* with where its reader and its writers are.
THEOREM PipeInductive == PipeSpec => []PipeInv
<1>1. PipeInv /\ [PipeNext]_pipeVars => PipeInv'
  BY NextPipeTypeOK, NextOneWriter, NextIndexAhead, NextFlagsTrue,
     NextReaderServed DEF PipeInv
<1> QED  BY <1>1, InitPipeInv, PTL DEF PipeSpec

\* Every variable of the pipe keeps its type: the indexes stay in the ring and
\* no wake-up is counted twice.
THEOREM PipeTypeCorrect == PipeSpec => []PipeTypeOK
<1>1. PipeInv => PipeTypeOK  BY DEF PipeInv
<1> QED  BY <1>1, PipeInductive, PTL

\* No wake-up is lost between the flag that says that a side waits and the
\* semaphore it waits for, although a writer that sees reader_waiting does not
\* take the lock.
THEOREM WakeUpsKept == PipeSpec => []NoLostWakeUp
<1>1. PipeInv => NoLostWakeUp
  BY DEF PipeInv, PipeTypeOK, FlagsTrue, IndexAhead, ReaderServed, NoLostWakeUp
<1> QED  BY <1>1, PipeInductive, PTL

-----------------------------------------------------------------------------
(* The pipe is a queue.                                                    *)

\* Where the k-th word of the ring is.
PlaceOf(k) == (rdp + k - 1) % Size

\* The places of the words are different from the writer's, and follow each
\* other from the reader's.
LEMMA PlaceOfIs ==
    ASSUME PipeTypeOK, NEW k \in 1 .. Count
    PROVE  /\ PlaceOf(k) \in Places
           /\ PlaceOf(k) # wrp
           /\ PlaceOf(k) = IF rdp + k <= Size THEN rdp + k - 1
                                              ELSE rdp + k - 1 - Size
<1>1. /\ Size \in Nat /\ rdp \in 0 .. Size - 1 /\ wrp \in 0 .. Size - 1
  BY PipeAssumption DEF PipeTypeOK, Places
<1>2. /\ Count \in 0 .. Size - 1
      /\ Count = IF rdp <= wrp THEN wrp - rdp ELSE wrp + Size - rdp
  BY CountIs DEF PipeTypeOK, Places
<1>3. rdp + k - 1 \in Nat /\ rdp + k - 1 < 2 * Size
  BY <1>1, <1>2, SMT
<1>4. PlaceOf(k) = IF rdp + k - 1 < Size THEN rdp + k - 1
                                         ELSE rdp + k - 1 - Size
  BY <1>1, <1>3, OneRound, SMT DEF PlaceOf
<1> QED  BY <1>1, <1>2, <1>4, SMT DEF Places

\* Held is a sequence of words or what malloc left, one for each place.
HeldIsSeq ==
    /\ Count \in Nat
    /\ Count = IF rdp <= wrp THEN wrp - rdp ELSE wrp + Size - rdp
    /\ Held \in Seq(Word \cup {NoWord})
    /\ Len(Held) = Count
    /\ \A k \in 1 .. Count :
           /\ Held[k] = data[PlaceOf(k)]
           /\ PlaceOf(k) = IF rdp + k <= Size THEN rdp + k - 1
                                              ELSE rdp + k - 1 - Size

\* The words in the ring form a sequence of the indexes' distance.
LEMMA HeldSeq == PipeTypeOK => HeldIsSeq
<1> SUFFICES ASSUME PipeTypeOK PROVE HeldIsSeq  OBVIOUS
<1>1. /\ Count \in Nat
      /\ Count = IF rdp <= wrp THEN wrp - rdp ELSE wrp + Size - rdp
  BY CountIs, PipeAssumption, SMT DEF PipeTypeOK, Places
<1>2. Held = [k \in 1 .. Count |-> data[PlaceOf(k)]]  BY DEF Held, PlaceOf
<1>3. Held \in [1 .. Count -> Word \cup {NoWord}]
  BY <1>2, PlaceOfIs DEF PipeTypeOK
<1>4. Held \in Seq(Word \cup {NoWord})  BY <1>1, <1>3, SeqDef
<1>5. Len(Held) \in Nat /\ DOMAIN Held = 1 .. Len(Held)
  BY <1>4, LenProperties
<1>6. DOMAIN Held = 1 .. Count  BY <1>2
<1>7. Len(Held) = Count
  <2> DEFINE m == Len(Held)
             n == Count
  <2>1. m \in Nat /\ n \in Nat /\ 1 .. m = 1 .. n  BY <1>1, <1>5, <1>6
  <2> HIDE DEF m, n
  <2>2. m = n  BY <2>1, SMT
  <2> QED  BY <2>2 DEF m, n
<1> QED  BY <1>1, <1>2, <1>4, <1>7, PlaceOfIs DEF HeldIsSeq

\* Setting the writer's index appends the word to the abstract queue.
LEMMA SetIndexIsPut ==
    ASSUME PipeInv, PipeInv', NEW w \in Writers, SetIndex(w)
    PROVE  Fifo!Put /\ Held' = Append(Held, word[w])
<1> DEFINE q == Held
           r == Append(Held, word[w])
<1>1. /\ Size \in Nat /\ Size > 1
      /\ rdp \in 0 .. Size - 1 /\ wrp \in 0 .. Size - 1
  BY PipeAssumption, SMT DEF PipeInv, PipeTypeOK, Places
<1>2. /\ data' = data /\ rdp' = rdp /\ wrp' = Succ(wrp)
      /\ data[wrp] = word[w] /\ Succ(wrp) # rdp /\ word[w] \in Word
  BY DEF SetIndex, PipeInv, IndexAhead
<1>3. /\ Count \in Nat /\ q \in Seq(Word \cup {NoWord}) /\ Len(q) = Count
      /\ \A k \in 1 .. Count : q[k] = data[PlaceOf(k)]
  BY HeldSeq DEF PipeInv, HeldIsSeq
<1>4. /\ q' \in Seq(Word \cup {NoWord}) /\ Len(q') = Count'
      /\ Count' = IF rdp' <= wrp' THEN wrp' - rdp' ELSE wrp' + Size - rdp'
      /\ \A k \in 1 .. Count' : q'[k] = data'[PlaceOf(k)']
  <2>1. HeldIsSeq'  BY HeldSeq, PTL DEF PipeInv
  <2> QED  BY <2>1 DEF HeldIsSeq
<1>5. Count = IF rdp <= wrp THEN wrp - rdp ELSE wrp + Size - rdp
  BY CountIs DEF PipeInv, PipeTypeOK
<1>7. Succ(wrp) = IF wrp = Size - 1 THEN 0 ELSE wrp + 1
  BY SuccIs DEF PipeInv, PipeTypeOK
<1>8. Count' = Count + 1 /\ Count < Size - 1
  BY <1>1, <1>2, <1>4, <1>5, <1>7, SMT
<1>9. /\ r \in Seq(Word \cup {NoWord}) /\ Len(r) = Count + 1
      /\ \A k \in 1 .. Count : r[k] = q[k]
      /\ r[Count + 1] = word[w]
  BY <1>2, <1>3, AppendProperties
<1>10. ASSUME NEW k \in 1 .. Count + 1 PROVE q'[k] = r[k]
  <2>1. q'[k] = data[PlaceOf(k)]
    BY <1>2, <1>4, <1>8 DEF PlaceOf
  <2>2. CASE k = Count + 1
    <3>1. rdp + k - 1 = IF rdp <= wrp THEN wrp ELSE wrp + Size
      BY <1>1, <1>5, <2>2, SMT
    <3>2. rdp + k - 1 \in Nat /\ rdp + k - 1 < 2 * Size
      BY <1>1, <3>1, SMT
    <3>3. (rdp + k - 1) % Size = IF rdp + k - 1 < Size THEN rdp + k - 1
                                                   ELSE rdp + k - 1 - Size
      BY <1>1, <3>2, OneRound, SMT
    <3>4. PlaceOf(k) = wrp  BY <1>1, <3>1, <3>3, SMT DEF PlaceOf
    <3> QED  BY <1>2, <1>9, <2>1, <2>2, <3>4
  <2>3. CASE k # Count + 1
    <3>1. k \in 1 .. Count  BY <1>3, <2>3, SMT
    <3> QED  BY <1>3, <1>9, <2>1, <3>1
  <2> QED  BY <2>2, <2>3
<1> HIDE DEF r, q
<1>11. q' = r  BY <1>4, <1>8, <1>9, <1>10, SeqEqual
<1>12. Fifo!Newest(q') = word[w]
  BY <1>3, <1>9, <1>11, SMT DEF Fifo!Newest
<1>13. q' # << >>  BY <1>3, <1>9, <1>11, EmptySeq, SMT
<1> QED  BY <1>2, <1>3, <1>8, <1>11, <1>12, <1>13 DEF Fifo!Put, q, r

\* Reading takes the oldest word of the abstract queue.
LEMMA EndReadIsTake ==
    ASSUME PipeInv, PipeInv', EndRead
    PROVE  Fifo!Take /\ got' = Head(Held)
<1> DEFINE q == Held
<1>1. /\ Size \in Nat /\ Size > 1
      /\ rdp \in 0 .. Size - 1 /\ wrp \in 0 .. Size - 1
  BY PipeAssumption, SMT DEF PipeInv, PipeTypeOK, Places
<1>2. /\ data' = data /\ rdp' = Succ(rdp) /\ wrp' = wrp
      /\ rdp # wrp /\ got' = data[rdp]
  BY DEF EndRead, PipeInv, ReaderServed
<1>3. /\ Count \in Nat /\ q \in Seq(Word \cup {NoWord}) /\ Len(q) = Count
      /\ \A k \in 1 .. Count : q[k] = data[PlaceOf(k)]
  BY HeldSeq DEF PipeInv, HeldIsSeq
<1>4. /\ q' \in Seq(Word \cup {NoWord}) /\ Len(q') = Count'
      /\ Count' = IF rdp' <= wrp' THEN wrp' - rdp' ELSE wrp' + Size - rdp'
      /\ \A k \in 1 .. Count' :
             /\ q'[k] = data'[PlaceOf(k)']
             /\ PlaceOf(k)' = IF rdp' + k <= Size THEN rdp' + k - 1
                                                  ELSE rdp' + k - 1 - Size
  <2>1. HeldIsSeq'  BY HeldSeq, PTL DEF PipeInv
  <2> QED  BY <2>1 DEF HeldIsSeq
<1>5. /\ Count = IF rdp <= wrp THEN wrp - rdp ELSE wrp + Size - rdp
      /\ Count # 0
  BY <1>2, CountIs DEF PipeInv, PipeTypeOK
<1>7. rdp' = IF rdp = Size - 1 THEN 0 ELSE rdp + 1
  BY <1>2, SuccIs DEF PipeInv, PipeTypeOK
<1>8. Count' = Count - 1  BY <1>1, <1>2, <1>4, <1>5, <1>7, SMT
<1> HIDE DEF q
<1>9. q # << >>  BY <1>3, <1>5, EmptySeq
<1>10. /\ Tail(q) \in Seq(Word \cup {NoWord}) /\ Len(Tail(q)) = Count - 1
       /\ \A k \in 1 .. Count - 1 : Tail(q)[k] = q[k + 1]
       /\ Head(q) = q[1]
  BY <1>3, <1>9, HeadTailProperties
<1>11. ASSUME NEW k \in 1 .. Count - 1 PROVE q'[k] = Tail(q)[k]
  <2>1. /\ q'[k] = data[PlaceOf(k)']
        /\ PlaceOf(k)' = IF rdp' + k <= Size THEN rdp' + k - 1
                                             ELSE rdp' + k - 1 - Size
    BY <1>2, <1>4, <1>8
  <2>2. k + 1 \in 1 .. Count  BY <1>3, SMT
  <2>3. /\ Tail(q)[k] = data[PlaceOf(k + 1)]
        /\ PlaceOf(k + 1) = IF rdp + (k + 1) <= Size
                                THEN rdp + (k + 1) - 1
                                ELSE rdp + (k + 1) - 1 - Size
    BY <1>3, <1>10, <2>2, PlaceOfIs DEF PipeInv
  <2>4. PlaceOf(k)' = PlaceOf(k + 1)
    <3>1. CASE rdp = Size - 1
      <4>1. PlaceOf(k)' = k - 1 /\ PlaceOf(k + 1) = k - 1
        BY <1>1, <1>2, <1>3, <1>5, <1>7, <2>1, <2>3, <3>1, SMT
      <4> QED  BY <4>1
    <3>2. CASE rdp # Size - 1
      <4>1. rdp' = rdp + 1  BY <1>7, <3>2
      <4> QED  BY <1>1, <1>3, <2>1, <2>3, <4>1, SMT
    <3> QED  BY <3>1, <3>2
  <2> QED  BY <2>1, <2>3, <2>4
<1>12. q' = Tail(q)  BY <1>4, <1>8, <1>10, <1>11, SeqEqual
<1>13. got' = Head(q)
  <2>1. 1 \in 1 .. Count  BY <1>3, <1>5, SMT
  <2>2. PlaceOf(1) = rdp  BY <1>1, <2>1, PlaceOfIs, SMT DEF PipeInv
  <2> QED  BY <1>2, <1>3, <1>10, <2>1, <2>2
<1> QED  BY <1>9, <1>12, <1>13 DEF Fifo!Take, q

\* No other step changes the abstract queue: a word is stored in the writer's
\* place, where none of the words in the ring is.
LEMMA PipeOthersStutter ==
    ASSUME PipeInv, [PipeNext]_pipeVars, ~EndRead,
           \A w \in Writers : ~SetIndex(w)
    PROVE  UNCHANGED Held
<1>1. PipeTypeOK  BY DEF PipeInv
<1>2. CASE UNCHANGED ring  BY <1>2 DEF ring, Held, Count
<1>3. ASSUME NEW x \in Word \cup {NoWord}, Stored(x), UNCHANGED <<rdp, wrp>>
      PROVE  UNCHANGED Held
  <2>1. Count' = Count  BY <1>3 DEF Count
  <2>2. ASSUME NEW k \in 1 .. Count
        PROVE  data'[(rdp + k - 1) % Size] = data[(rdp + k - 1) % Size]
    <3>1. PlaceOf(k) \in Places /\ PlaceOf(k) # wrp  BY <1>1, PlaceOfIs
    <3>2. data'[PlaceOf(k)] = data[PlaceOf(k)]
      BY <1>1, <1>3, <3>1 DEF Stored, PipeTypeOK
    <3> QED  BY <3>2 DEF PlaceOf
  <2> QED  BY <1>3, <2>1, <2>2 DEF Held
<1>4. ASSUME NEW w \in Writers, NEW x \in Word, NEW nb \in BOOLEAN,
             BeginWrite(w, x, nb)
      PROVE  UNCHANGED Held
  <2>1. CASE Stored(x)  BY <1>3, <1>4, <2>1 DEF BeginWrite
  <2>2. CASE UNCHANGED data  BY <1>2, <1>4, <2>2 DEF BeginWrite, ring
  <2> QED  BY <1>4, <2>1, <2>2 DEF BeginWrite
<1>5. ASSUME NEW w \in Writers, WriteSteps(w) PROVE UNCHANGED Held
  <2>1. CASE FindRoom(w) \/ WriterRelocks(w)
    <3>1. word[w] \in Word \cup {NoWord}  BY <1>1 DEF PipeTypeOK
    <3> QED  BY <1>3, <2>1, <3>1 DEF FindRoom, WriterRelocks
  <2>2. CASE FindFull(w) \/ WriterWakes(w) \/ EndWrite(w)
    BY <1>2, <2>2 DEF FindFull, WriterWakes, EndWrite
  <2> QED  BY <1>5, <2>1, <2>2 DEF WriteSteps
<1>6. CASE ReadSteps \/ UNCHANGED pipeVars
  BY <1>2, <1>6 DEF ReadSteps, FindEmpty, ReaderWakes, pipeVars
<1> QED  BY <1>4, <1>5, <1>6 DEF PipeNext

\* Only moving an index changes it.
LEMMA HeldStays ==
    ASSUME PipeInv, [PipeNext]_pipeVars, rdp' = rdp, wrp' = wrp
    PROVE  UNCHANGED Held
<1>1. ~EndRead
  <2>1. Succ(rdp) # rdp  BY SuccIs DEF PipeInv, PipeTypeOK
  <2> QED  BY <2>1 DEF EndRead
<1>2. \A w \in Writers : ~SetIndex(w)
  <2>1. Succ(wrp) # wrp  BY SuccIs DEF PipeInv, PipeTypeOK
  <2> QED  BY <2>1 DEF SetIndex, PipeInv, IndexAhead
<1> QED  BY <1>1, <1>2, PipeOthersStutter

\* A new pipe is empty.
LEMMA InitHeld == PipeInit => Held = << >>
<1> SUFFICES ASSUME PipeInit PROVE Held = << >>  OBVIOUS
<1>1. PipeTypeOK  BY InitPipeTypeOK
<1>2. Count = 0  BY <1>1, CountIs DEF PipeInit, PipeTypeOK
<1> QED  BY <1>1, <1>2, HeldSeq, EmptySeq DEF HeldIsSeq

\* The words come out in the order in which they went in, each once, and at
\* most Size - 1 are inside: the ring, written half of the time without the
\* lock and read by who does not look again, is a bounded queue.
THEOREM PipeImplementsFifo == PipeSpec => FifoSpec
<1>1. PipeInit => Fifo!Init  BY InitHeld DEF Fifo!Init
<1>2. PipeInv /\ PipeInv' /\ [PipeNext]_pipeVars => [Fifo!Next]_Held
  <2> SUFFICES ASSUME PipeInv, PipeInv', [PipeNext]_pipeVars
               PROVE  [Fifo!Next]_Held
    OBVIOUS
  <2>1. CASE EndRead  BY <2>1, EndReadIsTake DEF Fifo!Next
  <2>2. ASSUME NEW w \in Writers, SetIndex(w) PROVE Fifo!Next
    BY <2>2, SetIndexIsPut DEF Fifo!Next
  <2> QED  BY <2>1, <2>2, PipeOthersStutter
<1> QED  BY <1>1, <1>2, PipeInductive, PTL DEF PipeSpec, FifoSpec, Fifo!Spec
=============================================================================
