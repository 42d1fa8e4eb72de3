------------------------ MODULE ExterInterrupt_proofs ------------------------
(***************************************************************************)
(* Proofs about ExterInterrupt for every pipe, any number of host threads, *)
(* calls, units and packets.                                               *)
(***************************************************************************)
EXTENDS ExterInterrupt, CommPipe_proofs, FiniteSetTheorems

-----------------------------------------------------------------------------
(* The pipe as the host threads and the trap use it.                       *)

\* n2asem is held by the one host thread that makes a call, and only it is in
\* write_comm_pipe_pt.
OneCaller ==
    /\ n2asem \in {0, 1}
    /\ n2asem = 1 <=> \A w \in Writers : ~Calling(w)
    /\ \A v, w \in Writers : Calling(v) /\ Calling(w) => v = w
    /\ \A w \in Writers : wpc[w] # "idle" => Calling(w)

CallType == [msg : Nat, part : Nat, asked : BOOLEAN]

\* A call that is being made has a message, of which so many words are written.
CallsKnown ==
    /\ calls \in Nat
    /\ call \in [Writers -> CallType]
    /\ wpc \in [Writers -> WriterPc]
    /\ \A w \in Writers :
           Calling(w) => /\ call[w].msg \in Message
                         /\ call[w].part \in 0 .. Length[call[w].msg]

\* No call has no message.
LEMMA NoCallIs ==
    NoCall \in CallType /\ NoCall.part = 0 /\ NoCall.msg \notin Message
<1>1. NoCall.msg = 0 /\ NoCall.part = 0  BY DEF NoCall, NoMessage
<1> QED  BY <1>1, SMT DEF NoCall, NoMessage, CallType, Message

\* A new pipe with the semaphore free.
LEMMA InitOneCaller == Init => OneCaller /\ CallsKnown
<1> SUFFICES ASSUME Init PROVE OneCaller /\ CallsKnown  OBVIOUS
<1> USE DEF Init, N2AInit, PipeInit
<1>1. \A w \in Writers : ~Calling(w)  BY DEF Calling
<1>2. OneCaller  BY <1>1 DEF OneCaller
<1>4. CallsKnown  BY <1>1, NoCallIs DEF CallsKnown, WriterPc
<1> QED  BY <1>2, <1>4

\* What only host threads change, and what the trap reads of it.
HostState == <<n2asem, call, calls, wpc>>

\* A step of the Amiga or of a thread of a file system leaves calls alone.
LEMMA AmigaLeavesCalls ==
    ASSUME [Next]_vars,
           ~ \E w \in Writers : HostSteps(w)
    PROVE  UNCHANGED HostState
<1> USE DEF HostState, pipeVars, n2aVars
<1>1. CASE Interrupt  BY <1>1 DEF Interrupt
<1>2. CASE ExterSteps
  BY <1>2 DEF ExterSteps, TaskWakes, ReadWords, CallExec, ExecReturns, NoCalls,
              SkipUnit, AckUnit, PutDummy, LeaveHelper, FindEmpty,
              ReaderWakes, EndRead
<1>3. ASSUME NEW p \in Packet, SendPacket(p) PROVE UNCHANGED HostState
  BY <1>3 DEF SendPacket
<1>4. ASSUME NEW u \in UnitNos, ProcessSteps(u) PROVE UNCHANGED HostState
  BY <1>4 DEF ProcessSteps, StartPacket, PutOffPacket, GetDummy, MessageLock,
              ScanReply, ScanPast, ScanEnd, ProcessOnly
<1>5. ASSUME NEW u \in UnitNos, ThreadSteps(u) PROVE UNCHANGED HostState
  BY <1>5 DEF ThreadSteps, HandlePacket, MarkPacket, RequestInterrupt,
              ThreadOnly
<1>6. CASE UNCHANGED vars  BY <1>6 DEF vars
<1> QED  BY <1>1, <1>2, <1>3, <1>4, <1>5, <1>6 DEF Next

\* The semaphore n2asem goes on keeping the callers apart.
LEMMA NextOneCaller ==
    OneCaller /\ CallsKnown /\ [Next]_vars => OneCaller' /\ CallsKnown'
<1> SUFFICES ASSUME OneCaller, CallsKnown, [Next]_vars
             PROVE  OneCaller' /\ CallsKnown'
  OBVIOUS
<1>2. ASSUME NEW w \in Writers, BeginCall(w)
      PROVE  OneCaller' /\ CallsKnown'
  <2>1. /\ calls' = calls + 1 /\ calls' \in Message /\ calls' \in Nat
        /\ call' = [call EXCEPT ![w] = [NoCall EXCEPT !.msg = calls']]
        /\ wpc' = wpc /\ n2asem = 1 /\ n2asem' = 0
    BY <1>2, MessageAssumption, SMT
    DEF BeginCall, CallsKnown, Message, pipeVars
  <2>2. \A v \in Writers : ~Calling(v)  BY <2>1 DEF OneCaller
  <2>3. /\ call'[w].msg = calls' /\ call'[w].part = 0
        /\ call' \in [Writers -> CallType]
        /\ \A v \in Writers \ {w} : call'[v] = call[v]
    BY <2>1, NoCallIs DEF CallsKnown, CallType
  <2>4. Calling(w)' /\ \A v \in Writers \ {w} : ~Calling(v)'
    BY <2>1, <2>2, <2>3, NoCallIs DEF Calling
  <2>5. OneCaller'  BY <2>1, <2>2, <2>4 DEF OneCaller
  <2>6. Length[calls'] \in 2 .. 4  BY <2>1, MessageAssumption
  <2>7. 0 \in 0 .. Length[calls']  BY <2>6
  <2>8. CallsKnown'  BY <2>1, <2>3, <2>4, <2>7 DEF CallsKnown
  <2> QED  BY <2>5, <2>8
<1>3. ASSUME NEW w \in Writers, WriteWord(w)
      PROVE  OneCaller' /\ CallsKnown'
  <2>1. /\ Calling(w) /\ wpc[w] = "idle" /\ call[w].part # Length[call[w].msg]
        /\ call' = [call EXCEPT ![w].part = call[w].part + 1]
        /\ \E pc \in WriterPc : wpc' = [wpc EXCEPT ![w] = pc]
        /\ UNCHANGED <<n2asem, calls>>
    BY <1>3 DEF WriteWord, Written, BeginWrite, Goto, WriterPc
  <2>2. /\ call[w].msg \in Message
        /\ call[w].part \in 0 .. Length[call[w].msg]
        /\ Length[call[w].msg] \in 2 .. 4
    BY <2>1, MessageAssumption DEF CallsKnown
  <2>3. /\ call'[w].msg = call[w].msg
        /\ call'[w].part = call[w].part + 1
        /\ call'[w].asked = call[w].asked
        /\ call' \in [Writers -> CallType]
        /\ \A v \in Writers \ {w} : call'[v] = call[v]
    BY <2>1, <2>2 DEF CallsKnown, CallType
  <2>4. Calling(w)' /\ \A v \in Writers \ {w} : Calling(v)' <=> Calling(v)
    BY <2>2, <2>3, NoCallIs DEF Calling
  <2>5. OneCaller'  BY <2>1, <2>4 DEF OneCaller, CallsKnown
  <2>6. call'[w].part \in 0 .. Length[call'[w].msg]  BY <2>1, <2>2, <2>3, SMT
  <2>7. wpc' \in [Writers -> WriterPc]  BY <2>1 DEF CallsKnown
  <2>8. CallsKnown'  BY <2>1, <2>2, <2>3, <2>4, <2>6, <2>7 DEF CallsKnown
  <2> QED  BY <2>5, <2>8
<1>4. ASSUME NEW w \in Writers, do_uae_int_requested(w)
      PROVE  OneCaller' /\ CallsKnown'
  <2>1. /\ Calling(w)
        /\ call' = [call EXCEPT ![w].asked = TRUE]
        /\ UNCHANGED <<n2asem, calls, wpc>>
    BY <1>4 DEF do_uae_int_requested, Written, pipeVars
  <2>2. /\ call'[w].msg = call[w].msg
        /\ call'[w].part = call[w].part
        /\ call' \in [Writers -> CallType]
        /\ \A v \in Writers \ {w} : call'[v] = call[v]
    BY <2>1 DEF CallsKnown, CallType
  <2>3. call[w].msg \in Message  BY <2>1 DEF CallsKnown
  <2>4. Calling(w)' /\ \A v \in Writers \ {w} : Calling(v)' <=> Calling(v)
    BY <2>2, <2>3, NoCallIs DEF Calling
  <2> QED  BY <2>1, <2>2, <2>4 DEF OneCaller, CallsKnown
<1>5. ASSUME NEW w \in Writers, EndCall(w)
      PROVE  OneCaller' /\ CallsKnown'
  <2>1. /\ Calling(w) /\ wpc[w] = "idle" /\ n2asem' = 1
        /\ call' = [call EXCEPT ![w] = NoCall]
        /\ UNCHANGED <<calls, wpc>>
    BY <1>5 DEF EndCall, Written, pipeVars
  <2>2. \A v \in Writers : ~Calling(v)'
    BY <2>1 DEF OneCaller, CallsKnown, Calling
  <2>3. \A v \in Writers : wpc[v] = "idle"  BY <2>1 DEF OneCaller
  <2> QED  BY NoCallIs, <2>1, <2>2, <2>3 DEF OneCaller, CallsKnown
<1>6. ASSUME NEW w \in Writers, WriteSteps(w), UNCHANGED n2aVars
      PROVE  OneCaller' /\ CallsKnown'
  <2>1. /\ wpc[w] # "idle"
        /\ \E pc \in WriterPc : wpc' = [wpc EXCEPT ![w] = pc]
    BY <1>6 DEF WriteSteps, FindFull, FindRoom, WriterWakes, WriterRelocks,
                SetIndex, EndWrite, Goto, WriterPc
  <2>2. UNCHANGED <<n2asem, call, calls>>  BY <1>6 DEF n2aVars
  <2> QED  BY <2>1, <2>2 DEF OneCaller, CallsKnown, Calling
<1>7. CASE ~ \E w \in Writers : HostSteps(w)
  <2>1. UNCHANGED HostState  BY <1>7, AmigaLeavesCalls
  <2> QED  BY <2>1 DEF HostState, OneCaller, CallsKnown, Calling
<1> QED  BY <1>2, <1>3, <1>4, <1>5, <1>6, <1>7 DEF HostSteps, CallSteps

\* Whatever a step does to the pipe, it is a step of the pipe.
LEMMA NextIsPipe ==
    ASSUME OneCaller, CallsKnown, [Next]_vars
    PROVE  [PipeNext]_pipeVars
<1>1. ASSUME NEW w \in Writers, WriteWord(w) PROVE PipeNext
  <2>1. PICK x \in {<<call[w].msg, call[w].part + 1>>}, nb \in BOOLEAN :
            BeginWrite(w, x, nb)
    BY <1>1 DEF WriteWord
  <2>2. /\ call[w].msg \in Message
        /\ call[w].part \in 0 .. Length[call[w].msg]
        /\ call[w].part # Length[call[w].msg]
        /\ Length[call[w].msg] \in 2 .. 4
    BY <1>1, MessageAssumption DEF WriteWord, Written, CallsKnown
  <2>3. call[w].part + 1 \in 1 .. 4  BY <2>2, SMT
  <2>4. x \in Word  BY <2>1, <2>2, <2>3, MessageAssumption
  <2>5. \A v \in Writers : wpc[v] = "idle"  BY <1>1 DEF WriteWord, OneCaller
  <2> QED  BY <2>1, <2>4, <2>5 DEF PipeNext
<1>2. ASSUME NEW w \in Writers, WriteSteps(w) PROVE PipeNext
  BY <1>2 DEF PipeNext
<1>3. ASSUME NEW w \in Writers,
             BeginCall(w) \/ do_uae_int_requested(w) \/ EndCall(w)
      PROVE  UNCHANGED pipeVars
  BY <1>3 DEF BeginCall, do_uae_int_requested, EndCall
<1>4. CASE ReadWords  BY <1>4 DEF ReadWords, PipeNext, ReadSteps
<1>5. CASE Interrupt \/ TaskWakes \/ CallExec \/ ExecReturns \/ NoCalls
           \/ SkipUnit \/ AckUnit \/ PutDummy \/ LeaveHelper
  BY <1>5 DEF Interrupt, TaskWakes, CallExec, ExecReturns, NoCalls, SkipUnit,
              AckUnit, PutDummy, LeaveHelper
<1>6. ASSUME NEW p \in Packet, SendPacket(p) PROVE UNCHANGED pipeVars
  BY <1>6 DEF SendPacket
<1>7. ASSUME NEW u \in UnitNos, ProcessSteps(u) PROVE UNCHANGED pipeVars
  BY <1>7 DEF ProcessSteps, StartPacket, PutOffPacket, GetDummy, MessageLock,
              ScanReply, ScanPast, ScanEnd, ProcessOnly
<1>8. ASSUME NEW u \in UnitNos, ThreadSteps(u) PROVE UNCHANGED pipeVars
  BY <1>8 DEF ThreadSteps, HandlePacket, MarkPacket, RequestInterrupt,
              ThreadOnly
<1>9. CASE UNCHANGED vars  BY <1>9 DEF vars
<1> QED  BY <1>1, <1>2, <1>3, <1>4, <1>5, <1>6, <1>7, <1>8, <1>9
         DEF Next, ExterSteps, HostSteps, CallSteps

\* Calls of host threads are made one at a time.
THEOREM CallsApart == Spec => [](OneCaller /\ CallsKnown)
  BY InitOneCaller, NextOneCaller, PTL DEF Spec

\* The callers, who share n2asem, and the trap use the pipe as it is meant to
\* be used: one writer at a time and one reader.
THEOREM UsesPipe == Spec => PipeSpec
<1>1. Init => PipeInit  BY DEF Init, N2AInit
<1>2. OneCaller /\ CallsKnown /\ [Next]_vars => [PipeNext]_pipeVars
  BY NextIsPipe
<1> QED  BY <1>1, <1>2, CallsApart, PTL DEF Spec, PipeSpec

\* The words of the calls come out of native2amiga_pending in order, each
\* once, whatever the host threads and the 68k do.
THEOREM WordsInOrder == Spec => FifoSpec
  BY UsesPipe, PipeImplementsFifo, PTL

\* Neither a host thread nor the trap sleeps for want of a wake-up.
THEOREM CallsWakeUp == Spec => []NoLostWakeUp
  BY UsesPipe, WakeUpsKept, PTL

-----------------------------------------------------------------------------
(* The dummy message.                                                      *)

ProcessType == [pc : {"get", "lock", "scan"}, queue : Seq(Packet), at : Nat \ {0},
                started : Int]

Dummies(u) == {k \in DOMAIN port[u] : port[u][k] = Dummy}

\* The task is about to put the dummy message of the unit.
PutsDummy(u) == exter = "put" /\ unit_no = u + 1

DummyTypes ==
    /\ port \in [UnitNos -> Seq(Packet \cup {Dummy})]
    /\ process \in [UnitNos -> ProcessType]
    /\ unit_no \in Nat
    /\ cmds_acked \in [UnitNos -> Nat] /\ cmds_sent \in [UnitNos -> Nat]
    /\ cmds_complete \in [UnitNos -> Nat]

\* The dummy message of a unit is in one place at most, and in none when the
\* counters say that it is back.
DummyPlace(u) ==
    /\ \A j, k \in Dummies(u) : j = k
    /\ Dummies(u) # {} => ~PutsDummy(u) /\ process[u].pc # "lock"
    /\ PutsDummy(u) => process[u].pc # "lock"
    /\ cmds_complete[u] = cmds_acked[u] =>
           Dummies(u) = {} /\ ~PutsDummy(u) /\ process[u].pc # "lock"

DummyInv == DummyTypes /\ \A u \in UnitNos : DummyPlace(u)

\* No dummy message has been put at the beginning.
LEMMA InitDummyInv == Init => DummyInv
<1> SUFFICES ASSUME Init PROVE DummyInv  OBVIOUS
<1>1. port \in [UnitNos -> Seq(Packet \cup {Dummy})]
  BY EmptySeq DEF Init
<1>2. process \in [UnitNos -> ProcessType]
  <2>1. << >> \in Seq(Packet)  BY EmptySeq
  <2>2. [pc |-> "get", queue |-> << >>, at |-> 1, started |-> 0] \in ProcessType
    BY <2>1, SMT DEF ProcessType
  <2> QED  BY <2>2 DEF Init
<1>3. \A u \in UnitNos : Dummies(u) = {}
  <2>1. DOMAIN << >> = {}  BY EmptySeq
  <2> QED  BY <2>1 DEF Init, Dummies
<1>4. \A u \in UnitNos : ~PutsDummy(u) /\ process[u].pc = "get"
  BY DEF Init, PutsDummy
<1>5. /\ unit_no \in Nat
      /\ cmds_acked \in [UnitNos -> Nat] /\ cmds_sent \in [UnitNos -> Nat]
      /\ cmds_complete \in [UnitNos -> Nat]
  BY DEF Init
<1> QED  BY <1>1, <1>2, <1>3, <1>4, <1>5 DEF DummyInv, DummyTypes, DummyPlace

\* Appending a message to a port adds its index to those of that message.
LEMMA AppendDummies ==
    ASSUME NEW s \in Seq(Packet \cup {Dummy}), NEW m \in Packet \cup {Dummy}
    PROVE  /\ Append(s, m) \in Seq(Packet \cup {Dummy})
           /\ {k \in DOMAIN Append(s, m) : Append(s, m)[k] = Dummy}
                  = {k \in DOMAIN s : s[k] = Dummy}
                        \cup (IF m = Dummy THEN {Len(s) + 1} ELSE {})
<1>1. /\ Append(s, m) \in Seq(Packet \cup {Dummy})
      /\ Len(Append(s, m)) = Len(s) + 1
      /\ \A k \in 1 .. Len(s) : Append(s, m)[k] = s[k]
      /\ Append(s, m)[Len(s) + 1] = m
  BY AppendProperties
<1>2. /\ DOMAIN s = 1 .. Len(s) /\ Len(s) \in Nat
      /\ DOMAIN Append(s, m) = 1 .. Len(s) + 1
  BY <1>1, LenProperties
<1>3. \A k \in 1 .. Len(s) + 1 : k \in 1 .. Len(s) \/ k = Len(s) + 1
  BY <1>2, SMT
<1>4. Len(s) + 1 \notin 1 .. Len(s) /\ Len(s) + 1 \in 1 .. Len(s) + 1
  BY <1>2, SMT
<1>5. \A k \in 1 .. Len(s) : k \in 1 .. Len(s) + 1  BY <1>2, SMT
<1> QED  BY <1>1, <1>2, <1>3, <1>4, <1>5

\* Taking the first message of a port leaves the others, one place earlier.
LEMMA TailDummies ==
    ASSUME NEW s \in Seq(Packet \cup {Dummy}), s # << >>
    PROVE  /\ Tail(s) \in Seq(Packet \cup {Dummy})
           /\ \A k \in DOMAIN Tail(s) : k + 1 \in DOMAIN s
                                        /\ Tail(s)[k] = s[k + 1]
                                        /\ k \in Nat /\ k # 0
           /\ 1 \in DOMAIN s /\ s[1] = Head(s)
<1>1. /\ Tail(s) \in Seq(Packet \cup {Dummy})
      /\ Len(Tail(s)) = Len(s) - 1
      /\ \A k \in 1 .. Len(Tail(s)) : Tail(s)[k] = s[k + 1]
      /\ Head(s) = s[1]
  BY HeadTailProperties
<1>2. /\ DOMAIN s = 1 .. Len(s) /\ Len(s) \in Nat /\ Len(s) # 0
      /\ DOMAIN Tail(s) = 1 .. Len(s) - 1
  BY <1>1, LenProperties, EmptySeq
<1> QED  BY <1>1, <1>2, SMT

\* A step that neither puts nor takes messages and leaves the counters alone
\* keeps the dummy messages where they are.
LEMMA DummiesStay ==
    ASSUME DummyInv, UNCHANGED <<port, cmds>>, unit_no' \in Nat,
           \A u \in UnitNos : PutsDummy(u)' <=> PutsDummy(u),
           process' \in [UnitNos -> ProcessType],
           \A u \in UnitNos : process'[u].pc = "lock" => process[u].pc = "lock"
    PROVE  DummyInv'
<1>1. DummyTypes'  BY DEF DummyInv, DummyTypes, cmds
<1>2. ASSUME NEW u \in UnitNos PROVE DummyPlace(u)'
  <2>1. Dummies(u)' = Dummies(u)  BY DEF Dummies
  <2>2. PutsDummy(u)' <=> PutsDummy(u)  OBVIOUS
  <2>3. process'[u].pc = "lock" => process[u].pc = "lock"  OBVIOUS
  <2>4. DummyPlace(u)  BY DEF DummyInv
  <2> HIDE DEF Dummies
  <2> QED  BY <2>1, <2>2, <2>3, <2>4 DEF DummyPlace, cmds
<1> QED  BY <1>1, <1>2 DEF DummyInv

\* Putting a packet into the queue of a process changes only that queue.
LEMMA EnqueuedTyped ==
    ASSUME DummyInv, NEW u \in UnitNos, NEW p \in Packet
    PROVE  /\ Enqueued(u, p) \in [UnitNos -> ProcessType]
           /\ \A v \in UnitNos : Enqueued(u, p)[v].pc = process[v].pc
<1> DEFINE q == <<p>> \o process[u].queue
<1>1. process \in [UnitNos -> ProcessType]  BY DEF DummyInv, DummyTypes
<1>2. process[u].queue \in Seq(Packet)  BY <1>1 DEF ProcessType
<1>3. q \in Seq(Packet)  BY <1>2, ConcatProperties, SMT
<1> HIDE DEF q
<1>4. Enqueued(u, p) = [process EXCEPT ![u].queue = q]  BY DEF Enqueued, q
<1>5. Enqueued(u, p) \in [UnitNos -> ProcessType]
  BY <1>1, <1>3, <1>4 DEF ProcessType
<1>6. \A v \in UnitNos : Enqueued(u, p)[v].pc = process[v].pc
  BY <1>1, <1>4 DEF ProcessType
<1> QED  BY <1>5, <1>6

\* RemoveAt leaves out one element.
LEMMA RemoveAtIs ==
    ASSUME NEW S, NEW s \in Seq(S), NEW i \in 1 .. Len(s)
    PROVE  /\ RemoveAt(s, i) \in Seq(S)
           /\ Len(RemoveAt(s, i)) = Len(s) - 1
           /\ \A k \in 1 .. Len(s) - 1 :
                  RemoveAt(s, i)[k] = IF k < i THEN s[k] ELSE s[k + 1]
<1> DEFINE a == SubSeq(s, 1, i - 1)
           b == SubSeq(s, i + 1, Len(s))
<1>1. Len(s) \in Nat /\ \A k \in 1 .. Len(s) : s[k] \in S
  BY LenProperties, ElementOfSeq
<1>2. /\ a \in Seq(S) /\ Len(a) = i - 1
      /\ \A k \in 1 .. i - 1 : a[k] = s[k]
  <2>1. \A k \in 1 .. i - 1 : s[k] \in S  BY <1>1, SMT
  <2>2. 1 \in Int /\ i - 1 \in Int  BY <1>1, SMT
  <2>3. /\ a \in Seq(S)
        /\ Len(a) = IF 1 <= i - 1 THEN i - 1 - 1 + 1 ELSE 0
        /\ \A k \in 1 .. i - 1 - 1 + 1 : a[k] = s[1 + k - 1]
    BY <2>1, <2>2, SubSeqProperties
  <2> HIDE DEF a
  <2> QED  BY <1>1, <2>3, SMT
<1>3. /\ b \in Seq(S) /\ Len(b) = Len(s) - i
      /\ \A k \in 1 .. Len(s) - i : b[k] = s[k + i]
  <2>1. \A k \in i + 1 .. Len(s) : s[k] \in S  BY <1>1, SMT
  <2>2. i + 1 \in Int /\ Len(s) \in Int  BY <1>1, SMT
  <2>3. /\ b \in Seq(S)
        /\ Len(b) = IF i + 1 <= Len(s) THEN Len(s) - (i + 1) + 1 ELSE 0
        /\ \A k \in 1 .. Len(s) - (i + 1) + 1 : b[k] = s[i + 1 + k - 1]
    BY <2>1, <2>2, SubSeqProperties
  <2> HIDE DEF b
  <2> QED  BY <1>1, <2>3, SMT
<1> HIDE DEF a, b
<1>4. /\ a \o b \in Seq(S)
      /\ Len(a \o b) = Len(a) + Len(b)
      /\ \A k \in 1 .. Len(a) + Len(b) :
             (a \o b)[k] = IF k <= Len(a) THEN a[k] ELSE b[k - Len(a)]
  BY <1>2, <1>3, ConcatProperties
<1>5. ASSUME NEW k \in 1 .. Len(s) - 1
      PROVE  (a \o b)[k] = IF k < i THEN s[k] ELSE s[k + 1]
  <2>1. CASE k < i
    <3>1. (a \o b)[k] = a[k] /\ k \in 1 .. i - 1
      BY <1>1, <1>2, <1>3, <1>4, <2>1, SMT
    <3> QED  BY <1>2, <2>1, <3>1
  <2>2. CASE ~(k < i)
    <3>1. (a \o b)[k] = b[k - (i - 1)] /\ k - (i - 1) \in 1 .. Len(s) - i
      BY <1>1, <1>2, <1>3, <1>4, <2>2, SMT
    <3>2. k - (i - 1) + i = k + 1  BY <1>1, SMT
    <3> QED  BY <1>3, <2>2, <3>1, <3>2
  <2> QED  BY <2>1, <2>2
<1>6. RemoveAt(s, i) = a \o b  BY DEF RemoveAt, a, b
<1> QED  BY <1>1, <1>2, <1>3, <1>4, <1>5, <1>6, SMT

\* A dummy message is only put for a unit when it is back: AckUnit finds the
\* counters equal and makes them differ until the process has got the message.
LEMMA NextDummyInv == DummyInv /\ [Next]_vars => DummyInv'
<1> SUFFICES ASSUME DummyInv, [Next]_vars PROVE DummyInv'  OBVIOUS
<1> USE DEF processVars, exterVars, threadVars
<1>1. /\ port \in [UnitNos -> Seq(Packet \cup {Dummy})]
      /\ process \in [UnitNos -> ProcessType]
      /\ unit_no \in Nat
      /\ cmds_acked \in [UnitNos -> Nat] /\ cmds_sent \in [UnitNos -> Nat]
      /\ cmds_complete \in [UnitNos -> Nat]
      /\ \A u \in UnitNos : DummyPlace(u)
  BY DEF DummyInv, DummyTypes
<1>2. CASE Interrupt \/ TaskWakes \/ ReadWords \/ CallExec \/ ExecReturns
           \/ NoCalls \/ LeaveHelper \/ SkipUnit
  <2>1. /\ UNCHANGED <<port, cmds, process>> /\ unit_no' \in Nat
        /\ (exter # "put" /\ exter' # "put") \/ UNCHANGED <<exter, unit_no>>
    BY <1>1, <1>2, SMT
    DEF Interrupt, TaskWakes, ReadWords, CallExec, ExecReturns, NoCalls,
        LeaveHelper, SkipUnit
  <2>2. \A u \in UnitNos : PutsDummy(u)' <=> PutsDummy(u)
    BY <2>1 DEF PutsDummy
  <2> QED  BY <1>1, <2>1, <2>2, DummiesStay
<1>3. CASE AckUnit
  <2>1. /\ unit_no' = unit_no + 1 /\ exter' = "put"
        /\ exter = "units" /\ HasDone(unit_no)
        /\ cmds_acked' = [cmds_acked EXCEPT ![unit_no] = cmds_sent[unit_no]]
        /\ UNCHANGED <<port, process, cmds_sent, cmds_complete>>
    BY <1>3 DEF AckUnit
  <2>2. DummyTypes'
    <3>1. unit_no \in UnitNos
      BY <1>1, <1>3, UnitAssumption, SMT DEF AckUnit, UnitNos
    <3> QED  BY <1>1, <2>1, <3>1, SMT DEF DummyTypes
  <2>3. ASSUME NEW u \in UnitNos PROVE DummyPlace(u)'
    <3>1. Dummies(u)' = Dummies(u)  BY <2>1 DEF Dummies
    <3>2. CASE u = unit_no
      <4>1. /\ Dummies(u) = {} /\ process[u].pc # "lock"
            /\ cmds_complete[u] # cmds_sent[u]
        BY <1>1, <2>1, <3>2 DEF HasDone, DummyPlace
      <4>2. cmds_acked'[u] = cmds_sent[u]  BY <1>1, <2>1, <3>2
      <4> QED  BY <2>1, <3>1, <4>1, <4>2 DEF DummyPlace
    <3>3. CASE u # unit_no
      <4>1. ~PutsDummy(u) /\ ~PutsDummy(u)'
        BY <1>1, <2>1, <3>3, SMT DEF PutsDummy, UnitNos
      <4>2. cmds_acked'[u] = cmds_acked[u]  BY <1>1, <2>1, <3>3
      <4> HIDE DEF Dummies
      <4> QED  BY <1>1, <2>1, <3>1, <4>1, <4>2 DEF DummyPlace
    <3> QED  BY <3>2, <3>3
  <2> QED  BY <2>2, <2>3 DEF DummyInv
<1>4. CASE PutDummy
  <2>1. /\ exter = "put" /\ exter' = "look"
        /\ port' = [port EXCEPT ![unit_no - 1]
                        = Append(port[unit_no - 1], Dummy)]
        /\ UNCHANGED <<process, cmds, unit_no>>
    BY <1>4 DEF PutDummy
  <2>2. DummyTypes'
    <3>1. CASE unit_no - 1 \in UnitNos
      BY <1>1, <2>1, <3>1, AppendDummies DEF DummyTypes, cmds
    <3>2. CASE unit_no - 1 \notin UnitNos
      BY <1>1, <2>1, <3>2 DEF DummyTypes, cmds
    <3> QED  BY <3>1, <3>2
  <2>3. ASSUME NEW u \in UnitNos PROVE DummyPlace(u)'
    <3>1. ~PutsDummy(u)'  BY <2>1 DEF PutsDummy
    <3>2. CASE u = unit_no - 1
      <4>1. PutsDummy(u)  BY <1>1, <2>1, <3>2, SMT DEF PutsDummy
      <4>2. /\ Dummies(u) = {} /\ process[u].pc # "lock"
            /\ cmds_complete[u] # cmds_acked[u]
        BY <1>1, <4>1 DEF DummyPlace
      <4>3. port'[u] = Append(port[u], Dummy)  BY <1>1, <2>1, <3>2
      <4>4. Dummies(u)' = Dummies(u) \cup {Len(port[u]) + 1}
        BY <1>1, <4>3, AppendDummies DEF Dummies
      <4> HIDE DEF Dummies
      <4> QED  BY <2>1, <3>1, <4>2, <4>4 DEF DummyPlace, cmds
    <3>3. CASE u # unit_no - 1
      <4>1. port'[u] = port[u]  BY <1>1, <2>1, <3>3
      <4>2. Dummies(u)' = Dummies(u)  BY <4>1 DEF Dummies
      <4> HIDE DEF Dummies
      <4> QED  BY <1>1, <2>1, <3>1, <4>2 DEF DummyPlace, cmds
    <3> QED  BY <3>2, <3>3
  <2> QED  BY <2>2, <2>3 DEF DummyInv
<1>5. ASSUME NEW p \in Packet, SendPacket(p) PROVE DummyInv'
  <2>1. /\ port' = [port EXCEPT ![UnitOf[p]] = Append(port[UnitOf[p]], p)]
        /\ UNCHANGED <<process, cmds, unit_no, exter>>
    BY <1>5 DEF SendPacket
  <2>2. UnitOf[p] \in UnitNos /\ p # Dummy  BY UnitAssumption DEF UnitNos
  <2>3. DummyTypes'
    BY <1>1, <2>1, <2>2, AppendDummies DEF DummyTypes, cmds
  <2>4. ASSUME NEW u \in UnitNos PROVE DummyPlace(u)'
    <3>1. Dummies(u)' = Dummies(u)
      <4>1. CASE u = UnitOf[p]
        <5>1. port'[u] = Append(port[u], p)  BY <1>1, <2>1, <4>1
        <5> QED  BY <1>1, <2>2, <5>1, AppendDummies DEF Dummies
      <4>2. CASE u # UnitOf[p]  BY <1>1, <2>1, <4>2 DEF Dummies
      <4> QED  BY <4>1, <4>2
    <3>2. PutsDummy(u)' <=> PutsDummy(u)  BY <2>1 DEF PutsDummy
    <3> HIDE DEF Dummies
    <3> QED  BY <1>1, <2>1, <3>1, <3>2 DEF DummyPlace, cmds
  <2> QED  BY <2>3, <2>4 DEF DummyInv
<1>6. ASSUME NEW u \in UnitNos, NEW p \in Packet,
             StartPacket(u, p) \/ PutOffPacket(u, p)
      PROVE  DummyInv'
  <2>1. /\ port[u] # << >> /\ Head(port[u]) = p
        /\ port' = [port EXCEPT ![u] = Tail(port[u])]
        /\ UNCHANGED <<cmds, unit_no, exter>>
        /\ process' = Enqueued(u, p) \/
           process' = [Enqueued(u, p) EXCEPT
                           ![u].started = Enqueued(u, p)[u].started + 1]
    BY <1>6 DEF StartPacket, PutOffPacket, Gets, ProcessOnly, cmds
  <2>2. /\ Enqueued(u, p) \in [UnitNos -> ProcessType]
        /\ \A v \in UnitNos : Enqueued(u, p)[v].pc = process[v].pc
    BY EnqueuedTyped
  <2> DEFINE e == Enqueued(u, p)
  <2> HIDE DEF e
  <2>3. e \in [UnitNos -> ProcessType] /\ \A v \in UnitNos : e[v].pc = process[v].pc
    BY <2>2 DEF e
  <2>4. process' = e \/ process' = [e EXCEPT ![u].started = e[u].started + 1]
    BY <2>1 DEF e
  <2>5. e[u].started + 1 \in Int  BY <2>3, SMT DEF ProcessType
  <2>6. /\ process' \in [UnitNos -> ProcessType]
        /\ \A v \in UnitNos : process'[v].pc = process[v].pc
    BY <2>3, <2>4, <2>5 DEF ProcessType
  <2>7. DummyTypes'
    BY <1>1, <2>1, <2>6, TailDummies DEF DummyTypes, cmds
  <2>8. ASSUME NEW v \in UnitNos PROVE DummyPlace(v)'
    <3>1. PutsDummy(v)' <=> PutsDummy(v)  BY <2>1 DEF PutsDummy
    <3>2. CASE v = u
      <4>1. port'[v] = Tail(port[v])  BY <1>1, <2>1, <3>2
      <4>2. \A k \in Dummies(v)' : k + 1 \in Dummies(v) /\ k \in Nat
        BY <1>1, <2>1, <3>2, <4>1, TailDummies DEF Dummies
      <4>3. \A j, k \in Dummies(v) : j = k  BY <1>1 DEF DummyPlace
      <4>4. \A j, k \in Dummies(v)' : j = k
        <5>1. SUFFICES ASSUME NEW j \in Dummies(v)', NEW k \in Dummies(v)'
                       PROVE  j = k
          OBVIOUS
        <5>2. j + 1 = k + 1 /\ j \in Nat /\ k \in Nat  BY <4>2, <4>3
        <5> QED  BY <5>2, SMT
      <4>5. Dummies(v)' # {} => Dummies(v) # {}  BY <4>2
      <4> HIDE DEF Dummies
      <4> QED  BY <1>1, <2>1, <2>6, <3>1, <4>4, <4>5 DEF DummyPlace, cmds
    <3>3. CASE v # u
      <4>1. Dummies(v)' = Dummies(v)  BY <1>1, <2>1, <3>3 DEF Dummies
      <4> HIDE DEF Dummies
      <4> QED  BY <1>1, <2>1, <2>6, <3>1, <4>1, SMTT(20)
          DEF DummyPlace, cmds
    <3> QED  BY <3>2, <3>3
  <2> QED  BY <2>7, <2>8 DEF DummyInv
<1>7. ASSUME NEW u \in UnitNos, GetDummy(u) PROVE DummyInv'
  <2>1. /\ port[u] # << >> /\ Head(port[u]) = Dummy
        /\ port' = [port EXCEPT ![u] = Tail(port[u])]
        /\ process' = [process EXCEPT ![u].pc = "lock"]
        /\ UNCHANGED <<cmds, unit_no, exter>>
    BY <1>7 DEF GetDummy, Gets, ProcessOnly, cmds
  <2>2. /\ process' \in [UnitNos -> ProcessType]
        /\ \A v \in UnitNos \ {u} : process'[v].pc = process[v].pc
    BY <1>1, <2>1 DEF ProcessType
  <2>3. DummyTypes'
    BY <1>1, <2>1, <2>2, TailDummies DEF DummyTypes, cmds
  <2>4. ASSUME NEW v \in UnitNos PROVE DummyPlace(v)'
    <3>1. PutsDummy(v)' <=> PutsDummy(v)  BY <2>1 DEF PutsDummy
    <3>2. CASE v = u
      <4>1. port'[v] = Tail(port[v])  BY <1>1, <2>1, <3>2
      <4>2. \A k \in Dummies(v)' : k + 1 \in Dummies(v) /\ k \in Nat /\ k # 0
        BY <1>1, <2>1, <3>2, <4>1, TailDummies DEF Dummies
      <4>3. 1 \in Dummies(v)
        BY <1>1, <2>1, <3>2, TailDummies DEF Dummies
      <4>4. \A j, k \in Dummies(v) : j = k  BY <1>1 DEF DummyPlace
      <4>5. Dummies(v)' = {}
        <5>1. SUFFICES ASSUME NEW k \in Dummies(v)' PROVE FALSE  OBVIOUS
        <5>2. k + 1 = 1 /\ k \in Nat /\ k # 0  BY <4>2, <4>3, <4>4
        <5> QED  BY <5>2, SMT
      <4>6. ~PutsDummy(v) /\ cmds_complete[v] # cmds_acked[v]
        BY <1>1, <4>3 DEF DummyPlace
      <4> HIDE DEF Dummies
      <4> QED  BY <2>1, <3>1, <4>5, <4>6 DEF DummyPlace, cmds
    <3>3. CASE v # u
      <4>1. Dummies(v)' = Dummies(v)  BY <1>1, <2>1, <3>3 DEF Dummies
      <4>2. process'[v].pc = process[v].pc  BY <2>2, <3>3
      <4> HIDE DEF Dummies
      <4> QED  BY <1>1, <2>1, <3>1, <4>1, <4>2 DEF DummyPlace, cmds
    <3> QED  BY <3>2, <3>3
  <2> QED  BY <2>3, <2>4 DEF DummyInv
<1>8. ASSUME NEW u \in UnitNos, MessageLock(u) PROVE DummyInv'
  <2>1. /\ process[u].pc = "lock"
        /\ cmds_complete' = [cmds_complete EXCEPT ![u] = cmds_acked[u]]
        /\ process' = [process EXCEPT ![u].pc = "scan", ![u].at = 1]
        /\ UNCHANGED <<port, cmds_acked, cmds_sent, unit_no, exter>>
    BY <1>8 DEF MessageLock, ProcessOnly
  <2>2. /\ process' \in [UnitNos -> ProcessType]
        /\ \A v \in UnitNos :
               process'[v].pc = IF v = u THEN "scan" ELSE process[v].pc
    <3>1. 1 \in Nat \ {0}  OBVIOUS
    <3>2. process' \in [UnitNos -> ProcessType]
      BY <1>1, <2>1, <3>1 DEF ProcessType
    <3>3. \A v \in UnitNos :
              process'[v].pc = IF v = u THEN "scan" ELSE process[v].pc
      BY <1>1, <2>1 DEF ProcessType
    <3> QED  BY <3>2, <3>3
  <2>3. DummyTypes'  BY <1>1, <2>1, <2>2 DEF DummyTypes
  <2>4. ASSUME NEW v \in UnitNos PROVE DummyPlace(v)'
    <3>1. PutsDummy(v)' <=> PutsDummy(v)  BY <2>1 DEF PutsDummy
    <3>2. Dummies(v)' = Dummies(v)  BY <2>1 DEF Dummies
    <3> HIDE DEF Dummies
    <3>3. CASE v = u
      <4>1. Dummies(v) = {} /\ ~PutsDummy(v)
        BY <1>1, <2>1, <3>3 DEF DummyPlace
      <4> QED  BY <2>2, <3>1, <3>2, <3>3, <4>1 DEF DummyPlace
    <3>4. CASE v # u
      <4>1. cmds_complete'[v] = cmds_complete[v]  BY <1>1, <2>1, <3>4
      <4> QED  BY <1>1, <2>1, <2>2, <3>1, <3>2, <3>4, <4>1 DEF DummyPlace
    <3> QED  BY <3>3, <3>4
  <2> QED  BY <2>3, <2>4 DEF DummyInv
<1>9. ASSUME NEW u \in UnitNos, ScanReply(u) \/ ScanPast(u) \/ ScanEnd(u)
      PROVE  DummyInv'
  <2>1. UNCHANGED <<port, cmds, exter, unit_no>>
    BY <1>9 DEF ScanReply, ScanPast, ScanEnd, ProcessOnly, cmds
  <2>2. /\ process' \in [UnitNos -> ProcessType]
        /\ \A v \in UnitNos : process'[v].pc = "lock" => process[v].pc = "lock"
    <3>1. CASE ScanReply(u)
      <4> DEFINE q == RemoveAt(process[u].queue, process[u].at)
      <4>1. /\ process[u].queue \in Seq(Packet) /\ process[u].at \in Nat
            /\ process[u].started - 1 \in Int
        BY <1>1, SMT DEF ProcessType
      <4>2. q \in Seq(Packet)
        <5>1. process[u].at \in 1 .. Len(process[u].queue)
          BY <1>1, <3>1, <4>1, LenProperties, SMT
          DEF ScanReply, Scanning, ProcessType
        <5> QED  BY <4>1, <5>1, RemoveAtIs
      <4> HIDE DEF q
      <4>3. process' = [process EXCEPT ![u].queue = q,
                                       ![u].started = process[u].started - 1]
        BY <1>1, <3>1 DEF ScanReply, q, ProcessType
      <4> QED  BY <1>1, <4>1, <4>2, <4>3 DEF ProcessType
    <3>2. CASE ScanPast(u)
      <4>1. process' = [process EXCEPT ![u].at = process[u].at + 1]
        BY <1>1, <3>2 DEF ScanPast, ProcessType
      <4>2. process[u].at + 1 \in Nat \ {0}  BY <1>1, SMT DEF ProcessType
      <4> QED  BY <1>1, <4>1, <4>2 DEF ProcessType
    <3>3. CASE ScanEnd(u)
      <4>1. process' = [process EXCEPT ![u].pc = "get", ![u].at = 1]
        BY <1>1, <3>3 DEF ScanEnd, ProcessType
      <4>2. 1 \in Nat \ {0}  OBVIOUS
      <4> QED  BY <1>1, <4>1, <4>2 DEF ProcessType
    <3> QED  BY <1>9, <3>1, <3>2, <3>3
  <2>4. \A v \in UnitNos : PutsDummy(v)' <=> PutsDummy(v)
    BY <2>1 DEF PutsDummy
  <2> QED  BY <1>1, <2>1, <2>2, <2>4, DummiesStay
<1>10. ASSUME NEW u \in UnitNos, ThreadSteps(u) PROVE DummyInv'
  <2>1. /\ UNCHANGED <<port, process, cmds_acked, cmds_complete, exter, unit_no>>
        /\ cmds_sent' = cmds_sent
             \/ cmds_sent' = [cmds_sent EXCEPT ![u] = cmds_sent[u] + 1]
    BY <1>10 DEF ThreadSteps, HandlePacket, MarkPacket, RequestInterrupt,
                 ThreadOnly
  <2>2. DummyTypes'  BY <1>1, <2>1 DEF DummyTypes
  <2>3. ASSUME NEW v \in UnitNos PROVE DummyPlace(v)'
    <3>1. Dummies(v)' = Dummies(v) /\ (PutsDummy(v)' <=> PutsDummy(v))
      BY <2>1 DEF Dummies, PutsDummy
    <3> HIDE DEF Dummies
    <3> QED  BY <1>1, <2>1, <3>1 DEF DummyPlace
  <2> QED  BY <2>2, <2>3 DEF DummyInv
<1>11. ASSUME \/ UNCHANGED vars
              \/ \E w \in Writers : HostSteps(w) /\ UNCHANGED OtherVars
       PROVE  DummyInv'
  <2>1. UNCHANGED <<port, cmds, process, exter, unit_no>>
    BY <1>11 DEF vars, OtherVars
  <2>2. \A u \in UnitNos : PutsDummy(u)' <=> PutsDummy(u)
    BY <2>1 DEF PutsDummy
  <2> QED  BY <1>1, <2>1, <2>2, DummiesStay
<1> QED  BY <1>2, <1>3, <1>4, <1>5, <1>6, <1>7, <1>8, <1>9, <1>10, <1>11
         DEF Next, ExterSteps, ProcessSteps

\* The dummy message is on no port twice.
THEOREM DummyMessageOnce == Spec => []DummyOnce
<1>1. DummyInv => DummyOnce
  <2> SUFFICES ASSUME DummyInv, NEW u \in UnitNos
               PROVE  Cardinality(Dummies(u)) <= 1
    BY DEF DummyOnce, Dummies
  <2>1. \A j, k \in Dummies(u) : j = k  BY DEF DummyInv, DummyPlace
  <2> HIDE DEF Dummies
  <2>2. CASE Dummies(u) = {}
    <3>1. Cardinality(Dummies(u)) = 0  BY <2>2, FS_EmptySet
    <3> QED  BY <3>1
  <2>3. CASE Dummies(u) # {}
    <3>1. PICK k : k \in Dummies(u)  BY <2>3
    <3>2. Dummies(u) = {k}  BY <2>1, <3>1
    <3>3. Cardinality(Dummies(u)) = 1  BY <3>2, FS_Singleton
    <3> QED  BY <3>3
  <2> QED  BY <2>2, <2>3
<1> QED  BY <1>1, InitDummyInv, NextDummyInv, PTL DEF Spec

-----------------------------------------------------------------------------
(* Packets.                                                                *)

Distinct(s) == \A j, k \in DOMAIN s : s[j] = s[k] => j = k

PacketTypes ==
    /\ status \in [Packet -> {"unsent", "sent", "unstarted", "started", "done"}]
    /\ unit_pipe \in [UnitNos -> Seq(Packet)]
    /\ thread \in [UnitNos -> [pc : {"read", "mark", "request"},
                               packet : Packet \cup {NoPacket}]]
    /\ replied \subseteq Packet

\* Packets on the port of a unit have only been sent.
OnPort(u) ==
    /\ \A k \in DOMAIN port[u] :
           port[u][k] # Dummy =>
               status[port[u][k]] = "sent" /\ UnitOf[port[u][k]] = u
    /\ \A j, k \in DOMAIN port[u] :
           port[u][j] = port[u][k] /\ port[u][j] # Dummy => j = k

\* Packets in the queue of a process have not been replied to.
InQueue(u) ==
    /\ \A k \in DOMAIN process[u].queue :
           /\ status[process[u].queue[k]] \in {"unstarted", "started", "done"}
           /\ process[u].queue[k] \notin replied
           /\ UnitOf[process[u].queue[k]] = u
    /\ Distinct(process[u].queue)

\* Packets that the thread has not taken, or not marked, are not done.
WithThread(u) ==
    /\ \A k \in DOMAIN unit_pipe[u] :
           status[unit_pipe[u][k]] = "started" /\ UnitOf[unit_pipe[u][k]] = u
    /\ Distinct(unit_pipe[u])
    /\ thread[u].pc = "mark" =>
           /\ thread[u].packet \in Packet
           /\ status[thread[u].packet] = "started"
           /\ UnitOf[thread[u].packet] = u
           /\ \A k \in DOMAIN unit_pipe[u] : unit_pipe[u][k] # thread[u].packet

\* Where a packet is follows from its status.
PacketInv ==
    /\ PacketTypes
    /\ \A u \in UnitNos : OnPort(u) /\ InQueue(u) /\ WithThread(u)
    /\ \A p \in replied : status[p] = "done"

\* No packet has been sent at the beginning.
LEMMA InitPacketInv == Init => PacketInv
<1> SUFFICES ASSUME Init PROVE PacketInv  OBVIOUS
<1>1. << >> \in Seq(Packet) /\ DOMAIN << >> = {}  BY EmptySeq
<1>2. PacketTypes
  <2>1. thread \in [UnitNos -> [pc : {"read", "mark", "request"},
                                packet : Packet \cup {NoPacket}]]
    BY DEF Init
  <2> QED  BY <1>1, <2>1 DEF Init, PacketTypes
<1>3. ASSUME NEW u \in UnitNos
      PROVE  OnPort(u) /\ InQueue(u) /\ WithThread(u)
  <2>1. /\ port[u] = << >> /\ process[u].queue = << >>
        /\ unit_pipe[u] = << >> /\ thread[u].pc = "read"
    BY DEF Init
  <2> QED  BY <1>1, <2>1 DEF OnPort, InQueue, WithThread, Distinct
<1> QED  BY <1>2, <1>3 DEF Init, PacketInv

\* An element appended to a sequence that does not hold it keeps it distinct.
LEMMA AppendDistinct ==
    ASSUME NEW S, NEW s \in Seq(S), NEW x \in S, Distinct(s),
           \A k \in DOMAIN s : s[k] # x
    PROVE  /\ Append(s, x) \in Seq(S) /\ Distinct(Append(s, x))
           /\ \A k \in DOMAIN Append(s, x) :
                  Append(s, x)[k] = x \/ \E j \in DOMAIN s : s[j] = Append(s, x)[k]
<1> DEFINE t == Append(s, x)
<1>1. /\ t \in Seq(S) /\ Len(t) = Len(s) + 1
      /\ \A k \in 1 .. Len(s) : t[k] = s[k]
      /\ t[Len(s) + 1] = x
  BY AppendProperties
<1>2. /\ DOMAIN s = 1 .. Len(s) /\ Len(s) \in Nat
      /\ DOMAIN t = 1 .. Len(s) + 1
  BY <1>1, LenProperties
<1> HIDE DEF t
<1>3. \A k \in DOMAIN t : (k \in DOMAIN s /\ t[k] = s[k]) \/ k = Len(s) + 1
  BY <1>1, <1>2, SMT
<1>4. Distinct(t)  BY <1>1, <1>2, <1>3 DEF Distinct
<1>5. \A k \in DOMAIN t : t[k] = x \/ \E j \in DOMAIN s : s[j] = t[k]
  BY <1>1, <1>3
<1> QED  BY <1>1, <1>4, <1>5 DEF t

\* An element put in front of a sequence that does not hold it keeps it
\* distinct.
LEMMA PrependDistinct ==
    ASSUME NEW S, NEW s \in Seq(S), NEW x \in S, Distinct(s),
           \A k \in DOMAIN s : s[k] # x
    PROVE  /\ <<x>> \o s \in Seq(S) /\ Distinct(<<x>> \o s)
           /\ \A k \in DOMAIN (<<x>> \o s) :
                  \/ (<<x>> \o s)[k] = x
                  \/ \E j \in DOMAIN s : s[j] = (<<x>> \o s)[k]
<1> DEFINE e == <<x>>
           t == e \o s
<1>1. e \in Seq(S) /\ Len(e) = 1 /\ e[1] = x  OBVIOUS
<1> HIDE DEF e
<1>2. /\ t \in Seq(S) /\ Len(t) = 1 + Len(s)
      /\ \A k \in 1 .. 1 + Len(s) :
             t[k] = IF k <= 1 THEN e[k] ELSE s[k - 1]
  BY <1>1, ConcatProperties
<1>3. /\ DOMAIN s = 1 .. Len(s) /\ Len(s) \in Nat
      /\ DOMAIN t = 1 .. 1 + Len(s)
  BY <1>2, LenProperties
<1> HIDE DEF t
<1>4. \A k \in DOMAIN t :
          \/ k = 1 /\ t[k] = x
          \/ k - 1 \in DOMAIN s /\ t[k] = s[k - 1] /\ k \in Int
  BY <1>1, <1>2, <1>3, SMT
<1>5. Distinct(t)
  <2>1. SUFFICES ASSUME NEW j \in DOMAIN t, NEW k \in DOMAIN t, t[j] = t[k]
                 PROVE  j = k
    BY DEF Distinct
  <2>2. CASE j - 1 \in DOMAIN s /\ t[j] = s[j - 1] /\ j \in Int
             /\ k - 1 \in DOMAIN s /\ t[k] = s[k - 1] /\ k \in Int
    <3>1. j - 1 = k - 1  BY <2>1, <2>2 DEF Distinct
    <3> QED  BY <2>2, <3>1, SMT
  <2> QED  BY <1>4, <2>1, <2>2
<1>6. \A k \in DOMAIN t : t[k] = x \/ \E j \in DOMAIN s : s[j] = t[k]
  BY <1>4
<1> QED  BY <1>2, <1>5, <1>6 DEF t, e

\* The elements of a part of a sequence, each from a place of its own.
PartOf(t, s) ==
    \E f \in [DOMAIN t -> DOMAIN s] :
        /\ \A j, k \in DOMAIN t : f[j] = f[k] => j = k
        /\ \A k \in DOMAIN t : t[k] = s[f[k]]

\* The tail of a sequence is a part without its first element.
LEMMA TailPart ==
    ASSUME NEW S, NEW s \in Seq(S), s # << >>
    PROVE  /\ Tail(s) \in Seq(S) /\ PartOf(Tail(s), s)
           /\ 1 \in DOMAIN s /\ s[1] = Head(s)
           /\ Distinct(s) => \A k \in DOMAIN Tail(s) : Tail(s)[k] # Head(s)
<1>1. /\ Tail(s) \in Seq(S) /\ Len(Tail(s)) = Len(s) - 1
      /\ \A k \in 1 .. Len(Tail(s)) : Tail(s)[k] = s[k + 1]
      /\ Head(s) = s[1]
  BY HeadTailProperties
<1>2. /\ DOMAIN s = 1 .. Len(s) /\ Len(s) \in Nat /\ Len(s) # 0
      /\ DOMAIN Tail(s) = 1 .. Len(s) - 1
  BY <1>1, LenProperties, EmptySeq
<1> DEFINE t == Tail(s)
           f == [k \in DOMAIN t |-> k + 1]
<1> HIDE DEF t
<1>3. f \in [DOMAIN t -> DOMAIN s]  BY <1>2, SMT DEF t
<1>4. \A j, k \in DOMAIN t : f[j] = f[k] => j = k  BY <1>2, SMT DEF t
<1>5. \A k \in DOMAIN t : t[k] = s[f[k]]  BY <1>1, <1>2, SMT DEF t
<1>6. PartOf(t, s)  BY <1>3, <1>4, <1>5 DEF PartOf
<1>7. \A k \in DOMAIN t : t[k] = s[k + 1] /\ k + 1 \in DOMAIN s /\ k + 1 # 1
  BY <1>1, <1>2, SMT DEF t
<1>8. 1 \in DOMAIN s  BY <1>2, SMT
<1>9. Distinct(s) => \A k \in DOMAIN t : t[k] # Head(s)
  BY <1>1, <1>7, <1>8 DEF Distinct
<1> QED  BY <1>1, <1>6, <1>8, <1>9 DEF t

\* So is what RemoveAt leaves.
LEMMA RemoveAtPart ==
    ASSUME NEW S, NEW s \in Seq(S), NEW i \in 1 .. Len(s)
    PROVE  /\ RemoveAt(s, i) \in Seq(S) /\ PartOf(RemoveAt(s, i), s)
           /\ Distinct(s) => \A k \in DOMAIN RemoveAt(s, i) :
                                 RemoveAt(s, i)[k] # s[i]
<1> DEFINE t == RemoveAt(s, i)
           f == [k \in DOMAIN t |-> IF k < i THEN k ELSE k + 1]
<1>1. /\ t \in Seq(S) /\ Len(t) = Len(s) - 1
      /\ \A k \in 1 .. Len(s) - 1 : t[k] = IF k < i THEN s[k] ELSE s[k + 1]
  BY RemoveAtIs
<1> HIDE DEF t
<1>2. /\ DOMAIN s = 1 .. Len(s) /\ Len(s) \in Nat
      /\ DOMAIN t = 1 .. Len(s) - 1
  BY <1>1, LenProperties
<1>3. \A k \in DOMAIN t : f[k] = (IF k < i THEN k ELSE k + 1)  OBVIOUS
<1>4. f \in [DOMAIN t -> DOMAIN s]  BY <1>2, SMT
<1> HIDE DEF f
<1>5. \A j, k \in DOMAIN t : f[j] = f[k] => j = k  BY <1>2, <1>3, SMT
<1>6. \A k \in DOMAIN t : t[k] = s[f[k]] /\ f[k] # i
  BY <1>1, <1>2, <1>3, SMT
<1>7. PartOf(t, s)  BY <1>4, <1>5, <1>6 DEF PartOf
<1>8. i \in DOMAIN s  BY <1>2
<1>9. Distinct(s) => \A k \in DOMAIN t : t[k] # s[i]
  BY <1>4, <1>6, <1>8 DEF Distinct
<1> QED  BY <1>1, <1>7, <1>9 DEF t

\* A part of a distinct sequence is distinct, and has no other elements.
LEMMA PartDistinct ==
    ASSUME NEW s, NEW t, PartOf(t, s)
    PROVE  /\ Distinct(s) => Distinct(t)
           /\ \A k \in DOMAIN t : \E j \in DOMAIN s : t[k] = s[j]
  BY DEF PartOf, Distinct

\* A step that moves no packet keeps what is known of packets.
LEMMA PacketsStay ==
    ASSUME PacketInv, UNCHANGED <<port, status, unit_pipe, thread, replied>>,
           \A u \in UnitNos : process'[u].queue = process[u].queue
    PROVE  PacketInv'
<1>1. PacketTypes'  BY DEF PacketInv, PacketTypes
<1>2. ASSUME NEW u \in UnitNos
      PROVE  (OnPort(u) /\ InQueue(u) /\ WithThread(u))'
  <2>1. OnPort(u) /\ InQueue(u) /\ WithThread(u)  BY DEF PacketInv
  <2>2. process'[u].queue = process[u].queue  OBVIOUS
  <2> QED  BY <2>1, <2>2 DEF OnPort, InQueue, WithThread, Distinct
<1> QED  BY <1>1, <1>2 DEF PacketInv

\* What is on the port of a unit after a message has been appended.
LEMMA AppendIs ==
    ASSUME NEW s \in Seq(Packet \cup {Dummy}), NEW m \in Packet \cup {Dummy}
    PROVE  \A k \in DOMAIN Append(s, m) :
               \/ k \in DOMAIN s /\ Append(s, m)[k] = s[k]
               \/ k = Len(s) + 1 /\ Append(s, m)[k] = m
<1>1. /\ Len(Append(s, m)) = Len(s) + 1
      /\ Append(s, m) \in Seq(Packet \cup {Dummy})
      /\ \A k \in 1 .. Len(s) : Append(s, m)[k] = s[k]
      /\ Append(s, m)[Len(s) + 1] = m
  BY AppendProperties
<1>2. /\ DOMAIN s = 1 .. Len(s) /\ Len(s) \in Nat
      /\ DOMAIN Append(s, m) = 1 .. Len(s) + 1
  BY <1>1, LenProperties
<1>3. \A k \in 1 .. Len(s) + 1 : k \in 1 .. Len(s) \/ k = Len(s) + 1
  BY <1>2, SMT
<1> QED  BY <1>1, <1>2, <1>3

\* Putting the dummy message moves no packet.
LEMMA PutDummyKeepsPackets ==
    ASSUME DummyInv, PacketInv, PutDummy
    PROVE  PacketInv'
<1>1. /\ port' = [port EXCEPT ![unit_no - 1]
                      = Append(port[unit_no - 1], Dummy)]
      /\ UNCHANGED <<process, status, unit_pipe, thread, replied>>
  BY DEF PutDummy, processVars, threadVars
<1>2. port \in [UnitNos -> Seq(Packet \cup {Dummy})]
  BY DEF DummyInv, DummyTypes
<1>3. PacketTypes'  BY <1>1 DEF PacketInv, PacketTypes
<1>4. ASSUME NEW u \in UnitNos
      PROVE  (OnPort(u) /\ InQueue(u) /\ WithThread(u))'
  <2>1. OnPort(u) /\ InQueue(u) /\ WithThread(u)  BY DEF PacketInv
  <2>2. (InQueue(u) /\ WithThread(u))'
    BY <1>1, <2>1 DEF InQueue, WithThread, Distinct
  <2>3. OnPort(u)'
    <3>1. CASE u = unit_no - 1
      <4>1. port'[u] = Append(port[u], Dummy)  BY <1>1, <1>2, <3>1
      <4>2. \A k \in DOMAIN port'[u] :
                \/ k \in DOMAIN port[u] /\ port'[u][k] = port[u][k]
                \/ k = Len(port[u]) + 1 /\ port'[u][k] = Dummy
        BY <1>2, <4>1, AppendIs
      <4> QED  BY <1>1, <2>1, <4>2 DEF OnPort
    <3>2. CASE u # unit_no - 1
      <4>1. port'[u] = port[u]  BY <1>1, <1>2, <3>2
      <4> QED  BY <1>1, <2>1, <4>1 DEF OnPort
    <3> QED  BY <3>1, <3>2
  <2> QED  BY <2>2, <2>3
<1> QED  BY <1>1, <1>3, <1>4 DEF PacketInv

\* A packet that is sent was nowhere.
LEMMA SendKeepsPackets ==
    ASSUME DummyInv, PacketInv, NEW p \in Packet, SendPacket(p)
    PROVE  PacketInv'
<1>1. /\ status[p] = "unsent"
      /\ status' = [status EXCEPT ![p] = "sent"]
      /\ port' = [port EXCEPT ![UnitOf[p]] = Append(port[UnitOf[p]], p)]
      /\ UNCHANGED <<process, unit_pipe, thread, replied>>
  BY DEF SendPacket, processVars
<1>2. port \in [UnitNos -> Seq(Packet \cup {Dummy})]
  BY DEF DummyInv, DummyTypes
<1>3. PacketTypes'  BY <1>1 DEF PacketInv, PacketTypes
<1>4. \A q \in Packet : status'[q] = IF q = p THEN "sent" ELSE status[q]
  BY <1>1 DEF PacketInv, PacketTypes
<1>5. process \in [UnitNos -> ProcessType]  BY DEF DummyInv, DummyTypes
<1>6. ASSUME NEW u \in UnitNos
      PROVE  (OnPort(u) /\ InQueue(u) /\ WithThread(u))'
  <2>1. OnPort(u) /\ InQueue(u) /\ WithThread(u)  BY DEF PacketInv
  <2>2. InQueue(u)'
    <3>1. \A k \in DOMAIN process[u].queue : process[u].queue[k] \in Packet
      BY <1>5, ElementOfSeq, LenProperties DEF ProcessType
    <3> QED  BY <1>1, <1>4, <2>1, <3>1 DEF InQueue, Distinct
  <2>3. WithThread(u)'
    <3>1. \A k \in DOMAIN unit_pipe[u] : unit_pipe[u][k] \in Packet
      BY ElementOfSeq, LenProperties DEF PacketInv, PacketTypes
    <3> QED  BY <1>1, <1>4, <2>1, <3>1 DEF WithThread, Distinct
  <2>4. OnPort(u)'
    <3>1. \A k \in DOMAIN port[u] : port[u][k] \in Packet \cup {Dummy}
      BY <1>2, ElementOfSeq, LenProperties
    <3>2. \A k \in DOMAIN port[u] : port[u][k] # p
      BY <1>1, <2>1, UnitAssumption DEF OnPort
    <3>3. CASE u = UnitOf[p]
      <4>1. port'[u] = Append(port[u], p)  BY <1>1, <1>2, <3>3
      <4>2. \A k \in DOMAIN port'[u] :
                \/ k \in DOMAIN port[u] /\ port'[u][k] = port[u][k]
                \/ k = Len(port[u]) + 1 /\ port'[u][k] = p
        BY <1>2, <4>1, AppendIs
      <4> QED  BY <1>4, <2>1, <3>1, <3>2, <3>3, <4>2 DEF OnPort
    <3>4. CASE u # UnitOf[p]
      <4>1. port'[u] = port[u]  BY <1>1, <1>2, <3>4
      <4> QED  BY <1>4, <2>1, <3>1, <3>2, <4>1 DEF OnPort
    <3> QED  BY <3>3, <3>4
  <2> QED  BY <2>2, <2>3, <2>4
<1>7. \A q \in replied : status'[q] = "done"
  BY <1>1, <1>4 DEF PacketInv, PacketTypes
<1> QED  BY <1>1, <1>3, <1>6, <1>7 DEF PacketInv

\* What is left on a port when its first message has been taken.
LEMMA PortAfterGet ==
    ASSUME DummyInv, PacketInv, NEW u \in UnitNos, NEW msg, Gets(u, msg)
    PROVE  /\ port' \in [UnitNos -> Seq(Packet \cup {Dummy})]
           /\ \A v \in UnitNos : \A k \in DOMAIN port'[v] :
                  /\ port'[v][k] \in Packet \cup {Dummy}
                  /\ port'[v][k] # Dummy =>
                         /\ status[port'[v][k]] = "sent"
                         /\ UnitOf[port'[v][k]] = v
                         /\ port'[v][k] # msg
           /\ \A v \in UnitNos : \A j, k \in DOMAIN port'[v] :
                  port'[v][j] = port'[v][k] /\ port'[v][j] # Dummy => j = k
           /\ msg \in Packet =>
                  msg # Dummy /\ status[msg] = "sent" /\ UnitOf[msg] = u
<1>1. /\ port \in [UnitNos -> Seq(Packet \cup {Dummy})]
      /\ port[u] # << >> /\ Head(port[u]) = msg
      /\ port' = [port EXCEPT ![u] = Tail(port[u])]
  BY DEF DummyInv, DummyTypes, Gets
<1>2. /\ Tail(port[u]) \in Seq(Packet \cup {Dummy})
      /\ PartOf(Tail(port[u]), port[u])
      /\ 1 \in DOMAIN port[u] /\ port[u][1] = msg
  BY <1>1, TailPart
<1>3. \A k \in DOMAIN Tail(port[u]) :
          /\ k + 1 \in DOMAIN port[u] /\ Tail(port[u])[k] = port[u][k + 1]
          /\ k \in Nat /\ k # 0
  BY <1>1, TailDummies
<1>4. port' \in [UnitNos -> Seq(Packet \cup {Dummy})]  BY <1>1, <1>2
<1>5. \A v \in UnitNos : OnPort(v)  BY DEF PacketInv
<1>6. msg \in Packet => msg # Dummy /\ status[msg] = "sent" /\ UnitOf[msg] = u
  BY <1>2, <1>5, UnitAssumption DEF OnPort
<1>7. \A v \in UnitNos : \A k \in DOMAIN port'[v] :
          port'[v][k] \in Packet \cup {Dummy}
  BY <1>4, ElementOfSeq, LenProperties
<1>8. ASSUME NEW v \in UnitNos, NEW k \in DOMAIN port'[v], port'[v][k] # Dummy
      PROVE  /\ status[port'[v][k]] = "sent"
             /\ UnitOf[port'[v][k]] = v
             /\ port'[v][k] # msg
  <2>1. CASE v = u
    <3>1. port'[v] = Tail(port[u])  BY <1>1, <2>1
    <3>2. /\ k + 1 \in DOMAIN port[u] /\ port'[v][k] = port[u][k + 1]
          /\ k + 1 # 1
      BY <1>3, <1>8, <3>1, SMT
    <3> QED  BY <1>2, <1>5, <1>8, <2>1, <3>2 DEF OnPort
  <2>2. CASE v # u
    <3>1. port'[v] = port[v]  BY <1>1, <2>2
    <3>2. status[port[v][k]] = "sent" /\ UnitOf[port[v][k]] = v
      BY <1>5, <1>8, <3>1 DEF OnPort
    <3>3. port[v][k] \in Packet  BY <1>7, <1>8, <3>1
    <3> QED  BY <1>6, <2>2, <3>1, <3>2, <3>3
  <2> QED  BY <2>1, <2>2
<1>9. ASSUME NEW v \in UnitNos, NEW j \in DOMAIN port'[v],
             NEW k \in DOMAIN port'[v],
             port'[v][j] = port'[v][k], port'[v][j] # Dummy
      PROVE  j = k
  <2>1. CASE v = u
    <3>1. port'[v] = Tail(port[u])  BY <1>1, <2>1
    <3>2. /\ j + 1 \in DOMAIN port[u] /\ port'[v][j] = port[u][j + 1]
          /\ k + 1 \in DOMAIN port[u] /\ port'[v][k] = port[u][k + 1]
          /\ j \in Nat /\ k \in Nat
      BY <1>3, <1>9, <3>1
    <3>3. j + 1 = k + 1  BY <1>5, <1>9, <2>1, <3>2 DEF OnPort
    <3> QED  BY <3>2, <3>3, SMT
  <2>2. CASE v # u
    <3>1. port'[v] = port[v]  BY <1>1, <2>2
    <3> QED  BY <1>5, <1>9, <3>1 DEF OnPort
  <2> QED  BY <2>1, <2>2
<1> QED  BY <1>4, <1>6, <1>7, <1>8, <1>9

\* A packet that a process gets has only been on its port; it goes into the
\* queue, and to the thread if it is started.
LEMMA GetKeepsPackets ==
    ASSUME DummyInv, PacketInv, NEW u \in UnitNos, NEW p \in Packet,
           StartPacket(u, p) \/ PutOffPacket(u, p)
    PROVE  PacketInv'
<1> DEFINE s == IF StartPacket(u, p) THEN "started" ELSE "unstarted"
<1>1. /\ Gets(u, p)
      /\ status' = [status EXCEPT ![p] = s]
      /\ s \in {"unstarted", "started"}
      /\ \/ s = "started"
            /\ unit_pipe' = [unit_pipe EXCEPT ![u] = Append(unit_pipe[u], p)]
         \/ unit_pipe' = unit_pipe
      /\ thread' = thread /\ replied' = replied
  BY DEF StartPacket, PutOffPacket, ProcessOnly
<1> DEFINE q == <<p>> \o process[u].queue
<1>2. \A v \in UnitNos :
          process'[v].queue = IF v = u THEN q ELSE process[v].queue
  <2>1. process \in [UnitNos -> ProcessType]  BY DEF DummyInv, DummyTypes
  <2>2. Enqueued(u, p) = [process EXCEPT ![u].queue = q]  BY DEF Enqueued
  <2> HIDE DEF q
  <2>3. \/ process' = [process EXCEPT ![u].queue = q]
        \/ process' = [[process EXCEPT ![u].queue = q] EXCEPT
                           ![u].started = [process EXCEPT ![u].queue = q][u].started + 1]
    BY <2>2 DEF StartPacket, PutOffPacket
  <2> QED  BY <2>1, <2>3 DEF ProcessType
<1>3. /\ status[p] = "sent" /\ UnitOf[p] = u
      /\ \A v \in UnitNos : \A k \in DOMAIN port'[v] :
             /\ port'[v][k] \in Packet \cup {Dummy}
             /\ port'[v][k] # Dummy =>
                    /\ status[port'[v][k]] = "sent"
                    /\ UnitOf[port'[v][k]] = v
                    /\ port'[v][k] # p
      /\ \A v \in UnitNos : \A j, k \in DOMAIN port'[v] :
             port'[v][j] = port'[v][k] /\ port'[v][j] # Dummy => j = k
  BY <1>1, PortAfterGet
<1> HIDE DEF s
<1>4. \A r \in Packet : status'[r] = IF r = p THEN s ELSE status[r]
  BY <1>1 DEF PacketInv, PacketTypes
<1>5. \A v \in UnitNos : process[v].queue \in Seq(Packet) /\ unit_pipe[v] \in Seq(Packet)
  BY DEF DummyInv, DummyTypes, ProcessType, PacketInv, PacketTypes
<1>6. PacketTypes'
  <2>1. Append(unit_pipe[u], p) \in Seq(Packet)  BY <1>5, AppendProperties
  <2> QED  BY <1>1, <2>1 DEF PacketInv, PacketTypes
<1>7. ASSUME NEW v \in UnitNos
      PROVE  (OnPort(v) /\ InQueue(v) /\ WithThread(v))'
  <2>1. InQueue(v) /\ WithThread(v)  BY DEF PacketInv
  <2>2. OnPort(v)'  BY <1>3, <1>4 DEF OnPort
  <2>3. \A k \in DOMAIN process[v].queue : process[v].queue[k] \in Packet
    BY <1>5, ElementOfSeq, LenProperties
  <2>4. \A k \in DOMAIN process[v].queue : process[v].queue[k] # p
    BY <1>3, <2>1, <2>3 DEF InQueue
  <2>5. InQueue(v)'
    <3>1. CASE v = u
      <4>1. /\ Distinct(q)
            /\ \A k \in DOMAIN q :
                  q[k] = p \/ \E j \in DOMAIN process[u].queue :
                                  process[u].queue[j] = q[k]
        BY <1>5, <2>1, <2>4, <3>1, PrependDistinct DEF InQueue
      <4> HIDE DEF q
      <4>2. process'[v].queue = q  BY <1>2, <3>1
      <4>3. p \notin replied
        BY <1>3 DEF PacketInv
      <4>4. ASSUME NEW k \in DOMAIN q
            PROVE  /\ status'[q[k]] \in {"unstarted", "started", "done"}
                   /\ q[k] \notin replied'
                   /\ UnitOf[q[k]] = u
        <5>1. CASE q[k] = p  BY <1>1, <1>3, <1>4, <4>3, <5>1
        <5>2. CASE \E j \in DOMAIN process[u].queue : process[u].queue[j] = q[k]
          BY <1>1, <1>4, <2>1, <2>3, <2>4, <3>1, <5>2 DEF InQueue
        <5> QED  BY <4>1, <5>1, <5>2
      <4> QED  BY <3>1, <4>1, <4>2, <4>4 DEF InQueue
    <3>2. CASE v # u
      <4>1. process'[v].queue = process[v].queue  BY <1>2, <3>2
      <4> QED  BY <1>1, <1>4, <2>1, <2>3, <2>4, <4>1 DEF InQueue
    <3> QED  BY <3>1, <3>2
  <2>6. \A k \in DOMAIN unit_pipe[v] : unit_pipe[v][k] \in Packet
    BY <1>5, ElementOfSeq, LenProperties
  <2>7. \A k \in DOMAIN unit_pipe[v] : unit_pipe[v][k] # p
    BY <1>3, <2>1, <2>6 DEF WithThread
  <2>8. thread[v].pc = "mark" => thread[v].packet # p
    BY <1>3, <2>1 DEF WithThread
  <2>9. WithThread(v)'
    <3>1. CASE v = u /\ unit_pipe' # unit_pipe
      <4> DEFINE t == Append(unit_pipe[u], p)
      <4>1. /\ Distinct(t)
            /\ \A k \in DOMAIN t :
                  t[k] = p \/ \E j \in DOMAIN unit_pipe[u] : unit_pipe[u][j] = t[k]
        BY <1>5, <2>1, <2>7, <3>1, AppendDistinct DEF WithThread
      <4>2. unit_pipe'[v] = t /\ s = "started"
        BY <1>1, <3>1 DEF PacketInv, PacketTypes
      <4> HIDE DEF t
      <4>3. ASSUME NEW k \in DOMAIN t
            PROVE  status'[t[k]] = "started" /\ UnitOf[t[k]] = u
                   /\ (thread[v].pc = "mark" => t[k] # thread[v].packet)
        <5>1. CASE t[k] = p  BY <1>3, <1>4, <2>8, <4>2, <5>1
        <5>2. CASE \E j \in DOMAIN unit_pipe[u] : unit_pipe[u][j] = t[k]
          BY <1>4, <2>1, <2>6, <2>7, <3>1, <5>2 DEF WithThread
        <5> QED  BY <4>1, <5>1, <5>2
      <4> QED  BY <1>1, <1>4, <2>1, <2>8, <3>1, <4>1, <4>2, <4>3 DEF WithThread
    <3>2. CASE v # u \/ unit_pipe' = unit_pipe
      <4>1. unit_pipe'[v] = unit_pipe[v]
        BY <1>1, <3>2 DEF PacketInv, PacketTypes
      <4> QED  BY <1>1, <1>4, <2>1, <2>6, <2>7, <2>8, <4>1 DEF WithThread
    <3> QED  BY <3>1, <3>2
  <2> QED  BY <2>2, <2>5, <2>9
<1>8. \A r \in replied : status'[r] = "done"
  BY <1>3, <1>4 DEF PacketInv, PacketTypes
<1> QED  BY <1>1, <1>6, <1>7, <1>8 DEF PacketInv

\* Getting the dummy message moves no packet.
LEMMA GetDummyKeepsPackets ==
    ASSUME DummyInv, PacketInv, NEW u \in UnitNos, GetDummy(u)
    PROVE  PacketInv'
<1>1. /\ Gets(u, Dummy)
      /\ process' = [process EXCEPT ![u].pc = "lock"]
      /\ UNCHANGED <<status, unit_pipe, thread, replied>>
  BY DEF GetDummy, ProcessOnly
<1>2. \A v \in UnitNos : process'[v].queue = process[v].queue
  BY <1>1 DEF DummyInv, DummyTypes, ProcessType
<1>3. /\ \A v \in UnitNos : \A k \in DOMAIN port'[v] :
             port'[v][k] # Dummy =>
                 status[port'[v][k]] = "sent" /\ UnitOf[port'[v][k]] = v
      /\ \A v \in UnitNos : \A j, k \in DOMAIN port'[v] :
             port'[v][j] = port'[v][k] /\ port'[v][j] # Dummy => j = k
  BY <1>1, PortAfterGet
<1>4. PacketTypes'  BY <1>1 DEF PacketInv, PacketTypes
<1>5. ASSUME NEW v \in UnitNos
      PROVE  (OnPort(v) /\ InQueue(v) /\ WithThread(v))'
  <2>1. InQueue(v) /\ WithThread(v)  BY DEF PacketInv
  <2>2. process'[v].queue = process[v].queue  BY <1>2
  <2>3. OnPort(v)'  BY <1>1, <1>3 DEF OnPort
  <2> QED  BY <1>1, <2>1, <2>2, <2>3 DEF InQueue, WithThread, Distinct
<1> QED  BY <1>1, <1>4, <1>5 DEF PacketInv

\* A packet that is replied to is done and leaves the queue.
LEMMA ReplyKeepsPackets ==
    ASSUME DummyInv, PacketInv, NEW u \in UnitNos, ScanReply(u)
    PROVE  PacketInv'
<1> DEFINE i == process[u].at
           s == process[u].queue
           p == s[i]
           q == RemoveAt(s, i)
<1>1. /\ status[p] = "done" /\ replied' = replied \cup {p}
      /\ process' = [process EXCEPT ![u].queue = q,
                                    ![u].started = process[u].started - 1]
      /\ UNCHANGED <<port, status, unit_pipe, thread>>
      /\ i <= Len(s)
  BY DEF ScanReply, Scanning, ProcessOnly
<1>2. process \in [UnitNos -> ProcessType]  BY DEF DummyInv, DummyTypes
<1>3. s \in Seq(Packet) /\ i \in Nat \ {0}  BY <1>2 DEF ProcessType
<1>4. i \in 1 .. Len(s) /\ DOMAIN s = 1 .. Len(s) /\ p \in Packet
  <2>1. Len(s) \in Nat /\ DOMAIN s = 1 .. Len(s)  BY <1>3, LenProperties
  <2> HIDE DEF i, s, p
  <2>2. i \in 1 .. Len(s)  BY <1>1, <1>3, <2>1, SMT
  <2> QED  BY <1>3, <2>1, <2>2, ElementOfSeq DEF p
<1>5. InQueue(u)  BY DEF PacketInv
<1>6. Distinct(s) /\ UnitOf[p] = u  BY <1>4, <1>5 DEF InQueue
<1>7. /\ q \in Seq(Packet) /\ PartOf(q, s)
      /\ \A k \in DOMAIN q : q[k] # p
  BY <1>3, <1>4, <1>6, RemoveAtPart
<1>8. /\ Distinct(q)
      /\ \A k \in DOMAIN q : \E j \in DOMAIN s : q[k] = s[j]
  BY <1>6, <1>7, PartDistinct
<1> HIDE DEF q
<1>9. /\ process'[u].queue = q
      /\ \A v \in UnitNos \ {u} : process'[v].queue = process[v].queue
  BY <1>1, <1>2, <1>7 DEF ProcessType
<1>10. PacketTypes'  BY <1>1, <1>4 DEF PacketInv, PacketTypes
<1>11. ASSUME NEW v \in UnitNos
       PROVE  (OnPort(v) /\ InQueue(v) /\ WithThread(v))'
  <2>1. OnPort(v) /\ InQueue(v) /\ WithThread(v)  BY DEF PacketInv
  <2>2. OnPort(v)' /\ WithThread(v)'
    BY <1>1, <2>1 DEF OnPort, WithThread, Distinct
  <2>3. InQueue(v)'
    <3>1. CASE v = u
      <4>1. ASSUME NEW k \in DOMAIN q
            PROVE  /\ status'[q[k]] \in {"unstarted", "started", "done"}
                   /\ q[k] \notin replied'
                   /\ UnitOf[q[k]] = u
        <5>1. PICK j \in DOMAIN s : q[k] = s[j]  BY <1>8
        <5>2. /\ status[s[j]] \in {"unstarted", "started", "done"}
              /\ s[j] \notin replied /\ UnitOf[s[j]] = u
          BY <1>5 DEF InQueue
        <5> QED  BY <1>1, <1>7, <5>1, <5>2
      <4> QED  BY <1>8, <1>9, <3>1, <4>1 DEF InQueue
    <3>2. CASE v # u
      <4>1. process'[v].queue = process[v].queue  BY <1>9, <3>2
      <4>2. \A k \in DOMAIN process[v].queue : process[v].queue[k] # p
        BY <1>6, <2>1, <3>2 DEF InQueue
      <4> QED  BY <1>1, <2>1, <4>1, <4>2 DEF InQueue
    <3> QED  BY <3>1, <3>2
  <2> QED  BY <2>2, <2>3
<1>12. \A r \in replied' : status'[r] = "done"  BY <1>1 DEF PacketInv
<1> QED  BY <1>10, <1>11, <1>12 DEF PacketInv

\* The thread takes a packet from its pipe.
LEMMA HandleKeepsPackets ==
    ASSUME DummyInv, PacketInv, NEW u \in UnitNos, HandlePacket(u)
    PROVE  PacketInv'
<1> DEFINE s == unit_pipe[u]
           p == Head(s)
<1>1. /\ s # << >>
      /\ unit_pipe' = [unit_pipe EXCEPT ![u] = Tail(s)]
      /\ thread' = [thread EXCEPT ![u] = [pc |-> "mark", packet |-> p]]
      /\ UNCHANGED <<port, process, status, replied>>
  BY DEF HandlePacket, ThreadOnly, processVars
<1>2. s \in Seq(Packet)  BY DEF PacketInv, PacketTypes
<1>3. WithThread(u)  BY DEF PacketInv
<1>4. /\ Tail(s) \in Seq(Packet) /\ PartOf(Tail(s), s)
      /\ 1 \in DOMAIN s /\ s[1] = p
      /\ \A k \in DOMAIN Tail(s) : Tail(s)[k] # p
  BY <1>1, <1>2, <1>3, TailPart DEF WithThread
<1>5. /\ Distinct(Tail(s))
      /\ \A k \in DOMAIN Tail(s) : \E j \in DOMAIN s : Tail(s)[k] = s[j]
  BY <1>3, <1>4, PartDistinct DEF WithThread
<1>6. p \in Packet /\ status[p] = "started" /\ UnitOf[p] = u
  BY <1>2, <1>3, <1>4, ElementOfSeq, LenProperties DEF WithThread
<1> HIDE DEF p
<1>7. PacketTypes'
  <2>1. [pc |-> "mark", packet |-> p]
            \in [pc : {"read", "mark", "request"},
                 packet : Packet \cup {NoPacket}]
    BY <1>6
  <2> QED  BY <1>1, <1>4, <2>1 DEF PacketInv, PacketTypes
<1>8. ASSUME NEW v \in UnitNos
      PROVE  (OnPort(v) /\ InQueue(v) /\ WithThread(v))'
  <2>1. OnPort(v) /\ InQueue(v) /\ WithThread(v)  BY DEF PacketInv
  <2>2. OnPort(v)' /\ InQueue(v)'
    BY <1>1, <2>1 DEF OnPort, InQueue, Distinct
  <2>3. WithThread(v)'
    <3>1. CASE v = u
      <4>1. unit_pipe'[v] = Tail(s)
        BY <1>1, <3>1 DEF PacketInv, PacketTypes
      <4>2. thread'[v].packet = p
        BY <1>1, <3>1 DEF PacketInv, PacketTypes
      <4>3. \A k \in DOMAIN Tail(s) :
                status[Tail(s)[k]] = "started" /\ UnitOf[Tail(s)[k]] = u
        BY <1>3, <1>5 DEF WithThread
      <4> HIDE DEF s
      <4>4. status' = status  BY <1>1
      <4> QED
        BY <1>4, <1>5, <1>6, <3>1, <4>1, <4>2, <4>3, <4>4 DEF WithThread
    <3>2. CASE v # u
      <4>1. unit_pipe'[v] = unit_pipe[v] /\ thread'[v] = thread[v]
        BY <1>1, <3>2 DEF PacketInv, PacketTypes
      <4>2. status' = status  BY <1>1
      <4> QED  BY <2>1, <4>1, <4>2 DEF WithThread, Distinct
    <3> QED  BY <3>1, <3>2
  <2> QED  BY <2>2, <2>3
<1> QED  BY <1>1, <1>7, <1>8 DEF PacketInv

\* A packet that is marked is in the queue of its process and nowhere else.
LEMMA MarkKeepsPackets ==
    ASSUME DummyInv, PacketInv, NEW u \in UnitNos, MarkPacket(u)
    PROVE  PacketInv'
<1> DEFINE p == thread[u].packet
<1>1. /\ thread[u].pc = "mark"
      /\ status' = [status EXCEPT ![p] = "done"]
      /\ thread' = [thread EXCEPT ![u].pc = "request"]
      /\ UNCHANGED <<port, process, unit_pipe, replied>>
  BY DEF MarkPacket, ThreadOnly, processVars
<1>2. /\ p \in Packet /\ status[p] = "started" /\ UnitOf[p] = u
      /\ \A k \in DOMAIN unit_pipe[u] : unit_pipe[u][k] # p
  BY <1>1 DEF PacketInv, WithThread
<1> HIDE DEF p
<1>3. PacketTypes'  BY <1>1 DEF PacketInv, PacketTypes
<1>4. \A r \in Packet : status'[r] = IF r = p THEN "done" ELSE status[r]
  BY <1>1 DEF PacketInv, PacketTypes
<1>5. /\ thread'[u].pc = "request"
      /\ \A v \in UnitNos \ {u} : thread'[v] = thread[v]
  BY <1>1 DEF PacketInv, PacketTypes
<1>6. ASSUME NEW v \in UnitNos
      PROVE  (OnPort(v) /\ InQueue(v) /\ WithThread(v))'
  <2>1. OnPort(v) /\ InQueue(v) /\ WithThread(v)  BY DEF PacketInv
  <2>2. OnPort(v)'
    <3>1. port[v] \in Seq(Packet \cup {Dummy})  BY DEF DummyInv, DummyTypes
    <3>2. \A k \in DOMAIN port[v] : port[v][k] \in Packet \cup {Dummy}
      BY <3>1, ElementOfSeq, LenProperties
    <3> QED  BY <1>1, <1>2, <1>4, <2>1, <3>2 DEF OnPort
  <2>3. InQueue(v)'
    <3>1. process[v].queue \in Seq(Packet)
      BY DEF DummyInv, DummyTypes, ProcessType
    <3>2. \A k \in DOMAIN process[v].queue : process[v].queue[k] \in Packet
      BY <3>1, ElementOfSeq, LenProperties
    <3> QED  BY <1>1, <1>4, <2>1, <3>2 DEF InQueue
  <2>4. WithThread(v)'
    <3>1. \A k \in DOMAIN unit_pipe[v] : unit_pipe[v][k] \in Packet
      BY ElementOfSeq, LenProperties DEF PacketInv, PacketTypes
    <3>2. \A k \in DOMAIN unit_pipe[v] : unit_pipe[v][k] # p
      BY <1>2, <2>1 DEF WithThread
    <3>3. \A k \in DOMAIN unit_pipe[v] :
              status'[unit_pipe[v][k]] = "started"
              /\ UnitOf[unit_pipe[v][k]] = v
      BY <1>4, <2>1, <3>1, <3>2 DEF WithThread
    <3>4. CASE v = u  BY <1>1, <1>5, <2>1, <3>3, <3>4 DEF WithThread
    <3>5. CASE v # u
      <4>1. thread'[v] = thread[v]  BY <1>5, <3>5
      <4>2. thread[v].pc = "mark" => thread[v].packet # p
        BY <1>2, <2>1, <3>5 DEF WithThread
      <4> QED  BY <1>1, <1>4, <2>1, <3>3, <4>1, <4>2 DEF WithThread
    <3> QED  BY <3>4, <3>5
  <2> QED  BY <2>2, <2>3, <2>4
<1>7. \A r \in replied : status'[r] = "done"
  BY <1>2, <1>4 DEF PacketInv, PacketTypes
<1> QED  BY <1>1, <1>3, <1>6, <1>7 DEF PacketInv

\* Every step keeps packets where their status says they are.
LEMMA NextPacketInv == DummyInv /\ PacketInv /\ [Next]_vars => PacketInv'
<1> SUFFICES ASSUME DummyInv, PacketInv, [Next]_vars PROVE PacketInv'  OBVIOUS
<1> USE DEF processVars, threadVars, exterVars
<1>1. process \in [UnitNos -> ProcessType]  BY DEF DummyInv, DummyTypes
<1>2. CASE \/ Interrupt \/ TaskWakes \/ ReadWords \/ CallExec \/ ExecReturns
           \/ NoCalls \/ LeaveHelper \/ SkipUnit \/ AckUnit
  <2>1. UNCHANGED <<port, status, unit_pipe, thread, replied, process>>
    BY <1>2 DEF Interrupt, TaskWakes, ReadWords, CallExec, ExecReturns,
                NoCalls, LeaveHelper, SkipUnit, AckUnit
  <2> QED  BY <2>1, PacketsStay
<1>3. CASE PutDummy  BY <1>3, PutDummyKeepsPackets
<1>4. ASSUME NEW p \in Packet, SendPacket(p) PROVE PacketInv'
  BY <1>4, SendKeepsPackets
<1>5. ASSUME NEW u \in UnitNos, ProcessSteps(u) PROVE PacketInv'
  <2>1. CASE \E p \in Packet : StartPacket(u, p) \/ PutOffPacket(u, p)
    BY <2>1, GetKeepsPackets
  <2>2. CASE GetDummy(u)  BY <2>2, GetDummyKeepsPackets
  <2>3. CASE ScanReply(u)  BY <2>3, ReplyKeepsPackets
  <2>4. CASE MessageLock(u) \/ ScanPast(u) \/ ScanEnd(u)
    <3>1. UNCHANGED <<port, status, unit_pipe, thread, replied>>
      BY <2>4 DEF MessageLock, ScanPast, ScanEnd, ProcessOnly
    <3>2. \A v \in UnitNos : process'[v].queue = process[v].queue
      <4>1. CASE MessageLock(u)
        BY <1>1, <4>1 DEF MessageLock, ProcessType
      <4>2. CASE ScanPast(u)  BY <1>1, <4>2 DEF ScanPast, ProcessType
      <4>3. CASE ScanEnd(u)  BY <1>1, <4>3 DEF ScanEnd, ProcessType
      <4> QED  BY <2>4, <4>1, <4>2, <4>3
    <3> QED  BY <3>1, <3>2, PacketsStay
  <2> QED  BY <1>5, <2>1, <2>2, <2>3, <2>4 DEF ProcessSteps
<1>6. ASSUME NEW u \in UnitNos, ThreadSteps(u) PROVE PacketInv'
  <2>1. CASE HandlePacket(u)  BY <2>1, HandleKeepsPackets
  <2>2. CASE MarkPacket(u)  BY <2>2, MarkKeepsPackets
  <2>3. CASE RequestInterrupt(u)
    <3>1. /\ thread' = [thread EXCEPT ![u] = [pc |-> "read", packet |-> NoPacket]]
          /\ UNCHANGED <<port, process, status, unit_pipe, replied>>
      BY <2>3 DEF RequestInterrupt, ThreadOnly
    <3>2. [pc |-> "read", packet |-> NoPacket]
              \in [pc : {"read", "mark", "request"},
                   packet : Packet \cup {NoPacket}]
      OBVIOUS
    <3>3. PacketTypes'  BY <3>1, <3>2 DEF PacketInv, PacketTypes
    <3>4. /\ thread'[u].pc = "read"
          /\ \A v \in UnitNos \ {u} : thread'[v] = thread[v]
      BY <3>1 DEF PacketInv, PacketTypes
    <3>5. UNCHANGED <<port, process, status, unit_pipe, replied>>  BY <3>1
    <3>6. ASSUME NEW v \in UnitNos
          PROVE  (OnPort(v) /\ InQueue(v) /\ WithThread(v))'
      <4>1. OnPort(v) /\ InQueue(v) /\ WithThread(v)  BY DEF PacketInv
      <4>2. OnPort(v)' /\ InQueue(v)'
        BY <3>5, <4>1 DEF OnPort, InQueue, Distinct
      <4>3. WithThread(v)'
        <5>1. CASE v = u
          BY <3>4, <3>5, <4>1, <5>1 DEF WithThread, Distinct
        <5>2. CASE v # u
          <6>1. thread'[v] = thread[v]  BY <3>4, <5>2
          <6> QED  BY <3>5, <4>1, <6>1 DEF WithThread, Distinct
        <5> QED  BY <5>1, <5>2
      <4> QED  BY <4>2, <4>3
    <3> QED  BY <3>3, <3>5, <3>6 DEF PacketInv
  <2> QED  BY <1>6, <2>1, <2>2, <2>3 DEF ThreadSteps
<1>7. CASE \/ UNCHANGED vars
           \/ \E w \in Writers : HostSteps(w) /\ UNCHANGED OtherVars
  <2>1. UNCHANGED <<port, status, unit_pipe, thread, replied, process>>
    BY <1>7 DEF vars, OtherVars
  <2> QED  BY <2>1, PacketsStay
<1> QED  BY <1>2, <1>3, <1>4, <1>5, <1>6, <1>7 DEF Next, ExterSteps

\* Once a packet has been replied to, its memory belongs to the program that
\* sent it: it is in no queue and no thread is going to write to it.
THEOREM PacketsLeftAlone == Spec => []RepliedForGood
<1>1. DummyInv /\ PacketInv => RepliedForGood
  <2> SUFFICES ASSUME DummyInv, PacketInv, NEW u \in UnitNos
               PROVE  /\ \A r \in replied :
                             r \notin Range(process[u].queue) \cup Range(unit_pipe[u])
                      /\ thread[u].packet \in replied => thread[u].pc # "mark"
    BY DEF RepliedForGood
  <2>1. InQueue(u) /\ WithThread(u) /\ \A r \in replied : status[r] = "done"
    BY DEF PacketInv
  <2> QED  BY <2>1 DEF InQueue, WithThread, Range
<1> QED
  BY <1>1, InitDummyInv, NextDummyInv, InitPacketInv, NextPacketInv, PTL
  DEF Spec

-----------------------------------------------------------------------------
(* The numbers of a finite set in order.                                   *)

\* How many elements of a set are not above a number.
UpTo(S, k) == {j \in S : j <= k}
Rank(S, k) == Cardinality(UpTo(S, k))

\* The elements of a finite set of numbers are ranked 1, 2, ...
LEMMA NthIs ==
    ASSUME NEW S, S \subseteq Nat, IsFiniteSet(S), NEW i \in 1 .. Cardinality(S)
    PROVE  /\ Nth(S, i) \in S /\ Rank(S, Nth(S, i)) = i
           /\ \A k \in S : Rank(S, k) = i => k = Nth(S, i)
<1> DEFINE n == Cardinality(S)
           f == [k \in S |-> Rank(S, k)]
<1>1. n \in Nat  BY FS_CardinalityType
<1>2. ASSUME NEW k \in S
      PROVE  /\ UpTo(S, k) \subseteq S /\ IsFiniteSet(UpTo(S, k))
             /\ Rank(S, k) \in 1 .. n
  <2>1. UpTo(S, k) \subseteq S  BY DEF UpTo
  <2>2. IsFiniteSet(UpTo(S, k)) /\ Rank(S, k) <= n
    BY <2>1, FS_Subset DEF Rank
  <2>3. Rank(S, k) \in Nat  BY <2>2, FS_CardinalityType DEF Rank
  <2>4. k \in UpTo(S, k)  BY SMT DEF UpTo
  <2>5. Rank(S, k) # 0  BY <2>2, <2>4, FS_EmptySet DEF Rank
  <2> HIDE DEF n
  <2> QED  BY <1>1, <2>1, <2>2, <2>3, <2>5, SMT
<1>3. ASSUME NEW j \in S, NEW k \in S, j < k PROVE Rank(S, j) < Rank(S, k)
  <2>1. /\ UpTo(S, j) \cup {k} \subseteq UpTo(S, k)
        /\ k \notin UpTo(S, j)
    <3>1. k <= k /\ ~(k <= j)  BY <1>3, SMT
    <3>2. ASSUME NEW a \in S, a <= j PROVE a <= k
      <4>1. a \in Nat /\ j \in Nat /\ k \in Nat  OBVIOUS
      <4> QED  BY <1>3, <3>2, <4>1, SMT
    <3> QED  BY <3>1, <3>2 DEF UpTo
  <2>2. Cardinality(UpTo(S, j) \cup {k}) = Rank(S, j) + 1
    BY <1>2, <2>1, FS_AddElement DEF Rank
  <2>3. Cardinality(UpTo(S, j) \cup {k}) <= Rank(S, k)
    BY <1>2, <2>1, FS_Subset DEF Rank
  <2>4. Rank(S, j) \in Nat /\ Rank(S, k) \in Nat
    <3> HIDE DEF n
    <3> QED  BY <1>1, <1>2
  <2> QED  BY <2>2, <2>3, <2>4, SMT
<1>4. \A j, k \in S : Rank(S, j) = Rank(S, k) => j = k
  <2>1. SUFFICES ASSUME NEW j \in S, NEW k \in S, Rank(S, j) = Rank(S, k)
                 PROVE  j = k
    OBVIOUS
  <2>2. ~(Rank(S, j) < Rank(S, j))
    <3>1. Rank(S, j) \in Int  BY <1>2
    <3> QED  BY <3>1
  <2>3. ~(j < k) /\ ~(k < j)  BY <1>3, <2>1, <2>2
  <2> QED  BY <2>3, SMT
<1>5. f \in Injection(S, 1 .. n)
  <2>1. f \in [S -> 1 .. n]  BY <1>2
  <2> QED  BY <1>4, <2>1 DEF Injection, IsInjective
<1>6. IsFiniteSet(1 .. n) /\ Cardinality(1 .. n) = n
  <2> HIDE DEF n
  <2>1. 1 \in Int /\ n \in Int  BY <1>1
  <2>2. /\ IsFiniteSet(1 .. n)
        /\ Cardinality(1 .. n) = IF 1 > n THEN 0 ELSE n - 1 + 1
    BY <2>1, FS_Interval
  <2> QED  BY <1>1, <2>2, SMT
<1>7. f \in Surjection(S, 1 .. n)  BY <1>5, <1>6, FS_Injection
<1>8. \E k \in S : Rank(S, k) = i  BY <1>7 DEF Surjection
<1>9. Nth(S, i) \in S /\ Rank(S, Nth(S, i)) = i
  BY <1>8 DEF Nth, Rank, UpTo
<1> QED  BY <1>4, <1>9

\* A number above all others comes last.
LEMMA NthAdd ==
    ASSUME NEW S, S \subseteq Nat, IsFiniteSet(S), NEW x \in Nat,
           \A k \in S : k < x
    PROVE  /\ S \cup {x} \subseteq Nat /\ IsFiniteSet(S \cup {x})
           /\ Cardinality(S) \in Nat
           /\ Cardinality(S \cup {x}) = Cardinality(S) + 1
           /\ \A i \in 1 .. Cardinality(S) : Nth(S \cup {x}, i) = Nth(S, i)
           /\ Nth(S \cup {x}, Cardinality(S) + 1) = x
<1> DEFINE G == S \cup {x}
           n == Cardinality(S)
<1>1. x \notin S
  <2>1. ~(x < x)  BY SMT
  <2> QED  BY <2>1
<1>2. /\ G \subseteq Nat /\ IsFiniteSet(G)
      /\ n \in Nat /\ Cardinality(G) = n + 1
  BY <1>1, FS_AddElement, FS_CardinalityType
<1>3. \A k \in S : UpTo(G, k) = UpTo(S, k)
  <2>1. SUFFICES ASSUME NEW k \in S PROVE UpTo(G, k) = UpTo(S, k)  OBVIOUS
  <2>2. ~(x <= k)  BY SMT
  <2> QED  BY <2>2 DEF UpTo
<1>4. UpTo(G, x) = G
  <2>1. x <= x  BY SMT
  <2>2. ASSUME NEW k \in S PROVE k <= x
    <3>1. k \in Nat /\ k < x  OBVIOUS
    <3> QED  BY <3>1, SMT
  <2> QED  BY <2>1, <2>2 DEF UpTo
<1>5. x \in G /\ S \subseteq G  OBVIOUS
<1> HIDE DEF G, n
<1>6. ASSUME NEW i \in 1 .. n PROVE Nth(G, i) = Nth(S, i)
  <2>1. Nth(S, i) \in S /\ Rank(S, Nth(S, i)) = i  BY NthIs DEF n
  <2>2. Rank(G, Nth(S, i)) = i  BY <1>3, <2>1 DEF Rank
  <2>3. i \in 1 .. Cardinality(G)  BY <1>2, SMT
  <2> QED  BY <1>2, <1>5, <2>1, <2>2, <2>3, NthIs
<1>7. Nth(G, n + 1) = x
  <2>1. n + 1 \in 1 .. Cardinality(G)  BY <1>2, SMT
  <2>2. Rank(G, x) = n + 1  BY <1>2, <1>4 DEF Rank
  <2> QED  BY <1>2, <1>5, <2>1, <2>2, NthIs
<1> QED  BY <1>2, <1>6, <1>7 DEF G, n

Shifted(S, n) == {k + n : k \in S}

\* As many numbers are there when all are larger.
LEMMA ShiftedCount ==
    ASSUME NEW S, S \subseteq Nat, IsFiniteSet(S), NEW n \in Nat
    PROVE  /\ Shifted(S, n) \subseteq Nat /\ IsFiniteSet(Shifted(S, n))
           /\ Cardinality(Shifted(S, n)) = Cardinality(S)
<1> DEFINE T == Shifted(S, n)
           f == [k \in S |-> k + n]
<1>1. f \in [S -> T]  BY DEF Shifted
<1>2. \A j, k \in S : f[j] = f[k] => j = k
  <2>1. SUFFICES ASSUME NEW j \in S, NEW k \in S, j + n = k + n PROVE j = k
    OBVIOUS
  <2>2. j \in Nat /\ k \in Nat  OBVIOUS
  <2> QED  BY <2>1, <2>2, SMT
<1>3. \A t \in T : \E k \in S : f[k] = t  BY DEF Shifted
<1> HIDE DEF f
<1>4. f \in Bijection(S, T)
  BY <1>1, <1>2, <1>3 DEF Bijection, Injection, IsInjective, Surjection
<1>5. ExistsBijection(S, T)  BY <1>4 DEF ExistsBijection
<1>6. T \subseteq Nat
  <2>1. ASSUME NEW k \in S PROVE k + n \in Nat
    <3>1. k \in Nat  OBVIOUS
    <3> QED  BY <3>1, SMT
  <2> QED  BY <2>1 DEF Shifted
<1> QED  BY <1>5, <1>6, FS_Bijection

\* With 1 put before them each is one later.
LEMMA NthShifted ==
    ASSUME NEW S, S \subseteq Nat \ {0}, IsFiniteSet(S), NEW n \in Nat \ {0}
    PROVE  LET G == {1} \cup Shifted(S, n)
           IN  /\ G \subseteq Nat /\ IsFiniteSet(G)
               /\ Cardinality(S) \in Nat
               /\ Cardinality(G) = Cardinality(S) + 1
               /\ \A i \in 1 .. Cardinality(S) : Nth(G, i + 1) = Nth(S, i) + n
<1> DEFINE G == {1} \cup Shifted(S, n)
<1>1. \A k \in S : k \in Nat /\ k + n # 1 /\ k + n \in Nat /\ ~(k + n <= 1)
  <2>1. SUFFICES ASSUME NEW k \in S
                 PROVE  k \in Nat /\ k + n # 1 /\ k + n \in Nat /\ ~(k + n <= 1)
    OBVIOUS
  <2>2. k \in Nat \ {0}  OBVIOUS
  <2> QED  BY <2>2, SMT
<1>2. ASSUME NEW T, T \subseteq S
      PROVE  /\ {1} \cup Shifted(T, n) \subseteq Nat
             /\ IsFiniteSet({1} \cup Shifted(T, n))
             /\ IsFiniteSet(T) /\ Cardinality(T) \in Nat
             /\ Cardinality({1} \cup Shifted(T, n)) = Cardinality(T) + 1
  <2>1. IsFiniteSet(T) /\ T \subseteq Nat /\ n \in Nat
    BY <1>1, <1>2, FS_Subset
  <2>2. /\ Shifted(T, n) \subseteq Nat /\ IsFiniteSet(Shifted(T, n))
        /\ Cardinality(Shifted(T, n)) = Cardinality(T)
    BY <2>1, ShiftedCount
  <2>3. 1 \notin Shifted(T, n)  BY <1>1, <1>2 DEF Shifted
  <2>4. /\ IsFiniteSet(Shifted(T, n) \cup {1})
        /\ Cardinality(Shifted(T, n) \cup {1}) = Cardinality(T) + 1
    BY <2>2, <2>3, FS_AddElement
  <2>5. Shifted(T, n) \cup {1} = {1} \cup Shifted(T, n)  OBVIOUS
  <2>6. Cardinality(T) \in Nat  BY <2>1, FS_CardinalityType
  <2>7. {1} \cup Shifted(T, n) \subseteq Nat  BY <2>2
  <2>8. /\ IsFiniteSet({1} \cup Shifted(T, n))
        /\ Cardinality({1} \cup Shifted(T, n)) = Cardinality(T) + 1
    BY <2>2, <2>4, <2>5
  <2> QED  BY <2>1, <2>6, <2>7, <2>8
<1>3. ASSUME NEW k \in S PROVE Rank(G, k + n) = Rank(S, k) + 1
  <2>1. UpTo(G, k + n) = {1} \cup Shifted(UpTo(S, k), n)
    <3>1. 1 <= k + n  BY <1>1, SMT
    <3>2. \A j \in S : j + n <= k + n <=> j <= k  BY <1>1, SMT
    <3> QED  BY <3>1, <3>2 DEF UpTo, Shifted
  <2>2. UpTo(S, k) \subseteq S  BY DEF UpTo
  <2>3. Cardinality({1} \cup Shifted(UpTo(S, k), n)) = Cardinality(UpTo(S, k)) + 1
    BY <1>2, <2>2
  <2> QED  BY <2>1, <2>3 DEF Rank
<1>4. /\ G \subseteq Nat /\ IsFiniteSet(G)
      /\ Cardinality(S) \in Nat /\ Cardinality(G) = Cardinality(S) + 1
  BY <1>2
<1>5. \A k \in S : k + n \in G  BY DEF Shifted
<1> HIDE DEF G
<1>6. ASSUME NEW i \in 1 .. Cardinality(S) PROVE Nth(G, i + 1) = Nth(S, i) + n
  <2>1. Nth(S, i) \in S /\ Rank(S, Nth(S, i)) = i
    <3>1. S \subseteq Nat  BY <1>1
    <3> QED  BY <3>1, NthIs
  <2>2. Rank(G, Nth(S, i) + n) = i + 1 /\ Nth(S, i) + n \in G
    BY <1>3, <1>5, <2>1
  <2>3. i + 1 \in 1 .. Cardinality(G)  BY <1>4, SMT
  <2> QED  BY <1>4, <2>2, <2>3, NthIs
<1> QED  BY <1>4, <1>6 DEF G

-----------------------------------------------------------------------------
(* The first words of calls in a sequence of words.                        *)

\* All words, that after the last of all included.
AnyWord == (1 .. MaxCalls + 1) \X (1 .. 4)

\* The places of the first words in a sequence.
LEMMA FirstsIs ==
    ASSUME NEW s \in Seq(AnyWord)
    PROVE  /\ Firsts(s) \subseteq Nat \ {0} /\ Firsts(s) \subseteq Nat
           /\ \A k \in Firsts(s) : k \in 1 .. Len(s)
           /\ IsFiniteSet(Firsts(s)) /\ Cardinality(Firsts(s)) \in Nat
<1>1. DOMAIN s = 1 .. Len(s) /\ Len(s) \in Nat  BY LenProperties
<1>2. Firsts(s) \subseteq 1 .. Len(s)  BY <1>1 DEF Firsts
<1>3. IsFiniteSet(1 .. Len(s))
  <2> DEFINE n == Len(s)
  <2>1. 1 \in Int /\ n \in Int  BY <1>1
  <2> HIDE DEF n
  <2>2. IsFiniteSet(1 .. n)  BY <2>1, FS_Interval
  <2> QED  BY <2>2 DEF n
<1>4. IsFiniteSet(Firsts(s))  BY <1>2, <1>3, FS_Subset
<1>5. Cardinality(Firsts(s)) \in Nat  BY <1>4, FS_CardinalityType
<1>6. 1 .. Len(s) \subseteq Nat \ {0}  BY <1>1, SMT
<1> QED  BY <1>2, <1>4, <1>5, <1>6

\* Only a first word adds to them.
LEMMA FirstsAppend ==
    ASSUME NEW s \in Seq(AnyWord), NEW x \in AnyWord
    PROVE  /\ x[2] # 1 => Firsts(Append(s, x)) = Firsts(s)
           /\ x[2] = 1 => Firsts(Append(s, x)) = Firsts(s) \cup {Len(s) + 1}
           /\ Len(s) + 1 \in Nat /\ \A k \in Firsts(s) : k < Len(s) + 1
           /\ Cardinality(Firsts(Append(s, x))) =
                  Cardinality(Firsts(s)) + (IF x[2] = 1 THEN 1 ELSE 0)
<1> DEFINE t == Append(s, x)
           n == Len(s)
<1>1. /\ t \in Seq(AnyWord) /\ Len(t) = n + 1
      /\ \A i \in 1 .. n : t[i] = s[i]
      /\ t[n + 1] = x
  BY AppendProperties
<1>2. DOMAIN s = 1 .. n /\ n \in Nat  BY LenProperties
<1> HIDE DEF t, n
<1>3. DOMAIN t = 1 .. n + 1  BY <1>1, LenProperties
<1>4. /\ 1 .. n + 1 = (1 .. n) \cup {n + 1} /\ n + 1 \in Nat
      /\ \A k \in 1 .. n : k < n + 1
  BY <1>2, SMT
<1>5. Firsts(t) = Firsts(s) \cup (IF x[2] = 1 THEN {n + 1} ELSE {})
  BY <1>1, <1>2, <1>3, <1>4 DEF Firsts
<1>6. \A k \in Firsts(s) : k < n + 1  BY <1>4, FirstsIs DEF n
<1>7. /\ Firsts(s) \subseteq Nat /\ IsFiniteSet(Firsts(s))
      /\ Cardinality(Firsts(s)) \in Nat
  BY FirstsIs
<1>8. CASE x[2] = 1
  <2>1. Firsts(t) = Firsts(s) \cup {n + 1}  BY <1>5, <1>8
  <2>2. Cardinality(Firsts(t)) = Cardinality(Firsts(s)) + 1
    BY <1>4, <1>6, <1>7, <2>1, NthAdd
  <2> QED  BY <1>4, <1>6, <1>8, <2>1, <2>2 DEF t, n
<1>9. CASE x[2] # 1
  <2>1. Firsts(t) = Firsts(s)  BY <1>5, <1>9
  <2>2. Cardinality(Firsts(t)) = Cardinality(Firsts(s)) + 0
    BY <1>7, <2>1
  <2> QED  BY <1>4, <1>6, <1>9, <2>1, <2>2 DEF t, n
<1> QED  BY <1>8, <1>9

\* The words of one call before others add one.
LEMMA FirstsConcat ==
    ASSUME NEW p \in Seq(AnyWord), NEW h \in Seq(AnyWord), p # << >>,
           \A k \in DOMAIN p : p[k][2] = k
    PROVE  /\ Firsts(p \o h) = {1} \cup Shifted(Firsts(h), Len(p))
           /\ Len(p) \in Nat \ {0}
           /\ Cardinality(Firsts(p \o h)) = Cardinality(Firsts(h)) + 1
<1> DEFINE n == Len(p)
           m == Len(h)
           s == p \o h
<1>1. /\ s \in Seq(AnyWord) /\ Len(s) = n + m
      /\ \A i \in 1 .. n + m : s[i] = IF i <= n THEN p[i] ELSE h[i - n]
  BY ConcatProperties
<1>2. /\ DOMAIN p = 1 .. n /\ DOMAIN h = 1 .. m /\ n \in Nat /\ m \in Nat
      /\ n # 0
  BY LenProperties, EmptySeq
<1> HIDE DEF s, n, m
<1>3. DOMAIN s = 1 .. n + m  BY <1>1, LenProperties
<1>4. ASSUME NEW i \in 1 .. n PROVE i \in DOMAIN s /\ (s[i][2] = 1 <=> i = 1)
  <2>1. i \in 1 .. n + m /\ i <= n  BY <1>2, SMT
  <2>2. s[i] = p[i]  BY <1>1, <2>1
  <2> QED  BY <1>2, <1>3, <2>1, <2>2
<1>5. ASSUME NEW k \in 1 .. m PROVE k + n \in DOMAIN s /\ s[k + n] = h[k]
  <2> DEFINE j == k + n
  <2>1. j \in 1 .. n + m /\ ~(j <= n) /\ j - n = k  BY <1>2, SMT
  <2> HIDE DEF j
  <2>2. j \in DOMAIN s /\ s[j] = h[k]  BY <1>1, <1>3, <2>1
  <2> QED  BY <2>2 DEF j
<1>6. ASSUME NEW i \in 1 .. n + m
      PROVE  i \in 1 .. n \/ \E k \in 1 .. m : i = k + n
  <2>1. CASE i <= n  BY <1>2, <2>1, SMT
  <2>2. CASE ~(i <= n)
    <3>1. i - n \in 1 .. m /\ i = (i - n) + n  BY <1>2, <2>2, SMT
    <3> QED  BY <3>1
  <2> QED  BY <2>1, <2>2
<1>7. 1 \in 1 .. n  BY <1>2, SMT
<1>8. Firsts(s) \subseteq {1} \cup Shifted(Firsts(h), n)
  <2>1. SUFFICES ASSUME NEW i \in DOMAIN s, s[i][2] = 1
                 PROVE  i \in {1} \cup Shifted(Firsts(h), n)
    BY DEF Firsts
  <2>2. CASE i \in 1 .. n  BY <1>4, <2>1, <2>2
  <2>3. ASSUME NEW k \in 1 .. m, i = k + n
        PROVE  i \in Shifted(Firsts(h), n)
    <3>1. h[k][2] = 1  BY <1>5, <2>1, <2>3
    <3>2. k \in Firsts(h)  BY <1>2, <3>1 DEF Firsts
    <3> QED  BY <2>3, <3>2 DEF Shifted
  <2> QED  BY <1>3, <1>6, <2>2, <2>3
<1>9. {1} \cup Shifted(Firsts(h), n) \subseteq Firsts(s)
  <2>1. 1 \in Firsts(s)  BY <1>4, <1>7 DEF Firsts
  <2>2. ASSUME NEW k \in Firsts(h) PROVE k + n \in Firsts(s)
    <3>1. k \in 1 .. m /\ h[k][2] = 1  BY <1>2 DEF Firsts
    <3> QED  BY <1>5, <3>1 DEF Firsts
  <2> QED  BY <2>1, <2>2 DEF Shifted
<1>10. Firsts(s) = {1} \cup Shifted(Firsts(h), n)  BY <1>8, <1>9
<1>11. n \in Nat \ {0}  BY <1>2
<1>12. Cardinality(Firsts(s)) = Cardinality(Firsts(h)) + 1
  <2>1. Firsts(h) \subseteq Nat \ {0} /\ IsFiniteSet(Firsts(h))  BY FirstsIs
  <2> QED  BY <1>10, <1>11, <2>1, NthShifted
<1> QED  BY <1>10, <1>11, <1>12 DEF s, n

\* The calls of a sequence of words, as a sequence.
LEMMA CallsInIs ==
    ASSUME NEW s \in Seq(AnyWord)
    PROVE  /\ CallsIn(s) \in Seq(1 .. MaxCalls + 1)
           /\ Len(CallsIn(s)) = Cardinality(Firsts(s))
           /\ \A i \in 1 .. Cardinality(Firsts(s)) :
                  /\ CallsIn(s)[i] = s[Nth(Firsts(s), i)][1]
                  /\ Nth(Firsts(s), i) \in 1 .. Len(s)
<1> DEFINE n == Cardinality(Firsts(s))
           f == CallsIn(s)
<1>1. f = [i \in 1 .. n |-> s[Nth(Firsts(s), i)][1]]  BY DEF CallsIn
<1>2. n \in Nat  BY FirstsIs
<1>3. ASSUME NEW i \in 1 .. n
      PROVE  /\ Nth(Firsts(s), i) \in 1 .. Len(s)
             /\ s[Nth(Firsts(s), i)][1] \in 1 .. MaxCalls + 1
  <2>1. Firsts(s) \subseteq Nat /\ IsFiniteSet(Firsts(s))  BY FirstsIs
  <2>2. Nth(Firsts(s), i) \in Firsts(s)  BY <2>1, NthIs
  <2>3. Nth(Firsts(s), i) \in 1 .. Len(s)  BY <2>2, FirstsIs
  <2>4. s[Nth(Firsts(s), i)] \in AnyWord  BY <2>3, ElementOfSeq
  <2> QED  BY <2>3, <2>4 DEF AnyWord
<1> HIDE DEF n, f
<1>4. f \in [1 .. n -> 1 .. MaxCalls + 1]  BY <1>1, <1>3
<1>5. f \in Seq(1 .. MaxCalls + 1)
  <2> DEFINE E == 1 .. MaxCalls + 1
             D == 1 .. n
  <2>1. f \in [D -> E] /\ n \in Nat  BY <1>2, <1>4
  <2> HIDE DEF E
  <2>2. [D -> E] \in {[1 .. k -> E] : k \in Nat}  BY <2>1
  <2> HIDE DEF D
  <2>3. f \in UNION {[1 .. k -> E] : k \in Nat}  BY <2>1, <2>2
  <2>4. f \in Seq(E)  BY <2>3, SeqDef
  <2> QED  BY <2>4 DEF E
<1>6. Len(f) = n  BY <1>2, <1>4, <1>5, LenProperties
<1>7. \A i \in 1 .. n : f[i] = s[Nth(Firsts(s), i)][1]  BY <1>1
<1> QED  BY <1>3, <1>5, <1>6, <1>7 DEF n, f

\* A first word adds its call at the end.
LEMMA CallsInAppend ==
    ASSUME NEW s \in Seq(AnyWord), NEW x \in AnyWord
    PROVE  CallsIn(Append(s, x)) =
               IF x[2] = 1 THEN Append(CallsIn(s), x[1]) ELSE CallsIn(s)
<1> DEFINE t == Append(s, x)
           n == Cardinality(Firsts(s))
           l == Len(s)
<1>1. /\ t \in Seq(AnyWord)
      /\ \A i \in 1 .. l : t[i] = s[i]
      /\ t[l + 1] = x
  BY AppendProperties
<1>2. /\ CallsIn(s) \in Seq(1 .. MaxCalls + 1) /\ Len(CallsIn(s)) = n
      /\ \A i \in 1 .. n : /\ CallsIn(s)[i] = s[Nth(Firsts(s), i)][1]
                           /\ Nth(Firsts(s), i) \in 1 .. l
  BY CallsInIs
<1>3. /\ Firsts(s) \subseteq Nat /\ IsFiniteSet(Firsts(s)) /\ n \in Nat
  BY FirstsIs
<1>4. /\ l + 1 \in Nat /\ \A k \in Firsts(s) : k < l + 1
      /\ x[2] # 1 => Firsts(t) = Firsts(s)
      /\ x[2] = 1 => Firsts(t) = Firsts(s) \cup {l + 1}
  BY FirstsAppend
<1>5. /\ CallsIn(t) \in Seq(1 .. MaxCalls + 1)
      /\ Len(CallsIn(t)) = Cardinality(Firsts(t))
      /\ \A i \in 1 .. Cardinality(Firsts(t)) :
             CallsIn(t)[i] = t[Nth(Firsts(t), i)][1]
  BY <1>1, CallsInIs
<1>6. x[1] \in 1 .. MaxCalls + 1  BY DEF AnyWord
<1> HIDE DEF t, n, l
<1>7. CASE x[2] # 1
  <2>1. Firsts(t) = Firsts(s) /\ Cardinality(Firsts(t)) = n
    BY <1>4, <1>7 DEF n
  <2>2. \A i \in 1 .. n : CallsIn(t)[i] = CallsIn(s)[i]
    BY <1>1, <1>2, <1>5, <2>1, SMTT(20)
  <2>3. CallsIn(t) = CallsIn(s)  BY <1>2, <1>5, <2>1, <2>2, SeqEqual
  <2> QED  BY <1>7, <2>3 DEF t
<1>8. CASE x[2] = 1
  <2> DEFINE r == Append(CallsIn(s), x[1])
  <2>1. /\ r \in Seq(1 .. MaxCalls + 1) /\ Len(r) = n + 1
        /\ \A i \in 1 .. n : r[i] = CallsIn(s)[i]
        /\ r[n + 1] = x[1]
    BY <1>2, <1>6, AppendProperties
  <2> HIDE DEF r
  <2>2. Firsts(t) = Firsts(s) \cup {l + 1}  BY <1>4, <1>8
  <2>3. /\ Cardinality(Firsts(t)) = n + 1
        /\ \A i \in 1 .. n : Nth(Firsts(t), i) = Nth(Firsts(s), i)
        /\ Nth(Firsts(t), n + 1) = l + 1
    <3> DEFINE S == Firsts(s)
               x1 == l + 1
    <3>1. /\ S \subseteq Nat /\ IsFiniteSet(S) /\ x1 \in Nat
          /\ \A k \in S : k < x1
      BY <1>3, <1>4
    <3>2. Firsts(t) = S \cup {x1} /\ n = Cardinality(S)  BY <2>2 DEF n
    <3> HIDE DEF S, x1
    <3>3. /\ Cardinality(S \cup {x1}) = Cardinality(S) + 1
          /\ \A i \in 1 .. Cardinality(S) : Nth(S \cup {x1}, i) = Nth(S, i)
          /\ Nth(S \cup {x1}, Cardinality(S) + 1) = x1
      BY <3>1, NthAdd
    <3> QED  BY <3>2, <3>3 DEF S, x1
  <2>4. ASSUME NEW i \in 1 .. n + 1 PROVE CallsIn(t)[i] = r[i]
    <3>1. CallsIn(t)[i] = t[Nth(Firsts(t), i)][1]  BY <1>5, <2>3
    <3>2. CASE i = n + 1  BY <1>1, <2>1, <2>3, <3>1, <3>2
    <3>3. CASE i # n + 1
      <4>1. i \in 1 .. n  BY <1>3, <3>3, SMT
      <4> QED  BY <1>1, <1>2, <2>1, <2>3, <3>1, <4>1
    <3> QED  BY <3>2, <3>3
  <2>5. CallsIn(t) = r  BY <1>5, <2>1, <2>3, <2>4, SeqEqual
  <2> QED  BY <1>8, <2>5 DEF t, r
<1> QED  BY <1>7, <1>8

\* Without the words of the first call the others are left.
LEMMA CallsInConcat ==
    ASSUME NEW p \in Seq(AnyWord), NEW h \in Seq(AnyWord), p # << >>,
           \A k \in DOMAIN p : p[k][2] = k
    PROVE  CallsIn(p \o h) # << >> /\ CallsIn(h) = Tail(CallsIn(p \o h))
<1> DEFINE n == Len(p)
           m == Len(h)
           s == p \o h
           F == Firsts(h)
           c == Cardinality(F)
<1>1. /\ s \in Seq(AnyWord)
      /\ \A i \in 1 .. n + m : s[i] = IF i <= n THEN p[i] ELSE h[i - n]
  BY ConcatProperties
<1>2. m \in Nat  BY LenProperties
<1>3. /\ Firsts(s) = {1} \cup Shifted(F, n) /\ n \in Nat \ {0}
      /\ Cardinality(Firsts(s)) = c + 1
  BY FirstsConcat
<1>4. F \subseteq Nat \ {0} /\ IsFiniteSet(F) /\ c \in Nat  BY FirstsIs
<1>5. \A i \in 1 .. c : Nth(Firsts(s), i + 1) = Nth(F, i) + n
  BY <1>3, <1>4, NthShifted
<1>6. /\ CallsIn(s) \in Seq(1 .. MaxCalls + 1) /\ Len(CallsIn(s)) = c + 1
      /\ \A i \in 1 .. c + 1 : CallsIn(s)[i] = s[Nth(Firsts(s), i)][1]
  BY <1>1, <1>3, CallsInIs
<1>7. /\ CallsIn(h) \in Seq(1 .. MaxCalls + 1) /\ Len(CallsIn(h)) = c
      /\ \A i \in 1 .. c : /\ CallsIn(h)[i] = h[Nth(F, i)][1]
                           /\ Nth(F, i) \in 1 .. m
  BY CallsInIs
<1> HIDE DEF n, m, s, F, c
<1>8. CallsIn(s) # << >>
  <2>1. c + 1 # 0  BY <1>4, SMT
  <2> QED  BY <1>6, <2>1, EmptySeq
<1> DEFINE r == Tail(CallsIn(s))
<1>9. /\ r \in Seq(1 .. MaxCalls + 1) /\ Len(r) = Len(CallsIn(s)) - 1
      /\ \A i \in 1 .. Len(r) : r[i] = CallsIn(s)[i + 1]
  BY <1>6, <1>8, HeadTailProperties
<1> HIDE DEF r
<1>10. Len(r) = c  BY <1>4, <1>6, <1>9, SMT
<1>11. ASSUME NEW i \in 1 .. c PROVE CallsIn(h)[i] = r[i]
  <2> DEFINE j == Nth(F, i)
             k == j + n
  <2>1. j \in 1 .. m /\ CallsIn(h)[i] = h[j][1]  BY <1>7
  <2> HIDE DEF j
  <2>2. k \in 1 .. n + m /\ ~(k <= n) /\ k - n = j  BY <1>2, <1>3, <2>1, SMT
  <2>3. Nth(Firsts(s), i + 1) = k  BY <1>5 DEF j
  <2> HIDE DEF k
  <2>4. s[k] = h[j]  BY <1>1, <2>2
  <2>5. i + 1 \in 1 .. c + 1  BY <1>4, SMT
  <2>6. CallsIn(s)[i + 1] = s[k][1]  BY <1>6, <2>3, <2>5
  <2>7. r[i] = CallsIn(s)[i + 1]  BY <1>9, <1>10
  <2> QED  BY <2>1, <2>4, <2>6, <2>7
<1>12. CallsIn(h) = r  BY <1>7, <1>9, <1>10, <1>11, SeqEqual
<1> QED  BY <1>8, <1>12 DEF s, r

-----------------------------------------------------------------------------
(* Whole calls.                                                            *)

\* The word that is written after a word.
After(x) == IF x[2] < Length[x[1]] THEN <<x[1], x[2] + 1>> ELSE <<x[1] + 1, 1>>

\* Words that follow each other in that order, from the first of a call on,
\* with no more calls than have been made up to the last word.
Chain(s) ==
    /\ s[1][2] = 1
    /\ \A k \in 1 .. Len(s) - 1 : s[k + 1] = After(s[k])
    /\ Cardinality(Firsts(s)) <= s[Len(s)][1]

\* The word that a writer is about to put into the pipe.
InFlight(w) == wpc[w] \in {"lock", "sleep", "relock", "index", "fastIndex"}

\* The word that goes into the pipe next.
Coming(y) ==
    /\ (\A w \in Writers : ~Calling(w)) => y = <<calls + 1, 1>>
    /\ \A w \in Writers :
           Calling(w) =>
               y = IF InFlight(w) THEN word[w]
                   ELSE IF call[w].part < Length[calls]
                        THEN <<calls, call[w].part + 1>>
                        ELSE <<calls + 1, 1>>

\* The call being made is the latest, and the word in flight its latest.
LatestCall ==
    /\ calls \in 0 .. MaxCalls
    /\ \A w \in Writers : Calling(w) => call[w].msg = calls
    /\ \A w \in Writers :
           InFlight(w) => word[w] = <<calls, call[w].part>> /\ call[w].part # 0

\* The trap has read no more than one call, and all of it when the task goes
\* on to carry it out.
ReadSoFar ==
    /\ parts \in Seq(Word) /\ Held \in Seq(Word)
    /\ exter \notin {"read", "exec"} => parts = << >>
    /\ parts # << >> => Len(parts) <= Length[parts[1][1]]
    /\ exter = "exec" => parts # << >> /\ Len(parts) = Length[parts[1][1]]

\* What the trap has read, what is in the pipe and what goes in next are the
\* words of the calls, one after the other.
Ordered == \E y \in AnyWord : Coming(y) /\ Chain(Append(parts \o Held, y))

StreamInv == LatestCall /\ ReadSoFar /\ WholeCalls /\ Ordered

\* A word names a call and one of its words.
LEMMA WordIs ==
    ASSUME NEW x \in Word
    PROVE  /\ x \in AnyWord
           /\ x[1] \in Message /\ x[2] \in 1 .. 4 /\ x = <<x[1], x[2]>>
           /\ Length[x[1]] \in 2 .. 4
<1>1. PICK m \in Message, k \in 1 .. 4 : x = <<m, k>>  BY MessageAssumption
<1>2. Length[m] \in 2 .. 4  BY MessageAssumption
<1>3. m \in 1 .. MaxCalls + 1  BY MessageAssumption, SMT DEF Message
<1>4. x[1] = m /\ x[2] = k  BY <1>1
<1> QED  BY <1>1, <1>2, <1>3, <1>4 DEF AnyWord

\* Appending to the second of two sequences appends to both.
LEMMA ConcatAppend ==
    ASSUME NEW S, NEW s \in Seq(S), NEW t \in Seq(S), NEW x \in S
    PROVE  s \o Append(t, x) = Append(s \o t, x)
<1> DEFINE e == <<x>>
<1>1. e \in Seq(S)  OBVIOUS
<1>2. Append(t, x) = t \o e  BY AppendIsConcat
<1>3. s \o t \in Seq(S)  BY ConcatProperties
<1>4. Append(s \o t, x) = (s \o t) \o e  BY <1>3, AppendIsConcat
<1> HIDE DEF e
<1> QED  BY <1>1, <1>2, <1>4, ConcatAssociative

\* Moving the first element of the second to the end of the first changes
\* nothing.
LEMMA ConcatMove ==
    ASSUME NEW S, NEW s \in Seq(S), NEW t \in Seq(S), t # << >>
    PROVE  Append(s, Head(t)) \o Tail(t) = s \o t
<1> DEFINE x == Head(t)
           u == Tail(t)
           e == <<x>>
<1>1. /\ x \in S /\ u \in Seq(S) /\ Len(u) = Len(t) - 1
      /\ \A i \in 1 .. Len(u) : u[i] = t[i + 1]
      /\ x = t[1]
  BY HeadTailProperties
<1> HIDE DEF x, u
<1>2. e \in Seq(S) /\ Len(e) = 1 /\ e[1] = x  BY <1>1
<1>3. Append(s, x) = s \o e  BY <1>1, AppendIsConcat
<1> HIDE DEF e
<1>4. /\ e \o u \in Seq(S)
      /\ Len(e \o u) = 1 + Len(u)
      /\ \A i \in 1 .. 1 + Len(u) : (e \o u)[i] = IF i <= 1 THEN e[i] ELSE u[i - 1]
  <2>1. e \in Seq(S) /\ u \in Seq(S) /\ Len(e) = 1  BY <1>1, <1>2
  <2>2. /\ e \o u \in Seq(S) /\ Len(e \o u) = Len(e) + Len(u)
        /\ \A i \in 1 .. Len(e) + Len(u) :
               (e \o u)[i] = IF i <= Len(e) THEN e[i] ELSE u[i - Len(e)]
    BY <2>1, ConcatProperties
  <2> QED  BY <2>1, <2>2
<1>5. Len(t) \in Nat /\ Len(t) # 0  BY EmptySeq, LenProperties
<1>6. Len(e \o u) = Len(t)  BY <1>1, <1>4, <1>5, SMT
<1>7. ASSUME NEW i \in 1 .. Len(e \o u) PROVE (e \o u)[i] = t[i]
  <2>1. CASE i = 1
    <3>1. i \in 1 .. 1 + Len(u) /\ i <= 1  BY <1>1, <1>5, <2>1, SMT
    <3> QED  BY <1>1, <1>2, <1>4, <2>1, <3>1
  <2>2. CASE i # 1
    <3>1. /\ i \in 1 .. 1 + Len(u) /\ ~(i <= 1) /\ i - 1 \in 1 .. Len(u)
          /\ i - 1 + 1 = i
      BY <1>1, <1>5, <1>6, <2>2, SMT
    <3>2. (e \o u)[i] = u[i - 1]  BY <1>4, <3>1
    <3>3. u[i - 1] = t[i - 1 + 1]  BY <1>1, <3>1
    <3> QED  BY <3>1, <3>2, <3>3
  <2> QED  BY <2>1, <2>2
<1>8. e \o u = t  BY <1>4, <1>6, <1>7, SeqEqual
<1>9. (s \o e) \o u = s \o (e \o u)
  <2>1. e \in Seq(S) /\ u \in Seq(S)  BY <1>1, <1>2
  <2> QED  BY <2>1, ConcatAssociative
<1> QED  BY <1>3, <1>8, <1>9 DEF x, u

\* The word after the last continues a chain.
LEMMA ChainGrows ==
    ASSUME NEW s \in Seq(AnyWord), NEW y \in AnyWord, NEW z \in AnyWord,
           z = After(y), Chain(Append(s, y))
    PROVE  Chain(Append(Append(s, y), z))
<1> DEFINE t == Append(s, y)
           r == Append(t, z)
<1>1. t \in Seq(AnyWord) /\ Len(t) = Len(s) + 1 /\ t[Len(s) + 1] = y
  BY AppendProperties
<1>2. Len(s) \in Nat  BY LenProperties
<1> HIDE DEF t
<1>3. /\ r \in Seq(AnyWord) /\ Len(r) = Len(t) + 1
      /\ \A i \in 1 .. Len(t) : r[i] = t[i]
      /\ r[Len(t) + 1] = z
  BY <1>1, AppendProperties
<1>4. /\ t[1][2] = 1 /\ \A k \in 1 .. Len(t) - 1 : t[k + 1] = After(t[k])
      /\ Cardinality(Firsts(t)) <= t[Len(t)][1]
  BY DEF t, Chain
<1>5. Cardinality(Firsts(r)) <= z[1]
  <2> DEFINE c == Cardinality(Firsts(t))
             d == Cardinality(Firsts(r))
             a == y[1]
  <2>1. /\ d = c + (IF z[2] = 1 THEN 1 ELSE 0)
        /\ c \in Nat
    BY <1>1, FirstsAppend, FirstsIs
  <2>2. c <= a /\ a \in Nat /\ y[2] \in 1 .. 4
    BY <1>1, <1>4, SMT DEF AnyWord
  <2>3. \/ z[1] = a /\ z[2] = y[2] + 1
        \/ z[1] = a + 1 /\ z[2] = 1
    BY DEF After
  <2> HIDE DEF c, d, a
  <2>4. CASE z[1] = a /\ z[2] = y[2] + 1
    <3>1. z[2] # 1  BY <2>2, <2>4, SMT
    <3>2. d = c + 0  BY <2>1, <3>1
    <3>3. d <= z[1]  BY <2>1, <2>2, <2>4, <3>2, SMT
    <3> QED  BY <3>3 DEF d
  <2>5. CASE z[1] = a + 1 /\ z[2] = 1
    <3>1. d = c + 1  BY <2>1, <2>5
    <3>2. d <= z[1]  BY <2>1, <2>2, <2>5, <3>1, SMT
    <3> QED  BY <3>2 DEF d
  <2> QED  BY <2>3, <2>4, <2>5
<1> HIDE DEF r
<1>6. r[1] = t[1]  BY <1>1, <1>2, <1>3, SMT
<1>7. ASSUME NEW k \in 1 .. Len(r) - 1 PROVE r[k + 1] = After(r[k])
  <2>1. CASE k = Len(t)
    <3>1. r[k + 1] = z /\ k \in 1 .. Len(t)
      BY <1>1, <1>2, <1>3, <2>1, SMT
    <3>2. r[k] = t[k]  BY <1>3, <3>1
    <3> QED  BY <1>1, <2>1, <3>1, <3>2
  <2>2. CASE k # Len(t)
    <3>1. k \in 1 .. Len(t) - 1 /\ k \in 1 .. Len(t) /\ k + 1 \in 1 .. Len(t)
      BY <1>1, <1>2, <1>3, <2>2, SMT
    <3> QED  BY <1>3, <1>4, <3>1
  <2> QED  BY <2>1, <2>2
<1>8. r[Len(r)] = z  BY <1>3
<1> QED  BY <1>4, <1>6, <1>7, <1>5, <1>8 DEF r, t, Chain

\* Without the whole of its first call a chain is a chain.
LEMMA ChainShrinks ==
    ASSUME NEW p \in Seq(Word), NEW h \in Seq(Word), NEW y \in AnyWord,
           p # << >>, Len(p) = Length[p[1][1]],
           \A k \in DOMAIN p : p[k] = <<p[1][1], k>>,
           Chain(Append(p \o h, y))
    PROVE  Chain(Append(h, y))
<1> DEFINE n == Len(p)
           t == Append(p \o h, y)
           r == Append(h, y)
<1>1. p \in Seq(AnyWord) /\ h \in Seq(AnyWord)
  <2>1. Word \subseteq AnyWord  BY WordIs
  <2> QED  BY <2>1, SeqMonotonic
<1>2. /\ n \in Nat /\ Len(h) \in Nat /\ n # 0
      /\ DOMAIN p = 1 .. n
  BY LenProperties, EmptySeq
<1>3. /\ p \o h \in Seq(AnyWord) /\ Len(p \o h) = n + Len(h)
      /\ \A i \in 1 .. n + Len(h) :
             (p \o h)[i] = IF i <= n THEN p[i] ELSE h[i - n]
  BY <1>1, ConcatProperties
<1>4. /\ t \in Seq(AnyWord) /\ Len(t) = Len(p \o h) + 1
      /\ \A i \in 1 .. Len(p \o h) : t[i] = (p \o h)[i]
      /\ t[Len(p \o h) + 1] = y
  BY <1>3, AppendProperties
<1>5. /\ r \in Seq(AnyWord) /\ Len(r) = Len(h) + 1
      /\ \A i \in 1 .. Len(h) : r[i] = h[i]
      /\ r[Len(h) + 1] = y
  BY <1>1, AppendProperties
<1>6. /\ \A k \in 1 .. Len(t) - 1 : t[k + 1] = After(t[k])
      /\ Cardinality(Firsts(t)) <= t[Len(t)][1]
  BY DEF t, Chain
<1>7. Cardinality(Firsts(r)) <= r[Len(r)][1]
  <2> DEFINE c == Cardinality(Firsts(t))
             d == Cardinality(Firsts(r))
             a == y[1]
  <2>1. t = p \o r
    <3> DEFINE S == AnyWord
    <3>1. p \in Seq(S) /\ h \in Seq(S) /\ y \in S  BY <1>1
    <3> HIDE DEF S
    <3>2. p \o Append(h, y) = Append(p \o h, y)  BY <3>1, ConcatAppend
    <3> QED  BY <3>2
  <2>2. \A k \in DOMAIN p : p[k][2] = k
    <3>1. ASSUME NEW k \in DOMAIN p PROVE p[k][2] = k
      <4>1. p[k] = <<p[1][1], k>>  OBVIOUS
      <4> QED  BY <4>1
    <3> QED  BY <3>1
  <2>3. c = d + 1
    <3> HIDE DEF r, t
    <3>1. Cardinality(Firsts(p \o r)) = Cardinality(Firsts(r)) + 1
      BY <1>1, <1>5, <2>2, FirstsConcat
    <3> QED  BY <2>1, <3>1
  <2>4. t[Len(t)] = y /\ r[Len(r)] = y  BY <1>4, <1>5
  <2>5. c \in Nat /\ d \in Nat  BY <1>4, <1>5, FirstsIs
  <2>6. a \in Nat  BY SMT DEF AnyWord
  <2>7. c <= a  BY <1>6, <2>4
  <2> HIDE DEF c, d, a
  <2>8. d <= a  BY <2>3, <2>5, <2>6, <2>7, SMT
  <2> QED  BY <2>4, <2>8 DEF a, d
<1> HIDE DEF t, r, n
<1>8. t[n] = <<p[1][1], n>> /\ n \in 1 .. Len(t) - 1
  <2>1. n \in 1 .. n /\ n \in 1 .. n + Len(h) /\ n <= n  BY <1>2, SMT
  <2>2. t[n] = p[n]  BY <1>3, <1>4, <2>1
  <2> QED  BY <1>2, <1>3, <1>4, <2>1, <2>2, SMT
<1>9. After(t[n]) = <<p[1][1] + 1, 1>>
  <2>1. t[n][1] = p[1][1] /\ t[n][2] = n  BY <1>8
  <2>2. n = Length[p[1][1]]  BY DEF n
  <2>3. ~(n < n)  BY <1>2
  <2> QED  BY <2>1, <2>2, <2>3 DEF After
<1>10. ASSUME NEW k \in 1 .. Len(r) PROVE r[k] = t[k + n]
  <2>1. CASE k = Len(h) + 1
    <3>1. k + n = Len(p \o h) + 1  BY <1>2, <1>3, <2>1, SMT
    <3> QED  BY <1>4, <1>5, <2>1, <3>1
  <2>2. CASE k # Len(h) + 1
    <3>1. /\ k \in 1 .. Len(h) /\ k + n \in 1 .. n + Len(h) /\ ~(k + n <= n)
          /\ k + n - n = k
      BY <1>2, <1>5, <2>2, SMT
    <3> DEFINE j == k + n
    <3>5. j \in 1 .. n + Len(h) /\ ~(j <= n) /\ j - n = k  BY <1>2, <3>1, SMT
    <3> HIDE DEF j
    <3>6. (p \o h)[j] = h[k]  BY <1>3, <3>5
    <3>2. (p \o h)[k + n] = h[k]  BY <3>6 DEF j
    <3>3. t[k + n] = (p \o h)[k + n]  BY <1>3, <1>4, <3>1
    <3>4. r[k] = h[k]  BY <1>5, <3>1
    <3> QED  BY <3>2, <3>3, <3>4
  <2> QED  BY <2>1, <2>2
<1>11. r[1][2] = 1
  <2>1. 1 \in 1 .. Len(r) /\ 1 + n = n + 1  BY <1>2, <1>5, SMT
  <2>2. r[1] = t[n + 1]  BY <1>10, <2>1
  <2>3. t[n + 1] = After(t[n])  BY <1>6, <1>8
  <2> QED  BY <1>9, <2>2, <2>3
<1>12. ASSUME NEW k \in 1 .. Len(r) - 1 PROVE r[k + 1] = After(r[k])
  <2>1. /\ k \in 1 .. Len(r) /\ k + 1 \in 1 .. Len(r) /\ k + n \in 1 .. Len(t) - 1
        /\ k + 1 + n = k + n + 1
    BY <1>2, <1>3, <1>4, <1>5, SMT
  <2>2. r[k] = t[k + n] /\ r[k + 1] = t[k + n + 1]  BY <1>10, <2>1
  <2>3. t[k + n + 1] = After(t[k + n])  BY <1>6, <2>1
  <2> QED  BY <2>2, <2>3
<1> QED  BY <1>11, <1>12, <1>7 DEF r, Chain

\* So does the word after a word.
LEMMA AfterIs == ASSUME NEW x \in Word PROVE After(x) \in AnyWord
<1>1. x[1] \in Message /\ x[2] \in 1 .. 4 /\ Length[x[1]] \in 2 .. 4
  BY WordIs
<1>2. x[1] \in 1 .. MaxCalls + 1 /\ x[1] + 1 \in 1 .. MaxCalls + 1
  BY <1>1, MessageAssumption, SMT DEF Message
<1>3. x[2] < Length[x[1]] => x[2] + 1 \in 1 .. 4  BY <1>1, SMT
<1> QED  BY <1>2, <1>3 DEF After, AnyWord

\* The first word of the first call is to come.
LEMMA InitStreamInv == Init => StreamInv
<1> SUFFICES ASSUME Init PROVE StreamInv  OBVIOUS
<1>1. /\ \A w \in Writers : ~Calling(w) /\ ~InFlight(w)
      /\ calls = 0 /\ parts = << >> /\ exter = "wait"
  BY DEF Init, N2AInit, PipeInit, Calling, InFlight
<1>2. Held = << >>  BY InitHeld DEF Init, N2AInit
<1>3. LatestCall  BY <1>1, MessageAssumption DEF LatestCall
<1>4. ReadSoFar  BY <1>1, <1>2, EmptySeq DEF ReadSoFar
<1>5. WholeCalls  BY <1>1 DEF WholeCalls
<1>6. Ordered
  <2> DEFINE y == <<1, 1>>
             t == Append(<< >>, y)
  <2>1. y \in AnyWord  BY MessageAssumption, SMT DEF AnyWord
  <2>2. Coming(y)  BY <1>1 DEF Coming
  <2>3. parts \o Held = << >>  BY <1>1, <1>2, ConcatEmptySeq, EmptySeq
  <2>4. Len(t) = 1 /\ t[1] = y  OBVIOUS
  <2> HIDE DEF t
  <2>5. 1 .. Len(t) - 1 = {}  BY <2>4, SMT
  <2>6. Cardinality(Firsts(t)) <= 1
    <3>1. Firsts(t) = {1}  BY <2>4, SMT DEF Firsts
    <3> QED  BY <3>1, FS_Singleton
  <2>7. Chain(t)  BY <2>4, <2>5, <2>6 DEF Chain
  <2> QED  BY <2>1, <2>2, <2>3, <2>7 DEF Ordered, t
<1> QED  BY <1>3, <1>4, <1>5, <1>6 DEF StreamInv

\* What goes in next is told by the calls and the words in flight.
LEMMA ComingStays ==
    ASSUME NEW y, Coming(y), UNCHANGED <<calls, call>>,
           \A w \in Writers : Calling(w) =>
               /\ InFlight(w)' <=> InFlight(w)
               /\ word'[w] = word[w]
    PROVE  Coming(y)'
  BY DEF Coming, Calling

\* A call begins with its first word.
LEMMA BeginCallComes ==
    ASSUME OneCaller, CallsKnown, LatestCall, NEW w \in Writers, BeginCall(w),
           NEW y, Coming(y)
    PROVE  LatestCall' /\ Coming(y)'
<1>1. /\ n2asem = 1 /\ calls < MaxCalls /\ calls' = calls + 1
      /\ call' = [call EXCEPT ![w] = [NoCall EXCEPT !.msg = calls']]
      /\ UNCHANGED <<wpc, word>>
  BY DEF BeginCall, pipeVars, args
<1>2. \A v \in Writers : ~Calling(v) /\ wpc[v] = "idle"
  BY <1>1 DEF OneCaller
<1>3. call'[w].msg = calls' /\ call'[w].part = 0
  BY <1>1, NoCallIs DEF CallsKnown, NoCall
<1>4. \A v \in Writers \ {w} : call'[v] = call[v]
  BY <1>1 DEF CallsKnown
<1>5. \A v \in Writers : ~InFlight(v)'
  BY <1>1, <1>2 DEF InFlight
<1>6. calls' \in Message
  BY <1>1, MessageAssumption, SMT DEF LatestCall, Message
<1>7. Calling(w)'
  <2>1. NoCall.msg \notin Message  BY NoCallIs
  <2> QED  BY <1>3, <1>6, <2>1 DEF Calling
<1>8. \A v \in Writers : Calling(v)' => v = w
  BY <1>2, <1>4 DEF Calling
<1>9. LatestCall'
  <2>1. calls' \in 0 .. MaxCalls  BY <1>6, SMT DEF Message
  <2> QED  BY <1>3, <1>5, <1>8, <2>1 DEF LatestCall
<1>10. Coming(y)'
  <2>1. y = <<calls', 1>>  BY <1>1, <1>2 DEF Coming
  <2>2. Length[calls'] \in 2 .. 4  BY <1>6, MessageAssumption
  <2>3. 0 < Length[calls']  BY <2>2, SMT
  <2>4. 0 + 1 = 1  OBVIOUS
  <2> QED  BY <1>3, <1>5, <1>7, <1>8, <2>1, <2>3, <2>4 DEF Coming
<1> QED  BY <1>9, <1>10

\* The word that a call writes is the one that was to come.
LEMMA WriteWordComes ==
    ASSUME OneCaller, CallsKnown, LatestCall, NEW w \in Writers, WriteWord(w),
           PipeTypeOK, NEW y, Coming(y)
    PROVE  LatestCall' /\ Coming(y)'
<1> DEFINE k == call[w].part
<1>1. /\ Calling(w) /\ wpc[w] = "idle" /\ k # Length[call[w].msg]
      /\ call' = [call EXCEPT ![w].part = k + 1]
      /\ word' = [word EXCEPT ![w] = <<call[w].msg, k + 1>>]
      /\ \E pc \in {"fastIndex", "lock"} : wpc' = [wpc EXCEPT ![w] = pc]
      /\ calls' = calls
  BY DEF WriteWord, Written, BeginWrite, Goto
<1>2. call[w].msg = calls  BY <1>1 DEF LatestCall
<1>3. k \in 0 .. Length[calls] /\ Length[calls] \in 2 .. 4
  BY <1>1, <1>2, MessageAssumption DEF CallsKnown
<1>4. /\ call'[w].msg = calls' /\ call'[w].part = k + 1
      /\ \A v \in Writers \ {w} : call'[v] = call[v]
  BY <1>1, <1>2 DEF CallsKnown, CallType
<1>5. /\ word'[w] = <<calls', k + 1>>
      /\ wpc'[w] \in {"fastIndex", "lock"}
      /\ \A v \in Writers \ {w} : wpc'[v] = wpc[v]
  BY <1>1, <1>2 DEF PipeTypeOK
<1> HIDE DEF k
<1>6. k + 1 # 0 /\ k < Length[calls]  BY <1>1, <1>2, <1>3, SMT
<1>7. \A v \in Writers : Calling(v) => v = w  BY <1>1 DEF OneCaller
<1>8. \A v \in Writers \ {w} : ~Calling(v)' /\ ~InFlight(v)'
  <2>1. \A v \in Writers \ {w} : ~Calling(v) /\ wpc[v] = "idle"
    BY <1>7 DEF OneCaller
  <2> QED  BY <1>4, <1>5, <2>1 DEF Calling, InFlight
<1>9. LatestCall'
  BY <1>1, <1>4, <1>5, <1>6, <1>8 DEF LatestCall
<1>10. y = <<calls, k + 1>>
  <2>1. ~InFlight(w)  BY <1>1 DEF InFlight
  <2> QED  BY <1>1, <1>6, <2>1 DEF Coming, k
<1>11. InFlight(w)'  BY <1>5 DEF InFlight
<1>12. Calling(w)'
  <2>1. call'[w].part # 0  BY <1>4, <1>6
  <2> QED  BY <2>1, NoCallIs DEF Calling
<1>13. Coming(y)'
  BY <1>1, <1>5, <1>8, <1>10, <1>11, <1>12 DEF Coming
<1> QED  BY <1>9, <1>13

\* When a call is over the first word of the next is to come.
LEMMA EndCallComes ==
    ASSUME OneCaller, CallsKnown, LatestCall, NEW w \in Writers, EndCall(w),
           NEW y, Coming(y)
    PROVE  LatestCall' /\ Coming(y)'
<1>1. /\ Calling(w) /\ wpc[w] = "idle"
      /\ call[w].part = Length[call[w].msg]
      /\ call' = [call EXCEPT ![w] = NoCall]
      /\ UNCHANGED <<calls, wpc, word>>
  BY DEF EndCall, Written, pipeVars, args
<1>2. call[w].msg = calls /\ call[w].msg \in Message
  BY <1>1 DEF LatestCall, CallsKnown
<1>3. \A v \in Writers : ~Calling(v)'
  BY <1>1 DEF OneCaller, CallsKnown, Calling
<1>4. \A v \in Writers : wpc[v] = "idle"  BY <1>1 DEF OneCaller
<1>5. \A v \in Writers : ~InFlight(v) /\ ~InFlight(v)'
  BY <1>1, <1>4 DEF InFlight
<1>6. LatestCall'  BY <1>1, <1>3, <1>5 DEF LatestCall
<1>7. ~(call[w].part < Length[calls])
  <2>1. Length[calls] \in 2 .. 4  BY <1>2, MessageAssumption
  <2> QED  BY <1>1, <1>2, <2>1, SMT
<1>8. y = <<calls + 1, 1>>  BY <1>1, <1>5, <1>7 DEF Coming
<1> QED  BY <1>1, <1>3, <1>6, <1>8 DEF Coming

\* Once a word is in the pipe the one after it is to come.
LEMMA SetIndexComes ==
    ASSUME OneCaller, CallsKnown, LatestCall, NEW w \in Writers, SetIndex(w),
           UNCHANGED <<call, calls>>, NEW y, Coming(y)
    PROVE  LatestCall' /\ y = word[w] /\ Coming(After(y))'
<1>1. /\ wpc[w] \in {"index", "fastIndex"}
      /\ \E pc \in {"wake", "fastWake"} : wpc' = [wpc EXCEPT ![w] = pc]
      /\ word' = word
  BY DEF SetIndex, Goto, args
<1>2. InFlight(w) /\ Calling(w)  BY <1>1 DEF InFlight, OneCaller
<1>3. word[w] = <<calls, call[w].part>>  BY <1>2 DEF LatestCall
<1>4. y = word[w]  BY <1>2 DEF Coming
<1>5. \A v \in Writers : Calling(v) => v = w  BY <1>2 DEF OneCaller
<1>6. \A v \in Writers : ~InFlight(v)'
  <2>1. /\ wpc'[w] \in {"wake", "fastWake"}
        /\ \A v \in Writers \ {w} : wpc'[v] = wpc[v]
    BY <1>1 DEF CallsKnown
  <2>2. \A v \in Writers \ {w} : wpc[v] = "idle"  BY <1>5 DEF OneCaller
  <2> QED  BY <2>1, <2>2 DEF InFlight
<1>7. LatestCall'  BY <1>6 DEF LatestCall, Calling
<1>8. y[1] = calls /\ y[2] = call[w].part  BY <1>3, <1>4
<1>9. \A v \in Writers : Calling(v)' <=> Calling(v)  BY DEF Calling
<1>10. Coming(After(y))'
  BY <1>2, <1>5, <1>6, <1>8, <1>9 DEF Coming, After
<1> QED  BY <1>4, <1>7, <1>10

\* No other step of a host thread puts a word into the pipe or changes which
\* is to come.
LEMMA OthersCome ==
    ASSUME OneCaller, CallsKnown, LatestCall, NEW w \in Writers,
           HostSteps(w), ~SetIndex(w), PipeTypeOK, NEW y, Coming(y)
    PROVE  LatestCall' /\ Coming(y)' /\ rdp' = rdp /\ wrp' = wrp
<1>1. rdp' = rdp /\ wrp' = wrp
  BY DEF HostSteps, CallSteps, BeginCall, WriteWord, BeginWrite,
         do_uae_int_requested, EndCall, WriteSteps, FindFull, FindRoom,
         WriterWakes, WriterRelocks, EndWrite, ring, pipeVars
<1>2. CASE do_uae_int_requested(w)
  <2>1. /\ call' = [call EXCEPT ![w].asked = TRUE] /\ Calling(w)
        /\ UNCHANGED <<calls, wpc, word>>
    BY <1>2 DEF do_uae_int_requested, Written, pipeVars, args
  <2>2. /\ \A v \in Writers :
               call'[v].msg = call[v].msg /\ call'[v].part = call[v].part
        /\ \A v \in Writers \ {w} : call'[v] = call[v]
    BY <2>1 DEF CallsKnown, CallType
  <2>3. \A v \in Writers : Calling(v)' <=> Calling(v)
    <3>1. call[w].msg \in Message  BY <2>1 DEF CallsKnown
    <3> QED  BY <2>1, <2>2, <3>1, NoCallIs DEF Calling
  <2>4. \A v \in Writers : InFlight(v)' <=> InFlight(v)
    BY <2>1 DEF InFlight
  <2>5. LatestCall'  BY <2>1, <2>2, <2>3, <2>4 DEF LatestCall
  <2>6. Coming(y)'  BY <2>1, <2>2, <2>3, <2>4 DEF Coming
  <2> QED  BY <1>1, <2>5, <2>6
<1>3. CASE WriteSteps(w) /\ UNCHANGED n2aVars
  <2>1. /\ UNCHANGED <<calls, call, word>>
        /\ \E pc \in WriterPc : wpc' = [wpc EXCEPT ![w] = pc]
        /\ \/ InFlight(w) /\ wpc'[w] \in {"sleep", "index", "relock"}
           \/ wpc[w] \in {"wake", "fastWake"} /\ wpc'[w] = "idle"
    <3>1. UNCHANGED <<calls, call, word>>
      BY <1>3 DEF WriteSteps, FindFull, FindRoom, WriterWakes, WriterRelocks,
                  EndWrite, n2aVars, args
    <3>2. \/ InFlight(w) /\ \E pc \in {"sleep", "index", "relock"} :
                                wpc' = [wpc EXCEPT ![w] = pc]
          \/ wpc[w] \in {"wake", "fastWake"} /\ wpc' = [wpc EXCEPT ![w] = "idle"]
      BY <1>3 DEF WriteSteps, FindFull, FindRoom, WriterWakes, WriterRelocks,
                  EndWrite, Goto, InFlight
    <3>3. wpc \in [Writers -> WriterPc]  BY DEF CallsKnown
    <3>4. \A pc \in {"sleep", "index", "relock", "idle"} : pc \in WriterPc
      BY DEF WriterPc
    <3>5. CASE wpc[w] \in {"wake", "fastWake"}
               /\ wpc' = [wpc EXCEPT ![w] = "idle"]
      BY <3>1, <3>3, <3>4, <3>5
    <3>6. CASE InFlight(w) /\ \E pc \in {"sleep", "index", "relock"} :
                                  wpc' = [wpc EXCEPT ![w] = pc]
      <4>1. PICK pc \in {"sleep", "index", "relock"} :
                wpc' = [wpc EXCEPT ![w] = pc]
        BY <3>6
      <4>2. wpc'[w] = pc /\ pc \in WriterPc  BY <3>3, <3>4, <4>1
      <4>3. \E c \in WriterPc : wpc' = [wpc EXCEPT ![w] = c]  BY <4>1, <4>2
      <4> QED  BY <3>1, <3>6, <4>2, <4>3
    <3> QED  BY <3>2, <3>5, <3>6
  <2>2. \A v \in Writers : InFlight(v)' <=> InFlight(v)
    BY <2>1 DEF InFlight, CallsKnown
  <2>3. LatestCall'  BY <2>1, <2>2 DEF LatestCall, Calling
  <2> QED  BY <1>1, <2>1, <2>2, <2>3, ComingStays
<1> QED
  BY <1>1, <1>2, <1>3, BeginCallComes, WriteWordComes, EndCallComes
  DEF HostSteps, CallSteps

\* A word that is in the pipe is one that has been written.
LEMMA PutWord ==
    ASSUME PipeInv, PipeInv', OneCaller, CallsKnown, StreamInv,
           NEW w \in Writers, SetIndex(w),
           UNCHANGED <<call, calls, exter, parts>>
    PROVE  StreamInv'
<1>1. LatestCall /\ ReadSoFar  BY DEF StreamInv
<1>2. PICK y \in AnyWord : Coming(y) /\ Chain(Append(parts \o Held, y))
  BY DEF StreamInv, Ordered
<1>3. word[w] \in Word  BY DEF PipeInv, IndexAhead, SetIndex
<1>4. LatestCall' /\ y = word[w] /\ Coming(After(y))'
  BY <1>1, <1>2, SetIndexComes
<1>5. Held' = Append(Held, y)  BY <1>4, SetIndexIsPut
<1>6. Held' \in Seq(Word)
  <2>1. Held \in Seq(Word) /\ y \in Word  BY <1>1, <1>3, <1>4 DEF ReadSoFar
  <2> QED  BY <1>5, <2>1, AppendProperties
<1>7. ReadSoFar'  BY <1>1, <1>6 DEF ReadSoFar
<1>8. WholeCalls'  BY DEF StreamInv, WholeCalls
<1>9. After(y) \in AnyWord  BY <1>3, <1>4, AfterIs
<1>10. parts \in Seq(AnyWord) /\ Held \in Seq(AnyWord)
  <2>1. Word \subseteq AnyWord  BY WordIs
  <2> QED  BY <1>1, <2>1, SeqMonotonic DEF ReadSoFar
<1>11. parts \o Held \in Seq(AnyWord)  BY <1>10, ConcatProperties
<1>12. parts' \o Held' = Append(parts \o Held, y)
  BY <1>5, <1>10, ConcatAppend
<1>13. Chain(Append(parts' \o Held', After(y)))
  BY <1>2, <1>9, <1>11, <1>12, ChainGrows
<1>14. \E z \in AnyWord : Coming(z)' /\ Chain(Append(parts' \o Held', z))
  BY <1>4, <1>9, <1>13
<1>15. Ordered'  BY <1>14 DEF Ordered, Chain, After, Firsts
<1> QED  BY <1>4, <1>7, <1>8, <1>15 DEF StreamInv

\* A word that is read is the next of the call, or the first of one.
LEMMA TakeWord ==
    ASSUME PipeInv, PipeInv', StreamInv, ReadWords, EndRead
    PROVE  StreamInv'
<1> DEFINE x == Head(Held)
           n == Len(parts)
<1>1. LatestCall /\ ReadSoFar /\ WholeCalls  BY DEF StreamInv
<1>2. PICK y \in AnyWord : Coming(y) /\ Chain(Append(parts \o Held, y))
  BY DEF StreamInv, Ordered
<1>3. Held # << >> /\ Held' = Tail(Held) /\ data[rdp] = x
  BY EndReadIsTake DEF Fifo!Take, EndRead
<1>4. parts' = Append(parts, x) /\ exter' = "read"
  <2>1. ~(FindEmpty \/ ReaderWakes)  BY DEF EndRead, FindEmpty, ReaderWakes
  <2> QED  BY <1>3, <2>1 DEF ReadWords
<1>5. UNCHANGED <<calls, call, wpc, word>>
  BY DEF ReadWords, EndRead, n2aVars, args
<1>6. LatestCall' /\ Coming(y)'
  BY <1>1, <1>2, <1>5 DEF LatestCall, Coming, Calling, InFlight
<1>7. parts \in Seq(Word) /\ Held \in Seq(Word)  BY <1>1 DEF ReadSoFar
<1>8. /\ x \in Word /\ Held' \in Seq(Word)
      /\ Len(Held) \in Nat /\ Len(Held) # 0 /\ x = Held[1]
  BY <1>3, <1>7, HeadTailProperties, LenProperties, EmptySeq
<1>9. parts' \o Held' = parts \o Held  BY <1>3, <1>4, <1>7, ConcatMove
<1>10. Ordered'
  <2>1. \E z \in AnyWord : Coming(z)' /\ Chain(Append(parts' \o Held', z))
    BY <1>2, <1>6, <1>9
  <2> QED  BY <2>1 DEF Ordered, Chain, After, Firsts
<1>11. /\ n \in Nat /\ parts' \in Seq(Word) /\ parts' # << >>
       /\ Len(parts') = n + 1
       /\ DOMAIN parts = 1 .. n /\ DOMAIN parts' = 1 .. n + 1
       /\ \A k \in 1 .. n : parts'[k] = parts[k]
       /\ parts'[n + 1] = x
  BY <1>4, <1>7, <1>8, AppendProperties, LenProperties
<1> DEFINE s == parts \o Held
           t == Append(s, y)
<1>12. /\ s \in Seq(AnyWord) /\ Len(s) = n + Len(Held)
       /\ \A i \in 1 .. n + Len(Held) :
              s[i] = IF i <= n THEN parts[i] ELSE Held[i - n]
  <2>1. Word \subseteq AnyWord  BY WordIs
  <2>2. parts \in Seq(AnyWord) /\ Held \in Seq(AnyWord)
    BY <1>7, <2>1, SeqMonotonic
  <2> QED  BY <2>2, ConcatProperties
<1> HIDE DEF s
<1>13. Len(t) = Len(s) + 1 /\ \A i \in 1 .. Len(s) : t[i] = s[i]
  BY <1>2, <1>12, AppendProperties
<1>14. t[1][2] = 1 /\ \A k \in 1 .. Len(t) - 1 : t[k + 1] = After(t[k])
  BY <1>2 DEF Chain, s
<1> HIDE DEF t, n, x
<1>15. t[n + 1] = x
  <2> DEFINE i == n + 1
  <2>1. i \in 1 .. n + Len(Held) /\ ~(i <= n) /\ i - n = 1
    BY <1>8, <1>11, SMT
  <2> HIDE DEF i
  <2>2. s[i] = Held[1]  BY <1>12, <2>1
  <2>3. t[i] = s[i]  BY <1>12, <1>13, <2>1
  <2> QED  BY <1>8, <2>2, <2>3 DEF i
<1>16. CASE n = 0
  <2>1. parts'[1] = x /\ DOMAIN parts' = {1} /\ Len(parts') = 1
    BY <1>11, <1>16, SMT
  <2>2. x[2] = 1  BY <1>14, <1>15, <1>16
  <2>3. x = <<x[1], 1>> /\ Length[x[1]] \in 2 .. 4  BY <1>8, <2>2, WordIs
  <2>4. WholeCalls'  BY <2>1, <2>3 DEF WholeCalls
  <2>5. ReadSoFar'
    <3>1. 1 <= Length[x[1]]  BY <2>3, SMT
    <3> QED  BY <1>4, <1>8, <1>11, <2>1, <3>1 DEF ReadSoFar
  <2> QED  BY <1>6, <1>10, <2>4, <2>5 DEF StreamInv
<1>17. CASE n # 0
  <2> DEFINE m == parts[1][1]
  <2>1. 1 \in 1 .. n /\ n \in 1 .. n  BY <1>11, <1>17, SMT
  <2>2. parts # << >>  BY <1>11, <1>17, EmptySeq DEF n
  <2>3. n < Length[m] /\ Length[m] \in 2 .. 4
    <3>1. exter = "read" /\ Len(parts) < Length[m]
      BY <1>1, <2>2 DEF ReadWords, ReadSoFar
    <3>2. parts[1] \in Word  BY <1>7, <2>1, ElementOfSeq DEF n
    <3> QED  BY <3>1, <3>2, WordIs DEF n
  <2>4. parts[n] = <<m, n>>  BY <1>1, <1>11, <2>1 DEF WholeCalls
  <2>5. t[n] = <<m, n>>
    <3>1. n \in 1 .. n + Len(Held) /\ n <= n  BY <1>8, <1>11, <2>1, SMT
    <3>2. s[n] = parts[n]  BY <1>12, <3>1
    <3> QED  BY <1>12, <1>13, <2>4, <3>1, <3>2
  <2>6. n \in 1 .. Len(t) - 1  BY <1>8, <1>11, <1>12, <1>13, <2>1, SMT
  <2>7. x = After(<<m, n>>)  BY <1>14, <1>15, <2>5, <2>6
  <2>8. x = <<m, n + 1>>  BY <2>3, <2>7 DEF After
  <2>9. parts'[1] = parts[1]  BY <1>11, <2>1
  <2>10. WholeCalls'
    <3>1. ASSUME NEW k \in 1 .. n + 1 PROVE parts'[k] = <<m, k>>
      <4>1. CASE k = n + 1  BY <1>11, <2>8, <4>1
      <4>2. CASE k # n + 1
        <5>1. k \in 1 .. n  BY <1>11, <4>2, SMT
        <5> QED  BY <1>1, <1>11, <5>1 DEF WholeCalls
      <4> QED  BY <4>1, <4>2
    <3> QED  BY <1>11, <2>9, <3>1 DEF WholeCalls
  <2>11. ReadSoFar'
    <3>1. n + 1 <= Length[m]  BY <1>11, <2>3, SMT
    <3> QED  BY <1>4, <1>8, <1>11, <2>9, <3>1 DEF ReadSoFar
  <2> QED  BY <1>6, <1>10, <2>10, <2>11 DEF StreamInv
<1> QED  BY <1>16, <1>17

\* A call that has been carried out leaves the words of the others.
LEMMA DropCall ==
    ASSUME StreamInv, ExecReturns, PipeInv, [PipeNext]_pipeVars
    PROVE  StreamInv'
<1>1. LatestCall /\ ReadSoFar /\ WholeCalls  BY DEF StreamInv
<1>2. PICK y \in AnyWord : Coming(y) /\ Chain(Append(parts \o Held, y))
  BY DEF StreamInv, Ordered
<1>3. /\ exter = "exec" /\ exter' = "look" /\ parts' = << >>
      /\ UNCHANGED <<calls, call, wpc, word, rdp, wrp>>
  BY DEF ExecReturns, pipeVars, ring, args, n2aVars
<1>4. Held' = Held  BY <1>3, HeldStays
<1>5. LatestCall' /\ Coming(y)'
  BY <1>1, <1>2, <1>3 DEF LatestCall, Coming, Calling, InFlight
<1>6. ReadSoFar'  BY <1>1, <1>3, <1>4, EmptySeq DEF ReadSoFar
<1>7. WholeCalls'
  <2>1. DOMAIN parts' = {}  BY <1>3
  <2> QED  BY <2>1 DEF WholeCalls
<1>8. /\ parts \in Seq(Word) /\ Held \in Seq(Word) /\ parts # << >>
      /\ Len(parts) = Length[parts[1][1]]
  BY <1>1, <1>3 DEF ReadSoFar
<1>9. Chain(Append(Held, y))
  BY <1>1, <1>2, <1>8, ChainShrinks DEF WholeCalls
<1>10. parts' \o Held' = Held  BY <1>3, <1>4, <1>8, ConcatEmptySeq
<1>11. \E z \in AnyWord : Coming(z)' /\ Chain(Append(parts' \o Held', z))
  BY <1>5, <1>9, <1>10
<1>12. Ordered'  BY <1>11 DEF Ordered, Chain, After, Firsts
<1> QED  BY <1>5, <1>6, <1>7, <1>12 DEF StreamInv

\* A step that moves no word keeps the words in order.
LEMMA WordsStay ==
    ASSUME StreamInv, UNCHANGED <<Held, parts>>, ReadSoFar',
           NEW y \in AnyWord, Chain(Append(parts \o Held, y)),
           LatestCall', Coming(y)'
    PROVE  StreamInv'
<1>1. WholeCalls'  BY DEF StreamInv, WholeCalls
<1>2. \E z \in AnyWord : Coming(z)' /\ Chain(Append(parts' \o Held', z))
  OBVIOUS
<1>3. Ordered'  BY <1>2 DEF Ordered, Chain, After, Firsts
<1> QED  BY <1>1, <1>3 DEF StreamInv

\* Words stay in order, and the trap reads whole calls.
LEMMA NextStreamInv ==
    ASSUME OneCaller, CallsKnown, PipeInv, PipeInv', StreamInv, [Next]_vars
    PROVE  StreamInv'
<1>1. LatestCall /\ ReadSoFar /\ PipeTypeOK  BY DEF StreamInv, PipeInv
<1>2. PICK y \in AnyWord : Coming(y) /\ Chain(Append(parts \o Held, y))
  BY DEF StreamInv, Ordered
<1>3. [PipeNext]_pipeVars  BY NextIsPipe
<1>4. ASSUME NEW w \in Writers, HostSteps(w), UNCHANGED OtherVars
      PROVE  StreamInv'
  <2>1. UNCHANGED <<exter, parts>>  BY <1>4 DEF OtherVars, exterVars
  <2>2. CASE SetIndex(w)
    <3>1. UNCHANGED <<call, calls>>
      <4>1. wpc[w] # "idle"  BY <2>2 DEF SetIndex
      <4>2. Calling(w)  BY <4>1 DEF OneCaller
      <4> QED
        BY <1>4, <4>1, <4>2 DEF HostSteps, CallSteps, BeginCall, WriteWord,
           do_uae_int_requested, EndCall, Written, n2aVars
    <3> QED  BY <2>1, <2>2, <3>1, PutWord
  <2>3. CASE ~SetIndex(w)
    <3>1. LatestCall' /\ Coming(y)' /\ rdp' = rdp /\ wrp' = wrp
      BY <1>1, <1>2, <1>4, <2>3, OthersCome
    <3>2. Held' = Held  BY <1>3, <3>1, HeldStays
    <3>3. ReadSoFar'  BY <1>1, <2>1, <3>2 DEF ReadSoFar
    <3> QED  BY <1>2, <2>1, <3>1, <3>2, <3>3, WordsStay
  <2> QED  BY <2>2, <2>3
<1>5. CASE ReadWords
  <2>1. CASE EndRead  BY <1>5, <2>1, TakeWord
  <2>2. CASE ~EndRead
    <3>1. /\ UNCHANGED <<parts, rdp, wrp, call, calls, wpc, word>>
          /\ exter \in {"look", "read"} /\ exter' = "read"
      BY <1>5, <2>2 DEF ReadWords, FindEmpty, ReaderWakes, ring, args, n2aVars
    <3>2. Held' = Held  BY <1>3, <3>1, HeldStays
    <3>3. ReadSoFar'  BY <1>1, <3>1, <3>2 DEF ReadSoFar
    <3>4. LatestCall' /\ Coming(y)'
      BY <1>1, <1>2, <3>1 DEF LatestCall, Coming, Calling, InFlight
    <3> QED  BY <1>2, <3>1, <3>2, <3>3, <3>4, WordsStay
  <2> QED  BY <2>1, <2>2
<1>6. CASE ExecReturns  BY <1>3, <1>6, DropCall
<1>7. ASSUME UNCHANGED <<pipeVars, parts, call, calls>>,
             \/ exter' = exter
             \/ exter \notin {"read", "exec"} /\ exter' \notin {"read", "exec"}
             \/ CallExec
      PROVE  StreamInv'
  <2>1. UNCHANGED <<rdp, wrp, wpc, word>>  BY <1>7 DEF pipeVars, ring, args
  <2>2. Held' = Held  BY <1>3, <2>1, HeldStays
  <2>3. ReadSoFar'  BY <1>1, <1>7, <2>2 DEF ReadSoFar, CallExec
  <2>4. LatestCall' /\ Coming(y)'
    BY <1>1, <1>2, <1>7, <2>1 DEF LatestCall, Coming, Calling, InFlight
  <2> QED  BY <1>2, <1>7, <2>2, <2>3, <2>4, WordsStay
<1>8. CASE \/ Interrupt \/ TaskWakes \/ CallExec \/ NoCalls \/ SkipUnit
           \/ AckUnit \/ PutDummy \/ LeaveHelper
  <2>1. UNCHANGED <<pipeVars, parts, call, calls>>
    BY <1>8 DEF Interrupt, TaskWakes, CallExec, NoCalls, SkipUnit, AckUnit,
                PutDummy, LeaveHelper, n2aVars
  <2>2. \/ exter' = exter
        \/ exter \notin {"read", "exec"} /\ exter' \notin {"read", "exec"}
        \/ CallExec
    BY <1>8 DEF Interrupt, TaskWakes, NoCalls, SkipUnit, AckUnit, PutDummy,
                LeaveHelper
  <2> QED  BY <1>1, <1>7, <2>1, <2>2
<1>9. ASSUME NEW p \in Packet, SendPacket(p) PROVE StreamInv'
  <2>1. UNCHANGED <<pipeVars, parts, call, calls, exter>>
    BY <1>9 DEF SendPacket, n2aVars, exterVars
  <2> QED  BY <1>1, <1>7, <2>1
<1>10. ASSUME NEW u \in UnitNos, ProcessSteps(u) PROVE StreamInv'
  <2>1. UNCHANGED <<pipeVars, parts, call, calls, exter>>
    BY <1>10 DEF ProcessSteps, StartPacket, PutOffPacket, GetDummy,
                 MessageLock, ScanReply, ScanPast, ScanEnd, ProcessOnly,
                 n2aVars, exterVars
  <2> QED  BY <1>1, <1>7, <2>1
<1>11. ASSUME NEW u \in UnitNos, ThreadSteps(u) PROVE StreamInv'
  <2>1. UNCHANGED <<pipeVars, parts, call, calls, exter>>
    BY <1>11 DEF ThreadSteps, HandlePacket, MarkPacket, RequestInterrupt,
                 ThreadOnly, exterVars
  <2> QED  BY <1>1, <1>7, <2>1
<1>12. CASE UNCHANGED vars
  <2>1. UNCHANGED <<pipeVars, parts, call, calls, exter>>
    BY <1>12 DEF vars, n2aVars, exterVars
  <2> QED  BY <1>1, <1>7, <2>1
<1> QED  BY <1>4, <1>5, <1>6, <1>8, <1>9, <1>10, <1>11, <1>12
         DEF Next, ExterSteps

\* The words of the calls reach the task in the order in which the calls were
\* made, those of a call together.
THEOREM StreamOrdered == Spec => []StreamInv
<1>1. Spec => []PipeInv  BY UsesPipe, PipeInductive, PTL
<1>2. OneCaller /\ CallsKnown /\ PipeInv /\ PipeInv' /\ StreamInv /\ [Next]_vars
          => StreamInv'
  BY NextStreamInv
<1> QED  BY <1>1, <1>2, InitStreamInv, CallsApart, PTL DEF Spec

\* What the task carries out is what one host thread asked for.
THEOREM CallsWhole == Spec => []WholeCalls
<1>1. StreamInv => WholeCalls  BY DEF StreamInv
<1> QED  BY <1>1, StreamOrdered, PTL

-----------------------------------------------------------------------------
(* The calls as a queue.                                                   *)

\* The words read and those in the pipe, as words of the calls.
LEMMA StreamWords ==
    ASSUME ReadSoFar
    PROVE  /\ parts \in Seq(AnyWord) /\ Held \in Seq(AnyWord)
           /\ parts \o Held \in Seq(AnyWord)
<1>1. Word \subseteq AnyWord  BY WordIs
<1>2. parts \in Seq(AnyWord) /\ Held \in Seq(AnyWord)
  BY <1>1, SeqMonotonic DEF ReadSoFar
<1> QED  BY <1>2, ConcatProperties

\* At first there is no call.
LEMMA InitPending == Init => Pending = << >>
<1> SUFFICES ASSUME Init PROVE Pending = << >>  OBVIOUS
<1>1. parts = << >> /\ Held = << >>
  BY InitHeld DEF Init, N2AInit
<1> DEFINE s == parts \o Held
           f == CallsIn(s)
<1>2. s = << >>  BY <1>1, ConcatEmptySeq, EmptySeq
<1>3. s \in Seq(AnyWord) /\ DOMAIN s = {}  BY <1>2, EmptySeq
<1> HIDE DEF s
<1>4. Firsts(s) = {}  BY <1>3 DEF Firsts
<1>5. Cardinality(Firsts(s)) = 0  BY <1>4, FS_EmptySet
<1>6. f \in Seq(1 .. MaxCalls + 1) /\ Len(f) = 0  BY <1>3, <1>5, CallsInIs
<1> HIDE DEF f
<1>7. f = << >>  BY <1>6, EmptySeq
<1> QED  BY <1>7 DEF f, s, Pending

\* Calls that have been put or not made are told by the words.
LEMMA PendingStays ==
    ASSUME parts' \o Held' = parts \o Held
    PROVE  Pending' = Pending
BY DEF Pending, CallsIn, Firsts, Nth

\* The first word of a call puts the call into the queue, and the others change
\* nothing.
LEMMA WordPutsCall ==
    ASSUME PipeInv, PipeInv', OneCaller, CallsKnown, StreamInv,
           NEW w \in Writers, SetIndex(w),
           UNCHANGED <<call, calls, parts>>
    PROVE  Calls!Put \/ UNCHANGED Pending
<1>1. LatestCall /\ ReadSoFar  BY DEF StreamInv
<1>2. PICK y \in AnyWord : Coming(y) /\ Chain(Append(parts \o Held, y))
  BY DEF StreamInv, Ordered
<1>3. word[w] \in Word  BY DEF PipeInv, IndexAhead, SetIndex
<1>4. y = word[w]  BY <1>1, <1>2, SetIndexComes
<1>5. Held' = Append(Held, y)  BY <1>4, SetIndexIsPut
<1>6. PICK s \in Seq(AnyWord) : s = parts \o Held  BY <1>1, StreamWords
<1>7. parts' \o Held' = Append(s, y)
  <2>1. parts \in Seq(AnyWord) /\ Held \in Seq(AnyWord)
    BY <1>1, StreamWords
  <2> QED  BY <1>5, <1>6, <2>1, ConcatAppend
<1>8. Pending = CallsIn(s)  BY <1>6 DEF Pending
<1>9. Pending' = CallsIn(Append(s, y))
  BY <1>7 DEF Pending, CallsIn, Firsts, Nth
<1>10. CallsIn(Append(s, y)) =
           IF y[2] = 1 THEN Append(CallsIn(s), y[1]) ELSE CallsIn(s)
  BY CallsInAppend
<1>11. CASE y[2] # 1  BY <1>8, <1>9, <1>10, <1>11
<1>12. CASE y[2] = 1
  <2> DEFINE q == CallsIn(s)
             m == y[1]
             r == Append(q, m)
             c == Cardinality(Firsts(s))
             t == Append(s, y)
  <2>1. Pending = q /\ Pending' = r  BY <1>8, <1>9, <1>10, <1>12
  <2>2. m \in Message  BY <1>3, <1>4, WordIs
  <2>3. q \in Seq(1 .. MaxCalls + 1) /\ Len(q) = c /\ c \in Nat
    BY CallsInIs, FirstsIs
  <2>4. m \in 1 .. MaxCalls + 1  BY DEF AnyWord
  <2> HIDE DEF q, m
  <2>5. Len(r) = Len(q) + 1 /\ r[Len(q) + 1] = m /\ r # << >>
    <3>1. /\ r \in Seq(1 .. MaxCalls + 1) /\ Len(r) = Len(q) + 1
          /\ r[Len(q) + 1] = m
      BY <2>3, <2>4, AppendProperties
    <3>2. Len(q) + 1 # 0  BY <2>3, SMT
    <3> HIDE DEF r
    <3> QED  BY <3>1, <3>2, EmptySeq
  <2>6. Cardinality(Firsts(t)) = c + 1  BY <1>12, FirstsAppend
  <2>7. Cardinality(Firsts(t)) <= m
    <3>1. Cardinality(Firsts(t)) <= t[Len(t)][1]  BY <1>2, <1>6 DEF Chain
    <3>2. t[Len(t)] = y  BY AppendProperties
    <3> QED  BY <3>1, <3>2 DEF m
  <2>8. Cardinality(Message) = MaxCalls /\ MaxCalls \in Nat
    <3>1. MaxCalls \in Nat  BY MessageAssumption
    <3>2. Cardinality(1 .. MaxCalls) =
              IF 1 > MaxCalls THEN 0 ELSE MaxCalls - 1 + 1
      BY <3>1, FS_Interval
    <3> QED  BY <3>1, <3>2, SMT DEF Message
  <2> HIDE DEF c, t, r
  <2>9. c < Cardinality(Message)
    <3>1. m \in 1 .. MaxCalls  BY <2>2 DEF Message
    <3>2. c + 1 <= m  BY <2>6, <2>7
    <3>3. c < MaxCalls  BY <2>3, <2>8, <3>1, <3>2, SMT
    <3> QED  BY <2>8, <3>3
  <2>10. Calls!Newest(r) = m  BY <2>5 DEF Calls!Newest
  <2>11. r = Append(q, m)  BY DEF r
  <2> QED
    BY <2>1, <2>2, <2>3, <2>5, <2>9, <2>10, <2>11 DEF Calls!Put
<1> QED  BY <1>11, <1>12

\* The call that the task has made leaves the queue, as its oldest.
LEMMA ReturnTakesCall ==
    ASSUME StreamInv, ExecReturns, PipeInv, [PipeNext]_pipeVars
    PROVE  Calls!Take
<1>1. ReadSoFar /\ WholeCalls  BY DEF StreamInv
<1>2. /\ exter = "exec" /\ parts' = << >> /\ UNCHANGED <<rdp, wrp>>
  BY DEF ExecReturns, pipeVars, ring
<1>3. Held' = Held  BY <1>2, HeldStays
<1>4. PICK p \in Seq(AnyWord), h \in Seq(AnyWord) : p = parts /\ h = Held
  BY <1>1, StreamWords
<1>5. p # << >>  BY <1>1, <1>2, <1>4 DEF ReadSoFar
<1>6. \A k \in DOMAIN p : p[k][2] = k
  <2>1. ASSUME NEW k \in DOMAIN p PROVE p[k][2] = k
    <3>1. p[k] = <<p[1][1], k>>  BY <1>1, <1>4 DEF WholeCalls
    <3> QED  BY <3>1
  <2> QED  BY <2>1
<1>7. CallsIn(p \o h) # << >> /\ CallsIn(h) = Tail(CallsIn(p \o h))
  BY <1>5, <1>6, CallsInConcat
<1>8. parts' \o Held' = h
  <2>1. << >> \o h = h  BY ConcatEmptySeq
  <2> QED  BY <1>2, <1>3, <1>4, <2>1
<1>9. Pending = CallsIn(p \o h)  BY <1>4 DEF Pending
<1>10. Pending' = CallsIn(h)  BY <1>8 DEF Pending, CallsIn, Firsts, Nth
<1> QED  BY <1>7, <1>9, <1>10 DEF Calls!Take

\* A word that is read stays in what has been read.
LEMMA ReadKeepsCalls ==
    ASSUME PipeInv, PipeInv', [PipeNext]_pipeVars, StreamInv, ReadWords
    PROVE  UNCHANGED Pending
<1>1. CASE EndRead
  <2>1. Held # << >> /\ Held' = Tail(Held) /\ data[rdp] = Head(Held)
    BY <1>1, EndReadIsTake DEF Fifo!Take, EndRead
  <2>2. ~(FindEmpty \/ ReaderWakes)
    BY <1>1 DEF EndRead, FindEmpty, ReaderWakes
  <2>3. parts' = Append(parts, Head(Held))  BY <2>1, <2>2 DEF ReadWords
  <2>4. parts \in Seq(Word) /\ Held \in Seq(Word)
    BY DEF StreamInv, ReadSoFar
  <2>5. parts' \o Held' = parts \o Held  BY <2>1, <2>3, <2>4, ConcatMove
  <2> QED  BY <2>5, PendingStays
<1>2. CASE ~EndRead
  <2>1. UNCHANGED <<parts, rdp, wrp>>
    BY <1>2 DEF ReadWords, FindEmpty, ReaderWakes, ring, args
  <2>2. Held' = Held  BY <2>1, HeldStays
  <2> QED  BY <2>1, <2>2, PendingStays
<1> QED  BY <1>1, <1>2

\* What leaves the pipe and what has been read alone changes no call.
LEMMA PipeKeepsCalls ==
    ASSUME PipeInv, [PipeNext]_pipeVars, UNCHANGED <<parts, rdp, wrp>>
    PROVE  UNCHANGED Pending
<1>1. Held' = Held  BY HeldStays
<1> QED  BY <1>1, PendingStays

\* Every step is one of the queue of calls, or none.
LEMMA NextIsCalls ==
    ASSUME OneCaller, CallsKnown, PipeInv, PipeInv', StreamInv, [Next]_vars
    PROVE  [Calls!Next]_Pending
<1>1. LatestCall /\ ReadSoFar /\ PipeTypeOK  BY DEF StreamInv, PipeInv
<1>2. PICK y \in AnyWord : Coming(y) /\ Chain(Append(parts \o Held, y))
  BY DEF StreamInv, Ordered
<1>3. [PipeNext]_pipeVars  BY NextIsPipe
<1>4. ASSUME NEW w \in Writers, HostSteps(w), UNCHANGED OtherVars
      PROVE  Calls!Put \/ UNCHANGED Pending
  <2>1. UNCHANGED parts  BY <1>4 DEF OtherVars, exterVars
  <2>2. CASE SetIndex(w)
    <3>1. wpc[w] # "idle"  BY <2>2 DEF SetIndex
    <3>2. Calling(w)  BY <3>1 DEF OneCaller
    <3>3. UNCHANGED <<call, calls>>
      BY <1>4, <3>1, <3>2 DEF HostSteps, CallSteps, BeginCall, WriteWord,
         do_uae_int_requested, EndCall, Written, n2aVars
    <3> QED  BY <2>1, <2>2, <3>3, WordPutsCall
  <2>3. CASE ~SetIndex(w)
    <3>1. rdp' = rdp /\ wrp' = wrp  BY <1>1, <1>2, <1>4, <2>3, OthersCome
    <3> QED  BY <1>3, <2>1, <3>1, PipeKeepsCalls
  <2> QED  BY <2>2, <2>3
<1>5. CASE ReadWords  BY <1>3, <1>5, ReadKeepsCalls
<1>6. CASE ExecReturns  BY <1>3, <1>6, ReturnTakesCall DEF Calls!Next
<1>7. CASE \/ Interrupt \/ TaskWakes \/ CallExec \/ NoCalls \/ SkipUnit
           \/ AckUnit \/ PutDummy \/ LeaveHelper
  <2>1. UNCHANGED <<pipeVars, parts>>
    BY <1>7 DEF Interrupt, TaskWakes, CallExec, NoCalls, SkipUnit, AckUnit,
                PutDummy, LeaveHelper
  <2> QED  BY <1>3, <2>1, PipeKeepsCalls DEF pipeVars, ring
<1>8. ASSUME NEW p \in Packet, SendPacket(p) PROVE UNCHANGED Pending
  <2>1. UNCHANGED <<pipeVars, parts>>  BY <1>8 DEF SendPacket, exterVars
  <2> QED  BY <1>3, <2>1, PipeKeepsCalls DEF pipeVars, ring
<1>9. ASSUME NEW u \in UnitNos, ProcessSteps(u) PROVE UNCHANGED Pending
  <2>1. UNCHANGED <<pipeVars, parts>>
    BY <1>9 DEF ProcessSteps, StartPacket, PutOffPacket, GetDummy,
                MessageLock, ScanReply, ScanPast, ScanEnd, ProcessOnly,
                exterVars
  <2> QED  BY <1>3, <2>1, PipeKeepsCalls DEF pipeVars, ring
<1>10. ASSUME NEW u \in UnitNos, ThreadSteps(u) PROVE UNCHANGED Pending
  <2>1. UNCHANGED <<pipeVars, parts>>
    BY <1>10 DEF ThreadSteps, HandlePacket, MarkPacket, RequestInterrupt,
                 ThreadOnly, exterVars
  <2> QED  BY <1>3, <2>1, PipeKeepsCalls DEF pipeVars, ring
<1>11. CASE UNCHANGED vars
  <2>1. UNCHANGED <<pipeVars, parts>>  BY <1>11 DEF vars, exterVars
  <2> QED  BY <1>3, <2>1, PipeKeepsCalls DEF pipeVars, ring
<1> QED
  BY <1>4, <1>5, <1>6, <1>7, <1>8, <1>9, <1>10, <1>11
  DEF Next, ExterSteps, Calls!Next

\* The calls of all host threads are a queue to the task: each is carried out
\* once, in the order in which the calls began.
THEOREM CallsInOrder == Spec => Calls!Spec
<1>1. Spec => []PipeInv  BY UsesPipe, PipeInductive, PTL
<1>2. Init => Calls!Init  BY InitPending DEF Calls!Init
<1>3. OneCaller /\ CallsKnown /\ PipeInv /\ PipeInv' /\ StreamInv /\ [Next]_vars
          => [Calls!Next]_Pending
  BY NextIsCalls
<1> QED
  BY <1>1, <1>2, <1>3, StreamOrdered, CallsApart, PTL DEF Spec, Calls!Spec

-----------------------------------------------------------------------------
(* The types.                                                              *)

\* The variables that one of a few values tells.
HelperTypes ==
    /\ exter \in {"wait", "look", "read", "exec", "units", "put"}
    /\ signalled \in BOOLEAN /\ singlethread_int_sem \in {0, 1}
    /\ uae_int_requested \in BOOLEAN
    /\ unit_no \in 0 .. Units

\* Packets are acknowledged after they are sent and completed after that.
CountersOrdered ==
    \A u \in UnitNos :
        cmds_complete[u] <= cmds_acked[u] /\ cmds_acked[u] <= cmds_sent[u]

\* The packets of a unit's process that its thread was given.
Given(u) == {p \in Packet : /\ \E k \in DOMAIN process[u].queue :
                                   process[u].queue[k] = p
                            /\ status[p] \in {"started", "done"}}

\* The process counts them, and its scan stays within its queue.
QueueCounted(u) ==
    /\ process[u].at <= Len(process[u].queue) + 1
    /\ process[u].started = Cardinality(Given(u))
    /\ process[u].started <= MaxStarted

\* The task waits, and nothing is asked for.
LEMMA InitHelperTypes == Init => HelperTypes
<1>1. 0 \in 0 .. Units  BY UnitAssumption, SMT
<1> QED  BY <1>1 DEF Init, N2AInit, HelperTypes

\* Each step of the task gives its variables one of their values.
LEMMA NextHelperTypes == HelperTypes /\ [Next]_vars => HelperTypes'
<1> SUFFICES ASSUME HelperTypes, [Next]_vars PROVE HelperTypes'  OBVIOUS
<1> USE DEF HelperTypes, exterVars, n2aVars
<1>1. CASE Interrupt  BY <1>1 DEF Interrupt
<1>2. CASE ExterSteps
  <2>1. CASE TaskWakes
    <3>1. 0 \in 0 .. Units  BY UnitAssumption, SMT
    <3> QED  BY <2>1, <3>1 DEF TaskWakes
  <2>2. CASE SkipUnit \/ AckUnit
    <3>1. unit_no' = unit_no + 1 /\ unit_no < Units
      BY <2>2 DEF SkipUnit, AckUnit
    <3>2. unit_no' \in 0 .. Units  BY <3>1, UnitAssumption, SMT
    <3> QED  BY <2>2, <3>2 DEF SkipUnit, AckUnit
  <2>3. CASE ReadWords  BY <2>3 DEF ReadWords
  <2>4. CASE CallExec \/ ExecReturns \/ NoCalls \/ PutDummy \/ LeaveHelper
    BY <2>4 DEF CallExec, ExecReturns, NoCalls, PutDummy, LeaveHelper
  <2> QED  BY <1>2, <2>1, <2>2, <2>3, <2>4 DEF ExterSteps
<1>3. ASSUME NEW w \in Writers, HostSteps(w), UNCHANGED OtherVars
      PROVE  HelperTypes'
  <2>1. uae_int_requested' \in BOOLEAN
    BY <1>3 DEF HostSteps, CallSteps, BeginCall, WriteWord,
                do_uae_int_requested, EndCall
  <2> QED  BY <1>3, <2>1 DEF OtherVars
<1>4. ASSUME NEW p \in Packet, SendPacket(p) PROVE HelperTypes'
  BY <1>4 DEF SendPacket
<1>5. ASSUME NEW u \in UnitNos, ProcessSteps(u) PROVE HelperTypes'
  BY <1>5 DEF ProcessSteps, StartPacket, PutOffPacket, GetDummy, MessageLock,
              ScanReply, ScanPast, ScanEnd, ProcessOnly
<1>6. ASSUME NEW u \in UnitNos, ThreadSteps(u) PROVE HelperTypes'
  BY <1>6 DEF ThreadSteps, HandlePacket, MarkPacket, RequestInterrupt,
              ThreadOnly
<1>7. CASE UNCHANGED vars  BY <1>7 DEF vars
<1> QED  BY <1>1, <1>2, <1>3, <1>4, <1>5, <1>6, <1>7 DEF Next

\* All counters start at 0.
LEMMA InitCountersOrdered == Init => CountersOrdered
  BY DEF Init, CountersOrdered

\* A counter only catches up with the one before it.
LEMMA NextCountersOrdered ==
    DummyInv /\ HelperTypes /\ CountersOrdered /\ [Next]_vars
        => CountersOrdered'
<1> SUFFICES ASSUME DummyInv, HelperTypes, CountersOrdered, [Next]_vars
             PROVE  CountersOrdered'
  OBVIOUS
<1>1. /\ cmds_acked \in [UnitNos -> Nat] /\ cmds_sent \in [UnitNos -> Nat]
      /\ cmds_complete \in [UnitNos -> Nat]
  BY DEF DummyInv, DummyTypes
<1>2. CASE AckUnit
  <2>1. /\ cmds_acked' = [cmds_acked EXCEPT ![unit_no] = cmds_sent[unit_no]]
        /\ UNCHANGED <<cmds_sent, cmds_complete>> /\ HasDone(unit_no)
    BY <1>2 DEF AckUnit
  <2>2. unit_no \in UnitNos
    BY <1>2, UnitAssumption, SMT DEF AckUnit, HelperTypes, UnitNos
  <2> QED  BY <1>1, <2>1, <2>2 DEF CountersOrdered
<1>3. ASSUME NEW u \in UnitNos, MessageLock(u) PROVE CountersOrdered'
  <2>1. /\ cmds_complete' = [cmds_complete EXCEPT ![u] = cmds_acked[u]]
        /\ UNCHANGED <<cmds_sent, cmds_acked>>
    BY <1>3 DEF MessageLock, ProcessOnly
  <2> QED  BY <1>1, <2>1 DEF CountersOrdered
<1>4. ASSUME NEW u \in UnitNos, HandlePacket(u) PROVE CountersOrdered'
  <2>1. /\ cmds_sent' = [cmds_sent EXCEPT ![u] = cmds_sent[u] + 1]
        /\ UNCHANGED <<cmds_complete, cmds_acked>>
    BY <1>4 DEF HandlePacket, ThreadOnly
  <2> QED  BY <1>1, <2>1, SMT DEF CountersOrdered
<1>5. CASE UNCHANGED cmds  BY <1>5 DEF cmds, CountersOrdered
<1>6. CASE \/ Interrupt \/ TaskWakes \/ ReadWords \/ CallExec \/ ExecReturns
           \/ NoCalls \/ SkipUnit \/ PutDummy \/ LeaveHelper
  BY <1>5, <1>6 DEF Interrupt, TaskWakes, ReadWords, CallExec, ExecReturns,
                    NoCalls, SkipUnit, PutDummy, LeaveHelper
<1>7. ASSUME NEW w \in Writers, HostSteps(w), UNCHANGED OtherVars
      PROVE  UNCHANGED cmds
  BY <1>7 DEF OtherVars
<1>8. ASSUME NEW p \in Packet, SendPacket(p) PROVE UNCHANGED cmds
  BY <1>8 DEF SendPacket
<1>9. ASSUME NEW u \in UnitNos, ProcessSteps(u), ~MessageLock(u)
      PROVE  UNCHANGED cmds
  BY <1>9 DEF ProcessSteps, StartPacket, PutOffPacket, GetDummy, ScanReply,
              ScanPast, ScanEnd, ProcessOnly, cmds
<1>10. ASSUME NEW u \in UnitNos, MarkPacket(u) \/ RequestInterrupt(u)
       PROVE  UNCHANGED cmds
  BY <1>10 DEF MarkPacket, RequestInterrupt, ThreadOnly, cmds
<1>11. CASE UNCHANGED vars  BY <1>5, <1>11 DEF vars
<1> QED  BY <1>2, <1>3, <1>4, <1>5, <1>6, <1>7, <1>8, <1>9, <1>10, <1>11
         DEF Next, ExterSteps, ThreadSteps

\* There are finitely many packets.
LEMMA PacketsFinite ==
    ASSUME NEW T, T \subseteq Packet
    PROVE  IsFiniteSet(T) /\ Cardinality(T) \in Nat
<1>1. IsFiniteSet(Packet)  BY UnitAssumption, FS_Interval, SMT DEF Packet
<1>2. IsFiniteSet(T)  BY <1>1, FS_Subset
<1> QED  BY <1>2, FS_CardinalityType

\* What is in a sequence after an element has been put in front.
LEMMA PrependHas ==
    ASSUME NEW s \in Seq(Packet), NEW x \in Packet
    PROVE  /\ Len(<<x>> \o s) = Len(s) + 1
           /\ \A y : (\E k \in DOMAIN (<<x>> \o s) : (<<x>> \o s)[k] = y)
                         <=> y = x \/ \E k \in DOMAIN s : s[k] = y
<1> DEFINE e == <<x>>
           t == e \o s
<1>1. e \in Seq(Packet) /\ Len(e) = 1 /\ e[1] = x  OBVIOUS
<1> HIDE DEF e
<1>2. /\ t \in Seq(Packet) /\ Len(t) = 1 + Len(s)
      /\ \A k \in 1 .. 1 + Len(s) :
             t[k] = IF k <= 1 THEN e[k] ELSE s[k - 1]
  <2>1. /\ t \in Seq(Packet) /\ Len(t) = Len(e) + Len(s)
        /\ \A k \in 1 .. Len(e) + Len(s) :
               t[k] = IF k <= Len(e) THEN e[k] ELSE s[k - Len(e)]
    BY <1>1, ConcatProperties
  <2> QED  BY <1>1, <2>1
<1>3. /\ DOMAIN s = 1 .. Len(s) /\ Len(s) \in Nat
      /\ DOMAIN t = 1 .. 1 + Len(s)
  BY <1>2, LenProperties
<1> HIDE DEF t
<1>4. t[1] = x /\ 1 \in DOMAIN t  BY <1>1, <1>2, <1>3, SMT
<1>5. ASSUME NEW k \in DOMAIN s PROVE k + 1 \in DOMAIN t /\ t[k + 1] = s[k]
  <2> DEFINE j == k + 1
  <2>1. j \in 1 .. 1 + Len(s) /\ ~(j <= 1) /\ j - 1 = k  BY <1>3, SMT
  <2> HIDE DEF j
  <2>2. t[j] = s[k]  BY <1>2, <2>1
  <2> QED  BY <1>3, <2>1, <2>2 DEF j
<1>6. ASSUME NEW k \in DOMAIN t
      PROVE  t[k] = x \/ \E j \in DOMAIN s : s[j] = t[k]
  <2>1. CASE k = 1  BY <1>4, <2>1
  <2>2. CASE k # 1
    <3>1. k \in 1 .. 1 + Len(s) /\ ~(k <= 1) /\ k - 1 \in 1 .. Len(s)
      BY <1>3, <2>2, SMT
    <3>2. t[k] = s[k - 1]  BY <1>2, <3>1
    <3> QED  BY <1>3, <3>1, <3>2
  <2> QED  BY <2>1, <2>2
<1>7. Len(t) = Len(s) + 1  BY <1>2, <1>3, SMT
<1>8. \A y : (\E k \in DOMAIN t : t[k] = y)
                 <=> y = x \/ \E k \in DOMAIN s : s[k] = y
  BY <1>4, <1>5, <1>6
<1> QED  BY <1>7, <1>8 DEF t, e

\* What is in a distinct sequence after an element has been removed.
LEMMA RemoveAtHas ==
    ASSUME NEW s \in Seq(Packet), NEW i \in 1 .. Len(s), Distinct(s)
    PROVE  \A y : (\E k \in DOMAIN RemoveAt(s, i) : RemoveAt(s, i)[k] = y)
                      <=> y # s[i] /\ \E k \in DOMAIN s : s[k] = y
<1> DEFINE t == RemoveAt(s, i)
<1>1. /\ t \in Seq(Packet) /\ Len(t) = Len(s) - 1
      /\ \A k \in 1 .. Len(s) - 1 : t[k] = IF k < i THEN s[k] ELSE s[k + 1]
  BY RemoveAtIs
<1>2. PartOf(t, s) /\ \A k \in DOMAIN t : t[k] # s[i]  BY RemoveAtPart
<1>3. \A k \in DOMAIN t : \E j \in DOMAIN s : t[k] = s[j]
  BY <1>2, PartDistinct
<1> HIDE DEF t
<1>4. /\ DOMAIN s = 1 .. Len(s) /\ Len(s) \in Nat
      /\ DOMAIN t = 1 .. Len(s) - 1
  BY <1>1, LenProperties
<1>5. ASSUME NEW k \in DOMAIN s, s[k] # s[i]
      PROVE  \E j \in DOMAIN t : t[j] = s[k]
  <2>1. CASE k < i
    <3>1. k \in 1 .. Len(s) - 1  BY <1>4, <2>1, SMT
    <3> QED  BY <1>1, <1>4, <2>1, <3>1
  <2>2. CASE ~(k < i)
    <3>1. k # i  BY <1>5
    <3> DEFINE j == k - 1
    <3>2. j \in 1 .. Len(s) - 1 /\ ~(j < i) /\ j + 1 = k
      BY <1>4, <2>2, <3>1, SMT
    <3> HIDE DEF j
    <3>3. t[j] = s[k]  BY <1>1, <3>2
    <3> QED  BY <1>4, <3>2, <3>3
  <2> QED  BY <2>1, <2>2
<1>6. \A y : (\E k \in DOMAIN t : t[k] = y)
                 <=> y # s[i] /\ \E k \in DOMAIN s : s[k] = y
  BY <1>2, <1>3, <1>5
<1> QED  BY <1>6 DEF t

ProcessInv == \A u \in UnitNos : QueueCounted(u)

\* No packet is in a queue.
LEMMA InitProcessInv == Init => ProcessInv
<1> SUFFICES ASSUME Init, NEW u \in UnitNos PROVE QueueCounted(u)
  BY DEF ProcessInv
<1>1. process[u].queue = << >> /\ process[u].at = 1 /\ process[u].started = 0
  BY DEF Init
<1>2. Len(<< >>) = 0 /\ DOMAIN << >> = {}  BY EmptySeq
<1>3. Given(u) = {}  BY <1>1, <1>2 DEF Given
<1>4. 0 <= MaxStarted  BY UnitAssumption, SMT
<1> QED  BY <1>1, <1>2, <1>3, <1>4, FS_EmptySet, SMT DEF QueueCounted

\* A step that leaves the process and the packets given to its thread alone.
LEMMA QueueStays ==
    ASSUME NEW u \in UnitNos, QueueCounted(u), process'[u] = process[u],
           \A p \in Packet : status'[p] \in {"started", "done"}
                                 <=> status[p] \in {"started", "done"}
    PROVE  QueueCounted(u)'
<1>1. Given(u)' = Given(u)  BY DEF Given
<1> HIDE DEF Given
<1> QED  BY <1>1 DEF QueueCounted

\* The same where only packets change that are in another queue or in none.
LEMMA QueueStaysElsewhere ==
    ASSUME NEW u \in UnitNos, QueueCounted(u), process'[u] = process[u],
           NEW p \in Packet,
           \A k \in DOMAIN process[u].queue : process[u].queue[k] # p,
           \A q \in Packet \ {p} : status'[q] = status[q]
    PROVE  QueueCounted(u)'
<1>1. Given(u)' = Given(u)  BY DEF Given
<1> HIDE DEF Given
<1> QED  BY <1>1 DEF QueueCounted

\* A packet that is started is one more of those the thread was given; one
\* that is put off is not.
LEMMA GetCounts ==
    ASSUME DummyInv, PacketInv, ProcessInv, NEW u \in UnitNos, NEW p \in Packet,
           StartPacket(u, p) \/ PutOffPacket(u, p)
    PROVE  ProcessInv'
<1> DEFINE s == process[u].queue
           q == <<p>> \o s
<1>1. process \in [UnitNos -> ProcessType]  BY DEF DummyInv, DummyTypes
<1>2. /\ s \in Seq(Packet) /\ process[u].at \in Nat /\ process[u].started \in Int
      /\ Len(s) \in Nat
  BY <1>1, LenProperties DEF ProcessType
<1>3. Gets(u, p)  BY DEF StartPacket, PutOffPacket
<1>4. status[p] = "sent" /\ UnitOf[p] = u  BY <1>3, PortAfterGet
<1>5. ASSUME NEW v \in UnitNos
      PROVE  \A k \in DOMAIN process[v].queue : process[v].queue[k] # p
  <2>1. InQueue(v)  BY DEF PacketInv
  <2> QED  BY <1>4, <2>1 DEF InQueue
<1>6. /\ Len(q) = Len(s) + 1
      /\ \A r : (\E k \in DOMAIN q : q[k] = r)
                    <=> r = p \/ \E k \in DOMAIN s : s[k] = r
  <2>1. s \in Seq(Packet)  BY <1>2
  <2> HIDE DEF s
  <2> QED  BY <2>1, PrependHas
<1>7. Enqueued(u, p) = [process EXCEPT ![u].queue = q]  BY DEF Enqueued
<1> HIDE DEF q
<1>8. IsFiniteSet(Given(u)) /\ Cardinality(Given(u)) \in Nat
  BY PacketsFinite DEF Given
<1>9. p \notin Given(u)  BY <1>4 DEF Given
<1>10. QueueCounted(u)  BY DEF ProcessInv
<1>11. status \in [Packet -> {"unsent", "sent", "unstarted", "started", "done"}]
  BY DEF PacketInv, PacketTypes
<1>12. CASE StartPacket(u, p)
  <2>1. /\ process[u].started < MaxStarted
        /\ status' = [status EXCEPT ![p] = "started"]
        /\ process' = [[process EXCEPT ![u].queue = q] EXCEPT
                           ![u].started = [process EXCEPT ![u].queue = q][u].started + 1]
    BY <1>7, <1>12 DEF StartPacket
  <2>2. /\ process'[u].queue = q /\ process'[u].at = process[u].at
        /\ process'[u].started = process[u].started + 1
        /\ \A v \in UnitNos \ {u} : process'[v] = process[v]
    BY <1>1, <2>1 DEF ProcessType
  <2>3. /\ status'[p] = "started"
        /\ \A r \in Packet \ {p} : status'[r] = status[r]
    BY <1>11, <2>1
  <2>4. Given(u)' = Given(u) \cup {p}  BY <1>6, <2>2, <2>3 DEF Given
  <2>5. Cardinality(Given(u)') = Cardinality(Given(u)) + 1
    BY <1>8, <1>9, <2>4, FS_AddElement
  <2>6. QueueCounted(u)'
    <3>1. process[u].started + 1 <= MaxStarted
      BY <1>2, <2>1, UnitAssumption, SMT
    <3>2. process[u].at <= Len(q) + 1
      BY <1>2, <1>6, <1>10, SMT DEF QueueCounted
    <3>3. process[u].started + 1 = Cardinality(Given(u)')
      BY <1>10, <2>5 DEF QueueCounted
    <3> QED  BY <2>2, <3>1, <3>2, <3>3 DEF QueueCounted
  <2>7. ASSUME NEW v \in UnitNos \ {u} PROVE QueueCounted(v)'
    <3>1. QueueCounted(v) /\ process'[v] = process[v]  BY <2>2 DEF ProcessInv
    <3> QED  BY <1>5, <2>3, <3>1, QueueStaysElsewhere
  <2> QED  BY <2>6, <2>7 DEF ProcessInv
<1>13. CASE PutOffPacket(u, p)
  <2>1. /\ status' = [status EXCEPT ![p] = "unstarted"]
        /\ process' = [process EXCEPT ![u].queue = q]
    BY <1>7, <1>13 DEF PutOffPacket
  <2>2. /\ process'[u].queue = q /\ process'[u].at = process[u].at
        /\ process'[u].started = process[u].started
        /\ \A v \in UnitNos \ {u} : process'[v] = process[v]
    BY <1>1, <2>1 DEF ProcessType
  <2>3. /\ status'[p] = "unstarted"
        /\ \A r \in Packet \ {p} : status'[r] = status[r]
    BY <1>11, <2>1
  <2>4. Given(u)' = Given(u)
    <3>1. ASSUME NEW r \in Packet PROVE r \in Given(u)' <=> r \in Given(u)
      <4>1. CASE r = p  BY <1>9, <2>3, <4>1 DEF Given
      <4>2. CASE r # p  BY <1>6, <2>2, <2>3, <4>2 DEF Given
      <4> QED  BY <4>1, <4>2
    <3> QED  BY <3>1 DEF Given
  <2>5. QueueCounted(u)'
    <3>1. process[u].at <= Len(q) + 1
      BY <1>2, <1>6, <1>10, SMT DEF QueueCounted
    <3> HIDE DEF Given
    <3> QED  BY <1>10, <2>2, <2>4, <3>1 DEF QueueCounted
  <2>6. ASSUME NEW v \in UnitNos \ {u} PROVE QueueCounted(v)'
    <3>1. QueueCounted(v) /\ process'[v] = process[v]  BY <2>2 DEF ProcessInv
    <3> QED  BY <1>5, <2>3, <3>1, QueueStaysElsewhere
  <2> QED  BY <2>5, <2>6 DEF ProcessInv
<1> QED  BY <1>12, <1>13

\* A packet that is replied to was one of those the thread was given.
LEMMA ReplyCounts ==
    ASSUME DummyInv, PacketInv, ProcessInv, NEW u \in UnitNos, ScanReply(u)
    PROVE  ProcessInv'
<1> DEFINE i == process[u].at
           s == process[u].queue
           p == s[i]
           q == RemoveAt(s, i)
<1>1. /\ status[p] = "done" /\ status' = status
      /\ process' = [process EXCEPT ![u].queue = q,
                                    ![u].started = process[u].started - 1]
      /\ i <= Len(s)
  BY DEF ScanReply, Scanning, ProcessOnly
<1>2. process \in [UnitNos -> ProcessType]  BY DEF DummyInv, DummyTypes
<1>3. /\ s \in Seq(Packet) /\ i \in Nat \ {0} /\ process[u].started \in Int
      /\ Len(s) \in Nat /\ DOMAIN s = 1 .. Len(s)
  BY <1>2, LenProperties DEF ProcessType
<1>4. i \in 1 .. Len(s) /\ p \in Packet
  <2> HIDE DEF i, s, p
  <2>1. i \in 1 .. Len(s)  BY <1>1, <1>3, SMT
  <2> QED  BY <1>3, <2>1, ElementOfSeq DEF p
<1>5. Distinct(s)
  <2>1. InQueue(u)  BY DEF PacketInv
  <2> QED  BY <2>1 DEF InQueue
<1>6. /\ Len(q) = Len(s) - 1
      /\ \A r : (\E k \in DOMAIN q : q[k] = r)
                    <=> r # p /\ \E k \in DOMAIN s : s[k] = r
  <2> HIDE DEF i, s
  <2>1. Len(q) = Len(s) - 1  BY <1>3, <1>4, RemoveAtIs
  <2>2. \A r : (\E k \in DOMAIN q : q[k] = r)
                   <=> r # p /\ \E k \in DOMAIN s : s[k] = r
    BY <1>3, <1>4, <1>5, RemoveAtHas
  <2> QED  BY <2>1, <2>2
<1> HIDE DEF q
<1>7. /\ process'[u].queue = q /\ process'[u].at = i
      /\ process'[u].started = process[u].started - 1
      /\ \A v \in UnitNos \ {u} : process'[v] = process[v]
  BY <1>1, <1>2 DEF ProcessType
<1>8. Given(u)' = Given(u) \ {p}
  <2>1. ASSUME NEW r \in Packet
        PROVE  r \in Given(u)' <=> r \in Given(u) /\ r # p
    <3> HIDE DEF p
    <3>1. status' = status /\ process'[u].queue = q  BY <1>1, <1>7
    <3>2. (\E k \in DOMAIN q : q[k] = r) <=> r # p /\ \E k \in DOMAIN s : s[k] = r
      BY <1>6
    <3> QED  BY <3>1, <3>2 DEF Given
  <2> HIDE DEF p
  <2> QED  BY <2>1 DEF Given
<1>9. p \in Given(u)  BY <1>1, <1>3, <1>4 DEF Given
<1>10. IsFiniteSet(Given(u)) /\ Cardinality(Given(u)) \in Nat
  BY PacketsFinite DEF Given
<1>11. Cardinality(Given(u)') = Cardinality(Given(u)) - 1
  <2> HIDE DEF p
  <2> QED  BY <1>8, <1>9, <1>10, FS_RemoveElement
<1>12. QueueCounted(u)  BY DEF ProcessInv
<1>13. QueueCounted(u)'
  <2> HIDE DEF i, s
  <2>1. i <= Len(q) + 1  BY <1>1, <1>3, <1>6, SMT
  <2>2. process[u].started - 1 <= MaxStarted
    BY <1>3, <1>12, UnitAssumption, SMT DEF QueueCounted
  <2>3. process[u].started - 1 = Cardinality(Given(u)')
    BY <1>11, <1>12 DEF QueueCounted
  <2> QED  BY <1>7, <2>1, <2>2, <2>3 DEF QueueCounted
<1>14. ASSUME NEW v \in UnitNos \ {u} PROVE QueueCounted(v)'
  <2>1. QueueCounted(v) /\ process'[v] = process[v]  BY <1>7 DEF ProcessInv
  <2> QED  BY <1>1, <2>1, QueueStays
<1> QED  BY <1>13, <1>14 DEF ProcessInv

\* The scan moves on within the queue, and nothing is counted.
LEMMA ScanCounts ==
    ASSUME DummyInv, ProcessInv, NEW u \in UnitNos,
           GetDummy(u) \/ MessageLock(u) \/ ScanPast(u) \/ ScanEnd(u)
    PROVE  ProcessInv'
<1>1. process \in [UnitNos -> ProcessType]  BY DEF DummyInv, DummyTypes
<1>2. /\ process[u].queue \in Seq(Packet) /\ process[u].at \in Nat
      /\ Len(process[u].queue) \in Nat
  BY <1>1, LenProperties DEF ProcessType
<1>3. status' = status
  BY DEF GetDummy, MessageLock, ScanPast, ScanEnd
<1>4. QueueCounted(u)  BY DEF ProcessInv
<1>5. /\ process'[u].queue = process[u].queue
      /\ process'[u].started = process[u].started
      /\ process'[u].at <= Len(process[u].queue) + 1
      /\ \A v \in UnitNos \ {u} : process'[v] = process[v]
  <2>1. 1 <= Len(process[u].queue) + 1  BY <1>2, SMT
  <2>2. CASE GetDummy(u)
    BY <1>1, <1>4, <2>2 DEF GetDummy, QueueCounted, ProcessType
  <2>3. CASE MessageLock(u)
    BY <1>1, <2>1, <2>3 DEF MessageLock, ProcessType
  <2>4. CASE ScanPast(u)
    <3>1. process' = [process EXCEPT ![u].at = process[u].at + 1]
      BY <2>4 DEF ScanPast
    <3>2. process[u].at + 1 <= Len(process[u].queue) + 1
      BY <1>2, <2>4, SMT DEF ScanPast, Scanning
    <3> QED  BY <1>1, <3>1, <3>2 DEF ProcessType
  <2>5. CASE ScanEnd(u)  BY <1>1, <2>1, <2>5 DEF ScanEnd, ProcessType
  <2> QED  BY <2>2, <2>3, <2>4, <2>5
<1>6. QueueCounted(u)'
  <2>1. Given(u)' = Given(u)  BY <1>3, <1>5 DEF Given
  <2> HIDE DEF Given
  <2> QED  BY <1>4, <1>5, <2>1 DEF QueueCounted
<1>7. ASSUME NEW v \in UnitNos \ {u} PROVE QueueCounted(v)'
  <2>1. QueueCounted(v) /\ process'[v] = process[v]  BY <1>5 DEF ProcessInv
  <2> QED  BY <1>3, <2>1, QueueStays
<1> QED  BY <1>6, <1>7 DEF ProcessInv

\* started is the number of packets of the queue that the thread was given,
\* and the scan stays within the queue.
LEMMA NextProcessInv ==
    ASSUME DummyInv, PacketInv, ProcessInv, [Next]_vars
    PROVE  ProcessInv'
<1>1. ASSUME UNCHANGED process,
             \A p \in Packet : status'[p] \in {"started", "done"}
                                   <=> status[p] \in {"started", "done"}
      PROVE  ProcessInv'
  <2>1. ASSUME NEW u \in UnitNos PROVE QueueCounted(u)'
    <3>1. QueueCounted(u)  BY DEF ProcessInv
    <3> QED  BY <1>1, <3>1, QueueStays
  <2> QED  BY <2>1 DEF ProcessInv
<1>2. status \in [Packet -> {"unsent", "sent", "unstarted", "started", "done"}]
  BY DEF PacketInv, PacketTypes
<1>3. CASE Interrupt \/ ExterSteps
  <2>1. UNCHANGED <<process, status>>
    BY <1>3 DEF Interrupt, ExterSteps, TaskWakes, ReadWords, CallExec,
                ExecReturns, NoCalls, SkipUnit, AckUnit, PutDummy,
                LeaveHelper, processVars, threadVars
  <2> QED  BY <1>1, <2>1
<1>4. ASSUME NEW p \in Packet, SendPacket(p) PROVE ProcessInv'
  <2>1. /\ status[p] = "unsent" /\ status' = [status EXCEPT ![p] = "sent"]
        /\ UNCHANGED process
    BY <1>4 DEF SendPacket, processVars
  <2> QED  BY <1>1, <1>2, <2>1
<1>5. ASSUME NEW u \in UnitNos, ProcessSteps(u) PROVE ProcessInv'
  BY <1>5, GetCounts, ReplyCounts, ScanCounts DEF ProcessSteps
<1>6. ASSUME NEW u \in UnitNos, HandlePacket(u) \/ RequestInterrupt(u)
      PROVE  ProcessInv'
  <2>1. UNCHANGED <<process, status>>
    BY <1>6 DEF HandlePacket, RequestInterrupt, ThreadOnly, processVars
  <2> QED  BY <1>1, <2>1
<1>7. ASSUME NEW u \in UnitNos, MarkPacket(u) PROVE ProcessInv'
  <2>1. /\ status' = [status EXCEPT ![thread[u].packet] = "done"]
        /\ UNCHANGED process
    BY <1>7 DEF MarkPacket, ThreadOnly, processVars
  <2>2. status[thread[u].packet] = "started"
    BY <1>7 DEF MarkPacket, PacketInv, WithThread
  <2> QED  BY <1>1, <1>2, <2>1, <2>2
<1>8. CASE \/ UNCHANGED vars
           \/ \E w \in Writers : HostSteps(w) /\ UNCHANGED OtherVars
  <2>1. UNCHANGED <<process, status>>
    BY <1>8 DEF vars, OtherVars, processVars, threadVars
  <2> QED  BY <1>1, <2>1
<1> QED  BY <1>3, <1>4, <1>5, <1>6, <1>7, <1>8 DEF Next, ThreadSteps

\* The variables keep their types: what the process counts never leaves its
\* range, and what the trap has read are words.
THEOREM TypeCorrect == Spec => []TypeOK
<1> DEFINE Inv == /\ PipeInv /\ OneCaller /\ CallsKnown /\ StreamInv
                  /\ DummyInv /\ PacketInv
                  /\ HelperTypes /\ CountersOrdered /\ ProcessInv
<1>1. Inv => TypeOK
  <2> SUFFICES ASSUME Inv PROVE TypeOK  OBVIOUS
  <2>1. N2ATypeOK
    <3>1. ASSUME NEW w \in Writers
          PROVE  call[w] \in [msg : Message \cup {NoMessage}, part : 0 .. 4,
                              asked : BOOLEAN]
      <4>1. call[w] \in CallType  BY DEF CallsKnown
      <4>2. CASE Calling(w)
        <5>1. /\ call[w].msg \in Message
              /\ call[w].part \in 0 .. Length[call[w].msg]
              /\ Length[call[w].msg] \in 2 .. 4
          BY <4>2, MessageAssumption DEF CallsKnown
        <5>2. call[w].part \in 0 .. 4  BY <5>1, SMT
        <5> QED  BY <4>1, <5>1, <5>2 DEF CallType
      <4>3. CASE ~Calling(w)
        <5>1. NoCall \in [msg : Message \cup {NoMessage}, part : 0 .. 4,
                          asked : BOOLEAN]
          BY SMT DEF NoCall
        <5> QED  BY <4>3, <5>1 DEF Calling
      <4> QED  BY <4>2, <4>3
    <3>2. call \in [Writers -> [msg : Message \cup {NoMessage}, part : 0 .. 4,
                                asked : BOOLEAN]]
      BY <3>1 DEF CallsKnown
    <3>3. calls \in 0 .. MaxCalls  BY DEF StreamInv, LatestCall
    <3>4. PipeTypeOK /\ n2asem \in {0, 1} /\ uae_int_requested \in BOOLEAN
      BY DEF PipeInv, OneCaller, HelperTypes
    <3> QED  BY <3>2, <3>3, <3>4 DEF N2ATypeOK
  <2>2. \A k \in DOMAIN parts : parts[k] \in Word
    <3>1. parts \in Seq(Word)  BY DEF StreamInv, ReadSoFar
    <3> QED  BY <3>1, LenProperties, ElementOfSeq
  <2>3. ASSUME NEW u \in UnitNos
        PROVE  /\ process[u].started \in 0 .. MaxStarted
               /\ process[u].at \in 1 .. Len(process[u].queue) + 1
               /\ thread[u].packet \in Packet \cup {NoPacket}
    <3>1. process[u] \in ProcessType  BY DEF DummyInv, DummyTypes
    <3>2. QueueCounted(u)  BY DEF ProcessInv
    <3>3. Cardinality(Given(u)) \in Nat  BY PacketsFinite DEF Given
    <3>4. process[u].started \in 0 .. MaxStarted
      BY <3>2, <3>3, UnitAssumption, SMT DEF QueueCounted
    <3>5. process[u].at \in Nat \ {0} /\ Len(process[u].queue) \in Nat
      BY <3>1, LenProperties DEF ProcessType
    <3>6. process[u].at \in 1 .. Len(process[u].queue) + 1
      BY <3>2, <3>5, SMT DEF QueueCounted
    <3>7. thread[u].packet \in Packet \cup {NoPacket}
      BY DEF PacketInv, PacketTypes
    <3> QED  BY <3>4, <3>6, <3>7
  <2>4. HelperTypes /\ CountersOrdered  OBVIOUS
  <2> QED  BY <2>1, <2>2, <2>3, <2>4 DEF TypeOK, HelperTypes, CountersOrdered
<1>2. Spec => []PipeInv  BY UsesPipe, PipeInductive, PTL
<1> QED
  BY <1>1, <1>2, CallsApart, StreamOrdered, InitDummyInv, NextDummyInv,
     InitPacketInv, NextPacketInv, InitHelperTypes, NextHelperTypes,
     InitCountersOrdered, NextCountersOrdered, InitProcessInv, NextProcessInv,
     PTL
  DEF Spec

-----------------------------------------------------------------------------
(* Nothing is forgotten: what waits for the task has woken it, or will.    *)

\* The task is signalled, or an interrupt that will signal it is asked for.
Wakes == uae_int_requested \/ signalled

\* The task is going to look at the pipe again before it sleeps.
AtWork == exter \in {"look", "read", "exec", "put"}

\* Words in the pipe are going to be read: the task is awake or being woken, or
\* the host thread that writes them has yet to ask for the interrupt.
CallsHeard ==
    comm_pipe_has_data =>
        Wakes \/ AtWork \/ \E w \in Writers : Calling(w) /\ ~call[w].asked

\* The interrupt is asked for when all words have been written.
AskedLast ==
    \A w \in Writers :
        Calling(w) /\ call[w].asked =>
            wpc[w] = "idle" /\ call[w].part = Length[call[w].msg]

\* The pipe is empty.
LEMMA InitCallsHeard == Init => CallsHeard /\ AskedLast
  BY DEF Init, N2AInit, PipeInit, CallsHeard, AskedLast, comm_pipe_has_data,
         Calling

\* A step of a host thread: what it writes is announced afterwards.
LEMMA HostCallsHeard ==
    ASSUME OneCaller, CallsKnown, CallsHeard, AskedLast, PipeTypeOK,
           NEW w \in Writers, HostSteps(w), UNCHANGED OtherVars
    PROVE  CallsHeard' /\ AskedLast'
<1>1. UNCHANGED <<exter, signalled>> /\ (uae_int_requested => uae_int_requested')
  BY DEF OtherVars, exterVars, HostSteps, CallSteps, BeginCall, WriteWord,
         do_uae_int_requested, EndCall, n2aVars
<1>2. AtWork' <=> AtWork  BY <1>1 DEF AtWork
<1>3. Wakes => Wakes'  BY <1>1 DEF Wakes
<1>4. call \in [Writers -> CallType] /\ wpc \in [Writers -> WriterPc]
  BY DEF CallsKnown
<1>5. CASE BeginCall(w)
  <2>1. /\ call' = [call EXCEPT ![w] = [NoCall EXCEPT !.msg = calls']]
        /\ ~Calling(w) /\ n2asem = 1
        /\ UNCHANGED <<rdp, wrp, wpc>> /\ calls' = calls + 1 /\ calls < MaxCalls
    BY <1>5 DEF BeginCall, pipeVars, ring
  <2>2. call'[w].asked = FALSE /\ call'[w].msg = calls'
    BY <1>4, <2>1 DEF NoCall
  <2>3. \A v \in Writers \ {w} : call'[v] = call[v]  BY <1>4, <2>1
  <2>4. \A v \in Writers : ~Calling(v)  BY <2>1 DEF OneCaller
  <2>5. \A v \in Writers \ {w} : ~Calling(v)'  BY <2>3, <2>4 DEF Calling
  <2>6. CallsHeard'
    BY <1>2, <1>3, <2>1, <2>4 DEF CallsHeard, comm_pipe_has_data
  <2>7. AskedLast'  BY <2>2, <2>5 DEF AskedLast
  <2> QED  BY <2>6, <2>7
<1>6. CASE do_uae_int_requested(w)
  <2>1. /\ uae_int_requested' = TRUE /\ Written(w)
        /\ call' = [call EXCEPT ![w].asked = TRUE] /\ wpc' = wpc
    BY <1>6 DEF do_uae_int_requested, pipeVars
  <2>2. CallsHeard'  BY <2>1 DEF CallsHeard, Wakes
  <2>3. /\ call'[w].part = call[w].part /\ call'[w].msg = call[w].msg
        /\ \A v \in Writers \ {w} : call'[v] = call[v]
    BY <1>4, <2>1 DEF CallType
  <2>4. AskedLast'  BY <2>1, <2>3 DEF AskedLast, Calling, Written
  <2> QED  BY <2>2, <2>4
<1>7. CASE EndCall(w)
  <2>1. /\ call' = [call EXCEPT ![w] = NoCall] /\ Calling(w) /\ call[w].asked
        /\ UNCHANGED <<rdp, wrp, wpc>>
    BY <1>7 DEF EndCall, Written, pipeVars, ring
  <2>2. \A v \in Writers : Calling(v) => v = w  BY <2>1 DEF OneCaller
  <2>3. \A v \in Writers : ~Calling(v)'  BY <1>4, <2>1, <2>2 DEF Calling
  <2>4. CallsHeard'
    BY <1>2, <1>3, <2>1, <2>2 DEF CallsHeard, comm_pipe_has_data
  <2>5. AskedLast'  BY <2>3 DEF AskedLast
  <2> QED  BY <2>4, <2>5
<1>8. CASE \/ WriteWord(w)
           \/ WriteSteps(w) /\ UNCHANGED n2aVars
  <2>1. Calling(w) /\ ~call[w].asked
    <3>1. CASE WriteWord(w)  BY <3>1 DEF WriteWord, Written, AskedLast
    <3>2. CASE WriteSteps(w)
      <4>1. wpc[w] # "idle"
        BY <3>2 DEF WriteSteps, FindFull, FindRoom, WriterWakes,
                    WriterRelocks, SetIndex, EndWrite
      <4> QED  BY <4>1 DEF OneCaller, AskedLast
    <3> QED  BY <1>8, <3>1, <3>2
  <2>2. /\ call'[w].asked = call[w].asked /\ Calling(w)'
        /\ \A v \in Writers \ {w} : call'[v] = call[v]
    <3>1. CASE WriteWord(w)
      <4>1. call' = [call EXCEPT ![w].part = call[w].part + 1]
        BY <3>1 DEF WriteWord
      <4>2. /\ call'[w].asked = call[w].asked /\ call'[w].msg = call[w].msg
            /\ \A v \in Writers \ {w} : call'[v] = call[v]
        BY <1>4, <4>1 DEF CallType
      <4>3. call[w].msg \in Message  BY <2>1 DEF CallsKnown
      <4> QED  BY <4>2, <4>3, NoCallIs DEF Calling
    <3>2. CASE UNCHANGED n2aVars  BY <2>1, <3>2 DEF n2aVars, Calling
    <3> QED  BY <1>8, <3>1, <3>2
  <2>3. CallsHeard'
    <3>1. ~call'[w].asked  BY <2>1, <2>2
    <3> QED  BY <2>2, <3>1 DEF CallsHeard
  <2>4. \A v \in Writers : Calling(v) => v = w  BY <2>1 DEF OneCaller
  <2>5. AskedLast'  BY <2>1, <2>2, <2>4 DEF AskedLast, Calling
  <2> QED  BY <2>3, <2>5
<1> QED  BY <1>5, <1>6, <1>7, <1>8 DEF HostSteps, CallSteps

\* The task only sleeps when it has found the pipe empty after it was woken.
LEMMA NextCallsHeard ==
    ASSUME OneCaller, CallsKnown, CallsHeard, AskedLast, PipeTypeOK,
           [Next]_vars
    PROVE  CallsHeard' /\ AskedLast'
<1>1. ASSUME NEW w \in Writers, HostSteps(w) /\ UNCHANGED OtherVars
      PROVE  CallsHeard' /\ AskedLast'
  <2>1. HostSteps(w) /\ UNCHANGED OtherVars  BY <1>1
  <2> QED  BY <2>1, HostCallsHeard
<1> USE DEF exterVars
<1>2. ASSUME UNCHANGED <<call, wpc>>, (Wakes \/ AtWork => Wakes' \/ AtWork')
                                      \/ ~comm_pipe_has_data,
             AtWork' \/ UNCHANGED <<rdp, wrp>>
      PROVE  CallsHeard' /\ AskedLast'
  <2>1. AskedLast'  BY <1>2 DEF AskedLast, Calling
  <2>2. CallsHeard'
    BY <1>2 DEF CallsHeard, comm_pipe_has_data, Calling
  <2> QED  BY <2>1, <2>2
<1>3. CASE Interrupt
  BY <1>2, <1>3 DEF Interrupt, Wakes, pipeVars, ring
<1>4. CASE TaskWakes \/ ReadWords \/ CallExec \/ ExecReturns \/ AckUnit \/ PutDummy
  <2>1. UNCHANGED call /\ exter' \in {"look", "read", "exec", "put"}
    BY <1>4 DEF TaskWakes, ReadWords, CallExec, ExecReturns, AckUnit, PutDummy,
                n2aVars
  <2>2. UNCHANGED wpc
    <3>1. CASE ReadWords
      BY <3>1 DEF ReadWords, FindEmpty, ReaderWakes, EndRead
    <3>2. CASE TaskWakes \/ CallExec \/ ExecReturns \/ AckUnit \/ PutDummy
      BY <3>2 DEF TaskWakes, CallExec, ExecReturns, AckUnit, PutDummy, pipeVars
    <3> QED  BY <1>4, <3>1, <3>2
  <2> QED  BY <1>2, <2>1, <2>2 DEF AtWork
<1>5. CASE NoCalls
  BY <1>2, <1>5 DEF NoCalls, pipeVars, ring, n2aVars
<1>6. CASE SkipUnit \/ LeaveHelper
  <2>1. /\ UNCHANGED <<call, wpc, rdp, wrp, uae_int_requested, signalled>>
        /\ exter = "units"
    BY <1>6 DEF SkipUnit, LeaveHelper, pipeVars, ring, n2aVars
  <2>2. ~AtWork /\ (Wakes => Wakes')  BY <2>1 DEF AtWork, Wakes
  <2> QED  BY <1>2, <2>1, <2>2
<1>7. ASSUME UNCHANGED <<pipeVars, call, exter, signalled>>,
             uae_int_requested => uae_int_requested'
      PROVE  CallsHeard' /\ AskedLast'
  <2>1. Wakes \/ AtWork => Wakes' \/ AtWork'  BY <1>7 DEF Wakes, AtWork
  <2> QED  BY <1>2, <1>7, <2>1 DEF pipeVars, ring
<1>8. ASSUME NEW p \in Packet, SendPacket(p) PROVE CallsHeard' /\ AskedLast'
  BY <1>7, <1>8 DEF SendPacket, n2aVars
<1>9. ASSUME NEW u \in UnitNos, ProcessSteps(u) PROVE CallsHeard' /\ AskedLast'
  BY <1>7, <1>9 DEF ProcessSteps, StartPacket, PutOffPacket, GetDummy,
                    MessageLock, ScanReply, ScanPast, ScanEnd, ProcessOnly,
                    n2aVars
<1>10. ASSUME NEW u \in UnitNos, ThreadSteps(u) PROVE CallsHeard' /\ AskedLast'
  BY <1>7, <1>10 DEF ThreadSteps, HandlePacket, MarkPacket, RequestInterrupt,
                     ThreadOnly
<1>11. CASE UNCHANGED vars  BY <1>7, <1>11 DEF vars, n2aVars
<1> QED  BY <1>1, <1>3, <1>4, <1>5, <1>6, <1>8, <1>9, <1>10, <1>11
         DEF Next, ExterSteps

\* No call is left in the pipe with the task asleep and nobody to wake it: the
\* request bit is set after the words are written and the helper looks at the
\* pipe after the bit is cleared.
THEOREM NoCallForgotten == Spec => []CallsHeard
<1>1. Spec => []PipeInv  BY UsesPipe, PipeInductive, PTL
<1>2. PipeInv => PipeTypeOK  BY DEF PipeInv
<1>3. OneCaller /\ CallsKnown /\ CallsHeard /\ AskedLast /\ PipeTypeOK /\ [Next]_vars
          => CallsHeard' /\ AskedLast'
  BY NextCallsHeard
<1> QED  BY <1>1, <1>2, <1>3, InitCallsHeard, CallsApart, PTL DEF Spec

\* The dummy message of a unit is on its way to the process, which has not yet
\* begun to run through its queue.
DummyOut(u) == Dummies(u) # {} \/ PutsDummy(u) \/ process[u].pc = "lock"

\* The task is going to look at a unit before it sleeps.
Visits(u) == (AtWork \/ exter = "units") /\ unit_no <= u

\* There are packets to be announced and the task will be told.
Sought(u) ==
    /\ cmds_acked[u] # cmds_sent[u]
    /\ thread[u].pc = "request" \/ Wakes \/ Visits(u)

\* All that are marked done are still to be met by the process.
Scanned(u) ==
    \A k \in DOMAIN process[u].queue :
        status[process[u].queue[k]] = "done" =>
            process[u].pc = "scan" /\ process[u].at <= k

\* A packet that is marked done is going to be seen: by the scan of its
\* process, or because the dummy message is out, or because it will be.
PacketsHeard == \A u \in UnitNos : DummyOut(u) \/ Sought(u) \/ Scanned(u)

\* It never fails as long as no packet is announced before it is marked.
HeardUnlessAckedUnmarked == [](~AckedUnmarked) => []PacketsHeard

\* Of one unit.
HeardOf(u) ==
    /\ DummyOut(u) \/ Sought(u) \/ Scanned(u)
    /\ cmds_complete[u] # cmds_acked[u] => DummyOut(u)

\* What is needed of the rest of the system.
HeardBase == DummyInv /\ PacketInv /\ HelperTypes /\ CountersOrdered

\* No packet is in a queue.
LEMMA InitHeard == Init => \A u \in UnitNos : HeardOf(u)
<1> SUFFICES ASSUME Init, NEW u \in UnitNos PROVE HeardOf(u)  OBVIOUS
<1>1. process[u].queue = << >> /\ DOMAIN << >> = {}  BY EmptySeq DEF Init
<1>2. Scanned(u)  BY <1>1 DEF Scanned
<1>3. cmds_complete[u] = cmds_acked[u]  BY DEF Init
<1> QED  BY <1>2, <1>3 DEF HeardOf

\* A step that leaves the process of a unit and its counters alone.
LEMMA HeardStays ==
    ASSUME NEW u \in UnitNos, HeardOf(u), process'[u] = process[u],
           cmds_complete'[u] = cmds_complete[u],
           cmds_acked'[u] = cmds_acked[u], cmds_sent'[u] = cmds_sent[u],
           Dummies(u) # {} => Dummies(u)' # {},
           PutsDummy(u) => PutsDummy(u)' \/ Dummies(u)' # {},
           thread[u].pc = "request" \/ Wakes \/ Visits(u) =>
               \/ thread'[u].pc = "request" \/ Wakes' \/ Visits(u)'
               \/ ~Sought(u),
           \A p \in Packet : status'[p] = "done" => status[p] = "done",
           \A k \in DOMAIN process[u].queue : process[u].queue[k] \in Packet
    PROVE  HeardOf(u)'
<1>1. DummyOut(u) => DummyOut(u)'  BY DEF DummyOut
<1>2. Sought(u) => Sought(u)'  BY DEF Sought
<1>3. Scanned(u) => Scanned(u)'  BY DEF Scanned
<1> QED  BY <1>1, <1>2, <1>3 DEF HeardOf

\* The packets in a queue are packets.
LEMMA QueueHas ==
    ASSUME DummyInv, NEW u \in UnitNos
    PROVE  /\ process[u].queue \in Seq(Packet) /\ process[u] \in ProcessType
           /\ \A k \in DOMAIN process[u].queue : process[u].queue[k] \in Packet
           /\ u \in Nat /\ u < Units
<1>1. process[u] \in ProcessType  BY DEF DummyInv, DummyTypes
<1>2. process[u].queue \in Seq(Packet)  BY <1>1 DEF ProcessType
<1>3. \A k \in DOMAIN process[u].queue : process[u].queue[k] \in Packet
  BY <1>2, LenProperties, ElementOfSeq
<1>4. u \in Nat /\ u < Units  BY UnitAssumption, SMT DEF UnitNos
<1> QED  BY <1>1, <1>2, <1>3, <1>4

\* The task goes past a unit only when it has put the dummy message or when
\* that message is out.
LEMMA ExterHeard ==
    ASSUME HeardBase, Interrupt \/ ExterSteps, NEW u \in UnitNos, HeardOf(u)
    PROVE  HeardOf(u)'
<1> USE DEF processVars, exterVars, threadVars, HeardBase
<1>1. /\ u \in Nat /\ u < Units /\ unit_no \in Nat
      /\ \A k \in DOMAIN process[u].queue : process[u].queue[k] \in Packet
  BY QueueHas DEF DummyInv, DummyTypes
<1>2. UNCHANGED <<process, status, thread, cmds_sent, cmds_complete>>
  BY DEF Interrupt, ExterSteps, TaskWakes, ReadWords, CallExec, ExecReturns,
         NoCalls, SkipUnit, AckUnit, PutDummy, LeaveHelper, cmds
<1>3. ASSUME UNCHANGED <<port, cmds_acked>>, PutsDummy(u) => PutsDummy(u)',
             Wakes \/ Visits(u) => Wakes' \/ Visits(u)' \/ ~Sought(u)
      PROVE  HeardOf(u)'
  <2>1. Dummies(u)' = Dummies(u)  BY <1>3 DEF Dummies
  <2> QED  BY <1>1, <1>2, <1>3, <2>1, HeardStays
<1>4. CASE Interrupt
  <2>1. /\ UNCHANGED <<port, cmds_acked, exter, unit_no>> /\ signalled'
    BY <1>4 DEF Interrupt, cmds
  <2> QED  BY <1>3, <2>1 DEF PutsDummy, Wakes
<1>5. CASE TaskWakes
  <2>1. /\ UNCHANGED <<port, cmds_acked>> /\ exter = "wait" /\ exter' = "look"
        /\ unit_no' = 0
    BY <1>5 DEF TaskWakes, cmds
  <2>2. 0 <= u  BY <1>1, SMT
  <2>3. Visits(u)'  BY <2>1, <2>2 DEF Visits, AtWork
  <2> QED  BY <1>3, <2>1, <2>3 DEF PutsDummy
<1>6. CASE ReadWords \/ CallExec \/ ExecReturns \/ NoCalls
  <2>1. /\ UNCHANGED <<port, cmds_acked, unit_no, signalled, uae_int_requested>>
        /\ exter # "put" /\ exter' \in {"look", "read", "exec", "units"}
    BY <1>6 DEF ReadWords, CallExec, ExecReturns, NoCalls, cmds, n2aVars
  <2>2. Wakes' <=> Wakes  BY <2>1 DEF Wakes
  <2>3. Visits(u) => Visits(u)'  BY <2>1 DEF Visits, AtWork
  <2> QED  BY <1>3, <2>1, <2>2, <2>3 DEF PutsDummy
<1>7. CASE LeaveHelper
  <2>1. /\ UNCHANGED <<port, cmds_acked, unit_no, signalled, uae_int_requested>>
        /\ exter = "units" /\ unit_no = Units
    BY <1>7 DEF LeaveHelper, cmds, n2aVars
  <2>2. Wakes' <=> Wakes  BY <2>1 DEF Wakes
  <2>3. ~(Units <= u)  BY <1>1, UnitAssumption, SMT
  <2>4. ~Visits(u)  BY <2>1, <2>3 DEF Visits
  <2> QED  BY <1>3, <2>1, <2>2, <2>4 DEF PutsDummy
<1>8. CASE SkipUnit
  <2>1. /\ UNCHANGED <<port, cmds_acked, exter, signalled, uae_int_requested>>
        /\ exter = "units" /\ unit_no' = unit_no + 1 /\ ~HasDone(unit_no)
    BY <1>8 DEF SkipUnit, cmds, n2aVars
  <2>2. Wakes' <=> Wakes  BY <2>1 DEF Wakes
  <2>3. CASE u = unit_no
    <3>1. \/ cmds_acked[u] # cmds_complete[u]
          \/ cmds_acked[u] = cmds_sent[u]
      BY <2>1, <2>3 DEF HasDone
    <3>2. CASE cmds_acked[u] # cmds_complete[u]
      <4>1. DummyOut(u)  BY <3>2 DEF HeardOf
      <4>2. Dummies(u)' = Dummies(u)  BY <2>1 DEF Dummies
      <4>3. DummyOut(u)'  BY <1>2, <2>1, <4>1, <4>2 DEF DummyOut, PutsDummy
      <4> QED  BY <4>3 DEF HeardOf
    <3>3. CASE cmds_acked[u] = cmds_sent[u]
      BY <1>3, <2>1, <3>3 DEF PutsDummy, Sought
    <3> QED  BY <3>1, <3>2, <3>3
  <2>4. CASE u # unit_no
    <3>1. unit_no <= u => unit_no + 1 <= u  BY <1>1, <2>4, SMT
    <3>2. Visits(u) => Visits(u)'  BY <2>1, <3>1 DEF Visits, AtWork
    <3> QED  BY <1>3, <2>1, <2>2, <3>2 DEF PutsDummy
  <2> QED  BY <2>3, <2>4
<1>9. CASE AckUnit
  <2>1. /\ UNCHANGED <<port, signalled, uae_int_requested>>
        /\ exter = "units" /\ exter' = "put" /\ unit_no' = unit_no + 1
        /\ cmds_acked' = [cmds_acked EXCEPT ![unit_no] = cmds_sent[unit_no]]
    BY <1>9 DEF AckUnit, n2aVars
  <2>2. CASE u = unit_no
    <3>1. PutsDummy(u)'  BY <2>1, <2>2 DEF PutsDummy
    <3> QED  BY <3>1 DEF HeardOf, DummyOut
  <2>3. CASE u # unit_no
    <3>1. unit_no <= u => unit_no + 1 <= u  BY <1>1, <2>3, SMT
    <3>2. Visits(u) => Visits(u)'  BY <2>1, <3>1 DEF Visits, AtWork
    <3>3. cmds_acked'[u] = cmds_acked[u]
      BY <2>1, <2>3 DEF DummyInv, DummyTypes
    <3>4. Dummies(u)' = Dummies(u)  BY <2>1 DEF Dummies
    <3>5. ~PutsDummy(u)  BY <2>1 DEF PutsDummy
    <3>6. Wakes' <=> Wakes  BY <2>1 DEF Wakes
    <3> QED  BY <1>1, <1>2, <3>2, <3>3, <3>4, <3>5, <3>6, HeardStays
  <2> QED  BY <2>2, <2>3
<1>10. CASE PutDummy
  <2>1. /\ exter = "put" /\ exter' = "look"
        /\ port' = [port EXCEPT ![unit_no - 1]
                        = Append(port[unit_no - 1], Dummy)]
        /\ UNCHANGED <<cmds_acked, unit_no, signalled, uae_int_requested>>
    BY <1>10 DEF PutDummy, cmds, n2aVars
  <2>2. port \in [UnitNos -> Seq(Packet \cup {Dummy})]
    BY DEF DummyInv, DummyTypes
  <2>3. Visits(u) => Visits(u)'  BY <2>1 DEF Visits, AtWork
  <2>4. Wakes' <=> Wakes  BY <2>1 DEF Wakes
  <2>5. CASE u = unit_no - 1
    <3>1. port'[u] = Append(port[u], Dummy)  BY <2>1, <2>2, <2>5
    <3>2. Dummies(u)' = Dummies(u) \cup {Len(port[u]) + 1}
      BY <2>2, <3>1, AppendDummies DEF Dummies
    <3> QED  BY <3>2 DEF HeardOf, DummyOut
  <2>6. CASE u # unit_no - 1
    <3>1. port'[u] = port[u]  BY <2>1, <2>2, <2>6
    <3>2. Dummies(u)' = Dummies(u)  BY <3>1 DEF Dummies
    <3>3. ~PutsDummy(u)  BY <1>1, <2>1, <2>6, SMT DEF PutsDummy
    <3> QED  BY <1>1, <1>2, <2>1, <2>3, <2>4, <3>2, <3>3, HeardStays
  <2> QED  BY <2>5, <2>6
<1> QED  BY <1>4, <1>5, <1>6, <1>7, <1>8, <1>9, <1>10 DEF ExterSteps

\* A message is put at the end of a port or a packet is taken from its head:
\* the dummy message stays in it.
LEMMA PortKeepsDummy ==
    ASSUME DummyInv, NEW u \in UnitNos, NEW p \in Packet,
           \/ port' = [port EXCEPT ![u] = Append(port[u], p)]
           \/ /\ port[u] # << >> /\ Head(port[u]) = p
              /\ port' = [port EXCEPT ![u] = Tail(port[u])]
    PROVE  \A v \in UnitNos : Dummies(v) # {} => Dummies(v)' # {}
<1>1. port \in [UnitNos -> Seq(Packet \cup {Dummy})]
  BY DEF DummyInv, DummyTypes
<1>2. ASSUME NEW v \in UnitNos, v # u PROVE Dummies(v)' = Dummies(v)
  <2>1. port'[v] = port[v]  BY <1>1, <1>2
  <2> QED  BY <2>1 DEF Dummies
<1>3. ASSUME Dummies(u) # {} PROVE Dummies(u)' # {}
  <2> DEFINE s == port[u]
  <2>1. s \in Seq(Packet \cup {Dummy})  BY <1>1
  <2>2. CASE port' = [port EXCEPT ![u] = Append(s, p)]
    <3>1. port'[u] = Append(s, p)  BY <1>1, <2>2
    <3>2. Dummies(u) \subseteq Dummies(u)'
      BY <2>1, <3>1, AppendDummies DEF Dummies
    <3> QED  BY <1>3, <3>2
  <2>3. CASE s # << >> /\ Head(s) = p /\ port' = [port EXCEPT ![u] = Tail(s)]
    <3>1. port'[u] = Tail(s)  BY <1>1, <2>3
    <3>2. PICK k \in DOMAIN s : s[k] = Dummy  BY <1>3 DEF Dummies
    <3>3. Dummy # p  BY UnitAssumption
    <3> HIDE DEF s
    <3>4. /\ DOMAIN s = 1 .. Len(s) /\ Len(s) \in Nat
          /\ Tail(s) \in Seq(Packet \cup {Dummy}) /\ Len(Tail(s)) = Len(s) - 1
          /\ \A i \in 1 .. Len(Tail(s)) : Tail(s)[i] = s[i + 1]
          /\ Head(s) = s[1]
      BY <2>1, <2>3, HeadTailProperties, LenProperties
    <3>5. k # 1  BY <2>3, <3>2, <3>3, <3>4
    <3> DEFINE j == k - 1
               t == Tail(s)
    <3>6. j \in 1 .. Len(t) /\ j + 1 = k
      BY <3>2, <3>4, <3>5, SMT
    <3>7. DOMAIN t = 1 .. Len(t)  BY <3>4, LenProperties
    <3> HIDE DEF j
    <3>8. t[j] = Dummy  BY <3>2, <3>4, <3>6
    <3>9. j \in Dummies(u)'  BY <3>1, <3>6, <3>7, <3>8 DEF Dummies
    <3> QED  BY <3>9
  <2> QED  BY <2>2, <2>3
<1> QED  BY <1>2, <1>3

\* A packet that is sent is not done, and the port keeps its messages.
LEMMA SendHeard ==
    ASSUME HeardBase, NEW p \in Packet, SendPacket(p),
           NEW u \in UnitNos, HeardOf(u)
    PROVE  HeardOf(u)'
<1>1. /\ status' = [status EXCEPT ![p] = "sent"]
      /\ port' = [port EXCEPT ![UnitOf[p]] = Append(port[UnitOf[p]], p)]
      /\ UNCHANGED <<process, cmds_sent, cmds_acked, cmds_complete, thread,
                     uae_int_requested, signalled, exter, unit_no>>
  BY DEF SendPacket, processVars, cmds, n2aVars, exterVars
<1>2. \A q \in Packet : status'[q] = "done" => status[q] = "done"
  BY <1>1 DEF HeardBase, PacketInv, PacketTypes
<1>3. UnitOf[p] \in UnitNos  BY UnitAssumption DEF UnitNos
<1>4. Dummies(u) # {} => Dummies(u)' # {}
  BY <1>1, <1>3, PortKeepsDummy DEF HeardBase
<1>5. (PutsDummy(u)' <=> PutsDummy(u)) /\ (Wakes' <=> Wakes)
      /\ (Visits(u)' <=> Visits(u))
  BY <1>1 DEF PutsDummy, Wakes, Visits, AtWork
<1>6. \A k \in DOMAIN process[u].queue : process[u].queue[k] \in Packet
  BY QueueHas DEF HeardBase
<1> QED  BY <1>1, <1>2, <1>4, <1>5, <1>6, HeardStays

\* What another process does.
LEMMA OtherProcess ==
    ASSUME HeardBase, NEW v \in UnitNos, ProcessSteps(v),
           NEW u \in UnitNos, u # v, HeardOf(u)
    PROVE  HeardOf(u)'
<1> USE DEF HeardBase
<1>1. /\ process \in [UnitNos -> ProcessType]
      /\ port \in [UnitNos -> Seq(Packet \cup {Dummy})]
      /\ cmds_complete \in [UnitNos -> Nat]
  BY DEF DummyInv, DummyTypes
<1>2. /\ UNCHANGED <<cmds_sent, cmds_acked, thread, uae_int_requested,
                     signalled, exter, unit_no>>
      /\ process'[u] = process[u] /\ port'[u] = port[u]
      /\ cmds_complete'[u] = cmds_complete[u]
  <2>1. UNCHANGED <<cmds_sent, cmds_acked, thread, uae_int_requested,
                    signalled, exter, unit_no>>
    BY DEF ProcessSteps, StartPacket, PutOffPacket, GetDummy, MessageLock,
           ScanReply, ScanPast, ScanEnd, ProcessOnly, cmds, n2aVars, exterVars
  <2>2. cmds_complete'[u] = cmds_complete[u]
    BY <1>1 DEF ProcessSteps, StartPacket, PutOffPacket, GetDummy, MessageLock,
                ScanReply, ScanPast, ScanEnd, cmds
  <2>3. port'[u] = port[u]
    BY <1>1 DEF ProcessSteps, StartPacket, PutOffPacket, GetDummy, MessageLock,
                ScanReply, ScanPast, ScanEnd, Gets
  <2>4. process'[u] = process[u]
    <3>1. ASSUME NEW p \in Packet, StartPacket(v, p) \/ PutOffPacket(v, p)
          PROVE  process'[u] = process[u]
      BY <1>1, <3>1 DEF StartPacket, PutOffPacket, Enqueued
    <3>2. CASE \/ GetDummy(v) \/ MessageLock(v) \/ ScanReply(v) \/ ScanPast(v)
               \/ ScanEnd(v)
      BY <1>1, <3>2 DEF GetDummy, MessageLock, ScanReply, ScanPast, ScanEnd
    <3> QED  BY <3>1, <3>2 DEF ProcessSteps
  <2> QED  BY <2>1, <2>2, <2>3, <2>4
<1>3. \A q \in Packet : status'[q] = "done" => status[q] = "done"
  <2>1. status \in [Packet -> {"unsent", "sent", "unstarted", "started", "done"}]
    BY DEF PacketInv, PacketTypes
  <2>2. \/ UNCHANGED status
        \/ \E p \in Packet, x \in {"started", "unstarted"} :
               status' = [status EXCEPT ![p] = x]
    BY DEF ProcessSteps, StartPacket, PutOffPacket, GetDummy, MessageLock,
           ScanReply, ScanPast, ScanEnd
  <2> QED  BY <2>1, <2>2
<1>4. Dummies(u)' = Dummies(u)  BY <1>2 DEF Dummies
<1>5. (PutsDummy(u)' <=> PutsDummy(u)) /\ (Wakes' <=> Wakes)
      /\ (Visits(u)' <=> Visits(u))
  BY <1>2 DEF PutsDummy, Wakes, Visits, AtWork
<1>6. \A k \in DOMAIN process[u].queue : process[u].queue[k] \in Packet
  BY QueueHas
<1> QED  BY <1>2, <1>3, <1>4, <1>5, <1>6, HeardStays

\* A process that gets a packet is not scanning, so that nothing done was in its
\* queue unless something is under way.
LEMMA GetHeard ==
    ASSUME HeardBase, NEW u \in UnitNos, NEW p \in Packet, HeardOf(u),
           StartPacket(u, p) \/ PutOffPacket(u, p)
    PROVE  HeardOf(u)'
<1> USE DEF HeardBase
<1>1. /\ process \in [UnitNos -> ProcessType]
      /\ status \in [Packet -> {"unsent", "sent", "unstarted", "started", "done"}]
  BY DEF DummyInv, DummyTypes, PacketInv, PacketTypes
<1>2. /\ process[u].pc = "get" /\ port[u] # << >> /\ Head(port[u]) = p
      /\ port' = [port EXCEPT ![u] = Tail(port[u])]
      /\ UNCHANGED <<cmds_sent, cmds_acked, cmds_complete, thread,
                     uae_int_requested, signalled, exter, unit_no>>
      /\ \E x \in {"started", "unstarted"} : status' = [status EXCEPT ![p] = x]
  BY DEF StartPacket, PutOffPacket, Gets, ProcessOnly, cmds, n2aVars, exterVars
<1> DEFINE s == process[u].queue
           q == <<p>> \o s
<1>3. s \in Seq(Packet) /\ \A k \in DOMAIN s : s[k] \in Packet  BY QueueHas
<1> HIDE DEF q
<1>4. process'[u].queue = q /\ process'[u].pc = "get"
  <2>1. Enqueued(u, p) = [process EXCEPT ![u].queue = q]  BY DEF Enqueued, q
  <2>2. CASE StartPacket(u, p)
    BY <1>1, <1>2, <2>1, <2>2 DEF StartPacket, ProcessType
  <2>3. CASE PutOffPacket(u, p)
    BY <1>1, <1>2, <2>1, <2>3 DEF PutOffPacket, ProcessType
  <2> QED  BY <2>2, <2>3
<1>5. (PutsDummy(u)' <=> PutsDummy(u)) /\ (Wakes' <=> Wakes)
      /\ (Visits(u)' <=> Visits(u))
  BY <1>2 DEF PutsDummy, Wakes, Visits, AtWork
<1>6. Dummies(u) # {} => Dummies(u)' # {}  BY <1>2, PortKeepsDummy
<1>7. DummyOut(u) => DummyOut(u)'  BY <1>2, <1>5, <1>6 DEF DummyOut
<1>8. Sought(u) => Sought(u)'  BY <1>2, <1>5 DEF Sought
<1>9. Scanned(u) => Scanned(u)'
  <2> SUFFICES ASSUME Scanned(u), NEW k \in DOMAIN q PROVE status'[q[k]] # "done"
    BY <1>4 DEF Scanned
  <2>1. q[k] = p \/ \E j \in DOMAIN s : s[j] = q[k]
    BY <1>3, PrependHas DEF q
  <2>2. CASE q[k] = p  BY <1>1, <1>2, <2>2
  <2>3. ASSUME NEW j \in DOMAIN s, s[j] = q[k] PROVE status'[q[k]] # "done"
    <3>1. status[s[j]] # "done" /\ s[j] \in Packet
      BY <1>2, <1>3 DEF Scanned
    <3> QED  BY <1>1, <1>2, <2>3, <3>1
  <2> QED  BY <2>1, <2>2, <2>3
<1> QED  BY <1>2, <1>7, <1>8, <1>9 DEF HeardOf

\* The scan begins at the head of the queue and goes past what is not done.
LEMMA ScanHeard ==
    ASSUME HeardBase, NEW u \in UnitNos, HeardOf(u),
           \/ GetDummy(u) \/ MessageLock(u) \/ ScanReply(u) \/ ScanPast(u)
           \/ ScanEnd(u)
    PROVE  HeardOf(u)'
<1> USE DEF HeardBase
<1>1. /\ process \in [UnitNos -> ProcessType]
      /\ cmds_complete \in [UnitNos -> Nat] /\ cmds_acked \in [UnitNos -> Nat]
  BY DEF DummyInv, DummyTypes
<1>2. UNCHANGED <<cmds_sent, cmds_acked, thread, uae_int_requested, signalled,
                  exter, unit_no, status>>
  BY DEF GetDummy, MessageLock, ScanReply, ScanPast, ScanEnd, ProcessOnly,
         n2aVars, exterVars
<1> DEFINE s == process[u].queue
           i == process[u].at
<1>3. /\ s \in Seq(Packet) /\ i \in Nat \ {0}
      /\ DOMAIN s = 1 .. Len(s) /\ Len(s) \in Nat
  BY QueueHas, LenProperties DEF ProcessType
<1>4. (PutsDummy(u)' <=> PutsDummy(u)) /\ (Wakes' <=> Wakes)
      /\ (Visits(u)' <=> Visits(u))
  BY <1>2 DEF PutsDummy, Wakes, Visits, AtWork
<1>5. CASE GetDummy(u)
  <2>1. process' = [process EXCEPT ![u].pc = "lock"]  BY <1>5 DEF GetDummy
  <2>2. process'[u].pc = "lock"  BY <1>1, <2>1 DEF ProcessType
  <2> QED  BY <2>2 DEF HeardOf, DummyOut
<1>6. CASE MessageLock(u)
  <2>1. /\ process' = [process EXCEPT ![u].pc = "scan", ![u].at = 1]
        /\ cmds_complete' = [cmds_complete EXCEPT ![u] = cmds_acked[u]]
    BY <1>6 DEF MessageLock
  <2>2. process'[u].pc = "scan" /\ process'[u].at = 1 /\ process'[u].queue = s
    BY <1>1, <2>1 DEF ProcessType
  <2>3. \A k \in DOMAIN s : 1 <= k  BY <1>3, SMT
  <2>4. Scanned(u)'  BY <2>2, <2>3 DEF Scanned
  <2>5. cmds_complete'[u] = cmds_acked'[u]  BY <1>1, <1>2, <2>1
  <2> QED  BY <2>4, <2>5 DEF HeardOf
<1>7. ASSUME UNCHANGED <<port, cmds_complete>>, process'[u].pc # "lock" =>
                 process[u].pc # "lock", Scanned(u) => Scanned(u)'
      PROVE  HeardOf(u)'
  <2>1. Dummies(u)' = Dummies(u)  BY <1>7 DEF Dummies
  <2>2. DummyOut(u) => DummyOut(u)'  BY <1>4, <1>7, <2>1 DEF DummyOut
  <2>3. Sought(u) => Sought(u)'  BY <1>2, <1>4 DEF Sought
  <2> QED  BY <1>2, <1>7, <2>2, <2>3 DEF HeardOf
<1>8. CASE ScanReply(u)
  <2> DEFINE t == RemoveAt(s, i)
             n == process[u].started - 1
  <2>1. /\ process' = [process EXCEPT ![u].queue = t, ![u].started = n]
        /\ process[u].pc = "scan" /\ i <= Len(s)
        /\ UNCHANGED <<port, cmds_complete>>
    BY <1>8 DEF ScanReply, Scanning
  <2> HIDE DEF t, n
  <2>2. process'[u].queue = t /\ process'[u].pc = "scan" /\ process'[u].at = i
    BY <1>1, <2>1 DEF ProcessType
  <2>3. i \in 1 .. Len(s)
    <3> HIDE DEF s, i
    <3> QED  BY <1>3, <2>1, SMT
  <2>4. /\ t \in Seq(Packet) /\ Len(t) = Len(s) - 1
        /\ \A k \in 1 .. Len(s) - 1 : t[k] = IF k < i THEN s[k] ELSE s[k + 1]
    <3> HIDE DEF s, i
    <3> QED  BY <1>3, <2>3, RemoveAtIs DEF t
  <2>5. DOMAIN t = 1 .. Len(s) - 1  BY <2>4, LenProperties
  <2>6. Scanned(u) => Scanned(u)'
    <3> SUFFICES ASSUME Scanned(u), NEW k \in DOMAIN t, status[t[k]] = "done"
                 PROVE  i <= k
      BY <1>2, <2>2 DEF Scanned
    <3>1. CASE k < i
      <4>1. t[k] = s[k] /\ k \in DOMAIN s
        <5> HIDE DEF s, i
        <5>1. k \in 1 .. Len(s) - 1 /\ k \in 1 .. Len(s)
          BY <1>3, <2>5, SMT
        <5> QED  BY <1>3, <2>4, <3>1, <5>1
      <4> QED  BY <4>1 DEF Scanned
    <3>2. CASE ~(k < i)
      <4> HIDE DEF s, i
      <4>1. k \in Nat /\ i \in Nat  BY <1>3, <2>5, SMT
      <4> QED  BY <3>2, <4>1, SMT
    <3> QED  BY <3>1, <3>2
  <2> QED  BY <1>7, <2>1, <2>2, <2>6
<1>9. CASE ScanPast(u)
  <2>1. /\ process' = [process EXCEPT ![u].at = i + 1]
        /\ process[u].pc = "scan" /\ status[s[i]] # "done"
        /\ UNCHANGED <<port, cmds_complete>>
    BY <1>9 DEF ScanPast, Scanning
  <2>2. process'[u].queue = s /\ process'[u].pc = "scan" /\ process'[u].at = i + 1
    BY <1>1, <2>1 DEF ProcessType
  <2>3. Scanned(u) => Scanned(u)'
    <3> SUFFICES ASSUME Scanned(u), NEW k \in DOMAIN s, status[s[k]] = "done"
                 PROVE  i + 1 <= k
      BY <1>2, <2>2 DEF Scanned
    <3>1. i <= k /\ k # i  BY <2>1 DEF Scanned
    <3> HIDE DEF s, i
    <3> QED  BY <1>3, <3>1, SMT
  <2> QED  BY <1>7, <2>1, <2>2, <2>3
<1>10. CASE ScanEnd(u)
  <2>1. /\ process' = [process EXCEPT ![u].pc = "get", ![u].at = 1]
        /\ process[u].pc = "scan" /\ i > Len(s)
        /\ UNCHANGED <<port, cmds_complete>>
    BY <1>10 DEF ScanEnd
  <2>2. process'[u].queue = s /\ process'[u].pc = "get"
    BY <1>1, <2>1 DEF ProcessType
  <2>3. Scanned(u) => Scanned(u)'
    <3> SUFFICES ASSUME Scanned(u), NEW k \in DOMAIN s, status[s[k]] = "done"
                 PROVE  FALSE
      BY <1>2, <2>2 DEF Scanned
    <3>1. i <= k  BY DEF Scanned
    <3> HIDE DEF s, i
    <3> QED  BY <1>3, <2>1, <3>1, SMT
  <2> QED  BY <1>7, <2>1, <2>2, <2>3
<1> QED  BY <1>5, <1>6, <1>8, <1>9, <1>10

\* A packet is marked after it is counted, and the interrupt asked for after
\* that; that it has not been announced in between is the assumption.
LEMMA ThreadHeard ==
    ASSUME HeardBase, ~AckedUnmarked, NEW v \in UnitNos, ThreadSteps(v),
           NEW u \in UnitNos, HeardOf(u)
    PROVE  HeardOf(u)'
<1> USE DEF HeardBase
<1>1. /\ cmds_acked[u] \in Nat /\ cmds_sent \in [UnitNos -> Nat]
      /\ cmds_acked[u] <= cmds_sent[u]
      /\ thread \in [UnitNos -> [pc : {"read", "mark", "request"},
                                 packet : Packet \cup {NoPacket}]]
      /\ status \in [Packet -> {"unsent", "sent", "unstarted", "started", "done"}]
  BY DEF DummyInv, DummyTypes, CountersOrdered, PacketInv, PacketTypes
<1>2. /\ UNCHANGED <<port, process, cmds_acked, cmds_complete, exter, unit_no,
                     signalled>>
      /\ uae_int_requested => uae_int_requested'
  BY DEF ThreadSteps, HandlePacket, MarkPacket, RequestInterrupt, ThreadOnly,
         exterVars, processVars
<1>3. /\ Dummies(u)' = Dummies(u) /\ (PutsDummy(u)' <=> PutsDummy(u))
      /\ (Visits(u)' <=> Visits(u)) /\ (Wakes => Wakes')
  BY <1>2 DEF Dummies, PutsDummy, Visits, AtWork, Wakes
<1>4. \A k \in DOMAIN process[u].queue : process[u].queue[k] \in Packet
  BY QueueHas
<1>5. DummyOut(u) => DummyOut(u)'  BY <1>2, <1>3 DEF DummyOut
<1>6. CASE HandlePacket(v)
  <2>1. /\ cmds_sent' = [cmds_sent EXCEPT ![v] = cmds_sent[v] + 1]
        /\ status' = status /\ thread[v].pc = "read"
        /\ \A w \in UnitNos \ {v} : thread'[w] = thread[w]
    BY <1>1, <1>6 DEF HandlePacket
  <2>2. Sought(u) => Sought(u)'
    <3>1. CASE u = v
      <4>1. cmds_sent'[u] = cmds_sent[u] + 1  BY <1>1, <2>1, <3>1
      <4>2. cmds_acked[u] # cmds_sent[u] + 1  BY <1>1, SMT
      <4>3. cmds_acked'[u] # cmds_sent'[u]  BY <1>2, <4>1, <4>2
      <4> QED  BY <1>3, <2>1, <3>1, <4>3 DEF Sought
    <3>2. CASE u # v
      <4>1. cmds_sent'[u] = cmds_sent[u] /\ thread'[u] = thread[u]
        BY <1>1, <2>1, <3>2
      <4> QED  BY <1>2, <1>3, <4>1 DEF Sought
    <3> QED  BY <3>1, <3>2
  <2>3. Scanned(u) => Scanned(u)'  BY <1>2, <2>1 DEF Scanned
  <2> QED  BY <1>2, <1>5, <2>2, <2>3 DEF HeardOf
<1>7. CASE MarkPacket(v)
  <2>1. /\ status' = [status EXCEPT ![thread[v].packet] = "done"]
        /\ thread' = [thread EXCEPT ![v].pc = "request"]
        /\ thread[v].pc = "mark" /\ cmds_sent' = cmds_sent
    BY <1>7 DEF MarkPacket
  <2>2. CASE u = v
    <3>1. cmds_acked[u] # cmds_sent[u]  BY <2>1, <2>2 DEF AckedUnmarked
    <3>2. thread'[u].pc = "request"  BY <1>1, <2>1, <2>2
    <3>3. Sought(u)'  BY <1>2, <2>1, <3>1, <3>2 DEF Sought
    <3> QED  BY <1>2, <1>5, <3>3 DEF HeardOf
  <2>3. CASE u # v
    <3>1. thread'[u] = thread[u]  BY <1>1, <2>1, <2>3
    <3>2. Sought(u) => Sought(u)'  BY <1>2, <1>3, <2>1, <3>1 DEF Sought
    <3>3. UnitOf[thread[v].packet] = v
      BY <2>1 DEF PacketInv, WithThread
    <3>4. \A k \in DOMAIN process[u].queue : UnitOf[process[u].queue[k]] = u
      BY DEF PacketInv, InQueue
    <3>5. \A k \in DOMAIN process[u].queue :
              status'[process[u].queue[k]] = status[process[u].queue[k]]
      BY <1>1, <1>4, <2>1, <2>3, <3>3, <3>4
    <3>6. Scanned(u) => Scanned(u)'  BY <1>2, <3>5 DEF Scanned
    <3> QED  BY <1>2, <1>5, <3>2, <3>6 DEF HeardOf
  <2> QED  BY <2>2, <2>3
<1>8. CASE RequestInterrupt(v)
  <2>1. /\ uae_int_requested' = TRUE /\ UNCHANGED <<cmds_sent, status>>
    BY <1>8 DEF RequestInterrupt
  <2>2. Wakes'  BY <2>1 DEF Wakes
  <2>3. Sought(u) => Sought(u)'  BY <1>2, <2>1, <2>2 DEF Sought
  <2>4. Scanned(u) => Scanned(u)'  BY <1>2, <2>1 DEF Scanned
  <2> QED  BY <1>2, <1>5, <2>3, <2>4 DEF HeardOf
<1> QED  BY <1>6, <1>7, <1>8 DEF ThreadSteps

\* What is done is going to be seen.
LEMMA NextHeard ==
    ASSUME HeardBase, ~AckedUnmarked, [Next]_vars,
           \A u \in UnitNos : HeardOf(u)
    PROVE  \A u \in UnitNos : HeardOf(u)'
<1> SUFFICES ASSUME NEW u \in UnitNos PROVE HeardOf(u)'  OBVIOUS
<1>1. HeardOf(u)  OBVIOUS
<1>2. CASE Interrupt \/ ExterSteps  BY <1>1, <1>2, ExterHeard
<1>3. ASSUME NEW p \in Packet, SendPacket(p) PROVE HeardOf(u)'
  BY <1>1, <1>3, SendHeard
<1>4. ASSUME NEW v \in UnitNos, ProcessSteps(v) PROVE HeardOf(u)'
  <2>1. CASE u # v  BY <1>1, <1>4, <2>1, OtherProcess
  <2>2. CASE u = v
    <3>1. ProcessSteps(u)  BY <1>4, <2>2
    <3> QED  BY <1>1, <3>1, GetHeard, ScanHeard DEF ProcessSteps
  <2> QED  BY <2>1, <2>2
<1>5. ASSUME NEW v \in UnitNos, ThreadSteps(v) PROVE HeardOf(u)'
  BY <1>1, <1>5, ThreadHeard
<1>6. ASSUME UNCHANGED <<exterVars, cmds, port, processVars, threadVars>>,
             uae_int_requested => uae_int_requested'
      PROVE  HeardOf(u)'
  <2>1. UNCHANGED <<port, process, status, thread, cmds_acked, cmds_sent,
                    cmds_complete, exter, unit_no, signalled>>
    BY <1>6 DEF exterVars, cmds, processVars, threadVars
  <2>2. /\ Dummies(u)' = Dummies(u) /\ (PutsDummy(u)' <=> PutsDummy(u))
        /\ (Visits(u)' <=> Visits(u)) /\ (Wakes => Wakes')
    BY <1>6, <2>1 DEF Dummies, PutsDummy, Visits, AtWork, Wakes
  <2>3. \A k \in DOMAIN process[u].queue : process[u].queue[k] \in Packet
    BY QueueHas DEF HeardBase
  <2> QED  BY <1>1, <2>1, <2>2, <2>3, HeardStays
<1>7. ASSUME NEW w \in Writers, HostSteps(w), UNCHANGED OtherVars
      PROVE  HeardOf(u)'
  <2>1. uae_int_requested => uae_int_requested'
    BY <1>7 DEF HostSteps, CallSteps, BeginCall, WriteWord,
                do_uae_int_requested, EndCall, n2aVars
  <2> QED  BY <1>6, <1>7, <2>1 DEF OtherVars
<1>8. CASE UNCHANGED vars  BY <1>6, <1>8 DEF vars, n2aVars
<1> QED  BY <1>2, <1>3, <1>4, <1>5, <1>7, <1>8 DEF Next

\* As long as no packet is announced before it is marked, none that is done
\* is left in a queue with nothing under way that makes its process look at it,
\* although one dummy message and one bit stand for any number of packets.
THEOREM NoPacketForgotten == Spec => HeardUnlessAckedUnmarked
<1> DEFINE H == \A u \in UnitNos : HeardOf(u)
<1>1. H => PacketsHeard  BY DEF HeardOf, PacketsHeard
<1>2. Init => H  BY InitHeard
<1>3. HeardBase /\ ~AckedUnmarked /\ [Next]_vars /\ H => H'  BY NextHeard
<1>4. Spec => []HeardBase
  BY InitDummyInv, NextDummyInv, InitPacketInv, NextPacketInv,
     InitHelperTypes, NextHelperTypes, InitCountersOrdered,
     NextCountersOrdered, PTL
  DEF Spec, HeardBase
<1> HIDE DEF H
<1> QED  BY <1>1, <1>2, <1>3, <1>4, PTL DEF Spec, HeardUnlessAckedUnmarked
=============================================================================
