--------------------------- MODULE ExterInterrupt ---------------------------
(***************************************************************************)
(* The way from the host threads to AmigaOS: the EXTER interrupt, the task *)
(* it signals, the trap exter_int_helper with which that task fetches work *)
(* (src/core/filesys.cpp, filesys.asm), and the threads of the host file   *)
(* systems, which use it to have finished packets replied to.              *)
(*                                                                         *)
(* Work is a call that a host thread left in native2amiga_pending, or a    *)
(* file system unit with finished packets, whose process is then sent the  *)
(* one dummy message of the unit.  The counters cmds_sent, cmds_acked and  *)
(* cmds_complete tell whether there are such packets and whether the dummy *)
(* message is out.  The process runs through its queue of packets when it  *)
(* gets the dummy message and replies to those that are marked done.       *)
(*                                                                         *)
(* A trap keeps the 68k, and with it all tasks, from running.  Packets     *)
(* that wait for a record lock, lock blocks and resets are left out.       *)
(***************************************************************************)
EXTENDS Native2Amiga, SequencesExt

CONSTANTS
    Units,        \* number of file systems
    MaxPackets,   \* bound: DOS packets, numbered in the order they are sent
    UnitOf,       \* the file system each is sent to
    MaxStarted,   \* packets a process hands over at a time (20)
    Dummy         \* dummy_message

Packet   == 1 .. MaxPackets
NoPacket == 0

ASSUME UnitAssumption ==
    /\ Units \in Nat /\ MaxStarted \in Nat \ {0}
    /\ UnitOf \in [Packet -> 0 .. Units - 1]
    /\ MaxPackets \in Nat /\ Dummy \notin Packet

VARIABLES
    exter, signalled,   \* exter_task and its signal
    singlethread_int_sem,
    unit_no,            \* static variable of exter_int_helper
    parts,              \* the words of a call it has read
    cmds_sent, cmds_acked, cmds_complete,   \* of each unit
    port,               \* the message port of each unit's process
    process,            \* the process: where it is and its queue
    status,             \* of each packet, at offset 4 of its message
    unit_pipe,          \* packets handed to the thread of each unit
    thread,             \* where that thread is, and its packet
    replied             \* packets that have been replied to

exterVars   == <<exter, signalled, singlethread_int_sem, unit_no, parts>>
cmds        == <<cmds_sent, cmds_acked, cmds_complete>>
processVars == <<process, replied>>
threadVars  == <<status, unit_pipe, thread>>
vars == <<pipeVars, n2aVars, exterVars, cmds, port, processVars, threadVars>>

UnitNos == 0 .. Units - 1

Init ==
    /\ N2AInit
    /\ exter = "wait" /\ signalled = FALSE
    /\ singlethread_int_sem = 1
    /\ unit_no = 0 /\ parts = << >>
    /\ cmds_sent = [u \in UnitNos |-> 0]
    /\ cmds_acked = cmds_sent /\ cmds_complete = cmds_sent
    /\ port = [u \in UnitNos |-> << >>]
    /\ process = [u \in UnitNos |->
                     [pc |-> "get", queue |-> << >>, at |-> 1, started |-> 0]]
    /\ status = [p \in Packet |-> "unsent"]
    /\ unit_pipe = [u \in UnitNos |-> << >>]
    /\ thread = [u \in UnitNos |-> [pc |-> "read", packet |-> NoPacket]]
    /\ replied = {}

\* The 68k is in exter_int_helper.
InTrap == exter \in {"look", "read", "units"}

-----------------------------------------------------------------------------
(* The interrupt and the task.                                             *)

\* exter_server_new: reading the request bit clears it.
Interrupt ==
    /\ ~InTrap /\ uae_int_requested
    /\ uae_int_requested' = FALSE
    /\ signalled' = TRUE
    /\ UNCHANGED <<pipeVars, n2asem, call, calls, exter,
                   singlethread_int_sem, unit_no, parts, cmds, port,
                   processVars, threadVars>>

\* exter_task wakes and calls exter_int_helper with n = 10.  There is one such
\* task, so the semaphore is free.
TaskWakes ==
    /\ exter = "wait" /\ signalled
    /\ singlethread_int_sem = 1
    /\ signalled' = FALSE
    /\ singlethread_int_sem' = 0
    /\ unit_no' = 0
    /\ exter' = "look"
    /\ UNCHANGED <<pipeVars, n2aVars, parts, cmds, port, processVars,
                   threadVars>>

\* Words are read: the first of a call if there is one at all, and then the
\* others of that call.  A word that has been read is kept.
ReadWords ==
    /\ \/ exter = "look" /\ comm_pipe_has_data
       \/ /\ exter = "read"
          /\ parts = << >> \/ Len(parts) < Length[parts[1][1]]
    /\ \/ (FindEmpty \/ ReaderWakes) /\ UNCHANGED parts
       \/ EndRead /\ parts' = Append(parts, data[rdp])
    /\ exter' = "read"
    /\ UNCHANGED <<n2aVars, signalled, singlethread_int_sem, unit_no, cmds,
                   port, processVars, threadVars>>

\* The call is complete: the trap returns and the task calls Exec.
CallExec ==
    /\ exter = "read"
    /\ parts # << >> /\ Len(parts) = Length[parts[1][1]]
    /\ exter' = "exec"
    /\ UNCHANGED <<pipeVars, n2aVars, signalled, singlethread_int_sem,
                   unit_no, parts, cmds, port, processVars, threadVars>>

\* After Signal, ReplyMsg, ... the task calls the helper with n = 11.
ExecReturns ==
    /\ exter = "exec"
    /\ parts' = << >>
    /\ exter' = "look"
    /\ UNCHANGED <<pipeVars, n2aVars, signalled, singlethread_int_sem,
                   unit_no, cmds, port, processVars, threadVars>>

\* No calls (left): the units are looked at.
NoCalls ==
    /\ exter = "look" /\ ~comm_pipe_has_data
    /\ exter' = "units"
    /\ UNCHANGED <<pipeVars, n2aVars, signalled, singlethread_int_sem,
                   unit_no, parts, cmds, port, processVars, threadVars>>

\* Mutant: a dummy message that is still out is not minded.
MutHasDone(u) == cmds_acked[u] # cmds_sent[u]

\* The unit has finished packets and its dummy message is back.
HasDone(u) == /\ cmds_acked[u] = cmds_complete[u]
              /\ cmds_acked[u] # cmds_sent[u]

SkipUnit ==
    /\ exter = "units" /\ unit_no < Units /\ ~HasDone(unit_no)
    /\ unit_no' = unit_no + 1
    /\ UNCHANGED <<pipeVars, n2aVars, exter, signalled, singlethread_int_sem,
                   parts, cmds, port, processVars, threadVars>>

AckUnit ==
    /\ exter = "units" /\ unit_no < Units /\ HasDone(unit_no)
    /\ cmds_acked' = [cmds_acked EXCEPT ![unit_no] = cmds_sent[unit_no]]
    /\ unit_no' = unit_no + 1
    /\ exter' = "put"
    /\ UNCHANGED <<pipeVars, n2aVars, signalled, singlethread_int_sem, parts,
                   cmds_sent, cmds_complete, port, processVars, threadVars>>

\* The task puts the dummy message of the unit and calls the helper again.
PutDummy ==
    /\ exter = "put"
    /\ port' = [port EXCEPT ![unit_no - 1] = Append(@, Dummy)]
    /\ exter' = "look"
    /\ UNCHANGED <<pipeVars, n2aVars, signalled, singlethread_int_sem,
                   unit_no, parts, cmds, processVars, threadVars>>

LeaveHelper ==
    /\ exter = "units" /\ unit_no = Units
    /\ singlethread_int_sem' = 1
    /\ exter' = "wait"
    /\ UNCHANGED <<pipeVars, n2aVars, signalled, unit_no, parts, cmds, port,
                   processVars, threadVars>>

ExterSteps ==
    \/ TaskWakes \/ ReadWords \/ CallExec
    \/ ExecReturns \/ NoCalls \/ SkipUnit \/ AckUnit \/ PutDummy \/ LeaveHelper

-----------------------------------------------------------------------------
(* The process of a file system (FSML_loop).                               *)

ProcessOnly ==
    UNCHANGED <<pipeVars, n2aVars, exterVars, cmds_sent, cmds_acked,
                unit_pipe, thread>>

\* A program sends a packet.
SendPacket(p) ==
    /\ ~InTrap /\ status[p] = "unsent"
    /\ \A q \in 1 .. p - 1 : status[q] # "unsent"
    /\ status' = [status EXCEPT ![p] = "sent"]
    /\ port' = [port EXCEPT ![UnitOf[p]] = Append(@, p)]
    /\ UNCHANGED <<pipeVars, n2aVars, exterVars, cmds, processVars,
                   unit_pipe, thread>>

Gets(u, msg) ==
    /\ ~InTrap
    /\ process[u].pc = "get" /\ port[u] # << >> /\ Head(port[u]) = msg
    /\ port' = [port EXCEPT ![u] = Tail(@)]

\* FSML_Enqueue.
Enqueued(u, p) == [process EXCEPT ![u].queue = <<p>> \o @]

\* FSML_DoCommand, filesys_handler: the thread gets the packet.
StartPacket(u, p) ==
    /\ Gets(u, p) /\ process[u].started < MaxStarted
    /\ status' = [status EXCEPT ![p] = "started"]
    /\ unit_pipe' = [unit_pipe EXCEPT ![u] = Append(@, p)]
    /\ process' = [Enqueued(u, p) EXCEPT ![u].started = @ + 1]
    /\ UNCHANGED <<pipeVars, n2aVars, exterVars, cmds, thread, replied>>

\* Too many packets are started: this one is only put in the queue.
PutOffPacket(u, p) ==
    /\ Gets(u, p) /\ process[u].started >= MaxStarted
    /\ status' = [status EXCEPT ![p] = "unstarted"]
    /\ process' = Enqueued(u, p)
    /\ UNCHANGED <<cmds_complete, replied>> /\ ProcessOnly

GetDummy(u) ==
    /\ Gets(u, Dummy)
    /\ process' = [process EXCEPT ![u].pc = "lock"]
    /\ UNCHANGED <<cmds_complete, status, replied>> /\ ProcessOnly

\* Mutant: the wrong counter is taken over.
MutMessageLock(u) ==
    /\ ~InTrap /\ process[u].pc = "lock"
    /\ cmds_complete' = [cmds_complete EXCEPT ![u] = cmds_sent[u]]
    /\ process' = [process EXCEPT ![u].pc = "scan", ![u].at = 1]
    /\ UNCHANGED <<port, status, replied>> /\ ProcessOnly

\* exter_int_helper with n = 1: the dummy message may be sent again.
MessageLock(u) ==
    /\ ~InTrap /\ process[u].pc = "lock"
    /\ cmds_complete' = [cmds_complete EXCEPT ![u] = cmds_acked[u]]
    /\ process' = [process EXCEPT ![u].pc = "scan", ![u].at = 1]
    /\ UNCHANGED <<port, status, replied>> /\ ProcessOnly

Scanning(u) ==
    ~InTrap /\ process[u].pc = "scan" /\ process[u].at <= Len(process[u].queue)

\* Mutant: the packet may be in the hands of the thread.
MutScanReply(u) ==
    /\ Scanning(u)
    /\ LET p == process[u].queue[process[u].at]
       IN /\ status[p] \in {"started", "done"}
          /\ replied' = replied \cup {p}
    /\ process' = [process EXCEPT ![u].queue = RemoveAt(@, process[u].at),
                                  ![u].started = @ - 1]
    /\ UNCHANGED <<cmds_complete, port, status>> /\ ProcessOnly

ScanReply(u) ==
    /\ Scanning(u)
    /\ LET p == process[u].queue[process[u].at]
       IN /\ status[p] = "done"
          /\ replied' = replied \cup {p}
    /\ process' = [process EXCEPT ![u].queue = RemoveAt(@, process[u].at),
                                  ![u].started = @ - 1]
    /\ UNCHANGED <<cmds_complete, port, status>> /\ ProcessOnly

ScanPast(u) ==
    /\ Scanning(u)
    /\ status[process[u].queue[process[u].at]] # "done"
    /\ process' = [process EXCEPT ![u].at = @ + 1]
    /\ UNCHANGED <<cmds_complete, port, status, replied>> /\ ProcessOnly

ScanEnd(u) ==
    /\ ~InTrap /\ process[u].pc = "scan"
    /\ process[u].at > Len(process[u].queue)
    /\ process' = [process EXCEPT ![u].pc = "get", ![u].at = 1]
    /\ UNCHANGED <<cmds_complete, port, status, replied>> /\ ProcessOnly

ProcessSteps(u) ==
    \/ \E p \in Packet : StartPacket(u, p) \/ PutOffPacket(u, p)
    \/ GetDummy(u) \/ MessageLock(u)
    \/ ScanReply(u) \/ ScanPast(u) \/ ScanEnd(u)

-----------------------------------------------------------------------------
(* The thread of a file system (filesys_iteration).                        *)

ThreadOnly ==
    UNCHANGED <<pipeVars, n2asem, call, calls, exterVars, cmds_acked,
                cmds_complete, port, processVars>>

\* A packet is taken, handle_packet does what it asks for, and it is counted.
HandlePacket(u) ==
    /\ thread[u].pc = "read" /\ unit_pipe[u] # << >>
    /\ unit_pipe' = [unit_pipe EXCEPT ![u] = Tail(@)]
    /\ cmds_sent' = [cmds_sent EXCEPT ![u] = @ + 1]
    /\ thread' = [thread EXCEPT ![u] = [pc |-> "mark",
                                        packet |-> Head(unit_pipe[u])]]
    /\ UNCHANGED <<uae_int_requested, status>> /\ ThreadOnly

MarkPacket(u) ==
    /\ thread[u].pc = "mark"
    /\ status' = [status EXCEPT ![thread[u].packet] = "done"]
    /\ thread' = [thread EXCEPT ![u].pc = "request"]
    /\ UNCHANGED <<uae_int_requested, cmds_sent, unit_pipe>> /\ ThreadOnly

RequestInterrupt(u) ==
    /\ thread[u].pc = "request"
    /\ uae_int_requested' = TRUE
    /\ thread' = [thread EXCEPT ![u] = [pc |-> "read", packet |-> NoPacket]]
    /\ UNCHANGED <<cmds_sent, status, unit_pipe>> /\ ThreadOnly

ThreadSteps(u) ==
    HandlePacket(u) \/ MarkPacket(u) \/ RequestInterrupt(u)

-----------------------------------------------------------------------------
OtherVars == <<exterVars, cmds, port, processVars, threadVars>>

Next ==
    \/ Interrupt \/ ExterSteps
    \/ \E w \in Writers : HostSteps(w) /\ UNCHANGED OtherVars
    \/ \E p \in Packet : SendPacket(p)
    \/ \E u \in UnitNos : ProcessSteps(u) \/ ThreadSteps(u)

Spec == Init /\ [][Next]_vars

\* Host threads run, and so do the tasks of the Amiga and its interrupts.  One
\* host thread at a time is in a call.
FairSpec ==
    /\ Spec
    /\ WF_vars(Interrupt) /\ WF_vars(ExterSteps)
    /\ WF_vars(\E w \in Writers : CallSteps(w) /\ UNCHANGED OtherVars)
    /\ \A u \in UnitNos : WF_vars(ProcessSteps(u)) /\ WF_vars(ThreadSteps(u))

-----------------------------------------------------------------------------
\* The variables keep their types.
TypeOK ==
    /\ N2ATypeOK
    /\ exter \in {"wait", "look", "read", "exec", "units", "put"}
    /\ signalled \in BOOLEAN /\ singlethread_int_sem \in {0, 1}
    /\ unit_no \in 0 .. Units
    /\ \A k \in DOMAIN parts : parts[k] \in Word
    /\ \A u \in UnitNos :
          /\ cmds_complete[u] <= cmds_acked[u] /\ cmds_acked[u] <= cmds_sent[u]
          /\ process[u].started \in 0 .. MaxStarted
          /\ process[u].at \in 1 .. Len(process[u].queue) + 1
          /\ thread[u].packet \in Packet \cup {NoPacket}

\* What the task does is what one host thread asked for: the function and the
\* arguments it has read are the words of one call, in order.
WholeCalls == \A k \in DOMAIN parts : parts[k] = <<parts[1][1], k>>

\* The calls whose first word is in a sequence of words, in order.
Firsts(s) == {k \in DOMAIN s : s[k][2] = 1}
Nth(S, i) == CHOOSE k \in S : Cardinality({j \in S : j <= k}) = i
CallsIn(s) ==
    [i \in 1 .. Cardinality(Firsts(s)) |-> s[Nth(Firsts(s), i)][1]]

\* The calls whose first word is in the pipe or has been read, but which have
\* not been made.
Pending == CallsIn(parts \o Held)

\* Each call of a host thread is carried out once, in the order in which they
\* were made, and in the end.
Calls == INSTANCE BoundedFifo WITH fifo <- Pending, Entry <- Message,
                                   Capacity <- Cardinality(Message)
CallsFairSpec == Calls!FairSpec

\* The dummy message is never put while it is still in the list of a port,
\* which would corrupt the list.
DummyOnce ==
    \A u \in UnitNos :
        Cardinality({k \in DOMAIN port[u] : port[u][k] = Dummy}) <= 1

\* A packet is the file system's only while it is in hand: what has been
\* replied to is in no queue, and no thread will write to it any more.
RepliedForGood ==
    \A u \in UnitNos :
        /\ replied \cap (Range(process[u].queue) \cup Range(unit_pipe[u])) = {}
        /\ thread[u].packet \in replied => thread[u].pc # "mark"

\* Every packet that a thread is given is replied to.
PacketsReplied ==
    \A p \in Packet : (status[p] = "started") ~> (p \in replied)

\* The dummy message for a packet is on its way before the packet is marked.
AckedUnmarked ==
    \E u \in UnitNos : thread[u].pc = "mark" /\ cmds_acked[u] = cmds_sent[u]

\* If that does not happen, every packet that a thread is given is replied to,
\* although one dummy message stands for any number of packets.
RepliedUnlessAckedUnmarked == [](~AckedUnmarked) => PacketsReplied
=============================================================================
