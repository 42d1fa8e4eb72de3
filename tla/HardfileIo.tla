----------------------------- MODULE HardfileIo -----------------------------
(***************************************************************************)
(* The requests of uaehf.device (src/core/hardfile.cpp): one unit, the     *)
(* program that uses it, and the unit's thread.                            *)
(*                                                                         *)
(* The traps of the device run on the emulator thread and keep the 68k     *)
(* from running.  BeginIO copies a request to an iobuf, enters it in a     *)
(* table and sends it to the thread, which does the I/O, clears the entry  *)
(* and has the request replied to by way of native2amiga.  AbortIO waits   *)
(* while the entry of its request is TEMP.  A CHANGEINT entry stays in the *)
(* table, for disk changes, until CMD_REMCHANGEINT.  change_sem keeps disk *)
(* changes and I/O apart; the traps do not take it.                        *)
(*                                                                         *)
(* The two pipes are the queues of BoundedFifo that CommPipe implements.   *)
(* The program keeps to the rules of Exec, and an error of BeginIO gives   *)
(* it the request back at once, as DoIO does.  CMD_REMCHANGEINT comes with *)
(* and without IOF_QUICK; quick commands that need no table, resets, other *)
(* openers of the unit, and the software interrupt itself are left out.    *)
(***************************************************************************)
EXTENDS Naturals, Sequences, FiniteSets, Functions

CONSTANTS
    Requests,    \* the program's IORequests
    Slots,       \* number of table entries (MAX_ASYNC_REQUESTS)
    Bufs,        \* what malloc returns
    None,        \* a null pointer
    MaxRequests, \* room in the pipe to the thread, in messages
    MaxReplies   \* room in native2amiga_pending, in messages

ASSUME HardfileAssumption ==
    /\ Slots \in Nat \ {0}
    /\ MaxRequests \in Nat \ {0} /\ MaxReplies \in Nat \ {0}
    /\ None \notin Requests \cup Bufs

VARIABLES
    table,            \* d_request, d_request_iobuf, d_request_type
    malloced,         \* buffers that are allocated
    requests,         \* the pipe to the thread
    thread_running,
    sync_sem, change_sem,
    thread,           \* where it is; the message and the entry it works on
    dying,            \* a thread that has cleared thread_running: how far it is
    cpu,              \* the trap that runs, and its variables
    opened, owner, cmd,   \* the program: whose each request is, and what it asks
    replies           \* native2amiga_pending

tables  == <<table, malloced>>
thrVars == <<thread_running, sync_sem, thread, dying>>
guest   == <<opened, owner, cmd>>
vars == <<tables, requests, thrVars, change_sem, cpu, guest, replies>>

Slot  == 1 .. Slots
Empty == [request |-> None, iobuf |-> None, type |-> "none"]
Terminator == [request |-> None, iobuf |-> None, cmd |-> "none"]
Message == [request : Requests, iobuf : Bufs, cmd : {"io", "add"}]
               \cup {Terminator}
InGuest == [op |-> "none", pc |-> "guest", request |-> None, slot |-> 0,
            iobuf |-> None]
NoThread == [pc |-> "none", msg |-> Terminator, slot |-> 0]
Idle     == [NoThread EXCEPT !.pc = "read"]

Init ==
    /\ table = [i \in Slot |-> Empty] /\ malloced = {}
    /\ requests = << >>
    /\ thread_running = FALSE /\ sync_sem = 0 /\ change_sem = 1
    /\ thread = NoThread /\ dying = "no"
    /\ cpu = InGuest
    /\ opened = FALSE
    /\ owner = [r \in Requests |-> "guest"]
    /\ cmd = [r \in Requests |-> "none"]
    /\ replies = << >>

-----------------------------------------------------------------------------
(* The table.                                                              *)

SlotsOf(r) == {i \in Slot : table[i].request = r}
First(S)   == CHOOSE i \in S : \A j \in S : i <= j

\* release_async_request, where no other thread comes in between.
Released(r) ==
    IF SlotsOf(r) = {} THEN UNCHANGED tables
    ELSE LET i == First(SlotsOf(r))
         IN /\ table' = [table EXCEPT ![i] = Empty]
            /\ malloced' = malloced \ {table[i].iobuf}

-----------------------------------------------------------------------------
(* The traps.                                                              *)

Goto(pc) == cpu' = [cpu EXCEPT !.pc = pc]
At(op, pc) == cpu.op = op /\ cpu.pc = pc

Trap(op, pc, r) ==
    /\ cpu.pc = "guest"
    /\ cpu' = [InGuest EXCEPT !.op = op, !.pc = pc, !.request = r]

\* The program has the request back.
GivenBack(r) ==
    /\ owner' = [owner EXCEPT ![r] = "guest"]
    /\ cmd' = [cmd EXCEPT ![r] = "none"]

OnlyCpu == UNCHANGED <<tables, requests, thrVars, change_sem, replies>>

\* start_thread: the pipe and the table are cleared for a new thread.  A second
\* thread beside one that has not started yet, which takes an early post of
\* sync_sem before, is not modelled.
start_thread ==
    /\ cpu.pc = "start" /\ ~thread_running /\ thread.pc = "none"
    /\ table' = [i \in Slot |-> Empty]
    /\ requests' = << >>
    /\ sync_sem' = 0
    /\ thread' = [NoThread EXCEPT !.pc = "start"]
    /\ Goto("sync")
    /\ UNCHANGED <<malloced, thread_running, dying, change_sem, guest, replies>>

HasThread ==
    /\ cpu.pc = "start" /\ thread_running
    /\ Goto("work")
    /\ UNCHANGED guest /\ OnlyCpu

SyncWait ==
    /\ cpu.pc = "sync" /\ sync_sem > 0
    /\ sync_sem' = sync_sem - 1
    /\ Goto("work")
    /\ UNCHANGED <<tables, requests, thread_running, thread, dying, change_sem,
                   guest, replies>>

\* There is no thread after all: the trap returns an error.
NoThreadError ==
    /\ cpu.pc = "work" /\ ~thread_running
    /\ cpu' = InGuest
    /\ IF cpu.op \in {"begin", "rem"} THEN GivenBack(cpu.request)
       ELSE UNCHANGED <<owner, cmd>>
    /\ UNCHANGED opened /\ OnlyCpu

Open ==
    /\ ~opened /\ Trap("open", "start", None)
    /\ UNCHANGED guest /\ OnlyCpu

hardfile_open ==
    /\ At("open", "work") /\ thread_running
    /\ opened' = TRUE
    /\ cpu' = InGuest
    /\ UNCHANGED <<owner, cmd>> /\ OnlyCpu

\* The last CloseDevice, when the program has all its requests back.
Close ==
    /\ opened /\ \A r \in Requests : owner[r] = "guest"
    /\ Trap("close", "send", None)
    /\ UNCHANGED guest /\ OnlyCpu

Send(m) == Len(requests) < MaxRequests /\ requests' = Append(requests, m)

hardfile_close ==
    /\ At("close", "send") /\ Send(Terminator)
    /\ opened' = FALSE
    /\ cpu' = InGuest
    /\ UNCHANGED <<tables, thrVars, change_sem, owner, cmd, replies>>

BeginIO(r, c) ==
    /\ opened /\ owner[r] = "guest" /\ Trap("begin", "start", r)
    /\ owner' = [owner EXCEPT ![r] = "device"]
    /\ cmd' = [cmd EXCEPT ![r] = c]
    /\ UNCHANGED opened /\ OnlyCpu

\* The entry for r: the one it has, or a free one, or none (0).
EntryFor(r) == IF SlotsOf(r) # {} THEN First(SlotsOf(r))
               ELSE IF SlotsOf(None) # {} THEN First(SlotsOf(None)) ELSE 0

\* xmalloc, and add_async_request as far as d_request.
add_async_request ==
    /\ At("begin", "work") /\ thread_running
    /\ \E b \in Bufs \ malloced :
          /\ malloced' = malloced \cup {b}
          /\ LET i == EntryFor(cpu.request)
             IN /\ cpu' = [cpu EXCEPT !.pc = "fill", !.slot = i, !.iobuf = b]
                /\ table' = [j \in Slot |->
                       IF j = i THEN [table[j] EXCEPT !.request = cpu.request]
                       ELSE table[j]]
    /\ UNCHANGED <<requests, thrVars, change_sem, guest, replies>>

\* The rest of it, and of hardfile_beginio.  (An entry that the request has had
\* before keeps its iobuf in the code; as long as TableKept, there is none.)
hardfile_beginio ==
    /\ cpu.pc = "fill"
    /\ table' = [j \in Slot |->
           IF j = cpu.slot THEN [table[j] EXCEPT !.iobuf = cpu.iobuf,
                                                 !.type = "TEMP"]
           ELSE table[j]]
    /\ Send([request |-> cpu.request, iobuf |-> cpu.iobuf,
             cmd |-> cmd[cpu.request]])
    /\ cpu' = InGuest
    /\ UNCHANGED <<malloced, thrVars, change_sem, guest, replies>>

\* CMD_REMCHANGEINT, with the request of CMD_ADDCHANGEINT: always carried out at
\* once.  The program sets IOF_QUICK ("quickrem") or not.
RemChangeInt(r, c) ==
    /\ owner[r] = "device" /\ cmd[r] = "add" /\ Trap("rem", "start", r)
    /\ cmd' = [cmd EXCEPT ![r] = c]
    /\ UNCHANGED <<opened, owner>> /\ OnlyCpu

\* hardfile_do_io on the emulator thread.
DoQuick ==
    /\ At("rem", "work") /\ thread_running
    /\ Released(cpu.request)
    /\ Goto("reply")
    /\ UNCHANGED <<requests, thrVars, change_sem, guest, replies>>

Reply(r) ==
    /\ Len(replies) < MaxReplies
    /\ replies' = Append(replies, [fun |-> "ReplyMsg", request |-> r])

\* Without IOF_QUICK the program waits for a reply;
QuickReply ==
    /\ cpu.pc = "reply" /\ cmd[cpu.request] = "rem" /\ Reply(cpu.request)
    /\ cpu' = InGuest
    /\ UNCHANGED <<tables, requests, thrVars, change_sem, guest>>

\* with it, it has the request back when BeginIO returns.
QuickReturn ==
    /\ cpu.pc = "reply" /\ cmd[cpu.request] = "quickrem"
    /\ cpu' = InGuest
    /\ GivenBack(cpu.request)
    /\ UNCHANGED opened /\ OnlyCpu

AbortIO(r) ==
    /\ owner[r] = "device" /\ cmd[r] = "io" /\ Trap("abort", "start", r)
    /\ UNCHANGED guest /\ OnlyCpu

Processing(r) == \E i \in SlotsOf(r) : table[i].type = "TEMP"

\* Mutant: the request is not waited for.
Mutabort_async ==
    /\ \/ At("abort", "work") /\ thread_running
       \/ cpu.pc = "spin"
    /\ Released(cpu.request)
    /\ cpu' = InGuest
    /\ UNCHANGED <<requests, thrVars, change_sem, guest, replies>>

\* abort_async: it goes on as soon as the request is not processing.
abort_async ==
    /\ \/ At("abort", "work") /\ thread_running
       \/ cpu.pc = "spin"
    /\ ~Processing(cpu.request)
    /\ Released(cpu.request)
    /\ cpu' = InGuest
    /\ UNCHANGED <<requests, thrVars, change_sem, guest, replies>>

AbortSpins ==
    /\ At("abort", "work") /\ thread_running /\ Processing(cpu.request)
    /\ Goto("spin")
    /\ UNCHANGED guest /\ OnlyCpu

\* A disk change, by the user or the program.
DiskChange ==
    /\ Trap("change", "lock", None)
    /\ UNCHANGED guest /\ OnlyCpu

\* Mutant: change_sem is not taken.
MutChangeLock ==
    /\ At("change", "lock") /\ UNCHANGED change_sem
    /\ cpu' = [cpu EXCEPT !.pc = "cause", !.slot = 1]
    /\ UNCHANGED <<tables, requests, thrVars, guest, replies>>

ChangeLock ==
    /\ At("change", "lock") /\ change_sem = 1
    /\ change_sem' = 0
    /\ cpu' = [cpu EXCEPT !.pc = "cause", !.slot = 1]
    /\ UNCHANGED <<tables, requests, thrVars, guest, replies>>

\* One entry is looked at, in the order of the table.
ChangeCause ==
    /\ At("change", "cause") /\ cpu.slot <= Slots
    /\ IF table[cpu.slot].type = "CHANGEINT"
       THEN /\ Len(replies) < MaxReplies
            /\ replies' = Append(replies, [fun |-> "Cause",
                                           request |-> table[cpu.slot].request])
       ELSE UNCHANGED replies
    /\ cpu' = [cpu EXCEPT !.slot = @ + 1]
    /\ UNCHANGED <<tables, requests, thrVars, change_sem, guest>>

hardfile_send_disk_change ==
    /\ At("change", "cause") /\ cpu.slot > Slots
    /\ change_sem' = change_sem + 1
    /\ cpu' = InGuest
    /\ UNCHANGED <<tables, requests, thrVars, guest, replies>>

\* The Amiga carries out what native2amiga has for it.
Deliver ==
    /\ cpu.pc = "guest" /\ replies # << >>
    /\ replies' = Tail(replies)
    /\ LET m == Head(replies)
       IN IF m.fun = "ReplyMsg" THEN GivenBack(m.request)
          ELSE UNCHANGED <<owner, cmd>>
    /\ UNCHANGED <<tables, requests, thrVars, change_sem, cpu, opened>>

\* A trap goes on.
TrapSteps ==
    \/ start_thread \/ HasThread \/ SyncWait \/ NoThreadError
    \/ hardfile_open \/ hardfile_close \/ add_async_request \/ hardfile_beginio
    \/ DoQuick \/ QuickReply \/ QuickReturn \/ abort_async \/ AbortSpins
    \/ ChangeLock \/ ChangeCause \/ hardfile_send_disk_change

Program ==
    \/ Open \/ Close \/ DiskChange
    \/ \E r \in Requests :
          \/ \E c \in {"io", "add"} : BeginIO(r, c)
          \/ \E c \in {"rem", "quickrem"} : RemChangeInt(r, c)
          \/ AbortIO(r)

-----------------------------------------------------------------------------
(* hardfile_thread.                                                        *)

ThreadGoto(pc) == thread' = [thread EXCEPT !.pc = pc]
OnlyThread == UNCHANGED <<requests, thread_running, sync_sem, dying, cpu, guest>>

ThreadStarts ==
    /\ thread.pc = "start"
    /\ thread_running' = TRUE
    /\ sync_sem' = sync_sem + 1
    /\ thread' = Idle
    /\ UNCHANGED <<tables, requests, change_sem, dying, cpu, guest, replies>>

ReadRequest ==
    /\ thread.pc = "read" /\ requests # << >>
    /\ thread' = [thread EXCEPT !.pc = "lock", !.msg = Head(requests)]
    /\ requests' = Tail(requests)
    /\ UNCHANGED <<tables, thread_running, sync_sem, change_sem, dying, cpu,
                   guest, replies>>

\* The message of hardfile_close: the thread ends.
Terminate ==
    /\ thread.pc = "lock" /\ change_sem = 1 /\ thread.msg = Terminator
    /\ change_sem' = 0
    /\ thread_running' = FALSE
    /\ thread' = NoThread
    /\ dying' = "post"
    /\ UNCHANGED <<tables, requests, sync_sem, cpu, guest, replies>>

\* Mutant: change_sem is not given back.
MutDies ==
    /\ \/ /\ dying = "post" /\ dying' = "unlock"
          /\ sync_sem' = sync_sem + 1 /\ UNCHANGED change_sem
       \/ /\ dying = "unlock" /\ dying' = "no"
          /\ UNCHANGED <<change_sem, sync_sem>>
    /\ UNCHANGED <<tables, requests, thread_running, thread, cpu, guest, replies>>

Dies ==
    /\ \/ /\ dying = "post" /\ dying' = "unlock"
          /\ sync_sem' = sync_sem + 1 /\ UNCHANGED change_sem
       \/ /\ dying = "unlock" /\ dying' = "no"
          /\ change_sem' = 1 /\ UNCHANGED sync_sem
    /\ UNCHANGED <<tables, requests, thread_running, thread, cpu, guest, replies>>

Lock ==
    /\ thread.pc = "lock" /\ change_sem = 1 /\ thread.msg # Terminator
    /\ change_sem' = 0
    /\ ThreadGoto("io")
    /\ UNCHANGED <<tables, replies>> /\ OnlyThread

\* Mutant: an entry of its own for the interrupt.
MutAddChangeInt ==
    /\ thread.pc = "io" /\ thread.msg.cmd = "add" /\ SlotsOf(None) # {}
    /\ table' = [table EXCEPT ![First(SlotsOf(None))] =
           [request |-> thread.msg.request, iobuf |-> thread.msg.iobuf,
            type |-> "CHANGEINT"]]
    /\ ThreadGoto("async")
    /\ UNCHANGED <<malloced, change_sem, replies>> /\ OnlyThread

\* hardfile_do_io, CMD_ADDCHANGEINT: add_async_request finds the entry of the
\* request and changes its type, or makes an entry.
AddChangeInt ==
    /\ thread.pc = "io" /\ thread.msg.cmd = "add"
    /\ LET r == thread.msg.request
           i == EntryFor(r)
       IN /\ i # 0
          /\ table' = [table EXCEPT ![i] =
                 [request |-> r, type |-> "CHANGEINT",
                  iobuf |-> IF @.request = r THEN @.iobuf ELSE thread.msg.iobuf]]
    /\ ThreadGoto("async")
    /\ UNCHANGED <<malloced, change_sem, replies>> /\ OnlyThread

\* Any other command, or no entry for the interrupt: the request is done.
DoIo ==
    /\ thread.pc = "io"
    /\ thread.msg.cmd = "add" => EntryFor(thread.msg.request) = 0
    /\ ThreadGoto("release")
    /\ UNCHANGED <<tables, change_sem, replies>> /\ OnlyThread

\* Mutant: the request is replied to.
MutStaysAsync ==
    /\ thread.pc = "async"
    /\ change_sem' = change_sem + 1
    /\ thread' = Idle
    /\ Reply(thread.msg.request)
    /\ UNCHANGED tables /\ OnlyThread

\* The iobuf is copied back and the request stays with the device.
StaysAsync ==
    /\ thread.pc = "async"
    /\ change_sem' = change_sem + 1
    /\ thread' = Idle
    /\ UNCHANGED <<tables, replies>> /\ OnlyThread

\* The iobuf is copied back; release_async_request finds the entry and clears
\* d_request,
ReleaseEntry ==
    /\ thread.pc = "release"
    /\ LET S == SlotsOf(thread.msg.request)
       IN IF S = {} THEN ThreadGoto("reply") /\ UNCHANGED table
          ELSE /\ thread' = [thread EXCEPT !.pc = "free", !.slot = First(S)]
               /\ table' = [table EXCEPT ![First(S)].request = None]
    /\ UNCHANGED <<malloced, change_sem, replies>> /\ OnlyThread

\* Mutant: the iobuf is not freed.
MutFreeIobuf ==
    /\ thread.pc = "free"
    /\ UNCHANGED malloced
    /\ table' = [table EXCEPT ![thread.slot].iobuf = None]
    /\ ThreadGoto("clear")
    /\ UNCHANGED <<change_sem, replies>> /\ OnlyThread

\* d_request_iobuf,
FreeIobuf ==
    /\ thread.pc = "free"
    /\ malloced' = malloced \ {table[thread.slot].iobuf}
    /\ table' = [table EXCEPT ![thread.slot].iobuf = None]
    /\ ThreadGoto("clear")
    /\ UNCHANGED <<change_sem, replies>> /\ OnlyThread

\* and d_request_type.
ClearType ==
    /\ thread.pc = "clear"
    /\ table' = [table EXCEPT ![thread.slot].type = "none"]
    /\ ThreadGoto("reply")
    /\ UNCHANGED <<malloced, change_sem, replies>> /\ OnlyThread

\* Mutant: change_sem is not given back.
MutThreadReply ==
    /\ thread.pc = "reply" /\ Reply(thread.msg.request)
    /\ UNCHANGED change_sem
    /\ thread' = Idle
    /\ UNCHANGED tables /\ OnlyThread

ThreadReply ==
    /\ thread.pc = "reply" /\ Reply(thread.msg.request)
    /\ change_sem' = change_sem + 1
    /\ thread' = Idle
    /\ UNCHANGED tables /\ OnlyThread

ThreadSteps ==
    \/ ThreadStarts \/ ReadRequest \/ Terminate \/ Lock
    \/ AddChangeInt \/ DoIo \/ StaysAsync
    \/ ReleaseEntry \/ FreeIobuf \/ ClearType \/ ThreadReply

-----------------------------------------------------------------------------
Next == Program \/ TrapSteps \/ Deliver \/ ThreadSteps \/ Dies

Spec == Init /\ [][Next]_vars

\* The emulator and the threads run; the Amiga takes its interrupts between
\* the traps of a program, and the thread gets change_sem between disk changes.
FairSpec ==
    /\ Spec
    /\ WF_vars(TrapSteps) /\ SF_vars(Deliver)
    /\ WF_vars(ThreadSteps) /\ SF_vars(Lock) /\ WF_vars(Dies)

-----------------------------------------------------------------------------
\* The variables keep their types; change_sem is a mutex.
TypeOK ==
    /\ table \in [Slot -> [request : Requests \cup {None},
                           iobuf : Bufs \cup {None},
                           type : {"none", "TEMP", "CHANGEINT"}]]
    /\ malloced \subseteq Bufs
    /\ \A k \in DOMAIN requests : requests[k] \in Message
    /\ thread_running \in BOOLEAN
    /\ sync_sem \in 0 .. 2 /\ change_sem \in {0, 1}
    /\ thread.msg \in Message /\ thread.slot \in 0 .. Slots
    /\ dying \in {"no", "post", "unlock"}
    /\ cpu.request \in Requests \cup {None}
    /\ cpu.slot \in 0 .. Slots + 1 /\ cpu.iobuf \in Bufs \cup {None}
    /\ opened \in BOOLEAN
    /\ owner \in [Requests -> {"guest", "device"}]
    /\ cmd \in [Requests -> {"none", "io", "add", "rem", "quickrem"}]

-----------------------------------------------------------------------------
(* What the code takes for granted.                                        *)

\* The messages on their way to the thread and with it.
InHand == IF thread.pc \in {"none", "start", "read"} THEN {} ELSE {thread.msg}
Pending == Range(requests) \cup InHand

\* Not so: an entry is free, for BeginIO, as soon as its d_request is cleared,
\* and the thread clears the rest of it after that.
ReusedEarly ==
    thread.pc \in {"free", "clear"} /\ table[thread.slot].request # None

\* Not so: CMD_REMCHANGEINT is carried out at once, and the thread may not have
\* got to CMD_ADDCHANGEINT yet.
RemovedEarly == cpu.op = "rem" /\ \E m \in Pending : m.request = cpu.request

\* All entries are taken, which BeginIO does not mind.
TableFull == cpu.pc = "fill" /\ cpu.slot = 0

\* The table does what it is for.
TableKept == ~ReusedEarly /\ ~RemovedEarly /\ ~TableFull

\* Not so: a quick CMD_REMCHANGEINT goes back to the program past native2amiga,
\* which may still hold disk changes announced before it.
RemovedLate ==
    /\ cpu.pc = "reply" /\ cmd[cpu.request] = "quickrem"
    /\ \E k \in DOMAIN replies :
          replies[k] = [fun |-> "Cause", request |-> cpu.request]

\* The device is opened again before the thread of its last use has ended,
\* although a new thread is only started when there is none.
ReopenedEarly ==
    /\ Terminator \in Pending \/ dying # "no"
    /\ opened \/ cpu.op = "open"

\* native2amiga_pending is full and written to while a trap keeps the Amiga from
\* emptying it.
RepliesFull ==
    /\ Len(replies) = MaxReplies /\ cpu.pc # "guest"
    /\ thread.pc = "reply" \/ cpu.pc \in {"reply", "cause"}

-----------------------------------------------------------------------------
\* The messages that the thread still needs the iobuf of.
Unreleased ==
    {m \in Pending : m # Terminator /\
                     (m = thread.msg => thread.pc \in {"lock", "io", "release"})}

\* As long as the table does what it is for, no iobuf is freed while it is in
\* use, and none is freed twice.
BuffersLive ==
    /\ \A m \in Unreleased : m.iobuf \in malloced
    /\ \A i \in Slot : table[i].iobuf \in malloced \cup {None}
    /\ \A i, j \in Slot :
          table[i].iobuf = table[j].iobuf => i = j \/ table[i].iobuf = None
BuffersKept == []TableKept => []BuffersLive

\* As long as it does, the entry of a request shows that the request is being
\* processed, from BeginIO until the thread is done: that is what AbortIO
\* waits for ("ASYNC_REQUEST_TEMP = request is processing").
TempWhileProcessing ==
    \A m \in Unreleased : \E i \in Slot :
        table[i] = [request |-> m.request, iobuf |-> m.iobuf, type |-> "TEMP"]
TempKept == []TableKept => []TempWhileProcessing

\* As long as it does, no reply comes twice or to a request that the program
\* has back; and if no quick CMD_REMCHANGEINT overtakes a disk change, none is
\* announced after the interrupt was removed.
RepliesDue ==
    /\ \A k \in DOMAIN replies :
          replies[k].fun = "ReplyMsg" => owner[replies[k].request] = "device"
    /\ \A j, k \in DOMAIN replies :
          replies[j].fun = "ReplyMsg" /\ replies[j] = replies[k] => j = k
ChangesDue ==
    \A k \in DOMAIN replies :
        replies[k].fun = "Cause" => owner[replies[k].request] = "device"
RepliedOnce ==
    /\ []TableKept => []RepliesDue
    /\ [](TableKept /\ ~RemovedLate) => []ChangesDue

\* If, besides, the device is not opened again too early, every iobuf is in
\* somebody's hands who will free it.
NoneLost ==
    malloced \subseteq {table[i].iobuf : i \in Slot} \cup {cpu.iobuf}
BuffersFreed == [](TableKept /\ ~ReopenedEarly) => []NoneLost

InOrder == TableKept /\ ~ReopenedEarly /\ ~RepliesFull

\* If, besides, the pipe to the Amiga does not fill up, every request for I/O
\* is replied to, aborted or not,
Replied ==
    \A r \in Requests :
        (owner[r] = "device" /\ cmd[r] = "io") ~> (owner[r] = "guest")
RepliedInOrder == []InOrder => Replied

\* and every trap lets the 68k go on.
CpuReturns == (cpu.pc # "guest") ~> (cpu.pc = "guest")
CpuReturnsInOrder == []InOrder => CpuReturns
=============================================================================
