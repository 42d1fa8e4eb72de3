-------------------------- MODULE HardfileIo_proofs ---------------------------
(***************************************************************************)
(* Proofs about HardfileIo for any requests, any sizes of the table and    *)
(* the pipes, and any number of opens, closes, aborts and disk changes.    *)
(***************************************************************************)
EXTENDS HardfileIo, SequenceTheorems, WellFoundedInduction, TLAPS

-----------------------------------------------------------------------------
(* The types, and who holds change_sem and posts sync_sem; this needs      *)
(* nothing of the table.                                                   *)

Outside == {"none", "start", "read"}
Working == {"io", "async", "release", "free", "clear", "reply"}
Starting == {"start", "sync", "work"}
Answer  == [fun : {"ReplyMsg", "Cause"}, request : Requests \cup {None}]

CpuTypes ==
    /\ cpu \in [op : {"none", "open", "close", "begin", "rem", "abort", "change"},
                pc : {"guest", "start", "sync", "work", "fill", "send", "reply",
                      "spin", "lock", "cause"},
                request : Requests \cup {None}, slot : 0 .. Slots + 1,
                iobuf : Bufs \cup {None}]
    /\ cpu.pc = "guest" <=> cpu.op = "none"
    /\ cpu.pc = "send" <=> cpu.op = "close"
    /\ cpu.pc \in {"lock", "cause"} <=> cpu.op = "change"
    /\ cpu.pc = "fill" => cpu.op = "begin" /\ cpu.slot <= Slots
    /\ cpu.pc = "fill" <=> cpu.iobuf \in Bufs
    /\ cpu.pc = "reply" => cpu.op = "rem"
    /\ cpu.pc = "spin" => cpu.op = "abort"
    /\ cpu.pc = "cause" => cpu.slot > 0
    /\ cpu.op \in {"begin", "rem", "abort"} => cpu.request \in Requests
    /\ cpu.op = "begin" => cmd[cpu.request] \in {"io", "add"}

ThreadTypes ==
    /\ thread \in [pc : Outside \cup {"lock"} \cup Working,
                   msg : Message, slot : 0 .. Slots]
    /\ thread.pc \in Outside => thread.msg = Terminator
    /\ thread.pc \in Working => thread.msg # Terminator
    /\ thread.pc \in {"free", "clear"} => thread.slot \in Slot
    /\ thread_running <=> thread.pc \notin {"none", "start"}

PipeTypes == requests \in Seq(Message) /\ replies \in Seq(Answer)

\* change_sem has one holder.
MutexKept ==
    /\ change_sem = 0 <=>
           thread.pc \in Working \/ cpu.pc = "cause" \/ dying # "no"
    /\ thread.pc \in Working => cpu.pc # "cause" /\ dying = "no"
    /\ cpu.pc = "cause" => dying = "no"

\* The posts of sync_sem that are there or to come without another message.
Posts == sync_sem + (IF thread.pc = "start" THEN 1 ELSE 0)
                  + (IF dying = "post" THEN 1 ELSE 0)

SyncKept ==
    /\ Posts <= 2
    /\ cpu.pc # "sync" /\ thread.pc # "none" => Posts <= 1
    /\ cpu.pc = "sync" => thread.pc # "none" /\ Terminator \notin Pending

HardTypes ==
    TypeOK /\ CpuTypes /\ ThreadTypes /\ PipeTypes /\ MutexKept /\ SyncKept

-----------------------------------------------------------------------------
(* What the table is for, as long as TableKept.                            *)

Asked == Pending \ {Terminator}

\* There is one message for a request, at most, and the device has it.
MessagesKept ==
    /\ \A m \in Asked : owner[m.request] = "device" /\ cmd[m.request] = m.cmd
    /\ \A j, k \in DOMAIN requests :
          requests[j] # Terminator /\ requests[j].request = requests[k].request
              => j = k
    /\ thread.pc \notin Outside /\ thread.msg # Terminator
           => \A k \in DOMAIN requests : requests[k].request # thread.msg.request
    /\ thread.pc = "async" => thread.msg.cmd = "add"
    /\ thread.pc \in {"release", "free", "clear", "reply"} => thread.msg.cmd = "io"

\* A message that ends the thread comes before the requests of the next open.
EndsFirst ==
    /\ \A j, k \in DOMAIN requests :
          j < k /\ requests[k] = Terminator => requests[j] = Terminator
    /\ \A k \in DOMAIN requests :
          requests[k] = Terminator /\ thread.pc \notin Outside
              => thread.msg = Terminator

\* A thread that has not begun, or is to end, leaves no interrupt behind.
Still == thread.pc \in {"none", "start"} \/ Terminator \in Pending
StillKept == Still => \A i \in Slot : table[i].type # "CHANGEINT"

\* What an entry stands for.
TempEntry(i) ==
    \E m \in Unreleased :
        table[i] = [request |-> m.request, iobuf |-> m.iobuf, type |-> "TEMP"]
ChangeEntry(i) ==
    /\ table[i].type = "CHANGEINT" /\ table[i].request \in Requests
    /\ table[i].iobuf \in malloced
    /\ owner[table[i].request] = "device"
    /\ cmd[table[i].request] \in {"add", "rem", "quickrem"}
    /\ \A m \in Unreleased : m.request # table[i].request
FillEntry(i) ==
    /\ cpu.pc = "fill" /\ i = cpu.slot
    /\ table[i] = [request |-> cpu.request, iobuf |-> None, type |-> "none"]
DoneEntry(i) ==
    /\ i = thread.slot
    /\ \/ /\ thread.pc = "free" /\ thread.msg.iobuf \in malloced
          /\ table[i] = [request |-> None, iobuf |-> thread.msg.iobuf,
                         type |-> "TEMP"]
       \/ /\ thread.pc = "clear"
          /\ table[i] = [request |-> None, iobuf |-> None, type |-> "TEMP"]

EntriesKept ==
    \A i \in Slot : \/ table[i] = Empty
                    \/ TempEntry(i) \/ ChangeEntry(i)
                    \/ FillEntry(i) \/ DoneEntry(i)

OneEach ==
    \A i, j \in Slot :
        table[i].request = table[j].request => i = j \/ table[i].request = None

\* The entry and the buffer that BeginIO is about to send.
FillKept ==
    cpu.pc = "fill" /\ cpu.slot # 0 =>
        /\ FillEntry(cpu.slot)
        /\ cpu.iobuf \in malloced
        /\ \A i \in Slot : table[i].iobuf # cpu.iobuf

\* The request a trap is about.
CpuKept ==
    /\ cpu.op \in {"begin", "rem", "abort"} => owner[cpu.request] = "device"
    /\ cpu.op = "begin" =>
           /\ \A m \in Pending : m.request # cpu.request
           /\ cpu.pc # "fill" => SlotsOf(cpu.request) = {}
    /\ cpu.op = "rem" => cmd[cpu.request] \in {"rem", "quickrem"}
    /\ cpu.pc = "reply" => SlotsOf(cpu.request) = {}
    /\ cpu.op = "abort" => cmd[cpu.request] = "io"
    /\ cpu.op = "close" => \A r \in Requests : owner[r] = "guest"
    /\ cpu.op \in {"begin", "rem"} =>
           \A k \in DOMAIN replies :
               replies[k].fun = "ReplyMsg" => replies[k].request # cpu.request

\* A reply is the last that the Amiga hears of a request.
RepliesKept ==
    /\ \A k \in DOMAIN replies : replies[k].request \in Requests
    /\ \A k \in DOMAIN replies :
          replies[k].fun = "ReplyMsg" =>
              /\ owner[replies[k].request] = "device"
              /\ cmd[replies[k].request] \in {"io", "rem"}
              /\ SlotsOf(replies[k].request) = {}
              /\ \A m \in Pending : m.request # replies[k].request
    /\ \A j, k \in DOMAIN replies :
          j < k /\ replies[j].fun = "ReplyMsg"
              => replies[k].request # replies[j].request

HardInv ==
    /\ HardTypes
    /\ MessagesKept /\ EndsFirst /\ StillKept
    /\ EntriesKept /\ OneEach /\ BuffersLive /\ TempWhileProcessing
    /\ FillKept /\ CpuKept /\ RepliesKept

-----------------------------------------------------------------------------
(* Nothing is lost, as long as no open comes too early either.             *)

LostInv ==
    /\ NoneLost
    /\ thread.pc \in {"none", "start"} => malloced = {}
    /\ Terminator \in Pending => \A r \in Requests : owner[r] = "guest"

-----------------------------------------------------------------------------
(* Messages, answers and entries.                                          *)

LEMMA Numbers ==
    /\ Slots \in Nat /\ Slots > 0 /\ 0 \notin Slot
    /\ Slot \subseteq 0 .. Slots /\ Slot \subseteq 0 .. Slots + 1
    /\ 0 \in 0 .. Slots /\ 0 \in 0 .. Slots + 1
    /\ None \notin Requests /\ None \notin Bufs
  BY HardfileAssumption, SMT DEF Slot

LEMMA MessageIs ==
    ASSUME NEW m \in Message
    PROVE  /\ m # Terminator =>
                  m.request \in Requests /\ m.iobuf \in Bufs /\ m.cmd \in {"io", "add"}
           /\ m.request = None <=> m = Terminator
           /\ m.iobuf \in Bufs \cup {None}
           /\ m = [request |-> m.request, iobuf |-> m.iobuf, cmd |-> m.cmd]
  BY Numbers DEF Message, Terminator

\* There is a first among any entries.
LEMMA FirstIs ==
    ASSUME NEW S \in SUBSET Slot, S # {}
    PROVE  First(S) \in S
<1>1. IsWellFoundedOn(OpToRel(<, Nat), Nat)  BY NatLessThanWellFounded, Zenon
<1>2. S \subseteq Nat  BY Numbers, SMT DEF Slot
<1>3. PICK i \in S : \A j \in S : ~(<<j, i>> \in OpToRel(<, Nat))
  BY <1>1, <1>2, WFMin, Zenon
<1>4. \A j \in S : i <= j
  <2>1. TAKE j \in S
  <2>2. i \in Nat /\ j \in Nat  BY <1>2
  <2>3. ASSUME j < i PROVE FALSE
    <3>1. <<j, i>> \in Nat \X Nat /\ <<j, i>>[1] < <<j, i>>[2]  BY <2>2, <2>3
    <3>2. <<j, i>> \in OpToRel(<, Nat)  BY <3>1, Zenon DEF OpToRel
    <3> QED  BY <1>3, <3>2, Zenon
  <2> QED  BY <2>2, <2>3, SMT
<1> QED  BY <1>4, Zenon DEF First

LEMMA EntryForIs ==
    ASSUME NEW r
    PROVE  /\ EntryFor(r) \in 0 .. Slots
           /\ EntryFor(r) # 0 => EntryFor(r) \in Slot
           /\ SlotsOf(r) # {} => First(SlotsOf(r)) \in SlotsOf(r)
           /\ SlotsOf(r) # {} => First(SlotsOf(r)) \in Slot
<1>1. SlotsOf(r) \in SUBSET Slot /\ SlotsOf(None) \in SUBSET Slot
  BY DEF SlotsOf
<1>2. /\ SlotsOf(r) # {} => First(SlotsOf(r)) \in SlotsOf(r)
      /\ SlotsOf(None) # {} => First(SlotsOf(None)) \in SlotsOf(None)
  BY <1>1, FirstIs
<1>3. /\ SlotsOf(r) # {} => First(SlotsOf(r)) \in Slot
      /\ SlotsOf(None) # {} => First(SlotsOf(None)) \in Slot
  BY <1>1, <1>2
<1>4. EntryFor(r) = 0 \/ EntryFor(r) \in Slot  BY <1>3 DEF EntryFor
<1> QED  BY <1>2, <1>3, <1>4, Numbers

-----------------------------------------------------------------------------
(* The types are inductive.                                                *)

LEMMA InitHardTypes == Init => HardTypes
<1> SUFFICES ASSUME Init PROVE HardTypes  OBVIOUS
<1>1. /\ DOMAIN << >> = {} /\ << >> \in Seq(Message) /\ << >> \in Seq(Answer)
  BY EmptySeq
<1>2. Terminator \in Message /\ Terminator.request = None  BY DEF Message, Terminator
<1>3. TypeOK
  <2>1. /\ table \in [Slot -> [request : Requests \cup {None},
                              iobuf : Bufs \cup {None},
                              type : {"none", "TEMP", "CHANGEINT"}]]
    BY DEF Init, Empty
  <2>2. /\ thread.msg \in Message /\ thread.slot \in 0 .. Slots
        /\ cpu.request = None /\ cpu.slot \in 0 .. Slots + 1 /\ cpu.iobuf = None
    BY <1>2, Numbers DEF Init, NoThread, InGuest
  <2>3. sync_sem \in 0 .. 2 /\ change_sem \in {0, 1}  BY SMT DEF Init
  <2>4. \A k \in DOMAIN requests : requests[k] \in Message  BY <1>1 DEF Init
  <2> QED  BY <2>1, <2>2, <2>3, <2>4 DEF Init, TypeOK
<1>4. CpuTypes  BY Numbers DEF Init, CpuTypes, InGuest
<1>5. ThreadTypes
  BY <1>2, Numbers DEF Init, ThreadTypes, NoThread, Outside, Working
<1>6. PipeTypes  BY <1>1 DEF Init, PipeTypes
<1>7. MutexKept
  <2>1. thread.pc = "none" /\ cpu.pc = "guest" /\ dying = "no" /\ change_sem = 1
    BY DEF Init, NoThread, InGuest
  <2> QED  BY <2>1, SMT DEF MutexKept, Working
<1>8. SyncKept
  <2>1. /\ thread.pc = "none" /\ cpu.pc = "guest" /\ dying = "no" /\ sync_sem = 0
    BY DEF Init, NoThread, InGuest
  <2> QED  BY <2>1, SMT DEF SyncKept, Posts
<1> QED  BY <1>3, <1>4, <1>5, <1>6, <1>7, <1>8 DEF HardTypes

\* What an action of the program or a trap does to cpu.
LEMMA NextCpuTypes ==
    ASSUME HardTypes, [Next]_vars
    PROVE  CpuTypes'
<1> USE DEF HardTypes, CpuTypes
<1>1. \/ Program \/ TrapSteps \/ Deliver \/ ThreadSteps \/ Dies
      \/ UNCHANGED vars
  BY DEF Next
<1>2. CASE Program
  <2>0. 0 \in 0 .. Slots + 1  BY Numbers
  <2>1. CASE Open
    BY <2>0, <2>1 DEF Open, Trap, InGuest, guest
  <2>6. CASE DiskChange
    BY <2>0, <2>6 DEF DiskChange, Trap, InGuest, guest
  <2>5. CASE Close
    BY <2>0, <2>5 DEF Close, Trap, InGuest, guest
  <2>2. ASSUME NEW r \in Requests, NEW c \in {"io", "add"}, BeginIO(r, c)
        PROVE  CpuTypes'
    <3>1. cmd'[r] = c  BY <2>2 DEF BeginIO, TypeOK
    <3> QED  BY <2>2, <3>1, Numbers DEF BeginIO, Trap, InGuest
  <2>3. ASSUME NEW r \in Requests, NEW c \in {"rem", "quickrem"}, RemChangeInt(r, c)
        PROVE  CpuTypes'
    BY <2>3, Numbers DEF RemChangeInt, Trap, InGuest
  <2>4. ASSUME NEW r \in Requests, AbortIO(r) PROVE CpuTypes'
    BY <2>4, Numbers DEF AbortIO, Trap, InGuest
  <2> QED  BY <1>2, <2>1, <2>2, <2>3, <2>4, <2>5, <2>6 DEF Program
<1>3. CASE TrapSteps
  <2>1. CASE start_thread \/ HasThread \/ SyncWait
    BY <2>1 DEF start_thread, HasThread, SyncWait, Goto, guest
  <2>2. CASE \/ NoThreadError \/ hardfile_open \/ hardfile_close
             \/ hardfile_beginio \/ QuickReply \/ QuickReturn \/ abort_async
             \/ hardfile_send_disk_change
    <3>1. cpu' = InGuest
      BY <2>2 DEF NoThreadError, hardfile_open, hardfile_close,
                  hardfile_beginio, QuickReply, QuickReturn, abort_async,
                  hardfile_send_disk_change
    <3> QED  BY <3>1, Numbers DEF InGuest
  <2>3. CASE add_async_request
    <3>1. PICK b \in Bufs :
              cpu' = [cpu EXCEPT !.pc = "fill", !.slot = EntryFor(cpu.request),
                                 !.iobuf = b]
      BY <2>3 DEF add_async_request
    <3>2. /\ cpu.op = "begin" /\ cmd' = cmd
          /\ EntryFor(cpu.request) \in 0 .. Slots
      BY <2>3, EntryForIs DEF add_async_request, At, guest
    <3>3. /\ EntryFor(cpu.request) \in 0 .. Slots + 1
          /\ EntryFor(cpu.request) <= Slots
      BY <3>2, Numbers, SMT
    <3> QED  BY <3>1, <3>2, <3>3
  <2>4. CASE DoQuick \/ AbortSpins
    BY <2>4 DEF DoQuick, AbortSpins, Goto, At, guest
  <2>5. CASE ChangeLock
    <3>1. 1 \in 0 .. Slots + 1 /\ 1 > 0  BY Numbers, SMT
    <3> QED  BY <2>5, <3>1 DEF ChangeLock, At, guest
  <2>6. CASE ChangeCause
    <3>1. cpu' = [cpu EXCEPT !.slot = cpu.slot + 1] /\ cmd' = cmd
          /\ cpu.op = "change" /\ cpu.pc = "cause" /\ cpu.slot <= Slots
      BY <2>6 DEF ChangeCause, At, guest
    <3>2. cpu.slot + 1 \in 0 .. Slots + 1 /\ cpu.slot + 1 > 0
      BY <3>1, Numbers, SMT
    <3> HIDE DEF HardTypes
    <3> QED  BY <3>1, <3>2 DEF HardTypes
  <2> QED
    BY <1>3, <2>1, <2>2, <2>3, <2>4, <2>5, <2>6 DEF TrapSteps
<1>4. CASE Deliver  BY <1>4 DEF Deliver
<1>5. CASE ThreadSteps \/ Dies
  BY <1>5 DEF ThreadSteps, ThreadStarts, ReadRequest, Terminate, Lock,
              AddChangeInt, DoIo, StaysAsync, ReleaseEntry, FreeIobuf,
              ClearType, ThreadReply, OnlyThread, Dies, guest
<1>6. CASE UNCHANGED vars  BY <1>6 DEF vars, guest
<1> QED  BY <1>1, <1>2, <1>3, <1>4, <1>5, <1>6

\* What the thread has in hand.
LEMMA NextThreadTypes ==
    ASSUME HardTypes, [Next]_vars
    PROVE  ThreadTypes'
<1> USE DEF ThreadTypes, Outside, Working
<1>1. ThreadTypes /\ requests \in Seq(Message) /\ Terminator \in Message
  BY DEF HardTypes, PipeTypes, Message
<1>2. \/ Program \/ TrapSteps \/ Deliver \/ ThreadSteps \/ Dies
      \/ UNCHANGED vars
  BY DEF Next
<1>3. CASE Program
  BY <1>1, <1>3 DEF Program, Open, Close, DiskChange, BeginIO, RemChangeInt,
                    AbortIO, OnlyCpu, thrVars
<1>4. CASE TrapSteps
  <2>1. CASE start_thread
    BY <1>1, <2>1, Numbers DEF start_thread, NoThread
  <2>2. CASE ~start_thread
    <3>1. thread' = thread /\ thread_running' = thread_running
      BY <1>4, <2>2
         DEF TrapSteps, HasThread, SyncWait, NoThreadError, hardfile_open,
             hardfile_close, add_async_request, hardfile_beginio, DoQuick,
             QuickReply, QuickReturn, abort_async, AbortSpins, ChangeLock,
             ChangeCause, hardfile_send_disk_change, OnlyCpu, thrVars
    <3> QED  BY <1>1, <3>1
  <2> QED  BY <2>1, <2>2
<1>5. CASE Deliver \/ Dies \/ UNCHANGED vars
  BY <1>1, <1>5 DEF Deliver, Dies, vars, thrVars
<1>6. CASE ThreadSteps
  <2>1. CASE ThreadStarts \/ Terminate \/ StaysAsync \/ ThreadReply
    <3>1. thread' \in {NoThread, Idle}
      BY <2>1 DEF ThreadStarts, Terminate, StaysAsync, ThreadReply
    <3>2. thread_running' <=> thread'.pc = "read"
      BY <1>1, <2>1 DEF ThreadStarts, Terminate, StaysAsync, ThreadReply,
                        OnlyThread, NoThread, Idle
    <3> QED  BY <1>1, <3>1, <3>2, Numbers DEF NoThread, Idle
  <2>2. CASE ReadRequest
    <3>1. Head(requests) \in Message
      BY <1>1, <2>2, HeadTailProperties DEF ReadRequest
    <3>2. thread' = [thread EXCEPT !.pc = "lock", !.msg = Head(requests)]
          /\ thread.pc = "read" /\ thread_running' = thread_running
      BY <2>2 DEF ReadRequest
    <3> QED  BY <1>1, <3>1, <3>2
  <2>3. CASE Lock \/ AddChangeInt \/ DoIo \/ FreeIobuf \/ ClearType
    BY <1>1, <2>3 DEF Lock, AddChangeInt, DoIo, FreeIobuf, ClearType,
                      ThreadGoto, OnlyThread
  <2>4. CASE ReleaseEntry
    <3>1. ThreadGoto("reply") \/ \E i \in Slot :
              thread' = [thread EXCEPT !.pc = "free", !.slot = i]
      BY <2>4, EntryForIs DEF ReleaseEntry
    <3>2. thread.pc = "release" /\ thread_running' = thread_running
      BY <2>4 DEF ReleaseEntry, OnlyThread
    <3> QED  BY <1>1, <3>1, <3>2, Numbers DEF ThreadGoto
  <2> QED  BY <1>6, <2>1, <2>2, <2>3, <2>4 DEF ThreadSteps
<1> QED  BY <1>2, <1>3, <1>4, <1>5, <1>6

\* What goes through the pipes.
LEMMA NextPipeTypes ==
    ASSUME HardTypes, [Next]_vars
    PROVE  PipeTypes'
<1> USE DEF PipeTypes
<1>1. PipeTypes /\ Terminator \in Message  BY DEF HardTypes, Message
<1>2. \/ Program \/ TrapSteps \/ Deliver \/ ThreadSteps \/ Dies
      \/ UNCHANGED vars
  BY DEF Next
<1>3. ASSUME NEW m, Send(m), m \in Message PROVE requests' \in Seq(Message)
  BY <1>1, <1>3, AppendProperties DEF Send
<1>4. ASSUME NEW r \in Requests, Reply(r) PROVE replies' \in Seq(Answer)
  <2>1. [fun |-> "ReplyMsg", request |-> r] \in Answer  BY DEF Answer
  <2> QED  BY <1>1, <1>4, <2>1, AppendProperties DEF Reply
<1>5. CASE Program
  BY <1>1, <1>5 DEF Program, Open, Close, DiskChange, BeginIO, RemChangeInt,
                    AbortIO, OnlyCpu
<1>6. CASE TrapSteps
  <2>1. CASE start_thread
    BY <1>1, <2>1, EmptySeq DEF start_thread
  <2>2. CASE hardfile_close
    BY <1>1, <1>3, <2>2 DEF hardfile_close
  <2>3. CASE hardfile_beginio
    <3>1. [request |-> cpu.request, iobuf |-> cpu.iobuf,
           cmd |-> cmd[cpu.request]] \in Message
      BY <2>3 DEF hardfile_beginio, HardTypes, CpuTypes, Message
    <3> QED  BY <1>1, <1>3, <2>3, <3>1 DEF hardfile_beginio
  <2>4. CASE QuickReply
    <3>1. cpu.request \in Requests
      BY <2>4 DEF QuickReply, HardTypes, CpuTypes
    <3> QED  BY <1>1, <1>4, <2>4, <3>1 DEF QuickReply
  <2>5. CASE ChangeCause
    <3> DEFINE a == [fun |-> "Cause", request |-> table[cpu.slot].request]
    <3>1. cpu.slot \in Slot
      BY <2>5, SMT DEF ChangeCause, At, HardTypes, CpuTypes, Slot
    <3>2. a \in Answer
      BY <3>1 DEF HardTypes, TypeOK, Answer
    <3>3. requests' = requests /\ (replies' = replies \/ replies' = Append(replies, a))
      BY <2>5 DEF ChangeCause
    <3> HIDE DEF a
    <3> QED  BY <1>1, <3>2, <3>3, AppendProperties
  <2>6. CASE \/ HasThread \/ SyncWait \/ NoThreadError \/ hardfile_open
             \/ add_async_request \/ DoQuick \/ QuickReturn \/ abort_async
             \/ AbortSpins \/ ChangeLock \/ hardfile_send_disk_change
    BY <1>1, <2>6 DEF HasThread, SyncWait, NoThreadError, hardfile_open,
                      add_async_request, DoQuick, QuickReturn, abort_async,
                      AbortSpins, ChangeLock, hardfile_send_disk_change, OnlyCpu
  <2> QED  BY <1>6, <2>1, <2>2, <2>3, <2>4, <2>5, <2>6 DEF TrapSteps
<1>7. CASE Deliver
  BY <1>1, <1>7, HeadTailProperties DEF Deliver
<1>8. CASE Dies \/ UNCHANGED vars  BY <1>1, <1>8 DEF Dies, vars
<1>9. CASE ThreadSteps
  <2>1. CASE ReadRequest
    BY <1>1, <2>1, HeadTailProperties DEF ReadRequest
  <2>2. CASE ThreadReply
    <3>1. thread.msg.request \in Requests
      BY <2>2, MessageIs DEF ThreadReply, HardTypes, ThreadTypes, Working
    <3> QED  BY <1>1, <1>4, <2>2, <3>1 DEF ThreadReply, OnlyThread
  <2>3. CASE ThreadSteps /\ ~ReadRequest /\ ~ThreadReply
    BY <1>1, <2>3 DEF ThreadSteps, ThreadStarts, Terminate, Lock, AddChangeInt,
                      DoIo, StaysAsync, ReleaseEntry, FreeIobuf, ClearType,
                      OnlyThread
  <2> QED  BY <1>9, <2>1, <2>2, <2>3
<1> QED  BY <1>2, <1>5, <1>6, <1>7, <1>8, <1>9

\* Where the steps of a trap that have nothing to do with change_sem or sync_sem
\* start and end.
LEMMA TrapGoesOn ==
    ASSUME CpuTypes,
           \/ HasThread \/ NoThreadError \/ hardfile_open \/ hardfile_close
           \/ add_async_request \/ hardfile_beginio
           \/ DoQuick \/ QuickReply \/ QuickReturn \/ abort_async \/ AbortSpins
    PROVE  /\ cpu.pc \in {"start", "work", "send", "fill", "reply", "spin"}
           /\ cpu'.pc \in {"guest", "work", "fill", "reply", "spin"}
<1>1. CASE HasThread \/ DoQuick \/ AbortSpins
  BY <1>1 DEF HasThread, DoQuick, AbortSpins, Goto, At, CpuTypes
<1>2. CASE add_async_request
  BY <1>2 DEF add_async_request, At, CpuTypes
<1>3. CASE \/ NoThreadError \/ hardfile_open \/ hardfile_close
           \/ hardfile_beginio \/ QuickReply \/ QuickReturn \/ abort_async
  <2>1. cpu' = InGuest /\ cpu.pc \in {"work", "send", "fill", "reply", "spin"}
    BY <1>3 DEF NoThreadError, hardfile_open, hardfile_close, hardfile_beginio,
                QuickReply, QuickReturn, abort_async, At
  <2> QED  BY <2>1 DEF InGuest
<1> QED  BY <1>1, <1>2, <1>3

\* change_sem goes from holder to holder.
LEMMA NextMutexKept ==
    ASSUME HardTypes, [Next]_vars
    PROVE  MutexKept'
<1> USE DEF MutexKept, Working
<1>1. MutexKept /\ CpuTypes /\ ThreadTypes /\ change_sem \in {0, 1}
      /\ dying \in {"no", "post", "unlock"}
  BY DEF HardTypes, TypeOK
<1>2. \/ Program \/ TrapSteps \/ Deliver \/ ThreadSteps \/ Dies
      \/ UNCHANGED vars
  BY DEF Next
<1>3. CASE Program
  <2>1. cpu.pc = "guest" /\ cpu'.pc \in {"start", "send", "lock"}
    BY <1>3 DEF Program, Open, Close, DiskChange, BeginIO, RemChangeInt,
                AbortIO, Trap, InGuest
  <2>2. UNCHANGED <<change_sem, thread, dying>>
    BY <1>3 DEF Program, Open, Close, DiskChange, BeginIO, RemChangeInt,
                AbortIO, OnlyCpu, thrVars
  <2> QED  BY <1>1, <2>1, <2>2
<1>4. CASE TrapSteps
  <2>1. CASE ChangeLock
    <3>1. /\ cpu'.pc = "cause" /\ change_sem = 1 /\ change_sem' = 0
          /\ UNCHANGED <<thread, dying>>
      BY <1>1, <2>1 DEF ChangeLock, CpuTypes, thrVars
    <3> QED  BY <1>1, <3>1
  <2>2. CASE ChangeCause
    <3>1. cpu'.pc = cpu.pc /\ UNCHANGED <<thread, dying, change_sem>>
      BY <1>1, <2>2 DEF ChangeCause, CpuTypes, thrVars
    <3> QED  BY <1>1, <3>1
  <2>3. CASE hardfile_send_disk_change
    <3>1. /\ cpu.pc = "cause" /\ cpu'.pc = "guest"
          /\ change_sem' = change_sem + 1 /\ UNCHANGED <<thread, dying>>
      BY <2>3 DEF hardfile_send_disk_change, At, InGuest, thrVars
    <3>2. change_sem = 0 /\ change_sem' = 1  BY <1>1, <3>1
    <3> QED  BY <1>1, <3>1, <3>2
  <2>4. CASE start_thread
    <3>1. /\ thread.pc = "none" /\ thread'.pc = "start" /\ cpu.pc = "start"
          /\ cpu'.pc = "sync" /\ UNCHANGED <<change_sem, dying>>
      BY <1>1, <2>4 DEF start_thread, NoThread, Goto, CpuTypes
    <3> QED  BY <1>1, <3>1
  <2>5. CASE SyncWait
    <3>1. /\ cpu.pc = "sync" /\ cpu'.pc = "work"
          /\ UNCHANGED <<thread, change_sem, dying>>
      BY <1>1, <2>5 DEF SyncWait, Goto, CpuTypes
    <3> QED  BY <1>1, <3>1
  <2>6. CASE \/ HasThread \/ NoThreadError \/ hardfile_open \/ hardfile_close
             \/ add_async_request \/ hardfile_beginio
             \/ DoQuick \/ QuickReply \/ QuickReturn \/ abort_async \/ AbortSpins
    <3>1. cpu.pc # "cause" /\ cpu'.pc # "cause"  BY <1>1, <2>6, TrapGoesOn
    <3>2. UNCHANGED <<thread, change_sem, dying>>
      BY <2>6 DEF HasThread, NoThreadError, hardfile_open, hardfile_close,
                  add_async_request, hardfile_beginio, DoQuick, QuickReply,
                  QuickReturn, abort_async, AbortSpins, OnlyCpu, thrVars
    <3> QED  BY <1>1, <3>1, <3>2
  <2> QED
    BY <1>4, <2>1, <2>2, <2>3, <2>4, <2>5, <2>6 DEF TrapSteps
<1>5. CASE Deliver \/ UNCHANGED vars
  BY <1>1, <1>5 DEF Deliver, vars, thrVars
<1>6. CASE Dies
  BY <1>1, <1>6 DEF Dies
<1>7. CASE ThreadSteps
  <2>1. CASE ThreadStarts \/ ReadRequest
    <3>1. thread.pc \notin Working /\ thread'.pc \notin Working
          /\ UNCHANGED <<change_sem, cpu, dying>>
      BY <1>1, <2>1 DEF ThreadStarts, ReadRequest, Idle, NoThread, ThreadTypes
    <3> QED  BY <1>1, <3>1
  <2>2. CASE Terminate
    <3>1. /\ thread'.pc = "none" /\ thread.pc = "lock" /\ change_sem = 1
          /\ change_sem' = 0 /\ dying' = "post" /\ cpu' = cpu
      BY <2>2 DEF Terminate, NoThread
    <3> QED  BY <1>1, <3>1
  <2>3. CASE Lock
    <3>1. /\ thread'.pc = "io" /\ change_sem = 1 /\ change_sem' = 0
          /\ UNCHANGED <<cpu, dying>>
      BY <1>1, <2>3 DEF Lock, ThreadGoto, OnlyThread, ThreadTypes
    <3> QED  BY <1>1, <3>1
  <2>4. CASE AddChangeInt \/ DoIo \/ ReleaseEntry \/ FreeIobuf \/ ClearType
    <3>1. thread.pc \in Working /\ thread'.pc \in Working
      BY <1>1, <2>4 DEF AddChangeInt, DoIo, ReleaseEntry, FreeIobuf, ClearType,
                        ThreadGoto, ThreadTypes
    <3>2. UNCHANGED <<change_sem, cpu, dying>>
      BY <2>4 DEF AddChangeInt, DoIo, ReleaseEntry, FreeIobuf, ClearType,
                  OnlyThread
    <3> QED  BY <1>1, <3>1, <3>2
  <2>5. CASE StaysAsync \/ ThreadReply
    <3>1. /\ thread.pc \in Working /\ thread'.pc = "read"
          /\ change_sem' = change_sem + 1 /\ UNCHANGED <<cpu, dying>>
      BY <2>5 DEF StaysAsync, ThreadReply, Idle, NoThread, OnlyThread
    <3>2. change_sem = 0 /\ change_sem' = 1  BY <1>1, <3>1
    <3> QED  BY <1>1, <3>1, <3>2
  <2> QED  BY <1>7, <2>1, <2>2, <2>3, <2>4, <2>5 DEF ThreadSteps
<1> QED  BY <1>2, <1>3, <1>4, <1>5, <1>6, <1>7

\* A trap that waits for its new thread has sent it nothing yet.
LEMMA NextSyncKept ==
    ASSUME HardTypes, [Next]_vars
    PROVE  SyncKept'
<1>1. /\ SyncKept /\ MutexKept /\ CpuTypes /\ ThreadTypes /\ PipeTypes
      /\ sync_sem \in Nat /\ change_sem \in {0, 1}
      /\ dying \in {"no", "post", "unlock"}
  BY SMT DEF HardTypes, TypeOK
<1>2. \/ Program \/ TrapSteps \/ Deliver \/ ThreadSteps \/ Dies
      \/ UNCHANGED vars
  BY DEF Next
\* Nothing changes but where cpu is, and that is not in sync.
<1>3. ASSUME UNCHANGED <<sync_sem, dying, thread>>, cpu.pc # "sync",
             cpu'.pc # "sync"
      PROVE  SyncKept'
  BY <1>1, <1>3 DEF SyncKept, Posts
\* The thread goes on, not to start and not from there.
<1>4. ASSUME UNCHANGED <<sync_sem, dying, cpu>>, thread.pc \notin {"none", "start"},
             thread'.pc \notin {"none", "start"}, Pending' \subseteq Pending
      PROVE  SyncKept'
  BY <1>1, <1>4 DEF SyncKept, Posts
<1>5. CASE Program
  <2>1. cpu.pc = "guest" /\ cpu'.pc \in {"start", "send", "lock"}
    BY <1>5 DEF Program, Open, Close, DiskChange, BeginIO, RemChangeInt,
                AbortIO, Trap, InGuest
  <2>2. UNCHANGED <<sync_sem, thread, dying>>
    BY <1>5 DEF Program, Open, Close, DiskChange, BeginIO, RemChangeInt,
                AbortIO, OnlyCpu, thrVars
  <2> QED  BY <1>3, <2>1, <2>2
<1>6. CASE TrapSteps
  <2>1. CASE start_thread
    <3>1. /\ thread'.pc = "start" /\ sync_sem' = 0 /\ dying' = dying
          /\ cpu'.pc = "sync"
      BY <1>1, <2>1 DEF start_thread, NoThread, Goto, CpuTypes
    <3>2. Terminator \notin Pending'
      <4>1. requests' = << >> /\ thread'.pc = "start"
        BY <2>1, <3>1 DEF start_thread
      <4>2. Range(requests') = {}  BY <4>1 DEF Range
      <4> QED  BY <4>1, <4>2 DEF Pending, InHand
    <3> QED  BY <1>1, <3>1, <3>2 DEF SyncKept, Posts
  <2>2. CASE SyncWait
    <3>1. /\ cpu.pc = "sync" /\ cpu'.pc = "work" /\ sync_sem' = sync_sem - 1
          /\ UNCHANGED <<thread, dying>>
      BY <1>1, <2>2 DEF SyncWait, Goto, CpuTypes
    <3> QED  BY <1>1, <3>1 DEF SyncKept, Posts
  <2>3. CASE \/ HasThread \/ NoThreadError \/ hardfile_open \/ hardfile_close
             \/ add_async_request \/ hardfile_beginio
             \/ DoQuick \/ QuickReply \/ QuickReturn \/ abort_async \/ AbortSpins
    <3>1. cpu.pc # "sync" /\ cpu'.pc # "sync"  BY <1>1, <2>3, TrapGoesOn
    <3>2. UNCHANGED <<thread, sync_sem, dying>>
      BY <2>3 DEF HasThread, NoThreadError, hardfile_open, hardfile_close,
                  add_async_request, hardfile_beginio, DoQuick, QuickReply,
                  QuickReturn, abort_async, AbortSpins, OnlyCpu, thrVars
    <3> QED  BY <1>3, <3>1, <3>2
  <2>4. CASE ChangeLock \/ ChangeCause \/ hardfile_send_disk_change
    <3>1. cpu.pc # "sync" /\ cpu'.pc # "sync"
      <4>1. CASE ChangeLock \/ ChangeCause
        BY <1>1, <4>1 DEF At, ChangeLock, ChangeCause, CpuTypes
      <4>2. CASE hardfile_send_disk_change
        BY <4>2 DEF At, hardfile_send_disk_change, InGuest
      <4> QED  BY <2>4, <4>1, <4>2
    <3>2. UNCHANGED <<thread, sync_sem, dying>>
      BY <2>4 DEF thrVars, ChangeLock, ChangeCause, hardfile_send_disk_change
    <3> QED  BY <1>3, <3>1, <3>2
  <2> QED  BY <1>6, <2>1, <2>2, <2>3, <2>4 DEF TrapSteps
<1>7. CASE Deliver
  BY <1>3, <1>7 DEF Deliver, thrVars
<1>8. CASE UNCHANGED vars
  <2>1. UNCHANGED <<sync_sem, dying, thread, cpu, requests>>
    BY <1>8 DEF vars, thrVars
  <2> QED  BY <1>1, <2>1 DEF SyncKept, Posts, Pending, InHand
<1>9. CASE Dies
  <2>1. UNCHANGED <<thread, cpu, requests>> /\ Pending' = Pending
    BY <1>9 DEF Dies, Pending, InHand
  <2>2. \/ dying = "post" /\ dying' = "unlock" /\ sync_sem' = sync_sem + 1
        \/ dying = "unlock" /\ dying' = "no" /\ sync_sem' = sync_sem
    BY <1>9 DEF Dies
  <2> QED  BY <1>1, <2>1, <2>2 DEF SyncKept, Posts
<1>10. CASE ThreadSteps
  <2>1. CASE ThreadStarts
    <3>1. /\ thread.pc = "start" /\ thread'.pc = "read"
          /\ sync_sem' = sync_sem + 1 /\ UNCHANGED <<cpu, dying, requests>>
      BY <2>1 DEF ThreadStarts, Idle, NoThread
    <3>2. Pending' = Pending  BY <3>1 DEF Pending, InHand
    <3> QED  BY <1>1, <3>1, <3>2 DEF SyncKept, Posts
  <2>2. CASE ReadRequest
    <3>1. /\ thread.pc = "read" /\ thread'.pc = "lock"
          /\ thread'.msg = Head(requests) /\ requests' = Tail(requests)
          /\ requests # << >> /\ UNCHANGED <<sync_sem, dying, cpu>>
      BY <1>1, <2>2 DEF ReadRequest, ThreadTypes
    <3>2. Pending' \subseteq Pending
      <4>1. Range(requests') \cup {Head(requests)} \subseteq Range(requests)
        BY <1>1, <3>1, HeadTailProperties, LenProperties, SMT
           DEF Range, PipeTypes
      <4> QED  BY <3>1, <4>1 DEF Pending, InHand
    <3> QED  BY <1>4, <3>1, <3>2
  <2>3. CASE Terminate
    <3>1. /\ thread.pc = "lock" /\ thread.msg = Terminator /\ thread'.pc = "none"
          /\ change_sem = 1 /\ dying' = "post" /\ UNCHANGED <<cpu, sync_sem>>
      BY <2>3 DEF Terminate, NoThread
    <3>2. Terminator \in Pending  BY <3>1 DEF Pending, InHand
    <3>3. cpu.pc # "sync" /\ dying = "no"
      BY <1>1, <3>1, <3>2 DEF SyncKept, MutexKept
    <3> QED  BY <1>1, <3>1, <3>3 DEF SyncKept, Posts
  <2>4. CASE \/ Lock \/ AddChangeInt \/ DoIo \/ ReleaseEntry \/ FreeIobuf
             \/ ClearType \/ StaysAsync \/ ThreadReply
    <3>1. /\ UNCHANGED <<sync_sem, dying, cpu, requests>>
          /\ thread.pc \notin {"none", "start"}
      BY <2>4 DEF Lock, AddChangeInt, DoIo, ReleaseEntry, FreeIobuf,
                  ClearType, StaysAsync, ThreadReply, OnlyThread
    <3>2. /\ thread'.pc \notin {"none", "start"}
          /\ thread'.pc = "read" \/ thread'.msg = thread.msg
          /\ thread.pc \notin {"none", "start", "read"}
      BY <1>1, <2>4 DEF Lock, AddChangeInt, DoIo, ReleaseEntry, FreeIobuf,
                  ClearType, StaysAsync, ThreadReply, ThreadGoto, Idle, NoThread,
                  ThreadTypes
    <3>3. Pending' \subseteq Pending  BY <3>1, <3>2 DEF Pending, InHand
    <3> QED  BY <1>4, <3>1, <3>2, <3>3
  <2> QED  BY <1>10, <2>1, <2>2, <2>3, <2>4 DEF ThreadSteps
<1> QED  BY <1>2, <1>5, <1>6, <1>7, <1>8, <1>9, <1>10

\* The types of the table and of what the program keeps.
LEMMA NextTypeOK ==
    ASSUME HardTypes, [Next]_vars
    PROVE  TypeOK'
<1>1. /\ TypeOK /\ CpuTypes /\ ThreadTypes /\ MutexKept /\ SyncKept
      /\ CpuTypes' /\ ThreadTypes' /\ PipeTypes' /\ MutexKept' /\ SyncKept'
  BY NextCpuTypes, NextThreadTypes, NextPipeTypes, NextMutexKept, NextSyncKept
     DEF HardTypes
<1>2. \/ Program \/ TrapSteps \/ Deliver \/ ThreadSteps \/ Dies
      \/ UNCHANGED vars
  BY DEF Next
<1> DEFINE Entry == [request : Requests \cup {None}, iobuf : Bufs \cup {None},
                     type : {"none", "TEMP", "CHANGEINT"}]
<1>3. ASSUME NEW r, Released(r)
      PROVE  table' \in [Slot -> Entry] /\ malloced' \subseteq Bufs
  <2>1. Empty \in Entry  BY DEF Empty
  <2> HIDE DEF Entry
  <2>2. table \in [Slot -> Entry] /\ malloced \subseteq Bufs
    BY <1>1 DEF TypeOK, Entry
  <2>3. CASE SlotsOf(r) = {}
    BY <1>3, <2>2, <2>3 DEF Released, tables
  <2>4. CASE SlotsOf(r) # {}
    <3>1. /\ table' = [table EXCEPT ![First(SlotsOf(r))] = Empty]
          /\ malloced' \subseteq malloced
      BY <1>3, <2>4 DEF Released
    <3> QED  BY <2>1, <2>2, <3>1
  <2> QED  BY <2>3, <2>4
<1>4. table' \in [Slot -> Entry] /\ malloced' \subseteq Bufs
  <2>1. CASE Program \/ Deliver \/ Dies \/ UNCHANGED vars
    <3>1. table' = table /\ malloced' = malloced
      BY <2>1 DEF Program, Open, Close, DiskChange, BeginIO, RemChangeInt,
                  AbortIO, OnlyCpu, Deliver, Dies, vars, tables
    <3> QED  BY <1>1, <3>1 DEF TypeOK
  <2>2. CASE DoQuick \/ abort_async
    BY <1>3, <2>2 DEF DoQuick, abort_async
  <2>3. CASE start_thread
    BY <1>1, <2>3 DEF start_thread, Empty, TypeOK
  <2>4. CASE add_async_request
    <3>1. cpu.request \in Requests
      BY <1>1, <2>4 DEF add_async_request, At, CpuTypes
    <3> DEFINE i == EntryFor(cpu.request)
    <3>2. PICK b \in Bufs :
              /\ malloced' = malloced \cup {b}
              /\ table' = [j \in Slot |->
                     IF j = i THEN [table[j] EXCEPT !.request = cpu.request]
                     ELSE table[j]]
      BY <2>4 DEF add_async_request
    <3> HIDE DEF i
    <3> QED  BY <1>1, <3>1, <3>2 DEF TypeOK
  <2>5. CASE hardfile_beginio
    <3>1. cpu.iobuf \in Bufs
      BY <1>1, <2>5 DEF hardfile_beginio, CpuTypes
    <3>2. /\ malloced' = malloced
          /\ table' = [j \in Slot |->
                 IF j = cpu.slot THEN [table[j] EXCEPT !.iobuf = cpu.iobuf,
                                                       !.type = "TEMP"]
                 ELSE table[j]]
      BY <2>5 DEF hardfile_beginio
    <3>3. \A e \in Entry :
              [e EXCEPT !.iobuf = cpu.iobuf, !.type = "TEMP"] \in Entry
      BY <3>1
    <3>4. table \in [Slot -> Entry] /\ malloced \subseteq Bufs
      BY <1>1 DEF TypeOK
    <3> HIDE DEF Entry
    <3> QED  BY <3>2, <3>3, <3>4
  <2>6. CASE \/ HasThread \/ SyncWait \/ NoThreadError \/ hardfile_open
             \/ hardfile_close \/ QuickReply \/ QuickReturn \/ AbortSpins
             \/ ChangeLock \/ ChangeCause \/ hardfile_send_disk_change
    <3>1. table' = table /\ malloced' = malloced
      BY <2>6 DEF HasThread, SyncWait, NoThreadError, hardfile_open,
                  hardfile_close, QuickReply, QuickReturn, AbortSpins,
                  ChangeLock, ChangeCause, hardfile_send_disk_change, OnlyCpu, tables
    <3> QED  BY <1>1, <3>1 DEF TypeOK
  <2>7. CASE \/ ThreadStarts \/ ReadRequest \/ Terminate \/ Lock \/ DoIo
             \/ StaysAsync \/ ThreadReply
    <3>1. table' = table /\ malloced' = malloced
      BY <2>7 DEF ThreadStarts, ReadRequest, Terminate, Lock, DoIo,
                  StaysAsync, ThreadReply, tables
    <3> QED  BY <1>1, <3>1 DEF TypeOK
  <2>8. CASE AddChangeInt
    <3> DEFINE m == thread.msg
    <3>1. m.request \in Requests /\ m.iobuf \in Bufs
      BY <1>1, <2>8, MessageIs DEF AddChangeInt, ThreadTypes, Working
    <3> HIDE DEF m
    <3>2. PICK i \in 0 .. Slots :
              /\ malloced' = malloced /\ i # 0
              /\ table' = [table EXCEPT ![i] =
                     [request |-> m.request, type |-> "CHANGEINT",
                      iobuf |-> IF @.request = m.request THEN @.iobuf
                                ELSE m.iobuf]]
      BY <2>8, EntryForIs DEF AddChangeInt, m
    <3>3. i \in Slot  BY <3>2, Numbers, SMT DEF Slot
    <3>4. table[i].iobuf \in Bufs \cup {None}
      BY <1>1, <3>3 DEF TypeOK
    <3> QED  BY <1>1, <3>1, <3>2, <3>3, <3>4 DEF TypeOK
  <2>9. CASE ReleaseEntry \/ FreeIobuf \/ ClearType
    <3>1. /\ malloced' \subseteq malloced
          /\ \/ table' = table
             \/ \E i \in Slot : \/ table' = [table EXCEPT ![i].request = None]
                                \/ table' = [table EXCEPT ![i].iobuf = None]
                                \/ table' = [table EXCEPT ![i].type = "none"]
      BY <1>1, <2>9, EntryForIs
         DEF ReleaseEntry, FreeIobuf, ClearType, ThreadTypes
    <3> QED  BY <1>1, <3>1 DEF TypeOK
  <2> QED
    BY <1>2, <2>1, <2>2, <2>3, <2>4, <2>5, <2>6, <2>7, <2>8, <2>9
       DEF TrapSteps, ThreadSteps
<1>5. sync_sem' \in 0 .. 2 /\ change_sem' \in {0, 1} /\ thread_running' \in BOOLEAN
      /\ dying' \in {"no", "post", "unlock"}
  <2>1. /\ dying' \in {"no", "post", "unlock"} /\ sync_sem' \in Nat
        /\ change_sem' \in {0, 1} /\ thread_running' \in BOOLEAN
    <3>1. CASE Program \/ Deliver \/ UNCHANGED vars
      BY <1>1, <3>1 DEF TypeOK, Program, Open, Close, DiskChange, BeginIO,
                  RemChangeInt, AbortIO, OnlyCpu, Deliver, vars, thrVars
    <3>2. CASE Dies
      BY <1>1, <3>2, SMT DEF TypeOK, Dies
    <3>3. CASE SyncWait
      BY <1>1, <3>3, SMT DEF TypeOK, SyncWait, guest
    <3>4. CASE start_thread
      BY <1>1, <3>4, SMT DEF TypeOK, start_thread
    <3>5. CASE ChangeLock \/ ChangeCause \/ hardfile_send_disk_change
      <4>1. cpu.pc = "cause" => change_sem = 0  BY <1>1 DEF MutexKept
      <4> QED
        BY <1>1, <3>5, <4>1, SMT DEF TypeOK, ChangeLock, ChangeCause, At,
                                     hardfile_send_disk_change, thrVars
    <3>6. CASE \/ HasThread \/ NoThreadError \/ hardfile_open \/ hardfile_close
               \/ add_async_request \/ hardfile_beginio
               \/ DoQuick \/ QuickReply \/ QuickReturn \/ abort_async \/ AbortSpins
      <4>1. UNCHANGED <<sync_sem, change_sem, thread_running, dying>>
        BY <3>6 DEF HasThread, NoThreadError, hardfile_open, hardfile_close,
                    add_async_request, hardfile_beginio, DoQuick, QuickReply,
                    QuickReturn, abort_async, AbortSpins, OnlyCpu, thrVars
      <4> QED  BY <1>1, <4>1, SMT DEF TypeOK
    <3>7. CASE ThreadStarts \/ ReadRequest \/ Terminate
      <4>1. sync_sem \in Nat /\ sync_sem + 1 \in Nat /\ 0 \in {0, 1}
        BY <1>1, SMT DEF TypeOK
      <4>2. CASE ThreadStarts  BY <1>1, <4>1, <4>2 DEF TypeOK, ThreadStarts
      <4>3. CASE ReadRequest  BY <1>1, <4>1, <4>3 DEF TypeOK, ReadRequest
      <4>4. CASE Terminate  BY <1>1, <4>1, <4>4 DEF TypeOK, Terminate
      <4> QED  BY <3>7, <4>2, <4>3, <4>4
    <3>8. CASE \/ Lock \/ AddChangeInt \/ DoIo \/ ReleaseEntry \/ FreeIobuf
               \/ ClearType
      BY <1>1, <3>8, SMT DEF TypeOK, Lock, AddChangeInt, DoIo, ReleaseEntry,
                             FreeIobuf, ClearType, OnlyThread
    <3>9. CASE StaysAsync \/ ThreadReply
      <4>1. change_sem = 0
        BY <1>1, <3>9 DEF MutexKept, Working, StaysAsync, ThreadReply
      <4> QED  BY <1>1, <3>9, <4>1, SMT
               DEF TypeOK, StaysAsync, ThreadReply, OnlyThread
    <3> QED  BY <1>2, <3>1, <3>2, <3>3, <3>4, <3>5, <3>6, <3>7, <3>8, <3>9
             DEF TrapSteps, ThreadSteps
  <2>2. sync_sem' <= 2
    <3>1. sync_sem' \in Nat  BY <2>1
    <3>2. /\ (IF thread'.pc = "start" THEN 1 ELSE 0) \in {0, 1}
          /\ (IF dying' = "post" THEN 1 ELSE 0) \in {0, 1}
      OBVIOUS
    <3>3. sync_sem' + (IF thread'.pc = "start" THEN 1 ELSE 0)
                    + (IF dying' = "post" THEN 1 ELSE 0) <= 2
      BY <1>1 DEF SyncKept, Posts
    <3>4. ASSUME NEW s \in Nat, NEW a \in {0, 1}, NEW b \in {0, 1},
                 s + a + b <= 2
          PROVE  s <= 2
      BY <3>4, SMT
    <3> QED  BY <3>1, <3>2, <3>3, <3>4
  <2> QED  BY <2>1, <2>2, SMT
<1>6. /\ opened' \in BOOLEAN
      /\ owner' \in [Requests -> {"guest", "device"}]
      /\ cmd' \in [Requests -> {"none", "io", "add", "rem", "quickrem"}]
  <2>1. CASE Program
    BY <1>1, <2>1 DEF TypeOK, Program, Open, Close, DiskChange, BeginIO,
                      RemChangeInt, AbortIO, OnlyCpu, guest
  <2>2. CASE hardfile_open \/ hardfile_close
    BY <1>1, <2>2 DEF TypeOK, hardfile_open, hardfile_close
  <2>3. CASE NoThreadError \/ QuickReturn \/ Deliver
    <3>1. opened' = opened /\ \/ owner' = owner /\ cmd' = cmd
                              \/ \E r : /\ owner' = [owner EXCEPT ![r] = "guest"]
                                        /\ cmd' = [cmd EXCEPT ![r] = "none"]
      BY <2>3 DEF NoThreadError, QuickReturn, Deliver, GivenBack
    <3> QED  BY <1>1, <3>1 DEF TypeOK
  <2>4. CASE Dies \/ ThreadSteps \/ UNCHANGED vars
    <3>1. UNCHANGED guest
      BY <2>4 DEF Dies, ThreadSteps, ThreadStarts, ReadRequest, Terminate, Lock,
                  AddChangeInt, DoIo, StaysAsync, ReleaseEntry, FreeIobuf,
                  ClearType, ThreadReply, OnlyThread, vars
    <3> QED  BY <1>1, <3>1 DEF TypeOK, guest
  <2>5. CASE /\ TrapSteps /\ ~NoThreadError /\ ~QuickReturn
             /\ ~hardfile_open /\ ~hardfile_close
    <3>1. UNCHANGED guest
      BY <2>5 DEF TrapSteps, start_thread, HasThread, SyncWait,
                  add_async_request, hardfile_beginio, DoQuick, QuickReply,
                  abort_async, AbortSpins, ChangeLock, ChangeCause,
                  hardfile_send_disk_change
    <3> QED  BY <1>1, <3>1 DEF TypeOK, guest
  <2> QED  BY <1>2, <2>1, <2>2, <2>3, <2>4, <2>5
<1>7. /\ \A k \in DOMAIN requests' : requests'[k] \in Message
      /\ thread'.msg \in Message /\ thread'.slot \in 0 .. Slots
      /\ cpu'.request \in Requests \cup {None}
      /\ cpu'.slot \in 0 .. Slots + 1 /\ cpu'.iobuf \in Bufs \cup {None}
  <2>1. \A k \in DOMAIN requests' : requests'[k] \in Message
    BY <1>1, ElementOfSeq, LenProperties DEF PipeTypes
  <2> QED  BY <1>1, <2>1 DEF CpuTypes, ThreadTypes
<1> QED  BY <1>4, <1>5, <1>6, <1>7 DEF TypeOK

LEMMA NextHardTypes == HardTypes /\ [Next]_vars => HardTypes'
  BY NextTypeOK, NextCpuTypes, NextThreadTypes, NextPipeTypes, NextMutexKept,
     NextSyncKept DEF HardTypes

\* The types are right, change_sem is a mutex, and sync_sem is posted twice at
\* most before it is taken, whatever becomes of the table.
THEOREM TypeCorrect == Spec => []TypeOK
<1>1. Init => HardTypes  BY InitHardTypes
<1>2. HardTypes /\ [Next]_vars => HardTypes'  BY NextHardTypes
<1>3. HardTypes => TypeOK  BY DEF HardTypes
<1> QED  BY <1>1, <1>2, <1>3, PTL DEF Spec

-----------------------------------------------------------------------------
(* Sequences.                                                              *)

LEMMA Appended ==
    ASSUME NEW S, NEW s \in Seq(S), NEW e \in S
    PROVE  /\ Len(s) \in Nat /\ Len(s) + 1 \notin DOMAIN s
           /\ DOMAIN Append(s, e) = DOMAIN s \cup {Len(s) + 1}
           /\ \A k \in DOMAIN s :
                 k \in Nat /\ k < Len(s) + 1 /\ Append(s, e)[k] = s[k]
           /\ Append(s, e)[Len(s) + 1] = e
           /\ Range(Append(s, e)) = Range(s) \cup {e}
<1>1. /\ Append(s, e) \in Seq(S) /\ Len(Append(s, e)) = Len(s) + 1
      /\ \A k \in 1 .. Len(s) : Append(s, e)[k] = s[k]
      /\ Append(s, e)[Len(s) + 1] = e
  BY AppendProperties
<1>2. /\ Len(s) \in Nat /\ DOMAIN s = 1 .. Len(s)
      /\ DOMAIN Append(s, e) = 1 .. Len(Append(s, e))
  BY <1>1, LenProperties
<1>3. /\ Len(s) + 1 \notin DOMAIN s
      /\ DOMAIN Append(s, e) = DOMAIN s \cup {Len(s) + 1}
      /\ \A k \in DOMAIN s : k \in Nat /\ k < Len(s) + 1
  BY <1>1, <1>2, SMT
<1>4. Range(Append(s, e)) = Range(s) \cup {e}
  BY <1>1, <1>2, <1>3 DEF Range
<1> QED  BY <1>1, <1>2, <1>3, <1>4

LEMMA Removed ==
    ASSUME NEW S, NEW s \in Seq(S), s # << >>
    PROVE  /\ 1 \in DOMAIN s /\ Head(s) = s[1]
           /\ \A k \in DOMAIN Tail(s) :
                 /\ k \in Nat /\ k + 1 \in DOMAIN s /\ 1 < k + 1
                 /\ Tail(s)[k] = s[k + 1]
           /\ \A k \in DOMAIN s : k = 1 \/ \E j \in DOMAIN Tail(s) : k = j + 1
           /\ Range(s) = Range(Tail(s)) \cup {Head(s)}
<1>1. /\ Tail(s) \in Seq(S) /\ Len(Tail(s)) = Len(s) - 1
      /\ \A k \in 1 .. Len(Tail(s)) : Tail(s)[k] = s[k + 1]
  BY HeadTailProperties
<1>2. /\ Len(s) \in Nat /\ DOMAIN s = 1 .. Len(s) /\ Len(s) # 0
      /\ DOMAIN Tail(s) = 1 .. Len(Tail(s))
  BY <1>1, LenProperties, EmptySeq
<1>3. Head(s) = s[1]  OBVIOUS
<1>4. /\ 1 \in DOMAIN s
      /\ \A k \in DOMAIN Tail(s) : k \in Nat /\ k + 1 \in DOMAIN s /\ 1 < k + 1
  BY <1>1, <1>2, SMT
<1>5. ASSUME NEW k \in DOMAIN s, k # 1
      PROVE  k - 1 \in DOMAIN Tail(s) /\ k = (k - 1) + 1
  BY <1>1, <1>2, <1>5, SMT
<1>6. \A k \in DOMAIN s : k = 1 \/ \E j \in DOMAIN Tail(s) : k = j + 1
  BY <1>5, Zenon
<1>7. Range(s) = Range(Tail(s)) \cup {Head(s)}
  BY <1>1, <1>2, <1>3, <1>4, <1>6 DEF Range
<1> QED  BY <1>1, <1>2, <1>3, <1>4, <1>6, <1>7

-----------------------------------------------------------------------------
(* What follows from HardInv at once.                                      *)

LEMMA PendingIs ==
    ASSUME HardInv
    PROVE  /\ Pending \subseteq Message /\ Unreleased \subseteq Asked
           /\ \A m \in Asked :
                 /\ m # Terminator /\ m.request \in Requests /\ m.request # None
                 /\ m.iobuf \in Bufs /\ m.cmd \in {"io", "add"}
                 /\ owner[m.request] = "device" /\ cmd[m.request] = m.cmd
           /\ \A m, n \in Asked : m.request = n.request => m = n
           /\ \A k \in DOMAIN requests : requests[k] \in Pending
           /\ thread.pc \notin Outside => thread.msg \in Pending
           /\ thread.pc \in Outside => Pending = Range(requests)
           /\ \A m \in Pending : m = thread.msg \/ m \in Range(requests)
<1>1. /\ requests \in Seq(Message) /\ thread.msg \in Message
      /\ MessagesKept
  BY DEF HardInv, HardTypes, PipeTypes, ThreadTypes
<1>2. InHand = IF thread.pc \in Outside THEN {} ELSE {thread.msg}
  BY DEF InHand, Outside
<1>3. Pending \subseteq Message
  BY <1>1, <1>2, RangeOfSeq DEF Pending
<1>4. Unreleased \subseteq Asked  BY DEF Unreleased, Asked
<1>5. ASSUME NEW m \in Asked
      PROVE  /\ m # Terminator /\ m.request \in Requests /\ m.request # None
             /\ m.iobuf \in Bufs /\ m.cmd \in {"io", "add"}
             /\ owner[m.request] = "device" /\ cmd[m.request] = m.cmd
  <2>1. m \in Message /\ m # Terminator  BY <1>3 DEF Asked
  <2> QED  BY <1>1, <2>1, MessageIs, Numbers DEF MessagesKept
<1>6. \A k \in DOMAIN requests : requests[k] \in Pending
  BY DEF Pending, Range
<1>7. /\ thread.pc \notin Outside => thread.msg \in Pending
      /\ thread.pc \in Outside => Pending = Range(requests)
      /\ \A m \in Pending : m = thread.msg \/ m \in Range(requests)
  BY <1>2 DEF Pending
<1>8. ASSUME NEW m \in Asked, NEW n \in Asked, m.request = n.request
      PROVE  m = n
  <2>1. m # Terminator /\ n # Terminator /\ m \in Pending /\ n \in Pending
    BY DEF Asked
  <2>2. CASE m \in Range(requests) /\ n \in Range(requests)
    <3>1. PICK j \in DOMAIN requests : requests[j] = m  BY <2>2 DEF Range
    <3>2. PICK k \in DOMAIN requests : requests[k] = n  BY <2>2 DEF Range
    <3>3. j = k  BY <1>1, <1>8, <2>1, <3>1, <3>2 DEF MessagesKept
    <3> QED  BY <3>1, <3>2, <3>3
  <2>3. ASSUME NEW p \in Asked, NEW q \in Asked, p.request = q.request,
               p = thread.msg, p \notin Range(requests), q \in Range(requests)
        PROVE  FALSE
    <3>1. thread.pc \notin Outside  BY <1>7, <2>3 DEF Asked
    <3>2. p # Terminator  BY DEF Asked
    <3>3. PICK k \in DOMAIN requests : requests[k] = q  BY <2>3 DEF Range
    <3> QED  BY <1>1, <2>3, <3>1, <3>2, <3>3 DEF MessagesKept
  <2> QED  BY <1>7, <1>8, <2>1, <2>2, <2>3
<1> QED  BY <1>3, <1>4, <1>5, <1>6, <1>7, <1>8

LEMMA EntryIs ==
    ASSUME HardInv, NEW i \in Slot
    PROVE  /\ table[i].request \in Requests =>
                  TempEntry(i) \/ ChangeEntry(i) \/ FillEntry(i)
           /\ table[i].request = None => table[i] = Empty \/ DoneEntry(i)
           /\ TempEntry(i) => table[i].request \in Requests
           /\ ChangeEntry(i) => table[i].request \in Requests
           /\ FillEntry(i) => table[i].request \in Requests /\ cpu.op = "begin"
           /\ table[i].request \in Requests \cup {None}
<1>1. /\ table[i] = Empty \/ TempEntry(i) \/ ChangeEntry(i) \/ FillEntry(i)
         \/ DoneEntry(i)
      /\ table[i].request \in Requests \cup {None}
  BY DEF HardInv, EntriesKept, HardTypes, TypeOK
<1>2. /\ table[i] = Empty => table[i].request = None
      /\ DoneEntry(i) => table[i].request = None
      /\ ChangeEntry(i) => table[i].request \in Requests
  BY DEF Empty, DoneEntry, ChangeEntry
<1>3. TempEntry(i) => table[i].request \in Requests
  BY PendingIs DEF TempEntry
<1>4. FillEntry(i) => table[i].request \in Requests /\ cpu.op = "begin"
  BY DEF FillEntry, HardInv, HardTypes, CpuTypes
<1> QED  BY <1>1, <1>2, <1>3, <1>4, Numbers

-----------------------------------------------------------------------------
(* What a step leaves alone.                                               *)

LEMMA PendingFrame ==
    ASSUME UNCHANGED <<requests, thread>>
    PROVE  Pending' = Pending /\ Unreleased' = Unreleased /\ Asked' = Asked
<1>1. Pending' = Pending  BY DEF Pending, InHand
<1> QED  BY <1>1 DEF Unreleased, Asked

LEMMA MessagesFrame ==
    ASSUME HardInv, UNCHANGED <<requests, thread>>
    PROVE  /\ EndsFirst'
           /\ (\A m \in Asked : owner'[m.request] = owner[m.request]
                                /\ cmd'[m.request] = cmd[m.request])
                  => MessagesKept'
<1>1. Asked' = Asked  BY PendingFrame
<1>2. EndsFirst'  BY DEF HardInv, EndsFirst
<1>3. ASSUME \A m \in Asked : owner'[m.request] = owner[m.request]
                              /\ cmd'[m.request] = cmd[m.request]
      PROVE  MessagesKept'
  BY <1>1, <1>3 DEF HardInv, MessagesKept
<1> QED  BY <1>2, <1>3

LEMMA StillFrame ==
    ASSUME HardInv, UNCHANGED <<requests, thread>>,
           \A i \in Slot : table'[i].type = "CHANGEINT"
                               => table[i].type = "CHANGEINT"
    PROVE  StillKept'
<1>1. Still' = Still  BY PendingFrame DEF Still
<1> QED  BY <1>1 DEF HardInv, StillKept

LEMMA TableFrame ==
    ASSUME HardInv, UNCHANGED <<table, malloced, requests, thread>>
    PROVE  OneEach' /\ BuffersLive' /\ TempWhileProcessing'
<1>1. Unreleased' = Unreleased  BY PendingFrame
<1> QED
  BY <1>1 DEF HardInv, OneEach, BuffersLive, TempWhileProcessing

LEMMA EntriesFrame ==
    ASSUME HardInv, UNCHANGED <<table, malloced, requests, thread>>,
           cpu.pc # "fill",
           \A i \in Slot :
               ChangeEntry(i) =>
                   /\ owner'[table[i].request] = "device"
                   /\ cmd'[table[i].request] \in {"add", "rem", "quickrem"}
    PROVE  EntriesKept'
<1>1. Unreleased' = Unreleased  BY PendingFrame
<1>2. ASSUME NEW i \in Slot
      PROVE  (table[i] = Empty \/ TempEntry(i) \/ ChangeEntry(i) \/ DoneEntry(i))'
  <2>1. table[i] = Empty \/ TempEntry(i) \/ ChangeEntry(i) \/ DoneEntry(i)
    BY DEF HardInv, EntriesKept, FillEntry
  <2>2. CASE table[i] = Empty  BY <2>2 DEF Empty
  <2>3. CASE TempEntry(i)  BY <1>1, <2>3 DEF TempEntry
  <2>4. CASE ChangeEntry(i)  BY <1>1, <2>4 DEF ChangeEntry
  <2>5. CASE DoneEntry(i)  BY <2>5 DEF DoneEntry
  <2> QED  BY <2>1, <2>2, <2>3, <2>4, <2>5
<1> QED  BY <1>2 DEF EntriesKept

LEMMA CpuFrame ==
    ASSUME cpu' = InGuest
    PROVE  CpuKept' /\ FillKept'
  BY DEF CpuKept, FillKept, InGuest

LEMMA RepliesFrame ==
    ASSUME HardInv, UNCHANGED replies,
           \A r \in Requests : SlotsOf(r)' \subseteq SlotsOf(r),
           Pending' \subseteq Pending,
           \A k \in DOMAIN replies :
               replies[k].fun = "ReplyMsg" =>
                   /\ owner'[replies[k].request] = "device"
                   /\ cmd'[replies[k].request] \in {"io", "rem"}
    PROVE  RepliesKept'
  BY DEF HardInv, RepliesKept

-----------------------------------------------------------------------------
(* The steps one by one, as long as TableKept.                             *)

\* The steps that change nothing but where a trap is.
QuietSteps ==
    \/ Open \/ Close \/ DiskChange \/ \E r \in Requests : AbortIO(r)
    \/ HasThread \/ SyncWait \/ hardfile_open \/ AbortSpins
    \/ ChangeLock \/ hardfile_send_disk_change \/ Dies \/ UNCHANGED vars

LEMMA QuietKept ==
    ASSUME HardInv, HardTypes', QuietSteps
    PROVE  HardInv'
<1>1. UNCHANGED <<table, malloced, requests, thread, owner, cmd, replies>>
  BY DEF QuietSteps, Open, Close, DiskChange, AbortIO, HasThread, SyncWait,
         hardfile_open, AbortSpins, ChangeLock, hardfile_send_disk_change, Dies,
         OnlyCpu, guest, tables, vars, thrVars
<1>2. /\ CpuTypes /\ CpuKept /\ FillKept /\ RepliesKept  BY DEF HardInv, HardTypes
<1>3. \/ cpu' = cpu
      \/ cpu' = InGuest
      \/ cpu' = [cpu EXCEPT !.pc = "work"] /\ cpu.pc \in {"start", "sync"}
      \/ cpu' = [cpu EXCEPT !.pc = "spin"] /\ cpu.pc = "work"
      \/ cpu' = [cpu EXCEPT !.pc = "cause", !.slot = 1] /\ cpu.op = "change"
      \/ /\ cpu.pc = "guest" /\ cpu' = [InGuest EXCEPT !.op = "open", !.pc = "start",
                                                       !.request = None]
      \/ /\ cpu.pc = "guest" /\ cpu' = [InGuest EXCEPT !.op = "close", !.pc = "send",
                                                       !.request = None]
         /\ \A r \in Requests : owner[r] = "guest"
      \/ /\ cpu.pc = "guest" /\ cpu' = [InGuest EXCEPT !.op = "change", !.pc = "lock",
                                                       !.request = None]
      \/ \E r \in Requests :
            /\ cpu.pc = "guest" /\ cpu' = [InGuest EXCEPT !.op = "abort",
                                              !.pc = "start", !.request = r]
            /\ owner[r] = "device" /\ cmd[r] = "io"
  BY DEF QuietSteps, Open, Close, DiskChange, AbortIO, HasThread, SyncWait,
         hardfile_open, AbortSpins, ChangeLock, hardfile_send_disk_change, Dies,
         Goto, Trap, At, vars
<1>4. Pending' = Pending /\ \A r : SlotsOf(r)' = SlotsOf(r)
  BY <1>1, PendingFrame DEF SlotsOf
<1>5. CpuKept' /\ FillKept'
  <2>1. CASE cpu' = cpu
    BY <1>1, <1>2, <1>4, <2>1 DEF CpuKept, FillKept, FillEntry
  <2>2. CASE \/ cpu' = [cpu EXCEPT !.pc = "work"] /\ cpu.pc \in {"start", "sync"}
             \/ cpu' = [cpu EXCEPT !.pc = "spin"] /\ cpu.pc = "work"
    <3>1. /\ cpu'.op = cpu.op /\ cpu'.request = cpu.request
          /\ cpu.pc # "fill" /\ cpu'.pc \notin {"fill", "reply"}
      BY <1>2, <2>2 DEF CpuTypes
    <3> QED  BY <1>1, <1>2, <1>4, <3>1 DEF CpuKept, FillKept
  <2>3. CASE cpu' = [cpu EXCEPT !.pc = "cause", !.slot = 1] /\ cpu.op = "change"
    <3>1. cpu'.op = "change" /\ cpu'.pc = "cause"
      BY <1>2, <2>3 DEF CpuTypes
    <3> QED  BY <3>1 DEF CpuKept, FillKept
  <2>4. CASE cpu' = InGuest  BY <2>4, CpuFrame
  <2>5. CASE /\ cpu' = [InGuest EXCEPT !.op = "open", !.pc = "start",
                                       !.request = None]
    BY <2>5 DEF CpuKept, FillKept, InGuest
  <2>6. CASE /\ cpu' = [InGuest EXCEPT !.op = "close", !.pc = "send",
                                       !.request = None]
             /\ \A r \in Requests : owner[r] = "guest"
    BY <1>1, <2>6 DEF CpuKept, FillKept, InGuest
  <2>7. CASE /\ cpu' = [InGuest EXCEPT !.op = "change", !.pc = "lock",
                                       !.request = None]
    BY <2>7 DEF CpuKept, FillKept, InGuest
  <2>8. CASE \E r \in Requests :
                 /\ cpu' = [InGuest EXCEPT !.op = "abort", !.pc = "start",
                                           !.request = r]
                 /\ owner[r] = "device" /\ cmd[r] = "io"
    BY <1>1, <2>8 DEF CpuKept, FillKept, InGuest
  <2> QED  BY <1>3, <2>1, <2>2, <2>3, <2>4, <2>5, <2>6, <2>7, <2>8
<1>6. MessagesKept' /\ EndsFirst' /\ StillKept'
  BY <1>1, MessagesFrame, StillFrame
<1>7. OneEach' /\ BuffersLive' /\ TempWhileProcessing'
  BY <1>1, TableFrame
<1>8. EntriesKept'
  <2>1. CASE cpu.pc = "fill"
    <3>1. cpu' = cpu
      BY <1>2, <2>1
         DEF QuietSteps, Open, Close, DiskChange, AbortIO, HasThread, SyncWait,
         hardfile_open, AbortSpins, ChangeLock, hardfile_send_disk_change, Dies,
         Trap, At, CpuTypes, vars
    <3> QED
      BY <1>1, <3>1, PendingFrame
         DEF HardInv, EntriesKept, TempEntry, ChangeEntry, FillEntry, DoneEntry
  <2>2. CASE cpu.pc # "fill"
    BY <1>1, <2>2, EntriesFrame DEF ChangeEntry
  <2> QED  BY <2>1, <2>2
<1>9. RepliesKept'
  BY <1>1, <1>2, <1>4, RepliesFrame DEF RepliesKept
<1> QED  BY <1>5, <1>6, <1>7, <1>8, <1>9 DEF HardInv

\* No entry or reply is of a request that the program has.
LEMMA GuestFree ==
    ASSUME HardInv, NEW r \in Requests, owner[r] # "device"
    PROVE  /\ SlotsOf(r) = {}
           /\ \A m \in Pending : m.request # r
           /\ \A k \in DOMAIN replies :
                 replies[k].fun = "ReplyMsg" => replies[k].request # r
<1>1. \A m \in Pending : m.request # r
  BY PendingIs, Numbers DEF Asked, Terminator
<1>2. ASSUME NEW i \in Slot, table[i].request = r PROVE FALSE
  <2>1. TempEntry(i) \/ ChangeEntry(i) \/ FillEntry(i)  BY <1>2, EntryIs
  <2>2. ~TempEntry(i)
    <3>1. \A m \in Unreleased : m \in Pending  BY DEF Unreleased
    <3>2. TempEntry(i) => \E m \in Unreleased : table[i].request = m.request
      BY DEF TempEntry
    <3> QED  BY <1>1, <1>2, <3>1, <3>2
  <2>3. ~ChangeEntry(i)  BY <1>2 DEF ChangeEntry
  <2>4. ~FillEntry(i)
    BY <1>2 DEF FillEntry, HardInv, CpuKept, HardTypes, CpuTypes
  <2> QED  BY <2>1, <2>2, <2>3, <2>4
<1>3. \A k \in DOMAIN replies :
          replies[k].fun = "ReplyMsg" => replies[k].request # r
  BY DEF HardInv, RepliesKept
<1> QED  BY <1>1, <1>2, <1>3 DEF SlotsOf

LEMMA BeginIOKept ==
    ASSUME HardInv, HardTypes', NEW r \in Requests, NEW c \in {"io", "add"},
           BeginIO(r, c)
    PROVE  HardInv'
<1>1. /\ UNCHANGED <<table, malloced, requests, thread, replies>>
      /\ owner[r] = "guest" /\ cpu.pc = "guest"
      /\ cpu' = [InGuest EXCEPT !.op = "begin", !.pc = "start", !.request = r]
      /\ owner' = [owner EXCEPT ![r] = "device"] /\ cmd' = [cmd EXCEPT ![r] = c]
  BY DEF BeginIO, Trap, OnlyCpu, tables, thrVars
<1>2. owner'[r] = "device" /\ \A q \in Requests : q # r =>
         owner'[q] = owner[q] /\ cmd'[q] = cmd[q]
  BY <1>1 DEF HardInv, HardTypes, TypeOK
<1>3. /\ SlotsOf(r) = {} /\ \A m \in Pending : m.request # r
      /\ \A k \in DOMAIN replies :
            replies[k].fun = "ReplyMsg" => replies[k].request # r
  BY <1>1, GuestFree
<1>4. Pending' = Pending /\ \A q : SlotsOf(q)' = SlotsOf(q)
  BY <1>1, PendingFrame DEF SlotsOf
<1>5. /\ cpu'.op = "begin" /\ cpu'.pc = "start" /\ cpu'.request = r
  BY <1>1 DEF InGuest
<1>6. MessagesKept' /\ EndsFirst' /\ StillKept'
  <2>1. \A m \in Asked : m.request \in Requests /\ m.request # r
    BY <1>3, PendingIs DEF Asked
  <2> QED  BY <1>1, <1>2, <2>1, MessagesFrame, StillFrame
<1>7. OneEach' /\ BuffersLive' /\ TempWhileProcessing'
  BY <1>1, TableFrame
<1>8. EntriesKept'
  <2>1. \A i \in Slot : ChangeEntry(i) => table[i].request # r
    BY <1>3 DEF SlotsOf
  <2> QED  BY <1>1, <1>2, <2>1, EntriesFrame DEF ChangeEntry
<1>9. CpuKept' /\ FillKept'
  BY <1>1, <1>2, <1>3, <1>4, <1>5 DEF CpuKept, FillKept
<1>10. RepliesKept'
  BY <1>1, <1>2, <1>3, <1>4, RepliesFrame DEF HardInv, RepliesKept
<1> QED  BY <1>6, <1>7, <1>8, <1>9, <1>10 DEF HardInv

LEMMA RemChangeIntKept ==
    ASSUME HardInv, HardTypes', TableKept', NEW r \in Requests,
           NEW c \in {"rem", "quickrem"}, RemChangeInt(r, c)
    PROVE  HardInv'
<1>1. /\ UNCHANGED <<table, malloced, requests, thread, replies, owner>>
      /\ owner[r] = "device" /\ cmd[r] = "add" /\ cpu.pc = "guest"
      /\ cpu' = [InGuest EXCEPT !.op = "rem", !.pc = "start", !.request = r]
      /\ cmd' = [cmd EXCEPT ![r] = c]
  BY DEF RemChangeInt, Trap, OnlyCpu, tables, thrVars
<1>2. cmd'[r] = c /\ \A q \in Requests : q # r => cmd'[q] = cmd[q]
  BY <1>1 DEF HardInv, HardTypes, TypeOK
<1>3. Pending' = Pending /\ \A q : SlotsOf(q)' = SlotsOf(q)
  BY <1>1, PendingFrame DEF SlotsOf
<1>4. /\ cpu'.op = "rem" /\ cpu'.pc = "start" /\ cpu'.request = r
  BY <1>1 DEF InGuest
<1>5. /\ \A m \in Pending : m.request # r
      /\ \A k \in DOMAIN replies :
            replies[k].fun = "ReplyMsg" => replies[k].request # r
  BY <1>1, <1>3, <1>4 DEF TableKept, RemovedEarly, HardInv, RepliesKept
<1>6. MessagesKept' /\ EndsFirst' /\ StillKept'
  <2>1. \A m \in Asked : m.request \in Requests /\ m.request # r
    BY <1>5, PendingIs DEF Asked
  <2> QED  BY <1>1, <1>2, <2>1, MessagesFrame, StillFrame
<1>7. OneEach' /\ BuffersLive' /\ TempWhileProcessing'
  BY <1>1, TableFrame
<1>8. EntriesKept'
  BY <1>1, <1>2, EntriesFrame DEF ChangeEntry
<1>9. CpuKept' /\ FillKept'
  BY <1>1, <1>2, <1>3, <1>4, <1>5 DEF CpuKept, FillKept
<1>10. RepliesKept'
  BY <1>1, <1>2, <1>3, <1>5, RepliesFrame DEF HardInv, RepliesKept
<1> QED  BY <1>6, <1>7, <1>8, <1>9, <1>10 DEF HardInv

LEMMA StartThreadKept ==
    ASSUME HardInv, HardTypes', start_thread
    PROVE  HardInv'
<1>1. /\ table' = [i \in Slot |-> Empty] /\ requests' = << >>
      /\ thread' = [NoThread EXCEPT !.pc = "start"] /\ thread.pc = "none"
      /\ cpu' = [cpu EXCEPT !.pc = "sync"] /\ cpu.pc = "start"
      /\ UNCHANGED <<malloced, owner, cmd, replies>>
  BY DEF start_thread, Goto, guest
<1>2. /\ thread'.pc = "start" /\ thread'.msg = Terminator
      /\ DOMAIN requests' = {} /\ Range(requests') = {}
  BY <1>1 DEF NoThread, Range
<1>3. Pending' = {} /\ Unreleased' = {} /\ Asked' = {}
  BY <1>2 DEF Pending, InHand, Unreleased, Asked
<1>4. \A i \in Slot : /\ table'[i] = Empty /\ table'[i].request = None
                      /\ table'[i].iobuf = None /\ table'[i].type = "none"
  BY <1>1 DEF Empty
<1>5. \A r \in Requests : SlotsOf(r)' = {}
  BY <1>4, Numbers DEF SlotsOf
<1>6. MessagesKept' /\ EndsFirst'
  BY <1>2, <1>3 DEF MessagesKept, EndsFirst, Outside
<1>7. StillKept'
  BY <1>4 DEF StillKept
<1>8. EntriesKept'
  BY <1>4 DEF EntriesKept, Empty
<1>9. OneEach' /\ BuffersLive' /\ TempWhileProcessing'
  BY <1>3, <1>4 DEF OneEach, BuffersLive, TempWhileProcessing
<1>10. CpuKept' /\ FillKept'
  <2>1. /\ CpuTypes /\ CpuKept  BY DEF HardInv, HardTypes
  <2>2. /\ cpu'.op = cpu.op /\ cpu'.request = cpu.request /\ cpu'.pc = "sync"
    BY <1>1, <2>1 DEF CpuTypes
  <2> QED  BY <1>1, <1>3, <1>5, <2>1, <2>2 DEF CpuKept, FillKept, CpuTypes
<1>11. RepliesKept'
  BY <1>1, <1>3, <1>5, RepliesFrame DEF HardInv, RepliesKept
<1> QED  BY <1>6, <1>7, <1>8, <1>9, <1>10, <1>11 DEF HardInv

LEMMA NoThreadErrorKept ==
    ASSUME HardInv, HardTypes', TableKept, NoThreadError
    PROVE  HardInv'
<1>1. /\ UNCHANGED <<table, malloced, requests, thread, replies>>
      /\ cpu.pc = "work" /\ ~thread_running /\ cpu' = InGuest
      /\ IF cpu.op \in {"begin", "rem"}
         THEN /\ owner' = [owner EXCEPT ![cpu.request] = "guest"]
              /\ cmd' = [cmd EXCEPT ![cpu.request] = "none"]
         ELSE UNCHANGED <<owner, cmd>>
  BY DEF NoThreadError, GivenBack, OnlyCpu, tables, thrVars
<1>2. /\ CpuTypes /\ ThreadTypes /\ CpuKept /\ StillKept /\ RepliesKept
      /\ owner \in [Requests -> {"guest", "device"}]
      /\ cmd \in [Requests -> {"none", "io", "add", "rem", "quickrem"}]
  BY DEF HardInv, HardTypes, TypeOK
<1>3. \A q \in Requests :
          q # cpu.request \/ cpu.op \notin {"begin", "rem"}
              => owner'[q] = owner[q] /\ cmd'[q] = cmd[q]
  BY <1>1, <1>2 DEF CpuTypes
<1>4. Still  BY <1>1, <1>2 DEF ThreadTypes, Still
<1>5. cpu.op \in {"begin", "rem"} =>
          /\ \A m \in Pending : m.request # cpu.request
          /\ \A k \in DOMAIN replies :
                replies[k].fun = "ReplyMsg" => replies[k].request # cpu.request
  BY <1>2 DEF CpuKept, TableKept, RemovedEarly
<1>6. MessagesKept' /\ EndsFirst' /\ StillKept'
  <2>1. \A m \in Asked : m.request \in Requests
                         /\ owner'[m.request] = owner[m.request]
                         /\ cmd'[m.request] = cmd[m.request]
    BY <1>3, <1>5, PendingIs DEF Asked
  <2> QED  BY <1>1, <2>1, MessagesFrame, StillFrame
<1>7. OneEach' /\ BuffersLive' /\ TempWhileProcessing'
  BY <1>1, TableFrame
<1>8. EntriesKept'
  <2>1. \A i \in Slot : ~ChangeEntry(i)
    BY <1>2, <1>4 DEF StillKept, ChangeEntry
  <2> QED  BY <1>1, <2>1, EntriesFrame
<1>9. CpuKept' /\ FillKept'  BY <1>1, CpuFrame
<1>10. RepliesKept'
  <2>1. Pending' = Pending /\ \A q : SlotsOf(q)' = SlotsOf(q)
    BY <1>1, PendingFrame DEF SlotsOf
  <2>2. ASSUME NEW k \in DOMAIN replies, replies[k].fun = "ReplyMsg"
        PROVE  /\ owner'[replies[k].request] = "device"
               /\ cmd'[replies[k].request] \in {"io", "rem"}
    <3>1. /\ replies[k].request \in Requests
          /\ owner[replies[k].request] = "device"
          /\ cmd[replies[k].request] \in {"io", "rem"}
      BY <1>2, <2>2 DEF RepliesKept
    <3> QED  BY <1>3, <1>5, <2>2, <3>1
  <2> QED  BY <1>1, <1>2, <2>1, <2>2, RepliesFrame DEF RepliesKept
<1> QED  BY <1>6, <1>7, <1>8, <1>9, <1>10 DEF HardInv

LEMMA CloseKept ==
    ASSUME HardInv, HardTypes', hardfile_close
    PROVE  HardInv'
<1>1. /\ UNCHANGED <<table, malloced, thread, replies, owner, cmd>>
      /\ cpu.op = "close" /\ cpu.pc = "send" /\ cpu' = InGuest
      /\ requests' = Append(requests, Terminator)
  BY DEF hardfile_close, Send, At, tables, thrVars
<1>2. /\ PipeTypes /\ CpuKept /\ Terminator \in Message
      /\ \A r \in Requests : owner[r] = "guest"
  BY <1>1 DEF HardInv, HardTypes, CpuKept, Message
<1>3. /\ Len(requests) \in Nat /\ Len(requests) + 1 \notin DOMAIN requests
      /\ DOMAIN requests' = DOMAIN requests \cup {Len(requests) + 1}
      /\ \A k \in DOMAIN requests : requests'[k] = requests[k]
      /\ requests'[Len(requests) + 1] = Terminator
      /\ Range(requests') = Range(requests) \cup {Terminator}
  BY <1>1, <1>2, Appended DEF PipeTypes
<1>4. Pending' = Pending \cup {Terminator} /\ Asked' = Asked
      /\ Unreleased' = Unreleased
  <2>1. Pending' = Pending \cup {Terminator}
    BY <1>1, <1>3 DEF Pending, InHand
  <2> QED  BY <1>1, <2>1 DEF Asked, Unreleased
<1>5. Asked = {} /\ Unreleased = {}  BY <1>2, PendingIs
<1>6. /\ \A k \in DOMAIN requests' : requests'[k] = Terminator
      /\ thread.pc \notin Outside => thread.msg = Terminator
  BY <1>3, <1>5, PendingIs DEF Asked
<1>7. MessagesKept' /\ EndsFirst'
  <2>1. thread.pc \notin {"async", "release", "free", "clear", "reply"}
    BY <1>6 DEF HardInv, HardTypes, ThreadTypes, Working, Outside
  <2> QED  BY <1>1, <1>4, <1>5, <1>6, <2>1 DEF MessagesKept, EndsFirst
<1>8. StillKept'
  <2>1. \A i \in Slot : table[i].type # "CHANGEINT"
    BY <1>1, <1>2, <1>5
       DEF HardInv, EntriesKept, Empty, TempEntry, ChangeEntry, FillEntry, DoneEntry
  <2> QED  BY <1>1, <2>1 DEF StillKept
<1>9. EntriesKept'
  BY <1>1, <1>4
     DEF HardInv, EntriesKept, TempEntry, ChangeEntry, FillEntry, DoneEntry, Empty
<1>10. OneEach' /\ BuffersLive' /\ TempWhileProcessing'
  BY <1>1, <1>4 DEF HardInv, OneEach, BuffersLive, TempWhileProcessing
<1>11. CpuKept' /\ FillKept'  BY <1>1, CpuFrame
<1>12. RepliesKept'
  BY <1>1, <1>2 DEF HardInv, RepliesKept
<1> QED  BY <1>7, <1>8, <1>9, <1>10, <1>11, <1>12 DEF HardInv

LEMMA AddAsyncKept ==
    ASSUME HardInv, HardTypes', TableKept', add_async_request
    PROVE  HardInv'
<1> PICK r : r = cpu.request  OBVIOUS
<1> PICK i : i = EntryFor(r)  OBVIOUS
<1>1. PICK b \in Bufs \ malloced :
          /\ malloced' = malloced \cup {b}
          /\ cpu' = [cpu EXCEPT !.pc = "fill", !.slot = i, !.iobuf = b]
          /\ table' = [j \in Slot |->
                 IF j = i THEN [table[j] EXCEPT !.request = r] ELSE table[j]]
  BY DEF add_async_request
<1>2. /\ UNCHANGED <<requests, thread, replies, owner, cmd>>
      /\ cpu.op = "begin" /\ cpu.pc = "work"
  BY DEF add_async_request, At, thrVars, guest
<1>3. /\ CpuTypes /\ CpuKept /\ ThreadTypes /\ r \in Requests /\ r # None
      /\ malloced \subseteq Bufs /\ b # None
  BY <1>1, <1>2, Numbers DEF HardInv, HardTypes, CpuTypes, TypeOK
<1>4. /\ cpu'.pc = "fill" /\ cpu'.slot = i /\ cpu'.iobuf = b /\ cpu'.request = r
      /\ cpu'.op = "begin"
  BY <1>1, <1>2, <1>3 DEF CpuTypes
<1>5. SlotsOf(r) = {} /\ \A m \in Pending : m.request # r
  BY <1>2, <1>3 DEF CpuKept
<1>6. i \in Slot /\ table[i].request = None
  <2>1. i # 0  BY <1>4 DEF TableKept, TableFull
  <2>2. i = First(SlotsOf(None)) /\ SlotsOf(None) # {}
    BY <1>5, <2>1 DEF EntryFor
  <2> QED  BY <2>2, EntryForIs DEF SlotsOf
<1>7. table[i] = Empty
  <2>1. SUFFICES ASSUME DoneEntry(i) PROVE FALSE  BY <1>6, EntryIs
  <2>2. thread.slot = i /\ thread.pc \in {"free", "clear"}  BY <2>1 DEF DoneEntry
  <2>3. table'[i].request = r
    BY <1>1, <1>6, <2>1, Numbers DEF DoneEntry
  <2> QED  BY <1>2, <1>3, <2>2, <2>3 DEF TableKept, ReusedEarly
<1>8. /\ table'[i] = [request |-> r, iobuf |-> None, type |-> "none"]
      /\ table[i].request = None /\ table[i].iobuf = None /\ table[i].type = "none"
      /\ \A j \in Slot : j # i => table'[j] = table[j]
  BY <1>1, <1>6, <1>7 DEF Empty
<1>9. Pending' = Pending /\ Unreleased' = Unreleased
  BY <1>2, PendingFrame
<1>10. MessagesKept' /\ EndsFirst'
  BY <1>2, MessagesFrame
<1>11. StillKept'
  <2>1. \A j \in Slot : table'[j].type = "CHANGEINT" => table[j].type = "CHANGEINT"
    BY <1>8
  <2> QED  BY <1>2, <2>1, StillFrame
<1>12. \A j \in Slot : table[j].request # r
  BY <1>5 DEF SlotsOf
<1>13. EntriesKept'
  <2>1. FillEntry(i)'  BY <1>4, <1>8 DEF FillEntry
  <2>2. ASSUME NEW j \in Slot, j # i
        PROVE  (table[j] = Empty \/ TempEntry(j) \/ ChangeEntry(j) \/ DoneEntry(j))'
    <3>1. table'[j] = table[j]  BY <1>8, <2>2
    <3>2. table[j] = Empty \/ TempEntry(j) \/ ChangeEntry(j) \/ DoneEntry(j)
      BY <1>2 DEF HardInv, EntriesKept, FillEntry
    <3>3. CASE table[j] = Empty  BY <3>1, <3>3 DEF Empty
    <3>4. CASE TempEntry(j)  BY <1>9, <3>1, <3>4 DEF TempEntry
    <3>5. CASE ChangeEntry(j)
      <4>1. table[j].iobuf \in malloced'  BY <1>1, <3>5 DEF ChangeEntry
      <4> QED  BY <1>2, <1>9, <3>1, <3>5, <4>1 DEF ChangeEntry
    <3>6. CASE DoneEntry(j)  BY <1>1, <1>2, <3>1, <3>6 DEF DoneEntry
    <3> QED  BY <3>2, <3>3, <3>4, <3>5, <3>6
  <2> QED  BY <2>1, <2>2 DEF EntriesKept
<1>14. OneEach'
  BY <1>8, <1>12 DEF HardInv, OneEach
<1>15. BuffersLive'
  <2>1. \A j \in Slot : table'[j].iobuf = table[j].iobuf  BY <1>8
  <2> QED  BY <1>1, <1>9, <2>1 DEF HardInv, BuffersLive
<1>16. TempWhileProcessing'
  <2>1. SUFFICES ASSUME NEW m \in Unreleased
                 PROVE  \E j \in Slot :
                    table'[j] = [request |-> m.request, iobuf |-> m.iobuf,
                                 type |-> "TEMP"]
    BY <1>9 DEF TempWhileProcessing
  <2>2. PICK j \in Slot : table[j] = [request |-> m.request, iobuf |-> m.iobuf,
                                      type |-> "TEMP"]
    BY DEF HardInv, TempWhileProcessing
  <2>3. j # i  BY <1>8, <2>2
  <2> QED  BY <1>8, <2>2, <2>3
<1>17. FillKept'
  <2>1. \A j \in Slot : table[j].iobuf # b
    BY <1>1, <1>3 DEF HardInv, BuffersLive
  <2>2. \A j \in Slot : table'[j].iobuf = table[j].iobuf  BY <1>8
  <2> QED  BY <1>1, <1>4, <1>8, <2>1, <2>2 DEF FillKept, FillEntry
<1>18. CpuKept'
  BY <1>2, <1>3, <1>4, <1>9 DEF CpuKept
<1>19. RepliesKept'
  <2>1. ASSUME NEW k \in DOMAIN replies, replies[k].fun = "ReplyMsg"
        PROVE  SlotsOf(replies[k].request)' = {}
    <3>1. replies[k].request # r /\ SlotsOf(replies[k].request) = {}
      BY <1>2, <1>3, <2>1 DEF HardInv, RepliesKept, CpuKept
    <3> QED  BY <1>2, <1>8, <3>1 DEF SlotsOf
  <2> QED  BY <1>2, <1>9, <2>1 DEF HardInv, RepliesKept
<1> QED  BY <1>10, <1>11, <1>13, <1>14, <1>15, <1>16, <1>17, <1>18, <1>19
         DEF HardInv

LEMMA BeginSendsKept ==
    ASSUME HardInv, HardTypes', TableKept, hardfile_beginio
    PROVE  HardInv'
<1>r. PICK r : r = cpu.request  OBVIOUS
<1>i. PICK i : i = cpu.slot  OBVIOUS
<1>b. PICK b : b = cpu.iobuf  OBVIOUS
<1>n. PICK n : n = [request |-> r, iobuf |-> b, cmd |-> cmd[r]]  OBVIOUS
<1>9. /\ r = cpu.request /\ i = cpu.slot /\ b = cpu.iobuf
      /\ n = [request |-> r, iobuf |-> b, cmd |-> cmd[r]]
      /\ n.request = r /\ n.iobuf = b /\ n.cmd = cmd[r]
  BY <1>r, <1>i, <1>b, <1>n
<1>0. table' = [j \in Slot |->
          IF j = i THEN [table[j] EXCEPT !.iobuf = b, !.type = "TEMP"]
          ELSE table[j]]
  BY <1>9 DEF hardfile_beginio
<1>1. /\ requests' = Append(requests, n) /\ cpu' = InGuest /\ cpu.pc = "fill"
      /\ UNCHANGED <<malloced, thread, replies, owner, cmd>>
  BY <1>9 DEF hardfile_beginio, Send, thrVars, guest
<1>2. /\ CpuTypes /\ CpuKept /\ PipeTypes /\ FillKept /\ MessagesKept
      /\ malloced \subseteq Bufs
      /\ cpu.op = "begin" /\ r \in Requests /\ r # None /\ n \in Message
      /\ b \in Bufs /\ b # None /\ n # Terminator
  <2>1. /\ cpu.op = "begin" /\ r \in Requests /\ b \in Bufs
        /\ cmd[r] \in {"io", "add"}
    BY <1>1, <1>9 DEF HardInv, HardTypes, CpuTypes
  <2>2. n \in Message  BY <1>9, <2>1 DEF Message
  <2> QED  BY <1>9, <2>1, <2>2, Numbers, MessageIs DEF HardInv, HardTypes, TypeOK
<1>3. i \in Slot
  <2>1. i \in 0 .. Slots + 1 /\ i <= Slots /\ i # 0
    BY <1>1, <1>2, <1>9 DEF TableKept, TableFull, CpuTypes
  <2> QED  BY <2>1, Numbers, SMT DEF Slot
<1>4. /\ table[i] = [request |-> r, iobuf |-> None, type |-> "none"]
      /\ b \in malloced /\ \A j \in Slot : table[j].iobuf # b
  <2>1. i # 0  BY <1>3, Numbers
  <2> QED  BY <1>1, <1>2, <1>9, <2>1 DEF FillKept, FillEntry
<1>5. /\ table'[i] = [request |-> r, iobuf |-> b, type |-> "TEMP"]
      /\ \A j \in Slot : j # i => table'[j] = table[j]
      /\ \A j \in Slot : table'[j].request = table[j].request
  <2>1. table'[i] = [table[i] EXCEPT !.iobuf = b, !.type = "TEMP"]
    BY <1>0, <1>3
  <2>2. table'[i] = [request |-> r, iobuf |-> b, type |-> "TEMP"]
    <3>1. table'[i] \in [request : Requests \cup {None}, iobuf : Bufs \cup {None},
                         type : {"none", "TEMP", "CHANGEINT"}]
      BY <1>3 DEF HardTypes, TypeOK
    <3>2. /\ table'[i].request = r /\ table'[i].iobuf = b
          /\ table'[i].type = "TEMP"
      BY <1>4, <2>1
    <3> QED  BY <3>1, <3>2
  <2>3. \A j \in Slot : j # i => table'[j] = table[j]  BY <1>0
  <2> QED  BY <1>4, <2>2, <2>3
<1>6. \A m \in Pending : m.request # r
  BY <1>2, <1>9 DEF CpuKept
<1>7. /\ Len(requests) \in Nat /\ Len(requests) + 1 \notin DOMAIN requests
      /\ DOMAIN requests' = DOMAIN requests \cup {Len(requests) + 1}
      /\ \A k \in DOMAIN requests : /\ k \in Nat /\ k < Len(requests) + 1
                                    /\ requests'[k] = requests[k]
      /\ requests'[Len(requests) + 1] = n
      /\ Range(requests') = Range(requests) \cup {n}
  <2>1. requests \in Seq(Message) /\ n \in Message  BY <1>2 DEF PipeTypes
  <2> QED  BY <1>1, <2>1, Appended
<1>8. /\ Pending' = Pending \cup {n} /\ Asked' = Asked \cup {n}
      /\ Unreleased' = Unreleased \cup {n}
  <2>1. Pending' = Pending \cup {n}
    BY <1>1, <1>7 DEF Pending, InHand
  <2>3. n # thread.msg
    BY <1>2, <1>6, <1>9, PendingIs DEF HardInv, HardTypes, ThreadTypes
  <2> QED  BY <1>1, <1>2, <2>1, <2>3 DEF Asked, Unreleased
<1>10. MessagesKept'
  <2>1. \A m \in Asked' : owner'[m.request] = "device" /\ cmd'[m.request] = m.cmd
    BY <1>1, <1>2, <1>8, <1>9 DEF MessagesKept, CpuKept
  <2>2. \A k \in DOMAIN requests : requests[k].request # r
    BY <1>6, PendingIs
  <2>3. ASSUME NEW j \in DOMAIN requests', NEW k \in DOMAIN requests',
               requests'[j] # Terminator,
               requests'[j].request = requests'[k].request
        PROVE  j = k
    BY <1>2, <1>7, <1>9, <2>2, <2>3 DEF MessagesKept
  <2>4. thread.pc \notin Outside /\ thread.msg # Terminator
          => \A k \in DOMAIN requests' : requests'[k].request # thread.msg.request
    BY <1>2, <1>6, <1>7, <1>9, PendingIs DEF MessagesKept
  <2> QED  BY <1>1, <1>2, <2>1, <2>3, <2>4 DEF MessagesKept
<1>11. EndsFirst'
  <2>1. ASSUME NEW j \in DOMAIN requests', NEW k \in DOMAIN requests',
               j < k, requests'[k] = Terminator
        PROVE  requests'[j] = Terminator
    <3>1. k \in DOMAIN requests  BY <1>2, <1>7, <2>1
    <3>2. j \in DOMAIN requests  BY <1>7, <2>1, <3>1, SMT
    <3> QED  BY <1>7, <2>1, <3>1, <3>2 DEF HardInv, EndsFirst
  <2>2. ASSUME NEW k \in DOMAIN requests', requests'[k] = Terminator,
               thread.pc \notin Outside
        PROVE  thread.msg = Terminator
    BY <1>2, <1>7, <2>2 DEF HardInv, EndsFirst
  <2> QED  BY <1>1, <2>1, <2>2 DEF EndsFirst
<1>12. StillKept'
  <2>1. Still' => Still  BY <1>1, <1>2, <1>8 DEF Still
  <2>2. \A j \in Slot : table'[j].type = "CHANGEINT" => table[j].type = "CHANGEINT"
    BY <1>5
  <2> QED  BY <1>1, <2>1, <2>2 DEF HardInv, StillKept
<1>13. EntriesKept'
  <2>1. TempEntry(i)'  BY <1>5, <1>8, <1>9 DEF TempEntry
  <2>2. ASSUME NEW j \in Slot, j # i
        PROVE  (table[j] = Empty \/ TempEntry(j) \/ ChangeEntry(j) \/ DoneEntry(j))'
    <3>1. table'[j] = table[j]  BY <1>5, <2>2
    <3>2. table[j] = Empty \/ TempEntry(j) \/ ChangeEntry(j) \/ DoneEntry(j)
      BY <1>9, <2>2 DEF HardInv, EntriesKept, FillEntry
    <3>3. CASE table[j] = Empty  BY <3>1, <3>3 DEF Empty
    <3>4. CASE TempEntry(j)  BY <1>8, <3>1, <3>4 DEF TempEntry
    <3>5. CASE ChangeEntry(j)
      <4>1. table[j].request # r
        BY <1>2, <1>3, <1>4, <2>2 DEF HardInv, OneEach
      <4>2. \A m \in Unreleased' : m.request # table[j].request
        BY <1>8, <1>9, <3>5, <4>1 DEF ChangeEntry
      <4> QED  BY <1>1, <3>1, <3>5, <4>2 DEF ChangeEntry
    <3>6. CASE DoneEntry(j)  BY <1>1, <3>1, <3>6 DEF DoneEntry
    <3> QED  BY <3>2, <3>3, <3>4, <3>5, <3>6
  <2> QED  BY <2>1, <2>2 DEF EntriesKept
<1>14. OneEach'
  BY <1>5 DEF HardInv, OneEach
<1>15. BuffersLive'
  <2>1. \A j \in Slot : table'[j].iobuf = IF j = i THEN b ELSE table[j].iobuf
    BY <1>5
  <2>2. \A m \in Unreleased' : m.iobuf \in malloced
    BY <1>4, <1>8, <1>9 DEF HardInv, BuffersLive
  <2>3. \A j \in Slot : table'[j].iobuf \in malloced \cup {None}
    BY <1>4, <2>1 DEF HardInv, BuffersLive
  <2>4. \A j, k \in Slot : table'[j].iobuf = table'[k].iobuf
                               => j = k \/ table'[j].iobuf = None
    BY <1>4, <2>1 DEF HardInv, BuffersLive
  <2> QED  BY <1>1, <2>2, <2>3, <2>4 DEF BuffersLive
<1>16. TempWhileProcessing'
  <2>1. SUFFICES ASSUME NEW m \in Unreleased'
                 PROVE  \E j \in Slot :
                    table'[j] = [request |-> m.request, iobuf |-> m.iobuf,
                                 type |-> "TEMP"]
    BY DEF TempWhileProcessing
  <2>2. CASE m = n  BY <1>3, <1>5, <1>9, <2>2
  <2>3. CASE m \in Unreleased
    <3>1. PICK j \in Slot : table[j] = [request |-> m.request, iobuf |-> m.iobuf,
                                        type |-> "TEMP"]
      BY <2>3 DEF HardInv, TempWhileProcessing
    <3>2. j # i  BY <1>4, <3>1
    <3> QED  BY <1>5, <3>1, <3>2
  <2> QED  BY <1>8, <2>2, <2>3
<1>17. CpuKept' /\ FillKept'  BY <1>1, CpuFrame
<1>18. RepliesKept'
  <2>1. ASSUME NEW k \in DOMAIN replies, replies[k].fun = "ReplyMsg"
        PROVE  /\ SlotsOf(replies[k].request)' = {}
               /\ \A m \in Pending' : m.request # replies[k].request
    <3>1. /\ replies[k].request # r /\ SlotsOf(replies[k].request) = {}
          /\ \A m \in Pending : m.request # replies[k].request
      BY <1>2, <1>9, <2>1 DEF HardInv, RepliesKept, CpuKept
    <3> QED  BY <1>1, <1>5, <1>8, <1>9, <3>1 DEF SlotsOf
  <2> QED  BY <1>1, <2>1 DEF HardInv, RepliesKept
<1> QED  BY <1>10, <1>11, <1>12, <1>13, <1>14, <1>15, <1>16, <1>17, <1>18
         DEF HardInv

LEMMA DoQuickKept ==
    ASSUME HardInv, HardTypes', TableKept, DoQuick
    PROVE  HardInv'
<1>r. PICK r : r = cpu.request  OBVIOUS
<1>1. /\ cpu.op = "rem" /\ cpu.pc = "work" /\ cpu' = [cpu EXCEPT !.pc = "reply"]
      /\ UNCHANGED <<requests, thread, replies, owner, cmd>>
  BY DEF DoQuick, At, Goto, thrVars, guest
<1>2. /\ CpuTypes /\ CpuKept /\ RepliesKept /\ r \in Requests /\ r # None
      /\ malloced \subseteq Bufs
  BY <1>1, <1>r, Numbers DEF HardInv, HardTypes, CpuTypes, TypeOK
<1>3. /\ cpu'.op = "rem" /\ cpu'.pc = "reply" /\ cpu'.request = r
  BY <1>1, <1>2, <1>r DEF CpuTypes
<1>4. Pending' = Pending /\ Unreleased' = Unreleased
  BY <1>1, PendingFrame
<1>5. \A m \in Pending : m.request # r
  BY <1>1, <1>r DEF TableKept, RemovedEarly
<1>6. MessagesKept' /\ EndsFirst'  BY <1>1, MessagesFrame
<1>7. CASE SlotsOf(r) = {}
  <2>1. UNCHANGED <<table, malloced>>
    BY <1>7, <1>r DEF DoQuick, Released, tables
  <2>2. \A q : SlotsOf(q)' = SlotsOf(q)  BY <2>1 DEF SlotsOf
  <2>3. StillKept' /\ OneEach' /\ BuffersLive' /\ TempWhileProcessing' /\ EntriesKept'
    BY <1>1, <2>1, StillFrame, TableFrame, EntriesFrame DEF ChangeEntry
  <2>4. CpuKept' /\ FillKept'
    BY <1>1, <1>2, <1>3, <1>4, <1>7, <1>r, <2>2 DEF CpuKept, FillKept
  <2>5. RepliesKept'
    BY <1>1, <1>2, <1>4, <2>2, RepliesFrame DEF RepliesKept
  <2> QED  BY <1>6, <2>3, <2>4, <2>5 DEF HardInv
<1>8. CASE SlotsOf(r) # {}
  <2>i. PICK i : i = First(SlotsOf(r))  OBVIOUS
  <2>1. /\ table' = [table EXCEPT ![i] = Empty]
        /\ malloced' = malloced \ {table[i].iobuf}
    BY <1>8, <1>r, <2>i DEF DoQuick, Released
  <2>2. i \in Slot /\ table[i].request = r
    BY <1>8, <2>i, EntryForIs DEF SlotsOf
  <2>3. /\ table'[i] = Empty /\ \A j \in Slot : j # i => table'[j] = table[j]
        /\ table[i].iobuf \in malloced /\ table[i].iobuf # None
    <3>1. ~TempEntry(i)
      <4>1. \A m \in Unreleased : m.request # r  BY <1>5 DEF Unreleased
      <4>2. TempEntry(i) => \E m \in Unreleased : table[i].request = m.request
        BY DEF TempEntry
      <4> QED  BY <2>2, <4>1, <4>2
    <3>2. ChangeEntry(i)
      BY <1>1, <1>2, <2>2, <3>1, EntryIs DEF FillEntry
    <3> QED
      BY <1>2, <2>1, <2>2, <3>2, Numbers DEF ChangeEntry, HardInv, HardTypes, TypeOK
  <2>4. \A j \in Slot : j # i => table[j].iobuf # table[i].iobuf
    BY <2>2, <2>3 DEF HardInv, BuffersLive
  <2>5. \A j \in Slot : j # i => table[j].request # r
    BY <1>2, <2>2 DEF HardInv, OneEach
  <2>6. Empty.request = None /\ Empty.iobuf = None /\ Empty.type = "none"
    BY DEF Empty
  <2>7. StillKept'
    <3>1. \A j \in Slot : table'[j].type = "CHANGEINT" => table[j].type = "CHANGEINT"
      BY <2>3, <2>6
    <3> QED  BY <1>1, <3>1, StillFrame
  <2>8. ASSUME NEW m \in Unreleased
        PROVE  /\ m.iobuf \in malloced'
               /\ \E j \in Slot :
                     /\ j # i
                     /\ table'[j] = [request |-> m.request, iobuf |-> m.iobuf,
                                     type |-> "TEMP"]
    <3>1. PICK j \in Slot : table[j] = [request |-> m.request, iobuf |-> m.iobuf,
                                        type |-> "TEMP"]
      BY DEF HardInv, TempWhileProcessing
    <3>2. m.request # r  BY <1>5 DEF Unreleased
    <3>3. j # i  BY <2>2, <3>1, <3>2
    <3>4. m.iobuf # table[i].iobuf  BY <2>4, <3>1, <3>3
    <3>5. m.iobuf \in malloced  BY DEF HardInv, BuffersLive
    <3> QED  BY <2>1, <2>3, <3>1, <3>3, <3>4, <3>5
  <2>9. EntriesKept'
    <3>1. ASSUME NEW j \in Slot, j # i
          PROVE  (table[j] = Empty \/ TempEntry(j) \/ ChangeEntry(j) \/ DoneEntry(j))'
      <4>1. table'[j] = table[j] /\ table[j].iobuf # table[i].iobuf
        BY <2>3, <2>4, <3>1
      <4>2. table[j] = Empty \/ TempEntry(j) \/ ChangeEntry(j) \/ DoneEntry(j)
        BY <1>1 DEF HardInv, EntriesKept, FillEntry
      <4>3. CASE table[j] = Empty  BY <4>1, <4>3 DEF Empty
      <4>4. CASE TempEntry(j)  BY <1>4, <4>1, <4>4 DEF TempEntry
      <4>5. CASE ChangeEntry(j)
        <5>1. table[j].iobuf \in malloced'  BY <2>1, <4>1, <4>5 DEF ChangeEntry
        <5> QED  BY <1>1, <1>4, <4>1, <4>5, <5>1 DEF ChangeEntry
      <4>6. CASE DoneEntry(j)
        <5>1. thread.pc = "free" => thread.msg.iobuf \in malloced'
          BY <2>1, <4>1, <4>6 DEF DoneEntry
        <5> QED  BY <1>1, <4>1, <4>6, <5>1 DEF DoneEntry
      <4> QED  BY <4>2, <4>3, <4>4, <4>5, <4>6
    <3>2. (table[i] = Empty)'  BY <2>3 DEF Empty
    <3> QED  BY <3>1, <3>2 DEF EntriesKept
  <2>10. OneEach'
    BY <2>3, <2>6 DEF HardInv, OneEach
  <2>11. BuffersLive'
    <3>1. \A j \in Slot : table'[j].iobuf \in malloced' \cup {None}
      BY <2>1, <2>3, <2>4, <2>6 DEF HardInv, BuffersLive
    <3>2. \A j, k \in Slot : table'[j].iobuf = table'[k].iobuf
                                 => j = k \/ table'[j].iobuf = None
      BY <2>3, <2>6 DEF HardInv, BuffersLive
    <3> QED  BY <1>4, <2>8, <3>1, <3>2 DEF BuffersLive
  <2>12. TempWhileProcessing'
    BY <1>4, <2>8 DEF TempWhileProcessing
  <2>13. \A q \in Requests : SlotsOf(q)' \subseteq SlotsOf(q)
    BY <2>3, <2>6, Numbers DEF SlotsOf
  <2>14. SlotsOf(r)' = {}
    BY <1>2, <2>3, <2>5, <2>6 DEF SlotsOf
  <2>15. CpuKept' /\ FillKept'
    BY <1>1, <1>2, <1>3, <1>4, <1>r, <2>14 DEF CpuKept, FillKept
  <2>16. RepliesKept'
    BY <1>1, <1>2, <1>4, <2>13, RepliesFrame DEF RepliesKept
  <2> QED  BY <1>6, <2>7, <2>9, <2>10, <2>11, <2>12, <2>15, <2>16 DEF HardInv
<1> QED  BY <1>7, <1>8

\* A reply, and what else the Amiga is to hear, come last.
LEMMA AnswersKept ==
    ASSUME HardInv, NEW a \in Answer, replies' = Append(replies, a),
           UNCHANGED <<table, requests, owner, cmd>>, Pending' \subseteq Pending,
           a.request \in Requests, owner[a.request] = "device",
           SlotsOf(a.request) = {} \/ a.fun # "ReplyMsg",
           \A k \in DOMAIN replies :
               replies[k].fun = "ReplyMsg" => replies[k].request # a.request,
           a.fun = "ReplyMsg" => /\ cmd[a.request] \in {"io", "rem"}
                                 /\ \A m \in Pending' : m.request # a.request
    PROVE  RepliesKept'
<1>1. replies \in Seq(Answer) /\ RepliesKept  BY DEF HardInv, HardTypes, PipeTypes
<1>2. /\ Len(replies) \in Nat /\ Len(replies) + 1 \notin DOMAIN replies
      /\ DOMAIN replies' = DOMAIN replies \cup {Len(replies) + 1}
      /\ \A k \in DOMAIN replies : /\ k \in Nat /\ k < Len(replies) + 1
                                   /\ replies'[k] = replies[k]
      /\ replies'[Len(replies) + 1] = a
  BY <1>1, Appended
<1>3. \A q : SlotsOf(q)' = SlotsOf(q)  BY DEF SlotsOf
<1>4. ASSUME NEW k \in DOMAIN replies'
      PROVE  /\ replies'[k].request \in Requests
             /\ replies'[k].fun = "ReplyMsg" =>
                   /\ owner'[replies'[k].request] = "device"
                   /\ cmd'[replies'[k].request] \in {"io", "rem"}
                   /\ SlotsOf(replies'[k].request) = {}
                   /\ \A m \in Pending' : m.request # replies'[k].request
  <2>1. CASE k \in DOMAIN replies
    <3>1. replies'[k] = replies[k]  BY <1>2, <2>1
    <3> QED  BY <1>1, <2>1, <3>1 DEF RepliesKept
  <2>2. CASE k = Len(replies) + 1
    <3>1. replies'[k] = a  BY <1>2, <2>2
    <3> QED  BY <3>1
  <2> QED  BY <1>2, <2>1, <2>2
<1>5. ASSUME NEW j \in DOMAIN replies', NEW k \in DOMAIN replies',
             j < k, replies'[j].fun = "ReplyMsg"
      PROVE  replies'[k].request # replies'[j].request
  <2>1. j \in DOMAIN replies
    <3>1. CASE j = Len(replies) + 1
      BY <1>2, <1>5, <3>1, SMT
    <3> QED  BY <1>2, <3>1
  <2>2. CASE k \in DOMAIN replies  BY <1>1, <1>2, <1>5, <2>1, <2>2 DEF RepliesKept
  <2>3. CASE k = Len(replies) + 1  BY <1>2, <1>5, <2>1, <2>3
  <2> QED  BY <1>2, <2>2, <2>3
<1> QED  BY <1>3, <1>4, <1>5 DEF RepliesKept

LEMMA QuickReplyKept ==
    ASSUME HardInv, HardTypes', TableKept, QuickReply
    PROVE  HardInv'
<1>r. PICK r : r = cpu.request  OBVIOUS
<1>a. PICK a : a = [fun |-> "ReplyMsg", request |-> r]  OBVIOUS
<1>1. /\ UNCHANGED <<table, malloced, requests, thread, owner, cmd>>
      /\ cpu.pc = "reply" /\ cpu' = InGuest /\ replies' = Append(replies, a)
      /\ cmd[r] = "rem"
  BY <1>r, <1>a DEF QuickReply, Reply, tables, thrVars, guest
<1>2. /\ CpuTypes /\ CpuKept /\ r \in Requests /\ cpu.op = "rem"
      /\ replies \in Seq(Answer)
  BY <1>1, <1>r DEF HardInv, HardTypes, CpuTypes, PipeTypes
<1>3. a \in Answer /\ a.fun = "ReplyMsg" /\ a.request = r
  BY <1>2, <1>a DEF Answer
<1>4. Pending' = Pending /\ \A m \in Pending : m.request # r
  BY <1>1, <1>2, <1>r, PendingFrame DEF TableKept, RemovedEarly
<1>5. MessagesKept' /\ EndsFirst'  BY <1>1, MessagesFrame
<1>6. StillKept'  BY <1>1, StillFrame
<1>7. OneEach' /\ BuffersLive' /\ TempWhileProcessing' /\ EntriesKept'
  BY <1>1, TableFrame, EntriesFrame DEF ChangeEntry
<1>8. CpuKept' /\ FillKept'  BY <1>1, CpuFrame
<1>9. RepliesKept'
  <2>1. /\ owner[r] = "device" /\ cmd[r] = "rem" /\ SlotsOf(r) = {}
        /\ \A k \in DOMAIN replies :
              replies[k].fun = "ReplyMsg" => replies[k].request # r
    BY <1>1, <1>2, <1>r DEF CpuKept
  <2> QED  BY <1>1, <1>2, <1>3, <1>4, <2>1, AnswersKept
<1> QED  BY <1>5, <1>6, <1>7, <1>8, <1>9 DEF HardInv

LEMMA QuickReturnKept ==
    ASSUME HardInv, HardTypes', TableKept, QuickReturn
    PROVE  HardInv'
<1>r. PICK r : r = cpu.request  OBVIOUS
<1>1. /\ UNCHANGED <<table, malloced, requests, thread, replies>>
      /\ cpu.pc = "reply" /\ cpu' = InGuest
      /\ owner' = [owner EXCEPT ![r] = "guest"] /\ cmd' = [cmd EXCEPT ![r] = "none"]
  BY <1>r DEF QuickReturn, GivenBack, OnlyCpu, tables, thrVars
<1>2. /\ CpuTypes /\ CpuKept /\ RepliesKept /\ cpu.op = "rem"
      /\ owner \in [Requests -> {"guest", "device"}]
      /\ cmd \in [Requests -> {"none", "io", "add", "rem", "quickrem"}]
  BY <1>1 DEF HardInv, HardTypes, CpuTypes, TypeOK
<1>3. \A q \in Requests : q # r => owner'[q] = owner[q] /\ cmd'[q] = cmd[q]
  BY <1>1, <1>2
<1>4. /\ SlotsOf(r) = {} /\ \A m \in Pending : m.request # r
      /\ \A k \in DOMAIN replies :
            replies[k].fun = "ReplyMsg" => replies[k].request # r
  BY <1>1, <1>2, <1>r DEF CpuKept, TableKept, RemovedEarly
<1>5. MessagesKept' /\ EndsFirst' /\ StillKept'
  <2>1. \A m \in Asked : m.request \in Requests /\ m.request # r
    BY <1>4, PendingIs DEF Asked
  <2> QED  BY <1>1, <1>3, <2>1, MessagesFrame, StillFrame
<1>6. OneEach' /\ BuffersLive' /\ TempWhileProcessing'
  BY <1>1, TableFrame
<1>7. EntriesKept'
  <2>1. \A i \in Slot : ChangeEntry(i) =>
            table[i].request \in Requests /\ table[i].request # r
    BY <1>4 DEF ChangeEntry, SlotsOf
  <2> QED  BY <1>1, <1>3, <2>1, EntriesFrame DEF ChangeEntry
<1>8. CpuKept' /\ FillKept'  BY <1>1, CpuFrame
<1>9. RepliesKept'
  <2>1. Pending' = Pending /\ \A q : SlotsOf(q)' = SlotsOf(q)
    BY <1>1, PendingFrame DEF SlotsOf
  <2>2. ASSUME NEW k \in DOMAIN replies, replies[k].fun = "ReplyMsg"
        PROVE  /\ owner'[replies[k].request] = "device"
               /\ cmd'[replies[k].request] \in {"io", "rem"}
    <3>1. /\ replies[k].request \in Requests
          /\ owner[replies[k].request] = "device"
          /\ cmd[replies[k].request] \in {"io", "rem"}
      BY <1>2, <2>2 DEF RepliesKept
    <3> QED  BY <1>3, <1>4, <2>2, <3>1
  <2> QED  BY <1>1, <2>1, <2>2, RepliesFrame
<1> QED  BY <1>5, <1>6, <1>7, <1>8, <1>9 DEF HardInv

\* A request is aborted only when it is not in the table any more.
LEMMA AbortKept ==
    ASSUME HardInv, HardTypes', abort_async
    PROVE  HardInv'
<1>r. PICK r : r = cpu.request  OBVIOUS
<1>1. /\ UNCHANGED <<requests, thread, replies, owner, cmd>>
      /\ cpu.op = "abort" /\ cpu.pc # "fill" /\ cpu' = InGuest
  BY DEF abort_async, At, thrVars, guest, HardInv, HardTypes, CpuTypes
<1>2. /\ CpuTypes /\ CpuKept /\ r \in Requests /\ cmd[r] = "io"
  BY <1>1, <1>r DEF HardInv, HardTypes, CpuTypes, CpuKept
<1>3. SlotsOf(r) = {}
  <2>1. ASSUME NEW i \in Slot, table[i].request = r PROVE FALSE
    <3>1. table[i].type # "TEMP"
      BY <1>r, <2>1 DEF abort_async, Processing, SlotsOf
    <3>2. TempEntry(i) => table[i].type = "TEMP"  BY DEF TempEntry
    <3>3. ~ChangeEntry(i)  BY <1>2, <2>1 DEF ChangeEntry
    <3>4. ~FillEntry(i)  BY <1>1 DEF FillEntry
    <3> QED  BY <1>2, <2>1, <3>1, <3>2, <3>3, <3>4, EntryIs
  <2> QED  BY <2>1 DEF SlotsOf
<1>4. UNCHANGED <<table, malloced>>
  BY <1>r, <1>3 DEF abort_async, Released, tables
<1>5. MessagesKept' /\ EndsFirst' /\ StillKept'
  BY <1>1, <1>4, MessagesFrame, StillFrame
<1>6. OneEach' /\ BuffersLive' /\ TempWhileProcessing' /\ EntriesKept'
  BY <1>1, <1>4, TableFrame, EntriesFrame DEF ChangeEntry
<1>7. CpuKept' /\ FillKept'  BY <1>1, CpuFrame
<1>8. RepliesKept'
  <2>1. Pending' = Pending /\ \A q : SlotsOf(q)' = SlotsOf(q)
    BY <1>1, <1>4, PendingFrame DEF SlotsOf
  <2> QED  BY <1>1, <2>1, RepliesFrame DEF HardInv, RepliesKept
<1> QED  BY <1>5, <1>6, <1>7, <1>8 DEF HardInv

LEMMA ChangeCauseKept ==
    ASSUME HardInv, HardTypes', ChangeCause
    PROVE  HardInv'
<1>r. PICK r : r = table[cpu.slot].request  OBVIOUS
<1>a. PICK a : a = [fun |-> "Cause", request |-> r]  OBVIOUS
<1>1. /\ UNCHANGED <<table, malloced, requests, thread, owner, cmd>>
      /\ cpu.op = "change" /\ cpu.pc = "cause"
      /\ cpu' = [cpu EXCEPT !.slot = @ + 1]
  BY DEF ChangeCause, At, tables, thrVars, guest
<1>2. \/ UNCHANGED replies
      \/ table[cpu.slot].type = "CHANGEINT" /\ replies' = Append(replies, a)
  BY <1>r, <1>a DEF ChangeCause
<1>3. /\ cpu'.op = "change" /\ cpu'.pc = "cause" /\ cpu.slot \in Slot
      /\ CpuTypes /\ replies \in Seq(Answer)
  <2>1. CpuTypes /\ PipeTypes  BY DEF HardInv, HardTypes
  <2>2. cpu.slot \in 0 .. Slots + 1 /\ cpu.slot > 0 /\ cpu.slot <= Slots
    BY <1>1, <2>1 DEF ChangeCause, CpuTypes
  <2>3. cpu.slot \in Slot  BY <2>2, Numbers, SMT DEF Slot
  <2> QED  BY <1>1, <2>1, <2>3 DEF CpuTypes, PipeTypes
<1>4. Pending' = Pending /\ \A q : SlotsOf(q)' = SlotsOf(q)
  BY <1>1, PendingFrame DEF SlotsOf
<1>5. MessagesKept' /\ EndsFirst'  BY <1>1, MessagesFrame
<1>6. OneEach' /\ BuffersLive' /\ TempWhileProcessing' /\ EntriesKept'
  BY <1>1, TableFrame, EntriesFrame DEF ChangeEntry
<1>7. CpuKept' /\ FillKept'  BY <1>3 DEF CpuKept, FillKept
<1>8. StillKept' /\ RepliesKept'
  <2>1. CASE UNCHANGED replies
    <3>1. StillKept'  BY <1>1, <2>1, StillFrame
    <3>2. RepliesKept'
      BY <1>1, <1>4, <2>1, RepliesFrame DEF HardInv, RepliesKept
    <3> QED  BY <3>1, <3>2
  <2>2. CASE table[cpu.slot].type = "CHANGEINT" /\ replies' = Append(replies, a)
    <3>1. ChangeEntry(cpu.slot)
      <4>1. table[cpu.slot] # Empty  BY <2>2 DEF Empty
      <4>2. ~TempEntry(cpu.slot)
        <5>1. TempEntry(cpu.slot) => table[cpu.slot].type = "TEMP"
          BY DEF TempEntry
        <5> QED  BY <2>2, <5>1
      <4>3. ~FillEntry(cpu.slot)  BY <2>2 DEF FillEntry
      <4>4. ~DoneEntry(cpu.slot)  BY <2>2 DEF DoneEntry
      <4> QED  BY <1>3, <4>1, <4>2, <4>3, <4>4 DEF HardInv, EntriesKept
    <3>2. /\ r \in Requests /\ owner[r] = "device"
      BY <1>r, <3>1 DEF ChangeEntry
    <3>3. a \in Answer /\ a.fun = "Cause" /\ a.request = r
      BY <1>a, <3>2 DEF Answer
    <3>4. \A k \in DOMAIN replies :
              replies[k].fun = "ReplyMsg" => replies[k].request # r
      <4>1. SlotsOf(r) # {}  BY <1>3, <1>r DEF SlotsOf
      <4> QED  BY <4>1 DEF HardInv, RepliesKept
    <3>5. RepliesKept'
      BY <1>1, <1>4, <2>2, <3>2, <3>3, <3>4, AnswersKept
    <3>6. StillKept'  BY <1>1, StillFrame
    <3> QED  BY <3>5, <3>6
  <2> QED  BY <1>2, <2>1, <2>2
<1> QED  BY <1>5, <1>6, <1>7, <1>8 DEF HardInv

LEMMA DeliverKept ==
    ASSUME HardInv, HardTypes', Deliver
    PROVE  HardInv'
<1>a. PICK a : a = Head(replies)  OBVIOUS
<1>1. /\ UNCHANGED <<table, malloced, requests, thread, cpu>>
      /\ cpu.pc = "guest" /\ replies # << >> /\ replies' = Tail(replies)
      /\ IF a.fun = "ReplyMsg"
         THEN /\ owner' = [owner EXCEPT ![a.request] = "guest"]
              /\ cmd' = [cmd EXCEPT ![a.request] = "none"]
         ELSE UNCHANGED <<owner, cmd>>
  BY <1>a DEF Deliver, GivenBack, tables, thrVars
<1>2. /\ CpuTypes /\ replies \in Seq(Answer) /\ RepliesKept
      /\ owner \in [Requests -> {"guest", "device"}]
      /\ cmd \in [Requests -> {"none", "io", "add", "rem", "quickrem"}]
  BY DEF HardInv, HardTypes, TypeOK, PipeTypes
<1>3. /\ 1 \in DOMAIN replies /\ a = replies[1]
      /\ \A k \in DOMAIN replies' :
            /\ k \in Nat /\ k + 1 \in DOMAIN replies /\ 1 < k + 1
            /\ replies'[k] = replies[k + 1]
  BY <1>1, <1>2, <1>a, Removed
<1>4. ASSUME NEW q \in Requests, q # a.request \/ a.fun # "ReplyMsg"
      PROVE  owner'[q] = owner[q] /\ cmd'[q] = cmd[q]
  BY <1>1, <1>2, <1>4
<1>5. a.fun = "ReplyMsg" =>
          /\ SlotsOf(a.request) = {}
          /\ \A m \in Pending : m.request # a.request
          /\ \A k \in DOMAIN replies' : replies'[k].request # a.request
  <2>1. SUFFICES ASSUME a.fun = "ReplyMsg"
                 PROVE  /\ SlotsOf(a.request) = {}
                        /\ \A m \in Pending : m.request # a.request
                        /\ \A k \in DOMAIN replies' :
                              replies'[k].request # a.request
    OBVIOUS
  <2>2. ASSUME NEW k \in DOMAIN replies' PROVE replies'[k].request # a.request
    BY <1>2, <1>3, <2>1, <2>2 DEF RepliesKept
  <2> QED  BY <1>2, <1>3, <2>1, <2>2 DEF RepliesKept
<1>6. MessagesKept' /\ EndsFirst'
  <2>1. \A m \in Asked : m.request \in Requests
                         /\ (m.request # a.request \/ a.fun # "ReplyMsg")
    BY <1>5, PendingIs DEF Asked
  <2> QED  BY <1>1, <1>4, <2>1, MessagesFrame
<1>7. StillKept'  BY <1>1, StillFrame
<1>8. OneEach' /\ BuffersLive' /\ TempWhileProcessing'
  BY <1>1, TableFrame
<1>9. EntriesKept'
  <2>1. \A i \in Slot : ChangeEntry(i) =>
            /\ table[i].request \in Requests
            /\ table[i].request # a.request \/ a.fun # "ReplyMsg"
    BY <1>5 DEF ChangeEntry, SlotsOf
  <2> QED  BY <1>1, <1>4, <2>1, EntriesFrame DEF ChangeEntry
<1>10. CpuKept' /\ FillKept'
  <2>1. cpu'.op = "none" /\ cpu'.pc = "guest"  BY <1>1, <1>2 DEF CpuTypes
  <2> QED  BY <2>1 DEF CpuKept, FillKept
<1>11. RepliesKept'
  <2>1. Pending' = Pending /\ \A q : SlotsOf(q)' = SlotsOf(q)
    BY <1>1, PendingFrame DEF SlotsOf
  <2>2. ASSUME NEW k \in DOMAIN replies'
        PROVE  /\ replies'[k].request \in Requests
               /\ replies'[k].fun = "ReplyMsg" =>
                     /\ owner'[replies'[k].request] = "device"
                     /\ cmd'[replies'[k].request] \in {"io", "rem"}
                     /\ SlotsOf(replies'[k].request) = {}
                     /\ \A m \in Pending : m.request # replies'[k].request
    <3>0. PICK l : l = k + 1  OBVIOUS
    <3>1. l \in DOMAIN replies /\ replies'[k] = replies[l]  BY <1>3, <3>0
    <3>2. /\ replies[l].request \in Requests
          /\ replies[l].fun = "ReplyMsg" =>
                /\ owner[replies[l].request] = "device"
                /\ cmd[replies[l].request] \in {"io", "rem"}
                /\ SlotsOf(replies[l].request) = {}
                /\ \A m \in Pending : m.request # replies[l].request
      BY <1>2, <3>1, Zenon DEF RepliesKept
    <3>3. replies[l].request # a.request \/ a.fun # "ReplyMsg"
      BY <1>5, <3>1
    <3>4. PICK q : q = replies[l].request  OBVIOUS
    <3>5. owner'[q] = owner[q] /\ cmd'[q] = cmd[q]  BY <1>4, <3>2, <3>3, <3>4
    <3> QED  BY <3>1, <3>2, <3>4, <3>5, Zenon
  <2>3. ASSUME NEW j \in DOMAIN replies', NEW k \in DOMAIN replies',
               j < k, replies'[j].fun = "ReplyMsg"
        PROVE  replies'[k].request # replies'[j].request
    <3>1. j \in Nat /\ k \in Nat /\ j + 1 < k + 1
      BY <1>3, <2>3, SMT
    <3> QED  BY <1>2, <1>3, <2>3, <3>1 DEF RepliesKept
  <2> QED  BY <2>1, <2>2, <2>3 DEF RepliesKept
<1> QED  BY <1>6, <1>7, <1>8, <1>9, <1>10, <1>11 DEF HardInv

\* A step of the thread that leaves the table alone.
LEMMA ThreadFrame ==
    ASSUME HardInv, UNCHANGED <<table, malloced, cpu, owner, cmd>>,
           Pending' \subseteq Pending, Unreleased' = Unreleased,
           thread.pc \notin {"free", "clear"}
    PROVE  /\ EntriesKept' /\ OneEach' /\ BuffersLive' /\ TempWhileProcessing'
           /\ FillKept'
           /\ UNCHANGED replies => CpuKept' /\ RepliesKept'
<1>1. \A q : SlotsOf(q)' = SlotsOf(q)  BY DEF SlotsOf
<1>2. ASSUME NEW i \in Slot
      PROVE  (table[i] = Empty \/ TempEntry(i) \/ ChangeEntry(i) \/ FillEntry(i))'
  <2>1. table[i] = Empty \/ TempEntry(i) \/ ChangeEntry(i) \/ FillEntry(i)
    BY DEF HardInv, EntriesKept, DoneEntry
  <2>2. CASE table[i] = Empty  BY <2>2 DEF Empty
  <2>3. CASE TempEntry(i)  BY <2>3 DEF TempEntry
  <2>4. CASE ChangeEntry(i)  BY <2>4 DEF ChangeEntry
  <2>5. CASE FillEntry(i)  BY <2>5 DEF FillEntry
  <2> QED  BY <2>1, <2>2, <2>3, <2>4, <2>5
<1>3. EntriesKept'  BY <1>2 DEF EntriesKept
<1>4. OneEach' /\ BuffersLive' /\ TempWhileProcessing' /\ FillKept'
  BY DEF HardInv, OneEach, BuffersLive, TempWhileProcessing, FillKept, FillEntry
<1>5. UNCHANGED replies => CpuKept'
  BY <1>1 DEF HardInv, CpuKept
<1>6. UNCHANGED replies => RepliesKept'
  BY <1>1, RepliesFrame DEF HardInv, RepliesKept
<1> QED  BY <1>3, <1>4, <1>5, <1>6

LEMMA ThreadStartsKept ==
    ASSUME HardInv, HardTypes', ThreadStarts
    PROVE  HardInv'
<1>1. /\ UNCHANGED <<table, malloced, requests, cpu, owner, cmd, replies>>
      /\ thread.pc = "start" /\ thread'.pc = "read"
      /\ thread.msg = Terminator /\ thread'.msg = Terminator
  BY DEF ThreadStarts, Idle, NoThread, tables, guest, HardInv, HardTypes,
         ThreadTypes, Outside
<1>2. Pending' = Pending  BY <1>1 DEF Pending, InHand
<1>3. Unreleased' = Unreleased /\ Asked' = Asked
  BY <1>1, <1>2 DEF Unreleased, Asked
<1>4. MessagesKept' /\ EndsFirst'
  BY <1>1, <1>3 DEF HardInv, MessagesKept, EndsFirst, Outside
<1>5. StillKept'
  BY <1>1 DEF HardInv, StillKept, Still
<1> QED  BY <1>1, <1>2, <1>3, <1>4, <1>5, ThreadFrame DEF HardInv

LEMMA ReadRequestKept ==
    ASSUME HardInv, HardTypes', ReadRequest
    PROVE  HardInv'
<1>1. /\ UNCHANGED <<table, malloced, cpu, owner, cmd, replies>>
      /\ thread.pc = "read" /\ thread'.pc = "lock" /\ thread.msg = Terminator
      /\ thread'.msg = Head(requests) /\ requests' = Tail(requests)
      /\ requests # << >> /\ requests \in Seq(Message)
  BY DEF ReadRequest, tables, guest, HardInv, HardTypes, ThreadTypes, PipeTypes,
         Outside
<1>2. /\ 1 \in DOMAIN requests /\ thread'.msg = requests[1]
      /\ \A k \in DOMAIN requests' :
            /\ k \in Nat /\ k + 1 \in DOMAIN requests /\ 1 < k + 1
            /\ requests'[k] = requests[k + 1]
      /\ Range(requests) = Range(requests') \cup {thread'.msg}
  BY <1>1, Removed
<1>3. Pending' = Pending  BY <1>1, <1>2 DEF Pending, InHand
<1>4. Unreleased' = Unreleased /\ Asked' = Asked
  BY <1>1, <1>3 DEF Unreleased, Asked
<1>5. MessagesKept'
  <2>1. \A m \in Asked' : owner'[m.request] = "device" /\ cmd'[m.request] = m.cmd
    BY <1>1, <1>4 DEF HardInv, MessagesKept
  <2>2. ASSUME NEW j \in DOMAIN requests', NEW k \in DOMAIN requests',
               requests'[j] # Terminator,
               requests'[j].request = requests'[k].request
        PROVE  j = k
    <3>1. j + 1 = k + 1
      BY <1>2, <2>2 DEF HardInv, MessagesKept
    <3> QED  BY <1>2, <3>1, SMT
  <2>3. ASSUME thread'.msg # Terminator, NEW k \in DOMAIN requests',
               requests'[k].request = thread'.msg.request
        PROVE  FALSE
    <3>1. 1 = k + 1
      BY <1>2, <2>3 DEF HardInv, MessagesKept
    <3> QED  BY <1>2, <3>1, SMT
  <2> QED  BY <1>1, <2>1, <2>2, <2>3 DEF MessagesKept
<1>6. EndsFirst'
  <2>1. ASSUME NEW j \in DOMAIN requests', NEW k \in DOMAIN requests',
               j < k, requests'[k] = Terminator
        PROVE  requests'[j] = Terminator
    <3>1. j + 1 < k + 1  BY <1>2, <2>1, SMT
    <3> QED  BY <1>2, <2>1, <3>1 DEF HardInv, EndsFirst
  <2>2. ASSUME NEW k \in DOMAIN requests', requests'[k] = Terminator
        PROVE  thread'.msg = Terminator
    BY <1>2, <2>2 DEF HardInv, EndsFirst
  <2> QED  BY <2>1, <2>2 DEF EndsFirst
<1>7. StillKept'
  BY <1>1, <1>3 DEF HardInv, StillKept, Still
<1> QED  BY <1>1, <1>3, <1>4, <1>5, <1>6, <1>7, ThreadFrame DEF HardInv

LEMMA TerminateKept ==
    ASSUME HardInv, HardTypes', Terminate
    PROVE  HardInv'
<1>1. /\ UNCHANGED <<table, malloced, requests, cpu, owner, cmd, replies>>
      /\ thread.pc = "lock" /\ thread'.pc = "none"
      /\ thread.msg = Terminator /\ thread'.msg = Terminator
  BY DEF Terminate, NoThread, tables, guest
<1>2. Pending = Pending' \cup {Terminator}  BY <1>1 DEF Pending, InHand
<1>3. Unreleased' = Unreleased /\ Asked' = Asked
  BY <1>1, <1>2 DEF Unreleased, Asked
<1>4. MessagesKept' /\ EndsFirst'
  BY <1>1, <1>3 DEF HardInv, MessagesKept, EndsFirst, Outside
<1>5. StillKept'
  BY <1>1, <1>2 DEF HardInv, StillKept, Still
<1> QED  BY <1>1, <1>2, <1>3, <1>4, <1>5, ThreadFrame DEF HardInv

LEMMA LockKept ==
    ASSUME HardInv, HardTypes', Lock
    PROVE  HardInv'
<1>1. /\ UNCHANGED <<table, malloced, requests, cpu, owner, cmd, replies>>
      /\ thread.pc = "lock" /\ thread'.pc = "io" /\ thread'.msg = thread.msg
  BY DEF Lock, ThreadGoto, OnlyThread, tables, guest, HardInv, HardTypes,
         ThreadTypes
<1>2. Pending' = Pending  BY <1>1 DEF Pending, InHand
<1>3. Unreleased' = Unreleased /\ Asked' = Asked
  BY <1>1, <1>2 DEF Unreleased, Asked
<1>4. MessagesKept' /\ EndsFirst'
  BY <1>1, <1>3 DEF HardInv, MessagesKept, EndsFirst, Outside
<1>5. StillKept'
  BY <1>1, <1>2 DEF HardInv, StillKept, Still
<1> QED  BY <1>1, <1>2, <1>3, <1>4, <1>5, ThreadFrame DEF HardInv

\* The thread works on a message: its entry is there until it is cleared.
LEMMA EntryInHand ==
    ASSUME HardInv, thread.pc \in {"io", "release"}
    PROVE  /\ thread.msg \in Unreleased /\ thread.msg.request \in Requests
           /\ EntryFor(thread.msg.request) \in Slot
           /\ SlotsOf(thread.msg.request) # {}
           /\ First(SlotsOf(thread.msg.request)) = EntryFor(thread.msg.request)
           /\ table[EntryFor(thread.msg.request)] =
                 [request |-> thread.msg.request, iobuf |-> thread.msg.iobuf,
                  type |-> "TEMP"]
<1>1. thread.msg # Terminator /\ thread.pc \notin Outside
  BY DEF HardInv, HardTypes, ThreadTypes, Working, Outside
<1>2. thread.msg \in Unreleased  BY <1>1, PendingIs DEF Unreleased
<1>3. thread.msg.request \in Requests  BY <1>2, PendingIs
<1>4. PICK i \in Slot : table[i] = [request |-> thread.msg.request,
                                    iobuf |-> thread.msg.iobuf, type |-> "TEMP"]
  BY <1>2 DEF HardInv, TempWhileProcessing
<1>5. i \in SlotsOf(thread.msg.request)  BY <1>4 DEF SlotsOf
<1>6. First(SlotsOf(thread.msg.request)) \in SlotsOf(thread.msg.request)
  BY <1>5, EntryForIs
<1>7. First(SlotsOf(thread.msg.request)) = i
  <2>f. PICK f : f = First(SlotsOf(thread.msg.request))  OBVIOUS
  <2>1. f \in Slot /\ table[f].request = thread.msg.request
    BY <1>6, <2>f DEF SlotsOf
  <2>2. table[i].request = thread.msg.request  BY <1>4
  <2>3. f = i  BY <1>3, <2>1, <2>2, Numbers DEF HardInv, OneEach
  <2> QED  BY <2>f, <2>3
<1>8. EntryFor(thread.msg.request) = i  BY <1>5, <1>7 DEF EntryFor
<1> QED  BY <1>2, <1>3, <1>4, <1>5, <1>7, <1>8

LEMMA DoIoKept ==
    ASSUME HardInv, HardTypes', DoIo
    PROVE  HardInv'
<1>1. /\ UNCHANGED <<table, malloced, requests, cpu, owner, cmd, replies>>
      /\ thread.pc = "io" /\ thread'.pc = "release" /\ thread'.msg = thread.msg
  BY DEF DoIo, ThreadGoto, OnlyThread, tables, guest, HardInv, HardTypes,
         ThreadTypes
<1>2. Pending' = Pending  BY <1>1 DEF Pending, InHand
<1>3. Unreleased' = Unreleased /\ Asked' = Asked
  BY <1>1, <1>2 DEF Unreleased, Asked
<1>4. thread.msg.cmd = "io"
  <2>1. EntryFor(thread.msg.request) # 0  BY <1>1, EntryInHand, Numbers
  <2>2. thread.msg.cmd # "add"  BY <2>1 DEF DoIo
  <2> QED  BY <1>1, <2>2, EntryInHand, PendingIs
<1>5. MessagesKept' /\ EndsFirst'
  BY <1>1, <1>3, <1>4 DEF HardInv, MessagesKept, EndsFirst, Outside
<1>6. StillKept'
  BY <1>1, <1>2 DEF HardInv, StillKept, Still
<1> QED  BY <1>1, <1>2, <1>3, <1>5, <1>6, ThreadFrame DEF HardInv

\* The message in hand is the only one about its request.
LEMMA InHandOnce ==
    ASSUME HardInv, thread.pc \notin Outside, thread.msg # Terminator
    PROVE  /\ thread.msg \in Asked /\ thread.msg \notin Range(requests)
           /\ \A m \in Pending : m # thread.msg => m.request # thread.msg.request
           /\ Terminator \notin Pending
<1>1. thread.msg \in Asked  BY PendingIs DEF Asked
<1>2. thread.msg \notin Range(requests)
  BY DEF HardInv, MessagesKept, Range
<1>3. ASSUME NEW m \in Pending, m # thread.msg
      PROVE  m.request # thread.msg.request
  <2>1. CASE m = Terminator
    BY <1>1, <2>1, PendingIs DEF Terminator
  <2>2. CASE m # Terminator  BY <1>1, <1>3, <2>2, PendingIs DEF Asked
  <2> QED  BY <2>1, <2>2
<1>4. Terminator \notin Pending
  <2>1. Terminator \notin Range(requests)  BY DEF HardInv, EndsFirst, Range
  <2> QED  BY <2>1, PendingIs
<1> QED  BY <1>1, <1>2, <1>3, <1>4

LEMMA StaysAsyncKept ==
    ASSUME HardInv, HardTypes', StaysAsync
    PROVE  HardInv'
<1>1. /\ UNCHANGED <<table, malloced, requests, cpu, owner, cmd, replies>>
      /\ thread.pc = "async" /\ thread'.pc = "read" /\ thread'.msg = Terminator
      /\ thread.msg # Terminator
  BY DEF StaysAsync, Idle, NoThread, OnlyThread, tables, guest, HardInv,
         HardTypes, ThreadTypes, Working
<1>2. /\ Pending = Pending' \cup {thread.msg} /\ Pending' = Range(requests)
      /\ thread.msg \notin Pending'
  BY <1>1, InHandOnce DEF Pending, InHand, Outside
<1>3. Unreleased' = Unreleased /\ Asked' \subseteq Asked
  BY <1>1, <1>2 DEF Unreleased, Asked
<1>4. MessagesKept' /\ EndsFirst'
  BY <1>1, <1>3 DEF HardInv, MessagesKept, EndsFirst, Outside
<1>5. StillKept'
  BY <1>1, <1>2 DEF HardInv, StillKept, Still
<1> QED  BY <1>1, <1>2, <1>3, <1>4, <1>5, ThreadFrame DEF HardInv

\* The entry of the message in hand is changed, or its d_request is cleared, and
\* the message is released: the other entries stand for what they did.
LEMMA OthersKept ==
    ASSUME HardInv, thread.pc \in {"io", "release"},
           NEW i \in Slot, table[i].request = thread.msg.request,
           \A j \in Slot : j # i => table'[j] = table[j],
           UNCHANGED <<malloced, cpu, owner, cmd>>,
           Unreleased' = Unreleased \ {thread.msg}
    PROVE  /\ \A j \in Slot : j # i =>
                  (table[j] = Empty \/ TempEntry(j) \/ ChangeEntry(j) \/ FillEntry(j))'
           /\ TempWhileProcessing'
<1>1. \A m \in Unreleased : m # thread.msg => m.request # thread.msg.request
  BY EntryInHand, PendingIs
<1>2. ASSUME NEW j \in Slot, j # i
      PROVE  (table[j] = Empty \/ TempEntry(j) \/ ChangeEntry(j) \/ FillEntry(j))'
  <2>1. table'[j] = table[j]  BY <1>2
  <2>2. table[j] = Empty \/ TempEntry(j) \/ ChangeEntry(j) \/ FillEntry(j)
    BY DEF HardInv, EntriesKept, DoneEntry
  <2>3. CASE table[j] = Empty  BY <2>1, <2>3 DEF Empty
  <2>4. CASE TempEntry(j)
    <3>1. PICK m \in Unreleased :
              table[j] = [request |-> m.request, iobuf |-> m.iobuf, type |-> "TEMP"]
      BY <2>4 DEF TempEntry
    <3>2. table[j].request = m.request  BY <3>1
    <3>3. thread.msg.request # None  BY EntryInHand, Numbers
    <3>4. m # thread.msg  BY <1>2, <3>2, <3>3 DEF HardInv, OneEach
    <3> QED  BY <2>1, <3>1, <3>4 DEF TempEntry
  <2>5. CASE ChangeEntry(j)  BY <2>1, <2>5 DEF ChangeEntry
  <2>6. CASE FillEntry(j)  BY <2>1, <2>6 DEF FillEntry
  <2> QED  BY <2>2, <2>3, <2>4, <2>5, <2>6
<1>3. ASSUME NEW m \in Unreleased'
      PROVE  \E j \in Slot : table'[j] = [request |-> m.request,
                                          iobuf |-> m.iobuf, type |-> "TEMP"]
  <2>1. m \in Unreleased /\ m # thread.msg  OBVIOUS
  <2>2. PICK j \in Slot : table[j] = [request |-> m.request, iobuf |-> m.iobuf,
                                      type |-> "TEMP"]
    BY <2>1 DEF HardInv, TempWhileProcessing
  <2>3. table[j].request = m.request  BY <2>2
  <2>4. j # i  BY <1>1, <2>1, <2>3
  <2> QED  BY <2>2, <2>4
<1> QED  BY <1>2, <1>3 DEF TempWhileProcessing

LEMMA AddChangeIntKept ==
    ASSUME HardInv, HardTypes', AddChangeInt
    PROVE  HardInv'
<1>m. PICK n : n = thread.msg  OBVIOUS
<1>r. PICK r : r = n.request  OBVIOUS
<1>i. PICK i : i = EntryFor(r)  OBVIOUS
<1>1. /\ UNCHANGED <<malloced, requests, cpu, owner, cmd, replies>>
      /\ thread.pc = "io" /\ thread'.pc = "async" /\ thread'.msg = n
      /\ n.cmd = "add"
  BY <1>m DEF AddChangeInt, ThreadGoto, OnlyThread, guest, HardInv, HardTypes,
              ThreadTypes
<1>2. /\ i \in Slot /\ n \in Unreleased /\ n \in Asked /\ r \in Requests /\ r # None
      /\ table[i] = [request |-> r, iobuf |-> n.iobuf, type |-> "TEMP"]
      /\ n # Terminator
  BY <1>1, <1>m, <1>r, <1>i, EntryInHand, PendingIs
<1>3. /\ table[i].request = r /\ table[i].iobuf = n.iobuf /\ table[i].type = "TEMP"
  BY <1>2
<1>4. /\ table'[i] = [request |-> r, iobuf |-> n.iobuf, type |-> "CHANGEINT"]
      /\ \A j \in Slot : j # i => table'[j] = table[j]
  <2>1. table' = [table EXCEPT ![i] =
            [request |-> r, type |-> "CHANGEINT",
             iobuf |-> IF @.request = r THEN @.iobuf ELSE n.iobuf]]
    BY <1>m, <1>r, <1>i DEF AddChangeInt
  <2>2. table \in [Slot -> [request : Requests \cup {None},
                            iobuf : Bufs \cup {None},
                            type : {"none", "TEMP", "CHANGEINT"}]]
    BY DEF HardInv, HardTypes, TypeOK
  <2> QED  BY <1>2, <1>3, <2>1, <2>2
<1>5. /\ table'[i].request = r /\ table'[i].iobuf = n.iobuf
      /\ table'[i].type = "CHANGEINT"
  BY <1>4
<1>6. Pending' = Pending  BY <1>1, <1>m DEF Pending, InHand
<1>7. Unreleased' = Unreleased \ {n} /\ Asked' = Asked
  BY <1>1, <1>2, <1>6, <1>m DEF Unreleased, Asked
<1>8. MessagesKept' /\ EndsFirst'
  BY <1>1, <1>7, <1>m DEF HardInv, MessagesKept, EndsFirst, Outside
<1>9. StillKept'
  <2>1. Terminator \notin Pending
    BY <1>1, <1>2, <1>m, InHandOnce DEF Outside
  <2> QED  BY <1>1, <1>6, <2>1 DEF StillKept, Still
<1>10. /\ \A j \in Slot : j # i =>
             (table[j] = Empty \/ TempEntry(j) \/ ChangeEntry(j) \/ FillEntry(j))'
       /\ TempWhileProcessing'
  BY <1>1, <1>2, <1>3, <1>4, <1>7, <1>m, <1>r, OthersKept
<1>11. ChangeEntry(i)'
  <2>1. n.iobuf \in malloced  BY <1>2 DEF HardInv, BuffersLive
  <2>2. owner[r] = "device" /\ cmd[r] = "add"
    BY <1>1, <1>2, <1>r, PendingIs
  <2>3. \A m \in Unreleased' : m.request # r
    BY <1>2, <1>7, <1>r, PendingIs
  <2> QED  BY <1>1, <1>2, <1>5, <2>1, <2>2, <2>3 DEF ChangeEntry
<1>12. EntriesKept'  BY <1>10, <1>11 DEF EntriesKept
<1>13. \A j \in Slot : /\ table'[j].request = table[j].request
                       /\ table'[j].iobuf = table[j].iobuf
  BY <1>3, <1>4, <1>5
<1>14. OneEach' /\ BuffersLive'
  BY <1>1, <1>7, <1>13 DEF HardInv, OneEach, BuffersLive
<1>15. FillKept'
  <2>1. cpu.pc = "fill" /\ cpu.slot # 0 =>
            cpu.slot # i /\ cpu.slot \in Slot
    <3>1. cpu.slot \in 0 .. Slots + 1 /\ (cpu.pc = "fill" => cpu.slot <= Slots)
      BY DEF HardInv, HardTypes, CpuTypes
    <3>2. cpu.pc = "fill" /\ cpu.slot # 0 => cpu.slot \in Slot
      BY <3>1, Numbers, SMT DEF Slot
    <3> QED  BY <1>3, <3>2 DEF HardInv, FillKept, FillEntry
  <2> QED  BY <1>1, <1>4, <1>13, <2>1 DEF HardInv, FillKept, FillEntry
<1>16. \A q : SlotsOf(q)' = SlotsOf(q)  BY <1>13 DEF SlotsOf
<1>17. CpuKept'  BY <1>1, <1>6, <1>16 DEF HardInv, CpuKept
<1>18. RepliesKept'
  BY <1>1, <1>6, <1>16, RepliesFrame DEF HardInv, RepliesKept
<1> QED  BY <1>8, <1>9, <1>10, <1>12, <1>14, <1>15, <1>17, <1>18 DEF HardInv

LEMMA ReleaseEntryKept ==
    ASSUME HardInv, HardTypes', ReleaseEntry
    PROVE  HardInv'
<1>m. PICK n : n = thread.msg  OBVIOUS
<1>r. PICK r : r = n.request  OBVIOUS
<1>i. PICK i : i = EntryFor(r)  OBVIOUS
<1>0. thread.pc = "release" /\ UNCHANGED <<malloced, requests, cpu, owner, cmd, replies>>
  BY DEF ReleaseEntry, OnlyThread, guest
<1>2. /\ i \in Slot /\ n \in Unreleased /\ n \in Asked /\ r \in Requests /\ r # None
      /\ table[i] = [request |-> r, iobuf |-> n.iobuf, type |-> "TEMP"]
      /\ n # Terminator /\ SlotsOf(r) # {} /\ First(SlotsOf(r)) = i
  BY <1>0, <1>m, <1>r, <1>i, EntryInHand, PendingIs
<1>3. /\ table[i].request = r /\ table[i].iobuf = n.iobuf /\ table[i].type = "TEMP"
  BY <1>2
<1>1. /\ thread'.pc = "free" /\ thread'.msg = n /\ thread'.slot = i
      /\ table' = [table EXCEPT ![i].request = None]
  BY <1>2, <1>m, <1>r DEF ReleaseEntry, HardInv, HardTypes, ThreadTypes
<1>4. /\ table'[i] = [request |-> None, iobuf |-> n.iobuf, type |-> "TEMP"]
      /\ \A j \in Slot : j # i => table'[j] = table[j]
  <2>1. table \in [Slot -> [request : Requests \cup {None},
                            iobuf : Bufs \cup {None},
                            type : {"none", "TEMP", "CHANGEINT"}]]
    BY DEF HardInv, HardTypes, TypeOK
  <2> QED  BY <1>1, <1>2, <1>3, <2>1
<1>5. /\ table'[i].request = None /\ table'[i].iobuf = n.iobuf
      /\ table'[i].type = "TEMP"
  BY <1>4
<1>6. Pending' = Pending  BY <1>0, <1>1, <1>m DEF Pending, InHand
<1>7. Unreleased' = Unreleased \ {n} /\ Asked' = Asked
  BY <1>0, <1>1, <1>2, <1>6, <1>m DEF Unreleased, Asked
<1>8. MessagesKept' /\ EndsFirst'
  BY <1>0, <1>1, <1>7, <1>m DEF HardInv, MessagesKept, EndsFirst, Outside
<1>9. StillKept'
  <2>1. Terminator \notin Pending
    BY <1>0, <1>2, <1>m, InHandOnce DEF Outside
  <2> QED  BY <1>1, <1>6, <2>1 DEF StillKept, Still
<1>10. /\ \A j \in Slot : j # i =>
             (table[j] = Empty \/ TempEntry(j) \/ ChangeEntry(j) \/ FillEntry(j))'
       /\ TempWhileProcessing'
  BY <1>0, <1>2, <1>3, <1>4, <1>7, <1>m, <1>r, OthersKept
<1>11. DoneEntry(i)'
  <2>1. n.iobuf \in malloced  BY <1>2 DEF HardInv, BuffersLive
  <2> QED  BY <1>0, <1>1, <1>4, <2>1 DEF DoneEntry
<1>12. EntriesKept'  BY <1>10, <1>11 DEF EntriesKept
<1>13. \A j \in Slot : table'[j].iobuf = table[j].iobuf
  BY <1>3, <1>4, <1>5
<1>14. OneEach'  BY <1>4, <1>5 DEF HardInv, OneEach
<1>15. BuffersLive'  BY <1>0, <1>7, <1>13 DEF HardInv, BuffersLive
<1>16. FillKept'
  <2>1. cpu.pc = "fill" /\ cpu.slot # 0 =>
            cpu.slot # i /\ cpu.slot \in Slot
    <3>1. cpu.slot \in 0 .. Slots + 1 /\ (cpu.pc = "fill" => cpu.slot <= Slots)
      BY DEF HardInv, HardTypes, CpuTypes
    <3>2. cpu.pc = "fill" /\ cpu.slot # 0 => cpu.slot \in Slot
      BY <3>1, Numbers, SMT DEF Slot
    <3> QED  BY <1>3, <3>2 DEF HardInv, FillKept, FillEntry
  <2> QED  BY <1>0, <1>4, <1>13, <2>1 DEF HardInv, FillKept, FillEntry
<1>17. \A q \in Requests : SlotsOf(q)' \subseteq SlotsOf(q)
  BY <1>4, <1>5, Numbers DEF SlotsOf
<1>18. CpuKept'
  <2>1. CpuTypes  BY DEF HardInv, HardTypes
  <2> QED  BY <1>0, <1>6, <1>17, <2>1 DEF HardInv, CpuKept, CpuTypes
<1>19. RepliesKept'
  BY <1>0, <1>6, <1>17, RepliesFrame DEF HardInv, RepliesKept
<1> QED  BY <1>8, <1>9, <1>10, <1>12, <1>14, <1>15, <1>16, <1>18, <1>19 DEF HardInv

\* The entry that the thread clears, as long as it is nobody else's.
LEMMA EntryDone ==
    ASSUME HardInv, TableKept, thread.pc \in {"free", "clear"}
    PROVE  /\ thread.slot \in Slot /\ table[thread.slot].request = None
           /\ table[thread.slot] = Empty \/ DoneEntry(thread.slot)
<1>1. thread.slot \in Slot  BY DEF HardInv, HardTypes, ThreadTypes
<1>2. table[thread.slot].request = None  BY DEF TableKept, ReusedEarly
<1> QED  BY <1>1, <1>2, EntryIs

\* The rest of an entry is cleared: what is left stands for what it did.
LEMMA ClearsKept ==
    ASSUME HardInv, HardTypes', TableKept,
           NEW i \in Slot, i = thread.slot,
           UNCHANGED <<requests, cpu, owner, cmd, replies>>,
           thread.pc \in {"free", "clear"}, thread'.msg = thread.msg,
           thread'.pc \in {"clear", "reply"},
           \A j \in Slot : j # i => table'[j] = table[j],
           table'[i].request = None, table'[i].iobuf = None,
           table'[i].type # "CHANGEINT", (table[i] = Empty \/ DoneEntry(i))',
           \/ malloced' = malloced
           \/ /\ table[i].iobuf # None
              /\ malloced' = malloced \ {table[i].iobuf}
    PROVE  HardInv'
<1>1. /\ table[i].request = None /\ thread.msg # Terminator
      /\ thread.pc \notin Outside
  BY EntryDone DEF HardInv, HardTypes, ThreadTypes, Working, Outside
<1>2. Pending' = Pending  BY <1>1 DEF Pending, InHand, Outside
<1>3. Unreleased' = Unreleased /\ Asked' = Asked
  BY <1>2 DEF Unreleased, Asked
<1>4. MessagesKept' /\ EndsFirst'
  BY <1>1, <1>3 DEF HardInv, MessagesKept, EndsFirst, Outside
<1>5. StillKept'
  <2>1. Terminator \notin Pending  BY <1>1, InHandOnce
  <2> QED  BY <1>2, <2>1 DEF StillKept, Still
<1>6. \A b \in malloced :
          (\E j \in Slot : j # i /\ table[j].iobuf = b) => b \in malloced'
  BY DEF HardInv, BuffersLive
<1>7. ASSUME NEW m \in Unreleased
      PROVE  /\ m.iobuf \in malloced'
             /\ \E j \in Slot : table'[j] = [request |-> m.request,
                                      iobuf |-> m.iobuf, type |-> "TEMP"]
  <2>1. PICK j \in Slot : table[j] = [request |-> m.request, iobuf |-> m.iobuf,
                                      type |-> "TEMP"]
    BY DEF HardInv, TempWhileProcessing
  <2>2. table[j].request = m.request /\ table[j].iobuf = m.iobuf  BY <2>1
  <2>3. j # i  BY <1>1, <2>2, PendingIs
  <2>4. m.iobuf \in malloced  BY DEF HardInv, BuffersLive
  <2> QED  BY <1>6, <2>1, <2>2, <2>3, <2>4
<1>8. EntriesKept'
  <2>1. ASSUME NEW j \in Slot, j # i
        PROVE  (table[j] = Empty \/ TempEntry(j) \/ ChangeEntry(j) \/ FillEntry(j))'
    <3>1. table'[j] = table[j]  BY <2>1
    <3>2. table[j] = Empty \/ TempEntry(j) \/ ChangeEntry(j) \/ FillEntry(j)
      BY <2>1 DEF HardInv, EntriesKept, DoneEntry
    <3>3. CASE table[j] = Empty  BY <3>1, <3>3 DEF Empty
    <3>4. CASE TempEntry(j)  BY <1>3, <3>1, <3>4 DEF TempEntry
    <3>5. CASE ChangeEntry(j)
      <4>1. table[j].iobuf \in malloced'  BY <1>6, <2>1, <3>5 DEF ChangeEntry
      <4> QED  BY <1>3, <3>1, <3>5, <4>1 DEF ChangeEntry
    <3>6. CASE FillEntry(j)  BY <3>1, <3>6 DEF FillEntry
    <3> QED  BY <3>2, <3>3, <3>4, <3>5, <3>6
  <2> QED  BY <2>1 DEF EntriesKept
<1>9. OneEach'  BY DEF HardInv, OneEach
<1>10. BuffersLive'
  <2>1. \A j \in Slot : table'[j].iobuf \in malloced' \cup {None}
    BY <1>6 DEF HardInv, BuffersLive
  <2>2. \A j, k \in Slot : table'[j].iobuf = table'[k].iobuf
                               => j = k \/ table'[j].iobuf = None
    BY DEF HardInv, BuffersLive
  <2> QED  BY <1>3, <1>7, <2>1, <2>2 DEF BuffersLive
<1>11. TempWhileProcessing'  BY <1>3, <1>7 DEF TempWhileProcessing
<1>12. FillKept'
  <2>1. SUFFICES ASSUME cpu.pc = "fill", cpu.slot # 0 PROVE FillKept'
    BY DEF FillKept
  <2>2. /\ FillEntry(cpu.slot) /\ cpu.iobuf \in malloced /\ cpu.slot \in Slot
        /\ \A j \in Slot : table[j].iobuf # cpu.iobuf
    <3>1. cpu.slot \in 0 .. Slots + 1 /\ cpu.slot <= Slots
      BY <2>1 DEF HardInv, HardTypes, CpuTypes
    <3>2. cpu.slot \in Slot  BY <2>1, <3>1, Numbers, SMT DEF Slot
    <3> QED  BY <2>1, <3>2 DEF HardInv, FillKept
  <2>3. cpu.slot # i
    <3>1. table[cpu.slot].request \in Requests  BY <2>2, EntryIs
    <3> QED  BY <1>1, <3>1, Numbers
  <2>4. FillEntry(cpu.slot)'  BY <2>2, <2>3 DEF FillEntry
  <2>5. cpu.iobuf \in malloced'  BY <2>2
  <2>6. cpu.iobuf # None
    BY <2>2, Numbers DEF HardInv, HardTypes, TypeOK
  <2>7. \A j \in Slot : table'[j].iobuf # cpu.iobuf  BY <2>2, <2>6
  <2> QED  BY <2>4, <2>5, <2>7 DEF FillKept
<1>13. \A q \in Requests : SlotsOf(q)' \subseteq SlotsOf(q)
  BY Numbers DEF SlotsOf
<1>14. CpuKept'
  <2>1. CpuTypes  BY DEF HardInv, HardTypes
  <2> QED  BY <1>2, <1>13, <2>1 DEF HardInv, CpuKept, CpuTypes
<1>15. RepliesKept'
  BY <1>2, <1>13, RepliesFrame DEF HardInv, RepliesKept
<1> QED
  BY <1>4, <1>5, <1>8, <1>9, <1>10, <1>11, <1>12, <1>14, <1>15 DEF HardInv

LEMMA FreeIobufKept ==
    ASSUME HardInv, HardTypes', TableKept, FreeIobuf
    PROVE  HardInv'
<1>i. PICK i : i = thread.slot  OBVIOUS
<1>b. PICK b : b = table[i].iobuf  OBVIOUS
<1>1. /\ thread.pc = "free" /\ UNCHANGED <<requests, cpu, owner, cmd, replies>>
      /\ malloced' = malloced \ {b} /\ table' = [table EXCEPT ![i].iobuf = None]
      /\ thread'.pc = "clear" /\ thread'.msg = thread.msg
      /\ thread'.slot = thread.slot
  BY <1>i, <1>b DEF FreeIobuf, ThreadGoto, OnlyThread, guest, HardInv, HardTypes,
                    ThreadTypes
<1>2. /\ i \in Slot /\ table[i].request = None
      /\ table[i] = Empty \/ DoneEntry(i)
  BY <1>1, <1>i, EntryDone
<1>3. table \in [Slot -> [request : Requests \cup {None}, iobuf : Bufs \cup {None},
                          type : {"none", "TEMP", "CHANGEINT"}]]
  BY DEF HardInv, HardTypes, TypeOK
<1>4. \A j \in Slot : j # i => table'[j] = table[j]  BY <1>1, <1>3
<1>5. table'[i] = [request |-> None, iobuf |-> None, type |-> table[i].type]
  BY <1>1, <1>2, <1>3
<1>6. CASE table[i] = Empty
  <2>1. b = None /\ None \notin malloced
    BY <1>6, <1>b, Numbers DEF Empty, HardInv, HardTypes, TypeOK
  <2>2. malloced' = malloced  BY <1>1, <2>1
  <2>3. table[i].type = "none"  BY <1>6 DEF Empty
  <2>4. (table[i] = Empty)'  BY <1>5, <2>3 DEF Empty
  <2>5. table'[i].iobuf = None /\ table'[i].request = None /\ table'[i].type = "none"
    BY <1>5, <2>3
  <2> QED  BY <1>1, <1>2, <1>4, <1>i, <2>2, <2>4, <2>5, ClearsKept
<1>7. CASE DoneEntry(i)
  <2>1. table[i].type = "TEMP" /\ b = thread.msg.iobuf /\ b \in malloced
    BY <1>1, <1>7, <1>b DEF DoneEntry
  <2>2. b # None  BY <2>1, Numbers DEF HardInv, HardTypes, TypeOK
  <2>3. DoneEntry(i)'  BY <1>1, <1>5, <1>i, <2>1 DEF DoneEntry
  <2>4. table'[i].iobuf = None /\ table'[i].request = None /\ table'[i].type = "TEMP"
    BY <1>5, <2>1
  <2> QED  BY <1>1, <1>2, <1>4, <1>i, <1>b, <2>2, <2>3, <2>4, ClearsKept
<1> QED  BY <1>2, <1>6, <1>7

LEMMA ClearTypeKept ==
    ASSUME HardInv, HardTypes', TableKept, ClearType
    PROVE  HardInv'
<1>i. PICK i : i = thread.slot  OBVIOUS
<1>1. /\ thread.pc = "clear" /\ UNCHANGED <<requests, cpu, owner, cmd, replies>>
      /\ malloced' = malloced /\ table' = [table EXCEPT ![i].type = "none"]
      /\ thread'.pc = "reply" /\ thread'.msg = thread.msg
  BY <1>i DEF ClearType, ThreadGoto, OnlyThread, guest, HardInv, HardTypes,
              ThreadTypes
<1>2. /\ i \in Slot /\ table[i].request = None
      /\ table[i] = Empty \/ DoneEntry(i)
  BY <1>1, <1>i, EntryDone
<1>3. table \in [Slot -> [request : Requests \cup {None}, iobuf : Bufs \cup {None},
                          type : {"none", "TEMP", "CHANGEINT"}]]
  BY DEF HardInv, HardTypes, TypeOK
<1>4. \A j \in Slot : j # i => table'[j] = table[j]  BY <1>1, <1>3
<1>5. table'[i] = [request |-> None, iobuf |-> table[i].iobuf, type |-> "none"]
  BY <1>1, <1>2, <1>3
<1>6. table[i].iobuf = None
  <2>1. CASE table[i] = Empty  BY <2>1 DEF Empty
  <2>2. CASE DoneEntry(i)  BY <1>1, <2>2 DEF DoneEntry
  <2> QED  BY <1>2, <2>1, <2>2
<1>7. (table[i] = Empty)'  BY <1>5, <1>6 DEF Empty
<1>8. table'[i].iobuf = None /\ table'[i].request = None /\ table'[i].type = "none"
  BY <1>5, <1>6
<1> QED  BY <1>1, <1>2, <1>4, <1>i, <1>7, <1>8, ClearsKept

LEMMA ThreadReplyKept ==
    ASSUME HardInv, HardTypes', ThreadReply
    PROVE  HardInv'
<1>m. PICK n : n = thread.msg  OBVIOUS
<1>r. PICK r : r = n.request  OBVIOUS
<1>a. PICK a : a = [fun |-> "ReplyMsg", request |-> r]  OBVIOUS
<1>1. /\ UNCHANGED <<table, malloced, requests, cpu, owner, cmd>>
      /\ thread.pc = "reply" /\ thread'.pc = "read" /\ thread'.msg = Terminator
      /\ replies' = Append(replies, a)
  BY <1>m, <1>r, <1>a DEF ThreadReply, Reply, Idle, NoThread, OnlyThread, tables,
                          guest
<1>2. /\ n # Terminator /\ n \in Asked /\ n \in Pending
      /\ n.cmd = "io" /\ r \in Requests /\ r # None
      /\ owner[r] = "device" /\ cmd[r] = "io"
      /\ replies \in Seq(Answer) /\ CpuTypes /\ CpuKept
  <2>1. n # Terminator /\ n.cmd = "io" /\ thread.pc \notin Outside
    BY <1>1, <1>m DEF HardInv, HardTypes, ThreadTypes, MessagesKept, Working, Outside
  <2>2. n \in Asked  BY <1>m, <2>1, InHandOnce
  <2>3. replies \in Seq(Answer) /\ CpuTypes /\ CpuKept
    BY DEF HardInv, HardTypes, PipeTypes
  <2> QED  BY <1>r, <2>1, <2>2, <2>3, PendingIs DEF Asked
<1>3. /\ Pending = Pending' \cup {n} /\ Pending' = Range(requests)
      /\ n \notin Pending' /\ Terminator \notin Pending
      /\ \A m \in Pending' : m.request # r
  <2>1. /\ Pending = Range(requests) \cup {n} /\ Pending' = Range(requests)
    BY <1>1, <1>m DEF Pending, InHand
  <2>2. /\ n \notin Range(requests) /\ Terminator \notin Pending
        /\ \A m \in Pending : m # n => m.request # r
    BY <1>1, <1>2, <1>m, <1>r, InHandOnce DEF Outside
  <2> QED  BY <2>1, <2>2
<1>4. /\ n \notin Unreleased /\ Unreleased' = Unreleased /\ Asked' \subseteq Asked
  BY <1>1, <1>2, <1>3, <1>m DEF Unreleased, Asked
<1>5. MessagesKept' /\ EndsFirst'
  BY <1>1, <1>4 DEF HardInv, MessagesKept, EndsFirst, Outside
<1>6. StillKept'
  BY <1>1, <1>3 DEF StillKept, Still
<1>7. /\ EntriesKept' /\ OneEach' /\ BuffersLive' /\ TempWhileProcessing'
      /\ FillKept'
  BY <1>1, <1>3, <1>4, ThreadFrame
<1>8. SlotsOf(r) = {}
  <2>1. ASSUME NEW i \in Slot, table[i].request = r PROVE FALSE
    <3>1. TempEntry(i) => \E m \in Unreleased : m.request = r
      BY <2>1 DEF TempEntry
    <3>2. ~TempEntry(i)  BY <1>2, <1>4, <1>r, <3>1, PendingIs
    <3>3. ~ChangeEntry(i)  BY <1>2, <2>1 DEF ChangeEntry
    <3>4. ~FillEntry(i)
      <4>1. FillEntry(i) => cpu.op = "begin" /\ cpu.request = r
        BY <2>1, EntryIs DEF FillEntry
      <4> QED  BY <1>2, <1>r, <4>1 DEF CpuKept
    <3> QED  BY <1>2, <2>1, <3>2, <3>3, <3>4, EntryIs
  <2> QED  BY <2>1 DEF SlotsOf
<1>9. a \in Answer /\ a.fun = "ReplyMsg" /\ a.request = r
  BY <1>2, <1>a DEF Answer
<1>10. RepliesKept'
  <2>1. \A k \in DOMAIN replies :
            replies[k].fun = "ReplyMsg" => replies[k].request # r
    BY <1>2, <1>r DEF HardInv, RepliesKept
  <2>2. cmd[r] \in {"io", "rem"} /\ \A m \in Pending' : m.request # r
    BY <1>2, <1>3
  <2>3. Pending' \subseteq Pending  BY <1>3
  <2> QED  BY <1>1, <1>2, <1>8, <1>9, <2>1, <2>2, <2>3, AnswersKept
<1>11. CpuKept'
  <2>1. /\ DOMAIN replies' = DOMAIN replies \cup {Len(replies) + 1}
        /\ \A k \in DOMAIN replies : replies'[k] = replies[k]
        /\ replies'[Len(replies) + 1] = a
    BY <1>1, <1>2, <1>9, Appended
  <2>2. cpu.op \in {"begin", "rem"} => cpu.request # r
    BY <1>2, <1>r DEF CpuKept
  <2>3. \A q : SlotsOf(q)' = SlotsOf(q)  BY <1>1 DEF SlotsOf
  <2>4. cpu.op \in {"begin", "rem"} =>
            \A k \in DOMAIN replies' :
                replies'[k].fun = "ReplyMsg" => replies'[k].request # cpu.request
    BY <1>2, <1>9, <2>1, <2>2 DEF CpuKept
  <2> QED  BY <1>1, <1>2, <1>3, <2>3, <2>4 DEF CpuKept
<1> QED  BY <1>5, <1>6, <1>7, <1>10, <1>11 DEF HardInv

-----------------------------------------------------------------------------
(* As long as the table does what it is for.                               *)

LEMMA InitHardInv == Init => HardInv
<1> SUFFICES ASSUME Init PROVE HardInv  OBVIOUS
<1>1. HardTypes  BY InitHardTypes
<1>2. /\ requests = << >> /\ replies = << >> /\ DOMAIN << >> = {}
      /\ \A i \in Slot : table[i] = Empty
      /\ thread.pc = "none" /\ cpu.pc = "guest" /\ cpu.op = "none"
  BY EmptySeq DEF Init, NoThread, InGuest
<1>3. Pending = {} /\ Asked = {} /\ Unreleased = {}
  BY <1>2 DEF Pending, InHand, Asked, Unreleased, Range
<1>4. \A i \in Slot : /\ table[i].request = None /\ table[i].iobuf = None
                      /\ table[i].type = "none"
  BY <1>2 DEF Empty
<1>5. MessagesKept /\ EndsFirst /\ StillKept
  BY <1>2, <1>3, <1>4 DEF MessagesKept, EndsFirst, StillKept, Outside
<1>6. EntriesKept /\ OneEach /\ BuffersLive /\ TempWhileProcessing
  BY <1>2, <1>3, <1>4 DEF EntriesKept, OneEach, BuffersLive, TempWhileProcessing
<1>7. FillKept /\ CpuKept /\ RepliesKept
  BY <1>2 DEF FillKept, CpuKept, RepliesKept
<1> QED  BY <1>1, <1>5, <1>6, <1>7 DEF HardInv

LEMMA NextHardInv ==
    HardInv /\ TableKept /\ TableKept' /\ [Next]_vars => HardInv'
<1> SUFFICES ASSUME HardInv, TableKept, TableKept', [Next]_vars
             PROVE  HardInv'
  OBVIOUS
<1>1. HardTypes'  BY NextHardTypes DEF HardInv
<1>2. CASE QuietSteps  BY <1>1, <1>2, QuietKept
<1>3. CASE Program
  <2>1. CASE Open \/ Close \/ DiskChange  BY <1>2, <2>1 DEF QuietSteps
  <2>2. ASSUME NEW r \in Requests, \E c \in {"io", "add"} : BeginIO(r, c)
        PROVE  HardInv'
    BY <1>1, <2>2, BeginIOKept
  <2>3. ASSUME NEW r \in Requests,
               \E c \in {"rem", "quickrem"} : RemChangeInt(r, c)
        PROVE  HardInv'
    BY <1>1, <2>3, RemChangeIntKept
  <2>4. ASSUME NEW r \in Requests, AbortIO(r)
        PROVE  HardInv'
    BY <1>2, <2>4 DEF QuietSteps
  <2> QED  BY <1>3, <2>1, <2>2, <2>3, <2>4 DEF Program
<1>4. CASE TrapSteps
  BY <1>1, <1>2, <1>4, StartThreadKept, NoThreadErrorKept, CloseKept, AddAsyncKept,
     BeginSendsKept, DoQuickKept, QuickReplyKept, QuickReturnKept, AbortKept,
     ChangeCauseKept
     DEF TrapSteps, QuietSteps
<1>5. CASE ThreadSteps
  BY <1>1, <1>5, ThreadStartsKept, ReadRequestKept, TerminateKept, LockKept,
     AddChangeIntKept, DoIoKept, StaysAsyncKept, ReleaseEntryKept, FreeIobufKept,
     ClearTypeKept, ThreadReplyKept
     DEF ThreadSteps
<1>6. CASE Deliver  BY <1>1, <1>6, DeliverKept
<1>7. CASE Dies \/ UNCHANGED vars  BY <1>2, <1>7 DEF QuietSteps
<1> QED  BY <1>3, <1>4, <1>5, <1>6, <1>7 DEF Next

\* As long as the table does what it is for, no iobuf is freed while a request
\* or an entry needs it, and none is freed twice.
THEOREM BuffersSafe == Spec => BuffersKept
<1>1. HardInv => BuffersLive  BY DEF HardInv
<1> QED  BY <1>1, InitHardInv, NextHardInv, PTL DEF Spec, BuffersKept

\* As long as it does, AbortIO can tell by the table that a request is being
\* processed, from BeginIO until the thread is done with it.
THEOREM ProcessingShown == Spec => TempKept
<1>1. HardInv => TempWhileProcessing  BY DEF HardInv
<1> QED  BY <1>1, InitHardInv, NextHardInv, PTL DEF Spec, TempKept

\* What the Amiga is to hear after a step it was to hear before, unless the step
\* adds a reply or announces a disk change.
LEMMA NextCauses ==
    ASSUME HardInv, [Next]_vars, NEW k \in DOMAIN replies',
           replies'[k].fun = "Cause"
    PROVE  \/ \E j \in DOMAIN replies : replies[j] = replies'[k]
           \/ /\ ChangeCause /\ cpu.slot \in Slot
              /\ table[cpu.slot].type = "CHANGEINT"
              /\ replies'[k].request = table[cpu.slot].request
<1>1. /\ replies \in Seq(Answer) /\ CpuTypes /\ ThreadTypes
  BY DEF HardInv, HardTypes, PipeTypes
<1>2. CASE UNCHANGED replies  BY <1>2
<1>3. CASE Deliver
  <2>1. replies # << >> /\ replies' = Tail(replies)  BY <1>3 DEF Deliver
  <2> QED  BY <1>1, <2>1, Removed
<1>4. ASSUME NEW a \in Answer, replies' = Append(replies, a)
      PROVE  replies'[k] = a \/ \E j \in DOMAIN replies : replies[j] = replies'[k]
  BY <1>1, <1>4, Appended
<1>5. CASE QuickReply \/ ThreadReply
  <2>1. PICK r \in Requests : replies' = Append(replies, [fun |-> "ReplyMsg",
                                                          request |-> r])
    <3>1. CASE QuickReply  BY <1>1, <3>1 DEF QuickReply, Reply, CpuTypes
    <3>2. CASE ThreadReply
      <4>1. thread.msg.request \in Requests
        BY <1>1, <3>2, MessageIs DEF ThreadReply, ThreadTypes, Working
      <4> QED  BY <3>2, <4>1 DEF ThreadReply, Reply
    <3> QED  BY <1>5, <3>1, <3>2
  <2>2. [fun |-> "ReplyMsg", request |-> r] \in Answer  BY DEF Answer
  <2> QED  BY <1>4, <2>1, <2>2
<1>6. CASE ChangeCause
  <2>1. cpu.pc = "cause" /\ cpu.slot \in 0 .. Slots + 1 /\ cpu.slot <= Slots
        /\ cpu.slot > 0
    BY <1>1, <1>6 DEF ChangeCause, At, CpuTypes
  <2>2. cpu.slot \in Slot  BY <2>1, Numbers, SMT DEF Slot
  <2>3. PICK a : a = [fun |-> "Cause", request |-> table[cpu.slot].request]
    OBVIOUS
  <2>4. CASE table[cpu.slot].type = "CHANGEINT"
    <3>1. a \in Answer
      BY <2>2, <2>3 DEF Answer, HardInv, HardTypes, TypeOK
    <3>2. replies' = Append(replies, a)  BY <1>6, <2>3, <2>4 DEF ChangeCause
    <3> QED  BY <1>4, <1>6, <2>2, <2>3, <2>4, <3>1, <3>2
  <2>5. CASE table[cpu.slot].type # "CHANGEINT"
    BY <1>2, <1>6, <2>5 DEF ChangeCause
  <2> QED  BY <2>4, <2>5
<1> QED
  BY <1>2, <1>3, <1>5, <1>6
     DEF Next, Program, TrapSteps, ThreadSteps, Open, Close, DiskChange,
         BeginIO, RemChangeInt, AbortIO, start_thread, HasThread, SyncWait,
         NoThreadError, hardfile_open, add_async_request, DoQuick, QuickReturn,
         abort_async, AbortSpins, ChangeLock, hardfile_close,
         hardfile_beginio, hardfile_send_disk_change, ThreadStarts,
         ReadRequest, Terminate, Lock, AddChangeInt, DoIo, StaysAsync,
         ReleaseEntry, FreeIobuf, ClearType, Dies, OnlyCpu, OnlyThread, vars

\* The thread takes its messages from the pipe, one by one.
LEMMA ThreadTakes ==
    ASSUME ThreadTypes, requests \in Seq(Message), ThreadSteps
    PROVE  Pending' \subseteq Pending
<1>1. CASE ReadRequest
  <2>1. /\ thread.pc = "read" /\ thread'.pc = "lock" /\ requests # << >>
        /\ thread'.msg = Head(requests) /\ requests' = Tail(requests)
    BY <1>1 DEF ReadRequest, ThreadTypes
  <2>2. Range(requests) = Range(requests') \cup {thread'.msg}
    BY <2>1, Removed
  <2> QED  BY <2>1, <2>2 DEF Pending, InHand
<1>2. CASE ~ReadRequest
  <2>1. requests' = requests
    BY <1>2 DEF ThreadSteps, ThreadStarts, Terminate, Lock, AddChangeInt, DoIo,
       StaysAsync, ReleaseEntry, FreeIobuf, ClearType, ThreadReply, OnlyThread
  <2>2. \/ thread'.pc \in Outside
        \/ thread.pc \notin Outside /\ thread'.msg = thread.msg
    <3>1. CASE ThreadStarts \/ Terminate \/ StaysAsync \/ ThreadReply
      <4>1. thread' \in {Idle, NoThread}
        BY <3>1 DEF ThreadStarts, Terminate, StaysAsync, ThreadReply
      <4> QED  BY <4>1 DEF Idle, NoThread, Outside
    <3>2. CASE \/ Lock \/ AddChangeInt \/ DoIo \/ ReleaseEntry \/ FreeIobuf
               \/ ClearType
      <4>1. /\ thread.pc \notin Outside
            /\ \/ \E pc : thread' = [thread EXCEPT !.pc = pc]
               \/ \E i : thread' = [thread EXCEPT !.pc = "free", !.slot = i]
        BY <3>2 DEF Lock, AddChangeInt, DoIo, ReleaseEntry, FreeIobuf, ClearType,
                    ThreadGoto, Outside
      <4> QED  BY <4>1 DEF ThreadTypes
    <3> QED  BY <1>2, <3>1, <3>2 DEF ThreadSteps
  <2> QED  BY <2>1, <2>2 DEF Pending, InHand, Outside
<1> QED  BY <1>1, <1>2

\* A thread ends by way of the message of hardfile_close, and only then.
LEMMA NextStill ==
    ASSUME HardInv, [Next]_vars, Still', ~hardfile_close
    PROVE  Still
<1>1. /\ CpuTypes /\ ThreadTypes /\ requests \in Seq(Message)
  BY DEF HardInv, HardTypes, PipeTypes
<1>2. CASE ThreadSteps
  <2>1. Terminator \in Pending' => Still  BY <1>1, <1>2, ThreadTakes DEF Still
  <2>2. CASE Terminate  BY <2>2 DEF Terminate, Still, Pending, InHand
  <2>3. CASE ~Terminate
    <3>1. \/ thread' = Idle
          \/ thread'.pc \notin {"none", "start"}
      BY <1>1, <1>2, <2>3
         DEF ThreadSteps, ThreadStarts, ReadRequest, Lock, AddChangeInt, DoIo,
             StaysAsync, ReleaseEntry, FreeIobuf, ClearType, ThreadReply,
             ThreadGoto, ThreadTypes
    <3>2. thread'.pc \notin {"none", "start"}  BY <3>1 DEF Idle, NoThread
    <3> QED  BY <2>1, <3>2 DEF Still
  <2> QED  BY <2>2, <2>3
<1>3. CASE start_thread  BY <1>3 DEF start_thread, Still
<1>4. CASE hardfile_beginio
  <2>m. PICK m : m = [request |-> cpu.request, iobuf |-> cpu.iobuf,
                      cmd |-> cmd[cpu.request]]
    OBVIOUS
  <2>1. thread' = thread /\ requests' = Append(requests, m)
    BY <1>4, <2>m DEF hardfile_beginio, Send, thrVars
  <2>2. m \in Message /\ m # Terminator
    BY <1>1, <1>4, <2>m, Numbers
       DEF hardfile_beginio, CpuTypes, Message, Terminator
  <2>3. Range(requests') = Range(requests) \cup {m}
    BY <1>1, <2>1, <2>2, Appended
  <2> QED  BY <2>1, <2>2, <2>3 DEF Still, Pending, InHand
<1>5. CASE UNCHANGED <<requests, thread>>
  BY <1>5, PendingFrame DEF Still
<1> QED
  BY <1>2, <1>3, <1>4, <1>5
     DEF Next, Program, TrapSteps, Open, Close, DiskChange, BeginIO,
         RemChangeInt, AbortIO, HasThread, SyncWait, NoThreadError,
         hardfile_open, add_async_request, DoQuick, QuickReply, QuickReturn,
         abort_async, AbortSpins, ChangeLock, ChangeCause,
         hardfile_send_disk_change, Deliver, Dies, OnlyCpu, thrVars, vars

\* How the program gets a request back.
LEMMA NextOwner ==
    ASSUME HardInv, [Next]_vars, NEW r \in Requests,
           owner[r] = "device", owner'[r] # "device"
    PROVE  \/ NoThreadError /\ ~thread_running
           \/ QuickReturn /\ cpu.request = r
           \/ Deliver /\ Head(replies).fun = "ReplyMsg" /\ Head(replies).request = r
<1>1. owner \in [Requests -> {"guest", "device"}]
  BY DEF HardInv, HardTypes, TypeOK
<1>2. CASE \E q \in Requests : \E c \in {"io", "add"} : BeginIO(q, c)
  BY <1>1, <1>2 DEF BeginIO
<1>3. CASE NoThreadError  BY <1>3 DEF NoThreadError
<1>4. CASE QuickReturn  BY <1>1, <1>4 DEF QuickReturn, GivenBack
<1>5. CASE Deliver  BY <1>1, <1>5 DEF Deliver, GivenBack
<1>6. CASE owner' = owner  BY <1>6
<1> QED
  BY <1>2, <1>3, <1>4, <1>5, <1>6
     DEF Next, Program, TrapSteps, ThreadSteps, Open, Close, DiskChange,
         RemChangeInt, AbortIO, start_thread, HasThread, SyncWait,
         hardfile_open, hardfile_close, add_async_request, hardfile_beginio,
         DoQuick, QuickReply, abort_async, AbortSpins, ChangeLock, ChangeCause,
         hardfile_send_disk_change, ThreadStarts, ReadRequest, Terminate, Lock,
         AddChangeInt, DoIo, StaysAsync, ReleaseEntry, FreeIobuf, ClearType,
         ThreadReply, Dies, OnlyCpu, OnlyThread, guest, vars

\* No disk change is announced for a request the program has back, and none
\* while the thread has not begun or is to end.
CausesKept ==
    /\ ChangesDue
    /\ Still => \A k \in DOMAIN replies : replies[k].fun # "Cause"

LEMMA NextCausesKept ==
    ASSUME HardInv, CausesKept, ~RemovedLate, [Next]_vars
    PROVE  CausesKept'
<1>1. /\ replies \in Seq(Answer) /\ RepliesKept /\ CpuKept /\ ThreadTypes
  BY DEF HardInv, HardTypes, PipeTypes
<1>2. ASSUME NEW k \in DOMAIN replies', replies'[k].fun = "Cause"
      PROVE  owner'[replies'[k].request] = "device" /\ ~Still'
  <2>r. PICK r : r = replies'[k].request  OBVIOUS
  <2>1. ASSUME NEW j \in DOMAIN replies, replies[j] = replies'[k]
        PROVE  owner'[r] = "device" /\ ~Still'
    <3>1. /\ r \in Requests /\ owner[r] = "device" /\ ~Still
          /\ replies[j].fun = "Cause" /\ replies[j].request = r
      BY <1>1, <1>2, <2>r, <2>1 DEF CausesKept, ChangesDue, RepliesKept
    <3>2. ~hardfile_close
      BY <1>1, <3>1 DEF hardfile_close, At, CpuKept
    <3>3. ~Still'  BY <3>1, <3>2, NextStill
    <3>4. ~NoThreadError \/ thread_running
      BY <1>1, <3>1 DEF ThreadTypes, Still
    <3>5. ~(QuickReturn /\ cpu.request = r)
      <4>1. replies[j] \in Answer  BY <1>1, ElementOfSeq, LenProperties
      <4>2. replies[j] = [fun |-> "Cause", request |-> r]
        BY <3>1, <4>1 DEF Answer
      <4> QED  BY <4>2 DEF QuickReturn, RemovedLate
    <3>6. ~(Deliver /\ Head(replies).fun = "ReplyMsg" /\ Head(replies).request = r)
      <4>1. SUFFICES ASSUME Deliver, Head(replies).fun = "ReplyMsg",
                            Head(replies).request = r
                     PROVE  FALSE
        OBVIOUS
      <4>2. replies # << >> /\ replies' = Tail(replies)  BY <4>1 DEF Deliver
      <4>3. /\ 1 \in DOMAIN replies /\ Head(replies) = replies[1]
            /\ k + 1 \in DOMAIN replies /\ 1 < k + 1
            /\ replies'[k] = replies[k + 1]
        BY <1>1, <4>2, Removed
      <4>4. replies[k + 1].request # replies[1].request
        BY <1>1, <4>1, <4>3 DEF RepliesKept
      <4> QED  BY <2>r, <4>1, <4>3, <4>4
    <3>7. owner'[r] = "device"  BY <3>1, <3>4, <3>5, <3>6, NextOwner
    <3> QED  BY <3>3, <3>7
  <2>2. ASSUME ChangeCause, cpu.slot \in Slot,
               table[cpu.slot].type = "CHANGEINT", r = table[cpu.slot].request
        PROVE  owner'[r] = "device" /\ ~Still'
    <3>1. UNCHANGED <<requests, thread, owner>>
      BY <2>2 DEF ChangeCause, thrVars, guest
    <3>2. owner[r] = "device"
      <4>i. PICK i \in Slot : i = cpu.slot  BY <2>2
      <4>1. EntriesKept /\ table[i].type = "CHANGEINT" /\ table[i].request = r
        BY <2>2, <4>i DEF HardInv
      <4>2. table[i] # Empty  BY <4>1 DEF Empty
      <4>3. ~TempEntry(i)
        <5>1. ASSUME NEW m \in Unreleased,
                     table[i] = [request |-> m.request, iobuf |-> m.iobuf,
                                 type |-> "TEMP"]
              PROVE  FALSE
          BY <4>1, <5>1
        <5> QED  BY <5>1 DEF TempEntry
      <4>4. ~FillEntry(i)  BY <4>1 DEF FillEntry
      <4>5. ~DoneEntry(i)  BY <4>1 DEF DoneEntry
      <4> QED  BY <4>1, <4>2, <4>3, <4>4, <4>5 DEF EntriesKept, ChangeEntry
    <3>3. ~Still  BY <2>2 DEF HardInv, StillKept
    <3>4. ~Still'  BY <3>1, <3>3, PendingFrame DEF Still
    <3> QED  BY <3>1, <3>2, <3>4
  <2> QED  BY <1>2, <2>r, <2>1, <2>2, NextCauses
<1> QED  BY <1>2 DEF CausesKept, ChangesDue

\* As long as it does, the Amiga gets one reply to a request, while the device
\* has it; and as long as no quick CMD_REMCHANGEINT overtakes one, no disk change
\* by way of a request it has back.
THEOREM RepliesOnce == Spec => RepliedOnce
<1>1. HardInv => RepliesDue
  <2>1. SUFFICES ASSUME HardInv PROVE RepliesDue  OBVIOUS
  <2>2. RepliesKept /\ replies \in Seq(Answer)
    BY <2>1 DEF HardInv, HardTypes, PipeTypes
  <2>3. \A k \in DOMAIN replies :
            replies[k].fun = "ReplyMsg" => owner[replies[k].request] = "device"
    BY <2>2 DEF RepliesKept
  <2>4. ASSUME NEW j \in DOMAIN replies, NEW k \in DOMAIN replies,
               replies[j].fun = "ReplyMsg", replies[j] = replies[k], j # k
        PROVE  FALSE
    <3>1. j \in Nat /\ k \in Nat
      BY <2>2, LenProperties, SMT
    <3>2. j < k \/ k < j  BY <2>4, <3>1, SMT
    <3> QED  BY <2>2, <2>4, <3>2 DEF RepliesKept
  <2> QED  BY <2>3, <2>4 DEF RepliesDue
<1>2. Init => CausesKept
  BY EmptySeq DEF Init, CausesKept, ChangesDue
<1>3. HardInv /\ CausesKept /\ TableKept /\ TableKept' /\ ~RemovedLate
          /\ [Next]_vars => HardInv' /\ CausesKept'
  BY NextHardInv, NextCausesKept
<1>4. CausesKept => ChangesDue  BY DEF CausesKept
<1> QED  BY <1>1, <1>2, <1>3, <1>4, InitHardInv, NextHardInv, PTL
         DEF Spec, RepliedOnce

-----------------------------------------------------------------------------
(* Nothing is lost, as long as the device is not opened too early either.  *)

\* Unless BeginIO has one in hand, the buffers are those of the entries.
LEMMA HeldByTable ==
    ASSUME HardInv, LostInv, NEW b \in malloced, cpu.pc # "fill"
    PROVE  \E i \in Slot : table[i].iobuf = b
<1>1. b \in Bufs /\ cpu.iobuf \notin Bufs
  BY DEF HardInv, HardTypes, TypeOK, CpuTypes
<1> QED  BY <1>1 DEF LostInv, NoneLost

\* The entries hold what they held, but for the one whose buffer is freed.
LEMMA BuffersStay ==
    ASSUME HardInv, LostInv, NEW f,
           malloced' \subseteq malloced \ {f},
           \A i \in Slot :
               table'[i].iobuf = table[i].iobuf \/ table[i].iobuf \in {f, None},
           cpu.pc # "fill" \/ cpu' = cpu
    PROVE  NoneLost'
<1>1. ASSUME NEW b \in malloced'
      PROVE  b = cpu'.iobuf \/ \E i \in Slot : table'[i].iobuf = b
  <2>1. b \in malloced /\ b # f /\ b # None
    BY Numbers DEF HardInv, HardTypes, TypeOK
  <2>2. \/ cpu' = cpu /\ b = cpu.iobuf
        \/ \E i \in Slot : table[i].iobuf = b
    BY <2>1, HeldByTable DEF LostInv, NoneLost
  <2> QED  BY <2>1, <2>2
<1> QED  BY <1>1 DEF NoneLost

LEMMA BuffersSame ==
    ASSUME HardInv, LostInv, malloced' = malloced,
           \A i \in Slot : table'[i].iobuf = table[i].iobuf,
           cpu.pc # "fill" \/ cpu' = cpu
    PROVE  NoneLost'
<1>1. malloced' \subseteq malloced \ {None}
  BY Numbers DEF HardInv, HardTypes, TypeOK
<1> QED  BY <1>1, BuffersStay

LEMMA LostFrame ==
    ASSUME LostInv, NoneLost', malloced' \subseteq malloced,
           Pending' \subseteq Pending,
           \A r \in Requests : owner'[r] = "device" => owner[r] = "device",
           owner' \in [Requests -> {"guest", "device"}],
           thread'.pc \in {"none", "start"} =>
               thread.pc \in {"none", "start"} \/ malloced' = {}
    PROVE  LostInv'
  BY DEF LostInv

\* A thread that ends has nothing left to free.
LEMMA AllReleased ==
    ASSUME HardInv, LostInv, Terminator \in Pending,
           thread.pc \notin {"free", "clear"}
    PROVE  malloced = {}
<1>1. \A r \in Requests : owner[r] = "guest"  BY DEF LostInv
<1>2. ASSUME NEW i \in Slot PROVE table[i] = Empty
  <2>1. ~TempEntry(i)
    BY <1>1, PendingIs DEF TempEntry
  <2>2. ~ChangeEntry(i)  BY <1>1 DEF ChangeEntry
  <2>3. ~FillEntry(i)
    BY <1>1 DEF FillEntry, HardInv, HardTypes, CpuTypes, CpuKept
  <2>4. ~DoneEntry(i)  BY DEF DoneEntry
  <2> QED  BY <2>1, <2>2, <2>3, <2>4 DEF HardInv, EntriesKept
<1>3. cpu.pc # "fill"
  BY <1>1 DEF HardInv, HardTypes, CpuTypes, CpuKept
<1>4. ASSUME NEW b \in malloced PROVE FALSE
  <2>1. \E i \in Slot : table[i].iobuf = b  BY <1>3, HeldByTable
  <2>2. b = None  BY <1>2, <2>1 DEF Empty
  <2> QED  BY <2>2, Numbers DEF HardInv, HardTypes, TypeOK
<1> QED  BY <1>4

\* A request is taken out of the table, if it is there.
LEMMA ReleasedLost ==
    ASSUME HardInv, LostInv, NEW r, Released(r), cpu.pc # "fill"
    PROVE  NoneLost' /\ malloced' \subseteq malloced
<1>1. CASE SlotsOf(r) = {}
  <2>1. UNCHANGED <<table, malloced>>  BY <1>1 DEF Released, tables
  <2> QED  BY <2>1, BuffersSame
<1>2. CASE SlotsOf(r) # {}
  <2>i. PICK i : i = First(SlotsOf(r))  OBVIOUS
  <2>f. PICK f : f = table[i].iobuf  OBVIOUS
  <2>1. /\ table' = [table EXCEPT ![i] = Empty] /\ malloced' = malloced \ {f}
    BY <1>2, <2>i, <2>f DEF Released
  <2>2. table \in [Slot -> [request : Requests \cup {None}, iobuf : Bufs \cup {None},
                            type : {"none", "TEMP", "CHANGEINT"}]]
    BY DEF HardInv, HardTypes, TypeOK
  <2>3. \A j \in Slot : table'[j].iobuf = table[j].iobuf
                            \/ table[j].iobuf \in {f, None}
    BY <2>1, <2>2, <2>f
  <2> QED  BY <2>1, <2>3, BuffersStay
<1> QED  BY <1>1, <1>2

LEMMA ProgramLost ==
    ASSUME HardInv, HardInv', LostInv, ~ReopenedEarly,
           Program \/ Deliver \/ Dies \/ UNCHANGED vars
    PROVE  LostInv'
<1>1. /\ UNCHANGED <<table, malloced, requests, thread>>
      /\ cpu.pc = "guest" \/ cpu' = cpu
  BY DEF Program, Open, Close, DiskChange, BeginIO, RemChangeInt, AbortIO, Deliver,
         Dies, Trap, OnlyCpu, tables, thrVars, vars
<1>3. NoneLost'  BY <1>1, BuffersSame
<1>4. Pending' = Pending  BY <1>1, PendingFrame
<1>5. /\ owner \in [Requests -> {"guest", "device"}]
      /\ owner' \in [Requests -> {"guest", "device"}]
  BY DEF HardInv, HardTypes, TypeOK
<1>6. CASE \E r \in Requests : \E c \in {"io", "add"} : BeginIO(r, c)
  <2>1. Terminator \notin Pending  BY <1>6 DEF BeginIO, ReopenedEarly
  <2> QED  BY <1>1, <1>3, <1>4, <2>1 DEF LostInv
<1>7. CASE ~\E r \in Requests : \E c \in {"io", "add"} : BeginIO(r, c)
  <2>1. \/ owner' = owner
        \/ \E q : owner' = [owner EXCEPT ![q] = "guest"]
    BY <1>7 DEF Program, Open, Close, DiskChange, RemChangeInt, AbortIO, Deliver,
                GivenBack, Dies, OnlyCpu, guest, vars
  <2>2. \A r \in Requests : owner'[r] = "device" => owner[r] = "device"
    BY <1>5, <2>1
  <2> QED  BY <1>1, <1>3, <1>4, <1>5, <2>2, LostFrame
<1> QED  BY <1>6, <1>7

LEMMA TrapLost ==
    ASSUME HardInv, HardInv', LostInv, TableKept, TrapSteps
    PROVE  LostInv'
<1>1. /\ CpuTypes /\ ThreadTypes /\ None \notin malloced
      /\ owner \in [Requests -> {"guest", "device"}]
      /\ owner' \in [Requests -> {"guest", "device"}]
      /\ requests \in Seq(Message) /\ CpuKept
      /\ table \in [Slot -> [request : Requests \cup {None}, iobuf : Bufs \cup {None},
                             type : {"none", "TEMP", "CHANGEINT"}]]
  BY Numbers DEF HardInv, HardTypes, TypeOK, PipeTypes
<1>2. CASE start_thread
  <2>1. /\ thread.pc = "none" /\ thread'.pc = "start" /\ malloced' = malloced
        /\ requests' = << >>
    BY <1>2 DEF start_thread, NoThread
  <2>2. malloced' = {}  BY <2>1 DEF LostInv
  <2>3. Pending' = {}  BY <2>1, EmptySeq DEF Pending, InHand, Range
  <2> QED  BY <2>2, <2>3 DEF LostInv, NoneLost
<1>3. CASE \/ HasThread \/ SyncWait \/ NoThreadError \/ hardfile_open
           \/ QuickReply \/ QuickReturn \/ AbortSpins \/ ChangeLock
           \/ ChangeCause \/ hardfile_send_disk_change
  <2>1. /\ UNCHANGED <<table, malloced, requests, thread>> /\ cpu.pc # "fill"
        /\ owner' = owner \/ \E q : owner' = [owner EXCEPT ![q] = "guest"]
    BY <1>1, <1>3 DEF HasThread, SyncWait, NoThreadError, hardfile_open,
       QuickReply, QuickReturn, GivenBack, AbortSpins, ChangeLock, ChangeCause,
       hardfile_send_disk_change, At, OnlyCpu, guest, tables, thrVars, CpuTypes
  <2>2. NoneLost'  BY <2>1, BuffersSame
  <2>3. Pending' = Pending  BY <2>1, PendingFrame
  <2>4. \A r \in Requests : owner'[r] = "device" => owner[r] = "device"
    BY <1>1, <2>1
  <2> QED  BY <1>1, <2>1, <2>2, <2>3, <2>4, LostFrame
<1>4. CASE hardfile_close
  <2>1. /\ UNCHANGED <<table, malloced, thread, owner>> /\ cpu.op = "close"
        /\ cpu.pc = "send"
    BY <1>4 DEF hardfile_close, At, tables, thrVars
  <2>2. NoneLost'  BY <2>1, BuffersSame
  <2>3. \A r \in Requests : owner'[r] = "guest"  BY <1>1, <2>1 DEF CpuKept
  <2> QED  BY <2>1, <2>2, <2>3 DEF LostInv
<1>5. CASE add_async_request
  <2>1. PICK b : /\ malloced' = malloced \cup {b} /\ cpu'.iobuf = b
                 /\ cpu.pc = "work" /\ thread_running
                 /\ UNCHANGED <<requests, thread, owner>>
                 /\ \A j \in Slot : table'[j].iobuf = table[j].iobuf
    <3>1. PICK b \in Bufs \ malloced :
              /\ malloced' = malloced \cup {b}
              /\ cpu' = [cpu EXCEPT !.pc = "fill", !.slot = EntryFor(cpu.request),
                                    !.iobuf = b]
              /\ table' = [j \in Slot |->
                     IF j = EntryFor(cpu.request)
                     THEN [table[j] EXCEPT !.request = cpu.request] ELSE table[j]]
      BY <1>5 DEF add_async_request
    <3>2. cpu'.iobuf = b  BY <1>1, <3>1 DEF CpuTypes
    <3>3. \A j \in Slot : table'[j].iobuf = table[j].iobuf  BY <1>1, <3>1
    <3>4. /\ cpu.pc = "work" /\ thread_running /\ UNCHANGED <<requests, thread, owner>>
      BY <1>5 DEF add_async_request, At, thrVars, guest
    <3> QED  BY <3>1, <3>2, <3>3, <3>4
  <2>2. \A c \in malloced : \E i \in Slot : table'[i].iobuf = c
    BY <2>1, HeldByTable
  <2>3. NoneLost'  BY <2>1, <2>2 DEF NoneLost
  <2>4. Pending' = Pending  BY <2>1, PendingFrame
  <2>5. thread'.pc \notin {"none", "start"}  BY <1>1, <2>1 DEF ThreadTypes
  <2> QED  BY <2>1, <2>3, <2>4, <2>5 DEF LostInv
<1>6. CASE hardfile_beginio
  <2>i. PICK i : i = cpu.slot  OBVIOUS
  <2>b. PICK b : b = cpu.iobuf  OBVIOUS
  <2>m. PICK m : m = [request |-> cpu.request, iobuf |-> b,
                      cmd |-> cmd[cpu.request]]
    OBVIOUS
  <2>1. /\ cpu.pc = "fill" /\ UNCHANGED <<malloced, thread, owner>>
        /\ requests' = Append(requests, m)
        /\ table' = [j \in Slot |->
               IF j = i THEN [table[j] EXCEPT !.iobuf = b, !.type = "TEMP"]
               ELSE table[j]]
    BY <1>6, <2>i, <2>b, <2>m DEF hardfile_beginio, Send, thrVars, guest
  <2>2. /\ i \in Slot /\ cpu.request \in Requests
        /\ table[i] = [request |-> cpu.request, iobuf |-> None, type |-> "none"]
        /\ b \in Bufs /\ cmd[cpu.request] \in {"io", "add"}
    <3>1. i # 0  BY <2>1, <2>i DEF TableKept, TableFull
    <3>2. i \in 0 .. Slots + 1 /\ i <= Slots  BY <1>1, <2>1, <2>i DEF CpuTypes
    <3>3. i \in Slot  BY <3>1, <3>2, Numbers, SMT DEF Slot
    <3>4. FillEntry(i)  BY <2>1, <2>i, <3>1 DEF HardInv, FillKept
    <3> QED  BY <1>1, <2>1, <2>i, <2>b, <3>3, <3>4 DEF FillEntry, CpuTypes
  <2>3. table'[i].iobuf = b /\ table[i].iobuf = None
    <3>1. table'[i] = [table[i] EXCEPT !.iobuf = b, !.type = "TEMP"]
      BY <2>1, <2>2
    <3> QED  BY <2>2, <3>1
  <2>4. ASSUME NEW c \in malloced' PROVE \E j \in Slot : table'[j].iobuf = c
    <3>1. c = b \/ \E j \in Slot : table[j].iobuf = c
      BY <2>1, <2>b DEF LostInv, NoneLost
    <3>2. \A j \in Slot : j # i => table'[j].iobuf = table[j].iobuf  BY <2>1
    <3>3. c # None  BY <1>1, <2>1
    <3> QED  BY <2>2, <2>3, <3>1, <3>2, <3>3
  <2>5. NoneLost'  BY <2>4 DEF NoneLost
  <2>6. m \in Message /\ m # Terminator
    BY <2>2, <2>m, Numbers DEF Message, Terminator
  <2>7. Pending' = Pending \cup {m}
    <3>1. Range(Append(requests, m)) = Range(requests) \cup {m}
      <4>1. requests \in Seq(Message) /\ m \in Message  BY <1>1, <2>6
      <4> QED  BY <4>1, Appended
    <3>2. requests' = Append(requests, m)  BY <2>1
    <3> QED  BY <2>1, <3>1, <3>2 DEF Pending, InHand
  <2> QED  BY <2>1, <2>5, <2>6, <2>7 DEF LostInv
<1>7. CASE DoQuick \/ abort_async
  <2>1. /\ Released(cpu.request) /\ cpu.pc # "fill"
        /\ UNCHANGED <<requests, thread, owner>>
    BY <1>1, <1>7 DEF DoQuick, abort_async, At, thrVars, guest
  <2>2. NoneLost' /\ malloced' \subseteq malloced  BY <2>1, ReleasedLost
  <2>3. Pending' = Pending  BY <2>1, PendingFrame
  <2> QED  BY <1>1, <2>1, <2>2, <2>3, LostFrame
<1> QED  BY <1>2, <1>3, <1>4, <1>5, <1>6, <1>7 DEF TrapSteps

LEMMA ThreadLost ==
    ASSUME HardInv, HardInv', LostInv, TableKept, ThreadSteps
    PROVE  LostInv'
<1>1. /\ ThreadTypes /\ None \notin malloced
      /\ owner' \in [Requests -> {"guest", "device"}]
      /\ requests \in Seq(Message)
      /\ table \in [Slot -> [request : Requests \cup {None}, iobuf : Bufs \cup {None},
                             type : {"none", "TEMP", "CHANGEINT"}]]
  BY Numbers DEF HardInv, HardTypes, TypeOK, PipeTypes
<1>2. UNCHANGED <<cpu, owner>>
  BY DEF ThreadSteps, ThreadStarts, ReadRequest, Terminate, Lock, AddChangeInt, DoIo,
         StaysAsync, ReleaseEntry, FreeIobuf, ClearType, ThreadReply, OnlyThread, guest
<1>3. Pending' \subseteq Pending  BY <1>1, ThreadTakes
<1>4. NoneLost' /\ malloced' \subseteq malloced
  <2>1. CASE FreeIobuf
    <3>i. PICK i : i = thread.slot  OBVIOUS
    <3>f. PICK f : f = table[i].iobuf  OBVIOUS
    <3>1. malloced' = malloced \ {f} /\ table' = [table EXCEPT ![i].iobuf = None]
      BY <2>1, <3>i, <3>f DEF FreeIobuf
    <3>2. \A j \in Slot : table'[j].iobuf = table[j].iobuf
                              \/ table[j].iobuf \in {f, None}
      BY <1>1, <3>1, <3>f
    <3> QED  BY <1>2, <3>1, <3>2, BuffersStay
  <2>2. CASE ReleaseEntry
    <3>1. malloced' = malloced
          /\ (table' = table \/ \E i : table' = [table EXCEPT ![i].request = None])
      BY <2>2 DEF ReleaseEntry
    <3>2. \A j \in Slot : table'[j].iobuf = table[j].iobuf  BY <1>1, <3>1
    <3> QED  BY <1>2, <3>1, <3>2, BuffersSame
  <2>3. CASE ClearType
    <3>1. malloced' = malloced /\ \E i : table' = [table EXCEPT ![i].type = "none"]
      BY <2>3 DEF ClearType
    <3>2. \A j \in Slot : table'[j].iobuf = table[j].iobuf  BY <1>1, <3>1
    <3> QED  BY <1>2, <3>1, <3>2, BuffersSame
  <2>4. CASE AddChangeInt
    <3>r. PICK r : r = thread.msg.request  OBVIOUS
    <3>i. PICK i : i = EntryFor(r)  OBVIOUS
    <3>1. /\ malloced' = malloced /\ thread.pc = "io"
          /\ table' = [table EXCEPT ![i] =
                 [request |-> r, type |-> "CHANGEINT",
                  iobuf |-> IF @.request = r THEN @.iobuf ELSE thread.msg.iobuf]]
      BY <2>4, <3>r, <3>i DEF AddChangeInt
    <3>2. i \in Slot /\ table[i].request = r  BY <3>1, <3>r, <3>i, EntryInHand
    <3>3. \A j \in Slot : table'[j].iobuf = table[j].iobuf  BY <1>1, <3>1, <3>2
    <3> QED  BY <1>2, <3>1, <3>3, BuffersSame
  <2>5. CASE UNCHANGED tables
    BY <1>2, <2>5, BuffersSame DEF tables
  <2> QED
    BY <2>1, <2>2, <2>3, <2>4, <2>5
       DEF ThreadSteps, ThreadStarts, ReadRequest, Terminate, Lock, DoIo, StaysAsync,
           ThreadReply
<1>5. thread'.pc \in {"none", "start"} => malloced' = {}
  <2>1. CASE Terminate
    <3>1. thread.pc = "lock" /\ thread.msg = Terminator  BY <2>1 DEF Terminate
    <3>2. Terminator \in Pending  BY <3>1, PendingIs DEF Outside
    <3> QED  BY <1>4, <3>1, <3>2, AllReleased
  <2>2. CASE ~Terminate
    <3>1. thread'.pc \notin {"none", "start"}
      BY <1>1, <2>2 DEF ThreadSteps, ThreadStarts, ReadRequest, Lock, AddChangeInt,
         DoIo, StaysAsync, ReleaseEntry, FreeIobuf, ClearType, ThreadReply,
         ThreadGoto, Idle, NoThread, ThreadTypes
    <3> QED  BY <3>1
  <2> QED  BY <2>1, <2>2
<1> QED  BY <1>1, <1>2, <1>3, <1>4, <1>5, LostFrame

LEMMA NextLostInv ==
    HardInv /\ HardInv' /\ LostInv /\ TableKept /\ ~ReopenedEarly /\ [Next]_vars
        => LostInv'
  BY ProgramLost, TrapLost, ThreadLost DEF Next

LEMMA InitLostInv == Init => LostInv
<1> SUFFICES ASSUME Init PROVE LostInv  OBVIOUS
<1>1. /\ malloced = {} /\ requests = << >> /\ DOMAIN << >> = {}
      /\ thread.pc = "none"
  BY EmptySeq DEF Init, NoThread
<1>2. Pending = {}  BY <1>1 DEF Pending, InHand, Range
<1> QED  BY <1>1, <1>2 DEF LostInv, NoneLost

\* If, besides, the device is not opened again before the last thread has ended,
\* every iobuf belongs to an entry, or to the BeginIO that runs, and is freed.
THEOREM BuffersNotLost == Spec => BuffersFreed
<1>1. LostInv => NoneLost  BY DEF LostInv
<1>2. HardInv /\ LostInv /\ TableKept /\ ~ReopenedEarly
          /\ TableKept' /\ [Next]_vars => HardInv' /\ LostInv'
  BY NextHardInv, NextLostInv
<1> QED  BY <1>1, <1>2, InitHardInv, InitLostInv, PTL DEF Spec, BuffersFreed

-----------------------------------------------------------------------------
(* Everybody gets on, as long as no open comes too early: the parts of      *)
(* RepliedInOrder and CpuReturnsInOrder that are about safety.              *)

\* A request that the device has is being sent to a thread that is there and
\* will get to it, or is with that thread, or its reply is on the way.
OnItsWay(r) ==
    \/ cpu.op = "begin" /\ cpu.request = r
    \/ /\ thread_running /\ Terminator \notin Pending
       /\ \E m \in Pending : m.request = r
    \/ \E k \in DOMAIN replies :
           replies[k] = [fun |-> "ReplyMsg", request |-> r]

RequestsHeard ==
    \A r \in Requests : owner[r] = "device" /\ cmd[r] = "io" => OnItsWay(r)

\* It never fails as long as the table does what it is for and the device is
\* not opened before the last thread has ended.
HeardInOrder == [](TableKept /\ ~ReopenedEarly) => []RequestsHeard

\* The thread has work, and nothing keeps it from the next step of it.
ThreadWorks ==
    thread.pc \in Working /\ (thread.pc = "reply" => Len(replies) < MaxReplies)
ThreadGoesOn ==
    \/ thread.pc = "read" /\ requests # << >>
    \/ thread.pc = "lock" /\ (change_sem = 1 \/ dying # "no")
    \/ ThreadWorks

\* A trap that waits for the thread to start, for change_sem, for a request to
\* be processed, or for room in a pipe, waits for somebody who can do it.
TrapsGoOn ==
    /\ cpu.pc = "sync" => sync_sem > 0 \/ thread.pc = "start"
    /\ cpu.pc = "lock" => change_sem = 1 \/ dying # "no" \/ ThreadWorks
    /\ cpu.pc = "spin" => ~Processing(cpu.request) \/ ThreadGoesOn
    /\ cpu.pc \in {"fill", "send"} =>
           Len(requests) < MaxRequests \/ ThreadGoesOn
    /\ cpu.pc = "reply" => Len(replies) < MaxReplies

\* It never fails as long as the pipe to the Amiga does not fill up either.
TrapsGoOnInOrder == []InOrder => []TrapsGoOn

\* The device is opened by a thread that runs, and requests are made while it
\* is open.
OpenKept ==
    /\ opened => thread_running
    /\ cpu.op = "close" => opened
    /\ \A r \in Requests : owner[r] = "device" => opened

\* What the thread that is starting will do, and what a pipe has room for.
WaitKept ==
    /\ cpu.pc = "sync" => sync_sem > 0 \/ thread.pc = "start"
    /\ Len(requests) <= MaxRequests /\ Len(replies) <= MaxReplies

\* The request is on its way, whatever becomes of the thread.
RequestKept(r) ==
    \/ cpu.op = "begin" /\ cpu.request = r
    \/ \E m \in Pending : m.request = r
    \/ \E k \in DOMAIN replies :
           replies[k] = [fun |-> "ReplyMsg", request |-> r]

RequestsKept ==
    \A r \in Requests : owner[r] = "device" /\ cmd[r] = "io" => RequestKept(r)

LEMMA InitGoes == Init => OpenKept /\ WaitKept /\ RequestsKept
<1> SUFFICES ASSUME Init PROVE OpenKept /\ WaitKept /\ RequestsKept  OBVIOUS
<1>1. /\ opened = FALSE /\ cpu.op = "none" /\ cpu.pc = "guest"
      /\ \A r \in Requests : owner[r] = "guest"
      /\ Len(requests) = 0 /\ Len(replies) = 0
  BY EmptySeq DEF Init, InGuest
<1>2. MaxRequests \in Nat /\ MaxReplies \in Nat  BY HardfileAssumption
<1>3. WaitKept
  <2>1. Len(requests) <= MaxRequests /\ Len(replies) <= MaxReplies
    BY <1>1, <1>2, SMT
  <2> QED  BY <1>1, <2>1 DEF WaitKept
<1> QED  BY <1>1, <1>3 DEF OpenKept, RequestsKept

\* What a trap that goes on makes of the variables of its own.
LEMMA TrapVariables ==
    ASSUME CpuTypes, TrapSteps, ~start_thread
    PROVE  /\ cpu'.op \in {cpu.op, "none"} /\ cpu'.pc # "sync"
           /\ cpu'.op # "none" => cpu'.request = cpu.request
<1>1. CASE \/ NoThreadError \/ hardfile_open \/ hardfile_close
           \/ hardfile_beginio \/ QuickReply \/ QuickReturn \/ abort_async
           \/ hardfile_send_disk_change
  <2>1. cpu' = InGuest
    BY <1>1 DEF NoThreadError, hardfile_open, hardfile_close,
       hardfile_beginio, QuickReply, QuickReturn, abort_async,
       hardfile_send_disk_change
  <2> QED  BY <2>1 DEF InGuest
<1>2. CASE HasThread \/ SyncWait \/ DoQuick \/ AbortSpins
  <2>1. \E pc \in {"work", "reply", "spin"} : cpu' = [cpu EXCEPT !.pc = pc]
    BY <1>2 DEF HasThread, SyncWait, DoQuick, AbortSpins, Goto
  <2> QED  BY <2>1 DEF CpuTypes
<1>3. CASE add_async_request
  <2>1. \E i, b : cpu' = [cpu EXCEPT !.pc = "fill", !.slot = i, !.iobuf = b]
    BY <1>3 DEF add_async_request
  <2> QED  BY <2>1 DEF CpuTypes
<1>4. CASE ChangeLock \/ ChangeCause
  <2>1. \/ cpu' = [cpu EXCEPT !.pc = "cause", !.slot = 1]
        \/ cpu' = [cpu EXCEPT !.slot = @ + 1] /\ cpu.pc = "cause"
    BY <1>4 DEF ChangeLock, ChangeCause, At
  <2> QED  BY <2>1 DEF CpuTypes
<1> QED  BY <1>1, <1>2, <1>3, <1>4 DEF TrapSteps

\* A thread that ends is not one that the device is open with.
LEMMA NextOpenKept ==
    ASSUME HardInv, OpenKept, ~ReopenedEarly, [Next]_vars
    PROVE  OpenKept'
<1>1. /\ CpuTypes /\ ThreadTypes /\ CpuKept
      /\ owner \in [Requests -> {"guest", "device"}]
      /\ opened \in BOOLEAN
  BY DEF HardInv, HardTypes, TypeOK
<1>2. ASSUME opened' = opened, thread_running' = thread_running,
             cpu'.op = "close" => opened,
             \A r \in Requests : owner'[r] = "device"
                                     => owner[r] = "device" \/ opened
      PROVE  OpenKept'
  BY <1>2 DEF OpenKept
<1>3. CASE Program
  <2>1. /\ opened' = opened /\ thread_running' = thread_running
        /\ cpu'.op = "close" => opened
    BY <1>1, <1>3
       DEF Program, Open, Close, DiskChange, BeginIO, RemChangeInt, AbortIO,
           Trap, OnlyCpu, guest, thrVars, InGuest
  <2>2. \A r \in Requests : owner'[r] = "device"
                                => owner[r] = "device" \/ opened
    BY <1>1, <1>3
       DEF Program, Open, Close, DiskChange, BeginIO, RemChangeInt, AbortIO,
           guest
  <2> QED  BY <1>2, <2>1, <2>2
<1>4. CASE hardfile_open
  BY <1>4 DEF hardfile_open, InGuest, OpenKept, OnlyCpu, thrVars
<1>5. CASE hardfile_close
  BY <1>1, <1>5 DEF hardfile_close, At, InGuest, OpenKept, CpuKept
<1>6. CASE start_thread
  BY <1>1, <1>6 DEF start_thread, Goto, CpuTypes, guest, OpenKept
<1>7. CASE NoThreadError \/ QuickReturn
  <2>1. /\ opened' = opened /\ thread_running' = thread_running
        /\ cpu'.op = "none"
        /\ owner' = owner \/ \E q : owner' = [owner EXCEPT ![q] = "guest"]
    BY <1>7 DEF NoThreadError, QuickReturn, GivenBack, InGuest, OnlyCpu, thrVars
  <2> QED  BY <1>1, <2>1 DEF OpenKept
<1>8. CASE \/ HasThread \/ SyncWait \/ add_async_request \/ hardfile_beginio
           \/ DoQuick \/ QuickReply \/ abort_async \/ AbortSpins
           \/ ChangeLock \/ ChangeCause \/ hardfile_send_disk_change
  <2>1. UNCHANGED <<opened, owner, thread_running>>
    BY <1>8 DEF HasThread, SyncWait, add_async_request, hardfile_beginio,
       DoQuick, QuickReply, abort_async, AbortSpins, ChangeLock, ChangeCause,
       hardfile_send_disk_change, OnlyCpu, guest, thrVars
  <2>2. cpu'.op \in {cpu.op, "none"}
    <3>1. TrapSteps  BY <1>8 DEF TrapSteps
    <3>2. ~start_thread \/ cpu' = [cpu EXCEPT !.pc = "sync"]
      BY DEF start_thread, Goto
    <3> QED  BY <1>1, <3>1, <3>2, TrapVariables DEF CpuTypes
  <2> QED  BY <2>1, <2>2 DEF OpenKept
<1>9. CASE Deliver
  <2>1. /\ UNCHANGED <<opened, thread_running, cpu>>
        /\ owner' = owner \/ \E q : owner' = [owner EXCEPT ![q] = "guest"]
    BY <1>9 DEF Deliver, GivenBack, thrVars
  <2> QED  BY <1>1, <2>1 DEF OpenKept
<1>10. CASE ThreadStarts
  BY <1>10 DEF ThreadStarts, guest, OpenKept
<1>11. CASE Terminate
  <2>1. Terminator \in Pending
    BY <1>11 DEF Terminate, Pending, InHand
  <2>2. ~opened  BY <2>1 DEF ReopenedEarly
  <2> QED  BY <1>11, <2>2 DEF Terminate, guest, OpenKept
<1>12. CASE \/ ReadRequest \/ Lock \/ AddChangeInt \/ DoIo \/ StaysAsync
            \/ ReleaseEntry \/ FreeIobuf \/ ClearType \/ ThreadReply \/ Dies
            \/ UNCHANGED vars
  BY <1>12 DEF ReadRequest, Lock, AddChangeInt, DoIo, StaysAsync, ReleaseEntry,
     FreeIobuf, ClearType, ThreadReply, Dies, OnlyThread, guest, vars, thrVars,
     OpenKept
<1> QED  BY <1>3, <1>4, <1>5, <1>6, <1>7, <1>8, <1>9, <1>10, <1>11, <1>12
         DEF Next, TrapSteps, ThreadSteps

\* A pipe with room for one more still has no more than it has room for.
LEMMA RoomFor ==
    ASSUME NEW S, NEW s \in Seq(S), NEW e \in S, NEW n \in Nat, Len(s) < n
    PROVE  Len(Append(s, e)) <= n
<1>1. Len(s) \in Nat /\ Len(Append(s, e)) = Len(s) + 1
  BY AppendProperties, LenProperties
<1> QED  BY <1>1, SMT

LEMMA LessIn ==
    ASSUME NEW S, NEW s \in Seq(S), s # << >>, NEW n \in Nat, Len(s) <= n
    PROVE  Len(Tail(s)) <= n
<1>1. Len(s) \in Nat /\ Len(Tail(s)) = Len(s) - 1
  BY HeadTailProperties, LenProperties
<1> QED  BY <1>1, SMT

\* The post of sync_sem that a trap waits for is there or comes.
LEMMA NextWaitKept ==
    ASSUME HardTypes, HardTypes', WaitKept, [Next]_vars
    PROVE  WaitKept'
<1>1. /\ CpuTypes /\ ThreadTypes /\ sync_sem \in Nat
      /\ requests \in Seq(Message) /\ replies \in Seq(Answer)
      /\ requests' \in Seq(Message) /\ replies' \in Seq(Answer)
      /\ dying \in {"no", "post", "unlock"}
  BY SMT DEF HardTypes, TypeOK, PipeTypes
<1>2. MaxRequests \in Nat /\ MaxReplies \in Nat  BY HardfileAssumption
<1>3. Len(requests') <= MaxRequests
  <2>1. CASE requests' = requests  BY <2>1 DEF WaitKept
  <2>2. CASE requests' = << >>  BY <1>2, <2>2, EmptySeq, SMT
  <2>3. CASE requests # << >> /\ requests' = Tail(requests)
    BY <1>1, <1>2, <2>3, LessIn DEF WaitKept
  <2>4. ASSUME NEW m \in Message, Send(m) PROVE Len(requests') <= MaxRequests
    BY <1>1, <1>2, <2>4, RoomFor DEF Send
  <2>5. CASE hardfile_close
    BY <2>4, <2>5 DEF hardfile_close, Message
  <2>6. CASE hardfile_beginio
    <3>1. [request |-> cpu.request, iobuf |-> cpu.iobuf,
           cmd |-> cmd[cpu.request]] \in Message
      BY <1>1, <2>6 DEF hardfile_beginio, CpuTypes, Message
    <3> QED  BY <2>4, <2>6, <3>1 DEF hardfile_beginio
  <2> QED
    BY <2>1, <2>2, <2>3, <2>5, <2>6
       DEF Next, Program, TrapSteps, ThreadSteps, Open, Close, DiskChange,
           BeginIO, RemChangeInt, AbortIO, start_thread, HasThread, SyncWait,
           NoThreadError, hardfile_open, add_async_request, DoQuick,
           QuickReply, QuickReturn, abort_async, AbortSpins, ChangeLock, ChangeCause,
           hardfile_send_disk_change, Deliver, ThreadStarts, ReadRequest,
           Terminate, Lock, AddChangeInt, DoIo, StaysAsync, ReleaseEntry,
           FreeIobuf, ClearType, ThreadReply, Dies, OnlyCpu, OnlyThread, vars
<1>4. Len(replies') <= MaxReplies
  <2>1. CASE replies' = replies  BY <2>1 DEF WaitKept
  <2>2. CASE replies # << >> /\ replies' = Tail(replies)
    BY <1>1, <1>2, <2>2, LessIn DEF WaitKept
  <2>3. ASSUME NEW a, Len(replies) < MaxReplies,
               replies' = Append(replies, a)
        PROVE  Len(replies') <= MaxReplies
    <3>1. /\ Len(replies) \in Nat /\ Len(replies') \in Nat
          /\ Len(replies') = Len(replies) + 1
      BY <1>1, <2>3, LenProperties
    <3> QED  BY <1>2, <2>3, <3>1, SMT
  <2>4. CASE QuickReply \/ ThreadReply
    BY <2>3, <2>4 DEF QuickReply, ThreadReply, Reply
  <2>5. CASE ChangeCause  BY <2>1, <2>3, <2>5 DEF ChangeCause
  <2> QED
    BY <2>1, <2>2, <2>4, <2>5
       DEF Next, Program, TrapSteps, ThreadSteps, Open, Close, DiskChange,
           BeginIO, RemChangeInt, AbortIO, start_thread, HasThread, SyncWait,
           NoThreadError, hardfile_open, add_async_request, DoQuick, QuickReturn,
           abort_async, AbortSpins, ChangeLock, hardfile_close,
           hardfile_beginio, hardfile_send_disk_change, Deliver, ThreadStarts,
           ReadRequest, Terminate, Lock, AddChangeInt, DoIo, StaysAsync,
           ReleaseEntry, FreeIobuf, ClearType, Dies, OnlyCpu, OnlyThread, vars
<1>5. cpu'.pc = "sync" => sync_sem' > 0 \/ thread'.pc = "start"
  <2>1. CASE cpu.pc = "sync" /\ UNCHANGED <<sync_sem, thread>>
    BY <2>1 DEF WaitKept
  <2>2. CASE cpu'.pc # "sync"  BY <2>2
  <2>3. CASE sync_sem' = sync_sem + 1  BY <1>1, <2>3, SMT
  <2>4. CASE start_thread  BY <2>4 DEF start_thread, NoThread
  <2>5. CASE cpu' = cpu /\ sync_sem' = sync_sem /\ thread.pc # "start"
    <3>1. cpu.pc = "sync" => sync_sem > 0  BY <2>5 DEF WaitKept
    <3> QED  BY <2>5, <3>1
  <2>6. CASE Program
    <3>1. cpu'.pc # "sync"
      BY <2>6 DEF Program, Open, Close, DiskChange, BeginIO, RemChangeInt,
                  AbortIO, Trap, InGuest
    <3> QED  BY <3>1
  <2>7. CASE TrapSteps /\ ~start_thread
    BY <1>1, <2>2, <2>7, TrapVariables
  <2>8. CASE Deliver  BY <2>2, <2>8 DEF Deliver
  <2>9. CASE ThreadStarts  BY <2>3, <2>9 DEF ThreadStarts
  <2>10. CASE ThreadSteps /\ ~ThreadStarts
    <3>1. /\ UNCHANGED <<cpu, sync_sem>> /\ thread.pc # "start"
      BY <2>10 DEF ThreadSteps, ReadRequest, Terminate, Lock, AddChangeInt,
         DoIo, StaysAsync, ReleaseEntry, FreeIobuf, ClearType, ThreadReply,
         OnlyThread
    <3> QED  BY <2>5, <3>1
  <2>11. CASE Dies
    <3>1. /\ UNCHANGED <<cpu, thread>>
          /\ sync_sem' = sync_sem \/ sync_sem' = sync_sem + 1
      BY <2>11 DEF Dies
    <3> QED  BY <2>1, <2>2, <2>3, <3>1
  <2>12. CASE UNCHANGED vars
    BY <2>1, <2>2, <2>12 DEF vars, thrVars
  <2> QED  BY <2>4, <2>6, <2>7, <2>8, <2>9, <2>10, <2>11, <2>12
           DEF Next
<1> QED  BY <1>3, <1>4, <1>5 DEF WaitKept

\* What is on its way to r stays so.
LEMMA StaysOnItsWay ==
    ASSUME RequestsKept, NEW r \in Requests,
           owner[r] = "device", cmd[r] = "io",
           cpu.op = "begin" /\ cpu.request = r => RequestKept(r)',
           \A m \in Pending : m.request = r => m \in Pending' \/ RequestKept(r)',
           \A k \in DOMAIN replies :
               replies[k] = [fun |-> "ReplyMsg", request |-> r]
                   => RequestKept(r)'
    PROVE  RequestKept(r)'
<1>1. RequestKept(r)  BY DEF RequestsKept
<1>2. CASE \E m \in Pending : m.request = r
  BY <1>2 DEF RequestKept
<1> QED  BY <1>1, <1>2 DEF RequestKept

\* A step of a program or of the Amiga.
LEMMA ProgramRequests ==
    ASSUME HardInv, RequestsKept, Program \/ Deliver
    PROVE  RequestsKept'
<1> SUFFICES ASSUME NEW r \in Requests, owner'[r] = "device", cmd'[r] = "io"
             PROVE  RequestKept(r)'
  BY DEF RequestsKept
<1>1. /\ CpuTypes /\ replies \in Seq(Answer)
      /\ owner \in [Requests -> {"guest", "device"}]
      /\ cmd \in [Requests -> {"none", "io", "add", "rem", "quickrem"}]
  BY DEF HardInv, HardTypes, TypeOK, PipeTypes
<1>2. cpu.pc = "guest" /\ cpu.op = "none" /\ UNCHANGED <<requests, thread>>
  BY <1>1 DEF Program, Deliver, Open, Close, DiskChange, BeginIO,
     RemChangeInt, AbortIO, Trap, OnlyCpu, thrVars, CpuTypes
<1>3. Pending' = Pending  BY <1>2, PendingFrame
<1>4. ASSUME owner[r] = "device", cmd[r] = "io", replies' = replies
      PROVE  RequestKept(r)'
  <2>1. \A k \in DOMAIN replies :
            replies[k] = [fun |-> "ReplyMsg", request |-> r]
                => RequestKept(r)'
    BY <1>4 DEF RequestKept
  <2> QED  BY <1>2, <1>3, <1>4, <2>1, StaysOnItsWay
<1>5. ASSUME NEW q \in Requests, NEW c \in {"io", "add"}, BeginIO(q, c)
      PROVE  RequestKept(r)'
  <2>1. /\ cpu'.op = "begin" /\ cpu'.request = q /\ replies' = replies
        /\ owner' = [owner EXCEPT ![q] = "device"]
        /\ cmd' = [cmd EXCEPT ![q] = c]
    BY <1>5 DEF BeginIO, Trap, InGuest, OnlyCpu
  <2>2. CASE q = r  BY <2>1, <2>2 DEF RequestKept
  <2>3. CASE q # r
    <3>1. owner[r] = "device" /\ cmd[r] = "io"  BY <1>1, <2>1, <2>3
    <3> QED  BY <1>4, <2>1, <3>1
  <2> QED  BY <2>2, <2>3
<1>6. ASSUME NEW q \in Requests, NEW c \in {"rem", "quickrem"}, RemChangeInt(q, c)
      PROVE  RequestKept(r)'
  <2>1. /\ owner' = owner /\ cmd' = [cmd EXCEPT ![q] = c]
        /\ replies' = replies
    BY <1>6 DEF RemChangeInt, OnlyCpu
  <2>2. q # r  BY <1>1, <2>1
  <2> QED  BY <1>1, <1>4, <2>1, <2>2
<1>7. CASE Open \/ Close \/ DiskChange \/ \E q \in Requests : AbortIO(q)
  BY <1>4, <1>7 DEF Open, Close, DiskChange, AbortIO, guest, OnlyCpu
<1>8. CASE Deliver
  <2> DEFINE h == Head(replies)
  <2>1. /\ replies # << >> /\ replies' = Tail(replies)
        /\ IF h.fun = "ReplyMsg"
           THEN /\ owner' = [owner EXCEPT ![h.request] = "guest"]
                /\ cmd' = [cmd EXCEPT ![h.request] = "none"]
           ELSE UNCHANGED <<owner, cmd>>
    BY <1>8 DEF Deliver, GivenBack
  <2>2. h.fun = "ReplyMsg" => h.request # r  BY <1>1, <2>1
  <2>3. owner[r] = "device" /\ cmd[r] = "io"  BY <1>1, <2>1, <2>2
  <2>4. ASSUME NEW k \in DOMAIN replies,
               replies[k] = [fun |-> "ReplyMsg", request |-> r]
        PROVE  RequestKept(r)'
    <3>1. h = replies[1]  BY <1>1, <2>1, Removed
    <3>2. k # 1  BY <2>2, <2>4, <3>1
    <3>3. PICK j \in DOMAIN Tail(replies) : k = j + 1
      BY <1>1, <2>1, <3>2, Removed
    <3>4. Tail(replies)[j] = replies[k]  BY <1>1, <2>1, <3>3, Removed
    <3> QED  BY <2>1, <2>4, <3>3, <3>4 DEF RequestKept
  <2> QED  BY <1>2, <1>3, <2>3, <2>4, StaysOnItsWay
<1> QED  BY <1>5, <1>6, <1>7, <1>8 DEF Program

\* What is written to a pipe leaves what is there.
LEMMA AppendedStays ==
    ASSUME NEW S, NEW s \in Seq(S), NEW e \in S
    PROVE  Range(Append(s, e)) = Range(s) \cup {e}
<1> QED  BY Appended DEF Range

\* A step of a trap.
LEMMA TrapRequests ==
    ASSUME HardInv, HardInv', OpenKept, RequestsKept, TrapSteps
    PROVE  RequestsKept'
<1> SUFFICES ASSUME NEW r \in Requests, owner'[r] = "device", cmd'[r] = "io"
             PROVE  RequestKept(r)'
  BY DEF RequestsKept
<1>1. /\ CpuTypes /\ ThreadTypes /\ replies \in Seq(Answer)
      /\ replies' \in Seq(Answer) /\ requests \in Seq(Message)
      /\ owner \in [Requests -> {"guest", "device"}]
      /\ cmd \in [Requests -> {"none", "io", "add", "rem", "quickrem"}]
  BY DEF HardInv, HardTypes, TypeOK, PipeTypes
<1>2. \/ owner' = owner /\ cmd' = cmd
      \/ \E q : /\ owner' = [owner EXCEPT ![q] = "guest"]
                /\ cmd' = [cmd EXCEPT ![q] = "none"]
  BY DEF TrapSteps, start_thread, HasThread, SyncWait, NoThreadError,
     hardfile_open, hardfile_close, add_async_request, hardfile_beginio,
     DoQuick, QuickReply, QuickReturn, abort_async, AbortSpins, ChangeLock,
     ChangeCause, hardfile_send_disk_change, GivenBack, guest, OnlyCpu
<1>3. owner[r] = "device" /\ cmd[r] = "io"  BY <1>1, <1>2
<1>4. ~start_thread
  <2>1. opened /\ thread_running  BY <1>3 DEF OpenKept
  <2> QED  BY <2>1 DEF start_thread
<1>5. cpu'.op # "none" => cpu'.op = cpu.op /\ cpu'.request = cpu.request
  BY <1>1, <1>4, TrapVariables
<1>6. ASSUME Pending \subseteq Pending',
             cpu.op = "begin" /\ cpu.request = r => cpu'.op # "none"
                                                  \/ RequestKept(r)',
             \A k \in DOMAIN replies :
                 k \in DOMAIN replies' /\ replies'[k] = replies[k]
      PROVE  RequestKept(r)'
  <2>1. \A k \in DOMAIN replies :
            replies[k] = [fun |-> "ReplyMsg", request |-> r]
                => RequestKept(r)'
    BY <1>6 DEF RequestKept
  <2>2. cpu.op = "begin" /\ cpu.request = r => RequestKept(r)'
    BY <1>5, <1>6 DEF RequestKept
  <2> QED  BY <1>3, <1>6, <2>1, <2>2, StaysOnItsWay
<1>7. CASE \/ HasThread \/ SyncWait \/ hardfile_open \/ AbortSpins \/ DoQuick
           \/ abort_async \/ ChangeLock \/ hardfile_send_disk_change
           \/ add_async_request
  <2>1. UNCHANGED <<requests, thread, replies>>
    BY <1>7 DEF HasThread, SyncWait, hardfile_open, AbortSpins, DoQuick,
       abort_async, ChangeLock, hardfile_send_disk_change, add_async_request,
       OnlyCpu, thrVars
  <2>2. cpu.op = "begin" => cpu'.op # "none"
    <3>1. CASE hardfile_open \/ abort_async \/ hardfile_send_disk_change
                             \/ ChangeLock
      BY <1>1, <3>1 DEF hardfile_open, abort_async, hardfile_send_disk_change,
         ChangeLock, At, CpuTypes
    <3>2. CASE HasThread \/ SyncWait \/ DoQuick \/ AbortSpins
      <4>1. \E pc \in {"work", "reply", "spin"} :
                cpu' = [cpu EXCEPT !.pc = pc]
        BY <3>2 DEF HasThread, SyncWait, DoQuick, AbortSpins, Goto
      <4> QED  BY <1>1, <4>1 DEF CpuTypes
    <3>3. CASE add_async_request
      <4>1. \E i, b : cpu' = [cpu EXCEPT !.pc = "fill", !.slot = i, !.iobuf = b]
        BY <3>3 DEF add_async_request
      <4> QED  BY <1>1, <4>1 DEF CpuTypes
    <3> QED  BY <1>7, <3>1, <3>2, <3>3
  <2>3. Pending' = Pending  BY <2>1, PendingFrame
  <2> QED  BY <1>6, <2>1, <2>2, <2>3
<1>8. CASE NoThreadError \/ QuickReturn
  <2>1. UNCHANGED <<requests, thread, replies>>
    BY <1>8 DEF NoThreadError, QuickReturn, OnlyCpu, thrVars
  <2>2. ~ (cpu.op = "begin" /\ cpu.request = r)
    BY <1>1, <1>8 DEF NoThreadError, QuickReturn, GivenBack, CpuTypes
  <2>3. Pending' = Pending  BY <2>1, PendingFrame
  <2> QED  BY <1>6, <2>1, <2>2, <2>3
<1>9. CASE hardfile_close
  <2>1. /\ UNCHANGED <<thread, replies>> /\ cpu.op = "close"
        /\ requests' = Append(requests, Terminator)
    BY <1>9 DEF hardfile_close, Send, At, thrVars
  <2>2. Pending \subseteq Pending'
    <3>1. Terminator \in Message  BY DEF Message
    <3>2. Range(requests) \subseteq Range(requests')
      BY <1>1, <2>1, <3>1, AppendedStays
    <3> QED  BY <2>1, <3>2 DEF Pending, InHand
  <2> QED  BY <1>6, <2>1, <2>2
<1>10. CASE hardfile_beginio
  <2>m. PICK m : m = [request |-> cpu.request, iobuf |-> cpu.iobuf,
                      cmd |-> cmd[cpu.request]]
    OBVIOUS
  <2>1. /\ UNCHANGED <<thread, replies>> /\ cpu.pc = "fill"
        /\ requests' = Append(requests, m)
    BY <1>10, <2>m DEF hardfile_beginio, Send, thrVars
  <2>2. m \in Message  BY <1>1, <2>1, <2>m DEF CpuTypes, Message
  <2>3. Range(requests') = Range(requests) \cup {m}
    BY <1>1, <2>1, <2>2, AppendedStays
  <2>4. Pending \subseteq Pending' /\ m \in Pending'
    BY <2>1, <2>3 DEF Pending, InHand
  <2>5. cpu.request = r => RequestKept(r)'
    BY <2>m, <2>4 DEF RequestKept
  <2> QED  BY <1>6, <2>1, <2>4, <2>5
<1>11. CASE QuickReply \/ ChangeCause
  <2>1. /\ UNCHANGED <<requests, thread>> /\ cpu.op # "begin"
        /\ replies' = replies \/ \E a \in Answer : replies' = Append(replies, a)
    <3>1. CASE QuickReply
      <4>1. [fun |-> "ReplyMsg", request |-> cpu.request] \in Answer
        BY <1>1 DEF CpuTypes, Answer
      <4> QED
        BY <1>1, <3>1, <4>1 DEF QuickReply, Reply, CpuTypes, thrVars
    <3>2. CASE ChangeCause
      <4>1. /\ cpu.pc = "cause" /\ cpu.slot \in 0 .. Slots + 1
            /\ cpu.slot <= Slots /\ cpu.slot > 0
        BY <1>1, <3>2 DEF ChangeCause, At, CpuTypes
      <4>2. cpu.slot \in Slot  BY <4>1, Numbers, SMT DEF Slot
      <4>3. table[cpu.slot].request \in Requests \cup {None}
        BY <4>2 DEF HardInv, HardTypes, TypeOK
      <4>4. [fun |-> "Cause", request |-> table[cpu.slot].request] \in Answer
        BY <4>3 DEF Answer
      <4> QED  BY <3>2, <4>4 DEF ChangeCause, At, thrVars
    <3> QED  BY <1>11, <3>1, <3>2
  <2>2. \A k \in DOMAIN replies :
            k \in DOMAIN replies' /\ replies'[k] = replies[k]
    <3>1. CASE replies' = replies  BY <3>1
    <3>2. ASSUME NEW a \in Answer, replies' = Append(replies, a)
          PROVE  \A k \in DOMAIN replies :
                     k \in DOMAIN replies' /\ replies'[k] = replies[k]
      BY <1>1, <3>2, Appended
    <3> QED  BY <2>1, <3>1, <3>2
  <2>3. Pending' = Pending  BY <2>1, PendingFrame
  <2> QED  BY <1>6, <2>1, <2>2, <2>3
<1> QED  BY <1>4, <1>7, <1>8, <1>9, <1>10, <1>11 DEF TrapSteps

\* A step of the thread.
LEMMA ThreadRequests ==
    ASSUME HardInv, HardInv', RequestsKept, ThreadSteps \/ Dies
    PROVE  RequestsKept'
<1> SUFFICES ASSUME NEW r \in Requests, owner'[r] = "device", cmd'[r] = "io"
             PROVE  RequestKept(r)'
  BY DEF RequestsKept
<1>1. /\ ThreadTypes /\ requests \in Seq(Message) /\ replies \in Seq(Answer)
      /\ MessagesKept
  BY DEF HardInv, HardTypes, PipeTypes
<1>2. UNCHANGED <<cpu, owner, cmd>>
  BY DEF ThreadSteps, Dies, ThreadStarts, ReadRequest, Terminate, Lock,
     AddChangeInt, DoIo, StaysAsync, ReleaseEntry, FreeIobuf, ClearType,
     ThreadReply, OnlyThread, guest
<1>3. ASSUME \A m \in Pending :
                 m.request = r => m \in Pending' \/ RequestKept(r)',
             replies' = replies
      PROVE  RequestKept(r)'
  <2>1. \A k \in DOMAIN replies :
            replies[k] = [fun |-> "ReplyMsg", request |-> r]
                => RequestKept(r)'
    BY <1>3 DEF RequestKept
  <2>2. cpu.op = "begin" /\ cpu.request = r => RequestKept(r)'
    BY <1>2 DEF RequestKept
  <2> QED  BY <1>2, <1>3, <2>1, <2>2, StaysOnItsWay
<1>4. CASE ReadRequest
  <2>1. /\ thread.pc = "read" /\ thread'.pc = "lock" /\ requests # << >>
        /\ thread'.msg = Head(requests) /\ requests' = Tail(requests)
        /\ replies' = replies
    BY <1>1, <1>4 DEF ReadRequest, ThreadTypes
  <2>2. Range(requests) = Range(requests') \cup {thread'.msg}
    BY <1>1, <2>1, Removed
  <2>3. Pending' = Pending  BY <2>1, <2>2 DEF Pending, InHand
  <2> QED  BY <1>3, <2>1, <2>3
<1>5. CASE Terminate
  <2>1. /\ UNCHANGED <<requests, replies>> /\ thread.msg = Terminator
    BY <1>5 DEF Terminate
  <2>2. \A m \in Pending : m \in Pending' \/ m = Terminator
    BY <2>1 DEF Pending, InHand
  <2>3. Terminator.request # r  BY Numbers DEF Terminator
  <2> QED  BY <1>3, <2>1, <2>2, <2>3
<1>6. CASE StaysAsync
  <2>1. /\ UNCHANGED <<requests, replies>> /\ thread.pc = "async"
    BY <1>6 DEF StaysAsync, OnlyThread
  <2>2. \A m \in Pending : m \in Pending' \/ m = thread.msg
    BY <2>1 DEF Pending, InHand
  <2>3. thread.msg \in Asked
    BY <1>1, <2>1 DEF Asked, Pending, InHand, ThreadTypes, Working
  <2>4. cmd[thread.msg.request] = "add"
    BY <1>1, <2>1, <2>3 DEF MessagesKept
  <2>5. thread.msg.request # r  BY <1>2, <2>4
  <2> QED  BY <1>3, <2>1, <2>2, <2>5
<1>7. CASE ThreadReply
  <2>a. PICK a : a = [fun |-> "ReplyMsg", request |-> thread.msg.request]
    OBVIOUS
  <2>1. /\ requests' = requests /\ thread.pc = "reply"
        /\ replies' = Append(replies, a)
    BY <1>7, <2>a DEF ThreadReply, Reply, OnlyThread
  <2>2. \A m \in Pending : m \in Pending' \/ m = thread.msg
    BY <2>1 DEF Pending, InHand
  <2>3. thread.msg \in Message /\ thread.msg # Terminator
    BY <1>1, <2>1 DEF ThreadTypes, Working
  <2>4. a \in Answer  BY <2>a, <2>3, MessageIs DEF Answer
  <2>5. /\ Len(replies) + 1 \in DOMAIN replies'
        /\ replies'[Len(replies) + 1] = a
        /\ \A k \in DOMAIN replies :
              k \in DOMAIN replies' /\ replies'[k] = replies[k]
    BY <1>1, <2>1, <2>4, Appended
  <2>6. \A m \in Pending : m.request = r => m \in Pending' \/ RequestKept(r)'
    BY <2>a, <2>2, <2>5 DEF RequestKept
  <2>7. \A k \in DOMAIN replies :
            replies[k] = [fun |-> "ReplyMsg", request |-> r]
                => RequestKept(r)'
    BY <2>5 DEF RequestKept
  <2>8. cpu.op = "begin" /\ cpu.request = r => RequestKept(r)'
    BY <1>2 DEF RequestKept
  <2> QED  BY <1>2, <2>6, <2>7, <2>8, StaysOnItsWay
<1>8. CASE \/ Lock \/ AddChangeInt \/ DoIo \/ ReleaseEntry \/ FreeIobuf
           \/ ClearType
  <2>1. /\ UNCHANGED <<requests, replies>> /\ thread.pc \notin Outside
        /\ \/ \E pc \in Working : thread' = [thread EXCEPT !.pc = pc]
           \/ \E i : thread' = [thread EXCEPT !.pc = "free", !.slot = i]
    BY <1>8 DEF Lock, AddChangeInt, DoIo, ReleaseEntry, FreeIobuf, ClearType,
                ThreadGoto, OnlyThread, Outside, Working
  <2>2. thread'.pc \notin Outside /\ thread'.msg = thread.msg
    BY <1>1, <2>1 DEF ThreadTypes, Working, Outside
  <2>3. Pending' = Pending
    BY <2>1, <2>2 DEF Pending, InHand, Outside
  <2> QED  BY <1>3, <2>1, <2>3
<1>9. CASE ThreadStarts
  <2>1. /\ UNCHANGED <<requests, replies>> /\ thread.pc = "start"
        /\ thread'.pc = "read"
    BY <1>9 DEF ThreadStarts, Idle, NoThread
  <2>2. Pending' = Pending  BY <2>1 DEF Pending, InHand
  <2> QED  BY <1>3, <2>1, <2>2
<1>10. CASE Dies
  <2>1. UNCHANGED <<requests, thread, replies>>  BY <1>10 DEF Dies
  <2>2. Pending' = Pending  BY <2>1, PendingFrame
  <2> QED  BY <1>3, <2>1, <2>2
<1> QED  BY <1>4, <1>5, <1>6, <1>7, <1>8, <1>9, <1>10 DEF ThreadSteps

LEMMA NextRequestsKept ==
    ASSUME HardInv, HardInv', OpenKept, RequestsKept, [Next]_vars
    PROVE  RequestsKept'
<1>1. CASE UNCHANGED vars
  <2>1. UNCHANGED <<requests, thread, cpu, owner, cmd, replies>>
    BY <1>1 DEF vars, thrVars, guest
  <2>2. Pending' = Pending  BY <2>1, PendingFrame
  <2> QED  BY <2>1, <2>2 DEF RequestsKept, RequestKept
<1> QED  BY <1>1, ProgramRequests, TrapRequests, ThreadRequests DEF Next

\* The thread of an open device has nothing that ends it before it.
LEMMA OpenRuns ==
    ASSUME HardInv, OpenKept, ~ReopenedEarly, opened
    PROVE  /\ thread_running /\ Terminator \notin Pending
           /\ thread.pc \notin {"none", "start"}
  BY DEF OpenKept, ReopenedEarly, HardInv, HardTypes, ThreadTypes

\* Nothing keeps a thread that has work from the next step of it, unless the
\* pipe to the Amiga is full and a disk change waits for room in it.
LEMMA GoesOn ==
    ASSUME HardInv, WaitKept, ~RepliesFull, cpu.pc \notin {"guest", "cause"},
           thread.pc \notin {"none", "start"},
           thread.pc = "read" => requests # << >>
    PROVE  ThreadGoesOn
<1>1. /\ ThreadTypes /\ MutexKept /\ change_sem \in {0, 1}
      /\ replies \in Seq(Answer)
  BY DEF HardInv, HardTypes, TypeOK, PipeTypes
<1>2. thread.pc \in Working => ThreadWorks
  <2>1. Len(replies) \in Nat /\ MaxReplies \in Nat
    BY <1>1, LenProperties, HardfileAssumption
  <2>2. thread.pc = "reply" => Len(replies) # MaxReplies
    BY DEF RepliesFull
  <2>3. thread.pc = "reply" => Len(replies) < MaxReplies
    BY <2>1, <2>2, SMT DEF WaitKept
  <2> QED  BY <2>3 DEF ThreadWorks
<1>3. thread.pc = "lock" => change_sem = 1 \/ dying # "no"
  BY <1>1 DEF MutexKept, Working
<1>4. thread.pc \in Working \/ thread.pc = "lock" \/ thread.pc = "read"
  BY <1>1 DEF ThreadTypes, Outside
<1> QED  BY <1>2, <1>3, <1>4 DEF ThreadGoesOn

\* A request that is TEMP in the table is being sent to the thread or with it.
LEMMA ProcessingIsPending ==
    ASSUME HardInv, cpu.pc = "spin", Processing(cpu.request)
    PROVE  /\ requests # << >> \/ thread.pc \notin Outside
           /\ owner[cpu.request] = "device"
<1>1. /\ CpuTypes /\ CpuKept /\ EntriesKept
  BY DEF HardInv, HardTypes
<1>2. cpu.op = "abort" /\ cpu.request \in Requests
  BY <1>1 DEF CpuTypes
<1>3. PICK i \in Slot : /\ table[i].request = cpu.request
                        /\ table[i].type = "TEMP"
  BY DEF Processing, SlotsOf
<1>4. TempEntry(i)
  <2>1. TempEntry(i) \/ ChangeEntry(i) \/ FillEntry(i)
    BY <1>2, <1>3, EntryIs
  <2>2. ~ChangeEntry(i)  BY <1>3 DEF ChangeEntry
  <2>3. ~FillEntry(i)  BY DEF FillEntry
  <2> QED  BY <2>1, <2>2, <2>3
<1>5. PICK m \in Unreleased : m.request = cpu.request
  BY <1>3, <1>4 DEF TempEntry
<1>6. m \in Pending /\ m # Terminator  BY <1>5 DEF Unreleased
<1>7. m \in Range(requests) \/ thread.pc \notin Outside
  BY <1>6 DEF Pending, InHand, Outside
<1>8. requests = << >> => Range(requests) = {}
  BY EmptySeq DEF Range
<1> QED  BY <1>1, <1>2, <1>7, <1>8 DEF CpuKept

\* As long as the table does what it is for and no open comes too early, no
\* request is forgotten: it waits for a thread that runs, or its reply is on the
\* way.
THEOREM NoRequestForgotten == Spec => HeardInOrder
<1>1. ASSUME HardInv, OpenKept, RequestsKept, ~ReopenedEarly
      PROVE  RequestsHeard
  BY <1>1, OpenRuns DEF RequestsHeard, RequestsKept, RequestKept, OnItsWay,
                        OpenKept
<1>2. HardInv /\ OpenKept /\ RequestsKept /\ TableKept /\ ~ReopenedEarly
          /\ TableKept' /\ [Next]_vars
          => HardInv' /\ OpenKept' /\ RequestsKept'
  <2> SUFFICES ASSUME HardInv, OpenKept, RequestsKept, TableKept, ~ReopenedEarly,
                      TableKept', [Next]_vars
               PROVE  HardInv' /\ OpenKept' /\ RequestsKept'
    OBVIOUS
  <2>1. HardInv'  BY NextHardInv
  <2>2. OpenKept'  BY NextOpenKept
  <2>3. RequestsKept'  BY <2>1, NextRequestsKept
  <2> QED  BY <2>1, <2>2, <2>3
<1> QED  BY <1>1, <1>2, InitHardInv, InitGoes, PTL DEF Spec, HeardInOrder

\* If, besides, the pipe to the Amiga does not fill up, no trap waits for what
\* nobody will do.
THEOREM NoTrapStuck == Spec => TrapsGoOnInOrder
<1>1. ASSUME HardInv, OpenKept, WaitKept, ~ReopenedEarly, ~RepliesFull
      PROVE  TrapsGoOn
  <2>1. /\ CpuTypes /\ CpuKept /\ MutexKept /\ change_sem \in {0, 1}
        /\ requests \in Seq(Message) /\ replies \in Seq(Answer)
    BY <1>1 DEF HardInv, HardTypes, TypeOK, PipeTypes
  <2>2. /\ Len(requests) \in Nat /\ Len(replies) \in Nat
        /\ MaxRequests \in Nat \ {0} /\ MaxReplies \in Nat
    BY <2>1, LenProperties, HardfileAssumption
  <2>3. ASSUME cpu.pc = "lock"
        PROVE  change_sem = 1 \/ dying # "no" \/ ThreadWorks
    <3>1. change_sem = 1 \/ dying # "no" \/ thread.pc \in Working
      BY <2>1, <2>3 DEF MutexKept
    <3>2. ASSUME thread.pc \in Working PROVE ThreadWorks
      <4>1. thread.pc \notin {"none", "start", "read", "lock"}
        BY <3>2 DEF Working
      <4>2. ThreadGoesOn  BY <1>1, <2>3, <4>1, GoesOn
      <4> QED  BY <4>1, <4>2 DEF ThreadGoesOn
    <3> QED  BY <3>1, <3>2
  <2>4. ASSUME cpu.pc = "spin", Processing(cpu.request) PROVE ThreadGoesOn
    <3>1. opened
      BY <1>1, <2>1, <2>4, ProcessingIsPending DEF CpuTypes, OpenKept
    <3>2. thread.pc \notin {"none", "start"}  BY <1>1, <3>1, OpenRuns
    <3>3. thread.pc = "read" => requests # << >>
      BY <1>1, <2>4, ProcessingIsPending DEF Outside
    <3> QED  BY <1>1, <2>4, <3>2, <3>3, GoesOn
  <2>5. ASSUME cpu.pc \in {"fill", "send"}, ~ (Len(requests) < MaxRequests)
        PROVE  ThreadGoesOn
    <3>1. opened
      BY <1>1, <2>1, <2>5 DEF CpuTypes, CpuKept, OpenKept
    <3>2. thread.pc \notin {"none", "start"}  BY <1>1, <3>1, OpenRuns
    <3>3. requests # << >>
      <4>1. Len(requests) # 0  BY <2>2, <2>5, SMT
      <4> QED  BY <4>1, EmptySeq
    <3> QED  BY <1>1, <2>5, <3>2, <3>3, GoesOn
  <2>6. cpu.pc = "reply" => Len(replies) < MaxReplies
    <3>1. cpu.pc = "reply" => Len(replies) # MaxReplies
      BY <1>1 DEF RepliesFull
    <3> QED  BY <1>1, <2>2, <3>1, SMT DEF WaitKept
  <2> QED  BY <1>1, <2>3, <2>4, <2>5, <2>6 DEF TrapsGoOn, WaitKept
<1>2. HardInv /\ OpenKept /\ WaitKept /\ TableKept /\ ~ReopenedEarly
          /\ TableKept' /\ [Next]_vars
          => HardInv' /\ OpenKept' /\ WaitKept'
  <2> SUFFICES ASSUME HardInv, OpenKept, WaitKept, TableKept, ~ReopenedEarly,
                      TableKept', [Next]_vars
               PROVE  HardInv' /\ OpenKept' /\ WaitKept'
    OBVIOUS
  <2>1. HardInv'  BY NextHardInv
  <2>2. OpenKept'  BY NextOpenKept
  <2>3. HardTypes /\ HardTypes'  BY <2>1 DEF HardInv
  <2>4. WaitKept'  BY <2>3, NextWaitKept
  <2> QED  BY <2>1, <2>2, <2>4
<1>3. InOrder => TableKept /\ ~ReopenedEarly /\ ~RepliesFull
  BY DEF InOrder
<1> QED  BY <1>1, <1>2, <1>3, InitHardInv, InitGoes, PTL
         DEF Spec, TrapsGoOnInOrder
=============================================================================
