# LeanUAE: models and proofs

LeanUAE is a port of the UAE Amiga emulator to Mac OS X Leopard on PowerPC. The
emulator core in `src/src/core` is C++ with very little locking and a lot of
order: host threads hand work to one another, the emulated machine re-enters the
scheduler that is running it, 68k code and host code take turns on one register
file. These modules describe the parts of it where that order decides whether
the program is right. TLC checks them on small instances; TLAPS proves most of their safety
properties, and three refinements, for every value of the constants.

Contents: 1 the system, 2 the modules, 3 each module and the code, 4 the runs,
5 bounds, 6 fairness, 7 proofs, 8 findings, 9 what is not modelled, 10 the plan.
`PROJECT.json` maps every definition to source lines and lists the hazards.

## 1. The system

The emulation thread runs `m68k_go`: 68k instructions advance the clock through
`do_cycles`, the clock runs event handlers, the handlers are the custom chips and
CIAs, which raise interrupts, read input and queue lines to be drawn. Around it
are the draw thread, one thread per extended trap in progress, worker threads of
devices, and the audio thread of the host.

| Part | State it keeps | Operations | Talks to | What is hard, and what makes it right |
|---|---|---|---|---|
| Event scheduler (`events.cpp`, `events.h`) | `eventtab`, `eventtab2`, `event2idx`, `event2cnt`, `event2restart`, `nextevent` | `do_cycles_normal`, `MISC_handler`, `event2_newevent*` | calls handlers, which call it back | handlers schedule events while the table is being scanned; a full table runs another event early. No event is late, the clock never goes back, interrupt events are served |
| Throttled clock loop (`events.cpp`) | frame and line budget of host time | `do_cycles_slow`, `event_check_vsync` | event table, host clock | host time against emulated time; same promises as above |
| Denise line queue (`drawing.cpp`, `custom.cpp`) | ring `rga_queue`, two counters, two semaphores, beam ring `rga_denise`, frame-buffer lock | the `*_queue` functions, flush, start/end of drawing, `custom_reset` | emulation thread to draw thread | only counters guard the ring, only the number of lines in flight guards the beam ring. Entries are stable while read, lines are drawn in order, under the lock, and neither thread sleeps for ever |
| Denise pixels | bitplane and sprite shifters | line rendering | called by the queue | arithmetic |
| Extended traps (`traps.cpp`) | a `TrapContext` and thread per trap, `trap_mutex`, `current_context` | `trap_HandleExtendedTrap`, `trap_Call68k`, the call, return and exit traps | 68k code, which may switch tasks | a mutex is handed from thread to thread through 68k code. One owner of the registers, results go to their own trap, control always comes back |
| Hardware traps (`traps.cpp`, `autoconf.cpp`) | trap slots in `rtarea` memory, worker threads | post, serve, complete | 68k polls memory the workers write | order of stores visible to the 68k |
| Pipes (`commpipe.h`) | ring, two indexes, a lock, two flags, two semaphores | `write_comm_pipe_*`, `read_comm_pipe_*_blocking` | every pair of threads that has work for one another | a shortcut stores without the lock. Nothing is lost or reordered, and no wake-up either |
| Signals to the Amiga (`native2amiga.cpp`, `exter_int_helper`) | `native2amiga_pending`, `n2asem`, `uae_int_requested`, the unit counters | `uae_Signal`, `uae_PutMsg`, `uae_ReplyMsg`, `uae_Cause`; the EXTER interrupt, `exter_task`, the helper trap | host threads to 68k | calls of several words from several threads through one pipe; one dummy message stands for many packets. Each call is made once and whole, each packet is replied to |
| Native library calls (`uaenative.cpp`) | queue per library | synchronous and asynchronous calls | 68k to host threads | not compiled: nothing defines `WITH_UAENATIVE` |
| Hard file requests (`hardfile.cpp`) | table of requests and their copies, the pipe of the unit's thread, `change_sem`, `sync_sem` | open, close, BeginIO, AbortIO, change interrupts, disk changes | 68k traps to the unit's thread, replies by `native2amiga` | the thread and the traps share a table that only one of them locks. No copy is freed in use, every request is replied to once |
| Keyboard (`cia.cpp`, `inputdevice.cpp`, `keybuf.cpp`) | key buffer, serial byte, lost-sync count, reset sequence, reset warning | key events, sync handlers, handshake, resets | user, CIA, `m68k_go` | the reset warning is recorded in two files with their own time-outs. Keys in the buffer are sent in order unless a reset warning drops them, and every reset comes |
| CIA timers and time of day | two chips | counters, alarms, interrupts | event table | pipelined register writes |
| Custom chips: beam, copper, DMA, interrupts | beam position, DMA cycles, INTENA/INTREQ pipeline | per-cycle emulation | event table, CPU | delayed interrupts |
| Blitter, disk, Paula | channel state machines | register writes, DMA | custom chips, event table | long sequences of legal register writes |
| Other storage (`ide`, `gayle`, `scsi*`, `blkdev`) | registers, request queues | commands, asynchronous I/O | worker threads | request against abort |
| Host file system (`filesys.cpp`) | locks, keys, notifications, a queue of packets and a thread per unit | AmigaDOS packets | traps, `native2amiga` | packets finish in any order on a host thread (modelled with the signals); object lifetime |
| Save states, rewind | ring of states | save, restore | every component | restore in the middle of an operation |
| CPU cores, FPU, MMU, memory map, graphics boards | registers, banks | generated code, tables | all | semantics of instructions |
| Sound output (`od-leopard/leuae-audio.c`) | byte ring with two indexes, queue buffers | init, submit, callback, stop, resume, close | emulation thread to CoreAudio thread | no lock and no barrier. Samples are played in order, each once |
| Input queue, window, frame (`od-leopard`) | event queue, grab flag, open frame | pump, poll, grab, begin/end frame | Carbon | losses when full, pairing of calls |
| Application skeleton, FS-UAE bridge | none | forwarding | host | none |

## 2. The modules

```
EventTable                      MCEventTable      EventTable_proofs
DeniseQueue   -> BoundedFifo    MCDeniseQueue     DeniseQueue_proofs
ExtendedTraps                   MCExtendedTraps   ExtendedTraps_proofs
Keyboard                        MCKeyboard        Keyboard_proofs
AudioRing     -> SampleStream   MCAudioRing       AudioRing_proofs
CommPipe      -> BoundedFifo                      CommPipe_proofs
  Native2Amiga (extends CommPipe)
    ExterInterrupt (extends Native2Amiga, -> BoundedFifo of calls)
                                MCExterInterrupt  ExterInterrupt_proofs
HardfileIo    (uses BoundedFifo's queues for its pipes)
                                MCHardfileIo      HardfileIo_proofs
```

An arrow leads to the abstract specification that the module implements.
`BoundedFifo` serves three times: for the lines to be drawn, for the words of a
pipe, and for the calls that host threads make to Exec. `CommPipe`,
`Native2Amiga` and `ExterInterrupt` are one system in layers: each adds the
variables and steps of the next level to those below, and the run checks the
promises of all three on the whole.

Every module is parameterised by constants with a named assumption; an MC module
extends it for TLC. Operators whose names begin with `Mut` are wrong versions of
the definition they stand before. They are used by nothing; putting one in place
of its neighbour shows which property notices.

## 3. The modules and the code

**EventTable.** The clock loop over the four entries of `eventtab`, and the
one-shot events of `eventtab2` behind the entry `ev_misc`. The C call stack is a
variable: a frame for a call of `do_cycles_normal`, of `MISC_handler` with its
scan position and minimum, of a handler, and of an `event2_newevent_xx` that is
waiting for room. Times are relative to `currcycle`, because the code only ever
looks at differences. `EnterMisc`, `MiscFire`, `ReturnToMisc` and `MiscDone` are
the pieces of `MISC_handler` between calls; `Search`, `Place` and `Overflow` those
of `event2_newevent_xx`; `event2_newevent_x_replace`,
`event2_newevent_x_replace_exists` and `event2_newevent_x_add_not_exists` are its
variants. A handler is abstract: it schedules, arms or removes some events, or
resets the table, then it returns. The handler of a periodic entry arms its entry
as the last thing it does (`PeriodicReturns`, after `sync_imm_evhandler` and
`CIA_handler`), so a scan that it causes by scheduling an event runs one-shot
events while the entry is still due. `SyncFirst` is therefore about when the sync
handler begins, not about when it has ended.

**DeniseQueue.** The two threads with a program counter each. The emulation thread
queues an entry in four steps (`WaitQueue`, `FillEntry`, `Publish`, `PostWrite`),
since the draw thread can run between them; the draw thread looks, sleeps, draws,
advances and posts. `StartFlush`/`Flush` are `end_draw_denise` and
`draw_denise_line_queue_flush`, `StartReset`/`Flushed` the part of `custom_reset`
that empties the queue before it zeroes `rga_denise`. Entries carry their type,
the beam positions they name and whether they end a line. That a line is at most
`LineLen` slots long (`BeamMoves`) is not a guard of the code: `fakehsync_handler`
ends a line without an entry. The code's ring has 512 slots for each entry of the
queue, about twice what a line takes, and that slack is what covers it. A time-out of
`uae_sem_trywait_delay` only makes the loop look again, so it is a stutter.

**ExtendedTraps.** The emulator thread, one thread per trap context, and the 68k
as far as it matters: program counter (ordinary code or one of the three internal
traps), `d0`, interrupt mask, and the stack of each task with the contexts that
were pushed on it. Between instructions the Amiga may switch tasks when interrupts
are enabled, enter another trap, or be reset. The mutex, both semaphores of a
context and `current_context` are as in the code. Called functions return and
keep their stack balanced; starting a thread succeeds.

**Keyboard.** Key events go through `inputdevice_do_keyboard` with its reset
sequence (`keyboard_reset_seq_mode`), `record_key` and the buffer;
`CIA_hsync_posthandler` (`Hsync`) polls the buffer and loads the serial register,
`Vsync` counts down a missing handshake, `WriteCra` is the Amiga's side of it, and
`resetwarning_check` runs the two phases of the reset warning. `m68k_go` carries
out a reset that was asked for. Resets also come from elsewhere: the 68k's RESET
instruction, the host, and a change of the keyboard in the configuration. With
`Overlap` FALSE they only come when no keyboard reset is under way, and no key is
pressed between a request for a reset and `m68k_go`, which carries it out soon
after; the code has no such guards, and with `Overlap` TRUE neither has
the model. `KeysSent` says that a key in the buffer leaves it for the serial
register, oldest first, and does leave it as long as the program answers. It
promises nothing for keys that the code drops on purpose: in a reset warning, and
when the buffer is full.

**AudioRing.** One step per access of a thread to shared memory: the copy and the
index of `ring_write`, the copy and the index of `ring_read`, and the enqueue. Each
call in progress holds the set of accesses still to be made. With `InOrder` the
copy comes first, as it is written; without, nothing orders them, which is what
`volatile` on the indexes alone gives. `SampleStream` says what is promised: the
accepted bytes come out in order, each once, padded with silence only when
nothing is left.

**CommPipe.** `write_comm_pipe_pt` and `read_comm_pipe_pt_blocking` step by step:
the writer's choice between the shortcut without the lock (`reader_waiting` and the
pipe empty) and the way under the lock, its sleep on a full pipe, the store, the
index, and `maybe_wake_reader` with its `no_buffer` rule; the reader's look, sleep
and take. A step is what no other thread can see the middle of. The specification
of the module alone has a single writer at a time: that is what its callers must
see to, and `ExterInterrupt` shows that they do.

**Native2Amiga.** A call of `uae_Signal`, `uae_PutMsg`, `uae_ReplyMsg` or `uae_Cause`
by a host thread: it takes `n2asem`, writes two to four words, asks for the
interrupt and gives the semaphore back. Only the number of words tells the
functions apart here.

**ExterInterrupt.** The request bit becomes an interrupt, which signals
`exter_task`, which calls `exter_int_helper`: it reads a call, returns so that the
task makes it, comes back for more, and when there is none looks at the units.
A unit with finished packets and its dummy message at home (`HasDone`) has the
message put to its process. The process (`FSML_loop` in `filesys.asm`) hands
packets to the thread of the unit (`StartPacket`) until `MaxStarted` are out, and
on the dummy message takes `cmds_acked` over into `cmds_complete` (`MessageLock`)
and replies to what is marked in its queue. The thread (`filesys_iteration`) counts
a packet (`cmds_sent`), marks it and asks for the interrupt, in that order. While
the 68k is in the helper no task runs (`InTrap`). The part with the thread is the
build with `UAE_FILESYS_THREADS`; `sysconfig-leopard.h` only defines
`SUPPORT_THREADS`, and without the former the packets are handled in the trap.

**HardfileIo.** One unit of `uaehf.device`, a program with some requests, and the
unit's thread. A trap keeps the 68k from running until it returns, so `cpu` is
its program counter. `start_thread`, the look for an entry and the rest of
`add_async_request`, the three stores of `release_async_request`, the end of the
thread and its post of `sync_sem` are separate steps, since the other side can run
between them. The two pipes are queues, which is what `CommPipe` promises. The
program keeps to the rules of Exec: it does not touch a request until it has it
back, aborts I/O only, and removes an interrupt with the request that added it.
`CMD_REMCHANGEINT` is always carried out in the trap: without IOF_QUICK its reply goes
through `native2amiga` (`QuickReply`), with it the program has the request back when
the trap returns (`QuickReturn`), whatever is still queued. Two things are narrower
than the code: `start_thread` waits for a thread that has been started to begin,
where the code would start a second one after an early post of `sync_sem`
(`ReopenedEarly`); and the entry of a request that already has one gets the new
`iobuf`, where `add_async_request` keeps the old one: as long as the table is kept,
a request that is sent has no entry.

## 4. The runs

| Run | Configuration | Checks | Shows |
|---|---|---|---|
| `events` | 2 free slots and the blitter's, 3 handlers, handlers of both kinds schedule | `SyncFirst`, `TableInv`, `ScanComplete`, `OnTimeUnlessRestarted`, `EventsServedUnlessNested` | with nested scans, restarts and overflow, also inside a periodic handler whose entry is still due: no one-shot event is run before the handler of a sync due at the same cycle has begun, the count of nested calls is right, no scan leaves an event of the current cycle; until a restart no event is missed or late; while one-shot handlers schedule nothing, no interrupt event is starved |
| `events_overdue` | smaller, without merging | `NothingOverdue` (violated) | finding 1 |
| `denise` | ring of 3, lines of 2, entries of types 0 and 4, moving beam, resets, flushes, quit, fair threads | `EntryStable`, `DrawsUnderLock`, `RgaStable`, `IInv`, `CpuReturns`, `FifoFairSpec` | the queue is a FIFO that is always drained, nothing is drawn unlocked, the beam stays away from the lines in flight, neither thread waits for ever |
| `traps` | 2 tasks, 3 traps, or 2 and 1 reset | `OneRunner`, `RunsWhereEntered`, `OwnResult`, `CurrentContext`, `TrapInv`, `EmuReturnsUnlessReset` | nested and interleaved traps keep their registers, stacks and results apart, also over a reset; without one the emulator thread always gets control back |
| `traps_reset` | 2 tasks, 2 traps, 1 reset | `EmuReturns` (violated) | finding 2 |
| `keyboard` | two reset keys and Alt, warnings on, an accelerator board that polls early, one reset from elsewhere | `KeyboardInv`, `HeldInReset`, `ComboResets`, `KeysSent` | the two records of a warning agree, the CPU stays in reset while the keys are held, every keyboard reset comes, keys leave the buffer in order, for the serial register or in a reset warning, and they do leave it as long as the program answers |
| `keyboard_overlap` | a reset from elsewhere at any time | `ComboResets` (violated) | finding 3 |
| `audio` | ring of 6 frames, blocks of 2, up to 4 at once, `InOrder` | `CopiesApart`, `RingInv`, `StreamSpec`, `Played` | without a lock the ring is still a stream of samples |
| `audio_order` | `InOrder` FALSE | `Seamless` (violated) | finding 4 |
| `exter` | 2 host threads with a call of 2 words each, a pipe of 3 in chunks of 2, 1 unit, 3 packets, 2 started at a time | `TypeOK`, `WholeCalls`, `NoLostWakeUp`, `DummyOnce`, `RepliedForGood`, `FifoSpec`, `CallsFairSpec`, `RepliedUnlessAckedUnmarked` | through a pipe that fills up, words arrive in order, calls whole and once; the dummy message is never put twice; packets are replied to once, and in the end, as long as none is announced before it is marked |
| `filesys_late` | 1 host thread, 1 call, 1 packet | `PacketsReplied` (violated) | finding 5 |
| `hardfile` | 2 requests, 2 entries, 2 buffers, pipes of 2 | `TypeOK`, `BuffersKept`, `TempKept`, `RepliedOnce`, `BuffersFreed`, `RepliedInOrder`, `CpuReturnsInOrder` | opens, closes, aborts, interrupts and disk changes in any order do no harm outside the six situations of section 8 |

`TableInv`, `IInv`, `TrapInv`, `KeyboardInv` and `RingInv` are the inductive
invariants of section 7; each has the module's `TypeOK` as its first part.

The comment before each property says what it means. Some were worth the
effort more than the others. `RgaStable`: nothing in the code states why the beam
does not overrun the lines being drawn; the reason is a count of lines, and the
run without the full ring of slots shows it. `EmuReturns`: the source calls the
interrupt mask of the critical section "probably just being paranoid", but
without it a task switch can leave the mutex with a task that never runs.
`ScanComplete`: although the scan restarts in the wrong place, it never leaves
behind an event that is due at the current cycle. `NoLostWakeUp`: the shortcut of
the pipe stores and moves the index without the lock, and is right only because a
reader that has said it waits looks at nothing before it is woken.
`RepliedUnlessAckedUnmarked`: three counters written by two threads and a 68k task
have one message announce any number of packets, and just one order of two
statements in the thread is wrong.

Properties of the form `[]Cond => ...` say what holds until the first state in
which a known weakness of the code bites: a restart (`events`), a reset
(`traps`), an announcement that comes too early (`exter`), one of six situations
(`hardfile`). Each weakness is shown by a run of its own or described in section 8,
and the states that come after it are part of the run for all other properties.
`hardfile` is the exception: its constraint `TableKept` leaves out what follows the
three situations in which all its properties are void; the other three are in it.

`VIEW InUse` of three configurations takes states for one that differ in what is
never read again: ring entries not in flight, what a finished trap has saved,
words and local variables of calls that are over. In `exter` it also forgets which
of the host threads makes a call; they are alike, one at a time is in the
pipe, and no property or fairness condition names one. Writing such stale values
does not make a step, so no fairness condition sees the difference.

Deadlock is checked in all runs but `traps` and `traps_reset`, where a reset can
block the emulator for good (finding 2), `exter` and `filesys_late`, which are over
when the bounded number of calls and packets is, and `hardfile`, where pipe and
trap can wait for each other (section 8).

## 5. Bounds

Each bound is a constant of its module with a comment.

- *Events.* 2 slots behind `ev_misc` overflow as 15 do, and three handlers
  with distinct treatment cover merging, replacing and the fixed slot. `MaxDepth`
  3 allows a handler that schedules in a scan that a handler started. Lateness and
  restarts saturate (`MaxLate`, `MaxRestart`): how late beyond 1 cycle is not asked.
- *Denise.* The code has 8 entries, which the proofs cover. 3 with 6 lines go
  round the ring twice. `SemMax` saturates the semaphores; the code's
  counts grow, and a larger count only makes a wait loop turn once more.
- *Traps.* Three traps are two nested in one task and one of another task, or
  three in a row. One reset suffices for finding 2.
- *Keyboard.* The time-outs are 2 to 4 lines instead of thousands, in the same
  order. Three presses are enough for Ctrl-Amiga, release, and again.
- *Audio.* No bound on the run: sample numbers come round after two rings, so
  no two samples in flight share one. The ring holds six frames of two bytes.
- *Pipe, interrupt, packets.* A pipe of 3 places holds two words: the second call
  fills it with its first word behind the first call. Two words are the shortest
  call (`uae_ReplyMsg`); with the proofs below the length does not matter. Three
  packets with two started at a time give a packet that is put off, and one that
  finishes while the dummy message is out. 1 unit: units share nothing but
  `unit_no`, which the proof of `DummyOnce` covers for any number.
- *Hard file.* 2 requests with 2 entries are one I/O request and one change
  interrupt, or two of a kind, with no entry left. 2 buffers: as long as the table is
  kept and the device not opened again too early, a buffer that is not freed has an
  entry or is with the trap that is about to enter it (`BuffersFreed`), so BeginIO finds
  one whenever it finds an entry. A disk change scans the table any number of times.

## 6. Fairness

- *Events:* weak fairness of the steps of calls in progress (they are on the
  stack of the running thread) and strong fairness of giving the clock cycles.
- *Denise:* weak fairness of both threads' internal steps. Which calls the
  emulation makes is not fair.
- *Traps:* weak fairness of the emulator thread's internal steps and of each trap
  thread, which includes that handlers return. Not of 68k code.
- *Keyboard:* weak fairness of the sync handlers and of carrying out a reset, and
  that the user does not hold a key for ever. A program that answers is not
  assumed, it is the premise of `KeysSent`, and `ComboResets` holds without one.
- *Audio:* weak fairness of calls in progress and of CoreAudio playing a buffer it
  has while it runs.
- *Pipe, interrupt, packets:* weak fairness of the interrupt (the CPU looks at the
  request between instructions), of the task and of each process (Exec runs what
  is ready), of the host thread that is in a call, and of each unit's thread.
- *Hard file:* weak fairness of traps in progress and of the thread, also of one
  that is ending. Strong fairness of `Deliver`, since the Amiga takes its interrupts
  between the traps that a program makes in a row, and of `Lock`, since a
  semaphore that is free again and again is had in the end. A program need not
  do anything.

## 7. Proofs

TLAPS proves the following from the assumptions on the constants alone, for every
value of them, except where a premise is named.

| Module | Theorem | Says |
|---|---|---|
| `EventTable_proofs` | `TypeCorrect`, `Inductive`, `CountRight`, `SyncServedFirst`, `ScansComplete` | `[]TypeOK`, `[]TableInv`, `[]NestingCounted`, `[]SyncFirst`, `ScanComplete`, whatever handlers do and in whatever order |
| | `OnTime` | `OnTimeUnlessRestarted` |
| `DeniseQueue_proofs` | `TypeCorrect`, `Inductive`, `EntriesStable`, `DrawnUnderLock`, `RgaNotOvertaken` | `[]TypeOK`, `[]IInv`, `[]EntryStable`, `[]DrawsUnderLock`, `[]RgaStable` |
| | `ImplementsFifo` | `Spec => FifoSpec` |
| | `LinesNoticed`, `NoDeadlock` | `[]DrawerTold`, `[]CpuWokenLater`: neither thread sleeps on what the other will not post |
| `ExtendedTraps_proofs` | `TypeCorrect`, `Inductive`, `OneOwner`, `ProperNesting`, `ResultsMatch`, `ContextFound`, `MaskRestored` | `[]TypeOK`, `[]TrapInv`, and the five safety properties of `traps`, over any number of resets |
| | `NeverStuck` | `[]NobodyStuck`, given `[](resets = 0)`: whoever waits, waits for a step that is possible |
| `Keyboard_proofs` | `TypeCorrect` | `[]TypeOK` |
| | `Inductive`, `RecordsAgree`, `ReleasedLate` | `[]KeyboardInv`, `[]WarningTracked`, `HeldInReset`, given `~Overlap` |
| | `KeysNotLost` | `KeysKept`, the first half of `KeysSent`, whatever resets come when |
| `AudioRing_proofs` | `Inductive`, `TypeCorrect` | `[]RingInv`, `[]TypeOK` |
| | `CopiesNeverMeet`, `ImplementsStream` | `[]CopiesApart` and `Spec => StreamSpec`, given `InOrder` |
| `CommPipe_proofs` | `PipeInductive`, `PipeTypeCorrect`, `WakeUpsKept` | `[]PipeInv`, `[]PipeTypeOK`, `[]NoLostWakeUp` |
| | `PipeImplementsFifo` | `PipeSpec => FifoSpec` |
| `ExterInterrupt_proofs` | `CallsApart`, `UsesPipe` | one host thread at a time is in the pipe; `Spec => PipeSpec` |
| | `WordsInOrder`, `CallsWakeUp` | `FifoSpec` and `[]NoLostWakeUp` of the whole system |
| | `DummyMessageOnce`, `PacketsLeftAlone` | `[]DummyOnce`, `[]RepliedForGood` |
| | `TypeCorrect`, `CallsWhole` | `[]TypeOK`, `[]WholeCalls` |
| | `CallsInOrder` | `Spec => Calls!Spec`, the safety part of `CallsFairSpec` |
| | `NoCallForgotten` | `[]CallsHeard`: words in the pipe have somebody who will read them |
| | `NoPacketForgotten` | `[]PacketsHeard`, the same for packets marked done, given `[](~AckedUnmarked)` |
| `HardfileIo_proofs` | `TypeCorrect` | `[]TypeOK` |
| | `BuffersSafe`, `ProcessingShown` | `BuffersKept`, `TempKept`, given `TableKept` |
| | `RepliesOnce` | `RepliedOnce`: replies (`RepliesDue`) given `TableKept`, disk changes (`ChangesDue`) given also `~RemovedLate` |
| | `BuffersNotLost` | `BuffersFreed`, given also `~ReopenedEarly` |
| | `NoRequestForgotten` | `[]RequestsHeard`: a request the device has is before a thread that runs, or its reply is on the way, given `TableKept` and `~ReopenedEarly` |
| | `NoTrapStuck` | `[]TrapsGoOn`: a trap that waits, waits for a step that is possible, given `InOrder` |

None of these properties is inductive alone. What had to be added:

- `TableInv` describes the call stack as a chain (`ChainOf`): each frame meets a
  condition of its own (`StackFrames`: a scan has left nothing due behind it, and the
  clock loop no sync entry), each pair of caller and callee one of theirs
  (`StackCalls`: the slot whose handler `MISC_handler` is calling is not due any more;
  of a periodic entry that is not so), and the frame at the bottom one too. Calls and
  returns then need a single lemma each (`ChainPush`, `ChainPop`), and a change of
  the table one that all frames keep their conditions: nothing ever becomes due
  except when the clock moves, and then there is just the frame of the clock
  loop. That `NotDue` is kept from one nested scan to another is why
  `ScanComplete` survives the wrong restart.
- `TimelyInv` does the same for times, with `mintime` of a scan no later than what it
  has met, `ev_misc` no later than any event when no scan runs, and nothing earlier
  than `nextevent` when the clock loop is at its head. Its step needs that at most
  one scan is in progress, which holds until a nested scan raises
  `event2restart`; from there to the restart only "a scan to be restarted is in
  progress" is kept. The theorem is hence about behaviours without a restart.
- `IInv` adds to the types: `Bounds`, that at most `Chunks - 1` entries are in flight,
  one less while another is being queued, which turns "the masked counters differ"
  into "the counters are less than a ring apart"; `ItemFilled`, that what is
  published is what was queued; `LockHeld`, that with the frame buffer unlocked no
  entry needs it, which is what flushing before unlocking achieves; and `BeamNear`,
  that the current line began at most one line length per ended entry after any
  entry in flight, so that the beam is less than `Chunks * LineLen` slots ahead.
- `TrapInv` says whose turn it is: a semaphore is up only when the other side is
  waiting for it, the mutex is with exactly one trap in its critical section or
  with the 68k on its way into or out of one, the contexts on each stack are nested
  as the traps were, and the registers of who is at work are those that belong
  there. A reset forgets stacks, not threads, and each part is stated so that
  it survives.
- `KeyboardInv` ties the phase of `keyboard_reset_seq_mode` to the keys that are held
  and to the phase in `cia.cpp`, says that a CPU in reset has a reset to come, and
  that `keyboard_reset_seq` stays 0, which is why its time-out never ends anything.
- `RingInv`: what a thread has found out from the other's index (so much room, so many
  bytes) is still true when it moves its own, because the other thread can only
  add to it. For the refinement the bytes copied so far (`CopyMade`) are recorded.
- `PipeInv`: who holds the lock, what the flags mean and who sleeps; an index that is
  being moved is one place ahead of what is stored; and a reader that sleeps on a
  pipe with words in it has a post under way. `ExterInterrupt` proves the rest of
  what this needs: one writer at a time, from `n2asem` (`OneCaller`, `CallsKnown`).
- `DummyInv` counts the places where the dummy message can be (with the task, in the
  port, taken by the process but not yet acknowledged) against
  `cmds_acked # cmds_complete`; `PacketInv` says in which one place a packet is.
  `HelperTypes` adds the order of the counters and `ProcessInv`: a process has counted
  as started exactly those packets of its queue that its thread has been given,
  which bounds the count.
- `StreamInv`: the words the task has read, the words in the pipe and the word that
  the writer will store next are one chain (`Chain`): each continues the call of
  the one before it, or that call was complete and it begins another. `WholeCalls`
  is the part of the chain that has been read. It also bounds the calls under way
  by the size of the pipe, because each keeps at least one word in it.
- `CallsHeard`, that words in the pipe have a task at work, an interrupt asked for, or a
  host thread that has still to ask, needs only that a host thread asks after its
  last word (`AskedLast`). `HeardOf` says the same of packets, where the task can be past
  their unit already, and one dummy message stands for several of them: it is
  out whenever `cmds_complete # cmds_acked`.
- `HardTypes` counts the posts of `sync_sem` there are and those to come, and says who
  holds `change_sem`; it needs no premise. `HardInv` is what the table is for and
  holds as long as `TableKept`: a request has one message at most, each entry stands for a
  request at work, an interrupt installed, a BeginIO in progress or a release in
  progress (`EntriesKept`), what ends the thread comes before the requests of
  the next open (`EndsFirst`), and a reply is the last reply that is heard of a
  request. `CausesKept` adds that no disk change is queued for a request the program
  has back, which a quick `CMD_REMCHANGEINT` breaks (`~RemovedLate`).
  `LostInv` adds who frees each `iobuf`, and there the premise is `~ReopenedEarly` too:
  a request that is sent after the terminator of the last close is forgotten when
  the next `start_thread` clears the pipe and the table.
- What is about progress but not about fairness is proved as safety: that whoever
  sleeps will be woken, or waits for somebody who can take the next step
  (`DrawerTold`, `NobodyStuck`, `CallsHeard`, `PacketsHeard`, `RequestsHeard`, `TrapsGoOn`).
  Each comes from the invariant above with little more: in `DeniseQueue` that the
  counter moves before the post; in `ExtendedTraps` that the mutex is free outside
  critical sections (`MutexFree`, the converse of `MutexKept`, which a reset breaks by
  forgetting the trap that was to give it back); in `HardfileIo` that the thread of an
  open device runs (`OpenKept`). With fairness, which makes those steps happen, these
  are what the liveness properties of the runs need.

Refinements go action by action: `Publish` is `Put` and `Advance` is `Get` of the
queue of lines; the step that stores a word's index is `Put` and `EndRead` is `Get` of
the pipe; that step for the first word of a call is `Put`, and `ExecReturns` is `Get`, of
the queue of calls (`Pending`, defined by the positions of the first words so
that it can be reasoned about without recursion); the step that moves an index of
the sound ring accepts or delivers samples; everything else stutters.

Only model-checked: liveness (`CpuReturns`, `FifoFairSpec`, `CallsFairSpec`,
`EmuReturnsUnlessReset`, `ComboResets`, the second half of `KeysSent`,
`EventsServedUnlessNested`, `Played`, `RepliedUnlessAckedUnmarked`, `RepliedInOrder`, `CpuReturnsInOrder`), since TLAPS has no
rules for ENABLED and fairness here. What could be lost for good on the way is a
question of safety, and proved where the table says so; the definitions these
theorems name are in the proof modules, and no run checks them by name. Every safety property of
the runs is stated by a theorem. Nothing about what a recursive definition computes
for all inputs is claimed.

## 8. Findings and known weaknesses

1. `events.cpp`, `MISC_handler`: a restart sets `i = 0`, which the loop's `i++` turns
   into 1, so the slot the scan began with is not looked at again and `ev_misc` is
   armed without it. A handler that schedules an event makes another event late,
   and `do_cycles_normal` then sets the clock back to it (`events_overdue`).
2. `traps.cpp`: `trap_mutex` is taken on the trap's thread and given back by a 68k
   instruction. If `m68k_go` resets the Amiga in between, nobody gives it back and
   the next extended trap stops the emulator (`traps_reset`).
   `init_extended_traps` makes the mutex anew only after a hard reset of
   memory.
3. `cia.cpp`/`inputdevice.cpp`: any other reset during a reset warning clears
   `resetwarning_phase` but not `keyboard_reset_seq_mode`. Every later key is
   swallowed; the time-out that should end this counts a variable that is never
   started (`keyboard_overlap`).
4. `leuae-audio.c`: the copy into the ring and the store of its index are not
   ordered, for the compiler or for the PowerPC, so the callback can play bytes
   that have not been written (`audio_order`).
5. `filesys.cpp`, `filesys_iteration`: a packet is counted in `cmds_sent` before it is
   marked as done. If the helper runs in between, for a call of another host
   thread, it announces a packet that is not marked; the interrupt that the thread
   asks for afterwards finds nothing left to announce, and the packet is never
   replied to (`filesys_late`).

The properties of the hard file run assume that six situations do not arise, which nothing in
`hardfile.cpp` excludes. They are named in the module, and no property covers what
happens after them:

- `ReusedEarly`: the thread clears `d_request` of an entry first and its copy and type
  afterwards; BeginIO may give the entry to another request in between.
- `RemovedEarly`: `CMD_REMCHANGEINT` is carried out in the trap while
  `CMD_ADDCHANGEINT` is still on its way to the thread.
- `TableFull`: BeginIO does not mind that no entry was free.
- `RemovedLate`: `CMD_REMCHANGEINT` with IOF_QUICK returns at once, while a disk change
  for the interrupt is still in `native2amiga_pending`: it is announced after the
  interrupt was removed. Only what `RepliedOnce` says of disk changes is void then.
- `ReopenedEarly`: the device is opened again before the thread has seen the message
  of the last close; requests behind that message are thrown away.
- `RepliesFull`: thread or trap wait for room in `native2amiga_pending` while a trap
  keeps the 68k from emptying it.

A packet that arrives while 20 are started is queued as "unstarted", and no code
starts it later. `exter` has such a packet; its promise is about the others.

## 9. What is not modelled

- *Wall clock and throttling* (`do_cycles_slow`, `event_check_vsync`): the same table
  served at another pace; what is left is host time, which has no states to
  explore.
- *What lines, sounds and instructions look like*: arithmetic and generated code,
  where TLC has nothing to interleave.
- *Contents of `rga_denise` slots*: only who may write which.
- *Semaphores, threads, CoreAudio, Carbon, `uae_reset`, `uae_quit`*: not in the
  source tree or not the project's; modelled from how they are used and marked
  external in the map.
- *Keyboard controllers* (`keyboard_mode > 0`) and CDTV keys; typing of injected
  text (`keybuf_inject`), which nothing calls.
- *32-bit wrap of the queue counters*: their masks divide 2^32, so it is harmless.
- *Signals and packets*: resets (`native2amiga_reset`, `filesys_reset`), calls made on
  the emulator thread itself, `back_pipe` and lock blocks, packets that wait for a
  record lock (-2), notifications, and the branch of `exter_int_helper` for a second
  task in it, of which there is none. The hazards list says what resets and calls
  from the emulator thread can do.
- *Hard file*: quick commands that need no table, resets, a second opener, a second
  thread beside one that has not begun, what the commands read and write.
- *Native library calls* (`uaenative.cpp`): compiled out in every build here. *Host
  input queue* (`leuae-input.c`): nothing calls `leuae_input_poll`.
- *Chips and controllers* (CIA, blitter, disk, Paula, IDE, Gayle, SCSI): register
  machines on one thread; see the plan.
- *Vendored and reference trees* (`vendor/`, `reference/`): not built, except that
  `filesys.asm` is the source of the 68k side of the file system, whose assembled
  form is in `filesys_bootrom.cpp`.

## 10. The plan

| Step | Module | Abstract specification | Runs and bounds | Theorems |
|---|---|---|---|---|
| done | `EventTable` | | 3 slots | all safety |
| done | `DeniseQueue` | `BoundedFifo` | ring of 3 | all safety |
| done | `ExtendedTraps` | | 2 tasks, 3 traps | all safety |
| done | `Keyboard` | | 3 presses | all safety without overlapping resets |
| done | `AudioRing` | `SampleStream` | ring of 6 frames | all safety in order |
| done | `CommPipe`, `Native2Amiga`, `ExterInterrupt` | `BoundedFifo`, twice | 2 threads, 3 packets | all safety, the calls' queue, nothing forgotten |
| done | `HardfileIo` | | 2 requests | all safety while the table is kept |
| 1 | `HardwareTraps` | mailbox per slot | 2 slots, 2 workers, a reset | a slot is served once |
| 2 | `InterruptDelay` (INTENA/INTREQ pipeline), composed with `EventTable` and `ExtendedTraps` | immediate interrupts | 2 bits, 3 writes | no lost interrupt |
| 3 | `Blitter`, `DiskDma`, `PaulaChannel`, `Cia` | register-level promises of the hardware | one channel each | types, counters in range |
| 4 | `ScsiRequests`, `RewindRing` | request/abort/reply, ring of states | 2 units, 3 requests | each request answered once |
| 5 | `Filesys` | lock table | 2 objects, 3 packets | no key outlives its object |
