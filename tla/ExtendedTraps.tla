---------------------------- MODULE ExtendedTraps ----------------------------
(***************************************************************************)
(* Extended traps (src/core/traps.cpp): host functions that 68k code calls *)
(* and that may call 68k code themselves.                                  *)
(*                                                                         *)
(* Each invocation has a TrapContext and a thread of its own.  The thread  *)
(* and the emulator thread take turns, each switching to the other with a  *)
(* semaphore of the context, and both read and write the one set of 68k    *)
(* registers.  A handler calls 68k code by pointing the program counter at *)
(* a trap that pushes the context on the 68k stack and jumps to the        *)
(* function; the return address on that stack is another trap that finds   *)
(* the context again.  Meanwhile the Amiga may switch tasks, and other     *)
(* traps may be invoked.                                                   *)
(*                                                                         *)
(* Of the 68k there are the registers that matter: pc (ordinary code, or   *)
(* one of the three internal traps), d0, the interrupt mask, and a7 as the *)
(* length of the stack of the running task.  The 68k function called by    *)
(* context c returns the value c, and so does its handler.                 *)
(***************************************************************************)
EXTENDS Naturals, Sequences, SequencesExt

CONSTANTS
    Tasks,      \* Amiga tasks (or interrupt servers)
    Masks,      \* interrupt masks under which a task may run
    MaxTraps,   \* bound: extended traps invoked in a behaviour
    MaxResets   \* bound: resets of the Amiga

ASSUME TrapsAssumption ==
    /\ Tasks # {}
    /\ Masks \subseteq 0 .. 7 /\ Masks # {}
    /\ MaxTraps \in Nat /\ MaxResets \in Nat

Contexts == 1 .. MaxTraps
None     == 0

\* What the pc points at.
Code       == "code"
CallTrap   == "m68k_call"     \* m68k_call_trapaddr
ReturnTrap == "m68k_return"   \* m68k_return_trapaddr
ExitTrap   == "exit_trap"     \* exit_trap_trapaddr

VARIABLES
    regs,               \* 68k registers: [pc, d0, intmask]
    task,               \* the Amiga task that is running
    tasks,              \* the registers of the others
    stack,              \* 68k stack of each task: the contexts pushed
    context,            \* the contexts created so far
    switch_to_trap_sem, switch_to_emu_sem,   \* of each context
    thread,             \* program counter of each trap thread
    trap_mutex,
    current_context,
    emu, emuCtx,        \* program counter of the emulator thread, and the
                        \* context whose semaphore it waits for
    mask,               \* the interrupt mask each task runs under
    resets

amiga  == <<task, tasks, mask>>
sems   == <<switch_to_trap_sem, switch_to_emu_sem>>
vars   == <<regs, amiga, stack, context, sems, thread, trap_mutex,
            current_context, emu, emuCtx, resets>>

EmuPc    == {"run", "wait", "mutex", "join"}
ThreadPc == {"none", "start", "handler", "callMutex", "call", "callWait",
             "callEnd", "exitMutex", "exit", "done", "freed"}

Regs    == [pc : {Code, CallTrap, ReturnTrap, ExitTrap},
            d0 : 0 .. MaxTraps, intmask : 0 .. 7]
\* saved_regs with its a7, the task that trapped (not in the code), and the
\* results of the last 68k call.
Context == [saved : Regs, a7 : Nat, owner : Tasks, has_retval : BOOLEAN,
            call68k_retval : 0 .. MaxTraps]

Fresh(t) == [pc |-> Code, d0 |-> None, intmask |-> mask[t]]

Init ==
    /\ mask \in [Tasks -> Masks]
    /\ task \in Tasks
    /\ regs = Fresh(task)
    /\ tasks = [t \in Tasks |-> Fresh(t)]
    /\ stack = [t \in Tasks |-> << >>]
    /\ context = << >>
    /\ switch_to_trap_sem = [c \in Contexts |-> 0]
    /\ switch_to_emu_sem = [c \in Contexts |-> 0]
    /\ thread = [c \in Contexts |-> "none"]
    /\ trap_mutex = 1
    /\ current_context = None
    /\ emu = "run" /\ emuCtx = None
    /\ resets = 0

A7 == Len(stack[task])

-----------------------------------------------------------------------------
(* 68k code, on the emulator thread.                                       *)

AtPc(pc) == emu = "run" /\ regs.pc = pc

\* The Amiga runs another task: the interrupt that makes it do so is masked
\* at level 7, ordinary code may also wait for something.
SwitchTask(t) ==
    /\ emu = "run" /\ t # task
    /\ regs.intmask < 7 \/ regs.pc = Code
    /\ tasks' = [tasks EXCEPT ![task] = regs]
    /\ regs' = tasks[t]
    /\ task' = t
    /\ UNCHANGED <<stack, context, sems, thread, trap_mutex,
                   current_context, emu, emuCtx, mask, resets>>

\* trap_HandleExtendedTrap.
HandleExtendedTrap(has_retval) ==
    /\ AtPc(Code) /\ Len(context) < MaxTraps
    /\ LET c == Len(context) + 1
       IN /\ context' = Append(context,
                  [saved |-> regs, a7 |-> A7, owner |-> task,
                   has_retval |-> has_retval, call68k_retval |-> None])
          /\ thread' = [thread EXCEPT ![c] = "start"]
          /\ switch_to_trap_sem' = [switch_to_trap_sem EXCEPT ![c] = 1]
          /\ switch_to_emu_sem' = [switch_to_emu_sem EXCEPT ![c] = 0]
          /\ emu' = "wait" /\ emuCtx' = c
    /\ UNCHANGED <<regs, amiga, stack, trap_mutex, current_context, resets>>

\* The thread the emulator waits for switches back to it.
SwitchBack ==
    /\ emu = "wait" /\ switch_to_emu_sem[emuCtx] > 0
    /\ switch_to_emu_sem' = [switch_to_emu_sem EXCEPT ![emuCtx] = @ - 1]
    /\ emu' = "run"
    /\ UNCHANGED <<regs, amiga, stack, context, switch_to_trap_sem,
                   thread, trap_mutex, current_context, emuCtx, resets>>

m68k_call_handler ==
    /\ AtPc(CallTrap)
    /\ LET c == current_context
       IN /\ stack' = [stack EXCEPT ![task] = Append(@, c)]
          /\ regs' = [regs EXCEPT !.pc = Code,
                                  !.intmask = context[c].saved.intmask]
    /\ trap_mutex' = trap_mutex + 1
    /\ UNCHANGED <<amiga, context, sems, thread, current_context,
                   emu, emuCtx, resets>>

\* The function called by the innermost handler of the task returns.
Rts ==
    /\ AtPc(Code) /\ stack[task] # << >>
    /\ regs' = [regs EXCEPT !.pc = ReturnTrap, !.d0 = Last(stack[task])]
    /\ UNCHANGED <<amiga, stack, context, sems, thread, trap_mutex,
                   current_context, emu, emuCtx, resets>>

\* m68k_return_handler up to the mutex, and the rest of it.
ReturnEnters ==
    /\ AtPc(ReturnTrap)
    /\ emu' = "mutex"
    /\ UNCHANGED <<regs, amiga, stack, context, sems, thread,
                   trap_mutex, current_context, emuCtx, resets>>

ReturnTo(c) ==
    /\ stack' = [stack EXCEPT ![task] = Front(@)]
    /\ context' = [context EXCEPT ![c].call68k_retval = regs.d0]
    /\ switch_to_trap_sem' = [switch_to_trap_sem EXCEPT ![c] = @ + 1]
    /\ emu' = "wait" /\ emuCtx' = c
    /\ UNCHANGED <<regs, amiga, switch_to_emu_sem, thread,
                   current_context, resets>>

\* Mutants: the return handler trusts current_context, or does not wait for
\* the trap thread.
MutReturnCurrent ==
    /\ emu = "mutex" /\ trap_mutex > 0
    /\ trap_mutex' = trap_mutex - 1
    /\ ReturnTo(current_context)
MutReturnOnly ==
    /\ emu = "mutex" /\ trap_mutex > 0
    /\ trap_mutex' = trap_mutex - 1
    /\ LET c == Last(stack[task])
       IN switch_to_trap_sem' = [switch_to_trap_sem EXCEPT ![c] = @ + 1]
    /\ stack' = [stack EXCEPT ![task] = Front(@)]
    /\ emu' = "run" /\ regs' = [regs EXCEPT !.pc = Code]
    /\ UNCHANGED <<amiga, context, switch_to_emu_sem, thread,
                   current_context, emuCtx, resets>>

m68k_return_handler ==
    /\ emu = "mutex" /\ trap_mutex > 0
    /\ trap_mutex' = trap_mutex - 1
    /\ ReturnTo(Last(stack[task]))

\* copyfromcpucontext: the registers of trap entry, except for the pc.
Restored(c, pc) == [context[c].saved EXCEPT !.pc = pc]
RestoredStack(c) == [stack EXCEPT ![task] = SubSeq(@, 1, context[c].a7)]

\* exit_trap_handler waits for the thread, and puts everything back.
ExitEnters ==
    /\ AtPc(ExitTrap)
    /\ emu' = "join"
    /\ UNCHANGED <<regs, amiga, stack, context, sems, thread,
                   trap_mutex, current_context, emuCtx, resets>>

exit_trap_handler ==
    /\ emu = "join"
    /\ LET c == current_context
           r == Restored(c, context[c].saved.pc)
       IN /\ thread[c] = "done"
          /\ regs' = IF context[c].has_retval THEN [r EXCEPT !.d0 = c] ELSE r
          /\ stack' = RestoredStack(c)
          /\ thread' = [thread EXCEPT ![c] = "freed"]
    /\ trap_mutex' = trap_mutex + 1
    /\ emu' = "run"
    /\ UNCHANGED <<amiga, context, sems, current_context, emuCtx,
                   resets>>

\* m68k_go resets the Amiga between two instructions; nobody tells the traps.
Reset ==
    /\ emu = "run" /\ resets < MaxResets
    /\ resets' = resets + 1
    /\ regs' = Fresh(task)
    /\ tasks' = [t \in Tasks |-> Fresh(t)]
    /\ stack' = [t \in Tasks |-> << >>]
    /\ UNCHANGED <<task, mask, context, sems, thread, trap_mutex,
                   current_context, emu, emuCtx>>

-----------------------------------------------------------------------------
(* The thread of context c.                                                *)

Goes(c, from, to) ==
    /\ thread[c] = from
    /\ thread' = [thread EXCEPT ![c] = to]

\* It waits to be switched to: at first, and when its 68k call is over.
SwitchedTo(c, from, to) ==
    /\ Goes(c, from, to)
    /\ switch_to_trap_sem[c] > 0
    /\ switch_to_trap_sem' = [switch_to_trap_sem EXCEPT ![c] = @ - 1]
    /\ UNCHANGED <<regs, amiga, stack, context, switch_to_emu_sem,
                   trap_mutex, current_context, emu, emuCtx, resets>>

ThreadStarts(c) == SwitchedTo(c, "start", "handler")
CallReturns(c)  == SwitchedTo(c, "callWait", "callEnd")

\* The handler calls 68k code, or returns.
HandlerRuns(c) ==
    /\ Goes(c, "handler", "callMutex") \/ Goes(c, "handler", "exitMutex")
    /\ UNCHANGED <<regs, amiga, stack, context, sems, trap_mutex,
                   current_context, emu, emuCtx, resets>>

TakesMutex(c) ==
    /\ Goes(c, "callMutex", "call") \/ Goes(c, "exitMutex", "exit")
    /\ trap_mutex > 0
    /\ trap_mutex' = trap_mutex - 1
    /\ UNCHANGED <<regs, amiga, stack, context, sems,
                   current_context, emu, emuCtx, resets>>

\* Mutant: interrupts stay enabled in the critical section.
MutCall68k(c) ==
    /\ Goes(c, "call", "callWait")
    /\ current_context' = c
    /\ regs' = [regs EXCEPT !.pc = CallTrap]
    /\ switch_to_emu_sem' = [switch_to_emu_sem EXCEPT ![c] = @ + 1]
    /\ UNCHANGED <<amiga, stack, context, switch_to_trap_sem, trap_mutex, emu,
                   emuCtx, resets>>

\* trap_Call68k, in the critical section.
trap_Call68k(c) ==
    /\ Goes(c, "call", "callWait")
    /\ current_context' = c
    /\ regs' = [regs EXCEPT !.pc = CallTrap, !.intmask = 7]
    /\ switch_to_emu_sem' = [switch_to_emu_sem EXCEPT ![c] = @ + 1]
    /\ UNCHANGED <<amiga, stack, context, switch_to_trap_sem,
                   trap_mutex, emu, emuCtx, resets>>

\* The end of its critical section, which m68k_return_handler began.
CallEnds(c) ==
    /\ Goes(c, "callEnd", "handler")
    /\ trap_mutex' = trap_mutex + 1
    /\ UNCHANGED <<regs, amiga, stack, context, sems,
                   current_context, emu, emuCtx, resets>>

\* Mutant: the exit trap is left to find the context of the last 68k call.
MutThreadExits(c) ==
    /\ Goes(c, "exit", "done")
    /\ regs' = [Restored(c, ExitTrap) EXCEPT !.intmask = 7]
    /\ stack' = RestoredStack(c)
    /\ switch_to_emu_sem' = [switch_to_emu_sem EXCEPT ![c] = @ + 1]
    /\ UNCHANGED <<amiga, context, switch_to_trap_sem, trap_mutex,
                   current_context, emu, emuCtx, resets>>

\* The end of trap_thread, in the critical section.
ThreadExits(c) ==
    /\ Goes(c, "exit", "done")
    /\ regs' = [Restored(c, ExitTrap) EXCEPT !.intmask = 7]
    /\ stack' = RestoredStack(c)
    /\ current_context' = c
    /\ switch_to_emu_sem' = [switch_to_emu_sem EXCEPT ![c] = @ + 1]
    /\ UNCHANGED <<amiga, context, switch_to_trap_sem, trap_mutex,
                   emu, emuCtx, resets>>

-----------------------------------------------------------------------------
\* What 68k code chooses to do, what the emulator thread has begun, and the
\* trap threads.
AmigaRuns == \/ \E t \in Tasks : SwitchTask(t)
             \/ \E b \in BOOLEAN : HandleExtendedTrap(b)
             \/ Rts
             \/ Reset
EmuSteps == \/ SwitchBack \/ m68k_call_handler
            \/ ReturnEnters \/ m68k_return_handler
            \/ ExitEnters \/ exit_trap_handler
ThreadSteps(c) == \/ ThreadStarts(c) \/ HandlerRuns(c) \/ TakesMutex(c)
                  \/ trap_Call68k(c) \/ CallReturns(c) \/ CallEnds(c)
                  \/ ThreadExits(c)

Next == AmigaRuns \/ EmuSteps \/ \E c \in Contexts : ThreadSteps(c)

Spec == Init /\ [][Next]_vars

\* The threads are scheduled and the host functions come to an end.
FairSpec == /\ Spec
            /\ WF_vars(EmuSteps)
            /\ \A c \in Contexts : WF_vars(ThreadSteps(c))

-----------------------------------------------------------------------------
\* The variables keep their types; the mutex and the semaphores of a context
\* are never posted twice in a row.
TypeOK ==
    /\ regs \in Regs /\ task \in Tasks
    /\ tasks \in [Tasks -> Regs] /\ mask \in [Tasks -> Masks]
    /\ stack \in [Tasks -> Seq(Contexts)]
    /\ context \in Seq(Context) /\ Len(context) <= MaxTraps
    /\ switch_to_trap_sem \in [Contexts -> 0 .. 1]
    /\ switch_to_emu_sem \in [Contexts -> 0 .. 1]
    /\ thread \in [Contexts -> ThreadPc]
    /\ trap_mutex \in 0 .. 1
    /\ current_context \in 0 .. MaxTraps
    /\ emu \in EmuPc /\ emuCtx \in 0 .. MaxTraps
    /\ resets \in 0 .. MaxResets

\* The thread of c is executing host code, or may.
Running(c) == thread[c] \in {"handler", "callMutex", "call", "callEnd",
                             "exitMutex", "exit"}

\* The registers have one owner at a time: while a handler runs, the emulator
\* thread waits for that handler's semaphore.
OneRunner == \A c \in Contexts : Running(c) => emu = "wait" /\ emuCtx = c

\* A handler runs on behalf of the task that trapped, and finds its stack
\* pointer where it was at trap entry: 68k calls nest properly, whatever
\* other tasks and traps did during them.
RunsWhereEntered ==
    \A c \in Contexts :
        Running(c) => /\ task = context[c].owner
                      /\ A7 = context[c].a7

\* Each handler gets the result of the function it called.
OwnResult ==
    \A c \in DOMAIN context : context[c].call68k_retval \in {None, c}

\* The internal traps find their own context in current_context.
CurrentContext ==
    /\ AtPc(CallTrap) =>
           /\ current_context # None
           /\ thread[current_context] = "callWait"
           /\ context[current_context].owner = task
    /\ AtPc(ExitTrap) =>
           /\ current_context # None
           /\ thread[current_context] = "done"
           /\ context[current_context].owner = task

\* Ordinary 68k code runs under the interrupt mask of its task: level 7 is
\* gone when a called function starts and when a trap is over.
MaskKept == AtPc(Code) => regs.intmask = mask[task]

Internal(pc) == pc \in {CallTrap, ExitTrap}

\* The semaphores hand over one turn: a context that may run, that is about to
\* run or that has just switched back is the one the emulator thread waits for.
TurnKept(c) ==
    /\ thread[c] = "none" <=> c \notin DOMAIN context
    /\ Running(c) => emu = "wait" /\ emuCtx = c
    /\ thread[c] = "start" => switch_to_trap_sem[c] > 0
    /\ switch_to_trap_sem[c] > 0 =>
           /\ emu = "wait" /\ emuCtx = c
           /\ thread[c] \in {"start", "callWait"}
           /\ switch_to_emu_sem[c] = 0
    /\ switch_to_emu_sem[c] > 0 =>
           /\ emu = "wait" /\ emuCtx = c
           /\ thread[c] \in {"callWait", "done"}
           /\ Internal(regs.pc)

TurnsKept ==
    /\ \A c \in Contexts : TurnKept(c)
    /\ emu = "wait" => emuCtx \in DOMAIN context
    /\ emu = "wait" /\ Internal(regs.pc) => switch_to_emu_sem[emuCtx] > 0
    /\ emu = "mutex" => regs.pc = ReturnTrap
    /\ emu = "join" => regs.pc = ExitTrap

\* Whoever is in a critical section, which one thread enters and the other
\* leaves: a calling or exiting thread, the trap it sends the 68k to, or a
\* thread whose 68k call has returned.
Critical ==
    \/ Internal(regs.pc)
    \/ \E c \in Contexts :
           \/ thread[c] \in {"call", "callEnd", "exit"}
           \/ thread[c] = "callWait" /\ switch_to_trap_sem[c] > 0

MutexKept == Critical => trap_mutex = 0

\* The contexts on the stack of a task wait for their 68k call, each at the
\* depth at which it was entered.
NestingKept ==
    /\ \A t \in Tasks : \A k \in DOMAIN stack[t] :
           LET c == stack[t][k]
           IN /\ c \in DOMAIN context
              /\ thread[c] = "callWait" /\ switch_to_trap_sem[c] = 0
              /\ context[c].owner = t /\ context[c].a7 = k - 1
    /\ \A c \in Contexts :
           Running(c) \/ switch_to_trap_sem[c] > 0 =>
               task = context[c].owner /\ A7 = context[c].a7
    /\ Internal(regs.pc) =>
           /\ current_context \in DOMAIN context
           /\ thread[current_context] =
                  IF regs.pc = CallTrap THEN "callWait" ELSE "done"
           /\ context[current_context].owner = task
           /\ context[current_context].a7 = A7

\* Registers at work: those of ordinary code under the mask of its task, or
\* those of a function that returns the context on top of the stack.
Working(r, t) ==
    \/ r.pc = Code /\ r.intmask = mask[t]
    \/ r.pc = ReturnTrap /\ stack[t] # << >> /\ r.d0 = Last(stack[t])

RegsKept ==
    /\ \A t \in Tasks \ {task} : Working(tasks[t], t)
    /\ emu \in {"run", "mutex"} =>
           Internal(regs.pc) \/ Working(regs, task)
    /\ Internal(regs.pc) => regs.intmask = 7
    /\ \A c \in DOMAIN context :
           /\ context[c].saved.pc = Code
           /\ context[c].saved.intmask = mask[context[c].owner]
           /\ context[c].call68k_retval \in {None, c}

\* Why the two threads never get in each other's way, also over a reset.
TrapInv == TypeOK /\ TurnsKept /\ MutexKept /\ NestingKept /\ RegsKept

\* The emulator thread never waits for ever.
EmuReturns == (emu # "run") ~> (emu = "run")

\* ... which a reset of the Amiga can break; without one it holds.
EmuReturnsUnlessReset == [](resets = 0) => EmuReturns
=============================================================================
