------------------------ MODULE ExtendedTraps_proofs -------------------------
(***************************************************************************)
(* Proofs about ExtendedTraps for any tasks, any number of traps and any   *)
(* number of resets.                                                       *)
(***************************************************************************)
EXTENDS ExtendedTraps, SequenceTheorems, TLAPS

-----------------------------------------------------------------------------
(* Types in pieces.                                                        *)

RegTypes ==
    /\ regs.pc \in {Code, CallTrap, ReturnTrap, ExitTrap}
    /\ regs.d0 \in 0 .. MaxTraps /\ regs.intmask \in 0 .. 7
    /\ regs = [pc |-> regs.pc, d0 |-> regs.d0, intmask |-> regs.intmask]
    /\ task \in Tasks
    /\ \A t \in Tasks : tasks[t] \in Regs /\ mask[t] \in Masks

ContextTypes ==
    /\ Len(context) \in Nat /\ DOMAIN context = 1 .. Len(context)
    /\ DOMAIN context \subseteq Contexts
    /\ \A c \in DOMAIN context :
           /\ context[c] \in Context
           /\ context[c].saved \in Regs /\ context[c].a7 \in Nat
           /\ context[c].owner \in Tasks

StackTypes ==
    /\ \A t \in Tasks :
           /\ stack[t] \in Seq(Contexts) /\ Len(stack[t]) \in Nat
           /\ DOMAIN stack[t] = 1 .. Len(stack[t])
    /\ A7 \in Nat /\ A7 = Len(stack[task])

LEMMA Unpacked ==
    ASSUME TypeOK
    PROVE  RegTypes /\ ContextTypes /\ StackTypes
<1>1. RegTypes  BY DEF TypeOK, RegTypes, Regs
<1>2. ContextTypes
  <2>1. /\ context \in Seq(Context) /\ Len(context) <= MaxTraps
        /\ MaxTraps \in Nat
    BY TrapsAssumption DEF TypeOK
  <2>2. /\ Len(context) \in Nat /\ DOMAIN context = 1 .. Len(context)
        /\ \A c \in DOMAIN context : context[c] \in Context
    BY <2>1, LenProperties
  <2>3. DOMAIN context \subseteq Contexts  BY <2>1, <2>2, SMT DEF Contexts
  <2> QED  BY <2>2, <2>3 DEF ContextTypes, Context
<1>3. StackTypes
  <2>1. task \in Tasks /\ \A t \in Tasks : stack[t] \in Seq(Contexts)
    BY DEF TypeOK
  <2> QED  BY <2>1, LenProperties DEF StackTypes, A7
<1> QED  BY <1>1, <1>2, <1>3

LEMMA Numbers ==
    /\ MaxTraps \in Nat /\ None = 0 /\ None \notin Contexts
    /\ \A c \in Contexts : c \in 0 .. MaxTraps /\ c \in Nat
    /\ None \in 0 .. MaxTraps
    /\ \A m \in Masks : m \in 0 .. 7
  BY TrapsAssumption, SMT DEF Contexts, None

\* The constants for what the pc points at are different from one another.
LEMMA Pcs ==
    /\ ~Internal(Code) /\ ~Internal(ReturnTrap)
    /\ Internal(CallTrap) /\ Internal(ExitTrap)
    /\ Code # ReturnTrap /\ Code # CallTrap /\ Code # ExitTrap
    /\ CallTrap # ExitTrap /\ CallTrap # ReturnTrap /\ ExitTrap # ReturnTrap
  BY DEF Internal, Code, CallTrap, ReturnTrap, ExitTrap

\* Fresh registers are those of ordinary code.
LEMMA FreshIs ==
    ASSUME NEW t \in Tasks, mask \in [Tasks -> Masks]
    PROVE  Fresh(t) \in Regs /\ Working(Fresh(t), t)
<1>1. mask[t] \in 0 .. 7 /\ None \in 0 .. MaxTraps  BY Numbers
<1> QED  BY <1>1 DEF Fresh, Regs, Working

\* The Amiga starts in ordinary code and without a trap.
LEMMA InitTrapInv == Init => TrapInv
<1> SUFFICES ASSUME Init PROVE TrapInv  OBVIOUS
<1>1. /\ DOMAIN << >> = {} /\ << >> \in Seq(Context) /\ << >> \in Seq(Contexts)
      /\ Len(<< >>) = 0
  BY EmptySeq
<1>2. /\ Len(<< >>) <= MaxTraps /\ 0 \in 0 .. MaxTraps
      /\ 0 \in 0 .. MaxResets
  BY <1>1, TrapsAssumption, SMT
<1>3. mask \in [Tasks -> Masks] /\ task \in Tasks /\ regs = Fresh(task)
      /\ tasks = [t \in Tasks |-> Fresh(t)]
  BY DEF Init
<1>4. TypeOK
  <2>1. tasks \in [Tasks -> Regs] /\ regs \in Regs  BY <1>3, FreshIs
  <2> QED  BY <1>1, <1>2, <1>3, <2>1
           DEF Init, TypeOK, EmuPc, ThreadPc, None
<1>5. regs.pc = Code /\ ~Internal(regs.pc)
  BY <1>3, Pcs DEF Fresh
<1>6. TurnsKept
  BY <1>1, <1>5 DEF Init, TurnsKept, TurnKept, Running
<1>7. MutexKept  BY <1>5 DEF Init, MutexKept, Critical
<1>8. NestingKept  BY <1>1, <1>5 DEF Init, NestingKept, Running
<1>9. RegsKept
  BY <1>1, <1>3, <1>5, FreshIs DEF Init, RegsKept
<1> QED  BY <1>4, <1>6, <1>7, <1>8, <1>9 DEF TrapInv

-----------------------------------------------------------------------------
(* The thread that runs goes on, and leaves everything but the mutex alone.  *)

LEMMA RunningGoesOn ==
    ASSUME TrapInv, NEW c \in Contexts, NEW from, NEW to \in ThreadPc,
           Goes(c, from, to), Running(c), Running(c)',
           trap_mutex' \in 0 .. 1,
           UNCHANGED <<regs, amiga, stack, context, sems, current_context, emu,
                       emuCtx, resets>>
    PROVE  TypeOK' /\ TurnsKept' /\ NestingKept' /\ RegsKept'
<1>1. /\ thread[c] = from /\ thread' = [thread EXCEPT ![c] = to]
      /\ thread \in [Contexts -> ThreadPc]
      /\ thread'[c] = to
      /\ \A d \in Contexts \ {c} : thread'[d] = thread[d]
  BY DEF Goes, TrapInv, TypeOK
<1>2. UNCHANGED <<regs, task, tasks, mask, stack, context, switch_to_trap_sem,
                  switch_to_emu_sem, current_context, emu, emuCtx, resets>>
  BY DEF amiga, sems
<1>3. TypeOK'
  <2>1. thread' \in [Contexts -> ThreadPc]  BY <1>1
  <2> QED  BY <1>2, <2>1 DEF TrapInv, TypeOK
<1>4. /\ \A d \in Contexts : Running(d)' <=> Running(d)
      /\ \A d \in Contexts : thread'[d] \notin {"none", "start", "callWait", "done"}
             \/ thread'[d] = thread[d]
      /\ to \notin {"none", "start", "callWait", "done", "freed"}
      /\ from \notin {"none", "start", "callWait", "done", "freed"}
  <2>1. /\ to \notin {"none", "start", "callWait", "done", "freed"}
        /\ from \notin {"none", "start", "callWait", "done", "freed"}
    BY <1>1 DEF Running
  <2>2. \A d \in Contexts \ {c} : Running(d)' <=> Running(d)
    BY <1>1 DEF Running
  <2> QED  BY <1>1, <2>1, <2>2
<1>5. /\ emu = "wait" /\ emuCtx = c
      /\ switch_to_trap_sem[c] = 0 /\ switch_to_emu_sem[c] = 0
  <2>9. TurnKept(c)  BY DEF TrapInv, TurnsKept
  <2>1. /\ emu = "wait" /\ emuCtx = c
        /\ ~ (switch_to_trap_sem[c] > 0) /\ ~ (switch_to_emu_sem[c] > 0)
    BY <1>1, <1>4, <2>9 DEF TurnKept
  <2>2. /\ switch_to_trap_sem[c] \in 0 .. 1 /\ switch_to_emu_sem[c] \in 0 .. 1
    BY DEF TrapInv, TypeOK
  <2> QED  BY <2>1, <2>2, SMT
<1>6. TurnsKept'
  <2>1. TurnsKept  BY DEF TrapInv
  <2>2. emu' = "wait" => emuCtx' \in DOMAIN context'  BY <1>2, <2>1 DEF TurnsKept
  <2>3. ASSUME NEW d \in Contexts PROVE TurnKept(d)'
    <3>1. TurnKept(d)  BY <2>1 DEF TurnsKept
    <3>2. CASE d = c
      <4>1. ~ (switch_to_trap_sem[c] > 0) /\ ~ (switch_to_emu_sem[c] > 0)
        BY <1>5, SMT
      <4>2. thread'[c] \notin {"none", "start"} /\ c \in DOMAIN context
        BY <1>1, <1>4, <3>1, <3>2 DEF TurnKept
      <4> QED  BY <1>2, <1>5, <3>2, <4>1, <4>2 DEF TurnKept
    <3>3. CASE d # c
      <4>1. thread'[d] = thread[d] /\ (Running(d)' <=> Running(d))
        BY <1>1, <1>4, <3>3
      <4> QED  BY <1>2, <3>1, <4>1 DEF TurnKept, Internal
    <3> QED  BY <3>2, <3>3
  <2> QED  BY <1>2, <2>1, <2>2, <2>3 DEF TurnsKept, Internal
<1>7. NestingKept'
  <2>1. NestingKept  BY DEF TrapInv
  <2>2. ASSUME NEW t \in Tasks, NEW k \in DOMAIN stack[t]
        PROVE  thread'[stack[t][k]] = "callWait"
    <3>1. stack[t][k] \in Contexts /\ thread[stack[t][k]] = "callWait"
      BY <2>1, Unpacked DEF NestingKept, TrapInv, ContextTypes
    <3> QED  BY <1>1, <1>4, <3>1
  <2>3. ~Internal(regs.pc)
    BY <1>5, SMT DEF TrapInv, TurnsKept
  <2> QED  BY <1>2, <1>4, <2>1, <2>2, <2>3 DEF NestingKept, A7
<1>8. RegsKept'  BY <1>2 DEF TrapInv, RegsKept, Working, Internal
<1> QED  BY <1>3, <1>6, <1>7, <1>8

-----------------------------------------------------------------------------
(* Whose turn it is.                                                       *)

\* While a thread runs, the emulator thread waits for it and nobody else has
\* anything to do.
LEMMA RunsAlone ==
    ASSUME TrapInv, NEW c \in Contexts, Running(c)
    PROVE  /\ emu = "wait" /\ emuCtx = c /\ c \in DOMAIN context
           /\ switch_to_trap_sem[c] = 0 /\ switch_to_emu_sem[c] = 0
           /\ ~Internal(regs.pc)
           /\ task = context[c].owner /\ A7 = context[c].a7
           /\ \A d \in Contexts \ {c} :
                  /\ ~Running(d) /\ thread[d] # "start"
                  /\ switch_to_trap_sem[d] = 0 /\ switch_to_emu_sem[d] = 0
<1>1. /\ \A d \in Contexts : TurnKept(d)
      /\ \A d \in Contexts : /\ switch_to_trap_sem[d] \in 0 .. 1
                             /\ switch_to_emu_sem[d] \in 0 .. 1
  BY DEF TrapInv, TurnsKept, TypeOK
<1>2. \A d \in Contexts :
          /\ switch_to_trap_sem[d] = 0 <=> ~ (switch_to_trap_sem[d] > 0)
          /\ switch_to_emu_sem[d] = 0 <=> ~ (switch_to_emu_sem[d] > 0)
  BY <1>1, SMT
<1>3. emu = "wait" /\ emuCtx = c  BY <1>1 DEF TurnKept
<1>4. /\ switch_to_trap_sem[c] = 0 /\ switch_to_emu_sem[c] = 0
      /\ c \in DOMAIN context
  BY <1>1, <1>2 DEF TurnKept, Running
<1>5. \A d \in Contexts \ {c} :
          /\ ~Running(d) /\ thread[d] # "start"
          /\ switch_to_trap_sem[d] = 0 /\ switch_to_emu_sem[d] = 0
  BY <1>1, <1>2, <1>3 DEF TurnKept
<1>6. ~Internal(regs.pc)  BY <1>2, <1>3, <1>4 DEF TrapInv, TurnsKept
<1>7. task = context[c].owner /\ A7 = context[c].a7
  BY DEF TrapInv, NestingKept
<1> QED  BY <1>3, <1>4, <1>5, <1>6, <1>7

\* While the emulator thread does not wait, no trap thread runs.
LEMMA NobodyRuns ==
    ASSUME TrapInv, emu # "wait"
    PROVE  \A d \in Contexts :
               /\ ~Running(d) /\ thread[d] # "start"
               /\ switch_to_trap_sem[d] = 0 /\ switch_to_emu_sem[d] = 0
<1> SUFFICES ASSUME NEW d \in Contexts
             PROVE  /\ ~Running(d) /\ thread[d] # "start"
                    /\ switch_to_trap_sem[d] = 0 /\ switch_to_emu_sem[d] = 0
  OBVIOUS
<1>1. TurnKept(d)  BY DEF TrapInv, TurnsKept
<1>2. switch_to_trap_sem[d] \in 0 .. 1 /\ switch_to_emu_sem[d] \in 0 .. 1
  BY DEF TrapInv, TypeOK
<1>3. /\ ~Running(d) /\ thread[d] # "start"
      /\ ~ (switch_to_trap_sem[d] > 0) /\ ~ (switch_to_emu_sem[d] > 0)
  BY <1>1 DEF TurnKept
<1> QED  BY <1>2, <1>3, SMT

LEMMA HandlerRunsKeeps ==
    ASSUME TrapInv, NEW c \in Contexts, HandlerRuns(c)
    PROVE  TrapInv'
<1>1. PICK to \in {"callMutex", "exitMutex"} : Goes(c, "handler", to)
  BY DEF HandlerRuns
<1>2. /\ to \in ThreadPc /\ Running(c) /\ Running(c)'
      /\ thread' = [thread EXCEPT ![c] = to]
  BY <1>1 DEF Goes, ThreadPc, Running, TrapInv, TypeOK
<1>3. UNCHANGED <<regs, amiga, stack, context, sems, trap_mutex,
                  current_context, emu, emuCtx, resets>>
  BY DEF HandlerRuns
<1>4. TypeOK' /\ TurnsKept' /\ NestingKept' /\ RegsKept'
  BY <1>1, <1>2, <1>3, RunningGoesOn DEF TrapInv, TypeOK
<1>5. MutexKept'
  <2>1. MutexKept /\ thread \in [Contexts -> ThreadPc]
    BY DEF TrapInv, TypeOK
  <2>2. \A d \in Contexts :
            thread'[d] = thread[d] \/ thread'[d] \in {"callMutex", "exitMutex"}
    BY <1>2, <2>1
  <2>3. Critical' => Critical  BY <1>3, <2>2 DEF Critical, Internal, sems
  <2> QED  BY <1>3, <2>1, <2>3 DEF MutexKept
<1> QED  BY <1>4, <1>5 DEF TrapInv

LEMMA TakesMutexKeeps ==
    ASSUME TrapInv, NEW c \in Contexts, TakesMutex(c)
    PROVE  TrapInv'
<1>1. PICK from \in {"callMutex", "exitMutex"}, to \in {"call", "exit"} :
          Goes(c, from, to)
  BY DEF TakesMutex
<1>2. to \in ThreadPc /\ Running(c) /\ Running(c)'
  BY <1>1 DEF Goes, ThreadPc, Running, TrapInv, TypeOK
<1>3. /\ trap_mutex > 0 /\ trap_mutex' = trap_mutex - 1
      /\ UNCHANGED <<regs, amiga, stack, context, sems,
                     current_context, emu, emuCtx, resets>>
  BY DEF TakesMutex
<1>4. trap_mutex' = 0
  <2>1. trap_mutex \in 0 .. 1  BY DEF TrapInv, TypeOK
  <2> QED  BY <1>3, <2>1, SMT
<1>5. TypeOK' /\ TurnsKept' /\ NestingKept' /\ RegsKept'
  <2>1. trap_mutex' \in 0 .. 1  BY <1>4, SMT
  <2> QED  BY <1>1, <1>2, <1>3, <2>1, RunningGoesOn
<1> QED  BY <1>4, <1>5 DEF TrapInv, MutexKept

LEMMA CallEndsKeeps ==
    ASSUME TrapInv, NEW c \in Contexts, CallEnds(c)
    PROVE  TrapInv'
<1>1. Goes(c, "callEnd", "handler")  BY DEF CallEnds
<1>2. /\ "handler" \in ThreadPc /\ Running(c) /\ Running(c)'
      /\ thread[c] = "callEnd" /\ thread'[c] = "handler"
      /\ \A d \in Contexts \ {c} : thread'[d] = thread[d]
  BY <1>1 DEF Goes, ThreadPc, Running, TrapInv, TypeOK
<1>3. /\ trap_mutex' = trap_mutex + 1
      /\ UNCHANGED <<regs, amiga, stack, context, sems,
                     current_context, emu, emuCtx, resets>>
  BY DEF CallEnds
<1>4. trap_mutex = 0
  BY <1>2 DEF TrapInv, MutexKept, Critical
<1>5. TypeOK' /\ TurnsKept' /\ NestingKept' /\ RegsKept'
  <2>1. trap_mutex' \in 0 .. 1  BY <1>3, <1>4, SMT
  <2> QED  BY <1>1, <1>2, <1>3, <2>1, RunningGoesOn
<1>6. ~Critical'
  <2>1. ~Internal(regs'.pc) /\ UNCHANGED switch_to_trap_sem
    BY <1>2, <1>3, RunsAlone DEF Internal, sems
  <2>2. ASSUME NEW d \in Contexts
        PROVE  /\ thread'[d] \notin {"call", "callEnd", "exit"}
               /\ ~ (switch_to_trap_sem'[d] > 0)
    <3>1. d # c => ~Running(d) /\ switch_to_trap_sem[d] = 0
      BY <1>2, RunsAlone
    <3>2. switch_to_trap_sem[c] = 0  BY <1>2, RunsAlone
    <3>3. switch_to_trap_sem'[d] = 0  BY <2>1, <3>1, <3>2
    <3>4. thread'[d] \notin {"call", "callEnd", "exit"}
      BY <1>2, <3>1 DEF Running
    <3> QED  BY <3>3, <3>4, SMT
  <2> QED  BY <2>1, <2>2 DEF Critical, Internal
<1> QED  BY <1>5, <1>6 DEF TrapInv, MutexKept

\* The thread is switched to: it begins, or its 68k call is over.
LEMMA SwitchedToKeeps ==
    ASSUME TrapInv, NEW c \in Contexts, ThreadStarts(c) \/ CallReturns(c)
    PROVE  TrapInv'
<1>1. PICK to \in {"handler", "callEnd"} :
          /\ thread' = [thread EXCEPT ![c] = to]
          /\ to = "callEnd" => thread[c] = "callWait"
          /\ thread[c] \in {"start", "callWait"}
  BY DEF ThreadStarts, CallReturns, SwitchedTo, Goes
<1>2. /\ switch_to_trap_sem[c] > 0
      /\ switch_to_trap_sem' = [switch_to_trap_sem EXCEPT ![c] = @ - 1]
      /\ UNCHANGED <<regs, task, tasks, mask, stack, context, switch_to_emu_sem,
                     trap_mutex, current_context, emu, emuCtx, resets>>
  BY DEF ThreadStarts, CallReturns, SwitchedTo, amiga
<1>3. /\ thread \in [Contexts -> ThreadPc]
      /\ switch_to_trap_sem \in [Contexts -> 0 .. 1]
      /\ switch_to_emu_sem \in [Contexts -> 0 .. 1]
      /\ \A d \in Contexts : TurnKept(d)
  BY DEF TrapInv, TypeOK, TurnsKept
<1>4. /\ emu = "wait" /\ emuCtx = c
      /\ switch_to_emu_sem[c] = 0 /\ ~ (switch_to_emu_sem[c] > 0)
      /\ c \in DOMAIN context
  <2>1. TurnKept(c)  BY <1>3
  <2>2. 0 > 0 <=> FALSE  BY SMT
  <2>3. emu = "wait" /\ emuCtx = c /\ switch_to_emu_sem[c] = 0
    BY <1>2, <2>1 DEF TurnKept
  <2>4. c \in DOMAIN context  BY <1>1, <2>1 DEF TurnKept
  <2> QED  BY <2>2, <2>3, <2>4
<1>5. ~Internal(regs.pc)  BY <1>4 DEF TrapInv, TurnsKept
<1>6. /\ switch_to_trap_sem'[c] = 0 /\ ~ (switch_to_trap_sem'[c] > 0)
      /\ thread'[c] = to /\ Running(c)'
      /\ \A d \in Contexts \ {c} :
             /\ switch_to_trap_sem'[d] = switch_to_trap_sem[d]
             /\ thread'[d] = thread[d] /\ (Running(d)' <=> Running(d))
  <2>1. /\ switch_to_trap_sem'[c] = switch_to_trap_sem[c] - 1
        /\ switch_to_trap_sem[c] \in 0 .. 1
        /\ \A d \in Contexts \ {c} :
               switch_to_trap_sem'[d] = switch_to_trap_sem[d]
    BY <1>2, <1>3
  <2>2. switch_to_trap_sem'[c] = 0 /\ ~ (switch_to_trap_sem'[c] > 0)
    BY <1>2, <2>1, SMT
  <2>3. /\ thread'[c] = to
        /\ \A d \in Contexts \ {c} : thread'[d] = thread[d]
    BY <1>1, <1>3
  <2> QED  BY <2>1, <2>2, <2>3 DEF Running
<1>7. TypeOK'
  <2>1. thread' \in [Contexts -> ThreadPc]
    BY <1>1, <1>3 DEF ThreadPc
  <2>2. switch_to_trap_sem' \in [Contexts -> 0 .. 1]
    <3>1. switch_to_trap_sem'[c] \in 0 .. 1  BY <1>6, SMT
    <3> QED  BY <1>2, <1>3, <1>6, <3>1
  <2> QED  BY <1>2, <2>1, <2>2 DEF TrapInv, TypeOK
<1>8. TurnsKept'
  <2>1. ASSUME NEW d \in Contexts PROVE TurnKept(d)'
    <3>1. CASE d = c
      BY <1>2, <1>4, <1>6, <3>1 DEF TurnKept
    <3>2. CASE d # c
      BY <1>2, <1>3, <1>6, <3>2 DEF TurnKept, Internal
    <3> QED  BY <3>1, <3>2
  <2> QED  BY <1>2, <2>1 DEF TrapInv, TurnsKept, Internal
<1>9. MutexKept'
  <2>1. Critical' => Critical
    <3> SUFFICES ASSUME Critical' PROVE Critical  OBVIOUS
    <3>1. CASE Internal(regs.pc)'  BY <1>2, <1>5, <3>1 DEF Internal
    <3>2. ASSUME NEW d \in Contexts,
                 \/ thread'[d] \in {"call", "callEnd", "exit"}
                 \/ thread'[d] = "callWait" /\ switch_to_trap_sem'[d] > 0
          PROVE  Critical
      <4>1. CASE d = c  BY <1>1, <1>2, <1>6, <3>2, <4>1 DEF Critical
      <4>2. CASE d # c  BY <1>6, <3>2, <4>2 DEF Critical
      <4> QED  BY <4>1, <4>2
    <3> QED  BY <3>1, <3>2 DEF Critical
  <2> QED  BY <1>2, <2>1 DEF TrapInv, MutexKept
<1>10. NestingKept'
  <2>1. NestingKept  BY DEF TrapInv
  <2>2. ASSUME NEW t \in Tasks, NEW k \in DOMAIN stack[t]
        PROVE  /\ thread'[stack[t][k]] = "callWait"
               /\ switch_to_trap_sem'[stack[t][k]] = 0
    <3>1. /\ stack[t][k] \in Contexts /\ thread[stack[t][k]] = "callWait"
          /\ switch_to_trap_sem[stack[t][k]] = 0
      BY <2>1, Unpacked DEF NestingKept, TrapInv, ContextTypes
    <3>2. stack[t][k] # c  BY <1>2, <3>1, SMT
    <3> QED  BY <1>6, <3>1, <3>2
  <2>3. task = context[c].owner /\ A7 = context[c].a7
    BY <1>2, <2>1 DEF NestingKept
  <2>4. \A d \in Contexts :
            Running(d)' \/ switch_to_trap_sem'[d] > 0
                => task = context[d].owner /\ A7 = context[d].a7
    BY <1>6, <2>1, <2>3 DEF NestingKept
  <2>5. ~Internal(regs.pc)'  BY <1>2, <1>5 DEF Internal
  <2>6. A7' = A7  BY <1>2 DEF A7
  <2> QED  BY <1>2, <2>1, <2>2, <2>4, <2>5, <2>6 DEF NestingKept
<1>11. RegsKept'  BY <1>2 DEF TrapInv, RegsKept, Working, Internal
<1> QED  BY <1>7, <1>8, <1>9, <1>10, <1>11 DEF TrapInv

\* Cutting the stack of the task to the depth at trap entry changes nothing
\* when that is how deep it is.
LEMMA StackRestored ==
    ASSUME TrapInv, NEW c, context[c].a7 = A7
    PROVE  RestoredStack(c) = stack
<1>1. stack \in [Tasks -> Seq(Contexts)] /\ task \in Tasks
  BY DEF TrapInv, TypeOK
<1>2. SubSeq(stack[task], 1, Len(stack[task])) = stack[task]
  BY <1>1, SubSeqFull
<1> QED  BY <1>1, <1>2 DEF RestoredStack, A7

\* The thread switches back to the emulator thread, which then finds one of the
\* internal traps.
LEMMA SwitchesBack ==
    ASSUME TrapInv, NEW c \in Contexts,
           NEW pc \in {CallTrap, ExitTrap}, NEW to,
           to = IF pc = CallTrap THEN "callWait" ELSE "done",
           thread[c] \in {"call", "exit"},
           thread' = [thread EXCEPT ![c] = to],
           current_context' = c,
           regs' \in Regs, regs'.pc = pc, regs'.intmask = 7,
           switch_to_emu_sem' = [switch_to_emu_sem EXCEPT ![c] = @ + 1],
           UNCHANGED <<amiga, stack, context, switch_to_trap_sem, trap_mutex,
                       emu, emuCtx, resets>>
    PROVE  TrapInv'
<1>1. /\ Running(c) /\ thread \in [Contexts -> ThreadPc]
      /\ switch_to_emu_sem \in [Contexts -> 0 .. 1]
      /\ trap_mutex = 0
      /\ UNCHANGED <<task, tasks, mask>>
  BY DEF Running, TrapInv, TypeOK, MutexKept, Critical, amiga
<1>2. /\ emu = "wait" /\ emuCtx = c /\ c \in DOMAIN context
      /\ switch_to_trap_sem[c] = 0 /\ switch_to_emu_sem[c] = 0
      /\ task = context[c].owner /\ A7 = context[c].a7
      /\ \A d \in Contexts \ {c} :
             /\ ~Running(d) /\ thread[d] # "start"
             /\ switch_to_trap_sem[d] = 0 /\ switch_to_emu_sem[d] = 0
  BY <1>1, RunsAlone
<1>3. Internal(regs'.pc) /\ Internal(regs.pc)'  BY DEF Internal
<1>4. /\ switch_to_emu_sem'[c] = 1 /\ switch_to_emu_sem'[c] > 0
      /\ thread'[c] = to /\ to \in {"callWait", "done"} /\ ~Running(c)'
      /\ \A d \in Contexts \ {c} :
             /\ switch_to_emu_sem'[d] = 0 /\ thread'[d] = thread[d]
             /\ Running(d)' <=> Running(d)
      /\ \A d \in Contexts :
             switch_to_trap_sem'[d] = 0 /\ ~ (switch_to_trap_sem'[d] > 0)
  <2>1. /\ switch_to_emu_sem'[c] = switch_to_emu_sem[c] + 1
        /\ \A d \in Contexts \ {c} :
               switch_to_emu_sem'[d] = switch_to_emu_sem[d]
    BY <1>1
  <2>2. switch_to_emu_sem'[c] = 1 /\ switch_to_emu_sem'[c] > 0
    BY <1>2, <2>1, SMT
  <2>3. \A d \in Contexts : switch_to_trap_sem'[d] = 0  BY <1>2
  <2>4. ~ (0 > 0)  BY SMT
  <2>5. /\ thread'[c] = to /\ to \in {"callWait", "done"}
        /\ \A d \in Contexts \ {c} : thread'[d] = thread[d]
    BY <1>1
  <2> QED  BY <1>2, <2>1, <2>2, <2>3, <2>4, <2>5 DEF Running
<1>5. TypeOK'
  <2>1. thread' \in [Contexts -> ThreadPc]  BY <1>1, <1>4 DEF ThreadPc
  <2>2. switch_to_emu_sem' \in [Contexts -> 0 .. 1]
    <3>1. 1 \in 0 .. 1 /\ 0 \in 0 .. 1  BY SMT
    <3> QED  BY <1>1, <1>4, <3>1
  <2>3. c \in 0 .. MaxTraps  BY Numbers
  <2> QED  BY <1>1, <2>1, <2>2, <2>3 DEF TrapInv, TypeOK
<1>6. TurnsKept'
  <2>1. ASSUME NEW d \in Contexts PROVE TurnKept(d)'
    <3>1. TurnKept(d)  BY DEF TrapInv, TurnsKept
    <3>2. CASE d = c  BY <1>2, <1>3, <1>4, <3>2 DEF TurnKept
    <3>3. CASE d # c
      <4>1. ~ (switch_to_emu_sem'[d] > 0)  BY <1>4, <3>3, SMT
      <4> QED  BY <1>2, <1>4, <3>1, <3>3, <4>1 DEF TurnKept
    <3> QED  BY <3>2, <3>3
  <2> QED  BY <1>2, <1>4, <2>1 DEF TurnsKept
<1>7. MutexKept'  BY <1>1 DEF MutexKept
<1>8. NestingKept'
  <2>1. NestingKept  BY DEF TrapInv
  <2>2. ASSUME NEW t \in Tasks, NEW k \in DOMAIN stack[t]
        PROVE  thread'[stack[t][k]] = "callWait"
    <3>1. stack[t][k] \in Contexts /\ thread[stack[t][k]] = "callWait"
      BY <2>1, Unpacked DEF NestingKept, TrapInv, ContextTypes
    <3> QED  BY <1>4, <3>1
  <2>3. A7' = A7  BY <1>1 DEF A7
  <2>4. \A d \in Contexts : ~Running(d)' /\ ~ (switch_to_trap_sem'[d] > 0)
    BY <1>2, <1>4
  <2> QED  BY <1>1, <1>2, <1>4, <2>1, <2>2, <2>3, <2>4 DEF NestingKept
<1>9. RegsKept'  BY <1>1, <1>2, <1>3 DEF TrapInv, RegsKept, Working
<1> QED  BY <1>5, <1>6, <1>7, <1>8, <1>9 DEF TrapInv

LEMMA Call68kKeeps ==
    ASSUME TrapInv, NEW c \in Contexts, trap_Call68k(c)
    PROVE  TrapInv'
<1>1. /\ thread[c] = "call" /\ thread' = [thread EXCEPT ![c] = "callWait"]
      /\ regs' = [regs EXCEPT !.pc = CallTrap, !.intmask = 7]
  BY DEF trap_Call68k, Goes
<1>2. regs' \in Regs /\ regs'.pc = CallTrap /\ regs'.intmask = 7
  <2>1. 7 \in 0 .. 7  BY SMT
  <2> QED  BY <1>1, <2>1 DEF TrapInv, TypeOK, Regs
<1> QED  BY <1>1, <1>2, SwitchesBack DEF trap_Call68k

LEMMA ThreadExitsKeeps ==
    ASSUME TrapInv, NEW c \in Contexts, ThreadExits(c)
    PROVE  TrapInv'
<1>1. /\ thread[c] = "exit" /\ thread' = [thread EXCEPT ![c] = "done"]
      /\ regs' = [Restored(c, ExitTrap) EXCEPT !.intmask = 7]
      /\ stack' = RestoredStack(c)
  BY DEF ThreadExits, Goes
<1>2. /\ Running(c)
      /\ c \in DOMAIN context /\ A7 = context[c].a7
  <2>1. Running(c)  BY <1>1 DEF Running
  <2> QED  BY <2>1, RunsAlone
<1>3. stack' = stack  BY <1>1, <1>2, StackRestored
<1>4. regs' \in Regs /\ regs'.pc = ExitTrap /\ regs'.intmask = 7
  <2>1. context[c].saved \in Regs
    BY <1>2, Unpacked DEF TrapInv, ContextTypes
  <2>2. 7 \in 0 .. 7  BY SMT
  <2> QED  BY <1>1, <2>1, <2>2 DEF Restored, Regs
<1>5. ExitTrap # CallTrap  BY Pcs
<1> QED  BY <1>1, <1>3, <1>4, <1>5, SwitchesBack DEF ThreadExits

-----------------------------------------------------------------------------
(* The emulator thread, while the trap threads wait.                       *)

\* The trap thread the emulator waited for has switched back.
LEMMA SwitchBackKeeps == ASSUME TrapInv, SwitchBack PROVE TrapInv'
<1> DEFINE c == emuCtx
<1>1. /\ emu = "wait" /\ switch_to_emu_sem[c] > 0 /\ emu' = "run"
      /\ switch_to_emu_sem' = [switch_to_emu_sem EXCEPT ![c] = @ - 1]
      /\ UNCHANGED <<regs, task, tasks, mask, stack, context, switch_to_trap_sem,
                     thread, trap_mutex, current_context, emuCtx, resets>>
  BY DEF SwitchBack, amiga
<1>2. /\ c \in DOMAIN context /\ c \in Contexts
      /\ \A d \in Contexts : TurnKept(d)
      /\ switch_to_trap_sem \in [Contexts -> 0 .. 1]
      /\ switch_to_emu_sem \in [Contexts -> 0 .. 1]
  BY <1>1, Unpacked DEF TrapInv, TurnsKept, TypeOK, ContextTypes
<1>3. /\ Internal(regs.pc) /\ thread[c] \in {"callWait", "done"}
      /\ switch_to_emu_sem'[c] = 0
      /\ \A d \in Contexts \ {c} : switch_to_emu_sem'[d] = switch_to_emu_sem[d]
  <2>1. TurnKept(c)  BY <1>2
  <2>2. /\ switch_to_emu_sem'[c] = switch_to_emu_sem[c] - 1
        /\ switch_to_emu_sem[c] \in 0 .. 1
        /\ \A d \in Contexts \ {c} :
               switch_to_emu_sem'[d] = switch_to_emu_sem[d]
    BY <1>1, <1>2
  <2>3. switch_to_emu_sem'[c] = 0
    <3> HIDE DEF c
    <3> QED  BY <1>1, <2>2, SMT
  <2> QED  BY <1>1, <2>1, <2>2, <2>3 DEF TurnKept
<1>4. \A d \in Contexts :
          /\ ~Running(d) /\ thread[d] # "start"
          /\ ~ (switch_to_trap_sem[d] > 0) /\ ~ (switch_to_emu_sem'[d] > 0)
  <2>1. ~ (0 > 0)  BY SMT
  <2>2. ASSUME NEW d \in Contexts
        PROVE  /\ ~Running(d) /\ thread[d] # "start"
               /\ ~ (switch_to_trap_sem[d] > 0) /\ ~ (switch_to_emu_sem'[d] > 0)
    <3>1. TurnKept(d)  BY <1>2
    <3>2. CASE d = c
      <4>1. ~Running(d) /\ thread[d] # "start"
        BY <1>3, <3>2 DEF Running
      <4>2. ~ (switch_to_trap_sem[d] > 0)
        BY <1>1, <2>1, <3>1, <3>2 DEF TurnKept
      <4> QED  BY <1>3, <2>1, <3>2, <4>1, <4>2
    <3>3. CASE d # c
      BY <1>1, <1>3, <3>1, <3>3 DEF TurnKept
    <3> QED  BY <3>2, <3>3
  <2> QED  BY <2>2
<1>5. TypeOK'
  <2>1. switch_to_emu_sem' \in [Contexts -> 0 .. 1]
    <3>1. 0 \in 0 .. 1  BY SMT
    <3> QED  BY <1>1, <1>2, <1>3, <3>1
  <2> QED  BY <1>1, <2>1 DEF TrapInv, TypeOK, EmuPc
<1>6. TurnsKept'
  <2>1. \A d \in Contexts : TurnKept(d)'
    BY <1>1, <1>2, <1>4 DEF TurnKept, Running
  <2> QED  BY <1>1, <2>1 DEF TurnsKept
<1>7. MutexKept'
  BY <1>1 DEF TrapInv, MutexKept, Critical, Internal
<1>8. NestingKept'
  BY <1>1, <1>4 DEF TrapInv, NestingKept, Internal, Running, A7
<1>9. RegsKept'  BY <1>1, <1>3 DEF TrapInv, RegsKept, Working, Internal
<1> QED  BY <1>5, <1>6, <1>7, <1>8, <1>9 DEF TrapInv

\* Between two steps of 68k code there is nobody else's turn, and only the
\* internal traps are a critical section.
LEMMA StaysQuiet ==
    ASSUME TrapInv, emu # "wait", emu' # "wait", UNCHANGED sems,
           DOMAIN context' = DOMAIN context,
           \A d \in Contexts : \/ thread'[d] = thread[d]
                               \/ thread[d] = "done" /\ thread'[d] = "freed",
           emu' = "mutex" => regs'.pc = ReturnTrap,
           emu' = "join" => regs'.pc = ExitTrap
    PROVE  /\ TurnsKept'
           /\ Critical' <=> Internal(regs'.pc)
           /\ \A d \in Contexts :
                  /\ ~Running(d)'
                  /\ switch_to_trap_sem'[d] = 0
                  /\ ~ (switch_to_trap_sem'[d] > 0)
<1>1. /\ switch_to_trap_sem' = switch_to_trap_sem
      /\ switch_to_emu_sem' = switch_to_emu_sem
  BY DEF sems
<1>2. \A d \in Contexts :
          /\ ~Running(d) /\ thread[d] # "start"
          /\ switch_to_trap_sem[d] = 0 /\ switch_to_emu_sem[d] = 0
  BY NobodyRuns
<1>3. \A d \in Contexts :
          /\ ~Running(d)' /\ thread'[d] # "start"
          /\ switch_to_trap_sem'[d] = 0 /\ ~ (switch_to_trap_sem'[d] > 0)
          /\ ~ (switch_to_emu_sem'[d] > 0)
          /\ thread'[d] \notin {"call", "callEnd", "exit"}
  <2>1. ~ (0 > 0)  BY SMT
  <2>2. \A d \in Contexts :
            /\ ~Running(d)' /\ thread'[d] # "start"
            /\ thread'[d] \notin {"call", "callEnd", "exit"}
    BY <1>2 DEF Running
  <2> QED  BY <1>1, <1>2, <2>1, <2>2
<1>4. TurnsKept'
  <2>1. ASSUME NEW d \in Contexts PROVE TurnKept(d)'
    <3>1. TurnKept(d)  BY DEF TrapInv, TurnsKept
    <3>2. thread'[d] = "none" <=> thread[d] = "none"  OBVIOUS
    <3> QED  BY <1>3, <3>1, <3>2 DEF TurnKept
  <2> QED  BY <2>1 DEF TurnsKept
<1>5. Critical' <=> Internal(regs'.pc)
  BY <1>3 DEF Critical, Internal
<1> QED  BY <1>3, <1>4, <1>5

\* What waits on the stacks is as before.
LEMMA StacksStay ==
    ASSUME TrapInv, UNCHANGED <<stack, context>>,
           \A d \in Contexts : /\ ~Running(d)'
                               /\ switch_to_trap_sem'[d] = 0
                               /\ ~ (switch_to_trap_sem'[d] > 0),
           \A d \in Contexts : \/ thread'[d] = thread[d]
                               \/ thread[d] = "done" /\ thread'[d] = "freed",
           \/ ~Internal(regs'.pc)
           \/ UNCHANGED <<regs, task, current_context, thread>>
    PROVE  NestingKept'
<1>1. NestingKept  BY DEF TrapInv
<1>2. ASSUME NEW t \in Tasks, NEW k \in DOMAIN stack[t]
      PROVE  /\ thread'[stack[t][k]] = "callWait"
             /\ switch_to_trap_sem'[stack[t][k]] = 0
  <2>1. stack[t][k] \in Contexts /\ thread[stack[t][k]] = "callWait"
    BY <1>1, Unpacked DEF NestingKept, TrapInv, ContextTypes
  <2> QED  BY <2>1
<1>3. ASSUME Internal(regs'.pc)
      PROVE  /\ UNCHANGED <<regs, task, current_context, thread>>
             /\ A7' = A7
  BY <1>3 DEF A7
<1> QED  BY <1>1, <1>2, <1>3 DEF NestingKept

\* The Amiga goes on with another task: neither runs an internal trap.
LEMMA SwitchTaskKeeps ==
    ASSUME TrapInv, NEW t \in Tasks, SwitchTask(t)
    PROVE  TrapInv'
<1>1. /\ emu = "run" /\ t # task /\ (regs.intmask < 7 \/ regs.pc = Code)
      /\ tasks' = [tasks EXCEPT ![task] = regs]
      /\ regs' = tasks[t] /\ task' = t
      /\ UNCHANGED <<stack, context, sems, thread, trap_mutex,
                     current_context, emu, emuCtx, mask, resets>>
  BY DEF SwitchTask
<1>2. /\ regs \in Regs /\ task \in Tasks /\ tasks \in [Tasks -> Regs]
      /\ regs.intmask \in 0 .. 7
  BY Unpacked DEF TrapInv, TypeOK, RegTypes
<1>3. TypeOK'
  <2>1. tasks' \in [Tasks -> Regs] /\ regs' \in Regs  BY <1>1, <1>2
  <2> QED  BY <1>1, <2>1 DEF TrapInv, TypeOK, sems
<1>4. ~Internal(regs.pc) /\ Working(regs, task)
  <2>1. Internal(regs.pc) => ~ (regs.intmask < 7)
    <3>1. Internal(regs.pc) => regs.intmask = 7  BY DEF TrapInv, RegsKept
    <3>2. ~ (7 < 7)  BY SMT
    <3> QED  BY <3>1, <3>2
  <2>2. ~Internal(regs.pc)  BY <1>1, <2>1, Pcs
  <2> QED  BY <1>1, <2>2 DEF TrapInv, RegsKept
<1>5. Working(tasks[t], t) /\ ~Internal(regs'.pc)
  <2>1. Working(tasks[t], t)  BY <1>1 DEF TrapInv, RegsKept
  <2> QED  BY <1>1, <2>1, Pcs DEF Working
<1>6. /\ TurnsKept' /\ (Critical' <=> Internal(regs'.pc))
      /\ \A d \in Contexts : /\ ~Running(d)'
                             /\ switch_to_trap_sem'[d] = 0
                             /\ ~ (switch_to_trap_sem'[d] > 0)
  BY <1>1, StaysQuiet
<1>7. MutexKept'  BY <1>5, <1>6 DEF MutexKept
<1>8. NestingKept'  BY <1>1, <1>5, <1>6, StacksStay
<1>9. RegsKept'
  <2>1. ASSUME NEW u \in Tasks \ {t} PROVE Working(tasks[u], u)'
    <3>1. CASE u = task
      BY <1>1, <1>2, <1>4, <3>1 DEF Working
    <3>2. CASE u # task
      BY <1>1, <1>2, <3>2 DEF TrapInv, RegsKept, Working
    <3> QED  BY <3>1, <3>2
  <2>2. Working(regs, t)'  BY <1>1, <1>5 DEF Working
  <2>3. ~Internal(regs.pc)'  BY <1>5 DEF Internal
  <2>4. Working(regs, task)'  BY <1>1, <2>2 DEF Working
  <2>5. \A u \in Tasks \ {task'} : Working(tasks[u], u)'
    BY <1>1, <2>1
  <2> QED  BY <1>1, <2>3, <2>4, <2>5 DEF TrapInv, RegsKept
<1> QED  BY <1>3, <1>6, <1>7, <1>8, <1>9 DEF TrapInv

\* A called function returns to the trap behind the context on the stack.
LEMMA RtsKeeps == ASSUME TrapInv, Rts PROVE TrapInv'
<1>1. /\ emu = "run" /\ regs.pc = Code /\ stack[task] # << >>
      /\ regs' = [regs EXCEPT !.pc = ReturnTrap, !.d0 = Last(stack[task])]
      /\ UNCHANGED <<task, tasks, mask, stack, context, sems, thread, trap_mutex,
                     current_context, emu, emuCtx, resets>>
  BY DEF Rts, AtPc, amiga
<1>2. Last(stack[task]) \in Contexts
  <2>1. stack[task] \in Seq(Contexts)  BY DEF TrapInv, TypeOK
  <2>2. /\ Len(stack[task]) \in Nat \ {0}
        /\ DOMAIN stack[task] = 1 .. Len(stack[task])
    BY <1>1, <2>1, EmptySeq, LenProperties
  <2>3. Len(stack[task]) \in DOMAIN stack[task]  BY <2>2, SMT
  <2> QED  BY <2>1, <2>3, LenProperties DEF Last
<1>3. /\ regs' \in Regs /\ regs'.pc = ReturnTrap
      /\ regs'.d0 = Last(stack[task])
  <2>1. Last(stack[task]) \in 0 .. MaxTraps  BY <1>2, Numbers
  <2> QED  BY <1>1, <2>1 DEF TrapInv, TypeOK, Regs
<1>4. TypeOK'  BY <1>1, <1>3 DEF TrapInv, TypeOK, sems
<1>5. ~Internal(regs'.pc) /\ ~Internal(regs.pc)'
  BY <1>3, Pcs DEF Internal
<1>6. /\ TurnsKept' /\ (Critical' <=> Internal(regs'.pc))
      /\ \A d \in Contexts : /\ ~Running(d)'
                             /\ switch_to_trap_sem'[d] = 0
                             /\ ~ (switch_to_trap_sem'[d] > 0)
  BY <1>1, StaysQuiet
<1>7. MutexKept'  BY <1>5, <1>6 DEF MutexKept
<1>8. NestingKept'  BY <1>1, <1>5, <1>6, StacksStay
<1>9. RegsKept'
  BY <1>1, <1>3, <1>5 DEF TrapInv, RegsKept, Working
<1> QED  BY <1>4, <1>6, <1>7, <1>8, <1>9 DEF TrapInv

\* m68k_return_handler and exit_trap_handler begin.
LEMMA TrapEntersKeeps ==
    ASSUME TrapInv, ReturnEnters \/ ExitEnters
    PROVE  TrapInv'
<1>1. /\ emu = "run"
      /\ \/ emu' = "mutex" /\ regs.pc = ReturnTrap
         \/ emu' = "join" /\ regs.pc = ExitTrap
      /\ UNCHANGED <<regs, task, tasks, mask, stack, context, sems, thread,
                     trap_mutex, current_context, emuCtx, resets>>
  BY DEF ReturnEnters, ExitEnters, AtPc, amiga
<1>2. TypeOK'  BY <1>1 DEF TrapInv, TypeOK, EmuPc, sems
<1>3. /\ TurnsKept' /\ (Critical' <=> Internal(regs'.pc))
      /\ \A d \in Contexts : /\ ~Running(d)'
                             /\ switch_to_trap_sem'[d] = 0
                             /\ ~ (switch_to_trap_sem'[d] > 0)
  BY <1>1, StaysQuiet
<1>4. MutexKept'
  BY <1>1, <1>3 DEF TrapInv, MutexKept, Critical
<1>5. NestingKept'  BY <1>1, <1>3, StacksStay
<1>6. RegsKept'
  BY <1>1, Pcs DEF TrapInv, RegsKept, Working, Internal
<1> QED  BY <1>2, <1>3, <1>4, <1>5, <1>6 DEF TrapInv

\* The trap that calls a function pushes the context and ends the critical
\* section.
LEMMA CallHandlerKeeps == ASSUME TrapInv, m68k_call_handler PROVE TrapInv'
<1> DEFINE c == current_context
           S == stack[task]
<1>1. /\ emu = "run" /\ regs.pc = CallTrap
      /\ stack' = [stack EXCEPT ![task] = Append(@, c)]
      /\ regs' = [regs EXCEPT !.pc = Code,
                              !.intmask = context[c].saved.intmask]
      /\ trap_mutex' = trap_mutex + 1
      /\ UNCHANGED <<task, tasks, mask, context, sems, thread, current_context,
                     emu, emuCtx, resets>>
  BY DEF m68k_call_handler, AtPc, amiga
<1>2. /\ Internal(regs.pc) /\ trap_mutex = 0
      /\ c \in DOMAIN context /\ c \in Contexts /\ thread[c] = "callWait"
      /\ context[c].owner = task /\ context[c].a7 = A7
  <2>1. Internal(regs.pc)  BY <1>1, Pcs
  <2>2. trap_mutex = 0  BY <2>1 DEF TrapInv, MutexKept, Critical
  <2>3. /\ c \in DOMAIN context /\ thread[c] = "callWait"
        /\ context[c].owner = task /\ context[c].a7 = A7
    BY <1>1, <2>1 DEF TrapInv, NestingKept
  <2> QED  BY <2>1, <2>2, <2>3, Unpacked DEF TrapInv, ContextTypes
<1>3. /\ task \in Tasks /\ stack \in [Tasks -> Seq(Contexts)]
      /\ S \in Seq(Contexts) /\ Len(S) \in Nat /\ DOMAIN S = 1 .. Len(S)
      /\ Len(S) = A7
  BY Unpacked DEF TrapInv, TypeOK, StackTypes
<1>4. /\ stack'[task] = Append(S, c) /\ Append(S, c) \in Seq(Contexts)
      /\ Len(Append(S, c)) = Len(S) + 1
      /\ DOMAIN Append(S, c) = 1 .. Len(S) + 1
      /\ \A k \in 1 .. Len(S) : Append(S, c)[k] = S[k]
      /\ Append(S, c)[Len(S) + 1] = c
      /\ \A t \in Tasks \ {task} : stack'[t] = stack[t]
  BY <1>1, <1>2, <1>3, AppendProperties, LenProperties
<1>5. /\ regs' \in Regs /\ regs'.pc = Code
      /\ regs'.intmask = mask[task]
  <2>1. /\ context[c].saved \in Regs
        /\ context[c].saved.intmask = mask[task]
    BY <1>2, Unpacked DEF TrapInv, RegsKept, ContextTypes
  <2> QED  BY <1>1, <2>1 DEF TrapInv, TypeOK, Regs
<1>6. TypeOK'
  <2>1. trap_mutex' \in 0 .. 1  BY <1>1, <1>2, SMT
  <2>2. stack' \in [Tasks -> Seq(Contexts)]  BY <1>1, <1>3, <1>4
  <2> QED  BY <1>1, <1>5, <2>1, <2>2 DEF TrapInv, TypeOK, sems
<1>7. ~Internal(regs'.pc) /\ ~Internal(regs.pc)'
  BY <1>5, Pcs DEF Internal
<1>8. /\ TurnsKept' /\ (Critical' <=> Internal(regs'.pc))
      /\ \A d \in Contexts : /\ ~Running(d)'
                             /\ switch_to_trap_sem'[d] = 0
                             /\ ~ (switch_to_trap_sem'[d] > 0)
  BY <1>1, StaysQuiet
<1>9. MutexKept'  BY <1>7, <1>8 DEF MutexKept
<1>10. NestingKept'
  <2>1. ASSUME NEW t \in Tasks, NEW k \in DOMAIN stack'[t]
        PROVE  /\ stack'[t][k] \in DOMAIN context
               /\ thread[stack'[t][k]] = "callWait"
               /\ switch_to_trap_sem'[stack'[t][k]] = 0
               /\ context[stack'[t][k]].owner = t
               /\ context[stack'[t][k]].a7 = k - 1
    <3>1. CASE t = task /\ k = Len(S) + 1
      <4>1. k - 1 = Len(S)
        <5> HIDE DEF S
        <5> QED  BY <1>3, <3>1, SMT
      <4> QED  BY <1>2, <1>3, <1>4, <1>8, <3>1, <4>1
    <3>2. CASE ~ (t = task /\ k = Len(S) + 1)
      <4>1. k \in DOMAIN stack[t] /\ stack'[t][k] = stack[t][k]
        <5>1. CASE t = task
          <6>1. k \in 1 .. Len(S) + 1 /\ k # Len(S) + 1
            BY <1>4, <2>1, <3>2, <5>1
          <6>2. k \in 1 .. Len(S)
            <7> HIDE DEF S
            <7> QED  BY <1>3, <6>1, SMT
          <6> QED  BY <1>3, <1>4, <5>1, <6>2
        <5>2. CASE t # task  BY <1>4, <2>1, <5>2
        <5> QED  BY <5>1, <5>2
      <4>2. stack[t][k] \in DOMAIN context /\ stack[t][k] \in Contexts
        BY <4>1, Unpacked DEF TrapInv, NestingKept, ContextTypes
      <4> QED  BY <1>8, <4>1, <4>2 DEF TrapInv, NestingKept
    <3> QED  BY <3>1, <3>2
  <2> QED  BY <1>1, <1>7, <1>8, <2>1 DEF NestingKept
<1>11. RegsKept'
  <2>1. \A t \in Tasks \ {task} : Working(tasks[t], t)'
    BY <1>1, <1>4 DEF TrapInv, RegsKept, Working
  <2>2. Working(regs, task)'  BY <1>1, <1>5 DEF Working
  <2> QED  BY <1>1, <1>7, <2>1, <2>2 DEF TrapInv, RegsKept
<1> QED  BY <1>6, <1>8, <1>9, <1>10, <1>11 DEF TrapInv

\* The trap that ends a trap finds its thread done and restores the registers.
LEMMA ExitHandlerKeeps == ASSUME TrapInv, exit_trap_handler PROVE TrapInv'
<1> DEFINE c == current_context
           r == Restored(c, context[c].saved.pc)
<1>1. /\ emu = "join" /\ emu' = "run" /\ thread[c] = "done"
      /\ regs' = IF context[c].has_retval THEN [r EXCEPT !.d0 = c] ELSE r
      /\ stack' = RestoredStack(c)
      /\ thread' = [thread EXCEPT ![c] = "freed"]
      /\ trap_mutex' = trap_mutex + 1
      /\ UNCHANGED <<task, tasks, mask, context, sems, current_context, emuCtx,
                     resets>>
  BY DEF exit_trap_handler, amiga
<1>2. /\ Internal(regs.pc) /\ trap_mutex = 0
      /\ c \in DOMAIN context /\ c \in Contexts
      /\ context[c].owner = task /\ context[c].a7 = A7
  <2>1. Internal(regs.pc)  BY <1>1, Pcs DEF TrapInv, TurnsKept
  <2>2. trap_mutex = 0  BY <2>1 DEF TrapInv, MutexKept, Critical
  <2>3. /\ c \in DOMAIN context
        /\ context[c].owner = task /\ context[c].a7 = A7
    BY <2>1 DEF TrapInv, NestingKept
  <2> QED  BY <2>1, <2>2, <2>3, Unpacked DEF TrapInv, ContextTypes
<1>3. stack' = stack  BY <1>1, <1>2, StackRestored
<1>4. /\ regs' \in Regs /\ regs'.pc = Code /\ regs'.intmask = mask[task]
  <2>1. /\ context[c].saved \in Regs /\ context[c].saved.pc = Code
        /\ context[c].saved.intmask = mask[task]
    BY <1>2, Unpacked DEF TrapInv, RegsKept, ContextTypes
  <2>2. r = context[c].saved  BY <2>1 DEF Restored, Regs
  <2>3. c \in 0 .. MaxTraps  BY <1>2, Numbers
  <2> HIDE DEF r
  <2> QED  BY <1>1, <2>1, <2>2, <2>3 DEF Regs
<1>5. /\ thread \in [Contexts -> ThreadPc]
      /\ \A d \in Contexts : \/ thread'[d] = thread[d]
                             \/ thread[d] = "done" /\ thread'[d] = "freed"
  BY <1>1 DEF TrapInv, TypeOK
<1>6. TypeOK'
  <2>1. trap_mutex' \in 0 .. 1  BY <1>1, <1>2, SMT
  <2>2. thread' \in [Contexts -> ThreadPc]  BY <1>1, <1>5 DEF ThreadPc
  <2> QED  BY <1>1, <1>3, <1>4, <2>1, <2>2 DEF TrapInv, TypeOK, sems, EmuPc
<1>7. ~Internal(regs'.pc) /\ ~Internal(regs.pc)'
  BY <1>4, Pcs DEF Internal
<1>8. /\ TurnsKept' /\ (Critical' <=> Internal(regs'.pc))
      /\ \A d \in Contexts : /\ ~Running(d)'
                             /\ switch_to_trap_sem'[d] = 0
                             /\ ~ (switch_to_trap_sem'[d] > 0)
  BY <1>1, <1>5, StaysQuiet
<1>9. MutexKept'  BY <1>7, <1>8 DEF MutexKept
<1>10. NestingKept'  BY <1>1, <1>3, <1>5, <1>7, <1>8, StacksStay
<1>11. RegsKept'
  <2>1. \A t \in Tasks \ {task} : Working(tasks[t], t)'
    BY <1>1, <1>3 DEF TrapInv, RegsKept, Working
  <2>2. Working(regs, task)'  BY <1>1, <1>4 DEF Working
  <2> QED  BY <1>1, <1>7, <2>1, <2>2 DEF TrapInv, RegsKept
<1> QED  BY <1>6, <1>8, <1>9, <1>10, <1>11 DEF TrapInv

\* A reset leaves the contexts and the mutex as they are.
LEMMA ResetKeeps == ASSUME TrapInv, Reset PROVE TrapInv'
<1>1. /\ emu = "run" /\ resets < MaxResets /\ resets' = resets + 1
      /\ regs' = Fresh(task)
      /\ tasks' = [t \in Tasks |-> Fresh(t)]
      /\ stack' = [t \in Tasks |-> << >>]
      /\ UNCHANGED <<task, mask, context, sems, thread, trap_mutex,
                     current_context, emu, emuCtx>>
  BY DEF Reset
<1>2. /\ task \in Tasks /\ mask \in [Tasks -> Masks]
      /\ \A t \in Tasks : Fresh(t) \in Regs
      /\ Fresh(task).pc = Code /\ Fresh(task).intmask = mask[task]
      /\ \A t \in Tasks : Fresh(t).pc = Code /\ Fresh(t).intmask = mask[t]
  BY FreshIs DEF TrapInv, TypeOK, Fresh
<1>3. << >> \in Seq(Contexts) /\ DOMAIN << >> = {}  BY EmptySeq
<1>4. TypeOK'
  <2>1. resets' \in 0 .. MaxResets
    BY <1>1, TrapsAssumption, SMT DEF TrapInv, TypeOK
  <2>2. /\ stack' \in [Tasks -> Seq(Contexts)] /\ tasks' \in [Tasks -> Regs]
        /\ regs' \in Regs
    BY <1>1, <1>2, <1>3
  <2> QED  BY <1>1, <2>1, <2>2 DEF TrapInv, TypeOK, sems
<1>5. ~Internal(regs'.pc) /\ ~Internal(regs.pc)'
  BY <1>1, <1>2, Pcs DEF Internal
<1>6. /\ TurnsKept' /\ (Critical' <=> Internal(regs'.pc))
      /\ \A d \in Contexts : /\ ~Running(d)'
                             /\ switch_to_trap_sem'[d] = 0
                             /\ ~ (switch_to_trap_sem'[d] > 0)
  BY <1>1, StaysQuiet
<1>7. MutexKept'  BY <1>5, <1>6 DEF MutexKept
<1>8. NestingKept'
  <2>1. \A t \in Tasks : DOMAIN stack'[t] = {}  BY <1>1, <1>3
  <2> QED  BY <1>5, <1>6, <2>1 DEF NestingKept
<1>9. RegsKept'
  <2>1. \A t \in Tasks \ {task} : Working(tasks[t], t)'
    BY <1>1, <1>2 DEF Working
  <2>2. Working(regs, task)'  BY <1>1, <1>2 DEF Working
  <2> QED  BY <1>1, <1>5, <2>1, <2>2 DEF TrapInv, RegsKept
<1> QED  BY <1>4, <1>6, <1>7, <1>8, <1>9 DEF TrapInv

\* The trap that ends a 68k call takes the context off the stack and hands the
\* turn to its thread.
LEMMA ReturnHandlerKeeps == ASSUME TrapInv, m68k_return_handler PROVE TrapInv'
<1> DEFINE S == stack[task]
           c == Last(S)
           n == Len(S)
<1>1. /\ emu = "mutex" /\ trap_mutex > 0 /\ trap_mutex' = trap_mutex - 1
      /\ stack' = [stack EXCEPT ![task] = Front(@)]
      /\ context' = [context EXCEPT ![c].call68k_retval = regs.d0]
      /\ switch_to_trap_sem' = [switch_to_trap_sem EXCEPT ![c] = @ + 1]
      /\ emu' = "wait" /\ emuCtx' = c
      /\ UNCHANGED <<regs, task, tasks, mask, switch_to_emu_sem, thread,
                     current_context, resets>>
  BY DEF m68k_return_handler, ReturnTo, amiga
<1>2. /\ regs.pc = ReturnTrap /\ ~Internal(regs.pc)
      /\ S # << >> /\ regs.d0 = c
  <2>1. regs.pc = ReturnTrap  BY <1>1 DEF TrapInv, TurnsKept
  <2>2. Working(regs, task)  BY <1>1, <2>1, Pcs DEF TrapInv, RegsKept
  <2> QED  BY <2>1, <2>2, Pcs DEF Working
<1>3. /\ task \in Tasks /\ stack \in [Tasks -> Seq(Contexts)]
      /\ S \in Seq(Contexts) /\ n \in Nat /\ DOMAIN S = 1 .. n
  BY Unpacked DEF TrapInv, TypeOK, StackTypes
<1>4. n > 0 /\ n \in DOMAIN S /\ c = S[n]
  <2>1. n # 0  BY <1>2, <1>3, EmptySeq
  <2>2. c = S[n]  BY DEF Last
  <2> HIDE DEF S, c, n
  <2> QED  BY <1>3, <2>1, <2>2, SMT
<1>5. /\ c \in DOMAIN context /\ c \in Contexts
      /\ thread[c] = "callWait" /\ context[c].owner = task
      /\ context[c].a7 = n - 1
  <2>1. /\ S[n] \in DOMAIN context
        /\ thread[S[n]] = "callWait" /\ context[S[n]].owner = task
        /\ context[S[n]].a7 = n - 1
    BY <1>3, <1>4 DEF TrapInv, NestingKept
  <2> QED  BY <1>4, <2>1, Unpacked DEF TrapInv, ContextTypes
\* The stack without its last element.
<1>6. /\ stack'[task] \in Seq(Contexts) /\ Len(stack'[task]) = n - 1
      /\ DOMAIN stack'[task] = 1 .. n - 1
      /\ \A k \in 1 .. n - 1 : stack'[task][k] = S[k]
      /\ \A t \in Tasks \ {task} : stack'[t] = stack[t]
  <2>1. stack'[task] = SubSeq(S, 1, n - 1)
        /\ \A t \in Tasks \ {task} : stack'[t] = stack[t]
    BY <1>1, <1>3 DEF Front
  <2>2. /\ n - 1 \in Int /\ 1 \in Int /\ n - 1 \in Nat
        /\ \A k \in 1 .. n - 1 : k \in 1 .. n
        /\ (IF 1 <= n - 1 THEN n - 1 - 1 + 1 ELSE 0) = n - 1
        /\ n - 1 - 1 + 1 = n - 1
        /\ \A k \in 1 .. n - 1 : 1 + k - 1 = k
    <3> HIDE DEF S, c, n
    <3> QED  BY <1>3, <1>4, SMT
  <2>3. \A k \in 1 .. n - 1 : S[k] \in Contexts
    BY <1>3, <2>2, ElementOfSeq
  <2>4. /\ SubSeq(S, 1, n - 1) \in Seq(Contexts)
        /\ Len(SubSeq(S, 1, n - 1)) = n - 1
        /\ \A k \in 1 .. n - 1 : SubSeq(S, 1, n - 1)[k] = S[k]
    BY <2>2, <2>3, SubSeqProperties
  <2>5. DOMAIN SubSeq(S, 1, n - 1) = 1 .. n - 1
    BY <2>4, LenProperties
  <2> QED  BY <2>1, <2>4, <2>5
<1>7. /\ DOMAIN context' = DOMAIN context /\ Len(context') = Len(context)
      /\ context' \in Seq(Context)
      /\ \A d \in DOMAIN context :
             /\ context'[d].saved = context[d].saved
             /\ context'[d].a7 = context[d].a7
             /\ context'[d].owner = context[d].owner
      /\ \A d \in DOMAIN context \ {c} : context'[d] = context[d]
      /\ context'[c].call68k_retval = c
  <2>1. context \in Seq(Context)  BY DEF TrapInv, TypeOK
  <2>2. context[c] \in Context  BY <1>5, <2>1, ElementOfSeq, LenProperties
  <2>3. DEFINE x == [context[c] EXCEPT !.call68k_retval = regs.d0]
  <2>4. regs.d0 \in 0 .. MaxTraps  BY Unpacked DEF TrapInv, RegTypes
  <2>5. /\ x \in Context /\ x.saved = context[c].saved
        /\ x.a7 = context[c].a7 /\ x.owner = context[c].owner
        /\ x.call68k_retval = c
    BY <1>2, <2>2, <2>4 DEF Context
  <2>6. context' = [context EXCEPT ![c] = x]  BY <1>1
  <2> HIDE DEF x
  <2>7. c \in 1 .. Len(context)  BY <1>5, <2>1, LenProperties
  <2>8. /\ context' \in Seq(Context) /\ Len(context') = Len(context)
        /\ \A i \in 1 .. Len(context) :
               context'[i] = IF i = c THEN x ELSE context[i]
    BY <2>1, <2>5, <2>6, <2>7, ExceptSeq
  <2> QED  BY <2>1, <2>5, <2>7, <2>8, LenProperties
\* The turn, which was nobody's.
<1>8. \A d \in Contexts :
          /\ ~Running(d) /\ thread[d] # "start"
          /\ switch_to_trap_sem[d] = 0 /\ switch_to_emu_sem[d] = 0
  BY <1>1, NobodyRuns
<1>9. /\ switch_to_trap_sem' \in [Contexts -> 0 .. 1]
      /\ switch_to_trap_sem'[c] = 1
      /\ \A d \in Contexts \ {c} : /\ switch_to_trap_sem'[d] = 0
                                   /\ ~ (switch_to_trap_sem'[d] > 0)
      /\ \A d \in Contexts : ~ (switch_to_emu_sem'[d] > 0)
      /\ \A d \in Contexts : ~Running(d)'
  <2>1. /\ ~ (0 > 0) /\ 0 + 1 = 1 /\ 1 \in 0 .. 1  BY SMT
  <2>2. switch_to_trap_sem \in [Contexts -> 0 .. 1]  BY DEF TrapInv, TypeOK
  <2>3. /\ switch_to_trap_sem'[c] = 1
        /\ \A d \in Contexts \ {c} : switch_to_trap_sem'[d] = 0
    BY <1>1, <1>5, <1>8, <2>1, <2>2
  <2>4. \A d \in Contexts : ~Running(d)'  BY <1>1, <1>8 DEF Running
  <2> HIDE DEF c
  <2>5. switch_to_trap_sem' = [switch_to_trap_sem EXCEPT ![c] = @ + 1]
    BY <1>1 DEF c
  <2>6. switch_to_trap_sem' \in [Contexts -> 0 .. 1]
    BY <1>5, <1>8, <2>1, <2>2, <2>5
  <2> QED  BY <1>1, <1>8, <2>1, <2>3, <2>4, <2>6
<1>10. TypeOK'
  <2>1. trap_mutex \in 0 .. 1 /\ Len(context) <= MaxTraps
    BY DEF TrapInv, TypeOK
  <2>2. trap_mutex' \in 0 .. 1  BY <1>1, <2>1, SMT
  <2>3. stack' \in [Tasks -> Seq(Contexts)]  BY <1>1, <1>3, <1>6
  <2>4. emuCtx' \in 0 .. MaxTraps /\ emu' \in EmuPc
    BY <1>1, <1>5, Numbers DEF EmuPc
  <2> QED  BY <1>1, <1>7, <1>9, <2>1, <2>2, <2>3, <2>4 DEF TrapInv, TypeOK
<1>11. TurnsKept'
  <2>1. ASSUME NEW d \in Contexts PROVE TurnKept(d)'
    <3>1. TurnKept(d)  BY DEF TrapInv, TurnsKept
    <3>2. /\ thread'[d] = "none" <=> d \notin DOMAIN context'
          /\ thread'[d] # "start"
      BY <1>1, <1>7, <1>8, <3>1 DEF TurnKept
    <3>3. switch_to_trap_sem'[d] > 0 => d = c  BY <1>9
    <3>4. switch_to_emu_sem'[c] = 0  BY <1>1, <1>5, <1>8
    <3> HIDE DEF c
    <3> QED  BY <1>1, <1>5, <1>9, <3>2, <3>3, <3>4 DEF TurnKept, c
  <2>2. emuCtx' \in DOMAIN context'  BY <1>1, <1>5, <1>7
  <2> QED  BY <1>1, <1>2, <2>1, <2>2 DEF TurnsKept, Internal
<1>12. MutexKept'
  <2>1. trap_mutex \in 0 .. 1  BY DEF TrapInv, TypeOK
  <2>2. trap_mutex' = 0  BY <1>1, <2>1, SMT
  <2> QED  BY <2>2 DEF MutexKept
\* Nobody else on a stack is the context that was taken off it.
<1>13. ASSUME NEW t \in Tasks, NEW k \in DOMAIN stack'[t]
       PROVE  /\ k \in DOMAIN stack[t] /\ stack'[t][k] = stack[t][k]
              /\ stack[t][k] # c
  <2>1. CASE t = task
    <3>1. k \in 1 .. n - 1  BY <1>6, <1>13, <2>1
    <3>2. k \in 1 .. n /\ k - 1 # n - 1
      <4> HIDE DEF S, c, n
      <4> QED  BY <1>3, <1>4, <3>1, SMT
    <3>3. k \in DOMAIN stack[t] /\ stack'[t][k] = stack[t][k]
      BY <1>3, <1>6, <2>1, <3>1, <3>2
    <3>4. context[stack[t][k]].a7 = k - 1
      BY <3>3 DEF TrapInv, NestingKept
    <3> QED  BY <1>5, <3>2, <3>3, <3>4
  <2>2. CASE t # task
    <3>1. k \in DOMAIN stack[t] /\ stack'[t][k] = stack[t][k]
      BY <1>6, <1>13, <2>2
    <3>2. context[stack[t][k]].owner = t
      BY <3>1 DEF TrapInv, NestingKept
    <3> QED  BY <1>5, <2>2, <3>1, <3>2
  <2> QED  BY <2>1, <2>2
<1>14. NestingKept'
  <2>1. ASSUME NEW t \in Tasks, NEW k \in DOMAIN stack'[t]
        PROVE  /\ stack'[t][k] \in DOMAIN context'
               /\ thread'[stack'[t][k]] = "callWait"
               /\ switch_to_trap_sem'[stack'[t][k]] = 0
               /\ context'[stack'[t][k]].owner = t
               /\ context'[stack'[t][k]].a7 = k - 1
    <3>1. /\ k \in DOMAIN stack[t] /\ stack'[t][k] = stack[t][k]
          /\ stack[t][k] # c
      BY <1>13
    <3>2. /\ stack[t][k] \in DOMAIN context
          /\ thread[stack[t][k]] = "callWait"
          /\ context[stack[t][k]].owner = t
          /\ context[stack[t][k]].a7 = k - 1
      BY <3>1 DEF TrapInv, NestingKept
    <3>3. stack[t][k] \in Contexts
      BY <3>2, Unpacked DEF TrapInv, ContextTypes
    <3> QED  BY <1>1, <1>7, <1>9, <3>1, <3>2, <3>3
  <2>2. ASSUME NEW d \in Contexts,
               Running(d)' \/ switch_to_trap_sem'[d] > 0
        PROVE  task' = context'[d].owner /\ A7' = context'[d].a7
    <3>1. d = c  BY <1>9, <2>2
    <3> QED  BY <1>1, <1>5, <1>6, <1>7, <3>1 DEF A7
  <2> QED  BY <1>1, <1>2, <2>1, <2>2 DEF NestingKept
<1>15. RegsKept'
  <2>1. \A t \in Tasks \ {task} : Working(tasks[t], t)'
    BY <1>1, <1>6 DEF TrapInv, RegsKept, Working
  <2>2. \A d \in DOMAIN context' :
            /\ context'[d].saved.pc = Code
            /\ context'[d].saved.intmask = mask'[context'[d].owner]
            /\ context'[d].call68k_retval \in {None, d}
    BY <1>1, <1>7 DEF TrapInv, RegsKept
  <2> QED  BY <1>1, <1>2, <2>1, <2>2 DEF RegsKept
<1> QED  BY <1>10, <1>11, <1>12, <1>14, <1>15 DEF TrapInv

\* A trap is invoked: a new context, whose thread gets the turn.
LEMMA HandleExtendedTrapKeeps ==
    ASSUME TrapInv, NEW b \in BOOLEAN, HandleExtendedTrap(b)
    PROVE  TrapInv'
<1> DEFINE n == Len(context)
           c == n + 1
           x == [saved |-> regs, a7 |-> A7, owner |-> task,
                 has_retval |-> b, call68k_retval |-> None]
<1>1. /\ emu = "run" /\ regs.pc = Code /\ n < MaxTraps
      /\ context' = Append(context, x)
      /\ thread' = [thread EXCEPT ![c] = "start"]
      /\ switch_to_trap_sem' = [switch_to_trap_sem EXCEPT ![c] = 1]
      /\ switch_to_emu_sem' = [switch_to_emu_sem EXCEPT ![c] = 0]
      /\ emu' = "wait" /\ emuCtx' = c
      /\ UNCHANGED <<regs, task, tasks, mask, stack, trap_mutex,
                     current_context, resets>>
  BY DEF HandleExtendedTrap, AtPc, amiga
<1>2. ~Internal(regs.pc) /\ regs.intmask = mask[task]
  BY <1>1, Pcs DEF TrapInv, RegsKept, Working
<1>3. /\ context \in Seq(Context) /\ n \in Nat /\ DOMAIN context = 1 .. n
      /\ stack \in [Tasks -> Seq(Contexts)] /\ task \in Tasks
      /\ A7 \in Nat
  BY Unpacked DEF TrapInv, TypeOK, ContextTypes, StackTypes
<1>4. /\ c \in Contexts /\ c \in 1 .. n + 1 /\ c \notin 1 .. n
      /\ 1 .. n + 1 = (1 .. n) \cup {c}
      /\ n + 1 <= MaxTraps
  <2> HIDE DEF n
  <2> QED  BY <1>1, <1>3, Numbers, SMT DEF Contexts
<1>5. x \in Context
  <2>1. regs \in Regs /\ None \in 0 .. MaxTraps
    BY Numbers DEF TrapInv, TypeOK
  <2> QED  BY <1>3, <2>1 DEF Context
<1>6. /\ x.saved = regs /\ x.a7 = A7 /\ x.owner = task
      /\ x.call68k_retval = None
  OBVIOUS
<1> HIDE DEF x
<1>7. /\ context' \in Seq(Context) /\ Len(context') = n + 1
      /\ DOMAIN context' = (1 .. n) \cup {c}
      /\ context'[c] = x
      /\ \A d \in 1 .. n : context'[d] = context[d]
  <2>1. /\ Append(context, x) \in Seq(Context)
        /\ Len(Append(context, x)) = n + 1
        /\ \A d \in 1 .. n : Append(context, x)[d] = context[d]
        /\ Append(context, x)[c] = x
    BY <1>3, <1>5, AppendProperties
  <2>2. DOMAIN Append(context, x) = 1 .. n + 1  BY <2>1, LenProperties
  <2> QED  BY <1>1, <1>4, <2>1, <2>2
\* The turn, which was nobody's.
<1>8. \A d \in Contexts :
          /\ ~Running(d) /\ thread[d] # "start"
          /\ switch_to_trap_sem[d] = 0 /\ switch_to_emu_sem[d] = 0
  BY <1>1, NobodyRuns
<1> HIDE DEF c
<1>9. /\ switch_to_trap_sem' \in [Contexts -> 0 .. 1]
      /\ switch_to_emu_sem' \in [Contexts -> 0 .. 1]
      /\ switch_to_trap_sem'[c] = 1 /\ switch_to_emu_sem'[c] = 0
      /\ \A d \in Contexts \ {c} : /\ switch_to_trap_sem'[d] = 0
                                   /\ ~ (switch_to_trap_sem'[d] > 0)
      /\ \A d \in Contexts : ~ (switch_to_emu_sem'[d] > 0)
  <2>1. ~ (0 > 0) /\ 1 \in 0 .. 1 /\ 0 \in 0 .. 1  BY SMT
  <2>2. /\ switch_to_trap_sem \in [Contexts -> 0 .. 1]
        /\ switch_to_emu_sem \in [Contexts -> 0 .. 1]
    BY DEF TrapInv, TypeOK
  <2>3. /\ switch_to_trap_sem'[c] = 1 /\ switch_to_emu_sem'[c] = 0
        /\ \A d \in Contexts \ {c} : /\ switch_to_trap_sem'[d] = 0
                                     /\ switch_to_emu_sem'[d] = 0
    BY <1>1, <1>4, <1>8, <2>2
  <2>4. /\ switch_to_trap_sem' \in [Contexts -> 0 .. 1]
        /\ switch_to_emu_sem' \in [Contexts -> 0 .. 1]
    BY <1>1, <1>4, <2>1, <2>2
  <2> QED  BY <2>1, <2>3, <2>4
<1>10. /\ thread' \in [Contexts -> ThreadPc] /\ thread'[c] = "start"
       /\ \A d \in Contexts \ {c} : thread'[d] = thread[d]
       /\ \A d \in Contexts : ~Running(d)'
  <2>1. /\ thread' \in [Contexts -> ThreadPc] /\ thread'[c] = "start"
        /\ \A d \in Contexts \ {c} : thread'[d] = thread[d]
    BY <1>1, <1>4 DEF TrapInv, TypeOK, ThreadPc
  <2> QED  BY <1>8, <2>1 DEF Running
<1>11. TypeOK'
  <2>1. Len(context') <= MaxTraps  BY <1>4, <1>7
  <2>2. emuCtx' \in 0 .. MaxTraps /\ emu' \in EmuPc
    BY <1>1, <1>4, Numbers DEF EmuPc
  <2> QED  BY <1>1, <1>7, <1>9, <1>10, <2>1, <2>2 DEF TrapInv, TypeOK
<1>12. TurnsKept'
  <2>1. ASSUME NEW d \in Contexts PROVE TurnKept(d)'
    <3>1. TurnKept(d)  BY DEF TrapInv, TurnsKept
    <3>2. CASE d = c
      BY <1>1, <1>7, <1>9, <1>10, <3>2 DEF TurnKept
    <3>3. CASE d # c
      <4>1. /\ thread'[d] = "none" <=> d \notin DOMAIN context'
            /\ thread'[d] # "start"
        BY <1>3, <1>7, <1>8, <1>10, <3>1, <3>3 DEF TurnKept
      <4> QED  BY <1>9, <1>10, <3>3, <4>1 DEF TurnKept
    <3> QED  BY <3>2, <3>3
  <2>2. emuCtx' \in DOMAIN context'  BY <1>1, <1>7
  <2> QED  BY <1>1, <1>2, <2>1, <2>2 DEF TurnsKept, Internal
<1>13. MutexKept'
  <2>1. \A d \in Contexts : thread'[d] \notin {"call", "callEnd", "exit"}
    BY <1>10 DEF Running
  <2>2. ~Critical'
    BY <1>1, <1>2, <1>9, <1>10, <2>1 DEF Critical, Internal
  <2> QED  BY <2>2 DEF MutexKept
<1>14. NestingKept'
  <2>1. ASSUME NEW t \in Tasks, NEW k \in DOMAIN stack[t]
        PROVE  /\ stack[t][k] \in DOMAIN context'
               /\ thread'[stack[t][k]] = "callWait"
               /\ switch_to_trap_sem'[stack[t][k]] = 0
               /\ context'[stack[t][k]].owner = t
               /\ context'[stack[t][k]].a7 = k - 1
    <3>1. /\ stack[t][k] \in 1 .. n
          /\ thread[stack[t][k]] = "callWait"
          /\ context[stack[t][k]].owner = t
          /\ context[stack[t][k]].a7 = k - 1
      BY <1>3 DEF TrapInv, NestingKept
    <3>2. stack[t][k] # c /\ stack[t][k] \in Contexts
      BY <1>3, <1>4, <3>1, Unpacked DEF TrapInv, ContextTypes
    <3> QED  BY <1>7, <1>9, <1>10, <3>1, <3>2
  <2>2. ASSUME NEW d \in Contexts,
               Running(d)' \/ switch_to_trap_sem'[d] > 0
        PROVE  task' = context'[d].owner /\ A7' = context'[d].a7
    <3>1. d = c  BY <1>9, <1>10, <2>2
    <3> QED  BY <1>1, <1>6, <1>7, <3>1 DEF A7
  <2>3. stack' = stack /\ regs' = regs /\ ~Internal(regs'.pc)
    BY <1>1, <1>2
  <2>4. \A t \in Tasks : \A k \in DOMAIN stack'[t] :
            /\ stack'[t][k] \in DOMAIN context'
            /\ thread'[stack'[t][k]] = "callWait"
            /\ switch_to_trap_sem'[stack'[t][k]] = 0
            /\ context'[stack'[t][k]].owner = t
            /\ context'[stack'[t][k]].a7 = k - 1
    BY <2>1, <2>3
  <2>5. ~Internal(regs.pc)'  BY <2>3 DEF Internal
  <2> QED  BY <2>2, <2>4, <2>5 DEF NestingKept
<1>15. RegsKept'
  <2>1. \A t \in Tasks \ {task} : Working(tasks[t], t)'
    BY <1>1 DEF TrapInv, RegsKept, Working
  <2>2. \A d \in DOMAIN context' :
            /\ context'[d].saved.pc = Code
            /\ context'[d].saved.intmask = mask'[context'[d].owner]
            /\ context'[d].call68k_retval \in {None, d}
    BY <1>1, <1>2, <1>3, <1>6, <1>7 DEF TrapInv, RegsKept
  <2> QED  BY <1>1, <1>2, <2>1, <2>2 DEF RegsKept
<1> QED  BY <1>11, <1>12, <1>13, <1>14, <1>15 DEF TrapInv

-----------------------------------------------------------------------------
LEMMA NextTrapInv == TrapInv /\ [Next]_vars => TrapInv'
<1> SUFFICES ASSUME TrapInv, [Next]_vars PROVE TrapInv'  OBVIOUS
<1>1. ASSUME NEW t \in Tasks, SwitchTask(t) PROVE TrapInv'
  BY <1>1, SwitchTaskKeeps
<1>2. ASSUME NEW b \in BOOLEAN, HandleExtendedTrap(b) PROVE TrapInv'
  BY <1>2, HandleExtendedTrapKeeps
<1>3. CASE Rts  BY <1>3, RtsKeeps
<1>4. CASE Reset  BY <1>4, ResetKeeps
<1>5. CASE SwitchBack  BY <1>5, SwitchBackKeeps
<1>6. CASE m68k_call_handler  BY <1>6, CallHandlerKeeps
<1>7. CASE ReturnEnters \/ ExitEnters  BY <1>7, TrapEntersKeeps
<1>8. CASE m68k_return_handler  BY <1>8, ReturnHandlerKeeps
<1>9. CASE exit_trap_handler  BY <1>9, ExitHandlerKeeps
<1>10. ASSUME NEW c \in Contexts, ThreadSteps(c) PROVE TrapInv'
  <2>1. CASE ThreadStarts(c) \/ CallReturns(c)  BY <2>1, SwitchedToKeeps
  <2>2. CASE HandlerRuns(c)  BY <2>2, HandlerRunsKeeps
  <2>3. CASE TakesMutex(c)  BY <2>3, TakesMutexKeeps
  <2>4. CASE trap_Call68k(c)  BY <2>4, Call68kKeeps
  <2>5. CASE CallEnds(c)  BY <2>5, CallEndsKeeps
  <2>6. CASE ThreadExits(c)  BY <2>6, ThreadExitsKeeps
  <2> QED  BY <1>10, <2>1, <2>2, <2>3, <2>4, <2>5, <2>6 DEF ThreadSteps
<1>11. CASE UNCHANGED vars
  <2>1. UNCHANGED <<regs, task, tasks, mask, stack, context,
                    switch_to_trap_sem, switch_to_emu_sem, thread, trap_mutex,
                    current_context, emu, emuCtx, resets>>
    BY <1>11 DEF vars, amiga, sems
  <2>2. TypeOK'  BY <2>1 DEF TrapInv, TypeOK
  <2>3. TurnsKept'
    BY <2>1 DEF TrapInv, TurnsKept, TurnKept, Running, Internal
  <2>4. MutexKept'  BY <2>1 DEF TrapInv, MutexKept, Critical, Internal
  <2>5. NestingKept'
    BY <2>1 DEF TrapInv, NestingKept, Running, Internal, A7
  <2>6. RegsKept'  BY <2>1 DEF TrapInv, RegsKept, Working, Internal
  <2> QED  BY <2>2, <2>3, <2>4, <2>5, <2>6 DEF TrapInv
<1> QED
  BY <1>1, <1>2, <1>3, <1>4, <1>5, <1>6, <1>7, <1>8, <1>9, <1>10, <1>11
  DEF Next, AmigaRuns, EmuSteps

-----------------------------------------------------------------------------
(* The theorems.  They hold over any number of resets too, which disturb    *)
(* only that everybody gets on.                                             *)

\* The inductive invariant: turns, the mutex, nesting and the registers
\* (traps.cpp: trap_thread, trap_Call68k and the handlers).
THEOREM Inductive == Spec => []TrapInv
<1> QED  BY InitTrapInv, NextTrapInv, PTL DEF Spec

\* The variables keep their types: the mutex and the semaphores of a context
\* are never posted twice in a row.
THEOREM TypeCorrect == Spec => []TypeOK
<1>1. TrapInv => TypeOK  BY DEF TrapInv
<1> QED  BY <1>1, Inductive, PTL

\* A trap thread executes host code only while the emulator thread waits for
\* it: the 68k registers have one owner.
THEOREM OneOwner == Spec => []OneRunner
<1>1. TrapInv => OneRunner
  BY DEF TrapInv, TurnsKept, TurnKept, OneRunner
<1> QED  BY <1>1, Inductive, PTL

\* A handler runs for the task that trapped and with its stack pointer of trap
\* entry, whatever tasks and other traps did while its 68k calls ran.
THEOREM ProperNesting == Spec => []RunsWhereEntered
<1>1. TrapInv => RunsWhereEntered
  BY DEF TrapInv, NestingKept, RunsWhereEntered
<1> QED  BY <1>1, Inductive, PTL

\* m68k_return_handler gives each trap_Call68k the result of its own function.
THEOREM ResultsMatch == Spec => []OwnResult
<1>1. TrapInv => OwnResult  BY DEF TrapInv, RegsKept, OwnResult
<1> QED  BY <1>1, Inductive, PTL

\* The call trap and the exit trap find the context they are meant for in
\* current_context.
THEOREM ContextFound == Spec => []CurrentContext
<1>1. ASSUME TrapInv PROVE CurrentContext
  <2>1. ASSUME Internal(regs.pc)
        PROVE  /\ current_context # None
               /\ thread[current_context] =
                      IF regs.pc = CallTrap THEN "callWait" ELSE "done"
               /\ context[current_context].owner = task
    <3>1. /\ current_context \in DOMAIN context
          /\ thread[current_context] =
                 IF regs.pc = CallTrap THEN "callWait" ELSE "done"
          /\ context[current_context].owner = task
      BY <1>1, <2>1 DEF TrapInv, NestingKept
    <3>2. current_context \in Contexts
      BY <1>1, <3>1, Unpacked DEF TrapInv, ContextTypes
    <3> QED  BY <3>1, <3>2, Numbers
  <2> QED  BY <2>1, Pcs DEF CurrentContext, AtPc
<1> QED  BY <1>1, Inductive, PTL

\* Level 7, which trap_Call68k and the end of a trap raise, is gone whenever
\* ordinary 68k code runs.
THEOREM MaskRestored == Spec => []MaskKept
<1>1. ASSUME TrapInv, AtPc(Code) PROVE regs.intmask = mask[task]
  BY <1>1, Pcs DEF TrapInv, RegsKept, Working, AtPc
<1> QED  BY <1>1, Inductive, PTL DEF MaskKept

-----------------------------------------------------------------------------
(* Everybody gets on, until a reset of the Amiga: the part of               *)
(* EmuReturnsUnlessReset that is about safety.                              *)

\* The context that the emulator thread waits for runs, or it or the emulator
\* thread has just been switched to.
SomebodysTurn ==
    emu = "wait" => \/ Running(emuCtx)
                    \/ switch_to_trap_sem[emuCtx] > 0
                    \/ switch_to_emu_sem[emuCtx] > 0

\* The mutex is only taken while somebody is in a critical section, as long as
\* no reset has made the 68k forget that it was in one.
MutexFree == resets = 0 /\ ~Critical => trap_mutex > 0

\* Nobody waits for what nobody will do: the step that comes next is possible.
NobodyStuck ==
    /\ emu = "wait" =>
           \/ switch_to_emu_sem[emuCtx] > 0
           \/ /\ switch_to_trap_sem[emuCtx] > 0
              /\ thread[emuCtx] \in {"start", "callWait"}
           \/ thread[emuCtx] \in {"handler", "call", "callEnd", "exit"}
           \/ thread[emuCtx] \in {"callMutex", "exitMutex"} /\ trap_mutex > 0
    /\ emu = "mutex" => trap_mutex > 0
    /\ emu = "join" => thread[current_context] = "done"

\* It never fails as long as the Amiga is not reset.
NobodyStuckUnlessReset == [](resets = 0) => []NobodyStuck

\* The thread that the 68k returns to waits for it.
LEMMA ReturnsToWaiting ==
    ASSUME TrapInv, emu = "mutex"
    PROVE  /\ stack[task] # << >>
           /\ Last(stack[task]) \in Contexts
           /\ thread[Last(stack[task])] = "callWait"
<1>1. regs.pc = ReturnTrap /\ ~Internal(regs.pc)
  BY Pcs DEF TrapInv, TurnsKept
<1>2. stack[task] # << >>
  BY <1>1, Pcs DEF TrapInv, RegsKept, Working
<1>3. /\ task \in Tasks /\ Len(stack[task]) \in Nat
      /\ stack[task] \in Seq(Contexts)
      /\ DOMAIN stack[task] = 1 .. Len(stack[task])
  BY Unpacked DEF TrapInv, RegTypes, StackTypes
<1>4. Len(stack[task]) \in DOMAIN stack[task]
  <2>1. Len(stack[task]) # 0  BY <1>2, <1>3, EmptySeq
  <2> QED  BY <1>3, <2>1, SMT
<1>5. Last(stack[task]) = stack[task][Len(stack[task])]  BY DEF Last
<1>6. /\ Last(stack[task]) \in DOMAIN context
      /\ thread[Last(stack[task])] = "callWait"
  BY <1>3, <1>4, <1>5 DEF TrapInv, NestingKept
<1> QED  BY <1>2, <1>6, Unpacked DEF TrapInv, ContextTypes

\* Whoever waits has been switched to, or the other side goes on.
LEMMA NextSomebodysTurn ==
    TrapInv /\ SomebodysTurn /\ [Next]_vars => SomebodysTurn'
<1> SUFFICES ASSUME TrapInv, SomebodysTurn, [Next]_vars
             PROVE  SomebodysTurn'
  OBVIOUS
<1>1. /\ \A c \in Contexts : TurnKept(c)
      /\ switch_to_trap_sem \in [Contexts -> 0 .. 1]
      /\ switch_to_emu_sem \in [Contexts -> 0 .. 1]
      /\ thread \in [Contexts -> ThreadPc]
  BY DEF TrapInv, TurnsKept, TypeOK
<1>2. ASSUME emu' # "wait" PROVE SomebodysTurn'
  BY <1>2 DEF SomebodysTurn
<1>3. ASSUME NEW b \in BOOLEAN, HandleExtendedTrap(b) PROVE SomebodysTurn'
  <2>1. /\ emuCtx' = Len(context) + 1
        /\ switch_to_trap_sem' =
               [switch_to_trap_sem EXCEPT ![Len(context) + 1] = 1]
        /\ Len(context) < MaxTraps
    BY <1>3 DEF HandleExtendedTrap
  <2>2. Len(context) + 1 \in Contexts
    BY <2>1, Unpacked, Numbers, SMT DEF TrapInv, ContextTypes, Contexts
  <2>3. switch_to_trap_sem'[emuCtx'] = 1  BY <1>1, <2>1, <2>2
  <2> QED  BY <2>3, SMT DEF SomebodysTurn
<1>4. CASE m68k_return_handler
  <2> DEFINE c == Last(stack[task])
  <2>1. c \in Contexts  BY <1>4, ReturnsToWaiting DEF m68k_return_handler
  <2>2. /\ emuCtx' = c
        /\ switch_to_trap_sem' = [switch_to_trap_sem EXCEPT ![c] = @ + 1]
    BY <1>4 DEF m68k_return_handler, ReturnTo
  <2>3. switch_to_trap_sem'[c] = switch_to_trap_sem[c] + 1
    BY <1>1, <2>1, <2>2
  <2>4. switch_to_trap_sem[c] \in 0 .. 1  BY <1>1, <2>1
  <2> HIDE DEF c
  <2>5. switch_to_trap_sem'[emuCtx'] > 0  BY <2>2, <2>3, <2>4, SMT
  <2> QED  BY <2>5 DEF SomebodysTurn
<1>5. ASSUME NEW c \in Contexts, ThreadSteps(c) PROVE SomebodysTurn'
  <2>1. ASSUME ThreadStarts(c) \/ CallReturns(c) PROVE SomebodysTurn'
    <3>1. /\ switch_to_trap_sem[c] > 0 /\ UNCHANGED <<emu, emuCtx>>
          /\ \E pc \in {"handler", "callEnd"} :
                 thread' = [thread EXCEPT ![c] = pc]
      BY <2>1 DEF ThreadStarts, CallReturns, SwitchedTo, Goes
    <3>2. emuCtx = c  BY <1>1, <3>1 DEF TurnKept
    <3>3. thread'[c] \in {"handler", "callEnd"}  BY <1>1, <3>1
    <3> QED  BY <3>1, <3>2, <3>3 DEF SomebodysTurn, Running
  <2>2. ASSUME HandlerRuns(c) \/ TakesMutex(c) \/ CallEnds(c)
        PROVE  SomebodysTurn'
    <3>1. /\ UNCHANGED <<emu, emuCtx>> /\ Running(c)
          /\ \E pc \in {"callMutex", "exitMutex", "call", "exit", "handler"} :
                 thread' = [thread EXCEPT ![c] = pc]
      BY <2>2 DEF HandlerRuns, TakesMutex, CallEnds, Goes, Running
    <3>2. emuCtx = c  BY <1>1, <3>1 DEF TurnKept
    <3>3. thread'[c] \in {"callMutex", "exitMutex", "call", "exit", "handler"}
      BY <1>1, <3>1
    <3> QED  BY <3>1, <3>2, <3>3 DEF SomebodysTurn, Running
  <2>3. ASSUME trap_Call68k(c) \/ ThreadExits(c) PROVE SomebodysTurn'
    <3>1. /\ UNCHANGED <<emu, emuCtx>> /\ Running(c)
          /\ switch_to_emu_sem' = [switch_to_emu_sem EXCEPT ![c] = @ + 1]
      BY <2>3 DEF trap_Call68k, ThreadExits, Goes, Running
    <3>2. emuCtx = c  BY <1>1, <3>1 DEF TurnKept
    <3>3. switch_to_emu_sem'[c] = switch_to_emu_sem[c] + 1  BY <1>1, <3>1
    <3>4. switch_to_emu_sem[c] \in 0 .. 1  BY <1>1
    <3>5. switch_to_emu_sem'[c] > 0  BY <3>3, <3>4, SMT
    <3> QED  BY <3>1, <3>2, <3>5 DEF SomebodysTurn
  <2> QED  BY <1>5, <2>1, <2>2, <2>3 DEF ThreadSteps
<1>6. CASE AmigaRuns /\ ~ (\E b \in BOOLEAN : HandleExtendedTrap(b))
  BY <1>2, <1>6 DEF AmigaRuns, SwitchTask, Rts, Reset, AtPc
<1>7. CASE EmuSteps /\ ~m68k_return_handler
  BY <1>2, <1>7 DEF EmuSteps, SwitchBack, m68k_call_handler, ReturnEnters,
                    ExitEnters, exit_trap_handler, AtPc
<1>8. CASE UNCHANGED vars
  BY <1>8 DEF vars, sems, SomebodysTurn, Running
<1> QED  BY <1>3, <1>4, <1>5, <1>6, <1>7, <1>8 DEF Next

\* The mutex is given back where a critical section ends, and taken only where
\* one begins.
LEMMA NextMutexFree == TrapInv /\ MutexFree /\ [Next]_vars => MutexFree'
<1> SUFFICES ASSUME TrapInv, MutexFree, [Next]_vars, resets' = 0, ~Critical'
             PROVE  trap_mutex' > 0
  BY DEF MutexFree
<1>1. /\ \A c \in Contexts : TurnKept(c)
      /\ thread \in [Contexts -> ThreadPc]
      /\ trap_mutex \in 0 .. 1 /\ resets \in Nat
      /\ switch_to_trap_sem \in [Contexts -> 0 .. 1]
  BY DEF TrapInv, TurnsKept, TypeOK
<1>2. resets = 0
  <2>1. resets' = resets \/ resets' = resets + 1
    BY DEF Next, AmigaRuns, SwitchTask, HandleExtendedTrap, Rts, Reset,
           EmuSteps, SwitchBack, m68k_call_handler, ReturnEnters,
           m68k_return_handler, ReturnTo, ExitEnters, exit_trap_handler,
           ThreadSteps, ThreadStarts, CallReturns, SwitchedTo, HandlerRuns,
           TakesMutex, trap_Call68k, CallEnds, ThreadExits, vars
  <2> QED  BY <1>1, <2>1, SMT
<1>3. ASSUME ~Critical, UNCHANGED trap_mutex PROVE trap_mutex' > 0
  BY <1>2, <1>3 DEF MutexFree
<1>4. ASSUME trap_mutex' = trap_mutex + 1 PROVE trap_mutex' > 0
  BY <1>1, <1>4, SMT
<1>5. ASSUME emu # "wait", ~Internal(regs.pc) PROVE ~Critical
  <2>1. \A d \in Contexts :
            ~Running(d) /\ ~ (switch_to_trap_sem[d] > 0)
    BY <1>1, <1>5, NobodyRuns DEF TurnKept
  <2> QED  BY <1>5, <2>1 DEF Critical, Running
<1>6. ~Internal(regs'.pc)  BY DEF Critical, Internal
<1>7. ASSUME NEW t \in Tasks, SwitchTask(t) PROVE trap_mutex' > 0
  <2>1. emu = "run" /\ (regs.intmask < 7 \/ regs.pc = Code)
        /\ UNCHANGED trap_mutex
    BY <1>7 DEF SwitchTask
  <2>2. ~Internal(regs.pc)
    <3> SUFFICES ASSUME Internal(regs.pc) PROVE FALSE  OBVIOUS
    <3>1. regs.intmask = 7  BY DEF TrapInv, RegsKept
    <3> QED  BY <2>1, <3>1, Pcs, SMT
  <2> QED  BY <1>3, <1>5, <2>1, <2>2
<1>8. CASE Rts \/ ReturnEnters \/ (\E b \in BOOLEAN : HandleExtendedTrap(b))
  <2>1. emu = "run" /\ ~Internal(regs.pc) /\ UNCHANGED trap_mutex
    BY <1>8, Pcs DEF Rts, ReturnEnters, HandleExtendedTrap, AtPc
  <2> QED  BY <1>3, <1>5, <2>1
<1>9. CASE Reset  BY <1>1, <1>2, <1>9, SMT DEF Reset
<1>10. CASE SwitchBack
  <2>1. switch_to_emu_sem[emuCtx] > 0 /\ emu = "wait" /\ UNCHANGED regs
    BY <1>10 DEF SwitchBack
  <2>2. emuCtx \in Contexts
    BY <2>1, Unpacked DEF TrapInv, TurnsKept, ContextTypes
  <2> QED  BY <1>1, <1>6, <2>1, <2>2 DEF TurnKept
<1>11. CASE m68k_call_handler \/ exit_trap_handler
  BY <1>4, <1>11 DEF m68k_call_handler, exit_trap_handler
<1>12. CASE m68k_return_handler
  <2> DEFINE c == Last(stack[task])
  <2>1. c \in Contexts /\ thread[c] = "callWait"
    BY <1>12, ReturnsToWaiting DEF m68k_return_handler
  <2>2. /\ switch_to_trap_sem' = [switch_to_trap_sem EXCEPT ![c] = @ + 1]
        /\ UNCHANGED thread
    BY <1>12 DEF m68k_return_handler, ReturnTo
  <2>3. switch_to_trap_sem'[c] = switch_to_trap_sem[c] + 1
    BY <1>1, <2>1, <2>2
  <2>4. switch_to_trap_sem[c] \in 0 .. 1  BY <1>1, <2>1
  <2> HIDE DEF c
  <2>5. switch_to_trap_sem'[c] > 0  BY <2>3, <2>4, SMT
  <2> QED  BY <2>1, <2>2, <2>5 DEF Critical
<1>13. CASE ExitEnters  BY <1>6, <1>13, Pcs DEF ExitEnters, AtPc
<1>14. ASSUME NEW c \in Contexts, ThreadSteps(c) PROVE trap_mutex' > 0
  <2>1. ASSUME ThreadStarts(c) PROVE trap_mutex' > 0
    <3>1. /\ thread[c] = "start" /\ switch_to_trap_sem[c] > 0
          /\ UNCHANGED trap_mutex
      BY <2>1 DEF ThreadStarts, SwitchedTo, Goes
    <3>2. /\ emu = "wait" /\ emuCtx = c /\ ~ (switch_to_emu_sem[c] > 0)
      <4>1. emu = "wait" /\ emuCtx = c /\ switch_to_emu_sem[c] = 0
        BY <1>1, <3>1 DEF TurnKept
      <4> QED  BY <4>1, SMT
    <3>3. ~Internal(regs.pc)  BY <3>2 DEF TrapInv, TurnsKept
    <3>4. \A d \in Contexts :
              /\ d # c => ~Running(d) /\ ~ (switch_to_trap_sem[d] > 0)
              /\ ~Running(c) /\ thread[c] # "callWait"
      BY <1>1, <3>1, <3>2 DEF TurnKept, Running
    <3>5. ~Critical  BY <3>3, <3>4 DEF Critical, Running
    <3> QED  BY <1>3, <3>1, <3>5
  <2>2. ASSUME HandlerRuns(c) PROVE trap_mutex' > 0
    <3>1. Running(c) /\ thread[c] = "handler" /\ UNCHANGED trap_mutex
      BY <2>2 DEF HandlerRuns, Goes, Running
    <3>2. /\ ~Internal(regs.pc)
          /\ \A d \in Contexts : switch_to_trap_sem[d] = 0
          /\ \A d \in Contexts \ {c} : ~Running(d)
      BY <3>1, RunsAlone
    <3>3. \A d \in Contexts : ~ (switch_to_trap_sem[d] > 0)  BY <3>2, SMT
    <3>4. ~Critical  BY <3>1, <3>2, <3>3 DEF Critical, Running
    <3> QED  BY <1>3, <3>1, <3>4
  <2>3. ASSUME TakesMutex(c) \/ CallReturns(c) PROVE FALSE
    <3>1. \E pc \in {"call", "exit", "callEnd"} :
              thread' = [thread EXCEPT ![c] = pc]
      BY <2>3 DEF TakesMutex, CallReturns, SwitchedTo, Goes
    <3>2. thread'[c] \in {"call", "exit", "callEnd"}  BY <1>1, <3>1
    <3> QED  BY <3>2 DEF Critical
  <2>4. ASSUME trap_Call68k(c) \/ ThreadExits(c) PROVE FALSE
    <3>1. regs'.pc = CallTrap \/ regs'.pc = ExitTrap
      <4>1. CASE trap_Call68k(c)
        BY <4>1 DEF trap_Call68k, TrapInv, TypeOK, Regs
      <4>2. CASE ThreadExits(c)
        <5>1. regs' = [Restored(c, ExitTrap) EXCEPT !.intmask = 7]
              /\ thread[c] = "exit"
          BY <4>2 DEF ThreadExits, Goes
        <5>2. c \in DOMAIN context  BY <5>1, RunsAlone DEF Running
        <5>3. context[c].saved \in Regs
          BY <5>2, Unpacked DEF TrapInv, ContextTypes
        <5> QED  BY <5>1, <5>3 DEF Restored, Regs
      <4> QED  BY <2>4, <4>1, <4>2
    <3> QED  BY <1>6, <3>1, Pcs
  <2>5. ASSUME CallEnds(c) PROVE trap_mutex' > 0
    BY <1>4, <2>5 DEF CallEnds
  <2> QED  BY <1>14, <2>1, <2>2, <2>3, <2>4, <2>5 DEF ThreadSteps
<1>15. CASE UNCHANGED vars
  <2>1. UNCHANGED <<trap_mutex, regs, thread, switch_to_trap_sem>>
    BY <1>15 DEF vars, sems
  <2>2. ~Critical  BY <2>1 DEF Critical, Internal
  <2> QED  BY <1>3, <2>1, <2>2
<1> QED  BY <1>7, <1>8, <1>9, <1>10, <1>11, <1>12, <1>13, <1>14, <1>15
         DEF Next, AmigaRuns, EmuSteps

\* Neither the emulator thread nor a trap thread ever waits for a semaphore that
\* nobody will post or a mutex that nobody will give back, unless the Amiga has
\* been reset, which forgets that it was to give the mutex back.
THEOREM NeverStuck == Spec => NobodyStuckUnlessReset
<1>1. Init => SomebodysTurn  BY DEF Init, SomebodysTurn
<1>2. Init => MutexFree  BY SMT DEF Init, MutexFree
<1>3. ASSUME TrapInv, SomebodysTurn, MutexFree, resets = 0
      PROVE  NobodyStuck
  <2>1. ASSUME emu = "wait" PROVE emuCtx \in Contexts /\ TurnKept(emuCtx)
    BY <1>3, <2>1, Unpacked DEF TrapInv, TurnsKept, ContextTypes
  <2>2. ASSUME emu = "wait", thread[emuCtx] \in {"callMutex", "exitMutex"}
        PROVE  trap_mutex > 0
    <3>1. Running(emuCtx)  BY <2>2 DEF Running
    <3>2. /\ ~Internal(regs.pc)
          /\ \A d \in Contexts : switch_to_trap_sem[d] = 0
          /\ \A d \in Contexts \ {emuCtx} : ~Running(d)
      BY <1>3, <2>1, <2>2, <3>1, RunsAlone
    <3>3. \A d \in Contexts : ~ (switch_to_trap_sem[d] > 0)  BY <3>2, SMT
    <3>4. ~Critical  BY <2>2, <3>2, <3>3 DEF Critical, Running
    <3> QED  BY <1>3, <3>4 DEF MutexFree
  <2>3. ASSUME emu = "mutex" PROVE trap_mutex > 0
    <3>1. ~Internal(regs.pc)  BY <1>3, <2>3, Pcs DEF TrapInv, TurnsKept
    <3>2. \A d \in Contexts :
              ~Running(d) /\ switch_to_trap_sem[d] = 0
      BY <1>3, <2>3, NobodyRuns
    <3>3. \A d \in Contexts : ~ (switch_to_trap_sem[d] > 0)  BY <3>2, SMT
    <3>4. ~Critical  BY <3>1, <3>2, <3>3 DEF Critical, Running
    <3> QED  BY <1>3, <3>4 DEF MutexFree
  <2>4. ASSUME emu = "join" PROVE thread[current_context] = "done"
    BY <1>3, <2>4, Pcs DEF TrapInv, TurnsKept, NestingKept
  <2> QED  BY <1>3, <2>1, <2>2, <2>3, <2>4
           DEF NobodyStuck, SomebodysTurn, TurnKept, Running
<1> QED  BY <1>1, <1>2, <1>3, NextSomebodysTurn, NextMutexFree, Inductive, PTL
         DEF Spec, NobodyStuckUnlessReset
=============================================================================
