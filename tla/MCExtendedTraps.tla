--------------------------- MODULE MCExtendedTraps ---------------------------
EXTENDS ExtendedTraps

\* What a state is taken for: what a trap that is over has saved, and whom the
\* emulator thread waited for last, are not read again.
InUse ==
    <<regs, tasks, task, mask, stack, sems, thread, trap_mutex,
      current_context, emu, IF emu = "run" THEN None ELSE emuCtx, resets,
      [c \in DOMAIN context |->
          IF thread[c] = "freed"
          THEN [context[c] EXCEPT !.saved = Fresh(context[c].owner),
                                  !.a7 = 0, !.has_retval = FALSE]
          ELSE context[c]]>>

\* Bound: of a behaviour with a reset only the first two traps are looked at.
FewOverReset == resets > 0 => Len(context) <= 2
=============================================================================
