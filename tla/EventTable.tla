----------------------------- MODULE EventTable -----------------------------
(***************************************************************************)
(* The event scheduler of the emulator core (src/core/events.cpp,          *)
(* include/events.h): the four entries of eventtab that the clock loop     *)
(* do_cycles_normal serves, and the ev2_max one-shot events of eventtab2   *)
(* that share the single entry ev_misc through MISC_handler.               *)
(*                                                                         *)
(* Everything runs on one thread, so what is hard is re-entrancy: an event *)
(* handler schedules another event, event2_newevent_xx calls MISC_handler  *)
(* while an outer MISC_handler is still scanning the table, and a full     *)
(* table makes event2_newevent_xx run somebody else's handler first.  The  *)
(* C call stack is therefore a variable, one frame per active call.        *)
(*                                                                         *)
(* Times are kept relative to currcycle (the code only ever looks at       *)
(* evtime - currcycle), so the clock needs no bound.  An inactive entry    *)
(* has the time EVT_MAX.                                                   *)
(***************************************************************************)
EXTENDS Integers, Sequences, FiniteSets

CONSTANTS
    ev2_max,      \* number of entries of eventtab2 (16 in the code)
    Handlers,     \* handler functions of one-shot events
    Ext,          \* event_doint_delay_do_ext, whose events may be merged
    Replaceable,  \* handlers whose pending events are replaced or removed
    Blitter,      \* blitter_handler, fixed in entry ev2_blitter
    Bits,         \* the interrupt bits an Ext event may carry
    Delays,       \* delays a caller asks for
    Periodic,     \* the entries of eventtab besides ev_misc that are in use
    Periods,      \* how far ahead a periodic handler re-arms its entry
    MaxCycles,    \* most cycles one call of do_cycles_normal is given
    PerPeriodic,  \* most events a periodic handler schedules when it runs
    PerOneShot,   \* most events a one-shot handler schedules when it runs
    MaxDepth,     \* bound: deepest call stack on which a handler schedules
    MaxRestart,   \* bound: event2restart counts no further than this
    MaxLate,      \* bound: lateness is not told apart beyond this
    EVT_MAX       \* the "never" of the code

ev_sync  == 0
ev_cia   == 1
ev_misc  == 2
ev_audio == 3
ev_max   == 4

ev2_blitter == 0
ev2_misc    == 1

Slots     == 0 .. ev2_max - 1
MiscSlots == ev2_misc .. ev2_max - 1

ASSUME EventTableAssumption ==
    /\ ev2_max \in Nat /\ ev2_max > 1
    /\ {Ext, Blitter} \subseteq Handlers
    /\ Replaceable \subseteq Handlers \ {Ext, Blitter}
    /\ Delays \subseteq Nat \ {0} /\ Periods \subseteq Nat \ {0}
    /\ Periodic \subseteq {ev_sync, ev_cia, ev_audio}
    /\ MaxCycles \in Nat \ {0}
    /\ {PerPeriodic, PerOneShot, MaxDepth, MaxLate} \subseteq Nat
    /\ MaxRestart \in Nat \ {0}
    /\ EVT_MAX \in Nat
    /\ \A d \in Delays \cup Periods \cup {MaxCycles} : EVT_MAX > d

VARIABLES
    nextevent,     \* nextevent - currcycle
    eventtab,      \* entry -> evtime - currcycle, EVT_MAX when inactive
    eventtab2,     \* slot -> one-shot event, times relative too
    event2idx,     \* where the next MISC_handler starts its scan
    event2cnt,     \* handlers MISC_handler is in the middle of calling
    event2restart, \* scans that a nested MISC_handler has made stale
    next,          \* static variable of event2_newevent_xx
    stack          \* frames of the calls in progress, the innermost first

vars == <<nextevent, eventtab, eventtab2, event2idx, event2cnt,
          event2restart, next, stack>>

-----------------------------------------------------------------------------
Least(S) == CHOOSE m \in S : \A x \in S : m <= x

Idle == [evtime |-> EVT_MAX, handler |-> Blitter, data |-> {}]

Active(e) == e.evtime < EVT_MAX

\* The data of an event: an Ext event carries interrupt bits, the handlers of
\* the others ignore or hold fixed data.
DataOf(h) == IF h = Ext THEN {{b} : b \in Bits} ELSE {{}}

\* What a one-shot event is.
OneShot == [evtime : Int, handler : Handlers, data : SUBSET Bits]

\* The frames of the call stack.  The clock loop is at entry i of eventtab, or at
\* its head.
LoopHead == ev_max + 1
CyclesFrame(left, i) == [at |-> "cycles", left |-> left, i |-> i]
MiscFrame(idx2)      == [at |-> "misc", idx2 |-> idx2, i |-> 0,
                         mintime |-> EVT_MAX]
HandlerFrame(of)     == [at |-> "handler", of |-> of,
                         left |-> IF of = "event" THEN PerPeriodic
                                                  ELSE PerOneShot]
NewEventFrame(no, e) == [at |-> "newevent", no |-> no, event |-> e]
Frame ==
    [at : {"cycles"}, left : Int, i : 0 .. LoopHead]
        \cup [at : {"misc"}, idx2 : Slots, i : 0 .. ev2_max, mintime : Int]
        \cup [at : {"handler"}, of : {"event", "misc", "newevent", "direct"},
              left : Nat]
        \cup [at : {"newevent"}, no : MiscSlots, event : OneShot]

Quiet   == stack = << >>
Top     == Head(stack)
At(what) == stack # << >> /\ Head(stack).at = what

\* Moving currcycle forward by d moves every pending time closer by d.
Later(t, d) == CASE t = EVT_MAX      -> EVT_MAX
                 [] t - d < -MaxLate -> -MaxLate
                 [] OTHER            -> t - d

\* Fault: events_schedule overlooks ev_misc.
MutScheduled(tab) ==
    Least({EVT_MAX} \cup {tab[i] : i \in DOMAIN tab \ {ev_misc}})

\* events_schedule: nextevent is the soonest active entry.
Scheduled(tab) == Least({tab[i] : i \in DOMAIN tab})

-----------------------------------------------------------------------------
Init ==
    /\ nextevent = EVT_MAX
    /\ eventtab = [i \in 0 .. ev_max - 1 |-> EVT_MAX]
    /\ eventtab2 = [s \in Slots |-> Idle]
    /\ event2idx = 0
    /\ event2cnt = 0
    /\ event2restart = 0
    /\ next = ev2_misc
    /\ stack = << >>

-----------------------------------------------------------------------------
(* MISC_handler is entered: a scan of eventtab2 begins at event2idx.       *)
EnterMisc(idx, base) ==
    /\ event2restart' = IF event2cnt > 0 /\ event2restart < MaxRestart
                        THEN event2restart + 1 ELSE event2restart
    /\ eventtab' = [eventtab EXCEPT ![ev_misc] = EVT_MAX]
    /\ event2idx' = idx
    /\ stack' = <<MiscFrame(idx)>> \o base
    /\ UNCHANGED <<nextevent, event2cnt>>

\* The entry that the scan reaches at offset k.
SlotAt(f, k) == (f.idx2 + k) % ev2_max

\* Fault: the scan stops one slot short.
MutDueOffsets(f) ==
    {k \in f.i .. ev2_max - 2 : eventtab2[SlotAt(f, k)].evtime = 0}

\* The offsets not yet scanned at which an event is due now.
DueOffsets(f) ==
    {k \in f.i .. ev2_max - 1 : eventtab2[SlotAt(f, k)].evtime = 0}

\* mintime after offsets f.i .. upto - 1, none of which is due.
MintimeUpTo(f, upto) ==
    Least({f.mintime} \cup
          {eventtab2[SlotAt(f, k)].evtime : k \in f.i .. upto - 1})

\* The scan meets an event that is due: it is retired, then its handler runs.
MiscFire ==
    /\ At("misc") /\ DueOffsets(Top) # {}
    /\ LET k == Least(DueOffsets(Top))
           s == SlotAt(Top, k)
       IN /\ eventtab2' = [eventtab2 EXCEPT ![s] = Idle]
          /\ event2cnt' = event2cnt + 1
          /\ stack' = <<HandlerFrame("misc"),
                        [Top EXCEPT !.i = k,
                                    !.mintime = MintimeUpTo(Top, k)]>>
                      \o Tail(stack)
    /\ UNCHANGED <<nextevent, eventtab, event2idx, event2restart, next>>

\* The scan is over: ev_misc is armed for the soonest event it met, if any.
MiscDone ==
    /\ At("misc") /\ DueOffsets(Top) = {}
    /\ LET mintime == MintimeUpTo(Top, ev2_max)
       IN IF mintime < EVT_MAX
          THEN /\ eventtab' = [eventtab EXCEPT ![ev_misc] = mintime]
               /\ nextevent' = Scheduled(eventtab')
          ELSE UNCHANGED <<eventtab, nextevent>>
    /\ stack' = Tail(stack)
    /\ UNCHANGED <<eventtab2, event2idx, event2cnt, event2restart, next>>

\* The offset at which the scan goes on after a restart: `i = 0` is followed
\* by the loop's `i++`.
RestartOffset == 1

\* Fault: event2cnt is not decremented on the way to a restart.
MutReturnToMisc(f) ==
    IF event2restart > 0
    THEN /\ event2restart' = event2restart - 1
         /\ stack' = <<[f EXCEPT !.i = RestartOffset, !.mintime = EVT_MAX]>>
                     \o Tail(Tail(stack))
         /\ UNCHANGED event2cnt
    ELSE /\ event2cnt' = event2cnt - 1
         /\ stack' = <<[f EXCEPT !.i = f.i + 1]>> \o Tail(Tail(stack))
         /\ UNCHANGED event2restart

\* A handler that MISC_handler called returns to it.
ReturnToMisc(f) ==
    /\ event2cnt' = event2cnt - 1
    /\ IF event2restart > 0
       THEN /\ event2restart' = event2restart - 1
            /\ stack' = <<[f EXCEPT !.i = RestartOffset, !.mintime = EVT_MAX]>>
                        \o Tail(Tail(stack))
       ELSE /\ stack' = <<[f EXCEPT !.i = f.i + 1]>> \o Tail(Tail(stack))
            /\ UNCHANGED event2restart

-----------------------------------------------------------------------------
(* event2_newevent_xx and its variants.  `base` is the stack to return to, *)
(* `tab` the table at the call.                                            *)

\* The slots event2_newevent_xx looks at, from `no` round to just before next.
Candidates(no) ==
    LET size == ev2_max - ev2_misc
        dist == (next - no) % size
    IN [k \in 0 .. (IF dist = 0 THEN size ELSE dist) - 1 |->
            ev2_misc + ((no - ev2_misc + k) % size)]

Usable(tab, s, e) == ~Active(tab[s]) \/ tab[s] = e

\* The event goes into slot s and MISC_handler is called at once.
Place(tab, s, e, base) ==
    /\ eventtab2' = [tab EXCEPT ![s] = e]
    /\ EnterMisc((s + 1) % ev2_max, base)

Mergeable(tab, e) ==
    {s \in Slots : e.handler = Ext /\ tab[s].handler = Ext
                   /\ Active(tab[s]) /\ tab[s].evtime = e.evtime}

\* Out of slots: merge interrupt bits, or run the soonest event at once.
Overflow(tab, e, base) ==
    IF Mergeable(tab, e) # {}
    THEN /\ eventtab2' = [tab EXCEPT
                              ![Least(Mergeable(tab, e))].data = @ \cup e.data]
         /\ stack' = base
         /\ UNCHANGED <<nextevent, eventtab, event2idx, event2cnt,
                        event2restart, next>>
    ELSE LET soonest == Least({tab[s].evtime : s \in Slots})
             m == Least({s \in Slots : tab[s].evtime = soonest})
         IN /\ eventtab2' = [tab EXCEPT ![m] = Idle]
            /\ stack' = <<HandlerFrame("newevent"), NewEventFrame(next, e)>>
                        \o base
            /\ UNCHANGED <<nextevent, eventtab, event2idx, event2cnt,
                           event2restart, next>>

\* The slot search of event2_newevent_xx (no < 0), begun or resumed at `no`.
Search(tab, no, e, base) ==
    LET cand  == Candidates(no)
        found == {k \in DOMAIN cand : Usable(tab, cand[k], e)}
    IN IF found # {}
       THEN /\ next' = cand[Least(found)]
            /\ Place(tab, cand[Least(found)], e, base)
       ELSE Overflow(tab, e, base)

Event(h, d, v) == [evtime |-> d, handler |-> h, data |-> v]

\* event2_newevent_xx(-1, ...).
event2_newevent_xx(tab, h, d, v, base) ==
    Search(tab, next, Event(h, d, v), base)

\* event2_newevent(ev2_blitter, ...): the entry is fixed, an event pending
\* there is overwritten.
event2_newevent_blitter(d, base) ==
    /\ UNCHANGED next
    /\ Place(eventtab2, ev2_blitter, Event(Blitter, d, {}), base)

\* event2_newevent_x_remove.
Without(h) ==
    [s \in Slots |-> IF eventtab2[s].handler = h THEN Idle ELSE eventtab2[s]]

\* event2_newevent_x_exists.
Pending(h) == \E s \in Slots : Active(eventtab2[s]) /\ eventtab2[s].handler = h

\* func(data) is called straight away because the delay is not positive.
CallNow(tab, base) ==
    /\ eventtab2' = tab
    /\ stack' = <<HandlerFrame("direct")>> \o base
    /\ UNCHANGED <<nextevent, eventtab, event2idx, event2cnt, event2restart,
                   next>>

ScheduleOrCall(tab, h, d, v, base) ==
    IF d <= 0 THEN CallNow(tab, base)
              ELSE event2_newevent_xx(tab, h, d, v, base)

\* event2_newevent_x_replace.
event2_newevent_x_replace(h, d, v, base) ==
    ScheduleOrCall(Without(h), h, d, v, base)

\* event2_newevent_x_replace_exists: only the first pending one is replaced.
event2_newevent_x_replace_exists(h, d, v, base) ==
    /\ Pending(h)
    /\ LET s == Least({t \in Slots : Active(eventtab2[t])
                                     /\ eventtab2[t].handler = h})
       IN ScheduleOrCall([eventtab2 EXCEPT ![s] = Idle], h, d, v, base)

\* event2_newevent_x_add_not_exists.
event2_newevent_x_add_not_exists(h, d, v, base) ==
    /\ ~Pending(h)
    /\ ScheduleOrCall(eventtab2, h, d, v, base)

\* Every way in which code, on returning to `base`, schedules one event.
Schedules(base) ==
    \/ \E d \in Delays : event2_newevent_blitter(d, base)
    \/ \E h \in Handlers \ (Replaceable \cup {Blitter}), d \in Delays :
          \E v \in DataOf(h) : event2_newevent_xx(eventtab2, h, d, v, base)
    \/ \E h \in Replaceable, d \in Delays \cup {0} : \E v \in DataOf(h) :
          \/ event2_newevent_x_replace(h, d, v, base)
          \/ event2_newevent_x_replace_exists(h, d, v, base)
          \/ event2_newevent_x_add_not_exists(h, d, v, base)

-----------------------------------------------------------------------------
(* A handler runs: it may schedule events, then it returns.                *)
HandlerSchedules ==
    /\ At("handler") /\ Top.left > 0 /\ Len(stack) <= MaxDepth
    /\ Schedules(<<[Top EXCEPT !.left = @ - 1]>> \o Tail(stack))

HandlerReturns ==
    /\ At("handler") /\ Top.of # "event"
    /\ IF Top.of = "misc"
       THEN ReturnToMisc(stack[2])
       ELSE stack' = Tail(stack) /\ UNCHANGED <<event2cnt, event2restart>>
    /\ UNCHANGED <<nextevent, eventtab, eventtab2, event2idx, next>>

\* event2_newevent_xx goes on with its search after making room.
ResumeNewEvent ==
    /\ At("newevent")
    /\ Search(eventtab2, Top.no, Top.event, Tail(stack))

\* An entry of eventtab is armed or stopped, then events_schedule.
Arm(i, p) ==
    /\ eventtab' = [eventtab EXCEPT ![i] = p]
    /\ nextevent' = Scheduled(eventtab')

\* A periodic handler returns.  Until then its entry is still due, unless it was
\* stopped or armed on the way (sync_equalline_handler); CIA_handler,
\* audio_evhandler and sync_imm_evhandler arm or stop it as the last thing they do.
PeriodicReturns ==
    /\ At("handler") /\ Top.of = "event"
    /\ LET i == stack[2].i
       IN \/ \E p \in Periods \cup {EVT_MAX} : Arm(i, p)
          \/ eventtab[i] # 0 /\ UNCHANGED <<eventtab, nextevent>>
    /\ stack' = Tail(stack)
    /\ UNCHANGED <<eventtab2, event2idx, event2cnt, event2restart, next>>

-----------------------------------------------------------------------------
(* do_cycles_normal.                                                       *)
DoCycles(n) ==
    /\ Quiet
    /\ stack' = <<CyclesFrame(n, LoopHead)>>
    /\ UNCHANGED <<nextevent, eventtab, eventtab2, event2idx, event2cnt,
                   event2restart, next>>

AdvanceBy(d) ==
    /\ eventtab' = [i \in DOMAIN eventtab |-> Later(eventtab[i], d)]
    /\ eventtab2' = [s \in Slots |->
                        [eventtab2[s] EXCEPT !.evtime = Later(@, d)]]
    /\ nextevent' = Later(nextevent, d)
    /\ UNCHANGED <<event2idx, event2cnt, event2restart, next>>

\* currcycle jumps to nextevent and the scan of eventtab begins.
CyclesToNextEvent ==
    /\ At("cycles") /\ Top.i = LoopHead /\ nextevent <= Top.left
    /\ AdvanceBy(nextevent)
    /\ stack' = <<CyclesFrame(Top.left - nextevent, 0)>>

\* No event is near enough: the rest of the cycles pass.
CyclesDone ==
    /\ At("cycles") /\ Top.i = LoopHead /\ nextevent > Top.left
    /\ AdvanceBy(Top.left)
    /\ stack' = << >>

\* Fault: the clock loop serves ev_misc before the sync handler.
MutDueEntries ==
    LET due == {i \in Top.i .. ev_max - 1 : eventtab[i] = 0}
    IN IF ev_misc \in due THEN {ev_misc} ELSE due

\* The entries that the scan has yet to serve at this cycle.
DueEntries == {i \in Top.i .. ev_max - 1 : eventtab[i] = 0}

\* The loop calls the handler of a due entry, and finds the entry not due any
\* more when the handler is back: only then does it look at the next one.
CyclesServe ==
    /\ At("cycles") /\ Top.i <= ev_max /\ DueEntries # {}
    /\ LET i    == Least(DueEntries)
           base == <<[Top EXCEPT !.i = i]>>
       IN \/ i = ev_misc /\ EnterMisc(event2idx, base)
          \/ /\ i # ev_misc
             /\ stack' = <<HandlerFrame("event")>> \o base
             /\ UNCHANGED <<nextevent, eventtab, event2idx, event2cnt,
                            event2restart>>
    /\ UNCHANGED <<eventtab2, next>>

\* The scan is over: events_schedule.
CyclesScanned ==
    /\ At("cycles") /\ Top.i <= ev_max /\ DueEntries = {}
    /\ nextevent' = Scheduled(eventtab)
    /\ stack' = <<[Top EXCEPT !.i = LoopHead]>>
    /\ UNCHANGED <<eventtab, eventtab2, event2idx, event2cnt, event2restart,
                   next>>

-----------------------------------------------------------------------------
(* What the CPU's instructions do between two calls of do_cycles.          *)
CpuSchedules == Quiet /\ Schedules(<< >>)

\* Handlers remove events too (blitter_end, the keyboard controller).
Removes ==
    /\ Quiet \/ At("handler")
    /\ \/ \E h \in Replaceable : eventtab2' = Without(h)
       \/ eventtab2' = [eventtab2 EXCEPT ![ev2_blitter] = Idle]
    /\ UNCHANGED <<nextevent, eventtab, event2idx, event2cnt, event2restart,
                   next, stack>>

\* A periodic entry is armed or stopped, by the CPU (CIA or audio registers) or in
\* a handler (event_CIA_synced_interrupt, custom_trigger_start).
Arms ==
    /\ Quiet \/ At("handler")
    /\ \E i \in Periodic : \E p \in Periods \cup {EVT_MAX} : Arm(i, p)
    /\ UNCHANGED <<eventtab2, event2idx, event2cnt, event2restart, next, stack>>

\* A reset, by the CPU or in a handler.
ClearEvents ==
    /\ Quiet \/ At("handler")
    /\ nextevent' = EVT_MAX
    /\ eventtab' = [i \in DOMAIN eventtab |-> EVT_MAX]
    /\ eventtab2' = [s \in Slots |-> Idle]
    /\ UNCHANGED <<event2idx, event2cnt, event2restart, next, stack>>

RunStep == \/ MiscFire \/ MiscDone
           \/ HandlerReturns \/ PeriodicReturns \/ ResumeNewEvent
           \/ CyclesToNextEvent \/ CyclesDone \/ CyclesServe \/ CyclesScanned

Emulate == \E n \in 1 .. MaxCycles : DoCycles(n)

Next == RunStep \/ HandlerSchedules \/ Emulate
        \/ CpuSchedules \/ Removes \/ Arms \/ ClearEvents

Spec == Init /\ [][Next]_vars

\* Calls return (weak fairness of the running code), and the CPU keeps
\* executing instructions, each of which passes some cycles.
FairSpec == Spec /\ WF_vars(RunStep) /\ SF_vars(Emulate)

-----------------------------------------------------------------------------
\* The variables keep their types: times are relative or EVT_MAX, and the
\* stack holds frames of the four calls that can be in progress.
TypeOK ==
    /\ nextevent \in Int
    /\ eventtab \in [0 .. ev_max - 1 -> Int]
    /\ eventtab2 \in [Slots -> OneShot]
    /\ event2idx \in Slots
    /\ event2cnt \in 0 .. Len(stack)
    /\ event2restart \in 0 .. MaxRestart
    /\ next \in MiscSlots
    /\ stack \in Seq(Frame)

\* When no call is in progress, the table entry of MISC_handler is armed no
\* later than the soonest one-shot event: otherwise the event is missed.
MiscArmed ==
    Quiet => \A s \in Slots :
                Active(eventtab2[s]) =>
                    eventtab[ev_misc] <= eventtab2[s].evtime

\* When no call is in progress, every one-shot event still lies ahead of the
\* clock: do_cycles_normal ran every event whose time it passed.
NothingOverdue ==
    Quiet => \A s \in Slots : eventtab2[s].evtime > 0

\* do_cycles_normal never sets currcycle back.
ClockForward ==
    (At("cycles") /\ Top.i = LoopHead) => nextevent > 0

\* A handler that MISC_handler called is about to return to a scan that a
\* nested MISC_handler has made stale.
Restarting == At("handler") /\ Top.of = "misc" /\ event2restart > 0

\* As long as no scan is restarted, no event is missed, none is run late and
\* the clock is not set back, whatever handlers schedule and however the
\* table overflows: the restart is the only weak point.
OnTimeUnlessRestarted ==
    [](~Restarting) => [](MiscArmed /\ NothingOverdue /\ ClockForward)

\* The clock loop is in the middle of calling the handler of entry i.
Serving(i) ==
    Len(stack) > 1 /\ stack[Len(stack)].at = "cycles" /\ stack[Len(stack)].i = i

\* A one-shot event that is run while the clock loop runs never comes before the
\* handler of a horizontal sync due at the same cycle: the sync entry is not due
\* any more, or its handler is in progress and has scheduled an event itself.
SyncFirst ==
    (At("misc") /\ DueOffsets(Top) # {} /\ stack[Len(stack)].at = "cycles")
        => eventtab[ev_sync] # 0 \/ Serving(ev_sync)

\* event2cnt counts the handlers MISC_handler is in the middle of calling.
NestingCounted ==
    event2cnt = Cardinality({k \in DOMAIN stack :
                                stack[k].at = "handler" /\ stack[k].of = "misc"})

\* However the scans nest and restart, MISC_handler never returns while an
\* event due at this very cycle is still in the table.
ScanComplete ==
    [][MiscDone => \A s \in Slots : eventtab2[s].evtime # 0]_vars

\* A one-shot handler has scheduled an event.
Nested == \E k \in DOMAIN stack :
              stack[k].at = "handler" /\ stack[k].of # "event"
              /\ stack[k].left < PerOneShot

\* An interrupt event that has a slot is eventually run (or merged away): its
\* slot does not hold interrupt events for ever.  One-shot handlers must not
\* schedule, or each may fill the slot that was freed for the event before.
EventsServedUnlessNested ==
    [](~Nested) => \A s \in MiscSlots :
        (eventtab2[s].handler = Ext) ~> (eventtab2[s].handler # Ext)

-----------------------------------------------------------------------------
(* Why a scan is complete, and why events are on time.                     *)

\* A stack of given frames, each called from the next, the last a first one.
ChainOf(s, frames, calls, first) ==
    /\ s \in Seq(frames)
    /\ \A k \in 1 .. Len(s) - 1 : <<s[k], s[k + 1]>> \in calls
    /\ s # << >> => s[Len(s)] \in first

Handler(f, of) == f.at = "handler" /\ f.of = of

\* What calls what: g is in the middle of calling f.
CalledFrom(f, g) ==
    \/ f.at = "misc" /\ g.at = "cycles" /\ g.i = ev_misc
    \/ /\ Handler(f, "event") /\ g.at = "cycles"
       /\ g.i \in 0 .. ev_max - 1 /\ g.i # ev_misc
    \/ Handler(f, "misc") /\ g.at = "misc" /\ g.i < ev2_max
    \/ Handler(f, "newevent") /\ g.at = "newevent"
    \/ /\ f.at \in {"misc", "newevent"} \/ Handler(f, "direct")
       /\ g.at = "handler"

NotDue(f, k) == eventtab2[SlotAt(f, k)].evtime # 0

\* A scan leaves nothing due behind, nor at the offset whose handler it calls, and
\* the clock loop leaves no sync entry due behind.
StackFrames ==
    {f \in Frame :
        /\ f.at = "misc" => \A k \in 0 .. f.i - 1 : NotDue(f, k)
        /\ f.at = "newevent" => f.event.evtime \in 1 .. EVT_MAX
        /\ f.at = "cycles" /\ f.i \in 1 .. ev_max => eventtab[ev_sync] # 0}
StackCalls ==
    {c \in Frame \X Frame :
        /\ CalledFrom(c[1], c[2])
        /\ Handler(c[1], "misc") => NotDue(c[2], c[2].i)}
FirstFrames ==
    {f \in Frame : f.at # "handler" \/ f.of = "direct"}

ScansKept == ChainOf(stack, StackFrames, StackCalls, FirstFrames)

TableInv == TypeOK /\ NestingCounted /\ ScansKept

\* Nothing due lies behind the clock or at it.
Ahead == nextevent > 0 /\ \A i \in DOMAIN eventtab : nextevent <= eventtab[i]

NotBefore(f, k) == f.mintime <= eventtab2[SlotAt(f, k)].evtime

\* Where the clock loop has been nothing is due; a scan has met no event sooner
\* than mintime, and ev_misc waits for it.
TimelyFrames ==
    {f \in Frame :
        /\ f.at = "cycles" =>
               /\ f.left >= 0
               /\ f.i = LoopHead => Ahead
               /\ \A i \in DOMAIN eventtab : i < f.i => eventtab[i] > 0
        /\ f.at = "misc" =>
               /\ eventtab[ev_misc] = EVT_MAX /\ f.mintime \in 1 .. EVT_MAX
               /\ \A k \in 0 .. f.i - 1 : NotBefore(f, k)}
TimelyCalls ==
    {c \in Frame \X Frame : Handler(c[1], "misc") => NotBefore(c[2], c[2].i)}
TimelyFirst == {f \in Frame : f.at # "cycles" => Ahead}

\* As long as no scan is nested in another, ev_misc is armed in time.
TimesKept ==
    /\ \A s \in Slots : eventtab2[s].evtime \in 0 .. EVT_MAX
    /\ \A i \in DOMAIN eventtab : eventtab[i] \in 0 .. EVT_MAX
    /\ nextevent <= EVT_MAX
    /\ Quiet => Ahead
    /\ event2cnt <= 1 /\ (At("misc") => event2cnt = 0)
    /\ event2cnt = 0 /\ ~At("misc") =>
           \A s \in Slots : eventtab[ev_misc] <= eventtab2[s].evtime
    /\ ChainOf(stack, TimelyFrames, TimelyCalls, TimelyFirst)

\* ... and a nested scan is followed by a restart.
TimelyInv ==
    /\ event2restart > 0 => event2cnt > 0
    /\ event2restart = 0 => TimesKept
=============================================================================
