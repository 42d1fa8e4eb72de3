------------------------------ MODULE Keyboard ------------------------------
(***************************************************************************)
(* The emulated Amiga keyboard with keyboard_mode 0: from a key event of   *)
(* the host (inputdevice_do_keyboard in src/core/inputdevice.cpp) through  *)
(* the key buffer to the serial register of CIA-A and its handshake        *)
(* (src/core/cia.cpp), and the keyboard reset by Ctrl-Amiga-Amiga with its *)
(* reset warning.                                                          *)
(*                                                                         *)
(* One thread runs it all, but four parties take turns on it: the user,    *)
(* the program on the Amiga, the horizontal and the vertical sync, and     *)
(* m68k_go, which carries out a reset that was asked for.  The progress of *)
(* a keyboard reset is kept twice, in keyboard_reset_seq_mode and in       *)
(* resetwarning_phase, by two files that reset the two independently.      *)
(*                                                                         *)
(* Text injection and the delayed releases of the key buffer, which nothing*)
(* in the source asks for, are left out.                                   *)
(***************************************************************************)
EXTENDS Integers, Sequences

CONSTANTS
    ResetKeys,       \* Ctrl, left Amiga and right Amiga
    AltKey,          \* either Alt
    AK_RESETWARNING, \* a key that starts a reset warning by itself
    OtherKeys,
    KEYBUF_SIZE,     \* the key buffer holds one key less
    LostSync,        \* frames until a missing handshake is noticed (8 * 8)
    WarnLines,       \* lines until a phase of the warning is cut short
    OutLines,        \* lines the Amiga may hold a handshake in phase 3
    PollLines,       \* the buffer is looked at once in so many lines (16)
    GiveUpSeq,       \* 15 * 50
    HardSeq,         \* 5 * 50
    cs_resetwarning, \* configuration: the keyboard warns before a reset
    CpuBoard,        \* configuration: an accelerator board is fitted
    Overlap,         \* whether other resets may come during a keyboard reset
    MaxPresses,      \* bound: keys the user presses
    MaxResets        \* bound: resets from elsewhere

Keys == ResetKeys \cup {AltKey, AK_RESETWARNING} \cup OtherKeys

ASSUME KeyboardAssumption ==
    /\ KEYBUF_SIZE \in Nat /\ KEYBUF_SIZE > 1
    /\ {LostSync, WarnLines, OutLines, PollLines, GiveUpSeq, HardSeq}
           \subseteq Nat \ {0}
    /\ {cs_resetwarning, CpuBoard, Overlap} \subseteq BOOLEAN
    /\ {MaxPresses, MaxResets} \subseteq Nat
    /\ ResetKeys # {}
    /\ AltKey \notin ResetKeys /\ AK_RESETWARNING \notin ResetKeys

\* What the serial register of CIA-A can hold: a key going down or up, or one
\* of the codes the keyboard sends by itself.
OwnCodes   == {"none", "resync", "init_powerup", "term_powerup", "resetwarning"}
KeyCode    == [key : Keys, down : BOOLEAN]
SerialByte == [key : Keys \cup OwnCodes, down : BOOLEAN]
Own(code)  == [key |-> code, down |-> TRUE]
PowerUp    == <<"resync", "init_powerup", "term_powerup">>

VARIABLES
    down,                    \* the keys the user holds
    presses,                 \* keys pressed so far
    resets,                  \* resets from elsewhere so far
    keybuf,                  \* the keys inputdevice.cpp takes to be held
    keyboard_reset_seq_mode,
    keyboard_reset_seq,
    buffer,                  \* recorded keys that the CIA has not got yet
    sdr,                     \* the serial register
    spmode,                  \* CR_SPMODE, the Amiga's side of the handshake
    kblostsynccnt,           \* frames left to wait for the handshake
    kbstate,                 \* power-up codes sent
    resetwarning_phase, resetwarning_timer,
    hsync_counter,
    inreset,                 \* SPCFLAG_CPUINRESET, the CPU stands still
    quit_program             \* the reset that m68k_go has been asked for

user    == <<down, presses, resets>>
seqVars == <<keyboard_reset_seq_mode, keyboard_reset_seq>>
warning == <<resetwarning_phase, resetwarning_timer>>
cia     == <<kblostsynccnt, kbstate, spmode>>
vars    == <<user, keybuf, seqVars, buffer, sdr, cia, warning,
             hsync_counter, inreset, quit_program>>

Init ==
    /\ down = {} /\ presses = 0 /\ resets = 0
    /\ keybuf = {}
    /\ keyboard_reset_seq_mode = 0 /\ keyboard_reset_seq = 0
    /\ buffer = << >>
    /\ sdr = Own("none")
    /\ spmode = FALSE
    /\ kblostsynccnt = 0
    /\ kbstate = 0
    /\ resetwarning_phase = 0 /\ resetwarning_timer = 0
    /\ hsync_counter = 0
    /\ inreset = FALSE
    /\ quit_program = "no"

-----------------------------------------------------------------------------
keyboardresetkeys(held) == ResetKeys \subseteq held

\* CIA_reset, which every custom_reset comes to.
CIA_reset ==
    /\ kblostsynccnt' = 0
    /\ kbstate' = 0
    /\ spmode' = FALSE
    /\ resetwarning_phase' = 0 /\ resetwarning_timer' = 0

\* uae_reset does nothing when a reset has been asked for already.
uae_reset(hard) ==
    quit_program' = IF quit_program # "no" THEN quit_program
                    ELSE IF hard THEN "hard" ELSE "soft"

\* Mutant: a warning is begun without a time limit.
MutSendWarning(phase) ==
    /\ resetwarning_phase' = phase
    /\ resetwarning_timer' = 0
    /\ sdr' = Own("resetwarning")
    /\ kblostsynccnt' = LostSync
    /\ UNCHANGED <<kbstate, spmode>>

\* sendrw, in a phase that lasts WarnLines lines.
SendWarning(phase) ==
    /\ resetwarning_phase' = phase
    /\ resetwarning_timer' = WarnLines
    /\ sdr' = Own("resetwarning")
    /\ kblostsynccnt' = LostSync
    /\ UNCHANGED <<kbstate, spmode>>

\* record_key; the key is lost when the buffer is full.
record_key(k, isDown) ==
    buffer' = IF Len(buffer) < KEYBUF_SIZE - 1
              THEN Append(buffer, [key |-> k, down |-> isDown]) ELSE buffer

-----------------------------------------------------------------------------
(* inputdevice_do_keyboard: keybuf has become `held`.                      *)

\* During a reset warning keys are only noted.
KeyInWarning(held) ==
    /\ keyboard_reset_seq_mode = 3
    /\ keybuf' = held
    /\ keyboard_reset_seq_mode' =
           IF keyboard_reset_seq < GiveUpSeq THEN 3
           ELSE IF keyboardresetkeys(held) THEN 4 ELSE 0
    /\ UNCHANGED <<keyboard_reset_seq, buffer, sdr, cia, warning, inreset,
                   quit_program>>

\* Mutant: any key ends the reset.
MutKeyInReset(held) ==
    /\ keyboard_reset_seq_mode \in {1, 2, 4}
    /\ keybuf' = {}
    /\ CIA_reset
    /\ uae_reset(keyboard_reset_seq_mode = 2)
    /\ keyboard_reset_seq_mode' = 0 /\ keyboard_reset_seq' = 0
    /\ UNCHANGED <<buffer, sdr, inreset>>

\* The reset is over as soon as the three keys are no longer held together.
KeyInReset(held) ==
    /\ keyboard_reset_seq_mode \in {1, 2, 4}
    /\ IF keyboardresetkeys(held)
       THEN /\ keybuf' = held
            /\ UNCHANGED <<seqVars, cia, warning, quit_program>>
       ELSE /\ keybuf' = {}
            /\ CIA_reset
            /\ uae_reset(\/ keyboard_reset_seq >= HardSeq
                         \/ keyboard_reset_seq_mode = 2)
            /\ keyboard_reset_seq_mode' = 0 /\ keyboard_reset_seq' = 0
    /\ UNCHANGED <<buffer, sdr, inreset>>

\* The CPU is put in reset until the keys are released.
HoldInReset(mode) ==
    /\ CIA_reset
    /\ inreset' = TRUE
    /\ keyboard_reset_seq_mode' = mode
    /\ UNCHANGED sdr

\* resetwarning_do refuses during another warning and with a halted CPU.
WarningStarts(halted) ==
    /\ resetwarning_phase = 0 /\ ~halted
    /\ SendWarning(1)
    /\ keyboard_reset_seq_mode' = 3
    /\ UNCHANGED inreset

NormalKey(k, isDown, held, halted) ==
    /\ keyboard_reset_seq_mode = 0
    /\ keybuf' = held
    /\ LET refused == resetwarning_phase # 0 \/ halted
       IN CASE k = AK_RESETWARNING /\ isDown ->
                   /\ \/ WarningStarts(halted)
                      \/ refused /\ UNCHANGED <<sdr, cia, warning, inreset,
                                                keyboard_reset_seq_mode>>
                   /\ UNCHANGED <<keyboard_reset_seq, buffer>>
            [] ~(k = AK_RESETWARNING /\ isDown) /\ keyboardresetkeys(held) ->
                   /\ \/ AltKey \in held /\ HoldInReset(2)
                      \/ AltKey \notin held /\ cs_resetwarning
                                            /\ WarningStarts(halted)
                      \/ /\ AltKey \notin held
                         /\ ~cs_resetwarning \/ refused
                         /\ HoldInReset(1)
                   /\ keyboard_reset_seq' = 0
                   /\ UNCHANGED buffer
            [] OTHER ->
                   /\ record_key(k, isDown)
                   /\ UNCHANGED <<seqVars, sdr, cia, warning, inreset>>
    /\ UNCHANGED quit_program

inputdevice_do_keyboard(k, isDown) ==
    LET held == IF isDown THEN keybuf \cup {k} ELSE keybuf \ {k}
    IN /\ \/ KeyInWarning(held)
          \/ KeyInReset(held)
          \/ \E halted \in BOOLEAN : NormalKey(k, isDown, held, halted)
       /\ UNCHANGED hsync_counter

\* The user's keys.  Unless Overlap, none is pressed between the moment a reset is
\* asked for and m68k_go: the code has no such guard, and a key pressed then may
\* begin a sequence that m68k_go's reset cuts short.
Press(k) ==
    /\ k \notin down /\ presses < MaxPresses
    /\ Overlap \/ quit_program = "no"
    /\ down' = down \cup {k} /\ presses' = presses + 1 /\ UNCHANGED resets
    /\ inputdevice_do_keyboard(k, TRUE)

Release(k) ==
    /\ k \in down
    /\ down' = down \ {k} /\ UNCHANGED <<presses, resets>>
    /\ inputdevice_do_keyboard(k, FALSE)

-----------------------------------------------------------------------------
(* The sync handlers.                                                      *)

\* inputdevice_do_kb_reset.
inputdevice_do_kb_reset ==
    /\ CIA_reset
    /\ IF keyboard_reset_seq_mode = 3 /\ keyboardresetkeys(keybuf)
       THEN /\ keyboard_reset_seq_mode' = 4
            /\ inreset' = TRUE
            /\ UNCHANGED quit_program
       ELSE /\ keyboard_reset_seq_mode' =
                   IF keyboard_reset_seq_mode = 3 THEN 0
                   ELSE keyboard_reset_seq_mode
            /\ uae_reset(FALSE)
            /\ UNCHANGED inreset

\* resetwarning_check, once in a line of a reset warning.
TimedOut == resetwarning_timer = 1

WarningWaits ==
    /\ resetwarning_timer' = IF resetwarning_timer > 0
                             THEN resetwarning_timer - 1 ELSE 0
    /\ UNCHANGED resetwarning_phase

resetwarning_check ==
    \/ /\ TimedOut \/ (resetwarning_phase = 3 /\ ~spmode)
       /\ inputdevice_do_kb_reset
       /\ UNCHANGED sdr
    \/ /\ ~TimedOut /\ resetwarning_phase = 1 /\ kblostsynccnt = 0
       /\ SendWarning(2)
       /\ UNCHANGED <<keyboard_reset_seq_mode, inreset, quit_program>>
    \/ /\ ~TimedOut /\ resetwarning_phase = 2 /\ spmode
       /\ resetwarning_phase' = 3 /\ resetwarning_timer' = OutLines
       /\ UNCHANGED <<keyboard_reset_seq_mode, sdr, cia, inreset,
                      quit_program>>
    \/ /\ ~TimedOut
       /\ \/ resetwarning_phase = 1 /\ kblostsynccnt # 0
          \/ resetwarning_phase = 2 /\ ~spmode
          \/ resetwarning_phase = 3 /\ spmode
       /\ WarningWaits
       /\ UNCHANGED <<keyboard_reset_seq_mode, sdr, cia, inreset,
                      quit_program>>

\* check_keyboard: the next byte goes to the CIA once the last one has been
\* acknowledged.
ReadyToSend == (buffer # << >> \/ kbstate < 3) /\ kblostsynccnt = 0

check_keyboard ==
    IF ~ReadyToSend THEN UNCHANGED <<sdr, kbstate, buffer>>
    ELSE IF kbstate < 3
    THEN /\ sdr' = Own(PowerUp[kbstate + 1])
         /\ kbstate' = kbstate + 1
         /\ UNCHANGED buffer
    ELSE /\ sdr' = Head(buffer)
         /\ buffer' = Tail(buffer)
         /\ UNCHANGED kbstate

\* CIA_hsync_posthandler.
Hsync ==
    /\ hsync_counter' = (hsync_counter + 1) % PollLines
    /\ IF resetwarning_phase # 0
       THEN /\ resetwarning_check
            /\ buffer' = << >>
       ELSE /\ IF hsync_counter = 0
               THEN /\ check_keyboard
                    /\ kblostsynccnt' = IF ReadyToSend THEN LostSync
                                        ELSE kblostsynccnt
               ELSE UNCHANGED <<sdr, kbstate, buffer, kblostsynccnt>>
            /\ UNCHANGED <<spmode, warning, keyboard_reset_seq_mode, inreset,
                           quit_program>>
    /\ UNCHANGED <<user, keybuf, keyboard_reset_seq>>

\* CIA_vsync_prehandler sends a resynchronisation code when the handshake has
\* not come in time; inputdevice_vsync counts how long a reset is held.
Vsync ==
    /\ kblostsynccnt' = CASE kblostsynccnt = 0 -> 0
                          [] kblostsynccnt = 1 -> LostSync
                          [] OTHER             -> kblostsynccnt - 1
    /\ sdr' = IF kblostsynccnt = 1 THEN Own("resync") ELSE sdr
    /\ keyboard_reset_seq' =
           IF keyboard_reset_seq_mode # 0 /\ keyboard_reset_seq > 0
           THEN keyboard_reset_seq + 1 ELSE keyboard_reset_seq
    /\ UNCHANGED <<user, keybuf, keyboard_reset_seq_mode, buffer, kbstate,
                   spmode, warning, hsync_counter, inreset, quit_program>>

-----------------------------------------------------------------------------
(* The Amiga, and resets that have nothing to do with the keyboard.        *)

\* Mutant: the end of the handshake is not noticed.
MutAcknowledged(lost) == lost

\* The end of a handshake acknowledges whatever was sent last.
Acknowledged(lost) == IF spmode THEN 0 ELSE lost

\* The program turns CR_SPMODE on, and off again: a handshake.  Early boot
\* code on an accelerator board polls the keyboard with it (early).
WriteCra(early) ==
    /\ ~inreset
    /\ early => CpuBoard
    /\ spmode' = ~spmode
    /\ IF early THEN check_keyboard ELSE UNCHANGED <<sdr, kbstate, buffer>>
    /\ kblostsynccnt' = Acknowledged(IF early /\ ReadyToSend THEN LostSync
                                     ELSE kblostsynccnt)
    /\ UNCHANGED <<user, keybuf, seqVars, warning, hsync_counter, inreset,
                   quit_program>>

Handshake ==
    /\ spmode \/ kblostsynccnt > 0
    /\ WriteCra(FALSE)

\* m68k_go carries out the reset.
m68k_go ==
    /\ quit_program # "no"
    /\ quit_program' = "no"
    /\ CIA_reset
    /\ inreset' = FALSE
    /\ hsync_counter' = 0
    /\ UNCHANGED <<user, keybuf, seqVars, buffer, sdr>>

\* A reset that does not come from the keyboard.
FromElsewhere ==
    /\ Overlap \/ (quit_program = "no" /\ keyboard_reset_seq_mode = 0)
    /\ resets < MaxResets /\ resets' = resets + 1
    /\ UNCHANGED <<down, presses>>

\* The RESET instruction of the 68000 (cpureset).
CpuResetInstruction ==
    /\ FromElsewhere
    /\ ~inreset
    /\ CIA_reset
    /\ UNCHANGED <<keybuf, seqVars, buffer, sdr, hsync_counter, inreset,
                   quit_program>>

\* A reset that the host asks for.
HostReset ==
    /\ FromElsewhere
    /\ \E hard \in BOOLEAN : uae_reset(hard)
    /\ UNCHANGED <<keybuf, seqVars, buffer, sdr, cia, warning,
                   hsync_counter, inreset>>

\* The keyboard is plugged in or out in the configuration.
keyboard_connected ==
    /\ FromElsewhere
    /\ kbstate' = 0 /\ kblostsynccnt' = 0 /\ resetwarning_phase' = 0
    /\ UNCHANGED <<keybuf, seqVars, buffer, sdr, spmode,
                   resetwarning_timer, hsync_counter, inreset, quit_program>>

-----------------------------------------------------------------------------
User   == \E k \in Keys : Press(k) \/ Release(k)
Sync   == Hsync \/ Vsync
Amiga  == \E early \in BOOLEAN : WriteCra(early)
Resets == m68k_go \/ CpuResetInstruction \/ HostReset \/ keyboard_connected

Next == User \/ Sync \/ Amiga \/ Resets

Spec == Init /\ [][Next]_vars

\* Lines and frames go by, resets are carried out, and the user does not hold
\* a key for ever.
FairSpec == /\ Spec
            /\ WF_vars(Hsync) /\ WF_vars(Vsync) /\ WF_vars(m68k_go)
            /\ \A k \in Keys : WF_vars(Release(k))

-----------------------------------------------------------------------------
\* The variables keep their types, and the key buffer its size.
TypeOK ==
    /\ down \subseteq Keys /\ keybuf \subseteq Keys
    /\ presses \in 0 .. MaxPresses /\ resets \in 0 .. MaxResets
    /\ keyboard_reset_seq_mode \in 0 .. 4 /\ keyboard_reset_seq \in Nat
    /\ buffer \in Seq(KeyCode) /\ Len(buffer) < KEYBUF_SIZE
    /\ sdr \in SerialByte
    /\ spmode \in BOOLEAN /\ inreset \in BOOLEAN
    /\ kblostsynccnt \in 0 .. LostSync
    /\ kbstate \in 0 .. 3
    /\ resetwarning_phase \in 0 .. 3
    /\ resetwarning_timer \in 0 .. OutLines + WarnLines
    /\ hsync_counter \in 0 .. PollLines - 1
    /\ quit_program \in {"no", "soft", "hard"}

\* The two records of a reset warning agree, as long as no other reset comes
\* in between.
WarningTracked == (keyboard_reset_seq_mode = 3) <=> (resetwarning_phase > 0)

\* Between two key events a sequence is under way exactly when it should be:
\* never without the three keys, unless it is a warning, and always with them.
SequenceKept ==
    /\ keybuf \subseteq down
    /\ keyboard_reset_seq = 0
    /\ keyboard_reset_seq_mode = 0 => ~keyboardresetkeys(keybuf)
    /\ keyboard_reset_seq_mode \in {1, 2, 4} => keyboardresetkeys(keybuf)

\* A CPU that is held in reset has a sequence under way that will end in a
\* reset, or that reset to come, with one of the three keys let go.
ResetKept ==
    /\ quit_program # "no" => keyboard_reset_seq_mode = 0
    /\ inreset => \/ keyboard_reset_seq_mode \in {1, 2, 4}
                  \/ quit_program # "no" /\ ~(ResetKeys \subseteq down)

\* Why the two records agree and the CPU waits for the keys, as long as no
\* other reset comes in between.
KeyboardInv == TypeOK /\ WarningTracked /\ SequenceKept /\ ResetKept

\* The CPU is kept in reset as long as the user holds the three keys.
HeldInReset == [][inreset /\ ~inreset' => ~(ResetKeys \subseteq down)]_vars

\* A keyboard reset that has begun is carried out: the keyboard never keeps
\* swallowing keys with nothing to end it.
ComboResets == (keyboard_reset_seq_mode # 0) ~> (quit_program # "no")

\* The oldest key goes from the buffer into the serial register.
Sent == sdr' = Head(buffer) /\ buffer' = Tail(buffer)

\* A key that got a place in the buffer leaves it for the serial register, after
\* those typed before it, or is thrown away by a reset warning: no reset of the
\* CIA or of the CPU loses one.  (A key that finds the buffer full is not recorded
\* at all.)
KeysKept == [][Len(buffer') < Len(buffer) => Sent \/ resetwarning_phase # 0]_vars

\* So it is, and as long as the program on the Amiga answers what it is sent, the
\* buffer does not hold keys for ever.
KeysSent ==
    /\ KeysKept
    /\ WF_vars(Handshake) => ((buffer # << >>) ~> (buffer = << >>))
=============================================================================
