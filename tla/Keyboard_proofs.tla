--------------------------- MODULE Keyboard_proofs ----------------------------
(***************************************************************************)
(* Proofs about Keyboard for any keys, any size of the key buffer, any     *)
(* length of the phases and any number of key presses and resets.          *)
(***************************************************************************)
EXTENDS Keyboard, SequenceTheorems, TLAPS

-----------------------------------------------------------------------------
(* The types of what the handlers leave behind.                            *)

CiaTypes ==
    /\ sdr \in SerialByte /\ spmode \in BOOLEAN
    /\ kblostsynccnt \in 0 .. LostSync /\ kbstate \in 0 .. 3
    /\ resetwarning_phase \in 0 .. 3
    /\ resetwarning_timer \in 0 .. OutLines + WarnLines

BufferType == buffer \in Seq(KeyCode) /\ Len(buffer) < KEYBUF_SIZE

SequenceTypes ==
    /\ keyboard_reset_seq_mode \in 0 .. 4 /\ keyboard_reset_seq \in Nat
    /\ inreset \in BOOLEAN /\ quit_program \in {"no", "soft", "hard"}

LEMMA Numbers ==
    /\ LostSync \in Nat \ {0} /\ WarnLines \in Nat \ {0}
    /\ OutLines \in Nat \ {0} /\ PollLines \in Nat \ {0}
    /\ GiveUpSeq \in Nat \ {0} /\ HardSeq \in Nat \ {0}
    /\ KEYBUF_SIZE \in Nat /\ KEYBUF_SIZE > 1
    /\ 0 \in 0 .. LostSync /\ LostSync \in 0 .. LostSync
    /\ 0 \in 0 .. OutLines + WarnLines
    /\ WarnLines \in 0 .. OutLines + WarnLines
    /\ OutLines \in 0 .. OutLines + WarnLines
    /\ 0 \in 0 .. PollLines - 1
  BY KeyboardAssumption, SMT

LEMMA OwnTypes ==
    ASSUME NEW code \in OwnCodes
    PROVE  Own(code) \in SerialByte
  BY DEF Own, SerialByte

\* The keyboard's side of CIA-A after a reset, and after sendrw.
LEMMA CiaResets ==
    ASSUME CiaTypes, CIA_reset, sdr' = sdr
    PROVE  CiaTypes' /\ resetwarning_phase' = 0
<1>1. 0 \in 0 .. 3  BY SMT
<1> QED  BY <1>1, Numbers DEF CiaTypes, CIA_reset

LEMMA WarningSent ==
    ASSUME CiaTypes, NEW phase \in 1 .. 2, SendWarning(phase)
    PROVE  CiaTypes' /\ resetwarning_phase' = phase
<1>1. sdr' \in SerialByte  BY OwnTypes DEF SendWarning, OwnCodes
<1>2. /\ kblostsynccnt' = LostSync /\ resetwarning_timer' = WarnLines
      /\ resetwarning_phase' = phase /\ UNCHANGED <<kbstate, spmode>>
  BY DEF SendWarning
<1>3. phase \in 0 .. 3  BY SMT
<1> QED  BY <1>1, <1>2, <1>3, Numbers DEF CiaTypes

\* A key is recorded if there is room.
LEMMA Recorded ==
    ASSUME BufferType, NEW k \in Keys, NEW isDown \in BOOLEAN,
           record_key(k, isDown)
    PROVE  BufferType'
<1> DEFINE e == [key |-> k, down |-> isDown]
<1>1. CASE Len(buffer) < KEYBUF_SIZE - 1
  <2>1. buffer' = Append(buffer, e) /\ e \in KeyCode
    BY <1>1 DEF record_key, KeyCode
  <2> HIDE DEF e
  <2>2. buffer' \in Seq(KeyCode) /\ Len(buffer') = Len(buffer) + 1
    BY <2>1, AppendProperties DEF BufferType
  <2>3. Len(buffer) \in Nat  BY LenProperties DEF BufferType
  <2> QED  BY <1>1, <2>2, <2>3, Numbers, SMT DEF BufferType
<1>2. CASE ~ (Len(buffer) < KEYBUF_SIZE - 1)
  BY <1>2 DEF record_key, BufferType
<1> QED  BY <1>1, <1>2

\* The next byte goes out: one of the power-up codes, or the first key.
LEMMA ByteSent ==
    ASSUME CiaTypes, BufferType, check_keyboard
    PROVE  sdr' \in SerialByte /\ kbstate' \in 0 .. 3 /\ BufferType'
<1>1. CASE ~ReadyToSend  BY <1>1 DEF check_keyboard, CiaTypes, BufferType
<1>2. CASE ReadyToSend /\ kbstate < 3
  <2>1. /\ sdr' = Own(PowerUp[kbstate + 1]) /\ kbstate' = kbstate + 1
        /\ buffer' = buffer
    BY <1>2 DEF check_keyboard
  <2>2. kbstate \in {0, 1, 2}  BY <1>2, SMT DEF CiaTypes
  <2>3. /\ kbstate + 1 \in 1 .. 3 /\ kbstate' \in 0 .. 3
    BY <2>1, <2>2, SMT
  <2>4. \A i \in 1 .. 3 : PowerUp[i] \in OwnCodes
    <3>1. PowerUp[1] \in OwnCodes /\ PowerUp[2] \in OwnCodes
          /\ PowerUp[3] \in OwnCodes
      BY DEF PowerUp, OwnCodes
    <3>2. \A i \in 1 .. 3 : i = 1 \/ i = 2 \/ i = 3  BY SMT
    <3> QED  BY <3>1, <3>2
  <2> QED  BY <2>1, <2>3, <2>4, OwnTypes DEF BufferType
<1>3. CASE ReadyToSend /\ ~ (kbstate < 3)
  <2>1. /\ sdr' = Head(buffer) /\ buffer' = Tail(buffer) /\ kbstate' = kbstate
    BY <1>3 DEF check_keyboard
  <2>2. buffer # << >>  BY <1>3 DEF ReadyToSend
  <2>3. /\ Head(buffer) \in KeyCode /\ Tail(buffer) \in Seq(KeyCode)
        /\ Len(Tail(buffer)) = Len(buffer) - 1 /\ Len(buffer) \in Nat
    BY <2>2, HeadTailProperties, LenProperties DEF BufferType
  <2>4. Head(buffer) \in SerialByte  BY <2>3 DEF KeyCode, SerialByte
  <2>5. Len(Tail(buffer)) < KEYBUF_SIZE
    BY <2>3, Numbers, SMT DEF BufferType
  <2> QED  BY <2>1, <2>3, <2>4, <2>5 DEF CiaTypes, BufferType
<1> QED  BY <1>1, <1>2, <1>3

\* A reset that is asked for.
LEMMA ResetAsked ==
    ASSUME SequenceTypes, NEW hard \in BOOLEAN, uae_reset(hard)
    PROVE  /\ quit_program' \in {"soft", "hard"}
           /\ quit_program' # "no"
  BY DEF SequenceTypes, uae_reset

-----------------------------------------------------------------------------
(* A key event, with the keys then held.                                   *)

\* What the handler of a key event leaves behind, in all modes.
KeyEventTypes ==
    /\ CiaTypes /\ BufferType /\ SequenceTypes
    /\ keybuf \subseteq Keys

LEMMA InWarningTypes ==
    ASSUME KeyEventTypes, NEW held \in SUBSET Keys, KeyInWarning(held)
    PROVE  KeyEventTypes'
<1>1. /\ keybuf' = held
      /\ keyboard_reset_seq_mode' \in {0, 3, 4}
      /\ UNCHANGED <<keyboard_reset_seq, buffer, sdr, cia, warning, inreset,
                     quit_program>>
  BY DEF KeyInWarning
<1>2. {0, 3, 4} \subseteq 0 .. 4  BY SMT
<1> QED
  BY <1>1, <1>2
  DEF KeyEventTypes, CiaTypes, BufferType, SequenceTypes, cia, warning

LEMMA InResetTypes ==
    ASSUME KeyEventTypes, NEW held \in SUBSET Keys, KeyInReset(held)
    PROVE  KeyEventTypes'
<1>1. UNCHANGED <<buffer, sdr, inreset>>  BY DEF KeyInReset
<1>2. CASE keyboardresetkeys(held)
  <2>1. keybuf' = held /\ UNCHANGED <<seqVars, cia, warning, quit_program>>
    BY <1>2 DEF KeyInReset
  <2> QED
    BY <1>1, <2>1
    DEF KeyEventTypes, CiaTypes, BufferType, SequenceTypes, cia, warning,
        seqVars
<1>3. CASE ~keyboardresetkeys(held)
  <2>1. /\ keybuf' = {} /\ CIA_reset
        /\ uae_reset(\/ keyboard_reset_seq >= HardSeq
                     \/ keyboard_reset_seq_mode = 2)
        /\ keyboard_reset_seq_mode' = 0 /\ keyboard_reset_seq' = 0
    BY <1>3 DEF KeyInReset
  <2>2. quit_program' \in {"soft", "hard"}
    BY <2>1, ResetAsked DEF KeyEventTypes
  <2>3. CiaTypes'  BY <1>1, <2>1, CiaResets DEF KeyEventTypes
  <2>4. 0 \in 0 .. 4 /\ 0 \in Nat  BY SMT
  <2> QED
    BY <1>1, <2>1, <2>2, <2>3, <2>4
    DEF KeyEventTypes, BufferType, SequenceTypes
<1> QED  BY <1>2, <1>3

\* With no sequence under way a key starts one, is recorded, or is refused.
NormalCases(k, isDown, held) ==
    /\ keybuf' = held /\ UNCHANGED quit_program
    /\ \/ /\ keyboardresetkeys(held) \/ (k = AK_RESETWARNING /\ isDown)
          /\ SendWarning(1)
          /\ keyboard_reset_seq_mode' = 3 /\ UNCHANGED inreset
          /\ keyboard_reset_seq' \in {0, keyboard_reset_seq}
          /\ UNCHANGED buffer
       \/ /\ k = AK_RESETWARNING /\ isDown
          /\ UNCHANGED <<sdr, cia, warning, inreset, seqVars, buffer>>
       \/ /\ keyboardresetkeys(held)
          /\ CIA_reset /\ inreset' = TRUE
          /\ keyboard_reset_seq_mode' \in {1, 2} /\ keyboard_reset_seq' = 0
          /\ UNCHANGED <<sdr, buffer>>
       \/ /\ ~keyboardresetkeys(held) /\ record_key(k, isDown)
          /\ UNCHANGED <<seqVars, sdr, cia, warning, inreset>>

LEMMA NormalKeyCases ==
    ASSUME NEW k \in Keys, NEW isDown \in BOOLEAN, NEW held \in SUBSET Keys,
           NEW halted \in BOOLEAN, NormalKey(k, isDown, held, halted)
    PROVE  /\ keyboard_reset_seq_mode = 0
           /\ NormalCases(k, isDown, held)
<1>1. /\ keyboard_reset_seq_mode = 0 /\ keybuf' = held
      /\ UNCHANGED quit_program
  BY DEF NormalKey
<1>2. CASE k = AK_RESETWARNING /\ isDown
  <2>1. /\ \/ WarningStarts(halted)
           \/ UNCHANGED <<sdr, cia, warning, inreset, keyboard_reset_seq_mode>>
        /\ UNCHANGED <<keyboard_reset_seq, buffer>>
    BY <1>2 DEF NormalKey
  <2> QED  BY <1>1, <1>2, <2>1 DEF NormalCases, WarningStarts, seqVars
<1>3. CASE ~(k = AK_RESETWARNING /\ isDown) /\ keyboardresetkeys(held)
  <2>1. /\ \/ HoldInReset(2) \/ HoldInReset(1) \/ WarningStarts(halted)
        /\ keyboard_reset_seq' = 0
        /\ UNCHANGED buffer
    BY <1>3 DEF NormalKey
  <2> QED  BY <1>1, <1>3, <2>1 DEF NormalCases, WarningStarts, HoldInReset
<1>4. CASE ~(k = AK_RESETWARNING /\ isDown) /\ ~keyboardresetkeys(held)
  <2>1. /\ record_key(k, isDown)
        /\ UNCHANGED <<seqVars, sdr, cia, warning, inreset>>
    BY <1>4 DEF NormalKey
  <2> QED  BY <1>1, <1>4, <2>1 DEF NormalCases
<1> QED  BY <1>1, <1>2, <1>3, <1>4

LEMMA NormalTypes ==
    ASSUME KeyEventTypes, NEW k \in Keys, NEW isDown \in BOOLEAN,
           NEW held \in SUBSET Keys, NormalCases(k, isDown, held)
    PROVE  KeyEventTypes'
<1>1. keybuf' = held /\ quit_program' = quit_program  BY DEF NormalCases
<1>2. {0, 1, 2, 3} \subseteq 0 .. 4 /\ 0 \in Nat /\ 1 \in 1 .. 2  BY SMT
<1>3. CASE /\ SendWarning(1)
           /\ keyboard_reset_seq_mode' = 3 /\ UNCHANGED inreset
           /\ keyboard_reset_seq' \in {0, keyboard_reset_seq}
           /\ UNCHANGED buffer
  <2>1. CiaTypes'  BY <1>2, <1>3, WarningSent DEF KeyEventTypes
  <2> QED
    BY <1>1, <1>2, <1>3, <2>1 DEF KeyEventTypes, BufferType, SequenceTypes
<1>4. CASE UNCHANGED <<sdr, cia, warning, inreset, seqVars, buffer>>
  BY <1>1, <1>4
  DEF KeyEventTypes, CiaTypes, BufferType, SequenceTypes, cia, warning, seqVars
<1>5. CASE /\ CIA_reset /\ inreset' = TRUE
           /\ keyboard_reset_seq_mode' \in {1, 2} /\ keyboard_reset_seq' = 0
           /\ UNCHANGED <<sdr, buffer>>
  <2>1. CiaTypes'  BY <1>5, CiaResets DEF KeyEventTypes
  <2> QED
    BY <1>1, <1>2, <1>5, <2>1 DEF KeyEventTypes, BufferType, SequenceTypes
<1>6. CASE /\ record_key(k, isDown)
           /\ UNCHANGED <<seqVars, sdr, cia, warning, inreset>>
  <2>1. BufferType'  BY <1>6, Recorded DEF KeyEventTypes
  <2> QED
    BY <1>1, <1>6, <2>1
    DEF KeyEventTypes, CiaTypes, SequenceTypes, cia, warning, seqVars
<1> QED  BY <1>3, <1>4, <1>5, <1>6 DEF NormalCases

\* Any key event.
LEMMA KeyEvent ==
    ASSUME KeyEventTypes, NEW k \in Keys, NEW isDown \in BOOLEAN,
           inputdevice_do_keyboard(k, isDown)
    PROVE  KeyEventTypes' /\ UNCHANGED hsync_counter
<1> DEFINE held == IF isDown THEN keybuf \cup {k} ELSE keybuf \ {k}
<1>1. /\ \/ KeyInWarning(held) \/ KeyInReset(held)
         \/ \E halted \in BOOLEAN : NormalKey(k, isDown, held, halted)
      /\ UNCHANGED hsync_counter
  BY DEF inputdevice_do_keyboard
<1>2. held \in SUBSET Keys  BY DEF KeyEventTypes
<1> HIDE DEF held
<1> QED  BY <1>1, <1>2, InWarningTypes, InResetTypes, NormalKeyCases, NormalTypes

-----------------------------------------------------------------------------
(* Type correctness, with or without resets from elsewhere.                *)

LEMMA Parts ==
    TypeOK <=> /\ KeyEventTypes
               /\ down \subseteq Keys
               /\ presses \in 0 .. MaxPresses /\ resets \in 0 .. MaxResets
               /\ hsync_counter \in 0 .. PollLines - 1
  BY DEF TypeOK, KeyEventTypes, CiaTypes, BufferType, SequenceTypes

LEMMA InitTypeOK == Init => TypeOK
<1> SUFFICES ASSUME Init PROVE TypeOK  OBVIOUS
<1>1. /\ << >> \in Seq(KeyCode) /\ Len(<< >>) = 0
      /\ Own("none") \in SerialByte
  BY EmptySeq, OwnTypes DEF OwnCodes
<1>2. /\ 0 < KEYBUF_SIZE /\ 0 \in 0 .. 3 /\ 0 \in 0 .. 4
      /\ 0 \in 0 .. MaxPresses /\ 0 \in 0 .. MaxResets
  BY KeyboardAssumption, SMT
<1> QED  BY <1>1, <1>2, Numbers DEF Init, TypeOK

LEMMA UserTypes ==
    ASSUME TypeOK, NEW k \in Keys, Press(k) \/ Release(k)
    PROVE  TypeOK'
<1>1. PICK isDown \in BOOLEAN : inputdevice_do_keyboard(k, isDown)
  BY DEF Press, Release
<1>2. /\ down' \subseteq Keys
      /\ presses' \in 0 .. MaxPresses /\ resets' = resets
  <2>1. presses \in 0 .. MaxPresses /\ down \subseteq Keys  BY DEF TypeOK
  <2>2. CASE Press(k)
    <3>1. /\ presses < MaxPresses /\ presses' = presses + 1
          /\ resets' = resets /\ down' = down \cup {k}
      BY <2>2 DEF Press
    <3>2. presses' \in 0 .. MaxPresses
      BY <2>1, <3>1, KeyboardAssumption, SMT
    <3> QED  BY <2>1, <3>1, <3>2
  <2>3. CASE Release(k)  BY <2>1, <2>3 DEF Release
  <2> QED  BY <2>2, <2>3
<1>3. KeyEventTypes' /\ hsync_counter' = hsync_counter
  BY <1>1, KeyEvent, Parts
<1>4. hsync_counter' \in 0 .. PollLines - 1  BY <1>3 DEF TypeOK
<1> QED
  BY <1>2, <1>3, <1>4
  DEF TypeOK, KeyEventTypes, CiaTypes, BufferType, SequenceTypes

\* One line of a reset warning.
LEMMA WarningCheckTypes ==
    ASSUME TypeOK, resetwarning_check
    PROVE  /\ CiaTypes'
           /\ /\ keyboard_reset_seq_mode' \in 0 .. 4
              /\ inreset' \in BOOLEAN
              /\ quit_program' \in {"no", "soft", "hard"}
<1>0. KeyEventTypes /\ CiaTypes /\ SequenceTypes
  BY Parts DEF KeyEventTypes
<1>1. CASE inputdevice_do_kb_reset /\ UNCHANGED sdr
  <2>1. CiaTypes'  BY <1>0, <1>1, CiaResets DEF inputdevice_do_kb_reset
  <2>2. 0 \in 0 .. 4 /\ 4 \in 0 .. 4  BY SMT
  <2>3. CASE keyboard_reset_seq_mode = 3 /\ keyboardresetkeys(keybuf)
    BY <1>0, <1>1, <2>1, <2>2, <2>3 DEF inputdevice_do_kb_reset, SequenceTypes
  <2>4. CASE ~(keyboard_reset_seq_mode = 3 /\ keyboardresetkeys(keybuf))
    <3>1. /\ uae_reset(FALSE) /\ UNCHANGED inreset
          /\ keyboard_reset_seq_mode' \in {0, keyboard_reset_seq_mode}
      BY <1>1, <2>4 DEF inputdevice_do_kb_reset
    <3>2. quit_program' \in {"soft", "hard"}  BY <1>0, <3>1, ResetAsked
    <3> QED  BY <1>0, <2>1, <2>2, <3>1, <3>2 DEF SequenceTypes
  <2> QED  BY <2>3, <2>4
<1>2. CASE /\ SendWarning(2)
           /\ UNCHANGED <<keyboard_reset_seq_mode, inreset, quit_program>>
  <2>1. 2 \in 1 .. 2  BY SMT
  <2> QED  BY <1>0, <1>2, <2>1, WarningSent DEF SequenceTypes
<1>3. CASE /\ resetwarning_phase' = 3 /\ resetwarning_timer' = OutLines
           /\ UNCHANGED <<keyboard_reset_seq_mode, sdr, cia, inreset,
                          quit_program>>
  <2>1. 3 \in 0 .. 3  BY SMT
  <2> QED  BY <1>0, <1>3, <2>1, Numbers DEF SequenceTypes, CiaTypes, cia
<1>4. CASE /\ WarningWaits
           /\ UNCHANGED <<keyboard_reset_seq_mode, sdr, cia, inreset,
                          quit_program>>
  <2>1. resetwarning_timer' \in 0 .. OutLines + WarnLines
    BY <1>0, <1>4, Numbers, SMT DEF WarningWaits, CiaTypes
  <2> QED
    BY <1>0, <1>4, <2>1 DEF SequenceTypes, CiaTypes, cia, WarningWaits
<1> QED  BY <1>1, <1>2, <1>3, <1>4 DEF resetwarning_check

LEMMA HsyncTypes == ASSUME TypeOK, Hsync PROVE TypeOK'
<1>0. /\ KeyEventTypes /\ CiaTypes /\ SequenceTypes /\ BufferType
      /\ hsync_counter \in 0 .. PollLines - 1
  BY Parts DEF KeyEventTypes
<1>1. /\ hsync_counter' = (hsync_counter + 1) % PollLines
      /\ UNCHANGED <<down, presses, resets, keybuf, keyboard_reset_seq>>
  BY DEF Hsync, user
<1>2. hsync_counter' \in 0 .. PollLines - 1
  BY <1>0, <1>1, Numbers, SMT
<1>3. CASE resetwarning_phase # 0
  <2>1. resetwarning_check /\ buffer' = << >>  BY <1>3 DEF Hsync
  <2>2. /\ CiaTypes' /\ keyboard_reset_seq_mode' \in 0 .. 4
        /\ inreset' \in BOOLEAN
        /\ quit_program' \in {"no", "soft", "hard"}
    BY <2>1, WarningCheckTypes
  <2>3. BufferType'
    <3>1. << >> \in Seq(KeyCode) /\ Len(<< >>) = 0  BY EmptySeq
    <3>2. 0 < KEYBUF_SIZE  BY Numbers, SMT
    <3> QED  BY <2>1, <3>1, <3>2 DEF BufferType
  <2>4. KeyEventTypes'
    BY <1>0, <1>1, <2>2, <2>3 DEF KeyEventTypes, SequenceTypes
  <2> QED
    BY <1>1, <1>2, <2>4
    DEF TypeOK, KeyEventTypes, CiaTypes, BufferType, SequenceTypes
<1>4. CASE resetwarning_phase = 0
  <2>1. UNCHANGED <<spmode, warning, keyboard_reset_seq_mode, inreset,
                    quit_program>>
    BY <1>4 DEF Hsync
  <2>2. /\ sdr' \in SerialByte /\ kbstate' \in 0 .. 3 /\ BufferType'
        /\ kblostsynccnt' \in 0 .. LostSync
    <3>1. CASE hsync_counter = 0
      <4>1. /\ check_keyboard
            /\ kblostsynccnt' \in {LostSync, kblostsynccnt}
        BY <1>4, <3>1 DEF Hsync
      <4> QED  BY <1>0, <4>1, ByteSent, Numbers DEF CiaTypes
    <3>2. CASE hsync_counter # 0
      <4>1. UNCHANGED <<sdr, kbstate, buffer, kblostsynccnt>>
        BY <1>4, <3>2 DEF Hsync
      <4> QED  BY <1>0, <4>1 DEF CiaTypes, BufferType
    <3> QED  BY <3>1, <3>2
  <2>3. KeyEventTypes'
    BY <1>0, <1>1, <2>1, <2>2
    DEF KeyEventTypes, SequenceTypes, CiaTypes, warning
  <2> QED
    BY <1>1, <1>2, <2>3
    DEF TypeOK, KeyEventTypes, CiaTypes, BufferType, SequenceTypes
<1> QED  BY <1>3, <1>4

LEMMA VsyncTypes == ASSUME TypeOK, Vsync PROVE TypeOK'
<1>1. UNCHANGED <<user, keybuf, keyboard_reset_seq_mode, buffer, kbstate,
                  spmode, warning, hsync_counter, inreset, quit_program>>
  BY DEF Vsync
<1>2. kblostsynccnt' \in 0 .. LostSync
  <2>1. kblostsynccnt \in 0 .. LostSync  BY DEF TypeOK
  <2>2. kblostsynccnt' = CASE kblostsynccnt = 0 -> 0
                           [] kblostsynccnt = 1 -> LostSync
                           [] OTHER             -> kblostsynccnt - 1
    BY DEF Vsync
  <2>3. \/ kblostsynccnt = 0 /\ kblostsynccnt' = 0
        \/ kblostsynccnt = 1 /\ kblostsynccnt' = LostSync
        \/ kblostsynccnt # 0 /\ kblostsynccnt' = kblostsynccnt - 1
    <3>1. 0 # 1  BY SMT
    <3> QED  BY <2>2, <3>1
  <2> QED  BY <2>1, <2>3, Numbers, SMT
<1>3. sdr' \in SerialByte
  <2>1. Own("resync") \in SerialByte  BY OwnTypes DEF OwnCodes
  <2> QED  BY <2>1 DEF Vsync, TypeOK
<1>4. keyboard_reset_seq' \in Nat  BY SMT DEF Vsync, TypeOK
<1> QED  BY <1>1, <1>2, <1>3, <1>4 DEF TypeOK, user, warning

LEMMA AmigaTypes ==
    ASSUME TypeOK, NEW early \in BOOLEAN, WriteCra(early)
    PROVE  TypeOK'
<1>0. /\ KeyEventTypes /\ CiaTypes /\ BufferType
  BY Parts DEF KeyEventTypes
<1>1. /\ spmode' = ~spmode
      /\ UNCHANGED <<user, keybuf, seqVars, warning, hsync_counter, inreset,
                     quit_program>>
  BY DEF WriteCra
<1>2. /\ sdr' \in SerialByte /\ kbstate' \in 0 .. 3 /\ BufferType'
  <2>1. check_keyboard \/ UNCHANGED <<sdr, kbstate, buffer>>
    BY DEF WriteCra
  <2>2. CASE check_keyboard  BY <1>0, <2>2, ByteSent
  <2>3. CASE UNCHANGED <<sdr, kbstate, buffer>>
    BY <1>0, <2>3 DEF CiaTypes, BufferType
  <2> QED  BY <2>1, <2>2, <2>3
<1>3. kblostsynccnt' \in 0 .. LostSync
  BY <1>0, Numbers DEF WriteCra, Acknowledged, CiaTypes
<1> QED  BY <1>1, <1>2, <1>3
         DEF TypeOK, BufferType, user, seqVars, warning

LEMMA ResetTypes ==
    ASSUME TypeOK,
           m68k_go \/ CpuResetInstruction \/ HostReset \/ keyboard_connected
    PROVE  TypeOK'
<1>0. /\ KeyEventTypes /\ CiaTypes /\ SequenceTypes /\ BufferType
  BY Parts DEF KeyEventTypes
<1>1. CASE m68k_go
  <2>1. CiaTypes'  BY <1>0, <1>1, CiaResets DEF m68k_go
  <2> QED
    BY <1>1, <2>1, Numbers DEF m68k_go, TypeOK, CiaTypes, user, seqVars
<1>2. ASSUME FromElsewhere
      PROVE  /\ resets' \in 0 .. MaxResets
             /\ UNCHANGED <<down, presses>>
  <2>1. resets \in 0 .. MaxResets /\ resets < MaxResets
        /\ resets' = resets + 1
    BY <1>2 DEF FromElsewhere, TypeOK
  <2>2. resets' \in 0 .. MaxResets
    BY <2>1, KeyboardAssumption, SMT
  <2> QED  BY <1>2, <2>2 DEF FromElsewhere
<1>3. CASE CpuResetInstruction
  <2>1. CiaTypes'  BY <1>0, <1>3, CiaResets DEF CpuResetInstruction
  <2>2. FromElsewhere  BY <1>3 DEF CpuResetInstruction
  <2> QED
    BY <1>2, <1>3, <2>1, <2>2 DEF CpuResetInstruction, TypeOK, CiaTypes, seqVars
<1>4. CASE HostReset
  <2>1. /\ FromElsewhere
        /\ \E hard \in BOOLEAN : uae_reset(hard)
        /\ UNCHANGED <<keybuf, seqVars, buffer, sdr, cia, warning,
                       hsync_counter, inreset>>
    BY <1>4 DEF HostReset
  <2>2. quit_program' \in {"soft", "hard"}  BY <1>0, <2>1, ResetAsked
  <2> QED
    BY <1>2, <2>1, <2>2 DEF TypeOK, seqVars, cia, warning
<1>5. CASE keyboard_connected
  <2>1. 0 \in 0 .. 3  BY SMT
  <2> QED  BY <1>2, <1>5, <2>1, Numbers DEF keyboard_connected, TypeOK, seqVars
<1> QED  BY <1>1, <1>3, <1>4, <1>5

LEMMA NextTypeOK == TypeOK /\ [Next]_vars => TypeOK'
<1> SUFFICES ASSUME TypeOK, [Next]_vars PROVE TypeOK'  OBVIOUS
<1>1. CASE User  BY <1>1, UserTypes DEF User
<1>2. CASE Sync  BY <1>2, HsyncTypes, VsyncTypes DEF Sync
<1>3. CASE Amiga  BY <1>3, AmigaTypes DEF Amiga
<1>4. CASE Resets  BY <1>4, ResetTypes DEF Resets
<1>5. CASE UNCHANGED vars
  BY <1>5 DEF TypeOK, vars, user, seqVars, cia, warning
<1> QED  BY <1>1, <1>2, <1>3, <1>4, <1>5 DEF Next

-----------------------------------------------------------------------------
(* The invariant, when no other reset comes during a keyboard reset.       *)

\* What a key event may do to the sequence: nothing, start one with the keys
\* held as they should be, or end one for good when a key is let go.
LEMMA KeyEventKeeps ==
    ASSUME KeyboardInv, NEW k \in Keys, NEW isDown \in BOOLEAN,
           NEW held, held = IF isDown THEN keybuf \cup {k} ELSE keybuf \ {k},
           inputdevice_do_keyboard(k, isDown),
           isDown => quit_program = "no",
           down' = IF isDown THEN down \cup {k} ELSE down \ {k}
    PROVE  WarningTracked' /\ SequenceKept' /\ ResetKept'
<1>0. /\ keybuf \subseteq down /\ keyboard_reset_seq = 0
      /\ keyboard_reset_seq_mode = 0 => ~keyboardresetkeys(keybuf)
      /\ keyboard_reset_seq_mode \in {1, 2, 4} => keyboardresetkeys(keybuf)
      /\ quit_program # "no" => keyboard_reset_seq_mode = 0
      /\ inreset => \/ keyboard_reset_seq_mode \in {1, 2, 4}
                    \/ quit_program # "no" /\ ~(ResetKeys \subseteq down)
      /\ (keyboard_reset_seq_mode = 3) <=> (resetwarning_phase > 0)
      /\ KeyEventTypes
  BY Parts DEF KeyboardInv, SequenceKept, ResetKept, WarningTracked
<1>1. held \subseteq down' /\ held \in SUBSET Keys
  BY <1>0 DEF KeyEventTypes
<1>2. 1 > 0 /\ ~(0 > 0) /\ ~(0 >= GiveUpSeq) /\ 0 < GiveUpSeq /\ 1 \in 1 .. 2
  BY Numbers, SMT
<1>3. CASE KeyInWarning(held)
  <2>1. /\ keyboard_reset_seq_mode = 3 /\ keybuf' = held
        /\ keyboard_reset_seq_mode' = 3
        /\ UNCHANGED <<keyboard_reset_seq, resetwarning_phase, inreset,
                       quit_program>>
    BY <1>0, <1>2, <1>3 DEF KeyInWarning, warning
  <2>2. ~inreset  BY <1>0, <2>1, SMT
  <2> QED
    BY <1>0, <1>1, <2>1, <2>2
    DEF WarningTracked, SequenceKept, ResetKept
<1>4. CASE KeyInReset(held)
  <2>1. /\ keyboard_reset_seq_mode \in {1, 2, 4} /\ UNCHANGED inreset
        /\ quit_program = "no" /\ keyboardresetkeys(keybuf)
    <3>1. keyboard_reset_seq_mode \in {1, 2, 4} /\ UNCHANGED inreset
      BY <1>4 DEF KeyInReset
    <3>2. keyboard_reset_seq_mode # 0  BY <3>1, SMT
    <3> QED  BY <1>0, <3>1, <3>2
  <2>2. CASE keyboardresetkeys(held)
    <3>1. /\ keybuf' = held
          /\ UNCHANGED <<keyboard_reset_seq_mode, keyboard_reset_seq,
                         resetwarning_phase, quit_program>>
      BY <1>4, <2>2 DEF KeyInReset, seqVars, warning
    <3>2. keyboard_reset_seq_mode # 0 /\ keyboard_reset_seq_mode # 3
      BY <2>1, SMT
    <3> QED
      BY <1>0, <1>1, <2>1, <2>2, <3>1, <3>2
      DEF WarningTracked, SequenceKept, ResetKept
  <2>3. CASE ~keyboardresetkeys(held)
    <3>1. /\ keybuf' = {} /\ resetwarning_phase' = 0
          /\ keyboard_reset_seq_mode' = 0 /\ keyboard_reset_seq' = 0
          /\ uae_reset(\/ keyboard_reset_seq >= HardSeq
                       \/ keyboard_reset_seq_mode = 2)
      BY <1>4, <2>3 DEF KeyInReset, CIA_reset
    <3>2. quit_program' # "no"
      BY <1>0, <3>1, ResetAsked DEF KeyEventTypes
    \* The key that was let go is one of the three.
    <3>3. ~(ResetKeys \subseteq down')
      <4>1. ~isDown /\ k \in ResetKeys
        BY <2>1, <2>3 DEF keyboardresetkeys
      <4> QED  BY <4>1
    <3>4. ~keyboardresetkeys({})
      BY KeyboardAssumption DEF keyboardresetkeys
    <3>5. 0 # 3 /\ 0 \notin {1, 2, 4}  BY SMT
    <3> QED
      BY <1>2, <3>1, <3>2, <3>3, <3>4, <3>5
      DEF WarningTracked, SequenceKept, ResetKept
  <2> QED  BY <2>2, <2>3
<1>5. ASSUME NEW halted \in BOOLEAN, NormalKey(k, isDown, held, halted)
      PROVE  WarningTracked' /\ SequenceKept' /\ ResetKept'
  <2>1. keyboard_reset_seq_mode = 0 /\ NormalCases(k, isDown, held)
    BY <1>1, <1>5, NormalKeyCases
  <2>2. keybuf' = held /\ quit_program' = quit_program
    BY <2>1 DEF NormalCases
  <2>3. ~keyboardresetkeys(keybuf) /\ ~(resetwarning_phase > 0)
    <3>1. 0 # 3  BY SMT
    <3> QED  BY <1>0, <2>1, <3>1
  \* Only a key that goes down completes the three keys.
  <2>4. keyboardresetkeys(held) => quit_program = "no" /\ isDown
    BY <2>3 DEF keyboardresetkeys
  <2>5. inreset => quit_program # "no" /\ ~(ResetKeys \subseteq down)
    <3>1. 0 \notin {1, 2, 4}  BY SMT
    <3> QED  BY <1>0, <2>1, <3>1
  <2>6. ~(ResetKeys \subseteq down) /\ quit_program # "no"
            => ~(ResetKeys \subseteq down')
    OBVIOUS
  <2>7. AK_RESETWARNING = k => ~keyboardresetkeys(held)
    BY <2>3, KeyboardAssumption DEF keyboardresetkeys
  <2>8. CASE /\ keyboardresetkeys(held) \/ (k = AK_RESETWARNING /\ isDown)
             /\ SendWarning(1)
             /\ keyboard_reset_seq_mode' = 3 /\ UNCHANGED inreset
             /\ keyboard_reset_seq' \in {0, keyboard_reset_seq}
    <3>1. resetwarning_phase' = 1  BY <2>8 DEF SendWarning
    <3>2. 3 # 0 /\ 3 \notin {1, 2, 4}  BY SMT
    <3>3. quit_program = "no"  BY <2>4, <2>8
    <3> QED
      BY <1>0, <1>1, <1>2, <2>2, <2>5, <2>8, <3>1, <3>2, <3>3
      DEF WarningTracked, SequenceKept, ResetKept
  <2>9. CASE /\ ~keyboardresetkeys(held)
             /\ UNCHANGED <<warning, inreset, seqVars>>
    <3>1. 0 \notin {1, 2, 4}  BY SMT
    <3> QED
      BY <1>0, <1>1, <2>1, <2>2, <2>5, <2>6, <2>9, <3>1
      DEF WarningTracked, SequenceKept, ResetKept, warning, seqVars
  <2>10. CASE /\ keyboardresetkeys(held)
              /\ CIA_reset
              /\ keyboard_reset_seq_mode' \in {1, 2}
              /\ keyboard_reset_seq' = 0
    <3>1. resetwarning_phase' = 0  BY <2>10 DEF CIA_reset
    <3>2. /\ keyboard_reset_seq_mode' # 0 /\ keyboard_reset_seq_mode' # 3
          /\ keyboard_reset_seq_mode' \in {1, 2, 4}
      BY <2>10, SMT
    <3> QED
      BY <1>1, <1>2, <2>2, <2>4, <2>10, <3>1, <3>2
      DEF WarningTracked, SequenceKept, ResetKept
  <2> QED  BY <2>1, <2>7, <2>8, <2>9, <2>10 DEF NormalCases
<1> QED  BY <1>3, <1>4, <1>5 DEF inputdevice_do_keyboard

\* The parts of the invariant speak of few variables.
LEMMA Untouched ==
    ASSUME KeyboardInv,
           UNCHANGED <<down, keybuf, keyboard_reset_seq_mode,
                       keyboard_reset_seq, inreset, quit_program>>,
           resetwarning_phase' > 0 <=> resetwarning_phase > 0
    PROVE  WarningTracked' /\ SequenceKept' /\ ResetKept'
  BY DEF KeyboardInv, WarningTracked, SequenceKept, ResetKept

\* The end of a reset warning.
LEMMA WarningEnds ==
    ASSUME KeyboardInv, resetwarning_phase > 0, inputdevice_do_kb_reset,
           UNCHANGED <<down, keybuf, keyboard_reset_seq>>
    PROVE  WarningTracked' /\ SequenceKept' /\ ResetKept'
<1>0. /\ keyboard_reset_seq_mode = 3 /\ keybuf \subseteq down
      /\ keyboard_reset_seq = 0 /\ SequenceTypes
  BY Parts
  DEF KeyboardInv, WarningTracked, SequenceKept, KeyEventTypes
<1>1. /\ resetwarning_phase' = 0 /\ ~(0 > 0)
      /\ 0 # 3 /\ 4 # 3 /\ 4 # 0 /\ 4 \in {1, 2, 4} /\ 0 \notin {1, 2, 4}
      /\ 3 # 0 /\ 3 \notin {1, 2, 4}
  <2>1. resetwarning_phase' = 0  BY DEF inputdevice_do_kb_reset, CIA_reset
  <2> QED  BY <2>1, SMT
<1>2. quit_program = "no" /\ ~inreset
  BY <1>0, <1>1 DEF KeyboardInv, ResetKept
<1>3. CASE keyboardresetkeys(keybuf)
  <2>1. /\ keyboard_reset_seq_mode' = 4 /\ inreset' = TRUE
        /\ UNCHANGED quit_program
    BY <1>0, <1>3 DEF inputdevice_do_kb_reset
  <2> QED
    BY <1>0, <1>1, <1>2, <1>3, <2>1
    DEF WarningTracked, SequenceKept, ResetKept
<1>4. CASE ~keyboardresetkeys(keybuf)
  <2>1. /\ keyboard_reset_seq_mode' = 0 /\ uae_reset(FALSE)
        /\ UNCHANGED inreset
    BY <1>0, <1>4 DEF inputdevice_do_kb_reset
  <2> QED
    BY <1>0, <1>1, <1>2, <1>4, <2>1
    DEF WarningTracked, SequenceKept, ResetKept
<1> QED  BY <1>3, <1>4

LEMMA HsyncKeeps ==
    ASSUME KeyboardInv, Hsync
    PROVE  WarningTracked' /\ SequenceKept' /\ ResetKept'
<1>0. resetwarning_phase \in 0 .. 3  BY DEF KeyboardInv, TypeOK
<1>1. UNCHANGED <<down, keybuf, keyboard_reset_seq>>  BY DEF Hsync, user
<1>2. CASE resetwarning_phase = 0
  <2>1. UNCHANGED <<warning, keyboard_reset_seq_mode, inreset, quit_program>>
    BY <1>2 DEF Hsync
  <2> QED  BY <1>1, <2>1, Untouched DEF warning
<1>3. CASE resetwarning_phase # 0
  <2>1. resetwarning_phase > 0  BY <1>0, <1>3, SMT
  <2>2. resetwarning_check  BY <1>3 DEF Hsync
  <2>3. CASE inputdevice_do_kb_reset  BY <1>1, <2>1, <2>3, WarningEnds
  <2>4. CASE /\ UNCHANGED <<keyboard_reset_seq_mode, inreset, quit_program>>
             /\ resetwarning_phase' \in {2, 3, resetwarning_phase}
    <3>1. resetwarning_phase' > 0  BY <2>1, <2>4, SMT
    <3> QED  BY <1>1, <2>1, <2>4, <3>1, Untouched
  <2> QED
    BY <2>2, <2>3, <2>4 DEF resetwarning_check, SendWarning, WarningWaits
<1> QED  BY <1>2, <1>3

LEMMA QuietKeeps ==
    ASSUME KeyboardInv, Vsync \/ Amiga
    PROVE  WarningTracked' /\ SequenceKept' /\ ResetKept'
<1>1. CASE Vsync
  <2>1. keyboard_reset_seq' = keyboard_reset_seq
    <3>1. keyboard_reset_seq = 0  BY DEF KeyboardInv, SequenceKept
    <3>2. ~(keyboard_reset_seq > 0)  BY <3>1, SMT
    <3> QED  BY <1>1, <3>2 DEF Vsync
  <2> QED  BY <1>1, <2>1, Untouched DEF Vsync, user, warning
<1>2. CASE Amiga
  BY <1>2, Untouched DEF Amiga, WriteCra, user, seqVars, warning
<1> QED  BY <1>1, <1>2

LEMMA ResetsKeep ==
    ASSUME KeyboardInv, Resets, ~Overlap
    PROVE  WarningTracked' /\ SequenceKept' /\ ResetKept'
<1>0. /\ (keyboard_reset_seq_mode = 3) <=> (resetwarning_phase > 0)
      /\ quit_program # "no" => keyboard_reset_seq_mode = 0
      /\ inreset => \/ keyboard_reset_seq_mode \in {1, 2, 4}
                    \/ quit_program # "no" /\ ~(ResetKeys \subseteq down)
      /\ SequenceKept /\ SequenceTypes
  BY Parts DEF KeyboardInv, WarningTracked, ResetKept, KeyEventTypes
<1>1. 0 # 3 /\ ~(0 > 0) /\ 0 \notin {1, 2, 4}  BY SMT
<1>2. CASE m68k_go
  <2>1. /\ quit_program # "no" /\ quit_program' = "no" /\ ~inreset'
        /\ resetwarning_phase' = 0
        /\ UNCHANGED <<down, keybuf, keyboard_reset_seq_mode,
                       keyboard_reset_seq>>
    BY <1>2 DEF m68k_go, CIA_reset, user, seqVars
  <2> QED
    BY <1>0, <1>1, <2>1 DEF WarningTracked, SequenceKept, ResetKept
<1>3. ASSUME FromElsewhere
      PROVE  /\ keyboard_reset_seq_mode = 0 /\ quit_program = "no"
             /\ ~inreset /\ ~(resetwarning_phase > 0)
             /\ UNCHANGED down
  <2>1. keyboard_reset_seq_mode = 0 /\ quit_program = "no" /\ UNCHANGED down
    BY <1>3 DEF FromElsewhere
  <2> QED  BY <1>0, <1>1, <2>1
<1>4. CASE CpuResetInstruction \/ keyboard_connected
  <2>1. /\ FromElsewhere /\ resetwarning_phase' = 0
        /\ UNCHANGED <<keybuf, seqVars, inreset, quit_program>>
    BY <1>4 DEF CpuResetInstruction, keyboard_connected, CIA_reset
  <2> QED  BY <1>1, <1>3, <2>1, Untouched DEF seqVars
<1>5. CASE HostReset
  <2>1. /\ FromElsewhere
        /\ UNCHANGED <<keybuf, seqVars, warning, inreset>>
    BY <1>5 DEF HostReset
  <2> QED
    BY <1>0, <1>1, <1>3, <2>1
    DEF WarningTracked, SequenceKept, ResetKept, seqVars, warning
<1> QED  BY <1>2, <1>4, <1>5 DEF Resets

LEMMA NextKeyboardInv ==
    ASSUME ~Overlap
    PROVE  KeyboardInv /\ [Next]_vars => KeyboardInv'
<1> SUFFICES ASSUME KeyboardInv, [Next]_vars PROVE KeyboardInv'  OBVIOUS
<1>1. TypeOK'  BY NextTypeOK DEF KeyboardInv
<1>2. CASE User
  <2>1. PICK k \in Keys : Press(k) \/ Release(k)  BY <1>2 DEF User
  <2>2. CASE Press(k)
    <3>1. /\ inputdevice_do_keyboard(k, TRUE) /\ quit_program = "no"
          /\ down' = down \cup {k}
      BY <2>2 DEF Press
    <3> QED  BY <1>1, <3>1, KeyEventKeeps DEF KeyboardInv
  <2>3. CASE Release(k)
    <3>1. inputdevice_do_keyboard(k, FALSE) /\ down' = down \ {k}
      BY <2>3 DEF Release
    <3> QED  BY <1>1, <3>1, KeyEventKeeps DEF KeyboardInv
  <2> QED  BY <2>1, <2>2, <2>3
<1>3. CASE Hsync  BY <1>1, <1>3, HsyncKeeps DEF KeyboardInv
<1>4. CASE Vsync \/ Amiga  BY <1>1, <1>4, QuietKeeps DEF KeyboardInv
<1>5. CASE Resets  BY <1>1, <1>5, ResetsKeep DEF KeyboardInv
<1>6. CASE UNCHANGED vars
  <2>1. UNCHANGED <<down, keybuf, keyboard_reset_seq_mode, keyboard_reset_seq,
                    inreset, quit_program, resetwarning_phase>>
    BY <1>6 DEF vars, user, seqVars, warning
  <2> QED  BY <1>1, <2>1, Untouched DEF KeyboardInv
<1> QED  BY <1>2, <1>3, <1>4, <1>5, <1>6 DEF Next, Sync

LEMMA InitKeyboardInv == Init => KeyboardInv
<1> SUFFICES ASSUME Init PROVE KeyboardInv  OBVIOUS
<1>1. 0 # 3 /\ ~(0 > 0) /\ 0 \notin {1, 2, 4}  BY SMT
<1>2. ~keyboardresetkeys({})
  BY KeyboardAssumption DEF keyboardresetkeys
<1> QED
  BY <1>1, <1>2, InitTypeOK
  DEF Init, KeyboardInv, WarningTracked, SequenceKept, ResetKept

-----------------------------------------------------------------------------
(* The theorems.                                                           *)

\* The variables keep their types and the key buffer its size, whatever resets
\* come when (record_key, check_keyboard, sendrw).
THEOREM TypeCorrect == Spec => []TypeOK
<1> QED  BY InitTypeOK, NextTypeOK, PTL DEF Spec

\* The inductive invariant: what inputdevice.cpp and cia.cpp know of a keyboard
\* reset and what the keys held say stay in step.
THEOREM Inductive == ASSUME ~Overlap PROVE Spec => []KeyboardInv
<1>1. KeyboardInv /\ [Next]_vars => KeyboardInv'  BY NextKeyboardInv
<1> QED  BY <1>1, InitKeyboardInv, PTL DEF Spec

\* keyboard_reset_seq_mode and resetwarning_phase agree on whether a warning is
\* under way.
THEOREM RecordsAgree == ASSUME ~Overlap PROVE Spec => []WarningTracked
<1>1. KeyboardInv => WarningTracked  BY DEF KeyboardInv
<1> QED  BY <1>1, Inductive, PTL

\* The CPU only leaves reset (m68k_go) when one of the three keys is let go.
THEOREM ReleasedLate == ASSUME ~Overlap PROVE Spec => HeldInReset
<1>1. ASSUME KeyboardInv, [Next]_vars
      PROVE  [inreset /\ ~inreset' => ~(ResetKeys \subseteq down)]_vars
  <2> SUFFICES ASSUME Next, inreset, ~inreset'
               PROVE  ~(ResetKeys \subseteq down)
    BY <1>1
  <2>1. CASE m68k_go
    <3>1. quit_program # "no"  BY <2>1 DEF m68k_go
    <3>2. keyboard_reset_seq_mode = 0  BY <1>1, <3>1 DEF KeyboardInv, ResetKept
    <3>3. 0 \notin {1, 2, 4}  BY SMT
    <3> QED  BY <1>1, <3>2, <3>3 DEF KeyboardInv, ResetKept
  \* Nothing else takes the CPU out of reset.
  <2>2. CASE ~m68k_go
    <3>1. Resets => UNCHANGED inreset
      BY <2>2 DEF Resets, CpuResetInstruction, HostReset, keyboard_connected
    <3>2. Sync => UNCHANGED inreset \/ inreset' = TRUE
      BY DEF Sync, Hsync, Vsync, resetwarning_check, inputdevice_do_kb_reset
    <3>3. Amiga => UNCHANGED inreset  BY DEF Amiga, WriteCra
    <3>4. User => UNCHANGED inreset \/ inreset' = TRUE
      <4> SUFFICES ASSUME User PROVE UNCHANGED inreset \/ inreset' = TRUE
        OBVIOUS
      <4>1. PICK k \in Keys, isDown \in BOOLEAN :
                inputdevice_do_keyboard(k, isDown)
        BY DEF User, Press, Release
      <4>2. PICK held \in SUBSET Keys :
                \/ KeyInWarning(held) \/ KeyInReset(held)
                \/ \E halted \in BOOLEAN : NormalKey(k, isDown, held, halted)
        BY <1>1, <4>1 DEF inputdevice_do_keyboard, KeyboardInv, TypeOK
      <4>3. CASE KeyInWarning(held)  BY <4>3 DEF KeyInWarning
      <4>4. CASE KeyInReset(held)  BY <4>4 DEF KeyInReset
      <4>5. CASE NormalCases(k, isDown, held)  BY <4>5 DEF NormalCases
      <4> QED  BY <4>2, <4>3, <4>4, <4>5, NormalKeyCases
    <3> QED  BY <3>1, <3>2, <3>3, <3>4 DEF Next
  <2> QED  BY <2>1, <2>2
<1> QED  BY <1>1, Inductive, PTL DEF Spec, HeldInReset

\* A key leaves the buffer for the serial register or in a reset warning, whatever
\* resets come when: the other steps only add keys to it, if they touch it.
THEOREM KeysNotLost == Spec => KeysKept
<1>1. ASSUME TypeOK, [Next]_vars
      PROVE  [Len(buffer') < Len(buffer) => Sent \/ resetwarning_phase # 0]_vars
  <2> SUFFICES ASSUME Next, Len(buffer') < Len(buffer), resetwarning_phase = 0
               PROVE  Sent
    BY <1>1
  <2>1. BufferType /\ Len(buffer) \in Nat
    BY <1>1, LenProperties DEF TypeOK, BufferType
  <2>2. buffer' # buffer  BY <2>1, SMT
  <2>3. ASSUME NEW k \in Keys, NEW isDown \in BOOLEAN, record_key(k, isDown)
        PROVE  FALSE
    <3>1. buffer' = Append(buffer, [key |-> k, down |-> isDown])
      BY <2>2, <2>3 DEF record_key
    <3>2. [key |-> k, down |-> isDown] \in KeyCode  BY DEF KeyCode
    <3>3. Len(buffer') = Len(buffer) + 1
      BY <2>1, <3>1, <3>2, AppendProperties DEF BufferType
    <3> QED  BY <2>1, <3>3, SMT
  <2>4. ASSUME check_keyboard PROVE Sent
    BY <2>2, <2>4 DEF check_keyboard, Sent
  <2>5. CASE User
    <3>1. PICK k \in Keys, isDown \in BOOLEAN : inputdevice_do_keyboard(k, isDown)
      BY <2>5 DEF User, Press, Release
    <3>2. PICK held \in SUBSET Keys :
              \/ KeyInWarning(held) \/ KeyInReset(held)
              \/ \E halted \in BOOLEAN : NormalKey(k, isDown, held, halted)
      BY <1>1, <3>1 DEF inputdevice_do_keyboard, TypeOK
    <3>3. ~KeyInWarning(held)  BY <2>2 DEF KeyInWarning
    <3>4. ~KeyInReset(held)  BY <2>2 DEF KeyInReset
    <3>5. ~NormalCases(k, isDown, held)  BY <2>2, <2>3 DEF NormalCases
    <3> QED  BY <3>2, <3>3, <3>4, <3>5, NormalKeyCases
  <2>6. CASE Sync  BY <2>2, <2>4, <2>6 DEF Sync, Hsync, Vsync
  <2>7. CASE Amiga  BY <2>2, <2>4, <2>7 DEF Amiga, WriteCra
  <2>8. CASE Resets
    BY <2>2, <2>8
       DEF Resets, m68k_go, CpuResetInstruction, HostReset, keyboard_connected
  <2> QED  BY <2>5, <2>6, <2>7, <2>8 DEF Next
<1> QED  BY <1>1, TypeCorrect, PTL DEF Spec, KeysKept
=============================================================================
