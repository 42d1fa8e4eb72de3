---------------------------- MODULE Native2Amiga ----------------------------
(***************************************************************************)
(* Calls of Exec functions by host threads (src/core/native2amiga.cpp).    *)
(*                                                                         *)
(* Exec can only be called by the 68k, so uae_Signal, uae_ReplyMsg,        *)
(* uae_PutMsg and uae_Cause write the function and its arguments, word by  *)
(* word, into the pipe native2amiga_pending and ask for an interrupt.  The *)
(* pipe has many writers: n2asem keeps the words of a call together.       *)
(*                                                                         *)
(* A call is a message of Length words; the functions differ in nothing    *)
(* else.  Calls are numbered in the order in which they get the semaphore. *)
(***************************************************************************)
EXTENDS CommPipe

CONSTANTS
    MaxCalls,  \* bound: calls that are made
    Length     \* their words: 2 (uae_ReplyMsg) to 4 (uae_Signal_with_Func)

Message   == 1 .. MaxCalls
NoMessage == 0

ASSUME MessageAssumption ==
    /\ Length \in [Message -> 2 .. 4]
    /\ \A m \in Message : Length[m] < Size
    /\ MaxCalls \in Nat
    /\ Word = {<<m, k>> : m \in Message, k \in 1 .. 4}

VARIABLES
    n2asem,              \* a semaphore
    uae_int_requested,   \* bit 0 of the variable of that name
    call,                \* each host thread's call: message and words written
    calls                \* number of calls begun

n2aVars == <<n2asem, uae_int_requested, call, calls>>

NoCall == [msg |-> NoMessage, part |-> 0, asked |-> FALSE]

N2AInit ==
    /\ PipeInit
    /\ n2asem = 1
    /\ uae_int_requested = FALSE
    /\ call = [w \in Writers |-> NoCall]
    /\ calls = 0

Calling(w) == call[w] # NoCall

\* Mutant: the semaphore is not taken.
MutBeginCall(w) ==
    /\ ~Calling(w) /\ calls < MaxCalls
    /\ calls' = calls + 1
    /\ call' = [call EXCEPT ![w] = [NoCall EXCEPT !.msg = calls']]
    /\ UNCHANGED <<pipeVars, n2asem, uae_int_requested>>

\* uae_nativesem_wait.
BeginCall(w) ==
    /\ ~Calling(w) /\ calls < MaxCalls
    /\ n2asem = 1
    /\ n2asem' = 0
    /\ calls' = calls + 1
    /\ call' = [call EXCEPT ![w] = [NoCall EXCEPT !.msg = calls']]
    /\ UNCHANGED <<pipeVars, uae_int_requested>>

Written(w) == Calling(w) /\ wpc[w] = "idle" /\ call[w].part = Length[call[w].msg]

\* The next word: only the last is to be passed on at once.
WriteWord(w) ==
    /\ Calling(w) /\ wpc[w] = "idle" /\ ~Written(w)
    /\ LET m == call[w].msg
           k == call[w].part + 1
       IN /\ BeginWrite(w, <<m, k>>, k = Length[m])
          /\ call' = [call EXCEPT ![w].part = k]
    /\ UNCHANGED <<n2asem, uae_int_requested, calls>>

\* Mutant: the interrupt is asked for before the words are written.
Mutdo_uae_int_requested(w) ==
    /\ Calling(w) /\ wpc[w] = "idle" /\ call[w].part = 0 /\ ~call[w].asked
    /\ uae_int_requested' = TRUE
    /\ call' = [call EXCEPT ![w].asked = TRUE]
    /\ UNCHANGED <<pipeVars, n2asem, calls>>

do_uae_int_requested(w) ==
    /\ Written(w) /\ ~call[w].asked
    /\ uae_int_requested' = TRUE
    /\ call' = [call EXCEPT ![w].asked = TRUE]
    /\ UNCHANGED <<pipeVars, n2asem, calls>>

\* uae_nativesem_post.
EndCall(w) ==
    /\ Written(w) /\ call[w].asked
    /\ n2asem' = 1
    /\ call' = [call EXCEPT ![w] = NoCall]
    /\ UNCHANGED <<pipeVars, uae_int_requested, calls>>

\* A call goes on.
CallSteps(w) ==
    \/ WriteWord(w) \/ do_uae_int_requested(w) \/ EndCall(w)
    \/ WriteSteps(w) /\ UNCHANGED n2aVars

HostSteps(w) == CallSteps(w) \/ BeginCall(w)

N2ATypeOK ==
    /\ PipeTypeOK
    /\ n2asem \in {0, 1}
    /\ uae_int_requested \in BOOLEAN
    /\ call \in [Writers -> [msg : Message \cup {NoMessage}, part : 0 .. 4,
                             asked : BOOLEAN]]
    /\ calls \in 0 .. MaxCalls
=============================================================================
