---------------------------- MODULE SampleStream ----------------------------
(***************************************************************************)
(* What the sound output promises: the bytes that the emulation submits    *)
(* and that are accepted are played in their order, each once, and silence *)
(* is only played when nothing is left to play.  Submitted bytes are       *)
(* numbered, so that they can be told apart.                               *)
(***************************************************************************)
EXTENDS Integers, Sequences

CONSTANTS Frame, Capacity, Block, Numbers, Silence

VARIABLES
    sent,     \* the number of the next byte
    stream,   \* bytes accepted and not yet handed to the device
    block     \* the last block handed to it

vars == <<sent, stream, block>>

Init == sent = 0 /\ stream = << >> /\ block = [i \in 1 .. Block |-> Silence]

\* Whole frames are accepted, as many as there is room for at most.
Accepted ==
    \E n \in 1 .. Capacity :
        /\ n % Frame = 0 /\ Len(stream) + n <= Capacity
        /\ stream' = stream \o [i \in 1 .. n |-> (sent + i - 1) % Numbers]
        /\ sent' = (sent + n) % Numbers
        /\ block' = block

\* The device gets the next block.
Handed ==
    LET n == IF Len(stream) < Block THEN Len(stream) ELSE Block
    IN /\ block' = [i \in 1 .. Block |-> IF i <= n THEN stream[i] ELSE Silence]
       /\ stream' = SubSeq(stream, n + 1, Len(stream))
       /\ sent' = sent

\* The output is opened anew, and what had not been played is gone.
Reopened == sent' = 0 /\ stream' = << >> /\ block' = block

Next == Accepted \/ Handed \/ Reopened

Spec == Init /\ [][Next]_vars
=============================================================================
