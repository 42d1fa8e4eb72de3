---------------------------- MODULE BoundedFifo -----------------------------
(***************************************************************************)
(* What one thread of the emulator expects of a queue that it shares with  *)
(* another, whatever the queue is built from: the entries come out one at  *)
(* a time, in the order in which they went in, none lost and none twice,   *)
(* and at most Capacity of them are inside.                                *)
(*                                                                         *)
(* The Denise line queue (where an entry leaves when it has been drawn)    *)
(* and the communication pipe implement it.                                *)
(***************************************************************************)
EXTENDS Naturals, Sequences

CONSTANTS Entry, Capacity

VARIABLE fifo   \* the entries inside, the oldest first

Init == fifo = << >>

Newest(q) == q[Len(q)]

\* An entry goes in.
Put == /\ Len(fifo) < Capacity
       /\ fifo' # << >>
       /\ Newest(fifo') \in Entry
       /\ fifo' = Append(fifo, Newest(fifo'))

\* The oldest entry comes out.
Take == /\ fifo # << >>
        /\ fifo' = Tail(fifo)

Next == Put \/ Take

Spec == Init /\ [][Next]_fifo

\* Whatever goes in comes out.
FairSpec == Spec /\ WF_fifo(Take)
=============================================================================
