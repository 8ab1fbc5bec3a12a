-------------------------------- MODULE Fifo --------------------------------
(***************************************************************************)
(* What ring_buffer.c and common_buffer.c promise to the threads that      *)
(* share them without a lock: a bounded queue of bytes.  The producer      *)
(* appends what fits, the consumer takes from the front or discards, and   *)
(* every byte taken is the oldest one not yet taken.                       *)
(***************************************************************************)
EXTENDS Naturals, Sequences

CONSTANTS Value, Capacity

VARIABLES queue,   \* the bytes that can be read, oldest first
          out      \* what the last read returned, <<>> if it was a discard

Init == queue = <<>> /\ out = <<>>

Rest(n) == SubSeq(queue, n + 1, Len(queue))

Put == /\ \E n \in 0 .. Capacity - Len(queue) :
            \E data \in [1 .. n -> Value] : queue' = queue \o data
       /\ UNCHANGED out

Take == \E n \in 0 .. Len(queue) :
          /\ out' = SubSeq(queue, 1, n)
          /\ queue' = Rest(n)

Discard == \E n \in 0 .. Len(queue) :
             /\ out' = <<>>
             /\ queue' = Rest(n)

Next == Put \/ Take \/ Discard

Spec == Init /\ [][Next]_<<queue, out>>
=============================================================================
