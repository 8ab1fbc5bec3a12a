------------------------------ MODULE RingBuffer ------------------------------
(***************************************************************************)
(* The lock-free ring of src/utils/ring_buffer.c: one producer thread (the *)
(* decoder, through samplerate_convert.c) pushes, one consumer thread      *)
(* (pcm_trans, through com_player_request_callback) pops.  Each reads the  *)
(* other's index once, copies byte by byte, and stores its own index last; *)
(* the two interleave at every one of those steps.  A memory that keeps    *)
(* the program order of each thread is assumed: nothing in the code orders *)
(* the copy before the store of the index.                                 *)
(***************************************************************************)
EXTENDS Naturals, Integers, Sequences

CONSTANTS Value,      \* what a byte can be
          Capacity,   \* the "size" given to ring_buffer_init
          Chunks,     \* what the producer pushes: sequences of values
          Lengths     \* how many bytes the consumer asks for

ASSUME RingAssumption ==
  /\ Capacity \in Nat \ {0}
  /\ Chunks \subseteq Seq(Value)
  /\ Lengths \subseteq Nat

size == Capacity + 1   \* ring_buffer->size: one byte is never used

VARIABLES
  read, write,       \* the two indices
  buffer,            \* the bytes
  pushing,           \* where the producer is: "no", "copy"
  data, pushed, pushCount,  \* its argument, the bytes copied so far, "count"
  popping,           \* where the consumer is: "no", "copy", "drop", "clear"
  got, popCount,     \* the bytes copied so far, "count"
  out                \* ghost: what the last pop returned

producer == <<write, buffer, pushing, data, pushed, pushCount>>
consumer == <<read, popping, got, popCount, out>>
vars     == <<producer, consumer>>

Index == 0 .. size - 1

TypeOK ==
  /\ read \in Index /\ write \in Index
  /\ buffer \in [Index -> Value]
  /\ pushing \in {"no", "copy"}
  /\ data \in Seq(Value) /\ pushed \in Nat /\ pushCount \in Nat
  /\ popping \in {"no", "copy", "drop", "clear"}
  /\ got \in Seq(Value) /\ popCount \in Nat
  /\ out \in Seq(Value)

Init ==
  /\ read = 0 /\ write = 0
  /\ buffer \in [Index -> Value]   \* what malloc returns
  /\ pushing = "no" /\ data = <<>> /\ pushed = 0 /\ pushCount = 0
  /\ popping = "no" /\ got = <<>> /\ popCount = 0
  /\ out = <<>>

-----------------------------------------------------------------------------
GetCount ==
  LET tmp == size + write - read IN IF tmp >= size THEN tmp - size ELSE tmp

(* Fault: the byte that tells a full ring from an empty one is used too.   *)
GetFreeCountNoGap ==
  LET tmp == size + read - write IN IF tmp > size THEN tmp - size ELSE tmp

GetFreeCount ==
  LET tmp == size + read - write IN (IF tmp > size THEN tmp - size ELSE tmp) - 1

Smaller(a, b) == IF a > b THEN b ELSE a

(* The k-th byte from an index on: the first memcpy reaches the end of the *)
(* buffer, the second one starts at 0.                                     *)
Cell(start, k) == LET tmp == size - start IN IF k < tmp THEN start + k ELSE k - tmp

(* Fault: the room is not looked at.                                       *)
PushUnclamped ==
  /\ pushing = "no"
  /\ data' \in Chunks
  /\ pushCount' = Len(data')
  /\ pushing' = "copy"
  /\ UNCHANGED <<write, buffer, pushed, consumer>>

(* ring_buffer_push                                                        *)
PushBegins ==
  /\ pushing = "no"
  /\ data' \in Chunks
  /\ pushCount' = Smaller(GetFreeCount, Len(data'))
  /\ pushing' = "copy"
  /\ UNCHANGED <<write, buffer, pushed, consumer>>

PushCopies ==
  /\ pushing = "copy" /\ pushed < pushCount
  /\ buffer' = [buffer EXCEPT ![Cell(write, pushed)] = data[pushed + 1]]
  /\ pushed' = pushed + 1
  /\ UNCHANGED <<write, pushing, data, pushCount, consumer>>

(* Fault: the index does not wrap.                                         *)
PushNoWrap ==
  /\ pushing = "copy" /\ pushed = pushCount
  /\ write' = write + pushCount
  /\ pushing' = "no" /\ data' = <<>> /\ pushed' = 0 /\ pushCount' = 0
  /\ UNCHANGED <<buffer, consumer>>

PushEnds ==
  /\ pushing = "copy" /\ pushed = pushCount
  /\ write' = (write + pushCount) % size
  /\ pushing' = "no" /\ data' = <<>> /\ pushed' = 0 /\ pushCount' = 0
  /\ UNCHANGED <<buffer, consumer>>

(* ring_buffer_pop; without a destination it only moves the index.         *)
PopBegins ==
  /\ popping = "no"
  /\ \E n \in Lengths : popCount' = Smaller(GetCount, n)
  /\ popping' \in {"copy", "drop"}
  /\ UNCHANGED <<read, got, out, producer>>

PopCopies ==
  /\ popping = "copy" /\ Len(got) < popCount
  /\ got' = Append(got, buffer[Cell(read, Len(got))])
  /\ UNCHANGED <<read, popping, popCount, out, producer>>

PopEnds ==
  /\ popping = "copy" /\ Len(got) = popCount
  /\ read' = (read + popCount) % size
  /\ popping' = "no" /\ got' = <<>> /\ popCount' = 0
  /\ out' = got
  /\ UNCHANGED producer

DropEnds ==
  /\ popping = "drop"
  /\ read' = (read + popCount) % size
  /\ popping' = "no" /\ popCount' = 0
  /\ out' = <<>>
  /\ UNCHANGED <<got, producer>>

(* ring_buffer_clear, by a thread that has stopped the consumer; the       *)
(* producer may still be running.  write is loaded, then read is stored;   *)
(* popCount stands for the distance between them.                          *)
ClearBegins ==
  /\ popping = "no"
  /\ popCount' = GetCount
  /\ popping' = "clear"
  /\ UNCHANGED <<read, got, out, producer>>

ClearEnds ==
  /\ popping = "clear"
  /\ read' = Cell(read, popCount)
  /\ popping' = "no" /\ popCount' = 0
  /\ out' = <<>>
  /\ UNCHANGED <<got, producer>>

-----------------------------------------------------------------------------
Next == PushBegins \/ PushCopies \/ PushEnds
          \/ PopBegins \/ PopCopies \/ PopEnds \/ DropEnds
          \/ ClearBegins \/ ClearEnds

Spec == Init /\ [][Next]_vars

-----------------------------------------------------------------------------
(* The producer writes no byte that the consumer may still read, and the   *)
(* consumer reads none that has not been published, whatever each has seen *)
(* of the other's index: together they never claim more than the buffer    *)
(* has (ring_buffer.c:29-72).                                              *)
Writing == {Cell(write, k) : k \in 0 .. (IF pushing = "copy" THEN pushCount ELSE 0) - 1}
Unread  == {Cell(read, k) : k \in 0 .. GetCount - 1}

Reading == {Cell(read, k) : k \in 0 .. (IF popping # "no" THEN popCount ELSE 0) - 1}

NoOverwrite == Writing \cap Unread = {}
NoGarbage   == Reading \subseteq Unread

SidesApart == NoOverwrite /\ NoGarbage

(* Producer and consumer together implement the bounded queue: bytes come  *)
(* out in order, none lost, none twice, none before it was published       *)
(* (ring_buffer.c:29-98).                                                  *)
Contents == [i \in 1 .. GetCount |-> buffer[Cell(read, i - 1)]]

Fifo == INSTANCE Fifo WITH queue <- Contents

ImplementsFifo == Fifo!Spec
=============================================================================
