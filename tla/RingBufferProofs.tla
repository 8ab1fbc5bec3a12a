--------------------------- MODULE RingBufferProofs ---------------------------
(***************************************************************************)
(* For every capacity, every chunk and every length: the ring keeps its    *)
(* indices in range, the producer never writes where the consumer reads,   *)
(* and the two together implement the bounded queue of module Fifo.        *)
(***************************************************************************)
EXTENDS RingBuffer, SequenceTheorems, TLAPS

(* The assumption on the constant.                                         *)
LEMMA CapacityIsNat == Capacity \in Nat \ {0}
BY RingAssumption

USE CapacityIsNat DEF size, Index

(* A remainder of less than twice the divisor takes one subtraction.       *)
LEMMA Wrap ==
  ASSUME NEW a \in Nat, NEW n \in Nat \ {0}, a < 2 * n
  PROVE  a % n = IF a < n THEN a ELSE a - n
OBVIOUS

(* Cell stays in the buffer, and is what the C expression                  *)
(* (index + count) % size computes.                                        *)
LEMMA CellIsIndex ==
  ASSUME NEW start \in Index, NEW k \in Index
  PROVE  Cell(start, k) \in Index
BY DEF Cell

(* The same cell, by the remainder.                                        *)
LEMMA CellIsModulo ==
  ASSUME NEW start \in Index, NEW k \in Index
  PROVE  (start + k) % size = Cell(start, k)
<1> DEFINE a == start + k
           n == size
<1>1. a \in Nat /\ a < 2 * n /\ n \in Nat \ {0}
  OBVIOUS
<1>2. a % n = IF a < n THEN a ELSE a - n
  <2> HIDE DEF a, n
  <2> QED BY <1>1, Wrap
<1> QED BY <1>2 DEF Cell

(* Two offsets smaller than the size name two different bytes.             *)
LEMMA CellIsInjective ==
  ASSUME NEW start \in Index, NEW j \in Index, NEW k \in Index, Cell(start, j) = Cell(start, k)
  PROVE  j = k
BY DEF Cell

(* What the two counts are, and that they share the buffer out.            *)
LEMMA Counts ==
  ASSUME TypeOK
  PROVE  /\ GetCount \in Index /\ GetFreeCount \in Index
         /\ GetCount + GetFreeCount = Capacity
         /\ write = Cell(read, GetCount)
BY DEF TypeOK, GetCount, GetFreeCount, Cell

(* The step of each index moves the counts.                                *)
LEMMA Advance ==
  ASSUME TypeOK, TypeOK', NEW n \in Nat
  PROVE  /\ n <= GetFreeCount /\ read' = read /\ write' = Cell(write, n)
              => GetCount' = GetCount + n /\ GetFreeCount' = GetFreeCount - n
         /\ n <= GetCount /\ write' = write /\ read' = Cell(read, n)
              => GetCount' = GetCount - n /\ GetFreeCount' = GetFreeCount + n
<1> DEFINE Count(r, w) == IF w >= r THEN w - r ELSE size + w - r
<1>1. /\ read \in Index /\ write \in Index /\ read' \in Index /\ write' \in Index
      /\ size \in Nat /\ size = Capacity + 1
  BY DEF TypeOK, size
<1>2. ASSUME NEW r \in Index, NEW w \in Index, n <= Count(r, w)
      PROVE  Count(Cell(r, n), w) = Count(r, w) - n
  BY <1>1, <1>2 DEF Cell
<1>3. ASSUME NEW r \in Index, NEW w \in Index, n <= Capacity - Count(r, w)
      PROVE  Count(r, Cell(w, n)) = Count(r, w) + n
  BY <1>1, <1>3 DEF Cell
<1>4. GetCount = Count(read, write) /\ GetFreeCount = Capacity - Count(read, write)
  BY <1>1 DEF GetCount, GetFreeCount
<1>5. GetCount' = Count(read', write') /\ GetFreeCount' = Capacity - Count(read', write')
  <2> DEFINE r == read'
             w == write'
  <2>1. GetCount' = (LET tmp == size + w - r IN IF tmp >= size THEN tmp - size ELSE tmp)
    BY DEF GetCount
  <2>2. GetFreeCount' = (LET tmp == size + r - w IN (IF tmp > size THEN tmp - size ELSE tmp) - 1)
    BY DEF GetFreeCount
  <2>3. r \in Index /\ w \in Index
    BY <1>1
  <2>4. GetCount' = Count(r, w) /\ GetFreeCount' = Capacity - Count(r, w)
    <3> HIDE DEF r, w
    <3> QED BY <2>1, <2>2, <2>3
  <2> QED BY <2>4
<1>6. Count(read, write) \in Nat
  BY <1>1
<1> HIDE DEF Count
<1> QED BY <1>1, <1>2, <1>3, <1>4, <1>5, <1>6

(* An offset on top of another one.                                        *)
LEMMA CellOfCell ==
  ASSUME NEW start \in Index, NEW j \in Nat, NEW k \in Nat, j + k < size
  PROVE  Cell(Cell(start, j), k) = Cell(start, j + k)
BY DEF Cell
-----------------------------------------------------------------------------
(* Neither thread claims more than the other has left it, and the bytes    *)
(* copied so far are the right ones.                                       *)
PushInv ==
  /\ pushing = "no" => pushed = 0 /\ pushCount = 0
  /\ pushed <= pushCount /\ pushCount <= GetFreeCount /\ pushCount <= Len(data)
  /\ \A k \in 0 .. pushed - 1 : buffer[Cell(write, k)] = data[k + 1]

PopInv ==
  /\ popping = "no" => popCount = 0
  /\ popping # "copy" => got = <<>>
  /\ popCount <= GetCount
  /\ Len(got) <= popCount
  /\ \A k \in 1 .. Len(got) : got[k] = buffer[Cell(read, k - 1)]

IInv == TypeOK /\ PushInv /\ PopInv

(* The indices and counts of both sides are within the buffer.             *)
LEMMA Claims ==
  ASSUME IInv
  PROVE  /\ pushed \in Index /\ pushCount \in Index /\ popCount \in Index /\ Len(got) \in Index
         /\ GetCount \in Index /\ GetFreeCount \in Index
<1>1. GetCount \in Index /\ GetFreeCount \in Index
  BY Counts DEF IInv
<1> QED BY <1>1 DEF IInv, PushInv, PopInv, TypeOK

(* The producer does not write into a cell that is to be read.             *)
LEMMA Untouched ==
  ASSUME IInv, PushCopies, NEW k \in 0 .. GetCount - 1
  PROVE  buffer'[Cell(read, k)] = buffer[Cell(read, k)]
<1>1. pushed \in Nat /\ pushed < GetFreeCount
  BY Counts DEF IInv, PushInv, PushCopies, TypeOK
<1>2. Cell(write, pushed) = Cell(read, GetCount + pushed)
  BY <1>1, Counts, CellOfCell DEF IInv, TypeOK
<1>3. Cell(read, k) # Cell(write, pushed)
  BY <1>1, <1>2, Counts, CellIsInjective, RingAssumption DEF IInv, TypeOK
<1> QED BY <1>3 DEF PushCopies, IInv, TypeOK

(* ring_buffer_push and ring_buffer_pop keep the ring well formed, at      *)
(* every point of their copies.                                            *)
THEOREM RingInvariant == Spec => []IInv
<1>1. Init => IInv
  BY DEF Init, IInv, TypeOK, PushInv, PopInv, GetCount, GetFreeCount
<1>2. IInv /\ [Next]_vars => IInv'
  <2> SUFFICES ASSUME IInv, [Next]_vars PROVE TypeOK' /\ PushInv' /\ PopInv'
    BY DEF IInv
  <2>0. /\ pushed \in Index /\ pushCount \in Index /\ popCount \in Index /\ Len(got) \in Index
        /\ GetCount \in Index /\ GetFreeCount \in Index
    BY Claims
  <2> USE DEF IInv, producer, consumer
  <2>1. CASE PushBegins
    <3>1. TypeOK'
      BY <2>1, <2>0, RingAssumption DEF PushBegins, TypeOK, Smaller
    <3>2. GetCount' = GetCount /\ GetFreeCount' = GetFreeCount
      BY <2>1 DEF PushBegins, GetCount, GetFreeCount
    <3>3. PushInv' /\ PopInv'
      BY <2>1, <3>1, <3>2, <2>0 DEF PushBegins, PushInv, PopInv, TypeOK, Smaller
    <3> QED BY <3>1, <3>3
  <2>2. CASE PushCopies
    <3>1. TypeOK'
      <4>1. Cell(write, pushed) \in Index
        BY <2>0, <2>2, CellIsIndex DEF TypeOK
      <4>2. data[pushed + 1] \in Value
        BY <2>2 DEF PushCopies, PushInv, TypeOK
      <4> QED BY <2>2, <4>1, <4>2 DEF PushCopies, TypeOK
    <3>2. GetCount' = GetCount /\ GetFreeCount' = GetFreeCount
      BY <2>2 DEF PushCopies, GetCount, GetFreeCount
    <3>3. PushInv'
      <4>1. ASSUME NEW k \in 0 .. pushed PROVE buffer'[Cell(write, k)] = data[k + 1]
        <5>0. k \in Index
          BY <2>0
        <5>1. Cell(write, k) \in Index /\ Cell(write, pushed) \in Index
          BY <5>0, <2>0, CellIsIndex DEF TypeOK
        <5>2. CASE k = pushed
          BY <2>2, <5>1, <5>2 DEF PushCopies, TypeOK
        <5>3. CASE k # pushed
          <6>1. Cell(write, k) # Cell(write, pushed)
            BY <2>2, <5>3, <2>0, CellIsInjective DEF PushCopies, PushInv, TypeOK
          <6> QED BY <2>2, <5>1, <5>3, <6>1 DEF PushCopies, PushInv, TypeOK
        <5> QED BY <5>2, <5>3
      <4>2. pushed' = pushed + 1 /\ pushed' <= pushCount /\ pushed \in Nat
        BY <2>2 DEF PushCopies, TypeOK
      <4> QED BY <2>2, <3>2, <4>1, <4>2 DEF PushCopies, PushInv
    <3>4. PopInv'
      <4>1. ASSUME NEW k \in 1 .. Len(got) PROVE got[k] = buffer'[Cell(read, k - 1)]
        <5>1. k - 1 \in 0 .. GetCount - 1
          BY <2>0 DEF PopInv, TypeOK
        <5> QED BY <2>2, <5>1, Untouched DEF PopInv
      <4> QED BY <2>2, <3>2, <4>1 DEF PushCopies, PopInv
    <3> QED BY <3>1, <3>3, <3>4
  <2>3. CASE PushEnds
    <3>1. write' = Cell(write, pushCount) /\ pushCount \in Index
      BY <2>3, <2>0, CellIsModulo DEF PushEnds, PushInv, TypeOK
    <3>2. TypeOK'
      <4>1. write' \in Index
        BY <3>1, CellIsIndex DEF TypeOK
      <4>2. /\ pushing' = "no" /\ data' = <<>> /\ pushed' = 0 /\ pushCount' = 0
            /\ buffer' = buffer /\ UNCHANGED consumer
        BY <2>3 DEF PushEnds
      <4> QED BY <4>1, <4>2 DEF TypeOK
    <3>3. GetCount' = GetCount + pushCount /\ GetFreeCount' = GetFreeCount - pushCount
      <4>1. pushCount \in Nat /\ pushCount <= GetFreeCount /\ read' = read
        BY <2>3, <2>0 DEF PushEnds, PushInv, TypeOK
      <4> QED BY <4>1, <3>1, <3>2, Advance
    <3>4. PushInv'
      BY <2>3, <2>0, <3>3 DEF PushEnds, PushInv
    <3>5. PopInv'
      BY <2>3, <2>0, <3>3 DEF PushEnds, PopInv, PushInv
    <3> QED BY <3>2, <3>4, <3>5
  <2>4. CASE PopBegins
    <3>1. TypeOK'
      BY <2>4, <2>0, RingAssumption DEF PopBegins, TypeOK, Smaller
    <3>2. GetCount' = GetCount /\ GetFreeCount' = GetFreeCount
      BY <2>4 DEF PopBegins, GetCount, GetFreeCount
    <3> QED
      BY <2>4, <3>1, <3>2, <2>0, RingAssumption
      DEF PopBegins, PushInv, PopInv, TypeOK, Smaller
  <2>5. CASE PopCopies
    <3>1. Cell(read, Len(got)) \in Index
      BY <2>0, CellIsIndex DEF TypeOK
    <3>2. TypeOK'
      BY <2>5, <3>1 DEF PopCopies, TypeOK
    <3>3. GetCount' = GetCount /\ GetFreeCount' = GetFreeCount
      BY <2>5 DEF PopCopies, GetCount, GetFreeCount
    <3>4. PushInv'
      BY <2>5, <3>3 DEF PopCopies, PushInv
    <3>5. PopInv'
      <4> DEFINE b == buffer[Cell(read, Len(got))]
      <4>1. /\ got' = Append(got, b) /\ Len(got') = Len(got) + 1
            /\ got'[Len(got) + 1] = b /\ \A k \in 1 .. Len(got) : got'[k] = got[k]
        BY <2>5 DEF PopCopies, TypeOK
      <4>2. Len(got) \in Nat /\ Len(got) + 1 <= popCount /\ popping' = "copy" /\ popping = "copy"
            /\ popCount' = popCount /\ UNCHANGED <<buffer, read>>
        BY <2>5 DEF PopCopies, TypeOK
      <4>3. ASSUME NEW k \in 1 .. Len(got') PROVE got'[k] = buffer[Cell(read, k - 1)]
        <5>1. CASE k \in 1 .. Len(got)
          BY <4>1, <5>1 DEF PopInv
        <5>2. CASE k = Len(got) + 1
          <6>1. k - 1 = Len(got)
            BY <4>2, <5>2
          <6> QED BY <4>1, <5>2, <6>1
        <5> QED BY <4>1, <4>2, <5>1, <5>2
      <4> QED BY <4>1, <4>2, <4>3, <3>3 DEF PopInv
    <3> QED BY <3>2, <3>4, <3>5
  <2>6. CASE PopEnds \/ DropEnds \/ ClearEnds
    <3>1. read' = Cell(read, popCount) /\ popCount \in Index /\ popCount <= GetCount
      BY <2>6, <2>0, CellIsModulo DEF PopEnds, DropEnds, ClearEnds, PopInv, TypeOK
    <3>2. TypeOK'
      <4>1. read' \in Index
        BY <3>1, CellIsIndex DEF TypeOK
      <4>2. /\ popping' = "no" /\ got' = <<>> /\ popCount' = 0 /\ out' \in {<<>>, got}
            /\ UNCHANGED producer
        BY <2>6 DEF PopEnds, DropEnds, ClearEnds, PopInv
      <4>3. got' \in Seq(Value) /\ out' \in Seq(Value) /\ popCount' \in Nat
        BY <4>2 DEF TypeOK
      <4>4. /\ write' \in Index /\ buffer' \in [Index -> Value]
            /\ pushing' \in {"no", "copy"}
            /\ data' \in Seq(Value) /\ pushed' \in Nat /\ pushCount' \in Nat
        BY <4>2 DEF TypeOK, producer
      <4> QED BY <4>1, <4>2, <4>3, <4>4 DEF TypeOK
    <3>3. GetCount' = GetCount - popCount /\ GetFreeCount' = GetFreeCount + popCount
      <4>1. popCount \in Nat /\ popCount <= GetCount /\ write' = write
        BY <2>6, <2>0 DEF PopEnds, DropEnds, ClearEnds, PopInv
      <4> QED BY <4>1, <3>1, <3>2, Advance
    <3>4. PushInv'
      BY <2>6, <2>0, <3>3 DEF PopEnds, DropEnds, ClearEnds, PushInv
    <3>5. PopInv'
      BY <2>6, <2>0, <3>1, <3>3 DEF PopEnds, DropEnds, ClearEnds, PopInv
    <3> QED BY <3>2, <3>4, <3>5
  <2>7. CASE ClearBegins
    <3>1. TypeOK'
      BY <2>7, <2>0 DEF ClearBegins, TypeOK
    <3>2. GetCount' = GetCount /\ GetFreeCount' = GetFreeCount
      BY <2>7 DEF ClearBegins, GetCount, GetFreeCount
    <3> QED
      BY <2>7, <3>1, <3>2, <2>0 DEF ClearBegins, PushInv, PopInv, TypeOK
  <2>8. CASE UNCHANGED vars
    BY <2>8 DEF vars, TypeOK, PushInv, PopInv, GetCount, GetFreeCount
  <2> QED
    BY <2>1, <2>2, <2>3, <2>4, <2>5, <2>6, <2>7, <2>8 DEF Next
<1> QED BY <1>1, <1>2, PTL DEF Spec

(* The indices of ring_buffer.c stay inside the buffer.                    *)
THEOREM TypeCorrect == Spec => []TypeOK
BY RingInvariant, PTL DEF IInv

(* No byte is written by the producer while the consumer may read it.      *)
LEMMA NeverOverwrites == Spec => []NoOverwrite
<1>1. IInv => NoOverwrite
  <2> SUFFICES ASSUME IInv, pushing = "copy",
                      NEW j \in 0 .. pushCount - 1, NEW k \in 0 .. GetCount - 1,
                      Cell(write, j) = Cell(read, k)
               PROVE  FALSE
    BY DEF NoOverwrite, Writing, Unread, IInv, TypeOK
  <2>1. j < GetFreeCount
    BY Counts DEF IInv, PushInv, TypeOK
  <2>2. Cell(write, j) = Cell(read, GetCount + j)
    BY <2>1, Counts, CellOfCell DEF IInv, TypeOK
  <2>3. read \in Index /\ k \in Index /\ GetCount + j \in Index /\ GetCount + j # k
    BY <2>1, Counts DEF IInv, TypeOK
  <2> QED BY <2>2, <2>3, CellIsInjective
<1> QED BY <1>1, RingInvariant, PTL

(* The consumer copies only published bytes.                               *)
LEMMA NeverReadsGarbage == Spec => []NoGarbage
<1>1. IInv => NoGarbage
  BY Counts DEF IInv, PopInv, NoGarbage, Reading, Unread, TypeOK
<1> QED BY <1>1, RingInvariant, PTL

(* Producer and consumer stay out of each other's bytes.                   *)
THEOREM NeverCollide == Spec => []SidesApart
BY NeverOverwrites, NeverReadsGarbage, PTL DEF SidesApart
-----------------------------------------------------------------------------
(* The bytes in the ring, as the queue of module Fifo sees them.           *)
ContentsInv ==
  /\ Contents \in Seq(Value) /\ Len(Contents) = GetCount /\ GetCount \in 0 .. Capacity
  /\ \A i \in 1 .. GetCount : Contents[i] = buffer[Cell(read, i - 1)]

(* The contents are the cells from read on, as many as are counted.        *)
LEMMA ContentsIsSeq == IInv => ContentsInv
<1> SUFFICES ASSUME IInv PROVE ContentsInv
  OBVIOUS
<1>1. GetCount \in 0 .. Capacity
  BY Counts DEF IInv
<1>2. ASSUME NEW i \in 1 .. GetCount PROVE buffer[Cell(read, i - 1)] \in Value
  <2>1. i - 1 \in Index /\ read \in Index
    BY <1>1 DEF IInv, TypeOK
  <2> QED BY <2>1, CellIsIndex DEF IInv, TypeOK
<1>3. Contents \in [1 .. GetCount -> Value]
  BY <1>2, Zenon DEF Contents
<1>4. Contents \in Seq(Value) /\ Len(Contents) = GetCount
  BY <1>1, <1>3
<1> QED BY <1>1, <1>4 DEF Contents, ContentsInv

(* The contents are the same when indices and cells are.                   *)
LEMMA SameContents ==
  ASSUME IInv, read' = read, write' = write,
         \A k \in 0 .. GetCount - 1 : buffer'[Cell(read, k)] = buffer[Cell(read, k)]
  PROVE  Contents' = Contents
<1>1. GetCount' = GetCount
  BY DEF GetCount
<1>2. GetCount \in Nat
  BY Counts DEF IInv
<1>3. \A i \in 1 .. GetCount : buffer'[Cell(read, i - 1)] = buffer[Cell(read, i - 1)]
  BY <1>2
<1> QED BY <1>1, <1>3 DEF Contents

(* The ring hands over exactly the bytes that were pushed, in order.       *)
THEOREM RingIsFifo == Spec => ImplementsFifo
<1>1. Init => Fifo!Init
  <2> SUFFICES ASSUME Init PROVE Contents = <<>> /\ out = <<>>
    BY DEF Fifo!Init
  <2>1. GetCount = 0
    BY DEF Init, GetCount
  <2> QED BY <2>1 DEF Contents, Init
<1>2. IInv /\ IInv' /\ ContentsInv /\ ContentsInv' /\ [Next]_vars
        => [Fifo!Next]_<<Contents, out>>
  <2> SUFFICES ASSUME IInv, IInv', ContentsInv, ContentsInv', [Next]_vars
               PROVE  Fifo!Next \/ UNCHANGED <<Contents, out>>
    OBVIOUS
  <2>0. /\ pushed \in Index /\ pushCount \in Index /\ popCount \in Index /\ Len(got) \in Index
        /\ GetCount \in Index /\ GetFreeCount \in Index
    BY Claims
  <2>1. CASE PushBegins \/ PopBegins \/ PopCopies \/ ClearBegins \/ UNCHANGED vars
    <3>1. read' = read /\ write' = write /\ buffer' = buffer /\ out' = out
      BY <2>1 DEF PushBegins, PopBegins, PopCopies, ClearBegins, producer, consumer, vars
    <3> QED BY <3>1, SameContents
  <2>2. CASE PushCopies
    <3>1. read' = read /\ write' = write /\ out' = out
      BY <2>2 DEF PushCopies, consumer
    <3> QED BY <2>2, <3>1, SameContents, Untouched
  <2>3. CASE PushEnds
    <3> DEFINE n == pushCount
               chunk == SubSeq(data, 1, n)
    <3>1. /\ n \in Nat /\ n <= GetFreeCount /\ n <= Len(data) /\ data \in Seq(Value)
          /\ \A k \in 0 .. n - 1 : buffer[Cell(write, k)] = data[k + 1]
      BY <2>0, <2>3 DEF IInv, PushInv, TypeOK, PushEnds
    <3>2. read' = read /\ buffer' = buffer /\ out' = out /\ write' = Cell(write, n)
      BY <2>0, <2>3, CellIsModulo DEF PushEnds, consumer, IInv, TypeOK
    <3>3. GetCount' = GetCount + n
      BY <3>1, <3>2, Advance DEF IInv
    <3>4. chunk \in Seq(Value) /\ Len(chunk) = n /\ \A k \in 1 .. n : chunk[k] = data[k]
      BY <3>1, SubSeqProperties
    <3>5. Contents \o chunk \in Seq(Value) /\ Len(Contents \o chunk) = GetCount + n
      BY <3>4, ConcatProperties DEF ContentsInv
    <3>6. ASSUME NEW i \in 1 .. GetCount + n PROVE Contents'[i] = (Contents \o chunk)[i]
      <4>1. Contents'[i] = buffer[Cell(read, i - 1)]
        BY <3>2, <3>3 DEF ContentsInv
      <4>2. CASE i <= GetCount
        BY <2>0, <3>1, <3>4, <4>1, <4>2, ConcatProperties DEF ContentsInv
      <4>3. CASE i > GetCount
        <5> DEFINE j == i - GetCount
        <5>1. /\ j \in 1 .. n /\ j - 1 \in Nat /\ GetCount \in Nat
              /\ GetCount + (j - 1) = i - 1 /\ GetCount + (j - 1) < size
          BY <2>0, <3>1, <4>3, Counts DEF IInv
        <5>2. Cell(read, i - 1) = Cell(write, j - 1)
          <6>1. read \in Index /\ write = Cell(read, GetCount)
            BY Counts DEF IInv, TypeOK
          <6>2. Cell(Cell(read, GetCount), j - 1) = Cell(read, GetCount + (j - 1))
            BY <5>1, <6>1, CellOfCell
          <6> QED BY <5>1, <6>1, <6>2
        <5>3. (Contents \o chunk)[i] = chunk[j]
          <6> HIDE DEF chunk
          <6>1. i \in 1 .. Len(Contents) + Len(chunk) /\ ~(i <= Len(Contents))
            BY <2>0, <3>1, <3>4, <4>3 DEF ContentsInv
          <6> QED BY <3>4, <6>1, ConcatProperties DEF ContentsInv
        <5>4. chunk[j] = data[j]
          BY <3>4, <5>1
        <5>5. buffer[Cell(write, j - 1)] = data[j]
          BY <3>1, <5>1
        <5> QED BY <4>1, <5>2, <5>3, <5>4, <5>5
      <4>4. i \in Nat /\ GetCount \in Nat
        BY <2>0, <3>1
      <4>5. i <= GetCount \/ i > GetCount
        BY <4>4
      <4> QED BY <4>2, <4>3, <4>5
    <3>7. Contents' = Contents \o chunk
      BY <3>3, <3>5, <3>6, SeqEqual DEF ContentsInv
    <3>8. n \in 0 .. Capacity - Len(Contents)
      BY <2>0, <3>1, Counts DEF IInv, ContentsInv
    <3>9. chunk \in [1 .. n -> Value]
      <4> HIDE DEF chunk
      <4> QED BY <3>4, LenProperties
    <3> HIDE DEF chunk, n
    <3> QED BY <3>2, <3>7, <3>8, <3>9 DEF Fifo!Next, Fifo!Put
  <2>4. CASE PopEnds \/ DropEnds \/ ClearEnds
    <3> DEFINE n == popCount
               rest == SubSeq(Contents, n + 1, Len(Contents))
    <3>1. n \in Index /\ n <= GetCount /\ GetCount \in 0 .. Capacity /\ Len(Contents) = GetCount
      BY <2>0, Counts DEF IInv, PopInv, ContentsInv
    <3>2. write' = write /\ buffer' = buffer /\ read' = Cell(read, n)
      BY <2>4, <3>1, CellIsModulo DEF PopEnds, DropEnds, ClearEnds, producer, IInv, TypeOK
    <3>3. GetCount' = GetCount - n
      BY <3>1, <3>2, Advance DEF IInv
    <3>4. /\ rest \in Seq(Value) /\ Len(rest) = GetCount - n
          /\ \A i \in 1 .. GetCount - n : rest[i] = Contents[n + i]
      BY <3>1, SubSeqProperties DEF ContentsInv
    <3>5. ASSUME NEW i \in 1 .. GetCount - n PROVE Contents'[i] = rest[i]
      <4>1. /\ n + i \in 1 .. GetCount /\ n \in Nat /\ i - 1 \in Nat
            /\ n + (i - 1) = n + i - 1 /\ n + (i - 1) < size
        BY <3>1
      <4>2. Cell(Cell(read, n), i - 1) = Cell(read, n + i - 1)
        BY <4>1, CellOfCell DEF IInv, TypeOK
      <4>3. Contents'[i] = buffer[Cell(Cell(read, n), i - 1)]
        BY <3>2, <3>3 DEF ContentsInv
      <4>4. rest[i] = buffer[Cell(read, n + i - 1)]
        BY <3>4, <4>1 DEF ContentsInv
      <4> QED BY <4>2, <4>3, <4>4
    <3>6. Contents' = rest
      BY <3>3, <3>4, <3>5, SeqEqual DEF ContentsInv
    <3>7. CASE PopEnds
      <4>1. out' = got /\ Len(got) = n /\ got \in Seq(Value)
        BY <3>7 DEF PopEnds, IInv, TypeOK
      <4>2. /\ SubSeq(Contents, 1, n) \in Seq(Value) /\ Len(SubSeq(Contents, 1, n)) = n
            /\ \A i \in 1 .. n : SubSeq(Contents, 1, n)[i] = Contents[i]
        BY <3>1, SubSeqProperties DEF ContentsInv
      <4>3. ASSUME NEW i \in 1 .. n PROVE got[i] = Contents[i]
        <5>1. got[i] = buffer[Cell(read, i - 1)]
          BY <3>1, <4>1 DEF IInv, PopInv
        <5>2. Contents[i] = buffer[Cell(read, i - 1)]
          BY <3>1 DEF ContentsInv
        <5> QED BY <5>1, <5>2
      <4>4. out' = SubSeq(Contents, 1, n)
        BY <4>1, <4>2, <4>3, SeqEqual
      <4> QED BY <3>1, <3>6, <4>4 DEF Fifo!Next, Fifo!Take, Fifo!Rest
    <3>8. CASE DropEnds \/ ClearEnds
      <4>1. out' = <<>>
        BY <3>8 DEF DropEnds, ClearEnds
      <4> QED BY <3>1, <3>6, <4>1 DEF Fifo!Next, Fifo!Discard, Fifo!Rest
    <3> QED BY <2>4, <3>7, <3>8
  <2> QED BY <2>1, <2>2, <2>3, <2>4 DEF Next
<1> QED
  BY <1>1, <1>2, RingInvariant, ContentsIsSeq, PTL DEF Spec, ImplementsFifo, Fifo!Spec
=============================================================================
