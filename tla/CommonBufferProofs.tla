------------------------- MODULE CommonBufferProofs -------------------------
(***************************************************************************)
(* For every number and size of nodes, every capacity and every chunk: the *)
(* nodes always make one list, neither thread follows a pointer to a freed *)
(* node, and the two threads together implement the bounded queue of       *)
(* module Fifo, as long as the burst is smaller than a node.               *)
(***************************************************************************)
EXTENDS CommonBuffer, FiniteSetTheorems, SequenceTheorems, WellFoundedInduction, TLAPS

(* Where the two threads are, and what their locals hold there.            *)
PcInv ==
  /\ pushing \in {"link", "head", "tail"} => tmp \in Node
  /\ pushing = "no" => chunk = <<>> /\ pos = 0
  /\ pushing = "count" => pos + plen <= Len(chunk)
  /\ pushing # "count" => plen = 0
  /\ popping \in {"count", "empty?", "last?"} => head # NULL
  /\ popping # "count" => len = 0
  /\ popping = "no" => popped = <<>> /\ asked = 0
  /\ Len(popped) <= asked
  /\ burst <= Burst

(* The node at place k of a list, from 0 on.                               *)
Nth(L, k) == IF k < Len(L) THEN L[k + 1] ELSE NULL

(* The nodes of a list.                                                    *)
Nodes(L) == {L[i] : i \in 1 .. Len(L)}

(* The nodes from head on are L: none comes twice, and those of L are the  *)
(* ones that are allocated, but for the one that is being linked.          *)
Chain(L) ==
  /\ L \in Seq(Node)
  /\ \A i, j \in 1 .. Len(L) : L[i] = L[j] => i = j
  /\ head = Nth(L, 0)
  /\ \A i \in 1 .. Len(L) : next[L[i]] = Nth(L, i)
  /\ pushing \in {"link", "head"} => tmp \notin Nodes(L) /\ next[tmp] = NULL
  /\ pushing \in {"link", "head", "tail"} => bytes[tmp] = <<>>
  /\ pushing = "head" => L = <<>>
  /\ pushing = "tail" => Len(L) > 1 /\ L[Len(L)] = tmp
  /\ alive = Nodes(L) \cup (IF pushing \in {"link", "head"} THEN {tmp} ELSE {})
  /\ tail = CASE pushing = "head" -> tmp
              [] pushing = "tail" -> L[Len(L) - 1]
              [] OTHER -> IF L = <<>> THEN NULL ELSE L[Len(L)]

(* There is such a list.                                                   *)
ListInv == \E L : Chain(L)
-----------------------------------------------------------------------------
(* What is assumed of the constants, and the size of a count's range.      *)
LEMMA Sizes ==
  /\ NodeSize \in Nat /\ NodeSize > 0 /\ Capacity \in Nat /\ Capacity > 0 /\ Burst \in Nat
  /\ NULL \notin Node /\ max_size = Capacity + 1 /\ max_size \in Nat /\ max_size > 0
BY BufferAssumption DEF max_size

(* Smaller returns one of its arguments, and no more than either           *)
(* (common_buffer.c:133-134).                                              *)
LEMMA SmallerIs ==
  ASSUME NEW a \in Nat, NEW b \in Nat
  PROVE  Smaller(a, b) \in Nat /\ Smaller(a, b) <= a /\ Smaller(a, b) <= b
           /\ (Smaller(a, b) = a \/ Smaller(a, b) = b)
BY DEF Smaller

(* A count that is reduced is in its range again (common_buffer.c:106,     *)
(* 154).                                                                   *)
LEMMA Modulo ==
  ASSUME NEW a \in Nat
  PROVE  a % max_size \in 0 .. Capacity
BY Sizes

(* The two counts that the callers read are between nothing and the whole  *)
(* (common_buffer.c:184-202).                                              *)
LEMMA CountIs ==
  ASSUME TypeOK
  PROVE  GetCount \in 0 .. Capacity /\ GetFreeCount \in 0 .. Capacity
<1>1. max_size + write_count - read_count \in Nat
  BY Sizes DEF TypeOK, Count
<1>2. GetCount \in 0 .. Capacity
  BY <1>1, Modulo DEF GetCount
<1> QED BY <1>2, Sizes DEF GetFreeCount

(* A sequence that is cut after n bytes: both parts, and that they make    *)
(* the whole again.                                                        *)
LEMMA Cut ==
  ASSUME NEW s \in Seq(Value), NEW n \in Nat, n <= Len(s)
  PROVE  /\ SubSeq(s, 1, n) \in Seq(Value) /\ Len(SubSeq(s, 1, n)) = n
         /\ SubSeq(s, n + 1, Len(s)) \in Seq(Value) /\ Len(SubSeq(s, n + 1, Len(s))) = Len(s) - n
         /\ s = SubSeq(s, 1, n) \o SubSeq(s, n + 1, Len(s))
<1>1. Len(s) \in Nat /\ \A i \in 1 .. Len(s) : s[i] \in Value
  BY LenProperties, ElementOfSeq
<1>2. SubSeq(s, 1, n) \in Seq(Value) /\ Len(SubSeq(s, 1, n)) = n
  <2>1. \A i \in 1 .. n : s[i] \in Value
    BY <1>1
  <2> QED BY <1>1, <2>1, SubSeqProperties
<1>3. SubSeq(s, n + 1, Len(s)) \in Seq(Value) /\ Len(SubSeq(s, n + 1, Len(s))) = Len(s) - n
  <2>1. \A i \in n + 1 .. Len(s) : s[i] \in Value
    BY <1>1
  <2> QED BY <1>1, <2>1, SubSeqProperties
<1>4. s = SubSeq(s, 1, n) \o SubSeq(s, n + 1, Len(s))
  <2>1. 1 \in 1 .. Len(s) + 1 /\ n \in 1 - 1 .. Len(s) /\ Len(s) \in n .. Len(s)
    BY <1>1
  <2>2. SubSeq(s, 1, n) \o SubSeq(s, n + 1, Len(s)) = SubSeq(s, 1, Len(s))
    BY <2>1, ConcatAdjacentSubSeq
  <2> QED BY <2>2, SubSeqFull
<1> QED BY <1>2, <1>3, <1>4

(* A piece of n bytes out of the middle of a chunk.                        *)
LEMMA Piece ==
  ASSUME NEW s \in Seq(Value), NEW p \in Nat, NEW n \in Nat, p + n <= Len(s)
  PROVE  SubSeq(s, p + 1, p + n) \in Seq(Value) /\ Len(SubSeq(s, p + 1, p + n)) = n
<1>1. Len(s) \in Nat /\ \A i \in 1 .. Len(s) : s[i] \in Value
  BY LenProperties, ElementOfSeq
<1>2. \A i \in p + 1 .. p + n : s[i] \in Value
  BY <1>1
<1>3. Len(SubSeq(s, p + 1, p + n)) = IF p + 1 <= p + n THEN p + n - (p + 1) + 1 ELSE 0
  BY <1>2, SubSeqProperties
<1> QED BY <1>2, <1>3, SubSeqProperties

(* What PushStores writes: at least one byte, within the chunk and within  *)
(* the room of the node (common_buffer.c:104).                             *)
LEMMA Stores ==
  ASSUME TypeOK, PushStores
  PROVE  /\ tail \in Node /\ Len(bytes[tail]) < NodeSize
         /\ plen' \in Nat /\ plen' > 0 /\ pos + plen' <= Len(chunk)
         /\ bytes' = [bytes EXCEPT ![tail] = @ \o SubSeq(chunk, pos + 1, pos + plen')]
         /\ SubSeq(chunk, pos + 1, pos + plen') \in Seq(Value)
         /\ Len(SubSeq(chunk, pos + 1, pos + plen')) = plen'
         /\ Len(bytes[tail]) + plen' <= NodeSize
<1>1. /\ tail # NULL /\ Len(bytes[tail]) < NodeSize /\ pos < Len(chunk)
      /\ plen' = Smaller(NodeSize - Len(bytes[tail]), Len(chunk) - pos)
      /\ bytes' = [bytes EXCEPT ![tail] = @ \o SubSeq(chunk, pos + 1, pos + plen')]
  <2>1. tail # NULL /\ ~(Len(bytes[tail]) >= NodeSize)
    BY DEF PushStores, NoRoom
  <2>2. Len(bytes[tail]) \in Nat
    BY <2>1, LenProperties DEF TypeOK
  <2> QED BY <2>1, <2>2, Sizes DEF PushStores
<1>2. tail \in Node /\ chunk \in Seq(Value) /\ bytes[tail] \in Seq(Value)
  BY <1>1 DEF TypeOK
<1>3. Len(chunk) \in Nat /\ Len(bytes[tail]) \in Nat /\ pos \in Nat
  BY <1>2, LenProperties DEF TypeOK
<1>4. /\ plen' \in Nat /\ plen' > 0 /\ pos + plen' <= Len(chunk)
      /\ Len(bytes[tail]) + plen' <= NodeSize
  <2> DEFINE room == NodeSize - Len(bytes[tail])
             rest == Len(chunk) - pos
  <2>1. room \in Nat /\ room > 0 /\ rest \in Nat /\ rest > 0 /\ plen' = Smaller(room, rest)
    BY <1>1, <1>3, Sizes
  <2>2. plen' \in Nat /\ plen' > 0 /\ plen' <= room /\ plen' <= rest
    <3> HIDE DEF room, rest
    <3> QED BY <2>1, SmallerIs
  <2> QED BY <1>3, <2>2, Sizes
<1> QED BY <1>1, <1>2, <1>3, <1>4, Piece

(* What PopTakes takes: bytes from the front of the node, no more than     *)
(* were asked for (common_buffer.c:148-151).                               *)
LEMMA Takes ==
  ASSUME TypeOK, PopTakes
  PROVE  /\ head \in Node
         /\ len' \in Nat /\ len' <= Len(bytes[head]) /\ Len(popped) + len' <= asked
         /\ SubSeq(bytes[head], 1, len') \in Seq(Value)
         /\ popped' = popped \o SubSeq(bytes[head], 1, len')
         /\ popped' \in Seq(Value) /\ Len(popped') = Len(popped) + len'
         /\ bytes' = [bytes EXCEPT ![head] = SubSeq(@, len' + 1, Len(@))]
         /\ bytes'[head] = SubSeq(bytes[head], len' + 1, Len(bytes[head]))
         /\ bytes'[head] \in Seq(Value) /\ Len(bytes'[head]) = Len(bytes[head]) - len'
         /\ bytes[head] = SubSeq(bytes[head], 1, len') \o bytes'[head]
<1>1. /\ head # NULL /\ Len(popped) < asked
      /\ len' = Smaller(Len(bytes[head]), asked - Len(popped))
      /\ popped' = popped \o SubSeq(bytes[head], 1, len')
      /\ bytes' = [bytes EXCEPT ![head] = SubSeq(@, len' + 1, Len(@))]
  BY DEF PopTakes
<1>2. head \in Node /\ bytes[head] \in Seq(Value) /\ popped \in Seq(Value) /\ asked \in Nat
  BY <1>1 DEF TypeOK, Count
<1>3. Len(bytes[head]) \in Nat /\ Len(popped) \in Nat
  BY <1>2, LenProperties
<1>4. len' \in Nat /\ len' <= Len(bytes[head]) /\ Len(popped) + len' <= asked
  BY <1>1, <1>2, <1>3 DEF Smaller
<1>5. bytes'[head] = SubSeq(bytes[head], len' + 1, Len(bytes[head]))
  BY <1>1, <1>2 DEF TypeOK
<1>6. /\ SubSeq(bytes[head], 1, len') \in Seq(Value) /\ Len(SubSeq(bytes[head], 1, len')) = len'
      /\ bytes'[head] \in Seq(Value) /\ Len(bytes'[head]) = Len(bytes[head]) - len'
      /\ bytes[head] = SubSeq(bytes[head], 1, len') \o bytes'[head]
  BY <1>2, <1>4, <1>5, Cut
<1>7. popped' \in Seq(Value) /\ Len(popped') = Len(popped) + len'
  BY <1>1, <1>2, <1>6, ConcatProperties
<1> QED BY <1>1, <1>2, <1>4, <1>5, <1>6, <1>7

-----------------------------------------------------------------------------
(* The producer's steps keep the types, and the places of both threads.    *)
LEMMA PushTypes ==
  ASSUME TypeOK, PcInv, PushBegins \/ PushStep
  PROVE  TypeOK' /\ PcInv'
<1> USE Sizes DEF TypeOK, PcInv, list, producer, consumer, Count
<1>1. CASE PushBegins
  <2>1. chunk' \in Seq(Value) /\ Len(chunk') \in Nat
    BY <1>1, BufferAssumption, LenProperties DEF PushBegins
  <2> QED BY <1>1, <2>1 DEF PushBegins
<1>2. CASE PushAllocates
  <2>1. PICK n \in Node : /\ tmp' = n /\ alive' = alive \cup {n}
                          /\ next' = [next EXCEPT ![n] = NULL]
                          /\ bytes' = [bytes EXCEPT ![n] = <<>>]
    BY <1>2 DEF PushAllocates
  <2>2. <<>> \in Seq(Value) /\ Len(<<>>) = 0
    BY EmptySeq
  <2>3. bytes' \in [Node -> Seq(Value)] /\ \A m \in Node : Len(bytes'[m]) <= NodeSize
    BY <2>1, <2>2
  <2> QED BY <1>2, <2>1, <2>3 DEF PushAllocates
<1>3. CASE PushFails \/ PushReturns
  <2>1. <<>> \in Seq(Value) /\ Len(<<>>) = 0
    BY EmptySeq
  <2>2. /\ pushing' = "no" /\ chunk' = <<>> /\ pos' = 0 /\ pushing = "loop"
        /\ UNCHANGED <<list, read_count, write_count, plen, tmp, consumer, burst>>
    BY <1>3 DEF PushFails, PushReturns
  <2>3. chunk' \in Seq(Value) /\ pos' \in 0 .. Len(chunk')
    BY <2>1, <2>2
  <2> QED BY <2>2, <2>3
<1>4. CASE PushLinks \/ PushLinked
  BY <1>4 DEF PushLinks, PushLinked
<1>5. CASE PushStores
  <2>1. /\ tail \in Node
        /\ plen' \in Nat /\ pos + plen' <= Len(chunk)
        /\ bytes' = [bytes EXCEPT ![tail] = @ \o SubSeq(chunk, pos + 1, pos + plen')]
        /\ SubSeq(chunk, pos + 1, pos + plen') \in Seq(Value)
        /\ Len(SubSeq(chunk, pos + 1, pos + plen')) = plen'
        /\ Len(bytes[tail]) + plen' <= NodeSize
    BY <1>5, Stores
  <2>2. bytes' \in [Node -> Seq(Value)] /\ \A m \in Node : Len(bytes'[m]) <= NodeSize
    <3> DEFINE more == SubSeq(chunk, pos + 1, pos + plen')
    <3>1. more \in Seq(Value) /\ Len(more) = plen'
      BY <2>1
    <3> HIDE DEF more
    <3>2. /\ bytes[tail] \o more \in Seq(Value)
          /\ Len(bytes[tail] \o more) = Len(bytes[tail]) + Len(more)
      <4>1. bytes[tail] \in Seq(Value)
        BY <2>1
      <4> HIDE DEF TypeOK, PcInv
      <4> QED BY <3>1, <4>1, ConcatProperties
    <3> QED BY <2>1, <3>1, <3>2 DEF more
  <2>3. burst' \in Nat /\ burst' <= Burst
    <3>1. burst' = (IF popping = "last?" THEN burst + plen' ELSE 0) /\ burst' <= Burst
      BY <1>5 DEF PushStores
    <3>2. burst \in Nat /\ plen' \in Nat
      BY <2>1
    <3> HIDE DEF TypeOK, PcInv
    <3>3. burst' = burst + plen' \/ burst' = 0
      BY <3>1
    <3>4. burst + plen' \in Nat
      <4>1. \A x, y \in Nat : x + y \in Nat
        OBVIOUS
      <4> QED BY <3>2, <4>1
    <3> QED BY <3>1, <3>3, <3>4
  <2> QED BY <1>5, <2>1, <2>2, <2>3 DEF PushStores
<1>6. CASE PushCounts
  <2>1. write_count' \in Count
    BY <1>6, Modulo DEF PushCounts
  <2>2. Len(chunk) \in Nat
    BY LenProperties
  <2> QED BY <1>6, <2>1, <2>2 DEF PushCounts
<1> QED BY <1>1, <1>2, <1>3, <1>4, <1>5, <1>6 DEF PushStep

(* So do the consumer's, and clear.                                        *)
LEMMA PopTypes ==
  ASSUME TypeOK, PcInv, PopBegins \/ PopStep \/ Clear
  PROVE  TypeOK' /\ PcInv'
<1> USE Sizes DEF TypeOK, PcInv, list, producer, consumer, Count
<1>0. <<>> \in Seq(Value) /\ Len(<<>>) = 0 /\ Len(popped) \in Nat
  BY EmptySeq, LenProperties
<1>1. CASE PopBegins
  <2>1. asked' \in Count
    <3>1. PICK n \in Lengths : asked' = Smaller(n, GetCount)
      BY <1>1 DEF PopBegins
    <3>2. n \in Nat /\ GetCount \in 0 .. Capacity
      BY BufferAssumption, CountIs
    <3>3. Smaller(n, GetCount) \in Nat /\ Smaller(n, GetCount) <= GetCount
      <4> HIDE DEF TypeOK, PcInv
      <4> QED BY <3>2, SmallerIs
    <3> HIDE DEF TypeOK, PcInv
    <3> QED BY <3>1, <3>2, <3>3
  <2> QED BY <1>0, <1>1, <2>1 DEF PopBegins
<1>2. CASE PopTakes
  <2>1. /\ head \in Node
        /\ len' \in Nat /\ Len(popped) + len' <= asked
        /\ popped' \in Seq(Value) /\ Len(popped') = Len(popped) + len'
        /\ bytes' = [bytes EXCEPT ![head] = SubSeq(@, len' + 1, Len(@))]
        /\ bytes'[head] \in Seq(Value) /\ Len(bytes'[head]) = Len(bytes[head]) - len'
    BY <1>2, Takes
  <2>2. bytes' \in [Node -> Seq(Value)] /\ \A m \in Node : Len(bytes'[m]) <= NodeSize
    <3>1. bytes' = [bytes EXCEPT ![head] = bytes'[head]]
      BY <2>1
    <3>2. Len(bytes[head]) \in Nat /\ Len(bytes[head]) <= NodeSize
      BY <2>1, LenProperties
    <3>3. Len(bytes'[head]) <= NodeSize
      <4>1. \A x, y, z, m \in Nat : x <= m /\ z = x - y => z <= m
        OBVIOUS
      <4>2. Len(bytes'[head]) \in Nat /\ NodeSize \in Nat
        BY ONLY <2>1, Sizes, LenProperties
      <4> QED BY ONLY <2>1, <3>2, <4>1, <4>2
    <3>4. /\ bytes \in [Node -> Seq(Value)] /\ \A m \in Node : Len(bytes[m]) <= NodeSize
          /\ bytes'[head] \in Seq(Value) /\ head \in Node
      BY <2>1
    <3> HIDE DEF TypeOK, PcInv
    <3>5. bytes' \in [Node -> Seq(Value)]
      BY ONLY <3>1, <3>4
    <3>6. \A m \in Node : m # head => bytes'[m] = bytes[m]
      BY ONLY <3>1, <3>4
    <3>7. \A m \in Node : Len(bytes'[m]) <= NodeSize
      BY ONLY <3>3, <3>4, <3>6
    <3> QED BY ONLY <3>5, <3>7
  <2>3. /\ UNCHANGED <<head, tail, next, alive, read_count, write_count, producer, keep,
                       asked, out, burst>>
        /\ popping' = "count"
    BY <1>2 DEF PopTakes
  <2>4. head # NULL
    BY <2>1
  <2> QED BY <2>1, <2>2, <2>3, <2>4
<1>3. CASE PopCounts
  <2>1. read_count' \in Count
    BY <1>3, Modulo DEF PopCounts
  <2> QED BY <1>0, <1>3, <2>1 DEF PopCounts
<1>4. CASE PopSeesEmpty
  BY <1>4 DEF PopSeesEmpty
<1>5. CASE PopFrees
  <2>1. bytes' \in [Node -> Seq(Value)] /\ \A m \in Node : Len(bytes'[m]) <= NodeSize
    <3>1. bytes' = bytes \/ bytes' = [bytes EXCEPT ![head] = <<>>]
      BY <1>5 DEF PopFrees
    <3>2. /\ bytes \in [Node -> Seq(Value)] /\ \A m \in Node : Len(bytes[m]) <= NodeSize
          /\ <<>> \in Seq(Value) /\ Len(<<>>) = 0 /\ NodeSize \in Nat
      BY <1>0
    <3> HIDE DEF TypeOK, PcInv
    <3>3. \A m \in Node : bytes'[m] = bytes[m] \/ bytes'[m] = <<>>
      BY <3>1, <3>2
    <3>4. bytes' \in [Node -> Seq(Value)]
      BY <3>1, <3>2
    <3>5. \A m \in Node : Len(bytes'[m]) <= NodeSize
      <4> TAKE m \in Node
      <4>1. Len(bytes[m]) <= NodeSize /\ 0 <= NodeSize
        BY <3>2
      <4> QED BY <3>2, <3>3, <4>1
    <3> QED BY <3>4, <3>5
  <2>2. head \in Node
    BY <1>5 DEF PopFrees
  <2>3. /\ head' \in Node \cup {NULL} /\ tail' \in Node \cup {NULL}
        /\ next' \in [Node -> Node \cup {NULL}] /\ alive' \in SUBSET Node
    BY <1>5, <2>2 DEF PopFrees
  <2> QED BY <1>5, <2>1, <2>3 DEF PopFrees
<1>6. CASE PopReturns
  BY <1>0, <1>6 DEF PopReturns
<1>7. CASE Clear
  BY <1>0, <1>7 DEF Clear
<1> QED BY <1>1, <1>2, <1>3, <1>4, <1>5, <1>6, <1>7 DEF PopStep

(* The types and the places are kept by every step, however the two        *)
(* threads interleave.                                                     *)
THEOREM TypesAndPlaces == Spec => [](TypeOK /\ PcInv)
<1>1. Init => TypeOK /\ PcInv
  <2>1. <<>> \in Seq(Value) /\ Len(<<>>) = 0
    BY EmptySeq
  <2> QED BY <2>1, Sizes DEF Init, TypeOK, PcInv, Count
<1>2. TypeOK /\ PcInv /\ [Next]_vars => (TypeOK /\ PcInv)'
  <2> SUFFICES ASSUME TypeOK, PcInv, [Next]_vars PROVE TypeOK' /\ PcInv'
    OBVIOUS
  <2>1. CASE UNCHANGED vars
    BY <2>1 DEF vars, list, producer, consumer, TypeOK, PcInv, Count
  <2> QED BY <2>1, PushTypes, PopTypes DEF Next
<1> QED BY <1>1, <1>2, PTL DEF Spec

(* Every variable has its type: no node overflows and no count leaves its  *)
(* range (common_buffer.c:72-172).                                         *)
THEOREM TypeCorrect == Spec => []TypeOK
<1>1. TypeOK /\ PcInv => TypeOK
  OBVIOUS
<1> QED BY <1>1, TypesAndPlaces, PTL
-----------------------------------------------------------------------------
(* The places of a list hold nodes, and nothing comes after the last.      *)
LEMMA Places ==
  ASSUME NEW L \in Seq(Node)
  PROVE  /\ Len(L) \in Nat
         /\ \A i \in 1 .. Len(L) : L[i] \in Node /\ L[i] # NULL
         /\ \A k \in Nat : Nth(L, k) = NULL <=> k >= Len(L)
         /\ \A k \in Nat : k < Len(L) => k + 1 \in 1 .. Len(L) /\ Nth(L, k) = L[k + 1]
         /\ Nodes(L) \subseteq Node
         /\ L = <<>> <=> Len(L) = 0
<1>1. Len(L) \in Nat /\ \A i \in 1 .. Len(L) : L[i] \in Node
  BY LenProperties, ElementOfSeq
<1>2. \A k \in Nat : k < Len(L) => k + 1 \in 1 .. Len(L) /\ Nth(L, k) = L[k + 1]
  BY <1>1 DEF Nth
<1>3. \A i \in 1 .. Len(L) : L[i] # NULL
  BY <1>1, Sizes
<1>4. \A k \in Nat : Nth(L, k) = NULL <=> k >= Len(L)
  <2> TAKE k \in Nat
  <2>1. CASE k < Len(L)
    BY <1>1, <1>2, <1>3, <2>1
  <2>2. CASE ~(k < Len(L))
    BY <1>1, <2>2 DEF Nth
  <2> QED BY <2>1, <2>2
<1>5. Nodes(L) \subseteq Node
  BY <1>1 DEF Nodes
<1>6. L = <<>> <=> Len(L) = 0
  BY <1>1, EmptySeq
<1> QED BY <1>1, <1>2, <1>3, <1>4, <1>5, <1>6

(* Steps that touch neither the list nor where the producer stands in it   *)
(* leave it the same list.                                                 *)
LEMMA ChainRests ==
  ASSUME NEW L, Chain(L), UNCHANGED <<head, tail, next, alive, tmp>>,
         \/ pushing' = pushing
         \/ {pushing, pushing'} \subseteq {"no", "loop", "count"},
         pushing' \in {"link", "head", "tail"} => bytes'[tmp] = bytes[tmp]
  PROVE  Chain(L)'
BY DEF Chain

(* A node that malloc returns is outside the list, which stays what it was *)
(* (common_buffer.c:86-93).                                                *)
LEMMA AllocatesChain ==
  ASSUME TypeOK, PcInv, NEW L, Chain(L), PushAllocates
  PROVE  Chain(L)'
<1>1. PICK n \in Node \ alive : /\ tmp' = n /\ alive' = alive \cup {n}
                                /\ next' = [next EXCEPT ![n] = NULL]
                                /\ bytes' = [bytes EXCEPT ![n] = <<>>]
  BY DEF PushAllocates
<1>2. pushing = "loop" /\ pushing' = "link" /\ UNCHANGED <<head, tail>>
  BY DEF PushAllocates
<1>3. alive = Nodes(L) /\ n \notin Nodes(L)
  BY <1>1, <1>2 DEF Chain
<1>4. \A i \in 1 .. Len(L) : L[i] # n
  BY <1>3 DEF Nodes
<1>5. /\ next'[n] = NULL /\ bytes'[n] = <<>>
      /\ \A m \in Node : m # n => next'[m] = next[m]
  BY <1>1 DEF TypeOK
<1>6. \A i \in 1 .. Len(L) : next'[L[i]] = Nth(L, i)
  BY <1>4, <1>5, Places DEF Chain
<1>7. tail' = IF L = <<>> THEN NULL ELSE L[Len(L)]
  BY <1>2 DEF Chain
<1> QED BY <1>1, <1>2, <1>3, <1>5, <1>6, <1>7 DEF Chain

(* A list that gets one node more.                                         *)
LEMMA Longer ==
  ASSUME NEW L \in Seq(Node), NEW n \in Node
  PROVE  /\ Append(L, n) \in Seq(Node) /\ Len(Append(L, n)) = Len(L) + 1
         /\ \A i \in 1 .. Len(L) : Append(L, n)[i] = L[i]
         /\ Append(L, n)[Len(L) + 1] = n
         /\ Nodes(Append(L, n)) = Nodes(L) \cup {n}
<1> DEFINE M == Append(L, n)
<1>0. Len(L) \in Nat
  BY LenProperties
<1>1. M \in Seq(Node) /\ Len(M) = Len(L) + 1 /\ \A i \in 1 .. Len(L) : M[i] = L[i]
  BY AppendProperties
<1>2. M[Len(L) + 1] = n
  <2>1. \A i \in 1 .. Len(L) + 1 : M[i] = IF i <= Len(L) THEN L[i] ELSE n
    BY <1>0
  <2> QED BY <1>0, <2>1
<1> HIDE DEF M
<1>3. Nodes(M) = Nodes(L) \cup {n}
  <2>1. \A i : i \in 1 .. Len(M) <=> i \in 1 .. Len(L) \/ i = Len(L) + 1
    BY <1>0, <1>1
  <2> QED BY <1>1, <1>2, <2>1 DEF Nodes
<1> QED BY <1>1, <1>2, <1>3 DEF M

(* The first store of a link: an empty list gets its tail, another one its *)
(* new last node (common_buffer.c:95-101).                                 *)
LEMMA LinksChain ==
  ASSUME TypeOK, PcInv, NEW L, Chain(L), PushLinks, NEW t, t = tmp
  PROVE  IF head = NULL THEN Chain(L)' ELSE Chain(Append(L, t))'
<1>0. /\ L \in Seq(Node) /\ tmp \in Node /\ pushing = "link" /\ Len(L) \in Nat
      /\ tmp \notin Nodes(L) /\ next[tmp] = NULL /\ bytes[tmp] = <<>> /\ head = Nth(L, 0)
      /\ tail = (IF L = <<>> THEN NULL ELSE L[Len(L)]) /\ alive = Nodes(L) \cup {tmp}
  BY LenProperties DEF PcInv, Chain, PushLinks
<1>1. CASE head = NULL
  <2>1. L = <<>>
    BY <1>0, <1>1, Places
  <2> QED BY <1>0, <1>1, <2>1 DEF Chain, PushLinks
<1>2. CASE head # NULL
  <2> DEFINE M == Append(L, t)
             n == Len(L)
  <2>1. n \in Nat /\ n > 0 /\ L # <<>>
    BY <1>0, <1>2, Places
  <2>2. /\ M \in Seq(Node) /\ Len(M) = n + 1 /\ \A i \in 1 .. n : M[i] = L[i]
        /\ M[n + 1] = tmp /\ Nodes(M) = Nodes(L) \cup {tmp}
    BY <1>0, Longer
  <2>3. /\ next' = [next EXCEPT ![tail] = tmp] /\ pushing' = "tail"
        /\ UNCHANGED <<head, tail, bytes, alive, tmp>>
    BY <1>2 DEF PushLinks
  <2>4. tail = L[n] /\ L[n] \in Node /\ n \in 1 .. n
    BY <1>0, <2>1, Places
  <2> HIDE DEF M
  <2>5. \A i, j \in 1 .. n + 1 : M[i] = M[j] => i = j
    <3>1. \A i \in 1 .. n : L[i] # tmp
      BY <1>0 DEF Nodes
    <3>2. \A i \in 1 .. n + 1 : i \in 1 .. n \/ i = n + 1
      BY <2>1
    <3>3. \A i, j \in 1 .. n : L[i] = L[j] => i = j
      BY DEF Chain
    <3> HIDE DEF n
    <3> QED BY <2>2, <3>1, <3>2, <3>3
  <2>6. head' = Nth(M, 0)
    <3>1. head = L[1] /\ 1 \in 1 .. n
      BY <1>0, <2>1 DEF Nth
    <3> HIDE DEF n
    <3> QED BY <2>1, <2>2, <2>3, <3>1 DEF Nth
  <2>7. \A i \in 1 .. n + 1 : next'[M[i]] = Nth(M, i)
    <3> TAKE i \in 1 .. n + 1
    <3>1. CASE i = n + 1
      <4>1. tmp # L[n]
        BY <1>0, <2>4 DEF Nodes
      <4>2. next'[M[i]] = NULL
        BY <1>0, <2>2, <2>3, <2>4, <3>1, <4>1 DEF TypeOK
      <4>3. Nth(M, i) = NULL
        BY <2>1, <2>2, <3>1 DEF Nth
      <4> QED BY <4>2, <4>3
    <3>2. CASE i = n
      <4>1. next'[L[n]] = tmp
        BY <2>3, <2>4 DEF TypeOK
      <4> QED BY <2>1, <2>2, <2>4, <3>2, <4>1 DEF Nth
    <3>3. CASE i \in 1 .. n /\ i < n
      <4>1. L[i] # L[n] /\ L[i] \in Node
        BY <1>0, <2>1, <2>4, <3>3, Places DEF Chain
      <4>2. next'[L[i]] = Nth(L, i)
        BY <2>3, <2>4, <3>3, <4>1 DEF Chain, TypeOK
      <4>3. Nth(L, i) = L[i + 1] /\ Nth(M, i) = M[i + 1] /\ i + 1 \in 1 .. n
        BY <2>1, <2>2, <3>3 DEF Nth
      <4> QED BY <2>2, <3>3, <4>2, <4>3
    <3> QED BY <2>1, <3>1, <3>2, <3>3
  <2>8. Len(M) > 1 /\ M[Len(M)] = tmp /\ tail = M[Len(M) - 1]
    <3>1. n \in 1 .. n /\ Len(M) - 1 = n /\ Len(M) > 1
      BY <2>1, <2>2
    <3> QED BY <2>2, <2>4, <3>1
  <2>9. Chain(M)'
    <3>1. /\ \A i, j \in 1 .. Len(M) : M[i] = M[j] => i = j
          /\ \A i \in 1 .. Len(M) : next'[M[i]] = Nth(M, i)
      BY <2>2, <2>5, <2>7
    <3>2. alive' = Nodes(M) /\ bytes'[tmp'] = <<>> /\ tail' = M[Len(M) - 1] /\ M[Len(M)] = tmp'
      BY <1>0, <2>2, <2>3, <2>8
    <3> HIDE DEF n
    <3> QED BY <2>2, <2>3, <2>6, <2>8, <3>1, <3>2 DEF Chain
  <2> QED BY <1>2, <2>9 DEF M
<1> QED BY <1>1, <1>2

(* The second store, of head or of tail, completes the list.               *)
LEMMA LinkedChain ==
  ASSUME TypeOK, PcInv, NEW L, Chain(L), PushLinked, NEW t, t = tmp
  PROVE  IF pushing = "head" THEN Chain(<<t>>)' ELSE Chain(L)'
<1>0. tmp \in Node /\ pushing' = "loop" /\ UNCHANGED <<next, bytes, alive>>
  BY DEF PcInv, PushLinked
<1>1. CASE pushing = "head"
  <2>1. /\ L = <<>> /\ tmp \notin Nodes(L) /\ next[tmp] = NULL /\ alive = Nodes(L) \cup {tmp}
        /\ tail = tmp /\ head' = tmp /\ tail' = tail
    BY <1>1 DEF Chain, PushLinked
  <2>2. <<tmp>> \in Seq(Node) /\ Len(<<tmp>>) = 1 /\ <<tmp>>[1] = tmp /\ <<tmp>> # <<>>
    BY <1>0
  <2>3. Nodes(<<tmp>>) = {tmp} /\ Nodes(<<>>) = {}
    BY <2>2 DEF Nodes
  <2>4. Nth(<<tmp>>, 0) = tmp /\ Nth(<<tmp>>, 1) = NULL
    BY <2>2 DEF Nth
  <2>5. \A i : i \in 1 .. 1 <=> i = 1
    OBVIOUS
  <2>6. Chain(<<t>>)'
    <3> DEFINE M == <<t>>
    <3>1. /\ \A i, j \in 1 .. Len(M) : M[i] = M[j] => i = j
          /\ \A i \in 1 .. Len(M) : next'[M[i]] = Nth(M, i)
      <4> HIDE DEF M
      <4>1. Len(M) = 1 /\ M[1] = tmp /\ Nth(M, 1) = NULL /\ next'[tmp] = NULL
        BY <1>0, <2>1, <2>2, <2>4 DEF M
      <4> QED BY <2>5, <4>1
    <3>2. alive' = Nodes(M) /\ head' = Nth(M, 0) /\ tail' = M[Len(M)] /\ M # <<>> /\ M \in Seq(Node)
      BY <1>0, <2>1, <2>2, <2>3, <2>4
    <3> HIDE DEF M
    <3>3. Chain(M)'
      BY <1>0, <3>1, <3>2 DEF Chain
    <3> QED BY <3>3 DEF M
  <2> QED BY <1>1, <2>6
<1>2. CASE pushing = "tail"
  <2>1. L # <<>>
    BY <1>2 DEF Chain
  <2> QED BY <1>0, <1>2, <2>1 DEF Chain, PushLinked
<1> QED BY <1>1, <1>2 DEF PushLinked

(* A list that loses its first node.                                       *)
LEMMA Shorter ==
  ASSUME NEW L \in Seq(Node), Len(L) > 0, \A i, j \in 1 .. Len(L) : L[i] = L[j] => i = j
  PROVE  /\ Tail(L) \in Seq(Node) /\ Len(Tail(L)) = Len(L) - 1
         /\ \A i \in 1 .. Len(L) - 1 : Tail(L)[i] = L[i + 1] /\ i + 1 \in 1 .. Len(L)
         /\ \A i \in 1 .. Len(L) - 1 : Tail(L)[i] # L[1]
         /\ \A i, j \in 1 .. Len(L) - 1 : Tail(L)[i] = Tail(L)[j] => i = j
         /\ Nodes(Tail(L)) = Nodes(L) \ {L[1]}
         /\ \A k \in Nat : Nth(Tail(L), k) = Nth(L, k + 1)
<1> DEFINE M == Tail(L)
           n == Len(L)
<1>1. n \in Nat /\ n > 0 /\ L # <<>>
  BY Places
<1>2. M \in Seq(Node) /\ Len(M) = n - 1
  BY <1>1, HeadTailProperties
<1>3. \A i \in 1 .. n - 1 : M[i] = L[i + 1] /\ i + 1 \in 1 .. n
  <2> TAKE i \in 1 .. n - 1
  <2>1. M = SubSeq(L, 2, n)
    BY <1>1, TailIsSubSeq
  <2>2. \A k \in 2 .. n : L[k] \in Node
    BY <1>1, Places
  <2>3. \A k \in 1 .. n - 2 + 1 : SubSeq(L, 2, n)[k] = L[2 + k - 1]
    BY <1>1, <2>2, SubSeqProperties
  <2>4. i \in 1 .. n - 2 + 1 /\ 2 + i - 1 = i + 1 /\ i + 1 \in 1 .. n
    BY <1>1
  <2> HIDE DEF M, n
  <2> QED BY <2>1, <2>3, <2>4
<1> HIDE DEF M
<1>4. \A i \in 1 .. n - 1 : M[i] # L[1]
  <2> TAKE i \in 1 .. n - 1
  <2>1. i + 1 \in 1 .. n /\ 1 \in 1 .. n /\ i + 1 # 1
    BY <1>1
  <2> QED BY <1>3, <2>1
<1>5. \A i, j \in 1 .. n - 1 : M[i] = M[j] => i = j
  <2> TAKE i, j \in 1 .. n - 1
  <2>1. i + 1 \in 1 .. n /\ j + 1 \in 1 .. n /\ (i + 1 = j + 1 => i = j)
    BY <1>1
  <2> QED BY <1>3, <2>1
<1>6. Nodes(M) = Nodes(L) \ {L[1]}
  <2>1. ASSUME NEW x \in Nodes(M) PROVE x \in Nodes(L) \ {L[1]}
    <3>1. PICK i \in 1 .. n - 1 : x = M[i]
      BY <1>2, <2>1 DEF Nodes
    <3> QED BY <1>3, <1>4, <3>1 DEF Nodes
  <2>2. ASSUME NEW x \in Nodes(L), x # L[1] PROVE x \in Nodes(M)
    <3>1. PICK i \in 1 .. n : x = L[i]
      BY DEF Nodes
    <3>2. i - 1 \in 1 .. n - 1 /\ i - 1 + 1 = i
      BY <1>1, <2>2, <3>1
    <3>3. x = M[i - 1] /\ i - 1 \in 1 .. Len(M)
      BY <1>2, <1>3, <3>1, <3>2
    <3> QED BY <3>3 DEF Nodes
  <2> QED BY <2>1, <2>2
<1>7. \A k \in Nat : Nth(M, k) = Nth(L, k + 1)
  <2> TAKE k \in Nat
  <2>1. CASE k < n - 1
    <3>1. k + 1 \in 1 .. n - 1 /\ k + 1 < n
      BY <1>1, <2>1
    <3> QED BY <1>2, <1>3, <2>1, <3>1 DEF Nth
  <2>2. CASE ~(k < n - 1)
    <3>1. ~(k + 1 < n)
      BY <1>1, <2>2
    <3> QED BY <1>2, <2>2, <3>1 DEF Nth
  <2> QED BY <2>1, <2>2
<1> QED BY <1>2, <1>3, <1>4, <1>5, <1>6, <1>7 DEF M

(* PopFrees takes the first node out only when another one follows it, and *)
(* never the one that tail points to (common_buffer.c:156-166).            *)
LEMMA FreesChain ==
  ASSUME TypeOK, PcInv, NEW L, Chain(L), PopFrees
  PROVE  IF head = tail THEN Chain(L)'
         ELSE /\ Chain(Tail(L))' /\ Len(L) > 1 /\ head = L[1]
              /\ bytes' = [bytes EXCEPT ![head] = <<>>]
<1>1. CASE head = tail
  BY <1>1, ChainRests DEF PopFrees, list, producer
<1>2. CASE head # tail
  <2> DEFINE M == Tail(L)
             n == Len(L)
  <2>1. /\ head # NULL /\ head \in Node /\ popping' = "loop"
        /\ head' = next[head] /\ tail' = (IF next[head] = NULL THEN NULL ELSE tail)
        /\ alive' = alive \ {head} /\ bytes' = [bytes EXCEPT ![head] = <<>>]
        /\ next' = [next EXCEPT ![head] = NULL]
        /\ UNCHANGED <<pushing, tmp>>
    BY <1>2 DEF PopFrees, PcInv, TypeOK, producer
  <2>2. L \in Seq(Node) /\ n \in Nat /\ n > 0 /\ L # <<>> /\ pushing # "head" /\ head = L[1]
    <3>1. L \in Seq(Node) /\ head = Nth(L, 0) /\ (pushing = "head" => L = <<>>)
      BY DEF Chain
    <3>2. n \in Nat /\ n > 0 /\ L # <<>>
      BY <2>1, <3>1, Places
    <3> QED BY <3>1, <3>2 DEF Nth
  <2>3. n > 1 /\ (pushing = "tail" => n > 2)
    <3>1. CASE pushing = "tail"
      <4>1. tail = L[n - 1] /\ n > 1
        BY <3>1 DEF Chain
      <4>2. n - 1 # 1
        BY <1>2, <2>2, <4>1
      <4>3. \A x \in Nat : x > 1 /\ x - 1 # 1 => x > 2
        OBVIOUS
      <4> HIDE DEF n
      <4> QED BY <2>2, <3>1, <4>1, <4>2, <4>3
    <3>2. CASE pushing # "tail"
      <4>1. tail = L[n]
        BY <2>2, <3>2 DEF Chain
      <4>2. n # 1
        BY <1>2, <2>2, <4>1
      <4>3. \A x \in Nat : x > 0 /\ x # 1 => x > 1
        OBVIOUS
      <4> HIDE DEF n
      <4> QED BY <2>2, <3>2, <4>2, <4>3
    <3> QED BY <3>1, <3>2
  <2>4. /\ M \in Seq(Node) /\ Len(M) = n - 1
        /\ \A i \in 1 .. n - 1 : M[i] = L[i + 1] /\ i + 1 \in 1 .. n
        /\ \A i \in 1 .. n - 1 : M[i] # L[1]
        /\ \A i, j \in 1 .. n - 1 : M[i] = M[j] => i = j
        /\ Nodes(M) = Nodes(L) \ {L[1]}
        /\ \A k \in Nat : Nth(M, k) = Nth(L, k + 1)
    BY <2>2, Shorter DEF Chain
  <2> HIDE DEF M
  <2>5. head' = Nth(M, 0) /\ next[head] # NULL
    <3>1. next[L[1]] = Nth(L, 1) /\ 1 \in Nat /\ ~(1 >= n)
      BY <2>2, <2>3 DEF Chain
    <3>2. Nth(L, 1) # NULL /\ Nth(M, 0) = Nth(L, 0 + 1) /\ 0 + 1 = 1
      BY <2>2, <2>4, <3>1, Places
    <3> QED BY <2>1, <2>2, <3>1, <3>2
  <2>6. \A i \in 1 .. Len(M) : next'[M[i]] = Nth(M, i)
    <3> TAKE i \in 1 .. Len(M)
    <3>1. M[i] # head /\ M[i] \in Node /\ i \in Nat /\ i \in 1 .. n - 1
      <4>1. Len(M) = n - 1 /\ M \in Seq(Node)
        BY <2>4
      <4>2. i \in 1 .. n - 1 /\ i \in Nat
        BY <4>1
      <4>3. M[i] \in Node
        BY <4>1, Places
      <4>4. M[i] # L[1]
        BY <2>4, <4>2
      <4> HIDE DEF n
      <4> QED BY <2>2, <4>2, <4>3, <4>4
    <3>2. next'[M[i]] = next[L[i + 1]] /\ i + 1 \in 1 .. n
      BY <2>1, <2>4, <3>1 DEF TypeOK
    <3>3. next[L[i + 1]] = Nth(L, i + 1)
      BY <3>2 DEF Chain
    <3> QED BY <2>4, <3>1, <3>2, <3>3
  <2>7. tail' = tail
    BY <2>1, <2>5
  <2>8. /\ pushing = "tail" => Len(M) > 1 /\ M[Len(M)] = tmp /\ tail = M[Len(M) - 1]
        /\ pushing # "tail" => M # <<>> /\ tail = M[Len(M)]
    <3>1. ASSUME NEW i \in 1 .. n - 1 PROVE M[i] = L[i + 1]
      BY <2>4
    <3>2. M[n - 1] = L[n]
      <4>1. n - 1 \in 1 .. n - 1 /\ n - 1 + 1 = n
        BY <2>2, <2>3
      <4> QED BY <3>1, <4>1
    <3>3. CASE pushing = "tail"
      <4>1. n - 2 \in 1 .. n - 1 /\ n - 2 + 1 = n - 1 /\ n - 1 - 1 = n - 2 /\ n - 1 > 1
        BY <2>2, <2>3, <3>3
      <4>2. M[n - 2] = L[n - 1]
        BY <3>1, <4>1
      <4>3. tail = L[n - 1] /\ L[n] = tmp
        BY <3>3 DEF Chain
      <4> HIDE DEF n
      <4> QED BY <2>4, <3>2, <3>3, <4>1, <4>2, <4>3
    <3>4. CASE pushing # "tail"
      <4>1. tail = L[n]
        BY <2>2, <3>4 DEF Chain
      <4>2. M # <<>>
        BY <2>2, <2>3, <2>4, Places
      <4> HIDE DEF n
      <4> QED BY <2>4, <3>2, <3>4, <4>1, <4>2
    <3> QED BY <3>3, <3>4
  <2>9. /\ pushing \in {"link", "head"} => tmp \notin Nodes(M) /\ next'[tmp] = NULL
        /\ pushing \in {"link", "head", "tail"} => bytes'[tmp] = <<>>
    <3>1. pushing \in {"link", "head", "tail"} => tmp \in Node /\ bytes[tmp] = <<>>
      BY DEF PcInv, Chain
    <3>2. pushing \in {"link", "head"} => tmp \notin Nodes(L) /\ next[tmp] = NULL
      BY DEF Chain
    <3> QED BY <2>1, <2>4, <3>1, <3>2 DEF TypeOK
  <2>10. alive' = Nodes(M) \cup (IF pushing \in {"link", "head"} THEN {tmp} ELSE {})
    <3>1. /\ alive = Nodes(L) \cup (IF pushing \in {"link", "head"} THEN {tmp} ELSE {})
          /\ pushing \in {"link", "head"} => tmp \notin Nodes(L)
      BY DEF Chain
    <3>2. head \in Nodes(L)
      BY <2>2 DEF Nodes
    <3> QED BY <2>1, <2>2, <2>4, <3>1, <3>2
  <2>11. Chain(M)'
    <3>1. \A i, j \in 1 .. Len(M) : M[i] = M[j] => i = j
      BY <2>4
    <3> HIDE DEF n
    <3> QED BY <2>1, <2>2, <2>4, <2>5, <2>6, <2>7, <2>8, <2>9, <2>10, <3>1 DEF Chain
  <2> QED BY <1>2, <2>1, <2>2, <2>3, <2>11 DEF M
<1> QED BY <1>1, <1>2

(* common_buffer_clear leaves the empty list (common_buffer.c:53-70).      *)
LEMMA ClearsChain ==
  ASSUME Clear
  PROVE  Chain(<<>>)'
<1>1. <<>> \in Seq(Node) /\ Len(<<>>) = 0 /\ Nodes(<<>>) = {} /\ Nth(<<>>, 0) = NULL
  BY EmptySeq DEF Nodes, Nth
<1>2. \A i \in 1 .. Len(<<>>) : FALSE
  BY <1>1
<1> QED BY <1>1, <1>2 DEF Clear, Chain, producer

(* The consumer never pops from the node that is being linked.             *)
LEMMA TakesElsewhere ==
  ASSUME PcInv, NEW L, Chain(L), head # NULL, pushing \in {"link", "head", "tail"}
  PROVE  head # tmp
<1>1. L \in Seq(Node) /\ head = Nth(L, 0) /\ Len(L) \in Nat
  BY LenProperties DEF Chain
<1>2. Len(L) > 0 /\ L # <<>>
  BY <1>1, Places
<1>3. head = L[1] /\ 1 \in 1 .. Len(L)
  BY <1>1, <1>2 DEF Nth
<1>4. CASE pushing \in {"link", "head"}
  BY <1>3, <1>4 DEF Chain, Nodes
<1>5. CASE pushing = "tail"
  <2>1. /\ Len(L) > 1 /\ L[Len(L)] = tmp
        /\ \A i, j \in 1 .. Len(L) : L[i] = L[j] => i = j
    BY <1>5 DEF Chain
  <2>2. Len(L) \in 1 .. Len(L) /\ Len(L) # 1
    BY <1>1, <2>1
  <2> QED BY <1>3, <2>1, <2>2
<1> QED BY <1>4, <1>5

(* So does common_buffer_init.                                             *)
LEMMA InitialChain ==
  ASSUME Init
  PROVE  Chain(<<>>)
<1>1. <<>> \in Seq(Node) /\ Len(<<>>) = 0 /\ Nodes(<<>>) = {} /\ Nth(<<>>, 0) = NULL
  BY EmptySeq DEF Nodes, Nth
<1>2. \A i \in 1 .. Len(<<>>) : FALSE
  BY <1>1
<1> QED BY <1>1, <1>2 DEF Init, Chain

(* Every step leaves a list.                                               *)
LEMMA ListKept ==
  ASSUME TypeOK, PcInv, ListInv, [Next]_vars
  PROVE  ListInv'
<1> PICK L : Chain(L)
  BY DEF ListInv
<1>1. CASE PushAllocates
  BY <1>1, AllocatesChain DEF ListInv
<1>2. CASE PushLinks
  <2>1. PICK t : t = tmp
    OBVIOUS
  <2>2. Chain(L)' \/ Chain(Append(L, t))'
    BY <1>2, <2>1, LinksChain
  <2> QED BY <2>2 DEF ListInv
<1>3. CASE PushLinked
  <2>1. PICK t : t = tmp
    OBVIOUS
  <2>2. Chain(L)' \/ Chain(<<t>>)'
    BY <1>3, <2>1, LinkedChain
  <2> QED BY <2>2 DEF ListInv
<1>4. CASE PopFrees
  <2>1. Chain(L)' \/ Chain(Tail(L))'
    BY <1>4, FreesChain
  <2> QED BY <2>1 DEF ListInv
<1>5. CASE Clear
  BY <1>5, ClearsChain DEF ListInv
<1>6. CASE PushBegins \/ PushFails \/ PushStores \/ PushCounts \/ PushReturns
  <2>1. /\ UNCHANGED <<head, tail, next, alive, tmp>>
        /\ {pushing, pushing'} \subseteq {"no", "loop", "count"}
    BY <1>6 DEF PushBegins, PushFails, PushStores, PushCounts, PushReturns, list
  <2> QED BY <2>1, ChainRests DEF ListInv
<1>7. CASE PopTakes
  <2>1. UNCHANGED <<head, tail, next, alive, tmp, pushing>> /\ head # NULL
        /\ bytes' = [bytes EXCEPT ![head] = SubSeq(@, len' + 1, Len(@))]
    BY <1>7 DEF PopTakes, producer
  <2>2. pushing' \in {"link", "head", "tail"} => tmp \in Node /\ head # tmp
    BY <2>1, TakesElsewhere DEF PcInv
  <2>3. pushing' \in {"link", "head", "tail"} => bytes'[tmp] = bytes[tmp]
    BY <2>1, <2>2 DEF TypeOK
  <2> QED BY <2>1, <2>3, ChainRests DEF ListInv
<1>8. CASE PopBegins \/ PopCounts \/ PopSeesEmpty \/ PopReturns \/ UNCHANGED vars
  <2>1. UNCHANGED <<head, tail, next, alive, tmp, pushing, bytes>>
    BY <1>8 DEF PopBegins, PopCounts, PopSeesEmpty, PopReturns, vars, list, producer
  <2> QED BY <2>1, ChainRests DEF ListInv
<1> QED BY <1>1, <1>2, <1>3, <1>4, <1>5, <1>6, <1>7, <1>8 DEF Next, PushStep, PopStep

(* The nodes from head on are a list at every moment.                      *)
THEOREM AlwaysList == Spec => [](TypeOK /\ PcInv /\ ListInv)
<1>1. Init => ListInv
  BY InitialChain DEF ListInv
<1>2. TypeOK /\ PcInv /\ ListInv /\ [Next]_vars => ListInv'
  BY ListKept
<1>3. Spec => [](TypeOK /\ PcInv)
  BY TypesAndPlaces
<1> QED BY <1>1, <1>2, <1>3, PTL DEF Spec
-----------------------------------------------------------------------------
(* A set of natural numbers that is not empty has a least element.         *)
LEMMA Least ==
  ASSUME NEW T, T \subseteq Nat, T # {}
  PROVE  \E x \in T : \A y \in T : ~ (y < x)
<1>1. \E x \in T : \A y \in T : <<y, x>> \notin OpToRel(<, Nat)
  BY NatLessThanWellFounded, WFMin
<1>2. \A x, y \in Nat : y < x => <<y, x>> \in OpToRel(<, Nat)
  BY Zenon DEF OpToRel
<1> QED BY <1>1, <1>2, Zenon

(* Induction over the natural numbers, with a set in the place of the      *)
(* predicate.                                                              *)
LEMMA Numbers ==
  ASSUME NEW T, 0 \in T, \A k \in Nat : k \in T => k + 1 \in T
  PROVE  Nat \subseteq T
<1> SUFFICES ASSUME Nat \ T # {} PROVE FALSE
  OBVIOUS
<1>1. PICK x \in Nat \ T : \A y \in Nat \ T : ~ (y < x)
  BY Least
<1>2. x # 0
  OBVIOUS
<1>3. x - 1 \in Nat /\ x - 1 < x /\ x - 1 + 1 = x
  BY <1>1, <1>2
<1>4. x - 1 \in T
  BY <1>1, <1>3
<1> QED BY <1>1, <1>3, <1>4

(* Path, which follows the pointers, goes through the nodes of the list.   *)
LEMMA PathIs ==
  ASSUME TypeOK, NEW L, Chain(L)
  PROVE  /\ DOMAIN Path = 0 .. Cardinality(Node)
         /\ \A k \in 0 .. Cardinality(Node) : Path[k] = Nth(L, k)
<1> DEFINE S == 0 .. Cardinality(Node)
           f == [k \in S |-> Nth(L, k)]
<1>1. Cardinality(Node) \in Nat
  BY BufferAssumption, FS_CardinalityType
<1>2. L \in Seq(Node) /\ Len(L) \in Nat /\ head = Nth(L, 0)
  BY LenProperties DEF Chain
<1>3. \A k \in Nat : k # 0 => Nth(L, k) = IF Nth(L, k - 1) = NULL THEN NULL ELSE next[Nth(L, k - 1)]
  <2> SUFFICES ASSUME NEW k \in Nat, k # 0
               PROVE  Nth(L, k) = IF Nth(L, k - 1) = NULL THEN NULL ELSE next[Nth(L, k - 1)]
    OBVIOUS
  <2>1. k - 1 \in Nat /\ k - 1 + 1 = k
    OBVIOUS
  <2>2. CASE k - 1 < Len(L)
    <3>1. k \in 1 .. Len(L) /\ Nth(L, k - 1) = L[k]
      BY <1>2, <2>1, <2>2, Places
    <3>2. L[k] # NULL /\ next[L[k]] = Nth(L, k)
      BY <1>2, <3>1, Places DEF Chain
    <3> QED BY <3>1, <3>2
  <2>3. CASE ~ (k - 1 < Len(L))
    <3>1. k >= Len(L) /\ k - 1 >= Len(L)
      BY <1>2, <2>1, <2>3
    <3>2. Nth(L, k - 1) = NULL /\ Nth(L, k) = NULL
      BY <1>2, <2>1, <3>1, Places
    <3> QED BY <3>2
  <2> QED BY <2>2, <2>3
<1>4. \A k \in S : k \in Nat /\ (k # 0 => k - 1 \in S)
  BY <1>1
<1>5. f = [k \in S |-> IF k = 0 THEN head
                       ELSE IF f[k - 1] = NULL THEN NULL ELSE next[f[k - 1]]]
  <2> HIDE DEF S
  <2>1. \A k \in S : Nth(L, k) = IF k = 0 THEN head
                       ELSE IF f[k - 1] = NULL THEN NULL ELSE next[f[k - 1]]
    BY <1>2, <1>3, <1>4
  <2> QED BY <2>1
<1>6. Path = [k \in S |-> IF k = 0 THEN head
                          ELSE IF Path[k - 1] = NULL THEN NULL ELSE next[Path[k - 1]]]
  <2> HIDE DEF f
  <2> QED BY <1>5, Zenon DEF Path
<1> DEFINE T == {k \in Nat : k \in S => Path[k] = Nth(L, k)}
<1> HIDE DEF S, f
<1>7. 0 \in T
  BY <1>2, <1>6
<1>8. \A k \in Nat : k \in T => k + 1 \in T
  <2> SUFFICES ASSUME NEW k \in T, k + 1 \in S PROVE Path[k + 1] = Nth(L, k + 1)
    OBVIOUS
  <2>1. k \in Nat /\ k + 1 \in Nat /\ k + 1 # 0 /\ k + 1 - 1 = k
    OBVIOUS
  <2>2. k \in S
    BY <1>4, <2>1
  <2>3. Path[k] = Nth(L, k)
    BY <2>2
  <2>4. Path[k + 1] = IF Path[k] = NULL THEN NULL ELSE next[Path[k]]
    BY <1>6, <2>1
  <2>5. Nth(L, k + 1) = IF Nth(L, k) = NULL THEN NULL ELSE next[Nth(L, k)]
    BY <1>3, <2>1
  <2> QED BY <2>3, <2>4, <2>5
<1>9. \A k \in Nat : k \in T
  BY <1>7, <1>8, Numbers
<1>10. DOMAIN Path = S
  BY <1>6
<1> QED BY <1>4, <1>9, <1>10 DEF S

(* A list without repetition is no longer than there are nodes.            *)
LEMMA Fits ==
  ASSUME NEW L \in Seq(Node), \A i, j \in 1 .. Len(L) : L[i] = L[j] => i = j
  PROVE  Len(L) <= Cardinality(Node)
<1>1. Len(L) \in Nat /\ L \in [1 .. Len(L) -> Node]
  BY LenProperties
<1>2. L \in Injection(1 .. Len(L), Node)
  BY <1>1 DEF Injection, IsInjective
<1>3. Cardinality(1 .. Len(L)) <= Cardinality(Node)
  BY <1>2, BufferAssumption, FS_Injection
<1>4. Cardinality(1 .. Len(L)) = IF 1 > Len(L) THEN 0 ELSE Len(L) - 1 + 1
  BY <1>1, FS_Interval
<1>5. \A n \in Nat : (IF 1 > n THEN 0 ELSE n - 1 + 1) = n
  OBVIOUS
<1> QED BY <1>1, <1>3, <1>4, <1>5

(* The nodes that Linked collects along Path are those of the list.        *)
LEMMA LinkedIs ==
  ASSUME TypeOK, NEW L, Chain(L)
  PROVE  Linked = Nodes(L)
<1> DEFINE N == Cardinality(Node)
<1>1. /\ N \in Nat /\ L \in Seq(Node) /\ Len(L) \in Nat
      /\ \A i, j \in 1 .. Len(L) : L[i] = L[j] => i = j
  BY BufferAssumption, FS_CardinalityType, LenProperties DEF Chain
<1>2. Len(L) <= N
  BY <1>1, Fits
<1>3. \A k \in 0 .. N : Path[k] = Nth(L, k)
  BY PathIs
<1>4. DOMAIN Path = 0 .. N
  BY PathIs
<1> HIDE DEF N
<1>5. ASSUME NEW x \in Linked PROVE x \in Nodes(L)
  <2>1. PICK k \in 0 .. N : x = Path[k] /\ x # NULL
    BY <1>4 DEF Linked
  <2>2. k \in Nat /\ Nth(L, k) # NULL /\ x = Nth(L, k)
    BY <1>1, <1>3, <2>1
  <2>3. k < Len(L)
    BY <1>1, <2>2, Places
  <2>4. k + 1 \in 1 .. Len(L) /\ x = L[k + 1]
    BY <1>1, <2>2, <2>3, Places
  <2> QED BY <2>4 DEF Nodes
<1>6. ASSUME NEW x \in Nodes(L) PROVE x \in Linked
  <2>1. PICK i \in 1 .. Len(L) : x = L[i]
    BY DEF Nodes
  <2>2. i - 1 \in 0 .. N /\ i - 1 \in Nat /\ i - 1 < Len(L) /\ i - 1 + 1 = i
    BY <1>1, <1>2
  <2>3. x = Path[i - 1] /\ x # NULL
    BY <1>1, <1>3, <2>1, <2>2, Places
  <2> QED BY <1>4, <2>2, <2>3 DEF Linked
<1> QED BY <1>5, <1>6

(* Neither thread follows a pointer to a freed node, and no node that the  *)
(* list has lost stays allocated (common_buffer.c:86-102, 141-166), for    *)
(* every number of nodes and every interleaving of the two threads.        *)
THEOREM NodesSafe == Spec => []NodesAreSafe
<1>1. TypeOK /\ PcInv /\ ListInv => NodesAreSafe
  <2> SUFFICES ASSUME TypeOK, NEW L, Chain(L) PROVE NodesAreSafe
    BY DEF ListInv
  <2>1. /\ L \in Seq(Node) /\ Len(L) \in Nat /\ head = Nth(L, 0) /\ Linked = Nodes(L)
        /\ alive = Nodes(L) \cup (IF pushing \in {"link", "head"} THEN {tmp} ELSE {})
    BY LenProperties, LinkedIs DEF Chain
  <2>2. \A i \in 1 .. Len(L) : L[i] \in Nodes(L)
    BY DEF Nodes
  <2>3. head \in Nodes(L) \cup {NULL}
    <3>1. L # <<>> => 1 \in 1 .. Len(L) /\ head = L[1]
      BY <2>1, Places DEF Nth
    <3>2. L = <<>> => head = NULL
      BY <2>1, EmptySeq DEF Nth
    <3> QED BY <2>2, <3>1, <3>2
  <2>4. /\ pushing # "head" => tail \in Nodes(L) \cup {NULL}
        /\ pushing = "head" => tail = tmp
        /\ pushing = "tail" => tmp \in Nodes(L)
    <3>1. CASE pushing = "head"
      BY <3>1 DEF Chain
    <3>2. CASE pushing = "tail"
      <4>1. Len(L) > 1 /\ L[Len(L)] = tmp /\ tail = L[Len(L) - 1]
        BY <3>2 DEF Chain
      <4>2. Len(L) \in 1 .. Len(L) /\ Len(L) - 1 \in 1 .. Len(L)
        BY <2>1, <4>1
      <4> QED BY <2>2, <3>2, <4>1, <4>2
    <3>3. CASE pushing \notin {"head", "tail"}
      <4>1. tail = IF L = <<>> THEN NULL ELSE L[Len(L)]
        BY <3>3 DEF Chain
      <4>2. L # <<>> => Len(L) \in 1 .. Len(L)
        <5>1. L # <<>> => Len(L) # 0
          BY <2>1, Places
        <5> QED BY <2>1, <5>1
      <4> QED BY <2>2, <3>3, <4>1, <4>2
    <3> QED BY <3>1, <3>2, <3>3
  <2>5. {head, tail} \subseteq alive \cup {NULL}
    BY <2>1, <2>3, <2>4
  <2>6. alive = Linked \cup (IF pushing \in {"link", "head", "tail"} THEN {tmp} ELSE {})
    BY <2>1, <2>4
  <2>7. tail # NULL => tail \in Linked \/ pushing = "head"
    BY <2>1, <2>4
  <2> QED BY <2>5, <2>6, <2>7 DEF NodesAreSafe
<1> QED BY <1>1, AlwaysList, PTL
-----------------------------------------------------------------------------
(* J[k] is what the first k of the pieces f[0], f[1], ... make together.   *)
Joins(J, f, n) ==
  J[0] = <<>> /\ \A k \in 0 .. n - 1 : J[k + 1] = J[k] \o f[k]

(* The pieces are sequences of bytes.                                      *)
Pieces(f) == \A k \in Nat : f[k] \in Seq(Value)

(* Such a J exists, written the way a recursive function is.               *)
LEMMA JoinExists ==
  ASSUME NEW n \in Nat, NEW f
  PROVE  \E g : g = [k \in 0 .. n |-> IF k = 0 THEN <<>> ELSE g[k - 1] \o f[k - 1]]
<1> DEFINE Good(g, m) == g = [k \in 0 .. m |-> IF k = 0 THEN <<>> ELSE g[k - 1] \o f[k - 1]]
           T == {m \in Nat : \E g : Good(g, m)}
<1>1. 0 \in T
  <2> DEFINE g == [k \in 0 .. 0 |-> <<>>]
  <2>1. Good(g, 0)
    <3>1. \A k \in 0 .. 0 : k = 0
      OBVIOUS
    <3> QED BY <3>1
  <2> QED BY <2>1
<1>2. \A m \in Nat : m \in T => m + 1 \in T
  <2> SUFFICES ASSUME NEW m \in Nat, m \in T PROVE m + 1 \in T
    OBVIOUS
  <2>1. PICK g : Good(g, m)
    OBVIOUS
  <2> DEFINE h == [k \in 0 .. m + 1 |-> IF k = m + 1 THEN g[m] \o f[m] ELSE g[k]]
  <2>2. \A k \in 0 .. m + 1 : k = m + 1 \/ k \in 0 .. m
    OBVIOUS
  <2>3. \A k \in 0 .. m : k # m + 1 /\ k \in 0 .. m + 1 /\ (k # 0 => k - 1 \in 0 .. m)
    OBVIOUS
  <2>4. m \in 0 .. m /\ m + 1 - 1 = m /\ m + 1 # 0 /\ m + 1 \in 0 .. m + 1
    OBVIOUS
  <2>5. \A k \in 0 .. m : h[k] = g[k]
    BY <2>3
  <2>6. \A k \in 0 .. m : g[k] = IF k = 0 THEN <<>> ELSE g[k - 1] \o f[k - 1]
    BY <2>1
  <2>7. h[m + 1] = g[m] \o f[m]
    BY <2>4
  <2>8. DOMAIN h = 0 .. m + 1 /\ h = [k \in 0 .. m + 1 |-> h[k]]
    OBVIOUS
  <2> HIDE DEF h
  <2>9. \A k \in 0 .. m + 1 : h[k] = IF k = 0 THEN <<>> ELSE h[k - 1] \o f[k - 1]
    <3> TAKE k \in 0 .. m + 1
    <3>1. CASE k = m + 1
      <4>1. k - 1 = m /\ k # 0
        BY <3>1
      <4>2. h[k] = g[m] \o f[m] /\ h[k - 1] = g[m] /\ f[k - 1] = f[m]
        BY <2>4, <2>5, <2>7, <3>1, <4>1
      <4> QED BY <4>1, <4>2
    <3>2. CASE k \in 0 .. m
      BY <2>3, <2>5, <2>6, <3>2
    <3> QED BY <2>2, <3>1, <3>2
  <2>10. Good(h, m + 1)
    BY <2>8, <2>9
  <2>11. m + 1 \in Nat
    OBVIOUS
  <2> QED BY <2>10, <2>11
<1>3. n \in T
  BY <1>1, <1>2, Numbers
<1> QED BY <1>3

(* What pieces make together is a sequence of bytes.                       *)
LEMMA JoinTypes ==
  ASSUME NEW n \in Nat, NEW J, NEW f, Joins(J, f, n), Pieces(f)
  PROVE  \A k \in 0 .. n : J[k] \in Seq(Value)
<1> DEFINE T == {k \in Nat : k <= n => J[k] \in Seq(Value)}
<1>1. 0 \in T
  BY EmptySeq DEF Joins
<1>2. \A k \in Nat : k \in T => k + 1 \in T
  <2> SUFFICES ASSUME NEW k \in T, k + 1 <= n PROVE J[k + 1] \in Seq(Value)
    OBVIOUS
  <2>1. k \in 0 .. n - 1 /\ k <= n /\ k \in Nat
    OBVIOUS
  <2>2. J[k + 1] = J[k] \o f[k] /\ J[k] \in Seq(Value) /\ f[k] \in Seq(Value)
    BY <2>1 DEF Joins, Pieces
  <2> HIDE DEF T
  <2> QED BY <2>2, ConcatProperties
<1>3. \A k \in Nat : k \in T
  BY <1>1, <1>2, Numbers
<1> QED BY <1>3

(* Concatenation is associative.                                           *)
LEMMA Associative == \A s, t, u \in Seq(Value) : (s \o t) \o u = s \o (t \o u)
BY ConcatAssociative

(* The same pieces make the same.                                          *)
LEMMA JoinSame ==
  ASSUME NEW n \in Nat, NEW J, NEW f, NEW K, NEW g, Joins(J, f, n), Joins(K, g, n),
         \A k \in 0 .. n - 1 : g[k] = f[k]
  PROVE  \A k \in 0 .. n : K[k] = J[k]
<1> DEFINE T == {k \in Nat : k <= n => K[k] = J[k]}
<1>1. 0 \in T
  BY DEF Joins
<1>2. \A k \in Nat : k \in T => k + 1 \in T
  <2> SUFFICES ASSUME NEW k \in T, k + 1 <= n PROVE K[k + 1] = J[k + 1]
    OBVIOUS
  <2>1. k \in 0 .. n - 1 /\ k <= n
    OBVIOUS
  <2>2. K[k] = J[k]
    BY <2>1
  <2> HIDE DEF T
  <2> QED BY <2>1, <2>2 DEF Joins
<1>3. \A k \in Nat : k \in T
  BY <1>1, <1>2, Numbers
<1> QED BY <1>3

(* An empty first piece may be left out.                                   *)
LEMMA JoinShifted ==
  ASSUME NEW n \in Nat, n > 0, NEW J, NEW f, NEW K, NEW g,
         Joins(J, f, n), Joins(K, g, n), Pieces(f), Pieces(g), f[0] = <<>>, g[n - 1] = <<>>,
         \A k \in 0 .. n - 2 : g[k] = f[k + 1]
  PROVE  K[n] = J[n]
<1> DEFINE T == {k \in Nat : k < n => K[k] = J[k + 1]}
<1>1. 0 \in T
  <2>1. J[0 + 1] = J[0] \o f[0] /\ J[0] = <<>> /\ K[0] = <<>>
    <3>1. 0 \in 0 .. n - 1
      OBVIOUS
    <3> QED BY <3>1 DEF Joins
  <2>2. <<>> \o <<>> = <<>>
    BY EmptySeq, ConcatEmptySeq
  <2> QED BY <2>1, <2>2
<1>2. \A k \in Nat : k \in T => k + 1 \in T
  <2> SUFFICES ASSUME NEW k \in T, k + 1 < n PROVE K[k + 1] = J[k + 1 + 1]
    OBVIOUS
  <2>1. k \in 0 .. n - 1 /\ k + 1 \in 0 .. n - 1 /\ k \in 0 .. n - 2 /\ k < n
    OBVIOUS
  <2>2. K[k] = J[k + 1] /\ g[k] = f[k + 1]
    BY <2>1
  <2> HIDE DEF T
  <2>3. K[k + 1] = K[k] \o g[k] /\ J[k + 1 + 1] = J[k + 1] \o f[k + 1]
    BY <2>1 DEF Joins
  <2> QED BY <2>2, <2>3
<1>3. \A k \in Nat : k \in T
  BY <1>1, <1>2, Numbers
<1>4. n - 1 \in Nat /\ n - 1 < n /\ n - 1 \in 0 .. n - 1 /\ n - 1 + 1 = n /\ n \in 0 .. n
  OBVIOUS
<1>5. K[n - 1] = J[n]
  <2>1. n - 1 \in T
    BY <1>3, <1>4
  <2> QED BY <1>4, <2>1
<1>6. K[n] = K[n - 1] \o g[n - 1] /\ J[n] \in Seq(Value)
  BY <1>4, JoinTypes DEF Joins
<1> QED BY <1>5, <1>6, ConcatEmptySeq

(* A first piece that is cut in front cuts the whole in front.             *)
LEMMA JoinFront ==
  ASSUME NEW n \in Nat, n > 0, NEW J, NEW f, NEW K, NEW g, NEW p \in Seq(Value),
         Joins(J, f, n), Joins(K, g, n), Pieces(f), Pieces(g),
         f[0] = p \o g[0], \A k \in 1 .. n - 1 : g[k] = f[k]
  PROVE  J[n] = p \o K[n]
<1> DEFINE T == {k \in Nat : k < n => J[k + 1] = p \o K[k + 1]}
<1>1. 0 \in T
  <2>1. /\ J[0 + 1] = J[0] \o f[0] /\ J[0] = <<>>
        /\ K[0 + 1] = K[0] \o g[0] /\ K[0] = <<>>
    <3>1. 0 \in 0 .. n - 1
      OBVIOUS
    <3> QED BY <3>1 DEF Joins
  <2>2. <<>> \o f[0] = f[0] /\ <<>> \o g[0] = g[0]
    BY ConcatEmptySeq DEF Pieces
  <2> QED BY <2>1, <2>2
<1>2. \A k \in Nat : k \in T => k + 1 \in T
  <2> SUFFICES ASSUME NEW k \in T, k + 1 < n PROVE J[k + 1 + 1] = p \o K[k + 1 + 1]
    OBVIOUS
  <2>1. k + 1 \in 0 .. n - 1 /\ k + 1 \in 1 .. n - 1 /\ k < n /\ k + 1 \in 0 .. n /\ k + 1 \in Nat
    OBVIOUS
  <2>2. J[k + 1] = p \o K[k + 1] /\ g[k + 1] = f[k + 1]
    BY <2>1
  <2> HIDE DEF T
  <2>3. J[k + 1 + 1] = J[k + 1] \o f[k + 1] /\ K[k + 1 + 1] = K[k + 1] \o g[k + 1]
    BY <2>1 DEF Joins
  <2>4. K[k + 1] \in Seq(Value) /\ g[k + 1] \in Seq(Value)
    BY <2>1, JoinTypes DEF Pieces
  <2>5. (p \o K[k + 1]) \o g[k + 1] = p \o (K[k + 1] \o g[k + 1])
    BY <2>4, Associative
  <2> QED BY <2>2, <2>3, <2>5
<1>3. \A k \in Nat : k \in T
  BY <1>1, <1>2, Numbers
<1>4. n - 1 \in Nat /\ n - 1 < n /\ n - 1 + 1 = n
  OBVIOUS
<1>5. n - 1 \in T
  BY <1>3, <1>4
<1> QED BY <1>4, <1>5

(* A piece that grows at its end, when only empty ones follow.             *)
Grown(f, g, m, p, n) ==
  /\ g[m] = f[m] \o p
  /\ \A k \in 0 .. n - 1 : k # m => g[k] = f[k]
  /\ \A k \in 0 .. n - 1 : k > m => g[k] = <<>>

(* A piece that grows at its end makes the whole grow at its end, when     *)
(* nothing follows it.                                                     *)
LEMMA JoinBack ==
  ASSUME NEW n \in Nat, NEW m \in 0 .. n - 1, NEW J, NEW f, NEW K, NEW g, NEW p \in Seq(Value),
         Joins(J, f, n), Joins(K, g, n), Pieces(f), Pieces(g), Grown(f, g, m, p, n)
  PROVE  K[n] = J[n] \o p
<1> USE DEF Grown
<1>1. Joins(J, f, m) /\ Joins(K, g, m)
  <2>1. \A k \in 0 .. m - 1 : k \in 0 .. n - 1
    OBVIOUS
  <2> QED BY <2>1 DEF Joins
<1>2. K[m] = J[m]
  <2>1. \A k \in 0 .. m - 1 : g[k] = f[k]
    OBVIOUS
  <2>2. m \in Nat /\ m \in 0 .. m
    OBVIOUS
  <2> QED BY <1>1, <2>1, <2>2, JoinSame
<1> DEFINE P(k) == k > m /\ k <= n => K[k] = J[k] \o p
           T == {k \in Nat : P(k)}
<1>3. ASSUME NEW k \in Nat, P(k) PROVE P(k + 1)
  <2> SUFFICES ASSUME k + 1 > m, k + 1 <= n PROVE K[k + 1] = J[k + 1] \o p
    OBVIOUS
  <2>1. k \in Nat /\ k \in 0 .. n - 1 /\ k \in 0 .. n
    OBVIOUS
  <2>2. /\ K[k + 1] = K[k] \o g[k] /\ J[k + 1] = J[k] \o f[k]
        /\ J[k] \in Seq(Value) /\ K[k] \in Seq(Value) /\ f[k] \in Seq(Value) /\ g[k] \in Seq(Value)
    BY <2>1, JoinTypes DEF Joins, Pieces
  <2>3. CASE k = m
    <3>1. (J[k] \o f[k]) \o p = J[k] \o (f[k] \o p)
      BY <2>2, Associative
    <3> QED BY <1>2, <2>2, <2>3, <3>1
  <2>4. CASE k # m
    <3>1. k > m /\ k <= n
      BY <2>1, <2>4
    <3>2. K[k] = J[k] \o p /\ g[k] = f[k] /\ g[k] = <<>>
      BY <1>3, <2>1, <2>4, <3>1
    <3>3. K[k] \o <<>> = K[k] /\ J[k] \o <<>> = J[k]
      BY <2>2, ConcatEmptySeq
    <3> QED BY <2>2, <3>2, <3>3
  <2> QED BY <2>3, <2>4
<1>4. P(0)
  OBVIOUS
<1>5. \A k \in Nat : P(k)
  <2> HIDE DEF P
  <2>1. 0 \in T /\ \A k \in Nat : k \in T => k + 1 \in T
    BY <1>3, <1>4
  <2> QED BY <2>1, Numbers
<1>6. n > m /\ n <= n
  OBVIOUS
<1> QED BY <1>5, <1>6
-----------------------------------------------------------------------------
(* As many nodes as there can be.                                          *)
Size == Cardinality(Node)

(* The bytes in the node at each place of a list.                          *)
Rows(L) == [k \in Nat |-> IF k < Len(L) THEN bytes[L[k + 1]] ELSE <<>>]

(* What is stored, for the list that the nodes make.                       *)
StoredFact ==
  \A L : Chain(L) => /\ Pieces(Rows(L)) /\ Joins(Stored, Rows(L), Size)
                     /\ Len(L) <= Size

(* Stored makes the bytes of the nodes together, in the order of the list. *)
LEMMA StoredIs ==
  ASSUME TypeOK
  PROVE  StoredFact
<1> SUFFICES ASSUME NEW L, Chain(L)
             PROVE  Pieces(Rows(L)) /\ Joins(Stored, Rows(L), Size) /\ Len(L) <= Size
  BY DEF StoredFact
<1> DEFINE S == 0 .. Size
           f == Rows(L)
<1>1. /\ Size \in Nat /\ L \in Seq(Node) /\ Len(L) \in Nat
      /\ \A i, j \in 1 .. Len(L) : L[i] = L[j] => i = j
  BY BufferAssumption, FS_CardinalityType, LenProperties DEF Size, Chain
<1>2. Len(L) <= Size
  BY <1>1, Fits DEF Size
<1>3. Pieces(f)
  <2>1. \A k \in Nat : k < Len(L) => L[k + 1] \in Node
    BY <1>1, Places
  <2>2. <<>> \in Seq(Value)
    BY EmptySeq
  <2> QED BY <2>1, <2>2 DEF Pieces, Rows, TypeOK
<1>4. \A k \in S : k # 0 =>
         (IF Path[k - 1] = NULL THEN <<>> ELSE bytes[Path[k - 1]]) = f[k - 1]
  <2> SUFFICES ASSUME NEW k \in S, k # 0
               PROVE  (IF Path[k - 1] = NULL THEN <<>> ELSE bytes[Path[k - 1]]) = f[k - 1]
    OBVIOUS
  <2>1. k - 1 \in S /\ k - 1 \in Nat
    BY <1>1
  <2>2. Path[k - 1] = Nth(L, k - 1)
    BY <2>1, PathIs DEF Size
  <2>3. CASE k - 1 < Len(L)
    <3>1. Nth(L, k - 1) = L[k - 1 + 1] /\ L[k - 1 + 1] # NULL
      BY <1>1, <2>1, <2>3, Places
    <3> QED BY <2>1, <2>2, <2>3, <3>1 DEF Rows
  <2>4. CASE ~ (k - 1 < Len(L))
    BY <2>1, <2>2, <2>4 DEF Rows, Nth
  <2> QED BY <2>3, <2>4
<1>5. \E g : g = [k \in S |-> IF k = 0 THEN <<>> ELSE g[k - 1] \o f[k - 1]]
  BY <1>1, JoinExists
<1>6. \E g : g = [k \in S |-> IF k = 0 THEN <<>>
          ELSE g[k - 1] \o (IF Path[k - 1] = NULL THEN <<>> ELSE bytes[Path[k - 1]])]
  <2> HIDE DEF S, f
  <2>1. PICK g : g = [k \in S |-> IF k = 0 THEN <<>> ELSE g[k - 1] \o f[k - 1]]
    BY <1>5
  <2>2. g = [k \in S |-> IF k = 0 THEN <<>>
          ELSE g[k - 1] \o (IF Path[k - 1] = NULL THEN <<>> ELSE bytes[Path[k - 1]])]
    BY <1>4, <2>1
  <2> QED BY <2>2
<1>7. Stored = [k \in S |-> IF k = 0 THEN <<>>
          ELSE Stored[k - 1] \o (IF Path[k - 1] = NULL THEN <<>> ELSE bytes[Path[k - 1]])]
  BY <1>6, Zenon DEF Stored, Size
<1>8. 0 \in S /\ \A k \in 0 .. Size - 1 : k + 1 \in S /\ k + 1 # 0 /\ (k + 1) - 1 = k
  BY <1>1
<1>9. Joins(Stored, f, Size)
  <2> HIDE DEF S, f
  <2>0. \A j \in S : j # 0 => Stored[j] =
          Stored[j - 1] \o (IF Path[j - 1] = NULL THEN <<>> ELSE bytes[Path[j - 1]])
    BY ONLY <1>7
  <2>1. Stored[0] = <<>>
    BY <1>7, <1>8
  <2>2. \A k \in 0 .. Size - 1 : Stored[k + 1] = Stored[k] \o f[k]
    <3> TAKE k \in 0 .. Size - 1
    <3>1. Stored[k + 1] = Stored[(k + 1) - 1]
            \o (IF Path[(k + 1) - 1] = NULL THEN <<>> ELSE bytes[Path[(k + 1) - 1]])
      <4>1. k + 1 \in S /\ k + 1 # 0
        BY <1>8
      <4> QED BY ONLY <2>0, <4>1, Zenon
    <3>2. (IF Path[(k + 1) - 1] = NULL THEN <<>> ELSE bytes[Path[(k + 1) - 1]]) = f[(k + 1) - 1]
      BY <1>4, <1>8
    <3> QED BY <1>8, <3>1, <3>2
  <2> QED BY <2>1, <2>2 DEF Joins
<1> QED BY <1>2, <1>3, <1>9
-----------------------------------------------------------------------------
(* Between the two tests of line 156 the consumer's node is still empty,   *)
(* or it is the last one and holds what was pushed since.                  *)
LastInv ==
  popping = "last?" =>
    \/ bytes[head] = <<>>
    \/ head = tail /\ Len(bytes[head]) <= burst /\ pushing \notin {"link", "head", "tail"}

(* Every step keeps that, when the burst is smaller than a node: a         *)
(* producer that fills the node and allocates another one would need       *)
(* NodeSize bytes (common_buffer.c:156).                                   *)
LEMMA LastKept ==
  ASSUME Burst < NodeSize, TypeOK, PcInv, ListInv, LastInv, [Next]_vars
  PROVE  LastInv'
<1> SUFFICES ASSUME popping' = "last?" PROVE LastInv'
  BY DEF LastInv
<1>0. PICK L : Chain(L)
  BY DEF ListInv
<1>1. CASE PopSeesEmpty
  BY <1>1 DEF PopSeesEmpty, LastInv, list
<1> SUFFICES ASSUME ~ PopSeesEmpty PROVE LastInv'
  BY <1>1
<1>2. popping = "last?" /\ head # NULL /\ head \in Node /\ popping' = popping
  <2>1. popping = "last?"
    BY DEF Next, PushStep, PopStep, PushBegins, PushAllocates, PushFails, PushLinks, PushLinked,
           PushStores, PushCounts, PushReturns, PopBegins, PopTakes, PopCounts, PopFrees,
           PopReturns, Clear, vars, consumer
  <2> QED BY <2>1 DEF PcInv, TypeOK
<1>3. \/ bytes[head] = <<>>
      \/ head = tail /\ Len(bytes[head]) <= burst /\ pushing \notin {"link", "head", "tail"}
  BY <1>2 DEF LastInv
<1>4. CASE PushAllocates
  <2>1. PICK n \in Node \ alive : bytes' = [bytes EXCEPT ![n] = <<>>]
    BY <1>4 DEF PushAllocates
  <2>2. /\ UNCHANGED <<head, tail>> /\ pushing' = "link"
        /\ (tail = NULL \/ Len(bytes[tail]) >= NodeSize)
    BY <1>4 DEF PushAllocates, NoRoom
  <2>3. bytes[head] = <<>>
    <3>1. CASE head = tail /\ Len(bytes[head]) <= burst
      <4>1. bytes[head] \in Seq(Value) /\ Len(bytes[head]) >= NodeSize
        BY <1>2, <2>2, <3>1 DEF TypeOK
      <4>2. burst \in Nat /\ burst <= Burst
        BY DEF TypeOK, PcInv
      <4>3. \A a, b, c, d \in Nat : ~ (a >= b /\ c < b /\ a <= d /\ d <= c)
        OBVIOUS
      <4>4. Len(bytes[head]) \in Nat
        BY <4>1, LenProperties
      <4> QED BY <3>1, <4>1, <4>2, <4>3, <4>4, Sizes
    <3> QED BY <1>3, <3>1
  <2>4. bytes'[head] = <<>>
    BY <1>2, <2>1, <2>3 DEF TypeOK
  <2> QED BY <2>2, <2>4 DEF LastInv
<1>5. CASE PushLinks
  <2>1. pushing = "link" /\ UNCHANGED <<head, bytes>>
    BY <1>5 DEF PushLinks
  <2> QED BY <1>3, <2>1 DEF LastInv
<1>6. CASE PushLinked
  <2>1. pushing # "head"
    <3>1. pushing = "head" => L = <<>> /\ head = Nth(L, 0)
      BY <1>0 DEF Chain
    <3> QED BY <1>2, <3>1, EmptySeq DEF Nth
  <2>2. pushing \in {"head", "tail"} /\ UNCHANGED <<bytes>> /\ head' = head
    BY <1>6, <2>1 DEF PushLinked
  <2> QED BY <1>3, <2>2 DEF LastInv
<1>7. CASE PushStores
  <2>1. /\ tail \in Node /\ plen' \in Nat
        /\ bytes' = [bytes EXCEPT ![tail] = @ \o SubSeq(chunk, pos + 1, pos + plen')]
        /\ SubSeq(chunk, pos + 1, pos + plen') \in Seq(Value)
        /\ Len(SubSeq(chunk, pos + 1, pos + plen')) = plen'
    BY <1>7, Stores
  <2>2. UNCHANGED <<head, tail>> /\ burst' = burst + plen' /\ pushing' = "count"
    BY <1>2, <1>7 DEF PushStores
  <2>3. CASE head = tail
    <3>1. bytes[head] \in Seq(Value) /\ burst \in Nat /\ Len(bytes[head]) \in Nat
      BY <1>2, LenProperties DEF TypeOK
    <3>2. Len(bytes[head]) <= burst
      BY <1>3, <3>1, EmptySeq
    <3>3. Len(bytes'[head]) = Len(bytes[head]) + plen'
      <4> DEFINE p == SubSeq(chunk, pos + 1, pos + plen')
      <4>1. p \in Seq(Value) /\ Len(p) = plen' /\ bytes'[head] = bytes[head] \o p
        BY <1>2, <2>1, <2>3 DEF TypeOK
      <4> HIDE DEF p
      <4> QED BY <3>1, <4>1, ConcatProperties
    <3>4. \A a, b, c \in Nat : a <= b => a + c <= b + c
      OBVIOUS
    <3>5. Len(bytes'[head]) <= burst'
      BY <2>1, <2>2, <3>1, <3>2, <3>3, <3>4
    <3> QED BY <2>2, <2>3, <3>5 DEF LastInv
  <2>4. CASE head # tail
    BY <1>2, <1>3, <2>1, <2>2, <2>4 DEF LastInv, TypeOK
  <2> QED BY <2>3, <2>4
<1>8. CASE PushBegins \/ PushFails \/ PushCounts \/ PushReturns \/ UNCHANGED vars
  <2>1. UNCHANGED <<head, tail, bytes, burst>>
        /\ (pushing' = pushing \/ pushing' \in {"loop", "no"})
    BY <1>8 DEF PushBegins, PushFails, PushCounts, PushReturns, vars, list, producer
  <2> QED BY <1>3, <2>1 DEF LastInv
<1>9. CASE PopBegins \/ PopTakes \/ PopCounts \/ PopFrees \/ PopReturns \/ Clear
  BY <1>2, <1>9 DEF PopBegins, PopTakes, PopCounts, PopFrees, PopReturns, Clear
<1> QED BY <1>4, <1>5, <1>6, <1>7, <1>8, <1>9 DEF Next, PushStep, PopStep

(* All that is stored.                                                     *)
Held == Stored[Size]

(* An empty list stores nothing.                                           *)
LEMMA HeldEmpty ==
  ASSUME StoredFact, Chain(<<>>)
  PROVE  Held = <<>>
<1> DEFINE J == [k \in Nat |-> <<>>]
<1>1. Joins(Stored, Rows(<<>>), Size)
  BY DEF StoredFact
<1>2. Size \in Nat /\ Size \in 0 .. Size
  BY BufferAssumption, FS_CardinalityType DEF Size
<1>3. \A k \in Nat : Rows(<<>>)[k] = <<>>
  <2>1. \A k \in Nat : ~ (k < Len(<<>>))
    BY EmptySeq
  <2> QED BY <2>1 DEF Rows
<1>4. Joins(J, J, Size)
  <2>1. \A k \in 0 .. Size - 1 : k \in Nat /\ k + 1 \in Nat
    BY <1>2
  <2>2. <<>> \o <<>> = <<>>
    BY EmptySeq, ConcatEmptySeq
  <2> QED BY <2>1, <2>2 DEF Joins
<1>5. \A k \in 0 .. Size - 1 : Rows(<<>>)[k] = J[k]
  BY <1>2, <1>3
<1> HIDE DEF J
<1>6. Stored[Size] = J[Size]
  BY <1>1, <1>2, <1>4, <1>5, JoinSame
<1> QED BY <1>2, <1>6 DEF Held, J

(* What holds of the two threads' list at every moment.                    *)
Base ==
  /\ TypeOK /\ PcInv /\ ListInv /\ StoredFact
  /\ Held \in Seq(Value) /\ (Chain(<<>>) => Held = <<>>)

(* The types, the places, the list and what it stores, at every moment.    *)
THEOREM AlwaysBase == Spec => []Base
<1>1. TypeOK /\ PcInv /\ ListInv => Base
  <2> SUFFICES ASSUME TypeOK, PcInv, ListInv 
               PROVE  StoredFact /\ Held \in Seq(Value) /\ (Chain(<<>>) => Held = <<>>)
    BY DEF Base
  <2>1. PICK L : Chain(L)
    BY DEF ListInv
  <2>2. StoredFact
    BY StoredIs
  <2>3. Size \in Nat /\ Size \in 0 .. Size
    BY BufferAssumption, FS_CardinalityType DEF Size
  <2>4. Stored[Size] \in Seq(Value)
    BY <2>1, <2>2, <2>3, JoinTypes DEF StoredFact
  <2> QED BY <2>2, <2>4, HeldEmpty DEF Held
<1> QED BY <1>1, AlwaysList, PTL

(* Two states whose lists have the same rows store the same.               *)
LEMMA SameRows ==
  ASSUME StoredFact, StoredFact', NEW L, Chain(L), NEW M, Chain(M)',
         \A k \in 0 .. Size - 1 : Rows(M)'[k] = Rows(L)[k]
  PROVE  Held' = Held
<1>1. Joins(Stored, Rows(L), Size)
  BY DEF StoredFact
<1>2. Joins(Stored', Rows(M)', Size)
  BY DEF StoredFact, Joins, Size
<1>3. Size \in Nat /\ Size \in 0 .. Size
  BY BufferAssumption, FS_CardinalityType DEF Size
<1>4. Stored'[Size] = Stored[Size]
  BY <1>1, <1>2, <1>3, JoinSame
<1> QED BY <1>4 DEF Held, Size

(* The steps that move no byte leave what is stored: linking adds an empty *)
(* node at the end, freeing takes an empty one from the front.             *)
LEMMA HeldKept ==
  ASSUME Base, Base', LastInv,
         \/ PushBegins \/ PushAllocates \/ PushFails \/ PushLinks \/ PushLinked
         \/ PushCounts \/ PushReturns
         \/ PopBegins \/ PopCounts \/ PopSeesEmpty \/ PopFrees \/ PopReturns \/ UNCHANGED vars
  PROVE  Held' = Held
<1> USE DEF Base
<1> PICK L : Chain(L)
  BY DEF ListInv
<1>0. L \in Seq(Node) /\ Len(L) \in Nat /\ Size \in Nat /\ Len(L) <= Size
  BY LenProperties, BufferAssumption, FS_CardinalityType DEF Chain, Size, StoredFact
<1>1. CASE PushAllocates
  <2>1. Chain(L)'
    BY <1>1, AllocatesChain
  <2>2. PICK n \in Node \ alive : bytes' = [bytes EXCEPT ![n] = <<>>]
    BY <1>1 DEF PushAllocates
  <2>3. n \notin Nodes(L)
    BY <1>1, <2>2 DEF Chain, PushAllocates
  <2>4. \A k \in Nat : k < Len(L) => L[k + 1] \in Node /\ L[k + 1] # n
    <3>1. \A i \in 1 .. Len(L) : L[i] # n
      BY <2>3 DEF Nodes
    <3> QED BY <1>0, <3>1, Places
  <2>5. \A k \in 0 .. Size - 1 : Rows(L)'[k] = Rows(L)[k]
    <3>1. \A k \in 0 .. Size - 1 : k \in Nat
      BY <1>0
    <3> QED BY <2>2, <2>4, <3>1 DEF Rows, TypeOK
  <2> QED BY <2>1, <2>5, SameRows
<1>2. CASE PushLinks
  <2>1. PICK t : t = tmp
    OBVIOUS
  <2>2. UNCHANGED bytes /\ pushing = "link"
    BY <1>2 DEF PushLinks
  <2>3. CASE head = NULL
    <3>1. Chain(L)'
      BY <1>2, <2>1, <2>3, LinksChain
    <3> QED BY <2>2, <3>1, SameRows DEF Rows
  <2>4. CASE head # NULL
    <3> DEFINE M == Append(L, t)
    <3>1. Chain(M)'
      BY <1>2, <2>1, <2>4, LinksChain
    <3>2. t \in Node /\ bytes[t] = <<>>
      BY <2>1, <2>2 DEF PcInv, Chain
    <3>3. /\ Len(M) = Len(L) + 1 /\ M[Len(L) + 1] = t
          /\ \A i \in 1 .. Len(L) : M[i] = L[i]
      BY <1>0, <3>2, Longer
    <3> HIDE DEF M
    <3>4. \A k \in 0 .. Size - 1 : Rows(M)'[k] = Rows(L)[k]
      <4> TAKE k \in 0 .. Size - 1
      <4>1. k \in Nat
        BY <1>0
      <4>2. CASE k < Len(L)
        <5>1. k + 1 \in 1 .. Len(L) /\ k < Len(M)
          BY <1>0, <3>3, <4>1, <4>2
        <5> QED BY <2>2, <3>3, <4>1, <4>2, <5>1 DEF Rows
      <4>3. CASE k = Len(L)
        <5>1. k < Len(M) /\ ~ (k < Len(L)) /\ M[k + 1] = t
          BY <1>0, <3>3, <4>1, <4>3
        <5> QED BY <2>2, <3>2, <4>1, <5>1 DEF Rows
      <4>4. CASE k > Len(L)
        <5>1. ~ (k < Len(M)) /\ ~ (k < Len(L))
          BY <1>0, <3>3, <4>1, <4>4
        <5> QED BY <4>1, <5>1 DEF Rows
      <4> QED BY <1>0, <4>1, <4>2, <4>3, <4>4
    <3> QED BY <3>1, <3>4, SameRows
  <2> QED BY <2>3, <2>4
<1>3. CASE PushLinked
  <2>1. PICK t : t = tmp
    OBVIOUS
  <2>2. UNCHANGED bytes
    BY <1>3 DEF PushLinked
  <2>3. CASE pushing = "head"
    <3>1. Chain(<<t>>)'
      BY <1>3, <2>1, <2>3, LinkedChain
    <3>2. L = <<>> /\ bytes[t] = <<>> /\ Len(L) = 0
      BY <2>1, <2>3, EmptySeq DEF Chain
    <3>3. \A k \in 0 .. Size - 1 : Rows(<<t>>)'[k] = Rows(L)[k]
      <4> TAKE k \in 0 .. Size - 1
      <4>1. k \in Nat /\ ~ (k < Len(L)) /\ Rows(L)[k] = <<>>
        BY <1>0, <3>2 DEF Rows
      <4>2. k < Len(<<t>>) => <<t>>[k + 1] = t
        BY <4>1
      <4> QED BY <2>2, <3>2, <4>1, <4>2 DEF Rows
    <3> QED BY <3>1, <3>3, SameRows
  <2>4. CASE pushing # "head"
    <3>1. Chain(L)'
      BY <1>3, <2>1, <2>4, LinkedChain
    <3> QED BY <2>2, <3>1, SameRows DEF Rows
  <2> QED BY <2>3, <2>4
<1>4. CASE PopFrees
  <2>1. CASE head = tail
    <3>1. Chain(L)' /\ UNCHANGED bytes
      BY <1>4, <2>1, FreesChain DEF PopFrees, list
    <3> QED BY <3>1, SameRows DEF Rows
  <2>2. CASE head # tail
    <3> DEFINE M == Tail(L)
    <3>1. Chain(M)' /\ Len(L) > 1 /\ head = L[1] /\ bytes' = [bytes EXCEPT ![head] = <<>>]
      BY <1>4, <2>2, FreesChain
    <3>2. bytes[head] = <<>> /\ head \in Node
      BY <1>4, <2>2 DEF LastInv, PopFrees, PcInv, TypeOK
    <3>3. bytes' = bytes
      BY <3>1, <3>2 DEF TypeOK
    <3>4. Len(M) = Len(L) - 1 /\ \A i \in 1 .. Len(L) - 1 : M[i] = L[i + 1]
      BY <1>0, <3>1, Shorter DEF Chain
    <3> HIDE DEF M
    <3>5. Joins(Stored, Rows(L), Size) /\ Pieces(Rows(L))
      BY DEF StoredFact
    <3>6. Joins(Stored', Rows(M)', Size) /\ Pieces(Rows(M)')
      BY <3>1 DEF StoredFact, Joins, Pieces, Size
    <3>7. Rows(L)[0] = <<>>
      BY <1>0, <3>1, <3>2 DEF Rows
    <3>8. Size - 1 \in Nat /\ ~ (Size - 1 < Len(M)) /\ Size > 0
      BY <1>0, <3>1, <3>4
    <3>9. Rows(M)'[Size - 1] = <<>>
      BY <3>8 DEF Rows
    <3>10. \A k \in 0 .. Size - 2 : Rows(M)'[k] = Rows(L)[k + 1]
      <4> TAKE k \in 0 .. Size - 2
      <4>1. k \in Nat /\ k + 1 \in Nat
        BY <1>0
      <4>2. CASE k < Len(M)
        <5>1. k + 1 < Len(L) /\ k + 1 \in 1 .. Len(L) - 1
          BY <1>0, <3>4, <4>1, <4>2
        <5> QED BY <3>3, <3>4, <4>1, <4>2, <5>1 DEF Rows
      <4>3. CASE ~ (k < Len(M))
        <5>1. ~ (k + 1 < Len(L))
          BY <1>0, <3>4, <4>1, <4>3
        <5> QED BY <4>1, <4>3, <5>1 DEF Rows
      <4> QED BY <4>2, <4>3
    <3>11. Stored'[Size] = Stored[Size]
      BY <1>0, <3>5, <3>6, <3>7, <3>8, <3>9, <3>10, JoinShifted
    <3> QED BY <3>11 DEF Held, Size
  <2> QED BY <2>1, <2>2
<1>5. CASE \/ PushBegins \/ PushFails \/ PushCounts \/ PushReturns
           \/ PopBegins \/ PopCounts \/ PopSeesEmpty \/ PopReturns \/ UNCHANGED vars
  <2>1. UNCHANGED <<head, tail, next, bytes, alive, tmp>>
        /\ (pushing' = pushing \/ {pushing, pushing'} \subseteq {"no", "loop", "count"})
    BY <1>5 DEF PushBegins, PushFails, PushCounts, PushReturns, PopBegins, PopCounts,
                PopSeesEmpty, PopReturns, vars, list, producer
  <2>2. Chain(L)'
    BY <2>1, ChainRests
  <2> QED BY <2>1, <2>2, SameRows DEF Rows
<1> QED BY <1>1, <1>2, <1>3, <1>4, <1>5

(* PushStores adds its bytes at the end of what is stored                  *)
(* (common_buffer.c:104).                                                  *)
LEMMA HeldGrows ==
  ASSUME Base, Base', PushStores
  PROVE  Held' = Held \o SubSeq(chunk, pos + 1, pos + plen')
<1> USE DEF Base
<1> DEFINE p == SubSeq(chunk, pos + 1, pos + plen')
<1> PICK L : Chain(L)
  BY DEF ListInv
<1>0. L \in Seq(Node) /\ Len(L) \in Nat /\ Size \in Nat /\ Len(L) <= Size
  BY LenProperties, BufferAssumption, FS_CardinalityType DEF Chain, Size, StoredFact
<1>1. /\ tail \in Node /\ p \in Seq(Value)
      /\ bytes' = [bytes EXCEPT ![tail] = @ \o p]
  BY Stores
<1> HIDE DEF p
<1>2. Chain(L)'
  <2>1. UNCHANGED <<head, tail, next, alive, tmp>>
        /\ {pushing, pushing'} \subseteq {"no", "loop", "count"}
    BY DEF PushStores
  <2> QED BY <2>1, ChainRests
<1>3. Len(L) > 0 /\ tail = L[Len(L)]
  <2>1. tail = IF L = <<>> THEN NULL ELSE L[Len(L)]
    BY DEF Chain, PushStores
  <2>2. L # <<>>
    BY <1>1, <2>1, Sizes
  <2> QED BY <1>0, <2>1, <2>2, Places
<1> DEFINE m == Len(L) - 1
<1>4. m \in 0 .. Size - 1 /\ m \in Nat /\ m < Len(L) /\ m + 1 = Len(L)
  BY <1>0, <1>3
<1> HIDE DEF m
<1>5. Joins(Stored, Rows(L), Size) /\ Pieces(Rows(L))
  BY DEF StoredFact
<1>6. Joins(Stored', Rows(L)', Size) /\ Pieces(Rows(L)')
  BY <1>2 DEF StoredFact, Joins, Pieces, Size
<1>7. Rows(L)'[m] = Rows(L)[m] \o p
  BY <1>1, <1>3, <1>4 DEF Rows, TypeOK
<1>8. \A k \in 0 .. Size - 1 : k # m => Rows(L)'[k] = Rows(L)[k]
  <2> SUFFICES ASSUME NEW k \in 0 .. Size - 1, k # m PROVE Rows(L)'[k] = Rows(L)[k]
    OBVIOUS
  <2>1. k \in Nat
    BY <1>0
  <2>2. CASE k < Len(L)
    <3>1. k + 1 \in 1 .. Len(L) /\ Len(L) \in 1 .. Len(L) /\ k + 1 # Len(L)
      BY <1>0, <1>4, <2>1, <2>2
    <3>2. L[k + 1] # tail /\ L[k + 1] \in Node
      BY <1>0, <1>3, <3>1, Places DEF Chain
    <3> QED BY <1>1, <2>1, <2>2, <3>2 DEF Rows, TypeOK
  <2>3. CASE ~ (k < Len(L))
    BY <2>1, <2>3 DEF Rows
  <2> QED BY <2>2, <2>3
<1>9. \A k \in 0 .. Size - 1 : k > m => Rows(L)'[k] = <<>>
  <2> SUFFICES ASSUME NEW k \in 0 .. Size - 1, k > m PROVE Rows(L)'[k] = <<>>
    OBVIOUS
  <2>1. k \in Nat /\ ~ (k < Len(L))
    BY <1>0, <1>4
  <2> QED BY <2>1 DEF Rows
<1>10. Stored'[Size] = Stored[Size] \o p
  <2>1. PICK J, f, K, g : J = Stored /\ f = Rows(L) /\ K = Stored' /\ g = Rows(L)'
    OBVIOUS
  <2>2. /\ Joins(J, f, Size) /\ Joins(K, g, Size) /\ Pieces(f) /\ Pieces(g)
        /\ Grown(f, g, m, p, Size)
    BY <1>5, <1>6, <1>7, <1>8, <1>9, <2>1 DEF Grown
  <2>3. K[Size] = J[Size] \o p
    <3>1. Size \in Nat /\ m \in 0 .. Size - 1 /\ p \in Seq(Value)
      BY <1>0, <1>1, <1>4
    <3> QED BY ONLY <2>2, <3>1, JoinBack
  <2> QED BY <2>1, <2>3
<1> QED BY <1>10 DEF Held, Size, p

(* PopTakes takes its bytes from the front of what is stored               *)
(* (common_buffer.c:148-151).                                              *)
LEMMA HeldShrinks ==
  ASSUME Base, Base', PopTakes
  PROVE  Held = SubSeq(bytes[head], 1, len') \o Held'
<1> USE DEF Base
<1> DEFINE p == SubSeq(bytes[head], 1, len')
<1> PICK L : Chain(L)
  BY DEF ListInv
<1>0. L \in Seq(Node) /\ Len(L) \in Nat /\ Size \in Nat /\ Len(L) <= Size
  BY LenProperties, BufferAssumption, FS_CardinalityType DEF Chain, Size, StoredFact
<1>1. /\ head \in Node /\ p \in Seq(Value)
      /\ bytes' = [bytes EXCEPT ![head] = SubSeq(@, len' + 1, Len(@))]
      /\ bytes[head] = p \o bytes'[head]
  BY Takes
<1> HIDE DEF p
<1>2. Chain(L)'
  <2>1. UNCHANGED <<head, tail, next, alive, tmp, pushing>> /\ head # NULL
    BY DEF PopTakes, producer
  <2>2. pushing' \in {"link", "head", "tail"} => tmp \in Node /\ head # tmp
    BY <2>1, TakesElsewhere DEF PcInv
  <2>3. pushing' \in {"link", "head", "tail"} => bytes'[tmp] = bytes[tmp]
    BY <1>1, <2>2 DEF TypeOK
  <2> QED BY <2>1, <2>3, ChainRests
<1>3. Len(L) > 0 /\ head = L[1]
  <2>1. head = Nth(L, 0) /\ head # NULL
    BY <1>1, Sizes DEF Chain
  <2> QED BY <1>0, <2>1 DEF Nth
<1>4. Size > 0
  BY <1>0, <1>3
<1>5. Joins(Stored, Rows(L), Size) /\ Pieces(Rows(L))
  BY DEF StoredFact
<1>6. Joins(Stored', Rows(L)', Size) /\ Pieces(Rows(L)')
  BY <1>2 DEF StoredFact, Joins, Pieces, Size
<1>7. Rows(L)[0] = p \o Rows(L)'[0]
  <2>1. Rows(L)[0] = bytes[head] /\ Rows(L)'[0] = bytes'[head]
    BY <1>3 DEF Rows
  <2> QED BY <1>1, <2>1
<1>8. \A k \in 1 .. Size - 1 : Rows(L)'[k] = Rows(L)[k]
  <2> TAKE k \in 1 .. Size - 1
  <2>1. k \in Nat /\ k # 0
    BY <1>0
  <2>2. CASE k < Len(L)
    <3>1. k + 1 \in 1 .. Len(L) /\ 1 \in 1 .. Len(L) /\ k + 1 # 1
      BY <1>0, <2>1, <2>2
    <3>2. L[k + 1] # head /\ L[k + 1] \in Node
      BY <1>0, <1>3, <3>1, Places DEF Chain
    <3> QED BY <1>1, <2>1, <2>2, <3>2 DEF Rows, TypeOK
  <2>3. CASE ~ (k < Len(L))
    BY <2>1, <2>3 DEF Rows
  <2> QED BY <2>2, <2>3
<1>9. Stored[Size] = p \o Stored'[Size]
  <2>1. PICK J, f, K, g : J = Stored /\ f = Rows(L) /\ K = Stored' /\ g = Rows(L)'
    OBVIOUS
  <2>2. /\ Joins(J, f, Size) /\ Joins(K, g, Size) /\ Pieces(f) /\ Pieces(g)
        /\ f[0] = p \o g[0]
        /\ \A k \in 1 .. Size - 1 : g[k] = f[k]
    BY <1>5, <1>6, <1>7, <1>8, <2>1
  <2>3. J[Size] = p \o K[Size]
    <3>1. Size \in Nat /\ Size > 0 /\ p \in Seq(Value)
      BY <1>0, <1>1, <1>4
    <3> QED BY ONLY <2>2, <3>1, JoinFront
  <2> QED BY <2>1, <2>3
<1> QED BY <1>9 DEF Held, Size, p
-----------------------------------------------------------------------------
(* A remainder of less than twice the divisor takes one subtraction.       *)
LEMMA Wrap ==
  ASSUME NEW a \in Nat, NEW n \in Nat \ {0}, a < 2 * n
  PROVE  a % n = IF a < n THEN a ELSE a - n
OBVIOUS

(* How far index r is behind index w.                                      *)
Between(w, r) == IF w < r THEN max_size + w - r ELSE w - r

(* The count that common_buffer_get_count computes with a remainder, as a  *)
(* difference (common_buffer.c:184-192).                                   *)
LEMMA CountIsBetween ==
  ASSUME NEW w \in Count, NEW r \in Count
  PROVE  (max_size + w - r) % max_size = Between(w, r)
<1>1. /\ max_size \in Nat \ {0} /\ max_size = Capacity + 1 /\ Capacity \in Nat
      /\ w \in 0 .. Capacity /\ r \in 0 .. Capacity
  BY Sizes DEF Count
<1>2. max_size + w - r \in Nat /\ max_size + w - r < 2 * max_size
  BY <1>1
<1> DEFINE a == max_size + w - r
<1>3. a % max_size = IF a < max_size THEN a ELSE a - max_size
  <2>1. a \in Nat /\ a < 2 * max_size
    BY <1>2
  <2> HIDE DEF a
  <2> QED BY <1>1, <2>1, Wrap
<1>4. (a < max_size <=> w < r) /\ a - max_size = w - r
  BY <1>1
<1> QED BY <1>3, <1>4 DEF Between

(* What moving an index by k does to the count.                            *)
LEMMA CountMoves ==
  ASSUME NEW w \in Count, NEW r \in Count, NEW k \in Nat
  PROVE  /\ Between(w, r) \in Count
         /\ Between(w, r) + k <= Capacity =>
              (w + k) % max_size \in Count /\ Between((w + k) % max_size, r) = Between(w, r) + k
         /\ k <= Between(w, r) =>
              (r + k) % max_size \in Count /\ Between(w, (r + k) % max_size) = Between(w, r) - k
         /\ Between(w, w) = 0
<1>1. /\ max_size \in Nat \ {0} /\ max_size = Capacity + 1 /\ Capacity \in Nat
      /\ w \in 0 .. Capacity /\ r \in 0 .. Capacity
  BY Sizes DEF Count
<1>2. Between(w, r) \in 0 .. Capacity /\ Between(w, w) = 0
  BY <1>1 DEF Between
<1>3. \A a \in Nat : a < 2 * max_size => a % max_size = IF a < max_size THEN a ELSE a - max_size
  BY <1>1, Wrap
<1>4. Between(w, r) + k <= Capacity =>
         (w + k) % max_size \in 0 .. Capacity /\ Between((w + k) % max_size, r) = Between(w, r) + k
  <2> SUFFICES ASSUME Between(w, r) + k <= Capacity
               PROVE  (w + k) % max_size \in 0 .. Capacity
                      /\ Between((w + k) % max_size, r) = Between(w, r) + k
    OBVIOUS
  <2>1. k <= Capacity
    BY <1>1, <1>2
  <2> DEFINE a == w + k
             x == a % max_size
  <2>2. a \in Nat /\ a < 2 * max_size /\ a = w + k
    BY <1>1, <2>1
  <2> HIDE DEF a
  <2>4. x = IF a < max_size THEN a ELSE a - max_size
    BY <1>3, <2>2
  <2> HIDE DEF x
  <2>3. x \in 0 .. Capacity /\ Between(x, r) = Between(w, r) + k
    BY <1>1, <2>1, <2>2, <2>4 DEF Between
  <2> QED BY <2>3 DEF a, x
<1>5. k <= Between(w, r) =>
         (r + k) % max_size \in 0 .. Capacity /\ Between(w, (r + k) % max_size) = Between(w, r) - k
  <2> SUFFICES ASSUME k <= Between(w, r)
               PROVE  (r + k) % max_size \in 0 .. Capacity
                      /\ Between(w, (r + k) % max_size) = Between(w, r) - k
    OBVIOUS
  <2>1. k <= Capacity
    BY <1>1, <1>2
  <2> DEFINE a == r + k
             x == a % max_size
  <2>2. a \in Nat /\ a < 2 * max_size /\ a = r + k
    BY <1>1, <2>1
  <2> HIDE DEF a
  <2>4. x = IF a < max_size THEN a ELSE a - max_size
    BY <1>3, <2>2
  <2> HIDE DEF x
  <2>3. x \in 0 .. Capacity /\ Between(w, x) = Between(w, r) - k
    BY <1>1, <2>1, <2>2, <2>4 DEF Between
  <2> QED BY <2>3 DEF a, x
<1> QED BY <1>2, <1>4, <1>5 DEF Count

(* The count is what is stored, but for what each thread has moved and not *)
(* counted yet; the consumer never asks for more, and the producer's chunk *)
(* has its room.                                                           *)
CountInv ==
  /\ Between(write_count, read_count) + plen = Len(Held) + len
  /\ asked + plen <= Len(popped) + Len(Held)
  /\ pushing # "no" => Between(write_count, read_count) + Len(chunk) <= Capacity + pos

(* The ranges of all that is counted.                                      *)
LEMMA CountTypes ==
  ASSUME Base
  PROVE  /\ write_count \in Count /\ read_count \in Count
         /\ GetCount = Between(write_count, read_count)
         /\ GetCount \in 0 .. Capacity /\ GetFreeCount = Capacity - GetCount
         /\ Len(Held) \in Nat /\ Len(popped) \in Nat /\ Len(chunk) \in Nat /\ pos \in Nat
         /\ plen \in Nat /\ len \in Nat /\ asked \in Nat /\ asked <= Capacity
         /\ Capacity \in Nat /\ Len(popped) <= asked
<1>1. write_count \in Count /\ read_count \in Count /\ asked \in Count /\ pos \in 0 .. Len(chunk)
  BY DEF Base, TypeOK
<1>2. Len(Held) \in Nat /\ Len(popped) \in Nat /\ Len(chunk) \in Nat
  BY LenProperties DEF Base, TypeOK
<1>3. GetCount = Between(write_count, read_count) /\ GetFreeCount = Capacity - GetCount
  BY <1>1, CountIsBetween DEF GetCount, GetFreeCount
<1>4. GetCount \in 0 .. Capacity /\ Capacity \in Nat
  BY CountIs, Sizes DEF Base
<1>5. plen \in Nat /\ len \in Nat /\ Len(popped) <= asked
  BY DEF Base, TypeOK, PcInv
<1>6. asked \in Nat /\ asked <= Capacity /\ pos \in Nat
  BY <1>1, <1>2, <1>4 DEF Count
<1> QED BY <1>1, <1>2, <1>3, <1>4, <1>5, <1>6

(* Every step keeps the count in step with what is stored.                 *)
LEMMA CountKept ==
  ASSUME Base, Base', LastInv, CountInv, [Next]_vars
  PROVE  CountInv'
<1> DEFINE C == Between(write_count, read_count)
<1>0. /\ write_count \in Count /\ read_count \in Count /\ GetCount = C
      /\ C \in 0 .. Capacity /\ GetFreeCount = Capacity - C
      /\ Len(Held) \in Nat /\ Len(popped) \in Nat /\ Len(chunk) \in Nat /\ pos \in Nat
      /\ plen \in Nat /\ len \in Nat /\ asked \in Nat
      /\ Capacity \in Nat /\ Len(popped) <= asked
  BY CountTypes
<1>1. /\ C + plen = Len(Held) + len /\ asked + plen <= Len(popped) + Len(Held)
      /\ pushing # "no" => C + Len(chunk) <= Capacity + pos
  BY DEF CountInv
<1>2. /\ pushing # "count" => plen = 0
      /\ popping # "count" => len = 0
      /\ pushing = "count" => pos + plen <= Len(chunk)
  BY DEF Base, PcInv
<1>3. CASE PushBegins
  <2>1. /\ UNCHANGED <<read_count, write_count, plen, len, asked, popped>>
        /\ Len(chunk') <= GetFreeCount /\ pos' = 0 /\ Held' = Held
    BY <1>3, HeldKept DEF PushBegins, consumer
  <2>2. C + Len(chunk') <= Capacity + 0
    <3>1. Len(chunk') \in Nat
      BY LenProperties DEF Base, TypeOK
    <3>2. \A c, n, m \in Nat : n <= m - c => c + n <= m + 0
      OBVIOUS
    <3> HIDE DEF C
    <3>3. C \in Nat
      BY <1>0
    <3> QED BY <1>0, <2>1, <3>1, <3>2, <3>3
  <2> QED BY <1>1, <2>1, <2>2 DEF CountInv
<1>4. CASE PushStores
  <2> DEFINE p == SubSeq(chunk, pos + 1, pos + plen')
  <2>1. /\ plen' \in Nat /\ p \in Seq(Value) /\ Len(p) = plen' /\ Held' = Held \o p /\ plen = 0
        /\ UNCHANGED <<read_count, write_count, len, asked, popped, pos, chunk>> /\ pushing = "loop"
    BY <1>2, <1>4, Stores, HeldGrows DEF Base, PushStores, consumer
  <2> HIDE DEF p
  <2>2. Len(Held') = Len(Held) + plen'
    BY <2>1, ConcatProperties DEF Base
  <2>3. \A c, h, l, a, q, x \in Nat : c + 0 = h + l /\ a + 0 <= q + h
           => c + x = (h + x) + l /\ a + x <= q + (h + x)
    OBVIOUS
  <2>4. C + plen' = Len(Held') + len /\ asked + plen' <= Len(popped) + Len(Held')
    <3> HIDE DEF C
    <3>1. C \in Nat
      BY <1>0
    <3> QED BY <1>0, <1>1, <2>1, <2>2, <2>3, <3>1
  <2> QED BY <1>1, <2>1, <2>4 DEF CountInv
<1>5. CASE PushCounts
  <2>1. /\ UNCHANGED <<read_count, len, asked, popped, chunk>> /\ Held' = Held
        /\ write_count' = (write_count + plen) % max_size /\ pos' = pos + plen /\ plen' = 0
        /\ pushing = "count"
    BY <1>5, HeldKept DEF PushCounts, consumer
  <2>2. C + plen <= Capacity
    <3>1. \A c, n, m, q, x \in Nat : c + n <= m + q /\ q + x <= n => c + x <= m
      OBVIOUS
    <3> HIDE DEF C
    <3>2. C \in Nat
      BY <1>0
    <3> QED BY <1>0, <1>1, <1>2, <2>1, <3>1, <3>2
  <2>3. Between(write_count', read_count') = C + plen
    BY <1>0, <2>1, <2>2, CountMoves
  <2>4. /\ (C + plen) + 0 = Len(Held) + len /\ asked + 0 <= Len(popped) + Len(Held)
        /\ (C + plen) + Len(chunk) <= Capacity + (pos + plen)
    <3>1. \A c, x, h, l, n, m, q \in Nat : c + x = h + l /\ c + n <= m + q
             => (c + x) + 0 = h + l /\ (c + x) + n <= m + (q + x)
      OBVIOUS
    <3>2. \A a, x, y \in Nat : a + x <= y => a + 0 <= y
      OBVIOUS
    <3> HIDE DEF C
    <3>3. C \in Nat /\ Len(popped) + Len(Held) \in Nat
      BY <1>0
    <3> QED BY <1>0, <1>1, <2>1, <3>1, <3>2, <3>3
  <2> QED BY <2>1, <2>3, <2>4 DEF CountInv
<1>6. CASE PushFails \/ PushReturns
  <2>1. /\ UNCHANGED <<read_count, write_count, plen, len, asked, popped>> /\ Held' = Held
        /\ pushing' = "no"
    BY <1>6, HeldKept DEF PushFails, PushReturns, consumer
  <2> QED BY <1>1, <2>1 DEF CountInv
<1>7. CASE PushAllocates \/ PushLinks \/ PushLinked \/ PopSeesEmpty \/ PopFrees \/ UNCHANGED vars
  <2>1. /\ UNCHANGED <<read_count, write_count, plen, len, asked, popped, chunk, pos>>
        /\ Held' = Held
        /\ pushing' = "no" => pushing = "no"
        /\ pushing = "no" => pushing' = "no"
    BY <1>7, HeldKept DEF PushAllocates, PushLinks, PushLinked, PopSeesEmpty, PopFrees, vars,
                          producer, consumer
  <2> QED BY <1>1, <2>1 DEF CountInv
<1>8. CASE PopBegins
  <2>1. /\ UNCHANGED <<read_count, write_count, plen, len, popped, chunk, pos, pushing>>
        /\ Held' = Held /\ popping = "no"
    BY <1>8, HeldKept DEF PopBegins, producer
  <2>2. PICK n \in Lengths : asked' = Smaller(n, GetCount)
    BY <1>8 DEF PopBegins
  <2>3. n \in Nat /\ len = 0
    BY <1>2, <2>1, BufferAssumption
  <2> HIDE DEF C
  <2>4. asked' \in Nat /\ asked' <= C
    BY <1>0, <2>2, <2>3, SmallerIs
  <2>5. asked' + plen <= Len(popped) + Len(Held)
    <3>1. \A c, x, h, a, q \in Nat : c + x = h + 0 /\ a <= c => a + x <= q + h
      OBVIOUS
    <3>2. C \in Nat
      BY <1>0
    <3> QED BY <1>0, <1>1, <2>3, <2>4, <3>1, <3>2
  <2> QED BY <1>1, <2>1, <2>5 DEF CountInv, C
<1>9. CASE PopTakes
  <2> DEFINE p == SubSeq(bytes[head], 1, len')
  <2>1. /\ len' \in Nat /\ p \in Seq(Value) /\ Held = p \o Held' /\ len = 0
        /\ Len(popped') = Len(popped) + len' /\ Len(p) = len'
        /\ UNCHANGED <<read_count, write_count, plen, asked, pos, chunk, pushing>>
    <3>1. /\ head \in Node /\ len' \in Nat /\ len' <= Len(bytes[head])
          /\ p \in Seq(Value) /\ Len(popped') = Len(popped) + len'
      BY <1>9, Takes DEF Base
    <3>2. bytes[head] \in Seq(Value)
      BY <3>1 DEF Base, TypeOK
    <3>3. Len(p) = len'
      BY <3>1, <3>2, Cut
    <3>4. Held = p \o Held'
      BY <1>9, HeldShrinks
    <3> QED BY <1>2, <1>9, <3>1, <3>3, <3>4 DEF PopTakes, producer
  <2> HIDE DEF p
  <2>2. Len(Held) = len' + Len(Held') /\ Len(Held') \in Nat
    BY <2>1, ConcatProperties, LenProperties DEF Base
  <2>3. /\ C + plen = Len(Held') + len'
        /\ asked + plen <= (Len(popped) + len') + Len(Held')
    <3>1. \A c, x, h, k, a, q \in Nat : c + x = (k + h) + 0 /\ a + x <= q + (k + h)
             => c + x = h + k /\ a + x <= (q + k) + h
      OBVIOUS
    <3> HIDE DEF C
    <3>2. /\ C \in Nat /\ plen \in Nat /\ asked \in Nat /\ Len(popped) \in Nat
          /\ Len(Held') \in Nat /\ len' \in Nat
      BY <1>0, <2>1, <2>2
    <3>3. /\ C + plen = (len' + Len(Held')) + 0
          /\ asked + plen <= Len(popped) + (len' + Len(Held'))
      BY <1>1, <2>1, <2>2
    <3> QED BY ONLY <3>1, <3>2, <3>3
  <2> QED BY <1>1, <2>1, <2>3 DEF CountInv
<1>10. CASE PopCounts
  <2>1. /\ UNCHANGED <<write_count, plen, asked, popped, pos, chunk, pushing>> /\ Held' = Held
        /\ read_count' = (read_count + len) % max_size /\ len' = 0
    BY <1>10, HeldKept DEF PopCounts, producer
  <2>2. len <= C
    <3>1. \A c, x, h, l, a, q \in Nat : c + x = h + l /\ a + x <= q + h /\ q <= a => l <= c
      OBVIOUS
    <3> HIDE DEF C
    <3>2. C \in Nat
      BY <1>0
    <3> QED BY <1>0, <1>1, <3>1, <3>2
  <2>3. Between(write_count', read_count') = C - len
    BY <1>0, <2>1, <2>2, CountMoves
  <2>4. /\ (C - len) + plen = Len(Held) + 0
        /\ pushing # "no" => (C - len) + Len(chunk) <= Capacity + pos
    <3>1. \A c, x, h, l \in Nat : c + x = h + l => (c - l) + x = h + 0
      OBVIOUS
    <3>2. \A c, l, n, y \in Nat : c + n <= y => (c - l) + n <= y
      OBVIOUS
    <3> HIDE DEF C
    <3>3. C \in Nat /\ Capacity + pos \in Nat
      BY <1>0
    <3> QED BY <1>0, <1>1, <3>1, <3>2, <3>3
  <2> QED BY <1>1, <2>1, <2>3, <2>4 DEF CountInv
<1>11. CASE PopReturns
  <2>1. /\ UNCHANGED <<read_count, write_count, plen, len, pos, chunk, pushing>> /\ Held' = Held
        /\ asked' = 0 /\ popped' = <<>>
    BY <1>11, HeldKept DEF PopReturns, producer
  <2>2. 0 + plen <= 0 + Len(Held)
    <3>1. \A a, x, q, h \in Nat : a + x <= q + h /\ q <= a => 0 + x <= 0 + h
      OBVIOUS
    <3> QED BY <1>0, <1>1, <3>1
  <2> QED BY <1>1, <2>1, <2>2, EmptySeq DEF CountInv
<1>12. CASE Clear
  <2>1. /\ pushing = "no" /\ pushing' = "no" /\ popping = "no" /\ Held' = <<>>
        /\ UNCHANGED <<write_count, plen, asked, popped, len>> /\ read_count' = write_count
    <3>1. Held' = <<>>
      BY <1>12, ClearsChain DEF Base
    <3> QED BY <1>12, <3>1 DEF Clear, producer
  <2>2. plen = 0 /\ len = 0 /\ asked = 0 /\ Len(popped) = 0 /\ Len(<<>>) = 0
    BY <1>2, <2>1, EmptySeq DEF Base, PcInv
  <2>3. Between(write_count', read_count') = 0
    BY <1>0, <2>1, CountMoves
  <2> QED BY <2>1, <2>2, <2>3 DEF CountInv
<1> QED BY <1>3, <1>4, <1>5, <1>6, <1>7, <1>8, <1>9, <1>10, <1>11, <1>12 DEF Next, PushStep, PopStep
-----------------------------------------------------------------------------
(* The two parts of a concatenation.                                       *)
LEMMA FrontIs ==
  ASSUME NEW u \in Seq(Value), NEW v \in Seq(Value)
  PROVE  /\ SubSeq(u \o v, 1, Len(u)) = u
         /\ SubSeq(u \o v, Len(u) + 1, Len(u \o v)) = v
<1>1. Len(u) \in Nat /\ Len(v) \in Nat /\ u \o v \in Seq(Value) /\ Len(u \o v) = Len(u) + Len(v)
  BY LenProperties, ConcatProperties
<1>2. SubSeq(u \o v, 1, Len(u)) = u
  <2>1. CASE Len(u) = 0
    <3>1. SubSeq(u \o v, 1, Len(u)) = <<>>
      BY <2>1, SubSeqEmpty
    <3> QED BY <2>1, <3>1, EmptySeq
  <2>2. CASE Len(u) # 0
    <3>1. 1 \in 1 .. Len(u) /\ Len(u) \in 1 .. Len(u)
      BY <1>1, <2>2
    <3>2. SubSeq(u \o v, 1, Len(u)) = SubSeq(u, 1, Len(u))
      BY <3>1, SubSeqOfConcat1
    <3> QED BY <3>2, SubSeqFull
  <2> QED BY <2>1, <2>2
<1> DEFINE w == u \o v
           n == Len(u)
           t == SubSeq(w, n + 1, Len(w))
<1>3. t \in Seq(Value) /\ w = SubSeq(w, 1, n) \o t
  <2>1. n <= Len(w) /\ n \in Nat /\ w \in Seq(Value)
    BY <1>1
  <2> HIDE DEF w, n
  <2> QED BY <2>1, Cut
<1>4. u \o v = u \o t
  BY <1>2, <1>3
<1>5. t = v
  <2> HIDE DEF t
  <2> QED BY <1>3, <1>4, ConcatSimplifications
<1> QED BY <1>2, <1>5

(* What has been popped, and then what is stored without its last n bytes. *)
LEMMA WithoutLast ==
  ASSUME NEW p \in Seq(Value), NEW s \in Seq(Value), NEW n \in Nat, n <= Len(s)
  PROVE  SubSeq(p \o s, 1, Len(p \o s) - n) = p \o SubSeq(s, 1, Len(s) - n)
<1> DEFINE m == Len(s) - n
           a == SubSeq(s, 1, m)
           b == SubSeq(s, m + 1, Len(s))
<1>1. Len(s) \in Nat /\ Len(p) \in Nat /\ Len(p \o s) = Len(p) + Len(s)
  BY LenProperties, ConcatProperties
<1>2. m \in Nat /\ m <= Len(s)
  BY <1>1
<1>3. a \in Seq(Value) /\ b \in Seq(Value) /\ Len(a) = m /\ s = a \o b
  <2> HIDE DEF m
  <2> QED BY <1>2, Cut
<1>4. Len(p \o s) - n = Len(p) + m
  BY <1>1
<1> HIDE DEF m, a, b
<1>5. p \o a \in Seq(Value) /\ Len(p \o a) = Len(p) + m
  BY <1>3, ConcatProperties
<1>6. p \o s = (p \o a) \o b
  BY <1>3, Associative
<1>7. SubSeq(p \o s, 1, Len(p) + m) = p \o a
  <2>1. SubSeq((p \o a) \o b, 1, Len(p \o a)) = p \o a
    BY ONLY <1>3, <1>5, FrontIs
  <2> QED BY ONLY <1>5, <1>6, <2>1
<1> QED BY <1>4, <1>7 DEF a, m

(* The queue that the two threads share.                                   *)
QueueFact ==
  /\ plen <= Len(Held)
  /\ Contents = popped \o SubSeq(Held, 1, Len(Held) - plen)
  /\ SubSeq(Held, 1, Len(Held) - plen) \in Seq(Value)
  /\ Len(Contents) + plen = Len(popped) + Len(Held)
  /\ pushing # "no" => Len(Contents) + plen <= 2 * Capacity

(* The invariants give the queue its form, and its bound when bytes are    *)
(* about to be counted.                                                    *)
LEMMA QueueIs ==
  ASSUME Base, CountInv
  PROVE  QueueFact
<1>0. /\ Len(Held) \in Nat /\ Len(popped) \in Nat /\ Len(chunk) \in Nat /\ pos \in Nat
      /\ plen \in Nat /\ len \in Nat /\ asked \in Nat /\ asked <= Capacity
      /\ Capacity \in Nat /\ Len(popped) <= asked /\ pos <= Len(chunk)
      /\ GetCount \in Nat /\ GetCount = Between(write_count, read_count)
  BY CountTypes DEF Base, TypeOK
<1>1. /\ GetCount + plen = Len(Held) + len /\ asked + plen <= Len(popped) + Len(Held)
      /\ pushing # "no" => GetCount + Len(chunk) <= Capacity + pos
  BY <1>0 DEF CountInv
<1>2. plen <= Len(Held)
  BY <1>0, <1>1
<1>3. popped \in Seq(Value) /\ Held \in Seq(Value)
  BY DEF Base, TypeOK
<1>4. Contents = popped \o SubSeq(Held, 1, Len(Held) - plen)
  BY <1>0, <1>2, <1>3, WithoutLast DEF Contents, Held, Size
<1> DEFINE m == Len(Held) - plen
           a == SubSeq(Held, 1, m)
<1>5. a \in Seq(Value) /\ Len(a) = m
  <2>1. m \in Nat /\ m <= Len(Held)
    BY <1>0, <1>2
  <2> HIDE DEF m
  <2> QED BY <1>3, <2>1, Cut
<1>6. Len(Contents) = Len(popped) + m
  <2> HIDE DEF m
  <2>1. Contents = popped \o a
    BY <1>4 DEF m
  <2> HIDE DEF a
  <2> QED BY <1>3, <1>5, <2>1, ConcatProperties
<1>7. Len(Contents) + plen = Len(popped) + Len(Held)
  BY <1>0, <1>6
<1>8. pushing # "no" => Len(Contents) + plen <= 2 * Capacity
  <2> SUFFICES ASSUME pushing # "no" PROVE Len(popped) + Len(Held) <= 2 * Capacity
    BY <1>7
  <2>1. pushing = "count" => pos + plen <= Len(chunk)
    BY DEF Base, PcInv
  <2>2. pushing # "count" => plen = 0
    BY DEF Base, PcInv
  <2>3. GetCount + plen <= Capacity
    <3>1. \A c, l, p, q, x \in Nat : c + l <= x + p /\ p + q <= l => c + q <= x
      OBVIOUS
    <3>2. pos + plen <= Len(chunk)
      BY <1>0, <2>1, <2>2
    <3> QED BY <1>0, <1>1, <3>1, <3>2
  <2> QED BY <1>0, <1>1, <2>3
<1> QED BY <1>2, <1>4, <1>5, <1>7, <1>8 DEF QueueFact

(* Every step is one of the queue's or leaves it alone: the producer puts  *)
(* when it counts, the consumer takes when it returns.                     *)
LEMMA StepRefines ==
  ASSUME Base, Base', LastInv, QueueFact, QueueFact', [Next]_vars
  PROVE  [Fifo!Next]_<<Contents, out>>
<1> DEFINE s == SubSeq(Held, 1, Len(Held) - plen)
<1>0. /\ Held \in Seq(Value) /\ Held' \in Seq(Value)
      /\ popped \in Seq(Value) /\ popped' \in Seq(Value)
      /\ Len(Held) \in Nat /\ Len(popped) \in Nat /\ plen \in Nat /\ plen' \in Nat
      /\ Contents = popped \o s /\ s \in Seq(Value) /\ plen <= Len(Held) /\ plen' <= Len(Held')
      /\ Contents' = popped' \o SubSeq(Held', 1, Len(Held') - plen')
  BY LenProperties DEF Base, TypeOK, QueueFact
<1>1. /\ pushing # "count" => plen = 0
      /\ popping = "no" => popped = <<>>
  BY DEF Base, PcInv
<1>2. CASE \/ PushBegins \/ PushAllocates \/ PushFails \/ PushLinks \/ PushLinked \/ PushReturns
           \/ PopBegins \/ PopCounts \/ PopSeesEmpty \/ PopFrees \/ UNCHANGED vars
  <2>1. UNCHANGED <<popped, plen, out>>
    BY <1>2 DEF PushBegins, PushAllocates, PushFails, PushLinks, PushLinked, PushReturns,
                PopBegins, PopCounts, PopSeesEmpty, PopFrees, vars, producer, consumer
  <2>2. Held' = Held
    BY <1>2, HeldKept
  <2> QED BY <1>0, <2>1, <2>2
<1>3. CASE PushStores
  <2> DEFINE p == SubSeq(chunk, pos + 1, pos + plen')
  <2>1. /\ UNCHANGED <<popped, out>> /\ plen = 0 /\ Held' = Held \o p
        /\ p \in Seq(Value) /\ Len(p) = plen'
    BY <1>1, <1>3, HeldGrows, Stores DEF PushStores, consumer, Base
  <2> HIDE DEF p
  <2>2. Len(Held \o p) - plen' = Len(Held)
    BY <1>0, <2>1, ConcatProperties
  <2>3. SubSeq(Held', 1, Len(Held') - plen') = Held
    BY <1>0, <2>1, <2>2, FrontIs
  <2>4. s = Held
    <3>1. Len(Held) - plen = Len(Held)
      BY <1>0, <2>1
    <3> QED BY <1>0, <3>1, SubSeqFull
  <2> QED BY <1>0, <2>1, <2>3, <2>4
<1>4. CASE PopTakes
  <2> DEFINE p == SubSeq(bytes[head], 1, len')
  <2>1. /\ p \in Seq(Value) /\ Held = p \o Held' /\ popped' = popped \o p
        /\ UNCHANGED <<plen, out>>
    BY <1>4, Takes, HeldShrinks DEF Base, PopTakes, producer
  <2> HIDE DEF p
  <2>2. s = p \o SubSeq(Held', 1, Len(Held') - plen')
    BY <1>0, <2>1, WithoutLast
  <2>3. SubSeq(Held', 1, Len(Held') - plen') \in Seq(Value)
    BY DEF QueueFact
  <2>4. Contents' = Contents
    <3> DEFINE x == SubSeq(Held', 1, Len(Held') - plen')
    <3>1. Contents' = (popped \o p) \o x /\ x \in Seq(Value)
      BY <1>0, <2>1, <2>3
    <3>2. Contents = popped \o (p \o x)
      BY <1>0, <2>2
    <3> HIDE DEF x
    <3>3. (popped \o p) \o x = popped \o (p \o x)
      <4>1. popped \in Seq(Value) /\ p \in Seq(Value) /\ x \in Seq(Value)
        BY <1>0, <2>1, <3>1
      <4> QED BY ONLY <4>1, Associative
    <3> QED BY <3>1, <3>2, <3>3
  <2> QED BY <2>1, <2>4
<1>5. CASE PushCounts
  <2> DEFINE m == Len(Held) - plen
             d == SubSeq(Held, m + 1, Len(Held))
  <2>1. UNCHANGED <<popped, out>> /\ plen' = 0 /\ Held' = Held /\ pushing = "count"
    BY <1>5, HeldKept DEF PushCounts, consumer
  <2>2. m \in Nat /\ m <= Len(Held) /\ Len(Held) - m = plen
    BY <1>0
  <2>3. d \in Seq(Value) /\ Len(d) = plen /\ Held = s \o d
    <3>1. s = SubSeq(Held, 1, m)
      OBVIOUS
    <3> HIDE DEF m
    <3> QED BY <1>0, <2>2, <3>1, Cut
  <2> HIDE DEF d, m
  <2>4. Contents' = Contents \o d
    <3>1. SubSeq(Held', 1, Len(Held') - plen') = Held
      <4>1. Len(Held) - 0 = Len(Held)
        BY <1>0
      <4> QED BY <1>0, <2>1, <4>1, SubSeqFull
    <3> HIDE DEF s
    <3>2. Contents' = popped \o (s \o d) /\ Contents = popped \o s
      BY <1>0, <2>1, <2>3, <3>1
    <3>3. (popped \o s) \o d = popped \o (s \o d)
      <4>1. popped \in Seq(Value) /\ s \in Seq(Value) /\ d \in Seq(Value)
        BY <1>0, <2>3 DEF s
      <4> QED BY ONLY <4>1, Associative
    <3> QED BY <3>2, <3>3
  <2>5. plen \in 0 .. 2 * Capacity - Len(Contents)
    <3>1. Len(Contents) + plen <= 2 * Capacity /\ Len(Contents) + plen = Len(popped) + Len(Held)
      BY <2>1 DEF QueueFact
    <3>2. Contents \in Seq(Value)
      BY <1>0, ConcatProperties
    <3>3. Len(Contents) \in Nat /\ Capacity \in Nat
      BY <3>2, LenProperties, Sizes
    <3> QED BY <1>0, <3>1, <3>3
  <2>6. d \in [1 .. plen -> Value]
    BY <2>3, LenProperties
  <2>7. Fifo!Put
    BY <2>1, <2>4, <2>5, <2>6 DEF Fifo!Put
  <2> QED BY <2>7 DEF Fifo!Next
<1>6. CASE PopReturns
  <2>1. /\ out' = (IF keep THEN popped ELSE <<>>) /\ popped' = <<>> /\ plen' = plen /\ Held' = Held
    BY <1>6, HeldKept DEF PopReturns, producer
  <2>2. Contents' = s
    <3>1. Contents' = <<>> \o s
      BY <1>0, <2>1
    <3> HIDE DEF s
    <3> QED BY <1>0, <3>1, ConcatEmptySeq
  <2> HIDE DEF s
  <2>3. /\ SubSeq(Contents, 1, Len(popped)) = popped
        /\ SubSeq(Contents, Len(popped) + 1, Len(Contents)) = s
    BY <1>0, FrontIs
  <2>4. Len(popped) \in 0 .. Len(Contents)
    BY <1>0, ConcatProperties, LenProperties
  <2>5. Fifo!Take \/ Fifo!Discard
    BY <2>1, <2>2, <2>3, <2>4 DEF Fifo!Take, Fifo!Discard, Fifo!Rest
  <2> QED BY <2>5 DEF Fifo!Next
<1>7. CASE Clear
  <2>1. Held' = <<>> /\ popped' = <<>> /\ out' = <<>> /\ plen' = 0
    BY <1>1, <1>7, ClearsChain DEF Base, Clear, producer
  <2>2. Contents' = <<>>
    <3>1. SubSeq(<<>>, 1, 0 - 0) = <<>>
      BY SubSeqEmpty
    <3>2. Len(<<>>) = 0 /\ <<>> \o <<>> = <<>>
      BY EmptySeq, ConcatEmptySeq
    <3> QED BY <1>0, <2>1, <3>1, <3>2
  <2> HIDE DEF s
  <2>3. Len(Contents) \in 0 .. Len(Contents) /\ Len(Contents) \in Nat
    BY <1>0, ConcatProperties, LenProperties
  <2>4. SubSeq(Contents, Len(Contents) + 1, Len(Contents)) = <<>>
    BY <2>3, SubSeqEmpty
  <2>5. Fifo!Discard
    BY <2>1, <2>2, <2>3, <2>4 DEF Fifo!Discard, Fifo!Rest
  <2> QED BY <2>5 DEF Fifo!Next
<1> QED BY <1>2, <1>3, <1>4, <1>5, <1>6, <1>7 DEF Next, PushStep, PopStep

(* The decoder gets the bytes the downloader pushed, in order and without  *)
(* holes (common_buffer.c:72-172): every step of the two threads is a step *)
(* of a bounded queue, or none, as long as fewer bytes than a node holds   *)
(* are pushed while the consumer is between the two tests of line 156.     *)
THEOREM BufferIsFifo ==
  ASSUME Burst < NodeSize
  PROVE  Spec => ImplementsFifo
<1> DEFINE Full == Base /\ LastInv /\ CountInv /\ QueueFact
<1>1. Init => LastInv
  BY DEF Init, LastInv
<1>2. Base /\ LastInv /\ [Next]_vars => LastInv'
  BY LastKept DEF Base
<1>3. Init /\ Base => CountInv
  <2> SUFFICES ASSUME Init, Base PROVE CountInv
    OBVIOUS
  <2>1. Chain(<<>>)
    BY InitialChain
  <2>2. Held = <<>>
    BY <2>1 DEF Base
  <2>3. write_count = 0 /\ read_count = 0 /\ Between(0, 0) = 0
    BY DEF Init, Between
  <2> QED BY <2>2, <2>3, EmptySeq DEF Init, CountInv
<1>4. Base /\ Base' /\ LastInv /\ CountInv /\ [Next]_vars => CountInv'
  BY CountKept
<1>5. Base /\ CountInv => QueueFact
  BY QueueIs
<1>6. Full /\ Full' /\ [Next]_vars => [Fifo!Next]_<<Contents, out>>
  BY StepRefines
<1>7. Init /\ Full => Fifo!Init
  <2> SUFFICES ASSUME Init, Full PROVE Contents = <<>> /\ out = <<>>
    BY DEF Fifo!Init
  <2>1. popped = <<>> /\ plen = 0 /\ out = <<>>
    BY DEF Init
  <2>2. Chain(<<>>)
    BY InitialChain
  <2>3. Held = <<>>
    BY <2>2 DEF Base
  <2>4. SubSeq(<<>>, 1, 0 - 0) = <<>>
    BY SubSeqEmpty
  <2>5. Len(<<>>) = 0 /\ <<>> \o <<>> = <<>>
    BY EmptySeq, ConcatEmptySeq
  <2> QED BY <2>1, <2>3, <2>4, <2>5 DEF QueueFact
<1>8. Spec => []Base
  BY AlwaysBase
<1>9. Spec => []Full
  BY <1>1, <1>2, <1>3, <1>4, <1>5, <1>8, PTL DEF Spec
<1> QED BY <1>6, <1>7, <1>8, <1>9, PTL DEF Spec, ImplementsFifo, Fifo!Spec
=============================================================================
