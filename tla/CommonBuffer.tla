----------------------------- MODULE CommonBuffer -----------------------------
(***************************************************************************)
(* The elastic byte queue of src/utils/common_buffer.c: a linked list of   *)
(* rings between the http downloader, which pushes, and the decoder        *)
(* thread, which pops through audio_file.c.  There is no lock.  The ring   *)
(* of a node is used through ring_buffer.c only, which behaves as a queue  *)
(* (RingBufferProofs), so one push to or pop from a node is one step; the  *)
(* accesses to head, tail, next and to the two counts interleave freely.   *)
(***************************************************************************)
EXTENDS Naturals, Sequences, FiniteSets

CONSTANTS
  Value,      \* what a byte can be
  Node,       \* the addresses malloc may return
  NULL,
  NodeSize,   \* node_size
  Capacity,   \* the "max_size" given to common_buffer_init
  Chunks,     \* what the producer pushes
  Lengths,    \* how many bytes the consumer asks for
  Burst       \* bound on the bytes pushed while the consumer is between the
              \* two tests of line 156

ASSUME BufferAssumption ==
  /\ NodeSize \in Nat \ {0} /\ Capacity \in Nat \ {0} /\ Burst \in Nat
  /\ NULL \notin Node /\ IsFiniteSet(Node)
  /\ Chunks \subseteq Seq(Value) /\ Lengths \subseteq Nat

max_size == Capacity + 1

VARIABLES
  head, tail, next,         \* the list
  bytes,                    \* the ring of each node
  alive,                    \* the nodes that are allocated
  read_count, write_count,
  pushing, chunk, pos, plen, tmp,          \* common_buffer_push_inner
  popping, keep, asked, popped, len, out,  \* common_buffer_pop_inner
  burst     \* bytes pushed since the consumer found its node empty

list     == <<head, tail, next, bytes, alive>>
producer == <<pushing, chunk, pos, plen, tmp>>
consumer == <<popping, keep, asked, popped, len, out>>
vars     == <<list, read_count, write_count, producer, consumer, burst>>

Count == 0 .. Capacity

TypeOK ==
  /\ head \in Node \cup {NULL} /\ tail \in Node \cup {NULL}
  /\ next \in [Node -> Node \cup {NULL}]
  /\ bytes \in [Node -> Seq(Value)] /\ \A n \in Node : Len(bytes[n]) <= NodeSize
  /\ alive \in SUBSET Node
  /\ read_count \in Count /\ write_count \in Count
  /\ pushing \in {"no", "loop", "link", "head", "tail", "count"}
  /\ chunk \in Seq(Value) /\ pos \in 0 .. Len(chunk) /\ plen \in Nat
  /\ tmp \in Node \cup {NULL}
  /\ popping \in {"no", "loop", "count", "empty?", "last?"}
  /\ keep \in BOOLEAN /\ asked \in Count /\ popped \in Seq(Value) /\ len \in Nat /\ out \in Seq(Value)
  /\ burst \in Nat

Init ==
  /\ head = NULL /\ tail = NULL
  /\ next = [n \in Node |-> NULL] /\ bytes = [n \in Node |-> <<>>] /\ alive = {}
  /\ read_count = 0 /\ write_count = 0
  /\ pushing = "no" /\ chunk = <<>> /\ pos = 0 /\ plen = 0 /\ tmp = NULL
  /\ popping = "no" /\ keep = TRUE /\ asked = 0 /\ popped = <<>> /\ len = 0 /\ out = <<>>
  /\ burst = 0

-----------------------------------------------------------------------------
Smaller(a, b) == IF a < b THEN a ELSE b

GetCount == (max_size + write_count - read_count) % max_size

GetFreeCount == Capacity - GetCount

(* common_buffer_push_inner: nothing happens when the chunk does not fit.  *)
PushBegins ==
  /\ pushing = "no"
  /\ chunk' \in Chunks /\ Len(chunk') <= GetFreeCount
  /\ pushing' = "loop" /\ pos' = 0
  /\ UNCHANGED <<list, read_count, write_count, plen, tmp, consumer, burst>>

NoRoom == IF tail = NULL THEN TRUE ELSE Len(bytes[tail]) >= NodeSize

PushAllocates ==
  /\ pushing = "loop" /\ pos < Len(chunk) /\ NoRoom
  /\ \E n \in Node \ alive :
       /\ tmp' = n
       /\ alive' = alive \cup {n}
       /\ next' = [next EXCEPT ![n] = NULL]
       /\ bytes' = [bytes EXCEPT ![n] = <<>>]
  /\ pushing' = "link"
  /\ UNCHANGED <<head, tail, read_count, write_count, chunk, pos, plen, consumer, burst>>

(* malloc returned NULL: the rest of the chunk is given up.                *)
PushFails ==
  /\ pushing = "loop" /\ pos < Len(chunk) /\ NoRoom
  /\ pushing' = "no" /\ chunk' = <<>> /\ pos' = 0
  /\ UNCHANGED <<list, read_count, write_count, plen, tmp, consumer, burst>>

(* head = tail = tmp, and tail->next = tmp; tail = tmp: two stores each.   *)
PushLinks ==
  /\ pushing = "link"
  /\ IF head = NULL
     THEN /\ tail' = tmp /\ pushing' = "head"
          /\ UNCHANGED next
     ELSE /\ next' = [next EXCEPT ![tail] = tmp] /\ pushing' = "tail"
          /\ UNCHANGED tail
  /\ UNCHANGED <<head, bytes, alive, read_count, write_count, chunk, pos, plen, tmp,
                 consumer, burst>>

PushLinked ==
  /\ pushing \in {"head", "tail"}
  /\ head' = IF pushing = "head" THEN tmp ELSE head
  /\ tail' = IF pushing = "tail" THEN tmp ELSE tail
  /\ pushing' = "loop" /\ tmp' = NULL
  /\ UNCHANGED <<next, bytes, alive, read_count, write_count, chunk, pos, plen, consumer, burst>>

(* ring_buffer_push to the last node.                                      *)
PushStores ==
  /\ pushing = "loop" /\ pos < Len(chunk) /\ ~NoRoom
  /\ plen' = Smaller(NodeSize - Len(bytes[tail]), Len(chunk) - pos)
  /\ bytes' = [bytes EXCEPT ![tail] = @ \o SubSeq(chunk, pos + 1, pos + plen')]
  /\ burst' = IF popping = "last?" THEN burst + plen' ELSE 0
  /\ burst' <= Burst
  /\ pushing' = "count"
  /\ UNCHANGED <<head, tail, next, alive, read_count, write_count, chunk, pos, tmp, consumer>>

(* Fault: the count does not wrap.                                         *)
PushCountsNoWrap ==
  /\ pushing = "count"
  /\ write_count' = write_count + plen
  /\ pos' = pos + plen
  /\ plen' = 0
  /\ pushing' = "loop"
  /\ UNCHANGED <<list, read_count, chunk, tmp, consumer, burst>>

PushCounts ==
  /\ pushing = "count"
  /\ write_count' = (write_count + plen) % max_size
  /\ pos' = pos + plen
  /\ plen' = 0
  /\ pushing' = "loop"
  /\ UNCHANGED <<list, read_count, chunk, tmp, consumer, burst>>

PushReturns ==
  /\ pushing = "loop" /\ pos = Len(chunk)
  /\ pushing' = "no" /\ chunk' = <<>> /\ pos' = 0
  /\ UNCHANGED <<list, read_count, write_count, plen, tmp, consumer, burst>>

-----------------------------------------------------------------------------
(* Fault: the pop asks for bytes that are not counted yet.                 *)
PopUnclamped ==
  /\ popping = "no" /\ head # NULL
  /\ asked' \in Lengths
  /\ keep' \in BOOLEAN
  /\ popping' = "loop"
  /\ UNCHANGED <<list, read_count, write_count, producer, popped, len, out, burst>>

(* common_buffer_pop_inner, to a buffer or to nowhere.                     *)
PopBegins ==
  /\ popping = "no" /\ head # NULL
  /\ \E n \in Lengths : asked' = Smaller(n, GetCount)
  /\ keep' \in BOOLEAN
  /\ popping' = "loop"
  /\ UNCHANGED <<list, read_count, write_count, producer, popped, len, out, burst>>

PopTakes ==
  /\ popping = "loop" /\ Len(popped) < asked /\ head # NULL
  /\ len' = Smaller(Len(bytes[head]), asked - Len(popped))
  /\ popped' = popped \o SubSeq(bytes[head], 1, len')
  /\ bytes' = [bytes EXCEPT ![head] = SubSeq(@, len' + 1, Len(@))]
  /\ popping' = "count"
  /\ UNCHANGED <<head, tail, next, alive, read_count, write_count, producer, keep, asked, out, burst>>

PopCounts ==
  /\ popping = "count"
  /\ read_count' = (read_count + len) % max_size
  /\ len' = 0
  /\ popping' = "empty?"
  /\ UNCHANGED <<list, write_count, producer, keep, asked, popped, out, burst>>

(* Fault: the node is not tested for being empty.                          *)
PopSeesNothing ==
  /\ popping = "empty?"
  /\ popping' = "last?"
  /\ burst' = 0
  /\ UNCHANGED <<list, read_count, write_count, producer, keep, asked, popped, len, out>>

(* ring_buffer_get_count(...) <= 0 ...                                     *)
PopSeesEmpty ==
  /\ popping = "empty?"
  /\ popping' = IF bytes[head] = <<>> THEN "last?" ELSE "loop"
  /\ burst' = 0
  /\ UNCHANGED <<list, read_count, write_count, producer, keep, asked, popped, len, out>>

(* Fault: the last node is freed as well.                                  *)
PopFreesLast ==
  /\ popping = "last?"
  /\ head' = next[head]
  /\ tail' = IF next[head] = NULL THEN NULL ELSE tail
  /\ alive' = alive \ {head}
  /\ bytes' = [bytes EXCEPT ![head] = <<>>]
  /\ next' = [next EXCEPT ![head] = NULL]
  /\ popping' = "loop" /\ burst' = 0
  /\ UNCHANGED <<read_count, write_count, producer, keep, asked, popped, len, out>>

(* ... && head != tail: the node is taken out of the list and freed.       *)
PopFrees ==
  /\ popping = "last?"
  /\ IF head = tail THEN UNCHANGED list
     ELSE /\ head' = next[head]
          /\ tail' = IF next[head] = NULL THEN NULL ELSE tail
          /\ alive' = alive \ {head}
          /\ bytes' = [bytes EXCEPT ![head] = <<>>]
          /\ next' = [next EXCEPT ![head] = NULL]
  /\ popping' = "loop" /\ burst' = 0
  /\ UNCHANGED <<read_count, write_count, producer, keep, asked, popped, len, out>>

PopReturns ==
  /\ popping = "loop"
  /\ Len(popped) = asked \/ head = NULL
  /\ out' = IF keep THEN popped ELSE <<>>
  /\ popping' = "no" /\ asked' = 0 /\ popped' = <<>>
  /\ UNCHANGED <<list, read_count, write_count, producer, keep, len, burst>>

(* common_buffer_clear, when the downloader has acknowledged its STOP.     *)
Clear ==
  /\ pushing = "no" /\ popping = "no"
  /\ head' = NULL /\ tail' = NULL /\ alive' = {}
  /\ next' = [n \in Node |-> NULL] /\ bytes' = [n \in Node |-> <<>>]
  /\ read_count' = write_count
  /\ out' = <<>>
  /\ UNCHANGED <<write_count, producer, popping, keep, asked, popped, len, burst>>

-----------------------------------------------------------------------------
PushStep == PushAllocates \/ PushFails \/ PushLinks \/ PushLinked
              \/ PushStores \/ PushCounts \/ PushReturns

PopStep == PopTakes \/ PopCounts \/ PopSeesEmpty \/ PopFrees \/ PopReturns

Next == PushBegins \/ PushStep \/ PopBegins \/ PopStep \/ Clear

Spec == Init /\ [][Next]_vars

FairSpec == Spec /\ WF_vars(PushStep) /\ WF_vars(PopStep)

-----------------------------------------------------------------------------
(* The nodes from head on, and the bytes in them.                          *)
Path[k \in 0 .. Cardinality(Node)] ==
  IF k = 0 THEN head
  ELSE IF Path[k - 1] = NULL THEN NULL ELSE next[Path[k - 1]]

Stored[k \in 0 .. Cardinality(Node)] ==
  IF k = 0 THEN <<>>
  ELSE Stored[k - 1] \o (IF Path[k - 1] = NULL THEN <<>> ELSE bytes[Path[k - 1]])

Linked == {Path[k] : k \in DOMAIN Path} \ {NULL}

(* The queue: what the pop in progress has taken, which no longer uses     *)
(* room in the buffer, then what is stored and counted.                    *)
Contents ==
  LET all == popped \o Stored[Cardinality(Node)] IN SubSeq(all, 1, Len(all) - plen)

Fifo == INSTANCE Fifo WITH queue <- Contents, Capacity <- 2 * Capacity

(* The decoder gets the bytes the downloader pushed, in order and without  *)
(* holes: audio_test.c:189-197 compares a web file read through this       *)
(* buffer with the same file read locally (common_buffer.c:72-172).        *)
ImplementsFifo == Fifo!Spec

(* Neither thread follows a pointer to a freed node, and no node that the  *)
(* list has lost stays allocated (common_buffer.c:86-102, 141-166).        *)
NodesAreSafe ==
  /\ {head, tail} \subseteq alive \cup {NULL}
  /\ alive = Linked \cup (IF pushing \in {"link", "head", "tail"} THEN {tmp} ELSE {})
  /\ tail # NULL => tail \in Linked \/ pushing = "head"

(* A pop returns: the bytes it found counted are there.                    *)
PopEnds == popping # "no" ~> popping = "no"
=============================================================================
