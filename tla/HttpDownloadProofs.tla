-------------------------- MODULE HttpDownloadProofs --------------------------
(***************************************************************************)
(* For files, blocks and buffers of every size, and any number of calls    *)
(* and failures: the downloader keeps its positions, its requests and its  *)
(* answers in step, and implements module Download.                        *)
(***************************************************************************)
EXTENDS HttpDownload, SequenceTheorems, TLAPS

Busy   == wpc \in {"conn", "connect", "send"}
Posted == pending \cup taken \cup acks
Ranged == file.ask /\ file.ranges
Loads  == cur_state \in {"RECV", "WAIT_FREE"}

(* START and STOP belong to the thread that waits for them; once STOP has  *)
(* been acknowledged the machine is idle until START is posted.            *)
CallInv ==
  /\ wpc = "wait" => taken = {}
  /\ "START" \in Posted => cpc = "await"
  /\ "STOP" \in Posted => cpc = "stop"
  /\ cpc = "await" => "START" \in Posted
  /\ cpc = "stop" => "STOP" \in Posted
  /\ \A e \in {"START", "STOP"} :
       /\ e \in acks => e \notin pending \cup taken
       /\ e \in taken => e \notin pending
  /\ "START" \in pending \cup taken => cur_state = "IDLE"
  /\ "STOP" \in acks => cur_state = "IDLE"
  /\ cpc \in {"clear_events", "clear_acks", "free", "start"} => cur_state = "IDLE"
  /\ Busy => "STOP" \notin taken /\ (cur_state = "IDLE" => "START" \in taken)

(* The counts of the machine, as far as its types need them: a download    *)
(* that goes on has not reached its limits, and an answer is read in whole *)
(* blocks, but for the last.                                               *)
Measurable(p) == p \in Proc /\ (p.length_received => p.total_length # -1)

WellFormed(p) == Measurable(p) /\ p.read_pos <= p.recv_len

Sound(a) ==
  /\ a \in Answer /\ a.got <= a.len
  /\ a.got < a.len => a.got % Block = 0

CountInv ==
  /\ WellFormed(proc) /\ Sound(answer)
  /\ Loads => proc.cur <= proc.pre
  /\ cur_state # "IDLE" \/ Busy => proc.err_conn < MaxConn /\ proc.err_recv < MaxRecv

(* The next unit of the buffer is the one at pre, also after a download    *)
(* that failed.                                                            *)
PlaceInv ==
  /\ proc.pre = origin + Len(received)
  /\ op.kind = "continue" /\ cpc \in {"stop", "clear_events", "clear_acks", "free", "start"} =>
       op.pos = proc.pre /\ cur_state = "IDLE"
  /\ op.kind = "start" => op.pos \in Seeks
  /\ cpc = "start" => op.kind # "stop"

(* The length that is known is that of the file, and the guess that there  *)
(* are ranges is not given up where there are.                             *)
LengthInv ==
  /\ proc.length_received => ~file.chunked /\ proc.total_length = file.len
  /\ proc.is_chunked => file.chunked
  /\ Ranged /\ (cur_state # "IDLE" \/ Busy) => proc.range_forecast

(* An answer is a part of the file, or all of it.                          *)
OfFile(a) ==
  /\ a.len > 0 => a.kind = "file"
  /\ a.kind = "file" =>
       /\ a.ranged = file.ranges /\ a.len > 0
       /\ a.size = IF Ranged THEN file.len ELSE 0
       /\ IF Ranged THEN a.from + a.len <= file.len ELSE a.from = 0 /\ a.len = file.len

AnswerInv == OfFile(answer)

(* The offset of the next unit that is read is pre in a range, and cur in  *)
(* the whole file; a block that waits for room is the next one.            *)
ReadInv ==
  /\ Loads /\ answer.kind = "file" =>
       /\ answer.got = 0 => IF Ranged THEN answer.from = proc.pre ELSE proc.cur = 0
       /\ answer.got > 0 => /\ proc.is_range <=> Ranged
                            /\ proc.is_chunked \/ proc.length_received
                            /\ ~proc.more => answer.got = answer.len
  /\ cur_state = "RECV" /\ answer.kind = "file" /\ answer.got > 0 =>
       answer.from + answer.got = IF Ranged THEN proc.pre ELSE proc.cur
  /\ cur_state = "WAIT_FREE" =>
       /\ ~Busy /\ proc.http_opened /\ answer.kind = "file" /\ answer.got > 0
       /\ proc.read_pos < proc.recv_len
       /\ answer.from + answer.got = proc.pre + (proc.recv_len - proc.read_pos)
       /\ ~Ranged => proc.cur = proc.pre

(* A machine that is idle has come to the end of the file, or has failed,  *)
(* or was not asked.                                                       *)
EndInv ==
  /\ proc.last_error = "ALL_END" => proc.pre = file.len
  /\ "START" \in pending \cup taken => proc.last_error = "SUCCESS"
  /\ cur_state = "IDLE" /\ proc.last_error = "SUCCESS" =>
       op.kind = "stop" \/ cpc \notin {"idle", "await"} \/ "START" \in pending \cup taken

(* A range that is being read fits into the buffer.                        *)
RangeInv ==
  /\ cur_state = "RECV" /\ answer.kind = "file" /\ Ranged =>
       /\ proc.range_end - proc.pre <= GetFreeCount
       /\ answer.from + answer.len <= proc.range_end
  /\ cur_state = "WAIT_FREE" => ~Ranged

SafeInv == TypeOK /\ CallInv /\ CountInv /\ UrlOutlivesUse

DataInv == PlaceInv /\ InOrder /\ LengthInv /\ AnswerInv /\ ReadInv /\ EndInv
-----------------------------------------------------------------------------
(* The constants, one by one, for the arithmetic.                          *)
LEMMA Sizes ==
  /\ Block \in Nat /\ Block > 0 /\ Capacity \in Nat /\ Block <= Capacity
  /\ Fallback \in Nat /\ MaxConn \in Nat /\ MaxConn > 0 /\ MaxRecv \in Nat /\ MaxRecv > 0
  /\ MaxCalls \in Nat /\ MaxFaults \in Nat /\ Files \subseteq File /\ Seeks \subseteq Nat
BY HttpAssumption

(* A remainder that is known.                                              *)
LEMMA Multiple ==
  ASSUME NEW b \in Nat, b > 0, NEW q \in Nat, NEW r \in 0 .. b - 1
  PROVE  (b * q + r) % b = r
OBVIOUS

(* A multiple, and how often it holds its divisor.                         *)
LEMMA Quotient ==
  ASSUME NEW b \in Nat, b > 0, NEW k \in Nat, k % b = 0
  PROVE  k = b * (k \div b) /\ k \div b \in Nat
<1>1. k = b * (k \div b)
  OBVIOUS
<1>2. k \div b \in Nat
  OBVIOUS
<1> QED BY <1>1, <1>2

(* What is left of an answer that has been read block by block.            *)
LEMMA Remainder ==
  ASSUME NEW b \in Nat, b > 0, NEW k \in Nat, NEW len \in Nat, k % b = 0, k <= len, len - k < b
  PROVE  len % b = len - k
<1> DEFINE q == k \div b
           r == len - k
<1>1. q \in Nat /\ k = b * q
  BY Quotient
<1>2. r \in 0 .. b - 1 /\ len = k + r
  OBVIOUS
<1> HIDE DEF q
<1>3. (b * q + r) % b = r
  <2> HIDE DEF r
  <2> QED BY <1>1, <1>2, Multiple
<1> QED BY <1>1, <1>2, <1>3

(* One block further is still a whole number of blocks.                    *)
LEMMA NextMultiple ==
  ASSUME NEW b \in Nat, b > 0, NEW k \in Nat, k % b = 0
  PROVE  (k + b) % b = 0
<1> DEFINE q == k \div b
           n == q + 1
<1>1. q \in Nat /\ k = b * q
  BY Quotient
<1> HIDE DEF q
<1>2. n \in Nat /\ k + b = b * n + 0
  BY <1>1
<1> HIDE DEF n
<1>3. (b * n + 0) % b = 0
  BY <1>2, Multiple
<1> QED BY <1>2, <1>3

(* A remainder is smaller than the divisor, and not larger than the number.*)
LEMMA ModRange ==
  ASSUME NEW b \in Nat, b > 0, NEW k \in Nat
  PROVE  k % b \in 0 .. b /\ k % b <= k
OBVIOUS

(* What the code's small functions make of proc is a proc.                 *)
LEMMA ProcTypes ==
  ASSUME file \in File, NEW p \in Proc, NEW r \in Results
  PROVE  CloseClient(p) \in Proc /\ StopProc(p) \in Proc /\ With(p, r) \in Proc
         /\ StartProc(p) \in Proc
<1>1. CloseClient(p) \in Proc
  BY DEF CloseClient, Proc
<1>2. StopProc(p) \in Proc
  BY DEF StopProc, CloseClient, Proc
<1>3. With(p, r) \in Proc
  BY DEF With, Proc
<1>4. StartProc(p) \in Proc
  <2> DEFINE total == IF p.pre <= 0 THEN -1 ELSE p.total_length
             known == p.pre > 0 /\ p.length_received
             a == [p EXCEPT !.last_error = "SUCCESS", !.recv_buf = TRUE, !.http_opened = FALSE,
                            !.total_length = total, !.length_received = known]
             b == [a EXCEPT !.err_conn = 0, !.err_recv = 0, !.is_range = FALSE, !.redirect = FALSE]
  <2>1. StartProc(p) = [b EXCEPT !.is_chunked = FALSE, !.more = FALSE, !.range_forecast = file.ask,
                                 !.close_if_rang_end = FALSE]
    BY DEF StartProc
  <2>2. total \in Nat \cup {-1}
    BY DEF Proc
  <2>3. known \in BOOLEAN
    OBVIOUS
  <2>4. file.ask \in BOOLEAN /\ 0 \in 0 .. MaxConn /\ 0 \in 0 .. MaxRecv
    BY Sizes DEF File
  <2> HIDE DEF total, known
  <2>5. a \in Proc
    BY <2>2, <2>3 DEF Proc, Results
  <2> HIDE DEF a
  <2>6. b \in Proc
    BY <2>4, <2>5 DEF Proc
  <2> HIDE DEF b
  <2> QED BY <2>1, <2>4, <2>6 DEF Proc
<1> QED BY <1>1, <1>2, <1>3, <1>4
-----------------------------------------------------------------------------
Rows(table, s, set) == {i \in DOMAIN table : table[i].state = s /\ table[i].event \subseteq set}

(* com_fsm_get_lookup finds the first row that fits, or none.              *)
LEMMA FirstRow ==
  ASSUME NEW table, NEW s, NEW set, Rows(table, s, set) \subseteq Int
  PROVE  /\ Rows(table, s, set) = {} => RowEvent(table, s, set) = {}
         /\ \A k \in Rows(table, s, set) :
              (\A q \in Rows(table, s, set) : k <= q)
                => RowEvent(table, s, set) = {table[k].event}
<1> DEFINE rows == Rows(table, s, set)
<1>1. RowEvent(table, s, set) = {table[i].event : i \in {r \in rows : \A q \in rows : r <= q}}
  BY DEF RowEvent, Rows
<1> HIDE DEF rows
<1>2. ASSUME NEW k \in rows, \A q \in rows : k <= q
      PROVE  {r \in rows : \A q \in rows : r <= q} = {k}
  <2>1. \A r \in rows : (\A q \in rows : r <= q) => r = k
    BY <1>2 DEF rows
  <2> QED BY <1>2, <2>1
<1>3. ASSUME NEW k \in rows, \A q \in rows : k <= q
      PROVE  RowEvent(table, s, set) = {table[k].event}
  BY <1>1, <1>2, <1>3
<1>4. rows = {} => RowEvent(table, s, set) = {}
  BY <1>1
<1> QED BY <1>3, <1>4 DEF rows

(* The rows of the downloader's table, and their events.                   *)
LEMMA HttpTable ==
  ASSUME NEW s \in States, NEW set
  PROVE  /\ Rows(HttpLookup, s, set) \subseteq {1, 2, 4, 5, 6, 8, 9, 10, 11, 13, 14, 15}
         /\ 1 \in Rows(HttpLookup, s, set) <=> s = "IDLE" /\ "START" \in set
         /\ 2 \in Rows(HttpLookup, s, set) <=> s = "PAUSE" /\ "STOP" \in set
         /\ 4 \in Rows(HttpLookup, s, set) <=> s = "RECV" /\ "STOP" \in set
         /\ 5 \in Rows(HttpLookup, s, set) <=> s = "WAIT_FREE" /\ "STOP" \in set
         /\ 6 \in Rows(HttpLookup, s, set) <=> s = "WAIT_RANGE" /\ "STOP" \in set
         /\ 8 \in Rows(HttpLookup, s, set) <=> s = "RECV" /\ "PAUSE" \in set
         /\ 9 \in Rows(HttpLookup, s, set) <=> s = "WAIT_FREE" /\ "PAUSE" \in set
         /\ 10 \in Rows(HttpLookup, s, set) <=> s = "WAIT_RANGE" /\ "PAUSE" \in set
         /\ 11 \in Rows(HttpLookup, s, set) <=> s = "PAUSE" /\ "RESUME" \in set
         /\ 13 \in Rows(HttpLookup, s, set) <=> s = "RECV"
         /\ 14 \in Rows(HttpLookup, s, set) <=> s = "WAIT_FREE"
         /\ 15 \in Rows(HttpLookup, s, set) <=> s = "WAIT_RANGE"
<1>1. DOMAIN HttpLookup = 1 .. 15
  BY DEF HttpLookup
<1>2. /\ HttpLookup[1] = Row("START", "IDLE", ConnNext)
      /\ HttpLookup[2] = Row("STOP", "PAUSE", {"IDLE"})
      /\ HttpLookup[3] = Row("STOP", "CONN", {"IDLE"})
      /\ HttpLookup[4] = Row("STOP", "RECV", {"IDLE"})
      /\ HttpLookup[5] = Row("STOP", "WAIT_FREE", {"IDLE"})
      /\ HttpLookup[6] = Row("STOP", "WAIT_RANGE", {"IDLE"})
      /\ HttpLookup[7] = Row("PAUSE", "CONN", {"PAUSE"})
      /\ HttpLookup[8] = Row("PAUSE", "RECV", {"PAUSE"})
      /\ HttpLookup[9] = Row("PAUSE", "WAIT_FREE", {"PAUSE"})
      /\ HttpLookup[10] = Row("PAUSE", "WAIT_RANGE", {"PAUSE"})
      /\ HttpLookup[11] = Row("RESUME", "PAUSE", ConnNext)
      /\ HttpLookup[12].state = "CONN"
      /\ HttpLookup[13].state = "RECV" /\ HttpLookup[13].event = {}
      /\ HttpLookup[14].state = "WAIT_FREE" /\ HttpLookup[14].event = {}
      /\ HttpLookup[15].state = "WAIT_RANGE" /\ HttpLookup[15].event = {}
  BY DEF HttpLookup, PollRow
<1>3. ASSUME NEW i \in 1 .. 15
      PROVE  i \in Rows(HttpLookup, s, set) <=>
               HttpLookup[i].state = s /\ HttpLookup[i].event \subseteq set
  BY <1>1 DEF Rows
<1>4. 3 \notin Rows(HttpLookup, s, set) /\ 7 \notin Rows(HttpLookup, s, set)
      /\ 12 \notin Rows(HttpLookup, s, set)
  BY <1>2, <1>3 DEF Row, States
<1>5. Rows(HttpLookup, s, set) \subseteq 1 .. 15
  BY <1>1 DEF Rows
<1>6. Rows(HttpLookup, s, set) \subseteq {1, 2, 4, 5, 6, 8, 9, 10, 11, 13, 14, 15}
  BY <1>4, <1>5
<1> QED BY <1>2, <1>3, <1>6 DEF Row

(* What the downloader runs for a set of bits.                             *)
LEMMA HttpRow ==
  ASSUME NEW s \in States, NEW set, NEW row, row = RowEvent(HttpLookup, s, set)
  PROVE  /\ s = "IDLE" => row = IF "START" \in set THEN {{"START"}} ELSE {}
         /\ s = "PAUSE" => row = IF "STOP" \in set THEN {{"STOP"}}
                                 ELSE IF "RESUME" \in set THEN {{"RESUME"}} ELSE {}
         /\ s \in {"RECV", "WAIT_FREE", "WAIT_RANGE"} =>
              row = IF "STOP" \in set THEN {{"STOP"}}
                    ELSE IF "PAUSE" \in set THEN {{"PAUSE"}} ELSE {{}}
<1> DEFINE rows == Rows(HttpLookup, s, set)
<1>1. /\ rows \subseteq {1, 2, 4, 5, 6, 8, 9, 10, 11, 13, 14, 15}
      /\ 1 \in rows <=> s = "IDLE" /\ "START" \in set
      /\ 2 \in rows <=> s = "PAUSE" /\ "STOP" \in set
      /\ 4 \in rows <=> s = "RECV" /\ "STOP" \in set
      /\ 5 \in rows <=> s = "WAIT_FREE" /\ "STOP" \in set
      /\ 6 \in rows <=> s = "WAIT_RANGE" /\ "STOP" \in set
      /\ 8 \in rows <=> s = "RECV" /\ "PAUSE" \in set
      /\ 9 \in rows <=> s = "WAIT_FREE" /\ "PAUSE" \in set
      /\ 10 \in rows <=> s = "WAIT_RANGE" /\ "PAUSE" \in set
      /\ 11 \in rows <=> s = "PAUSE" /\ "RESUME" \in set
      /\ 13 \in rows <=> s = "RECV"
      /\ 14 \in rows <=> s = "WAIT_FREE"
      /\ 15 \in rows <=> s = "WAIT_RANGE"
  BY HttpTable
<1>2. /\ HttpLookup[1].event = {"START"}
      /\ \A i \in {2, 4, 5, 6} : HttpLookup[i].event = {"STOP"}
      /\ \A i \in {8, 9, 10} : HttpLookup[i].event = {"PAUSE"}
      /\ HttpLookup[11].event = {"RESUME"}
      /\ \A i \in {13, 14, 15} : HttpLookup[i].event = {}
  <2>1. HttpLookup[1].event = {"START"} /\ HttpLookup[11].event = {"RESUME"}
    BY DEF HttpLookup, Row
  <2>2. /\ HttpLookup[2].event = {"STOP"} /\ HttpLookup[4].event = {"STOP"}
        /\ HttpLookup[5].event = {"STOP"} /\ HttpLookup[6].event = {"STOP"}
    BY DEF HttpLookup, Row
  <2>3. /\ HttpLookup[8].event = {"PAUSE"} /\ HttpLookup[9].event = {"PAUSE"}
        /\ HttpLookup[10].event = {"PAUSE"}
    BY DEF HttpLookup, Row
  <2>4. /\ HttpLookup[13].event = {} /\ HttpLookup[14].event = {} /\ HttpLookup[15].event = {}
    BY DEF HttpLookup, PollRow
  <2> QED BY <2>1, <2>2, <2>3, <2>4
<1>3. /\ rows = {} => row = {}
      /\ \A k \in rows : (\A q \in rows : k <= q) => row = {HttpLookup[k].event}
  <2>1. rows \subseteq Int
    BY <1>1
  <2> QED BY <2>1, FirstRow
<1> HIDE DEF rows
<1>4. CASE s = "IDLE"
  <2>1. rows = IF "START" \in set THEN {1} ELSE {}
    BY <1>1, <1>4
  <2>2. "START" \in set => 1 \in rows /\ \A q \in rows : 1 <= q
    BY <2>1
  <2> QED BY <1>2, <1>3, <1>4, <2>1, <2>2
<1>5. CASE s = "PAUSE"
  <2>1. rows \subseteq {2, 11}
    BY <1>1, <1>5
  <2>2. "STOP" \in set => 2 \in rows /\ \A q \in rows : 2 <= q
    BY <1>1, <1>5, <2>1
  <2>3. "STOP" \notin set /\ "RESUME" \in set => 11 \in rows /\ \A q \in rows : 11 <= q
    BY <1>1, <1>5, <2>1
  <2>4. "STOP" \notin set /\ "RESUME" \notin set => rows = {}
    BY <1>1, <1>5, <2>1
  <2> QED BY <1>2, <1>3, <1>5, <2>2, <2>3, <2>4
<1>6. ASSUME NEW stop \in {4, 5, 6}, NEW pause \in {8, 9, 10}, NEW poll \in {13, 14, 15},
             rows \subseteq {stop, pause, poll}, poll \in rows,
             stop \in rows <=> "STOP" \in set, pause \in rows <=> "PAUSE" \in set
      PROVE  row = IF "STOP" \in set THEN {{"STOP"}}
                   ELSE IF "PAUSE" \in set THEN {{"PAUSE"}} ELSE {{}}
  <2>1. CASE "STOP" \in set
    <3>1. stop \in rows /\ \A q \in rows : stop <= q
      BY <1>6, <2>1
    <3>2. row = {HttpLookup[stop].event}
      BY <1>3, <3>1
    <3>3. HttpLookup[stop].event = {"STOP"}
      BY <1>2
    <3> QED BY <2>1, <3>2, <3>3
  <2>2. CASE "STOP" \notin set /\ "PAUSE" \in set
    <3>1. pause \in rows /\ \A q \in rows : pause <= q
      BY <1>6, <2>2
    <3>2. row = {HttpLookup[pause].event}
      BY <1>3, <3>1
    <3>3. HttpLookup[pause].event = {"PAUSE"}
      BY <1>2
    <3> QED BY <2>2, <3>2, <3>3
  <2>3. CASE "STOP" \notin set /\ "PAUSE" \notin set
    <3>1. \A q \in rows : poll <= q
      BY <1>6, <2>3
    <3>2. row = {HttpLookup[poll].event}
      BY <1>3, <1>6, <3>1
    <3>3. HttpLookup[poll].event = {}
      BY <1>2
    <3> QED BY <2>3, <3>2, <3>3
  <2> QED BY <2>1, <2>2, <2>3
<1>7. CASE s = "RECV"
  <2>1. rows \subseteq {4, 8, 13} /\ 13 \in rows
    BY <1>1, <1>7
  <2>2. (4 \in rows <=> "STOP" \in set) /\ (8 \in rows <=> "PAUSE" \in set)
    BY <1>1, <1>7
  <2> QED BY <1>6, <1>7, <2>1, <2>2
<1>8. CASE s = "WAIT_FREE"
  <2>1. rows \subseteq {5, 9, 14} /\ 14 \in rows
    BY <1>1, <1>8
  <2>2. (5 \in rows <=> "STOP" \in set) /\ (9 \in rows <=> "PAUSE" \in set)
    BY <1>1, <1>8
  <2> QED BY <1>6, <1>8, <2>1, <2>2
<1>9. CASE s = "WAIT_RANGE"
  <2>1. rows \subseteq {6, 10, 15} /\ 15 \in rows
    BY <1>1, <1>9
  <2>2. (6 \in rows <=> "STOP" \in set) /\ (10 \in rows <=> "PAUSE" \in set)
    BY <1>1, <1>9
  <2> QED BY <1>6, <1>9, <2>1, <2>2
<1> QED BY <1>4, <1>5, <1>7, <1>8, <1>9 DEF States

(* Which row runs says what was posted.                                    *)
LEMMA Handled ==
  ASSUME cur_state \in States, CallInv, NEW row, Handles(row)
  PROVE  /\ wpc = "handle"
         /\ row = {} => /\ cur_state \in {"IDLE", "PAUSE"}
                        /\ cur_state = "IDLE" => "START" \notin taken
                        /\ cur_state = "PAUSE" => "STOP" \notin taken
         /\ row = {{"START"}} => cur_state = "IDLE" /\ "START" \in taken /\ "STOP" \notin taken
         /\ row = {{"STOP"}} => cur_state # "IDLE" /\ "STOP" \in taken
         /\ row = {{"PAUSE"}} => cur_state \notin {"IDLE", "PAUSE"} /\ "STOP" \notin taken
         /\ row = {{"RESUME"}} => cur_state = "PAUSE" /\ "STOP" \notin taken
         /\ row = {{}} => cur_state \notin {"IDLE", "PAUSE"} /\ "STOP" \notin taken
<1>1. wpc = "handle" /\ row = RowEvent(HttpLookup, cur_state, taken)
  BY DEF Handles
<1>2. "START" \in taken => "STOP" \notin taken
  BY DEF CallInv, Posted
<1>3. /\ {"START"} # {"STOP"} /\ {"START"} # {"PAUSE"} /\ {"START"} # {"RESUME"} /\ {"START"} # {}
      /\ {"STOP"} # {"PAUSE"} /\ {"STOP"} # {"RESUME"} /\ {"STOP"} # {}
      /\ {"PAUSE"} # {"RESUME"} /\ {"PAUSE"} # {} /\ {"RESUME"} # {}
  OBVIOUS
<1>4. CASE cur_state = "IDLE"
  <2>1. row = IF "START" \in taken THEN {{"START"}} ELSE {}
    BY <1>1, <1>4, HttpRow
  <2>2. row \notin {{{"STOP"}}, {{"PAUSE"}}, {{"RESUME"}}, {{}}}
    BY <1>3, <2>1
  <2> QED BY <1>1, <1>2, <1>4, <2>1, <2>2
<1>5. CASE cur_state = "PAUSE"
  <2>1. row = IF "STOP" \in taken THEN {{"STOP"}}
              ELSE IF "RESUME" \in taken THEN {{"RESUME"}} ELSE {}
    BY <1>1, <1>5, HttpRow
  <2>2. row \notin {{{"START"}}, {{"PAUSE"}}, {{}}}
    BY <1>3, <2>1
  <2>3. row = {{"STOP"}} <=> "STOP" \in taken
    BY <1>3, <2>1
  <2>4. row \in {{}, {{"RESUME"}}} => "STOP" \notin taken
    BY <1>3, <2>1
  <2> QED BY <1>1, <1>5, <2>2, <2>3, <2>4
<1>6. CASE cur_state \in {"RECV", "WAIT_FREE", "WAIT_RANGE"}
  <2>1. row = IF "STOP" \in taken THEN {{"STOP"}}
              ELSE IF "PAUSE" \in taken THEN {{"PAUSE"}} ELSE {{}}
    BY <1>1, <1>6, HttpRow
  <2>2. row \notin {{}, {{"START"}}, {{"RESUME"}}}
    BY <1>3, <2>1
  <2>3. row = {{"STOP"}} <=> "STOP" \in taken
    BY <1>3, <2>1
  <2>4. row \in {{{"PAUSE"}}, {{}}} => "STOP" \notin taken
    BY <1>3, <2>1
  <2>5. cur_state \notin {"IDLE", "PAUSE"}
    BY <1>6
  <2> QED BY <1>1, <2>2, <2>3, <2>4, <2>5
<1> QED BY <1>4, <1>5, <1>6 DEF States
-----------------------------------------------------------------------------
(* The worker may leave its state without breaking a promise to the caller.*)
MayMove == "STOP" \notin taken /\ (cur_state = "IDLE" => "START" \in taken)

(* The effect of a return that does not depend on the action.              *)
LEMMA Returned ==
  ASSUME TypeOK, NEW state \in States \cup {Hold}, NEW p, Returns(state, p)
  PROVE  /\ cur_state' = IF state = Hold THEN cur_state ELSE state
         /\ cur_state' \in States /\ wpc' = "wait" /\ proc' = p
         /\ taken' = {} /\ pending' = pending /\ acks' \subseteq HttpEvents
         /\ \A e \in {"START", "STOP"} : e \in acks' <=> e \in acks \cup taken
<1>1. acks' = acks \cup (taken \ {"PAUSE", "RESUME"})
  BY DEF Returns
<1>2. acks' \subseteq HttpEvents
  BY <1>1 DEF TypeOK
<1>3. \A e \in {"START", "STOP"} : e \in acks' <=> e \in acks \cup taken
  BY <1>1
<1>4. cur_state' \in States
  BY DEF Returns, TypeOK
<1> QED BY <1>2, <1>3, <1>4 DEF Returns

(* A worker that returns keeps what its caller relies on.                  *)
LEMMA ReturnKeepsCall ==
  ASSUME TypeOK, CallInv, NEW state \in States \cup {Hold}, NEW p, Returns(state, p), cpc' = cpc,
         MayMove \/ state = "IDLE" \/ (state = Hold /\ cur_state = "IDLE")
                 \/ (state = Hold /\ "STOP" \notin taken)
  PROVE  CallInv'
<1>1. /\ cur_state' = IF state = Hold THEN cur_state ELSE state
      /\ cur_state' \in States /\ wpc' = "wait" /\ proc' = p
      /\ taken' = {} /\ pending' = pending
      /\ \A e \in {"START", "STOP"} : e \in acks' <=> e \in acks \cup taken
  BY Returned
<1>2. \A e \in {"START", "STOP"} : e \in Posted' <=> e \in Posted
  BY <1>1 DEF Posted
<1>3. \A e \in {"START", "STOP"} :
        /\ e \in acks' => e \notin pending' \cup taken'
        /\ e \in taken' => e \notin pending'
  BY <1>1 DEF CallInv
<1>4. cur_state = "IDLE" /\ "START" \notin taken => cur_state' = "IDLE"
  <2>1. cur_state = "IDLE" /\ "START" \notin taken => state = "IDLE" \/ state = Hold
    BY DEF MayMove
  <2> QED BY <1>1, <2>1 DEF Hold
<1>5. "STOP" \in taken => cur_state' = "IDLE"
  BY <1>1 DEF MayMove, Hold
<1>6. "START" \in pending' \cup taken' => cur_state' = "IDLE"
  BY <1>1, <1>4 DEF CallInv
<1>7. "STOP" \in acks => "START" \notin taken
  BY DEF CallInv, Posted
<1>8. "STOP" \in acks' => cur_state' = "IDLE"
  BY <1>1, <1>4, <1>5, <1>7 DEF CallInv
<1>9. cpc \in {"clear_events", "clear_acks", "free", "start"} => cur_state' = "IDLE"
  <2>1. cpc \in {"clear_events", "clear_acks", "free", "start"} =>
          cur_state = "IDLE" /\ "START" \notin taken
    BY DEF CallInv, Posted
  <2> QED BY <1>4, <2>1
<1>10. ~Busy'
  BY <1>1 DEF Busy
<1> QED BY <1>1, <1>2, <1>3, <1>6, <1>8, <1>9, <1>10 DEF CallInv

(* So does one that goes on.                                               *)
LEMMA MoveKeepsCall ==
  ASSUME CallInv, MayMove, UNCHANGED <<cur_state, taken, bits, cpc>>, Busy'
  PROVE  CallInv'
<1>1. wpc' # "wait" /\ UNCHANGED <<pending, acks>> /\ Posted' = Posted
  BY DEF Busy, Posted, bits
<1> QED BY <1>1 DEF CallInv, MayMove

(* The worker's steps keep what the caller relies on.                      *)
LEMMA WorkKeepsCall ==
  ASSUME TypeOK, CallInv
  PROVE  Work => CallInv'
<1>1. cur_state \in States
  BY DEF TypeOK
<1>2. wpc \in {"conn", "connect", "send"} => MayMove
  BY DEF CallInv, Busy, MayMove
<1>3. /\ Handles({{"START"}}) => MayMove
      /\ Handles({{"RESUME"}}) => MayMove
      /\ Handles({{"PAUSE"}}) => MayMove
      /\ Handles({{}}) => MayMove
      /\ Handles({}) => cur_state = "IDLE" \/ "STOP" \notin taken
  BY <1>1, Handled DEF MayMove
<1>4. \A s : Polls(s) => MayMove
  BY <1>3 DEF Polls
<1>5. ASSUME NEW p, GoesOn(p), MayMove, cpc' = cpc PROVE CallInv'
  BY <1>5, MoveKeepsCall DEF GoesOn, Busy
<1>6. ASSUME NEW state \in States \cup {Hold}, NEW p, Returns(state, p), MayMove, cpc' = cpc
      PROVE  CallInv'
  BY <1>6, ReturnKeepsCall
<1>7. {Hold, "IDLE", "RECV", "PAUSE", "WAIT_FREE", "WAIT_RANGE"} \subseteq States \cup {Hold}
  BY DEF States
<1>8. CASE Takes
  <2>1. /\ wpc = "wait" /\ wpc' = "handle" /\ taken = {} /\ taken' = pending /\ pending' = {}
        /\ UNCHANGED <<cur_state, acks, cpc>>
    BY <1>8 DEF Takes, caller, CallInv
  <2>2. Posted' = Posted
    BY <2>1 DEF Posted
  <2> QED BY <2>1, <2>2 DEF CallInv, Busy
<1>9. CASE HandlesEvent
  <2>0. cpc' = cpc
    BY <1>9 DEF HandlesEvent, caller
  <2>1. CASE Handles({}) /\ Returns(Hold, proc)
    BY <1>3, <1>7, <2>0, <2>1, ReturnKeepsCall
  <2>2. CASE Handles({{"START"}}) /\ GoesOn(StartProc(proc))
    BY <1>3, <1>5, <2>0, <2>2
  <2>3. CASE Handles({{"STOP"}}) /\ Returns("IDLE", StopProc(With(proc, "SUCCESS")))
    BY <1>7, <2>0, <2>3, ReturnKeepsCall
  <2>4. CASE Handles({{"PAUSE"}}) /\ Returns("PAUSE", CloseClient(proc))
    BY <1>3, <1>6, <1>7, <2>0, <2>4
  <2>5. CASE Handles({{"RESUME"}}) /\ GoesOn(proc)
    BY <1>3, <1>5, <2>0, <2>5
  <2> QED BY <1>9, <2>1, <2>2, <2>3, <2>4, <2>5 DEF HandlesEvent
<1>10. CASE StartFails
  BY <1>3, <1>6, <1>7, <1>10 DEF StartFails, caller
<1>11. CASE Conn
  <2>0. cpc' = cpc /\ MayMove
    BY <1>2, <1>11 DEF Conn, caller
  <2>1. CASE Returns("IDLE", StopProc(With(proc, "ERR_PARAM")))
    BY <1>6, <1>7, <2>0, <2>1
  <2>2. CASE wpc' = (IF proc.http_opened THEN "send" ELSE "connect")
             /\ UNCHANGED <<cur_state, proc, taken, bits>>
    BY <2>0, <2>2, MoveKeepsCall DEF Busy
  <2> QED BY <1>11, <2>1, <2>2 DEF Conn
<1>12. CASE Connects
  BY <1>2, <1>12, MoveKeepsCall DEF Connects, Busy, caller
<1>13. CASE ConnectFails
  BY <1>2, <1>6, <1>7, <1>13 DEF ConnectFails, caller
<1>14. CASE Sends
  BY <1>2, <1>6, <1>7, <1>14 DEF Sends, caller
<1>15. CASE SendFails
  BY <1>2, <1>6, <1>7, <1>15 DEF SendFails, caller
<1>16. ASSUME NEW p, NEW limit, Retry(p, limit), MayMove, cpc' = cpc PROVE CallInv'
  BY <1>5, <1>6, <1>7, <1>16 DEF Retry
<1>17. CASE RecvFails
  BY <1>4, <1>16, <1>17 DEF RecvFails, caller
<1>18. CASE Redirects
  BY <1>4, <1>5, <1>18 DEF Redirects, caller
<1>19. CASE RecvNothing
  BY <1>4, <1>16, <1>19 DEF RecvNothing, caller
<1>20. CASE ForecastFails
  BY <1>4, <1>5, <1>20 DEF ForecastFails, caller
<1>21. ASSUME NEW p, NEW a, Push(p, a), MayMove, cpc' = cpc PROVE CallInv'
  <2>1. \E state \in States \cup {Hold} : \E q : Returns(state, q)
    BY <1>7, <1>21 DEF Push
  <2> QED BY <1>6, <1>21, <2>1
<1>22. CASE Receives
  <2>1. MayMove /\ cpc' = cpc
    BY <1>4, <1>22 DEF Receives, caller
  <2>2. \/ Returns(Hold, With(NextBlock, "ERR_RECV_SKIP"))
        \/ Push(NextBlock, [answer EXCEPT !.got = @ + NextBlock.recv_len])
    BY <1>22 DEF Receives
  <2> QED BY <1>6, <1>7, <1>21, <2>1, <2>2
<1>23. CASE WaitFreePoll
  <2>1. MayMove /\ cpc' = cpc
    BY <1>4, <1>23 DEF WaitFreePoll, caller
  <2>2. Returns(Hold, With(proc, "ERR_BUF_TOO_SMALL")) \/ Push(proc, answer)
    BY <1>23 DEF WaitFreePoll
  <2> QED BY <1>6, <1>7, <1>21, <2>1, <2>2
<1>24. CASE WaitRangePoll
  <2>1. MayMove /\ cpc' = cpc
    BY <1>4, <1>24 DEF WaitRangePoll, caller
  <2>2. Returns(Hold, With(proc, "ERR_BUF_TOO_SMALL")) \/ GoesOn(With(proc, "SUCCESS"))
    BY <1>24 DEF WaitRangePoll
  <2> QED BY <1>5, <1>6, <1>7, <2>1, <2>2
<1> QED BY <1>8, <1>9, <1>10, <1>11, <1>12, <1>13, <1>14, <1>15, <1>17, <1>18, <1>19, <1>20, <1>22,
           <1>23, <1>24 DEF Work

(* The calls do, too, when each wait ends with its acknowledgement.        *)
LEMMA CallsKeepCall ==
  ASSUME "slow" \notin Trouble, TypeOK, CallInv
  PROVE  CallerStep \/ PauseOrResume \/ Call \/ Pops => CallInv'
<1> USE DEF work, bits, caller
<1>1. CASE PauseOrResume
  <2>1. PICK e \in {"PAUSE", "RESUME"} : pending' = pending \cup {e}
    BY <1>1 DEF PauseOrResume
  <2>2. UNCHANGED <<cur_state, wpc, taken, acks, cpc>>
    BY <1>1 DEF PauseOrResume
  <2>3. \A x \in {"START", "STOP"} : x \in pending' <=> x \in pending
    BY <2>1
  <2>4. \A x \in {"START", "STOP"} : x \in Posted' <=> x \in Posted
    BY <2>2, <2>3 DEF Posted
  <2> QED BY <2>2, <2>3, <2>4 DEF CallInv, Busy
<1>2. CASE Call
  <2>1. /\ cpc = "idle" /\ cpc' = "stop" /\ pending' = pending \cup {"STOP"}
        /\ UNCHANGED <<cur_state, wpc, taken, acks>>
    BY <1>2 DEF Call
  <2>2. "START" \notin Posted /\ "STOP" \notin Posted
    BY <2>1 DEF CallInv
  <2>3. Posted' = Posted \cup {"STOP"}
    BY <2>1 DEF Posted
  <2> QED BY <2>1, <2>2, <2>3 DEF CallInv, Busy, Posted
<1>3. CASE Stopped
  <2>1. /\ cpc = "stop" /\ cpc' = "clear_events" /\ "STOP" \in acks /\ acks' = acks \ {"STOP"}
        /\ UNCHANGED <<cur_state, wpc, taken, pending>>
    BY <1>3 DEF Stopped, Waited
  <2>2. /\ cur_state = "IDLE" /\ "START" \notin Posted
        /\ "STOP" \notin pending \cup taken
    BY <2>1 DEF CallInv
  <2>3. "STOP" \notin Posted' /\ "START" \notin Posted'
    BY <2>1, <2>2 DEF Posted
  <2> QED BY <2>1, <2>2, <2>3 DEF CallInv, Busy, Posted
<1>4. CASE ClearEvents
  <2>1. /\ cpc = "clear_events" /\ cpc' = "clear_acks" /\ pending' = {}
        /\ UNCHANGED <<cur_state, wpc, taken, acks>>
    BY <1>4 DEF ClearEvents
  <2>2. cur_state = "IDLE" /\ "START" \notin Posted /\ "STOP" \notin Posted
    BY <2>1 DEF CallInv
  <2>3. "STOP" \notin Posted' /\ "START" \notin Posted'
    BY <2>1, <2>2 DEF Posted
  <2> QED BY <2>1, <2>2, <2>3 DEF CallInv, Busy, Posted
<1>5. CASE ClearAcks
  <2>1. /\ cpc = "clear_acks" /\ cpc' = "free" /\ acks' = {}
        /\ UNCHANGED <<cur_state, wpc, taken, pending>>
    BY <1>5 DEF ClearAcks
  <2>2. cur_state = "IDLE" /\ "START" \notin Posted /\ "STOP" \notin Posted
    BY <2>1 DEF CallInv
  <2>3. "STOP" \notin Posted' /\ "START" \notin Posted'
    BY <2>1, <2>2 DEF Posted
  <2> QED BY <2>1, <2>2, <2>3 DEF CallInv, Busy, Posted
<1>6. CASE Frees
  <2>1. /\ cpc = "free" /\ cpc' \in {"idle", "start"}
        /\ UNCHANGED <<cur_state, wpc, taken, pending, acks>>
    BY <1>6 DEF Frees
  <2>2. cur_state = "IDLE" /\ "START" \notin Posted /\ "STOP" \notin Posted
    BY <2>1 DEF CallInv
  <2>3. Posted' = Posted
    BY <2>1 DEF Posted
  <2> QED BY <2>1, <2>2, <2>3 DEF CallInv, Busy
<1>7. CASE Starts
  <2>1. /\ cpc = "start" /\ cpc' = "await" /\ pending' = pending \cup {"START"}
        /\ UNCHANGED <<cur_state, wpc, taken, acks>>
    BY <1>7 DEF Starts
  <2>2. cur_state = "IDLE" /\ "START" \notin Posted /\ "STOP" \notin Posted
    BY <2>1 DEF CallInv
  <2>3. Posted' = Posted \cup {"START"}
    BY <2>1 DEF Posted
  <2> QED BY <2>1, <2>2, <2>3 DEF CallInv, Busy, Posted
<1>8. CASE Started
  <2>1. /\ cpc = "await" /\ cpc' = "idle" /\ "START" \in acks /\ acks' = acks \ {"START"}
        /\ UNCHANGED <<cur_state, wpc, taken, pending>>
    BY <1>8 DEF Started, Waited
  <2>2. "STOP" \notin Posted /\ "START" \notin pending \cup taken
    BY <2>1 DEF CallInv
  <2>3. "STOP" \notin Posted' /\ "START" \notin Posted'
    BY <2>1, <2>2 DEF Posted
  <2>4. ~Busy \/ cur_state # "IDLE"
    BY <2>2 DEF CallInv
  <2> QED BY <2>1, <2>2, <2>3, <2>4 DEF CallInv, Busy, Posted
<1>9. CASE Pops
  BY <1>9 DEF Pops, CallInv, Busy, Posted
<1> QED BY <1>1, <1>2, <1>3, <1>4, <1>5, <1>6, <1>7, <1>8, <1>9 DEF CallerStep
-----------------------------------------------------------------------------
(* What the code's small functions make of a well-formed proc.             *)
LEMMA ProcKeeps ==
  ASSUME file \in File, NEW p, WellFormed(p), NEW r \in Results
  PROVE  /\ WellFormed(CloseClient(p)) /\ WellFormed(StopProc(p)) /\ WellFormed(With(p, r))
         /\ WellFormed(StartProc(p))
         /\ StartProc(p).err_conn = 0 /\ StartProc(p).err_recv = 0
<1>1. /\ CloseClient(p) \in Proc /\ StopProc(p) \in Proc /\ With(p, r) \in Proc
      /\ StartProc(p) \in Proc
  BY ProcTypes DEF WellFormed, Measurable
<1>2. DOMAIN p = {"last_error", "recv_buf", "http_opened", "err_conn", "err_recv", "is_range",
                  "range_forecast", "range_end", "close_if_rang_end", "redirect", "is_chunked",
                  "length_received", "total_length", "pre", "cur", "more", "recv_len", "read_pos"}
  BY DEF WellFormed, Measurable, Proc
<1>3. WellFormed(CloseClient(p))
  BY <1>1, <1>2 DEF WellFormed, Measurable, CloseClient
<1>4. WellFormed(StopProc(p))
  BY <1>1, <1>2 DEF WellFormed, Measurable, StopProc, CloseClient
<1>5. WellFormed(With(p, r))
  BY <1>1, <1>2 DEF WellFormed, Measurable, With
<1>6. /\ StartProc(p).err_conn = 0 /\ StartProc(p).err_recv = 0
      /\ StartProc(p).read_pos = p.read_pos /\ StartProc(p).recv_len = p.recv_len
  BY <1>2 DEF StartProc
<1>7. StartProc(p).length_received => p.pre > 0 /\ p.length_received
  BY <1>2 DEF StartProc
<1>8. p.pre > 0 => StartProc(p).total_length = p.total_length
  <2>1. StartProc(p).total_length = IF p.pre <= 0 THEN -1 ELSE p.total_length
    BY <1>2 DEF StartProc
  <2>2. p.pre \in Nat
    BY DEF WellFormed, Measurable, Proc
  <2> QED BY <2>1, <2>2
<1>9. WellFormed(StartProc(p))
  BY <1>1, <1>6, <1>7, <1>8 DEF WellFormed, Measurable
<1> QED BY <1>3, <1>4, <1>5, <1>6, <1>9

(* The size of the block that is read next: a whole one, or what is left.  *)
LEMMA BlockSize ==
  ASSUME NEW a, Sound(a), a.got < a.len,
         NEW more \in BOOLEAN, more <=> a.len - a.got >= Block,
         NEW n, n = IF more THEN Block ELSE a.len % Block
  PROVE  /\ n \in 1 .. Block /\ a.got + n <= a.len
         /\ ~more => a.got + n = a.len
         /\ Sound([a EXCEPT !.got = @ + n])
<1>1. a.len \in Nat /\ a.got \in Nat /\ a.got % Block = 0
  BY DEF Sound, Answer
<1>2. Block \in Nat /\ Block > 0
  BY Sizes
<1>3. CASE more
  <2>1. n = Block /\ a.got + n <= a.len
    BY <1>1, <1>2, <1>3
  <2>2. (a.got + n) % Block = 0
    <3> DEFINE k == a.got
    <3>1. k \in Nat /\ k % Block = 0
      BY <1>1
    <3> HIDE DEF k
    <3>2. (k + Block) % Block = 0
      BY <1>2, <3>1, NextMultiple
    <3> QED BY <2>1, <3>2 DEF k
  <2>3. Sound([a EXCEPT !.got = @ + n])
    BY <1>1, <1>2, <2>1, <2>2 DEF Sound, Answer
  <2> QED BY <1>2, <1>3, <2>1, <2>3
<1>4. CASE ~more
  <2>1. a.got <= a.len /\ a.len - a.got < Block
    BY <1>1, <1>2, <1>4 DEF Sound
  <2>2. n = a.len - a.got
    BY <1>1, <1>2, <1>4, <2>1, Remainder
  <2>3. n \in 1 .. Block /\ a.got + n = a.len /\ a.got + n <= a.len
    BY <1>1, <1>2, <2>1, <2>2
  <2>4. Sound([a EXCEPT !.got = @ + n])
    BY <1>1, <2>3 DEF Sound, Answer
  <2> QED BY <1>4, <2>3, <2>4
<1> QED BY <1>3, <1>4

(* Which unit of the file the block begins with, and how much of it is     *)
(* left when what the buffer has already is skipped.                       *)
LEMMA SkippedIs ==
  ASSUME NEW p, Measurable(p), p.recv_len > 0, p.cur <= p.pre
  PROVE  /\ WellFormed(Skipped(p))
         /\ \E skip \in 0 .. p.recv_len, cur \in Nat :
              /\ Skipped(p) = [p EXCEPT !.read_pos = skip, !.cur = cur]
              /\ p.is_range => skip = 0 /\ cur = p.pre
              /\ ~p.is_range => cur = p.cur + skip
              /\ skip < p.recv_len => cur = p.pre
              /\ cur <= p.pre
<1>1. p \in Proc /\ p.recv_len \in 1 .. Block /\ p.pre \in Nat /\ p.cur \in Nat /\ Block \in Nat
  BY Sizes DEF WellFormed, Measurable, Proc
<1>0. ASSUME NEW skip \in 0 .. p.recv_len, NEW cur \in Nat,
             Skipped(p) = [p EXCEPT !.read_pos = skip, !.cur = cur]
      PROVE  WellFormed(Skipped(p))
  <2> DEFINE q == Skipped(p)
  <2>1. skip \in 0 .. Block
    BY <1>0, <1>1
  <2>2. q \in Proc
    BY <1>0, <1>1, <2>1 DEF Proc
  <2>3. /\ q.read_pos = skip /\ q.recv_len = p.recv_len
        /\ q.length_received = p.length_received /\ q.total_length = p.total_length
    BY <1>0, <1>1 DEF Proc
  <2>4. q.read_pos <= q.recv_len
    BY <1>0, <1>1, <2>3
  <2>5. q.length_received => q.total_length # -1
    BY <2>3 DEF WellFormed, Measurable
  <2> HIDE DEF q
  <2>6. WellFormed(q)
    BY <2>2, <2>4, <2>5 DEF WellFormed, Measurable
  <2> QED BY <2>6 DEF q
<1>2. CASE p.is_range
  <2>1. Larger(p.cur, p.pre) = p.pre
    BY <1>1 DEF Larger
  <2>2. Skipped(p) = [p EXCEPT !.read_pos = 0, !.cur = p.pre]
    BY <1>2, <2>1 DEF Skipped
  <2>3. 0 \in 0 .. p.recv_len
    BY <1>1
  <2>4. WellFormed(Skipped(p))
    BY <1>0, <1>1, <2>2, <2>3
  <2>5. /\ p.is_range => 0 = 0 /\ p.pre = p.pre
        /\ ~p.is_range => p.pre = p.cur + 0
        /\ 0 < p.recv_len => p.pre = p.pre
        /\ p.pre <= p.pre /\ p.pre \in Nat
    BY <1>1, <1>2
  <2> QED BY <2>2, <2>3, <2>4, <2>5
<1>3. CASE ~p.is_range
  <2> DEFINE skip == Smaller(p.pre - p.cur, p.recv_len)
  <2>1. /\ skip \in 0 .. p.recv_len /\ p.cur + skip \in Nat /\ p.cur + skip <= p.pre
        /\ skip < p.recv_len => p.cur + skip = p.pre
    BY <1>1 DEF Smaller
  <2>2. Skipped(p) = [p EXCEPT !.read_pos = skip, !.cur = p.cur + skip]
    BY <1>3 DEF Skipped
  <2> HIDE DEF skip
  <2>3. WellFormed(Skipped(p))
    BY <1>0, <2>1, <2>2
  <2> QED BY <1>3, <2>1, <2>2, <2>3
<1> QED BY <1>2, <1>3

(* What is known of the length once a block has come.                      *)
LEMMA MeasuredIs ==
  ASSUME TypeOK, Sound(answer), NEW p, Measurable(p)
  PROVE  /\ Measurable(Measured(p))
         /\ \E chunked \in BOOLEAN, known \in BOOLEAN, total \in Nat \cup {-1} :
              /\ Measured(p) = [p EXCEPT !.is_chunked = chunked, !.length_received = known,
                                         !.total_length = total]
              /\ chunked \/ known
              /\ file.chunked /\ answer.kind = "file" => chunked /\ known = p.length_received
              /\ ~(file.chunked /\ answer.kind = "file") =>
                   /\ known /\ chunked = p.is_chunked
                   /\ total = IF p.length_received THEN p.total_length
                              ELSE IF p.is_range /\ answer.size > 0 THEN answer.size ELSE answer.len
<1>1. /\ p \in Proc /\ p.is_chunked \in BOOLEAN /\ p.length_received \in BOOLEAN
      /\ p.total_length \in Nat \cup {-1}
      /\ answer.len \in Nat /\ answer.size \in Nat
  BY DEF Measurable, Proc, Sound, Answer
<1>2. ASSUME NEW chunked \in BOOLEAN, NEW known \in BOOLEAN, NEW total \in Nat \cup {-1},
             known => total # -1,
             Measured(p) = [p EXCEPT !.is_chunked = chunked, !.length_received = known,
                                     !.total_length = total]
      PROVE  Measurable(Measured(p))
  <2> DEFINE q == Measured(p)
  <2>1. q \in Proc
    BY <1>1, <1>2 DEF Proc
  <2>2. q.length_received = known /\ q.total_length = total
    BY <1>1, <1>2 DEF Proc
  <2> HIDE DEF q
  <2>3. Measurable(q)
    BY <1>2, <2>1, <2>2 DEF Measurable
  <2> QED BY <2>3 DEF q
<1>3. CASE file.chunked /\ answer.kind = "file"
  <2>1. Measured(p) = [p EXCEPT !.is_chunked = TRUE, !.length_received = p.length_received,
                                !.total_length = answer.len]
    BY <1>1, <1>3 DEF Measured, Proc
  <2>2. p.length_received => answer.len # -1
    BY <1>1
  <2>3. Measurable(Measured(p))
    BY <1>1, <1>2, <2>1, <2>2
  <2> QED BY <1>1, <1>3, <2>1, <2>3
<1>4. CASE ~(file.chunked /\ answer.kind = "file")
  <2> DEFINE total == IF p.length_received THEN p.total_length
                      ELSE IF p.is_range /\ answer.size > 0 THEN answer.size ELSE answer.len
  <2>1. Measured(p) = [p EXCEPT !.is_chunked = p.is_chunked, !.length_received = TRUE,
                                !.total_length = total]
    <3>1. CASE p.length_received
      <4>1. Measured(p) = p
        BY <1>4, <3>1 DEF Measured
      <4>2. p = [p EXCEPT !.is_chunked = p.is_chunked, !.length_received = TRUE,
                          !.total_length = p.total_length]
        BY <1>1, <3>1 DEF Proc
      <4> QED BY <3>1, <4>1, <4>2
    <3>2. CASE ~p.length_received
      BY <1>1, <1>4, <3>2 DEF Measured, Proc
    <3> QED BY <3>1, <3>2
  <2>2. total \in Nat
    <3>1. p.length_received => p.total_length \in Nat
      BY <1>1 DEF Measurable
    <3> QED BY <1>1, <3>1
  <2>3. /\ (IF p.length_received THEN p.total_length
            ELSE IF p.is_range /\ answer.size > 0 THEN answer.size ELSE answer.len) = total
        /\ total # -1 /\ total \in Nat \cup {-1}
    BY <2>2
  <2> HIDE DEF total
  <2>4. Measurable(Measured(p))
    BY <1>1, <1>2, <2>1, <2>3
  <2> QED BY <1>1, <1>4, <2>1, <2>3, <2>4
<1> QED BY <1>3, <1>4

(* http_download_proc_recv with a block: what it knows of it.              *)
LEMMA BlockRead ==
  ASSUME TypeOK, CountInv, cur_state = "RECV", answer.got < answer.len, NEW p, p = NextBlock
  PROVE  /\ WellFormed(p)
         /\ p.recv_len \in 1 .. Block /\ answer.got + p.recv_len <= answer.len
         /\ ~p.more => answer.got + p.recv_len = answer.len
         /\ Sound([answer EXCEPT !.got = @ + p.recv_len])
         /\ p.is_range = IsRange /\ p.pre = proc.pre /\ p.http_opened = proc.http_opened
         /\ p.range_end = proc.range_end /\ p.range_forecast = proc.range_forecast
         /\ p.err_conn = proc.err_conn /\ p.err_recv = proc.err_recv
         /\ p.cur <= p.pre
         /\ IsRange => p.read_pos = 0
         /\ ~IsRange => p.cur = proc.cur + p.read_pos
         /\ p.read_pos < p.recv_len => p.cur = p.pre
         /\ p.is_chunked \/ p.length_received
         /\ file.chunked /\ answer.kind = "file" =>
              p.is_chunked /\ p.length_received = proc.length_received
         /\ ~(file.chunked /\ answer.kind = "file") =>
              /\ p.length_received /\ p.is_chunked = proc.is_chunked
              /\ p.total_length = IF proc.length_received THEN proc.total_length
                                  ELSE IF IsRange /\ answer.size > 0 THEN answer.size ELSE answer.len
<1> DEFINE more == answer.len - answer.got >= Block
           n == IF more THEN Block ELSE answer.len % Block
           isRange == IsRange
           b == [proc EXCEPT !.is_range = isRange, !.more = more, !.recv_len = n]
           m == Measured(b)
<1>1. p = Skipped(m)
  BY DEF NextBlock
<1>2. proc \in Proc /\ file \in File /\ answer \in Answer /\ Sound(answer) /\ proc.cur <= proc.pre
      /\ WellFormed(proc)
  BY Sizes DEF TypeOK, CountInv, Loads, Sound
<1>3. isRange \in BOOLEAN
  BY <1>2 DEF IsRange
<1>4. more \in BOOLEAN
  OBVIOUS
<1>5. /\ n \in 1 .. Block /\ answer.got + n <= answer.len
      /\ ~more => answer.got + n = answer.len
      /\ Sound([answer EXCEPT !.got = @ + n])
  BY <1>2, BlockSize
<1> HIDE DEF more, n, isRange
<1>6. /\ b \in Proc
      /\ b.is_range = isRange /\ b.more = more /\ b.recv_len = n /\ b.pre = proc.pre
      /\ b.cur = proc.cur /\ b.http_opened = proc.http_opened /\ b.range_end = proc.range_end
      /\ b.range_forecast = proc.range_forecast /\ b.err_conn = proc.err_conn
      /\ b.err_recv = proc.err_recv /\ b.is_chunked = proc.is_chunked
      /\ b.length_received = proc.length_received /\ b.total_length = proc.total_length
  <2>1. n \in 0 .. Block
    BY <1>5
  <2> QED BY <1>2, <1>3, <1>4, <2>1 DEF Proc
<1>7. Measurable(b)
  BY <1>2, <1>6 DEF WellFormed, Measurable
<1> HIDE DEF b
<1>8. PICK chunked \in BOOLEAN, known \in BOOLEAN, total \in Nat \cup {-1} :
        /\ m = [b EXCEPT !.is_chunked = chunked, !.length_received = known, !.total_length = total]
        /\ chunked \/ known
        /\ file.chunked /\ answer.kind = "file" => chunked /\ known = b.length_received
        /\ ~(file.chunked /\ answer.kind = "file") =>
             /\ known /\ chunked = b.is_chunked
             /\ total = IF b.length_received THEN b.total_length
                        ELSE IF b.is_range /\ answer.size > 0 THEN answer.size ELSE answer.len
  BY <1>2, <1>7, MeasuredIs
<1>9. Measurable(m)
  BY <1>2, <1>7, MeasuredIs
<1> HIDE DEF m
<1>10. /\ m.is_range = isRange /\ m.more = more /\ m.recv_len = n /\ m.pre = proc.pre
       /\ m.cur = proc.cur /\ m.http_opened = proc.http_opened /\ m.range_end = proc.range_end
       /\ m.range_forecast = proc.range_forecast /\ m.err_conn = proc.err_conn
       /\ m.err_recv = proc.err_recv
       /\ m.is_chunked = chunked /\ m.length_received = known /\ m.total_length = total
  BY <1>6, <1>8 DEF Proc
<1>11. m.recv_len > 0 /\ m.cur <= m.pre
  BY <1>2, <1>5, <1>10
<1>12. PICK skip \in 0 .. m.recv_len, cur \in Nat :
         /\ p = [m EXCEPT !.read_pos = skip, !.cur = cur]
         /\ m.is_range => skip = 0 /\ cur = m.pre
         /\ ~m.is_range => cur = m.cur + skip
         /\ skip < m.recv_len => cur = m.pre
         /\ cur <= m.pre
  BY <1>1, <1>9, <1>11, SkippedIs
<1>13. WellFormed(p)
  BY <1>1, <1>9, <1>11, SkippedIs
<1>14. /\ p.is_range = isRange /\ p.more = more /\ p.recv_len = n /\ p.pre = proc.pre
       /\ p.cur = cur /\ p.read_pos = skip /\ p.http_opened = proc.http_opened
       /\ p.range_end = proc.range_end /\ p.range_forecast = proc.range_forecast
       /\ p.err_conn = proc.err_conn /\ p.err_recv = proc.err_recv
       /\ p.is_chunked = chunked /\ p.length_received = known /\ p.total_length = total
  BY <1>9, <1>10, <1>12 DEF Measurable, Proc
<1>15. isRange = IsRange
  BY DEF isRange
<1>16. /\ p.cur <= p.pre
       /\ IsRange => p.read_pos = 0
       /\ ~IsRange => p.cur = proc.cur + p.read_pos
       /\ p.read_pos < p.recv_len => p.cur = p.pre
  BY <1>10, <1>12, <1>14, <1>15
<1>17. /\ p.is_chunked \/ p.length_received
       /\ file.chunked /\ answer.kind = "file" =>
            p.is_chunked /\ p.length_received = proc.length_received
       /\ ~(file.chunked /\ answer.kind = "file") =>
            /\ p.length_received /\ p.is_chunked = proc.is_chunked
            /\ p.total_length = IF proc.length_received THEN proc.total_length
                                ELSE IF IsRange /\ answer.size > 0 THEN answer.size ELSE answer.len
  BY <1>6, <1>8, <1>14, <1>15
<1> QED BY <1>5, <1>13, <1>14, <1>15, <1>16, <1>17
-----------------------------------------------------------------------------
Counted(p) == p.err_conn < MaxConn /\ p.err_recv < MaxRecv

(* A return leaves what is well formed, if the proc it leaves is.          *)
LEMMA ReturnKeepsTypes ==
  ASSUME TypeOK, NEW state \in States \cup {Hold}, NEW p, Returns(state, p), WellFormed(p),
         cur_state' \in {"RECV", "WAIT_FREE"} => p.cur <= p.pre,
         cur_state' # "IDLE" => Counted(p),
         UNCHANGED <<file, caller, buffer>>, url' \in {"none", "first", "moved", "garbled"},
         Sound(answer'), faults' \in 0 .. MaxFaults,
         received' \in Seq(Int), popped' \in 0 .. Len(received'),
         Len(received') - popped' <= Capacity, origin' \in Nat
  PROVE  TypeOK' /\ CountInv'
<1>1. /\ cur_state' \in States /\ wpc' = "wait" /\ proc' = p
      /\ taken' = {} /\ pending' = pending /\ acks' \subseteq HttpEvents
  BY Returned
<1>2. TypeOK'
  BY <1>1 DEF TypeOK, caller, WellFormed, Measurable, Sound
<1>3. ~Busy'
  BY <1>1 DEF Busy
<1>4. CountInv'
  BY <1>1, <1>3 DEF CountInv, Loads, WellFormed, Measurable, Sound, Counted
<1> QED BY <1>2, <1>4

(* So does an action that goes on.                                         *)
LEMMA MoveKeepsTypes ==
  ASSUME TypeOK, wpc' \in {"conn", "connect", "send"}, UNCHANGED <<cur_state, taken, bits>>,
         WellFormed(proc'), Loads => proc'.cur <= proc'.pre, Counted(proc'),
         UNCHANGED <<file, caller, buffer, data>>, url' \in {"none", "first", "moved", "garbled"},
         Sound(answer'), faults' \in 0 .. MaxFaults
  PROVE  TypeOK' /\ CountInv'
<1> USE DEF bits, data, caller
<1>1. TypeOK'
  BY DEF TypeOK, WellFormed, Measurable, Sound
<1>2. CountInv'
  BY DEF CountInv, Loads, WellFormed, Measurable, Sound, Counted
<1> QED BY <1>1, <1>2

(* The units of a block are a sequence of offsets.                         *)
LEMMA UnitsAre ==
  ASSUME NEW p \in Proc, NEW a \in Answer, NEW n \in Nat
  PROVE  /\ Units(p, a, n) \in Seq(Int) /\ Len(Units(p, a, n)) = n
         /\ a.kind = "file" =>
              \A i \in 1 .. n :
                Units(p, a, n)[i] = a.from + a.got - p.recv_len + p.read_pos + i - 1
<1>1. /\ a.from \in Nat /\ a.got \in Nat /\ p.recv_len \in Int /\ p.read_pos \in Int
  BY Sizes DEF Proc, Answer
<1>2. \A i \in 1 .. n :
        (IF a.kind = "file" THEN a.from + a.got - p.recv_len + p.read_pos + i - 1 ELSE -1) \in Int
  BY <1>1
<1>3. Units(p, a, n) \in [1 .. n -> Int]
  BY <1>2 DEF Units
<1>4. Units(p, a, n) \in Seq(Int)
  BY <1>3, SeqDef
<1>5. DOMAIN Units(p, a, n) = 1 .. n
  BY <1>3
<1>6. Len(Units(p, a, n)) = n
  BY <1>4, <1>5, LenProperties
<1>7. ASSUME a.kind = "file", NEW i \in 1 .. n
      PROVE  Units(p, a, n)[i] = a.from + a.got - p.recv_len + p.read_pos + i - 1
  BY <1>7 DEF Units
<1> QED BY <1>4, <1>6, <1>7

(* The fields that the small functions leave alone.                        *)
Same(p, q) ==
  /\ q.cur = p.cur /\ q.pre = p.pre /\ q.err_conn = p.err_conn /\ q.err_recv = p.err_recv
  /\ q.is_range = p.is_range /\ q.is_chunked = p.is_chunked /\ q.more = p.more
  /\ q.length_received = p.length_received /\ q.total_length = p.total_length
  /\ q.range_forecast = p.range_forecast /\ q.range_end = p.range_end
  /\ q.recv_len = p.recv_len /\ q.read_pos = p.read_pos

(* The counts alone.                                                       *)
Frame(p, q) ==
  /\ q.cur = p.cur /\ q.pre = p.pre /\ q.err_conn = p.err_conn /\ q.err_recv = p.err_recv
  /\ q.length_received = p.length_received /\ q.total_length = p.total_length
  /\ q.recv_len = p.recv_len /\ q.read_pos = p.read_pos

(* The small functions change the result, the connection and the buffer.   *)
LEMMA SmallFields ==
  ASSUME NEW p \in Proc, NEW r \in Results
  PROVE  /\ Same(p, With(p, r)) /\ Same(p, CloseClient(p)) /\ Same(p, StopProc(p))
         /\ With(p, r).last_error = r
         /\ CloseClient(p).last_error = p.last_error
         /\ StopProc(p).last_error = p.last_error
<1>1. Same(p, With(p, r)) /\ With(p, r).last_error = r
  BY DEF Same, With, Proc
<1>2. Same(p, CloseClient(p)) /\ CloseClient(p).last_error = p.last_error
  BY DEF Same, CloseClient, Proc
<1>3. Same(p, StopProc(p)) /\ StopProc(p).last_error = p.last_error
  BY DEF Same, StopProc, CloseClient, Proc
<1> QED BY <1>1, <1>2, <1>3

(* A proc that may go on still may when only those fields differ.          *)
GoodProc(p) == WellFormed(p) /\ p.cur <= p.pre /\ Counted(p)

(* The small functions keep a proc that may go on.                         *)
LEMMA SmallKeep ==
  ASSUME file \in File, NEW p, GoodProc(p), NEW r \in Results
  PROVE  GoodProc(With(p, r)) /\ GoodProc(CloseClient(p)) /\ GoodProc(StopProc(p))
<1>1. p \in Proc
  BY DEF GoodProc, WellFormed, Measurable
<1>2. WellFormed(With(p, r)) /\ WellFormed(CloseClient(p)) /\ WellFormed(StopProc(p))
  BY ProcKeeps DEF GoodProc
<1>3. Same(p, With(p, r)) /\ Same(p, CloseClient(p)) /\ Same(p, StopProc(p))
  BY <1>1, SmallFields
<1>4. ASSUME NEW q, Same(p, q) PROVE q.cur <= q.pre /\ Counted(q)
  BY <1>4 DEF Same, GoodProc, Counted
<1> QED BY <1>2, <1>3, <1>4 DEF GoodProc

(* What is pushed is a part of the buffer's room.                          *)
LEMMA PushIs ==
  ASSUME TypeOK, NEW p, WellFormed(p), NEW a, Push(p, a)
  PROVE  LET len == p.recv_len - p.read_pos
             pushed == [p EXCEPT !.pre = @ + len, !.cur = @ + len, !.read_pos = @ + len]
             result == PushResult(pushed)
             q == With(pushed, result)
         IN  /\ len \in 0 .. Block
             /\ \/ /\ GetFreeCount < len
                   /\ Returns("WAIT_FREE", With(p, "ERR_BUF_TOO_SMALL")) /\ UNCHANGED data
                \/ /\ len <= GetFreeCount
                   /\ \E n \in 0 .. len : /\ "alloc" \notin Trouble => n = len
                                          /\ received' = received \o Units(p, a, n)
                   /\ UNCHANGED <<popped, origin>>
                   /\ \/ result = "SUCCESS" /\ Returns("RECV", q)
                      \/ result = "RANGE_END" /\ \E c \in {q, CloseClient(q)} : Returns("WAIT_RANGE", c)
                      \/ result = "ALL_END" /\ Returns("IDLE", StopProc(q))
<1> DEFINE len == p.recv_len - p.read_pos
           pushed == [p EXCEPT !.pre = @ + len, !.cur = @ + len, !.read_pos = @ + len]
           result == PushResult(pushed)
           q == With(pushed, result)
<1>1. len \in 0 .. Block
  BY Sizes DEF WellFormed, Measurable, Proc
<1>2. result \in {"SUCCESS", "RANGE_END", "ALL_END"}
  BY DEF PushResult
<1>3. GetFreeCount \in Int
  BY Sizes DEF TypeOK, GetFreeCount, GetCount
<1>4. \/ /\ GetFreeCount < len
         /\ Returns("WAIT_FREE", With(p, "ERR_BUF_TOO_SMALL")) /\ UNCHANGED data
      \/ /\ ~(GetFreeCount < len)
         /\ \E n \in IF "alloc" \in Trouble THEN 0 .. len ELSE {len} :
              received' = received \o Units(p, a, n)
         /\ CASE result = "SUCCESS"   -> Returns("RECV", q)
              [] result = "RANGE_END" ->
                   Returns("WAIT_RANGE", IF q.close_if_rang_end THEN CloseClient(q) ELSE q)
              [] OTHER                -> Returns("IDLE", StopProc(q))
         /\ UNCHANGED <<popped, origin>>
  BY DEF Push
<1> HIDE DEF result, q, len
<1>5. ASSUME NEW n \in IF "alloc" \in Trouble THEN 0 .. len ELSE {len}
      PROVE  n \in 0 .. len /\ ("alloc" \notin Trouble => n = len)
  BY <1>1, <1>5
<1>6. CASE GetFreeCount < len /\ Returns("WAIT_FREE", With(p, "ERR_BUF_TOO_SMALL")) /\ UNCHANGED data
  BY <1>1, <1>6 DEF len
<1>7. CASE ~(GetFreeCount < len)
  <2>1. len <= GetFreeCount
    BY <1>1, <1>3, <1>7
  <2>2. \E n \in 0 .. len : ("alloc" \notin Trouble => n = len) /\ received' = received \o Units(p, a, n)
    BY <1>4, <1>5, <1>7
  <2>3. UNCHANGED <<popped, origin>>
    BY <1>4, <1>7
  <2>4. \/ result = "SUCCESS" /\ Returns("RECV", q)
        \/ result = "RANGE_END" /\ \E c \in {q, CloseClient(q)} : Returns("WAIT_RANGE", c)
        \/ result = "ALL_END" /\ Returns("IDLE", StopProc(q))
    BY <1>2, <1>4, <1>7
  <2> QED BY <1>1, <2>1, <2>2, <2>3, <2>4 DEF len, result, q
<1> QED BY <1>4, <1>6, <1>7

(* http_download_proc_push_action keeps the types and the counts.          *)
LEMMA PushKeepsTypes ==
  ASSUME TypeOK, NEW p, GoodProc(p), NEW a, Sound(a), Push(p, a),
         UNCHANGED <<file, shared, caller, faults>>, Sound(answer')
  PROVE  TypeOK' /\ CountInv'
<1> DEFINE len == p.recv_len - p.read_pos
           pushed == [p EXCEPT !.pre = @ + len, !.cur = @ + len, !.read_pos = @ + len]
           result == PushResult(pushed)
           q == With(pushed, result)
<1>0. UNCHANGED <<file, url, buffer, cpc, op, calls, faults>>
  BY DEF shared, caller
<1>1. GoodProc(pushed)
  <2>1. len \in 0 .. Block /\ p.recv_len \in 0 .. Block /\ p.read_pos + len = p.recv_len
    BY Sizes DEF GoodProc, WellFormed, Measurable, Proc
  <2> HIDE DEF len
  <2>2. p.cur \in Nat /\ p.pre \in Nat /\ p \in Proc /\ len \in Nat
    BY <2>1 DEF GoodProc, WellFormed, Measurable, Proc
  <2>3. pushed = [p EXCEPT !.pre = p.pre + len, !.cur = p.cur + len, !.read_pos = p.recv_len]
    BY <2>1
  <2>4. p.pre + len \in Nat /\ p.cur + len \in Nat /\ p.cur + len <= p.pre + len
    BY <2>2 DEF GoodProc
  <2> HIDE DEF pushed
  <2>5. pushed \in Proc
    BY <2>1, <2>2, <2>3, <2>4 DEF Proc
  <2>6. /\ pushed.cur = p.cur + len /\ pushed.pre = p.pre + len
        /\ pushed.read_pos = p.recv_len /\ pushed.recv_len = p.recv_len
        /\ pushed.err_conn = p.err_conn /\ pushed.err_recv = p.err_recv
        /\ pushed.length_received = p.length_received /\ pushed.total_length = p.total_length
    BY <2>2, <2>3 DEF Proc
  <2>7. pushed.cur <= pushed.pre /\ Counted(pushed) /\ pushed.read_pos <= pushed.recv_len
    BY <2>1, <2>4, <2>6 DEF Counted, GoodProc
  <2> QED BY <2>5, <2>6, <2>7 DEF GoodProc, WellFormed, Measurable
<1>2. result \in Results /\ "ERR_BUF_TOO_SMALL" \in Results /\ file \in File
  BY Sizes DEF PushResult, Results, TypeOK
<1> HIDE DEF pushed, result
<1>3. GoodProc(q)
  BY <1>1, <1>2, SmallKeep
<1> HIDE DEF q
<1>4. GoodProc(StopProc(q)) /\ GoodProc(CloseClient(q))
  BY <1>2, <1>3, SmallKeep
<1>6. GoodProc(With(p, "ERR_BUF_TOO_SMALL"))
  BY <1>2, SmallKeep
<1>7. /\ len \in 0 .. Block
      /\ \/ Returns("WAIT_FREE", With(p, "ERR_BUF_TOO_SMALL")) /\ UNCHANGED data
         \/ /\ len <= GetFreeCount
            /\ \E n \in 0 .. len : received' = received \o Units(p, a, n)
            /\ UNCHANGED <<popped, origin>>
            /\ \/ result = "SUCCESS" /\ Returns("RECV", q)
               \/ result = "RANGE_END" /\ \E c \in {q, CloseClient(q)} : Returns("WAIT_RANGE", c)
               \/ result = "ALL_END" /\ Returns("IDLE", StopProc(q))
  BY PushIs DEF q, result, pushed, GoodProc
<1>8. CASE Returns("WAIT_FREE", With(p, "ERR_BUF_TOO_SMALL")) /\ UNCHANGED data
  <2>1. /\ received' \in Seq(Int) /\ popped' \in 0 .. Len(received')
        /\ Len(received') - popped' <= Capacity /\ origin' \in Nat
        /\ url' \in {"none", "first", "moved", "garbled"} /\ faults' \in 0 .. MaxFaults
    BY <1>0, <1>8 DEF data, TypeOK
  <2>2. "WAIT_FREE" \in States \cup {Hold}
    BY DEF States
  <2> QED BY <1>0, <1>6, <1>8, <2>1, <2>2, ReturnKeepsTypes DEF caller, GoodProc
<1>9. CASE /\ len <= GetFreeCount
           /\ \E n \in 0 .. len : received' = received \o Units(p, a, n)
           /\ UNCHANGED <<popped, origin>>
           /\ \/ result = "SUCCESS" /\ Returns("RECV", q)
              \/ result = "RANGE_END" /\ \E c \in {q, CloseClient(q)} : Returns("WAIT_RANGE", c)
              \/ result = "ALL_END" /\ Returns("IDLE", StopProc(q))
  <2>1. PICK n \in 0 .. len : received' = received \o Units(p, a, n)
    BY <1>9
  <2>2. n \in Nat /\ n <= len /\ len \in Nat
    BY <1>7
  <2>3. Units(p, a, n) \in Seq(Int) /\ Len(Units(p, a, n)) = n
    BY <2>2, UnitsAre DEF GoodProc, WellFormed, Measurable, Sound
  <2>4. received' \in Seq(Int) /\ Len(received') = Len(received) + n
    <3> DEFINE u == Units(p, a, n)
    <3>1. u \in Seq(Int) /\ Len(u) = n /\ received' = received \o u
      BY <2>1, <2>3
    <3>2. received \in Seq(Int)
      BY DEF TypeOK
    <3> HIDE DEF u
    <3> QED BY <3>1, <3>2, ConcatProperties
  <2>5. Len(received) \in Nat /\ popped \in 0 .. Len(received) /\ popped' = popped
        /\ len <= Capacity - (Len(received) - popped) /\ Capacity \in Nat
    BY <1>9, Sizes, LenProperties DEF TypeOK, GetFreeCount, GetCount
  <2>6. popped' \in 0 .. Len(received') /\ Len(received') - popped' <= Capacity
    BY <2>2, <2>4, <2>5
  <2>7. /\ origin' \in Nat
        /\ url' \in {"none", "first", "moved", "garbled"} /\ faults' \in 0 .. MaxFaults
    BY <1>0, <1>9 DEF TypeOK
  <2>8. {"RECV", "WAIT_RANGE", "IDLE"} \subseteq States \cup {Hold} /\ Hold # "IDLE"
    BY DEF States, Hold
  <2>9. CASE Returns("RECV", q)
    BY <1>0, <1>3, <2>4, <2>6, <2>7, <2>8, <2>9, ReturnKeepsTypes DEF caller, GoodProc
  <2>10. ASSUME NEW c \in {q, CloseClient(q)}, Returns("WAIT_RANGE", c) PROVE TypeOK' /\ CountInv'
    BY <1>0, <1>3, <1>4, <2>4, <2>6, <2>7, <2>8, <2>10, ReturnKeepsTypes DEF caller, GoodProc
  <2>11. CASE Returns("IDLE", StopProc(q))
    <3>1. cur_state' = "IDLE"
      BY <2>8, <2>11 DEF Returns
    <3> QED BY <1>0, <1>4, <2>4, <2>6, <2>7, <2>8, <2>11, <3>1, ReturnKeepsTypes DEF caller, GoodProc
  <2> QED BY <1>9, <2>9, <2>10, <2>11
<1> QED BY <1>7, <1>8, <1>9

(* The two ways in which a connection is left behind.                      *)
LEMMA ClosedKeeps ==
  ASSUME file \in File, NEW p, WellFormed(p), NEW r \in Results
  PROVE  /\ WellFormed(With(p, r)) /\ Same(p, With(p, r)) /\ With(p, r).last_error = r
         /\ With(p, r).http_opened = p.http_opened
         /\ WellFormed(CloseClient(With(p, r))) /\ Same(p, CloseClient(With(p, r)))
         /\ CloseClient(With(p, r)).last_error = r
         /\ WellFormed(StopProc(With(p, r))) /\ Same(p, StopProc(With(p, r)))
         /\ StopProc(With(p, r)).last_error = r
<1> DEFINE w == With(p, r)
<1>1. p \in Proc
  BY DEF WellFormed, Measurable
<1>2. WellFormed(w) /\ Same(p, w) /\ w.last_error = r /\ w.http_opened = p.http_opened
  <2>1. WellFormed(w)
    BY ProcKeeps
  <2>2. Same(p, w)
    BY <1>1, SmallFields
  <2>4. w.last_error = r
    BY <1>1 DEF With, Proc
  <2>3. w.http_opened = p.http_opened
    BY <1>1 DEF With, Proc
  <2> QED BY <2>1, <2>2, <2>3, <2>4
<1> HIDE DEF w
<1>3. w \in Proc
  BY <1>2 DEF WellFormed, Measurable
<1>4. WellFormed(CloseClient(w)) /\ WellFormed(StopProc(w))
  BY <1>2, ProcKeeps
<1>5. /\ Same(w, CloseClient(w)) /\ Same(w, StopProc(w))
      /\ CloseClient(w).last_error = r /\ StopProc(w).last_error = r
  BY <1>2, <1>3, SmallFields
<1>6. Same(p, CloseClient(w)) /\ Same(p, StopProc(w))
  BY <1>2, <1>5 DEF Same
<1> QED BY <1>2, <1>4, <1>5, <1>6 DEF w

(* The end of the range that is asked for.                                 *)
LEMMA RangeEndIs ==
  ASSUME TypeOK, CountInv, NEW end, end = IF file.ask THEN proc.pre + RangeCount ELSE proc.range_end
  PROVE  /\ end \in Nat
         /\ file.ask /\ (proc.length_received \/ proc.range_forecast) =>
              end - proc.pre <= GetFreeCount
         /\ file.ask /\ proc.length_received =>
              end = proc.pre + GetFreeCount \/ end = proc.total_length
         /\ file.ask /\ ~proc.length_received /\ proc.range_forecast => end = proc.pre + GetFreeCount
<1>1. /\ proc.pre \in Nat /\ proc.range_end \in Nat /\ proc.total_length \in Nat \cup {-1}
      /\ proc.length_received => proc.total_length \in Nat
  BY DEF TypeOK, CountInv, WellFormed, Measurable, Proc
<1>2. GetFreeCount \in Nat
  BY Sizes, LenProperties DEF TypeOK, GetFreeCount, GetCount
<1>3. CASE ~file.ask
  BY <1>1, <1>3
<1>4. CASE file.ask /\ proc.length_received
  <2>1. end = proc.pre + Smaller(GetFreeCount, proc.total_length - proc.pre)
    BY <1>4 DEF RangeCount
  <2>2. /\ Smaller(GetFreeCount, proc.total_length - proc.pre) <= GetFreeCount
        /\ \/ Smaller(GetFreeCount, proc.total_length - proc.pre) = GetFreeCount
           \/ Smaller(GetFreeCount, proc.total_length - proc.pre) = proc.total_length - proc.pre
    BY <1>1, <1>2, <1>4 DEF Smaller
  <2> QED BY <1>1, <1>2, <1>4, <2>1, <2>2
<1>5. CASE file.ask /\ ~proc.length_received /\ proc.range_forecast
  BY <1>1, <1>2, <1>5 DEF RangeCount
<1>6. CASE file.ask /\ ~proc.length_received /\ ~proc.range_forecast
  BY <1>1, <1>2, <1>6, Sizes DEF RangeCount
<1> QED BY <1>3, <1>4, <1>5, <1>6

(* An error page has nothing of the file.                                  *)
LEMMA ErrorPageIs ==
  ASSUME NEW a \in ErrorPages
  PROVE  \E len \in {0, 1} :
           /\ a = [kind |-> "error", from |-> 0, len |-> len, got |-> 0, ranged |-> FALSE, size |-> 0]
           /\ len = 0 \/ "error_body" \in Trouble
<1> DEFINE lens == IF "error_body" \in Trouble THEN {0, 1} ELSE {0}
<1>1. a \in [kind : {"error"}, from : {0}, len : lens, got : {0}, ranged : {FALSE}, size : {0}]
  BY DEF ErrorPages
<1>2. a.len \in {0, 1} /\ (a.len = 0 \/ "error_body" \in Trouble)
  BY <1>1
<1> HIDE DEF lens
<1>3. a = [kind |-> "error", from |-> 0, len |-> a.len, got |-> 0, ranged |-> FALSE, size |-> 0]
  BY <1>1
<1> QED BY <1>2, <1>3

(* What the server may answer.                                             *)
LEMMA AnswersAreSound ==
  ASSUME file \in File, NEW first \in Nat, NEW last \in Int, NEW a \in Answers(first, last) \cup ErrorPages
  PROVE  Sound(a) /\ a.got = 0
<1>1. /\ file.len \in Nat /\ file.len > 0 /\ file.ranges \in BOOLEAN
      /\ Block \in Nat /\ Block > 0
  BY Sizes DEF File
<1>2. 0 % Block = 0
  BY <1>1, Multiple
<1>3. ASSUME a \in ErrorPages PROVE Sound(a) /\ a.got = 0
  <2>1. PICK len \in {0, 1} :
          a = [kind |-> "error", from |-> 0, len |-> len, got |-> 0, ranged |-> FALSE, size |-> 0]
    BY <1>3, ErrorPageIs
  <2>2. a \in Answer /\ a.got = 0 /\ a.len \in Nat
    BY <2>1 DEF Answer
  <2> QED BY <1>2, <2>2 DEF Sound
<1>4. Sound(WholeFile) /\ WholeFile.got = 0
  BY <1>1, <1>2 DEF WholeFile, Sound, Answer
<1>5. LET m == [NoAnswer EXCEPT !.kind = "moved"] IN Sound(m) /\ m.got = 0
  <2> DEFINE m == [NoAnswer EXCEPT !.kind = "moved"]
  <2>1. NoAnswer \in Answer /\ NoAnswer.got = 0 /\ NoAnswer.len = 0
    BY DEF NoAnswer, Answer
  <2>2. m \in Answer /\ m.got = 0 /\ m.len = 0
    BY <2>1 DEF Answer
  <2> HIDE DEF m
  <2>3. Sound(m) /\ m.got = 0
    BY <2>2 DEF Sound
  <2> QED BY <2>3 DEF m
<1>6. ASSUME ~(first >= file.len), ~(0 < last /\ last < first),
             a = [kind |-> "file", from |-> first, got |-> 0, ranged |-> TRUE, size |-> file.len,
                  len |-> (IF last > 0 THEN Smaller(last + 1, file.len) ELSE file.len) - first]
      PROVE  Sound(a) /\ a.got = 0
  <2>1. (IF last > 0 THEN Smaller(last + 1, file.len) ELSE file.len) - first \in Nat
    BY <1>1, <1>6 DEF Smaller
  <2> QED BY <1>1, <1>2, <1>6, <2>1 DEF Sound, Answer
<1> QED BY <1>3, <1>4, <1>5, <1>6 DEF Answers

(* The worker's steps keep the types.                                      *)
LEMMA WorkKeepsTypes ==
  ASSUME TypeOK, CallInv, CountInv
  PROVE  Work => TypeOK' /\ CountInv'
<1> DEFINE Urls == {"none", "first", "moved", "garbled"}
<1>1. file \in File /\ WellFormed(proc) /\ proc \in Proc /\ Sound(answer) /\ cur_state \in States
  BY Sizes DEF TypeOK, CountInv
<1>2. Sound(NoAnswer)
  BY DEF Sound, NoAnswer, Answer
<1>3. /\ received \in Seq(Int) /\ popped \in 0 .. Len(received)
      /\ Len(received) - popped <= Capacity /\ origin \in Nat /\ url \in Urls
      /\ faults \in 0 .. MaxFaults
  BY DEF TypeOK
<1>4. Fails => faults' \in 0 .. MaxFaults
  BY <1>3, Sizes DEF Fails
<1>5. {Hold, "IDLE", "RECV", "PAUSE", "WAIT_FREE", "WAIT_RANGE"} \subseteq States \cup {Hold}
  BY DEF States
<1>6. {"SUCCESS", "ERR_PARAM", "ERR_MALLOC", "ERR_CONN", "ERR_TRY_CONN", "ERR_SEND", "ERR_RECV", "REDIRECT",
       "ERR_RECV_SKIP", "ERR_RESPONSE", "ERR_BUF_TOO_SMALL", "ERR_TRY_RECV"} \subseteq Results
  BY DEF Results
<1>7. /\ wpc \in {"conn", "connect", "send"} => Counted(proc)
      /\ cur_state # "IDLE" => Counted(proc)
  BY DEF CountInv, Counted, Busy
<1>8. ASSUME NEW state \in {Hold, "IDLE", "RECV", "PAUSE", "WAIT_FREE", "WAIT_RANGE"}, NEW p,
             Returns(state, p), WellFormed(p),
             \/ state \in {"IDLE", "PAUSE", "WAIT_RANGE"}
             \/ state = Hold /\ ~Loads
             \/ p.cur <= p.pre,
             state = "IDLE" \/ (state = Hold /\ cur_state = "IDLE") \/ Counted(p),
             UNCHANGED <<file, data, caller, shared>>, Sound(answer'), faults' \in 0 .. MaxFaults
      PROVE  TypeOK' /\ CountInv'
  <2>1. cur_state' = IF state = Hold THEN cur_state ELSE state
    BY <1>8 DEF Returns
  <2>2. cur_state' \in {"RECV", "WAIT_FREE"} => p.cur <= p.pre
    BY <1>8, <2>1 DEF Loads, Hold
  <2>3. cur_state' # "IDLE" => Counted(p)
    BY <1>8, <2>1 DEF Hold
  <2>4. UNCHANGED <<file, caller, buffer, received, popped, origin, url>>
    BY <1>8 DEF data, shared
  <2> QED BY <1>3, <1>5, <1>8, <2>2, <2>3, <2>4, ReturnKeepsTypes
<1>9. ASSUME NEW p, GoesOn(p), WellFormed(p), Loads => p.cur <= p.pre, Counted(p),
             UNCHANGED <<file, caller, buffer, data>>, url' \in Urls, Sound(answer'),
             faults' \in 0 .. MaxFaults
      PROVE  TypeOK' /\ CountInv'
  <2>1. wpc' = "conn" /\ proc' = p /\ UNCHANGED <<cur_state, taken, bits>>
    BY <1>9 DEF GoesOn
  <2> QED BY <1>9, <2>1, MoveKeepsTypes
<1>10. CASE Takes
  <2>1. /\ wpc' = "handle" /\ taken' = pending /\ pending' = {}
        /\ UNCHANGED <<file, cur_state, proc, acks, url, buffer, answer, data, caller, faults>>
    BY <1>10 DEF Takes, shared
  <2> QED BY <2>1 DEF TypeOK, CountInv, Loads, Busy, data, caller
<1>11. /\ UNCHANGED url => url' \in Urls
       /\ UNCHANGED faults => faults' \in 0 .. MaxFaults
       /\ UNCHANGED answer => Sound(answer')
       /\ answer' = NoAnswer => Sound(answer')
       /\ \A a : Sound(a) /\ Keep(a) => Sound(answer')
  BY <1>1, <1>2, <1>3 DEF Keep
<1>12. /\ Handles({{"START"}}) => cur_state = "IDLE"
       /\ Handles({{"PAUSE"}}) \/ Handles({{"RESUME"}}) \/ Handles({{}}) => cur_state # "IDLE"
       /\ Handles({{"RESUME"}}) => cur_state = "PAUSE"
  BY <1>1, Handled
<1>13. \A r \in Results :
         /\ WellFormed(With(proc, r)) /\ WellFormed(CloseClient(With(proc, r)))
         /\ WellFormed(StopProc(With(proc, r)))
         /\ Same(proc, With(proc, r)) /\ Same(proc, CloseClient(With(proc, r)))
  BY <1>1, ClosedKeeps
<1>14. WellFormed(CloseClient(proc)) /\ Same(proc, CloseClient(proc)) /\ WellFormed(StartProc(proc))
       /\ Counted(StartProc(proc))
  <2>1. Counted(StartProc(proc))
    BY <1>1, <1>6, ProcKeeps, Sizes DEF Counted
  <2> QED BY <1>1, <1>6, <2>1, ProcKeeps, SmallFields
<1>15. ASSUME NEW p, Same(proc, p)
       PROVE  (Loads => p.cur <= p.pre) /\ (Counted(proc) => Counted(p))
  BY <1>15 DEF Same, Counted, CountInv
<1>16. CASE HandlesEvent
  <2>0. UNCHANGED <<file, shared, answer, data, caller, faults>>
    BY <1>16 DEF HandlesEvent
  <2>1. /\ UNCHANGED <<file, caller, buffer, data>> /\ url' \in Urls /\ Sound(answer')
        /\ faults' \in 0 .. MaxFaults
    BY <1>11, <2>0 DEF shared
  <2>2. CASE Handles({}) /\ Returns(Hold, proc)
    BY <1>1, <1>7, <1>8, <2>0, <2>1, <2>2 DEF CountInv
  <2>3. CASE Handles({{"START"}}) /\ GoesOn(StartProc(proc))
    BY <1>9, <1>12, <1>14, <2>1, <2>3 DEF Loads
  <2>4. CASE Handles({{"STOP"}}) /\ Returns("IDLE", StopProc(With(proc, "SUCCESS")))
    BY <1>6, <1>8, <1>13, <2>0, <2>1, <2>4
  <2>5. CASE Handles({{"PAUSE"}}) /\ Returns("PAUSE", CloseClient(proc))
    BY <1>7, <1>8, <1>12, <1>14, <1>15, <2>0, <2>1, <2>5
  <2>6. CASE Handles({{"RESUME"}}) /\ GoesOn(proc)
    BY <1>1, <1>7, <1>9, <1>12, <2>1, <2>6 DEF CountInv
  <2> QED BY <1>16, <2>2, <2>3, <2>4, <2>5, <2>6 DEF HandlesEvent
<1>17. CASE StartFails
  <2>1. /\ Returns(Hold, StopProc(With(proc, "ERR_MALLOC"))) /\ cur_state = "IDLE"
        /\ UNCHANGED <<file, data, caller, shared>> /\ Sound(answer') /\ faults' \in 0 .. MaxFaults
    BY <1>4, <1>11, <1>12, <1>17 DEF StartFails
  <2> QED BY <1>6, <1>8, <1>13, <2>1 DEF Loads
<1>18. CASE Conn
  <2>1. UNCHANGED <<file, data, caller, shared>> /\ Sound(answer') /\ faults' \in 0 .. MaxFaults
    BY <1>1, <1>11, <1>18 DEF Conn
  <2>2. CASE Returns("IDLE", StopProc(With(proc, "ERR_PARAM")))
    BY <1>6, <1>8, <1>13, <2>1, <2>2
  <2>3. CASE /\ wpc' = IF proc.http_opened THEN "send" ELSE "connect"
             /\ UNCHANGED <<cur_state, proc, taken, bits>>
    <3>1. /\ wpc' \in {"conn", "connect", "send"} /\ Counted(proc') /\ WellFormed(proc')
          /\ Loads => proc'.cur <= proc'.pre
      BY <1>1, <1>7, <1>18, <2>3 DEF Conn, CountInv
    <3>2. UNCHANGED <<file, caller, buffer, data>> /\ url' \in Urls
      BY <1>11, <2>1 DEF shared
    <3> QED BY <2>1, <2>3, <3>1, <3>2, MoveKeepsTypes
  <2> QED BY <1>18, <2>2, <2>3 DEF Conn
<1>19. CASE Connects
  <2>1. /\ wpc = "connect" /\ wpc' = "send" /\ proc' = [proc EXCEPT !.http_opened = TRUE, !.err_conn = 0]
        /\ UNCHANGED <<cur_state, taken, bits, file, caller, buffer, data>>
        /\ url' \in Urls /\ Sound(answer') /\ faults' \in 0 .. MaxFaults
    BY <1>11, <1>19 DEF Connects, shared
  <2>2. proc' \in Proc
    <3>1. 0 \in 0 .. MaxConn
      BY Sizes
    <3>2. proc \in Proc
      BY <1>1
    <3> QED BY <2>1, <3>1, <3>2 DEF Proc
  <2>3. /\ proc'.cur = proc.cur /\ proc'.pre = proc.pre /\ proc'.err_conn = 0
        /\ proc'.err_recv = proc.err_recv /\ proc'.length_received = proc.length_received
        /\ proc'.total_length = proc.total_length
        /\ proc'.read_pos = proc.read_pos /\ proc'.recv_len = proc.recv_len
    BY <1>1, <2>1 DEF Proc
  <2>4. WellFormed(proc') /\ Counted(proc')
    BY <1>1, <1>7, <2>1, <2>2, <2>3, Sizes DEF WellFormed, Measurable, Counted
  <2>5. Loads => proc'.cur <= proc'.pre
    BY <2>3 DEF CountInv
  <2>6. wpc' \in {"conn", "connect", "send"}
    BY <2>1
  <2> QED BY <2>1, <2>4, <2>5, <2>6, MoveKeepsTypes
<1>20. CASE ConnectFails
  <2> DEFINE p == [proc EXCEPT !.err_conn = @ + 1]
  <2>1. /\ wpc = "connect"
        /\ UNCHANGED <<file, data, caller, shared>> /\ Sound(answer') /\ faults' \in 0 .. MaxFaults
        /\ IF p.err_conn >= MaxConn
           THEN Returns("IDLE", StopProc(With(p, "ERR_TRY_CONN")))
           ELSE Returns(Hold, CloseClient(With(p, "ERR_CONN")))
    BY <1>4, <1>11, <1>20 DEF ConnectFails
  <2>2. proc.err_conn \in Nat /\ proc.err_conn + 1 <= MaxConn /\ MaxConn \in Nat
    BY <1>1, <1>7, <2>1, Sizes DEF Counted, Proc
  <2>3. p \in Proc
    BY <1>1, <2>2 DEF Proc
  <2>4. /\ p.cur = proc.cur /\ p.pre = proc.pre /\ p.err_conn = proc.err_conn + 1
        /\ p.err_recv = proc.err_recv /\ p.length_received = proc.length_received
        /\ p.total_length = proc.total_length
        /\ p.read_pos = proc.read_pos /\ p.recv_len = proc.recv_len
    BY <1>1 DEF Proc
  <2> HIDE DEF p
  <2>5. WellFormed(p)
    BY <1>1, <2>3, <2>4 DEF WellFormed, Measurable
  <2>6. /\ WellFormed(StopProc(With(p, "ERR_TRY_CONN"))) /\ WellFormed(CloseClient(With(p, "ERR_CONN")))
        /\ Same(p, CloseClient(With(p, "ERR_CONN")))
    BY <1>1, <1>6, <2>5, ClosedKeeps
  <2>7. CASE p.err_conn >= MaxConn
    BY <1>8, <2>1, <2>6, <2>7
  <2>8. CASE ~(p.err_conn >= MaxConn)
    <3> DEFINE c == CloseClient(With(p, "ERR_CONN"))
    <3>1. Counted(c)
      BY <1>7, <2>1, <2>2, <2>4, <2>6, <2>8 DEF Counted, Same
    <3>2. Loads => c.cur <= c.pre
      BY <2>4, <2>6 DEF CountInv, Same
    <3>3. Returns(Hold, c) /\ WellFormed(c)
      BY <2>1, <2>6, <2>8
    <3> HIDE DEF c
    <3> QED BY <1>8, <2>1, <3>1, <3>2, <3>3
  <2> QED BY <2>7, <2>8
<1>21. ASSUME NEW p, WellFormed(p), Same(proc, p), NEW c, NEW m, NEW e \in Nat,
              c = [p EXCEPT !.cur = 0, !.more = m, !.range_end = e], m \in BOOLEAN
       PROVE  WellFormed(c) /\ c.cur <= c.pre /\ (Counted(proc) => Counted(c))
  <2>1. p \in Proc
    BY <1>21 DEF WellFormed, Measurable
  <2>2. c \in Proc
    BY <1>21, <2>1 DEF Proc
  <2>3. /\ c.cur = 0 /\ c.pre = p.pre /\ c.err_conn = p.err_conn /\ c.err_recv = p.err_recv
        /\ c.length_received = p.length_received /\ c.total_length = p.total_length
        /\ c.read_pos = p.read_pos /\ c.recv_len = p.recv_len
    BY <1>21, <2>1 DEF Proc
  <2>4. WellFormed(c)
    BY <1>21, <2>2, <2>3 DEF WellFormed, Measurable
  <2>5. c.cur <= c.pre
    BY <2>1, <2>3 DEF Proc
  <2>6. Counted(proc) => Counted(c)
    BY <1>21, <2>3 DEF Same, Counted
  <2> QED BY <2>4, <2>5, <2>6
<1>22. CASE Sends
  <2> DEFINE end == IF file.ask THEN proc.pre + RangeCount ELSE proc.range_end
             p == With(proc, "SUCCESS")
             c == [p EXCEPT !.cur = 0, !.more = FALSE, !.range_end = end]
  <2>1. /\ wpc = "send" /\ Returns("RECV", c)
        /\ answer' \in Answers(proc.pre, end - 1) \cup ErrorPages
        /\ UNCHANGED <<file, data, caller, shared>> /\ faults' \in 0 .. MaxFaults
    BY <1>4, <1>11, <1>22 DEF Sends
  <2>2. end \in Nat /\ proc.pre \in Nat
    BY <1>1, RangeEndIs DEF Proc
  <2> HIDE DEF end
  <2>3. Sound(answer')
    <3>1. end - 1 \in Int
      BY <2>2
    <3> QED BY <1>1, <2>1, <2>2, <3>1, AnswersAreSound
  <2>4. WellFormed(p) /\ Same(proc, p)
    BY <1>1, <1>6, ClosedKeeps
  <2> HIDE DEF p
  <2>5. WellFormed(c) /\ c.cur <= c.pre /\ Counted(c)
    BY <1>7, <1>21, <2>1, <2>2, <2>4
  <2> HIDE DEF c
  <2> QED BY <1>8, <2>1, <2>3, <2>5
<1>23. CASE SendFails
  <2> DEFINE end == IF file.ask THEN proc.pre + RangeCount ELSE proc.range_end
             p == With(proc, "ERR_SEND")
             c == [p EXCEPT !.cur = 0, !.range_end = end]
  <2>1. /\ wpc = "send" /\ Returns(Hold, CloseClient(c)) /\ Sound(answer')
        /\ UNCHANGED <<file, data, caller, shared>> /\ faults' \in 0 .. MaxFaults
    BY <1>4, <1>11, <1>23 DEF SendFails
  <2>2. end \in Nat
    BY RangeEndIs
  <2> HIDE DEF end
  <2>3. WellFormed(p) /\ Same(proc, p)
    BY <1>1, <1>6, ClosedKeeps
  <2> HIDE DEF p
  <2>4. c = [p EXCEPT !.cur = 0, !.more = p.more, !.range_end = end] /\ p.more \in BOOLEAN
    BY <2>3 DEF WellFormed, Measurable, Proc
  <2> HIDE DEF c
  <2>5. GoodProc(c)
    BY <1>7, <1>21, <2>1, <2>2, <2>3, <2>4 DEF GoodProc
  <2>6. GoodProc(CloseClient(c))
    BY <1>1, <1>6, <2>5, SmallKeep
  <2> QED BY <1>8, <2>1, <2>6 DEF GoodProc
<1>24. ASSUME NEW p, GoodProc(p) \/ (WellFormed(p) /\ p.cur <= p.pre /\ p.err_conn < MaxConn),
              NEW limit \in Results, Retry(p, limit),
              UNCHANGED <<file, data, caller, shared>>, Sound(answer'), faults' \in 0 .. MaxFaults
       PROVE  TypeOK' /\ CountInv'
  <2>1. WellFormed(p) /\ p \in Proc /\ p.err_recv \in Nat /\ MaxRecv \in Nat
    BY <1>24, Sizes DEF GoodProc, WellFormed, Measurable, Proc
  <2>2. WellFormed(StopProc(With(p, limit))) /\ WellFormed(CloseClient(With(p, "ERR_RECV")))
        /\ Same(p, CloseClient(With(p, "ERR_RECV")))
    BY <1>1, <1>6, <1>24, <2>1, ClosedKeeps
  <2>3. CASE p.err_recv >= MaxRecv
    BY <1>8, <1>24, <2>2, <2>3 DEF Retry
  <2>4. CASE ~(p.err_recv >= MaxRecv)
    <3> DEFINE c == CloseClient(With(p, "ERR_RECV"))
    <3>1. GoesOn(c)
      BY <1>24, <2>4 DEF Retry
    <3>2. Counted(c) /\ c.cur <= c.pre
      BY <1>24, <2>1, <2>2, <2>4 DEF Counted, GoodProc, Same
    <3>3. UNCHANGED <<file, caller, buffer, data>> /\ url' \in Urls /\ WellFormed(c)
      BY <1>11, <1>24, <2>2 DEF shared
    <3> HIDE DEF c
    <3> QED BY <1>9, <1>24, <3>1, <3>2, <3>3
  <2> QED BY <2>3, <2>4
<1>25. ASSUME NEW s, Polls(s)
       PROVE  cur_state = s /\ cur_state # "IDLE" /\ Counted(proc) /\ (Loads => GoodProc(proc))
  BY <1>1, <1>7, <1>12, <1>25 DEF Polls, GoodProc, CountInv
<1>26. ASSUME NEW p, NEW n \in {0, 1}, p = [proc EXCEPT !.err_recv = @ + n], Counted(proc)
       PROVE  /\ p \in Proc /\ p.err_recv = proc.err_recv + n
              /\ p.cur = proc.cur /\ p.pre = proc.pre /\ p.err_conn = proc.err_conn
              /\ p.length_received = proc.length_received /\ p.total_length = proc.total_length
              /\ p.read_pos = proc.read_pos /\ p.recv_len = proc.recv_len
  <2>1. proc.err_recv + n \in 0 .. MaxRecv
    BY <1>1, <1>26, Sizes DEF Counted, Proc
  <2> QED BY <1>1, <1>26, <2>1 DEF Proc
<1>27. CASE RecvFails
  <2>1. PICK n \in {0, 1} :
          /\ faults' \in 0 .. MaxFaults
          /\ Retry([proc EXCEPT !.err_recv = @ + n, !.more = FALSE], "ERR_TRY_RECV")
    BY <1>4, <1>11, <1>27 DEF RecvFails
  <2>2. /\ Polls("RECV") /\ UNCHANGED <<file, shared, data, caller>> /\ Sound(answer')
    BY <1>2, <1>27 DEF RecvFails
  <2>3. cur_state = "RECV" /\ Counted(proc) /\ GoodProc(proc)
    BY <1>25, <2>2 DEF Loads
  <2> DEFINE b == [proc EXCEPT !.err_recv = @ + n]
             p == [b EXCEPT !.more = FALSE]
  <2>4. /\ b \in Proc /\ b.err_recv = proc.err_recv + n
        /\ b.cur = proc.cur /\ b.pre = proc.pre /\ b.err_conn = proc.err_conn
        /\ b.length_received = proc.length_received /\ b.total_length = proc.total_length
        /\ b.read_pos = proc.read_pos /\ b.recv_len = proc.recv_len
    BY <1>26, <2>3
  <2>5. p = [proc EXCEPT !.err_recv = @ + n, !.more = FALSE]
    OBVIOUS
  <2> HIDE DEF b
  <2>6. WellFormed(p) /\ p.cur <= p.pre /\ p.err_conn < MaxConn
    <3>1. p \in Proc
      BY <2>4 DEF Proc
    <3>2. /\ p.cur = proc.cur /\ p.pre = proc.pre /\ p.err_conn = proc.err_conn
          /\ p.length_received = proc.length_received /\ p.total_length = proc.total_length
          /\ p.read_pos = proc.read_pos /\ p.recv_len = proc.recv_len
      BY <2>4 DEF Proc
    <3> HIDE DEF p
    <3> QED BY <2>3, <3>1, <3>2 DEF GoodProc, Counted, WellFormed, Measurable
  <2>7. Retry(p, "ERR_TRY_RECV")
    BY <2>1, <2>5
  <2> HIDE DEF p
  <2> QED BY <1>6, <1>24, <2>1, <2>2, <2>6, <2>7
<1>29. ASSUME NEW b, WellFormed(b), Same(proc, b), NEW p, WellFormed(p),
              p.cur = b.cur, p.pre = b.pre, p.err_conn = b.err_conn, p.err_recv = b.err_recv,
              GoesOn(CloseClient(p)), cur_state = "RECV", Counted(proc),
              UNCHANGED <<file, caller, buffer, data, faults>>, url' \in Urls, answer' = NoAnswer
       PROVE  TypeOK' /\ CountInv'
  <2>1. GoodProc(p)
    BY <1>29 DEF GoodProc, Same, Counted, CountInv, Loads
  <2>2. GoodProc(CloseClient(p))
    BY <1>1, <1>6, <2>1, SmallKeep
  <2>3. Sound(answer') /\ faults' \in 0 .. MaxFaults
    BY <1>2, <1>11, <1>29
  <2> QED BY <1>9, <1>29, <2>2, <2>3 DEF GoodProc
<1>30. CASE Redirects
  <2> DEFINE b == With(proc, "REDIRECT")
             p == [b EXCEPT !.redirect = TRUE, !.is_range = FALSE]
  <2>1. /\ Polls("RECV") /\ GoesOn(CloseClient(p)) /\ url' \in Urls /\ answer' = NoAnswer
        /\ UNCHANGED <<file, caller, buffer, data, faults>>
    BY <1>30 DEF Redirects
  <2>2. WellFormed(b) /\ Same(proc, b)
    BY <1>1, <1>6, ClosedKeeps
  <2>3. b \in Proc
    BY <2>2 DEF WellFormed, Measurable
  <2> HIDE DEF b
  <2>4. p = [b EXCEPT !.redirect = TRUE, !.is_range = FALSE]
    OBVIOUS
  <2>5. p \in Proc /\ Frame(b, p)
    BY <2>3 DEF Proc, Frame
  <2> HIDE DEF p
  <2>6. WellFormed(p)
    BY <2>2, <2>5 DEF WellFormed, Measurable, Frame
  <2>7. cur_state = "RECV" /\ Counted(proc)
    BY <1>25, <2>1
  <2> QED BY <1>29, <2>1, <2>2, <2>5, <2>6, <2>7 DEF Frame
<1>31. CASE ForecastFails
  <2> DEFINE b == With(proc, "ERR_RECV")
             p == [b EXCEPT !.range_forecast = FALSE, !.is_range = FALSE]
  <2>1. /\ Polls("RECV") /\ GoesOn(CloseClient(p)) /\ url' \in Urls /\ answer' = NoAnswer
        /\ UNCHANGED <<file, caller, buffer, data, faults>>
    BY <1>11, <1>31 DEF ForecastFails, shared
  <2>2. WellFormed(b) /\ Same(proc, b)
    BY <1>1, <1>6, ClosedKeeps
  <2>3. b \in Proc
    BY <2>2 DEF WellFormed, Measurable
  <2> HIDE DEF b
  <2>4. p = [b EXCEPT !.range_forecast = FALSE, !.is_range = FALSE]
    OBVIOUS
  <2>5. p \in Proc /\ Frame(b, p)
    BY <2>3 DEF Proc, Frame
  <2> HIDE DEF p
  <2>6. WellFormed(p)
    BY <2>2, <2>5 DEF WellFormed, Measurable, Frame
  <2>7. cur_state = "RECV" /\ Counted(proc)
    BY <1>25, <2>1
  <2> QED BY <1>29, <2>1, <2>2, <2>5, <2>6, <2>7 DEF Frame
<1>32. CASE RecvNothing
  <2> DEFINE b == [proc EXCEPT !.err_recv = @ + 1]
             p == [b EXCEPT !.close_if_rang_end = TRUE, !.is_range = FALSE]
  <2>1. /\ Polls("RECV") /\ UNCHANGED <<file, shared, data, caller>> /\ Sound(answer')
        /\ faults' \in 0 .. MaxFaults
    BY <1>2, <1>11, <1>32 DEF RecvNothing
  <2>2. Retry(p, "ERR_RESPONSE")
    BY <1>32 DEF RecvNothing
  <2>3. cur_state = "RECV" /\ Counted(proc) /\ GoodProc(proc)
    BY <1>25, <2>1 DEF Loads
  <2>4. /\ b \in Proc /\ b.err_recv = proc.err_recv + 1
        /\ b.cur = proc.cur /\ b.pre = proc.pre /\ b.err_conn = proc.err_conn
        /\ b.length_received = proc.length_received /\ b.total_length = proc.total_length
        /\ b.read_pos = proc.read_pos /\ b.recv_len = proc.recv_len
    BY <1>26, <2>3
  <2> HIDE DEF b
  <2>5. p \in Proc /\ Frame(b, p)
    BY <2>4 DEF Proc, Frame
  <2>6. WellFormed(b)
    BY <2>3, <2>4 DEF GoodProc, WellFormed, Measurable
  <2> HIDE DEF p
  <2>7. /\ WellFormed(p)
        /\ p.cur = b.cur /\ p.pre = b.pre /\ p.err_conn = b.err_conn
    BY <2>5, <2>6 DEF WellFormed, Measurable, Frame
  <2>8. p.cur <= p.pre /\ p.err_conn < MaxConn
    BY <2>3, <2>4, <2>7 DEF GoodProc, Counted
  <2> QED BY <1>6, <1>24, <2>1, <2>2, <2>7, <2>8
<1>33. UNCHANGED <<file, shared, caller, faults>> =>
         /\ UNCHANGED <<file, caller, shared>> /\ faults' \in 0 .. MaxFaults
  BY <1>11
<1>34. CASE Receives
  <2> DEFINE p == NextBlock
             a == [answer EXCEPT !.got = @ + p.recv_len]
  <2>1. /\ Polls("RECV") /\ answer.got < answer.len /\ Keep(a)
        /\ UNCHANGED <<file, shared, caller, faults>>
        /\ \/ Returns(Hold, With(p, "ERR_RECV_SKIP")) /\ UNCHANGED data
           \/ Push(p, a)
    BY <1>1, <1>34 DEF Receives, Sound, Answer
  <2>2. cur_state = "RECV" /\ Counted(proc)
    BY <1>25, <2>1
  <2>3. /\ WellFormed(p) /\ Sound(a) /\ p.cur <= p.pre
        /\ p.err_conn = proc.err_conn /\ p.err_recv = proc.err_recv
    BY <2>1, <2>2, BlockRead
  <2> HIDE DEF p
  <2>4. GoodProc(p) /\ Sound(a)
    BY <2>2, <2>3 DEF GoodProc, Counted
  <2> HIDE DEF a
  <2>5. Sound(answer')
    BY <1>11, <2>1, <2>4
  <2>6. GoodProc(With(p, "ERR_RECV_SKIP"))
    BY <1>1, <1>6, <2>4, SmallKeep
  <2>7. CASE Returns(Hold, With(p, "ERR_RECV_SKIP")) /\ UNCHANGED data
    BY <1>8, <1>33, <2>1, <2>5, <2>6, <2>7 DEF GoodProc
  <2>8. CASE Push(p, a)
    BY <2>1, <2>4, <2>5, <2>8, PushKeepsTypes
  <2> QED BY <2>1, <2>7, <2>8
<1>35. CASE WaitFreePoll
  <2>1. /\ Polls("WAIT_FREE") /\ Keep(answer)
        /\ UNCHANGED <<file, shared, caller, faults>>
        /\ \/ Returns(Hold, With(proc, "ERR_BUF_TOO_SMALL")) /\ UNCHANGED data
           \/ Push(proc, answer)
    BY <1>35 DEF WaitFreePoll
  <2>2. GoodProc(proc)
    BY <1>25, <2>1 DEF Loads
  <2>3. Sound(answer')
    BY <1>1, <1>11, <2>1
  <2>4. GoodProc(With(proc, "ERR_BUF_TOO_SMALL"))
    BY <1>1, <1>6, <2>2, SmallKeep
  <2>5. CASE Returns(Hold, With(proc, "ERR_BUF_TOO_SMALL")) /\ UNCHANGED data
    BY <1>8, <1>33, <2>1, <2>3, <2>4, <2>5 DEF GoodProc
  <2>6. CASE Push(proc, answer)
    BY <1>1, <2>1, <2>2, <2>3, <2>6, PushKeepsTypes
  <2> QED BY <2>1, <2>5, <2>6
<1>36. CASE WaitRangePoll
  <2>1. /\ Polls("WAIT_RANGE")
        /\ UNCHANGED <<file, shared, answer, data, caller, faults>>
        /\ \/ Returns(Hold, With(proc, "ERR_BUF_TOO_SMALL"))
           \/ GoesOn(With(proc, "SUCCESS"))
    BY <1>36 DEF WaitRangePoll
  <2>2. cur_state = "WAIT_RANGE" /\ Counted(proc)
    BY <1>25, <2>1
  <2>3. \A r \in Results : WellFormed(With(proc, r)) /\ Same(proc, With(proc, r))
    BY <1>1, ClosedKeeps
  <2>4. \A r \in Results : Counted(With(proc, r))
    BY <1>15, <2>2, <2>3
  <2>5. Sound(answer') /\ faults' \in 0 .. MaxFaults /\ url' \in Urls
        /\ UNCHANGED <<file, caller, buffer, data>>
    BY <1>11, <2>1 DEF shared
  <2>6. CASE Returns(Hold, With(proc, "ERR_BUF_TOO_SMALL"))
    BY <1>6, <1>8, <2>1, <2>2, <2>3, <2>4, <2>5, <2>6 DEF Loads
  <2>7. CASE GoesOn(With(proc, "SUCCESS"))
    BY <1>6, <1>9, <2>2, <2>3, <2>4, <2>5, <2>7 DEF Loads
  <2> QED BY <2>1, <2>6, <2>7
<1> QED BY <1>10, <1>16, <1>17, <1>18, <1>19, <1>20, <1>22, <1>23, <1>27, <1>30, <1>31, <1>32, <1>34,
           <1>35, <1>36 DEF Work


(* The calls and the reader keep the types.                                *)
LEMMA CallsKeepTypes ==
  ASSUME TypeOK, CallInv, CountInv
  PROVE  CallerStep \/ PauseOrResume \/ Call \/ Pops => TypeOK' /\ CountInv'
<1> USE DEF work, bits, shared, data, caller
<1>1. /\ {pending, taken, acks} \subseteq SUBSET HttpEvents /\ proc \in Proc /\ file \in File
      /\ received \in Seq(Int) /\ Len(received) \in Nat /\ popped \in 0 .. Len(received)
      /\ Len(received) - popped <= Capacity /\ origin \in Nat
      /\ calls \in 0 .. MaxCalls /\ MaxCalls \in Nat /\ op \in Op
  BY Sizes, LenProperties DEF TypeOK
<1>2. {"START", "STOP", "PAUSE", "RESUME"} \subseteq HttpEvents
  BY DEF HttpEvents
<1>3. calls < MaxCalls /\ calls' = calls + 1 => calls' \in 0 .. MaxCalls
  BY <1>1
<1>4. ASSUME UNCHANGED <<cur_state, wpc, proc, answer>> PROVE CountInv'
  BY <1>4 DEF CountInv, Loads, Busy
<1>5. CASE PauseOrResume
  <2>1. /\ calls < MaxCalls /\ calls' = calls + 1 /\ pending' \subseteq HttpEvents
        /\ UNCHANGED <<file, work, acks, shared, answer, data, cpc, op, faults>>
    BY <1>1, <1>2, <1>5 DEF PauseOrResume
  <2>2. TypeOK'
    BY <1>3, <2>1 DEF TypeOK
  <2> QED BY <1>4, <2>1, <2>2
<1>6. CASE Call
  <2>1. /\ calls < MaxCalls /\ calls' = calls + 1 /\ pending' \subseteq HttpEvents /\ cpc' = "stop"
        /\ UNCHANGED <<file, work, acks, shared, answer, data, faults>>
    BY <1>1, <1>2, <1>6 DEF Call
  <2>2. op' \in Op
    <3>1. CASE op' = [kind |-> "stop", pos |-> 0]
      BY <3>1 DEF Op
    <3>2. CASE op' \in [kind : {"start"}, pos : Seeks]
      BY <3>2, Sizes DEF Op
    <3>3. CASE op' = [kind |-> "continue", pos |-> origin + Len(received)]
      BY <1>1, <3>3 DEF Op
    <3> QED BY <1>6, <3>1, <3>2, <3>3 DEF Call
  <2>3. TypeOK'
    BY <1>3, <2>1, <2>2 DEF TypeOK
  <2> QED BY <1>4, <2>1, <2>3
<1>7. CASE Stopped \/ Started
  <2>1. acks' \subseteq acks /\ cpc' \in {"clear_events", "idle"}
    BY <1>7 DEF Stopped, Started, Waited
  <2>2. UNCHANGED <<file, work, pending, shared, answer, data, op, calls, faults>>
    BY <1>7 DEF Stopped, Started
  <2>3. TypeOK'
    BY <2>1, <2>2 DEF TypeOK
  <2> QED BY <1>4, <2>2, <2>3
<1>8. CASE ClearEvents
  <2>1. TypeOK'
    BY <1>8 DEF ClearEvents, TypeOK
  <2> QED BY <1>4, <1>8, <2>1 DEF ClearEvents
<1>9. CASE ClearAcks
  <2>1. TypeOK'
    BY <1>9 DEF ClearAcks, TypeOK
  <2> QED BY <1>4, <1>9, <2>1 DEF ClearAcks
<1>10. CASE Frees
  <2>1. TypeOK'
    BY <1>10 DEF Frees, TypeOK
  <2> QED BY <1>4, <1>10, <2>1 DEF Frees
<1>11. CASE Starts
  <2> DEFINE s == With(proc, "SUCCESS")
             p == [s EXCEPT !.pre = op.pos]
  <2>1. /\ cpc = "start" /\ cpc' = "await" /\ url' = "first" /\ buffer' = TRUE /\ proc' = p
        /\ pending' \subseteq HttpEvents
        /\ UNCHANGED <<file, cur_state, wpc, taken, acks, answer, op, calls, faults>>
    BY <1>1, <1>2, <1>11 DEF Starts
  <2>2. op.pos \in Nat
    BY <1>1 DEF Op
  <2>3. /\ received' \in Seq(Int) /\ popped' \in 0 .. Len(received')
        /\ Len(received') - popped' <= Capacity /\ origin' \in Nat
    <3>1. CASE op.kind = "start"
      <4>1. received' = <<>> /\ popped' = 0 /\ origin' = op.pos
        BY <1>11, <3>1 DEF Starts
      <4>2. <<>> \in Seq(Int) /\ Len(<<>>) = 0
        OBVIOUS
      <4> QED BY <2>2, <4>1, <4>2, Sizes
    <3>2. CASE op.kind # "start"
      BY <1>1, <1>11, <3>2 DEF Starts
    <3> QED BY <3>1, <3>2
  <2>4. WellFormed(s) /\ Same(proc, s) /\ "SUCCESS" \in Results
    <3>1. "SUCCESS" \in Results
      BY DEF Results
    <3> QED BY <1>1, <3>1, ClosedKeeps DEF CountInv
  <2>5. s \in Proc
    BY <2>4 DEF WellFormed, Measurable
  <2> HIDE DEF s
  <2>6. p \in Proc
    BY <2>2, <2>5 DEF Proc
  <2>7. /\ p.read_pos = s.read_pos /\ p.recv_len = s.recv_len
        /\ p.length_received = s.length_received /\ p.total_length = s.total_length
    BY <2>5 DEF Proc
  <2> HIDE DEF p
  <2>8. WellFormed(p)
    BY <2>4, <2>6, <2>7 DEF WellFormed, Measurable
  <2>9. TypeOK'
    BY <2>1, <2>3, <2>6 DEF TypeOK
  <2>10. ~Busy' /\ cur_state' = "IDLE"
    BY <2>1 DEF CallInv, Busy, Posted
  <2>11. CountInv'
    BY <2>1, <2>8, <2>10 DEF CountInv, Loads
  <2> QED BY <2>9, <2>11
<1>12. CASE Pops
  <2>1. PICK n \in 1 .. GetCount : popped' = popped + n
    BY <1>12 DEF Pops
  <2>2. n \in Int /\ n >= 1 /\ n <= Len(received) - popped
    BY <1>1, <2>1 DEF GetCount
  <2>3. popped' \in 0 .. Len(received) /\ Len(received) - popped' <= Capacity
    BY <1>1, <2>1, <2>2, Sizes
  <2>4. UNCHANGED <<file, work, bits, shared, answer, received, origin, caller, faults>>
    BY <1>12 DEF Pops
  <2>5. TypeOK'
    BY <2>3, <2>4 DEF TypeOK
  <2> QED BY <1>4, <2>4, <2>5
<1> QED BY <1>5, <1>6, <1>7, <1>8, <1>9, <1>10, <1>11, <1>12 DEF CallerStep

(* url and buffer are freed only while the machine is idle and waits, and  *)
(* are tested before a connection is made.                                 *)
LEMMA UrlKept ==
  ASSUME TypeOK, CallInv, UrlOutlivesUse, Next
  PROVE  UrlOutlivesUse'
<1> USE DEF UrlOutlivesUse, work, shared
<1>1. ASSUME NEW state, NEW p, Returns(state, p) PROVE wpc' \notin {"connect", "send"}
  BY <1>1 DEF Returns
<1>2. ASSUME NEW p, GoesOn(p) PROVE wpc' \notin {"connect", "send"}
  BY <1>2 DEF GoesOn
<1>3. CASE Takes
  BY <1>3 DEF Takes
<1>4. CASE HandlesEvent
  BY <1>1, <1>2, <1>4 DEF HandlesEvent
<1>5. CASE StartFails \/ ConnectFails \/ Sends \/ SendFails
  BY <1>1, <1>5 DEF StartFails, ConnectFails, Sends, SendFails
<1>6. CASE Conn
  BY <1>1, <1>6 DEF Conn
<1>7. CASE Connects
  BY <1>7 DEF Connects
<1>8. ASSUME NEW p, NEW limit, Retry(p, limit) PROVE wpc' \notin {"connect", "send"}
  BY <1>1, <1>2, <1>8 DEF Retry
<1>9. CASE RecvFails \/ RecvNothing
  BY <1>8, <1>9 DEF RecvFails, RecvNothing
<1>10. CASE Redirects \/ ForecastFails
  BY <1>2, <1>10 DEF Redirects, ForecastFails
<1>11. ASSUME NEW p, NEW a, Push(p, a) PROVE wpc' \notin {"connect", "send"}
  BY <1>1, <1>11 DEF Push
<1>12. CASE Receives
  BY <1>1, <1>11, <1>12 DEF Receives
<1>13. CASE WaitFreePoll
  BY <1>1, <1>11, <1>13 DEF WaitFreePoll
<1>14. CASE WaitRangePoll
  BY <1>1, <1>2, <1>14 DEF WaitRangePoll
<1>15. CASE Frees
  BY <1>15 DEF Frees, CallInv, Busy, Posted
<1>16. CASE Starts
  BY <1>16 DEF Starts
<1>17. CASE Stopped \/ ClearEvents \/ ClearAcks \/ Started \/ PauseOrResume \/ Call \/ Pops
  BY <1>17 DEF Stopped, ClearEvents, ClearAcks, Started, PauseOrResume, Call, Pops
<1> QED BY <1>3, <1>4, <1>5, <1>6, <1>7, <1>9, <1>10, <1>12, <1>13, <1>14, <1>15, <1>16, <1>17
        DEF Next, Work, CallerStep

(* Nothing moves: everything is kept.                                      *)
LEMMA QuietIsSafe ==
  ASSUME SafeInv, UNCHANGED vars
  PROVE  SafeInv'
BY DEF SafeInv, TypeOK, CallInv, CountInv, UrlOutlivesUse, Busy, Posted, Loads, vars, work, bits,
       shared, data, caller

(* The first state.                                                        *)
LEMMA StartsSafe ==
  ASSUME Init
  PROVE  SafeInv
<1>1. /\ 0 \in 0 .. MaxConn /\ 0 \in 0 .. MaxRecv /\ 0 \in 0 .. Block /\ 0 \in 0 .. MaxCalls
      /\ 0 \in 0 .. MaxFaults /\ 0 <= Capacity
  BY Sizes
<1>2. proc \in Proc
  BY <1>1 DEF Init, Proc, Results
<1>3. /\ proc.read_pos = 0 /\ proc.recv_len = 0 /\ ~proc.length_received
      /\ proc.err_conn = 0 /\ proc.err_recv = 0
  BY DEF Init
<1>4. received = <<>> /\ popped = 0 /\ Len(received) = 0 /\ received \in Seq(Int)
  BY DEF Init
<1>5. Sound(answer)
  BY DEF Init, NoAnswer, Sound, Answer
<1>6. op \in Op
  BY DEF Init, Op
<1>7. /\ file \in Files /\ cur_state = "IDLE" /\ wpc = "wait" /\ pending = {} /\ taken = {} /\ acks = {}
      /\ url = "none" /\ buffer = FALSE /\ origin = 0 /\ cpc = "idle" /\ calls = 0 /\ faults = 0
  BY DEF Init
<1>8. TypeOK
  <2>1. popped \in 0 .. Len(received) /\ Len(received) - popped <= Capacity
    BY <1>1, <1>4
  <2>2. {pending, taken, acks} \subseteq SUBSET HttpEvents
    BY <1>7
  <2> QED BY <1>1, <1>2, <1>4, <1>5, <1>6, <1>7, <2>1, <2>2 DEF TypeOK, States, Sound
<1>9. CallInv
  BY <1>7 DEF CallInv, Posted, Busy
<1>10. CountInv
  <2>1. WellFormed(proc)
    BY <1>2, <1>3 DEF WellFormed, Measurable
  <2>2. ~Busy /\ ~Loads
    BY <1>7 DEF Busy, Loads
  <2> QED BY <1>5, <1>7, <2>1, <2>2 DEF CountInv
<1> QED BY <1>7, <1>8, <1>9, <1>10 DEF SafeInv, UrlOutlivesUse

(* The types, the calls and the counts are an inductive invariant, when    *)
(* each wait ends with its acknowledgement.                                *)
THEOREM SafeInvariant ==
  ASSUME "slow" \notin Trouble
  PROVE  Spec => []SafeInv
<1>1. Init => SafeInv
  BY StartsSafe
<1>2. SafeInv /\ [Next]_vars => SafeInv'
  <2> SUFFICES ASSUME SafeInv, [Next]_vars PROVE SafeInv'
    OBVIOUS
  <2>1. CASE Next
    <3>1. TypeOK /\ CallInv /\ CountInv /\ UrlOutlivesUse
      BY DEF SafeInv
    <3>2. CallInv'
      BY <2>1, <3>1, WorkKeepsCall, CallsKeepCall DEF Next
    <3>3. TypeOK' /\ CountInv'
      BY <2>1, <3>1, WorkKeepsTypes, CallsKeepTypes DEF Next
    <3>4. UrlOutlivesUse'
      BY <2>1, <3>1, UrlKept
    <3> QED BY <3>2, <3>3, <3>4 DEF SafeInv
  <2> QED BY <2>1, QuietIsSafe
<1> QED BY <1>1, <1>2, PTL DEF Spec

(* Every variable has its type: no count passes its limit, no position its *)
(* block, the buffer never holds more than it has room for                 *)
(* (http_download_process.c:53-55, 222-230, 349-354).                      *)
THEOREM TypeCorrect ==
  ASSUME "slow" \notin Trouble
  PROVE  Spec => []TypeOK
<1>1. SafeInv => TypeOK
  BY DEF SafeInv
<1> QED BY <1>1, SafeInvariant, PTL

(* Nobody frees the url or the buffer under a connection that is made      *)
(* (http_download_process.c:138-141, 188-203, 641-648).                    *)
THEOREM UrlStays ==
  ASSUME "slow" \notin Trouble
  PROVE  Spec => []UrlOutlivesUse
<1>1. SafeInv => UrlOutlivesUse
  BY DEF SafeInv
<1> QED BY <1>1, SafeInvariant, PTL
-----------------------------------------------------------------------------
(* The machine is in a download, or is about to begin one.                 *)
Active == cur_state # "IDLE" \/ "START" \in taken

Known(p) ==
  /\ p.length_received => ~file.chunked /\ p.total_length = file.len
  /\ p.is_chunked => file.chunked

(* Nobody who waits for START is where a place is kept for him.            *)
LEMMA ActiveIs ==
  ASSUME CallInv, PlaceInv, Active
  PROVE  /\ ~(op.kind = "continue" /\ cpc \in {"stop", "clear_events", "clear_acks", "free", "start"})
         /\ "START" \notin pending
<1>1. "START" \in taken => cpc = "await"
  BY DEF CallInv, Posted
<1>2. "START" \in pending => cur_state = "IDLE" /\ "START" \notin taken
  BY DEF CallInv
<1> QED BY <1>1, <1>2 DEF PlaceInv, Active

(* What a return leaves.                                                   *)
LEMMA ReturnKeepsData ==
  ASSUME TypeOK, CallInv, DataInv, Active, NEW state \in States \cup {Hold}, NEW p, Returns(state, p),
         UNCHANGED <<file, caller>>,
         p.pre = origin' + Len(received'), InOrder', Known(p),
         cur_state' # "IDLE" => cur_state # "IDLE" \/ Busy,
         Ranged /\ cur_state' # "IDLE" => p.range_forecast,
         p.last_error = "ALL_END" => p.pre = file.len,
         p.last_error = "SUCCESS" => cur_state' # "IDLE" \/ cpc = "stop",
         AnswerInv', ReadInv'
  PROVE  DataInv'
<1>1. /\ wpc' = "wait" /\ proc' = p /\ taken' = {} /\ pending' = pending
  BY Returned
<1>2. UNCHANGED <<file, cpc, op>> /\ Ranged' = Ranged
  BY DEF caller, Ranged
<1>3. /\ ~(op.kind = "continue" /\ cpc \in {"stop", "clear_events", "clear_acks", "free", "start"})
      /\ "START" \notin pending
  BY ActiveIs DEF DataInv
<1>4. PlaceInv'
  BY <1>1, <1>2, <1>3 DEF DataInv, PlaceInv
<1>5. LengthInv'
  BY <1>1, <1>2 DEF LengthInv, Known, Busy
<1>6. EndInv'
  BY <1>1, <1>2, <1>3 DEF EndInv
<1> QED BY <1>4, <1>5, <1>6 DEF DataInv

(* What an action that goes on leaves.                                     *)
LEMMA MoveKeepsData ==
  ASSUME CallInv, DataInv, Active, Busy', UNCHANGED <<file, cur_state, taken, bits, data, caller>>,
         proc'.pre = proc.pre, Known(proc'),
         Ranged => proc'.range_forecast,
         proc'.last_error = "ALL_END" => proc.last_error = "ALL_END",
         cur_state = "IDLE" => proc'.last_error = "SUCCESS",
         AnswerInv', ReadInv'
  PROVE  DataInv'
<1>1. UNCHANGED <<file, cur_state, taken, pending, received, popped, origin, cpc, op>> /\ Ranged' = Ranged
  BY DEF bits, data, caller, Ranged
<1>2. /\ ~(op.kind = "continue" /\ cpc \in {"stop", "clear_events", "clear_acks", "free", "start"})
      /\ "START" \notin pending
  BY ActiveIs DEF DataInv
<1>3. PlaceInv' /\ InOrder'
  BY <1>1, <1>2 DEF DataInv, PlaceInv, InOrder
<1>4. LengthInv'
  BY <1>1 DEF LengthInv, Known
<1>5. "START" \in taken => cur_state = "IDLE"
  BY DEF CallInv
<1>6. cur_state = "IDLE" => "START" \in taken
  BY DEF Active
<1>7. EndInv'
  BY <1>1, <1>2, <1>5, <1>6 DEF DataInv, EndInv
<1> QED BY <1>3, <1>4, <1>7 DEF DataInv

(* Nothing of the file is being read.                                      *)
LEMMA NothingRead ==
  ASSUME cur_state' # "WAIT_FREE", answer'.kind # "file" \/ cur_state' # "RECV"
  PROVE  ReadInv'
BY DEF ReadInv, Loads

(* The fields that say what is being read, and what is known of it.        *)
Content(p, q) ==
  /\ q.cur = p.cur /\ q.pre = p.pre
  /\ q.is_range = p.is_range /\ q.is_chunked = p.is_chunked /\ q.more = p.more
  /\ q.length_received = p.length_received /\ q.total_length = p.total_length
  /\ q.range_forecast = p.range_forecast
  /\ q.recv_len = p.recv_len /\ q.read_pos = p.read_pos

(* What is being read, and what is known of it, has not changed.           *)
LEMMA ReadStays ==
  ASSUME ReadInv, UNCHANGED <<file, cur_state, answer>>, Content(proc, proc'),
         cur_state = "WAIT_FREE" => proc'.http_opened /\ ~Busy'
  PROVE  ReadInv'
<1>1. UNCHANGED <<Loads, Ranged>>
  BY DEF Loads, Ranged
<1>2. /\ proc'.is_range = proc.is_range /\ proc'.is_chunked = proc.is_chunked
      /\ proc'.more = proc.more /\ proc'.length_received = proc.length_received
      /\ proc'.pre = proc.pre /\ proc'.cur = proc.cur
      /\ proc'.recv_len = proc.recv_len /\ proc'.read_pos = proc.read_pos
  BY DEF Content
<1> QED BY <1>1, <1>2 DEF ReadInv

(* An answer that is gone says nothing.                                    *)
LEMMA AnswerStays ==
  ASSUME AnswerInv, file' = file, answer' = answer \/ answer' = NoAnswer
  PROVE  AnswerInv'
BY DEF AnswerInv, OfFile, NoAnswer, Ranged

(* A block that is to be pushed: its first unit is the one the buffer      *)
(* wants next.                                                             *)
Pushable(p, a) ==
  /\ WellFormed(p) /\ p.cur <= p.pre /\ p.http_opened
  /\ Sound(a) /\ OfFile(a) /\ a.kind = "file" /\ a.got > 0
  /\ p.read_pos < p.recv_len
  /\ a.from + a.got = p.pre + (p.recv_len - p.read_pos)
  /\ ~Ranged => p.cur = p.pre
  /\ p.is_range <=> Ranged
  /\ p.is_chunked \/ p.length_received
  /\ ~p.more => a.got = a.len
  /\ Known(p)
  /\ Ranged => p.range_forecast

(* What is appended in order is in order.                                  *)
LEMMA OrderGrows ==
  ASSUME InOrder, received \in Seq(Int), origin' = origin, NEW u \in Seq(Int), received' = received \o u,
         \A i \in 1 .. Len(u) : u[i] = origin + Len(received) + i - 1, origin \in Nat
  PROVE  InOrder'
<1> DEFINE k == Len(received)
<1>1. k \in Nat /\ Len(u) \in Nat
  BY LenProperties
<1>2. /\ received' \in Seq(Int) /\ Len(received') = k + Len(u)
      /\ \A i \in 1 .. k + Len(u) : received'[i] = IF i <= k THEN received[i] ELSE u[i - k]
  BY ConcatProperties
<1>3. \A i \in 1 .. k : received[i] = origin + i - 1
  BY DEF InOrder
<1> HIDE DEF k
<1>4. ASSUME NEW i \in 1 .. k + Len(u) PROVE received'[i] = origin + i - 1
  <2>1. CASE i <= k
    BY <1>1, <1>2, <1>3, <2>1
  <2>2. CASE ~(i <= k)
    <3>1. i - k \in 1 .. Len(u)
      BY <1>1, <2>2
    <3>2. u[i - k] = origin + k + (i - k) - 1
      BY <3>1 DEF k
    <3> QED BY <1>1, <1>2, <2>2, <3>2
  <2> QED BY <2>1, <2>2
<1>5. received' = [i \in 1 .. Len(received') |-> received'[i]]
  BY <1>2, LenProperties
<1>6. \A i \in 1 .. Len(received') : received'[i] = origin' + i - 1
  BY <1>2, <1>4
<1> QED BY <1>5, <1>6 DEF InOrder

(* When the last unit has been pushed, and only then, the download is at   *)
(* its end.                                                                *)
LEMMA EndIsEnd ==
  ASSUME file \in File, NEW p, NEW a, Pushable(p, a), NEW q, q.pre = a.from + a.got,
         q.is_range <=> p.is_range, q.more <=> p.more, q.is_chunked <=> p.is_chunked,
         q.total_length = p.total_length, PushResult(q) = "ALL_END"
  PROVE  q.pre = file.len
<1>1. /\ a.from \in Nat /\ a.got \in Nat /\ a.len \in Nat /\ a.got <= a.len /\ file.len \in Nat
  BY DEF Pushable, Sound, Answer, File
<1>2. IF Ranged THEN a.from + a.len <= file.len ELSE a.from = 0 /\ a.len = file.len
  BY DEF Pushable, OfFile
<1>3. a.from + a.got <= file.len
  BY <1>1, <1>2
<1>4. CASE ~q.is_range /\ ~q.more
  BY <1>1, <1>2, <1>4 DEF Pushable
<1>5. CASE ~q.is_chunked /\ q.pre >= q.total_length
  <2>1. p.total_length = file.len
    BY <1>5 DEF Pushable, Known
  <2> QED BY <1>1, <1>3, <1>5, <2>1
<1> QED BY <1>4, <1>5 DEF PushResult

(* http_download_proc_push_action, with the next units of the file.        *)
LEMMA PushKeepsData ==
  ASSUME Trouble = {}, TypeOK, CallInv, DataInv, cur_state # "IDLE", NEW p, NEW a, Pushable(p, a),
         p.pre = proc.pre, Push(p, a), Keep(a), UNCHANGED <<file, caller>>
  PROVE  DataInv'
<1> DEFINE len == p.recv_len - p.read_pos
           pushed == [p EXCEPT !.pre = @ + len, !.cur = @ + len, !.read_pos = @ + len]
           result == PushResult(pushed)
           q == With(pushed, result)
           w == With(p, "ERR_BUF_TOO_SMALL")
<1>1. /\ p \in Proc /\ a \in Answer /\ file \in File
      /\ Active /\ "alloc" \notin Trouble
      /\ received \in Seq(Int) /\ origin \in Nat /\ Len(received) \in Nat
  <2>1. p \in Proc /\ a \in Answer /\ Active
    BY DEF Pushable, WellFormed, Measurable, Sound, Active
  <2>2. file \in File /\ received \in Seq(Int) /\ origin \in Nat
    BY Sizes DEF TypeOK
  <2> QED BY <2>1, <2>2, LenProperties
<1>2. /\ len \in Nat /\ len > 0 /\ p.pre \in Nat /\ p.cur \in Nat /\ p.read_pos \in Nat
      /\ p.recv_len \in Nat /\ a.from \in Nat /\ a.got \in Nat
      /\ a.from + a.got = p.pre + len /\ p.pre = origin + Len(received)
      /\ p.read_pos + len = p.recv_len /\ p.recv_len <= Block
  <2>1. /\ p.pre \in Nat /\ p.cur \in Nat /\ p.read_pos \in 0 .. Block /\ p.recv_len \in 0 .. Block
        /\ a.from \in Nat /\ a.got \in Nat /\ Block \in Nat
    BY <1>1, Sizes DEF Proc, Answer
  <2>2. p.read_pos < p.recv_len /\ a.from + a.got = p.pre + (p.recv_len - p.read_pos)
    BY DEF Pushable
  <2>3. p.pre = origin + Len(received)
    BY DEF DataInv, PlaceInv
  <2>4. /\ p.read_pos \in Nat /\ p.recv_len \in Nat /\ p.recv_len <= Block
    BY <2>1
  <2>5. len \in Nat /\ len > 0 /\ p.read_pos + len = p.recv_len
    BY <2>2, <2>4
  <2>6. a.from + a.got = p.pre + len
    BY <2>2
  <2> HIDE DEF len
  <2> QED BY <2>1, <2>3, <2>4, <2>5, <2>6
<1>3. \/ Returns("WAIT_FREE", w) /\ UNCHANGED data
      \/ /\ received' = received \o Units(p, a, len) /\ UNCHANGED <<popped, origin>>
         /\ \/ result = "SUCCESS" /\ Returns("RECV", q)
            \/ result = "RANGE_END" /\ \E c \in {q, CloseClient(q)} : Returns("WAIT_RANGE", c)
            \/ result = "ALL_END" /\ Returns("IDLE", StopProc(q))
  <2>1. \/ Returns("WAIT_FREE", w) /\ UNCHANGED data
        \/ /\ \E n \in 0 .. len : /\ "alloc" \notin Trouble => n = len
                                  /\ received' = received \o Units(p, a, n)
           /\ UNCHANGED <<popped, origin>>
           /\ \/ result = "SUCCESS" /\ Returns("RECV", q)
              \/ result = "RANGE_END" /\ \E c \in {q, CloseClient(q)} : Returns("WAIT_RANGE", c)
              \/ result = "ALL_END" /\ Returns("IDLE", StopProc(q))
    BY PushIs DEF Pushable
  <2> HIDE DEF len, q, result, w
  <2> QED BY <1>1, <2>1
<1>4. /\ {"WAIT_FREE", "RECV", "WAIT_RANGE", "IDLE"} \subseteq States \cup {Hold} /\ Hold # "WAIT_FREE"
      /\ Hold # "RECV" /\ Hold # "WAIT_RANGE" /\ Hold # "IDLE"
      /\ {"SUCCESS", "RANGE_END", "ALL_END", "ERR_BUF_TOO_SMALL"} \subseteq Results
  BY DEF States, Hold, Results
<1>5. UNCHANGED Ranged
  BY DEF Ranged
<1>6. Known(p) /\ (Ranged => p.range_forecast) /\ OfFile(a) /\ OfFile(NoAnswer)
  BY DEF Pushable, OfFile, NoAnswer
<1>7. ASSUME answer' = a \/ answer' = NoAnswer PROVE AnswerInv'
  BY <1>5, <1>6, <1>7 DEF AnswerInv, OfFile
<1>8. answer' = a \/ answer' = NoAnswer
  BY DEF Keep
<1>9. CASE Returns("WAIT_FREE", w) /\ UNCHANGED data
  <2>1. Same(p, w) /\ w.last_error = "ERR_BUF_TOO_SMALL" /\ w.http_opened = p.http_opened
    <3>1. "ERR_BUF_TOO_SMALL" \in Results
      BY <1>4
    <3>2. Same(p, w) /\ w.last_error = "ERR_BUF_TOO_SMALL"
      BY <1>1, <3>1, SmallFields
    <3>3. w.http_opened = p.http_opened
      BY <1>1 DEF With, Proc
    <3> QED BY <3>2, <3>3
  <2>2. /\ w.cur = p.cur /\ w.pre = p.pre /\ w.recv_len = p.recv_len /\ w.read_pos = p.read_pos
        /\ w.total_length = p.total_length
        /\ (w.is_range <=> p.is_range) /\ (w.is_chunked <=> p.is_chunked) /\ (w.more <=> p.more)
        /\ (w.length_received <=> p.length_received) /\ (w.range_forecast <=> p.range_forecast)
    BY <2>1 DEF Same
  <2> HIDE DEF w
  <2>3. cur_state' = "WAIT_FREE" /\ wpc' = "wait" /\ proc' = w
    BY <1>4, <1>9 DEF Returns
  <2>4. w.http_opened /\ answer' = a
    BY <2>1, <2>3 DEF Keep, Pushable
  <2> HIDE DEF len
  <2>5. ReadInv'
    <3>1. Loads' /\ ~Busy' /\ cur_state' # "RECV"
      BY <2>3 DEF Loads, Busy
    <3>2. /\ proc'.is_range <=> Ranged
          /\ proc'.is_chunked \/ proc'.length_received
          /\ ~proc'.more => answer'.got = answer'.len
      BY <2>2, <2>3, <2>4 DEF Pushable
    <3>3. /\ answer'.kind = "file" /\ answer'.got > 0 /\ answer'.got # 0
      BY <1>2, <2>4 DEF Pushable
    <3>4. /\ proc'.http_opened /\ proc'.read_pos < proc'.recv_len
          /\ answer'.from + answer'.got = proc'.pre + (proc'.recv_len - proc'.read_pos)
          /\ ~Ranged => proc'.cur = proc'.pre
      BY <2>2, <2>3, <2>4 DEF Pushable
    <3> QED BY <1>5, <2>3, <3>1, <3>2, <3>3, <3>4 DEF ReadInv
  <2>6. w.pre = origin' + Len(received') /\ InOrder'
    BY <1>2, <1>9, <2>2 DEF data, DataInv, InOrder
  <2>7. Known(w) /\ (Ranged => w.range_forecast)
    BY <1>6, <2>2 DEF Known
  <2> QED BY <1>1, <1>4, <1>7, <1>8, <1>9, <2>1, <2>3, <2>5, <2>6, <2>7, ReturnKeepsData
<1>10. CASE /\ received' = received \o Units(p, a, len) /\ UNCHANGED <<popped, origin>>
            /\ \/ result = "SUCCESS" /\ Returns("RECV", q)
               \/ result = "RANGE_END" /\ \E c \in {q, CloseClient(q)} : Returns("WAIT_RANGE", c)
               \/ result = "ALL_END" /\ Returns("IDLE", StopProc(q))
  <2>1. /\ Units(p, a, len) \in Seq(Int) /\ Len(Units(p, a, len)) = len
        /\ \A i \in 1 .. len :
             Units(p, a, len)[i] = a.from + a.got - p.recv_len + p.read_pos + i - 1
    BY <1>1, <1>2, UnitsAre DEF Pushable
  <2>2. \A i \in 1 .. len : Units(p, a, len)[i] = origin + Len(received) + i - 1
    <3> SUFFICES ASSUME NEW i \in 1 .. len
                 PROVE  Units(p, a, len)[i] = origin + Len(received) + i - 1
      OBVIOUS
    <3>1. Units(p, a, len)[i] = a.from + a.got - p.recv_len + p.read_pos + i - 1
      BY <2>1
    <3> HIDE DEF len
    <3>2. i \in Int
      BY <1>2
    <3>3. /\ len \in Int /\ p.pre \in Int /\ p.read_pos \in Int /\ p.recv_len \in Int
          /\ a.from \in Int /\ a.got \in Int /\ origin \in Int /\ Len(received) \in Int
      BY <1>1, <1>2
    <3>4. a.from + a.got - p.recv_len + p.read_pos = p.pre
      <4>1. a.from + a.got = p.pre + len /\ p.read_pos + len = p.recv_len
        BY <1>2
      <4> QED BY <3>3, <4>1
    <3>5. p.pre = origin + Len(received)
      BY <1>2
    <3> QED BY <3>1, <3>2, <3>3, <3>4, <3>5
  <2> DEFINE u == Units(p, a, len)
  <2>3. u \in Seq(Int) /\ Len(u) = len /\ received' = received \o u
        /\ \A i \in 1 .. Len(u) : u[i] = origin + Len(received) + i - 1
    BY <1>10, <2>1, <2>2
  <2> HIDE DEF u
  <2>4. InOrder'
    BY <1>1, <1>10, <2>3, OrderGrows DEF DataInv
  <2>5. Len(received') = Len(received) + len /\ origin' = origin
    <3>1. Len(received \o u) = Len(received) + Len(u)
      BY <1>1, <2>3, ConcatProperties
    <3> QED BY <1>10, <2>3, <3>1
  <2>6. /\ pushed.pre = p.pre + len /\ pushed.cur = p.cur + len
        /\ pushed.total_length = p.total_length /\ pushed.recv_len = p.recv_len
        /\ pushed.is_range = p.is_range /\ pushed.is_chunked = p.is_chunked /\ pushed.more = p.more
        /\ pushed.length_received = p.length_received /\ pushed.range_forecast = p.range_forecast
        /\ pushed.http_opened = p.http_opened
    BY <1>1 DEF Proc
  <2>7. pushed \in Proc
    <3> HIDE DEF len
    <3>1. p.pre + len \in Nat /\ p.cur + len \in Nat
      <4>1. p.pre \in Nat /\ p.cur \in Nat /\ len \in Nat
        BY <1>2
      <4> QED BY <4>1
    <3>2. p.recv_len \in 0 .. Block
      BY <1>1 DEF Proc
    <3>3. p.read_pos + len \in 0 .. Block
      <4>1. p.read_pos + len = p.recv_len
        BY <1>2
      <4> QED BY <3>2, <4>1
    <3> QED BY <1>1, <3>1, <3>3 DEF Proc
  <2>8. result \in {"SUCCESS", "RANGE_END", "ALL_END"} /\ result \in Results
    BY <1>4 DEF PushResult
  <2>9. result = "ALL_END" => pushed.pre = file.len
    <3>1. pushed.pre = a.from + a.got
      BY <1>2, <2>6
    <3> HIDE DEF pushed
    <3> QED BY <1>1, <2>6, <3>1, EndIsEnd
  <2> HIDE DEF pushed, result
  <2>10. Same(pushed, q) /\ q.last_error = result /\ q.http_opened = pushed.http_opened
    <3>1. pushed \in Proc /\ result \in Results
      BY <2>7, <2>8
    <3>2. Same(pushed, With(pushed, result)) /\ With(pushed, result).last_error = result
      BY <3>1, SmallFields
    <3>3. With(pushed, result).http_opened = pushed.http_opened
      BY <3>1 DEF With, Proc
    <3> QED BY <3>2, <3>3
  <2>11. q \in Proc
    BY <1>1, <2>7, <2>8, ProcTypes
  <2> HIDE DEF q
  <2>12. /\ Same(q, CloseClient(q)) /\ Same(q, StopProc(q))
         /\ CloseClient(q).last_error = result /\ StopProc(q).last_error = result
    BY <2>8, <2>10, <2>11, SmallFields
  <2>13. ASSUME NEW c, c = q \/ Same(q, c)
         PROVE  /\ c.pre = p.pre + len /\ c.cur = p.cur + len /\ c.total_length = p.total_length
                /\ (c.is_range <=> p.is_range) /\ (c.is_chunked <=> p.is_chunked) /\ (c.more <=> p.more)
                /\ (c.length_received <=> p.length_received) /\ (c.range_forecast <=> p.range_forecast)
    BY <2>6, <2>10, <2>13 DEF Same
  <2> HIDE DEF len
  <2>14. ASSUME NEW c, c = q \/ Same(q, c)
         PROVE  /\ c.pre = origin' + Len(received') /\ Known(c) /\ (Ranged => c.range_forecast)
                /\ c.pre = p.pre + len
    <3>1. /\ c.pre = p.pre + len /\ c.total_length = p.total_length
          /\ c.is_chunked <=> p.is_chunked
          /\ (c.length_received <=> p.length_received) /\ (c.range_forecast <=> p.range_forecast)
      BY <2>13, <2>14
    <3> QED BY <1>1, <1>2, <1>6, <2>5, <3>1 DEF Known
  <2>15. CASE result = "SUCCESS" /\ Returns("RECV", q)
    <3>1. cur_state' = "RECV" /\ proc' = q /\ wpc' = "wait"
      BY <1>4, <2>15 DEF Returns
    <3>2. answer' = a
      BY <2>6, <2>10, <3>1 DEF Keep, Pushable
    <3>3. /\ q.pre = p.pre + len /\ q.cur = p.cur + len /\ q.total_length = p.total_length
          /\ (q.is_range <=> p.is_range) /\ (q.is_chunked <=> p.is_chunked) /\ (q.more <=> p.more)
          /\ q.length_received <=> p.length_received
      BY <2>13
    <3>4. a.from + a.got = IF Ranged THEN q.pre ELSE q.cur
      BY <1>2, <3>3 DEF Pushable
    <3>5. ReadInv'
      <4>1. cur_state' # "WAIT_FREE"
        BY <3>1
      <4>2. /\ proc'.is_range <=> Ranged
            /\ proc'.is_chunked \/ proc'.length_received
            /\ ~proc'.more => answer'.got = answer'.len
        BY <3>1, <3>2, <3>3 DEF Pushable
      <4>3. answer'.got # 0 /\ answer'.from + answer'.got = IF Ranged THEN proc'.pre ELSE proc'.cur
        BY <1>2, <3>1, <3>2, <3>4 DEF Pushable
      <4> QED BY <1>5, <4>1, <4>2, <4>3 DEF ReadInv
    <3>6. q.last_error = "SUCCESS"
      BY <2>10, <2>15
    <3> QED BY <1>1, <1>4, <1>7, <1>8, <2>4, <2>14, <2>15, <3>1, <3>5, <3>6, ReturnKeepsData
  <2>16. ASSUME NEW c \in {q, CloseClient(q)}, result = "RANGE_END", Returns("WAIT_RANGE", c)
         PROVE  DataInv'
    <3>1. cur_state' = "WAIT_RANGE"
      BY <1>4, <2>16 DEF Returns
    <3>2. ReadInv'
      BY <3>1, NothingRead
    <3>3. c.last_error = "RANGE_END" /\ (c = q \/ Same(q, c))
      BY <2>10, <2>12, <2>16
    <3> QED BY <1>1, <1>4, <1>7, <1>8, <2>4, <2>14, <2>16, <3>1, <3>2, <3>3, ReturnKeepsData
  <2>17. CASE result = "ALL_END" /\ Returns("IDLE", StopProc(q))
    <3>1. cur_state' = "IDLE"
      BY <1>4, <2>17 DEF Returns
    <3>2. ReadInv'
      BY <3>1, NothingRead
    <3> DEFINE c == StopProc(q)
    <3>3. c.last_error = "ALL_END" /\ Same(q, c) /\ Returns("IDLE", c)
      BY <2>12, <2>17
    <3> HIDE DEF c
    <3>4. c.pre = file.len
      BY <2>6, <2>9, <2>14, <2>17, <3>3
    <3> QED BY <1>1, <1>4, <1>7, <1>8, <2>4, <2>14, <3>1, <3>2, <3>3, <3>4, ReturnKeepsData
  <2> QED BY <1>10, <2>15, <2>16, <2>17
<1> QED BY <1>3, <1>9, <1>10

(* What is known of the file is kept when proc becomes p.                  *)
Steady(p) ==
  /\ p.pre = proc.pre /\ Known(p)
  /\ Ranged /\ (cur_state # "IDLE" \/ Busy) => p.range_forecast

(* The small functions keep it.                                            *)
LEMMA ContentIsSteady ==
  ASSUME DataInv
  PROVE  /\ Steady(proc)
         /\ \A p, q : Steady(p) /\ Content(p, q) => Steady(q)
<1>1. Steady(proc)
  BY DEF DataInv, LengthInv, Steady, Known
<1>2. ASSUME NEW p, NEW q, Steady(p), Content(p, q) PROVE Steady(q)
  BY <1>2 DEF Steady, Known, Content
<1> QED BY <1>1, <1>2

Fields ==
  {"last_error", "recv_buf", "http_opened", "err_conn", "err_recv", "is_range", "range_forecast",
   "range_end", "close_if_rang_end", "redirect", "is_chunked", "length_received", "total_length",
   "pre", "cur", "more", "recv_len", "read_pos"}

(* The small functions leave the content alone, whatever the counts are.   *)
LEMMA ContentKept ==
  ASSUME NEW p, DOMAIN p = Fields, NEW r
  PROVE  /\ Content(p, With(p, r)) /\ With(p, r).last_error = r
         /\ With(p, r).http_opened = p.http_opened
         /\ Content(p, CloseClient(p)) /\ CloseClient(p).last_error = p.last_error
         /\ Content(p, CloseClient(With(p, r))) /\ CloseClient(With(p, r)).last_error = r
         /\ Content(p, StopProc(With(p, r))) /\ StopProc(With(p, r)).last_error = r
<1> DEFINE w == With(p, r)
<1>1. /\ Content(p, w) /\ w.last_error = r /\ w.http_opened = p.http_opened /\ DOMAIN w = Fields
  BY DEF Content, With, Fields
<1> HIDE DEF w
<1>2. ASSUME NEW q, DOMAIN q = Fields
      PROVE  /\ Content(q, CloseClient(q)) /\ CloseClient(q).last_error = q.last_error
             /\ Content(q, StopProc(q)) /\ StopProc(q).last_error = q.last_error
  BY <1>2 DEF Content, CloseClient, StopProc, Fields
<1>3. /\ Content(w, CloseClient(w)) /\ CloseClient(w).last_error = r
      /\ Content(w, StopProc(w)) /\ StopProc(w).last_error = r
  BY <1>1, <1>2
<1>4. Content(p, CloseClient(w)) /\ Content(p, StopProc(w))
  BY <1>1, <1>3 DEF Content
<1>5. Content(p, CloseClient(p)) /\ CloseClient(p).last_error = p.last_error
  BY <1>2
<1> QED BY <1>1, <1>3, <1>4, <1>5 DEF w

(* A return that stores nothing.                                           *)
LEMMA QuietReturn ==
  ASSUME TypeOK, CallInv, DataInv, Active, NEW state \in States \cup {Hold}, NEW p, Returns(state, p),
         Steady(p), UNCHANGED <<file, caller, data>>, answer' = answer \/ answer' = NoAnswer,
         cur_state' # "IDLE" => cur_state # "IDLE" \/ Busy,
         p.last_error = "ALL_END" => proc.last_error = "ALL_END",
         p.last_error = "SUCCESS" => cur_state' # "IDLE" \/ cpc = "stop",
         ReadInv'
  PROVE  DataInv'
<1>1. AnswerInv'
  BY AnswerStays DEF DataInv
<1>2. p.pre = origin' + Len(received') /\ InOrder'
  BY DEF Steady, DataInv, PlaceInv, InOrder, data
<1>3. p.last_error = "ALL_END" => p.pre = file.len
  BY DEF Steady, DataInv, EndInv
<1> QED BY <1>1, <1>2, <1>3, ReturnKeepsData DEF Steady

(* An action that goes on: nothing is being read any more.                 *)
LEMMA QuietMove ==
  ASSUME CallInv, DataInv, Active, NEW p, GoesOn(p), Steady(p), cur_state # "WAIT_FREE",
         UNCHANGED <<file, caller, data>>, answer' = answer \/ answer' = NoAnswer,
         Ranged => p.range_forecast,
         p.last_error = "ALL_END" => proc.last_error = "ALL_END",
         cur_state = "IDLE" => p.last_error = "SUCCESS",
         answer'.kind # "file" \/ cur_state # "RECV"
  PROVE  DataInv'
<1>1. /\ wpc' = "conn" /\ proc' = p /\ UNCHANGED <<cur_state, taken, bits>>
  BY DEF GoesOn
<1>2. AnswerInv'
  BY AnswerStays DEF DataInv
<1>3. ReadInv'
  BY <1>1, NothingRead
<1> QED BY <1>1, <1>2, <1>3, MoveKeepsData DEF Busy, Steady

(* A block is taken for what the server makes of ranges.                   *)
LEMMA RangeIs ==
  ASSUME TypeOK, DataInv, cur_state = "RECV", answer.got < answer.len
  PROVE  IsRange <=> Ranged
<1>1. /\ answer.got \in Nat /\ answer.len \in Nat /\ file \in File
  BY Sizes DEF TypeOK, Answer
<1>2. file.ask \in BOOLEAN /\ file.ranges \in BOOLEAN
  BY <1>1 DEF File
<1>3. answer.kind = "file" /\ (answer.ranged <=> file.ranges)
  BY <1>1 DEF DataInv, AnswerInv, OfFile
<1>4. CASE answer.got = 0
  BY <1>2, <1>3, <1>4 DEF IsRange, Ranged
<1>5. CASE answer.got # 0
  <2>1. proc.is_range <=> Ranged
    BY <1>1, <1>3, <1>5 DEF DataInv, ReadInv, Loads
  <2> QED BY <1>2, <1>5, <2>1 DEF IsRange, Ranged
<1> QED BY <1>4, <1>5

(* http_download_proc_recv: the next block begins where the last one       *)
(* ended, or at the beginning of the file, and what is known of the length *)
(* is the length of the file.                                              *)
LEMMA BlockIsNext ==
  ASSUME TypeOK, CountInv, DataInv, cur_state = "RECV", proc.http_opened, answer.got < answer.len,
         NEW p, p = NextBlock, NEW a, a = [answer EXCEPT !.got = @ + p.recv_len]
  PROVE  /\ Steady(p) /\ OfFile(a) /\ a.kind = "file"
         /\ p.http_opened
         /\ p.read_pos < p.recv_len => Pushable(p, a)
         /\ ~(p.read_pos < p.recv_len) => ~Ranged /\ a.from + a.got = p.cur
         /\ a.got > 0 /\ (p.is_range <=> Ranged) /\ (p.is_chunked \/ p.length_received)
         /\ ~p.more => a.got = a.len
<1>1. /\ answer \in Answer /\ answer.from \in Nat /\ answer.got \in Nat /\ answer.len \in Nat
      /\ file \in File /\ file.len \in Nat /\ file.len > 0 /\ file.ask \in BOOLEAN
      /\ file.ranges \in BOOLEAN /\ file.chunked \in BOOLEAN
      /\ proc \in Proc /\ proc.pre \in Nat /\ proc.cur \in Nat
  <2>1. answer \in Answer /\ file \in File /\ proc \in Proc
    BY Sizes DEF TypeOK
  <2>2. answer.from \in Nat /\ answer.got \in Nat /\ answer.len \in Nat
    BY <2>1 DEF Answer
  <2>3. /\ file.len \in Nat /\ file.len > 0 /\ file.ask \in BOOLEAN
        /\ file.ranges \in BOOLEAN /\ file.chunked \in BOOLEAN
    BY <2>1 DEF File
  <2>4. proc.pre \in Nat /\ proc.cur \in Nat
    BY <2>1 DEF Proc
  <2> QED BY <2>1, <2>2, <2>3, <2>4
<1>2. /\ answer.kind = "file" /\ (answer.ranged <=> file.ranges)
      /\ answer.size = IF Ranged THEN file.len ELSE 0
      /\ IF Ranged THEN answer.from + answer.len <= file.len
         ELSE answer.from = 0 /\ answer.len = file.len
  BY <1>1 DEF DataInv, AnswerInv, OfFile
<1>3. Loads
  BY DEF Loads
<1>4. IF Ranged THEN answer.from + answer.got = proc.pre ELSE answer.got = proc.cur
  BY <1>1, <1>2, <1>3 DEF DataInv, ReadInv
<1>5. IsRange <=> Ranged
  BY RangeIs
<1>6. /\ WellFormed(p)
      /\ p.recv_len \in 1 .. Block /\ answer.got + p.recv_len <= answer.len
      /\ ~p.more => answer.got + p.recv_len = answer.len
      /\ Sound(a)
      /\ p.pre = proc.pre /\ p.cur <= p.pre
      /\ IsRange => p.read_pos = 0
      /\ ~IsRange => p.cur = proc.cur + p.read_pos
      /\ p.read_pos < p.recv_len => p.cur = p.pre
      /\ p.is_chunked \/ p.length_received
  BY BlockRead
<1>7. /\ p.is_range <=> IsRange
      /\ p.http_opened
      /\ p.range_forecast <=> proc.range_forecast
  BY BlockRead
<1>8. Known(p)
  <2>1. Known(proc)
    BY DEF DataInv, LengthInv, Known
  <2>2. CASE file.chunked
    <3>1. p.is_chunked /\ (p.length_received <=> proc.length_received)
      BY <1>2, <2>2, BlockRead
    <3> QED BY <2>1, <2>2, <3>1 DEF Known
  <2>3. CASE ~file.chunked
    <3>1. /\ p.length_received /\ (p.is_chunked <=> proc.is_chunked)
          /\ p.total_length = IF proc.length_received THEN proc.total_length
                              ELSE IF IsRange /\ answer.size > 0 THEN answer.size ELSE answer.len
      BY <2>3, BlockRead
    <3>2. p.total_length = file.len
      <4>1. CASE proc.length_received
        BY <2>1, <3>1, <4>1 DEF Known
      <4>2. CASE ~proc.length_received /\ Ranged
        BY <1>1, <1>2, <1>5, <3>1, <4>2
      <4>3. CASE ~proc.length_received /\ ~Ranged
        BY <1>2, <1>5, <3>1, <4>3
      <4> QED BY <4>1, <4>2, <4>3
    <3> QED BY <2>1, <2>3, <3>1, <3>2 DEF Known
  <2> QED BY <2>2, <2>3
<1>9. Ranged => p.range_forecast
  BY <1>7 DEF DataInv, LengthInv
<1>10. Steady(p)
  BY <1>6, <1>8, <1>9 DEF Steady
<1>11. /\ a.kind = answer.kind /\ a.from = answer.from /\ a.len = answer.len /\ a.size = answer.size
       /\ a.ranged = answer.ranged /\ a.got = answer.got + p.recv_len
  BY <1>1 DEF Answer
<1>12. OfFile(a) /\ a.kind = "file"
  BY <1>1, <1>2, <1>11 DEF DataInv, AnswerInv, OfFile
<1>13. /\ p.recv_len \in Nat /\ p.recv_len >= 1 /\ p.read_pos \in Nat /\ p.read_pos <= p.recv_len
       /\ a.from \in Nat /\ a.got \in Nat /\ p.pre \in Nat /\ p.cur \in Nat
  <2>1. p \in Proc /\ p.read_pos <= p.recv_len
    BY <1>6 DEF WellFormed, Measurable
  <2>2. p.recv_len \in 0 .. Block /\ p.read_pos \in 0 .. Block /\ Block \in Nat /\ p.pre \in Nat /\ p.cur \in Nat
    BY <2>1, Sizes DEF Proc
  <2> QED BY <1>1, <1>6, <1>11, <2>1, <2>2
<1>14. a.got > 0 /\ (~p.more => a.got = a.len)
  BY <1>1, <1>6, <1>11, <1>13
<1>15. a.from + a.got = answer.from + answer.got + p.recv_len
  BY <1>1, <1>11, <1>13
<1>16. CASE p.read_pos < p.recv_len
  <2>1. a.from + a.got = p.pre + (p.recv_len - p.read_pos)
    <3>1. CASE Ranged
      BY <1>1, <1>4, <1>5, <1>6, <1>13, <1>15, <3>1
    <3>2. CASE ~Ranged
      BY <1>1, <1>2, <1>4, <1>5, <1>6, <1>13, <1>15, <1>16, <3>2
    <3> QED BY <3>1, <3>2
  <2>2. Pushable(p, a)
    BY <1>5, <1>6, <1>7, <1>8, <1>9, <1>12, <1>14, <1>16, <2>1 DEF Pushable
  <2> QED BY <1>5, <1>6, <1>7, <1>10, <1>12, <1>14, <1>16, <2>2
<1>17. CASE ~(p.read_pos < p.recv_len)
  <2>1. p.read_pos = p.recv_len /\ ~Ranged
    BY <1>5, <1>6, <1>13, <1>17
  <2>2. a.from + a.got = p.cur
    BY <1>1, <1>2, <1>4, <1>5, <1>6, <1>13, <1>15, <2>1
  <2> QED BY <1>5, <1>6, <1>7, <1>10, <1>12, <1>14, <1>17, <2>1, <2>2
<1> QED BY <1>16, <1>17

(* A block that waits for room is the next one.                            *)
LEMMA WaitingIsNext ==
  ASSUME TypeOK, CountInv, DataInv, cur_state = "WAIT_FREE"
  PROVE  Pushable(proc, answer)
<1>1. /\ proc.http_opened /\ answer.kind = "file" /\ answer.got > 0
      /\ proc.read_pos < proc.recv_len
      /\ answer.from + answer.got = proc.pre + (proc.recv_len - proc.read_pos)
      /\ ~Ranged => proc.cur = proc.pre
      /\ proc.is_range <=> Ranged
      /\ proc.is_chunked \/ proc.length_received
      /\ ~proc.more => answer.got = answer.len
  BY DEF DataInv, ReadInv, Loads
<1>2. WellFormed(proc) /\ Sound(answer) /\ proc.cur <= proc.pre
  BY DEF CountInv, Loads
<1>3. Known(proc) /\ (Ranged => proc.range_forecast)
  BY DEF DataInv, LengthInv, Known
<1>4. OfFile(answer)
  BY DEF DataInv, AnswerInv
<1> QED BY <1>1, <1>2, <1>3, <1>4 DEF Pushable

(* An answer to a request for what the buffer wants next.                  *)
LEMMA AnswersAreOfFile ==
  ASSUME Trouble = {}, file \in File, NEW first \in Nat, NEW last \in Int,
         NEW a \in Answers(first, last) \cup ErrorPages
  PROVE  /\ OfFile(a) /\ a.got = 0
         /\ a.kind = "file" /\ Ranged =>
              /\ a.from = first /\ first < file.len
              /\ a.len = (IF last > 0 THEN Smaller(last + 1, file.len) ELSE file.len) - first
<1> DEFINE Good(x) == /\ OfFile(x) /\ x.got = 0
                      /\ x.kind = "file" /\ Ranged =>
                           /\ x.from = first /\ first < file.len
                           /\ x.len = (IF last > 0 THEN Smaller(last + 1, file.len) ELSE file.len) - first
<1>1. file.len \in Nat /\ file.len > 0 /\ file.ranges \in BOOLEAN /\ file.ask \in BOOLEAN
  BY DEF File
<1>2. ASSUME a \in ErrorPages PROVE Good(a)
  <2>1. PICK len \in {0, 1} :
          /\ a = [kind |-> "error", from |-> 0, len |-> len, got |-> 0, ranged |-> FALSE, size |-> 0]
          /\ len = 0 \/ "error_body" \in Trouble
    BY <1>2, ErrorPageIs
  <2>2. a.kind = "error" /\ a.len = 0 /\ a.got = 0
    BY <2>1
  <2> QED BY <2>2 DEF OfFile
<1>3. ASSUME ~Ranged, a = WholeFile PROVE Good(a)
  <2>1. /\ a.kind = "file" /\ a.from = 0 /\ a.len = file.len /\ a.got = 0 /\ a.size = 0
        /\ a.ranged = file.ranges
    BY <1>3 DEF WholeFile
  <2> QED BY <1>1, <1>3, <2>1 DEF OfFile
<1>4. ASSUME a = [NoAnswer EXCEPT !.kind = "moved"] PROVE Good(a)
  <2>1. a.kind = "moved" /\ a.len = 0 /\ a.got = 0
    BY <1>4 DEF NoAnswer
  <2> QED BY <2>1 DEF OfFile
<1>5. ASSUME Ranged, ~(first >= file.len), ~(0 < last /\ last < first),
             a = [kind |-> "file", from |-> first, got |-> 0, ranged |-> TRUE, size |-> file.len,
                  len |-> (IF last > 0 THEN Smaller(last + 1, file.len) ELSE file.len) - first]
      PROVE  Good(a)
  <2> DEFINE n == (IF last > 0 THEN Smaller(last + 1, file.len) ELSE file.len) - first
  <2>1. /\ a.kind = "file" /\ a.from = first /\ a.len = n /\ a.got = 0 /\ a.size = file.len
        /\ a.ranged = TRUE
    BY <1>5
  <2>2. n \in Nat /\ n > 0 /\ first + n <= file.len /\ first < file.len
    BY <1>1, <1>5 DEF Smaller
  <2>3. file.ranges = TRUE
    BY <1>1, <1>5 DEF Ranged
  <2> HIDE DEF n
  <2>4. OfFile(a)
    BY <1>5, <2>1, <2>2, <2>3 DEF OfFile
  <2> QED BY <2>1, <2>2, <2>4 DEF n
<1>6. Good(a)
  <2>1. CASE a \in ErrorPages
    BY <1>2, <2>1
  <2>2. CASE a \notin ErrorPages
    <3>1. "empty_range" \notin Trouble
      OBVIOUS
    <3>2. \/ a = [NoAnswer EXCEPT !.kind = "moved"]
          \/ (~file.ask \/ ~file.ranges) /\ a = WholeFile
          \/ /\ file.ask /\ file.ranges /\ ~(first >= file.len) /\ ~(0 < last /\ last < first)
             /\ a = [kind |-> "file", from |-> first, got |-> 0, ranged |-> TRUE, size |-> file.len,
                     len |-> (IF last > 0 THEN Smaller(last + 1, file.len) ELSE file.len) - first]
      BY <2>2, <3>1 DEF Answers
    <3> HIDE DEF Good
    <3> QED BY <1>3, <1>4, <1>5, <3>2 DEF Ranged
  <2> QED BY <2>1, <2>2
<1> QED BY <1>6

(* The worker's steps keep the places, the order, the lengths and the end. *)
LEMMA WorkKeepsData ==
  ASSUME Trouble = {}, TypeOK, CallInv, CountInv, DataInv
  PROVE  Work => DataInv'
<1>1. /\ file \in File /\ proc \in Proc /\ answer \in Answer /\ cur_state \in States
      /\ WellFormed(proc) /\ Sound(answer) /\ DOMAIN proc = Fields
  BY Sizes DEF TypeOK, CountInv, Proc, Fields
<1>2. /\ Steady(proc)
      /\ \A p, q : Steady(p) /\ Content(p, q) => Steady(q)
  BY ContentIsSteady
<1>3. {Hold, "IDLE", "RECV", "PAUSE", "WAIT_FREE", "WAIT_RANGE"} \subseteq States \cup {Hold}
      /\ Hold \notin States
  BY DEF States, Hold
<1>4. Busy => Active /\ cur_state # "WAIT_FREE"
  BY DEF CallInv, Busy, Active, DataInv, ReadInv
<1>5. cur_state # "IDLE" => Active
  BY DEF Active
<1>6. /\ \A s : Polls(s) => cur_state = s /\ cur_state # "IDLE" /\ wpc = "handle" /\ Active
      /\ Handles({{"START"}}) => cur_state = "IDLE" /\ Active
      /\ Handles({{"STOP"}}) => cur_state # "IDLE" /\ Active /\ cpc = "stop"
      /\ Handles({{"PAUSE"}}) => cur_state # "IDLE" /\ Active
      /\ Handles({{"RESUME"}}) => cur_state = "PAUSE" /\ Active
      /\ Handles({}) => cur_state \in {"IDLE", "PAUSE"} /\ (cur_state = "IDLE" => "START" \notin taken)
  BY <1>1, Handled DEF Polls, Active, CallInv, Posted
<1>7. ASSUME NEW p, NEW state, Returns(state, p)
      PROVE  /\ proc' = p /\ wpc' = "wait" /\ ~Busy'
             /\ cur_state' = IF state = Hold THEN cur_state ELSE state
  BY <1>7 DEF Returns, Busy
<1>8. \A r : /\ Content(proc, With(proc, r)) /\ With(proc, r).last_error = r
             /\ With(proc, r).http_opened = proc.http_opened
             /\ Content(proc, CloseClient(proc)) /\ CloseClient(proc).last_error = proc.last_error
             /\ Content(proc, CloseClient(With(proc, r))) /\ CloseClient(With(proc, r)).last_error = r
             /\ Content(proc, StopProc(With(proc, r))) /\ StopProc(With(proc, r)).last_error = r
  BY <1>1, ContentKept
<1>9. ASSUME NEW p, DOMAIN p = Fields, Steady(p), NEW limit \in {"ERR_TRY_RECV", "ERR_RESPONSE"},
             Retry(p, limit), cur_state = "RECV", answer' = NoAnswer, UNCHANGED <<file, caller, data>>
      PROVE  DataInv'
  <2> DEFINE stop == StopProc(With(p, limit))
             again == CloseClient(With(p, "ERR_RECV"))
  <2>1. Content(p, stop) /\ stop.last_error = limit
        /\ Content(p, again) /\ again.last_error = "ERR_RECV"
    BY <1>9, ContentKept
  <2>2. Returns("IDLE", stop) \/ GoesOn(again)
    BY <1>9 DEF Retry
  <2> HIDE DEF stop, again
  <2>3. Steady(stop) /\ Steady(again)
    BY <1>2, <1>9, <2>1
  <2>4. answer'.kind # "file"
    BY <1>9 DEF NoAnswer
  <2>5. CASE Returns("IDLE", stop)
    <3>1. cur_state' = "IDLE"
      BY <1>3, <1>7, <2>5 DEF States
    <3>2. ReadInv'
      BY <3>1, NothingRead
    <3> QED BY <1>3, <1>5, <1>9, <2>1, <2>3, <2>5, <3>1, <3>2, QuietReturn
  <2>6. CASE GoesOn(again)
    <3>1. Ranged => again.range_forecast
      BY <1>9, <2>3 DEF Steady
    <3> QED BY <1>5, <1>9, <2>1, <2>3, <2>4, <2>6, <3>1, QuietMove
  <2> QED BY <2>2, <2>5, <2>6
<1>10. CASE Takes
  <2>1. /\ wpc = "wait" /\ wpc' = "handle" /\ taken' = pending /\ pending' = {}
        /\ UNCHANGED <<file, cur_state, proc, answer, data, caller>>
    BY <1>10 DEF Takes
  <2>2. taken = {} /\ ~Busy /\ ~Busy'
    BY <2>1 DEF CallInv, Busy
  <2> QED BY <2>1, <2>2 DEF DataInv, PlaceInv, InOrder, LengthInv, AnswerInv, OfFile, ReadInv, EndInv,
                            Ranged, Loads, data, caller
<1>11. CASE HandlesEvent
  <2>0. UNCHANGED <<file, shared, answer, data, caller, faults>>
    BY <1>11 DEF HandlesEvent
  <2>1. CASE Handles({}) /\ Returns(Hold, proc)
    <3>1. /\ UNCHANGED <<cur_state, proc, pending>> /\ taken' = {} /\ ~Busy' /\ ~Busy
      BY <2>1 DEF Returns, Busy, Handles
    <3>2. "START" \in pending' \cup taken' <=> "START" \in pending \cup taken
      BY <1>6, <2>1, <3>1 DEF CallInv
    <3> QED BY <2>0, <3>1, <3>2 DEF DataInv, PlaceInv, InOrder, LengthInv, AnswerInv, OfFile, ReadInv,
                                    EndInv, Ranged, Loads, data, caller
  <2>2. CASE Handles({{"START"}}) /\ GoesOn(StartProc(proc))
    <3> DEFINE p == StartProc(proc)
    <3>1. /\ p.pre = proc.pre /\ p.last_error = "SUCCESS" /\ p.is_chunked = FALSE
          /\ p.range_forecast = file.ask
      BY <1>1 DEF StartProc, Fields
    <3>2. /\ p.length_received => proc.pre > 0 /\ proc.length_received
          /\ p.total_length = IF proc.pre <= 0 THEN -1 ELSE proc.total_length
      BY <1>1 DEF StartProc, Fields
    <3>3. proc.pre \in Nat
      BY <1>1 DEF Proc
    <3> HIDE DEF p
    <3>4. Known(p)
      BY <1>2, <3>1, <3>2, <3>3 DEF Known, Steady
    <3>5. Steady(p) /\ (Ranged => p.range_forecast)
      BY <3>1, <3>4 DEF Steady, Ranged
    <3>6. GoesOn(p) /\ cur_state = "IDLE" /\ Active
      BY <1>6, <2>2 DEF p
    <3> QED BY <2>0, <3>1, <3>5, <3>6, QuietMove
  <2>3. CASE Handles({{"STOP"}}) /\ Returns("IDLE", StopProc(With(proc, "SUCCESS")))
    <3>1. cur_state' = "IDLE"
      BY <1>3, <1>7, <2>3 DEF States
    <3>2. ReadInv'
      BY <3>1, NothingRead
    <3> DEFINE p == StopProc(With(proc, "SUCCESS"))
    <3>3. Steady(p) /\ p.last_error = "SUCCESS" /\ Returns("IDLE", p)
      BY <1>2, <1>8, <2>3
    <3> HIDE DEF p
    <3> QED BY <1>3, <1>6, <2>0, <2>3, <3>1, <3>2, <3>3, QuietReturn
  <2>4. CASE Handles({{"PAUSE"}}) /\ Returns("PAUSE", CloseClient(proc))
    <3>1. cur_state' = "PAUSE"
      BY <1>3, <1>7, <2>4 DEF States
    <3>2. ReadInv'
      BY <3>1, NothingRead
    <3> DEFINE p == CloseClient(proc)
    <3>3. Steady(p) /\ p.last_error = proc.last_error /\ Returns("PAUSE", p)
      BY <1>2, <1>8, <2>4
    <3> HIDE DEF p
    <3> QED BY <1>3, <1>6, <2>0, <2>4, <3>1, <3>2, <3>3, QuietReturn
  <2>5. CASE Handles({{"RESUME"}}) /\ GoesOn(proc)
    <3>1. Ranged => proc.range_forecast
      BY <1>6, <2>5 DEF DataInv, LengthInv
    <3> QED BY <1>2, <1>6, <2>0, <2>5, <3>1, QuietMove
  <2> QED BY <1>11, <2>1, <2>2, <2>3, <2>4, <2>5 DEF HandlesEvent
<1>12. CASE StartFails
  <2> DEFINE p == StopProc(With(proc, "ERR_MALLOC"))
  <2>1. /\ Returns(Hold, p) /\ cur_state = "IDLE" /\ Active /\ answer' = NoAnswer
        /\ UNCHANGED <<file, data, caller>>
    BY <1>6, <1>12 DEF StartFails
  <2>2. Steady(p) /\ p.last_error = "ERR_MALLOC"
    BY <1>2, <1>8
  <2> HIDE DEF p
  <2>3. cur_state' = "IDLE"
    BY <1>7, <2>1
  <2>4. ReadInv'
    BY <2>3, NothingRead
  <2> QED BY <1>3, <2>1, <2>2, <2>3, <2>4, QuietReturn
<1>13. CASE Conn
  <2>1. /\ Busy /\ UNCHANGED <<file, data, caller>> /\ Keep(answer)
    BY <1>13 DEF Conn, Busy
  <2>2. answer' = answer \/ answer' = NoAnswer
    BY <2>1 DEF Keep
  <2>3. CASE Returns("IDLE", StopProc(With(proc, "ERR_PARAM")))
    <3> DEFINE p == StopProc(With(proc, "ERR_PARAM"))
    <3>1. cur_state' = "IDLE"
      BY <1>3, <1>7, <2>3 DEF States
    <3>2. ReadInv'
      BY <3>1, NothingRead
    <3>3. Steady(p) /\ p.last_error = "ERR_PARAM" /\ Returns("IDLE", p)
      BY <1>2, <1>8, <2>3
    <3> HIDE DEF p
    <3> QED BY <1>3, <1>4, <2>1, <2>2, <3>1, <3>2, <3>3, QuietReturn
  <2>4. CASE /\ wpc' = IF proc.http_opened THEN "send" ELSE "connect"
             /\ UNCHANGED <<cur_state, proc, taken, bits>>
    <3>1. Busy'
      BY <2>4 DEF Busy
    <3>2. Content(proc, proc')
      BY <2>4 DEF Content
    <3>3. ReadInv'
      <4>1. CASE answer' = answer
        BY <1>4, <2>1, <2>4, <3>2, <4>1, ReadStays DEF DataInv
      <4>2. CASE answer' = NoAnswer
        <5>1. answer'.kind # "file" /\ cur_state' # "WAIT_FREE"
          BY <1>4, <2>1, <2>4, <4>2 DEF NoAnswer
        <5> QED BY <5>1, NothingRead
      <4> QED BY <2>2, <4>1, <4>2
    <3>4. AnswerInv'
      BY <2>1, <2>2, AnswerStays DEF DataInv
    <3>5. Known(proc') /\ (Ranged => proc'.range_forecast) /\ proc' = proc
      BY <1>2, <2>1, <2>4 DEF Steady
    <3>6. cur_state = "IDLE" => proc'.last_error = "SUCCESS"
      BY <1>4, <2>1, <2>4 DEF DataInv, EndInv, Active
    <3> QED BY <1>4, <2>1, <2>4, <3>1, <3>3, <3>4, <3>5, <3>6, MoveKeepsData
  <2> QED BY <1>13, <2>3, <2>4 DEF Conn
<1>14. CASE Connects
  <2>1. /\ Busy /\ Busy' /\ proc' = [proc EXCEPT !.http_opened = TRUE, !.err_conn = 0]
        /\ UNCHANGED <<file, cur_state, taken, bits, answer, data, caller>>
    BY <1>14 DEF Connects, Busy
  <2>2. Content(proc, proc') /\ proc'.last_error = proc.last_error
    BY <1>1, <2>1 DEF Content, Fields
  <2>3. ReadInv'
    BY <1>4, <2>1, <2>2, ReadStays DEF DataInv
  <2>4. AnswerInv'
    BY <2>1, AnswerStays DEF DataInv
  <2>5. Steady(proc')
    BY <1>2, <2>2
  <2>6. Known(proc') /\ (Ranged => proc'.range_forecast) /\ proc'.pre = proc.pre
    BY <2>1, <2>5 DEF Steady
  <2>7. cur_state = "IDLE" => proc.last_error = "SUCCESS"
    BY <1>4, <2>1 DEF DataInv, EndInv, Active
  <2> QED BY <1>4, <2>1, <2>2, <2>3, <2>4, <2>6, <2>7, MoveKeepsData
<1>15. CASE ConnectFails
  <2> DEFINE p == [proc EXCEPT !.err_conn = @ + 1]
             stop == StopProc(With(p, "ERR_TRY_CONN"))
             close == CloseClient(With(p, "ERR_CONN"))
  <2>1. /\ Busy /\ UNCHANGED <<file, answer, data, caller>>
        /\ Returns("IDLE", stop) \/ Returns(Hold, close)
    BY <1>15 DEF ConnectFails, Busy
  <2>2. Content(proc, p) /\ DOMAIN p = Fields
    BY <1>1 DEF Content, Fields
  <2> HIDE DEF p
  <2>3. /\ Content(p, stop) /\ stop.last_error = "ERR_TRY_CONN"
        /\ Content(p, close) /\ close.last_error = "ERR_CONN"
    BY <2>2, ContentKept
  <2> HIDE DEF stop, close
  <2>4. Content(proc, close) /\ Steady(stop) /\ Steady(close)
    <3>1. Content(proc, close)
      BY <2>2, <2>3 DEF Content
    <3> QED BY <1>2, <2>2, <2>3, <3>1
  <2>5. CASE Returns("IDLE", stop)
    <3>1. cur_state' = "IDLE"
      BY <1>3, <1>7, <2>5 DEF States
    <3>2. ReadInv'
      BY <3>1, NothingRead
    <3> QED BY <1>3, <1>4, <2>1, <2>3, <2>4, <2>5, <3>1, <3>2, QuietReturn
  <2>6. CASE Returns(Hold, close)
    <3>1. cur_state' = cur_state /\ proc' = close
      BY <1>7, <2>6
    <3>2. ReadInv'
      BY <1>4, <2>1, <2>4, <3>1, ReadStays DEF DataInv
    <3> QED BY <1>3, <1>4, <2>1, <2>3, <2>4, <2>6, <3>1, <3>2, QuietReturn
  <2> QED BY <2>1, <2>5, <2>6
<1>16. CASE Sends
  <2> DEFINE end == IF file.ask THEN proc.pre + RangeCount ELSE proc.range_end
             w == With(proc, "SUCCESS")
             p == [w EXCEPT !.cur = 0, !.more = FALSE, !.range_end = end]
  <2>1. /\ Busy /\ Returns("RECV", p) /\ UNCHANGED <<file, data, caller>>
        /\ answer' \in Answers(proc.pre, end - 1) \cup ErrorPages
    BY <1>16 DEF Sends, Busy
  <2>2. end \in Nat /\ proc.pre \in Nat /\ end - 1 \in Int
    BY <1>1, RangeEndIs DEF Proc
  <2> HIDE DEF end
  <2>3. DOMAIN w = Fields /\ Content(proc, w) /\ w.last_error = "SUCCESS"
    BY <1>1, <1>8 DEF With, Fields
  <2>4. Steady(w)
    BY <1>2, <2>3
  <2> HIDE DEF w
  <2>5. /\ p.cur = 0 /\ p.pre = w.pre /\ p.last_error = "SUCCESS" /\ p.total_length = w.total_length
        /\ p.length_received = w.length_received /\ p.is_chunked = w.is_chunked
        /\ p.range_forecast = w.range_forecast
    BY <2>3 DEF Fields
  <2> HIDE DEF p
  <2>6. Known(p) /\ p.pre = proc.pre /\ (Ranged => p.range_forecast)
    BY <2>1, <2>4, <2>5 DEF Steady, Known
  <2>7. /\ OfFile(answer') /\ answer'.got = 0
        /\ answer'.kind = "file" /\ Ranged => answer'.from = proc.pre
    BY <1>1, <2>1, <2>2, AnswersAreOfFile
  <2>8. AnswerInv'
    BY <2>1, <2>7 DEF AnswerInv, OfFile, Ranged
  <2>9. cur_state' = "RECV" /\ proc' = p
    BY <1>3, <1>7, <2>1 DEF States
  <2>10. ReadInv'
    BY <2>1, <2>5, <2>6, <2>7, <2>9 DEF ReadInv, Ranged
  <2>11. p.pre = origin' + Len(received') /\ InOrder'
    BY <2>1, <2>6 DEF DataInv, PlaceInv, InOrder, data
  <2> QED BY <1>3, <1>4, <2>1, <2>5, <2>6, <2>8, <2>9, <2>10, <2>11, ReturnKeepsData
<1>17. CASE SendFails
  <2> DEFINE end == IF file.ask THEN proc.pre + RangeCount ELSE proc.range_end
             w == With(proc, "ERR_SEND")
             p == [w EXCEPT !.cur = 0, !.range_end = end]
             close == CloseClient(p)
  <2>1. /\ Busy /\ Returns(Hold, close) /\ UNCHANGED <<file, data, caller>> /\ answer' = NoAnswer
    BY <1>17 DEF SendFails, Busy
  <2> HIDE DEF end
  <2>2. DOMAIN w = Fields /\ Content(proc, w) /\ w.last_error = "ERR_SEND"
    BY <1>1, <1>8 DEF With, Fields
  <2>3. Steady(w)
    BY <1>2, <2>2
  <2> HIDE DEF w
  <2>4. /\ p.pre = w.pre /\ p.last_error = "ERR_SEND" /\ p.total_length = w.total_length
        /\ p.length_received = w.length_received /\ p.is_chunked = w.is_chunked
        /\ p.range_forecast = w.range_forecast /\ DOMAIN p = Fields
    BY <2>2 DEF Fields
  <2> HIDE DEF p
  <2>5. Steady(p)
    BY <2>3, <2>4 DEF Steady, Known
  <2>6. Content(p, close) /\ close.last_error = "ERR_SEND"
    BY <2>4, ContentKept
  <2> HIDE DEF close
  <2>7. Steady(close)
    BY <1>2, <2>5, <2>6
  <2>8. cur_state' = cur_state /\ answer'.kind # "file"
    BY <1>7, <2>1 DEF NoAnswer
  <2>9. ReadInv'
    BY <1>4, <2>1, <2>8, NothingRead
  <2> QED BY <1>3, <1>4, <2>1, <2>6, <2>7, <2>8, <2>9, QuietReturn
<1>18. CASE RecvFails
  <2>1. PICK n \in {0, 1} : Retry([proc EXCEPT !.err_recv = @ + n, !.more = FALSE], "ERR_TRY_RECV")
    BY <1>18 DEF RecvFails
  <2>2. cur_state = "RECV" /\ answer' = NoAnswer /\ UNCHANGED <<file, caller, data>>
    BY <1>6, <1>18 DEF RecvFails
  <2> DEFINE p == [proc EXCEPT !.err_recv = @ + n, !.more = FALSE]
  <2>3. /\ DOMAIN p = Fields /\ p.pre = proc.pre /\ p.total_length = proc.total_length
        /\ p.length_received = proc.length_received /\ p.is_chunked = proc.is_chunked
        /\ p.range_forecast = proc.range_forecast
    BY <1>1 DEF Fields
  <2>4. Retry(p, "ERR_TRY_RECV")
    BY <2>1
  <2> HIDE DEF p
  <2>5. Steady(p)
    BY <1>2, <2>3 DEF Steady, Known
  <2> QED BY <1>9, <2>2, <2>3, <2>4, <2>5
<1>19. CASE RecvNothing
  <2> DEFINE p == [proc EXCEPT !.err_recv = @ + 1, !.close_if_rang_end = TRUE, !.is_range = FALSE]
  <2>1. /\ cur_state = "RECV" /\ answer' = NoAnswer /\ UNCHANGED <<file, caller, data>>
        /\ Retry(p, "ERR_RESPONSE")
    BY <1>6, <1>19 DEF RecvNothing
  <2>2. /\ DOMAIN p = Fields /\ p.pre = proc.pre /\ p.total_length = proc.total_length
        /\ p.length_received = proc.length_received /\ p.is_chunked = proc.is_chunked
        /\ p.range_forecast = proc.range_forecast
    BY <1>1 DEF Fields
  <2> HIDE DEF p
  <2>3. Steady(p)
    BY <1>2, <2>2 DEF Steady, Known
  <2> QED BY <1>9, <2>1, <2>2, <2>3
<1>20. ASSUME NEW p, DOMAIN p = Fields, Steady(p), p.last_error \in {"REDIRECT", "ERR_RECV"},
              GoesOn(CloseClient(p)), cur_state = "RECV", answer' = NoAnswer,
              UNCHANGED <<file, caller, data>>
       PROVE  DataInv'
  <2> DEFINE close == CloseClient(p)
  <2>1. Content(p, close) /\ close.last_error = p.last_error /\ GoesOn(close)
    BY <1>20, ContentKept
  <2> HIDE DEF close
  <2>2. Steady(close)
    BY <1>2, <1>20, <2>1
  <2>3. Ranged => close.range_forecast
    BY <1>20, <2>2 DEF Steady
  <2>4. answer'.kind # "file"
    BY <1>20 DEF NoAnswer
  <2> QED BY <1>5, <1>20, <2>1, <2>2, <2>3, <2>4, QuietMove
<1>21. CASE Redirects
  <2> DEFINE w == With(proc, "REDIRECT")
             p == [w EXCEPT !.redirect = TRUE, !.is_range = FALSE]
  <2>1. /\ cur_state = "RECV" /\ answer' = NoAnswer /\ UNCHANGED <<file, caller, data>>
        /\ GoesOn(CloseClient(p))
    BY <1>6, <1>21 DEF Redirects
  <2>2. DOMAIN w = Fields /\ w.last_error = "REDIRECT" /\ Steady(w)
    BY <1>1, <1>2, <1>8 DEF With, Fields
  <2> HIDE DEF w
  <2>3. /\ DOMAIN p = Fields /\ p.pre = w.pre /\ p.total_length = w.total_length
        /\ p.length_received = w.length_received /\ p.is_chunked = w.is_chunked
        /\ p.range_forecast = w.range_forecast /\ p.last_error = "REDIRECT"
    BY <2>2 DEF Fields
  <2> HIDE DEF p
  <2>4. Steady(p)
    BY <2>2, <2>3 DEF Steady, Known
  <2> QED BY <1>20, <2>1, <2>3, <2>4
<1>22. CASE ForecastFails
  <2> DEFINE w == With(proc, "ERR_RECV")
             p == [w EXCEPT !.range_forecast = FALSE, !.is_range = FALSE]
  <2>1. /\ cur_state = "RECV" /\ answer' = NoAnswer /\ UNCHANGED <<file, caller, data>>
        /\ GoesOn(CloseClient(p)) /\ answer.got < answer.len /\ ~IsRange
    BY <1>1, <1>6, <1>22 DEF ForecastFails, Answer
  <2>2. DOMAIN w = Fields /\ w.last_error = "ERR_RECV" /\ Steady(w)
    BY <1>1, <1>2, <1>8 DEF With, Fields
  <2> HIDE DEF w
  <2>3. /\ DOMAIN p = Fields /\ p.pre = w.pre /\ p.total_length = w.total_length
        /\ p.length_received = w.length_received /\ p.is_chunked = w.is_chunked
        /\ p.last_error = "ERR_RECV"
    BY <2>2 DEF Fields
  <2> HIDE DEF p
  <2>4. ~Ranged
    BY <2>1, RangeIs
  <2>5. Steady(p)
    BY <2>2, <2>3, <2>4 DEF Steady, Known
  <2> QED BY <1>20, <2>1, <2>3, <2>5
<1>23. CASE Receives
  <2> DEFINE p == NextBlock
             a == [answer EXCEPT !.got = @ + p.recv_len]
             w == With(p, "ERR_RECV_SKIP")
  <2>1. /\ cur_state = "RECV" /\ proc.http_opened /\ answer.got < answer.len
        /\ UNCHANGED <<file, caller>> /\ Keep(a)
        /\ \/ p.read_pos >= p.recv_len /\ Returns(Hold, w) /\ UNCHANGED data
           \/ ~(p.read_pos >= p.recv_len) /\ Push(p, a)
    BY <1>1, <1>6, <1>23 DEF Receives, Answer
  <2>2. /\ Steady(p) /\ OfFile(a) /\ a.kind = "file"
        /\ p.http_opened
        /\ p.read_pos < p.recv_len => Pushable(p, a)
        /\ ~(p.read_pos < p.recv_len) => ~Ranged /\ a.from + a.got = p.cur
        /\ a.got > 0 /\ (p.is_range <=> Ranged) /\ (p.is_chunked \/ p.length_received)
        /\ ~p.more => a.got = a.len
    BY <2>1, BlockIsNext
  <2>3. WellFormed(p) /\ a.got \in Nat
    BY <1>1, <2>1, BlockRead DEF Sound, Answer
  <2> HIDE DEF p
  <2>4. p.read_pos \in Int /\ p.recv_len \in Int /\ DOMAIN p = Fields
    BY <2>3, Sizes DEF WellFormed, Measurable, Proc, Fields
  <2> HIDE DEF a
  <2>5. CASE p.read_pos >= p.recv_len /\ Returns(Hold, w) /\ UNCHANGED data
    <3>1. /\ Content(p, w) /\ w.last_error = "ERR_RECV_SKIP" /\ w.http_opened = p.http_opened
      BY <2>4, ContentKept
    <3> HIDE DEF w
    <3>2. Steady(w)
      BY <1>2, <2>2, <3>1
    <3>3. cur_state' = "RECV" /\ proc' = w
      BY <1>7, <2>1, <2>5
    <3>4. answer' = a
      BY <2>1, <2>2, <3>1, <3>3 DEF Keep
    <3>5. ~Ranged /\ a.from + a.got = p.cur
      BY <2>2, <2>4, <2>5
    <3>6. /\ proc'.cur = p.cur /\ (proc'.is_range <=> p.is_range) /\ (proc'.more <=> p.more)
          /\ (proc'.is_chunked <=> p.is_chunked) /\ (proc'.length_received <=> p.length_received)
      BY <3>1, <3>3 DEF Content
    <3>7. Ranged' = Ranged
      BY <2>1 DEF Ranged
    <3>8. ReadInv'
      <4>1. cur_state' # "WAIT_FREE" /\ answer'.got # 0
        BY <2>2, <3>3, <3>4
      <4>2. /\ proc'.is_range <=> Ranged'
            /\ proc'.is_chunked \/ proc'.length_received
            /\ ~proc'.more => answer'.got = answer'.len
        BY <2>2, <3>4, <3>6, <3>7
      <4>3. ~Ranged' /\ answer'.from + answer'.got = proc'.cur
        BY <3>4, <3>5, <3>6, <3>7
      <4> QED BY <4>1, <4>2, <4>3 DEF ReadInv
    <3>9. AnswerInv'
      BY <2>1, <2>2, <3>4 DEF AnswerInv, OfFile, Ranged
    <3>10. w.pre = origin' + Len(received') /\ InOrder'
      BY <2>5, <3>2 DEF Steady, DataInv, PlaceInv, InOrder, data
    <3> QED BY <1>3, <1>5, <2>1, <2>5, <3>1, <3>2, <3>3, <3>8, <3>9, <3>10, ReturnKeepsData DEF Steady
  <2>6. CASE ~(p.read_pos >= p.recv_len) /\ Push(p, a)
    <3>1. Pushable(p, a) /\ p.pre = proc.pre
      BY <2>2, <2>4, <2>6 DEF Steady
    <3> QED BY <2>1, <2>6, <3>1, PushKeepsData
  <2> QED BY <2>1, <2>5, <2>6
<1>24. CASE WaitFreePoll
  <2> DEFINE w == With(proc, "ERR_BUF_TOO_SMALL")
  <2>1. /\ cur_state = "WAIT_FREE" /\ UNCHANGED <<file, caller>> /\ Keep(answer)
        /\ \/ Returns(Hold, w) /\ UNCHANGED data
           \/ Push(proc, answer)
    BY <1>6, <1>24 DEF WaitFreePoll
  <2>2. /\ proc.http_opened /\ answer.kind = "file" /\ answer.got > 0
        /\ proc.read_pos < proc.recv_len
        /\ answer.from + answer.got = proc.pre + (proc.recv_len - proc.read_pos)
        /\ ~Ranged => proc.cur = proc.pre
        /\ proc.is_range <=> Ranged
        /\ proc.is_chunked \/ proc.length_received
        /\ ~proc.more => answer.got = answer.len
    BY <1>1, <2>1 DEF DataInv, ReadInv, Loads
  <2>3. Content(proc, w) /\ w.last_error = "ERR_BUF_TOO_SMALL" /\ w.http_opened = proc.http_opened
    BY <1>8
  <2>4. CASE Returns(Hold, w) /\ UNCHANGED data
    <3> HIDE DEF w
    <3>1. Steady(w)
      BY <1>2, <2>3
    <3>2. cur_state' = cur_state /\ proc' = w /\ ~Busy'
      BY <1>7, <2>4
    <3>3. answer' = answer
      BY <2>1, <2>2, <2>3, <3>2 DEF Keep
    <3>4. ReadInv'
      BY <2>1, <2>2, <2>3, <3>2, <3>3, ReadStays DEF DataInv
    <3> QED BY <1>3, <1>5, <2>1, <2>3, <2>4, <3>1, <3>2, <3>3, <3>4, QuietReturn
  <2>5. CASE Push(proc, answer)
    <3>1. Pushable(proc, answer)
      BY <2>1, WaitingIsNext
    <3> QED BY <2>1, <2>5, <3>1, PushKeepsData
  <2> QED BY <2>1, <2>4, <2>5
<1>25. CASE WaitRangePoll
  <2>1. /\ cur_state = "WAIT_RANGE" /\ UNCHANGED <<file, answer, data, caller>>
        /\ \/ Returns(Hold, With(proc, "ERR_BUF_TOO_SMALL"))
           \/ GoesOn(With(proc, "SUCCESS"))
    BY <1>6, <1>25 DEF WaitRangePoll
  <2>2. CASE Returns(Hold, With(proc, "ERR_BUF_TOO_SMALL"))
    <3> DEFINE w == With(proc, "ERR_BUF_TOO_SMALL")
    <3>1. Steady(w) /\ w.last_error = "ERR_BUF_TOO_SMALL" /\ Returns(Hold, w)
      BY <1>2, <1>8, <2>2
    <3> HIDE DEF w
    <3>2. cur_state' = "WAIT_RANGE"
      BY <1>7, <2>1, <2>2
    <3>3. ReadInv'
      BY <3>2, NothingRead
    <3> QED BY <1>3, <1>5, <2>1, <3>1, <3>2, <3>3, QuietReturn
  <2>3. CASE GoesOn(With(proc, "SUCCESS"))
    <3> DEFINE w == With(proc, "SUCCESS")
    <3>1. Steady(w) /\ w.last_error = "SUCCESS" /\ GoesOn(w)
      BY <1>2, <1>8, <2>3
    <3> HIDE DEF w
    <3>2. Ranged => w.range_forecast
      BY <2>1, <3>1 DEF Steady
    <3> QED BY <1>5, <2>1, <3>1, <3>2, QuietMove
  <2> QED BY <2>1, <2>2, <2>3
<1> QED BY <1>10, <1>11, <1>12, <1>13, <1>14, <1>15, <1>16, <1>17, <1>18, <1>19, <1>21, <1>22, <1>23,
           <1>24, <1>25 DEF Work

(* The calls and the reader keep them, too.                                *)
LEMMA CallsKeepData ==
  ASSUME "slow" \notin Trouble, TypeOK, CallInv, CountInv, DataInv
  PROVE  CallerStep \/ PauseOrResume \/ Call \/ Pops => DataInv'
<1> USE DEF work, bits, shared, data, caller
<1>1. ASSUME UNCHANGED <<file, cur_state, proc, answer, received, origin>>, Busy' = Busy,
             PlaceInv', EndInv'
      PROVE  DataInv'
  BY <1>1 DEF DataInv, InOrder, LengthInv, AnswerInv, OfFile, ReadInv, Ranged, Loads
<1>2. CASE PauseOrResume
  <2>1. PICK e \in {"PAUSE", "RESUME"} : pending' = pending \cup {e}
    BY <1>2 DEF PauseOrResume
  <2>2. UNCHANGED <<file, cur_state, wpc, taken, proc, answer, received, origin, cpc, op>>
    BY <1>2 DEF PauseOrResume
  <2>3. "START" \in pending' \cup taken' <=> "START" \in pending \cup taken
    BY <2>1, <2>2
  <2>4. PlaceInv' /\ EndInv'
    BY <2>2, <2>3 DEF DataInv, PlaceInv, EndInv
  <2> QED BY <1>1, <2>2, <2>4 DEF Busy
<1>3. CASE Call
  <2>1. /\ cpc' = "stop" /\ pending' = pending \cup {"STOP"}
        /\ UNCHANGED <<file, cur_state, wpc, taken, proc, answer, received, origin>>
    BY <1>3 DEF Call
  <2>2. \/ op' = [kind |-> "stop", pos |-> 0]
        \/ op' \in [kind : {"start"}, pos : Seeks]
        \/ cur_state = "IDLE" /\ op' = [kind |-> "continue", pos |-> origin + Len(received)]
    BY <1>3 DEF Call
  <2>3. /\ op'.kind = "continue" => cur_state = "IDLE" /\ op'.pos = origin + Len(received)
        /\ op'.kind = "start" => op'.pos \in Seeks
    <3>1. CASE op' = [kind |-> "stop", pos |-> 0]
      BY <3>1
    <3>2. CASE op' \in [kind : {"start"}, pos : Seeks]
      BY <3>2
    <3>3. CASE cur_state = "IDLE" /\ op' = [kind |-> "continue", pos |-> origin + Len(received)]
      BY <3>3
    <3> QED BY <2>2, <3>1, <3>2, <3>3
  <2>4. PlaceInv'
    BY <2>1, <2>3 DEF DataInv, PlaceInv
  <2>5. EndInv'
    <3>1. "START" \in pending' \cup taken' <=> "START" \in pending \cup taken
      BY <2>1
    <3> QED BY <2>1, <3>1 DEF DataInv, EndInv
  <2> QED BY <1>1, <2>1, <2>4, <2>5 DEF Busy
<1>4. CASE Stopped \/ ClearEvents \/ ClearAcks \/ Frees \/ Started
  <2>1. UNCHANGED <<file, cur_state, wpc, taken, proc, answer, received, origin, op>>
    BY <1>4 DEF Stopped, ClearEvents, ClearAcks, Frees, Started
  <2>2. \/ cpc = "stop" /\ cpc' = "clear_events"
        \/ cpc = "clear_events" /\ cpc' = "clear_acks"
        \/ cpc = "clear_acks" /\ cpc' = "free"
        \/ cpc = "free" /\ cpc' = IF op.kind = "stop" THEN "idle" ELSE "start"
        \/ cpc = "await" /\ cpc' = "idle"
    BY <1>4 DEF Stopped, ClearEvents, ClearAcks, Frees, Started
  <2>3. PlaceInv'
    BY <2>1, <2>2 DEF DataInv, PlaceInv
  <2>4. "START" \notin pending' \cup taken'
    <3>1. CASE Started
      BY <1>4, <3>1 DEF Started, Waited, CallInv
    <3>2. CASE Stopped \/ ClearEvents \/ ClearAcks \/ Frees
      <4>1. "START" \notin Posted /\ pending' \subseteq pending /\ taken' = taken
        BY <3>2 DEF Stopped, ClearEvents, ClearAcks, Frees, CallInv
      <4> QED BY <4>1 DEF Posted
    <3> QED BY <1>4, <3>1, <3>2
  <2>5. EndInv'
    <3>1. cpc = "await" => "START" \notin pending \cup taken
      BY <1>4 DEF Stopped, ClearEvents, ClearAcks, Frees, Started, Waited, CallInv
    <3> QED BY <2>1, <2>2, <2>4, <3>1 DEF DataInv, EndInv
  <2> QED BY <1>1, <2>1, <2>3, <2>5 DEF Busy
<1>5. CASE Starts
  <2> DEFINE w == With(proc, "SUCCESS")
             p == [w EXCEPT !.pre = op.pos]
  <2>1. /\ cpc = "start" /\ cpc' = "await" /\ proc' = p /\ pending' = pending \cup {"START"}
        /\ UNCHANGED <<file, cur_state, wpc, taken, answer, op>>
        /\ IF op.kind = "start"
           THEN received' = <<>> /\ popped' = 0 /\ origin' = op.pos
           ELSE UNCHANGED data
    BY <1>5 DEF Starts
  <2>2. cur_state = "IDLE" /\ cur_state' = "IDLE" /\ ~Busy'
    BY <2>1 DEF CallInv, Busy, Posted
  <2>3. DOMAIN proc = Fields /\ op \in Op
    BY DEF TypeOK, Proc, Fields
  <2>4. DOMAIN w = Fields /\ Content(proc, w) /\ w.last_error = "SUCCESS"
    BY <2>3, ContentKept DEF With, Fields
  <2>5. Known(w)
    BY <2>4, ContentIsSteady DEF Steady
  <2> HIDE DEF w
  <2>6. /\ p.pre = op.pos /\ p.last_error = "SUCCESS" /\ p.total_length = w.total_length
        /\ p.length_received = w.length_received /\ p.is_chunked = w.is_chunked
    BY <2>4 DEF Fields
  <2> HIDE DEF p
  <2>7. LengthInv'
    BY <2>1, <2>2, <2>5, <2>6 DEF LengthInv, Known
  <2>8. PlaceInv' /\ InOrder'
    <3>1. CASE op.kind = "start"
      <4>1. received' = <<>> /\ origin' = op.pos /\ Len(received') = 0 /\ op.pos \in Nat
        BY <2>1, <2>3, <3>1 DEF Op
      <4>2. PlaceInv'
        BY <2>1, <2>6, <3>1, <4>1 DEF DataInv, PlaceInv
      <4>3. InOrder'
        <5>1. [i \in 1 .. 0 |-> origin' + i - 1] = <<>>
          OBVIOUS
        <5> QED BY <4>1, <5>1 DEF InOrder
      <4> QED BY <4>2, <4>3
    <3>2. CASE op.kind # "start"
      <4>1. op.kind = "continue" /\ UNCHANGED <<received, popped, origin>>
        BY <2>1, <2>3, <3>2 DEF Op, DataInv, PlaceInv
      <4> QED BY <2>1, <2>2, <2>6, <4>1 DEF DataInv, PlaceInv, InOrder
    <3> QED BY <3>1, <3>2
  <2>9. ReadInv'
    BY <2>2, NothingRead
  <2>10. AnswerInv'
    BY <2>1, AnswerStays DEF DataInv
  <2>11. EndInv'
    BY <2>1, <2>6 DEF EndInv
  <2> QED BY <2>7, <2>8, <2>9, <2>10, <2>11 DEF DataInv
<1>6. CASE Pops
  <2>1. UNCHANGED <<file, cur_state, wpc, taken, pending, proc, answer, received, origin, cpc, op>>
    BY <1>6 DEF Pops
  <2>2. PlaceInv' /\ EndInv'
    BY <2>1 DEF DataInv, PlaceInv, EndInv
  <2> QED BY <1>1, <2>1, <2>2 DEF Busy
<1> QED BY <1>2, <1>3, <1>4, <1>5, <1>6 DEF CallerStep

IInv == SafeInv /\ DataInv

(* All of it holds at first, and while nothing moves.                      *)
LEMMA StartsInOrder ==
  ASSUME Init
  PROVE  DataInv
<1>1. /\ file \in Files /\ cur_state = "IDLE" /\ wpc = "wait" /\ pending = {} /\ taken = {}
      /\ cpc = "idle" /\ op = [kind |-> "stop", pos |-> 0]
      /\ received = <<>> /\ origin = 0 /\ Len(received) = 0
      /\ answer.kind = "none" /\ answer.len = 0
      /\ proc.pre = 0 /\ proc.last_error = "SUCCESS" /\ ~proc.length_received /\ ~proc.is_chunked
  BY DEF Init, NoAnswer
<1>2. InOrder
  <2>1. [i \in 1 .. 0 |-> 0 + i - 1] = <<>>
    OBVIOUS
  <2> QED BY <1>1, <2>1 DEF InOrder
<1>3. PlaceInv /\ LengthInv /\ AnswerInv /\ ReadInv /\ EndInv
  BY <1>1 DEF PlaceInv, LengthInv, AnswerInv, OfFile, ReadInv, EndInv, Busy, Loads
<1> QED BY <1>2, <1>3 DEF DataInv

(* Nothing moves: everything is kept.                                      *)
LEMMA QuietIsInOrder ==
  ASSUME DataInv, UNCHANGED vars
  PROVE  DataInv'
BY DEF DataInv, PlaceInv, InOrder, LengthInv, AnswerInv, OfFile, ReadInv, EndInv, Ranged, Busy, Loads,
       vars, work, bits, data, caller

(* The positions, the requests and the answers are in step: an inductive   *)
(* invariant, whatever breaks short of the four troubles.                  *)
THEOREM Invariant ==
  ASSUME Trouble = {}
  PROVE  Spec => []IInv
<1>1. Init => IInv
  BY StartsSafe, StartsInOrder DEF IInv
<1>2. IInv /\ [Next]_vars => IInv'
  <2> SUFFICES ASSUME IInv, [Next]_vars PROVE IInv'
    OBVIOUS
  <2>1. SafeInv /\ DataInv /\ TypeOK /\ CallInv /\ CountInv /\ UrlOutlivesUse /\ "slow" \notin Trouble
    BY DEF IInv, SafeInv
  <2>2. CASE Next
    <3>1. CallInv'
      BY <2>1, <2>2, WorkKeepsCall, CallsKeepCall DEF Next
    <3>2. TypeOK' /\ CountInv'
      BY <2>1, <2>2, WorkKeepsTypes, CallsKeepTypes DEF Next
    <3>3. UrlOutlivesUse'
      BY <2>1, <2>2, UrlKept
    <3>4. DataInv'
      BY <2>1, <2>2, WorkKeepsData, CallsKeepData DEF Next
    <3> QED BY <3>1, <3>2, <3>3, <3>4 DEF IInv, SafeInv
  <2>3. CASE UNCHANGED vars
    BY <2>1, <2>3, QuietIsSafe, QuietIsInOrder DEF IInv
  <2> QED BY <2>2, <2>3
<1> QED BY <1>1, <1>2, PTL DEF Spec

(* The reader gets the file from where it asked for it, every unit once    *)
(* and in order, whatever breaks and whatever the server makes of ranges   *)
(* (http_download_process.c:186, 319-331, 352-354).                        *)
THEOREM ReceivedInOrder ==
  ASSUME Trouble = {}
  PROVE  Spec => []InOrder
<1>1. IInv => InOrder
  BY DEF IInv, DataInv
<1> QED BY <1>1, Invariant, PTL

(* A download that says it has finished has stored the file to its end     *)
(* (http_download_process.c:710-721, audio_file.c:279-283).                *)
THEOREM FinishIsTheEnd ==
  ASSUME Trouble = {}
  PROVE  Spec => []FinishedIsComplete
<1>1. IInv => FinishedIsComplete
  <2> SUFFICES ASSUME IInv, cpc = "idle", op.kind # "stop", IsFinish
               PROVE  origin + Len(received) = file.len
    BY DEF FinishedIsComplete
  <2>1. "START" \notin Posted
    BY DEF IInv, SafeInv, CallInv
  <2>2. cur_state = "IDLE" /\ proc.last_error \in {"SUCCESS", "ALL_END"}
    BY DEF IsFinish
  <2>3. proc.last_error = "ALL_END"
    BY <2>1, <2>2 DEF IInv, DataInv, EndInv, Posted
  <2> QED BY <2>3 DEF IInv, DataInv, EndInv, PlaceInv
<1> QED BY <1>1, Invariant, PTL
-----------------------------------------------------------------------------
(* The buffer as a run of offsets.                                         *)
Run(first, n) == [i \in 1 .. n |-> first + i - 1]

(* Runs are cut and put together by their bounds.                          *)
LEMMA RunProperties ==
  ASSUME NEW first \in Nat, NEW n \in Nat
  PROVE  /\ Run(first, n) \in Seq(Int) /\ Len(Run(first, n)) = n
         /\ \A i \in 1 .. n : Run(first, n)[i] = first + i - 1
BY DEF Run

(* What is left of a run from its unit i + 1 on.                           *)
LEMMA RunRest ==
  ASSUME NEW first \in Nat, NEW n \in Nat, NEW k \in 0 .. n
  PROVE  SubSeq(Run(first, n), k + 1, n) = Run(first + k, n - k)
<1> DEFINE s == Run(first, n)
           t == SubSeq(s, k + 1, n)
           u == Run(first + k, n - k)
<1>1. s \in Seq(Int) /\ Len(s) = n /\ \A i \in 1 .. n : s[i] = first + i - 1
  BY RunProperties
<1>2. u \in Seq(Int) /\ Len(u) = n - k /\ \A i \in 1 .. n - k : u[i] = first + k + i - 1
  <2>1. first + k \in Nat /\ n - k \in Nat
    OBVIOUS
  <2> QED BY <2>1, RunProperties
<1> HIDE DEF s, u
<1>3. /\ t \in Seq(Int) /\ Len(t) = n - (k + 1) + 1
      /\ \A i \in 1 .. n - (k + 1) + 1 : t[i] = s[k + 1 + i - 1]
  BY <1>1, SubSeqProperties
<1> HIDE DEF t
<1>4. Len(t) = Len(u)
  BY <1>2, <1>3
<1>5. ASSUME NEW i \in 1 .. Len(t) PROVE t[i] = u[i]
  <2>1. i \in 1 .. n - k /\ k + i \in 1 .. n /\ k + 1 + i - 1 = k + i
    BY <1>2, <1>4
  <2>2. t[i] = first + (k + i) - 1
    BY <1>1, <1>3, <2>1
  <2> QED BY <1>2, <2>1, <2>2
<1>6. t = u
  BY <1>2, <1>3, <1>4, <1>5, SeqEqual
<1> QED BY <1>6 DEF s, t, u

(* A run that begins where another ends makes it longer.                   *)
LEMMA RunOfTwo ==
  ASSUME NEW first \in Nat, NEW m \in Nat, NEW n \in Nat
  PROVE  Run(first, m) \o Run(first + m, n) = Run(first, m + n)
<1> DEFINE s == Run(first, m)
           t == Run(first + m, n)
           u == Run(first, m + n)
           c == s \o t
<1>1. /\ s \in Seq(Int) /\ Len(s) = m /\ \A i \in 1 .. m : s[i] = first + i - 1
      /\ t \in Seq(Int) /\ Len(t) = n /\ \A i \in 1 .. n : t[i] = first + m + i - 1
      /\ u \in Seq(Int) /\ Len(u) = m + n /\ \A i \in 1 .. m + n : u[i] = first + i - 1
  <2>1. first + m \in Nat /\ m + n \in Nat
    OBVIOUS
  <2> QED BY <2>1, RunProperties
<1> HIDE DEF s, t, u
<1>2. /\ c \in Seq(Int) /\ Len(c) = m + n
      /\ \A i \in 1 .. m + n : c[i] = IF i <= m THEN s[i] ELSE t[i - m]
  BY <1>1, ConcatProperties
<1> HIDE DEF c
<1>3. ASSUME NEW i \in 1 .. m + n PROVE c[i] = u[i]
  <2>1. CASE i <= m
    BY <1>1, <1>2, <2>1
  <2>2. CASE ~(i <= m)
    <3>1. i - m \in 1 .. n /\ t[i - m] = first + m + (i - m) - 1
      BY <1>1, <2>2
    <3> QED BY <1>1, <1>2, <2>2, <3>1
  <2> QED BY <2>1, <2>2
<1>4. c = u
  BY <1>1, <1>2, <1>3, SeqEqual
<1> QED BY <1>4 DEF s, t, u, c

(* What Download sees of the machine and of the buffer.                    *)
Mode    == IF cur_state \in {"IDLE", "PAUSE"} THEN cur_state ELSE "RUN"
Verdict == IF cur_state # "IDLE" \/ proc.last_error = "SUCCESS" THEN "OK"
           ELSE IF proc.last_error = "ALL_END" THEN "ALL_END" ELSE "FAILED"
Queue   == SubSeq(received, popped + 1, Len(received))
Pos     == origin + Len(received)

(* What the reader has not taken of a run is a run.                        *)
LEMMA RestIs ==
  ASSUME NEW s \in Seq(Int), NEW first \in Nat, NEW k \in 0 .. Len(s),
         s = [i \in 1 .. Len(s) |-> first + i - 1]
  PROVE  /\ SubSeq(s, k + 1, Len(s)) = Run(first + k, Len(s) - k)
         /\ first + k \in Nat /\ Len(s) - k \in Nat
<1>1. Len(s) \in Nat /\ k \in Nat /\ Len(s) - k \in Nat /\ first + k \in Nat
  BY LenProperties
<1>2. s = Run(first, Len(s))
  BY DEF Run
<1>3. SubSeq(Run(first, Len(s)), k + 1, Len(s)) = Run(first + k, Len(s) - k)
  BY <1>1, RunRest
<1> QED BY <1>1, <1>2, <1>3

(* The buffer is the run from what the reader has taken to pos.            *)
LEMMA QueueIs ==
  ASSUME TypeOK, InOrder
  PROVE  /\ Queue = Run(origin + popped, Len(received) - popped)
         /\ origin + popped \in Nat /\ Len(received) - popped \in Nat
         /\ Len(Queue) = Len(received) - popped
         /\ origin \in Nat /\ popped \in Nat /\ Len(received) \in Nat
<1>1. received \in Seq(Int) /\ popped \in 0 .. Len(received) /\ origin \in Nat
  BY DEF TypeOK
<1>2. Len(received) \in Nat /\ popped \in Nat
  BY <1>1, LenProperties
<1>3. /\ Queue = Run(origin + popped, Len(received) - popped)
      /\ origin + popped \in Nat /\ Len(received) - popped \in Nat
  BY <1>1, RestIs DEF Queue, InOrder
<1> QED BY <1>1, <1>2, <1>3, RunProperties

(* Steps of Download, in the terms of the machine.                         *)
LEMMA StepIs ==
  ASSUME file' = file, Len(Queue) \in Nat,
         \/ UNCHANGED <<Mode, Verdict, Queue, Pos>>
         \/ /\ UNCHANGED <<Queue, Pos>>
            /\ \/ Mode = "IDLE" /\ Verdict = "OK" /\ Mode' = "RUN" /\ Verdict' = "OK"
               \/ Mode = "RUN" /\ Mode' = "PAUSE" /\ Verdict' = "OK"
               \/ Mode = "PAUSE" /\ Mode' = "RUN" /\ Verdict' = "OK"
               \/ Mode # "IDLE" /\ Mode' = "IDLE" /\ Verdict' = "OK"
               \/ Mode' = "IDLE" /\ Verdict' = "FAILED"
         \/ /\ Mode = "IDLE" /\ Mode' = "IDLE" /\ Verdict' = "OK"
            /\ \/ UNCHANGED <<Queue, Pos>>
               \/ Pos' \in 0 .. file.len /\ Queue' = <<>>
         \/ \E n \in 0 .. file.len :
              /\ Mode = "RUN" /\ Pos + n <= file.len
              /\ Queue' = Queue \o Run(Pos, n) /\ Pos' = Pos + n
              /\ \/ UNCHANGED <<Mode, Verdict>>
                 \/ Pos + n = file.len /\ Mode' = "IDLE" /\ Verdict' = "ALL_END"
         \/ \E n \in 1 .. Len(Queue) :
              /\ Queue' = SubSeq(Queue, n + 1, Len(Queue))
              /\ UNCHANGED <<Mode, Verdict, Pos>>
  PROVE  [Abstract!Next]_(Abstract!vars)
<1> USE DEF Mode, Verdict, Queue, Pos
<1>1. CASE UNCHANGED <<Mode, Verdict, Queue, Pos>>
  BY <1>1 DEF Abstract!vars
<1>2. CASE Mode = "IDLE" /\ Verdict = "OK" /\ Mode' = "RUN" /\ Verdict' = "OK" /\ UNCHANGED <<Queue, Pos>>
  BY <1>2 DEF Abstract!Next, Abstract!Begin, Abstract!Become
<1>3. CASE Mode = "RUN" /\ Mode' = "PAUSE" /\ Verdict' = "OK" /\ UNCHANGED <<Queue, Pos>>
  BY <1>3 DEF Abstract!Next, Abstract!Pause, Abstract!Become
<1>4. CASE Mode = "PAUSE" /\ Mode' = "RUN" /\ Verdict' = "OK" /\ UNCHANGED <<Queue, Pos>>
  BY <1>4 DEF Abstract!Next, Abstract!Resume, Abstract!Become
<1>5. CASE Mode # "IDLE" /\ Mode' = "IDLE" /\ Verdict' = "OK" /\ UNCHANGED <<Queue, Pos>>
  BY <1>5 DEF Abstract!Next, Abstract!Stop, Abstract!Become
<1>6. CASE Mode' = "IDLE" /\ Verdict' = "FAILED" /\ UNCHANGED <<Queue, Pos>>
  BY <1>6 DEF Abstract!Next, Abstract!Fail
<1>7. CASE Mode = "IDLE" /\ Mode' = "IDLE" /\ Verdict' = "OK" /\ UNCHANGED <<Queue, Pos>>
  BY <1>7 DEF Abstract!Next, Abstract!Place
<1>8. CASE Mode = "IDLE" /\ Mode' = "IDLE" /\ Verdict' = "OK" /\ Pos' \in 0 .. file.len /\ Queue' = <<>>
  BY <1>8 DEF Abstract!Next, Abstract!Place
<1>9. ASSUME NEW n \in 0 .. file.len, Mode = "RUN", Pos + n <= file.len,
             Queue' = Queue \o Run(Pos, n), Pos' = Pos + n,
             \/ UNCHANGED <<Mode, Verdict>>
             \/ Pos + n = file.len /\ Mode' = "IDLE" /\ Verdict' = "ALL_END"
      PROVE  Abstract!Next
  <2>1. Abstract!Store(n)
    BY <1>9 DEF Abstract!Store, Run
  <2> QED BY <2>1 DEF Abstract!Next
<1>10. ASSUME NEW n \in 1 .. Len(Queue), Queue' = SubSeq(Queue, n + 1, Len(Queue)),
              UNCHANGED <<Mode, Verdict, Pos>>
       PROVE  Abstract!Next
  <2>1. n \in 0 .. Len(Queue)
    <3> HIDE DEF Queue
    <3> QED OBVIOUS
  <2>2. Abstract!Take(n)
    BY <1>10, <2>1 DEF Abstract!Take
  <2> QED BY <2>2 DEF Abstract!Next
<1> QED BY <1>1, <1>2, <1>3, <1>4, <1>5, <1>6, <1>7, <1>8, <1>9, <1>10

(* A step that leaves the buffer alone: what it may do to the machine.     *)
LEMMA QuietMaps ==
  ASSUME TypeOK, InOrder, UNCHANGED <<file, data>>,
         \/ cur_state' = cur_state /\ (cur_state = "IDLE" => proc'.last_error = proc.last_error)
         \/ cur_state' = "IDLE" /\ proc'.last_error \notin {"SUCCESS", "ALL_END"}
         \/ cur_state # "IDLE" /\ cur_state' = "IDLE" /\ proc'.last_error = "SUCCESS"
         \/ cur_state \notin {"IDLE", "PAUSE"} /\ cur_state' = "PAUSE"
         \/ cur_state' \notin {"IDLE", "PAUSE"} /\ (cur_state = "IDLE" => proc.last_error = "SUCCESS")
  PROVE  [Abstract!Next]_(Abstract!vars)
<1>1. UNCHANGED <<Queue, Pos>>
  BY DEF Queue, Pos, data
<1>2. Len(Queue) \in Nat
  BY QueueIs
<1>3. CASE cur_state' = cur_state /\ (cur_state = "IDLE" => proc'.last_error = proc.last_error)
  <2>1. UNCHANGED <<Mode, Verdict>>
    BY <1>3 DEF Mode, Verdict
  <2> QED BY <1>1, <1>2, <2>1, StepIs
<1>4. CASE cur_state' = "IDLE" /\ proc'.last_error \notin {"SUCCESS", "ALL_END"}
  <2>1. Mode' = "IDLE" /\ Verdict' = "FAILED"
    BY <1>4 DEF Mode, Verdict
  <2> QED BY <1>1, <1>2, <2>1, StepIs
<1>5. CASE cur_state # "IDLE" /\ cur_state' = "IDLE" /\ proc'.last_error = "SUCCESS"
  <2>1. Mode # "IDLE" /\ Mode' = "IDLE" /\ Verdict' = "OK"
    BY <1>5 DEF Mode, Verdict
  <2> QED BY <1>1, <1>2, <2>1, StepIs
<1>6. CASE cur_state \notin {"IDLE", "PAUSE"} /\ cur_state' = "PAUSE"
  <2>1. Mode = "RUN" /\ Mode' = "PAUSE" /\ Verdict' = "OK"
    BY <1>6 DEF Mode, Verdict
  <2> QED BY <1>1, <1>2, <2>1, StepIs
<1>7. CASE cur_state' \notin {"IDLE", "PAUSE"} /\ (cur_state = "IDLE" => proc.last_error = "SUCCESS")
  <2>1. Mode' = "RUN" /\ Verdict' = "OK"
    BY <1>7 DEF Mode, Verdict
  <2>2. \/ Mode = "IDLE" /\ Verdict = "OK"
        \/ Mode = "PAUSE" /\ Verdict = "OK"
        \/ Mode = "RUN" /\ Verdict = "OK"
    BY <1>7 DEF Mode, Verdict
  <2>3. CASE Mode = "RUN" /\ Verdict = "OK"
    BY <1>1, <1>2, <2>1, <2>3, StepIs
  <2>4. CASE Mode \in {"IDLE", "PAUSE"} /\ Verdict = "OK"
    BY <1>1, <1>2, <2>1, <2>4, StepIs
  <2> QED BY <2>2, <2>3, <2>4
<1> QED BY <1>3, <1>4, <1>5, <1>6, <1>7

(* http_download_proc_push_action stores a block, and ends a download      *)
(* whose last unit it has stored.                                          *)
LEMMA PushMaps ==
  ASSUME Trouble = {}, TypeOK, DataInv, (TypeOK /\ DataInv)', cur_state \notin {"IDLE", "PAUSE"},
         NEW p, NEW a, Pushable(p, a), p.pre = proc.pre, Push(p, a), file' = file
  PROVE  [Abstract!Next]_(Abstract!vars)
<1> DEFINE len == p.recv_len - p.read_pos
           pushed == [p EXCEPT !.pre = @ + len, !.cur = @ + len, !.read_pos = @ + len]
           result == PushResult(pushed)
           q == With(pushed, result)
           w == With(p, "ERR_BUF_TOO_SMALL")
<1>1. DOMAIN p = Fields /\ WellFormed(p) /\ "alloc" \notin Trouble
  BY DEF Pushable, WellFormed, Measurable, Proc, Fields
<1>2. \/ Returns("WAIT_FREE", w) /\ UNCHANGED data
      \/ /\ received' = received \o Units(p, a, len) /\ UNCHANGED <<popped, origin>>
         /\ \/ result = "SUCCESS" /\ Returns("RECV", q)
            \/ result = "RANGE_END" /\ \E c \in {q, CloseClient(q)} : Returns("WAIT_RANGE", c)
            \/ result = "ALL_END" /\ Returns("IDLE", StopProc(q))
  <2>1. \/ Returns("WAIT_FREE", w) /\ UNCHANGED data
        \/ /\ \E n \in 0 .. len : /\ "alloc" \notin Trouble => n = len
                                  /\ received' = received \o Units(p, a, n)
           /\ UNCHANGED <<popped, origin>>
           /\ \/ result = "SUCCESS" /\ Returns("RECV", q)
              \/ result = "RANGE_END" /\ \E c \in {q, CloseClient(q)} : Returns("WAIT_RANGE", c)
              \/ result = "ALL_END" /\ Returns("IDLE", StopProc(q))
    BY <1>1, PushIs
  <2> HIDE DEF len, q, result, w
  <2> QED BY <1>1, <2>1
<1>3. ASSUME NEW s, NEW c, Returns(s, c)
      PROVE  proc' = c /\ cur_state' = IF s = Hold THEN cur_state ELSE s
  BY <1>3 DEF Returns
<1>4. "WAIT_FREE" # Hold /\ "RECV" # Hold /\ "WAIT_RANGE" # Hold /\ "IDLE" # Hold
  BY DEF Hold
<1>5. StopProc(q).last_error = result
  <2>1. DOMAIN pushed = Fields
    BY <1>1
  <2> HIDE DEF pushed, result
  <2> QED BY <2>1, ContentKept
<1>6. /\ len \in Nat /\ a.from + a.got = p.pre + len
      /\ a.got <= a.len /\ a.from \in Nat /\ a.got \in Nat /\ a.len \in Nat /\ p.pre \in Nat
  <2>1. /\ p.recv_len \in Nat /\ p.read_pos \in Nat /\ p.pre \in Nat /\ p.read_pos < p.recv_len
        /\ a.from + a.got = p.pre + (p.recv_len - p.read_pos)
    BY <1>1, Sizes DEF Pushable, WellFormed, Measurable, Proc
  <2>2. a.got <= a.len /\ a.from \in Nat /\ a.got \in Nat /\ a.len \in Nat
    BY DEF Pushable, Sound, Answer
  <2> QED BY <2>1, <2>2
<1>7. p.pre = Pos
  BY DEF DataInv, PlaceInv, Pos
<1>8. file.len \in Nat /\ a.from + a.len <= file.len
  <2>1. file \in File
    BY Sizes DEF TypeOK
  <2>2. IF Ranged THEN a.from + a.len <= file.len ELSE a.from = 0 /\ a.len = file.len
    BY DEF Pushable, OfFile
  <2> QED BY <1>6, <2>1, <2>2 DEF File
<1>9. Pos + len <= file.len /\ len \in 0 .. file.len
  <2> HIDE DEF len
  <2> QED BY <1>6, <1>7, <1>8
<1>10. CASE Returns("WAIT_FREE", w) /\ UNCHANGED data
  <2>1. cur_state' = "WAIT_FREE"
    BY <1>3, <1>4, <1>10
  <2> QED BY <1>10, <2>1, QuietMaps DEF DataInv
<1>11. CASE /\ received' = received \o Units(p, a, len) /\ UNCHANGED <<popped, origin>>
            /\ \/ result = "SUCCESS" /\ Returns("RECV", q)
               \/ result = "RANGE_END" /\ \E c \in {q, CloseClient(q)} : Returns("WAIT_RANGE", c)
               \/ result = "ALL_END" /\ Returns("IDLE", StopProc(q))
  <2>1. Len(received') = Len(received) + len
    <3> DEFINE u == Units(p, a, len)
    <3>1. u \in Seq(Int) /\ Len(u) = len
      <4> HIDE DEF len
      <4> QED BY <1>6, UnitsAre, <1>1 DEF WellFormed, Measurable, Pushable, Sound
    <3>2. received \in Seq(Int) /\ received' = received \o u
      BY <1>11 DEF TypeOK
    <3> HIDE DEF u
    <3> QED BY <3>1, <3>2, ConcatProperties
  <2> HIDE DEF len, result, q
  <2>2. /\ Queue = Run(origin + popped, Len(received) - popped)
        /\ origin \in Nat /\ popped \in Nat /\ Len(received) \in Nat
        /\ Len(received) - popped \in Nat /\ origin + popped \in Nat /\ Len(Queue) \in Nat
    BY QueueIs DEF DataInv
  <2>3. Queue' = Run(origin' + popped', Len(received') - popped')
    <3>1. received' \in Seq(Int) /\ origin' \in Nat /\ popped' \in 0 .. Len(received')
          /\ received' = [i \in 1 .. Len(received') |-> origin' + i - 1]
      BY DEF TypeOK, DataInv, InOrder
    <3> QED BY <3>1, RestIs DEF Queue
  <2>4. Pos = origin + Len(received) /\ Pos' = Pos + len
    BY <1>6, <1>11, <2>1, <2>2 DEF Pos
  <2>5. Queue' = Queue \o Run(Pos, len)
    <3> DEFINE n == Len(received) - popped
               first == origin + popped
    <3>1. n \in Nat /\ first \in Nat /\ Pos = first + n /\ Len(received') - popped' = n + len
          /\ origin' + popped' = first
      <4>1. \A o, k, l \in Int : o + l = (o + k) + (l - k)
        OBVIOUS
      <4>5. \A k, l, m \in Int : (l + m) - k = (l - k) + m
        OBVIOUS
      <4>6. popped' = popped /\ popped \in Int /\ Len(received) \in Int /\ len \in Int
        BY <1>6, <1>11, <2>2
      <4>2. n \in Nat /\ first \in Nat /\ origin' + popped' = first
        BY <1>11, <2>2
      <4>3. Pos = first + n
        BY <2>2, <2>4, <4>1
      <4>4. Len(received') - popped' = n + len
        BY <2>1, <4>5, <4>6
      <4> QED BY <4>2, <4>3, <4>4
    <3>2. Queue = Run(first, n) /\ Queue' = Run(first, n + len)
      BY <2>2, <2>3, <3>1
    <3> HIDE DEF n, first
    <3>3. Run(first, n) \o Run(first + n, len) = Run(first, n + len)
      <4>1. n \in Nat /\ first \in Nat /\ len \in Nat
        BY <1>6, <3>1
      <4> QED BY <4>1, RunOfTwo
    <3>4. Pos = first + n
      BY <3>1
    <3> HIDE DEF Pos, Queue
    <3> QED BY <3>2, <3>3, <3>4
  <2>6. Len(Queue) \in Nat
    BY <2>2
  <2>7. Mode = "RUN" /\ Verdict = "OK"
    BY DEF Mode, Verdict
  <2>8. \/ Mode' = "RUN" /\ Verdict' = "OK"
        \/ Mode' = "IDLE" /\ Verdict' = "ALL_END" /\ proc'.last_error = "ALL_END"
    <3>1. CASE result = "SUCCESS" /\ Returns("RECV", q)
      <4>1. cur_state' = "RECV"
        BY <1>3, <1>4, <3>1
      <4> QED BY <4>1 DEF Mode, Verdict
    <3>2. CASE result = "RANGE_END" /\ \E c \in {q, CloseClient(q)} : Returns("WAIT_RANGE", c)
      <4>1. cur_state' = "WAIT_RANGE"
        BY <1>3, <1>4, <3>2
      <4> QED BY <4>1 DEF Mode, Verdict
    <3>3. CASE result = "ALL_END" /\ Returns("IDLE", StopProc(q))
      <4>1. cur_state' = "IDLE" /\ proc'.last_error = "ALL_END"
        BY <1>3, <1>4, <1>5, <3>3
      <4> QED BY <4>1 DEF Mode, Verdict
    <3> QED BY <1>11, <3>1, <3>2, <3>3
  <2>9. proc'.last_error = "ALL_END" => Pos + len = file.len
    <3>1. proc'.last_error = "ALL_END" => proc'.pre = file'.len
      BY DEF DataInv, EndInv
    <3>2. proc'.pre = Pos'
      BY DEF DataInv, PlaceInv, Pos
    <3> QED BY <2>4, <3>1, <3>2
  <2> HIDE DEF Queue, Pos, Mode, Verdict
  <2> QED BY <1>9, <2>4, <2>5, <2>6, <2>7, <2>8, <2>9, StepIs
<1> QED BY <1>2, <1>10, <1>11

(* The steps of the machine are steps of Download.                         *)
LEMMA WorkMaps ==
  ASSUME Trouble = {}, TypeOK, CallInv, CountInv, DataInv, (TypeOK /\ DataInv)'
  PROVE  Work => [Abstract!Next]_(Abstract!vars)
<1>1. /\ proc \in Proc /\ answer \in Answer /\ cur_state \in States /\ DOMAIN proc = Fields
  BY DEF TypeOK, Proc, Fields
<1>2. /\ \A s : Polls(s) => cur_state = s
      /\ Handles({{"START"}}) => cur_state = "IDLE"
      /\ Handles({{"STOP"}}) => cur_state # "IDLE"
      /\ Handles({{"PAUSE"}}) => cur_state \notin {"IDLE", "PAUSE"}
      /\ Handles({{"RESUME"}}) => cur_state = "PAUSE"
  BY <1>1, Handled DEF Polls
<1>3. "START" \in taken => proc.last_error = "SUCCESS"
  BY DEF DataInv, EndInv
<1>4. /\ Handles({{"START"}}) => proc.last_error = "SUCCESS"
      /\ Busy /\ cur_state = "IDLE" => proc.last_error = "SUCCESS"
  BY <1>1, <1>3, Handled DEF CallInv
<1>5. ASSUME NEW s, NEW p, Returns(s, p)
      PROVE  proc' = p /\ cur_state' = IF s = Hold THEN cur_state ELSE s
  BY <1>5 DEF Returns
<1>6. ASSUME NEW p, GoesOn(p) PROVE proc' = p /\ cur_state' = cur_state
  BY <1>6 DEF GoesOn
<1>7. \A s \in {"IDLE", "PAUSE", "RECV", "WAIT_FREE", "WAIT_RANGE"} : s # Hold
  BY DEF Hold
<1>8. InOrder
  BY DEF DataInv
<1>9. ASSUME NEW p, DOMAIN p = Fields, NEW limit \in {"ERR_TRY_RECV", "ERR_RESPONSE"},
             Retry(p, limit), cur_state = "RECV", UNCHANGED <<file, data>>
      PROVE  [Abstract!Next]_(Abstract!vars)
  <2>1. \/ Returns("IDLE", StopProc(With(p, limit)))
        \/ GoesOn(CloseClient(With(p, "ERR_RECV")))
    BY <1>9 DEF Retry
  <2>2. StopProc(With(p, limit)).last_error = limit
    BY <1>9, ContentKept
  <2>3. \/ cur_state' = "IDLE" /\ proc'.last_error \notin {"SUCCESS", "ALL_END"}
        \/ cur_state' = cur_state
    BY <1>5, <1>6, <1>7, <2>1, <2>2
  <2> QED BY <1>8, <1>9, <2>3, QuietMaps
<1>10. CASE Takes
  BY <1>8, <1>10, QuietMaps DEF Takes
<1>11. CASE HandlesEvent
  <2>1. UNCHANGED <<file, data>>
    BY <1>11 DEF HandlesEvent
  <2>2. CASE Handles({}) /\ Returns(Hold, proc)
    BY <1>5, <1>8, <2>1, <2>2, QuietMaps
  <2>3. CASE Handles({{"START"}}) /\ GoesOn(StartProc(proc))
    <3>1. StartProc(proc).last_error = "SUCCESS"
      BY <1>1 DEF StartProc, Fields
    <3> QED BY <1>4, <1>6, <1>8, <2>1, <2>3, <3>1, QuietMaps
  <2>4. CASE Handles({{"STOP"}}) /\ Returns("IDLE", StopProc(With(proc, "SUCCESS")))
    <3>1. StopProc(With(proc, "SUCCESS")).last_error = "SUCCESS"
      BY <1>1, ContentKept
    <3> QED BY <1>2, <1>5, <1>7, <1>8, <2>1, <2>4, <3>1, QuietMaps
  <2>5. CASE Handles({{"PAUSE"}}) /\ Returns("PAUSE", CloseClient(proc))
    BY <1>2, <1>5, <1>7, <1>8, <2>1, <2>5, QuietMaps
  <2>6. CASE Handles({{"RESUME"}}) /\ GoesOn(proc)
    BY <1>6, <1>8, <2>1, <2>6, QuietMaps
  <2> QED BY <1>11, <2>2, <2>3, <2>4, <2>5, <2>6 DEF HandlesEvent
<1>12. CASE StartFails
  <2>1. Handles({{"START"}}) /\ Returns(Hold, StopProc(With(proc, "ERR_MALLOC"))) /\ UNCHANGED <<file, data>>
    BY <1>12 DEF StartFails
  <2>2. StopProc(With(proc, "ERR_MALLOC")).last_error = "ERR_MALLOC"
    BY <1>1, ContentKept
  <2>3. cur_state' = "IDLE" /\ proc'.last_error = "ERR_MALLOC"
    BY <1>2, <1>5, <2>1, <2>2
  <2> QED BY <1>8, <2>1, <2>3, QuietMaps
<1>13. CASE Conn
  <2>1. /\ UNCHANGED <<file, data>>
        /\ \/ Returns("IDLE", StopProc(With(proc, "ERR_PARAM")))
           \/ UNCHANGED <<cur_state, proc>>
    BY <1>13 DEF Conn
  <2>2. StopProc(With(proc, "ERR_PARAM")).last_error = "ERR_PARAM"
    BY <1>1, ContentKept
  <2>3. \/ cur_state' = "IDLE" /\ proc'.last_error = "ERR_PARAM"
        \/ UNCHANGED <<cur_state, proc>>
    BY <1>5, <1>7, <2>1, <2>2
  <2> QED BY <1>8, <2>1, <2>3, QuietMaps
<1>14. CASE Connects
  <2>1. UNCHANGED <<file, data, cur_state>> /\ proc' = [proc EXCEPT !.http_opened = TRUE, !.err_conn = 0]
    BY <1>14 DEF Connects
  <2>2. proc'.last_error = proc.last_error
    BY <1>1, <2>1 DEF Fields
  <2> QED BY <1>8, <2>1, <2>2, QuietMaps
<1>15. CASE ConnectFails
  <2> DEFINE p == [proc EXCEPT !.err_conn = @ + 1]
  <2>1. /\ UNCHANGED <<file, data>>
        /\ \/ Returns("IDLE", StopProc(With(p, "ERR_TRY_CONN")))
           \/ Returns(Hold, CloseClient(With(p, "ERR_CONN")))
    BY <1>15 DEF ConnectFails
  <2>2. DOMAIN p = Fields
    BY <1>1
  <2> HIDE DEF p
  <2>3. /\ StopProc(With(p, "ERR_TRY_CONN")).last_error = "ERR_TRY_CONN"
        /\ CloseClient(With(p, "ERR_CONN")).last_error = "ERR_CONN"
    BY <2>2, ContentKept
  <2>4. \/ cur_state' = "IDLE" /\ proc'.last_error = "ERR_TRY_CONN"
        \/ cur_state' = cur_state /\ proc'.last_error = "ERR_CONN"
    BY <1>5, <1>7, <2>1, <2>3
  <2> QED BY <1>8, <2>1, <2>4, QuietMaps
<1>16. CASE Sends
  <2>1. /\ UNCHANGED <<file, data>> /\ Busy
        /\ \E p : Returns("RECV", p)
    BY <1>16 DEF Sends, Busy
  <2>2. cur_state' = "RECV"
    BY <1>5, <1>7, <2>1
  <2> QED BY <1>4, <1>8, <2>1, <2>2, QuietMaps
<1>17. CASE SendFails
  <2> DEFINE end == IF file.ask THEN proc.pre + RangeCount ELSE proc.range_end
             w == With(proc, "ERR_SEND")
             p == [w EXCEPT !.cur = 0, !.range_end = end]
  <2>1. Returns(Hold, CloseClient(p)) /\ UNCHANGED <<file, data>>
    BY <1>17 DEF SendFails
  <2> HIDE DEF end
  <2>2. DOMAIN w = Fields /\ w.last_error = "ERR_SEND"
    BY <1>1 DEF With, Fields
  <2> HIDE DEF w
  <2>3. DOMAIN p = Fields /\ p.last_error = "ERR_SEND"
    BY <2>2 DEF Fields
  <2> HIDE DEF p
  <2>4. CloseClient(p).last_error = "ERR_SEND"
    BY <2>3, ContentKept
  <2>5. cur_state' = cur_state /\ proc'.last_error = "ERR_SEND"
    BY <1>5, <2>1, <2>4
  <2> QED BY <1>8, <2>1, <2>5, QuietMaps
<1>18. CASE RecvFails
  <2>1. PICK n \in {0, 1} : Retry([proc EXCEPT !.err_recv = @ + n, !.more = FALSE], "ERR_TRY_RECV")
    BY <1>18 DEF RecvFails
  <2>2. cur_state = "RECV" /\ UNCHANGED <<file, data>>
    BY <1>2, <1>18 DEF RecvFails
  <2> DEFINE p == [proc EXCEPT !.err_recv = @ + n, !.more = FALSE]
  <2>3. DOMAIN p = Fields /\ Retry(p, "ERR_TRY_RECV")
    BY <1>1, <2>1
  <2> HIDE DEF p
  <2> QED BY <1>9, <2>2, <2>3
<1>19. CASE RecvNothing
  <2> DEFINE p == [proc EXCEPT !.err_recv = @ + 1, !.close_if_rang_end = TRUE, !.is_range = FALSE]
  <2>1. cur_state = "RECV" /\ UNCHANGED <<file, data>> /\ Retry(p, "ERR_RESPONSE")
    BY <1>2, <1>19 DEF RecvNothing
  <2>2. DOMAIN p = Fields
    BY <1>1
  <2> HIDE DEF p
  <2> QED BY <1>9, <2>1, <2>2
<1>20. CASE Redirects \/ ForecastFails
  <2>1. cur_state = "RECV" /\ UNCHANGED <<file, data>> /\ \E p : GoesOn(p)
    BY <1>2, <1>20 DEF Redirects, ForecastFails
  <2>2. cur_state' = cur_state
    BY <1>6, <2>1
  <2> QED BY <1>8, <2>1, <2>2, QuietMaps
<1>21. CASE Receives
  <2> DEFINE p == NextBlock
             a == [answer EXCEPT !.got = @ + p.recv_len]
  <2>1. /\ cur_state = "RECV" /\ proc.http_opened /\ answer.got < answer.len /\ file' = file
        /\ \/ \E w : Returns(Hold, w) /\ UNCHANGED data
           \/ ~(p.read_pos >= p.recv_len) /\ Push(p, a)
    BY <1>1, <1>2, <1>21 DEF Receives, Answer
  <2>2. CASE \E w : Returns(Hold, w) /\ UNCHANGED data
    <3>1. cur_state' = cur_state
      BY <1>5, <2>2
    <3> QED BY <1>8, <2>1, <2>2, <3>1, QuietMaps
  <2>3. CASE ~(p.read_pos >= p.recv_len) /\ Push(p, a)
    <3>1. Steady(p) /\ (p.read_pos < p.recv_len => Pushable(p, a))
      BY <2>1, BlockIsNext
    <3>2. WellFormed(p)
      BY <1>1, <2>1, BlockRead
    <3> HIDE DEF p
    <3>3. p.read_pos \in Int /\ p.recv_len \in Int
      BY <3>2, Sizes DEF WellFormed, Measurable, Proc
    <3> HIDE DEF a
    <3>4. Pushable(p, a) /\ p.pre = proc.pre
      BY <2>3, <3>1, <3>3 DEF Steady
    <3> QED BY <2>1, <2>3, <3>4, PushMaps
  <2> QED BY <2>1, <2>2, <2>3
<1>22. CASE WaitFreePoll
  <2>1. /\ cur_state = "WAIT_FREE" /\ file' = file
        /\ \/ \E w : Returns(Hold, w) /\ UNCHANGED data
           \/ Push(proc, answer)
    BY <1>2, <1>22 DEF WaitFreePoll
  <2>2. CASE \E w : Returns(Hold, w) /\ UNCHANGED data
    <3>1. cur_state' = cur_state
      BY <1>5, <2>2
    <3> QED BY <1>8, <2>1, <2>2, <3>1, QuietMaps
  <2>3. CASE Push(proc, answer)
    <3>1. Pushable(proc, answer)
      BY <2>1, WaitingIsNext
    <3> QED BY <2>1, <2>3, <3>1, PushMaps
  <2> QED BY <2>1, <2>2, <2>3
<1>23. CASE WaitRangePoll
  <2>1. /\ cur_state = "WAIT_RANGE" /\ UNCHANGED <<file, data>>
        /\ \/ \E w : Returns(Hold, w)
           \/ \E w : GoesOn(w)
    BY <1>2, <1>23 DEF WaitRangePoll
  <2>2. cur_state' = cur_state
    BY <1>5, <1>6, <2>1
  <2> QED BY <1>8, <2>1, <2>2, QuietMaps
<1> QED BY <1>10, <1>11, <1>12, <1>13, <1>14, <1>15, <1>16, <1>17, <1>18, <1>19, <1>20, <1>21,
           <1>22, <1>23 DEF Work

(* The calls and the reader take steps of Download, when positions are     *)
(* those of the files.                                                     *)
LEMMA CallsMap ==
  ASSUME \A f \in Files : \A s \in Seeks : s <= f.len,
         TypeOK, CallInv, DataInv, (TypeOK /\ DataInv)'
  PROVE  CallerStep \/ PauseOrResume \/ Call \/ Pops => [Abstract!Next]_(Abstract!vars)
<1>1. InOrder /\ Len(Queue) \in Nat
  BY QueueIs DEF DataInv
<1>2. CASE Stopped \/ ClearEvents \/ ClearAcks \/ Frees \/ Started \/ PauseOrResume \/ Call
  <2>1. UNCHANGED <<file, data, cur_state, proc>>
    BY <1>2 DEF Stopped, ClearEvents, ClearAcks, Frees, Started, PauseOrResume, Call, work
  <2> QED BY <1>1, <2>1, QuietMaps
<1>3. CASE Starts
  <2> DEFINE w == With(proc, "SUCCESS")
             p == [w EXCEPT !.pre = op.pos]
  <2>1. /\ cpc = "start" /\ proc' = p /\ UNCHANGED <<file, cur_state>>
        /\ IF op.kind = "start"
           THEN received' = <<>> /\ popped' = 0 /\ origin' = op.pos
           ELSE UNCHANGED data
    BY <1>3 DEF Starts
  <2>2. cur_state = "IDLE"
    BY <2>1 DEF CallInv
  <2>3. p.last_error = "SUCCESS"
    <3>1. DOMAIN w = Fields /\ w.last_error = "SUCCESS"
      BY DEF TypeOK, Proc, With, Fields
    <3> HIDE DEF w
    <3> QED BY <3>1 DEF Fields
  <2> HIDE DEF p
  <2>4. Mode = "IDLE" /\ Mode' = "IDLE" /\ Verdict' = "OK"
    BY <2>1, <2>2, <2>3 DEF Mode, Verdict
  <2>5. CASE op.kind = "start"
    <3>1. received' = <<>> /\ popped' = 0 /\ origin' = op.pos /\ Len(received') = 0
      BY <2>1, <2>5
    <3>2. Queue' = <<>>
      BY <3>1 DEF Queue
    <3>3. op.pos \in Seeks /\ file \in Files
      BY <2>5 DEF DataInv, PlaceInv, TypeOK
    <3>4. op.pos \in Nat /\ op.pos <= file.len /\ file.len \in Nat
      <4>1. file \in File /\ op.pos \in Nat /\ op.pos <= file.len
        BY <3>3, Sizes
      <4> QED BY <4>1 DEF File
    <3>5. Pos' \in 0 .. file.len
      BY <3>1, <3>4 DEF Pos
    <3> HIDE DEF Queue, Pos, Mode, Verdict
    <3> QED BY <1>1, <2>1, <2>4, <3>2, <3>5, StepIs
  <2>6. CASE op.kind # "start"
    <3>1. UNCHANGED <<Queue, Pos>>
      BY <2>1, <2>6 DEF Queue, Pos, data
    <3> HIDE DEF Queue, Pos, Mode, Verdict
    <3> QED BY <1>1, <2>1, <2>4, <3>1, StepIs
  <2> QED BY <2>5, <2>6
<1>4. CASE Pops
  <2>1. PICK n \in 1 .. GetCount : popped' = popped + n
    BY <1>4 DEF Pops
  <2>2. UNCHANGED <<file, cur_state, proc, received, origin>>
    BY <1>4 DEF Pops, work
  <2>3. UNCHANGED <<Mode, Verdict, Pos>>
    BY <2>2 DEF Mode, Verdict, Pos
  <2> DEFINE m == Len(received) - popped
             first == origin + popped
  <2>4. /\ Queue = Run(first, m) /\ first \in Nat /\ m \in Nat /\ Len(Queue) = m
        /\ origin \in Nat /\ popped \in Nat /\ Len(received) \in Nat
    BY QueueIs DEF DataInv
  <2>5. n \in 1 .. Len(Queue) /\ n \in 0 .. m
    BY <2>1, <2>4 DEF GetCount
  <2>6. Queue' = Run(first + n, m - n)
    <3>1. received' \in Seq(Int) /\ origin' \in Nat /\ popped' \in 0 .. Len(received')
          /\ received' = [i \in 1 .. Len(received') |-> origin' + i - 1]
      BY DEF TypeOK, DataInv, InOrder
    <3>2. Queue' = Run(origin' + popped', Len(received') - popped')
      BY <3>1, RestIs DEF Queue
    <3>3. origin' + popped' = first + n /\ Len(received') - popped' = m - n
      BY <2>1, <2>2, <2>4, <2>5
    <3> QED BY <3>2, <3>3
  <2>7. SubSeq(Run(first, m), n + 1, m) = Run(first + n, m - n)
    BY <2>4, <2>5, RunRest
  <2>8. Queue' = SubSeq(Queue, n + 1, Len(Queue))
    BY <2>4, <2>6, <2>7
  <2> HIDE DEF Queue, Pos, Mode, Verdict
  <2> QED BY <1>1, <2>2, <2>3, <2>5, <2>8, StepIs
<1> QED BY <1>2, <1>3, <1>4 DEF CallerStep

(* What the reader of a file relies on, all of it at once: the downloader  *)
(* implements module Download, whatever breaks short of the four troubles, *)
(* when it is started inside the file (http_download_process.c:411-544).   *)
THEOREM DownloadIsImplemented ==
  ASSUME Trouble = {}, \A f \in Files : \A s \in Seeks : s <= f.len
  PROVE  Spec => ImplementsDownload
<1>1. Init => Abstract!Init
  <2> SUFFICES ASSUME Init PROVE Abstract!Init
    OBVIOUS
  <2>1. /\ file \in File /\ cur_state = "IDLE" /\ proc.last_error = "SUCCESS"
        /\ received = <<>> /\ popped = 0 /\ origin = 0
    BY Sizes DEF Init
  <2>2. Len(received) = 0 /\ SubSeq(received, popped + 1, Len(received)) = <<>>
    BY <2>1
  <2> QED BY <2>1, <2>2 DEF Abstract!Init, File
<1>2. IInv /\ IInv' /\ [Next]_vars => [Abstract!Next]_(Abstract!vars)
  <2> SUFFICES ASSUME IInv, IInv', [Next]_vars PROVE [Abstract!Next]_(Abstract!vars)
    OBVIOUS
  <2>1. TypeOK /\ CallInv /\ CountInv /\ DataInv /\ (TypeOK /\ DataInv)'
    BY DEF IInv, SafeInv
  <2>2. CASE Next
    BY <2>1, <2>2, WorkMaps, CallsMap DEF Next
  <2>3. CASE UNCHANGED vars
    BY <2>1, <2>3, QuietMaps DEF DataInv, vars, work
  <2> QED BY <2>2, <2>3
<1> QED BY <1>1, <1>2, Invariant, PTL DEF Spec, ImplementsDownload, Abstract!Spec
-----------------------------------------------------------------------------
(* A range is asked for as far as the buffer has room, so that its units   *)
(* end where the request ends.  A buffer of one unit is no good: a request *)
(* for the first unit of a file leaves its end out, and gets all of it.    *)
LEMMA RangeIsAsked ==
  ASSUME Trouble = {}, Capacity > 1, TypeOK, CountInv, DataInv, Ranged, Busy,
         NEW end, end = (IF file.ask THEN proc.pre + RangeCount ELSE proc.range_end),
         NEW a \in Answers(proc.pre, end - 1) \cup ErrorPages, a.kind = "file"
  PROVE  end - proc.pre <= GetFreeCount /\ a.from + a.len <= end
<1>1. file \in File /\ file.len \in Nat /\ file.len > 0 /\ proc.pre \in Nat /\ file.ask
  <2>1. file \in File /\ proc \in Proc
    BY Sizes DEF TypeOK
  <2> QED BY <2>1 DEF File, Proc, Ranged
<1>2. proc.range_forecast /\ (proc.length_received => proc.total_length = file.len)
  BY DEF DataInv, LengthInv
<1>3. /\ end \in Nat /\ end - proc.pre <= GetFreeCount
      /\ end = proc.pre + GetFreeCount \/ end = file.len
  BY <1>1, <1>2, RangeEndIs
<1>4. /\ a.from = proc.pre /\ proc.pre < file.len
      /\ a.len = (IF end - 1 > 0 THEN Smaller(end - 1 + 1, file.len) ELSE file.len) - proc.pre
  <2>1. end - 1 \in Int
    BY <1>3
  <2> HIDE DEF Ranged
  <2> QED BY <1>1, <2>1, AnswersAreOfFile
<1>5. CASE end > 1
  <2>1. Smaller(end - 1 + 1, file.len) <= end /\ Smaller(end - 1 + 1, file.len) \in Nat
    BY <1>1, <1>3 DEF Smaller
  <2>2. a.len = Smaller(end - 1 + 1, file.len) - proc.pre
    BY <1>3, <1>4, <1>5
  <2> QED BY <1>1, <1>3, <1>4, <2>1, <2>2
<1>6. CASE ~(end > 1)
  <2>1. a.len = file.len - proc.pre
    BY <1>3, <1>4, <1>6
  <2>2. CASE end = file.len
    BY <1>1, <1>3, <1>4, <2>1, <2>2
  <2>3. CASE end = proc.pre + GetFreeCount
    <3>1. /\ proc.pre = origin + Len(received) /\ GetFreeCount = Capacity - (Len(received) - popped)
          /\ origin \in Nat /\ Len(received) \in Nat /\ popped \in Nat /\ Capacity \in Nat
      BY Sizes, LenProperties DEF DataInv, PlaceInv, TypeOK, GetFreeCount, GetCount
    <3>2. proc.pre + GetFreeCount > 1
      BY <3>1
    <3> QED BY <1>6, <2>3, <3>2
  <2> QED BY <1>3, <2>2, <2>3
<1> QED BY <1>3, <1>5, <1>6

(* A range that is not touched fits on.                                    *)
LEMMA RangeStays ==
  ASSUME TypeOK, RangeInv, file' = file,
         \/ cur_state' \notin {"RECV", "WAIT_FREE"}
         \/ cur_state' # "WAIT_FREE" /\ answer'.kind # "file"
         \/ /\ UNCHANGED <<cur_state, received, popped>> /\ answer' \in {answer, NoAnswer}
            /\ proc'.range_end = proc.range_end /\ proc'.pre = proc.pre
         \/ ~Ranged
  PROVE  RangeInv'
<1>1. Ranged' = Ranged
  BY DEF Ranged
<1>2. CASE cur_state' \notin {"RECV", "WAIT_FREE"} \/ (cur_state' # "WAIT_FREE" /\ answer'.kind # "file")
  BY <1>2 DEF RangeInv
<1>3. CASE ~Ranged
  BY <1>1, <1>3 DEF RangeInv
<1>4. CASE /\ UNCHANGED <<cur_state, received, popped>> /\ answer' \in {answer, NoAnswer}
           /\ proc'.range_end = proc.range_end /\ proc'.pre = proc.pre
  <2>1. answer' = answer \/ answer'.kind # "file"
    BY <1>4 DEF NoAnswer
  <2>2. GetFreeCount' = GetFreeCount
    BY <1>4 DEF GetFreeCount, GetCount
  <2> QED BY <1>1, <1>4, <2>1, <2>2 DEF RangeInv
<1> QED BY <1>2, <1>3, <1>4

(* A block of a range has room, and leaves room for the rest.              *)
LEMMA PushKeepsRange ==
  ASSUME Trouble = {}, TypeOK, DataInv, RangeInv, Ranged, cur_state = "RECV", answer.kind = "file",
         NEW p, NEW a, Pushable(p, a), p.pre = proc.pre, p.range_end = proc.range_end,
         a.from = answer.from, a.len = answer.len, Push(p, a), Keep(a), file' = file
  PROVE  RangeInv'
<1> DEFINE len == p.recv_len - p.read_pos
           pushed == [p EXCEPT !.pre = @ + len, !.cur = @ + len, !.read_pos = @ + len]
           result == PushResult(pushed)
           q == With(pushed, result)
           w == With(p, "ERR_BUF_TOO_SMALL")
<1>1. DOMAIN p = Fields /\ WellFormed(p) /\ "alloc" \notin Trouble
  BY DEF Pushable, WellFormed, Measurable, Proc, Fields
<1>2. /\ p.recv_len \in Nat /\ p.read_pos \in Nat /\ p.pre \in Nat /\ p.range_end \in Nat
      /\ p.read_pos < p.recv_len /\ a.from \in Nat /\ a.got \in Nat /\ a.len \in Nat /\ a.got <= a.len
      /\ a.from + a.got = p.pre + (p.recv_len - p.read_pos)
  <2>1. /\ p.recv_len \in Nat /\ p.read_pos \in Nat /\ p.pre \in Nat /\ p.range_end \in Nat
    BY <1>1, Sizes DEF WellFormed, Measurable, Proc
  <2>2. a.got <= a.len /\ a.from \in Nat /\ a.got \in Nat /\ a.len \in Nat
    BY DEF Pushable, Sound, Answer
  <2> QED BY <2>1, <2>2 DEF Pushable
<1>3. p.range_end - p.pre <= GetFreeCount /\ a.from + a.len <= p.range_end
  BY DEF RangeInv
<1>4. /\ GetFreeCount = Capacity - (Len(received) - popped) /\ GetFreeCount \in Int
      /\ Len(received) \in Nat /\ popped \in Nat /\ Capacity \in Nat
  BY Sizes, LenProperties DEF TypeOK, GetFreeCount, GetCount
<1>5. len \in Nat /\ len <= GetFreeCount /\ len <= p.range_end - p.pre
  <2>1. len \in Nat /\ a.from + a.got = p.pre + len
    BY <1>2
  <2> HIDE DEF len
  <2>2. \A f, g, m, r, n, e \in Int : g <= m /\ f + g = r + n /\ f + m <= e => n <= e - r
    OBVIOUS
  <2>3. len <= p.range_end - p.pre
    BY <1>2, <1>3, <2>1, <2>2
  <2>4. \A n, e, x \in Int : n <= e /\ e <= x => n <= x
    OBVIOUS
  <2>5. p.range_end - p.pre \in Int
    BY <1>2
  <2> QED BY <1>3, <1>4, <2>1, <2>3, <2>4, <2>5
<1>6. /\ received' = received \o Units(p, a, len) /\ UNCHANGED <<popped, origin>>
      /\ \/ Returns("RECV", q)
         \/ \E c : Returns("WAIT_RANGE", c)
         \/ Returns("IDLE", StopProc(q))
  <2>1. \/ GetFreeCount < len
        \/ /\ \E n \in 0 .. len : /\ "alloc" \notin Trouble => n = len
                                  /\ received' = received \o Units(p, a, n)
           /\ UNCHANGED <<popped, origin>>
           /\ \/ result = "SUCCESS" /\ Returns("RECV", q)
              \/ result = "RANGE_END" /\ \E c \in {q, CloseClient(q)} : Returns("WAIT_RANGE", c)
              \/ result = "ALL_END" /\ Returns("IDLE", StopProc(q))
    BY <1>1, PushIs
  <2> HIDE DEF len, q, result, w
  <2>2. ~(GetFreeCount < len)
    BY <1>4, <1>5
  <2> QED BY <1>1, <2>1, <2>2
<1>7. ASSUME NEW s, NEW c, Returns(s, c)
      PROVE  proc' = c /\ cur_state' = IF s = Hold THEN cur_state ELSE s
  BY <1>7 DEF Returns
<1>8. "RECV" # Hold /\ "WAIT_RANGE" # Hold /\ "IDLE" # Hold
  BY DEF Hold
<1>9. CASE Returns("IDLE", StopProc(q)) \/ \E c : Returns("WAIT_RANGE", c)
  <2>1. cur_state' \in {"IDLE", "WAIT_RANGE"}
    BY <1>7, <1>8, <1>9
  <2> QED BY <2>1, RangeStays
<1>10. CASE Returns("RECV", q)
  <2>1. Len(received') = Len(received) + len
    <3> DEFINE u == Units(p, a, len)
    <3>1. u \in Seq(Int) /\ Len(u) = len
      <4>1. p.recv_len \in Int /\ p.read_pos \in Int /\ a.from \in Int /\ a.got \in Int
        BY <1>2
      <4> HIDE DEF len
      <4> QED BY <1>1, <1>5, <4>1, UnitsAre DEF WellFormed, Measurable, Pushable, Sound
    <3>2. received \in Seq(Int) /\ received' = received \o u
      BY <1>6 DEF TypeOK
    <3> HIDE DEF u
    <3> QED BY <3>1, <3>2, ConcatProperties
  <2>2. GetFreeCount' = GetFreeCount - len
    <3> HIDE DEF len
    <3>1. GetFreeCount' = Capacity - (Len(received') - popped')
      BY DEF GetFreeCount, GetCount
    <3> QED BY <1>4, <1>5, <1>6, <2>1, <3>1
  <2>3. q.pre = p.pre + len /\ q.range_end = p.range_end
    <3>1. DOMAIN pushed = Fields /\ pushed.pre = p.pre + len /\ pushed.range_end = p.range_end
      BY <1>1 DEF Fields
    <3> HIDE DEF pushed, result
    <3> QED BY <3>1 DEF With, Fields
  <2> HIDE DEF len, q
  <2>4. proc' = q /\ cur_state' = "RECV"
    BY <1>7, <1>8, <1>10
  <2>5. answer' = a \/ answer'.kind # "file"
    BY DEF Keep, NoAnswer
  <2>6. q.range_end - q.pre <= GetFreeCount'
    <3>1. \A e, r, n, x \in Int : e - r <= x => e - (r + n) <= x - n
      OBVIOUS
    <3>2. p.range_end \in Int /\ p.pre \in Int /\ len \in Int /\ GetFreeCount \in Int
      BY <1>2, <1>4, <1>5
    <3>3. p.range_end - (p.pre + len) <= GetFreeCount - len
      BY <1>3, <3>1, <3>2
    <3> QED BY <2>2, <2>3, <3>3
  <2> QED BY <1>3, <2>3, <2>4, <2>5, <2>6 DEF RangeInv
<1> QED BY <1>6, <1>9, <1>10

(* The worker keeps to the room there is.                                  *)
LEMMA WorkKeepsRange ==
  ASSUME Trouble = {}, Capacity > 1, TypeOK, CallInv, CountInv, DataInv, RangeInv
  PROVE  Work => RangeInv'
<1>1. /\ proc \in Proc /\ answer \in Answer /\ cur_state \in States /\ DOMAIN proc = Fields
  BY DEF TypeOK, Proc, Fields
<1>2. /\ \A s : Polls(s) => cur_state = s
      /\ Handles({{"START"}}) => cur_state = "IDLE"
      /\ Handles({{"RESUME"}}) => cur_state = "PAUSE"
  BY <1>1, Handled DEF Polls
<1>3. Busy => cur_state # "WAIT_FREE"
  BY DEF DataInv, ReadInv
<1>4. ASSUME NEW s, NEW p, Returns(s, p)
      PROVE  proc' = p /\ cur_state' = IF s = Hold THEN cur_state ELSE s
  BY <1>4 DEF Returns
<1>5. ASSUME NEW p, GoesOn(p) PROVE cur_state' = cur_state
  BY <1>5 DEF GoesOn
<1>6. \A s \in {"IDLE", "PAUSE", "RECV", "WAIT_FREE", "WAIT_RANGE"} : s # Hold
  BY DEF Hold
<1>7. NoAnswer.kind # "file"
  BY DEF NoAnswer
<1>8. CASE Takes
  BY <1>8, RangeStays DEF Takes, data
<1>9. CASE HandlesEvent
  <2>1. UNCHANGED <<file, answer, data>>
    BY <1>9 DEF HandlesEvent
  <2>2. CASE Handles({}) /\ Returns(Hold, proc)
    BY <1>4, <2>1, <2>2, RangeStays DEF data
  <2>3. CASE (Handles({{"START"}}) \/ Handles({{"RESUME"}})) /\ \E p : GoesOn(p)
    <3>1. cur_state' \notin {"RECV", "WAIT_FREE"}
      BY <1>2, <1>5, <2>3
    <3> QED BY <2>1, <3>1, RangeStays
  <2>4. CASE \E p : Returns("IDLE", p) \/ Returns("PAUSE", p)
    <3>1. cur_state' \notin {"RECV", "WAIT_FREE"}
      BY <1>4, <1>6, <2>4
    <3> QED BY <2>1, <3>1, RangeStays
  <2> QED BY <1>9, <2>2, <2>3, <2>4 DEF HandlesEvent
<1>10. CASE StartFails
  <2>1. Handles({{"START"}}) /\ (\E p : Returns(Hold, p)) /\ file' = file
    BY <1>10 DEF StartFails
  <2>2. cur_state' = "IDLE"
    BY <1>2, <1>4, <2>1
  <2> QED BY <2>1, <2>2, RangeStays
<1>11. CASE Conn
  <2>1. UNCHANGED <<file, data>> /\ Keep(answer)
        /\ ((\E p : Returns("IDLE", p)) \/ UNCHANGED <<cur_state, proc>>)
    BY <1>11 DEF Conn
  <2>2. cur_state' = "IDLE" \/ UNCHANGED <<cur_state, proc>>
    BY <1>4, <1>6, <2>1
  <2>3. answer' \in {answer, NoAnswer}
    BY <2>1 DEF Keep
  <2> QED BY <2>1, <2>2, <2>3, RangeStays DEF data
<1>12. CASE Connects
  <2>1. UNCHANGED <<file, data, cur_state, answer>> /\ proc' = [proc EXCEPT !.http_opened = TRUE, !.err_conn = 0]
    BY <1>12 DEF Connects
  <2>2. proc'.range_end = proc.range_end /\ proc'.pre = proc.pre
    BY <1>1, <2>1 DEF Fields
  <2> QED BY <2>1, <2>2, RangeStays DEF data
<1>13. CASE ConnectFails
  <2> DEFINE p == [proc EXCEPT !.err_conn = @ + 1]
  <2>1. /\ UNCHANGED <<file, data, answer>>
        /\ \/ \E c : Returns("IDLE", c)
           \/ Returns(Hold, CloseClient(With(p, "ERR_CONN")))
    BY <1>13 DEF ConnectFails
  <2>2. DOMAIN p = Fields /\ p.range_end = proc.range_end /\ p.pre = proc.pre
    BY <1>1 DEF Fields
  <2> HIDE DEF p
  <2>3. LET c == CloseClient(With(p, "ERR_CONN")) IN c.range_end = p.range_end /\ c.pre = p.pre
    BY <2>2 DEF CloseClient, With, Fields
  <2>4. \/ cur_state' = "IDLE"
        \/ cur_state' = cur_state /\ proc'.range_end = proc.range_end /\ proc'.pre = proc.pre
    BY <1>4, <1>6, <2>1, <2>2, <2>3
  <2> QED BY <2>1, <2>4, RangeStays DEF data
<1>14. CASE Sends
  <2> DEFINE end == IF file.ask THEN proc.pre + RangeCount ELSE proc.range_end
             w == With(proc, "SUCCESS")
             p == [w EXCEPT !.cur = 0, !.more = FALSE, !.range_end = end]
  <2>1. /\ Busy /\ Returns("RECV", p) /\ UNCHANGED <<file, data>>
        /\ answer' \in Answers(proc.pre, end - 1) \cup ErrorPages
    BY <1>14 DEF Sends, Busy
  <2>2. cur_state' = "RECV" /\ proc' = p /\ GetFreeCount' = GetFreeCount
    BY <1>4, <1>6, <2>1 DEF data, GetFreeCount, GetCount
  <2>3. CASE Ranged /\ answer'.kind = "file"
    <3> DEFINE a == answer'
    <3>1. a \in Answers(proc.pre, end - 1) \cup ErrorPages /\ a.kind = "file"
      BY <2>1, <2>3
    <3> HIDE DEF a
    <3>2. end - proc.pre <= GetFreeCount /\ a.from + a.len <= end
      BY <2>1, <2>3, <3>1, RangeIsAsked
    <3> HIDE DEF end
    <3>3. p.pre = proc.pre /\ p.range_end = end
      <4>1. DOMAIN w = Fields /\ w.pre = proc.pre
        BY <1>1 DEF With, Fields
      <4> HIDE DEF w
      <4> QED BY <4>1 DEF Fields
    <3> HIDE DEF p
    <3> QED BY <2>2, <3>2, <3>3 DEF RangeInv, a
  <2>4. CASE ~Ranged \/ answer'.kind # "file"
    BY <2>1, <2>2, <2>4, RangeStays
  <2> QED BY <2>3, <2>4
<1>15. CASE SendFails
  <2>1. UNCHANGED file /\ Busy /\ answer' = NoAnswer /\ \E p : Returns(Hold, p)
    BY <1>15 DEF SendFails, Busy
  <2>2. cur_state' # "WAIT_FREE" /\ answer'.kind # "file"
    BY <1>3, <1>4, <1>7, <2>1
  <2> QED BY <2>1, <2>2, RangeStays
<1>16. CASE RecvFails \/ RecvNothing \/ Redirects \/ ForecastFails
  <2>1. /\ file' = file /\ answer' = NoAnswer /\ cur_state = "RECV"
        /\ (\E p : Returns("IDLE", p)) \/ (\E p : GoesOn(p))
    BY <1>2, <1>16 DEF RecvFails, RecvNothing, Redirects, ForecastFails, Retry
  <2>2. cur_state' \in {"IDLE", "RECV"}
    BY <1>4, <1>5, <1>6, <2>1
  <2> QED BY <1>7, <2>1, <2>2, RangeStays
<1>17. CASE Receives
  <2> DEFINE p == NextBlock
             a == [answer EXCEPT !.got = @ + p.recv_len]
             w == With(p, "ERR_RECV_SKIP")
  <2>1. /\ cur_state = "RECV" /\ proc.http_opened /\ answer.got < answer.len /\ file' = file /\ Keep(a)
        /\ \/ p.read_pos >= p.recv_len
           \/ ~(p.read_pos >= p.recv_len) /\ Push(p, a)
    BY <1>1, <1>2, <1>17 DEF Receives, Answer
  <2>2. CASE ~Ranged
    BY <2>1, <2>2, RangeStays
  <2>3. CASE Ranged
    <3>1. /\ p.read_pos < p.recv_len => Pushable(p, a)
          /\ ~(p.read_pos < p.recv_len) => ~Ranged
          /\ p.pre = proc.pre
      BY <2>1, BlockIsNext DEF Steady
    <3>2. WellFormed(p) /\ p.range_end = proc.range_end
      BY <2>1, BlockRead
    <3>3. a.from = answer.from /\ a.len = answer.len
      BY <1>1 DEF Answer
    <3>4. answer.kind = "file"
      <4>1. answer.got \in Nat /\ answer.len \in Nat
        BY <1>1 DEF Answer
      <4> QED BY <2>1, <4>1 DEF DataInv, AnswerInv, OfFile
    <3> HIDE DEF p
    <3>5. p.read_pos \in Int /\ p.recv_len \in Int
      BY <3>2, Sizes DEF WellFormed, Measurable, Proc
    <3> HIDE DEF a
    <3>6. Pushable(p, a) /\ Push(p, a)
      BY <2>1, <2>3, <3>1, <3>5
    <3> QED BY <2>1, <2>3, <3>1, <3>2, <3>3, <3>4, <3>6, PushKeepsRange
  <2> QED BY <2>2, <2>3
<1>18. CASE WaitFreePoll
  <2>1. cur_state = "WAIT_FREE" /\ file' = file
    BY <1>2, <1>18 DEF WaitFreePoll
  <2>2. ~Ranged
    BY <2>1 DEF RangeInv
  <2> QED BY <2>1, <2>2, RangeStays
<1>19. CASE WaitRangePoll
  <2>1. cur_state = "WAIT_RANGE" /\ file' = file /\ ((\E w : Returns(Hold, w)) \/ (\E w : GoesOn(w)))
    BY <1>2, <1>19 DEF WaitRangePoll
  <2>2. cur_state' = "WAIT_RANGE"
    BY <1>4, <1>5, <2>1
  <2> QED BY <2>1, <2>2, RangeStays
<1> QED BY <1>8, <1>9, <1>10, <1>11, <1>12, <1>13, <1>14, <1>15, <1>16, <1>17, <1>18, <1>19 DEF Work

(* The calls do not touch a range, and the reader makes room.              *)
LEMMA CallsKeepRange ==
  ASSUME TypeOK, CallInv, DataInv, RangeInv
  PROVE  CallerStep \/ PauseOrResume \/ Call \/ Pops => RangeInv'
<1>1. CASE Stopped \/ ClearEvents \/ ClearAcks \/ Frees \/ Started \/ PauseOrResume \/ Call
  <2>1. UNCHANGED <<file, data, cur_state, proc, answer>>
    BY <1>1 DEF Stopped, ClearEvents, ClearAcks, Frees, Started, PauseOrResume, Call, work
  <2> QED BY <2>1, RangeStays DEF data
<1>2. CASE Starts
  <2>1. UNCHANGED <<file, cur_state>> /\ cur_state = "IDLE"
    BY <1>2 DEF Starts, CallInv
  <2> QED BY <2>1, RangeStays
<1>3. CASE Pops
  <2>1. PICK n \in 1 .. GetCount : popped' = popped + n
    BY <1>3 DEF Pops
  <2>2. UNCHANGED <<file, cur_state, proc, answer, received>>
    BY <1>3 DEF Pops, work
  <2>3. GetFreeCount' >= GetFreeCount /\ GetFreeCount \in Int /\ GetFreeCount' \in Int
    <3>1. Len(received) \in Nat /\ popped \in Nat /\ Capacity \in Nat
      BY Sizes, LenProperties DEF TypeOK
    <3> QED BY <2>1, <2>2, <3>1 DEF GetFreeCount, GetCount
  <2>4. proc.range_end \in Nat /\ proc.pre \in Nat
    BY DEF TypeOK, Proc
  <2>5. proc.range_end - proc.pre <= GetFreeCount => proc.range_end - proc.pre <= GetFreeCount'
    BY <2>3, <2>4
  <2> QED BY <2>2, <2>5 DEF RangeInv, Ranged
<1> QED BY <1>1, <1>2, <1>3 DEF CallerStep

(* What is asked for fits: a range never has to wait for room in the       *)
(* middle, with its connection open (http_download_process.c:162-173).     *)
THEOREM RangesFit ==
  ASSUME Trouble = {}, Capacity > 1
  PROVE  Spec => []RangeFits
<1>1. Init => RangeInv
  BY DEF Init, RangeInv
<1>2. IInv /\ RangeInv /\ [Next]_vars => RangeInv'
  <2> SUFFICES ASSUME IInv, RangeInv, [Next]_vars PROVE RangeInv'
    OBVIOUS
  <2>1. TypeOK /\ CallInv /\ CountInv /\ DataInv
    BY DEF IInv, SafeInv
  <2>2. CASE Next
    BY <2>1, <2>2, WorkKeepsRange, CallsKeepRange DEF Next
  <2>3. CASE UNCHANGED vars
    BY <2>1, <2>3, RangeStays DEF vars, work, data
  <2> QED BY <2>2, <2>3
<1>3. IInv /\ RangeInv => RangeFits
  BY DEF IInv, DataInv, ReadInv, RangeInv, RangeFits, Loads
<1> QED BY <1>1, <1>2, <1>3, Invariant, PTL DEF Spec
=============================================================================
