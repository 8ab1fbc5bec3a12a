----------------------------- MODULE HttpDownload -----------------------------
(***************************************************************************)
(* The downloader of src/utils/http_download_process.c: a machine of       *)
(* CommonFsm with the table HttpLookup that fetches a file in ranges into  *)
(* the download buffer, the thread that starts, stops, pauses and resumes  *)
(* it, and a reader that empties the buffer.  The client (httpclient.c),   *)
(* the network and the server are what their results show of them: an      *)
(* answer of so many units from some offset of the file, read in blocks of *)
(* recv_buf, that may break at any point.                                  *)
(*                                                                         *)
(* Fields of http_download_proc_t are the fields of proc, and a C function *)
(* that only computes on them is an operator from proc to proc.  What is   *)
(* pushed is recorded by file offset: a unit of the file is its offset.    *)
(***************************************************************************)
EXTENDS Integers, Sequences, FsmTables

CONSTANTS
  Block,       \* units of recv_buf: HTTP_DOWNLOAD_RECV_BUF_SIZE - 1
  Capacity,    \* units the download buffer holds
  Fallback,    \* range_count while the length is not known: 1024
  MaxConn,     \* HTTP_DOWNLOAD_MAX_ERR_CONN_COUNT
  MaxRecv,     \* HTTP_DOWNLOAD_MAX_ERR_RECV_COUNT
  Files,       \* what there is to download, and how: see File
  Seeks,       \* positions a download is started from
  MaxCalls,    \* bound: calls of the controlling thread
  MaxFaults,   \* bound: failures of network and heap
  Trouble      \* the part of Troubles that may happen

(* ask: range_enable; ranges: the server honours Range and says so;        *)
(* chunked: it sends chunks, and no length; moved: it redirects once.      *)
File == [len : Nat \ {0}, ask : BOOLEAN, ranges : BOOLEAN, chunked : BOOLEAN, moved : BOOLEAN]

(* empty_range: the whole file answers a range with no bytes in it;        *)
(* error_body: an error page has a length; slow: a connection is not made  *)
(* within COM_FSM_MAX_WAIT_TIME; alloc: a node of the buffer may be        *)
(* missing.                                                                *)
Troubles == {"empty_range", "error_body", "slow", "alloc"}

ASSUME HttpAssumption ==
  /\ {Block, Capacity, Fallback, MaxConn, MaxRecv} \subseteq Nat \ {0}
  /\ Block <= Capacity
  /\ {MaxCalls, MaxFaults} \subseteq Nat
  /\ Files \subseteq File
  /\ Seeks \subseteq Nat
  /\ Trouble \subseteq Troubles

VARIABLES
  file,       \* the file, and how it is served
  cur_state,  \* of the machine
  wpc,        \* where its worker is
  pending, taken, acks,   \* the bits of its event groups
  proc,       \* the fields only the worker uses, once START is posted
  url,        \* "none", the "first" one, the one it has "moved" to, "garbled"
  buffer,     \* http_buffer is set
  answer,     \* the answer on the connection
  received,   \* offsets of the units pushed since the buffer was cleared
  popped,     \* how many of them the reader has taken
  origin,     \* the offset the first of them is to have
  cpc, op,    \* where the controlling thread is, and in which call
  calls, faults

work   == <<cur_state, wpc, taken, proc>>
bits   == <<pending, acks>>
shared == <<url, buffer>>
data   == <<received, popped, origin>>
caller == <<cpc, op, calls>>
vars   == <<file, work, bits, shared, answer, data, caller, faults>>

States == {"IDLE", "PAUSE", "RECV", "WAIT_FREE", "WAIT_RANGE"}
HttpEvents == {"START", "STOP", "PAUSE", "RESUME"}
Results ==
  {"SUCCESS", "ALL_END", "RANGE_END", "REDIRECT", "ERR_PARAM", "ERR_MALLOC", "ERR_CONN", "ERR_TRY_CONN",
   "ERR_SEND", "ERR_RECV", "ERR_RECV_SKIP", "ERR_RESPONSE", "ERR_BUF_TOO_SMALL", "ERR_TRY_RECV"}

Proc ==
  [last_error : Results, recv_buf : BOOLEAN, http_opened : BOOLEAN, err_conn : 0 .. MaxConn,
   err_recv : 0 .. MaxRecv, is_range : BOOLEAN, range_forecast : BOOLEAN, range_end : Nat,
   close_if_rang_end : BOOLEAN, redirect : BOOLEAN, is_chunked : BOOLEAN, length_received : BOOLEAN,
   total_length : Nat \cup {-1}, pre : Nat, cur : Nat, more : BOOLEAN, recv_len : 0 .. Block,
   read_pos : 0 .. Block]

(* from: its first offset; len, got: its length and how much is read;      *)
(* ranged: its header makes is_range true; size: the whole length it names.*)
Answer == [kind : {"none", "file", "moved", "error"}, from : Nat, len : Nat, got : Nat,
           ranged : BOOLEAN, size : Nat]

NoAnswer == [kind |-> "none", from |-> 0, len |-> 0, got |-> 0, ranged |-> FALSE, size |-> 0]

Op == [kind : {"start", "continue", "stop"}, pos : Nat]

TypeOK ==
  /\ file \in Files
  /\ cur_state \in States
  /\ wpc \in {"wait", "handle", "conn", "connect", "send"}
  /\ {pending, taken, acks} \subseteq SUBSET HttpEvents
  /\ proc \in Proc
  /\ url \in {"none", "first", "moved", "garbled"} /\ buffer \in BOOLEAN
  /\ answer \in Answer /\ answer.got <= answer.len
  /\ received \in Seq(Int) /\ popped \in 0 .. Len(received) /\ Len(received) - popped <= Capacity
  /\ origin \in Nat
  /\ cpc \in {"idle", "stop", "clear_events", "clear_acks", "free", "start", "await"}
  /\ op \in Op
  /\ calls \in 0 .. MaxCalls /\ faults \in 0 .. MaxFaults

Init ==
  /\ file \in Files
  /\ cur_state = "IDLE" /\ wpc = "wait"
  /\ pending = {} /\ taken = {} /\ acks = {}
  /\ proc = [last_error |-> "SUCCESS", recv_buf |-> FALSE, http_opened |-> FALSE, err_conn |-> 0,
             err_recv |-> 0, is_range |-> FALSE, range_forecast |-> FALSE, range_end |-> 0,
             close_if_rang_end |-> FALSE, redirect |-> FALSE, is_chunked |-> FALSE,
             length_received |-> FALSE, total_length |-> 0, pre |-> 0, cur |-> 0, more |-> FALSE,
             recv_len |-> 0, read_pos |-> 0]
  /\ url = "none" /\ buffer = FALSE
  /\ answer = NoAnswer
  /\ received = <<>> /\ popped = 0 /\ origin = 0
  /\ cpc = "idle" /\ op = [kind |-> "stop", pos |-> 0]
  /\ calls = 0 /\ faults = 0

-----------------------------------------------------------------------------
GetCount     == Len(received) - popped
GetFreeCount == Capacity - GetCount

Smaller(a, b) == IF a < b THEN a ELSE b
Larger(a, b)  == IF a < b THEN b ELSE a

(* http_download_is_finish, which the reader of the file asks.             *)
IsFinish == cur_state = "IDLE" /\ proc.last_error \in {"SUCCESS", "ALL_END"}

Fails == faults < MaxFaults /\ faults' = faults + 1

(* http_download_proc_close_client, _stop and _start.                      *)
CloseClient(p) == [p EXCEPT !.http_opened = FALSE]

StopProc(p) == [CloseClient(p) EXCEPT !.recv_buf = FALSE]

StartProc(p) ==
  [p EXCEPT !.last_error = "SUCCESS", !.recv_buf = TRUE, !.http_opened = FALSE,
            !.total_length = IF p.pre <= 0 THEN -1 ELSE @,
            !.length_received = p.pre > 0 /\ @,
            !.err_conn = 0, !.err_recv = 0, !.is_range = FALSE, !.redirect = FALSE,
            !.is_chunked = FALSE, !.more = FALSE, !.range_forecast = file.ask,
            !.close_if_rang_end = FALSE]

With(p, result) == [p EXCEPT !.last_error = result]

-----------------------------------------------------------------------------
(* com_fsm_task.                                                           *)
Takes ==
  /\ wpc = "wait"
  /\ pending # {} \/ cur_state \in {"RECV", "WAIT_FREE", "WAIT_RANGE"}
  /\ taken' = pending /\ pending' = {}
  /\ wpc' = "handle"
  /\ UNCHANGED <<file, cur_state, proc, acks, shared, answer, data, caller, faults>>

Returns(state, p) ==
  /\ cur_state' = IF state = Hold THEN cur_state ELSE state
  /\ proc' = p
  /\ acks' = acks \cup (taken \ {"PAUSE", "RESUME"})   \* nobody waits for these
  /\ taken' = {}
  /\ wpc' = "wait"
  /\ UNCHANGED pending

(* The action goes on in http_download_proc_conn_action.                   *)
GoesOn(p) ==
  /\ wpc' = "conn"
  /\ proc' = p
  /\ UNCHANGED <<cur_state, taken, bits>>

Handles(row) == wpc = "handle" /\ RowEvent(HttpLookup, cur_state, taken) = row
Polls(state) == cur_state = state /\ Handles({{}})

HandlesEvent ==
  /\ \/ Handles({}) /\ Returns(Hold, proc)
     \/ Handles({{"START"}}) /\ GoesOn(StartProc(proc))
     \/ Handles({{"STOP"}}) /\ Returns("IDLE", StopProc(With(proc, "SUCCESS")))
     \/ Handles({{"PAUSE"}}) /\ Returns("PAUSE", CloseClient(proc))
     \/ Handles({{"RESUME"}}) /\ GoesOn(proc)
  /\ UNCHANGED <<file, shared, answer, data, caller, faults>>

(* recv_buf or client_data_ext cannot be allocated.                        *)
StartFails ==
  /\ Handles({{"START"}})
  /\ Fails
  /\ Returns(Hold, StopProc(With(proc, "ERR_MALLOC")))
  /\ answer' = NoAnswer
  /\ UNCHANGED <<file, shared, data, caller>>

(* An answer is lost with its connection.                                  *)
Keep(a) == answer' = IF proc'.http_opened THEN a ELSE NoAnswer

-----------------------------------------------------------------------------
(* http_download_proc_conn: url and http_buffer are tested, ...            *)
Conn ==
  /\ wpc = "conn"
  /\ \/ /\ url = "none" \/ ~buffer
        /\ Returns("IDLE", StopProc(With(proc, "ERR_PARAM")))
     \/ /\ url # "none" /\ buffer
        /\ wpc' = IF proc.http_opened THEN "send" ELSE "connect"
        /\ UNCHANGED <<cur_state, proc, taken, bits>>
  /\ Keep(answer)
  /\ UNCHANGED <<file, shared, data, caller, faults>>

(* ... the client connects if it has to, ...                               *)
Connects ==
  /\ wpc = "connect"
  /\ wpc' = "send"
  /\ proc' = [proc EXCEPT !.http_opened = TRUE, !.err_conn = 0]
  /\ UNCHANGED <<file, cur_state, taken, bits, shared, answer, data, caller, faults>>

(* ... gives up when it has failed too often, else keeps the state.        *)
ConnectFails ==
  /\ wpc = "connect"
  /\ \/ url = "garbled" /\ UNCHANGED faults
     \/ Fails
  /\ LET p == [proc EXCEPT !.err_conn = @ + 1]
     IN  IF p.err_conn >= MaxConn
         THEN Returns("IDLE", StopProc(With(p, "ERR_TRY_CONN")))
         ELSE Returns(Hold, CloseClient(With(p, "ERR_CONN")))
  /\ UNCHANGED <<file, shared, answer, data, caller>>

(* Fault: the room in the buffer is not looked at once the length is known.*)
RangeCountUnclamped ==
  IF proc.length_received THEN proc.total_length - proc.pre
  ELSE IF proc.range_forecast THEN GetFreeCount
  ELSE Fallback

RangeCount ==
  IF proc.length_received THEN Smaller(GetFreeCount, proc.total_length - proc.pre)
  ELSE IF proc.range_forecast THEN GetFreeCount
  ELSE Fallback

(* The whole file, with no Content-Range.                                  *)
WholeFile == [kind |-> "file", from |-> 0, len |-> file.len, got |-> 0, ranged |-> file.ranges, size |-> 0]

ErrorPages == [kind : {"error"}, from : {0}, len : IF "error_body" \in Trouble THEN {0, 1} ELSE {0},
               got : {0}, ranged : {FALSE}, size : {0}]

(* The server's answers to a request for first .. last; the client leaves  *)
(* out a last that is not positive.                                        *)
Answers(first, last) ==
  IF url = "garbled" THEN ErrorPages
  ELSE IF url = "first" /\ file.moved THEN {[NoAnswer EXCEPT !.kind = "moved"]}
  ELSE IF ~file.ask \/ ~file.ranges THEN {WholeFile}
  ELSE IF first >= file.len THEN ErrorPages
  ELSE IF 0 < last /\ last < first
       THEN IF "empty_range" \in Trouble THEN {WholeFile} ELSE ErrorPages
  ELSE {[kind |-> "file", from |-> first, got |-> 0, ranged |-> TRUE, size |-> file.len,
         len |-> (IF last > 0 THEN Smaller(last + 1, file.len) ELSE file.len) - first]}

(* ... and the request is sent, for as much as the buffer has room for.    *)
Sends ==
  /\ wpc = "send"
  /\ LET end == IF file.ask THEN proc.pre + RangeCount ELSE proc.range_end
     IN  /\ Returns("RECV", [With(proc, "SUCCESS") EXCEPT !.cur = 0, !.more = FALSE, !.range_end = end])
         /\ \/ answer' \in Answers(proc.pre, end - 1) /\ UNCHANGED faults
            \/ answer' \in ErrorPages /\ Fails
  /\ UNCHANGED <<file, shared, data, caller>>

SendFails ==
  /\ wpc = "send"
  /\ Fails
  /\ LET end == IF file.ask THEN proc.pre + RangeCount ELSE proc.range_end
     IN  Returns(Hold, CloseClient([With(proc, "ERR_SEND") EXCEPT !.cur = 0, !.range_end = end]))
  /\ answer' = NoAnswer
  /\ UNCHANGED <<file, shared, data, caller>>

-----------------------------------------------------------------------------
(* http_download_proc_recv.  A request that failed is made again, after a  *)
(* delay, until the limit of counted failures.                             *)
Retry(p, limit) ==
  IF p.err_recv >= MaxRecv
  THEN Returns("IDLE", StopProc(With(p, limit)))
  ELSE GoesOn(CloseClient(With(p, "ERR_RECV")))

Dry == answer.got > 0 /\ answer.got = answer.len

(* Without an answer: on a closed connection (HTTPCLIENT_ERROR_CONN, which *)
(* is not counted), on a broken one, after the end of the answer.  A chunk *)
(* that fills the last block is followed by a line the client cannot read. *)
RecvFails ==
  /\ Polls("RECV")
  /\ \E counted \in {0, 1} :
       /\ \/ ~proc.http_opened /\ counted = 0 /\ UNCHANGED faults
          \/ Dry /\ (file.chunked /\ proc.more => counted = 1) /\ UNCHANGED faults
          \/ proc.http_opened /\ Fails
       /\ Retry([proc EXCEPT !.err_recv = @ + counted, !.more = FALSE], "ERR_TRY_RECV")
  /\ answer' = NoAnswer
  /\ UNCHANGED <<file, shared, data, caller>>

Redirected == answer.kind = "moved" /\ ~proc.redirect

(* The new url is copied without its end.                                  *)
Redirects ==
  /\ Polls("RECV") /\ proc.http_opened /\ Redirected
  /\ url' \in {"moved", "garbled"}
  /\ GoesOn(CloseClient([With(proc, "REDIRECT") EXCEPT !.redirect = TRUE, !.is_range = FALSE]))
  /\ answer' = NoAnswer
  /\ UNCHANGED <<file, buffer, data, caller, faults>>

(* response_content_len <= 0.                                              *)
RecvNothing ==
  /\ Polls("RECV") /\ proc.http_opened /\ ~Redirected /\ answer.len = 0
  /\ Retry([proc EXCEPT !.err_recv = @ + 1, !.close_if_rang_end = TRUE, !.is_range = FALSE], "ERR_RESPONSE")
  /\ answer' = NoAnswer
  /\ UNCHANGED <<file, shared, data, caller, faults>>

IsRange == file.ask /\ IF answer.got = 0 THEN answer.ranged ELSE proc.is_range

(* Fault: the guess is made again.                                         *)
ForecastFailsAgain ==
  /\ Polls("RECV") /\ answer.len > answer.got
  /\ file.ask /\ proc.range_forecast /\ ~IsRange
  /\ GoesOn(CloseClient([With(proc, "ERR_RECV") EXCEPT !.is_range = FALSE]))
  /\ answer' = NoAnswer
  /\ UNCHANGED <<file, shared, data, caller, faults>>

(* The guess that the server has ranges was wrong.                         *)
ForecastFails ==
  /\ Polls("RECV") /\ answer.len > answer.got
  /\ file.ask /\ proc.range_forecast /\ ~IsRange
  /\ GoesOn(CloseClient([With(proc, "ERR_RECV") EXCEPT !.range_forecast = FALSE, !.is_range = FALSE]))
  /\ answer' = NoAnswer
  /\ UNCHANGED <<file, shared, data, caller, faults>>

-----------------------------------------------------------------------------
(* What is known of the length.                                            *)
Measured(p) ==
  IF file.chunked /\ answer.kind = "file"
  THEN [p EXCEPT !.is_chunked = TRUE, !.total_length = answer.len]
  ELSE IF p.length_received THEN p
  ELSE [p EXCEPT !.length_received = TRUE,
                 !.total_length = IF p.is_range /\ answer.size > 0 THEN answer.size ELSE answer.len]

(* Fault: an answer without range is taken to start where the last ended.  *)
SkippedNever(p) == [p EXCEPT !.read_pos = 0, !.cur = Larger(@, p.pre)]

(* An answer without range starts at 0: what is had already is skipped.    *)
Skipped(p) ==
  LET skip == Smaller(p.pre - p.cur, p.recv_len)
  IN  IF p.is_range THEN [p EXCEPT !.read_pos = 0, !.cur = Larger(@, p.pre)]
      ELSE [p EXCEPT !.read_pos = skip, !.cur = @ + skip]

NextBlock ==
  LET more == answer.len - answer.got >= Block
  IN  Skipped(Measured([proc EXCEPT !.is_range = IsRange, !.more = more,
                                    !.recv_len = IF more THEN Block ELSE answer.len % Block]))

(* The offsets of n units of recv_buf from read_pos on; -1 for what is not *)
(* of the file.                                                            *)
Units(p, a, n) ==
  [i \in 1 .. n |-> IF a.kind = "file" THEN a.from + a.got - p.recv_len + p.read_pos + i - 1 ELSE -1]

(* Fault: the last block of any answer ends the download.                  *)
PushResultEarly(p) ==
  IF ~p.more THEN "ALL_END"
  ELSE IF ~p.is_chunked /\ p.pre >= p.total_length THEN "ALL_END"
  ELSE IF p.is_range /\ p.pre >= p.range_end THEN "RANGE_END"
  ELSE "SUCCESS"

PushResult(p) ==
  IF ~p.is_range /\ ~p.more THEN "ALL_END"
  ELSE IF ~p.is_chunked /\ p.pre >= p.total_length THEN "ALL_END"
  ELSE IF p.is_range /\ p.pre >= p.range_end THEN "RANGE_END"
  ELSE "SUCCESS"

(* Fault: the room in the buffer is not tested.                            *)
PushUntested(p, a) ==
  LET len == p.recv_len - p.read_pos
      q   == [p EXCEPT !.pre = @ + len, !.cur = @ + len, !.read_pos = @ + len]
  IN  /\ received' = received \o Units(p, a, len)
      /\ Returns(IF PushResult(q) = "SUCCESS" THEN "RECV" ELSE "WAIT_RANGE", With(q, PushResult(q)))
      /\ UNCHANGED <<popped, origin>>

(* http_download_proc_push_action of answer a.  What the buffer cannot     *)
(* take for want of a node is lost: the result of the push is not used.    *)
Push(p, a) ==
  LET len    == p.recv_len - p.read_pos
      pushed == [p EXCEPT !.pre = @ + len, !.cur = @ + len, !.read_pos = @ + len]
      result == PushResult(pushed)
      q      == With(pushed, result)
  IN  IF GetFreeCount < len
      THEN Returns("WAIT_FREE", With(p, "ERR_BUF_TOO_SMALL")) /\ UNCHANGED data
      ELSE /\ \E n \in IF "alloc" \in Trouble THEN 0 .. len ELSE {len} :
                received' = received \o Units(p, a, n)
           /\ CASE result = "SUCCESS"   -> Returns("RECV", q)
                [] result = "RANGE_END" ->
                     Returns("WAIT_RANGE", IF q.close_if_rang_end THEN CloseClient(q) ELSE q)
                [] OTHER                -> Returns("IDLE", StopProc(q))
           /\ UNCHANGED <<popped, origin>>

(* http_download_proc_recv_poll with a block.                              *)
Receives ==
  /\ Polls("RECV") /\ proc.http_opened /\ answer.len > answer.got
  /\ ~(file.ask /\ proc.range_forecast /\ ~IsRange)
  /\ LET p == NextBlock
         a == [answer EXCEPT !.got = @ + p.recv_len]
     IN  /\ IF p.read_pos >= p.recv_len
            THEN Returns(Hold, With(p, "ERR_RECV_SKIP")) /\ UNCHANGED data
            ELSE Push(p, a)
         /\ Keep(a)
  /\ UNCHANGED <<file, shared, caller, faults>>

WaitFreePoll ==
  /\ Polls("WAIT_FREE")
  /\ IF GetFreeCount < proc.recv_len - proc.read_pos
     THEN Returns(Hold, With(proc, "ERR_BUF_TOO_SMALL")) /\ UNCHANGED data
     ELSE Push(proc, answer)
  /\ Keep(answer)
  /\ UNCHANGED <<file, shared, caller, faults>>

WaitRangePoll ==
  /\ Polls("WAIT_RANGE")
  /\ IF GetFreeCount <= GetCount
     THEN Returns(Hold, With(proc, "ERR_BUF_TOO_SMALL"))
     ELSE GoesOn(With(proc, "SUCCESS"))
  /\ UNCHANGED <<file, shared, answer, data, caller, faults>>

Work ==
  \/ Takes \/ HandlesEvent \/ StartFails \/ Conn \/ Connects \/ ConnectFails \/ Sends \/ SendFails
  \/ RecvFails \/ Redirects \/ RecvNothing \/ ForecastFails \/ Receives
  \/ WaitFreePoll \/ WaitRangePoll

-----------------------------------------------------------------------------
(* The controlling thread.  http_download_pause and _resume do not wait.   *)
PauseOrResume ==
  /\ cpc = "idle" /\ calls < MaxCalls
  /\ calls' = calls + 1
  /\ \E e \in {"PAUSE", "RESUME"} : pending' = pending \cup {e}
  /\ UNCHANGED <<file, work, acks, shared, answer, data, cpc, op, faults>>

(* http_download_stop, alone or as the beginning of a start: from the      *)
(* beginning, from a position, or, when a download has failed, from where  *)
(* the buffer ends (audio_file.c).                                         *)
Call ==
  /\ cpc = "idle" /\ calls < MaxCalls
  /\ calls' = calls + 1
  /\ \/ op' = [kind |-> "stop", pos |-> 0]
     \/ op' \in [kind : {"start"}, pos : Seeks]
     \/ /\ cur_state = "IDLE" /\ ~IsFinish
        /\ op' = [kind |-> "continue", pos |-> origin + Len(received)]
  /\ pending' = pending \cup {"STOP"}
  /\ cpc' = "stop"
  /\ UNCHANGED <<file, work, acks, shared, answer, data, faults>>

(* A wait ends with the acknowledgement, or after 30 s.                    *)
Waited(event) ==
  \/ event \in acks /\ acks' = acks \ {event}
  \/ "slow" \in Trouble /\ wpc = "connect" /\ event \notin acks /\ UNCHANGED acks

(* Fault: STOP is posted and not waited for.                               *)
StoppedUnacked ==
  /\ cpc = "stop"
  /\ cpc' = "clear_events"
  /\ UNCHANGED <<file, work, bits, shared, answer, data, op, calls, faults>>

Stopped ==
  /\ cpc = "stop"
  /\ Waited("STOP")
  /\ cpc' = "clear_events"
  /\ UNCHANGED <<file, work, pending, shared, answer, data, op, calls, faults>>

ClearEvents ==
  /\ cpc = "clear_events"
  /\ pending' = {}
  /\ cpc' = "clear_acks"
  /\ UNCHANGED <<file, work, acks, shared, answer, data, op, calls, faults>>

ClearAcks ==
  /\ cpc = "clear_acks"
  /\ acks' = {}
  /\ cpc' = "free"
  /\ UNCHANGED <<file, work, pending, shared, answer, data, op, calls, faults>>

Frees ==
  /\ cpc = "free"
  /\ url' = "none" /\ buffer' = FALSE
  /\ cpc' = IF op.kind = "stop" THEN "idle" ELSE "start"
  /\ UNCHANGED <<file, work, bits, answer, data, op, calls, faults>>

(* The rest of http_download_start_inner; a seek has cleared the buffer.   *)
Starts ==
  /\ cpc = "start"
  /\ url' = "first" /\ buffer' = TRUE
  /\ proc' = [With(proc, "SUCCESS") EXCEPT !.pre = op.pos]
  /\ pending' = pending \cup {"START"}
  /\ IF op.kind = "start"
     THEN received' = <<>> /\ popped' = 0 /\ origin' = op.pos
     ELSE UNCHANGED data
  /\ cpc' = "await"
  /\ UNCHANGED <<file, cur_state, wpc, taken, acks, answer, op, calls, faults>>

Started ==
  /\ cpc = "await"
  /\ Waited("START")
  /\ cpc' = "idle"
  /\ UNCHANGED <<file, work, pending, shared, answer, data, op, calls, faults>>

CallerStep == Stopped \/ ClearEvents \/ ClearAcks \/ Frees \/ Starts \/ Started

(* The reader pops what it wants.                                          *)
Pops ==
  /\ GetCount > 0
  /\ \E n \in 1 .. GetCount : popped' = popped + n
  /\ UNCHANGED <<file, work, bits, shared, answer, received, origin, caller, faults>>

Next == Work \/ CallerStep \/ PauseOrResume \/ Call \/ Pops

Spec == Init /\ [][Next]_vars

(* The worker is scheduled, calls go on, and somebody reads the file.      *)
FairSpec == Spec /\ WF_vars(Work) /\ WF_vars(CallerStep) /\ WF_vars(Pops)

-----------------------------------------------------------------------------
(* The reader gets the file from where it asked for it, every unit once    *)
(* and in order, whatever breaks and whatever the server makes of ranges:  *)
(* each connection is to begin where the last one ended                    *)
(* (http_download_process.c:186, 319-331, 352-354).                        *)
InOrder == received = [i \in 1 .. Len(received) |-> origin + i - 1]

(* A reader that is told that the download has finished, and finds the     *)
(* buffer empty, is at the end of the file (http_download_process.c:       *)
(* 710-721, audio_file.c:279-283).                                         *)
FinishedIsComplete ==
  cpc = "idle" /\ op.kind # "stop" /\ IsFinish => origin + Len(received) = file.len

(* What the reader of a file may rely on, all of it at once: the steps of  *)
(* the machine, of its callers and of the network are steps of Download    *)
(* (http_download_process.c:411-544).                                      *)
Abstract == INSTANCE Download
  WITH len <- file.len,
       state <- IF cur_state \in {"IDLE", "PAUSE"} THEN cur_state ELSE "RUN",
       verdict <- IF cur_state # "IDLE" \/ proc.last_error = "SUCCESS" THEN "OK"
                  ELSE IF proc.last_error = "ALL_END" THEN "ALL_END" ELSE "FAILED",
       queue <- SubSeq(received, popped + 1, Len(received)),
       pos <- origin + Len(received)

ImplementsDownload == Abstract!Spec

(* url and buffer are there while a connection is made and used            *)
(* (http_download_process.c:138-141, 188-203, 641-648).                    *)
UrlOutlivesUse == wpc \in {"connect", "send"} => url # "none" /\ buffer

(* What is asked for fits: a range never has to wait for room in the       *)
(* middle, with its connection open (http_download_process.c:162-173).     *)
RangeFits == cur_state = "WAIT_FREE" => ~proc.is_range

(* A download that somebody reads ends, or is paused, once the network has *)
(* failed for the last time; what the server does not have is not asked    *)
(* for without end (http_download_process.c:53-55, 222-230, 268-273).      *)
DownloadEnds == cur_state \in {"RECV", "WAIT_FREE", "WAIT_RANGE"} ~> cur_state \in {"IDLE", "PAUSE"}
=============================================================================
