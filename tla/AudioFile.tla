------------------------------ MODULE AudioFile ------------------------------
(***************************************************************************)
(* src/src/audio_file.c: one file at a time, from the web, from flash or   *)
(* from a card; the player's worker, which opens, prereads, pauses,        *)
(* resumes, stops and closes it; and the decoder, which reads and seeks.   *)
(*                                                                         *)
(* The downloader is the one of Download, which HttpDownload implements.   *)
(* http_download_stop and _start are one step each: CommonFsm shows that   *)
(* their calls return with the machine idle, and that it was served.  The  *)
(* bits of _pause and _resume, which do not wait, are taken later.  A      *)
(* byte is its offset in the file.  While the decoder restarts the         *)
(* download the worker does not stop it.                                   *)
(***************************************************************************)
EXTENDS Integers, Sequences

CONSTANTS
  FileLen,
  Capacity,    \* of http_buffer: COMMON_BUF_HTTP_MAX_SIZE
  SeekMax,     \* AUDIO_FILE_HTTP_MAX_SEEK
  Header,      \* COM_PLAYER_AUDIO_TYPE_HEADER_SIZE, what is preread
  ReadSizes,   \* sizes the decoder asks for
  Kinds,       \* see AllKinds
  Trouble      \* see Troubles

(* chunked: a web server that names no length but that of a chunk.         *)
AllKinds == {"web", "chunked", "flash", "sd"}

(* stop_in_seek: the decoder seeks forward in a file while it is stopped,  *)
(* or after; quick_resume: it is resumed before the downloader has taken   *)
(* PAUSE; runs_on: the decoder runs on in a card's file that is paused,    *)
(* and closed, because it took PAUSE with a late RESUME and acknowledged   *)
(* both (see Playback).  Without runs_on it is in no call from the pause   *)
(* of a card's file to its resume.                                         *)
Troubles == {"stop_in_seek", "quick_resume", "runs_on"}

RunsOn == "runs_on" \in Trouble

ASSUME AudioFileAssumption ==
  /\ {FileLen, Capacity, SeekMax, Header} \subseteq Nat \ {0}
  /\ SeekMax <= Capacity
  /\ ReadSizes \subseteq Nat \ {0}
  /\ Kinds \subseteq AllKinds
  /\ Trouble \subseteq Troubles

VARIABLES
  file,         \* file_state
  kind,
  total_length, read_pos, preread,
  handle, cursor,             \* file_handle is open, and where it stands
  state, verdict, queue, pos, \* the downloader, its buffer and its place
  named,        \* its total_length
  pending,      \* bits of its event group
  call,         \* the call the reader is in
  rpc,          \* and where in it
  want, got,    \* locals of the call: bytes still wanted, bytes had
  target,       \* position of a forward seek
  stopping,     \* audio_file_stop has been called
  started,      \* the header has been read
  failed,       \* a read has failed: the player is done with the file
  out           \* result of the last call

net    == <<state, verdict, queue, pos, named, pending>>
card   == <<handle, cursor>>
fields == <<total_length, read_pos, preread>>
locals == <<call, rpc, want, got, target>>
status == <<stopping, started, failed>>
vars   == <<file, kind, fields, card, net, locals, status, out>>

D == INSTANCE Download WITH len <- FileLen

Web == kind \in {"web", "chunked"}

(* (uint32_t)-1, a length not known yet; no position is beyond it.         *)
Unnamed == FileLen + 1

Offsets == 0 .. FileLen - 1

TypeOK ==
  /\ file \in {"closed", "OPEN", "PAUSE"} /\ kind \in AllKinds
  /\ total_length \in 0 .. Unnamed /\ read_pos \in 0 .. FileLen
  /\ preread \in Seq(Offsets) /\ Len(preread) <= Header
  /\ handle \in BOOLEAN /\ cursor \in 0 .. FileLen
  /\ state \in {"IDLE", "RUN", "PAUSE"} /\ verdict \in {"OK", "ALL_END", "FAILED"}
  /\ queue \in Seq(Offsets) /\ Len(queue) <= Capacity
  /\ pos \in 0 .. FileLen /\ named \in 0 .. Unnamed
  /\ pending \subseteq {"PAUSE", "RESUME"}
  /\ call \in {"size", "preread", "read", "skip"}
  /\ rpc \in {"idle", "next", "restart", "wait", "pop", "return"}
  /\ want \in Nat /\ got \in Seq(Offsets) /\ target \in 0 .. FileLen
  /\ {stopping, started, failed} \subseteq BOOLEAN
  /\ out.call \in {"none", "lost", "read", "seek"} /\ out.got \in Seq(Offsets)

Init ==
  /\ file = "closed" /\ kind \in Kinds
  /\ total_length = 0 /\ read_pos = 0 /\ preread = <<>>
  /\ handle = FALSE /\ cursor = 0
  /\ state = "IDLE" /\ verdict = "OK" /\ queue = <<>> /\ pos = 0 /\ named = 0 /\ pending = {}
  /\ call = "read" /\ rpc = "idle" /\ want = 0 /\ got = <<>> /\ target = 0
  /\ stopping = FALSE /\ started = FALSE /\ failed = FALSE
  /\ out = [call |-> "none", want |-> 0, got |-> <<>>]

-----------------------------------------------------------------------------
Smaller(a, b) == IF a < b THEN a ELSE b
Larger(a, b)  == IF a < b THEN b ELSE a

Front(s, n) == SubSeq(s, 1, n)
Rest(s, n)  == SubSeq(s, n + 1, Len(s))

Lost  == [call |-> "lost", want |-> 0, got |-> <<>>]
At(p) == [call |-> "seek", want |-> p, got |-> <<>>]

(* Fault: the buffer is not part of where the download goes on.            *)
RestartPosAtRead == read_pos

(* What is in the buffer has been read from the net already.               *)
RestartPos == Len(queue) + read_pos

(* http_download_start_seek: the length is forgotten at the beginning.     *)
Starts(p, q) ==
  /\ pos' = p /\ queue' = q
  /\ \/ state' = "RUN"  /\ verdict' = "OK"
     \/ state' = "IDLE" /\ verdict' = "FAILED"
  /\ named' = IF p = 0 THEN Unnamed ELSE named
  /\ pending' = {}

(* http_download_stop; an idle downloader has no row for STOP.             *)
StopsDownload ==
  /\ state' = "IDLE"
  /\ verdict' = IF state = "IDLE" THEN verdict ELSE "OK"
  /\ pending' = {}
  /\ UNCHANGED <<queue, pos, named>>

-----------------------------------------------------------------------------
(* The downloader.                                                         *)
Stores ==
  /\ \E n \in 1 .. Capacity - Len(queue) : D!Store(n)
  /\ named' \in IF kind = "web" THEN {FileLen} ELSE 1 .. FileLen
  /\ UNCHANGED <<file, kind, fields, card, pending, locals, status, out>>

Breaks ==
  /\ state = "RUN" /\ D!Fail
  /\ UNCHANGED <<file, kind, fields, card, named, pending, locals, status, out>>

(* Its bits are taken together: where a row has PAUSE, RESUME is dropped;  *)
(* where no row matches, both are.                                         *)
TakesBits ==
  /\ pending # {}
  /\ pending' = {}
  /\ IF "PAUSE" \in pending /\ state = "RUN" THEN D!Pause
     ELSE IF "RESUME" \in pending /\ state = "PAUSE" THEN D!Resume
     ELSE UNCHANGED <<state, verdict, queue, pos>>
  /\ UNCHANGED <<file, kind, fields, card, named, locals, status, out>>

-----------------------------------------------------------------------------
(* The player's worker.                                                    *)
Open ==
  /\ file = "closed"
  /\ file' = "OPEN" /\ kind' \in Kinds
  /\ handle' = (kind' = "sd") /\ cursor' = 0
  /\ IF kind' \in {"web", "chunked"}
     THEN total_length' = 0 /\ Starts(0, <<>>)
     ELSE total_length' = FileLen /\ UNCHANGED net
  /\ UNCHANGED <<read_pos, preread, locals, status, out>>

(* The code does not ask whether the decoder is at rest; see Troubles.     *)
Pause ==
  /\ file = "OPEN" /\ started /\ ~stopping
  /\ kind = "sd" => RunsOn \/ rpc = "idle"
  /\ file' = "PAUSE" /\ handle' = FALSE
  /\ pending' = IF Web THEN pending \cup {"PAUSE"} ELSE pending
  /\ UNCHANGED <<kind, fields, cursor, state, verdict, queue, pos, named, locals, status, out>>

(* If the card's file cannot be opened again the player stops.             *)
Resume ==
  /\ file = "PAUSE" /\ ~stopping
  /\ "quick_resume" \notin Trouble => "PAUSE" \notin pending
  /\ file' = "OPEN"
  /\ handle' = (kind = "sd") /\ cursor' = IF kind = "sd" THEN read_pos ELSE cursor
  /\ pending' = IF Web THEN pending \cup {"RESUME"} ELSE pending
  /\ UNCHANGED <<kind, fields, state, verdict, queue, pos, named, locals, status, out>>

Stop ==
  /\ file # "closed" /\ started /\ ~stopping
  /\ "stop_in_seek" \notin Trouble => rpc = "idle" \/ call # "skip"
  /\ stopping' = TRUE
  /\ IF Web THEN StopsDownload ELSE UNCHANGED net
  /\ UNCHANGED <<file, kind, fields, card, locals, started, failed, out>>

Frees ==
  /\ file' = "closed"
  /\ total_length' = 0 /\ read_pos' = 0 /\ preread' = <<>>
  /\ call' = "read" /\ target' = 0
  /\ stopping' = FALSE /\ started' = FALSE /\ failed' = FALSE
  /\ out' = [call |-> "none", want |-> 0, got |-> <<>>]
  /\ UNCHANGED <<kind, rpc, want, got>>

(* Fault: the download is taken to be stopped by audio_file_stop.          *)
CloseUnstopped ==
  /\ stopping /\ rpc = "idle"
  /\ handle' = FALSE /\ cursor' = 0
  /\ UNCHANGED net
  /\ Frees

(* The decoder has ended.  A card's file that is paused is closed already. *)
Close ==
  /\ stopping /\ rpc = "idle"
  /\ handle' = (handle /\ file # "OPEN") /\ cursor' = 0
  /\ IF Web
     THEN /\ state' = "IDLE" /\ verdict' = "OK" /\ queue' = <<>>
          /\ pos' = 0 /\ named' = 0 /\ pending' = {}
     ELSE UNCHANGED net
  /\ Frees

Worker == Open \/ Pause \/ Resume \/ Stop \/ Close

-----------------------------------------------------------------------------
(* The reader: the worker until the header is read, then the decoder.      *)
Calls ==
  /\ file # "closed" /\ rpc = "idle" /\ ~failed
  /\ kind = "sd" => RunsOn \/ handle

(* f_read and f_lseek on a card's file that has been closed fail, if they  *)
(* return at all.                                                          *)
Shut == kind = "sd" /\ ~handle

(* audio_file_size, before anything is read.                               *)
Size ==
  /\ Calls /\ Web /\ ~started /\ total_length = 0
  /\ call' = "size" /\ rpc' = "restart" /\ want' = 1
  /\ UNCHANGED <<file, kind, fields, card, net, got, target, status, out>>

(* audio_file_read takes what has been preread first.                      *)
Read ==
  /\ Calls
  /\ \E size \in IF started THEN ReadSizes ELSE {Header} :
       LET n == Smaller(Len(preread), size)
       IN  /\ got' = Front(preread, n) /\ preread' = Rest(preread, n)
           /\ want' = size - n
           /\ rpc' = IF size = n THEN "return" ELSE "next"
  /\ call' = IF started THEN "read" ELSE "preread"
  /\ UNCHANGED <<file, kind, total_length, read_pos, card, net, target, status, out>>

Chunk == Smaller(want, SeekMax)
Idle(v) == state = "IDLE" /\ verdict \in v

(* The loop over the buffer: nothing more is wanted or to be had, ...      *)
Had ==
  /\ rpc = "next" /\ Web
  /\ want = 0 \/ (D!IsFinish /\ queue = <<>>)
  /\ total_length' = Larger(total_length, named)
  /\ rpc' = "return"
  /\ UNCHANGED <<file, kind, read_pos, preread, card, net, call, want, got, target, status, out>>

(* ... there is enough, or there will not be more, or it has to wait.      *)
Looks ==
  /\ rpc = "next" /\ Web /\ want > 0
  /\ ~(D!IsFinish /\ queue = <<>>)
  /\ rpc' = IF D!IsFinish \/ Len(queue) >= Chunk THEN "pop" ELSE "restart"
  /\ UNCHANGED <<file, kind, fields, card, net, call, want, got, target, status, out>>

(* audio_file_wait_buffer: a download that has failed goes on, ...         *)
Restarts ==
  /\ rpc = "restart"
  /\ rpc' = "wait"
  /\ IF Idle({"FAILED"}) THEN Starts(RestartPos, queue) ELSE UNCHANGED net
  /\ UNCHANGED <<file, kind, fields, card, call, want, got, target, status, out>>

(* Fault: it waits for bytes that will not come.                           *)
WaitedForBytes ==
  /\ rpc = "wait" /\ Len(queue) >= Chunk
  /\ rpc' = IF call = "size" THEN "idle" ELSE "pop"
  /\ want' = IF call = "size" THEN 0 ELSE want
  /\ UNCHANGED <<file, kind, fields, card, net, call, got, target, status, out>>

(* ... the wait ends with enough bytes, or all there will be, ...          *)
Waited ==
  /\ rpc = "wait"
  /\ Len(queue) >= Chunk \/ Idle({"OK", "ALL_END"})
  /\ IF call = "size"
     THEN rpc' = "idle" /\ want' = 0 /\ total_length' = named
     ELSE rpc' = "pop" /\ UNCHANGED <<want, total_length>>
  /\ UNCHANGED <<file, kind, read_pos, preread, card, net, call, got, target, status, out>>

(* ... or fails, in the end by a timeout, which does not run while the     *)
(* download is paused, but may end just before it is, or has ended.        *)
WaitExpires ==
  /\ rpc = "wait" /\ Len(queue) < Chunk
  /\ rpc' = "idle" /\ want' = 0 /\ got' = <<>>
  /\ failed' = (call = "read") /\ started' = (started \/ call = "preread")
  /\ out' = IF call = "size" THEN out ELSE Lost
  /\ total_length' = IF call = "size" THEN named ELSE total_length
  /\ UNCHANGED <<file, kind, read_pos, preread, card, net, call, target, stopping>>

WaitFails == (state = "RUN" \/ Idle({"FAILED"})) /\ WaitExpires

(* common_buffer_pop; a forward seek throws the bytes away, and is done    *)
(* when it has them all.                                                   *)
Pops ==
  /\ rpc = "pop"
  /\ LET n == Smaller(Chunk, Len(queue))
     IN  /\ D!Take(n)
         /\ want' = want - n
         /\ IF call = "skip"
            THEN /\ rpc' = IF want' = 0 THEN "idle" ELSE "restart"
                 /\ read_pos' = IF want' = 0 THEN target ELSE read_pos
                 /\ out' = IF want' = 0 THEN At(target) ELSE out
                 /\ UNCHANGED got
            ELSE /\ rpc' = "next"
                 /\ read_pos' = read_pos + n /\ got' = got \o Front(queue, n)
                 /\ UNCHANGED out
  /\ UNCHANGED <<file, kind, total_length, preread, card, named, pending, call, target, status>>

(* Fault: what is wanted is not compared with what is left.                *)
ReadsLocalUnclamped ==
  /\ rpc = "next" /\ ~Web
  /\ got' = got \o [i \in 1 .. want |-> read_pos + i - 1]
  /\ read_pos' = read_pos + want /\ want' = 0
  /\ rpc' = "return"
  /\ UNCHANGED <<file, kind, total_length, preread, card, net, call, target, status, out>>

ReadsLocal ==
  /\ rpc = "next" /\ ~Web
  /\ LET from == IF kind = "sd" THEN cursor ELSE read_pos
         n    == IF Shut THEN 0 ELSE Smaller(want, FileLen - from)
     IN  /\ got' = got \o [i \in 1 .. n |-> from + i - 1]
         /\ read_pos' = read_pos + n /\ want' = want - n
         /\ cursor' = IF kind = "sd" THEN cursor + n ELSE cursor
  /\ rpc' = "return"
  /\ UNCHANGED <<file, kind, total_length, preread, handle, net, call, target, status, out>>

(* audio_file_preread puts back what it has read.                          *)
Returns ==
  /\ rpc = "return"
  /\ rpc' = "idle" /\ want' = 0 /\ got' = <<>>
  /\ started' = TRUE
  /\ IF call = "preread"
     THEN preread' = preread \o got /\ UNCHANGED out
     ELSE out' = [call |-> "read", want |-> want + Len(got), got |-> got] /\ UNCHANGED preread
  /\ UNCHANGED <<file, kind, total_length, read_pos, card, net, call, target, stopping, failed>>

ReaderStep ==
  \/ Had \/ Looks \/ Restarts \/ Waited \/ WaitFails \/ Pops \/ ReadsLocal \/ Returns

-----------------------------------------------------------------------------
(* audio_file_seek to p; a position beyond the end is refused.             *)
Seeks(p) == Calls /\ started /\ (total_length > 0 => p < total_length)

Within(p) == p < read_pos /\ read_pos - p <= Len(preread)

(* Back, or on, in what has been preread.                                  *)
SeeksPreread(p) ==
  /\ Seeks(p) /\ Within(p)
  /\ preread' = Rest(preread, Len(preread) - (read_pos - p))
  /\ out' = At(p)
  /\ UNCHANGED <<file, kind, total_length, read_pos, card, net, locals, status>>

(* Nowhere, or anywhere in a file that is not from the web; what has been  *)
(* preread is gone also when f_lseek fails.                                *)
SeeksFar(p) ==
  /\ Seeks(p) /\ ~Within(p)
  /\ Web => p = read_pos
  /\ preread' = <<>>
  /\ IF Shut /\ p # read_pos
     THEN out' = Lost /\ UNCHANGED <<read_pos, cursor>>
     ELSE /\ out' = At(p) /\ read_pos' = p
          /\ cursor' = IF kind = "sd" THEN p ELSE cursor
  /\ UNCHANGED <<file, kind, total_length, handle, net, locals, status>>

(* The download begins again, where the buffer does not reach.             *)
SeeksAgain(p) ==
  /\ Seeks(p) /\ Web /\ ~Within(p)
  /\ p < read_pos \/ p > read_pos + SeekMax
  /\ Starts(p, <<>>)
  /\ read_pos' = p /\ preread' = <<>>
  /\ out' = At(p)
  /\ UNCHANGED <<file, kind, total_length, card, locals, status>>

(* What lies between is read and thrown away; see Pops.                    *)
SeeksForward(p) ==
  /\ Seeks(p) /\ Web
  /\ "stop_in_seek" \notin Trouble => ~stopping
  /\ read_pos < p /\ p <= read_pos + SeekMax
  /\ preread' = <<>>
  /\ call' = "skip" /\ rpc' = "restart" /\ want' = p - read_pos /\ target' = p
  /\ out' = Lost
  /\ UNCHANGED <<file, kind, total_length, read_pos, card, net, got, status>>

Seek ==
  \E p \in 0 .. FileLen : SeeksPreread(p) \/ SeeksFar(p) \/ SeeksAgain(p) \/ SeeksForward(p)

Next ==
  \/ Stores \/ Breaks \/ TakesBits \/ Worker
  \/ Size \/ Read \/ Seek \/ ReaderStep \/ WaitExpires

Spec == Init /\ [][Next]_vars

(* A thread that is in a call goes on, timeouts run, and the downloader    *)
(* takes its bits; that it ever gets a byte is not assumed.  A wait whose  *)
(* download is paused need not expire.                                     *)
FairSpec == Spec /\ WF_vars(ReaderStep) /\ WF_vars(TakesBits)

-----------------------------------------------------------------------------
(* Whatever the download goes through (pauses, failures in the middle of a *)
(* read, new starts where the buffer ends), wherever the header that was   *)
(* preread is cut by a read or a seek, and whichever of the three sources  *)
(* it is: the decoder gets the bytes of the file in order, from where it   *)
(* asked for them, and fewer than asked for only at the end or while it is *)
(* being stopped (audio_file.c:181-200, 229-250, 254-333, 335-400).  Of a  *)
(* card's file this is only claimed while its decoder does not read or     *)
(* seek between pause and resume (runs_on left out of Trouble).            *)
File == INSTANCE ByteFile
  WITH open <- file # "closed", at <- read_pos - Len(preread) - Len(got)

ImplementsByteFile == File!Spec

(* No call hangs: whatever the network does, a read or a seek comes back,  *)
(* unless the file is paused (audio_file.c:181-200, 271-294, 367-388,      *)
(* http_download_process.c:667-705).                                       *)
CallsReturn == rpc # "idle" ~> rpc = "idle" \/ file = "PAUSE"

(* When the file is freed nothing of it is at work any more: the download, *)
(* which the decoder may have started again after audio_file_stop, its     *)
(* bits, a call, the handle of a card's file (audio_file.c:64-99).         *)
NothingOutlivesFile ==
  file = "closed" => state = "IDLE" /\ pending = {} /\ rpc = "idle" /\ ~handle
=============================================================================
