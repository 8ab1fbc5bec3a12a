------------------------------- MODULE Download -------------------------------
(***************************************************************************)
(* What a downloader promises to the one who reads its buffer: units of    *)
(* the file, by offset, stored one after the other from where it was       *)
(* started, and an end that is the end of the file, unless it says that it *)
(* has failed or was stopped.  HttpDownload implements it, AudioFile is    *)
(* built on it.                                                            *)
(***************************************************************************)
EXTENDS Integers, Sequences

VARIABLES
  len,      \* length of the file, which does not change
  state,    \* IDLE, RUN or PAUSE
  verdict,  \* last_error of an idle downloader: "OK", "ALL_END", "FAILED"
  queue,    \* offsets in the buffer
  pos       \* offset that is stored next

vars == <<state, verdict, queue, pos>>

Init == state = "IDLE" /\ verdict = "OK" /\ queue = <<>> /\ pos = 0 /\ len \in Nat

(* http_download_is_finish.                                                *)
IsFinish == state = "IDLE" /\ verdict # "FAILED"

(* An idle downloader is told where to go on, with what buffer.            *)
Place(p, q) ==
  /\ state = "IDLE"
  /\ pos' = p /\ queue' = q
  /\ verdict' = "OK"
  /\ UNCHANGED state

Become(s) == state' = s /\ verdict' = "OK" /\ UNCHANGED <<queue, pos>>

Begin  == state = "IDLE" /\ verdict = "OK" /\ Become("RUN")
Pause  == state = "RUN" /\ Become("PAUSE")
Resume == state = "PAUSE" /\ Become("RUN")
Stop   == state # "IDLE" /\ Become("IDLE")
Fail   == state' = "IDLE" /\ verdict' = "FAILED" /\ UNCHANGED <<queue, pos>>

Store(n) ==
  /\ state = "RUN" /\ pos + n <= len
  /\ queue' = queue \o [i \in 1 .. n |-> pos + i - 1]
  /\ pos' = pos + n
  /\ \/ UNCHANGED <<state, verdict>>
     \/ pos + n = len /\ state' = "IDLE" /\ verdict' = "ALL_END"

Take(n) ==
  /\ n \in 0 .. Len(queue)
  /\ queue' = SubSeq(queue, n + 1, Len(queue))
  /\ UNCHANGED <<state, verdict, pos>>

Next ==
  \/ Place(pos, queue)
  \/ \E p \in 0 .. len : Place(p, <<>>)
  \/ Begin \/ Pause \/ Resume \/ Stop \/ Fail
  \/ \E n \in 0 .. len : Store(n)
  \/ \E n \in 1 .. Len(queue) : Take(n)

Spec == Init /\ [][Next]_vars
=============================================================================
