--------------------------- MODULE AudioFileProofs ---------------------------
(***************************************************************************)
(* For files, buffers, headers and reads of every size: audio_file.c gives *)
(* its decoder the bytes of the file in order, and leaves nothing at work  *)
(* when it is closed.                                                      *)
(***************************************************************************)
EXTENDS AudioFile, SequenceTheorems, TLAPS

(* The bytes of the file from p on, as many as there are in s.             *)
Bytes(s, p) == \A i \in 1 .. Len(s) : s[i] = p + i - 1

(* The download stands where the reader will want its next byte; one that  *)
(* has ended by itself is at the end of the file.                          *)
NetInv ==
  IF Web /\ file # "closed"
  THEN /\ pos = read_pos + Len(queue)
       /\ Bytes(queue, read_pos)
       /\ Idle({"ALL_END"}) => pos = FileLen
       /\ Idle({"OK"}) => stopping
  ELSE state = "IDLE" /\ queue = <<>> /\ pending = {}

(* So does the handle of a card's file, which the reader only uses while   *)
(* it is open, unless it runs on.                                          *)
CardInv ==
  /\ handle => kind = "sd" /\ file = "OPEN" /\ cursor = read_pos
  /\ kind = "sd" /\ rpc # "idle" => RunsOn \/ handle

(* What the call has had, and what has been preread after that, are the    *)
(* bytes before read_pos.                                                  *)
DataInv ==
  /\ read_pos >= Len(preread) + Len(got)
  /\ Bytes(preread, read_pos - Len(preread))
  /\ Bytes(got, read_pos - Len(preread) - Len(got))
  /\ file = "closed" => read_pos = 0

(* A call wants what it has not got yet, and has used up what was preread  *)
(* before it turns to the net or to the file.                              *)
CallInv ==
  /\ rpc = "idle" => want = 0 /\ got = <<>>
  /\ rpc # "idle" => file # "closed"
  /\ rpc # "idle" /\ want > 0 => preread = <<>>
  /\ rpc \in {"restart", "wait", "pop"} => Web /\ want > 0
  /\ rpc \in {"next", "return"} => call \in {"read", "preread"}
  /\ rpc = "next" => preread = <<>>
  /\ rpc = "return" /\ want > 0 => read_pos = FileLen \/ stopping \/ (RunsOn /\ kind = "sd")
  /\ ~started => preread = <<>>
  /\ (stopping => started) /\ (started => file # "closed")
  /\ rpc # "idle" /\ call = "preread" => want + Len(got) = Header /\ preread = <<>>
  /\ rpc # "idle" /\ call = "read" => want + Len(got) \in ReadSizes
  /\ rpc # "idle" /\ call = "size" => rpc \in {"restart", "wait"} /\ got = <<>>

(* A forward seek takes all it skips at once.                              *)
SkipInv ==
  rpc # "idle" /\ call = "skip" =>
    /\ rpc \in {"restart", "wait", "pop"} /\ ~stopping /\ got = <<>>
    /\ want = target - read_pos /\ want <= SeekMax
    /\ rpc = "pop" => Len(queue) >= want

IInv == TypeOK /\ NetInv /\ CardInv /\ DataInv /\ CallInv /\ SkipInv
-----------------------------------------------------------------------------
(* No bytes are a run from anywhere.                                       *)
LEMMA BytesNone == <<>> \in Seq(Offsets) /\ Len(<<>>) = 0 /\ \A p : Bytes(<<>>, p)
BY DEF Bytes

(* A sequence of bytes has a length, and none when it is empty.            *)
LEMMA BytesEmpty ==
  ASSUME NEW s \in Seq(Offsets)
  PROVE  Len(s) \in Nat /\ (Len(s) = 0 <=> s = <<>>)
BY EmptySeq

(* The first bytes of a run are a run from the same offset.                *)
LEMMA BytesFront ==
  ASSUME NEW s \in Seq(Offsets), NEW p \in Int, Bytes(s, p), NEW n \in 0 .. Len(s)
  PROVE  Front(s, n) \in Seq(Offsets) /\ Len(Front(s, n)) = n /\ Bytes(Front(s, n), p)
<1>1. \A i \in 1 .. n : s[i] \in Offsets
  OBVIOUS
<1>2. /\ Front(s, n) \in Seq(Offsets) /\ Len(Front(s, n)) = n
      /\ \A i \in 1 .. n : Front(s, n)[i] = s[i]
  BY <1>1, SubSeqProperties DEF Front
<1> QED BY <1>2 DEF Bytes

(* What follows the first n of them is a run from n further on.            *)
LEMMA BytesRest ==
  ASSUME NEW s \in Seq(Offsets), NEW p \in Int, Bytes(s, p), NEW n \in 0 .. Len(s)
  PROVE  /\ Rest(s, n) \in Seq(Offsets) /\ Len(Rest(s, n)) = Len(s) - n
         /\ Bytes(Rest(s, n), p + n)
<1>1. \A i \in n + 1 .. Len(s) : s[i] \in Offsets
  OBVIOUS
<1>2. /\ Rest(s, n) \in Seq(Offsets) /\ Len(Rest(s, n)) = Len(s) - n
      /\ \A i \in 1 .. Len(s) - n : Rest(s, n)[i] = s[n + i]
  BY <1>1, SubSeqProperties DEF Rest
<1>3. ASSUME NEW i \in 1 .. Len(s) - n PROVE Rest(s, n)[i] = p + n + i - 1
  <2>1. n + i \in 1 .. Len(s)
    OBVIOUS
  <2>2. Rest(s, n)[i] = s[n + i] /\ s[n + i] = p + (n + i) - 1
    BY <1>2, <2>1 DEF Bytes
  <2> QED BY <2>2
<1> QED BY <1>2, <1>3 DEF Bytes

(* Two runs, one beginning where the other ends, are one run.              *)
LEMMA BytesConcat ==
  ASSUME NEW s \in Seq(Offsets), NEW t \in Seq(Offsets), NEW p \in Int,
         Bytes(s, p), Bytes(t, p + Len(s))
  PROVE  /\ s \o t \in Seq(Offsets) /\ Len(s \o t) = Len(s) + Len(t)
         /\ Bytes(s \o t, p)
<1>1. /\ s \o t \in Seq(Offsets) /\ Len(s \o t) = Len(s) + Len(t)
      /\ \A i \in 1 .. Len(s) + Len(t) :
           (s \o t)[i] = IF i <= Len(s) THEN s[i] ELSE t[i - Len(s)]
  BY ConcatProperties
<1>2. ASSUME NEW i \in 1 .. Len(s) + Len(t) PROVE (s \o t)[i] = p + i - 1
  <2>1. CASE i <= Len(s)
    BY <1>1, <2>1 DEF Bytes
  <2>2. CASE i > Len(s)
    <3>1. i - Len(s) \in 1 .. Len(t)
      BY <2>2
    <3>2. (s \o t)[i] = t[i - Len(s)] /\ t[i - Len(s)] = p + Len(s) + (i - Len(s)) - 1
      BY <1>1, <2>2, <3>1 DEF Bytes
    <3> QED BY <3>2
  <2> QED BY <2>1, <2>2
<1> QED BY <1>1, <1>2 DEF Bytes

(* A range of offsets within the file is a run.                            *)
LEMMA BytesRange ==
  ASSUME NEW p \in Nat, NEW n \in Nat, p + n <= FileLen
  PROVE  /\ [i \in 1 .. n |-> p + i - 1] \in Seq(Offsets)
         /\ Len([i \in 1 .. n |-> p + i - 1]) = n
         /\ Bytes([i \in 1 .. n |-> p + i - 1], p)
<1>1. FileLen \in Nat /\ \A i \in 1 .. n : p + i - 1 \in Offsets
  BY AudioFileAssumption DEF Offsets
<1>2. [i \in 1 .. n |-> p + i - 1] \in Seq(Offsets)
  BY <1>1
<1> QED BY <1>2 DEF Bytes

(* A run is determined by where it begins and by its length.               *)
LEMMA BytesAre ==
  ASSUME NEW s \in Seq(Offsets), NEW p \in Int, Bytes(s, p)
  PROVE  s = [i \in 1 .. Len(s) |-> p + i - 1]
<1>1. s \in [1 .. Len(s) -> Offsets]
  BY LenProperties
<1>2. \A i \in 1 .. Len(s) : s[i] = p + i - 1
  BY DEF Bytes
<1> QED BY <1>1, <1>2
-----------------------------------------------------------------------------
(* The constants, one by one, for the arithmetic.                          *)
LEMMA Sizes ==
  /\ FileLen \in Nat /\ Capacity \in Nat /\ SeekMax \in Nat /\ Header \in Nat
  /\ FileLen > 0 /\ SeekMax > 0 /\ Header > 0 /\ SeekMax <= Capacity
  /\ 0 \in 0 .. FileLen /\ {0, FileLen, Unnamed} \subseteq 0 .. Unnamed
  /\ Len(<<>>) <= Header /\ Len(<<>>) <= Capacity
<1>1. {FileLen, Capacity, SeekMax, Header} \subseteq Nat \ {0} /\ SeekMax <= Capacity
  BY AudioFileAssumption
<1> QED BY <1>1, BytesNone DEF Unnamed

(* The downloader stores what comes next, and never waits for the reader.  *)
LEMMA DownloaderKeeps ==
  ASSUME IInv, Stores \/ Breaks \/ TakesBits
  PROVE  IInv'
<1> USE DEF IInv
<1>1. UNCHANGED <<file, kind, fields, card, locals, status, out>>
  BY DEF Stores, Breaks, TakesBits
<1> USE DEF fields, card, locals, status
<1>2. CardInv' /\ DataInv' /\ CallInv'
  BY <1>1 DEF CardInv, DataInv, CallInv, Web
<1>3. CASE Stores
  <2>1. PICK n \in 1 .. Capacity - Len(queue) : D!Store(n)
    BY <1>3 DEF Stores
  <2> DEFINE bytes == [i \in 1 .. n |-> pos + i - 1]
  <2>2. /\ state = "RUN" /\ pos + n <= FileLen
        /\ queue' = queue \o bytes /\ pos' = pos + n
        /\ \/ UNCHANGED <<state, verdict>>
           \/ pos' = FileLen /\ state' = "IDLE" /\ verdict' = "ALL_END"
    BY <2>1 DEF D!Store
  <2>3. Web /\ file # "closed" /\ pos = read_pos + Len(queue) /\ Bytes(queue, read_pos)
    BY <2>2 DEF NetInv
  <2>4. /\ n \in Nat /\ pos \in Nat /\ read_pos \in Int /\ Len(queue) \in Nat
        /\ queue \in Seq(Offsets) /\ Len(queue) + n <= Capacity
    BY Sizes DEF TypeOK
  <2>5. bytes \in Seq(Offsets) /\ Len(bytes) = n /\ Bytes(bytes, read_pos + Len(queue))
    BY <2>2, <2>3, <2>4, BytesRange
  <2> HIDE DEF bytes
  <2>6. queue' \in Seq(Offsets) /\ Len(queue') = Len(queue) + n /\ Bytes(queue', read_pos)
    BY <2>2, <2>3, <2>4, <2>5, BytesConcat
  <2>7. TypeOK'
    <3>1. named' \in 0 .. Unnamed /\ pending' = pending
      BY <1>3, Sizes DEF Stores, Unnamed
    <3>2. pos' \in 0 .. FileLen /\ queue' \in Seq(Offsets) /\ Len(queue') <= Capacity
      BY <2>2, <2>4, <2>6, Sizes
    <3>3. /\ state' \in {"IDLE", "RUN", "PAUSE"} /\ verdict' \in {"OK", "ALL_END", "FAILED"}
      BY <2>2 DEF TypeOK
    <3> QED BY <1>1, <3>1, <3>2, <3>3 DEF TypeOK
  <2>8. NetInv'
    BY <1>1, <2>2, <2>3, <2>4, <2>6 DEF NetInv, Web, Idle
  <2>9. SkipInv'
    BY <1>1, <2>4, <2>6 DEF SkipInv, TypeOK
  <2> QED BY <1>2, <2>7, <2>8, <2>9
<1>4. CASE Breaks
  <2>1. /\ state = "RUN" /\ state' = "IDLE" /\ verdict' = "FAILED"
        /\ UNCHANGED <<queue, pos, named, pending>>
    BY <1>4 DEF Breaks, D!Fail
  <2>2. TypeOK'
    BY <1>1, <2>1 DEF TypeOK
  <2>3. NetInv' /\ SkipInv'
    BY <1>1, <2>1 DEF NetInv, SkipInv, Web, Idle
  <2> QED BY <1>2, <2>2, <2>3
<1>5. CASE TakesBits
  <2>1. /\ pending # {} /\ pending' = {} /\ UNCHANGED <<queue, pos, named>>
        /\ \/ UNCHANGED <<state, verdict>>
           \/ state' \in {"RUN", "PAUSE"} /\ verdict' = "OK"
    BY <1>5 DEF TakesBits, D!Pause, D!Resume, D!Become
  <2>2. TypeOK'
    BY <1>1, <2>1 DEF TypeOK
  <2>3. NetInv' /\ SkipInv'
    BY <1>1, <2>1 DEF NetInv, SkipInv, Web, Idle
  <2> QED BY <1>2, <2>2, <2>3
<1> QED BY <1>3, <1>4, <1>5

(* The worker opens a file of which nothing is left, stops the download    *)
(* only when the reader does not count on it, and closes what it stopped.  *)
LEMMA WorkerKeeps ==
  ASSUME IInv, Worker, "stop_in_seek" \notin Trouble
  PROVE  IInv'
<1> USE DEF IInv, fields, card, locals, status, net
<1>1. CASE Open
  <2>1. /\ file = "closed" /\ file' = "OPEN" /\ handle' = (kind' = "sd") /\ cursor' = 0
        /\ kind' \in AllKinds /\ total_length' \in {0, FileLen}
        /\ UNCHANGED <<read_pos, preread, locals, status, out>>
    BY <1>1, AudioFileAssumption DEF Open
  <2>2. read_pos = 0 /\ rpc = "idle" /\ want = 0 /\ got = <<>> /\ preread = <<>>
    <3>1. read_pos = 0 /\ rpc = "idle" /\ want = 0 /\ got = <<>>
      BY <2>1 DEF DataInv, CallInv
    <3>2. preread \in Seq(Offsets) /\ Len(preread) = 0
      BY <3>1, BytesNone DEF DataInv, TypeOK
    <3> QED BY <3>1, <3>2, BytesEmpty
  <2>3. CASE Web'
    <3>1. /\ pos' = 0 /\ queue' = <<>> /\ pending' = {} /\ named' = Unnamed
          /\ \/ state' = "RUN" /\ verdict' = "OK"
             \/ state' = "IDLE" /\ verdict' = "FAILED"
      BY <1>1, <2>3 DEF Open, Starts, Web
    <3>2. TypeOK'
      BY <2>1, <3>1, Sizes, BytesNone DEF TypeOK
    <3>3. NetInv'
      BY <2>1, <2>2, <2>3, <3>1, BytesNone DEF NetInv, Idle, Web
    <3> QED BY <2>1, <2>2, <3>2, <3>3, BytesNone DEF CardInv, DataInv, CallInv, SkipInv
  <2>4. CASE ~Web'
    <3>1. UNCHANGED net
      BY <1>1, <2>4 DEF Open, Web
    <3>2. TypeOK'
      BY <2>1, <3>1, Sizes DEF TypeOK
    <3>3. NetInv'
      BY <2>1, <2>4, <3>1 DEF NetInv, Web
    <3> QED BY <2>1, <2>2, <3>2, <3>3, BytesNone DEF CardInv, DataInv, CallInv, SkipInv
  <2> QED BY <2>3, <2>4
<1>2. CASE Pause
  <2>1. TypeOK'
    BY <1>2 DEF Pause, TypeOK
  <2>2. NetInv' /\ SkipInv'
    BY <1>2 DEF Pause, NetInv, SkipInv, Web, Idle
  <2>3. CardInv' /\ DataInv' /\ CallInv'
    BY <1>2 DEF Pause, CardInv, DataInv, CallInv, Web
  <2> QED BY <2>1, <2>2, <2>3
<1>3. CASE Resume
  <2>1. TypeOK'
    BY <1>3 DEF Resume, TypeOK
  <2>2. NetInv' /\ SkipInv'
    BY <1>3 DEF Resume, NetInv, SkipInv, Web, Idle
  <2>3. CardInv' /\ DataInv' /\ CallInv'
    BY <1>3 DEF Resume, CardInv, DataInv, CallInv, Web
  <2> QED BY <2>1, <2>2, <2>3
<1>4. CASE Stop
  <2>1. TypeOK'
    <3>1. /\ stopping' = TRUE /\ state' \in {state, "IDLE"} /\ verdict' \in {verdict, "OK"}
          /\ pending' \in {pending, {}} /\ UNCHANGED <<queue, pos, named>>
          /\ UNCHANGED <<file, kind, fields, card, locals, started, failed, out>>
      BY <1>4 DEF Stop, StopsDownload
    <3> QED BY <3>1 DEF TypeOK
  <2>2. NetInv'
    BY <1>4 DEF Stop, StopsDownload, NetInv, Web, Idle
  <2>3. CardInv' /\ DataInv' /\ CallInv'
    BY <1>4 DEF Stop, CardInv, DataInv, CallInv, Web
  <2>4. SkipInv'
    BY <1>4 DEF Stop, SkipInv
  <2> QED BY <2>1, <2>2, <2>3, <2>4
<1>5. CASE Close
  <2>1. /\ rpc = "idle" /\ want = 0 /\ got = <<>> /\ UNCHANGED <<kind, rpc, want, got>>
        /\ file' = "closed" /\ total_length' = 0 /\ read_pos' = 0 /\ preread' = <<>>
        /\ handle' = FALSE /\ cursor' = 0 /\ call' = "read" /\ target' = 0
        /\ stopping' = FALSE /\ started' = FALSE /\ failed' = FALSE
        /\ out' = [call |-> "none", want |-> 0, got |-> <<>>]
    BY <1>5 DEF Close, Frees, CardInv, CallInv, TypeOK
  <2>2. /\ state' = "IDLE" /\ queue' = <<>> /\ pending' = {}
        /\ verdict' \in {"OK", verdict} /\ pos' \in {0, pos} /\ named' \in {0, named}
    BY <1>5 DEF Close, NetInv
  <2>3. TypeOK'
    <3>1. /\ file' = "closed" /\ total_length' \in 0 .. Unnamed /\ read_pos' \in 0 .. FileLen
          /\ cursor' \in 0 .. FileLen /\ target' \in 0 .. FileLen /\ Len(<<>>) <= Header
      BY <2>1, Sizes, BytesNone DEF Unnamed
    <3>2. /\ verdict' \in {"OK", "ALL_END", "FAILED"} /\ Len(<<>>) <= Capacity
          /\ pos' \in 0 .. FileLen /\ named' \in 0 .. Unnamed
      BY <2>2, Sizes, BytesNone DEF TypeOK
    <3> QED BY <2>1, <2>2, <3>1, <3>2, BytesNone DEF TypeOK
  <2>4. NetInv' /\ CardInv' /\ SkipInv'
    BY <2>1, <2>2 DEF NetInv, CardInv, SkipInv
  <2>5. DataInv' /\ CallInv'
    BY <2>1, BytesNone DEF DataInv, CallInv
  <2> QED BY <2>3, <2>4, <2>5
<1> QED BY <1>1, <1>2, <1>3, <1>4, <1>5 DEF Worker

(* What a call takes of what was preread, and where it goes from there.    *)
LEMMA ReadTakes ==
  ASSUME IInv, Read
  PROVE  /\ rpc' \in {"next", "return"} /\ want' \in Nat
         /\ want' + Len(got') \in (IF started THEN ReadSizes ELSE {Header})
         /\ got' \in Seq(Offsets) /\ preread' \in Seq(Offsets)
         /\ Len(preread') + Len(got') = Len(preread)
         /\ Bytes(preread', read_pos - Len(preread'))
         /\ Bytes(got', read_pos - Len(preread') - Len(got'))
         /\ want' > 0 \/ rpc' = "next" => want' > 0 /\ rpc' = "next" /\ preread' = <<>>
<1>1. PICK size \in (IF started THEN ReadSizes ELSE {Header}) :
        /\ got' = Front(preread, Smaller(Len(preread), size))
        /\ preread' = Rest(preread, Smaller(Len(preread), size))
        /\ want' = size - Smaller(Len(preread), size)
        /\ rpc' = IF size = Smaller(Len(preread), size) THEN "return" ELSE "next"
  BY DEF Read
<1> DEFINE n == Smaller(Len(preread), size)
           from == read_pos - Len(preread)
<1>2. /\ preread \in Seq(Offsets) /\ Len(preread) \in Nat
      /\ from \in Int /\ read_pos \in Nat /\ Bytes(preread, from)
  BY DEF IInv, TypeOK, DataInv
<1>3. /\ size \in Nat /\ n \in 0 .. Len(preread) /\ n <= size
      /\ n < size => n = Len(preread)
  BY <1>2, AudioFileAssumption DEF Smaller
<1> HIDE DEF n
<1>4. got' \in Seq(Offsets) /\ Len(got') = n /\ Bytes(got', from)
  BY <1>1, <1>2, <1>3, BytesFront DEF n
<1>5. /\ preread' \in Seq(Offsets) /\ Len(preread') = Len(preread) - n
      /\ Bytes(preread', from + n)
  BY <1>1, <1>2, <1>3, BytesRest DEF n
<1>6. want' = size - n /\ rpc' = IF size = n THEN "return" ELSE "next"
  BY <1>1 DEF n
<1>7. from = read_pos - Len(preread') - Len(got') /\ from + n = read_pos - Len(preread')
  BY <1>2, <1>3, <1>4, <1>5
<1>8. n < size => preread' = <<>>
  BY <1>3, <1>5, BytesEmpty
<1>9. want' \in Nat /\ want' + Len(got') = size /\ Len(preread') + Len(got') = Len(preread)
  BY <1>2, <1>3, <1>4, <1>5, <1>6
<1>10. IF n < size THEN want' > 0 /\ rpc' = "next" /\ preread' = <<>>
                   ELSE want' = 0 /\ rpc' = "return"
  BY <1>2, <1>3, <1>6, <1>8
<1> HIDE DEF from
<1>11. /\ Bytes(preread', read_pos - Len(preread'))
       /\ Bytes(got', read_pos - Len(preread') - Len(got'))
  BY <1>4, <1>5, <1>7
<1>12. want' + Len(got') \in (IF started THEN ReadSizes ELSE {Header})
  BY <1>9
<1>13. rpc' \in {"next", "return"}
  BY <1>10
<1>14. want' > 0 \/ rpc' = "next" => want' > 0 /\ rpc' = "next" /\ preread' = <<>>
  BY <1>10
<1> QED BY <1>4, <1>5, <1>9, <1>11, <1>12, <1>13, <1>14

(* audio_file_size and the beginning of audio_file_read keep everything.   *)
LEMMA CallsKeep ==
  ASSUME IInv, Size \/ Read
  PROVE  IInv'
<1> USE DEF IInv, fields, card, locals, status, net
<1>1. CASE Size
  <2>1. preread = <<>> /\ got = <<>> /\ want = 0 /\ rpc = "idle" /\ file # "closed" /\ Web
    BY <1>1 DEF Size, Calls, CallInv
  <2>2. TypeOK'
    BY <1>1 DEF Size, TypeOK
  <2>3. NetInv'
    BY <1>1 DEF Size, NetInv, Web, Idle
  <2>4. CardInv' /\ DataInv' /\ CallInv' /\ SkipInv'
    BY <1>1, <2>1, BytesNone DEF Size, CardInv, DataInv, CallInv, SkipInv, Web
  <2> QED BY <2>2, <2>3, <2>4
<1>2. CASE Read
  <2>1. /\ rpc = "idle" /\ file # "closed" /\ got = <<>>
        /\ kind = "sd" => RunsOn \/ handle
        /\ call' = IF started THEN "read" ELSE "preread"
        /\ UNCHANGED <<file, kind, total_length, read_pos, card, net, target, status, out>>
    BY <1>2 DEF Read, Calls, CallInv
  <2>2. TypeOK'
    <3>1. Len(preread') <= Header
      <4>1. preread' \in Seq(Offsets) /\ got' \in Seq(Offsets)
        BY <1>2, ReadTakes
      <4>2. Len(preread') + Len(got') = Len(preread)
        BY <1>2, ReadTakes
      <4>3. Len(preread) <= Header /\ preread \in Seq(Offsets)
        BY DEF TypeOK
      <4>4. Len(preread') \in Nat /\ Len(got') \in Nat /\ Len(preread) \in Nat
        BY <4>1, <4>3, BytesEmpty
      <4> QED BY <4>2, <4>3, <4>4, Sizes
    <3>2. /\ rpc' \in {"next", "return"} /\ want' \in Nat
          /\ got' \in Seq(Offsets) /\ preread' \in Seq(Offsets)
      BY <1>2, ReadTakes
    <3> QED BY <2>1, <3>1, <3>2 DEF TypeOK
  <2>3. NetInv' /\ CardInv'
    BY <2>1 DEF NetInv, CardInv, Web, Idle
  <2>4. DataInv'
    BY <1>2, <2>1, ReadTakes, BytesNone DEF DataInv
  <2>5. CallInv'
    <3>1. ASSUME ~started PROVE preread' = <<>>
      <4>1. Len(preread) = 0
        BY <3>1, BytesNone DEF CallInv
      <4>2. preread' \in Seq(Offsets) /\ got' \in Seq(Offsets) /\ Len(preread') + Len(got') = 0
        BY <1>2, <4>1, ReadTakes
      <4>3. Len(preread') \in Nat /\ Len(got') \in Nat
        BY <4>2, BytesEmpty
      <4>4. Len(preread') = 0
        BY <4>2, <4>3
      <4> QED BY <4>2, <4>4, BytesEmpty
    <3> QED BY <1>2, <2>1, <3>1, ReadTakes DEF CallInv, TypeOK
  <2>6. SkipInv'
    BY <2>1 DEF SkipInv
  <2> QED BY <2>2, <2>3, <2>4, <2>5, <2>6
<1> QED BY <1>1, <1>2

(* A seek stays in what was preread, or leaves nothing of it.              *)
LEMMA SeekKeeps ==
  ASSUME IInv, Seek, "stop_in_seek" \notin Trouble
  PROVE  IInv'
<1> USE DEF IInv, fields, card, locals, status, net
<1>1. PICK p \in 0 .. FileLen :
        SeeksPreread(p) \/ SeeksFar(p) \/ SeeksAgain(p) \/ SeeksForward(p)
  BY DEF Seek
<1>2. /\ rpc = "idle" /\ want = 0 /\ got = <<>> /\ file # "closed" /\ started
      /\ kind = "sd" => RunsOn \/ handle
  BY <1>1 DEF SeeksPreread, SeeksFar, SeeksAgain, SeeksForward, Seeks, Calls, CallInv
<1>3. p \in Nat /\ p <= FileLen /\ FileLen \in Nat /\ read_pos \in Nat
  BY Sizes DEF TypeOK
<1>4. CASE SeeksPreread(p)
  <2> DEFINE n == Len(preread) - (read_pos - p)
             from == read_pos - Len(preread)
  <2>1. n \in 0 .. Len(preread) /\ Len(preread) \in Nat
    BY <1>3, <1>4 DEF SeeksPreread, Within, TypeOK
  <2>2. /\ preread' = Rest(preread, n) /\ out' = At(p)
        /\ UNCHANGED <<file, kind, total_length, read_pos, card, net, locals, status>>
    BY <1>4 DEF SeeksPreread
  <2>3. preread \in Seq(Offsets) /\ from \in Int /\ Bytes(preread, from)
    BY <1>3, <2>1 DEF TypeOK, DataInv
  <2>4. preread' \in Seq(Offsets) /\ Len(preread') = Len(preread) - n /\ Bytes(preread', from + n)
    <3> HIDE DEF n, from
    <3> QED BY <2>1, <2>2, <2>3, BytesRest
  <2>5. from + n = read_pos - Len(preread') /\ Len(preread') <= Len(preread)
    BY <1>3, <2>1, <2>4
  <2>6. TypeOK'
    <3>1. Len(preread') <= Header
      BY <2>1, <2>4, <2>5, Sizes DEF TypeOK
    <3>2. out'.call = "seek" /\ out'.got = <<>>
      BY <2>2 DEF At
    <3> QED BY <2>2, <2>4, <3>1, <3>2, BytesNone DEF TypeOK
  <2>7. NetInv' /\ CardInv' /\ SkipInv'
    BY <2>2 DEF NetInv, CardInv, SkipInv, Web, Idle
  <2>8. DataInv'
    <3>1. read_pos >= Len(preread')
      BY <1>3, <2>1, <2>4
    <3> QED BY <1>2, <1>3, <2>2, <2>4, <2>5, <3>1, BytesNone DEF DataInv
  <2>9. CallInv'
    BY <1>2, <2>2 DEF CallInv
  <2> QED BY <2>6, <2>7, <2>8, <2>9
<1>5. CASE SeeksFar(p)
  <2>1. /\ preread' = <<>> /\ (Web => p = read_pos)
        /\ \/ /\ read_pos' = p /\ out' = At(p)
              /\ cursor' = IF kind = "sd" THEN p ELSE cursor
           \/ Shut /\ out' = Lost /\ UNCHANGED <<read_pos, cursor>>
        /\ UNCHANGED <<file, kind, total_length, handle, net, locals, status>>
    BY <1>5 DEF SeeksFar
  <2>2. TypeOK'
    <3>1. out'.call \in {"lost", "seek"} /\ out'.got = <<>>
      BY <2>1 DEF At, Lost
    <3>2. read_pos' \in 0 .. FileLen /\ cursor' \in 0 .. FileLen
      BY <2>1 DEF TypeOK
    <3> QED BY <2>1, <3>1, <3>2, Sizes, BytesNone DEF TypeOK
  <2>3. NetInv'
    BY <1>3, <2>1 DEF NetInv, Web, Idle, Shut
  <2>4. CardInv' /\ CallInv' /\ SkipInv'
    BY <1>2, <2>1 DEF CardInv, CallInv, SkipInv, Shut
  <2>5. DataInv'
    BY <1>2, <1>3, <2>1, BytesNone DEF DataInv
  <2> QED BY <2>2, <2>3, <2>4, <2>5
<1>6. CASE SeeksAgain(p)
  <2>1. /\ Web /\ read_pos' = p /\ preread' = <<>> /\ out' = At(p)
        /\ UNCHANGED <<file, kind, total_length, card, locals, status>>
    BY <1>6 DEF SeeksAgain
  <2>2. /\ pos' = p /\ queue' = <<>> /\ pending' = {} /\ named' \in {Unnamed, named}
        /\ \/ state' = "RUN" /\ verdict' = "OK"
           \/ state' = "IDLE" /\ verdict' = "FAILED"
    BY <1>6 DEF SeeksAgain, Starts
  <2>3. TypeOK'
    <3>1. out'.call = "seek" /\ out'.got = <<>>
      BY <2>1 DEF At
    <3> QED BY <1>3, <2>1, <2>2, <3>1, Sizes, BytesNone DEF TypeOK
  <2>4. NetInv'
    BY <1>2, <1>3, <2>1, <2>2, BytesNone DEF NetInv, Web, Idle
  <2>5. CardInv' /\ CallInv' /\ SkipInv'
    BY <1>2, <2>1 DEF CardInv, CallInv, SkipInv, Web
  <2>6. DataInv'
    BY <1>2, <1>3, <2>1, BytesNone DEF DataInv
  <2> QED BY <2>3, <2>4, <2>5, <2>6
<1>7. CASE SeeksForward(p)
  <2>1. /\ Web /\ ~stopping /\ read_pos < p /\ p <= read_pos + SeekMax
        /\ preread' = <<>> /\ call' = "skip" /\ rpc' = "restart"
        /\ want' = p - read_pos /\ target' = p /\ out' = Lost
        /\ UNCHANGED <<file, kind, total_length, read_pos, card, net, got, status>>
    BY <1>7 DEF SeeksForward
  <2>2. want' \in Nat /\ want' > 0 /\ want' <= SeekMax
    BY <1>3, <2>1, Sizes
  <2>3. TypeOK'
    <3>1. out'.call = "lost" /\ out'.got = <<>>
      BY <2>1 DEF Lost
    <3> QED BY <1>3, <2>1, <2>2, <3>1, Sizes, BytesNone DEF TypeOK
  <2>4. NetInv'
    BY <2>1 DEF NetInv, Web, Idle
  <2>5. CardInv' /\ CallInv' /\ SkipInv'
    BY <1>2, <2>1, <2>2 DEF CardInv, CallInv, SkipInv, Web
  <2>6. DataInv'
    BY <1>2, <1>3, <2>1, BytesNone DEF DataInv
  <2> QED BY <2>3, <2>4, <2>5, <2>6
<1> QED BY <1>1, <1>4, <1>5, <1>6, <1>7

(* A seek reads on in chunks no longer than asked for, and not of nothing. *)
LEMMA ChunkIs ==
  ASSUME TypeOK
  PROVE  /\ Chunk \in Nat /\ Chunk <= want /\ Chunk <= SeekMax
         /\ want > 0 => Chunk > 0
         /\ want <= SeekMax => Chunk = want
BY Sizes DEF Chunk, Smaller, TypeOK

(* The loop over the buffer, and the waits in it.                          *)
LEMMA LoopKeeps ==
  ASSUME IInv, Had \/ Looks \/ Restarts \/ Waited \/ WaitExpires
  PROVE  IInv'
<1> USE DEF IInv, fields, card, locals, status, net
<1>1. want \in Nat /\ got \in Seq(Offsets)
  BY DEF TypeOK
<1>2. CASE Had
  <2>1. /\ rpc = "next" /\ Web /\ rpc' = "return"
        /\ total_length' \in {total_length, named}
        /\ UNCHANGED <<file, kind, read_pos, preread, card, net, call, want, got, target,
                       status, out>>
    BY <1>2 DEF Had, Larger
  <2>2. want > 0 => read_pos = FileLen \/ stopping
    <3>1. ASSUME want > 0 PROVE read_pos = FileLen \/ stopping
      <4>1. state = "IDLE" /\ verdict # "FAILED" /\ queue = <<>> /\ file # "closed"
        BY <1>2, <2>1, <3>1 DEF Had, D!IsFinish, CallInv
      <4>2. CASE verdict = "OK"
        BY <2>1, <4>1, <4>2 DEF NetInv, Idle
      <4>3. CASE verdict = "ALL_END"
        BY <2>1, <4>1, <4>3, BytesNone DEF NetInv, Idle, TypeOK
      <4> QED BY <4>1, <4>2, <4>3 DEF TypeOK
    <3> QED BY <3>1
  <2>3. TypeOK'
    BY <2>1 DEF TypeOK
  <2>4. NetInv' /\ CardInv' /\ DataInv'
    BY <2>1 DEF NetInv, CardInv, DataInv, Web, Idle
  <2>5. CallInv' /\ SkipInv'
    BY <2>1, <2>2 DEF CallInv, SkipInv
  <2> QED BY <2>3, <2>4, <2>5
<1>3. CASE Looks
  <2>1. /\ rpc = "next" /\ Web /\ want > 0 /\ rpc' \in {"pop", "restart"}
        /\ UNCHANGED <<file, kind, fields, card, net, call, want, got, target, status, out>>
    BY <1>3 DEF Looks
  <2>2. TypeOK'
    BY <2>1 DEF TypeOK
  <2>3. NetInv' /\ CardInv' /\ DataInv'
    BY <2>1 DEF NetInv, CardInv, DataInv, Web, Idle
  <2>4. CallInv' /\ SkipInv'
    BY <2>1 DEF CallInv, SkipInv, Web
  <2> QED BY <2>2, <2>3, <2>4
<1>4. CASE Restarts
  <2>1. /\ rpc = "restart" /\ rpc' = "wait"
        /\ UNCHANGED <<file, kind, fields, card, call, want, got, target, status, out>>
    BY <1>4 DEF Restarts
  <2>2. Web /\ file # "closed" /\ pos = RestartPos
    BY <2>1 DEF CallInv, NetInv, RestartPos, TypeOK
  <2>3. /\ UNCHANGED <<queue, pos>> /\ pending' \in {pending, {}} /\ named' \in {named, Unnamed}
        /\ \/ UNCHANGED <<state, verdict>>
           \/ state' = "RUN" /\ verdict' = "OK"
           \/ state' = "IDLE" /\ verdict' = "FAILED"
    BY <1>4, <2>2 DEF Restarts, Starts
  <2>4. TypeOK'
    BY <2>1, <2>3, Sizes DEF TypeOK
  <2>5. NetInv'
    BY <2>1, <2>2, <2>3 DEF NetInv, Web, Idle
  <2>6. CardInv' /\ DataInv' /\ CallInv' /\ SkipInv'
    BY <2>1 DEF CardInv, DataInv, CallInv, SkipInv, Web
  <2> QED BY <2>4, <2>5, <2>6
<1>5. CASE Waited
  <2>1. /\ rpc = "wait" /\ Web /\ want > 0 /\ file # "closed" /\ preread = <<>>
        /\ total_length' \in {total_length, named}
        /\ UNCHANGED <<file, kind, read_pos, preread, card, net, call, got, target, status, out>>
        /\ IF call = "size" THEN rpc' = "idle" /\ want' = 0 ELSE rpc' = "pop" /\ want' = want
    BY <1>5 DEF Waited, CallInv
  <2>2. TypeOK'
    BY <2>1 DEF TypeOK
  <2>3. NetInv' /\ CardInv' /\ DataInv'
    BY <2>1 DEF NetInv, CardInv, DataInv, Web, Idle
  <2>4. CallInv'
    BY <2>1 DEF CallInv, Web
  <2>5. SkipInv'
    <3>1. ASSUME call = "skip" PROVE Len(queue) >= want
      <4>1. /\ ~stopping /\ want = target - read_pos /\ want <= SeekMax
            /\ Len(queue) \in Nat /\ read_pos \in Nat /\ target <= FileLen
        BY <2>1, <3>1, Sizes DEF SkipInv, TypeOK
      <4>2. Len(queue) >= Chunk \/ Idle({"OK", "ALL_END"})
        BY <1>5 DEF Waited
      <4>3. CASE Len(queue) >= Chunk
        BY <4>1, <4>3, ChunkIs
      <4>4. CASE Idle({"OK", "ALL_END"})
        <5>1. pos = FileLen /\ pos = read_pos + Len(queue)
          BY <2>1, <4>1, <4>4 DEF NetInv, Idle
        <5> QED BY <4>1, <5>1, Sizes DEF TypeOK
      <4> QED BY <4>2, <4>3, <4>4
    <3> QED BY <2>1, <3>1 DEF SkipInv
  <2> QED BY <2>2, <2>3, <2>4, <2>5
<1>6. CASE WaitExpires
  <2>1. /\ rpc = "wait" /\ want > 0 /\ file # "closed" /\ preread = <<>>
        /\ rpc' = "idle" /\ want' = 0 /\ got' = <<>>
        /\ failed' = (call = "read") /\ started' = (started \/ call = "preread")
        /\ out' \in {out, Lost} /\ total_length' \in {total_length, named}
        /\ UNCHANGED <<file, kind, read_pos, preread, card, net, call, target, stopping>>
    BY <1>6 DEF WaitExpires, CallInv
  <2>2. TypeOK'
    <3>1. out'.call \in {"none", "lost", "read", "seek"} /\ out'.got \in Seq(Offsets)
      <4>1. Lost.call = "lost" /\ Lost.got = <<>>
        BY DEF Lost
      <4>2. CASE out' = Lost
        BY <4>1, <4>2, BytesNone
      <4>3. CASE out' = out
        BY <4>3 DEF TypeOK
      <4> QED BY <2>1, <4>2, <4>3
    <3> QED BY <2>1, <3>1, BytesNone DEF TypeOK
  <2>3. NetInv' /\ CardInv'
    BY <2>1 DEF NetInv, CardInv, Web, Idle
  <2>4. DataInv'
    BY <2>1, BytesNone DEF DataInv, TypeOK
  <2>5. CallInv' /\ SkipInv'
    BY <2>1 DEF CallInv, SkipInv
  <2> QED BY <2>2, <2>3, <2>4, <2>5
<1> QED BY <1>2, <1>3, <1>4, <1>5, <1>6

(* The reader takes bytes from the front of the buffer, or of the file.    *)
LEMMA ReadKeeps ==
  ASSUME IInv, Pops \/ ReadsLocal \/ Returns
  PROVE  IInv'
<1> USE DEF IInv, fields, card, locals, status, net
<1>1. /\ want \in Nat /\ got \in Seq(Offsets) /\ Len(got) \in Nat
      /\ queue \in Seq(Offsets) /\ Len(queue) \in Nat
      /\ read_pos \in Nat /\ read_pos <= FileLen /\ FileLen \in Nat
      /\ pos \in Nat /\ pos <= FileLen
  BY Sizes DEF TypeOK
<1>2. CASE Pops
  <2> DEFINE n == Smaller(Chunk, Len(queue))
  <2>1. n \in 0 .. Len(queue) /\ n <= want /\ n \in Nat
    BY <1>1, ChunkIs DEF Smaller
  <2>2. /\ rpc = "pop" /\ Web /\ want > 0 /\ file # "closed" /\ preread = <<>>
        /\ pos = read_pos + Len(queue) /\ Bytes(queue, read_pos)
        /\ Idle({"ALL_END"}) => pos = FileLen
        /\ Idle({"OK"}) => stopping
    BY <1>2 DEF Pops, CallInv, NetInv
  <2>3. /\ queue' = Rest(queue, n) /\ want' = want - n
        /\ UNCHANGED <<file, kind, total_length, preread, card, named, pending, call, target,
                       status, state, verdict, pos>>
    BY <1>2 DEF Pops, D!Take, Rest
  <2>4. /\ call = "skip" =>
             /\ rpc' = IF want' = 0 THEN "idle" ELSE "restart"
             /\ read_pos' = IF want' = 0 THEN target ELSE read_pos
             /\ out' = IF want' = 0 THEN At(target) ELSE out
             /\ UNCHANGED got
        /\ call # "skip" =>
             /\ rpc' = "next" /\ read_pos' = read_pos + n /\ got' = got \o Front(queue, n)
             /\ UNCHANGED out
    BY <1>2 DEF Pops
  <2> HIDE DEF n
  <2>5. /\ queue' \in Seq(Offsets) /\ Len(queue') = Len(queue) - n
        /\ Bytes(queue', read_pos + n)
    <3>1. queue' = Rest(queue, n) /\ Bytes(queue, read_pos) /\ read_pos \in Int
      BY <1>1, <2>2, <2>3
    <3> QED BY <1>1, <2>1, <3>1, BytesRest
  <2>6. want' \in Nat /\ Len(queue') <= Capacity /\ read_pos + n <= FileLen
    <3>1. want' \in Nat
      BY <1>1, <2>1, <2>3
    <3>2. Len(queue') <= Len(queue) /\ read_pos + n <= pos
      BY <1>1, <2>1, <2>2, <2>5
    <3>3. Len(queue) <= Capacity
      BY DEF TypeOK
    <3>4. Len(queue') \in Nat /\ Capacity \in Nat
      BY <2>5, Sizes, BytesEmpty
    <3> QED BY <1>1, <2>1, <3>1, <3>2, <3>3, <3>4
  <2>7. CASE call = "skip"
    <3>1. /\ want = target - read_pos /\ want <= SeekMax /\ Len(queue) >= want /\ ~stopping
          /\ got = <<>> /\ target \in 0 .. FileLen
      BY <2>2, <2>7 DEF SkipInv, TypeOK
    <3>2. n = want
      BY <1>1, <3>1, ChunkIs DEF n, Smaller
    <3>3. /\ want' = 0 /\ rpc' = "idle" /\ read_pos' = target /\ target = read_pos + n
          /\ out' = At(target) /\ got' = <<>>
      BY <1>1, <2>3, <2>4, <2>7, <3>1, <3>2
    <3>4. TypeOK'
      <4>1. out'.call = "seek" /\ out'.got = <<>>
        BY <3>3 DEF At
      <4> QED BY <2>3, <2>5, <2>6, <3>1, <3>3, <4>1, BytesNone DEF TypeOK
    <3>5. NetInv'
      BY <1>1, <2>1, <2>2, <2>3, <2>5, <3>3 DEF NetInv, Web, Idle
    <3>6. CardInv' /\ CallInv' /\ SkipInv'
      BY <2>2, <2>3, <3>3 DEF CardInv, CallInv, SkipInv, Web
    <3>7. DataInv'
      <4>1. read_pos' \in Nat
        BY <1>1, <2>1, <3>3
      <4> QED BY <2>2, <2>3, <3>3, <4>1, BytesNone DEF DataInv
    <3> QED BY <3>4, <3>5, <3>6, <3>7
  <2>8. CASE call # "skip"
    <3> DEFINE from == read_pos - Len(got)
    <3>1. rpc' = "next" /\ read_pos' = read_pos + n /\ got' = got \o Front(queue, n) /\ out' = out
      BY <2>4, <2>8
    <3>2. /\ Front(queue, n) \in Seq(Offsets) /\ Len(Front(queue, n)) = n
          /\ Bytes(Front(queue, n), read_pos)
      BY <1>1, <2>1, <2>2, BytesFront
    <3>3. from \in Int /\ Bytes(got, from) /\ from >= 0 /\ from + Len(got) = read_pos
      BY <1>1, <2>2, BytesNone DEF DataInv
    <3>4. got' \in Seq(Offsets) /\ Len(got') = Len(got) + n /\ Bytes(got', from)
      <4> HIDE DEF from
      <4> QED BY <1>1, <3>1, <3>2, <3>3, BytesConcat
    <3>5. read_pos' - Len(got') = from
      BY <1>1, <2>1, <3>1, <3>4
    <3>6. TypeOK'
      <4>1. read_pos' \in 0 .. FileLen
        BY <1>1, <2>1, <2>6, <3>1
      <4> QED BY <2>3, <2>5, <2>6, <3>1, <3>4, <4>1 DEF TypeOK
    <3>7. NetInv'
      BY <1>1, <2>1, <2>2, <2>3, <2>5, <3>1 DEF NetInv, Web, Idle
    <3>8. CardInv' /\ SkipInv'
      BY <2>2, <2>3, <2>8, <3>1 DEF CardInv, SkipInv, Web
    <3>9. DataInv'
      <4>1. read_pos' >= Len(got') /\ read_pos' - 0 - Len(got') = from
        BY <1>1, <2>1, <3>1, <3>3, <3>4, <3>5
      <4>2. Bytes(preread', read_pos' - Len(preread')) /\ Len(preread') = 0
        BY <2>2, <2>3, BytesNone
      <4>3. read_pos' \in Nat /\ Len(got') \in Nat
        BY <1>1, <2>1, <3>1, <3>4
      <4> QED BY <2>2, <2>3, <3>4, <4>1, <4>2, <4>3 DEF DataInv
    <3>10. CallInv'
      <4>1. want' + Len(got') = want + Len(got)
        BY <1>1, <2>1, <2>3, <3>4
      <4> QED BY <2>2, <2>3, <2>8, <3>1, <4>1 DEF CallInv, TypeOK, Web
    <3> QED BY <3>6, <3>7, <3>8, <3>9, <3>10
  <2> QED BY <2>7, <2>8
<1>3. CASE ReadsLocal
  <2> DEFINE n == IF Shut THEN 0 ELSE Smaller(want, FileLen - read_pos)
             bytes == [i \in 1 .. n |-> read_pos + i - 1]
             from == read_pos - Len(got)
  <2>1. /\ rpc = "next" /\ ~Web /\ file # "closed" /\ preread = <<>>
        /\ kind = "sd" /\ ~Shut => handle /\ cursor = read_pos
        /\ Shut => RunsOn /\ kind = "sd"
    BY <1>3 DEF ReadsLocal, CallInv, CardInv, Shut
  <2>2. /\ got' = got \o bytes /\ read_pos' = read_pos + n /\ want' = want - n
        /\ cursor' = (IF kind = "sd" THEN cursor + n ELSE cursor) /\ rpc' = "return"
        /\ UNCHANGED <<file, kind, total_length, preread, handle, net, call, target, status, out>>
    <3>1. CASE Shut
      <4>1. n = 0 /\ bytes = <<>>
        BY <3>1
      <4> QED BY <1>3, <3>1, <4>1 DEF ReadsLocal
    <3>2. CASE ~Shut
      BY <1>3, <2>1, <3>2 DEF ReadsLocal
    <3> QED BY <3>1, <3>2
  <2>3. /\ n \in Nat /\ n <= want /\ read_pos + n <= FileLen
        /\ n < want => read_pos + n = FileLen \/ Shut
    BY <1>1 DEF Smaller
  <2> HIDE DEF n
  <2>4. bytes \in Seq(Offsets) /\ Len(bytes) = n /\ Bytes(bytes, read_pos)
    BY <1>1, <2>3, BytesRange
  <2>5. from \in Int /\ Bytes(got, from) /\ from >= 0 /\ from + Len(got) = read_pos
    BY <1>1, <2>1, BytesNone DEF DataInv
  <2>6. got' \in Seq(Offsets) /\ Len(got') = Len(got) + n /\ Bytes(got', from)
    <3> HIDE DEF bytes, from
    <3> QED BY <1>1, <2>2, <2>4, <2>5, BytesConcat
  <2>7. TypeOK'
    <3>1. read_pos' \in 0 .. FileLen /\ want' \in Nat
      BY <1>1, <2>2, <2>3
    <3>2. cursor' \in 0 .. FileLen
      <4>1. CASE Shut
        BY <2>2, <4>1 DEF TypeOK, n
      <4>2. CASE ~Shut
        BY <1>1, <2>1, <2>2, <2>3, <4>2 DEF TypeOK
      <4> QED BY <4>1, <4>2
    <3> QED BY <2>2, <2>6, <3>1, <3>2 DEF TypeOK
  <2>8. NetInv' /\ CardInv' /\ SkipInv'
    BY <2>1, <2>2 DEF NetInv, CardInv, CallInv, SkipInv, Web, Idle, Shut
  <2>9. DataInv'
    <3>1. read_pos' >= Len(got') /\ read_pos' - 0 - Len(got') = from
      BY <1>1, <2>2, <2>3, <2>5, <2>6
    <3>2. Bytes(preread', read_pos' - Len(preread')) /\ Len(preread') = 0
      BY <2>1, <2>2, BytesNone
    <3>3. read_pos' \in Nat /\ Len(got') \in Nat
      BY <1>1, <2>2, <2>3, <2>6
    <3>4. file' # "closed"
      BY <2>1, <2>2
    <3> HIDE DEF bytes, from
    <3> QED BY <2>6, <3>1, <3>2, <3>3, <3>4 DEF DataInv
  <2>10. CallInv'
    <3>1. want' + Len(got') = want + Len(got)
      BY <1>1, <2>2, <2>3, <2>6
    <3>2. want' > 0 => read_pos' = FileLen \/ (RunsOn /\ kind = "sd")
      BY <1>1, <2>1, <2>2, <2>3
    <3> QED BY <2>1, <2>2, <3>1, <3>2 DEF CallInv, TypeOK, Web
  <2> QED BY <2>7, <2>8, <2>9, <2>10
<1>4. CASE Returns
  <2>1. /\ rpc = "return" /\ rpc' = "idle" /\ want' = 0 /\ got' = <<>> /\ started' = TRUE
        /\ call \in {"read", "preread"} /\ file # "closed"
        /\ UNCHANGED <<file, kind, total_length, read_pos, card, net, call, target, stopping,
                       failed>>
    BY <1>4 DEF Returns, CallInv
  <2>2. CASE call = "preread"
    <3>1. preread = <<>> /\ Len(got) <= Header /\ preread' = preread \o got /\ out' = out
      BY <1>1, <1>4, <2>1, <2>2 DEF Returns, CallInv
    <3>2. preread' = got
      BY <1>1, <3>1, ConcatEmptySeq
    <3>3. Bytes(got, read_pos - Len(got)) /\ read_pos >= Len(got)
      BY <1>1, <3>1, BytesNone DEF DataInv
    <3>4. TypeOK'
      BY <1>1, <2>1, <3>1, <3>2, BytesNone DEF TypeOK
    <3>5. NetInv' /\ CardInv' /\ SkipInv'
      BY <2>1 DEF NetInv, CardInv, SkipInv, Web, Idle
    <3>6. DataInv' /\ CallInv'
      BY <1>1, <2>1, <3>2, <3>3, BytesNone DEF DataInv, CallInv
    <3> QED BY <3>4, <3>5, <3>6
  <2>3. CASE call = "read"
    <3>1. out' = [call |-> "read", want |-> want + Len(got), got |-> got] /\ preread' = preread
      BY <1>4, <2>3 DEF Returns
    <3>2. TypeOK'
      <4>1. out'.call = "read" /\ out'.got = got
        BY <3>1
      <4> QED BY <1>1, <2>1, <3>1, <4>1, BytesNone DEF TypeOK
    <3>3. NetInv' /\ CardInv' /\ SkipInv'
      BY <2>1 DEF NetInv, CardInv, SkipInv, Web, Idle
    <3>4. DataInv'
      BY <1>1, <2>1, <3>1, BytesNone DEF DataInv, TypeOK
    <3>5. CallInv'
      BY <2>1, <3>1 DEF CallInv
    <3> QED BY <3>2, <3>3, <3>4, <3>5
  <2> QED BY <2>1, <2>2, <2>3
<1> QED BY <1>2, <1>3, <1>4

(* Unless a forward seek is stopped, the reader is where the download is,  *)
(* and has what it was asked for (audio_file.c:64-400).                    *)
THEOREM Invariant ==
  ASSUME "stop_in_seek" \notin Trouble
  PROVE  Spec => []IInv
<1>1. Init => IInv
  <2> SUFFICES ASSUME Init PROVE IInv
    OBVIOUS
  <2>1. TypeOK
    <3>1. out.call = "none" /\ out.got = <<>> /\ kind \in AllKinds
      BY AudioFileAssumption DEF Init
    <3>2. /\ total_length \in 0 .. Unnamed /\ named \in 0 .. Unnamed
          /\ {read_pos, cursor, pos, target} \subseteq 0 .. FileLen /\ want \in Nat
          /\ Len(preread) <= Header /\ Len(queue) <= Capacity
      BY Sizes, BytesNone DEF Init, Unnamed
    <3>3. {handle, stopping, started, failed} \subseteq BOOLEAN
      BY DEF Init
    <3> QED BY <3>1, <3>2, <3>3, BytesNone DEF Init, TypeOK
  <2>2. NetInv /\ CardInv /\ DataInv /\ CallInv /\ SkipInv
    BY BytesNone DEF Init, NetInv, CardInv, DataInv, CallInv, SkipInv
  <2> QED BY <2>1, <2>2 DEF IInv
<1>2. IInv /\ [Next]_vars => IInv'
  <2> SUFFICES ASSUME IInv, [Next]_vars PROVE IInv'
    OBVIOUS
  <2>1. CASE Stores \/ Breaks \/ TakesBits
    BY <2>1, DownloaderKeeps
  <2>2. CASE Worker
    BY <2>2, WorkerKeeps
  <2>3. CASE Size \/ Read
    BY <2>3, CallsKeep
  <2>4. CASE Seek
    BY <2>4, SeekKeeps
  <2>5. CASE ReaderStep \/ WaitExpires
    BY <2>5, LoopKeeps, ReadKeeps DEF ReaderStep, WaitFails
  <2>6. CASE UNCHANGED vars
    <3> USE <2>6 DEF IInv, vars, fields, card, net, locals, status
    <3>1. TypeOK'
      BY DEF TypeOK
    <3>2. NetInv' /\ CardInv'
      BY DEF NetInv, CardInv, Web, Idle
    <3>3. DataInv' /\ CallInv' /\ SkipInv'
      BY DEF DataInv, CallInv, SkipInv, Web
    <3> QED BY <3>1, <3>2, <3>3
  <2> QED BY <2>1, <2>2, <2>3, <2>4, <2>5, <2>6 DEF Next
<1> QED BY <1>1, <1>2, PTL DEF Spec

(* No position of audio_file.c leaves the file, and no buffer overflows,   *)
(* also when a decoder runs on in a card's file that is paused.            *)
THEOREM TypeCorrect ==
  ASSUME "stop_in_seek" \notin Trouble
  PROVE  Spec => []TypeOK
BY Invariant, PTL DEF IInv

(* A file that is freed leaves no download, no call and no handle behind,  *)
(* whether or not its decoder ran on while it was paused.                  *)
THEOREM NothingIsLeft ==
  ASSUME "stop_in_seek" \notin Trouble
  PROVE  Spec => []NothingOutlivesFile
<1>1. IInv => NothingOutlivesFile
  BY DEF IInv, NetInv, CallInv, CardInv, NothingOutlivesFile
<1> QED BY <1>1, Invariant, PTL
-----------------------------------------------------------------------------
(* The offset of the byte that the decoder gets next.                      *)
Place == read_pos - Len(preread) - Len(got)

SameFile == (file # "closed")' = (file # "closed") /\ stopping' = stopping

Quiet == SameFile /\ Place' = Place /\ out' = out

(* A step that changes neither place nor result is none for the caller.    *)
LEMMA QuietIsStutter == Quiet => UNCHANGED File!vars
BY DEF Quiet, SameFile, Place, File!vars

(* The place of the caller is in the file, and is what read_pos says, less *)
(* what is read ahead.                                                     *)
LEMMA PlaceIs ==
  ASSUME IInv
  PROVE  /\ Place \in 0 .. FileLen /\ Place <= read_pos /\ read_pos <= FileLen
         /\ rpc = "idle" => Place = read_pos - Len(preread)
         /\ preread = <<>> => Place = read_pos - Len(got)
         /\ rpc = "idle" /\ preread = <<>> => Place = read_pos
<1>1. /\ read_pos \in Nat /\ read_pos <= FileLen /\ FileLen \in Nat
      /\ Len(preread) \in Nat /\ Len(got) \in Nat /\ read_pos >= Len(preread) + Len(got)
  BY Sizes, BytesEmpty DEF IInv, TypeOK, DataInv
<1>2. rpc = "idle" => Len(got) = 0
  BY BytesNone DEF IInv, CallInv
<1>3. preread = <<>> => Len(preread) = 0
  BY BytesNone
<1> QED BY <1>1, <1>2, <1>3 DEF Place

(* Nobody but the decoder moves in the file.                               *)
LEMMA OthersAreQuiet ==
  ASSUME IInv, Stores \/ Breaks \/ TakesBits \/ Pause \/ Resume \/ UNCHANGED vars
  PROVE  Quiet
<1>1. /\ UNCHANGED <<read_pos, preread, got, stopping, out>>
      /\ (file = "closed") <=> (file' = "closed")
  BY DEF Stores, Breaks, TakesBits, Pause, Resume, vars, fields, locals, status
<1> QED BY <1>1 DEF Quiet, SameFile, Place

(* Opening, stopping and closing the file are steps of ByteFile.           *)
LEMMA WorkerMaps ==
  ASSUME IInv, IInv', Open \/ Stop \/ Close
  PROVE  File!Next
<1> USE DEF fields, locals, status
<1>1. CASE Open
  <2>1. file = "closed" /\ file' = "OPEN" /\ UNCHANGED <<stopping, out, read_pos, preread, got>>
    BY <1>1 DEF Open
  <2>2. Place' = 0
    <3>1. Place \in 0 .. FileLen /\ Place <= read_pos /\ read_pos = 0
      BY <2>1, PlaceIs DEF IInv, DataInv
    <3> QED BY <2>1, <3>1, Sizes DEF Place
  <2>3. File!Open
    BY <2>1, <2>2 DEF File!Open, Place
  <2> QED BY <2>3 DEF File!Next
<1>2. CASE Stop
  <2>1. /\ file # "closed" /\ file' = file /\ stopping' = TRUE
        /\ UNCHANGED <<read_pos, preread, got, out>>
    BY <1>2 DEF Stop
  <2>2. File!Stop
    BY <2>1 DEF File!Stop
  <2> QED BY <2>2 DEF File!Next
<1>3. CASE Close
  <2>1. /\ stopping /\ file # "closed" /\ file' = "closed" /\ stopping' = FALSE
        /\ read_pos' = 0 /\ preread' = <<>> /\ got' = <<>> /\ out' = File!Nothing
    BY <1>3 DEF Close, Frees, File!Nothing, File!Result, IInv, CallInv
  <2>2. Place' = 0
    <3>1. read_pos' = 0 /\ Len(preread') = 0 /\ Len(got') = 0
      BY <2>1, BytesNone
    <3> QED BY <3>1 DEF Place
  <2>3. File!Close
    BY <2>1, <2>2 DEF File!Close, Place
  <2> QED BY <2>3 DEF File!Next
<1> QED BY <1>1, <1>2, <1>3

(* A step of a call that is not its end moves nothing.                     *)
LEMMA CallsAreQuiet ==
  ASSUME IInv, IInv', ~RunsOn,
         Size \/ Read \/ Had \/ Looks \/ Restarts \/ Waited \/ ReadsLocal
  PROVE  Quiet
<1> USE DEF fields, locals, status
<1>1. CASE Read
  <2>1. got = <<>> /\ UNCHANGED <<file, read_pos, stopping, out>>
    BY <1>1 DEF Read, Calls, IInv, CallInv
  <2>2. Len(preread') + Len(got') = Len(preread)
    BY <1>1, ReadTakes
  <2>3. /\ read_pos \in Nat /\ Len(preread) \in Nat /\ Len(got) = 0
        /\ Len(preread') \in Nat /\ Len(got') \in Nat
    BY <2>1, BytesNone, BytesEmpty DEF IInv, TypeOK
  <2>4. Place' = Place
    BY <2>1, <2>2, <2>3 DEF Place
  <2> QED BY <2>1, <2>4 DEF Quiet, SameFile
<1>2. CASE ReadsLocal
  <2> DEFINE from == IF kind = "sd" THEN cursor ELSE read_pos
             n == IF Shut THEN 0 ELSE Smaller(want, FileLen - from)
             bytes == [i \in 1 .. n |-> from + i - 1]
  <2>1. /\ read_pos' = read_pos + n /\ got' = got \o bytes
        /\ UNCHANGED <<file, preread, stopping, out>>
    BY <1>2 DEF ReadsLocal
  <2>2. from = read_pos /\ ~Shut
    BY <1>2 DEF ReadsLocal, IInv, CardInv, Shut
  <2>3. n \in Nat /\ read_pos + n <= FileLen /\ read_pos \in Nat /\ got \in Seq(Offsets)
    <3>1. read_pos \in 0 .. FileLen /\ FileLen \in Nat /\ want \in Nat /\ got \in Seq(Offsets)
      BY Sizes DEF IInv, TypeOK
    <3> HIDE DEF from
    <3> QED BY <2>2, <3>1 DEF Smaller
  <2> HIDE DEF n, from
  <2>4. bytes \in Seq(Offsets) /\ Len(bytes) = n
    <3>1. from \in Nat /\ from + n <= FileLen
      BY <2>2, <2>3
    <3> QED BY <2>3, <3>1, BytesRange
  <2> HIDE DEF bytes
  <2>5. Len(got') = Len(got) + n /\ Len(got) \in Nat
    BY <2>1, <2>3, <2>4, ConcatProperties, BytesEmpty
  <2>6. Place' = Place
    <3>1. Len(preread) \in Nat
      BY BytesEmpty DEF IInv, TypeOK
    <3> QED BY <2>1, <2>3, <2>5, <3>1 DEF Place
  <2> QED BY <2>1, <2>6 DEF Quiet, SameFile
<1>3. CASE Size \/ Had \/ Looks \/ Restarts \/ Waited
  <2>1. UNCHANGED <<file, read_pos, preread, got, stopping, out>>
    BY <1>3 DEF Size, Had, Looks, Restarts, Waited
  <2> QED BY <2>1 DEF Quiet, SameFile, Place
<1> QED BY <1>1, <1>2, <1>3

(* A seek goes where it is told, or is on its way.                         *)
LEMMA SeekMaps ==
  ASSUME IInv, IInv', ~RunsOn, Seek
  PROVE  File!Next
<1> USE DEF fields, locals, status
<1>1. PICK p \in 0 .. FileLen :
        SeeksPreread(p) \/ SeeksFar(p) \/ SeeksAgain(p) \/ SeeksForward(p)
  BY DEF Seek
<1>2. /\ file # "closed" /\ file' = file /\ stopping' = stopping /\ got' = got /\ got = <<>>
      /\ rpc = "idle" /\ p \in Nat /\ read_pos \in Nat
  <2>1. /\ file # "closed" /\ rpc = "idle" /\ UNCHANGED <<file, stopping, got>>
    BY <1>1 DEF SeeksPreread, SeeksFar, SeeksAgain, SeeksForward, Seeks, Calls
  <2>2. p \in Nat /\ read_pos \in Nat
    BY Sizes DEF IInv, TypeOK
  <2>3. got = <<>>
    BY <2>1 DEF IInv, CallInv
  <2> QED BY <2>1, <2>2, <2>3
<1>3. CASE SeeksPreread(p) \/ SeeksFar(p) \/ SeeksAgain(p)
  <2>1. Place' = p
    <3>1. CASE SeeksPreread(p)
      <4>1. read_pos' = read_pos /\ preread' = Rest(preread, Len(preread) - (read_pos - p))
        BY <3>1 DEF SeeksPreread
      <4> DEFINE n == Len(preread) - (read_pos - p)
                 from == read_pos - Len(preread)
      <4>2. /\ Len(preread) \in Nat /\ preread \in Seq(Offsets) /\ n \in 0 .. Len(preread)
            /\ from \in Int /\ Bytes(preread, from)
        <5>1. p < read_pos /\ read_pos - p <= Len(preread)
          BY <3>1 DEF SeeksPreread, Within
        <5>2. preread \in Seq(Offsets) /\ Bytes(preread, from)
          BY DEF IInv, TypeOK, DataInv
        <5>3. Len(preread) \in Nat
          BY <5>2, BytesEmpty
        <5> QED BY <1>2, <5>1, <5>2, <5>3
      <4>3. Len(preread') = Len(preread) - n
        <5> HIDE DEF n, from
        <5> QED BY <4>1, <4>2, BytesRest DEF n
      <4>4. Len(preread') = read_pos - p
        BY <1>2, <4>2, <4>3
      <4> QED BY <1>2, <4>1, <4>4, BytesNone DEF Place
    <3>2. CASE SeeksFar(p) \/ SeeksAgain(p)
      <4>1. read_pos' = p /\ preread' = <<>>
        BY <3>2 DEF SeeksFar, SeeksAgain, Seeks, Calls, Shut
      <4> QED BY <1>2, <4>1, BytesNone DEF Place
    <3> QED BY <1>3, <3>1, <3>2
  <2>2. out' = File!Result("seek", p, <<>>)
    BY <1>3 DEF SeeksPreread, SeeksFar, SeeksAgain, Seeks, Calls, Shut, At, File!Result
  <2>3. File!Seek(p)
    BY <1>2, <2>1, <2>2 DEF File!Seek, Place
  <2> QED BY <2>3 DEF File!Next
<1>4. CASE SeeksForward(p)
  <2>1. read_pos' = read_pos /\ preread' = <<>> /\ out' = File!Lost
    BY <1>4 DEF SeeksForward, Lost, File!Lost, File!Result
  <2>2. Place' \in Place .. FileLen
    BY <1>2, <2>1, PlaceIs, Sizes, BytesNone DEF Place
  <2>3. File!Lose
    BY <1>2, <2>1, <2>2 DEF File!Lose, Place
  <2> QED BY <2>3 DEF File!Next
<1> QED BY <1>1, <1>3, <1>4

(* A call that ends well gives what comes next, as much as there is; one   *)
(* that does not gives nothing.                                            *)
LEMMA CallsMap ==
  ASSUME IInv, IInv', ~RunsOn, Pops \/ Returns \/ WaitExpires
  PROVE  Quiet \/ File!Next
<1> USE DEF fields, locals, status
<1>1. /\ read_pos \in Nat /\ read_pos <= FileLen /\ FileLen \in Nat
      /\ want \in Nat /\ got \in Seq(Offsets) /\ Len(got) \in Nat
      /\ queue \in Seq(Offsets) /\ Len(queue) \in Nat
  <2>1. read_pos \in 0 .. FileLen /\ FileLen \in Nat
    BY Sizes DEF IInv, TypeOK
  <2>2. want \in Nat /\ got \in Seq(Offsets) /\ queue \in Seq(Offsets)
    BY DEF IInv, TypeOK
  <2> QED BY <2>1, <2>2, BytesEmpty
<1>2. CASE Pops
  <2> DEFINE n == Smaller(Chunk, Len(queue))
  <2>1. /\ rpc = "pop" /\ Web /\ want > 0 /\ preread = <<>> /\ file # "closed"
        /\ want' = want - n /\ UNCHANGED <<file, preread, stopping>>
    BY <1>2 DEF Pops, IInv, CallInv
  <2>2. n \in 0 .. Len(queue)
    BY <1>1, ChunkIs DEF Smaller, IInv
  <2>3. CASE call = "skip"
    <3>1. /\ want = target - read_pos /\ want <= SeekMax /\ Len(queue) >= want /\ got = <<>>
          /\ target \in 0 .. FileLen
      BY <2>1, <2>3 DEF IInv, SkipInv, TypeOK
    <3>2. want' = 0
      BY <1>1, <2>1, <3>1, ChunkIs DEF Smaller, IInv
    <3>3. /\ read_pos' = target /\ got' = <<>> /\ out' = File!Result("seek", target, <<>>)
      BY <1>2, <2>3, <3>1, <3>2 DEF Pops, At, File!Result
    <3>4. Place' = target
      BY <1>1, <2>1, <3>1, <3>3, BytesNone DEF Place
    <3>5. File!Seek(target)
      BY <2>1, <3>3, <3>4 DEF File!Seek, Place
    <3> QED BY <3>1, <3>5 DEF File!Next
  <2>4. CASE call # "skip"
    <3>1. read_pos' = read_pos + n /\ got' = got \o Front(queue, n) /\ out' = out
      BY <1>2, <2>4 DEF Pops
    <3>2. Front(queue, n) \in Seq(Offsets) /\ Len(Front(queue, n)) = n
      <4>1. Bytes(queue, read_pos)
        BY <2>1 DEF IInv, NetInv
      <4> HIDE DEF n
      <4> QED BY <1>1, <2>2, <4>1, BytesFront
    <3> HIDE DEF n
    <3>3. Len(got') = Len(got) + n
      BY <1>1, <3>1, <3>2, ConcatProperties
    <3>4. Place' = Place
      BY <1>1, <2>1, <2>2, <3>1, <3>3, BytesNone DEF Place
    <3> QED BY <2>1, <3>1, <3>4 DEF Quiet, SameFile
  <2> QED BY <2>3, <2>4
<1>3. CASE Returns
  <2>1. /\ rpc = "return" /\ file # "closed" /\ want' = 0 /\ got' = <<>>
        /\ UNCHANGED <<file, read_pos, stopping>> /\ call \in {"read", "preread"}
    BY <1>3 DEF Returns, IInv, CallInv
  <2>2. CASE call = "preread"
    <3>1. preread = <<>> /\ preread' = got /\ out' = out
      BY <1>1, <1>3, <2>1, <2>2, ConcatEmptySeq DEF Returns, IInv, CallInv
    <3>2. Place' = Place
      BY <1>1, <2>1, <3>1, BytesNone DEF Place
    <3> QED BY <2>1, <3>1, <3>2 DEF Quiet, SameFile
  <2>3. CASE call = "read"
    <3> DEFINE asked == want + Len(got)
               n == Len(got)
    <3>1. preread' = preread /\ out' = [call |-> "read", want |-> asked, got |-> got]
      BY <1>3, <2>3 DEF Returns
    <3>2. asked \in ReadSizes
      BY <2>1, <2>3 DEF IInv, CallInv
    <3>3. Place \in Int /\ got = [i \in 1 .. n |-> Place + i - 1]
      <4>1. Place \in Int
        BY PlaceIs, Sizes
      <4>2. Bytes(got, Place)
        BY DEF IInv, DataInv, Place
      <4> QED BY <1>1, <4>1, <4>2, BytesAre
    <3>4. Place' = Place + n
      <4>1. Len(preread) \in Nat /\ Len(got') = 0
        BY <2>1, BytesNone, BytesEmpty DEF IInv, TypeOK
      <4> QED BY <1>1, <2>1, <3>1, <4>1 DEF Place
    <3>5. n \in 0 .. FileLen /\ n <= asked /\ Place + n <= FileLen
      <4>1. Place \in 0 .. FileLen
        BY PlaceIs
      <4>2. Place + n = read_pos - Len(preread) /\ Len(preread) \in Nat
        BY <1>1, BytesEmpty DEF Place, IInv, TypeOK
      <4> QED BY <1>1, <4>1, <4>2
    <3>6. n < asked => Place + n = FileLen \/ stopping
      <4>1. ASSUME want > 0 PROVE preread = <<>> /\ (read_pos = FileLen \/ stopping)
        BY <2>1, <4>1 DEF IInv, CallInv
      <4>2. ASSUME preread = <<>> PROVE Place + n = read_pos
        BY <1>1, <4>2, BytesNone DEF Place
      <4> QED BY <1>1, <4>1, <4>2
    <3>7. File!Read(asked, n)
      <4>1. out' = File!Result("read", asked, [i \in 1 .. n |-> Place + i - 1])
        <5> HIDE DEF n
        <5> QED BY <3>1, <3>3 DEF File!Result
      <4> HIDE DEF n, asked
      <4> QED BY <2>1, <3>4, <3>5, <3>6, <4>1 DEF File!Read, Place
    <3> HIDE DEF n, asked
    <3> QED BY <3>2, <3>5, <3>7 DEF File!Next
  <2> QED BY <2>1, <2>2, <2>3
<1>4. CASE WaitExpires
  <2>1. /\ rpc = "wait" /\ want > 0 /\ preread = <<>> /\ file # "closed" /\ got' = <<>>
        /\ UNCHANGED <<file, read_pos, preread, stopping>>
        /\ out' = IF call = "size" THEN out ELSE Lost
    BY <1>4 DEF WaitExpires, IInv, CallInv
  <2>2. Place = read_pos - Len(got) /\ Place' = read_pos
    BY <1>1, <2>1, BytesNone DEF Place
  <2>3. CASE call = "size"
    <3>1. got = <<>>
      BY <2>1, <2>3 DEF IInv, CallInv
    <3> QED BY <1>1, <2>1, <2>2, <2>3, <3>1, BytesNone DEF Quiet, SameFile
  <2>4. CASE call # "size"
    <3>1. out' = File!Lost /\ Place' \in Place .. FileLen
      BY <1>1, <2>1, <2>2, <2>4 DEF Lost, File!Lost, File!Result
    <3>2. File!Lose
      BY <2>1, <3>1 DEF File!Lose, Place
    <3> QED BY <3>2 DEF File!Next
  <2> QED BY <2>3, <2>4
<1> QED BY <1>2, <1>3, <1>4

(* Whatever the network does, a decoder gets the bytes of the file in      *)
(* order, from where it asked for them, and fewer than it asked for only   *)
(* at the end or when it is being stopped (audio_file.c:181-400), if it    *)
(* does not read or seek in a card's file while that is paused.  Files     *)
(* from the web and from flash may be read while they are.                 *)
THEOREM FileIsByteFile ==
  ASSUME {"stop_in_seek", "runs_on"} \cap Trouble = {}
  PROVE  Spec => ImplementsByteFile
<1>1. Init => File!Init
  <2> SUFFICES ASSUME Init PROVE File!Init
    OBVIOUS
  <2>1. read_pos - Len(preread) - Len(got) = 0
    <3>1. read_pos = 0 /\ Len(preread) = 0 /\ Len(got) = 0
      BY BytesNone DEF Init
    <3> QED BY <3>1
  <2>2. out = File!Nothing
    BY DEF Init, File!Nothing, File!Result
  <2> QED BY <2>1, <2>2 DEF Init, File!Init
<1>2. "stop_in_seek" \notin Trouble /\ ~RunsOn
  BY DEF RunsOn
<1>3. IInv /\ IInv' /\ [Next]_vars => [File!Next]_File!vars
  <2> SUFFICES ASSUME IInv, IInv', [Next]_vars PROVE Quiet \/ File!Next
    BY QuietIsStutter
  <2>1. CASE Stores \/ Breaks \/ TakesBits \/ UNCHANGED vars
    BY <2>1, OthersAreQuiet
  <2>2. CASE Worker
    BY <2>2, OthersAreQuiet, WorkerMaps DEF Worker
  <2>3. CASE Size \/ Read
    BY <1>2, <2>3, CallsAreQuiet
  <2>4. CASE Seek
    BY <1>2, <2>4, SeekMaps
  <2>5. CASE ReaderStep \/ WaitExpires
    BY <1>2, <2>5, CallsAreQuiet, CallsMap DEF ReaderStep, WaitFails
  <2> QED BY <2>1, <2>2, <2>3, <2>4, <2>5 DEF Next
<1> QED BY <1>1, <1>2, <1>3, Invariant, PTL DEF Spec, ImplementsByteFile, File!Spec
=============================================================================
