---------------------------- MODULE PlaybackProofs ----------------------------
(***************************************************************************)
(* For buffers, frames, requests and files of every size: what the player, *)
(* the decoder and the pcm worker share is there while they use it, and an *)
(* mp3 file that plays to its end has gone to the codec as a whole.        *)
(***************************************************************************)
EXTENDS Playback, TLAPS

InRequest  == txPc \in {"call", "count", "done?", "pop", "crashed"}
TxPosted   == txPending \cup txTaken \cup txAcks
DecPosted  == decPending \cup decTaken

(* The pcm worker: START and STOP belong to the player that waits for      *)
(* them, and the state tells whether they have been handled.               *)
TxInv ==
  /\ "START" \in TxPosted => ctl = "start_tx"
  /\ "STOP" \in TxPosted => ctl \in {"stop_tx", "clear_tx", "clear_acks"}
  /\ "START" \in txAcks => "START" \notin txPending \cup txTaken
  /\ "STOP" \in txAcks => "STOP" \notin txPending \cup txTaken
  /\ "START" \in txTaken => "START" \notin txPending
  /\ "STOP" \in txTaken => "STOP" \notin txPending
  /\ txPc = "wait" => txTaken = {}
  /\ InRequest => txState = "TX_RUN" /\ "STOP" \notin txTaken /\ "START" \notin txTaken

(* The codec runs from the acknowledgement of START to that of STOP.       *)
CodecInv ==
  /\ ctl = "start_tx" =>
       /\ ~holder
       /\ "START" \in TxPosted
       /\ "START" \in txAcks <=> txState # "IDLE"
  /\ ctl = "stop_tx" =>
       /\ holder
       /\ "STOP" \in TxPosted
       /\ "STOP" \in txAcks <=> txState = "IDLE"
  /\ ctl \in {"clear_tx", "clear_acks"} =>
       holder /\ txState = "IDLE" /\ "STOP" \notin txPending \cup txTaken
  /\ ctl \in {"hear", "decoder", "seeking", "clear_ring", "release"} =>
       ~holder /\ txState = "IDLE"
  /\ ctl \in {"idle", "halt", "look", "resume_tx"} => (holder <=> txState # "IDLE")
  /\ ctl = "idle" => (holder <=> player = "PLAY")
  /\ ctl \in {"look", "resume_tx"} => player = "PLAY" /\ holder

(* The decoder's thread: START comes first and STOP last.                  *)
DecInv ==
  /\ decPc = "gone" <=> ctl = "release" \/ (ctl = "idle" /\ player = "IDLE")
  /\ ctl = "idle" /\ player = "IDLE" => "DECODER" \notin events
  /\ decPc # "gone" =>
       /\ converter
       /\ "STOP" \in DecPosted \cup decAcks => ctl = "decoder" /\ op = "stop"
       /\ "START" \in decPending => ctl = "hear" /\ decPc = "wait"
       /\ "START" \in decTaken => ctl \in {"hear", "halt", "decoder"} /\ decPc = "handle"
       /\ "STOP" \in decTaken => "START" \notin decTaken /\ "STOP" \notin decPending
       /\ "START" \in decTaken /\ ctl # "hear" => ~holder /\ op = "stop"
       /\ "START" \in DecPosted => decState = "IDLE" /\ "DECODER" \notin events
       /\ decState = "IDLE" <=> "START" \in DecPosted \/ "STOP" \in decAcks
       /\ "STOP" \in decAcks => "STOP" \notin DecPosted /\ "START" \notin DecPosted
       /\ decPc = "wait" => decTaken = {}
       /\ decPc \notin {"wait", "handle"} => decState = "RUN" /\ decTaken \subseteq {"RESUME"}

(* What the decoder has done when it is at a place of its poll.            *)
PollInv ==
  /\ decPc \in {"input", "decode"} => left = 0
  /\ output_done => /\ input_done /\ stream = "need" /\ left = 0
                    /\ decPc \in {"wait", "handle", "output", "input"}
  /\ codec = "mp3" /\ (left > 0 \/ decPc \in {"notify", "await", "pushed"}) => stream = "spent"
  /\ codec = "mp3" /\ ~failed /\ input_done =>
       stream = "need" /\ left = 0 /\ decPc \in {"wait", "handle", "output", "input"}

(* A request that has counted nothing, with something pushed since: the    *)
(* decoder has to be resumed once more before it is done, and only a later *)
(* step of this worker does that.                                          *)
Overtaken == txPc = "done?" /\ txCount = 0 /\ ring > 0 /\ codec = "mp3" /\ ~failed

TailInv ==
  /\ Overtaken =>
       /\ ~output_done
       /\ decPc \in {"handle", "output", "input", "decode"} /\ stream # "spent" =>
            "RESUME" \notin decPending
       /\ input_done => decState = "PAUSE" /\ "RESUME" \notin DecPosted
  /\ txState = "TX_DONE" => output_done
  /\ txState = "TX_DONE" /\ codec = "mp3" /\ ~failed => ring = 0

IInv == TypeOK /\ TxInv /\ CodecInv /\ DecInv /\ PollInv /\ TailInv
-----------------------------------------------------------------------------
(* A few of the variables' types at a time, for the arithmetic.            *)
LEMMA Sizes ==
  /\ RingSize \in Nat /\ RingSize > 0 /\ FrameSize \in Nat /\ FrameSize > 0
  /\ RequestSize \in Nat /\ Threshold \in Nat /\ Threshold > 0 /\ Threshold < RequestSize
  /\ FileSize \in Nat /\ MaxSeeks \in Nat
BY PlaybackAssumption

(* The decoder's steps keep the types.                                     *)
LEMMA DecTypes ==
  ASSUME TypeOK
  PROVE  DecStep => TypeOK'
<1> USE DEF ctlVars, fields, track, shared, txVars, txBits, decWork, decData, decBits, DecEvents,
            TxEvents
<1>1. CASE DecTakes
  BY <1>1 DEF DecTakes, TypeOK
<1>2. ASSUME NEW s \in {"IDLE", "RUN", "PAUSE"}, DecReturns(s)
      PROVE  /\ decState' = s /\ decPc' = "wait" /\ decTaken' \subseteq DecEvents
             /\ decAcks' \subseteq DecEvents /\ decPending' \subseteq DecEvents /\ decoded' = FALSE
  BY <1>2 DEF DecReturns, TypeOK
<1>3. CASE DecStartsOrStops
  <2>1. left' \in 0 .. FrameSize
    BY <1>2, <1>3, Sizes DEF DecStartsOrStops, TypeOK
  <2> QED BY <1>2, <1>3, <2>1 DEF DecStartsOrStops, TypeOK
<1>4. CASE DecPausesOrResumes
  BY <1>2, <1>4 DEF DecPausesOrResumes, TypeOK
<1>5. CASE DecSeeks
  <2>1. left' \in 0 .. FrameSize
    BY <1>2, <1>5, Sizes DEF DecSeeks, TypeOK
  <2> QED BY <1>2, <1>5, <2>1 DEF DecSeeks, TypeOK
<1>6. CASE DecPolls \/ DecGivesUp
  BY <1>6 DEF DecPolls, DecGivesUp, TypeOK
<1>7. CASE DecOutputs
  <2>1. ring' \in 0 .. RingSize /\ left' \in 0 .. FrameSize
    BY <1>7, Sizes DEF DecOutputs, Smaller, TypeOK
  <2> QED BY <1>7, <2>1 DEF DecOutputs, TypeOK
<1>8. CASE DecNotifies
  BY <1>8 DEF DecNotifies, TypeOK
<1>9. CASE DecAcked \/ DecExpires
  BY <1>9 DEF DecAcked, DecExpires, TypeOK
<1>10. CASE DecOutputEnds
  BY <1>2, <1>10 DEF DecOutputEnds, OutputDone, TypeOK
<1>11. CASE DecFinishes
  BY <1>2, <1>11 DEF DecFinishes, TypeOK
<1>12. CASE DecReads
  <2>1. unread' \in 0 .. FileSize
    BY <1>12, Sizes DEF DecReads, TypeOK
  <2> QED BY <1>12, <2>1 DEF DecReads, TypeOK
<1>13. CASE DecReadsNothing
  BY <1>2, <1>13 DEF DecReadsNothing, TypeOK
<1>14. CASE AacLastSample
  <2>1. unread' \in 0 .. FileSize
    BY <1>14, Sizes DEF AacLastSample, TypeOK
  <2> QED BY <1>14, <2>1 DEF AacLastSample, TypeOK
<1>15. CASE DecDecodes
  <2>1. left' \in 0 .. FrameSize
    BY <1>2, <1>15, Sizes DEF DecDecodes, TypeOK
  <2> QED BY <1>2, <1>15, <2>1 DEF DecDecodes, TypeOK
<1>16. CASE AacDecodes
  <2>1. left' \in 0 .. FrameSize
    BY <1>2, <1>16, Sizes DEF AacDecodes, TypeOK
  <2> QED BY <1>2, <1>16, <2>1 DEF AacDecodes, TypeOK
<1> QED BY <1>1, <1>3, <1>4, <1>5, <1>6, <1>7, <1>8, <1>9, <1>10, <1>11, <1>12, <1>13, <1>14,
           <1>15, <1>16 DEF DecStep

(* So do the pcm worker's.                                                 *)
LEMMA TxTypes ==
  ASSUME TypeOK
  PROVE  TxStep => TypeOK'
<1> USE DEF ctlVars, fields, track, shared, txVars, txBits, decWork, decData, decBits, DecEvents,
            TxEvents
<1>1. CASE TxTakes
  BY <1>1 DEF TxTakes, TypeOK
<1>2. ASSUME NEW s \in {"IDLE", "TX_RUN", "TX_PAUSE", "TX_DONE"}, TxReturns(s)
      PROVE  /\ txState' = s /\ txPc' = "wait" /\ txTaken' \subseteq TxEvents
             /\ txAcks' \subseteq TxEvents /\ txPending' \subseteq TxEvents
             /\ txCount' \in 0 .. RingSize /\ txDone' = FALSE
  BY <1>2, Sizes DEF TxReturns, TypeOK
<1>3. CASE TxActs
  BY <1>2, <1>3 DEF TxActs, TypeOK
<1>4. CASE TxPolls \/ TxCalls \/ TxCounts
  BY <1>4 DEF TxPolls, TxCalls, TxCounts, TypeOK
<1>5. CASE TxLooksDone
  BY <1>2, <1>5 DEF TxLooksDone, TypeOK
<1>6. CASE TxPops
  <2> DEFINE n == Smaller(RequestSize - Fill, ring)
  <2>1. n \in 0 .. RingSize /\ n <= ring
    BY Sizes DEF Smaller, Fill, TypeOK
  <2>2. /\ ring' = ring - n /\ consumed' = (consumed \/ n > 0)
        /\ decPending' \in {decPending, decPending \cup {"RESUME"}}
        /\ TxReturns("TX_RUN") \/ TxReturns("TX_PAUSE")
        /\ UNCHANGED <<ctlVars, failed, events, decWork, decData, decAcks>>
    BY <1>6 DEF TxPops
  <2>3. ring' \in 0 .. RingSize /\ consumed' \in BOOLEAN /\ decPending' \subseteq DecEvents
    BY <2>1, <2>2, Sizes DEF TypeOK
  <2> HIDE DEF n
  <2> QED BY <1>2, <2>2, <2>3 DEF TypeOK
<1> QED BY <1>1, <1>3, <1>4, <1>5, <1>6 DEF TxStep

(* And the player's.                                                       *)
LEMMA CtlTypes ==
  ASSUME TypeOK
  PROVE  CtlStep \/ Start \/ Command \/ Resume => TypeOK'
<1> USE DEF ctlVars, fields, track, shared, txVars, txBits, decWork, decData, decBits, DecEvents,
            TxEvents, CtlPcs, Ops, PlayerStates, TrackTypes
<1>1. ASSUME NEW s \in PlayerStates, Finish(s), UNCHANGED failed
      PROVE  player' \in PlayerStates /\ ctl' \in CtlPcs /\ op' \in Ops /\ enable' \in BOOLEAN
  BY <1>1 DEF Finish, Halt, TypeOK
<1>2. ASSUME StartTx
      PROVE  callback' = TRUE /\ ctl' \in CtlPcs /\ op' \in Ops /\ txPending' \subseteq TxEvents
             /\ txAcks' = txAcks
  BY <1>2 DEF StartTx, TypeOK
<1>3. CASE Hears \/ HearsNothing
  BY <1>2, <1>3 DEF Hears, HearsNothing, Halt, TypeOK
<1>4. CASE TxStarted
  BY <1>1, <1>4 DEF TxStarted, TypeOK
<1>5. CASE HaltTx
  BY <1>5 DEF HaltTx, PostDecoder, TypeOK
<1>6. CASE TxStopped \/ ClearTx
  BY <1>6 DEF TxStopped, ClearTx, TypeOK
<1>7. CASE ClearTxAcks
  BY <1>7 DEF ClearTxAcks, PostDecoder, TypeOK
<1>8. CASE DecoderStopped
  <2>1. seeks' \in 0 .. MaxSeeks /\ left' \in 0 .. FrameSize /\ unread' \in 0 .. FileSize
    BY <1>8, Sizes DEF DecoderStopped, TypeOK
  <2> QED BY <1>8, <2>1 DEF DecoderStopped, TypeOK
<1>9. CASE Release
  <2>1. ring' \in 0 .. RingSize
    BY <1>9, Sizes DEF Release, TypeOK
  <2> QED BY <1>9, <2>1 DEF Release, TypeOK
<1>10. CASE DecoderPauses
  BY <1>1, <1>10 DEF DecoderPauses, TypeOK
<1>11. CASE SeekRefused
  BY <1>2, <1>11 DEF SeekRefused, TypeOK
<1>12. CASE DecoderSought
  BY <1>12 DEF DecoderSought, TypeOK
<1>13. CASE ClearRing
  <2>1. ring' \in 0 .. RingSize
    BY <1>2, <1>13, Sizes DEF ClearRing, TypeOK
  <2> QED BY <1>2, <1>13, <2>1 DEF ClearRing, TypeOK
<1>14. CASE MonitorStops \/ MonitorLooks
  BY <1>14 DEF MonitorStops, MonitorLooks, Halt, TypeOK
<1>15. CASE MonitorResumes
  BY <1>1, <1>15 DEF MonitorResumes, TypeOK
<1>16. CASE MonitorResumed
  BY <1>1, <1>16 DEF MonitorResumed, TypeOK
<1>17. CASE Start
  <2>1. seeks' \in 0 .. MaxSeeks /\ left' \in 0 .. FrameSize /\ unread' \in 0 .. FileSize
    BY <1>17, Sizes DEF Start, TypeOK
  <2> QED BY <1>17, <2>1 DEF Start, TypeOK
<1>18. CASE Command
  <2>1. seeks' \in 0 .. MaxSeeks
    BY <1>18, Sizes DEF Command, TypeOK
  <2> QED BY <1>18, <2>1 DEF Command, Halt, TypeOK
<1>19. CASE Resume
  BY <1>2, <1>19 DEF Resume, Halt, TypeOK
<1> QED BY <1>3, <1>4, <1>5, <1>6, <1>7, <1>8, <1>9, <1>10, <1>11, <1>12, <1>13, <1>14, <1>15,
           <1>16, <1>17, <1>18, <1>19 DEF CtlStep

(* Every variable keeps its type; the ring never holds more than its size. *)
THEOREM TypeCorrect == Spec => []TypeOK
<1>1. Init => TypeOK
  <2> SUFFICES ASSUME Init PROVE TypeOK
    OBVIOUS
  <2>1. /\ ring \in 0 .. RingSize /\ txCount \in 0 .. RingSize /\ left \in 0 .. FrameSize
        /\ unread \in 0 .. FileSize /\ seeks \in 0 .. MaxSeeks
    BY Sizes DEF Init
  <2> QED
    BY <2>1 DEF Init, TypeOK, PlayerStates, CtlPcs, Ops, TrackTypes, TxEvents, DecEvents
<1>2. TypeOK /\ [Next]_vars => TypeOK'
  <2> SUFFICES ASSUME TypeOK, [Next]_vars PROVE TypeOK'
    OBVIOUS
  <2>1. CASE UNCHANGED vars
    BY <2>1 DEF TypeOK, vars, ctlVars, fields, track, shared, txVars, txBits, decWork, decData,
                decBits
  <2> QED BY <2>1, DecTypes, TxTypes, CtlTypes DEF Next
<1> QED BY <1>1, <1>2, PTL DEF Spec
-----------------------------------------------------------------------------
Rows(table, s, bits) == {i \in DOMAIN table : table[i].state = s /\ table[i].event \subseteq bits}

(* com_fsm_get_lookup finds the first row that fits, or none.              *)
LEMMA FirstRow ==
  ASSUME NEW table, NEW s, NEW bits, Rows(table, s, bits) \subseteq Int
  PROVE  /\ Rows(table, s, bits) = {} => RowEvent(table, s, bits) = {}
         /\ \A k \in Rows(table, s, bits) :
              (\A q \in Rows(table, s, bits) : k <= q)
                => RowEvent(table, s, bits) = {table[k].event}
<1> DEFINE rows == Rows(table, s, bits)
<1>1. RowEvent(table, s, bits) = {table[i].event : i \in {r \in rows : \A q \in rows : r <= q}}
  BY DEF RowEvent, Rows
<1> HIDE DEF rows
<1>2. ASSUME NEW k \in rows, \A q \in rows : k <= q
      PROVE  {r \in rows : \A q \in rows : r <= q} = {k}
  <2>1. \A r \in rows : (\A q \in rows : r <= q) => r = k
    BY <1>2 DEF rows
  <2> QED BY <1>2, <2>1
<1>3. ASSUME NEW k \in rows, \A q \in rows : k <= q
      PROVE  RowEvent(table, s, bits) = {table[k].event}
  BY <1>1, <1>2, <1>3
<1>4. rows = {} => RowEvent(table, s, bits) = {}
  BY <1>1
<1> QED BY <1>3, <1>4 DEF rows

(* What the pcm worker runs for a set of bits.                             *)
LEMMA TxRow ==
  ASSUME NEW s, NEW bits, NEW row, row = RowEvent(TxLookup, s, bits)
  PROVE  /\ s = "IDLE" => row = IF "START" \in bits THEN {{"START"}} ELSE {}
         /\ s = "TX_RUN" => row = IF "STOP" \in bits THEN {{"STOP"}} ELSE {{}}
         /\ s = "TX_PAUSE" => row = IF "STOP" \in bits THEN {{"STOP"}}
                                    ELSE IF "RESUME" \in bits THEN {{"RESUME"}} ELSE {}
         /\ s = "TX_DONE" => row = IF "STOP" \in bits THEN {{"STOP"}} ELSE {}
<1> DEFINE rows == Rows(TxLookup, s, bits)
<1>1. DOMAIN TxLookup = 1 .. 6
  BY DEF TxLookup
<1>2. /\ 1 \in rows <=> s = "IDLE" /\ "START" \in bits
      /\ 2 \in rows <=> s = "TX_RUN" /\ "STOP" \in bits
      /\ 3 \in rows <=> s = "TX_PAUSE" /\ "STOP" \in bits
      /\ 4 \in rows <=> s = "TX_DONE" /\ "STOP" \in bits
      /\ 5 \in rows <=> s = "TX_PAUSE" /\ "RESUME" \in bits
      /\ 6 \in rows <=> s = "TX_RUN"
  BY <1>1 DEF Rows, TxLookup, Row, PollRow
<1>3. /\ TxLookup[1].event = {"START"} /\ TxLookup[2].event = {"STOP"}
      /\ TxLookup[3].event = {"STOP"} /\ TxLookup[4].event = {"STOP"}
      /\ TxLookup[5].event = {"RESUME"} /\ TxLookup[6].event = {}
  BY DEF TxLookup, Row, PollRow
<1>4. rows \subseteq 1 .. 6
  BY <1>1 DEF Rows
<1>5. /\ rows = {} => row = {}
      /\ \A k \in rows : (\A q \in rows : k <= q) => row = {TxLookup[k].event}
  BY <1>4, FirstRow
<1> HIDE DEF rows
<1>6. /\ 1 \in rows => row = {{"START"}}
      /\ 2 \in rows => row = {{"STOP"}}
      /\ 3 \in rows => row = {{"STOP"}}
      /\ 4 \in rows => row = {{"STOP"}}
      /\ 5 \in rows /\ 3 \notin rows => row = {{"RESUME"}}
      /\ 6 \in rows /\ 2 \notin rows => row = {{}}
  <2>1. ASSUME NEW k \in rows, \A j \in 1 .. 6 : j \in rows => k <= j
        PROVE  row = {TxLookup[k].event}
    BY <1>4, <1>5, <2>1
  <2>2. 1 \in rows => \A j \in 1 .. 6 : j \in rows => 1 <= j
    OBVIOUS
  <2>3. 2 \in rows => \A j \in 1 .. 6 : j \in rows => 2 <= j
    BY <1>2
  <2>4. 3 \in rows => \A j \in 1 .. 6 : j \in rows => 3 <= j
    BY <1>2
  <2>5. 4 \in rows => \A j \in 1 .. 6 : j \in rows => 4 <= j
    BY <1>2
  <2>6. 5 \in rows /\ 3 \notin rows => \A j \in 1 .. 6 : j \in rows => 5 <= j
    BY <1>2
  <2>7. 6 \in rows /\ 2 \notin rows => \A j \in 1 .. 6 : j \in rows => 6 <= j
    BY <1>2
  <2> QED BY <1>3, <2>1, <2>2, <2>3, <2>4, <2>5, <2>6, <2>7
<1>7. (\A j \in 1 .. 6 : j \notin rows) => row = {}
  BY <1>4, <1>5
<1>8. (\A j \in {1, 2, 3, 4, 5, 6} : j \notin rows) => row = {}
  BY <1>7
<1> QED BY <1>2, <1>6, <1>8

(* A decoder's table: the kinds differ in the order of SEEK and RESUME.    *)
IsDecoderTable(table, seekRun, seekPause, resume) ==
  /\ DOMAIN table = 1 .. 8
  /\ {seekRun, seekPause, resume} = {5, 6, 7}
  /\ \A s, bits :
       /\ 1 \in Rows(table, s, bits) <=> s = "IDLE" /\ "START" \in bits
       /\ 2 \in Rows(table, s, bits) <=> s = "RUN" /\ "STOP" \in bits
       /\ 3 \in Rows(table, s, bits) <=> s = "PAUSE" /\ "STOP" \in bits
       /\ 4 \in Rows(table, s, bits) <=> s = "RUN" /\ "PAUSE" \in bits
       /\ seekRun \in Rows(table, s, bits) <=> s = "RUN" /\ "SEEK" \in bits
       /\ seekPause \in Rows(table, s, bits) <=> s = "PAUSE" /\ "SEEK" \in bits
       /\ resume \in Rows(table, s, bits) <=> s = "PAUSE" /\ "RESUME" \in bits
       /\ 8 \in Rows(table, s, bits) <=> s = "RUN"
  /\ table[1].event = {"START"} /\ table[2].event = {"STOP"} /\ table[3].event = {"STOP"}
  /\ table[4].event = {"PAUSE"} /\ table[seekRun].event = {"SEEK"}
  /\ table[seekPause].event = {"SEEK"} /\ table[resume].event = {"RESUME"} /\ table[8].event = {}

(* The tables of both decoders, with the rows of SEEK and RESUME where each*)
(* has them.                                                               *)
LEMMA DecoderTables ==
  IsDecoderTable(Mp3Lookup, 5, 6, 7) /\ IsDecoderTable(AacLookup, 6, 7, 5)
<1>1. IsDecoderTable(Mp3Lookup, 5, 6, 7)
  <2>1. DOMAIN Mp3Lookup = 1 .. 8
    BY DEF Mp3Lookup
  <2> QED BY <2>1 DEF IsDecoderTable, Rows, Mp3Lookup, Row, PollRow
<1>2. IsDecoderTable(AacLookup, 6, 7, 5)
  <2>1. DOMAIN AacLookup = 1 .. 8
    BY DEF AacLookup
  <2> QED BY <2>1 DEF IsDecoderTable, Rows, AacLookup, Row, PollRow
<1> QED BY <1>1, <1>2

(* What a decoder runs for a set of bits.                                  *)
LEMMA DecRow ==
  ASSUME NEW s, NEW bits, NEW row, row = RowEvent(DecLookup, s, bits)
  PROVE  /\ s = "IDLE" => row = IF "START" \in bits THEN {{"START"}} ELSE {}
         /\ s = "RUN" => row = IF "STOP" \in bits THEN {{"STOP"}}
                               ELSE IF "PAUSE" \in bits THEN {{"PAUSE"}}
                               ELSE IF "SEEK" \in bits THEN {{"SEEK"}} ELSE {{}}
         /\ s = "PAUSE" /\ "STOP" \in bits => row = {{"STOP"}}
         /\ s = "PAUSE" /\ "STOP" \notin bits =>
              \/ row = {}
              \/ row = {{"SEEK"}} /\ "SEEK" \in bits
              \/ row = {{"RESUME"}} /\ "RESUME" \in bits
<1>1. PICK sr \in 5 .. 7, sp \in 5 .. 7, re \in 5 .. 7 : IsDecoderTable(DecLookup, sr, sp, re)
  BY DecoderTables DEF DecLookup
<1> DEFINE rows == Rows(DecLookup, s, bits)
<1>2. /\ 1 \in rows <=> s = "IDLE" /\ "START" \in bits
      /\ 2 \in rows <=> s = "RUN" /\ "STOP" \in bits
      /\ 3 \in rows <=> s = "PAUSE" /\ "STOP" \in bits
      /\ 4 \in rows <=> s = "RUN" /\ "PAUSE" \in bits
      /\ sr \in rows <=> s = "RUN" /\ "SEEK" \in bits
      /\ sp \in rows <=> s = "PAUSE" /\ "SEEK" \in bits
      /\ re \in rows <=> s = "PAUSE" /\ "RESUME" \in bits
      /\ 8 \in rows <=> s = "RUN"
  BY <1>1 DEF IsDecoderTable
<1>3. /\ DecLookup[1].event = {"START"} /\ DecLookup[2].event = {"STOP"}
      /\ DecLookup[3].event = {"STOP"} /\ DecLookup[4].event = {"PAUSE"}
      /\ DecLookup[sr].event = {"SEEK"} /\ DecLookup[sp].event = {"SEEK"}
      /\ DecLookup[re].event = {"RESUME"} /\ DecLookup[8].event = {}
  BY <1>1 DEF IsDecoderTable
<1>4. rows \subseteq 1 .. 8 /\ {sr, sp, re} = {5, 6, 7}
  BY <1>1 DEF IsDecoderTable, Rows
<1>5. /\ rows = {} => row = {}
      /\ \A k \in rows : (\A q \in rows : k <= q) => row = {DecLookup[k].event}
  BY <1>4, FirstRow
<1> HIDE DEF rows
<1>6. rows \subseteq {1, 2, 3, 4, sr, sp, re, 8}
  BY <1>4
<1>7. CASE s = "IDLE"
  <2>1. rows \subseteq {1}
    BY <1>2, <1>6, <1>7
  <2>2. CASE 1 \in rows
    <3>1. \A q \in rows : 1 <= q
      BY <2>1
    <3> QED BY <1>2, <1>3, <1>5, <1>7, <2>2, <3>1
  <2>3. CASE 1 \notin rows
    BY <1>2, <1>5, <1>7, <2>1, <2>3
  <2> QED BY <2>2, <2>3
<1>8. CASE s = "RUN"
  <2>1. rows \subseteq {2, 4, sr, 8} /\ 8 \in rows
    BY <1>2, <1>6, <1>8
  <2>2. CASE "STOP" \in bits
    <3>1. 2 \in rows /\ \A q \in rows : 2 <= q
      BY <1>2, <1>8, <2>1, <2>2
    <3> QED BY <1>3, <1>5, <1>8, <2>2, <3>1
  <2>3. CASE "STOP" \notin bits /\ "PAUSE" \in bits
    <3>1. 4 \in rows /\ 2 \notin rows
      BY <1>2, <1>8, <2>3
    <3>2. \A q \in rows : 4 <= q
      BY <2>1, <3>1
    <3> QED BY <1>3, <1>5, <1>8, <2>3, <3>1, <3>2
  <2>4. CASE "STOP" \notin bits /\ "PAUSE" \notin bits /\ "SEEK" \in bits
    <3>1. sr \in rows /\ rows \subseteq {sr, 8}
      BY <1>2, <1>8, <2>1, <2>4
    <3>2. \A q \in rows : sr <= q
      BY <3>1
    <3> QED BY <1>3, <1>5, <1>8, <2>4, <3>1, <3>2
  <2>5. CASE "STOP" \notin bits /\ "PAUSE" \notin bits /\ "SEEK" \notin bits
    <3>1. 8 \in rows /\ \A q \in rows : 8 <= q
      BY <1>2, <1>8, <2>1, <2>5
    <3> QED BY <1>3, <1>5, <1>8, <2>5, <3>1
  <2> QED BY <2>2, <2>3, <2>4, <2>5
<1>9. CASE s = "PAUSE" /\ "STOP" \in bits
  <2>1. 3 \in rows /\ rows \subseteq {3, sp, re}
    BY <1>2, <1>6, <1>9
  <2>2. \A q \in rows : 3 <= q
    BY <2>1
  <2> QED BY <1>3, <1>5, <1>9, <2>1, <2>2
<1>10. CASE s = "PAUSE" /\ "STOP" \notin bits
  <2>1. rows \subseteq {sp, re}
    BY <1>2, <1>6, <1>10
  <2>2. CASE rows = {}
    BY <1>5, <1>10, <2>2
  <2>3. CASE sp \in rows /\ (sp <= re \/ re \notin rows)
    <3>1. \A q \in rows : sp <= q
      BY <2>1, <2>3
    <3> QED BY <1>2, <1>3, <1>5, <1>10, <2>3, <3>1
  <2>4. CASE re \in rows /\ (re <= sp \/ sp \notin rows)
    <3>1. \A q \in rows : re <= q
      BY <2>1, <2>4
    <3> QED BY <1>2, <1>3, <1>5, <1>10, <2>4, <3>1
  <2> QED BY <2>1, <2>2, <2>3, <2>4
<1> QED BY <1>7, <1>8, <1>9, <1>10
-----------------------------------------------------------------------------
Inv == TxInv /\ CodecInv /\ DecInv /\ PollInv /\ TailInv

(* RESUME comes and goes without the player.                               *)
LEMMA ResumesKeep ==
  ASSUME TxInv, CodecInv, UNCHANGED <<ctlVars, txVars>>,
         txPending' \in {txPending, txPending \cup {"RESUME"}},
         txAcks' \in {txAcks, txAcks \ {"RESUME"}}
  PROVE  TxInv' /\ CodecInv'
<1> USE DEF ctlVars, fields, track, txVars, TxPosted, InRequest
<1>1. \A e \in {"START", "STOP"} :
        (e \in txPending' <=> e \in txPending) /\ (e \in txAcks' <=> e \in txAcks)
  OBVIOUS
<1>2. UNCHANGED <<player, ctl, holder, txState, txPc, txTaken>>
  OBVIOUS
<1>3. TxInv'
  BY <1>1, <1>2 DEF TxInv
<1>4. CodecInv'
  BY <1>1, <1>2 DEF CodecInv
<1> QED BY <1>3, <1>4

(* A row that ends takes its bits with it.                                 *)
LEMMA DecReturnsWith ==
  ASSUME TypeOK, NEW s, DecReturns(s)
  PROVE  /\ decState' = s /\ decPc' = "wait" /\ decTaken' = {} /\ decPending' = decPending
         /\ "STOP" \in decAcks' <=> "STOP" \in decAcks \/ "STOP" \in decTaken
BY DEF DecReturns, TypeOK

(* Which of the decoder's rows runs says what was posted.                  *)
LEMMA DecHandled ==
  ASSUME TypeOK, DecInv, NEW row, DecHandles(row)
  PROVE  /\ decPc = "handle"
         /\ row = {{"START"}} => "START" \in decTaken /\ decState = "IDLE"
         /\ row = {{"STOP"}} => "STOP" \in decTaken /\ decState # "IDLE"
         /\ row = {} \/ row = {{}} \/ row = {{"PAUSE"}} \/ row = {{"RESUME"}} \/ row = {{"SEEK"}}
              => "START" \notin decTaken /\ "STOP" \notin decTaken
         /\ row = {{"PAUSE"}} => decState = "RUN"
         /\ row = {{"RESUME"}} => decState = "PAUSE" /\ "RESUME" \in decTaken
         /\ row = {{}} => decState = "RUN" /\ decTaken \subseteq {"RESUME"}
<1>1. decPc = "handle" /\ row = RowEvent(DecLookup, decState, decTaken)
  BY DEF DecHandles
<1>2. /\ decState \in {"IDLE", "RUN", "PAUSE"} /\ decTaken \subseteq DecEvents
      /\ "START" \in decTaken => decState = "IDLE"
      /\ "STOP" \in decTaken /\ decState = "IDLE" => "START" \in decTaken
  BY <1>1 DEF TypeOK, DecInv, DecPosted
<1>3. /\ {"START"} # {"STOP"} /\ {"START"} # {"PAUSE"} /\ {"START"} # {"RESUME"}
      /\ {"START"} # {} /\ {"STOP"} # {"PAUSE"} /\ {"STOP"} # {"RESUME"} /\ {"STOP"} # {}
      /\ {"START"} # {"SEEK"} /\ {"STOP"} # {"SEEK"} /\ {"PAUSE"} # {"SEEK"} /\ {"RESUME"} # {"SEEK"}
      /\ {"SEEK"} # {} /\ {"PAUSE"} # {"RESUME"} /\ {"PAUSE"} # {} /\ {"RESUME"} # {}
  OBVIOUS
<1>4. CASE decState = "IDLE"
  <2>1. row = IF "START" \in decTaken THEN {{"START"}} ELSE {}
    BY <1>1, <1>4, DecRow
  <2> QED BY <1>1, <1>2, <1>3, <1>4, <2>1
<1>5. CASE decState = "RUN"
  <2>1. row = IF "STOP" \in decTaken THEN {{"STOP"}}
              ELSE IF "PAUSE" \in decTaken THEN {{"PAUSE"}}
              ELSE IF "SEEK" \in decTaken THEN {{"SEEK"}} ELSE {{}}
    BY <1>1, <1>5, DecRow
  <2>2. row = {{}} => decTaken \subseteq {"RESUME"}
    BY <1>2, <1>3, <1>5, <2>1 DEF DecEvents
  <2>3. "STOP" \in decTaken <=> row = {{"STOP"}}
    BY <1>3, <2>1
  <2>4. row # {{"START"}} /\ row # {{"RESUME"}}
    BY <1>3, <2>1
  <2> QED BY <1>1, <1>2, <1>5, <2>2, <2>3, <2>4
<1>6. CASE decState = "PAUSE"
  <2>1. "STOP" \in decTaken => row = {{"STOP"}}
    BY <1>1, <1>6, DecRow
  <2>2. "STOP" \notin decTaken =>
          \/ row = {}
          \/ row = {{"SEEK"}} /\ "SEEK" \in decTaken
          \/ row = {{"RESUME"}} /\ "RESUME" \in decTaken
    BY <1>1, <1>6, DecRow
  <2>3. row # {{"START"}} /\ row # {{}} /\ row # {{"PAUSE"}}
    BY <1>3, <2>1, <2>2
  <2>4. "STOP" \in decTaken <=> row = {{"STOP"}}
    BY <1>3, <2>1, <2>2
  <2>5. row = {{"RESUME"}} => "RESUME" \in decTaken
    BY <1>3, <2>1, <2>2
  <2>6. "START" \notin decTaken
    BY <1>2, <1>6
  <2>7. row \in {{}, {{}}, {{"PAUSE"}}, {{"RESUME"}}, {{"SEEK"}}} => row # {{"STOP"}}
    BY <1>3
  <2>8. row \in {{}, {{}}, {{"PAUSE"}}, {{"RESUME"}}, {{"SEEK"}}} => "STOP" \notin decTaken
    BY <2>4, <2>7
  <2>9. decState # "IDLE" /\ decState # "RUN"
    BY <1>6
  <2> QED BY <1>1, <1>6, <2>3, <2>4, <2>5, <2>6, <2>8, <2>9
<1> QED BY <1>2, <1>4, <1>5, <1>6

(* START, STOP and the rows that change the decoder's state.               *)
LEMMA DecRowsKeep ==
  ASSUME IInv
  PROVE  DecTakes \/ DecStartsOrStops \/ DecPausesOrResumes \/ DecSeeks
           => DecInv' /\ PollInv' /\ TailInv'
<1> USE DEF IInv, ctlVars, fields, track, shared, txVars, txBits, decWork, decData, decBits,
            DecPosted, Overtaken
<1>1. CASE DecTakes
  <2>1. /\ decPc = "wait" /\ decPc' = "handle" /\ decTaken = {}
        /\ decTaken' = decPending /\ decPending' = {}
        /\ UNCHANGED <<ctlVars, shared, txVars, txBits, decState, decoded, decData, decAcks>>
    BY <1>1 DEF DecTakes, DecInv
  <2>2. DecInv'
    BY <2>1 DEF DecInv
  <2>3. PollInv'
    BY <2>1 DEF PollInv
  <2>4. TailInv'
    BY <2>1 DEF TailInv
  <2> QED BY <2>2, <2>3, <2>4
<1>2. CASE DecStartsOrStops
  <2>1. /\ decPc = "handle"
        /\ \/ /\ "START" \in decTaken /\ decState = "IDLE" /\ DecReturns("RUN")
           \/ /\ "STOP" \in decTaken /\ decState # "IDLE" /\ DecReturns("IDLE")
        /\ stream' = "need" /\ left' = 0
        /\ UNCHANGED <<ctlVars, shared, txVars, txBits, unread, input_done, output_done>>
    <3>1. DecHandles({{"START"}}) => decPc = "handle" /\ "START" \in decTaken /\ decState = "IDLE"
      BY DecHandled
    <3>2. DecHandles({{"STOP"}}) => decPc = "handle" /\ "STOP" \in decTaken /\ decState # "IDLE"
      BY DecHandled
    <3> QED BY <1>2, <3>1, <3>2 DEF DecStartsOrStops
  <2>2. DecInv'
    <3>1. CASE "START" \in decTaken /\ decState = "IDLE" /\ DecReturns("RUN")
      <4>1. /\ decState' = "RUN" /\ decPc' = "wait" /\ decTaken' = {} /\ decPending' = decPending
            /\ "STOP" \notin decAcks'
        BY <2>1, <3>1, DecReturnsWith DEF DecInv
      <4> QED BY <2>1, <3>1, <4>1 DEF DecInv
    <3>2. CASE "STOP" \in decTaken /\ decState # "IDLE" /\ DecReturns("IDLE")
      <4>1. /\ decState' = "IDLE" /\ decPc' = "wait" /\ decTaken' = {} /\ decPending' = decPending
            /\ "STOP" \in decAcks' /\ "STOP" \notin decPending
        BY <2>1, <3>2, DecReturnsWith DEF DecInv
      <4> QED BY <2>1, <3>2, <4>1 DEF DecInv
    <3> QED BY <2>1, <3>1, <3>2
  <2>3. PollInv'
    BY <2>1, DecReturnsWith DEF PollInv
  <2>4. txState = "IDLE" /\ txPc # "done?"
    BY <2>1 DEF DecInv, CodecInv, TxInv, InRequest
  <2>5. TailInv'
    BY <2>1, <2>4 DEF TailInv
  <2> QED BY <2>2, <2>3, <2>5
<1>3. CASE DecPausesOrResumes
  <2>1. /\ decPc = "handle"
        /\ \/ /\ decState = "RUN" /\ DecReturns("PAUSE")
           \/ /\ decState = "PAUSE" /\ "RESUME" \in decTaken /\ DecReturns("RUN")
           \/ DecReturns(decState)
        /\ "START" \notin decTaken /\ "STOP" \notin decTaken
        /\ UNCHANGED <<ctlVars, shared, txVars, txBits, decData>>
    <3>1. CASE DecHandles({{"PAUSE"}}) /\ DecReturns("PAUSE")
      <4>1. decPc = "handle" /\ decState = "RUN" /\ "START" \notin decTaken /\ "STOP" \notin decTaken
        BY <3>1, DecHandled
      <4> QED BY <1>3, <3>1, <4>1 DEF DecPausesOrResumes
    <3>2. CASE DecHandles({{"RESUME"}}) /\ DecReturns("RUN")
      <4>1. /\ decPc = "handle" /\ decState = "PAUSE" /\ "RESUME" \in decTaken
            /\ "START" \notin decTaken /\ "STOP" \notin decTaken
        BY <3>2, DecHandled
      <4> QED BY <1>3, <3>2, <4>1 DEF DecPausesOrResumes
    <3>3. CASE DecHandles({}) /\ DecReturns(decState)
      <4>1. decPc = "handle" /\ "START" \notin decTaken /\ "STOP" \notin decTaken
        BY <3>3, DecHandled
      <4> QED BY <1>3, <3>3, <4>1 DEF DecPausesOrResumes
    <3> QED BY <1>3, <3>1, <3>2, <3>3 DEF DecPausesOrResumes
  <2>2. DecInv'
    BY <2>1, DecReturnsWith DEF DecInv
  <2>3. PollInv'
    BY <2>1, DecReturnsWith DEF PollInv
  <2>4. TailInv'
    BY <2>1, DecReturnsWith DEF TailInv
  <2> QED BY <2>2, <2>3, <2>4
<1>4. CASE DecSeeks
  <2>1. /\ decPc = "handle" /\ left' = 0 /\ DecReturns(decState)
        /\ "START" \notin decTaken /\ "STOP" \notin decTaken
        /\ UNCHANGED <<ctlVars, shared, txVars, txBits, stream, input_done, output_done>>
    <3>1. DecHandles({{"SEEK"}})
      BY <1>4 DEF DecSeeks
    <3>2. decPc = "handle" /\ "START" \notin decTaken /\ "STOP" \notin decTaken
      BY <3>1, DecHandled
    <3> QED BY <1>4, <3>2 DEF DecSeeks
  <2>2. DecInv'
    BY <2>1, DecReturnsWith DEF DecInv
  <2>3. PollInv'
    BY <2>1, DecReturnsWith DEF PollInv
  <2>4. TailInv'
    BY <2>1, DecReturnsWith DEF TailInv
  <2> QED BY <2>2, <2>3, <2>4
<1> QED BY <1>1, <1>2, <1>3, <1>4

(* While it polls, the decoder has been started and not stopped.           *)
LEMMA Working ==
  ASSUME TypeOK, DecInv, decPc \notin {"gone", "wait", "handle"}
  PROVE  /\ decState = "RUN" /\ "START" \notin DecPosted /\ "STOP" \notin decTaken \cup decAcks
         /\ decTaken \subseteq {"RESUME"}
BY DEF DecInv, DecPosted

(* The poll up to the input: what is left goes to the ring.                *)
LEMMA OutputKeeps ==
  ASSUME IInv
  PROVE  DecPolls \/ DecGivesUp \/ DecOutputs \/ DecNotifies \/ DecAcked \/ DecExpires \/ DecOutputEnds
           => DecInv' /\ PollInv' /\ TailInv'
<1> USE DEF IInv, ctlVars, fields, track, shared, txVars, txBits, decWork, decData, decBits,
            DecPosted, Overtaken
<1>1. CASE DecPolls
  <2>1. /\ decPc = "handle" /\ decState = "RUN" /\ decTaken \subseteq {"RESUME"}
        /\ decPc' = "output"
        /\ UNCHANGED <<ctlVars, shared, txVars, txBits, decState, decTaken, decoded, decData,
                       decBits>>
    <3>1. DecHandles({{}})
      BY <1>1 DEF DecPolls
    <3>2. decPc = "handle" /\ decState = "RUN" /\ decTaken \subseteq {"RESUME"}
      BY <3>1, DecHandled
    <3> QED BY <1>1, <3>2 DEF DecPolls
  <2>2. DecInv'
    BY <2>1 DEF DecInv
  <2>3. PollInv'
    BY <2>1 DEF PollInv
  <2>4. TailInv'
    BY <2>1 DEF TailInv
  <2> QED BY <2>2, <2>3, <2>4
<1>2. CASE DecGivesUp
  <2>1. /\ decPc = "handle" /\ decState = "RUN" /\ decTaken \subseteq {"RESUME"} /\ left = 0
        /\ failed' = TRUE /\ input_done' = TRUE /\ events' = events \cup {"EXIT"}
        /\ decPc' = "output"
        /\ UNCHANGED <<ctlVars, consumed, ring, txVars, txBits, decState, decTaken, decoded,
                       stream, left, unread, output_done, decBits>>
    <3>1. DecHandles({{}})
      BY <1>2 DEF DecGivesUp
    <3>2. decPc = "handle" /\ decState = "RUN" /\ decTaken \subseteq {"RESUME"}
      BY <3>1, DecHandled
    <3> QED BY <1>2, <3>2 DEF DecGivesUp
  <2>2. DecInv'
    BY <2>1 DEF DecInv
  <2>3. PollInv'
    BY <2>1 DEF PollInv
  <2>4. TailInv'
    BY <2>1 DEF TailInv
  <2> QED BY <2>2, <2>3, <2>4
<1>3. CASE DecOutputs
  <2>1. /\ decPc = "output" /\ left > 0 /\ decPc' = "notify"
        /\ UNCHANGED <<ctlVars, failed, events, consumed, txVars, txBits, decState, decTaken, decoded,
                       stream, unread, input_done, output_done, decBits>>
    BY <1>3 DEF DecOutputs
  <2>2. ~output_done /\ (codec = "mp3" => stream = "spent" /\ (failed \/ ~input_done))
    BY <2>1 DEF PollInv
  <2>3. DecInv'
    BY <2>1 DEF DecInv
  <2>4. PollInv'
    BY <2>1, <2>2 DEF PollInv
  <2>5. txState # "TX_DONE"
    BY <2>2 DEF TailInv
  <2>6. TailInv'
    BY <2>1, <2>2, <2>5 DEF TailInv
  <2> QED BY <2>3, <2>4, <2>6
<1>4. CASE DecNotifies
  <2>1. /\ decPc = "notify" /\ decPc' \in {"await", "pushed"}
        /\ events' \in {events, events \cup {"DECODER"}}
        /\ UNCHANGED <<ctlVars, failed, consumed, ring, txVars, txAcks, decState, decTaken, decoded,
                       decData, decBits>>
    BY <1>4 DEF DecNotifies
  <2>2. DecInv'
    BY <2>1, Working DEF DecInv
  <2>3. PollInv'
    BY <2>1 DEF PollInv
  <2>4. TailInv'
    BY <2>1 DEF TailInv
  <2> QED BY <2>2, <2>3, <2>4
<1>5. CASE DecAcked \/ DecExpires
  <2>1. /\ decPc = "await" /\ decPc' = "pushed"
        /\ UNCHANGED <<ctlVars, shared, txVars, txPending, decState, decTaken, decoded, decData,
                       decBits>>
    BY <1>5 DEF DecAcked, DecExpires
  <2>2. DecInv'
    BY <2>1 DEF DecInv
  <2>3. PollInv'
    BY <2>1 DEF PollInv
  <2>4. TailInv'
    BY <2>1 DEF TailInv
  <2> QED BY <2>2, <2>3, <2>4
<1>6. CASE DecOutputEnds
  <2>1. /\ decPc \in {"pushed", "output"}
        /\ decPc = "output" => left = 0
        /\ UNCHANGED <<ctlVars, shared, txVars, txBits, decData>>
    BY <1>6 DEF DecOutputEnds
  <2>2. CASE left = 0 /\ decPc' = "input" /\ UNCHANGED <<decState, decTaken, decoded, decBits>>
    <3>1. DecInv'
      BY <2>1, <2>2 DEF DecInv
    <3>2. PollInv'
      BY <2>1, <2>2 DEF PollInv
    <3>3. TailInv'
      BY <2>1, <2>2 DEF TailInv, PollInv
    <3> QED BY <3>1, <3>2, <3>3
  <2>3. CASE (left > 0 /\ DecReturns("PAUSE")) \/ DecReturns("RUN")
    <3>1. /\ decState' \in {"RUN", "PAUSE"} /\ decPc' = "wait" /\ decTaken' = {}
          /\ decPending' = decPending /\ "STOP" \notin decAcks'
          /\ decState' = "RUN" \/ left > 0
      BY <2>1, <2>3, DecReturnsWith, Working
    <3>2. DecInv'
      BY <2>1, <3>1, Working DEF DecInv
    <3>3. PollInv'
      BY <2>1, <3>1 DEF PollInv
    <3>4. TailInv'
      BY <2>1, <3>1, Working DEF TailInv, PollInv
    <3> QED BY <3>2, <3>3, <3>4
  <2> QED BY <1>6, <2>2, <2>3 DEF DecOutputEnds, OutputDone
<1> QED BY <1>1, <1>2, <1>3, <1>4, <1>5, <1>6

(* The poll from the input on: a frame follows only on one that is spent,  *)
(* and the end of the input on none.                                       *)
LEMMA InputKeeps ==
  ASSUME IInv
  PROVE  DecFinishes \/ DecReads \/ DecReadsNothing \/ AacLastSample \/ DecDecodes \/ AacDecodes
           => DecInv' /\ PollInv' /\ TailInv'
<1> USE DEF IInv, ctlVars, fields, track, shared, txVars, txBits, decWork, decData, decBits,
            DecPosted, Overtaken
<1>1. ASSUME NEW s \in {"RUN", "PAUSE"}, DecReturns(s), decPc \in {"input", "decode"}
      PROVE  /\ decState' = s /\ decPc' = "wait" /\ decTaken' = {}
             /\ decPending' = decPending /\ "STOP" \notin decAcks'
  BY <1>1, DecReturnsWith, Working
<1>2. CASE DecFinishes
  <2>1. /\ decPc = "input" /\ stream = "need" /\ input_done /\ output_done' = TRUE
        /\ decState' = "PAUSE" /\ decPc' = "wait" /\ decTaken' = {}
        /\ decPending' = decPending /\ "STOP" \notin decAcks'
        /\ UNCHANGED <<ctlVars, shared, txVars, txBits, stream, left, unread, input_done>>
    BY <1>1, <1>2 DEF DecFinishes
  <2>2. DecInv'
    BY <2>1, Working DEF DecInv
  <2>3. PollInv'
    BY <2>1 DEF PollInv
  <2>4. ~Overtaken
    BY <2>1, Working DEF TailInv
  <2>5. TailInv'
    BY <2>1, <2>4 DEF TailInv
  <2> QED BY <2>2, <2>3, <2>5
<1>3. CASE DecReads
  <2>1. /\ decPc = "input" /\ decPc' = "decode"
        /\ \/ stream # "need" /\ stream' = stream
           \/ stream = "need" /\ ~input_done /\ stream' = "frame"
        /\ UNCHANGED <<ctlVars, shared, txVars, txBits, decState, decTaken, decoded,
                       left, input_done, output_done, decBits>>
    BY <1>3 DEF DecReads
  <2>2. DecInv'
    BY <2>1 DEF DecInv
  <2>3. PollInv'
    BY <2>1 DEF PollInv
  <2>4. TailInv'
    BY <2>1 DEF TailInv
  <2> QED BY <2>2, <2>3, <2>4
<1>4. CASE DecReadsNothing
  <2>1. /\ decPc = "input" /\ stream = "need" /\ input_done' = TRUE
        /\ events' \in {events, events \cup {"EXIT"}} /\ (failed' = TRUE \/ failed' = failed)
        /\ decState' = "PAUSE" /\ decPc' = "wait" /\ decTaken' = {}
        /\ decPending' = decPending /\ "STOP" \notin decAcks'
        /\ UNCHANGED <<ctlVars, consumed, ring, txVars, txBits, stream, left, unread, output_done>>
    BY <1>1, <1>4 DEF DecReadsNothing
  <2>2. DecInv'
    BY <2>1, Working DEF DecInv
  <2>3. PollInv'
    BY <2>1 DEF PollInv
  <2>4. TailInv'
    BY <2>1, Working DEF TailInv
  <2> QED BY <2>2, <2>3, <2>4
<1>5. CASE AacLastSample
  <2>1. /\ decPc = "input" /\ decPc' = "decode" /\ codec # "mp3" /\ ~input_done
        /\ events' \in {events, events \cup {"EXIT"}} /\ (failed' = TRUE \/ failed' = failed)
        /\ UNCHANGED <<ctlVars, consumed, ring, txVars, txBits, decState, decTaken, decoded,
                       left, output_done, decBits>>
    BY <1>5 DEF AacLastSample
  <2>2. DecInv'
    BY <2>1 DEF DecInv
  <2>3. PollInv'
    BY <2>1 DEF PollInv
  <2>4. TailInv'
    BY <2>1 DEF TailInv
  <2> QED BY <2>2, <2>3, <2>4
<1>6. CASE DecDecodes \/ AacDecodes
  <2>1. /\ decPc = "decode" /\ ~output_done /\ left = 0
        /\ codec = "mp3" /\ ~failed => ~input_done
        /\ UNCHANGED <<ctlVars, shared, txVars, txBits, unread, input_done, output_done>>
    BY <1>6 DEF DecDecodes, AacDecodes, PollInv
  <2>2. CASE /\ left' = FrameSize /\ decPc' = "output" /\ (codec = "mp3" => stream' = "spent")
             /\ UNCHANGED <<decState, decTaken, decBits>>
    <3>1. DecInv'
      BY <2>1, <2>2 DEF DecInv
    <3>2. PollInv'
      BY <2>1, <2>2 DEF PollInv
    <3>3. TailInv'
      BY <2>1, <2>2 DEF TailInv
    <3> QED BY <3>1, <3>2, <3>3
  <2>3. CASE (DecReturns("RUN") \/ DecReturns("PAUSE")) /\ left' = left
    <3>1. /\ decState' \in {"RUN", "PAUSE"} /\ decPc' = "wait" /\ decTaken' = {}
          /\ decPending' = decPending /\ "STOP" \notin decAcks'
      BY <1>1, <2>1, <2>3
    <3>2. DecInv'
      BY <2>1, <3>1, Working DEF DecInv
    <3>3. PollInv'
      BY <2>1, <2>3, <3>1 DEF PollInv
    <3>4. TailInv'
      BY <2>1, <3>1 DEF TailInv
    <3> QED BY <3>2, <3>3, <3>4
  <2>4. \/ /\ left' = FrameSize /\ decPc' = "output" /\ (codec = "mp3" => stream' = "spent")
           /\ UNCHANGED <<decState, decTaken, decBits>>
        \/ (DecReturns("RUN") \/ DecReturns("PAUSE")) /\ left' = left
    BY <1>6 DEF DecDecodes, AacDecodes
  <2> QED BY <2>2, <2>3, <2>4
<1> QED BY <1>2, <1>3, <1>4, <1>5, <1>6
-----------------------------------------------------------------------------
(* Which of the pcm worker's rows runs.                                    *)
LEMMA TxHandled ==
  ASSUME TypeOK, TxInv, CodecInv, NEW row, TxHandles(row)
  PROVE  /\ txPc = "handle"
         /\ row = {{"START"}} => "START" \in txTaken /\ txState = "IDLE"
         /\ row = {{"STOP"}} => "STOP" \in txTaken /\ txState # "IDLE"
         /\ row = {} \/ row = {{}} \/ row = {{"RESUME"}}
              => "START" \notin txTaken /\ "STOP" \notin txTaken
         /\ row = {{"RESUME"}} => txState = "TX_PAUSE"
         /\ row = {{}} => txState = "TX_RUN"
<1>1. txPc = "handle" /\ row = RowEvent(TxLookup, txState, txTaken)
  BY DEF TxHandles
<1>2. /\ txState \in {"IDLE", "TX_RUN", "TX_PAUSE", "TX_DONE"}
      /\ "START" \in txTaken => txState = "IDLE"
      /\ "STOP" \in txTaken => txState # "IDLE"
  BY DEF TypeOK, TxInv, CodecInv, TxPosted
<1>3. /\ {"START"} # {"STOP"} /\ {"START"} # {"RESUME"} /\ {"START"} # {}
      /\ {"STOP"} # {"RESUME"} /\ {"STOP"} # {} /\ {"RESUME"} # {}
  OBVIOUS
<1>4. CASE txState = "IDLE"
  <2>1. row = IF "START" \in txTaken THEN {{"START"}} ELSE {}
    BY <1>1, <1>4, TxRow
  <2> QED BY <1>1, <1>2, <1>3, <1>4, <2>1
<1>5. CASE txState = "TX_RUN"
  <2>1. row = IF "STOP" \in txTaken THEN {{"STOP"}} ELSE {{}}
    BY <1>1, <1>5, TxRow
  <2> QED BY <1>1, <1>2, <1>3, <1>5, <2>1
<1>6. CASE txState = "TX_PAUSE"
  <2>1. row = IF "STOP" \in txTaken THEN {{"STOP"}}
              ELSE IF "RESUME" \in txTaken THEN {{"RESUME"}} ELSE {}
    BY <1>1, <1>6, TxRow
  <2> QED BY <1>1, <1>2, <1>3, <1>6, <2>1
<1>7. CASE txState = "TX_DONE"
  <2>1. row = IF "STOP" \in txTaken THEN {{"STOP"}} ELSE {}
    BY <1>1, <1>7, TxRow
  <2> QED BY <1>1, <1>2, <1>3, <1>7, <2>1
<1> QED BY <1>2, <1>4, <1>5, <1>6, <1>7

(* The pcm worker's rows and its requests.                                 *)
LEMMA TxKeeps ==
  ASSUME IInv
  PROVE  TxStep => Inv'
<1> USE DEF IInv, ctlVars, fields, track, shared, txVars, txBits, decWork, decData, decBits,
            TxPosted, InRequest, Overtaken
<1>1. ASSUME UNCHANGED <<ctlVars, events, decWork, decAcks>>,
             decPending' \in {decPending, decPending \cup {"RESUME"}}
      PROVE  DecInv'
  <2>1. /\ "START" \in decPending' <=> "START" \in decPending
        /\ "STOP" \in decPending' <=> "STOP" \in decPending
    BY <1>1
  <2> QED BY <1>1, <2>1 DEF DecInv, DecPosted
<1>2. ASSUME UNCHANGED <<ctlVars, failed, decWork, decData>>
      PROVE  PollInv'
  BY <1>2 DEF PollInv
<1>3. ASSUME NEW s, TxReturns(s)
      PROVE  /\ txState' = s /\ txPc' = "wait" /\ txTaken' = {} /\ txPending' = txPending
             /\ \A e \in {"START", "STOP"} : e \in txAcks' <=> e \in txAcks \/ e \in txTaken
  BY <1>3 DEF TxReturns
<1>4. CASE TxTakes
  <2>1. /\ txPc = "wait" /\ txTaken = {} /\ txTaken' = txPending /\ txPending' = {}
        /\ txPc' = "handle"
        /\ UNCHANGED <<ctlVars, shared, txState, txCount, txDone, txAcks, decWork, decData, decBits>>
    BY <1>4 DEF TxTakes, TxInv
  <2>2. TxInv'
    BY <2>1 DEF TxInv
  <2>3. CodecInv'
    BY <2>1 DEF CodecInv
  <2>4. DecInv' /\ PollInv'
    BY <1>1, <1>2, <2>1
  <2>5. TailInv'
    BY <2>1 DEF TailInv
  <2> QED BY <2>2, <2>3, <2>4, <2>5 DEF Inv
<1>5. CASE TxActs
  <2>1. /\ txPc = "handle"
        /\ UNCHANGED <<ctlVars, shared, decWork, decData, decBits>>
    BY <1>5 DEF TxActs, TxHandles
  <2>2. CASE TxHandles({{"START"}}) /\ TxReturns("TX_RUN")
    <3>1. "START" \in txTaken /\ txState = "IDLE" /\ "START" \notin txPending /\ "STOP" \notin txTaken
      BY <2>2, TxHandled DEF TxInv
    <3>2. /\ txState' = "TX_RUN" /\ txPc' = "wait" /\ txTaken' = {} /\ txPending' = txPending
          /\ "START" \in txAcks' /\ ("STOP" \in txAcks' <=> "STOP" \in txAcks)
      BY <1>3, <2>2, <3>1
    <3>3. TxInv'
      BY <2>1, <3>1, <3>2 DEF TxInv
    <3>4. CodecInv'
      BY <2>1, <3>1, <3>2 DEF CodecInv, TxInv
    <3>5. TailInv'
      BY <2>1, <3>2 DEF TailInv
    <3> QED BY <1>1, <1>2, <2>1, <3>3, <3>4, <3>5 DEF Inv
  <2>3. CASE TxHandles({{"STOP"}}) /\ TxReturns("IDLE")
    <3>1. "STOP" \in txTaken /\ txState # "IDLE" /\ "STOP" \notin txPending /\ "START" \notin txTaken
      BY <2>3, TxHandled DEF TxInv
    <3>2. /\ txState' = "IDLE" /\ txPc' = "wait" /\ txTaken' = {} /\ txPending' = txPending
          /\ "STOP" \in txAcks' /\ ("START" \in txAcks' <=> "START" \in txAcks)
      BY <1>3, <2>3, <3>1
    <3>3. TxInv'
      BY <2>1, <3>1, <3>2 DEF TxInv
    <3>4. CodecInv'
      BY <2>1, <3>1, <3>2 DEF CodecInv, TxInv
    <3>5. TailInv'
      BY <2>1, <3>2 DEF TailInv
    <3> QED BY <1>1, <1>2, <2>1, <3>3, <3>4, <3>5 DEF Inv
  <2>4. ASSUME "START" \notin txTaken, "STOP" \notin txTaken,
               NEW s, TxReturns(s), s = "IDLE" <=> txState = "IDLE", s = "TX_DONE" => txState = "TX_DONE"
        PROVE  Inv'
    <3>1. /\ txState' = s /\ txPc' = "wait" /\ txTaken' = {} /\ txPending' = txPending
          /\ ("START" \in txAcks' <=> "START" \in txAcks)
          /\ ("STOP" \in txAcks' <=> "STOP" \in txAcks)
      BY <1>3, <2>4
    <3>2. TxInv'
      BY <2>1, <2>4, <3>1 DEF TxInv
    <3>3. CodecInv'
      BY <2>1, <2>4, <3>1 DEF CodecInv
    <3>4. TailInv'
      BY <2>1, <2>4, <3>1 DEF TailInv
    <3> QED BY <1>1, <1>2, <2>1, <3>2, <3>3, <3>4 DEF Inv
  <2>5. CASE TxHandles({{"RESUME"}}) /\ TxReturns("TX_RUN")
    <3>1. txState = "TX_PAUSE" /\ "START" \notin txTaken /\ "STOP" \notin txTaken
      BY <2>5, TxHandled
    <3> QED BY <2>4, <2>5, <3>1
  <2>6. CASE TxHandles({}) /\ TxReturns(txState)
    <3>1. "START" \notin txTaken /\ "STOP" \notin txTaken
      BY <2>6, TxHandled
    <3> QED BY <2>4, <2>6, <3>1
  <2>7. CASE TxHandles({{}}) /\ TxReturns("TX_PAUSE")
    <3>1. txState = "TX_RUN" /\ "START" \notin txTaken /\ "STOP" \notin txTaken
      BY <2>7, TxHandled
    <3> QED BY <2>4, <2>7, <3>1
  <2> QED BY <1>5, <2>2, <2>3, <2>5, <2>6, <2>7 DEF TxActs
<1>6. ASSUME UNCHANGED <<ctlVars, failed, events, txState, txTaken, txBits, decWork, decData, decBits>>,
             txPc' \in {"call", "count", "done?", "pop", "crashed"},
             txState = "TX_RUN", "START" \notin txTaken, "STOP" \notin txTaken, ~Overtaken'
      PROVE  Inv'
  <2>1. TxInv'
    BY <1>6 DEF TxInv
  <2>2. CodecInv'
    BY <1>6 DEF CodecInv
  <2>3. TailInv'
    BY <1>6 DEF TailInv
  <2> QED BY <1>1, <1>2, <1>6, <2>1, <2>2, <2>3 DEF Inv
<1>7. CASE TxPolls
  <2>1. txState = "TX_RUN" /\ "START" \notin txTaken /\ "STOP" \notin txTaken
    <3>1. TxHandles({{}})
      BY <1>7 DEF TxPolls
    <3> QED BY <3>1, TxHandled
  <2> QED BY <1>6, <1>7, <2>1 DEF TxPolls
<1>8. CASE TxCalls \/ TxCounts
  <2>1. txState = "TX_RUN" /\ "START" \notin txTaken /\ "STOP" \notin txTaken
    BY <1>8 DEF TxCalls, TxCounts, TxInv
  <2>2. ~Overtaken'
    BY <1>8 DEF TxCalls, TxCounts, TypeOK
  <2> QED BY <1>6, <1>8, <2>1, <2>2 DEF TxCalls, TxCounts
<1>9. ASSUME txPc \in {"done?", "pop"}, NEW s \in {"TX_RUN", "TX_PAUSE", "TX_DONE"}, TxReturns(s)
      PROVE  /\ txState' = s /\ txPc' = "wait"
             /\ UNCHANGED ctlVars => TxInv' /\ CodecInv'
  <2>1. txState = "TX_RUN" /\ "START" \notin txTaken /\ "STOP" \notin txTaken
    BY <1>9 DEF TxInv
  <2>2. /\ txState' = s /\ txPc' = "wait" /\ txTaken' = {} /\ txPending' = txPending
        /\ ("START" \in txAcks' <=> "START" \in txAcks)
        /\ ("STOP" \in txAcks' <=> "STOP" \in txAcks)
    BY <1>3, <1>9, <2>1
  <2>3. UNCHANGED ctlVars => TxInv'
    BY <2>1, <2>2 DEF TxInv
  <2>4. UNCHANGED ctlVars => CodecInv'
    BY <1>9, <2>1, <2>2 DEF CodecInv
  <2> QED BY <2>2, <2>3, <2>4
<1>10. CASE TxLooksDone
  <2>1. txPc = "done?" /\ UNCHANGED <<ctlVars, shared, decWork, decData, decBits>>
    BY <1>10 DEF TxLooksDone
  <2>2. CASE output_done /\ txCount = 0 /\ TxReturns("TX_DONE")
    <3>1. codec = "mp3" /\ ~failed => ring = 0
      BY <2>1, <2>2 DEF TailInv, TypeOK
    <3>2. TailInv'
      BY <1>9, <2>1, <2>2, <3>1 DEF TailInv
    <3> QED BY <1>1, <1>2, <1>9, <2>1, <2>2, <3>2 DEF Inv
  <2>3. CASE txPc' = "pop" /\ UNCHANGED <<txState, txTaken, txCount, txBits>>
    <3>1. txState = "TX_RUN" /\ "START" \notin txTaken /\ "STOP" \notin txTaken
      BY <2>1 DEF TxInv
    <3> QED BY <1>6, <2>1, <2>3, <3>1
  <2> QED BY <1>10, <2>2, <2>3 DEF TxLooksDone
<1>11. CASE TxPops
  <2>1. /\ txPc = "pop" /\ (TxReturns("TX_RUN") \/ TxReturns("TX_PAUSE"))
        /\ decPending' \in {decPending, decPending \cup {"RESUME"}}
        /\ UNCHANGED <<ctlVars, failed, events, decWork, decData, decAcks>>
    BY <1>11 DEF TxPops
  <2>2. txPc' = "wait" /\ txState' \in {"TX_RUN", "TX_PAUSE"} /\ TxInv' /\ CodecInv'
    BY <1>9, <1>11, <2>1 DEF TxPops
  <2>3. TailInv'
    BY <2>2 DEF TailInv
  <2> QED BY <1>1, <1>2, <2>1, <2>2, <2>3 DEF Inv
<1> QED BY <1>4, <1>5, <1>7, <1>8, <1>10, <1>11 DEF TxStep
-----------------------------------------------------------------------------
(* The player moves on while neither START nor STOP is under way.          *)
LEMMA TxRests ==
  ASSUME TxInv, UNCHANGED txVars, "START" \notin TxPosted, "STOP" \notin TxPosted,
         "START" \notin txPending' \cup txAcks', "STOP" \notin txPending' \cup txAcks'
  PROVE  TxInv'
<1> USE DEF txVars, TxPosted, InRequest
<1> QED BY DEF TxInv

(* A player on its way to the codec posts START.                           *)
LEMMA StartTxKeeps ==
  ASSUME TxInv, CodecInv, StartTx, UNCHANGED <<holder, txVars>>, ~holder,
         ctl \in {"idle", "hear", "decoder", "clear_ring"}
  PROVE  TxInv' /\ CodecInv' /\ ctl' = "start_tx" /\ op' = "none" /\ callback' = TRUE
<1> USE DEF txVars, TxPosted, InRequest
<1>1. /\ ctl' = "start_tx" /\ op' = "none" /\ callback' = TRUE /\ txAcks' = txAcks
      /\ "START" \in txPending' /\ ("STOP" \in txPending' <=> "STOP" \in txPending)
  BY DEF StartTx
<1>2. txState = "IDLE" /\ "START" \notin TxPosted /\ "STOP" \notin TxPosted
  BY DEF TxInv, CodecInv
<1>3. TxInv'
  BY <1>1, <1>2 DEF TxInv
<1>4. CodecInv'
  BY <1>1, <1>2 DEF CodecInv
<1> QED BY <1>1, <1>3, <1>4

(* The player moves on while the decoder is started and not stopped.       *)
LEMMA DecRests ==
  ASSUME TypeOK, DecInv, UNCHANGED <<decWork, converter>>, events' \subseteq events,
         decPc # "gone", "START" \notin DecPosted, "STOP" \notin DecPosted \cup decAcks,
         "START" \notin decPending', "STOP" \notin decPending' \cup decAcks',
         ctl' # "release", ctl' = "idle" => player' # "IDLE"
  PROVE  DecInv'
<1> USE DEF decWork, DecPosted
<1> QED BY DEF DecInv, TypeOK

(* While a call or a player needs the decoder, its thread is there, and no *)
(* START or STOP is left over.                                             *)
LEMMA DecIsUp ==
  ASSUME DecInv, ctl \notin {"idle", "release"} \/ (ctl = "idle" /\ player # "IDLE")
  PROVE  /\ decPc # "gone"
         /\ ctl # "decoder" \/ op # "stop" => "STOP" \notin DecPosted \cup decAcks
         /\ ctl \notin {"hear", "halt", "decoder"} => "START" \notin DecPosted
         /\ holder \/ op # "stop" => "START" \notin DecPosted \/ ctl = "hear"
BY DEF DecInv, DecPosted

(* What a poll of the decoder has counted stays while the decoder rests.   *)
LEMMA PollRests ==
  ASSUME PollInv, UNCHANGED <<decPc, codec, decData>>, failed' = failed \/ failed' = TRUE
  PROVE  PollInv'
BY DEF PollInv, decData

(* A request that is overtaken is a request of a player that has started.  *)
LEMMA TailRests ==
  ASSUME TypeOK, TxInv, TailInv, UNCHANGED txVars,
         \/ txState = "IDLE"
         \/ /\ UNCHANGED <<ring, codec, decWork, decData, decBits>>
            /\ failed' = failed \/ failed' = TRUE
  PROVE  TailInv'
<1> USE DEF txVars, decWork, decData, decBits, Overtaken, DecPosted
<1>1. CASE txState = "IDLE"
  BY <1>1 DEF TailInv, TxInv, InRequest
<1>2. CASE /\ UNCHANGED <<ring, codec, decWork, decData, decBits>>
           /\ failed' = failed \/ failed' = TRUE
  BY <1>2 DEF TailInv
<1> QED BY <1>1, <1>2

(* Hearing, and the ways back to the codec.                                *)
LEMMA StartsKeep ==
  ASSUME IInv
  PROVE  Hears \/ SeekRefused \/ ClearRing \/ Resume => Inv'
<1> USE DEF IInv, ctlVars, fields, track, shared, txBits, decBits, decData, decWork
<1>1. CASE Hears
  <2>1. /\ ctl = "hear" /\ ~holder /\ txState = "IDLE" /\ "DECODER" \in events
        /\ events' = {} /\ StartTx
        /\ UNCHANGED <<player, track, enable, wait_decoder, converter, holder, failed, consumed, ring,
                       txVars, decWork, decData, decBits>>
    BY <1>1 DEF Hears, CodecInv
  <2>2. TxInv' /\ CodecInv' /\ ctl' = "start_tx"
    BY <2>1, StartTxKeeps
  <2>3. /\ decPc # "gone" /\ "START" \notin DecPosted /\ "STOP" \notin DecPosted \cup decAcks
    BY <2>1, DecIsUp DEF DecInv
  <2>4. DecInv'
    BY <2>1, <2>2, <2>3, DecRests DEF DecPosted
  <2>5. PollInv' /\ TailInv'
    BY <2>1, PollRests, TailRests
  <2> QED BY <2>2, <2>4, <2>5 DEF Inv
<1>2. CASE SeekRefused
  <2>1. /\ ctl = "decoder" /\ op = "seek" /\ ~holder /\ txState = "IDLE"
        /\ decAcks' = decAcks \ {"PAUSE"} /\ StartTx
        /\ UNCHANGED <<player, track, wait_decoder, converter, holder, shared, txVars,
                       decWork, decData, decPending>>
    BY <1>2 DEF SeekRefused, CodecInv
  <2>2. TxInv' /\ CodecInv' /\ ctl' = "start_tx"
    BY <2>1, StartTxKeeps
  <2>3. /\ decPc # "gone" /\ "START" \notin DecPosted /\ "STOP" \notin DecPosted \cup decAcks
    BY <2>1, DecIsUp
  <2>4. DecInv'
    BY <2>1, <2>2, <2>3, DecRests DEF DecPosted
  <2>5. PollInv' /\ TailInv'
    BY <2>1, PollRests, TailRests
  <2> QED BY <2>2, <2>4, <2>5 DEF Inv
<1>3. CASE ClearRing
  <2>1. /\ ctl = "clear_ring" /\ ~holder /\ txState = "IDLE" /\ StartTx
        /\ UNCHANGED <<player, track, wait_decoder, converter, holder, failed, events, consumed,
                       txVars, decWork, decData, decBits>>
    BY <1>3 DEF ClearRing, CodecInv
  <2>2. TxInv' /\ CodecInv' /\ ctl' = "start_tx"
    BY <2>1, StartTxKeeps
  <2>3. /\ decPc # "gone" /\ "START" \notin DecPosted /\ "STOP" \notin DecPosted \cup decAcks
    BY <2>1, DecIsUp
  <2>4. DecInv'
    BY <2>1, <2>2, <2>3, DecRests DEF DecPosted
  <2>5. PollInv' /\ TailInv'
    BY <2>1, PollRests, TailRests
  <2> QED BY <2>2, <2>4, <2>5 DEF Inv
<1>4. CASE Resume
  <2>1. /\ ctl = "idle" /\ player = "PAUSE" /\ ~holder /\ txState = "IDLE"
        /\ UNCHANGED <<player, track, wait_decoder, converter, holder, events, consumed, ring,
                       txVars, decWork, decData, decBits>>
        /\ failed' = failed \/ failed' = TRUE
    BY <1>4 DEF Resume, CodecInv
  <2>2. TxInv' /\ CodecInv' /\ ctl' \in {"start_tx", "halt"}
    <3>1. CASE StartTx
      BY <2>1, <3>1, StartTxKeeps
    <3>2. CASE Halt("stop") /\ UNCHANGED <<callback, txBits>>
      <4>1. "START" \notin TxPosted /\ "STOP" \notin TxPosted
        BY <2>1 DEF TxInv
      <4>2. TxInv'
        BY <2>1, <3>2, <4>1, TxRests DEF TxPosted
      <4>3. CodecInv'
        BY <2>1, <3>2 DEF CodecInv, Halt, txVars
      <4> QED BY <3>2, <4>2, <4>3 DEF Halt
    <3> QED BY <1>4, <3>1, <3>2 DEF Resume
  <2>3. /\ decPc # "gone" /\ "START" \notin DecPosted /\ "STOP" \notin DecPosted \cup decAcks
    BY <2>1, DecIsUp
  <2>4. DecInv'
    BY <2>1, <2>2, <2>3, DecRests DEF DecPosted
  <2>5. PollInv' /\ TailInv'
    BY <2>1, PollRests, TailRests
  <2> QED BY <2>2, <2>4, <2>5 DEF Inv
<1> QED BY <1>1, <1>2, <1>3, <1>4

(* A player that plays ends an action, or halts; the monitor only looks.   *)
LEMMA PlaysKeep ==
  ASSUME IInv
  PROVE  TxStarted \/ MonitorStops \/ MonitorLooks \/ MonitorResumes \/ MonitorResumed \/ Command
           => Inv'
<1> USE DEF IInv, ctlVars, fields, track, shared, txBits, decBits, decData, decWork
<1>1. ASSUME UNCHANGED <<converter, events, consumed, ring, codec, txVars, decWork, decData, decBits>>,
             failed' = failed \/ failed' = TRUE,
             ctl \in {"start_tx", "look", "resume_tx"} \/ (ctl = "idle" /\ player # "IDLE"),
             ctl' # "release", ctl' = "idle" => player' # "IDLE"
      PROVE  DecInv' /\ PollInv' /\ TailInv'
  <2>1. /\ decPc # "gone" /\ "START" \notin DecPosted /\ "STOP" \notin DecPosted \cup decAcks
    BY <1>1, DecIsUp
  <2>2. DecInv'
    BY <1>1, <2>1, DecRests DEF DecPosted
  <2> QED BY <1>1, <2>2, PollRests, TailRests
<1>2. CASE TxStarted
  <2>1. /\ ctl = "start_tx" /\ "START" \in txAcks /\ "START" \notin txPending \cup txTaken
        /\ txState # "IDLE" /\ "STOP" \notin TxPosted
        /\ txAcks' = txAcks \ {"START"} /\ holder' = TRUE
        /\ (ctl' = "halt" /\ player' = player) \/ (ctl' = "idle" /\ player' = "PLAY")
        /\ UNCHANGED <<track, converter, callback, shared, txVars, txPending, decWork, decData,
                       decBits>>
    BY <1>2 DEF TxStarted, Finish, Halt, TxInv, CodecInv
  <2>2. TxInv'
    BY <2>1 DEF TxInv, TxPosted, txVars, InRequest
  <2>3. CodecInv'
    BY <2>1 DEF CodecInv, txVars
  <2> QED BY <1>1, <2>1, <2>2, <2>3 DEF Inv
<1>3. ASSUME \/ ctl = "idle" /\ player # "IDLE"
             \/ ctl \in {"look", "resume_tx"},
             \/ ctl' = "halt" /\ player' = player
             \/ ctl' = "idle" /\ player' = "PLAY" /\ ctl # "idle"
             \/ ctl' \in {"look", "resume_tx"} /\ player' = player /\ player = "PLAY",
             UNCHANGED <<holder, converter, events, consumed, ring, codec, txVars, decWork, decData,
                         decBits>>,
             failed' = failed \/ failed' = TRUE,
             txPending' \in {txPending, txPending \cup {"RESUME"}},
             txAcks' \in {txAcks, txAcks \ {"RESUME"}}
      PROVE  Inv'
  <2>1. /\ "START" \notin TxPosted /\ "STOP" \notin TxPosted
        /\ holder <=> txState # "IDLE"
        /\ player = "PLAY" \/ ctl # "idle" => holder
    BY <1>3 DEF TxInv, CodecInv
  <2>2. TxInv'
    BY <1>3, <2>1, TxRests DEF TxPosted
  <2>3. CodecInv'
    BY <1>3, <2>1 DEF CodecInv, txVars
  <2>4. DecInv' /\ PollInv' /\ TailInv'
    BY <1>1, <1>3
  <2> QED BY <2>2, <2>3, <2>4 DEF Inv
<1>4. CASE MonitorStops
  BY <1>3, <1>4 DEF MonitorStops, Halt
<1>5. CASE MonitorLooks
  BY <1>3, <1>5 DEF MonitorLooks
<1>6. CASE MonitorResumes
  <2>1. ctl = "look" /\ player = "PLAY"
    BY <1>6 DEF MonitorResumes, CodecInv
  <2> QED BY <1>3, <1>6, <2>1 DEF MonitorResumes, Finish, Halt
<1>7. CASE MonitorResumed
  <2>1. ctl = "resume_tx"
    BY <1>7 DEF MonitorResumed
  <2> QED BY <1>3, <1>7, <2>1 DEF MonitorResumed, Finish, Halt
<1>8. CASE Command
  <2>1. ctl = "idle" /\ player # "IDLE" /\ ctl' = "halt"
    BY <1>8 DEF Command, Halt
  <2> QED BY <1>3, <1>8, <2>1 DEF Command
<1> QED BY <1>2, <1>4, <1>5, <1>6, <1>7, <1>8

(* Halting: the pcm worker first, if this player has it, then the decoder. *)
LEMMA HaltsKeep ==
  ASSUME IInv
  PROVE  HearsNothing \/ HaltTx \/ TxStopped \/ ClearTx \/ ClearTxAcks => Inv'
<1> USE DEF IInv, ctlVars, fields, track, shared, txBits, decBits, decData, decWork
<1>1. CASE HearsNothing
  <2>1. /\ ctl = "hear" /\ ctl' = "halt" /\ op' = "stop" /\ ~holder /\ txState = "IDLE"
        /\ "START" \notin decPending /\ events' = {} /\ failed' = TRUE
        /\ UNCHANGED <<player, track, wait_decoder, converter, holder, callback, consumed, ring,
                       txVars, txBits, decWork, decData, decBits>>
    BY <1>1 DEF HearsNothing, Halt, CodecInv
  <2>2. "START" \notin TxPosted /\ "STOP" \notin TxPosted
    BY <2>1 DEF TxInv
  <2>3. TxInv'
    BY <2>1, <2>2, TxRests DEF TxPosted
  <2>4. CodecInv'
    BY <2>1 DEF CodecInv, txVars
  <2>5. DecInv'
    BY <2>1, DecIsUp DEF DecInv, DecPosted
  <2>6. PollInv' /\ TailInv'
    BY <2>1, PollRests, TailRests
  <2> QED BY <2>3, <2>4, <2>5, <2>6 DEF Inv
<1>2. ASSUME decPc # "gone", "STOP" \notin DecPosted \cup decAcks, ctl # "hear", op' = op,
             "START" \in DecPosted => ctl = "halt" /\ ~holder /\ op = "stop",
             PostDecoder, UNCHANGED <<player, converter, events, decWork, decAcks>>,
             holder' => holder
      PROVE  DecInv'
  <2>1. /\ ctl' = "decoder"
        /\ "START" \in decPending' <=> "START" \in decPending
        /\ "STOP" \in decPending' => op = "stop"
    BY <1>2 DEF PostDecoder, DecPosted
  <2>2. "START" \notin decPending
    BY <1>2 DEF DecInv
  <2> QED BY <1>2, <2>1, <2>2 DEF DecInv, DecPosted
<1>3. CASE HaltTx
  <2>1. /\ ctl = "halt" /\ (holder <=> txState # "IDLE")
        /\ "START" \notin TxPosted /\ "STOP" \notin TxPosted
        /\ UNCHANGED <<player, op, track, converter, holder, shared, txVars, txAcks,
                       decWork, decData, decAcks>>
    BY <1>3 DEF HaltTx, TxInv, CodecInv
  <2>2. decPc # "gone" /\ "STOP" \notin DecPosted \cup decAcks
    BY <2>1, DecIsUp
  <2>3. PollInv'
    BY <2>1, PollRests
  <2>4. CASE holder
    <3>1. /\ ctl' = "stop_tx" /\ txPending' = txPending \cup {"STOP"} /\ decPending' = decPending
          /\ "START" \notin DecPosted
      BY <1>3, <2>1, <2>4, DecIsUp DEF HaltTx, DecInv, DecPosted
    <3>2. TxInv'
      BY <2>1, <3>1 DEF TxInv, TxPosted, txVars, InRequest
    <3>3. CodecInv'
      BY <2>1, <2>4, <3>1 DEF CodecInv, TxPosted, txVars
    <3>4. DecInv'
      BY <2>1, <2>2, <3>1, DecRests DEF DecPosted
    <3>5. TailInv'
      BY <2>1, <3>1, TailRests
    <3> QED BY <2>3, <3>2, <3>3, <3>4, <3>5 DEF Inv
  <2>5. CASE ~holder
    <3>1. PostDecoder /\ ctl' = "decoder" /\ UNCHANGED txPending /\ txState = "IDLE"
      BY <1>3, <2>1, <2>5 DEF HaltTx, PostDecoder
    <3>2. TxInv'
      BY <2>1, <3>1, TxRests DEF TxPosted
    <3>3. CodecInv'
      BY <2>1, <2>5, <3>1 DEF CodecInv, txVars
    <3>4. "START" \in DecPosted => op = "stop"
      BY <2>1, <2>2 DEF DecInv, DecPosted
    <3>5. DecInv'
      BY <1>2, <2>1, <2>2, <2>5, <3>1, <3>4
    <3>6. TailInv'
      BY <2>1, <3>1, TailRests
    <3> QED BY <2>3, <3>2, <3>3, <3>5, <3>6 DEF Inv
  <2> QED BY <2>4, <2>5
<1>4. ASSUME ctl \in {"stop_tx", "clear_tx"}, ctl' \in {"clear_tx", "clear_acks"}, txState = "IDLE",
             "STOP" \notin txPending \cup txTaken, txPending' \subseteq txPending, txAcks' = txAcks,
             UNCHANGED <<player, op, track, fields, shared, txVars, decWork, decData, decBits>>
      PROVE  Inv'
  <2>1. TxInv'
    BY <1>4 DEF TxInv, TxPosted, txVars, InRequest
  <2>2. CodecInv'
    BY <1>4 DEF CodecInv, txVars
  <2>3. decPc # "gone" /\ "START" \notin DecPosted /\ "STOP" \notin DecPosted \cup decAcks
    BY <1>4, DecIsUp
  <2>4. DecInv'
    BY <1>4, <2>3, DecRests DEF DecPosted
  <2> QED BY <1>4, <2>1, <2>2, <2>4, PollRests, TailRests DEF Inv
<1>5. CASE TxStopped
  <2>1. ctl = "stop_tx" /\ "STOP" \in txAcks /\ txState = "IDLE" /\ "STOP" \notin txPending \cup txTaken
    BY <1>5 DEF TxStopped, TxInv, CodecInv
  <2> QED BY <1>4, <1>5, <2>1 DEF TxStopped
<1>6. CASE ClearTx
  <2>1. ctl = "clear_tx" /\ txState = "IDLE" /\ "STOP" \notin txPending \cup txTaken
    BY <1>6 DEF ClearTx, CodecInv
  <2> QED BY <1>4, <1>6, <2>1 DEF ClearTx
<1>7. CASE ClearTxAcks
  <2>1. /\ ctl = "clear_acks" /\ txState = "IDLE" /\ "STOP" \notin txPending \cup txTaken
        /\ "START" \notin TxPosted /\ txAcks' = {} /\ holder' = FALSE
        /\ PostDecoder /\ ctl' = "decoder"
        /\ UNCHANGED <<player, op, track, enable, wait_decoder, converter, callback, shared,
                       txVars, txPending, decWork, decData, decAcks>>
    BY <1>7 DEF ClearTxAcks, PostDecoder, TxInv, CodecInv
  <2>2. TxInv'
    BY <2>1 DEF TxInv, TxPosted, txVars, InRequest
  <2>3. CodecInv'
    BY <2>1 DEF CodecInv, txVars
  <2>4. decPc # "gone" /\ "START" \notin DecPosted /\ "STOP" \notin DecPosted \cup decAcks
    BY <2>1, DecIsUp
  <2>5. DecInv'
    BY <1>2, <2>1, <2>4
  <2> QED BY <2>1, <2>2, <2>3, <2>5, PollRests, TailRests DEF Inv
<1> QED BY <1>1, <1>3, <1>5, <1>6, <1>7

(* The decoder's answers, its end and its beginning.                       *)
LEMMA DecoderKeeps ==
  ASSUME IInv
  PROVE  DecoderStopped \/ Release \/ DecoderPauses \/ DecoderSought \/ Start => Inv'
<1> USE DEF IInv, ctlVars, fields, track, shared, txBits, decBits, decData, decWork
<1>1. ASSUME txState = "IDLE", ctl \notin {"start_tx", "stop_tx", "clear_tx", "clear_acks"},
             ~holder, UNCHANGED <<holder, txVars, txBits>>,
             ctl' \in {"idle", "halt", "hear", "seeking", "clear_ring", "release"},
             ctl' = "idle" => player' # "PLAY"
      PROVE  TxInv' /\ CodecInv' /\ TailInv'
  <2>1. "START" \notin TxPosted /\ "STOP" \notin TxPosted
    BY <1>1 DEF TxInv
  <2>2. TxInv'
    BY <1>1, <2>1, TxRests DEF TxPosted
  <2>3. CodecInv'
    BY <1>1 DEF CodecInv, txVars
  <2> QED BY <1>1, <2>2, <2>3, TailRests
<1>2. CASE DecoderStopped
  <2>1. /\ ctl = "decoder" /\ txState = "IDLE" /\ ~holder
        /\ decPc' = "gone" /\ left' = 0 /\ input_done' = FALSE /\ output_done' = FALSE
        /\ ctl' = "release"
        /\ UNCHANGED <<player, op, fields, shared, txVars, txBits, decState, decTaken, decoded>>
    BY <1>2 DEF DecoderStopped, CodecInv
  <2>2. DecInv' /\ PollInv'
    BY <2>1 DEF DecInv, PollInv
  <2> QED BY <1>1, <2>1, <2>2 DEF Inv
<1>3. CASE Release
  <2>1. /\ ctl = "release" /\ txState = "IDLE" /\ ~holder /\ decPc = "gone"
        /\ player' = "IDLE" /\ ctl' = "idle" /\ events' = {}
        /\ UNCHANGED <<track, enable, wait_decoder, holder, callback, failed, consumed,
                       txVars, txBits, decWork, decData, decBits>>
    BY <1>3 DEF Release, CodecInv, DecInv
  <2>2. DecInv'
    BY <2>1 DEF DecInv
  <2> QED BY <1>1, <2>1, <2>2, PollRests DEF Inv
<1>4. CASE DecoderPauses
  <2>1. /\ ctl = "decoder" /\ op \in {"pause", "seek"} /\ txState = "IDLE" /\ ~holder
        /\ decAcks' = decAcks \ {"PAUSE"}
        /\ decPending' \in {decPending, decPending \cup {"SEEK"}}
        /\ UNCHANGED <<track, wait_decoder, converter, holder, callback, events, ring, failed,
                       txVars, txBits, decWork, decData>>
        /\ \/ ctl' = "idle" /\ player' = "PAUSE"
           \/ ctl' \in {"halt", "seeking"}
    BY <1>4 DEF DecoderPauses, CodecInv, Finish, Halt
  <2>2. decPc # "gone" /\ "START" \notin DecPosted /\ "STOP" \notin DecPosted \cup decAcks
    BY <2>1, DecIsUp
  <2>3. DecInv'
    BY <2>1, <2>2, DecRests DEF DecPosted
  <2> QED BY <1>1, <2>1, <2>3, PollRests DEF Inv
<1>5. CASE DecoderSought
  <2>1. /\ ctl = "seeking" /\ txState = "IDLE" /\ ~holder
        /\ decAcks' = decAcks \ {"SEEK"} /\ ctl' = "clear_ring"
        /\ UNCHANGED <<player, op, track, fields, shared, txVars, txBits, decWork, decData, decPending>>
    BY <1>5 DEF DecoderSought, CodecInv
  <2>2. decPc # "gone" /\ "START" \notin DecPosted /\ "STOP" \notin DecPosted \cup decAcks
    BY <2>1, DecIsUp
  <2>3. DecInv'
    BY <2>1, <2>2, DecRests DEF DecPosted
  <2> QED BY <1>1, <2>1, <2>3, PollRests DEF Inv
<1>6. CASE Start
  <2>1. /\ ctl = "idle" /\ player = "IDLE" /\ txState = "IDLE" /\ ~holder /\ ctl' = "hear"
        /\ converter' = TRUE
        /\ decState' = "IDLE" /\ decPc' = "wait" /\ decTaken' = {}
        /\ decPending' = {"START"} /\ decAcks' = {}
        /\ left' = 0 /\ input_done' = FALSE /\ output_done' = FALSE
        /\ UNCHANGED <<player, op, holder, callback, events, ring, txVars, txBits>>
    BY <1>6 DEF Start, CodecInv
  <2>2. DecInv' /\ PollInv'
    BY <2>1 DEF DecInv, PollInv, DecPosted
  <2> QED BY <1>1, <2>1, <2>2 DEF Inv
<1> QED BY <1>2, <1>3, <1>4, <1>5, <1>6
-----------------------------------------------------------------------------
(* The player stops the workers before it takes from them what they use:   *)
(* the inductive invariant, whatever the sizes of buffers and files.       *)
THEOREM Invariant == Spec => []IInv
<1>1. Init /\ TypeOK => IInv
  <2> SUFFICES ASSUME Init, TypeOK PROVE Inv
    BY DEF IInv, Inv
  <2> USE DEF Init, TxPosted, DecPosted, InRequest, Overtaken
  <2>1. TxInv /\ CodecInv
    BY DEF TxInv, CodecInv
  <2>2. DecInv /\ PollInv /\ TailInv
    BY DEF DecInv, PollInv, TailInv
  <2> QED BY <2>1, <2>2 DEF Inv
<1>2. IInv /\ TypeOK' /\ [Next]_vars => IInv'
  <2> SUFFICES ASSUME IInv, [Next]_vars PROVE Inv'
    BY DEF IInv, Inv
  <2>1. CASE DecStep
    <3>1. DecInv' /\ PollInv' /\ TailInv'
      BY <2>1, DecRowsKeep, OutputKeeps, InputKeeps DEF DecStep
    <3>2. /\ UNCHANGED <<ctlVars, txVars>>
          /\ txPending' \in {txPending, txPending \cup {"RESUME"}}
          /\ txAcks' \in {txAcks, txAcks \ {"RESUME"}}
      <4>1. CASE DecNotifies
        BY <4>1 DEF DecNotifies, txBits
      <4>2. CASE DecAcked
        BY <4>2 DEF DecAcked, txBits
      <4>3. CASE UNCHANGED <<ctlVars, txVars, txBits>>
        BY <4>3 DEF txBits
      <4> QED
        BY <2>1, <4>1, <4>2, <4>3
        DEF DecStep, DecTakes, DecStartsOrStops, DecPausesOrResumes, DecSeeks, DecPolls, DecGivesUp,
            DecOutputs, DecExpires, DecOutputEnds, DecFinishes, DecReads, DecReadsNothing,
            AacLastSample, DecDecodes, AacDecodes
    <3>3. TxInv' /\ CodecInv'
      BY <3>2, ResumesKeep DEF IInv
    <3> QED BY <3>1, <3>3 DEF Inv
  <2>2. CASE TxStep
    BY <2>2, TxKeeps
  <2>3. CASE CtlStep \/ Start \/ Command \/ Resume
    BY <2>3, StartsKeep, PlaysKeep, HaltsKeep, DecoderKeeps DEF CtlStep
  <2>4. CASE UNCHANGED vars
    <3> USE <2>4 DEF IInv, vars, ctlVars, fields, track, shared, txVars, txBits, decWork, decData,
                     decBits, TxPosted, DecPosted, InRequest, Overtaken
    <3>1. TxInv' /\ CodecInv'
      BY DEF TxInv, CodecInv
    <3>2. DecInv' /\ PollInv' /\ TailInv'
      BY DEF DecInv, PollInv, TailInv
    <3> QED BY <3>1, <3>2 DEF Inv
  <2> QED BY <2>1, <2>2, <2>3, <2>4 DEF Next
<1> QED BY <1>1, <1>2, TypeCorrect, PTL DEF Spec

(* The decoder converts only with a converter (common_player.c:133-168,    *)
(* 385-391).                                                               *)
THEOREM ConverterStays == Spec => []ConverterOutlivesUse
<1>1. IInv => ConverterOutlivesUse
  BY DEF IInv, DecInv, ConverterOutlivesUse
<1> QED BY <1>1, Invariant, PTL

(* A request of the codec meets a decoder that exists and a ring that      *)
(* nobody clears (common_player.c:163, 239, 413-462).                      *)
THEOREM RequestsAreSafe == Spec => []RequestIsSafe
<1>1. IInv => RequestIsSafe
  BY DEF IInv, TxInv, CodecInv, DecInv, InRequest, RequestIsSafe
<1> QED BY <1>1, Invariant, PTL

(* Between commands, who plays holds the pcm worker, and it is not idle    *)
(* (common_player.c:128, 137-142, 206).                                    *)
THEOREM PlaysWithCodec == Spec => []PlayerHoldsCodec
<1>1. IInv => PlayerHoldsCodec
  BY DEF IInv, CodecInv, PlayerHoldsCodec
<1> QED BY <1>1, Invariant, PTL

(* An mp3 that ends without an error has gone to the codec as a whole,     *)
(* although ring_count is read before output_done                          *)
(* (common_player.c:419-434).                                              *)
THEOREM TailIsPlayed == Spec => []NoTailLost
<1>1. IInv => NoTailLost
  BY DEF IInv, TailInv, PollInv, NoTailLost
<1> QED BY <1>1, Invariant, PTL

(* What the stop of a player finds of the decoder.                         *)
DecoderIdles ==
  ctl = "decoder" /\ "STOP" \in decAcks => decState = "IDLE" /\ decPc \in {"wait", "handle"}

(* When com_player_stop goes on, the decoder's thread is idle: nothing is  *)
(* pulled from under it (common_player.c:145-160, mp3_decoder.c:305-325).  *)
THEOREM DecoderIdlesAtStop == Spec => []DecoderIdles
<1>1. IInv => DecoderIdles
  BY DEF IInv, DecInv, DecPosted, DecoderIdles
<1> QED BY <1>1, Invariant, PTL
=============================================================================
