------------------------------- MODULE Playback -------------------------------
(***************************************************************************)
(* One playing com_player_t (src/common_player.c) and the three threads    *)
(* that share it: the audio player's worker, which runs com_player_start,  *)
(* _stop, _pause, _resume, _seek and the monitor ("ctl"); the decoder      *)
(* (src/mp3_decoder.c, src/aac_decoder.c), which fills output_buffer; and  *)
(* the pcm worker (src/pcm_trans.c), which empties it into the codec.      *)
(*                                                                         *)
(* The two workers are machines of CommonFsm with the tables of FsmTables. *)
(* What CommonFsm shows of them is used here: a set of pending bits is     *)
(* taken at once, one row runs, the bits are acknowledged, and START and   *)
(* STOP acknowledgements are never stale.  RESUME of the pcm worker has    *)
(* two senders, so its acknowledgement may be taken by the other one or be *)
(* cleared; the sender then sits out COM_FSM_MAX_WAIT_TIME.                *)
(* RingBuffer shows that the output ring is a queue of one producer and    *)
(* one consumer, so it is a number of units here.                          *)
(***************************************************************************)
EXTENDS Integers, FsmTables

CONSTANTS
  RingSize,    \* units of pcm that fit into output_buffer
  FrameSize,   \* units that one input chunk decodes to
  RequestSize, \* units the codec asks for
  Threshold,   \* not_enough_th
  FileSize,    \* bound: input chunks in the file
  MaxSeeks,    \* bound: seeks of one playback
  Codecs,      \* types of file: "mp3", "aac" or "m4a"
  LateLoad     \* the call of pcm_callback reads the pointer again; else it
               \* uses the one that was tested

ASSUME PlaybackAssumption ==
  /\ {RingSize, FrameSize, RequestSize, Threshold} \subseteq Nat \ {0}
  /\ Threshold < RequestSize
  /\ {FileSize, MaxSeeks} \subseteq Nat
  /\ Codecs \subseteq {"mp3", "aac", "m4a"}
  /\ LateLoad \in BOOLEAN

VARIABLES
  player,       \* state of the audio player
  ctl, op,      \* where its worker is; stop, pause or seek that it begins with
  seeks, codec, failed,      \* seeks so far; type of the decoder; last_error is set
  enable, wait_decoder, consumed, converter, holder,  \* fields of com_player;
                             \* consumed > 0; converter allocated;
                             \* g_pcm_trans_holder points to this player
  events,                    \* com_player->event_handle
  callback,                  \* pcm_callback is registered
  ring,                      \* units in output_buffer
  txState, txPc, txPending, txTaken, txAcks,
  txCount, txDone,           \* locals ring_count and output_done of the request
  decState, decPc, decPending, decTaken, decAcks,
  decoded,                   \* this poll has decoded a frame
  stream,                    \* mem->stream: "need" input, "frame", "spent"
  left,                      \* units in mem->output_buffer
  unread,                    \* chunks of the file not yet read
  input_done, output_done

fields  == <<enable, wait_decoder, converter, holder, callback>>
track   == <<seeks, codec>>
ctlVars == <<player, ctl, op, track, fields>>
shared  == <<failed, events, consumed, ring>>
txVars  == <<txState, txPc, txTaken, txCount, txDone>>
txBits  == <<txPending, txAcks>>
decWork == <<decState, decPc, decTaken, decoded>>
decData == <<stream, left, unread, input_done, output_done>>
decBits == <<decPending, decAcks>>
vars    == <<ctlVars, shared, txVars, txBits, decWork, decData, decBits>>

PlayerStates == {"IDLE", "PLAY", "PAUSE"}
TxEvents     == {"START", "STOP", "RESUME"}
DecEvents    == {"START", "STOP", "PAUSE", "RESUME", "SEEK"}
Ops          == {"none", "stop", "pause", "seek"}
TrackTypes   == Codecs \cup {"none"}
CtlPcs       == {"idle", "hear", "start_tx", "halt", "stop_tx", "clear_tx", "clear_acks",
                 "decoder", "seeking", "clear_ring", "release", "look", "resume_tx"}

TypeOK ==
  /\ player \in PlayerStates
  /\ ctl \in CtlPcs /\ op \in Ops
  /\ seeks \in 0 .. MaxSeeks /\ codec \in TrackTypes
  /\ failed \in BOOLEAN /\ enable \in BOOLEAN /\ wait_decoder \in BOOLEAN /\ consumed \in BOOLEAN
  /\ converter \in BOOLEAN /\ holder \in BOOLEAN /\ callback \in BOOLEAN
  /\ events \subseteq {"DECODER", "EXIT"}
  /\ ring \in 0 .. RingSize
  /\ txState \in {"IDLE", "TX_RUN", "TX_PAUSE", "TX_DONE"}
  /\ txPc \in {"wait", "handle", "call", "count", "done?", "pop", "crashed"}
  /\ txPending \subseteq TxEvents /\ txTaken \subseteq TxEvents /\ txAcks \subseteq TxEvents
  /\ txCount \in 0 .. RingSize /\ txDone \in BOOLEAN
  /\ decState \in {"IDLE", "RUN", "PAUSE"}
  /\ decPc \in {"gone", "wait", "handle", "output", "notify", "await", "pushed", "input", "decode"}
  /\ decPending \subseteq DecEvents /\ decTaken \subseteq DecEvents /\ decAcks \subseteq DecEvents
  /\ decoded \in BOOLEAN
  /\ stream \in {"need", "frame", "spent"}
  /\ left \in 0 .. FrameSize /\ unread \in 0 .. FileSize
  /\ input_done \in BOOLEAN /\ output_done \in BOOLEAN

Init ==
  /\ player = "IDLE" /\ ctl = "idle" /\ op = "none" /\ seeks = 0 /\ codec = "none" /\ failed = FALSE
  /\ enable = FALSE /\ wait_decoder = FALSE /\ consumed = FALSE /\ converter = FALSE
  /\ holder = FALSE /\ callback = FALSE
  /\ events = {} /\ ring = 0
  /\ txState = "IDLE" /\ txPc = "wait" /\ txTaken = {} /\ txCount = 0 /\ txDone = FALSE
  /\ txPending = {} /\ txAcks = {}
  /\ decState = "IDLE" /\ decPc = "gone" /\ decTaken = {} /\ decoded = FALSE
  /\ decPending = {} /\ decAcks = {}
  /\ stream = "need" /\ left = 0 /\ unread = 0 /\ input_done = FALSE /\ output_done = FALSE

-----------------------------------------------------------------------------
Smaller(a, b) == IF a < b THEN a ELSE b

-----------------------------------------------------------------------------
(* The decoder: com_fsm_task with the table of its kind.                   *)
DecLookup == IF codec = "mp3" THEN Mp3Lookup ELSE AacLookup

DecTakes ==
  /\ decPc = "wait"
  /\ decPending # {} \/ decState = "RUN"
  /\ decTaken' = decPending /\ decPending' = {}
  /\ decPc' = "handle"
  /\ UNCHANGED <<ctlVars, shared, txVars, txBits, decState, decoded, decData, decAcks>>

(* The end of an action.  Nobody waits for START and RESUME.               *)
DecReturns(state) ==
  /\ decState' = state
  /\ decAcks' = decAcks \cup (decTaken \ {"START", "RESUME"})
  /\ decTaken' = {} /\ decoded' = FALSE
  /\ decPc' = "wait"
  /\ UNCHANGED decPending

DecHandles(row) == decPc = "handle" /\ RowEvent(DecLookup, decState, decTaken) = row

(* start_action and stop_action allocate and free the memory.              *)
DecStartsOrStops ==
  /\ \/ DecHandles({{"START"}}) /\ DecReturns("RUN")
     \/ DecHandles({{"STOP"}}) /\ DecReturns("IDLE")
  /\ stream' = "need" /\ left' = 0
  /\ UNCHANGED <<ctlVars, shared, txVars, txBits, unread, input_done, output_done>>

DecPausesOrResumes ==
  /\ \/ DecHandles({{"PAUSE"}}) /\ DecReturns("PAUSE")
     \/ DecHandles({{"RESUME"}}) /\ DecReturns("RUN")
     \/ DecHandles({}) /\ DecReturns(decState)
  /\ UNCHANGED <<ctlVars, shared, txVars, txBits, decData>>

(* The file moves; the stream keeps what it has, input_done stays.         *)
DecSeeks ==
  /\ DecHandles({{"SEEK"}}) /\ DecReturns(decState)
  /\ left' = 0
  /\ unread' \in 0 .. FileSize
  /\ UNCHANGED <<ctlVars, shared, txVars, txBits, stream, input_done, output_done>>

(* mp3_decoder_run_poll; error_handler gives up on a stream of errors, all *)
(* output of which has been handed over.                                   *)
DecPolls ==
  /\ DecHandles({{}})
  /\ decPc' = "output"
  /\ UNCHANGED <<ctlVars, shared, txVars, txBits, decState, decTaken, decoded, decData, decBits>>

DecGivesUp ==
  /\ DecHandles({{}}) /\ left = 0
  /\ failed' = TRUE /\ input_done' = TRUE
  /\ events' = events \cup {"EXIT"}
  /\ decPc' = "output"
  /\ UNCHANGED <<ctlVars, consumed, ring, txVars, txBits, decState, decTaken, decoded,
                 stream, left, unread, output_done, decBits>>

(* Fault: the room in the ring is not looked at.                           *)
DecOutputsUnclamped ==
  /\ decPc = "output" /\ left > 0
  /\ ring' = ring + left /\ left' = 0
  /\ decPc' = "notify"
  /\ UNCHANGED <<ctlVars, failed, events, consumed, txVars, txBits, decState, decTaken, decoded,
                 stream, unread, input_done, output_done, decBits>>

(* output_handler: __decoder_output_callback converts into the ring.       *)
DecOutputs ==
  /\ decPc = "output" /\ left > 0
  /\ LET n == Smaller(RingSize - ring, left)
     IN  ring' = ring + n /\ left' = left - n
  /\ decPc' = "notify"
  /\ UNCHANGED <<ctlVars, failed, events, consumed, txVars, txBits, decState, decTaken, decoded,
                 stream, unread, input_done, output_done, decBits>>

(* It tells com_player_start of the first output, and the pcm worker of    *)
(* any later one, waiting for that to be acknowledged.                     *)
DecNotifies ==
  /\ decPc = "notify"
  /\ events' = IF wait_decoder THEN events \cup {"DECODER"} ELSE events
  /\ IF ~wait_decoder /\ enable
     THEN txPending' = txPending \cup {"RESUME"} /\ decPc' = "await"
     ELSE UNCHANGED txPending /\ decPc' = "pushed"
  /\ UNCHANGED <<ctlVars, failed, consumed, ring, txVars, txAcks, decState, decTaken, decoded,
                 decData, decBits>>

DecAcked ==
  /\ decPc = "await" /\ "RESUME" \in txAcks
  /\ txAcks' = txAcks \ {"RESUME"}
  /\ decPc' = "pushed"
  /\ UNCHANGED <<ctlVars, shared, txVars, txPending, decState, decTaken, decoded, decData, decBits>>

(* 30 s: the bit or its acknowledgement was cleared, or taken by the       *)
(* monitor, or the wakeup went to another waiter.                          *)
DecExpires ==
  /\ decPc = "await" /\ "RESUME" \notin txPending \cup txTaken
  /\ decPc' = "pushed"
  /\ UNCHANGED <<ctlVars, shared, txVars, txBits, decState, decTaken, decoded, decData, decBits>>

(* Fault: the decoder goes on when the ring has not taken everything.      *)
OutputDoneRuns ==
  \/ /\ left > 0 \/ decoded
     /\ DecReturns("RUN")
  \/ /\ left = 0 /\ ~decoded
     /\ decPc' = "input"
     /\ UNCHANGED <<decState, decTaken, decoded, decBits>>

(* The rest of output_handler, and "goto END" after a frame.               *)
OutputDone ==
  \/ /\ left > 0
     /\ DecReturns("PAUSE")
  \/ /\ left = 0 /\ decoded
     /\ DecReturns("RUN")
  \/ /\ left = 0 /\ ~decoded
     /\ decPc' = "input"
     /\ UNCHANGED <<decState, decTaken, decoded, decBits>>

DecOutputEnds ==
  /\ decPc = "pushed" \/ (decPc = "output" /\ left = 0)
  /\ OutputDone
  /\ UNCHANGED <<ctlVars, shared, txVars, txBits, decData>>

(* [step 1] of the poll.                                                   *)
DecFinishes ==
  /\ decPc = "input" /\ stream = "need" /\ input_done
  /\ output_done' = TRUE
  /\ DecReturns("PAUSE")
  /\ UNCHANGED <<ctlVars, shared, txVars, txBits, stream, left, unread, input_done>>

DecReads ==
  /\ decPc = "input"
  /\ \/ stream # "need" /\ UNCHANGED <<stream, unread>>
     \/ /\ stream = "need" /\ ~input_done /\ unread > 0
        /\ unread' = unread - 1 /\ stream' = "frame"
  /\ decPc' = "decode"
  /\ UNCHANGED <<ctlVars, shared, txVars, txBits, decState, decTaken, decoded,
                 left, input_done, output_done, decBits>>

(* __player_input_callback at the end of the file, or after a read error.  *)
DecReadsNothing ==
  /\ decPc = "input" /\ codec # "m4a" /\ stream = "need" /\ ~input_done
  /\ input_done' = TRUE
  /\ \/ /\ unread = 0
        /\ events' = IF wait_decoder THEN events \cup {"EXIT"} ELSE events
        /\ UNCHANGED failed
     \/ /\ failed' = TRUE
        /\ events' = events \cup {"EXIT"}
  /\ DecReturns("PAUSE")
  /\ UNCHANGED <<ctlVars, consumed, ring, txVars, txBits, stream, left, unread, output_done>>

(* [step 2] and [step 3].  A damaged chunk gives no pcm.                   *)
DecDecodes ==
  /\ decPc = "decode" /\ codec = "mp3"
  /\ stream' = IF stream = "frame" THEN "spent" ELSE "need"
  /\ \/ /\ stream = "frame"
        /\ left' = FrameSize /\ decoded' = TRUE
        /\ decPc' = "output"
        /\ UNCHANGED <<decState, decTaken, decBits>>
     \/ DecReturns("RUN") /\ UNCHANGED left
     \/ stream = "frame" /\ DecReturns("PAUSE") /\ UNCHANGED left
  /\ UNCHANGED <<ctlVars, shared, txVars, txBits, unread, input_done, output_done>>

(* aac_decoder_run_poll reads each time.  After the last sample of an m4a  *)
(* file it goes on with a frame_info that is not initialised, and after a  *)
(* read error with no sample.                                              *)
AacLastSample ==
  /\ decPc = "input" /\ codec = "m4a" /\ ~input_done
  /\ input_done' = TRUE
  /\ \/ /\ unread = 0
        /\ events' = IF wait_decoder THEN events \cup {"EXIT"} ELSE events
        /\ stream' = "frame"
        /\ UNCHANGED <<failed, unread>>
     \/ /\ unread > 0
        /\ unread' = unread - 1
        /\ failed' = TRUE /\ events' = events \cup {"EXIT"}
        /\ UNCHANGED stream
  /\ decPc' = "decode"
  /\ UNCHANGED <<ctlVars, consumed, ring, txVars, txBits, decState, decTaken, decoded,
                 left, output_done, decBits>>

(* An error is looked at by the next poll; see DecGivesUp.                 *)
AacDecodes ==
  /\ decPc = "decode" /\ codec # "mp3"
  /\ stream' = "need"
  /\ \/ /\ stream = "frame"
        /\ left' = FrameSize /\ decoded' = TRUE
        /\ decPc' = "output"
        /\ UNCHANGED <<decState, decTaken, decBits>>
     \/ DecReturns("RUN") /\ UNCHANGED left
  /\ UNCHANGED <<ctlVars, shared, txVars, txBits, unread, input_done, output_done>>

DecStep ==
  \/ DecTakes \/ DecStartsOrStops \/ DecPausesOrResumes \/ DecSeeks \/ DecPolls \/ DecGivesUp
  \/ DecOutputs \/ DecNotifies \/ DecAcked \/ DecExpires \/ DecOutputEnds
  \/ DecFinishes \/ DecReads \/ DecReadsNothing \/ AacLastSample \/ DecDecodes \/ AacDecodes

-----------------------------------------------------------------------------
(* The pcm worker: com_fsm_task with TxLookup.                             *)
TxTakes ==
  /\ txPc = "wait"
  /\ txPending # {} \/ txState = "TX_RUN"
  /\ txTaken' = txPending /\ txPending' = {}
  /\ txPc' = "handle"
  /\ UNCHANGED <<ctlVars, shared, txState, txCount, txDone, txAcks, decWork, decData, decBits>>

TxReturns(state) ==
  /\ txState' = state
  /\ txAcks' = txAcks \cup txTaken
  /\ txTaken' = {}
  /\ txPc' = "wait"
  /\ txCount' = 0 /\ txDone' = FALSE
  /\ UNCHANGED txPending

TxHandles(row) == txPc = "handle" /\ RowEvent(TxLookup, txState, txTaken) = row

TxActs ==
  /\ \/ TxHandles({{"START"}}) /\ TxReturns("TX_RUN")
     \/ TxHandles({{"STOP"}}) /\ TxReturns("IDLE")
     \/ TxHandles({{"RESUME"}}) /\ TxReturns("TX_RUN")
     \/ TxHandles({}) /\ TxReturns(txState)
     \/ TxHandles({{}}) /\ ~callback /\ TxReturns("TX_PAUSE")
  /\ UNCHANGED <<ctlVars, shared, decWork, decData, decBits>>

(* pcm_trans_tx_run_poll tests the pointer, ...                            *)
TxPolls ==
  /\ TxHandles({{}}) /\ callback
  /\ txPc' = "call"
  /\ UNCHANGED <<ctlVars, shared, txState, txTaken, txCount, txDone, txBits,
                 decWork, decData, decBits>>

(* ... then calls through it, with user_param.                             *)
TxCalls ==
  /\ txPc = "call"
  /\ txPc' = IF LateLoad /\ ~callback THEN "crashed" ELSE "count"
  /\ UNCHANGED <<ctlVars, shared, txState, txTaken, txCount, txDone, txBits,
                 decWork, decData, decBits>>

(* __pcm_trans_data_request_callback: first ring_count, ...                *)
TxCounts ==
  /\ txPc = "count"
  /\ txCount' = ring
  /\ txPc' = "done?"
  /\ UNCHANGED <<ctlVars, shared, txState, txTaken, txDone, txBits, decWork, decData, decBits>>

(* Fault: the end of decoding is taken for the end of playing.             *)
TxLooksDoneEarly ==
  /\ txPc = "done?"
  /\ IF output_done
     THEN TxReturns("TX_DONE")
     ELSE /\ txDone' = output_done
          /\ txPc' = "pop"
          /\ UNCHANGED <<txState, txTaken, txCount, txBits>>
  /\ UNCHANGED <<ctlVars, shared, decWork, decData, decBits>>

(* ... then output_done.  With neither, no_data is set, 0 is returned and  *)
(* the poll ends in TX_DONE.                                               *)
TxLooksDone ==
  /\ txPc = "done?"
  /\ IF output_done /\ txCount = 0
     THEN TxReturns("TX_DONE")
     ELSE /\ txDone' = output_done
          /\ txPc' = "pop"
          /\ UNCHANGED <<txState, txTaken, txCount, txBits>>
  /\ UNCHANGED <<ctlVars, shared, decWork, decData, decBits>>

(* Zeros fill in as long as nothing has been consumed; then the pop.       *)
Fill == IF ~consumed /\ txCount < Threshold THEN Threshold ELSE 0

TxPops ==
  /\ txPc = "pop"
  /\ LET n == Smaller(RequestSize - Fill, ring)
     IN  /\ ring' = ring - n
         /\ consumed' = (consumed \/ n > 0)
         /\ IF ~txDone /\ enable /\ 2 * (txCount - n) < RingSize
            THEN decPending' = decPending \cup {"RESUME"}
            ELSE UNCHANGED decPending
         /\ IF Fill + n > 0 THEN TxReturns("TX_RUN") ELSE TxReturns("TX_PAUSE")
  /\ UNCHANGED <<ctlVars, failed, events, decWork, decData, decAcks>>

TxStep == TxTakes \/ TxActs \/ TxPolls \/ TxCalls \/ TxCounts \/ TxLooksDone \/ TxPops

-----------------------------------------------------------------------------
(* The audio player's worker.  com_player_start creates the decoder.       *)
Start ==
  /\ ctl = "idle" /\ player = "IDLE"
  /\ ctl' = "hear"
  /\ seeks' = 0 /\ failed' = FALSE /\ codec' \in Codecs
  /\ wait_decoder' = TRUE /\ enable' = TRUE /\ consumed' = FALSE /\ converter' = TRUE
  /\ decState' = "IDLE" /\ decPc' = "wait" /\ decTaken' = {} /\ decoded' = FALSE
  /\ decPending' = {"START"} /\ decAcks' = {}
  /\ stream' = "need" /\ left' = 0 /\ input_done' = FALSE /\ output_done' = FALSE
  /\ unread' \in 0 .. FileSize
  /\ UNCHANGED <<player, op, holder, callback, events, ring, txVars, txBits>>

(* pcm_trans_register_data_request_callback and pcm_trans_start_tx.        *)
StartTx ==
  /\ callback' = TRUE
  /\ txPending' = txPending \cup {"START"}
  /\ ctl' = "start_tx" /\ op' = "none"
  /\ UNCHANGED txAcks

(* The end of an action of the player: an error stops it.                  *)
Halt(o) == op' = o /\ ctl' = "halt" /\ enable' = FALSE

Finish(state) ==
  IF failed THEN Halt("stop") /\ UNCHANGED player
             ELSE player' = state /\ ctl' = "idle" /\ op' = "none" /\ UNCHANGED enable

Hears ==
  /\ ctl = "hear" /\ "DECODER" \in events
  /\ events' = {}
  /\ StartTx
  /\ UNCHANGED <<player, track, enable, wait_decoder, converter, holder, failed, consumed, ring,
                 txVars, decWork, decData, decBits>>

(* EXIT, or 15 s without either event, in which the decoder's thread has   *)
(* at least begun.                                                         *)
HearsNothing ==
  /\ ctl = "hear" /\ "DECODER" \notin events /\ "START" \notin decPending
  /\ events' = {} /\ failed' = TRUE
  /\ Halt("stop")
  /\ UNCHANGED <<player, track, wait_decoder, converter, holder, callback, consumed, ring,
                 txVars, txBits, decWork, decData, decBits>>

TxStarted ==
  /\ ctl = "start_tx" /\ "START" \in txAcks
  /\ txAcks' = txAcks \ {"START"}
  /\ wait_decoder' = FALSE /\ holder' = TRUE
  /\ Finish("PLAY")
  /\ UNCHANGED <<track, converter, callback, shared, txVars, txPending, decWork, decData, decBits>>

-----------------------------------------------------------------------------
(* com_player_stop, _pause and _seek begin alike.                          *)
Command ==
  /\ ctl = "idle"
  /\ \/ player = "PLAY" /\ \E o \in {"stop", "pause"} : Halt(o) /\ UNCHANGED seeks
     \/ player = "PLAY" /\ seeks < MaxSeeks /\ seeks' = seeks + 1 /\ Halt("seek")
     \/ player = "PAUSE" /\ Halt("stop") /\ UNCHANGED seeks
  /\ UNCHANGED <<player, codec, wait_decoder, converter, holder, callback, shared, txVars, txBits,
                 decWork, decData, decBits>>

PostDecoder ==
  /\ decPending' = decPending \cup {IF op = "stop" THEN "STOP" ELSE "PAUSE"}
  /\ ctl' = "decoder"

HaltTx ==
  /\ ctl = "halt"
  /\ IF holder
     THEN /\ callback' = FALSE /\ ctl' = "stop_tx"
          /\ txPending' = txPending \cup {"STOP"}
          /\ UNCHANGED decPending
     ELSE PostDecoder /\ UNCHANGED <<callback, txPending>>
  /\ UNCHANGED <<player, op, track, enable, wait_decoder, converter, holder, shared, txVars, txAcks,
                 decWork, decData, decAcks>>

(* Fault: STOP is posted and not waited for.                               *)
TxStoppedUnacked ==
  /\ ctl = "stop_tx"
  /\ ctl' = "clear_tx"
  /\ UNCHANGED <<player, op, track, fields, shared, txVars, txBits, decWork, decData, decBits>>

TxStopped ==
  /\ ctl = "stop_tx" /\ "STOP" \in txAcks
  /\ ctl' = "clear_tx"
  /\ UNCHANGED <<player, op, track, fields, shared, txVars, txBits, decWork, decData, decBits>>

(* com_fsm_clear_event(COM_FSM_EVENT_ALL): first the requests, ...         *)
ClearTx ==
  /\ ctl = "clear_tx"
  /\ txPending' = {}
  /\ ctl' = "clear_acks"
  /\ UNCHANGED <<player, op, track, fields, shared, txVars, txAcks, decWork, decData, decBits>>

(* Fault: the holder is not given up.                                      *)
ClearTxAcksHolds ==
  /\ ctl = "clear_acks"
  /\ txAcks' = {}
  /\ PostDecoder
  /\ UNCHANGED <<player, op, track, enable, wait_decoder, converter, holder, callback, shared,
                 txVars, txPending, decWork, decData, decAcks>>

(* ... then the acknowledgements.                                          *)
ClearTxAcks ==
  /\ ctl = "clear_acks"
  /\ txAcks' = {}
  /\ holder' = FALSE
  /\ PostDecoder
  /\ UNCHANGED <<player, op, track, enable, wait_decoder, converter, callback, shared,
                 txVars, txPending, decWork, decData, decAcks>>

(* Fault: mp3_decoder_stop does not wait.                                  *)
DecoderStoppedUnacked ==
  /\ ctl = "decoder" /\ op = "stop"
  /\ ctl' = "release"
  /\ UNCHANGED <<player, op, track, fields, shared, txVars, txBits, decWork, decBits, decData>>

(* mp3_decoder_stop has returned: the decoder is deleted; its idle thread  *)
(* takes EXIT and touches nothing else.                                    *)
DecoderStopped ==
  /\ ctl = "decoder" /\ "STOP" \in decAcks
  /\ decPc' = "gone" /\ decPending' = {} /\ decAcks' = {}
  /\ stream' = "need" /\ left' = 0 /\ unread' = 0 /\ input_done' = FALSE /\ output_done' = FALSE
  /\ seeks' = 0 /\ codec' = "none"
  /\ ctl' = "release"
  /\ UNCHANGED <<player, op, fields, shared, txVars, txBits, decState, decTaken, decoded>>

(* The end of com_player_stop and of the player's stop.                    *)
Release ==
  /\ ctl = "release"
  /\ ring' = 0 /\ events' = {} /\ converter' = FALSE
  /\ player' = "IDLE" /\ ctl' = "idle" /\ op' = "none"
  /\ UNCHANGED <<track, enable, wait_decoder, holder, callback, failed, consumed,
                 txVars, txBits, decWork, decData, decBits>>

DecoderPauses ==
  /\ ctl = "decoder" /\ "PAUSE" \in decAcks
  /\ decAcks' = decAcks \ {"PAUSE"}
  /\ \/ /\ op = "pause"
        /\ Finish("PAUSE")
        /\ UNCHANGED <<decPending, consumed, failed>>
     \/ /\ op = "seek" /\ codec # "aac"
        /\ decPending' = decPending \cup {"SEEK"}
        /\ consumed' \in BOOLEAN
        /\ ctl' = "seeking"
        /\ UNCHANGED <<player, op, enable, failed>>
  /\ UNCHANGED <<track, wait_decoder, converter, holder, callback, events, ring,
                 txVars, txBits, decWork, decData>>

(* com_player_seek refuses when the length or the format is not known; for *)
(* a raw aac stream it does nothing.                                       *)
SeekRefused ==
  /\ ctl = "decoder" /\ op = "seek" /\ "PAUSE" \in decAcks
  /\ decAcks' = decAcks \ {"PAUSE"}
  /\ enable' = TRUE
  /\ StartTx
  /\ UNCHANGED <<player, track, wait_decoder, converter, holder, shared, txVars,
                 decWork, decData, decPending>>

DecoderSought ==
  /\ ctl = "seeking" /\ "SEEK" \in decAcks
  /\ decAcks' = decAcks \ {"SEEK"}
  /\ ctl' = "clear_ring"
  /\ UNCHANGED <<player, op, track, fields, shared, txVars, txBits, decWork, decData, decPending>>

(* ring_buffer_clear, then com_player_resume.                              *)
ClearRing ==
  /\ ctl = "clear_ring"
  /\ ring' = 0
  /\ enable' = TRUE
  /\ StartTx
  /\ UNCHANGED <<player, track, wait_decoder, converter, holder, failed, events, consumed,
                 txVars, decWork, decData, decBits>>

(* audio_player_proc_resume; audio_file_resume may fail.                   *)
Resume ==
  /\ ctl = "idle" /\ player = "PAUSE"
  /\ \/ /\ enable' = TRUE /\ StartTx
        /\ UNCHANGED failed
     \/ /\ failed' = TRUE
        /\ Halt("stop")
        /\ UNCHANGED <<callback, txBits>>
  /\ UNCHANGED <<player, track, wait_decoder, converter, holder, events, consumed, ring,
                 txVars, decWork, decData, decBits>>

-----------------------------------------------------------------------------
(* audio_player_proc_monitor, every 300 ms while playing.                  *)
MonitorStops ==
  /\ ctl = "idle" /\ player = "PLAY"
  /\ txState = "TX_DONE" \/ (failed /\ txState # "TX_PAUSE")
  /\ failed' = TRUE
  /\ Halt("stop")
  /\ UNCHANGED <<player, track, wait_decoder, converter, holder, callback, events, consumed, ring,
                 txVars, txBits, decWork, decData, decBits>>

(* com_player_auto_resume reads the pcm worker's state, then the decoder's.*)
MonitorLooks ==
  /\ ctl = "idle" /\ player = "PLAY" /\ txState = "TX_PAUSE"
  /\ ctl' = "look"
  /\ UNCHANGED <<player, op, track, fields, shared, txVars, txBits, decWork, decData, decBits>>

(* Fault: com_player_auto_resume resumes nothing.                          *)
MonitorResumesNot ==
  /\ ctl = "look"
  /\ Finish("PLAY")
  /\ UNCHANGED <<track, wait_decoder, converter, holder, callback, shared, txVars, txBits,
                 decWork, decData, decBits>>

MonitorResumes ==
  /\ ctl = "look"
  /\ IF decState = "PAUSE"
     THEN /\ txPending' = txPending \cup {"RESUME"}
          /\ ctl' = "resume_tx"
          /\ UNCHANGED <<player, op, enable>>
     ELSE Finish("PLAY") /\ UNCHANGED txPending
  /\ UNCHANGED <<track, wait_decoder, converter, holder, callback, shared, txVars, txAcks,
                 decWork, decData, decBits>>

MonitorResumed ==
  /\ ctl = "resume_tx"
  /\ \/ "RESUME" \in txAcks
     \/ "RESUME" \notin txPending \cup txTaken   \* 30 s, as for the decoder
  /\ txAcks' = txAcks \ {"RESUME"}
  /\ Finish("PLAY")
  /\ UNCHANGED <<track, wait_decoder, converter, holder, callback, shared, txVars, txPending,
                 decWork, decData, decBits>>

CtlStep ==
  \/ Hears \/ HearsNothing \/ TxStarted
  \/ HaltTx \/ TxStopped \/ ClearTx \/ ClearTxAcks \/ DecoderStopped \/ Release
  \/ DecoderPauses \/ SeekRefused \/ DecoderSought \/ ClearRing
  \/ MonitorStops \/ MonitorLooks \/ MonitorResumes \/ MonitorResumed

Next == DecStep \/ TxStep \/ CtlStep \/ Start \/ Command \/ Resume

Spec == Init /\ [][Next]_vars

(* The three threads are scheduled and deadlines pass; nobody has to give  *)
(* a command.                                                              *)
FairSpec == Spec /\ WF_vars(DecStep) /\ WF_vars(TxStep) /\ WF_vars(CtlStep)

-----------------------------------------------------------------------------
(* The decoder converts only while the converter exists: com_player_stop   *)
(* frees it after the decoder has acknowledged STOP, whatever the decoder  *)
(* and the pcm worker were doing (common_player.c:133-168, 385-391).       *)
ConverterOutlivesUse == decPc = "output" /\ left > 0 => converter

(* While the pcm worker is in its request, the decoder it may resume       *)
(* exists and nobody clears the ring it pops from                          *)
(* (common_player.c:163, 239, 413-462).                                    *)
RequestIsSafe ==
  txPc \in {"call", "count", "done?", "pop"} =>
    decPc # "gone" /\ ctl \notin {"clear_ring", "release"}

(* Unless it fails, playback of mp3 ends only when all that was decoded    *)
(* has gone to the codec, although the request reads ring_count before     *)
(* output_done: at the end of its input the decoder pauses with its last   *)
(* frame pushed, and a later request must resume it before it sets         *)
(* output_done (common_player.c:419-434, mp3_decoder.c:173-203).  The aac  *)
(* decoder does not: while com_player_start still waits, its last samples  *)
(* and output_done may both come between the two reads.                    *)
NoTailLost ==
  txState = "TX_DONE" /\ ~failed /\ codec = "mp3" => ring = 0 /\ left = 0

(* Between commands, the player plays exactly when it holds the pcm worker *)
(* and that worker is not idle (common_player.c:128, 137-142, 206).        *)
PlayerHoldsCodec ==
  ctl = "idle" => /\ (player = "PLAY") <=> holder
                  /\ holder <=> (txState # "IDLE")

(* A player that is left alone plays to the end of the file, or stops with *)
(* an error: the two workers never wait for each other for ever, because   *)
(* requests resume the decoder, the decoder resumes the pcm worker, and    *)
(* the monitor breaks the tie (common_player.c:278-300, 449-459).          *)
PlayEnds == player = "PLAY" ~> player # "PLAY"

(* A paused player stops decoding, even when a RESUME that was under way   *)
(* makes the decoder drop PAUSE (mp3_decoder.c:276-286).                   *)
PauseQuiesces ==
  player = "PAUSE" ~> (player # "PAUSE" \/ ctl # "idle" \/ (decState = "PAUSE" /\ decPc = "wait"))

(* The pcm worker never calls through a callback that has been taken away: *)
(* audio_test.c:232-246 starts a player again while it plays, which stops  *)
(* it first, and expects it to become idle in the end.                     *)
NeverCallsNull == txPc # "crashed"
=============================================================================
