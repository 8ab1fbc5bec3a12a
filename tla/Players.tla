------------------------------- MODULE Players -------------------------------
(***************************************************************************)
(* Several players (src/src/audio_player_process.c) and the one codec that *)
(* they play on: g_pcm_trans_holder and the callback of the pcm worker     *)
(* (src/src/common_player.c, src/src/pcm_trans.c).  The players' workers   *)
(* run their actions and monitors side by side, while an application sends *)
(* commands to one player after the other.                                 *)
(*                                                                         *)
(* What goes on between one player, its decoder and the pcm worker is in   *)
(* Playback.  Here the pcm worker serves an event, or one request, in a    *)
(* step, a decoder fills a ring of one unit, and the file is left out.     *)
(***************************************************************************)
EXTENDS Integers, FsmTables

CONSTANTS
  Players,   \* the audio_player_proc_t of the application
  Nobody,    \* NULL
  Length,    \* bound: units of pcm in a file
  MaxCalls,  \* bound: calls of the application
  Slow       \* an action may take longer than its caller waits

ASSUME PlayersAssumption ==
  /\ Nobody \notin Players
  /\ {Length, MaxCalls} \subseteq Nat
  /\ Slow \in BOOLEAN

VARIABLES
  state, wpc, op,     \* of each player's machine, its worker, its action
  request,            \* event posted to it: "none", or not acknowledged yet
  enable,             \* enable_pcm_or_decoder
  decoder, ring,      \* its decoder, what is in output_buffer
  left,               \* what the decoder has still to put there
  pcm, callback, holder,  \* pcm worker's state, pcm_callback's player,
                          \* g_pcm_trans_holder
  app, caller, finish,    \* where the application is, in a call to whom,
                          \* and wait_finish
  calls

worker == <<state, wpc, op, request>>
sound  == <<decoder, ring, left>>
codec  == <<pcm, callback, holder>>
appl   == <<app, caller, finish, calls>>
vars   == <<worker, enable, sound, codec, appl>>

Commands == {"START", "STOP", "PAUSE", "BREAK", "RESUME", "SEEK"}

TypeOK ==
  /\ state \in [Players -> {"IDLE", "PLAY", "PAUSE", "BREAK"}]
  /\ wpc \in [Players -> {"idle", "open", "test", "hear", "start_tx", "hold", "halt", "stop_tx",
                          "give_up", "decoder", "resume"}]
  /\ op \in [Players -> Commands \cup {"monitor"}]
  /\ request \in [Players -> Commands \cup {"none"}]
  /\ enable \in [Players -> BOOLEAN]
  /\ decoder \in [Players -> {"none", "RUN", "PAUSE"}]
  /\ ring \in [Players -> 0 .. 1] /\ left \in [Players -> 0 .. Length]
  /\ pcm \in {"IDLE", "TX_RUN", "TX_PAUSE", "TX_DONE"}
  /\ {callback, holder} \subseteq Players \cup {Nobody}
  /\ app \in {"idle", "stop", "call", "finish"} /\ caller \in Players /\ finish \in BOOLEAN
  /\ calls \in 0 .. MaxCalls

Init ==
  /\ state = [p \in Players |-> "IDLE"]
  /\ wpc = [p \in Players |-> "idle"] /\ op = [p \in Players |-> "STOP"]
  /\ request = [p \in Players |-> "none"] /\ enable = [p \in Players |-> FALSE]
  /\ decoder = [p \in Players |-> "none"]
  /\ ring = [p \in Players |-> 0] /\ left = [p \in Players |-> 0]
  /\ pcm = "IDLE" /\ callback = Nobody /\ holder = Nobody
  /\ app = "idle" /\ caller \in Players /\ finish = FALSE
  /\ calls = 0

-----------------------------------------------------------------------------
Goes(p, pc) == wpc' = [wpc EXCEPT ![p] = pc]

(* The end of an action: it is acknowledged, if somebody asked for it.     *)
Returns(p, s) ==
  /\ state' = [state EXCEPT ![p] = s]
  /\ Goes(p, "idle")
  /\ request' = IF op[p] = "monitor" THEN request ELSE [request EXCEPT ![p] = "none"]
  /\ UNCHANGED op

(* The action goes on with com_player_stop or _pause.                      *)
Halts(p, o) ==
  /\ Goes(p, "halt")
  /\ op' = [op EXCEPT ![p] = o]
  /\ enable' = [enable EXCEPT ![p] = FALSE]

(* Where an error leads: the player is stopped, within the same action.    *)
Gives(p) ==
  /\ Halts(p, IF op[p] = "monitor" THEN "monitor" ELSE "STOP")
  /\ UNCHANGED <<state, request>>

PlayerRow(p) == RowEvent(PlayerLookup, state[p], {request[p]})
Handles(p, e) == wpc[p] = "idle" /\ request[p] = e /\ PlayerRow(p) = {{e}}

(* Fault: an event without a row is not acknowledged.                      *)
DropsUnacked(p) ==
  /\ wpc[p] = "idle" /\ request[p] # "none" /\ {request[p]} \notin PlayerRow(p)
  /\ UNCHANGED vars

(* An event without a row is acknowledged, and that is all.                *)
Drops(p) ==
  /\ wpc[p] = "idle" /\ request[p] # "none" /\ {request[p]} \notin PlayerRow(p)
  /\ request' = [request EXCEPT ![p] = "none"]
  /\ UNCHANGED <<state, wpc, op, enable, sound, codec, appl>>

-----------------------------------------------------------------------------
(* audio_player_proc_start: the file is opened and its header is read, ... *)
Starts(p) ==
  /\ Handles(p, "START")
  /\ Goes(p, "open") /\ op' = [op EXCEPT ![p] = "START"]
  /\ UNCHANGED <<state, request, enable, sound, codec, appl>>

Opened(p) ==
  /\ wpc[p] = "open"
  /\ \/ Goes(p, "test") /\ UNCHANGED <<state, op, request, enable>>
     \/ Gives(p)
  /\ UNCHANGED <<sound, codec, appl>>

(* Fault: the holder is not looked at.                                     *)
NotTested(p) ==
  /\ wpc[p] = "test"
  /\ Goes(p, "hear") /\ enable' = [enable EXCEPT ![p] = TRUE]
  /\ decoder' = [decoder EXCEPT ![p] = "RUN"]
  /\ left' \in {[left EXCEPT ![p] = n] : n \in 0 .. Length}
  /\ UNCHANGED <<state, op, request, ring, codec, appl>>

(* ... com_player_start looks for a holder and starts the decoder, ...     *)
Tests(p) ==
  /\ wpc[p] = "test"
  /\ \/ /\ holder = Nobody
        /\ Goes(p, "hear") /\ enable' = [enable EXCEPT ![p] = TRUE]
        /\ decoder' = [decoder EXCEPT ![p] = "RUN"]
        /\ left' \in {[left EXCEPT ![p] = n] : n \in 0 .. Length}
        /\ UNCHANGED <<state, op, request, ring>>
     \/ holder # Nobody /\ Gives(p) /\ UNCHANGED sound
  /\ UNCHANGED <<codec, appl>>

(* ... waits for its first output, or for nothing, and registers.          *)
Hears(p) ==
  /\ wpc[p] = "hear"
  /\ \/ /\ ring[p] > 0
        /\ callback' = p /\ Goes(p, "start_tx")
        /\ UNCHANGED <<state, op, request, enable>>
     \/ Gives(p) /\ UNCHANGED callback
  /\ UNCHANGED <<sound, pcm, holder, appl>>

(* pcm_trans_start_tx: the pcm worker has a row for START in IDLE only.    *)
StartsTx(p) ==
  /\ wpc[p] = "start_tx"
  /\ pcm' = IF RowEvent(TxLookup, pcm, {"START"}) = {{"START"}} THEN "TX_RUN" ELSE pcm
  /\ Goes(p, "hold")
  /\ UNCHANGED <<state, op, request, enable, sound, callback, holder, appl>>

Holds(p) ==
  /\ wpc[p] = "hold"
  /\ holder' = p
  /\ Returns(p, "PLAY")
  /\ UNCHANGED <<enable, sound, pcm, callback, appl>>

-----------------------------------------------------------------------------
(* stop, pause, break and seek begin alike; a break that is paused is only *)
(* called so.                                                              *)
Begins(p) ==
  /\ \/ /\ \E o \in {"STOP", "BREAK", "SEEK"} : Handles(p, o) /\ Halts(p, o)
        /\ UNCHANGED <<state, request>>
     \/ /\ Handles(p, "PAUSE") /\ state[p] = "PLAY" /\ Halts(p, "PAUSE")
        /\ UNCHANGED <<state, request>>
     \/ /\ Handles(p, "PAUSE") /\ state[p] = "BREAK"
        /\ state' = [state EXCEPT ![p] = "PAUSE"] /\ request' = [request EXCEPT ![p] = "none"]
        /\ UNCHANGED <<wpc, op, enable>>
  /\ UNCHANGED <<sound, codec, appl>>

(* audio_player_proc_monitor looks at the pcm worker.                      *)
Monitor(p) ==
  /\ wpc[p] = "idle" /\ state[p] = "PLAY" /\ request[p] = "none"
  /\ pcm = "TX_DONE"
  /\ Halts(p, "monitor")
  /\ UNCHANGED <<state, request, sound, codec, appl>>

(* com_player_auto_resume: pcm worker and decoder wait for each other.     *)
MonitorResumes(p) ==
  /\ wpc[p] = "idle" /\ state[p] = "PLAY" /\ request[p] = "none"
  /\ pcm = "TX_PAUSE" /\ (decoder[p] = "PAUSE" \/ ring[p] = 1)
  /\ pcm' = "TX_RUN"
  /\ UNCHANGED <<worker, enable, sound, callback, holder, appl>>

(* Fault: the callback stays.                                              *)
HaltsRegistered(p) ==
  /\ wpc[p] = "halt"
  /\ Goes(p, IF holder = p THEN "stop_tx" ELSE "decoder")
  /\ UNCHANGED <<state, op, request, enable, sound, codec, appl>>

Halt(p) ==
  /\ wpc[p] = "halt"
  /\ IF holder = p
     THEN callback' = Nobody /\ Goes(p, "stop_tx")
     ELSE UNCHANGED callback /\ Goes(p, "decoder")
  /\ UNCHANGED <<state, op, request, enable, sound, pcm, holder, appl>>

(* Fault: the codec is given up before it is stopped.                      *)
StopsTxLate(p) ==
  \/ /\ wpc[p] = "stop_tx"
     /\ holder' = Nobody /\ Goes(p, "give_up")
     /\ UNCHANGED <<state, op, request, enable, sound, pcm, callback, appl>>
  \/ /\ wpc[p] = "give_up"
     /\ pcm' = "IDLE" /\ Goes(p, "decoder")
     /\ UNCHANGED <<state, op, request, enable, sound, callback, holder, appl>>

(* pcm_trans_stop_tx, then the holder is cleared.                          *)
StopsTx(p) ==
  \/ /\ wpc[p] = "stop_tx"
     /\ pcm' = "IDLE" /\ Goes(p, "give_up")
     /\ UNCHANGED <<state, op, request, enable, sound, callback, holder, appl>>
  \/ /\ wpc[p] = "give_up"
     /\ holder' = Nobody /\ Goes(p, "decoder")
     /\ UNCHANGED <<state, op, request, enable, sound, pcm, callback, appl>>

(* The decoder is stopped, paused, or paused and sent elsewhere.           *)
Stopped(p) ==
  /\ wpc[p] = "decoder" /\ op[p] \in {"STOP", "monitor"}
  /\ decoder' = [decoder EXCEPT ![p] = "none"]
  /\ ring' = [ring EXCEPT ![p] = 0] /\ left' = [left EXCEPT ![p] = 0]
  /\ Returns(p, "IDLE")
  /\ UNCHANGED <<enable, codec, appl>>

Paused(p) ==
  /\ wpc[p] = "decoder" /\ op[p] \in {"PAUSE", "BREAK"}
  /\ decoder' = [decoder EXCEPT ![p] = "PAUSE"]
  /\ Returns(p, op[p])
  /\ UNCHANGED <<enable, ring, left, codec, appl>>

(* Fault: the position is not held against the length.                     *)
SoughtUnclamped(p) ==
  /\ wpc[p] = "decoder" /\ op[p] = "SEEK"
  /\ decoder' = [decoder EXCEPT ![p] = "PAUSE"]
  /\ ring' = [ring EXCEPT ![p] = 0] /\ left' \in {[left EXCEPT ![p] = n] : n \in -1 .. Length}
  /\ Goes(p, "resume")
  /\ UNCHANGED <<state, op, request, enable, codec, appl>>

Sought(p) ==
  /\ wpc[p] = "decoder" /\ op[p] = "SEEK"
  /\ decoder' = [decoder EXCEPT ![p] = "PAUSE"]
  /\ ring' = [ring EXCEPT ![p] = 0] /\ left' \in {[left EXCEPT ![p] = n] : n \in 0 .. Length}
  /\ Goes(p, "resume")
  /\ UNCHANGED <<state, op, request, enable, codec, appl>>

ResumeBegins(p) ==
  /\ Handles(p, "RESUME")
  /\ Goes(p, "resume") /\ op' = [op EXCEPT ![p] = "RESUME"]
  /\ UNCHANGED <<state, request, enable, sound, codec, appl>>

(* Fault: the decoder may not be resumed.                                  *)
ResumesDisabled(p) ==
  /\ wpc[p] = "resume" /\ holder = Nobody
  /\ callback' = p /\ Goes(p, "start_tx")
  /\ UNCHANGED <<state, op, request, enable, sound, pcm, holder, appl>>

(* com_player_resume; a seek does not look whether it was refused, and a   *)
(* file may not open again.                                                *)
Resumes(p) ==
  /\ wpc[p] = "resume"
  /\ \/ /\ holder = Nobody
        /\ enable' = [enable EXCEPT ![p] = TRUE]
        /\ callback' = p /\ Goes(p, "start_tx")
        /\ UNCHANGED <<state, op, request>>
     \/ /\ op[p] = "RESUME" \/ holder # Nobody
        /\ IF op[p] = "RESUME" THEN Gives(p) ELSE Returns(p, "PLAY") /\ UNCHANGED enable
        /\ UNCHANGED callback
  /\ UNCHANGED <<sound, pcm, holder, appl>>

PlayerStep(p) ==
  \/ Drops(p) \/ Starts(p) \/ Opened(p) \/ Tests(p) \/ Hears(p) \/ StartsTx(p) \/ Holds(p)
  \/ Begins(p) \/ Monitor(p) \/ MonitorResumes(p) \/ Halt(p) \/ StopsTx(p)
  \/ Stopped(p) \/ Paused(p) \/ Sought(p) \/ ResumeBegins(p) \/ Resumes(p)

-----------------------------------------------------------------------------
(* wait_decoder: com_player_start has not come to its end.                 *)
WaitDecoder(p) == op[p] = "START" /\ wpc[p] \in {"hear", "start_tx", "hold"}

(* __decoder_output_callback resumes the pcm worker, but for the outputs   *)
(* that com_player_start waits for.                                        *)
Decodes(p) ==
  /\ decoder[p] = "RUN" /\ left[p] > 0 /\ ring[p] = 0
  /\ left' = [left EXCEPT ![p] = @ - 1] /\ ring' = [ring EXCEPT ![p] = 1]
  /\ pcm' = IF pcm = "TX_PAUSE" /\ enable[p] /\ ~WaitDecoder(p) THEN "TX_RUN" ELSE pcm
  /\ UNCHANGED <<worker, enable, decoder, callback, holder, appl>>

(* pcm_trans_tx_run_poll: a request of the registered player's ring; the   *)
(* silence before the first data is left out.                              *)
Requests ==
  /\ pcm = "TX_RUN"
  /\ IF callback = Nobody
     THEN pcm' = "TX_PAUSE" /\ UNCHANGED <<decoder, ring>>
     ELSE LET p    == callback
              done == left[p] = 0 /\ ring[p] = 0
          IN  /\ pcm' = IF ring[p] > 0 THEN "TX_RUN" ELSE IF done THEN "TX_DONE" ELSE "TX_PAUSE"
              /\ ring' = [ring EXCEPT ![p] = 0]
              /\ decoder' = IF decoder[p] = "PAUSE" /\ enable[p] /\ ~done
                            THEN [decoder EXCEPT ![p] = "RUN"] ELSE decoder
  /\ UNCHANGED <<worker, enable, left, callback, holder, appl>>

-----------------------------------------------------------------------------
(* The application: audio_player_start, which stops first, or another call,*)
(* made if the state asks for it, but not to a player that has not yet     *)
(* acknowledged the last one.                                              *)
Call(p) ==
  /\ app = "idle" /\ calls < MaxCalls /\ request[p] = "none"
  /\ \E e \in Commands \ {"START"} :
       /\ e \in {"PAUSE"} => state[p] \in {"PLAY", "BREAK"}
       /\ e = "RESUME" => state[p] \in {"PAUSE", "BREAK"}
       /\ e \in {"BREAK", "SEEK"} => state[p] = "PLAY"
       /\ request' = [request EXCEPT ![p] = e]
       /\ app' \in IF e = "STOP" THEN {"stop", "call"} ELSE {"call"}
  /\ caller' = p /\ calls' = calls + 1
  /\ finish' \in IF app' = "stop" THEN BOOLEAN ELSE {FALSE}
  /\ UNCHANGED <<state, wpc, op, enable, sound, codec>>

(* A call returns when it has been acknowledged; or, of a slow player,     *)
(* when it has been waited for long enough.                                *)
Answered ==
  \/ request[caller] = "none"
  \/ Slow /\ request[caller] = "START" /\ wpc[caller] \in {"open", "hear"}

PostsStart ==
  /\ app = "stop" /\ Answered
  /\ request' = [request EXCEPT ![caller] = "START"]
  /\ app' = "call"
  /\ UNCHANGED <<state, wpc, op, enable, sound, codec, caller, finish, calls>>

CallReturns ==
  /\ app = "call" /\ Answered
  /\ app' = IF finish THEN "finish" ELSE "idle"
  /\ UNCHANGED <<worker, enable, sound, codec, caller, finish, calls>>

(* With wait_finish the call returns when the player is idle again.        *)
Finished ==
  /\ app = "finish" /\ state[caller] = "IDLE"
  /\ app' = "idle"
  /\ UNCHANGED <<worker, enable, sound, codec, caller, finish, calls>>

AppReturns == PostsStart \/ CallReturns \/ Finished

Next ==
  \/ \E p \in Players : PlayerStep(p) \/ Decodes(p) \/ Call(p)
  \/ Requests \/ AppReturns

Spec == Init /\ [][Next]_vars

(* All threads are scheduled; the application need not make a call.        *)
FairSpec ==
  /\ Spec
  /\ \A p \in Players : WF_vars(PlayerStep(p)) /\ WF_vars(Decodes(p))
  /\ WF_vars(Requests) /\ WF_vars(AppReturns)

-----------------------------------------------------------------------------
(* Who plays has the codec, and the codec asks nobody else: the state that *)
(* the application sees, the holder, the registered callback and the pcm   *)
(* worker agree whenever the player's worker is at rest                    *)
(* (common_player.c:86, 115-128, 137-142, 196-211).                        *)
PlayHoldsCodec ==
  \A p \in Players :
    wpc[p] = "idle" => (state[p] = "PLAY" <=> holder = p)
                       /\ (state[p] = "PLAY" => callback = p /\ pcm # "IDLE" /\ enable[p])

(* A request never reaches a player whose decoder is gone                  *)
(* (common_player.c:137-160, 409-434).                                     *)
CallbackAlive == callback # Nobody => decoder[callback] # "none"

(* A player that ends by itself has played its own file to the end: what   *)
(* its monitor sees in the pcm worker, which is shared, is its own doing   *)
(* (common_player.c:273-276, audio_player_process.c:192-195).              *)
PlaysToEnd ==
  \A p \in Players : wpc[p] = "halt" /\ op[p] = "monitor" => left[p] = 0 /\ ring[p] = 0

(* A player does not play for ever, whatever the others do                 *)
(* (audio_player_process.c:168-201; audio_test.c:232-246 waits for it).    *)
PlayEnds == \A p \in Players : state[p] = "PLAY" ~> state[p] # "PLAY"

(* Every call returns, those that wait for the end of a playback too       *)
(* (audio_player_process.c:378-418).                                       *)
CallsReturn == app # "idle" ~> app = "idle"
=============================================================================
