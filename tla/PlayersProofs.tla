---------------------------- MODULE PlayersProofs ----------------------------
(***************************************************************************)
(* For any number of players and files of every length: as long as no call *)
(* returns before its action has ended, one player at a time has the codec *)
(* and what the pcm worker does is that player's doing.                    *)
(***************************************************************************)
EXTENDS Players, TLAPS

(* An action that was asked for is not acknowledged before it ends, and    *)
(* the application waits for it: there is one at a time.  Monitors run     *)
(* beside it.                                                              *)
Asked(p) == wpc[p] # "idle" /\ op[p] # "monitor"

ActionInv ==
  \A p \in Players :
    /\ Asked(p) => request[p] # "none"
    /\ request[p] # "none" => p = caller /\ app \in {"stop", "call"}
    /\ wpc[p] \in {"open", "test", "hear"} => op[p] = "START" /\ state[p] = "IDLE"
    /\ wpc[p] \in {"start_tx", "hold"} => op[p] \in {"START", "SEEK", "RESUME"}
    /\ wpc[p] = "resume" => op[p] = "SEEK" \/ (op[p] = "RESUME" /\ state[p] \in {"PAUSE", "BREAK"})
    /\ wpc[p] \in {"halt", "stop_tx", "give_up", "decoder"} => op[p] \notin {"START", "RESUME"}
    /\ wpc[p] = "halt" /\ op[p] \in {"SEEK", "monitor"} => state[p] = "PLAY"

(* The holder is in PLAY, on its way out of it at most, and who is on its  *)
(* way to the codec, or back to it, found it free.                         *)
HolderInv ==
  \A p \in Players :
    /\ holder = p => state[p] = "PLAY" /\ wpc[p] \in {"idle", "halt", "stop_tx", "give_up"}
    /\ wpc[p] \in {"idle", "halt"} /\ state[p] = "PLAY" => holder = p
    /\ wpc[p] \in {"stop_tx", "give_up"} => holder = p
    /\ wpc[p] \in {"hear", "start_tx", "hold"} => holder = Nobody
    /\ wpc[p] \in {"decoder", "resume"} /\ op[p] = "SEEK" => holder = Nobody

(* The callback is the holder's, or of the one that is about to be it.     *)
CallbackInv ==
  \A p \in Players :
    /\ callback = p <=> \/ holder = p /\ wpc[p] \in {"idle", "halt"}
                        \/ wpc[p] \in {"start_tx", "hold"}
    /\ wpc[p] = "hear" \/ (callback = p /\ wpc[p] # "halt") => enable[p]

(* The decoder is there until the player is idle.                          *)
DecoderInv ==
  \A p \in Players :
    state[p] # "IDLE" \/ wpc[p] \in {"hear", "start_tx", "hold", "resume"}
      => decoder[p] # "none"

(* The pcm worker runs for the callback, and idles for the next player.    *)
PcmInv ==
  /\ callback = Nobody => pcm = "IDLE" \/ \E q \in Players : wpc[q] = "stop_tx"
  /\ \A p \in Players :
       /\ callback = p => (pcm = "IDLE" <=> wpc[p] = "start_tx")
       /\ callback = p /\ pcm = "TX_DONE" => left[p] = 0 /\ ring[p] = 0

IInv ==
  TypeOK /\ ActionInv /\ HolderInv /\ CallbackInv /\ DecoderInv /\ PcmInv /\ PlaysToEnd
-----------------------------------------------------------------------------
(* What the rows of audio_player_process.c and of pcm_trans.c say.         *)
LEMMA PlayerRows ==
  ASSUME NEW s, NEW e, RowEvent(PlayerLookup, s, {e}) = {{e}}
  PROVE  /\ e = "START" => s = "IDLE"
         /\ e = "RESUME" => s \in {"PAUSE", "BREAK"}
         /\ e = "SEEK" => s = "PLAY"
<1>1. PICK i \in DOMAIN PlayerLookup :
        PlayerLookup[i].state = s /\ PlayerLookup[i].event = {e}
  <2>1. {e} \in RowEvent(PlayerLookup, s, {e})
    OBVIOUS
  <2> QED BY <2>1 DEF RowEvent
<1>2. i \in 1 .. 11
  BY DEF PlayerLookup
<1>3. /\ i \in {1} => PlayerLookup[i].state = "IDLE" /\ PlayerLookup[i].event = {"START"}
      /\ i \in {2, 3, 4} => PlayerLookup[i].event = {"STOP"}
      /\ i \in {5, 6} => PlayerLookup[i].event = {"PAUSE"}
      /\ i \in {7} => PlayerLookup[i].event = {"BREAK"}
      /\ i \in {8, 9} => PlayerLookup[i].state \in {"PAUSE", "BREAK"} /\ PlayerLookup[i].event = {"RESUME"}
      /\ i \in {10} => PlayerLookup[i].state = "PLAY" /\ PlayerLookup[i].event = {"SEEK"}
      /\ i \in {11} => PlayerLookup[i].event = {}
  BY DEF PlayerLookup, Row, PollRow
<1> QED BY <1>1, <1>2, <1>3

(* START begins in IDLE.                                                   *)
LEMMA TxStart == RowEvent(TxLookup, "IDLE", {"START"}) = {{"START"}}
<1> DEFINE rows == {i \in DOMAIN TxLookup : /\ TxLookup[i].state = "IDLE"
                                            /\ TxLookup[i].event \subseteq {"START"}}
<1>1. DOMAIN TxLookup = 1 .. 6
  BY DEF TxLookup
<1>2. /\ TxLookup[1].state = "IDLE" /\ TxLookup[1].event = {"START"}
      /\ \A i \in 2 .. 6 : TxLookup[i].state # "IDLE"
  BY DEF TxLookup, Row, PollRow
<1>3. rows = {1}
  BY <1>1, <1>2
<1>4. RowEvent(TxLookup, "IDLE", {"START"})
        = {TxLookup[i].event : i \in {r \in rows : \A q \in rows : r <= q}}
  BY DEF RowEvent
<1> HIDE DEF rows
<1>5. {r \in rows : \A q \in rows : r <= q} = {1}
  BY <1>3
<1> QED BY <1>2, <1>4, <1>5
-----------------------------------------------------------------------------
(* A player that gives up a start keeps the types.                         *)
LEMMA GivesType ==
  ASSUME TypeOK, NEW p \in Players, Gives(p)
  PROVE  /\ wpc' = [wpc EXCEPT ![p] = "halt"]
         /\ enable' \in [Players -> BOOLEAN] /\ op' \in [Players -> Commands \cup {"monitor"}]
         /\ UNCHANGED <<state, request>>
BY DEF Gives, Halts, Goes, TypeOK, Commands

(* Every variable keeps its type, whatever the calls do.                   *)
THEOREM TypeCorrect == Spec => []TypeOK
<1>1. Init => TypeOK
  <2> SUFFICES ASSUME Init PROVE TypeOK
    OBVIOUS
  <2>1. /\ ring \in [Players -> 0 .. 1] /\ left \in [Players -> 0 .. Length]
        /\ calls \in 0 .. MaxCalls
    BY PlayersAssumption DEF Init
  <2>2. enable \in [Players -> BOOLEAN] /\ finish \in BOOLEAN
    BY DEF Init
  <2> QED BY <2>1, <2>2 DEF Init, TypeOK, Commands
<1>2. TypeOK /\ [Next]_vars => TypeOK'
  <2> SUFFICES ASSUME TypeOK, [Next]_vars PROVE TypeOK'
    OBVIOUS
  <2> USE DEF worker, sound, codec, appl
  <2>1. ASSUME NEW p \in Players, PlayerStep(p) PROVE TypeOK'
    <3>1. CASE Drops(p) \/ Starts(p) \/ ResumeBegins(p)
      BY <3>1 DEF Drops, Starts, ResumeBegins, Goes, TypeOK, Commands
    <3>2. CASE Opened(p)
      BY <3>2 DEF Opened, Gives, Halts, Goes, TypeOK, Commands
    <3>3. CASE Tests(p)
      <4>1. CASE holder = Nobody
        <5>1. /\ wpc' = [wpc EXCEPT ![p] = "hear"] /\ enable' = [enable EXCEPT ![p] = TRUE]
              /\ decoder' = [decoder EXCEPT ![p] = "RUN"]
              /\ UNCHANGED <<state, op, request, ring, codec, appl>>
          BY <3>3, <4>1 DEF Tests, Goes
        <5>2. left' \in [Players -> 0 .. Length]
          BY <3>3, <4>1 DEF Tests, TypeOK
        <5> QED BY <5>1, <5>2 DEF TypeOK
      <4>2. CASE holder # Nobody /\ Gives(p) /\ UNCHANGED <<sound, codec, appl>>
        BY <4>2, GivesType DEF TypeOK
      <4> QED BY <3>3, <4>1, <4>2 DEF Tests
    <3>4. CASE Hears(p)
      <4>1. CASE callback' = p
        BY <3>4, <4>1, GivesType DEF Hears, Goes, TypeOK
      <4>2. CASE Gives(p) /\ UNCHANGED callback
        BY <3>4, <4>2, GivesType DEF Hears, TypeOK
      <4> QED BY <3>4, <4>1, <4>2 DEF Hears
    <3>5. CASE StartsTx(p)
      BY <3>5 DEF StartsTx, Goes, TypeOK
    <3>6. CASE Holds(p)
      BY <3>6 DEF Holds, Returns, Goes, TypeOK, Commands
    <3>7. CASE Begins(p)
      <4>1. CASE \E o \in {"STOP", "BREAK", "SEEK"} : Halts(p, o) /\ UNCHANGED <<state, request>>
        BY <3>7, <4>1 DEF Begins, Halts, Goes, TypeOK, Commands
      <4>2. CASE Halts(p, "PAUSE") /\ UNCHANGED <<state, request>>
        BY <3>7, <4>2 DEF Begins, Halts, Goes, TypeOK, Commands
      <4>3. CASE UNCHANGED <<wpc, op, enable>>
        BY <3>7, <4>3 DEF Begins, TypeOK
      <4> QED BY <3>7, <4>1, <4>2, <4>3 DEF Begins
    <3>8. CASE Monitor(p)
      BY <3>8 DEF Monitor, Halts, Goes, TypeOK, Commands
    <3>9. CASE MonitorResumes(p) \/ Halt(p) \/ StopsTx(p)
      BY <3>9 DEF MonitorResumes, Halt, StopsTx, Goes, TypeOK
    <3>10. CASE Stopped(p)
      BY <3>10, PlayersAssumption DEF Stopped, Returns, Goes, TypeOK, Commands
    <3>11. CASE Paused(p)
      BY <3>11 DEF Paused, Returns, Goes, TypeOK, Commands
    <3>12. CASE Sought(p)
      BY <3>12, PlayersAssumption DEF Sought, Goes, TypeOK
    <3>13. CASE Resumes(p)
      <4>1. CASE /\ callback' = p /\ Goes(p, "start_tx") /\ enable' = [enable EXCEPT ![p] = TRUE]
                 /\ UNCHANGED <<state, op, request>>
        BY <3>13, <4>1 DEF Resumes, Goes, TypeOK
      <4>2. CASE Gives(p) /\ UNCHANGED callback
        BY <3>13, <4>2, GivesType DEF Resumes, TypeOK
      <4>3. CASE Returns(p, "PLAY") /\ UNCHANGED <<enable, callback>>
        BY <3>13, <4>3 DEF Resumes, Returns, Goes, TypeOK, Commands
      <4> QED BY <3>13, <4>1, <4>2, <4>3 DEF Resumes
    <3> QED BY <2>1, <3>1, <3>2, <3>3, <3>4, <3>5, <3>6, <3>7, <3>8, <3>9, <3>10, <3>11, <3>12,
               <3>13 DEF PlayerStep
  <2>2. ASSUME NEW p \in Players, Decodes(p) PROVE TypeOK'
    <3>1. left' \in [Players -> 0 .. Length]
      <4>1. left[p] - 1 \in 0 .. Length
        BY <2>2, PlayersAssumption DEF Decodes, TypeOK
      <4> QED BY <2>2, <4>1 DEF Decodes, TypeOK
    <3> QED BY <2>2, <3>1 DEF Decodes, TypeOK
  <2>3. ASSUME NEW p \in Players, Call(p) PROVE TypeOK'
    <3>1. calls' \in 0 .. MaxCalls
      BY <2>3, PlayersAssumption DEF Call, TypeOK
    <3>2. request' \in [Players -> Commands \cup {"none"}] /\ app' \in {"stop", "call"}
      BY <2>3 DEF Call, TypeOK
    <3>3. finish' \in BOOLEAN
      BY <2>3 DEF Call
    <3> QED BY <2>3, <3>1, <3>2, <3>3 DEF Call, TypeOK
  <2>4. CASE Requests
    BY <2>4 DEF Requests, TypeOK
  <2>5. CASE AppReturns
    BY <2>5 DEF AppReturns, PostsStart, CallReturns, Finished, TypeOK, Commands
  <2>6. CASE UNCHANGED vars
    BY <2>6 DEF vars, TypeOK
  <2> QED BY <2>1, <2>2, <2>3, <2>4, <2>5, <2>6 DEF Next
<1> QED BY <1>1, <1>2, PTL DEF Spec
-----------------------------------------------------------------------------
Inv == ActionInv /\ HolderInv /\ CallbackInv /\ DecoderInv /\ PcmInv /\ PlaysToEnd

(* One player at most asks for the codec.                                  *)
LEMMA OneAsks ==
  ASSUME ActionInv, NEW p \in Players, NEW q \in Players, Asked(p), Asked(q)
  PROVE  p = q
BY DEF ActionInv

(* An error is found before there is a callback, or a holder.              *)
LEMMA GivesKeeps ==
  ASSUME IInv, NEW p \in Players, Gives(p), UNCHANGED <<sound, codec, appl>>,
         wpc[p] \in {"open", "test", "hear", "resume"}, op[p] \in {"START", "RESUME"}
  PROVE  Inv'
<1> USE DEF IInv, sound, codec, appl, Inv, Asked
<1>1. /\ wpc' = [wpc EXCEPT ![p] = "halt"] /\ op' = [op EXCEPT ![p] = "STOP"]
      /\ enable' = [enable EXCEPT ![p] = FALSE]
      /\ state[p] # "PLAY" /\ holder # p /\ callback # p /\ request[p] # "none"
      /\ UNCHANGED <<state, request, sound, codec, appl>>
  BY DEF Gives, Halts, Goes, ActionInv, HolderInv, CallbackInv
<1>2. ActionInv'
  BY <1>1 DEF ActionInv, TypeOK
<1>3. HolderInv'
  BY <1>1 DEF HolderInv, TypeOK
<1>4. CallbackInv'
  BY <1>1 DEF CallbackInv, TypeOK
<1>5. DecoderInv' /\ PlaysToEnd'
  BY <1>1 DEF DecoderInv, PlaysToEnd, TypeOK
<1>6. PcmInv'
  BY <1>1 DEF PcmInv, TypeOK
<1> QED BY <1>2, <1>3, <1>4, <1>5, <1>6

(* Nobody else is on the way to the codec, and nothing is left of the last *)
(* one who had it.                                                         *)
LEMMA CodecIsFree ==
  ASSUME IInv, NEW p \in Players, Asked(p), holder = Nobody,
         wpc[p] \in {"test", "hear", "resume"}
  PROVE  callback = Nobody /\ pcm = "IDLE"
<1> USE DEF IInv
<1>1. ASSUME NEW q \in Players PROVE callback # q /\ wpc[q] # "stop_tx"
  <2>1. wpc[q] \notin {"start_tx", "hold"}
    BY OneAsks DEF Asked, ActionInv
  <2> QED BY <2>1, PlayersAssumption DEF CallbackInv, HolderInv
<1>2. callback = Nobody
  BY <1>1 DEF TypeOK
<1> QED BY <1>1, <1>2 DEF PcmInv

(* The steps of a start, as far as the codec, keep the invariant.          *)
LEMMA StartKeeps ==
  ASSUME IInv, ~Slow, NEW p \in Players,
         Drops(p) \/ Starts(p) \/ ResumeBegins(p) \/ Opened(p) \/ Tests(p) \/ Hears(p)
  PROVE  Inv'
<1> USE DEF IInv, worker, sound, codec, appl, Goes, Inv, Asked
<1>1. CASE Drops(p)
  <2>1. /\ wpc[p] = "idle" /\ request' = [request EXCEPT ![p] = "none"]
        /\ UNCHANGED <<state, wpc, op, enable, sound, codec, appl>>
    BY <1>1 DEF Drops
  <2>2. ActionInv'
    BY <2>1 DEF ActionInv, TypeOK
  <2>3. HolderInv' /\ CallbackInv' /\ DecoderInv' /\ PcmInv' /\ PlaysToEnd'
    BY <2>1 DEF HolderInv, CallbackInv, DecoderInv, PcmInv, PlaysToEnd
  <2> QED BY <2>2, <2>3
<1>2. CASE Starts(p)
  <2>1. /\ wpc[p] = "idle" /\ state[p] = "IDLE" /\ request[p] = "START"
        /\ wpc' = [wpc EXCEPT ![p] = "open"] /\ op' = [op EXCEPT ![p] = "START"]
        /\ UNCHANGED <<state, request, enable, sound, codec, appl>>
    BY <1>2, PlayerRows DEF Starts, Handles, PlayerRow
  <2>2. ActionInv'
    BY <2>1 DEF ActionInv, TypeOK
  <2>3. HolderInv'
    BY <2>1 DEF HolderInv, TypeOK
  <2>4. CallbackInv' /\ DecoderInv' /\ PlaysToEnd'
    BY <2>1 DEF CallbackInv, DecoderInv, PlaysToEnd, HolderInv, TypeOK
  <2>5. PcmInv'
    BY <2>1 DEF PcmInv, TypeOK
  <2> QED BY <2>2, <2>3, <2>4, <2>5
<1>3. CASE ResumeBegins(p)
  <2>1. /\ wpc[p] = "idle" /\ state[p] \in {"PAUSE", "BREAK"} /\ request[p] = "RESUME"
        /\ wpc' = [wpc EXCEPT ![p] = "resume"] /\ op' = [op EXCEPT ![p] = "RESUME"]
        /\ UNCHANGED <<state, request, enable, sound, codec, appl>>
    BY <1>3, PlayerRows DEF ResumeBegins, Handles, PlayerRow
  <2>2. ActionInv'
    BY <2>1 DEF ActionInv, TypeOK
  <2>3. HolderInv'
    BY <2>1 DEF HolderInv, TypeOK
  <2>4. CallbackInv' /\ DecoderInv' /\ PlaysToEnd'
    BY <2>1 DEF CallbackInv, DecoderInv, PlaysToEnd, HolderInv, TypeOK
  <2>5. PcmInv'
    BY <2>1 DEF PcmInv, TypeOK
  <2> QED BY <2>2, <2>3, <2>4, <2>5
<1>4. CASE Opened(p)
  <2>1. wpc[p] = "open" /\ op[p] = "START" /\ state[p] = "IDLE"
    BY <1>4 DEF Opened, ActionInv
  <2>2. CASE Gives(p) /\ UNCHANGED <<sound, codec, appl>>
    BY <2>1, <2>2, GivesKeeps
  <2>3. CASE /\ wpc' = [wpc EXCEPT ![p] = "test"]
             /\ UNCHANGED <<state, op, request, enable, sound, codec, appl>>
    <3>1. ActionInv'
      BY <2>1, <2>3 DEF ActionInv, TypeOK
    <3>2. HolderInv'
      BY <2>1, <2>3 DEF HolderInv, TypeOK
    <3>3. CallbackInv' /\ DecoderInv' /\ PlaysToEnd'
      BY <2>1, <2>3 DEF CallbackInv, DecoderInv, PlaysToEnd, HolderInv, TypeOK
    <3>4. PcmInv'
      BY <2>1, <2>3 DEF PcmInv, TypeOK
    <3> QED BY <3>1, <3>2, <3>3, <3>4
  <2> QED BY <1>4, <2>2, <2>3 DEF Opened
<1>5. CASE Tests(p)
  <2>1. wpc[p] = "test" /\ op[p] = "START" /\ state[p] = "IDLE"
    BY <1>5 DEF Tests, ActionInv
  <2>2. CASE Gives(p) /\ UNCHANGED <<sound, codec, appl>>
    BY <2>1, <2>2, GivesKeeps
  <2>3. CASE holder = Nobody
    <3>1. /\ wpc' = [wpc EXCEPT ![p] = "hear"] /\ enable' = [enable EXCEPT ![p] = TRUE]
          /\ decoder' = [decoder EXCEPT ![p] = "RUN"]
          /\ UNCHANGED <<state, op, request, ring, codec, appl>>
      BY <1>5, <2>3 DEF Tests
    <3>2. /\ left' \in [Players -> 0 .. Length]
          /\ \A q \in Players \ {p} : left'[q] = left[q]
      BY <1>5, <2>3 DEF Tests, TypeOK
    <3>3. callback = Nobody /\ pcm = "IDLE"
      BY <2>1, <2>3, CodecIsFree
    <3>4. ActionInv'
      BY <2>1, <3>1 DEF ActionInv, TypeOK
    <3>5. HolderInv'
      BY <2>1, <2>3, <3>1 DEF HolderInv, TypeOK
    <3>6. CallbackInv' /\ DecoderInv'
      BY <2>1, <3>1, <3>3, PlayersAssumption DEF CallbackInv, DecoderInv, TypeOK
    <3>7. PlaysToEnd'
      BY <2>1, <3>1, <3>2 DEF PlaysToEnd, TypeOK
    <3>8. PcmInv'
      BY <3>1, <3>3, PlayersAssumption DEF PcmInv
    <3> QED BY <3>4, <3>5, <3>6, <3>7, <3>8
  <2> QED BY <1>5, <2>2, <2>3 DEF Tests
<1>6. CASE Hears(p)
  <2>1. wpc[p] = "hear" /\ op[p] = "START" /\ state[p] = "IDLE" /\ holder = Nobody
    BY <1>6 DEF Hears, ActionInv, HolderInv
  <2>2. CASE Gives(p) /\ UNCHANGED <<sound, codec, appl>>
    BY <2>1, <2>2, GivesKeeps
  <2>3. CASE /\ callback' = p /\ Goes(p, "start_tx")
             /\ UNCHANGED <<state, op, request, enable, sound, pcm, holder, appl>>
    <3>1. callback = Nobody /\ pcm = "IDLE"
      BY <2>1, CodecIsFree
    <3>2. ActionInv'
      BY <2>1, <2>3 DEF ActionInv, TypeOK
    <3>3. HolderInv'
      BY <2>1, <2>3 DEF HolderInv, TypeOK
    <3>4. enable[p]
      BY <2>1 DEF CallbackInv
    <3>5. CallbackInv' /\ DecoderInv' /\ PlaysToEnd'
      BY <2>1, <2>3, <3>1, <3>4, PlayersAssumption
      DEF CallbackInv, DecoderInv, PlaysToEnd, HolderInv, TypeOK
    <3>6. PcmInv'
      BY <2>1, <2>3, <3>1, PlayersAssumption DEF PcmInv, TypeOK
    <3> QED BY <3>2, <3>3, <3>5, <3>6
  <2> QED BY <1>6, <2>2, <2>3 DEF Hears
<1> QED BY <1>1, <1>2, <1>3, <1>4, <1>5, <1>6

(* The codec is taken by the one that found it free, and given up by the   *)
(* one that has it.                                                        *)
LEMMA CodecKeeps ==
  ASSUME IInv, ~Slow, NEW p \in Players,
         StartsTx(p) \/ Holds(p) \/ Halt(p) \/ StopsTx(p) \/ Resumes(p)
  PROVE  Inv'
<1> USE DEF IInv, worker, sound, codec, appl, Goes, Inv, Asked
<1>1. CASE StartsTx(p)
  <2>1. /\ wpc[p] = "start_tx" /\ holder = Nobody /\ callback = p /\ pcm = "IDLE"
        /\ op[p] \in {"START", "SEEK", "RESUME"}
    BY <1>1 DEF StartsTx, ActionInv, HolderInv, CallbackInv, PcmInv
  <2>2. /\ wpc' = [wpc EXCEPT ![p] = "hold"] /\ pcm' = "TX_RUN"
        /\ UNCHANGED <<state, op, request, enable, sound, callback, holder, appl>>
    BY <1>1, <2>1, TxStart DEF StartsTx
  <2>3. ActionInv'
    BY <2>1, <2>2 DEF ActionInv, TypeOK
  <2>4. HolderInv'
    BY <2>1, <2>2 DEF HolderInv, TypeOK
  <2>5. CallbackInv' /\ DecoderInv' /\ PlaysToEnd'
    BY <2>1, <2>2 DEF CallbackInv, DecoderInv, PlaysToEnd, TypeOK
  <2>6. PcmInv'
    BY <2>1, <2>2, PlayersAssumption DEF PcmInv, TypeOK
  <2> QED BY <2>3, <2>4, <2>5, <2>6
<1>2. CASE Holds(p)
  <2>1. /\ wpc[p] = "hold" /\ holder = Nobody /\ callback = p /\ pcm # "IDLE"
        /\ op[p] \in {"START", "SEEK", "RESUME"} /\ decoder[p] # "none" /\ enable[p]
    BY <1>2 DEF Holds, ActionInv, HolderInv, CallbackInv, DecoderInv, PcmInv
  <2>2. /\ wpc' = [wpc EXCEPT ![p] = "idle"] /\ holder' = p
        /\ state' = [state EXCEPT ![p] = "PLAY"] /\ request' = [request EXCEPT ![p] = "none"]
        /\ UNCHANGED <<op, enable, sound, pcm, callback, appl>>
    BY <1>2, <2>1 DEF Holds, Returns
  <2>3. \A q \in Players \ {p} : ~Asked(q)
    BY <2>1, OneAsks DEF Asked
  <2>4. ActionInv'
    BY <2>1, <2>2 DEF ActionInv, TypeOK
  <2>5. HolderInv'
    BY <2>1, <2>2, <2>3, PlayersAssumption DEF HolderInv, ActionInv, TypeOK
  <2>6. CallbackInv'
    BY <2>1, <2>2, <2>3, PlayersAssumption DEF CallbackInv, ActionInv, TypeOK
  <2>7. DecoderInv' /\ PlaysToEnd' /\ PcmInv'
    BY <2>1, <2>2, PlayersAssumption DEF DecoderInv, PlaysToEnd, PcmInv, TypeOK
  <2> QED BY <2>4, <2>5, <2>6, <2>7
<1>3. CASE Halt(p)
  <2>1. /\ wpc[p] = "halt" /\ op[p] \notin {"START", "RESUME"}
        /\ UNCHANGED <<state, op, request, enable, sound, pcm, holder, appl>>
    BY <1>3 DEF Halt, ActionInv
  <2>2. CASE holder = p
    <3>1. /\ callback' = Nobody /\ wpc' = [wpc EXCEPT ![p] = "stop_tx"]
          /\ state[p] = "PLAY"
      BY <1>3, <2>2 DEF Halt, HolderInv
    <3>2. ActionInv'
      BY <2>1, <3>1 DEF ActionInv, TypeOK
    <3>3. HolderInv'
      BY <2>1, <2>2, <3>1, PlayersAssumption DEF HolderInv, TypeOK
    <3>4. CallbackInv'
      BY <2>1, <2>2, <3>1, PlayersAssumption DEF CallbackInv, HolderInv, TypeOK
    <3>5. DecoderInv' /\ PlaysToEnd'
      BY <2>1, <3>1 DEF DecoderInv, PlaysToEnd, TypeOK
    <3>6. PcmInv'
      BY <2>1, <3>1, PlayersAssumption DEF PcmInv, TypeOK
    <3> QED BY <3>2, <3>3, <3>4, <3>5, <3>6
  <2>3. CASE holder # p
    <3>1. /\ callback' = callback /\ wpc' = [wpc EXCEPT ![p] = "decoder"]
          /\ state[p] # "PLAY" /\ op[p] \notin {"SEEK", "monitor"}
      BY <1>3, <2>3 DEF Halt, HolderInv, ActionInv
    <3>2. ActionInv'
      BY <2>1, <3>1 DEF ActionInv, TypeOK
    <3>3. HolderInv'
      BY <2>1, <2>3, <3>1 DEF HolderInv, TypeOK
    <3>4. CallbackInv' /\ DecoderInv' /\ PlaysToEnd'
      BY <2>1, <2>3, <3>1 DEF CallbackInv, DecoderInv, PlaysToEnd, TypeOK
    <3>5. PcmInv'
      BY <2>1, <3>1 DEF PcmInv, TypeOK
    <3> QED BY <3>2, <3>3, <3>4, <3>5
  <2> QED BY <2>2, <2>3
<1>4. CASE StopsTx(p)
  <2>1. /\ wpc[p] \in {"stop_tx", "give_up"} /\ holder = p /\ state[p] = "PLAY"
        /\ op[p] \notin {"START", "RESUME"}
        /\ UNCHANGED <<state, op, request, enable, sound, callback, appl>>
    BY <1>4 DEF StopsTx, HolderInv, ActionInv
  <2>2. callback = Nobody
    <3>1. ASSUME NEW q \in Players PROVE callback # q
      BY <2>1, PlayersAssumption DEF CallbackInv, HolderInv
    <3> QED BY <3>1 DEF TypeOK
  <2>3. CASE wpc[p] = "stop_tx"
    <3>1. pcm' = "IDLE" /\ wpc' = [wpc EXCEPT ![p] = "give_up"] /\ holder' = holder
      BY <1>4, <2>3 DEF StopsTx
    <3>2. ActionInv'
      BY <2>1, <2>3, <3>1 DEF ActionInv, TypeOK
    <3>3. HolderInv'
      BY <2>1, <2>3, <3>1, PlayersAssumption DEF HolderInv, TypeOK
    <3>4. CallbackInv' /\ DecoderInv' /\ PlaysToEnd'
      BY <2>1, <2>2, <2>3, <3>1, PlayersAssumption
      DEF CallbackInv, DecoderInv, PlaysToEnd, TypeOK
    <3>5. PcmInv'
      BY <2>1, <2>2, <3>1, PlayersAssumption DEF PcmInv
    <3> QED BY <3>2, <3>3, <3>4, <3>5
  <2>4. CASE wpc[p] = "give_up"
    <3>1. holder' = Nobody /\ wpc' = [wpc EXCEPT ![p] = "decoder"] /\ pcm' = pcm
      BY <1>4, <2>4 DEF StopsTx
    <3>2. ActionInv'
      BY <2>1, <2>4, <3>1 DEF ActionInv, TypeOK
    <3>3. HolderInv'
      BY <2>1, <2>4, <3>1, PlayersAssumption DEF HolderInv, TypeOK
    <3>4. CallbackInv' /\ DecoderInv' /\ PlaysToEnd'
      BY <2>1, <2>2, <2>4, <3>1, PlayersAssumption
      DEF CallbackInv, DecoderInv, PlaysToEnd, HolderInv, TypeOK
    <3>5. PcmInv'
      BY <2>1, <2>2, <2>4, <3>1, PlayersAssumption DEF PcmInv, TypeOK
    <3> QED BY <3>2, <3>3, <3>4, <3>5
  <2> QED BY <2>1, <2>3, <2>4
<1>5. CASE Resumes(p)
  <2>1. wpc[p] = "resume" /\ UNCHANGED <<sound, pcm, holder, appl>> /\ decoder[p] # "none"
    BY <1>5 DEF Resumes, DecoderInv
  <2>2. CASE op[p] = "RESUME" /\ Gives(p) /\ UNCHANGED callback
    BY <2>1, <2>2, GivesKeeps
  <2>3. CASE /\ holder = Nobody
             /\ enable' = [enable EXCEPT ![p] = TRUE]
             /\ callback' = p /\ Goes(p, "start_tx")
             /\ UNCHANGED <<state, op, request>>
    <3>1. callback = Nobody /\ pcm = "IDLE" /\ op[p] \in {"SEEK", "RESUME"}
      BY <2>1, <2>3, CodecIsFree DEF ActionInv
    <3>2. ActionInv'
      BY <2>1, <2>3, <3>1 DEF ActionInv, TypeOK
    <3>3. HolderInv'
      BY <2>1, <2>3, <3>1 DEF HolderInv, TypeOK
    <3>4. CallbackInv' /\ DecoderInv' /\ PlaysToEnd'
      BY <2>1, <2>3, <3>1, PlayersAssumption
      DEF CallbackInv, DecoderInv, PlaysToEnd, HolderInv, TypeOK
    <3>5. PcmInv'
      BY <2>1, <2>3, <3>1, PlayersAssumption DEF PcmInv, TypeOK
    <3> QED BY <3>2, <3>3, <3>4, <3>5
  <2>4. op[p] # "RESUME" => op[p] = "SEEK" /\ holder = Nobody
    BY <2>1 DEF ActionInv, HolderInv
  <2> QED BY <1>5, <2>2, <2>3, <2>4 DEF Resumes
<1> QED BY <1>1, <1>2, <1>3, <1>4, <1>5

(* The way out of PLAY, and to another place in the file.                  *)
LEMMA StopKeeps ==
  ASSUME IInv, ~Slow, NEW p \in Players,
         Begins(p) \/ Monitor(p) \/ MonitorResumes(p) \/ Stopped(p) \/ Paused(p) \/ Sought(p)
  PROVE  Inv'
<1> USE DEF IInv, worker, sound, codec, appl, Goes, Inv, Asked
<1>1. ASSUME NEW o \in {"STOP", "BREAK", "SEEK", "PAUSE", "monitor"}, Halts(p, o),
             wpc[p] = "idle", o = "monitor" <=> request[p] = "none",
             o = "SEEK" => state[p] = "PLAY",
             o = "monitor" => state[p] = "PLAY" /\ pcm = "TX_DONE",
             UNCHANGED <<state, request, sound, codec, appl>>
      PROVE  Inv'
  <2>1. /\ wpc' = [wpc EXCEPT ![p] = "halt"] /\ op' = [op EXCEPT ![p] = o]
        /\ enable' = [enable EXCEPT ![p] = FALSE]
    BY <1>1 DEF Halts
  <2>2. ActionInv'
    BY <1>1, <2>1 DEF ActionInv, TypeOK
  <2>3. HolderInv'
    BY <1>1, <2>1 DEF HolderInv, TypeOK
  <2>4. CallbackInv' /\ DecoderInv'
    BY <1>1, <2>1 DEF CallbackInv, DecoderInv, TypeOK
  <2>5. PcmInv'
    BY <1>1, <2>1 DEF PcmInv, TypeOK
  <2>6. PlaysToEnd'
    <3>1. ASSUME o = "monitor" PROVE left[p] = 0 /\ ring[p] = 0
      <4>1. callback = p
        BY <1>1, <3>1 DEF HolderInv, CallbackInv
      <4> QED BY <1>1, <3>1, <4>1 DEF PcmInv
    <3> QED BY <1>1, <2>1, <3>1 DEF PlaysToEnd, TypeOK
  <2> QED BY <2>2, <2>3, <2>4, <2>5, <2>6
<1>2. CASE Begins(p)
  <2>1. CASE \E o \in {"STOP", "BREAK", "SEEK"} : Handles(p, o) /\ Halts(p, o)
                                               /\ UNCHANGED <<state, request>>
    <3>1. PICK o \in {"STOP", "BREAK", "SEEK"} : Handles(p, o) /\ Halts(p, o)
                                               /\ UNCHANGED <<state, request>>
      BY <2>1
    <3>2. wpc[p] = "idle" /\ request[p] = o
      BY <3>1 DEF Handles
    <3>3. o = "SEEK" => state[p] = "PLAY"
      BY <3>1, PlayerRows DEF Handles, PlayerRow
    <3>4. UNCHANGED <<sound, codec, appl>>
      BY <1>2 DEF Begins
    <3> QED BY <1>1, <3>1, <3>2, <3>3, <3>4
  <2>2. CASE Handles(p, "PAUSE") /\ Halts(p, "PAUSE") /\ UNCHANGED <<state, request>>
    <3>1. wpc[p] = "idle" /\ request[p] = "PAUSE" /\ UNCHANGED <<sound, codec, appl>>
      BY <1>2, <2>2 DEF Handles, Begins
    <3> QED BY <1>1, <2>2, <3>1
  <2>3. CASE /\ state[p] = "BREAK" /\ wpc[p] = "idle" /\ UNCHANGED <<wpc, op, enable>>
             /\ state' = [state EXCEPT ![p] = "PAUSE"]
             /\ request' = [request EXCEPT ![p] = "none"]
    <3>1. UNCHANGED <<sound, codec, appl>>
      BY <1>2 DEF Begins
    <3>2. ActionInv'
      BY <2>3, <3>1 DEF ActionInv, TypeOK
    <3>3. HolderInv'
      BY <2>3, <3>1 DEF HolderInv, TypeOK
    <3>4. CallbackInv' /\ DecoderInv' /\ PcmInv' /\ PlaysToEnd'
      BY <2>3, <3>1 DEF CallbackInv, DecoderInv, PcmInv, PlaysToEnd, TypeOK
    <3> QED BY <3>2, <3>3, <3>4
  <2> QED BY <1>2, <2>1, <2>2, <2>3 DEF Begins, Handles
<1>3. CASE Monitor(p)
  BY <1>1, <1>3 DEF Monitor
<1>4. CASE MonitorResumes(p)
  <2>1. /\ pcm = "TX_PAUSE" /\ pcm' = "TX_RUN"
        /\ UNCHANGED <<worker, enable, sound, callback, holder, appl>>
    BY <1>4 DEF MonitorResumes
  <2>2. ActionInv' /\ HolderInv' /\ CallbackInv' /\ DecoderInv' /\ PlaysToEnd'
    BY <2>1 DEF ActionInv, HolderInv, CallbackInv, DecoderInv, PlaysToEnd
  <2>3. PcmInv'
    BY <2>1 DEF PcmInv
  <2> QED BY <2>2, <2>3
<1>5. ASSUME wpc[p] = "decoder" PROVE holder # p /\ callback # p
  BY <1>5 DEF HolderInv, CallbackInv
<1>6. CASE Stopped(p)
  <2>1. /\ wpc[p] = "decoder" /\ op[p] \in {"STOP", "monitor"}
        /\ decoder' = [decoder EXCEPT ![p] = "none"] /\ state' = [state EXCEPT ![p] = "IDLE"]
        /\ ring' = [ring EXCEPT ![p] = 0] /\ left' = [left EXCEPT ![p] = 0]
        /\ wpc' = [wpc EXCEPT ![p] = "idle"]
        /\ request' = IF op[p] = "monitor" THEN request ELSE [request EXCEPT ![p] = "none"]
        /\ UNCHANGED <<op, enable, codec, appl>>
    BY <1>6 DEF Stopped, Returns
  <2>2. ActionInv'
    BY <2>1 DEF ActionInv, TypeOK
  <2>3. HolderInv'
    BY <1>5, <2>1 DEF HolderInv, TypeOK
  <2>4. CallbackInv' /\ DecoderInv'
    BY <1>5, <2>1 DEF CallbackInv, DecoderInv, TypeOK
  <2>5. PcmInv' /\ PlaysToEnd'
    BY <1>5, <2>1 DEF PcmInv, PlaysToEnd, TypeOK
  <2> QED BY <2>2, <2>3, <2>4, <2>5
<1>7. CASE Paused(p)
  <2>1. /\ wpc[p] = "decoder" /\ op[p] \in {"PAUSE", "BREAK"}
        /\ decoder' = [decoder EXCEPT ![p] = "PAUSE"] /\ state' = [state EXCEPT ![p] = op[p]]
        /\ wpc' = [wpc EXCEPT ![p] = "idle"] /\ request' = [request EXCEPT ![p] = "none"]
        /\ UNCHANGED <<op, enable, ring, left, codec, appl>>
    BY <1>7 DEF Paused, Returns
  <2>2. ActionInv'
    BY <2>1 DEF ActionInv, TypeOK
  <2>3. HolderInv'
    BY <1>5, <2>1 DEF HolderInv, TypeOK
  <2>4. CallbackInv' /\ DecoderInv'
    BY <1>5, <2>1 DEF CallbackInv, DecoderInv, TypeOK
  <2>5. PcmInv' /\ PlaysToEnd'
    BY <1>5, <2>1 DEF PcmInv, PlaysToEnd, TypeOK
  <2> QED BY <2>2, <2>3, <2>4, <2>5
<1>8. CASE Sought(p)
  <2>1. /\ wpc[p] = "decoder" /\ op[p] = "SEEK" /\ holder = Nobody
        /\ decoder' = [decoder EXCEPT ![p] = "PAUSE"] /\ wpc' = [wpc EXCEPT ![p] = "resume"]
        /\ UNCHANGED <<state, op, request, enable, codec, appl>>
    BY <1>8 DEF Sought, HolderInv
  <2>2. \A q \in Players \ {p} : left'[q] = left[q] /\ ring'[q] = ring[q]
    BY <1>8 DEF Sought, TypeOK
  <2>3. ActionInv'
    <3>1. request[p] # "none" /\ p = caller /\ app \in {"stop", "call"}
      BY <2>1 DEF ActionInv
    <3>2. wpc'[p] = "resume" /\ \A q \in Players \ {p} : wpc'[q] = wpc[q]
      BY <2>1 DEF TypeOK
    <3> QED BY <2>1, <3>1, <3>2 DEF ActionInv
  <2>4. HolderInv'
    BY <2>1, PlayersAssumption DEF HolderInv, TypeOK
  <2>5. CallbackInv' /\ DecoderInv'
    BY <2>1, PlayersAssumption DEF CallbackInv, DecoderInv, TypeOK
  <2>6. PcmInv' /\ PlaysToEnd'
    BY <1>5, <2>1, <2>2 DEF PcmInv, PlaysToEnd, TypeOK
  <2> QED BY <2>3, <2>4, <2>5, <2>6
<1> QED BY <1>2, <1>3, <1>4, <1>6, <1>7, <1>8

(* Decoder, pcm worker and application move what the callback's player has *)
(* to play, or wait.                                                       *)
LEMMA OthersKeep ==
  ASSUME IInv, ~Slow,
         (\E p \in Players : Decodes(p) \/ Call(p)) \/ Requests \/ AppReturns \/ UNCHANGED vars
  PROVE  Inv'
<1> USE DEF IInv, worker, sound, codec, appl, Inv, Asked
<1>1. ASSUME NEW p \in Players, Decodes(p) PROVE Inv'
  <2>1. /\ left[p] > 0 /\ pcm' \in {pcm, "TX_RUN"}
        /\ pcm' # pcm => pcm = "TX_PAUSE"
        /\ \A q \in Players \ {p} : left'[q] = left[q] /\ ring'[q] = ring[q]
        /\ UNCHANGED <<worker, enable, decoder, callback, holder, appl>>
    BY <1>1 DEF Decodes, TypeOK
  <2>2. ActionInv' /\ HolderInv' /\ CallbackInv' /\ DecoderInv'
    BY <2>1 DEF ActionInv, HolderInv, CallbackInv, DecoderInv
  <2>3. PlaysToEnd'
    BY <2>1 DEF PlaysToEnd
  <2>4. PcmInv'
    BY <2>1 DEF PcmInv
  <2> QED BY <2>2, <2>3, <2>4
<1>2. ASSUME NEW p \in Players, Call(p) PROVE Inv'
  <2>1. PICK e \in Commands \ {"START"} : request' = [request EXCEPT ![p] = e]
    BY <1>2 DEF Call
  <2>2. /\ app = "idle" /\ request[p] = "none" /\ app' \in {"stop", "call"} /\ caller' = p
        /\ UNCHANGED <<state, wpc, op, enable, sound, codec>>
    BY <1>2 DEF Call
  <2>3. ActionInv'
    BY <2>1, <2>2 DEF ActionInv, TypeOK
  <2>4. HolderInv' /\ CallbackInv' /\ DecoderInv' /\ PlaysToEnd' /\ PcmInv'
    BY <2>2 DEF HolderInv, CallbackInv, DecoderInv, PlaysToEnd, PcmInv
  <2> QED BY <2>3, <2>4
<1>3. CASE Requests
  <2>1. /\ pcm = "TX_RUN" /\ pcm' \in {"TX_RUN", "TX_PAUSE", "TX_DONE"}
        /\ UNCHANGED <<worker, enable, left, callback, holder, appl>>
    BY <1>3 DEF Requests
  <2>2. ActionInv' /\ HolderInv' /\ CallbackInv'
    BY <2>1 DEF ActionInv, HolderInv, CallbackInv
  <2>3. DecoderInv'
    <3>1. \A q \in Players : decoder[q] # "none" => decoder'[q] # "none"
      BY <1>3 DEF Requests, TypeOK
    <3> QED BY <2>1, <3>1 DEF DecoderInv
  <2>4. PlaysToEnd'
    <3>1. \A q \in Players : ring[q] = 0 => ring'[q] = 0
      BY <1>3 DEF Requests, TypeOK
    <3> QED BY <2>1, <3>1 DEF PlaysToEnd
  <2>5. PcmInv'
    <3>1. pcm' = "TX_DONE" /\ callback # Nobody => left[callback] = 0 /\ ring'[callback] = 0
      BY <1>3 DEF Requests, TypeOK
    <3> QED BY <2>1, <3>1, PlayersAssumption DEF PcmInv
  <2> QED BY <2>2, <2>3, <2>4, <2>5
<1>4. CASE AppReturns
  <2>1. /\ UNCHANGED <<state, wpc, op, enable, sound, codec, caller>>
        /\ \/ UNCHANGED <<request, app>>
           \/ /\ app \in {"stop", "call"} /\ request[caller] = "none"
              /\ request' = [request EXCEPT ![caller] = "START"] /\ app' = "call"
           \/ request[caller] = "none" /\ request' = request
           \/ app = "finish" /\ request' = request
    BY <1>4 DEF AppReturns, PostsStart, CallReturns, Finished, Answered
  <2>2. ActionInv'
    BY <2>1 DEF ActionInv, TypeOK
  <2>3. HolderInv' /\ CallbackInv' /\ DecoderInv' /\ PlaysToEnd' /\ PcmInv'
    BY <2>1 DEF HolderInv, CallbackInv, DecoderInv, PlaysToEnd, PcmInv
  <2> QED BY <2>2, <2>3
<1>5. CASE UNCHANGED vars
  BY <1>5 DEF ActionInv, HolderInv, CallbackInv, DecoderInv, PlaysToEnd, PcmInv, vars
<1> QED BY <1>1, <1>2, <1>3, <1>4, <1>5

(* The codec changes hands only when nobody has it (common_player.c).      *)
THEOREM Invariant ==
  ASSUME ~Slow
  PROVE  Spec => []IInv
<1>1. Init /\ TypeOK => IInv
  <2> SUFFICES ASSUME Init, TypeOK PROVE Inv
    BY DEF IInv, Inv
  <2>1. \A p \in Players : /\ wpc[p] = "idle" /\ state[p] = "IDLE" /\ request[p] = "none"
                           /\ holder # p /\ callback # p
    BY PlayersAssumption DEF Init
  <2>2. callback = Nobody /\ pcm = "IDLE"
    BY DEF Init
  <2> QED
    BY <2>1, <2>2 DEF Inv, ActionInv, Asked, HolderInv, CallbackInv, DecoderInv, PcmInv, PlaysToEnd
<1>2. IInv /\ TypeOK' /\ [Next]_vars => IInv'
  <2> SUFFICES ASSUME IInv, [Next]_vars PROVE Inv'
    BY DEF IInv, Inv
  <2> QED BY StartKeeps, CodecKeeps, StopKeeps, OthersKeep DEF Next, PlayerStep
<1> QED BY <1>1, <1>2, TypeCorrect, PTL DEF Spec

(* A player that plays has the codec, and the codec asks nobody else.      *)
THEOREM HolderPlays ==
  ASSUME ~Slow
  PROVE  Spec => []PlayHoldsCodec
<1>1. IInv => PlayHoldsCodec
  BY DEF IInv, HolderInv, CallbackInv, PcmInv, PlayHoldsCodec
<1> QED BY <1>1, Invariant, PTL

(* The pcm worker never asks a player whose decoder is gone.               *)
THEOREM DecoderOutlivesCallback ==
  ASSUME ~Slow
  PROVE  Spec => []CallbackAlive
<1>1. IInv => CallbackAlive
  <2> SUFFICES ASSUME IInv, callback # Nobody PROVE decoder[callback] # "none"
    BY DEF CallbackAlive
  <2>1. callback \in Players
    BY DEF IInv, TypeOK
  <2> QED BY <2>1 DEF IInv, CallbackInv, HolderInv, DecoderInv
<1> QED BY <1>1, Invariant, PTL

(* A player that stops by itself has played its own file to the end.       *)
THEOREM MonitorSeesOwnEnd ==
  ASSUME ~Slow
  PROVE  Spec => []PlaysToEnd
BY Invariant, PTL DEF IInv
=============================================================================
