---------------------------- MODULE MCCommonFsm ----------------------------
(***************************************************************************)
(* CommonFsm with the tables of three real machines and the threads that   *)
(* use them: one of the machines is chosen in the initial state.  "ctl" is *)
(* the thread that starts and stops the component, "dec" the decoder; the  *)
(* threads of the application are one, "ctl", for the player, because      *)
(* audio_player_process.c serialises them with its mutex.                  *)
(***************************************************************************)
EXTENDS CommonFsm, FsmTables

Wait(c, e)      == [caller |-> c, event |-> e, wait |-> TRUE,  clear |-> FALSE]
WaitClear(c, e) == [caller |-> c, event |-> e, wait |-> TRUE,  clear |-> TRUE]
Async(c, e)     == [caller |-> c, event |-> e, wait |-> FALSE, clear |-> FALSE]

(* pcm_trans: com_player_start/resume and com_player_stop/pause alternate; *)
(* both the monitor (ctl) and the decoder post RESUME, and pcm_trans_stop  *)
(* clears both groups under the decoder's feet.                            *)
MCCallers == {"ctl", "dec"}

TxEvents    == {"START", "STOP", "RESUME"}
TxRequests  == {Wait("ctl", "START"), WaitClear("ctl", "STOP"),
                Wait("ctl", "RESUME"), Wait("dec", "RESUME")}
TxMayFollow == {<<"EXIT", "START">>, <<"STOP", "START">>, <<"START", "STOP">>,
                <<"START", "RESUME">>, <<"RESUME", "STOP">>,
                <<"EXIT", "RESUME">>, <<"RESUME", "RESUME">>}
TxExpiry    == [e \in TxEvents |-> "served"]

(* http_download: one controlling thread.  http_download_start_inner stops *)
(* first; pause and resume do not wait; START connects, which has no       *)
(* timeout of its own (httpclient.c:141).                                  *)
HttpEvents    == {"START", "STOP", "PAUSE", "RESUME"}
HttpRequests  == {Wait("ctl", "START"), WaitClear("ctl", "STOP"),
                  Async("ctl", "PAUSE"), Async("ctl", "RESUME")}
HttpMayFollow == {<<"EXIT", "STOP">>, <<"STOP", "START">>}
                   \cup ((HttpEvents \ {"STOP"}) \X (HttpEvents \ {"START"}))
HttpExpiry    == [e \in HttpEvents |-> IF e = "START" THEN "slow" ELSE "never"]

(* audio_player: every call waits, under the mutex; deinit deletes.        *)
PlayerEvents    == {"START", "STOP", "PAUSE", "BREAK", "RESUME", "SEEK"}
PlayerRequests  == {WaitClear("ctl", "STOP")} \cup {Wait("ctl", e) : e \in PlayerEvents \ {"STOP"}}
PlayerMayFollow == (PlayerEvents \cup {"EXIT"}) \X PlayerEvents
PlayerExpiry    == [e \in PlayerEvents |-> "never"]

(* The constants of this module, which the properties refer to: the calls  *)
(* that wait, and the rows and events of all three machines.               *)
MCEvents    == TxEvents \cup PlayerEvents
MCLookup    == TxLookup \o HttpLookup \o PlayerLookup
MCRequests  == TxRequests \cup PlayerRequests
MCMayFollow == TxMayFollow \cup PlayerMayFollow
MCExpiry    == [e \in MCEvents |-> "served"]

VARIABLE machine   \* which one it is

Tx == INSTANCE CommonFsm
  WITH Events <- TxEvents, Lookup <- TxLookup, Requests <- TxRequests, MayFollow <- TxMayFollow,
       Expiry <- TxExpiry, Deleters <- {}

Http == INSTANCE CommonFsm
  WITH Events <- HttpEvents, Lookup <- HttpLookup, Requests <- HttpRequests,
       MayFollow <- HttpMayFollow, Expiry <- HttpExpiry, Deleters <- {}

Player == INSTANCE CommonFsm
  WITH Events <- PlayerEvents, Lookup <- PlayerLookup, Requests <- PlayerRequests,
       MayFollow <- PlayerMayFollow, Expiry <- PlayerExpiry, Deleters <- {"ctl"}

(* What the proofs ask of those who call (CommonFsm); that STOP wins, what *)
(* they ask of the tables, CommonFsmProofs!StopWinsEverywhere has.         *)
ASSUME MachinesAreControlled ==
  /\ Tx!Controls("ctl") /\ Tx!OwnerDeletes
  /\ Http!Controls("ctl") /\ Http!OwnerDeletes
  /\ Player!Controls("ctl") /\ Player!OwnerDeletes

MachineInit ==
  \/ machine = "tx" /\ Tx!Init
  \/ machine = "http" /\ Http!Init
  \/ machine = "player" /\ Player!Init

MachineNext ==
  /\ UNCHANGED machine
  /\ \/ machine = "tx" /\ Tx!Next
     \/ machine = "http" /\ Http!Next
     \/ machine = "player" /\ Player!Next

Works ==
  \/ machine = "tx" /\ Tx!WorkerStep
  \/ machine = "http" /\ Http!WorkerStep
  \/ machine = "player" /\ Player!WorkerStep

Returns(c) ==
  \/ machine = "tx" /\ Tx!CallerStep(c)
  \/ machine = "http" /\ Http!CallerStep(c)
  \/ machine = "player" /\ Player!CallerStep(c)

Expires(c) ==
  \/ machine = "tx" /\ Tx!AwaitExpires(c)
  \/ machine = "http" /\ Http!AwaitExpires(c)
  \/ machine = "player" /\ Player!AwaitExpires(c)

(* The fairness of CommonFsm.                                              *)
MachineSpec ==
  /\ MachineInit /\ [][MachineNext]_<<vars, machine>>
  /\ WF_vars(Works)
  /\ \A c \in Callers : WF_vars(Returns(c)) /\ WF_vars(Expires(c))
=============================================================================
