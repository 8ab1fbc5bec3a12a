------------------------------ MODULE FsmTables ------------------------------
(***************************************************************************)
(* The lookup tables that the components hand to com_fsm_create, in the    *)
(* order of their rows, with the states each action can return.  A table   *)
(* is all that CommonFsm needs to know of a component.                     *)
(***************************************************************************)
EXTENDS Naturals, Sequences

Hold == "hold"   \* COM_FSM_HOLD_STATE: the action keeps the state

Row(event, state, next) == [event |-> {event}, state |-> state, next |-> next, poll |-> "never"]
PollRow(state, poll, next) == [event |-> {}, state |-> state, next |-> next, poll |-> poll]

(* The event of the row that com_fsm_get_lookup finds; {} if there is none.*)
RowEvent(table, state, bits) ==
  LET rows == {i \in DOMAIN table : table[i].state = state /\ table[i].event \subseteq bits}
  IN  {table[i].event : i \in {r \in rows : \A q \in rows : r <= q}}

(* pcm_trans.c: playback.  The poll of TX_RUN has timeout 0.               *)
TxLookup == <<
  Row("START",  "IDLE",     {"TX_RUN"}),
  Row("STOP",   "TX_RUN",   {"IDLE"}),
  Row("STOP",   "TX_PAUSE", {"IDLE"}),
  Row("STOP",   "TX_DONE",  {"IDLE"}),
  Row("RESUME", "TX_PAUSE", {"TX_RUN"}),
  PollRow("TX_RUN", "now",  {Hold, "TX_PAUSE", "TX_DONE"}) >>

(* mp3_decoder.c.                                                          *)
Mp3Lookup == <<
  Row("START",  "IDLE",  {"RUN"}),
  Row("STOP",   "RUN",   {"IDLE"}),
  Row("STOP",   "PAUSE", {"IDLE"}),
  Row("PAUSE",  "RUN",   {"PAUSE"}),
  Row("SEEK",   "RUN",   {Hold}),
  Row("SEEK",   "PAUSE", {Hold}),
  Row("RESUME", "PAUSE", {"RUN"}),
  PollRow("RUN", "now",  {Hold, "PAUSE"}) >>

(* aac_decoder.c: RESUME comes before SEEK.                                *)
AacLookup == <<
  Row("START",  "IDLE",  {"RUN"}),
  Row("STOP",   "RUN",   {"IDLE"}),
  Row("STOP",   "PAUSE", {"IDLE"}),
  Row("PAUSE",  "RUN",   {"PAUSE"}),
  Row("RESUME", "PAUSE", {"RUN"}),
  Row("SEEK",   "RUN",   {Hold}),
  Row("SEEK",   "PAUSE", {Hold}),
  PollRow("RUN", "now",  {Hold, "PAUSE"}) >>

(* http_download_process.c.  The states the actions return are those of    *)
(* conn_action, push_action and the polls that end in them.                *)
ConnNext == {"RECV", "IDLE", Hold}
PushNext == {"RECV", "WAIT_FREE", "WAIT_RANGE", "IDLE"}

HttpLookup == <<
  Row("START",  "IDLE",       ConnNext),
  Row("STOP",   "PAUSE",      {"IDLE"}),
  Row("STOP",   "CONN",       {"IDLE"}),
  Row("STOP",   "RECV",       {"IDLE"}),
  Row("STOP",   "WAIT_FREE",  {"IDLE"}),
  Row("STOP",   "WAIT_RANGE", {"IDLE"}),
  Row("PAUSE",  "CONN",       {"PAUSE"}),
  Row("PAUSE",  "RECV",       {"PAUSE"}),
  Row("PAUSE",  "WAIT_FREE",  {"PAUSE"}),
  Row("PAUSE",  "WAIT_RANGE", {"PAUSE"}),
  Row("RESUME", "PAUSE",      ConnNext),
  PollRow("CONN",       "later", ConnNext),
  PollRow("RECV",       "now",   PushNext \cup ConnNext),
  PollRow("WAIT_FREE",  "later", PushNext \cup {Hold}),
  PollRow("WAIT_RANGE", "later", ConnNext) >>

(* audio_player_process.c.                                                 *)
PlayerLookup == <<
  Row("START",  "IDLE",  {"PLAY", Hold}),
  Row("STOP",   "PLAY",  {"IDLE"}),
  Row("STOP",   "BREAK", {"IDLE"}),
  Row("STOP",   "PAUSE", {"IDLE"}),
  Row("PAUSE",  "PLAY",  {"PAUSE", "IDLE"}),
  Row("PAUSE",  "BREAK", {"PAUSE"}),
  Row("BREAK",  "PLAY",  {"BREAK", "IDLE"}),
  Row("RESUME", "PAUSE", {"PLAY", "IDLE"}),
  Row("RESUME", "BREAK", {"PLAY", "IDLE"}),
  Row("SEEK",   "PLAY",  {Hold, "IDLE"}),
  PollRow("PLAY", "later", {Hold, "IDLE"}) >>
=============================================================================
