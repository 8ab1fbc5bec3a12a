------------------------------ MODULE CommonFsm ------------------------------
(***************************************************************************)
(* The state-machine worker of src/utils/common_fsm.c.  pcm_trans, both    *)
(* decoders, the http downloader, the audio player and async_task are each *)
(* one com_fsm_t: a thread, a table of (event, state, action) rows and two *)
(* event groups, one for requests and one for acknowledgements.  Callers   *)
(* on other threads post a bit with com_fsm_set_event, wait for the same   *)
(* bit to be acknowledged, may clear both groups, and one of them may      *)
(* delete the machine.                                                     *)
(*                                                                         *)
(* An event is the set of its bits, so that the test of a table row        *)
(* "row.event == (event & row.event)" is set inclusion, and                *)
(* COM_FSM_EVENT_NONE is {}.  The table is a constant: FsmTables has the   *)
(* real ones.  A row's action is one step that returns any member of       *)
(* row.next.                                                               *)
(***************************************************************************)
EXTENDS Naturals, Sequences, FiniteSets

CONSTANTS
  Callers,     \* threads that use the machine
  Worker,      \* its own thread, com_fsm_task
  Events,      \* the request bits
  EXIT,        \* COM_FSM_EVENT_EXIT
  STOP,        \* the request bit that stops the component
  HOLD,        \* COM_FSM_HOLD_STATE
  Lookup,      \* sequence of [event, state, next, poll]
  InitState,   \* the zero of cur_state
  Requests,    \* the calls made: [caller, event, wait, clear]
  MayFollow,   \* pairs of events: the order in which a thread makes its calls
  Expiry,      \* Expiry[e]: when the wait for e may time out
  Deleters     \* callers that may call com_fsm_delete

AllBits == Events \cup {EXIT}

States == {Lookup[i].state : i \in DOMAIN Lookup}
            \cup (UNION {Lookup[i].next : i \in DOMAIN Lookup})
            \cup {InitState}

Polls == {"now", "later", "never"}

ASSUME FsmAssumption ==
  /\ EXIT \notin Events
  /\ Worker \notin Callers
  /\ InitState # HOLD
  /\ Lookup \in Seq([event : SUBSET Events, state : States, next : SUBSET States, poll : Polls])
  /\ \A i \in DOMAIN Lookup : Lookup[i].next # {}
  /\ Requests \subseteq [caller : Callers, event : Events, wait : BOOLEAN, clear : BOOLEAN]
  /\ MayFollow \subseteq AllBits \X Events
  /\ Expiry \in [Events -> {"never", "served", "slow"}]
  /\ Deleters \subseteq Callers

VARIABLES
  pending, pendPhase, pendMask,  \* event_handle; only the worker waits on it
  acks, ackPhase, ackMask,       \* event_ack_handle; the callers wait on it
  cur_state,
  wpc,        \* where the worker is in com_fsm_task
  taken,      \* its local "events"
  freed,      \* com_fsm_clear has freed the machine
  handle,     \* the owner's pointer still points to it
  pc,         \* where each caller is in its call
  req,        \* that call
  served,     \* ghost: how far the worker is with the event of a waited call
  outcome     \* ghost: how the last waited call ended

group1 == <<pending, pendPhase, pendMask>>
group2 == <<acks, ackPhase, ackMask>>
worker == <<cur_state, wpc, taken, freed>>
caller == <<handle, pc, req, served, outcome>>
vars   == <<group1, group2, worker, caller>>

Request == INSTANCE CommonEvent
  WITH Threads <- {Worker}, Bits <- AllBits, MaskOf <- [w \in {Worker} |-> AllBits],
       event <- pending, phase <- pendPhase, mask <- pendMask

Ack == INSTANCE CommonEvent
  WITH Threads <- Callers, Bits <- AllBits, MaskOf <- [c \in Callers |-> AllBits],
       event <- acks, phase <- ackPhase, mask <- ackMask

WorkerPcs == {"wait", "handle", "ack", "free", "gone"}
CallerPcs == {"idle", "post", "await", "clear_events", "clear_acks", "delete"}

TypeOK ==
  /\ Request!TypeOK
  /\ Ack!TypeOK
  /\ cur_state \in States \ {HOLD}
  /\ wpc \in WorkerPcs
  /\ taken \in SUBSET AllBits
  /\ freed \in BOOLEAN
  /\ handle \in BOOLEAN
  /\ pc \in [Callers -> CallerPcs]
  /\ req \in [Callers -> [caller : Callers, event : AllBits, wait : BOOLEAN, clear : BOOLEAN]]
  /\ served \in [Callers -> {"no", "posted", "taken", "done"}]
  /\ outcome \in [Callers -> {"none", "acked", "late"}]

Init ==
  /\ Request!Init
  /\ Ack!Init
  /\ cur_state = InitState
  /\ wpc = "wait"
  /\ taken = {}
  /\ freed = FALSE
  /\ handle = TRUE
  /\ pc = [c \in Callers |-> "idle"]
  /\ req = [c \in Callers |-> [caller |-> c, event |-> EXIT, wait |-> FALSE, clear |-> FALSE]]
  /\ served = [c \in Callers |-> "no"]
  /\ outcome = [c \in Callers |-> "none"]

-----------------------------------------------------------------------------
(* com_fsm_get_lookup: the first row of the state that matches the events, *)
(* {} standing for NULL.  With no event only a poll row (event {}) matches;*)
(* with events, a poll row matches as well, when no earlier row does.      *)
MatchingRows(state, events) ==
  {i \in DOMAIN Lookup :
     /\ Lookup[i].state = state
     /\ IF events = {} THEN Lookup[i].event = {} ELSE Lookup[i].event \subseteq events}

(* Fault: the table is searched from its end.                              *)
GetLastLookup(state, events) ==
  LET rows == MatchingRows(state, events)
  IN  {i \in rows : \A j \in rows : i >= j}

GetLookup(state, events) ==
  LET rows == MatchingRows(state, events)
  IN  {i \in rows : \A j \in rows : i <= j}

(* The timeout of the poll row of the current state; portMAX_DELAY if none.*)
PollIs(timeout) == \E i \in GetLookup(cur_state, {}) : Lookup[i].poll = timeout

-----------------------------------------------------------------------------
(* com_fsm_task, top of the loop: wait for any bit and take all of them.   *)
MarkTaken == served' = [c \in Callers |->
               IF served[c] = "posted" /\ req[c].event \in pending THEN "taken" ELSE served[c]]

WorkerGoesOn(events) ==
  /\ wpc' = "handle"
  /\ taken' = events
  /\ UNCHANGED <<group2, cur_state, freed, handle, pc, req, outcome>>

WorkerTakes ==
  /\ wpc = "wait"
  /\ Request!WaitTakes(Worker, AllBits) \/ Request!WakeTakes(Worker)
  /\ MarkTaken
  /\ WorkerGoesOn(pending)

(* The timeout of a poll row: at once when it is 0, later otherwise.       *)
WorkerPolls ==
  /\ wpc = "wait"
  /\ \/ /\ PollIs("now")
        /\ pendPhase[Worker] = "out" /\ pending = {}
        /\ UNCHANGED group1
     \/ Request!ReturnExpired(Worker)
  /\ UNCHANGED served
  /\ WorkerGoesOn({})

WorkerSleeps ==
  /\ wpc = "wait"
  /\ \/ ~PollIs("now") /\ Request!WaitBlocks(Worker, AllBits)
     \/ Request!WakeSleepsAgain(Worker)
     \/ PollIs("later") /\ Request!Expire(Worker)
  /\ UNCHANGED <<group2, worker, caller>>

WorkerSpuriousWake ==
  /\ Request!SpuriousWake(Worker)
  /\ UNCHANGED <<group2, worker, caller>>

(* Faults: the row's COM_FSM_HOLD_STATE is stored; bits that select no row *)
(* are not acknowledged.                                                   *)
WorkerStoresHold ==
  /\ wpc = "handle"
  /\ LET rows == GetLookup(cur_state, taken)
     IN  IF EXIT \in taken \/ rows = {}
         THEN UNCHANGED cur_state
         ELSE \E row \in rows : cur_state' \in Lookup[row].next
  /\ wpc' = IF taken = {} THEN "wait" ELSE "ack"
  /\ UNCHANGED <<group1, group2, taken, freed, caller>>

WorkerAcksOnlyRows ==
  /\ wpc = "handle"
  /\ LET rows == GetLookup(cur_state, taken)
     IN  IF EXIT \in taken \/ rows = {}
         THEN UNCHANGED cur_state
         ELSE \E row \in rows : \E s \in Lookup[row].next :
                cur_state' = IF s = HOLD THEN cur_state ELSE s
  /\ wpc' = IF EXIT \notin taken /\ GetLookup(cur_state, taken) = {}
            THEN "wait" ELSE "ack"
  /\ UNCHANGED <<group1, group2, taken, freed, caller>>

(* The loop body: at most one row is run, whatever the number of bits; the *)
(* bits that selected no row are dropped.                                  *)
WorkerHandles ==
  /\ wpc = "handle"
  /\ LET rows == GetLookup(cur_state, taken)
     IN  IF EXIT \in taken \/ rows = {}
         THEN UNCHANGED cur_state
         ELSE \E row \in rows : \E s \in Lookup[row].next :
                cur_state' = IF s = HOLD THEN cur_state ELSE s
  /\ wpc' = IF taken = {} THEN "wait" ELSE "ack"
  /\ UNCHANGED <<group1, group2, taken, freed, caller>>

(* Fault: EXIT is acknowledged and then forgotten.                         *)
WorkerForgetsExit ==
  /\ wpc = "ack"
  /\ Ack!SetEvent(taken)
  /\ served' = [c \in Callers |-> IF served[c] = "taken" THEN "done" ELSE served[c]]
  /\ wpc' = "wait"
  /\ taken' = {}
  /\ UNCHANGED <<group1, cur_state, freed, handle, pc, req, outcome>>

(* All the bits taken are acknowledged, the dropped ones too.              *)
WorkerAcks ==
  /\ wpc = "ack"
  /\ Ack!SetEvent(taken)
  /\ served' = [c \in Callers |-> IF served[c] = "taken" THEN "done" ELSE served[c]]
  /\ wpc' = IF EXIT \in taken THEN "free" ELSE "wait"
  /\ taken' = {}
  /\ UNCHANGED <<group1, cur_state, freed, handle, pc, req, outcome>>

(* com_fsm_clear.                                                          *)
WorkerFrees ==
  /\ wpc = "free"
  /\ wpc' = "gone"
  /\ freed' = TRUE
  /\ UNCHANGED <<group1, group2, cur_state, taken, caller>>

-----------------------------------------------------------------------------
(* com_fsm_set_event: the pointer is checked, ...                          *)
Call(c, r) ==
  /\ pc[c] = "idle" /\ r.caller = c
  /\ <<req[c].event, r.event>> \in MayFollow
  /\ handle
  /\ pc' = [pc EXCEPT ![c] = "post"]
  /\ req' = [req EXCEPT ![c] = r]
  /\ served' = [served EXCEPT ![c] = "no"]
  /\ outcome' = [outcome EXCEPT ![c] = "none"]
  /\ UNCHANGED <<group1, group2, worker, handle>>

AfterWait(r) == IF r.clear THEN "clear_events" ELSE "idle"

(* ... the bit is set, and unless the timeout is 0 (com_fsm_set_event_...  *)
(* from_isr never waits) the acknowledgement is waited for.                *)
Post(c) ==
  /\ pc[c] = "post"
  /\ Request!SetEvent({req[c].event})
  /\ pc' = [pc EXCEPT ![c] = IF req[c].wait THEN "await" ELSE AfterWait(req[c])]
  /\ served' = [served EXCEPT ![c] = IF req[c].wait THEN "posted" ELSE "no"]
  /\ UNCHANGED <<group2, worker, handle, req, outcome>>

Return(c, how) ==
  /\ pc' = [pc EXCEPT ![c] = AfterWait(req[c])]
  /\ outcome' = [outcome EXCEPT ![c] = how]
  /\ UNCHANGED <<group1, worker, handle, req, served>>

Acked(c) ==
  /\ pc[c] = "await"
  /\ Ack!WaitTakes(c, {req[c].event}) \/ Ack!WakeTakes(c)
  /\ Return(c, "acked")

AwaitSleeps(c) ==
  /\ pc[c] = "await"
  /\ Ack!WaitBlocks(c, {req[c].event}) \/ Ack!WakeSleepsAgain(c)
  /\ UNCHANGED <<group1, worker, caller>>

AwaitSpuriousWake(c) ==
  /\ Ack!SpuriousWake(c)
  /\ UNCHANGED <<group1, worker, caller>>

(* COM_FSM_MAX_WAIT_TIME, 30 s, has passed.  "served": the worker is fast  *)
(* enough, and only a lost wakeup or a lost bit makes the caller wait so   *)
(* long; "slow": the action of the event itself may take longer.           *)
AwaitExpires(c) ==
  /\ pc[c] = "await"
  /\ Expiry[req[c].event] # "never"
  /\ req[c].event \notin pending
  /\ req[c].event \in taken => Expiry[req[c].event] = "slow"
  /\ Ack!Expire(c)
  /\ UNCHANGED <<group1, worker, caller>>

AwaitReturnsLate(c) ==
  /\ Ack!ReturnExpired(c)
  /\ Return(c, "late")

(* com_fsm_clear_event(COM_FSM_EVENT_ALL): two groups, two steps.          *)
ClearEvents(c) ==
  /\ pc[c] = "clear_events"
  /\ Request!ClearEvent(AllBits)
  /\ pc' = [pc EXCEPT ![c] = "clear_acks"]
  /\ UNCHANGED <<group2, worker, handle, req, served, outcome>>

(* Fault: only the requests are cleared.                                   *)
ClearNoAcks(c) ==
  /\ pc[c] = "clear_acks"
  /\ pc' = [pc EXCEPT ![c] = "idle"]
  /\ UNCHANGED <<group1, group2, worker, handle, req, served, outcome>>

ClearAcks(c) ==
  /\ pc[c] = "clear_acks"
  /\ Ack!ClearEvent(AllBits)
  /\ pc' = [pc EXCEPT ![c] = "idle"]
  /\ UNCHANGED <<group1, worker, handle, req, served, outcome>>

(* com_fsm_delete: EXIT is posted without waiting, then the pointer goes.  *)
Delete(c) ==
  /\ c \in Deleters /\ pc[c] = "idle"
  /\ handle
  /\ Request!SetEvent({EXIT})
  /\ pc' = [pc EXCEPT ![c] = "delete"]
  /\ UNCHANGED <<group2, worker, handle, req, served, outcome>>

(* Fault: the pointer to the deleted machine is kept.                      *)
DeleteKeepsHandle(c) ==
  /\ pc[c] = "delete"
  /\ pc' = [pc EXCEPT ![c] = "idle"]
  /\ UNCHANGED <<group1, group2, worker, handle, req, served, outcome>>

DeleteEnds(c) ==
  /\ pc[c] = "delete"
  /\ handle' = FALSE
  /\ pc' = [pc EXCEPT ![c] = "idle"]
  /\ UNCHANGED <<group1, group2, worker, req, served, outcome>>

-----------------------------------------------------------------------------
WorkerStep == WorkerTakes \/ WorkerPolls \/ WorkerSleeps \/ WorkerHandles
                \/ WorkerAcks \/ WorkerFrees

CallerStep(c) == Post(c) \/ Acked(c) \/ AwaitSleeps(c) \/ AwaitReturnsLate(c)
                   \/ ClearEvents(c) \/ ClearAcks(c) \/ DeleteEnds(c)

Next ==
  \/ WorkerStep
  \/ WorkerSpuriousWake
  \/ \E c \in Callers :
       \/ \E r \in Requests : Call(c, r)
       \/ CallerStep(c)
       \/ AwaitSpuriousWake(c)
       \/ AwaitExpires(c)
       \/ Delete(c)

Spec == Init /\ [][Next]_vars

(* Threads are scheduled, actions return, a deadline eventually passes.    *)
FairSpec ==
  /\ Spec
  /\ WF_vars(WorkerStep)
  /\ \A c \in Callers : WF_vars(CallerStep(c)) /\ WF_vars(AwaitExpires(c))

-----------------------------------------------------------------------------
(* A bit is owned when one thread posts it and always waits for it.        *)
Owned(e) ==
  \E c \in Callers : \A r \in Requests : r.event = e => r.caller = c /\ r.wait

(* What the real tables and their callers have in common.  The events that *)
(* take a machine out of its first state, ...                              *)
Starts == UNION {Lookup[i].event : i \in {j \in DOMAIN Lookup : Lookup[j].state = InitState}}

(* ... the rows of STOP, which win in every other state whatever else is   *)
(* pending, ...                                                            *)
StopWins ==
  /\ \A i \in DOMAIN Lookup :
       Lookup[i].state = InitState => Lookup[i].event # {} /\ STOP \notin Lookup[i].event
  /\ \A s \in States \ {InitState, HOLD} : \A bits \in SUBSET Events :
       STOP \in bits => \E i \in GetLookup(s, bits) : Lookup[i].next = {InitState}

(* ... the thread that starts and stops the machine, whose STOP alone      *)
(* clears the groups, before a start that may time out is called again, ...*)
Controls(o) ==
  /\ \A r \in Requests :
       /\ r.event \in Starts \cup {STOP} => r.caller = o /\ r.wait
       /\ r.clear => r.caller = o
       /\ r.event = STOP => r.clear
  /\ STOP \in Events /\ Expiry[STOP] # "slow"
  /\ \A p \in MayFollow :
       p[2] \in Starts /\ Expiry[p[2]] # "never" => p[1] \in {STOP, EXIT}

(* ... and the one that deletes it, which nobody else calls.  A decoder is *)
(* called by the pcm worker as well, and a downloader by the decoder:      *)
(* these are stopped before, which Playback (RequestIsSafe) and AudioFile  *)
(* (NothingOutlivesFile) have to show.                                     *)
OwnerDeletes == \A d \in Deleters : \A r \in Requests : r.caller = d

(* An acknowledged call of an owned event was served: the worker took that *)
(* very request, ran the row it selects and only then acknowledged.  A     *)
(* stale acknowledgement, left by an earlier call, would break this; that  *)
(* is what callers rely on when they free memory after com_fsm_set_event   *)
(* has returned (common_fsm.c:48-102, 155-164).                            *)
AckMeansServed ==
  \A c \in Callers :
    outcome[c] = "acked" /\ Owned(req[c].event) => served[c] = "done"

(* When a call that stops a component returns, the component is idle and   *)
(* stays so until the same thread starts it again: STOP is never the bit   *)
(* that is dropped when several are pending.  Everything that is freed     *)
(* after a stop relies on it (pcm_trans.c:180-194, 243-252).               *)
StopQuiesces ==
  \A c \in Callers :
    req[c].event = STOP /\ outcome[c] # "none" => cur_state = InitState

(* The owner's last call has returned before the machine is freed: nobody  *)
(* touches a group of a freed machine (common_fsm.c:28-46, 143-164).       *)
FreedUntouched == freed => \A c \in Callers : pc[c] \in {"idle", "delete"}

(* Every call of an owned event returns; one that other threads post too   *)
(* may lose its acknowledgement to them again and again before its         *)
(* deadline (common_fsm.c:155-164).                                        *)
CallsReturn ==
  \A c \in Callers : (pc[c] # "idle" /\ Owned(req[c].event)) ~> pc[c] = "idle"

(* A deleted machine is freed: EXIT is neither lost nor overtaken.         *)
DeletedIsFreed == ~handle ~> freed
=============================================================================
