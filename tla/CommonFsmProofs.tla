--------------------------- MODULE CommonFsmProofs ---------------------------
(***************************************************************************)
(* For every table, every set of callers and every way they call: the      *)
(* machine is type correct, and a call that a single thread owns and waits *)
(* for is acknowledged only when it has been served.  When one thread      *)
(* starts, stops and deletes the machine: a stopped machine is in its      *)
(* first state, and a freed one is not used.                               *)
(***************************************************************************)
EXTENDS CommonFsm, FsmTables, TLAPS

USE DEF Request!Phases, Ack!Phases

(* The lookup finds rows of the table, ...                                 *)
LEMMA RowsAreRows ==
  ASSUME NEW state, NEW events, NEW row \in GetLookup(state, events)
  PROVE  row \in DOMAIN Lookup
BY DEF GetLookup, MatchingRows

(* ... whose actions return states of the machine.                         *)
LEMMA ActionReturnsState ==
  ASSUME NEW row \in DOMAIN Lookup, NEW s \in Lookup[row].next
  PROVE  s \in States
BY FsmAssumption DEF States

(* Each function of src/utils/common_fsm.c keeps the machine well formed.  *)
THEOREM TypeCorrect == Spec => []TypeOK
<1>1. Init => TypeOK
  <2> SUFFICES ASSUME Init PROVE TypeOK
    OBVIOUS
  <2> USE DEF Init, AllBits
  <2>1. Request!TypeOK /\ Ack!TypeOK
    BY DEF Request!Init, Ack!Init, Request!TypeOK, Ack!TypeOK
  <2>2. cur_state \in States \ {HOLD}
    <3>1. InitState \in States
      BY DEF States
    <3> QED BY <3>1, FsmAssumption
  <2>3. req \in [Callers -> [caller : Callers, event : AllBits, wait : BOOLEAN, clear : BOOLEAN]]
    OBVIOUS
  <2> QED BY <2>1, <2>2, <2>3 DEF TypeOK, WorkerPcs, CallerPcs
<1>2. TypeOK /\ [Next]_vars => TypeOK'
  <2> SUFFICES ASSUME TypeOK, [Next]_vars PROVE TypeOK'
    OBVIOUS
  <2> USE DEF TypeOK, AllBits, WorkerPcs, CallerPcs, Request!TypeOK, Ack!TypeOK,
              group1, group2, worker, caller
  <2>1. CASE WorkerTakes
    BY <2>1 DEF WorkerTakes, WorkerGoesOn, MarkTaken, Request!WaitTakes,
       Request!WakeTakes, Request!Consume, Request!Signal
  <2>2. CASE WorkerPolls
    BY <2>2 DEF WorkerPolls, WorkerGoesOn, Request!ReturnExpired
  <2>3. CASE WorkerSleeps \/ WorkerSpuriousWake
    BY <2>3 DEF WorkerSleeps, WorkerSpuriousWake, Request!WaitBlocks,
       Request!WakeSleepsAgain, Request!Expire, Request!SpuriousWake
  <2>4. CASE WorkerHandles
    <3>1. cur_state' \in States \ {HOLD}
      BY <2>4, RowsAreRows, ActionReturnsState DEF WorkerHandles
    <3> QED BY <2>4, <3>1 DEF WorkerHandles
  <2>5. CASE WorkerAcks
    BY <2>5 DEF WorkerAcks, Ack!SetEvent, Ack!Signal
  <2>6. CASE WorkerFrees
    BY <2>6 DEF WorkerFrees
  <2>7. ASSUME NEW c \in Callers, NEW r \in Requests, Call(c, r) PROVE TypeOK'
    BY <2>7, FsmAssumption DEF Call
  <2>8. ASSUME NEW c \in Callers, Post(c) PROVE TypeOK'
    BY <2>8 DEF Post, AfterWait, Request!SetEvent, Request!Signal
  <2>9. ASSUME NEW c \in Callers, Acked(c) PROVE TypeOK'
    BY <2>9 DEF Acked, Return, AfterWait, Ack!WaitTakes, Ack!WakeTakes, Ack!Consume, Ack!Signal
  <2>10. ASSUME NEW c \in Callers, AwaitSleeps(c) PROVE TypeOK'
    BY <2>10 DEF AwaitSleeps, Ack!WaitBlocks, Ack!WakeSleepsAgain
  <2>11. ASSUME NEW c \in Callers, AwaitSpuriousWake(c) \/ AwaitExpires(c) PROVE TypeOK'
    BY <2>11 DEF AwaitSpuriousWake, AwaitExpires, Ack!SpuriousWake, Ack!Expire
  <2>12. ASSUME NEW c \in Callers, AwaitReturnsLate(c) PROVE TypeOK'
    BY <2>12 DEF AwaitReturnsLate, Return, AfterWait, Ack!ReturnExpired
  <2>13. ASSUME NEW c \in Callers, ClearEvents(c) \/ ClearAcks(c) PROVE TypeOK'
    BY <2>13 DEF ClearEvents, ClearAcks, Request!ClearEvent, Ack!ClearEvent
  <2>14. ASSUME NEW c \in Callers, Delete(c) \/ DeleteEnds(c) PROVE TypeOK'
    <3>1. CASE Delete(c)
      BY <3>1 DEF Delete, Request!SetEvent, Request!Signal
    <3>2. CASE DeleteEnds(c)
      BY <3>2 DEF DeleteEnds
    <3> QED BY <2>14, <3>1, <3>2
  <2>15. CASE UNCHANGED vars
    BY <2>15 DEF vars
  <2> QED
    BY <2>1, <2>2, <2>3, <2>4, <2>5, <2>6, <2>7, <2>8, <2>9, <2>10, <2>11, <2>12,
       <2>13, <2>14, <2>15 DEF Next, WorkerStep, CallerStep
<1> QED BY <1>1, <1>2, PTL DEF Spec
-----------------------------------------------------------------------------
(* A safe bit: owned by one thread, whose wait for it does not time out.   *)
Safe(e) == e \in Events /\ Owned(e) /\ Expiry[e] = "never"

(* What the callers are doing agrees with their calls; the worker always   *)
(* waits for every bit.                                                    *)
WorkerInv == pendPhase[Worker] # "out" => pendMask[Worker] = AllBits

CallInv ==
  \A c \in Callers :
    /\ req[c].caller = c
    /\ req[c].event # EXIT => req[c] \in Requests
    /\ ackPhase[c] # "out" => pc[c] = "await" /\ ackMask[c] = {req[c].event}
    /\ ackPhase[c] = "expired" => Expiry[req[c].event] # "never"
    /\ req[c].event = EXIT => pc[c] \notin {"post", "await"} /\ outcome[c] = "none"
    /\ pc[c] \in {"post", "await"} => outcome[c] = "none"

(* A thread waits for the bit e, and the worker has got this far with it.  *)
Awaited(e, stage) ==
  \E c \in Callers : req[c].event = e /\ pc[c] = "await" /\ served[c] = stage

(* A safe bit is in at most one of the three places, the one that matches  *)
(* the stage of the call of its owner; after the call it is nowhere.       *)
StageInv ==
  \A e \in Events : Safe(e) =>
    /\ e \in pending => Awaited(e, "posted")
    /\ e \in taken => Awaited(e, "taken")
    /\ e \in acks => Awaited(e, "done")

AckInv ==
  \A c \in Callers :
    outcome[c] = "acked" /\ Safe(req[c].event) => served[c] = "done"

IInv == WorkerInv /\ CallInv /\ StageInv /\ AckInv

(* A safe event has one caller who posts it.                               *)
LEMMA OwnerIsUnique ==
  ASSUME CallInv, NEW e, Safe(e), NEW c \in Callers, NEW d \in Callers,
         req[c].event = e, req[d].event = e
  PROVE  c = d
<1>1. e # EXIT
  BY FsmAssumption DEF Safe
<1>2. req[c] \in Requests /\ req[d] \in Requests
  BY <1>1 DEF CallInv
<1> QED BY <1>2 DEF CallInv, Safe, Owned

(* A thread that waits keeps waiting as long as it does not move itself.   *)
LEMMA AwaitedKept ==
  ASSUME NEW e, NEW stage, Awaited(e, stage),
         \A c \in Callers : req[c].event = e /\ pc[c] = "await" /\ served[c] = stage
            => req'[c] = req[c] /\ pc'[c] = pc[c] /\ served'[c] = stage
  PROVE  Awaited(e, stage)'
BY DEF Awaited

(* The step of a caller that is not the owner of a safe bit, or that only  *)
(* removes bits, leaves the place of that bit alone.                       *)
LEMMA OthersKeepStage ==
  ASSUME StageInv, NEW c \in Callers,
         pending' \subseteq pending \cup {x \in pending' : ~Safe(x)},
         taken' = taken, acks' \subseteq acks,
         \A d \in Callers \ {c} : req'[d] = req[d] /\ pc'[d] = pc[d] /\ served'[d] = served[d],
         pc[c] = "await" => ~Safe(req[c].event)
  PROVE  StageInv'
<1> SUFFICES ASSUME NEW e \in Events, Safe(e)
             PROVE  /\ e \in pending' => Awaited(e, "posted")'
                    /\ e \in taken' => Awaited(e, "taken")'
                    /\ e \in acks' => Awaited(e, "done")'
  BY DEF StageInv, Safe, Owned
<1>1. ASSUME NEW stage, Awaited(e, stage) PROVE Awaited(e, stage)'
  BY <1>1, AwaitedKept DEF Safe
<1> QED BY <1>1 DEF StageInv

(* A step that leaves the callers where they are and adds no bit.          *)
LEMMA QuietStep ==
  ASSUME StageInv, AckInv, UNCHANGED caller,
         pending' \subseteq pending, taken' \subseteq taken, acks' \subseteq acks
  PROVE  StageInv' /\ AckInv'
<1>1. ASSUME NEW e, NEW stage PROVE Awaited(e, stage)' = Awaited(e, stage)
  BY DEF Awaited, caller
<1>2. ASSUME NEW e PROVE Safe(e)' = Safe(e)
  BY DEF Safe, Owned
<1>3. StageInv'
  BY <1>1, <1>2 DEF StageInv
<1>4. AckInv'
  BY <1>2 DEF AckInv, caller
<1> QED BY <1>3, <1>4

(* The worker waits for every bit, whichever step is taken.                *)
LEMMA WorkerInvKept ==
  ASSUME TypeOK, WorkerInv, [Next]_vars
  PROVE  WorkerInv'
<1> USE DEF WorkerInv, TypeOK, Request!TypeOK, Ack!TypeOK, group1, group2, worker, caller
<1>1. CASE WorkerTakes \/ WorkerPolls
  BY <1>1 DEF WorkerTakes, WorkerPolls, WorkerGoesOn, Request!WaitTakes, Request!WakeTakes,
     Request!Consume, Request!Signal, Request!ReturnExpired
<1>2. CASE WorkerSleeps \/ WorkerSpuriousWake
  BY <1>2 DEF WorkerSleeps, WorkerSpuriousWake, Request!WaitBlocks, Request!WakeSleepsAgain,
     Request!Expire, Request!SpuriousWake
<1>3. CASE WorkerHandles \/ WorkerAcks \/ WorkerFrees
  BY <1>3 DEF WorkerHandles, WorkerAcks, WorkerFrees
<1>4. ASSUME NEW c \in Callers, NEW r \in Requests, Call(c, r) PROVE WorkerInv'
  BY <1>4 DEF Call
<1>5. ASSUME NEW c \in Callers, Post(c) \/ Delete(c) PROVE WorkerInv'
  BY <1>5 DEF Post, Delete, Request!SetEvent, Request!Signal
<1>6. ASSUME NEW c \in Callers,
             \/ Acked(c) \/ AwaitSleeps(c) \/ AwaitSpuriousWake(c) \/ AwaitExpires(c)
             \/ AwaitReturnsLate(c) \/ ClearEvents(c) \/ ClearAcks(c) \/ DeleteEnds(c)
      PROVE  WorkerInv'
  BY <1>6 DEF Acked, Return, AwaitSleeps, AwaitSpuriousWake, AwaitExpires, AwaitReturnsLate,
     ClearEvents, ClearAcks, DeleteEnds, Request!ClearEvent
<1>7. CASE UNCHANGED vars
  BY <1>7 DEF vars
<1> QED
  BY <1>1, <1>2, <1>3, <1>4, <1>5, <1>6, <1>7 DEF Next, WorkerStep, CallerStep

(* An event that is acknowledged was taken and handled after it was set:   *)
(* com_fsm_set_event returns from its wait only then.                      *)
THEOREM AckInvariant == Spec => []IInv
<1>1. Init => IInv
  <2> SUFFICES ASSUME Init PROVE CallInv /\ StageInv /\ AckInv
    BY DEF IInv, Init, WorkerInv, Request!Init
  <2> USE DEF Init
  <2>1. CallInv
    BY DEF CallInv, Ack!Init
  <2>2. StageInv
    BY DEF StageInv, Request!Init, Ack!Init
  <2>3. AckInv
    BY DEF AckInv
  <2> QED BY <2>1, <2>2, <2>3
<1>2. TypeOK /\ IInv /\ [Next]_vars => IInv'
  <2> SUFFICES ASSUME TypeOK, WorkerInv, CallInv, StageInv, AckInv, [Next]_vars
               PROVE  CallInv' /\ StageInv' /\ AckInv'
    BY WorkerInvKept DEF IInv
  <2> USE DEF TypeOK, AllBits, Request!TypeOK, Ack!TypeOK, group1, group2, worker, caller
  <2>1. CASE WorkerTakes
    <3> USE <2>1 DEF WorkerTakes, WorkerGoesOn, MarkTaken
    <3>1. taken' = pending /\ pending' = {}
      BY FsmAssumption DEF Request!WaitTakes, Request!WakeTakes, Request!Consume, WorkerInv
    <3>2. CallInv'
      BY DEF CallInv
    <3>3. StageInv'
      <4> SUFFICES ASSUME NEW e \in Events, Safe(e)
                   PROVE  /\ e \in taken' => Awaited(e, "taken")'
                          /\ e \in acks' => Awaited(e, "done")'
        BY <3>1 DEF StageInv, Safe, Owned
      <4>1. ASSUME e \in pending PROVE Awaited(e, "taken")'
        <5>1. PICK c \in Callers : req[c].event = e /\ pc[c] = "await" /\ served[c] = "posted"
          BY <4>1 DEF StageInv, Awaited
        <5> QED BY <4>1, <5>1 DEF Awaited
      <4>2. ASSUME e \in acks PROVE Awaited(e, "done")'
        BY <4>2, AwaitedKept DEF StageInv
      <4> QED BY <3>1, <4>1, <4>2
    <3>4. AckInv'
      BY DEF AckInv, Safe, Owned
    <3> QED BY <3>2, <3>3, <3>4
  <2>2. CASE WorkerPolls
    <3>1. pending' = pending /\ taken' = {} /\ UNCHANGED <<group2, caller>>
      BY <2>2 DEF WorkerPolls, WorkerGoesOn, Request!ReturnExpired
    <3>2. CallInv'
      BY <3>1 DEF CallInv
    <3> QED BY <3>1, <3>2, QuietStep
  <2>3. CASE WorkerSleeps \/ WorkerSpuriousWake \/ WorkerHandles \/ WorkerFrees
    <3>1. pending' = pending /\ taken' = taken /\ UNCHANGED <<group2, caller>>
      BY <2>3 DEF WorkerSleeps, WorkerSpuriousWake, WorkerHandles, WorkerFrees,
         Request!WaitBlocks, Request!WakeSleepsAgain, Request!Expire, Request!SpuriousWake
    <3>2. CallInv'
      BY <3>1 DEF CallInv
    <3> QED BY <3>1, <3>2, QuietStep
  <2>4. CASE WorkerAcks
    <3> USE <2>4 DEF WorkerAcks, Ack!SetEvent
    <3>1. CallInv'
      BY DEF CallInv, Ack!Signal
    <3>2. StageInv'
      <4> SUFFICES ASSUME NEW e \in Events, Safe(e)
                   PROVE  /\ e \in pending' => Awaited(e, "posted")'
                          /\ e \in acks' => Awaited(e, "done")'
        BY DEF StageInv, Safe, Owned
      <4>1. ASSUME e \in pending PROVE Awaited(e, "posted")'
        BY <4>1, AwaitedKept DEF StageInv
      <4>2. ASSUME e \in acks PROVE Awaited(e, "done")'
        BY <4>2, AwaitedKept DEF StageInv
      <4>3. ASSUME e \in taken PROVE Awaited(e, "done")'
        <5>1. PICK c \in Callers : req[c].event = e /\ pc[c] = "await" /\ served[c] = "taken"
          BY <4>3 DEF StageInv, Awaited
        <5> QED BY <5>1 DEF Awaited
      <4> QED BY <4>1, <4>2, <4>3
    <3>3. AckInv'
      BY DEF AckInv, Safe, Owned
    <3> QED BY <3>1, <3>2, <3>3
  <2>5. ASSUME NEW c \in Callers, NEW r \in Requests, Call(c, r)
        PROVE  CallInv' /\ StageInv' /\ AckInv'
    <3> USE <2>5 DEF Call
    <3>1. CallInv'
      BY FsmAssumption DEF CallInv
    <3>2. StageInv'
      BY OthersKeepStage
    <3>3. AckInv'
      BY DEF AckInv, Safe, Owned
    <3> QED BY <3>1, <3>2, <3>3
  <2>6. ASSUME NEW c \in Callers, Post(c)
        PROVE  CallInv' /\ StageInv' /\ AckInv'
    <3> USE <2>6 DEF Post, Request!SetEvent
    <3>1. CallInv'
      BY DEF CallInv, AfterWait
    <3>2. StageInv'
      <4>1. CASE Safe(req[c].event)
        <5> DEFINE e == req[c].event
        <5>1. req[c].wait
          BY <4>1 DEF CallInv, Safe, Owned
        <5>2. ~Awaited(e, "taken") /\ ~Awaited(e, "done")
          BY <4>1, OwnerIsUnique DEF Awaited
        <5>3. Awaited(e, "posted")'
          BY <5>1 DEF Awaited
        <5>4. ASSUME NEW d \in Events, d # e, NEW stage, Awaited(d, stage)
              PROVE  Awaited(d, stage)'
          BY <5>4, AwaitedKept
        <5>5. SUFFICES ASSUME NEW d \in Events, Safe(d)
                       PROVE  /\ d \in pending' => Awaited(d, "posted")'
                              /\ d \in taken' => Awaited(d, "taken")'
                              /\ d \in acks' => Awaited(d, "done")'
          BY DEF StageInv, Safe, Owned
        <5>6. CASE d = e
          BY <4>1, <5>2, <5>3, <5>6 DEF StageInv, Awaited
        <5>7. CASE d # e
          <6>1. /\ d \in pending => Awaited(d, "posted")
                /\ d \in taken => Awaited(d, "taken")
                /\ d \in acks => Awaited(d, "done")
            BY <5>5 DEF StageInv
          <6>2. pending' = pending \cup {e} /\ taken' = taken /\ acks' = acks
            OBVIOUS
          <6> HIDE <2>6 DEF Post
          <6> QED BY <5>4, <5>7, <6>1, <6>2
        <5> QED BY <5>6, <5>7
      <4>2. CASE ~Safe(req[c].event)
        BY <4>2, OthersKeepStage
      <4> QED BY <4>1, <4>2
    <3>3. AckInv'
      BY DEF AckInv, CallInv, Safe, Owned
    <3> QED BY <3>1, <3>2, <3>3
  <2>7. ASSUME NEW c \in Callers, Acked(c)
        PROVE  CallInv' /\ StageInv' /\ AckInv'
    <3> USE <2>7 DEF Acked, Return
    <3> DEFINE e == req[c].event
    <3>1. e \in acks /\ acks' = acks \ {e} /\ UNCHANGED ackMask
      BY DEF Ack!WaitTakes, Ack!WakeTakes, Ack!Consume, CallInv
    <3>2. ackPhase'[c] = "out" /\ \A d \in Callers \ {c} : ackPhase'[d] # "out" =>
             ackPhase[d] # "out" /\ (ackPhase'[d] = "expired" => ackPhase[d] = "expired")
      BY DEF Ack!WaitTakes, Ack!WakeTakes, Ack!Consume, Ack!Signal
    <3>3. CallInv'
      BY <3>1, <3>2 DEF CallInv, AfterWait
    <3>4. CASE Safe(e)
      <4>1. served[c] = "done"
        <5>1. PICK d \in Callers : req[d].event = e /\ served[d] = "done"
          BY <3>1, <3>4 DEF StageInv, Awaited, Safe
        <5> QED BY <3>4, <5>1, OwnerIsUnique
      <4>2. ~Awaited(e, "taken") /\ ~Awaited(e, "posted")
        BY <3>4, <4>1, OwnerIsUnique DEF Awaited
      <4>3. ASSUME NEW d \in Events, d # e, NEW stage, Awaited(d, stage)
            PROVE  Awaited(d, stage)'
        BY <4>3, AwaitedKept
      <4>4. StageInv'
        <5> SUFFICES ASSUME NEW d \in Events, Safe(d)
                     PROVE  /\ d \in pending' => Awaited(d, "posted")'
                            /\ d \in taken' => Awaited(d, "taken")'
                            /\ d \in acks' => Awaited(d, "done")'
          BY DEF StageInv, Safe, Owned
        <5>1. CASE d = e
          BY <3>1, <4>2, <5>1 DEF StageInv
        <5>2. CASE d # e
          BY <3>1, <4>3, <5>2 DEF StageInv
        <5> QED BY <5>1, <5>2
      <4>5. AckInv'
        BY <4>1 DEF AckInv, Safe, Owned
      <4> QED BY <3>3, <4>4, <4>5
    <3>5. CASE ~Safe(e)
      <4>1. StageInv'
        BY <3>1, <3>5, OthersKeepStage
      <4>2. AckInv'
        BY <3>5 DEF AckInv, Safe, Owned
      <4> QED BY <3>3, <4>1, <4>2
    <3> QED BY <3>4, <3>5
  <2>8. ASSUME NEW c \in Callers,
               AwaitSleeps(c) \/ AwaitSpuriousWake(c) \/ AwaitExpires(c)
        PROVE  CallInv' /\ StageInv' /\ AckInv'
    <3>1. UNCHANGED <<group1, worker, caller>> /\ acks' = acks
      BY <2>8 DEF AwaitSleeps, AwaitSpuriousWake, AwaitExpires, Ack!WaitBlocks,
         Ack!WakeSleepsAgain, Ack!SpuriousWake, Ack!Expire
    <3>2. CallInv'
      BY <2>8, <3>1 DEF CallInv, AwaitSleeps, AwaitSpuriousWake, AwaitExpires, Ack!WaitBlocks,
         Ack!WakeSleepsAgain, Ack!SpuriousWake, Ack!Expire
    <3> QED BY <3>1, <3>2, QuietStep
  <2>9. ASSUME NEW c \in Callers, AwaitReturnsLate(c)
        PROVE  CallInv' /\ StageInv' /\ AckInv'
    <3> USE <2>9 DEF AwaitReturnsLate, Return, Ack!ReturnExpired
    <3>1. CallInv'
      BY DEF CallInv, AfterWait
    <3>2. ~Safe(req[c].event)
      BY DEF CallInv, Safe
    <3>3. StageInv'
      BY <3>2, OthersKeepStage
    <3>4. AckInv'
      BY DEF AckInv, Safe, Owned
    <3> QED BY <3>1, <3>3, <3>4
  <2>10. ASSUME NEW c \in Callers, ClearEvents(c) \/ ClearAcks(c)
         PROVE  CallInv' /\ StageInv' /\ AckInv'
    <3> USE <2>10 DEF ClearEvents, ClearAcks, Request!ClearEvent, Ack!ClearEvent
    <3>1. CallInv'
      BY DEF CallInv
    <3>2. StageInv'
      BY OthersKeepStage
    <3>3. AckInv'
      BY DEF AckInv, Safe, Owned
    <3> QED BY <3>1, <3>2, <3>3
  <2>11. ASSUME NEW c \in Callers, Delete(c) \/ DeleteEnds(c)
         PROVE  CallInv' /\ StageInv' /\ AckInv'
    <3> USE <2>11 DEF Delete, DeleteEnds, Request!SetEvent
    <3>1. CallInv'
      BY DEF CallInv
    <3>2. StageInv'
      <4>1. ~Safe(EXIT)
        BY FsmAssumption DEF Safe
      <4>2. /\ pending' \subseteq pending \cup {EXIT} /\ taken' = taken /\ acks' = acks
            /\ req' = req /\ served' = served /\ pc[c] # "await"
            /\ \A d \in Callers \ {c} : pc'[d] = pc[d]
        OBVIOUS
      <4> HIDE <2>11 DEF Delete, DeleteEnds, Request!SetEvent, TypeOK
      <4> QED BY <4>1, <4>2, OthersKeepStage
    <3>3. AckInv'
      BY DEF AckInv, Safe, Owned
    <3> QED BY <3>1, <3>2, <3>3
  <2>12. CASE UNCHANGED vars
    <3>1. CallInv'
      BY <2>12 DEF vars, CallInv
    <3> QED BY <2>12, <3>1, QuietStep DEF vars
  <2> QED
    BY <2>1, <2>2, <2>3, <2>4, <2>5, <2>6, <2>7, <2>8, <2>9, <2>10, <2>11, <2>12
    DEF Next, WorkerStep, CallerStep, IInv
<1> QED BY <1>1, <1>2, TypeCorrect, PTL DEF Spec

(* When no wait for an owned bit times out early, an acknowledged call was *)
(* served: nothing that com_fsm_set_event leaves behind, not even the      *)
(* acknowledgements of calls that did not wait, is taken for its own.      *)
THEOREM AcksAreHonest ==
  (\A e \in Events : Owned(e) => Expiry[e] = "never") => (Spec => []AckMeansServed)
<1> SUFFICES ASSUME \A e \in Events : Owned(e) => Expiry[e] = "never"
             PROVE  Spec => []AckMeansServed
  OBVIOUS
<1>1. TypeOK /\ IInv => AckMeansServed
  <2> SUFFICES ASSUME TypeOK, IInv, NEW c \in Callers, outcome[c] = "acked",
                      Owned(req[c].event)
               PROVE  served[c] = "done"
    BY DEF AckMeansServed
  <2>1. CASE req[c].event \in Events
    BY <2>1, FsmAssumption DEF IInv, AckInv, Safe
  <2>2. CASE req[c].event = EXIT
    BY <2>2 DEF IInv, CallInv
  <2> QED BY <2>1, <2>2 DEF TypeOK, AllBits
<1> QED BY <1>1, AckInvariant, TypeCorrect, PTL
-----------------------------------------------------------------------------
Calls(c) == pc[c] \notin {"idle", "delete"}

(* Where EXIT can be, and from then on.                                    *)
Exits == EXIT \in pending \cup taken \/ wpc \in {"free", "gone"} \/ freed

(* EXIT is posted when nobody calls, and nobody can any more: the deleter  *)
(* has not returned, or the pointer is gone.                               *)
ExitInv ==
  /\ \A c \in Callers : Calls(c) => \E r \in Requests : r.caller = c
  /\ Exits => /\ \A c \in Callers : ~Calls(c)
              /\ handle => \E d \in Deleters : pc[d] = "delete"

(* The worker does not call, and does not make EXIT from nothing.          *)
LEMMA WorkerKeepsExit ==
  ASSUME TypeOK, ExitInv, WorkerStep \/ WorkerSpuriousWake
  PROVE  ExitInv'
<1>1. UNCHANGED <<handle, pc>>
  BY DEF WorkerStep, WorkerTakes, WorkerPolls, WorkerSleeps, WorkerHandles, WorkerAcks,
     WorkerFrees, WorkerSpuriousWake, WorkerGoesOn, caller
<1>2. Exits' => Exits
  <2> USE DEF Exits, group1, worker
  <2>1. CASE WorkerTakes
    BY <2>1 DEF WorkerTakes, WorkerGoesOn, Request!WaitTakes, Request!WakeTakes, Request!Consume
  <2>2. CASE WorkerPolls
    BY <2>2 DEF WorkerPolls, WorkerGoesOn, Request!ReturnExpired
  <2>3. CASE WorkerSleeps \/ WorkerSpuriousWake
    BY <2>3 DEF WorkerSleeps, WorkerSpuriousWake, Request!WaitBlocks, Request!WakeSleepsAgain,
       Request!Expire, Request!SpuriousWake
  <2>4. CASE WorkerHandles \/ WorkerAcks \/ WorkerFrees
    BY <2>4 DEF WorkerHandles, WorkerAcks, WorkerFrees
  <2> QED BY <2>1, <2>2, <2>3, <2>4 DEF WorkerStep
<1> QED BY <1>1, <1>2 DEF ExitInv, Calls

(* A caller posts only what it calls with, and begins no call while the    *)
(* machine is being deleted.                                               *)
LEMMA CallerKeepsExit ==
  ASSUME TypeOK, CallInv, OwnerDeletes, ExitInv, NEW c \in Callers,
         \/ \E r \in Requests : Call(c, r)
         \/ CallerStep(c)
         \/ AwaitSpuriousWake(c)
         \/ AwaitExpires(c)
         \/ Delete(c)
  PROVE  ExitInv'
<1> USE DEF Calls
<1>1. pc \in [Callers -> CallerPcs] /\ Deleters \subseteq Callers
  BY FsmAssumption DEF TypeOK
<1>2. CASE Delete(c)
  <2>1. c \in Deleters /\ pc[c] = "idle" /\ pc' = [pc EXCEPT ![c] = "delete"]
    BY <1>2 DEF Delete
  <2>2. \A d \in Callers : ~Calls(d)
    BY <2>1 DEF ExitInv, OwnerDeletes
  <2> QED BY <1>1, <2>1, <2>2 DEF ExitInv
<1>3. ASSUME NEW r \in Requests, Call(c, r) PROVE ExitInv'
  <2>1. /\ pc[c] = "idle" /\ r.caller = c /\ handle
        /\ pc' = [pc EXCEPT ![c] = "post"] /\ (Exits' <=> Exits)
    BY <1>3 DEF Call, Exits, group1, worker
  <2>2. ~Exits
    BY <2>1 DEF ExitInv, OwnerDeletes
  <2> QED BY <1>1, <2>1, <2>2 DEF ExitInv
<1>4. CASE \/ Post(c) \/ Acked(c) \/ AwaitReturnsLate(c) \/ ClearEvents(c) \/ ClearAcks(c)
           \/ AwaitSleeps(c) \/ AwaitSpuriousWake(c) \/ AwaitExpires(c)
  <2>1. /\ UNCHANGED handle
        /\ pc' = pc \/ \E place \in CallerPcs \ {"delete"} :
                          pc' = [pc EXCEPT ![c] = place] /\ Calls(c)
    BY <1>4 DEF Post, Acked, AwaitReturnsLate, ClearEvents, ClearAcks, AwaitSleeps,
       AwaitSpuriousWake, AwaitExpires, Return, AfterWait, caller, CallerPcs, CallInv,
       Ack!ReturnExpired
  <2>2. Exits' => Exits
    <3>1. CASE Post(c)
      <4>1. req[c].event # EXIT
        BY <3>1 DEF Post, CallInv
      <4> QED BY <3>1, <4>1 DEF Post, Exits, worker, Request!SetEvent
    <3>2. CASE ClearEvents(c)
      BY <3>2 DEF ClearEvents, Exits, worker, Request!ClearEvent
    <3>3. CASE \/ Acked(c) \/ AwaitReturnsLate(c) \/ ClearAcks(c)
               \/ AwaitSleeps(c) \/ AwaitSpuriousWake(c) \/ AwaitExpires(c)
      BY <3>3 DEF Acked, AwaitReturnsLate, ClearAcks, AwaitSleeps, AwaitSpuriousWake,
         AwaitExpires, Return, Exits, group1, worker
    <3> QED BY <1>4, <3>1, <3>2, <3>3
  <2>3. CASE pc' = pc
    BY <2>1, <2>2, <2>3 DEF ExitInv
  <2>4. CASE Calls(c) /\ \E place \in CallerPcs \ {"delete"} : pc' = [pc EXCEPT ![c] = place]
    <3>1. ~Exits
      BY <2>4 DEF ExitInv
    <3> QED BY <1>1, <2>2, <2>4, <3>1 DEF ExitInv
  <2> QED BY <2>1, <2>3, <2>4
<1>5. CASE DeleteEnds(c)
  <2>1. /\ pc[c] = "delete" /\ pc' = [pc EXCEPT ![c] = "idle"] /\ handle' = FALSE
        /\ (Exits' <=> Exits)
    BY <1>5 DEF DeleteEnds, Exits, group1, worker
  <2> QED BY <1>1, <2>1 DEF ExitInv
<1> QED BY <1>2, <1>3, <1>4, <1>5 DEF CallerStep

(* EXIT is where ExitInv says, whatever the callers do.                    *)
THEOREM AlwaysExit ==
  ASSUME OwnerDeletes
  PROVE  Spec => [](TypeOK /\ IInv /\ ExitInv)
<1>1. Init => ExitInv
  BY FsmAssumption DEF Init, ExitInv, Exits, Calls, Request!Init
<1>2. TypeOK /\ IInv /\ ExitInv /\ [Next]_vars => ExitInv'
  <2> SUFFICES ASSUME TypeOK, CallInv, ExitInv, [Next]_vars PROVE ExitInv'
    BY DEF IInv
  <2>1. CASE WorkerStep \/ WorkerSpuriousWake
    BY <2>1, WorkerKeepsExit
  <2>2. ASSUME NEW c \in Callers,
               \/ \E r \in Requests : Call(c, r)
               \/ CallerStep(c)
               \/ AwaitSpuriousWake(c)
               \/ AwaitExpires(c)
               \/ Delete(c)
        PROVE  ExitInv'
    BY <2>2, CallerKeepsExit
  <2>3. CASE UNCHANGED vars
    BY <2>3 DEF vars, group1, worker, caller, ExitInv, Exits, Calls
  <2> QED BY <2>1, <2>2, <2>3 DEF Next
<1> QED BY <1>1, <1>2, AckInvariant, TypeCorrect, PTL DEF Spec

(* A machine that is freed is out of everybody's hands, when its owner is  *)
(* the only one that calls it (common_fsm.c:28-46, 143-164).               *)
THEOREM FreedIsUntouched ==
  ASSUME OwnerDeletes
  PROVE  Spec => []FreedUntouched
<1>1. TypeOK /\ ExitInv => FreedUntouched
  BY DEF TypeOK, ExitInv, Exits, Calls, FreedUntouched
<1> QED BY <1>1, AlwaysExit, PTL
-----------------------------------------------------------------------------
(* The events of the thread o that starts and stops the machine.           *)
Key == Starts \cup {STOP}

(* A start or a stop is pending only while o waits for it, ...             *)
PendInv(o) ==
  \A e \in Key \cap pending :
    req[o].event = e /\ pc[o] = "await" /\ served[o] = "posted" /\ ackPhase[o] # "expired"

(* ... a start that o no longer waits for is taken before its next stop    *)
(* is, ...                                                                 *)
TakenInv(o) ==
  /\ \A e \in Key \cap taken : req[o].event = e => served[o] = "taken"
  /\ STOP \in taken => req[o].event = STOP
  /\ \A e \in Starts \cap taken :
       req[o].event # EXIT /\ (req[o].event = STOP => served[o] \in {"no", "posted"})

(* ... and an acknowledgement is at most as old as the last stop.          *)
StaleInv(o) ==
  \A e \in Key \cap acks :
    /\ req[o].event # EXIT
    /\ req[o].event = e => served[o] = "done"
    /\ e = STOP => req[o].event = STOP
    /\ req[o].event = STOP => pc[o] \notin {"idle", "delete"}

(* From the end of a stop on the machine is in its first state.            *)
StoppingInv(o) ==
  req[o].event = STOP =>
    /\ pc[o] = "await" => served[o] # "no"
    /\ served[o] = "posted" => STOP \in pending
    /\ served[o] = "taken" =>
         /\ pc[o] = "await" /\ STOP \in taken /\ wpc \in {"handle", "ack"}
         /\ wpc = "ack" => cur_state = InitState
    /\ served[o] = "done" => cur_state = InitState /\ Key \cap (pending \cup taken) = {}
    /\ outcome[o] # "none" \/ pc[o] \notin {"post", "await"} \/ ackPhase[o] = "expired"
         => served[o] = "done"

(* What o is told is true, and a call begins anew.                         *)
HonestInv(o) ==
  /\ req[o].event \in Key /\ outcome[o] = "acked" => served[o] = "done"
  /\ pc[o] = "post" => served[o] = "no"

(* Nobody else clears the groups.                                          *)
ClearInv(o) == \A c \in Callers : pc[c] = "clear_events" => c = o

StopInv(o) ==
  /\ PendInv(o) /\ TakenInv(o) /\ StaleInv(o)
  /\ StoppingInv(o) /\ HonestInv(o) /\ ClearInv(o)

(* The starts and STOP are request bits, STOP is not a start, and o is the *)
(* only one to call them, always waiting.                                  *)
LEMMA KeyEvents ==
  ASSUME NEW o \in Callers, Controls(o), StopWins
  PROVE  /\ Key \subseteq Events /\ EXIT \notin Key /\ STOP \in Key /\ STOP \notin Starts
         /\ Starts \subseteq Key
         /\ \A e \in Key : Owned(e)
         /\ \A e \in Key : Expiry[e] = "never" => Safe(e)
<1>1. Starts \subseteq Events
  <2> SUFFICES ASSUME NEW e \in Starts PROVE e \in Events
    OBVIOUS
  <2>1. PICK i \in DOMAIN Lookup : e \in Lookup[i].event
    BY DEF Starts
  <2> DEFINE R == [event : SUBSET Events, state : States, next : SUBSET States, poll : Polls]
  <2>2. Lookup \in Seq(R)
    BY FsmAssumption
  <2>3. Lookup[i] \in R
    <3> HIDE DEF R
    <3> QED BY <2>1, <2>2
  <2> QED BY <2>1, <2>3
<1>2. STOP \in Events /\ STOP \notin Starts
  BY DEF Controls, StopWins, Starts
<1>3. \A e \in Key : Owned(e)
  BY DEF Key, Controls, Owned
<1> QED BY <1>1, <1>2, <1>3, FsmAssumption DEF Key, Safe

(* Who posts or waits has a request of his own, and only o one in Key.     *)
LEMMA KeyCallers ==
  ASSUME CallInv, NEW o \in Callers, Controls(o), NEW c \in Callers,
         pc[c] \in {"post", "await"}
  PROVE  /\ req[c] \in Requests /\ req[c].caller = c /\ req[c].event # EXIT
         /\ req[c].event \in Key => c = o /\ req[c].wait
         /\ req[c].clear => c = o
         /\ req[c].event = STOP => req[c].clear
<1>1. req[c] \in Requests /\ req[c].caller = c /\ req[c].event # EXIT
  BY DEF CallInv
<1> QED BY <1>1 DEF Controls, Key

(* A step that leaves o where it is, and adds neither a start nor a stop.  *)
LEMMA StopInvRests ==
  ASSUME NEW o \in Callers, StopInv(o), ClearInv(o)',
         req'[o] = req[o], pc'[o] = pc[o], served'[o] = served[o], outcome'[o] = outcome[o],
         Key \cap pending' = Key \cap pending, taken' = taken, acks' \subseteq acks,
         UNCHANGED <<cur_state, wpc>>,
         ackPhase'[o] = "expired" => ackPhase[o] = "expired"
  PROVE  StopInv(o)'
<1> USE DEF StopInv
<1>1. PendInv(o)'
  BY DEF PendInv
<1>2. TakenInv(o)'
  BY DEF TakenInv
<1>3. StaleInv(o)'
  BY DEF StaleInv
<1>4. StoppingInv(o)'
  <2>1. STOP \in pending => STOP \in pending'
    BY DEF Key
  <2>2. Key \cap (pending \cup taken) = {} => Key \cap (pending' \cup taken') = {}
    OBVIOUS
  <2> HIDE DEF StopInv
  <2>3. StoppingInv(o)
    BY DEF StopInv
  <2> QED BY <2>1, <2>2, <2>3 DEF StoppingInv
<1>5. HonestInv(o)'
  BY DEF HonestInv
<1> QED BY <1>1, <1>2, <1>3, <1>4, <1>5

(* In its first state the machine does nothing without a start, and in     *)
(* every other the row of STOP is run, whatever else has been taken.       *)
LEMMA StopIsRun ==
  ASSUME TypeOK, NEW o \in Callers, Controls(o), StopWins, WorkerHandles, EXIT \notin taken
  PROVE  /\ cur_state = InitState /\ Starts \cap taken = {} => cur_state' = InitState
         /\ STOP \in taken /\ Starts \cap taken = {} => cur_state' = InitState
<1>1. ASSUME cur_state = InitState, Starts \cap taken = {}
      PROVE  GetLookup(cur_state, taken) = {}
  <2> SUFFICES ASSUME NEW i \in GetLookup(cur_state, taken) PROVE FALSE
    OBVIOUS
  <2>1. /\ i \in DOMAIN Lookup /\ Lookup[i].state = InitState
        /\ IF taken = {} THEN Lookup[i].event = {} ELSE Lookup[i].event \subseteq taken
    BY <1>1 DEF GetLookup, MatchingRows
  <2>2. PICK e : e \in Lookup[i].event
    BY <2>1 DEF StopWins
  <2>3. e \in Starts
    BY <2>1, <2>2 DEF Starts
  <2> QED BY <1>1, <2>1, <2>2, <2>3
<1>2. ASSUME cur_state = InitState, Starts \cap taken = {} PROVE cur_state' = InitState
  BY <1>1, <1>2 DEF WorkerHandles
<1>3. ASSUME cur_state # InitState, STOP \in taken PROVE cur_state' = InitState
  <2>1. cur_state \in States \ {InitState, HOLD} /\ taken \in SUBSET Events
    BY <1>3 DEF TypeOK, AllBits
  <2>2. PICK i \in GetLookup(cur_state, taken) : Lookup[i].next = {InitState}
    BY <1>3, <2>1 DEF StopWins
  <2>3. \A j \in GetLookup(cur_state, taken) : j = i
    BY <2>2, RowsAreRows, FsmAssumption DEF GetLookup
  <2>4. PICK j \in GetLookup(cur_state, taken) : \E s \in Lookup[j].next :
           cur_state' = IF s = HOLD THEN cur_state ELSE s
    BY <2>2 DEF WorkerHandles
  <2>5. Lookup[j].next = {InitState}
    BY <2>2, <2>3
  <2> QED BY <2>4, <2>5, FsmAssumption
<1> QED BY <1>2, <1>3

(* The worker takes a start and a stop one after the other, and runs the   *)
(* row of STOP.                                                            *)
LEMMA WorkerStops ==
  ASSUME TypeOK, WorkerInv, ExitInv, NEW o \in Callers, Controls(o), StopWins, StopInv(o),
         WorkerStep \/ WorkerSpuriousWake
  PROVE  StopInv(o)'
<1>0. /\ PendInv(o) /\ TakenInv(o) /\ StaleInv(o)
      /\ StoppingInv(o) /\ HonestInv(o) /\ ClearInv(o)
  BY DEF StopInv
<1>1. /\ Key \subseteq Events /\ EXIT \notin Key /\ STOP \in Key /\ STOP \notin Starts
      /\ Starts \subseteq Key /\ Key = Starts \cup {STOP}
  BY KeyEvents DEF Key
<1>2. UNCHANGED <<pc, req, outcome>> /\ ClearInv(o)'
  BY <1>0 DEF WorkerStep, WorkerTakes, WorkerPolls, WorkerSleeps, WorkerHandles, WorkerAcks,
     WorkerFrees, WorkerSpuriousWake, WorkerGoesOn, caller, ClearInv
<1>3. CASE WorkerTakes
  <2>1. /\ wpc = "wait" /\ taken' = pending /\ pending' = {} /\ wpc' = "handle"
        /\ UNCHANGED <<group2, cur_state>> /\ MarkTaken
    BY <1>3, FsmAssumption DEF WorkerTakes, WorkerGoesOn, Request!WaitTakes, Request!WakeTakes,
       Request!Consume, WorkerInv, TypeOK, Request!TypeOK, AllBits
  <2>2. served'[o] = IF served[o] = "posted" /\ req[o].event \in pending THEN "taken"
                     ELSE served[o]
    BY <2>1 DEF MarkTaken
  <2>3. PendInv(o)'
    BY <2>1 DEF PendInv
  <2>4. TakenInv(o)'
    BY <1>0, <1>1, <1>2, <2>1, <2>2 DEF PendInv, TakenInv
  <2>5. StaleInv(o)'
    BY <1>0, <1>2, <2>1, <2>2 DEF StaleInv, group2
  <2>6. StoppingInv(o)'
    BY <1>0, <1>1, <1>2, <2>1, <2>2 DEF StoppingInv, PendInv, group2
  <2>7. HonestInv(o)'
    BY <1>0, <1>2, <2>2 DEF HonestInv
  <2> QED BY <1>2, <2>3, <2>4, <2>5, <2>6, <2>7 DEF StopInv
<1>4. CASE WorkerPolls
  <2>1. /\ wpc = "wait" /\ taken' = {} /\ pending' = pending /\ wpc' = "handle"
        /\ UNCHANGED <<group2, cur_state, served>>
    BY <1>4 DEF WorkerPolls, WorkerGoesOn, Request!ReturnExpired, group1
  <2>2. PendInv(o)' /\ TakenInv(o)' /\ StaleInv(o)' /\ HonestInv(o)'
    BY <1>0, <1>2, <2>1 DEF PendInv, TakenInv, StaleInv, HonestInv, group2
  <2>3. StoppingInv(o)'
    BY <1>0, <1>2, <2>1 DEF StoppingInv, group2
  <2> QED BY <1>2, <2>2, <2>3 DEF StopInv
<1>5. CASE WorkerSleeps \/ WorkerSpuriousWake
  <2>1. pending' = pending /\ UNCHANGED <<group2, worker, caller>>
    BY <1>5 DEF WorkerSleeps, WorkerSpuriousWake, Request!WaitBlocks, Request!WakeSleepsAgain,
       Request!Expire, Request!SpuriousWake
  <2> QED BY <1>2, <2>1, StopInvRests DEF group2, worker, caller
<1>6. CASE WorkerHandles
  <2>1. /\ wpc = "handle" /\ wpc' = IF taken = {} THEN "wait" ELSE "ack"
        /\ UNCHANGED <<group1, group2, taken, caller>>
    BY <1>6 DEF WorkerHandles
  <2>2. PendInv(o)' /\ TakenInv(o)' /\ StaleInv(o)' /\ HonestInv(o)'
    BY <1>0, <2>1 DEF PendInv, TakenInv, StaleInv, HonestInv, group1, group2, caller
  <2>3. StoppingInv(o)'
    <3>1. ASSUME req[o].event = STOP, served[o] = "taken"
          PROVE  STOP \in taken /\ cur_state' = InitState
      <4>1. STOP \in taken /\ pc[o] = "await"
        BY <1>0, <3>1 DEF StoppingInv
      <4>2. EXIT \notin taken
        BY <4>1 DEF ExitInv, Exits, Calls
      <4>3. Starts \cap taken = {}
        BY <1>0, <3>1 DEF TakenInv
      <4> QED BY <1>6, <4>1, <4>2, <4>3, StopIsRun
    <3>2. ASSUME req[o].event = STOP, served[o] = "done" PROVE cur_state' = InitState
      <4>1. cur_state = InitState /\ Starts \cap taken = {}
        BY <1>0, <1>1, <3>2 DEF StoppingInv
      <4>2. CASE EXIT \in taken
        BY <1>6, <4>1, <4>2 DEF WorkerHandles
      <4>3. CASE EXIT \notin taken
        BY <1>6, <4>1, <4>3, StopIsRun
      <4> QED BY <4>2, <4>3
    <3> QED BY <1>0, <2>1, <3>1, <3>2 DEF StoppingInv, group1, group2, caller
  <2> QED BY <1>2, <2>2, <2>3 DEF StopInv
<1>7. CASE WorkerAcks
  <2>1. /\ wpc = "ack" /\ acks' = acks \cup taken /\ taken' = {}
        /\ UNCHANGED <<group1, cur_state>>
        /\ ackPhase'[o] = "expired" => ackPhase[o] = "expired"
        /\ served'[o] = IF served[o] = "taken" THEN "done" ELSE served[o]
    <3>1. ackPhase'[o] = "expired" => ackPhase[o] = "expired"
      BY <1>7 DEF WorkerAcks, Ack!SetEvent, Ack!Signal, TypeOK, Ack!TypeOK
    <3> QED BY <1>7, <3>1 DEF WorkerAcks, Ack!SetEvent
  <2>2. PendInv(o)' /\ TakenInv(o)' /\ HonestInv(o)'
    BY <1>0, <1>2, <2>1 DEF PendInv, TakenInv, HonestInv, group1
  <2>3. StaleInv(o)'
    <3> SUFFICES ASSUME NEW e \in Key, e \in acks \/ e \in taken
                 PROVE  /\ req[o].event # EXIT
                        /\ req[o].event = e => served'[o] = "done"
                        /\ e = STOP => req[o].event = STOP
                        /\ req[o].event = STOP => pc[o] \notin {"idle", "delete"}
      BY <1>2, <2>1 DEF StaleInv
    <3>1. CASE e \in acks
      BY <1>0, <2>1, <3>1 DEF StaleInv
    <3>2. CASE e \in taken
      <4>1. req[o].event = e => served[o] = "taken"
        BY <1>0, <3>2 DEF TakenInv
      <4>2. req[o].event # EXIT /\ (e = STOP => req[o].event = STOP)
        BY <1>0, <1>1, <3>2 DEF TakenInv
      <4>3. req[o].event = STOP => pc[o] \notin {"idle", "delete"}
        BY <1>0, <1>1, <3>2, <4>1 DEF TakenInv, StoppingInv
      <4> QED BY <2>1, <4>1, <4>2, <4>3
    <3> QED BY <3>1, <3>2
  <2>4. StoppingInv(o)'
    <3>1. ASSUME req[o].event = STOP, served[o] = "taken"
          PROVE  cur_state = InitState /\ Key \cap pending = {}
      BY <1>0, <1>1, <2>1, <3>1 DEF StoppingInv, PendInv
    <3> QED BY <1>0, <1>2, <2>1, <3>1 DEF StoppingInv, group1
  <2> QED BY <1>2, <2>2, <2>3, <2>4 DEF StopInv
<1>8. CASE WorkerFrees
  <2>1. wpc = "free" /\ wpc' = "gone" /\ UNCHANGED <<group1, group2, cur_state, taken, caller>>
    BY <1>8 DEF WorkerFrees
  <2>2. PendInv(o)' /\ TakenInv(o)' /\ StaleInv(o)' /\ HonestInv(o)'
    BY <1>0, <2>1 DEF PendInv, TakenInv, StaleInv, HonestInv, group1, group2, caller
  <2>3. StoppingInv(o)'
    BY <1>0, <2>1 DEF StoppingInv, group1, group2, caller
  <2> QED BY <1>2, <2>2, <2>3 DEF StopInv
<1> QED BY <1>3, <1>4, <1>5, <1>6, <1>7, <1>8 DEF WorkerStep

(* The others neither start nor stop the machine, nor clear its groups.    *)
LEMMA OthersKeepStop ==
  ASSUME TypeOK, CallInv, NEW o \in Callers, Controls(o), StopWins, StopInv(o),
         NEW c \in Callers, c # o,
         \/ \E r \in Requests : Call(c, r)
         \/ CallerStep(c)
         \/ AwaitSpuriousWake(c)
         \/ AwaitExpires(c)
         \/ Delete(c)
  PROVE  StopInv(o)'
<1>0. /\ pc \in [Callers -> CallerPcs] /\ ackPhase \in [Callers -> Ack!Phases]
      /\ req \in [Callers -> [caller : Callers, event : AllBits, wait : BOOLEAN, clear : BOOLEAN]]
      /\ served \in [Callers -> {"no", "posted", "taken", "done"}]
      /\ outcome \in [Callers -> {"none", "acked", "late"}]
  BY DEF TypeOK, Ack!TypeOK
<1>1. ClearInv(o) /\ pc[c] # "clear_events"
  BY DEF StopInv, ClearInv
<1>2. EXIT \notin Key
  BY KeyEvents
<1>3. pc[c] \in {"post", "await"} => req[c].event \notin Key /\ ~req[c].clear
  BY KeyCallers
<1>4. /\ req'[o] = req[o] /\ pc'[o] = pc[o] /\ served'[o] = served[o] /\ outcome'[o] = outcome[o]
      /\ \A d \in Callers \ {c} : pc'[d] = pc[d]
  BY <1>0 DEF Call, CallerStep, Post, Acked, AwaitSleeps, AwaitReturnsLate, ClearEvents, ClearAcks,
     DeleteEnds, AwaitSpuriousWake, AwaitExpires, Delete, Return, caller
<1>5. taken' = taken /\ UNCHANGED <<cur_state, wpc>>
  BY DEF Call, CallerStep, Post, Acked, AwaitSleeps, AwaitReturnsLate, ClearEvents, ClearAcks,
     DeleteEnds, AwaitSpuriousWake, AwaitExpires, Delete, Return, worker
<1>6. Key \cap pending' = Key \cap pending
  BY <1>1, <1>2, <1>3 DEF Call, CallerStep, Post, Acked, AwaitSleeps, AwaitReturnsLate, ClearEvents,
     ClearAcks, DeleteEnds, AwaitSpuriousWake, AwaitExpires, Delete, Return, group1,
     Request!SetEvent
<1>7. acks' \subseteq acks /\ (ackPhase'[o] = "expired" => ackPhase[o] = "expired")
  <2>1. CASE Acked(c)
    BY <1>0, <2>1 DEF Acked, Ack!WaitTakes, Ack!WakeTakes, Ack!Consume, Ack!Signal
  <2>2. CASE AwaitSleeps(c) \/ AwaitReturnsLate(c) \/ AwaitSpuriousWake(c) \/ AwaitExpires(c)
    BY <1>0, <2>2 DEF AwaitSleeps, AwaitReturnsLate, AwaitSpuriousWake, AwaitExpires,
       Ack!WaitBlocks, Ack!WakeSleepsAgain, Ack!ReturnExpired, Ack!SpuriousWake, Ack!Expire
  <2>3. CASE \/ \E r \in Requests : Call(c, r)
             \/ Post(c) \/ ClearEvents(c) \/ ClearAcks(c) \/ DeleteEnds(c) \/ Delete(c)
    BY <2>3 DEF Call, Post, ClearEvents, ClearAcks, DeleteEnds, Delete, group2, Ack!ClearEvent
  <2> QED BY <2>1, <2>2, <2>3 DEF CallerStep
<1>8. ClearInv(o)'
  <2>1. CASE Post(c) \/ Acked(c) \/ AwaitReturnsLate(c)
    <3>1. pc[c] \in {"post", "await"}
      BY <2>1 DEF Post, Acked, AwaitReturnsLate, Ack!ReturnExpired, CallInv
    <3>2. pc'[c] \in {"await", AfterWait(req[c])}
      BY <1>0, <2>1 DEF Post, Acked, AwaitReturnsLate, Return
    <3> QED BY <1>1, <1>3, <1>4, <3>1, <3>2 DEF AfterWait, ClearInv
  <2>2. CASE \/ \E r \in Requests : Call(c, r)
             \/ AwaitSleeps(c) \/ AwaitSpuriousWake(c) \/ AwaitExpires(c)
             \/ ClearEvents(c) \/ ClearAcks(c) \/ DeleteEnds(c) \/ Delete(c)
    <3>1. pc'[c] \in {pc[c], "post", "clear_acks", "idle", "delete"}
      BY <1>0, <2>2 DEF Call, AwaitSleeps, AwaitSpuriousWake, AwaitExpires, ClearEvents, ClearAcks,
         DeleteEnds, Delete, caller
    <3> QED BY <1>1, <1>4, <3>1 DEF ClearInv
  <2> QED BY <2>1, <2>2 DEF CallerStep
<1> QED BY <1>4, <1>5, <1>6, <1>7, <1>8, StopInvRests

(* The controlling thread calls: a start again only when the last one has  *)
(* left nothing behind, and a stop whatever is still being handled.        *)
LEMMA ControllerCalls ==
  ASSUME TypeOK, CallInv, StageInv, NEW o \in Callers, Controls(o), StopWins, StopInv(o),
         NEW r \in Requests, Call(o, r)
  PROVE  StopInv(o)'
<1>0. /\ PendInv(o) /\ TakenInv(o) /\ StaleInv(o)
      /\ StoppingInv(o) /\ HonestInv(o) /\ ClearInv(o)
  BY DEF StopInv
<1>1. /\ Key \subseteq Events /\ EXIT \notin Key /\ STOP \in Key /\ STOP \notin Starts
      /\ Starts \subseteq Key /\ Key = Starts \cup {STOP}
  BY KeyEvents DEF Key
<1>2. /\ pc[o] = "idle" /\ <<req[o].event, r.event>> \in MayFollow
      /\ pc' = [pc EXCEPT ![o] = "post"] /\ pc'[o] = "post"
      /\ req'[o] = r /\ served'[o] = "no" /\ outcome'[o] = "none"
      /\ UNCHANGED <<group1, group2, worker>> /\ r.event \in Events
  BY FsmAssumption DEF Call, TypeOK
<1>3. Key \cap pending = {}
  BY <1>0, <1>2 DEF PendInv
<1>4. STOP \notin taken /\ STOP \notin acks
  <2>1. STOP \in taken => req[o].event = STOP /\ served[o] = "taken"
    BY <1>0, <1>1 DEF TakenInv
  <2> QED BY <1>0, <1>1, <1>2, <2>1 DEF StoppingInv, StaleInv
<1>5. ASSUME r.event \in Starts PROVE r.event \notin taken \cup acks
  <2>1. CASE Expiry[r.event] = "never"
    <3>1. Safe(r.event)
      BY <1>1, <1>5, <2>1, KeyEvents
    <3>2. ~Awaited(r.event, "taken") /\ ~Awaited(r.event, "done")
      <4> SUFFICES ASSUME NEW c \in Callers, req[c].event = r.event, pc[c] = "await" PROVE FALSE
        BY DEF Awaited
      <4> QED BY <1>1, <1>2, <1>5, KeyCallers
    <3> QED BY <3>1, <3>2 DEF StageInv, Safe
  <2>2. CASE Expiry[r.event] # "never"
    <3>1. req[o].event \in {STOP, EXIT}
      BY <1>2, <1>5, <2>2 DEF Controls
    <3>2. r.event \notin acks
      BY <1>0, <1>1, <1>2, <1>5, <3>1 DEF StaleInv
    <3>3. r.event \notin taken
      <4>1. req[o].event = STOP => served[o] = "done"
        BY <1>0, <1>2 DEF StoppingInv
      <4> QED BY <1>0, <1>5, <3>1, <4>1 DEF TakenInv
    <3> QED BY <3>2, <3>3
  <2> QED BY <2>1, <2>2
<1>6. r.event # EXIT
  BY <1>2, FsmAssumption
<1>7. PendInv(o)'
  BY <1>2, <1>3 DEF PendInv, group1
<1>8. TakenInv(o)'
  BY <1>1, <1>2, <1>4, <1>5, <1>6 DEF TakenInv, worker
<1>9. StaleInv(o)'
  BY <1>1, <1>2, <1>4, <1>5, <1>6 DEF StaleInv, group2
<1>10. StoppingInv(o)' /\ HonestInv(o)'
  <2>1. ackPhase[o] # "expired"
    BY <1>2 DEF CallInv
  <2> QED BY <1>2, <2>1 DEF StoppingInv, HonestInv, group2
<1>11. ClearInv(o)'
  BY <1>0, <1>2 DEF ClearInv, TypeOK
<1> QED BY <1>7, <1>8, <1>9, <1>10, <1>11 DEF StopInv

(* It posts its bit, which is not pending yet.                             *)
LEMMA ControllerPosts ==
  ASSUME TypeOK, CallInv, NEW o \in Callers, Controls(o), StopWins, StopInv(o), Post(o)
  PROVE  StopInv(o)'
<1>0. /\ PendInv(o) /\ TakenInv(o) /\ StaleInv(o)
      /\ StoppingInv(o) /\ HonestInv(o) /\ ClearInv(o)
  BY DEF StopInv
<1>1. /\ Key \subseteq Events /\ EXIT \notin Key /\ STOP \in Key /\ STOP \notin Starts
      /\ Starts \subseteq Key /\ Key = Starts \cup {STOP}
  BY KeyEvents DEF Key
<1> DEFINE e == req[o].event
<1>2. /\ pc[o] = "post" /\ pending' = pending \cup {e}
      /\ pc'[o] = IF req[o].wait THEN "await" ELSE AfterWait(req[o])
      /\ \A c \in Callers \ {o} : pc'[c] = pc[c]
      /\ served'[o] = IF req[o].wait THEN "posted" ELSE "no"
      /\ UNCHANGED <<group2, worker, req, outcome>>
  BY DEF Post, Request!SetEvent, TypeOK
<1>3. /\ e # EXIT /\ (e \in Key => req[o].wait) /\ outcome[o] = "none" /\ ackPhase[o] # "expired"
  BY <1>2, KeyCallers DEF CallInv
<1>4. Key \cap pending = {}
  BY <1>0, <1>2 DEF PendInv
<1>5. e \in Key => e \notin taken \cup acks
  <2>1. e \in Key /\ e \in taken => served[o] = "taken"
    BY <1>0 DEF TakenInv
  <2>2. e \in Key /\ e \in acks => served[o] = "done"
    BY <1>0 DEF StaleInv
  <2>3. served[o] = "no"
    BY <1>0, <1>2 DEF HonestInv
  <2> QED BY <2>1, <2>2, <2>3
<1>6. PendInv(o)'
  BY <1>2, <1>3, <1>4 DEF PendInv, group2
<1>7. TakenInv(o)'
  BY <1>0, <1>1, <1>2, <1>3, <1>5 DEF TakenInv, worker
<1>8. StaleInv(o)'
  BY <1>0, <1>1, <1>2, <1>3, <1>5 DEF StaleInv, group2
<1>9. StoppingInv(o)' /\ HonestInv(o)'
  BY <1>0, <1>1, <1>2, <1>3 DEF StoppingInv, HonestInv, group2
<1>10. ClearInv(o)'
  BY <1>0, <1>2 DEF ClearInv
<1> QED BY <1>6, <1>7, <1>8, <1>9, <1>10 DEF StopInv

(* It returns, when its request has been served or, but for a stop, may    *)
(* still be.                                                               *)
LEMMA ControllerReturns ==
  ASSUME TypeOK, CallInv, NEW o \in Callers, Controls(o), StopWins, StopInv(o),
         Acked(o) \/ AwaitReturnsLate(o)
  PROVE  StopInv(o)'
<1>0. /\ PendInv(o) /\ TakenInv(o) /\ StaleInv(o)
      /\ StoppingInv(o) /\ HonestInv(o) /\ ClearInv(o)
  BY DEF StopInv
<1>1. /\ Key \subseteq Events /\ EXIT \notin Key /\ STOP \in Key /\ STOP \notin Starts
      /\ Starts \subseteq Key /\ Key = Starts \cup {STOP}
  BY KeyEvents DEF Key
<1> DEFINE e == req[o].event
<1>2. pc[o] = "await"
  BY DEF Acked, AwaitReturnsLate, Ack!ReturnExpired, CallInv
<1>3. /\ pc'[o] = AfterWait(req[o]) /\ \A c \in Callers \ {o} : pc'[c] = pc[c]
      /\ outcome'[o] = IF Acked(o) THEN "acked" ELSE "late"
      /\ UNCHANGED <<group1, worker, req, served>>
  <2>1. CASE Acked(o)
    BY <2>1 DEF Acked, Return, TypeOK
  <2>2. CASE ~Acked(o)
    BY <2>2 DEF AwaitReturnsLate, Return, TypeOK
  <2> QED BY <2>1, <2>2
<1>4. /\ acks' \subseteq acks /\ ackPhase'[o] # "expired"
      /\ Acked(o) => e \in acks /\ e \notin acks'
      /\ ~Acked(o) => ackPhase[o] = "expired"
  <2>1. CASE Acked(o)
    <3>1. /\ ackPhase[o] # "out" => ackMask[o] = {e}
          /\ ackPhase \in [Callers -> Ack!Phases]
      BY DEF CallInv, TypeOK, Ack!TypeOK
    <3>2. acks \cap {e} # {} /\ acks' = acks \ {e}
      BY <2>1, <3>1 DEF Acked, Ack!WaitTakes, Ack!WakeTakes, Ack!Consume
    <3>3. ackPhase'[o] = "out"
      BY <2>1, <3>1 DEF Acked, Ack!WaitTakes, Ack!WakeTakes, Ack!Consume, Ack!Signal
    <3> QED BY <2>1, <3>2, <3>3
  <2>2. CASE ~Acked(o)
    BY <2>2 DEF AwaitReturnsLate, Ack!ReturnExpired, TypeOK, Ack!TypeOK
  <2> QED BY <2>1, <2>2
<1>5. e \in Key => e \notin pending
  BY <1>0, <1>4 DEF PendInv, StaleInv
<1>6. Acked(o) /\ e \in Key => served[o] = "done"
  BY <1>0, <1>4 DEF StaleInv
<1>7. e = STOP => served[o] = "done"
  BY <1>0, <1>1, <1>4, <1>6 DEF StoppingInv
<1>8. AfterWait(req[o]) \in {"clear_events", "idle"} /\ (e = STOP => AfterWait(req[o]) = "clear_events")
  BY <1>2, KeyCallers DEF AfterWait
<1>9. PendInv(o)'
  BY <1>0, <1>3, <1>5 DEF PendInv, group1
<1>10. TakenInv(o)'
  BY <1>0, <1>3 DEF TakenInv, worker
<1>11. StaleInv(o)'
  BY <1>0, <1>3, <1>4, <1>8 DEF StaleInv
<1>12. StoppingInv(o)'
  BY <1>0, <1>3, <1>7 DEF StoppingInv, group1, worker
<1>13. HonestInv(o)'
  BY <1>3, <1>6, <1>8 DEF HonestInv
<1>14. ClearInv(o)'
  BY <1>0, <1>3 DEF ClearInv
<1> QED BY <1>9, <1>10, <1>11, <1>12, <1>13, <1>14 DEF StopInv

(* Its wait for a stop expires only after the stop has been served, and    *)
(* its clears leave nothing behind.                                        *)
LEMMA ControllerGoesOn ==
  ASSUME TypeOK, CallInv, NEW o \in Callers, Controls(o), StopWins, StopInv(o),
         \/ AwaitSleeps(o) \/ AwaitSpuriousWake(o) \/ AwaitExpires(o)
         \/ ClearEvents(o) \/ ClearAcks(o) \/ DeleteEnds(o) \/ Delete(o)
  PROVE  StopInv(o)'
<1>0. /\ PendInv(o) /\ TakenInv(o) /\ StaleInv(o)
      /\ StoppingInv(o) /\ HonestInv(o) /\ ClearInv(o)
  BY DEF StopInv
<1>1. /\ Key \subseteq Events /\ EXIT \notin Key /\ STOP \in Key /\ STOP \notin Starts
      /\ Starts \subseteq Key /\ Key = Starts \cup {STOP}
  BY KeyEvents DEF Key
<1>2. CASE AwaitSleeps(o) \/ AwaitSpuriousWake(o)
  <2>1. UNCHANGED <<group1, worker, caller>> /\ acks' = acks
    BY <1>2 DEF AwaitSleeps, AwaitSpuriousWake, Ack!WaitBlocks, Ack!WakeSleepsAgain,
       Ack!SpuriousWake
  <2>2. ackPhase'[o] # "expired"
    BY <1>2 DEF AwaitSleeps, AwaitSpuriousWake, Ack!WaitBlocks, Ack!WakeSleepsAgain,
       Ack!SpuriousWake, TypeOK, Ack!TypeOK
  <2>3. ClearInv(o)'
    BY <1>0, <2>1 DEF ClearInv, caller
  <2> QED BY <2>1, <2>2, <2>3, StopInvRests DEF group1, worker, caller
<1>3. CASE AwaitExpires(o)
  <2>1. /\ pc[o] = "await" /\ UNCHANGED <<group1, worker, caller>> /\ acks' = acks
        /\ req[o].event \notin pending
        /\ req[o].event \in taken => Expiry[req[o].event] = "slow"
    BY <1>3 DEF AwaitExpires, Ack!Expire
  <2>2. PendInv(o)' /\ TakenInv(o)' /\ StaleInv(o)' /\ HonestInv(o)' /\ ClearInv(o)'
    BY <1>0, <2>1 DEF PendInv, TakenInv, StaleInv, HonestInv, ClearInv, group1, worker, caller
  <2>3. req[o].event = STOP => served[o] = "done"
    <3>1. Expiry[STOP] # "slow" /\ served[o] \in {"no", "posted", "taken", "done"}
      BY DEF Controls, TypeOK
    <3> QED BY <1>0, <2>1, <3>1 DEF StoppingInv
  <2>4. StoppingInv(o)'
    BY <1>0, <2>1, <2>3 DEF StoppingInv, group1, worker, caller
  <2> QED BY <2>2, <2>4 DEF StopInv
<1>4. CASE ClearEvents(o)
  <2>1. /\ pc[o] = "clear_events" /\ pc'[o] = "clear_acks" /\ pending' = pending \ AllBits
        /\ \A c \in Callers \ {o} : pc'[c] = pc[c]
        /\ UNCHANGED <<group2, worker, req, served, outcome>>
    BY <1>4 DEF ClearEvents, Request!ClearEvent, TypeOK
  <2>2. PendInv(o)' /\ TakenInv(o)' /\ StaleInv(o)' /\ HonestInv(o)' /\ ClearInv(o)'
    BY <1>0, <1>1, <2>1 DEF PendInv, TakenInv, StaleInv, HonestInv, ClearInv, group2, worker, AllBits
  <2>3. StoppingInv(o)'
    BY <1>0, <2>1 DEF StoppingInv, group2, worker
  <2> QED BY <2>2, <2>3 DEF StopInv
<1>5. CASE ClearAcks(o)
  <2>1. /\ pc[o] = "clear_acks" /\ pc'[o] = "idle" /\ acks' = acks \ AllBits /\ ackPhase' = ackPhase
        /\ \A c \in Callers \ {o} : pc'[c] = pc[c]
        /\ UNCHANGED <<group1, worker, req, served, outcome>>
    BY <1>5 DEF ClearAcks, Ack!ClearEvent, TypeOK
  <2>2. PendInv(o)' /\ TakenInv(o)' /\ StaleInv(o)' /\ HonestInv(o)' /\ ClearInv(o)'
    BY <1>0, <1>1, <2>1 DEF PendInv, TakenInv, StaleInv, HonestInv, ClearInv, group1, worker, AllBits
  <2>3. StoppingInv(o)'
    BY <1>0, <2>1 DEF StoppingInv, group1, worker
  <2> QED BY <2>2, <2>3 DEF StopInv
<1>6. CASE Delete(o) \/ DeleteEnds(o)
  <2>1. /\ pc[o] \in {"idle", "delete"} /\ pc'[o] \in {"idle", "delete"}
        /\ \A c \in Callers \ {o} : pc'[c] = pc[c]
        /\ pending' \in {pending, pending \cup {EXIT}}
        /\ UNCHANGED <<group2, worker, req, served, outcome>>
    BY <1>6 DEF Delete, DeleteEnds, Request!SetEvent, TypeOK, group1
  <2>2. PendInv(o)' /\ TakenInv(o)' /\ StaleInv(o)' /\ HonestInv(o)' /\ ClearInv(o)'
    BY <1>0, <1>1, <2>1 DEF PendInv, TakenInv, StaleInv, HonestInv, ClearInv, group2, worker
  <2>3. StoppingInv(o)'
    BY <1>0, <1>1, <2>1 DEF StoppingInv, group2, worker
  <2> QED BY <2>2, <2>3 DEF StopInv
<1> QED BY <1>2, <1>3, <1>4, <1>5, <1>6

(* What is controlled by one thread stays so (common_fsm.c:48-102).        *)
THEOREM AlwaysControlled ==
  ASSUME OwnerDeletes, StopWins, NEW o \in Callers, Controls(o)
  PROVE  Spec => [](TypeOK /\ IInv /\ ExitInv /\ StopInv(o))
<1>1. Init => StopInv(o)
  <2> SUFFICES ASSUME Init PROVE StopInv(o)
    OBVIOUS
  <2>1. /\ pending = {} /\ taken = {} /\ acks = {} /\ req[o].event = EXIT /\ outcome[o] = "none"
        /\ \A c \in Callers : pc[c] = "idle"
    BY DEF Init, Request!Init, Ack!Init
  <2>2. STOP # EXIT /\ EXIT \notin Key
    BY KeyEvents
  <2> QED BY <2>1, <2>2 DEF StopInv, PendInv, TakenInv, StaleInv, StoppingInv, HonestInv, ClearInv
<1>2. TypeOK /\ IInv /\ ExitInv /\ StopInv(o) /\ [Next]_vars => StopInv(o)'
  <2> SUFFICES ASSUME TypeOK, IInv, ExitInv, StopInv(o), [Next]_vars PROVE StopInv(o)'
    OBVIOUS
  <2>0. WorkerInv /\ CallInv /\ StageInv
    BY DEF IInv
  <2>1. CASE WorkerStep \/ WorkerSpuriousWake
    BY <2>0, <2>1, WorkerStops
  <2>2. ASSUME NEW c \in Callers, c # o,
               \/ \E r \in Requests : Call(c, r)
               \/ CallerStep(c)
               \/ AwaitSpuriousWake(c)
               \/ AwaitExpires(c)
               \/ Delete(c)
        PROVE  StopInv(o)'
    BY <2>0, <2>2, OthersKeepStop
  <2>3. CASE \/ \E r \in Requests : Call(o, r)
             \/ CallerStep(o)
             \/ AwaitSpuriousWake(o)
             \/ AwaitExpires(o)
             \/ Delete(o)
    <3>1. ASSUME NEW r \in Requests, Call(o, r) PROVE StopInv(o)'
      BY <2>0, <3>1, ControllerCalls
    <3>2. CASE Post(o)
      BY <2>0, <3>2, ControllerPosts
    <3>3. CASE Acked(o) \/ AwaitReturnsLate(o)
      BY <2>0, <3>3, ControllerReturns
    <3>4. CASE \/ AwaitSleeps(o) \/ AwaitSpuriousWake(o) \/ AwaitExpires(o)
               \/ ClearEvents(o) \/ ClearAcks(o) \/ DeleteEnds(o) \/ Delete(o)
      BY <2>0, <3>4, ControllerGoesOn
    <3> QED BY <2>3, <3>1, <3>2, <3>3, <3>4 DEF CallerStep
  <2>4. CASE UNCHANGED vars
    <3>1. ClearInv(o)'
      BY <2>4 DEF vars, caller, StopInv, ClearInv
    <3> QED BY <2>4, <3>1, StopInvRests DEF vars, group1, group2, worker, caller
  <2> QED BY <2>1, <2>2, <2>3, <2>4 DEF Next
<1>3. Spec => [](TypeOK /\ IInv /\ ExitInv)
  BY AlwaysExit
<1> QED BY <1>1, <1>2, <1>3, PTL DEF Spec

(* When a call of STOP has returned, acknowledged or late, the machine is  *)
(* in its first state and stays there, for every table in which STOP wins  *)
(* (pcm_trans.c:180-194, 243-252).                                         *)
THEOREM StopsStay ==
  ASSUME OwnerDeletes, StopWins, NEW o \in Callers, Controls(o)
  PROVE  Spec => []StopQuiesces
<1>1. TypeOK /\ IInv /\ ExitInv /\ StopInv(o) => StopQuiesces
  <2> SUFFICES ASSUME TypeOK, CallInv, StopInv(o), NEW c \in Callers,
                      req[c].event = STOP, outcome[c] # "none"
               PROVE  cur_state = InitState
    BY DEF IInv, StopQuiesces
  <2>1. c = o
    <3>1. STOP # EXIT
      BY KeyEvents
    <3>2. req[c] \in Requests /\ req[c].caller = c
      BY <3>1 DEF CallInv
    <3> QED BY <3>2 DEF Controls
  <2>2. served[o] = "done"
    BY <2>1 DEF StopInv, StoppingInv
  <2> QED BY <2>1, <2>2 DEF StopInv, StoppingInv
<1> QED BY <1>1, AlwaysControlled, PTL

(* Waits for the starts and stops of a machine may expire, and still no    *)
(* acknowledgement is taken for another call's: only the other owned bits  *)
(* have to be answered in time (common_fsm.c:155-164).                     *)
THEOREM AcksStayHonest ==
  ASSUME OwnerDeletes, StopWins, NEW o \in Callers, Controls(o),
         \A r \in Requests :
           Owned(r.event) /\ r.event \notin Key => Expiry[r.event] = "never"
  PROVE  Spec => []AckMeansServed
<1>1. TypeOK /\ IInv /\ ExitInv /\ StopInv(o) => AckMeansServed
  <2> SUFFICES ASSUME TypeOK, CallInv, AckInv, StopInv(o), NEW c \in Callers,
                      outcome[c] = "acked", Owned(req[c].event)
               PROVE  served[c] = "done"
    BY DEF IInv, AckMeansServed
  <2>1. req[c] \in Requests /\ req[c].caller = c /\ req[c].event \in Events
    BY FsmAssumption DEF CallInv
  <2>2. CASE req[c].event \in Key
    <3>1. c = o
      BY <2>1, <2>2 DEF Controls, Key
    <3> QED BY <2>2, <3>1 DEF StopInv, HonestInv
  <2>3. CASE req[c].event \notin Key
    BY <2>1, <2>3 DEF AckInv, Safe
  <2> QED BY <2>2, <2>3
<1> QED BY <1>1, AlwaysControlled, PTL
-----------------------------------------------------------------------------
(* STOP wins when every other state has a row for it before all its other  *)
(* rows.                                                                   *)
LEMMA FirstRowWins ==
  ASSUME \A i \in DOMAIN Lookup :
           Lookup[i].state = InitState => Lookup[i].event # {} /\ STOP \notin Lookup[i].event,
         \A s \in States \ {InitState, HOLD} :
           \E i \in DOMAIN Lookup :
             /\ Lookup[i].state = s /\ Lookup[i].event = {STOP} /\ Lookup[i].next = {InitState}
             /\ \A j \in DOMAIN Lookup : Lookup[j].state = s => i <= j
  PROVE  StopWins
<1> SUFFICES ASSUME NEW s \in States \ {InitState, HOLD}, NEW bits \in SUBSET Events, STOP \in bits
             PROVE  \E i \in GetLookup(s, bits) : Lookup[i].next = {InitState}
  BY DEF StopWins
<1>1. PICK i \in DOMAIN Lookup :
         /\ Lookup[i].state = s /\ Lookup[i].event = {STOP} /\ Lookup[i].next = {InitState}
         /\ \A j \in DOMAIN Lookup : Lookup[j].state = s => i <= j
  OBVIOUS
<1>2. i \in GetLookup(s, bits)
  BY <1>1 DEF GetLookup, MatchingRows
<1> QED BY <1>1, <1>2

(* The tables of the five machines: STOP wins in each.                     *)
THEOREM StopWinsEverywhere ==
  ASSUME HOLD = Hold, InitState = "IDLE", STOP = "STOP",
         Lookup \in {TxLookup, Mp3Lookup, AacLookup, HttpLookup, PlayerLookup}
  PROVE  StopWins
<1>1. CASE Lookup = TxLookup
  <2>1. DOMAIN Lookup = 1 .. 6
    BY <1>1 DEF TxLookup
  <2>2. /\ Lookup[1] = Row("START",  "IDLE",     {"TX_RUN"})
        /\ Lookup[2] = Row("STOP",   "TX_RUN",   {"IDLE"})
        /\ Lookup[3] = Row("STOP",   "TX_PAUSE", {"IDLE"})
        /\ Lookup[4] = Row("STOP",   "TX_DONE",  {"IDLE"})
        /\ Lookup[5] = Row("RESUME", "TX_PAUSE", {"TX_RUN"})
        /\ Lookup[6] = PollRow("TX_RUN", "now",  {Hold, "TX_PAUSE", "TX_DONE"})
    BY <1>1 DEF TxLookup
  <2>3. States \ {InitState, HOLD} \subseteq {"TX_RUN", "TX_PAUSE", "TX_DONE"}
    BY <2>1, <2>2 DEF States, Row, PollRow, Hold
  <2> QED BY <2>1, <2>2, <2>3, FirstRowWins DEF Row, PollRow
<1>2. CASE Lookup = Mp3Lookup
  <2>1. DOMAIN Lookup = 1 .. 8
    BY <1>2 DEF Mp3Lookup
  <2>2. /\ Lookup[1] = Row("START",  "IDLE",  {"RUN"})
        /\ Lookup[2] = Row("STOP",   "RUN",   {"IDLE"})
        /\ Lookup[3] = Row("STOP",   "PAUSE", {"IDLE"})
        /\ Lookup[4] = Row("PAUSE",  "RUN",   {"PAUSE"})
        /\ Lookup[5] = Row("SEEK",   "RUN",   {Hold})
        /\ Lookup[6] = Row("SEEK",   "PAUSE", {Hold})
        /\ Lookup[7] = Row("RESUME", "PAUSE", {"RUN"})
        /\ Lookup[8] = PollRow("RUN", "now",  {Hold, "PAUSE"})
    BY <1>2 DEF Mp3Lookup
  <2>3. States \ {InitState, HOLD} \subseteq {"RUN", "PAUSE"}
    BY <2>1, <2>2 DEF States, Row, PollRow, Hold
  <2> QED BY <2>1, <2>2, <2>3, FirstRowWins DEF Row, PollRow
<1>3. CASE Lookup = AacLookup
  <2>1. DOMAIN Lookup = 1 .. 8
    BY <1>3 DEF AacLookup
  <2>2. /\ Lookup[1] = Row("START",  "IDLE",  {"RUN"})
        /\ Lookup[2] = Row("STOP",   "RUN",   {"IDLE"})
        /\ Lookup[3] = Row("STOP",   "PAUSE", {"IDLE"})
        /\ Lookup[4] = Row("PAUSE",  "RUN",   {"PAUSE"})
        /\ Lookup[5] = Row("RESUME", "PAUSE", {"RUN"})
        /\ Lookup[6] = Row("SEEK",   "RUN",   {Hold})
        /\ Lookup[7] = Row("SEEK",   "PAUSE", {Hold})
        /\ Lookup[8] = PollRow("RUN", "now",  {Hold, "PAUSE"})
    BY <1>3 DEF AacLookup
  <2>3. States \ {InitState, HOLD} \subseteq {"RUN", "PAUSE"}
    BY <2>1, <2>2 DEF States, Row, PollRow, Hold
  <2> QED BY <2>1, <2>2, <2>3, FirstRowWins DEF Row, PollRow
<1>4. CASE Lookup = HttpLookup
  <2>1. DOMAIN Lookup = 1 .. 15
    BY <1>4 DEF HttpLookup
  <2>2. /\ Lookup[1] = Row("START",  "IDLE",       ConnNext)
        /\ Lookup[2] = Row("STOP",   "PAUSE",      {"IDLE"})
        /\ Lookup[3] = Row("STOP",   "CONN",       {"IDLE"})
        /\ Lookup[4] = Row("STOP",   "RECV",       {"IDLE"})
        /\ Lookup[5] = Row("STOP",   "WAIT_FREE",  {"IDLE"})
        /\ Lookup[6] = Row("STOP",   "WAIT_RANGE", {"IDLE"})
        /\ Lookup[7] = Row("PAUSE",  "CONN",       {"PAUSE"})
        /\ Lookup[8] = Row("PAUSE",  "RECV",       {"PAUSE"})
        /\ Lookup[9] = Row("PAUSE",  "WAIT_FREE",  {"PAUSE"})
        /\ Lookup[10] = Row("PAUSE",  "WAIT_RANGE", {"PAUSE"})
        /\ Lookup[11] = Row("RESUME", "PAUSE",      ConnNext)
        /\ Lookup[12] = PollRow("CONN",       "later", ConnNext)
        /\ Lookup[13] = PollRow("RECV",       "now",   PushNext \cup ConnNext)
        /\ Lookup[14] = PollRow("WAIT_FREE",  "later", PushNext \cup {Hold})
        /\ Lookup[15] = PollRow("WAIT_RANGE", "later", ConnNext)
    BY <1>4 DEF HttpLookup
  <2>3. States \ {InitState, HOLD} \subseteq {"PAUSE", "CONN", "RECV", "WAIT_FREE", "WAIT_RANGE"}
    BY <2>1, <2>2 DEF States, Row, PollRow, Hold, ConnNext, PushNext
  <2> QED BY <2>1, <2>2, <2>3, FirstRowWins DEF Row, PollRow
<1>5. CASE Lookup = PlayerLookup
  <2>1. DOMAIN Lookup = 1 .. 11
    BY <1>5 DEF PlayerLookup
  <2>2. /\ Lookup[1] = Row("START",  "IDLE",  {"PLAY", Hold})
        /\ Lookup[2] = Row("STOP",   "PLAY",  {"IDLE"})
        /\ Lookup[3] = Row("STOP",   "BREAK", {"IDLE"})
        /\ Lookup[4] = Row("STOP",   "PAUSE", {"IDLE"})
        /\ Lookup[5] = Row("PAUSE",  "PLAY",  {"PAUSE", "IDLE"})
        /\ Lookup[6] = Row("PAUSE",  "BREAK", {"PAUSE"})
        /\ Lookup[7] = Row("BREAK",  "PLAY",  {"BREAK", "IDLE"})
        /\ Lookup[8] = Row("RESUME", "PAUSE", {"PLAY", "IDLE"})
        /\ Lookup[9] = Row("RESUME", "BREAK", {"PLAY", "IDLE"})
        /\ Lookup[10] = Row("SEEK",   "PLAY",  {Hold, "IDLE"})
        /\ Lookup[11] = PollRow("PLAY", "later", {Hold, "IDLE"})
    BY <1>5 DEF PlayerLookup
  <2>3. States \ {InitState, HOLD} \subseteq {"PLAY", "BREAK", "PAUSE"}
    BY <2>1, <2>2 DEF States, Row, PollRow, Hold
  <2> QED BY <2>1, <2>2, <2>3, FirstRowWins DEF Row, PollRow
<1> QED BY <1>1, <1>2, <1>3, <1>4, <1>5
=============================================================================
