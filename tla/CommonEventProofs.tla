-------------------------- MODULE CommonEventProofs --------------------------
(***************************************************************************)
(* For any number of threads and bits: the event group is type correct and *)
(* loses no wakeup as long as all its waiters wait for the same bits.      *)
(***************************************************************************)
EXTENDS CommonEvent, TLAPS

(* Every function of src/common_event.c keeps the group well formed.       *)
THEOREM TypeCorrect == Spec => []TypeOK
<1>1. Init => TypeOK
  BY DEF Init, TypeOK, Phases
<1>2. TypeOK /\ [Next]_vars => TypeOK'
  <2> SUFFICES ASSUME TypeOK, [Next]_vars PROVE TypeOK'
    OBVIOUS
  <2> USE DEF TypeOK, Phases
  <2>1. ASSUME NEW bits \in SUBSET Bits, SetEvent(bits) PROVE TypeOK'
    BY <2>1 DEF SetEvent, Signal
  <2>2. ASSUME NEW bits \in SUBSET Bits, ClearEvent(bits) PROVE TypeOK'
    BY <2>2 DEF ClearEvent
  <2>3. ASSUME NEW t \in Threads, WaitTakes(t, MaskOf[t]) PROVE TypeOK'
    BY <2>3 DEF WaitTakes, Consume, Signal
  <2>4. ASSUME NEW t \in Threads, WaitBlocks(t, MaskOf[t]) PROVE TypeOK'
    BY <2>4, MaskAssumption DEF WaitBlocks
  <2>5. ASSUME NEW t \in Threads, Wake(t) PROVE TypeOK'
    BY <2>5 DEF Wake, WakeTakes, WakeSleepsAgain, ReturnExpired, Consume, Signal
  <2>6. ASSUME NEW t \in Threads, SpuriousWake(t) \/ Expire(t) PROVE TypeOK'
    BY <2>6 DEF SpuriousWake, Expire
  <2>7. CASE UNCHANGED vars
    BY <2>7 DEF vars
  <2> QED BY <2>1, <2>2, <2>3, <2>4, <2>5, <2>6, <2>7 DEF Next
<1> QED BY <1>1, <1>2, PTL DEF Spec

(* A sleeper's mask is the mask of the closed system.                      *)
MaskInv == \A t \in Threads : phase[t] # "out" => mask[t] = MaskOf[t]

(* A signal wakes one of the sleepers, when there are any.                 *)
LEMMA SignalWakes ==
  ASSUME NEW ph \in [Threads -> Phases], Signal(ph)
  PROVE  (\E t \in Threads : phase'[t] = "asleep")
           => \E s \in Threads : phase'[s] = "signalled"
BY DEF Signal, Phases

(* common_set_event and common_wait_event signal one sleeper; with one     *)
(* mask for all of them that is enough.                                    *)
THEOREM WakeupsKept == SameMask => (Spec => []NoLostWakeup)
<1> SUFFICES ASSUME SameMask PROVE Spec => []NoLostWakeup
  OBVIOUS
<1> DEFINE Inv == MaskInv /\ NoLostWakeup
<1>1. Init => Inv
  BY DEF Init, MaskInv, NoLostWakeup
<1>2. TypeOK /\ Inv /\ [Next]_vars => Inv'
  <2> SUFFICES ASSUME TypeOK, MaskInv, NoLostWakeup, [Next]_vars PROVE Inv'
    OBVIOUS
  <2> USE DEF TypeOK, Phases
  <2>1. ASSUME NEW bits \in SUBSET Bits, SetEvent(bits) PROVE Inv'
    <3>1. MaskInv'
      BY <2>1 DEF SetEvent, Signal, MaskInv
    <3>2. NoLostWakeup'
      BY <2>1, SignalWakes DEF SetEvent, NoLostWakeup
    <3> QED BY <3>1, <3>2
  <2>2. ASSUME NEW bits \in SUBSET Bits, ClearEvent(bits) PROVE Inv'
    BY <2>2 DEF ClearEvent, MaskInv, NoLostWakeup
  <2>3. ASSUME NEW t \in Threads, NEW m, m = MaskOf[t], Consume(t, m), mask' = mask
        PROVE  Inv'
    <3>1. MaskInv'
      BY <2>3 DEF Consume, Signal, MaskInv
    <3>2. \A s \in Threads : phase'[s] = "asleep" => event' \cap mask[s] = {}
      <4> TAKE s \in Threads
      <4> HAVE phase'[s] = "asleep"
      <4>1. phase[s] = "asleep"
        BY <2>3 DEF Consume, Signal
      <4>2. mask[s] = m
        BY <4>1, <2>3 DEF MaskInv, SameMask
      <4> QED BY <4>2, <2>3 DEF Consume
    <3>3. NoLostWakeup'
      BY <3>2, <2>3 DEF NoLostWakeup
    <3> QED BY <3>1, <3>3
  <2>4. ASSUME NEW t \in Threads, WaitTakes(t, MaskOf[t]) PROVE Inv'
    BY <2>3, <2>4 DEF WaitTakes
  <2>5. ASSUME NEW t \in Threads, WakeTakes(t) PROVE Inv'
    <3>1. mask[t] = MaskOf[t]
      BY <2>5 DEF WakeTakes, MaskInv
    <3> QED BY <2>3, <2>5, <3>1 DEF WakeTakes
  <2>6. ASSUME NEW t \in Threads, WaitBlocks(t, MaskOf[t]) PROVE Inv'
    <3>1. MaskInv'
      BY <2>6 DEF WaitBlocks, MaskInv
    <3>2. NoLostWakeup'
      BY <2>6 DEF WaitBlocks, NoLostWakeup
    <3> QED BY <3>1, <3>2
  <2>7. ASSUME NEW t \in Threads, WakeSleepsAgain(t) PROVE Inv'
    <3>1. MaskInv'
      BY <2>7 DEF WakeSleepsAgain, MaskInv
    <3>2. \A s \in Threads : phase'[s] = "asleep" => event' \cap mask'[s] = {}
      BY <2>7 DEF WakeSleepsAgain, MaskInv, SameMask
    <3> QED BY <3>1, <3>2 DEF NoLostWakeup
  <2>8. ASSUME NEW t \in Threads, SpuriousWake(t) \/ Expire(t) \/ ReturnExpired(t)
        PROVE  Inv'
    BY <2>8 DEF SpuriousWake, Expire, ReturnExpired, MaskInv, NoLostWakeup
  <2>9. CASE UNCHANGED vars
    BY <2>9 DEF vars, MaskInv, NoLostWakeup
  <2> QED BY <2>1, <2>2, <2>4, <2>5, <2>6, <2>7, <2>8, <2>9 DEF Next, Wake
<1> QED BY <1>1, <1>2, TypeCorrect, PTL DEF Spec
=============================================================================
