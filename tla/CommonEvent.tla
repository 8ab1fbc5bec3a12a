----------------------------- MODULE CommonEvent -----------------------------
(***************************************************************************)
(* The event group of src/common_event.c: a set of bits protected by one   *)
(* mutex and one condition variable.  The FreeRTOS names xEventGroup...    *)
(* used everywhere else are macros for these functions.                    *)
(*                                                                         *)
(* Every function body is one critical section of the mutex, so it is one  *)
(* step, except common_wait_event, which gives the mutex up inside         *)
(* pthread_cond_timedwait.  A thread inside that call is                   *)
(*    "asleep"     blocked in the condition variable,                      *)
(*    "signalled"  picked by pthread_cond_signal (or woken spuriously)     *)
(*                 and waiting for the mutex,                              *)
(*    "expired"    past its deadline and waiting for the mutex.            *)
(* pthread_cond_signal wakes ONE sleeper, and the program cannot say       *)
(* which.  Other modules compose event groups by INSTANCE.                 *)
(***************************************************************************)
EXTENDS FiniteSets

CONSTANTS Threads,   \* threads that may call common_wait_event
          Bits,      \* the bits of the group
          MaskOf     \* MaskOf[t]: the bits t waits for in the closed system

ASSUME MaskAssumption == MaskOf \in [Threads -> SUBSET Bits]

VARIABLES event,     \* common_event->event, as the set of bits that are 1
          phase,     \* where each thread is with respect to the wait
          mask       \* the argument "events" of the wait of each thread

vars == <<event, phase, mask>>

Phases == {"out", "asleep", "signalled", "expired"}

TypeOK == /\ event \in SUBSET Bits
          /\ phase \in [Threads -> Phases]
          /\ mask \in [Threads -> SUBSET Bits]

(* Fault: the group is not zeroed when it is created.                      *)
InitNotZeroed ==
  /\ event \in {{}, {"garbage"}}
  /\ phase = [t \in Threads |-> "out"]
  /\ mask = [t \in Threads |-> {}]

Init == /\ event = {}
        /\ phase = [t \in Threads |-> "out"]
        /\ mask = [t \in Threads |-> {}]

-----------------------------------------------------------------------------
(* pthread_cond_signal: one sleeper of the phases ph, if there is one.     *)
Signal(ph) ==
  IF \E t \in Threads : ph[t] = "asleep"
  THEN \E t \in Threads : ph[t] = "asleep" /\ phase' = [ph EXCEPT ![t] = "signalled"]
  ELSE phase' = ph

(* Fault: the signal is sent only when the group was empty.                *)
SetEventOnEdge(bits) ==
  /\ event' = event \cup bits
  /\ IF event = {} THEN Signal(phase) ELSE UNCHANGED phase
  /\ UNCHANGED mask

SetEvent(bits) ==
  /\ event' = event \cup bits
  /\ Signal(phase)
  /\ UNCHANGED mask

ClearEvent(bits) ==
  /\ event' = event \ bits
  /\ UNCHANGED <<phase, mask>>

(* The end of a wait that found something: the bits of the mask are taken, *)
(* and whatever is left over is announced to another waiter.               *)
Consume(t, m) ==
  /\ event \cap m # {}
  /\ event' = event \ m
  /\ IF event \ m # {} THEN Signal([phase EXCEPT ![t] = "out"])
                       ELSE phase' = [phase EXCEPT ![t] = "out"]

(* common_wait_event, first look: it returns at once, ...                  *)
WaitTakes(t, m) ==
  /\ phase[t] = "out"
  /\ Consume(t, m)
  /\ UNCHANGED mask

(* Fault: the wait blocks without the first look.                          *)
WaitBlocksUnlooked(t, m) ==
  /\ phase[t] = "out"
  /\ phase' = [phase EXCEPT ![t] = "asleep"]
  /\ mask' = [mask EXCEPT ![t] = m]
  /\ UNCHANGED event

(* ... or blocks when its timeout is positive.                             *)
WaitBlocks(t, m) ==
  /\ phase[t] = "out"
  /\ event \cap m = {}
  /\ phase' = [phase EXCEPT ![t] = "asleep"]
  /\ mask' = [mask EXCEPT ![t] = m]
  /\ UNCHANGED event

(* The loop of common_wait_event after pthread_cond_timedwait returned 0.  *)
WakeTakes(t) ==
  /\ phase[t] = "signalled"
  /\ Consume(t, mask[t])
  /\ UNCHANGED mask

WakeSleepsAgain(t) ==
  /\ phase[t] = "signalled"
  /\ event \cap mask[t] = {}
  /\ phase' = [phase EXCEPT ![t] = "asleep"]
  /\ UNCHANGED <<event, mask>>

SpuriousWake(t) ==
  /\ phase[t] = "asleep"
  /\ phase' = [phase EXCEPT ![t] = "signalled"]
  /\ UNCHANGED <<event, mask>>

(* ETIMEDOUT: the thread leaves the condition variable, and returns 0 when *)
(* it has the mutex back, without looking at the bits again.               *)
Expire(t) ==
  /\ phase[t] = "asleep"
  /\ phase' = [phase EXCEPT ![t] = "expired"]
  /\ UNCHANGED <<event, mask>>

ReturnExpired(t) ==
  /\ phase[t] = "expired"
  /\ phase' = [phase EXCEPT ![t] = "out"]
  /\ UNCHANGED <<event, mask>>

-----------------------------------------------------------------------------
(* The closed system: any thread sets or clears bits at any time, and each *)
(* t waits, with a timeout, for its own mask.                              *)
Wake(t) == WakeTakes(t) \/ WakeSleepsAgain(t) \/ ReturnExpired(t)

Next ==
  \/ \E bits \in SUBSET Bits : SetEvent(bits)
  \/ \E bits \in SUBSET Bits : ClearEvent(bits)
  \/ \E t \in Threads :
       \/ WaitTakes(t, MaskOf[t])
       \/ WaitBlocks(t, MaskOf[t])
       \/ Wake(t)
       \/ SpuriousWake(t)
       \/ Expire(t)

Spec == Init /\ [][Next]_vars

(* A thread that has left the condition variable gets the mutex back.      *)
FairSpec == Spec /\ \A t \in Threads : WF_vars(Wake(t))

-----------------------------------------------------------------------------
(* Every group but the acknowledgements of common_fsm.c has one waiter, or *)
(* waiters with the same mask.                                             *)
SameMask == \A s, t \in Threads : MaskOf[s] = MaskOf[t]

(* No wakeup is lost: when a thread sleeps although a bit it waits for is  *)
(* set, some thread has been signalled and will look at the bits.  The     *)
(* signal of common_set_event goes to one sleeper only, and                *)
(* common_wait_event passes leftovers on, so this needs SameMask.          *)
NoLostWakeup ==
  \A t \in Threads :
    phase[t] = "asleep" /\ event \cap mask[t] # {}
      => \E s \in Threads : phase[s] = "signalled"

(* A waiter whose bit is set does not sit out its timeout: it returns, or  *)
(* somebody else takes or clears the bit (common_event.c:26-72).           *)
SetBitEndsWait ==
  \A t \in Threads :
    (phase[t] # "out" /\ event \cap mask[t] # {})
      ~> (phase[t] = "out" \/ event \cap mask[t] = {})
=============================================================================
