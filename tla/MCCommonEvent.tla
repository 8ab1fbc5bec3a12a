--------------------------- MODULE MCCommonEvent ---------------------------
(***************************************************************************)
(* Three threads that wait for the same two bits out of three, as the      *)
(* waiters of one group do everywhere except on an acknowledgement group.  *)
(***************************************************************************)
EXTENDS CommonEvent, TLC

CONSTANTS t1, t2, t3, DECODER, EXIT, ELSEBIT

MCThreads == {t1, t2, t3}
MCBits    == {DECODER, EXIT, ELSEBIT}
MCMaskOf  == [t \in MCThreads |-> {DECODER, EXIT}]
=============================================================================
