------------------------------- MODULE ByteFile -------------------------------
(***************************************************************************)
(* What audio_file.c promises to a decoder, wherever the bytes come from:  *)
(* each read gives the next bytes of the file, fewer than wanted only at   *)
(* its end or once it is being stopped; a seek goes where it is told; a    *)
(* call that does not succeed may lose bytes, but none comes twice or out  *)
(* of order.                                                               *)
(***************************************************************************)
EXTENDS Integers, Sequences

CONSTANTS
  FileLen,
  ReadSizes    \* what a decoder asks for at a time

VARIABLES
  open, stopping,
  at,   \* offset of the byte that comes next
  out   \* the last call: what was wanted, what came

vars == <<open, stopping, at, out>>

Result(call, want, got) == [call |-> call, want |-> want, got |-> got]
Nothing == Result("none", 0, <<>>)
Lost    == Result("lost", 0, <<>>)

Init == ~open /\ ~stopping /\ at = 0 /\ out = Nothing

Open  == ~open /\ open' /\ at' = 0 /\ UNCHANGED <<stopping, out>>
Stop  == open /\ stopping' /\ UNCHANGED <<open, at, out>>
Close == open /\ stopping /\ ~open' /\ ~stopping' /\ at' = 0 /\ out' = Nothing

Read(want, n) ==
  /\ open /\ n <= want /\ at + n <= FileLen
  /\ n < want => at + n = FileLen \/ stopping
  /\ out' = Result("read", want, [i \in 1 .. n |-> at + i - 1])
  /\ at' = at + n
  /\ UNCHANGED <<open, stopping>>

Seek(p) == open /\ at' = p /\ out' = Result("seek", p, <<>>) /\ UNCHANGED <<open, stopping>>
Lose    == open /\ at' \in at .. FileLen /\ out' = Lost /\ UNCHANGED <<open, stopping>>

Next ==
  \/ Open \/ Stop \/ Close \/ Lose
  \/ \E want \in ReadSizes, n \in 0 .. FileLen : Read(want, n)
  \/ \E p \in 0 .. FileLen : Seek(p)

Spec == Init /\ [][Next]_vars
=============================================================================
