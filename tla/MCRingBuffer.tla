---------------------------- MODULE MCRingBuffer ----------------------------
(***************************************************************************)
(* RingBuffer with two byte values and chunks of up to three bytes, one    *)
(* more than fits when the ring is part full.                              *)
(***************************************************************************)
EXTENDS RingBuffer

MCValue   == {0, 1}
MCChunks  == {<<0>>, <<1>>, <<0, 1>>, <<1, 1, 0>>}
MCLengths == {1, 2, 3}
=============================================================================
