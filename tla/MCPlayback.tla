----------------------------- MODULE MCPlayback -----------------------------
(***************************************************************************)
(* Playback for TLC.  A frame is more than the ring, and the first request *)
(* takes half of what a later one takes, so that a frame is handed over in *)
(* two or three parts, the decoder pauses in between, and requests find    *)
(* the ring full, part full and empty.                                     *)
(***************************************************************************)
EXTENDS Playback
=============================================================================
