------------------------------ MODULE MCPlayers ------------------------------
(***************************************************************************)
(* Players for TLC: a player of resources and one of prompts, with files   *)
(* of up to two rings, so that one of them runs dry in the middle.         *)
(***************************************************************************)
EXTENDS Players
=============================================================================
