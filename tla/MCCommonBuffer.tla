--------------------------- MODULE MCCommonBuffer ---------------------------
(***************************************************************************)
(* CommonBuffer with nodes of two bytes and room for three.                 *)
(***************************************************************************)
EXTENDS CommonBuffer

MCValue   == {0, 1}
MCChunks  == {<<0>>, <<1, 1, 0>>}
MCLengths == {1, 3}
=============================================================================
