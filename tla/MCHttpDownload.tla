--------------------------- MODULE MCHttpDownload ---------------------------
(***************************************************************************)
(* HttpDownload for TLC.  Two blocks fill the buffer and the file is       *)
(* longer, so that ranges end in the middle of it, the last one is shorter *)
(* than asked for, and a server without ranges has to wait for room.       *)
(***************************************************************************)
EXTENDS HttpDownload

FileOf(len, ask, ranges, chunked, moved) ==
  [len |-> len, ask |-> ask, ranges |-> ranges, chunked |-> chunked, moved |-> moved]

(* Servers with ranges, without, with chunks, and redirects to them.       *)
MCFiles ==
  {FileOf(5, TRUE, TRUE, FALSE, FALSE), FileOf(6, TRUE, TRUE, FALSE, TRUE),
   FileOf(5, TRUE, FALSE, FALSE, FALSE), FileOf(5, FALSE, TRUE, FALSE, TRUE),
   FileOf(5, TRUE, FALSE, TRUE, FALSE), FileOf(6, FALSE, FALSE, TRUE, FALSE)}
=============================================================================
