----------------------------- MODULE MCAudioFile -----------------------------
(***************************************************************************)
(* AudioFile for TLC.  The file is longer than the buffer, a read may be   *)
(* longer than SeekMax and take what has been preread together with what   *)
(* has not, a seek may reach every place from every other; nothing bounds  *)
(* the number of calls and of failures.                                    *)
(***************************************************************************)
EXTENDS AudioFile

MCReadSizes == {1, SeekMax + 1}
=============================================================================
