----------------------------- MODULE MCLogTail -----------------------------
(* LogTail for TLC.                                                         *)
EXTENDS LogTail
=============================================================================
