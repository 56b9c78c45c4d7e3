---------------------------- MODULE MCSseExecute ----------------------------
(* SseExecute for TLC.                                                      *)
EXTENDS SseExecute
=============================================================================
