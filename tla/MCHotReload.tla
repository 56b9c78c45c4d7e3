---------------------------- MODULE MCHotReload ----------------------------
(* An instance of HotReload for TLC.                                        *)
EXTENDS HotReload
=============================================================================
