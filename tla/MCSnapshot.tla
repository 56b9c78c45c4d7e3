----------------------------- MODULE MCSnapshot -----------------------------
(* An instance of SnapshotFlush for TLC: one agent that is created, started,*)
(* deleted and created again, with a second delete: the start or a delete   *)
(* may find it gone, and only such requests get a flush job, so the agent   *)
(* must come back for the snapshot to have a record that a server can load. *)
EXTENDS SnapshotFlush

CONSTANTS a1, c1, c2, d1, d2, s1

MCTarget == [r \in Req |-> a1]
=============================================================================
