----------------------------- MODULE MCRegistry -----------------------------
(* An instance of Registry for TLC: two chiboo names that _slug takes for   *)
(* one ("ml ops" and "ml-ops"), so that ids clash across chiboos.           *)
EXTENDS Registry, TLC

SharedSlug == [x \in Chiboo \cup Name |->
                 IF x \in Chiboo THEN CHOOSE c \in Chiboo : TRUE ELSE x]

Symmetry == Permutations(CreateReqs)
=============================================================================
