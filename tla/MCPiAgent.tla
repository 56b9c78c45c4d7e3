----------------------------- MODULE MCPiAgent -----------------------------
(* PiAgent for TLC: executions are interchangeable, and so are reloads.    *)
EXTENDS PiAgent, FiniteSets, TLC

ExecSymmetry == Permutations(Exec)
TaskSymmetry == ExecSymmetry \cup Permutations(Reload)

(* Bound: the requests that arrive in a behaviour.                         *)
ThreeRequests ==
  Cardinality({r \in Exec : pc[r] # "new"})
    + Cardinality({t \in Reload : tk[t] # "idle"}) <= 3
=============================================================================
