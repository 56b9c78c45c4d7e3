---------------------------- MODULE AgentService ----------------------------
(***************************************************************************)
(* What the operator of a fleet of agents may rely on, whatever handlers,  *)
(* database, process manager and recovery go through: an agent has at most *)
(* one server that is answered for; its row says "running" only of that    *)
(* server, and nothing else while it runs, except as long as it is being   *)
(* started; an agent that is deleted has none and never comes back; and a  *)
(* crash of the control plane costs at most one server, that of the agent  *)
(* that was being started.  AgentLifecycle implements this specification   *)
(* for clients that wait for their answers.                                *)
(***************************************************************************)
EXTENDS Naturals

CONSTANTS Agent,
          Server,       \* the servers that may ever be spawned
          NoServer,
          MaxCrash      \* how often the control plane may crash

VARIABLES status,       \* status[a]: what the row of a says
          named,        \* named[a]: the server it names
          running,      \* running[a]: the servers of a that run
          stray,        \* servers that run and that nobody answers for
          born,         \* the servers spawned so far
          crashes

rowVars == <<status, named>>
svars   == <<rowVars, running, stray, born, crashes>>

Init == /\ status = [a \in Agent |-> "stopped"]
        /\ named = [a \in Agent |-> NoServer]
        /\ running = [a \in Agent |-> {}]
        /\ stray = {} /\ born = {} /\ crashes = 0

Down(a) == status[a] \in {"stopped", "error"}

Spawn(a) == /\ Down(a) /\ running[a] = {}
            /\ \E p \in Server \ born : /\ running' = [running EXCEPT ![a] = {p}]
                                        /\ born' = born \cup {p}
            /\ UNCHANGED <<rowVars, stray, crashes>>

(* The start of a is over.  Its server may have died meanwhile.            *)
Report(a, s) == /\ Down(a)
                /\ s = "error" => running[a] = {}
                /\ \E p \in born : /\ running[a] \subseteq {p}
                                   /\ named' = [named EXCEPT ![a] = p]
                /\ status' = [status EXCEPT ![a] = s]
                /\ UNCHANGED <<running, stray, born, crashes>>

(* Several at once when the control plane comes back.                      *)
Stop(A) == /\ \A a \in A : status[a] = "running" /\ running[a] = {}
           /\ status' = [a \in Agent |-> IF a \in A THEN "stopped" ELSE status[a]]
           /\ named' = [a \in Agent |-> IF a \in A THEN NoServer ELSE named[a]]
           /\ UNCHANGED <<running, stray, born, crashes>>

Delete(a) == /\ Down(a) /\ running[a] = {}
             /\ status' = [status EXCEPT ![a] = "absent"]
             /\ named' = [named EXCEPT ![a] = NoServer]
             /\ UNCHANGED <<running, stray, born, crashes>>

(* A server ends, by itself or because it is stopped.                      *)
Exit(p) == /\ running' = [a \in Agent |-> running[a] \ {p}]
           /\ stray' = stray \ {p}
           /\ UNCHANGED <<rowVars, born, crashes>>

Crash == /\ crashes < MaxCrash /\ crashes' = crashes + 1
         /\ \/ UNCHANGED <<running, stray>>
            \/ \E a \in Agent : /\ Down(a)
                                /\ running' = [running EXCEPT ![a] = {}]
                                /\ stray' = stray \cup running[a]
         /\ UNCHANGED <<rowVars, born>>

Next == \/ \E a \in Agent : Spawn(a) \/ Delete(a)
                            \/ \E s \in {"running", "error"} : Report(a, s)
        \/ \E A \in SUBSET Agent : Stop(A)
        \/ \E p \in Server : Exit(p)
        \/ Crash

Spec == Init /\ [][Next]_svars
=============================================================================
