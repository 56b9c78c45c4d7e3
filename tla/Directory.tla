----------------------------- MODULE Directory -----------------------------
(***************************************************************************)
(* What clients of the registry may rely on, whatever its sessions, locks, *)
(* collisions and retries go through.  A request takes effect once, all of *)
(* it, at the moment it is done, or leaves no trace.  An agent is written  *)
(* with an id, a port and a name in its chiboo that are nobody else's; it  *)
(* belongs to the chiboo that was asked for or to none, never to another;  *)
(* and a chiboo begins with one agent, so that agents without a chiboo do  *)
(* not turn up in a later one.  Registry implements this specification.    *)
(***************************************************************************)
EXTENDS Naturals

CONSTANTS Chiboo, Name, Slug,
          Req, CreateReqs, DropReqs, RemoveReqs,
          Port, AutoPort,   \* all ports, and those chosen for a client
          NoPort, Nobody

VARIABLES groups,           \* groups[c]: the id of chiboo c, or Nobody
          agents,           \* the rows of the agents
          chiboo, name, given,   \* what each request asks for
          answer            \* answer[r]: whether it has come, and its answer

asked == <<chiboo, name, given>>
dvars == <<groups, agents, asked, answer>>

Id(r) == <<Slug[chiboo[r]], Slug[name[r]]>>

Init == /\ groups = [c \in Chiboo |-> Nobody] /\ agents = {}
        /\ chiboo \in [Req -> Chiboo]
        /\ name \in [CreateReqs \cup RemoveReqs -> Name]
        /\ given \in [CreateReqs -> Port \cup {NoPort}]
        /\ answer = [r \in Req |-> "none"]

Answers(r, s) == answer' = [answer EXCEPT ![r] = s]

Arrive(r) ==
  /\ answer[r] = "none"
  /\ \E c \in Chiboo : chiboo' = [chiboo EXCEPT ![r] = c]
  /\ \E n \in Name : name' \in {name, [name EXCEPT ![r] = n]}
  /\ \E p \in Port \cup {NoPort} : given' \in {given, [given EXCEPT ![r] = p]}
  /\ Answers(r, "open") \/ Answers(r, "denied")
  /\ UNCHANGED <<groups, agents>>

(* POST /chiboos/ has no other end.                                        *)
Deny(r) == /\ answer[r] = "open" /\ Answers(r, "denied")
           /\ UNCHANGED <<groups, agents, asked>>

(* Where the new agent of r may belong: in the chiboo asked for, in one    *)
(* that is made for it, or, against README's "exactly one", nowhere.       *)
Unused(g) == \A c \in Chiboo : groups[c] # g
Joins(r, g)  == groups[chiboo[r]] = g /\ UNCHANGED groups
Founds(r, g) == /\ groups[chiboo[r]] = Nobody
                /\ Unused(g) /\ \A a \in agents : a.group # g
                /\ groups' = [groups EXCEPT ![chiboo[r]] = g]
IsOrphan(g)  == Unused(g) /\ UNCHANGED groups

Write(r, g, p) ==
  /\ \A a \in agents : /\ a.id # Id(r) /\ a.port # p
                       /\ a.name # name[r] \/ a.group # g
  /\ agents' = agents \cup
                {[id |-> Id(r), name |-> name[r], group |-> g, port |-> p]}
  /\ Joins(r, g) \/ Founds(r, g) \/ IsOrphan(g)

Add(r) ==
  /\ r \in CreateReqs /\ answer[r] = "open"
  /\ \E g \in CreateReqs : \E p \in AutoPort \cup ({given[r]} \ {NoPort}) :
       Write(r, g, p)
  /\ Answers(r, "done") /\ UNCHANGED asked

Remove(r) == /\ r \in RemoveReqs /\ answer[r] = "open"
             /\ agents' = {a \in agents : a.id # Id(r)}
             /\ Answers(r, "done") /\ UNCHANGED <<groups, asked>>

(* The chiboo may have been deleted, and made again, by others meanwhile.  *)
Drop(r) == /\ r \in DropReqs /\ answer[r] = "open"
           /\ groups' \in {groups, [groups EXCEPT ![chiboo[r]] = Nobody]}
           /\ Answers(r, "done") /\ UNCHANGED <<agents, asked>>

Next == \E r \in Req : Arrive(r) \/ Deny(r) \/ Add(r) \/ Remove(r) \/ Drop(r)

Spec == Init /\ [][Next]_dvars
=============================================================================
