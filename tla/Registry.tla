------------------------------ MODULE Registry ------------------------------
(***************************************************************************)
(* The registry of agents and of chiboos, the groups they belong to:       *)
(* POST and DELETE of /agents/ (control_plane/routers/agents.py) and of    *)
(* /chiboos/ (control_plane/routers/chiboos.py), down to what              *)
(* AgentRegistry.create_agent (registry/agent_registry.py) does when its   *)
(* insert collides.                                                        *)
(*                                                                         *)
(* Each request has a session of its own.  A SELECT sees what is committed *)
(* at that moment and, once the session has written, its own writes; the   *)
(* first write takes SQLite's only write lock, the commit at the end of    *)
(* the request or a rollback gives it back.  A request is cut at each of   *)
(* its database calls.  The uncommitted rows of a request follow from pc,  *)
(* grp, gid and port; groups and agents hold the committed ones.           *)
(***************************************************************************)
EXTENDS Naturals, FiniteSets

CONSTANTS Chiboo, Name,   \* names of chiboos and of agents
          Slug,           \* Slug[x]: _slug(x), what a name leaves in agent ids
          CreateReqs,     \* POST /agents/
          PostReqs,       \* POST /chiboos/
          DropReqs,       \* DELETE /chiboos/{chiboo}
          RemoveReqs,     \* DELETE /agents/{agent_id}, agent not running
          Nobody,         \* "no request", and as a group id "no group"
          PortEnd,        \* bound: automatic ports are 1 .. PortEnd
          MaxPort,        \* bound: ports a client may ask for
          Attempts        \* bound: tries of create_agent, 10 in the code

Maker == CreateReqs \cup PostReqs
Req   == Maker \cup DropReqs \cup RemoveReqs

ASSUME RegistryAssumption ==
  /\ PortEnd \in Nat /\ MaxPort \in Nat /\ PortEnd <= MaxPort
  /\ Attempts \in Nat \ {0} /\ Chiboo # {} /\ Name # {}
  /\ Nobody \notin Req
  /\ CreateReqs \cap (PostReqs \cup DropReqs \cup RemoveReqs) = {}
  /\ PostReqs \cap (DropReqs \cup RemoveReqs) = {}
  /\ DropReqs \cap RemoveReqs = {}

NoPort   == 0
Port     == 1 .. MaxPort
AutoPort == 1 .. PortEnd

VARIABLES
  groups,    \* groups[c]: the id of chiboo c; ids are the requests that
             \* drew them (uuid4)
  agents,    \* the rows of the agents
  lock,      \* the request whose session holds the write lock
  pc,        \* pc[r]: the database call request r makes next
  chiboo,    \* the body or path of r: the chiboo,
  name,      \* the agent,
  given,     \* and the port asked for, NoPort if none
  grp,       \* grp[r]: what r's session knows of its AgentGroup object
  gid,       \* gid[r]: the id in that object
  port,      \* port[r]: the port create_agent tries
  attempt    \* attempt[r]: how many it has tried

dbVars  == <<groups, agents, lock>>
inVars  == <<chiboo, name, given>>
ormVars == <<grp, gid, port, attempt>>
vars    == <<dbVars, pc, inVars, ormVars>>

-----------------------------------------------------------------------------
Ended == {"done", "refused", "failed"}
ReqPC == {"new", "mkgroup", "port", "insert", "commit", "answer",
          "check", "load", "delete"} \cup Ended

AgentId(r) == <<Slug[chiboo[r]], Slug[name[r]]>>
Exists(i)  == \E a \in agents : a.id = i
Members(g) == {a \in agents : a.group = g}
NewRow(r)  == [id |-> AgentId(r), name |-> name[r], group |-> gid[r],
               port |-> port[r]]

(* The unique constraints of the agents table, against one row.            *)
Clash(a, b) == \/ a.id = b.id \/ a.port = b.port
               \/ a.name = b.name /\ a.group = b.group

InProgress(r) == pc[r] \notin {"new"} \cup Ended
CanWrite(r)   == lock \in {Nobody, r}
Goto(r, l)    == pc' = [pc EXCEPT ![r] = l]

(* What ends a transaction without committing it.                          *)
Unlock(r) == lock' = IF lock = r THEN Nobody ELSE lock

FreePorts == {p \in AutoPort : \A a \in agents : a.port # p}

Init ==
  /\ groups = [c \in Chiboo |-> Nobody]
  /\ agents = {}
  /\ lock = Nobody
  /\ pc = [r \in Req |-> "new"]
  /\ chiboo = [r \in Req |-> CHOOSE c \in Chiboo : TRUE]
  /\ name = [r \in CreateReqs \cup RemoveReqs |-> CHOOSE n \in Name : TRUE]
  /\ given = [r \in CreateReqs |-> NoPort]
  /\ grp = [r \in Maker |-> "none"]
  /\ gid = [r \in Maker \cup DropReqs |-> Nobody]
  /\ port = [r \in CreateReqs |-> NoPort]
  /\ attempt = [r \in CreateReqs |-> 0]

(* A request arrives: what it asks for.                                    *)
Receive(r) ==
  /\ pc[r] = "new"
  /\ \E c \in Chiboo : chiboo' = [chiboo EXCEPT ![r] = c]
  /\ IF r \in CreateReqs \cup RemoveReqs
     THEN \E n \in Name : name' = [name EXCEPT ![r] = n]
     ELSE UNCHANGED name
  /\ IF r \in CreateReqs
     THEN \E p \in Port \cup {NoPort} : given' = [given EXCEPT ![r] = p]
     ELSE UNCHANGED given

-----------------------------------------------------------------------------
(* get_or_create_group                                                     *)

Found(r) == IF r \in CreateReqs THEN "port" ELSE "answer"

FindGroup(r) ==
  /\ r \in Maker /\ Receive(r)
  /\ LET g == groups[chiboo'[r]] IN
       \/ /\ g # Nobody
          /\ grp' = [grp EXCEPT ![r] = "loaded"]
          /\ gid' = [gid EXCEPT ![r] = g]
          /\ Goto(r, Found(r))
       \/ g = Nobody /\ Goto(r, "mkgroup") /\ UNCHANGED <<grp, gid>>
  /\ UNCHANGED <<dbVars, port, attempt>>

(* Mutant: the names of chiboos are not declared unique.                   *)
InsertGroup_SameName(r) ==
  /\ pc[r] = "mkgroup" /\ lock = Nobody
  /\ lock' = r
  /\ grp' = [grp EXCEPT ![r] = "new"]
  /\ gid' = [gid EXCEPT ![r] = r]
  /\ Goto(r, Found(r))
  /\ UNCHANGED <<groups, agents, inVars, port, attempt>>

(* The flush of the new group, or a 500 when another has committed one.    *)
InsertGroup(r) ==
  /\ pc[r] = "mkgroup" /\ lock = Nobody
  /\ \/ /\ groups[chiboo[r]] = Nobody
        /\ lock' = r
        /\ grp' = [grp EXCEPT ![r] = "new"]
        /\ gid' = [gid EXCEPT ![r] = r]
        /\ Goto(r, Found(r))
     \/ /\ groups[chiboo[r]] # Nobody
        /\ Goto(r, "failed") /\ UNCHANGED <<lock, grp, gid>>
  /\ UNCHANGED <<groups, agents, inVars, port, attempt>>

(* Mutant: the failed request keeps its transaction open.                  *)
AnswerChiboo_NoRollback(r) ==
  /\ pc[r] = "answer"
  /\ Goto(r, "failed")
  /\ UNCHANGED <<dbVars, inVars, ormVars>>

(* Mutant: the session commits before the answer is put together.          *)
AnswerChiboo_Commits(r) ==
  /\ pc[r] = "answer"
  /\ groups' = IF grp[r] = "new" THEN [groups EXCEPT ![chiboo[r]] = gid[r]]
               ELSE groups
  /\ Unlock(r) /\ Goto(r, "failed")
  /\ UNCHANGED <<agents, inVars, ormVars>>

(* create_chiboo reads g.agents, a relationship that is declared to raise  *)
(* when it is not loaded: the request fails and its group is rolled back.  *)
AnswerChiboo(r) ==
  /\ pc[r] = "answer"
  /\ Unlock(r) /\ Goto(r, "failed")
  /\ UNCHANGED <<groups, agents, inVars, ormVars>>

-----------------------------------------------------------------------------
(* create_agent                                                            *)

(* Mutant: the group's id is read again after a rollback.                  *)
ChoosePort_ReadsGroupAgain(r) ==
  /\ pc[r] = "port"
  /\ attempt' = [attempt EXCEPT ![r] = @ + 1]
  /\ LET asked == IF attempt[r] = 0 THEN given[r] ELSE NoPort
         open  == IF asked # NoPort THEN {asked} ELSE FreePorts
     IN  \/ /\ \E p \in open : /\ \A q \in open : p <= q
                              /\ port' = [port EXCEPT ![r] = p]
            /\ Goto(r, "insert") /\ UNCHANGED lock
         \/ open = {} /\ Unlock(r) /\ Goto(r, "failed") /\ UNCHANGED port
  /\ UNCHANGED <<groups, agents, inVars, grp, gid>>

(* The port that was asked for, on the first attempt; else the lowest free *)
(* one, or a 500 when there is none.  Then group.id, which raises when the *)
(* rollback of an earlier attempt has expired the object.                  *)
ChoosePort(r) ==
  /\ pc[r] = "port"
  /\ attempt' = [attempt EXCEPT ![r] = @ + 1]
  /\ LET asked == IF attempt[r] = 0 THEN given[r] ELSE NoPort
         open  == IF asked # NoPort THEN {asked} ELSE FreePorts
     IN  \/ /\ grp[r] # "expired"
            /\ \E p \in open : /\ \A q \in open : p <= q
                              /\ port' = [port EXCEPT ![r] = p]
            /\ Goto(r, "insert") /\ UNCHANGED lock
         \/ /\ open = {} \/ grp[r] = "expired"
            /\ Unlock(r) /\ Goto(r, "failed") /\ UNCHANGED port
  /\ UNCHANGED <<groups, agents, inVars, grp, gid>>

InsertAgent(r) ==
  /\ pc[r] = "insert" /\ CanWrite(r)
  /\ \A a \in agents : ~Clash(a, NewRow(r))
  /\ lock' = r
  /\ Goto(r, "commit")
  /\ UNCHANGED <<groups, agents, inVars, ormVars>>

(* Mutant: nothing bounds the attempts.                                    *)
Collide_Forever(r) ==
  /\ pc[r] = "insert" /\ CanWrite(r)
  /\ \E a \in agents : Clash(a, NewRow(r))
  /\ lock' = Nobody
  /\ grp' = [grp EXCEPT ![r] = IF @ = "loaded" THEN "expired" ELSE "transient"]
  /\ attempt' = [attempt EXCEPT ![r] = 1]
  /\ Goto(r, "port")
  /\ UNCHANGED <<groups, agents, inVars, gid, port>>

(* IntegrityError: the rollback gives up the lock and the new group with   *)
(* it.  A group the transaction had read is expired; one it had inserted   *)
(* leaves the session but keeps its id.                                    *)
Collide(r) ==
  /\ pc[r] = "insert" /\ CanWrite(r)
  /\ \E a \in agents : Clash(a, NewRow(r))
  /\ lock' = Nobody
  /\ grp' = [grp EXCEPT ![r] = IF @ = "loaded" THEN "expired" ELSE "transient"]
  /\ Goto(r, IF attempt[r] < Attempts THEN "port" ELSE "failed")
  /\ UNCHANGED <<groups, agents, inVars, gid, port, attempt>>

(* The event, the workspace, and the commit of the request's session.      *)
CommitAgent(r) ==
  /\ pc[r] = "commit"
  /\ agents' = agents \cup {NewRow(r)}
  /\ groups' = IF grp[r] = "new" THEN [groups EXCEPT ![chiboo[r]] = gid[r]]
               ELSE groups
  /\ lock' = Nobody
  /\ Goto(r, "done")
  /\ UNCHANGED <<inVars, ormVars>>

(* The workspace cannot be made: the session rolls back.                   *)
BootstrapFails(r) ==
  /\ pc[r] = "commit"
  /\ Unlock(r) /\ Goto(r, "failed")
  /\ UNCHANGED <<groups, agents, inVars, ormVars>>

-----------------------------------------------------------------------------
(* delete_agent and delete_chiboo                                          *)

ReadAgent(r) ==
  /\ r \in RemoveReqs /\ Receive(r)
  /\ Goto(r, IF Exists(AgentId(r)') THEN "delete" ELSE "refused")
  /\ UNCHANGED <<dbVars, ormVars>>

RemoveAgent(r) ==
  /\ r \in RemoveReqs /\ pc[r] = "delete"
  /\ lock = Nobody \/ ~Exists(AgentId(r))
  /\ agents' = {a \in agents : a.id # AgentId(r)}
  /\ Goto(r, "done")
  /\ UNCHANGED <<groups, lock, inVars, ormVars>>

ReadChiboo(r) ==
  /\ r \in DropReqs /\ Receive(r)
  /\ LET g == groups[chiboo'[r]] IN
       /\ gid' = [gid EXCEPT ![r] = g]
       /\ Goto(r, IF g = Nobody THEN "refused" ELSE "check")
  /\ UNCHANGED <<dbVars, grp, port, attempt>>

(* 409 when the chiboo has agents; nothing to do when it has gone.         *)
CheckChiboo(r) ==
  /\ pc[r] = "check"
  /\ Goto(r, IF Members(gid[r]) # {} THEN "refused"
             ELSE IF groups[chiboo[r]] # gid[r] THEN "done" ELSE "load")
  /\ UNCHANGED <<dbVars, inVars, ormVars>>

(* The flush of the deletion loads the members again: it would take their  *)
(* group from them, which the schema forbids, so that any member fails it. *)
LoadMembers(r) ==
  /\ pc[r] = "load"
  /\ Goto(r, IF Members(gid[r]) # {} THEN "failed" ELSE "delete")
  /\ UNCHANGED <<dbVars, inVars, ormVars>>

DropChiboo(r) ==
  /\ r \in DropReqs /\ pc[r] = "delete" /\ lock = Nobody
  /\ groups' = [groups EXCEPT ![chiboo[r]] = IF @ = gid[r] THEN Nobody ELSE @]
  /\ Goto(r, "done")
  /\ UNCHANGED <<agents, lock, inVars, ormVars>>

(* "database is locked": five seconds of waiting end in a 500.             *)
Busy(r) ==
  /\ pc[r] \in {"mkgroup", "insert", "delete"} /\ ~CanWrite(r)
  /\ r \in RemoveReqs => Exists(AgentId(r))
  /\ Goto(r, "failed")
  /\ UNCHANGED <<dbVars, inVars, ormVars>>

-----------------------------------------------------------------------------
Create(r) == \/ ChoosePort(r) \/ InsertAgent(r) \/ Collide(r)
             \/ CommitAgent(r) \/ BootstrapFails(r)
Drop(r)   == ReadChiboo(r) \/ CheckChiboo(r) \/ LoadMembers(r) \/ DropChiboo(r)
Remove(r) == ReadAgent(r) \/ RemoveAgent(r)

Handle(r) == \/ FindGroup(r) \/ InsertGroup(r) \/ AnswerChiboo(r) \/ Create(r)
             \/ Drop(r) \/ Remove(r) \/ Busy(r)

Next == \E r \in Req : Handle(r)

Spec == Init /\ [][Next]_vars

(* The event loop goes on with a request that can go on.                   *)
LiveSpec == Spec /\ \A r \in Req : WF_vars(InProgress(r) /\ Handle(r))

-----------------------------------------------------------------------------
(* Properties                                                              *)

(* The database, what was asked, and the sessions, well typed.             *)
DbType ==
  /\ groups \in [Chiboo -> CreateReqs \cup {Nobody}]
  /\ \A a \in agents : a.group \in CreateReqs /\ a.port \in Port
  /\ lock \in Maker \cup {Nobody}

InType ==
  /\ chiboo \in [Req -> Chiboo]
  /\ name \in [CreateReqs \cup RemoveReqs -> Name]
  /\ given \in [CreateReqs -> Port \cup {NoPort}]

OrmType ==
  /\ grp \in [Maker -> {"none", "loaded", "new", "transient", "expired"}]
  /\ gid \in [Maker \cup DropReqs -> Maker \cup {Nobody}]
  /\ port \in [CreateReqs -> Port \cup {NoPort}]
  /\ attempt \in [CreateReqs -> 0 .. Attempts]

(* The state is well typed: create_agent tries Attempts times at most, and *)
(* no request but POST /agents/ makes a chiboo.                            *)
TypeOK == DbType /\ pc \in [Req -> ReqPC] /\ InType /\ OrmType

(* No two agents share an id, a port, or a name within a chiboo, although  *)
(* ports and names are looked up long before the row is written.           *)
UniqueKeys == \A a, b \in agents : a = b \/ ~Clash(a, b)

(* The write lock is held by a create that has inserted its chiboo or its  *)
(* agent, or by a POST /chiboos/ that has yet to answer; and nobody else   *)
(* believes its uncommitted rows are there.                                *)
LockHeldByWriter ==
  /\ lock # Nobody => pc[lock] \in {"port", "insert", "commit", "answer"}
  /\ \A r \in Maker : pc[r] = "commit" \/ (grp[r] = "new" /\ InProgress(r))
                      => lock = r

(* A create that makes its chiboo looks for a port under the write lock:   *)
(* the port it finds cannot be taken from it.                              *)
LockedChoiceIsFree ==
  \A r \in CreateReqs : lock = r /\ pc[r] = "insert" /\ given[r] = NoPort =>
    \A a \in agents : a.port # port[r]

(* What the retry of create_agent comes to.  In a chiboo that exists no    *)
(* second attempt gets to its insert; in a chiboo of its own one succeeds  *)
(* with the id of a group that was rolled back.                            *)
RetryOnlyOrphans ==
  \A r \in CreateReqs :
    attempt[r] > 1 /\ pc[r] \in {"insert", "commit", "done"} =>
      grp[r] = "transient" /\ gid[r] = r

(* README, Key Concepts: "Every agent belongs to exactly one chiboo."      *)
EveryAgentHasChiboo == \A a \in agents : \E c \in Chiboo : groups[c] = a.group

Explained(g) == \/ \E c \in Chiboo : groups[c] = g
                \/ attempt[g] > 1
                \/ \E d \in DropReqs : pc[d] = "done" /\ gid[d] = g

(* An agent without its chiboo was written by a second attempt, or its     *)
(* chiboo was deleted by a request that saw no agent in it; there is no    *)
(* third way.                                                              *)
OrphansExplained == \A a \in agents : Explained(a.group)

(* The registry is the directory that Directory promises: requests take    *)
(* effect at once or not at all, although create_agent and delete_chiboo   *)
(* decide on what they read several database calls before they commit.     *)
AnswerOf(r) == CASE pc[r] = "new" -> "none"
                 [] InProgress(r) -> "open"
                 [] pc[r] \in {"refused", "failed"} -> "denied"
                 [] pc[r] = "done" -> "done"

Promised == INSTANCE Directory WITH answer <- [r \in Req |-> AnswerOf(r)]

ImplementsDirectory == Promised!Spec

(* Every request is answered, so that again and again none is left:        *)
(* attempts are counted, the wait for the lock is bounded.                 *)
RequestsEnd == []<>(\A r \in Req : ~InProgress(r))
=============================================================================
