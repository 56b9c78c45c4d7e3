-------------------------- MODULE AgentLifecycle --------------------------
(***************************************************************************)
(* The control plane's side of an agent: the start, stop, delete and       *)
(* status handlers (control_plane/routers/agents.py), the registry calls   *)
(* and the database session they run in (registry/agent_registry.py,       *)
(* db/engine.py), the process manager (process/manager.py) and what        *)
(* happens when the control plane dies and comes back (control_plane/      *)
(* app.py, lifespan).  The agent servers are operating system processes    *)
(* that survive it.                                                        *)
(*                                                                         *)
(* All handlers share one event loop and one SQLite file.  A handler is    *)
(* cut where it awaits; its writes are seen by nobody before its session   *)
(* commits, at the end of the request.  The first write of a session takes *)
(* the write lock of the database, the commit releases it; a session that  *)
(* finds it taken waits for five seconds and then fails the request.  Only *)
(* start holds the lock across an await worth modelling: the handlers that *)
(* write and commit without waiting in between do so in one step.          *)
(***************************************************************************)
EXTENDS Naturals, FiniteSets

CONSTANTS Agent,        \* agent ids
          StartReqs,    \* POST /{agent_id}/start
          StopReqs,     \* POST /{agent_id}/stop
          DeleteReqs,   \* DELETE /{agent_id}
          StatusReqs,   \* GET /{agent_id}/status
          NoReq,        \* "no request"
          Serial,       \* whether clients wait for a start, stop or delete
                        \* to be answered before they send the next one
          MaxPid,       \* bound: agent servers spawned in a behaviour
          MaxCrash      \* bound: crashes of the control plane

ASSUME LifecycleAssumption == /\ Serial \in BOOLEAN
                              /\ MaxPid \in Nat /\ MaxCrash \in Nat

Command == StartReqs \cup StopReqs \cup DeleteReqs
Req     == Command \cup StatusReqs

ASSUME RequestAssumption ==
  /\ Agent # {} /\ NoReq \notin Req
  /\ StartReqs \cap (StopReqs \cup DeleteReqs \cup StatusReqs) = {}
  /\ StopReqs \cap (DeleteReqs \cup StatusReqs) = {}
  /\ DeleteReqs \cap StatusReqs = {}

None == 0
Pid  == 1 .. MaxPid

VARIABLES
  row,       \* row[a]: status and pid of agent a, as committed
  lock,      \* the request whose session holds the database's write lock
  pc,        \* pc[r]: where the handler of request r awaits
  tgt,       \* tgt[r]: the agent r is about
  rec,       \* rec[r]: the row r read when it began
  pid,       \* pid[r]: the process r spawned, or is terminating
  verdict,   \* verdict[r]: the status start is about to commit
  procs,     \* AgentProcessManager._procs
  orphan,    \* AgentProcessManager._orphan_pids
  up,        \* whether the control plane runs
  crashes,   \* how many times it crashed
  srv,       \* srv[p]: the state of agent server process p
  owner,     \* owner[p]: the agent p was started for
  sentinel,  \* the agents whose ready file is on disk
  exposed    \* history: servers that a crash took out of the hands of a start

dbVars   == <<row, lock>>
reqVars  == <<pc, tgt, rec, pid, verdict>>
pmVars   == <<procs, orphan>>
srvVars  == <<srv, owner, sentinel>>
downVars == <<up, crashes, exposed>>
vars     == <<dbVars, reqVars, pmVars, srvVars, downVars>>

-----------------------------------------------------------------------------
Status  == {"stopped", "starting", "running", "error", "absent"}
Row     == [status : Status, pid : 0 .. MaxPid]
Ended   == {"done", "refused", "failed", "lost"}
ReqPC   == {"new", "got", "spawn", "wait", "commit", "term", "mark"} \cup Ended
SrvState == {"unborn", "boot", "open", "serving", "dead"}

StoppedRow == [status |-> "stopped", pid |-> None]
AbsentRow  == [status |-> "absent", pid |-> None]

InProgress(r) == pc[r] \notin {"new"} \cup Ended
Live(p) == p # None /\ srv[p] \in {"boot", "open", "serving"}
Exists(a) == row[a].status # "absent"

(* is_running: a child that has not exited, or an orphan that still lives. *)
IsRunning(a) == Live(procs[a]) \/ Live(orphan[a])

(* ... and forgets an orphan it finds dead.                                *)
PruneOrphan(a) ==
  orphan' = [orphan EXCEPT ![a] = IF IsRunning(a) THEN @ ELSE None]

Goto(r, l) == pc' = [pc EXCEPT ![r] = l]

(* The first write of r's session: it needs the lock, or no row to write.  *)
CanWrite(a) == lock = NoReq \/ ~Exists(a)

Init ==
  /\ row = [a \in Agent |-> StoppedRow]
  /\ lock = NoReq
  /\ pc = [r \in Req |-> "new"]
  /\ tgt \in [Req -> Agent]
  /\ rec = [r \in Req |-> AbsentRow]
  /\ pid = [r \in Req |-> None]
  /\ verdict = [r \in Req |-> "stopped"]
  /\ procs = [a \in Agent |-> None]
  /\ orphan = [a \in Agent |-> None]
  /\ up = TRUE /\ crashes = 0
  /\ srv = [p \in Pid |-> "unborn"]
  /\ owner = [p \in Pid |-> CHOOSE a \in Agent : TRUE]
  /\ sentinel = {}
  /\ exposed = {}

-----------------------------------------------------------------------------
(* Every handler begins with registry.get_agent.                           *)
Read(r) ==
  /\ up /\ pc[r] = "new"
  /\ Serial /\ r \in Command => \A q \in Command : ~InProgress(q)
  /\ rec' = [rec EXCEPT ![r] = row[tgt[r]]]
  /\ Goto(r, "got")
  /\ UNCHANGED <<dbVars, tgt, pid, verdict, pmVars, srvVars, downVars>>

(* The early answers: 404, 409, and a start or stop with nothing to do.    *)
Refuse(r) ==
  /\ pc[r] = "got"
  /\ \/ rec[r].status = "absent"
     \/ r \in StartReqs /\ rec[r].status \in {"running", "starting"}
     \/ r \in StopReqs /\ rec[r].status \notin {"running", "starting"}
     \/ r \in DeleteReqs /\ rec[r].status = "running"
     \/ r \in StatusReqs /\ rec[r].status # "running"
  /\ Goto(r, "refused")
  /\ UNCHANGED <<dbVars, tgt, rec, pid, verdict, pmVars, srvVars, downVars>>

(* "database is locked": the request ends with a 500.                      *)
Busy(r) ==
  /\ \/ pc[r] = "mark"
     \/ /\ pc[r] = "got" /\ r \in StartReqs
        /\ rec[r].status \in {"stopped", "error"}
     \/ /\ pc[r] = "got" /\ r \in DeleteReqs
        /\ rec[r].status \notin {"absent", "running"}
  /\ lock \notin {NoReq, r} /\ Exists(tgt[r])
  /\ Goto(r, "failed")
  /\ UNCHANGED <<dbVars, tgt, rec, pid, verdict, pmVars, srvVars, downVars>>

-----------------------------------------------------------------------------
(* start_agent                                                             *)

(* Mutant: the status "starting" is committed at once.                     *)
StartMark_Commits(r) ==
  /\ r \in StartReqs /\ pc[r] = "got"
  /\ rec[r].status \in {"stopped", "error"}
  /\ CanWrite(tgt[r])
  /\ row' = IF Exists(tgt[r]) THEN [row EXCEPT ![tgt[r]].status = "starting"] ELSE row
  /\ Goto(r, "spawn")
  /\ UNCHANGED <<lock, tgt, rec, pid, verdict, pmVars, srvVars, downVars>>

(* update_status("starting"): written, not committed; nothing happens when *)
(* the row is gone.                                                        *)
StartMark(r) ==
  /\ r \in StartReqs /\ pc[r] = "got"
  /\ rec[r].status \in {"stopped", "error"}
  /\ CanWrite(tgt[r])
  /\ lock' = IF Exists(tgt[r]) THEN r ELSE lock
  /\ Goto(r, "spawn")
  /\ UNCHANGED <<row, tgt, rec, pid, verdict, pmVars, srvVars, downVars>>

(* Mutant: the process is not entered in _procs.                           *)
StartSpawn_NotRegistered(r) ==
  /\ pc[r] = "spawn"
  /\ \E p \in Pid :
       /\ srv[p] = "unborn" /\ \A q \in Pid : q < p => srv[q] # "unborn"
       /\ srv' = [srv EXCEPT ![p] = "boot"]
       /\ owner' = [owner EXCEPT ![p] = tgt[r]]
       /\ pid' = [pid EXCEPT ![r] = p]
  /\ Goto(r, "wait")
  /\ UNCHANGED <<dbVars, tgt, rec, verdict, pmVars, sentinel, downVars>>

(* AgentProcessManager.start, until its first poll for readiness.          *)
StartSpawn(r) ==
  /\ pc[r] = "spawn"
  /\ \E p \in Pid :
       /\ srv[p] = "unborn" /\ \A q \in Pid : q < p => srv[q] # "unborn"
       /\ srv' = [srv EXCEPT ![p] = "boot"]
       /\ owner' = [owner EXCEPT ![p] = tgt[r]]
       /\ procs' = [procs EXCEPT ![tgt[r]] = p]
       /\ pid' = [pid EXCEPT ![r] = p]
  /\ Goto(r, "wait")
  /\ UNCHANGED <<dbVars, tgt, rec, verdict, orphan, sentinel, downVars>>

(* Mutant: the session is not rolled back.                                 *)
StartSpawnFails_NoRollback(r) ==
  /\ pc[r] = "spawn"
  /\ Goto(r, "failed")
  /\ UNCHANGED <<dbVars, tgt, rec, pid, verdict, pmVars, srvVars, downVars>>

(* The session rolls back.                                                 *)
StartSpawnFails(r) ==
  /\ pc[r] = "spawn"
  /\ lock' = IF lock = r THEN NoReq ELSE lock
  /\ Goto(r, "failed")
  /\ UNCHANGED <<row, tgt, rec, pid, verdict, pmVars, srvVars, downVars>>

(* Mutant: an agent that is not ready in time is reported as an error.     *)
StartReady_TimeoutIsError(r) ==
  /\ pc[r] = "wait"
  /\ \/ tgt[r] \in sentinel /\ sentinel' = sentinel \ {tgt[r]}
     \/ UNCHANGED sentinel
  /\ verdict' = [verdict EXCEPT ![r] =
                   IF srv[pid[r]] = "serving" THEN "running" ELSE "error"]
  /\ PruneOrphan(tgt[r])
  /\ Goto(r, "commit")
  /\ UNCHANGED <<dbVars, tgt, rec, pid, procs, srv, owner, downVars>>

(* _wait_ready ends: with a ready file, which it removes; or with an       *)
(* answer to its ping, the death of the process, or after 30 seconds.      *)
(* What follows does not depend on which it was.                           *)
StartReady(r) ==
  /\ pc[r] = "wait"
  /\ \/ tgt[r] \in sentinel /\ sentinel' = sentinel \ {tgt[r]}
     \/ UNCHANGED sentinel
  /\ verdict' = [verdict EXCEPT ![r] = IF IsRunning(tgt[r]) THEN "running"
                                       ELSE "error"]
  /\ PruneOrphan(tgt[r])
  /\ Goto(r, "commit")
  /\ UNCHANGED <<dbVars, tgt, rec, pid, procs, srv, owner, downVars>>

StartCommit(r) ==
  /\ pc[r] = "commit"
  /\ IF Exists(tgt[r])
     THEN /\ row' = [row EXCEPT ![tgt[r]] =
                       [status |-> verdict[r], pid |-> pid[r]]]
          /\ lock' = NoReq
     ELSE UNCHANGED dbVars
  /\ Goto(r, "done")
  /\ UNCHANGED <<tgt, rec, pid, verdict, pmVars, srvVars, downVars>>

-----------------------------------------------------------------------------
(* stop_agent                                                              *)

(* AgentProcessManager.stop forgets the process before it terminates it.   *)
(* Terminating a child that has exited raises, unless the exit has not     *)
(* been noticed yet; a pid that is gone is tolerated.                      *)
StopBegin(r) ==
  /\ r \in StopReqs /\ pc[r] = "got"
  /\ rec[r].status \in {"running", "starting"}
  /\ LET a == tgt[r]
         p == IF procs[a] # None THEN procs[a]
              ELSE IF orphan[a] # None THEN orphan[a] ELSE rec[r].pid
     IN  /\ pid' = [pid EXCEPT ![r] = p]
         /\ procs' = [procs EXCEPT ![a] = None]
         /\ orphan' = [orphan EXCEPT ![a] = None]
         /\ \/ (procs[a] # None \/ Live(p)) /\ Goto(r, "term")
            \/ procs[a] # None /\ ~Live(p) /\ Goto(r, "failed")
            \/ procs[a] = None /\ ~Live(p) /\ Goto(r, "mark")
  /\ UNCHANGED <<dbVars, tgt, rec, verdict, srvVars, downVars>>

StopExited(r) ==
  /\ pc[r] = "term" /\ ~Live(pid[r])
  /\ Goto(r, "mark")
  /\ UNCHANGED <<dbVars, tgt, rec, pid, verdict, pmVars, srvVars, downVars>>

(* Mutant: SIGTERM is not followed by SIGKILL.                             *)
StopKill_TermOnly(r) ==
  /\ pc[r] = "term" /\ Live(pid[r])
  /\ Goto(r, "mark")
  /\ UNCHANGED <<dbVars, tgt, rec, pid, verdict, pmVars, srvVars, downVars>>

(* Mutant: the wait for the process to exit has no timeout.                *)
StopKill_NoTimeout(r) ==
  /\ pc[r] = "term" /\ ~Live(pid[r])
  /\ Goto(r, "mark")
  /\ UNCHANGED <<dbVars, tgt, rec, pid, verdict, pmVars, srvVars, downVars>>

(* Five seconds after SIGTERM: SIGKILL.                                    *)
StopKill(r) ==
  /\ pc[r] = "term" /\ Live(pid[r])
  /\ srv' = [srv EXCEPT ![pid[r]] = "dead"]
  /\ Goto(r, "mark")
  /\ UNCHANGED <<dbVars, tgt, rec, pid, verdict, pmVars, owner, sentinel,
                 downVars>>

(* Mutant: the update inserts a row that is missing.                       *)
MarkStopped_Upsert(r) ==
  /\ pc[r] = "mark" /\ CanWrite(tgt[r])
  /\ row' = [row EXCEPT ![tgt[r]] = StoppedRow]
  /\ Goto(r, "done")
  /\ UNCHANGED <<lock, tgt, rec, pid, verdict, pmVars, srvVars, downVars>>

(* update_status("stopped", pid=None) and commit, for stop and for status. *)
MarkStopped(r) ==
  /\ pc[r] = "mark" /\ CanWrite(tgt[r])
  /\ row' = IF Exists(tgt[r]) THEN [row EXCEPT ![tgt[r]] = StoppedRow] ELSE row
  /\ Goto(r, "done")
  /\ UNCHANGED <<lock, tgt, rec, pid, verdict, pmVars, srvVars, downVars>>

-----------------------------------------------------------------------------
(* delete_agent and agent_status                                           *)

DeleteRow(r) ==
  /\ r \in DeleteReqs /\ pc[r] = "got"
  /\ rec[r].status \notin {"absent", "running"}
  /\ CanWrite(tgt[r])
  /\ row' = [row EXCEPT ![tgt[r]] = AbsentRow]
  /\ Goto(r, "done")
  /\ UNCHANGED <<lock, tgt, rec, pid, verdict, pmVars, srvVars, downVars>>

StatusCheck(r) ==
  /\ r \in StatusReqs /\ pc[r] = "got" /\ rec[r].status = "running"
  /\ Goto(r, IF IsRunning(tgt[r]) THEN "done" ELSE "mark")
  /\ PruneOrphan(tgt[r])
  /\ UNCHANGED <<dbVars, tgt, rec, pid, verdict, procs, srvVars, downVars>>

-----------------------------------------------------------------------------
(* The control plane dies with its requests and its memory; its sessions   *)
(* roll back; the agent servers live on.                                   *)
Crash ==
  /\ up /\ crashes < MaxCrash
  /\ up' = FALSE /\ crashes' = crashes + 1
  /\ pc' = [r \in Req |-> IF InProgress(r) THEN "lost" ELSE pc[r]]
  /\ lock' = NoReq
  /\ procs' = [a \in Agent |-> None]
  /\ orphan' = [a \in Agent |-> None]
  /\ exposed' = exposed \cup {p \in Pid : \E r \in Req :
                    pid[r] = p /\ pc[r] \in {"wait", "commit"}}
  /\ UNCHANGED <<row, tgt, rec, pid, verdict, srvVars>>

(* Mutant: recovery keeps the rows but does not note the pids.             *)
Recover_ForgetsPids ==
  /\ ~up /\ up' = TRUE
  /\ LET Alive(a) == row[a].status = "running" /\ Live(row[a].pid) IN
       row' = [a \in Agent |->
                 IF row[a].status = "running" /\ ~Alive(a) THEN StoppedRow
                 ELSE row[a]]
  /\ UNCHANGED <<lock, reqVars, pmVars, srvVars, crashes, exposed>>

(* lifespan and recover_running_agents: rows that say running are checked  *)
(* against the operating system before any request is served.              *)
Recover ==
  /\ ~up /\ up' = TRUE
  /\ LET Alive(a) == row[a].status = "running" /\ Live(row[a].pid) IN
       /\ orphan' = [a \in Agent |-> IF Alive(a) THEN row[a].pid ELSE None]
       /\ row' = [a \in Agent |->
                    IF row[a].status = "running" /\ ~Alive(a) THEN StoppedRow
                    ELSE row[a]]
  /\ UNCHANGED <<lock, reqVars, procs, srvVars, crashes, exposed>>

-----------------------------------------------------------------------------
(* The agent servers (grpc_server/server.py, serve).                       *)

ServerOpens(p) ==
  /\ srv[p] = "boot"
  /\ srv' = [srv EXCEPT ![p] = "open"]
  /\ UNCHANGED <<dbVars, reqVars, pmVars, owner, sentinel, downVars>>

ServerWritesSentinel(p) ==
  /\ srv[p] = "open"
  /\ srv' = [srv EXCEPT ![p] = "serving"]
  /\ sentinel' = sentinel \cup {owner[p]}
  /\ UNCHANGED <<dbVars, reqVars, pmVars, owner, downVars>>

ServerExits(p) ==
  /\ Live(p)
  /\ srv' = [srv EXCEPT ![p] = "dead"]
  /\ UNCHANGED <<dbVars, reqVars, pmVars, owner, sentinel, downVars>>

-----------------------------------------------------------------------------
ServerStep(p) == ServerOpens(p) \/ ServerWritesSentinel(p) \/ ServerExits(p)

Handle(r) == \/ Refuse(r) \/ Busy(r)
             \/ StartMark(r) \/ StartSpawn(r) \/ StartSpawnFails(r)
             \/ StartReady(r) \/ StartCommit(r)
             \/ StopBegin(r) \/ StopExited(r) \/ StopKill(r) \/ MarkStopped(r)
             \/ DeleteRow(r) \/ StatusCheck(r)

Next == \/ \E r \in Req : Read(r) \/ Handle(r)
        \/ Crash \/ Recover
        \/ \E p \in Pid : ServerStep(p)

Spec == Init /\ [][Next]_vars

(* The event loop runs handlers that are ready, timers fire (readiness     *)
(* timeout, kill grace, lock timeout), and a dead control plane is         *)
(* restarted.  Nothing is assumed of the agent servers or of the clients.  *)
Fairness == (\A r \in Req : WF_vars(Handle(r))) /\ WF_vars(Recover)

LiveSpec == Spec /\ Fairness

-----------------------------------------------------------------------------
(* Properties                                                              *)

(* The state is well typed, component by component.  A committed row never *)
(* says "starting": start writes that status and overwrites it in one      *)
(* transaction.                                                            *)
DbType ==
  /\ row \in [Agent -> [status : Status \ {"starting"}, pid : 0 .. MaxPid]]
  /\ lock \in StartReqs \cup {NoReq}

ReqType ==
  /\ pc \in [Req -> ReqPC] /\ tgt \in [Req -> Agent] /\ rec \in [Req -> Row]
  /\ pid \in [Req -> 0 .. MaxPid]
  /\ verdict \in [Req -> {"stopped", "running", "error"}]

ManagerType ==
  procs \in [Agent -> 0 .. MaxPid] /\ orphan \in [Agent -> 0 .. MaxPid]

ServerType ==
  /\ srv \in [Pid -> SrvState] /\ owner \in [Pid -> Agent]
  /\ sentinel \subseteq Agent

DownType == up \in BOOLEAN /\ crashes \in 0 .. MaxCrash /\ exposed \subseteq Pid

TypeOK == DbType /\ ReqType /\ ManagerType /\ ServerType /\ DownType

(* The servers somebody answers for: the process manager, a handler that   *)
(* is terminating them, or, while the control plane is down, the row that  *)
(* recovery will read.                                                     *)
Tracked(p) ==
  \/ p \in {procs[owner[p]], orphan[owner[p]]}
  \/ \E r \in StopReqs : pc[r] = "term" /\ pid[r] = p
  \/ ~up /\ row[owner[p]] = [status |-> "running", pid |-> p]

(* Clients that wait for their answers lose no server: each one that runs  *)
(* is tracked, except those a crash of the control plane caught while a    *)
(* start was waiting for them.                                             *)
NoServerLost == \A p \in Pid : Live(p) => p \in exposed \/ Tracked(p)

Quiet(a) == up /\ \A r \in Command : tgt[r] = a => ~InProgress(r)

(* README, Agent Lifecycle: "`stopped` - no pi subprocess running" and     *)
(* "`error` - subprocess exited unexpectedly".  When no start, stop or     *)
(* delete of the agent is in progress, an agent that is stopped, in error  *)
(* or deleted has no server, which nobody could stop any more, crashes in  *)
(* mid-start aside.                                                        *)
IdleRowsHaveNoServer ==
  \A a \in Agent : Quiet(a) /\ row[a].status # "running" =>
    \A p \in Pid : Live(p) /\ owner[p] = a => p \in exposed

(* A running agent can be stopped: if the process its row names lives, the *)
(* process manager knows it, through restarts of the control plane.        *)
RunningIsKnown ==
  \A a \in Agent :
    Quiet(a) /\ row[a].status = "running" /\ Live(row[a].pid) =>
      IsRunning(a) /\ row[a].pid \in {procs[a], orphan[a]}

(* A stop that answered 200 has seen its process die, whatever ran beside  *)
(* it: other stops of the same process, polls, a delete or a start.        *)
StopMeansDead ==
  \A r \in StopReqs : pc[r] = "done" => pid[r] = None \/ ~Live(pid[r])

(* The write lock is only ever held by a start that is on its way to a     *)
(* commit or a rollback: no failed, refused or crashed request keeps the   *)
(* database locked, and no two starts spawn under it at once.              *)
LockHeldByStart ==
  /\ lock # NoReq => up /\ pc[lock] \in {"spawn", "wait", "commit"}
  /\ \A r \in StartReqs :
       pc[r] \in {"spawn", "wait", "commit"} /\ Exists(tgt[r]) => lock = r

(* A stop frees nothing that another start brought up: the process that a  *)
(* running row names belongs to the start that committed it.               *)
RunningPidWasSpawned ==
  \A a \in Agent : row[a].status \in {"running", "error"} =>
    \E r \in StartReqs : /\ pid[r] = row[a].pid /\ tgt[r] = a
                         /\ pid[r] # None /\ owner[pid[r]] = a

(* A status of "running" or "error" appears only where a start commits its *)
(* own process, and an agent that was deleted never comes back.            *)
RowsChangeByRule ==
  [][\A a \in Agent :
       /\ row[a].status = "absent" => row'[a].status = "absent"
       /\ row'[a] # row[a] /\ row'[a].status \in {"running", "error"} =>
            \E r \in StartReqs : /\ lock = r /\ lock' = NoReq
                                 /\ row'[a].pid = pid[r] /\ tgt[r] = a]_vars

(* Clients that wait get what AgentService promises: one server for an     *)
(* agent, rows that tell the truth about it, and crashes that cost at most *)
(* the one server that was being started.                                  *)
RunsFor(a) == {p \in Pid : Live(p) /\ owner[p] = a /\ p \notin exposed}
Strays     == {p \in exposed : Live(p)}
Spawned    == {p \in Pid : srv[p] # "unborn"}

Service == INSTANCE AgentService WITH
             Server <- Pid, NoServer <- None,
             status <- [a \in Agent |-> row[a].status],
             named <- [a \in Agent |-> row[a].pid],
             running <- [a \in Agent |-> RunsFor(a)],
             stray <- Strays, born <- Spawned

ImplementsService == Service!Spec

(* Every request is answered, or lost with the control plane: waits for    *)
(* readiness, for a process to exit and for the lock are all bounded.      *)
RequestsEnd == \A r \in Req : InProgress(r) ~> pc[r] \in Ended

(* README, Architecture: "one process per agent".                          *)
OneServerPerAgent ==
  \A p, q \in Pid : Live(p) /\ Live(q) /\ owner[p] = owner[q] => p = q
=============================================================================
