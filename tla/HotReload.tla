------------------------------ MODULE HotReload ------------------------------
(***************************************************************************)
(* How an edit of an agent's skills or extensions reaches its pi: the      *)
(* handlers that write the file and queue a reload                         *)
(* (control_plane/routers/agents.py), the hot_reload queue                 *)
(* (honker/_queues.py), its worker (honker/_workers.py, run_reload_worker),*)
(* the Reload RPC (grpc_server/client.py, servicer.py) and the restart of  *)
(* pi (agent/pi_agent.py), for one agent.                                  *)
(*                                                                         *)
(* The agent's row, its server and the handlers that start and stop it are *)
(* as in AgentLifecycle, reduced to what an edit and a reload can see of   *)
(* them: one start or stop at a time, and one server: the start of another *)
(* beside a server that still serves is left to AgentLifecycle.  Honker is *)
(* external: a job is handed out to a claim, hidden for the visibility     *)
(* timeout, and handed out again when that has passed without an answer;   *)
(* an answer that comes later than that is ignored.  It writes to the same *)
(* SQLite file through a connection of its own, on the event loop: a write *)
(* that finds the lock taken keeps the coroutine that holds the lock from  *)
(* running, and fails.                                                     *)
(***************************************************************************)
EXTENDS Naturals

CONSTANTS Edit,         \* requests that add or remove a skill or an extension
          NoJob,        \* "no job"
          MaxAttempts,  \* max_attempts of the hot_reload queue
          MaxStarts,    \* bound: starts, of this agent and of others
          MaxCrash      \* bound: crashes of the control plane

ASSUME HotReloadAssumption ==
  /\ NoJob \notin Edit
  /\ MaxAttempts \in Nat \ {0}
  /\ MaxStarts \in Nat /\ MaxCrash \in Nat

VARIABLES
  disk,     \* the edits written to the workspace
  epc,      \* epc[e]: where the handler of e is
  seen,     \* seen[e]: the status in the row that e's handler read
  crossed,  \* history: the edits whose handler overlapped a start
  job,      \* job[e]: the state of the job e queued
  tries,    \* tries[e]: how often it was handed out, counted to MaxAttempts
  late,     \* the jobs whose claim has outlived the visibility timeout
  worker,   \* where run_reload_worker is in its loop and in its Reload
  wjob,     \* the job it works on
  status,   \* the status in the agent's row, as committed
  lock,     \* whose start holds the database's write lock
  ctl,      \* where the start or stop handler of the agent is
  poll,     \* whether an agent_status has found the server dead and is yet
            \* to write stopped
  server,   \* the agent server
  pi,       \* self._proc of the agent server: whether it has a live pi
  loaded,   \* the edits that pi found in the workspace when it began
  died,     \* history: whether pi went away by itself, not for a Reload
  forgotten,\* history: whether the row lost this server, to a late poll or to
            \* a crash while it was being started
  up,       \* whether the control plane runs
  starts, crashes  \* what the bounds count

editVars  == <<disk, epc, seen, crossed>>
queueVars == <<job, tries, late>>
workVars  == <<worker, wjob>>
rowVars   == <<status, lock, ctl, poll>>
piVars    == <<server, pi, loaded, died, forgotten>>
downVars  == <<up, crashes>>
vars == <<editVars, queueVars, workVars, rowVars, piVars, downVars, starts>>

-----------------------------------------------------------------------------
EditPC   == {"new", "got", "done", "refused", "lost"}
Status   == {"stopped", "running", "error"}
JobState == {"none", "failed", "pending", "claimed", "acked", "dead"}
WorkerPC == {"idle", "calling", "stopped", "spawned", "ok", "notok",
             "crashed", "down"}

(* The worker has a job in hand, and its Reload is inside restart().       *)
Working    == worker \in {"calling", "stopped", "spawned", "ok", "notok"}
Restarting == worker \in {"stopped", "spawned"}

(* The jobs a claim may return.  A delay after a retry only postpones it.  *)
Due(e) == \/ job[e] = "pending"
          \/ job[e] = "claimed" /\ e \in late

Init ==
  /\ disk = {} /\ loaded = {}
  /\ epc = [e \in Edit |-> "new"]
  /\ seen = [e \in Edit |-> "stopped"] /\ crossed = {}
  /\ job = [e \in Edit |-> "none"]
  /\ tries = [e \in Edit |-> 0]
  /\ late = {}
  /\ worker = "idle" /\ wjob = NoJob
  /\ status = "stopped" /\ lock = "free" /\ ctl = "idle" /\ poll = FALSE
  /\ server = "down" /\ pi = "down" /\ died = FALSE /\ forgotten = FALSE
  /\ up = TRUE
  /\ starts = 0 /\ crashes = 0

-----------------------------------------------------------------------------
(* add_skill, remove_skill, add_extension, remove_extension                *)

EditRead(e) ==
  /\ up /\ epc[e] = "new"
  /\ seen' = [seen EXCEPT ![e] = status]
  /\ epc' = [epc EXCEPT ![e] = "got"]
  /\ crossed' = IF ctl = "starting" THEN crossed \cup {e} ELSE crossed
  /\ UNCHANGED <<disk, queueVars, workVars, rowVars, piVars, downVars, starts>>

(* 404: no such agent, or nothing of that name to remove.                  *)
EditRefuse(e) ==
  /\ epc[e] = "got"
  /\ epc' = [epc EXCEPT ![e] = "refused"]
  /\ UNCHANGED <<disk, seen, crossed, queueVars, workVars, rowVars, piVars,
                 downVars, starts>>

(* _hot_reload: a job if the row said running; an enqueue that fails is    *)
(* logged.                                                                 *)
QueueReload(e) ==
  job' = [job EXCEPT ![e] = IF seen[e] # "running" THEN "none"
                            ELSE IF lock # "free" THEN "failed"
                            ELSE "pending"]

(* Mutant: the reload is queued only when a reload is not queued already.  *)
EditWrite_Coalesced(e) ==
  /\ epc[e] = "got"
  /\ disk' = disk \cup {e}
  /\ IF \E f \in Edit : job[f] \in {"pending", "claimed"}
     THEN UNCHANGED job ELSE QueueReload(e)
  /\ epc' = [epc EXCEPT ![e] = "done"]
  /\ UNCHANGED <<seen, crossed, tries, late, workVars, rowVars, piVars, downVars,
                 starts>>

(* The file and then the job, with no await in between.                    *)
EditWrite(e) ==
  /\ epc[e] = "got"
  /\ disk' = disk \cup {e}
  /\ QueueReload(e)
  /\ epc' = [epc EXCEPT ![e] = "done"]
  /\ UNCHANGED <<seen, crossed, tries, late, workVars, rowVars, piVars, downVars,
                 starts>>

-----------------------------------------------------------------------------
(* run_reload_worker and the hot_reload queue                              *)

Claim(e) ==
  /\ worker = "idle" /\ Due(e) /\ lock = "free"
  /\ job' = [job EXCEPT ![e] = "claimed"]
  /\ tries' = [tries EXCEPT ![e] = IF @ = MaxAttempts THEN @ ELSE @ + 1]
  /\ late' = late \ {e}
  /\ worker' = "calling" /\ wjob' = e
  /\ UNCHANGED <<editVars, rowVars, piVars, downVars, starts>>

(* "Reload worker crashed": a claim that raises ends the loop for good.    *)
ClaimFails ==
  /\ worker = "idle" /\ lock # "free"
  /\ worker' = "crashed"
  /\ UNCHANGED <<editVars, queueVars, wjob, rowVars, piVars, downVars,
                 starts>>

(* Reload reaches the server: restart() stops pi,                          *)
ReloadStops ==
  /\ worker = "calling" /\ server = "serving"
  /\ pi' = "down" /\ died' = FALSE
  /\ worker' = "stopped"
  /\ UNCHANGED <<editVars, queueVars, wjob, rowVars, server, loaded, forgotten,
                 downVars, starts>>

(* ... and starts another in the same workspace.                           *)
ReloadSpawns ==
  /\ worker = "stopped"
  /\ pi' = "up" /\ loaded' = disk /\ died' = FALSE
  /\ worker' = "spawned"
  /\ UNCHANGED <<editVars, queueVars, wjob, rowVars, server, forgotten, downVars,
                 starts>>

(* Mutant: start() swallows the exception and the Reload answers ok.       *)
ReloadSpawnFails_Swallowed ==
  /\ worker = "stopped"
  /\ worker' = "ok"
  /\ UNCHANGED <<editVars, queueVars, wjob, rowVars, piVars, downVars,
                 starts>>

ReloadSpawnFails ==
  /\ worker = "stopped"
  /\ worker' = "notok"
  /\ UNCHANGED <<editVars, queueVars, wjob, rowVars, piVars, downVars,
                 starts>>

ReloadAnswers ==
  /\ worker = "spawned"
  /\ worker' = "ok"
  /\ UNCHANGED <<editVars, queueVars, wjob, rowVars, piVars, downVars,
                 starts>>

(* ChibuClient.reload returns False: nobody listens, or 30 seconds are     *)
(* over and the RPC is cancelled where it stands.                          *)
ReloadFails ==
  /\ worker \in {"calling", "stopped", "spawned"}
  /\ worker' = "notok"
  /\ UNCHANGED <<editVars, queueVars, wjob, rowVars, piVars, downVars,
                 starts>>

(* The worker goes back to its claim.                                      *)
NextJob == worker' = "idle" /\ wjob' = NoJob

Ack ==
  /\ worker = "ok" /\ lock = "free"
  /\ job' = IF wjob \in late THEN job ELSE [job EXCEPT ![wjob] = "acked"]
  /\ NextJob
  /\ UNCHANGED <<editVars, tries, late, rowVars, piVars, downVars, starts>>

(* Mutant: the job is acknowledged however the reload went.                *)
Retry_Acks ==
  /\ worker = "notok" /\ lock = "free"
  /\ job' = IF wjob \in late THEN job ELSE [job EXCEPT ![wjob] = "acked"]
  /\ NextJob
  /\ UNCHANGED <<editVars, tries, late, rowVars, piVars, downVars, starts>>

(* Mutant: one attempt less than max_attempts.                            *)
Retry_OffByOne ==
  /\ worker = "notok" /\ lock = "free"
  /\ job' = IF wjob \in late THEN job
            ELSE [job EXCEPT ![wjob] = IF tries[wjob] >= MaxAttempts - 1
                                       THEN "dead" ELSE "pending"]
  /\ NextJob
  /\ UNCHANGED <<editVars, tries, late, rowVars, piVars, downVars, starts>>

(* job.retry: back to the queue, or dead after the last attempt.           *)
Retry ==
  /\ worker = "notok" /\ lock = "free"
  /\ job' = IF wjob \in late THEN job
            ELSE [job EXCEPT ![wjob] = IF tries[wjob] >= MaxAttempts
                                       THEN "dead" ELSE "pending"]
  /\ NextJob
  /\ UNCHANGED <<editVars, tries, late, rowVars, piVars, downVars, starts>>

(* The ack or the retry raises, the retry in the except clause raises too, *)
(* and that ends the loop.                                                 *)
SettleFails ==
  /\ worker \in {"ok", "notok"} /\ lock # "free"
  /\ worker' = "crashed" /\ wjob' = NoJob
  /\ UNCHANGED <<editVars, queueVars, rowVars, piVars, downVars, starts>>

(* What the worker does takes longer than the visibility timeout.          *)
OutliveClaim ==
  /\ Working /\ wjob \notin late
  /\ late' = late \cup {wjob}
  /\ UNCHANGED <<editVars, job, tries, workVars, rowVars, piVars, downVars, starts>>

(* Mutant: a claim has no visibility timeout.                              *)
ClaimExpires_Never(e) == FALSE /\ Due(e) /\ UNCHANGED vars

(* The claim of a worker that is gone.                                     *)
ClaimExpires(e) ==
  /\ job[e] = "claimed" /\ e # wjob /\ e \notin late
  /\ late' = late \cup {e}
  /\ UNCHANGED <<editVars, job, tries, workVars, rowVars, piVars, downVars,
                 starts>>

-----------------------------------------------------------------------------
(* start_agent and stop_agent                                              *)

(* The row is written, not committed; the server is spawned.               *)
StartBegin ==
  /\ up /\ ctl = "idle" /\ starts < MaxStarts
  /\ status # "running" /\ lock = "free" /\ server = "down"
  /\ ctl' = "starting" /\ lock' = "own"
  /\ server' = "boot" /\ forgotten' = FALSE
  /\ crossed' = crossed \cup {e \in Edit : epc[e] = "got"}
  /\ starts' = starts + 1
  /\ UNCHANGED <<disk, epc, seen, queueVars, workVars, status, poll, pi, loaded,
                 died, downVars>>

(* serve(): pi first, then the port.                                       *)
ServerOpens ==
  /\ server = "boot"
  /\ server' = "serving"
  /\ pi' = "up" /\ loaded' = disk /\ died' = FALSE
  /\ UNCHANGED <<editVars, queueVars, workVars, rowVars, forgotten, downVars,
                 starts>>

(* The server is ready, or dead, or 30 seconds are over.                   *)
StartCommit ==
  /\ ctl = "starting"
  /\ status' = IF server = "down" THEN "error" ELSE "running"
  /\ lock' = "free" /\ ctl' = "idle"
  /\ UNCHANGED <<editVars, queueVars, workVars, poll, piVars, downVars, starts>>

(* SIGTERM, and the server is gone; it may let a Reload under way answer.  *)
(* The request may fail at once when the server has died before.           *)
StopServer ==
  /\ up /\ ctl = "idle" /\ status = "running"
  /\ \/ ctl' = "stopping"
     \/ server = "down" /\ UNCHANGED ctl
  /\ server' = "down" /\ pi' = "down"
  /\ IF Restarting THEN worker' \in {"ok", "notok"} ELSE UNCHANGED worker
  /\ UNCHANGED <<editVars, queueVars, wjob, status, lock, poll, loaded, died,
                 forgotten, downVars, starts>>

(* update_status("stopped"), which fails when the database is locked.      *)
StopMark ==
  /\ ctl = "stopping"
  /\ status' = IF lock = "free" THEN "stopped" ELSE status
  /\ ctl' = "idle"
  /\ UNCHANGED <<editVars, queueVars, workVars, lock, poll, piVars, downVars,
                 starts>>

(* agent_status, up to its first write: any number of polls may find that  *)
(* the server has died.                                                    *)
PollFinds ==
  /\ up /\ status = "running" /\ server = "down"
  /\ poll' = TRUE
  /\ UNCHANGED <<editVars, queueVars, workVars, status, lock, ctl, piVars,
                 downVars, starts>>

(* One of them writes what it found, over whatever the row says by now, or *)
(* fails when the database is locked; others may be behind it.             *)
PollWrites ==
  /\ poll /\ poll' \in BOOLEAN
  /\ IF lock = "free"
     THEN status' = "stopped" /\ forgotten' = (forgotten \/ server # "down")
     ELSE UNCHANGED <<status, forgotten>>
  /\ UNCHANGED <<editVars, queueVars, workVars, lock, ctl, server, pi, loaded,
                 died, downVars, starts>>

(* The start of another agent holds the lock for as long as it waits.      *)
OtherStart ==
  /\ up /\ lock = "free" /\ starts < MaxStarts
  /\ lock' = "other" /\ starts' = starts + 1
  /\ UNCHANGED <<editVars, queueVars, workVars, status, ctl, poll, piVars, downVars>>

OtherCommit ==
  /\ lock = "other"
  /\ lock' = "free"
  /\ UNCHANGED <<editVars, queueVars, workVars, status, ctl, poll, piVars,
                 downVars, starts>>

-----------------------------------------------------------------------------
(* What dies by itself                                                     *)

ServerDies ==
  /\ server # "down"
  /\ server' = "down" /\ pi' = "down"
  /\ worker' = IF Restarting THEN "notok" ELSE worker
  /\ UNCHANGED <<editVars, queueVars, wjob, rowVars, loaded, died, forgotten,
                 downVars, starts>>

PiDies ==
  /\ pi = "up"
  /\ pi' = "down" /\ died' = TRUE
  /\ UNCHANGED <<editVars, queueVars, workVars, rowVars, server, loaded, forgotten,
                 downVars, starts>>

(* The control plane goes: its handlers, its sessions and its worker with  *)
(* it, and the Reload is cancelled where it stands.  A start under way is  *)
(* rolled back, but its server boots and serves.                           *)
Crash ==
  /\ up /\ crashes < MaxCrash
  /\ up' = FALSE /\ crashes' = crashes + 1
  /\ epc' = [e \in Edit |-> IF epc[e] = "got" THEN "lost" ELSE epc[e]]
  /\ ctl' = "idle" /\ lock' = "free" /\ poll' = FALSE
  /\ forgotten' = (forgotten \/ (ctl = "starting" /\ server # "down"))
  /\ worker' = "down" /\ wjob' = NoJob
  /\ UNCHANGED <<disk, seen, crossed, queueVars, status, server, pi, loaded, died,
                 starts>>

(* lifespan: the row of a server that has died is corrected.               *)
Recover ==
  /\ ~up
  /\ up' = TRUE
  /\ status' = IF status = "running" /\ server = "down" THEN "stopped"
               ELSE status
  /\ worker' = "idle"
  /\ UNCHANGED <<editVars, queueVars, wjob, lock, ctl, poll, piVars, crashes,
                 starts>>

-----------------------------------------------------------------------------
Edits  == \E e \in Edit : EditRead(e) \/ EditRefuse(e) \/ EditWrite(e)
Worker == \/ \E e \in Edit : Claim(e)
          \/ ReloadStops \/ ReloadSpawns \/ ReloadAnswers \/ Ack \/ Retry
Slips  == \/ ClaimFails \/ ReloadSpawnFails \/ ReloadFails \/ SettleFails
          \/ OutliveClaim
Starts == \/ StartBegin \/ ServerOpens \/ StartCommit \/ StopServer \/ StopMark
          \/ PollFinds \/ PollWrites \/ OtherStart \/ OtherCommit
Deaths == ServerDies \/ PiDies \/ Crash \/ Recover

Next == \/ Edits \/ Worker \/ Slips \/ Starts \/ Deaths
        \/ \E e \in Edit : ClaimExpires(e)

Spec == Init /\ [][Next]_vars

(* The worker's loop and the calls it awaits end, each with a timeout of   *)
(* its own; so do starts and stops.  A claim of a worker that is gone      *)
(* expires, and a control plane that crashed is started again.  Nothing    *)
(* obliges a client to send, pi or the server to die, or a reload to be    *)
(* slow; whether a Reload succeeds is left open.                           *)
Fairness ==
  /\ \A e \in Edit : WF_vars(Claim(e)) /\ WF_vars(ClaimExpires(e))
  /\ WF_vars(ReloadStops \/ ReloadFails) /\ WF_vars(ReloadSpawns \/ ReloadFails)
  /\ WF_vars(ReloadAnswers) /\ WF_vars(Ack) /\ WF_vars(Retry)
  /\ WF_vars(StartCommit) /\ WF_vars(OtherCommit) /\ WF_vars(StopMark)
  /\ WF_vars(Recover)

LiveSpec == Spec /\ Fairness

-----------------------------------------------------------------------------
(* Properties                                                              *)

(* Each variable has its type.                                             *)
TypeOK ==
  /\ disk \subseteq Edit /\ loaded \subseteq disk
  /\ epc \in [Edit -> EditPC] /\ seen \in [Edit -> Status] /\ crossed \subseteq Edit
  /\ job \in [Edit -> JobState] /\ tries \in [Edit -> 0 .. MaxAttempts]
  /\ late \subseteq Edit
  /\ worker \in WorkerPC /\ wjob \in Edit \cup {NoJob}
  /\ status \in Status /\ lock \in {"free", "own", "other"}
  /\ ctl \in {"idle", "starting", "stopping"} /\ poll \in BOOLEAN
  /\ server \in {"down", "boot", "serving"} /\ pi \in {"down", "up"}
  /\ died \in BOOLEAN /\ forgotten \in BOOLEAN /\ up \in BOOLEAN
  /\ starts \in 0 .. MaxStarts /\ crashes \in 0 .. MaxCrash

(* An edit that the running pi does not know has a reload to come, or its  *)
(* job died after its last attempt, or it could not be queued, or its      *)
(* handler decided on a row that did not say running.  The last happens    *)
(* only to a handler that overlaps a start of the agent, or when the row   *)
(* has lost a server that serves: to a poll that wrote stopped too late,   *)
(* or to a crash in the middle of its start.  So an acknowledged job means *)
(* that pi began after the edit, across retries, late answers, crashes and *)
(* restarts of either side.                                                *)
StaleHasACause ==
  \A e \in disk :
    pi = "up" /\ e \notin loaded =>
      \/ job[e] \in {"pending", "claimed", "dead", "failed"}
      \/ seen[e] # "running" /\ (e \in crossed \/ forgotten)

(* An agent that serves without a pi lost it by itself, or to a Reload     *)
(* that failed half way and whose job is still to be delivered again or    *)
(* is out of attempts: no answer is given for a restart that left no pi.   *)
NoPiMeansReloadDue ==
  server = "serving" /\ pi = "down" /\ ~died =>
    \E e \in Edit : job[e] \in {"pending", "claimed", "dead"}

(* The pipeline gives the author of an edit what EditPromise promises: a    *)
(* job that leaves the queue was carried out for its edit or used all its  *)
(* attempts, through retries, late answers, crashes and restarts.          *)
PromiseOf(e) == CASE job[e] \in {"none", "failed"} -> "none"
                  [] job[e] \in {"pending", "claimed"} -> "open"
                  [] job[e] = "acked" -> "kept"
                  [] job[e] = "dead" -> "broken"

Promise == INSTANCE EditPromise WITH
             Job <- Edit,
             promise <- [e \in Edit |-> PromiseOf(e)], attempts <- tries,
             written <- disk, known <- loaded

ImplementsPromise == Promise!Spec

(* A queued reload is carried out or given up after its attempts, unless   *)
(* the worker ends on an error of the database, or claims are outlived by  *)
(* what their worker does again and again: a Reload may take 30 seconds,   *)
(* the visibility timeout is 20, so a server that always hangs has its job *)
(* redelivered for ever.                                                   *)
JobsSettle ==
  \/ []<>(wjob \in late)
  \/ \A e \in Edit :
       job[e] = "pending" ~> job[e] \in {"acked", "dead"} \/ worker = "crashed"
=============================================================================
