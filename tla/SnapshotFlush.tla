---------------------------- MODULE SnapshotFlush ----------------------------
(***************************************************************************)
(* How the registry reaches the agent servers: the handlers that change    *)
(* the agents' rows and announce the change (create_agent, delete_agent    *)
(* and start_agent of control_plane/routers/agents.py, _record_event of    *)
(* registry/agent_registry.py), the snapshot queue (honker/_queues.py) and *)
(* its worker (honker/_workers.py, run_snapshot_worker), the snapshot file *)
(* (process/manager.py, write_registry_snapshot) and the agent servers     *)
(* that load it (grpc_server/server.py).                                   *)
(*                                                                         *)
(* A request announces its change while its session still holds the write  *)
(* lock of the database, through a connection that needs that lock.  The   *)
(* honker library is external and as in HotReload: a write of its own that *)
(* finds the lock taken fails, a job is handed out again when its claim    *)
(* has passed the visibility timeout, an answer that comes later than that *)
(* is ignored.  An agent's record is named by the request that created it. *)
(***************************************************************************)
EXTENDS Naturals, Sequences

CONSTANTS Agent,               \* agent ids
          Create, Delete, Start,  \* the requests
          Target,              \* Target[r]: the agent that r is about
          NoRecord,            \* "the agent has no record"
          Nobody,              \* no request
          MaxAttempts,         \* max_attempts of the snapshot queue
          MaxSlow,             \* bound: claims outlived by their worker
          MaxCrash             \* bound: crashes of the control plane

Req == Create \cup Delete \cup Start

ASSUME SnapshotAssumption ==
  /\ Target \in [Req -> Agent]
  /\ Nobody \notin Req /\ NoRecord \notin Create
  /\ Create \cap (Delete \cup Start) = {} /\ Delete \cap Start = {}
  /\ MaxAttempts \in Nat \ {0} /\ MaxSlow \in Nat /\ MaxCrash \in Nat

VARIABLES
  hist,     \* the committed contents of the agents table, oldest first
  lock,     \* the request whose session holds the write lock
  pc,       \* pc[r]: where the handler of r is
  missed,   \* history: the requests that found their agent gone
  events,   \* the requests whose change is in the event stream
  job,      \* job[r]: the state of the flush job that r queued
  since,    \* history, since[r]: how many contents there were by then
  tries,    \* tries[r]: how often it was handed out, counted to MaxAttempts
  late,     \* the jobs whose claim has passed the visibility timeout
  worker,   \* where run_snapshot_worker is in its loop
  wjob,     \* the job it works on
  buf,      \* the rows it has read
  file,     \* the snapshot file
  served,   \* served[s]: the record that the server of start s loaded
  up, slow, crashes

rowVars   == <<hist, lock, pc, missed>>
queueVars == <<events, job, since, tries, late>>
workVars  == <<worker, wjob, buf>>
diskVars  == <<file, served>>
downVars  == <<up, crashes>>
vars == <<rowVars, queueVars, workVars, diskVars, downVars, slow>>

ReqPC    == {"new", "got", "written", "missed", "told", "idle",
             "done", "failed", "killed"}
JobState == {"none", "failed", "pending", "claimed", "acked", "dead"}
WorkerPC == {"idle", "reading", "writing", "ok", "notok", "crashed", "down"}
Table    == [Agent -> Create \cup {NoRecord}]

Empty   == [a \in Agent |-> NoRecord]
Rows    == hist[Len(hist)]
RowOf(r) == Rows[Target[r]]

(* A content of the table, and how many there were when it was read.       *)
Snapshot(t) == [rec |-> t, at |-> Len(hist)]

Goto(r, l) == pc' = [pc EXCEPT ![r] = l]

Init ==
  /\ hist = <<Empty>> /\ lock = Nobody
  /\ pc = [r \in Req |-> "new"]
  /\ missed = {} /\ events = {}
  /\ job = [r \in Req |-> "none"]
  /\ since = [r \in Req |-> 0]
  /\ tries = [r \in Req |-> 0]
  /\ late = {}
  /\ worker = "idle" /\ wjob = Nobody
  /\ buf = [rec |-> Empty, at |-> 0] /\ file = [rec |-> Empty, at |-> 0]
  /\ served = [s \in Start |-> NoRecord]
  /\ up = TRUE /\ slow = 0 /\ crashes = 0

-----------------------------------------------------------------------------
(* The handlers                                                            *)

(* delete_agent and start_agent read the row first, and may answer at      *)
(* once: 404, 409, or a start of an agent that runs.                       *)
Get(r) ==
  /\ up /\ pc[r] = "new" /\ r \notin Create
  /\ \/ RowOf(r) # NoRecord /\ Goto(r, "got")
     \/ Goto(r, "failed")
  /\ UNCHANGED <<hist, lock, missed, queueVars, workVars, diskVars, downVars, slow>>

(* Where r may write: a new agent needs an id that is free.                *)
Ready(r) == IF r \in Create THEN up /\ pc[r] = "new" /\ RowOf(r) = NoRecord
            ELSE pc[r] = "got" /\ RowOf(r) # NoRecord

(* Mutant: the change is committed, or not begun, when it is announced.    *)
Write_NoLock(r) ==
  /\ Ready(r) /\ lock = Nobody
  /\ Goto(r, "written")
  /\ UNCHANGED <<hist, lock, missed, queueVars, workVars, diskVars, downVars, slow>>

(* The change is flushed to the session's transaction, not committed.      *)
Write(r) ==
  /\ Ready(r) /\ lock = Nobody
  /\ lock' = r
  /\ Goto(r, "written")
  /\ UNCHANGED <<hist, missed, queueVars, workVars, diskVars, downVars, slow>>

(* Another session has the lock for longer than a write waits, or the id   *)
(* of a new agent is taken.                                                *)
WriteFails(r) ==
  /\ \/ Ready(r) /\ lock # Nobody
     \/ r \in Create /\ up /\ pc[r] = "new" /\ RowOf(r) # NoRecord
  /\ Goto(r, "failed")
  /\ UNCHANGED <<hist, lock, missed, queueVars, workVars, diskVars, downVars, slow>>

(* The registry finds no row when it reads again: nothing is written.      *)
Miss(r) ==
  /\ pc[r] = "got" /\ RowOf(r) = NoRecord
  /\ Goto(r, "missed")
  /\ missed' = missed \cup {r}
  /\ UNCHANGED <<hist, lock, queueVars, workVars, diskVars, downVars, slow>>

(* _record_event publishes, then _flush_snapshot queues a job: both fail,  *)
(* and say nothing, while any session holds the lock.                      *)
Announce(r) ==
  /\ pc[r] \in {"written", "missed"}
  /\ events' = IF pc[r] = "written" /\ lock = Nobody THEN events \cup {r}
               ELSE events
  /\ job' = [job EXCEPT ![r] = IF lock = Nobody THEN "pending" ELSE "failed"]
  /\ since' = [since EXCEPT ![r] = IF lock = Nobody THEN Len(hist) ELSE 0]
  /\ Goto(r, IF pc[r] = "written" THEN "told" ELSE "idle")
  /\ UNCHANGED <<hist, lock, missed, tries, late, workVars, diskVars, downVars, slow>>

(* The rows once r has committed.  A start only changes the status.        *)
Changed(r) ==
  IF r \in Start THEN Rows
  ELSE [Rows EXCEPT ![Target[r]] = IF r \in Create THEN r ELSE NoRecord]

Commit(r) ==
  /\ pc[r] = "told"
  /\ hist' = IF Changed(r) = Rows THEN hist ELSE Append(hist, Changed(r))
  /\ lock' = Nobody
  /\ Goto(r, "done")
  /\ UNCHANGED <<missed, queueVars, workVars, diskVars, downVars, slow>>

(* Bootstrapping the workspace, spawning the server or the commit raises.  *)
Rollback(r) ==
  /\ pc[r] \in {"written", "told"}
  /\ lock' = Nobody
  /\ Goto(r, "failed")
  /\ UNCHANGED <<hist, missed, queueVars, workVars, diskVars, downVars, slow>>

(* The request that found its agent gone returns, its start after waiting. *)
Return(r) ==
  /\ pc[r] = "idle"
  /\ Goto(r, "done")
  /\ UNCHANGED <<hist, lock, missed, queueVars, workVars, diskVars, downVars, slow>>

(* The server that start_agent spawned loads its record; it exits if there *)
(* is none.                                                                *)
LoadRecord(s) ==
  /\ pc[s] \in {"told", "idle", "done"} /\ served[s] = NoRecord
  /\ served' = [served EXCEPT ![s] = file.rec[Target[s]]]
  /\ UNCHANGED <<rowVars, queueVars, workVars, file, downVars, slow>>

-----------------------------------------------------------------------------
(* run_snapshot_worker and the snapshot queue                              *)

Due(r) == \/ job[r] = "pending"
          \/ job[r] = "claimed" /\ r \in late

Claim(r) ==
  /\ worker = "idle" /\ Due(r) /\ lock = Nobody
  /\ job' = [job EXCEPT ![r] = "claimed"]
  /\ tries' = [tries EXCEPT ![r] = IF @ = MaxAttempts THEN @ ELSE @ + 1]
  /\ late' = late \ {r}
  /\ worker' = "reading" /\ wjob' = r
  /\ UNCHANGED <<rowVars, events, since, buf, diskVars, downVars, slow>>

(* "Snapshot worker crashed": a claim that raises ends the loop for good.  *)
ClaimFails ==
  /\ worker = "idle" /\ lock # Nobody
  /\ worker' = "crashed"
  /\ UNCHANGED <<rowVars, queueVars, wjob, buf, diskVars, downVars, slow>>

(* Mutant: the worker's session sees what another has not committed.       *)
ReadRows_Dirty ==
  /\ worker = "reading"
  /\ buf' = Snapshot(IF lock = Nobody THEN Rows ELSE Changed(lock))
  /\ worker' = "writing"
  /\ UNCHANGED <<rowVars, queueVars, wjob, diskVars, downVars, slow>>

(* list_agents, in a session of the worker's own: the agents' rows are one *)
(* SELECT.  The chiboos' names, which it reads by a second one, are not    *)
(* modelled.                                                               *)
ReadRows ==
  /\ worker = "reading"
  /\ buf' = Snapshot(Rows)
  /\ worker' = "writing"
  /\ UNCHANGED <<rowVars, queueVars, wjob, diskVars, downVars, slow>>

(* write_registry_snapshot: a temporary file that replaces the old one.    *)
WriteSnapshot ==
  /\ worker = "writing"
  /\ file' = buf
  /\ worker' = "ok"
  /\ UNCHANGED <<rowVars, queueVars, wjob, buf, served, downVars, slow>>

FlushFails ==
  /\ worker \in {"reading", "writing"}
  /\ worker' = "notok"
  /\ UNCHANGED <<rowVars, queueVars, wjob, buf, diskVars, downVars, slow>>

Settle(s) ==
  /\ lock = Nobody
  /\ job' = IF wjob \in late THEN job ELSE [job EXCEPT ![wjob] = s]
  /\ worker' = "idle" /\ wjob' = Nobody
  /\ UNCHANGED <<rowVars, events, since, tries, late, buf, diskVars, downVars, slow>>

(* Mutant: the job is acknowledged before the rows are read.               *)
Ack_Early == worker \in {"reading", "writing", "ok"} /\ Settle("acked")

Ack == worker = "ok" /\ Settle("acked")

(* Mutant: one attempt less than max_attempts.                            *)
Retry_OffByOne ==
  worker = "notok" /\ Settle(IF tries[wjob] >= MaxAttempts - 1 THEN "dead" ELSE "pending")

(* Mutant: a failed flush is logged, and its claim left to expire.         *)
Retry_NoAnswer ==
  /\ worker = "notok" /\ lock = Nobody
  /\ worker' = "idle" /\ wjob' = Nobody
  /\ UNCHANGED <<rowVars, queueVars, buf, diskVars, downVars, slow>>

(* job.retry: back to the queue, or dead after the last attempt.           *)
Retry ==
  worker = "notok" /\ Settle(IF tries[wjob] >= MaxAttempts THEN "dead" ELSE "pending")

(* The ack raises, the retry in the except clause too: the loop ends.      *)
SettleFails ==
  /\ worker \in {"ok", "notok"} /\ lock # Nobody
  /\ worker' = "crashed" /\ wjob' = Nobody
  /\ UNCHANGED <<rowVars, queueVars, buf, diskVars, downVars, slow>>

OutliveClaim ==
  /\ wjob # Nobody /\ wjob \notin late /\ slow < MaxSlow
  /\ late' = late \cup {wjob}
  /\ slow' = slow + 1
  /\ UNCHANGED <<rowVars, events, job, since, tries, workVars, diskVars, downVars>>

(* The claim of a worker that is gone.                                     *)
ClaimExpires(r) ==
  /\ job[r] = "claimed" /\ r # wjob /\ r \notin late
  /\ late' = late \cup {r}
  /\ UNCHANGED <<rowVars, events, job, since, tries, workVars, diskVars, downVars, slow>>

-----------------------------------------------------------------------------
Crash ==
  /\ up /\ crashes < MaxCrash
  /\ up' = FALSE /\ crashes' = crashes + 1
  /\ pc' = [r \in Req |-> IF pc[r] \in {"got", "written", "missed", "told", "idle"}
                          THEN "killed" ELSE pc[r]]
  /\ lock' = Nobody
  /\ worker' = "down" /\ wjob' = Nobody
  /\ UNCHANGED <<hist, missed, queueVars, buf, diskVars, slow>>

(* lifespan starts a worker again.  It queues no flush.                    *)
Recover ==
  /\ ~up
  /\ up' = TRUE
  /\ worker' = "idle"
  /\ UNCHANGED <<rowVars, queueVars, wjob, buf, diskVars, crashes, slow>>

-----------------------------------------------------------------------------
Handler(r) == \/ Get(r) \/ Write(r) \/ WriteFails(r) \/ Miss(r) \/ Announce(r)
              \/ Commit(r) \/ Rollback(r) \/ Return(r)

Worker == \/ \E r \in Req : Claim(r)
          \/ ClaimFails \/ ReadRows \/ WriteSnapshot \/ FlushFails
          \/ Ack \/ Retry \/ SettleFails \/ OutliveClaim

Next == \/ \E r \in Req : Handler(r) \/ ClaimExpires(r)
        \/ \E s \in Start : LoadRecord(s)
        \/ Worker \/ Crash \/ Recover

Spec == Init /\ [][Next]_vars

(* A handler that runs goes on, the worker's loop too, and a control plane *)
(* that crashed is started again.  Whether a flush succeeds is left open.  *)
Fairness ==
  /\ \A r \in Req : /\ WF_vars(Announce(r)) /\ WF_vars(Commit(r) \/ Rollback(r))
                    /\ WF_vars(Claim(r)) /\ WF_vars(ClaimExpires(r))
  /\ WF_vars(ReadRows \/ FlushFails) /\ WF_vars(WriteSnapshot \/ FlushFails)
  /\ WF_vars(Ack) /\ WF_vars(Retry) /\ WF_vars(Recover)

LiveSpec == Spec /\ Fairness

-----------------------------------------------------------------------------
(* Properties                                                              *)

(* Each variable has its type.                                             *)
TypeOK ==
  /\ hist \in Seq(Table) /\ hist # <<>>
  /\ lock \in Req \cup {Nobody}
  /\ pc \in [Req -> ReqPC]
  /\ missed \subseteq Req /\ events \subseteq Req
  /\ job \in [Req -> JobState] /\ since \in [Req -> Nat]
  /\ tries \in [Req -> 0 .. MaxAttempts] /\ late \subseteq Req
  /\ worker \in WorkerPC /\ wjob \in Req \cup {Nobody}
  /\ buf \in [rec : Table, at : Nat] /\ file \in [rec : Table, at : Nat]
  /\ served \in [Start -> Create \cup {NoRecord}]
  /\ up \in BOOLEAN /\ slow \in 0 .. MaxSlow /\ crashes \in 0 .. MaxCrash

(* Every handler announces before it commits, and still nothing is         *)
(* announced of a change that may be rolled back.  This is so because the  *)
(* lock that a writing session holds makes its own announcements fail: a   *)
(* request whose flush job was queued (or whose event was published) had   *)
(* nothing to write, or has committed.                                     *)
AnnouncedMeansCommitted ==
  \A r \in Req : r \in events \/ job[r] \notin {"none", "failed"} =>
    r \in missed \/ pc[r] = "done"

(* The snapshot has the agents' rows as they were committed at one moment, *)
(* and a server runs under a record that its agent had: no agent whose     *)
(* creation was rolled back, whatever the worker's reads and writes and the *)
(* server's load overlap with.                                             *)
SnapshotOfOneMoment ==
  /\ \E i \in DOMAIN hist : file.rec = hist[i]
  /\ \A s \in Start : served[s] # NoRecord =>
       \E i \in DOMAIN hist : hist[i][Target[s]] = served[s]

(* A flush job that was acknowledged has been carried out: the snapshot is *)
(* no older than the table was when the job was queued, through retries,   *)
(* late answers and restarts of the worker.                                *)
AckMeansFresh ==
  \A r \in Req : job[r] = "acked" => file.at >= since[r]

(* Readers of the file get what SnapshotCopy promises: it goes from one     *)
(* committed moment to a later one, never back, and no flush is reported   *)
(* before it.                                                              *)
PromiseOf(r) == CASE job[r] \in {"none", "failed"} -> "none"
                  [] job[r] \in {"pending", "claimed"} -> "open"
                  [] job[r] = "acked" -> "kept"
                  [] job[r] = "dead" -> "broken"

Copy == INSTANCE SnapshotCopy WITH
          Job <- Req,
          promise <- [r \in Req |-> PromiseOf(r)], attempts <- tries,
          shown <- file.rec, moment <- file.at, asked <- since

ImplementsCopy == Copy!Spec

(* Every queued flush is in the end carried out or given up, unless the    *)
(* worker has ended on an error of the database.                           *)
FlushesSettle ==
  []<>(worker = "crashed" \/ \A r \in Req : job[r] \notin {"pending", "claimed"})

(* agents.py:331: "Enqueue a snapshot flush job; the lifespan worker       *)
(* delivers it with retries."  So when no request is under way, no job is  *)
(* left to deliver and no attempt failed, the snapshot is that of the rows. *)
SnapshotFollows ==
  /\ \A r \in Req : pc[r] \in {"new", "done", "failed"}
  /\ \A r \in Req : job[r] \in {"none", "failed", "acked"}
  /\ crashes = 0
  => file.rec = Rows
=============================================================================
