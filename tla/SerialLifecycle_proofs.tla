---------------------- MODULE SerialLifecycle_proofs ----------------------
(***************************************************************************)
(* What holds of AgentLifecycle for clients that wait for the answer to a  *)
(* start, stop or delete before they send the next and that poll no        *)
(* status, for any number of agents, requests, processes and crashes.      *)
(***************************************************************************)
EXTENDS AgentLifecycle_proofs

ClientsWait == Serial /\ StatusReqs = {}

(***************************************************************************)
(* The inductive invariant, beside IInv                                    *)
(***************************************************************************)

(* Clients that wait: at most one request is in the hands of a handler.    *)
OneAtATime == \A q, r \in Req : InProgress(q) /\ InProgress(r) => q = r

(* What a handler read still holds while it is the only one.               *)
PhaseInv ==
  \A r \in Req :
    /\ pc[r] = "got" => rec[r] = row[tgt[r]]
    /\ pc[r] \in {"spawn", "wait", "commit"} =>
         row[tgt[r]].status \in {"stopped", "error"}
    /\ pc[r] \in {"wait", "commit"} => procs[tgt[r]] = pid[r]
    /\ pc[r] = "commit" /\ verdict[r] = "error" => ~Live(pid[r])
    /\ pc[r] \in {"term", "mark"} =>
         /\ r \in StopReqs /\ row[tgt[r]].status = "running"
         /\ row[tgt[r]].pid = pid[r]
         /\ procs[tgt[r]] = None /\ orphan[tgt[r]] = None

(* The manager's two tables do not contradict each other or the row.       *)
TablesInv ==
  \A a \in Agent :
    /\ orphan[a] # None =>
         procs[a] = None /\ row[a] = [status |-> "running", pid |-> orphan[a]]
    /\ procs[a] # None /\ row[a].status = "running" => procs[a] = row[a].pid
    /\ ~up => procs[a] = None

(* Who has a server: the start that waits for it, the stop that terminates *)
(* it, or the row of its agent and, if the control plane runs, the manager.*)
Started(p) == \E r \in StartReqs : /\ pc[r] \in {"wait", "commit"}
                                   /\ pid[r] = p /\ tgt[r] = owner[p]
Stopping(p) == \E r \in StopReqs : /\ pc[r] = "term"
                                   /\ pid[r] = p /\ tgt[r] = owner[p]
Serving(p) == /\ row[owner[p]] = [status |-> "running", pid |-> p]
              /\ up => p \in {procs[owner[p]], orphan[owner[p]]}

HeldInv == \A p \in Pid : Live(p) =>
             p \in exposed \/ Started(p) \/ Stopping(p) \/ Serving(p)

KnownInv ==
  \A a \in Agent : up /\ row[a].status = "running" /\ Live(row[a].pid) =>
    \/ row[a].pid \in {procs[a], orphan[a]}
    \/ \E r \in StopReqs : pc[r] \in {"term", "mark"} /\ tgt[r] = a

SerialInv == OneAtATime /\ PhaseInv /\ TablesInv /\ HeldInv /\ KnownInv

Idle == {"new"} \cup Ended

(***************************************************************************)
(* One request at a time                                                   *)
(***************************************************************************)

(* A step of a handler moves it and leaves the others where they are.      *)
LEMMA HandleMoves ==
  ASSUME IInv, NEW r \in Req, Handle(r)
  PROVE  /\ InProgress(r) /\ up /\ up' = up /\ UNCHANGED <<tgt, rec, exposed>>
         /\ \A q \in Req \ {r} : pc'[q] = pc[q]
         /\ pc' \in [Req -> ReqPC]
<1>1. pc[r] \notin Idle /\ UNCHANGED <<tgt, rec, exposed, up>>
  BY DEF Handle, Refuse, Busy, StartMark, StartSpawn, StartSpawnFails, StartReady,
         StartCommit, StopBegin, StopExited, StopKill, MarkStopped, DeleteRow,
         StatusCheck, Idle, Ended, downVars
<1>2. \E l \in ReqPC : Goto(r, l)
  <2>1. CASE StopBegin(r)
    BY <2>1 DEF StopBegin, ReqPC, Ended
  <2>2. CASE StatusCheck(r)
    BY <2>2 DEF StatusCheck, ReqPC, Ended
  <2>3. CASE ~StopBegin(r) /\ ~StatusCheck(r)
    BY <2>3 DEF Handle, Refuse, Busy, StartMark, StartSpawn, StartSpawnFails,
       StartReady, StartCommit, StopExited, StopKill, MarkStopped, DeleteRow,
       ReqPC, Ended
  <2> QED BY <2>1, <2>2, <2>3
<1>3. pc \in [Req -> ReqPC]
  BY DEF IInv, TypeOK, ReqType
<1>4. InProgress(r)
  BY <1>1 DEF InProgress, Idle
<1>5. up
  BY <1>4 DEF IInv, PcInv
<1> QED BY <1>1, <1>2, <1>3, <1>4, <1>5 DEF Goto

LEMMA OneStep ==
  ASSUME ClientsWait, IInv, OneAtATime, [Next]_vars PROVE OneAtATime'
<1>t. pc \in [Req -> ReqPC]
  BY DEF IInv, TypeOK, ReqType
<1>1. ASSUME NEW r \in Req, Read(r) PROVE OneAtATime'
  <2>1. r \in Command /\ \A q \in Command : ~InProgress(q)
    BY <1>1 DEF Read, ClientsWait, Req
  <2>2. \A q \in Req : ~InProgress(q)
    BY <2>1 DEF ClientsWait, Req
  <2>3. \A q \in Req \ {r} : pc'[q] = pc[q]
    BY <1>1, <1>t DEF Read, Goto
  <2> QED BY <2>2, <2>3 DEF OneAtATime, InProgress
<1>2. ASSUME NEW r \in Req, Handle(r) PROVE OneAtATime'
  BY <1>2, HandleMoves DEF OneAtATime, InProgress
<1>3. CASE Crash
  BY <1>3, <1>t DEF Crash, OneAtATime, InProgress, Ended
<1>4. CASE Recover \/ (\E p \in Pid : ServerStep(p)) \/ UNCHANGED vars
  BY <1>4 DEF Recover, ServerStep, ServerOpens, ServerWritesSentinel, ServerExits,
     vars, reqVars, OneAtATime, InProgress
<1> QED BY <1>1, <1>2, <1>3, <1>4 DEF Next

(***************************************************************************)
(* The rest of the invariant, one lemma for each kind of step              *)
(***************************************************************************)

Rest == PhaseInv /\ TablesInv /\ HeldInv /\ KnownInv

LEMMA Types ==
  ASSUME IInv
  PROVE  /\ row \in [Agent -> [status : Status \ {"starting"}, pid : 0 .. MaxPid]]
         /\ pc \in [Req -> ReqPC] /\ tgt \in [Req -> Agent]
         /\ pid \in [Req -> 0 .. MaxPid]
         /\ verdict \in [Req -> {"stopped", "running", "error"}]
         /\ procs \in [Agent -> 0 .. MaxPid] /\ orphan \in [Agent -> 0 .. MaxPid]
         /\ srv \in [Pid -> SrvState] /\ owner \in [Pid -> Agent]
         /\ StartReqs \subseteq Req /\ StopReqs \subseteq Req
         /\ None \notin Pid /\ 0 .. MaxPid = Pid \cup {None}
<1>1. None \notin Pid /\ 0 .. MaxPid = Pid \cup {None}
  BY LifecycleAssumption DEF None, Pid
<1> QED BY <1>1 DEF IInv, TypeOK, DbType, ReqType, ManagerType, ServerType, Req, Command

(* While r is handled nobody else has a server in its hands.               *)
LEMMA Alone ==
  ASSUME IInv, OneAtATime, Rest, NEW r \in Req, InProgress(r)
  PROVE  /\ \A q \in Req \ {r} : pc[q] \in Idle
         /\ \A p \in Pid : /\ Started(p) => pc[r] \in {"wait", "commit"}
                                            /\ r \in StartReqs
                                            /\ pid[r] = p /\ tgt[r] = owner[p]
                           /\ Stopping(p) => pc[r] = "term" /\ r \in StopReqs
                                             /\ pid[r] = p /\ tgt[r] = owner[p]
         /\ \A a \in Agent : up /\ row[a].status = "running" /\ Live(row[a].pid) =>
              \/ row[a].pid \in {procs[a], orphan[a]}
              \/ pc[r] \in {"term", "mark"} /\ tgt[r] = a
<1>1. \A q \in Req \ {r} : pc[q] \in Idle
  BY DEF OneAtATime, InProgress, Idle
<1>2. "wait" \notin Idle /\ "commit" \notin Idle /\ "term" \notin Idle /\ "mark" \notin Idle
  BY DEF Idle, Ended
<1>3. StartReqs \subseteq Req /\ StopReqs \subseteq Req
  BY Types
<1> QED BY <1>1, <1>2, <1>3 DEF Rest, Started, Stopping, KnownInv

(* Only running agents are orphans.                                        *)
LEMMA OrphansRun ==
  ASSUME TablesInv, NEW a \in Agent, row[a].status # "running"
  PROVE  orphan[a] = None
<1>1. orphan[a] # None => row[a] = [status |-> "running", pid |-> orphan[a]]
  BY DEF TablesInv
<1>2. row[a] = [status |-> "running", pid |-> orphan[a]] => row[a].status = "running"
  OBVIOUS
<1> QED BY <1>1, <1>2

LEMMA OrphanIsNamed ==
  ASSUME TablesInv, NEW a \in Agent, orphan[a] # None
  PROVE  orphan[a] = row[a].pid
<1>1. row[a] = [status |-> "running", pid |-> orphan[a]]
  BY DEF TablesInv
<1>2. [status |-> "running", pid |-> orphan[a]].pid = orphan[a]
  OBVIOUS
<1> QED BY <1>1, <1>2

(* When r has moved, PhaseInv is about r alone.                            *)
LEMMA PhaseFrame ==
  ASSUME OneAtATime', pc' \in [Req -> ReqPC], NEW r \in Req,
         \A q \in Req \ {r} : pc'[q] \in Idle,
         /\ pc'[r] = "got" => rec'[r] = row'[tgt'[r]]
         /\ pc'[r] \in {"spawn", "wait", "commit"} =>
              row'[tgt'[r]].status \in {"stopped", "error"}
         /\ pc'[r] \in {"wait", "commit"} => procs'[tgt'[r]] = pid'[r]
         /\ pc'[r] = "commit" /\ verdict'[r] = "error" => ~Live(pid[r])'
         /\ pc'[r] \in {"term", "mark"} =>
              /\ r \in StopReqs /\ row'[tgt'[r]].status = "running"
              /\ row'[tgt'[r]].pid = pid'[r]
              /\ procs'[tgt'[r]] = None /\ orphan'[tgt'[r]] = None
  PROVE  PhaseInv'
BY DEF PhaseInv, Idle, Ended

(* A handler that has not spawned or forgotten anything moves on or ends.  *)
LEMMA EasyStep ==
  ASSUME ClientsWait, IInv, OneAtATime, OneAtATime', Rest, NEW r \in Req,
         Refuse(r) \/ Busy(r) \/ StartMark(r) \/ StartSpawnFails(r)
  PROVE  Rest'
<1>0. Handle(r)
  BY DEF Handle
<1>1. pc[r] # "mark" \/ ~Busy(r)
  <2>1. SUFFICES ASSUME pc[r] = "mark", Busy(r) PROVE FALSE
    OBVIOUS
  <2>2. lock # NoReq /\ lock # r
    BY <2>1 DEF Busy
  <2>3. lock \in Req /\ pc[lock] \in {"spawn", "wait", "commit"}
    BY <2>2, Types DEF IInv, LockInv, LockHeldByStart, TypeOK, DbType
  <2>4. InProgress(lock) /\ InProgress(r)
    BY <2>1, <2>3 DEF InProgress, Ended
  <2> QED BY <2>2, <2>3, <2>4 DEF OneAtATime
<1>2. /\ pc[r] \in {"got", "spawn"} /\ pc'[r] \in {"spawn"} \cup Ended
      /\ pc'[r] = "spawn" => rec[r].status \in {"stopped", "error"} /\ pc[r] = "got"
      /\ UNCHANGED <<row, tgt, rec, pid, verdict, procs, orphan, srv, owner, up, exposed>>
  BY <1>1, Types DEF Refuse, Busy, StartMark, StartSpawnFails, Goto, Ended, dbVars,
     pmVars, srvVars, downVars
<1>3. \A q \in Req \ {r} : pc'[q] = pc[q] /\ pc[q] \in Idle
  BY <1>0, HandleMoves, Alone
<1>4. PhaseInv'
  <2>1. pc' \in [Req -> ReqPC]
    BY <1>0, HandleMoves
  <2> QED BY <1>2, <1>3, <2>1, PhaseFrame DEF Rest, PhaseInv, Ended
<1>5. TablesInv'
  BY <1>2 DEF Rest, TablesInv
<1>6. HeldInv'
  <2> SUFFICES ASSUME NEW p \in Pid, Live(p)', p \notin exposed'
               PROVE  Serving(p)'
    BY DEF HeldInv
  <2>1. Live(p) /\ p \notin exposed
    BY <1>2 DEF Live
  <2>2. Serving(p)
    BY <1>0, <1>2, <2>1, HandleMoves, Alone DEF Rest, HeldInv
  <2> QED BY <1>2, <2>2 DEF Serving
<1>7. KnownInv'
  BY <1>0, <1>2, HandleMoves, Alone DEF KnownInv, Live
<1> QED BY <1>4, <1>5, <1>6, <1>7 DEF Rest

LEMMA SpawnStep ==
  ASSUME ClientsWait, IInv, OneAtATime, OneAtATime', Rest, NEW r \in Req,
         StartSpawn(r)
  PROVE  Rest'
<1>0. Handle(r)
  BY DEF Handle
<1>1. PICK n \in Pid : /\ srv[n] = "unborn"
                       /\ srv' = [srv EXCEPT ![n] = "boot"]
                       /\ owner' = [owner EXCEPT ![n] = tgt[r]]
                       /\ procs' = [procs EXCEPT ![tgt[r]] = n]
                       /\ pid' = [pid EXCEPT ![r] = n]
  BY DEF StartSpawn
<1>2. /\ pc[r] = "spawn" /\ pc'[r] = "wait" /\ r \in StartReqs
      /\ UNCHANGED <<row, tgt, rec, verdict, orphan, up, exposed>>
  BY Types DEF StartSpawn, Goto, dbVars, downVars, IInv, PcInv
<1>3. \A q \in Req \ {r} : pc'[q] = pc[q] /\ pc[q] \in Idle
  BY <1>0, HandleMoves, Alone
<1>4. row[tgt[r]].status # "running" /\ tgt[r] \in Agent
      /\ row[tgt[r]].status \in {"stopped", "error"}
  BY <1>2, Types DEF Rest, PhaseInv
<1>5. PhaseInv'
  <2>1. pc' \in [Req -> ReqPC]
    BY <1>0, HandleMoves
  <2>2. procs'[tgt[r]] = n /\ pid'[r] = n
    BY <1>1, <1>4, Types
  <2> QED BY <1>2, <1>3, <1>4, <2>1, <2>2, PhaseFrame
<1>6. TablesInv'
  <2> SUFFICES ASSUME NEW a \in Agent
               PROVE  /\ orphan'[a] # None =>
                           /\ procs'[a] = None
                           /\ row'[a] = [status |-> "running", pid |-> orphan'[a]]
                      /\ procs'[a] # None /\ row'[a].status = "running" =>
                           procs'[a] = row'[a].pid
                      /\ ~up' => procs'[a] = None
    BY DEF TablesInv
  <2>1. a = tgt[r] \/ procs'[a] = procs[a]
    BY <1>1, Types
  <2>2. up
    BY <1>0, HandleMoves
  <2> QED BY <1>2, <1>4, <2>1, <2>2 DEF Rest, TablesInv
<1>7. HeldInv'
  <2> SUFFICES ASSUME NEW p \in Pid, Live(p)', p \notin exposed'
               PROVE  Started(p)' \/ Serving(p)'
    BY DEF HeldInv
  <2>1. CASE p = n
    BY <1>1, <1>2, <2>1, Types DEF Started
  <2>2. CASE p # n
    <3>1. Live(p) /\ p \notin exposed /\ owner'[p] = owner[p]
      BY <1>1, <1>2, <2>2, Types DEF Live
    <3>2. Serving(p)
      BY <1>0, <1>2, <3>1, HandleMoves, Alone DEF Rest, HeldInv
    <3>3. owner[p] # tgt[r] /\ owner[p] \in Agent
      BY <1>4, <3>2, Types DEF Serving
    <3> QED BY <1>1, <1>2, <3>1, <3>2, <3>3, Types DEF Serving
  <2> QED BY <2>1, <2>2
<1>8. KnownInv'
  <2> SUFFICES ASSUME NEW a \in Agent, up', row'[a].status = "running", Live(row[a].pid)'
               PROVE  row'[a].pid \in {procs'[a], orphan'[a]}
    BY DEF KnownInv
  <2>1. row[a].pid # n
    BY <1>1, Types DEF IInv, BornInv, Born
  <2>2. row[a].pid \in 0 .. MaxPid
    BY Types
  <2>3. Live(row[a].pid)
    BY <1>1, <1>2, <2>1, <2>2, Types DEF Live
  <2>4. a # tgt[r]
    BY <1>2, <1>4
  <2>5. row[a].pid \in {procs[a], orphan[a]}
    BY <1>0, <1>2, <2>3, HandleMoves, Alone
  <2> QED BY <1>1, <1>2, <2>4, <2>5, Types
<1> QED BY <1>5, <1>6, <1>7, <1>8 DEF Rest

LEMMA ReadyStep ==
  ASSUME ClientsWait, IInv, OneAtATime, OneAtATime', Rest, NEW r \in Req,
         StartReady(r)
  PROVE  Rest'
<1>0. Handle(r)
  BY DEF Handle
<1>1. /\ pc[r] = "wait" /\ pc'[r] = "commit" /\ r \in StartReqs
      /\ verdict'[r] = "error" => ~IsRunning(tgt[r])
      /\ UNCHANGED <<row, tgt, rec, pid, procs, srv, owner, up, exposed>>
  BY Types DEF StartReady, Goto, dbVars, downVars, IInv, PcInv
<1>2. /\ tgt[r] \in Agent /\ procs[tgt[r]] = pid[r]
      /\ row[tgt[r]].status \in {"stopped", "error"}
  BY <1>1, Types DEF Rest, PhaseInv
<1>3. orphan' = orphan
  <2>1. orphan[tgt[r]] = None
    BY <1>2, OrphansRun DEF Rest
  <2>2. orphan' = [orphan EXCEPT ![tgt[r]] = IF IsRunning(tgt[r]) THEN @ ELSE None]
    BY DEF StartReady, PruneOrphan
  <2> QED BY <1>2, <2>1, <2>2, Types
<1>4. \A q \in Req \ {r} : pc'[q] = pc[q] /\ pc[q] \in Idle
  BY <1>0, HandleMoves, Alone
<1>5. PhaseInv'
  <2>1. pc' \in [Req -> ReqPC]
    BY <1>0, HandleMoves
  <2>2. verdict'[r] = "error" => ~Live(pid[r])'
    BY <1>1, <1>2 DEF IsRunning, Live
  <2> QED BY <1>1, <1>2, <1>4, <2>1, <2>2, PhaseFrame
<1>6. TablesInv'
  BY <1>1, <1>3 DEF Rest, TablesInv
<1>7. HeldInv'
  <2> SUFFICES ASSUME NEW p \in Pid, Live(p)', p \notin exposed'
               PROVE  Started(p)' \/ Serving(p)'
    BY DEF HeldInv
  <2>1. Live(p) /\ p \notin exposed
    BY <1>1 DEF Live
  <2>2. Started(p) \/ Serving(p)
    BY <1>0, <1>1, <2>1, HandleMoves, Alone DEF Rest, HeldInv
  <2>3. Started(p) => Started(p)'
    BY <1>0, <1>1, HandleMoves, Alone DEF Started
  <2>4. Serving(p) => Serving(p)'
    BY <1>1, <1>3 DEF Serving
  <2> QED BY <2>2, <2>3, <2>4
<1>8. KnownInv'
  BY <1>0, <1>1, <1>3, HandleMoves, Alone DEF KnownInv, Live
<1> QED BY <1>5, <1>6, <1>7, <1>8 DEF Rest

LEMMA CommitStep ==
  ASSUME ClientsWait, IInv, OneAtATime, OneAtATime', Rest, NEW r \in Req,
         StartCommit(r)
  PROVE  Rest'
<1>0. Handle(r)
  BY DEF Handle
<1>1. /\ pc[r] = "commit" /\ pc'[r] = "done" /\ r \in StartReqs
      /\ UNCHANGED <<tgt, rec, pid, verdict, procs, orphan, srv, owner, up, exposed>>
  BY Types DEF StartCommit, Goto, pmVars, srvVars, downVars, IInv, PcInv
<1>2. /\ tgt[r] \in Agent /\ procs[tgt[r]] = pid[r]
      /\ row[tgt[r]].status \in {"stopped", "error"}
      /\ verdict[r] \in {"running", "error"}
      /\ verdict[r] = "error" => ~Live(pid[r])
  BY <1>1, Types DEF Rest, PhaseInv, IInv, StartInv
<1>3. row' = [row EXCEPT ![tgt[r]] = [status |-> verdict[r], pid |-> pid[r]]]
  BY <1>2 DEF StartCommit, Exists
<1>4. \A q \in Req \ {r} : pc'[q] = pc[q] /\ pc[q] \in Idle
  BY <1>0, HandleMoves, Alone
<1>5. PhaseInv'
  <2>1. pc' \in [Req -> ReqPC]
    BY <1>0, HandleMoves
  <2> QED BY <1>1, <1>4, <2>1, PhaseFrame
<1>6. /\ row'[tgt[r]].status = verdict[r] /\ row'[tgt[r]].pid = pid[r]
      /\ row'[tgt[r]] = [status |-> verdict[r], pid |-> pid[r]]
      /\ \A a \in Agent : a # tgt[r] => row'[a] = row[a]
  BY <1>2, <1>3, Types
<1>7. TablesInv'
  BY <1>1, <1>2, <1>6 DEF Rest, TablesInv
<1>8. HeldInv'
  <2> SUFFICES ASSUME NEW p \in Pid, Live(p)', p \notin exposed'
               PROVE  Serving(p)'
    BY DEF HeldInv
  <2>1. Live(p) /\ p \notin exposed /\ owner[p] \in Agent
    BY <1>1, Types DEF Live
  <2>2. CASE Started(p)
    <3>1. pid[r] = p /\ tgt[r] = owner[p]
      BY <1>0, <2>2, HandleMoves, Alone
    <3> QED BY <1>1, <1>2, <1>6, <2>1, <3>1 DEF Serving
  <2>3. CASE Serving(p)
    <3>1. owner[p] # tgt[r]
      BY <1>2, <2>3 DEF Serving
    <3> QED BY <1>1, <1>6, <2>1, <2>3, <3>1 DEF Serving
  <2>4. Started(p) \/ Serving(p)
    BY <1>0, <1>1, <2>1, HandleMoves, Alone DEF Rest, HeldInv
  <2> QED BY <2>2, <2>3, <2>4
<1>9. KnownInv'
  <2> SUFFICES ASSUME NEW a \in Agent, up', row'[a].status = "running", Live(row[a].pid)'
               PROVE  row'[a].pid \in {procs'[a], orphan'[a]}
    BY DEF KnownInv
  <2>1. CASE a = tgt[r]
    BY <1>1, <1>2, <1>6, <2>1
  <2>2. CASE a # tgt[r]
    <3>1. row'[a] = row[a] /\ Live(row[a].pid)
      BY <1>1, <1>6, <2>2 DEF Live
    <3> QED BY <1>0, <1>1, <3>1, HandleMoves, Alone
  <2> QED BY <2>1, <2>2
<1> QED BY <1>5, <1>7, <1>8, <1>9 DEF Rest

LEMMA StopBeginStep ==
  ASSUME ClientsWait, IInv, OneAtATime, OneAtATime', Rest, NEW r \in Req,
         StopBegin(r)
  PROVE  Rest'
<1>0. Handle(r)
  BY DEF Handle
<1> DEFINE a == tgt[r]
           p == IF procs[a] # None THEN procs[a]
                ELSE IF orphan[a] # None THEN orphan[a] ELSE rec[r].pid
<1>1. /\ pc[r] = "got" /\ r \in StopReqs /\ a \in Agent
      /\ procs' = [procs EXCEPT ![a] = None] /\ orphan' = [orphan EXCEPT ![a] = None]
      /\ UNCHANGED <<row, tgt, rec, verdict, srv, owner, up, exposed>>
  BY Types DEF StopBegin, dbVars, srvVars, downVars
<1>2. pid'[r] = p
  BY Types DEF StopBegin
<1>3. \/ (procs[a] # None \/ Live(p)) /\ pc'[r] = "term"
      \/ procs[a] # None /\ ~Live(p) /\ pc'[r] = "failed"
      \/ procs[a] = None /\ ~Live(p) /\ pc'[r] = "mark"
  BY Types DEF StopBegin, Goto
<1>4. row[a].status = "running"
  <2>1. rec[r] = row[a] /\ rec[r].status \in {"running", "starting"}
    BY <1>1 DEF Rest, PhaseInv, StopBegin
  <2>2. row[a].status # "starting"
    BY <1>1, Types
  <2> QED BY <2>1, <2>2
<1>5. \A q \in Req \ {r} : pc'[q] = pc[q] /\ pc[q] \in Idle
  BY <1>0, HandleMoves, Alone
<1>6. procs[a] # None => procs[a] = row[a].pid /\ p = row[a].pid
  BY <1>1, <1>4 DEF Rest, TablesInv
<1>7. \A b \in Agent : b # a => procs'[b] = procs[b] /\ orphan'[b] = orphan[b]
  BY <1>1, Types
<1>8. procs'[a] = None /\ orphan'[a] = None
  BY <1>1, Types
<1>p. p = row[a].pid
  <2>1. rec[r] = row[a]
    BY <1>1 DEF Rest, PhaseInv
  <2>2. orphan[a] # None => orphan[a] = row[a].pid
    BY <1>1, OrphanIsNamed DEF Rest
  <2> QED BY <1>6, <2>1, <2>2
<1> HIDE DEF p
<1>9. PhaseInv'
  <2>1. pc' \in [Req -> ReqPC]
    BY <1>0, HandleMoves
  <2> QED BY <1>1, <1>2, <1>3, <1>4, <1>5, <1>8, <1>p, <2>1, PhaseFrame
<1>10. TablesInv'
  BY <1>0, <1>1, <1>7, <1>8, HandleMoves DEF Rest, TablesInv
<1>11. HeldInv'
  <2> SUFFICES ASSUME NEW s \in Pid, Live(s)', s \notin exposed'
               PROVE  Stopping(s)' \/ Serving(s)'
    BY DEF HeldInv
  <2>1. Live(s) /\ s \notin exposed /\ owner[s] \in Agent /\ s # None
    BY <1>1, Types DEF Live
  <2>2. Serving(s) /\ up
    BY <1>0, <1>1, <2>1, HandleMoves, Alone DEF Rest, HeldInv
  <2>3. CASE owner[s] = a
    <3>1. row[a].pid = s /\ s \in {procs[a], orphan[a]}
      BY <2>2, <2>3 DEF Serving
    <3>2. p = s
      BY <1>6, <2>1, <3>1 DEF p
    <3>3. pc'[r] = "term" /\ pid'[r] = s
      BY <1>2, <1>3, <2>1, <3>2
    <3> QED BY <1>1, <2>3, <3>3 DEF Stopping
  <2>4. CASE owner[s] # a
    BY <1>1, <1>7, <2>1, <2>2, <2>4 DEF Serving
  <2> QED BY <2>3, <2>4
<1>12. KnownInv'
  <2> SUFFICES ASSUME NEW b \in Agent, up', row'[b].status = "running", Live(row[b].pid)'
               PROVE  \/ row'[b].pid \in {procs'[b], orphan'[b]}
                      \/ \E q \in StopReqs : pc'[q] \in {"term", "mark"} /\ tgt'[q] = b
    BY DEF KnownInv
  <2>1. Live(row[b].pid)
    BY <1>1 DEF Live
  <2>2. CASE b = a
    <3>1. pc'[r] \in {"term", "mark"}
      BY <1>3, <1>6, <2>1, <2>2
    <3> QED BY <1>1, <2>2, <3>1
  <2>3. CASE b # a
    <3>1. row[b].pid \in {procs[b], orphan[b]}
      BY <1>0, <1>1, <2>1, HandleMoves, Alone
    <3> QED BY <1>1, <1>7, <2>3, <3>1
  <2> QED BY <2>2, <2>3
<1> QED BY <1>9, <1>10, <1>11, <1>12 DEF Rest

(* The process a stop terminates exits, or is killed.                      *)
LEMMA StopEndStep ==
  ASSUME ClientsWait, IInv, OneAtATime, OneAtATime', Rest, NEW r \in Req,
         StopExited(r) \/ StopKill(r)
  PROVE  Rest'
<1>0. Handle(r)
  BY DEF Handle
<1>1. /\ pc[r] = "term" /\ pc'[r] = "mark"
      /\ UNCHANGED <<row, tgt, rec, pid, verdict, procs, orphan, owner, up, exposed>>
  BY Types DEF StopExited, StopKill, Goto, dbVars, pmVars, srvVars, downVars
<1>2. ~Live(pid[r])' /\ \A p \in 0 .. MaxPid : Live(p)' => Live(p)
  <2>1. CASE StopExited(r)
    BY <2>1 DEF StopExited, srvVars, Live
  <2>2. CASE StopKill(r)
    <3>1. pid[r] # None /\ pid[r] \in Pid
      BY <2>2, Types DEF StopKill, Live
    <3>2. srv' = [srv EXCEPT ![pid[r]] = "dead"] /\ pid' = pid
      BY <2>2 DEF StopKill
    <3> QED BY <3>1, <3>2, Types DEF Live
  <2> QED BY <2>1, <2>2
<1>3. \A q \in Req \ {r} : pc'[q] = pc[q] /\ pc[q] \in Idle
  BY <1>0, HandleMoves, Alone
<1>4. PhaseInv'
  <2>1. pc' \in [Req -> ReqPC]
    BY <1>0, HandleMoves
  <2> QED BY <1>1, <1>3, <2>1, PhaseFrame DEF Rest, PhaseInv
<1>5. TablesInv'
  BY <1>1 DEF Rest, TablesInv
<1>6. HeldInv'
  <2> SUFFICES ASSUME NEW p \in Pid, Live(p)', p \notin exposed'
               PROVE  Serving(p)'
    BY DEF HeldInv
  <2>1. Live(p) /\ p \notin exposed /\ p # pid[r]
    BY <1>1, <1>2, Types
  <2>2. Serving(p)
    BY <1>0, <1>1, <2>1, HandleMoves, Alone DEF Rest, HeldInv
  <2> QED BY <1>1, <2>2 DEF Serving
<1>7. KnownInv'
  <2> SUFFICES ASSUME NEW a \in Agent, up', row'[a].status = "running", Live(row[a].pid)'
               PROVE  \/ row'[a].pid \in {procs'[a], orphan'[a]}
                      \/ \E q \in StopReqs : pc'[q] \in {"term", "mark"} /\ tgt'[q] = a
    BY DEF KnownInv
  <2>1. Live(row[a].pid)
    BY <1>1, <1>2, Types
  <2>2. row[a].pid \in {procs[a], orphan[a]} \/ tgt[r] = a
    BY <1>0, <1>1, <2>1, HandleMoves, Alone
  <2>3. r \in StopReqs
    BY <1>1 DEF Rest, PhaseInv
  <2> QED BY <1>1, <2>2, <2>3
<1> QED BY <1>4, <1>5, <1>6, <1>7 DEF Rest

(* A stop or a delete writes the row of an agent that has no server left.  *)
LEMMA WriteStep ==
  ASSUME ClientsWait, IInv, OneAtATime, OneAtATime', Rest, NEW r \in Req,
         MarkStopped(r) \/ DeleteRow(r)
  PROVE  Rest'
<1>0. Handle(r)
  BY DEF Handle
<1>1. /\ pc[r] \in {"mark", "got"} /\ pc'[r] = "done"
      /\ UNCHANGED <<tgt, rec, pid, verdict, procs, orphan, srv, owner, up, exposed>>
  BY Types DEF MarkStopped, DeleteRow, Goto, pmVars, srvVars, downVars
<1>2. /\ tgt[r] \in Agent /\ orphan[tgt[r]] = None
      /\ row[tgt[r]].status # "running" \/ procs[tgt[r]] = None
  <2>1. CASE MarkStopped(r)
    BY <2>1, Types DEF MarkStopped, Rest, PhaseInv
  <2>2. CASE DeleteRow(r)
    <3>1. row[tgt[r]].status # "running" /\ tgt[r] \in Agent
      BY <2>2, Types DEF DeleteRow, Rest, PhaseInv
    <3> QED BY <3>1, OrphansRun DEF Rest
  <2> QED BY <2>1, <2>2
<1>3. /\ row'[tgt[r]].status # "running"
      /\ \A a \in Agent : a # tgt[r] => row'[a] = row[a]
  BY <1>2, Types DEF MarkStopped, DeleteRow, StoppedRow, AbsentRow, Exists
<1>4. \A q \in Req \ {r} : pc'[q] = pc[q] /\ pc[q] \in Idle
  BY <1>0, HandleMoves, Alone
<1>5. PhaseInv'
  <2>1. pc' \in [Req -> ReqPC]
    BY <1>0, HandleMoves
  <2> QED BY <1>1, <1>4, <2>1, PhaseFrame
<1>6. TablesInv'
  BY <1>1, <1>2, <1>3 DEF Rest, TablesInv
<1>7. HeldInv'
  <2> SUFFICES ASSUME NEW p \in Pid, Live(p)', p \notin exposed'
               PROVE  Serving(p)'
    BY DEF HeldInv
  <2>1. Live(p) /\ p \notin exposed /\ owner[p] \in Agent /\ p # None
    BY <1>1, Types DEF Live
  <2>2. Serving(p) /\ up
    BY <1>0, <1>1, <2>1, HandleMoves, Alone DEF Rest, HeldInv
  <2>3. owner[p] # tgt[r]
    BY <1>2, <2>1, <2>2 DEF Serving
  <2> QED BY <1>1, <1>3, <2>1, <2>2, <2>3 DEF Serving
<1>8. KnownInv'
  <2> SUFFICES ASSUME NEW a \in Agent, up', row'[a].status = "running", Live(row[a].pid)'
               PROVE  row'[a].pid \in {procs'[a], orphan'[a]}
    BY DEF KnownInv
  <2>1. a # tgt[r] /\ row'[a] = row[a] /\ Live(row[a].pid)
    BY <1>1, <1>3 DEF Live
  <2> QED BY <1>0, <1>1, <2>1, HandleMoves, Alone
<1> QED BY <1>5, <1>6, <1>7, <1>8 DEF Rest

LEMMA ReadStep ==
  ASSUME ClientsWait, IInv, OneAtATime, OneAtATime', Rest, NEW r \in Req, Read(r)
  PROVE  Rest'
<1>1. \A q \in Req : pc[q] \in Idle
  BY DEF Read, ClientsWait, Req, InProgress, Idle
<1>2. /\ pc' = [pc EXCEPT ![r] = "got"] /\ rec' = [rec EXCEPT ![r] = row[tgt[r]]]
      /\ UNCHANGED <<row, tgt, pid, verdict, procs, orphan, srv, owner, up, exposed>>
  BY DEF Read, Goto, dbVars, pmVars, srvVars, downVars
<1>3. PhaseInv'
  <2>1. pc' \in [Req -> ReqPC] /\ \A q \in Req \ {r} : pc'[q] \in Idle
    BY <1>1, <1>2, Types DEF ReqPC
  <2>2. pc'[r] = "got" /\ rec'[r] = row[tgt[r]]
    BY <1>2, Types DEF IInv, TypeOK, ReqType
  <2> QED BY <1>2, <2>1, <2>2, PhaseFrame
<1>4. TablesInv'
  BY <1>2 DEF Rest, TablesInv
<1>5. HeldInv'
  <2> SUFFICES ASSUME NEW p \in Pid, Live(p)', p \notin exposed'
               PROVE  Serving(p)'
    BY DEF HeldInv
  <2>1. Live(p) /\ p \notin exposed
    BY <1>2 DEF Live
  <2>2. ~Started(p) /\ ~Stopping(p)
    BY <1>1, Types DEF Started, Stopping, Idle, Ended
  <2> QED BY <1>2, <2>1, <2>2 DEF Rest, HeldInv, Serving
<1>6. KnownInv'
  <2>1. \A q \in StopReqs : pc[q] \notin {"term", "mark"}
    BY <1>1, Types DEF Idle, Ended
  <2> QED BY <1>2, <2>1 DEF Rest, KnownInv, Live
<1> QED BY <1>3, <1>4, <1>5, <1>6 DEF Rest

LEMMA CrashStep ==
  ASSUME ClientsWait, IInv, OneAtATime, Rest, Crash PROVE Rest'
<1>1. /\ \A q \in Req : pc'[q] \in Idle
      /\ up' = FALSE
      /\ procs' = [a \in Agent |-> None] /\ orphan' = [a \in Agent |-> None]
      /\ exposed' = exposed \cup {p \in Pid : \E r \in Req :
                       pid[r] = p /\ pc[r] \in {"wait", "commit"}}
      /\ UNCHANGED <<row, srv, owner>>
  BY Types DEF Crash, Idle, Ended, InProgress, srvVars
<1>2. PhaseInv'
  BY <1>1 DEF PhaseInv, Idle, Ended
<1>3. TablesInv'
  BY <1>1 DEF TablesInv
<1>4. HeldInv'
  <2> SUFFICES ASSUME NEW p \in Pid, Live(p)', p \notin exposed'
               PROVE  Serving(p)'
    BY DEF HeldInv
  <2>1. Live(p) /\ p \notin exposed
    BY <1>1 DEF Live
  <2>2. ~Started(p)
    BY <1>1, Types DEF Started
  <2>3. Stopping(p) => row[owner[p]] = [status |-> "running", pid |-> p]
    <3> SUFFICES ASSUME NEW r \in StopReqs, pc[r] = "term", pid[r] = p,
                        tgt[r] = owner[p]
                 PROVE  row[owner[p]] = [status |-> "running", pid |-> p]
      BY DEF Stopping
    <3>1. row[owner[p]].status = "running" /\ row[owner[p]].pid = p
      BY Types DEF Rest, PhaseInv
    <3> QED BY <3>1, Types
  <2> QED BY <1>1, <2>1, <2>2, <2>3 DEF Rest, HeldInv, Serving
<1>5. KnownInv'
  BY <1>1 DEF KnownInv
<1> QED BY <1>2, <1>3, <1>4, <1>5 DEF Rest

LEMMA RecoverStep ==
  ASSUME ClientsWait, IInv, OneAtATime, Rest, Recover PROVE Rest'
<1> DEFINE Alive(a) == row[a].status = "running" /\ Live(row[a].pid)
<1>1. \A q \in Req : pc[q] \in Idle
  BY DEF Recover, IInv, PcInv, InProgress, Idle
<1>2. /\ ~up /\ up' = TRUE
      /\ \A a \in Agent : /\ orphan'[a] = IF Alive(a) THEN row[a].pid ELSE None
                          /\ row'[a] = IF row[a].status = "running" /\ ~Alive(a)
                                       THEN StoppedRow ELSE row[a]
      /\ UNCHANGED <<pc, pid, tgt, procs, srv, owner, exposed>>
  BY DEF Recover, reqVars, srvVars
<1> HIDE DEF Alive
<1>3. PhaseInv'
  BY <1>1, <1>2 DEF PhaseInv, Idle, Ended
<1>4. TablesInv'
  <2> SUFFICES ASSUME NEW a \in Agent
               PROVE  /\ orphan'[a] # None =>
                           /\ procs'[a] = None
                           /\ row'[a] = [status |-> "running", pid |-> orphan'[a]]
                      /\ procs'[a] # None /\ row'[a].status = "running" =>
                           procs'[a] = row'[a].pid
                      /\ ~up' => procs'[a] = None
    BY DEF TablesInv
  <2>1. procs'[a] = None
    BY <1>2 DEF Rest, TablesInv
  <2>2. orphan'[a] # None => Alive(a) /\ orphan'[a] = row[a].pid /\ row'[a] = row[a]
    BY <1>2
  <2>3. Alive(a) => row[a] = [status |-> "running", pid |-> row[a].pid]
    BY Types DEF Alive
  <2> QED BY <1>2, <2>1, <2>2, <2>3
<1>5. HeldInv'
  <2> SUFFICES ASSUME NEW p \in Pid, Live(p)', p \notin exposed'
               PROVE  Serving(p)'
    BY DEF HeldInv
  <2>1. Live(p) /\ p \notin exposed /\ owner[p] \in Agent
    BY <1>2, Types DEF Live
  <2>2. ~Started(p) /\ ~Stopping(p)
    BY <1>1, Types DEF Started, Stopping, Idle, Ended
  <2>3. row[owner[p]] = [status |-> "running", pid |-> p]
    BY <2>1, <2>2 DEF Rest, HeldInv, Serving
  <2>4. Alive(owner[p]) /\ row[owner[p]].pid = p
    BY <2>1, <2>3 DEF Alive
  <2> QED BY <1>2, <2>1, <2>3, <2>4 DEF Serving
<1>6. KnownInv'
  <2> SUFFICES ASSUME NEW a \in Agent, row'[a].status = "running"
               PROVE  row'[a].pid = orphan'[a]
    BY DEF KnownInv
  <2>1. StoppedRow.status # "running"
    BY DEF StoppedRow
  <2>2. Alive(a) /\ row'[a] = row[a]
    BY <1>2, <2>1 DEF Alive
  <2> QED BY <1>2, <2>2
<1> QED BY <1>3, <1>4, <1>5, <1>6 DEF Rest

(* A server boots, serves or exits: nothing comes to life.                 *)
LEMMA ServersStep ==
  ASSUME ClientsWait, IInv, OneAtATime, Rest, NEW s \in Pid, ServerStep(s)
  PROVE  Rest'
<1>1. UNCHANGED <<row, pc, rec, tgt, pid, verdict, procs, orphan, owner, up, exposed>>
  BY DEF ServerStep, ServerOpens, ServerWritesSentinel, ServerExits, dbVars, reqVars,
     pmVars, downVars
<1>2. \A p \in 0 .. MaxPid : Live(p)' => Live(p)
  BY Types DEF ServerStep, ServerOpens, ServerWritesSentinel, ServerExits, Live
<1>3. PhaseInv'
  BY <1>1, <1>2, Types DEF Rest, PhaseInv
<1>4. TablesInv'
  BY <1>1 DEF Rest, TablesInv
<1>5. HeldInv'
  BY <1>1, <1>2, Types DEF Rest, HeldInv, Started, Stopping, Serving
<1>6. KnownInv'
  BY <1>1, <1>2, Types DEF Rest, KnownInv
<1> QED BY <1>3, <1>4, <1>5, <1>6 DEF Rest

LEMMA RestStep ==
  ASSUME ClientsWait, IInv, OneAtATime, Rest, [Next]_vars PROVE Rest'
<1>1. OneAtATime'
  BY OneStep
<1>2. ASSUME NEW r \in Req, Handle(r) PROVE Rest'
  <2>1. ~StatusCheck(r)
    BY DEF StatusCheck, ClientsWait
  <2> QED BY <1>1, <1>2, <2>1, EasyStep, SpawnStep, ReadyStep, CommitStep,
          StopBeginStep, StopEndStep, WriteStep DEF Handle
<1>3. ASSUME NEW r \in Req, Read(r) PROVE Rest'
  BY <1>1, <1>3, ReadStep
<1>4. CASE UNCHANGED vars
  BY <1>4 DEF vars, dbVars, reqVars, pmVars, srvVars, downVars, Rest, PhaseInv,
     TablesInv, HeldInv, Started, Stopping, Serving, KnownInv, Live
<1> QED BY <1>2, <1>3, <1>4, CrashStep, RecoverStep, ServersStep DEF Next

LEMMA InitSerial == Init => SerialInv
<1> SUFFICES ASSUME Init PROVE SerialInv
  OBVIOUS
<1>1. OneAtATime /\ PhaseInv
  BY DEF Init, OneAtATime, InProgress, PhaseInv
<1>2. TablesInv /\ KnownInv
  BY DEF Init, TablesInv, KnownInv, StoppedRow
<1>3. HeldInv
  BY DEF Init, HeldInv, Live
<1> QED BY <1>1, <1>2, <1>3 DEF SerialInv

LEMMA SerialInvariant ==
  ASSUME ClientsWait PROVE Spec => [](IInv /\ SerialInv)
<1>1. Init => IInv /\ SerialInv
  BY InitIInv, InitSerial
<1>2. (IInv /\ SerialInv) /\ [Next]_vars => (IInv /\ SerialInv)'
  BY IInvStep, OneStep, RestStep DEF SerialInv, Rest
<1> QED BY <1>1, <1>2, PTL DEF Spec

(* A live server is in one pair of hands, and an agent has one server in   *)
(* anybody's hands.                                                        *)
LEMMA HeldByOne ==
  ASSUME IInv, SerialInv, NEW p \in Pid, NEW q \in Pid, owner[p] = owner[q],
         Started(p) \/ Stopping(p) \/ Serving(p),
         Started(q) \/ Stopping(q) \/ Serving(q)
  PROVE  p = q
<1> USE DEF SerialInv
<1>1. ASSUME NEW s \in Pid, Started(s)
      PROVE  \E r \in Req : /\ pc[r] \in {"wait", "commit"} /\ InProgress(r)
                            /\ pid[r] = s /\ tgt[r] = owner[s]
                            /\ row[owner[s]].status # "running"
  BY <1>1, Types DEF Started, InProgress, Ended, PhaseInv
<1>2. ASSUME NEW s \in Pid, Stopping(s)
      PROVE  \E r \in Req : /\ pc[r] = "term" /\ InProgress(r)
                            /\ pid[r] = s /\ tgt[r] = owner[s]
                            /\ row[owner[s]].status = "running"
                            /\ row[owner[s]].pid = s
  BY <1>2, Types DEF Stopping, InProgress, Ended, PhaseInv
<1>3. ASSUME NEW s \in Pid, Serving(s)
      PROVE  row[owner[s]].status = "running" /\ row[owner[s]].pid = s
  <2>1. row[owner[s]] = [status |-> "running", pid |-> s]
    BY <1>3 DEF Serving
  <2> QED BY <2>1
<1>4. CASE Started(p) /\ Started(q)
  BY <1>1, <1>4 DEF OneAtATime
<1> QED BY <1>1, <1>2, <1>3, <1>4

(***************************************************************************)
(* Theorems                                                                *)
(***************************************************************************)

(* Clients that wait lose no server: every one that lives is in the        *)
(* manager's tables, in the hands of a stop, or, while the control plane   *)
(* is down, in the row that recovery reads (process/manager.py start,      *)
(* stop and recover_running_agents), crashes in mid-start aside.           *)
THEOREM NothingLost ==
  ASSUME ClientsWait PROVE Spec => []NoServerLost
<1>1. IInv /\ SerialInv => NoServerLost
  <2> SUFFICES ASSUME IInv, SerialInv, NEW p \in Pid, Live(p), p \notin exposed
               PROVE  Tracked(p)
    BY DEF NoServerLost
  <2>1. Started(p) \/ Stopping(p) \/ Serving(p)
    BY DEF SerialInv, HeldInv
  <2>2. CASE Started(p)
    BY <2>2, Types DEF Started, Tracked, SerialInv, PhaseInv
  <2>3. CASE Stopping(p)
    BY <2>3 DEF Stopping, Tracked
  <2>4. CASE Serving(p)
    BY <2>4 DEF Serving, Tracked
  <2> QED BY <2>1, <2>2, <2>3, <2>4
<1> QED BY <1>1, SerialInvariant, PTL

(* Between the requests of such clients an agent that is stopped, in error *)
(* or deleted has no server, whatever crashed in between.                  *)
THEOREM NothingRunsIdle ==
  ASSUME ClientsWait PROVE Spec => []IdleRowsHaveNoServer
<1>1. IInv /\ SerialInv => IdleRowsHaveNoServer
  <2> SUFFICES ASSUME IInv, SerialInv, NEW a \in Agent, Quiet(a),
                      row[a].status # "running",
                      NEW p \in Pid, Live(p), owner[p] = a, p \notin exposed
               PROVE  FALSE
    BY DEF IdleRowsHaveNoServer
  <2>1. ~Started(p) /\ ~Stopping(p)
    BY DEF Quiet, Started, Stopping, InProgress, Ended, Command
  <2>2. ~Serving(p)
    BY DEF Serving
  <2> QED BY <2>1, <2>2 DEF SerialInv, HeldInv
<1> QED BY <1>1, SerialInvariant, PTL

(* An agent whose row says running can be stopped between requests: the    *)
(* manager knows its process, also after a restart of the control plane.   *)
THEOREM RunningCanBeStopped ==
  ASSUME ClientsWait PROVE Spec => []RunningIsKnown
<1>1. IInv /\ SerialInv => RunningIsKnown
  <2> SUFFICES ASSUME IInv, SerialInv, NEW a \in Agent, Quiet(a),
                      row[a].status = "running", Live(row[a].pid)
               PROVE  IsRunning(a) /\ row[a].pid \in {procs[a], orphan[a]}
    BY DEF RunningIsKnown
  <2>1. up /\ \A r \in StopReqs : tgt[r] = a => pc[r] \notin {"term", "mark"}
    BY DEF Quiet, InProgress, Ended, Command
  <2>2. row[a].pid \in {procs[a], orphan[a]}
    BY <2>1 DEF SerialInv, KnownInv
  <2> QED BY <2>2 DEF IsRunning
<1> QED BY <1>1, SerialInvariant, PTL

(* README, Architecture: "one process per agent".  Two overlapping starts  *)
(* break it; clients that wait have it, but for a server that a crash of   *)
(* the control plane took from a start.                                    *)
OneServerKept ==
  \A p \in Pid : \A q \in Pid :
    Live(p) /\ Live(q) /\ owner[p] = owner[q] /\ p \notin exposed /\ q \notin exposed
      => p = q

THEOREM OneServerForEach ==
  ASSUME ClientsWait PROVE Spec => []OneServerKept
<1>1. IInv /\ SerialInv => OneServerKept
  <2> SUFFICES ASSUME IInv, SerialInv, NEW p \in Pid, NEW q \in Pid, Live(p), Live(q),
                      owner[p] = owner[q], p \notin exposed, q \notin exposed
               PROVE  p = q
    BY DEF OneServerKept
  <2>1. /\ Started(p) \/ Stopping(p) \/ Serving(p)
        /\ Started(q) \/ Stopping(q) \/ Serving(q)
    BY DEF SerialInv, HeldInv
  <2> QED BY <2>1, HeldByOne
<1> QED BY <1>1, SerialInvariant, PTL

(***************************************************************************)
(* AgentLifecycle implements AgentService, for clients that wait           *)
(***************************************************************************)

(* What a crash took from a start was spawned.                             *)
TakenInv == \A p \in exposed : srv[p] # "unborn"

Statuses == [a \in Agent |-> row[a].status]
Names    == [a \in Agent |-> row[a].pid]
Running  == [a \in Agent |-> RunsFor(a)]

LEMMA TakenStep == IInv /\ TakenInv /\ [Next]_vars => TakenInv'
<1> SUFFICES ASSUME IInv, TakenInv, [Next]_vars PROVE TakenInv'
  OBVIOUS
<1>1. exposed \subseteq Pid
  BY DEF IInv, TypeOK, DownType
<1>2. CASE Crash
  <2> SUFFICES ASSUME NEW p \in exposed', p \notin exposed PROVE srv'[p] # "unborn"
    BY <1>2 DEF Crash, srvVars, TakenInv
  <2>1. PICK r \in Req : p \in Pid /\ pid[r] = p
    BY <1>2 DEF Crash
  <2>2. p # None
    BY <2>1, Types
  <2> QED BY <1>2, <2>1, <2>2 DEF Crash, srvVars, IInv, BornInv, Born
<1>3. CASE ~Crash
  <2>1. UNCHANGED exposed
    BY <1>3 DEF Next, Read, Handle, Refuse, Busy, StartMark, StartSpawn,
       StartSpawnFails, StartReady, StartCommit, StopBegin, StopExited, StopKill,
       MarkStopped, DeleteRow, StatusCheck, Recover, ServerStep, ServerOpens,
       ServerWritesSentinel, ServerExits, vars, downVars
  <2>2. \A p \in Pid : srv[p] # "unborn" => srv'[p] # "unborn"
    BY ServerHistory DEF IInv, History
  <2> QED BY <1>1, <2>1, <2>2 DEF TakenInv
<1> QED BY <1>2, <1>3

LEMMA InitService == Init => Service!Init /\ TakenInv
<1> SUFFICES ASSUME Init PROVE Service!Init /\ TakenInv
  OBVIOUS
<1>1. \A a \in Agent : row[a].status = "stopped" /\ row[a].pid = None
  BY DEF Init, StoppedRow
<1>2. \A p \in Pid : ~Live(p) /\ srv[p] = "unborn"
  BY DEF Init, Live
<1>3. exposed = {} /\ crashes = 0
  BY DEF Init
<1>4. Strays = {} /\ Spawned = {} /\ \A a \in Agent : RunsFor(a) = {}
  BY <1>2, <1>3 DEF Strays, Spawned, RunsFor
<1> QED BY <1>1, <1>3, <1>4 DEF Service!Init, TakenInv

(* What the mapped state depends on.                                       *)
LEMMA SameService ==
  ASSUME exposed \subseteq Pid, UNCHANGED <<row, owner, exposed, crashes>>,
         \A p \in Pid : /\ Live(p)' <=> Live(p)
                        /\ srv'[p] = "unborn" <=> srv[p] = "unborn"
  PROVE  UNCHANGED Service!svars
<1>1. Strays' = Strays /\ Spawned' = Spawned
  BY DEF Strays, Spawned
<1>2. \A a \in Agent : RunsFor(a)' = RunsFor(a)
  BY DEF RunsFor
<1> QED BY <1>1, <1>2 DEF Service!svars, Service!rowVars

(* Nobody writes a row, spawns or terminates: the operator sees nothing.   *)
LEMMA QuietRefines ==
  ASSUME IInv, UNCHANGED <<row, srv, owner, exposed, crashes>>
  PROVE  UNCHANGED Service!svars
BY SameService DEF Live, IInv, TypeOK, DownType

(* An agent that is about to be started, marked stopped or deleted has no  *)
(* server.                                                                 *)
LEMMA NothingRuns ==
  ASSUME IInv, SerialInv, NEW r \in Req,
         \/ pc[r] \in {"spawn", "mark"}
         \/ pc[r] = "got" /\ row[tgt[r]].status # "running"
  PROVE  RunsFor(tgt[r]) = {}
<1> SUFFICES ASSUME NEW p \in Pid, Live(p), owner[p] = tgt[r], p \notin exposed
             PROVE  FALSE
  BY DEF RunsFor
<1> USE DEF SerialInv
<1>1. InProgress(r) /\ up
  BY DEF InProgress, Ended, IInv, PcInv
<1>2. ~Started(p) /\ ~Stopping(p)
  BY <1>1, Alone DEF Rest
<1>3. Serving(p)
  BY <1>2 DEF HeldInv
<1>4. row[tgt[r]].status = "running" /\ p \in {procs[tgt[r]], orphan[tgt[r]]}
  <2>1. row[owner[p]] = [status |-> "running", pid |-> p]
    BY <1>3 DEF Serving
  <2> QED BY <1>1, <1>3, <2>1 DEF Serving
<1>5. pc[r] = "mark"
  BY <1>4 DEF PhaseInv
<1>6. procs[tgt[r]] = None /\ orphan[tgt[r]] = None /\ p # None
  BY <1>5, Types DEF PhaseInv
<1> QED BY <1>4, <1>6

(* An agent that a start waits for has no server but the one it spawned.   *)
LEMMA OnlyItsOwn ==
  ASSUME IInv, SerialInv, NEW r \in Req, pc[r] \in {"wait", "commit"}
  PROVE  /\ RunsFor(tgt[r]) \subseteq {pid[r]}
         /\ pid[r] \in Pid /\ owner[pid[r]] = tgt[r] /\ srv[pid[r]] # "unborn"
         /\ tgt[r] \in Agent /\ row[tgt[r]].status \in {"stopped", "error"}
<1>1. r \in StartReqs /\ row[tgt[r]].status \in {"stopped", "error"}
  BY DEF IInv, PcInv, SerialInv, PhaseInv
<1>2. pid[r] # None /\ owner[pid[r]] = tgt[r] /\ Born(pid[r])
  BY <1>1 DEF IInv, StartInv, BornInv
<1>3. pid[r] \in Pid /\ tgt[r] \in Agent
  BY <1>2, Types
<1>4. Started(pid[r])
  BY <1>1, <1>2 DEF Started
<1>5. ASSUME NEW p \in Pid, Live(p), owner[p] = tgt[r], p \notin exposed
      PROVE  p = pid[r]
  <2>1. Started(p) \/ Stopping(p) \/ Serving(p)
    BY <1>5 DEF SerialInv, HeldInv
  <2> QED BY <1>2, <1>3, <1>4, <1>5, <2>1, HeldByOne
<1> QED BY <1>1, <1>2, <1>3, <1>5 DEF RunsFor, Born

LEMMA SpawnRefines ==
  ASSUME IInv, SerialInv, TakenInv, NEW r \in Req, StartSpawn(r)
  PROVE  Service!Next
<1>1. PICK n \in Pid : /\ srv[n] = "unborn"
                       /\ srv' = [srv EXCEPT ![n] = "boot"]
                       /\ owner' = [owner EXCEPT ![n] = tgt[r]]
  BY DEF StartSpawn
<1>2. pc[r] = "spawn" /\ UNCHANGED <<row, exposed, crashes>>
  BY DEF StartSpawn, dbVars, downVars
<1>3. tgt[r] \in Agent /\ row[tgt[r]].status \in {"stopped", "error"} /\ n # None
  BY <1>2, Types DEF SerialInv, PhaseInv
<1>4. RunsFor(tgt[r]) = {} /\ n \notin exposed /\ exposed \subseteq Pid
  BY <1>1, <1>2, NothingRuns DEF TakenInv, IInv, TypeOK, DownType
<1>5. \A p \in Pid \ {n} : /\ Live(p)' <=> Live(p)
                           /\ owner'[p] = owner[p] /\ srv'[p] = srv[p]
  BY <1>1, Types DEF Live
<1>6. Live(n)' /\ ~Live(n) /\ owner'[n] = tgt[r] /\ srv'[n] # "unborn"
  BY <1>1, <1>3, Types DEF Live
<1>7. Strays' = Strays /\ Spawned' = Spawned \cup {n} /\ n \notin Spawned
  BY <1>1, <1>2, <1>4, <1>5, <1>6 DEF Strays, Spawned
<1>8. \A a \in Agent : RunsFor(a)' = IF a = tgt[r] THEN {n} ELSE RunsFor(a)
  <2>1. ASSUME NEW a \in Agent, a # tgt[r] PROVE RunsFor(a)' = RunsFor(a)
    BY <1>2, <1>5, <1>6, <2>1 DEF RunsFor
  <2>2. ASSUME NEW a \in Agent, a = tgt[r] PROVE RunsFor(a)' = {n}
    <3>1. \A p \in Pid \ {n} : ~(Live(p) /\ owner[p] = a /\ p \notin exposed)
      BY <1>4, <2>2 DEF RunsFor
    <3> QED BY <1>2, <1>4, <1>5, <1>6, <2>2, <3>1 DEF RunsFor
  <2> QED BY <2>1, <2>2
<1>9. Running' = [Running EXCEPT ![tgt[r]] = {n}]
  BY <1>8 DEF Running
<1>10. PICK a \in Agent : a = tgt[r]
  BY <1>3
<1>11. Service!Spawn(a)
  BY <1>2, <1>3, <1>4, <1>7, <1>9, <1>10 DEF Service!Spawn, Service!Down,
     Service!rowVars, Running, Spawned
<1> QED BY <1>11 DEF Service!Next

LEMMA CommitRefines ==
  ASSUME IInv, SerialInv, NEW r \in Req, StartCommit(r)
  PROVE  Service!Next
<1>1. pc[r] = "commit" /\ UNCHANGED <<srv, owner, exposed, crashes>>
  BY DEF StartCommit, srvVars, downVars
<1>2. /\ RunsFor(tgt[r]) \subseteq {pid[r]}
      /\ pid[r] \in Pid /\ pid[r] \in Spawned
      /\ tgt[r] \in Agent /\ row[tgt[r]].status \in {"stopped", "error"}
  BY <1>1, OnlyItsOwn DEF Spawned
<1>3. /\ verdict[r] \in {"running", "error"}
      /\ verdict[r] = "error" => ~Live(pid[r])
  BY <1>1 DEF IInv, StartInv, PcInv, SerialInv, PhaseInv
<1>4. verdict[r] = "error" => RunsFor(tgt[r]) = {}
  BY <1>2, <1>3 DEF RunsFor
<1>5. row' = [row EXCEPT ![tgt[r]] = [status |-> verdict[r], pid |-> pid[r]]]
  BY <1>2 DEF StartCommit, Exists
<1>6. \A a \in Agent :
        /\ row'[a].status = IF a = tgt[r] THEN verdict[r] ELSE row[a].status
        /\ row'[a].pid = IF a = tgt[r] THEN pid[r] ELSE row[a].pid
  BY <1>2, <1>5, Types
<1>7. /\ Statuses' = [Statuses EXCEPT ![tgt[r]] = verdict[r]]
      /\ Names' = [Names EXCEPT ![tgt[r]] = pid[r]]
  BY <1>6 DEF Statuses, Names
<1>8. /\ Strays' = Strays /\ Spawned' = Spawned /\ crashes' = crashes
      /\ \A a \in Agent : RunsFor(a)' = RunsFor(a)
  BY <1>1 DEF Strays, Spawned, RunsFor, Live
<1>9. PICK a \in Agent, s \in {"running", "error"} : a = tgt[r] /\ s = verdict[r]
  BY <1>2, <1>3
<1>10. Service!Report(a, s)
  BY <1>2, <1>4, <1>7, <1>8, <1>9 DEF Service!Report, Service!Down, Statuses, Names
<1> QED BY <1>10 DEF Service!Next

LEMMA MarkRefines ==
  ASSUME IInv, SerialInv, NEW r \in Req, MarkStopped(r)
  PROVE  Service!Next
<1>1. pc[r] = "mark" /\ UNCHANGED <<srv, owner, exposed, crashes>>
  BY DEF MarkStopped, srvVars, downVars
<1>2. tgt[r] \in Agent /\ row[tgt[r]].status = "running" /\ RunsFor(tgt[r]) = {}
  BY <1>1, NothingRuns, Types DEF SerialInv, PhaseInv
<1>3. row' = [row EXCEPT ![tgt[r]] = StoppedRow]
  BY <1>2 DEF MarkStopped, Exists
<1>4. \A a \in Agent :
        /\ row'[a].status = IF a \in {tgt[r]} THEN "stopped" ELSE row[a].status
        /\ row'[a].pid = IF a \in {tgt[r]} THEN None ELSE row[a].pid
  BY <1>2, <1>3, Types DEF StoppedRow
<1>5. /\ Strays' = Strays /\ Spawned' = Spawned /\ crashes' = crashes
      /\ \A a \in Agent : RunsFor(a)' = RunsFor(a)
  BY <1>1 DEF Strays, Spawned, RunsFor, Live
<1>6. PICK A \in SUBSET Agent : A = {tgt[r]}
  BY <1>2
<1>7. Service!Stop(A)
  BY <1>2, <1>4, <1>5, <1>6 DEF Service!Stop
<1> QED BY <1>7 DEF Service!Next

LEMMA DeleteRefines ==
  ASSUME IInv, SerialInv, NEW r \in Req, DeleteRow(r)
  PROVE  Service!Next
<1>1. pc[r] = "got" /\ UNCHANGED <<srv, owner, exposed, crashes>>
  BY DEF DeleteRow, srvVars, downVars
<1>2. /\ tgt[r] \in Agent /\ row[tgt[r]].status \in {"stopped", "error"}
      /\ row' = [row EXCEPT ![tgt[r]] = AbsentRow]
  BY <1>1, Types DEF DeleteRow, SerialInv, PhaseInv, Status
<1>3. RunsFor(tgt[r]) = {}
  BY <1>1, <1>2, NothingRuns
<1>4. \A a \in Agent :
        /\ row'[a].status = IF a = tgt[r] THEN "absent" ELSE row[a].status
        /\ row'[a].pid = IF a = tgt[r] THEN None ELSE row[a].pid
  BY <1>2, Types DEF AbsentRow
<1>5. /\ Statuses' = [Statuses EXCEPT ![tgt[r]] = "absent"]
      /\ Names' = [Names EXCEPT ![tgt[r]] = None]
  BY <1>4 DEF Statuses, Names
<1>6. /\ Strays' = Strays /\ Spawned' = Spawned /\ crashes' = crashes
      /\ \A a \in Agent : RunsFor(a)' = RunsFor(a)
  BY <1>1 DEF Strays, Spawned, RunsFor, Live
<1>7. PICK a \in Agent : a = tgt[r]
  BY <1>2
<1>8. Service!Delete(a)
  BY <1>2, <1>3, <1>5, <1>6, <1>7 DEF Service!Delete, Service!Down, Statuses, Names
<1> QED BY <1>8 DEF Service!Next

(* A server that dies, of itself or by the hand of a stop.                 *)
LEMMA ExitRefines ==
  ASSUME IInv, NEW n \in Pid, srv[n] # "unborn", srv' = [srv EXCEPT ![n] = "dead"],
         UNCHANGED <<row, owner, exposed, crashes>>
  PROVE  Service!Next
<1>1. exposed \subseteq Pid
  BY DEF IInv, TypeOK, DownType
<1>2. \A p \in Pid : /\ Live(p)' <=> Live(p) /\ p # n
                     /\ srv'[p] = "unborn" <=> srv[p] = "unborn"
  BY Types DEF Live
<1>3. Strays' = Strays \ {n} /\ Spawned' = Spawned
  BY <1>1, <1>2 DEF Strays, Spawned
<1>4. \A a \in Agent : RunsFor(a)' = RunsFor(a) \ {n}
  BY <1>2 DEF RunsFor
<1>5. Service!Exit(n)
  BY <1>3, <1>4 DEF Service!Exit, Service!rowVars
<1> QED BY <1>5 DEF Service!Next

(* Of the one request that may be in progress only a start past its spawn  *)
(* has a server to lose, and it has one.                                   *)
LEMMA CrashRefines ==
  ASSUME IInv, SerialInv, Crash
  PROVE  Service!Next
<1> DEFINE Taken == {p \in Pid : \E r \in Req : pid[r] = p /\ pc[r] \in {"wait", "commit"}}
<1>1. /\ UNCHANGED <<row, srv, owner>> /\ exposed' = exposed \cup Taken
      /\ crashes < MaxCrash /\ crashes' = crashes + 1
  BY DEF Crash, srvVars
<1>2. Spawned' = Spawned /\ \A p \in Pid : Live(p)' <=> Live(p)
  BY <1>1 DEF Spawned, Live
<1>3. exposed \subseteq Pid
  BY DEF IInv, TypeOK, DownType
<1>4. CASE Taken = {}
  <2>1. exposed' = exposed
    BY <1>1, <1>4
  <2>2. Strays' = Strays /\ \A a \in Agent : RunsFor(a)' = RunsFor(a)
    BY <1>1, <1>2, <1>3, <2>1 DEF Strays, RunsFor
  <2>3. Service!Crash
    BY <1>1, <1>2, <2>2 DEF Service!Crash, Service!rowVars
  <2> QED BY <2>3 DEF Service!Next
<1>5. ASSUME NEW r \in Req, pc[r] \in {"wait", "commit"}
      PROVE  Service!Next
  <2>1. PICK a \in Agent, n \in Pid : a = tgt[r] /\ n = pid[r]
    BY <1>5, OnlyItsOwn
  <2>2. /\ RunsFor(a) \subseteq {n} /\ owner[n] = a
        /\ row[a].status \in {"stopped", "error"}
    BY <1>5, <2>1, OnlyItsOwn
  <2>3. \A q \in Req : pc[q] \in {"wait", "commit"} => q = r
    BY <1>5 DEF SerialInv, OneAtATime, InProgress, Ended
  <2>4. Taken = {n}
    BY <1>5, <2>1, <2>3
  <2> HIDE DEF Taken
  <2>5. \A b \in Agent : RunsFor(b)' = IF b = a THEN {} ELSE RunsFor(b)
    <3>1. ASSUME NEW b \in Agent PROVE RunsFor(b)' = RunsFor(b) \ {n}
      BY <1>1, <1>2, <2>4 DEF RunsFor
    <3>2. ASSUME NEW b \in Agent, b # a PROVE n \notin RunsFor(b)
      BY <2>2, <3>2 DEF RunsFor
    <3> QED BY <2>2, <3>1, <3>2
  <2>6. Strays' = Strays \cup RunsFor(a)
    <3>1. Strays' = Strays \cup {p \in {n} : Live(p)}
      BY <1>1, <1>2, <1>3, <2>4 DEF Strays
    <3>2. n \notin exposed /\ Live(n) => n \in RunsFor(a)
      BY <2>2 DEF RunsFor
    <3>3. \A p \in RunsFor(a) : p = n /\ Live(p)
      BY <2>2 DEF RunsFor
    <3>4. n \in exposed /\ Live(n) => n \in Strays
      BY DEF Strays
    <3> QED BY <3>1, <3>2, <3>3, <3>4
  <2>7. Running' = [Running EXCEPT ![a] = {}]
    BY <2>5 DEF Running
  <2>8. Service!Crash
    BY <1>1, <1>2, <2>2, <2>6, <2>7 DEF Service!Crash, Service!Down, Service!rowVars,
       Running
  <2> QED BY <2>8 DEF Service!Next
<1> QED BY <1>4, <1>5

(* Recovery marks the agents stopped whose server is gone, all at once.    *)
LEMMA RecoverRefines ==
  ASSUME IInv, SerialInv, Recover
  PROVE  Service!Next
<1> DEFINE Gone(a) == row[a].status = "running" /\ ~Live(row[a].pid)
<1>1. PICK A \in SUBSET Agent : A = {a \in Agent : Gone(a)}
  OBVIOUS
<1>2. UNCHANGED <<srv, owner, exposed, crashes>>
  BY DEF Recover, srvVars
<1>3. \A a \in Agent : row'[a] = IF a \in A THEN StoppedRow ELSE row[a]
  BY <1>1 DEF Recover
<1>4. \A a \in Agent :
        /\ row'[a].status = IF a \in A THEN "stopped" ELSE row[a].status
        /\ row'[a].pid = IF a \in A THEN None ELSE row[a].pid
  BY <1>3 DEF StoppedRow
<1>5. ASSUME NEW a \in A PROVE row[a].status = "running" /\ RunsFor(a) = {}
  <2>1. a \in Agent /\ Gone(a)
    BY <1>1
  <2>2. ASSUME NEW p \in Pid, Live(p), owner[p] = a, p \notin exposed PROVE FALSE
    <3>1. \A r \in Req : ~InProgress(r)
      BY DEF Recover, IInv, PcInv
    <3>2. ~Started(p) /\ ~Stopping(p)
      BY <3>1, Types DEF Started, Stopping, InProgress, Ended
    <3>3. row[a] = [status |-> "running", pid |-> p]
      BY <2>2, <3>2 DEF SerialInv, HeldInv, Serving
    <3>4. row[a].pid = p
      BY <3>3
    <3> QED BY <2>1, <2>2, <3>4
  <2> QED BY <2>1, <2>2 DEF RunsFor
<1>6. /\ Strays' = Strays /\ Spawned' = Spawned /\ crashes' = crashes
      /\ \A a \in Agent : RunsFor(a)' = RunsFor(a)
  BY <1>2 DEF Strays, Spawned, RunsFor, Live
<1>7. Service!Stop(A)
  BY <1>1, <1>4, <1>5, <1>6 DEF Service!Stop
<1> QED BY <1>7 DEF Service!Next

LEMMA ServersRefine ==
  ASSUME IInv, NEW s \in Pid, ServerStep(s)
  PROVE  Service!Next \/ UNCHANGED Service!svars
<1>1. UNCHANGED <<row, owner, exposed, crashes>>
  BY DEF ServerStep, ServerOpens, ServerWritesSentinel, ServerExits, dbVars, downVars
<1>2. CASE ServerExits(s)
  <2>1. srv[s] # "unborn" /\ srv' = [srv EXCEPT ![s] = "dead"]
    BY <1>2 DEF ServerExits, Live
  <2> QED BY <1>1, <2>1, ExitRefines
<1>3. CASE ServerOpens(s) \/ ServerWritesSentinel(s)
  <2>1. \A p \in Pid : /\ Live(p)' <=> Live(p)
                       /\ srv'[p] = "unborn" <=> srv[p] = "unborn"
    BY <1>3, Types DEF ServerOpens, ServerWritesSentinel, Live
  <2> QED BY <1>1, <2>1, SameService DEF IInv, TypeOK, DownType
<1> QED BY <1>2, <1>3 DEF ServerStep

LEMMA NextService ==
  ASSUME ClientsWait, IInv, SerialInv, TakenInv, [Next]_vars
  PROVE  Service!Next \/ UNCHANGED Service!svars
<1>1. CASE \E r \in Req : StartSpawn(r) \/ StartCommit(r) \/ MarkStopped(r) \/ DeleteRow(r)
  BY <1>1, SpawnRefines, CommitRefines, MarkRefines, DeleteRefines
<1>2. ASSUME NEW r \in Req, StopKill(r) PROVE Service!Next
  <2>1. PICK n \in Pid : n = pid[r] /\ Live(n)
    BY <1>2, Types DEF StopKill, Live
  <2>2. /\ srv[n] # "unborn" /\ srv' = [srv EXCEPT ![n] = "dead"]
        /\ UNCHANGED <<row, owner, exposed, crashes>>
    BY <1>2, <2>1 DEF StopKill, Live, dbVars, downVars
  <2> QED BY <2>2, ExitRefines
<1>3. CASE Crash \/ Recover
  BY <1>3, CrashRefines, RecoverRefines
<1>4. CASE \E s \in Pid : ServerStep(s)
  BY <1>4, ServersRefine
<1>5. CASE UNCHANGED <<row, srv, owner, exposed, crashes>>
  BY <1>5, QuietRefines
<1>6. \/ UNCHANGED <<row, srv, owner, exposed, crashes>>
      \/ \E r \in Req : StartSpawn(r) \/ StartCommit(r) \/ MarkStopped(r)
                        \/ DeleteRow(r) \/ StopKill(r)
      \/ Crash \/ Recover \/ \E s \in Pid : ServerStep(s)
  BY DEF Next, Read, Handle, Refuse, Busy, StartMark, StartSpawnFails, StartReady,
     StopBegin, StopExited, StatusCheck, vars, dbVars, srvVars, downVars
<1> QED BY <1>1, <1>2, <1>3, <1>4, <1>5, <1>6

(* Handlers, sessions, the process manager and recovery together keep what *)
(* AgentService promises the operator, if clients wait.                    *)
THEOREM ServiceImplemented ==
  ASSUME ClientsWait PROVE Spec => ImplementsService
<1>1. Init => Service!Init /\ IInv /\ SerialInv /\ TakenInv
  BY InitService, InitIInv, InitSerial
<1>2. (IInv /\ SerialInv /\ TakenInv) /\ [Next]_vars => (IInv /\ SerialInv /\ TakenInv)'
  BY IInvStep, OneStep, RestStep, TakenStep DEF SerialInv, Rest
<1>3. (IInv /\ SerialInv /\ TakenInv) /\ [Next]_vars => [Service!Next]_(Service!svars)
  BY NextService
<1> QED BY <1>1, <1>2, <1>3, PTL DEF Spec, ImplementsService, Service!Spec
=============================================================================
