----------------------- MODULE AgentLifecycle_proofs -----------------------
(***************************************************************************)
(* Proofs about AgentLifecycle, for any number of agents, requests,        *)
(* processes and crashes, and for clients that wait or do not.             *)
(***************************************************************************)
EXTENDS AgentLifecycle, TLAPS

(***************************************************************************)
(* The inductive invariant                                                 *)
(***************************************************************************)

Born(p) == p = None \/ srv[p] # "unborn"

(* Each kind of handler has its own places to wait, and a control plane    *)
(* that is down has no handlers.                                           *)
PcInv ==
  \A r \in Req :
    /\ pc[r] \in {"spawn", "wait", "commit"} => r \in StartReqs
    /\ pc[r] = "term" => r \in StopReqs
    /\ ~up => ~InProgress(r)

(* The agent of the start that holds the lock exists: nobody else can      *)
(* delete it, so the commit finds the row and releases the lock.           *)
LockInv == LockHeldByStart /\ (lock # NoReq => Exists(tgt[lock]))

(* Every pid that is written down anywhere was spawned.                    *)
BornInv ==
  /\ \A a \in Agent : Born(row[a].pid) /\ Born(procs[a]) /\ Born(orphan[a])
  /\ \A r \in Req : Born(rec[r].pid) /\ Born(pid[r])

(* What a stop has terminated, or found dead, is dead.                     *)
StopInv ==
  \A r \in StopReqs : pc[r] \in {"mark", "done"} =>
                        pid[r] = None \/ srv[pid[r]] = "dead"

(* A start spawns once, for its own agent.                                 *)
StartInv ==
  \A r \in StartReqs :
    /\ pc[r] \in {"new", "got", "spawn"} => pid[r] = None
    /\ pc[r] \in {"wait", "commit"} => pid[r] # None
    /\ pc[r] = "commit" => verdict[r] \in {"running", "error"}
    /\ pid[r] # None => owner[pid[r]] = tgt[r]

IInv == /\ TypeOK /\ PcInv /\ LockInv /\ BornInv
        /\ StopInv /\ StartInv /\ RunningPidWasSpawned

(***************************************************************************)
(* Type correctness                                                        *)
(***************************************************************************)

LEMMA DbUnchanged == DbType /\ UNCHANGED dbVars => DbType'
BY DEF DbType, dbVars

LEMMA ReqUnchanged == ReqType /\ UNCHANGED reqVars => ReqType'
BY DEF ReqType, reqVars

LEMMA ManagerUnchanged == ManagerType /\ UNCHANGED pmVars => ManagerType'
BY DEF ManagerType, pmVars

LEMMA ServerUnchanged == ServerType /\ UNCHANGED srvVars => ServerType'
BY DEF ServerType, srvVars

LEMMA DownUnchanged == DownType /\ UNCHANGED downVars => DownType'
BY DEF DownType, downVars

(* A handler that moves on and changes nothing else of its own.            *)
LEMMA GotoType ==
  ASSUME ReqType, NEW r \in Req, NEW l \in ReqPC, Goto(r, l),
         UNCHANGED <<tgt, rec, pid, verdict>>
  PROVE  ReqType'
BY DEF ReqType, Goto

(* is_running leaves a well typed table of orphans.                        *)
LEMMA PruneType ==
  ASSUME ManagerType, NEW a \in Agent, PruneOrphan(a)
  PROVE  orphan' \in [Agent -> 0 .. MaxPid]
<1>1. (IF IsRunning(a) THEN orphan[a] ELSE None) \in 0 .. MaxPid
  BY LifecycleAssumption DEF ManagerType, None
<1> QED BY <1>1 DEF ManagerType, PruneOrphan

LEMMA Rows ==
  /\ StoppedRow \in [status : Status \ {"starting"}, pid : 0 .. MaxPid]
  /\ AbsentRow \in [status : Status \ {"starting"}, pid : 0 .. MaxPid]
  /\ [status : Status \ {"starting"}, pid : 0 .. MaxPid] \subseteq Row
BY LifecycleAssumption DEF StoppedRow, AbsentRow, Status, Row, None

LEMMA InitTypeOK == Init => TypeOK
<1> SUFFICES ASSUME Init PROVE TypeOK
  OBVIOUS
<1>1. DbType
  BY Rows DEF Init, DbType
<1>2. ReqType
  BY Rows, LifecycleAssumption DEF Init, ReqType, ReqPC, None
<1>3. ManagerType
  BY LifecycleAssumption DEF Init, ManagerType, None
<1>4. ServerType
  BY RequestAssumption DEF Init, ServerType, SrvState
<1>5. DownType
  BY LifecycleAssumption DEF Init, DownType
<1> QED BY <1>1, <1>2, <1>3, <1>4, <1>5 DEF TypeOK

LEMMA HandleType ==
  ASSUME TypeOK, PcInv, NEW r \in Req, Handle(r)
  PROVE  TypeOK'
<1> USE DEF TypeOK
<1>p. \A l \in {"refused", "failed", "spawn", "wait", "commit", "term",
                "mark", "done", "got"} : l \in ReqPC
  BY DEF ReqPC, Ended
<1>t. tgt[r] \in Agent
  BY DEF ReqType
<1>1. CASE Refuse(r) \/ Busy(r)
  BY <1>1, <1>p, GotoType, DbUnchanged, ManagerUnchanged, ServerUnchanged,
     DownUnchanged DEF Refuse, Busy
<1>2. CASE StartMark(r)
  <2>1. DbType'
    BY <1>2 DEF StartMark, DbType
  <2> QED BY <1>2, <2>1, <1>p, GotoType, ManagerUnchanged, ServerUnchanged,
             DownUnchanged DEF StartMark
<1>3. CASE StartSpawn(r)
  <2>1. PICK p \in Pid : /\ srv' = [srv EXCEPT ![p] = "boot"]
                         /\ owner' = [owner EXCEPT ![p] = tgt[r]]
                         /\ procs' = [procs EXCEPT ![tgt[r]] = p]
                         /\ pid' = [pid EXCEPT ![r] = p]
    BY <1>3 DEF StartSpawn
  <2>2. p \in 0 .. MaxPid
    BY LifecycleAssumption DEF Pid
  <2>3. ReqType'
    BY <1>3, <1>p, <2>1, <2>2 DEF StartSpawn, ReqType, Goto
  <2>4. ManagerType'
    BY <1>3, <1>t, <2>1, <2>2 DEF StartSpawn, ManagerType
  <2>5. ServerType'
    BY <1>3, <1>t, <2>1 DEF StartSpawn, ServerType, SrvState
  <2> QED BY <1>3, <2>3, <2>4, <2>5, DbUnchanged, DownUnchanged DEF StartSpawn
<1>4. CASE StartSpawnFails(r)
  <2>1. DbType'
    BY <1>4 DEF StartSpawnFails, DbType
  <2> QED BY <1>4, <2>1, <1>p, GotoType, ManagerUnchanged, ServerUnchanged,
             DownUnchanged DEF StartSpawnFails
<1>5. CASE StartReady(r)
  <2>1. ReqType'
    BY <1>5, <1>p DEF StartReady, ReqType, Goto
  <2>2. ManagerType'
    BY <1>5, <1>t, PruneType DEF StartReady, ManagerType
  <2>3. ServerType'
    BY <1>5, <1>t DEF StartReady, ServerType
  <2> QED BY <1>5, <2>1, <2>2, <2>3, DbUnchanged, DownUnchanged DEF StartReady
<1>6. CASE StartCommit(r)
  <2>1. [status |-> verdict[r], pid |-> pid[r]]
           \in [status : Status \ {"starting"}, pid : 0 .. MaxPid]
    BY DEF ReqType, Status
  <2>2. DbType'
    BY <1>6, <2>1 DEF StartCommit, DbType, dbVars
  <2> QED BY <1>6, <2>2, <1>p, GotoType, ManagerUnchanged, ServerUnchanged,
             DownUnchanged DEF StartCommit
<1>7. CASE StopBegin(r)
  <2> DEFINE p == IF procs[tgt[r]] # None THEN procs[tgt[r]]
                  ELSE IF orphan[tgt[r]] # None THEN orphan[tgt[r]]
                  ELSE rec[r].pid
  <2>1. p \in 0 .. MaxPid
    BY <1>t DEF ReqType, ManagerType, Row
  <2>2. pid' = [pid EXCEPT ![r] = p]
    BY <1>7 DEF StopBegin
  <2>3. \E l \in ReqPC : pc' = [pc EXCEPT ![r] = l]
    BY <1>7, <1>p DEF StopBegin, Goto
  <2> HIDE DEF p
  <2>4. ReqType'
    BY <1>7, <2>1, <2>2, <2>3 DEF StopBegin, ReqType
  <2>5. ManagerType'
    <3>1. /\ procs' = [procs EXCEPT ![tgt[r]] = None]
          /\ orphan' = [orphan EXCEPT ![tgt[r]] = None]
      BY <1>7 DEF StopBegin
    <3> QED BY <3>1, <1>t, LifecycleAssumption DEF ManagerType, None
  <2> QED BY <1>7, <2>4, <2>5, DbUnchanged, ServerUnchanged, DownUnchanged
          DEF StopBegin
<1>8. CASE StopExited(r)
  BY <1>8, <1>p, GotoType, DbUnchanged, ManagerUnchanged, ServerUnchanged,
     DownUnchanged DEF StopExited
<1>9. CASE StopKill(r)
  <2>1. ServerType'
    BY <1>9 DEF StopKill, ServerType, SrvState
  <2> QED BY <1>9, <2>1, <1>p, GotoType, DbUnchanged, ManagerUnchanged,
             DownUnchanged DEF StopKill
<1>10. CASE MarkStopped(r)
  <2>1. DbType'
    BY <1>10, Rows DEF MarkStopped, DbType
  <2> QED BY <1>10, <2>1, <1>p, GotoType, ManagerUnchanged, ServerUnchanged,
             DownUnchanged DEF MarkStopped
<1>11. CASE DeleteRow(r)
  <2>1. DbType'
    BY <1>11, Rows DEF DeleteRow, DbType
  <2> QED BY <1>11, <2>1, <1>p, GotoType, ManagerUnchanged, ServerUnchanged,
             DownUnchanged DEF DeleteRow
<1>12. CASE StatusCheck(r)
  <2>1. ManagerType'
    BY <1>12, <1>t, PruneType DEF StatusCheck, ManagerType
  <2>2. ReqType'
    <3>1. CASE IsRunning(tgt[r])
      BY <1>12, <1>p, <3>1, GotoType DEF StatusCheck
    <3>2. CASE ~IsRunning(tgt[r])
      BY <1>12, <1>p, <3>2, GotoType DEF StatusCheck
    <3> QED BY <3>1, <3>2
  <2> QED BY <1>12, <2>1, <2>2, DbUnchanged, ServerUnchanged, DownUnchanged
          DEF StatusCheck
<1> QED BY <1>1, <1>2, <1>3, <1>4, <1>5, <1>6, <1>7, <1>8, <1>9, <1>10,
           <1>11, <1>12 DEF Handle

LEMMA TypeStep ==
  ASSUME TypeOK, PcInv, [Next]_vars PROVE TypeOK'
<1> USE DEF TypeOK
<1>1. ASSUME NEW r \in Req, Read(r) PROVE TypeOK'
  <2>1. tgt[r] \in Agent /\ "got" \in ReqPC
    BY DEF ReqType, ReqPC
  <2>2. row[tgt[r]] \in Row
    BY <2>1, Rows DEF DbType
  <2>3. ReqType'
    BY <1>1, <2>1, <2>2 DEF Read, ReqType, Goto
  <2> QED BY <1>1, <2>3, DbUnchanged, ManagerUnchanged, ServerUnchanged,
             DownUnchanged DEF Read
<1>2. ASSUME NEW r \in Req, Handle(r) PROVE TypeOK'
  BY <1>2, HandleType
<1>3. CASE Crash
  <2>1. DbType'
    BY <1>3 DEF Crash, DbType
  <2>2. ReqType'
    BY <1>3 DEF Crash, ReqType, ReqPC, Ended
  <2>3. ManagerType'
    BY <1>3, LifecycleAssumption DEF Crash, ManagerType, None
  <2>4. DownType'
    <3>1. crashes' \in 0 .. MaxCrash /\ up' \in BOOLEAN
      <4>1. up' = FALSE /\ crashes' = crashes + 1 /\ crashes < MaxCrash
        BY <1>3 DEF Crash
      <4>2. crashes \in 0 .. MaxCrash /\ MaxCrash \in Nat
        BY LifecycleAssumption DEF DownType
      <4>3. crashes' \in 0 .. MaxCrash
        BY <4>1, <4>2
      <4> QED BY <4>1, <4>3
    <3>2. exposed' \subseteq Pid
      BY <1>3, Zenon DEF Crash, DownType
    <3> QED BY <3>1, <3>2 DEF DownType
  <2> QED BY <1>3, <2>1, <2>2, <2>3, <2>4, ServerUnchanged DEF Crash
<1>4. CASE Recover
  <2>1. \A a \in Agent : row[a].pid \in 0 .. MaxPid
    BY DEF DbType
  <2>2. DbType'
    BY <1>4, Rows DEF Recover, DbType
  <2>3. ManagerType'
    BY <1>4, <2>1, LifecycleAssumption DEF Recover, ManagerType, None
  <2>4. DownType'
    BY <1>4 DEF Recover, DownType
  <2> QED BY <1>4, <2>2, <2>3, <2>4, ReqUnchanged, ServerUnchanged DEF Recover
<1>5. ASSUME NEW p \in Pid, ServerStep(p) PROVE TypeOK'
  <2>1. ServerType'
    BY <1>5 DEF ServerStep, ServerOpens,
       ServerWritesSentinel, ServerExits, ServerType,
                SrvState
  <2> QED BY <1>5, <2>1, DbUnchanged, ReqUnchanged, ManagerUnchanged,
             DownUnchanged DEF ServerStep, ServerOpens,
             ServerWritesSentinel, ServerExits
<1>6. CASE UNCHANGED vars
  BY <1>6, DbUnchanged, ReqUnchanged, ManagerUnchanged, ServerUnchanged,
     DownUnchanged DEF vars
<1> QED BY <1>1, <1>2, <1>3, <1>4, <1>5, <1>6 DEF Next

(***************************************************************************)
(* The other parts of the invariant, one lemma each                        *)
(***************************************************************************)

LEMMA PcStep ==
  ASSUME TypeOK, PcInv, [Next]_vars PROVE PcInv'
<1> USE DEF TypeOK, DownType
<1>t. pc \in [Req -> ReqPC]
  BY DEF ReqType
<1>1. ASSUME NEW r \in Req, Read(r) PROVE PcInv'
  BY <1>t, <1>1 DEF Read, PcInv, InProgress, Goto, downVars
<1>2. ASSUME NEW r \in Req, Handle(r) PROVE PcInv'
  <2>1. up /\ up' = up
    BY <1>t, <1>2 DEF Handle, Refuse, Busy, StartMark, StartSpawn,
       StartSpawnFails, StartReady, StartCommit, StopBegin, StopExited,
       StopKill, MarkStopped, DeleteRow, StatusCheck, PcInv, InProgress,
       Ended, downVars
  <2>2. \E l \in ReqPC :
          /\ Goto(r, l)
          /\ l \in {"spawn", "wait", "commit"} => r \in StartReqs
          /\ l = "term" => r \in StopReqs
    <3>1. CASE StopBegin(r)
      BY <3>1 DEF StopBegin, ReqPC, Ended
    <3>2. CASE StatusCheck(r)
      BY <3>2 DEF StatusCheck, ReqPC, Ended
    <3>3. CASE ~StopBegin(r) /\ ~StatusCheck(r)
      BY <1>2, <3>3 DEF Handle, Refuse, Busy, StartMark, StartSpawn,
         StartSpawnFails, StartReady, StartCommit, StopExited, StopKill,
         MarkStopped, DeleteRow, PcInv, ReqPC, Ended
    <3> QED BY <3>1, <3>2, <3>3
  <2> QED BY <1>t, <2>1, <2>2 DEF PcInv, Goto
<1>3. CASE Crash
  BY <1>t, <1>3 DEF Crash, PcInv, InProgress, Ended
<1>4. CASE Recover
  BY <1>4 DEF Recover, PcInv, reqVars, InProgress
<1>5. ASSUME NEW p \in Pid, ServerStep(p) PROVE PcInv'
  BY <1>5 DEF ServerStep, ServerOpens,
       ServerWritesSentinel, ServerExits, PcInv, reqVars,
              downVars, InProgress
<1>6. CASE UNCHANGED vars
  BY <1>6 DEF vars, PcInv, reqVars, downVars, InProgress
<1> QED BY <1>1, <1>2, <1>3, <1>4, <1>5, <1>6 DEF Next

(* A step that leaves the database, the targets and up alone, and moves no *)
(* handler into or out of the transaction of a start.                      *)
LEMMA LockFrame ==
  ASSUME LockInv, UNCHANGED <<dbVars, tgt, up>>,
         \A q \in StartReqs : pc'[q] \in {"spawn", "wait", "commit"}
                              <=> pc[q] \in {"spawn", "wait", "commit"},
         DbType
  PROVE  LockInv'
BY RequestAssumption DEF LockInv, LockHeldByStart, dbVars, Exists, DbType

LEMMA LockStep ==
  ASSUME TypeOK, PcInv, StartInv, LockInv, [Next]_vars PROVE LockInv'
<1> USE DEF TypeOK
<1>t. pc \in [Req -> ReqPC] /\ tgt \in [Req -> Agent] /\ StartReqs \subseteq Req
      /\ DbType /\ NoReq \notin StartReqs
  BY RequestAssumption DEF ReqType, Req, Command
<1> DEFINE Inside == {"spawn", "wait", "commit"}
<1>1. ASSUME NEW r \in Req, Read(r) PROVE LockInv'
  BY <1>t, <1>1, LockFrame DEF Read, Goto, downVars
<1>2. ASSUME NEW r \in Req, Handle(r) PROVE LockInv'
  <2>1. CASE Refuse(r) \/ Busy(r)
    BY <1>t, <2>1, LockFrame DEF Refuse, Busy, Goto, downVars
  <2>2. CASE StartMark(r)
    <3>1. up
      BY <2>2, <1>t DEF StartMark, PcInv, InProgress, Ended
    <3>2. /\ pc' = [pc EXCEPT ![r] = "spawn"] /\ r \in StartReqs
          /\ lock' = IF Exists(tgt[r]) THEN r ELSE lock
          /\ row' = row /\ tgt' = tgt /\ up' = up
          /\ CanWrite(tgt[r]) /\ pc[r] = "got"
      BY <2>2 DEF StartMark, Goto, downVars
    <3> QED BY <1>t, <3>1, <3>2 DEF LockInv, LockHeldByStart, CanWrite, Exists
  <2>3. CASE StartSpawn(r)
    BY <1>t, <2>3, LockFrame DEF StartSpawn, Goto, downVars
  <2>4. CASE StartSpawnFails(r)
    <3>1. /\ pc' = [pc EXCEPT ![r] = "failed"] /\ r \in StartReqs /\ pc[r] = "spawn"
          /\ lock' = IF lock = r THEN NoReq ELSE lock
          /\ row' = row /\ tgt' = tgt /\ up' = up
      BY <2>4 DEF StartSpawnFails, Goto, downVars, PcInv
    <3> QED BY <1>t, <3>1 DEF LockInv, LockHeldByStart, Exists, DbType
  <2>5. CASE StartReady(r)
    BY <1>t, <2>5, LockFrame DEF StartReady, Goto, downVars
  <2>6. CASE StartCommit(r)
    <3>1. /\ pc' = [pc EXCEPT ![r] = "done"] /\ r \in StartReqs /\ pc[r] = "commit"
          /\ tgt' = tgt /\ up' = up
      BY <2>6 DEF StartCommit, Goto, downVars, PcInv
    <3>2. CASE Exists(tgt[r])
      <4>1. lock = r /\ lock' = NoReq
        BY <2>6, <3>1, <3>2 DEF StartCommit, LockInv, LockHeldByStart
      <4>2. verdict[r] # "absent"
        BY <3>1 DEF StartInv
      <4>3. row' = [row EXCEPT ![tgt[r]] = [status |-> verdict[r], pid |-> pid[r]]]
        BY <2>6, <3>2 DEF StartCommit
      <4>4. \A a \in Agent : Exists(a)' <=> Exists(a)
        BY <4>2, <4>3, <3>2, <1>t DEF Exists, DbType
      <4> QED BY <1>t, <3>1, <4>1, <4>4 DEF LockInv, LockHeldByStart
    <3>3. CASE ~Exists(tgt[r])
      <4>1. lock # r /\ UNCHANGED <<row, lock>>
        BY <2>6, <3>3, <1>t, <3>1 DEF StartCommit, LockInv, dbVars
      <4> QED BY <1>t, <3>1, <4>1 DEF LockInv, LockHeldByStart, Exists, DbType
    <3> QED BY <3>2, <3>3
  <2>7. CASE StopBegin(r)
    <3>1. /\ \E l \in {"term", "mark", "failed"} : pc' = [pc EXCEPT ![r] = l]
          /\ pc[r] = "got" /\ UNCHANGED <<dbVars, tgt, up>>
      BY <2>7 DEF StopBegin, Goto, downVars
    <3> QED BY <1>t, <3>1, LockFrame
  <2>8. CASE StopExited(r) \/ StopKill(r)
    BY <1>t, <2>8, LockFrame DEF StopExited, StopKill, Goto, downVars
  <2>9. CASE MarkStopped(r) \/ DeleteRow(r)
    <3>1. /\ pc' = [pc EXCEPT ![r] = "done"] /\ pc[r] \in {"mark", "got"}
          /\ CanWrite(tgt[r]) /\ lock' = lock /\ tgt' = tgt /\ up' = up
      BY <2>9 DEF MarkStopped, DeleteRow, Goto, downVars
    <3>2. \A a \in Agent : Exists(a)' => Exists(a)
      BY <2>9, <1>t DEF MarkStopped, DeleteRow, Exists, DbType,
         StoppedRow, AbsentRow
    <3>3. lock # NoReq => \A a \in Agent : Exists(a)' <=> Exists(a)
      BY <2>9, <3>1, <1>t DEF MarkStopped, DeleteRow, Exists, DbType,
         StoppedRow, AbsentRow, CanWrite
    <3> QED BY <1>t, <3>1, <3>2, <3>3 DEF LockInv, LockHeldByStart, DbType
  <2>10. CASE StatusCheck(r)
    <3>1. /\ \E l \in {"done", "mark"} : pc' = [pc EXCEPT ![r] = l]
          /\ pc[r] = "got" /\ UNCHANGED <<dbVars, tgt, up>>
      BY <2>10 DEF StatusCheck, Goto, downVars
    <3> QED BY <1>t, <3>1, LockFrame
  <2> QED BY <1>2, <2>1, <2>2, <2>3, <2>4, <2>5, <2>6, <2>7, <2>8, <2>9, <2>10
          DEF Handle
<1>3. CASE Crash
  <2>1. \A q \in Req : pc'[q] \notin Inside
    BY <1>3, <1>t DEF Crash, InProgress, Ended
  <2> QED BY <1>3, <1>t, <2>1 DEF Crash, LockInv, LockHeldByStart
<1>4. CASE Recover
  <2>1. \A a \in Agent : Exists(a)' <=> Exists(a)
    BY <1>4, <1>t DEF Recover, Exists, DbType, StoppedRow
  <2>2. UNCHANGED <<lock, pc, tgt>> /\ lock = NoReq
    BY <1>4, <1>t DEF Recover, reqVars, LockInv, LockHeldByStart
  <2> QED BY <1>t, <2>1, <2>2 DEF LockInv, LockHeldByStart
<1>5. ASSUME NEW p \in Pid, ServerStep(p) PROVE LockInv'
  BY <1>5, <1>t, LockFrame
     DEF ServerStep, ServerOpens,
       ServerWritesSentinel, ServerExits, reqVars, downVars
<1>6. CASE UNCHANGED vars
  BY <1>6, <1>t, LockFrame DEF vars, reqVars, downVars
<1> QED BY <1>1, <1>2, <1>3, <1>4, <1>5, <1>6 DEF Next

(* A process is spawned once and dies once, and its agent never changes.   *)
History(p) == /\ srv[p] # "unborn" => srv'[p] # "unborn" /\ owner'[p] = owner[p]
              /\ srv[p] = "dead" => srv'[p] = "dead"

LEMMA ServerHistory ==
  ASSUME TypeOK, [Next]_vars PROVE \A p \in Pid : History(p)
<1> USE DEF TypeOK, ServerType, History
<1>1. CASE UNCHANGED <<srv, owner>>
  BY <1>1
<1>2. ASSUME NEW r \in Req, StartSpawn(r) PROVE \A p \in Pid : History(p)
  BY <1>2 DEF StartSpawn
<1>3. ASSUME NEW r \in Req, StopKill(r) PROVE \A p \in Pid : History(p)
  BY <1>3 DEF StopKill
<1>4. ASSUME NEW q \in Pid, ServerStep(q) PROVE \A p \in Pid : History(p)
  BY <1>4 DEF ServerStep, ServerOpens,
             ServerWritesSentinel, ServerExits
<1>5. ASSUME NEW r \in Req, Read(r) \/ Handle(r), ~StartSpawn(r), ~StopKill(r)
      PROVE  UNCHANGED <<srv, owner>>
  BY <1>5 DEF Read, Handle, Refuse, Busy, StartMark, StartSpawnFails,
     StartReady, StartCommit, StopBegin, StopExited, MarkStopped, DeleteRow,
     StatusCheck, srvVars
<1>6. CASE Crash \/ Recover \/ UNCHANGED vars
  BY <1>6 DEF Crash, Recover, vars, srvVars
<1> QED BY <1>1, <1>2, <1>3, <1>4, <1>5, <1>6 DEF Next

(* What was written down and what a step writes down has been spawned.     *)
LEMMA BornStep ==
  ASSUME TypeOK, BornInv, [Next]_vars PROVE BornInv'
<1> USE DEF TypeOK, DbType, ReqType, ManagerType
<1>b. \A p \in 0 .. MaxPid : Born(p) => Born(p)'
  BY ServerHistory DEF History, Born, Pid, None
<1>n. Born(None)' /\ None \in 0 .. MaxPid
  BY LifecycleAssumption DEF Born, None
<1>t. /\ tgt \in [Req -> Agent]
      /\ \A a \in Agent : {row[a].pid, procs[a], orphan[a]} \subseteq 0 .. MaxPid
      /\ \A r \in Req : {rec[r].pid, pid[r]} \subseteq 0 .. MaxPid
  BY DEF Row
<1>1. \A a \in Agent : Born(row[a].pid)'
  <2>1. ASSUME NEW r \in Req, StartCommit(r) PROVE \A a \in Agent : row'[a].pid \in {row[a].pid, pid[r]}
    BY <2>1, <1>t DEF StartCommit, dbVars
  <2>2. ASSUME NEW r \in Req, MarkStopped(r) \/ DeleteRow(r)
        PROVE  \A a \in Agent : row'[a].pid \in {row[a].pid, None}
    BY <2>2, <1>t DEF MarkStopped, DeleteRow, StoppedRow, AbsentRow
  <2>3. CASE Recover
    <3>1. \A a \in Agent : row'[a].pid \in {row[a].pid, None}
      BY <2>3, <1>t DEF Recover, StoppedRow
    <3> QED BY <3>1, <1>b, <1>n, <1>t DEF BornInv, Born
  <2>4. ASSUME NEW r \in Req, Read(r) \/ Handle(r),
               ~StartCommit(r), ~MarkStopped(r), ~DeleteRow(r)
        PROVE  row' = row
    BY <2>4 DEF Read, Handle, Refuse, Busy, StartMark, StartSpawn,
       StartSpawnFails, StartReady, StopBegin, StopExited, StopKill,
       StatusCheck, dbVars
  <2>5. CASE row' = row
    BY <2>5, <1>b, <1>t DEF BornInv, Born
  <2>6. CASE Crash \/ (\E p \in Pid : ServerStep(p)) \/ UNCHANGED vars
    BY <2>5, <2>6 DEF Crash, ServerStep, ServerOpens, ServerWritesSentinel,
       ServerExits, vars, dbVars
  <2>7. ASSUME NEW r \in Req, StartCommit(r) PROVE \A a \in Agent : Born(row[a].pid)'
    BY <2>1, <2>7, <1>b, <1>t DEF BornInv, Born
  <2>8. ASSUME NEW r \in Req, MarkStopped(r) \/ DeleteRow(r) PROVE \A a \in Agent : Born(row[a].pid)'
    BY <2>2, <2>8, <1>b, <1>n, <1>t DEF BornInv, Born
  <2> QED BY <2>3, <2>4, <2>5, <2>6, <2>7, <2>8 DEF Next, Handle
<1>2. \A a \in Agent : Born(procs[a])'
  <2>1. ASSUME NEW r \in Req, StartSpawn(r) PROVE \A a \in Agent : Born(procs[a])'
    <3>1. PICK p \in Pid : srv' = [srv EXCEPT ![p] = "boot"] /\ procs' = [procs EXCEPT ![tgt[r]] = p]
      BY <2>1 DEF StartSpawn
    <3> QED BY <3>1, <1>b, <1>t DEF BornInv, Born, ServerType
  <2>2. ASSUME NEW r \in Req, StopBegin(r) PROVE \A a \in Agent : Born(procs[a])'
    <3>1. procs' = [procs EXCEPT ![tgt[r]] = None]
      BY <2>2 DEF StopBegin
    <3> QED BY <3>1, <1>b, <1>n, <1>t DEF BornInv, Born
  <2>3. CASE Crash
    BY <2>3, <1>n DEF Crash
  <2>4. ASSUME NEW r \in Req, Read(r) \/ Handle(r), ~StartSpawn(r), ~StopBegin(r)
        PROVE  procs' = procs
    BY <2>4 DEF Read, Handle, Refuse, Busy, StartMark, StartSpawnFails,
       StartReady, StartCommit, StopExited, StopKill, MarkStopped,
       DeleteRow, StatusCheck, pmVars
  <2>5. CASE procs' = procs
    BY <2>5, <1>b, <1>t DEF BornInv, Born
  <2>6. CASE Recover \/ (\E p \in Pid : ServerStep(p)) \/ UNCHANGED vars
    BY <2>5, <2>6 DEF Recover, ServerStep, ServerOpens, ServerWritesSentinel,
       ServerExits, vars, pmVars
  <2> QED BY <2>1, <2>2, <2>3, <2>4, <2>5, <2>6 DEF Next, Handle
<1>3. \A a \in Agent : Born(orphan[a])'
  <2>1. ASSUME NEW r \in Req, StartReady(r) \/ StatusCheck(r) \/ StopBegin(r)
        PROVE  \A a \in Agent : orphan'[a] \in {orphan[a], None}
    <3>1. CASE StopBegin(r)
      BY <3>1, <1>t DEF StopBegin
    <3>2. CASE StartReady(r) \/ StatusCheck(r)
      BY <3>2, <1>t DEF StartReady, StatusCheck, PruneOrphan
    <3> QED BY <2>1, <3>1, <3>2
  <2>2. ASSUME NEW r \in Req, StartReady(r) \/ StatusCheck(r) \/ StopBegin(r)
        PROVE  \A a \in Agent : Born(orphan[a])'
    BY <2>1, <2>2, <1>b, <1>n, <1>t DEF BornInv, Born
  <2>3. CASE Crash
    BY <2>3, <1>n DEF Crash
  <2>4. CASE Recover
    <3>1. \A a \in Agent : orphan'[a] \in {row[a].pid, None}
      BY <2>4 DEF Recover
    <3> QED BY <3>1, <1>b, <1>n, <1>t DEF BornInv, Born
  <2>5. ASSUME NEW r \in Req, Read(r) \/ Handle(r),
               ~StartReady(r), ~StatusCheck(r), ~StopBegin(r)
        PROVE  orphan' = orphan
    BY <2>5 DEF Read, Handle, Refuse, Busy, StartMark, StartSpawn,
       StartSpawnFails, StartCommit, StopExited, StopKill, MarkStopped,
       DeleteRow, pmVars
  <2>6. CASE orphan' = orphan
    BY <2>6, <1>b, <1>t DEF BornInv, Born
  <2>7. CASE (\E p \in Pid : ServerStep(p)) \/ UNCHANGED vars
    BY <2>6, <2>7 DEF ServerStep, ServerOpens, ServerWritesSentinel, ServerExits,
       vars, pmVars
  <2> QED BY <2>2, <2>3, <2>4, <2>5, <2>6, <2>7 DEF Next, Handle
<1>4. \A r \in Req : Born(rec[r].pid)'
  <2>1. ASSUME NEW q \in Req, Read(q) PROVE \A r \in Req : Born(rec[r].pid)'
    <3>1. rec' = [rec EXCEPT ![q] = row[tgt[q]]]
      BY <2>1 DEF Read
    <3>2. \A r \in Req : rec'[r] \in {rec[r], row[tgt[r]]}
      BY <3>1
    <3> QED BY <3>2, <1>b, <1>t DEF BornInv, Born
  <2>2. CASE rec' = rec
    BY <2>2, <1>b, <1>t DEF BornInv, Born
  <2>3. CASE ~\E q \in Req : Read(q)
    BY <2>2, <2>3 DEF Next, Handle, Refuse, Busy, StartMark, StartSpawn,
       StartSpawnFails, StartReady, StartCommit, StopBegin, StopExited,
       StopKill, MarkStopped, DeleteRow, StatusCheck, Crash, Recover,
       ServerStep, ServerOpens,
       ServerWritesSentinel, ServerExits, vars, reqVars
  <2> QED BY <2>1, <2>3
<1>5. \A r \in Req : Born(pid[r])'
  <2>1. ASSUME NEW q \in Req, StartSpawn(q) PROVE \A r \in Req : Born(pid[r])'
    <3>1. PICK p \in Pid : srv' = [srv EXCEPT ![p] = "boot"] /\ pid' = [pid EXCEPT ![q] = p]
      BY <2>1 DEF StartSpawn
    <3> QED BY <3>1, <1>b, <1>t DEF BornInv, Born, ServerType
  <2>2. ASSUME NEW q \in Req, StopBegin(q) PROVE \A r \in Req : Born(pid[r])'
    <3>1. \A r \in Req : pid'[r] \in {pid[r], procs[tgt[r]], orphan[tgt[r]], rec[r].pid}
      BY <2>2, <1>t DEF StopBegin
    <3> QED BY <3>1, <1>b, <1>t DEF BornInv, Born
  <2>3. CASE pid' = pid
    BY <2>3, <1>b, <1>t DEF BornInv, Born
  <2>4. CASE ~\E q \in Req : StartSpawn(q) \/ StopBegin(q)
    BY <2>3, <2>4 DEF Next, Read, Handle, Refuse, Busy, StartMark,
       StartSpawnFails, StartReady, StartCommit, StopExited, StopKill,
       MarkStopped, DeleteRow, StatusCheck, Crash, Recover, ServerStep, ServerOpens,
       ServerWritesSentinel, ServerExits, vars, reqVars
  <2> QED BY <2>1, <2>2, <2>4
<1> QED BY <1>1, <1>2, <1>3, <1>4, <1>5 DEF BornInv

(* A spawned process that does not live is dead.                           *)
LEMMA BornDead ==
  ASSUME TypeOK, NEW p \in 0 .. MaxPid, Born(p), ~Live(p)
  PROVE  p = None \/ srv[p] = "dead"
<1>1. p # None => srv[p] \in SrvState
  BY DEF TypeOK, ServerType, Pid, None
<1> QED BY <1>1 DEF Born, Live, SrvState

(* A step that takes no stop to where its process must be dead.            *)
LEMMA StopFrame ==
  ASSUME TypeOK, StopInv, [Next]_vars,
         \A q \in StopReqs : /\ pid'[q] = pid[q]
                             /\ pc'[q] \in {"mark", "done"} => pc[q] \in {"mark", "done"}
  PROVE  StopInv'
<1> SUFFICES ASSUME NEW q \in StopReqs, pc'[q] \in {"mark", "done"}
             PROVE  pid'[q] = None \/ srv'[pid'[q]] = "dead"
  BY DEF StopInv
<1>1. pid[q] \in 0 .. MaxPid
  BY DEF TypeOK, ReqType, Req, Command
<1>2. pid[q] = None \/ srv[pid[q]] = "dead"
  BY DEF StopInv
<1> QED BY <1>1, <1>2, ServerHistory DEF History, Pid, None

LEMMA StopStep ==
  ASSUME TypeOK, PcInv, BornInv, StopInv, [Next]_vars PROVE StopInv'
<1>t. /\ pc \in [Req -> ReqPC] /\ pid \in [Req -> 0 .. MaxPid]
      /\ StopReqs \subseteq Req /\ StopReqs \cap (StartReqs \cup DeleteReqs \cup StatusReqs) = {}
  BY RequestAssumption DEF TypeOK, ReqType, Req, Command
<1>1. ASSUME NEW r \in Req, Read(r) \/ Refuse(r) \/ Busy(r) \/ StartMark(r)
             \/ StartSpawnFails(r) \/ StartReady(r) \/ MarkStopped(r)
      PROVE  StopInv'
  <2>1. /\ pid' = pid
        /\ \E l \in ReqPC : /\ pc' = [pc EXCEPT ![r] = l]
                            /\ l \in {"mark", "done"} => pc[r] = "mark"
    BY <1>1 DEF Read, Refuse, Busy, StartMark, StartSpawnFails, StartReady,
                MarkStopped, Goto, ReqPC, Ended
  <2> QED BY <2>1, <1>t, StopFrame
<1>2. ASSUME NEW r \in Req, StartSpawn(r) \/ StartCommit(r) \/ DeleteRow(r) \/ StatusCheck(r)
      PROVE  StopInv'
  <2>1. r \notin StopReqs
    BY <1>2, <1>t DEF StartSpawn, StartCommit, DeleteRow, StatusCheck, PcInv
  <2>2. (\E l \in ReqPC : pc' = [pc EXCEPT ![r] = l])
    <3>1. CASE StatusCheck(r)
      BY <3>1 DEF StatusCheck, Goto, ReqPC, Ended
    <3>2. CASE ~StatusCheck(r)
      BY <1>2, <3>2 DEF StartSpawn, StartCommit, DeleteRow, Goto, ReqPC, Ended
    <3> QED BY <3>1, <3>2
  <2>3. \E p \in 0 .. MaxPid : pid' = [pid EXCEPT ![r] = p]
    <3>1. CASE StartSpawn(r)
      <4>1. PICK p \in Pid : pid' = [pid EXCEPT ![r] = p]
        BY <3>1 DEF StartSpawn
      <4>2. p \in 0 .. MaxPid
        BY LifecycleAssumption DEF Pid
      <4> QED BY <4>1, <4>2
    <3>2. CASE ~StartSpawn(r)
      BY <1>2, <1>t, <3>2 DEF StartCommit, DeleteRow, StatusCheck
    <3> QED BY <3>1, <3>2
  <2> QED BY <2>1, <2>2, <2>3, <1>t, StopFrame
<1>3. ASSUME NEW r \in Req, StopBegin(r) PROVE StopInv'
  <2>1. PICK p : /\ p \in {procs[tgt[r]], orphan[tgt[r]], rec[r].pid}
                 /\ pid' = [pid EXCEPT ![r] = p] /\ srv' = srv
                 /\ \E l \in {"term", "failed", "mark"} :
                      pc' = [pc EXCEPT ![r] = l] /\ (l = "mark" => ~Live(p))
    BY <1>3 DEF StopBegin, Goto, srvVars
  <2>2. p \in 0 .. MaxPid /\ Born(p)
    BY <2>1 DEF BornInv, TypeOK, ReqType, ManagerType, Row
  <2>3. ~Live(p) => p = None \/ srv[p] = "dead"
    BY <2>2, BornDead
  <2> QED BY <2>1, <2>3, <1>t DEF StopInv
<1>4. ASSUME NEW r \in Req, StopExited(r) PROVE StopInv'
  <2>1. pid[r] = None \/ srv[pid[r]] = "dead"
    BY <1>4, <1>t, BornDead DEF StopExited, BornInv
  <2>2. pc' = [pc EXCEPT ![r] = "mark"] /\ UNCHANGED <<pid, srv>>
    BY <1>4 DEF StopExited, Goto, srvVars
  <2> QED BY <2>1, <2>2, <1>t DEF StopInv
<1>5. ASSUME NEW r \in Req, StopKill(r) PROVE StopInv'
  <2>1. /\ srv' = [srv EXCEPT ![pid[r]] = "dead"] /\ pid' = pid
        /\ pc' = [pc EXCEPT ![r] = "mark"] /\ pid[r] # None
    BY <1>5 DEF StopKill, Goto, Live
  <2>2. srv'[pid[r]] = "dead"
    BY <2>1, <1>t DEF TypeOK, ServerType, Pid, None
  <2>3. \A q \in StopReqs : pid[q] = None \/ srv[pid[q]] # "dead" \/ srv'[pid[q]] = "dead"
    BY <1>t, ServerHistory DEF History, Pid, None
  <2> QED BY <2>1, <2>2, <2>3, <1>t DEF StopInv
<1>6. CASE Crash
  BY <1>6, <1>t, StopFrame DEF Crash, Ended
<1>7. CASE Recover \/ (\E p \in Pid : ServerStep(p)) \/ UNCHANGED vars
  BY <1>7, <1>t, StopFrame DEF Recover, ServerStep, ServerOpens, ServerWritesSentinel,
     ServerExits, vars, reqVars
<1> QED BY <1>1, <1>2, <1>3, <1>4, <1>5, <1>6, <1>7 DEF Next, Handle

(* A step that neither moves a start nor touches what it has noted.        *)
LEMMA StartFrame ==
  ASSUME TypeOK, BornInv, StartInv, [Next]_vars,
         \A q \in StartReqs :
           /\ UNCHANGED <<pid[q], tgt[q], verdict[q]>>
           /\ pc'[q] = pc[q] \/ pc'[q] \in Ended \/ {pc[q], pc'[q]} \subseteq {"new", "got", "spawn"}
  PROVE  StartInv'
<1> SUFFICES ASSUME NEW q \in StartReqs
             PROVE  /\ pc'[q] \in {"new", "got", "spawn"} => pid'[q] = None
                    /\ pc'[q] \in {"wait", "commit"} => pid'[q] # None
                    /\ pc'[q] = "commit" => verdict'[q] \in {"running", "error"}
                    /\ pid'[q] # None => owner'[pid'[q]] = tgt'[q]
  BY DEF StartInv
<1>1. pid[q] \in 0 .. MaxPid /\ Born(pid[q])
  BY DEF TypeOK, ReqType, Req, Command, BornInv
<1>2. pid[q] # None => owner'[pid[q]] = owner[pid[q]]
  BY <1>1, ServerHistory DEF History, Pid, None, Born
<1> QED BY <1>2 DEF StartInv, Ended

LEMMA StartStep ==
  ASSUME TypeOK, PcInv, BornInv, StartInv, [Next]_vars PROVE StartInv'
<1>t. /\ pc \in [Req -> ReqPC] /\ pid \in [Req -> 0 .. MaxPid] /\ tgt \in [Req -> Agent]
      /\ StartReqs \subseteq Req /\ StartReqs \cap (StopReqs \cup DeleteReqs \cup StatusReqs) = {}
      /\ verdict \in [Req -> {"stopped", "running", "error"}]
  BY RequestAssumption DEF TypeOK, ReqType, Req, Command
<1>1. ASSUME NEW r \in Req,
             Read(r) \/ Refuse(r) \/ Busy(r) \/ StartMark(r) \/ StartSpawnFails(r)
             \/ StartCommit(r) \/ MarkStopped(r) \/ DeleteRow(r)
      PROVE  StartInv'
  <2>1. /\ UNCHANGED <<pid, tgt, verdict>>
        /\ \/ pc' = [pc EXCEPT ![r] = "got"] /\ pc[r] = "new"
           \/ pc' = [pc EXCEPT ![r] = "spawn"] /\ pc[r] = "got"
           \/ \E l \in Ended : pc' = [pc EXCEPT ![r] = l]
    BY <1>1 DEF Read, Refuse, Busy, StartMark, StartSpawnFails, StartCommit,
                MarkStopped, DeleteRow, Goto, Ended
  <2> QED BY <2>1, <1>t, StartFrame
<1>2. ASSUME NEW r \in Req, StartSpawn(r) PROVE StartInv'
  <2>1. PICK p \in Pid : /\ srv[p] = "unborn"
                         /\ owner' = [owner EXCEPT ![p] = tgt[r]]
                         /\ pid' = [pid EXCEPT ![r] = p]
    BY <1>2 DEF StartSpawn
  <2>2. pc' = [pc EXCEPT ![r] = "wait"] /\ UNCHANGED <<tgt, verdict>>
    BY <1>2 DEF StartSpawn, Goto
  <2>3. p # None /\ owner'[p] = tgt[r]
    BY <2>1 DEF Pid, None, TypeOK, ServerType
  <2>4. \A q \in StartReqs : pid[q] # None => owner'[pid[q]] = tgt[q]
    <3>1. \A q \in StartReqs : pid[q] # None => srv[pid[q]] # "unborn" /\ pid[q] \in Pid
      BY <1>t DEF BornInv, Born, Pid, None
    <3>2. \A q \in StartReqs : pid[q] # None => owner'[pid[q]] = owner[pid[q]]
      BY <3>1, <2>1 DEF TypeOK, ServerType
    <3> QED BY <3>2 DEF StartInv
  <2> QED BY <2>1, <2>2, <2>3, <2>4, <1>t DEF StartInv
<1>3. ASSUME NEW r \in Req, StartReady(r) PROVE StartInv'
  <2>1. /\ pc' = [pc EXCEPT ![r] = "commit"] /\ UNCHANGED <<tgt, pid, owner>>
        /\ \E v \in {"running", "error"} : verdict' = [verdict EXCEPT ![r] = v]
        /\ pc[r] = "wait"
    BY <1>3 DEF StartReady, Goto
  <2> QED BY <2>1, <1>t DEF StartInv
<1>4. ASSUME NEW r \in Req, StopBegin(r) \/ StopExited(r) \/ StopKill(r) \/ StatusCheck(r)
      PROVE  StartInv'
  <2>1. r \notin StartReqs
    BY <1>4, <1>t DEF StopBegin, StopExited, StopKill, StatusCheck, PcInv
  <2>2. \A q \in Req : q # r => pc'[q] = pc[q] /\ pid'[q] = pid[q]
    BY <1>4, <1>t DEF StopBegin, StopExited, StopKill, StatusCheck, Goto
  <2>3. UNCHANGED <<tgt, verdict>>
    BY <1>4 DEF StopBegin, StopExited, StopKill, StatusCheck
  <2> QED BY <2>1, <2>2, <2>3, <1>t, StartFrame
<1>5. CASE Crash
  <2>1. \A q \in Req : pc'[q] \in {pc[q], "lost"}
    BY <1>5, <1>t DEF Crash
  <2> QED BY <1>5, <1>t, <2>1, StartFrame DEF Crash, Ended
<1>6. CASE Recover \/ (\E p \in Pid : ServerStep(p)) \/ UNCHANGED vars
  BY <1>6, <1>t, StartFrame DEF Recover, ServerStep, ServerOpens, ServerWritesSentinel,
     ServerExits, vars, reqVars
<1> QED BY <1>1, <1>2, <1>3, <1>4, <1>5, <1>6 DEF Next, Handle

(* A start never lets go of the process it spawned.                        *)
LEMMA StartKeepsPid ==
  ASSUME TypeOK, PcInv, BornInv, StartInv, [Next]_vars
  PROVE  \A r \in StartReqs : pid[r] # None =>
           pid'[r] = pid[r] /\ tgt'[r] = tgt[r] /\ owner'[pid[r]] = owner[pid[r]]
<1>t. /\ pid \in [Req -> 0 .. MaxPid] /\ tgt \in [Req -> Agent]
      /\ StartReqs \subseteq Req /\ StartReqs \cap StopReqs = {}
  BY RequestAssumption DEF TypeOK, ReqType, Req, Command
<1>1. \A r \in StartReqs : pid[r] # None => owner'[pid[r]] = owner[pid[r]]
  BY <1>t, ServerHistory DEF History, BornInv, Born, Pid, None
<1>2. ASSUME NEW q \in Req, StartSpawn(q)
      PROVE  tgt' = tgt /\ \A r \in StartReqs : pid[r] # None => pid'[r] = pid[r]
  <2>1. pid[q] = None
    BY <1>2 DEF StartSpawn, PcInv, StartInv
  <2>2. PICK p \in Pid : pid' = [pid EXCEPT ![q] = p]
    BY <1>2 DEF StartSpawn
  <2>3. tgt' = tgt
    BY <1>2 DEF StartSpawn
  <2> QED BY <2>1, <2>2, <2>3, <1>t
<1>3. ASSUME NEW q \in Req, StopBegin(q)
      PROVE  tgt' = tgt /\ \A r \in StartReqs : pid'[r] = pid[r]
  BY <1>3, <1>t DEF StopBegin
<1>4. CASE ~\E q \in Req : StartSpawn(q) \/ StopBegin(q)
  <2>1. UNCHANGED <<pid, tgt>>
    BY <1>4 DEF Next, Read, Handle, Refuse, Busy, StartMark, StartSpawnFails,
       StartReady, StartCommit, StopExited, StopKill, MarkStopped, DeleteRow,
       StatusCheck, Crash, Recover, ServerStep, ServerOpens, ServerWritesSentinel,
       ServerExits, vars, reqVars
  <2> QED BY <2>1, <1>1
<1> QED BY <1>1, <1>2, <1>3, <1>4

(* How a row may change in a step.                                         *)
LEMMA RowChange ==
  ASSUME TypeOK, PcInv, LockInv, StartInv, [Next]_vars, NEW a \in Agent
  PROVE  \/ row'[a] = row[a]
         \/ row'[a].status = "stopped" /\ Exists(a)
         \/ row'[a].status = "absent"
         \/ \E r \in StartReqs :
              /\ tgt[r] = a /\ Exists(a) /\ lock = r /\ lock' = NoReq
              /\ pc[r] = "commit" /\ row'[a].pid = pid[r]
<1>t. row \in [Agent -> [status : Status \ {"starting"}, pid : 0 .. MaxPid]]
  BY DEF TypeOK, DbType
<1>1. ASSUME NEW r \in Req, StartCommit(r), row'[a] # row[a]
      PROVE  \E q \in StartReqs :
               /\ tgt[q] = a /\ Exists(a) /\ lock = q /\ lock' = NoReq
               /\ pc[q] = "commit" /\ row'[a].pid = pid[q]
  <2>1. r \in StartReqs /\ pc[r] = "commit"
    BY <1>1 DEF StartCommit, PcInv
  <2>2. /\ tgt[r] = a /\ Exists(a) /\ lock' = NoReq
        /\ row'[a].pid = pid[r]
    BY <1>1, <1>t DEF StartCommit, dbVars
  <2>3. lock = r
    BY <2>1, <2>2 DEF LockInv, LockHeldByStart
  <2> QED BY <2>1, <2>2, <2>3
<1>2. ASSUME NEW r \in Req, MarkStopped(r), row'[a] # row[a]
      PROVE  row'[a].status = "stopped" /\ Exists(a)
  BY <1>2, <1>t DEF MarkStopped, StoppedRow
<1>3. ASSUME NEW r \in Req, DeleteRow(r), row'[a] # row[a]
      PROVE  row'[a].status = "absent"
  BY <1>3, <1>t DEF DeleteRow, AbsentRow
<1>4. CASE Recover
  BY <1>4, <1>t DEF Recover, StoppedRow, Exists
<1>5. CASE /\ ~Recover
           /\ ~\E q \in Req : StartCommit(q) \/ MarkStopped(q) \/ DeleteRow(q)
  BY <1>5 DEF Next, Read, Handle, Refuse, Busy, StartMark, StartSpawn,
     StartSpawnFails, StartReady, StopBegin, StopExited, StopKill, StatusCheck,
     Crash, ServerStep, ServerOpens,
       ServerWritesSentinel, ServerExits, vars, dbVars
<1> QED BY <1>1, <1>2, <1>3, <1>4, <1>5

LEMMA SpawnedStep ==
  ASSUME TypeOK, PcInv, LockInv, BornInv, StartInv, RunningPidWasSpawned,
         [Next]_vars
  PROVE  RunningPidWasSpawned'
<1> SUFFICES ASSUME NEW a \in Agent, row'[a].status \in {"running", "error"}
             PROVE  \E r \in StartReqs : /\ pid'[r] = row'[a].pid /\ tgt'[r] = a
                                         /\ pid'[r] # None /\ owner'[pid'[r]] = a
  BY DEF RunningPidWasSpawned
<1>1. CASE row'[a] = row[a]
  BY <1>1, StartKeepsPid DEF RunningPidWasSpawned
<1>2. CASE \E r \in StartReqs : /\ tgt[r] = a /\ pc[r] = "commit"
                                /\ row'[a].pid = pid[r]
  <2>1. PICK r \in StartReqs : tgt[r] = a /\ pc[r] = "commit" /\ row'[a].pid = pid[r]
    BY <1>2
  <2>2. pid[r] # None /\ owner[pid[r]] = a
    BY <2>1 DEF StartInv
  <2> QED BY <2>1, <2>2, StartKeepsPid
<1> QED BY <1>1, <1>2, RowChange

(***************************************************************************)
(* The invariant holds in every reachable state                            *)
(***************************************************************************)

LEMMA InitIInv == Init => IInv
<1> SUFFICES ASSUME Init PROVE IInv
  OBVIOUS
<1>1. TypeOK
  BY InitTypeOK
<1>2. PcInv /\ LockInv
  BY RequestAssumption DEF Init, PcInv, LockInv, LockHeldByStart, Req, Command
<1>3. BornInv
  BY DEF Init, BornInv, Born, StoppedRow, AbsentRow
<1>4. StopInv /\ StartInv
  BY RequestAssumption DEF Init, StopInv, StartInv, Req, Command
<1>5. RunningPidWasSpawned
  BY DEF Init, RunningPidWasSpawned, StoppedRow
<1> QED BY <1>1, <1>2, <1>3, <1>4, <1>5 DEF IInv

LEMMA IInvStep == IInv /\ [Next]_vars => IInv'
BY TypeStep, PcStep, LockStep, BornStep, StopStep, StartStep, SpawnedStep DEF
   IInv

LEMMA Invariant == Spec => []IInv
BY InitIInv, IInvStep, PTL DEF Spec

(***************************************************************************)
(* Theorems                                                                *)
(***************************************************************************)

(* The state is well typed and no committed row says "starting", for any   *)
(* number of agents, requests, processes and crashes.                      *)
THEOREM TypeCorrect == Spec => []TypeOK
<1>1. IInv => TypeOK
  BY DEF IInv
<1> QED BY <1>1, Invariant, PTL

(* The database's write lock is never stuck: its holder is a start of this *)
(* life of the control plane that will commit or roll back, and starts of  *)
(* agents that exist hold it one at a time (routers/agents.py start_agent, *)
(* db/engine.py get_session).                                              *)
THEOREM LockIsNeverStuck == Spec => []LockHeldByStart
<1>1. IInv => LockHeldByStart
  BY DEF IInv, LockInv
<1> QED BY <1>1, Invariant, PTL

(* A stop that succeeded leaves its process dead, however many stops,      *)
(* starts, deletes and polls ran beside it and whenever the control plane  *)
(* crashed (process/manager.py stop and _terminate).                       *)
THEOREM StoppedProcessIsDead == Spec => []StopMeansDead
<1>1. IInv => StopMeansDead
  <2> SUFFICES ASSUME IInv, NEW r \in StopReqs, pc[r] = "done"
               PROVE  pid[r] = None \/ ~Live(pid[r])
    BY DEF StopMeansDead
  <2> QED BY DEF IInv, StopInv, Live
<1> QED BY <1>1, Invariant, PTL

(* The pid in a running or failed agent's row is that of a process which a *)
(* start of this very agent spawned: no interleaving of handlers mixes up  *)
(* the pids of two agents (routers/agents.py start_agent).                 *)
THEOREM RowsNameTheirOwnProcess == Spec => []RunningPidWasSpawned
<1>1. IInv => RunningPidWasSpawned
  BY DEF IInv
<1> QED BY <1>1, Invariant, PTL

(* Rows change by rule: only the commit of a start that holds the lock     *)
(* makes an agent running or failed, and no step brings a deleted one back *)
(* (agent_registry.py update_status and delete_agent).                     *)
THEOREM RowsFollowTheRule == Spec => RowsChangeByRule
<1>1. IInv /\ [Next]_vars =>
        [\A a \in Agent :
           /\ row[a].status = "absent" => row'[a].status = "absent"
           /\ row'[a] # row[a] /\ row'[a].status \in {"running", "error"} =>
                \E r \in StartReqs : /\ lock = r /\ lock' = NoReq
                                     /\ row'[a].pid = pid[r] /\ tgt[r] = a]_vars
  BY RowChange DEF IInv, Exists
<1> QED BY <1>1, Invariant, PTL DEF Spec, RowsChangeByRule
=============================================================================
