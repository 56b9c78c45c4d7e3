------------------------ MODULE SnapshotFlush_proofs ------------------------
(***************************************************************************)
(* Proofs about SnapshotFlush, for any number of agents, requests,         *)
(* attempts and crashes.                                                   *)
(***************************************************************************)
EXTENDS SnapshotFlush, SequenceTheorems, TLAPS

(***************************************************************************)
(* The inductive invariant                                                 *)
(***************************************************************************)

(* A request has the lock from its write to its commit or rollback.        *)
LockInv ==
  /\ \A r \in Req : pc[r] \in {"written", "told"} => lock = r
  /\ lock # Nobody => pc[lock] \in {"written", "told"}

(* A request has no job before it announces; a job that waits has an       *)
(* attempt left; and only requests that found their agent gone get one.    *)
JobInv ==
  \A r \in Req :
    /\ pc[r] \in {"new", "got", "written", "missed"} => job[r] = "none"
    /\ pc[r] = "missed" => r \in missed
    /\ job[r] \in {"none", "failed"} => tries[r] = 0
    /\ job[r] = "pending" => tries[r] < MaxAttempts
    /\ job[r] \notin {"none", "failed"} => r \in missed

(* The worker has a job exactly while it is in the body of its loop, and   *)
(* there is no worker while the control plane is down.                     *)
WorkInv ==
  /\ IF worker \in {"reading", "writing", "ok", "notok"}
     THEN wjob \in Req /\ job[wjob] = "claimed"
     ELSE wjob = Nobody
  /\ up \/ worker = "down"

(* t was the content of the table at some moment.                          *)
WasTable(t) == \E i \in DOMAIN hist : t = hist[i]

MomentInv ==
  /\ WasTable(buf.rec) /\ WasTable(file.rec)
  /\ \A s \in Start : served[s] # NoRecord =>
       \E i \in DOMAIN hist : hist[i][Target[s]] = served[s]

(* Later contents are never replaced by earlier ones, and the worker is    *)
(* as far as its program counter says.                                     *)
FreshInv ==
  /\ file.at <= buf.at /\ buf.at <= Len(hist)
  /\ \A r \in Req : since[r] <= Len(hist)
  /\ worker = "writing" => since[wjob] <= buf.at
  /\ worker = "ok" => since[wjob] <= file.at
  /\ AckMeansFresh

IInv == TypeOK /\ LockInv /\ JobInv /\ WorkInv /\ MomentInv /\ FreshInv /\ events = {}

(***************************************************************************)
(* Facts about the data                                                    *)
(***************************************************************************)

LEMMA Names ==
  /\ Target \in [Req -> Agent]
  /\ Nobody \notin Req /\ NoRecord \notin Create
  /\ MaxAttempts \in Nat /\ MaxAttempts >= 1 /\ MaxSlow \in Nat /\ MaxCrash \in Nat
  /\ Create \subseteq Req /\ Delete \subseteq Req /\ Start \subseteq Req
BY SnapshotAssumption DEF Req

LEMMA EmptyType == Empty \in Table
BY DEF Empty, Table

(* The history has a last content, and it is a table.                      *)
LEMMA RowsType ==
  ASSUME hist \in Seq(Table), hist # <<>>
  PROVE  /\ Len(hist) \in Nat /\ Len(hist) >= 1
         /\ Len(hist) \in DOMAIN hist /\ Rows \in Table
<1>1. Len(hist) \in Nat /\ DOMAIN hist = 1 .. Len(hist)
  OBVIOUS
<1>2. Len(hist) # 0
  BY EmptySeq
<1> QED BY <1>1, <1>2 DEF Rows

LEMMA ChangedType ==
  ASSUME NEW r \in Req, Rows \in Table
  PROVE  Changed(r) \in Table
BY Names DEF Changed, Table

(* Committing a change keeps every earlier content where it was.           *)
LEMMA Appended ==
  ASSUME hist \in Seq(Table), NEW t \in Table, hist' = Append(hist, t)
  PROVE  /\ hist' \in Seq(Table) /\ hist' # <<>>
         /\ Len(hist') = Len(hist) + 1
         /\ \A i \in DOMAIN hist : i \in DOMAIN hist' /\ hist'[i] = hist[i]
BY AppendProperties

(* A content of the table stays one, whatever is committed.                *)
LEMMA MomentKept ==
  ASSUME TypeOK, MomentInv,
         \A i \in DOMAIN hist : i \in DOMAIN hist' /\ hist'[i] = hist[i],
         UNCHANGED <<buf, file, served>>
  PROVE  MomentInv'
BY DEF MomentInv, WasTable


(***************************************************************************)
(* Every step keeps the invariant                                          *)
(***************************************************************************)

(* The lock is taken by a write, and given back by commit and rollback.    *)
LEMMA NextLock == TypeOK /\ LockInv /\ [Next]_vars => LockInv'
<1> SUFFICES ASSUME TypeOK, LockInv, [Next]_vars PROVE LockInv'
  OBVIOUS
<1>1. ASSUME NEW r \in Req, Get(r) PROVE LockInv'
  BY <1>1 DEF Get, Goto, LockInv, TypeOK
<1>2. ASSUME NEW r \in Req, Write(r) PROVE LockInv'
  BY <1>2, Names DEF Write, Goto, Ready, LockInv, TypeOK
<1>3. ASSUME NEW r \in Req, WriteFails(r) PROVE LockInv'
  BY <1>3 DEF WriteFails, Goto, Ready, LockInv, TypeOK
<1>4. ASSUME NEW r \in Req, Miss(r) PROVE LockInv'
  BY <1>4 DEF Miss, Goto, LockInv, TypeOK
<1>5. ASSUME NEW r \in Req, Announce(r) PROVE LockInv'
  BY <1>5 DEF Announce, Goto, LockInv, TypeOK
<1>6. ASSUME NEW r \in Req, Commit(r) PROVE LockInv'
  BY <1>6, Names DEF Commit, Goto, LockInv, TypeOK
<1>7. ASSUME NEW r \in Req, Rollback(r) PROVE LockInv'
  BY <1>7, Names DEF Rollback, Goto, LockInv, TypeOK
<1>8. ASSUME NEW r \in Req, Return(r) PROVE LockInv'
  BY <1>8 DEF Return, Goto, LockInv, TypeOK
<1>9. CASE Crash
  BY <1>9, Names DEF Crash, LockInv, TypeOK
<1>10. CASE UNCHANGED <<lock, pc>>
  BY <1>10 DEF LockInv, TypeOK
<1>11. \/ UNCHANGED <<lock, pc>>
       \/ \E r \in Req : Get(r) \/ Write(r) \/ WriteFails(r) \/ Miss(r) \/
          Announce(r) \/ Commit(r) \/ Rollback(r) \/ Return(r)
       \/ Crash
  BY DEF Next, Handler, Worker, ClaimExpires, rowVars, LoadRecord, Claim,
     ClaimFails, ReadRows, WriteSnapshot, FlushFails, Ack, Settle, Retry,
     SettleFails, OutliveClaim, Recover, vars
<1> QED BY <1>1, <1>2, <1>3, <1>4, <1>5, <1>6, <1>7, <1>8, <1>9, <1>10,
       <1>11

(* While somebody has the lock no job is made; so one that wrote gets none. *)
LEMMA NextJob == TypeOK /\ LockInv /\ JobInv /\ WorkInv /\ [Next]_vars => JobInv'
<1> SUFFICES ASSUME TypeOK, LockInv, JobInv, WorkInv, [Next]_vars PROVE JobInv'
  OBVIOUS
<1>1. ASSUME NEW r \in Req, Get(r) PROVE JobInv'
  BY <1>1 DEF Get, Goto, queueVars, JobInv, TypeOK
<1>2. ASSUME NEW r \in Req, Write(r) PROVE JobInv'
  BY <1>2 DEF Write, Goto, Ready, queueVars, JobInv, TypeOK
<1>3. ASSUME NEW r \in Req, WriteFails(r) PROVE JobInv'
  BY <1>3 DEF WriteFails, Goto, Ready, queueVars, JobInv, TypeOK
<1>4. ASSUME NEW r \in Req, Miss(r) PROVE JobInv'
  BY <1>4 DEF Miss, Goto, queueVars, JobInv, TypeOK
<1>5. ASSUME NEW r \in Req, Announce(r) PROVE JobInv'
  BY <1>5, Names DEF Announce, Goto, JobInv, TypeOK, LockInv
<1>6. ASSUME NEW r \in Req, Commit(r) PROVE JobInv'
  BY <1>6 DEF Commit, Goto, queueVars, JobInv, TypeOK
<1>7. ASSUME NEW r \in Req, Rollback(r) PROVE JobInv'
  BY <1>7 DEF Rollback, Goto, queueVars, JobInv, TypeOK
<1>8. ASSUME NEW r \in Req, Return(r) PROVE JobInv'
  BY <1>8 DEF Return, Goto, queueVars, JobInv, TypeOK
<1>9. ASSUME NEW r \in Req, Claim(r) PROVE JobInv'
  BY <1>9 DEF Claim, Due, rowVars, JobInv, TypeOK
<1>10. CASE Ack
  BY <1>10 DEF Ack, Settle, rowVars, JobInv, TypeOK, WorkInv
<1>11. CASE Retry
  BY <1>11, Names DEF Retry, Settle, rowVars, JobInv, TypeOK, WorkInv
<1>12. CASE Crash
  BY <1>12 DEF Crash, queueVars, JobInv, TypeOK
<1>13. CASE UNCHANGED <<pc, missed, job, tries>>
  BY <1>13 DEF JobInv, TypeOK
<1>14. \/ UNCHANGED <<pc, missed, job, tries>>
       \/ \E r \in Req : Get(r) \/ Write(r) \/ WriteFails(r) \/ Miss(r) \/
          Announce(r) \/ Commit(r) \/ Rollback(r) \/ Return(r) \/ Claim(r)
       \/ Ack \/ Retry \/ Crash
  BY DEF Next, Handler, Worker, ClaimExpires, rowVars, LoadRecord,
     queueVars, ClaimFails, ReadRows, WriteSnapshot, FlushFails,
     SettleFails, OutliveClaim, Recover, vars
<1> QED BY <1>1, <1>2, <1>3, <1>4, <1>5, <1>6, <1>7, <1>8, <1>9, <1>10,
       <1>11, <1>12, <1>13, <1>14

(* There is one worker, so a job it works on is given to nobody else.      *)
LEMMA NextWork == TypeOK /\ JobInv /\ WorkInv /\ [Next]_vars => WorkInv'
<1> SUFFICES ASSUME TypeOK, JobInv, WorkInv, [Next]_vars PROVE WorkInv'
  OBVIOUS
<1>1. ASSUME NEW r \in Req, Announce(r) PROVE WorkInv'
  BY <1>1 DEF Announce, workVars, downVars, WorkInv, TypeOK, JobInv
<1>2. ASSUME NEW r \in Req, Claim(r) PROVE WorkInv'
  BY <1>2 DEF Claim, Due, downVars, WorkInv, TypeOK
<1>3. CASE ClaimFails
  BY <1>3 DEF ClaimFails, queueVars, downVars, WorkInv, TypeOK
<1>4. CASE ReadRows
  BY <1>4 DEF ReadRows, queueVars, downVars, WorkInv, TypeOK
<1>5. CASE WriteSnapshot
  BY <1>5 DEF WriteSnapshot, queueVars, downVars, WorkInv, TypeOK
<1>6. CASE FlushFails
  BY <1>6 DEF FlushFails, queueVars, downVars, WorkInv, TypeOK
<1>7. CASE Ack
  BY <1>7 DEF Ack, Settle, downVars, WorkInv, TypeOK
<1>8. CASE Retry
  BY <1>8 DEF Retry, Settle, downVars, WorkInv, TypeOK
<1>9. CASE SettleFails
  BY <1>9 DEF SettleFails, queueVars, downVars, WorkInv, TypeOK
<1>10. CASE Crash
  BY <1>10 DEF Crash, queueVars, WorkInv, TypeOK
<1>11. CASE Recover
  BY <1>11 DEF Recover, queueVars, WorkInv, TypeOK
<1>12. CASE UNCHANGED <<job, worker, wjob, up>>
  BY <1>12 DEF WorkInv, TypeOK
<1>13. \/ UNCHANGED <<job, worker, wjob, up>>
       \/ \E r \in Req : Announce(r) \/ Claim(r)
       \/ ClaimFails \/ ReadRows \/ WriteSnapshot \/ FlushFails \/ Ack \/ Retry
          \/ SettleFails \/ Crash \/ Recover
  BY DEF Next, Handler, Worker, Get, queueVars, workVars, downVars, Write,
     WriteFails, Miss, Commit, Rollback, Return, ClaimExpires, LoadRecord,
     OutliveClaim, vars
<1> QED BY <1>1, <1>2, <1>3, <1>4, <1>5, <1>6, <1>7, <1>8, <1>9, <1>10,
       <1>11, <1>12, <1>13

(* What is read, written and loaded was in the table; a commit adds to the *)
(* history and changes nothing of it.                                      *)
LEMMA NextMoment == TypeOK /\ MomentInv /\ [Next]_vars => MomentInv'
<1> SUFFICES ASSUME TypeOK, MomentInv, [Next]_vars PROVE MomentInv'
  OBVIOUS
<1>1. ASSUME NEW r \in Req, Commit(r) PROVE MomentInv'
  <2>1. UNCHANGED <<buf, file, served>>
    BY <1>1 DEF Commit, workVars, diskVars
  <2>2. \A i \in DOMAIN hist : i \in DOMAIN hist' /\ hist'[i] = hist[i]
    <3>1. hist' = hist \/ hist' = Append(hist, Changed(r))
      BY <1>1 DEF Commit
    <3>2. hist \in Seq(Table) /\ Changed(r) \in Table
      BY RowsType, ChangedType DEF TypeOK
    <3> QED BY <3>1, <3>2, Appended
  <2> QED BY <2>1, <2>2, MomentKept
<1>2. ASSUME NEW s \in Start, LoadRecord(s) PROVE MomentInv'
  BY <1>2, Names DEF LoadRecord, rowVars, workVars, MomentInv, WasTable,
     TypeOK
<1>3. CASE ReadRows
  BY <1>3, RowsType DEF ReadRows, Snapshot, Rows, rowVars, diskVars,
     MomentInv, WasTable, TypeOK
<1>4. CASE WriteSnapshot
  BY <1>4 DEF WriteSnapshot, rowVars, MomentInv, WasTable, TypeOK
<1>5. CASE UNCHANGED <<hist, buf, file, served>>
  BY <1>5 DEF MomentInv, WasTable, TypeOK
<1>6. \/ UNCHANGED <<hist, buf, file, served>>
      \/ \E r \in Req : Commit(r)
      \/ \E s \in Start : LoadRecord(s)
      \/ ReadRows \/ WriteSnapshot
  BY DEF Next, Handler, Worker, Get, workVars, diskVars, Write, WriteFails,
     Miss, Announce, Rollback, Return, ClaimExpires, rowVars, Claim,
     ClaimFails, FlushFails, Ack, Settle, Retry, SettleFails, OutliveClaim,
     Crash, Recover, vars
<1> QED BY <1>1, <1>2, <1>3, <1>4, <1>5, <1>6

(* Contents that are read later are later ones, and a job is acknowledged  *)
(* only after its contents have been written.                              *)
LEMMA NextFresh == TypeOK /\ JobInv /\ WorkInv /\ FreshInv /\ [Next]_vars => FreshInv'
<1> SUFFICES ASSUME TypeOK, JobInv, WorkInv, FreshInv, [Next]_vars PROVE FreshInv'
  OBVIOUS
<1>1. ASSUME NEW r \in Req, Announce(r) PROVE FreshInv'
  BY <1>1, RowsType DEF Announce, workVars, diskVars, FreshInv,
     AckMeansFresh, TypeOK, JobInv, WorkInv
<1>2. ASSUME NEW r \in Req, Commit(r) PROVE FreshInv'
  BY <1>2, RowsType, ChangedType DEF Commit, queueVars, workVars, diskVars,
     FreshInv, AckMeansFresh, TypeOK, Changed, Rows
<1>3. ASSUME NEW r \in Req, Claim(r) PROVE FreshInv'
  BY <1>3 DEF Claim, Due, rowVars, diskVars, FreshInv, AckMeansFresh,
     TypeOK, WorkInv
<1>4. CASE ClaimFails
  BY <1>4 DEF ClaimFails, rowVars, queueVars, diskVars, FreshInv,
     AckMeansFresh, TypeOK
<1>5. CASE ReadRows
  BY <1>5, RowsType DEF ReadRows, Snapshot, rowVars, queueVars, diskVars,
     FreshInv, AckMeansFresh, TypeOK, WorkInv
<1>6. CASE WriteSnapshot
  BY <1>6 DEF WriteSnapshot, rowVars, queueVars, FreshInv, AckMeansFresh,
     TypeOK
<1>7. CASE FlushFails
  BY <1>7 DEF FlushFails, rowVars, queueVars, diskVars, FreshInv,
     AckMeansFresh, TypeOK
<1>8. CASE Ack
  BY <1>8 DEF Ack, Settle, rowVars, diskVars, FreshInv, AckMeansFresh,
     TypeOK, WorkInv
<1>9. CASE Retry
  BY <1>9 DEF Retry, Settle, rowVars, diskVars, FreshInv, AckMeansFresh,
     TypeOK, WorkInv
<1>10. CASE SettleFails
  BY <1>10 DEF SettleFails, rowVars, queueVars, diskVars, FreshInv,
     AckMeansFresh, TypeOK
<1>11. CASE Crash
  BY <1>11 DEF Crash, queueVars, diskVars, FreshInv, AckMeansFresh, TypeOK,
     WorkInv
<1>12. CASE Recover
  BY <1>12 DEF Recover, rowVars, queueVars, diskVars, FreshInv,
     AckMeansFresh, TypeOK, WorkInv
<1>13. CASE UNCHANGED <<hist, job, since, worker, wjob, buf, file>>
  BY <1>13 DEF FreshInv, AckMeansFresh, TypeOK
<1>14. \/ UNCHANGED <<hist, job, since, worker, wjob, buf, file>>
       \/ \E r \in Req : Announce(r) \/ Commit(r) \/ Claim(r)
       \/ ClaimFails \/ ReadRows \/ WriteSnapshot \/ FlushFails \/ Ack \/ Retry
          \/ SettleFails \/ Crash \/ Recover
  BY DEF Next, Handler, Worker, Get, queueVars, workVars, diskVars, Write,
     WriteFails, Miss, Rollback, Return, ClaimExpires, rowVars, LoadRecord,
     OutliveClaim, vars
<1> QED BY <1>1, <1>2, <1>3, <1>4, <1>5, <1>6, <1>7, <1>8, <1>9, <1>10,
       <1>11, <1>12, <1>13, <1>14

(* Types; the bound on attempts follows from JobInv.                        *)
LEMMA NextTypeOK == TypeOK /\ JobInv /\ WorkInv /\ [Next]_vars => TypeOK'
<1> SUFFICES ASSUME TypeOK, JobInv, WorkInv, [Next]_vars PROVE TypeOK'
  OBVIOUS
<1>1. ASSUME NEW r \in Req, Get(r) PROVE TypeOK'
  BY <1>1 DEF Get, Goto, queueVars, workVars, diskVars, downVars, TypeOK,
     ReqPC, JobState, WorkerPC
<1>2. ASSUME NEW r \in Req, Write(r) PROVE TypeOK'
  BY <1>2 DEF Write, Goto, queueVars, workVars, diskVars, downVars, TypeOK,
     ReqPC, JobState, WorkerPC
<1>3. ASSUME NEW r \in Req, WriteFails(r) PROVE TypeOK'
  BY <1>3 DEF WriteFails, Goto, queueVars, workVars, diskVars, downVars,
     TypeOK, ReqPC, JobState, WorkerPC
<1>4. ASSUME NEW r \in Req, Miss(r) PROVE TypeOK'
  BY <1>4 DEF Miss, Goto, queueVars, workVars, diskVars, downVars, TypeOK,
     ReqPC, JobState, WorkerPC
<1>5. ASSUME NEW r \in Req, Announce(r) PROVE TypeOK'
  BY <1>5, Names, RowsType DEF Announce, Goto, workVars, diskVars, downVars,
     TypeOK, ReqPC, JobState, WorkerPC
<1>6. ASSUME NEW r \in Req, Commit(r) PROVE TypeOK'
  <2>1. hist' = hist \/ hist' = Append(hist, Changed(r))
    BY <1>6 DEF Commit
  <2>2. hist \in Seq(Table) /\ hist # <<>> /\ Changed(r) \in Table
    BY RowsType, ChangedType DEF TypeOK
  <2>3. hist' \in Seq(Table) /\ hist' # <<>>
    BY <2>1, <2>2, Appended
  <2>4. pc' \in [Req -> ReqPC] /\ lock' \in Req \cup {Nobody}
    BY <1>6 DEF Commit, Goto, TypeOK, ReqPC
  <2> QED
    BY <1>6, <2>3, <2>4 DEF Commit, queueVars, workVars, diskVars, downVars, TypeOK
<1>7. ASSUME NEW r \in Req, Rollback(r) PROVE TypeOK'
  BY <1>7 DEF Rollback, Goto, queueVars, workVars, diskVars, downVars,
     TypeOK, ReqPC, JobState, WorkerPC
<1>8. ASSUME NEW r \in Req, Return(r) PROVE TypeOK'
  BY <1>8 DEF Return, Goto, queueVars, workVars, diskVars, downVars, TypeOK,
     ReqPC, JobState, WorkerPC
<1>9. ASSUME NEW r \in Req, ClaimExpires(r) PROVE TypeOK'
  BY <1>9 DEF ClaimExpires, rowVars, workVars, diskVars, downVars, TypeOK,
     ReqPC, JobState, WorkerPC
<1>10. ASSUME NEW s \in Start, LoadRecord(s) PROVE TypeOK'
  <2>1. file.rec[Target[s]] \in Create \cup {NoRecord}
    BY Names DEF TypeOK, Table
  <2> QED
    BY <1>10, <2>1 DEF LoadRecord, rowVars, queueVars, workVars, downVars, TypeOK
<1>11. ASSUME NEW r \in Req, Claim(r) PROVE TypeOK'
  BY <1>11, Names DEF Claim, Due, rowVars, diskVars, downVars, TypeOK,
     ReqPC, JobState, WorkerPC, JobInv
<1>12. CASE ClaimFails
  BY <1>12 DEF ClaimFails, rowVars, queueVars, diskVars, downVars, TypeOK,
     ReqPC, JobState, WorkerPC
<1>13. CASE ReadRows
  BY <1>13, RowsType DEF ReadRows, Snapshot, rowVars, queueVars, diskVars,
     downVars, TypeOK, ReqPC, JobState, WorkerPC
<1>14. CASE WriteSnapshot
  BY <1>14 DEF WriteSnapshot, rowVars, queueVars, downVars, TypeOK, ReqPC,
     JobState, WorkerPC
<1>15. CASE FlushFails
  BY <1>15 DEF FlushFails, rowVars, queueVars, diskVars, downVars, TypeOK,
     ReqPC, JobState, WorkerPC
<1>16. CASE Ack
  BY <1>16 DEF Ack, Settle, rowVars, diskVars, downVars, TypeOK, ReqPC,
     JobState, WorkerPC, WorkInv
<1>17. CASE Retry
  BY <1>17 DEF Retry, Settle, rowVars, diskVars, downVars, TypeOK, ReqPC,
     JobState, WorkerPC, WorkInv
<1>18. CASE SettleFails
  BY <1>18 DEF SettleFails, rowVars, queueVars, diskVars, downVars, TypeOK,
     ReqPC, JobState, WorkerPC
<1>19. CASE OutliveClaim
  BY <1>19, Names DEF OutliveClaim, rowVars, workVars, diskVars, downVars,
     TypeOK, ReqPC, JobState, WorkerPC
<1>20. CASE Crash
  <2>1. pc' \in [Req -> ReqPC]
    BY <1>20 DEF Crash, TypeOK, ReqPC
  <2>2. crashes' \in 0 .. MaxCrash
    BY <1>20, Names DEF Crash, TypeOK
  <2> QED BY <1>20, <2>1, <2>2 DEF Crash, queueVars, diskVars, TypeOK, WorkerPC
<1>21. CASE Recover
  BY <1>21 DEF Recover, rowVars, queueVars, diskVars, TypeOK, ReqPC,
     JobState, WorkerPC
<1>22. CASE UNCHANGED vars
  BY <1>22 DEF vars, rowVars, queueVars, workVars, diskVars, downVars,
     TypeOK, ReqPC, JobState, WorkerPC
<1> QED BY <1>1, <1>2, <1>3, <1>4, <1>5, <1>6, <1>7, <1>8, <1>9, <1>10,
       <1>11, <1>12, <1>13, <1>14, <1>15, <1>16, <1>17, <1>18, <1>19, <1>20,
       <1>21, <1>22 DEF Next, Handler, Worker

LEMMA NextEvents ==
  TypeOK /\ LockInv /\ events = {} /\ [Next]_vars => events' = {}
<1> SUFFICES ASSUME TypeOK, LockInv, events = {}, [Next]_vars PROVE events' = {}
  OBVIOUS
<1>1. ASSUME NEW r \in Req, Announce(r) PROVE events' = {}
  BY <1>1, Names DEF Announce, LockInv
<1>2. UNCHANGED events \/ \E r \in Req : Announce(r)
  BY DEF Next, Handler, Worker, Get, Write, WriteFails, Miss, Commit, Rollback,
     Return, LoadRecord, Claim, ClaimFails, ReadRows, WriteSnapshot, FlushFails,
     Ack, Retry, Settle, SettleFails, OutliveClaim, ClaimExpires, Crash,
     Recover, vars, queueVars
<1> QED BY <1>1, <1>2

LEMMA InitIInv == Init => IInv
<1> SUFFICES ASSUME Init PROVE IInv
  OBVIOUS
<1>1. hist \in Seq(Table) /\ hist # <<>> /\ Len(hist) = 1 /\ hist[1] = Empty
  BY EmptyType DEF Init
<1>2. TypeOK
  BY <1>1, Names, EmptyType DEF Init, TypeOK, ReqPC, JobState, WorkerPC
<1>3. LockInv /\ JobInv /\ WorkInv
  BY Names DEF Init, LockInv, JobInv, WorkInv
<1>4. MomentInv
  BY <1>1 DEF Init, MomentInv, WasTable
<1>5. FreshInv
  BY <1>1, Names DEF Init, FreshInv, AckMeansFresh
<1> QED BY <1>2, <1>3, <1>4, <1>5 DEF Init, IInv

LEMMA Invariant == Spec => []IInv
<1>1. IInv /\ [Next]_vars => IInv'
  BY NextTypeOK, NextLock, NextJob, NextWork, NextMoment, NextFresh, NextEvents
     DEF IInv
<1> QED BY <1>1, InitIInv, PTL DEF Spec

(***************************************************************************)
(* Theorems                                                                *)
(***************************************************************************)

(* The types.                                                              *)
THEOREM TypeCorrect == Spec => []TypeOK
<1>1. IInv => TypeOK
  BY DEF IInv
<1> QED BY <1>1, Invariant, PTL

(* The agents' rows in the file were committed together, and the record of *)
(* a server was its agent's at some moment.                                *)
THEOREM OneMoment == Spec => []SnapshotOfOneMoment
<1>1. IInv => SnapshotOfOneMoment
  BY DEF IInv, MomentInv, WasTable, SnapshotOfOneMoment
<1> QED BY <1>1, Invariant, PTL

(* An acknowledged flush was carried out.                                  *)
THEOREM AckedFlushWasDone == Spec => []AckMeansFresh
<1>1. IInv => AckMeansFresh
  BY DEF IInv, FreshInv
<1> QED BY <1>1, Invariant, PTL

(* The price of announcing before the commit: no request that changes a    *)
(* row is ever in the event stream, and none has a flush job.  Only        *)
(* requests that found their agent gone, and so had nothing to write, get  *)
(* a flush job.                                                            *)
NoWriterIsHeard ==
  /\ events = {}
  /\ \A r \in Req \ missed : job[r] \in {"none", "failed"}

THEOREM WritersAreNotHeard == Spec => []NoWriterIsHeard
<1>1. IInv => NoWriterIsHeard
  BY DEF IInv, JobInv, NoWriterIsHeard
<1> QED BY <1>1, Invariant, PTL

(* So no announcement is ever of a change that may still be rolled back.   *)
COROLLARY NoFalseAnnouncement == Spec => []AnnouncedMeansCommitted
<1>1. NoWriterIsHeard => AnnouncedMeansCommitted
  BY DEF NoWriterIsHeard, AnnouncedMeansCommitted
<1> QED BY <1>1, WritersAreNotHeard, PTL

(***************************************************************************)
(* SnapshotFlush implements SnapshotCopy                                   *)
(***************************************************************************)

(* A claimed job has been handed out, and nothing was asked before a job   *)
(* was announced.                                                          *)
AskedInv == \A r \in Req : /\ job[r] = "claimed" => tries[r] > 0
                           /\ job[r] = "none" => since[r] = 0

(* What the worker is about to write is the content of the moment that it  *)
(* is labelled with.                                                       *)
LabelInv == worker = "writing" =>
              buf.at \in DOMAIN hist /\ buf.rec = hist[buf.at]

Promises == [r \in Req |-> PromiseOf(r)]

LEMMA AskedStep == TypeOK /\ JobInv /\ AskedInv /\ [Next]_vars => AskedInv'
<1> SUFFICES ASSUME TypeOK, JobInv, AskedInv, [Next]_vars PROVE AskedInv'
  OBVIOUS
<1>1. ASSUME NEW r \in Req, Announce(r) PROVE AskedInv'
  BY <1>1 DEF Announce, TypeOK, AskedInv
<1>2. ASSUME NEW r \in Req, Claim(r) PROVE AskedInv'
  BY <1>2, Names DEF Claim, TypeOK, AskedInv
<1>3. CASE Ack \/ Retry
  BY <1>3 DEF Ack, Retry, Settle, TypeOK, AskedInv
<1>4. CASE UNCHANGED <<job, tries, since>>
  BY <1>4 DEF AskedInv
<1>5. \/ UNCHANGED <<job, tries, since>> \/ Ack \/ Retry
      \/ \E r \in Req : Announce(r) \/ Claim(r)
  BY DEF Next, Handler, Worker, Get, Write, WriteFails, Miss, Commit, Rollback,
     Return, LoadRecord, ClaimFails, ReadRows, WriteSnapshot, FlushFails,
     SettleFails, OutliveClaim, ClaimExpires, Crash, Recover, vars, queueVars
<1> QED BY <1>1, <1>2, <1>3, <1>4, <1>5

LEMMA LabelStep == TypeOK /\ LabelInv /\ [Next]_vars => LabelInv'
<1> SUFFICES ASSUME TypeOK, LabelInv, [Next]_vars PROVE LabelInv'
  OBVIOUS
<1>1. ASSUME NEW r \in Req, Commit(r) PROVE LabelInv'
  <2>1. hist' = hist \/ hist' = Append(hist, Changed(r))
    BY <1>1 DEF Commit
  <2>2. hist \in Seq(Table) /\ Changed(r) \in Table
    BY RowsType, ChangedType DEF TypeOK
  <2>3. \A i \in DOMAIN hist : i \in DOMAIN hist' /\ hist'[i] = hist[i]
    BY <2>1, <2>2, Appended
  <2> QED BY <1>1, <2>3 DEF Commit, workVars, LabelInv
<1>2. CASE ReadRows
  <2>1. UNCHANGED hist /\ buf' = [rec |-> Rows, at |-> Len(hist)]
    BY <1>2 DEF ReadRows, Snapshot, rowVars
  <2>2. Len(hist) \in DOMAIN hist
    BY RowsType DEF TypeOK
  <2> QED BY <2>1, <2>2 DEF LabelInv, Rows
<1>3. CASE worker' # "writing"
  BY <1>3 DEF LabelInv
<1>4. CASE UNCHANGED <<hist, worker, buf>>
  BY <1>4 DEF LabelInv
<1>5. \/ UNCHANGED <<hist, worker, buf>> \/ worker' # "writing"
      \/ ReadRows \/ \E r \in Req : Commit(r)
  BY DEF Next, Handler, Worker, Get, Write, WriteFails, Miss, Announce, Rollback,
     Return, LoadRecord, Claim, ClaimFails, WriteSnapshot, FlushFails, Ack, Retry,
     Settle, SettleFails, OutliveClaim, ClaimExpires, Crash, Recover, vars,
     rowVars, workVars
<1> QED BY <1>1, <1>2, <1>3, <1>4, <1>5

LEMMA InitCopy == Init => Copy!Init
<1> SUFFICES ASSUME Init PROVE Copy!Init
  OBVIOUS
<1>1. [r \in Req |-> PromiseOf(r)] = [r \in Req |-> "none"]
  BY DEF Init, PromiseOf
<1> QED BY <1>1 DEF Init, Empty, Copy!Init, Copy!QueueInit

(* A change of one job changes one promise.                                *)
LEMMA PromiseStep ==
  ASSUME NEW r \in Req, \A q \in Req \ {r} : job'[q] = job[q]
  PROVE  Promises' = [Promises EXCEPT ![r] = PromiseOf(r)']
<1>1. \A q \in Req \ {r} : PromiseOf(q)' = PromiseOf(q)
  BY DEF PromiseOf
<1> QED BY <1>1 DEF Promises

(* A step that leaves the jobs alone promises and settles nothing.         *)
LEMMA QueueKept ==
  ASSUME UNCHANGED <<job, tries>>
  PROVE  UNCHANGED Copy!qvars
<1>1. UNCHANGED Promises
  BY DEF Promises, PromiseOf
<1> QED BY <1>1 DEF Copy!qvars, Promises

LEMMA AnnounceRefines ==
  ASSUME IInv, AskedInv, NEW r \in Req, Announce(r)
  PROVE  Copy!Next \/ UNCHANGED Copy!cvars
<1>1. /\ job \in [Req -> JobState] /\ since \in [Req -> Nat]
      /\ UNCHANGED <<hist, file, served, tries>>
      /\ job[r] = "none" /\ since[r] = 0
      /\ \A q \in Req \ {r} : job'[q] = job[q]
  BY DEF IInv, TypeOK, JobInv, AskedInv, Announce, diskVars
<1>2. Promises[r] = "none" /\ Promises' = [Promises EXCEPT ![r] = PromiseOf(r)']
  BY <1>1, PromiseStep DEF Promises, PromiseOf
<1>3. CASE lock = Nobody
  <2>1. job'[r] = "pending" /\ since' = [since EXCEPT ![r] = Len(hist)]
    BY <1>1, <1>3 DEF Announce
  <2>2. PromiseOf(r)' = "open"
    BY <2>1 DEF PromiseOf
  <2>3. Copy!Accept(r)
    BY <1>1, <1>2, <2>2 DEF Copy!Accept, Promises
  <2> QED BY <1>1, <2>1, <2>3 DEF Copy!Next, Copy!Ask
<1>4. CASE lock # Nobody
  <2>1. job'[r] = "failed" /\ since' = since
    BY <1>1, <1>4 DEF Announce
  <2>2. PromiseOf(r)' = "none"
    BY <2>1 DEF PromiseOf
  <2>3. Promises' = Promises
    BY <1>2, <2>2 DEF Promises
  <2> QED BY <1>1, <2>1, <2>3 DEF Copy!cvars, Copy!qvars, Promises
<1> QED BY <1>3, <1>4

LEMMA ClaimRefines ==
  ASSUME IInv, NEW r \in Req, Claim(r)
  PROVE  Copy!Next \/ UNCHANGED Copy!cvars
<1>1. /\ job \in [Req -> JobState] /\ tries \in [Req -> 0 .. MaxAttempts]
      /\ UNCHANGED <<hist, file, served, since>> /\ MaxAttempts \in Nat
      /\ job[r] \in {"pending", "claimed"} /\ job'[r] = "claimed"
      /\ \A q \in Req \ {r} : job'[q] = job[q]
      /\ job[r] = "pending" => tries[r] < MaxAttempts
  BY Names DEF IInv, TypeOK, JobInv, Claim, Due, diskVars, rowVars
<1>2. PromiseOf(r) = "open" /\ PromiseOf(r)' = "open"
  BY <1>1 DEF PromiseOf
<1>3. Promises' = Promises /\ Promises[r] = "open"
  <2>1. Promises' = [Promises EXCEPT ![r] = PromiseOf(r)']
    BY <1>1, PromiseStep
  <2> QED BY <1>2, <2>1 DEF Promises
<1>4. CASE tries[r] = MaxAttempts
  <2>1. tries' = tries
    BY <1>1, <1>4 DEF Claim
  <2> QED BY <1>1, <1>3, <2>1 DEF Copy!cvars, Copy!qvars, Promises
<1>5. CASE tries[r] # MaxAttempts
  <2>1. tries[r] < MaxAttempts
    BY <1>1, <1>5
  <2>2. tries' = [tries EXCEPT ![r] = @ + 1]
    BY <1>5 DEF Claim
  <2>3. Copy!Attempt(r)
    BY <1>3, <2>1, <2>2 DEF Copy!Attempt, Promises
  <2> QED BY <1>1, <2>3 DEF Copy!Next, Copy!Unsettled
<1> QED BY <1>4, <1>5

(* An answer of the worker: too late, or about a job that is still claimed, *)
(* and acknowledged only when the file has caught up.                      *)
LEMMA SettleRefines ==
  ASSUME IInv, AskedInv, Ack \/ Retry
  PROVE  Copy!Next \/ UNCHANGED Copy!cvars
<1>1. PICK w \in Req : w = wjob
  BY DEF IInv, WorkInv, Ack, Retry
<1>2. /\ job \in [Req -> JobState] /\ tries \in [Req -> 0 .. MaxAttempts]
      /\ UNCHANGED <<tries, hist, file, served, since>> /\ MaxAttempts \in Nat
      /\ job[w] = "claimed" /\ tries[w] > 0
  BY <1>1, Names DEF IInv, TypeOK, WorkInv, AskedInv, Ack, Retry, Settle,
     rowVars, diskVars
<1>3. CASE job' = job
  <2>1. UNCHANGED Copy!qvars
    BY <1>2, <1>3, QueueKept
  <2> QED BY <1>2, <2>1 DEF Copy!cvars
<1>4. CASE wjob \notin late
  <2>1. \A q \in Req \ {w} : job'[q] = job[q]
    BY <1>1, <1>2, <1>4 DEF Ack, Retry, Settle
  <2>2. Promises[w] = "open" /\ Promises' = [Promises EXCEPT ![w] = PromiseOf(w)']
    BY <1>2, <2>1, PromiseStep DEF Promises, PromiseOf
  <2>3. CASE Ack
    <3>1. worker = "ok" /\ job'[w] = "acked"
      BY <1>1, <1>2, <1>4, <2>3 DEF Ack, Settle
    <3>2. file.at >= since[w]
      BY <1>1, <3>1 DEF IInv, FreshInv, TypeOK
    <3>3. PromiseOf(w)' = "kept"
      BY <3>1 DEF PromiseOf
    <3>4. Copy!Keep(w)
      BY <1>2, <2>2, <3>3 DEF Copy!Keep, Promises
    <3> QED BY <1>2, <3>2, <3>4 DEF Copy!Next, Copy!Flushed
  <2>4. CASE Retry /\ tries[w] >= MaxAttempts
    <3>1. job'[w] = "dead" /\ tries[w] = MaxAttempts
      BY <1>1, <1>2, <1>4, <2>4 DEF Retry, Settle
    <3>2. PromiseOf(w)' = "broken"
      BY <3>1 DEF PromiseOf
    <3>3. Copy!GiveUp(w)
      BY <1>2, <2>2, <3>1, <3>2 DEF Copy!GiveUp, Promises
    <3> QED BY <1>2, <3>3 DEF Copy!Next, Copy!Unsettled
  <2>5. CASE Retry /\ ~(tries[w] >= MaxAttempts)
    <3>1. job'[w] = "pending"
      BY <1>1, <1>2, <1>4, <2>5 DEF Retry, Settle
    <3>2. PromiseOf(w)' = "open"
      BY <3>1 DEF PromiseOf
    <3>3. Promises' = Promises
      BY <2>2, <3>2 DEF Promises
    <3> QED BY <1>2, <3>3 DEF Copy!cvars, Copy!qvars, Promises
  <2> QED BY <2>3, <2>4, <2>5
<1> QED BY <1>3, <1>4 DEF Ack, Retry, Settle

(* A commit appends to the history, or leaves the rows as they were.       *)
LEMMA CommitRefines ==
  ASSUME IInv, NEW r \in Req, Commit(r)
  PROVE  Copy!Next \/ UNCHANGED Copy!cvars
<1>1. UNCHANGED <<file, served, since>> /\ UNCHANGED Copy!qvars
  BY QueueKept DEF Commit, queueVars, diskVars
<1>2. hist' = hist \/ hist' = Append(hist, Changed(r))
  BY DEF Commit
<1>3. Changed(r) \in Table
  BY RowsType, ChangedType DEF IInv, TypeOK
<1> QED BY <1>1, <1>2, <1>3 DEF Copy!Next, Copy!Change, Copy!cvars

(* The file is replaced by contents of the moment it is labelled with,     *)
(* which is not before that of the contents it had.                        *)
LEMMA PublishRefines ==
  ASSUME IInv, LabelInv, WriteSnapshot
  PROVE  Copy!Next
<1>1. /\ UNCHANGED <<hist, served, since>> /\ UNCHANGED Copy!qvars
      /\ file' = buf
  BY QueueKept DEF WriteSnapshot, rowVars, queueVars
<1>2. buf.at \in DOMAIN hist /\ buf.rec = hist[buf.at] /\ buf.at >= file.at
  BY DEF WriteSnapshot, LabelInv, IInv, FreshInv, TypeOK
<1> QED BY <1>1, <1>2 DEF Copy!Next, Copy!Publish

LEMMA LoadRefines ==
  ASSUME IInv, NEW s \in Start, LoadRecord(s)
  PROVE  Copy!Next
<1>1. UNCHANGED <<hist, file, since>> /\ UNCHANGED Copy!qvars
  BY QueueKept DEF LoadRecord, rowVars, queueVars
<1> QED BY <1>1 DEF LoadRecord, Copy!Next, Copy!Load

LEMMA NextCopy ==
  ASSUME IInv, AskedInv, LabelInv, [Next]_vars
  PROVE  Copy!Next \/ UNCHANGED Copy!cvars
<1>1. CASE \E r \in Req : Announce(r)
  BY <1>1, AnnounceRefines
<1>2. CASE \E r \in Req : Claim(r)
  BY <1>2, ClaimRefines
<1>3. CASE \E r \in Req : Commit(r)
  BY <1>3, CommitRefines
<1>4. CASE \E s \in Start : LoadRecord(s)
  BY <1>4, LoadRefines
<1>5. CASE WriteSnapshot
  BY <1>5, PublishRefines
<1>6. CASE Ack \/ Retry
  BY <1>6, SettleRefines
<1>7. CASE UNCHANGED <<hist, job, since, tries, file, served>>
  BY <1>7, QueueKept DEF Copy!cvars
<1>8. \/ UNCHANGED <<hist, job, since, tries, file, served>>
      \/ \E r \in Req : Announce(r) \/ Claim(r) \/ Commit(r)
      \/ \E s \in Start : LoadRecord(s)
      \/ WriteSnapshot \/ Ack \/ Retry
  BY DEF Next, Handler, Worker, Get, Write, WriteFails, Miss, Rollback, Return,
     ClaimFails, ReadRows, FlushFails, SettleFails, OutliveClaim, ClaimExpires,
     Crash, Recover, vars, rowVars, queueVars, diskVars
<1> QED BY <1>1, <1>2, <1>3, <1>4, <1>5, <1>6, <1>7, <1>8

(* The handlers, the flush queue, its worker and the atomic replacement of *)
(* the file together keep what SnapshotCopy promises the readers.          *)
THEOREM CopyImplemented == Spec => ImplementsCopy
<1>1. Init => Copy!Init /\ IInv /\ AskedInv /\ LabelInv
  <2>1. Init => AskedInv /\ LabelInv
    BY DEF Init, AskedInv, LabelInv
  <2> QED BY <2>1, InitCopy, InitIInv
<1>2. IInv /\ AskedInv /\ LabelInv /\ [Next]_vars => (IInv /\ AskedInv /\ LabelInv)'
  BY NextTypeOK, NextLock, NextJob, NextWork, NextMoment, NextFresh, NextEvents,
     AskedStep, LabelStep DEF IInv
<1>3. IInv /\ AskedInv /\ LabelInv /\ [Next]_vars => [Copy!Next]_(Copy!cvars)
  BY NextCopy
<1> QED BY <1>1, <1>2, <1>3, PTL DEF Spec, ImplementsCopy, Copy!Spec
=============================================================================
