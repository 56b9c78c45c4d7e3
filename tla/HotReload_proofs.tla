-------------------------- MODULE HotReload_proofs --------------------------
(***************************************************************************)
(* Proofs about HotReload, for any edits, number of attempts and bounds.   *)
(***************************************************************************)
EXTENDS HotReload, TLAPS

(***************************************************************************)
(* The inductive invariant                                                 *)
(***************************************************************************)

(* A job exists only for an edit that is on disk and whose handler saw a   *)
(* running agent, and one that waits has an attempt left.                  *)
EditInv ==
  \A e \in Edit : /\ e \in disk <=> epc[e] = "done"
                  /\ job[e] # "none" => epc[e] = "done" /\ seen[e] = "running"
                  /\ job[e] = "none" => tries[e] = 0
                  /\ job[e] = "pending" => tries[e] < MaxAttempts

(* The worker has a job in hand exactly while it works; the job is claimed. *)
(* After the spawn, a pi that runs knows the job's edit, and one that does *)
(* not run was not stopped by this Reload.                                 *)
WorkInv ==
  /\ Working <=> wjob \in Edit
  /\ ~up => worker = "down"
  /\ wjob \in Edit => job[wjob] = "claimed"
  /\ worker \in {"spawned", "ok"} =>
       /\ pi = "up" => wjob \in loaded
       /\ server = "serving" /\ pi = "down" => died

(* What the row, the handlers and the worker imply of the server: the row  *)
(* says running unless a poll or a crash has cost it its server.           *)
ServerInv ==
  /\ pi = "up" => server = "serving"
  /\ Restarting => server = "serving"
  /\ ctl = "stopping" => server = "down"
  /\ ctl = "idle" /\ status # "running" => server = "down" \/ forgotten

(* A handler that did not see a running agent found none, or the row had   *)
(* lost it, or a start was under way or has begun since.                   *)
SeenInv ==
  \A e \in Edit : epc[e] = "got" /\ seen[e] # "running" =>
    server = "down" \/ e \in crossed \/ forgotten

IInv == /\ TypeOK /\ EditInv /\ WorkInv /\ ServerInv /\ SeenInv
        /\ StaleHasACause /\ NoPiMeansReloadDue

(***************************************************************************)
(* Every step preserves it: one lemma per conjunct                         *)
(***************************************************************************)

LEMMA Initially == Init => IInv
<1> USE HotReloadAssumption DEF Init
<1>1. Init => TypeOK
  <2>1. 0 \in 0 .. MaxAttempts /\ 0 \in 0 .. MaxStarts /\ 0 \in 0 .. MaxCrash
    OBVIOUS
  <2> QED BY <2>1 DEF TypeOK, EditPC, Status, JobState, WorkerPC
<1>2. Init => EditInv /\ SeenInv /\ StaleHasACause
  BY DEF EditInv, SeenInv, StaleHasACause
<1>3. Init => WorkInv /\ ServerInv /\ NoPiMeansReloadDue
  BY DEF WorkInv, ServerInv, NoPiMeansReloadDue, Working, Restarting
<1> QED BY <1>1, <1>2, <1>3 DEF IInv

(* The types; a job that is claimed from the queue has an attempt left.    *)
LEMMA TypeStep ==
  ASSUME TypeOK, EditInv, WorkInv, [Next]_vars
  PROVE  TypeOK'
<1> USE HotReloadAssumption DEF EditInv, WorkInv, Working, Restarting,
       TypeOK, EditPC, Status, JobState, WorkerPC,
       vars, editVars, queueVars, workVars, rowVars,
       piVars, downVars
<1>1. ASSUME NEW e \in Edit, EditRead(e)  PROVE TypeOK'
  BY <1>1 DEF EditRead
<1>2. ASSUME NEW e \in Edit, EditRefuse(e)  PROVE TypeOK'
  BY <1>2 DEF EditRefuse
<1>3. ASSUME NEW e \in Edit, EditWrite(e)  PROVE TypeOK'
  BY <1>3 DEF EditWrite, QueueReload
<1>4. ASSUME NEW e \in Edit, Claim(e)  PROVE TypeOK'
  BY <1>4 DEF Claim, Due
<1>5. CASE ReloadStops
  BY <1>5 DEF ReloadStops
<1>6. CASE ReloadSpawns
  BY <1>6 DEF ReloadSpawns
<1>7. CASE ReloadAnswers
  BY <1>7 DEF ReloadAnswers
<1>8. CASE Ack
  BY <1>8 DEF Ack, NextJob
<1>9. CASE Retry
  BY <1>9 DEF Retry, NextJob
<1>10. CASE ClaimFails
  BY <1>10 DEF ClaimFails
<1>11. CASE ReloadSpawnFails
  BY <1>11 DEF ReloadSpawnFails
<1>12. CASE ReloadFails
  BY <1>12 DEF ReloadFails
<1>13. CASE SettleFails
  BY <1>13 DEF SettleFails
<1>14. CASE OutliveClaim
  BY <1>14 DEF OutliveClaim
<1>15. CASE StartBegin
  <2>1. crossed' \subseteq Edit /\ starts' \in 0 .. MaxStarts /\ forgotten' = FALSE
    BY <1>15 DEF StartBegin
  <2>2. died' = died /\ up' = up /\ poll' = poll
    BY <1>15 DEF StartBegin
  <2> QED BY <1>15, <2>1, <2>2 DEF StartBegin
<1>16. CASE ServerOpens
  BY <1>16 DEF ServerOpens
<1>17. CASE StartCommit
  BY <1>17 DEF StartCommit
<1>18. CASE StopServer
  BY <1>18 DEF StopServer
<1>19. CASE StopMark
  BY <1>19 DEF StopMark
<1>20. CASE PollFinds \/ PollWrites
  <2>1. poll' \in BOOLEAN /\ forgotten' \in BOOLEAN /\ status' \in Status
    BY <1>20, Zenon DEF PollFinds, PollWrites
  <2>2. died' = died /\ up' = up
    BY <1>20 DEF PollFinds, PollWrites
  <2> QED BY <1>20, <2>1, <2>2 DEF PollFinds, PollWrites
<1>21. CASE OtherStart
  BY <1>21 DEF OtherStart
<1>22. CASE OtherCommit
  BY <1>22 DEF OtherCommit
<1>23. CASE ServerDies
  BY <1>23 DEF ServerDies
<1>24. CASE PiDies
  BY <1>24 DEF PiDies
<1>25. CASE Crash
  <2>1. epc' \in [Edit -> EditPC]
    BY <1>25 DEF Crash
  <2>2. up' = FALSE /\ died' = died
    BY <1>25 DEF Crash
  <2>3. crashes' \in 0 .. MaxCrash
    BY <1>25 DEF Crash
  <2> QED BY <1>25, <2>1, <2>2, <2>3 DEF Crash
<1>26. CASE Recover
  BY <1>26 DEF Recover
<1>27. ASSUME NEW e \in Edit, ClaimExpires(e)  PROVE TypeOK'
  BY <1>27 DEF ClaimExpires
<1>28. CASE UNCHANGED vars
  BY <1>28
<1> QED BY <1>1, <1>2, <1>3, <1>4, <1>5, <1>6, <1>7, <1>8, <1>9, <1>10,
           <1>11, <1>12, <1>13, <1>14, <1>15, <1>16, <1>17, <1>18, <1>19,
           <1>20, <1>21, <1>22, <1>23, <1>24, <1>25, <1>26, <1>27, <1>28
         DEF Next, Edits, Worker, Slips, Starts, Deaths

(* A handler writes and queues in one step, once.                          *)
LEMMA EditStep ==
  ASSUME TypeOK, EditInv, WorkInv, [Next]_vars
  PROVE  EditInv'
<1> USE HotReloadAssumption DEF EditInv, WorkInv, Working, Restarting,
       TypeOK, EditPC, Status, JobState, WorkerPC,
       vars, editVars, queueVars, workVars, rowVars,
       piVars, downVars
<1>1. ASSUME NEW e \in Edit, EditRead(e)  PROVE EditInv'
  BY <1>1 DEF EditRead
<1>2. ASSUME NEW e \in Edit, EditRefuse(e)  PROVE EditInv'
  BY <1>2 DEF EditRefuse
<1>3. ASSUME NEW e \in Edit, EditWrite(e)  PROVE EditInv'
  BY <1>3 DEF EditWrite, QueueReload
<1>4. ASSUME NEW e \in Edit, Claim(e)  PROVE EditInv'
  BY <1>4 DEF Claim, Due
<1>5. CASE ReloadStops
  BY <1>5 DEF ReloadStops
<1>6. CASE ReloadSpawns
  BY <1>6 DEF ReloadSpawns
<1>7. CASE ReloadAnswers
  BY <1>7 DEF ReloadAnswers
<1>8. CASE Ack
  BY <1>8 DEF Ack, NextJob
<1>9. CASE Retry
  BY <1>9 DEF Retry, NextJob
<1>10. CASE ClaimFails
  BY <1>10 DEF ClaimFails
<1>11. CASE ReloadSpawnFails
  BY <1>11 DEF ReloadSpawnFails
<1>12. CASE ReloadFails
  BY <1>12 DEF ReloadFails
<1>13. CASE SettleFails
  BY <1>13 DEF SettleFails
<1>14. CASE OutliveClaim
  BY <1>14 DEF OutliveClaim
<1>15. CASE StartBegin
  BY <1>15 DEF StartBegin
<1>16. CASE ServerOpens
  BY <1>16 DEF ServerOpens
<1>17. CASE StartCommit
  BY <1>17 DEF StartCommit
<1>18. CASE StopServer
  BY <1>18 DEF StopServer
<1>19. CASE StopMark
  BY <1>19 DEF StopMark
<1>20. CASE PollFinds \/ PollWrites
  BY <1>20 DEF PollFinds, PollWrites
<1>21. CASE OtherStart
  BY <1>21 DEF OtherStart
<1>22. CASE OtherCommit
  BY <1>22 DEF OtherCommit
<1>23. CASE ServerDies
  BY <1>23 DEF ServerDies
<1>24. CASE PiDies
  BY <1>24 DEF PiDies
<1>25. CASE Crash
  BY <1>25 DEF Crash
<1>26. CASE Recover
  BY <1>26 DEF Recover
<1>27. ASSUME NEW e \in Edit, ClaimExpires(e)  PROVE EditInv'
  BY <1>27 DEF ClaimExpires
<1>28. CASE UNCHANGED vars
  BY <1>28
<1> QED BY <1>1, <1>2, <1>3, <1>4, <1>5, <1>6, <1>7, <1>8, <1>9, <1>10,
           <1>11, <1>12, <1>13, <1>14, <1>15, <1>16, <1>17, <1>18, <1>19,
           <1>20, <1>21, <1>22, <1>23, <1>24, <1>25, <1>26, <1>27, <1>28
         DEF Next, Edits, Worker, Slips, Starts, Deaths

(* A Reload that spawned pi did so after the edit of its job.              *)
LEMMA WorkStep ==
  ASSUME TypeOK, EditInv, WorkInv, ServerInv, [Next]_vars
  PROVE  WorkInv'
<1> USE HotReloadAssumption DEF EditInv, WorkInv, ServerInv,
       Working, Restarting,
       TypeOK, EditPC, Status, JobState, WorkerPC,
       vars, editVars, queueVars, workVars, rowVars,
       piVars, downVars
<1>1. ASSUME NEW e \in Edit, EditRead(e)  PROVE WorkInv'
  BY <1>1 DEF EditRead
<1>2. ASSUME NEW e \in Edit, EditRefuse(e)  PROVE WorkInv'
  BY <1>2 DEF EditRefuse
<1>3. ASSUME NEW e \in Edit, EditWrite(e)  PROVE WorkInv'
  BY <1>3 DEF EditWrite, QueueReload
<1>4. ASSUME NEW e \in Edit, Claim(e)  PROVE WorkInv'
  BY <1>4 DEF Claim, Due
<1>5. CASE ReloadStops
  BY <1>5 DEF ReloadStops
<1>6. CASE ReloadSpawns
  BY <1>6 DEF ReloadSpawns
<1>7. CASE ReloadAnswers
  BY <1>7 DEF ReloadAnswers
<1>8. CASE Ack
  BY <1>8 DEF Ack, NextJob
<1>9. CASE Retry
  BY <1>9 DEF Retry, NextJob
<1>10. CASE ClaimFails
  BY <1>10 DEF ClaimFails
<1>11. CASE ReloadSpawnFails
  BY <1>11 DEF ReloadSpawnFails
<1>12. CASE ReloadFails
  BY <1>12 DEF ReloadFails
<1>13. CASE SettleFails
  BY <1>13 DEF SettleFails
<1>14. CASE OutliveClaim
  BY <1>14 DEF OutliveClaim
<1>15. CASE StartBegin
  BY <1>15 DEF StartBegin
<1>16. CASE ServerOpens
  BY <1>16 DEF ServerOpens
<1>17. CASE StartCommit
  BY <1>17 DEF StartCommit
<1>18. CASE StopServer
  BY <1>18 DEF StopServer
<1>19. CASE StopMark
  BY <1>19 DEF StopMark
<1>20. CASE PollFinds \/ PollWrites
  BY <1>20 DEF PollFinds, PollWrites
<1>21. CASE OtherStart
  BY <1>21 DEF OtherStart
<1>22. CASE OtherCommit
  BY <1>22 DEF OtherCommit
<1>23. CASE ServerDies
  BY <1>23 DEF ServerDies
<1>24. CASE PiDies
  BY <1>24 DEF PiDies
<1>25. CASE Crash
  BY <1>25 DEF Crash
<1>26. CASE Recover
  BY <1>26 DEF Recover
<1>27. ASSUME NEW e \in Edit, ClaimExpires(e)  PROVE WorkInv'
  BY <1>27 DEF ClaimExpires
<1>28. CASE UNCHANGED vars
  BY <1>28
<1> QED BY <1>1, <1>2, <1>3, <1>4, <1>5, <1>6, <1>7, <1>8, <1>9, <1>10,
           <1>11, <1>12, <1>13, <1>14, <1>15, <1>16, <1>17, <1>18, <1>19,
           <1>20, <1>21, <1>22, <1>23, <1>24, <1>25, <1>26, <1>27, <1>28
         DEF Next, Edits, Worker, Slips, Starts, Deaths

(* The server goes down with pi, and takes the Reload under way with it.   *)
LEMMA ServerStep ==
  ASSUME TypeOK, ServerInv, [Next]_vars
  PROVE  ServerInv'
<1> USE HotReloadAssumption DEF ServerInv, Working, Restarting,
       TypeOK, EditPC, Status, JobState, WorkerPC,
       vars, editVars, queueVars, workVars, rowVars,
       piVars, downVars
<1>1. ASSUME NEW e \in Edit, EditRead(e)  PROVE ServerInv'
  BY <1>1 DEF EditRead
<1>2. ASSUME NEW e \in Edit, EditRefuse(e)  PROVE ServerInv'
  BY <1>2 DEF EditRefuse
<1>3. ASSUME NEW e \in Edit, EditWrite(e)  PROVE ServerInv'
  BY <1>3 DEF EditWrite, QueueReload
<1>4. ASSUME NEW e \in Edit, Claim(e)  PROVE ServerInv'
  BY <1>4 DEF Claim, Due
<1>5. CASE ReloadStops
  BY <1>5 DEF ReloadStops
<1>6. CASE ReloadSpawns
  BY <1>6 DEF ReloadSpawns
<1>7. CASE ReloadAnswers
  BY <1>7 DEF ReloadAnswers
<1>8. CASE Ack
  BY <1>8 DEF Ack, NextJob
<1>9. CASE Retry
  BY <1>9 DEF Retry, NextJob
<1>10. CASE ClaimFails
  BY <1>10 DEF ClaimFails
<1>11. CASE ReloadSpawnFails
  BY <1>11 DEF ReloadSpawnFails
<1>12. CASE ReloadFails
  BY <1>12 DEF ReloadFails
<1>13. CASE SettleFails
  BY <1>13 DEF SettleFails
<1>14. CASE OutliveClaim
  BY <1>14 DEF OutliveClaim
<1>15. CASE StartBegin
  BY <1>15 DEF StartBegin
<1>16. CASE ServerOpens
  BY <1>16 DEF ServerOpens
<1>17. CASE StartCommit
  BY <1>17 DEF StartCommit
<1>18. CASE StopServer
  BY <1>18 DEF StopServer
<1>19. CASE StopMark
  BY <1>19 DEF StopMark
<1>20. CASE PollFinds \/ PollWrites
  BY <1>20 DEF PollFinds, PollWrites
<1>21. CASE OtherStart
  BY <1>21 DEF OtherStart
<1>22. CASE OtherCommit
  BY <1>22 DEF OtherCommit
<1>23. CASE ServerDies
  BY <1>23 DEF ServerDies
<1>24. CASE PiDies
  BY <1>24 DEF PiDies
<1>25. CASE Crash
  BY <1>25 DEF Crash
<1>26. CASE Recover
  BY <1>26 DEF Recover
<1>27. ASSUME NEW e \in Edit, ClaimExpires(e)  PROVE ServerInv'
  BY <1>27 DEF ClaimExpires
<1>28. CASE UNCHANGED vars
  BY <1>28
<1> QED BY <1>1, <1>2, <1>3, <1>4, <1>5, <1>6, <1>7, <1>8, <1>9, <1>10,
           <1>11, <1>12, <1>13, <1>14, <1>15, <1>16, <1>17, <1>18, <1>19,
           <1>20, <1>21, <1>22, <1>23, <1>24, <1>25, <1>26, <1>27, <1>28
         DEF Next, Edits, Worker, Slips, Starts, Deaths

(* No start goes by a handler unnoticed.                                   *)
LEMMA SeenStep ==
  ASSUME TypeOK, ServerInv, SeenInv, [Next]_vars
  PROVE  SeenInv'
<1> USE HotReloadAssumption DEF ServerInv, SeenInv,
       Working, Restarting,
       TypeOK, EditPC, Status, JobState, WorkerPC,
       vars, editVars, queueVars, workVars, rowVars,
       piVars, downVars
<1>1. ASSUME NEW e \in Edit, EditRead(e)  PROVE SeenInv'
  BY <1>1 DEF EditRead
<1>2. ASSUME NEW e \in Edit, EditRefuse(e)  PROVE SeenInv'
  BY <1>2 DEF EditRefuse
<1>3. ASSUME NEW e \in Edit, EditWrite(e)  PROVE SeenInv'
  BY <1>3 DEF EditWrite, QueueReload
<1>4. ASSUME NEW e \in Edit, Claim(e)  PROVE SeenInv'
  BY <1>4 DEF Claim, Due
<1>5. CASE ReloadStops
  BY <1>5 DEF ReloadStops
<1>6. CASE ReloadSpawns
  BY <1>6 DEF ReloadSpawns
<1>7. CASE ReloadAnswers
  BY <1>7 DEF ReloadAnswers
<1>8. CASE Ack
  BY <1>8 DEF Ack, NextJob
<1>9. CASE Retry
  BY <1>9 DEF Retry, NextJob
<1>10. CASE ClaimFails
  BY <1>10 DEF ClaimFails
<1>11. CASE ReloadSpawnFails
  BY <1>11 DEF ReloadSpawnFails
<1>12. CASE ReloadFails
  BY <1>12 DEF ReloadFails
<1>13. CASE SettleFails
  BY <1>13 DEF SettleFails
<1>14. CASE OutliveClaim
  BY <1>14 DEF OutliveClaim
<1>15. CASE StartBegin
  BY <1>15 DEF StartBegin
<1>16. CASE ServerOpens
  BY <1>16 DEF ServerOpens
<1>17. CASE StartCommit
  BY <1>17 DEF StartCommit
<1>18. CASE StopServer
  BY <1>18 DEF StopServer
<1>19. CASE StopMark
  BY <1>19 DEF StopMark
<1>20. CASE PollFinds \/ PollWrites
  BY <1>20 DEF PollFinds, PollWrites
<1>21. CASE OtherStart
  BY <1>21 DEF OtherStart
<1>22. CASE OtherCommit
  BY <1>22 DEF OtherCommit
<1>23. CASE ServerDies
  BY <1>23 DEF ServerDies
<1>24. CASE PiDies
  BY <1>24 DEF PiDies
<1>25. CASE Crash
  BY <1>25 DEF Crash
<1>26. CASE Recover
  BY <1>26 DEF Recover
<1>27. ASSUME NEW e \in Edit, ClaimExpires(e)  PROVE SeenInv'
  BY <1>27 DEF ClaimExpires
<1>28. CASE UNCHANGED vars
  BY <1>28
<1> QED BY <1>1, <1>2, <1>3, <1>4, <1>5, <1>6, <1>7, <1>8, <1>9, <1>10,
           <1>11, <1>12, <1>13, <1>14, <1>15, <1>16, <1>17, <1>18, <1>19,
           <1>20, <1>21, <1>22, <1>23, <1>24, <1>25, <1>26, <1>27, <1>28
         DEF Next, Edits, Worker, Slips, Starts, Deaths

(* A job leaves the queue only when pi knows its edit, or dead.            *)
LEMMA StaleStep ==
  ASSUME TypeOK, EditInv, WorkInv, ServerInv, SeenInv, StaleHasACause, [Next]_vars
  PROVE  StaleHasACause'
<1> USE HotReloadAssumption DEF EditInv, WorkInv, ServerInv, SeenInv,
       StaleHasACause, Working, Restarting,
       TypeOK, EditPC, Status, JobState, WorkerPC,
       vars, editVars, queueVars, workVars, rowVars,
       piVars, downVars
<1>1. ASSUME NEW e \in Edit, EditRead(e)  PROVE StaleHasACause'
  BY <1>1 DEF EditRead
<1>2. ASSUME NEW e \in Edit, EditRefuse(e)  PROVE StaleHasACause'
  BY <1>2 DEF EditRefuse
<1>3. ASSUME NEW e \in Edit, EditWrite(e)  PROVE StaleHasACause'
  BY <1>3 DEF EditWrite, QueueReload
<1>4. ASSUME NEW e \in Edit, Claim(e)  PROVE StaleHasACause'
  BY <1>4 DEF Claim, Due
<1>5. CASE ReloadStops
  BY <1>5 DEF ReloadStops
<1>6. CASE ReloadSpawns
  BY <1>6 DEF ReloadSpawns
<1>7. CASE ReloadAnswers
  BY <1>7 DEF ReloadAnswers
<1>8. CASE Ack
  BY <1>8 DEF Ack, NextJob
<1>9. CASE Retry
  BY <1>9 DEF Retry, NextJob
<1>10. CASE ClaimFails
  BY <1>10 DEF ClaimFails
<1>11. CASE ReloadSpawnFails
  BY <1>11 DEF ReloadSpawnFails
<1>12. CASE ReloadFails
  BY <1>12 DEF ReloadFails
<1>13. CASE SettleFails
  BY <1>13 DEF SettleFails
<1>14. CASE OutliveClaim
  BY <1>14 DEF OutliveClaim
<1>15. CASE StartBegin
  BY <1>15 DEF StartBegin
<1>16. CASE ServerOpens
  BY <1>16 DEF ServerOpens
<1>17. CASE StartCommit
  BY <1>17 DEF StartCommit
<1>18. CASE StopServer
  BY <1>18 DEF StopServer
<1>19. CASE StopMark
  BY <1>19 DEF StopMark
<1>20. CASE PollFinds \/ PollWrites
  BY <1>20 DEF PollFinds, PollWrites
<1>21. CASE OtherStart
  BY <1>21 DEF OtherStart
<1>22. CASE OtherCommit
  BY <1>22 DEF OtherCommit
<1>23. CASE ServerDies
  BY <1>23 DEF ServerDies
<1>24. CASE PiDies
  BY <1>24 DEF PiDies
<1>25. CASE Crash
  BY <1>25 DEF Crash
<1>26. CASE Recover
  BY <1>26 DEF Recover
<1>27. ASSUME NEW e \in Edit, ClaimExpires(e)  PROVE StaleHasACause'
  BY <1>27 DEF ClaimExpires
<1>28. CASE UNCHANGED vars
  BY <1>28
<1> QED BY <1>1, <1>2, <1>3, <1>4, <1>5, <1>6, <1>7, <1>8, <1>9, <1>10,
           <1>11, <1>12, <1>13, <1>14, <1>15, <1>16, <1>17, <1>18, <1>19,
           <1>20, <1>21, <1>22, <1>23, <1>24, <1>25, <1>26, <1>27, <1>28
         DEF Next, Edits, Worker, Slips, Starts, Deaths

(* A Reload that left no pi is not acknowledged.                           *)
LEMMA NoPiStep ==
  ASSUME TypeOK, EditInv, WorkInv, ServerInv, NoPiMeansReloadDue, [Next]_vars
  PROVE  NoPiMeansReloadDue'
<1> USE HotReloadAssumption DEF EditInv, WorkInv, ServerInv,
       NoPiMeansReloadDue, Working, Restarting,
       TypeOK, EditPC, Status, JobState, WorkerPC,
       vars, editVars, queueVars, workVars, rowVars,
       piVars, downVars
<1>1. ASSUME NEW e \in Edit, EditRead(e)  PROVE NoPiMeansReloadDue'
  BY <1>1 DEF EditRead
<1>2. ASSUME NEW e \in Edit, EditRefuse(e)  PROVE NoPiMeansReloadDue'
  BY <1>2 DEF EditRefuse
<1>3. ASSUME NEW e \in Edit, EditWrite(e)  PROVE NoPiMeansReloadDue'
  BY <1>3 DEF EditWrite, QueueReload
<1>4. ASSUME NEW e \in Edit, Claim(e)  PROVE NoPiMeansReloadDue'
  BY <1>4 DEF Claim, Due
<1>5. CASE ReloadStops
  BY <1>5 DEF ReloadStops
<1>6. CASE ReloadSpawns
  BY <1>6 DEF ReloadSpawns
<1>7. CASE ReloadAnswers
  BY <1>7 DEF ReloadAnswers
<1>8. CASE Ack
  BY <1>8 DEF Ack, NextJob
<1>9. CASE Retry
  BY <1>9 DEF Retry, NextJob
<1>10. CASE ClaimFails
  BY <1>10 DEF ClaimFails
<1>11. CASE ReloadSpawnFails
  BY <1>11 DEF ReloadSpawnFails
<1>12. CASE ReloadFails
  BY <1>12 DEF ReloadFails
<1>13. CASE SettleFails
  BY <1>13 DEF SettleFails
<1>14. CASE OutliveClaim
  BY <1>14 DEF OutliveClaim
<1>15. CASE StartBegin
  BY <1>15 DEF StartBegin
<1>16. CASE ServerOpens
  BY <1>16 DEF ServerOpens
<1>17. CASE StartCommit
  BY <1>17 DEF StartCommit
<1>18. CASE StopServer
  BY <1>18 DEF StopServer
<1>19. CASE StopMark
  BY <1>19 DEF StopMark
<1>20. CASE PollFinds \/ PollWrites
  BY <1>20 DEF PollFinds, PollWrites
<1>21. CASE OtherStart
  BY <1>21 DEF OtherStart
<1>22. CASE OtherCommit
  BY <1>22 DEF OtherCommit
<1>23. CASE ServerDies
  BY <1>23 DEF ServerDies
<1>24. CASE PiDies
  BY <1>24 DEF PiDies
<1>25. CASE Crash
  BY <1>25 DEF Crash
<1>26. CASE Recover
  BY <1>26 DEF Recover
<1>27. ASSUME NEW e \in Edit, ClaimExpires(e)  PROVE NoPiMeansReloadDue'
  BY <1>27 DEF ClaimExpires
<1>28. CASE UNCHANGED vars
  BY <1>28
<1> QED BY <1>1, <1>2, <1>3, <1>4, <1>5, <1>6, <1>7, <1>8, <1>9, <1>10,
           <1>11, <1>12, <1>13, <1>14, <1>15, <1>16, <1>17, <1>18, <1>19,
           <1>20, <1>21, <1>22, <1>23, <1>24, <1>25, <1>26, <1>27, <1>28
         DEF Next, Edits, Worker, Slips, Starts, Deaths

(***************************************************************************)
(* The theorems                                                            *)
(***************************************************************************)

(* The inductive invariant holds in every reachable state of the reload    *)
(* pipeline: handlers, queue, worker, Reload RPC and restart of pi.        *)
THEOREM Invariant == Spec => []IInv
<1>1. IInv /\ [Next]_vars => IInv'
  BY TypeStep, EditStep, WorkStep, ServerStep, SeenStep, StaleStep, NoPiStep
     DEF IInv
<1> QED BY Initially, <1>1, PTL DEF Spec

(* TypeOK: in particular pi never knows an edit that was not written.      *)
THEOREM TypeCorrect == Spec => []TypeOK
<1>1. IInv => TypeOK
  BY DEF IInv
<1> QED BY Invariant, <1>1, PTL

(* StaleHasACause: an edit that pi does not know has a job to come, a dead *)
(* one or none that could be queued, unless its handler overlapped a start *)
(* or the row had lost a server that serves (agent_status writing late, or *)
(* a crash inside start_agent).                                            *)
THEOREM StaleEditsAreExplained == Spec => []StaleHasACause
<1>1. IInv => StaleHasACause
  BY DEF IInv
<1> QED BY Invariant, <1>1, PTL

(* NoPiMeansReloadDue: restart() that stopped pi and failed is tried again *)
(* until pi is back or the attempts are used up.                           *)
THEOREM NoPiIsExplained == Spec => []NoPiMeansReloadDue
<1>1. IInv => NoPiMeansReloadDue
  BY DEF IInv
<1> QED BY Invariant, <1>1, PTL

(* An acknowledged job means that the pi that runs began after the edit    *)
(* (client.reload and job.ack in run_reload_worker), whatever fails, comes *)
(* too late or is delivered twice.                                         *)
THEOREM AckMeansLoaded ==
  Spec => [](\A e \in Edit : job[e] = "acked" /\ pi = "up" => e \in loaded)
<1>1. IInv => \A e \in Edit : job[e] = "acked" /\ pi = "up" => e \in loaded
  BY DEF IInv, EditInv, StaleHasACause
<1> QED BY Invariant, <1>1, PTL

(***************************************************************************)
(* HotReload implements EditPromise                                        *)
(***************************************************************************)

(* A job that is or was claimed has been handed out.                       *)
TriedInv == \A e \in Edit : job[e] = "claimed" => tries[e] > 0

Promises == [e \in Edit |-> PromiseOf(e)]

LEMMA TriedStep == TypeOK /\ TriedInv /\ [Next]_vars => TriedInv'
<1> SUFFICES ASSUME TypeOK, TriedInv, [Next]_vars PROVE TriedInv'
  OBVIOUS
<1>1. ASSUME NEW e \in Edit, Claim(e) PROVE TriedInv'
  BY <1>1, HotReloadAssumption DEF Claim, TypeOK, TriedInv
<1>2. ASSUME NEW e \in Edit, EditWrite(e) PROVE TriedInv'
  BY <1>2 DEF EditWrite, QueueReload, TypeOK, TriedInv
<1>3. CASE Ack \/ Retry
  BY <1>3 DEF Ack, Retry, TypeOK, TriedInv
<1>4. CASE UNCHANGED <<job, tries>>
  BY <1>4 DEF TriedInv
<1>5. \/ UNCHANGED <<job, tries>> \/ Ack \/ Retry
      \/ \E e \in Edit : Claim(e) \/ EditWrite(e)
  BY DEF Next, Edits, EditRead, EditRefuse, Worker, ReloadStops, ReloadSpawns,
     ReloadAnswers, Slips, ClaimFails, ReloadSpawnFails, ReloadFails, SettleFails,
     OutliveClaim, Starts, StartBegin, ServerOpens, StartCommit, StopServer,
     StopMark, PollFinds, PollWrites, OtherStart, OtherCommit, Deaths, ServerDies, PiDies,
     Crash, Recover, ClaimExpires, vars, queueVars
<1> QED BY <1>1, <1>2, <1>3, <1>4, <1>5

LEMMA InitPromise == Init => Promise!Init
BY DEF Init, PromiseOf, Promise!Init, Promise!QueueInit

(* A change of one job changes one promise.                                *)
LEMMA PromiseStep ==
  ASSUME NEW e \in Edit, \A f \in Edit \ {e} : job'[f] = job[f]
  PROVE  Promises' = [Promises EXCEPT ![e] = PromiseOf(e)']
<1>1. \A f \in Edit \ {e} : PromiseOf(f)' = PromiseOf(f)
  BY DEF PromiseOf
<1> QED BY <1>1 DEF Promises

(* A step that leaves the jobs alone is a step of pi or none.              *)
LEMMA PiRefines ==
  ASSUME UNCHANGED <<job, tries, disk>>,
         \/ UNCHANGED <<pi, loaded>>
         \/ pi' = "up" /\ loaded' = disk
         \/ pi' = "down" /\ UNCHANGED loaded
  PROVE  Promise!Next \/ UNCHANGED Promise!evars
<1>1. UNCHANGED Promises
  BY DEF Promises, PromiseOf
<1>2. UNCHANGED Promise!qvars
  BY <1>1 DEF Promise!qvars, Promises
<1> QED BY <1>2
    DEF Promise!Next, Promise!PiBegins, Promise!PiEnds, Promise!evars, Promise!qvars

LEMMA WriteRefines ==
  ASSUME IInv, NEW e \in Edit, EditWrite(e)
  PROVE  Promise!Next
<1>1. /\ job \in [Edit -> JobState] /\ UNCHANGED <<tries, pi, loaded>>
      /\ e \notin disk /\ disk' = disk \cup {e} /\ job[e] = "none"
      /\ job'[e] \in {"none", "failed", "pending"}
      /\ \A f \in Edit \ {e} : job'[f] = job[f]
  BY DEF IInv, TypeOK, EditInv, EditWrite, QueueReload, piVars, EditPC
<1>2. Promises[e] = "none" /\ PromiseOf(e)' \in {"none", "open"}
  BY <1>1 DEF Promises, PromiseOf
<1>3. Promises' = [Promises EXCEPT ![e] = PromiseOf(e)']
  BY <1>1, PromiseStep
<1>4. CASE PromiseOf(e)' = "none"
  <2>1. Promises' = Promises
    BY <1>2, <1>3, <1>4 DEF Promises
  <2>2. UNCHANGED Promise!qvars
    BY <1>1, <2>1 DEF Promise!qvars, Promises
  <2> QED BY <1>1, <2>2 DEF Promise!Next, Promise!Write
<1>5. CASE PromiseOf(e)' = "open"
  <2>1. Promise!Accept(e)
    BY <1>1, <1>2, <1>3, <1>5 DEF Promise!Accept, Promises
  <2> QED BY <1>1, <2>1 DEF Promise!Next, Promise!Write
<1> QED BY <1>2, <1>4, <1>5

LEMMA ClaimRefines ==
  ASSUME IInv, NEW e \in Edit, Claim(e)
  PROVE  Promise!Next \/ UNCHANGED Promise!evars
<1>1. /\ job \in [Edit -> JobState] /\ tries \in [Edit -> 0 .. MaxAttempts]
      /\ UNCHANGED <<disk, pi, loaded>> /\ MaxAttempts \in Nat
      /\ job[e] \in {"pending", "claimed"} /\ job'[e] = "claimed"
      /\ \A f \in Edit \ {e} : job'[f] = job[f]
      /\ job[e] = "pending" => tries[e] < MaxAttempts
  BY HotReloadAssumption DEF IInv, TypeOK, EditInv, Claim, Due, piVars, editVars
<1>2. PromiseOf(e) = "open" /\ PromiseOf(e)' = "open"
  BY <1>1 DEF PromiseOf
<1>3. Promises' = Promises /\ Promises[e] = "open"
  <2>1. Promises' = [Promises EXCEPT ![e] = PromiseOf(e)']
    BY <1>1, PromiseStep
  <2> QED BY <1>2, <2>1 DEF Promises
<1>4. CASE tries[e] = MaxAttempts
  <2>1. tries' = tries
    BY <1>1, <1>4 DEF Claim
  <2> QED BY <1>1, <1>3, <2>1 DEF Promise!evars, Promise!qvars, Promises
<1>5. CASE tries[e] # MaxAttempts
  <2>1. tries[e] < MaxAttempts
    BY <1>1, <1>5
  <2>2. tries' = [tries EXCEPT ![e] = @ + 1]
    BY <1>5 DEF Claim
  <2>3. Promise!Attempt(e)
    BY <1>3, <2>1, <2>2 DEF Promise!Attempt, Promises
  <2> QED BY <1>1, <2>3 DEF Promise!Next, Promise!Unsettled
<1> QED BY <1>4, <1>5

(* An answer of the worker: too late, or about a job that is still claimed. *)
LEMMA SettleRefines ==
  ASSUME IInv, TriedInv, Ack \/ Retry
  PROVE  Promise!Next \/ UNCHANGED Promise!evars
<1>1. /\ job \in [Edit -> JobState] /\ tries \in [Edit -> 0 .. MaxAttempts]
      /\ UNCHANGED <<tries, disk, pi, loaded>> /\ MaxAttempts \in Nat
      /\ wjob \in Edit /\ job[wjob] = "claimed" /\ tries[wjob] > 0
  BY HotReloadAssumption DEF IInv, TypeOK, WorkInv, Working, TriedInv, Ack, Retry,
     piVars, editVars
<1> DEFINE e == wjob
<1>2. CASE job' = job
  BY <1>1, <1>2, PiRefines
<1>3. CASE wjob \notin late
  <2>1. \A f \in Edit \ {e} : job'[f] = job[f]
    BY <1>1, <1>3 DEF Ack, Retry
  <2>2. PICK w \in Edit : w = wjob
    BY <1>1
  <2>3. Promises[w] = "open" /\ Promises' = [Promises EXCEPT ![w] = PromiseOf(w)']
    BY <1>1, <2>1, <2>2, PromiseStep DEF Promises, PromiseOf
  <2>4. CASE Ack
    <3>1. worker = "ok" /\ job'[w] = "acked"
      BY <1>1, <1>3, <2>2, <2>4 DEF Ack
    <3>2. pi = "up" => w \in loaded
      BY <2>2, <3>1 DEF IInv, WorkInv
    <3>3. PromiseOf(w)' = "kept"
      BY <3>1 DEF PromiseOf
    <3>4. Promise!Keep(w)
      BY <1>1, <2>2, <2>3, <3>3 DEF Promise!Keep, Promises
    <3> QED BY <1>1, <3>2, <3>4 DEF Promise!Next, Promise!Reloaded
  <2>5. CASE Retry /\ tries[w] >= MaxAttempts
    <3>1. job'[w] = "dead" /\ tries[w] = MaxAttempts
      BY <1>1, <1>3, <2>2, <2>5 DEF Retry
    <3>2. PromiseOf(w)' = "broken"
      BY <3>1 DEF PromiseOf
    <3>3. Promise!GiveUp(w)
      BY <1>1, <2>3, <3>1, <3>2 DEF Promise!GiveUp, Promises
    <3> QED BY <1>1, <3>3 DEF Promise!Next, Promise!Unsettled
  <2>6. CASE Retry /\ ~(tries[w] >= MaxAttempts)
    <3>1. job'[w] = "pending"
      BY <1>1, <1>3, <2>2, <2>6 DEF Retry
    <3>2. PromiseOf(w)' = "open"
      BY <3>1 DEF PromiseOf
    <3>3. Promises' = Promises
      BY <2>3, <3>2 DEF Promises
    <3> QED BY <1>1, <3>3 DEF Promise!evars, Promise!qvars, Promises
  <2> QED BY <2>4, <2>5, <2>6
<1> QED BY <1>2, <1>3 DEF Ack, Retry

LEMMA NextPromise ==
  ASSUME IInv, TriedInv, [Next]_vars
  PROVE  Promise!Next \/ UNCHANGED Promise!evars
<1>1. CASE \E e \in Edit : EditWrite(e)
  BY <1>1, WriteRefines
<1>2. CASE \E e \in Edit : Claim(e)
  BY <1>2, ClaimRefines
<1>3. CASE Ack \/ Retry
  BY <1>3, SettleRefines
<1>4. CASE ~(Ack \/ Retry \/ \E e \in Edit : EditWrite(e) \/ Claim(e))
  <2>1. UNCHANGED <<job, tries, disk>>
    BY <1>4 DEF Next, Edits, EditRead, EditRefuse, Worker, ReloadStops,
       ReloadSpawns, ReloadAnswers, Slips, ClaimFails, ReloadSpawnFails,
       ReloadFails, SettleFails, OutliveClaim, Starts, StartBegin, ServerOpens,
       StartCommit, StopServer, StopMark, PollFinds, PollWrites, OtherStart, OtherCommit,
       Deaths, ServerDies, PiDies, Crash, Recover, ClaimExpires, vars, queueVars,
       editVars
  <2>2. \/ UNCHANGED <<pi, loaded>>
        \/ pi' = "up" /\ loaded' = disk
        \/ pi' = "down" /\ UNCHANGED loaded
    BY <1>4 DEF Next, Edits, EditRead, EditRefuse, Worker, ReloadStops,
       ReloadSpawns, ReloadAnswers, Slips, ClaimFails, ReloadSpawnFails,
       ReloadFails, SettleFails, OutliveClaim, Starts, StartBegin, ServerOpens,
       StartCommit, StopServer, StopMark, PollFinds, PollWrites, OtherStart, OtherCommit,
       Deaths, ServerDies, PiDies, Crash, Recover, ClaimExpires, vars, piVars
  <2> QED BY <2>1, <2>2, PiRefines
<1> QED BY <1>1, <1>2, <1>3, <1>4

(* The handlers, the queue, its worker, the Reload RPC and the restarts of *)
(* either side together keep what EditPromise promises the author of an    *)
(* edit.                                                                   *)
THEOREM PromiseImplemented == Spec => ImplementsPromise
<1>1. Init => Promise!Init /\ IInv /\ TriedInv
  <2>1. Init => TriedInv
    BY DEF Init, TriedInv
  <2> QED BY <2>1, InitPromise, Initially
<1>2. IInv /\ TriedInv /\ [Next]_vars => (IInv /\ TriedInv)'
  BY TypeStep, EditStep, WorkStep, ServerStep, SeenStep, StaleStep, NoPiStep,
     TriedStep DEF IInv
<1>3. IInv /\ TriedInv /\ [Next]_vars => [Promise!Next]_(Promise!evars)
  BY NextPromise
<1> QED BY <1>1, <1>2, <1>3, PTL DEF Spec, ImplementsPromise, Promise!Spec
=============================================================================
