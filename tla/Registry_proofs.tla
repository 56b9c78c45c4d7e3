-------------------------- MODULE Registry_proofs --------------------------
(***************************************************************************)
(* Proofs about Registry, for any chiboos, names, slugs, requests, ports   *)
(* and number of attempts.                                                 *)
(***************************************************************************)
EXTENDS Registry, TLAPS

(***************************************************************************)
(* The inductive invariant                                                 *)
(***************************************************************************)

(* Each kind of request makes its own database calls.                      *)
PcInv ==
  \A r \in Req :
    /\ pc[r] \in {"port", "insert", "commit"} => r \in CreateReqs
    /\ pc[r] \in {"mkgroup", "answer"} => r \in Maker
    /\ pc[r] \in {"check", "load"} => r \in DropReqs
    /\ pc[r] = "delete" => r \in DropReqs \cup RemoveReqs
    /\ r \in PostReqs => pc[r] # "done"

(* What a session knows of its group, as create_agent goes on.             *)
GroupInv ==
  \A r \in Maker :
    /\ pc[r] \in {"new", "mkgroup"} => grp[r] = "none"
    /\ grp[r] \in {"new", "transient"} => gid[r] = r
    /\ pc[r] \in {"port", "insert", "commit"} =>
         /\ grp[r] # "none"
         /\ grp[r] = "loaded" => gid[r] \in CreateReqs /\ Explained(gid[r])
    /\ grp[r] = "new" /\ InProgress(r) => groups[chiboo[r]] = Nobody

(* How many attempts it has made, and what that did to the group.          *)
AttemptInv ==
  \A r \in CreateReqs :
    /\ pc[r] \in {"new", "mkgroup"} => attempt[r] = 0
    /\ pc[r] = "port" =>
         /\ attempt[r] < Attempts
         /\ grp[r] \in {"expired", "transient"} <=> attempt[r] > 0
    /\ pc[r] \in {"insert", "commit"} =>
         /\ grp[r] # "expired" /\ attempt[r] > 0 /\ port[r] \in Port
         /\ grp[r] = "transient" <=> attempt[r] > 1

(* A row that is about to be committed has clashed with none.              *)
CommitInv ==
  \A r \in CreateReqs : pc[r] = "commit" =>
    \A a \in agents : ~Clash(a, NewRow(r)) /\ ~Clash(NewRow(r), a)

IInv == /\ TypeOK /\ PcInv /\ GroupInv /\ AttemptInv /\ CommitInv
        /\ LockHeldByWriter /\ UniqueKeys /\ LockedChoiceIsFree
        /\ RetryOnlyOrphans /\ OrphansExplained

(***************************************************************************)
(* Every step preserves it: one lemma per conjunct                         *)
(***************************************************************************)

LEMMA Initially == Init => IInv
BY RegistryAssumption DEF Init, IInv, TypeOK, DbType, InType, OrmType, ReqPC,
   Ended, PcInv, GroupInv, AttemptInv, CommitInv, LockHeldByWriter, UniqueKeys,
   LockedChoiceIsFree, RetryOnlyOrphans, OrphansExplained, Maker, Req,
   InProgress, NoPort

(* Each request stays among its own calls.                                 *)
LEMMA PcStep ==
  ASSUME TypeOK, PcInv, [Next]_vars
  PROVE  PcInv'
<1> USE RegistryAssumption DEF PcInv, TypeOK, DbType, InType, OrmType, ReqPC,
       Port, NoPort, Req, Maker, Goto, Unlock, CanWrite, Found, InProgress,
       Ended, vars, dbVars, inVars, ormVars
<1>1. ASSUME NEW r \in Req, Handle(r)  PROVE PcInv'
  <2>1. CASE FindGroup(r)
    BY <2>1 DEF FindGroup, Receive
  <2>2. CASE InsertGroup(r)
    BY <2>2 DEF InsertGroup
  <2>3. CASE AnswerChiboo(r)
    BY <2>3 DEF AnswerChiboo
  <2>4. CASE ChoosePort(r)
    BY <2>4 DEF ChoosePort
  <2>5. CASE InsertAgent(r)
    BY <2>5 DEF InsertAgent
  <2>6. CASE Collide(r)
    BY <2>6 DEF Collide
  <2>7. CASE CommitAgent(r)
    BY <2>7 DEF CommitAgent
  <2>8. CASE BootstrapFails(r)
    BY <2>8 DEF BootstrapFails
  <2>9. CASE ReadAgent(r)
    BY <2>9 DEF ReadAgent, Receive
  <2>10. CASE RemoveAgent(r)
    BY <2>10 DEF RemoveAgent
  <2>11. CASE ReadChiboo(r)
    BY <2>11 DEF ReadChiboo, Receive
  <2>12. CASE CheckChiboo(r)
    BY <2>12 DEF CheckChiboo
  <2>13. CASE LoadMembers(r)
    BY <2>13 DEF LoadMembers
  <2>14. CASE DropChiboo(r)
    BY <2>14 DEF DropChiboo
  <2>15. CASE Busy(r)
    BY <2>15 DEF Busy
  <2> QED BY <1>1, <2>1, <2>2, <2>3, <2>4, <2>5, <2>6, <2>7, <2>8, <2>9,
             <2>10, <2>11, <2>12, <2>13, <2>14, <2>15
         DEF Handle, Create, Drop, Remove
<1>2. CASE UNCHANGED vars
  BY <1>2
<1> QED BY <1>1, <1>2 DEF Next

(* The rows that are committed are well typed: what CommitAgent writes     *)
(* comes from a create that has a port and the id of a create's group.     *)
LEMMA DbTypeStep ==
  ASSUME TypeOK, PcInv, GroupInv, AttemptInv, [Next]_vars
  PROVE  DbType'
<1> USE RegistryAssumption DEF PcInv, GroupInv, AttemptInv, TypeOK, DbType,
       InType, OrmType, ReqPC, Port, NoPort, Req, Maker, Goto, Unlock,
       CanWrite, Found, InProgress, Ended, vars, dbVars, inVars, ormVars
<1>1. ASSUME NEW r \in Req, Handle(r)  PROVE DbType'
  <2>1. CASE FindGroup(r)
    BY <2>1 DEF FindGroup, Receive
  <2>2. CASE InsertGroup(r)
    BY <2>2 DEF InsertGroup
  <2>3. CASE AnswerChiboo(r)
    BY <2>3 DEF AnswerChiboo
  <2>4. CASE ChoosePort(r)
    BY <2>4 DEF ChoosePort
  <2>5. CASE InsertAgent(r)
    BY <2>5 DEF InsertAgent
  <2>6. CASE Collide(r)
    BY <2>6 DEF Collide
  <2>7. CASE CommitAgent(r)
    BY <2>7 DEF CommitAgent, NewRow
  <2>8. CASE BootstrapFails(r)
    BY <2>8 DEF BootstrapFails
  <2>9. CASE ReadAgent(r)
    BY <2>9 DEF ReadAgent, Receive
  <2>10. CASE RemoveAgent(r)
    BY <2>10 DEF RemoveAgent
  <2>11. CASE ReadChiboo(r)
    BY <2>11 DEF ReadChiboo, Receive
  <2>12. CASE CheckChiboo(r)
    BY <2>12 DEF CheckChiboo
  <2>13. CASE LoadMembers(r)
    BY <2>13 DEF LoadMembers
  <2>14. CASE DropChiboo(r)
    BY <2>14 DEF DropChiboo
  <2>15. CASE Busy(r)
    BY <2>15 DEF Busy
  <2> QED BY <1>1, <2>1, <2>2, <2>3, <2>4, <2>5, <2>6, <2>7, <2>8, <2>9,
             <2>10, <2>11, <2>12, <2>13, <2>14, <2>15
         DEF Handle, Create, Drop, Remove
<1>2. CASE UNCHANGED vars
  BY <1>2
<1> QED BY <1>1, <1>2 DEF Next

(* Handlers go where they can be.                                          *)
LEMMA PcTypeStep ==
  ASSUME TypeOK, [Next]_vars
  PROVE  (pc \in [Req -> ReqPC])'
<1> USE RegistryAssumption DEF TypeOK, DbType, InType, OrmType, ReqPC, Port,
       NoPort, Req, Maker, Goto, Unlock, CanWrite, Found, InProgress, Ended,
       vars, dbVars, inVars, ormVars
<1>1. ASSUME NEW r \in Req, Handle(r)  PROVE (pc \in [Req -> ReqPC])'
  <2>1. CASE FindGroup(r)
    BY <2>1 DEF FindGroup, Receive
  <2>2. CASE InsertGroup(r)
    BY <2>2 DEF InsertGroup
  <2>3. CASE AnswerChiboo(r)
    BY <2>3 DEF AnswerChiboo
  <2>4. CASE ChoosePort(r)
    BY <2>4 DEF ChoosePort
  <2>5. CASE InsertAgent(r)
    BY <2>5 DEF InsertAgent
  <2>6. CASE Collide(r)
    BY <2>6 DEF Collide
  <2>7. CASE CommitAgent(r)
    BY <2>7 DEF CommitAgent
  <2>8. CASE BootstrapFails(r)
    BY <2>8 DEF BootstrapFails
  <2>9. CASE ReadAgent(r)
    BY <2>9 DEF ReadAgent, Receive
  <2>10. CASE RemoveAgent(r)
    BY <2>10 DEF RemoveAgent
  <2>11. CASE ReadChiboo(r)
    BY <2>11 DEF ReadChiboo, Receive
  <2>12. CASE CheckChiboo(r)
    BY <2>12 DEF CheckChiboo
  <2>13. CASE LoadMembers(r)
    BY <2>13 DEF LoadMembers
  <2>14. CASE DropChiboo(r)
    BY <2>14 DEF DropChiboo
  <2>15. CASE Busy(r)
    BY <2>15 DEF Busy
  <2> QED BY <1>1, <2>1, <2>2, <2>3, <2>4, <2>5, <2>6, <2>7, <2>8, <2>9,
             <2>10, <2>11, <2>12, <2>13, <2>14, <2>15
         DEF Handle, Create, Drop, Remove
<1>2. CASE UNCHANGED vars
  BY <1>2
<1> QED BY <1>1, <1>2 DEF Next

(* What requests ask for is well typed.                                    *)
LEMMA InTypeStep ==
  ASSUME TypeOK, [Next]_vars
  PROVE  InType'
<1> USE RegistryAssumption DEF TypeOK, DbType, InType, OrmType, ReqPC, Port,
       NoPort, Req, Maker, Goto, Unlock, CanWrite, Found, InProgress, Ended,
       vars, dbVars, inVars, ormVars
<1>1. ASSUME NEW r \in Req, Handle(r)  PROVE InType'
  <2>1. CASE FindGroup(r)
    BY <2>1 DEF FindGroup, Receive
  <2>2. CASE InsertGroup(r)
    BY <2>2 DEF InsertGroup
  <2>3. CASE AnswerChiboo(r)
    BY <2>3 DEF AnswerChiboo
  <2>4. CASE ChoosePort(r)
    BY <2>4 DEF ChoosePort
  <2>5. CASE InsertAgent(r)
    BY <2>5 DEF InsertAgent
  <2>6. CASE Collide(r)
    BY <2>6 DEF Collide
  <2>7. CASE CommitAgent(r)
    BY <2>7 DEF CommitAgent
  <2>8. CASE BootstrapFails(r)
    BY <2>8 DEF BootstrapFails
  <2>9. CASE ReadAgent(r)
    BY <2>9 DEF ReadAgent, Receive
  <2>10. CASE RemoveAgent(r)
    BY <2>10 DEF RemoveAgent
  <2>11. CASE ReadChiboo(r)
    BY <2>11 DEF ReadChiboo, Receive
  <2>12. CASE CheckChiboo(r)
    BY <2>12 DEF CheckChiboo
  <2>13. CASE LoadMembers(r)
    BY <2>13 DEF LoadMembers
  <2>14. CASE DropChiboo(r)
    BY <2>14 DEF DropChiboo
  <2>15. CASE Busy(r)
    BY <2>15 DEF Busy
  <2> QED BY <1>1, <2>1, <2>2, <2>3, <2>4, <2>5, <2>6, <2>7, <2>8, <2>9,
             <2>10, <2>11, <2>12, <2>13, <2>14, <2>15
         DEF Handle, Create, Drop, Remove
<1>2. CASE UNCHANGED vars
  BY <1>2
<1> QED BY <1>1, <1>2 DEF Next

(* What sessions know is well typed; a create that looks for a port has an *)
(* attempt left.                                                           *)
LEMMA OrmTypeStep ==
  ASSUME TypeOK, PcInv, AttemptInv, [Next]_vars
  PROVE  OrmType'
<1> USE RegistryAssumption DEF PcInv, AttemptInv, TypeOK, DbType, InType,
       OrmType, ReqPC, Port, NoPort, Req, Maker, Goto, Unlock, CanWrite,
       Found, InProgress, Ended, vars, dbVars, inVars, ormVars
<1>1. ASSUME NEW r \in Req, Handle(r)  PROVE OrmType'
  <2>1. CASE FindGroup(r)
    BY <2>1 DEF FindGroup, Receive
  <2>2. CASE InsertGroup(r)
    BY <2>2 DEF InsertGroup
  <2>3. CASE AnswerChiboo(r)
    BY <2>3 DEF AnswerChiboo
  <2>4. CASE ChoosePort(r)
    BY <2>4 DEF ChoosePort, FreePorts, AutoPort
  <2>5. CASE InsertAgent(r)
    BY <2>5 DEF InsertAgent
  <2>6. CASE Collide(r)
    BY <2>6 DEF Collide
  <2>7. CASE CommitAgent(r)
    BY <2>7 DEF CommitAgent
  <2>8. CASE BootstrapFails(r)
    BY <2>8 DEF BootstrapFails
  <2>9. CASE ReadAgent(r)
    BY <2>9 DEF ReadAgent, Receive
  <2>10. CASE RemoveAgent(r)
    BY <2>10 DEF RemoveAgent
  <2>11. CASE ReadChiboo(r)
    BY <2>11 DEF ReadChiboo, Receive
  <2>12. CASE CheckChiboo(r)
    BY <2>12 DEF CheckChiboo
  <2>13. CASE LoadMembers(r)
    BY <2>13 DEF LoadMembers
  <2>14. CASE DropChiboo(r)
    BY <2>14 DEF DropChiboo
  <2>15. CASE Busy(r)
    BY <2>15 DEF Busy
  <2> QED BY <1>1, <2>1, <2>2, <2>3, <2>4, <2>5, <2>6, <2>7, <2>8, <2>9,
             <2>10, <2>11, <2>12, <2>13, <2>14, <2>15
         DEF Handle, Create, Drop, Remove
<1>2. CASE UNCHANGED vars
  BY <1>2
<1> QED BY <1>1, <1>2 DEF Next

(* Attempts and what they did to the group go together.                    *)
LEMMA AttemptStep ==
  ASSUME TypeOK, PcInv, GroupInv, AttemptInv, [Next]_vars
  PROVE  AttemptInv'
<1> USE RegistryAssumption DEF PcInv, GroupInv, AttemptInv, TypeOK, DbType,
       InType, OrmType, ReqPC, Port, NoPort, Req, Maker, Goto, Unlock,
       CanWrite, Found, InProgress, Ended, vars, dbVars, inVars, ormVars
<1>1. ASSUME NEW r \in Req, Handle(r)  PROVE AttemptInv'
  <2>1. CASE FindGroup(r)
    BY <2>1 DEF FindGroup, Receive
  <2>2. CASE InsertGroup(r)
    BY <2>2 DEF InsertGroup
  <2>3. CASE AnswerChiboo(r)
    BY <2>3 DEF AnswerChiboo
  <2>4. CASE ChoosePort(r)
    BY <2>4 DEF ChoosePort, FreePorts, AutoPort
  <2>5. CASE InsertAgent(r)
    BY <2>5 DEF InsertAgent
  <2>6. CASE Collide(r)
    BY <2>6 DEF Collide
  <2>7. CASE CommitAgent(r)
    BY <2>7 DEF CommitAgent
  <2>8. CASE BootstrapFails(r)
    BY <2>8 DEF BootstrapFails
  <2>9. CASE ReadAgent(r)
    BY <2>9 DEF ReadAgent, Receive
  <2>10. CASE RemoveAgent(r)
    BY <2>10 DEF RemoveAgent
  <2>11. CASE ReadChiboo(r)
    BY <2>11 DEF ReadChiboo, Receive
  <2>12. CASE CheckChiboo(r)
    BY <2>12 DEF CheckChiboo
  <2>13. CASE LoadMembers(r)
    BY <2>13 DEF LoadMembers
  <2>14. CASE DropChiboo(r)
    BY <2>14 DEF DropChiboo
  <2>15. CASE Busy(r)
    BY <2>15 DEF Busy
  <2> QED BY <1>1, <2>1, <2>2, <2>3, <2>4, <2>5, <2>6, <2>7, <2>8, <2>9,
             <2>10, <2>11, <2>12, <2>13, <2>14, <2>15
         DEF Handle, Create, Drop, Remove
<1>2. CASE UNCHANGED vars
  BY <1>2
<1> QED BY <1>1, <1>2 DEF Next

(* The lock comes with uncommitted rows and goes with them.                *)
LEMMA LockStep ==
  ASSUME TypeOK, PcInv, GroupInv, LockHeldByWriter, [Next]_vars
  PROVE  LockHeldByWriter'
<1> USE RegistryAssumption DEF PcInv, GroupInv, LockHeldByWriter, TypeOK,
       DbType, InType, OrmType, ReqPC, Port, NoPort, Req, Maker, Goto, Unlock,
       CanWrite, Found, InProgress, Ended, vars, dbVars, inVars, ormVars
<1>1. ASSUME NEW r \in Req, Handle(r)  PROVE LockHeldByWriter'
  <2>1. CASE FindGroup(r)
    BY <2>1 DEF FindGroup, Receive
  <2>2. CASE InsertGroup(r)
    BY <2>2 DEF InsertGroup
  <2>3. CASE AnswerChiboo(r)
    BY <2>3 DEF AnswerChiboo
  <2>4. CASE ChoosePort(r)
    BY <2>4 DEF ChoosePort
  <2>5. CASE InsertAgent(r)
    BY <2>5 DEF InsertAgent
  <2>6. CASE Collide(r)
    BY <2>6 DEF Collide
  <2>7. CASE CommitAgent(r)
    BY <2>7 DEF CommitAgent
  <2>8. CASE BootstrapFails(r)
    BY <2>8 DEF BootstrapFails
  <2>9. CASE ReadAgent(r)
    BY <2>9 DEF ReadAgent, Receive
  <2>10. CASE RemoveAgent(r)
    BY <2>10 DEF RemoveAgent
  <2>11. CASE ReadChiboo(r)
    BY <2>11 DEF ReadChiboo, Receive
  <2>12. CASE CheckChiboo(r)
    BY <2>12 DEF CheckChiboo
  <2>13. CASE LoadMembers(r)
    BY <2>13 DEF LoadMembers
  <2>14. CASE DropChiboo(r)
    BY <2>14 DEF DropChiboo
  <2>15. CASE Busy(r)
    BY <2>15 DEF Busy
  <2> QED BY <1>1, <2>1, <2>2, <2>3, <2>4, <2>5, <2>6, <2>7, <2>8, <2>9,
             <2>10, <2>11, <2>12, <2>13, <2>14, <2>15
         DEF Handle, Create, Drop, Remove
<1>2. CASE UNCHANGED vars
  BY <1>2
<1> QED BY <1>1, <1>2 DEF Next

(* Only a create whose group was rolled back inserts a second time.        *)
LEMMA RetryStep ==
  ASSUME TypeOK, PcInv, GroupInv, AttemptInv, RetryOnlyOrphans, [Next]_vars
  PROVE  RetryOnlyOrphans'
<1> USE RegistryAssumption DEF PcInv, GroupInv, AttemptInv, RetryOnlyOrphans,
       TypeOK, DbType, InType, OrmType, ReqPC, Port, NoPort, Req, Maker, Goto,
       Unlock, CanWrite, Found, InProgress, Ended, vars, dbVars, inVars,
       ormVars
<1>1. ASSUME NEW r \in Req, Handle(r)  PROVE RetryOnlyOrphans'
  <2>1. CASE FindGroup(r)
    BY <2>1 DEF FindGroup, Receive
  <2>2. CASE InsertGroup(r)
    BY <2>2 DEF InsertGroup
  <2>3. CASE AnswerChiboo(r)
    BY <2>3 DEF AnswerChiboo
  <2>4. CASE ChoosePort(r)
    BY <2>4 DEF ChoosePort
  <2>5. CASE InsertAgent(r)
    BY <2>5 DEF InsertAgent
  <2>6. CASE Collide(r)
    BY <2>6 DEF Collide
  <2>7. CASE CommitAgent(r)
    BY <2>7 DEF CommitAgent
  <2>8. CASE BootstrapFails(r)
    BY <2>8 DEF BootstrapFails
  <2>9. CASE ReadAgent(r)
    BY <2>9 DEF ReadAgent, Receive
  <2>10. CASE RemoveAgent(r)
    BY <2>10 DEF RemoveAgent
  <2>11. CASE ReadChiboo(r)
    BY <2>11 DEF ReadChiboo, Receive
  <2>12. CASE CheckChiboo(r)
    BY <2>12 DEF CheckChiboo
  <2>13. CASE LoadMembers(r)
    BY <2>13 DEF LoadMembers
  <2>14. CASE DropChiboo(r)
    BY <2>14 DEF DropChiboo
  <2>15. CASE Busy(r)
    BY <2>15 DEF Busy
  <2> QED BY <1>1, <2>1, <2>2, <2>3, <2>4, <2>5, <2>6, <2>7, <2>8, <2>9,
             <2>10, <2>11, <2>12, <2>13, <2>14, <2>15
         DEF Handle, Create, Drop, Remove
<1>2. CASE UNCHANGED vars
  BY <1>2
<1> QED BY <1>1, <1>2 DEF Next

(* Rows change only under the lock, so that a port found free under it     *)
(* stays free.                                                             *)
LEMMA ChoiceStep ==
  ASSUME TypeOK, PcInv, LockHeldByWriter, LockedChoiceIsFree, [Next]_vars
  PROVE  LockedChoiceIsFree'
<1> USE RegistryAssumption DEF PcInv, LockHeldByWriter, LockedChoiceIsFree,
       TypeOK, DbType, InType, OrmType, ReqPC, Port, NoPort, Req, Maker, Goto,
       Unlock, CanWrite, Found, InProgress, Ended, vars, dbVars, inVars,
       ormVars
<1>1. ASSUME NEW r \in Req, Handle(r)  PROVE LockedChoiceIsFree'
  <2>1. CASE FindGroup(r)
    BY <2>1 DEF FindGroup, Receive
  <2>2. CASE InsertGroup(r)
    BY <2>2 DEF InsertGroup
  <2>3. CASE AnswerChiboo(r)
    BY <2>3 DEF AnswerChiboo
  <2>4. CASE ChoosePort(r)
    BY <2>4 DEF ChoosePort, FreePorts, AutoPort
  <2>5. CASE InsertAgent(r)
    BY <2>5 DEF InsertAgent
  <2>6. CASE Collide(r)
    BY <2>6 DEF Collide
  <2>7. CASE CommitAgent(r)
    BY <2>7 DEF CommitAgent, NewRow
  <2>8. CASE BootstrapFails(r)
    BY <2>8 DEF BootstrapFails
  <2>9. CASE ReadAgent(r)
    BY <2>9 DEF ReadAgent, Receive
  <2>10. CASE RemoveAgent(r)
    BY <2>10 DEF RemoveAgent
  <2>11. CASE ReadChiboo(r)
    BY <2>11 DEF ReadChiboo, Receive
  <2>12. CASE CheckChiboo(r)
    BY <2>12 DEF CheckChiboo
  <2>13. CASE LoadMembers(r)
    BY <2>13 DEF LoadMembers
  <2>14. CASE DropChiboo(r)
    BY <2>14 DEF DropChiboo
  <2>15. CASE Busy(r)
    BY <2>15 DEF Busy
  <2> QED BY <1>1, <2>1, <2>2, <2>3, <2>4, <2>5, <2>6, <2>7, <2>8, <2>9,
             <2>10, <2>11, <2>12, <2>13, <2>14, <2>15
         DEF Handle, Create, Drop, Remove
<1>2. CASE UNCHANGED vars
  BY <1>2
<1> QED BY <1>1, <1>2 DEF Next

(* No row is committed between the insert of a create, which checked the   *)
(* constraints, and its commit: both are under the lock.                   *)
LEMMA CommitStep ==
  ASSUME TypeOK, PcInv, LockHeldByWriter, CommitInv, [Next]_vars
  PROVE  CommitInv'
<1> USE RegistryAssumption DEF PcInv, LockHeldByWriter, CommitInv, NewRow,
       AgentId, Clash, TypeOK, DbType, InType, OrmType, ReqPC, Port, NoPort,
       Req, Maker, Goto, Unlock, CanWrite, Found, InProgress, Ended, vars,
       dbVars, inVars, ormVars
<1>1. ASSUME NEW r \in Req, Handle(r)  PROVE CommitInv'
  <2>1. CASE FindGroup(r)
    BY <2>1 DEF FindGroup, Receive
  <2>2. CASE InsertGroup(r)
    BY <2>2 DEF InsertGroup
  <2>3. CASE AnswerChiboo(r)
    BY <2>3 DEF AnswerChiboo
  <2>4. CASE ChoosePort(r)
    BY <2>4 DEF ChoosePort
  <2>5. CASE InsertAgent(r)
    BY <2>5 DEF InsertAgent
  <2>6. CASE Collide(r)
    BY <2>6 DEF Collide
  <2>7. CASE CommitAgent(r)
    BY <2>7 DEF CommitAgent
  <2>8. CASE BootstrapFails(r)
    BY <2>8 DEF BootstrapFails
  <2>9. CASE ReadAgent(r)
    BY <2>9 DEF ReadAgent, Receive
  <2>10. CASE RemoveAgent(r)
    BY <2>10 DEF RemoveAgent
  <2>11. CASE ReadChiboo(r)
    BY <2>11 DEF ReadChiboo, Receive
  <2>12. CASE CheckChiboo(r)
    BY <2>12 DEF CheckChiboo
  <2>13. CASE LoadMembers(r)
    BY <2>13 DEF LoadMembers
  <2>14. CASE DropChiboo(r)
    BY <2>14 DEF DropChiboo
  <2>15. CASE Busy(r)
    BY <2>15 DEF Busy
  <2> QED BY <1>1, <2>1, <2>2, <2>3, <2>4, <2>5, <2>6, <2>7, <2>8, <2>9,
             <2>10, <2>11, <2>12, <2>13, <2>14, <2>15
         DEF Handle, Create, Drop, Remove
<1>2. CASE UNCHANGED vars
  BY <1>2
<1> QED BY <1>1, <1>2 DEF Next

(* A row that is committed clashes with none.                              *)
LEMMA UniqueStep ==
  ASSUME TypeOK, PcInv, CommitInv, UniqueKeys, [Next]_vars
  PROVE  UniqueKeys'
<1> USE RegistryAssumption DEF PcInv, CommitInv, UniqueKeys, TypeOK, DbType,
       InType, OrmType, ReqPC, Port, NoPort, Req, Maker, Goto, Unlock,
       CanWrite, Found, InProgress, Ended, vars, dbVars, inVars, ormVars
<1>1. ASSUME NEW r \in Req, Handle(r)  PROVE UniqueKeys'
  <2>1. CASE FindGroup(r)
    BY <2>1 DEF FindGroup, Receive
  <2>2. CASE InsertGroup(r)
    BY <2>2 DEF InsertGroup
  <2>3. CASE AnswerChiboo(r)
    BY <2>3 DEF AnswerChiboo
  <2>4. CASE ChoosePort(r)
    BY <2>4 DEF ChoosePort
  <2>5. CASE InsertAgent(r)
    BY <2>5 DEF InsertAgent
  <2>6. CASE Collide(r)
    BY <2>6 DEF Collide
  <2>7. CASE CommitAgent(r)
    BY <2>7 DEF CommitAgent
  <2>8. CASE BootstrapFails(r)
    BY <2>8 DEF BootstrapFails
  <2>9. CASE ReadAgent(r)
    BY <2>9 DEF ReadAgent, Receive
  <2>10. CASE RemoveAgent(r)
    BY <2>10 DEF RemoveAgent
  <2>11. CASE ReadChiboo(r)
    BY <2>11 DEF ReadChiboo, Receive
  <2>12. CASE CheckChiboo(r)
    BY <2>12 DEF CheckChiboo
  <2>13. CASE LoadMembers(r)
    BY <2>13 DEF LoadMembers
  <2>14. CASE DropChiboo(r)
    BY <2>14 DEF DropChiboo
  <2>15. CASE Busy(r)
    BY <2>15 DEF Busy
  <2> QED BY <1>1, <2>1, <2>2, <2>3, <2>4, <2>5, <2>6, <2>7, <2>8, <2>9,
             <2>10, <2>11, <2>12, <2>13, <2>14, <2>15
         DEF Handle, Create, Drop, Remove
<1>2. CASE UNCHANGED vars
  BY <1>2
<1> QED BY <1>1, <1>2 DEF Next

(* The group a create has read is there or was deleted since; one it has   *)
(* inserted is nobody else's, and its name is free until the commit.       *)
LEMMA GroupStep ==
  ASSUME TypeOK, PcInv, LockHeldByWriter, AttemptInv, GroupInv, [Next]_vars
  PROVE  GroupInv'
<1> USE RegistryAssumption DEF PcInv, LockHeldByWriter, AttemptInv, GroupInv,
       Explained, TypeOK, DbType, InType, OrmType, ReqPC, Port, NoPort, Req,
       Maker, Goto, Unlock, CanWrite, Found, InProgress, Ended, vars, dbVars,
       inVars, ormVars
<1>1. ASSUME NEW r \in Req, Handle(r)  PROVE GroupInv'
  <2>1. CASE FindGroup(r)
    BY <2>1 DEF FindGroup, Receive
  <2>2. CASE InsertGroup(r)
    BY <2>2 DEF InsertGroup
  <2>3. CASE AnswerChiboo(r)
    BY <2>3 DEF AnswerChiboo
  <2>4. CASE ChoosePort(r)
    BY <2>4 DEF ChoosePort
  <2>5. CASE InsertAgent(r)
    BY <2>5 DEF InsertAgent
  <2>6. CASE Collide(r)
    BY <2>6 DEF Collide
  <2>7. CASE CommitAgent(r)
    BY <2>7 DEF CommitAgent
  <2>8. CASE BootstrapFails(r)
    BY <2>8 DEF BootstrapFails
  <2>9. CASE ReadAgent(r)
    BY <2>9 DEF ReadAgent, Receive
  <2>10. CASE RemoveAgent(r)
    BY <2>10 DEF RemoveAgent
  <2>11. CASE ReadChiboo(r)
    BY <2>11 DEF ReadChiboo, Receive
  <2>12. CASE CheckChiboo(r)
    BY <2>12 DEF CheckChiboo
  <2>13. CASE LoadMembers(r)
    BY <2>13 DEF LoadMembers
  <2>14. CASE DropChiboo(r)
    BY <2>14 DEF DropChiboo
  <2>15. CASE Busy(r)
    BY <2>15 DEF Busy
  <2> QED BY <1>1, <2>1, <2>2, <2>3, <2>4, <2>5, <2>6, <2>7, <2>8, <2>9,
             <2>10, <2>11, <2>12, <2>13, <2>14, <2>15
         DEF Handle, Create, Drop, Remove
<1>2. CASE UNCHANGED vars
  BY <1>2
<1> QED BY <1>1, <1>2 DEF Next

(* A chiboo goes only with a deletion that names it, and a row without one *)
(* comes only from a create in such a chiboo or from a second attempt.     *)
LEMMA ExplainedStep ==
  ASSUME TypeOK, PcInv, LockHeldByWriter, AttemptInv, GroupInv,
         OrphansExplained, [Next]_vars
  PROVE  OrphansExplained'
<1> USE RegistryAssumption DEF PcInv, LockHeldByWriter, AttemptInv, GroupInv,
       OrphansExplained, Explained, TypeOK, DbType, InType, OrmType, ReqPC,
       Port, NoPort, Req, Maker, Goto, Unlock, CanWrite, Found, InProgress,
       Ended, vars, dbVars, inVars, ormVars
<1>1. ASSUME NEW r \in Req, Handle(r)  PROVE OrphansExplained'
  <2>1. CASE FindGroup(r)
    BY <2>1 DEF FindGroup, Receive
  <2>2. CASE InsertGroup(r)
    BY <2>2 DEF InsertGroup
  <2>3. CASE AnswerChiboo(r)
    BY <2>3 DEF AnswerChiboo
  <2>4. CASE ChoosePort(r)
    BY <2>4 DEF ChoosePort
  <2>5. CASE InsertAgent(r)
    BY <2>5 DEF InsertAgent
  <2>6. CASE Collide(r)
    BY <2>6 DEF Collide
  <2>7. CASE CommitAgent(r)
    BY <2>7 DEF CommitAgent, NewRow
  <2>8. CASE BootstrapFails(r)
    BY <2>8 DEF BootstrapFails
  <2>9. CASE ReadAgent(r)
    BY <2>9 DEF ReadAgent, Receive
  <2>10. CASE RemoveAgent(r)
    BY <2>10 DEF RemoveAgent
  <2>11. CASE ReadChiboo(r)
    BY <2>11 DEF ReadChiboo, Receive
  <2>12. CASE CheckChiboo(r)
    BY <2>12 DEF CheckChiboo
  <2>13. CASE LoadMembers(r)
    BY <2>13 DEF LoadMembers
  <2>14. CASE DropChiboo(r)
    BY <2>14 DEF DropChiboo
  <2>15. CASE Busy(r)
    BY <2>15 DEF Busy
  <2> QED BY <1>1, <2>1, <2>2, <2>3, <2>4, <2>5, <2>6, <2>7, <2>8, <2>9,
             <2>10, <2>11, <2>12, <2>13, <2>14, <2>15
         DEF Handle, Create, Drop, Remove
<1>2. CASE UNCHANGED vars
  BY <1>2
<1> QED BY <1>1, <1>2 DEF Next

LEMMA TypeStep ==
  ASSUME IInv, [Next]_vars PROVE TypeOK'
<1>1. TypeOK /\ PcInv /\ GroupInv /\ AttemptInv
  BY DEF IInv
<1>2. DbType' /\ (pc \in [Req -> ReqPC])' /\ InType' /\ OrmType'
  BY <1>1, DbTypeStep, PcTypeStep, InTypeStep, OrmTypeStep
<1> QED BY <1>2 DEF TypeOK

LEMMA Invariant == Spec => []IInv
<1>1. IInv /\ [Next]_vars => IInv'
  BY TypeStep, PcStep, GroupStep, AttemptStep, CommitStep, LockStep,
     UniqueStep, ChoiceStep, RetryStep, ExplainedStep DEF IInv
<1> QED BY Initially, <1>1, PTL DEF Spec

(***************************************************************************)
(* Theorems                                                                *)
(***************************************************************************)

(* The registry's state is well typed: create_agent makes Attempts         *)
(* attempts at most, and POST /chiboos/ commits nothing (agent_registry.py *)
(* create_agent, chiboos.py create_chiboo).                                *)
THEOREM TypeCorrect == Spec => []TypeOK
<1>1. IInv => TypeOK
  BY DEF IInv
<1> QED BY <1>1, Invariant, PTL

(* No two agents ever share an id, a port, or a name within a chiboo,      *)
(* however many creates choose them at once (db/models.py Agent,           *)
(* agent_registry.py create_agent).                                        *)
THEOREM KeysAreUnique == Spec => []UniqueKeys
<1>1. IInv => UniqueKeys
  BY DEF IInv
<1> QED BY <1>1, Invariant, PTL

(* The write lock is only held by a request with uncommitted rows on its   *)
(* way to a commit or a rollback (db/engine.py get_session,                *)
(* agent_registry.py create_agent).                                        *)
THEOREM LockIsNeverStuck == Spec => []LockHeldByWriter
<1>1. IInv => LockHeldByWriter
  BY DEF IInv
<1> QED BY <1>1, Invariant, PTL

(* A create that makes its chiboo holds the lock when it looks for a port, *)
(* and inserts the port it found (agent_registry.py get_or_create_group,   *)
(* _next_port).                                                            *)
THEOREM NewChibooNeverCollides == Spec => []LockedChoiceIsFree
<1>1. IInv => LockedChoiceIsFree
  BY DEF IInv
<1> QED BY <1>1, Invariant, PTL

(* A create that inserts again after a collision does so with the id of a  *)
(* group that was rolled back; in an existing chiboo it never gets that    *)
(* far (agent_registry.py create_agent).                                   *)
THEOREM RetriesMakeOrphans == Spec => []RetryOnlyOrphans
<1>1. IInv => RetryOnlyOrphans
  BY DEF IInv
<1> QED BY <1>1, Invariant, PTL

(* An agent whose chiboo is missing was made by such a retry, or its       *)
(* chiboo was deleted by a request that had found it empty (chiboos.py     *)
(* delete_chiboo): nothing else separates the two.                         *)
THEOREM OrphansHaveACause == Spec => []OrphansExplained
<1>1. IInv => OrphansExplained
  BY DEF IInv
<1> QED BY <1>1, Invariant, PTL

(***************************************************************************)
(* Registry implements Directory                                           *)
(***************************************************************************)

(* The id of a chiboo, of an agent's chiboo, or of one that a create has   *)
(* read was drawn by a create that is done; chiboos keep their names.      *)
OwnerInv ==
  /\ \A c \in Chiboo : groups[c] # Nobody =>
       pc[groups[c]] = "done" /\ chiboo[groups[c]] = c
  /\ \A a \in agents : pc[a.group] = "done"
  /\ \A r \in CreateReqs :
       pc[r] \in {"port", "insert", "commit"} /\ grp[r] = "loaded" =>
         pc[gid[r]] = "done" /\ chiboo[gid[r]] = chiboo[r]

(* A create that inserts has the port asked for or an automatic one.       *)
PortInv == \A r \in CreateReqs :
             pc[r] \in {"insert", "commit"} =>
               port[r] \in AutoPort \cup ({given[r]} \ {NoPort})

LEMMA OwnerStep ==
  ASSUME TypeOK, PcInv, GroupInv, AttemptInv, OwnerInv, [Next]_vars
  PROVE  OwnerInv'
<1> USE RegistryAssumption DEF PcInv, GroupInv, AttemptInv, OwnerInv, TypeOK,
       DbType, InType, OrmType, ReqPC, Port, NoPort, Req, Maker, Goto, Unlock,
       CanWrite, Found, InProgress, Ended, vars, dbVars, inVars, ormVars
<1>1. ASSUME NEW r \in Req, Handle(r)  PROVE OwnerInv'
  <2>1. CASE FindGroup(r)
    BY <2>1 DEF FindGroup, Receive
  <2>2. CASE InsertGroup(r)
    BY <2>2 DEF InsertGroup
  <2>3. CASE AnswerChiboo(r)
    BY <2>3 DEF AnswerChiboo
  <2>4. CASE ChoosePort(r)
    BY <2>4 DEF ChoosePort, FreePorts
  <2>5. CASE InsertAgent(r)
    BY <2>5 DEF InsertAgent
  <2>6. CASE Collide(r)
    BY <2>6 DEF Collide
  <2>7. CASE CommitAgent(r)
    BY <2>7 DEF CommitAgent, NewRow
  <2>8. CASE BootstrapFails(r)
    BY <2>8 DEF BootstrapFails
  <2>9. CASE ReadAgent(r)
    BY <2>9 DEF ReadAgent, Receive
  <2>10. CASE RemoveAgent(r)
    BY <2>10 DEF RemoveAgent
  <2>11. CASE ReadChiboo(r)
    BY <2>11 DEF ReadChiboo, Receive
  <2>12. CASE CheckChiboo(r)
    BY <2>12 DEF CheckChiboo
  <2>13. CASE LoadMembers(r)
    BY <2>13 DEF LoadMembers
  <2>14. CASE DropChiboo(r)
    BY <2>14 DEF DropChiboo
  <2>15. CASE Busy(r)
    BY <2>15 DEF Busy
  <2> QED BY <1>1, <2>1, <2>2, <2>3, <2>4, <2>5, <2>6, <2>7, <2>8, <2>9,
             <2>10, <2>11, <2>12, <2>13, <2>14, <2>15
         DEF Handle, Create, Drop, Remove
<1>2. CASE UNCHANGED vars
  BY <1>2
<1> QED BY <1>1, <1>2 DEF Next

LEMMA PortStep ==
  ASSUME TypeOK, PcInv, PortInv, [Next]_vars
  PROVE  PortInv'
<1> USE RegistryAssumption DEF PcInv, PortInv, TypeOK, DbType, InType, OrmType,
       ReqPC, AutoPort, Port, NoPort, Req, Maker, Goto, Unlock, CanWrite, Found,
       InProgress, Ended, vars, dbVars, inVars, ormVars
<1>1. ASSUME NEW r \in Req, Handle(r)  PROVE PortInv'
  <2>1. CASE FindGroup(r)
    BY <2>1 DEF FindGroup, Receive
  <2>2. CASE InsertGroup(r)
    BY <2>2 DEF InsertGroup
  <2>3. CASE AnswerChiboo(r)
    BY <2>3 DEF AnswerChiboo
  <2>4. CASE ChoosePort(r)
    BY <2>4 DEF ChoosePort, FreePorts
  <2>5. CASE InsertAgent(r)
    BY <2>5 DEF InsertAgent
  <2>6. CASE Collide(r)
    BY <2>6 DEF Collide
  <2>7. CASE CommitAgent(r)
    BY <2>7 DEF CommitAgent, NewRow
  <2>8. CASE BootstrapFails(r)
    BY <2>8 DEF BootstrapFails
  <2>9. CASE ReadAgent(r)
    BY <2>9 DEF ReadAgent, Receive
  <2>10. CASE RemoveAgent(r)
    BY <2>10 DEF RemoveAgent
  <2>11. CASE ReadChiboo(r)
    BY <2>11 DEF ReadChiboo, Receive
  <2>12. CASE CheckChiboo(r)
    BY <2>12 DEF CheckChiboo
  <2>13. CASE LoadMembers(r)
    BY <2>13 DEF LoadMembers
  <2>14. CASE DropChiboo(r)
    BY <2>14 DEF DropChiboo
  <2>15. CASE Busy(r)
    BY <2>15 DEF Busy
  <2> QED BY <1>1, <2>1, <2>2, <2>3, <2>4, <2>5, <2>6, <2>7, <2>8, <2>9,
             <2>10, <2>11, <2>12, <2>13, <2>14, <2>15
         DEF Handle, Create, Drop, Remove
<1>2. CASE UNCHANGED vars
  BY <1>2
<1> QED BY <1>1, <1>2 DEF Next

AnswersNow == [r \in Req |-> AnswerOf(r)]

(* A request that goes on to another call changes its own answer only.     *)
LEMMA Answered ==
  ASSUME NEW r \in Req, NEW l \in ReqPC, pc \in [Req -> ReqPC], Goto(r, l)
  PROVE  /\ l \in {"refused", "failed"} => Promised!Answers(r, "denied")
         /\ l = "done" => Promised!Answers(r, "done")
         /\ l \notin Ended \cup {"new"} => Promised!Answers(r, "open")
<1>1. \A q \in Req \ {r} : AnswerOf(q)' = AnswerOf(q)
  BY DEF Goto, AnswerOf, InProgress
<1>2. /\ l \in {"refused", "failed"} => AnswerOf(r)' = "denied"
      /\ l = "done" => AnswerOf(r)' = "done"
      /\ l \notin Ended \cup {"new"} => AnswerOf(r)' = "open"
  BY DEF Goto, AnswerOf, InProgress, Ended
<1>3. AnswersNow' = [AnswersNow EXCEPT ![r] = AnswerOf(r)']
  BY <1>1 DEF AnswersNow
<1> QED BY <1>2, <1>3 DEF Promised!Answers, AnswersNow

(* What the request has been told so far.                                  *)
LEMMA Asking ==
  ASSUME NEW r \in Req
  PROVE  /\ pc[r] = "new" => AnswersNow[r] = "none"
         /\ InProgress(r) => AnswersNow[r] = "open"
BY DEF AnswersNow, AnswerOf, InProgress, Ended

(* The request arrives and is refused, or goes on.                         *)
LEMMA ArriveRefines ==
  ASSUME TypeOK, NEW r \in Req, FindGroup(r) \/ ReadAgent(r) \/ ReadChiboo(r)
  PROVE  Promised!Next
<1>1. /\ pc[r] = "new" /\ UNCHANGED <<groups, agents>> /\ Receive(r)
  BY DEF FindGroup, ReadAgent, ReadChiboo, Receive, dbVars
<1>2. PICK l \in ReqPC \ {"new", "done"} : Goto(r, l)
  BY DEF FindGroup, ReadAgent, ReadChiboo, Found, ReqPC, Ended
<1>3. Promised!Answers(r, "open") \/ Promised!Answers(r, "denied")
  BY <1>2, Answered DEF TypeOK, Ended
<1>4. \E n \in Name : name' \in {name, [name EXCEPT ![r] = n]}
  BY <1>1, RegistryAssumption DEF Receive
<1>5. \E p \in Port \cup {NoPort} : given' \in {given, [given EXCEPT ![r] = p]}
  BY <1>1 DEF Receive
<1>6. \E c \in Chiboo : chiboo' = [chiboo EXCEPT ![r] = c]
  BY <1>1 DEF Receive
<1>7. AnswersNow[r] = "none"
  BY <1>1, Asking
<1>8. Promised!Arrive(r)
  BY <1>1, <1>3, <1>4, <1>5, <1>6, <1>7 DEF Promised!Arrive, AnswersNow
<1> QED BY <1>8 DEF Promised!Next

(* A step that touches neither rows nor what was asked denies the request  *)
(* or goes on with it.                                                     *)
LEMMA QuietRefines ==
  ASSUME TypeOK, NEW r \in Req, NEW l \in ReqPC \ {"new", "done"},
         InProgress(r), Goto(r, l), UNCHANGED <<groups, agents, inVars>>
  PROVE  Promised!Next \/ UNCHANGED Promised!dvars
<1>1. AnswersNow[r] = "open"
  BY Asking
<1>2. CASE l \in {"refused", "failed"}
  <2>1. Promised!Answers(r, "denied")
    BY <1>2, Answered DEF TypeOK
  <2>2. Promised!Deny(r)
    BY <1>1, <2>1 DEF Promised!Deny, Promised!asked, inVars, AnswersNow
  <2> QED BY <2>2 DEF Promised!Next
<1>3. CASE l \notin {"refused", "failed"}
  <2>1. Promised!Answers(r, "open")
    BY <1>3, Answered DEF TypeOK, Ended
  <2>2. AnswersNow' = AnswersNow
    BY <1>1, <2>1 DEF Promised!Answers, AnswersNow
  <2> QED BY <2>2 DEF Promised!dvars, Promised!asked, inVars, AnswersNow
<1> QED BY <1>2, <1>3

(* The agent is written where it was asked for, in a chiboo that is made   *)
(* for it, or in none.                                                     *)
LEMMA CommitRefines ==
  ASSUME IInv, OwnerInv, PortInv, NEW r \in Req, CommitAgent(r)
  PROVE  Promised!Next
<1>1. /\ r \in CreateReqs /\ pc[r] = "commit" /\ "done" \in ReqPC
      /\ Goto(r, "done") /\ UNCHANGED inVars /\ agents' = agents \cup {NewRow(r)}
  BY DEF CommitAgent, IInv, PcInv, ReqPC, Ended
<1>2. AnswersNow[r] = "open" /\ Promised!Answers(r, "done")
  BY <1>1, Answered, Asking DEF IInv, TypeOK, InProgress, Ended
<1>3. port[r] \in AutoPort \cup ({given[r]} \ {NoPort})
  BY <1>1 DEF PortInv
<1>4. \A a \in agents : /\ a.id # AgentId(r) /\ a.port # port[r]
                        /\ a.name # name[r] \/ a.group # gid[r]
  BY <1>1 DEF IInv, CommitInv, Clash, NewRow
<1>5. gid[r] \in CreateReqs /\ grp[r] \in {"loaded", "new", "transient"}
  BY <1>1 DEF IInv, GroupInv, AttemptInv, TypeOK, OrmType, Maker
<1>6. PICK g \in CreateReqs : g = gid[r]
  BY <1>5
<1>7. PICK p \in AutoPort \cup ({given[r]} \ {NoPort}) : p = port[r]
  BY <1>3
<1>8. Promised!Joins(r, g) \/ Promised!Founds(r, g) \/ Promised!IsOrphan(g)
  <2>1. CASE grp[r] = "loaded"
    <3>1. groups' = groups /\ chiboo[gid[r]] = chiboo[r]
      BY <1>1, <2>1 DEF CommitAgent, OwnerInv
    <3>2. \A c \in Chiboo : groups[c] = g => c = chiboo[r]
      BY <1>6, <3>1, RegistryAssumption DEF OwnerInv, Req, Maker
    <3> QED BY <1>6, <3>1, <3>2 DEF Promised!Joins, Promised!IsOrphan, Promised!Unused
  <2>2. CASE grp[r] \in {"new", "transient"}
    <3>1. g = r
      BY <1>1, <1>6, <2>2 DEF IInv, GroupInv, Maker
    <3>2. Promised!Unused(r) /\ \A a \in agents : a.group # r
      BY <1>1, RegistryAssumption DEF OwnerInv, Promised!Unused, Req, Maker
    <3>3. CASE grp[r] = "new"
      <4>1. /\ groups' = [groups EXCEPT ![chiboo[r]] = r]
            /\ groups[chiboo[r]] = Nobody
        BY <1>1, <1>6, <3>1, <3>3 DEF CommitAgent, IInv, GroupInv, InProgress, Ended, Maker
      <4> QED BY <3>1, <3>2, <4>1 DEF Promised!Founds
    <3>4. CASE grp[r] # "new"
      BY <3>1, <3>2, <3>4 DEF CommitAgent, Promised!IsOrphan
    <3> QED BY <3>3, <3>4
  <2> QED BY <1>5, <2>1, <2>2
<1>9. agents' = agents \cup {[id |-> AgentId(r), name |-> name[r],
                              group |-> g, port |-> p]}
  BY <1>1, <1>6, <1>7 DEF NewRow
<1>10. \A a \in agents : /\ a.id # AgentId(r) /\ a.port # p
                         /\ a.name # name[r] \/ a.group # g
  BY <1>4, <1>6, <1>7
<1>11. Promised!Write(r, g, p)
  BY <1>8, <1>9, <1>10 DEF Promised!Write, Promised!Id, AgentId
<1>12. Promised!Add(r)
  BY <1>1, <1>2, <1>11 DEF Promised!Add, Promised!asked, inVars, AnswersNow
<1> QED BY <1>12 DEF Promised!Next

LEMMA DeleteRefines ==
  ASSUME TypeOK, NEW r \in Req, RemoveAgent(r) \/ DropChiboo(r)
  PROVE  Promised!Next
<1>1. pc[r] = "delete" /\ Goto(r, "done") /\ UNCHANGED inVars /\ "done" \in ReqPC
  BY DEF RemoveAgent, DropChiboo, ReqPC, Ended
<1>2. AnswersNow[r] = "open" /\ Promised!Answers(r, "done")
  BY <1>1, Answered, Asking DEF TypeOK, InProgress, Ended
<1>3. CASE RemoveAgent(r)
  BY <1>1, <1>2, <1>3 DEF RemoveAgent, Promised!Next, Promised!Remove,
     Promised!Id, AgentId, Promised!asked, inVars, AnswersNow
<1>4. CASE DropChiboo(r)
  <2>1. groups' \in {groups, [groups EXCEPT ![chiboo[r]] = Nobody]}
    BY <1>4 DEF DropChiboo, TypeOK, DbType, InType
  <2> QED BY <1>1, <1>2, <1>4, <2>1 DEF DropChiboo, Promised!Next,
             Promised!Drop, Promised!asked, inVars, AnswersNow
<1> QED BY <1>3, <1>4

(* The chiboo of a deletion that found it gone.                            *)
LEMMA CheckRefines ==
  ASSUME TypeOK, PcInv, NEW r \in Req, CheckChiboo(r)
  PROVE  Promised!Next \/ UNCHANGED Promised!dvars
<1>1. /\ pc[r] = "check" /\ r \in DropReqs /\ InProgress(r)
      /\ UNCHANGED <<groups, agents, inVars>>
  BY DEF CheckChiboo, PcInv, InProgress, Ended, dbVars
<1>2. CASE Goto(r, "done")
  <2>1. AnswersNow[r] = "open" /\ Promised!Answers(r, "done")
    BY <1>1, <1>2, Answered, Asking DEF TypeOK, ReqPC, Ended
  <2> QED BY <1>1, <2>1 DEF Promised!Next, Promised!Drop, Promised!asked, inVars,
             AnswersNow
<1>3. CASE \E l \in {"refused", "load"} : Goto(r, l)
  BY <1>1, <1>3, QuietRefines DEF ReqPC, Ended
<1> QED BY <1>2, <1>3 DEF CheckChiboo

LEMMA NextPromised ==
  ASSUME IInv, OwnerInv, PortInv, [Next]_vars
  PROVE  Promised!Next \/ UNCHANGED Promised!dvars
<1>1. ASSUME NEW r \in Req, FindGroup(r) \/ ReadAgent(r) \/ ReadChiboo(r)
      PROVE  Promised!Next
  BY <1>1, ArriveRefines DEF IInv
<1>2. ASSUME NEW r \in Req, CommitAgent(r)  PROVE Promised!Next
  BY <1>2, CommitRefines
<1>3. ASSUME NEW r \in Req, RemoveAgent(r) \/ DropChiboo(r)  PROVE Promised!Next
  BY <1>3, DeleteRefines DEF IInv
<1>4. ASSUME NEW r \in Req, CheckChiboo(r)
      PROVE  Promised!Next \/ UNCHANGED Promised!dvars
  BY <1>4, CheckRefines DEF IInv
<1>5. ASSUME NEW r \in Req,
             \/ InsertGroup(r) \/ AnswerChiboo(r) \/ ChoosePort(r)
             \/ InsertAgent(r) \/ Collide(r) \/ BootstrapFails(r)
             \/ LoadMembers(r) \/ Busy(r)
      PROVE  Promised!Next \/ UNCHANGED Promised!dvars
  <2>1. InProgress(r) /\ UNCHANGED <<groups, agents, inVars>>
    BY <1>5 DEF InsertGroup, AnswerChiboo, ChoosePort, InsertAgent, Collide,
       BootstrapFails, LoadMembers, Busy, InProgress, Ended, dbVars
  <2>2. \E l \in ReqPC \ {"new", "done"} : Goto(r, l)
    BY <1>5 DEF InsertGroup, AnswerChiboo, ChoosePort, InsertAgent, Collide,
       BootstrapFails, LoadMembers, Busy, Found, ReqPC, Ended
  <2> QED BY <2>1, <2>2, QuietRefines DEF IInv
<1>6. CASE UNCHANGED vars
  <2>1. AnswersNow' = AnswersNow
    BY <1>6 DEF vars, AnswersNow, AnswerOf, InProgress
  <2> QED BY <1>6, <2>1 DEF vars, dbVars, inVars, Promised!dvars, Promised!asked,
             AnswersNow
<1> QED BY <1>1, <1>2, <1>3, <1>4, <1>5, <1>6
        DEF Next, Handle, Create, Drop, Remove

LEMMA InitPromised == Init => Promised!Init
<1> SUFFICES ASSUME Init PROVE Promised!Init
  OBVIOUS
<1>1. AnswersNow = [r \in Req |-> "none"]
  <2>1. \A r \in Req : AnswerOf(r) = "none"
    BY DEF Init, AnswerOf, InProgress
  <2> QED BY <2>1 DEF AnswersNow
<1>2. /\ chiboo \in [Req -> Chiboo]
      /\ name \in [CreateReqs \cup RemoveReqs -> Name]
      /\ given \in [CreateReqs -> Port \cup {NoPort}]
  BY Initially DEF IInv, TypeOK, InType
<1> QED BY <1>1, <1>2 DEF Init, Promised!Init, AnswersNow

(* Whatever creates, deletions, collisions and retries overlap, a request  *)
(* takes effect once and at once, keys are unique, and an agent is in the  *)
(* chiboo it was asked for or in none (agent_registry.py create_agent,     *)
(* get_or_create_group, delete_group; db/engine.py get_session).           *)
THEOREM DirectoryImplemented == Spec => ImplementsDirectory
<1>1. Init => OwnerInv /\ PortInv
  BY DEF Init, OwnerInv, PortInv, Req, Maker
<1>2. /\ IInv /\ OwnerInv /\ PortInv /\ [Next]_vars
           => (OwnerInv /\ PortInv)'
  BY OwnerStep, PortStep DEF IInv
<1>3. IInv /\ OwnerInv /\ PortInv /\ [Next]_vars
        => [Promised!Next]_(Promised!dvars)
  BY NextPromised
<1> QED BY InitPromised, Invariant, <1>1, <1>2, <1>3, PTL
        DEF Spec, ImplementsDirectory, Promised!Spec
=============================================================================
