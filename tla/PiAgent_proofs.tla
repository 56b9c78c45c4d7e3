--------------------------- MODULE PiAgent_proofs ---------------------------
(***************************************************************************)
(* Proofs about PiAgent, for any number of executions and pi processes.    *)
(***************************************************************************)
EXTENDS PiAgent, SequenceTheorems, TLAPS

(***************************************************************************)
(* Type correctness                                                        *)
(***************************************************************************)

LEMMA Bounds == /\ MaxProc \in Nat /\ MaxText \in Nat
                /\ MaxProc >= 1 /\ None = 0 /\ None \in 0 .. MaxProc
BY BoundsAssumption DEF None

LEMMA InitTypeOK == Init => TypeOK
<1> SUFFICES ASSUME Init PROVE TypeOK
  OBVIOUS
<1>1. AgentType /\ proc <= spawned
  <2>1. proc \in 0 .. MaxProc /\ proc <= spawned
    BY Bounds DEF Init
  <2>2. busy \in BOOLEAN /\ status \in {"ready", "stopped"}
    BY DEF Init
  <2> QED BY <2>1, <2>2 DEF AgentType
<1>2. ExecType
  <2>1. pc \in [Exec -> ExecPC] /\ peer \in [Exec -> 0 .. MaxProc]
    BY Bounds DEF Init, ExecPC, None
  <2>2. out \in [Exec -> Seq(Event)]
    BY DEF Init, Event
  <2> QED BY <2>1, <2>2 DEF ExecType
<1>3. TaskType
  BY Bounds DEF Init, TaskType, TaskPC, None
<1>4. PiType
  <2>1. spawned \in Proc /\ alive \subseteq 1 .. spawned /\ termed \subseteq 1 .. spawned
    BY Bounds DEF Init, Proc
  <2>2. inbox \in [Proc -> Seq(Command)] /\ outbox \in [Proc -> Seq(Line)]
    BY DEF Init
  <2>3. /\ taken \in [Proc -> Nat] /\ texts \in [Proc -> Nat]
        /\ cur \in [Proc -> Exec \cup {NoReq}]
        /\ rivals \in [Proc -> SUBSET Task]
    BY DEF Init
  <2> QED BY <2>1, <2>2, <2>3 DEF PiType
<1> QED BY <1>1, <1>2, <1>3, <1>4 DEF TypeOK

(* A group of variables that a step leaves alone keeps its type.           *)
LEMMA AgentUnchanged == AgentType /\ UNCHANGED agentVars => AgentType'
BY DEF AgentType, agentVars

LEMMA ExecUnchanged == ExecType /\ UNCHANGED execVars => ExecType'
BY DEF ExecType, execVars

LEMMA TaskUnchanged == TaskType /\ UNCHANGED taskVars => TaskType'
BY DEF TaskType, taskVars

LEMMA PiUnchanged == PiType /\ UNCHANGED piVars => PiType' /\ spawned' = spawned
BY DEF PiType, piVars

(* _send leaves a queue of commands in every process's stdin.              *)
LEMMA SendType ==
  ASSUME TypeOK, proc # None, NEW r \in Exec,
         NEW c \in {"set_model", "prompt"}, Send(c, r)
  PROVE  inbox' \in [Proc -> Seq(Command)]
<1>1. [cmd |-> c, of |-> r] \in Command
  BY DEF Command
<1>2. proc \in Proc
  BY Bounds DEF TypeOK, AgentType, Proc
<1> QED BY <1>1, <1>2 DEF TypeOK, PiType, Send

LEMMA LocalErrorType == LocalError \in Event
BY DEF LocalError, Event

(* Yielding a well-typed event keeps the executions well typed.            *)
LEMMA YieldType ==
  ASSUME ExecType, NEW r \in Exec, NEW e \in Event, Yield(r, e)
  PROVE  ExecType'
BY Bounds DEF ExecType, Yield, ExecPC, None

(* So does every step that yields an error event of the agent's own.       *)
LEMMA YieldErrorTypeOK ==
  ASSUME TypeOK, NEW r \in Exec, Yield(r, LocalError),
         UNCHANGED <<agentVars, taskVars, piVars>>
  PROVE  TypeOK'
<1>1. ExecType'
  BY YieldType, LocalErrorType DEF TypeOK
<1>2. AgentType' /\ TaskType' /\ PiType'
  BY AgentUnchanged, TaskUnchanged, PiUnchanged DEF TypeOK
<1> QED BY <1>1, <1>2 DEF TypeOK, agentVars, piVars

LEMMA ReadLineTypeOK ==
  ASSUME TypeOK, NEW r \in Exec, ReadLine(r)
  PROVE  TypeOK'
<1> DEFINE p == Source(r)
           l == Head(outbox[p])
<1>1. p \in Proc
  BY Bounds
  DEF ReadLine, Reading, Source, None, TypeOK, AgentType, ExecType, Proc
<1>2. l \in Line /\ Tail(outbox[p]) \in Seq(Line)
  BY <1>1 DEF TypeOK, PiType, ReadLine
<1>3. PiType'
  BY <1>1, <1>2 DEF ReadLine, TypeOK, PiType
<1>4. ExecType'
  <2>1. CASE l.kind = "noise"
    BY <2>1, Bounds DEF ReadLine, TypeOK, ExecType, ExecPC, None
  <2>2. CASE l.kind = "broken"
    <3>1. Yield(r, LocalError)
      BY <2>2 DEF ReadLine
    <3> QED BY <3>1, YieldType, LocalErrorType DEF TypeOK
  <2>3. CASE l.kind \notin {"noise", "broken"}
    <3>1. Yield(r, [of |-> l.of, type |-> EventType[l.kind]])
      BY <2>3 DEF ReadLine
    <3>2. [of |-> l.of, type |-> EventType[l.kind]] \in Event
      BY <1>2, <2>3 DEF Event, EventType, Line, LineKind
    <3> QED BY <3>1, <3>2, YieldType DEF TypeOK
  <2> QED BY <2>1, <2>2, <2>3
<1>5. AgentType' /\ TaskType'
  BY AgentUnchanged, TaskUnchanged DEF ReadLine, TypeOK
<1> QED BY <1>3, <1>4, <1>5 DEF ReadLine, TypeOK, agentVars

LEMMA AfterStopType == \A t, p : AfterStop(t, p) \in TaskPC
BY DEF AfterStop, TaskPC

(* The steps of one execution.                                             *)
LEMMA ExecTypeOK ==
  ASSUME TypeOK, NEW r \in Exec,
         ExecuteReject(r) \/ ExecuteBegin(r) \/ Cancel(r) \/ ExecStep(r)
  PROVE  TypeOK'
<1>1. CASE ExecuteReject(r)
  <2>1. ExecType'
    BY <1>1, LocalErrorType DEF ExecuteReject, TypeOK, ExecType, ExecPC
  <2>2. AgentType' /\ TaskType' /\ PiType'
    BY <1>1, AgentUnchanged, TaskUnchanged, PiUnchanged DEF ExecuteReject, TypeOK
  <2> QED BY <1>1, <2>1, <2>2 DEF ExecuteReject, TypeOK, agentVars, piVars
<1>2. CASE ExecuteBegin(r)
  <2>1. inbox' \in [Proc -> Seq(Command)]
    BY <1>2, SendType DEF ExecuteBegin, Running
  <2>2. ExecType' /\ AgentType' /\ TaskType'
    BY <1>2, TaskUnchanged DEF ExecuteBegin, TypeOK, ExecType, ExecPC, AgentType
  <2> QED BY <1>2, <2>1, <2>2 DEF ExecuteBegin, TypeOK, PiType
<1>3. CASE Cancel(r)
  <2>1. ExecType' /\ AgentType'
    BY <1>3, Bounds DEF Cancel, TypeOK, ExecType, ExecPC, AgentType, None
  <2>2. TaskType' /\ PiType'
    BY <1>3, TaskUnchanged, PiUnchanged DEF Cancel, TypeOK
  <2> QED BY <1>3, <2>1, <2>2 DEF Cancel, TypeOK, piVars
<1>4. CASE ExecutePrompt(r)
  <2>1. inbox' \in [Proc -> Seq(Command)]
    BY <1>4, SendType DEF ExecutePrompt
  <2>2. ExecType' /\ AgentType' /\ TaskType'
    BY <1>4, TaskUnchanged, AgentUnchanged
    DEF ExecutePrompt, TypeOK, ExecType, ExecPC, AgentType
  <2> QED BY <1>4, <2>1, <2>2 DEF ExecutePrompt, TypeOK, PiType, agentVars
<1>5. CASE ExecuteResume(r)
  <2>1. ExecType' /\ AgentType'
    BY <1>5 DEF ExecuteResume, TypeOK, ExecType, ExecPC, AgentType
  <2>2. TaskType' /\ PiType'
    BY <1>5, TaskUnchanged, PiUnchanged DEF ExecuteResume, TypeOK
  <2> QED BY <1>5, <2>1, <2>2 DEF ExecuteResume, TypeOK, piVars
<1>6. CASE Finalize(r)
  <2>1. ExecType' /\ AgentType'
    BY <1>6 DEF Finalize, TypeOK, ExecType, ExecPC, AgentType
  <2>2. TaskType' /\ PiType'
    BY <1>6, TaskUnchanged, PiUnchanged DEF Finalize, TypeOK
  <2> QED BY <1>6, <2>1, <2>2 DEF Finalize, TypeOK, piVars
<1>7. CASE ReadWait(r)
  <2>1. ExecType'
    BY <1>7 DEF ReadWait, TypeOK, ExecType, ExecPC, AgentType
  <2>2. AgentType' /\ TaskType' /\ PiType'
    BY <1>7, AgentUnchanged, TaskUnchanged, PiUnchanged DEF ReadWait, TypeOK
  <2> QED BY <1>7, <2>1, <2>2 DEF ReadWait, TypeOK, agentVars, piVars
<1>8. CASE ReadLine(r)
  BY <1>8, ReadLineTypeOK
<1>9. CASE \/ ExecuteSendFails(r) \/ ReadEof(r) \/ ReadTimeout(r)
           \/ ReadNoProc(r) \/ ReadClash(r)
  BY <1>9, YieldErrorTypeOK
  DEF ExecuteSendFails, ReadEof, ReadTimeout, ReadNoProc, ReadClash
<1>10. CASE ExecuteCommand(r) \/ ExecuteRead(r)
  <2>1. ExecType'
    BY <1>10, Bounds
    DEF ExecuteCommand, ExecuteRead, TypeOK, ExecType, ExecPC, AgentType, None
  <2>2. AgentType' /\ TaskType' /\ PiType'
    BY <1>10, AgentUnchanged, TaskUnchanged, PiUnchanged
    DEF ExecuteCommand, ExecuteRead, TypeOK
  <2> QED BY <1>10, <2>1, <2>2 DEF ExecuteCommand, ExecuteRead, TypeOK,
     agentVars, piVars
<1> QED BY <1>1, <1>2, <1>3, <1>4, <1>5, <1>6, <1>7, <1>8, <1>9, <1>10 DEF ExecStep

(* The steps of stop(), start() and the end of serve().                    *)
LEMMA TaskTypeOK ==
  ASSUME TypeOK, NEW t \in Task,
         StopBegin(t) \/ TaskStep(t) \/ CancelReload(t)
  PROVE  TypeOK'
<1>1. CASE StopBegin(t)
  <2>1. AgentType' /\ TaskType'
    BY <1>1, AfterStopType, Bounds
    DEF StopBegin, TypeOK, AgentType, TaskType, TaskPC, None
  <2>2. PiType'
    <3>1. termed' = IF proc = None THEN termed ELSE termed \cup {proc}
      BY <1>1 DEF StopBegin
    <3>2. proc # None => proc \in 1 .. spawned
      BY Bounds DEF TypeOK, AgentType, PiType, Proc
    <3>3. termed' \subseteq 1 .. spawned
      BY <3>1, <3>2 DEF TypeOK, PiType
    <3> QED BY <1>1, <3>3 DEF StopBegin, TypeOK, PiType
  <2>3. ExecType' /\ proc' <= spawned'
    BY <1>1, ExecUnchanged, Bounds
    DEF StopBegin, TypeOK, PiType, None, Proc
  <2> QED BY <2>1, <2>2, <2>3 DEF TypeOK
<1>2. CASE StopWait(t)
  <2>1. TaskType'
    BY <1>2, AfterStopType DEF StopWait, TypeOK, TaskType
  <2>2. AgentType' /\ ExecType' /\ PiType'
    BY <1>2, AgentUnchanged, ExecUnchanged, PiUnchanged DEF StopWait, TypeOK
  <2> QED BY <1>2, <2>1, <2>2 DEF StopWait, TypeOK, agentVars, piVars
<1>3. CASE StopKill(t)
  <2>1. TaskType'
    BY <1>3, AfterStopType DEF StopKill, TypeOK, TaskType
  <2>2. AgentType' /\ ExecType'
    BY <1>3, AgentUnchanged, ExecUnchanged DEF StopKill, TypeOK
  <2>3. PiType'
    BY <1>3 DEF StopKill, TypeOK, PiType
  <2> QED BY <1>3, <2>1, <2>2, <2>3 DEF StopKill, TypeOK, agentVars
<1>4. CASE Spawned(t)
  <2>1. /\ spawned' \in Proc /\ proc' \in 0 .. MaxProc /\ proc' <= spawned'
        /\ 1 .. spawned \subseteq 1 .. spawned'
        /\ spawned + 1 \in 1 .. spawned'
    BY <1>4, Bounds DEF Spawned, TypeOK, PiType, Proc
  <2>2. AgentType'
    BY <1>4, <2>1 DEF Spawned, AgentType
  <2>3. TaskType' /\ ExecType'
    BY <1>4, ExecUnchanged DEF Spawned, TypeOK, TaskType, TaskPC
  <2>4. PiType'
    <3>1. alive' \subseteq 1 .. spawned' /\ termed' \subseteq 1 .. spawned'
      BY <1>4, <2>1 DEF Spawned, TypeOK, PiType
    <3> QED BY <1>4, <2>1, <3>1 DEF Spawned, TypeOK, PiType
  <2> QED BY <2>1, <2>2, <2>3, <2>4 DEF TypeOK
<1>5. CASE SpawnFails(t) \/ CancelReload(t)
  <2>1. TaskType'
    BY <1>5 DEF SpawnFails, CancelReload, TypeOK, TaskType, TaskPC
  <2>2. AgentType' /\ ExecType' /\ PiType'
    BY <1>5, AgentUnchanged, ExecUnchanged, PiUnchanged
    DEF SpawnFails, CancelReload, TypeOK
  <2> QED BY <1>5, <2>1, <2>2
      DEF SpawnFails, CancelReload, TypeOK, agentVars, piVars
<1> QED BY <1>1, <1>2, <1>3, <1>4, <1>5 DEF TaskStep

(* The steps of a pi process.                                              *)
LEMMA PiTypeOK ==
  ASSUME TypeOK, NEW p \in Proc, PiStep(p)
  PROVE  TypeOK'
<1>1. AgentType' /\ ExecType' /\ TaskType' /\ UNCHANGED <<proc, spawned>>
  BY AgentUnchanged, ExecUnchanged, TaskUnchanged
  DEF PiStep, PiTake, PiEmit, PiEnd, PiExit, TypeOK, agentVars
<1>2. CASE PiTake(p)
  <2>1. inbox[p][taken[p] + 1] \in Command
    BY <1>2 DEF PiTake, TypeOK, PiType
  <2>2. taken' \in [Proc -> Nat] /\ texts' \in [Proc -> Nat]
    BY <1>2 DEF PiTake, TypeOK, PiType
  <2>3. cur' \in [Proc -> Exec \cup {NoReq}]
    BY <1>2, <2>1 DEF PiTake, TypeOK, PiType, Command
  <2> QED BY <1>1, <1>2, <2>2, <2>3 DEF PiTake, TypeOK, PiType
<1>3. CASE PiEmit(p) \/ PiEnd(p)
  <2>1. PICK k \in LineKind : Write(p, k)
    BY <1>3 DEF PiEmit, PiEnd, LineKind
  <2>2. [of |-> cur[p], kind |-> k] \in Line
    BY <1>3 DEF PiEmit, PiEnd, TypeOK, PiType, Line
  <2>3. outbox' \in [Proc -> Seq(Line)]
    BY <2>1, <2>2 DEF Write, TypeOK, PiType
  <2>4. cur' \in [Proc -> Exec \cup {NoReq}] /\ texts' \in [Proc -> Nat]
    <3>1. CASE PiEmit(p)
      BY <3>1 DEF PiEmit, TypeOK, PiType
    <3>2. CASE PiEnd(p)
      BY <3>2 DEF PiEnd, TypeOK, PiType
    <3> QED BY <1>3, <3>1, <3>2
  <2>5. UNCHANGED <<alive, spawned, termed, rivals, inbox, taken>>
    BY <1>3 DEF PiEmit, PiEnd
  <2> QED BY <1>1, <2>3, <2>4, <2>5 DEF TypeOK, PiType
<1>4. CASE PiExit(p)
  BY <1>1, <1>4 DEF PiExit, TypeOK, PiType
<1> QED BY <1>2, <1>3, <1>4 DEF PiStep

LEMMA NextTypeOK == TypeOK /\ [Next]_vars => TypeOK'
<1> SUFFICES ASSUME TypeOK, [Next]_vars PROVE TypeOK'
  OBVIOUS
<1>1. CASE Next
  <2>1. CASE ShutdownExit
    <3>1. TaskType'
      BY <2>1 DEF ShutdownExit, TypeOK, TaskType, TaskPC
    <3>2. AgentType' /\ ExecType' /\ PiType'
      BY <2>1, AgentUnchanged, ExecUnchanged, PiUnchanged DEF ShutdownExit, TypeOK
    <3> QED BY <2>1, <3>1, <3>2 DEF ShutdownExit, TypeOK, agentVars, piVars
  <2> QED BY <1>1, <2>1, ExecTypeOK, TaskTypeOK, PiTypeOK DEF Next
<1>2. CASE UNCHANGED vars
  BY <1>2, AgentUnchanged, ExecUnchanged, TaskUnchanged, PiUnchanged
  DEF vars, TypeOK, agentVars, piVars
<1> QED BY <1>1, <1>2

(* A step of one execution moves no other.                                 *)
LEMMA OwnPc ==
  ASSUME TypeOK, NEW r \in Exec,
         ExecuteReject(r) \/ ExecuteBegin(r) \/ Cancel(r) \/ ExecStep(r)
  PROVE  \A q \in Exec \ {r} : pc'[q] = pc[q]
<1>0. pc \in [Exec -> ExecPC]
  BY DEF TypeOK, ExecType
<1>1. \E v : pc' = [pc EXCEPT ![r] = v]
  <2>1. CASE ReadLine(r)
    BY <2>1 DEF ReadLine, Yield
  <2>2. CASE ExecuteResume(r)
    BY <2>2 DEF ExecuteResume
  <2>3. CASE Cancel(r)
    BY <2>3 DEF Cancel
  <2>4. CASE ExecuteCommand(r)
    <3>1. pc' = [pc EXCEPT ![r] = pc[r]]
      BY <1>0, <2>4 DEF ExecuteCommand
    <3> QED BY <3>1
  <2>5. CASE ~ReadLine(r) /\ ~ExecuteResume(r) /\ ~Cancel(r) /\ ~ExecuteCommand(r)
    BY <2>5 DEF ExecuteReject, ExecuteBegin, ExecStep, ExecutePrompt, ExecuteRead,
       ExecuteSendFails, ReadWait, ReadEof, ReadTimeout, ReadNoProc, ReadClash,
       Finalize, Yield
  <2> QED BY <2>1, <2>2, <2>3, <2>4, <2>5
<1> QED BY <1>0, <1>1

(* The state of the agent server is well typed in every behaviour.         *)
THEOREM TypeCorrect == Spec => []TypeOK
BY InitTypeOK, NextTypeOK, PTL DEF Spec

(***************************************************************************)
(* The busy flag and the status                                            *)
(***************************************************************************)

FlagsInv == TypeOK /\ BusyHasOwner /\ StatusMatchesProc

LEMMA InitFlags == Init => BusyHasOwner /\ StatusMatchesProc
BY DEF Init, BusyHasOwner, StatusMatchesProc, None

(* A step of one execution either leaves that execution in flight or       *)
(* clears the flag, and does not touch the others.                         *)
LEMMA ExecFlags ==
  ASSUME FlagsInv, NEW r \in Exec,
         ExecuteReject(r) \/ ExecuteBegin(r) \/ Cancel(r) \/ ExecStep(r)
  PROVE  BusyHasOwner' /\ StatusMatchesProc'
<1>1. /\ pc \in [Exec -> ExecPC]
      /\ \A q \in Exec : q # r => pc'[q] = pc[q]
  BY OwnPc DEF FlagsInv, TypeOK, ExecType
<1>2. UNCHANGED <<proc, status>>
  BY DEF ExecuteReject, ExecuteBegin, Cancel, ExecStep, ExecuteCommand,
     ExecutePrompt, ExecuteRead, ExecuteSendFails, AtDrain, ExecuteResume,
     ReadWait, ReadLine, ReadEof, ReadTimeout, ReadNoProc, ReadClash, Finalize,
     agentVars
<1>3. StatusMatchesProc'
  BY <1>2 DEF FlagsInv, StatusMatchesProc
<1>4. ~busy' \/ InFlight(r)' \/ (UNCHANGED busy /\ ~InFlight(r))
  BY <1>1 DEF FlagsInv, TypeOK, ExecType, ExecPC, InFlight, Reading,
     ExecuteReject, ExecuteBegin, Cancel, ExecStep, ExecuteCommand,
     ExecutePrompt, ExecuteRead, ExecuteSendFails, AtDrain, ExecuteResume,
     ReadWait, ReadLine, ReadEof, ReadTimeout, ReadNoProc, ReadClash, Finalize,
     Yield, agentVars
<1>5. BusyHasOwner'
  BY <1>1, <1>4 DEF FlagsInv, BusyHasOwner, InFlight
<1> QED BY <1>3, <1>5

LEMMA TaskFlags ==
  ASSUME FlagsInv, NEW t \in Task,
         StopBegin(t) \/ TaskStep(t) \/ CancelReload(t)
  PROVE  BusyHasOwner' /\ StatusMatchesProc'
<1>1. CASE StopBegin(t)
  BY <1>1 DEF StopBegin, FlagsInv, BusyHasOwner, StatusMatchesProc, InFlight,
     execVars
<1>2. CASE Spawned(t)
  <2>1. proc' # None
    BY <1>2, Bounds DEF Spawned, FlagsInv, TypeOK, PiType, Proc
  <2> QED BY <1>2, <2>1 DEF Spawned, FlagsInv, BusyHasOwner, StatusMatchesProc
<1>3. CASE StopWait(t) \/ StopKill(t) \/ SpawnFails(t) \/ CancelReload(t)
  BY <1>3 DEF StopWait, StopKill, SpawnFails, CancelReload, FlagsInv,
     BusyHasOwner, StatusMatchesProc, InFlight, agentVars, execVars
<1> QED BY <1>1, <1>2, <1>3 DEF TaskStep

LEMMA NextFlags == FlagsInv /\ [Next]_vars => FlagsInv'
<1> SUFFICES ASSUME FlagsInv, [Next]_vars
             PROVE  BusyHasOwner' /\ StatusMatchesProc'
  BY NextTypeOK DEF FlagsInv
<1>1. CASE \/ UNCHANGED vars \/ ShutdownExit
           \/ \E p \in Proc : PiStep(p)
  <2>1. UNCHANGED <<agentVars, execVars>>
    BY <1>1 DEF vars, ShutdownExit, PiStep, PiTake, PiEmit, PiEnd, PiExit
  <2> QED BY <2>1 DEF FlagsInv, BusyHasOwner, StatusMatchesProc, InFlight,
         agentVars, execVars
<1> QED BY <1>1, ExecFlags, TaskFlags DEF Next

(* However its executions end and whenever it is reloaded, the agent never *)
(* stays busy without an execution that will release it.                   *)
THEOREM NeverBusyForNobody == Spec => []BusyHasOwner
<1>1. Init => FlagsInv
  BY InitTypeOK, InitFlags DEF FlagsInv
<1>2. FlagsInv => BusyHasOwner
  BY DEF FlagsInv
<1> QED BY <1>1, <1>2, NextFlags, PTL DEF Spec

(* The status GetInfo reports always agrees with the process handle.       *)
THEOREM StatusCorrect == Spec => []StatusMatchesProc
<1>1. Init => FlagsInv
  BY InitTypeOK, InitFlags DEF FlagsInv
<1>2. FlagsInv => StatusMatchesProc
  BY DEF FlagsInv
<1> QED BY <1>1, <1>2, NextFlags, PTL DEF Spec

(***************************************************************************)
(* Streams                                                                 *)
(***************************************************************************)

(* No final event so far; a final event, if any, is the last one.          *)
Unfinished(s) == \A i \in DOMAIN s : ~Terminal(s[i])
FinalIsLast(s) == \A i \in DOMAIN s : Terminal(s[i]) => i = Len(s)

(* What OneTerminalEvent needs to be inductive: an execution that is still *)
(* going to yield has yielded nothing final.                               *)
StreamOf(r) ==
  /\ pc[r] = "new" => out[r] = <<>>
  /\ pc[r] \in {"sending", "prompting", "loop", "wait"} => Unfinished(out[r])
  /\ pc[r] = "yield" => out[r] # <<>>
  /\ pc[r] = "done" => out[r] # <<>> /\ Terminal(Last(out[r]))
  /\ FinalIsLast(out[r])

StreamInv == TypeOK /\ \A r \in Exec : StreamOf(r)

LEMMA InitStream == Init => \A r \in Exec : StreamOf(r)
<1> SUFFICES ASSUME Init, NEW r \in Exec PROVE StreamOf(r)
  OBVIOUS
<1>1. pc[r] = "new" /\ out[r] = <<>>
  BY DEF Init
<1>2. DOMAIN out[r] = {}
  BY <1>1
<1> QED BY <1>1, <1>2 DEF StreamOf, FinalIsLast

(* Appending to a stream without a final event.                            *)
LEMMA AppendStream ==
  ASSUME NEW s \in Seq(Event), Unfinished(s), NEW e \in Event
  PROVE  /\ Append(s, e) # <<>>
         /\ Last(Append(s, e)) = e
         /\ FinalIsLast(Append(s, e))
         /\ ~Terminal(e) => Unfinished(Append(s, e))
<1> DEFINE u == Append(s, e)
<1>1. /\ u \in Seq(Event) /\ Len(u) = Len(s) + 1 /\ Len(s) \in Nat
      /\ \A i \in 1 .. Len(s) : u[i] = s[i]
      /\ u[Len(s) + 1] = e
      /\ DOMAIN u = 1 .. Len(s) + 1 /\ DOMAIN s = 1 .. Len(s)
  OBVIOUS
<1>2. \A i \in DOMAIN u : i = Len(u) \/ ~Terminal(u[i])
  BY <1>1 DEF Unfinished
<1>3. u # <<>>
  BY <1>1
<1>4. Last(u) = e
  BY <1>1 DEF Last
<1>5. ~Terminal(e) => Unfinished(u)
  BY <1>1, <1>2 DEF Unfinished
<1> HIDE DEF u
<1>6. FinalIsLast(u)
  BY <1>2 DEF FinalIsLast
<1> QED BY <1>3, <1>4, <1>5, <1>6 DEF u

LEMMA YieldStream ==
  ASSUME StreamInv, NEW r \in Exec, NEW e \in Event, Yield(r, e),
         pc[r] \in {"sending", "prompting", "loop", "wait"}
  PROVE  \A q \in Exec : StreamOf(q)'
<1>1. out[r] \in Seq(Event) /\ Unfinished(out[r])
  BY DEF StreamInv, StreamOf, TypeOK, ExecType
<1>2. /\ out'[r] = Append(out[r], e) /\ pc'[r] = "yield"
      /\ \A q \in Exec \ {r} : out'[q] = out[q] /\ pc'[q] = pc[q]
  BY DEF StreamInv, TypeOK, ExecType, Yield
<1>3. out'[r] # <<>> /\ FinalIsLast(out'[r])
  BY <1>1, <1>2, AppendStream
<1>4. StreamOf(r)'
  BY <1>2, <1>3 DEF StreamOf
<1>5. ASSUME NEW q \in Exec \ {r} PROVE StreamOf(q)'
  BY <1>2 DEF StreamInv, StreamOf
<1> QED BY <1>4, <1>5

(* What a line that becomes an event becomes.                              *)
LEMMA ReadLineYields ==
  ASSUME TypeOK, NEW r \in Exec, ReadLine(r)
  PROVE  \/ \E e \in Event : Yield(r, e)
         \/ /\ pc' = [pc EXCEPT ![r] = "loop"]
            /\ UNCHANGED out
<1> DEFINE p == Source(r)
           l == Head(outbox[p])
<1>1. p \in Proc
  BY Bounds
  DEF ReadLine, Reading, Source, None, TypeOK, AgentType, ExecType, Proc
<1>2. l \in Line
  BY <1>1 DEF TypeOK, PiType, ReadLine
<1>3. CASE l.kind = "noise"
  BY <1>3 DEF ReadLine
<1>4. CASE l.kind = "broken"
  BY <1>4, LocalErrorType DEF ReadLine
<1>5. CASE l.kind \notin {"noise", "broken"}
  <2>1. Yield(r, [of |-> l.of, type |-> EventType[l.kind]])
    BY <1>5 DEF ReadLine
  <2>2. [of |-> l.of, type |-> EventType[l.kind]] \in Event
    BY <1>2, <1>5 DEF Event, EventType, Line, LineKind
  <2> QED BY <2>1, <2>2
<1> QED BY <1>3, <1>4, <1>5

LEMMA ExecStream ==
  ASSUME StreamInv, NEW r \in Exec,
         ExecuteReject(r) \/ ExecuteBegin(r) \/ Cancel(r) \/ ExecStep(r)
  PROVE  \A q \in Exec : StreamOf(q)'
<1>0. /\ pc \in [Exec -> ExecPC] /\ out \in [Exec -> Seq(Event)]
      /\ TypeOK /\ \A q \in Exec : StreamOf(q)
  BY DEF StreamInv, TypeOK, ExecType
<1>1. CASE ExecuteReject(r)
  <2>1. /\ out'[r] = Append(<<>>, LocalError) /\ pc'[r] = "done"
        /\ \A q \in Exec \ {r} : out'[q] = out[q] /\ pc'[q] = pc[q]
    BY <1>0, <1>1 DEF ExecuteReject, StreamOf
  <2>2. <<>> \in Seq(Event) /\ Unfinished(<<>>)
    BY DEF Unfinished
  <2>3. out'[r] # <<>> /\ Last(out'[r]) = LocalError /\ FinalIsLast(out'[r])
    BY <2>1, <2>2, AppendStream, LocalErrorType
  <2>4. Terminal(LocalError)
    BY DEF Terminal, LocalError
  <2>5. StreamOf(r)'
    BY <2>1, <2>3, <2>4 DEF StreamOf
  <2> QED BY <1>0, <2>1, <2>5 DEF StreamOf
<1>2. CASE \/ ExecuteBegin(r) \/ ExecuteCommand(r) \/ ExecutePrompt(r)
           \/ ExecuteRead(r) \/ ReadWait(r)
  <2>1. /\ UNCHANGED out /\ pc[r] \in {"new", "sending", "prompting", "loop"}
        /\ pc'[r] \in {"sending", "prompting", "loop", "wait"}
        /\ \A q \in Exec \ {r} : pc'[q] = pc[q]
    BY <1>0, <1>2 DEF ExecuteBegin, ExecuteCommand, ExecutePrompt, ExecuteRead,
       ReadWait
  <2>2. Unfinished(out[r])
    BY <1>0, <2>1 DEF StreamOf, Unfinished
  <2> QED BY <1>0, <2>1, <2>2 DEF StreamOf
<1>3. CASE ExecuteResume(r)
  <2>1. /\ UNCHANGED out /\ pc[r] = "yield"
        /\ pc'[r] = IF Terminal(Last(out[r])) THEN "done" ELSE "loop"
        /\ \A q \in Exec \ {r} : pc'[q] = pc[q]
    BY <1>0, <1>3 DEF ExecuteResume
  <2>2. ~Terminal(Last(out[r])) => Unfinished(out[r])
    BY <1>0, <2>1 DEF StreamOf, FinalIsLast, Unfinished, Last
  <2> QED BY <1>0, <2>1, <2>2 DEF StreamOf
<1>4. CASE Cancel(r) \/ Finalize(r)
  <2>1. /\ UNCHANGED out /\ pc'[r] \in {"orphaned", "cancelled"}
        /\ \A q \in Exec \ {r} : pc'[q] = pc[q]
    BY <1>0, <1>4 DEF Cancel, Finalize
  <2> QED BY <1>0, <2>1 DEF StreamOf
<1>5. CASE ReadLine(r)
  <2>1. pc[r] \in {"loop", "wait"}
    BY <1>5 DEF ReadLine, Reading
  <2>2. CASE \E e \in Event : Yield(r, e)
    BY <2>1, <2>2, YieldStream
  <2>3. CASE pc' = [pc EXCEPT ![r] = "loop"] /\ UNCHANGED out
    BY <1>0, <2>1, <2>3 DEF StreamOf
  <2> QED BY <1>0, <1>5, <2>2, <2>3, ReadLineYields
<1>6. CASE \/ ExecuteSendFails(r) \/ ReadEof(r) \/ ReadTimeout(r)
           \/ ReadNoProc(r) \/ ReadClash(r)
  <2>1. Yield(r, LocalError) /\ pc[r] \in {"sending", "prompting", "loop", "wait"}
    BY <1>6 DEF ExecuteSendFails, AtDrain, ReadEof, Reading, ReadTimeout,
       ReadNoProc, ReadClash
  <2> QED BY <2>1, YieldStream, LocalErrorType
<1> QED BY <1>1, <1>2, <1>3, <1>4, <1>5, <1>6 DEF ExecStep

LEMMA NotExecLeavesStreams ==
  ASSUME [Next]_vars,
         ~ \E r \in Exec : \/ ExecuteReject(r) \/ ExecuteBegin(r)
                           \/ Cancel(r) \/ ExecStep(r)
  PROVE  UNCHANGED execVars
BY DEF Next, vars, ShutdownExit, TaskStep, StopBegin, StopWait, StopKill, Spawned,
   SpawnFails, CancelReload, PiStep, PiTake, PiEmit, PiEnd, PiExit

LEMMA NextStream == StreamInv /\ [Next]_vars => StreamInv'
<1> SUFFICES ASSUME StreamInv, [Next]_vars
             PROVE  \A r \in Exec : StreamOf(r)'
  BY NextTypeOK DEF StreamInv
<1>1. CASE UNCHANGED execVars
  BY <1>1 DEF StreamInv, StreamOf, execVars
<1> QED BY <1>1, ExecStream, NotExecLeavesStreams

(* A stream that ended by itself carries exactly one final event, its last. *)
THEOREM OneFinalEvent == Spec => []OneTerminalEvent
<1>1. Init => StreamInv
  BY InitTypeOK, InitStream DEF StreamInv
<1>2. StreamInv => OneTerminalEvent
  BY DEF StreamInv, StreamOf, FinalIsLast, OneTerminalEvent
<1> QED BY <1>1, <1>2, NextStream, PTL DEF Spec

(***************************************************************************)
(* PiAgent implements ExecuteStream                                        *)
(***************************************************************************)

Phases == [r \in Exec |-> PhaseOf(r)]
Sents  == [r \in Exec |-> SentOf(r)]

LEMMA InitRefines == Init => Stream!Init
<1> SUFFICES ASSUME Init PROVE Stream!Init
  OBVIOUS
<1>1. ASSUME NEW r \in Exec PROVE PhaseOf(r) = "idle" /\ SentOf(r) = <<>>
  <2>1. pc[r] = "new" /\ out[r] = <<>>
    BY DEF Init
  <2>2. DOMAIN out[r] = {}
    BY <2>1
  <2>3. SentOf(r) = <<>>
    BY <2>1, <2>2 DEF SentOf
  <2> QED BY <2>1, <2>3 DEF PhaseOf
<1> QED BY <1>1 DEF Stream!Init

(* Appending an event appends its image.                                   *)
LEMMA AppendSent ==
  ASSUME NEW r \in Exec, NEW e \in Event, out[r] \in Seq(Event),
         out'[r] = Append(out[r], e)
  PROVE  SentOf(r)' = Append(SentOf(r), IF Terminal(e) THEN "final" ELSE "event")
<1> DEFINE v == IF Terminal(e) THEN "final" ELSE "event"
           n == Len(out[r])
<1>1. /\ n \in Nat /\ DOMAIN out[r] = 1 .. n /\ DOMAIN out'[r] = 1 .. n + 1
      /\ \A i \in 1 .. n : out'[r][i] = out[r][i]
      /\ out'[r][n + 1] = e
  OBVIOUS
<1>2. SentOf(r) \in Seq({"final", "event"}) /\ Len(SentOf(r)) = n
  <2>1. SentOf(r) \in [1 .. n -> {"final", "event"}]
    BY <1>1 DEF SentOf
  <2> QED BY <1>1, <2>1
<1>3. /\ SentOf(r)' \in Seq({"final", "event"}) /\ Len(SentOf(r)') = n + 1
      /\ \A i \in 1 .. n : SentOf(r)'[i] = SentOf(r)[i]
      /\ SentOf(r)'[n + 1] = v
  <2>1. SentOf(r)' \in [1 .. n + 1 -> {"final", "event"}]
    BY <1>1 DEF SentOf
  <2>2. SentOf(r)' \in Seq({"final", "event"}) /\ Len(SentOf(r)') = n + 1
    BY <1>1, <2>1
  <2> QED BY <1>1, <2>2 DEF SentOf
<1>4. v \in {"final", "event"}
  OBVIOUS
<1> HIDE DEF v
<1>5. /\ Append(SentOf(r), v) \in Seq({"final", "event"})
      /\ Len(Append(SentOf(r), v)) = n + 1
      /\ \A i \in 1 .. n : Append(SentOf(r), v)[i] = SentOf(r)[i]
      /\ Append(SentOf(r), v)[n + 1] = v
  BY <1>2, <1>4, AppendProperties
<1>6. \A i \in 1 .. n + 1 : SentOf(r)'[i] = Append(SentOf(r), v)[i]
  BY <1>1, <1>3, <1>5
<1>7. SentOf(r)' = Append(SentOf(r), v)
  BY <1>3, <1>5, <1>6, SeqEqual
<1> QED BY <1>7 DEF v

(* What ExecuteStream calls finished is a final event at the end.          *)
LEMMA FinishedMeans ==
  ASSUME NEW r \in Exec, out[r] \in Seq(Event)
  PROVE  Stream!Finished(r) <=> out[r] # <<>> /\ Terminal(Last(out[r]))
<1> DEFINE n == Len(out[r])
<1>1. n \in Nat /\ DOMAIN out[r] = 1 .. n
  OBVIOUS
<1>2. /\ DOMAIN SentOf(r) = 1 .. n
      /\ \A i \in 1 .. n : SentOf(r)[i] = IF Terminal(out[r][i]) THEN "final" ELSE "event"
  BY <1>1 DEF SentOf
<1>3. Len(SentOf(r)) = n
  BY <1>1, <1>2
<1>4. Sents[r] = SentOf(r)
  BY DEF Sents
<1>5. (SentOf(r) = <<>>) <=> (n = 0)
  BY <1>1, <1>2
<1>6. (out[r] = <<>>) <=> (n = 0)
  OBVIOUS
<1>7. Stream!Finished(r) <=> SentOf(r) # <<>> /\ SentOf(r)[Len(SentOf(r))] = "final"
  BY <1>4 DEF Stream!Finished, Sents
<1>8. n # 0 => (SentOf(r)[n] = "final" <=> Terminal(Last(out[r])))
  BY <1>1, <1>2 DEF Last
<1> QED BY <1>3, <1>5, <1>6, <1>7, <1>8

(* A step of r changes the image at r only.                                *)
LEMMA ImageOfStep ==
  ASSUME NEW r \in Exec,
         \A q \in Exec \ {r} : pc'[q] = pc[q] /\ out'[q] = out[q]
  PROVE  /\ Phases' = [Phases EXCEPT ![r] = PhaseOf(r)']
         /\ Sents' = [Sents EXCEPT ![r] = SentOf(r)']
<1>1. \A q \in Exec \ {r} : PhaseOf(q)' = PhaseOf(q) /\ SentOf(q)' = SentOf(q)
  BY DEF PhaseOf, SentOf
<1> QED BY <1>1 DEF Phases, Sents

LEMMA YieldRefines ==
  ASSUME StreamInv, NEW r \in Exec, NEW e \in Event, Yield(r, e),
         pc[r] \in {"sending", "prompting", "loop", "wait"}
  PROVE  Stream!Next
<1> DEFINE v == IF Terminal(e) THEN "final" ELSE "event"
<1>1. /\ out[r] \in Seq(Event) /\ Unfinished(out[r])
      /\ pc \in [Exec -> ExecPC] /\ out \in [Exec -> Seq(Event)]
  BY DEF StreamInv, StreamOf, TypeOK, ExecType
<1>2. /\ out'[r] = Append(out[r], e) /\ pc'[r] = "yield"
      /\ \A q \in Exec \ {r} : pc'[q] = pc[q] /\ out'[q] = out[q]
  BY <1>1 DEF Yield
<1>3. PhaseOf(r) = "open" /\ PhaseOf(r)' = "open"
  BY <1>2 DEF PhaseOf
<1>4. Phases' = Phases /\ Sents' = [Sents EXCEPT ![r] = SentOf(r)']
  BY <1>2, <1>3, ImageOfStep DEF Phases
<1>5. SentOf(r)' = Append(SentOf(r), v)
  BY <1>1, <1>2, AppendSent
<1>6. ~Stream!Finished(r)
  <2>1. ~(out[r] # <<>> /\ Terminal(Last(out[r])))
    BY <1>1 DEF Unfinished, Last
  <2> QED BY <1>1, <2>1, FinishedMeans
<1>7. Phases[r] = "open" /\ Sents[r] = SentOf(r)
  BY <1>3 DEF Phases, Sents
<1>8. Sents' = [Sents EXCEPT ![r] = Append(@, v)]
  BY <1>4, <1>5, <1>7 DEF Sents
<1>9. Stream!Send(r, v)
  BY <1>4, <1>6, <1>7, <1>8 DEF Stream!Send, Phases, Sents
<1>10. v \in Stream!Event
  BY DEF Stream!Event
<1> QED BY <1>9, <1>10 DEF Stream!Next

LEMMA ExecRefines ==
  ASSUME StreamInv, NEW r \in Exec,
         ExecuteReject(r) \/ ExecuteBegin(r) \/ Cancel(r) \/ ExecStep(r)
  PROVE  Stream!Next \/ UNCHANGED Stream!svars
<1>0. /\ pc \in [Exec -> ExecPC] /\ out \in [Exec -> Seq(Event)]
      /\ TypeOK /\ StreamOf(r) /\ pc[r] \in ExecPC /\ out[r] \in Seq(Event)
  BY DEF StreamInv, TypeOK, ExecType
<1>1. CASE ExecuteReject(r)
  <2>1. /\ out[r] = <<>> /\ out'[r] = Append(out[r], LocalError)
        /\ pc[r] = "new" /\ pc'[r] = "done"
        /\ \A q \in Exec \ {r} : pc'[q] = pc[q] /\ out'[q] = out[q]
    BY <1>0, <1>1 DEF ExecuteReject, StreamOf
  <2>2. SentOf(r) = <<>> /\ SentOf(r)' = Append(SentOf(r), "final")
    <3>1. SentOf(r) = <<>>
      BY <2>1 DEF SentOf
    <3>2. Terminal(LocalError)
      BY DEF Terminal, LocalError
    <3> QED BY <1>0, <2>1, <3>1, <3>2, AppendSent, LocalErrorType
  <2>3. SentOf(r)' = <<"final">>
    BY <2>2
  <2>4. PhaseOf(r) = "idle" /\ PhaseOf(r)' = "closed"
    BY <2>1 DEF PhaseOf
  <2>5. /\ Phases[r] = "idle"
        /\ Phases' = [Phases EXCEPT ![r] = "closed"]
        /\ Sents' = [Sents EXCEPT ![r] = <<"final">>]
    BY <2>1, <2>3, <2>4, ImageOfStep DEF Phases
  <2>6. Stream!Refuse(r)
    BY <2>5 DEF Stream!Refuse, Phases, Sents
  <2> QED BY <2>6 DEF Stream!Next
<1>2. CASE UNCHANGED out
  <2>1. \A q \in Exec : SentOf(q)' = SentOf(q)
    BY <1>2 DEF SentOf
  <2>2. Sents' = Sents
    BY <2>1 DEF Sents
  <2>3. \A q \in Exec \ {r} : pc'[q] = pc[q]
    BY <1>0, OwnPc
  <2>4. Phases' = [Phases EXCEPT ![r] = PhaseOf(r)']
    BY <1>2, <2>3, ImageOfStep
  <2>5. Phases[r] = PhaseOf(r)
    BY DEF Phases
  <2>6. CASE PhaseOf(r)' = PhaseOf(r)
    <3>1. Phases' = Phases
      BY <2>4, <2>6 DEF Phases
    <3> QED BY <2>2, <3>1 DEF Stream!svars, Phases, Sents
  <2>7. CASE PhaseOf(r) = "idle" /\ PhaseOf(r)' = "open"
    <3>1. Stream!Open(r)
      BY <2>2, <2>4, <2>5, <2>7 DEF Stream!Open, Phases, Sents
    <3> QED BY <3>1 DEF Stream!Next
  <2>8. CASE PhaseOf(r) = "open" /\ PhaseOf(r)' = "cancelled"
    <3>1. Stream!Abandon(r)
      BY <2>2, <2>4, <2>5, <2>8 DEF Stream!Abandon, Phases, Sents
    <3> QED BY <3>1 DEF Stream!Next
  <2>9. CASE ExecuteResume(r) /\ PhaseOf(r) = "open" /\ PhaseOf(r)' = "closed"
    <3>1. pc[r] = "yield" /\ Terminal(Last(out[r]))
      <4>1. pc[r] = "yield"
        BY <2>9 DEF ExecuteResume
      <4>2. pc' = [pc EXCEPT ![r] = IF Terminal(Last(out[r])) THEN "done" ELSE "loop"]
        BY <2>9 DEF ExecuteResume
      <4>3. pc'[r] # "loop"
        BY <2>9 DEF PhaseOf
      <4> QED BY <1>0, <4>1, <4>2, <4>3
    <3>2. Stream!Finished(r)
      BY <1>0, <3>1, FinishedMeans DEF StreamOf
    <3>3. Stream!Close(r)
      BY <2>2, <2>4, <2>5, <2>9, <3>2 DEF Stream!Close, Phases, Sents
    <3> QED BY <3>3 DEF Stream!Next
  <2>10. \/ PhaseOf(r)' = PhaseOf(r)
         \/ PhaseOf(r) = "idle" /\ PhaseOf(r)' = "open"
         \/ PhaseOf(r) = "open" /\ PhaseOf(r)' = "cancelled"
         \/ ExecuteResume(r) /\ PhaseOf(r) = "open" /\ PhaseOf(r)' = "closed"
         \/ ExecuteReject(r)
         \/ \E e \in Event : Yield(r, e)
    <3>1. CASE ReadLine(r)
      <4>1. pc[r] \in {"loop", "wait"}
        BY <3>1 DEF ReadLine, Reading
      <4>2. CASE pc' = [pc EXCEPT ![r] = "loop"]
        BY <1>0, <4>1, <4>2 DEF PhaseOf
      <4> QED BY <1>0, <3>1, <4>2, ReadLineYields
    <3>2. CASE Cancel(r)
      <4>1. pc[r] \in {"sending", "prompting", "loop", "wait", "yield"}
            /\ pc'[r] \in {"orphaned", "cancelled"}
        BY <1>0, <3>2 DEF Cancel
      <4> QED BY <4>1 DEF PhaseOf
    <3>3. CASE ExecuteResume(r)
      <4>1. pc[r] = "yield" /\ pc'[r] \in {"done", "loop"}
        BY <1>0, <3>3 DEF ExecuteResume
      <4> QED BY <3>3, <4>1 DEF PhaseOf
    <3>4. CASE Finalize(r)
      <4>1. pc[r] = "orphaned" /\ pc'[r] = "cancelled"
        BY <1>0, <3>4 DEF Finalize
      <4> QED BY <4>1 DEF PhaseOf
    <3>5. CASE \/ ExecuteBegin(r) \/ ExecuteCommand(r) \/ ExecutePrompt(r)
               \/ ExecuteRead(r) \/ ReadWait(r)
      <4>1. /\ pc[r] \in {"new", "sending", "prompting", "loop"}
            /\ pc'[r] \in {"sending", "prompting", "loop", "wait"}
        BY <1>0, <3>5 DEF ExecuteBegin, ExecuteCommand, ExecutePrompt,
           ExecuteRead, ReadWait
      <4> QED BY <4>1 DEF PhaseOf
    <3>6. CASE \/ ExecuteSendFails(r) \/ ReadEof(r) \/ ReadTimeout(r)
               \/ ReadNoProc(r) \/ ReadClash(r)
      BY <3>6, LocalErrorType DEF ExecuteSendFails, AtDrain, ReadEof, ReadTimeout,
         ReadNoProc, ReadClash
    <3> QED BY <3>1, <3>2, <3>3, <3>4, <3>5, <3>6 DEF ExecStep
  <2>11. ASSUME NEW e \in Event, Yield(r, e) PROVE FALSE
    <3>1. out'[r] = Append(out[r], e)
      BY <1>0, <2>11 DEF Yield
    <3>2. Len(out'[r]) = Len(out[r]) + 1
      BY <1>0, <3>1
    <3> QED BY <1>0, <1>2, <3>2
  <2> QED BY <1>1, <2>6, <2>7, <2>8, <2>9, <2>10, <2>11
<1>3. CASE ~UNCHANGED out /\ ~ExecuteReject(r)
  <2>1. /\ pc[r] \in {"sending", "prompting", "loop", "wait"}
        /\ \E e \in Event : Yield(r, e)
    <3>1. CASE ReadLine(r)
      BY <1>0, <1>3, <3>1, ReadLineYields DEF ReadLine, Reading
    <3>2. CASE \/ ExecuteSendFails(r) \/ ReadEof(r) \/ ReadTimeout(r)
               \/ ReadNoProc(r) \/ ReadClash(r)
      BY <3>2, LocalErrorType DEF ExecuteSendFails, AtDrain, ReadEof, Reading,
         ReadTimeout, ReadNoProc, ReadClash
    <3>3. CASE \/ ExecuteBegin(r) \/ Cancel(r) \/ ExecuteCommand(r)
               \/ ExecutePrompt(r) \/ ExecuteRead(r) \/ ExecuteResume(r)
               \/ ReadWait(r) \/ Finalize(r)
      BY <1>3, <3>3 DEF ExecuteBegin, Cancel, ExecuteCommand, ExecutePrompt,
         ExecuteRead, ExecuteResume, ReadWait, Finalize
    <3> QED BY <1>3, <3>1, <3>2, <3>3 DEF ExecStep
  <2> QED BY <2>1, YieldRefines
<1> QED BY <1>1, <1>2, <1>3

LEMMA NextRefines == StreamInv /\ [Next]_vars => [Stream!Next]_(Stream!svars)
<1> SUFFICES ASSUME StreamInv, [Next]_vars
             PROVE  Stream!Next \/ UNCHANGED Stream!svars
  OBVIOUS
<1>1. CASE UNCHANGED execVars
  <2>1. UNCHANGED <<pc, out>>
    BY <1>1 DEF execVars
  <2> QED BY <2>1 DEF Stream!svars, PhaseOf, SentOf
<1> QED BY <1>1, ExecRefines, NotExecLeavesStreams

(* Every behaviour of the agent server gives its clients the streams that  *)
(* ExecuteStream promises.                                                 *)
THEOREM AgentImplementsStream == Spec => ImplementsStream
<1>1. Init => StreamInv
  BY InitTypeOK, InitStream DEF StreamInv
<1> QED BY <1>1, InitRefines, NextStream, NextRefines, PTL
    DEF Spec, ImplementsStream, Stream!Spec

(***************************************************************************)
(* An agent that nobody reloads                                            *)
(***************************************************************************)

(* The flag is up while an execution is in flight, unless stop() has taken *)
(* the process away, and then none can start; only the exiting server      *)
(* touches the process, and it waits for it to be gone.                    *)
SerialInv ==
  /\ TypeOK
  /\ \A r \in Exec : InFlight(r) => busy \/ proc = None
  /\ MutualExclusion
  /\ tk[Main] \in {"idle", "stopping", "draining", "exited"}
  /\ tk[Main] = "idle" => proc # None /\ alive \subseteq {proc}
  /\ tk[Main] # "idle" => proc = None
  /\ tk[Main] = "stopping" => alive \subseteq {victim[Main]}
  /\ tk[Main] \in {"draining", "exited"} => alive = {}

LEMMA InitSerial == Init => SerialInv
<1> SUFFICES ASSUME Init PROVE SerialInv
  OBVIOUS
<1>1. tk[Main] = "idle" /\ proc # None /\ alive = {proc}
  BY DEF Init, Task, None
<1>2. \A r \in Exec : ~InFlight(r)
  BY DEF Init, InFlight
<1> QED BY <1>1, <1>2, InitTypeOK DEF SerialInv, MutualExclusion

(* One execution: it starts only when none is in flight.                   *)
LEMMA ExecSerial ==
  ASSUME SerialInv, NEW r \in Exec,
         ExecuteReject(r) \/ ExecuteBegin(r) \/ Cancel(r) \/ ExecStep(r)
  PROVE  SerialInv'
<1>1. UNCHANGED <<proc, taskVars, alive>>
  BY DEF ExecuteReject, ExecuteBegin, Cancel, ExecStep, ExecuteCommand,
     ExecutePrompt, ExecuteRead, ExecuteSendFails, AtDrain, ExecuteResume,
     ReadWait, ReadLine, ReadEof, ReadTimeout, ReadNoProc, ReadClash, Finalize,
     agentVars, piVars
<1>2. pc \in [Exec -> ExecPC] /\ busy \in BOOLEAN
  BY DEF SerialInv, TypeOK, ExecType, AgentType
<1>3. \A q \in Exec \ {r} : pc'[q] = pc[q]
  BY OwnPc DEF SerialInv
<1>4. \/ InFlight(r)' /\ busy' /\ ~busy /\ proc # None
      \/ InFlight(r) /\ (InFlight(r)' => UNCHANGED busy)
      \/ ~InFlight(r)' /\ UNCHANGED busy
  BY <1>2 DEF InFlight, Reading, Running, ExecuteReject, ExecuteBegin, Cancel,
     ExecStep, ExecuteCommand, ExecutePrompt, ExecuteRead, ExecuteSendFails,
     AtDrain, ExecuteResume, ReadWait, ReadLine, ReadEof, ReadTimeout,
     ReadNoProc, ReadClash, Finalize, Yield, agentVars
<1>5. \A q \in Exec \ {r} : InFlight(q)' <=> InFlight(q)
  BY <1>3 DEF InFlight
<1>6. /\ \A q \in Exec : InFlight(q)' => busy' \/ proc' = None
      /\ MutualExclusion'
  BY <1>1, <1>4, <1>5 DEF SerialInv, MutualExclusion
<1> QED BY <1>1, <1>6, ExecTypeOK DEF SerialInv, taskVars

LEMMA MainSerial ==
  ASSUME SerialInv, Reload = {}, NEW t \in Task,
         StopBegin(t) \/ TaskStep(t) \/ CancelReload(t)
  PROVE  SerialInv'
<1>1. t = Main
  BY DEF Task
<1>2. TypeOK' /\ UNCHANGED execVars /\ tk \in [Task -> TaskPC]
      /\ victim \in [Task -> 0 .. MaxProc]
  BY TaskTypeOK DEF SerialInv, TypeOK, TaskType, StopBegin, TaskStep, StopWait,
     StopKill, Spawned, SpawnFails, CancelReload
<1>3. UNCHANGED MutualExclusion /\ \A r \in Exec : InFlight(r)' <=> InFlight(r)
  BY <1>2 DEF execVars, InFlight, MutualExclusion
<1>4. CASE StopBegin(Main)
  <2>1. proc # None /\ alive \subseteq {proc} /\ UNCHANGED alive
    BY <1>4 DEF StopBegin, SerialInv
  <2>2. proc' = None /\ victim'[Main] = proc
    BY <1>1, <1>2, <1>4, <2>1 DEF StopBegin
  <2>3. tk'[Main] = IF Running THEN "stopping" ELSE "draining"
    BY <1>1, <1>2, <1>4 DEF StopBegin, AfterStop
  <2> QED BY <1>2, <1>3, <2>1, <2>2, <2>3 DEF SerialInv, Running
<1>5. CASE StopWait(Main) \/ StopKill(Main)
  <2>1. /\ tk[Main] = "stopping" /\ tk'[Main] = "draining"
        /\ UNCHANGED agentVars
    BY <1>1, <1>2, <1>5 DEF StopWait, StopKill, AfterStop
  <2>2. alive' = {}
    BY <1>5, <2>1 DEF StopWait, StopKill, SerialInv, piVars
  <2> QED BY <1>2, <1>3, <2>1, <2>2 DEF SerialInv, agentVars
<1>6. ~Spawned(Main) /\ ~SpawnFails(Main) /\ ~CancelReload(Main)
  BY DEF Spawned, SpawnFails, CancelReload, SerialInv
<1> QED BY <1>1, <1>4, <1>5, <1>6 DEF TaskStep

LEMMA NextSerial ==
  ASSUME Reload = {} PROVE SerialInv /\ [Next]_vars => SerialInv'
<1> SUFFICES ASSUME SerialInv, [Next]_vars PROVE SerialInv'
  OBVIOUS
<1>0. TypeOK'
  BY NextTypeOK DEF SerialInv
<1>1. CASE UNCHANGED vars
  BY <1>0, <1>1 DEF vars, agentVars, execVars, taskVars, piVars, SerialInv,
     MutualExclusion, InFlight
<1>2. CASE ShutdownExit
  <2>1. tk[Main] = "draining" /\ tk'[Main] = "exited"
    BY <1>2 DEF ShutdownExit, SerialInv, TypeOK, TaskType, Task
  <2> QED BY <1>0, <1>2, <2>1 DEF ShutdownExit, agentVars, execVars, piVars,
         SerialInv, MutualExclusion, InFlight
<1>3. CASE \E p \in Proc : PiStep(p)
  <2>1. /\ UNCHANGED <<agentVars, execVars, taskVars>> /\ alive' \subseteq alive
    BY <1>3 DEF PiStep, PiTake, PiEmit, PiEnd, PiExit
  <2> QED BY <1>0, <2>1 DEF agentVars, execVars, taskVars, SerialInv,
         MutualExclusion, InFlight
<1> QED BY <1>1, <1>2, <1>3, ExecSerial, MainSerial DEF Next

(* While nothing reloads the agent the busy flag is a lock: at most one    *)
(* execution holds pi, whatever the executions await in between.           *)
THEOREM BusyIsALock == ASSUME Reload = {} PROVE Spec => []MutualExclusion
<1>1. SerialInv => MutualExclusion
  BY DEF SerialInv
<1>2. SerialInv /\ [Next]_vars => SerialInv'
  BY NextSerial
<1> QED BY <1>1, <1>2, InitSerial, PTL DEF Spec

(* Who is about to write its prompt wrote the last command, its set_model. *)
ModelOf(r) == [cmd |-> "set_model", of |-> r]

PromptInv ==
  /\ PromptUnderOwnModel
  /\ \A r \in Exec : pc[r] = "sending" /\ proc # None =>
       /\ inbox[proc] # <<>>
       /\ inbox[proc][Len(inbox[proc])] = ModelOf(r)

(* What a command at the end of pi's stdin does to those before it.        *)
LEMMA AppendCommand ==
  ASSUME NEW s \in Seq(Command), NEW c \in Command
  PROVE  /\ Append(s, c) # <<>> /\ Append(s, c)[Len(Append(s, c))] = c
         /\ Len(s) \in Nat /\ DOMAIN Append(s, c) = 1 .. (Len(s) + 1)
         /\ Append(s, c)[Len(s) + 1] = c
         /\ \A i \in 1 .. Len(s) : i \in DOMAIN s /\ Append(s, c)[i] = s[i]
BY AppendProperties, LenProperties

LEMMA BeginPrompt ==
  ASSUME SerialInv, PromptInv, NEW r \in Exec, ExecuteBegin(r)
  PROVE  PromptInv'
<1>1. /\ proc # None /\ proc \in Proc /\ proc' = proc
      /\ inbox' = [inbox EXCEPT ![proc] = Append(@, ModelOf(r))]
      /\ pc' = [pc EXCEPT ![r] = "sending"]
  BY Bounds DEF ExecuteBegin, Running, Send, ModelOf, SerialInv, TypeOK,
     AgentType, Proc
<1>2. \A q \in Exec \ {r} : pc[q] # "sending" /\ pc'[q] = pc[q]
  BY <1>1 DEF ExecuteBegin, SerialInv, InFlight, TypeOK, ExecType
<1>3. /\ inbox \in [Proc -> Seq(Command)] /\ ModelOf(r) \in Command
      /\ inbox[proc] \in Seq(Command)
  BY <1>1 DEF SerialInv, TypeOK, PiType, ModelOf, Command
<1> DEFINE s == inbox[proc]
<1>4. inbox'[proc] = Append(s, ModelOf(r))
      /\ \A p \in Proc : p # proc => inbox'[p] = inbox[p]
  BY <1>1, <1>3
<1>5. PromptUnderOwnModel'
  <2> SUFFICES ASSUME NEW p \in Proc, NEW i \in DOMAIN inbox'[p],
                      inbox'[p][i].cmd = "prompt"
               PROVE  /\ i > 1
                      /\ inbox'[p][i - 1] = [cmd |-> "set_model", of |-> inbox'[p][i].of]
    BY DEF PromptUnderOwnModel
  <2>1. CASE p # proc
    BY <1>4, <2>1 DEF PromptInv, PromptUnderOwnModel
  <2>2. CASE p = proc
    <3>1. Len(s) \in Nat /\ i \in 1 .. (Len(s) + 1)
      BY <1>3, <1>4, <2>2, AppendCommand
    <3>2. i # Len(s) + 1
      <4>1. inbox'[proc][Len(s) + 1] = ModelOf(r)
        BY <1>3, <1>4, AppendCommand
      <4> QED BY <2>2, <4>1 DEF ModelOf
    <3>3. i \in 1 .. Len(s)
      BY <3>1, <3>2
    <3>4. i \in DOMAIN s /\ inbox'[p][i] = s[i]
      BY <1>3, <1>4, <2>2, <3>3, AppendCommand
    <3>5. i > 1 /\ s[i - 1] = [cmd |-> "set_model", of |-> s[i].of]
      BY <1>1, <3>4 DEF PromptInv, PromptUnderOwnModel
    <3>6. inbox'[p][i - 1] = s[i - 1]
      <4>1. i - 1 \in 1 .. Len(s)
        BY <3>1, <3>3, <3>5
      <4> QED BY <1>3, <1>4, <2>2, <4>1, AppendCommand
    <3> QED BY <3>4, <3>5, <3>6
  <2> QED BY <2>1, <2>2
<1>6. inbox'[proc] # <<>> /\ inbox'[proc][Len(inbox'[proc])] = ModelOf(r)
  BY <1>3, <1>4, AppendCommand
<1> QED BY <1>1, <1>2, <1>5, <1>6 DEF PromptInv

LEMMA WritePrompt ==
  ASSUME SerialInv, PromptInv, NEW r \in Exec, ExecutePrompt(r)
  PROVE  PromptInv'
<1> DEFINE s == inbox[proc]
           c == [cmd |-> "prompt", of |-> r]
<1>1. /\ pc[r] = "sending" /\ pc' = [pc EXCEPT ![r] = "prompting"]
      /\ proc' = proc /\ proc # None
  BY DEF ExecutePrompt, agentVars
<1>2. \A q \in Exec : pc'[q] # "sending"
  BY <1>1 DEF SerialInv, MutualExclusion, InFlight, TypeOK, ExecType
<1>3. proc \in Proc /\ inbox' = [inbox EXCEPT ![proc] = Append(@, c)]
  BY <1>1, Bounds DEF ExecutePrompt, Send, SerialInv, TypeOK, AgentType, Proc
<1>4. inbox \in [Proc -> Seq(Command)] /\ c \in Command /\ s \in Seq(Command)
  BY <1>3 DEF SerialInv, TypeOK, PiType, Command
<1>5. inbox'[proc] = Append(s, c) /\ \A p \in Proc : p # proc => inbox'[p] = inbox[p]
  BY <1>3, <1>4
<1>6. s # <<>> /\ s[Len(s)] = ModelOf(r)
  BY <1>1 DEF PromptInv
<1> SUFFICES ASSUME NEW p \in Proc, NEW i \in DOMAIN inbox'[p],
                    inbox'[p][i].cmd = "prompt"
             PROVE  /\ i > 1
                    /\ inbox'[p][i - 1] = [cmd |-> "set_model", of |-> inbox'[p][i].of]
  BY <1>2 DEF PromptInv, PromptUnderOwnModel
<1>7. CASE p # proc
  BY <1>5, <1>7 DEF PromptInv, PromptUnderOwnModel
<1>8. CASE p = proc
  <2>1. Len(s) \in Nat /\ i \in 1 .. (Len(s) + 1) /\ Len(s) >= 1
    <3>1. Len(s) \in Nat /\ i \in 1 .. (Len(s) + 1)
      BY <1>4, <1>5, <1>8, AppendCommand
    <3>2. Len(s) # 0
      BY <1>4, <1>6, EmptySeq
    <3> QED BY <3>1, <3>2
  <2>2. CASE i = Len(s) + 1
    <3>1. inbox'[p][i] = c
      BY <1>4, <1>5, <1>8, <2>2, AppendCommand
    <3>2. i - 1 = Len(s) /\ i > 1 /\ Len(s) \in 1 .. Len(s)
      BY <2>1, <2>2
    <3>3. inbox'[p][i - 1] = s[Len(s)]
      BY <1>4, <1>5, <1>8, <3>2, AppendCommand
    <3> QED BY <1>6, <3>1, <3>2, <3>3 DEF ModelOf
  <2>3. CASE i # Len(s) + 1
    <3>1. i \in 1 .. Len(s)
      BY <2>1, <2>3
    <3>2. i \in DOMAIN s /\ inbox'[p][i] = s[i]
      BY <1>4, <1>5, <1>8, <3>1, AppendCommand
    <3>3. i > 1 /\ s[i - 1] = [cmd |-> "set_model", of |-> s[i].of]
      BY <1>3, <1>8, <3>2 DEF PromptInv, PromptUnderOwnModel
    <3>4. i - 1 \in 1 .. Len(s)
      BY <2>1, <3>1, <3>3
    <3>5. inbox'[p][i - 1] = s[i - 1]
      BY <1>4, <1>5, <1>8, <3>4, AppendCommand
    <3> QED BY <3>2, <3>3, <3>5
  <2> QED BY <2>2, <2>3
<1> QED BY <1>7, <1>8

LEMMA NextPrompt ==
  ASSUME Reload = {} PROVE SerialInv /\ PromptInv /\ [Next]_vars => PromptInv'
<1> SUFFICES ASSUME SerialInv, PromptInv, [Next]_vars PROVE PromptInv'
  OBVIOUS
<1>1. CASE \E r \in Exec : ExecuteBegin(r) \/ ExecutePrompt(r)
  BY <1>1, BeginPrompt, WritePrompt
<1>2. CASE ~\E r \in Exec : ExecuteBegin(r) \/ ExecutePrompt(r)
  <2>1. inbox' = inbox
    BY <1>2 DEF Next, ExecuteReject, Cancel, ExecStep, ExecuteCommand,
       ExecuteRead, ExecuteSendFails, AtDrain, ExecuteResume,
       ReadWait, ReadLine, ReadEof, ReadTimeout, ReadNoProc, ReadClash, Finalize,
       StopBegin, TaskStep, StopWait, StopKill, Spawned, SpawnFails, CancelReload,
       ShutdownExit, PiStep, PiTake, PiEmit, PiEnd, PiExit, vars, piVars
  <2>2. \A r \in Exec : pc'[r] = "sending" => pc[r] = "sending"
    <3>1. pc \in [Exec -> ExecPC]
      BY DEF SerialInv, TypeOK, ExecType
    <3>2. ASSUME NEW r \in Exec, ReadLine(r)
          PROVE  \E l \in {"loop", "yield"} : pc' = [pc EXCEPT ![r] = l]
      BY <3>2 DEF ReadLine, Yield
    <3>3. CASE ~\E r \in Exec : ReadLine(r)
      BY <1>2, <3>1, <3>3 DEF Next, ExecuteReject, Cancel, ExecStep,
         ExecuteCommand, ExecuteRead, ExecuteSendFails, AtDrain, ExecuteResume,
         ReadWait, ReadEof, ReadTimeout, ReadNoProc, ReadClash, Finalize, Yield,
         StopBegin, TaskStep, StopWait, StopKill, Spawned, SpawnFails,
         CancelReload, ShutdownExit, PiStep, PiTake, PiEmit, PiEnd, PiExit,
         vars, execVars
    <3> QED BY <3>1, <3>2, <3>3
  <2>3. proc' = proc \/ proc' = None
    <3>1. ~\E t \in Task : Spawned(t)
      BY DEF Spawned, SerialInv, Task
    <3> QED BY <1>2, <3>1 DEF Next, ExecuteReject, Cancel, ExecStep,
       ExecuteCommand, ExecuteRead, ExecuteSendFails, AtDrain, ExecuteResume,
       ReadWait, ReadLine, ReadEof, ReadTimeout, ReadNoProc, ReadClash,
       Finalize, StopBegin, TaskStep, StopWait, StopKill, SpawnFails,
       CancelReload, ShutdownExit, PiStep, PiTake, PiEmit, PiEnd, PiExit, vars,
       agentVars
  <2> QED BY <2>1, <2>2, <2>3 DEF PromptInv, PromptUnderOwnModel
<1> QED BY <1>1, <1>2

(* No prompt runs under a model that another client chose, while nothing   *)
(* reloads the agent.                                                      *)
THEOREM OwnModel == ASSUME Reload = {} PROVE Spec => []PromptUnderOwnModel
<1>1. Init => PromptInv
  <2> SUFFICES ASSUME Init PROVE PromptInv
    OBVIOUS
  <2>1. \A p \in Proc : DOMAIN inbox[p] = {}
    BY DEF Init
  <2>2. \A r \in Exec : pc[r] # "sending"
    BY DEF Init
  <2> QED BY <2>1, <2>2 DEF PromptInv, PromptUnderOwnModel
<1>2. SerialInv /\ PromptInv /\ [Next]_vars => (SerialInv /\ PromptInv)'
  BY NextSerial, NextPrompt
<1>3. PromptInv => PromptUnderOwnModel
  BY DEF PromptInv
<1> QED BY <1>1, <1>2, <1>3, InitSerial, PTL DEF Spec

(***************************************************************************)
(* Whose output a client is shown                                          *)
(***************************************************************************)

(* Without reloads there is one pi process, number 1.  The prompt of q is  *)
(* on its stdin, is being answered, has lines on stdout, or is over.       *)
PromptOf(q) == [cmd |-> "prompt", of |-> q]
Waiting(q) == \E i \in DOMAIN inbox[1] : i > taken[1] /\ inbox[1][i] = PromptOf(q)
Unanswered(q) == Waiting(q) \/ cur[1] = q
LineOf(q) == \E i \in DOMAIN outbox[1] : outbox[1][i].of = q
Closing(l) == l.kind \in {"agent_end", "error"}

OnePi == /\ proc \in {None, 1} /\ alive \subseteq {1}
         /\ \A r \in Exec : peer[r] \in {None, 1}

(* An execution that has not sent its prompt left no trace of one.         *)
NoTraceBefore ==
  \A q \in Exec : pc[q] \in {"new", "sending"} =>
    /\ \A i \in DOMAIN inbox[1] : inbox[1][i] # PromptOf(q)
    /\ cur[1] # q /\ ~LineOf(q)
    /\ \A r \in Exec : \A i \in DOMAIN out[r] : out[r][i].of # q

(* It sends one prompt, and pi answers it once.                            *)
OnePrompt ==
  /\ \A i, j \in DOMAIN inbox[1] :
       inbox[1][i].cmd = "prompt" /\ inbox[1][j] = inbox[1][i] => i = j
  /\ \A q \in Exec : cur[1] = q => ~Waiting(q)

(* The line that closes an answer is the last line of that answer.         *)
ClosingIsLast ==
  \A i \in DOMAIN outbox[1] : Closing(outbox[1][i]) =>
    /\ ~Unanswered(outbox[1][i].of)
    /\ \A j \in DOMAIN outbox[1] : j > i => outbox[1][j].of # outbox[1][i].of

(* Who has read its own last line left nothing for others to read.         *)
NoTraceAfter ==
  \A q \in Exec : out[q] # <<>> /\ Terminal(Last(out[q])) /\ Last(out[q]).of = q =>
    ~Unanswered(q) /\ ~LineOf(q)

TraceInv == /\ OnePi /\ NoTraceBefore /\ OnePrompt /\ ClosingIsLast /\ NoTraceAfter
            /\ ForeignOutputOnlyFromAbandoned

PipeInv == SerialInv /\ StreamInv /\ TraceInv

LEMMA InitTrace == Init => TraceInv
<1> SUFFICES ASSUME Init PROVE TraceInv
  OBVIOUS
<1>1. 1 \in Proc
  BY Bounds DEF Proc
<1>2. inbox[1] = <<>> /\ outbox[1] = <<>> /\ cur[1] = NoReq
  BY <1>1 DEF Init
<1>3. DOMAIN inbox[1] = {} /\ DOMAIN outbox[1] = {}
  BY <1>2
<1>4. ASSUME NEW r \in Exec PROVE out[r] = <<>> /\ DOMAIN out[r] = {}
  <2>1. out[r] = <<>>
    BY DEF Init
  <2> QED BY <2>1
<1>5. \A q \in Exec : ~LineOf(q) /\ ~Unanswered(q)
  BY <1>2, <1>3, NamesAssumption DEF LineOf, Unanswered, Waiting
<1>6. OnePi
  BY DEF Init, OnePi
<1>7. NoTraceBefore /\ OnePrompt /\ ClosingIsLast /\ NoTraceAfter
  BY <1>2, <1>3, <1>4, <1>5
  DEF NoTraceBefore, OnePrompt, ClosingIsLast, NoTraceAfter, Unanswered
<1>8. ForeignOutputOnlyFromAbandoned
  BY <1>4 DEF ForeignOutputOnlyFromAbandoned
<1> QED BY <1>6, <1>7, <1>8 DEF TraceInv

(* Nothing but a reload spawns a second process.                           *)
LEMMA NextOnePi ==
  ASSUME Reload = {}, SerialInv, OnePi, [Next]_vars
  PROVE  OnePi'
<1>1. proc' \in {proc, None}
  <2>1. ~\E t \in Task : Spawned(t)
    BY DEF Spawned, SerialInv, Task
  <2> QED BY <2>1 DEF Next, ExecuteReject, ExecuteBegin, Cancel, ExecStep,
     ExecuteCommand, ExecutePrompt, ExecuteRead, ExecuteSendFails, AtDrain,
     ExecuteResume, ReadWait, ReadLine, ReadEof, ReadTimeout, ReadNoProc,
     ReadClash, Finalize, StopBegin, TaskStep, StopWait, StopKill, SpawnFails,
     CancelReload, ShutdownExit, PiStep, PiTake, PiEmit, PiEnd, PiExit, vars,
     agentVars
<1>2. alive' \subseteq alive
  <2>1. ~\E t \in Task : Spawned(t)
    BY DEF Spawned, SerialInv, Task
  <2> QED BY <2>1 DEF Next, ExecuteReject, ExecuteBegin, Cancel, ExecStep,
     ExecuteCommand, ExecutePrompt, ExecuteRead, ExecuteSendFails, AtDrain,
     ExecuteResume, ReadWait, ReadLine, ReadEof, ReadTimeout, ReadNoProc,
     ReadClash, Finalize, StopBegin, TaskStep, StopWait, StopKill, SpawnFails,
     CancelReload, ShutdownExit, PiStep, PiTake, PiEmit, PiEnd, PiExit, vars,
     piVars
<1>3. \A r \in Exec : peer'[r] \in {peer[r], None, proc}
  <2>1. peer \in [Exec -> 0 .. MaxProc]
    BY DEF SerialInv, TypeOK, ExecType
  <2>2. ASSUME NEW r \in Exec, ReadLine(r)
        PROVE  peer' = [peer EXCEPT ![r] = None]
    BY <2>2 DEF ReadLine, Yield
  <2>3. CASE ~\E r \in Exec : ReadLine(r)
    BY <2>1, <2>3 DEF Next, ExecuteReject, ExecuteBegin, Cancel, ExecStep,
       ExecuteCommand, ExecutePrompt, ExecuteRead, ExecuteSendFails, AtDrain,
       ExecuteResume, ReadWait, ReadEof, ReadTimeout, ReadNoProc, ReadClash,
       Finalize, Yield, StopBegin, TaskStep, StopWait, StopKill, Spawned,
       SpawnFails, CancelReload, ShutdownExit, PiStep, PiTake, PiEmit, PiEnd,
       PiExit, vars, execVars
  <2> QED BY <2>1, <2>2, <2>3
<1> QED BY <1>1, <1>2, <1>3 DEF OnePi

(* A step of r that consumes at most the first line of stdout and yields e *)
(* or nothing: what it must show about e for the invariant to hold after.  *)
QuietStep(r) ==
  /\ UNCHANGED <<inbox, taken, cur>>
  /\ pc[r] \notin {"done", "cancelled"} /\ pc'[r] \notin {"new", "sending"}
  /\ \A q \in Exec \ {r} : pc'[q] = pc[q] /\ out'[q] = out[q]
  /\ \A q \in Exec : LineOf(q)' => LineOf(q)
  /\ ClosingIsLast'

YieldsFairly(r, e) ==
  /\ e \in Event /\ out'[r] = Append(out[r], e)
  /\ e.of = NoReq \/ LineOf(e.of)
  /\ e.of = r /\ Terminal(e) => ~Unanswered(r) /\ ~LineOf(r)'
  /\ e.of \notin {r, NoReq} => \/ pc[e.of] = "cancelled"
                               \/ pc[e.of] = "done" /\ Last(out[e.of]).of # e.of

(* Nobody was shown a line of an execution that is still under way.        *)
LEMMA UnderWayUnshown ==
  ASSUME ForeignOutputOnlyFromAbandoned, NEW r \in Exec,
         pc[r] \notin {"done", "cancelled"},
         NEW s \in Exec \ {r}, NEW i \in DOMAIN out[s]
  PROVE  out[s][i].of # r
BY NamesAssumption DEF ForeignOutputOnlyFromAbandoned

LEMMA QuietTrace ==
  ASSUME PipeInv, OnePi', NEW r \in Exec, QuietStep(r),
         \/ out'[r] = out[r]
         \/ \E e \in Event : YieldsFairly(r, e)
  PROVE  TraceInv'
<1>0. /\ OnePi /\ NoTraceBefore /\ OnePrompt /\ NoTraceAfter
      /\ ForeignOutputOnlyFromAbandoned
      /\ out \in [Exec -> Seq(Event)] /\ out[r] \in Seq(Event)
  BY DEF PipeInv, TraceInv, StreamInv, TypeOK, ExecType
<1>1. \A q \in Exec : /\ Waiting(q)' <=> Waiting(q)
                      /\ Unanswered(q)' <=> Unanswered(q)
  BY DEF QuietStep, Waiting, Unanswered
<1>2. OnePrompt'
  BY <1>0, <1>1 DEF QuietStep, OnePrompt
<1>3. \A i \in DOMAIN out'[r] : \/ i \in DOMAIN out[r] /\ out'[r][i] = out[r][i]
                                \/ YieldsFairly(r, out'[r][i]) /\ i = Len(out'[r])
  <2>1. CASE out'[r] = out[r]
    BY <2>1
  <2>2. ASSUME NEW e \in Event, YieldsFairly(r, e),
               NEW i \in DOMAIN out'[r]
        PROVE  \/ i \in DOMAIN out[r] /\ out'[r][i] = out[r][i]
               \/ YieldsFairly(r, out'[r][i]) /\ i = Len(out'[r])
    <3>1. out'[r] = Append(out[r], e)
      BY <2>2 DEF YieldsFairly
    <3>2. /\ DOMAIN out'[r] = 1 .. (Len(out[r]) + 1) /\ Len(out[r]) \in Nat
          /\ Len(out'[r]) = Len(out[r]) + 1 /\ out'[r][Len(out[r]) + 1] = e
          /\ DOMAIN out[r] = 1 .. Len(out[r])
          /\ \A j \in 1 .. Len(out[r]) : out'[r][j] = out[r][j]
      BY <1>0, <3>1
    <3>3. i = Len(out[r]) + 1 \/ i \in 1 .. Len(out[r])
      BY <3>2
    <3> QED BY <2>2, <3>2, <3>3
  <2> QED BY <2>1, <2>2
<1>4. NoTraceBefore'
  <2> SUFFICES ASSUME NEW q \in Exec, pc'[q] \in {"new", "sending"}
               PROVE  (/\ \A i \in DOMAIN inbox[1] : inbox[1][i] # PromptOf(q)
                       /\ cur[1] # q /\ ~LineOf(q)
                       /\ \A s \in Exec : \A i \in DOMAIN out[s] : out[s][i].of # q)'
    BY DEF NoTraceBefore
  <2>1. q # r /\ pc[q] \in {"new", "sending"}
    BY DEF QuietStep
  <2>2. /\ \A i \in DOMAIN inbox[1] : inbox[1][i] # PromptOf(q)
        /\ cur[1] # q /\ ~LineOf(q)
        /\ \A s \in Exec : \A i \in DOMAIN out[s] : out[s][i].of # q
    BY <1>0, <2>1 DEF NoTraceBefore
  <2>3. ASSUME NEW i \in DOMAIN out'[r] PROVE out'[r][i].of # q
    <3>1. CASE YieldsFairly(r, out'[r][i])
      BY <2>2, <3>1, NamesAssumption DEF YieldsFairly
    <3> QED BY <1>3, <2>2, <3>1
  <2>4. ASSUME NEW s \in Exec \ {r}, NEW i \in DOMAIN out'[s] PROVE out'[s][i].of # q
    BY <2>2 DEF QuietStep
  <2> QED BY <2>2, <2>3, <2>4 DEF QuietStep
<1>5. NoTraceAfter'
  <2> SUFFICES ASSUME NEW q \in Exec, out'[q] # <<>>, Terminal(Last(out'[q])),
                      Last(out'[q]).of = q
               PROVE  ~Unanswered(q)' /\ ~LineOf(q)'
    BY DEF NoTraceAfter, Last, Terminal
  <2>1. CASE out'[q] = out[q]
    BY <1>0, <1>1, <2>1 DEF NoTraceAfter, QuietStep
  <2>2. CASE out'[q] # out[q]
    <3>1. q = r
      BY <2>2 DEF QuietStep
    <3>2. PICK e \in Event : YieldsFairly(r, e)
      BY <2>2, <3>1
    <3>3. Last(out'[r]) = e
      BY <1>0, <3>2 DEF YieldsFairly, Last
    <3> QED BY <1>1, <3>1, <3>2, <3>3 DEF YieldsFairly
  <2> QED BY <2>1, <2>2
<1>6. ForeignOutputOnlyFromAbandoned'
  <2> SUFFICES ASSUME NEW s \in Exec, NEW i \in DOMAIN out'[s],
                      out'[s][i].of \notin {s, NoReq}
               PROVE  \/ pc'[out'[s][i].of] = "cancelled"
                      \/ /\ pc'[out'[s][i].of] = "done"
                         /\ Last(out'[out'[s][i].of]).of # out'[s][i].of
    BY DEF ForeignOutputOnlyFromAbandoned, Last
  <2> DEFINE q == out'[s][i].of
  <2>1. q \in Exec
    <3>1. out'[s][i] \in Event
      BY <1>0, <1>3 DEF QuietStep, YieldsFairly
    <3> QED BY <3>1 DEF Event
  <2>2. CASE s = r /\ YieldsFairly(r, out'[r][i])
    BY <2>1, <2>2 DEF YieldsFairly, QuietStep
  <2>3. CASE i \in DOMAIN out[s] /\ out'[s][i] = out[s][i]
    <3>1. q # r
      BY <1>0, <2>3, UnderWayUnshown DEF QuietStep
    <3>2. \/ pc[q] = "cancelled"
          \/ pc[q] = "done" /\ Last(out[q]).of # q
      BY <1>0, <2>3 DEF ForeignOutputOnlyFromAbandoned
    <3> QED BY <2>1, <3>1, <3>2 DEF QuietStep
  <2> QED BY <1>3, <2>2, <2>3 DEF QuietStep
<1> QED BY <1>2, <1>4, <1>5, <1>6 DEF TraceInv, QuietStep

(* Reading the first line of stdout.                                       *)
LEMMA TailLines ==
  ASSUME ClosingIsLast, outbox[1] \in Seq(Line), outbox[1] # <<>>,
         outbox'[1] = Tail(outbox[1]), UNCHANGED <<inbox, taken, cur>>
  PROVE  /\ ClosingIsLast'
         /\ \A q \in Exec : LineOf(q)' => LineOf(q)
         /\ LineOf(Head(outbox[1]).of)
         /\ \A q \in Exec : Closing(Head(outbox[1])) /\ Head(outbox[1]).of = q =>
              ~Unanswered(q) /\ ~LineOf(q)'
<1> DEFINE s == outbox[1]
           n == Len(s)
<1>1. /\ n \in Nat /\ n >= 1 /\ DOMAIN s = 1 .. n
      /\ DOMAIN outbox'[1] = 1 .. (n - 1)
      /\ \A i \in 1 .. (n - 1) : outbox'[1][i] = s[i + 1]
      /\ Head(s) = s[1]
  <2>1. n \in Nat /\ DOMAIN s = 1 .. n
    BY LenProperties
  <2>2. n # 0
    BY EmptySeq
  <2>3. /\ Head(s) = s[1] /\ Len(Tail(s)) = n - 1 /\ Tail(s) \in Seq(Line)
        /\ \A i \in 1 .. (n - 1) : Tail(s)[i] = s[i + 1]
    BY HeadTailProperties
  <2>4. DOMAIN Tail(s) = 1 .. (n - 1)
    BY <2>3, LenProperties
  <2> QED BY <2>1, <2>2, <2>3, <2>4
<1> HIDE DEF n
<1>2. \A i \in 1 .. (n - 1) : i + 1 \in 1 .. n /\ i + 1 > 1
  BY <1>1
<1>4. ClosingIsLast'
  <2> SUFFICES ASSUME NEW i \in DOMAIN outbox'[1], Closing(outbox[1][i])'
               PROVE  (/\ ~Unanswered(outbox[1][i].of)
                       /\ \A j \in DOMAIN outbox[1] :
                            j > i => outbox[1][j].of # outbox[1][i].of)'
    BY DEF ClosingIsLast
  <2>1. i \in 1 .. (n - 1) /\ outbox'[1][i] = s[i + 1]
    BY <1>1
  <2>2. Closing(s[i + 1])
    BY <2>1 DEF Closing
  <2>3. /\ ~Unanswered(s[i + 1].of)
        /\ \A j \in 1 .. n : j > i + 1 => s[j].of # s[i + 1].of
    BY <1>1, <1>2, <2>1, <2>2 DEF ClosingIsLast
  <2>4. ~Unanswered(outbox[1][i].of)'
    BY <2>1, <2>3 DEF Unanswered, Waiting, PromptOf
  <2>5. \A j \in 1 .. (n - 1) : j > i => j + 1 > i + 1
    BY <1>1, <2>1
  <2> QED BY <1>1, <1>2, <2>1, <2>3, <2>4, <2>5
<1>5. \A q \in Exec : LineOf(q)' => LineOf(q)
  BY <1>1, <1>2 DEF LineOf
<1>6. 1 \in DOMAIN s
  BY <1>1
<1>7. LineOf(Head(s).of)
  BY <1>1, <1>6 DEF LineOf
<1>8. ASSUME NEW q \in Exec, Closing(Head(s)), Head(s).of = q
      PROVE  ~Unanswered(q) /\ ~LineOf(q)'
  <2>1. /\ ~Unanswered(q)
        /\ \A j \in 1 .. n : j > 1 => s[j].of # q
    BY <1>1, <1>6, <1>8 DEF ClosingIsLast
  <2> QED BY <1>1, <1>2, <2>1 DEF LineOf
<1> QED BY <1>4, <1>5, <1>7, <1>8

LEMMA ReadLineTrace ==
  ASSUME PipeInv, OnePi', NEW r \in Exec, ReadLine(r)
  PROVE  TraceInv'
<1> DEFINE l == Head(outbox[1])
           e == [of |-> l.of, type |-> EventType[l.kind]]
<1>0. /\ TypeOK /\ OnePi /\ ClosingIsLast /\ NoTraceBefore /\ NoTraceAfter
      /\ MutualExclusion /\ StreamOf(r) /\ 1 \in Proc
      /\ pc \in [Exec -> ExecPC] /\ out \in [Exec -> Seq(Event)]
  BY Bounds DEF PipeInv, TraceInv, SerialInv, StreamInv, TypeOK, ExecType, Proc
<1>1. Source(r) = 1 /\ outbox[1] # <<>> /\ pc[r] \in {"loop", "wait"}
  BY <1>0 DEF ReadLine, Reading, Source, OnePi
<1>2. outbox[1] \in Seq(Line) /\ outbox'[1] = Tail(outbox[1]) /\ l \in Line
  BY <1>0, <1>1 DEF ReadLine, TypeOK, PiType
<1>3. UNCHANGED <<inbox, taken, cur>>
  BY DEF ReadLine
<1>4. /\ ClosingIsLast'
      /\ \A q \in Exec : LineOf(q)' => LineOf(q)
      /\ LineOf(l.of)
      /\ Closing(l) /\ l.of = r => ~Unanswered(r) /\ ~LineOf(r)'
  BY <1>0, <1>1, <1>2, <1>3, TailLines
<1>5. CASE l.kind = "noise"
  <2>1. pc' = [pc EXCEPT ![r] = "loop"] /\ out' = out
    BY <1>1, <1>5 DEF ReadLine
  <2>2. QuietStep(r)
    BY <1>0, <1>1, <1>3, <1>4, <2>1 DEF QuietStep
  <2> QED BY <2>1, <2>2, QuietTrace
<1>6. ASSUME NEW x, Yield(r, x)
      PROVE  QuietStep(r) /\ out'[r] = Append(out[r], x)
  BY <1>0, <1>1, <1>3, <1>4, <1>6 DEF QuietStep, Yield
<1>7. CASE l.kind = "broken"
  <2>1. QuietStep(r) /\ out'[r] = Append(out[r], LocalError)
    BY <1>1, <1>6, <1>7 DEF ReadLine
  <2>2. YieldsFairly(r, LocalError)
    BY <2>1, LocalErrorType, NamesAssumption DEF YieldsFairly, LocalError
  <2> QED BY <2>1, <2>2, LocalErrorType, QuietTrace
<1>8. CASE l.kind \notin {"noise", "broken"}
  <2>1. QuietStep(r) /\ out'[r] = Append(out[r], e)
    BY <1>1, <1>6, <1>8 DEF ReadLine
  <2>2. e \in Event /\ (Terminal(e) => Closing(l)) /\ e.of = l.of /\ l.of \in Exec
    BY <1>2, <1>8 DEF Event, EventType, Line, LineKind, Terminal, Closing
  <2>3. ASSUME l.of # r
        PROVE  \/ pc[l.of] = "cancelled"
               \/ pc[l.of] = "done" /\ Last(out[l.of]).of # l.of
    <3>1. pc[l.of] \notin {"new", "sending"}
      BY <1>0, <1>4, <2>2 DEF NoTraceBefore
    <3>2. ~InFlight(l.of)
      BY <1>0, <1>1, <2>2, <2>3 DEF MutualExclusion, InFlight
    <3>3. pc[l.of] \in {"done", "cancelled"}
      BY <1>0, <2>2, <3>1, <3>2 DEF InFlight, ExecPC
    <3>4. pc[l.of] = "done" => out[l.of] # <<>> /\ Terminal(Last(out[l.of]))
      BY <2>2 DEF PipeInv, StreamInv, StreamOf
    <3>5. pc[l.of] = "done" => Last(out[l.of]).of # l.of
      BY <1>0, <1>4, <2>2, <3>4 DEF NoTraceAfter
    <3> QED BY <3>3, <3>5
  <2>4. YieldsFairly(r, e)
    <3> HIDE DEF e
    <3> QED BY <1>4, <2>1, <2>2, <2>3 DEF YieldsFairly
  <2> QED BY <2>1, <2>2, <2>4, QuietTrace
<1> QED BY <1>5, <1>7, <1>8

(* The other steps of an execution that write nothing to pi.               *)
LEMMA SilentTrace ==
  ASSUME PipeInv, OnePi', NEW r \in Exec,
         \/ ExecuteReject(r) \/ Cancel(r) \/ ExecuteRead(r) \/ ExecuteSendFails(r)
         \/ ExecuteResume(r) \/ ReadWait(r) \/ ReadEof(r) \/ ReadTimeout(r) \/ ReadNoProc(r)
         \/ ReadClash(r) \/ Finalize(r)
  PROVE  TraceInv'
<1>0. /\ ClosingIsLast
      /\ pc \in [Exec -> ExecPC] /\ out \in [Exec -> Seq(Event)]
  BY DEF PipeInv, TraceInv, StreamInv, TypeOK, ExecType
<1>1. UNCHANGED <<inbox, taken, cur, outbox>>
  BY DEF ExecuteReject, Cancel, ExecuteRead, ExecuteSendFails, ExecuteResume,
     ReadWait, ReadEof, ReadTimeout, ReadNoProc, ReadClash, Finalize, piVars
<1>2. ClosingIsLast' /\ \A q \in Exec : LineOf(q)' => LineOf(q)
  BY <1>0, <1>1 DEF ClosingIsLast, LineOf, Unanswered, Waiting
<1>3. /\ pc[r] \notin {"done", "cancelled"} /\ pc'[r] \notin {"new", "sending"}
      /\ \A q \in Exec \ {r} : pc'[q] = pc[q] /\ out'[q] = out[q]
      /\ out'[r] = out[r] \/ out'[r] = Append(out[r], LocalError)
  <2>1. CASE ExecuteReject(r)
    BY <1>0, <2>1 DEF ExecuteReject
  <2>2. CASE Cancel(r) \/ Finalize(r)
    BY <1>0, <2>2 DEF Cancel, Finalize
  <2>3. CASE ExecuteRead(r) \/ ExecuteResume(r) \/ ReadWait(r)
    BY <1>0, <2>3 DEF ExecuteRead, ExecuteResume, ReadWait
  <2>4. CASE \/ ExecuteSendFails(r) \/ ReadEof(r) \/ ReadTimeout(r)
             \/ ReadNoProc(r) \/ ReadClash(r)
    <3>1. Yield(r, LocalError) /\ pc[r] \in {"sending", "prompting", "loop", "wait"}
      BY <2>4 DEF ExecuteSendFails, AtDrain, ReadEof, Reading, ReadTimeout,
         ReadNoProc, ReadClash
    <3> QED BY <1>0, <3>1 DEF Yield
  <2> QED BY <2>1, <2>2, <2>3, <2>4
<1>4. QuietStep(r)
  BY <1>1, <1>2, <1>3 DEF QuietStep
<1>5. out'[r] = Append(out[r], LocalError) => YieldsFairly(r, LocalError)
  BY LocalErrorType, NamesAssumption DEF YieldsFairly, LocalError
<1> QED BY <1>3, <1>4, <1>5, LocalErrorType, QuietTrace

(* Every line of stdout answers somebody's prompt.                         *)
LEMMA LinesHaveOwners ==
  ASSUME TypeOK, NEW i \in DOMAIN outbox[1] PROVE outbox[1][i].of \in Exec
<1>1. outbox[1] \in Seq(Line)
  BY Bounds DEF TypeOK, PiType, Proc
<1>2. outbox[1][i] \in Line
  BY <1>1
<1> QED BY <1>2 DEF Line

(* A step that shows nobody anything and ends no execution.                *)
LEMMA NothingShown ==
  ASSUME ForeignOutputOnlyFromAbandoned, UNCHANGED out,
         out \in [Exec -> Seq(Event)],
         \A q \in Exec : pc[q] \in {"done", "cancelled"} => pc'[q] = pc[q]
  PROVE  ForeignOutputOnlyFromAbandoned'
<1> SUFFICES ASSUME NEW s \in Exec, NEW i \in DOMAIN out[s],
                    out[s][i].of \notin {s, NoReq}
             PROVE  \/ pc'[out[s][i].of] = "cancelled"
                    \/ /\ pc'[out[s][i].of] = "done"
                       /\ Last(out[out[s][i].of]).of # out[s][i].of
  BY DEF ForeignOutputOnlyFromAbandoned, Last
<1>1. out[s][i] \in Event
  <2>1. out[s] \in Seq(Event)
    OBVIOUS
  <2> QED BY <2>1
<1>2. out[s][i].of \in Exec
  BY <1>1 DEF Event
<1> QED BY <1>2 DEF ForeignOutputOnlyFromAbandoned

(* Writing a command to pi: only the prompt of r itself is a new prompt.   *)
LEMMA SendTrace ==
  ASSUME PipeInv, OnePi', NEW r \in Exec,
         UNCHANGED <<out, outbox, cur, taken>>,
         pc[r] \in {"new", "sending"},
         \A q \in Exec \ {r} : pc'[q] = pc[q],
         \A i \in DOMAIN inbox'[1] : inbox'[1][i].cmd = "prompt" =>
           \/ i \in DOMAIN inbox[1] /\ inbox'[1][i] = inbox[1][i]
           \/ /\ inbox'[1][i] = PromptOf(r) /\ i = Len(inbox'[1])
              /\ pc'[r] \notin {"new", "sending"}
  PROVE  TraceInv'
<1>0. /\ NoTraceBefore /\ OnePrompt /\ ClosingIsLast /\ NoTraceAfter
      /\ ForeignOutputOnlyFromAbandoned /\ out \in [Exec -> Seq(Event)]
  BY DEF PipeInv, TraceInv, StreamInv, TypeOK, ExecType
<1>1. \A q : PromptOf(q).cmd = "prompt" /\ PromptOf(q).of = q
  BY DEF PromptOf
<1>2. /\ \A i \in DOMAIN inbox[1] : inbox[1][i] # PromptOf(r)
      /\ cur[1] # r /\ ~LineOf(r)
      /\ \A s \in Exec : \A i \in DOMAIN out[s] : out[s][i].of # r
  BY <1>0 DEF NoTraceBefore
<1>3. ASSUME NEW q \in Exec \ {r}, NEW i \in DOMAIN inbox'[1],
             inbox'[1][i] = PromptOf(q)
      PROVE  i \in DOMAIN inbox[1] /\ inbox[1][i] = PromptOf(q)
  BY <1>1, <1>3
<1>4. \A q \in Exec \ {r} : Unanswered(q)' => Unanswered(q)
  <2>1. \A q \in Exec \ {r} : Waiting(q)' => Waiting(q)
    BY <1>3 DEF Waiting, PromptOf
  <2> QED BY <2>1 DEF Unanswered
<1>5. NoTraceBefore'
  <2> SUFFICES ASSUME NEW q \in Exec, pc'[q] \in {"new", "sending"}
               PROVE  (/\ \A i \in DOMAIN inbox[1] : inbox[1][i] # PromptOf(q)
                       /\ cur[1] # q /\ ~LineOf(q)
                       /\ \A s \in Exec : \A i \in DOMAIN out[s] : out[s][i].of # q)'
    BY DEF NoTraceBefore
  <2>1. pc[q] \in {"new", "sending"}
    OBVIOUS
  <2>2. /\ \A i \in DOMAIN inbox[1] : inbox[1][i] # PromptOf(q)
        /\ cur[1] # q /\ ~LineOf(q)
        /\ \A s \in Exec : \A i \in DOMAIN out[s] : out[s][i].of # q
    BY <1>0, <2>1 DEF NoTraceBefore
  <2>3. \A i \in DOMAIN inbox'[1] : inbox'[1][i] # PromptOf(q)
    BY <1>1, <1>3, <2>2
  <2>4. ~LineOf(q)'
    BY <2>2 DEF LineOf
  <2> QED BY <2>2, <2>3, <2>4 DEF PromptOf
<1>6. OnePrompt'
  <2>1. ASSUME NEW i \in DOMAIN inbox'[1], NEW j \in DOMAIN inbox'[1],
               inbox'[1][i].cmd = "prompt", inbox'[1][j] = inbox'[1][i]
        PROVE  i = j
    BY <1>0, <1>2, <2>1 DEF OnePrompt
  <2>2. ASSUME NEW q \in Exec, cur'[1] = q PROVE ~Waiting(q)'
    <3>1. q # r /\ ~Waiting(q)
      BY <1>0, <1>2, <2>2 DEF OnePrompt
    <3> QED BY <1>3, <3>1 DEF Waiting, PromptOf
  <2> QED BY <2>1, <2>2 DEF OnePrompt
<1>7. ClosingIsLast'
  <2> SUFFICES ASSUME NEW i \in DOMAIN outbox[1], Closing(outbox[1][i])
               PROVE  /\ ~Unanswered(outbox[1][i].of)'
                      /\ \A j \in DOMAIN outbox[1] : j > i => outbox[1][j].of # outbox[1][i].of
    BY DEF ClosingIsLast, Closing
  <2>1. /\ ~Unanswered(outbox[1][i].of)
        /\ \A j \in DOMAIN outbox[1] : j > i => outbox[1][j].of # outbox[1][i].of
    BY <1>0 DEF ClosingIsLast
  <2>2. PICK q \in Exec : outbox[1][i].of = q
    BY LinesHaveOwners DEF PipeInv, StreamInv
  <2>3. q # r
    BY <1>2, <2>2 DEF LineOf
  <2>4. ~Unanswered(q)'
    BY <1>4, <2>1, <2>2, <2>3
  <2>5. outbox'[1][i].of = q
    BY <2>2
  <2> QED BY <2>1, <2>4, <2>5
<1>8. NoTraceAfter'
  <2> SUFFICES ASSUME NEW q \in Exec, out[q] # <<>>, Terminal(Last(out[q])),
                      Last(out[q]).of = q
               PROVE  ~Unanswered(q)' /\ ~LineOf(q)'
    BY DEF NoTraceAfter, Last, Terminal
  <2>1. ~Unanswered(q) /\ ~LineOf(q)
    BY <1>0 DEF NoTraceAfter
  <2>2. q # r
    <3>1. out[q] \in Seq(Event)
      BY <1>0
    <3>2. Len(out[q]) \in DOMAIN out[q]
      BY <3>1
    <3> QED BY <1>2, <3>2 DEF Last
  <2> QED BY <1>4, <2>1, <2>2 DEF LineOf
<1>9. ForeignOutputOnlyFromAbandoned'
  BY <1>0, NothingShown
<1> QED BY <1>5, <1>6, <1>7, <1>8, <1>9 DEF TraceInv

LEMMA BeginTrace ==
  ASSUME PipeInv, OnePi', NEW r \in Exec, ExecuteBegin(r) \/ ExecutePrompt(r)
  PROVE  TraceInv'
<1>0. /\ TypeOK /\ OnePi /\ pc \in [Exec -> ExecPC] /\ 1 \in Proc
      /\ inbox \in [Proc -> Seq(Command)] /\ inbox[1] \in Seq(Command)
  BY Bounds DEF PipeInv, SerialInv, TraceInv, TypeOK, ExecType, PiType, Proc
<1>1. /\ UNCHANGED <<out, outbox, cur, taken>> /\ pc[r] \in {"new", "sending"}
      /\ \A q \in Exec \ {r} : pc'[q] = pc[q]
  BY <1>0 DEF ExecuteBegin, ExecutePrompt
<1>2. proc # None
  BY DEF ExecuteBegin, ExecutePrompt, Running
<1>3. CASE proc = 1 /\ ExecuteBegin(r)
  <2>1. inbox'[1] = Append(inbox[1], ModelOf(r)) /\ ModelOf(r) \in Command
    BY <1>0, <1>3 DEF ExecuteBegin, Send, ModelOf, None, Command
  <2>2. ModelOf(r).cmd # "prompt"
    BY DEF ModelOf
  <2>3. \A i \in DOMAIN inbox'[1] : inbox'[1][i].cmd = "prompt" =>
           i \in DOMAIN inbox[1] /\ inbox'[1][i] = inbox[1][i]
    BY <1>0, <2>1, <2>2, AppendCommand
  <2> QED BY <1>1, <2>3, SendTrace
<1>4. CASE proc = 1 /\ ExecutePrompt(r)
  <2>1. /\ inbox'[1] = Append(inbox[1], PromptOf(r)) /\ PromptOf(r) \in Command
        /\ pc'[r] = "prompting"
    BY <1>0, <1>4 DEF ExecutePrompt, Send, PromptOf, None, Command
  <2>2. \A i \in DOMAIN inbox'[1] :
           \/ i \in DOMAIN inbox[1] /\ inbox'[1][i] = inbox[1][i]
           \/ i = Len(inbox[1]) + 1 /\ inbox'[1][i] = PromptOf(r)
    BY <1>0, <2>1, AppendCommand
  <2>3. Len(inbox'[1]) = Len(inbox[1]) + 1
    BY <1>0, <2>1, AppendProperties
  <2> QED BY <1>1, <2>1, <2>2, <2>3, SendTrace
<1> QED BY <1>0, <1>2, <1>3, <1>4 DEF OnePi

(* Pi reads a command: its prompt no longer waits, it is being answered.   *)
LEMMA TakeTrace ==
  ASSUME PipeInv, OnePi', PiTake(1)
  PROVE  TraceInv'
<1> DEFINE n == taken[1] + 1
           c == inbox[1][n]
<1>0. /\ NoTraceBefore /\ OnePrompt /\ ClosingIsLast /\ NoTraceAfter
      /\ ForeignOutputOnlyFromAbandoned /\ 1 \in Proc /\ TypeOK
      /\ inbox[1] \in Seq(Command) /\ taken \in [Proc -> Nat]
      /\ cur \in [Proc -> Exec \cup {NoReq}]
  BY Bounds DEF PipeInv, TraceInv, StreamInv, TypeOK, PiType, Proc
<1>1. UNCHANGED <<pc, out, inbox, outbox>>
  BY DEF PiTake, execVars
<1>2. n \in DOMAIN inbox[1] /\ n > taken[1] /\ taken'[1] = n /\ taken[1] \in Nat
  BY <1>0 DEF PiTake
<1>3. cur'[1] = (IF c.cmd = "prompt" THEN c.of ELSE NoReq)
  BY <1>0 DEF PiTake
<1>4. c \in Command
  BY <1>0, <1>2
<1> HIDE DEF n
<1>5. c.cmd = "prompt" => c = PromptOf(c.of)
  BY <1>4 DEF Command, PromptOf
<1>6. \A q \in Exec : cur'[1] = q => c = PromptOf(q) /\ Waiting(q) /\ c.cmd = "prompt"
  BY <1>2, <1>3, <1>5, NamesAssumption DEF Waiting
<1>7. ASSUME NEW q \in Exec, Waiting(q)' PROVE Waiting(q)
  <2>1. PICK i \in DOMAIN inbox[1] : i > n /\ inbox[1][i] = PromptOf(q)
    BY <1>1, <1>2, <1>7 DEF Waiting, PromptOf
  <2>2. i \in Nat /\ n \in Nat
    BY <1>0, <1>2
  <2>3. i > taken[1]
    BY <1>2, <2>1, <2>2
  <2> QED BY <2>1, <2>3 DEF Waiting
<1>8. \A q \in Exec : Unanswered(q)' => Unanswered(q)
  BY <1>6, <1>7 DEF Unanswered
<1>9. NoTraceBefore'
  <2> SUFFICES ASSUME NEW q \in Exec, pc[q] \in {"new", "sending"}
               PROVE  (/\ \A i \in DOMAIN inbox[1] : inbox[1][i] # PromptOf(q)
                       /\ cur[1] # q /\ ~LineOf(q)
                       /\ \A r \in Exec : \A i \in DOMAIN out[r] : out[r][i].of # q)'
    BY <1>1 DEF NoTraceBefore
  <2>1. /\ \A i \in DOMAIN inbox[1] : inbox[1][i] # PromptOf(q)
        /\ ~LineOf(q)
        /\ \A r \in Exec : \A i \in DOMAIN out[r] : out[r][i].of # q
    BY <1>0 DEF NoTraceBefore
  <2>2. cur'[1] # q
    BY <1>2, <1>6, <2>1
  <2>3. ~LineOf(q)'
    BY <1>1, <2>1 DEF LineOf
  <2> QED BY <1>1, <2>1, <2>2, <2>3 DEF PromptOf
<1>10. OnePrompt'
  <2>1. ASSUME NEW q \in Exec, cur'[1] = q, Waiting(q)' PROVE FALSE
    <3>1. PICK i \in DOMAIN inbox[1] : i > n /\ inbox[1][i] = PromptOf(q)
      BY <1>1, <1>2, <2>1 DEF Waiting, PromptOf
    <3>2. c = PromptOf(q) /\ c.cmd = "prompt"
      BY <1>6, <2>1
    <3>3. i = n
      BY <1>0, <1>2, <3>1, <3>2 DEF OnePrompt
    <3>4. i \in Nat /\ n \in Nat
      BY <1>0, <1>2
    <3> QED BY <3>1, <3>3, <3>4
  <2> QED BY <1>0, <1>1, <2>1 DEF OnePrompt
<1>11. ClosingIsLast'
  <2> SUFFICES ASSUME NEW i \in DOMAIN outbox[1], Closing(outbox[1][i]),
                      NEW q \in Exec, q = outbox[1][i].of
               PROVE  /\ ~Unanswered(q)'
                      /\ \A j \in DOMAIN outbox[1] : j > i => outbox[1][j].of # q
    BY <1>0, <1>1, LinesHaveOwners DEF ClosingIsLast, Closing
  <2> QED BY <1>0, <1>8 DEF ClosingIsLast
<1>12. NoTraceAfter'
  BY <1>0, <1>1, <1>8 DEF NoTraceAfter, Last, Terminal, LineOf
<1>13. ForeignOutputOnlyFromAbandoned'
  BY <1>0, <1>1 DEF ForeignOutputOnlyFromAbandoned, Last
<1> QED BY <1>9, <1>10, <1>11, <1>12, <1>13 DEF TraceInv

(* Pi writes a line for the prompt it is answering.                        *)
LEMMA WriteTrace ==
  ASSUME PipeInv, OnePi', PiEmit(1) \/ PiEnd(1)
  PROVE  TraceInv'
<1>0. /\ NoTraceBefore /\ OnePrompt /\ ClosingIsLast /\ NoTraceAfter
      /\ ForeignOutputOnlyFromAbandoned /\ 1 \in Proc /\ TypeOK
      /\ outbox \in [Proc -> Seq(Line)] /\ outbox[1] \in Seq(Line)
      /\ cur \in [Proc -> Exec \cup {NoReq}]
  BY Bounds DEF PipeInv, TraceInv, StreamInv, TypeOK, PiType, Proc
<1>1. UNCHANGED <<pc, out, inbox, taken>> /\ cur[1] \in Exec
  BY <1>0 DEF PiEmit, PiEnd, execVars
<1>2. PICK k \in LineKind :
        /\ outbox'[1] = Append(outbox[1], [of |-> cur[1], kind |-> k])
        /\ k \in {"agent_end", "error"} <=> PiEnd(1)
        /\ cur'[1] \in {cur[1], NoReq}
        /\ PiEnd(1) => cur'[1] = NoReq
  <2>1. CASE PiEnd(1)
    <3>1. PICK k \in {"agent_end", "error"} : Write(1, k)
      BY <2>1 DEF PiEnd
    <3> QED BY <1>0, <2>1, <3>1 DEF PiEnd, Write, LineKind
  <2>2. CASE PiEmit(1) /\ ~PiEnd(1)
    <3>1. PICK k \in {"text", "noise", "broken"} : Write(1, k)
      BY <2>2 DEF PiEmit
    <3> QED BY <1>0, <2>2, <3>1 DEF PiEmit, Write, LineKind
  <2> QED BY <2>1, <2>2
<1> DEFINE l == [of |-> cur[1], kind |-> k]
           n == Len(outbox[1])
<1>3. l \in Line /\ l.of = cur[1] /\ (Closing(l) <=> PiEnd(1))
  BY <1>1, <1>2 DEF Line, Closing
<1> HIDE DEF l
<1>4. /\ n \in Nat /\ DOMAIN outbox[1] = 1 .. n /\ DOMAIN outbox'[1] = 1 .. (n + 1)
      /\ outbox'[1][n + 1] = l
      /\ \A i \in 1 .. n : outbox'[1][i] = outbox[1][i]
  <2>1. outbox'[1] = Append(outbox[1], l)
    BY <1>2 DEF l
  <2>2. Append(outbox[1], l) \in Seq(Line) /\ Len(Append(outbox[1], l)) = n + 1
    BY <1>0, <1>3, AppendProperties
  <2> QED BY <1>0, <1>3, <2>1, <2>2, AppendProperties, LenProperties
<1> HIDE DEF n
<1>5. \A q \in Exec : q # cur[1] => (LineOf(q)' => LineOf(q))
  BY <1>3, <1>4 DEF LineOf
<1>6. \A q \in Exec : (Unanswered(q)' => Unanswered(q)) /\ (Waiting(q)' => Waiting(q))
  BY <1>1, <1>2, NamesAssumption DEF Unanswered, Waiting, PromptOf
<1>7. NoTraceBefore'
  <2> SUFFICES ASSUME NEW q \in Exec, pc[q] \in {"new", "sending"}
               PROVE  (/\ \A i \in DOMAIN inbox[1] : inbox[1][i] # PromptOf(q)
                       /\ cur[1] # q /\ ~LineOf(q)
                       /\ \A r \in Exec : \A i \in DOMAIN out[r] : out[r][i].of # q)'
    BY <1>1 DEF NoTraceBefore
  <2>1. /\ \A i \in DOMAIN inbox[1] : inbox[1][i] # PromptOf(q)
        /\ cur[1] # q /\ ~LineOf(q)
        /\ \A r \in Exec : \A i \in DOMAIN out[r] : out[r][i].of # q
    BY <1>0 DEF NoTraceBefore
  <2>2. cur'[1] # q /\ ~LineOf(q)'
    BY <1>2, <1>5, <2>1, NamesAssumption
  <2> QED BY <1>1, <2>1, <2>2 DEF PromptOf
<1>8. OnePrompt'
  BY <1>0, <1>1, <1>2, <1>6, NamesAssumption DEF OnePrompt
<1>9. ClosingIsLast'
  <2> SUFFICES ASSUME NEW i \in 1 .. (n + 1), Closing(outbox'[1][i]),
                      NEW q \in Exec, q = outbox'[1][i].of
               PROVE  /\ ~Unanswered(q)'
                      /\ \A j \in 1 .. (n + 1) : j > i => outbox'[1][j].of # q
    BY <1>0, <1>3, <1>4, LinesHaveOwners DEF ClosingIsLast, Closing, Line
  <2>1. CASE i = n + 1
    <3>1. q = cur[1] /\ PiEnd(1)
      BY <1>3, <1>4, <2>1
    <3>2. ~Waiting(q)
      BY <1>0, <3>1 DEF OnePrompt
    <3>3. cur'[1] # q
      BY <1>2, <3>1, NamesAssumption
    <3>4. ~Unanswered(q)'
      BY <1>6, <3>2, <3>3 DEF Unanswered
    <3> QED BY <1>4, <2>1, <3>4
  <2>2. CASE i # n + 1
    <3>1. i \in 1 .. n /\ outbox'[1][i] = outbox[1][i]
      BY <1>4, <2>2
    <3>2. /\ ~Unanswered(q)
          /\ \A j \in 1 .. n : j > i => outbox[1][j].of # q
      BY <1>0, <1>4, <3>1 DEF ClosingIsLast
    <3>3. q # cur[1]
      BY <3>2 DEF Unanswered
    <3>4. \A j \in 1 .. (n + 1) : j = n + 1 \/ j \in 1 .. n
      BY <1>4
    <3> QED BY <1>3, <1>4, <1>6, <3>2, <3>3, <3>4
  <2> QED BY <2>1, <2>2
<1>10. NoTraceAfter'
  <2> SUFFICES ASSUME NEW q \in Exec, out[q] # <<>>, Terminal(Last(out[q])),
                      Last(out[q]).of = q
               PROVE  ~Unanswered(q)' /\ ~LineOf(q)'
    BY <1>1 DEF NoTraceAfter, Last, Terminal
  <2>1. ~Unanswered(q) /\ ~LineOf(q)
    BY <1>0 DEF NoTraceAfter
  <2>2. q # cur[1]
    BY <2>1 DEF Unanswered
  <2> QED BY <1>5, <1>6, <2>1, <2>2
<1>11. ForeignOutputOnlyFromAbandoned'
  BY <1>0, <1>1 DEF ForeignOutputOnlyFromAbandoned, Last
<1> QED BY <1>7, <1>8, <1>9, <1>10, <1>11 DEF TraceInv

(* What stop(), start(), the exit of the server and the death of pi leave. *)
LEMMA OtherTrace ==
  ASSUME PipeInv, OnePi', UNCHANGED <<pc, out, inbox, taken, cur, outbox>>
  PROVE  TraceInv'
<1>1. NoTraceBefore' /\ OnePrompt' /\ ClosingIsLast' /\ NoTraceAfter'
  BY DEF PipeInv, TraceInv, NoTraceBefore, OnePrompt, ClosingIsLast, NoTraceAfter,
     Unanswered, Waiting, LineOf
<1>2. ForeignOutputOnlyFromAbandoned'
  BY DEF PipeInv, TraceInv, ForeignOutputOnlyFromAbandoned
<1> QED BY <1>1, <1>2 DEF TraceInv

LEMMA NextTrace ==
  ASSUME Reload = {} PROVE PipeInv /\ [Next]_vars => TraceInv'
<1> SUFFICES ASSUME PipeInv, [Next]_vars PROVE TraceInv'
  OBVIOUS
<1>1. OnePi /\ OnePi'
  BY NextOnePi DEF PipeInv, TraceInv
<1>2. ASSUME NEW r \in Exec,
             ExecuteReject(r) \/ ExecuteBegin(r) \/ Cancel(r) \/ ExecStep(r)
      PROVE  TraceInv'
  <2>1. CASE ExecuteCommand(r)
    BY <1>1, <2>1, OtherTrace DEF ExecuteCommand, piVars
  <2> QED BY <1>1, <1>2, <2>1, BeginTrace, ReadLineTrace, SilentTrace DEF ExecStep
<1>3. ASSUME NEW p \in Proc, PiStep(p) PROVE TraceInv'
  <2>1. p = 1
    BY <1>1, <1>3 DEF PiStep, PiTake, PiEmit, PiEnd, PiExit, OnePi
  <2>2. CASE PiExit(1)
    BY <1>1, <2>2, OtherTrace DEF PiExit, execVars
  <2> QED BY <1>1, <1>3, <2>1, <2>2, TakeTrace, WriteTrace DEF PiStep
<1>4. CASE \/ ShutdownExit \/ UNCHANGED vars
           \/ \E t \in Task : StopBegin(t) \/ TaskStep(t) \/ CancelReload(t)
  <2>1. UNCHANGED <<pc, out, inbox, taken, cur, outbox>>
    BY <1>4 DEF ShutdownExit, vars, TaskStep, StopBegin, StopWait, StopKill,
       Spawned, SpawnFails, CancelReload, execVars, piVars
  <2> QED BY <1>1, <2>1, OtherTrace
<1> QED BY <1>2, <1>3, <1>4 DEF Next

(* While nothing reloads the agent, a client sees another execution's      *)
(* output only when that execution was cancelled or ended without reading  *)
(* its own last line: neither the one pipe nor the freed flag mixes two    *)
(* executions that both run to their end.                                  *)
THEOREM NoForeignOutput ==
  ASSUME Reload = {} PROVE Spec => []ForeignOutputOnlyFromAbandoned
<1>1. Init => PipeInv
  BY InitSerial, InitTypeOK, InitStream, InitTrace DEF PipeInv, StreamInv
<1>2. PipeInv /\ [Next]_vars => PipeInv'
  BY NextSerial, NextStream, NextTrace DEF PipeInv
<1>3. PipeInv => ForeignOutputOnlyFromAbandoned
  BY DEF PipeInv, TraceInv
<1> QED BY <1>1, <1>2, <1>3, PTL DEF Spec

(***************************************************************************)
(* The pi processes, through any number of reloads                         *)
(***************************************************************************)

(* A process that runs and that no restart ran beside is the current one,  *)
(* or in the hands of a stop() that waits for it or was cut off.           *)
Held(p) ==
  \/ p = proc
  \/ rivals[p] # {}
  \/ \E t \in Task : victim[t] = p /\ tk[t] \in {"stopping", "cancelled"}

(* What NoLeakedPi and ShutdownLeavesNoPi need to be inductive: a restart  *)
(* that spawns is a rival of the process it finds, if that runs; and what  *)
(* the agent has once its server stops came from a Reload in that time.    *)
ProcessInv ==
  /\ TypeOK
  /\ NoLeakedPi
  /\ NoPiHasACause
  /\ \A p \in alive : Held(p)
  /\ \A t \in Reload : tk[t] = "spawning" /\ proc \in alive => t \in rivals[proc]
  /\ tk[Main] \in {"idle", "stopping", "draining", "exited"}
  /\ tk[Main] # "idle" /\ proc # None => rivals[proc] # {}
  /\ tk[Main] = "exited" => \A t \in Reload : ~UnderWay(t)
  /\ \A t \in Reload : tk[t] # "draining"

LEMMA InitProcess == Init => ProcessInv
<1> SUFFICES ASSUME Init PROVE ProcessInv
  OBVIOUS
<1>1. /\ \A t \in Task : tk[t] = "idle"
      /\ proc = 1 /\ alive = {1} /\ proc # None
  BY DEF Init, None
<1> QED BY <1>1, InitTypeOK
    DEF ProcessInv, NoLeakedPi, NoPiHasACause, Held, UnderWay, Task

(* A step that leaves the handle and the tasks alone, or only ends pi.     *)
LEMMA QuietProcess ==
  ASSUME ProcessInv, TypeOK', UNCHANGED <<proc, tk, victim, termed, rivals>>,
         alive' \subseteq alive
  PROVE  ProcessInv'
BY DEF ProcessInv, NoLeakedPi, NoPiHasACause, Held, UnderWay

LEMMA TaskProcess ==
  ASSUME ProcessInv, NEW t \in Task,
         StopBegin(t) \/ TaskStep(t) \/ CancelReload(t)
  PROVE  ProcessInv'
<1>1. /\ TypeOK' /\ tk \in [Task -> TaskPC] /\ victim \in [Task -> 0 .. MaxProc]
      /\ Reload \subseteq Task /\ Main \in Task /\ Main \notin Reload
      /\ t \in Reload \/ t = Main
  BY TaskTypeOK, NamesAssumption DEF ProcessInv, TypeOK, TaskType, Task
<1>2. \A u \in Task \ {t} : tk'[u] = tk[u]
  BY <1>1 DEF StopBegin, TaskStep, StopWait, StopKill, Spawned, SpawnFails,
     CancelReload
<1>3. CASE StopBegin(t)
  <2>1. /\ proc' = None /\ UNCHANGED <<alive, rivals>>
        /\ termed' = IF proc = None THEN termed ELSE termed \cup {proc}
        /\ victim' = IF proc = None THEN victim ELSE [victim EXCEPT ![t] = proc]
        /\ tk[t] = "idle"
        /\ tk'[t] = IF Running THEN "stopping"
                    ELSE IF t = Main THEN "draining" ELSE "spawning"
    BY <1>1, <1>3 DEF StopBegin, AfterStop
  <2>2. None \notin alive
    BY Bounds DEF ProcessInv, TypeOK, PiType
  <2>3. NoLeakedPi'
    BY <2>1, <2>2 DEF ProcessInv, NoLeakedPi
  <2>4. NoPiHasACause'
    BY <1>1, <2>1 DEF NoPiHasACause, UnderWay
  <2>5. ASSUME NEW p \in alive PROVE Held(p)'
    <3>1. CASE p = proc
      <4>1. victim'[t] = p /\ tk'[t] = "stopping"
        BY <1>1, <2>1, <2>2, <3>1 DEF Running
      <4> QED BY <4>1 DEF Held
    <3>2. CASE rivals[p] # {}
      BY <2>1, <3>2 DEF Held
    <3>3. ASSUME NEW u \in Task, victim[u] = p, tk[u] \in {"stopping", "cancelled"}
          PROVE  Held(p)'
      <4>1. u # t
        BY <2>1, <3>3
      <4>2. victim'[u] = p /\ tk'[u] = tk[u]
        BY <1>1, <1>2, <2>1, <3>3, <4>1
      <4> QED BY <3>3, <4>2 DEF Held
    <3> QED BY <3>1, <3>2, <3>3 DEF ProcessInv, Held
  <2>6. tk[Main] # "exited"
    BY <1>3 DEF StopBegin, Accepting
  <2> QED BY <1>1, <1>2, <2>1, <2>2, <2>3, <2>4, <2>5, <2>6 DEF ProcessInv
<1>4. CASE StopWait(t) \/ StopKill(t)
  <2>1. /\ UNCHANGED <<proc, termed, rivals, victim>> /\ alive' \subseteq alive
        /\ tk[t] = "stopping" /\ victim[t] \notin alive'
        /\ tk'[t] = AfterStop(t, proc)
    BY <1>1, <1>4 DEF StopWait, StopKill, agentVars, piVars
  <2>2. /\ t = Main => tk'[t] = "draining"
        /\ t \in Reload => \/ tk'[t] = "ok" /\ proc # None
                           \/ tk'[t] = "spawning" /\ proc \notin alive
    BY <1>1, <2>1, Bounds DEF AfterStop, ProcessInv, TypeOK, PiType
  <2>3. NoLeakedPi'
    BY <2>1 DEF ProcessInv, NoLeakedPi
  <2>4. NoPiHasACause'
    BY <1>1, <1>2, <2>1, <2>2 DEF ProcessInv, NoPiHasACause, UnderWay
  <2>5. ASSUME NEW p \in alive' PROVE Held(p)'
    <3>1. Held(p)
      BY <2>1 DEF ProcessInv
    <3> QED BY <1>2, <2>1, <3>1 DEF Held
  <2>6. /\ tk[Main] = "exited" => FALSE
        /\ tk'[Main] \in {"idle", "stopping", "draining"}
        /\ tk'[Main] # "idle" => tk[Main] # "idle"
    BY <1>1, <1>2, <2>1, <2>2 DEF ProcessInv, UnderWay
  <2> QED BY <1>1, <1>2, <2>1, <2>2, <2>3, <2>4, <2>5, <2>6 DEF ProcessInv
<1>5. CASE Spawned(t)
  <2> DEFINE new == spawned + 1
             beside == {u \in Task \ {t} : UnderWay(u)}
  <2>1. /\ t \in Reload /\ tk[t] = "spawning" /\ tk'[t] = "ok"
        /\ proc' = new /\ alive' = alive \cup {new}
        /\ rivals' = [rivals EXCEPT ![new] = beside]
        /\ UNCHANGED <<termed, victim>>
    BY <1>1, <1>5 DEF Spawned, ProcessInv
  <2>2. /\ new \in Proc /\ new # None /\ new \notin alive
        /\ \A p \in alive : p \in Proc /\ p # new
        /\ rivals \in [Proc -> SUBSET Task]
    BY <1>5, Bounds DEF Spawned, ProcessInv, TypeOK, PiType, Proc
  <2>3. rivals'[new] = beside /\ \A p \in alive : rivals'[p] = rivals[p]
    BY <2>1, <2>2
  <2>4. tk[Main] # "idle" => Main \in beside
    BY <1>1, <2>1 DEF ProcessInv, UnderWay
  <2>5. \A u \in Reload \ {t} : tk'[u] = "spawning" => u \in beside
    BY <1>1, <1>2 DEF UnderWay
  <2>6. ASSUME NEW p \in alive
        PROVE  /\ p \in termed \/ rivals'[p] \cap Reload # {}
               /\ Held(p)'
    <3>1. p = proc => t \in rivals[p] \cap Reload
      BY <2>1 DEF ProcessInv
    <3>2. p \in termed \/ rivals'[p] \cap Reload # {}
      BY <2>3, <3>1 DEF ProcessInv, NoLeakedPi
    <3>3. p = proc => Held(p)'
      BY <2>3, <3>1 DEF Held
    <3>4. rivals[p] # {} => Held(p)'
      BY <2>3 DEF Held
    <3>5. \A u \in Task : tk[u] \in {"stopping", "cancelled"} => tk'[u] = tk[u]
      BY <1>2, <2>1
    <3> QED BY <2>1, <3>2, <3>3, <3>4, <3>5 DEF ProcessInv, Held
  <2>7. NoLeakedPi' /\ NoPiHasACause'
    BY <2>1, <2>2, <2>6 DEF NoLeakedPi, NoPiHasACause
  <2>8. \A p \in alive' : Held(p)'
    BY <2>1, <2>6 DEF Held
  <2>9. /\ \A u \in Reload : tk'[u] = "spawning" /\ proc' \in alive' => u \in rivals'[proc']
        /\ tk'[Main] # "idle" /\ proc' # None => rivals'[proc'] # {}
    BY <1>1, <1>2, <2>1, <2>3, <2>4, <2>5
  <2>10. \A u \in Reload : tk'[u] = tk[u] \/ tk'[u] = "ok"
    BY <1>2, <2>1 DEF Task
  <2> HIDE DEF new, beside
  <2> QED BY <1>1, <1>2, <2>1, <2>7, <2>8, <2>9, <2>10 DEF ProcessInv, UnderWay
<1>6. CASE SpawnFails(t) \/ CancelReload(t)
  <2>1. /\ UNCHANGED <<proc, alive, termed, rivals, victim>>
        /\ tk[t] \in {"stopping", "spawning"}
        /\ \/ tk'[t] = "cancelled"
           \/ tk[t] = "spawning" /\ tk'[t] = "failed"
    BY <1>1, <1>6 DEF SpawnFails, CancelReload, agentVars, piVars
  <2>2. t \in Reload
    BY <1>1, <1>6 DEF SpawnFails, CancelReload, ProcessInv
  <2>3. NoLeakedPi'
    BY <2>1 DEF ProcessInv, NoLeakedPi
  <2>4. NoPiHasACause'
    BY <1>1, <1>2, <2>1, <2>2 DEF ProcessInv, NoPiHasACause, UnderWay
  <2>5. \A p \in alive : Held(p)'
    BY <1>2, <2>1 DEF ProcessInv, Held
  <2> QED BY <1>1, <1>2, <2>1, <2>2, <2>3, <2>4, <2>5 DEF ProcessInv, UnderWay
<1> QED BY <1>3, <1>4, <1>5, <1>6 DEF TaskStep

LEMMA NextProcess == ProcessInv /\ [Next]_vars => ProcessInv'
<1> SUFFICES ASSUME ProcessInv, [Next]_vars PROVE ProcessInv'
  OBVIOUS
<1>0. TypeOK'
  BY NextTypeOK DEF ProcessInv
<1>1. CASE ShutdownExit
  <2>1. /\ UNCHANGED <<proc, alive, termed, rivals, victim>>
        /\ tk[Main] = "draining" /\ \A t \in Reload : ~UnderWay(t)
        /\ tk' = [tk EXCEPT ![Main] = "exited"] /\ tk \in [Task -> TaskPC]
    BY <1>1 DEF ShutdownExit, UnderWay, agentVars, piVars, ProcessInv, TypeOK,
       TaskType
  <2>2. tk'[Main] = "exited" /\ \A t \in Reload : tk'[t] = tk[t]
    BY <2>1, NamesAssumption DEF Task
  <2>3. \A t \in Task : tk[t] \in {"stopping", "cancelled"} => tk'[t] = tk[t]
    BY <2>1, <2>2 DEF Task
  <2> QED BY <1>0, <2>1, <2>2, <2>3
      DEF ProcessInv, NoLeakedPi, NoPiHasACause, Held, UnderWay
<1>2. CASE \E r \in Exec : \/ ExecuteReject(r) \/ ExecuteBegin(r)
                           \/ Cancel(r) \/ ExecStep(r)
  <2>1. UNCHANGED <<proc, tk, victim, termed, rivals, alive>>
    BY <1>2 DEF ExecuteReject, ExecuteBegin, Cancel, ExecStep, ExecuteCommand,
       ExecutePrompt, ExecuteRead, ExecuteSendFails, ExecuteResume, ReadWait,
       ReadLine, ReadEof, ReadTimeout, ReadNoProc, ReadClash, Finalize,
       agentVars, taskVars, piVars
  <2> QED BY <1>0, <2>1, QuietProcess
<1>3. CASE UNCHANGED vars \/ \E p \in Proc : PiStep(p)
  <2>1. UNCHANGED <<proc, tk, victim, termed, rivals>> /\ alive' \subseteq alive
    BY <1>3 DEF vars, agentVars, taskVars, piVars, PiStep, PiTake, PiEmit,
       PiEnd, PiExit
  <2> QED BY <1>0, <2>1, QuietProcess
<1> QED BY <1>1, <1>2, <1>3, TaskProcess DEF Next

(* No pi process escapes: whatever reloads and shutdowns overlap, one that *)
(* runs is the current one, has been told to stop, or was spawned beside   *)
(* another restart.  Reloads that do not overlap therefore lose none.      *)
THEOREM OnlyRivalsLeak == Spec => []NoLeakedPi
<1>1. ProcessInv => NoLeakedPi
  BY DEF ProcessInv
<1> QED BY <1>1, InitProcess, NextProcess, PTL DEF Spec

(* An agent that serves and has no pi process to send prompts to is being  *)
(* restarted, or one of its restarts failed or was cut off.                *)
THEOREM MissingPiExplained == Spec => []NoPiHasACause
<1>1. ProcessInv => NoPiHasACause
  BY DEF ProcessInv
<1> QED BY <1>1, InitProcess, NextProcess, PTL DEF Spec

(* A pi process that outlives its server was spawned beside the shutdown   *)
(* or another restart, or its stop() was cut off before the SIGKILL.       *)
THEOREM SurvivorsExplained == Spec => []ShutdownLeavesNoPi
<1>1. ProcessInv => ShutdownLeavesNoPi
  <2> SUFFICES ASSUME ProcessInv, tk[Main] = "exited", NEW p \in alive
               PROVE  \/ rivals[p] # {}
                      \/ \E t \in Reload : tk[t] = "cancelled" /\ victim[t] = p
    BY DEF ShutdownLeavesNoPi
  <2>1. p # None
    BY Bounds DEF ProcessInv, TypeOK, PiType
  <2>2. \A t \in Task : tk[t] \in {"stopping", "cancelled"} =>
                          t \in Reload /\ tk[t] = "cancelled"
    BY DEF ProcessInv, UnderWay, Task
  <2> QED BY <2>1, <2>2 DEF ProcessInv, Held
<1> QED BY <1>1, InitProcess, NextProcess, PTL DEF Spec
=============================================================================
