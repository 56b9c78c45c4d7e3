------------------------------ MODULE PiAgent ------------------------------
(***************************************************************************)
(* One agent server: the PiAgent object (agent/pi_agent.py), the Execute   *)
(* and Reload handlers that call it (grpc_server/servicer.py), the         *)
(* shutdown path of grpc_server/server.py, and the `pi --mode rpc`         *)
(* subprocesses it owns.                                                   *)
(*                                                                         *)
(* Everything runs on one asyncio event loop, so a step of the model is    *)
(* the code between two suspension points: the program counters name the   *)
(* await (or the yield to the gRPC runtime) where a coroutine is           *)
(* suspended.  Pi itself is external: it reads commands from its stdin in  *)
(* order, answers a prompt with lines on its stdout, and may die whenever  *)
(* it likes.                                                               *)
(***************************************************************************)
EXTENDS Naturals, Sequences

CONSTANTS Exec,      \* the Execute RPCs
          Reload,    \* the Reload RPCs
          Main,      \* the serve() task, which stops the agent on SIGTERM
          NoReq,     \* "no Execute RPC"
          MaxProc,   \* bound: pi processes spawned in a behaviour
          MaxText    \* bound: lines pi writes for a prompt before its last

ASSUME BoundsAssumption == MaxProc \in Nat \ {0} /\ MaxText \in Nat
ASSUME NamesAssumption == Main \notin Reload /\ NoReq \notin Exec

None == 0                  \* self._proc is None
Proc == 1 .. MaxProc       \* pi processes, in the order they are spawned
Task == Reload \cup {Main} \* the coroutines that call stop() or restart()

VARIABLES
  proc,     \* self._proc
  busy,     \* self._busy
  status,   \* self._status
  pc,       \* pc[r]: where PiAgent.execute is suspended for Execute RPC r
  peer,     \* peer[r]: the process whose pipe r awaits: stdin or stdout
  out,      \* out[r]: the events yielded to r's client
  tk,       \* tk[t]: where stop()/restart() is suspended for task t
  victim,   \* victim[t]: the local variable proc of t's stop()
  alive,    \* the pi processes that run
  spawned,  \* how many pi processes were spawned so far
  termed,   \* the pi processes that stop() has taken in charge
  rivals,   \* history: the tasks under way beside the one that spawned p
  inbox,    \* inbox[p]: the commands written to p's stdin, oldest first
  taken,    \* taken[p]: how many of them p has read
  cur,      \* cur[p]: whose prompt p is answering
  texts,    \* texts[p]: lines p has written for that prompt
  outbox    \* outbox[p]: lines of p's stdout that nobody has read

agentVars == <<proc, busy, status>>
execVars  == <<pc, peer, out>>
taskVars  == <<tk, victim>>
piVars    == <<alive, spawned, termed, rivals, inbox, taken, cur, texts, outbox>>
vars      == <<agentVars, execVars, taskVars, piVars>>

-----------------------------------------------------------------------------
ExecPC == {"new", "sending", "prompting", "loop", "wait", "yield",
           "orphaned", "done", "cancelled"}
TaskPC == {"idle", "stopping", "spawning", "ok", "failed", "cancelled",
           "draining", "exited"}
Command  == [cmd : {"set_model", "prompt"}, of : Exec]
LineKind == {"text", "noise", "broken", "agent_end", "error"}
Line     == [of : Exec, kind : LineKind]
Event    == [of : Exec \cup {NoReq}, type : {"text", "done", "error"}]

(* Line 124 (and line 63, negated): the pid is known and has not exited. *)
Running == proc # None /\ proc \in alive

(* The executions whose try block is open. *)
InFlight(r) == pc[r] \in {"sending", "prompting", "loop", "wait", "yield",
                           "orphaned"}

(* r awaits the drain() of _send: of set_model, compact or new_session, or *)
(* of the prompt.  No timer runs yet: the deadline is computed afterwards. *)
AtDrain(r) == pc[r] \in {"sending", "prompting"}

(* server.stop() refuses new RPCs; it is reached when agent.stop() returns. *)
Accepting == tk[Main] \in {"idle", "stopping"}

(* _send, to the process there is; for nobody it drops the command. *)
Send(c, r) == inbox' = [inbox EXCEPT ![proc] = Append(@, [cmd |-> c, of |-> r])]

(* Mutant: agent_end falls through to the pass-through branch.             *)
EventType_PassThrough ==
  [text |-> "text", agent_end |-> "agent_end", error |-> "error"]

(* _map_pi_event: the event a JSON line becomes; is_done for the last two. *)
EventType == [text |-> "text", agent_end |-> "done", error |-> "error"]
Terminal(e) == e.type \in {"done", "error"}

(* An error event made by the agent itself, from no line of pi's.          *)
LocalError == [of |-> NoReq, type |-> "error"]

Last(s) == s[Len(s)]

(* r yields e to the gRPC runtime and waits for it to come back for more. *)
Yield(r, e) == /\ out' = [out EXCEPT ![r] = Append(@, e)]
               /\ pc' = [pc EXCEPT ![r] = "yield"]
               /\ peer' = [peer EXCEPT ![r] = None]

Init ==
  /\ proc = 1 /\ busy = FALSE /\ status = "ready"
  /\ pc = [r \in Exec |-> "new"]
  /\ peer = [r \in Exec |-> None]
  /\ out = [r \in Exec |-> <<>>]
  /\ tk = [t \in Task |-> "idle"]
  /\ victim = [t \in Task |-> None]
  /\ alive = {1} /\ spawned = 1 /\ termed = {}
  /\ rivals = [p \in Proc |-> {}]
  /\ inbox = [p \in Proc |-> <<>>]
  /\ taken = [p \in Proc |-> 0]
  /\ cur = [p \in Proc |-> NoReq]
  /\ texts = [p \in Proc |-> 0]
  /\ outbox = [p \in Proc |-> <<>>]

-----------------------------------------------------------------------------
(* PiAgent.execute                                                         *)

(* Mutant: the return after the "busy" event is missing.                   *)
ExecuteReject_NoReturn(r) ==
  /\ pc[r] = "new" /\ Accepting
  /\ ~Running \/ busy
  /\ out' = [out EXCEPT ![r] = Append(@, LocalError)]
  /\ pc' = [pc EXCEPT ![r] = "sending"]
  /\ UNCHANGED <<agentVars, peer, taskVars, piVars>>

(* No pi, or another execution is in flight: one error event, no state.    *)
ExecuteReject(r) ==
  /\ pc[r] = "new" /\ Accepting
  /\ ~Running \/ busy
  /\ out' = [out EXCEPT ![r] = Append(@, LocalError)]
  /\ pc' = [pc EXCEPT ![r] = "done"]
  /\ UNCHANGED <<agentVars, peer, taskVars, piVars>>

(* Mutant: the busy flag is not tested.                                    *)
ExecuteBegin_NoBusyTest(r) ==
  /\ pc[r] = "new" /\ Accepting
  /\ Running
  /\ busy' = TRUE
  /\ Send("set_model", r)
  /\ pc' = [pc EXCEPT ![r] = "sending"]
  /\ peer' = [peer EXCEPT ![r] = proc]
  /\ UNCHANGED <<proc, status, out, taskVars,
                 alive, spawned, termed, rivals, taken, cur, texts, outbox>>

(* Mutant: the busy flag is tested but not set before the first await.     *)
ExecuteBegin_NotClaimed(r) ==
  /\ pc[r] = "new" /\ Accepting
  /\ Running /\ ~busy
  /\ Send("set_model", r)
  /\ pc' = [pc EXCEPT ![r] = "sending"]
  /\ peer' = [peer EXCEPT ![r] = proc]
  /\ UNCHANGED <<agentVars, out, taskVars,
                 alive, spawned, termed, rivals, taken, cur, texts, outbox>>

(* Claims the agent and writes set_model, up to the drain() of _send or    *)
(* the sleeps after compact and new_session.                               *)
ExecuteBegin(r) ==
  /\ pc[r] = "new" /\ Accepting
  /\ Running /\ ~busy
  /\ busy' = TRUE
  /\ Send("set_model", r)
  /\ pc' = [pc EXCEPT ![r] = "sending"]
  /\ peer' = [peer EXCEPT ![r] = proc]
  /\ UNCHANGED <<proc, status, out, taskVars,
                 alive, spawned, termed, rivals, taken, cur, texts, outbox>>

(* compact or new_session, written to whatever process there is by now and *)
(* drained in turn; what pi makes of them is left out.                     *)
ExecuteCommand(r) ==
  /\ pc[r] = "sending" /\ proc # None
  /\ peer' = [peer EXCEPT ![r] = proc]
  /\ UNCHANGED <<agentVars, pc, out, taskVars, piVars>>

ExecutePrompt(r) ==
  /\ pc[r] = "sending" /\ proc # None
  /\ Send("prompt", r)
  /\ pc' = [pc EXCEPT ![r] = "prompting"]
  /\ peer' = [peer EXCEPT ![r] = proc]
  /\ UNCHANGED <<agentVars, out, taskVars,
                 alive, spawned, termed, rivals, taken, cur, texts, outbox>>

(* The prompt is drained: the deadline is set and _read_events begins.     *)
ExecuteRead(r) ==
  /\ pc[r] = "prompting"
  /\ pc' = [pc EXCEPT ![r] = "loop"]
  /\ peer' = [peer EXCEPT ![r] = None]
  /\ UNCHANGED <<agentVars, out, taskVars, piVars>>

(* drain() may raise when the process at the other end of the pipe is gone. *)
ExecuteSendFails(r) ==
  /\ AtDrain(r) /\ peer[r] \notin alive
  /\ Yield(r, LocalError)
  /\ UNCHANGED <<agentVars, taskVars, piVars>>

(* Mutant: the stream ends after its first event, final or not.            *)
ExecuteResume_FirstEvent(r) ==
  /\ pc[r] = "yield"
  /\ pc' = [pc EXCEPT ![r] = "done"] /\ busy' = FALSE
  /\ UNCHANGED <<proc, status, peer, out, taskVars, piVars>>

(* Back from the client: after a final event the finally clause runs.      *)
ExecuteResume(r) ==
  /\ pc[r] = "yield"
  /\ IF Terminal(Last(out[r]))
     THEN pc' = [pc EXCEPT ![r] = "done"] /\ busy' = FALSE
     ELSE pc' = [pc EXCEPT ![r] = "loop"] /\ UNCHANGED busy
  /\ UNCHANGED <<proc, status, peer, out, taskVars, piVars>>

(* Mutant: the flag is cleared by an except clause, not by a finally.      *)
Cancel_NoFinally(r) ==
  /\ pc[r] \in {"sending", "prompting", "loop", "wait", "yield"}
  /\ peer' = [peer EXCEPT ![r] = None]
  /\ pc' = [pc EXCEPT ![r] = IF pc[r] = "yield" THEN "orphaned"
                             ELSE "cancelled"]
  /\ UNCHANGED <<agentVars, out, taskVars, piVars>>

(* The RPC is cancelled.  At an await the finally clause runs at once; a   *)
(* generator suspended at a yield is only finalised later.                 *)
Cancel(r) ==
  /\ pc[r] \in {"sending", "prompting", "loop", "wait", "yield"}
  /\ peer' = [peer EXCEPT ![r] = None]
  /\ IF pc[r] = "yield"
     THEN pc' = [pc EXCEPT ![r] = "orphaned"] /\ UNCHANGED busy
     ELSE pc' = [pc EXCEPT ![r] = "cancelled"] /\ busy' = FALSE
  /\ UNCHANGED <<proc, status, out, taskVars, piVars>>

(* The event loop closes the abandoned generator.                          *)
Finalize(r) ==
  /\ pc[r] = "orphaned"
  /\ pc' = [pc EXCEPT ![r] = "cancelled"]
  /\ busy' = FALSE
  /\ UNCHANGED <<proc, status, peer, out, taskVars, piVars>>

-----------------------------------------------------------------------------
(* PiAgent._read_events.  "loop" is the top of its loop, where self._proc  *)
(* is read again; "wait" is the await on that process's stdout.            *)

Source(r) == IF pc[r] = "wait" THEN peer[r] ELSE proc
Reading(r) == pc[r] \in {"loop", "wait"} /\ Source(r) # None

WaitedOn(p, r) == \E q \in Exec \ {r} : pc[q] = "wait" /\ peer[q] = p

ReadWait(r) ==
  /\ pc[r] = "loop" /\ Running
  /\ outbox[proc] = <<>> /\ ~WaitedOn(proc, r)
  /\ pc' = [pc EXCEPT ![r] = "wait"]
  /\ peer' = [peer EXCEPT ![r] = proc]
  /\ UNCHANGED <<agentVars, out, taskVars, piVars>>

(* A blank or non-JSON line is skipped; a JSON value that is not an object *)
(* (or a line over the reader's limit) raises; the rest become events.   *)
ReadLine(r) ==
  /\ Reading(r) /\ outbox[Source(r)] # <<>>
  /\ outbox' = [outbox EXCEPT ![Source(r)] = Tail(@)]
  /\ LET l == Head(outbox[Source(r)]) IN
       CASE l.kind = "noise"  -> /\ pc' = [pc EXCEPT ![r] = "loop"]
                                 /\ peer' = [peer EXCEPT ![r] = None]
                                 /\ UNCHANGED out
         [] l.kind = "broken" -> Yield(r, LocalError)
         [] OTHER -> Yield(r, [of |-> l.of, type |-> EventType[l.kind]])
  /\ UNCHANGED <<agentVars, taskVars,
                 alive, spawned, termed, rivals, inbox, taken, cur, texts>>

ReadEof(r) ==
  /\ Reading(r)
  /\ outbox[Source(r)] = <<>> /\ Source(r) \notin alive
  /\ Yield(r, LocalError)
  /\ UNCHANGED <<agentVars, taskVars, piVars>>

(* Mutant: the deadline is only looked at between lines.                   *)
ReadTimeout_NotWhileWaiting(r) ==
  /\ pc[r] = "loop"
  /\ Yield(r, LocalError)
  /\ UNCHANGED <<agentVars, taskVars, piVars>>

(* The deadline of the execution, or 30 seconds of silence.                *)
ReadTimeout(r) ==
  /\ pc[r] \in {"loop", "wait"}
  /\ Yield(r, LocalError)
  /\ UNCHANGED <<agentVars, taskVars, piVars>>

(* stop() cleared self._proc: _send writes nothing and awaits nothing, and *)
(* the assertion or the attribute access of _read_events raises.           *)
ReadNoProc(r) ==
  /\ pc[r] \in {"sending", "loop"} /\ proc = None
  /\ Yield(r, LocalError)
  /\ UNCHANGED <<agentVars, taskVars, piVars>>

(* StreamReader raises when a second coroutine waits for its data.         *)
ReadClash(r) ==
  /\ pc[r] = "loop" /\ Running
  /\ outbox[proc] = <<>> /\ WaitedOn(proc, r)
  /\ Yield(r, LocalError)
  /\ UNCHANGED <<agentVars, taskVars, piVars>>

-----------------------------------------------------------------------------
(* PiAgent.stop, start and restart; the Reload RPC; the end of serve().    *)

(* A restart or the shutdown that has begun and not ended.                 *)
UnderWay(t) == tk[t] \in {"stopping", "spawning", "draining"}

(* What follows stop() when it returns and self._proc is p: the start()    *)
(* of restart(), which keeps a process that runs, or server.stop().        *)
AfterStop(t, p) == IF t = Main THEN "draining"
                   ELSE IF p # None /\ p \in alive THEN "ok" ELSE "spawning"

(* Mutant: the process is forgotten but not terminated.                    *)
StopBegin_NoTerminate(t) ==
  /\ tk[t] = "idle" /\ Accepting
  /\ proc' = None
  /\ IF proc = None
     THEN UNCHANGED <<busy, status>>
     ELSE busy' = FALSE /\ status' = "stopped"
  /\ tk' = [tk EXCEPT ![t] = AfterStop(t, None)]
  /\ UNCHANGED <<execVars, victim, alive, spawned, termed, rivals,
                 inbox, taken, cur, texts, outbox>>

(* Mutant: the process is terminated but not waited for.                   *)
StopBegin_NoWait(t) ==
  /\ tk[t] = "idle" /\ Accepting
  /\ proc' = None
  /\ IF proc = None
     THEN UNCHANGED <<busy, status, termed>>
     ELSE /\ busy' = FALSE
          /\ status' = "stopped"
          /\ termed' = termed \cup {proc}
  /\ tk' = [tk EXCEPT ![t] = AfterStop(t, None)]
  /\ UNCHANGED <<execVars, victim, alive, spawned, rivals,
                 inbox, taken, cur, texts, outbox>>

StopBegin(t) ==
  /\ tk[t] = "idle" /\ Accepting
  /\ proc' = None
  /\ IF proc = None
     THEN UNCHANGED <<busy, status, victim, termed>>
     ELSE /\ busy' = FALSE
          /\ status' = "stopped"
          /\ victim' = [victim EXCEPT ![t] = proc]
          /\ termed' = termed \cup {proc}
  /\ tk' = [tk EXCEPT ![t] = IF Running THEN "stopping"
                             ELSE AfterStop(t, None)]
  /\ UNCHANGED <<execVars, alive, spawned, rivals,
                 inbox, taken, cur, texts, outbox>>

StopWait(t) ==
  /\ tk[t] = "stopping" /\ victim[t] \notin alive
  /\ tk' = [tk EXCEPT ![t] = AfterStop(t, proc)]
  /\ UNCHANGED <<agentVars, execVars, victim, piVars>>

(* Mutant: the wait for the process to exit has no timeout.                *)
StopKill_NoTimeout(t) ==
  /\ tk[t] = "stopping" /\ victim[t] \notin alive
  /\ tk' = [tk EXCEPT ![t] = AfterStop(t, proc)]
  /\ UNCHANGED <<agentVars, execVars, victim, piVars>>

(* Five seconds after SIGTERM: SIGKILL.                                    *)
StopKill(t) ==
  /\ tk[t] = "stopping" /\ victim[t] \in alive
  /\ alive' = alive \ {victim[t]}
  /\ tk' = [tk EXCEPT ![t] = AfterStop(t, proc)]
  /\ UNCHANGED <<agentVars, execVars, victim,
                 spawned, termed, rivals, inbox, taken, cur, texts, outbox>>

(* create_subprocess_exec returns: start() overwrites self._proc.          *)
Spawned(t) ==
  /\ tk[t] = "spawning" /\ spawned < MaxProc
  /\ spawned' = spawned + 1
  /\ rivals' = [rivals EXCEPT ![spawned + 1] = {u \in Task \ {t} : UnderWay(u)}]
  /\ alive' = alive \cup {spawned + 1}
  /\ proc' = spawned + 1 /\ status' = "ready" /\ busy' = FALSE
  /\ tk' = [tk EXCEPT ![t] = "ok"]
  /\ UNCHANGED <<execVars, victim, termed, inbox, taken, cur, texts, outbox>>

(* Mutant: start() swallows the exception and the Reload answers ok.       *)
SpawnFails_Swallowed(t) ==
  /\ tk[t] = "spawning"
  /\ tk' = [tk EXCEPT ![t] = "ok"]
  /\ UNCHANGED <<agentVars, execVars, victim, piVars>>

SpawnFails(t) ==
  /\ tk[t] = "spawning"
  /\ tk' = [tk EXCEPT ![t] = "failed"]
  /\ UNCHANGED <<agentVars, execVars, victim, piVars>>

(* The control plane gives a Reload 30 seconds; then it is cancelled where *)
(* it stands.  A spawn that is cancelled leaves no process behind.         *)
CancelReload(t) ==
  /\ t \in Reload /\ tk[t] \in {"stopping", "spawning"}
  /\ tk' = [tk EXCEPT ![t] = "cancelled"]
  /\ UNCHANGED <<agentVars, execVars, victim, piVars>>

(* server.stop(grace=3) returns when no RPC is left.                       *)
ShutdownExit ==
  /\ tk[Main] = "draining"
  /\ \A r \in Exec : ~InFlight(r)
  /\ \A t \in Reload : tk[t] \notin {"stopping", "spawning"}
  /\ tk' = [tk EXCEPT ![Main] = "exited"]
  /\ UNCHANGED <<agentVars, execVars, victim, piVars>>

-----------------------------------------------------------------------------
(* The pi processes (external).                                            *)

PiTake(p) ==
  /\ p \in alive /\ cur[p] = NoReq /\ taken[p] < Len(inbox[p])
  /\ taken' = [taken EXCEPT ![p] = @ + 1]
  /\ LET c == inbox[p][taken[p] + 1] IN
       cur' = [cur EXCEPT ![p] = IF c.cmd = "prompt" THEN c.of ELSE NoReq]
  /\ texts' = [texts EXCEPT ![p] = 0]
  /\ UNCHANGED <<agentVars, execVars, taskVars,
                 alive, spawned, termed, rivals, inbox, outbox>>

Write(p, k) == outbox' = [outbox EXCEPT ![p] = Append(@, [of |-> cur[p], kind |-> k])]

PiEmit(p) ==
  /\ p \in alive /\ cur[p] # NoReq /\ texts[p] < MaxText
  /\ \E k \in {"text", "noise", "broken"} : Write(p, k)
  /\ texts' = [texts EXCEPT ![p] = @ + 1]
  /\ UNCHANGED <<agentVars, execVars, taskVars,
                 alive, spawned, termed, rivals, inbox, taken, cur>>

PiEnd(p) ==
  /\ p \in alive /\ cur[p] # NoReq
  /\ \E k \in {"agent_end", "error"} : Write(p, k)
  /\ cur' = [cur EXCEPT ![p] = NoReq]
  /\ UNCHANGED <<agentVars, execVars, taskVars,
                 alive, spawned, termed, rivals, inbox, taken, texts>>

PiExit(p) ==
  /\ p \in alive
  /\ alive' = alive \ {p}
  /\ UNCHANGED <<agentVars, execVars, taskVars,
                 spawned, termed, rivals, inbox, taken, cur, texts, outbox>>

-----------------------------------------------------------------------------
ExecStep(r) ==
  \/ ExecuteCommand(r) \/ ExecutePrompt(r) \/ ExecuteRead(r) \/ ExecuteSendFails(r)
  \/ ExecuteResume(r) \/ Finalize(r)
  \/ ReadWait(r) \/ ReadLine(r) \/ ReadEof(r) \/ ReadTimeout(r)
  \/ ReadNoProc(r) \/ ReadClash(r)

TaskStep(t) == StopWait(t) \/ StopKill(t) \/ Spawned(t) \/ SpawnFails(t)

PiStep(p) == PiTake(p) \/ PiEmit(p) \/ PiEnd(p) \/ PiExit(p)

Next == \/ \E r \in Exec : ExecuteReject(r) \/ ExecuteBegin(r) \/ Cancel(r)
                           \/ ExecStep(r)
        \/ \E t \in Task : StopBegin(t) \/ TaskStep(t) \/ CancelReload(t)
        \/ ShutdownExit
        \/ \E p \in Proc : PiStep(p)

Spec == Init /\ [][Next]_vars

(* r awaits the drain of a process that runs.  Nothing in the server ends  *)
(* this wait: pi has to read on, or to die.                                *)
Blocked(r) == AtDrain(r) /\ peer[r] \in alive

(* The event loop runs every coroutine that is ready, the timers it armed  *)
(* fire, a client that stops reading is eventually cancelled or reads on,  *)
(* and server.stop(grace=3) cancels the RPCs it finds after three seconds. *)
(* Nothing is assumed of pi, neither that it answers nor that it reads its *)
(* stdin, nor that requests arrive.                                        *)
Fairness == /\ \A r \in Exec : /\ WF_vars(~Blocked(r) /\ ExecStep(r))
                             /\ WF_vars(tk[Main] = "draining" /\ Cancel(r))
            /\ \A t \in Task : WF_vars(TaskStep(t))
            /\ WF_vars(ShutdownExit)

LiveSpec == Spec /\ Fairness

-----------------------------------------------------------------------------
(* Properties                                                              *)

AgentType == /\ proc \in 0 .. MaxProc
             /\ busy \in BOOLEAN
             /\ status \in {"ready", "stopped"}

ExecType == /\ pc \in [Exec -> ExecPC]
            /\ peer \in [Exec -> 0 .. MaxProc]
            /\ out \in [Exec -> Seq(Event)]

TaskType == /\ tk \in [Task -> TaskPC]
            /\ victim \in [Task -> 0 .. MaxProc]

PiType == /\ spawned \in Proc
          /\ alive \subseteq 1 .. spawned
          /\ termed \subseteq 1 .. spawned
          /\ rivals \in [Proc -> SUBSET Task]
          /\ inbox \in [Proc -> Seq(Command)]
          /\ taken \in [Proc -> Nat]
          /\ cur \in [Proc -> Exec \cup {NoReq}]
          /\ texts \in [Proc -> Nat]
          /\ outbox \in [Proc -> Seq(Line)]

(* The state of the agent server is well typed, and the handle it holds is *)
(* of a process it spawned.                                                *)
TypeOK == AgentType /\ ExecType /\ TaskType /\ PiType /\ proc <= spawned

(* The agent never stays busy for nobody: whenever _busy is set, some      *)
(* execution that will clear it has not finished.  However executions end  *)
(* (final event, exception, cancellation at an await or at a yield) and    *)
(* whatever restarts happen meanwhile, the agent accepts prompts again.    *)
BusyHasOwner == busy => \E r \in Exec : InFlight(r)

(* What GetInfo reports agrees with the handle: "ready" exactly when there *)
(* is a pi process to send to, through any overlap of stops and starts.    *)
StatusMatchesProc == status = "ready" <=> proc # None

(* A stream that ended by itself carries exactly one final event, and it   *)
(* is the last; a stream that still runs or was cancelled has at most one. *)
OneTerminalEvent ==
  \A r \in Exec :
    /\ \A i \in DOMAIN out[r] : Terminal(out[r][i]) => i = Len(out[r])
    /\ pc[r] = "done" => out[r] # <<>> /\ Terminal(Last(out[r]))

(* While nothing reloads the agent, two executions never hold pi at once:  *)
(* the busy flag is a lock, although it is tested and set around awaits.   *)
MutualExclusion ==
  \A r, q \in Exec : InFlight(r) /\ InFlight(q) => r = q

(* A client is shown another execution's output only when that execution   *)
(* ended before it read its own last line: it was cancelled, timed out, hit *)
(* a line that raised, or was itself closed by a line of an earlier one.   *)
(* Without such an event pi's stdout never mixes two clients.              *)
ForeignOutputOnlyFromAbandoned ==
  \A r \in Exec : \A i \in DOMAIN out[r] :
    LET q == out[r][i].of IN
    q \notin {r, NoReq} =>
      \/ pc[q] = "cancelled"
      \/ pc[q] = "done" /\ Last(out[q]).of # q

(* Every prompt reaches pi directly after the set_model of the same        *)
(* execution: no prompt runs under a model that another client chose.      *)
PromptUnderOwnModel ==
  \A p \in Proc : \A i \in DOMAIN inbox[p] :
    inbox[p][i].cmd = "prompt" =>
      i > 1 /\ inbox[p][i - 1] = [cmd |-> "set_model", of |-> inbox[p][i].of]

(* A pi process survives its server for two reasons only: it was spawned   *)
(* by a Reload while the shutdown or another Reload was under way, or its  *)
(* stop() was cancelled with the Reload before it came to the SIGKILL.     *)
ShutdownLeavesNoPi ==
  tk[Main] = "exited" =>
    \A p \in alive : \/ rivals[p] # {}
                     \/ \E t \in Reload : tk[t] = "cancelled" /\ victim[t] = p

(* However reloads, their cancellation and a shutdown overlap, a process   *)
(* that runs is the current one or has been told to stop, unless it was    *)
(* spawned beside another restart, which then overwrote the handle.        *)
NoLeakedPi ==
  \A p \in alive : \/ p = proc \/ p \in termed
                   \/ rivals[p] \cap Reload # {}

(* A server has no pi process to send prompts to only while it shuts down  *)
(* or a restart is at work, or after a restart that failed or was cut off: *)
(* one that answered ok never costs the process another one has brought.   *)
NoPiHasACause ==
  proc = None => \/ tk[Main] # "idle"
                 \/ \E t \in Reload : \/ UnderWay(t)
                                      \/ tk[t] \in {"failed", "cancelled"}

(* The agent's streams are the streams ExecuteStream promises.             *)
PhaseOf(r) == CASE pc[r] = "new" -> "idle"
                [] pc[r] = "done" -> "closed"
                [] pc[r] = "cancelled" -> "cancelled"
                [] OTHER -> "open"

SentOf(r) == [i \in DOMAIN out[r] |->
                IF Terminal(out[r][i]) THEN "final" ELSE "event"]

Stream == INSTANCE ExecuteStream WITH
            phase <- [r \in Exec |-> PhaseOf(r)],
            sent  <- [r \in Exec |-> SentOf(r)]

ImplementsStream == Stream!Spec

(* An execution is over some day, whatever pi answers or fails to answer,  *)
(* unless it waits for ever for one process to read its stdin: the drain   *)
(* is the one await that neither a timer nor EOF nor the server ends.      *)
ExecutionsEnd ==
  \A r \in Exec : []<>(~InFlight(r)) \/ <>[]Blocked(r)

(* Once stop() has begun on behalf of SIGTERM the server exits, and every  *)
(* reload ends.                                                            *)
TasksEnd ==
  /\ tk[Main] = "stopping" ~> tk[Main] = "exited"
  /\ \A t \in Reload :
       tk[t] = "stopping" ~> tk[t] \in {"ok", "failed", "cancelled"}
=============================================================================
