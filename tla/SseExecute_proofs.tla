-------------------------- MODULE SseExecute_proofs --------------------------
(***************************************************************************)
(* Proofs about SseExecute, for any number of browsers, reloads and pi     *)
(* processes.  They rest on those of PiAgent_proofs, which hold of the     *)
(* composition because it is a behaviour of the agent server.              *)
(***************************************************************************)
EXTENDS SseExecute, PiAgent_proofs

(***************************************************************************)
(* The composition is a behaviour of the agent server                      *)
(***************************************************************************)

LEMMA StepOfAgent == [SseNext]_sseVars => [Next]_vars
BY DEF SseNext, sseVars, ServerStep, Get, Deliver, CallFails, Break, Leave

(* Putting browsers in front of the agent server adds nothing to what it   *)
(* does: every theorem about Spec is one about SseSpec.                    *)
THEOREM ComposedIsAgent == SseSpec => Spec
<1>1. SseInit => Init
  BY DEF SseInit
<1> QED BY <1>1, StepOfAgent, PTL DEF SseSpec, Spec

(***************************************************************************)
(* Types                                                                   *)
(***************************************************************************)

(* What SseTypeOK says of the handlers.                                    *)
WebType ==
  /\ web \in [Exec -> WebPC]
  /\ shown \in [Exec -> Seq({"event", "final"})]
  /\ \A r \in Exec :
       web[r] \in {"new", "refused"} => pc[r] = "new" /\ shown[r] = <<>>

LEMMA KindType == \A e : Kind(e) \in {"event", "final"}
BY DEF Kind

LEMMA ShowType ==
  ASSUME NEW r \in Exec, NEW k \in {"event", "final"}, Show(r, k),
         shown \in [Exec -> Seq({"event", "final"})]
  PROVE  /\ shown' \in [Exec -> Seq({"event", "final"})]
         /\ \A q \in Exec \ {r} : shown'[q] = shown[q]
         /\ shown'[r] = Append(shown[r], k)
BY DEF Show

LEMMA NextWeb == WebType /\ [SseNext]_sseVars => WebType'
<1> SUFFICES ASSUME WebType, [SseNext]_sseVars PROVE WebType'
  OBVIOUS
<1>1. CASE ServerStep
  BY <1>1 DEF ServerStep, webVars, WebType
<1>2. ASSUME NEW r \in Exec, Get(r) PROVE WebType'
  BY <1>2 DEF Get, vars, execVars, WebType, WebPC
<1>3. ASSUME NEW r \in Exec, Deliver(r) PROVE WebType'
  BY <1>3, KindType, ShowType DEF Deliver, vars, execVars, WebType
<1>4. ASSUME NEW r \in Exec, CallFails(r) PROVE WebType'
  BY <1>4, ShowType DEF CallFails, vars, execVars, WebType
<1>5. ASSUME NEW r \in Exec, Break(r) \/ Leave(r) PROVE WebType'
  BY <1>5 DEF Break, Leave, vars, execVars, WebType, WebPC
<1>6. CASE UNCHANGED sseVars
  BY <1>6 DEF sseVars, webVars, vars, execVars, WebType
<1> QED BY <1>1, <1>2, <1>3, <1>4, <1>5, <1>6 DEF SseNext

LEMMA InitWeb == SseInit => WebType
BY DEF SseInit, Init, WebType, WebPC

LEMMA WebInvariant == SseSpec => []WebType
BY InitWeb, NextWeb, PTL DEF SseSpec

(* The composed state is well typed, and no RPC is made for a browser that *)
(* was turned away.                                                        *)
THEOREM SseTypeCorrect == SseSpec => []SseTypeOK
<1>1. TypeOK /\ WebType => SseTypeOK
  BY DEF WebType, SseTypeOK
<1> QED BY <1>1, WebInvariant, ComposedIsAgent, TypeCorrect, PTL

(***************************************************************************)
(* What a browser is sent is an ExecuteStream                              *)
(***************************************************************************)

WebPhases == [r \in Exec |-> WebPhase(r)]

LEMMA InitBrowser == SseInit => Browser!Init
BY DEF SseInit, Browser!Init, WebPhase

(* A step of r's handler changes the phase of r only.                      *)
LEMMA PhaseOfStep ==
  ASSUME WebType, NEW r \in Exec, NEW w \in WebPC, web' = [web EXCEPT ![r] = w]
  PROVE  WebPhases' = [WebPhases EXCEPT ![r] = WebPhase(r)']
BY DEF WebPhases, WebPhase, WebType

LEMMA NextBrowser == WebType /\ [SseNext]_sseVars => [Browser!Next]_(Browser!svars)
<1> SUFFICES ASSUME WebType, [SseNext]_sseVars
             PROVE  Browser!Next \/ UNCHANGED Browser!svars
  OBVIOUS
<1>1. CASE UNCHANGED webVars
  BY <1>1 DEF webVars, Browser!svars, WebPhase
<1>2. ASSUME NEW r \in Exec, Get(r) PROVE Browser!Next \/ UNCHANGED Browser!svars
  <2>1. PICK w \in {"open", "refused"} : web' = [web EXCEPT ![r] = w]
    BY <1>2 DEF Get
  <2>2. web[r] = "new" /\ web'[r] = w /\ UNCHANGED shown
    BY <1>2, <2>1 DEF Get, WebType
  <2>3. WebPhases' = [WebPhases EXCEPT ![r] = WebPhase(r)']
    BY <2>1, PhaseOfStep DEF WebPC
  <2>4. CASE w = "open"
    <3>1. WebPhase(r) = "idle" /\ WebPhase(r)' = "open"
      BY <2>2, <2>4 DEF WebPhase
    <3>2. Browser!Open(r)
      BY <2>2, <2>3, <3>1 DEF Browser!Open, WebPhases
    <3> QED BY <3>2 DEF Browser!Next
  <2>5. CASE w = "refused"
    <3>1. WebPhase(r) = "idle" /\ WebPhase(r)' = "idle"
      BY <2>2, <2>5 DEF WebPhase
    <3>2. WebPhases' = WebPhases
      BY <2>3, <3>1 DEF WebPhases
    <3> QED BY <2>2, <3>2 DEF Browser!svars, WebPhases
  <2> QED BY <2>4, <2>5
<1>3. ASSUME NEW r \in Exec, Deliver(r) \/ CallFails(r) PROVE Browser!Next
  <2>1. PICK k \in {"event", "final"} : Show(r, k)
    BY <1>3, KindType DEF Deliver, CallFails
  <2>2. web[r] = "open" /\ ~Final(r) /\ UNCHANGED web
    BY <1>3 DEF Deliver, CallFails
  <2>3. WebPhase(r) = "open" /\ ~Browser!Finished(r)
    BY <2>2 DEF WebPhase, Browser!Finished, Final, Last
  <2>4. WebPhases' = WebPhases
    BY <2>2 DEF WebPhases, WebPhase
  <2>5. Browser!Send(r, k)
    BY <2>1, <2>3, <2>4 DEF Browser!Send, Show, WebPhases
  <2> QED BY <2>5 DEF Browser!Next, Browser!Event
<1>4. ASSUME NEW r \in Exec, Break(r) PROVE Browser!Next
  <2>1. web[r] = "open" /\ Final(r) /\ web'[r] = "ended" /\ UNCHANGED shown
    BY <1>4 DEF Break, WebType
  <2>2. WebPhases' = [WebPhases EXCEPT ![r] = WebPhase(r)']
    BY <1>4, PhaseOfStep DEF Break, WebPC
  <2>3. WebPhase(r) = "open" /\ WebPhase(r)' = "closed"
    BY <2>1 DEF WebPhase
  <2>4. Browser!Close(r)
    BY <2>1, <2>2, <2>3 DEF Browser!Close, Browser!Finished, Final, Last, WebPhases
  <2> QED BY <2>4 DEF Browser!Next
<1>5. ASSUME NEW r \in Exec, Leave(r) PROVE Browser!Next
  <2>1. web[r] = "open" /\ web'[r] = "left" /\ UNCHANGED shown
    BY <1>5 DEF Leave, WebType
  <2>2. WebPhases' = [WebPhases EXCEPT ![r] = WebPhase(r)']
    BY <1>5, PhaseOfStep DEF Leave, WebPC
  <2>3. WebPhase(r) = "open" /\ WebPhase(r)' = "cancelled"
    BY <2>1 DEF WebPhase
  <2>4. Browser!Abandon(r)
    BY <2>1, <2>2, <2>3 DEF Browser!Abandon, WebPhases
  <2> QED BY <2>4 DEF Browser!Next
<1>6. UNCHANGED webVars \/ \E r \in Exec : \/ Get(r) \/ Deliver(r) \/ CallFails(r)
                                          \/ Break(r) \/ Leave(r)
  BY DEF SseNext, sseVars, ServerStep
<1> QED BY <1>1, <1>2, <1>3, <1>4, <1>5, <1>6

(* Across both hops a browser gets a well formed stream: one final event   *)
(* at the end, unless it left.                                             *)
THEOREM BrowserGetsStream == SseSpec => BrowserStream
<1>1. WebType /\ WebType' /\ [SseNext]_sseVars => [Browser!Next]_(Browser!svars)
  BY NextBrowser
<1> QED BY <1>1, InitBrowser, WebInvariant, PTL
    DEF SseSpec, BrowserStream, Browser!Spec

(***************************************************************************)
(* What the handler relays                                                 *)
(***************************************************************************)

(* The agent never takes back what it has yielded.                         *)
OutGrows(r) ==
  \A i \in DOMAIN out[r] : i \in DOMAIN out'[r] /\ out'[r][i] = out[r][i]

LEMMA AppendGrows ==
  ASSUME TypeOK, NEW r \in Exec, NEW e \in Event, out' = [out EXCEPT ![r] = Append(@, e)]
  PROVE  \A q \in Exec : OutGrows(q)
<1>1. out[r] \in Seq(Event) /\ out'[r] = Append(out[r], e)
  BY DEF TypeOK, ExecType
<1>2. OutGrows(r)
  BY <1>1, AppendProperties DEF OutGrows
<1>3. ASSUME NEW q \in Exec \ {r} PROVE out'[q] = out[q]
  BY DEF TypeOK, ExecType
<1> QED BY <1>2, <1>3 DEF OutGrows

LEMMA NextGrows == TypeOK /\ [Next]_vars => \A r \in Exec : OutGrows(r)
<1> SUFFICES ASSUME TypeOK, [Next]_vars PROVE \A r \in Exec : OutGrows(r)
  OBVIOUS
<1>1. CASE UNCHANGED out
  BY <1>1 DEF OutGrows
<1>2. ASSUME NEW r \in Exec, NEW e \in Event, Yield(r, e)
      PROVE  \A q \in Exec : OutGrows(q)
  BY <1>2, AppendGrows DEF Yield
<1>3. ASSUME NEW r \in Exec, ReadLine(r) PROVE \A q \in Exec : OutGrows(q)
  BY <1>1, <1>2, <1>3, ReadLineYields
<1>4. ASSUME NEW r \in Exec, ExecuteReject(r) PROVE \A q \in Exec : OutGrows(q)
  BY <1>4, AppendGrows, LocalErrorType DEF ExecuteReject
<1>5. ASSUME NEW r \in Exec, \/ ExecuteSendFails(r) \/ ReadEof(r) \/ ReadTimeout(r)
                             \/ ReadNoProc(r) \/ ReadClash(r)
      PROVE  \A q \in Exec : OutGrows(q)
  BY <1>2, <1>5, LocalErrorType
  DEF ExecuteSendFails, ReadEof, ReadTimeout, ReadNoProc, ReadClash
<1>6. ASSUME NEW r \in Exec, \/ ExecuteBegin(r) \/ Cancel(r) \/ ExecuteCommand(r)
                             \/ ExecutePrompt(r) \/ ExecuteRead(r)
                             \/ ExecuteResume(r) \/ ReadWait(r) \/ Finalize(r)
      PROVE  UNCHANGED out
  BY <1>6 DEF ExecuteBegin, Cancel, ExecuteCommand, ExecutePrompt, ExecuteRead,
     ExecuteResume, ReadWait, Finalize
<1>7. UNCHANGED execVars => UNCHANGED out
  BY DEF execVars
<1> QED
  BY <1>1, <1>3, <1>4, <1>5, <1>6, <1>7, NotExecLeavesStreams DEF ExecStep

(* An ordinary event that a browser is sent is the one that the agent      *)
(* yielded at that place: the handler invents none, skips none and changes *)
(* no order, across a reload, a failing call and a cancelled execution.    *)
NothingInvented ==
  \A r \in Exec : \A i \in DOMAIN shown[r] :
    shown[r][i] = "event" => i \in DOMAIN out[r] /\ ~Terminal(out[r][i])

LEMMA NextRelayed ==
  TypeOK /\ WebType /\ NothingInvented /\ [SseNext]_sseVars => NothingInvented'
<1> SUFFICES ASSUME TypeOK, WebType, NothingInvented, [SseNext]_sseVars
             PROVE  NothingInvented'
  OBVIOUS
<1>1. CASE UNCHANGED shown /\ [Next]_vars
  BY <1>1, NextGrows DEF NothingInvented, OutGrows
<1>2. ASSUME NEW r \in Exec, Deliver(r) PROVE NothingInvented'
  <2> DEFINE n == Len(shown[r])
             k == Kind(out[r][n + 1])
  <2>1. /\ shown[r] \in Seq({"event", "final"}) /\ shown'[r] = Append(shown[r], k)
        /\ \A q \in Exec \ {r} : shown'[q] = shown[q]
        /\ UNCHANGED out
    BY <1>2, KindType, ShowType DEF Deliver, WebType, vars, execVars
  <2>2. n + 1 \in DOMAIN out[r]
    BY <1>2, <2>1 DEF Deliver, TypeOK, ExecType
  <2>3. k = "event" => ~Terminal(out[r][n + 1])
    BY DEF Kind
  <2>a. k \in {"event", "final"}
    BY DEF Kind
  <2> HIDE DEF k
  <2>4. \A i \in DOMAIN shown'[r] :
          \/ i \in DOMAIN shown[r] /\ shown'[r][i] = shown[r][i]
          \/ i = n + 1 /\ shown'[r][i] = k
    BY <2>1, <2>a, AppendProperties
  <2> HIDE DEF n
  <2> QED BY <2>1, <2>2, <2>3, <2>4 DEF NothingInvented
<1>3. ASSUME NEW r \in Exec, CallFails(r) PROVE NothingInvented'
  <2>1. /\ shown[r] \in Seq({"event", "final"}) /\ shown'[r] = Append(shown[r], "final")
        /\ \A q \in Exec \ {r} : shown'[q] = shown[q]
        /\ UNCHANGED out
    BY <1>3, ShowType DEF CallFails, WebType, vars, execVars
  <2>2. \A i \in DOMAIN shown'[r] :
          \/ i \in DOMAIN shown[r] /\ shown'[r][i] = shown[r][i]
          \/ shown'[r][i] = "final"
    BY <2>1, AppendProperties
  <2> QED BY <2>1, <2>2 DEF NothingInvented
<1>4. \/ UNCHANGED shown /\ [Next]_vars
      \/ \E r \in Exec : Deliver(r) \/ CallFails(r)
  BY StepOfAgent DEF SseNext, sseVars, webVars, ServerStep, Get, Break, Leave
<1> QED BY <1>1, <1>2, <1>3, <1>4

(* The relay is faithful: every event that the browser is shown before the *)
(* final one is the agent's own, at its place in the stream of the RPC     *)
(* (sse_execute of ws.py, ChibuClient.execute of client.py).               *)
THEOREM RelayIsFaithful == SseSpec => []NothingInvented
<1>1. SseInit => NothingInvented
  BY DEF SseInit, NothingInvented
<1> QED BY <1>1, NextRelayed, WebInvariant, ComposedIsAgent, TypeCorrect, PTL
  DEF SseSpec
=============================================================================
