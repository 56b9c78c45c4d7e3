----------------------------- MODULE SseExecute -----------------------------
(***************************************************************************)
(* A prompt from the dashboard: the handler that turns an Execute RPC into *)
(* Server-Sent Events (control_plane/routers/ws.py, sse_execute) and the   *)
(* gRPC client it uses (grpc_server/client.py), composed with the agent    *)
(* server of PiAgent.  Every Execute RPC is now one that such a handler    *)
(* makes; the events of out[r] travel to it in order (gRPC, external).     *)
(***************************************************************************)
EXTENDS PiAgent

VARIABLES
  web,    \* web[r]: where the handler of browser request r is
  shown   \* shown[r]: the kinds of the events it has sent to the browser

webVars == <<web, shown>>
sseVars == <<vars, webVars>>

WebPC == {"new", "refused", "open", "ended", "left"}

Kind(e) == IF Terminal(e) THEN "final" ELSE "event"

(* The browser has been sent an event with is_done = True.                 *)
Final(r) == shown[r] # <<>> /\ Last(shown[r]) = "final"

Show(r, k) == shown' = [shown EXCEPT ![r] = Append(@, k)]

SseInit ==
  /\ Init
  /\ web = [r \in Exec |-> "new"]
  /\ shown = [r \in Exec |-> <<>>]

-----------------------------------------------------------------------------
(* Mutant: the call is made before the handler has looked at the agent.    *)
ServerStep_Unasked == Next /\ UNCHANGED webVars

(* The agent server.  An RPC reaches it only while its handler wants it.   *)
ServerStep ==
  /\ Next
  /\ \A r \in Exec : pc[r] = "new" /\ pc'[r] # "new" => web[r] = "open"
  /\ UNCHANGED webVars

(* 404 or 409 without a stream, or the channel is opened and the call made. *)
Get(r) ==
  /\ web[r] = "new"
  /\ \E w \in {"open", "refused"} : web' = [web EXCEPT ![r] = w]
  /\ UNCHANGED <<vars, shown>>

(* The next event goes to the browser; it becomes one "data:" line.        *)
Deliver(r) ==
  /\ web[r] = "open" /\ ~Final(r) /\ Len(shown[r]) < Len(out[r])
  /\ Show(r, Kind(out[r][Len(shown[r]) + 1]))
  /\ UNCHANGED <<vars, web>>

(* Mutant: the RpcError is logged, and no event made of it.                *)
CallFails_Swallowed(r) ==
  /\ web[r] = "open" /\ ~Final(r)
  /\ web' = [web EXCEPT ![r] = "ended"]
  /\ UNCHANGED <<vars, shown>>

(* An RpcError: nobody listens, the server is gone or cancels the call, or *)
(* the deadline, five seconds after that of the execution, has passed.     *)
CallFails(r) ==
  /\ web[r] = "open" /\ ~Final(r)
  /\ Show(r, "final")
  /\ UNCHANGED <<vars, web>>

(* The browser took the final event: the loop ends, the channel closes.    *)
Break(r) ==
  /\ web[r] = "open" /\ Final(r)
  /\ web' = [web EXCEPT ![r] = "ended"]
  /\ UNCHANGED <<vars, shown>>

(* The browser goes away, and the channel with it.                         *)
Leave(r) ==
  /\ web[r] = "open"
  /\ web' = [web EXCEPT ![r] = "left"]
  /\ UNCHANGED <<vars, shown>>

SseNext ==
  \/ ServerStep
  \/ \E r \in Exec : Get(r) \/ Deliver(r) \/ CallFails(r) \/ Break(r) \/ Leave(r)

SseSpec == SseInit /\ [][SseNext]_sseVars

(* The RPC cannot produce another event: it never reached the server, or   *)
(* was cancelled there and all it sent has arrived.                        *)
Dead(r) == \/ pc[r] = "new"
           \/ pc[r] \in {"orphaned", "cancelled"} /\ Len(shown[r]) = Len(out[r])

(* A call that is dead fails.  The deadline that sse_execute gives its call *)
(* passes too, but is relied on only while pi does not read its stdin.  A  *)
(* browser that does not take its events counts as one that left.          *)
SseFairness ==
  /\ Fairness
  /\ \A r \in Exec : /\ WF_sseVars(Deliver(r))
                     /\ WF_sseVars((Dead(r) \/ Blocked(r)) /\ CallFails(r))
                     /\ WF_sseVars(Break(r))

SseLiveSpec == SseSpec /\ SseFairness

-----------------------------------------------------------------------------
(* Properties                                                              *)

(* The state is well typed, and a handler that has not made its call has   *)
(* none at the server.                                                     *)
SseTypeOK ==
  /\ TypeOK
  /\ web \in [Exec -> WebPC]
  /\ shown \in [Exec -> Seq({"event", "final"})]
  /\ \A r \in Exec :
       web[r] \in {"new", "refused"} => pc[r] = "new" /\ shown[r] = <<>>

(* What the browser is sent is a stream as ExecuteStream promises it,      *)
(* across both hops: however the RPC ends - final event, error of the      *)
(* server, cancellation, deadline - the browser is sent one final event    *)
(* and nothing after it.                                                   *)
WebPhase(r) == CASE web[r] \in {"new", "refused"} -> "idle"
                 [] web[r] = "open" -> "open"
                 [] web[r] = "ended" -> "closed"
                 [] OTHER -> "cancelled"

Browser == INSTANCE ExecuteStream WITH
             phase <- [r \in Exec |-> WebPhase(r)],
             sent  <- shown

BrowserStream == Browser!Spec

(* Every stream that was opened to a browser ends, or the browser leaves.  *)
(* The server brings this about, by a final event or a cancellation, in    *)
(* every case but one: while it waits for pi to read its stdin only the    *)
(* deadline of the gRPC client ends the stream.                            *)
StreamsEnd ==
  \A r \in Exec : web[r] = "open" ~> web[r] \in {"ended", "left"}
=============================================================================
