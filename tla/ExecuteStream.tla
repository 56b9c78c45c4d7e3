--------------------------- MODULE ExecuteStream ---------------------------
(***************************************************************************)
(* What a client of the Execute RPC may rely on, whatever happens inside   *)
(* the agent server: a stream is any number of ordinary events followed by *)
(* exactly one final event (is_done = True), after which it closes; a      *)
(* client that goes away before that cancels it, and nothing is sent on a  *)
(* cancelled stream.  PiAgent implements this specification.               *)
(***************************************************************************)
EXTENDS Naturals, Sequences

CONSTANT Exec           \* the Execute calls

VARIABLES phase,        \* phase[r]: where call r stands
          sent          \* sent[r]: the events r's client was offered

svars == <<phase, sent>>

Phase == {"idle", "open", "closed", "cancelled"}
Event == {"event", "final"}

Finished(r) == sent[r] # <<>> /\ sent[r][Len(sent[r])] = "final"

Init == /\ phase = [r \in Exec |-> "idle"]
        /\ sent = [r \in Exec |-> <<>>]

(* The agent accepts the prompt. *)
Open(r) == /\ phase[r] = "idle"
           /\ phase' = [phase EXCEPT ![r] = "open"]
           /\ UNCHANGED sent

(* The agent turns the prompt away with a single final event. *)
Refuse(r) == /\ phase[r] = "idle"
             /\ phase' = [phase EXCEPT ![r] = "closed"]
             /\ sent' = [sent EXCEPT ![r] = <<"final">>]

Send(r, e) == /\ phase[r] = "open"
              /\ ~Finished(r)
              /\ sent' = [sent EXCEPT ![r] = Append(@, e)]
              /\ UNCHANGED phase

Close(r) == /\ phase[r] = "open"
            /\ Finished(r)
            /\ phase' = [phase EXCEPT ![r] = "closed"]
            /\ UNCHANGED sent

Abandon(r) == /\ phase[r] = "open"
              /\ phase' = [phase EXCEPT ![r] = "cancelled"]
              /\ UNCHANGED sent

Next == \E r \in Exec : \/ Open(r)
                        \/ Refuse(r)
                        \/ \E e \in Event : Send(r, e)
                        \/ Close(r)
                        \/ Abandon(r)

Spec == Init /\ [][Next]_svars
=============================================================================
