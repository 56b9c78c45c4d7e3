---------------------------- MODULE EditPromise ----------------------------
(***************************************************************************)
(* What the author of a skill or an extension may rely on, whatever the    *)
(* control plane, its queue, its worker and the agent server go through:   *)
(* an edit is written once; every pi begins with all the edits written so  *)
(* far and learns of no other; and the reload promised for an edit is      *)
(* reported as done only when no pi runs that began before the edit.       *)
(* HotReload implements this specification.                                *)
(***************************************************************************)
EXTENDS JobQueue

VARIABLES written,      \* the edits in the workspace
          pi,           \* whether a pi runs
          known         \* the edits it found there when it began

evars == <<qvars, written, pi, known>>

Init == /\ QueueInit
        /\ written = {} /\ pi = "down" /\ known = {}

(* With or without the promise of a reload.                                *)
Write(e) == /\ e \in Job \ written
            /\ written' = written \cup {e}
            /\ Accept(e) \/ UNCHANGED qvars
            /\ UNCHANGED <<pi, known>>

PiBegins == /\ pi' = "up" /\ known' = written
            /\ UNCHANGED <<qvars, written>>

PiEnds == /\ pi' = "down"
          /\ UNCHANGED <<qvars, written, known>>

Reloaded(e) == /\ pi = "up" => e \in known
               /\ Keep(e)
               /\ UNCHANGED <<written, pi, known>>

Unsettled(e) == /\ Attempt(e) \/ GiveUp(e)
                /\ UNCHANGED <<written, pi, known>>

Next == \/ \E e \in Job : Write(e) \/ Reloaded(e) \/ Unsettled(e)
        \/ PiBegins \/ PiEnds

Spec == Init /\ [][Next]_evars
=============================================================================
