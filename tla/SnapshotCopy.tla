---------------------------- MODULE SnapshotCopy ----------------------------
(***************************************************************************)
(* What readers of the snapshot file may rely on, whatever the handlers,   *)
(* the queue and the worker go through: it shows the agents' rows as they  *)
(* were committed at one moment, it never goes back to an earlier moment,  *)
(* and a flush that was promised is reported as done only when the file    *)
(* has caught up with the moment at which it was promised.  A server runs  *)
(* under the record that the file showed when it loaded it.                *)
(* SnapshotFlush implements this specification.                            *)
(***************************************************************************)
EXTENDS JobQueue, Sequences

CONSTANTS Start,        \* the starts of servers
          Target,       \* Target[s]: the agent that s starts
          Table,        \* the contents that the agents' table may have
          Empty,        \* its first content
          NoRecord      \* no record loaded yet

VARIABLES hist,         \* the committed contents, oldest first
          shown,        \* what the file shows
          moment,       \* which of the contents that is, 0 before the first
          asked,        \* asked[j]: the last content when j was promised
          served        \* served[s]: the record that the server of s runs under

cvars == <<qvars, hist, shown, moment, asked, served>>

Init == /\ QueueInit
        /\ hist = <<Empty>> /\ shown = Empty /\ moment = 0
        /\ asked = [j \in Job |-> 0]
        /\ served = [s \in Start |-> NoRecord]

Change == /\ \E t \in Table : hist' = Append(hist, t)
          /\ UNCHANGED <<qvars, shown, moment, asked, served>>

Publish == /\ \E i \in DOMAIN hist : /\ i >= moment
                                     /\ moment' = i /\ shown' = hist[i]
           /\ UNCHANGED <<qvars, hist, asked, served>>

Ask(j) == /\ Accept(j)
          /\ asked' = [asked EXCEPT ![j] = Len(hist)]
          /\ UNCHANGED <<hist, shown, moment, served>>

Flushed(j) == /\ moment >= asked[j]
              /\ Keep(j)
              /\ UNCHANGED <<hist, shown, moment, asked, served>>

Unsettled(j) == /\ Attempt(j) \/ GiveUp(j)
                /\ UNCHANGED <<hist, shown, moment, asked, served>>

Load(s) == /\ served[s] = NoRecord
           /\ served' = [served EXCEPT ![s] = shown[Target[s]]]
           /\ UNCHANGED <<qvars, hist, shown, moment, asked>>

Next == \/ \E j \in Job : Ask(j) \/ Flushed(j) \/ Unsettled(j)
        \/ \E s \in Start : Load(s)
        \/ Change \/ Publish

Spec == Init /\ [][Next]_cvars
=============================================================================
