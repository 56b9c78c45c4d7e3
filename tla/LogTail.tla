------------------------------- MODULE LogTail -------------------------------
(***************************************************************************)
(* How what an agent server logs reaches a browser: the log file, the      *)
(* watchdogs that notice its growth (honker/_workers.py,                   *)
(* run_log_watchdog), their place in the process manager                   *)
(* (process/manager.py) and the WebSocket handler that shows the log       *)
(* (control_plane/routers/ws.py, ws_logs), for one agent.                  *)
(*                                                                         *)
(* A position is a character of the file.  Sizes and offsets are bytes in  *)
(* the code; all of them lie between two characters, so the model counts   *)
(* the characters before them and remembers which are wide, that is, take  *)
(* more than one byte in UTF-8: the handler reads as many characters as    *)
(* there are bytes to read.  Notifications are external (honker): each one *)
(* goes, in order, to the listeners there are when it commits.             *)
(***************************************************************************)
EXTENDS Naturals, Sequences, FiniteSets

CONSTANTS Viewer,     \* the WebSocket connections to /ws/{agent_id}/logs
          TailLen,    \* how much of the file a new viewer is shown
          MaxSize,    \* bound: characters logged
          MaxDog,     \* bound: watchdogs started
          MaxCrash    \* bound: crashes of the control plane

ASSUME LogTailAssumption ==
  TailLen \in Nat /\ MaxSize \in Nat /\ MaxDog \in Nat /\ MaxCrash \in Nat

None == 0
Dog  == 1 .. MaxDog    \* watchdogs, in the order they are started

VARIABLES
  size,     \* characters in agent.log
  wide,     \* those that take more than one byte
  dog,      \* dog[d]: the state of watchdog task d
  seen,     \* seen[d]: its variable offset
  entry,    \* the watchdog in _log_watchdog_tasks
  pc,       \* pc[v]: where ws_logs awaits for viewer v
  offset,   \* offset[v]: its variable offset
  box,      \* box[v]: the sizes notified to v that it has not taken
  new,      \* new[v]: its variable new_size
  sent,     \* sent[v]: the positions sent to v, in order
  slow,     \* history: viewers that lost a notification to the pruner
  from,     \* history: where v's tail ended and where its listening began
  crashes

fileVars == <<size, wide>>
dogVars  == <<dog, seen, entry>>
viewVars == <<pc, offset, box, new, sent, slow, from>>
vars     == <<fileVars, dogVars, viewVars, crashes>>

DogState  == {"none", "created", "watching", "ended"}
ViewPC    == {"new", "tailing", "waiting", "reading", "sending", "gone"}
Listening == {"waiting", "reading", "sending"}

(* The positions a + 1 .. b, as they are sent.                             *)
Span(a, b) == [i \in 1 .. (b - a) |-> a + i]

Goto(v, l) == pc' = [pc EXCEPT ![v] = l]

Init ==
  /\ size = 0 /\ wide = {}
  /\ dog = [d \in Dog |-> "none"]
  /\ seen = [d \in Dog |-> 0]
  /\ entry = None
  /\ pc = [v \in Viewer |-> "new"]
  /\ offset = [v \in Viewer |-> 0]
  /\ box = [v \in Viewer |-> <<>>]
  /\ new = [v \in Viewer |-> 0]
  /\ sent = [v \in Viewer |-> <<>>]
  /\ slow = {}
  /\ from = [v \in Viewer |-> [tail |-> 0, listen |-> 0]]
  /\ crashes = 0

-----------------------------------------------------------------------------
(* The agent servers append to the file, which start() opens with mode     *)
(* "a", also while they boot and after stop() was called.                  *)
Log ==
  /\ size < MaxSize
  /\ size' = size + 1
  /\ wide' \in {wide, wide \cup {size + 1}}
  /\ UNCHANGED <<dogVars, viewVars, crashes>>

-----------------------------------------------------------------------------
(* The watchdogs                                                           *)

(* _start_log_watchdog, at the end of every start, whether the server got  *)
(* ready or not: the entry of an earlier watchdog is overwritten.          *)
StartDog(d) ==
  /\ dog[d] = "none" /\ \A e \in Dog : e < d => dog[e] # "none"
  /\ dog' = [dog EXCEPT ![d] = "created"]
  /\ entry' = d
  /\ UNCHANGED <<fileVars, seen, viewVars, crashes>>

(* The task runs for the first time.                                       *)
DogBegins(d) ==
  /\ dog[d] = "created"
  /\ dog' = [dog EXCEPT ![d] = "watching"]
  /\ seen' = [seen EXCEPT ![d] = size]
  /\ UNCHANGED <<fileVars, entry, viewVars, crashes>>

Growth(d) == dog[d] = "watching" /\ size > seen[d]

Notify(n) ==
  box' = [v \in Viewer |-> IF pc[v] \in Listening THEN Append(box[v], n)
                           ELSE box[v]]

DogNotifies(d) ==
  /\ Growth(d)
  /\ Notify(size)
  /\ seen' = [seen EXCEPT ![d] = size]
  /\ UNCHANGED <<fileVars, dog, entry, pc, offset, new, sent, slow, from,
                 crashes>>

(* The database is locked: the transaction raises and the task ends.       *)
DogFails(d) ==
  /\ Growth(d)
  /\ dog' = [dog EXCEPT ![d] = "ended"]
  /\ UNCHANGED <<fileVars, seen, entry, viewVars, crashes>>

(* stop(): the watchdog goes first, then the server is told to.            *)
StopDog ==
  /\ entry # None
  /\ dog' = [dog EXCEPT ![entry] = "ended"]
  /\ entry' = None
  /\ UNCHANGED <<fileVars, seen, viewVars, crashes>>

-----------------------------------------------------------------------------
(* ws_logs                                                                 *)

(* 4004: the agent is not registered.                                      *)
Refuse(v) ==
  /\ pc[v] = "new"
  /\ Goto(v, "gone")
  /\ UNCHANGED <<fileVars, dogVars, offset, box, new, sent, slow, from, crashes>>

(* _tail, and the awaits in which its lines are sent.                      *)
SendTail(v) ==
  /\ pc[v] = "new"
  /\ LET first == IF size > TailLen THEN size - TailLen ELSE 0 IN
       sent' = [sent EXCEPT ![v] = Span(first, size)]
  /\ from' = [from EXCEPT ![v].tail = size]
  /\ Goto(v, "tailing")
  /\ UNCHANGED <<fileVars, dogVars, offset, box, new, slow, crashes>>

(* The offset is taken and the listener made, with no await in between.    *)
Listen(v) ==
  /\ pc[v] = "tailing"
  /\ offset' = [offset EXCEPT ![v] = size]
  /\ from' = [from EXCEPT ![v].listen = size]
  /\ Goto(v, "waiting")
  /\ UNCHANGED <<fileVars, dogVars, box, new, sent, slow, crashes>>

(* Mutant: what was notified while a line was being sent is dropped.       *)
Receive_FirstOnly(v) ==
  /\ pc[v] = "waiting" /\ box[v] # <<>>
  /\ box' = [box EXCEPT ![v] = <<>>]
  /\ IF Head(box[v]) > offset[v]
     THEN Goto(v, "reading") /\ new' = [new EXCEPT ![v] = Head(box[v])]
     ELSE UNCHANGED <<pc, new>>
  /\ UNCHANGED <<fileVars, dogVars, offset, sent, slow, from, crashes>>

(* A size that is no news is skipped.                                      *)
Receive(v) ==
  /\ pc[v] = "waiting" /\ box[v] # <<>>
  /\ box' = [box EXCEPT ![v] = Tail(@)]
  /\ IF Head(box[v]) > offset[v]
     THEN Goto(v, "reading") /\ new' = [new EXCEPT ![v] = Head(box[v])]
     ELSE UNCHANGED <<pc, new>>
  /\ UNCHANGED <<fileVars, dogVars, offset, sent, slow, from, crashes>>

WideIn(a, b) == {w \in wide : a < w /\ w <= b}

(* f.read(new_size - offset) counts characters: each wide one makes it     *)
(* read one further than the size that was notified, if the file has grown *)
(* that far meanwhile.                                                     *)
ReadTo(o, n) ==
  LET asked == n + Cardinality(WideIn(o, n))
  IN  IF asked < size THEN asked ELSE size

(* Mutant: the offset moves to the end of the file as it is now.           *)
Read_ToEnd(v) ==
  /\ pc[v] = "reading"
  /\ sent' = [sent EXCEPT ![v] = @ \o Span(offset[v], ReadTo(offset[v], new[v]))]
  /\ offset' = [offset EXCEPT ![v] = size]
  /\ Goto(v, "sending")
  /\ UNCHANGED <<fileVars, dogVars, box, new, slow, from, crashes>>

(* Mutant: read() without a length.                                        *)
Read_Rest(v) ==
  /\ pc[v] = "reading"
  /\ sent' = [sent EXCEPT ![v] = @ \o Span(offset[v], size)]
  /\ offset' = [offset EXCEPT ![v] = new[v]]
  /\ Goto(v, "sending")
  /\ UNCHANGED <<fileVars, dogVars, box, new, slow, from, crashes>>

(* Mutant: the read begins one before the offset.                          *)
Read_OneBack(v) ==
  /\ pc[v] = "reading"
  /\ LET o == IF offset[v] = 0 THEN 0 ELSE offset[v] - 1 IN
       sent' = [sent EXCEPT ![v] = @ \o Span(o, ReadTo(offset[v], new[v]))]
  /\ offset' = [offset EXCEPT ![v] = new[v]]
  /\ Goto(v, "sending")
  /\ UNCHANGED <<fileVars, dogVars, box, new, slow, from, crashes>>

Read(v) ==
  /\ pc[v] = "reading"
  /\ sent' = [sent EXCEPT ![v] = @ \o Span(offset[v], ReadTo(offset[v], new[v]))]
  /\ offset' = [offset EXCEPT ![v] = new[v]]
  /\ Goto(v, "sending")
  /\ UNCHANGED <<fileVars, dogVars, box, new, slow, from, crashes>>

Sent(v) ==
  /\ pc[v] = "sending"
  /\ Goto(v, "waiting")
  /\ UNCHANGED <<fileVars, dogVars, offset, box, new, sent, slow, from, crashes>>

(* The read raises, or the browser has gone, which only a send notices.    *)
Hangup(v) ==
  /\ pc[v] \in {"tailing", "reading", "sending"}
  /\ Goto(v, "gone")
  /\ box' = [box EXCEPT ![v] = <<>>]
  /\ UNCHANGED <<fileVars, dogVars, offset, new, sent, slow, from, crashes>>

(* run_notification_pruner: a browser that takes more than two minutes to  *)
(* accept a line loses the notifications that wait behind it.              *)
Prune(v) ==
  /\ pc[v] = "sending" /\ box[v] # <<>>
  /\ box' = [box EXCEPT ![v] = Tail(@)]
  /\ slow' = slow \cup {v}
  /\ UNCHANGED <<fileVars, dogVars, pc, offset, new, sent, from, crashes>>

(* The control plane dies, with its tasks and connections.  Recovery takes *)
(* running agents over but starts no watchdog for them.                    *)
Crash ==
  /\ crashes < MaxCrash
  /\ crashes' = crashes + 1
  /\ dog' = [d \in Dog |-> IF dog[d] = "none" THEN "none" ELSE "ended"]
  /\ entry' = None
  /\ pc' = [v \in Viewer |-> IF pc[v] = "new" THEN "new" ELSE "gone"]
  /\ box' = [v \in Viewer |-> <<>>]
  /\ UNCHANGED <<fileVars, seen, offset, new, sent, slow, from>>

-----------------------------------------------------------------------------
DogStep(d) == StartDog(d) \/ DogBegins(d) \/ DogNotifies(d) \/ DogFails(d)

ViewStep(v) == \/ Refuse(v) \/ SendTail(v) \/ Listen(v) \/ Receive(v)
               \/ Read(v) \/ Sent(v) \/ Hangup(v) \/ Prune(v)

Next == \/ Log \/ StopDog \/ Crash
        \/ \E d \in Dog : DogStep(d)
        \/ \E v \in Viewer : ViewStep(v)

Spec == Init /\ [][Next]_vars

(* Watchdogs poll every 0.1 seconds, handlers run when what they await is  *)
(* there, and a browser takes a line or is found to be gone.  Nothing is   *)
(* assumed of what is logged or started.                                   *)
Fairness ==
  /\ \A d \in Dog : WF_vars(DogNotifies(d) \/ DogFails(d))
  /\ \A v \in Viewer : /\ WF_vars(Receive(v))
                       /\ WF_vars(Read(v) \/ Sent(v) \/ Hangup(v))

LiveSpec == Spec /\ Fairness

-----------------------------------------------------------------------------
(* Properties                                                              *)

(* The state is well typed, and every offset, notification and position    *)
(* sent lies in the file.                                                  *)
TypeOK ==
  /\ size \in 0 .. MaxSize /\ wide \subseteq 1 .. size
  /\ dog \in [Dog -> DogState] /\ seen \in [Dog -> 0 .. size]
  /\ entry \in Dog \cup {None}
  /\ pc \in [Viewer -> ViewPC]
  /\ offset \in [Viewer -> 0 .. size] /\ new \in [Viewer -> 0 .. size]
  /\ box \in [Viewer -> Seq(1 .. size)]
  /\ sent \in [Viewer -> Seq(1 .. size)]
  /\ slow \subseteq Viewer
  /\ from \in [Viewer -> [tail : 0 .. size, listen : 0 .. size]]
  /\ crashes \in 0 .. MaxCrash

WasSent(v, k) == \E i \in DOMAIN sent[v] : sent[v][i] = k

(* A viewer misses nothing between where it began and where it stands,     *)
(* whichever watchdogs notified it, how often and in which order, except   *)
(* what was logged while its tail was being sent.                          *)
GapOnlyBehindTail ==
  \A v \in Viewer : \A k \in 1 .. offset[v] :
    k > from[v].listen => WasSent(v, k)

(* The log is shown in order and nothing of it twice, whether one watchdog *)
(* runs, or several that report the same growth, as long as it is ASCII:   *)
(* text comes twice only after a wide character that was logged after the  *)
(* viewer began to listen.                                                 *)
TwiceOnlyAfterWide ==
  \A v \in Viewer : \A i, j \in DOMAIN sent[v] :
    i < j /\ sent[v][i] >= sent[v][j] =>
      \E w \in wide : from[v].listen < w /\ w < sent[v][j]

(* Wide characters may bring text twice, or several times, but no more of  *)
(* it in all than there are of them: a viewer is never sent more than its  *)
(* tail, what was logged since it listens, and one position again for each *)
(* wide character in that.                                                 *)
RepeatsBounded ==
  \A v \in Viewer :
    Len(sent[v]) <= TailLen + (offset[v] - from[v].listen)
                    + Cardinality(WideIn(from[v].listen, offset[v]))

(* What is logged under a watchdog reaches a viewer that listens, unless   *)
(* that watchdog ends (stopped, or its database write failed), the viewer  *)
(* leaves or the pruner overtakes it.                                      *)
GrowthArrives ==
  \A v \in Viewer, d \in Dog : \A n \in 1 .. MaxSize :
    pc[v] \in Listening /\ dog[d] = "watching" /\ seen[d] < n /\ n <= size
      ~> \/ offset[v] >= n
         \/ pc[v] = "gone" \/ v \in slow \/ dog[d] = "ended"
=============================================================================
