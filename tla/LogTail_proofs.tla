---------------------------- MODULE LogTail_proofs ----------------------------
(***************************************************************************)
(* What a viewer of the log is shown, for every number of viewers and      *)
(* watchdogs, every length of the tail and of the file.                    *)
(***************************************************************************)
EXTENDS LogTail, SequenceTheorems, FiniteSetTheorems, TLAPS

(* A read is of text beyond the offset, and the offset never falls behind  *)
(* where the viewer began.                                                 *)
AheadInv ==
  \A v \in Viewer :
    /\ pc[v] = "new" => offset[v] = 0
    /\ pc[v] \in Listening => from[v].listen <= offset[v]
    /\ pc[v] = "reading" => offset[v] < new[v]

(* The tail is sent in order.                                              *)
TailInOrder ==
  \A v \in Viewer : pc[v] = "tailing" =>
    \A i, j \in DOMAIN sent[v] : i < j => sent[v][i] < sent[v][j]

(* Only a wide character before the offset has text beyond it sent.        *)
BeyondOnlyByWide ==
  \A v \in Viewer : pc[v] \in Listening =>
    \A i \in DOMAIN sent[v] : sent[v][i] > offset[v] =>
      \E w \in wide : from[v].listen < w /\ w <= offset[v]

(* The tail is no longer than it may be, and reading goes forward.         *)
ShortTail ==
  \A v \in Viewer : /\ from[v].listen <= offset[v]
                    /\ pc[v] = "tailing" => Len(sent[v]) <= TailLen

IInv == /\ TypeOK /\ AheadInv /\ GapOnlyBehindTail
        /\ TailInOrder /\ BeyondOnlyByWide /\ TwiceOnlyAfterWide
        /\ ShortTail /\ RepeatsBounded

(***************************************************************************)
(* Types                                                                   *)
(***************************************************************************)

(* What lies in a file still lies in it when it has grown.                 *)
LEMMA SeqGrows ==
  ASSUME NEW m \in Nat, NEW n \in Nat, m <= n
  PROVE  Seq(1 .. m) \subseteq Seq(1 .. n)
<1> SUFFICES ASSUME NEW s \in Seq(1 .. m) PROVE s \in Seq(1 .. n)
  OBVIOUS
<1>1. 1 .. m \subseteq 1 .. n
  OBVIOUS
<1> QED BY <1>1, SeqMonotonic

(* A span of the file is a sequence of positions in it.                    *)
LEMMA SpanType ==
  ASSUME NEW n \in Nat, NEW a \in Nat, NEW b \in Nat, b <= n
  PROVE  Span(a, b) \in Seq(1 .. n)
<1>1. CASE a <= b
  <2>1. b - a \in Nat /\ \A i \in 1 .. (b - a) : a + i \in 1 .. n
    BY <1>1
  <2> QED BY <2>1 DEF Span
<1>2. CASE b < a
  <2>1. 1 .. (b - a) = 1 .. 0
    BY <1>2
  <2>2. Span(a, b) \in [1 .. 0 -> 1 .. n]
    BY <2>1 DEF Span
  <2> QED BY <2>2
<1> QED BY <1>1, <1>2

LEMMA FiniteIn ==
  ASSUME NEW n \in Nat, NEW W \in SUBSET (1 .. n)
  PROVE  IsFiniteSet(W) /\ Cardinality(W) \in Nat
<1>1. IsFiniteSet(1 .. n)
  BY FS_Interval
<1>2. IsFiniteSet(W)
  BY <1>1, FS_Subset
<1> QED BY <1>2, FS_CardinalityType

LEMMA WideFinite ==
  ASSUME TypeOK, NEW a, NEW b
  PROVE  IsFiniteSet(WideIn(a, b)) /\ Cardinality(WideIn(a, b)) \in Nat
<1> DEFINE W == WideIn(a, b)
<1>0. wide \subseteq 1 .. size /\ size \in Nat
  BY LogTailAssumption DEF TypeOK
<1>1. W \in SUBSET (1 .. size) /\ size \in Nat
  BY <1>0 DEF WideIn
<1> HIDE DEF W
<1>2. IsFiniteSet(W) /\ Cardinality(W) \in Nat
  BY <1>1, FiniteIn
<1> QED BY <1>2 DEF W

(* The wide characters of two stretches that meet.                         *)
LEMMA WideSplit ==
  ASSUME TypeOK, NEW a \in Nat, NEW b \in Nat, NEW c \in Nat, a <= b, b <= c
  PROVE  Cardinality(WideIn(a, c)) = Cardinality(WideIn(a, b)) + Cardinality(WideIn(b, c))
<1>0. wide \subseteq 1 .. size /\ size \in Nat
  BY LogTailAssumption DEF TypeOK
<1>1. \A w \in wide : w \in Nat
  BY <1>0
<1>2. WideIn(a, c) = WideIn(a, b) \cup WideIn(b, c)
  BY <1>1 DEF WideIn
<1>3. WideIn(a, b) \cap WideIn(b, c) = {}
  BY <1>1 DEF WideIn
<1> DEFINE A == WideIn(a, b)
           B == WideIn(b, c)
<1>4. /\ IsFiniteSet(A) /\ Cardinality(A) \in Nat
      /\ IsFiniteSet(B) /\ Cardinality(B) \in Nat
  BY WideFinite
<1>5. A \cap B = {} /\ WideIn(a, c) = A \cup B
  BY <1>2, <1>3
<1> HIDE DEF A, B
<1>6. Cardinality(A \cup B) = Cardinality(A) + Cardinality(B) - Cardinality(A \cap B)
  BY <1>4, FS_Union
<1>7. Cardinality(A \cap B) = 0
  BY <1>5, FS_EmptySet
<1> QED BY <1>4, <1>5, <1>6, <1>7 DEF A, B

(* A read reaches at least the size that was notified and stays in the     *)
(* file; it goes beyond that size only for a wide character before it.     *)
LEMMA ReadToRange ==
  ASSUME TypeOK, NEW o \in 0 .. size, NEW n \in 0 .. size
  PROVE  /\ ReadTo(o, n) \in Nat
         /\ n <= ReadTo(o, n) /\ ReadTo(o, n) <= size
         /\ ReadTo(o, n) > n => \E w \in wide : o < w /\ w <= n
         /\ ReadTo(o, n) <= n + Cardinality(WideIn(o, n))
<1> DEFINE W == WideIn(o, n)
<1>1. size \in Nat /\ wide \subseteq 1 .. size
  BY LogTailAssumption DEF TypeOK
<1>2. IsFiniteSet(W)
  BY WideFinite
<1>3. Cardinality(W) \in Nat
  BY <1>2, FS_CardinalityType
<1>4. W = {} => Cardinality(W) = 0
  BY FS_EmptySet
<1>5. ReadTo(o, n) = IF n + Cardinality(W) < size THEN n + Cardinality(W) ELSE size
  BY DEF ReadTo
<1> HIDE DEF W
<1>6. /\ ReadTo(o, n) \in Nat
      /\ n <= ReadTo(o, n) /\ ReadTo(o, n) <= size
      /\ ReadTo(o, n) > n => W # {}
      /\ ReadTo(o, n) <= n + Cardinality(W)
  BY <1>1, <1>3, <1>4, <1>5
<1>7. W # {} => \E w \in wide : o < w /\ w <= n
  BY DEF W, WideIn
<1> QED BY <1>6, <1>7 DEF W

LEMMA InitType == Init => TypeOK
<1> SUFFICES ASSUME Init PROVE TypeOK
  OBVIOUS
<1>1. <<>> \in Seq(1 .. 0)
  BY EmptySeq
<1> QED BY <1>1, LogTailAssumption
        DEF Init, TypeOK, DogState, ViewPC, None, Dog

LEMMA NextType == TypeOK /\ [Next]_vars => TypeOK'
<1> SUFFICES ASSUME TypeOK, [Next]_vars PROVE TypeOK'
  OBVIOUS
<1> USE LogTailAssumption
<1>1. ASSUME Log PROVE TypeOK'
  <2>1. /\ size \in Nat /\ size' \in Nat /\ size <= size'
        /\ size' \in 0 .. MaxSize /\ wide' \subseteq 1 .. size'
        /\ 0 .. size \subseteq 0 .. size' /\ 1 .. size \subseteq 1 .. size'
    BY <1>1 DEF Log, TypeOK
  <2>2. Seq(1 .. size) \subseteq Seq(1 .. size')
    BY <2>1, SeqGrows
  <2>3. UNCHANGED <<dog, seen, entry, pc, offset, box, new, sent, slow, from, crashes>>
    BY <1>1 DEF Log, dogVars, viewVars
  <2>4. seen \in [Dog -> 0 .. size'] /\ offset \in [Viewer -> 0 .. size']
        /\ new \in [Viewer -> 0 .. size']
    BY <2>1 DEF TypeOK
  <2>5. box \in [Viewer -> Seq(1 .. size')] /\ sent \in [Viewer -> Seq(1 .. size')]
    BY <2>2 DEF TypeOK
  <2>6. from \in [Viewer -> [tail : 0 .. size', listen : 0 .. size']]
    BY <2>1 DEF TypeOK
  <2> QED BY <2>1, <2>3, <2>4, <2>5, <2>6 DEF TypeOK
<1>2. ASSUME NEW d \in Dog, StartDog(d) PROVE TypeOK'
  BY <1>2 DEF StartDog, fileVars, viewVars, TypeOK, DogState
<1>3. ASSUME NEW d \in Dog, DogBegins(d) PROVE TypeOK'
  BY <1>3 DEF DogBegins, fileVars, viewVars, TypeOK, DogState
<1>4. ASSUME NEW d \in Dog, DogNotifies(d) PROVE TypeOK'
  <2>1. size \in 1 .. size /\ seen' \in [Dog -> 0 .. size]
    BY <1>4 DEF DogNotifies, Growth, TypeOK
  <2>2. \A v \in Viewer : Append(box[v], size) \in Seq(1 .. size)
    BY <2>1, AppendProperties DEF TypeOK
  <2>3. box' \in [Viewer -> Seq(1 .. size)]
    BY <1>4, <2>2 DEF DogNotifies, Notify, TypeOK
  <2> QED BY <1>4, <2>1, <2>3 DEF DogNotifies, fileVars, TypeOK
<1>5. ASSUME NEW d \in Dog, DogFails(d) PROVE TypeOK'
  BY <1>5 DEF DogFails, fileVars, viewVars, TypeOK, DogState
<1>6. ASSUME StopDog PROVE TypeOK'
  BY <1>6 DEF StopDog, fileVars, viewVars, TypeOK, DogState, None
<1>7. ASSUME NEW v \in Viewer, Refuse(v) PROVE TypeOK'
  BY <1>7 DEF Refuse, Goto, fileVars, dogVars, TypeOK, ViewPC
<1>8. ASSUME NEW v \in Viewer, SendTail(v) PROVE TypeOK'
  <2> DEFINE first == IF size > TailLen THEN size - TailLen ELSE 0
  <2>1. first \in Nat /\ size \in Nat
    BY DEF TypeOK
  <2> HIDE DEF first
  <2>2. Span(first, size) \in Seq(1 .. size)
    BY <2>1, SpanType
  <2>3. sent' \in [Viewer -> Seq(1 .. size)]
    BY <1>8, <2>2 DEF SendTail, TypeOK, first
  <2>4. from' \in [Viewer -> [tail : 0 .. size, listen : 0 .. size]]
    <3>1. size \in 0 .. size /\ from[v] \in [tail : 0 .. size, listen : 0 .. size]
      BY <2>1 DEF TypeOK
    <3>2. [from[v] EXCEPT !.tail = size] \in [tail : 0 .. size, listen : 0 .. size]
      BY <3>1
    <3>3. from' = [from EXCEPT ![v] = [from[v] EXCEPT !.tail = size]]
      BY <1>8 DEF SendTail
    <3> QED BY <3>2, <3>3 DEF TypeOK
  <2> QED BY <1>8, <2>3, <2>4 DEF SendTail, Goto, fileVars, dogVars, TypeOK, ViewPC
<1>9. ASSUME NEW v \in Viewer, Listen(v) PROVE TypeOK'
  <2>1. from' \in [Viewer -> [tail : 0 .. size, listen : 0 .. size]]
    <3>1. size \in 0 .. size /\ from[v] \in [tail : 0 .. size, listen : 0 .. size]
      BY DEF TypeOK
    <3>2. [from[v] EXCEPT !.listen = size] \in [tail : 0 .. size, listen : 0 .. size]
      BY <3>1
    <3>3. from' = [from EXCEPT ![v] = [from[v] EXCEPT !.listen = size]]
      BY <1>9 DEF Listen
    <3> QED BY <3>2, <3>3 DEF TypeOK
  <2>2. size \in 0 .. size
    BY DEF TypeOK
  <2> QED BY <1>9, <2>1, <2>2 DEF Listen, Goto, fileVars, dogVars, TypeOK, ViewPC
<1>10. ASSUME NEW v \in Viewer, Receive(v) PROVE TypeOK'
  <2>1. Head(box[v]) \in 1 .. size /\ Tail(box[v]) \in Seq(1 .. size)
    BY <1>10, HeadTailProperties DEF Receive, TypeOK
  <2>2. Head(box[v]) \in 0 .. size
    BY <2>1 DEF TypeOK
  <2>3. pc' \in [Viewer -> ViewPC] /\ new' \in [Viewer -> 0 .. size]
    BY <1>10, <2>2 DEF Receive, Goto, TypeOK, ViewPC
  <2> QED BY <1>10, <2>1, <2>3 DEF Receive, fileVars, dogVars, TypeOK
<1>11. ASSUME NEW v \in Viewer, Read(v) PROVE TypeOK'
  <2>1. /\ size \in Nat /\ offset[v] \in 0 .. size /\ offset[v] \in Nat
        /\ new[v] \in 0 .. size
    BY DEF TypeOK
  <2>2. ReadTo(offset[v], new[v]) \in Nat /\ ReadTo(offset[v], new[v]) <= size
    BY <2>1, ReadToRange
  <2>3. Span(offset[v], ReadTo(offset[v], new[v])) \in Seq(1 .. size)
    BY <2>1, <2>2, SpanType
  <2>4. sent[v] \o Span(offset[v], ReadTo(offset[v], new[v])) \in Seq(1 .. size)
    BY <2>3, ConcatProperties DEF TypeOK
  <2>5. sent' \in [Viewer -> Seq(1 .. size)]
    BY <1>11, <2>4 DEF Read, TypeOK
  <2> QED BY <1>11, <2>5 DEF Read, Goto, fileVars, dogVars, TypeOK, ViewPC
<1>12. ASSUME NEW v \in Viewer, Sent(v) PROVE TypeOK'
  BY <1>12 DEF Sent, Goto, fileVars, dogVars, TypeOK, ViewPC
<1>13. ASSUME NEW v \in Viewer, Hangup(v) PROVE TypeOK'
  <2>1. <<>> \in Seq(1 .. size)
    BY EmptySeq
  <2> QED BY <1>13, <2>1 DEF Hangup, Goto, fileVars, dogVars, TypeOK, ViewPC
<1>14. ASSUME NEW v \in Viewer, Prune(v) PROVE TypeOK'
  <2>1. Tail(box[v]) \in Seq(1 .. size)
    BY <1>14, HeadTailProperties DEF Prune, TypeOK
  <2> QED BY <1>14, <2>1 DEF Prune, fileVars, dogVars, TypeOK
<1>15. ASSUME Crash PROVE TypeOK'
  <2>1. <<>> \in Seq(1 .. size)
    BY EmptySeq
  <2>2. dog' \in [Dog -> DogState] /\ pc' \in [Viewer -> ViewPC]
    BY <1>15 DEF Crash, TypeOK, DogState, ViewPC
  <2>3. box' \in [Viewer -> Seq(1 .. size)]
    BY <1>15, <2>1 DEF Crash
  <2> QED BY <1>15, <2>2, <2>3 DEF Crash, fileVars, TypeOK, None
<1>16. ASSUME UNCHANGED vars PROVE TypeOK'
  BY <1>16 DEF vars, fileVars, dogVars, viewVars, TypeOK
<1> QED BY <1>1, <1>2, <1>3, <1>4, <1>5, <1>6, <1>7, <1>8, <1>9, <1>10,
           <1>11, <1>12, <1>13, <1>14, <1>15, <1>16
        DEF Next, DogStep, ViewStep

(* The state is well typed and every position in it lies in the file.      *)
THEOREM TypeCorrect == Spec => []TypeOK
<1> QED BY InitType, NextType, PTL DEF Spec

(***************************************************************************)
(* What is shown                                                           *)
(***************************************************************************)

(* A step in which no viewer is sent text, moves on in the file or is      *)
(* notified of anything it takes; it may leave or have finished a send.    *)
Quiet ==
  /\ UNCHANGED <<offset, new, sent, from>>
  /\ wide \subseteq wide'
  /\ \A v \in Viewer : \/ pc'[v] = pc[v] \/ pc'[v] = "gone"
                       \/ pc[v] = "sending" /\ pc'[v] = "waiting"

(* All steps but four are quiet.                                           *)
LEMMA StepKinds ==
  TypeOK /\ [Next]_vars =>
    Quiet \/ \E v \in Viewer : SendTail(v) \/ Listen(v) \/ Receive(v) \/ Read(v)
<1> SUFFICES ASSUME TypeOK, [Next]_vars
             PROVE  Quiet \/ \E v \in Viewer :
                               SendTail(v) \/ Listen(v) \/ Receive(v) \/ Read(v)
  OBVIOUS
<1>1. CASE Log
  BY <1>1 DEF Log, viewVars, Quiet
<1>2. ASSUME NEW d \in Dog, DogStep(d) PROVE Quiet
  BY <1>2 DEF DogStep, StartDog, DogBegins, DogNotifies, DogFails, fileVars,
              viewVars, Quiet
<1>3. CASE StopDog
  BY <1>3 DEF StopDog, fileVars, viewVars, Quiet
<1>4. ASSUME NEW v \in Viewer, Refuse(v) \/ Hangup(v) \/ Sent(v) PROVE Quiet
  BY <1>4 DEF Refuse, Hangup, Sent, Goto, fileVars, Quiet, TypeOK
<1>5. ASSUME NEW v \in Viewer, Prune(v) PROVE Quiet
  BY <1>5 DEF Prune, fileVars, Quiet
<1>6. CASE Crash
  BY <1>6 DEF Crash, fileVars, Quiet, TypeOK
<1>7. CASE UNCHANGED vars
  BY <1>7 DEF vars, fileVars, viewVars, Quiet
<1> QED BY <1>1, <1>2, <1>3, <1>4, <1>5, <1>6, <1>7 DEF Next, ViewStep

(* What the four steps that are not quiet do to the viewers.               *)
LEMMA SendTailDoes ==
  ASSUME TypeOK, NEW v \in Viewer, SendTail(v)
  PROVE  /\ pc[v] = "new" /\ pc'[v] = "tailing"
         /\ from'[v].listen = from[v].listen
         /\ \A i, j \in DOMAIN sent'[v] : i < j => sent'[v][i] < sent'[v][j]
         /\ UNCHANGED <<wide, offset, new>>
         /\ \A u \in Viewer \ {v} : /\ pc'[u] = pc[u] /\ sent'[u] = sent[u]
                                    /\ from'[u] = from[u]
<1> DEFINE first == IF size > TailLen THEN size - TailLen ELSE 0
<1>1. first \in Nat /\ sent'[v] = Span(first, size)
  BY LogTailAssumption DEF SendTail, TypeOK
<1>2. \A i, j \in DOMAIN Span(first, size) :
        i < j => Span(first, size)[i] < Span(first, size)[j]
  BY <1>1 DEF Span, TypeOK
<1>3. pc[v] = "new" /\ pc'[v] = "tailing" /\ from'[v].listen = from[v].listen
  BY DEF SendTail, Goto, TypeOK
<1>4. UNCHANGED <<wide, offset, new>>
  BY DEF SendTail, fileVars
<1>5. \A u \in Viewer \ {v} : /\ pc'[u] = pc[u] /\ sent'[u] = sent[u]
                              /\ from'[u] = from[u]
  BY DEF SendTail, Goto, TypeOK
<1> QED BY <1>1, <1>2, <1>3, <1>4, <1>5

LEMMA ListenDoes ==
  ASSUME TypeOK, NEW v \in Viewer, Listen(v)
  PROVE  /\ pc[v] = "tailing" /\ pc'[v] = "waiting"
         /\ offset'[v] = size /\ from'[v].listen = size
         /\ UNCHANGED <<wide, new, sent>>
         /\ \A u \in Viewer \ {v} : /\ pc'[u] = pc[u] /\ offset'[u] = offset[u]
                                    /\ from'[u] = from[u]
BY DEF Listen, Goto, fileVars, TypeOK

LEMMA ReceiveDoes ==
  ASSUME TypeOK, NEW v \in Viewer, Receive(v)
  PROVE  /\ \/ pc'[v] = pc[v] /\ new'[v] = new[v]
            \/ pc'[v] = "reading" /\ offset[v] < new'[v]
         /\ pc[v] = "waiting"
         /\ UNCHANGED <<wide, offset, sent, from>>
         /\ \A u \in Viewer \ {v} : pc'[u] = pc[u] /\ new'[u] = new[u]
BY DEF Receive, Goto, fileVars, TypeOK

LEMMA ReadDoes ==
  ASSUME TypeOK, NEW v \in Viewer, Read(v)
  PROVE  /\ pc[v] = "reading" /\ pc'[v] = "sending"
         /\ offset'[v] = new[v]
         /\ sent'[v] = sent[v] \o Span(offset[v], ReadTo(offset[v], new[v]))
         /\ UNCHANGED <<wide, new, from>>
         /\ \A u \in Viewer \ {v} : /\ pc'[u] = pc[u] /\ offset'[u] = offset[u]
                                    /\ sent'[u] = sent[u]
BY DEF Read, Goto, fileVars, TypeOK

(* A stretch that is sent is as long as the offsets say.                   *)
LEMMA SpanLen ==
  ASSUME NEW a \in Nat, NEW b \in Nat, a <= b
  PROVE  Span(a, b) \in Seq(Nat) /\ Len(Span(a, b)) = b - a
<1>1. b - a \in Nat /\ Span(a, b) \in [1 .. (b - a) -> Nat]
  BY DEF Span
<1>2. Span(a, b) \in Seq(Nat)
  BY <1>1
<1>3. DOMAIN Span(a, b) = 1 .. (b - a)
  BY DEF Span
<1>4. Len(Span(a, b)) = b - a
  <2> DEFINE d == b - a
             m == Len(Span(a, b))
  <2>1. d \in Nat /\ m \in Nat /\ 1 .. d = 1 .. m
    BY <1>1, <1>2, <1>3, LenProperties
  <2> HIDE DEF d, m
  <2>2. ~ d < m /\ ~ m < d
    <3>1. m \in 1 .. m => m \in 1 .. d
      BY <2>1
    <3>2. d \in 1 .. d => d \in 1 .. m
      BY <2>1
    <3> QED BY <2>1, <3>1, <3>2
  <2>3. d = m
    BY <2>1, <2>2
  <2> QED BY <2>3 DEF d, m
<1> QED BY <1>2, <1>4

(* What a viewer has been sent after a read: what it had, and then the     *)
(* positions between its offset and where the read ended.                  *)
LEMMA SentByRead ==
  ASSUME NEW n \in Nat, NEW s \in Seq(1 .. n), NEW a \in Nat, NEW b \in Nat,
         a <= b
  PROVE  LET t == s \o Span(a, b)
         IN  /\ Len(s) \in Nat /\ DOMAIN s = 1 .. Len(s)
             /\ DOMAIN t = 1 .. (Len(s) + b - a)
             /\ \A i \in 1 .. Len(s) : t[i] = s[i]
             /\ \A i \in DOMAIN t : i > Len(s) => t[i] = a + (i - Len(s))
<1> DEFINE t == s \o Span(a, b)
<1>1. Len(s) \in Nat /\ DOMAIN s = 1 .. Len(s)
  BY LenProperties
<1>2. b - a \in Nat
  OBVIOUS
<1>3. Span(a, b) \in Seq(Nat) /\ Len(Span(a, b)) = b - a
  BY SpanLen
<1>4. s \in Seq(Nat)
  BY <1>1, LenProperties
<1>5. /\ t \in Seq(Nat) /\ Len(t) = Len(s) + (b - a)
      /\ \A i \in 1 .. Len(t) :
           t[i] = IF i <= Len(s) THEN s[i] ELSE Span(a, b)[i - Len(s)]
  BY <1>3, <1>4, ConcatProperties
<1> HIDE DEF t
<1>6. DOMAIN t = 1 .. (Len(s) + b - a)
  BY <1>1, <1>5, LenProperties
<1>7. \A i \in DOMAIN t : i > Len(s) => t[i] = a + (i - Len(s))
  <2> SUFFICES ASSUME NEW i \in DOMAIN t, i > Len(s) PROVE t[i] = a + (i - Len(s))
    OBVIOUS
  <2>1. i - Len(s) \in 1 .. (b - a)
    BY <1>1, <1>6
  <2>2. t[i] = Span(a, b)[i - Len(s)]
    <3> DEFINE m == Len(s)
               o == Len(t)
    <3>1. m \in Nat
      BY <1>1
    <3>2. i \in 1 .. o
      BY <1>5, LenProperties
    <3>3. i \in Int /\ ~ i <= m
      BY <3>1, <1>1, <1>6
    <3>4. \A k \in 1 .. o : t[k] = IF k <= m THEN s[k] ELSE Span(a, b)[k - m]
      BY <1>5
    <3> HIDE DEF m, o
    <3>5. t[i] = Span(a, b)[i - m]
      BY <3>2, <3>3, <3>4
    <3> QED BY <3>5 DEF m
  <2> QED BY <2>1, <2>2 DEF Span
<1>8. \A i \in 1 .. Len(s) : t[i] = s[i]
  <2> SUFFICES ASSUME NEW i \in 1 .. Len(s) PROVE t[i] = s[i]
    OBVIOUS
  <2>1. i \in 1 .. Len(t) /\ i <= Len(s)
    BY <1>1, <1>2, <1>5
  <2> QED BY <1>5, <2>1
<1> QED BY <1>1, <1>6, <1>7, <1>8 DEF t

LEMMA InitShown ==
  Init => AheadInv /\ GapOnlyBehindTail /\ TailInOrder /\ BeyondOnlyByWide
          /\ TwiceOnlyAfterWide /\ ShortTail /\ RepeatsBounded
<1> SUFFICES ASSUME Init
             PROVE  AheadInv /\ GapOnlyBehindTail /\ TailInOrder
                    /\ BeyondOnlyByWide /\ TwiceOnlyAfterWide
                    /\ ShortTail /\ RepeatsBounded
  OBVIOUS
<1>1. \A v \in Viewer : DOMAIN sent[v] = {}
  BY DEF Init
<1>2. AheadInv /\ GapOnlyBehindTail
  BY DEF Init, AheadInv, GapOnlyBehindTail, Listening
<1>3. TailInOrder /\ BeyondOnlyByWide /\ TwiceOnlyAfterWide
  BY <1>1 DEF TailInOrder, BeyondOnlyByWide, TwiceOnlyAfterWide
<1>4. ShortTail
  BY DEF Init, ShortTail
<1>5. RepeatsBounded
  <2>1. TypeOK /\ TailLen \in Nat
    BY InitType, LogTailAssumption
  <2>2. \A v \in Viewer : /\ Len(sent[v]) = 0
                          /\ offset[v] = 0 /\ from[v].listen = 0
    BY DEF Init
  <2>3. \A v \in Viewer :
          Cardinality(WideIn(from[v].listen, offset[v])) \in Nat
    BY <2>1, WideFinite
  <2> QED BY <2>1, <2>2, <2>3 DEF RepeatsBounded
<1> QED BY <1>2, <1>3, <1>4, <1>5

LEMMA NextAhead == TypeOK /\ AheadInv /\ [Next]_vars => AheadInv'
<1> SUFFICES ASSUME TypeOK, AheadInv, [Next]_vars, NEW u \in Viewer
             PROVE  /\ pc'[u] = "new" => offset'[u] = 0
                    /\ pc'[u] \in Listening => from'[u].listen <= offset'[u]
                    /\ pc'[u] = "reading" => offset'[u] < new'[u]
  BY DEF AheadInv
<1> USE DEF AheadInv, Listening
<1>1. CASE Quiet
  BY <1>1 DEF Quiet
<1>2. ASSUME NEW v \in Viewer, SendTail(v)
      PROVE  /\ pc'[u] = "new" => offset'[u] = 0
             /\ pc'[u] \in Listening => from'[u].listen <= offset'[u]
             /\ pc'[u] = "reading" => offset'[u] < new'[u]
  BY <1>2, SendTailDoes
<1>3. ASSUME NEW v \in Viewer, Listen(v)
      PROVE  /\ pc'[u] = "new" => offset'[u] = 0
             /\ pc'[u] \in Listening => from'[u].listen <= offset'[u]
             /\ pc'[u] = "reading" => offset'[u] < new'[u]
  <2>1. size \in Nat
    BY LogTailAssumption DEF TypeOK
  <2>2. CASE u = v
    BY <1>3, <2>1, <2>2, ListenDoes
  <2> QED BY <1>3, <2>2, ListenDoes
<1>4. ASSUME NEW v \in Viewer, Receive(v)
      PROVE  /\ pc'[u] = "new" => offset'[u] = 0
             /\ pc'[u] \in Listening => from'[u].listen <= offset'[u]
             /\ pc'[u] = "reading" => offset'[u] < new'[u]
  BY <1>4, ReceiveDoes
<1>5. ASSUME NEW v \in Viewer, Read(v)
      PROVE  /\ pc'[u] = "new" => offset'[u] = 0
             /\ pc'[u] \in Listening => from'[u].listen <= offset'[u]
             /\ pc'[u] = "reading" => offset'[u] < new'[u]
  <2>1. /\ offset[v] \in Nat /\ new[v] \in Nat /\ from[v].listen \in Nat
    BY DEF TypeOK
  <2>2. CASE u = v
    <3>1. from[v].listen <= offset[v] /\ offset[v] < new[v]
      BY <1>5, ReadDoes
    <3>2. from[v].listen <= new[v]
      BY <2>1, <3>1
    <3> QED BY <1>5, <2>2, <3>2, ReadDoes
  <2> QED BY <1>5, <2>2, ReadDoes
<1> QED BY <1>1, <1>2, <1>3, <1>4, <1>5, StepKinds

LEMMA NextTailInOrder == TypeOK /\ TailInOrder /\ [Next]_vars => TailInOrder'
<1> SUFFICES ASSUME TypeOK, TailInOrder, [Next]_vars, NEW u \in Viewer,
                    pc'[u] = "tailing"
             PROVE  \A i, j \in DOMAIN sent'[u] : i < j => sent'[u][i] < sent'[u][j]
  BY DEF TailInOrder
<1>1. CASE Quiet
  BY <1>1 DEF Quiet, TailInOrder
<1>2. ASSUME NEW v \in Viewer, SendTail(v)
      PROVE  \A i, j \in DOMAIN sent'[u] : i < j => sent'[u][i] < sent'[u][j]
  BY <1>2, SendTailDoes DEF TailInOrder
<1>3. ASSUME NEW v \in Viewer, Listen(v) \/ Receive(v) \/ Read(v)
      PROVE  u # v /\ pc'[u] = pc[u] /\ sent'[u] = sent[u]
  BY <1>3, ListenDoes, ReceiveDoes, ReadDoes
<1> QED BY <1>1, <1>2, <1>3, StepKinds DEF TailInOrder

LEMMA NextGap ==
  TypeOK /\ AheadInv /\ GapOnlyBehindTail /\ [Next]_vars => GapOnlyBehindTail'
<1> SUFFICES ASSUME TypeOK, AheadInv, GapOnlyBehindTail, [Next]_vars,
                    NEW u \in Viewer, NEW k \in 1 .. offset'[u],
                    k > from'[u].listen
             PROVE  \E i \in DOMAIN sent'[u] : sent'[u][i] = k
  BY DEF GapOnlyBehindTail, WasSent
<1>a. k \in 1 .. offset[u] /\ k > from[u].listen =>
        \E i \in DOMAIN sent[u] : sent[u][i] = k
  BY DEF GapOnlyBehindTail, WasSent
<1>1. CASE Quiet
  BY <1>1, <1>a DEF Quiet
<1>2. ASSUME NEW v \in Viewer, SendTail(v)
      PROVE  \E i \in DOMAIN sent'[u] : sent'[u][i] = k
  <2>1. CASE u = v
    BY <1>2, <2>1, SendTailDoes DEF AheadInv
  <2> QED BY <1>2, <1>a, <2>1, SendTailDoes
<1>3. ASSUME NEW v \in Viewer, Listen(v)
      PROVE  \E i \in DOMAIN sent'[u] : sent'[u][i] = k
  <2>1. u # v
    BY <1>3, ListenDoes DEF TypeOK
  <2> QED BY <1>3, <1>a, <2>1, ListenDoes
<1>4. ASSUME NEW v \in Viewer, Receive(v)
      PROVE  \E i \in DOMAIN sent'[u] : sent'[u][i] = k
  BY <1>4, <1>a, ReceiveDoes
<1>5. ASSUME NEW v \in Viewer, Read(v)
      PROVE  \E i \in DOMAIN sent'[u] : sent'[u][i] = k
  <2>1. CASE u # v
    BY <1>5, <1>a, <2>1, ReadDoes
  <2>2. CASE u = v
    <3> DEFINE a == offset[v]
               b == ReadTo(offset[v], new[v])
    <3>1. /\ size \in Nat /\ a \in Nat /\ a \in 0 .. size
          /\ new[v] \in Nat /\ new[v] \in 0 .. size /\ sent[v] \in Seq(1 .. size)
      BY DEF TypeOK
    <3>2. a < new[v]
      BY <1>5, ReadDoes DEF AheadInv
    <3>3. b \in Nat /\ new[v] <= b
      BY <3>1, ReadToRange
    <3>d. a <= b
      BY <3>1, <3>2, <3>3
    <3> HIDE DEF a, b
    <3>4. sent'[v] = sent[v] \o Span(a, b) /\ k \in 1 .. new[v]
      BY <1>5, <2>2, ReadDoes DEF a, b
    <3>5. /\ Len(sent[v]) \in Nat /\ DOMAIN sent[v] = 1 .. Len(sent[v])
          /\ DOMAIN sent'[v] = 1 .. (Len(sent[v]) + b - a)
          /\ \A i \in 1 .. Len(sent[v]) : sent'[v][i] = sent[v][i]
          /\ \A i \in DOMAIN sent'[v] :
               i > Len(sent[v]) => sent'[v][i] = a + (i - Len(sent[v]))
      <4> DEFINE t == sent[v] \o Span(a, b)
      <4>1. /\ Len(sent[v]) \in Nat /\ DOMAIN sent[v] = 1 .. Len(sent[v])
            /\ DOMAIN t = 1 .. (Len(sent[v]) + b - a)
            /\ \A i \in 1 .. Len(sent[v]) : t[i] = sent[v][i]
            /\ \A i \in DOMAIN t :
                 i > Len(sent[v]) => t[i] = a + (i - Len(sent[v]))
        BY <3>1, <3>d, <3>3, SentByRead
      <4> QED BY <3>4, <4>1
    <3>6. CASE k <= a
      <4>a. k \in 1 .. a
        BY <3>1, <3>4, <3>6
      <4>b. from' = from
        BY <1>5, ReadDoes
      <4>1. PICK i \in DOMAIN sent[v] : sent[v][i] = k
        BY <1>a, <2>2, <4>a, <4>b DEF a
      <4>2. i \in DOMAIN sent'[v] /\ sent'[v][i] = k
        BY <3>1, <3>2, <3>3, <3>5, <4>1
      <4> QED BY <2>2, <4>2
    <3>7. CASE k > a
      <4> DEFINE i == Len(sent[v]) + (k - a)
      <4>1. i \in DOMAIN sent'[v] /\ i > Len(sent[v])
        BY <3>1, <3>2, <3>3, <3>4, <3>5, <3>7
      <4>2. sent'[v][i] = a + (i - Len(sent[v]))
        BY <3>5, <4>1
      <4>3. a + (i - Len(sent[v])) = k
        BY <3>1, <3>5
      <4> QED BY <2>2, <4>1, <4>2, <4>3
    <3> QED BY <3>1, <3>6, <3>7
  <2> QED BY <2>1, <2>2
<1> QED BY <1>1, <1>2, <1>3, <1>4, <1>5, StepKinds

(* A read sends text beyond the size it was told only for a wide character *)
(* before that size, and the viewer's offset has passed it then.           *)
LEMMA NextBeyond ==
  TypeOK /\ AheadInv /\ BeyondOnlyByWide /\ [Next]_vars => BeyondOnlyByWide'
<1> SUFFICES ASSUME TypeOK, AheadInv, BeyondOnlyByWide, [Next]_vars,
                    NEW u \in Viewer, pc'[u] \in Listening,
                    NEW i \in DOMAIN sent'[u], sent'[u][i] > offset'[u]
             PROVE  \E w \in wide' : from'[u].listen < w /\ w <= offset'[u]
  BY DEF BeyondOnlyByWide
<1>a. pc[u] \in Listening /\ i \in DOMAIN sent[u] /\ sent[u][i] > offset[u] =>
        \E w \in wide : from[u].listen < w /\ w <= offset[u]
  BY DEF BeyondOnlyByWide
<1>1. CASE Quiet
  BY <1>1, <1>a DEF Quiet, Listening
<1>2. ASSUME NEW v \in Viewer, SendTail(v)
      PROVE  \E w \in wide' : from'[u].listen < w /\ w <= offset'[u]
  BY <1>2, <1>a, SendTailDoes DEF Listening
<1>3. ASSUME NEW v \in Viewer, Listen(v)
      PROVE  \E w \in wide' : from'[u].listen < w /\ w <= offset'[u]
  <2>1. u # v
    <3> SUFFICES ASSUME u = v PROVE FALSE
      OBVIOUS
    <3>1. offset'[v] = size /\ sent'[v] = sent[v]
      BY <1>3, ListenDoes
    <3>2. size \in Nat /\ sent[v] \in Seq(1 .. size)
      BY DEF TypeOK
    <3>3. sent[v][i] \in 1 .. size
      BY <3>1, <3>2, ElementOfSeq, LenProperties
    <3> QED BY <3>1, <3>2, <3>3
  <2> QED BY <1>3, <1>a, <2>1, ListenDoes
<1>4. ASSUME NEW v \in Viewer, Receive(v)
      PROVE  \E w \in wide' : from'[u].listen < w /\ w <= offset'[u]
  BY <1>4, <1>a, ReceiveDoes DEF Listening
<1>5. ASSUME NEW v \in Viewer, Read(v)
      PROVE  \E w \in wide' : from'[u].listen < w /\ w <= offset'[u]
  <2>1. CASE u # v
    BY <1>5, <1>a, <2>1, ReadDoes
  <2>2. CASE u = v
    <3> DEFINE a == offset[v]
               b == ReadTo(offset[v], new[v])
    <3>1. /\ size \in Nat /\ a \in Nat /\ a \in 0 .. size
          /\ new[v] \in Nat /\ new[v] \in 0 .. size /\ sent[v] \in Seq(1 .. size)
          /\ from[v].listen \in Nat /\ wide \subseteq Nat
      BY DEF TypeOK
    <3>2. a < new[v] /\ from[v].listen <= a
      BY <1>5, ReadDoes DEF AheadInv, Listening
    <3>3. /\ b \in Nat /\ new[v] <= b
          /\ b > new[v] => \E w \in wide : a < w /\ w <= new[v]
      BY <3>1, ReadToRange
    <3>d. a <= b
      BY <3>1, <3>2, <3>3
    <3> HIDE DEF a, b
    <3>4. sent'[v] = sent[v] \o Span(a, b) /\ sent'[v][i] > new[v]
      BY <1>5, <2>2, ReadDoes DEF a, b
    <3>5. /\ Len(sent[v]) \in Nat /\ DOMAIN sent[v] = 1 .. Len(sent[v])
          /\ DOMAIN sent'[v] = 1 .. (Len(sent[v]) + b - a)
          /\ \A j \in 1 .. Len(sent[v]) : sent'[v][j] = sent[v][j]
          /\ \A j \in DOMAIN sent'[v] :
               j > Len(sent[v]) => sent'[v][j] = a + (j - Len(sent[v]))
      <4> DEFINE t == sent[v] \o Span(a, b)
      <4>1. /\ Len(sent[v]) \in Nat /\ DOMAIN sent[v] = 1 .. Len(sent[v])
            /\ DOMAIN t = 1 .. (Len(sent[v]) + b - a)
            /\ \A j \in 1 .. Len(sent[v]) : t[j] = sent[v][j]
            /\ \A j \in DOMAIN t :
                 j > Len(sent[v]) => t[j] = a + (j - Len(sent[v]))
        BY <3>1, <3>d, <3>3, SentByRead
      <4> QED BY <3>4, <4>1
    <3>6. \E w \in wide : from[v].listen < w /\ w <= new[v]
      <4>1. CASE i <= Len(sent[v])
        <5>1. i \in DOMAIN sent[v] /\ sent[v][i] = sent'[v][i]
          BY <2>2, <3>5, <4>1
        <5>2. sent[v][i] \in 1 .. size
          BY <3>1, <5>1, ElementOfSeq, LenProperties
        <5>3. sent[v][i] > a
          BY <3>1, <3>2, <3>4, <5>1, <5>2
        <5>4. \E w \in wide : from[v].listen < w /\ w <= a
          BY <1>5, <1>a, <2>2, <5>1, <5>3, ReadDoes DEF Listening, a
        <5> QED BY <3>1, <3>2, <5>4
      <4>2. CASE i > Len(sent[v])
        <5>1. sent'[v][i] = a + (i - Len(sent[v]))
          BY <2>2, <3>5, <4>2
        <5>2. b > new[v]
          BY <2>2, <3>1, <3>3, <3>4, <3>5, <4>2, <5>1
        <5> QED BY <3>1, <3>2, <3>3, <5>2
      <4>3. i \in Nat
        BY <2>2, <3>1, <3>3, <3>5
      <4> QED BY <3>5, <4>1, <4>2, <4>3
    <3> QED BY <1>5, <2>2, <3>6, ReadDoes
  <2> QED BY <2>1, <2>2
<1> QED BY <1>1, <1>2, <1>3, <1>4, <1>5, StepKinds

LEMMA NextTwice ==
  TypeOK /\ AheadInv /\ TailInOrder /\ BeyondOnlyByWide /\ TwiceOnlyAfterWide
    /\ [Next]_vars => TwiceOnlyAfterWide'
<1> SUFFICES ASSUME TypeOK, AheadInv, TailInOrder, BeyondOnlyByWide,
                    TwiceOnlyAfterWide, [Next]_vars,
                    NEW u \in Viewer, NEW i \in DOMAIN sent'[u],
                    NEW j \in DOMAIN sent'[u], i < j,
                    sent'[u][i] >= sent'[u][j]
             PROVE  \E w \in wide' : from'[u].listen < w /\ w < sent'[u][j]
  BY DEF TwiceOnlyAfterWide
<1>a. i \in DOMAIN sent[u] /\ j \in DOMAIN sent[u] /\ sent[u][i] >= sent[u][j] =>
        \E w \in wide : from[u].listen < w /\ w < sent[u][j]
  BY DEF TwiceOnlyAfterWide
<1>b. sent[u] \in Seq(1 .. size) /\ size \in Nat
  BY DEF TypeOK
<1>1. CASE Quiet
  BY <1>1, <1>a DEF Quiet
<1>2. ASSUME NEW v \in Viewer, SendTail(v)
      PROVE  \E w \in wide' : from'[u].listen < w /\ w < sent'[u][j]
  <2>1. u # v
    <3> SUFFICES ASSUME u = v PROVE FALSE
      OBVIOUS
    <3>1. sent'[u][i] < sent'[u][j]
      BY <1>2, SendTailDoes
    <3>2. TypeOK'
      BY NextType
    <3>3. sent'[u] \in Seq(1 .. size') /\ size' \in Nat
      BY <3>2 DEF TypeOK
    <3>4. sent'[u][i] \in 1 .. size' /\ sent'[u][j] \in 1 .. size'
      BY <3>3, ElementOfSeq, LenProperties
    <3> QED BY <3>1, <3>3, <3>4
  <2> QED BY <1>2, <1>a, <2>1, SendTailDoes
<1>3. ASSUME NEW v \in Viewer, Listen(v)
      PROVE  \E w \in wide' : from'[u].listen < w /\ w < sent'[u][j]
  <2>1. u # v
    <3> SUFFICES ASSUME u = v PROVE FALSE
      OBVIOUS
    <3>1. sent' = sent /\ pc[u] = "tailing"
      BY <1>3, ListenDoes
    <3>2. sent[u][i] < sent[u][j]
      BY <3>1 DEF TailInOrder
    <3>3. sent[u][i] \in 1 .. size /\ sent[u][j] \in 1 .. size
      BY <1>b, <3>1, ElementOfSeq, LenProperties
    <3> QED BY <1>b, <3>1, <3>2, <3>3
  <2> QED BY <1>3, <1>a, <2>1, ListenDoes
<1>4. ASSUME NEW v \in Viewer, Receive(v)
      PROVE  \E w \in wide' : from'[u].listen < w /\ w < sent'[u][j]
  BY <1>4, <1>a, ReceiveDoes
<1>5. ASSUME NEW v \in Viewer, Read(v)
      PROVE  \E w \in wide' : from'[u].listen < w /\ w < sent'[u][j]
  <2>1. CASE u # v
    BY <1>5, <1>a, <2>1, ReadDoes
  <2>2. CASE u = v
    <3> DEFINE a == offset[v]
               b == ReadTo(offset[v], new[v])
               n == Len(sent[v])
    <3>1. /\ size \in Nat /\ a \in Nat /\ a \in 0 .. size
          /\ new[v] \in Nat /\ new[v] \in 0 .. size /\ sent[v] \in Seq(1 .. size)
          /\ from[v].listen \in Nat /\ wide \subseteq Nat
      BY DEF TypeOK
    <3>2. a < new[v]
      BY <1>5, ReadDoes DEF AheadInv
    <3>3. b \in Nat /\ new[v] <= b
      BY <3>1, ReadToRange
    <3>d. a <= b
      BY <3>1, <3>2, <3>3
    <3> HIDE DEF a, b
    <3>4. sent'[v] = sent[v] \o Span(a, b)
      BY <1>5, ReadDoes DEF a, b
    <3>5. /\ n \in Nat /\ DOMAIN sent[v] = 1 .. n
          /\ DOMAIN sent'[v] = 1 .. (n + b - a)
          /\ \A q \in 1 .. n : sent'[v][q] = sent[v][q]
          /\ \A q \in DOMAIN sent'[v] : q > n => sent'[v][q] = a + (q - n)
      <4> DEFINE t == sent[v] \o Span(a, b)
      <4>1. /\ n \in Nat /\ DOMAIN sent[v] = 1 .. n
            /\ DOMAIN t = 1 .. (n + b - a)
            /\ \A q \in 1 .. n : t[q] = sent[v][q]
            /\ \A q \in DOMAIN t : q > n => t[q] = a + (q - n)
        BY <3>1, <3>d, <3>3, SentByRead
      <4> QED BY <3>4, <4>1
    <3> HIDE DEF n
    <3>6. i \in Nat /\ j \in Nat /\ 1 <= i /\ i < j
      BY <2>2, <3>1, <3>3, <3>5
    <3>7. \E w \in wide : from[v].listen < w /\ w < sent'[v][j]
      <4>1. CASE j <= n
        <5>1. /\ i \in DOMAIN sent[v] /\ j \in DOMAIN sent[v]
              /\ sent'[v][i] = sent[v][i] /\ sent'[v][j] = sent[v][j]
          BY <3>5, <3>6, <4>1
        <5> QED BY <1>a, <2>2, <5>1
      <4>2. CASE i <= n /\ n < j
        <5>1. i \in DOMAIN sent[v] /\ sent'[v][i] = sent[v][i]
          BY <3>5, <3>6, <4>2
        <5>2. sent[v][i] \in 1 .. size
          BY <3>1, <5>1, ElementOfSeq, LenProperties
        <5>3. sent'[v][j] = a + (j - n)
          BY <2>2, <3>5, <4>2
        <5>4. sent'[v][j] \in Nat /\ sent'[v][j] > a
          BY <3>1, <3>5, <3>6, <4>2, <5>3
        <5>5. sent[v][i] > a
          BY <2>2, <3>1, <5>1, <5>2, <5>4
        <5>6. \E w \in wide : from[v].listen < w /\ w <= a
          BY <1>5, <5>1, <5>5, ReadDoes DEF BeyondOnlyByWide, Listening, a
        <5>7. \A w \in wide : w \in Nat /\ (w <= a => w < sent'[v][j])
          <6> DEFINE x == sent'[v][j]
          <6>1. x \in Nat /\ x > a /\ a \in Nat
            BY <3>1, <5>4
          <6>2. \A w \in wide : w \in Nat
            BY <3>1
          <6> HIDE DEF x
          <6>3. \A w \in Nat : w <= a => w < x
            BY <6>1
          <6> QED BY <6>2, <6>3 DEF x
        <5> QED BY <5>6, <5>7
      <4>3. CASE n < i
        <5>1. sent'[v][i] = a + (i - n) /\ sent'[v][j] = a + (j - n)
          BY <2>2, <3>5, <3>6, <4>3
        <5>2. sent'[v][i] < sent'[v][j]
          BY <3>1, <3>5, <3>6, <5>1
        <5> QED BY <2>2, <3>1, <3>5, <3>6, <5>1, <5>2
      <4> QED BY <3>5, <3>6, <4>1, <4>2, <4>3
    <3> QED BY <1>5, <2>2, <3>7, ReadDoes
  <2> QED BY <2>1, <2>2
<1> QED BY <1>1, <1>2, <1>3, <1>4, <1>5, StepKinds

LEMMA NextShort ==
  TypeOK /\ AheadInv /\ ShortTail /\ [Next]_vars => ShortTail'
<1> SUFFICES ASSUME TypeOK, AheadInv, ShortTail, [Next]_vars, NEW u \in Viewer
             PROVE  /\ from'[u].listen <= offset'[u]
                    /\ pc'[u] = "tailing" => Len(sent'[u]) <= TailLen
  BY DEF ShortTail
<1>a. /\ from[u].listen <= offset[u]
      /\ pc[u] = "tailing" => Len(sent[u]) <= TailLen
  BY DEF ShortTail
<1>b. size \in Nat /\ TailLen \in Nat
  BY LogTailAssumption DEF TypeOK
<1>1. CASE Quiet
  BY <1>1, <1>a DEF Quiet
<1>2. ASSUME NEW v \in Viewer, SendTail(v)
      PROVE  /\ from'[u].listen <= offset'[u]
             /\ pc'[u] = "tailing" => Len(sent'[u]) <= TailLen
  <2>1. CASE u # v
    BY <1>2, <1>a, <2>1, SendTailDoes
  <2>2. CASE u = v
    <3> DEFINE first == IF size > TailLen THEN size - TailLen ELSE 0
    <3>1. first \in Nat /\ first <= size /\ size - first <= TailLen
      BY <1>b
    <3>2. sent'[v] = Span(first, size)
      BY <1>2 DEF SendTail, TypeOK
    <3>3. Len(Span(first, size)) = size - first
      BY <1>b, <3>1, SpanLen
    <3>4. Len(sent'[v]) <= TailLen
      BY <3>1, <3>2, <3>3
    <3> QED BY <1>2, <1>a, <2>2, <3>4, SendTailDoes
  <2> QED BY <2>1, <2>2
<1>3. ASSUME NEW v \in Viewer, Listen(v)
      PROVE  /\ from'[u].listen <= offset'[u]
             /\ pc'[u] = "tailing" => Len(sent'[u]) <= TailLen
  BY <1>3, <1>a, <1>b, ListenDoes
<1>4. ASSUME NEW v \in Viewer, Receive(v)
      PROVE  /\ from'[u].listen <= offset'[u]
             /\ pc'[u] = "tailing" => Len(sent'[u]) <= TailLen
  BY <1>4, <1>a, ReceiveDoes
<1>5. ASSUME NEW v \in Viewer, Read(v)
      PROVE  /\ from'[u].listen <= offset'[u]
             /\ pc'[u] = "tailing" => Len(sent'[u]) <= TailLen
  <2>1. CASE u # v
    BY <1>5, <1>a, <2>1, ReadDoes
  <2>2. CASE u = v
    <3>1. /\ from[v].listen \in Nat /\ offset[v] \in Nat /\ new[v] \in Nat
          /\ offset[v] < new[v]
      <4>1. pc[v] = "reading"
        BY <1>5, ReadDoes
      <4>2. from[v].listen \in 0 .. size /\ offset[v] \in 0 .. size
            /\ new[v] \in 0 .. size
        BY DEF TypeOK
      <4>3. offset[v] < new[v]
        BY <4>1 DEF AheadInv
      <4> QED BY <1>b, <4>2, <4>3
    <3>2. from[v].listen <= new[v]
      BY <1>a, <2>2, <3>1
    <3>3. /\ pc'[v] = "sending" /\ offset'[v] = new[v]
          /\ from'[v].listen = from[v].listen
      BY <1>5, ReadDoes
    <3> QED BY <2>2, <3>2, <3>3
  <2> QED BY <2>1, <2>2
<1> QED BY <1>1, <1>2, <1>3, <1>4, <1>5, StepKinds

(* A read sends as much as the offset moves, and one more for each wide    *)
(* character on the way.                                                   *)
LEMMA NextRepeats ==
  TypeOK /\ AheadInv /\ ShortTail /\ RepeatsBounded /\ [Next]_vars
    => RepeatsBounded'
<1> DEFINE Bound(v) == TailLen + (offset[v] - from[v].listen)
                       + Cardinality(WideIn(from[v].listen, offset[v]))
<1> SUFFICES ASSUME TypeOK, AheadInv, ShortTail, RepeatsBounded, [Next]_vars,
                    NEW u \in Viewer
             PROVE  Len(sent[u])' <= Bound(u)'
  BY DEF RepeatsBounded
<1>a. /\ Len(sent[u]) <= Bound(u)
      /\ from[u].listen \in Nat /\ offset[u] \in Nat /\ size \in Nat
      /\ TailLen \in Nat /\ from[u].listen <= offset[u]
      /\ sent[u] \in Seq(1 .. size)
  BY LogTailAssumption DEF RepeatsBounded, TypeOK, ShortTail
<1>b. TypeOK' /\ ShortTail'
  BY NextType, NextShort
<1>c. wide' \subseteq 1 .. size' /\ size' \in Nat
  BY <1>b, LogTailAssumption DEF TypeOK
<1>1. CASE Quiet
  <2> DEFINE A == WideIn(from[u].listen, offset[u])
             B == WideIn(from[u].listen, offset[u])'
  <2>1. A \in SUBSET B
    BY <1>1 DEF Quiet, WideIn
  <2>2. B \in SUBSET (1 .. size') /\ size' \in Nat
    BY <1>c DEF WideIn
  <2> HIDE DEF B
  <2>3. IsFiniteSet(B) /\ Cardinality(B) \in Nat
    BY <2>2, FiniteIn
  <2>4. Cardinality(A) \in Nat
    BY WideFinite
  <2> HIDE DEF A
  <2>5. Cardinality(A) <= Cardinality(B)
    BY <2>1, <2>3, FS_Subset
  <2>6. /\ Len(sent'[u]) = Len(sent[u]) /\ Len(sent[u]) \in Nat
        /\ offset'[u] - from'[u].listen = offset[u] - from[u].listen
    BY <1>1, <1>a, LenProperties DEF Quiet
  <2>7. Len(sent[u]) <= TailLen + (offset[u] - from[u].listen) + Cardinality(A)
    BY <1>a DEF A
  <2>8. Len(sent'[u]) <= TailLen + (offset'[u] - from'[u].listen) + Cardinality(B)
    BY <1>a, <2>3, <2>4, <2>5, <2>6, <2>7
  <2> QED BY <2>8 DEF B
<1>2. ASSUME NEW v \in Viewer, SendTail(v) PROVE Len(sent[u])' <= Bound(u)'
  <2>1. CASE u # v
    BY <1>2, <1>a, <2>1, SendTailDoes DEF WideIn
  <2>2. CASE u = v
    <3>1. Len(sent'[u]) <= TailLen /\ sent'[u] \in Seq(1 .. size')
      BY <1>2, <1>b, <2>2, SendTailDoes DEF ShortTail, TypeOK
    <3>2. from'[u].listen = from[u].listen /\ offset'[u] = offset[u] /\ wide' = wide
      BY <1>2, <2>2, SendTailDoes
    <3>3. Bound(u)' = Bound(u)
      BY <3>2 DEF WideIn
    <3>4. Cardinality(WideIn(from[u].listen, offset[u])) \in Nat
      BY WideFinite
    <3>5. Len(sent'[u]) \in Nat
      BY <3>1, LenProperties
    <3> QED BY <1>a, <3>1, <3>3, <3>4, <3>5
  <2> QED BY <2>1, <2>2
<1>3. ASSUME NEW v \in Viewer, Listen(v) PROVE Len(sent[u])' <= Bound(u)'
  <2>1. CASE u # v
    BY <1>3, <1>a, <2>1, ListenDoes DEF WideIn
  <2>2. CASE u = v
    <3>1. /\ Len(sent[u]) <= TailLen /\ sent' = sent
          /\ offset'[u] = size /\ from'[u].listen = size
      BY <1>3, <2>2, ListenDoes DEF ShortTail
    <3>2. Cardinality(WideIn(from[u].listen, offset[u])') \in Nat
      <4> DEFINE B == WideIn(from[u].listen, offset[u])'
      <4>1. B \in SUBSET (1 .. size') /\ size' \in Nat
        BY <1>c DEF WideIn
      <4> HIDE DEF B
      <4>2. Cardinality(B) \in Nat
        BY <4>1, FiniteIn
      <4> QED BY <4>2 DEF B
    <3>3. Len(sent[u]) \in Nat
      BY <1>a, LenProperties
    <3> QED BY <1>a, <3>1, <3>2, <3>3
  <2> QED BY <2>1, <2>2
<1>4. ASSUME NEW v \in Viewer, Receive(v) PROVE Len(sent[u])' <= Bound(u)'
  BY <1>4, <1>a, ReceiveDoes DEF WideIn
<1>5. ASSUME NEW v \in Viewer, Read(v) PROVE Len(sent[u])' <= Bound(u)'
  <2>1. CASE u # v
    BY <1>5, <1>a, <2>1, ReadDoes DEF WideIn
  <2>2. CASE u = v
    <3> DEFINE l == from[u].listen
               a == offset[u]
               n == new[u]
               b == ReadTo(a, n)
               s == sent[u]
    <3>0. Seq(1 .. size) \subseteq Seq(Nat)
      BY <1>a
    <3>1. n \in Nat /\ n \in 0 .. size /\ a \in 0 .. size /\ a < n
      BY <1>5, <2>2, ReadDoes DEF TypeOK, AheadInv
    <3>2. b \in Nat /\ n <= b /\ b <= n + Cardinality(WideIn(a, n))
      BY <3>1, ReadToRange
    <3>3. /\ sent'[u] = s \o Span(a, b) /\ offset'[u] = n
          /\ from'[u].listen = l /\ wide' = wide
      BY <1>5, <2>2, ReadDoes
    <3>4. Len(s \o Span(a, b)) = Len(s) + (b - a)
      <4>0. a \in Nat /\ b \in Nat /\ a <= b
        BY <3>1, <3>2, <1>a
      <4>1. Span(a, b) \in Seq(Nat) /\ Len(Span(a, b)) = b - a
        BY <4>0, SpanLen
      <4>2. s \in Seq(Nat)
        BY <1>a, <3>0
      <4> DEFINE t == Span(a, b)
      <4> HIDE DEF s, t
      <4>3. Len(s \o t) = Len(s) + Len(t)
        BY <4>1, <4>2, ConcatProperties DEF t
      <4> QED BY <4>1, <4>3 DEF t
    <3>5. Cardinality(WideIn(l, n)) =
            Cardinality(WideIn(l, a)) + Cardinality(WideIn(a, n))
      BY <1>a, <3>1, WideSplit
    <3>6. /\ Cardinality(WideIn(l, a)) \in Nat /\ Cardinality(WideIn(a, n)) \in Nat
          /\ Len(s) \in Nat
      BY <1>a, WideFinite, LenProperties
    <3>7. Bound(u)' = TailLen + (n - l) + Cardinality(WideIn(l, n))
      BY <3>3 DEF WideIn
    <3>8. Len(s) <= TailLen + (a - l) + Cardinality(WideIn(l, a))
      BY <1>a
    <3>9. Len(sent'[u]) = Len(s) + (b - a) /\ l \in Nat /\ a \in Nat /\ TailLen \in Nat
      BY <1>a, <3>3, <3>4
    <3> HIDE DEF l, a, n, b, s
    <3>10. Len(s) + (b - a) <= TailLen + (n - l) + Cardinality(WideIn(l, n))
      BY <3>1, <3>2, <3>5, <3>6, <3>8, <3>9
    <3> QED BY <3>7, <3>9, <3>10
  <2> QED BY <2>1, <2>2
<1> QED BY <1>1, <1>2, <1>3, <1>4, <1>5, StepKinds

LEMMA Invariant == Spec => []IInv
<1>1. Init => IInv
  BY InitType, InitShown DEF IInv
<1>2. IInv /\ [Next]_vars => IInv'
  BY NextType, NextAhead, NextGap, NextTailInOrder, NextBeyond, NextTwice,
     NextShort, NextRepeats DEF IInv
<1> QED BY <1>1, <1>2, PTL DEF Spec

(* Nothing is missing between where a viewer began to listen and where it  *)
(* stands, however many watchdogs notify it.                               *)
THEOREM NothingMissed == Spec => []GapOnlyBehindTail
<1>1. IInv => GapOnlyBehindTail
  BY DEF IInv
<1> QED BY <1>1, Invariant, PTL

(* The log of an ASCII program is shown in order and once.                 *)
THEOREM ShownOnce == Spec => []TwiceOnlyAfterWide
<1>1. IInv => TwiceOnlyAfterWide
  BY DEF IInv
<1> QED BY <1>1, Invariant, PTL

(* What wide characters bring again is no more than there are of them.     *)
THEOREM RepeatsAreFew == Spec => []RepeatsBounded
<1>1. IInv => RepeatsBounded
  BY DEF IInv
<1> QED BY <1>1, Invariant, PTL
=============================================================================
