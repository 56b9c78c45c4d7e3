------------------------------ MODULE JobQueue ------------------------------
(***************************************************************************)
(* What a queue with a bounded number of attempts promises to those who    *)
(* put jobs into it, whatever happens to claims, answers and workers: an   *)
(* accepted job stays owed until it is reported as carried out, after at   *)
(* least one attempt, or given up, after the last one; and a job that is   *)
(* settled never comes back.  EditPromise and SnapshotCopy add what        *)
(* carrying a job out means.                                               *)
(***************************************************************************)
EXTENDS Naturals

CONSTANTS Job,          \* the jobs that may be queued
          MaxAttempts   \* after so many attempts a job may be given up

VARIABLES promise,      \* promise[j]: what the queue has promised of j
          attempts      \* attempts[j]: how often j was handed out,
                        \* counted to MaxAttempts

qvars == <<promise, attempts>>

QueueInit == /\ promise = [j \in Job |-> "none"]
             /\ attempts = [j \in Job |-> 0]

Accept(j) == /\ promise[j] = "none"
             /\ promise' = [promise EXCEPT ![j] = "open"]
             /\ UNCHANGED attempts

Attempt(j) == /\ promise[j] = "open" /\ attempts[j] < MaxAttempts
              /\ attempts' = [attempts EXCEPT ![j] = @ + 1]
              /\ UNCHANGED promise

Keep(j) == /\ promise[j] = "open" /\ attempts[j] > 0
           /\ promise' = [promise EXCEPT ![j] = "kept"]
           /\ UNCHANGED attempts

GiveUp(j) == /\ promise[j] = "open" /\ attempts[j] = MaxAttempts
             /\ promise' = [promise EXCEPT ![j] = "broken"]
             /\ UNCHANGED attempts
=============================================================================
