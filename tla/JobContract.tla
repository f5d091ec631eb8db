---------------------------- MODULE JobContract ----------------------------
(***************************************************************************)
(* What the queue promises about one job, whatever its table, partition    *)
(* or dependencies: it is accepted once, it is settled only by a worker    *)
(* that is executing it under the current claim, a claim can change hands  *)
(* but never loses the job, and a job that is done is done for good.       *)
(***************************************************************************)
CONSTANTS Job, Worker, NoWorker, NoJob

VARIABLES
  status,   \* job -> what the outside may observe of it
  holder,   \* job -> the worker whose claim is current
  doing     \* worker -> the job its handler is executing

vars == <<status, holder, doing>>

Status == {"unknown", "waiting", "held", "done", "failed", "dropped"}

\* A queue may start with jobs that an earlier process accepted.
Init ==
  /\ status \in [Job -> {"unknown", "waiting"}]
  /\ holder = [j \in Job |-> NoWorker]
  /\ doing = [w \in Worker |-> NoJob]

Accept(j) ==
  /\ status[j] = "unknown"
  /\ status' = [status EXCEPT ![j] = "waiting"]
  /\ UNCHANGED <<holder, doing>>

\* A free worker takes a waiting job, or takes over a job from its holder.
Take(w, j) ==
  /\ doing[w] = NoJob
  /\ status[j] \in {"waiting", "held"}
  /\ status' = [status EXCEPT ![j] = "held"]
  /\ holder' = [holder EXCEPT ![j] = w]
  /\ doing' = [doing EXCEPT ![w] = j]

\* The holder ends its execution with a verdict.
Finish(w, j, verdict) ==
  /\ doing[w] = j /\ holder[j] = w /\ status[j] = "held"
  /\ status' = [status EXCEPT ![j] = verdict]
  /\ holder' = [holder EXCEPT ![j] = NoWorker]
  /\ doing' = [doing EXCEPT ![w] = NoJob]

\* An execution ends without a word: it crashed, or its claim was lost.
Vanish(w) ==
  /\ doing[w] # NoJob
  /\ doing' = [doing EXCEPT ![w] = NoJob]
  /\ UNCHANGED <<status, holder>>

\* Failed jobs are put back, or one of them is given up.
Revive(S) ==
  /\ \A j \in S : status[j] = "failed"
  /\ status' = [j \in Job |-> IF j \in S THEN "waiting" ELSE status[j]]
  /\ UNCHANGED <<holder, doing>>

Drop(j) ==
  /\ status[j] = "failed"
  /\ status' = [status EXCEPT ![j] = "dropped"]
  /\ UNCHANGED <<holder, doing>>

Next ==
  \/ \E j \in Job : Accept(j) \/ Drop(j)
  \/ \E w \in Worker, j \in Job : Take(w, j)
  \/ \E w \in Worker, j \in Job : \E v \in {"done", "waiting", "failed"} : Finish(w, j, v)
  \/ \E w \in Worker : Vanish(w)
  \/ \E S \in SUBSET Job : Revive(S)

Spec == Init /\ [][Next]_vars

=============================================================================
