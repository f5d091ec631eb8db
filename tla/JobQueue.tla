------------------------------ MODULE JobQueue ------------------------------
(***************************************************************************)
(* The durable queue of Forum Relay and the workers that drain it: the     *)
(* inbox_events and outbox_operations tables (db/job-repository.ts), the   *)
(* polling loop (jobs/durable-worker.ts) and the part of the handlers that *)
(* touches the queue (relay/engine.ts).                                    *)
(*                                                                         *)
(* A job is identified by its idempotency key, so a table is a function    *)
(* from jobs to rows, and a job that was never inserted is "absent".       *)
(* What is fixed by the key (partition, mapping, operation kind) is a      *)
(* CONSTANT function.  Wall-clock comparisons are a flag: "due" says that  *)
(* next_attempt_at of a pending row, or claim_expires_at of a claimed one, *)
(* has passed.                                                             *)
(***************************************************************************)
EXTENDS Naturals, Sequences, FiniteSets, RetryPolicy

CONSTANTS
  Event,         \* idempotency keys of inbox_events
  Operation,     \* idempotency keys of outbox_operations
  Partition,     \* partition keys: one per thread, issue or link
  Mapping,       \* forum <-> repository mappings
  Worker,        \* process incarnations: each start draws a fresh instance id
  NoPartition,   \* partition_key IS NULL (events only)
  NoMapping,     \* mapping_key IS NULL (events only)
  NoWorker,      \* claim_owner IS NULL
  NoJob,         \* a worker that is running no handler
  PartitionOf,   \* job -> partition key
  MappingOf,     \* job -> mapping key
  KindOf,        \* operation -> operation kind
  PlanOf,        \* job -> the operations its handler enqueues, in order
  DependsOn,     \* operation -> the prerequisites its handler names
  Submitted,     \* jobs inserted from outside a handler
  Backlog,       \* lifecycle rows left by an earlier release, in rowid order,
                 \* whose payload has no issue to build a starter post from
  MaxFaults,     \* bound: crashes, lost leases, database errors and overruns
  MaxCommands    \* bound: operator commands

Job == Event \cup Operation

Sync      == "discord.item.sync"
Lifecycle == "discord.issue.lifecycle"
Kind      == {Sync, Lifecycle, "other"}

JobState     == {"absent", "pending", "processing", "completed", "dead", "discarded"}
Unsettled    == {"pending", "processing"}
ErrorCode    == {"none", "THREAD_PENDING", "other"}
MappingState == {"PENDING_BOOTSTRAP", "BOOTSTRAPPING", "ACTIVE", "PAUSED", "DEGRADED", "DISABLED"}
OpenState    == {"ACTIVE", "BOOTSTRAPPING"}

BacklogSet == {Backlog[i] : i \in DOMAIN Backlog}

ASSUME ConstantsAssumption ==
  /\ Event \cap Operation = {}
  /\ NoJob \notin Job /\ NoWorker \notin Worker
  /\ NoPartition \notin Partition /\ NoMapping \notin Mapping
  /\ PartitionOf \in [Job -> Partition \cup {NoPartition}]
  /\ MappingOf \in [Job -> Mapping \cup {NoMapping}]
  /\ \A o \in Operation : PartitionOf[o] \in Partition /\ MappingOf[o] \in Mapping
  /\ KindOf \in [Operation -> Kind]
  /\ PlanOf \in [Job -> Seq(Operation)]
  /\ DependsOn \in [Operation -> SUBSET Operation]
  /\ Submitted \subseteq Job
  /\ Backlog \in Seq(Operation)
  /\ \A i \in DOMAIN Backlog : KindOf[Backlog[i]] = Lifecycle
  /\ \A i, k \in DOMAIN Backlog : Backlog[i] = Backlog[k] => i = k
  /\ MaxFaults \in Nat /\ MaxCommands \in Nat

VARIABLES
  rows,      \* both tables: job -> row
  lastRow,   \* the rowid of the newest row
  mapping,   \* mappings.state
  thread,    \* issue_thread_links.discord_thread_id is set, per partition
  active,    \* workers whose #active flag is set
  turn,      \* the table a worker's loop claims from next
  run,       \* the handler a worker is in the middle of
  revived,   \* history: jobs that left the dead state
  faults,    \* faults so far
  commands   \* operator commands so far

vars == <<rows, lastRow, mapping, thread, active, turn, run, revived, faults, commands>>

Row == [state    : JobState,
        rowid    : Nat,
        attempts : 0..MaxAttempts,     \* saturates: only ">= maxAttempts" is tested
        owner    : Worker \cup {NoWorker},
        due      : BOOLEAN,
        error    : ErrorCode,
        deps     : SUBSET Operation]

Handler == [job    : Job \cup {NoJob},
            step   : Nat \ {0},          \* next operation of the plan to enqueue
            fresh  : SUBSET Operation,   \* operations this run inserted itself
            linked : BOOLEAN,            \* the link it read had a thread
            made   : BOOLEAN]            \* it created the thread (createdThread)

Idle == [job |-> NoJob, step |-> 1, fresh |-> {}, linked |-> FALSE, made |-> FALSE]

-----------------------------------------------------------------------------
(* Rows.                                                                   *)

NewRow(id, prerequisites) ==
  [state |-> "pending", rowid |-> id, attempts |-> 0, owner |-> NoWorker,
   due |-> TRUE, error |-> "none", deps |-> prerequisites]

AbsentRow ==
  [state |-> "absent", rowid |-> 0, attempts |-> 0, owner |-> NoWorker,
   due |-> FALSE, error |-> "none", deps |-> {}]

ClaimedRow(r, w) ==
  [r EXCEPT !.state = "processing", !.owner = w, !.due = FALSE,
            !.attempts = IF @ < MaxAttempts THEN @ + 1 ELSE @]

CompletedRow(r) ==
  [r EXCEPT !.state = "completed", !.owner = NoWorker, !.due = FALSE, !.error = "none"]

FailedRow(r, category, code) ==
  [r EXCEPT !.state = RetryDecision(category, r.attempts), !.owner = NoWorker,
            !.due = FALSE, !.error = code]

\* mutateFailure "retry": attempt_count and last_error_code are kept.
RetriedRow(r) == [r EXCEPT !.state = "pending", !.owner = NoWorker, !.due = TRUE]

\* Mutant: the action's name is stored as the state.
DiscardedRowByAction(r) == [r EXCEPT !.state = "discard", !.owner = NoWorker]

\* mutateFailure "discard".
DiscardedRow(r) == [r EXCEPT !.state = "discarded", !.owner = NoWorker]

\* The clock passes next_attempt_at or claim_expires_at.
DueRow(r) == [r EXCEPT !.due = TRUE]

\* resumeThreadPendingLifecycles and resumeDeadThreadPendingLifecycles.
ResumedRow(r) ==
  [r EXCEPT !.state = "pending", !.attempts = 0, !.owner = NoWorker,
            !.due = TRUE, !.error = "none"]

-----------------------------------------------------------------------------
(* Which row a claim takes.                                                *)

Table == {"inbox", "outbox"}

TableOf(j) == IF j \in Event THEN "inbox" ELSE "outbox"

OtherTable(table) == IF table = "inbox" THEN "outbox" ELSE "inbox"

IsUnsettled(j) == rows[j].state \in Unsettled

SamePartition(i, j) ==
  /\ TableOf(i) = TableOf(j)
  /\ PartitionOf[j] # NoPartition
  /\ PartitionOf[i] = PartitionOf[j]

\* The unsettled rows that were queued before j in its partition.
Earlier(j) == {e \in Job : /\ IsUnsettled(e)
                           /\ rows[e].rowid < rows[j].rowid
                           /\ SamePartition(e, j)}

IsSync(j)      == j \in Operation /\ KindOf[j] = Sync
IsLifecycle(j) == j \in Operation /\ KindOf[j] = Lifecycle

\* A lifecycle row queued before j has recorded that its thread is missing.
ThreadWaiterBefore(j) ==
  \E x \in Operation : /\ SamePartition(x, j)
                       /\ rows[x].rowid < rows[j].rowid
                       /\ IsLifecycle(x)
                       /\ rows[x].error = "THREAD_PENDING"

\* Mutant: any row may pass the waiting lifecycle rows.
MayPassOfAnyKind(j, e) == IsLifecycle(e) /\ ThreadWaiterBefore(j)

\* The creator of the thread may pass the lifecycle rows that wait for it.
MayPass(j, e) == IsSync(j) /\ IsLifecycle(e) /\ ThreadWaiterBefore(j)

MappingOpen(j) == MappingOf[j] = NoMapping \/ mapping[MappingOf[j]] \in OpenState

PrerequisitesDone(j) == \A d \in rows[j].deps : rows[d].state = "completed"

\* Mutant: the dependency clause is missing.
ClaimableEarly(j) ==
  /\ IsUnsettled(j)
  /\ rows[j].due
  /\ MappingOpen(j)
  /\ \A e \in Earlier(j) : MayPass(j, e)

Claimable(j) ==
  /\ IsUnsettled(j)
  /\ rows[j].due
  /\ MappingOpen(j)
  /\ PrerequisitesDone(j)
  /\ \A e \in Earlier(j) : MayPass(j, e)

\* Mutant: LIMIT 1 before the mapping and the partition are looked at.
NextClaimOfOldest(table) ==
  {j \in Job :
     /\ TableOf(j) = table /\ Claimable(j)
     /\ \A i \in Job : TableOf(i) = table /\ IsUnsettled(i) => rows[j].rowid <= rows[i].rowid}

\* ORDER BY rowid LIMIT 1: at most one job.
NextClaim(table) ==
  LET claimable == {j \in Job : TableOf(j) = table /\ Claimable(j)}
  IN {j \in claimable : \A i \in claimable : rows[j].rowid <= rows[i].rowid}

\* Mutant: claim_owner is not compared.
HoldsForAnyone(w, j) == rows[j].state = "processing"

\* The fence of completeInbox, completeOutbox and failClaim.
Holds(w, j) == rows[j].state = "processing" /\ rows[j].owner = w

-----------------------------------------------------------------------------
Init ==
  /\ rows = [j \in Job |->
               IF j \in BacklogSet
               THEN NewRow(CHOOSE i \in DOMAIN Backlog : Backlog[i] = j, {})
               ELSE AbsentRow]
  /\ lastRow = Len(Backlog)
  /\ mapping = [m \in Mapping |-> "ACTIVE"]
  /\ thread = [p \in Partition |-> FALSE]
  /\ active = Worker
  /\ turn = [w \in Worker |-> "inbox"]
  /\ run = [w \in Worker |-> Idle]
  /\ revived = {}
  /\ faults = 0
  /\ commands = 0

-----------------------------------------------------------------------------
(* Producers: the webhook server, the Discord intake, bootstrap and        *)
(* reconciliation insert events; the close command and the audit           *)
(* classifier insert operations.  INSERT OR IGNORE makes a repeated        *)
(* submission of the same key a stuttering step.                           *)

\* Mutant: INSERT OR REPLACE.
InsertOrReplace(j, prerequisites) ==
  /\ rows' = [rows EXCEPT ![j] = NewRow(lastRow + 1, prerequisites)]
  /\ lastRow' = lastRow + 1

Insert(j, prerequisites) ==
  /\ rows[j].state = "absent"
  /\ rows' = [rows EXCEPT ![j] = NewRow(lastRow + 1, prerequisites)]
  /\ lastRow' = lastRow + 1

Submit(j) ==
  /\ j \in Submitted
  /\ Insert(j, {})
  /\ UNCHANGED <<mapping, thread, active, turn, run, revived, faults, commands>>

-----------------------------------------------------------------------------
(* The worker loop: claim an event and handle it, then claim an operation  *)
(* and handle it.                                                          *)

\* What the handler reads of the link as it starts.
LinkSeen(j) == j \in Operation => KindOf[j] = "other" \/ thread[PartitionOf[j]]

Claim(w, j) ==
  /\ rows' = [rows EXCEPT ![j] = ClaimedRow(@, w)]
  /\ run' = [run EXCEPT ![w] = [Idle EXCEPT !.job = j, !.linked = LinkSeen(j)]]
  /\ UNCHANGED <<lastRow, mapping, thread, active, turn, revived, faults, commands>>

\* Nothing to claim: the loop moves on to the other table.
Skip(w) ==
  /\ NextClaim(turn[w]) = {}
  /\ turn' = [turn EXCEPT ![w] = OtherTable(@)]
  /\ UNCHANGED <<rows, lastRow, mapping, thread, active, run, revived, faults, commands>>

\* #active is tested once, at the start of a tick.
ClaimInbox(w) ==
  /\ w \in active
  /\ turn[w] = "inbox" /\ run[w].job = NoJob
  /\ \/ \E j \in NextClaim("inbox") : Claim(w, j)
     \/ Skip(w)

ClaimOutbox(w) ==
  /\ turn[w] = "outbox" /\ run[w].job = NoJob
  /\ \/ \E j \in NextClaim("outbox") : Claim(w, j)
     \/ Skip(w)

-----------------------------------------------------------------------------
(* Handlers.  Their external calls can fail at any point.                  *)

Running(w) == run[w].job # NoJob

\* Mutant: off by one.
PlanDoneEarly(w) == run[w].step >= Len(PlanOf[run[w].job])

PlanDone(w) == run[w].step > Len(PlanOf[run[w].job])

\* The handler enqueues the next operation of its plan in a transaction of
\* its own.  An operation that exists already yields no id to depend on.
EnqueueNext(w) ==
  /\ Running(w) /\ ~PlanDone(w)
  /\ LET o == PlanOf[run[w].job][run[w].step]
     IN \/ /\ Insert(o, DependsOn[o] \cap run[w].fresh)
           /\ run' = [run EXCEPT ![w].step = @ + 1, ![w].fresh = @ \cup {o}]
        \/ /\ rows[o].state # "absent"
           /\ run' = [run EXCEPT ![w].step = @ + 1]
           /\ UNCHANGED <<rows, lastRow>>
  /\ UNCHANGED <<mapping, thread, active, turn, revived, faults, commands>>

\* An item sync posts the starter of a missing thread and records the
\* thread on the link; so does a lifecycle job whose payload has the issue.
MakeThread(w) ==
  /\ Running(w) /\ ~run[w].linked
  /\ run[w].job \notin BacklogSet
  /\ thread' = [thread EXCEPT ![PartitionOf[run[w].job]] = TRUE]
  /\ run' = [run EXCEPT ![w].linked = TRUE, ![w].made = TRUE]
  /\ UNCHANGED <<rows, lastRow, mapping, active, turn, revived, faults, commands>>

WaitsForThread(j) == IsLifecycle(j) /\ rows[j].error = "THREAD_PENDING"

\* resumeThreadPendingLifecycles, called by the handler that made the thread.
ResumeWaiters(w) ==
  LET waiters == {j \in Job : /\ WaitsForThread(j)
                              /\ PartitionOf[j] = PartitionOf[run[w].job]
                              /\ rows[j].state \in {"dead", "pending"}}
  IN /\ Running(w) /\ run[w].made
     /\ rows' = [j \in Job |-> IF j \in waiters THEN ResumedRow(rows[j]) ELSE rows[j]]
     /\ revived' = revived \cup {j \in waiters : rows[j].state = "dead"}
     /\ run' = [run EXCEPT ![w].made = FALSE]
     /\ UNCHANGED <<lastRow, mapping, thread, active, turn, faults, commands>>

\* The handler is over; the loop turns to the other table.
Leave(w) ==
  /\ run' = [run EXCEPT ![w] = Idle]
  /\ turn' = [turn EXCEPT ![w] = OtherTable(@)]
  /\ UNCHANGED <<lastRow, mapping, thread, active, revived, faults, commands>>

\* A settlement that finds the claim gone changes no row, and the loop
\* ignores that it did not.
Settle(w, newRow) ==
  rows' = IF Holds(w, run[w].job) THEN [rows EXCEPT ![run[w].job] = newRow] ELSE rows

\* Lifecycle work on an issue without a thread may end by being ignored.
Complete(w) ==
  /\ Running(w) /\ PlanDone(w) /\ ~run[w].made
  /\ run[w].linked \/ (IsLifecycle(run[w].job) /\ run[w].job \notin BacklogSet)
  /\ Settle(w, CompletedRow(rows[run[w].job]))
  /\ Leave(w)

Fail(w) ==
  /\ Running(w)
  /\ \E category \in FailureCategory :
       Settle(w, FailedRow(rows[run[w].job], category, "other"))
  /\ Leave(w)

FailThreadPending(w) ==
  /\ Running(w) /\ ~run[w].linked
  /\ run[w].job \in BacklogSet
  /\ Settle(w, FailedRow(rows[run[w].job], "temporary", "THREAD_PENDING"))
  /\ Leave(w)

-----------------------------------------------------------------------------
(* Time.                                                                   *)

BecomesDue(j) ==
  /\ ~rows[j].due
  /\ rows' = [rows EXCEPT ![j] = DueRow(@)]
  /\ UNCHANGED <<lastRow, mapping, thread, active, turn, run, revived, commands>>

BackoffElapses(j) ==
  /\ rows[j].state = "pending"
  /\ BecomesDue(j)
  /\ UNCHANGED faults

Orphaned(j) == \A w \in Worker : rows[j].owner = w => run[w].job # j

\* The claim of a handler that no longer runs expires ...
ClaimExpires(j) ==
  /\ rows[j].state = "processing" /\ Orphaned(j)
  /\ BecomesDue(j)
  /\ UNCHANGED faults

\* ... and so does the claim of a handler that runs for too long: the claim
\* is never renewed.
ClaimOverrun(j) ==
  /\ rows[j].state = "processing" /\ ~Orphaned(j)
  /\ faults < MaxFaults /\ faults' = faults + 1
  /\ BecomesDue(j)

-----------------------------------------------------------------------------
(* Faults.  One worker always stays: a supervisor starts a replacement.    *)

Fault == faults < MaxFaults /\ faults' = faults + 1

\* The process is gone, with whatever its handler had not yet stored.
Crash(w) ==
  /\ Fault
  /\ w \in active \/ Running(w)
  /\ active \ {w} # {}
  /\ active' = active \ {w}
  /\ run' = [run EXCEPT ![w] = Idle]
  /\ turn' = [turn EXCEPT ![w] = "inbox"]
  /\ UNCHANGED <<rows, lastRow, mapping, thread, revived, commands>>

\* DurableWorker.stop, on shutdown or when the lease is lost: the timer is
\* cancelled, a tick in progress goes on.
Stop(w) ==
  /\ Fault
  /\ w \in active /\ active \ {w} # {}
  /\ active' = active \ {w}
  /\ UNCHANGED <<rows, lastRow, mapping, thread, turn, run, revived, commands>>

\* Both completing and failing the job throw: the tick is over, the row
\* stays claimed.
Abandon(w) ==
  /\ Fault
  /\ Running(w)
  /\ run' = [run EXCEPT ![w] = Idle]
  /\ turn' = [turn EXCEPT ![w] = "inbox"]
  /\ UNCHANGED <<rows, lastRow, mapping, thread, active, revived, commands>>

-----------------------------------------------------------------------------
(* Operator commands.                                                      *)

Command == commands < MaxCommands /\ commands' = commands + 1

\* /relay failures retry
RetryFailure(j) ==
  /\ Command
  /\ rows[j].state = "dead"
  /\ rows' = [rows EXCEPT ![j] = RetriedRow(@)]
  /\ revived' = revived \cup {j}
  /\ UNCHANGED <<lastRow, mapping, thread, active, turn, run, faults>>

\* /relay failures discard
DiscardFailure(j) ==
  /\ Command
  /\ rows[j].state = "dead"
  /\ rows' = [rows EXCEPT ![j] = DiscardedRow(@)]
  /\ UNCHANGED <<lastRow, mapping, thread, active, turn, run, revived, faults>>

\* Resuming a bootstrap first revives the dead waiters of the mapping.
ResumeDeadWaiters(m) ==
  LET waiters == {j \in Job : /\ WaitsForThread(j)
                              /\ MappingOf[j] = m
                              /\ rows[j].state = "dead"}
  IN /\ Command
     /\ waiters # {}
     /\ rows' = [j \in Job |-> IF j \in waiters THEN ResumedRow(rows[j]) ELSE rows[j]]
     /\ revived' = revived \cup waiters
     /\ UNCHANGED <<lastRow, mapping, thread, active, turn, run, faults>>

\* /relay pause and /relay resume
SetMapping(m) ==
  /\ Command
  /\ mapping' = [mapping EXCEPT ![m] = IF @ = "PAUSED" THEN "ACTIVE" ELSE "PAUSED"]
  /\ UNCHANGED <<rows, lastRow, thread, active, turn, run, revived, faults>>

-----------------------------------------------------------------------------
Tick(w) ==
  \/ ClaimInbox(w) \/ ClaimOutbox(w)
  \/ EnqueueNext(w) \/ MakeThread(w) \/ ResumeWaiters(w)
  \/ Complete(w) \/ Fail(w) \/ FailThreadPending(w)

Time(j) == BackoffElapses(j) \/ ClaimExpires(j)

Next ==
  \/ \E j \in Job : Submit(j) \/ Time(j) \/ ClaimOverrun(j)
  \/ \E w \in Worker : Tick(w) \/ Crash(w) \/ Stop(w) \/ Abandon(w)
  \/ \E j \in Job : RetryFailure(j) \/ DiscardFailure(j)
  \/ \E m \in Mapping : ResumeDeadWaiters(m) \/ SetMapping(m)

Spec == Init /\ [][Next]_vars

\* The poll timer keeps firing, handlers return, and clocks advance.
FairSpec ==
  /\ Spec
  /\ \A w \in Worker : WF_vars(Tick(w))
  /\ \A j \in Job : WF_vars(Time(j))

-----------------------------------------------------------------------------
(* Properties.                                                             *)

TypeOK ==
  /\ rows \in [Job -> Row]
  /\ lastRow \in Nat
  /\ mapping \in [Mapping -> MappingState]
  /\ thread \in [Partition -> BOOLEAN]
  /\ active \subseteq Worker
  /\ turn \in [Worker -> Table]
  /\ run \in [Worker -> Handler]
  /\ revived \subseteq Job
  /\ faults \in 0..MaxFaults
  /\ commands \in 0..MaxCommands

\* A backlog row queued before j, the only kind that can wait for a thread.
BacklogBefore(j) ==
  \E x \in BacklogSet : SamePartition(x, j) /\ rows[x].rowid < rows[j].rowid

\* While a job of a partition is claimed, everything queued before it in the
\* partition is settled; the exceptions are jobs that came back from the
\* dead, and lifecycle jobs passed by a sync where a backlog row waited for
\* the thread.  (claimInbox and claimOutbox, whatever workers, crashes,
\* expired claims and operator commands do in between.)
InPartitionOrder ==
  \A j \in Job : rows[j].state = "processing" =>
    \A e \in Earlier(j) :
      e \in revived \/ (IsSync(j) /\ IsLifecycle(e) /\ BacklogBefore(j))

\* No attempt at an operation starts before all its recorded prerequisites
\* have completed, and they stay completed.  (operation_dependencies)
PrerequisitesFirst ==
  \A j \in Job :
    rows[j].attempts > 0 \/ rows[j].state \in {"processing", "completed"}
      => PrerequisitesDone(j)

\* A job that is completed has left every operation of its plan in the
\* outbox, although each was enqueued in a transaction of its own and the
\* handler may have been cut short and rerun, even by two workers at once.
IntentRecorded ==
  \A j \in Job : rows[j].state = "completed" =>
    \A i \in DOMAIN PlanOf[j] : rows[PlanOf[j][i]].state # "absent"

\* The operations of j's plan are enqueued by no one else.
PlanIsOwn(j) ==
  \A i \in DOMAIN PlanOf[j] :
    /\ PlanOf[j][i] \notin Submitted \cup BacklogSet
    /\ \A k \in Job : \A n \in DOMAIN PlanOf[k] :
         PlanOf[k][n] = PlanOf[j][i] => k = j /\ n = i

\* However often its handler is rerun, the operations of one job stand in
\* the outbox in the order of its plan, so that partition order is handler
\* order (a reopen before the comment that needs it).
IntentInOrder ==
  \A j \in Job : PlanIsOwn(j) =>
    \A i, k \in DOMAIN PlanOf[j] :
      i < k /\ rows[PlanOf[j][k]].state # "absent" =>
        /\ rows[PlanOf[j][i]].state # "absent"
        /\ rows[PlanOf[j][i]].rowid < rows[PlanOf[j][k]].rowid

\* j, or a job it must wait for, has a prerequisite that ended without
\* completing.
Wedged(j) ==
  \E e \in Earlier(j) \cup {j} : \E d \in rows[e].deps : rows[d].state \in {"dead", "discarded"}

\* Every queued job is settled, whatever becomes of the jobs before it and
\* of the other mappings, unless its mapping is closed or it waits for a
\* prerequisite that ended without completing.
Progress ==
  \A j \in Job : IsUnsettled(j) ~> (~IsUnsettled(j) \/ ~MappingOpen(j) \/ Wedged(j))

-----------------------------------------------------------------------------
\* The refinement: what a client of the queue can observe of a row.
StatusName == [absent |-> "unknown", pending |-> "waiting", processing |-> "held",
               completed |-> "done", dead |-> "failed", discarded |-> "dropped"]

StatusOf(j) == StatusName[rows[j].state]

Contract == INSTANCE JobContract WITH
              status <- [j \in Job |-> StatusOf(j)],
              holder <- [j \in Job |-> rows[j].owner],
              doing  <- [w \in Worker |-> run[w].job]

\* However the workers, claims, crashes and commands interleave, the rows of
\* both tables keep the contract of JobContract: only the worker that runs a
\* job under its current claim settles it, and completed work stays completed.
ImplementsContract == Contract!Spec

-----------------------------------------------------------------------------
(* What the documents and tests say, and the code does not do.             *)

\* tests/db/job-repository.test.ts: lifecycle work that died while waiting
\* for its thread is revived once the thread is there.
WaitersAreRevived ==
  \A o \in Operation :
    WaitsForThread(o) /\ rows[o].state = "dead" /\ thread[PartitionOf[o]]
      ~> rows[o].state # "dead"

=============================================================================
