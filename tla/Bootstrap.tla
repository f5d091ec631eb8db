----------------------------- MODULE Bootstrap -----------------------------
(***************************************************************************)
(* The life of one mapping: mappings.state, the bootstrap jobs that import *)
(* its history (bootstrap/service.ts), what a start of the process does to *)
(* it (app.ts, the clients' initializeMappings, db/mapping-repository.ts)  *)
(* and the operator commands (features/relay/command.ts).                  *)
(*                                                                         *)
(* A bootstrap is an asynchronous call that inserts an event per item of   *)
(* the source, then a timer that looks whether the queue is drained.  The  *)
(* queue itself is JobQueue; here a row only has a state, and a worker     *)
(* takes any row of an open mapping.                                       *)
(***************************************************************************)
EXTENDS Naturals

CONSTANTS
  MaxJobs,       \* bound: bootstrap jobs started
  Item,          \* issues or threads of the source, each with one operation
  LiveItem,      \* items that also get an event from outside the bootstrap
  Caller,        \* bound: calls of start, resume and resumeRunning in flight
  MaxFaults,     \* bound: crashes, failed validations, failed calls, dead letters
  MaxCommands    \* bound: operator commands

NoJob == 0
Job   == 1..MaxJobs          \* in the order of created_at

ASSUME BootstrapAssumption ==
  /\ MaxJobs \in Nat /\ MaxFaults \in Nat /\ MaxCommands \in Nat
  /\ LiveItem \subseteq Item

VARIABLES
  phase,      \* of the process: down, up, or up with the mapping not configured
  mapping,    \* the row of mappings; disabled: disabled_at is set
  job,        \* the rows of bootstrap_jobs
  event,      \* <<job, item>> -> inbox row; <<NoJob, item>> is a live event
  op,         \* item -> outbox row; its key does not depend on the event
  working,    \* the row the worker has claimed
  call,       \* caller -> what is left of its call of #enqueueSnapshot
  monitor,    \* the job of the timer of #monitor
  check,      \* a #finishIfDrained that has counted and not yet written
  faults,
  commands

vars == <<phase, mapping, job, event, op, working, call, monitor, check, faults, commands>>

queue   == <<event, op, working>>
service == <<call, monitor, check>>

MappingState == {"PENDING_BOOTSTRAP", "BOOTSTRAPPING", "ACTIVE", "PAUSED", "DEGRADED", "DISABLED"}
OpenState    == {"ACTIVE", "BOOTSTRAPPING"}
JobState     == {"none", "RUNNING", "PAUSED", "FAILED", "COMPLETED"}
Verdict      == {"COMPLETED", "FAILED"}
WorkState    == {"absent", "pending", "processing", "completed", "dead", "discarded"}
Unsettled    == {"pending", "processing"}

EventKey == (Job \cup {NoJob}) \X Item
NoRow    == <<"none">>
RowKey   == {<<"event", e>> : e \in EventKey} \cup {<<"op", i>> : i \in Item}

\* next: the jobs resumeRunning has yet to take; boot: start() awaits the call.
Call  == [job : Job \cup {NoJob}, left : SUBSET Item, next : SUBSET Job, boot : BOOLEAN]
Check == [job : Job \cup {NoJob}, verdict : Verdict]

Idle      == [job |-> NoJob, left |-> {}, next |-> {}, boot |-> FALSE]
Unchecked == [job |-> NoJob, verdict |-> "FAILED"]

Running == {j \in Job : job[j] = "RUNNING"}

-----------------------------------------------------------------------------
Init ==
  /\ phase = "down"
  /\ mapping = [state |-> "PENDING_BOOTSTRAP", bootstrapped |-> FALSE, disabled |-> FALSE]
  /\ job = [j \in Job |-> "none"]
  /\ event = [e \in EventKey |-> "absent"]
  /\ op = [i \in Item |-> "absent"]
  /\ working = NoRow
  /\ call = [c \in Caller |-> Idle]
  /\ monitor = NoJob
  /\ check = Unchecked
  /\ faults = 0 /\ commands = 0

Fault   == faults < MaxFaults /\ faults' = faults + 1

\* The commands take the key as the operator wrote it: only those that need the
\* configuration of the mapping fail when it has none.
Command == commands < MaxCommands /\ commands' = commands + 1 /\ phase # "down"

SetState(s) == mapping' = [mapping EXCEPT !.state = s]

-----------------------------------------------------------------------------
(* The process.                                                            *)

ProcessGone ==
  /\ phase' = "down"
  /\ working' = NoRow
  /\ call' = [c \in Caller |-> Idle]
  /\ monitor' = NoJob
  /\ check' = Unchecked

Crash ==
  /\ Fault
  /\ phase # "down"
  /\ ProcessGone
  /\ UNCHANGED <<mapping, job, event, op, commands>>

\* Mutant: the name docs/ARCHITECTURE.md gives the state.
RevalidatedByDocs(state) ==
  CASE state \in {"BOOTSTRAPPING", "PAUSED"} -> state
    [] mapping.bootstrapped                  -> "ACTIVE"
    [] OTHER                                 -> "MIGRATING"

\* The state a start gives the mapping when its validation succeeds.
Revalidated(state) ==
  CASE state \in {"BOOTSTRAPPING", "PAUSED"} -> state
    [] mapping.bootstrapped                  -> "ACTIVE"
    [] OTHER                                 -> "PENDING_BOOTSTRAP"

\* resumeDeadThreadPendingLifecycles: the dead rows that waited for a thread.
Revive == \E waiting \in SUBSET {i \in Item : op[i] = "dead"} :
            op' = [i \in Item |-> IF i \in waiting THEN "pending" ELSE op[i]]

\* resumeRunning() takes the running jobs one after the other.
ResumeRunning ==
  \/ Running = {} /\ UNCHANGED <<call, op>>
  \/ /\ \E c \in Caller, j \in Running :
          call' = [call EXCEPT ![c] = [job |-> j, left |-> Item, next |-> Running \ {j},
                                       boot |-> TRUE]]
     /\ Revive

\* applyConfig clears disabled_at, and a validation decides the state.
Start(state) ==
  /\ phase = "down" /\ phase' = "up"
  /\ mapping' = [mapping EXCEPT !.state = state, !.disabled = FALSE]
  /\ ResumeRunning
  /\ UNCHANGED <<job, event, working, monitor, check, commands>>

StartValid ==
  /\ Start(Revalidated(mapping.state))
  /\ UNCHANGED faults

\* GitHub or Discord does not accept the mapping ...
StartInvalid ==
  /\ Fault
  /\ Start("DEGRADED")

\* ... or the labels and tags cannot be synchronized.
StartWithoutLabels ==
  /\ Fault
  /\ Start(mapping.state)

\* The mapping is not in the configuration.  It is disabled once.  If a
\* bootstrap of it is running, resumeRunning() throws and the process ends.
StartWithout ==
  /\ Fault
  /\ phase = "down"
  /\ mapping' = IF mapping.disabled THEN mapping
                ELSE [mapping EXCEPT !.state = "DISABLED", !.disabled = TRUE]
  /\ \/ Running = {} /\ phase' = "without" /\ UNCHANGED op
     \/ Running # {} /\ phase' = "down" /\ Revive
  /\ UNCHANGED <<job, event, working, service, commands>>

-----------------------------------------------------------------------------
(* The worker.                                                             *)

RowState(r) == IF r[1] = "event" THEN event[r[2]] ELSE op[r[2]]

Claim(r) ==
  /\ phase # "down" /\ working = NoRow
  /\ mapping.state \in OpenState
  /\ RowState(r) \in Unsettled
  /\ working' = r
  /\ IF r[1] = "event" THEN event' = [event EXCEPT ![r[2]] = "processing"] /\ UNCHANGED op
                       ELSE op' = [op EXCEPT ![r[2]] = "processing"] /\ UNCHANGED event
  /\ UNCHANGED <<phase, mapping, job, service, faults, commands>>

\* The handler of an event enqueues the operation of its item.
FinishEvent(e) ==
  /\ working = <<"event", e>>
  /\ \/ /\ event' = [event EXCEPT ![e] = "completed"]
        /\ op' = [op EXCEPT ![e[2]] = IF @ = "absent" THEN "pending" ELSE @]
        /\ UNCHANGED faults
     \/ /\ Fault
        /\ event' = [event EXCEPT ![e] = "dead"]
        /\ UNCHANGED op
  /\ working' = NoRow
  /\ UNCHANGED <<phase, mapping, job, service, commands>>

\* An operation of a mapping without configuration is invalid.
FinishOp(i) ==
  /\ working = <<"op", i>>
  /\ \/ phase = "up" /\ op' = [op EXCEPT ![i] = "completed"] /\ UNCHANGED faults
     \/ op' = [op EXCEPT ![i] = "dead"] /\ IF phase = "up" THEN Fault ELSE UNCHANGED faults
  /\ working' = NoRow
  /\ UNCHANGED <<phase, mapping, job, event, service, commands>>

\* A webhook or Gateway event arrives, whatever the state of the mapping.
Receive(i) ==
  /\ phase # "down"
  /\ i \in LiveItem
  /\ event[<<NoJob, i>>] = "absent"
  /\ event' = [event EXCEPT ![<<NoJob, i>>] = "pending"]
  /\ UNCHANGED <<phase, mapping, job, op, working, service, faults, commands>>

-----------------------------------------------------------------------------
(* #enqueueSnapshot and #monitor                                           *)

\* INSERT OR IGNORE of an item's event.
EnqueueItem(c) ==
  /\ \E i \in call[c].left :
       LET e == <<call[c].job, i>>
       IN /\ event' = [event EXCEPT ![e] = IF @ = "absent" THEN "pending" ELSE @]
          /\ call' = [call EXCEPT ![c].left = @ \ {i}]
  /\ UNCHANGED <<phase, mapping, job, op, working, monitor, check, faults, commands>>

\* The snapshot is complete: #monitor replaces the timer.
WatchJob(c) ==
  /\ call[c].job # NoJob /\ call[c].left = {}
  /\ monitor' = call[c].job
  /\ \/ call[c].next = {} /\ call' = [call EXCEPT ![c] = Idle] /\ UNCHANGED op
     \/ /\ \E j \in call[c].next :
             call' = [call EXCEPT ![c] = [call[c] EXCEPT !.job = j, !.left = Item, !.next = @ \ {j}]]
        /\ Revive
  /\ UNCHANGED <<phase, mapping, job, event, working, check, faults, commands>>

\* A remote call or an insertion throws.  The error of a command is shown to
\* the operator; an error of resumeRunning() ends the process.
SnapshotFails(c) ==
  /\ Fault
  /\ call[c].job # NoJob /\ call[c].left # {}
  /\ IF call[c].boot
     THEN ProcessGone
     ELSE call' = [call EXCEPT ![c] = Idle] /\ UNCHANGED <<phase, working, monitor, check>>
  /\ UNCHANGED <<mapping, job, event, op, commands>>

-----------------------------------------------------------------------------
(* #finishIfDrained: counts, then writes.                                  *)

\* Mutants: the row in work is not counted; dead rows are waited for.
DrainedOfPending == /\ \A e \in EventKey : event[e] # "pending"
                    /\ \A i \in Item : op[i] # "pending"

DrainedOfDead == /\ \A e \in EventKey : event[e] \notin Unsettled \cup {"dead"}
                 /\ \A i \in Item : op[i] \notin Unsettled \cup {"dead"}

Drained == /\ \A e \in EventKey : event[e] \notin Unsettled
           /\ \A i \in Item : op[i] \notin Unsettled

HasDead(j) == (\E i \in Item : event[<<j, i>>] = "dead") \/ (\E i \in Item : op[i] = "dead")

\* The timer fires again only after a second: one count is pending at a time.
CountRows ==
  /\ monitor # NoJob /\ check = Unchecked
  /\ Drained
  /\ check' = [job |-> monitor, verdict |-> IF HasDead(monitor) THEN "FAILED" ELSE "COMPLETED"]
  /\ UNCHANGED <<phase, mapping, job, queue, call, monitor, faults, commands>>

WriteVerdict ==
  /\ check # Unchecked
  /\ job' = [job EXCEPT ![check.job] = check.verdict]
  /\ mapping' = IF check.verdict = "COMPLETED"
                THEN [mapping EXCEPT !.state = "ACTIVE", !.bootstrapped = TRUE]
                ELSE [mapping EXCEPT !.state = "DEGRADED"]
  /\ monitor' = NoJob
  /\ check' = Unchecked
  /\ UNCHANGED <<phase, queue, call, faults, commands>>

-----------------------------------------------------------------------------
(* Commands.                                                               *)

TargetEmpty == \A i \in Item : op[i] # "completed"

NewCall(j) == [job |-> j, left |-> Item, next |-> {}, boot |-> FALSE]

\* /relay bootstrap start: nothing asks whether a bootstrap is running.
StartBootstrap(c) ==
  /\ Command
  /\ phase = "up"
  /\ call[c] = Idle
  /\ TargetEmpty
  /\ \E j \in Job :
       /\ job[j] = "none" /\ \A k \in 1..(j - 1) : job[k] # "none"
       /\ job' = [job EXCEPT ![j] = "RUNNING"]
       /\ call' = [call EXCEPT ![c] = NewCall(j)]
  /\ SetState("BOOTSTRAPPING")
  /\ UNCHANGED <<phase, queue, monitor, check, faults>>

\* Mutant: the batch loses its second statement.
PauseJobsOnly ==
  /\ Command
  /\ job' = [j \in Job |-> IF job[j] = "RUNNING" THEN "PAUSED" ELSE job[j]]
  /\ monitor' = NoJob
  /\ UNCHANGED <<phase, mapping, queue, call, check, faults>>

PauseBootstrap ==
  /\ Command
  /\ job' = [j \in Job |-> IF job[j] = "RUNNING" THEN "PAUSED" ELSE job[j]]
  /\ mapping' = [mapping EXCEPT !.state = IF @ = "BOOTSTRAPPING" THEN "PAUSED" ELSE @]
  /\ monitor' = NoJob
  /\ UNCHANGED <<phase, queue, call, check, faults>>

Resumable == {j \in Job : job[j] \in {"PAUSED", "FAILED"}}

\* /relay bootstrap resume.  Without configuration #enqueueSnapshot throws, but
\* only after the rows have been written.
ResumeBootstrap(c) ==
  /\ Command
  /\ call[c] = Idle
  /\ \E j \in Resumable :
       /\ \A k \in Resumable : k <= j
       /\ job' = [job EXCEPT ![j] = "RUNNING"]
       /\ call' = IF phase = "up" THEN [call EXCEPT ![c] = NewCall(j)] ELSE call
  /\ SetState("BOOTSTRAPPING")
  /\ Revive
  /\ UNCHANGED <<phase, event, working, monitor, check, faults>>

\* /relay pause
Pause ==
  /\ Command
  /\ SetState("PAUSED")
  /\ UNCHANGED <<phase, job, queue, service, faults>>

\* /relay resume, whatever the state
Resume ==
  /\ Command
  /\ SetState(IF mapping.bootstrapped THEN "ACTIVE" ELSE "PENDING_BOOTSTRAP")
  /\ UNCHANGED <<phase, job, queue, service, faults>>

\* /relay failures retry|discard
SettleFailure(r) ==
  /\ Command
  /\ RowState(r) = "dead"
  /\ \E s \in {"pending", "discarded"} :
       IF r[1] = "event" THEN event' = [event EXCEPT ![r[2]] = s] /\ UNCHANGED op
                         ELSE op' = [op EXCEPT ![r[2]] = s] /\ UNCHANGED event
  /\ UNCHANGED <<phase, mapping, job, working, service, faults>>

-----------------------------------------------------------------------------
Work == (\E r \in RowKey : Claim(r)) \/ (\E e \in EventKey : FinishEvent(e)) \/ (\E i \in Item : FinishOp(i))

Proceed(c) == EnqueueItem(c) \/ WatchJob(c)

Next ==
  \/ Crash \/ StartValid \/ StartInvalid \/ StartWithoutLabels \/ StartWithout
  \/ Work
  \/ \E i \in Item : Receive(i)
  \/ \E c \in Caller : Proceed(c) \/ SnapshotFails(c) \/ StartBootstrap(c) \/ ResumeBootstrap(c)
  \/ CountRows \/ WriteVerdict
  \/ PauseBootstrap \/ Pause \/ Resume
  \/ \E r \in RowKey : SettleFailure(r)

Spec == Init /\ [][Next]_vars

\* A supervisor restarts the process; the worker, the timer and the calls in
\* flight go on.
FairSpec ==
  /\ Spec
  /\ WF_vars(StartValid)
  /\ WF_vars(Work)
  /\ WF_vars(CountRows) /\ WF_vars(WriteVerdict)
  /\ \A c \in Caller : WF_vars(Proceed(c))

-----------------------------------------------------------------------------
(* Properties.                                                             *)

TypeOK ==
  /\ phase \in {"down", "up", "without"}
  /\ mapping \in [state : MappingState, bootstrapped : BOOLEAN, disabled : BOOLEAN]
  /\ job \in [Job -> JobState]
  /\ event \in [EventKey -> WorkState]
  /\ op \in [Item -> WorkState]
  /\ working \in RowKey \cup {NoRow}
  /\ call \in [Caller -> Call]
  /\ monitor \in Job \cup {NoJob}
  /\ check \in Check
  /\ faults \in 0..MaxFaults /\ commands \in 0..MaxCommands

Imported(j) == \A i \in Item : event[<<j, i>>] \in {"completed", "discarded"}

\* A mapping is active only after some bootstrap of it has imported every item
\* of its snapshot, however its calls, timers, crashes and commands overlap.
\* (The job need not be COMPLETED any more: a second call of #enqueueSnapshot
\* for it can set the timer again, and a dead letter then makes it FAILED.)
\* (#enqueueSnapshot, #finishIfDrained, the CASE of start() and of resume)
ActiveIsImported == mapping.state = "ACTIVE" => \E j \in Job : Imported(j)

\* A mapping that takes bootstrap work belongs to a running job: the batches
\* of start, pause, resume and #finishIfDrained, and the restarts in between,
\* never leave it bootstrapping with nothing to resume.
BootstrapHasJob == mapping.state = "BOOTSTRAPPING" => Running # {}

\* Nobody will look whether the queue is drained.
Unwatched == phase # "down" /\ monitor = NoJob /\ check = Unchecked /\ \A c \in Caller : call[c] = Idle

\* A bootstrap ends, fails, or is paused, unless its snapshot threw in a
\* command: then no timer was set, and only a restart or the operator helps.
BootstrapEnds ==
  mapping.state = "BOOTSTRAPPING" ~> (mapping.state # "BOOTSTRAPPING" \/ Unwatched)

=============================================================================
