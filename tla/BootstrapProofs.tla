-------------------------- MODULE BootstrapProofs --------------------------
(***************************************************************************)
(* Bootstrap, proved for every number of jobs, items, calls, faults and    *)
(* commands: a mapping is active only if a bootstrap imported it, and it   *)
(* never takes bootstrap work without a running job.                       *)
(***************************************************************************)
EXTENDS Bootstrap, TLAPS

USE BootstrapAssumption

Inserted(j, items) == \A i \in items : event[<<j, i>>] # "absent"

\* What a call has gone past is inserted; a timer is set only for a job with a
\* complete snapshot; and a pending verdict was reached about such a job.
CallsInserted  == \A c \in Caller : call[c].job # NoJob => Inserted(call[c].job, Item \ call[c].left)
MonitorIsWhole == monitor # NoJob => Inserted(monitor, Item)
VerdictIsTrue  == check # Unchecked =>
                    /\ check.job \in Job
                    /\ check.verdict = "COMPLETED" => Imported(check.job)

\* bootstrap_completed_at, by which a start and /relay resume decide, outlives
\* the job that set it.
BootstrappedIsImported ==
  mapping.bootstrapped \/ mapping.state = "ACTIVE" => \E j \in Job : Imported(j)

\* The worker ends only the row it is working on.
WorkInProcess == \A e \in EventKey : working = <<"event", e>> => event[e] = "processing"

ImportInv ==
  /\ TypeOK /\ WorkInProcess
  /\ CallsInserted /\ MonitorIsWhole /\ VerdictIsTrue /\ BootstrappedIsImported

\* What most actions do to the parts of ImportInv: events go on, calls are
\* begun or dropped, the timer and the verdict are at most dropped, and the
\* mapping does not become active.
EventsGoOn ==
  \A e \in EventKey : /\ event[e] # "absent" => event'[e] # "absent"
                      /\ event[e] \in {"completed", "discarded"} => event'[e] = event[e]
CallsKept ==
  \A c \in Caller : \/ call'[c] = call[c]
                    \/ call'[c].job = NoJob \/ call'[c].left = Item
TimerKept   == monitor' \in {monitor, NoJob}
VerdictKept == check' \in {check, Unchecked}
MappingKept ==
  mapping'.bootstrapped \/ mapping'.state = "ACTIVE" => mapping.bootstrapped \/ mapping.state = "ACTIVE"

-----------------------------------------------------------------------------
(* Types.                                                                  *)

LEMMA NoJobIsNone == NoJob \notin Job /\ Job \subseteq Nat
BY DEF NoJob, Job

LEMMA IdleTypes == Idle \in Call /\ Idle.job = NoJob /\ Unchecked \in Check
BY DEF Idle, Call, Unchecked, Check, Verdict

LEMMA StepCounts ==
  ASSUME TypeOK
  PROVE  /\ Fault => faults' \in 0..MaxFaults
         /\ Command => commands' \in 0..MaxCommands
BY DEF TypeOK, Fault, Command

LEMMA RowTypes ==
  /\ \A e \in EventKey : <<"event", e>> \in RowKey
  /\ \A i \in Item : <<"op", i>> \in RowKey
  /\ \A j \in Job \cup {NoJob}, i \in Item : <<j, i>> \in EventKey
  /\ \A e \in EventKey : e[2] \in Item
BY DEF RowKey, EventKey

LEMMA GoneTypes ==
  ASSUME TypeOK, ProcessGone
  PROVE  /\ phase' = "down" /\ working' = NoRow /\ monitor' = NoJob
         /\ call' \in [Caller -> Call] /\ check' \in Check
         /\ \A c \in Caller : call'[c].job = NoJob
         /\ check' = Unchecked
BY IdleTypes DEF TypeOK, ProcessGone

LEMMA RevalidatedType ==
  ASSUME TypeOK
  PROVE  /\ Revalidated(mapping.state) \in MappingState
         /\ Revalidated(mapping.state) = "ACTIVE" => mapping.bootstrapped \/ mapping.state = "ACTIVE"
         /\ Revalidated(mapping.state) = "BOOTSTRAPPING" => mapping.state = "BOOTSTRAPPING"
BY DEF TypeOK, Revalidated, MappingState

LEMMA MappingTypes ==
  ASSUME TypeOK, NEW s \in MappingState
  PROVE  /\ [mapping EXCEPT !.state = s] \in [state : MappingState, bootstrapped : BOOLEAN, disabled : BOOLEAN]
         /\ \A b \in BOOLEAN : [mapping EXCEPT !.state = s, !.disabled = b]
                                 \in [state : MappingState, bootstrapped : BOOLEAN, disabled : BOOLEAN]
BY DEF TypeOK

LEMMA ReviveTypes == ASSUME TypeOK, Revive PROVE op' \in [Item -> WorkState]
BY DEF TypeOK, Revive, WorkState

\* What the four ways to start have in common.
LEMMA StartTypes ==
  ASSUME TypeOK, NEW s \in MappingState, Start(s)
  PROVE  /\ phase' = "up" /\ UNCHANGED <<job, event, working, monitor, check, commands>>
         /\ mapping'.state = s /\ mapping'.bootstrapped = mapping.bootstrapped
         /\ mapping' \in [state : MappingState, bootstrapped : BOOLEAN, disabled : BOOLEAN]
         /\ op' \in [Item -> WorkState]
         /\ call' \in [Caller -> Call]
         /\ \A c \in Caller : call'[c] = call[c] \/ call'[c].left = Item
<1>1. /\ phase' = "up" /\ UNCHANGED <<job, event, working, monitor, check, commands>>
      /\ mapping'.state = s /\ mapping'.bootstrapped = mapping.bootstrapped
      /\ mapping' \in [state : MappingState, bootstrapped : BOOLEAN, disabled : BOOLEAN]
  BY DEF Start, TypeOK
<1>2. CASE Running = {} /\ UNCHANGED <<call, op>>
  BY <1>1, <1>2 DEF TypeOK
<1>3. CASE /\ \E c \in Caller, j \in Running :
                call' = [call EXCEPT ![c] = [job |-> j, left |-> Item, next |-> Running \ {j},
                                             boot |-> TRUE]]
           /\ Revive
  <2>1. PICK c \in Caller, j \in Running :
               call' = [call EXCEPT ![c] = [job |-> j, left |-> Item, next |-> Running \ {j},
                                            boot |-> TRUE]]
    BY <1>3
  <2>2. [job |-> j, left |-> Item, next |-> Running \ {j}, boot |-> TRUE] \in Call
    BY DEF Call, Running
  <2>3. /\ call' \in [Caller -> Call]
        /\ \A d \in Caller : call'[d] = call[d] \/ call'[d].left = Item
    BY <2>1, <2>2 DEF TypeOK
  <2> QED BY <1>1, <1>3, <2>3, ReviveTypes
<1> QED BY <1>2, <1>3 DEF Start, ResumeRunning

-----------------------------------------------------------------------------
(* What keeps the parts of the invariant.                                  *)

LEMMA KeepCalls == ASSUME CallsInserted, EventsGoOn, CallsKept, TypeOK, TypeOK' PROVE CallsInserted'
<1> SUFFICES ASSUME NEW c \in Caller, call'[c].job # NoJob, NEW i \in Item \ call'[c].left
             PROVE  event'[<<call'[c].job, i>>] # "absent"
  BY DEF CallsInserted, Inserted
<1>1. call'[c] = call[c]
  BY DEF CallsKept
<1>2. event[<<call[c].job, i>>] # "absent"
  BY <1>1 DEF CallsInserted, Inserted
<1>3. <<call[c].job, i>> \in EventKey
  BY RowTypes DEF TypeOK, Call
<1> QED BY <1>1, <1>2, <1>3 DEF EventsGoOn

LEMMA KeepTimer == ASSUME MonitorIsWhole, EventsGoOn, TimerKept, TypeOK PROVE MonitorIsWhole'
BY RowTypes DEF MonitorIsWhole, EventsGoOn, TimerKept, TypeOK, Inserted

LEMMA ImportedStays == ASSUME EventsGoOn, NEW j \in Job, Imported(j) PROVE Imported(j)'
BY RowTypes DEF EventsGoOn, Imported

LEMMA KeepVerdict == ASSUME VerdictIsTrue, EventsGoOn, VerdictKept PROVE VerdictIsTrue'
BY ImportedStays DEF VerdictIsTrue, VerdictKept

LEMMA KeepMapping ==
  ASSUME BootstrappedIsImported, EventsGoOn, MappingKept PROVE BootstrappedIsImported'
BY ImportedStays DEF BootstrappedIsImported, MappingKept

LEMMA SameEvents == ASSUME event' = event PROVE EventsGoOn
BY DEF EventsGoOn

LEMMA KeptStep ==
  ASSUME ImportInv, TypeOK', WorkInProcess', EventsGoOn, CallsKept, TimerKept, VerdictKept, MappingKept
  PROVE  ImportInv'
BY KeepCalls, KeepTimer, KeepVerdict, KeepMapping DEF ImportInv

LEMMA QuietStep ==
  ASSUME ImportInv, TypeOK', WorkInProcess', EventsGoOn, UNCHANGED <<mapping, call, monitor, check>>
  PROVE  ImportInv'
BY KeptStep DEF CallsKept, TimerKept, VerdictKept, MappingKept

-----------------------------------------------------------------------------
(* The actions of the process.                                             *)

LEMMA CrashStep == ASSUME ImportInv, Crash PROVE ImportInv'
<1>1. /\ UNCHANGED <<mapping, job, event, op, commands>> /\ faults' \in 0..MaxFaults
      /\ phase' = "down" /\ working' = NoRow /\ monitor' = NoJob
      /\ call' \in [Caller -> Call] /\ check' = Unchecked
      /\ \A c \in Caller : call'[c].job = NoJob
  BY GoneTypes, StepCounts DEF Crash, ImportInv
<1>2. TypeOK'
  BY <1>1, IdleTypes DEF ImportInv, TypeOK
<1>3. WorkInProcess'
  BY <1>1 DEF WorkInProcess, NoRow
<1>4. EventsGoOn /\ CallsKept /\ TimerKept /\ VerdictKept /\ MappingKept
  BY <1>1, SameEvents DEF CallsKept, TimerKept, VerdictKept, MappingKept
<1> QED BY <1>2, <1>3, <1>4, KeptStep

LEMMA StartStep ==
  ASSUME ImportInv, NEW s \in MappingState, Start(s), faults' \in 0..MaxFaults,
         s = "ACTIVE" => mapping.bootstrapped \/ mapping.state = "ACTIVE"
  PROVE  ImportInv'
<1>1. TypeOK
  BY DEF ImportInv
<1>2. TypeOK'
  BY <1>1, StartTypes DEF TypeOK
<1>3. WorkInProcess'
  BY <1>1, StartTypes DEF ImportInv, WorkInProcess
<1>4. EventsGoOn /\ CallsKept /\ TimerKept /\ VerdictKept /\ MappingKept
  BY <1>1, StartTypes, SameEvents DEF CallsKept, TimerKept, VerdictKept, MappingKept
<1> QED BY <1>2, <1>3, <1>4, KeptStep

LEMMA StartWithoutStep == ASSUME ImportInv, StartWithout PROVE ImportInv'
<1>1. TypeOK
  BY DEF ImportInv
<1>2. /\ UNCHANGED <<job, event, working, call, monitor, check, commands>>
      /\ faults' \in 0..MaxFaults /\ phase' \in {"down", "without"}
      /\ mapping' \in [state : MappingState, bootstrapped : BOOLEAN, disabled : BOOLEAN]
      /\ mapping'.bootstrapped = mapping.bootstrapped
      /\ mapping'.state \in {mapping.state, "DISABLED"}
  BY <1>1, StepCounts DEF StartWithout, service, TypeOK, MappingState
<1>3. op' \in [Item -> WorkState]
  BY <1>1, ReviveTypes DEF StartWithout, TypeOK
<1>4. TypeOK'
  BY <1>1, <1>2, <1>3 DEF TypeOK
<1>5. WorkInProcess'
  BY <1>2 DEF ImportInv, WorkInProcess
<1>6. EventsGoOn /\ CallsKept /\ TimerKept /\ VerdictKept /\ MappingKept
  BY <1>2, SameEvents DEF CallsKept, TimerKept, VerdictKept, MappingKept
<1> QED BY <1>4, <1>5, <1>6, KeptStep

-----------------------------------------------------------------------------
(* The worker and the events from outside.                                 *)

LEMMA ClaimStep == ASSUME ImportInv, NEW r \in RowKey, Claim(r) PROVE ImportInv'
<1>1. TypeOK
  BY DEF ImportInv
<1>2. /\ UNCHANGED <<phase, mapping, job, call, monitor, check, faults, commands>>
      /\ working' = r
  BY DEF Claim, service
<1>3. CASE \E e \in EventKey : r = <<"event", e>>
  <2>1. PICK e \in EventKey : r = <<"event", e>>
    BY <1>3
  <2>2. /\ event[e] \in Unsettled /\ op' = op
        /\ event' = [event EXCEPT ![e] = "processing"]
    BY <2>1 DEF Claim, RowState
  <2>3. TypeOK'
    BY <1>1, <1>2, <2>2 DEF TypeOK, WorkState
  <2>4. WorkInProcess'
    BY <1>1, <1>2, <2>1, <2>2 DEF WorkInProcess, TypeOK
  <2>5. EventsGoOn
    BY <1>1, <2>2 DEF EventsGoOn, Unsettled, TypeOK
  <2> QED BY <1>2, <2>3, <2>4, <2>5, QuietStep
<1>4. CASE \E i \in Item : r = <<"op", i>>
  <2>1. PICK i \in Item : r = <<"op", i>>
    BY <1>4
  <2>2. event' = event /\ op' = [op EXCEPT ![i] = "processing"]
    BY <2>1 DEF Claim
  <2>3. TypeOK'
    BY <1>1, <1>2, <2>2 DEF TypeOK, WorkState
  <2>4. WorkInProcess'
    BY <1>2, <2>1 DEF WorkInProcess
  <2> QED BY <1>2, <2>2, <2>3, <2>4, SameEvents, QuietStep
<1> QED BY <1>3, <1>4 DEF RowKey

LEMMA FinishEventStep == ASSUME ImportInv, NEW e \in EventKey, FinishEvent(e) PROVE ImportInv'
<1>1. TypeOK /\ event[e] = "processing"
  BY DEF ImportInv, WorkInProcess, FinishEvent
<1>2. /\ UNCHANGED <<phase, mapping, job, call, monitor, check, commands>>
      /\ working' = NoRow
      /\ \E s \in {"completed", "dead"} : event' = [event EXCEPT ![e] = s]
  BY DEF FinishEvent, service
<1>3. faults' \in 0..MaxFaults /\ op' \in [Item -> WorkState]
  BY <1>1, StepCounts, RowTypes DEF FinishEvent, TypeOK, WorkState
<1>4. TypeOK'
  BY <1>1, <1>2, <1>3 DEF TypeOK, WorkState
<1>5. WorkInProcess'
  BY <1>2 DEF WorkInProcess, NoRow
<1>6. EventsGoOn
  BY <1>1, <1>2 DEF EventsGoOn, TypeOK
<1> QED BY <1>2, <1>4, <1>5, <1>6, QuietStep

LEMMA FinishOpStep == ASSUME ImportInv, NEW i \in Item, FinishOp(i) PROVE ImportInv'
<1>1. TypeOK
  BY DEF ImportInv
<1>2. /\ UNCHANGED <<phase, mapping, job, event, call, monitor, check, commands>>
      /\ working' = NoRow /\ faults' \in 0..MaxFaults
      /\ op' \in [Item -> WorkState]
  BY <1>1, StepCounts DEF FinishOp, service, TypeOK, WorkState
<1>3. TypeOK'
  BY <1>1, <1>2 DEF TypeOK
<1>4. WorkInProcess'
  BY <1>2 DEF WorkInProcess, NoRow
<1> QED BY <1>2, <1>3, <1>4, SameEvents, QuietStep

LEMMA ReceiveStep == ASSUME ImportInv, NEW i \in Item, Receive(i) PROVE ImportInv'
<1>1. TypeOK /\ <<NoJob, i>> \in EventKey
  BY RowTypes DEF ImportInv
<1>2. /\ UNCHANGED <<phase, mapping, job, op, working, call, monitor, check, faults, commands>>
      /\ event[<<NoJob, i>>] = "absent"
      /\ event' = [event EXCEPT ![<<NoJob, i>>] = "pending"]
  BY DEF Receive, service
<1>3. TypeOK'
  BY <1>1, <1>2 DEF TypeOK, WorkState
<1>4. WorkInProcess'
  BY <1>1, <1>2 DEF ImportInv, WorkInProcess, TypeOK
<1>5. EventsGoOn
  BY <1>1, <1>2 DEF EventsGoOn, TypeOK
<1> QED BY <1>2, <1>3, <1>4, <1>5, QuietStep

-----------------------------------------------------------------------------
(* The snapshot.                                                           *)

LEMMA EnqueueItemStep == ASSUME ImportInv, NEW c \in Caller, EnqueueItem(c) PROVE ImportInv'
<1>1. TypeOK
  BY DEF ImportInv
<1> DEFINE j == call[c].job
<1>2. PICK i \in call[c].left :
             /\ event' = [event EXCEPT ![<<j, i>>] = IF @ = "absent" THEN "pending" ELSE @]
             /\ call' = [call EXCEPT ![c].left = @ \ {i}]
  BY DEF EnqueueItem
<1>3. UNCHANGED <<phase, mapping, job, op, working, monitor, check, faults, commands>>
  BY DEF EnqueueItem
<1>4. i \in Item /\ <<j, i>> \in EventKey /\ [call[c] EXCEPT !.left = @ \ {i}] \in Call
  BY <1>1, RowTypes DEF TypeOK, Call
<1>5. TypeOK'
  BY <1>1, <1>2, <1>3, <1>4 DEF TypeOK, WorkState
<1>6. WorkInProcess'
  BY <1>1, <1>2, <1>3, <1>4 DEF ImportInv, WorkInProcess, TypeOK
<1>7. EventsGoOn
  BY <1>1, <1>2, <1>4 DEF EventsGoOn, TypeOK
<1>8. CallsInserted'
  <2> SUFFICES ASSUME NEW d \in Caller, call'[d].job # NoJob, NEW k \in Item \ call'[d].left
               PROVE  event'[<<call'[d].job, k>>] # "absent"
    BY DEF CallsInserted, Inserted
  <2>1. call'[d].job = call[d].job /\ <<call[d].job, k>> \in EventKey
    BY <1>1, <1>2, RowTypes DEF TypeOK, Call
  <2>2. CASE k \notin call[d].left
    <3>1. event[<<call[d].job, k>>] # "absent"
      BY <2>1, <2>2 DEF ImportInv, CallsInserted, Inserted
    <3> QED BY <3>1, <2>1, <1>7 DEF EventsGoOn
  <2>3. CASE k \in call[d].left
    <3>1. d = c /\ k = i
      BY <2>3, <1>1, <1>2 DEF TypeOK, Call
    <3>2. event'[<<j, i>>] # "absent"
      BY <1>1, <1>2, <1>4 DEF TypeOK
    <3> QED BY <3>1, <3>2, <2>1
  <2> QED BY <2>2, <2>3
<1>9. TimerKept /\ VerdictKept /\ MappingKept
  BY <1>3 DEF TimerKept, VerdictKept, MappingKept
<1> QED BY <1>5, <1>6, <1>7, <1>8, <1>9, KeepTimer, KeepVerdict, KeepMapping DEF ImportInv

LEMMA WatchJobStep == ASSUME ImportInv, NEW c \in Caller, WatchJob(c) PROVE ImportInv'
<1>1. TypeOK /\ call[c] \in Call
  BY DEF ImportInv, TypeOK
<1>2. /\ UNCHANGED <<phase, mapping, job, event, working, check, faults, commands>>
      /\ monitor' = call[c].job /\ call[c].job # NoJob /\ call[c].left = {}
  BY DEF WatchJob
<1>3. /\ op' \in [Item -> WorkState] /\ call' \in [Caller -> Call]
      /\ CallsKept
  <2>1. CASE call' = [call EXCEPT ![c] = Idle] /\ UNCHANGED op
    BY <2>1, <1>1, IdleTypes DEF TypeOK, CallsKept
  <2>2. ASSUME NEW j \in call[c].next, Revive,
               call' = [call EXCEPT ![c] = [call[c] EXCEPT !.job = j, !.left = Item, !.next = @ \ {j}]]
        PROVE  /\ op' \in [Item -> WorkState] /\ call' \in [Caller -> Call]
               /\ CallsKept
    <3> DEFINE t == [call[c] EXCEPT !.job = j, !.left = Item, !.next = @ \ {j}]
    <3>1. t \in Call /\ t.left = Item
      BY <1>1, NoJobIsNone DEF Call
    <3>2. call' = [call EXCEPT ![c] = t]
      BY <2>2
    <3> HIDE DEF t
    <3>3. call \in [Caller -> Call]
      BY <1>1 DEF TypeOK
    <3>4. /\ call' \in [Caller -> Call]
          /\ \A d \in Caller : call'[d] = call[d] \/ call'[d].left = Item
      BY <3>1, <3>2, <3>3
    <3> QED BY <1>1, <2>2, <3>4, ReviveTypes DEF CallsKept
  <2> QED BY <2>1, <2>2 DEF WatchJob
<1>4. TypeOK'
  BY <1>1, <1>2, <1>3 DEF TypeOK, Call
<1>5. WorkInProcess'
  BY <1>2 DEF ImportInv, WorkInProcess
<1>6. EventsGoOn /\ VerdictKept /\ MappingKept
  BY <1>2, SameEvents DEF VerdictKept, MappingKept
<1>7. MonitorIsWhole'
  BY <1>2 DEF ImportInv, CallsInserted, MonitorIsWhole, Inserted
<1> QED BY <1>3, <1>4, <1>5, <1>6, <1>7, KeepCalls, KeepVerdict, KeepMapping DEF ImportInv

LEMMA SnapshotFailsStep == ASSUME ImportInv, NEW c \in Caller, SnapshotFails(c) PROVE ImportInv'
<1>1. TypeOK
  BY DEF ImportInv
<1>2. UNCHANGED <<mapping, job, event, op, commands>> /\ faults' \in 0..MaxFaults
  BY <1>1, StepCounts DEF SnapshotFails
<1>3. /\ phase' \in {"down", phase} /\ working' \in {NoRow, working}
      /\ call' \in [Caller -> Call] /\ CallsKept /\ TimerKept /\ VerdictKept
  <2>1. CASE ProcessGone
    BY <1>1, <2>1, GoneTypes DEF CallsKept, TimerKept, VerdictKept
  <2>2. CASE call' = [call EXCEPT ![c] = Idle] /\ UNCHANGED <<phase, working, monitor, check>>
    BY <1>1, <2>2, IdleTypes DEF TypeOK, CallsKept, TimerKept, VerdictKept
  <2> QED BY <2>1, <2>2 DEF SnapshotFails
<1>4. TypeOK'
  BY <1>1, <1>2, <1>3, IdleTypes DEF TypeOK, TimerKept, VerdictKept
<1>5. WorkInProcess'
  BY <1>2, <1>3 DEF ImportInv, WorkInProcess, NoRow
<1>6. EventsGoOn /\ MappingKept
  BY <1>2, SameEvents DEF MappingKept
<1> QED BY <1>3, <1>4, <1>5, <1>6, KeptStep

-----------------------------------------------------------------------------
(* #finishIfDrained.                                                       *)

LEMMA CountRowsStep == ASSUME ImportInv, CountRows PROVE ImportInv'
<1>1. TypeOK /\ monitor \in Job
  BY DEF ImportInv, TypeOK, CountRows
<1>2. /\ UNCHANGED <<phase, mapping, job, event, op, working, call, monitor, faults, commands>>
      /\ check' = [job |-> monitor, verdict |-> IF HasDead(monitor) THEN "FAILED" ELSE "COMPLETED"]
  BY DEF CountRows, queue
<1>3. TypeOK'
  BY <1>1, <1>2 DEF TypeOK, Check, Verdict
<1>4. WorkInProcess'
  BY <1>2 DEF ImportInv, WorkInProcess
<1>5. ASSUME ~HasDead(monitor) PROVE Imported(monitor)
  <2> SUFFICES ASSUME NEW i \in Item PROVE event[<<monitor, i>>] \in {"completed", "discarded"}
    BY DEF Imported
  <2>1. event[<<monitor, i>>] \in WorkState /\ event[<<monitor, i>>] \notin Unsettled
    BY <1>1, RowTypes DEF CountRows, Drained, TypeOK
  <2>2. event[<<monitor, i>>] # "absent" /\ event[<<monitor, i>>] # "dead"
    BY <1>1, <1>5, NoJobIsNone DEF ImportInv, MonitorIsWhole, Inserted, HasDead
  <2> QED BY <2>1, <2>2 DEF WorkState, Unsettled
<1>6. VerdictIsTrue'
  BY <1>1, <1>2, <1>5 DEF VerdictIsTrue, Imported
<1>7. EventsGoOn /\ CallsKept /\ TimerKept /\ MappingKept
  BY <1>2, SameEvents DEF CallsKept, TimerKept, MappingKept
<1> QED BY <1>1, <1>3, <1>4, <1>6, <1>7, KeepCalls, KeepTimer, KeepMapping DEF ImportInv

LEMMA WriteVerdictStep == ASSUME ImportInv, WriteVerdict PROVE ImportInv'
<1>1. TypeOK /\ check.job \in Job /\ check.verdict \in Verdict
  BY DEF ImportInv, VerdictIsTrue, WriteVerdict, TypeOK, Check
<1>2. /\ UNCHANGED <<phase, event, op, working, call, faults, commands>>
      /\ monitor' = NoJob /\ check' = Unchecked
      /\ job' = [job EXCEPT ![check.job] = check.verdict]
  BY DEF WriteVerdict, queue
<1>3. /\ mapping' \in [state : MappingState, bootstrapped : BOOLEAN, disabled : BOOLEAN]
      /\ check.verdict # "COMPLETED" => mapping'.bootstrapped = mapping.bootstrapped /\ mapping'.state = "DEGRADED"
  BY <1>1 DEF WriteVerdict, TypeOK, MappingState
<1>4. TypeOK'
  BY <1>1, <1>2, <1>3, IdleTypes DEF TypeOK, Verdict, JobState
<1>5. WorkInProcess'
  BY <1>2 DEF ImportInv, WorkInProcess
<1>6. EventsGoOn /\ CallsKept /\ TimerKept /\ VerdictKept
  BY <1>2, SameEvents DEF CallsKept, TimerKept, VerdictKept
<1>7. BootstrappedIsImported'
  <2>1. CASE check.verdict = "COMPLETED"
    <3>1. PICK j \in Job : Imported(j)
      BY <1>1, <2>1 DEF ImportInv, VerdictIsTrue, WriteVerdict
    <3>2. Imported(j)'
      BY <1>6, <3>1, ImportedStays
    <3> QED BY <3>2 DEF BootstrappedIsImported
  <2>2. CASE check.verdict # "COMPLETED"
    BY <2>2, <1>3, <1>6, KeepMapping DEF MappingKept, ImportInv
  <2> QED BY <2>1, <2>2
<1> QED BY <1>1, <1>4, <1>5, <1>6, <1>7, KeepCalls, KeepTimer, KeepVerdict DEF ImportInv

-----------------------------------------------------------------------------
(* Commands.                                                               *)

\* What the commands on the mapping and its jobs have in common.
LEMMA CommandStep ==
  ASSUME ImportInv, Command, UNCHANGED <<phase, event, working, check, faults>>,
         NEW s \in MappingState, SetState(s),
         s = "ACTIVE" => mapping.bootstrapped \/ mapping.state = "ACTIVE",
         job' \in [Job -> JobState], op' \in [Item -> WorkState],
         call' \in [Caller -> Call], CallsKept, TimerKept
  PROVE  ImportInv'
<1>1. TypeOK /\ commands' \in 0..MaxCommands
  BY StepCounts DEF ImportInv
<1>2. mapping' = [mapping EXCEPT !.state = s]
  BY DEF SetState
<1>3. TypeOK'
  BY <1>1, <1>2, MappingTypes DEF TypeOK, TimerKept
<1>4. WorkInProcess'
  BY DEF ImportInv, WorkInProcess
<1>5. EventsGoOn /\ VerdictKept /\ MappingKept
  BY <1>1, <1>2, SameEvents DEF VerdictKept, MappingKept, TypeOK
<1> QED BY <1>3, <1>4, <1>5, KeptStep

LEMMA NewCallTypes ==
  ASSUME TypeOK, NEW c \in Caller, NEW j \in Job, call' = [call EXCEPT ![c] = NewCall(j)]
  PROVE  call' \in [Caller -> Call] /\ CallsKept
<1>1. NewCall(j) \in Call /\ NewCall(j).left = Item
  BY DEF NewCall, Call
<1> QED BY <1>1 DEF TypeOK, CallsKept

LEMMA StartBootstrapStep == ASSUME ImportInv, NEW c \in Caller, StartBootstrap(c) PROVE ImportInv'
<1>1. TypeOK
  BY DEF ImportInv
<1>2. PICK j \in Job : /\ job' = [job EXCEPT ![j] = "RUNNING"]
                       /\ call' = [call EXCEPT ![c] = NewCall(j)]
  BY DEF StartBootstrap
<1>3. job' \in [Job -> JobState] /\ op' \in [Item -> WorkState] /\ TimerKept
  BY <1>1, <1>2 DEF StartBootstrap, queue, TypeOK, JobState, TimerKept
<1>4. "BOOTSTRAPPING" \in MappingState
  BY DEF MappingState
<1> QED BY <1>1, <1>2, <1>3, <1>4, NewCallTypes, CommandStep DEF StartBootstrap, queue

LEMMA PauseBootstrapStep == ASSUME ImportInv, PauseBootstrap PROVE ImportInv'
<1>1. TypeOK
  BY DEF ImportInv
<1> DEFINE s == IF mapping.state = "BOOTSTRAPPING" THEN "PAUSED" ELSE mapping.state
<1>2. s \in MappingState /\ SetState(s) /\ (s = "ACTIVE" => mapping.state = "ACTIVE")
  BY <1>1 DEF PauseBootstrap, SetState, TypeOK, MappingState
<1>3. /\ job' \in [Job -> JobState] /\ op' \in [Item -> WorkState]
      /\ call' \in [Caller -> Call] /\ CallsKept /\ TimerKept
  BY <1>1 DEF PauseBootstrap, queue, TypeOK, JobState, CallsKept, TimerKept
<1> HIDE DEF s
<1> QED BY <1>2, <1>3, CommandStep DEF PauseBootstrap, queue

LEMMA ResumeBootstrapStep == ASSUME ImportInv, NEW c \in Caller, ResumeBootstrap(c) PROVE ImportInv'
<1>1. TypeOK
  BY DEF ImportInv
<1>2. PICK j \in Job : /\ job' = [job EXCEPT ![j] = "RUNNING"]
                       /\ call' = IF phase = "up" THEN [call EXCEPT ![c] = NewCall(j)] ELSE call
  BY DEF ResumeBootstrap, Resumable
<1>3. job' \in [Job -> JobState] /\ op' \in [Item -> WorkState] /\ TimerKept
  BY <1>1, <1>2, ReviveTypes DEF ResumeBootstrap, TypeOK, JobState, TimerKept
<1>4. call' \in [Caller -> Call] /\ CallsKept
  BY <1>1, <1>2, NewCallTypes DEF TypeOK, CallsKept
<1>5. "BOOTSTRAPPING" \in MappingState
  BY DEF MappingState
<1> QED BY <1>3, <1>4, <1>5, CommandStep DEF ResumeBootstrap

LEMMA PauseStep == ASSUME ImportInv, Pause PROVE ImportInv'
<1>1. "PAUSED" \in MappingState /\ TimerKept /\ CallsKept
  BY DEF MappingState, TimerKept, CallsKept, Pause, service
<1>2. job' \in [Job -> JobState] /\ op' \in [Item -> WorkState] /\ call' \in [Caller -> Call]
  BY DEF Pause, queue, service, ImportInv, TypeOK
<1> QED BY <1>1, <1>2, CommandStep DEF Pause, queue, service

LEMMA ResumeStep == ASSUME ImportInv, Resume PROVE ImportInv'
<1> DEFINE s == IF mapping.bootstrapped THEN "ACTIVE" ELSE "PENDING_BOOTSTRAP"
<1>1. s \in MappingState /\ SetState(s) /\ (s = "ACTIVE" => mapping.bootstrapped)
  BY DEF MappingState, Resume
<1>2. TimerKept /\ CallsKept
  BY DEF TimerKept, CallsKept, Resume, service
<1>3. job' \in [Job -> JobState] /\ op' \in [Item -> WorkState] /\ call' \in [Caller -> Call]
  BY DEF Resume, queue, service, ImportInv, TypeOK
<1> HIDE DEF s
<1> QED BY <1>1, <1>2, <1>3, CommandStep DEF Resume, queue, service

LEMMA SettleFailureStep == ASSUME ImportInv, NEW r \in RowKey, SettleFailure(r) PROVE ImportInv'
<1>1. TypeOK /\ commands' \in 0..MaxCommands
  BY StepCounts DEF ImportInv, SettleFailure
<1>2. UNCHANGED <<phase, mapping, job, working, call, monitor, check, faults>>
  BY DEF SettleFailure, service
<1>3. CASE \E e \in EventKey : r = <<"event", e>>
  <2>1. PICK e \in EventKey : r = <<"event", e>>
    BY <1>3
  <2>2. PICK s \in {"pending", "discarded"} : event' = [event EXCEPT ![e] = s] /\ op' = op
    BY <2>1 DEF SettleFailure
  <2>3. event[e] = "dead"
    BY <2>1 DEF SettleFailure, RowState
  <2>4. TypeOK'
    BY <1>1, <1>2, <2>2 DEF TypeOK, WorkState
  <2>5. WorkInProcess'
    BY <1>1, <1>2, <2>2, <2>3 DEF ImportInv, WorkInProcess, TypeOK
  <2>6. EventsGoOn
    BY <1>1, <2>2, <2>3 DEF EventsGoOn, TypeOK
  <2> QED BY <1>2, <2>4, <2>5, <2>6, QuietStep
<1>4. CASE \E i \in Item : r = <<"op", i>>
  <2>1. PICK i \in Item : r = <<"op", i>>
    BY <1>4
  <2>2. PICK s \in {"pending", "discarded"} : op' = [op EXCEPT ![i] = s] /\ event' = event
    BY <2>1 DEF SettleFailure
  <2>3. TypeOK'
    BY <1>1, <1>2, <2>2 DEF TypeOK, WorkState
  <2>4. WorkInProcess'
    BY <1>2, <2>2 DEF ImportInv, WorkInProcess
  <2> QED BY <1>2, <2>2, <2>3, <2>4, SameEvents, QuietStep
<1> QED BY <1>3, <1>4 DEF RowKey

-----------------------------------------------------------------------------
(* The theorems.                                                           *)

LEMMA ImportInit == ASSUME Init PROVE ImportInv
<1>1. TypeOK
  BY IdleTypes DEF Init, TypeOK, MappingState, JobState, WorkState
<1>2. WorkInProcess /\ MonitorIsWhole /\ VerdictIsTrue /\ BootstrappedIsImported
  BY DEF Init, WorkInProcess, NoRow, MonitorIsWhole, VerdictIsTrue, BootstrappedIsImported
<1>3. CallsInserted
  BY IdleTypes DEF Init, CallsInserted
<1> QED BY <1>1, <1>2, <1>3 DEF ImportInv

LEMMA ImportStep == ASSUME ImportInv, [Next]_vars PROVE ImportInv'
<1>1. CASE UNCHANGED vars
  <2>1. UNCHANGED <<phase, mapping, job, event, op, working, call, monitor, check, faults, commands>>
    BY <1>1 DEF vars
  <2>2. TypeOK' /\ WorkInProcess'
    BY <2>1 DEF ImportInv, TypeOK, WorkInProcess
  <2> QED BY <2>1, <2>2, SameEvents, QuietStep
<1>2. CASE StartValid \/ StartInvalid \/ StartWithoutLabels
  <2>1. /\ TypeOK /\ mapping.state \in MappingState /\ "DEGRADED" \in MappingState
        /\ faults' \in 0..MaxFaults
    BY <1>2, StepCounts DEF ImportInv, TypeOK, MappingState, StartValid, StartInvalid, StartWithoutLabels
  <2> QED BY <1>2, <2>1, RevalidatedType, StartStep DEF StartValid, StartInvalid, StartWithoutLabels
<1>3. CASE Work
  BY <1>3, ClaimStep, FinishEventStep, FinishOpStep DEF Work
<1>4. CASE \E c \in Caller : Proceed(c) \/ SnapshotFails(c) \/ StartBootstrap(c) \/ ResumeBootstrap(c)
  BY <1>4, EnqueueItemStep, WatchJobStep, SnapshotFailsStep, StartBootstrapStep, ResumeBootstrapStep DEF Proceed
<1> QED
  BY <1>1, <1>2, <1>3, <1>4, CrashStep, StartWithoutStep, ReceiveStep, CountRowsStep, WriteVerdictStep,
     PauseBootstrapStep, PauseStep, ResumeStep, SettleFailureStep
  DEF Next

LEMMA ImportInvariant == Spec => []ImportInv
BY ImportInit, ImportStep, PTL DEF Spec

\* Every variable stays in its type, for all constants (the rows of mappings,
\* bootstrap_jobs and the queue, the calls and the timer).
THEOREM BootstrapTypeCorrect == Spec => []TypeOK
<1>1. ImportInv => TypeOK
  BY DEF ImportInv
<1> QED BY <1>1, ImportInvariant, PTL

\* However many bootstraps, calls, crashes and commands overlap, a mapping is
\* active only if some bootstrap imported its whole snapshot.
THEOREM ActiveMappingIsImported == Spec => []ActiveIsImported
<1>1. ImportInv => ActiveIsImported
  BY DEF ImportInv, BootstrappedIsImported, ActiveIsImported
<1> QED BY <1>1, ImportInvariant, PTL

\* A mapping that takes bootstrap work always has a running job to end it.
THEOREM BootstrappingHasJob == Spec => []BootstrapHasJob
<1>1. Init => BootstrapHasJob
  BY DEF Init, BootstrapHasJob
<1>2. TypeOK /\ BootstrapHasJob /\ [Next]_vars => BootstrapHasJob'
  <2> SUFFICES ASSUME TypeOK, BootstrapHasJob, [Next]_vars, mapping'.state = "BOOTSTRAPPING"
               PROVE  Running' # {}
    BY DEF BootstrapHasJob
  <2>1. ASSUME mapping.state = "BOOTSTRAPPING", job' = job PROVE Running' # {}
    BY <2>1 DEF BootstrapHasJob, Running
  <2>2. CASE UNCHANGED <<mapping, job>>
    BY <2>1, <2>2
  <2>3. CASE \E s \in MappingState : Start(s) /\ (s = "BOOTSTRAPPING" => mapping.state = "BOOTSTRAPPING")
    BY <2>1, <2>3, StartTypes
  <2>4. CASE StartValid \/ StartInvalid \/ StartWithoutLabels
    <3>1. mapping.state \in MappingState /\ "DEGRADED" \in MappingState
      BY DEF TypeOK, MappingState
    <3> QED BY <2>3, <2>4, <3>1, RevalidatedType DEF StartValid, StartInvalid, StartWithoutLabels
  <2>5. CASE StartWithout
    <3>1. mapping'.state \in {mapping.state, "DISABLED"} /\ job' = job
      BY <2>5 DEF StartWithout, TypeOK
    <3> QED BY <2>1, <3>1
  <2>6. CASE WriteVerdict
    <3>1. mapping'.state \in {"ACTIVE", "DEGRADED"}
      BY <2>6 DEF WriteVerdict, TypeOK
    <3> QED BY <3>1
  <2>7. CASE \E c \in Caller : StartBootstrap(c) \/ ResumeBootstrap(c)
    <3>1. PICK j \in Job : job' = [job EXCEPT ![j] = "RUNNING"]
      BY <2>7 DEF StartBootstrap, ResumeBootstrap, Resumable
    <3>2. job'[j] = "RUNNING"
      BY <3>1 DEF TypeOK
    <3> QED BY <3>2 DEF Running
  <2>8. CASE PauseBootstrap
    <3>1. mapping'.state # "BOOTSTRAPPING"
      BY <2>8 DEF PauseBootstrap, TypeOK
    <3> QED BY <3>1
  <2>9. CASE Pause \/ Resume
    <3>1. mapping'.state \in {"PAUSED", "ACTIVE", "PENDING_BOOTSTRAP"}
      BY <2>9 DEF Pause, Resume, SetState, TypeOK
    <3> QED BY <3>1
  <2>10. CASE Crash \/ Work \/ CountRows \/ \E i \in Item : Receive(i)
    BY <2>2, <2>10 DEF Crash, Work, Claim, FinishEvent, FinishOp, CountRows, Receive
  <2>11. CASE \/ \E c \in Caller : Proceed(c) \/ SnapshotFails(c)
              \/ \E r \in RowKey : SettleFailure(r)
    BY <2>2, <2>11 DEF Proceed, EnqueueItem, WatchJob, SnapshotFails, SettleFailure
  <2>12. CASE UNCHANGED vars
    BY <2>2, <2>12 DEF vars
  <2> QED BY <2>4, <2>5, <2>6, <2>7, <2>8, <2>9, <2>10, <2>11, <2>12 DEF Next
<1> QED BY <1>1, <1>2, BootstrapTypeCorrect, PTL DEF Spec

=============================================================================
