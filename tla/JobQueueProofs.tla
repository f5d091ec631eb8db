--------------------------- MODULE JobQueueProofs ---------------------------
(***************************************************************************)
(* JobQueue, proved for every value of its constants: its types, its       *)
(* safety invariants, and that it implements JobContract.  The argument    *)
(* for the invariants has two halves: RowLifeCycle reduces a step to what  *)
(* it does to one row, and each invariant then looks at the few kinds of   *)
(* row step that can disturb it.  For the contract, every step, seen       *)
(* through the refinement mapping of module JobQueue, is a step of the     *)
(* contract or changes nothing a client can observe.                       *)
(***************************************************************************)
EXTENDS JobQueue, TLAPS

-----------------------------------------------------------------------------
(* Rows and handlers stay well typed.                                      *)

LEMMA RetryDecisionType ==
  ASSUME NEW category, NEW n
  PROVE  RetryDecision(category, n) \in {"dead", "pending"}
BY DEF RetryDecision

LEMMA NoAttempts == 0 \in 0..MaxAttempts
BY MaxAttemptsAssumption

LEMMA RowTypes ==
  ASSUME NEW r \in Row
  PROVE  /\ \A w \in Worker : ClaimedRow(r, w) \in Row
         /\ CompletedRow(r) \in Row
         /\ \A category : \A code \in ErrorCode : FailedRow(r, category, code) \in Row
         /\ RetriedRow(r) \in Row
         /\ ResumedRow(r) \in Row
         /\ DueRow(r) \in Row
         /\ DiscardedRow(r) \in Row
<1>1. \A w \in Worker : ClaimedRow(r, w) \in Row
  <2> TAKE w \in Worker
  <2> DEFINE n == IF r.attempts < MaxAttempts THEN r.attempts + 1 ELSE r.attempts
  <2>1. r.attempts \in 0..MaxAttempts
    BY DEF Row
  <2>2. n \in 0..MaxAttempts
    BY <2>1, MaxAttemptsAssumption
  <2>3. ClaimedRow(r, w) = [r EXCEPT !.state = "processing", !.owner = w,
                                     !.due = FALSE, !.attempts = n]
    BY DEF ClaimedRow, Row
  <2> HIDE DEF n
  <2> QED BY <2>2, <2>3 DEF Row, JobState
<1>2. CompletedRow(r) \in Row
  BY DEF CompletedRow, Row, JobState, ErrorCode
<1>3. \A category : \A code \in ErrorCode : FailedRow(r, category, code) \in Row
  BY RetryDecisionType DEF FailedRow, Row, JobState
<1>4. RetriedRow(r) \in Row
  BY DEF RetriedRow, Row, JobState
<1>5. ResumedRow(r) \in Row
  BY NoAttempts DEF ResumedRow, Row, JobState, ErrorCode
<1>6. DueRow(r) \in Row
  BY DEF DueRow, Row
<1>7. DiscardedRow(r) \in Row
  BY DEF DiscardedRow, Row, JobState
<1> QED BY <1>1, <1>2, <1>3, <1>4, <1>5, <1>6, <1>7

LEMMA NewRowType ==
  ASSUME NEW id \in Nat, NEW D \in SUBSET Operation
  PROVE  NewRow(id, D) \in Row
BY NoAttempts DEF NewRow, Row, JobState, ErrorCode

LEMMA AbsentRowType == AbsentRow \in Row
BY NoAttempts DEF AbsentRow, Row, JobState, ErrorCode

LEMMA IdleType == Idle \in Handler
BY DEF Idle, Handler

-----------------------------------------------------------------------------
(* The type invariant.                                                     *)

LEMMA InitType == Init => TypeOK
<1> SUFFICES ASSUME Init PROVE TypeOK
  OBVIOUS
<1> USE ConstantsAssumption
<1>1. rows \in [Job -> Row]
  <2>1. ASSUME NEW j \in BacklogSet
        PROVE  NewRow(CHOOSE i \in DOMAIN Backlog : Backlog[i] = j, {}) \in Row
    BY NewRowType DEF BacklogSet
  <2> QED BY <2>1, AbsentRowType DEF Init
<1>2. lastRow \in Nat
  BY DEF Init
<1>3. run \in [Worker -> Handler]
  BY IdleType DEF Init
<1>4. /\ mapping \in [Mapping -> MappingState]
      /\ thread \in [Partition -> BOOLEAN]
      /\ active \subseteq Worker
      /\ turn \in [Worker -> Table]
      /\ revived \subseteq Job
      /\ faults \in 0..MaxFaults
      /\ commands \in 0..MaxCommands
  BY DEF Init, MappingState, Table
<1> QED BY <1>1, <1>2, <1>3, <1>4 DEF TypeOK

\* What an insertion and a settlement leave in the tables.
LEMMA InsertType ==
  ASSUME TypeOK, NEW j \in Job, NEW D \in SUBSET Operation, Insert(j, D)
  PROVE  rows' \in [Job -> Row] /\ lastRow' \in Nat
BY NewRowType DEF TypeOK, Insert

LEMMA SettleType ==
  ASSUME TypeOK, NEW w \in Worker, NEW newRow \in Row, Running(w), Settle(w, newRow)
  PROVE  rows' \in [Job -> Row]
BY DEF TypeOK, Settle, Running, Handler

LEMMA LeaveType ==
  ASSUME TypeOK, NEW w \in Worker, Leave(w), rows' \in [Job -> Row]
  PROVE  TypeOK'
BY IdleType DEF TypeOK, Leave, OtherTable, Table

LEMMA ClaimType ==
  ASSUME TypeOK, NEW w \in Worker, NEW j \in Job, Claim(w, j)
  PROVE  TypeOK'
<1>1. rows' \in [Job -> Row]
  BY RowTypes DEF TypeOK, Claim
<1>2. LinkSeen(j) \in BOOLEAN
  BY DEF LinkSeen
<1>3. [Idle EXCEPT !.job = j, !.linked = LinkSeen(j)] \in Handler
  BY IdleType, <1>2 DEF Handler
<1>4. run' \in [Worker -> Handler]
  BY <1>3 DEF TypeOK, Claim
<1> QED BY <1>1, <1>4 DEF TypeOK, Claim

LEMMA SkipType ==
  ASSUME TypeOK, NEW w \in Worker, Skip(w)
  PROVE  TypeOK'
BY DEF TypeOK, Skip, OtherTable, Table

\* The operation a running handler enqueues next.
NextOfPlan(w) == PlanOf[run[w].job][run[w].step]

LEMMA NextOfPlanType ==
  ASSUME TypeOK, NEW w \in Worker, Running(w), ~PlanDone(w)
  PROVE  NextOfPlan(w) \in Operation
<1>1. run[w].job \in Job /\ run[w].step \in Nat \ {0}
  BY DEF TypeOK, Running, Handler
<1>2. PlanOf[run[w].job] \in Seq(Operation)
  BY <1>1, ConstantsAssumption
<1>3. run[w].step \in 1..Len(PlanOf[run[w].job])
  BY <1>1, <1>2 DEF PlanDone
<1> QED BY <1>2, <1>3 DEF NextOfPlan

LEMMA EnqueueNextType ==
  ASSUME TypeOK, NEW w \in Worker, EnqueueNext(w)
  PROVE  TypeOK'
<1> DEFINE o == NextOfPlan(w)
<1>1. o \in Operation /\ o \in Job
  BY NextOfPlanType DEF EnqueueNext, Job
<1>2. run[w] \in Handler /\ run[w].step + 1 \in Nat \ {0}
  BY DEF TypeOK, Handler
<1>3. CASE Insert(o, DependsOn[o] \cap run[w].fresh)
           /\ run' = [run EXCEPT ![w].step = @ + 1, ![w].fresh = @ \cup {o}]
  <2>1. DependsOn[o] \cap run[w].fresh \in SUBSET Operation
    BY <1>1, ConstantsAssumption
  <2>2. rows' \in [Job -> Row] /\ lastRow' \in Nat
    BY <1>1, <1>3, <2>1, InsertType
  <2>3. run[w].fresh \cup {o} \in SUBSET Operation
    BY <1>1, <1>2 DEF Handler
  <2>4. run' \in [Worker -> Handler]
    BY <1>2, <1>3, <2>3 DEF TypeOK, Handler
  <2> QED BY <2>2, <2>4 DEF TypeOK, EnqueueNext
<1>4. CASE run' = [run EXCEPT ![w].step = @ + 1] /\ UNCHANGED <<rows, lastRow>>
  <2>1. run' \in [Worker -> Handler]
    BY <1>2, <1>4 DEF TypeOK, Handler
  <2> QED BY <1>4, <2>1 DEF TypeOK, EnqueueNext
<1> QED BY <1>3, <1>4 DEF EnqueueNext, NextOfPlan

LEMMA MakeThreadType ==
  ASSUME TypeOK, NEW w \in Worker, MakeThread(w)
  PROVE  TypeOK'
<1>1. run' \in [Worker -> Handler]
  BY DEF TypeOK, MakeThread, Handler
<1>2. thread' \in [Partition -> BOOLEAN]
  BY DEF TypeOK, MakeThread
<1> QED BY <1>1, <1>2 DEF TypeOK, MakeThread

LEMMA ResumeWaitersType ==
  ASSUME TypeOK, NEW w \in Worker, ResumeWaiters(w)
  PROVE  TypeOK'
<1>1. rows' \in [Job -> Row]
  BY RowTypes DEF TypeOK, ResumeWaiters
<1>2. run' \in [Worker -> Handler]
  BY DEF TypeOK, ResumeWaiters, Handler
<1>3. revived' \subseteq Job
  BY DEF TypeOK, ResumeWaiters
<1> QED BY <1>1, <1>2, <1>3 DEF TypeOK, ResumeWaiters

LEMMA TickType ==
  ASSUME TypeOK, NEW w \in Worker, Tick(w)
  PROVE  TypeOK'
<1>1. CASE ClaimInbox(w)
  BY <1>1, ClaimType, SkipType DEF ClaimInbox, NextClaim
<1>2. CASE ClaimOutbox(w)
  BY <1>2, ClaimType, SkipType DEF ClaimOutbox, NextClaim
<1>3. CASE EnqueueNext(w)
  BY <1>3, EnqueueNextType
<1>4. CASE MakeThread(w)
  BY <1>4, MakeThreadType
<1>5. CASE ResumeWaiters(w)
  BY <1>5, ResumeWaitersType
<1>6. ASSUME Running(w) PROVE rows[run[w].job] \in Row
  BY <1>6 DEF TypeOK, Running, Handler
<1>7. CASE Complete(w)
  BY <1>6, <1>7, RowTypes, SettleType, LeaveType DEF Complete
<1>8. CASE Fail(w)
  <2>1. "other" \in ErrorCode
    BY DEF ErrorCode
  <2> QED BY <1>6, <1>8, <2>1, RowTypes, SettleType, LeaveType DEF Fail
<1>9. CASE FailThreadPending(w)
  <2>1. "THREAD_PENDING" \in ErrorCode
    BY DEF ErrorCode
  <2> QED BY <1>6, <1>9, <2>1, RowTypes, SettleType, LeaveType DEF FailThreadPending
<1> QED BY <1>1, <1>2, <1>3, <1>4, <1>5, <1>7, <1>8, <1>9 DEF Tick

LEMMA TimeType ==
  ASSUME TypeOK, NEW j \in Job, Time(j) \/ ClaimOverrun(j)
  PROVE  TypeOK'
<1>1. rows' \in [Job -> Row]
  BY RowTypes DEF TypeOK, Time, BackoffElapses, ClaimExpires, ClaimOverrun, BecomesDue
<1>2. faults' \in 0..MaxFaults
  BY ConstantsAssumption DEF TypeOK, Time, BackoffElapses, ClaimExpires, ClaimOverrun
<1> QED BY <1>1, <1>2 DEF TypeOK, Time, BackoffElapses, ClaimExpires, ClaimOverrun, BecomesDue

LEMMA FaultType ==
  ASSUME TypeOK, NEW w \in Worker, Crash(w) \/ Stop(w) \/ Abandon(w)
  PROVE  TypeOK'
<1>1. run' \in [Worker -> Handler]
  BY IdleType DEF TypeOK, Crash, Stop, Abandon
<1>2. faults' \in 0..MaxFaults
  BY ConstantsAssumption DEF TypeOK, Crash, Stop, Abandon, Fault
<1>3. turn' \in [Worker -> Table] /\ active' \subseteq Worker
  BY DEF TypeOK, Crash, Stop, Abandon, Table
<1> QED BY <1>1, <1>2, <1>3 DEF TypeOK, Crash, Stop, Abandon

LEMMA CommandType ==
  ASSUME TypeOK,
         \/ \E j \in Job : RetryFailure(j) \/ DiscardFailure(j)
         \/ \E m \in Mapping : ResumeDeadWaiters(m) \/ SetMapping(m)
  PROVE  TypeOK'
<1>1. Command => commands' \in 0..MaxCommands
  BY ConstantsAssumption DEF TypeOK, Command
<1>2. ASSUME NEW j \in Job, RetryFailure(j) \/ DiscardFailure(j)
      PROVE  TypeOK'
  <2>1. rows' \in [Job -> Row] /\ revived' \subseteq Job
    BY <1>2, RowTypes DEF TypeOK, RetryFailure, DiscardFailure
  <2> QED BY <1>1, <1>2, <2>1 DEF TypeOK, RetryFailure, DiscardFailure
<1>3. ASSUME NEW m \in Mapping, ResumeDeadWaiters(m)
      PROVE  TypeOK'
  <2>1. rows' \in [Job -> Row] /\ revived' \subseteq Job
    BY <1>3, RowTypes DEF TypeOK, ResumeDeadWaiters
  <2> QED BY <1>1, <1>3, <2>1 DEF TypeOK, ResumeDeadWaiters
<1>4. ASSUME NEW m \in Mapping, SetMapping(m)
      PROVE  TypeOK'
  <2>1. mapping' \in [Mapping -> MappingState]
    BY <1>4 DEF TypeOK, SetMapping, MappingState
  <2> QED BY <1>1, <1>4, <2>1 DEF TypeOK, SetMapping
<1> QED BY <1>2, <1>3, <1>4

LEMMA NextType == TypeOK /\ [Next]_vars => TypeOK'
<1> SUFFICES ASSUME TypeOK, [Next]_vars PROVE TypeOK'
  OBVIOUS
<1>1. ASSUME NEW j \in Job, Submit(j) PROVE TypeOK'
  BY <1>1, InsertType DEF TypeOK, Submit
<1>2. CASE UNCHANGED vars
  BY <1>2 DEF TypeOK, vars
<1> QED BY <1>1, <1>2, TickType, TimeType, FaultType, CommandType DEF Next

\* In every reachable state, for every set of jobs, workers, plans and
\* bounds, both tables and all handlers are well typed.
THEOREM TypeCorrect == Spec => []TypeOK
BY InitType, NextType, PTL DEF Spec

-----------------------------------------------------------------------------

Present(j) == rows[j].state # "absent"

-----------------------------------------------------------------------------
(* The life cycle of a row: everything a step can do to row j.             *)

Kept(j) == rows'[j] = rows[j]

Queued(j) ==
  /\ rows[j].state = "absent"
  /\ lastRow' = lastRow + 1
  /\ \E D \in SUBSET Operation : rows'[j] = NewRow(lastRow + 1, D)
  /\ \/ j \in Submitted
     \/ \E w \in Worker : Running(w) /\ ~PlanDone(w) /\ j = NextOfPlan(w)

Taken(j) ==
  /\ Claimable(j)
  /\ \E w \in Worker : rows'[j] = ClaimedRow(rows[j], w)

Completed(j) ==
  /\ \E w \in Worker : run[w].job = j /\ PlanDone(w) /\ Holds(w, j)
  /\ rows'[j] = CompletedRow(rows[j])

Failed(j) ==
  /\ rows[j].state = "processing"
  /\ \E category \in FailureCategory, code \in ErrorCode :
       /\ rows'[j] = FailedRow(rows[j], category, code)
       /\ code = "THREAD_PENDING" => j \in BacklogSet

CameDue(j) ==
  /\ IsUnsettled(j)
  /\ rows'[j] = DueRow(rows[j])

PutBack(j) ==
  /\ rows[j].state = "dead" \/ (rows[j].state = "pending" /\ WaitsForThread(j))
  /\ rows'[j] \in {RetriedRow(rows[j]), ResumedRow(rows[j])}
  /\ rows[j].state = "dead" => j \in revived'

GivenUp(j) ==
  /\ rows[j].state = "dead"
  /\ rows'[j] = DiscardedRow(rows[j])

RowStep(j) ==
  Kept(j) \/ Queued(j) \/ Taken(j) \/ Completed(j) \/ Failed(j) \/ CameDue(j)
    \/ PutBack(j) \/ GivenUp(j)

Monotone == lastRow <= lastRow' /\ revived \subseteq revived'

LEMMA InsertStep ==
  ASSUME TypeOK, NEW i \in Job, NEW D \in SUBSET Operation, Insert(i, D),
         \/ i \in Submitted
         \/ \E w \in Worker : Running(w) /\ ~PlanDone(w) /\ i = NextOfPlan(w)
  PROVE  /\ \A j \in Job : RowStep(j)
         /\ lastRow <= lastRow'
<1>1. ASSUME NEW j \in Job, j # i PROVE Kept(j)
  BY <1>1 DEF Insert, TypeOK, Kept
<1>2. Queued(i)
  BY DEF Insert, TypeOK, Queued
<1> QED BY <1>1, <1>2 DEF RowStep, Insert, TypeOK

LEMMA ClaimStep ==
  ASSUME TypeOK, NEW w \in Worker, NEW i \in Job, Claimable(i), Claim(w, i)
  PROVE  \A j \in Job : RowStep(j)
<1>1. ASSUME NEW j \in Job, j # i PROVE Kept(j)
  BY <1>1 DEF Claim, TypeOK, Kept
<1>2. Taken(i)
  BY DEF Claim, TypeOK, Taken
<1> QED BY <1>1, <1>2 DEF RowStep

\* A settlement changes the row its handler runs, if the claim still stands.
LEMMA SettleStep ==
  ASSUME TypeOK, NEW w \in Worker, Running(w), NEW r, Settle(w, r), NEW j \in Job
  PROVE  Kept(j) \/ (j = run[w].job /\ Holds(w, j) /\ rows'[j] = r)
BY DEF TypeOK, Settle, Kept, Running, Handler

LEMMA TickStep ==
  ASSUME TypeOK, NEW w \in Worker, Tick(w), NEW j \in Job
  PROVE  RowStep(j) /\ Monotone
<1>1. ASSUME ClaimInbox(w) \/ ClaimOutbox(w) PROVE RowStep(j) /\ Monotone
  <2>1. CASE Skip(w)
    BY <2>1 DEF Skip, RowStep, Kept, Monotone, TypeOK
  <2>2. ASSUME NEW i \in Job, Claimable(i), Claim(w, i) PROVE RowStep(j) /\ Monotone
    <3>1. RowStep(j)
      BY <2>2, ClaimStep
    <3>2. Monotone
      BY <2>2 DEF Claim, Monotone, TypeOK
    <3> QED BY <3>1, <3>2
  <2> QED BY <1>1, <2>1, <2>2 DEF ClaimInbox, ClaimOutbox, NextClaim
<1>2. ASSUME EnqueueNext(w) PROVE RowStep(j) /\ Monotone
  <2> DEFINE o == NextOfPlan(w)
  <2>1. o \in Operation /\ o \in Job /\ Running(w) /\ ~PlanDone(w)
    BY <1>2, NextOfPlanType DEF EnqueueNext, Job
  <2>2. CASE Insert(o, DependsOn[o] \cap run[w].fresh)
    <3>1. DependsOn[o] \cap run[w].fresh \in SUBSET Operation
      BY <2>1, ConstantsAssumption
    <3>2. RowStep(j) /\ lastRow <= lastRow'
      BY <2>1, <2>2, <3>1, InsertStep
    <3> QED BY <1>2, <3>2 DEF EnqueueNext, Monotone
  <2>3. CASE UNCHANGED <<rows, lastRow>>
    BY <1>2, <2>3 DEF EnqueueNext, RowStep, Kept, Monotone, TypeOK
  <2> QED BY <1>2, <2>2, <2>3 DEF EnqueueNext, NextOfPlan
<1>3. ASSUME MakeThread(w) PROVE RowStep(j) /\ Monotone
  BY <1>3 DEF MakeThread, RowStep, Kept, Monotone, TypeOK
<1>4. ASSUME ResumeWaiters(w) PROVE RowStep(j) /\ Monotone
  <2>1. Kept(j) \/ PutBack(j)
    BY <1>4 DEF ResumeWaiters, Kept, PutBack, TypeOK
  <2>2. Monotone
    BY <1>4 DEF ResumeWaiters, Monotone, TypeOK
  <2> QED BY <2>1, <2>2 DEF RowStep
<1>5. ASSUME Complete(w) PROVE RowStep(j) /\ Monotone
  <2>1. Kept(j) \/ Completed(j)
    BY <1>5, SettleStep DEF Complete, Completed
  <2> QED BY <1>5, <2>1 DEF RowStep, Complete, Leave, Monotone, TypeOK
<1>6. ASSUME Fail(w) PROVE RowStep(j) /\ Monotone
  <2>1. Kept(j) \/ Failed(j)
    <3>1. "other" \in ErrorCode
      BY DEF ErrorCode
    <3> QED BY <1>6, <3>1, SettleStep DEF Fail, Failed, Holds
  <2> QED BY <1>6, <2>1 DEF RowStep, Fail, Leave, Monotone, TypeOK
<1>7. ASSUME FailThreadPending(w) PROVE RowStep(j) /\ Monotone
  <2>1. Kept(j) \/ Failed(j)
    <3>1. "THREAD_PENDING" \in ErrorCode /\ "temporary" \in FailureCategory
      BY DEF ErrorCode, FailureCategory, RetryableCategory
    <3> QED BY <1>7, <3>1, SettleStep DEF FailThreadPending, Failed, Holds
  <2> QED BY <1>7, <2>1 DEF RowStep, FailThreadPending, Leave, Monotone, TypeOK
<1> QED BY <1>1, <1>2, <1>3, <1>4, <1>5, <1>6, <1>7 DEF Tick

LEMMA RowLifeCycle ==
  ASSUME TypeOK, [Next]_vars, NEW j \in Job
  PROVE  RowStep(j) /\ Monotone
<1>1. ASSUME NEW i \in Job, Submit(i) PROVE RowStep(j) /\ Monotone
  BY <1>1, InsertStep DEF Submit, Monotone
<1>2. ASSUME NEW i \in Job, Time(i) \/ ClaimOverrun(i) PROVE RowStep(j) /\ Monotone
  <2>1. BecomesDue(i) /\ IsUnsettled(i)
    BY <1>2 DEF Time, BackoffElapses, ClaimExpires, ClaimOverrun, IsUnsettled, Unsettled
  <2>2. ASSUME j = i PROVE CameDue(j)
    BY <2>1, <2>2 DEF BecomesDue, TypeOK, CameDue
  <2>3. ASSUME j # i PROVE Kept(j)
    BY <2>1, <2>3 DEF BecomesDue, TypeOK, Kept
  <2>4. Monotone
    BY <2>1 DEF BecomesDue, Monotone, TypeOK
  <2> QED BY <2>2, <2>3, <2>4 DEF RowStep
<1>3. ASSUME NEW w \in Worker, Crash(w) \/ Stop(w) \/ Abandon(w)
      PROVE  RowStep(j) /\ Monotone
  BY <1>3 DEF Crash, Stop, Abandon, RowStep, Kept, Monotone, TypeOK
<1>4. ASSUME NEW i \in Job, RetryFailure(i) PROVE RowStep(j) /\ Monotone
  BY <1>4 DEF RetryFailure, RowStep, Kept, PutBack, Monotone, TypeOK
<1>5. ASSUME NEW i \in Job, DiscardFailure(i) PROVE RowStep(j) /\ Monotone
  BY <1>5 DEF DiscardFailure, RowStep, Kept, GivenUp, Monotone, TypeOK
<1>6. ASSUME NEW m \in Mapping, ResumeDeadWaiters(m) PROVE RowStep(j) /\ Monotone
  BY <1>6 DEF ResumeDeadWaiters, RowStep, Kept, PutBack, Monotone, TypeOK
<1>7. ASSUME NEW m \in Mapping, SetMapping(m) PROVE RowStep(j) /\ Monotone
  BY <1>7 DEF SetMapping, RowStep, Kept, Monotone, TypeOK
<1>8. CASE UNCHANGED vars
  BY <1>8 DEF vars, RowStep, Kept, Monotone, TypeOK
<1> QED BY <1>1, <1>2, <1>3, <1>4, <1>5, <1>6, <1>7, <1>8, TickStep DEF Next

-----------------------------------------------------------------------------
(* What the row steps mean for the columns the invariants read.            *)

SameKey(s, r) == s.rowid = r.rowid /\ s.deps = r.deps

\* The columns each row operator writes.
LEMMA RowColumns ==
  ASSUME NEW r \in Row
  PROVE  /\ \A w \in Worker :
              LET s == ClaimedRow(r, w)
              IN  SameKey(s, r) /\ s.state = "processing" /\ s.error = r.error
         /\ LET s == CompletedRow(r)
            IN  /\ SameKey(s, r) /\ s.state = "completed" /\ s.attempts = r.attempts
                /\ s.error = "none" /\ s.owner = NoWorker
         /\ \A category \in FailureCategory, code \in ErrorCode :
              LET s == FailedRow(r, category, code)
              IN  /\ SameKey(s, r) /\ s.state \in {"dead", "pending"}
                  /\ s.attempts = r.attempts /\ s.error = code /\ s.owner = NoWorker
         /\ LET s == DueRow(r)
            IN  /\ SameKey(s, r) /\ s.state = r.state /\ s.attempts = r.attempts
                /\ s.error = r.error /\ s.owner = r.owner
         /\ LET s == RetriedRow(r)
            IN  /\ SameKey(s, r) /\ s.state = "pending" /\ s.attempts = r.attempts
                /\ s.error = r.error /\ s.owner = NoWorker
         /\ LET s == ResumedRow(r)
            IN  /\ SameKey(s, r) /\ s.state = "pending" /\ s.attempts = 0
                /\ s.error = "none" /\ s.owner = NoWorker
         /\ LET s == DiscardedRow(r)
            IN  /\ SameKey(s, r) /\ s.state = "discarded" /\ s.attempts = r.attempts
                /\ s.error = r.error /\ s.owner = NoWorker
<1> USE DEF SameKey, Row
<1>1. \A w \in Worker :
        LET s == ClaimedRow(r, w)
        IN  SameKey(s, r) /\ s.state = "processing" /\ s.error = r.error
  BY DEF ClaimedRow
<1>2. LET s == CompletedRow(r)
      IN  /\ SameKey(s, r) /\ s.state = "completed" /\ s.attempts = r.attempts
          /\ s.error = "none" /\ s.owner = NoWorker
  BY DEF CompletedRow
<1>3. \A category \in FailureCategory, code \in ErrorCode :
        LET s == FailedRow(r, category, code)
        IN  /\ SameKey(s, r) /\ s.state \in {"dead", "pending"}
            /\ s.attempts = r.attempts /\ s.error = code /\ s.owner = NoWorker
  BY RetryDecisionType DEF FailedRow
<1>4. LET s == DueRow(r)
      IN  /\ SameKey(s, r) /\ s.state = r.state /\ s.attempts = r.attempts
          /\ s.error = r.error /\ s.owner = r.owner
  BY DEF DueRow
<1>5. LET s == RetriedRow(r)
      IN  /\ SameKey(s, r) /\ s.state = "pending" /\ s.attempts = r.attempts
          /\ s.error = r.error /\ s.owner = NoWorker
  BY DEF RetriedRow
<1>6. LET s == ResumedRow(r)
      IN  /\ SameKey(s, r) /\ s.state = "pending" /\ s.attempts = 0
          /\ s.error = "none" /\ s.owner = NoWorker
  BY DEF ResumedRow
<1>7. LET s == DiscardedRow(r)
      IN  /\ SameKey(s, r) /\ s.state = "discarded" /\ s.attempts = r.attempts
          /\ s.error = r.error /\ s.owner = NoWorker
  BY DEF DiscardedRow
<1> QED BY <1>1, <1>2, <1>3, <1>4, <1>5, <1>6, <1>7

\* The same, for a row that was there before the step: one disjunct for each
\* kind of step.
LEMMA ColumnsOfStep ==
  ASSUME TypeOK, NEW j \in Job, RowStep(j), Present(j)
  PROVE  LET r == rows[j]  s == rows'[j]
         IN  /\ SameKey(s, r)
             /\ \/ s = r
                \/ Taken(j) /\ s.state = "processing" /\ s.error = r.error
                \/ /\ Completed(j) /\ s.state = "completed" /\ s.attempts = r.attempts
                   /\ s.error = "none" /\ s.owner = NoWorker
                \/ /\ r.state = "processing" /\ s.state \in {"dead", "pending"}
                   /\ s.attempts = r.attempts /\ s.owner = NoWorker
                   /\ s.error = "THREAD_PENDING" => j \in BacklogSet
                \/ /\ r.state \in Unsettled /\ s.state = r.state /\ s.attempts = r.attempts
                   /\ s.error = r.error /\ s.owner = r.owner
                \/ /\ r.state \in {"dead", "pending"} /\ s.state = "pending"
                   /\ r.state = "dead" => j \in revived'
                   /\ s.attempts \in {0, r.attempts}
                   /\ s.error \in {"none", r.error} /\ s.owner = NoWorker
                \/ /\ r.state = "dead" /\ s.state = "discarded" /\ s.attempts = r.attempts
                   /\ s.error = r.error /\ s.owner = NoWorker
<1>1. rows[j] \in Row
  BY DEF TypeOK
<1>2. CASE Kept(j)
  BY <1>2 DEF Kept, SameKey
<1>3. CASE Queued(j)
  BY <1>3 DEF Queued, Present
<1>4. CASE Taken(j)
  BY <1>1, <1>4, RowColumns DEF Taken
<1>5. CASE Completed(j)
  BY <1>1, <1>5, RowColumns DEF Completed
<1>6. CASE Failed(j)
  BY <1>1, <1>6, RowColumns DEF Failed
<1>7. CASE CameDue(j)
  BY <1>1, <1>7, RowColumns DEF CameDue, IsUnsettled
<1>8. CASE PutBack(j)
  BY <1>1, <1>8, RowColumns DEF PutBack
<1>9. CASE GivenUp(j)
  BY <1>1, <1>9, RowColumns DEF GivenUp
<1> QED BY <1>2, <1>3, <1>4, <1>5, <1>6, <1>7, <1>8, <1>9 DEF RowStep

\* A row that is inserted comes last, untried and without an error.
LEMMA QueuedColumns ==
  ASSUME TypeOK, NEW j \in Job, RowStep(j), ~Present(j), rows'[j] # rows[j]
  PROVE  /\ Queued(j)
         /\ rows'[j].rowid = lastRow + 1 /\ lastRow' = lastRow + 1
         /\ rows'[j].state = "pending" /\ rows'[j].attempts = 0
         /\ rows'[j].error = "none" /\ rows'[j].owner = NoWorker
<1>1. Queued(j)
  BY DEF RowStep, Kept, Taken, Claimable, IsUnsettled, Unsettled, Completed, Holds, Failed,
         CameDue, PutBack, GivenUp, Present
<1>2. PICK D \in SUBSET Operation : rows'[j] = NewRow(lastRow + 1, D)
  BY <1>1 DEF Queued
<1>3. lastRow' = lastRow + 1
  BY <1>1 DEF Queued
<1> QED BY <1>1, <1>2, <1>3 DEF NewRow

\* A row that exists keeps existing, with its place and its prerequisites.
LEMMA StableColumns ==
  ASSUME TypeOK, NEW j \in Job, RowStep(j), Present(j)
  PROVE  Present(j)' /\ SameKey(rows'[j], rows[j])
BY ColumnsOfStep DEF Present, Unsettled

\* A completed row stays as it is.
LEMMA CompletedForGood ==
  ASSUME TypeOK, NEW j \in Job, RowStep(j), rows[j].state = "completed"
  PROVE  rows'[j] = rows[j]
BY DEF RowStep, Kept, Queued, Taken, Claimable, IsUnsettled, Unsettled, Completed, Holds,
       Failed, CameDue, PutBack, GivenUp

-----------------------------------------------------------------------------
(* Prerequisites first.                                                    *)

\* A row that satisfies its prerequisites keeps satisfying them.
LEMMA PrerequisitesStay ==
  ASSUME TypeOK, [Next]_vars, NEW j \in Job, Present(j), PrerequisitesDone(j)
  PROVE  PrerequisitesDone(j)'
<1>1. rows[j] \in Row
  BY DEF TypeOK
<1>2. rows'[j].deps = rows[j].deps
  BY RowLifeCycle, StableColumns DEF SameKey
<1>3. ASSUME NEW d \in rows[j].deps PROVE rows'[d].state = "completed"
  <2>1. d \in Job
    BY <1>1 DEF Row, Job
  <2>2. rows[d].state = "completed"
    BY DEF PrerequisitesDone
  <2> QED BY <2>1, <2>2, RowLifeCycle, CompletedForGood
<1> QED BY <1>2, <1>3 DEF PrerequisitesDone

\* A row was never tried before it was queued.
UntriedWhileAbsent == \A j \in Job : ~Present(j) => rows[j].attempts = 0

LEMMA InitPrerequisites == Init => PrerequisitesFirst /\ UntriedWhileAbsent
BY DEF Init, PrerequisitesFirst, UntriedWhileAbsent, NewRow, AbsentRow, Present

LEMMA PrerequisitesStep ==
  ASSUME TypeOK, PrerequisitesFirst, UntriedWhileAbsent, [Next]_vars
  PROVE  PrerequisitesFirst' /\ UntriedWhileAbsent'
<1>1. ASSUME NEW j \in Job, ~Present(j)' PROVE rows'[j].attempts = 0
  <2>1. ~Present(j)
    BY <1>1, RowLifeCycle, StableColumns
  <2>2. rows'[j] = rows[j]
    BY <1>1, <2>1, RowLifeCycle, QueuedColumns DEF Present
  <2> QED BY <2>1, <2>2 DEF UntriedWhileAbsent
<1>2. ASSUME NEW j \in Job,
             rows'[j].attempts > 0 \/ rows'[j].state \in {"processing", "completed"}
      PROVE  PrerequisitesDone(j)'
  <2>1. CASE ~Present(j)
    <3>1. rows'[j] = rows[j]
      BY <1>2, <2>1, RowLifeCycle, QueuedColumns
    <3> QED BY <1>2, <2>1, <3>1 DEF UntriedWhileAbsent, Present
  <2>2. CASE Present(j)
    <3>1. Taken(j) \/ rows[j].attempts > 0 \/ rows[j].state \in {"processing", "completed"}
      BY <1>2, <2>2, RowLifeCycle, ColumnsOfStep DEF Completed, Holds, Unsettled
    <3>2. PrerequisitesDone(j)
      BY <3>1 DEF Taken, Claimable, PrerequisitesFirst
    <3> QED BY <2>2, <3>2, PrerequisitesStay
  <2> QED BY <2>1, <2>2
<1> QED BY <1>1, <1>2 DEF PrerequisitesFirst, UntriedWhileAbsent

\* For every set of jobs and workers: no operation is tried before all its
\* prerequisites have completed, and they stay completed.
THEOREM PrerequisitesComeFirst == Spec => []PrerequisitesFirst
<1>1. Init => TypeOK /\ PrerequisitesFirst /\ UntriedWhileAbsent
  BY InitType, InitPrerequisites
<1>2. TypeOK /\ PrerequisitesFirst /\ UntriedWhileAbsent /\ [Next]_vars
        => (TypeOK /\ PrerequisitesFirst /\ UntriedWhileAbsent)'
  BY NextType, PrerequisitesStep
<1> QED BY <1>1, <1>2, PTL DEF Spec

-----------------------------------------------------------------------------
(* Bookkeeping: what every later invariant needs of the tables.            *)

Bookkeeping ==
  /\ \A j \in Job : rows[j].rowid <= lastRow
  /\ \A j \in BacklogSet : Present(j)
  /\ \A j \in Job : rows[j].error = "THREAD_PENDING" => j \in BacklogSet
  /\ \A j \in Job : rows[j].state # "processing" => rows[j].owner = NoWorker

LEMMA BacklogIndex ==
  ASSUME NEW j \in BacklogSet
  PROVE  (CHOOSE i \in DOMAIN Backlog : Backlog[i] = j) \in 1..Len(Backlog)
<1>1. DOMAIN Backlog = 1..Len(Backlog)
  BY ConstantsAssumption
<1>2. \E i \in DOMAIN Backlog : Backlog[i] = j
  BY DEF BacklogSet
<1> QED BY <1>1, <1>2

LEMMA InitBookkeeping == Init => Bookkeeping
<1> SUFFICES ASSUME Init PROVE Bookkeeping
  OBVIOUS
<1>1. BacklogSet \subseteq Job /\ Len(Backlog) \in Nat
  BY ConstantsAssumption DEF BacklogSet, Job
<1>2. ASSUME NEW j \in Job
      PROVE  /\ rows[j].rowid <= lastRow
             /\ rows[j].error = "none"
             /\ rows[j].owner = NoWorker
             /\ j \in BacklogSet => Present(j)
  <2>1. CASE j \in BacklogSet
    BY <1>1, <2>1, BacklogIndex DEF Init, NewRow, Present
  <2>2. CASE j \notin BacklogSet
    BY <1>1, <2>2 DEF Init, AbsentRow
  <2> QED BY <2>1, <2>2
<1> QED BY <1>1, <1>2 DEF Bookkeeping

LEMMA BookkeepingStep ==
  ASSUME TypeOK, Bookkeeping, [Next]_vars
  PROVE  Bookkeeping'
<1>1. BacklogSet \subseteq Job
  BY ConstantsAssumption DEF BacklogSet, Job
<1>2. TypeOK'
  BY NextType
<1>3. ASSUME NEW j \in Job
      PROVE  /\ rows'[j].rowid <= lastRow'
             /\ rows'[j].error = "THREAD_PENDING" => j \in BacklogSet
             /\ rows'[j].state # "processing" => rows'[j].owner = NoWorker
  <2>1. /\ rows[j].rowid <= lastRow /\ lastRow <= lastRow'
        /\ rows[j].rowid \in Nat /\ lastRow \in Nat /\ lastRow' \in Nat
    BY <1>2, RowLifeCycle DEF Bookkeeping, Monotone, TypeOK, Row
  <2>2. CASE ~Present(j)
    BY <2>1, <2>2, RowLifeCycle, QueuedColumns DEF Bookkeeping
  <2>3. CASE Present(j)
    <3>1. rows'[j].rowid = rows[j].rowid
      BY <2>3, RowLifeCycle, StableColumns DEF SameKey
    <3>2. rows'[j].error = "THREAD_PENDING" => j \in BacklogSet
      BY <2>3, RowLifeCycle, ColumnsOfStep DEF Bookkeeping
    <3>3. rows'[j].state # "processing" => rows'[j].owner = NoWorker
      BY <2>3, RowLifeCycle, ColumnsOfStep DEF Bookkeeping
    <3> QED BY <2>1, <3>1, <3>2, <3>3
  <2> QED BY <2>2, <2>3
<1>4. ASSUME NEW j \in BacklogSet PROVE Present(j)'
  BY <1>1, RowLifeCycle, StableColumns DEF Bookkeeping
<1> QED BY <1>3, <1>4 DEF Bookkeeping

THEOREM BookkeepingHolds == Spec => [](TypeOK /\ Bookkeeping)
<1>1. Init => TypeOK /\ Bookkeeping
  BY InitType, InitBookkeeping
<1>2. TypeOK /\ Bookkeeping /\ [Next]_vars => (TypeOK /\ Bookkeeping)'
  BY NextType, BookkeepingStep
<1> QED BY <1>1, <1>2, PTL DEF Spec

-----------------------------------------------------------------------------
(* Partition order.                                                        *)

LEMMA InitOrder == Init => InPartitionOrder
BY DEF Init, InPartitionOrder, NewRow, AbsentRow

\* An exception to the order stays one: the backlog row keeps its place.
LEMMA BacklogBeforeStays ==
  ASSUME TypeOK, Bookkeeping, [Next]_vars, NEW j \in Job, Present(j), BacklogBefore(j)
  PROVE  BacklogBefore(j)'
<1>1. PICK x \in BacklogSet : SamePartition(x, j) /\ rows[x].rowid < rows[j].rowid
  BY DEF BacklogBefore
<1>2. x \in Job /\ Present(x)
  BY ConstantsAssumption DEF Bookkeeping, BacklogSet, Job
<1>3. rows'[x].rowid = rows[x].rowid /\ rows'[j].rowid = rows[j].rowid
  BY <1>2, RowLifeCycle, StableColumns DEF SameKey
<1> QED BY <1>1, <1>3 DEF BacklogBefore, SamePartition, TableOf

\* Only a backlog row can make a claim pass an earlier row.
LEMMA PassingNeedsBacklog ==
  ASSUME TypeOK, Bookkeeping, NEW j \in Job, NEW e \in Job, MayPass(j, e)
  PROVE  IsSync(j) /\ IsLifecycle(e) /\ BacklogBefore(j)
BY DEF MayPass, ThreadWaiterBefore, Bookkeeping, BacklogBefore, Job

LEMMA OrderStep ==
  ASSUME TypeOK, Bookkeeping, InPartitionOrder, [Next]_vars
  PROVE  InPartitionOrder'
<1> SUFFICES ASSUME NEW j \in Job, rows'[j].state = "processing",
                    NEW e \in Earlier(j)'
             PROVE  e \in revived' \/ (IsSync(j) /\ IsLifecycle(e) /\ BacklogBefore(j)')
  BY DEF InPartitionOrder, IsSync, IsLifecycle
<1>1. e \in Job /\ SamePartition(e, j) /\ rows'[e].rowid < rows'[j].rowid /\ IsUnsettled(e)'
  BY DEF Earlier, SamePartition, TableOf
<1>2. Present(j) /\ (Taken(j) \/ rows[j].state = "processing")
  <2>1. CASE ~Present(j)
    BY <2>1, RowLifeCycle, QueuedColumns DEF Present
  <2>2. CASE Present(j)
    BY <2>2, RowLifeCycle, ColumnsOfStep
  <2> QED BY <2>1, <2>2
<1>3. /\ rows'[j].rowid = rows[j].rowid
      /\ rows[j].rowid \in Nat /\ rows[j].rowid <= lastRow /\ lastRow \in Nat
  BY <1>2, RowLifeCycle, StableColumns DEF SameKey, Bookkeeping, TypeOK, Row
<1>4. Present(e)
  <2> SUFFICES ASSUME ~Present(e) PROVE FALSE
    OBVIOUS
  <2>1. rows'[e] # rows[e]
    BY <1>1 DEF IsUnsettled, Unsettled, Present
  <2>2. rows'[e].rowid = lastRow + 1
    BY <1>1, <2>1, RowLifeCycle, QueuedColumns
  <2> QED BY <1>1, <1>3, <2>2
<1>5. IsUnsettled(e) \/ e \in revived'
  <2>1. rows'[e].state \in Unsettled
    BY <1>1 DEF IsUnsettled
  <2>2. Taken(e) => IsUnsettled(e)
    BY DEF Taken, Claimable
  <2> QED BY <1>1, <1>4, <2>1, <2>2, RowLifeCycle, ColumnsOfStep DEF IsUnsettled, Unsettled
<1>6. CASE e \in revived'
  BY <1>6
<1>7. CASE IsUnsettled(e)
  <2>1. rows'[e].rowid = rows[e].rowid
    BY <1>1, <1>4, RowLifeCycle, StableColumns DEF SameKey
  <2>2. e \in Earlier(j)
    BY <1>1, <1>3, <1>7, <2>1 DEF Earlier
  <2>3. CASE Taken(j)
    <3>1. MayPass(j, e)
      BY <2>2, <2>3 DEF Taken, Claimable
    <3> QED BY <1>1, <1>2, <3>1, PassingNeedsBacklog, BacklogBeforeStays
  <2>4. CASE rows[j].state = "processing"
    BY <1>2, <2>2, <2>4, RowLifeCycle, BacklogBeforeStays DEF InPartitionOrder, Monotone
  <2> QED BY <1>2, <2>3, <2>4
<1> QED BY <1>5, <1>6, <1>7

\* For every set of jobs, workers and partitions, and any number of crashes,
\* overruns and commands: what stands before a claimed job in its partition
\* is settled, came back from the dead, or is lifecycle work that a sync
\* passed because a backlog row waited for the thread.
THEOREM PartitionOrder == Spec => []InPartitionOrder
<1>1. Init => InPartitionOrder
  BY InitOrder
<1>2. TypeOK /\ Bookkeeping /\ InPartitionOrder /\ [Next]_vars => InPartitionOrder'
  BY OrderStep
<1> QED BY <1>1, <1>2, BookkeepingHolds, PTL DEF Spec

-----------------------------------------------------------------------------
(* Plans.                                                                  *)

\* What a running handler has enqueued so far is in the outbox.
PlanFollowed ==
  \A w \in Worker : Running(w) =>
    \A i \in DOMAIN PlanOf[run[w].job] :
      i < run[w].step => Present(PlanOf[run[w].job][i])

\* Everything a step can do to the handler of a worker.
HandlerStep(w) ==
  \/ run'[w].job = run[w].job /\ run'[w].step = run[w].step
  \/ run'[w].job = NoJob
  \/ run'[w].job \in Job /\ run'[w].step = 1
  \/ /\ Running(w) /\ ~PlanDone(w)
     /\ run'[w].job = run[w].job /\ run'[w].step = run[w].step + 1
     /\ rows'[NextOfPlan(w)].state # "absent"

LEMMA HandlerLifeCycle ==
  ASSUME TypeOK, [Next]_vars, NEW w \in Worker
  PROVE  HandlerStep(w)
<1>1. run[w] \in Handler /\ Idle.job = NoJob
  BY DEF TypeOK, Idle
<1>2. ASSUME run' = run PROVE HandlerStep(w)
  BY <1>2 DEF HandlerStep
<1>3. ASSUME NEW v \in Worker, run' = [run EXCEPT ![v] = Idle] PROVE HandlerStep(w)
  BY <1>1, <1>3 DEF HandlerStep, TypeOK
<1>4. ASSUME NEW v \in Worker, NEW j \in Job, Claim(v, j) PROVE HandlerStep(w)
  BY <1>4 DEF Claim, HandlerStep, TypeOK, Idle
<1>5. ASSUME NEW v \in Worker, EnqueueNext(v) PROVE HandlerStep(w)
  <2> DEFINE o == NextOfPlan(v)
  <2>1. o \in Operation /\ o \in Job /\ Running(v) /\ ~PlanDone(v)
    BY <1>5, NextOfPlanType DEF EnqueueNext, Job
  <2>2. /\ run'[v].job = run[v].job /\ run'[v].step = run[v].step + 1
        /\ v # w => run'[w] = run[w]
    BY <1>5, <1>1 DEF EnqueueNext, TypeOK, Handler
  <2>3. \/ Insert(o, DependsOn[o] \cap run[v].fresh)
        \/ rows[o].state # "absent" /\ UNCHANGED rows
    BY <1>5 DEF EnqueueNext, NextOfPlan
  <2>4. rows'[o].state # "absent"
    BY <2>1, <2>3 DEF Insert, NewRow, TypeOK
  <2> QED BY <2>1, <2>2, <2>4 DEF HandlerStep
<1>6. ASSUME NEW v \in Worker, MakeThread(v) \/ ResumeWaiters(v) PROVE HandlerStep(w)
  <2>1. CASE MakeThread(v)
    BY <1>1, <2>1 DEF MakeThread, HandlerStep, TypeOK, Handler
  <2>2. CASE ResumeWaiters(v)
    <3>1. run' = [run EXCEPT ![v].made = FALSE]
      BY <2>2 DEF ResumeWaiters
    <3> QED BY <1>1, <3>1 DEF HandlerStep, TypeOK, Handler
  <2> QED BY <1>6, <2>1, <2>2
<1>7. ASSUME NEW v \in Worker, Tick(v) PROVE HandlerStep(w)
  <2>1. ASSUME ClaimInbox(v) \/ ClaimOutbox(v) PROVE HandlerStep(w)
    <3>1. Skip(v) \/ \E j \in Job : Claim(v, j)
      BY <2>1 DEF ClaimInbox, ClaimOutbox, NextClaim
    <3>2. CASE Skip(v)
      BY <1>2, <3>2 DEF Skip
    <3> QED BY <1>4, <3>1, <3>2
  <2>2. ASSUME Complete(v) \/ Fail(v) \/ FailThreadPending(v) PROVE HandlerStep(w)
    BY <1>3, <2>2 DEF Complete, Fail, FailThreadPending, Leave
  <2> QED BY <1>5, <1>6, <1>7, <2>1, <2>2 DEF Tick
<1>8. ASSUME NEW j \in Job,
             \/ Submit(j) \/ Time(j) \/ ClaimOverrun(j)
             \/ RetryFailure(j) \/ DiscardFailure(j)
      PROVE  HandlerStep(w)
  BY <1>2, <1>8
     DEF Submit, Time, BackoffElapses, ClaimExpires, ClaimOverrun, BecomesDue,
         RetryFailure, DiscardFailure
<1>9. ASSUME NEW v \in Worker, Crash(v) \/ Stop(v) \/ Abandon(v) PROVE HandlerStep(w)
  BY <1>2, <1>3, <1>9 DEF Crash, Stop, Abandon
<1>10. ASSUME NEW m \in Mapping, ResumeDeadWaiters(m) \/ SetMapping(m)
       PROVE  HandlerStep(w)
  BY <1>2, <1>10 DEF ResumeDeadWaiters, SetMapping
<1>11. CASE UNCHANGED vars
  BY <1>2, <1>11 DEF vars
<1> QED BY <1>7, <1>8, <1>9, <1>10, <1>11 DEF Next

LEMMA PlanOperations ==
  ASSUME NEW j \in Job
  PROVE  /\ DOMAIN PlanOf[j] = 1..Len(PlanOf[j])
         /\ Len(PlanOf[j]) \in Nat
         /\ \A i \in DOMAIN PlanOf[j] : PlanOf[j][i] \in Operation /\ PlanOf[j][i] \in Job
BY ConstantsAssumption DEF Job

LEMMA InitPlans == Init => PlanFollowed /\ IntentRecorded
<1> SUFFICES ASSUME Init PROVE PlanFollowed /\ IntentRecorded
  OBVIOUS
<1>1. \A w \in Worker : ~Running(w)
  BY DEF Init, Idle, Running
<1>2. \A j \in Job : rows[j].state # "completed"
  BY DEF Init, NewRow, AbsentRow
<1> QED BY <1>1, <1>2 DEF PlanFollowed, IntentRecorded

LEMMA PlanFollowedStep ==
  ASSUME TypeOK, PlanFollowed, [Next]_vars
  PROVE  PlanFollowed'
<1> SUFFICES ASSUME NEW w \in Worker, Running(w)',
                    NEW i \in DOMAIN PlanOf[run'[w].job], i < run'[w].step
             PROVE  rows'[PlanOf[run'[w].job][i]].state # "absent"
  BY DEF PlanFollowed, Present
<1>1. HandlerStep(w) /\ TypeOK'
  BY HandlerLifeCycle, NextType
<1>2. run'[w].job \in Job /\ run'[w].job # NoJob /\ run'[w].step \in Nat \ {0}
  BY <1>1 DEF Running, TypeOK, Handler
<1>3. i \in Nat \ {0} /\ PlanOf[run'[w].job][i] \in Job
  BY <1>2, PlanOperations
<1>4. CASE Present(PlanOf[run'[w].job][i])
  <2>1. Present(PlanOf[run'[w].job][i]) => rows'[PlanOf[run'[w].job][i]].state # "absent"
    <3> DEFINE o == PlanOf[run'[w].job][i]
    <3>1. o \in Job
      BY <1>3
    <3> HIDE DEF o
    <3>2. Present(o) => rows'[o].state # "absent"
      BY <3>1, RowLifeCycle, StableColumns DEF Present
    <3> QED BY <3>2 DEF o
  <2> QED BY <1>4, <2>1
<1>5. CASE run'[w].job = run[w].job /\ run'[w].step = run[w].step
  BY <1>2, <1>4, <1>5 DEF PlanFollowed, Running
<1>6. CASE run'[w].step = 1
  BY <1>3, <1>6
<1>7. CASE /\ Running(w) /\ ~PlanDone(w)
           /\ run'[w].job = run[w].job /\ run'[w].step = run[w].step + 1
           /\ rows'[NextOfPlan(w)].state # "absent"
  <2>1. run[w].step \in Nat
    BY DEF TypeOK, Handler
  <2>2. CASE i = run[w].step
    BY <1>7, <2>2 DEF NextOfPlan
  <2>3. CASE i < run[w].step
    BY <1>4, <1>7, <2>3 DEF PlanFollowed
  <2> QED BY <1>3, <1>7, <2>1, <2>2, <2>3
<1> QED BY <1>1, <1>2, <1>5, <1>6, <1>7 DEF HandlerStep

LEMMA IntentRecordedStep ==
  ASSUME TypeOK, PlanFollowed, IntentRecorded, [Next]_vars
  PROVE  IntentRecorded'
<1> SUFFICES ASSUME NEW j \in Job, rows'[j].state = "completed", NEW i \in DOMAIN PlanOf[j]
             PROVE  rows'[PlanOf[j][i]].state # "absent"
  BY DEF IntentRecorded
<1> DEFINE o == PlanOf[j][i]
<1>1. o \in Job /\ i \in 1..Len(PlanOf[j]) /\ Len(PlanOf[j]) \in Nat
  BY PlanOperations
<1>2. Completed(j) \/ rows[j].state = "completed"
  <2>1. CASE ~Present(j)
    BY <2>1, RowLifeCycle, QueuedColumns DEF Present
  <2>2. CASE Present(j)
    BY <2>2, RowLifeCycle, ColumnsOfStep
  <2> QED BY <2>1, <2>2
<1>3. Present(o)
  <2>1. CASE Completed(j)
    <3>1. PICK w \in Worker : run[w].job = j /\ PlanDone(w)
      BY <2>1 DEF Completed
    <3>2. run[w].step \in Nat /\ Running(w)
      BY <3>1, ConstantsAssumption DEF TypeOK, Handler, Running
    <3>3. i < run[w].step
      BY <1>1, <3>1, <3>2 DEF PlanDone
    <3> QED BY <3>1, <3>2, <3>3 DEF PlanFollowed
  <2>2. CASE rows[j].state = "completed"
    BY <2>2 DEF IntentRecorded, Present
  <2> QED BY <1>2, <2>1, <2>2
<1> HIDE DEF o
<1>4. rows'[o].state # "absent"
  BY <1>1, <1>3, RowLifeCycle, StableColumns DEF Present
<1> QED BY <1>4 DEF o

LEMMA PlanFollowedHolds == Spec => [](TypeOK /\ PlanFollowed)
<1>1. Init => TypeOK /\ PlanFollowed
  BY InitType, InitPlans
<1>2. TypeOK /\ PlanFollowed /\ [Next]_vars => (TypeOK /\ PlanFollowed)'
  BY NextType, PlanFollowedStep
<1> QED BY <1>1, <1>2, PTL DEF Spec

\* For every plan, and whatever crashes, reruns and concurrent executions of
\* the same job there are: a completed job has all its operations in the
\* outbox.
THEOREM IntentIsRecorded == Spec => []IntentRecorded
<1>1. Init => IntentRecorded
  BY InitPlans
<1>2. TypeOK /\ PlanFollowed /\ IntentRecorded /\ [Next]_vars => IntentRecorded'
  BY IntentRecordedStep
<1> QED BY <1>1, <1>2, PlanFollowedHolds, PTL DEF Spec

LEMMA InitIntentOrder == Init => IntentInOrder
<1> SUFFICES ASSUME Init, NEW j \in Job, PlanIsOwn(j), NEW k \in DOMAIN PlanOf[j]
             PROVE  rows[PlanOf[j][k]].state = "absent"
  BY DEF IntentInOrder
<1>1. PlanOf[j][k] \in Job /\ PlanOf[j][k] \notin BacklogSet
  BY PlanOperations DEF PlanIsOwn
<1> QED BY <1>1 DEF Init, AbsentRow

LEMMA IntentOrderStep ==
  ASSUME TypeOK, Bookkeeping, PlanFollowed, IntentInOrder, [Next]_vars
  PROVE  IntentInOrder'
<1> SUFFICES ASSUME NEW j \in Job, PlanIsOwn(j),
                    NEW i \in DOMAIN PlanOf[j], NEW k \in DOMAIN PlanOf[j],
                    i < k, rows'[PlanOf[j][k]].state # "absent"
             PROVE  /\ rows'[PlanOf[j][i]].state # "absent"
                    /\ rows'[PlanOf[j][i]].rowid < rows'[PlanOf[j][k]].rowid
  BY DEF IntentInOrder, PlanIsOwn
<1> DEFINE a == PlanOf[j][i]
           b == PlanOf[j][k]
<1>1. a \in Job /\ b \in Job /\ i \in Nat /\ k \in Nat
  BY PlanOperations
<1>2. ASSUME Present(b) PROVE Present(a) /\ rows[a].rowid < rows[b].rowid
  BY <1>2 DEF IntentInOrder, Present
<1>3. ASSUME Queued(b) PROVE Present(a)
  <2>1. b \notin Submitted
    BY DEF PlanIsOwn
  <2>2. PICK w \in Worker : Running(w) /\ ~PlanDone(w) /\ b = NextOfPlan(w)
    BY <1>3, <2>1 DEF Queued
  <2>3. run[w].job \in Job /\ run[w].step \in Nat \ {0}
    BY <2>2 DEF TypeOK, Handler, Running
  <2>4. run[w].step \in DOMAIN PlanOf[run[w].job]
    BY <2>2, <2>3, PlanOperations DEF PlanDone
  <2>5. run[w].job = j /\ run[w].step = k
    BY <2>2, <2>3, <2>4 DEF NextOfPlan, PlanIsOwn
  <2> QED BY <2>2, <2>5 DEF PlanFollowed
<1>4. rows[a].rowid \in Nat /\ rows[a].rowid <= lastRow /\ lastRow \in Nat
  BY <1>1 DEF TypeOK, Row, Bookkeeping
<1> HIDE DEF a, b
<1>5. Present(a) => rows'[a].state # "absent" /\ rows'[a].rowid = rows[a].rowid
  BY <1>1, RowLifeCycle, StableColumns DEF SameKey, Present
<1>6. CASE Present(b)
  <2>1. rows'[b].rowid = rows[b].rowid
    BY <1>1, <1>6, RowLifeCycle, StableColumns DEF SameKey
  <2> QED BY <1>2, <1>5, <1>6, <2>1 DEF a, b
<1>7. CASE ~Present(b)
  <2>1. Queued(b) /\ rows'[b].rowid = lastRow + 1
    <3>1. rows'[b] # rows[b]
      BY <1>7 DEF Present, b
    <3> QED BY <1>1, <1>7, <3>1, RowLifeCycle, QueuedColumns
  <2> QED BY <1>3, <1>4, <1>5, <2>1 DEF a, b
<1> QED BY <1>6, <1>7

\* For every plan whose operations are its own: however often and by however
\* many workers its handler is rerun, they stand in the outbox in plan order.
THEOREM IntentKeepsOrder == Spec => []IntentInOrder
<1>1. Init => IntentInOrder
  BY InitIntentOrder
<1>2. /\ TypeOK /\ Bookkeeping /\ PlanFollowed /\ IntentInOrder /\ [Next]_vars
      => IntentInOrder'
  BY IntentOrderStep
<1> QED BY <1>1, <1>2, BookkeepingHolds, PlanFollowedHolds, PTL DEF Spec

-----------------------------------------------------------------------------
(* The queue implements the contract.                                      *)

StatusView == [j \in Job |-> StatusOf(j)]
HolderView == [j \in Job |-> rows[j].owner]
DoingView  == [w \in Worker |-> run[w].job]

ContractStep == [Contract!Next]_(Contract!vars)

LEMMA StatusByState ==
  ASSUME TypeOK, NEW j \in Job
  PROVE  /\ rows[j].state = "absent"     <=> StatusOf(j) = "unknown"
         /\ rows[j].state = "pending"    <=> StatusOf(j) = "waiting"
         /\ rows[j].state = "processing" <=> StatusOf(j) = "held"
         /\ rows[j].state = "completed"  <=> StatusOf(j) = "done"
         /\ rows[j].state = "dead"       <=> StatusOf(j) = "failed"
         /\ rows[j].state = "discarded"  <=> StatusOf(j) = "dropped"
<1>1. rows[j].state \in JobState
  BY DEF TypeOK, Row
<1> QED BY <1>1 DEF StatusOf, StatusName, JobState

\* A step that keeps states, owners and running jobs cannot be observed.
LEMMA Stutter ==
  ASSUME TypeOK, TypeOK',
         \A j \in Job : rows'[j].state = rows[j].state /\ rows'[j].owner = rows[j].owner,
         \A w \in Worker : run'[w].job = run[w].job
  PROVE  ContractStep
<1>1. \A j \in Job : StatusOf(j)' = StatusOf(j)
  BY DEF StatusOf, StatusName
<1>2. UNCHANGED Contract!vars
  BY <1>1 DEF Contract!vars
<1> QED BY <1>2 DEF ContractStep

\* How the three views change.
LEMMA ViewChanges ==
  /\ \A i \in Job : \A v :
        /\ StatusOf(i)' = v
        /\ \A j \in Job : j # i => StatusOf(j)' = StatusOf(j)
        => StatusView' = [StatusView EXCEPT ![i] = v]
  /\ \A i \in Job : \A v :
        /\ rows'[i].owner = v
        /\ \A j \in Job : j # i => rows'[j].owner = rows[j].owner
        => HolderView' = [HolderView EXCEPT ![i] = v]
  /\ \A w \in Worker : \A v :
        /\ run'[w].job = v
        /\ \A u \in Worker : u # w => run'[u].job = run[u].job
        => DoingView' = [DoingView EXCEPT ![w] = v]
  /\ (\A j \in Job : StatusOf(j)' = StatusOf(j)) => StatusView' = StatusView
  /\ (\A j \in Job : rows'[j].owner = rows[j].owner) => HolderView' = HolderView
  /\ (\A w \in Worker : run'[w].job = run[w].job) => DoingView' = DoingView
BY DEF StatusView, HolderView, DoingView

LEMMA InitRefines == Init => Contract!Init
<1> SUFFICES ASSUME Init PROVE Contract!Init
  OBVIOUS
<1>1. TypeOK
  BY InitType
<1>2. ASSUME NEW j \in Job
      PROVE  StatusOf(j) \in {"unknown", "waiting"} /\ rows[j].owner = NoWorker
  <2>1. rows[j].state \in {"absent", "pending"} /\ rows[j].owner = NoWorker
    BY DEF Init, NewRow, AbsentRow
  <2> QED BY <1>1, <2>1, StatusByState
<1>3. \A w \in Worker : run[w].job = NoJob
  BY DEF Init, Idle
<1> QED BY <1>2, <1>3 DEF Contract!Init

LEMMA AcceptStep ==
  ASSUME TypeOK, TypeOK', Bookkeeping, NEW i \in Job, NEW D \in SUBSET Operation, Insert(i, D),
         \A w \in Worker : run'[w].job = run[w].job
  PROVE  ContractStep
<1>1. rows[i].state = "absent" /\ rows[i].owner = NoWorker
  BY DEF Insert, Bookkeeping
<1>2. rows'[i].state = "pending" /\ rows'[i].owner = NoWorker
  BY DEF Insert, NewRow, TypeOK
<1>3. \A j \in Job : j # i => rows'[j] = rows[j]
  BY DEF Insert, TypeOK
<1>4. StatusOf(i) = "unknown" /\ StatusOf(i)' = "waiting"
  BY <1>1, <1>2 DEF StatusOf, StatusName
<1>5. \A j \in Job : j # i => StatusOf(j)' = StatusOf(j)
  BY <1>3 DEF StatusOf, StatusName
<1>6. Contract!Accept(i)
  BY <1>1, <1>2, <1>3, <1>4, <1>5 DEF Contract!Accept
<1> QED BY <1>6 DEF ContractStep, Contract!Next

LEMMA TakeStep ==
  ASSUME TypeOK, TypeOK', NEW w \in Worker, NEW i \in Job, ~Running(w), Claimable(i), Claim(w, i)
  PROVE  ContractStep
<1>1. rows[i].state \in Unsettled /\ rows[i] \in Row
  BY DEF Claimable, IsUnsettled, TypeOK
<1>2. rows'[i].state = "processing" /\ rows'[i].owner = w
  BY <1>1 DEF Claim, ClaimedRow, TypeOK, Row
<1>3. \A j \in Job : j # i => rows'[j] = rows[j]
  BY DEF Claim, TypeOK
<1>4. run'[w].job = i /\ \A v \in Worker : v # w => run'[v] = run[v]
  BY DEF Claim, TypeOK, Idle
<1>5. StatusOf(i) \in {"waiting", "held"} /\ StatusOf(i)' = "held"
  BY <1>1, <1>2 DEF StatusOf, StatusName, Unsettled
<1>6. \A j \in Job : j # i => StatusOf(j)' = StatusOf(j)
  BY <1>3 DEF StatusOf, StatusName
<1>7. Contract!Take(w, i)
  BY <1>2, <1>3, <1>4, <1>5, <1>6 DEF Contract!Take, Running
<1> QED BY <1>7 DEF ContractStep, Contract!Next

LEMMA VanishStep ==
  ASSUME TypeOK, TypeOK', NEW w \in Worker, Running(w), rows' = rows,
         run' = [run EXCEPT ![w] = Idle]
  PROVE  ContractStep
<1>1. run'[w].job = NoJob /\ \A v \in Worker : v # w => run'[v] = run[v]
  BY DEF TypeOK, Idle
<1>2. \A j \in Job : StatusOf(j)' = StatusOf(j) /\ rows'[j].owner = rows[j].owner
  BY DEF StatusOf, StatusName
<1>3. /\ StatusView' = StatusView /\ HolderView' = HolderView
      /\ DoingView' = [DoingView EXCEPT ![w] = NoJob]
      /\ DoingView[w] # NoJob
  <2>1. DoingView[w] # NoJob
    BY DEF DoingView, Running
  <2> QED BY <1>1, <1>2, <2>1, ViewChanges
<1>4. Contract!Vanish(w)
  BY <1>3 DEF Contract!Vanish, StatusView, HolderView, DoingView
<1> QED BY <1>4 DEF ContractStep, Contract!Next

\* A settlement finishes the job if its claim still stands, and is lost on
\* the queue if it does not.
LEMMA FinishStep ==
  ASSUME TypeOK, TypeOK', NEW w \in Worker, Running(w), NEW r, Settle(w, r),
         run' = [run EXCEPT ![w] = Idle],
         r.state \in {"completed", "pending", "dead"}, r.owner = NoWorker
  PROVE  ContractStep
<1>1. PICK i \in Job : i = run[w].job
  BY DEF TypeOK, Handler, Running
<1>2. CASE ~Holds(w, i)
  BY <1>1, <1>2, VanishStep DEF Settle
<1>3. CASE Holds(w, i)
  <2>1. rows'[i] = r /\ \A j \in Job : j # i => rows'[j] = rows[j]
    BY <1>1, <1>3 DEF Settle, TypeOK
  <2>2. run'[w].job = NoJob /\ \A v \in Worker : v # w => run'[v] = run[v]
    BY DEF TypeOK, Idle
  <2>3. StatusOf(i) = "held" /\ rows[i].owner = w
    BY <1>3 DEF Holds, StatusOf, StatusName
  <2>4. StatusOf(i)' \in {"done", "waiting", "failed"} /\ rows'[i].owner = NoWorker
    <3>1. rows'[i].state \in {"completed", "pending", "dead"} /\ rows'[i].owner = NoWorker
      BY <2>1
    <3> QED BY <3>1 DEF StatusOf, StatusName
  <2>5. \A j \in Job : j # i => StatusOf(j)' = StatusOf(j)
    BY <2>1 DEF StatusOf, StatusName
  <2> PICK v \in {"done", "waiting", "failed"} : StatusOf(i)' = v
    BY <2>4
  <2>6. StatusView' = [StatusView EXCEPT ![i] = v]
    BY <2>5, ViewChanges
  <2>7. HolderView' = [HolderView EXCEPT ![i] = NoWorker]
    BY <2>1, <2>4, ViewChanges
  <2>8. DoingView' = [DoingView EXCEPT ![w] = NoJob]
    BY <2>2, ViewChanges
  <2>9. DoingView[w] = i /\ HolderView[i] = w /\ StatusView[i] = "held"
    BY <1>1, <2>3 DEF DoingView, HolderView, StatusView
  <2>10. Contract!Finish(w, i, v)
    BY <2>6, <2>7, <2>8, <2>9 DEF Contract!Finish, StatusView, HolderView, DoingView
  <2> QED BY <2>10 DEF ContractStep, Contract!Next
<1> QED BY <1>2, <1>3

\* Jobs that come back from the dead together.
LEMMA ReviveStep ==
  ASSUME TypeOK, TypeOK', Bookkeeping, Bookkeeping', NEW S \in SUBSET Job,
         \A j \in S : rows[j].state = "dead" /\ rows'[j].state = "pending",
         \A j \in Job \ S : rows'[j].state = rows[j].state /\ rows'[j].owner = rows[j].owner,
         \A w \in Worker : run'[w].job = run[w].job
  PROVE  ContractStep
<1>1. \A j \in S : StatusOf(j) = "failed" /\ StatusOf(j)' = "waiting"
  BY DEF StatusOf, StatusName
<1>2. \A j \in Job \ S : StatusOf(j)' = StatusOf(j)
  BY DEF StatusOf, StatusName
<1>3. \A j \in Job : rows'[j].owner = rows[j].owner
  BY DEF Bookkeeping
<1>4. /\ StatusView' = [j \in Job |-> IF j \in S THEN "waiting" ELSE StatusView[j]]
      /\ HolderView' = HolderView /\ DoingView' = DoingView
      /\ \A j \in S : StatusView[j] = "failed"
  BY <1>1, <1>2, <1>3 DEF StatusView, HolderView, DoingView
<1>5. Contract!Revive(S)
  BY <1>4 DEF Contract!Revive, StatusView, HolderView, DoingView
<1> QED BY <1>5 DEF ContractStep, Contract!Next

LEMMA DropStep ==
  ASSUME TypeOK, TypeOK', Bookkeeping, NEW i \in Job, DiscardFailure(i)
  PROVE  ContractStep
<1>1. rows[i].state = "dead" /\ rows[i] \in Row /\ rows[i].owner = NoWorker
  BY DEF DiscardFailure, TypeOK, Bookkeeping
<1>2. rows'[i].state = "discarded" /\ rows'[i].owner = NoWorker
  BY <1>1 DEF DiscardFailure, DiscardedRow, TypeOK, Row
<1>3. \A j \in Job : j # i => rows'[j] = rows[j]
  BY DEF DiscardFailure, TypeOK
<1>4. StatusOf(i) = "failed" /\ StatusOf(i)' = "dropped"
  BY <1>1, <1>2 DEF StatusOf, StatusName
<1>5. \A j \in Job : j # i => StatusOf(j)' = StatusOf(j)
  BY <1>3 DEF StatusOf
<1>6. /\ StatusView' = [StatusView EXCEPT ![i] = "dropped"] /\ StatusView[i] = "failed"
      /\ HolderView' = HolderView /\ DoingView' = DoingView
  <2>1. StatusView[i] = "failed"
    BY <1>4 DEF StatusView
  <2>2. \A j \in Job : rows'[j].owner = rows[j].owner
    BY <1>1, <1>2, <1>3
  <2>3. DoingView' = DoingView
    BY DEF DiscardFailure, DoingView
  <2> QED BY <1>4, <1>5, <2>1, <2>2, <2>3, ViewChanges
<1>7. Contract!Drop(i)
  BY <1>6 DEF Contract!Drop, StatusView, HolderView, DoingView
<1> QED BY <1>7 DEF ContractStep, Contract!Next

-----------------------------------------------------------------------------
LEMMA TickRefines ==
  ASSUME TypeOK, TypeOK', Bookkeeping, Bookkeeping', NEW w \in Worker, Tick(w)
  PROVE  ContractStep
<1>1. ASSUME ClaimInbox(w) \/ ClaimOutbox(w) PROVE ContractStep
  <2>1. CASE Skip(w)
    BY <2>1, Stutter DEF Skip
  <2>2. ASSUME NEW i \in Job, Claimable(i), Claim(w, i) PROVE ContractStep
    <3>1. ~Running(w)
      BY <1>1 DEF ClaimInbox, ClaimOutbox, Running
    <3> QED BY <2>2, <3>1, TakeStep
  <2> QED BY <1>1, <2>1, <2>2 DEF ClaimInbox, ClaimOutbox, NextClaim
<1>2. ASSUME EnqueueNext(w) PROVE ContractStep
  <2> PICK o \in Operation : o = NextOfPlan(w)
    BY <1>2, NextOfPlanType DEF EnqueueNext
  <2>1. \A v \in Worker : run'[v].job = run[v].job
    BY <1>2 DEF EnqueueNext, TypeOK, Handler
  <2>2. Insert(o, DependsOn[o] \cap run[w].fresh) \/ UNCHANGED rows
    BY <1>2 DEF EnqueueNext, NextOfPlan
  <2>3. CASE UNCHANGED rows
    BY <2>1, <2>3, Stutter
  <2>4. CASE Insert(o, DependsOn[o] \cap run[w].fresh)
    <3>1. o \in Job /\ DependsOn[o] \cap run[w].fresh \in SUBSET Operation
      BY ConstantsAssumption DEF Job
    <3> QED BY <2>1, <2>4, <3>1, AcceptStep
  <2> QED BY <2>2, <2>3, <2>4
<1>3. ASSUME MakeThread(w) PROVE ContractStep
  <2>1. \A v \in Worker : run'[v].job = run[v].job
    BY <1>3 DEF MakeThread, TypeOK, Handler
  <2> QED BY <1>3, <2>1, Stutter DEF MakeThread
<1>4. ASSUME ResumeWaiters(w) PROVE ContractStep
  <2> DEFINE waiters == {j \in Job : /\ WaitsForThread(j)
                                     /\ PartitionOf[j] = PartitionOf[run[w].job]
                                     /\ rows[j].state \in {"dead", "pending"}}
  <2>1. run' = [run EXCEPT ![w].made = FALSE]
    BY <1>4 DEF ResumeWaiters
  <2>2. \A v \in Worker : run'[v].job = run[v].job
    BY <2>1 DEF TypeOK, Handler
  <2>3. \A j \in Job : rows'[j] = IF j \in waiters THEN ResumedRow(rows[j]) ELSE rows[j]
    BY <1>4 DEF ResumeWaiters
  <2>4. \A j \in waiters : rows'[j].state = "pending" /\ rows'[j].owner = NoWorker
    BY <2>3, RowColumns DEF TypeOK
  <2> PICK S \in SUBSET Job : S = {j \in waiters : rows[j].state = "dead"}
    OBVIOUS
  <2>5. \A j \in S : rows[j].state = "dead" /\ rows'[j].state = "pending"
    BY <2>4
  <2>6. \A j \in Job \ S : rows'[j].state = rows[j].state /\ rows'[j].owner = rows[j].owner
    BY <2>3, <2>4 DEF Bookkeeping
  <2> QED BY <2>2, <2>5, <2>6, ReviveStep
<1>5. ASSUME Complete(w) PROVE ContractStep
  <2>1. PICK r : r = CompletedRow(rows[run[w].job])
    OBVIOUS
  <2>2. r.state = "completed" /\ r.owner = NoWorker
    BY <1>5, <2>1, RowColumns DEF Complete, TypeOK, Running, Handler
  <2> QED BY <1>5, <2>1, <2>2, FinishStep DEF Complete, Leave
<1>6. ASSUME Fail(w) \/ FailThreadPending(w) PROVE ContractStep
  <2>1. "temporary" \in FailureCategory /\ "other" \in ErrorCode /\ "THREAD_PENDING" \in ErrorCode
    BY DEF FailureCategory, RetryableCategory, ErrorCode
  <2>2. PICK category \in FailureCategory, code \in ErrorCode :
          Settle(w, FailedRow(rows[run[w].job], category, code))
    BY <1>6, <2>1 DEF Fail, FailThreadPending
  <2>3. PICK r : r = FailedRow(rows[run[w].job], category, code)
    OBVIOUS
  <2>4. Running(w) /\ run' = [run EXCEPT ![w] = Idle]
    BY <1>6 DEF Fail, FailThreadPending, Leave
  <2>5. r.state \in {"dead", "pending"} /\ r.owner = NoWorker
    BY <2>3, <2>4, RowColumns DEF TypeOK, Running, Handler
  <2> QED BY <2>2, <2>3, <2>4, <2>5, FinishStep
<1> QED BY <1>1, <1>2, <1>3, <1>4, <1>5, <1>6 DEF Tick

LEMMA NextRefines ==
  ASSUME TypeOK, Bookkeeping, [Next]_vars
  PROVE  ContractStep
<1>1. TypeOK' /\ Bookkeeping'
  BY NextType, BookkeepingStep
<1>2. ASSUME NEW i \in Job, Submit(i) PROVE ContractStep
  BY <1>1, <1>2, AcceptStep DEF Submit
<1>3. ASSUME NEW i \in Job, Time(i) \/ ClaimOverrun(i) PROVE ContractStep
  <2>1. rows' = [rows EXCEPT ![i] = DueRow(@)] /\ run' = run
    BY <1>3 DEF Time, BackoffElapses, ClaimExpires, ClaimOverrun, BecomesDue
  <2>2. \A j \in Job : rows'[j].state = rows[j].state /\ rows'[j].owner = rows[j].owner
    BY <2>1, RowColumns DEF TypeOK
  <2> QED BY <1>1, <2>1, <2>2, Stutter
<1>4. ASSUME NEW w \in Worker, Crash(w) \/ Stop(w) \/ Abandon(w) PROVE ContractStep
  <2>1. rows' = rows /\ (run' = run \/ run' = [run EXCEPT ![w] = Idle])
    BY <1>4 DEF Crash, Stop, Abandon
  <2>2. CASE run' = run
    BY <1>1, <2>1, <2>2, Stutter
  <2>3. CASE Running(w) /\ run' = [run EXCEPT ![w] = Idle]
    BY <1>1, <2>1, <2>3, VanishStep
  <2>4. CASE ~Running(w) /\ run' = [run EXCEPT ![w] = Idle]
    <3>1. \A v \in Worker : run'[v].job = run[v].job
      BY <2>4 DEF Running, TypeOK, Idle
    <3> QED BY <1>1, <2>1, <3>1, Stutter
  <2> QED BY <2>1, <2>2, <2>3, <2>4
<1>5. ASSUME NEW i \in Job, RetryFailure(i) PROVE ContractStep
  <2>1. rows[i].state = "dead" /\ rows'[i].state = "pending" /\ run' = run
    BY <1>5, RowColumns DEF RetryFailure, TypeOK
  <2>2. \A j \in Job \ {i} : rows'[j] = rows[j]
    BY <1>5 DEF RetryFailure, TypeOK
  <2>3. {i} \in SUBSET Job
    OBVIOUS
  <2> QED BY <1>1, <2>1, <2>2, <2>3, ReviveStep
<1>6. ASSUME NEW i \in Job, DiscardFailure(i) PROVE ContractStep
  BY <1>1, <1>6, DropStep
<1>7. ASSUME NEW m \in Mapping, ResumeDeadWaiters(m) PROVE ContractStep
  <2> PICK S \in SUBSET Job : S = {j \in Job : /\ WaitsForThread(j)
                                               /\ MappingOf[j] = m
                                               /\ rows[j].state = "dead"}
    OBVIOUS
  <2>1. run' = run /\ \A j \in Job : rows'[j] = IF j \in S THEN ResumedRow(rows[j]) ELSE rows[j]
    BY <1>7 DEF ResumeDeadWaiters
  <2>2. \A j \in S : rows[j].state = "dead" /\ rows'[j].state = "pending"
    BY <2>1, RowColumns DEF TypeOK
  <2> QED BY <1>1, <2>1, <2>2, ReviveStep
<1>8. ASSUME NEW m \in Mapping, SetMapping(m) PROVE ContractStep
  BY <1>1, <1>8, Stutter DEF SetMapping
<1>9. CASE UNCHANGED vars
  BY <1>1, <1>9, Stutter DEF vars
<1> QED BY <1>2, <1>3, <1>4, <1>5, <1>6, <1>7, <1>8, <1>9, <1>1, TickRefines DEF Next

\* For every set of jobs and workers, every plan and every bound: the queue
\* keeps the contract.
THEOREM QueueImplementsContract == Spec => ImplementsContract
<1>1. Init => Contract!Init
  BY InitRefines
<1>2. TypeOK /\ Bookkeeping /\ [Next]_vars => [Contract!Next]_(Contract!vars)
  BY NextRefines DEF ContractStep
<1> QED BY <1>1, <1>2, BookkeepingHolds, PTL DEF Spec, ImplementsContract, Contract!Spec
=============================================================================
