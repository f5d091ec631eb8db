---------------------------- MODULE RelayProcess ----------------------------
(***************************************************************************)
(* The processes of Forum Relay and the lease that lets one of them work:  *)
(* the worker_leases row (jobs/worker-lease.ts), the start and stop of the *)
(* application (app.ts) and its signal handling (index.ts).                *)
(*                                                                         *)
(* start() is a sequence of awaits, so a signal, a failed renewal and its  *)
(* own continuation interleave.  Time is counted in units that divide the  *)
(* durations of worker-lease.ts; the processes share one clock.            *)
(***************************************************************************)
EXTENDS Naturals

CONSTANTS
  Process,      \* process incarnations: each start draws a fresh instance id
  NoProcess,    \* there is no row in worker_leases
  LeaseTime,    \* DEFAULT_LEASE_DURATION_MS
  RenewTime,    \* DEFAULT_RENEW_INTERVAL_MS
  WaitTime,     \* DEFAULT_ACQUIRE_WAIT_MS
  MaxDelay,     \* how late a due renewal may be, unless the process stalls
  MaxFaults,    \* bound: kills, signals, failed calls
  MaxStalls     \* bound: units of time a process is stalled

ASSUME LeaseAssumption ==
  /\ NoProcess \notin Process
  /\ LeaseTime \in Nat \ {0} /\ RenewTime \in Nat /\ WaitTime \in Nat
  /\ MaxDelay \in Nat /\ MaxFaults \in Nat /\ MaxStalls \in Nat

\* A renewal comes well before the lease expires.
ASSUME PromptAssumption == RenewTime + MaxDelay < LeaseTime

VARIABLES
  lease,    \* the worker_leases row
  proc,     \* process -> its flags and the point its start() has reached
  faults,   \* faults so far
  stalls    \* stalls so far

vars == <<lease, proc, faults, stalls>>

Phase == {"down",         \* not started yet
          "waiting",      \* in acquireEventually
          "starting",     \* initializing mappings, labels and tags
          "connecting",   \* services started, gateway.connect() pending
          "resuming",     \* connected, bootstrap.resumeRunning() pending
          "running",      \* start() has returned
          "inactive",     \* start() has returned without the lease
          "failed",       \* start() has thrown
          "gone"}         \* the process has ended

Alive(p) == proc[p].phase \notin {"down", "gone"}

\* The longest time between two renewals of a process that does not stall.
MaxSince == RenewTime + MaxDelay

Lease == [holder : Process \cup {NoProcess}, left : 0..LeaseTime]

State == [phase     : Phase,
          wait      : 0..WaitTime,               \* until the deadline of acquireEventually
          active    : BOOLEAN,                   \* active in app.ts
          leased    : BOOLEAN,                   \* WorkerLease.#active, renewal timer set
          since     : 0..(MaxSince + 1),         \* since the last renewal; saturates
          worker    : BOOLEAN,                   \* worker, HTTP, audit, maintenance
          gateway   : BOOLEAN,                   \* the Discord connection
          connected : BOOLEAN,                   \* connected in app.ts
          recovery  : BOOLEAN,                   \* the recovery schedule
          closing   : BOOLEAN,                   \* stopOnce() awaits gateway.destroy()
          deleting  : BOOLEAN]                   \* stopOnce() awaits the DELETE of release()

Down ==
  [phase |-> "down", wait |-> 0, active |-> FALSE, leased |-> FALSE, since |-> 0,
   worker |-> FALSE, gateway |-> FALSE, connected |-> FALSE, recovery |-> FALSE,
   closing |-> FALSE, deleting |-> FALSE]

Gone == [Down EXCEPT !.phase = "gone"]

-----------------------------------------------------------------------------
Init ==
  /\ lease = [holder |-> NoProcess, left |-> 0]
  /\ proc = [p \in Process |-> Down]
  /\ faults = 0
  /\ stalls = 0

Fault == faults < MaxFaults /\ faults' = faults + 1 /\ UNCHANGED stalls

\* deactivate(): a second call does nothing, and so does a call before the
\* lease was acquired.
Deactivated(s) ==
  IF s.active
  THEN [s EXCEPT !.active = FALSE, !.worker = FALSE, !.recovery = FALSE,
                 !.gateway = @ /\ ~s.connected, !.connected = FALSE]
  ELSE s

-----------------------------------------------------------------------------
(* start()                                                                 *)

Boot(p) ==
  /\ proc[p].phase = "down"
  /\ proc' = [proc EXCEPT ![p] = [@ EXCEPT !.phase = "waiting", !.wait = WaitTime]]
  /\ UNCHANGED <<lease, faults, stalls>>

\* Mutant: an expired row is not taken over.
ObtainableIfFree(p) == lease.holder \in {NoProcess, p}

\* The row is missing, has expired, or is this process's own.
Obtainable(p) == lease.holder \in {NoProcess, p} \/ lease.left = 0

Acquire(p) ==
  /\ proc[p].phase = "waiting"
  /\ Obtainable(p)
  /\ lease' = [holder |-> p, left |-> LeaseTime]
  /\ proc' = [proc EXCEPT ![p] = [@ EXCEPT !.phase = "starting", !.wait = 0, !.active = TRUE,
                                          !.leased = TRUE, !.since = 0]]
  /\ UNCHANGED <<faults, stalls>>

\* The attempt that finds the deadline passed is the last one.
GiveUp(p) ==
  /\ proc[p].phase = "waiting" /\ proc[p].wait = 0
  /\ ~Obtainable(p)
  /\ proc' = [proc EXCEPT ![p] = [@ EXCEPT !.phase = "inactive"]]
  /\ UNCHANGED <<lease, faults, stalls>>

Serve(p) ==
  /\ proc[p].phase = "starting"
  /\ proc' = [proc EXCEPT ![p] = [@ EXCEPT !.phase = "connecting", !.worker = TRUE]]
  /\ UNCHANGED <<lease, faults, stalls>>

Connect(p) ==
  /\ proc[p].phase = "connecting"
  /\ proc' = [proc EXCEPT ![p] = [@ EXCEPT !.phase = "resuming", !.gateway = TRUE,
                                          !.connected = TRUE]]
  /\ UNCHANGED <<lease, faults, stalls>>

Started(p) ==
  /\ proc[p].phase = "resuming"
  /\ proc' = [proc EXCEPT ![p] = [@ EXCEPT !.phase = "running", !.recovery = TRUE]]
  /\ UNCHANGED <<lease, faults, stalls>>

-----------------------------------------------------------------------------
(* The end of a process.                                                   *)

Stopping(s) == s.closing \/ s.deleting

\* stopOnce(), up to the awaits of deactivate() and release().
Stopped(s) ==
  IF Stopping(s) THEN s
  ELSE [Deactivated(s) EXCEPT !.closing = s.active /\ s.connected,
                              !.deleting = s.leased, !.leased = FALSE]

\* The process exits as soon as stopOnce() awaits nothing any more.
Ended(s) == IF Stopping(s) THEN s ELSE Gone

\* A signal, a ^C on stdin, an uncaught exception or an unhandled rejection.
\* start() goes on while the shutdown waits.
Shutdown(p) ==
  /\ Fault
  /\ Alive(p) /\ ~Stopping(proc[p])
  /\ proc' = [proc EXCEPT ![p] = Ended(Stopped(@))]
  /\ UNCHANGED lease

\* An await of start() rejects; main() requests the shutdown.
StartFails(p) ==
  /\ Fault
  /\ proc[p].phase \in {"waiting", "starting", "connecting", "resuming"}
  /\ proc' = [proc EXCEPT ![p] = Ended([Stopped(@) EXCEPT !.phase = "failed"])]
  /\ UNCHANGED lease

\* Mutant: the DELETE does not compare instance_id.
ReleaseOfAnyone(p) ==
  /\ proc[p].deleting
  /\ proc' = [proc EXCEPT ![p] = Ended([@ EXCEPT !.deleting = FALSE])]
  /\ lease' = [holder |-> NoProcess, left |-> 0]
  /\ UNCHANGED <<faults, stalls>>

\* The DELETE of release() removes the row if it is still this process's.
Release(p) ==
  /\ proc[p].deleting
  /\ proc' = [proc EXCEPT ![p] = Ended([@ EXCEPT !.deleting = FALSE])]
  /\ \/ /\ lease' = IF lease.holder = p THEN [holder |-> NoProcess, left |-> 0] ELSE lease
        /\ UNCHANGED <<faults, stalls>>
     \/ /\ Fault          \* the DELETE fails: the row stays
        /\ UNCHANGED lease

GatewayClosed(p) ==
  /\ proc[p].closing
  /\ proc' = [proc EXCEPT ![p] = Ended([@ EXCEPT !.closing = FALSE])]
  /\ UNCHANGED <<lease, faults, stalls>>

Kill(p) ==
  /\ Fault
  /\ Alive(p)
  /\ proc' = [proc EXCEPT ![p] = Gone]
  /\ UNCHANGED lease

-----------------------------------------------------------------------------
(* Renewal and time.                                                       *)

RenewDue(p) == proc[p].leased /\ proc[p].since >= RenewTime

StillHolds(p) == lease.holder = p /\ lease.left > 0

\* Mutant: the duration is added to what is left.
RenewByAdding(p) ==
  /\ RenewDue(p) /\ StillHolds(p)
  /\ lease' = [lease EXCEPT !.left = @ + LeaseTime]
  /\ proc' = [proc EXCEPT ![p] = [@ EXCEPT !.since = 0]]
  /\ UNCHANGED <<faults, stalls>>

Renew(p) ==
  /\ RenewDue(p) /\ StillHolds(p)
  /\ lease' = [lease EXCEPT !.left = LeaseTime]
  /\ proc' = [proc EXCEPT ![p] = [@ EXCEPT !.since = 0]]
  /\ UNCHANGED <<faults, stalls>>

Lose(p) == proc' = [proc EXCEPT ![p] = [Deactivated(@) EXCEPT !.leased = FALSE]]

\* No row was updated.
LeaseLost(p) ==
  /\ RenewDue(p) /\ ~StillHolds(p)
  /\ Lose(p)
  /\ UNCHANGED <<lease, faults, stalls>>

\* The UPDATE fails, before or after it took effect.
RenewFails(p) ==
  /\ Fault
  /\ RenewDue(p)
  /\ Lose(p)
  /\ \/ UNCHANGED lease
     \/ StillHolds(p) /\ lease' = [lease EXCEPT !.left = LeaseTime]

Less(n) == IF n > 0 THEN n - 1 ELSE 0

Older(s) ==
  [s EXCEPT !.wait = Less(@), !.since = IF s.leased /\ @ <= MaxSince THEN @ + 1 ELSE @]

UnitPasses ==
  /\ lease' = [lease EXCEPT !.left = Less(@)]
  /\ proc' = [p \in Process |-> Older(proc[p])]

Elapse ==
  /\ \A p \in Process : proc[p].leased => proc[p].since < MaxSince
  /\ UnitPasses
  /\ UNCHANGED <<faults, stalls>>

\* A process is suspended, or its event loop blocked, past its renewal.
Stall ==
  /\ stalls < MaxStalls /\ stalls' = stalls + 1 /\ UNCHANGED faults
  /\ \E p \in Process : proc[p].leased /\ proc[p].since = MaxSince
  /\ UnitPasses

-----------------------------------------------------------------------------
Starting(p) == Acquire(p) \/ GiveUp(p) \/ Serve(p) \/ Connect(p) \/ Started(p)

Ending(p) == Release(p) \/ GatewayClosed(p)

Renewing(p) == Renew(p) \/ LeaseLost(p)

Next ==
  \/ Elapse \/ Stall
  \/ \E p \in Process :
       \/ Boot(p) \/ Starting(p) \/ Ending(p) \/ Renewing(p)
       \/ Shutdown(p) \/ StartFails(p) \/ Kill(p) \/ RenewFails(p)

Spec == Init /\ [][Next]_vars

\* Clocks advance, timers fire and awaits settle.
FairSpec ==
  /\ Spec
  /\ WF_vars(Elapse)
  /\ \A p \in Process :
       WF_vars(Starting(p)) /\ WF_vars(Ending(p)) /\ WF_vars(Renewing(p))

-----------------------------------------------------------------------------
(* Properties.                                                             *)

TypeOK ==
  /\ lease \in Lease
  /\ proc \in [Process -> State]
  /\ faults \in 0..MaxFaults /\ stalls \in 0..MaxStalls

\* A process that considers itself active and has not stalled holds the
\* lease, unexpired, whatever the others do and wherever a start, a stop or
\* a renewal was cut short.  (acquire, #renew, deactivate, stopOnce)
ActiveHoldsLease ==
  \A p \in Process :
    proc[p].active /\ proc[p].since <= MaxSince => lease.holder = p /\ lease.left > 0

OthersEnded(p) == \A q \in Process \ {p} : ~Alive(q)

\* A process that starts when the others have ended, killed or not, gets the
\* lease: it waits long enough for the row of a dead process to expire.
Takeover ==
  \A p \in Process :
    proc[p].phase = "waiting" /\ proc[p].wait = WaitTime /\ OthersEnded(p)
      ~> lease.holder = p \/ ~Alive(p) \/ ~OthersEnded(p)

-----------------------------------------------------------------------------
(* What the documents say, and the code does not do.                       *)

\* docs/SPECIFICATION.md: "Loss of the lease stops processing and Gateway
\* activity safely."
LossStopsWork ==
  \A p \in Process :
    (proc[p].worker \/ proc[p].gateway) /\ ~proc[p].leased
      ~> ~proc[p].worker /\ ~proc[p].gateway

=============================================================================
