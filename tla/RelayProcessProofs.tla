------------------------- MODULE RelayProcessProofs -------------------------
(***************************************************************************)
(* RelayProcess, proved for every number of processes and all durations    *)
(* that satisfy PromptAssumption: a process that has not stalled is active *)
(* only while it holds the lease.                                          *)
(***************************************************************************)
EXTENDS RelayProcess, TLAPS

USE LeaseAssumption

\* The flags of one process: it is active only while its renewal timer is
\* set, and it never acquires a lease after stopOnce() has begun to delete one.
Sound(s) ==
  /\ s.active => s.leased
  /\ s.leased => ~s.deleting
  /\ s.leased \/ s.deleting => s.phase \notin {"down", "waiting"}

\* Why the lease is still there: since the last renewal it lost no more time
\* than passed.
LeaseAccount(p) ==
  /\ Sound(proc[p])
  /\ proc[p].leased /\ proc[p].since <= MaxSince =>
       lease.holder = p /\ lease.left + proc[p].since >= LeaseTime

LeaseInv == \A p \in Process : LeaseAccount(p)

\* A change of flags that neither sets the renewal timer nor touches it.
Follows(s, t) ==
  /\ t \in State
  /\ Sound(t)
  /\ t.leased => s.leased /\ t.since = s.since

-----------------------------------------------------------------------------
(* Types.                                                                  *)

LEMMA Durations ==
  /\ MaxSince \in Nat
  /\ 0 \in 0..LeaseTime /\ LeaseTime \in 0..LeaseTime
  /\ 0 \in 0..WaitTime /\ WaitTime \in 0..WaitTime
  /\ 0 \in 0..(MaxSince + 1)
  /\ \A n \in 0..LeaseTime : Less(n) \in 0..LeaseTime
  /\ \A n \in 0..WaitTime : Less(n) \in 0..WaitTime
  /\ \A n \in 0..(MaxSince + 1) : n <= MaxSince => n + 1 \in 0..(MaxSince + 1)
BY DEF MaxSince, Less

LEMMA DownType ==
  /\ Down \in State /\ Sound(Down) /\ Down.leased = FALSE
  /\ Gone \in State /\ Sound(Gone) /\ Gone.leased = FALSE
BY Durations DEF Down, Gone, State, Phase, Sound

LEMMA LeaseTypes ==
  /\ \A p \in Process : [holder |-> p, left |-> LeaseTime] \in Lease
  /\ [holder |-> NoProcess, left |-> 0] \in Lease
  /\ \A l \in Lease : /\ [l EXCEPT !.left = LeaseTime] \in Lease
                      /\ [l EXCEPT !.left = Less(@)] \in Lease
BY Durations DEF Lease

LEMMA FaultTypes == ASSUME TypeOK, Fault PROVE faults' \in 0..MaxFaults /\ stalls' \in 0..MaxStalls
BY DEF TypeOK, Fault

-----------------------------------------------------------------------------
(* What the transformations of a process do to its flags.                  *)

LEMMA FollowsSelf == ASSUME NEW s \in State, Sound(s) PROVE Follows(s, s)
BY DEF Follows

LEMMA FollowsTransitive ==
  ASSUME NEW s, NEW t, NEW u, Follows(s, t), Follows(t, u)
  PROVE  Follows(s, u)
BY DEF Follows

LEMMA GoneFollows == ASSUME NEW s PROVE Follows(s, Gone)
BY DownType DEF Follows

LEMMA DeactivatedFollows ==
  ASSUME NEW s \in State, Sound(s)
  PROVE  /\ Follows(s, Deactivated(s)) /\ ~Deactivated(s).active
         /\ Deactivated(s).deleting = s.deleting /\ Deactivated(s).phase = s.phase
<1>1. PICK g \in BOOLEAN : g = (s.gateway /\ ~s.connected)
  BY DEF State
<1>2. PICK t : t = [s EXCEPT !.active = FALSE, !.worker = FALSE, !.recovery = FALSE,
                             !.gateway = g, !.connected = FALSE]
  OBVIOUS
<1>3. Follows(s, t) /\ t.active = FALSE /\ t.deleting = s.deleting /\ t.phase = s.phase
  BY <1>2 DEF Follows, State, Sound
<1>4. CASE s.active
  BY <1>1, <1>2, <1>3, <1>4 DEF Deactivated
<1>5. CASE ~s.active
  BY <1>5, FollowsSelf DEF Deactivated
<1> QED BY <1>4, <1>5

LEMMA StoppedFollows ==
  ASSUME NEW s \in State, Sound(s)
  PROVE  Follows(s, Stopped(s))
<1>1. CASE Stopping(s)
  BY <1>1, FollowsSelf DEF Stopped
<1>2. CASE ~Stopping(s)
  <2>1. PICK d : d = Deactivated(s)
    OBVIOUS
  <2>2. d \in State /\ Sound(d) /\ ~d.active /\ d.phase = s.phase
    BY <2>1, DeactivatedFollows DEF Follows
  <2>3. PICK a \in BOOLEAN, b \in BOOLEAN : a = (s.active /\ s.connected) /\ b = s.leased
    BY DEF State
  <2>4. PICK t : t = [d EXCEPT !.closing = a, !.deleting = b, !.leased = FALSE]
    OBVIOUS
  <2>5. /\ t \in State
        /\ t.leased = FALSE /\ t.active = d.active /\ t.deleting = b /\ t.phase = d.phase
    BY <2>2, <2>4 DEF State
  <2>6. b => s.phase \notin {"down", "waiting"}
    BY <2>3 DEF Sound
  <2>7. Follows(s, t)
    BY <2>2, <2>5, <2>6 DEF Follows, Sound
  <2> QED BY <1>2, <2>1, <2>3, <2>4, <2>7 DEF Stopped
<1> QED BY <1>1, <1>2

LEMMA EndedFollows == ASSUME NEW s \in State, Sound(s) PROVE Follows(s, Ended(s))
BY FollowsSelf, GoneFollows DEF Ended

\* A phase after "waiting", and the flags of stopOnce() being lowered.
LEMMA PhaseFollows ==
  ASSUME NEW s \in State, Sound(s), NEW f \in Phase \ {"down", "waiting"}
  PROVE  Follows(s, [s EXCEPT !.phase = f])
BY DEF Follows, State, Sound

LEMMA FlagFollows ==
  ASSUME NEW s \in State, Sound(s)
  PROVE  /\ Follows(s, [s EXCEPT !.deleting = FALSE])
         /\ Follows(s, [s EXCEPT !.closing = FALSE])
BY DEF Follows, State, Sound

-----------------------------------------------------------------------------
LEMMA InitTypes == Init => TypeOK /\ LeaseInv
<1> SUFFICES ASSUME Init PROVE TypeOK /\ LeaseInv
  OBVIOUS
<1>1. TypeOK
  BY DownType, LeaseTypes DEF Init, TypeOK
<1>2. \A p \in Process : proc[p] = Down
  BY DEF Init
<1> QED BY <1>1, <1>2, DownType DEF LeaseInv, LeaseAccount

LEMMA OfState == ASSUME TypeOK, LeaseInv, NEW p \in Process PROVE proc[p] \in State /\ Sound(proc[p])
BY DEF TypeOK, LeaseInv, LeaseAccount

\* A step of one process that leaves the time of the lease alone or extends
\* it, or gives up a lease of its own.
LEMMA OneProcess ==
  ASSUME TypeOK, LeaseInv, NEW p \in Process, NEW t, Follows(proc[p], t),
         proc' = [proc EXCEPT ![p] = t],
         lease' \in Lease,
         \/ lease'.holder = lease.holder /\ lease'.left >= lease.left
         \/ lease.holder = p /\ ~t.leased
  PROVE  proc' \in [Process -> State] /\ LeaseInv'
<1>1. proc' \in [Process -> State]
  BY DEF TypeOK, Follows
<1>2. lease.left \in Nat /\ lease'.left \in Nat
  BY DEF TypeOK, Lease
<1>3. ASSUME NEW q \in Process PROVE LeaseAccount(q)'
  <2>1. LeaseAccount(q) /\ proc[q].since \in Nat
    BY Durations DEF LeaseInv, TypeOK, State
  <2>2. CASE q = p
    <3>1. proc'[q] = t
      BY <2>2 DEF TypeOK
    <3>2. Sound(proc'[q])
      BY <3>1 DEF Follows
    <3>3. ASSUME proc'[q].leased, proc'[q].since <= MaxSince
          PROVE  lease'.holder = q /\ lease'.left + proc'[q].since >= LeaseTime
      <4>1. proc[q].leased /\ proc'[q].since = proc[q].since
        BY <2>2, <3>1, <3>3 DEF Follows
      <4>2. lease.holder = q /\ lease.left + proc[q].since >= LeaseTime
        BY <2>1, <3>3, <4>1 DEF LeaseAccount
      <4>3. lease'.holder = lease.holder /\ lease'.left >= lease.left
        BY <3>1, <3>3
      <4> QED BY <1>2, <2>1, <4>1, <4>2, <4>3
    <3> QED BY <3>2, <3>3 DEF LeaseAccount, Sound
  <2>3. CASE q # p
    <3>1. proc'[q] = proc[q]
      BY <2>3 DEF TypeOK
    <3>2. ASSUME proc[q].leased, proc[q].since <= MaxSince
          PROVE  lease'.holder = q /\ lease'.left + proc[q].since >= LeaseTime
      <4>1. lease.holder = q /\ lease.left + proc[q].since >= LeaseTime
        BY <2>1, <3>2 DEF LeaseAccount
      <4> QED BY <1>2, <2>1, <2>3, <4>1
    <3> QED BY <2>1, <3>1, <3>2 DEF LeaseAccount, Sound
  <2> QED BY <2>2, <2>3
<1> QED BY <1>1, <1>3 DEF LeaseInv

\* The steps of start() other than Acquire.
LEMMA StartKeeps ==
  ASSUME TypeOK, LeaseInv, NEW p \in Process,
         Boot(p) \/ GiveUp(p) \/ Serve(p) \/ Connect(p) \/ Started(p)
  PROVE  TypeOK' /\ LeaseInv'
<1>1. proc[p] \in State /\ Sound(proc[p])
  BY OfState
<1>2. lease' = lease /\ UNCHANGED <<faults, stalls>>
  BY DEF Boot, GiveUp, Serve, Connect, Started
<1>3. PICK t : proc' = [proc EXCEPT ![p] = t] /\ Follows(proc[p], t)
  <2>1. CASE Boot(p)
    <3>1. PICK t : t = [proc[p] EXCEPT !.phase = "waiting", !.wait = WaitTime]
      OBVIOUS
    <3>2. Follows(proc[p], t)
      BY <1>1, <2>1, <3>1, Durations DEF Boot, Follows, State, Phase, Sound
    <3> QED BY <2>1, <3>1, <3>2 DEF Boot
  <2>2. CASE GiveUp(p)
    <3>1. PICK t : t = [proc[p] EXCEPT !.phase = "inactive"]
      OBVIOUS
    <3>2. Follows(proc[p], t)
      BY <1>1, <3>1, PhaseFollows DEF Phase
    <3> QED BY <2>2, <3>1, <3>2 DEF GiveUp
  <2>3. CASE Serve(p)
    <3>1. PICK t : t = [proc[p] EXCEPT !.phase = "connecting", !.worker = TRUE]
      OBVIOUS
    <3>2. Follows(proc[p], t)
      BY <1>1, <3>1 DEF Follows, State, Phase, Sound
    <3> QED BY <2>3, <3>1, <3>2 DEF Serve
  <2>4. CASE Connect(p)
    <3>1. PICK t : t = [proc[p] EXCEPT !.phase = "resuming", !.gateway = TRUE, !.connected = TRUE]
      OBVIOUS
    <3>2. Follows(proc[p], t)
      BY <1>1, <3>1 DEF Follows, State, Phase, Sound
    <3> QED BY <2>4, <3>1, <3>2 DEF Connect
  <2>5. CASE Started(p)
    <3>1. PICK t : t = [proc[p] EXCEPT !.phase = "running", !.recovery = TRUE]
      OBVIOUS
    <3>2. Follows(proc[p], t)
      BY <1>1, <3>1 DEF Follows, State, Phase, Sound
    <3> QED BY <2>5, <3>1, <3>2 DEF Started
  <2> QED BY <2>1, <2>2, <2>3, <2>4, <2>5
<1>4. lease' \in Lease /\ lease'.holder = lease.holder /\ lease'.left >= lease.left
  BY <1>2 DEF TypeOK, Lease
<1>5. proc' \in [Process -> State] /\ LeaseInv'
  BY <1>3, <1>4, OneProcess
<1> QED BY <1>2, <1>4, <1>5 DEF TypeOK

\* A lease that is granted to p was covered by the account of no one else.
LEMMA Granted ==
  ASSUME TypeOK, LeaseInv, NEW p \in Process, Obtainable(p) \/ lease.holder = p,
         NEW t \in State, Sound(t), t.leased, t.since = 0,
         proc' = [proc EXCEPT ![p] = t],
         lease' \in Lease, lease'.holder = p, lease'.left = LeaseTime
  PROVE  proc' \in [Process -> State] /\ LeaseInv'
<1>1. proc' \in [Process -> State]
  BY DEF TypeOK
<1>2. LeaseAccount(p)'
  BY DEF LeaseAccount, Sound, TypeOK
<1>3. ASSUME NEW q \in Process, q # p PROVE LeaseAccount(q)'
  <2>1. proc'[q] = proc[q]
    BY <1>3 DEF TypeOK
  <2>2. Sound(proc[q])
    BY OfState
  <2>3. proc[q].leased => ~(proc[q].since <= MaxSince)
    <3> SUFFICES ASSUME proc[q].leased, proc[q].since <= MaxSince PROVE FALSE
      OBVIOUS
    <3>1. lease.holder = q /\ lease.left + proc[q].since >= LeaseTime
      BY DEF LeaseInv, LeaseAccount
    <3>2. lease.left \in Nat /\ proc[q].since \in Nat
      BY Durations DEF TypeOK, Lease, State
    <3>3. lease.left = 0
      BY <1>3, <3>1 DEF Obtainable
    <3> QED BY <3>1, <3>2, <3>3, PromptAssumption DEF MaxSince
  <2> QED BY <2>1, <2>2, <2>3 DEF LeaseAccount, Sound
<1> QED BY <1>1, <1>2, <1>3 DEF LeaseInv

LEMMA AcquireKeeps ==
  ASSUME TypeOK, LeaseInv, NEW p \in Process, Acquire(p)
  PROVE  TypeOK' /\ LeaseInv'
<1>1. PICK t : t = [proc[p] EXCEPT !.phase = "starting", !.wait = 0, !.active = TRUE,
                                   !.leased = TRUE, !.since = 0]
  OBVIOUS
<1>2. t \in State /\ Sound(t) /\ t.leased /\ t.since = 0
  <2>1. proc[p] \in State /\ ~proc[p].deleting
    BY OfState DEF Acquire, Sound
  <2> QED BY <1>1, <2>1, Durations DEF State, Phase, Sound
<1>3. proc' = [proc EXCEPT ![p] = t] /\ lease' = [holder |-> p, left |-> LeaseTime]
  BY <1>1 DEF Acquire
<1>4. lease' \in Lease /\ lease'.holder = p /\ lease'.left = LeaseTime
  BY <1>3, LeaseTypes
<1>5. proc' \in [Process -> State] /\ LeaseInv'
  BY <1>2, <1>3, <1>4, Granted DEF Acquire
<1> QED BY <1>4, <1>5 DEF TypeOK, Acquire

LEMMA RenewKeeps ==
  ASSUME TypeOK, LeaseInv, NEW p \in Process, Renew(p)
  PROVE  TypeOK' /\ LeaseInv'
<1>1. PICK t : t = [proc[p] EXCEPT !.since = 0]
  OBVIOUS
<1>2. t \in State /\ Sound(t) /\ t.leased /\ t.since = 0
  <2>1. proc[p] \in State /\ Sound(proc[p]) /\ proc[p].leased
    BY OfState DEF Renew, RenewDue
  <2> QED BY <1>1, <2>1, Durations DEF State, Sound
<1>3. proc' = [proc EXCEPT ![p] = t] /\ lease' = [lease EXCEPT !.left = LeaseTime]
  BY <1>1 DEF Renew
<1>4. lease' \in Lease /\ lease'.holder = p /\ lease'.left = LeaseTime
  BY <1>3, LeaseTypes DEF TypeOK, Renew, StillHolds, Lease
<1>5. proc' \in [Process -> State] /\ LeaseInv'
  BY <1>2, <1>3, <1>4, Granted DEF Renew, StillHolds
<1> QED BY <1>4, <1>5 DEF TypeOK, Renew

\* A renewal that fails may have extended the lease all the same.
LEMMA LoseKeeps ==
  ASSUME TypeOK, LeaseInv, NEW p \in Process, LeaseLost(p) \/ RenewFails(p)
  PROVE  TypeOK' /\ LeaseInv'
<1>1. PICK d : d = Deactivated(proc[p])
  OBVIOUS
<1>2. PICK t : t = [d EXCEPT !.leased = FALSE]
  OBVIOUS
<1>3. proc[p] \in State /\ Sound(proc[p])
  BY OfState
<1>4. d \in State /\ Sound(d) /\ ~d.active
  BY <1>1, <1>3, DeactivatedFollows DEF Follows
<1>5. Follows(proc[p], t)
  BY <1>2, <1>4 DEF Follows, State, Sound
<1>6. proc' = [proc EXCEPT ![p] = t]
  BY <1>1, <1>2 DEF LeaseLost, RenewFails, Lose
<1>7. lease' = lease \/ lease' = [lease EXCEPT !.left = LeaseTime]
  BY DEF LeaseLost, RenewFails
<1>8. lease' \in Lease /\ lease'.holder = lease.holder /\ lease'.left >= lease.left
  BY <1>7, LeaseTypes DEF TypeOK, Lease
<1>9. proc' \in [Process -> State] /\ LeaseInv'
  BY <1>5, <1>6, <1>8, OneProcess
<1>10. faults' \in 0..MaxFaults /\ stalls' \in 0..MaxStalls
  BY FaultTypes DEF LeaseLost, RenewFails, TypeOK
<1> QED BY <1>8, <1>9, <1>10 DEF TypeOK

LEMMA StopKeeps ==
  ASSUME TypeOK, LeaseInv, NEW p \in Process,
         Shutdown(p) \/ StartFails(p) \/ GatewayClosed(p) \/ Kill(p)
  PROVE  TypeOK' /\ LeaseInv'
<1>1. proc[p] \in State /\ Sound(proc[p])
  BY OfState
<1>2. Follows(proc[p], Stopped(proc[p]))
  BY <1>1, StoppedFollows
<1>3. PICK t : proc' = [proc EXCEPT ![p] = t] /\ Follows(proc[p], t)
  <2>1. CASE Shutdown(p)
    <3>1. PICK s : s = Stopped(proc[p]) /\ s \in State /\ Sound(s)
      BY <1>2 DEF Follows
    <3>2. Follows(proc[p], Ended(s))
      BY <1>2, <3>1, EndedFollows, FollowsTransitive
    <3> QED BY <2>1, <3>1, <3>2 DEF Shutdown
  <2>2. CASE StartFails(p)
    <3>1. PICK s : s = Stopped(proc[p]) /\ s \in State /\ Sound(s)
      BY <1>2 DEF Follows
    <3>2. PICK u : u = [s EXCEPT !.phase = "failed"]
      OBVIOUS
    <3>3. Follows(s, u)
      BY <3>1, <3>2, PhaseFollows DEF Phase
    <3>4. Follows(u, Ended(u))
      BY <3>3, EndedFollows DEF Follows
    <3>5. Follows(proc[p], Ended(u))
      BY <1>2, <3>1, <3>3, <3>4, FollowsTransitive
    <3> QED BY <2>2, <3>1, <3>2, <3>5 DEF StartFails
  <2>3. CASE GatewayClosed(p)
    <3>1. PICK u : u = [proc[p] EXCEPT !.closing = FALSE]
      OBVIOUS
    <3>2. Follows(proc[p], u)
      BY <1>1, <3>1, FlagFollows
    <3>3. Follows(proc[p], Ended(u))
      BY <3>2, EndedFollows, FollowsTransitive DEF Follows
    <3> QED BY <2>3, <3>1, <3>3 DEF GatewayClosed
  <2>4. CASE Kill(p)
    BY <2>4, GoneFollows DEF Kill
  <2> QED BY <2>1, <2>2, <2>3, <2>4
<1>4. lease' = lease
  BY DEF Shutdown, StartFails, GatewayClosed, Kill
<1>5. lease' \in Lease /\ lease'.holder = lease.holder /\ lease'.left >= lease.left
  BY <1>4 DEF TypeOK, Lease
<1>6. proc' \in [Process -> State] /\ LeaseInv'
  BY <1>3, <1>5, OneProcess
<1>7. faults' \in 0..MaxFaults /\ stalls' \in 0..MaxStalls
  BY FaultTypes DEF Shutdown, StartFails, GatewayClosed, Kill, TypeOK
<1> QED BY <1>5, <1>6, <1>7 DEF TypeOK

LEMMA ReleaseKeeps ==
  ASSUME TypeOK, LeaseInv, NEW p \in Process, Release(p)
  PROVE  TypeOK' /\ LeaseInv'
<1>1. proc[p] \in State /\ Sound(proc[p]) /\ proc[p].deleting
  BY OfState DEF Release
<1>2. PICK u : u = [proc[p] EXCEPT !.deleting = FALSE]
  OBVIOUS
<1>3. Follows(proc[p], u) /\ ~u.leased
  BY <1>1, <1>2, FlagFollows DEF State, Sound
<1>4. PICK t : t = Ended(u)
  OBVIOUS
<1>5. Follows(u, t)
  BY <1>3, <1>4, EndedFollows DEF Follows
<1>6. Follows(proc[p], t) /\ ~t.leased
  BY <1>3, <1>5, FollowsTransitive DEF Follows
<1>7. proc' = [proc EXCEPT ![p] = t]
  BY <1>2, <1>4 DEF Release
<1>8. \/ lease' = lease
      \/ lease.holder = p /\ lease' = [holder |-> NoProcess, left |-> 0]
  BY DEF Release
<1>9. /\ lease' \in Lease
      /\ \/ lease'.holder = lease.holder /\ lease'.left >= lease.left
         \/ lease.holder = p
  BY <1>8, LeaseTypes DEF TypeOK, Lease
<1>10. proc' \in [Process -> State] /\ LeaseInv'
  BY <1>6, <1>7, <1>9, OneProcess
<1>11. faults' \in 0..MaxFaults /\ stalls' \in 0..MaxStalls
  BY FaultTypes DEF Release, TypeOK
<1> QED BY <1>9, <1>10, <1>11 DEF TypeOK

-----------------------------------------------------------------------------
(* Time.                                                                   *)

\* The flags of a process and its clocks after a unit of time.
LEMMA UnitOfProcess ==
  ASSUME NEW s \in State, Sound(s)
  PROVE  /\ Older(s) \in State /\ Sound(Older(s)) /\ Older(s).leased = s.leased
         /\ Older(s).since = IF s.leased /\ s.since <= MaxSince THEN s.since + 1 ELSE s.since
<1>1. PICK n : n = IF s.leased /\ s.since <= MaxSince THEN s.since + 1 ELSE s.since
  OBVIOUS
<1>2. PICK m : m = Less(s.wait)
  OBVIOUS
<1>3. n \in 0..(MaxSince + 1) /\ m \in 0..WaitTime
  BY <1>1, <1>2, Durations DEF State
<1>4. PICK t : t = [s EXCEPT !.wait = m, !.since = n]
  OBVIOUS
<1>5. t \in State /\ Sound(t) /\ t.leased = s.leased /\ t.since = n
  BY <1>3, <1>4 DEF State, Sound
<1>6. Older(s) = t
  BY <1>1, <1>2, <1>4 DEF Older
<1> QED BY <1>1, <1>5, <1>6

LEMMA TimeKeeps ==
  ASSUME TypeOK, LeaseInv, UnitPasses,
         faults' \in 0..MaxFaults, stalls' \in 0..MaxStalls
  PROVE  TypeOK' /\ LeaseInv'
<1>1. lease' = [lease EXCEPT !.left = Less(@)]
  BY DEF UnitPasses
<1>2. lease' \in Lease /\ lease'.holder = lease.holder /\ lease'.left = Less(lease.left)
  BY <1>1, LeaseTypes DEF TypeOK, Lease
<1>3. lease.left \in Nat /\ lease'.left \in Nat /\ lease.left <= lease'.left + 1
  BY <1>2 DEF TypeOK, Lease, Less
<1>4. ASSUME NEW p \in Process
      PROVE  /\ proc'[p] \in State /\ Sound(proc'[p]) /\ proc'[p].leased = proc[p].leased
             /\ proc'[p].since = IF proc[p].leased /\ proc[p].since <= MaxSince
                                 THEN proc[p].since + 1 ELSE proc[p].since
  BY OfState, UnitOfProcess DEF UnitPasses
<1>5. proc' \in [Process -> State]
  BY <1>4 DEF UnitPasses
<1>6. ASSUME NEW p \in Process PROVE LeaseAccount(p)'
  <2>1. Sound(proc'[p])
    BY <1>4
  <2>2. ASSUME proc'[p].leased, proc'[p].since <= MaxSince
        PROVE  lease'.holder = p /\ lease'.left + proc'[p].since >= LeaseTime
    <3>1. proc[p].since \in Nat
      BY Durations DEF TypeOK, State
    <3>2. proc[p].leased /\ proc[p].since <= MaxSince /\ proc'[p].since = proc[p].since + 1
      BY <1>4, <2>2, <3>1, Durations
    <3>3. lease.holder = p /\ lease.left + proc[p].since >= LeaseTime
      BY <3>2 DEF LeaseInv, LeaseAccount
    <3> QED BY <1>2, <1>3, <3>1, <3>2, <3>3
  <2> QED BY <2>1, <2>2 DEF LeaseAccount, Sound
<1> QED BY <1>2, <1>5, <1>6 DEF TypeOK, LeaseInv

LEMMA ClockKeeps ==
  ASSUME TypeOK, LeaseInv, Elapse \/ Stall
  PROVE  TypeOK' /\ LeaseInv'
<1>1. faults' \in 0..MaxFaults /\ stalls' \in 0..MaxStalls
  BY DEF Elapse, Stall, TypeOK
<1> QED BY <1>1, TimeKeeps DEF Elapse, Stall

-----------------------------------------------------------------------------
(* The theorems.                                                           *)

LEMMA LeaseStep == TypeOK /\ LeaseInv /\ [Next]_vars => TypeOK' /\ LeaseInv'
<1> SUFFICES ASSUME TypeOK, LeaseInv, [Next]_vars PROVE TypeOK' /\ LeaseInv'
  OBVIOUS
<1>1. CASE UNCHANGED vars
  BY <1>1 DEF vars, TypeOK, LeaseInv, LeaseAccount, Sound
<1>2. CASE Elapse \/ Stall
  BY <1>2, ClockKeeps
<1>3. ASSUME NEW p \in Process,
             \/ Boot(p) \/ Starting(p) \/ Ending(p) \/ Renewing(p)
             \/ Shutdown(p) \/ StartFails(p) \/ Kill(p) \/ RenewFails(p)
      PROVE  TypeOK' /\ LeaseInv'
  <2>1. CASE Boot(p) \/ GiveUp(p) \/ Serve(p) \/ Connect(p) \/ Started(p)
    BY <2>1, StartKeeps
  <2>2. CASE Acquire(p)
    BY <2>2, AcquireKeeps
  <2>3. CASE Renew(p)
    BY <2>3, RenewKeeps
  <2>4. CASE LeaseLost(p) \/ RenewFails(p)
    BY <2>4, LoseKeeps
  <2>5. CASE Shutdown(p) \/ StartFails(p) \/ GatewayClosed(p) \/ Kill(p)
    BY <2>5, StopKeeps
  <2>6. CASE Release(p)
    BY <2>6, ReleaseKeeps
  <2> QED BY <1>3, <2>1, <2>2, <2>3, <2>4, <2>5, <2>6 DEF Starting, Ending, Renewing
<1> QED BY <1>1, <1>2, <1>3 DEF Next

LEMMA LeaseInductive == Spec => [](TypeOK /\ LeaseInv)
<1> QED BY InitTypes, LeaseStep, PTL DEF Spec

\* Every value in the lease row, the flags of the processes and their clocks
\* stays within its range.
THEOREM LeaseTypeCorrect == Spec => []TypeOK
<1> QED BY LeaseInductive, PTL

\* Whatever starts, stops, kills and failed renewals happen, a process that
\* is active and has not stalled past its renewal holds the unexpired lease
\* (jobs/worker-lease.ts and app.ts).
THEOREM ActiveOnlyWithLease == Spec => []ActiveHoldsLease
<1>1. TypeOK /\ LeaseInv => ActiveHoldsLease
  <2> SUFFICES ASSUME TypeOK, LeaseInv, NEW p \in Process,
                      proc[p].active, proc[p].since <= MaxSince
               PROVE  lease.holder = p /\ lease.left > 0
    BY DEF ActiveHoldsLease
  <2>1. proc[p].since \in Nat /\ lease.left \in Nat
    BY Durations DEF TypeOK, State, Lease
  <2>2. lease.holder = p /\ lease.left + proc[p].since >= LeaseTime
    BY DEF LeaseInv, LeaseAccount, Sound
  <2> QED BY <2>1, <2>2, PromptAssumption DEF MaxSince
<1> QED BY <1>1, LeaseInductive, PTL

=============================================================================
