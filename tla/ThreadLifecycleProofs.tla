----------------------- MODULE ThreadLifecycleProofs -----------------------
(***************************************************************************)
(* ThreadLifecycle, proved for every number of acts, faults, runs and      *)
(* epochs: whatever the relay does to the thread and reads back of it, the *)
(* issue is as GitHub users left it while nobody has acted in Discord; and *)
(* once everything has settled the link is what the issue is, and so is    *)
(* the thread if nobody but the relay has changed it.  PeopleInv is about  *)
(* who acts, LinkInv about the link, HistoryInv about how the issue came   *)
(* to be what it is, EnqueueInv and Running about the handlers, ShowInv    *)
(* about what is still to be done of the thread.                           *)
(***************************************************************************)
EXTENDS ThreadLifecycle, SequenceTheorems, TLAPS

USE LifecycleAssumption

\* The operations of a partition are of two kinds, each with actions of its own.
OnThreadOp == {op \in Operation : op.to = "discord" /\ op.action \in ToDiscord}
OnIssueOp  == {op \in Operation : op.to = "github" /\ op.action \in ToGitHub}

\* A handler runs on a row that is still there, and the classifier on a job.
ClaimsHeld ==
  /\ ops \in Seq(OnThreadOp \cup OnIssueOp)
  /\ handler.job = "operation" => ops # <<>>
  /\ auditor # Waiting => auditor.job \in 1..Len(jobs)

\* What a handler is about to do is there to be done.
HandlerAgrees ==
  /\ handler.todo \in Seq(OnThreadOp)
  /\ handler.step = "enqueue" => handler.todo # <<>>
  /\ handler.step = "edit" => handler.edits # <<>>
  /\ handler.step \in {"notice", "write", "record"} => handler.op \in OnIssueOp
  /\ handler.step = "record" => handler.op.action # "labels"

\* While nobody has acted in Discord there is nothing that could change the issue: no
\* message, no operation on it, and no trace of a person in the audit log.
NobodyActed ==
  humanActs = 0 =>
    /\ posts = 0 /\ ops \in Seq(OnThreadOp)
    /\ handler.step \notin {"notice", "write", "record"}
    /\ \A t \in 0..MaxTime : log[t].newest # "human" /\ "human" \notin log[t].actors

PeopleInv == TypeOK /\ ClaimsHeld /\ HandlerAgrees /\ NobodyActed /\ OnlyPeopleChangeIssue

-----------------------------------------------------------------------------
(* Types of the parts an action writes.                                    *)

LEMMA OnIssueTypes ==
  ASSUME NEW action \in ToGitHub, NEW title \in Title
  PROVE  OnIssue(action, title) \in OnIssueOp
<1>1. [NoIssue EXCEPT !.title = title] \in Issue
  BY DEF NoIssue, Issue, State, Title
<1> QED BY <1>1 DEF OnIssue, OnIssueOp, Operation

LEMMA NoneTypes ==
  /\ NoIssue \in Issue /\ NoEvent \in Event /\ NoOp \in Operation
  /\ NotSeen \in [archived : BOOLEAN, locked : BOOLEAN, known : BOOLEAN]
<1>1. NoIssue \in Issue /\ NotSeen \in [archived : BOOLEAN, locked : BOOLEAN, known : BOOLEAN]
  BY DEF NoIssue, Issue, State, Title, NotSeen
<1>2. NoEvent \in Event
  BY <1>1 DEF NoEvent, Event, IssueEvent
<1>3. NoOp \in Operation
  <2>1. "labels" \in ToGitHub /\ "other" \in Title
    BY DEF ToGitHub, Title
  <2> QED BY <2>1, OnIssueTypes DEF NoOp, OnIssueOp
<1> QED BY <1>1, <1>2, <1>3

LEMMA IdleTypes ==
  /\ Idle \in Handler /\ Idle.job = "none" /\ Idle.step = "none" /\ Idle.todo = <<>>
  /\ Waiting \in Auditor
BY NoneTypes DEF Idle, Handler, Waiting, Auditor

LEMMA AnnounceTypes ==
  ASSUME TypeOK, NEW kind \in IssueEvent, NEW after \in Issue, NEW own \in BOOLEAN,
         Announce(kind, after, own)
  PROVE  /\ issue' = after /\ events' \in SUBSET Event /\ issued' \in 0..MaxEvents
<1>1. CASE after = issue /\ kind # "comment"
  BY <1>1 DEF Announce, github, TypeOK
<1>2. CASE ~(after = issue /\ kind # "comment")
  <2> DEFINE new == [kind |-> kind, issue |-> after, own |-> own, id |-> issued',
                     row |-> issued', seen |-> NotSeen]
  <2>1. issued' \in 0..MaxEvents /\ issue' = after
    BY <1>2 DEF Announce, TypeOK
  <2>2. new \in Event
    <3>1. issued' \in Nat /\ NotSeen \in [archived : BOOLEAN, locked : BOOLEAN, known : BOOLEAN]
      BY <2>1, NoneTypes
    <3> QED BY <3>1 DEF Event
  <2>3. events' = events \cup {new}
    BY <1>2 DEF Announce
  <2> QED BY <2>1, <2>2, <2>3 DEF TypeOK
<1> QED BY <1>1, <1>2

LEMMA ChangeTypes ==
  ASSUME TypeOK, NEW after \in Thread, Change(after)
  PROVE  thread' \in Thread /\ updates' \in Seq(Thread)
BY AppendProperties DEF Change, TypeOK

LEMMA LogTypes ==
  ASSUME TypeOK, NEW by \in {"relay", "human"}, Log(by)
  PROVE  /\ log' \in [0..MaxTime -> Entry]
         /\ by = "relay" /\ (\A t \in 0..MaxTime : log[t].newest # "human" /\ "human" \notin log[t].actors)
              => \A t \in 0..MaxTime : log'[t].newest # "human" /\ "human" \notin log'[t].actors
BY DEF Log, TypeOK, Entry

LEMMA AppendKinds ==
  ASSUME NEW seq \in Seq(OnThreadOp \cup OnIssueOp), NEW op \in OnThreadOp \cup OnIssueOp
  PROVE  /\ Append(seq, op) \in Seq(OnThreadOp \cup OnIssueOp) /\ Append(seq, op) # <<>>
         /\ seq \in Seq(OnThreadOp) /\ op \in OnThreadOp => Append(seq, op) \in Seq(OnThreadOp)
         /\ seq \in Seq(Operation) => Append(seq, op) \in Seq(Operation)
<1>1. op \in Operation
  BY DEF OnThreadOp, OnIssueOp
<1> QED BY <1>1, AppendProperties

LEMMA RemoveTypes ==
  ASSUME NEW S, NEW seq \in Seq(S), NEW i \in 1..Len(seq)
  PROVE  RemoveAt(seq, i) \in Seq(S)
<1>1. Len(seq) \in Nat /\ \A j \in 1..Len(seq) : seq[j] \in S
  BY LenProperties, ElementOfSeq
<1>2. SubSeq(seq, 1, i - 1) \in Seq(S)
  <2>1. \A j \in 1..(i - 1) : seq[j] \in S
    BY <1>1
  <2> QED BY <2>1, <1>1, SubSeqProperties
<1>3. SubSeq(seq, i + 1, Len(seq)) \in Seq(S)
  <2>1. \A j \in (i + 1)..Len(seq) : seq[j] \in S
    BY <1>1
  <2> QED BY <2>1, <1>1, SubSeqProperties
<1> QED BY <1>2, <1>3, ConcatProperties DEF RemoveAt

LEMMA NobodyTypes ==
  ASSUME PeopleInv, humanActs = 0
  PROVE  /\ issue = wanted /\ posts = 0 /\ ops \in Seq(OnThreadOp)
         /\ handler.step \notin {"notice", "write", "record"}
         /\ \A t \in 0..MaxTime : log[t].newest # "human" /\ "human" \notin log[t].actors
BY DEF PeopleInv, NobodyActed, OnlyPeopleChangeIssue

LEMMA InitPeople == Init => PeopleInv
<1> SUFFICES ASSUME Init PROVE PeopleInv
  OBVIOUS
<1>1. issue \in Issue /\ thread \in Thread /\ link \in Issue /\ wanted \in Issue
  <2>1. issue \in [state : {"open"}, locked : BOOLEAN, title : {"long"}]
    BY DEF Init
  <2>2. issue \in Issue /\ issue.title = "long" /\ issue.locked \in BOOLEAN
    BY <2>1 DEF Issue, State, Title
  <2>3. thread \in Thread
    BY <2>2 DEF Init, Thread, Shown, Title
  <2> QED BY <2>2, <2>3 DEF Init
<1>2. /\ events \in SUBSET Event /\ issued \in 0..MaxEvents
      /\ plan \in [archived : BOOLEAN, locked : BOOLEAN, known : BOOLEAN]
      /\ updates \in Seq(Thread) /\ posts \in Nat /\ ops \in Seq(Operation) /\ jobs \in Seq(Job)
  BY NoneTypes DEF Init
<1>3. keys \in SUBSET (ToDiscord \X Nat \X Title)
  BY DEF Init, ToDiscord, Title
<1>4. log \in [0..MaxTime -> Entry] /\ now \in 0..MaxTime
  BY DEF Init, Entry
<1>5. handler \in Handler /\ auditor \in Auditor
  BY IdleTypes DEF Init
<1>6. /\ acts \in 0..MaxActs /\ humanActs \in 0..MaxHumanActs /\ idles \in 0..MaxIdles
      /\ runs \in 0..MaxRuns /\ faults \in 0..MaxFaults /\ heard \in Nat
  BY DEF Init
<1>7. late \in BOOLEAN /\ lost \in BOOLEAN
  BY Zenon DEF Init
<1>8. TypeOK
  BY <1>1, <1>2, <1>3, <1>4, <1>5, <1>6, <1>7 DEF TypeOK
<1>9. ClaimsHeld /\ HandlerAgrees /\ NobodyActed /\ OnlyPeopleChangeIssue
  BY IdleTypes DEF Init, ClaimsHeld, HandlerAgrees, NobodyActed, OnlyPeopleChangeIssue
<1> QED BY <1>8, <1>9 DEF PeopleInv

-----------------------------------------------------------------------------
(* GitHub users, people and Discord itself.                                *)

LEMMA UserActsKeep ==
  ASSUME PeopleInv, NEW kind \in IssueEvent, NEW after \in Issue, UserActs(kind, after)
  PROVE  PeopleInv'
<1>1. /\ issue' = after /\ events' \in SUBSET Event /\ issued' \in 0..MaxEvents
      /\ wanted' = after /\ acts' \in 0..MaxActs
  <2>1. TypeOK /\ FALSE \in BOOLEAN /\ Announce(kind, after, FALSE)
    BY DEF UserActs, PeopleInv
  <2>2. issue' = after /\ events' \in SUBSET Event /\ issued' \in 0..MaxEvents
    BY <2>1, AnnounceTypes
  <2> QED BY <2>1, <2>2 DEF UserActs, TypeOK
<1>2. UNCHANGED <<link, plan, posts, ops, keys, audit, discord, now, handler, humanActs, idles, runs,
                  faults, heard, late, lost>>
  BY DEF UserActs
<1>3. TypeOK'
  BY <1>1, <1>2 DEF PeopleInv, TypeOK, audit, discord
<1>4. ClaimsHeld' /\ HandlerAgrees' /\ NobodyActed' /\ OnlyPeopleChangeIssue'
  BY <1>1, <1>2 DEF PeopleInv, ClaimsHeld, HandlerAgrees, NobodyActed, OnlyPeopleChangeIssue, audit,
     discord
<1> QED BY <1>3, <1>4 DEF PeopleInv

LEMMA UsersKeep ==
  ASSUME PeopleInv,
         UserCloses \/ UserReopens \/ UserLocks \/ UserUnlocks \/ UserRetitles \/ UserComments
  PROVE  PeopleInv'
<1>1. issue \in Issue
  BY DEF PeopleInv, TypeOK
<1>2. PICK kind \in IssueEvent, after \in Issue : UserActs(kind, after)
  BY <1>1 DEF UserCloses, UserReopens, UserLocks, UserUnlocks, UserRetitles, UserComments,
     IssueEvent, Issue, State, Title
<1> QED BY <1>2, UserActsKeep

\* What changes the thread beside the relay: people, whose acts are counted, or Discord.
LEMMA ThreadChangesKeep ==
  ASSUME PeopleInv, NEW after \in Thread, Change(after), DiscordOnly,
         log' \in [0..MaxTime -> Entry], posts' \in Nat,
         humanActs' \in 0..MaxHumanActs, idles' \in 0..MaxIdles,
         humanActs' # 0 \/ UNCHANGED <<log, posts, humanActs>>
  PROVE  PeopleInv'
<1>1. thread' \in Thread /\ updates' \in Seq(Thread)
  BY ChangeTypes DEF PeopleInv
<1>2. TypeOK'
  BY <1>1 DEF PeopleInv, TypeOK, DiscordOnly, github, audit
<1>3. ClaimsHeld' /\ HandlerAgrees'
  BY DEF PeopleInv, ClaimsHeld, HandlerAgrees, DiscordOnly, audit
<1>4. NobodyActed' /\ OnlyPeopleChangeIssue'
  BY DEF PeopleInv, NobodyActed, OnlyPeopleChangeIssue, DiscordOnly, github
<1> QED BY <1>2, <1>3, <1>4 DEF PeopleInv

LEMMA ModeratorKeeps ==
  ASSUME PeopleInv,
         ModeratorArchives \/ ModeratorLocks \/ ModeratorRenames \/ ModeratorTags
  PROVE  PeopleInv'
<1>1. thread \in Thread
  BY DEF PeopleInv, TypeOK
<1>2. PICK after \in Thread : ModeratorActs(after)
  BY <1>1 DEF ModeratorArchives, ModeratorLocks, ModeratorRenames, ModeratorTags, Thread, Title
<1>3. log' \in [0..MaxTime -> Entry]
  BY <1>2, LogTypes DEF ModeratorActs, PeopleInv
<1>4. /\ humanActs' \in 0..MaxHumanActs /\ humanActs' # 0
      /\ posts' \in Nat /\ idles' \in 0..MaxIdles
  BY <1>2 DEF ModeratorActs, PeopleInv, TypeOK
<1> QED BY <1>2, <1>3, <1>4, ThreadChangesKeep DEF ModeratorActs

LEMMA PersonPostsKeeps ==
  ASSUME PeopleInv, PersonPosts
  PROVE  PeopleInv'
<1>1. [thread EXCEPT !.archived = FALSE] \in Thread
  BY DEF PeopleInv, TypeOK, Thread
<1>2. humanActs' \in 0..MaxHumanActs /\ humanActs' # 0 /\ posts' \in Nat
  <2>1. humanActs < MaxHumanActs /\ humanActs' = humanActs + 1 /\ posts' = posts + 1
    BY Zenon DEF PersonPosts
  <2> QED BY <2>1 DEF PeopleInv, TypeOK
<1>3. log' \in [0..MaxTime -> Entry] /\ idles' \in 0..MaxIdles
  BY Zenon DEF PersonPosts, PeopleInv, TypeOK
<1> QED BY <1>1, <1>2, <1>3, ThreadChangesKeep DEF PersonPosts

LEMMA InactivityKeeps ==
  ASSUME PeopleInv, Inactivity
  PROVE  PeopleInv'
<1>1. [thread EXCEPT !.archived = TRUE] \in Thread
  BY DEF PeopleInv, TypeOK, Thread
<1>2. idles' \in 0..MaxIdles
  <2>1. idles < MaxIdles /\ idles' = idles + 1
    BY Zenon DEF Inactivity
  <2> QED BY <2>1 DEF PeopleInv, TypeOK
<1>3. log' \in [0..MaxTime -> Entry] /\ humanActs' \in 0..MaxHumanActs /\ posts' \in Nat
  BY Zenon DEF Inactivity, PeopleInv, TypeOK
<1> QED BY <1>1, <1>2, <1>3, ThreadChangesKeep DEF Inactivity

LEMMA CommandKeeps ==
  ASSUME PeopleInv, CommandClose
  PROVE  PeopleInv'
<1>1. OnIssue("close", "other") \in OnIssueOp
  BY OnIssueTypes DEF ToGitHub, Title
<1>2. /\ ops' \in Seq(OnThreadOp \cup OnIssueOp) /\ ops' # <<>> /\ ops' \in Seq(Operation)
  BY <1>1, AppendKinds DEF CommandClose, PeopleInv, TypeOK, ClaimsHeld
<1>3. humanActs' \in 0..MaxHumanActs /\ humanActs' # 0
  BY DEF CommandClose, PeopleInv, TypeOK
<1>4. TypeOK'
  BY <1>2, <1>3 DEF CommandClose, PeopleInv, TypeOK, github, discord, audit, history
<1>5. ClaimsHeld' /\ HandlerAgrees' /\ NobodyActed' /\ OnlyPeopleChangeIssue'
  BY <1>2, <1>3 DEF CommandClose, PeopleInv, ClaimsHeld, HandlerAgrees, NobodyActed,
     OnlyPeopleChangeIssue, audit
<1> QED BY <1>4, <1>5 DEF PeopleInv

LEMMA TickKeeps ==
  ASSUME PeopleInv, Tick
  PROVE  PeopleInv'
<1>1. TypeOK'
  BY DEF Tick, PeopleInv, TypeOK, github, discord, audit, bounds, history
<1>2. ClaimsHeld' /\ HandlerAgrees' /\ NobodyActed' /\ OnlyPeopleChangeIssue'
  BY DEF Tick, PeopleInv, ClaimsHeld, HandlerAgrees, NobodyActed, OnlyPeopleChangeIssue, github,
     discord, audit, bounds, history
<1> QED BY <1>1, <1>2 DEF PeopleInv

-----------------------------------------------------------------------------
(* The reconciliation.                                                     *)

LEMMA ReadThreadKeeps ==
  ASSUME PeopleInv, ReadThread
  PROVE  PeopleInv'
<1>1. plan' \in [archived : BOOLEAN, locked : BOOLEAN, known : BOOLEAN] /\ runs' \in 0..MaxRuns
  BY DEF ReadThread, PeopleInv, TypeOK, Thread
<1>2. TypeOK'
  BY <1>1 DEF ReadThread, PeopleInv, TypeOK, github, discord, audit, history
<1>3. ClaimsHeld' /\ HandlerAgrees' /\ NobodyActed' /\ OnlyPeopleChangeIssue'
  BY DEF ReadThread, PeopleInv, ClaimsHeld, HandlerAgrees, NobodyActed, OnlyPeopleChangeIssue, github,
     discord, audit, history
<1> QED BY <1>2, <1>3 DEF PeopleInv

LEMMA EnqueueSnapshotKeeps ==
  ASSUME PeopleInv, EnqueueSnapshot
  PROVE  PeopleInv'
<1> DEFINE new == [kind |-> "snapshot", issue |-> issue, own |-> FALSE, id |-> issued,
                   row |-> MaxEvents + runs, seen |-> plan]
<1>1. new \in Event
  <2>1. issued \in Nat /\ MaxEvents + runs \in Nat /\ issue \in Issue
        /\ plan \in [archived : BOOLEAN, locked : BOOLEAN, known : BOOLEAN]
    BY DEF PeopleInv, TypeOK
  <2> QED BY <2>1 DEF Event, IssueEvent
<1>2. events' \in SUBSET Event
  BY <1>1 DEF EnqueueSnapshot, PeopleInv, TypeOK
<1>3. plan' \in [archived : BOOLEAN, locked : BOOLEAN, known : BOOLEAN]
  BY NoneTypes DEF EnqueueSnapshot
<1>4. TypeOK'
  BY <1>2, <1>3 DEF EnqueueSnapshot, PeopleInv, TypeOK, discord, audit, bounds, history
<1>5. ClaimsHeld' /\ HandlerAgrees' /\ NobodyActed' /\ OnlyPeopleChangeIssue'
  BY DEF EnqueueSnapshot, PeopleInv, ClaimsHeld, HandlerAgrees, NobodyActed, OnlyPeopleChangeIssue,
     discord, audit, bounds, history
<1> QED BY <1>4, <1>5 DEF PeopleInv

-----------------------------------------------------------------------------
(* The worker: claims, ends and failures.                                  *)

LEMMA ClaimEventKeeps ==
  ASSUME PeopleInv, NEW event \in events, ClaimEvent(event)
  PROVE  PeopleInv'
<1>1. event \in Event
  BY DEF PeopleInv, TypeOK
<1>2. /\ handler' \in Handler /\ handler'.job = "event" /\ handler'.step = "link"
      /\ handler'.todo = <<>>
  BY <1>1, IdleTypes DEF ClaimEvent, Handler
<1>3. TypeOK'
  BY <1>2 DEF ClaimEvent, WorkOnly, PeopleInv, TypeOK, github, discord, audit, bounds, history
<1>4. ClaimsHeld' /\ HandlerAgrees' /\ NobodyActed' /\ OnlyPeopleChangeIssue'
  BY <1>2 DEF ClaimEvent, WorkOnly, PeopleInv, ClaimsHeld, HandlerAgrees, NobodyActed,
     OnlyPeopleChangeIssue, github, discord, audit, bounds, history
<1> QED BY <1>3, <1>4 DEF PeopleInv

\* The row a handler leaves settled, whatever else is counted or lost.
LEMMA SettleKeeps ==
  ASSUME PeopleInv, SettleRow, WorkOnly, faults' \in 0..MaxFaults, lost' \in BOOLEAN
  PROVE  PeopleInv'
<1>1. events' \in SUBSET Event
  BY DEF SettleRow, PeopleInv, TypeOK
<1>2. ops' = ops \/ (ops # <<>> /\ ops' = Tail(ops))
  BY DEF SettleRow, PeopleInv, ClaimsHeld
<1>3. /\ ops' \in Seq(Operation) /\ ops' \in Seq(OnThreadOp \cup OnIssueOp)
      /\ ops \in Seq(OnThreadOp) => ops' \in Seq(OnThreadOp)
  <2>1. ops \in Seq(Operation) /\ ops \in Seq(OnThreadOp \cup OnIssueOp)
    BY DEF PeopleInv, TypeOK, ClaimsHeld
  <2> QED BY <1>2, <2>1, HeadTailProperties
<1>4. TypeOK'
  BY <1>1, <1>3, IdleTypes DEF SettleRow, WorkOnly, PeopleInv, TypeOK, discord, audit, bounds
<1>5. ClaimsHeld' /\ HandlerAgrees' /\ NobodyActed' /\ OnlyPeopleChangeIssue'
  BY <1>3, IdleTypes DEF SettleRow, WorkOnly, PeopleInv, ClaimsHeld, HandlerAgrees, NobodyActed,
     OnlyPeopleChangeIssue, discord, audit, bounds
<1> QED BY <1>4, <1>5 DEF PeopleInv

LEMMA EndKeeps ==
  ASSUME PeopleInv, Finish \/ GiveUp
  PROVE  PeopleInv'
<1>1. SettleRow /\ WorkOnly
  BY DEF Finish, GiveUp
<1>2. faults' \in 0..MaxFaults
  BY DEF Finish, GiveUp, PeopleInv, TypeOK
<1>3. lost' \in BOOLEAN
  BY Zenon DEF Finish, GiveUp, PeopleInv, TypeOK
<1> QED BY <1>1, <1>2, <1>3, SettleKeeps

LEMMA InterruptKeeps ==
  ASSUME PeopleInv, Interrupt
  PROVE  PeopleInv'
<1>1. faults' \in 0..MaxFaults
  BY DEF Interrupt, PeopleInv, TypeOK
<1>2. lost' \in BOOLEAN
  BY Zenon DEF Interrupt, PeopleInv, TypeOK
<1>3. plan' \in [archived : BOOLEAN, locked : BOOLEAN, known : BOOLEAN]
  <2>1. plan \in [archived : BOOLEAN, locked : BOOLEAN, known : BOOLEAN]
    BY DEF PeopleInv, TypeOK
  <2>2. plan' = plan \/ plan' = NotSeen
    BY DEF Interrupt
  <2> QED BY <2>1, <2>2, NoneTypes
<1>4. \/ auditor' = auditor /\ jobs' = jobs
      \/ auditor' = Waiting /\ auditor # Waiting /\ jobs' = RemoveAt(jobs, auditor.job)
  BY DEF Interrupt
<1>5. /\ auditor' \in Auditor /\ jobs' \in Seq(Job)
      /\ auditor' # Waiting => auditor'.job \in 1..Len(jobs')
  <2>1. CASE auditor' = auditor /\ jobs' = jobs
    BY <2>1 DEF PeopleInv, TypeOK, ClaimsHeld
  <2>2. CASE auditor' = Waiting /\ auditor # Waiting /\ jobs' = RemoveAt(jobs, auditor.job)
    <3>1. auditor.job \in 1..Len(jobs) /\ jobs \in Seq(Job)
      BY <2>2 DEF PeopleInv, TypeOK, ClaimsHeld
    <3> QED BY <2>2, <3>1, RemoveTypes, IdleTypes
  <2> QED BY <1>4, <2>1, <2>2
<1>6. handler' = Idle
  BY DEF Interrupt
<1>7. TypeOK'
  BY <1>1, <1>2, <1>3, <1>5, <1>6, IdleTypes DEF Interrupt, PeopleInv, TypeOK, github, discord, bounds
<1>8. ClaimsHeld' /\ HandlerAgrees' /\ NobodyActed' /\ OnlyPeopleChangeIssue'
  BY <1>5, <1>6, IdleTypes DEF Interrupt, PeopleInv, ClaimsHeld, HandlerAgrees, NobodyActed,
     OnlyPeopleChangeIssue, github, discord, bounds
<1> QED BY <1>7, <1>8 DEF PeopleInv

LEMMA LoseEventKeeps ==
  ASSUME PeopleInv, LoseEvent
  PROVE  PeopleInv'
<1>1. events' \in SUBSET Event /\ faults' \in 0..MaxFaults
  BY DEF LoseEvent, PeopleInv, TypeOK
<1>2. lost' \in BOOLEAN
  BY Zenon DEF LoseEvent
<1>3. TypeOK'
  BY <1>1, <1>2 DEF LoseEvent, WorkOnly, PeopleInv, TypeOK, discord, audit, bounds
<1>4. ClaimsHeld' /\ HandlerAgrees' /\ NobodyActed' /\ OnlyPeopleChangeIssue'
  BY DEF LoseEvent, WorkOnly, PeopleInv, ClaimsHeld, HandlerAgrees, NobodyActed,
     OnlyPeopleChangeIssue, discord, audit, bounds
<1> QED BY <1>3, <1>4 DEF PeopleInv

-----------------------------------------------------------------------------
(* The events of the issue.                                                *)

LEMMA OnThreadTypes ==
  ASSUME NEW event \in Event, NEW action \in ToDiscord
  PROVE  OnThread(action, event) \in OnThreadOp
BY DEF OnThread, OnThreadOp, Operation, Event

LEMMA RepairTypes ==
  ASSUME NEW event \in Event, NEW previous \in Issue
  PROVE  Repairs(event, previous) \in Seq(OnThreadOp)
<1> DEFINE after    == event.issue
           seen     == event.seen
           mismatch == seen.known /\ IF after.state = "closed" THEN ~seen.archived
                                     ELSE ~after.locked /\ (seen.archived \/ seen.locked)
           state == IF previous.state # after.state \/ mismatch
                    THEN <<OnThread(IF after.state = "closed" THEN "closed" ELSE "reopened", event)>>
                    ELSE <<>>
           lock  == IF previous.locked # after.locked \/ (seen.known /\ seen.locked # after.locked)
                    THEN <<OnThread(IF after.locked THEN "locked" ELSE "unlocked", event)>> ELSE <<>>
<1>1. /\ OnThread("closed", event) \in OnThreadOp /\ OnThread("reopened", event) \in OnThreadOp
      /\ OnThread("locked", event) \in OnThreadOp /\ OnThread("unlocked", event) \in OnThreadOp
  BY OnThreadTypes DEF ToDiscord
<1>2. state \in Seq(OnThreadOp) /\ lock \in Seq(OnThreadOp)
  BY <1>1
<1>3. Repairs(event, previous) = state \o lock
  BY DEF Repairs
<1> HIDE DEF state, lock
<1> QED BY <1>2, <1>3, ConcatProperties

LEMMA IntendedTypes ==
  ASSUME NEW event \in Event, NEW previous \in Issue
  PROVE  Intended(event, previous) \in Seq(OnThreadOp) /\ Intended(event, previous) # <<>>
<1>1. /\ OnThread("comment", event) \in OnThreadOp /\ OnThread("title", event) \in OnThreadOp
      /\ OnThread("activity", event) \in OnThreadOp
      /\ event.kind \in ToDiscord => OnThread(event.kind, event) \in OnThreadOp
  BY OnThreadTypes DEF ToDiscord
<1>2. Repairs(event, previous) \in Seq(OnThreadOp)
  BY RepairTypes
<1>3. /\ <<OnThread("title", event)>> \o Repairs(event, previous) \in Seq(OnThreadOp)
      /\ <<OnThread("title", event)>> \o Repairs(event, previous) # <<>>
  BY <1>1, <1>2, ConcatProperties, ConcatEqualIffEmpty
<1>4. CASE event.kind = "comment"
  BY <1>1, <1>4 DEF Intended
<1>5. CASE event.kind = "snapshot"
  BY <1>3, <1>5 DEF Intended
<1>6. CASE event.kind = "edited"
  <2> DEFINE feed == IF event.own THEN <<>> ELSE <<OnThread("activity", event)>>
  <2>1. feed \in Seq(OnThreadOp)
    BY <1>1
  <2>2. Intended(event, previous) = (<<OnThread("title", event)>> \o Repairs(event, previous)) \o feed
    BY <1>6 DEF Intended
  <2> HIDE DEF feed
  <2> QED BY <1>3, <2>1, <2>2, ConcatProperties, ConcatEqualIffEmpty
<1>7. CASE event.kind \in {"closed", "reopened", "locked", "unlocked"}
  BY <1>1, <1>7 DEF Intended, ToDiscord
<1> QED BY <1>4, <1>5, <1>6, <1>7 DEF Event, IssueEvent

LEMMA LinkIssueKeeps ==
  ASSUME PeopleInv, LinkIssue
  PROVE  PeopleInv'
<1> DEFINE event == handler.event
<1>1. handler \in Handler /\ event \in Event /\ link \in Issue
  BY DEF PeopleInv, TypeOK, Handler
<1>2. Intended(event, link) \in Seq(OnThreadOp) /\ Intended(event, link) # <<>>
  BY <1>1, IntendedTypes
<1>3. Intended(event, link) \in Seq(Operation)
  BY <1>2, SeqMonotonic DEF OnThreadOp
<1>4. /\ handler' = [handler EXCEPT !.step = "enqueue", !.todo = Intended(event, link)]
      /\ \/ UNCHANGED <<link, heard, late>>
         \/ Store(event)
  BY DEF LinkIssue
<1>5. /\ handler' \in Handler /\ handler'.step = "enqueue" /\ handler'.job = handler.job
      /\ handler'.todo \in Seq(OnThreadOp) /\ handler'.todo # <<>>
  BY <1>1, <1>2, <1>3, <1>4 DEF Handler
<1>6. link' \in Issue /\ heard' \in Nat
  BY <1>1, <1>4 DEF Store, Event, PeopleInv, TypeOK
<1>7. late' \in BOOLEAN
  BY <1>4, Zenon DEF Store, PeopleInv, TypeOK
<1>8. TypeOK'
  BY <1>5, <1>6, <1>7 DEF LinkIssue, WorkOnly, PeopleInv, TypeOK, github, discord, audit, bounds
<1>9. ClaimsHeld' /\ HandlerAgrees' /\ NobodyActed' /\ OnlyPeopleChangeIssue'
  BY <1>5 DEF LinkIssue, WorkOnly, PeopleInv, ClaimsHeld, HandlerAgrees, NobodyActed,
     OnlyPeopleChangeIssue, github, discord, audit, bounds
<1> QED BY <1>8, <1>9 DEF PeopleInv

LEMMA KeyTypes ==
  ASSUME NEW op \in OnThreadOp
  PROVE  KeyOf(op) \in ToDiscord \X Nat \X Title
<1>1. op.action \in ToDiscord /\ op.row \in Nat /\ op.issue.title \in Title
  BY DEF OnThreadOp, Operation, Issue
<1>2. 0 \in Nat /\ "title" \in ToDiscord /\ "other" \in Title
  BY DEF ToDiscord, Title
<1> QED BY <1>1, <1>2 DEF KeyOf

LEMMA EnqueueKeeps ==
  ASSUME PeopleInv, EnqueueLifecycle
  PROVE  PeopleInv'
<1> DEFINE op == Head(handler.todo)
<1>1. /\ handler \in Handler /\ handler.todo \in Seq(OnThreadOp) /\ handler.todo # <<>>
      /\ handler.todo \in Seq(Operation) /\ handler.step = "enqueue"
  BY DEF EnqueueLifecycle, PeopleInv, TypeOK, HandlerAgrees, Handler
<1>2. /\ op \in OnThreadOp /\ Tail(handler.todo) \in Seq(OnThreadOp)
      /\ Len(handler.todo) # 1 => Tail(handler.todo) # <<>>
      /\ Tail(handler.todo) \in Seq(Operation)
  <2>1. op \in OnThreadOp /\ Tail(handler.todo) \in Seq(OnThreadOp)
        /\ Len(Tail(handler.todo)) = Len(handler.todo) - 1 /\ Len(handler.todo) \in Nat
    BY <1>1, HeadTailProperties, LenProperties
  <2>2. Len(<<>>) = 0
    OBVIOUS
  <2>3. ASSUME Tail(handler.todo) = <<>> PROVE Len(handler.todo) = 1
    <3>1. Len(Tail(handler.todo)) = 0
      BY <2>2, <2>3, Zenon
    <3> QED BY <2>1, <3>1
  <2> QED BY <1>1, <2>1, <2>3, HeadTailProperties
<1>3. /\ handler' \in Handler /\ handler'.job = handler.job
      /\ handler'.todo \in Seq(OnThreadOp) /\ handler'.step \in {"enqueue", "end"}
      /\ handler'.step = "enqueue" => handler'.todo # <<>>
  <2>1. handler' = [handler EXCEPT !.todo = Tail(@),
                                   !.step = IF Len(handler.todo) = 1 THEN "end" ELSE @]
    BY DEF EnqueueLifecycle
  <2> QED BY <1>1, <1>2, <2>1 DEF Handler
<1>4. keys' \in SUBSET (ToDiscord \X Nat \X Title)
  <2>1. keys' = keys \cup {KeyOf(op)}
    BY DEF EnqueueLifecycle
  <2> QED BY <1>2, <2>1, KeyTypes DEF PeopleInv, TypeOK
<1>5. /\ ops' \in Seq(OnThreadOp \cup OnIssueOp) /\ ops' \in Seq(Operation)
      /\ ops # <<>> => ops' # <<>>
      /\ ops \in Seq(OnThreadOp) => ops' \in Seq(OnThreadOp)
  <2>1. ops' = ops \/ ops' = Append(ops, op)
    BY DEF EnqueueLifecycle
  <2>2. ops \in Seq(OnThreadOp \cup OnIssueOp) /\ ops \in Seq(Operation)
    BY DEF PeopleInv, ClaimsHeld, TypeOK
  <2> HIDE DEF op
  <2> QED BY <1>2, <2>1, <2>2, AppendKinds
<1>6. TypeOK'
  BY <1>3, <1>4, <1>5 DEF EnqueueLifecycle, WorkOnly, PeopleInv, TypeOK, github, discord, audit,
     bounds, history
<1>7. ClaimsHeld' /\ HandlerAgrees' /\ NobodyActed' /\ OnlyPeopleChangeIssue'
  BY <1>3, <1>5 DEF EnqueueLifecycle, WorkOnly, PeopleInv, ClaimsHeld, HandlerAgrees, NobodyActed,
     OnlyPeopleChangeIssue, github, discord, audit, bounds, history
<1> QED BY <1>6, <1>7 DEF PeopleInv

LEMMA HearMessageKeeps ==
  ASSUME PeopleInv, HearMessage
  PROVE  PeopleInv'
<1>1. posts' \in Nat /\ posts # 0
  BY DEF HearMessage, PeopleInv, TypeOK
<1>2. humanActs # 0
  BY <1>1, NobodyTypes
<1>3. /\ ops' \in Seq(OnThreadOp \cup OnIssueOp) /\ ops' \in Seq(Operation)
      /\ ops # <<>> => ops' # <<>>
  <2>1. OnIssue("reopen", "other") \in OnIssueOp
    BY OnIssueTypes DEF ToGitHub, Title
  <2>2. ops' = ops \/ ops' = Append(ops, OnIssue("reopen", "other"))
    BY DEF HearMessage
  <2> QED BY <2>1, <2>2, AppendKinds DEF PeopleInv, ClaimsHeld, TypeOK
<1>4. TypeOK'
  BY <1>1, <1>3 DEF HearMessage, WorkOnly, PeopleInv, TypeOK, github, discord, audit, bounds, history
<1>5. ClaimsHeld' /\ HandlerAgrees' /\ NobodyActed' /\ OnlyPeopleChangeIssue'
  BY <1>2, <1>3 DEF HearMessage, WorkOnly, PeopleInv, ClaimsHeld, HandlerAgrees, NobodyActed,
     OnlyPeopleChangeIssue, github, discord, audit, bounds, history
<1> QED BY <1>4, <1>5 DEF PeopleInv

LEMMA HearUpdateKeeps ==
  ASSUME PeopleInv, HearUpdate
  PROVE  PeopleInv'
<1> DEFINE job == [observed |-> Head(updates), at |-> now, attempts |-> 0]
<1>1. updates \in Seq(Thread) /\ updates # <<>> /\ now \in 0..MaxTime /\ jobs \in Seq(Job)
  BY DEF HearUpdate, PeopleInv, TypeOK
<1>2. job \in Job /\ Tail(updates) \in Seq(Thread)
  BY <1>1, HeadTailProperties DEF Job
<1>3. /\ jobs' \in Seq(Job)
      /\ \A i \in 1..Len(jobs) : i \in 1..Len(jobs')
  <2>1. jobs' = Append(jobs, job)
    BY DEF HearUpdate
  <2>2. Append(jobs, job) \in Seq(Job) /\ Len(Append(jobs, job)) = Len(jobs) + 1
        /\ Len(jobs) \in Nat
    BY <1>1, <1>2, AppendProperties, LenProperties
  <2> QED BY <2>1, <2>2
<1>4. updates' \in Seq(Thread) /\ faults' \in 0..MaxFaults
  <2>1. \/ updates' = Tail(updates) /\ faults' = faults
        \/ updates' = updates /\ faults < MaxFaults /\ faults' = faults + 1
    BY DEF HearUpdate
  <2>2. faults \in 0..MaxFaults
    BY DEF PeopleInv, TypeOK
  <2>3. faults' \in 0..MaxFaults
    BY <2>1, <2>2
  <2>4. updates' \in Seq(Thread)
    BY <1>1, <1>2, <2>1, Zenon
  <2> QED BY <2>3, <2>4
<1>5. TypeOK'
  BY <1>3, <1>4 DEF HearUpdate, PeopleInv, TypeOK, github, bounds, history
<1>6. ClaimsHeld' /\ HandlerAgrees' /\ NobodyActed' /\ OnlyPeopleChangeIssue'
  BY <1>3 DEF HearUpdate, PeopleInv, ClaimsHeld, HandlerAgrees, NobodyActed,
     OnlyPeopleChangeIssue, github, bounds, history
<1> QED BY <1>5, <1>6 DEF PeopleInv

-----------------------------------------------------------------------------
(* The operations on the thread.                                           *)

LEMMA SetTypes ==
  ASSUME NEW field \in {"archived", "locked", "both", "name"}, NEW archived \in BOOLEAN,
         NEW locked \in BOOLEAN, NEW name \in Title
  PROVE  Set(field, archived, locked, name) \in Edit
BY DEF Set, Edit

LEMMA TupleTypes ==
  ASSUME NEW S, NEW d \in S, NEW e \in S
  PROVE  <<>> \in Seq(S) /\ <<d>> \in Seq(S) /\ <<d, e>> \in Seq(S)
OBVIOUS

LEMMA EditsTypes ==
  ASSUME NEW op \in OnThreadOp, NEW from \in Issue
  PROVE  Edits(op, from) \in Seq(Edit)
<1>1. /\ op.issue \in Issue /\ op.issue.locked \in BOOLEAN /\ Shown(op.issue.title) \in Title
      /\ "other" \in Title /\ TRUE \in BOOLEAN /\ FALSE \in BOOLEAN
  BY DEF OnThreadOp, Operation, Issue, Shown, Title
<1>2. \A b \in BOOLEAN : Archive(b) \in Edit
  BY <1>1, SetTypes DEF Archive
<1>3. \A a, b \in BOOLEAN : <<Both(a, b)>> \in Seq(Edit)
  <2>1. \A a, b \in BOOLEAN : Both(a, b) \in Edit
    BY <1>1, SetTypes DEF Both
  <2> QED BY <2>1, TupleTypes, Zenon
<1>4. <<Set("name", FALSE, FALSE, Shown(op.issue.title))>> \in Seq(Edit)
  <2>1. Set("name", FALSE, FALSE, Shown(op.issue.title)) \in Edit
    BY <1>1, SetTypes
  <2> QED BY <2>1, TupleTypes, Zenon
<1>5. Visit \in Seq(Edit) /\ <<Archive(TRUE)>> \in Seq(Edit)
  <2>1. Archive(FALSE) \in Edit /\ Archive(TRUE) \in Edit
    BY <1>1, <1>2, Zenon
  <2> QED BY <2>1, TupleTypes, Zenon DEF Visit
<1>6. <<>> \in Seq(Edit)
  OBVIOUS
<1>7. CASE op.action = "closed"
  BY <1>5, <1>7, Zenon DEF Edits
<1>8. CASE op.action = "reopened"
  BY <1>1, <1>3, <1>8, Zenon DEF Edits
<1>9. CASE op.action = "locked"
  BY <1>1, <1>3, <1>9, Zenon DEF Edits
<1>10. CASE op.action = "unlocked"
  <2> DEFINE closed == op.issue.state = "closed"
             visit  == IF ~op.own /\ from.state = "closed" THEN Visit ELSE <<>>
  <2>1. closed \in BOOLEAN
    BY Zenon
  <2>2. visit \in Seq(Edit)
    BY <1>5, <1>6, Zenon
  <2>3. Edits(op, from) = <<Both(closed, FALSE)>> \o visit
    BY <1>10, Zenon DEF Edits
  <2> HIDE DEF closed, visit
  <2>4. <<Both(closed, FALSE)>> \in Seq(Edit)
    BY <1>1, <1>3, <2>1, Zenon
  <2> QED BY <2>2, <2>3, <2>4, ConcatProperties, Zenon
<1>11. CASE op.action = "title"
  BY <1>4, <1>11, Zenon DEF Edits
<1>12. CASE op.action = "activity" \/ op.action = "comment"
  BY <1>5, <1>6, <1>12, Zenon DEF Edits
<1> QED BY <1>7, <1>8, <1>9, <1>10, <1>11, <1>12 DEF OnThreadOp, ToDiscord

LEMMA HeadKinds ==
  ASSUME PeopleInv, ops # <<>>
  PROVE  /\ Head(ops) \in OnThreadOp \cup OnIssueOp /\ Head(ops) \in Operation
         /\ ops \in Seq(OnThreadOp) => Head(ops) \in OnThreadOp
BY HeadTailProperties DEF PeopleInv, TypeOK, ClaimsHeld

LEMMA ClaimOnThreadKeeps ==
  ASSUME PeopleInv, ClaimOnThread
  PROVE  PeopleInv'
<1> DEFINE op == Head(ops)
           edits == Edits(op, link)
<1>1. ops # <<>> /\ op \in OnThreadOp /\ op \in Operation
  <2>1. ops # <<>> /\ op.to = "discord"
    BY DEF ClaimOnThread
  <2>2. op \in OnThreadOp \cup OnIssueOp /\ op \in Operation
    BY <2>1, HeadKinds
  <2> HIDE DEF op
  <2> QED BY <2>1, <2>2 DEF OnIssueOp
<1>2. edits \in Seq(Edit)
  BY <1>1, EditsTypes DEF PeopleInv, TypeOK
<1>3. handler' = [Idle EXCEPT !.job = "operation", !.op = op, !.edits = edits,
                              !.step = IF edits = <<>> THEN "end" ELSE "edit"]
  BY DEF ClaimOnThread
<1> HIDE DEF op, edits
<1>4. /\ handler' \in Handler /\ handler'.job = "operation" /\ handler'.todo = <<>>
      /\ handler'.step \in {"edit", "end"}
      /\ handler'.step = "edit" => handler'.edits # <<>>
  BY <1>1, <1>2, <1>3, IdleTypes DEF Handler
<1>5. TypeOK'
  BY <1>4 DEF ClaimOnThread, WorkOnly, PeopleInv, TypeOK, github, discord, audit, bounds, history
<1>6. ClaimsHeld' /\ HandlerAgrees' /\ NobodyActed' /\ OnlyPeopleChangeIssue'
  BY <1>1, <1>4 DEF ClaimOnThread, WorkOnly, PeopleInv, ClaimsHeld, HandlerAgrees, NobodyActed,
     OnlyPeopleChangeIssue, github, discord, audit, bounds, history
<1> QED BY <1>5, <1>6 DEF PeopleInv

LEMMA EditThreadKeeps ==
  ASSUME PeopleInv, EditThread
  PROVE  PeopleInv'
<1> DEFINE after == Edited(Head(handler.edits))
<1>1. /\ handler \in Handler /\ handler.edits \in Seq(Edit) /\ handler.edits # <<>>
      /\ handler.step = "edit" /\ thread \in Thread
  BY DEF EditThread, PeopleInv, TypeOK, HandlerAgrees, Handler
<1>2. Head(handler.edits) \in Edit /\ Tail(handler.edits) \in Seq(Edit)
      /\ Len(Tail(handler.edits)) = Len(handler.edits) - 1 /\ Len(handler.edits) \in Nat
  BY <1>1, HeadTailProperties, LenProperties
<1>3. after \in Thread
  BY <1>1, <1>2 DEF Edited, Thread, Edit
<1>4. Change(after)
  BY DEF EditThread
<1>5. thread' \in Thread /\ updates' \in Seq(Thread)
  BY <1>3, <1>4, ChangeTypes DEF PeopleInv
<1>6. /\ log' \in [0..MaxTime -> Entry]
      /\ (\A t \in 0..MaxTime : log[t].newest # "human" /\ "human" \notin log[t].actors)
           => \A t \in 0..MaxTime : log'[t].newest # "human" /\ "human" \notin log'[t].actors
  <2>1. CASE log' = log
    BY <2>1 DEF PeopleInv, TypeOK
  <2>2. CASE Log("relay")
    BY <2>2, LogTypes DEF PeopleInv
  <2>3. log' = log \/ Log("relay")
    BY Zenon DEF EditThread
  <2> QED BY <2>1, <2>2, <2>3
<1>7. /\ handler' \in Handler /\ handler'.job = handler.job /\ handler'.todo = handler.todo
      /\ handler'.step \in {"edit", "end"}
      /\ handler'.step = "edit" => handler'.edits # <<>>
  <2>1. handler' = [handler EXCEPT !.edits = Tail(@),
                                   !.step = IF Len(handler.edits) = 1 THEN "end" ELSE @]
    BY DEF EditThread
  <2>2. ASSUME Tail(handler.edits) = <<>> PROVE Len(handler.edits) = 1
    <3>1. Len(<<>>) = 0
      OBVIOUS
    <3>2. Len(Tail(handler.edits)) = 0
      BY <2>2, <3>1, Zenon
    <3> QED BY <1>2, <3>2
  <2> QED BY <1>1, <1>2, <2>1, <2>2 DEF Handler
<1>8. UNCHANGED <<github, link, posts, ops, keys, faults, history>> /\ WorkOnly
  BY DEF EditThread
<1>9. TypeOK'
  BY <1>5, <1>6, <1>7, <1>8 DEF WorkOnly, PeopleInv, TypeOK, github, audit, bounds, history
<1>10. ClaimsHeld' /\ HandlerAgrees' /\ NobodyActed' /\ OnlyPeopleChangeIssue'
  BY <1>6, <1>7, <1>8 DEF WorkOnly, PeopleInv, ClaimsHeld, HandlerAgrees, NobodyActed,
     OnlyPeopleChangeIssue, github, audit, bounds, history
<1> QED BY <1>9, <1>10 DEF PeopleInv

-----------------------------------------------------------------------------
(* The operations on the issue.                                            *)

LEMMA ClaimOnIssueKeeps ==
  ASSUME PeopleInv, ClaimOnIssue
  PROVE  PeopleInv'
<1> DEFINE op == Head(ops)
<1>1. /\ ops # <<>> /\ op \in OnIssueOp /\ op \in Operation
      /\ ops \notin Seq(OnThreadOp)
  <2>1. ops # <<>> /\ op.to = "github"
    BY DEF ClaimOnIssue
  <2>2. /\ op \in OnThreadOp \cup OnIssueOp /\ op \in Operation
        /\ ops \in Seq(OnThreadOp) => op \in OnThreadOp
    BY <2>1, HeadKinds
  <2> HIDE DEF op
  <2> QED BY <2>1, <2>2 DEF OnThreadOp
<1>2. handler' = [Idle EXCEPT !.job = "operation", !.op = op, !.link = link,
                    !.step = IF op.action \in {"close", "reopen", "lock"} THEN "notice" ELSE "write"]
  BY DEF ClaimOnIssue
<1>3. link \in Issue
  BY DEF PeopleInv, TypeOK
<1> HIDE DEF op
<1>4. /\ handler' \in Handler /\ handler'.job = "operation" /\ handler'.todo = <<>>
      /\ handler'.step \in {"notice", "write"} /\ handler'.op = op
  BY <1>1, <1>2, <1>3, IdleTypes DEF Handler
<1>5. TypeOK'
  BY <1>4 DEF ClaimOnIssue, WorkOnly, PeopleInv, TypeOK, github, discord, audit, bounds, history
<1>6. ClaimsHeld' /\ HandlerAgrees' /\ NobodyActed' /\ OnlyPeopleChangeIssue'
  BY <1>1, <1>4 DEF ClaimOnIssue, WorkOnly, PeopleInv, ClaimsHeld, HandlerAgrees, NobodyActed,
     OnlyPeopleChangeIssue, github, discord, audit, bounds, history
<1> QED BY <1>5, <1>6 DEF PeopleInv

\* A step of such an operation, which there is only after somebody has acted.
LEMMA IssueStepKeeps ==
  ASSUME PeopleInv, handler.step \in {"notice", "write", "record"},
         NEW step \in {"write", "record", "end"}, Goto(step),
         step = "record" => handler.op.action # "labels",
         issue' \in Issue, events' \in SUBSET Event, issued' \in 0..MaxEvents, link' \in Issue,
         UNCHANGED <<discord, posts, ops, keys, faults, history>>, WorkOnly
  PROVE  PeopleInv'
<1>1. humanActs # 0 /\ handler \in Handler /\ handler.op \in OnIssueOp
  BY NobodyTypes DEF PeopleInv, TypeOK, HandlerAgrees
<1>2. /\ handler' \in Handler /\ handler'.step = step /\ handler'.job = handler.job
      /\ handler'.op = handler.op /\ handler'.todo = handler.todo
  BY <1>1 DEF Goto, Handler
<1>3. TypeOK'
  BY <1>2 DEF WorkOnly, PeopleInv, TypeOK, discord, audit, bounds, history
<1>4. ClaimsHeld' /\ HandlerAgrees' /\ NobodyActed' /\ OnlyPeopleChangeIssue'
  BY <1>1, <1>2 DEF WorkOnly, PeopleInv, ClaimsHeld, HandlerAgrees, NobodyActed,
     OnlyPeopleChangeIssue, discord, audit, bounds, history
<1> QED BY <1>3, <1>4 DEF PeopleInv

LEMMA NoticeKeeps ==
  ASSUME PeopleInv, PostNotice
  PROVE  PeopleInv'
<1>1. TypeOK /\ "comment" \in IssueEvent /\ issue \in Issue /\ TRUE \in BOOLEAN
  BY DEF PeopleInv, TypeOK, IssueEvent
<1>2. issue' \in Issue /\ events' \in SUBSET Event /\ issued' \in 0..MaxEvents
  BY <1>1, AnnounceTypes DEF PostNotice
<1>3. link' \in Issue
  BY <1>1 DEF PostNotice, TypeOK
<1> QED BY <1>2, <1>3, IssueStepKeeps DEF PostNotice

LEMMA WriteKeeps ==
  ASSUME PeopleInv, WriteIssue
  PROVE  PeopleInv'
<1> DEFINE op == handler.op
<1>1. /\ TypeOK /\ issue \in Issue /\ handler.step = "write" /\ op \in OnIssueOp
      /\ op.action \in ToGitHub /\ op.issue.title \in Title /\ TRUE \in BOOLEAN
  BY DEF WriteIssue, PeopleInv, TypeOK, HandlerAgrees, OnIssueOp, Operation, Issue
<1> HIDE DEF op
<1>2. \/ UNCHANGED github
      \/ \E kind \in IssueEvent, after \in Issue : Announce(kind, after, TRUE)
  <2>1. /\ [issue EXCEPT !.state = "closed"] \in Issue /\ [issue EXCEPT !.state = "open"] \in Issue
        /\ [issue EXCEPT !.locked = TRUE] \in Issue /\ [issue EXCEPT !.locked = FALSE] \in Issue
        /\ [issue EXCEPT !.title = op.issue.title] \in Issue
    BY <1>1 DEF Issue, State
  <2>2. "closed" \in IssueEvent /\ "reopened" \in IssueEvent /\ "locked" \in IssueEvent
        /\ "unlocked" \in IssueEvent /\ "edited" \in IssueEvent
    BY DEF IssueEvent
  <2>3. CASE op.action = "close"
    BY <2>1, <2>2, <2>3, Zenon DEF WriteIssue, op
  <2>4. CASE op.action = "reopen"
    BY <2>1, <2>2, <2>4, Zenon DEF WriteIssue, op
  <2>5. CASE op.action = "lock"
    BY <2>1, <2>2, <2>5, Zenon DEF WriteIssue, op
  <2>6. CASE op.action = "unlock"
    BY <2>1, <2>2, <2>6, Zenon DEF WriteIssue, op
  <2>7. CASE op.action = "rename"
    BY <2>1, <2>2, <2>7, Zenon DEF WriteIssue, op
  <2>8. CASE op.action = "labels"
    BY <2>8, Zenon DEF WriteIssue, op
  <2> QED BY <1>1, <2>3, <2>4, <2>5, <2>6, <2>7, <2>8 DEF ToGitHub
<1>3. issue' \in Issue /\ events' \in SUBSET Event /\ issued' \in 0..MaxEvents
  <2>1. CASE UNCHANGED github
    BY <1>1, <2>1 DEF github, TypeOK
  <2>2. CASE \E kind \in IssueEvent, after \in Issue : Announce(kind, after, TRUE)
    BY <1>1, <2>2, AnnounceTypes
  <2> QED BY <1>2, <2>1, <2>2
<1>4. PICK step \in {"write", "record", "end"} :
        Goto(step) /\ (step = "record" => op.action # "labels")
  <2>1. CASE op.action = "labels"
    <3>1. Goto("end")
      BY <2>1, Zenon DEF WriteIssue, op
    <3> QED BY <3>1
  <2>2. CASE op.action # "labels"
    <3>1. Goto("record")
      BY <2>2, Zenon DEF WriteIssue, op
    <3> QED BY <2>2, <3>1
  <2> QED BY <2>1, <2>2
<1>5. /\ link' = link /\ UNCHANGED <<discord, posts, ops, keys, faults, history>>
      /\ WorkOnly
  BY Zenon DEF WriteIssue
<1> QED BY <1>1, <1>3, <1>4, <1>5, IssueStepKeeps DEF TypeOK, op

LEMMA RecordKeeps ==
  ASSUME PeopleInv, RecordIssue
  PROVE  PeopleInv'
<1> DEFINE op == handler.op
<1>1. /\ TypeOK /\ handler.step = "record" /\ link \in Issue /\ handler.link \in Issue
      /\ op \in OnIssueOp /\ op.action \in ToGitHub \ {"labels"} /\ op.issue.title \in Title
  BY DEF RecordIssue, PeopleInv, TypeOK, HandlerAgrees, Handler, OnIssueOp, Operation, Issue
<1>2. link' \in Issue
  BY <1>1 DEF RecordIssue, ToGitHub, Issue, State
<1>3. issue' \in Issue /\ events' \in SUBSET Event /\ issued' \in 0..MaxEvents
  BY <1>1 DEF RecordIssue, github, TypeOK
<1>4. /\ Goto("end") /\ UNCHANGED <<discord, posts, ops, keys, faults, history>> /\ WorkOnly
  BY Zenon DEF RecordIssue
<1> QED BY <1>1, <1>2, <1>3, <1>4, IssueStepKeeps

-----------------------------------------------------------------------------
(* The audit classifier.                                                   *)

LEMMA ClaimAuditKeeps ==
  ASSUME PeopleInv, ClaimAudit
  PROVE  PeopleInv'
<1>1. jobs \in Seq(Job) /\ link \in Issue /\ Len(jobs) \in Nat
  BY LenProperties DEF PeopleInv, TypeOK
<1>2. PICK i \in 1..Len(jobs) : /\ auditor' = [job |-> i, link |-> link]
                               /\ jobs' = [jobs EXCEPT ![i].attempts = @ + 1]
  BY Zenon DEF ClaimAudit
<1>3. /\ auditor' \in Auditor /\ auditor'.job = i
  BY <1>1, <1>2 DEF Auditor
<1>4. jobs' \in Seq(Job) /\ Len(jobs') = Len(jobs)
  <2>1. jobs[i] \in Job
    BY <1>1, ElementOfSeq
  <2>2. [jobs[i] EXCEPT !.attempts = @ + 1] \in Job
    <3>1. \A job \in Job : [job EXCEPT !.attempts = @ + 1] \in Job
      BY DEF Job
    <3> QED BY <2>1, <3>1, Zenon
  <2>3. jobs' = [jobs EXCEPT ![i] = [jobs[i] EXCEPT !.attempts = @ + 1]]
    BY <1>2
  <2> QED BY <1>1, <2>2, <2>3, ExceptSeq
<1>5. UNCHANGED <<ops, faults>> /\ AuditOnly
  BY DEF ClaimAudit
<1>6. TypeOK'
  BY <1>3, <1>4, <1>5 DEF AuditOnly, PeopleInv, TypeOK, github, discord, bounds, history
<1>7. ClaimsHeld' /\ HandlerAgrees' /\ NobodyActed' /\ OnlyPeopleChangeIssue'
  BY <1>1, <1>2, <1>3, <1>4, <1>5 DEF AuditOnly, PeopleInv, ClaimsHeld, HandlerAgrees, NobodyActed,
     OnlyPeopleChangeIssue, github, discord, bounds, history
<1> QED BY <1>6, <1>7 DEF PeopleInv

\* Without a person's entry the classifier finds nothing to do to the issue.
LEMMA OnlyPeopleAreMirrored ==
  ASSUME NEW previous, NEW observed, NEW actor \in {"none", "relay"}
  PROVE  Transition(previous, observed, Evidence(actor)) \notin ToGitHub
<1>1. Evidence(actor) \in {"none", "self"}
  BY DEF Evidence
<1>2. Transition(previous, observed, Evidence(actor))
        \in {"self", "inactivity-archive", "none", "ambiguous"}
  BY <1>1, Zenon DEF Transition
<1> QED BY <1>2 DEF ToGitHub

LEMMA DecideKeeps ==
  ASSUME PeopleInv, auditor # Waiting, NEW actor \in {"none", "relay", "human"}, Decide(actor),
         humanActs = 0 => actor # "human", faults' \in 0..MaxFaults
  PROVE  PeopleInv'
<1> DEFINE job    == jobs[auditor.job]
           action == Transition(auditor.link, job.observed, Evidence(actor))
<1>1. jobs \in Seq(Job) /\ auditor.job \in 1..Len(jobs)
  BY DEF PeopleInv, TypeOK, ClaimsHeld
<1>2. job.observed.name \in Title
  <2>1. job \in Job
    BY <1>1, ElementOfSeq
  <2> HIDE DEF job
  <2> QED BY <2>1 DEF Job, Thread
<1>3. humanActs = 0 => action \notin ToGitHub
  BY OnlyPeopleAreMirrored
<1>4. /\ jobs' = jobs \/ jobs' = RemoveAt(jobs, auditor.job)
      /\ \/ ops' = ops
         \/ action \in ToGitHub /\ ops' = Append(ops, OnIssue(action, job.observed.name))
      /\ auditor' = Waiting /\ AuditOnly
  BY Zenon DEF Decide
<1> HIDE DEF action
<1>5. jobs' \in Seq(Job)
  BY <1>1, <1>4, RemoveTypes
<1>6. /\ ops' \in Seq(OnThreadOp \cup OnIssueOp) /\ ops' \in Seq(Operation)
      /\ ops # <<>> => ops' # <<>>
      /\ humanActs = 0 => ops' = ops
  <2>1. ops \in Seq(OnThreadOp \cup OnIssueOp) /\ ops \in Seq(Operation)
    BY DEF PeopleInv, ClaimsHeld, TypeOK
  <2>2. CASE ops' = ops
    BY <2>1, <2>2
  <2>3. CASE action \in ToGitHub /\ ops' = Append(ops, OnIssue(action, job.observed.name))
    <3>1. OnIssue(action, job.observed.name) \in OnIssueOp
      BY <1>2, <2>3, OnIssueTypes
    <3> QED BY <1>3, <2>1, <2>3, <3>1, AppendKinds
  <2> QED BY <1>4, <2>2, <2>3
<1>7. TypeOK'
  BY <1>4, <1>5, <1>6, IdleTypes DEF AuditOnly, PeopleInv, TypeOK, github, discord, bounds, history
<1>8. ClaimsHeld' /\ HandlerAgrees' /\ NobodyActed' /\ OnlyPeopleChangeIssue'
  BY <1>4, <1>6 DEF AuditOnly, PeopleInv, ClaimsHeld, HandlerAgrees, NobodyActed,
     OnlyPeopleChangeIssue, github, discord, bounds, history
<1> QED BY <1>7, <1>8 DEF PeopleInv

LEMMA ClassifyKeeps ==
  ASSUME PeopleInv, Classify \/ ClassifyEarly
  PROVE  PeopleInv'
<1> DEFINE at == jobs[auditor.job].at
<1>1. auditor # Waiting
  BY DEF Classify, ClassifyEarly
<1>2. PICK actor \in {log[at].newest} \cup log[at].actors \cup {"none"} : Decide(actor)
  BY Zenon DEF Classify, ClassifyEarly
<1>3. faults' \in 0..MaxFaults
  BY DEF Classify, ClassifyEarly, PeopleInv, TypeOK
<1>4. at \in 0..MaxTime
  <2>1. jobs \in Seq(Job) /\ auditor.job \in 1..Len(jobs)
    BY <1>1 DEF PeopleInv, TypeOK, ClaimsHeld
  <2>2. jobs[auditor.job] \in Job
    BY <2>1, ElementOfSeq
  <2> QED BY <2>2 DEF Job
<1> HIDE DEF at
<1>5. log[at] \in Entry
  BY <1>4 DEF PeopleInv, TypeOK
<1>6. actor \in {"none", "relay", "human"}
  BY <1>2, <1>5 DEF Entry
<1>7. humanActs = 0 => actor # "human"
  BY <1>2, <1>4, NobodyTypes
<1> QED BY <1>1, <1>2, <1>3, <1>6, <1>7, DecideKeeps

LEMMA FailQueryKeeps ==
  ASSUME PeopleInv, FailQuery
  PROVE  PeopleInv'
<1>1. faults' \in 0..MaxFaults /\ auditor' = Waiting
  BY DEF FailQuery, PeopleInv, TypeOK
<1>2. TypeOK'
  BY <1>1, IdleTypes DEF FailQuery, AuditOnly, PeopleInv, TypeOK, github, discord, bounds, history
<1>3. ClaimsHeld' /\ HandlerAgrees' /\ NobodyActed' /\ OnlyPeopleChangeIssue'
  BY <1>1 DEF FailQuery, AuditOnly, PeopleInv, ClaimsHeld, HandlerAgrees, NobodyActed,
     OnlyPeopleChangeIssue, github, discord, bounds, history
<1> QED BY <1>2, <1>3 DEF PeopleInv

-----------------------------------------------------------------------------

LEMMA StutterKeeps ==
  ASSUME PeopleInv, UNCHANGED vars
  PROVE  PeopleInv'
<1>1. TypeOK'
  BY DEF vars, PeopleInv, TypeOK
<1>2. ClaimsHeld' /\ HandlerAgrees' /\ NobodyActed' /\ OnlyPeopleChangeIssue'
  BY DEF vars, PeopleInv, ClaimsHeld, HandlerAgrees, NobodyActed, OnlyPeopleChangeIssue
<1> QED BY <1>1, <1>2 DEF PeopleInv

LEMMA PeopleStep == PeopleInv /\ [Next]_vars => PeopleInv'
<1> SUFFICES ASSUME PeopleInv, [Next]_vars PROVE PeopleInv'
  OBVIOUS
<1>1. CASE UserCloses \/ UserReopens \/ UserLocks \/ UserUnlocks \/ UserRetitles \/ UserComments
  BY <1>1, UsersKeep
<1>2. CASE ModeratorArchives \/ ModeratorLocks \/ ModeratorRenames \/ ModeratorTags
  BY <1>2, ModeratorKeeps
<1>3. CASE PersonPosts \/ Inactivity \/ CommandClose \/ Tick
  BY <1>3, PersonPostsKeeps, InactivityKeeps, CommandKeeps, TickKeeps
<1>4. CASE ReadThread \/ EnqueueSnapshot
  BY <1>4, ReadThreadKeeps, EnqueueSnapshotKeeps
<1>5. CASE \E event \in events : ClaimEvent(event)
  BY <1>5, ClaimEventKeeps
<1>6. CASE Finish \/ GiveUp \/ Interrupt \/ LoseEvent
  BY <1>6, EndKeeps, InterruptKeeps, LoseEventKeeps
<1>7. CASE LinkIssue \/ EnqueueLifecycle \/ HearMessage \/ HearUpdate
  BY <1>7, LinkIssueKeeps, EnqueueKeeps, HearMessageKeeps, HearUpdateKeeps
<1>8. CASE ClaimOnThread \/ EditThread
  BY <1>8, ClaimOnThreadKeeps, EditThreadKeeps
<1>9. CASE ClaimOnIssue \/ PostNotice \/ WriteIssue \/ RecordIssue
  BY <1>9, ClaimOnIssueKeeps, NoticeKeeps, WriteKeeps, RecordKeeps
<1>10. CASE ClaimAudit \/ Classify \/ ClassifyEarly \/ FailQuery
  BY <1>10, ClaimAuditKeeps, ClassifyKeeps, FailQueryKeeps
<1>11. CASE UNCHANGED vars
  BY <1>11, StutterKeeps
<1> QED
  BY <1>1, <1>2, <1>3, <1>4, <1>5, <1>6, <1>7, <1>8, <1>9, <1>10, <1>11 DEF Next

-----------------------------------------------------------------------------

\* The variables of the lifecycle keep their types: the rows, events and audit jobs that
\* are left are of the kinds the handlers and the classifier take (engine.ts,
\* audit-classifier.ts).
THEOREM LifecycleTypeCorrect == Spec => []TypeOK
<1>1. PeopleInv => TypeOK
  BY DEF PeopleInv
<1> QED BY <1>1, InitPeople, PeopleStep, PTL DEF Spec

\* Only people change an issue: whatever GitHub users do, whatever the relay writes to the
\* thread, Discord archives and the audit log shows late, and whichever handlers fail,
\* the issue stays as GitHub users left it as long as nobody acts in Discord (findEvidence
\* and classifyThreadTransition).
THEOREM IssuesChangeByPeopleOnly == Spec => []OnlyPeopleChangeIssue
<1>1. PeopleInv => OnlyPeopleChangeIssue
  BY DEF PeopleInv
<1> QED BY <1>1, InitPeople, PeopleStep, PTL DEF Spec
-----------------------------------------------------------------------------
(* What the relay knows of the issue.                                      *)

\* An event of which the relay keeps the issue.
Stored(event) == event.kind # "comment"

\* A handler of an event has it in hand.
EventHeld ==
  /\ handler.job = "none" => handler.step = "none"
  /\ handler.step \in {"link", "enqueue"} => handler.job = "event"
  /\ handler.job = "event" =>
       /\ handler.event \in events /\ handler.step \in {"link", "enqueue", "end"}
       /\ handler.step # "link" /\ Stored(handler.event) => handler.event.id <= heard

\* What an operation on the issue makes of it.
Applied(op, i) ==
  CASE op.action = "close"  -> [i EXCEPT !.state = "closed"]
    [] op.action = "reopen" -> [i EXCEPT !.state = "open"]
    [] op.action = "lock"   -> [i EXCEPT !.locked = TRUE]
    [] op.action = "unlock" -> [i EXCEPT !.locked = FALSE]
    [] op.action = "rename" -> [i EXCEPT !.title = op.issue.title]

\* The issue has not changed since its event c: either this is still to be handled, or the
\* link has the issue, and what an operation is about to record is true of it.
UnchangedSince(c) ==
  /\ \A event \in events : event.id >= c => event.issue = issue
  /\ ~late /\ ~lost =>
       /\ heard < c => \E event \in events : Stored(event) /\ event.id = c
       /\ heard >= c =>
            link = issue /\ (handler.step = "record" => Applied(handler.op, issue) = issue)

LinkInv ==
  /\ EventHeld
  /\ heard <= issued /\ \A event \in events : event.id <= issued
  /\ handler.step \in {"notice", "write", "record"} => handler.link = link
  /\ \E c \in 0..issued : UnchangedSince(c)

LEMMA InitLink == Init => LinkInv
<1> SUFFICES ASSUME Init PROVE LinkInv
  OBVIOUS
<1>1. /\ events = {} /\ issued = 0 /\ heard = 0 /\ link = issue /\ handler = Idle /\ 0 \in 0..0
  BY DEF Init
<1>2. UnchangedSince(0)
  BY <1>1, IdleTypes DEF UnchangedSince
<1> QED BY <1>1, <1>2, IdleTypes DEF LinkInv, EventHeld

\* Nothing the relay knows of the issue has changed; a handler may have begun or ended.
LEMMA LinkFrame ==
  ASSUME PeopleInv, LinkInv, UNCHANGED <<issue, events, issued, link, heard, late, lost>>,
         EventHeld', handler'.step \in {"notice", "write", "record"} => handler'.link = link',
         handler'.step = "record" => handler.step = "record" /\ handler'.op = handler.op
  PROVE  LinkInv'
<1>1. PICK c \in 0..issued : UnchangedSince(c)
  BY DEF LinkInv
<1>2. UnchangedSince(c)'
  BY <1>1 DEF UnchangedSince, Applied
<1> QED BY <1>1, <1>2 DEF LinkInv

\* An announcement is an event of its own.
LEMMA AnnounceLink ==
  ASSUME PeopleInv, LinkInv, NEW kind \in IssueEvent, NEW after \in Issue, NEW own \in BOOLEAN,
         Announce(kind, after, own), kind = "comment" => after = issue, kind # "snapshot",
         UNCHANGED <<link, heard, late, lost>>, EventHeld',
         handler'.step \in {"notice", "write", "record"} => handler'.link = link',
         handler'.step = "record" =>
           handler'.op = handler.op /\ (handler.step = "record" \/ Applied(handler.op, after) = after)
  PROVE  LinkInv'
<1>1. /\ issued \in Nat /\ heard \in Nat /\ heard <= issued
      /\ \A event \in events : event.id \in Nat /\ event.id <= issued
  BY DEF PeopleInv, TypeOK, LinkInv, Event
<1>2. PICK c \in 0..issued : UnchangedSince(c)
  BY DEF LinkInv
<1>3. CASE after = issue /\ kind # "comment"
  <2>1. UNCHANGED <<issue, events, issued>>
    BY <1>3 DEF Announce, github
  <2>2. UnchangedSince(c)'
    BY <1>2, <1>3, <2>1 DEF UnchangedSince, Applied
  <2> QED BY <1>2, <2>1, <2>2 DEF LinkInv
<1>4. CASE ~(after = issue /\ kind # "comment")
  <2> DEFINE new == [kind |-> kind, issue |-> after, own |-> own, id |-> issued',
                     row |-> issued', seen |-> NotSeen]
  <2>1. /\ events' = events \cup {new} /\ new.kind = kind /\ new.issue = after
        /\ new.id = issued + 1 /\ issued' = issued + 1 /\ issue' = after
    BY <1>4 DEF Announce
  <2> HIDE DEF new
  <2>2. heard' <= issued' /\ \A event \in events' : event.id <= issued'
    BY <1>1, <2>1
  <2>3. CASE after = issue
    <3>1. UnchangedSince(c)'
      BY <1>1, <1>2, <2>1, <2>3 DEF UnchangedSince, Applied
    <3> QED BY <1>1, <1>2, <2>1, <2>2, <3>1 DEF LinkInv
  <2>4. CASE kind # "comment"
    <3>1. PICK n \in Nat : n = issued + 1
      BY <1>1
    <3>2. UnchangedSince(n)'
      <4>1. Stored(new) /\ new \in events'
        BY <2>1, <2>4 DEF Stored
      <4> QED BY <1>1, <2>1, <3>1, <4>1 DEF UnchangedSince
    <3>3. n \in 0..issued'
      BY <1>1, <2>1, <3>1
    <3> QED BY <2>2, <3>2, <3>3 DEF LinkInv
  <2> QED BY <2>3, <2>4
<1> QED BY <1>3, <1>4

LEMMA UsersLink ==
  ASSUME PeopleInv, LinkInv,
         UserCloses \/ UserReopens \/ UserLocks \/ UserUnlocks \/ UserRetitles \/ UserComments
  PROVE  LinkInv'
<1>1. issue \in Issue
  BY DEF PeopleInv, TypeOK
<1>2. PICK kind \in IssueEvent \ {"snapshot"}, after \in Issue :
        UserActs(kind, after) /\ (kind = "comment" => after = issue)
  <2>1. /\ [issue EXCEPT !.state = "closed"] \in Issue /\ [issue EXCEPT !.state = "open"] \in Issue
        /\ [issue EXCEPT !.locked = TRUE] \in Issue /\ [issue EXCEPT !.locked = FALSE] \in Issue
        /\ [issue EXCEPT !.title = "other"] \in Issue
    BY <1>1 DEF Issue, State, Title
  <2>2. /\ {"closed", "reopened", "locked", "unlocked", "edited", "comment"} \subseteq IssueEvent \ {"snapshot"}
        /\ \A kind \in {"closed", "reopened", "locked", "unlocked", "edited"} : kind # "comment"
    BY DEF IssueEvent
  <2>3. \/ UserActs("closed", [issue EXCEPT !.state = "closed"])
        \/ UserActs("reopened", [issue EXCEPT !.state = "open"])
        \/ UserActs("locked", [issue EXCEPT !.locked = TRUE])
        \/ UserActs("unlocked", [issue EXCEPT !.locked = FALSE])
        \/ UserActs("edited", [issue EXCEPT !.title = "other"])
        \/ UserActs("comment", issue)
    BY DEF UserCloses, UserReopens, UserLocks, UserUnlocks, UserRetitles, UserComments
  <2> QED BY <1>1, <2>1, <2>2, <2>3, Zenon
<1>3. Announce(kind, after, FALSE) /\ UNCHANGED <<link, heard, late, lost, handler>>
  BY <1>2 DEF UserActs
<1>4. events \subseteq events'
  BY <1>3 DEF Announce, github
<1>5. EventHeld'
  BY <1>3, <1>4 DEF LinkInv, EventHeld
<1> QED BY <1>2, <1>3, <1>5, AnnounceLink DEF LinkInv

\* What neither the issue nor its handlers are about.
LEMMA OutsideLink ==
  ASSUME PeopleInv, LinkInv,
         \/ ModeratorArchives \/ ModeratorLocks \/ ModeratorRenames \/ ModeratorTags
         \/ PersonPosts \/ Inactivity \/ CommandClose \/ Tick \/ ReadThread \/ HearMessage \/ HearUpdate
         \/ ClaimAudit \/ Classify \/ ClassifyEarly \/ FailQuery \/ UNCHANGED vars
  PROVE  LinkInv'
<1>1. UNCHANGED <<issue, events, issued, link, heard, late, lost, handler>>
  BY DEF ModeratorArchives, ModeratorLocks, ModeratorRenames, ModeratorTags, ModeratorActs, PersonPosts,
     Inactivity, CommandClose, Tick, ReadThread, HearMessage, HearUpdate, ClaimAudit, Classify, ClassifyEarly,
     Decide, FailQuery, AuditOnly, DiscordOnly, WorkOnly, github, history, vars
<1> QED BY <1>1, LinkFrame DEF LinkInv, EventHeld

LEMMA SnapshotLink ==
  ASSUME PeopleInv, LinkInv, EnqueueSnapshot
  PROVE  LinkInv'
<1>1. /\ issued \in Nat /\ heard \in Nat
      /\ UNCHANGED <<issue, issued, link, heard, late, lost, handler>>
  BY DEF EnqueueSnapshot, history, PeopleInv, TypeOK
<1> DEFINE new == [kind |-> "snapshot", issue |-> issue, own |-> FALSE, id |-> issued,
                   row |-> MaxEvents + runs, seen |-> plan]
<1>2. events' = events \cup {new} /\ new.issue = issue /\ new.id = issued
  BY DEF EnqueueSnapshot
<1> HIDE DEF new
<1>3. PICK c \in 0..issued : UnchangedSince(c)
  BY DEF LinkInv
<1>4. UnchangedSince(c)'
  BY <1>1, <1>2, <1>3 DEF UnchangedSince, Applied
<1> QED BY <1>1, <1>2, <1>3, <1>4 DEF LinkInv, EventHeld

LEMMA ClaimLink ==
  ASSUME PeopleInv, LinkInv, (\E event \in events : ClaimEvent(event)) \/ ClaimOnThread \/ ClaimOnIssue
  PROVE  LinkInv'
<1>1. UNCHANGED <<issue, events, issued, link, heard, late, lost>>
  BY DEF ClaimEvent, ClaimOnThread, ClaimOnIssue, github, history
<1>2. CASE \E event \in events : ClaimEvent(event)
  <2>1. PICK event \in events : handler' = [Idle EXCEPT !.job = "event", !.step = "link", !.event = event]
    BY <1>2 DEF ClaimEvent
  <2>2. handler'.job = "event" /\ handler'.step = "link" /\ handler'.event = event
    BY <2>1 DEF Idle
  <2> QED BY <1>1, <2>2, LinkFrame DEF EventHeld
<1>3. CASE ClaimOnThread
  <2>1. handler'.job = "operation" /\ handler'.step \in {"edit", "end"}
    BY <1>3 DEF ClaimOnThread, Idle
  <2> QED BY <1>1, <2>1, LinkFrame DEF EventHeld
<1>4. CASE ClaimOnIssue
  <2>1. handler'.job = "operation" /\ handler'.step \in {"notice", "write"} /\ handler'.link = link
    BY <1>4 DEF ClaimOnIssue, Idle
  <2> QED BY <1>1, <2>1, LinkFrame DEF EventHeld
<1> QED BY <1>2, <1>3, <1>4

\* An event is not given up before it has been handled, unless it is lost.
LEMMA EndLink ==
  ASSUME PeopleInv, LinkInv, Finish \/ GiveUp \/ Interrupt \/ LoseEvent
  PROVE  LinkInv'
<1>1. /\ issued \in Nat /\ heard \in Nat /\ UNCHANGED <<issue, issued, link, heard, late>>
      /\ events' \subseteq events /\ (~lost' => ~lost)
  BY DEF Finish, GiveUp, Interrupt, LoseEvent, SettleRow, github, PeopleInv, TypeOK
<1>2. handler' = Idle \/ LoseEvent
  BY DEF Finish, GiveUp, Interrupt, SettleRow
<1>3. EventHeld'
  <2>1. CASE handler' = Idle
    BY <2>1, IdleTypes DEF EventHeld
  <2>2. CASE LoseEvent
    <3>1. handler' = handler /\ (handler.event \in events => handler.event \in events')
      BY <2>2 DEF LoseEvent
    <3> QED BY <1>1, <3>1 DEF LinkInv, EventHeld
  <2> QED BY <1>2, <2>1, <2>2
<1>4. PICK c \in 0..issued : UnchangedSince(c)
  BY DEF LinkInv
<1>5. ASSUME ~lost', ~late', heard < c PROVE \E event \in events' : Stored(event) /\ event.id = c
  <2>1. PICK event \in events : Stored(event) /\ event.id = c
    BY <1>1, <1>4, <1>5 DEF UnchangedSince
  <2>2. ~(handler.job = "event" /\ event = handler.event /\ handler.step = "end")
    BY <1>1, <1>5, <2>1 DEF LinkInv, EventHeld
  <2>3. event \in events'
    BY <1>5, <2>1, <2>2 DEF Finish, GiveUp, Interrupt, LoseEvent, SettleRow, github
  <2> QED BY <2>1, <2>3
<1>6. handler'.step \notin {"notice", "write", "record"} \/ handler' = handler
  BY <1>2, IdleTypes DEF LoseEvent
<1>7. UnchangedSince(c)'
  BY <1>1, <1>4, <1>5, <1>6 DEF UnchangedSince, Applied
<1> QED BY <1>1, <1>3, <1>4, <1>6, <1>7 DEF LinkInv

LEMMA LinkIssueLink ==
  ASSUME PeopleInv, LinkInv, LinkIssue
  PROVE  LinkInv'
<1> DEFINE event == handler.event
<1>1. /\ issued \in Nat /\ heard \in Nat /\ heard <= issued
      /\ UNCHANGED <<issue, issued, events, lost>> /\ handler.step = "link"
  BY DEF LinkIssue, github, PeopleInv, TypeOK, LinkInv
<1>2. handler.job = "event" /\ event \in events /\ event.id \in Nat /\ event.id <= issued
  BY <1>1 DEF LinkInv, EventHeld, PeopleInv, TypeOK, Event
<1>3. handler'.job = "event" /\ handler'.event = event /\ handler'.step = "enqueue"
  BY <1>2 DEF LinkIssue, PeopleInv, TypeOK, Handler
<1>4. PICK c \in 0..issued : UnchangedSince(c)
  BY DEF LinkInv
<1> HIDE DEF event
<1>5. CASE ~Stored(event)
  <2>1. UNCHANGED <<link, heard, late>>
    BY <1>5 DEF LinkIssue, Stored, event
  <2> QED BY <1>1, <1>2, <1>3, <1>5, <2>1, LinkFrame DEF EventHeld
<1>6. CASE Stored(event)
  <2>1. Store(event)
    BY <1>6 DEF LinkIssue, Stored, event
  <2>2. /\ link' = event.issue /\ (late' <=> late \/ event.id < heard)
        /\ heard' = (IF event.id > heard THEN event.id ELSE heard)
    BY <2>1, Zenon DEF Store
  <2>3. EventHeld' /\ heard' <= issued
    BY <1>1, <1>2, <1>3, <2>2 DEF EventHeld
  <2>4. UnchangedSince(c)'
    BY <1>1, <1>2, <1>3, <1>4, <2>2 DEF UnchangedSince
  <2> QED BY <1>1, <1>3, <1>4, <2>3, <2>4 DEF LinkInv
<1> QED BY <1>5, <1>6

LEMMA StepLink ==
  ASSUME PeopleInv, LinkInv, EnqueueLifecycle \/ EditThread
  PROVE  LinkInv'
<1>1. UNCHANGED <<issue, events, issued, link, heard, late, lost>>
  BY DEF EnqueueLifecycle, EditThread, github, history
<1>2. handler'.job = handler.job /\ handler'.event = handler.event
      /\ handler.step \in {"enqueue", "edit"} /\ handler'.step \in {handler.step, "end"}
  BY DEF EnqueueLifecycle, EditThread, PeopleInv, TypeOK, Handler
<1> QED BY <1>1, <1>2, LinkFrame DEF LinkInv, EventHeld

LEMMA NoticeLink ==
  ASSUME PeopleInv, LinkInv, PostNotice
  PROVE  LinkInv'
<1>1. Announce("comment", issue, TRUE) /\ UNCHANGED <<link, heard, late, lost>> /\ issue \in Issue
      /\ TRUE \in BOOLEAN /\ "comment" \in IssueEvent /\ handler.step = "notice"
  BY DEF PostNotice, history, PeopleInv, TypeOK, IssueEvent
<1>2. handler'.step = "write" /\ UNCHANGED <<handler.job, handler.link, handler.op>>
  BY DEF PostNotice, Goto, PeopleInv, TypeOK, Handler
<1>3. EventHeld' /\ handler'.link = link'
  BY <1>1, <1>2 DEF LinkInv, EventHeld
<1> QED BY <1>1, <1>2, <1>3, AnnounceLink

LEMMA WriteLink ==
  ASSUME PeopleInv, LinkInv, WriteIssue
  PROVE  LinkInv'
<1> DEFINE op == handler.op
<1>1. /\ TypeOK /\ issue \in Issue /\ handler.step = "write" /\ op \in OnIssueOp
      /\ op.action \in ToGitHub /\ op.issue.title \in Title /\ TRUE \in BOOLEAN
      /\ UNCHANGED <<link, heard, late, lost>>
  BY DEF WriteIssue, PeopleInv, TypeOK, HandlerAgrees, OnIssueOp, Operation, Issue, history
<1>2. handler'.step = (IF op.action = "labels" THEN "end" ELSE "record")
      /\ UNCHANGED <<handler.job, handler.link, handler.op>>
  BY DEF WriteIssue, Goto, PeopleInv, TypeOK, Handler
<1>3. EventHeld' /\ handler'.link = link'
  BY <1>1, <1>2 DEF LinkInv, EventHeld
<1> HIDE DEF op
<1>4. CASE op.action = "labels"
  <2>1. UNCHANGED github
    BY <1>4, Zenon DEF WriteIssue, op
  <2> QED BY <1>1, <1>2, <1>3, <1>4, <2>1, LinkFrame DEF github
<1>5. CASE op.action # "labels"
  <2>1. PICK kind \in IssueEvent \ {"snapshot", "comment"} : Announce(kind, Applied(op, issue), TRUE)
    <3>1. "closed" \in IssueEvent /\ "reopened" \in IssueEvent /\ "locked" \in IssueEvent
          /\ "unlocked" \in IssueEvent /\ "edited" \in IssueEvent
      BY DEF IssueEvent
    <3>2. CASE op.action = "close"
      <4>1. Announce("closed", Applied(op, issue), TRUE)
        BY <3>2, Zenon DEF WriteIssue, op, Applied
      <4> QED BY <3>1, <4>1
    <3>3. CASE op.action = "reopen"
      <4>1. Announce("reopened", Applied(op, issue), TRUE)
        BY <3>3, Zenon DEF WriteIssue, op, Applied
      <4> QED BY <3>1, <4>1
    <3>4. CASE op.action = "lock"
      <4>1. Announce("locked", Applied(op, issue), TRUE)
        BY <3>4, Zenon DEF WriteIssue, op, Applied
      <4> QED BY <3>1, <4>1
    <3>5. CASE op.action = "unlock"
      <4>1. Announce("unlocked", Applied(op, issue), TRUE)
        BY <3>5, Zenon DEF WriteIssue, op, Applied
      <4> QED BY <3>1, <4>1
    <3>6. CASE op.action = "rename"
      <4>1. Announce("edited", Applied(op, issue), TRUE)
        BY <3>6, Zenon DEF WriteIssue, op, Applied
      <4> QED BY <3>1, <4>1
    <3> QED BY <1>1, <1>5, <3>2, <3>3, <3>4, <3>5, <3>6 DEF ToGitHub
  <2>2. Applied(op, issue) \in Issue /\ Applied(op, Applied(op, issue)) = Applied(op, issue)
    BY <1>1, <1>5 DEF Applied, Issue, State, ToGitHub
  <2> HIDE DEF Applied
  <2> QED BY <1>1, <1>2, <1>3, <2>1, <2>2, AnnounceLink DEF op
<1> QED BY <1>4, <1>5

LEMMA RecordLink ==
  ASSUME PeopleInv, LinkInv, RecordIssue
  PROVE  LinkInv'
<1> DEFINE op == handler.op
<1>1. /\ handler.step = "record" /\ link \in Issue /\ handler.link = link
      /\ op \in OnIssueOp /\ op.action \in ToGitHub \ {"labels"}
      /\ UNCHANGED <<issue, events, issued, heard, late, lost>>
  BY DEF RecordIssue, PeopleInv, TypeOK, HandlerAgrees, OnIssueOp, LinkInv, github, history
<1>2. handler'.step = "end" /\ handler'.job = handler.job
  BY DEF RecordIssue, Goto, PeopleInv, TypeOK, Handler
<1>3. handler.job = "operation" \/ handler.job = "none"
  BY <1>1 DEF LinkInv, EventHeld, PeopleInv, TypeOK, Handler
<1>4. EventHeld'
  BY <1>1, <1>2, <1>3 DEF LinkInv, EventHeld
<1>5. link' = Applied(op, link)
  BY <1>1 DEF RecordIssue, Applied, ToGitHub, Issue
<1>6. PICK c \in 0..issued : UnchangedSince(c)
  BY DEF LinkInv
<1> HIDE DEF Applied
<1>7. UnchangedSince(c)'
  BY <1>1, <1>2, <1>5, <1>6 DEF UnchangedSince
<1> QED BY <1>1, <1>2, <1>4, <1>6, <1>7 DEF LinkInv

LEMMA LinkStep == PeopleInv /\ LinkInv /\ [Next]_vars => LinkInv'
<1> SUFFICES ASSUME PeopleInv, LinkInv, [Next]_vars PROVE LinkInv'
  OBVIOUS
<1>1. CASE UserCloses \/ UserReopens \/ UserLocks \/ UserUnlocks \/ UserRetitles \/ UserComments
  BY <1>1, UsersLink
<1>2. CASE \/ ModeratorArchives \/ ModeratorLocks \/ ModeratorRenames \/ ModeratorTags
           \/ PersonPosts \/ Inactivity \/ CommandClose \/ Tick \/ ReadThread \/ HearMessage \/ HearUpdate
           \/ ClaimAudit \/ Classify \/ ClassifyEarly \/ FailQuery \/ UNCHANGED vars
  BY <1>2, OutsideLink
<1>3. CASE EnqueueSnapshot
  BY <1>3, SnapshotLink
<1>4. CASE (\E event \in events : ClaimEvent(event)) \/ ClaimOnThread \/ ClaimOnIssue
  BY <1>4, ClaimLink
<1>5. CASE Finish \/ GiveUp \/ Interrupt \/ LoseEvent
  BY <1>5, EndLink
<1>6. CASE LinkIssue \/ EnqueueLifecycle \/ EditThread \/ PostNotice \/ WriteIssue \/ RecordIssue
  BY <1>6, LinkIssueLink, StepLink, NoticeLink, WriteLink, RecordLink
<1> QED BY <1>1, <1>2, <1>3, <1>4, <1>5, <1>6 DEF Next

\* Once everything has settled the link is what the issue is: the newest event is heard last
\* unless one came late or was lost, and what an operation of the relay records of its own
\* change is overtaken by the webhook of any other (ensureGitHubIssueLink, engine.ts).
THEOREM LinksFollowIssues == Spec => []LinkMatchesIssue
<1>1. PeopleInv /\ LinkInv => LinkMatchesIssue
  <2> SUFFICES ASSUME PeopleInv, LinkInv, Settled, ~late, ~lost PROVE link = issue
    BY DEF LinkMatchesIssue
  <2>1. PICK c \in 0..issued : UnchangedSince(c)
    BY DEF LinkInv
  <2>2. events = {} /\ heard \in Nat /\ issued \in Nat
    BY DEF Settled, PeopleInv, TypeOK
  <2> QED BY <2>1, <2>2 DEF UnchangedSince
<1> QED BY <1>1, InitPeople, PeopleStep, InitLink, LinkStep, PTL DEF Spec
-----------------------------------------------------------------------------
(* How the issue came to be what it is.                                    *)

\* The events that change the state or the lock, and those that set the lock.
Turns == {"closed", "reopened", "locked", "unlocked"}
Locks == {"reopened", "locked", "unlocked"}

Same(i, j) == i.state = j.state /\ i.locked = j.locked

\* What an event of a kind makes of an issue.
Turned(kind, i, j) ==
  /\ kind = "closed" => j.state = "closed" /\ j.locked = i.locked
  /\ kind = "reopened" => j.state = "open" /\ j.locked = i.locked
  /\ kind = "locked" => j.state = i.state /\ j.locked = TRUE
  /\ kind = "unlocked" => j.state = i.state /\ j.locked = FALSE
  /\ kind \notin Turns => Same(i, j)

\* h has the issue as of each event.  What has changed since the newest event the relay has
\* handled is still to be told, unless it is lost; and if nobody has acted in Discord, the
\* relay knows the issue as of that event.
History(h) ==
  /\ h[issued] = issue
  /\ \A event \in events :
       /\ event.issue = h[event.id]
       /\ event.kind = "snapshot" => event.row > MaxEvents
       /\ event.kind # "snapshot" =>
            event.id # 0 /\ event.row = event.id /\ Turned(event.kind, h[event.id - 1], h[event.id])
  /\ ~lost => \A j \in heard..issued, k \in heard..issued : j <= k =>
       Same(h[j], h[k]) \/ \E event \in events : event.kind \in Turns /\ j < event.id /\ event.id <= k
  /\ ~late /\ ~lost /\ humanActs = 0 => link = h[heard]

HistoryInv == (plan.known => runs # 0) /\ \E h \in [Nat -> Issue] : History(h)

LEMMA EventNumbers ==
  ASSUME PeopleInv, LinkInv
  PROVE  /\ issued \in Nat /\ issued <= MaxEvents /\ heard \in Nat /\ heard <= issued
         /\ \A event \in events : event \in Event /\ event.id \in Nat /\ event.id <= issued
BY DEF PeopleInv, TypeOK, LinkInv, Event

LEMMA InitHistory == Init => HistoryInv
<1> SUFFICES ASSUME Init PROVE HistoryInv
  OBVIOUS
<1> DEFINE h == [k \in Nat |-> issue]
<1>1. /\ events = {} /\ issued = 0 /\ heard = 0 /\ link = issue /\ plan = NotSeen /\ ~NotSeen.known
      /\ issue \in Issue
  BY InitPeople DEF Init, NotSeen, PeopleInv, TypeOK
<1>2. h \in [Nat -> Issue] /\ \A k \in Nat : h[k] = issue
  BY <1>1
<1> HIDE DEF h
<1>3. History(h)
  BY <1>1, <1>2 DEF History, Same
<1> QED BY <1>1, <1>2, <1>3 DEF HistoryInv

LEMMA HistoryFrame ==
  ASSUME PeopleInv, LinkInv, HistoryInv, UNCHANGED <<issue, events, issued, heard>>,
         lost => lost', late => late', humanActs' = 0 => humanActs = 0,
         ~late' /\ ~lost' /\ humanActs' = 0 => link' = link,
         plan'.known => runs' # 0
  PROVE  HistoryInv'
<1>1. PICK h \in [Nat -> Issue] : History(h)
  BY DEF HistoryInv
<1>2. History(h)'
  BY <1>1 DEF History
<1> QED BY <1>2 DEF HistoryInv

LEMMA AnnounceHistory ==
  ASSUME PeopleInv, LinkInv, HistoryInv, NEW kind \in IssueEvent, NEW after \in Issue, NEW own \in BOOLEAN,
         Announce(kind, after, own), kind # "snapshot", Turned(kind, issue, after),
         UNCHANGED <<link, heard, lost, late, plan, runs, humanActs>>
  PROVE  HistoryInv'
<1>1. CASE after = issue /\ kind # "comment"
  <2>1. UNCHANGED <<issue, events, issued>>
    BY <1>1 DEF Announce, github
  <2> QED BY <2>1, HistoryFrame DEF HistoryInv
<1>2. CASE ~(after = issue /\ kind # "comment")
  <2> DEFINE new == [kind |-> kind, issue |-> after, own |-> own, id |-> issued', row |-> issued',
                     seen |-> NotSeen]
  <2>1. /\ events' = events \cup {new} /\ new.kind = kind /\ new.issue = after /\ new.row = issued + 1
        /\ new.id = issued + 1 /\ issued' = issued + 1 /\ issue' = after
    BY <1>2 DEF Announce
  <2> HIDE DEF new
  <2>2. PICK h \in [Nat -> Issue] : History(h)
    BY DEF HistoryInv
  <2>3. PICK g \in [Nat -> Issue] : g[issued + 1] = after /\ \A k \in 0..issued : g[k] = h[k]
    <3> DEFINE g == [k \in Nat |-> IF k = issued + 1 THEN after ELSE h[k]]
    <3>1. issued \in Nat /\ issued + 1 \in Nat
      BY EventNumbers
    <3>2. g \in [Nat -> Issue]
      BY <2>2
    <3>3. g[issued + 1] = after /\ \A k \in 0..issued : g[k] = h[k]
      BY <3>1
    <3> HIDE DEF g
    <3> QED BY <3>2, <3>3
  <2>4. g[issued'] = issue'
    BY <2>1, <2>3
  <2>5. ASSUME NEW event \in events'
        PROVE  /\ event.issue = g[event.id]
               /\ event.kind = "snapshot" => event.row > MaxEvents
               /\ event.kind # "snapshot" =>
                    event.id # 0 /\ event.row = event.id /\ Turned(event.kind, g[event.id - 1], g[event.id])
    <3>1. CASE event \in events
      <4>1. event.id \in Nat /\ event.id <= issued /\ issued \in Nat
        BY <3>1, EventNumbers
      <4>2. g[event.id] = h[event.id] /\ (event.id # 0 => g[event.id - 1] = h[event.id - 1])
        BY <2>3, <4>1
      <4> QED BY <2>2, <3>1, <4>2 DEF History
    <3>2. CASE event = new
      <4>1. g[issued] = issue /\ issued \in Nat
        BY <2>2, <2>3, EventNumbers DEF History
      <4> QED BY <2>1, <2>3, <3>2, <4>1
    <3> QED BY <2>1, <3>1, <3>2
  <2>6. ASSUME ~lost', NEW j \in heard'..issued', NEW k \in heard'..issued', j <= k
        PROVE  Same(g[j], g[k]) \/ \E event \in events' : event.kind \in Turns /\ j < event.id /\ event.id <= k
    <3>1. issued \in Nat /\ heard \in Nat /\ heard <= issued /\ issued' = issued + 1 /\ heard' = heard
      BY <2>1, EventNumbers
    <3>2. CASE k <= issued
      <4>1. /\ j \in heard..issued /\ k \in heard..issued /\ g[j] = h[j] /\ g[k] = h[k]
        BY <2>3, <2>6, <3>1, <3>2
      <4> QED BY <2>1, <2>2, <2>6, <4>1 DEF History
    <3>3. CASE j = issued + 1
      BY <2>6, <3>1, <3>3 DEF Same
    <3>4. CASE k = issued + 1 /\ j <= issued
      <4>1. j \in heard..issued /\ issued \in heard..issued /\ g[j] = h[j] /\ h[issued] = issue /\ g[k] = after
        BY <2>2, <2>3, <2>6, <3>1, <3>4 DEF History
      <4>2. CASE kind \in Turns
        BY <2>1, <3>1, <3>4, <4>2
      <4>3. CASE kind \notin Turns
        <5>1. Same(issue, after)
          BY <4>3 DEF Turned
        <5>2. Same(h[j], h[issued]) \/ \E event \in events : event.kind \in Turns /\ j < event.id /\ event.id <= issued
          BY <2>2, <2>6, <3>4, <4>1 DEF History
        <5>3. CASE Same(h[j], h[issued])
          BY <4>1, <5>1, <5>3 DEF Same
        <5>4. CASE \E event \in events : event.kind \in Turns /\ j < event.id /\ event.id <= issued
          <6>1. PICK event \in events : event.kind \in Turns /\ j < event.id /\ event.id <= issued
            BY <5>4
          <6>2. event.id \in Nat /\ event.id <= k
            BY <3>1, <3>4, <6>1, EventNumbers
          <6> QED BY <2>1, <6>1, <6>2
        <5> QED BY <5>2, <5>3, <5>4
      <4> QED BY <4>2, <4>3
    <3> QED BY <2>6, <3>1, <3>2, <3>3, <3>4
  <2>7. ASSUME ~late', ~lost', humanActs' = 0 PROVE link' = g[heard']
    <3>1. heard \in 0..issued
      BY EventNumbers
    <3> QED BY <2>2, <2>3, <2>7, <3>1 DEF History
  <2>8. History(g)'
    BY <2>4, <2>5, <2>6, <2>7 DEF History
  <2> QED BY <2>8 DEF HistoryInv
<1> QED BY <1>1, <1>2

LEMMA UsersHistory ==
  ASSUME PeopleInv, LinkInv, HistoryInv,
         UserCloses \/ UserReopens \/ UserLocks \/ UserUnlocks \/ UserRetitles \/ UserComments
  PROVE  HistoryInv'
<1>1. issue \in Issue
  BY DEF PeopleInv, TypeOK
<1>2. /\ [issue EXCEPT !.state = "closed"] \in Issue /\ [issue EXCEPT !.state = "open"] \in Issue
      /\ [issue EXCEPT !.locked = TRUE] \in Issue /\ [issue EXCEPT !.locked = FALSE] \in Issue
      /\ [issue EXCEPT !.title = "other"] \in Issue
      /\ Turned("closed", issue, [issue EXCEPT !.state = "closed"])
      /\ Turned("reopened", issue, [issue EXCEPT !.state = "open"])
      /\ Turned("locked", issue, [issue EXCEPT !.locked = TRUE])
      /\ Turned("unlocked", issue, [issue EXCEPT !.locked = FALSE])
      /\ Turned("edited", issue, [issue EXCEPT !.title = "other"])
      /\ Turned("comment", issue, issue)
  BY <1>1 DEF Issue, State, Title, Turned, Turns, Same
<1>3. {"closed", "reopened", "locked", "unlocked", "edited", "comment"} \subseteq IssueEvent \ {"snapshot"}
  BY DEF IssueEvent
<1>4. \/ UserActs("closed", [issue EXCEPT !.state = "closed"])
      \/ UserActs("reopened", [issue EXCEPT !.state = "open"])
      \/ UserActs("locked", [issue EXCEPT !.locked = TRUE])
      \/ UserActs("unlocked", [issue EXCEPT !.locked = FALSE])
      \/ UserActs("edited", [issue EXCEPT !.title = "other"])
      \/ UserActs("comment", issue)
  BY DEF UserCloses, UserReopens, UserLocks, UserUnlocks, UserRetitles, UserComments
<1>5. PICK kind \in IssueEvent \ {"snapshot"}, after \in Issue :
        UserActs(kind, after) /\ Turned(kind, issue, after)
  BY <1>1, <1>2, <1>3, <1>4, Zenon
<1>6. Announce(kind, after, FALSE) /\ UNCHANGED <<link, heard, lost, late, plan, runs, humanActs>>
  BY <1>5 DEF UserActs
<1> QED BY <1>5, <1>6, AnnounceHistory

LEMMA OutsideHistory ==
  ASSUME PeopleInv, LinkInv, HistoryInv,
         \/ ModeratorArchives \/ ModeratorLocks \/ ModeratorRenames \/ ModeratorTags
         \/ PersonPosts \/ Inactivity \/ CommandClose \/ Tick \/ ReadThread \/ HearMessage \/ HearUpdate
         \/ ClaimAudit \/ Classify \/ ClassifyEarly \/ FailQuery \/ UNCHANGED vars
         \/ (\E event \in events : ClaimEvent(event)) \/ ClaimOnThread \/ ClaimOnIssue
         \/ EnqueueLifecycle \/ EditThread \/ RecordIssue \/ Interrupt
  PROVE  HistoryInv'
<1>1. UNCHANGED <<issue, events, issued, heard, late>> /\ (UNCHANGED lost \/ Interrupt)
  BY DEF ModeratorArchives, ModeratorLocks, ModeratorRenames, ModeratorTags, ModeratorActs, PersonPosts,
     Inactivity, CommandClose, Tick, ReadThread, HearMessage, HearUpdate, ClaimAudit, Classify, ClassifyEarly,
     Decide, FailQuery, AuditOnly, DiscordOnly, WorkOnly, github, history, vars, ClaimEvent, ClaimOnThread,
     ClaimOnIssue, EnqueueLifecycle, EditThread, RecordIssue, Interrupt
<1>2. lost => lost'
  BY <1>1, Zenon DEF Interrupt
<1>3. humanActs' = humanActs \/ humanActs' = humanActs + 1
  BY DEF ModeratorArchives, ModeratorLocks, ModeratorRenames, ModeratorTags, ModeratorActs, PersonPosts,
     Inactivity, CommandClose, Tick, ReadThread, HearMessage, HearUpdate, ClaimAudit, Classify, ClassifyEarly,
     Decide, FailQuery, AuditOnly, DiscordOnly, WorkOnly, bounds, vars, ClaimEvent, ClaimOnThread,
     ClaimOnIssue, EnqueueLifecycle, EditThread, RecordIssue, Interrupt
<1>4. humanActs' = 0 => humanActs = 0
  BY <1>3 DEF PeopleInv, TypeOK
<1>5. link' = link \/ (RecordIssue /\ humanActs' = humanActs)
  BY DEF ModeratorArchives, ModeratorLocks, ModeratorRenames, ModeratorTags, ModeratorActs, PersonPosts,
     Inactivity, CommandClose, Tick, ReadThread, HearMessage, HearUpdate, ClaimAudit, Classify, ClassifyEarly,
     Decide, FailQuery, AuditOnly, DiscordOnly, WorkOnly, bounds, vars, ClaimEvent, ClaimOnThread,
     ClaimOnIssue, EnqueueLifecycle, EditThread, RecordIssue, Interrupt
<1>6. humanActs' = 0 => link' = link
  BY <1>5, NobodyTypes DEF RecordIssue
<1>7. plan'.known => runs' # 0
  <2>1. (plan' = plan /\ runs' = runs) \/ plan' = NotSeen \/ ReadThread
    BY DEF ModeratorArchives, ModeratorLocks, ModeratorRenames, ModeratorTags, ModeratorActs, PersonPosts,
     Inactivity, CommandClose, Tick, HearMessage, HearUpdate, ClaimAudit, Classify, ClassifyEarly,
     Decide, FailQuery, AuditOnly, DiscordOnly, WorkOnly, bounds, vars, ClaimEvent, ClaimOnThread,
     ClaimOnIssue, EnqueueLifecycle, EditThread, RecordIssue, Interrupt
  <2>2. CASE ReadThread
    <3>1. runs' = runs + 1 /\ runs \in Nat
      BY <2>2 DEF ReadThread, PeopleInv, TypeOK
    <3> QED BY <3>1
  <2> QED BY <2>1, <2>2 DEF HistoryInv, NotSeen
<1> QED BY <1>1, <1>4, <1>6, <1>7, <1>2, HistoryFrame

LEMMA SnapshotHistory ==
  ASSUME PeopleInv, LinkInv, HistoryInv, EnqueueSnapshot
  PROVE  HistoryInv'
<1> DEFINE new == [kind |-> "snapshot", issue |-> issue, own |-> FALSE, id |-> issued,
                   row |-> MaxEvents + runs, seen |-> plan]
<1>1. /\ events' = events \cup {new} /\ new.issue = issue /\ new.id = issued /\ new.kind = "snapshot"
      /\ new.row = MaxEvents + runs
      /\ UNCHANGED <<issue, issued, link, heard, late, lost, humanActs>> /\ plan' = NotSeen
  BY DEF EnqueueSnapshot, bounds, history
<1>2. new.row > MaxEvents
  <2>1. runs # 0 /\ runs \in Nat
    BY DEF EnqueueSnapshot, HistoryInv, PeopleInv, TypeOK
  <2> QED BY <1>1, <2>1
<1> HIDE DEF new
<1>3. PICK h \in [Nat -> Issue] : History(h)
  BY DEF HistoryInv
<1>4. History(h)'
  BY <1>1, <1>2, <1>3 DEF History
<1> QED BY <1>1, <1>4 DEF HistoryInv, NotSeen

\* The events that are gone have been handled.
LEMMA EndHistory ==
  ASSUME PeopleInv, LinkInv, HistoryInv, Finish \/ GiveUp \/ LoseEvent
  PROVE  HistoryInv'
<1>1. /\ UNCHANGED <<issue, issued, link, heard, late, plan, runs, humanActs>>
      /\ events' \subseteq events /\ (~lost' => ~lost /\ Finish)
  BY DEF Finish, GiveUp, LoseEvent, SettleRow, WorkOnly, bounds
<1>2. PICK h \in [Nat -> Issue] : History(h)
  BY DEF HistoryInv
<1>3. ASSUME ~lost', NEW j \in heard..issued, NEW k \in heard..issued, j <= k,
             ~Same(h[j], h[k])
      PROVE  \E event \in events' : event.kind \in Turns /\ j < event.id /\ event.id <= k
  <2>1. PICK event \in events : event.kind \in Turns /\ j < event.id /\ event.id <= k
    BY <1>1, <1>2, <1>3 DEF History
  <2>2. event.id \in Nat /\ heard \in Nat /\ issued \in Nat
    BY EventNumbers
  <2>3. heard < event.id
    BY <1>3, <2>1, <2>2
  <2>4. ~(handler.job = "event" /\ handler.event = event)
    BY <1>1, <1>3, <2>1, <2>2, <2>3 DEF Finish, LinkInv, EventHeld, Stored, Turns
  <2>5. event \in events'
    BY <1>1, <1>3, <2>4 DEF Finish, SettleRow
  <2> QED BY <2>1, <2>5
<1>4. History(h)'
  BY <1>1, <1>2, <1>3 DEF History
<1> QED BY <1>1, <1>4 DEF HistoryInv

LEMMA LinkIssueHistory ==
  ASSUME PeopleInv, LinkInv, HistoryInv, LinkIssue
  PROVE  HistoryInv'
<1> DEFINE event == handler.event
<1>1. /\ UNCHANGED <<issue, issued, events, lost, humanActs, plan, runs>> /\ handler.step = "link"
  BY DEF LinkIssue, github, WorkOnly, bounds
<1>2. event \in events
  BY <1>1 DEF LinkInv, EventHeld
<1> HIDE DEF event
<1>3. CASE ~Stored(event)
  <2>1. UNCHANGED <<link, heard, late>>
    BY <1>3 DEF LinkIssue, Stored, event
  <2> QED BY <1>1, <2>1, HistoryFrame DEF HistoryInv
<1>4. CASE Stored(event)
  <2>1. PICK h \in [Nat -> Issue] : History(h)
    BY DEF HistoryInv
  <2>2. Store(event)
    BY <1>4 DEF LinkIssue, Stored, event
  <2>3. /\ link' = event.issue /\ (late' <=> late \/ event.id < heard)
        /\ heard' = (IF event.id > heard THEN event.id ELSE heard)
    BY <2>2, Zenon DEF Store
  <2>4. /\ event.id \in Nat /\ heard \in Nat /\ heard' \in Nat /\ heard <= heard' /\ issued \in Nat
        /\ (~late' => heard' = event.id /\ ~late)
    BY <1>2, <2>3, EventNumbers
  <2>5. ~late' => link' = h[heard']
    BY <1>2, <2>1, <2>3, <2>4 DEF History
  <2>6. ASSUME NEW j \in heard'..issued PROVE j \in heard..issued
    BY <2>4
  <2>7. History(h)'
    BY <1>1, <2>1, <2>5, <2>6 DEF History
  <2> QED BY <1>1, <2>7 DEF HistoryInv
<1> QED BY <1>3, <1>4

LEMMA WriteHistory ==
  ASSUME PeopleInv, LinkInv, HistoryInv, PostNotice \/ WriteIssue
  PROVE  HistoryInv'
<1>1. UNCHANGED <<link, heard, lost, late, plan, runs, humanActs>> /\ issue \in Issue /\ TRUE \in BOOLEAN
  BY DEF PostNotice, WriteIssue, WorkOnly, bounds, history, PeopleInv, TypeOK
<1>2. {"closed", "reopened", "locked", "unlocked", "edited", "comment"} \subseteq IssueEvent \ {"snapshot"}
  BY DEF IssueEvent
<1>3. CASE PostNotice
  <2>1. Announce("comment", issue, TRUE) /\ "comment" \in IssueEvent /\ "comment" # "snapshot"
    BY <1>2, <1>3 DEF PostNotice
  <2>2. Turned("comment", issue, issue)
    BY DEF Turned, Turns, Same
  <2> QED BY <1>1, <2>1, <2>2, AnnounceHistory
<1>4. CASE WriteIssue
  <2> DEFINE op == handler.op
  <2>1. op.issue.title \in Title /\ op.action \in ToGitHub
    BY <1>4 DEF WriteIssue, PeopleInv, TypeOK, HandlerAgrees, OnIssueOp, Operation, Issue
  <2>2. /\ [issue EXCEPT !.state = "closed"] \in Issue /\ [issue EXCEPT !.state = "open"] \in Issue
        /\ [issue EXCEPT !.locked = TRUE] \in Issue /\ [issue EXCEPT !.locked = FALSE] \in Issue
        /\ [issue EXCEPT !.title = op.issue.title] \in Issue
        /\ Turned("closed", issue, [issue EXCEPT !.state = "closed"])
        /\ Turned("reopened", issue, [issue EXCEPT !.state = "open"])
        /\ Turned("locked", issue, [issue EXCEPT !.locked = TRUE])
        /\ Turned("unlocked", issue, [issue EXCEPT !.locked = FALSE])
        /\ Turned("edited", issue, [issue EXCEPT !.title = op.issue.title])
    BY <1>1, <2>1 DEF Issue, State, Turned, Turns, Same
  <2>3. \/ op.action = "close" /\ Announce("closed", [issue EXCEPT !.state = "closed"], TRUE)
        \/ op.action = "reopen" /\ Announce("reopened", [issue EXCEPT !.state = "open"], TRUE)
        \/ op.action = "lock" /\ Announce("locked", [issue EXCEPT !.locked = TRUE], TRUE)
        \/ op.action = "unlock" /\ Announce("unlocked", [issue EXCEPT !.locked = FALSE], TRUE)
        \/ op.action = "rename" /\ Announce("edited", [issue EXCEPT !.title = op.issue.title], TRUE)
        \/ op.action = "labels" /\ UNCHANGED github
    <3> HIDE DEF op
    <3>1. op.action = "close" \/ op.action = "reopen" \/ op.action = "lock" \/ op.action = "unlock"
          \/ op.action = "rename" \/ op.action = "labels"
      BY <2>1 DEF ToGitHub
    <3> QED BY <1>4, <3>1, Zenon DEF WriteIssue, op
  <2> HIDE DEF op
  <2>4. CASE UNCHANGED github
    BY <1>1, <2>4, HistoryFrame DEF github, HistoryInv
  <2>5. CASE \E kind \in IssueEvent \ {"snapshot"}, after \in Issue :
               Announce(kind, after, TRUE) /\ Turned(kind, issue, after)
    BY <1>1, <2>5, AnnounceHistory
  <2> QED BY <1>2, <2>2, <2>3, <2>4, <2>5, Zenon
<1> QED BY <1>3, <1>4

LEMMA HistoryStep == PeopleInv /\ LinkInv /\ HistoryInv /\ [Next]_vars => HistoryInv'
<1> SUFFICES ASSUME PeopleInv, LinkInv, HistoryInv, [Next]_vars PROVE HistoryInv'
  OBVIOUS
<1>1. CASE UserCloses \/ UserReopens \/ UserLocks \/ UserUnlocks \/ UserRetitles \/ UserComments
  BY <1>1, UsersHistory
<1>2. CASE \/ ModeratorArchives \/ ModeratorLocks \/ ModeratorRenames \/ ModeratorTags
           \/ PersonPosts \/ Inactivity \/ CommandClose \/ Tick \/ ReadThread \/ HearMessage \/ HearUpdate
           \/ ClaimAudit \/ Classify \/ ClassifyEarly \/ FailQuery \/ UNCHANGED vars
           \/ (\E event \in events : ClaimEvent(event)) \/ ClaimOnThread \/ ClaimOnIssue
           \/ EnqueueLifecycle \/ EditThread \/ RecordIssue \/ Interrupt
  BY <1>2, OutsideHistory
<1>3. CASE EnqueueSnapshot
  BY <1>3, SnapshotHistory
<1>4. CASE Finish \/ GiveUp \/ LoseEvent
  BY <1>4, EndHistory
<1>5. CASE LinkIssue \/ PostNotice \/ WriteIssue
  BY <1>5, LinkIssueHistory, WriteHistory
<1> QED BY <1>1, <1>2, <1>3, <1>4, <1>5 DEF Next
-----------------------------------------------------------------------------
(* What the handlers of events enqueue.                                    *)

\* The operation is true of the issue it has been made from.
Fits(op) ==
  /\ op.action = "closed" => op.issue.state = "closed"
  /\ op.action = "reopened" => op.issue.state = "open"
  /\ op.action = "locked" => op.issue.locked = TRUE
  /\ op.action = "unlocked" => op.issue.locked = FALSE

\* What may be enqueued for an event.
FitOps(event) ==
  {op \in OnThreadOp : op.action \in Turns =>
     Stored(event) /\ op.issue = event.issue /\ op.row = event.row /\ Fits(op)}

\* The handler of a turn enqueues its operation, and an event that is in hand, unless an older
\* one came after a newer, is the newest the relay has handled.
EnqueueInv ==
  /\ handler.job = "event" /\ handler.step # "link" /\ Stored(handler.event) /\ ~late
       => heard = handler.event.id
  /\ handler.step = "enqueue" => handler.todo \in Seq(FitOps(handler.event))
  /\ handler.job = "event" /\ handler.event.kind \in Turns =>
       /\ handler.step = "enqueue" => handler.todo = <<OnThread(handler.event.kind, handler.event)>>
       /\ handler.step = "end" => <<handler.event.kind, handler.event.row, "other">> \in keys
  /\ \A key \in keys : key[1] \in Turns => key[2] <= heard \/ key[2] > MaxEvents

LEMMA InitEnqueue == Init => EnqueueInv
<1> SUFFICES ASSUME Init PROVE EnqueueInv
  OBVIOUS
<1>1. keys = {<<"title", 0, "long">>} /\ handler = Idle
  BY DEF Init
<1> QED BY <1>1, IdleTypes DEF EnqueueInv, Turns

LEMMA OnThreadFits ==
  ASSUME NEW event \in Event, NEW action \in ToDiscord,
         action \in Turns => Stored(event) /\ Fits(OnThread(action, event))
  PROVE  OnThread(action, event) \in FitOps(event)
<1>1. OnThread(action, event) \in OnThreadOp
  BY OnThreadTypes
<1>2. /\ OnThread(action, event).action = action /\ OnThread(action, event).issue = event.issue
      /\ OnThread(action, event).row = event.row
  BY DEF OnThread
<1> QED BY <1>1, <1>2 DEF FitOps

LEMMA IntendedFits ==
  ASSUME PeopleInv, LinkInv, HistoryInv, NEW event \in events
  PROVE  Intended(event, link) \in Seq(FitOps(event))
<1>1. event \in Event /\ event.issue \in Issue /\ event.kind \in IssueEvent
  BY DEF PeopleInv, TypeOK, Event
<1>2. /\ OnThread("comment", event) \in FitOps(event) /\ OnThread("title", event) \in FitOps(event)
      /\ OnThread("activity", event) \in FitOps(event)
  BY <1>1, OnThreadFits DEF ToDiscord, Turns
<1>3. CASE event.kind = "comment"
  BY <1>2, <1>3 DEF Intended
<1>4. CASE event.kind \in Turns
  <2>1. Fits(OnThread(event.kind, event))
    <3>1. PICK h \in [Nat -> Issue] : History(h)
      BY DEF HistoryInv
    <3>2. Turned(event.kind, h[event.id - 1], event.issue)
      BY <1>4, <3>1 DEF History, Turns
    <3> QED BY <1>4, <3>2 DEF Turned, Fits, OnThread
  <2>2. OnThread(event.kind, event) \in FitOps(event)
    BY <1>1, <1>4, <2>1, OnThreadFits DEF ToDiscord, Turns, Stored
  <2>3. Intended(event, link) = <<OnThread(event.kind, event)>>
    BY <1>4 DEF Intended, Turns
  <2> QED BY <2>2, <2>3
<1>5. CASE event.kind \in {"snapshot", "edited"}
  <2> DEFINE after    == event.issue
             seen     == event.seen
             mismatch == seen.known /\ IF after.state = "closed" THEN ~seen.archived
                                       ELSE ~after.locked /\ (seen.archived \/ seen.locked)
             state == IF link.state # after.state \/ mismatch
                      THEN <<OnThread(IF after.state = "closed" THEN "closed" ELSE "reopened", event)>>
                      ELSE <<>>
             lock  == IF link.locked # after.locked \/ (seen.known /\ seen.locked # after.locked)
                      THEN <<OnThread(IF after.locked THEN "locked" ELSE "unlocked", event)>> ELSE <<>>
             feed  == IF event.own THEN <<>> ELSE <<OnThread("activity", event)>>
  <2>1. OnThread(IF after.state = "closed" THEN "closed" ELSE "reopened", event) \in FitOps(event)
    <3>1. CASE after.state = "closed"
      BY <1>1, <1>5, <3>1, OnThreadFits DEF ToDiscord, Fits, OnThread, Stored
    <3>2. CASE after.state # "closed"
      BY <1>1, <1>5, <3>2, OnThreadFits DEF ToDiscord, Fits, OnThread, Stored, Issue, State
    <3> QED BY <3>1, <3>2
  <2>2. OnThread(IF after.locked THEN "locked" ELSE "unlocked", event) \in FitOps(event)
    <3>1. CASE after.locked = TRUE
      BY <1>1, <1>5, <3>1, OnThreadFits DEF ToDiscord, Fits, OnThread, Stored
    <3>2. CASE after.locked = FALSE
      BY <1>1, <1>5, <3>2, OnThreadFits DEF ToDiscord, Fits, OnThread, Stored
    <3> QED BY <1>1, <3>1, <3>2 DEF Issue
  <2>3. state \in Seq(FitOps(event)) /\ lock \in Seq(FitOps(event)) /\ feed \in Seq(FitOps(event))
        /\ <<OnThread("title", event)>> \in Seq(FitOps(event))
    BY <1>2, <2>1, <2>2
  <2>4. Repairs(event, link) = state \o lock
    BY DEF Repairs
  <2>5. \/ Intended(event, link) = <<OnThread("title", event)>> \o Repairs(event, link)
        \/ Intended(event, link) = (<<OnThread("title", event)>> \o Repairs(event, link)) \o feed
    BY <1>5 DEF Intended
  <2> HIDE DEF state, lock, feed
  <2>6. Repairs(event, link) \in Seq(FitOps(event))
    BY <2>3, <2>4, ConcatProperties
  <2>7. <<OnThread("title", event)>> \o Repairs(event, link) \in Seq(FitOps(event))
    BY <2>3, <2>6, ConcatProperties
  <2>8. (<<OnThread("title", event)>> \o Repairs(event, link)) \o feed \in Seq(FitOps(event))
    BY <2>3, <2>7, ConcatProperties
  <2> QED BY <2>5, <2>7, <2>8, Zenon
<1> QED BY <1>1, <1>3, <1>4, <1>5 DEF IssueEvent, Turns

\* A handler that is none of an event's, or stays where it is.
LEMMA EnqueueFrame ==
  ASSUME PeopleInv, EnqueueInv, UNCHANGED <<keys, heard>>, late => late',
         \/ handler' = handler
         \/ handler'.job # "event" /\ handler'.step # "enqueue"
         \/ handler'.job = "event" /\ handler'.step = "link"
  PROVE  EnqueueInv'
BY DEF EnqueueInv, OnThread

LEMMA QuietEnqueue ==
  ASSUME PeopleInv, LinkInv, EnqueueInv,
         \/ UserCloses \/ UserReopens \/ UserLocks \/ UserUnlocks \/ UserRetitles \/ UserComments
         \/ ModeratorArchives \/ ModeratorLocks \/ ModeratorRenames \/ ModeratorTags
         \/ PersonPosts \/ Inactivity \/ CommandClose \/ Tick \/ ReadThread \/ EnqueueSnapshot
         \/ HearMessage \/ HearUpdate \/ LoseEvent
         \/ ClaimAudit \/ Classify \/ ClassifyEarly \/ FailQuery \/ UNCHANGED vars
  PROVE  EnqueueInv'
<1>1. UNCHANGED <<keys, heard, late, handler>>
  BY DEF UserCloses, UserReopens, UserLocks, UserUnlocks, UserRetitles, UserComments, UserActs,
     ModeratorArchives, ModeratorLocks, ModeratorRenames, ModeratorTags, ModeratorActs, PersonPosts,
     Inactivity, CommandClose, Tick, ReadThread, EnqueueSnapshot, HearMessage, HearUpdate, LoseEvent,
     ClaimAudit, Classify, ClassifyEarly, Decide, FailQuery, AuditOnly, DiscordOnly, WorkOnly, history, vars
<1> QED BY <1>1, EnqueueFrame

LEMMA HandlerEnqueue ==
  ASSUME PeopleInv, LinkInv, EnqueueInv,
         \/ (\E event \in events : ClaimEvent(event)) \/ ClaimOnThread \/ ClaimOnIssue
         \/ EditThread \/ PostNotice \/ WriteIssue \/ RecordIssue
         \/ Finish \/ GiveUp \/ Interrupt
  PROVE  EnqueueInv'
<1>1. UNCHANGED <<keys, heard, late>>
  BY DEF ClaimEvent, ClaimOnThread, ClaimOnIssue, EditThread, PostNotice, WriteIssue, RecordIssue,
     Finish, GiveUp, Interrupt, SettleRow, WorkOnly, history
<1>2. CASE \E event \in events : ClaimEvent(event)
  <2>1. handler'.job = "event" /\ handler'.step = "link"
    BY <1>2 DEF ClaimEvent, Idle
  <2> QED BY <1>1, <2>1, EnqueueFrame
<1>3. CASE ClaimOnThread \/ ClaimOnIssue
  <2>1. handler'.job = "operation" /\ handler'.step # "enqueue"
    BY <1>3 DEF ClaimOnThread, ClaimOnIssue, Idle
  <2> QED BY <1>1, <2>1, EnqueueFrame
<1>4. CASE EditThread \/ PostNotice \/ WriteIssue \/ RecordIssue
  <2>1. handler'.job = handler.job /\ handler.step \in {"edit", "notice", "write", "record"}
        /\ handler'.step \in {"edit", "write", "record", "end"}
    BY <1>4 DEF EditThread, PostNotice, WriteIssue, RecordIssue, Goto, PeopleInv, TypeOK, Handler
  <2>2. handler.job # "event"
    BY <2>1 DEF LinkInv, EventHeld
  <2> QED BY <1>1, <2>1, <2>2, EnqueueFrame
<1>5. CASE Finish \/ GiveUp \/ Interrupt
  <2>1. handler' = Idle
    BY <1>5 DEF Finish, GiveUp, Interrupt, SettleRow
  <2> QED BY <1>1, <2>1, IdleTypes, EnqueueFrame
<1> QED BY <1>2, <1>3, <1>4, <1>5

LEMMA LinkIssueEnqueue ==
  ASSUME PeopleInv, LinkInv, HistoryInv, EnqueueInv, LinkIssue
  PROVE  EnqueueInv'
<1> DEFINE event == handler.event
<1>1. handler.step = "link" /\ keys' = keys
  BY DEF LinkIssue
<1>2. event \in events /\ handler.job = "event" /\ event.id \in Nat /\ heard \in Nat
  BY <1>1, EventNumbers DEF LinkInv, EventHeld
<1>3. Intended(event, link) \in Seq(FitOps(event))
  BY <1>2, IntendedFits
<1>4. /\ handler'.job = "event" /\ handler'.event = event /\ handler'.step = "enqueue"
      /\ handler'.todo = Intended(event, link)
  BY <1>2 DEF LinkIssue, PeopleInv, TypeOK, Handler
<1>5. event.kind \in Turns => Intended(event, link) = <<OnThread(event.kind, event)>>
  BY DEF Intended, Turns
<1> HIDE DEF event
<1>6. heard' \in Nat /\ heard <= heard' /\ (Stored(event) /\ ~late' => heard' = event.id)
  <2>1. CASE ~Stored(event)
    BY <1>2, <2>1 DEF LinkIssue, Stored, event
  <2>2. CASE Stored(event)
    <3>1. Store(event)
      BY <2>2 DEF LinkIssue, Stored, event
    <3>2. /\ (late' <=> late \/ event.id < heard)
          /\ heard' = (IF event.id > heard THEN event.id ELSE heard)
      BY <3>1, Zenon DEF Store
    <3> QED BY <1>2, <3>2
  <2> QED BY <2>1, <2>2
<1>7. \A key \in keys' : key[1] \in Turns => key[2] <= heard' \/ key[2] > MaxEvents
  <2>1. \A key \in keys : key[2] \in Nat
    BY DEF PeopleInv, TypeOK
  <2> QED BY <1>1, <1>2, <1>6, <2>1 DEF EnqueueInv
<1> QED BY <1>3, <1>4, <1>5, <1>6, <1>7 DEF EnqueueInv, OnThread

\* One operation of an event goes into the outbox, unless its key is known.
LEMMA EnqueueTakes ==
  ASSUME PeopleInv, LinkInv, EnqueueInv, EnqueueLifecycle
  PROVE  /\ handler.job = "event" /\ handler.event \in events /\ handler.step = "enqueue"
         /\ Head(handler.todo) \in FitOps(handler.event) /\ Tail(handler.todo) \in Seq(FitOps(handler.event))
         /\ handler'.job = "event" /\ handler'.event = handler.event /\ handler'.todo = Tail(handler.todo)
         /\ handler'.step = (IF Len(handler.todo) = 1 THEN "end" ELSE "enqueue")
         /\ keys' = keys \cup {KeyOf(Head(handler.todo))}
         /\ ops' = IF KeyOf(Head(handler.todo)) \in keys THEN ops ELSE Append(ops, Head(handler.todo))
         /\ UNCHANGED <<heard, late, lost, link, events, thread, issue, issued, humanActs, idles>>
<1>1. handler.step = "enqueue" /\ handler.todo # <<>> /\ handler.todo \in Seq(FitOps(handler.event))
  BY DEF EnqueueLifecycle, PeopleInv, HandlerAgrees, EnqueueInv
<1>2. handler.job = "event" /\ handler.event \in events
  BY <1>1 DEF LinkInv, EventHeld
<1>3. Head(handler.todo) \in FitOps(handler.event) /\ Tail(handler.todo) \in Seq(FitOps(handler.event))
  BY <1>1, HeadTailProperties
<1>4. /\ handler'.job = "event" /\ handler'.event = handler.event /\ handler'.todo = Tail(handler.todo)
      /\ handler'.step = (IF Len(handler.todo) = 1 THEN "end" ELSE "enqueue")
  BY <1>1, <1>2 DEF EnqueueLifecycle, PeopleInv, TypeOK, Handler
<1>5. /\ keys' = keys \cup {KeyOf(Head(handler.todo))}
      /\ ops' = IF KeyOf(Head(handler.todo)) \in keys THEN ops ELSE Append(ops, Head(handler.todo))
      /\ UNCHANGED <<heard, late, lost, link, events, thread, issue, issued, humanActs, idles>>
  BY DEF EnqueueLifecycle, WorkOnly, github, discord, bounds, history
<1> QED BY <1>1, <1>2, <1>3, <1>4, <1>5

LEMMA KeyOfTurn ==
  ASSUME NEW op, op.action \in Turns
  PROVE  KeyOf(op) = <<op.action, op.row, "other">>
BY DEF KeyOf, Turns

LEMMA KeyOfOther ==
  ASSUME NEW op, op.action \notin Turns
  PROVE  KeyOf(op)[1] \notin Turns
BY DEF KeyOf, Turns

LEMMA TakeEnqueue ==
  ASSUME PeopleInv, LinkInv, HistoryInv, EnqueueInv, EnqueueLifecycle
  PROVE  EnqueueInv'
<1> DEFINE event == handler.event
           op    == Head(handler.todo)
<1>1. /\ handler.job = "event" /\ event \in events /\ handler.step = "enqueue"
      /\ op \in FitOps(event) /\ Tail(handler.todo) \in Seq(FitOps(event))
      /\ handler'.job = "event" /\ handler'.event = event /\ handler'.todo = Tail(handler.todo)
      /\ handler'.step = (IF Len(handler.todo) = 1 THEN "end" ELSE "enqueue")
      /\ keys' = keys \cup {KeyOf(op)} /\ UNCHANGED <<heard, late>>
  BY EnqueueTakes
<1>2. event.kind \in Turns => handler.todo = <<OnThread(event.kind, event)>>
  BY <1>1 DEF EnqueueInv
<1>3. event.kind \in Turns =>
        handler'.step = "end" /\ <<event.kind, event.row, "other">> \in keys'
  <2> SUFFICES ASSUME event.kind \in Turns
               PROVE  handler'.step = "end" /\ <<event.kind, event.row, "other">> \in keys'
    OBVIOUS
  <2>1. handler.todo = <<OnThread(event.kind, event)>>
    BY <1>2
  <2>2. Len(handler.todo) = 1 /\ op = OnThread(event.kind, event)
    BY <2>1
  <2>3. op.action = event.kind /\ op.row = event.row
    BY <2>2 DEF OnThread
  <2>4. KeyOf(op) = <<event.kind, event.row, "other">>
    <3> HIDE DEF op
    <3> QED BY <2>3, KeyOfTurn
  <2> QED BY <1>1, <2>2, <2>4
<1> HIDE DEF event, op
<1>4. \A key \in keys' : key[1] \in Turns => key[2] <= heard' \/ key[2] > MaxEvents
  <2> SUFFICES ASSUME KeyOf(op)[1] \in Turns PROVE KeyOf(op)[2] <= heard \/ KeyOf(op)[2] > MaxEvents
    BY <1>1 DEF EnqueueInv
  <2>1. op.action \in Turns
    BY KeyOfOther
  <2>2. Stored(event) /\ op.row = event.row /\ KeyOf(op) = <<op.action, op.row, "other">>
    BY <1>1, <2>1, KeyOfTurn DEF FitOps
  <2>3. event.row > MaxEvents \/ event.row = event.id
    BY <1>1 DEF HistoryInv, History
  <2>4. event.id <= heard
    BY <1>1, <2>2 DEF LinkInv, EventHeld, event
  <2> QED BY <2>2, <2>3, <2>4
<1>5. Stored(event) /\ ~late' => heard' = event.id
  BY <1>1 DEF EnqueueInv, event
<1> QED BY <1>1, <1>3, <1>4, <1>5 DEF EnqueueInv

LEMMA EnqueueInvStep == PeopleInv /\ LinkInv /\ HistoryInv /\ EnqueueInv /\ [Next]_vars => EnqueueInv'
<1> SUFFICES ASSUME PeopleInv, LinkInv, HistoryInv, EnqueueInv, [Next]_vars PROVE EnqueueInv'
  OBVIOUS
<1>1. CASE \/ UserCloses \/ UserReopens \/ UserLocks \/ UserUnlocks \/ UserRetitles \/ UserComments
           \/ ModeratorArchives \/ ModeratorLocks \/ ModeratorRenames \/ ModeratorTags
           \/ PersonPosts \/ Inactivity \/ CommandClose \/ Tick \/ ReadThread \/ EnqueueSnapshot
           \/ HearMessage \/ HearUpdate \/ LoseEvent
           \/ ClaimAudit \/ Classify \/ ClassifyEarly \/ FailQuery \/ UNCHANGED vars
  BY <1>1, QuietEnqueue
<1>2. CASE \/ (\E event \in events : ClaimEvent(event)) \/ ClaimOnThread \/ ClaimOnIssue
           \/ EditThread \/ PostNotice \/ WriteIssue \/ RecordIssue
           \/ Finish \/ GiveUp \/ Interrupt
  BY <1>2, HandlerEnqueue
<1>3. CASE LinkIssue \/ EnqueueLifecycle
  BY <1>3, LinkIssueEnqueue, TakeEnqueue
<1> QED BY <1>1, <1>2, <1>3 DEF Next
-----------------------------------------------------------------------------
(* What an operation makes of the thread.                                  *)

\* Whether a turn leaves the thread archived, and locked; whether an operation opens it to post
\* and archives it again, if it finds this link, by itself or after it has unlocked the thread.
Archives(op) ==
  \/ op.action \in {"closed", "locked"}
  \/ op.action = "reopened" /\ op.issue.locked = TRUE
  \/ op.action = "unlocked" /\ op.issue.state = "closed"
LocksIt(op) == op.action = "locked" \/ (op.action = "reopened" /\ op.issue.locked = TRUE)
Visits(op, from) ==
  /\ from.state = "closed"
  /\ op.action = "comment" \/ (op.action = "activity" /\ from.locked = FALSE)
Opens(op, from) == from.state = "closed" /\ op.action = "unlocked" /\ op.own = FALSE

\* As long as nobody but the relay changes the thread, what has been done of the running
\* operation is done, and what is left of it is still to come.
Running ==
  humanActs = 0 /\ idles = 0 /\ handler.job = "operation" =>
    /\ handler.op = Head(ops) /\ handler.step \in {"edit", "end"}
    /\ handler.step = "edit" =>
         \/ handler.edits = Edits(handler.op, link)
         \/ /\ handler.edits \in {Visit, <<Archive(TRUE)>>}
            /\ Visits(handler.op, link) \/ Opens(handler.op, link)
            /\ handler.op.action \in Locks => (thread.locked = TRUE <=> LocksIt(handler.op))
    /\ handler.step = "end" =>
         /\ handler.op.action \in Turns =>
              (thread.archived = TRUE <=> Archives(handler.op) \/ Opens(handler.op, link))
         /\ handler.op.action \in Locks => (thread.locked = TRUE <=> LocksIt(handler.op))
         /\ Visits(handler.op, link) => thread.archived = TRUE

LEMMA TypedBooleans ==
  ASSUME NEW b \in BOOLEAN
  PROVE  (b <=> b = TRUE) /\ (~b <=> b = FALSE)
OBVIOUS

\* Sequences of edits.
LEMMA Visited ==
  /\ Visit # <<>> /\ Len(Visit) = 2 /\ Len(Visit) # 1 /\ Head(Visit) = Archive(FALSE) /\ Tail(Visit) = <<Archive(TRUE)>>
<1> DEFINE a == Archive(FALSE)
           b == Archive(TRUE)
<1>1. Visit = <<a, b>>
  BY DEF Visit
<1> HIDE DEF a, b
<1>2. Len(<<a, b>>) = 2 /\ Len(<<a, b>>) # 1 /\ <<a, b>> # <<>> /\ Head(<<a, b>>) = a
  OBVIOUS
<1>3. Tail(<<a, b>>) = <<b>>
  <2>1. <<a, b>> \in Seq({a, b}) /\ <<b>> \in Seq({a, b})
    OBVIOUS
  <2>2. Len(Tail(<<a, b>>)) = 1 /\ Tail(<<a, b>>)[1] = b
    BY <1>2, <2>1, HeadTailProperties
  <2>3. Tail(<<a, b>>) \in Seq({a, b})
    BY <1>2, <2>1, HeadTailProperties
  <2> QED BY <2>1, <2>2, <2>3, SeqEqual
<1> QED BY <1>1, <1>2, <1>3 DEF a, b

LEMMA Once ==
  ASSUME NEW edit
  PROVE  <<edit>> # <<>> /\ Len(<<edit>>) = 1 /\ Head(<<edit>>) = edit /\ <<edit>> \o <<>> = <<edit>>
<1>1. <<edit>> # <<>> /\ Len(<<edit>>) = 1 /\ Head(<<edit>>) = edit
  OBVIOUS
<1>2. <<edit>> \in Seq({edit})
  OBVIOUS
<1>3. <<edit>> \o <<>> = <<edit>>
  BY <1>2, ConcatEmptySeq
<1> QED BY <1>1, <1>3

LEMMA ThenVisit ==
  ASSUME NEW edit
  PROVE  /\ <<edit>> \o Visit # <<>> /\ Len(<<edit>> \o Visit) = 3
         /\ Head(<<edit>> \o Visit) = edit /\ Tail(<<edit>> \o Visit) = Visit
<1> DEFINE S     == {edit, Archive(FALSE), Archive(TRUE)}
           one   == <<edit>>
           whole == one \o Visit
<1>1. one \in Seq(S) /\ Visit \in Seq(S) /\ Len(one) = 1 /\ one[1] = edit
  BY DEF Visit
<1>2. Len(Visit) = 2 /\ Len(<<>>) = 0
  BY Visited
<1> HIDE DEF S, one
<1>3. whole \in Seq(S) /\ Len(whole) = Len(one) + Len(Visit)
      /\ \A i \in 1..(Len(one) + Len(Visit)) :
           whole[i] = (IF i <= Len(one) THEN one[i] ELSE Visit[i - Len(one)])
  BY <1>1, ConcatProperties
<1> HIDE DEF whole
<1>4. Len(whole) = 3 /\ whole # <<>> /\ whole[1] = edit /\ whole[2] = Visit[1] /\ whole[3] = Visit[2]
  BY <1>1, <1>2, <1>3
<1>5. Head(whole) = edit
  BY <1>3, <1>4
<1> DEFINE rest == Tail(whole)
<1>6. rest \in Seq(S) /\ Len(rest) = Len(whole) - 1 /\ \A i \in 1..Len(rest) : rest[i] = whole[i + 1]
  BY <1>3, <1>4, HeadTailProperties
<1> HIDE DEF rest
<1>7. Len(rest) = 2 /\ rest[1] = Visit[1] /\ rest[2] = Visit[2]
  BY <1>4, <1>6
<1>8. rest = Visit
  BY <1>1, <1>2, <1>6, <1>7, SeqEqual
<1> QED BY <1>3, <1>4, <1>5, <1>8 DEF whole, one, rest

\* The edits of each operation.
LEMMA EditsOf ==
  ASSUME NEW op \in OnThreadOp, NEW from \in Issue
  PROVE  /\ op.action = "closed" => Edits(op, from) = <<Archive(TRUE)>>
         /\ op.action = "reopened" => Edits(op, from) = <<Both(op.issue.locked, op.issue.locked)>>
         /\ op.action = "locked" => Edits(op, from) = <<Both(TRUE, TRUE)>>
         /\ op.action = "unlocked" /\ Opens(op, from) =>
              Edits(op, from) = <<Both(op.issue.state = "closed", FALSE)>> \o Visit
         /\ op.action = "unlocked" /\ ~Opens(op, from) =>
              Edits(op, from) = <<Both(op.issue.state = "closed", FALSE)>>
         /\ op.action = "title" => Edits(op, from) = <<Set("name", FALSE, FALSE, Shown(op.issue.title))>>
         /\ op.action \in {"activity", "comment"} =>
              Edits(op, from) = (IF Visits(op, from) THEN Visit ELSE <<>>)
<1>1. op.own \in BOOLEAN /\ from.locked \in BOOLEAN
  BY DEF OnThreadOp, Operation, Issue
<1>2. (~op.own <=> op.own = FALSE) /\ (~from.locked <=> from.locked = FALSE)
  BY <1>1, TypedBooleans
<1>3. CASE op.action = "closed"
  BY <1>3 DEF Edits
<1>4. CASE op.action = "reopened"
  BY <1>4 DEF Edits
<1>5. CASE op.action = "locked"
  BY <1>5 DEF Edits
<1>6. CASE op.action = "unlocked"
  <2> DEFINE first == Both(op.issue.state = "closed", FALSE)
  <2>1. Edits(op, from) = <<first>> \o (IF ~op.own /\ from.state = "closed" THEN Visit ELSE <<>>)
    BY <1>6, Zenon DEF Edits
  <2> HIDE DEF first
  <2>2. Opens(op, from) <=> ~op.own /\ from.state = "closed"
    BY <1>2, <1>6, Zenon DEF Opens
  <2>3. <<first>> \o <<>> = <<first>>
    BY Once
  <2>4. Opens(op, from) => Edits(op, from) = <<first>> \o Visit
    BY <2>1, <2>2, Zenon
  <2>5. ~Opens(op, from) => Edits(op, from) = <<first>>
    BY <2>1, <2>2, <2>3, Zenon
  <2> QED BY <1>6, <2>4, <2>5 DEF first
<1>7. CASE op.action = "title"
  BY <1>7 DEF Edits
<1>8. CASE op.action = "activity"
  <2>1. Edits(op, from) = (IF from.state = "closed" /\ ~from.locked THEN Visit ELSE <<>>)
    BY <1>8 DEF Edits
  <2>2. Visits(op, from) <=> from.state = "closed" /\ ~from.locked
    BY <1>2, <1>8 DEF Visits
  <2> QED BY <1>8, <2>1, <2>2
<1>9. CASE op.action = "comment"
  <2>1. Edits(op, from) = (IF from.state = "closed" THEN Visit ELSE <<>>)
    BY <1>9 DEF Edits
  <2>2. Visits(op, from) <=> from.state = "closed"
    BY <1>9 DEF Visits
  <2> QED BY <1>9, <2>1, <2>2
<1> QED BY <1>3, <1>4, <1>5, <1>6, <1>7, <1>8, <1>9 DEF OnThreadOp, ToDiscord

\* The thread after an edit.
LEMMA EditedBy ==
  ASSUME thread \in Thread
  PROVE  /\ Edited(Archive(TRUE)).archived = TRUE /\ Edited(Archive(TRUE)).locked = thread.locked
         /\ Edited(Archive(FALSE)).locked = thread.locked
         /\ \A b, c \in BOOLEAN : Edited(Both(b, c)).archived = b /\ Edited(Both(b, c)).locked = c
         /\ \A t \in Title : /\ Edited(Set("name", FALSE, FALSE, t)).archived = thread.archived
                             /\ Edited(Set("name", FALSE, FALSE, t)).locked = thread.locked
BY DEF Edited, Archive, Both, Set, Thread

LEMMA InitRunning == Init => Running
BY IdleTypes DEF Init, Running

LEMMA RunningFrame ==
  ASSUME Running,
         \/ handler'.job # "operation"
         \/ humanActs' # 0 \/ idles' # 0
         \/ handler' = handler /\ Head(ops') = Head(ops) /\ UNCHANGED <<link, thread, humanActs, idles>>
  PROVE  Running'
BY DEF Running, Visits, Opens, LocksIt, Archives

\* Without a person's entry the audit log gives the classifier nothing to do.
LEMMA NobodyIsMirrored ==
  ASSUME PeopleInv, humanActs = 0, Classify \/ ClassifyEarly
  PROVE  ops' = ops
<1> DEFINE at == jobs[auditor.job].at
<1>1. auditor # Waiting
  BY DEF Classify, ClassifyEarly
<1>2. PICK actor \in {log[at].newest} \cup log[at].actors \cup {"none"} : Decide(actor)
  BY Zenon DEF Classify, ClassifyEarly
<1>3. at \in 0..MaxTime
  <2>1. jobs \in Seq(Job) /\ auditor.job \in 1..Len(jobs)
    BY <1>1 DEF PeopleInv, TypeOK, ClaimsHeld
  <2>2. jobs[auditor.job] \in Job
    BY <2>1, ElementOfSeq
  <2> QED BY <2>2 DEF Job
<1> HIDE DEF at
<1>4. log[at] \in Entry
  BY <1>3 DEF PeopleInv, TypeOK
<1>5. actor \in {"none", "relay"}
  BY <1>2, <1>3, <1>4, NobodyTypes DEF Entry
<1>6. Transition(auditor.link, jobs[auditor.job].observed, Evidence(actor)) \notin ToGitHub
  BY <1>5, OnlyPeopleAreMirrored
<1> QED BY <1>2, <1>6, Zenon DEF Decide

\* An edit brings the running operation one step further.
LEMMA EditRuns ==
  ASSUME PeopleInv, LinkInv, Running, humanActs = 0, idles = 0, EditThread
  PROVE  /\ ops # <<>> /\ handler.op = Head(ops) /\ handler.op \in OnThreadOp
         /\ Running'
         /\ handler.op.action \notin Locks => thread'.locked = thread.locked
         /\ handler.op.action \notin Turns => thread'.archived = thread.archived \/ Visits(handler.op, link)
<1> DEFINE op    == handler.op
           edits == handler.edits
<1>1. /\ handler.step = "edit" /\ thread' = Edited(Head(edits)) /\ thread \in Thread /\ link \in Issue
      /\ UNCHANGED <<link, ops, humanActs, idles>>
  BY DEF EditThread, Change, WorkOnly, bounds, PeopleInv, TypeOK
<1>2. handler.job = "operation"
  BY <1>1 DEF LinkInv, EventHeld, PeopleInv, TypeOK, Handler
<1>3. /\ handler'.job = "operation" /\ handler'.op = op /\ handler'.edits = Tail(edits)
      /\ handler'.step = (IF Len(edits) = 1 THEN "end" ELSE "edit")
  BY <1>1, <1>2 DEF EditThread, PeopleInv, TypeOK, Handler
<1>4. ops # <<>> /\ op = Head(ops) /\ op \in OnThreadOp /\ op.action \in ToDiscord
  <2>1. ops # <<>> /\ op = Head(ops) /\ ops \in Seq(OnThreadOp)
    BY <1>2, NobodyTypes DEF Running, PeopleInv, ClaimsHeld
  <2> QED BY <2>1, HeadTailProperties DEF OnThreadOp
<1>5. op.issue.locked \in BOOLEAN /\ Shown(op.issue.title) \in Title
  BY <1>4 DEF OnThreadOp, Operation, Issue, Shown, Title
<1>6. \/ edits = Edits(op, link)
      \/ /\ edits \in {Visit, <<Archive(TRUE)>>}
         /\ Visits(op, link) \/ Opens(op, link)
         /\ op.action \in Locks => (thread.locked = TRUE <=> LocksIt(op))
  BY <1>1, <1>2 DEF Running
<1> HIDE DEF op, edits
<1> DEFINE Done ==
  /\ Running'
  /\ op.action \notin Locks => thread'.locked = thread.locked
  /\ op.action \notin Turns => thread'.archived = thread.archived \/ Visits(op, link)
<1>7. Visits(op, link)' = Visits(op, link) /\ Opens(op, link)' = Opens(op, link)
  BY <1>1, <1>3 DEF Visits, Opens, op
<1>8. ASSUME edits = <<Archive(TRUE)>>,
             \/ op.action = "closed"
             \/ /\ Visits(op, link) \/ Opens(op, link)
                /\ op.action \in Locks => (thread.locked = TRUE <=> LocksIt(op))
      PROVE  Done
  <2>1. handler'.step = "end" /\ thread' = Edited(Archive(TRUE))
    BY <1>1, <1>3, <1>8, Once
  <2>2. thread'.archived = TRUE /\ thread'.locked = thread.locked
    BY <1>1, <2>1, EditedBy
  <2>3. op.action \in Turns => Archives(op) \/ Opens(op, link)
    BY <1>8 DEF Visits, Turns, Archives
  <2>4. op.action = "closed" => ~Visits(op, link) /\ op.action \in Turns
    BY DEF Visits, Turns
  <2>5. op.action \notin Turns => Visits(op, link)
    BY <1>8, <2>4 DEF Opens, Turns
  <2> QED BY <1>1, <1>3, <1>4, <1>7, <1>8, <2>1, <2>2, <2>3, <2>4, <2>5 DEF Running, Locks
<1>9. ASSUME edits = Visit, Visits(op, link) \/ Opens(op, link),
             op.action \in Locks => (thread.locked = TRUE <=> LocksIt(op))
      PROVE  Done
  <2>1. handler'.step = "edit" /\ handler'.edits = <<Archive(TRUE)>> /\ thread' = Edited(Archive(FALSE))
    <3>1. edits = Visit
      BY <1>9
    <3>2. Len(edits) # 1 /\ Head(edits) = Archive(FALSE) /\ Tail(edits) = <<Archive(TRUE)>>
      BY <3>1, Visited, Zenon
    <3> QED BY <1>1, <1>3, <3>2, Zenon
  <2>2. thread'.locked = thread.locked
    BY <1>1, <2>1, EditedBy
  <2>3. op.action \notin Turns => Visits(op, link)
    BY <1>9 DEF Opens, Turns
  <2> QED BY <1>1, <1>3, <1>4, <1>9, <2>1, <2>2, <2>3 DEF Running
<1>10. ASSUME NEW b \in BOOLEAN, NEW c \in BOOLEAN, edits = <<Both(b, c)>>, op.action \in Locks,
              ~Opens(op, link), b = TRUE <=> Archives(op), c = TRUE <=> LocksIt(op)
       PROVE  Done
  <2>1. Len(edits) = 1 /\ Head(edits) = Both(b, c)
    BY <1>10, Once
  <2>2. handler'.step = "end" /\ thread' = Edited(Both(b, c))
    BY <1>1, <1>3, <2>1
  <2>3. thread'.archived = b /\ thread'.locked = c
    BY <1>1, <2>2, EditedBy, Zenon
  <2>4. (thread'.archived = TRUE <=> Archives(op)) /\ (thread'.locked = TRUE <=> LocksIt(op))
    BY <1>10, <2>3, Zenon
  <2>5. ~Visits(op, link) /\ op.action \in Turns
    BY <1>10 DEF Visits, Locks, Turns
  <2> QED BY <1>1, <1>3, <1>4, <1>10, <2>2, <2>4, <2>5 DEF Running
<1>11. ASSUME edits = <<Both(op.issue.state = "closed", FALSE)>> \o Visit, op.action = "unlocked", Opens(op, link)
       PROVE  Done
  <2> DEFINE b == op.issue.state = "closed"
  <2>1. b \in BOOLEAN /\ FALSE \in BOOLEAN /\ ~LocksIt(op) /\ op.action \in Locks /\ op.action \in Turns
    BY <1>11 DEF LocksIt, Locks, Turns
  <2>2. edits = <<Both(b, FALSE)>> \o Visit
    BY <1>11
  <2> HIDE DEF b
  <2>3. Len(edits) # 1 /\ Head(edits) = Both(b, FALSE) /\ Tail(edits) = Visit
    BY <2>2, ThenVisit
  <2>4. handler'.step = "edit" /\ handler'.edits = Visit /\ thread' = Edited(Both(b, FALSE))
    BY <1>1, <1>3, <2>3, Zenon
  <2>5. thread'.locked = FALSE
    BY <1>1, <2>1, <2>4, EditedBy, Zenon
  <2> QED BY <1>1, <1>3, <1>4, <1>7, <1>11, <2>1, <2>4, <2>5 DEF Running
<1>12. ASSUME edits = <<Set("name", FALSE, FALSE, Shown(op.issue.title))>>, op.action = "title"
       PROVE  Done
  <2>1. handler'.step = "end" /\ thread' = Edited(Set("name", FALSE, FALSE, Shown(op.issue.title)))
    BY <1>1, <1>3, <1>12, Once
  <2>2. thread'.archived = thread.archived /\ thread'.locked = thread.locked
    BY <1>1, <1>5, <2>1, EditedBy, Zenon
  <2>3. op.action \notin Turns /\ op.action \notin Locks /\ ~Visits(op, link)
    BY <1>12 DEF Turns, Locks, Visits
  <2> QED BY <1>1, <1>3, <1>4, <2>1, <2>2, <2>3 DEF Running
<1> HIDE DEF Done
<1> SUFFICES Done
  BY <1>4 DEF Done, op
<1>13. CASE edits # Edits(op, link)
  BY <1>6, <1>8, <1>9, <1>13
<1>14. CASE edits = Edits(op, link)
  <2>1. CASE op.action = "closed"
    <3>1. edits = <<Archive(TRUE)>>
      BY <1>1, <1>4, <1>14, <2>1, EditsOf
    <3> QED BY <1>8, <2>1, <3>1
  <2>2. CASE op.action = "reopened"
    <3>1. edits = <<Both(op.issue.locked, op.issue.locked)>>
      BY <1>1, <1>4, <1>14, <2>2, EditsOf
    <3>2. /\ op.action \in Locks /\ ~Opens(op, link)
          /\ (op.issue.locked = TRUE <=> Archives(op)) /\ (op.issue.locked = TRUE <=> LocksIt(op))
      BY <2>2 DEF Locks, Opens, Archives, LocksIt
    <3> QED BY <1>5, <1>10, <3>1, <3>2, Zenon
  <2>3. CASE op.action = "locked"
    <3>1. edits = <<Both(TRUE, TRUE)>>
      BY <1>1, <1>4, <1>14, <2>3, EditsOf
    <3>2. op.action \in Locks /\ ~Opens(op, link) /\ Archives(op) /\ LocksIt(op)
      BY <2>3 DEF Locks, Opens, Archives, LocksIt
    <3>3. TRUE \in BOOLEAN /\ (TRUE = TRUE <=> Archives(op)) /\ (TRUE = TRUE <=> LocksIt(op))
      BY <3>2
    <3> QED BY <1>10, <3>1, <3>2, <3>3, Zenon
  <2>4. CASE op.action = "unlocked" /\ ~Opens(op, link)
    <3> DEFINE b == op.issue.state = "closed"
    <3>1. b \in BOOLEAN /\ FALSE \in BOOLEAN /\ (b = TRUE <=> Archives(op)) /\ (FALSE = TRUE <=> LocksIt(op))
          /\ op.action \in Locks
      BY <2>4 DEF Archives, LocksIt, Locks
    <3>2. edits = <<Both(b, FALSE)>>
      BY <1>1, <1>4, <1>14, <2>4, EditsOf
    <3> HIDE DEF b
    <3> QED BY <1>10, <2>4, <3>1, <3>2, Zenon
  <2>5. CASE op.action = "unlocked" /\ Opens(op, link)
    BY <1>1, <1>4, <1>11, <1>14, <2>5, EditsOf
  <2>6. CASE op.action = "title"
    BY <1>1, <1>4, <1>12, <1>14, <2>6, EditsOf
  <2>7. CASE op.action \in {"activity", "comment"}
    <3>1. edits # <<>>
      BY <1>1 DEF PeopleInv, HandlerAgrees, edits
    <3>2. edits = Visit /\ Visits(op, link)
      BY <1>1, <1>4, <1>14, <2>7, <3>1, EditsOf
    <3>3. op.action \notin Locks
      BY <2>7 DEF Locks
    <3> QED BY <1>9, <3>2, <3>3
  <2> QED BY <1>4, <2>1, <2>2, <2>3, <2>4, <2>5, <2>6, <2>7 DEF ToDiscord
<1> QED BY <1>13, <1>14

LEMMA RunningStep == PeopleInv /\ LinkInv /\ Running /\ [Next]_vars => Running'
<1> SUFFICES ASSUME PeopleInv, LinkInv, Running, [Next]_vars, humanActs' = 0, idles' = 0 PROVE Running'
  BY RunningFrame
<1>1. /\ humanActs = 0 \/ humanActs' # 0
      /\ idles = 0 \/ idles' # 0
  <2>1. /\ humanActs' = humanActs \/ humanActs' = humanActs + 1
        /\ idles' = idles \/ idles' = idles + 1
    BY DEF Next, vars, UserCloses, UserReopens, UserLocks, UserUnlocks, UserRetitles, UserComments, UserActs,
       ModeratorArchives, ModeratorLocks, ModeratorRenames, ModeratorTags, ModeratorActs, PersonPosts,
       Inactivity, CommandClose, Tick, ReadThread, EnqueueSnapshot, HearMessage, HearUpdate, LoseEvent,
       ClaimAudit, Classify, ClassifyEarly, Decide, FailQuery, AuditOnly, DiscordOnly, WorkOnly, bounds,
       ClaimEvent, Finish, GiveUp, Interrupt, SettleRow, LinkIssue, EnqueueLifecycle, ClaimOnThread,
       EditThread, ClaimOnIssue, PostNotice, WriteIssue, RecordIssue
  <2> QED BY <2>1 DEF PeopleInv, TypeOK
<1>2. humanActs = 0 /\ idles = 0
  BY <1>1
<1>3. CASE \/ UserCloses \/ UserReopens \/ UserLocks \/ UserUnlocks \/ UserRetitles \/ UserComments
           \/ Tick \/ ReadThread \/ EnqueueSnapshot \/ HearUpdate \/ LoseEvent \/ ClaimAudit \/ FailQuery
           \/ UNCHANGED vars
  <2>1. UNCHANGED <<handler, ops, link, thread, humanActs, idles>>
    BY <1>3 DEF UserCloses, UserReopens, UserLocks, UserUnlocks, UserRetitles, UserComments, UserActs,
     Tick, ReadThread, EnqueueSnapshot, HearUpdate, LoseEvent, ClaimAudit, FailQuery, AuditOnly, WorkOnly,
     discord, bounds, vars
  <2> QED BY <2>1, RunningFrame
<1>4. CASE Classify \/ ClassifyEarly
  <2>1. UNCHANGED <<handler, link, thread, humanActs, idles>>
    BY <1>4 DEF Classify, ClassifyEarly, Decide, AuditOnly, discord, bounds
  <2> QED BY <1>2, <1>4, <2>1, NobodyIsMirrored, RunningFrame
<1>5. CASE ModeratorArchives \/ ModeratorLocks \/ ModeratorRenames \/ ModeratorTags \/ PersonPosts \/ CommandClose
  <2>1. humanActs' = humanActs + 1
    BY <1>5 DEF ModeratorArchives, ModeratorLocks, ModeratorRenames, ModeratorTags, ModeratorActs,
       PersonPosts, CommandClose
  <2> QED BY <1>2, <2>1
<1>6. CASE Inactivity
  BY <1>2, <1>6 DEF Inactivity
<1>7. CASE HearMessage
  BY <1>2, <1>7, NobodyTypes DEF HearMessage
<1>8. CASE \/ (\E event \in events : ClaimEvent(event)) \/ Finish \/ GiveUp \/ Interrupt \/ LinkIssue
           \/ EnqueueLifecycle
  <2>1. CASE \E event \in events : ClaimEvent(event)
    BY <2>1, RunningFrame DEF ClaimEvent, Idle
  <2>2. CASE Finish \/ GiveUp \/ Interrupt
    <3>1. handler' = Idle
      BY <2>2 DEF Finish, GiveUp, Interrupt, SettleRow
    <3> QED BY <3>1, IdleTypes, RunningFrame
  <2>3. CASE LinkIssue \/ EnqueueLifecycle
    <3>1. handler.job = "event" /\ handler'.job = handler.job
      BY <2>3 DEF LinkIssue, EnqueueLifecycle, LinkInv, EventHeld, PeopleInv, TypeOK, Handler
    <3> QED BY <3>1, RunningFrame
  <2> QED BY <1>8, <2>1, <2>2, <2>3
<1>9. CASE ClaimOnThread
  <2> DEFINE op == Head(ops)
  <2>1. ops # <<>> /\ op \in OnThreadOp /\ op.action \in ToDiscord /\ link \in Issue
    <3>1. ops # <<>> /\ ops \in Seq(OnThreadOp)
      BY <1>2, <1>9, NobodyTypes DEF ClaimOnThread
    <3> QED BY <3>1, HeadTailProperties DEF OnThreadOp, PeopleInv, TypeOK
  <2>2. /\ handler'.job = "operation" /\ handler'.op = op /\ handler'.edits = Edits(op, link)
        /\ handler'.step = (IF Edits(op, link) = <<>> THEN "end" ELSE "edit")
        /\ UNCHANGED <<ops, link, thread>>
    BY <1>9 DEF ClaimOnThread, Idle, discord
  <2> HIDE DEF op
  <2>3. Edits(op, link) = <<>> => op.action \notin Turns /\ ~Visits(op, link)
    <3>1. Visit # <<>>
      BY Visited
    <3>2. CASE op.action \in Turns
      <4>1. \/ \E edit : Edits(op, link) = <<edit>>
            \/ \E edit : Edits(op, link) = <<edit>> \o Visit
        BY <2>1, <3>2, EditsOf DEF Turns
      <4>2. Edits(op, link) # <<>>
        BY <4>1, Once, ThenVisit
      <4> QED BY <4>2
    <3>3. CASE op.action \in {"activity", "comment"}
      BY <2>1, <3>1, <3>3, EditsOf DEF Turns
    <3>4. CASE op.action = "title"
      <4>1. \E edit : Edits(op, link) = <<edit>>
        BY <2>1, <3>4, EditsOf
      <4> QED BY <4>1, Once
    <3> QED BY <2>1, <3>2, <3>3, <3>4 DEF ToDiscord, Turns
  <2>4. op.action \notin Turns => op.action \notin Locks
    BY DEF Turns, Locks
  <2> QED BY <2>2, <2>3, <2>4 DEF Running, op, Visits
<1>10. CASE EditThread
  BY <1>2, <1>10, EditRuns
<1>11. CASE ClaimOnIssue
  <2>1. ops # <<>> /\ ops \in Seq(OnThreadOp) /\ Head(ops).to = "github"
    BY <1>2, <1>11, NobodyTypes DEF ClaimOnIssue
  <2>2. Head(ops) \in OnThreadOp
    BY <2>1, HeadTailProperties
  <2> QED BY <2>1, <2>2 DEF OnThreadOp
<1>12. CASE PostNotice \/ WriteIssue \/ RecordIssue
  BY <1>2, <1>12, NobodyTypes DEF PostNotice, WriteIssue, RecordIssue
<1> QED BY <1>3, <1>4, <1>5, <1>6, <1>7, <1>8, <1>9, <1>10, <1>11, <1>12 DEF Next
-----------------------------------------------------------------------------
(* What the thread is going to show.                                       *)

\* n is the place of the last operation with one of these actions; there is none.
LastOf(S, n) ==
  /\ n \in 1..Len(ops) /\ ops[n].action \in S
  /\ \A m \in 1..Len(ops) : n < m => ops[m].action \notin S
NoneOf(S) == \A n \in 1..Len(ops) : ops[n].action \notin S

\* The last turn that waits, or else the thread itself, does what the link asks for; a visit
\* that finds a closed issue leaves the thread archived.
Wanted == link.state = "closed" \/ link.locked = TRUE
WillArchive ==
  \/ \E n \in 1..Len(ops) : LastOf(Turns, n) /\ (Archives(ops[n]) <=> Wanted)
  \/ /\ NoneOf(Turns)
     /\ \/ thread.archived = TRUE <=> Wanted
        \/ \E n \in 1..Len(ops) : Visits(ops[n], link)
WillLock ==
  \/ \E n \in 1..Len(ops) : LastOf(Locks, n) /\ (LocksIt(ops[n]) <=> link.locked = TRUE)
  \/ NoneOf(Locks) /\ (thread.locked = TRUE <=> link.locked = TRUE)

Quiet == ~late /\ ~lost /\ humanActs = 0 /\ idles = 0

\* An older event waits that will be handled after a newer one; the turns of the newest event
\* that was handled that are not in the outbox yet.
Doomed   == \E event \in events : Stored(event) /\ event.id < heard
Unqueued == {event \in events : event.kind \in Turns /\ event.id = heard
                                /\ <<event.kind, event.row, "other">> \notin keys}

ShowInv ==
  Quiet /\ ~Doomed =>
    /\ Unqueued = {} => WillArchive
    /\ (\A event \in Unqueued : event.kind = "closed") => WillLock

LEMMA InitShow == Init => ShowInv
<1> SUFFICES ASSUME Init PROVE WillArchive /\ WillLock
  BY DEF ShowInv
<1>1. /\ ops = <<>> /\ Len(ops) = 0 /\ link = issue /\ issue.state = "open"
      /\ thread.archived = issue.locked /\ thread.locked = issue.locked
  BY DEF Init
<1>2. NoneOf(Turns) /\ NoneOf(Locks)
  BY <1>1 DEF NoneOf
<1>3. thread.archived = TRUE <=> Wanted
  BY <1>1 DEF Wanted
<1> QED BY <1>1, <1>2, <1>3 DEF WillArchive, WillLock

LEMMA AppendLast ==
  ASSUME NEW S, ops \in Seq(OnThreadOp), NEW op \in OnThreadOp, ops' = Append(ops, op)
  PROVE  /\ \A n \in 1..Len(ops) : n \in 1..Len(ops') /\ ops'[n] = ops[n]
         /\ op.action \notin S => (\A n \in 1..Len(ops) : LastOf(S, n) => LastOf(S, n)')
                                  /\ (NoneOf(S) => NoneOf(S)')
         /\ op.action \in S => \E n \in 1..Len(ops') : LastOf(S, n)' /\ ops'[n] = op
<1>1. Len(ops) \in Nat /\ Len(ops') = Len(ops) + 1 /\ ops'[Len(ops) + 1] = op
      /\ \A n \in 1..Len(ops) : ops'[n] = ops[n]
  BY AppendProperties
<1>2. \A n \in 1..Len(ops) : n \in 1..Len(ops') /\ ops'[n] = ops[n]
  BY <1>1
<1>3. ASSUME op.action \notin S
      PROVE  (\A n \in 1..Len(ops) : LastOf(S, n) => LastOf(S, n)') /\ (NoneOf(S) => NoneOf(S)')
  <2>1. \A n \in 1..Len(ops') : n \in 1..Len(ops) \/ n = Len(ops) + 1
    BY <1>1
  <2>2. ASSUME NEW n \in 1..Len(ops), LastOf(S, n) PROVE LastOf(S, n)'
    BY <1>1, <1>2, <1>3, <2>1, <2>2 DEF LastOf
  <2>3. ASSUME NoneOf(S) PROVE NoneOf(S)'
    BY <1>1, <1>2, <1>3, <2>1, <2>3 DEF NoneOf
  <2> QED BY <2>2, <2>3
<1>4. ASSUME op.action \in S PROVE \E n \in 1..Len(ops') : LastOf(S, n)' /\ ops'[n] = op
  <2>1. PICK n \in Nat : n = Len(ops) + 1
    BY <1>1
  <2>2. n \in 1..Len(ops') /\ ops'[n] = op /\ \A m \in 1..Len(ops') : ~(n < m)
    BY <1>1, <2>1
  <2>3. LastOf(S, n)'
    BY <1>4, <2>2 DEF LastOf
  <2> QED BY <2>2, <2>3
<1> QED BY <1>2, <1>3, <1>4

LEMMA TailLast ==
  ASSUME NEW S, ops \in Seq(OnThreadOp), ops # <<>>, ops' = Tail(ops)
  PROVE  /\ 1 \in 1..Len(ops) /\ ops[1] = Head(ops)
         /\ \A n \in 1..Len(ops) : n # 1 => n - 1 \in 1..Len(ops') /\ ops'[n - 1] = ops[n]
         /\ \A n \in 1..Len(ops) : LastOf(S, n) /\ n # 1 => LastOf(S, n - 1)'
         /\ LastOf(S, 1) => NoneOf(S)'
         /\ NoneOf(S) => NoneOf(S)'
<1>1. Len(ops) \in Nat /\ Len(ops) # 0 /\ Len(ops') = Len(ops) - 1
      /\ \A n \in 1..Len(ops') : ops'[n] = ops[n + 1]
  BY HeadTailProperties, EmptySeq, LenProperties
<1>2. 1 \in 1..Len(ops) /\ ops[1] = Head(ops)
  BY <1>1
<1>3. \A n \in 1..Len(ops) : n # 1 => n - 1 \in 1..Len(ops') /\ ops'[n - 1] = ops[n]
  <2> SUFFICES ASSUME NEW n \in 1..Len(ops), n # 1 PROVE n - 1 \in 1..Len(ops') /\ ops'[n - 1] = ops[n]
    OBVIOUS
  <2>1. n - 1 \in 1..Len(ops') /\ (n - 1) + 1 = n
    BY <1>1
  <2> QED BY <1>1, <2>1
<1>4. \A n \in 1..Len(ops') : n + 1 \in 1..Len(ops) /\ n + 1 # 1 /\ ops'[n] = ops[n + 1]
  BY <1>1
<1>5. ASSUME NEW n \in 1..Len(ops), LastOf(S, n), n # 1 PROVE LastOf(S, n - 1)'
  <2>1. PICK k \in 1..Len(ops') : k = n - 1
    BY <1>3, <1>5
  <2>2. k \in 1..Len(ops') /\ ops'[k].action \in S
    BY <1>3, <1>5, <2>1 DEF LastOf
  <2>3. ASSUME NEW m \in 1..Len(ops'), k < m PROVE ops'[m].action \notin S
    <3>1. m + 1 \in 1..Len(ops) /\ n < m + 1
      BY <1>1, <1>4, <2>1, <2>3
    <3> QED BY <1>4, <1>5, <3>1 DEF LastOf
  <2>4. LastOf(S, k)'
    BY <2>2, <2>3 DEF LastOf
  <2> QED BY <2>1, <2>4
<1>6. ASSUME LastOf(S, 1) \/ NoneOf(S) PROVE NoneOf(S)'
  <2> SUFFICES ASSUME NEW n \in 1..Len(ops') PROVE ops'[n].action \notin S
    BY DEF NoneOf
  <2>1. n + 1 \in 1..Len(ops) /\ 1 < n + 1 /\ ops'[n] = ops[n + 1]
    BY <1>1, <1>4
  <2> QED BY <1>6, <2>1 DEF LastOf, NoneOf
<1> QED BY <1>2, <1>3, <1>5, <1>6

-----------------------------------------------------------------------------
(* What leaves the thread on its way.                                      *)

LEMMA ShowFrame ==
  ASSUME ShowInv, Quiet' => Quiet,
         Quiet' => UNCHANGED <<link, heard, keys, ops, thread>>,
         Quiet' /\ ~Doomed' => ~Doomed /\ Unqueued' = Unqueued
  PROVE  ShowInv'
<1> SUFFICES ASSUME Quiet', ~Doomed'
             PROVE  /\ Unqueued' = {} => WillArchive'
                    /\ (\A event \in Unqueued' : event.kind = "closed") => WillLock'
  BY DEF ShowInv
<1>1. UNCHANGED <<link, heard, keys, ops, thread>>
  OBVIOUS
<1>2. (WillArchive => WillArchive') /\ (WillLock => WillLock')
  BY <1>1 DEF WillArchive, WillLock, LastOf, NoneOf, Wanted
<1> QED BY <1>2 DEF ShowInv

\* A new event is newer than what was handled, or is no turn.
LEMMA NewEvents ==
  ASSUME UNCHANGED <<heard, keys>>, heard \in Nat, events \subseteq events',
         \A event \in events' \ events :
           /\ event.id \in Nat /\ heard <= event.id
           /\ event.kind \in Turns => heard < event.id
  PROVE  Doomed' = Doomed /\ Unqueued' = Unqueued
<1>1. \A event \in events' \ events : ~(event.id < heard) /\ (event.kind \in Turns => event.id # heard)
  OBVIOUS
<1>2. Doomed' <=> Doomed
  BY <1>1, Zenon DEF Doomed, Stored
<1>3. Unqueued' = Unqueued
  BY <1>1, Zenon DEF Unqueued
<1> QED BY <1>2, <1>3, Zenon DEF Doomed

LEMMA SameEvents ==
  ASSUME ShowInv, Quiet' => Quiet, Quiet' => UNCHANGED <<link, heard, keys, ops, thread, events>>
  PROVE  ShowInv'
<1>1. Quiet' => (Doomed' <=> Doomed) /\ Unqueued' = Unqueued
  BY Zenon DEF Doomed, Unqueued
<1> QED BY <1>1, ShowFrame, Zenon

LEMMA OutsideShow ==
  ASSUME PeopleInv, LinkInv, ShowInv,
         \/ UserCloses \/ UserReopens \/ UserLocks \/ UserUnlocks \/ UserRetitles \/ UserComments
         \/ EnqueueSnapshot
  PROVE  ShowInv'
<1>1. /\ UNCHANGED <<link, heard, keys, ops, thread, late, lost, humanActs, idles>>
      /\ issued \in Nat /\ heard \in Nat /\ heard <= issued
  BY EventNumbers DEF UserCloses, UserReopens, UserLocks, UserUnlocks, UserRetitles, UserComments, UserActs,
     EnqueueSnapshot, discord, bounds, history
<1>2. /\ events \subseteq events'
      /\ \A event \in events' \ events :
           /\ event.id \in Nat /\ heard <= event.id
           /\ event.kind \in Turns => heard < event.id
  <2>1. CASE EnqueueSnapshot
    <3> DEFINE new == [kind |-> "snapshot", issue |-> issue, own |-> FALSE, id |-> issued,
                       row |-> MaxEvents + runs, seen |-> plan]
    <3>1. events' = events \cup {new} /\ new.id = issued /\ new.kind = "snapshot"
      BY <2>1 DEF EnqueueSnapshot
    <3> HIDE DEF new
    <3> QED BY <1>1, <3>1 DEF Turns
  <2>2. CASE \E kind, after : Announce(kind, after, FALSE)
    <3>1. PICK kind, after : Announce(kind, after, FALSE)
      BY <2>2
    <3> DEFINE new == [kind |-> kind, issue |-> after, own |-> FALSE, id |-> issued', row |-> issued',
                       seen |-> NotSeen]
    <3>2. events' = events \/ (events' = events \cup {new} /\ new.id = issued + 1)
      BY <3>1 DEF Announce, github
    <3> HIDE DEF new
    <3> QED BY <1>1, <3>2
  <2>3. EnqueueSnapshot \/ \E kind, after : Announce(kind, after, FALSE)
    BY DEF UserCloses, UserReopens, UserLocks, UserUnlocks, UserRetitles, UserComments, UserActs
  <2> QED BY <2>1, <2>2, <2>3
<1>3. Doomed' = Doomed /\ Unqueued' = Unqueued
  BY <1>1, <1>2, NewEvents
<1>4. Quiet' => Quiet
  BY <1>1 DEF Quiet
<1> QED BY <1>1, <1>3, <1>4, ShowFrame

LEMMA QuietShow ==
  ASSUME PeopleInv, LinkInv, ShowInv,
         \/ ModeratorArchives \/ ModeratorLocks \/ ModeratorRenames \/ ModeratorTags \/ PersonPosts
         \/ Inactivity \/ CommandClose \/ Tick \/ ReadThread \/ HearMessage \/ HearUpdate
         \/ ClaimAudit \/ Classify \/ ClassifyEarly \/ FailQuery \/ UNCHANGED vars
         \/ (\E event \in events : ClaimEvent(event)) \/ ClaimOnThread \/ ClaimOnIssue
         \/ PostNotice \/ WriteIssue \/ RecordIssue \/ Interrupt \/ GiveUp \/ LoseEvent
  PROVE  ShowInv'
<1>1. humanActs \in Nat /\ idles \in Nat
  BY DEF PeopleInv, TypeOK
<1>2. CASE ModeratorArchives \/ ModeratorLocks \/ ModeratorRenames \/ ModeratorTags \/ PersonPosts
           \/ Inactivity \/ CommandClose \/ GiveUp \/ LoseEvent
  <2>1. humanActs' = humanActs + 1 \/ idles' = idles + 1 \/ lost' = TRUE
    BY <1>2 DEF ModeratorArchives, ModeratorLocks, ModeratorRenames, ModeratorTags, ModeratorActs,
       PersonPosts, Inactivity, CommandClose, GiveUp, LoseEvent
  <2>2. ~Quiet'
    BY <1>1, <2>1 DEF Quiet
  <2> QED BY <2>2 DEF ShowInv
<1>3. CASE Tick \/ ReadThread \/ HearUpdate \/ ClaimAudit \/ FailQuery \/ UNCHANGED vars
           \/ (\E event \in events : ClaimEvent(event)) \/ ClaimOnThread \/ ClaimOnIssue \/ Interrupt
  <2>1. UNCHANGED <<link, heard, keys, ops, thread, events, late, humanActs, idles>>
        /\ (UNCHANGED lost \/ Interrupt)
    BY <1>3 DEF Tick, ReadThread, HearUpdate, ClaimAudit, FailQuery, AuditOnly, vars, ClaimEvent,
       ClaimOnThread, ClaimOnIssue, Interrupt, WorkOnly, github, discord, bounds, history
  <2>2. lost => lost'
    BY <2>1, Zenon DEF Interrupt
  <2> QED BY <2>1, <2>2, SameEvents DEF Quiet
<1>4. CASE Classify \/ ClassifyEarly
  <2>1. UNCHANGED <<link, heard, keys, thread, events, late, lost, humanActs, idles>>
    BY <1>4 DEF Classify, ClassifyEarly, Decide, AuditOnly, github, discord, bounds, history
  <2>2. Quiet' => Quiet /\ ops' = ops
    BY <1>4, <2>1, NobodyIsMirrored DEF Quiet
  <2> QED BY <2>1, <2>2, SameEvents
<1>5. CASE HearMessage \/ PostNotice \/ WriteIssue \/ RecordIssue
  <2>1. UNCHANGED <<late, lost, humanActs, idles>>
    BY <1>5 DEF HearMessage, PostNotice, WriteIssue, RecordIssue, WorkOnly, bounds, history
  <2>2. humanActs # 0
    <3>1. posts > 0 \/ handler.step \in {"notice", "write", "record"}
      BY <1>5 DEF HearMessage, PostNotice, WriteIssue, RecordIssue
    <3> QED BY <3>1, NobodyTypes
  <2> QED BY <2>1, <2>2 DEF Quiet, ShowInv
<1> QED BY <1>2, <1>3, <1>4, <1>5

-----------------------------------------------------------------------------
(* What brings the thread on its way.                                      *)

\* The turn of an event that is settled is in the outbox; an operation that is settled has
\* left the thread as it was to.
LEMMA FinishShow ==
  ASSUME PeopleInv, LinkInv, EnqueueInv, Running, ShowInv, Finish
  PROVE  ShowInv'
<1>1. /\ handler.step = "end"
      /\ UNCHANGED <<link, heard, keys, thread, late, lost, humanActs, idles>>
      /\ events' = (IF handler.job = "event" THEN events \ {handler.event} ELSE events)
      /\ ops' = (IF handler.job = "operation" THEN Tail(ops) ELSE ops)
  BY DEF Finish, SettleRow, WorkOnly, discord, bounds
<1>2. Quiet' => Quiet
  BY <1>1 DEF Quiet
<1>3. CASE handler.job = "event"
  <2> DEFINE event == handler.event
  <2>1. event \in events /\ event.id \in Nat /\ heard \in Nat /\ events' = events \ {event} /\ ops' = ops
    BY <1>1, <1>3, EventNumbers DEF LinkInv, EventHeld
  <2>2. Quiet => /\ Stored(event) => event.id = heard
                 /\ event.kind \in Turns => <<event.kind, event.row, "other">> \in keys
    BY <1>1, <1>3 DEF EnqueueInv, Quiet
  <2> HIDE DEF event
  <2>3. Quiet => ~(Stored(event) /\ event.id < heard) /\ event \notin Unqueued
    BY <2>1, <2>2 DEF Unqueued
  <2>4. Quiet => (Doomed' <=> Doomed)
    BY <1>1, <2>1, <2>3 DEF Doomed, Stored
  <2>5. Quiet => Unqueued' = Unqueued
    BY <1>1, <2>1, <2>3 DEF Unqueued
  <2> QED BY <1>1, <1>2, <2>1, <2>4, <2>5, ShowFrame
<1>4. CASE handler.job = "operation"
  <2> SUFFICES ASSUME Quiet', ~Doomed'
               PROVE  /\ Unqueued' = {} => WillArchive'
                      /\ (\A event \in Unqueued' : event.kind = "closed") => WillLock'
    BY DEF ShowInv
  <2>1. Quiet /\ ~Doomed /\ Unqueued' = Unqueued
    BY <1>1, <1>2, <1>4 DEF Doomed, Unqueued
  <2>2. ops # <<>> /\ ops \in Seq(OnThreadOp) /\ ops' = Tail(ops) /\ UNCHANGED <<link, thread>>
    BY <1>1, <1>4, <2>1, NobodyTypes DEF PeopleInv, ClaimsHeld, Quiet
  <2> DEFINE op == ops[1]
  <2>3. 1 \in 1..Len(ops) /\ op = Head(ops)
    BY <2>2, TailLast
  <2>4. /\ op.action \in Turns => (thread.archived = TRUE <=> Archives(op) \/ Opens(op, link))
        /\ op.action \in Locks => (thread.locked = TRUE <=> LocksIt(op))
        /\ Visits(op, link) => thread.archived = TRUE
    BY <1>1, <1>4, <2>1, <2>3 DEF Running, Quiet
  <2>5. (Visits(op, link) \/ Opens(op, link) => Wanted) /\ Wanted' = Wanted
    BY <2>2 DEF Visits, Opens, Wanted
  <2> HIDE DEF op
  <2>6. ASSUME WillArchive PROVE WillArchive'
    <3>1. CASE \E n \in 1..Len(ops) : LastOf(Turns, n) /\ (Archives(ops[n]) <=> Wanted)
      <4>1. PICK n \in 1..Len(ops) : LastOf(Turns, n) /\ (Archives(ops[n]) <=> Wanted)
        BY <3>1
      <4>2. CASE n # 1
        <5>1. PICK k \in 1..Len(ops') : k = n - 1
          BY <2>2, <4>2, TailLast
        <5>2. LastOf(Turns, k)' /\ ops'[k] = ops[n]
          BY <2>2, <4>1, <4>2, <5>1, TailLast
        <5> QED BY <2>5, <4>1, <5>1, <5>2 DEF WillArchive
      <4>3. CASE n = 1
        <5>1. NoneOf(Turns)' /\ op.action \in Turns /\ (Archives(op) <=> Wanted)
          BY <2>2, <4>1, <4>3, TailLast DEF LastOf, op
        <5>2. thread.archived = TRUE <=> Wanted
          BY <2>4, <2>5, <5>1
        <5> QED BY <2>2, <2>5, <5>1, <5>2 DEF WillArchive
      <4> QED BY <4>2, <4>3
    <3>2. CASE NoneOf(Turns) /\ (thread.archived = TRUE <=> Wanted)
      BY <2>2, <2>5, <3>2, TailLast DEF WillArchive
    <3>3. CASE NoneOf(Turns) /\ \E n \in 1..Len(ops) : Visits(ops[n], link)
      <4>1. PICK n \in 1..Len(ops) : Visits(ops[n], link)
        BY <3>3
      <4>2. NoneOf(Turns)'
        BY <2>2, <3>3, TailLast
      <4>3. CASE n # 1
        <5>1. PICK k \in 1..Len(ops') : k = n - 1
          BY <2>2, <4>3, TailLast
        <5>2. ops'[k] = ops[n]
          BY <2>2, <4>3, <5>1, TailLast
        <5>3. Visits(ops[k], link)'
          BY <2>2, <4>1, <5>2 DEF Visits
        <5> QED BY <4>2, <5>1, <5>3 DEF WillArchive
      <4>4. CASE n = 1
        BY <2>2, <2>4, <2>5, <4>1, <4>2, <4>4 DEF WillArchive, op
      <4> QED BY <4>3, <4>4
    <3> QED BY <2>6, <3>1, <3>2, <3>3 DEF WillArchive
  <2>7. ASSUME WillLock PROVE WillLock'
    <3>1. CASE \E n \in 1..Len(ops) : LastOf(Locks, n) /\ (LocksIt(ops[n]) <=> link.locked = TRUE)
      <4>1. PICK n \in 1..Len(ops) : LastOf(Locks, n) /\ (LocksIt(ops[n]) <=> link.locked = TRUE)
        BY <3>1
      <4>2. CASE n # 1
        <5>1. PICK k \in 1..Len(ops') : k = n - 1
          BY <2>2, <4>2, TailLast
        <5>2. LastOf(Locks, k)' /\ ops'[k] = ops[n]
          BY <2>2, <4>1, <4>2, <5>1, TailLast
        <5> QED BY <2>2, <4>1, <5>1, <5>2 DEF WillLock
      <4>3. CASE n = 1
        <5>1. NoneOf(Locks)' /\ op.action \in Locks /\ (LocksIt(op) <=> link.locked = TRUE)
          BY <2>2, <4>1, <4>3, TailLast DEF LastOf, op
        <5> QED BY <2>2, <2>4, <5>1 DEF WillLock
      <4> QED BY <4>2, <4>3
    <3>2. CASE NoneOf(Locks) /\ (thread.locked = TRUE <=> link.locked = TRUE)
      BY <2>2, <3>2, TailLast DEF WillLock
    <3> QED BY <2>7, <3>1, <3>2 DEF WillLock
  <2> QED BY <2>1, <2>6, <2>7 DEF ShowInv
<1>5. CASE handler.job = "none"
  BY <1>1, <1>5 DEF LinkInv, EventHeld
<1> QED BY <1>3, <1>4, <1>5 DEF PeopleInv, TypeOK, Handler

\* The link takes a step along the history of the issue; what turned it on the way is still
\* to be enqueued, with the event that is handled now.
LEMMA LinkIssueShow ==
  ASSUME PeopleInv, LinkInv, HistoryInv, EnqueueInv, ShowInv, LinkIssue
  PROVE  ShowInv'
<1> DEFINE event == handler.event
<1>1. /\ UNCHANGED <<events, keys, ops, thread, lost, humanActs, idles>> /\ handler.step = "link"
  BY DEF LinkIssue, github, discord, WorkOnly, bounds
<1>2. event \in events /\ event.id \in Nat /\ heard \in Nat /\ issued \in Nat /\ event.id <= issued /\ heard <= issued
      /\ issued <= MaxEvents
  BY <1>1, EventNumbers DEF LinkInv, EventHeld
<1> HIDE DEF event
<1>3. CASE ~Stored(event)
  <2>1. UNCHANGED <<link, heard, late>>
    BY <1>3 DEF LinkIssue, Stored, event
  <2>2. Quiet' => Quiet
    BY <1>1, <2>1 DEF Quiet
  <2> QED BY <1>1, <2>1, <2>2, SameEvents
<1>4. CASE Stored(event)
  <2> SUFFICES ASSUME Quiet', ~Doomed'
               PROVE  /\ Unqueued' = {} => WillArchive'
                      /\ (\A turn \in Unqueued' : turn.kind = "closed") => WillLock'
    BY DEF ShowInv
  <2>1. Store(event)
    BY <1>4 DEF LinkIssue, Stored, event
  <2>2. /\ link' = event.issue /\ (late' <=> late \/ event.id < heard)
        /\ heard' = (IF event.id > heard THEN event.id ELSE heard)
    BY <2>1, Zenon DEF Store
  <2>3. Quiet /\ heard <= event.id /\ heard' = event.id
    BY <1>1, <1>2, <2>2 DEF Quiet
  <2>4. PICK h \in [Nat -> Issue] : History(h)
    BY DEF HistoryInv
  <2>5. link = h[heard] /\ link' = h[event.id]
    BY <1>2, <2>2, <2>3, <2>4 DEF History, Quiet
  <2>6. CASE event.id = heard
    <3>1. UNCHANGED <<link, heard>>
      BY <2>3, <2>5, <2>6
    <3>2. ShowInv'
      BY <1>1, <2>3, <3>1, SameEvents
    <3> QED BY <3>2 DEF ShowInv
  <2>7. CASE heard < event.id
    <3>1. \A e \in events : Stored(e) => e.id >= event.id
      BY <1>1, <1>2, <2>3, EventNumbers DEF Doomed, Stored
    <3>2. ~Doomed /\ Unqueued = {}
      BY <1>2, <2>7, <3>1, EventNumbers DEF Doomed, Unqueued, Stored, Turns
    <3>3. WillArchive /\ WillLock
      BY <2>3, <3>2 DEF ShowInv
    <3>4. ASSUME NEW turn \in events, turn.kind \in Turns, heard < turn.id, turn.id <= event.id
          PROVE  turn \in Unqueued'
      <4>1. turn.id = event.id /\ turn.id \in Nat
        BY <1>2, <3>1, <3>4, EventNumbers DEF Stored, Turns
      <4>2. turn.row = turn.id
        BY <2>4, <3>4 DEF History, Turns
      <4>3. <<turn.kind, turn.row, "other">> \notin keys
        <5> SUFFICES ASSUME <<turn.kind, turn.row, "other">> \in keys PROVE FALSE
          OBVIOUS
        <5>1. turn.row <= heard \/ turn.row > MaxEvents
          BY <3>4 DEF EnqueueInv
        <5> QED BY <1>2, <3>4, <4>1, <4>2, <5>1
      <4> QED BY <1>1, <2>3, <3>4, <4>1, <4>3 DEF Unqueued
    <3>5. ASSUME NEW k \in heard..issued, k <= event.id,
                 \A turn \in Unqueued' : turn.id > k
          PROVE  Same(link, h[k])
      <4>1. Same(h[heard], h[k]) \/ \E turn \in events : turn.kind \in Turns /\ heard < turn.id /\ turn.id <= k
        <5>1. heard \in heard..issued /\ heard <= k /\ ~lost
          BY <1>2, <2>3, <3>5 DEF Quiet
        <5> QED BY <2>4, <3>5, <5>1 DEF History
      <4>2. ASSUME NEW turn \in events, turn.kind \in Turns, heard < turn.id, turn.id <= k PROVE FALSE
        <5>1. turn.id \in Nat /\ turn.id <= event.id
          BY <1>2, <3>5, <4>2, EventNumbers
        <5>2. turn \in Unqueued'
          BY <3>4, <4>2, <5>1
        <5> QED BY <1>2, <3>5, <4>2, <5>1, <5>2
      <4> QED BY <2>5, <4>1, <4>2
    <3>6. ASSUME Unqueued' = {} PROVE Same(link, link')
      <4>1. event.id \in heard..issued
        BY <1>2, <2>7
      <4> QED BY <2>5, <3>5, <3>6, <4>1
    <3>7. ASSUME Unqueued' = {} PROVE WillArchive'
      <4>1. Wanted' = Wanted /\ \A n \in 1..Len(ops) : Visits(ops[n], link)' = Visits(ops[n], link)
        BY <1>1, <3>6, <3>7 DEF Same, Wanted, Visits
      <4> QED BY <1>1, <3>3, <4>1 DEF WillArchive, LastOf, NoneOf
    <3>8. ASSUME \A turn \in Unqueued' : turn.kind = "closed" PROVE link'.locked = link.locked
      <4>1. CASE Unqueued' = {}
        BY <3>6, <4>1 DEF Same
      <4>2. CASE Unqueued' # {}
        <5>1. PICK turn \in Unqueued' : turn.kind = "closed"
          BY <3>8, <4>2
        <5>2. turn \in events /\ turn.id = event.id
          BY <1>1, <2>3 DEF Unqueued
        <5>3. h[event.id].locked = h[event.id - 1].locked
          BY <2>4, <5>1, <5>2 DEF History, Turned
        <5>4. PICK k \in heard..issued : k = event.id - 1
          BY <1>2, <2>7
        <5>5. \A e \in Unqueued' : e.id = event.id
          BY <2>3 DEF Unqueued
        <5>6. Same(link, h[k])
          BY <1>2, <3>5, <5>4, <5>5
        <5> QED BY <2>5, <5>3, <5>4, <5>6 DEF Same
      <4> QED BY <4>1, <4>2
    <3>9. ASSUME \A turn \in Unqueued' : turn.kind = "closed" PROVE WillLock'
      <4>1. link'.locked = link.locked
        BY <3>8, <3>9
      <4> QED BY <1>1, <3>3, <4>1 DEF WillLock, LastOf, NoneOf
    <3> QED BY <3>7, <3>9
  <2> QED BY <1>2, <2>3, <2>6, <2>7
<1> QED BY <1>3, <1>4

\* The turn of the event the link was stored from fits the link.
LEMMA TurnFits ==
  ASSUME NEW op, Fits(op), op.issue = link, link \in Issue, op.action \in Turns
  PROVE  /\ Archives(op) <=> Wanted
         /\ op.action \in Locks => (LocksIt(op) <=> link.locked = TRUE)
BY DEF Fits, Turns, Locks, Archives, LocksIt, Wanted, Issue, State

LEMMA EnqueueShow ==
  ASSUME PeopleInv, LinkInv, HistoryInv, EnqueueInv, ShowInv, EnqueueLifecycle
  PROVE  ShowInv'
<1> DEFINE event == handler.event
           op    == Head(handler.todo)
<1>1. /\ handler.job = "event" /\ event \in events /\ handler.step = "enqueue" /\ op \in FitOps(event)
      /\ keys' = keys \cup {KeyOf(op)}
      /\ ops' = (IF KeyOf(op) \in keys THEN ops ELSE Append(ops, op))
      /\ UNCHANGED <<heard, late, lost, link, events, thread, humanActs, idles>>
  BY EnqueueTakes
<1>2. Stored(event) /\ ~late => heard = event.id
  BY <1>1 DEF EnqueueInv
<1> HIDE DEF event, op
<1>3. CASE KeyOf(op) \in keys
  <2>1. UNCHANGED <<keys, ops>> /\ (Quiet' => Quiet)
    BY <1>1, <1>3 DEF Quiet
  <2> QED BY <1>1, <2>1, SameEvents
<1>4. CASE KeyOf(op) \notin keys
  <2> SUFFICES ASSUME Quiet', ~Doomed'
               PROVE  /\ Unqueued' = {} => WillArchive'
                      /\ (\A turn \in Unqueued' : turn.kind = "closed") => WillLock'
    BY DEF ShowInv
  <2>1. Quiet /\ ~Doomed /\ ops' = Append(ops, op) /\ op \in OnThreadOp
    BY <1>1, <1>4 DEF Quiet, Doomed, Stored, FitOps
  <2>2. ops \in Seq(OnThreadOp) /\ link \in Issue
    BY <2>1, NobodyTypes DEF Quiet, PeopleInv, TypeOK
  <2>3. ASSUME op.action \notin Locks, WillLock PROVE WillLock'
    BY <1>1, <2>1, <2>2, <2>3, AppendLast DEF WillLock
  <2>4. CASE op.action \notin Turns
    <3>1. Unqueued' = Unqueued
      <4>1. \A e : <<e.kind, e.row, "other">> = KeyOf(op) => e.kind \notin Turns
        BY <2>4, KeyOfOther
      <4> QED BY <1>1, <4>1 DEF Unqueued
    <3>2. ASSUME WillArchive PROVE WillArchive'
      <4>1. Wanted' = Wanted /\ \A n \in 1..Len(ops) : n \in 1..Len(ops') /\ ops'[n] = ops[n]
        BY <1>1, <2>1, <2>2, AppendLast DEF Wanted
      <4>2. CASE \E n \in 1..Len(ops) : LastOf(Turns, n) /\ (Archives(ops[n]) <=> Wanted)
        BY <2>1, <2>2, <2>4, <4>1, <4>2, AppendLast DEF WillArchive
      <4>3. CASE NoneOf(Turns) /\ (thread.archived = TRUE <=> Wanted)
        BY <1>1, <2>1, <2>2, <2>4, <4>1, <4>3, AppendLast DEF WillArchive
      <4>4. CASE NoneOf(Turns) /\ \E n \in 1..Len(ops) : Visits(ops[n], link)
        <5>1. NoneOf(Turns)'
          BY <2>1, <2>2, <2>4, <4>4, AppendLast
        <5>2. \E n \in 1..Len(ops') : Visits(ops'[n], link')
          BY <1>1, <4>1, <4>4
        <5> QED BY <5>1, <5>2 DEF WillArchive
      <4> QED BY <3>2, <4>2, <4>3, <4>4 DEF WillArchive
    <3>3. op.action \notin Locks
      BY <2>4 DEF Turns, Locks
    <3> QED BY <2>1, <2>3, <3>1, <3>2, <3>3 DEF ShowInv
  <2>5. CASE op.action \in Turns
    <3>1. Stored(event) /\ op.issue = event.issue /\ op.row = event.row /\ Fits(op)
      BY <1>1, <2>5 DEF FitOps
    <3>2. link = event.issue
      BY <1>1, <1>2, <2>1, <3>1 DEF HistoryInv, History, Quiet
    <3>3. (Archives(op) <=> Wanted) /\ (op.action \in Locks => (LocksIt(op) <=> link.locked = TRUE))
      BY <2>2, <2>5, <3>1, <3>2, TurnFits
    <3>4. WillArchive'
      <4>1. PICK n \in 1..Len(ops') : LastOf(Turns, n)' /\ ops'[n] = op
        BY <2>1, <2>2, <2>5, AppendLast
      <4>2. Archives(ops'[n]) <=> Wanted'
        BY <1>1, <3>3, <4>1 DEF Wanted
      <4> QED BY <4>1, <4>2 DEF WillArchive
    <3>5. CASE op.action \in Locks
      <4>1. PICK n \in 1..Len(ops') : LastOf(Locks, n)' /\ ops'[n] = op
        BY <2>1, <2>2, <3>5, AppendLast
      <4>2. LocksIt(ops'[n]) <=> link'.locked = TRUE
        BY <1>1, <3>3, <3>5, <4>1
      <4> QED BY <3>4, <4>1, <4>2 DEF WillLock
    <3>6. CASE op.action \notin Locks
      <4>1. op.action = "closed" /\ KeyOf(op) = <<"closed", op.row, "other">>
        BY <2>5, <3>6, KeyOfTurn DEF Turns, Locks
      <4>2. \A turn \in Unqueued : turn \in Unqueued' \/ turn.kind = "closed"
        BY <1>1, <4>1 DEF Unqueued
      <4> QED BY <2>1, <2>3, <3>4, <3>6, <4>2 DEF ShowInv
    <3> QED BY <3>5, <3>6
  <2> QED BY <2>4, <2>5
<1> QED BY <1>3, <1>4

LEMMA EditShow ==
  ASSUME PeopleInv, LinkInv, Running, ShowInv, EditThread
  PROVE  ShowInv'
<1>1. UNCHANGED <<link, heard, keys, ops, events, late, lost, humanActs, idles>>
  BY DEF EditThread, WorkOnly, github, bounds, history
<1> SUFFICES ASSUME Quiet', ~Doomed'
             PROVE  /\ Unqueued' = {} => WillArchive'
                    /\ (\A event \in Unqueued' : event.kind = "closed") => WillLock'
  BY DEF ShowInv
<1>2. Quiet /\ ~Doomed /\ Unqueued' = Unqueued
  BY <1>1 DEF Quiet, Doomed, Unqueued
<1> DEFINE op == handler.op
<1>3. /\ ops # <<>> /\ op = Head(ops)
      /\ op.action \notin Locks => thread'.locked = thread.locked
      /\ op.action \notin Turns => thread'.archived = thread.archived \/ Visits(op, link)
  BY <1>2, EditRuns DEF Quiet
<1> HIDE DEF op
<1>4. 1 \in 1..Len(ops) /\ op = ops[1]
  <2>1. ops \in Seq(Operation)
    BY DEF PeopleInv, TypeOK
  <2>2. Len(ops) \in Nat /\ Len(ops) # 0
    BY <1>3, <2>1, EmptySeq, LenProperties
  <2> QED BY <1>3, <2>1, <2>2
<1>5. ASSUME WillArchive PROVE WillArchive'
  <2>1. CASE \E n \in 1..Len(ops) : LastOf(Turns, n) /\ (Archives(ops[n]) <=> Wanted)
    BY <1>1, <2>1 DEF WillArchive, LastOf, Wanted
  <2>2. CASE NoneOf(Turns)
    <3>1. op.action \notin Turns /\ NoneOf(Turns)' /\ Wanted' = Wanted
      BY <1>1, <1>4, <2>2 DEF NoneOf, Wanted
    <3>2. \/ thread'.archived = TRUE <=> Wanted'
          \/ \E n \in 1..Len(ops) : Visits(ops[n], link)
      <4>1. (thread.archived = TRUE <=> Wanted) \/ \E n \in 1..Len(ops) : Visits(ops[n], link)
        BY <1>5, <2>2 DEF WillArchive, LastOf, NoneOf
      <4> QED BY <1>3, <1>4, <3>1, <4>1
    <3> QED BY <1>1, <3>1, <3>2 DEF WillArchive
  <2> QED BY <1>5, <2>1, <2>2 DEF WillArchive
<1>6. ASSUME WillLock PROVE WillLock'
  <2>1. CASE \E n \in 1..Len(ops) : LastOf(Locks, n) /\ (LocksIt(ops[n]) <=> link.locked = TRUE)
    BY <1>1, <2>1 DEF WillLock, LastOf
  <2>2. CASE NoneOf(Locks) /\ (thread.locked = TRUE <=> link.locked = TRUE)
    <3>1. op.action \notin Locks
      BY <1>4, <2>2 DEF NoneOf
    <3> QED BY <1>1, <1>3, <2>2, <3>1 DEF WillLock, NoneOf
  <2> QED BY <1>6, <2>1, <2>2 DEF WillLock
<1> QED BY <1>2, <1>5, <1>6 DEF ShowInv

LEMMA ShowStep ==
  PeopleInv /\ LinkInv /\ HistoryInv /\ EnqueueInv /\ Running /\ ShowInv /\ [Next]_vars => ShowInv'
<1> SUFFICES ASSUME PeopleInv, LinkInv, HistoryInv, EnqueueInv, Running, ShowInv, [Next]_vars PROVE ShowInv'
  OBVIOUS
<1>1. CASE \/ UserCloses \/ UserReopens \/ UserLocks \/ UserUnlocks \/ UserRetitles \/ UserComments
           \/ EnqueueSnapshot
  BY <1>1, OutsideShow
<1>2. CASE \/ ModeratorArchives \/ ModeratorLocks \/ ModeratorRenames \/ ModeratorTags \/ PersonPosts
           \/ Inactivity \/ CommandClose \/ Tick \/ ReadThread \/ HearMessage \/ HearUpdate
           \/ ClaimAudit \/ Classify \/ ClassifyEarly \/ FailQuery \/ UNCHANGED vars
           \/ (\E event \in events : ClaimEvent(event)) \/ ClaimOnThread \/ ClaimOnIssue
           \/ PostNotice \/ WriteIssue \/ RecordIssue \/ Interrupt \/ GiveUp \/ LoseEvent
  BY <1>2, QuietShow
<1>3. CASE Finish \/ LinkIssue \/ EnqueueLifecycle \/ EditThread
  BY <1>3, FinishShow, LinkIssueShow, EnqueueShow, EditShow
<1> QED BY <1>1, <1>2, <1>3 DEF Next

\* Once everything has settled the thread is archived and locked as the issue is closed and
\* locked, if nobody has acted on the thread, Discord has not archived it and no webhook was
\* lost or came late: the operations of the events, the repairs of the reconciliation and the
\* visits of a closed thread leave it so in any order (#syncDiscordLifecycle, #syncDiscordItem).
THEOREM ThreadsFollowIssues == Spec => []ThreadMatchesIssue
<1>1. PeopleInv /\ LinkInv /\ ShowInv => ThreadMatchesIssue
  <2> SUFFICES ASSUME PeopleInv, LinkInv, ShowInv, Settled, ~late, ~lost, humanActs = 0, idles = 0
               PROVE  /\ thread.archived = (issue.state = "closed" \/ issue.locked)
                      /\ thread.locked = issue.locked
    BY DEF ThreadMatchesIssue
  <2>1. link = issue
    <3>1. PICK c \in 0..issued : UnchangedSince(c)
      BY DEF LinkInv
    <3>2. events = {} /\ heard \in Nat /\ issued \in Nat
      BY DEF Settled, PeopleInv, TypeOK
    <3> QED BY <3>1, <3>2 DEF UnchangedSince
  <2>2. ops = <<>> /\ Len(ops) = 0 /\ events = {}
    BY DEF Settled
  <2>3. ~Doomed /\ Unqueued = {} /\ Quiet
    BY <2>2 DEF Doomed, Unqueued, Quiet
  <2>4. WillArchive /\ WillLock
    BY <2>3 DEF ShowInv
  <2>5. (thread.archived = TRUE <=> Wanted) /\ (thread.locked = TRUE <=> link.locked = TRUE)
    BY <2>2, <2>4 DEF WillArchive, WillLock
  <2>6. thread.archived \in BOOLEAN /\ thread.locked \in BOOLEAN /\ issue.locked \in BOOLEAN
    BY DEF PeopleInv, TypeOK, Thread, Issue
  <2> QED BY <2>1, <2>5, <2>6, Zenon DEF Wanted
<1>2. Init => HistoryInv /\ EnqueueInv /\ Running /\ ShowInv
  BY InitHistory, InitEnqueue, InitRunning, InitShow
<1> QED BY <1>1, <1>2, InitPeople, PeopleStep, InitLink, LinkStep, HistoryStep, EnqueueInvStep, RunningStep,
           ShowStep, PTL DEF Spec
=============================================================================
