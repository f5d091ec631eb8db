-------------------------- MODULE ThreadLifecycle --------------------------
(***************************************************************************)
(* The state, lock and title of a GitHub issue and of its Discord thread.  *)
(* GitHub tells the relay by webhooks, Discord by thread.update, which     *)
(* does not say who did it: an audit job asks Discord's audit log and      *)
(* decides whether a moderator has acted (audit-classifier.ts).  What the  *)
(* relay does on one side is announced by that side again.                 *)
(*                                                                         *)
(* The worker runs one handler at a time, as in MessageRelay; the audit    *)
(* classifier is a loop of its own beside it.  The events of the issue are *)
(* handled in any order, for webhooks arrive so and a snapshot of a        *)
(* reconciliation has a partition of its own.  Time is counted in epochs:  *)
(* two moments are within the 30 s of an audit job iff they share one.     *)
(* The thread is made from the issue and is linked; labels are ForumTags'. *)
(***************************************************************************)
EXTENDS Naturals, Sequences, SequencesExt

CONSTANTS
  MaxActs,       \* bound: what GitHub users do to the issue
  MaxHumanActs,  \* bound: what people do to the thread
  MaxIdles,      \* bound: Discord archives the thread for inactivity
  MaxRuns,       \* bound: reconciliations
  MaxFaults,     \* bound: interrupted handlers, dead rows, lost webhooks
  MaxInAll,      \* bound: all of these together
  MaxTime,       \* bound: epochs
  MaxEvidence,   \* attempts before missing evidence counts as none (3)
  MaxEvents      \* bound: events of the issue

ASSUME LifecycleAssumption ==
  /\ MaxActs \in Nat /\ MaxHumanActs \in Nat /\ MaxIdles \in Nat /\ MaxRuns \in Nat
  /\ MaxFaults \in Nat /\ MaxInAll \in Nat /\ MaxTime \in Nat
  /\ MaxEvidence \in Nat \ {0} /\ MaxEvents \in Nat

VARIABLES
  issue,     \* the issue on GitHub
  thread,    \* the thread in Discord
  link,      \* the relay's record of the issue (issue_thread_links)
  events,    \* events of the issue not yet settled
  issued,    \* the last event of the issue
  plan,      \* the thread as a running reconciliation has read it
  updates,   \* partition discord:thread: thread.update events not yet handled
  posts,     \* messages people posted that are not yet handled
  ops,       \* partition link: the operations not yet settled
  keys,      \* idempotency keys of the operations on the thread so far
  jobs,      \* audit_classification_jobs, in the order of observed_at
  log,       \* Discord's audit log of the thread
  now,
  handler,   \* the running handler of the worker
  auditor,   \* the job the classifier works on, by its place in jobs
  acts, humanActs, idles, runs, faults,
  wanted,    \* the issue as GitHub users left it
  heard,     \* the newest event of the issue that was handled
  late,      \* an older event was handled after a newer one
  lost       \* an event did not arrive or a row died

vars == <<issue, thread, link, events, issued, plan, updates, posts, ops, keys, jobs, log, now, handler,
          auditor, acts, humanActs, idles, runs, faults, wanted, heard, late, lost>>

State == {"open", "closed"}

\* A thread shows a title up to 100 characters.
Title    == {"long", "cut", "other"}
Shown(t) == IF t = "long" THEN "cut" ELSE t

Issue  == [state : State, locked : BOOLEAN, title : Title]
Thread == [archived : BOOLEAN, locked : BOOLEAN, name : Title, tagged : BOOLEAN]

IssueEvent == {"closed", "reopened", "locked", "unlocked", "edited", "comment", "snapshot"}
NotSeen    == [archived |-> FALSE, locked |-> FALSE, known |-> FALSE]
Event == [kind : IssueEvent, issue : Issue, own : BOOLEAN, id : Nat, row : Nat,
          seen : [archived : BOOLEAN, locked : BOOLEAN, known : BOOLEAN]]

ToDiscord == {"closed", "reopened", "locked", "unlocked", "title", "activity", "comment"}
ToGitHub  == {"close", "reopen", "lock", "unlock", "rename", "labels"}

\* An operation on the thread knows the event it comes from; the operations on GitHub
\* have keys that occur once (audit job, message, interaction).
Operation == [to : {"discord", "github"}, action : ToDiscord \cup ToGitHub, row : Nat,
              issue : Issue, own : BOOLEAN]

\* discord:lifecycle:{link}:{action}:{event}, or discord:sync:{item}:{fingerprint}
KeyOf(op) == IF op.action = "title" THEN <<"title", 0, op.issue.title>>
             ELSE <<op.action, op.row, "other">>

\* Of an epoch the audit log gives the newest entry, or to one who reads it early any.
Entry == [newest : {"none", "relay", "human"}, actors : SUBSET {"relay", "human"}]
Job   == [observed : Thread, at : 0..MaxTime, attempts : Nat]

\* An edit of the thread: the fields the call names.
Edit == [field : {"archived", "locked", "both", "name"}, archived : BOOLEAN, locked : BOOLEAN,
         name : Title]

NoIssue  == [state |-> "open", locked |-> FALSE, title |-> "other"]
NoEvent  == [kind |-> "comment", issue |-> NoIssue, own |-> FALSE, id |-> 0, row |-> 0,
             seen |-> NotSeen]

\* An operation on the issue names the new title, if it is to be renamed.
OnIssue(action, title) == [to |-> "github", action |-> action, row |-> 0, own |-> FALSE,
                           issue |-> [NoIssue EXCEPT !.title = title]]
NoOp == OnIssue("labels", "other")

Handler == [job : {"none", "event", "operation"},
            step : {"none", "link", "enqueue", "edit", "notice", "write", "record", "end"},
            event : Event, todo : Seq(Operation), op : Operation, edits : Seq(Edit), link : Issue]
Idle    == [job |-> "none", step |-> "none", event |-> NoEvent, todo |-> <<>>, op |-> NoOp,
            edits |-> <<>>, link |-> NoIssue]
Auditor == [job : Nat, link : Issue]
Waiting == [job |-> 0, link |-> NoIssue]

TypeOK ==
  /\ issue \in Issue /\ thread \in Thread /\ link \in Issue
  /\ events \in SUBSET Event /\ issued \in 0..MaxEvents
  /\ plan \in [archived : BOOLEAN, locked : BOOLEAN, known : BOOLEAN]
  /\ updates \in Seq(Thread) /\ posts \in Nat /\ ops \in Seq(Operation)
  /\ keys \in SUBSET (ToDiscord \X Nat \X Title)
  /\ jobs \in Seq(Job) /\ log \in [0..MaxTime -> Entry] /\ now \in 0..MaxTime
  /\ handler \in Handler /\ auditor \in Auditor
  /\ acts \in 0..MaxActs /\ humanActs \in 0..MaxHumanActs /\ idles \in 0..MaxIdles
  /\ runs \in 0..MaxRuns /\ faults \in 0..MaxFaults
  /\ wanted \in Issue /\ heard \in Nat
  /\ late \in BOOLEAN /\ lost \in BOOLEAN

\* An open issue whose thread has been made, and locked if it is locked.
Init ==
  /\ issue \in [state : {"open"}, locked : BOOLEAN, title : {"long"}]
  /\ thread = [archived |-> issue.locked, locked |-> issue.locked, name |-> Shown(issue.title),
               tagged |-> FALSE]
  /\ link = issue
  /\ events = {} /\ issued = 0 /\ plan = NotSeen
  /\ updates = <<>> /\ posts = 0 /\ ops = <<>> /\ keys = {<<"title", 0, "long">>} /\ jobs = <<>>
  /\ log = [t \in 0..MaxTime |-> [newest |-> "none", actors |-> {}]] /\ now = 0
  /\ handler = Idle /\ auditor = Waiting
  /\ acts = 0 /\ humanActs = 0 /\ idles = 0 /\ runs = 0 /\ faults = 0
  /\ wanted = issue /\ heard = 0 /\ late = FALSE /\ lost = FALSE

Spare == acts + humanActs + idles + runs + faults < MaxInAll

github  == <<issue, events, issued>>
discord == <<thread, log, updates>>
audit   == <<jobs, auditor>>
bounds  == <<acts, humanActs, idles, runs>>
history == <<wanted, heard, late, lost>>

----------------------------------------------------------------------------
\* GitHub: a change of the issue, and its webhook.

\* A call that changes nothing has no webhook.
Announce(kind, after, own) ==
  IF after = issue /\ kind # "comment"
  THEN UNCHANGED github
  ELSE /\ issued < MaxEvents /\ issued' = issued + 1
       /\ issue' = after
       /\ events' = events \cup {[kind |-> kind, issue |-> after, own |-> own, id |-> issued',
                                  row |-> issued', seen |-> NotSeen]}

UserActs(kind, after) ==
  /\ acts < MaxActs /\ Spare /\ acts' = acts + 1
  /\ Announce(kind, after, FALSE)
  /\ wanted' = after
  /\ UNCHANGED <<link, plan, posts, ops, keys, audit, discord, now, handler, humanActs, idles, runs,
                 faults, heard, late, lost>>

UserCloses   == issue.state = "open" /\ UserActs("closed", [issue EXCEPT !.state = "closed"])
UserReopens  == issue.state = "closed" /\ UserActs("reopened", [issue EXCEPT !.state = "open"])
UserLocks    == ~issue.locked /\ UserActs("locked", [issue EXCEPT !.locked = TRUE])
UserUnlocks  == issue.locked /\ UserActs("unlocked", [issue EXCEPT !.locked = FALSE])
UserRetitles == issue.title # "other" /\ UserActs("edited", [issue EXCEPT !.title = "other"])
UserComments == ~issue.locked /\ UserActs("comment", issue)

----------------------------------------------------------------------------
\* Discord: a change of the thread is announced, and the audit log has who made it.

Change(after) ==
  /\ thread' = after
  /\ updates' = IF after = thread THEN updates ELSE Append(updates, after)

Log(by) == log' = [log EXCEPT ![now] = [newest |-> by, actors |-> @.actors \cup {by}]]

DiscordOnly == UNCHANGED <<github, link, plan, ops, keys, audit, now, handler, acts, runs, faults,
                           wanted, heard, late, lost>>

ModeratorActs(after) ==
  /\ humanActs < MaxHumanActs /\ Spare /\ humanActs' = humanActs + 1
  /\ after # thread
  /\ Change(after) /\ Log("human")
  /\ UNCHANGED <<posts, idles>>
  /\ DiscordOnly

ModeratorArchives == \E b \in BOOLEAN : ModeratorActs([thread EXCEPT !.archived = b])
ModeratorLocks    == \E b \in BOOLEAN : ModeratorActs([thread EXCEPT !.locked = b])
ModeratorRenames  == ModeratorActs([thread EXCEPT !.name = "other"])
ModeratorTags     == ModeratorActs([thread EXCEPT !.tagged = TRUE])

\* A message opens an archived thread; the audit log has nothing of it.
PersonPosts ==
  /\ humanActs < MaxHumanActs /\ Spare /\ humanActs' = humanActs + 1
  /\ ~thread.locked
  /\ Change([thread EXCEPT !.archived = FALSE])
  /\ posts' = posts + 1
  /\ UNCHANGED <<log, idles>>
  /\ DiscordOnly

\* Discord archives a thread nobody writes in.
Inactivity ==
  /\ idles < MaxIdles /\ Spare /\ idles' = idles + 1
  /\ ~thread.archived
  /\ Change([thread EXCEPT !.archived = TRUE])
  /\ UNCHANGED <<log, posts, humanActs>>
  /\ DiscordOnly

\* /relay close
CommandClose ==
  /\ humanActs < MaxHumanActs /\ Spare /\ humanActs' = humanActs + 1
  /\ ops' = Append(ops, OnIssue("close", "other"))
  /\ UNCHANGED <<github, discord, link, plan, posts, keys, audit, now, handler, acts, idles, runs,
                 faults, history>>

Tick ==
  /\ now < MaxTime /\ now' = now + 1
  /\ UNCHANGED <<github, discord, link, plan, posts, ops, keys, audit, handler, bounds, faults, history>>

----------------------------------------------------------------------------
\* The reconciliation reads the thread and the issue and enqueues what it has read.  The
\* issue may change between that and the handling of the snapshot, as in the code.

ReadThread ==
  /\ runs < MaxRuns /\ Spare /\ runs' = runs + 1
  /\ ~plan.known
  /\ plan' = [archived |-> thread.archived, locked |-> thread.locked, known |-> TRUE]
  /\ UNCHANGED <<github, discord, link, posts, ops, keys, audit, now, handler, acts, humanActs,
                 idles, faults, history>>

EnqueueSnapshot ==
  /\ plan.known /\ plan' = NotSeen
  /\ events' = events \cup {[kind |-> "snapshot", issue |-> issue, own |-> FALSE, id |-> issued,
                             row |-> MaxEvents + runs, seen |-> plan]}
  /\ UNCHANGED <<issue, issued, discord, link, posts, ops, keys, audit, now, handler, bounds,
                 faults, history>>

----------------------------------------------------------------------------
\* The worker: claims, and the end of a handler.

Goto(step) == handler' = [handler EXCEPT !.step = step]
WorkOnly   == UNCHANGED <<plan, audit, now, bounds>>

ClaimEvent(event) ==
  /\ handler = Idle
  /\ handler' = [Idle EXCEPT !.job = "event", !.step = "link", !.event = event]
  /\ UNCHANGED <<github, discord, link, posts, ops, keys, faults, history>> /\ WorkOnly

\* The row the handler has claimed is completed or dead.
SettleRow ==
  /\ handler' = Idle
  /\ events' = IF handler.job = "event" THEN events \ {handler.event} ELSE events
  /\ ops' = IF handler.job = "operation" THEN Tail(ops) ELSE ops
  /\ UNCHANGED <<issue, issued, discord, link, posts, keys, wanted, heard, late>>

Finish == handler.step = "end" /\ SettleRow /\ UNCHANGED <<faults, lost>> /\ WorkOnly

\* The last attempt fails, or a failure that is not worth a retry.
GiveUp ==
  /\ handler # Idle /\ faults < MaxFaults /\ Spare
  /\ SettleRow /\ faults' = faults + 1 /\ lost' = TRUE /\ WorkOnly

\* A failure worth a retry, an answer that was lost, or a crash, which ends the
\* reconciliation and leaves the job of the classifier PROCESSING for good.
Interrupt ==
  /\ handler # Idle \/ auditor # Waiting
  /\ faults < MaxFaults /\ Spare /\ faults' = faults + 1
  /\ handler' = Idle
  /\ \/ UNCHANGED <<plan, auditor, lost>>
     \/ plan' = NotSeen /\ auditor' = Waiting /\ lost' = (lost \/ auditor # Waiting)
  /\ jobs' = IF auditor' = auditor THEN jobs ELSE RemoveAt(jobs, auditor.job)
  /\ UNCHANGED <<github, discord, link, posts, ops, keys, now, bounds, wanted, heard, late>>

LoseEvent ==
  /\ faults < MaxFaults /\ Spare /\ faults' = faults + 1
  /\ \E event \in events : events' = events \ {event} /\ event # handler.event
  /\ lost' = TRUE
  /\ UNCHANGED <<issue, issued, discord, link, posts, ops, keys, handler, wanted, heard, late>>
  /\ WorkOnly

----------------------------------------------------------------------------
\* The events of the issue.

OnThread(action, event) == [to |-> "discord", action |-> action, row |-> event.row,
                            issue |-> event.issue, own |-> event.own]

\* Mutant: a repair is named by the state of the issue.
RepairsByState(event, previous) ==
  LET after == event.issue
      seen  == event.seen
  IN (IF previous.state # after.state \/ (seen.known /\ (after.state = "closed") # seen.archived)
      THEN <<OnThread(after.state, event)>> ELSE <<>>)
     \o (IF previous.locked # after.locked \/ (seen.known /\ seen.locked # after.locked)
         THEN <<OnThread(IF after.locked THEN "locked" ELSE "unlocked", event)>> ELSE <<>>)

\* reconciliationLifecycleRepairs: what the link, or the thread as it was read, lacks.
Repairs(event, previous) ==
  LET after    == event.issue
      seen     == event.seen
      mismatch == seen.known /\ IF after.state = "closed" THEN ~seen.archived
                                ELSE ~after.locked /\ (seen.archived \/ seen.locked)
  IN (IF previous.state # after.state \/ mismatch
      THEN <<OnThread(IF after.state = "closed" THEN "closed" ELSE "reopened", event)>> ELSE <<>>)
     \o (IF previous.locked # after.locked \/ (seen.known /\ seen.locked # after.locked)
         THEN <<OnThread(IF after.locked THEN "locked" ELSE "unlocked", event)>> ELSE <<>>)

Intended(event, previous) ==
  CASE event.kind = "comment"  -> <<OnThread("comment", event)>>
    [] event.kind = "snapshot" -> <<OnThread("title", event)>> \o Repairs(event, previous)
    [] event.kind = "edited"   ->
         <<OnThread("title", event)>> \o Repairs(event, previous)
           \o (IF event.own THEN <<>> ELSE <<OnThread("activity", event)>>)
    [] OTHER -> <<OnThread(event.kind, event)>>

\* Stores the issue of an event.
Store(event) ==
  /\ link' = event.issue
  /\ heard' = IF event.id > heard THEN event.id ELSE heard
  /\ late' = (late \/ event.id < heard)

\* Mutant: what the relay itself did is not stored again.
LinkForeignIssue ==
  /\ handler.step = "link"
  /\ LET event == handler.event
     IN /\ handler' = [handler EXCEPT !.step = "enqueue", !.todo = Intended(event, link)]
        /\ IF event.kind = "comment" \/ event.own THEN UNCHANGED <<link, heard, late>> ELSE Store(event)
  /\ UNCHANGED <<github, discord, posts, ops, keys, faults, wanted, lost>> /\ WorkOnly

\* ensureGitHubIssueLink stores the issue of the event, whatever its age; what there is
\* to repair is found by comparing with the link as it was before.
LinkIssue ==
  /\ handler.step = "link"
  /\ LET event == handler.event
     IN /\ handler' = [handler EXCEPT !.step = "enqueue", !.todo = Intended(event, link)]
        /\ IF event.kind = "comment" THEN UNCHANGED <<link, heard, late>> ELSE Store(event)
  /\ UNCHANGED <<github, discord, posts, ops, keys, faults, wanted, lost>> /\ WorkOnly

EnqueueLifecycle ==
  /\ handler.step = "enqueue"
  /\ LET op == Head(handler.todo)
     IN /\ keys' = keys \cup {KeyOf(op)}
        /\ ops' = IF KeyOf(op) \in keys THEN ops ELSE Append(ops, op)
  /\ handler' = [handler EXCEPT !.todo = Tail(@),
                                !.step = IF Len(handler.todo) = 1 THEN "end" ELSE @]
  /\ UNCHANGED <<github, discord, link, posts, faults, history>> /\ WorkOnly

\* A message in a closed thread reopens the issue before it is relayed.
HearMessage ==
  /\ handler = Idle /\ posts > 0
  /\ posts' = posts - 1
  /\ ops' = IF link.state = "closed" /\ ~link.locked
            THEN Append(ops, OnIssue("reopen", "other")) ELSE ops
  /\ UNCHANGED <<github, discord, link, keys, handler, faults, history>> /\ WorkOnly

\* A thread.update becomes an audit job, observed when it is handled; a handler that is
\* interrupted before its row is completed makes another one later.
HearUpdate ==
  /\ handler = Idle /\ updates # <<>>
  /\ jobs' = Append(jobs, [observed |-> Head(updates), at |-> now, attempts |-> 0])
  /\ \/ updates' = Tail(updates) /\ UNCHANGED faults
     \/ faults < MaxFaults /\ Spare /\ faults' = faults + 1 /\ UNCHANGED updates
  /\ UNCHANGED <<github, thread, log, link, plan, posts, ops, keys, auditor, now, handler, bounds,
                 history>>

----------------------------------------------------------------------------
\* The operations on the thread (#syncDiscordLifecycle, #syncDiscordItem).

Set(field, archived, locked, name) ==
  [field |-> field, archived |-> archived, locked |-> locked, name |-> name]
Archive(b)       == Set("archived", b, FALSE, "other")
Both(archived, locked) == Set("both", archived, locked, "other")

\* Open the thread, post, and archive it again.
Visit == <<Archive(FALSE), Archive(TRUE)>>

\* Mutant: unlocking opens the thread.
UnlockOpens(op, from) ==
  CASE op.action = "closed"   -> <<Archive(TRUE)>>
    [] op.action = "reopened" -> <<Both(op.issue.locked, op.issue.locked)>>
    [] op.action = "locked"   -> <<Both(TRUE, TRUE)>>
    [] op.action = "unlocked" -> <<Both(FALSE, FALSE)>>
    [] op.action = "title"    -> <<Set("name", FALSE, FALSE, Shown(op.issue.title))>>
    [] OTHER -> <<>>

\* The edits of the thread an operation makes, in their order, if it finds this link.
\* The notices in between change nothing the relay keeps.
Edits(op, from) ==
  CASE op.action = "closed"   -> <<Archive(TRUE)>>
    [] op.action = "reopened" -> <<Both(op.issue.locked, op.issue.locked)>>
    [] op.action = "locked"   -> <<Both(TRUE, TRUE)>>
    [] op.action = "unlocked" -> <<Both(op.issue.state = "closed", FALSE)>>
                                   \o (IF ~op.own /\ from.state = "closed" THEN Visit ELSE <<>>)
    [] op.action = "title"    -> <<Set("name", FALSE, FALSE, Shown(op.issue.title))>>
    [] op.action = "activity" -> IF from.state = "closed" /\ ~from.locked THEN Visit ELSE <<>>
    [] op.action = "comment"  -> IF from.state = "closed" THEN Visit ELSE <<>>

ClaimOnThread ==
  /\ handler = Idle /\ ops # <<>> /\ Head(ops).to = "discord"
  /\ LET op    == Head(ops)
         edits == Edits(op, link)
     IN handler' = [Idle EXCEPT !.job = "operation", !.op = op, !.edits = edits,
                                !.step = IF edits = <<>> THEN "end" ELSE "edit"]
  /\ UNCHANGED <<github, discord, link, posts, ops, keys, faults, history>> /\ WorkOnly

Edited(edit) ==
  [thread EXCEPT !.archived = IF edit.field \in {"archived", "both"} THEN edit.archived ELSE @,
                 !.locked   = IF edit.field = "both" THEN edit.locked ELSE @,
                 !.name     = IF edit.field = "name" THEN edit.name ELSE @]

EditThread ==
  /\ handler.step = "edit"
  /\ Change(Edited(Head(handler.edits)))
  /\ IF thread' = thread THEN UNCHANGED log ELSE Log("relay")
  /\ handler' = [handler EXCEPT !.edits = Tail(@),
                                !.step = IF Len(handler.edits) = 1 THEN "end" ELSE @]
  /\ UNCHANGED <<github, link, posts, ops, keys, faults, history>> /\ WorkOnly

----------------------------------------------------------------------------
\* The operations on the issue (#syncGitHubLifecycle).

ClaimOnIssue ==
  /\ handler = Idle /\ ops # <<>> /\ Head(ops).to = "github"
  /\ handler' = [Idle EXCEPT !.job = "operation", !.op = Head(ops), !.link = link,
                   !.step = IF Head(ops).action \in {"close", "reopen", "lock"}
                            THEN "notice" ELSE "write"]
  /\ UNCHANGED <<github, discord, link, posts, ops, keys, faults, history>> /\ WorkOnly

\* The comment that says who did it; nothing marks it as the relay's own.
PostNotice ==
  /\ handler.step = "notice"
  /\ Announce("comment", issue, TRUE)
  /\ Goto("write")
  /\ UNCHANGED <<discord, link, posts, ops, keys, faults, history>> /\ WorkOnly

WriteIssue ==
  /\ handler.step = "write"
  /\ LET op == handler.op
     IN CASE op.action = "close"  -> Announce("closed", [issue EXCEPT !.state = "closed"], TRUE)
          [] op.action = "reopen" -> Announce("reopened", [issue EXCEPT !.state = "open"], TRUE)
          [] op.action = "lock"   -> Announce("locked", [issue EXCEPT !.locked = TRUE], TRUE)
          [] op.action = "unlock" -> Announce("unlocked", [issue EXCEPT !.locked = FALSE], TRUE)
          [] op.action = "rename" -> Announce("edited", [issue EXCEPT !.title = op.issue.title], TRUE)
          [] op.action = "labels" -> UNCHANGED github
  /\ Goto(IF handler.op.action = "labels" THEN "end" ELSE "record")
  /\ UNCHANGED <<discord, link, posts, ops, keys, faults, history>> /\ WorkOnly

\* What the operation did not change is written back as it was read.
RecordIssue ==
  /\ handler.step = "record"
  /\ LET op == handler.op
     IN link' = CASE op.action = "close"  -> [handler.link EXCEPT !.state = "closed", !.title = link.title]
                  [] op.action = "reopen" -> [handler.link EXCEPT !.state = "open", !.title = link.title]
                  [] op.action = "lock"   -> [handler.link EXCEPT !.locked = TRUE, !.title = link.title]
                  [] op.action = "unlock" -> [handler.link EXCEPT !.locked = FALSE, !.title = link.title]
                  [] op.action = "rename" -> [link EXCEPT !.title = op.issue.title]
  /\ Goto("end")
  /\ UNCHANGED <<github, discord, posts, ops, keys, faults, history>> /\ WorkOnly

----------------------------------------------------------------------------
\* The audit classifier, beside the worker.

AuditOnly == UNCHANGED <<github, discord, link, plan, posts, keys, now, handler, bounds, history>>

\* In the order of observed_at, but for those that wait for another attempt; a claim has
\* no end.
ClaimAudit ==
  /\ auditor = Waiting
  /\ \E i \in 1..Len(jobs) :
       /\ \A j \in 1..(i - 1) : jobs[j].attempts > 0
       /\ auditor' = [job |-> i, link |-> link]
       /\ jobs' = [jobs EXCEPT ![i].attempts = @ + 1]
  /\ UNCHANGED <<ops, faults>> /\ AuditOnly

\* findEvidence: who made the entry that is found.
Evidence(actor) == IF actor = "none" THEN "none" ELSE IF actor = "relay" THEN "self" ELSE "human-audit"

\* Mutant: what the log does not explain is taken for a person's.
TransitionOfAnyone(previous, observed, evidence) ==
  IF evidence = "self" THEN "self"
  ELSE IF previous.locked # observed.locked THEN IF observed.locked THEN "lock" ELSE "unlock"
  ELSE IF (previous.state = "closed") # observed.archived
       THEN IF observed.archived THEN "close" ELSE "reopen"
  ELSE IF previous.title # observed.name THEN "rename"
  ELSE IF observed.tagged THEN "labels" ELSE "none"

\* classifyThreadTransition; the job does not know the tags the thread had before, and the
\* name of a thread whose title is long is not the title: any human act would rename it.
Transition(previous, observed, evidence) ==
  LET archived == previous.state = "closed"
      same == /\ archived = observed.archived /\ previous.locked = observed.locked
              /\ previous.title = observed.name /\ ~observed.tagged
  IN CASE evidence = "self" -> "self"
       [] evidence = "none" ->
            IF ~archived /\ observed.archived /\ ~observed.locked THEN "inactivity-archive"
            ELSE IF same THEN "none" ELSE "ambiguous"
       [] evidence = "human-audit" ->
            IF previous.locked # observed.locked THEN IF observed.locked THEN "lock" ELSE "unlock"
            ELSE IF archived # observed.archived THEN IF observed.archived THEN "close" ELSE "reopen"
            ELSE IF previous.title # observed.name THEN "rename"
            ELSE IF observed.tagged THEN "labels" ELSE "none"

\* Missing evidence is looked for again; then the job is completed.
Decide(actor) ==
  LET job      == jobs[auditor.job]
      evidence == Evidence(actor)
      action   == Transition(auditor.link, job.observed, evidence)
  IN /\ IF evidence = "none" /\ job.attempts < MaxEvidence
        THEN UNCHANGED <<jobs, ops>>
        ELSE /\ jobs' = RemoveAt(jobs, auditor.job)
             /\ ops' = IF action \in ToGitHub
                       THEN Append(ops, OnIssue(action, job.observed.name))
                       ELSE ops
     /\ auditor' = Waiting
     /\ AuditOnly

Classify ==
  /\ auditor # Waiting
  /\ Decide(log[jobs[auditor.job].at].newest) /\ UNCHANGED faults

\* The log that is read lags behind.
ClassifyEarly ==
  /\ auditor # Waiting
  /\ faults < MaxFaults /\ Spare /\ faults' = faults + 1
  /\ \E actor \in log[jobs[auditor.job].at].actors \cup {"none"} : Decide(actor)

\* The query fails; only the fifth attempt gives the job up.
FailQuery ==
  /\ auditor # Waiting /\ faults < MaxFaults /\ Spare
  /\ faults' = faults + 1
  /\ auditor' = Waiting
  /\ UNCHANGED <<jobs, ops>> /\ AuditOnly

----------------------------------------------------------------------------
Next ==
  \/ UserCloses \/ UserReopens \/ UserLocks \/ UserUnlocks \/ UserRetitles \/ UserComments
  \/ ModeratorArchives \/ ModeratorLocks \/ ModeratorRenames \/ ModeratorTags
  \/ PersonPosts \/ Inactivity \/ CommandClose \/ Tick
  \/ ReadThread \/ EnqueueSnapshot
  \/ \E event \in events : ClaimEvent(event)
  \/ Finish \/ GiveUp \/ Interrupt \/ LoseEvent
  \/ LinkIssue \/ EnqueueLifecycle \/ HearMessage \/ HearUpdate
  \/ ClaimOnThread \/ EditThread
  \/ ClaimOnIssue \/ PostNotice \/ WriteIssue \/ RecordIssue
  \/ ClaimAudit \/ Classify \/ ClassifyEarly \/ FailQuery

Spec == Init /\ [][Next]_vars

----------------------------------------------------------------------------
\* Properties

\* Only people change an issue: as long as nobody has acted in Discord it is what GitHub
\* users made it, for all the relay's own changes of the thread, Discord's archiving, and
\* what is redelivered, reordered or read twice (self evidence, inactivity, ambiguity).
OnlyPeopleChangeIssue == humanActs = 0 => issue = wanted

Settled ==
  /\ handler = Idle /\ auditor = Waiting
  /\ events = {} /\ ~plan.known /\ updates = <<>> /\ posts = 0 /\ ops = <<>> /\ jobs = <<>>

\* Once everything has settled the link is what the issue is, people and moderators on
\* both sides, the relay's own writes and their webhooks, and retries notwithstanding.
LinkMatchesIssue == Settled /\ ~late /\ ~lost => link = issue

\* And the thread shows the state and the lock of the issue, if nobody has acted on the
\* thread and Discord has not archived it.
ThreadMatchesIssue ==
  Settled /\ ~late /\ ~lost /\ humanActs = 0 /\ idles = 0 =>
    /\ thread.archived = (issue.state = "closed" \/ issue.locked)
    /\ thread.locked = issue.locked
=============================================================================
