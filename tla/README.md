# Forum Relay: specification and proofs

Forum Relay keeps a Discord forum and a GitHub repository in step: threads and
issues, messages and comments, tags and labels. This directory holds TLA+
modules that model the parts of it that run concurrently or survive a crash,
TLC configurations that check small instances, and TLAPS proofs for instances of
any size. Paths are relative to the repository (`src/` holds the program).

## 1. The system

One Bun process serves GitHub's webhooks and a Discord gateway connection, and
stores everything in one SQLite database.

```
 webhook server ─┐                                    ┌─> GitHub
 gateway intake ─┼─> inbox_events ──> worker ──> outbox_operations ──> worker ─┤
 commands ───────┤        (event handlers)     (operation handlers)  └─> Discord
 bootstrap, reconciliation
```

| Component | State | Operations | Hard because | Correct when |
|---|---|---|---|---|
| Durable queue (`db/job-repository.ts`, `jobs/retry-policy.ts`) | rows of `inbox_events`, `outbox_operations`, `operation_dependencies` | idempotent insert, claim, complete, fail, resume thread waiters | claims expire under a handler; partitions, dependencies, back-off and one exception to the order meet in one SQL statement | order in a partition, prerequisites first, no settled row revived, late answers refused, every row settled in the end |
| Durable worker (`jobs/durable-worker.ts`) | the running handler, `#active` | tick: one inbox row, then one outbox row | a handler is many awaits; crash or stop between any two | all operations of an event are recorded once, in order |
| Worker lease and process (`jobs/worker-lease.ts`, `app.ts`, `index.ts`) | `worker_leases`, `active`, `connected`, timers | acquire, renew, release, start, deactivate, stop | start() is a chain of awaits; renewal fails at any time; two processes overlap at a deployment | active only with the lease; a successor gets it |
| Bootstrap (`bootstrap/service.ts`) | `bootstrap_jobs`, one timer per mapping | preview, start, pause, resume, resumeRunning, drained? | calls run for minutes and overlap with each other, with the timer, with commands and crashes | active only after a complete import; somebody ends it |
| Mapping state (`db/mapping-repository.ts`, `app.ts`, the clients, `features/relay/command.ts`) | `mappings.state`, `bootstrap_completed_at`, `disabled_at` | applyConfig, validation, pause, resume | six writers without a common guard | the state machine of `docs/ARCHITECTURE.md` §12 |
| Relay engine (`relay/engine.ts`, `db/relay-repository.ts`) | links, items, resources, attachments, ledger, conflicts; remote objects | event handlers enqueue operations; operation handlers act remotely, then record | crash between the remote act and its record; echoes; edits from both sides | no duplicate without an interruption, no user's edit overwritten by what is not an author's later edit, no return to an older revision |
| Intake (`github/webhook.ts`, `http/server.ts`, `discord/intake.ts`) | inserts events; a cache of thread → mapping | verify, filter echoes, insert | redelivery, unlinked threads | every delivery stored once |
| Audit classifier (`jobs/audit-classifier.ts`) | `audit_classification_jobs`, Discord's audit log | claim, classify, decide, retry | an update does not say who acted; evidence is missing, late, or somebody else's; no claim expiry | the relay's own edits and Discord's archiving never change an issue |
| Reconciliation (`reconciliation/service.ts`) | `reconciliation_runs` | preview, start | a snapshot overtakes live events | the link and the thread still end up as the issue is, unless a snapshot came late |
| Labels and tags (`labels/bindings.ts`, the clients) | `label_bindings`, forum tags | read, plan, replace the table, edit the forum, bind | matching by id, then by name, at most 20 tags, a table written by position | a label keeps its tag; of the tags it has read a synchronization removes only those of labels that are gone |
| Schedulers (`jobs/recovery-scheduler.ts`, `jobs/maintenance.ts`, `db/backups.ts`) | timers | redeliver, reconcile, clean up, back up | a delivery that failed arrives after newer ones | every event is heard of in the end |
| Rules (`domain/*.ts`) | none | state transitions, conflict test | | |
| Rendering, media (`render/`, `media/`) | none | text conversion, downloads | | |
| Framework, configuration, CLI (`core/`, `config/`, `cli.ts`, ...) | none that outlives a call | dispatch, validation | | |

`PROJECT.json` lists the same components with what is modelled of each, and the
hazards of this code, line by line, with the properties that cover them.

## 2. The modules

| Module | Models | Used by |
|---|---|---|
| `RetryPolicy` | `retryDecision`: which failures are retried (the length of a delay is not modelled) | `JobQueue` |
| `JobContract` | abstract: what the queue promises about one job | refined by `JobQueue` |
| `JobQueue` | queue, worker and the queue side of the handlers | `MCJobQueue`, `JobQueueProofs` |
| `RelayProcess` | lease, start and stop of processes, time | `MCRelayProcess`, `RelayProcessProofs` |
| `Bootstrap` | life of one mapping: bootstrap jobs, calls, timer, worker, restarts, commands | `MCBootstrap`, `BootstrapProofs` |
| `MessageRelay` | one Discord message and its comment on GitHub: events, item, operations, users, webhooks | `message_relay`, `MessageRelayProofs` |
| `CommentRelay` | one GitHub comment and its messages in the thread: webhooks, redelivery, reconciliation, segments, the archived thread | `comment_relay`, `comment_returns`, `CommentRelayProofs` |
| `ThreadLifecycle` | state, lock and title of an issue and its thread, from both sides; the audit classifier | `thread_lifecycle`, `ThreadLifecycleProofs` |
| `IssueCreation` | a person's thread and the issue made of it: intake, creation, the body in both directions, webhooks, reconciliation | `issue_creation`, `IssueCreationProofs` |
| `ForumTags` | labels of a repository, tags of a forum, and the synchronizations of the two | `forum_tags`, `ForumTagsProofs` |
| `MC*` | scenarios and symmetry sets for TLC | the `.cfg` files |
| `JobQueueProofs`, `RelayProcessProofs`, `BootstrapProofs`, `MessageRelayProofs`, `CommentRelayProofs`, `ThreadLifecycleProofs`, `IssueCreationProofs`, `ForumTagsProofs` | theorems | |

**JobQueue.** A job is an idempotency key. `rows` maps each key to its row
(`absent` until inserted); partition, mapping and kind, which the key determines,
are constant functions. `due` stands for the comparison of `next_attempt_at` or
`claim_expires_at` with the clock. `NextClaim` is the claim query: state, clock,
mapping, dependencies, earlier rows of the partition with the exception for
lifecycle rows that wait for their thread, `ORDER BY rowid LIMIT 1`. A worker
alternates between the tables (`turn`), and its handler (`run`) is a sequence of
steps: `EnqueueNext` one `enqueueOutbox` of the event's plan, `MakeThread` and
`ResumeWaiters` the two writes of `#syncDiscordItem`, then `Complete`, `Fail` or
`FailThreadPending`. `Crash`, `Stop`, `Abandon`, `ClaimExpires`, `ClaimOverrun`,
`BackoffElapses` and the commands may come between any two of them. A scenario
gives the plans (`PlanOf`) and dependencies (`DependsOn`); an event handler that
decides by what it reads is represented by the plan it arrives at. An operation that is
in the outbox already gives a rerun of its event no id (`enqueueOutbox` returns
undefined), so that what the rerun inserts after it has no dependency on it
(`run[w].fresh`): `PrerequisitesFirst` is about the dependencies that were recorded.

**RelayProcess.** `proc` holds, per process incarnation, the point its start()
has reached (`phase`) and the flags of `app.ts` and `worker-lease.ts`; each await
of start(), of stopOnce() and of release() is a step of its own. Time is counted
in units; `Elapse` moves all clocks, and may not pass a due renewal by more than
`MaxDelay` unless it is counted as a stall.

**Bootstrap.** One mapping, its jobs in creation order, its queue rows as states
only (`JobQueue` has the detail) and the calls of `#enqueueSnapshot` in flight,
each with the items it has yet to insert. `CountRows` and `WriteVerdict` are the
two halves of `#finishIfDrained` around its await. The four `Start` actions are
start() with a valid mapping, one that GitHub or Discord rejects, one whose
labels fail, and a configuration without the mapping. `StartBootstrap` is one step
from the preview to the batch that inserts the job: what it only reads (the preview) and
its synchronization of labels (`ForumTags`) touch none of this module's state, and its
question whether the target is empty is asked in that step.

**MessageRelay.** One message of a linked thread, as its author posts, edits and
deletes it, and the comment that shows it. `item` is the row of `relay_items`
joined with its attachment link, `comments` is GitHub, `hooks` are the
`issue_comment` webhooks on their way, which arrive in any order. Each await of
`github.item.sync`, `github.item.delete`, `media.attachment.upload` and of the
message events is a step of the running `handler`; `Interrupt` (retried) and
`GiveUp` (dead) may come between any two. A text is its revision and a hash is the
body it is computed from, so equal hashes are equal bodies. Handlers do not
overlap here (`JobQueue` shows when claims are overrun), dead rows stay dead, and
`kept`, `touched` and `lost` are history variables that only properties read.
`kept` holds the users' edits to keep; an edit the author makes with a conflict on record
(`shadow`) takes them out, because such an edit is meant to replace them (section 3).

**CommentRelay.** The other direction. `comment` is GitHub's, `item` and
`segments` are the relay's record, `messages` is Discord's. Webhooks and the
snapshots of a reconciliation are partitions of their own (`inbox`,
`snapshots`); `ReadInventory` and `EnqueueSnapshot` are the two halves of a
reconciliation, so what it enqueues may be old. `keys` holds the idempotency keys
of all syncs so far, because a key that is known swallows the next sync of the same
text. A sync walks over the parts of the text (`Position`), edits or posts each,
creates the thread if the link has none, deletes what is surplus and then writes
the segments; the thread of a closed issue is opened before and archived after.

**ThreadLifecycle.** `issue` and `thread` are what the platforms hold, `link` is
the relay's record, `log` is Discord's audit log. An issue event carries the issue
as it was (`Repairs` are the operations a stale link gives rise to); an operation on
the thread is a list of edits computed from what the thread was when it was read
(`Edits`). Every edit of a thread is announced by `thread.update`, which becomes
an audit job; `Transition` is `classifyThreadTransition` with its evidence, and its verdict
is an operation on the issue or nothing. The
auditor runs beside the worker (`app.ts` gives it a timer of its own). Three facts
about the program are in this model and easily missed: the comment the relay posts
as a notice comes back as a webhook and is mirrored; an entry of a person in the same
30 s counts as evidence for the relay's own edit (`Classify`, `Evidence`); and
any act of a person on a thread whose title was cut to 100 characters, other than a
lock or an archiving, renames the issue to the cut title. `log` is up to date: a query that
misses an entry is a fault (`ClassifyEarly`), as is one that fails (`FailQuery`).

**IssueCreation.** `starter` is the thread's first message, `reply` stands for the
others, `known` is the cache of the intake (`Mapped` is its test: the cache, then the
links), `inbox` the thread's partition, where a reply that finds no link waits
(`Pend`, `LINK_PENDING`). The creation is one step per await, `CreateIssue` to
`EnqueueSync`; `Interrupt` between any two makes the operation start again from its
only question, whether there is a link (`FirstStep`). `issues` are the bodies on
GitHub; each change becomes a webhook in `hooks`, with whether it is the relay's
own, and `Hear` is the echo test. What passes it becomes an item of its own (`copies`),
posted by an operation of the link's partition and deleted, when a later event
is suppressed, by one of the item's own partition. A row that failed waits
(`due`), and other partitions overtake it meanwhile. The relay knows its bot's name
throughout, because every start asks for it (`initializeMappings`). An attachment
is always there, because a starter without one takes a subset of the steps.

**ForumTags.** A synchronization is the sequence `ReadNames`, `ReadLabels`,
`SeedLabel` (once for every tag without a label), `ReadStored`, `ReplaceRows`, `ReadForum`,
`ReadBindings`, `EditForum`, `BindTags`, between any two of which users change labels,
moderators change tags, and a call fails or the process ends. The worker's has no seeds and
begins with `ReadLabels`. `ReplaceRows` writes what `planLabelBindings` makes of the labels
and the rows that were read. `EditForum` is `planDiscordForumTags`, the loop over the rows
as a recursive function of their positions: each row takes its bound tag, else a free tag
of its name, else has one made (`Claim`). `BindTags` writes ids into rows by their position
in that order, as the client does, one row after the other under the unique index.
Two of them may run at the same time: an operator's `bootstrap start`, or the start of
a process, beside the worker. `mixed`, which only properties read, says that they have: from
the second one's beginning until the next that begins alone ("yes"), and until that one has
replaced the table ("mending").

The modules do not share state: the last five rely on what `JobQueue` proves of
partitions (order, one settlement per row).

## 3. The runs

| Run | Expect | Checks | Bounds |
|---|---|---|---|
| `queue_thread` | pass | `TypeOK`, `InPartitionOrder`, `ImplementsContract` | one link without a thread: two lifecycle rows and the sync; two workers, 1 fault, 1 command |
| `queue_reopen` | pass | `PrerequisitesFirst`, `IntentRecorded`, `IntentInOrder`, `Progress` (liveness) | a message that enqueues a reopen and a comment, beside an event of another mapping; two workers, 1 fault, 1 command |
| `queue_waiters` | violation | `WaitersAreRevived` | one worker, fairness |
| `lease_takeover` | pass | `TypeOK`, `ActiveHoldsLease`, `Takeover` (liveness) | two processes, 2 faults, 2 stalls; durations of the source in units of 5 s |
| `lease_start` | violation | `LossStopsWork` | one process, 1 fault |
| `bootstrap_races` | pass | `TypeOK`, `ActiveIsImported`, `BootstrapHasJob`, `BootstrapEnds` (liveness) | 2 jobs, 2 items, 2 calls, 2 faults, 2 commands |
| `message_relay` | pass | `TypeOK`, `OneCopyPerInterruption`, `EchoesAreOrphans`, `UserEditsStay`, `ConflictHasCause`, `NeverOlder`, `Settles` (liveness) | 2 revisions, 3 comments, 1 fault, 2 acts of users |
| `comment_relay` | pass | `TypeOK`, `WholeWhenSettled`, `DuplicatesPerInterruption`, `ArchivedAgain`, `Follows` (liveness) | 2 texts, one of them of two messages, 3 versions, 6 messages, 1 fault, 1 reconciliation |
| `comment_returns` | violation | `FollowsReturns` | the same, without faults or reconciliation |
| `thread_lifecycle` | pass | `TypeOK`, `OnlyPeopleChangeIssue`, `LinkMatchesIssue`, `ThreadMatchesIssue` | any 2 of: two acts on the issue, one in Discord, inactivity, a reconciliation, a fault; 2 epochs |
| `issue_creation` | pass | `TypeOK`, `DuplicatesHaveCauses`, `NoEcho`, `UserBodyStays`, `CopyMatchesBody`, `ThreadsGetIssues` (liveness) | one thread, 2 revisions, 3 issues, 2 attempts; any 2 of: an edit of the starter, a reply, two acts on the body, a fault, a reconciliation |
| `forum_tags` | pass | `TypeOK`, `TagsSettle`, `TagsStay`, `ReadTagsStay` | 3 labels, 3 words (one too long), 3 tags, 2 operator synchronizations; any 2 of: two acts on the labels, one of a moderator, a fault, an overlap of two synchronizations |

*Why the bounds are enough.* A queue hazard needs at most a row, a row it waits
for, and two workers that disagree about a claim; with `MaxAttempts = 2` a
row can both be retried and run out of attempts (1 in `queue_reopen`, where a
prerequisite that dies matters and a retry does not: `Progress` sees rows whose claim has to expire
and a mapping that is closed, but none in backoff); larger values only add retries
that look alike. Commands are bounded because each revives at most one row. The
lease run uses the real ratio of renewal, expiry and wait. Overlap in the bootstrap
needs two jobs, two calls for one timer, and one crash; two commands are
a start and a second one, or a start and a pause. Two revisions and an attachment give one item three syncs, the
second of which finds a comment, with or without a hash; a single fault may fall
between any two steps, and then at most one comment is orphaned, so that three
comments never run out.

Three versions take a comment from a text to another and back, over the border
between one message and two in either direction; a fault loses at most one text of
two messages, so that six messages are enough (`Follows` would fail if a sync could not post). In the lifecycle, what can go
wrong is a race of two causes: every pair is in the run, and each sets off a chain
of webhooks, updates, audits and operations that overlap freely. The issue
never has more than `MaxEvents` events, which cuts nothing off. One fault makes at
most one issue that nobody recorded, so that of three issues the last is never made. Three
labels and three tags make the forum full, make a tag free that another label is
looking for, and give a word to two labels one after the other; the real limit of 20
is the same limit. An overlap counts as a cause like an
act or a fault, until a synchronization that ran alone has replaced the table.

Most of the safety properties are also proved without these bounds (section 4).
`partition_key IS NULL` occurs only for label events and `mapping_key IS NULL` only for project
events, which no scenario of the queue holds: the theorems cover them.

*What the properties leave out* they name: `dead` is a row that gave up (after
which an operator decides), `lost` an event or audit job that is gone, `late` an
older event handled after a newer one, `returned` a text the comment has had before,
`clash` a table the unique index refused, `Tellable` an edit the relay can tell
from its own, `missed` a dispatch that never reached the queue, `half` a creation interrupted
after its link was recorded, `stale` a snapshot of a body that has changed since,
`overtaken` a post and a deletion of one copy that crossed, `mixed` two synchronizations
of labels at the same time, `Wedged` a row whose prerequisite ended without completing. Each is set at the step of
the code that causes it. What is excused is not covered: an older snapshot that overwrites a live
event (`late`), the crossing (`overtaken`) and the rows behind a dead prerequisite (`Wedged`) are
possible, and no property finds them.

*Fairness.* The queue's `FairSpec` is weakly fair to the polling loop of each
worker (a `setInterval` that always comes back) and to the clock of each row. It
is not fair to faults or commands. `RelayProcess` is weakly fair to time and to
the continuation of a start, a stop and a renewal that have begun.
`Bootstrap!FairSpec` adds that a process that is down is started again with the
mapping in its configuration (`docker-compose.yml`: `restart: unless-stopped`);
a start without the mapping or with a failed validation counts as a fault, so
it happens finitely often. `MessageRelay!FairSpec`, `CommentRelay!FairSpec` and
`IssueCreation!FairSpec` are weakly fair to `Work`: the worker, deliveries, (in `CommentRelay`) the
redelivery of what failed, which a timer repeats, and (in `IssueCreation`) the end of a
reconciliation that has begun; never to the author, to users, to the beginning of a
reconciliation or to faults. `ThreadLifecycle` and `ForumTags` state only safety: their properties
speak of the states in which everything has settled.

*Deadlock* is checked in the queue's and the lease's runs. In the others the
commands, faults and acts of users run out, and what is in step then has nothing
left to do.

### What the violation runs show

1. **`WaitersAreRevived`** – `tests/db/job-repository.test.ts:190`. Only the
   execution that makes the thread resumes the rows that wait for it; if it fails in
   between, its retry does not.
2. **`LossStopsWork`** – `docs/SPECIFICATION.md:648`. start() does not notice that
   the lease was lost while it waited for the gateway.
3. **`FollowsReturns`** – `docs/SPECIFICATION.md:254`. The idempotency key of a
   sync is the fingerprint of the text: a comment edited from A to B and back to A
   keeps showing B.

The models contain nine more disagreements that have no run of their own. Each is a
step of the model, and most have a name by which a property excuses them:

* A label is renamed, and a new label takes its old name. The tag keeps its name
  (`docs/SPECIFICATION.md:228`), the new label adopts it by that name, and the unique index
  refuses the table in every synchronization from then on: no new label gets a tag
  (`clash` in `TagsSettle`).
* `github.issue.create` is interrupted before its link is recorded: the retry looks for the
  link and not for the issue, and makes a second one, in spite of
  `docs/ARCHITECTURE.md:233` (`strays` in `DuplicatesHaveCauses`).
* It is interrupted after that: the retry finds the link and succeeds, though the item, its
  destination or its attachment is not recorded, in spite of `docs/ARCHITECTURE.md:235`
  (`half` in `ThreadsGetIssues`).
* The update of a thread's first message is dropped (`messageId === threadId`), and the issue
  keeps its first revision, in spite of `docs/SPECIFICATION.md:255` and, when a user has changed
  the body, of line 264 (`ClaimInbox` of `IssueCreation`; `ThreadsGetIssues` asks for the text that was fetched only).
* A claim lasts 60 s and is not renewed, so that a longer handler may have company in its
  partition, in spite of `docs/ARCHITECTURE.md:259` (`ClaimOverrun` of `JobQueue`).
* An author's edit after a conflict should become canonical on GitHub, and the shadow of the conflict be
  deleted (`docs/SPECIFICATION.md:264`). The code records a conflict without storing the hash of the
  revision it kept, so every later edit of the author is a conflict again (`RecordConflict` of
  `MessageRelay`; lines 153-155, which it follows for the first edit), and no handler of an edit
  deletes a shadow. `UserEditsStay` claims that the user's revision stays only until such an edit
  (`kept` in `Edit`), which is neither what line 264 says nor the opposite. For the body of an issue
  (`UserBodyStays` of `IssueCreation`) there is nothing to except: the author's later edit never reaches a sync, see above.
* The edit of a forum submits the whole list of tags as it was read (`src/discord/client.ts:196`): a tag a
  moderator makes in between is removed, though `docs/SPECIFICATION.md:225` leaves the tags that
  are no label's alone (`EditForum` of `ForumTags`). `ReadTagsStay` is about the tags that were read, and only
  about them.
* Two synchronizations at the same time make two tags for a new label; the second edit removes the first one's
  tag, and if the first one's batch is written last the label is left bound to a tag that is gone, until the
  next event about labels or the next start, in spite of `docs/SPECIFICATION.md:228` (`mixed` in the
  properties of `ForumTags`). `bootstrap start` from a Discord source runs beside the worker
  (`src/bootstrap/service.ts:95`), and nothing keeps the two apart.
* The end of a bootstrap overwrites a pause that came while it was counting rows, in
  spite of `docs/ARCHITECTURE.md` §12 (`WriteVerdict` of `Bootstrap`).

## 4. What is proved

All theorems are about every value of the constants under the named assumptions
(`ConstantsAssumption`, `LeaseAssumption`, `PromptAssumption`,
`BootstrapAssumption`, `MessageAssumption`,
`CommentAssumption`, `LifecycleAssumption`, `CreationAssumption`; in `ForumTags`
`LabelAssumption`, `WordAssumption` and `BoundAssumption`), and checked by `tlapm` to the last leaf.

| Theorem | Says | Argument |
|---|---|---|
| `TypeCorrect` | `JobQueue!TypeOK` | inductive as it stands, one step per action |
| `PrerequisitesComeFirst` | a completed operation has completed prerequisites | completed is final, so it is enough that a running, fenced handler's prerequisites are completed, which the claim established |
| `PartitionOrder` | no claim overtakes | an action property, from types and the claim query |
| `IntentIsRecorded`, `IntentKeepsOrder` | what a completed event left behind | a running handler has inserted all operations before its step, and rows are numbered upwards and never removed |
| `QueueImplementsContract` | `JobQueue` implements `JobContract` | a refinement mapping from row states to statuses; each action is a contract step or a stutter |
| `LeaseTypeCorrect`, `ActiveOnlyWithLease` | a process that has not stalled is active only with the lease | `LeaseInv`: what the lease lost since the last renewal is at most the time that passed, and that is below the lease time (`PromptAssumption`); the flags of a process agree (`Sound`) |
| `BootstrapTypeCorrect`, `ActiveMappingIsImported` | active only after a complete import | `ImportInv`: what a call has gone past is inserted (`CallsInserted`), a timer watches a complete snapshot (`MonitorIsWhole`), a verdict of success is about an imported job (`VerdictIsTrue`), and `bootstrap_completed_at` outlives its job (`BootstrappedIsImported`). Rows never become absent again and completed events are final |
| `BootstrappingHasJob` | bootstrapping implies a running job | inductive given the types |
| `MessageTypeCorrect`, `UserEditsAreKept` | a user's edit that the relay can tell from its own writing is not overwritten until the author edits with a conflict on record | `EditInv`: what a handler has read of the item still holds when it acts (`HandlerAgrees`), the hash on record is never that of a user's text (`HashIsOurs`), and a comment with an edit to keep has a hash on record and is not about to be written (`KeptIsTold`). The comparison of `ReadComment` re-establishes the last part before each write |
| `ConflictsHaveCauses` | a conflict on record has a user's act or an interruption behind it | `CauseInv`: until either happens the comment on record is what the hash on record says, except between the write and its record |
| `CommentTypeCorrect`, `OpenedThreadsAreArchived` | the thread of a closed issue is archived again once its operations are settled | `ArchiveInv`: a handler that writes to such a thread knows that it has opened it (`OpenedWhileClosed`, from what the loop over the segments holds, `LoopAgrees`), and an open thread of a closed issue is the business of the sync at the head of the queue (`OpenForSync`), which a retry starts from the beginning |
| `LifecycleTypeCorrect`, `IssuesChangeByPeopleOnly` | while nobody has acted in Discord, the issue is what GitHub's users made it | `PeopleInv`: until a person acts there is no post, no operation on the issue, and no entry of a person in the audit log (`NobodyActed`); the classifier then finds the relay's evidence or none, and neither gives an operation on the issue |
| `ForgottenCopiesAreCounted`, `EchoesAreForgottenCopies` | a second comment, and a comment of the relay that is taken for a user's, is one an interrupted handler made and did not record | every comment that neither the item nor the running handler names is counted in `faults` (`StrayCount`); a handler holds the comment on record or one it has just made (`HoldsCopy`), and that is never one an event has told of (`HeardOf`) |
| `CommentsNeverGoBack` | an action property: a comment is never overwritten with an older revision | Discord's events come in the order in which the author acted, so the item never goes back (`EventInv`); a sync renders what the item shows when it writes (`BodyCurrent`), and the comment on record is never ahead of the item (`CommentBehind`) |
| `DuplicatesArePaidFor` (`CommentRelay`) | a segment is posted twice only by a handler that was interrupted between the post and its record | outside the loop over the segments every message a handler holds is named by a segment (`HeldNamed`), and the loop takes the segment's message where there is one (`LoopMakes`), so that what nobody names is counted in `faults` |
| `SettledCopiesAreWhole` | settled segments are the segments of one rendering, all of them | `LoopInv`: the segments on record are those of one text (`SegmentsWhole`), which the loop has read (`LoopReads`). `VersionInv`: until the author goes back to a text, a text is a version, so that a key that is there already stands for the same work. `MatchInv`: if the messages differ from the item a sync or the deletion at the head of the outbox will mend it |
| `LinksFollowIssues` | a settled link says what the issue is | `LinkInv`: there is a change `c` since which every event has the issue as it is now, and either its webhook is still in the inbox or the link has it (`UnchangedSince`). A snapshot is such an event as of the moment it was read |
| `ThreadsFollowIssues` | a settled thread shows the issue's state and lock, if nobody acted on the thread | `HistoryInv` gives every change its webhook; `EnqueueInv` every turn that was handled its operation; `Running` says what the operation that runs has done of its edits; `ShowInv`: the last operation on the state, and on the lock, leaves the thread as the link wants it, or there is none and the thread is so |
| `CreationIsTyped`, `UserBodiesStay` | a user's body that the relay can tell from its own stays | `CreationInv` relates a handler to its row, the steps of the creation to link and item, and numbers the issues; `KeptInv`: while there is a body to keep the hash on record is not a user's, and no handler is about to write |
| `DuplicatesArePaidFor` (`IssueCreation`) | every second issue of a thread, and every thread made of the relay's own issue, has a handler that ended between the creation and its record | `Counted`: the issues and threads that no link names are as many as `strays`, with the one a running handler is about to record |
| `OwnIssueIsNoEcho` | without failures, users and stale snapshots no message shows the relay's own issue | `EchoInv`: in a calm run the events are of the relay's own changes (`OwnEvents`) and the item is the only issue and has its body, but while a handler is at it (`Tracked`), so that no copy is begun (`Silent`) |
| `CopiesFollowBodies` | once settled the thread shows a user's body, and nothing of the relay's own | `StampInv`: events are heard in the order of their changes, or one was late. `CopyInv`: the message a handler is about is its copy's or nobody's yet, and what a post or a deletion has done so far is what the copy is of. `AccountInv`: there is a last change `c` of the body, by the relay or a user, since which every event has the body as it is. Until it is heard its webhook is in the inbox. Afterwards the last operation on the copy leaves what it should (`WillErase`, `WillShow`), or an event that has the body is still being handled (`Open`). If the relay made the change, it has its hash on record, or a sync of the body is still to come, or it took the body for a conflict (`Written`). `StartInv` opens the first account during the creation |
| `TypesHold` | the types of `ForumTags`, and that a forum never has more tags than Discord allows | `TypeInv`; the plan by `PlanInv` below |
| `TagsAreRight` | once every webhook about labels is handled, the table has the labels, their names and a tag for each, if no two synchronizations have run at once since the last table of one that ran alone | `IInv`: see below |
| `LabelsKeepTags` | an action property: no write to the table takes from a label the tag it has, unless two synchronizations have run at the same time and none alone since | the table is replaced by one that has every row's label and tag (`BindingsFacts`); the batch binds a tag to the row that had it, or to a row before that, and then the unique index refuses the batch half-way (`BindKeeps`) |
| `ForumKeepsTags` | an action property: of the tags it has read, the edit of the forum removes only those of labels that are gone, with the same exception | what is asked for has all tags that were read but those of stale rows (`AskedFor`), and a stale row's label is gone (`MixedInv`) |

The theorems about `ForumTags` assume nothing of when synchronizations begin; the exception they
make is `mixed`, a part of the properties. The invariant `IInv` has four parts. `TypeInv`. `Always`, which holds
whatever runs at the same time: no two labels share a name, no two rows a label or a tag, a row that is not
stale has its position to itself, and nothing is about a label or a tag that is yet to be made, in
the table (`TableInv`) and in what a synchronization holds of it (`HeldInv`). `Safe`, unless
`mixed` is "yes": one synchronization runs (`OneRuns`), what it has read is still good enough for its next
write (`SyncInv`), and `TagsSettle` holds. The labels it has read include every label with a row
(`ReadInv`), the forum it has read has the tags of all rows (`ForumInv`), what it has found is
the tag of each row, for that row or an earlier one (`FoundInv`); and if a label has
changed since, there is a webhook that will be handled after it (`Later`). `MixedInv` says how far the
table has recovered: once a synchronization that ran alone has replaced it, a stale row's label is gone, and
until then none that runs has come past that step. So `Safe` is established anew by the first that
begins alone: at its first step it has read nothing, and `Always` is all it needs of what
the overlap has left behind. The plan is a loop, so what it does is proved by induction over the
positions of the rows: `Induction` is the principle in a form without an operator as a
parameter (a set that has 0 and with every number the next has all), from the least element of a
set of numbers (`LeastNatural`). `PlanInv` and `Held` are the invariants of the loop: tags that were
there keep their places, new ones come after them, every row has found a tag or the forum is
full, and a tag that a row was bound to has been found for it or for a row before it.

Only model-checked: the liveness properties (`Progress`, `Takeover`,
`BootstrapEnds`, `Settles`, `Follows`, `ThreadsGetIssues`), which need fairness and `ENABLED`,
and the violations. Every other property of a passing run is a theorem.

## 5. Not modelled, and why

* Rendering, media, configuration, the CLI and the framework keep no state; HTTP,
  pagination and authentication are I/O.
* Delays: `RetryPolicy` has the decision; how long a row waits is left to the
  clock, which may take any time. The cooldown and page limit of a redelivery are
  delays of this kind.
* Rows are never deleted in the model; maintenance deletes or redacts only what is
  completed and past its retention. Backups are file copies.
* `preview()` inserts a `PREVIEW` job that nothing reads again.
* The columns that only report (`last_error_message`, cursors, timestamps).
* Of the relay engine: project events, the repair of a thread without a starter
  (`#materializeDiscordStarter`), the bootstrap's snapshot of a state. All models of one
  object but `IssueCreation` and `CommentRelay` begin with a link.
* The tags a thread has (`discordTagsForLabels`, `githubLabelsForTags`): their
  operations are no-ops of `ThreadLifecycle` (`NoOp`). A moderator's change of them
  replaces the labels of the issue by those of the tags (`relay/engine.ts:1138`).
* The link statuses `SOURCE_DELETED` and `MISSING`, and the labels a new issue gets
  from the tags of its thread.
* Overlapping synchronizations are modelled; what labels and tags are while they overlap, and until one has
  run alone since, no property says (`mixed`), for the reason given at the end of section 3.
* The choice of a forum's webhook.

## 6. Plan

Done: queue, lease, bootstrap, message, comment, lifecycle with audit classifier and
reconciliation, issues made from threads, labels and tags, with the theorems of section 4. Left, in this order:

1. **The statuses of a link** (`SOURCE_DELETED`, `MISSING`) in the model.
2. **Applied tags** of a thread, on top of `ForumTags` and `ThreadLifecycle`.
3. **One abstract specification** for both directions of the relay, "one copy per
   item, equal to the last edit", refined by `MessageRelay` and `CommentRelay`.
4. **Project events** and the bootstrap's snapshots of a state.
