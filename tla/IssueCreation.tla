--------------------------- MODULE IssueCreation ---------------------------
(***************************************************************************)
(* A thread a person opens in the forum and the GitHub issue the relay     *)
(* makes of it: the intake with its cache of threads (discord/intake.ts),  *)
(* thread.create, github.issue.create, the upload of the starter's         *)
(* attachment and the syncs of the issue's body, and the webhooks by which *)
(* the issue comes back.  These must be told from an issue of GitHub's     *)
(* own, whose body becomes a message or a thread.                          *)
(*                                                                         *)
(* Handlers run one at a time, as in MessageRelay.  Rows of the outbox are *)
(* claimed in their order, past those whose partition waits for a retry.   *)
(* The reply stands for the messages of the thread that are not its first. *)
(* Threads the relay makes are announced too, but their first message is a *)
(* webhook's and thread.create ignores it.                                 *)
(***************************************************************************)
EXTENDS Integers, Sequences, FiniteSets, SequencesExt

CONSTANTS
  MaxText,      \* bound: revisions of the starter
  MaxIssues,    \* bound: issues the relay makes of the thread
  MaxAttempts,  \* attempts of an event before it is dead (10)
  MaxActs,      \* bound: what GitHub users do to the body
  MaxFaults,    \* bound: interrupted handlers, dead rows, lost dispatches
  MaxRuns,      \* bound: reconciliations
  MaxInAll      \* bound: these, later revisions of the starter and the reply together

Text  == 1..MaxText
Issue == 1..MaxIssues

ASSUME CreationAssumption ==
  /\ MaxText \in Nat \ {0} /\ MaxIssues \in Nat /\ MaxAttempts \in Nat \ {0}
  /\ MaxActs \in Nat /\ MaxFaults \in Nat /\ MaxRuns \in Nat /\ MaxInAll \in Nat

VARIABLES
  starter,   \* the text of the thread's first message, 0 before there is a thread
  reply,     \* what has become of the reply
  known,     \* the intake has the thread in its cache (#threadMappings)
  inbox,     \* partition discord:thread, its unsettled events
  attempts,  \* attempts of its first event
  issues,    \* the bodies of the issues on GitHub
  stamp,     \* changes of the bodies so far
  hooks,     \* webhooks and snapshots of issues not yet settled
  plan,      \* what a running reconciliation has read
  links,     \* issue_thread_links: the thread of each issue
  item,      \* the relay item of the starter and its attachment
  copies,    \* the relay items of the bodies, from GitHub to Discord
  messages,  \* what the relay's messages show
  threads,   \* the threads there are; the person's is the first
  ops,       \* unsettled rows of the outbox, in their order
  keys,      \* idempotency keys of all rows so far
  handler,
  acts, faults, runs,
  heard,     \* the newest change of a body that has been handled
  strays,    \* issues and threads made by a handler that ended before it recorded them
  kept,      \* the body is a user's, and the relay can tell
  past       \* what else has gone wrong

vars == <<starter, reply, known, inbox, attempts, issues, stamp, hooks, plan, links, item, copies,
          messages, threads, ops, keys, handler, acts, faults, runs, heard, strays, kept, past>>

NoLink    == -1
NoThread  == 0
Person    == 1      \* the person's thread
NoIssue   == 0
NoMessage == 0

\* What a body says: the starter, with its attachment or a place for it, or what a user wrote.
Body   == [by : {"relay", "user"}, text : 0..MaxText, media : BOOLEAN]
NoBody == [by |-> "nobody", text |-> 0, media |-> FALSE]
Users  == [by |-> "user", text |-> 0, media |-> FALSE]

\* renderDiscordToGitHub
Rendering(text, media) == [by |-> "relay", text |-> text, media |-> media = "done"]

Event   == [kind : {"none", "opened", "edited"}, issue : 0..MaxIssues, body : Body \cup {NoBody},
            own : BOOLEAN, live : BOOLEAN, stamp : Nat]
NoEvent == [kind |-> "none", issue |-> NoIssue, body |-> NoBody, own |-> FALSE, live |-> FALSE,
            stamp |-> 0]

\* github.issue.create, media.attachment.upload, github.item.sync of the starter, and
\* discord.item.sync and discord.item.delete of a body.
Operation == [kind : {"create", "upload", "body", "post", "erase"}, issue : 0..MaxIssues,
              text : 0..MaxText, due : BOOLEAN]
Op(kind, i, text) == [kind |-> kind, issue |-> i, text |-> text, due |-> TRUE]

\* partitionKey; echo-delete has one of its own.
Partition(op) == IF op.kind \in {"body", "post"} THEN <<"link", op.issue>> ELSE <<op.kind, op.issue>>

Handler == [job : {"none", "inbox", "event", "operation"},
            step : {"none", "fetch", "pend", "reply", "link", "echo", "copy", "post",
                    "issue", "connect", "starter", "place", "hash", "attach", "upload", "sync",
                    "store", "resync", "read", "write", "save",
                    "thread", "join", "message", "edit", "segments", "erase", "mark", "end"},
            row : Nat, event : Event, issue : 0..MaxIssues, text : 0..MaxText,
            body : Body \cup {NoBody}, message : Nat]
Idle == [job |-> "none", step |-> "none", row |-> 0, event |-> NoEvent, issue |-> NoIssue,
         text |-> 0, body |-> NoBody, message |-> NoMessage]

Plan    == [known : BOOLEAN, unlinked : BOOLEAN, events : SUBSET Event]
Nothing == [known |-> FALSE, unlinked |-> FALSE, events |-> {}]

Item == [issue : 0..MaxIssues, text : 0..MaxText, placed : BOOLEAN, hash : Body \cup {NoBody},
         media : {"none", "pending", "done"}, conflict : BOOLEAN]
Copy == [state : {"none", "ACTIVE", "DELETED"}, body : Body \cup {NoBody}, message : Nat]

TypeOK ==
  /\ starter \in 0..MaxText /\ known \in BOOLEAN
  /\ reply \in {"none", "stored", "relayed", "dropped"}
  /\ inbox \in Seq({"thread", "update", "reply"}) /\ attempts \in 0..(MaxAttempts - 1)
  /\ issues \in [Issue -> Body \cup {NoBody}] /\ stamp \in Nat
  /\ hooks \subseteq Event /\ plan \in Plan
  /\ links \in [Issue -> Nat \cup {NoLink}] /\ item \in Item /\ copies \in [Issue -> Copy]
  /\ messages \in Seq(Body \cup {NoBody}) /\ threads \in Nat
  /\ ops \in Seq(Operation) /\ handler \in Handler
  /\ acts \in 0..MaxActs /\ faults \in 0..MaxFaults /\ runs \in 0..MaxRuns
  /\ heard \in [Issue -> Nat] /\ strays \in Nat /\ kept \in BOOLEAN
  /\ past \subseteq {"dead", "missed", "half", "late", "stale", "overtaken", "returned"}

Init ==
  /\ starter = 0 /\ reply = "none" /\ known = FALSE /\ inbox = <<>> /\ attempts = 0
  /\ issues = [i \in Issue |-> NoBody] /\ stamp = 0 /\ hooks = {} /\ plan = Nothing
  /\ links = [i \in Issue |-> NoLink]
  /\ item = [issue |-> NoIssue, text |-> 0, placed |-> FALSE, hash |-> NoBody, media |-> "none",
             conflict |-> FALSE]
  /\ copies = [i \in Issue |-> [state |-> "none", body |-> NoBody, message |-> NoMessage]]
  /\ messages = <<>> /\ threads = 0 /\ ops = <<>> /\ keys = {} /\ handler = Idle
  /\ acts = 0 /\ faults = 0 /\ runs = 0
  /\ heard = [i \in Issue |-> 0] /\ strays = 0 /\ kept = FALSE /\ past = {}

intake  == <<starter, reply, known>>
arrived == <<inbox, attempts>>
github  == <<issues, stamp, hooks>>
record  == <<links, item, copies>>
discord == <<messages, threads>>
outbox  == <<ops, keys>>
bounds  == <<acts, faults, runs>>
history == <<heard, strays, kept, past>>

Showing(i) == IF copies[i].message = NoMessage THEN NoBody ELSE messages[copies[i].message]
Pending(kind, i) == \E n \in 1..Len(ops) : ops[n].kind = kind /\ ops[n].issue = i

Revisions == IF starter = 0 THEN 0 ELSE starter - 1
Replies   == IF reply = "none" THEN 0 ELSE 1
Spare     == Revisions + Replies + acts + faults + runs < MaxInAll

Linked == \E i \in Issue : links[i] = Person
Made   == {i \in Issue : issues[i] # NoBody}

----------------------------------------------------------------------------
\* Discord: people, and what the intake makes of the dispatch.

OutsideDiscord ==
  UNCHANGED <<attempts, github, plan, record, messages, outbox, handler, acts, runs, heard, strays, kept>>

\* #enqueueForThread: the cache, then the links.
Mapped == known \/ Linked

\* The dispatch is lost if the process is down, or if the insertion fails.
OpenThread(seen) ==
  /\ starter = 0 /\ starter' = 1 /\ threads' = 1
  /\ IF seen
     THEN known' = TRUE /\ inbox' = Append(inbox, "thread") /\ UNCHANGED <<faults, past>>
     ELSE /\ faults < MaxFaults /\ Spare /\ faults' = faults + 1 /\ past' = past \cup {"missed"}
          /\ UNCHANGED <<known, inbox>>
  /\ UNCHANGED reply /\ OutsideDiscord

EditStarter ==
  /\ starter \in 1..(MaxText - 1) /\ Spare /\ starter' = starter + 1
  /\ known' = Mapped
  /\ inbox' = IF Mapped THEN Append(inbox, "update") ELSE inbox
  /\ UNCHANGED <<reply, threads, faults, past>> /\ OutsideDiscord

PostReply ==
  /\ starter # 0 /\ reply = "none" /\ Spare
  /\ reply' = IF Mapped THEN "stored" ELSE "dropped"
  /\ known' = Mapped
  /\ inbox' = IF Mapped THEN Append(inbox, "reply") ELSE inbox
  /\ UNCHANGED <<starter, threads, faults, past>> /\ OutsideDiscord

\* thread.update fills the cache of a thread the relay has not heard of.
TouchThread ==
  /\ starter # 0 /\ ~known /\ known' = TRUE
  /\ UNCHANGED <<starter, reply, inbox, threads, faults, past>> /\ OutsideDiscord

----------------------------------------------------------------------------
\* GitHub: users, and the webhook of a change.

Announce(i, kind, body, own) ==
  /\ issues' = [issues EXCEPT ![i] = body]
  /\ stamp' = stamp + 1
  /\ hooks' = hooks \cup {[kind |-> kind, issue |-> i, body |-> body, own |-> own, live |-> TRUE,
                           stamp |-> stamp']}

UserWrites(i, body) ==
  /\ i \in Made /\ body # issues[i]
  /\ acts < MaxActs /\ Spare /\ acts' = acts + 1
  /\ Announce(i, "edited", body, FALSE)
  /\ kept' = IF i = item.issue
             THEN body = Users /\ handler.step # "write" /\ item.hash # NoBody
             ELSE kept
  /\ UNCHANGED <<intake, arrived, plan, record, discord, outbox, handler, faults, runs, heard,
                 strays, past>>

UserEdits   == \E i \in Issue : UserWrites(i, Users)
UserReverts == item.hash # NoBody /\ UserWrites(item.issue, item.hash)

----------------------------------------------------------------------------
\* The reconciliation reads both sides, then enqueues.

ReadInventory ==
  /\ runs < MaxRuns /\ Spare /\ runs' = runs + 1 /\ ~plan.known
  /\ plan' = [known |-> TRUE, unlinked |-> starter # 0 /\ ~Linked,
              events |-> {[kind |-> "edited", issue |-> i, body |-> issues[i], own |-> FALSE,
                           live |-> FALSE, stamp |-> stamp] : i \in Made}]
  /\ UNCHANGED <<intake, arrived, github, record, discord, outbox, handler, acts, faults, history>>

EnqueueSnapshot ==
  /\ plan.known /\ plan' = Nothing
  /\ hooks' = hooks \cup plan.events
  /\ inbox' = IF plan.unlinked THEN Append(inbox, "thread") ELSE inbox
  /\ past' = IF plan.unlinked THEN past \ {"missed"} ELSE past
  /\ UNCHANGED <<intake, attempts, issues, stamp, record, discord, outbox, handler, bounds, heard,
                 strays, kept>>

----------------------------------------------------------------------------
\* The worker: claims, and the end of a handler.

Goto(step) == handler' = [handler EXCEPT !.step = step]
WorkerOnly == UNCHANGED <<intake, plan, bounds>>
ClaimOnly  == UNCHANGED <<arrived, github, record, discord, outbox, strays, kept, heard>> /\ WorkerOnly

ClaimInbox ==
  /\ handler = Idle /\ inbox # <<>>
  /\ handler' = [Idle EXCEPT !.job = "inbox",
       !.step = CASE Head(inbox) = "thread" -> IF Linked THEN "end" ELSE "fetch"
                  [] Head(inbox) = "reply"  -> IF Linked THEN "reply" ELSE "pend"
                  [] Head(inbox) = "update" -> "end"]   \* messageId === threadId
  /\ UNCHANGED past /\ ClaimOnly

ClaimEvent ==
  /\ handler = Idle
  /\ \E event \in hooks :
       handler' = [Idle EXCEPT !.job = "event", !.event = event, !.issue = event.issue, !.step = "link"]
  /\ UNCHANGED past /\ ClaimOnly

Claimable(n) == ops[n].due /\ \A m \in 1..(n - 1) : Partition(ops[m]) # Partition(ops[n])

\* Mutant: the operation does not look for a link.
FirstStepOfAll(op) ==
  CASE op.kind = "create" -> "issue"
    [] op.kind = "upload" -> "store"
    [] op.kind = "body"   -> "read"
    [] op.kind = "post"   -> IF links[op.issue] = NoThread THEN "thread"
                             ELSE IF copies[op.issue].message = NoMessage THEN "message" ELSE "edit"
    [] op.kind = "erase"  -> IF links[op.issue] = NoThread THEN "end"
                             ELSE IF copies[op.issue].message = NoMessage THEN "mark" ELSE "erase"

\* Where a handler begins, by what it reads first.
FirstStep(op) == IF op.kind = "create" /\ Linked THEN "end" ELSE FirstStepOfAll(op)

\* The post of a copy and its deletion are in different partitions.
Crossing(op, later) ==
  op.issue = later.issue /\ {op.kind, later.kind} = {"post", "erase"}

\* What it renders.
Rendered(op) ==
  CASE op.kind = "create" -> Rendering(op.text, "none")
    [] op.kind = "body"   -> Rendering(item.text, item.media)
    [] op.kind = "post"   -> copies[op.issue].body
    [] OTHER              -> NoBody

ClaimOperation ==
  /\ handler = Idle
  /\ \E n \in 1..Len(ops) :
       /\ Claimable(n) /\ \A m \in 1..(n - 1) : ~Claimable(m)
       /\ handler' = [Idle EXCEPT !.job = "operation", !.row = n, !.issue = ops[n].issue,
                        !.text = ops[n].text, !.body = Rendered(ops[n]),
                        !.message = IF ops[n].kind \in {"post", "erase"}
                                    THEN copies[ops[n].issue].message ELSE NoMessage,
                        !.step = FirstStep(ops[n])]
       /\ past' = IF \E m \in 1..(n - 1) : Crossing(ops[m], ops[n])
                  THEN past \cup {"overtaken"} ELSE past
  /\ ClaimOnly

\* The row the handler has claimed is completed or dead.
SettleRow ==
  /\ handler' = Idle
  /\ inbox' = IF handler.job = "inbox" THEN Tail(inbox) ELSE inbox
  /\ attempts' = IF handler.job = "inbox" THEN 0 ELSE attempts
  /\ hooks' = IF handler.job = "event" THEN hooks \ {handler.event} ELSE hooks
  /\ ops' = IF handler.job = "operation" THEN RemoveAt(ops, handler.row) ELSE ops
  /\ UNCHANGED <<intake, issues, stamp, plan, record, discord, keys, acts, runs, heard, kept>>

Finish == handler.step = "end" /\ SettleRow /\ UNCHANGED <<faults, strays, past>>

\* Mutant: one attempt more than there are.
PendOnceMore ==
  /\ handler.step = "pend"
  /\ IF attempts < MaxAttempts
     THEN /\ attempts' = attempts + 1 /\ handler' = Idle
          /\ UNCHANGED <<intake, inbox, github, plan, record, discord, outbox, bounds, history>>
     ELSE SettleRow /\ past' = past \cup {"dead"} /\ UNCHANGED <<faults, strays>>

\* LINK_PENDING is tried again, but not for ever.
Pend ==
  /\ handler.step = "pend"
  /\ IF attempts + 1 < MaxAttempts
     THEN /\ attempts' = attempts + 1 /\ handler' = Idle
          /\ UNCHANGED <<intake, inbox, github, plan, record, discord, outbox, bounds, history>>
     ELSE SettleRow /\ past' = past \cup {"dead"} /\ UNCHANGED <<faults, strays>>

\* The retry finds the link, and ends there.
Half == IF handler.step \in {"starter", "place", "hash", "attach", "upload", "sync"} THEN {"half"} ELSE {}

Stray == strays' = strays + (IF handler.step \in {"connect", "join"} THEN 1 ELSE 0)

\* A failure worth a retry, or a crash, which takes the cache and the reconciliation along.
\* The row of an operation waits before it is claimed again.
Interrupt ==
  /\ handler # Idle \/ known \/ plan.known
  /\ faults < MaxFaults /\ Spare /\ faults' = faults + 1
  /\ handler' = Idle /\ Stray /\ past' = past \cup Half
  /\ ops' = IF handler.job = "operation" THEN [ops EXCEPT ![handler.row].due = FALSE] ELSE ops
  /\ \/ UNCHANGED <<known, plan>>
     \/ known' = FALSE /\ plan' = Nothing
  /\ UNCHANGED <<starter, reply, arrived, github, record, discord, keys, acts, runs, heard, kept>>

Backoff ==
  /\ \E n \in 1..Len(ops) : ~ops[n].due /\ ops' = [ops EXCEPT ![n].due = TRUE]
  /\ UNCHANGED <<intake, arrived, github, plan, record, discord, keys, handler, bounds, history>>

\* The last attempt fails, or a failure that is not worth a retry.
GiveUp ==
  /\ handler # Idle /\ faults < MaxFaults /\ Spare
  /\ SettleRow /\ Stray /\ faults' = faults + 1 /\ past' = past \cup {"dead"}

\* enqueueOutbox
Enqueue(key, op) ==
  /\ keys' = keys \cup {key}
  /\ ops' = IF key \in keys THEN ops ELSE Append(ops, op)
  /\ UNCHANGED <<arrived, github, record, discord>> /\ WorkerOnly

----------------------------------------------------------------------------
\* thread.create and the messages of the thread.

\* fetchMessage and enqueueOutbox: what comes in between changes nothing they use.
EnqueueCreate ==
  /\ handler.step = "fetch" /\ Goto("end")
  /\ Enqueue(<<"create">>, Op("create", NoIssue, starter)) /\ UNCHANGED history

\* MessageRelay has what follows.
RelayReply ==
  /\ handler.step = "reply" /\ Goto("end")
  /\ reply' = "relayed"
  /\ UNCHANGED <<starter, known, arrived, github, plan, record, discord, outbox, bounds, history>>

----------------------------------------------------------------------------
\* github.issue.create

OnlyItem(new) ==
  /\ item' = new
  /\ UNCHANGED <<arrived, github, links, copies, discord, outbox, history>> /\ WorkerOnly

CreateIssue ==
  /\ handler.step = "issue"
  /\ LET i == Cardinality(Made) + 1
     IN /\ i \in Issue
        /\ Announce(i, "opened", handler.body, TRUE)
        /\ handler' = [handler EXCEPT !.step = "connect", !.issue = i]
  /\ UNCHANGED <<arrived, record, discord, outbox, history>> /\ WorkerOnly

createDiscordOriginLink ==
  /\ handler.step = "connect" /\ Goto("starter")
  /\ links' = [links EXCEPT ![handler.issue] = Person]
  /\ UNCHANGED <<arrived, github, item, copies, discord, outbox, history>> /\ WorkerOnly

UpsertStarter ==
  /\ handler.step = "starter" /\ Goto("place")
  /\ OnlyItem([item EXCEPT !.issue = handler.issue, !.text = handler.text])

SetDestination ==
  /\ handler.step = "place" /\ Goto("hash")
  /\ OnlyItem([item EXCEPT !.placed = TRUE])

SetRenderHash ==
  /\ handler.step = "hash" /\ Goto("attach")
  /\ OnlyItem([item EXCEPT !.hash = handler.body])

UpsertAttachment ==
  /\ handler.step = "attach" /\ Goto("upload")
  /\ OnlyItem([item EXCEPT !.media = "pending"])

EnqueueUpload ==
  /\ handler.step = "upload" /\ Goto("sync")
  /\ Enqueue(<<"upload">>, Op("upload", item.issue, 0)) /\ UNCHANGED history

EnqueueSync ==
  /\ handler.step = "sync" /\ Goto("end")
  /\ Enqueue(<<"body", "created">>, Op("body", item.issue, 0)) /\ UNCHANGED history

----------------------------------------------------------------------------
\* media.attachment.upload, and github.item.sync of a starter

CompleteAttachment ==
  /\ handler.step = "store" /\ Goto("resync")
  /\ OnlyItem([item EXCEPT !.media = "done"])

\* Mutant: the upload ends without a sync.
EndUpload ==
  /\ handler.step = "resync" /\ Goto("end")
  /\ UNCHANGED <<arrived, github, record, discord, outbox, history>> /\ WorkerOnly

EnqueueResync ==
  /\ handler.step = "resync" /\ Goto("end")
  /\ Enqueue(<<"body", "attachment">>, Op("body", item.issue, 0)) /\ UNCHANGED history

\* Mutant: the body is not compared.
ReadAnyBody ==
  /\ handler.step = "read" /\ Goto("write")
  /\ OnlyItem(item)

\* decideDiscordEdit and #recordConflict, whose notice in the thread is no copy of the body.
ReadBody ==
  /\ handler.step = "read"
  /\ IF item.hash \in {NoBody, issues[handler.issue]}
     THEN Goto("write") /\ OnlyItem(item)
     ELSE Goto("end") /\ OnlyItem([item EXCEPT !.conflict = TRUE])

\* GitHub announces a body that is another one.
WriteBody ==
  /\ handler.step = "write" /\ Goto("save")
  /\ IF handler.body = issues[handler.issue] THEN UNCHANGED github
     ELSE Announce(handler.issue, "edited", handler.body, TRUE)
  /\ UNCHANGED <<arrived, record, discord, outbox, history>> /\ WorkerOnly

SaveHash ==
  /\ handler.step = "save" /\ Goto("end")
  /\ OnlyItem([item EXCEPT !.hash = handler.body])

----------------------------------------------------------------------------
\* issues.opened and issues.edited

EnsureLink ==
  /\ handler.step = "link" /\ Goto("echo")
  /\ links' = [links EXCEPT ![handler.issue] = IF @ = NoLink THEN NoThread ELSE @]
  /\ UNCHANGED <<arrived, github, item, copies, discord, outbox, history>> /\ WorkerOnly

\* Mutant: only a webhook of the relay's own change is an echo.
SuppressOwn(event) == item.placed /\ item.issue = event.issue /\ event.live /\ event.own

\* shouldSuppressGitHubBodyEcho
Suppress(event) ==
  /\ item.placed /\ item.issue = event.issue
  /\ item.hash = event.body \/ event.kind = "opened" \/ (event.live /\ event.own)

\* A sync does not ask whether its item is deleted.
Revived(i) == copies[i].state = "DELETED" /\ (Pending("post", i) \/ copies[i].message # NoMessage)

\* What the history keeps of an event that is older than another, or than the issue, or that
\* leaves a copy there because it has been posted, or is going to be, after its deletion.
Belated(event) ==
  (IF event.stamp < heard[event.issue] THEN {"late"} ELSE {})
  \cup (IF ~event.live /\ event.body # issues[event.issue] THEN {"stale"} ELSE {})
  \cup (IF Suppress(event) /\ Revived(event.issue) THEN {"overtaken"} ELSE {})

Heard(event) ==
  /\ handler.step = "echo" /\ Goto(IF Suppress(event) THEN "end" ELSE "copy")
  /\ heard' = [heard EXCEPT ![event.issue] = IF event.stamp > @ THEN event.stamp ELSE @]
  /\ past' = past \cup Belated(event)
  /\ UNCHANGED <<strays, kept>>

\* Mutant: the message of the older body stays.
HearWithoutErasing ==
  /\ Heard(handler.event)
  /\ UNCHANGED <<arrived, github, record, discord, outbox>> /\ WorkerOnly

\* The copy of an older body is taken away by an operation of a partition of its own.
Hear ==
  /\ Heard(handler.event)
  /\ IF Suppress(handler.event) /\ copies[handler.issue].state = "ACTIVE"
     THEN Enqueue(<<"erase", handler.event>>, Op("erase", handler.issue, 0))
     ELSE UNCHANGED <<arrived, github, record, discord, outbox>> /\ WorkerOnly

OnlyCopy(new) ==
  /\ copies' = [copies EXCEPT ![handler.issue] = new]
  /\ UNCHANGED <<arrived, github, links, item, outbox, history>> /\ WorkerOnly

UpsertCopy ==
  /\ handler.step = "copy" /\ Goto("post")
  /\ OnlyCopy([copies[handler.issue] EXCEPT !.state = "ACTIVE", !.body = handler.event.body])
  /\ UNCHANGED discord

\* A sync is dropped because its key is there, though no other does its work.
Dropped(i, body) ==
  /\ <<"post", i, body>> \in keys
  /\ Pending("erase", i) \/ (~Pending("post", i) /\ Showing(i) # body)

EnqueuePost ==
  /\ handler.step = "post" /\ Goto("end")
  /\ Enqueue(<<"post", handler.issue, handler.event.body>>, Op("post", handler.issue, 0))
  /\ past' = IF Dropped(handler.issue, handler.event.body) THEN past \cup {"returned"} ELSE past
  /\ UNCHANGED <<heard, strays, kept>>

----------------------------------------------------------------------------
\* discord.item.sync and discord.item.delete of a body, which takes one message

Post(step) ==
  /\ messages' = Append(messages, handler.body)
  /\ handler' = [handler EXCEPT !.step = step, !.message = Len(messages')]
  /\ UNCHANGED <<arrived, github, record, outbox, history>> /\ WorkerOnly

CreateThread  == handler.step = "thread" /\ threads' = threads + 1 /\ Post("join")
CreateMessage == handler.step = "message" /\ UNCHANGED threads /\ Post("segments")

attachDiscordThread ==
  /\ handler.step = "join" /\ Goto("segments")
  /\ links' = [links EXCEPT ![handler.issue] = threads]
  /\ UNCHANGED <<arrived, github, item, copies, discord, outbox, history>> /\ WorkerOnly

EditMessage ==
  /\ handler.step = "edit" /\ Goto("segments")
  /\ messages' = [messages EXCEPT ![handler.message] = handler.body]
  /\ UNCHANGED <<arrived, github, record, threads, outbox, history>> /\ WorkerOnly

ReplaceSegments ==
  /\ handler.step = "segments" /\ Goto("end")
  /\ OnlyCopy([copies[handler.issue] EXCEPT !.message = handler.message])
  /\ UNCHANGED discord

DeleteMessage ==
  /\ handler.step = "erase" /\ Goto("mark")
  /\ messages' = [messages EXCEPT ![handler.message] = NoBody]
  /\ UNCHANGED <<arrived, github, record, threads, outbox, history>> /\ WorkerOnly

MarkDeleted ==
  /\ handler.step = "mark" /\ Goto("end")
  /\ OnlyCopy([copies[handler.issue] EXCEPT !.state = "DELETED", !.message = NoMessage])
  /\ UNCHANGED discord

----------------------------------------------------------------------------
Work ==
  \/ EnqueueSnapshot \/ ClaimInbox \/ ClaimEvent \/ ClaimOperation \/ Finish \/ Pend \/ Backoff
  \/ EnqueueCreate \/ RelayReply
  \/ CreateIssue \/ createDiscordOriginLink \/ UpsertStarter \/ SetDestination \/ SetRenderHash
  \/ UpsertAttachment \/ EnqueueUpload \/ EnqueueSync
  \/ CompleteAttachment \/ EnqueueResync \/ ReadBody \/ WriteBody \/ SaveHash
  \/ EnsureLink \/ Hear \/ UpsertCopy \/ EnqueuePost
  \/ CreateThread \/ attachDiscordThread \/ CreateMessage \/ EditMessage \/ ReplaceSegments
  \/ DeleteMessage \/ MarkDeleted

Next ==
  \/ \E seen \in BOOLEAN : OpenThread(seen)
  \/ EditStarter \/ PostReply \/ TouchThread \/ UserEdits \/ UserReverts
  \/ ReadInventory \/ Interrupt \/ GiveUp
  \/ Work

Spec     == Init /\ [][Next]_vars
FairSpec == Spec /\ WF_vars(Work)

----------------------------------------------------------------------------
\* Properties

Settled == handler = Idle /\ inbox = <<>> /\ hooks = {} /\ ops = <<>> /\ ~plan.known

\* A second issue of a thread, or a thread made of the relay's own issue, is the price of a
\* handler that ended between the creation and its record, whatever is retried, enqueued
\* again by a reconciliation, or announced meanwhile (#createGitHubIssue).
DuplicatesHaveCauses == Cardinality(Made) <= 1 + strays /\ threads <= 1 + strays

\* The relay never posts the body of its own issue in the thread it comes from, as long as
\* nothing fails, no user has changed it, and no reconciliation has read it before the relay
\* changed it (shouldSuppressGitHubBodyEcho).
NoEcho == faults = 0 /\ acts = 0 /\ "stale" \notin past => messages = <<>>

\* A user's body that the relay can tell from its own stays (decideDiscordEdit).  An edit the
\* author makes later, which docs/SPECIFICATION.md:264 lets replace it, reaches no sync of
\* the body at all (see ClaimInbox).
UserBodyStays == kept => issues[item.issue] = Users

\* Once settled the thread shows the body if it is a user's, or another than the relay wrote
\* last, and no copy if it is the relay's: unless the relay took its own body for a conflict,
\* events came late, a deletion and a post crossed, a sync was dropped
\* because its key was there, or a row is dead.
CopyMatchesBody ==
  Settled /\ past \cap {"dead", "late", "overtaken", "returned"} = {} /\ item.hash # NoBody =>
    LET body == issues[item.issue]
    IN IF body = Users THEN Showing(item.issue) = Users
       ELSE item.conflict \/ Showing(item.issue) = IF body = item.hash THEN NoBody ELSE body

\* The queues drain; a thread the relay has heard of, or a reconciliation has found, has its
\* issue, and a stored reply is relayed (LINK_PENDING); unless the creation was interrupted
\* half-way, the issue has the starter and its attachment, if nobody changed it and the relay
\* did not take its own body for a conflict; without a failure no reply is dropped.
ThreadsGetIssues ==
  <>[](/\ Settled
       /\ starter # 0 /\ past \cap {"dead", "missed"} = {} => Linked /\ reply # "stored"
       /\ starter # 0 /\ past \cap {"dead", "missed", "half"} = {} /\ acts = 0 /\ ~item.conflict =>
            item.text \in 1..starter /\ issues[item.issue] = Rendering(item.text, "done")
       /\ reply = "dropped" => faults # 0)
=============================================================================
