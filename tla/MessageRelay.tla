--------------------------- MODULE MessageRelay ---------------------------
(***************************************************************************)
(* A message of a linked Discord thread and its copy on GitHub: the        *)
(* gateway's events, the relay item (relay_items, attachment_links), the   *)
(* operations github.item.sync, github.item.delete and                     *)
(* media.attachment.upload, and the comment, which users edit as well.     *)
(*                                                                         *)
(* One worker runs one handler at a time (durable-worker.ts); a handler is *)
(* a sequence of awaits, one step each, and may end between any two.  Its  *)
(* row is then run again from the start, or dies.  JobQueue has the detail *)
(* of the queue; here the partitions are the event queue of the thread, the*)
(* operations of the link and the upload, and any claimable row is next,   *)
(* because a back-off may hold up every other one.                         *)
(***************************************************************************)
EXTENDS Naturals, Sequences, FiniteSets

CONSTANTS
  MaxRevision,   \* bound: revisions of the message
  MaxComments,   \* bound: comments the relay makes
  MaxFaults,     \* bound: interrupted handlers, dead rows, undelivered events
  MaxEdits       \* bound: what users do to comments on GitHub

NoComment == 0
Comment   == 1..MaxComments

ASSUME MessageAssumption ==
  /\ MaxRevision \in Nat \ {0} /\ MaxComments \in Nat
  /\ MaxFaults \in Nat /\ MaxEdits \in Nat

VARIABLES
  message,    \* the Discord message
  inbox,      \* partition discord:thread: kinds of the events not yet settled
  ops,        \* partition link: keys of the operations not yet settled
  keys,       \* idempotency keys of all operations of the link so far
  upload,     \* partition attachment: the upload of the message's attachment
  item,       \* the relay item with the state of its attachment link
  shadow,     \* revision_shadows has a row for the item
  comments,   \* the comments on GitHub
  made,       \* the last comment made
  hooks,      \* issue_comment webhooks on their way, in no order
  mirrored,   \* comments taken for a user's and relayed to Discord
  handler,    \* the running handler
  faults, edits,
  lost,       \* an event was not delivered or a row died
  touched,    \* comments a user edited or deleted
  kept        \* comments whose user's edit the relay can tell from its own and shall keep

vars == <<message, inbox, ops, keys, upload, item, shadow, comments, made, hooks, mirrored,
          handler, faults, edits, lost, touched, kept>>

Revision == 1..MaxRevision
Media    == {"none", "PENDING", "COMPLETE"}

\* A comment's body; the relay's names the revision and the attachment it shows.
Body     == [by : {"nobody", "relay", "user"}, text : 0..MaxRevision, media : Media]
Absent   == [by |-> "nobody", text |-> 0, media |-> "none"]
UserText == [by |-> "user", text |-> 0, media |-> "none"]
Rendered(text, media) == [by |-> "relay", text |-> text, media |-> media]

EventKind == {"create", "update", "delete"}
\* Mutant: one key for all syncs of an item.
SyncOfItem(cause) == <<"sync", 0>>

SyncOf(cause) == <<"sync", cause>>      \* github:sync:{item}:{revision}
SyncOfUpload  == SyncOf(0)              \* github:sync:{item}:attachment:{hash}
DeleteItem    == <<"delete", 0>>        \* github:delete:{item}
Key == {SyncOf(r) : r \in 0..MaxRevision} \cup {DeleteItem}

Message == [state : {"unposted", "posted", "gone"}, text : 0..MaxRevision, media : BOOLEAN]

\* destination NoComment and hash Absent stand for NULL.
Item == [state : {"none", "ACTIVE", "DELETED"}, text : 0..MaxRevision, media : Media,
         destination : Comment \cup {NoComment}, hash : Body]

Handler == [job : {"none", "event", "operation", "upload"},
            step : {"none", "fetch", "record", "attach", "upload", "sync", "delete",
                    "create", "locate", "read", "write", "hash", "conflict",
                    "erase", "mark", "complete", "end"},
            text : 0..MaxRevision,      \* of the event's message
            body : Body,                \* rendered when the operation began
            comment : Comment \cup {NoComment}, hash : Body]

Idle == [job |-> "none", step |-> "none", text |-> 0, body |-> Absent,
         comment |-> NoComment, hash |-> Absent]

TypeOK ==
  /\ message \in Message
  /\ inbox \in Seq(EventKind) /\ ops \in Seq(Key) /\ keys \in SUBSET Key
  /\ upload \in {"none", "queued", "settled"}
  /\ item \in Item /\ shadow \in BOOLEAN
  /\ comments \in [Comment -> Body] /\ made \in 0..MaxComments
  /\ hooks \in SUBSET ({"written", "removed"} \X Comment)
  /\ mirrored \in SUBSET Comment
  /\ handler \in Handler
  /\ faults \in 0..MaxFaults /\ edits \in 0..MaxEdits /\ lost \in BOOLEAN
  /\ touched \in SUBSET Comment /\ kept \in SUBSET Comment

Init ==
  /\ message \in [state : {"unposted"}, text : {0}, media : BOOLEAN]
  /\ inbox = <<>> /\ ops = <<>> /\ keys = {} /\ upload = "none"
  /\ item = [state |-> "none", text |-> 0, media |-> "none",
             destination |-> NoComment, hash |-> Absent]
  /\ shadow = FALSE
  /\ comments = [c \in Comment |-> Absent] /\ made = 0
  /\ hooks = {} /\ mirrored = {}
  /\ handler = Idle
  /\ faults = 0 /\ edits = 0 /\ lost = FALSE /\ touched = {} /\ kept = {}

queues  == <<inbox, ops, keys, upload>>
github  == <<comments, made, hooks>>
record  == <<item, shadow, mirrored>>
history == <<faults, edits, lost, touched, kept>>

----------------------------------------------------------------------------
\* Discord: what the author does, and the event the gateway delivers or not.

Announce(kind) ==
  \/ inbox' = Append(inbox, kind) /\ UNCHANGED <<faults, lost>>
  \/ /\ faults < MaxFaults /\ faults' = faults + 1
     /\ lost' = TRUE /\ UNCHANGED inbox

AuthorOnly == UNCHANGED <<ops, keys, upload, record, github, handler, edits, touched>>

Post ==
  /\ message.state = "unposted"
  /\ message' = [message EXCEPT !.state = "posted", !.text = 1]
  /\ Announce("create") /\ AuthorOnly /\ UNCHANGED kept

\* What an edit after a conflict does to a user's revision, docs/SPECIFICATION.md:264 says
\* otherwise than the code: UserEditsStay claims nothing from then on.
Edit ==
  /\ message.state = "posted" /\ message.text < MaxRevision
  /\ message' = [message EXCEPT !.text = @ + 1]
  /\ Announce("update") /\ AuthorOnly
  /\ kept' = IF shadow THEN {} ELSE kept

Remove ==
  /\ message.state = "posted"
  /\ message' = [message EXCEPT !.state = "gone"]
  /\ Announce("delete") /\ AuthorOnly /\ UNCHANGED kept

----------------------------------------------------------------------------
\* GitHub: users edit and delete the relay's comments.

\* The relay can tell the edit from its own writing when it has recorded what it
\* wrote last, and is not just about to write.
Tellable(c) ==
  /\ item.destination = c /\ item.hash # Absent
  /\ ~(handler.step = "write" /\ handler.comment = c)

UserActs(c) ==
  /\ comments[c].by # "nobody"
  /\ edits < MaxEdits /\ edits' = edits + 1
  /\ touched' = touched \cup {c}
  /\ UNCHANGED <<message, queues, record, made, handler, faults, lost>>

UserEdits(c) ==
  /\ UserActs(c)
  /\ comments' = [comments EXCEPT ![c] = UserText]
  /\ hooks' = hooks \cup {<<"written", c>>}
  /\ kept' = IF Tellable(c) THEN kept \cup {c} ELSE kept

UserDeletes(c) ==
  /\ UserActs(c)
  /\ comments' = [comments EXCEPT ![c] = Absent]
  /\ hooks' = hooks \cup {<<"removed", c>>}
  /\ UNCHANGED kept

----------------------------------------------------------------------------
\* The worker: claims, and the end of a handler.

Start(job, step) == [Idle EXCEPT !.job = job, !.step = step]
Goto(step) == handler' = [handler EXCEPT !.step = step]

ClaimOnly == UNCHANGED <<message, queues, record, github, history>>

ClaimEvent ==
  /\ handler = Idle /\ inbox # <<>>
  /\ handler' = CASE Head(inbox) = "create" -> [Start("event", "record") EXCEPT !.text = 1]
                  [] Head(inbox) = "update" -> Start("event", "fetch")
                  [] Head(inbox) = "delete" -> Start("event", "delete")
  /\ ClaimOnly

\* Mutant: the operation's payload holds the text of the time it was enqueued.
ClaimSyncOfPayload ==
  /\ handler = Idle /\ ops # <<>> /\ Head(ops) # DeleteItem
  /\ handler' = [Start("operation", IF item.destination = NoComment THEN "create" ELSE "read")
                   EXCEPT !.body = Rendered(Head(ops)[2], item.media),
                          !.comment = item.destination, !.hash = item.hash]
  /\ ClaimOnly

\* The handler renders the item and the attachments it has read.
ClaimSync ==
  /\ handler = Idle /\ ops # <<>> /\ Head(ops) # DeleteItem
  /\ handler' = [Start("operation", IF item.destination = NoComment THEN "create" ELSE "read")
                   EXCEPT !.body = Rendered(item.text, item.media),
                          !.comment = item.destination, !.hash = item.hash]
  /\ ClaimOnly

ClaimDelete ==
  /\ handler = Idle /\ ops # <<>> /\ Head(ops) = DeleteItem
  /\ handler' = [Start("operation", IF item.destination = NoComment THEN "mark" ELSE "erase")
                   EXCEPT !.comment = item.destination]
  /\ ClaimOnly

ClaimUpload ==
  /\ handler = Idle /\ upload = "queued"
  /\ handler' = Start("upload", "complete")
  /\ ClaimOnly

\* The row the handler has claimed is completed or dead.
SettleRow ==
  /\ handler' = Idle
  /\ inbox'  = IF handler.job = "event" THEN Tail(inbox) ELSE inbox
  /\ ops'    = IF handler.job = "operation" THEN Tail(ops) ELSE ops
  /\ upload' = IF handler.job = "upload" THEN "settled" ELSE upload
  /\ UNCHANGED <<message, keys, record, github, edits, touched, kept>>

Finish == handler.step = "end" /\ SettleRow /\ UNCHANGED <<faults, lost>>

\* A crash, a failure worth a retry, or an answer that was lost.
Interrupt ==
  /\ handler # Idle /\ faults < MaxFaults
  /\ handler' = Idle /\ faults' = faults + 1
  /\ UNCHANGED <<message, queues, record, github, edits, lost, touched, kept>>

\* The last attempt fails, or a failure that is not worth a retry.
GiveUp ==
  /\ handler # Idle /\ faults < MaxFaults
  /\ SettleRow /\ faults' = faults + 1 /\ lost' = TRUE

----------------------------------------------------------------------------
\* The event handlers.

\* A message that has been deleted cannot be fetched: the event is dead.
FetchMessage ==
  /\ handler.step = "fetch"
  /\ IF message.state = "gone"
     THEN SettleRow /\ UNCHANGED <<faults, lost>>
     ELSE /\ handler' = [handler EXCEPT !.step = "record", !.text = message.text]
          /\ ClaimOnly

\* Mutant: the item's state is copied from the message.
UpsertItemOfState ==
  /\ handler.step = "record"
  /\ item' = [item EXCEPT !.state = message.state, !.text = handler.text]
  /\ Goto(IF message.media THEN "attach" ELSE "sync")
  /\ UNCHANGED <<message, queues, shadow, mirrored, github, history>>

UpsertItem ==
  /\ handler.step = "record"
  /\ item' = [item EXCEPT !.state = "ACTIVE", !.text = handler.text]
  /\ Goto(IF message.media THEN "attach" ELSE "sync")
  /\ UNCHANGED <<message, queues, shadow, mirrored, github, history>>

UpsertAttachment ==
  /\ handler.step = "attach"
  /\ item' = [item EXCEPT !.media = IF @ = "none" THEN "PENDING" ELSE @]
  /\ Goto(IF item'.media = "PENDING" THEN "upload" ELSE "sync")
  /\ UNCHANGED <<message, queues, shadow, mirrored, github, history>>

EnqueueUpload ==
  /\ handler.step = "upload"
  /\ upload' = IF upload = "none" THEN "queued" ELSE upload
  /\ Goto("sync")
  /\ UNCHANGED <<message, inbox, ops, keys, record, github, history>>

Enqueue(key) ==
  /\ keys' = keys \cup {key}
  /\ ops' = IF key \in keys THEN ops ELSE Append(ops, key)
  /\ Goto("end")
  /\ UNCHANGED <<message, inbox, upload, record, github, history>>

EnqueueSync == handler.step = "sync" /\ handler.job = "event" /\ Enqueue(SyncOf(handler.text))

EnqueueDelete ==
  /\ handler.step = "delete"
  /\ IF item.state = "none" THEN Goto("end") /\ ClaimOnly ELSE Enqueue(DeleteItem)

\* Mutant: the relay does not look for the comment among its destinations.
HearEveryHook(kind, c) ==
  /\ handler = Idle /\ <<kind, c>> \in hooks
  /\ hooks' = hooks \ {<<kind, c>>}
  /\ mirrored' = IF kind = "written" THEN mirrored \cup {c} ELSE mirrored \ {c}
  /\ UNCHANGED <<message, queues, item, shadow, comments, made, handler, history>>

\* An issue_comment webhook: ignored for a comment that the item names, otherwise
\* relayed like the comment of a user.
HearHook(kind, c) ==
  /\ handler = Idle /\ <<kind, c>> \in hooks
  /\ hooks' = hooks \ {<<kind, c>>}
  /\ mirrored' = IF item.destination = c THEN mirrored
                 ELSE IF kind = "written" THEN mirrored \cup {c} ELSE mirrored \ {c}
  /\ UNCHANGED <<message, queues, item, shadow, comments, made, handler, history>>

----------------------------------------------------------------------------
\* github.item.sync

Write(c) ==
  /\ comments' = [comments EXCEPT ![c] = handler.body]
  /\ hooks' = hooks \cup {<<"written", c>>}
  /\ UNCHANGED <<message, queues, record, history>>

CreateComment ==
  /\ handler.step = "create" /\ made < MaxComments
  /\ made' = made + 1
  /\ Write(made')
  /\ handler' = [handler EXCEPT !.step = "locate", !.comment = made']

\* Mutant: the new comment is not recorded.
ForgetDestination == handler.step = "locate" /\ Goto("hash") /\ ClaimOnly

SetDestination ==
  /\ handler.step = "locate"
  /\ item' = [item EXCEPT !.destination = handler.comment]
  /\ Goto("hash")
  /\ UNCHANGED <<message, queues, shadow, mirrored, github, history>>

\* The hash of the comment as it is decides; reading a deleted one fails for good.
ReadComment ==
  /\ handler.step = "read"
  /\ IF comments[handler.comment] = Absent
     THEN SettleRow /\ UNCHANGED <<faults, lost>>
     ELSE /\ Goto(IF handler.hash \in {Absent, comments[handler.comment]}
                  THEN "write" ELSE "conflict")
          /\ ClaimOnly

\* Mutant: the hash is recorded for new comments only.
UpdateCommentOnly ==
  /\ handler.step = "write"
  /\ IF comments[handler.comment] = Absent
     THEN SettleRow /\ UNCHANGED <<faults, lost>>
     ELSE Write(handler.comment) /\ Goto("end") /\ UNCHANGED made

UpdateComment ==
  /\ handler.step = "write"
  /\ IF comments[handler.comment] = Absent
     THEN SettleRow /\ UNCHANGED <<faults, lost>>
     ELSE Write(handler.comment) /\ Goto("hash") /\ UNCHANGED made

SetRenderHash ==
  /\ handler.step = "hash"
  /\ item' = [item EXCEPT !.hash = handler.body]
  /\ Goto("end")
  /\ UNCHANGED <<message, queues, shadow, mirrored, github, history>>

\* Mutant: a conflict on record is taken for settled.
RecordConflictAsBase ==
  /\ handler.step = "conflict"
  /\ shadow' = TRUE
  /\ item' = [item EXCEPT !.hash = comments[handler.comment]]
  /\ Goto("end")
  /\ UNCHANGED <<message, queues, mirrored, github, history>>

\* The notice to the thread that follows changes nothing the relay keeps.
RecordConflict ==
  /\ handler.step = "conflict"
  /\ shadow' = TRUE
  /\ Goto("end")
  /\ UNCHANGED <<message, queues, item, mirrored, github, history>>

----------------------------------------------------------------------------
\* github.item.delete and media.attachment.upload

\* A comment that is not there any more counts as deleted.
DeleteComment ==
  /\ handler.step = "erase"
  /\ comments' = [comments EXCEPT ![handler.comment] = Absent]
  /\ hooks' = IF comments[handler.comment] = Absent THEN hooks
              ELSE hooks \cup {<<"removed", handler.comment>>}
  /\ Goto("mark")
  /\ UNCHANGED <<message, queues, record, made, history>>

MarkDeleted ==
  /\ handler.step = "mark"
  /\ item' = [item EXCEPT !.state = "DELETED", !.destination = NoComment, !.hash = Absent]
  /\ Goto("end")
  /\ UNCHANGED <<message, queues, shadow, mirrored, github, history>>

CompleteAttachment ==
  /\ handler.step = "complete"
  /\ item' = [item EXCEPT !.media = "COMPLETE"]
  /\ Goto("sync")
  /\ UNCHANGED <<message, queues, shadow, mirrored, github, history>>

EnqueueUploadSync == handler.step = "sync" /\ handler.job = "upload" /\ Enqueue(SyncOfUpload)

----------------------------------------------------------------------------
Work ==
  \/ ClaimEvent \/ ClaimSync \/ ClaimDelete \/ ClaimUpload \/ Finish
  \/ FetchMessage \/ UpsertItem \/ UpsertAttachment \/ EnqueueUpload
  \/ EnqueueSync \/ EnqueueDelete
  \/ CreateComment \/ SetDestination \/ ReadComment \/ UpdateComment \/ SetRenderHash \/ RecordConflict
  \/ DeleteComment \/ MarkDeleted \/ CompleteAttachment \/ EnqueueUploadSync
  \/ \E c \in Comment : HearHook("written", c) \/ HearHook("removed", c)

Next ==
  \/ Post \/ Edit \/ Remove
  \/ \E c \in Comment : UserEdits(c) \/ UserDeletes(c)
  \/ Interrupt \/ GiveUp
  \/ Work

Spec     == Init /\ [][Next]_vars
FairSpec == Spec /\ WF_vars(Work)

----------------------------------------------------------------------------
\* Properties

\* Comments on GitHub that no item names, nor will.
Orphan == {c \in Comment : comments[c].by # "nobody" /\ c # item.destination /\ c # handler.comment}

\* Every copy beyond the one the item names is the price of an interruption: what
\* createComment has made and #syncGitHubItem could not record.
OneCopyPerInterruption == Cardinality(Orphan) <= faults

\* The relay takes a comment of its own for a user's only if it is an orphan, or was
\* heard of after the message had been deleted (findRelayItemByDestination).
EchoesAreOrphans ==
  /\ item.destination \notin mirrored
  /\ item.state # "DELETED" => Cardinality(mirrored) <= faults

\* A user's edit on GitHub that the relay can tell from its own writing stays, through the
\* syncs of edits and uploads that follow, until the comment is deleted or, with a conflict
\* on record, the author edits the message once more (decideDiscordEdit).
UserEditsStay == \A c \in kept : comments[c] \in {UserText, Absent}

\* Discord is told of a conflict only if a user acted, or a handler was interrupted
\* between writing the comment and recording its hash.
ConflictHasCause == shadow => touched # {} \/ faults > 0

\* A comment never goes back to an older revision, nor from an attachment to its
\* placeholder: the item is read when the operation runs, not when it is enqueued.
NeverOlder ==
  [][\A c \in Comment :
       comments[c].by = "relay" /\ comments'[c].by = "relay" =>
         /\ comments'[c].text >= comments[c].text
         /\ comments[c].media = "COMPLETE" => comments'[c].media = "COMPLETE"]_vars

Quiet == handler = Idle /\ inbox = <<>> /\ ops = <<>> /\ upload # "queued"

\* What the item and the comment come to when nothing was lost.
InStep ==
  CASE message.state = "unposted" -> item.state = "none"
    [] message.state = "posted" ->
         /\ item.destination # NoComment
         /\ \/ comments[item.destination]
                 = Rendered(message.text, IF message.media THEN "COMPLETE" ELSE "none")
            \/ shadow \/ item.destination \in touched
    [] message.state = "gone" ->
         item.state = "DELETED" /\ (item.destination = NoComment \/ message.media)

\* The queues drain, and unless something was lost the comment then shows the last
\* revision with its attachment, or a conflict is on record, or a user changed it; a
\* deleted message has no comment, except one that a late upload brings back.
Settles == <>[](Quiet /\ (lost \/ InStep))
=============================================================================
