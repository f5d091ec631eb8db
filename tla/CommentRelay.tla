--------------------------- MODULE CommentRelay ---------------------------
(***************************************************************************)
(* A comment of a GitHub issue and its copy in the Discord thread: the     *)
(* issue_comment webhooks, the reconciliation that reads the comment and   *)
(* enqueues what it has read, the relay item with its segments             *)
(* (relay_items, relay_segments), the operations discord.item.sync and     *)
(* discord.item.delete, and the messages.  The relay posts a long text as  *)
(* several messages, makes the thread when the link has none, and opens    *)
(* the archived thread of a closed issue for as long as it writes.         *)
(*                                                                         *)
(* Handlers run as in MessageRelay: one at a time, a step for every await, *)
(* an end between any two.  Webhooks and snapshots are partitions of their *)
(* own, so that one may overtake the other.  Nobody else deletes the       *)
(* messages, and the comment is a user's, not the relay's own.             *)
(***************************************************************************)
EXTENDS Naturals, Sequences, FiniteSets

CONSTANTS
  MaxText,       \* texts the comment may have
  Long,          \* those that take two messages
  MaxVersion,    \* bound: what the author does to the comment
  MaxMessages,   \* bound: messages the relay posts
  MaxFaults,     \* bound: interrupted handlers, dead rows, failed deliveries
  MaxRuns        \* bound: reconciliations that find the comment

Text    == 1..MaxText
Message == 1..MaxMessages

ASSUME CommentAssumption ==
  /\ MaxText \in Nat /\ Long \subseteq Text /\ MaxVersion \in Nat
  /\ MaxMessages \in Nat /\ MaxFaults \in Nat /\ MaxRuns \in Nat

VARIABLES
  comment,    \* the comment on GitHub
  hooks,      \* issue_comment webhooks on their way, in no order
  failed,     \* webhooks GitHub could not deliver and the relay has not received since
  inbox,      \* partition github:issue: the events not yet settled
  plan,       \* what a running reconciliation has read
  snapshots,  \* partition reconcile:issue: the events not yet settled
  ops,        \* partition link: keys of the operations not yet settled
  keys,       \* idempotency keys of all operations of the item so far
  item,       \* the relay item
  segments,   \* its segments: messages and the hashes of what they show
  thread,     \* the link's thread and whether the issue is closed
  archived,   \* the thread is archived
  messages,   \* what the messages in Discord show
  posted,     \* the last message posted
  threads,    \* the last thread made
  handler,    \* the running handler
  faults, runs,
  heard,      \* the newest version of the comment that was handled
  late,       \* an older version was handled after a newer one
  returned,   \* the author went back to a text the comment had before
  dead        \* a row died

vars == <<comment, hooks, failed, inbox, plan, snapshots, ops, keys, item, segments, thread, archived,
          messages, posted, threads, handler, faults, runs, heard, late, returned, dead>>

NoText    == 0
NoThread  == 0
NoMessage == 0
Version   == 0..MaxVersion

\* What a message shows: a part of a text, or nothing once it is deleted.
Shown == [text : Text \cup {NoText}, part : {1, 2}]
Gone  == [text |-> NoText, part |-> 1]

\* renderGitHubToDiscord
Rendering(t) == [i \in 1..(IF t \in Long THEN 2 ELSE 1) |-> [text |-> t, part |-> i]]

Event   == [kind : {"none", "written", "deleted"}, text : Text \cup {NoText}, version : Version]
NoEvent == [kind |-> "none", text |-> NoText, version |-> 0]

\* Mutant: the key of a sync does not name the text.
SyncOfItem(t) == <<"sync", NoText>>

SyncOf(t)  == <<"sync", t>>            \* discord:sync:{item}:{fingerprint}
DeleteItem == <<"delete", NoText>>     \* discord:delete:{item}
Key        == {SyncOf(t) : t \in Text} \cup {DeleteItem}

Comment == [state : {"unposted", "posted", "gone"}, text : Text \cup {NoText}, version : Version,
            used : SUBSET Text]
Item    == [state : {"none", "ACTIVE", "DELETED"}, text : Text \cup {NoText},
            destination : Message \cup {NoMessage}]
Segment == [message : Message, hash : Shown]

Handler == [job : {"none", "live", "snapshot", "operation"},
            step : {"none", "upsert", "sync", "delete", "open", "segment", "attach", "locate",
                    "surplus", "save", "close", "erase", "mark", "end"},
            event : Event, text : Text \cup {NoText},
            old : Seq(Segment),         \* getSegments, as read
            done : Seq(Message),        \* messageIds
            made : BOOLEAN,             \* item.destinationId was set when it was read
            opened : BOOLEAN]           \* temporarilyUnarchived

Idle == [job |-> "none", step |-> "none", event |-> NoEvent, text |-> NoText, old |-> <<>>,
         done |-> <<>>, made |-> FALSE, opened |-> FALSE]

TypeOK ==
  /\ comment \in Comment
  /\ hooks \in SUBSET Event /\ failed \in SUBSET Event /\ inbox \in Seq(Event) /\ plan \in Event /\ snapshots \in Seq(Event)
  /\ ops \in Seq(Key) /\ keys \in SUBSET Key
  /\ item \in Item /\ segments \in Seq(Segment)
  /\ thread \in [id : Nat, closed : BOOLEAN] /\ archived \in BOOLEAN
  /\ messages \in [Message -> Shown] /\ posted \in Message \cup {NoMessage} /\ threads \in Nat
  /\ handler \in Handler
  /\ faults \in 0..MaxFaults /\ runs \in 0..MaxRuns
  /\ heard \in Version /\ late \in BOOLEAN /\ returned \in BOOLEAN /\ dead \in BOOLEAN

\* The link has a thread, archived if the issue is closed, or an open issue has none.
Init ==
  /\ comment = [state |-> "unposted", text |-> NoText, version |-> 0, used |-> {}]
  /\ hooks = {} /\ failed = {} /\ inbox = <<>> /\ plan = NoEvent /\ snapshots = <<>> /\ ops = <<>> /\ keys = {}
  /\ item = [state |-> "none", text |-> NoText, destination |-> NoMessage]
  /\ segments = <<>>
  /\ thread \in {[id |-> NoThread, closed |-> FALSE]} \cup [id : {1}, closed : BOOLEAN]
  /\ archived = thread.closed
  /\ messages = [m \in Message |-> Gone] /\ posted = NoMessage /\ threads = thread.id
  /\ handler = Idle
  /\ faults = 0 /\ runs = 0 /\ heard = 0 /\ late = FALSE /\ returned = FALSE /\ dead = FALSE

queues  == <<inbox, snapshots, ops, keys>>
record  == <<item, segments, thread>>
discord == <<archived, messages, posted, threads>>
outside == <<comment, hooks, failed, plan, runs, returned>>
history == <<faults, heard, late, dead>>

----------------------------------------------------------------------------
\* GitHub: what the author does, and the webhook of it.

Author(state, text) ==
  /\ comment.version < MaxVersion
  /\ comment' = [state |-> state, text |-> text, version |-> comment.version + 1,
                 used |-> comment.used \cup {text}]
  /\ returned' = (returned \/ (state = "posted" /\ text \in comment.used))
  /\ hooks' = hooks \cup {[kind |-> IF state = "posted" THEN "written" ELSE "deleted",
                           text |-> text, version |-> comment'.version]}
  /\ UNCHANGED <<queues, failed, plan, record, discord, handler, runs, history>>

Post(t) == comment.state = "unposted" /\ Author("posted", t)
Edit(t) == comment.state = "posted" /\ t # comment.text /\ Author("posted", t)
Remove  == comment.state = "posted" /\ Author("gone", comment.text)

\* A webhook arrives.  A redelivery has the key of the first delivery: one of an event that
\* is there already changes nothing and is no step of this model.
Deliver(event) ==
  /\ event \in hooks
  /\ hooks' = hooks \ {event}
  /\ inbox' = Append(inbox, event)
  /\ UNCHANGED <<comment, failed, plan, runs, returned, snapshots, ops, keys, record, discord,
                 handler, history>>

\* Nobody answers, or enqueueInbox fails.
FailDelivery(event) ==
  /\ event \in hooks
  /\ hooks' = hooks \ {event} /\ failed' = failed \cup {event}
  /\ faults < MaxFaults /\ faults' = faults + 1
  /\ UNCHANGED <<comment, plan, runs, returned, queues, record, discord, handler, heard, late, dead>>

\* The recovery scheduler finds the failed delivery and asks for it again, once in a while.
Redeliver ==
  /\ failed # {}
  /\ hooks' = hooks \cup failed /\ failed' = {}
  /\ UNCHANGED <<comment, plan, runs, returned, queues, record, discord, handler, history>>

----------------------------------------------------------------------------
\* The reconciliation reads the inventory and enqueues it afterwards, one row a comment.

ReadInventory ==
  /\ runs < MaxRuns /\ runs' = runs + 1
  /\ plan = NoEvent /\ comment.state = "posted"
  /\ plan' = [kind |-> "written", text |-> comment.text, version |-> comment.version]
  /\ UNCHANGED <<comment, hooks, failed, returned, queues, record, discord, handler, history>>

EnqueueSnapshot ==
  /\ plan # NoEvent
  /\ snapshots' = Append(snapshots, plan)
  /\ plan' = NoEvent
  /\ UNCHANGED <<comment, hooks, failed, runs, returned, inbox, ops, keys, record, discord, handler, history>>

----------------------------------------------------------------------------
\* The worker: claims, and the end of a handler.

Goto(step) == handler' = [handler EXCEPT !.step = step]
ClaimOnly  == UNCHANGED <<outside, queues, record, discord, history>>

StepOf(event) == IF event.kind = "deleted" THEN "delete" ELSE "upsert"

ClaimEvent ==
  /\ handler = Idle /\ inbox # <<>>
  /\ handler' = [Idle EXCEPT !.job = "live", !.event = Head(inbox), !.step = StepOf(Head(inbox))]
  /\ ClaimOnly

ClaimSnapshot ==
  /\ handler = Idle /\ snapshots # <<>>
  /\ handler' = [Idle EXCEPT !.job = "snapshot", !.event = Head(snapshots),
                             !.step = StepOf(Head(snapshots))]
  /\ ClaimOnly

\* The handler renders the item as it is now; its payload has no body.
ClaimSync ==
  /\ handler = Idle /\ ops # <<>> /\ Head(ops) # DeleteItem
  /\ handler' = [Idle EXCEPT !.job = "operation", !.text = item.text, !.old = segments,
                             !.made = item.destination # NoMessage,
                             !.opened = thread.id # NoThread /\ thread.closed,
                             !.step = IF thread.id # NoThread /\ thread.closed
                                      THEN "open" ELSE "segment"]
  /\ ClaimOnly

ClaimDelete ==
  /\ handler = Idle /\ ops # <<>> /\ Head(ops) = DeleteItem
  /\ handler' = [Idle EXCEPT !.job = "operation", !.old = segments,
                             !.step = IF thread.id = NoThread THEN "end"
                                      ELSE IF segments = <<>> THEN "mark" ELSE "erase"]
  /\ ClaimOnly

\* The row the handler has claimed is completed or dead.
SettleRow ==
  /\ handler' = Idle
  /\ inbox'     = IF handler.job = "live" THEN Tail(inbox) ELSE inbox
  /\ snapshots' = IF handler.job = "snapshot" THEN Tail(snapshots) ELSE snapshots
  /\ ops'       = IF handler.job = "operation" THEN Tail(ops) ELSE ops
  /\ UNCHANGED <<outside, keys, record, discord, heard, late>>

Finish == handler.step = "end" /\ SettleRow /\ UNCHANGED <<faults, dead>>

\* A crash, a failure worth a retry, or an answer that was lost; a crash ends the
\* reconciliation as well, whose run stays RUNNING.
Interrupt ==
  /\ handler # Idle \/ plan # NoEvent
  /\ faults < MaxFaults /\ faults' = faults + 1
  /\ handler' = Idle /\ plan' \in {plan, NoEvent}
  /\ UNCHANGED <<comment, hooks, failed, runs, returned, queues, record, discord, heard, late,
                 dead>>

\* The last attempt fails, or a failure that is not worth a retry.
GiveUp ==
  /\ handler # Idle /\ faults < MaxFaults
  /\ SettleRow /\ faults' = faults + 1 /\ dead' = TRUE

\* Discord does not know the message: not-found is permanent.
NotFound == SettleRow /\ dead' = TRUE /\ UNCHANGED faults

----------------------------------------------------------------------------
\* The event handler (issue_comment.created, .edited and .deleted).

\* What the history keeps of an event that takes effect.
Hear ==
  /\ heard' = IF handler.event.version > heard THEN handler.event.version ELSE heard
  /\ late' = (late \/ handler.event.version < heard)
  /\ UNCHANGED <<faults, dead>>

\* Mutant: the item's state is the event's kind.
UpsertItemOfKind ==
  /\ handler.step = "upsert"
  /\ item' = [item EXCEPT !.state = handler.event.kind, !.text = handler.event.text]
  /\ Goto("sync") /\ Hear
  /\ UNCHANGED <<outside, queues, segments, thread, discord>>

\* Neither the age of the event nor the deletion of the item matters.
UpsertItem ==
  /\ handler.step = "upsert"
  /\ item' = [item EXCEPT !.state = "ACTIVE", !.text = handler.event.text]
  /\ Goto("sync") /\ Hear
  /\ UNCHANGED <<outside, queues, segments, thread, discord>>

Enqueue(key) ==
  /\ keys' = keys \cup {key}
  /\ ops' = IF key \in keys THEN ops ELSE Append(ops, key)
  /\ Goto("end")
  /\ UNCHANGED <<outside, inbox, snapshots, record, discord>>

EnqueueSync ==
  /\ handler.step = "sync"
  /\ Enqueue(SyncOf(handler.event.text)) /\ UNCHANGED history

EnqueueDelete ==
  /\ handler.step = "delete"
  /\ Hear
  /\ IF item.state = "none"
     THEN Goto("end") /\ UNCHANGED <<outside, queues, record, discord>>
     ELSE Enqueue(DeleteItem)

----------------------------------------------------------------------------
\* discord.item.sync

Parts    == Rendering(handler.text)
Position == Len(handler.done) + 1

\* Where the loop over the segments goes on once a message is there for the position.
AfterSegment(done) ==
  IF Len(done) < Len(Parts) THEN "segment"
  ELSE IF Len(handler.old) > Len(Parts) THEN "surplus" ELSE "save"

OpenThread ==
  /\ handler.step = "open"
  /\ archived' = FALSE
  /\ Goto("segment")
  /\ UNCHANGED <<outside, queues, record, messages, posted, threads, history>>

\* A message that shows the segment already is left alone.
EditSegment ==
  /\ handler.step = "segment" /\ Position <= Len(handler.old)
  /\ LET segment == handler.old[Position]
         done    == Append(handler.done, segment.message)
         Done    == handler' = [handler EXCEPT !.done = done, !.step = AfterSegment(done)]
     IN IF segment.hash = Parts[Position]
        THEN Done /\ ClaimOnly
        ELSE IF messages[segment.message] = Gone
        THEN NotFound
        ELSE /\ messages' = [messages EXCEPT ![segment.message] = Parts[Position]]
             /\ Done
             /\ UNCHANGED <<outside, queues, record, archived, posted, threads, history>>

PostMessage(step) ==
  /\ posted < MaxMessages /\ posted' = posted + 1
  /\ messages' = [messages EXCEPT ![posted'] = Parts[Position]]
  /\ LET done == Append(handler.done, posted')
     IN handler' = [handler EXCEPT !.done = done,
                                   !.step = IF step = "next" THEN AfterSegment(done) ELSE step]
  /\ UNCHANGED <<outside, queues, record, archived, history>>

\* The message that starts a thread of its own.
CreateThread ==
  /\ handler.step = "segment" /\ Position > Len(handler.old) /\ thread.id = NoThread
  /\ PostMessage("attach")
  /\ threads' = threads + 1

CreateMessage ==
  /\ handler.step = "segment" /\ Position > Len(handler.old) /\ thread.id # NoThread
  /\ PostMessage(IF handler.made THEN "next" ELSE "locate")
  /\ UNCHANGED threads

AttachThread ==
  /\ handler.step = "attach"
  /\ thread' = [thread EXCEPT !.id = threads]
  /\ Goto("locate")
  /\ UNCHANGED <<outside, queues, item, segments, discord, history>>

\* Every message made overwrites the one before, for the item was read before them.
SetDestination ==
  /\ handler.step = "locate"
  /\ item' = [item EXCEPT !.destination = handler.done[Len(handler.done)]]
  /\ Goto(AfterSegment(handler.done))
  /\ UNCHANGED <<outside, queues, segments, thread, discord, history>>

\* Here a message that is gone fails the operation.
DeleteSurplus ==
  /\ handler.step = "surplus"
  /\ LET surplus == handler.old[Len(Parts) + 1].message
         rest    == SubSeq(handler.old, 1, Len(Parts))
                      \o SubSeq(handler.old, Len(Parts) + 2, Len(handler.old))
     IN IF messages[surplus] = Gone
        THEN NotFound
        ELSE /\ messages' = [messages EXCEPT ![surplus] = Gone]
             /\ handler' = [handler EXCEPT !.old = rest,
                              !.step = IF Len(rest) > Len(Parts) THEN "surplus" ELSE "save"]
             /\ UNCHANGED <<outside, queues, record, archived, posted, threads, history>>

\* Mutant: only what was there before is recorded.
ReplaceOldSegments ==
  /\ handler.step = "save"
  /\ segments' = [i \in 1..Len(handler.old) |->
                    [message |-> handler.done[i], hash |-> Parts[i]]]
  /\ Goto(IF handler.opened THEN "close" ELSE "end")
  /\ UNCHANGED <<outside, queues, item, thread, discord, history>>

\* Mutant: the thread is archived again only when nothing was posted.
ReplaceSegmentsUnlessPosted ==
  /\ handler.step = "save"
  /\ segments' = [i \in 1..Len(Parts) |-> [message |-> handler.done[i], hash |-> Parts[i]]]
  /\ Goto(IF handler.opened /\ Len(handler.old) = Len(Parts) THEN "close" ELSE "end")
  /\ UNCHANGED <<outside, queues, item, thread, discord, history>>

ReplaceSegments ==
  /\ handler.step = "save"
  /\ segments' = [i \in 1..Len(Parts) |-> [message |-> handler.done[i], hash |-> Parts[i]]]
  /\ Goto(IF handler.opened THEN "close" ELSE "end")
  /\ UNCHANGED <<outside, queues, item, thread, discord, history>>

CloseThread ==
  /\ handler.step = "close"
  /\ archived' = TRUE
  /\ Goto("end")
  /\ UNCHANGED <<outside, queues, record, messages, posted, threads, history>>

----------------------------------------------------------------------------
\* discord.item.delete

\* A message that is not there any more counts as deleted.
DeleteMessage ==
  /\ handler.step = "erase"
  /\ messages' = [messages EXCEPT ![Head(handler.old).message] = Gone]
  /\ handler' = [handler EXCEPT !.old = Tail(@), !.step = IF Tail(handler.old) = <<>>
                                                          THEN "mark" ELSE "erase"]
  /\ UNCHANGED <<outside, queues, record, archived, posted, threads, history>>

\* Mutant: the segments stay.
MarkItemDeleted ==
  /\ handler.step = "mark"
  /\ item' = [item EXCEPT !.state = "DELETED", !.destination = NoMessage]
  /\ Goto("end")
  /\ UNCHANGED <<outside, queues, segments, thread, discord, history>>

MarkDeleted ==
  /\ handler.step = "mark"
  /\ item' = [item EXCEPT !.state = "DELETED", !.destination = NoMessage]
  /\ segments' = <<>>
  /\ Goto("end")
  /\ UNCHANGED <<outside, queues, thread, discord, history>>

----------------------------------------------------------------------------
Work ==
  \/ \E event \in hooks : Deliver(event)
  \/ Redeliver \/ EnqueueSnapshot
  \/ ClaimEvent \/ ClaimSnapshot \/ ClaimSync \/ ClaimDelete \/ Finish
  \/ UpsertItem \/ EnqueueSync \/ EnqueueDelete
  \/ OpenThread \/ EditSegment \/ CreateThread \/ CreateMessage \/ AttachThread \/ SetDestination
  \/ DeleteSurplus \/ ReplaceSegments \/ CloseThread
  \/ DeleteMessage \/ MarkDeleted

Next ==
  \/ \E t \in Text : Post(t) \/ Edit(t)
  \/ Remove
  \/ \E event \in hooks : FailDelivery(event)
  \/ ReadInventory \/ Interrupt \/ GiveUp
  \/ Work

Spec     == Init /\ [][Next]_vars
FairSpec == Spec /\ WF_vars(Work)

----------------------------------------------------------------------------
\* Properties

Live  == {m \in Message : messages[m] # Gone}
Named == {segments[i].message : i \in 1..Len(segments)}
Held  == {handler.done[i] : i \in 1..Len(handler.done)}

\* With no operation to run, the segments on record are one whole text, and their
\* messages are there and show it: an edit is never left half done (#syncDiscordItem),
\* nor does a deletion leave segments a later edit would take for live ones (markDeleted).
\* A text that comes back after an interrupted edit to another is the exception: its
\* hash is still on record, and the messages are left as they are.
WholeWhenSettled ==
  handler = Idle /\ ops = <<>> /\ ~dead =>
    /\ segments = <<>> \/ \E t \in Text :
         /\ Len(segments) = Len(Rendering(t))
         /\ \A i \in 1..Len(segments) : segments[i].hash = Rendering(t)[i]
    /\ (faults = 0 \/ ~(late \/ returned)) =>
         \A i \in 1..Len(segments) : messages[segments[i].message] = segments[i].hash

\* A message no segment names, or a second thread, is the price of an interruption:
\* what createMessage and createThread have made and #syncDiscordItem could not record.
DuplicatesPerInterruption ==
  /\ Cardinality(Live \ (Named \cup Held)) <= 2 * faults
  /\ threads <= faults + (IF thread.id # NoThread \/ handler.step = "attach" THEN 1 ELSE 0)

\* The thread of a closed issue is archived again once its operations are settled,
\* whatever interrupted them (temporarilyUnarchived).
ArchivedAgain == handler = Idle /\ ops = <<>> /\ ~dead => archived = thread.closed

Quiet ==
  /\ hooks = {} /\ failed = {} /\ plan = NoEvent
  /\ inbox = <<>> /\ snapshots = <<>> /\ ops = <<>>
  /\ handler = Idle

\* The last thing the relay heard of the comment is what became of it, in order.
UpToDate == heard = comment.version /\ ~late

InStep ==
  IF comment.state = "posted"
  THEN /\ Len(segments) = Len(Rendering(comment.text))
       /\ \A i \in 1..Len(segments) :
            segments[i].hash = Rendering(comment.text)[i]
            /\ messages[segments[i].message] = segments[i].hash
  ELSE segments = <<>>

\* The queues drain, the last thing the author did has been heard of even if its webhook
\* failed (redeliverFailedWebhooks), and Discord shows the last text, or nothing of a
\* deleted comment: unless a row died, events overtook each other, or a text came back.
Follows ==
  <>[](Quiet /\ (~dead => heard = comment.version) /\ (UpToDate /\ ~dead /\ ~returned => InStep))

\* The same of a text that comes back (docs/SPECIFICATION.md:254, "Editing GitHub-native
\* content re-renders its Discord webhook segments"): enqueueOutbox finds the key of the
\* first time and drops the operation.
FollowsReturns == <>[](Quiet /\ (UpToDate /\ ~dead => InStep))
=============================================================================
